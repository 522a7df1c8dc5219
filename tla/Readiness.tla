------------------------------ MODULE Readiness ------------------------------
(***************************************************************************)
(* The mainnet commands: the committed manifest (packages/sdk/src/          *)
(* mainnet-artifacts.ts, mainnet-manifest.ts), the readiness report and the *)
(* gates before a transaction (mainnet-readiness.ts, services/keeper/       *)
(* scripts/mainnet-settle-gate.ts), and the four scripts that use them.     *)
(*                                                                         *)
(* A sample of kind "readiness" is a command with its flags, environment,   *)
(* files and what the network answers.  An identity (a contract, a hash, a  *)
(* passphrase) is its text and whether its letters changed case; None was   *)
(* not read.  A report is a set of checks, each with its id and its status. *)
(***************************************************************************)
EXTENDS Sample, Sequences, FiniteSets

CONSTANTS MAINNET_MICRO_MAX_ESCROW,   \* 10_000_000
          DEFAULT_BID,                \* 500_000
          DEFAULT_ESCROW,             \* 1_000_000
          DEPLOY_MIN,                 \* 300_000_000
          FEE_RESERVE                 \* 5_000_000

ASSUME ReadinessAssumption ==
    /\ MAINNET_MICRO_MAX_ESCROW \in Nat \ {0}
    /\ DEFAULT_BID \in Nat \ {0} /\ DEFAULT_ESCROW \in Nat \ {0}
    /\ DEPLOY_MIN \in Nat /\ FEE_RESERVE \in Nat

DEPLOYMENT_FIELDS == {"contractId", "networkPassphrase", "wasmHash", "tokenContract"}
Text(text) == [text |-> text, recased |-> FALSE]
-----------------------------------------------------------------------------
(***************************************************************************)
(* The manifest and the recorded fixture: a closed schema, or no run.       *)
(***************************************************************************)
ParseMainnetManifest(doc) ==
    /\ doc.keys = "known"                      \* no unknown key, none missing
    /\ doc.rpc = "https" /\ doc.status = "Settled"
    /\ 0 < doc.bid /\ doc.bid <= doc.escrow
    /\ \A field \in DEPLOYMENT_FIELDS : doc[field].text # ""

\* Required strings, a non-empty list of bidders, amounts without a sign.
ParseMainnetReadinessFixture(fixture) ==
    /\ \A field \in DEPLOYMENT_FIELDS : fixture[field].text # ""
    /\ fixture.round.bidders > 0 /\ fixture.round.escrow >= 0
    /\ fixture.balance = None \/ fixture.balance >= 0

LoadMainnetManifest(file) == file.readable /\ ParseMainnetManifest(file.doc)

LoadMainnetReadinessFixture(file) == file.readable /\ ParseMainnetReadinessFixture(file.doc)
-----------------------------------------------------------------------------
(***************************************************************************)
(* The four fields of a deployment against the manifest.                    *)
(***************************************************************************)
SameValue(field, a, b) ==
    a.text = b.text /\ (field = "networkPassphrase" => a.recased = b.recased)

\* Seeded fault: a field that could not be read does not count.
CompareDeployment_ReadOnly(manifest, live) ==
    {field \in DEPLOYMENT_FIELDS :
        /\ live[field] # None
        /\ live[field].text = "" \/ ~SameValue(field, manifest[field], live[field])}

\* The fields that disagree, and those that could not be read.
CompareDeployment(manifest, live) ==
    {field \in DEPLOYMENT_FIELDS :
        \/ live[field] = None
        \/ live[field].text = ""
        \/ ~SameValue(field, manifest[field], live[field])}

Found(id, status) == [id |-> id, status |-> status]
PassOrBlock(ok) == IF ok THEN "pass" ELSE "block"

DeploymentChecks(manifest, live) ==
    {Found(field, PassOrBlock(field \notin CompareDeployment(manifest, live))) :
        field \in DEPLOYMENT_FIELDS}

AssertDeploymentMatches(manifest, live) == CompareDeployment(manifest, live) = {}

FixtureDeployment(fixture) == [field \in DEPLOYMENT_FIELDS |-> fixture[field]]

\* Each field is read on its own; the contract is the one that was asked for.
ReadLiveDeployment(contractId, chain) ==
    [contractId |-> contractId, networkPassphrase |-> chain.networkPassphrase,
     wasmHash |-> chain.wasmHash,
     tokenContract |-> IF chain.tokenContract # None /\ chain.tokenContract.text = ""
                       THEN None ELSE chain.tokenContract]

\* The recorded round answers to its own number only.
FixtureReader(fixture, id) == IF fixture.round.id = id THEN fixture.round ELSE None

\* None: getRound, getBidders or getBidState failed.
VerifySettledRoundProof(round, expected) ==
    /\ round # None
    /\ round.bidders = 1
    /\ round.status = "Settled"
    /\ round.revealRound = expected.revealRound
    /\ round.value = expected.bid
    /\ round.escrow = expected.escrow
    /\ round.valid /\ round.settled
-----------------------------------------------------------------------------
(***************************************************************************)
(* The report.                                                             *)
(***************************************************************************)
ConfigChecks(input) ==
    {Found("config-network-passphrase",
           PassOrBlock(SameValue("networkPassphrase", input.networkPassphrase,
                                 input.manifest.networkPassphrase))),
     Found("config-contract-id",
           PassOrBlock(SameValue("contractId", input.contractId, input.manifest.contractId)))}

RpcUrlCheck(url) ==
    {Found("rpc-url",
           CASE url = "https" -> "pass" [] url = "http" -> "warn" [] OTHER -> "block")}

DryRunChecks(input) ==
    {Found(id, "warn") : id \in {"rpc-reachable", "settled-round"} \cup DEPLOYMENT_FIELDS
                               \cup (IF input.withBalances THEN {"contract-balance"} ELSE {})}

\* A recording that holds no balance has none checked.
FixtureChecks(input, fixture) ==
    DeploymentChecks(input.manifest, FixtureDeployment(fixture))
    \cup {Found("rpc-reachable", "pass"),
          Found("settled-round", PassOrBlock(VerifySettledRoundProof(
                                     FixtureReader(fixture, input.manifest.round), input.manifest)))}
    \cup (IF input.withBalances /\ fixture.balance # None
          THEN {Found("contract-balance", PassOrBlock(fixture.balance = 0))} ELSE {})

\* An account that is not named is skipped, a poor one is a warning.
AccountChecks(input, chain) ==
    LET Least(id) == IF id = "operator" THEN DEPLOY_MIN ELSE FEE_RESERVE
    IN  {Found(id, IF id \notin input.accounts THEN "warn"
                   ELSE IF chain.balances = None THEN "block"
                   ELSE IF chain.balances >= Least(id) THEN "pass" ELSE "warn") :
            id \in {"operator", "keeper", "bidder"}}

LiveChecks(input, chain) ==
    {Found("rpc-reachable", PassOrBlock(chain.healthy)),
     Found("settled-round", PassOrBlock(VerifySettledRoundProof(chain.proof, input.manifest)))}
    \cup DeploymentChecks(input.manifest, ReadLiveDeployment(input.contractId, chain))
    \cup (IF input.withBalances
          THEN {Found("contract-balance", PassOrBlock(chain.escrow = 0))}
               \cup AccountChecks(input, chain)
          ELSE {})

RunMainnetReadiness(input, chain) ==
    ConfigChecks(input) \cup RpcUrlCheck(input.rpc)
    \cup (IF input.fixture # None THEN FixtureChecks(input, input.fixture)
          ELSE IF ~input.live THEN DryRunChecks(input)
          ELSE LiveChecks(input, chain))

HasBlockingFailures(report) == \E check \in report : check.status = "block"

\* The embedded manifest unless a script loaded one, live unless it says not.
DefaultMainnetReadinessInput(manifest, env) ==
    [manifest |-> manifest, rpc |-> env.rpc, networkPassphrase |-> env.networkPassphrase,
     contractId |-> env.contractId, live |-> TRUE, withBalances |-> FALSE, accounts |-> {},
     fixture |-> None]
-----------------------------------------------------------------------------
(***************************************************************************)
(* The gates.  None is an amount that was not given, a negative one any     *)
(* text that is not a plain number; 0 stands for a refused one.             *)
(***************************************************************************)
ParseMicroStroops(raw, fallback) ==
    IF raw = None THEN fallback ELSE IF raw \in 1 .. MAINNET_MICRO_MAX_ESCROW THEN raw ELSE 0

AssertMicroAmounts(bid, escrow) ==
    bid > 0 /\ escrow > 0 /\ bid <= escrow /\ escrow <= MAINNET_MICRO_MAX_ESCROW

ParseSettleAmount(amount) == amount \in 1 .. MAINNET_MICRO_MAX_ESCROW

\* readiness, which asks for the secrets, and submit run only for a real send.
RunMicroRunnerGate(run, bid, escrow, report) ==
    IF ~AssertMicroAmounts(bid, escrow) THEN "refused"
    ELSE IF ~run.execute THEN "dry-run"
    ELSE IF run.confirmed /\ run.secrets /\ ~HasBlockingFailures(report) THEN "send"
    ELSE "refused"

RunMainnetSettleGate(run, report, amount) ==
    IF HasBlockingFailures(report) \/ ~ParseSettleAmount(amount) THEN "refused"
    ELSE IF run.execute THEN "send" ELSE "dry-run"
-----------------------------------------------------------------------------
(***************************************************************************)
(* The scripts: the exit code, the transactions of value sent, and whether   *)
(* a secret was asked for.                                                 *)
(***************************************************************************)
Told(exit, sent, asked) == [exit |-> exit, sent |-> sent, asked |-> asked]

MainnetReady(run) ==
    LET fixture == IF run.replay THEN run.fixture.doc ELSE None
        input == [DefaultMainnetReadinessInput(run.manifest.doc, run.env) EXCEPT
                     !.live = ~run.dryRun, !.withBalances = run.withBalances,
                     !.accounts = run.accounts, !.fixture = fixture]
        files == LoadMainnetManifest(run.manifest)
                 /\ (run.replay => LoadMainnetReadinessFixture(run.fixture))
    IN  Told(IF files /\ ~HasBlockingFailures(RunMainnetReadiness(input, run.chain))
             THEN 0 ELSE 1, 0, FALSE)

\* The dry run of verify compares nothing, not even a configured value.
MainnetVerify(run) ==
    LET manifest == run.manifest.doc
        Proved(live, round) == /\ AssertDeploymentMatches(manifest, live)
                               /\ VerifySettledRoundProof(round, manifest)
        passed == /\ LoadMainnetManifest(run.manifest)
                  /\ IF run.replay
                     THEN /\ LoadMainnetReadinessFixture(run.fixture)
                          /\ Proved(FixtureDeployment(run.fixture.doc),
                                    FixtureReader(run.fixture.doc, manifest.round))
                     ELSE run.dryRun \/ Proved(ReadLiveDeployment(run.env.contractId, run.chain),
                                               run.chain.proof)
    IN  Told(IF passed THEN 0 ELSE 1, 0, FALSE)

\* create_round, the seal and commit: each may fail and leave what went before.
\* What follows a send throws before it could send again.
MainnetMicro(run) ==
    LET bid == ParseMicroStroops(run.bid, DEFAULT_BID)
        escrow == ParseMicroStroops(run.escrow, DEFAULT_ESCROW)
        input == [DefaultMainnetReadinessInput(run.embedded, run.env) EXCEPT
                     !.withBalances = TRUE, !.accounts = {"operator", "bidder"}]
        action == IF 0 \in {bid, escrow} THEN "refused"
                  ELSE RunMicroRunnerGate(run, bid, escrow, RunMainnetReadiness(input, run.chain))
    IN  Told(IF action = "dry-run" THEN 0 ELSE 1,
             IF action # "send" THEN 0
             ELSE CASE run.tx = "create" -> 0 [] run.tx = "commit" -> 1 [] OTHER -> 2,
             run.execute /\ run.confirmed /\ AssertMicroAmounts(bid, escrow))

\* The contract must hold nothing at the end, the escrow of other rounds included.
MainnetSettle(run) ==
    LET input == DefaultMainnetReadinessInput(run.embedded, run.env)
        report == RunMainnetReadiness(input, run.chain)
        stopped == run.execute /\ ~(run.confirmed /\ run.secrets)
        action == IF stopped THEN "refused" ELSE RunMainnetSettleGate(run, report, run.chain.locked)
        ended == run.tx = "ok" /\ run.chain.escrow = 0
    IN  Told(IF action = "dry-run" \/ (action = "send" /\ ended) THEN 0 ELSE 1,
             IF action = "send" THEN 1 ELSE 0,
             run.execute /\ run.confirmed)

RunCommand(run) ==
    CASE run.command = "ready"  -> MainnetReady(run)
      [] run.command = "verify" -> MainnetVerify(run)
      [] run.command = "micro"  -> MainnetMicro(run)
      [] run.command = "settle" -> MainnetSettle(run)
-----------------------------------------------------------------------------
\* What the committed manifest says of the deployment is what the network says.
Deployed(manifest, run) ==
    LET Is(field, value) == value # None /\ SameValue(field, manifest[field], value)
        round == run.chain.proof
    IN  /\ Is("contractId", run.env.contractId)
        /\ \A field \in DEPLOYMENT_FIELDS \ {"contractId"} : Is(field, run.chain[field])
        /\ round # None
        /\ <<round.status, round.bidders, round.value, round.escrow, round.settled>>
             = <<"Settled", 1, manifest.bid, manifest.escrow, TRUE>>

\* A broadcast can never happen unless every precondition holds: the flag, the
\* phrase, amounts under the cap, and a deployment that is the committed one in
\* every field; without the flag no secret is asked for; and a read-only
\* command that went to the network succeeds only on that deployment
\* (mainnet-readiness.ts:367-380, :242-245).
BroadcastOnlyWhenReady ==
    sample.kind = "readiness" =>
        LET told == RunCommand(sample)
            bid == IF sample.bid = None THEN DEFAULT_BID ELSE sample.bid
            escrow == IF sample.escrow = None THEN DEFAULT_ESCROW ELSE sample.escrow
        IN  /\ told.sent > 0 =>
                 /\ sample.execute /\ sample.confirmed /\ sample.secrets
                 /\ Deployed(sample.embedded, sample)
                 /\ IF sample.command = "micro"
                    THEN bid \in 1 .. escrow /\ escrow <= MAINNET_MICRO_MAX_ESCROW
                    ELSE sample.chain.locked \in 1 .. MAINNET_MICRO_MAX_ESCROW
            /\ ~sample.execute => told.sent = 0 /\ ~told.asked
            /\ /\ sample.command \in {"ready", "verify"}
               /\ told.exit = 0 /\ ~sample.dryRun /\ ~sample.replay
               => Deployed(sample.manifest.doc, sample)
=============================================================================
