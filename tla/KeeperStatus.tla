----------------------------- MODULE KeeperStatus -----------------------------
(***************************************************************************)
(* What the keeper says of a round without touching it: the dry run         *)
(* (services/keeper/src/dry-run.ts), the status API (status.ts,             *)
(* status-server.ts) and the client that judges its answer                  *)
(* (packages/sdk/src/status-client.ts).                                    *)
(*                                                                         *)
(* A sample of kind "status" is a round of the contract, what of it could   *)
(* be read, the clock, the cursor file, the other round and how many of the *)
(* two are tracked, and whether Drand's chain info could be had.           *)
(***************************************************************************)
EXTENDS Checkpoint, SettlementGuard, FiniteSets

\* No step and no mismatch are told from every step and mismatch.
ASSUME StatusAssumption == None \notin KeeperStep \cup {"network", "contractId"}

Active == {"Open", "Revealing", "Cleared"}
Terminal == {"Settled", "Voided"}

\* classifyRoundStatus
RoundStatusClass(status) ==
    CASE status \in Active -> "active" [] status \in Terminal -> "terminal" [] OTHER -> "error"
-----------------------------------------------------------------------------
(***************************************************************************)
(* The dry run.                                                            *)
(***************************************************************************)
\* DRY_RUN_PHASE_STEP: the cursor step a phase records on the next live pass.
PhaseStep(phase) ==
    CASE phase = "awaiting-drand"  -> "open-reveal"
      [] phase = "stale-open"      -> "void"
      [] phase = "revealing"       -> "reveal"
      [] phase = "ready-to-clear"  -> "clear"
      [] phase = "ready-to-settle" -> "settle"
      [] phase \in {"awaiting-clear", "complete"} -> None

\* Seeded fault: the grace after the reveal deadline is forgotten.
Stale_NoGrace(round, now) == now > round.deadline

Stale(round, now) == now > round.deadline + VOID_GRACE_SECONDS

\* decideKeeperDryRunAction
DecideDryRun(round, bidders, revealed, now) ==
    CASE round.status = "Open" ->
           IF Stale(round, now) THEN "stale-open" ELSE "awaiting-drand"
      [] round.status = "Revealing" ->
           IF now > round.deadline THEN "ready-to-clear"
           ELSE IF revealed = None \/ revealed < bidders THEN "revealing" ELSE "awaiting-clear"
      [] round.status = "Cleared" -> "ready-to-settle"
      [] round.status \in Terminal -> "complete"

\* One bid state that cannot be read makes the count unknown.
CountRevealed(round, unread) ==
    IF unread \cap DOMAIN round.revealed # {} THEN None
    ELSE Cardinality({i \in DOMAIN round.revealed : round.revealed[i]})

\* checkpointBindingMismatch, between a file and this process
Mismatch(file) ==
    CASE file = "otherNetwork" -> "network" [] file = "otherContract" -> "contractId"
      [] OTHER -> None

\* planDryRunCheckpoint: what is on disk, of whatever deployment, with the step
\* added; a file that is missing or no JSON is an empty one.
PlanDryRun(file, entry, step) ==
    LET base == IF file = "missing" THEN NoEntry ELSE ParseEntry(entry)
    IN  [step |-> step, mismatch |-> Mismatch(file),
         entry |-> IF step = None THEN base ELSE PlanStep(base, step, NoHash)]

\* buildKeeperDryRunSummary
DryRunSummary(round, unread, now, file, entry) ==
    LET revealed == CountRevealed(round, unread)
        phase == DecideDryRun(round, Len(round.revealed), revealed, now)
    IN  [status |-> round.status, phase |-> phase, revealed |-> revealed,
         checkpoint |-> PlanDryRun(file, entry, PhaseStep(phase))]

\* parseKeeperRunConfig: a live run needs a secret, a dry run does not.
ParseKeeperRunConfig(env) ==
    IF env.dryRun = "unreadable" \/ (env.dryRun = "false" /\ ~env.secret)
         \/ ~env.contract \/ env.roundId < 1
    THEN "refused" ELSE IF env.dryRun = "true" THEN "dryRun" ELSE "live"

\* main: the file of another deployment is an error for a live run, and a
\* warning for a dry one.
RunMain(env, file) ==
    IF ParseKeeperRunConfig(env) = "live" /\ ~MayLoad(file) THEN "refused"
    ELSE ParseKeeperRunConfig(env)
-----------------------------------------------------------------------------
(***************************************************************************)
(* The status API.                                                         *)
(***************************************************************************)
\* buildRoundStatus; watched is None or the store's entry of the round.
BuildRoundStatus(id, round, read, unread, now, watched, indicator) ==
    IF read # "ok"
    THEN [roundId |-> id, status |-> IF read = "RoundNotFound" THEN "NotFound" ELSE "Unknown",
          phase |-> IF watched # None THEN watched
                    ELSE IF read = "RoundNotFound" THEN "complete" ELSE "awaiting-drand",
          next |-> None, revealReady |-> FALSE, commitClosed |-> FALSE,
          revealWindowOpen |-> FALSE, voidableAfter |-> None,
          bidders |-> None, revealed |-> None, settlement |-> indicator]
    ELSE LET revealed == CountRevealed(round, unread)
             decided == DecideDryRun(round, Len(round.revealed), revealed, now)
         IN  [roundId |-> id, status |-> round.status,
              phase |-> IF watched # None THEN watched ELSE decided,
              next |-> PhaseStep(decided),
              revealReady |-> round.status = "Open" /\ now >= round.publish,
              commitClosed |-> now > round.commit,
              revealWindowOpen |-> round.status = "Revealing" /\ now <= round.deadline,
              voidableAfter |-> round.deadline + VOID_GRACE_SECONDS,
              bidders |-> Len(round.revealed), revealed |-> revealed,
              settlement |-> IF round.status \in Terminal THEN "terminal" ELSE indicator]

StatusOrder(status) ==
    CHOOSE i \in 0 .. 6 :
        status = <<"Unknown", "Open", "Revealing", "Cleared", "Settled", "Voided",
                   "NotFound">>[i + 1]

\* buildKeeperStatus: the rounds by status, then by id.
BuildKeeperStatus(contract, views) ==
    LET Before(a, b) == \/ StatusOrder(a.status) < StatusOrder(b.status)
                        \/ a.status = b.status /\ a.roundId < b.roundId
        order == CHOOSE p \in [DOMAIN views -> DOMAIN views] :
                     /\ IsInjective(p)
                     /\ \A i, j \in DOMAIN views : i < j => ~Before(views[p[j]], views[p[i]])
    IN  [contractId |-> contract, rounds |-> [i \in DOMAIN views |-> views[order[i]]]]

\* Every round that was read asks for Drand's chain info, which nothing catches:
\* without it there is no status at all.
CanBuild(reads, drand) == drand \/ "ok" \notin ToSet(reads)

\* makeRoutes: each route builds the whole status before it answers.
Route(path, id, status) ==
    LET tracked == SelectSeq(status.rounds, LAMBDA v : v.roundId = id)
    IN  CASE path = "/status" -> [code |-> 200, body |-> status]
          [] path = "/status/rounds" ->
               IF tracked = <<>> THEN [code |-> 404, body |-> None]
                                 ELSE [code |-> 200, body |-> Head(tracked)]

\* createStatusHandler, for all but the health probe; built is whether the status
\* could be.
Handle(method, path, id, status, built) ==
    CASE method # "GET" -> [code |-> 405, body |-> None]
      [] method = "GET" /\ path \notin {"/status", "/status/rounds"} -> [code |-> 404, body |-> None]
      [] method = "GET" /\ path \in {"/status", "/status/rounds"} /\ ~built -> [code |-> 500, body |-> None]
      [] OTHER -> Route(path, id, status)

-----------------------------------------------------------------------------
(***************************************************************************)
(* The client.                                                             *)
(***************************************************************************)
\* judge: the answer to a question about this contract and round.
Judge(client, body) ==
    IF body.contractId # client.contract THEN "contract_mismatch"
    ELSE IF client.round \notin {v.roundId : v \in ToSet(body.rounds)} THEN "round_mismatch"
    ELSE "ready"

\* readiness: only an answer that comes in time, is a success, parses and has the
\* shape of a status is judged.  The snapshot kept is the one just accepted.
Readiness(client, delivery, answer) ==
    IF delivery = "late" THEN "timeout"
    ELSE IF delivery \in {"lost", "garbled"} \/ answer.code # 200 THEN "unavailable"
    ELSE IF delivery = "malformed" THEN "invalid_body"
    ELSE Judge(client, answer.body)
-----------------------------------------------------------------------------
(***************************************************************************)
(* The contract (contracts/round/src/lib.rs), with the beacon published.    *)
(***************************************************************************)
Accepts(step, round, t) ==
    CASE step = "open-reveal" -> round.status = "Open" /\ t > round.commit /\ t >= round.publish
      [] step = "reveal" -> round.status = "Revealing" /\ t <= round.deadline
                              /\ \E i \in DOMAIN round.revealed : ~round.revealed[i]
      [] step = "clear"  -> round.status = "Revealing" /\ t > round.deadline
      [] step = "settle" -> round.status = "Cleared"
      [] step = "void"   -> round.status = "Open" /\ t > round.deadline + VOID_GRACE_SECONDS

\* The status a step leaves; clear without a valid bid voids the round.
After(step) ==
    CASE step \in {"open-reveal", "reveal"} -> {"Revealing"}
      [] step = "clear" -> {"Cleared", "Voided"} [] step = "settle" -> {"Settled"}
      [] step = "void" -> {"Voided"}
-----------------------------------------------------------------------------
\* The dry run and the status API announce the step the contract would accept at
\* that moment, and none when it would accept none; the cursor they propose is the
\* one a live pass leaves and a restart keeps; they warn of a file when its binding
\* stops a live keeper (a version that stops it has no warning); and a client that
\* finds the keeper ready looks at this contract and round, listed with the rounds
\* still running before those that are over, never at a keeper that could not build
\* its answer.
StatusTellsTruth ==
    sample.kind = "status" =>
        LET round == sample.round
            now == sample.now
            entry == Recorded(sample.history)
            dry == DryRunSummary(round, sample.unread, now, sample.file, entry)
            step == dry.checkpoint.step
            kept(s) == Reconcile(dry.checkpoint.entry, s)
            live(s) == Reconcile(PlanStep(Load(sample.file, entry), step, NoHash), s)
            view == BuildRoundStatus(1, round, sample.read, sample.unread, now, None, "none")
            other == BuildRoundStatus(2, [round EXCEPT !.status = sample.other], "ok", {}, now, None, "none")
            status == BuildKeeperStatus("own", SubSeq(<<other, view>>, 1, sample.tracked))
            built == CanBuild(SubSeq(<<"ok", sample.read>>, 1, sample.tracked), sample.drand)
            ids == {v.roundId : v \in ToSet(status.rounds)}
        IN  /\ \A s \in {"clear", "settle", "void"} : s = step <=> Accepts(s, round, now)
            /\ step = "reveal" /\ sample.unread = {} => Accepts("reveal", round, now)
            /\ Accepts("reveal", round, now) => step = "reveal"
            /\ sample.read = "ok" =>
                 /\ view.next = step
                 /\ view.revealReady /\ step = "open-reveal" <=>
                      step = "open-reveal" /\ Accepts(step, round, now)
                 /\ view.settlement = "terminal" <=> RoundStatusClass(view.status) = "terminal"
            /\ step # None => \A s \in After(step) :
                 /\ step \in ToSet(kept(s).steps)
                 /\ MayLoad(sample.file) => kept(s) = live(s)
            /\ dry.checkpoint.mismatch # None => ~MayLoad(sample.file)
            /\ ~MayLoad(sample.file) /\ sample.file # "otherVersion" => dry.checkpoint.mismatch # None
            /\ \A env \in [dryRun : {"true", "false", "unreadable"}, secret : BOOLEAN,
                           contract : BOOLEAN, roundId : 0 .. 1] :
                 RunMain(env, sample.file) = "live" => dry.checkpoint.mismatch = None /\ env.secret
            /\ \A delivery \in {"inTime", "late", "lost", "garbled", "malformed"}, mine \in 1 .. 2,
                  contract \in {"own", "other"} :
                 Readiness([contract |-> contract, round |-> mine], delivery,
                           Handle("GET", "/status", mine, status, built)) = "ready"
                 <=> delivery = "inTime" /\ mine \in ids /\ contract = "own" /\ built
            /\ \A i, j \in DOMAIN status.rounds :
                 i < j /\ RoundStatusClass(status.rounds[i].status) = "terminal"
                 => RoundStatusClass(status.rounds[j].status) # "active"
=============================================================================
