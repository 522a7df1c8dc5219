------------------------------- MODULE Client -------------------------------
(***************************************************************************)
(* How the SDK's client makes a state-changing call (packages/sdk/src/      *)
(* client.ts): its checks before anything is signed, the submission over    *)
(* RPC or through a relayer, the wait for finality and the error that tells  *)
(* the caller what became of the call; and the preflight of the same call.  *)
(*                                                                         *)
(* A sample of kind "submit" is a client's configuration, the call's         *)
(* parameters and the world it meets: the network behind the RPC, the       *)
(* outcome of the simulation, what the relayer does and when, if ever, the   *)
(* transaction lands.  Time is in units of 100 ms from the submission.      *)
(***************************************************************************)
EXTENDS Conservation

MinConfirmTimeout == 10
MinPollInterval == 1

NewClientAccepted(config) ==
    /\ config.rpc = "https" \/ (config.rpc = "http" /\ config.allowHttp)
    /\ config.confirmTimeout >= MinConfirmTimeout
    /\ config.pollInterval >= MinPollInterval
    /\ config.contractId # "malformed"

\* Contract ids are compared after the normalisation that fixes their case.
SameContract(a, b) == a = b \/ {a, b} \subseteq {"own", "recased"}

\* An account is compared only when both sides name one.
ValidatePasskeySession(session, account) ==
    /\ session.network = "own"
    /\ SameContract(session.contractId, "own")
    /\ None \notin {session.account, account} => session.account = account

AssetMismatch(given, own) ==
    \/ (given.type = "native") # (own.type = "native")
    \/ /\ given.type # "native" /\ None \notin {given.contractId, own.contractId}
       /\ given.contractId # own.contractId
    \/ None \notin {given.decimals, own.decimals} /\ given.decimals # own.decimals
-----------------------------------------------------------------------------
(***************************************************************************)
(* From the call to an assembled transaction: the first check that fails.   *)
(***************************************************************************)
ValidateContractNetwork(world) ==
    CASE world.network = "unreachable" -> "rpc"
      [] world.network = "own" /\ world.deployed -> "none"
      [] OTHER -> "network"

\* One good answer is kept for the client's life; a bad one is asked again.
ValidatedContractCall(world) ==
    IF world.validated THEN "none" ELSE ValidateContractNetwork(world)

Simulated(world) == IF world.simulated = "transport" THEN "rpc" ELSE "none"

FirstError(errors) ==
    LET bad == {i \in DOMAIN errors : errors[i] # "none"}
    IN  IF bad = {} THEN "none" ELSE errors[Min(bad)]

Unless(passes, error) == IF passes THEN "none" ELSE error

RequireSource(config, given) == Unless(given # None \/ config.source # None, "config")

\* The client's own asset is compared with itself.
AssetCheck(config) ==
    Unless(config.asset = None \/ ~AssetMismatch(config.asset, config.asset), "asset")

NormalizeRoundId(id) == Unless(id > 0, "roundId")

Build(config, params, world) ==
    LET reach == ValidatedContractCall(world)
        id == NormalizeRoundId(params.roundId)
    IN  FirstError(
          CASE params.op = "create_round" ->
                 <<RequireSource(config, params.account), reach, Simulated(world)>>
            [] params.op = "commit" ->
                 <<Unless(params.sealed, "seal"), AssetCheck(config),
                   RequireSource(config, params.account), Unless(params.sealRound, "config"),
                   reach, id, Simulated(world)>>
            [] OTHER -> <<reach, id, Simulated(world)>>)

\* The preflights check less of the seal and more of the session than the call.
PreflightCall(config, params, world) ==
    LET account == IF params.account # None THEN params.account ELSE config.source
        source == IF params.op \in {"create_round", "commit"}
                  THEN RequireSource(config, params.account) ELSE "none"
        round == IF params.op = "commit" THEN Unless(params.sealRound, "config") ELSE "none"
        before == FirstError(<<source, round, ValidatedContractCall(world)>>)
    IN  IF params.op = "commit" /\ config.session # None
           /\ ~ValidatePasskeySession(config.session, account)
        THEN "thrown"
        ELSE Preflight(IF before = "none" THEN world.simulated
                       ELSE IF before = "rpc" THEN "transport" ELSE before)
-----------------------------------------------------------------------------
(***************************************************************************)
(* From the transaction to an answer.                                      *)
(***************************************************************************)
\* Only a secret key signs, and only what the simulation accepted.
Signs(config, world) == config.source = "secret" /\ world.simulated = "accepted"

Landed(world, t) == world.lands # None /\ world.lands <= t

\* The polls begin before the deadline; a sleep may last longer than asked.
PollTimes(config, world) ==
    {t \in 0 .. config.confirmTimeout - 1 : t % (config.pollInterval + world.late) = 0}

\* Seeded fault: an answer that the hash is not found is final.
FinalAt_Always(world, t) == t >= 0

FinalAt(world, t) == t = world.rpcFails \/ Landed(world, t)

AwaitFinality(config, world) ==
    LET final == {t \in PollTimes(config, world) : FinalAt(world, t)}
        t == Min(final)
    IN  IF final = {} THEN "Timeout"
        ELSE IF t = world.rpcFails THEN "Submit"
        ELSE IF Landed(world, t) /\ world.status = "SUCCESS"
             THEN Unless(world.value, "MissingReturnValue")
        ELSE "Transaction"

\* A relayer may fail after it has forwarded the transaction.  Without one the
\* bindings sign, send and wait, and all that fails is one kind of error.
SendUnwrap(config, world) ==
    LET Answer(error, sent) == [error |-> error, sent |-> sent]
        forwarded == world.relay # "refuses"
    IN  IF ~config.relayed
        THEN IF Signs(config, world)
             THEN Answer(Unless(world.relay = "accepts" /\ world.lands # None
                                 /\ world.status = "SUCCESS", "Submit"), forwarded)
             ELSE Answer("Submit", FALSE)
        ELSE IF ~Signs(config, world) THEN Answer("unsigned", FALSE)
        ELSE IF world.relay # "accepts" THEN Answer("Submit", forwarded)
        ELSE Answer(AwaitFinality(config, world), TRUE)

WriteCall(config, params, world) ==
    LET built == Build(config, params, world)
    IN  IF built = "none" THEN SendUnwrap(config, world) ELSE [error |-> built, sent |-> FALSE]
-----------------------------------------------------------------------------
\* What a state-changing call throws tells what became of it.  Any error of the
\* checks means that nothing was sent, an answer that the transaction is on the
\* chain, TransactionError that it failed there, a missing return value that it
\* succeeded, and a timeout that no poll before the deadline found it; a
\* transaction found by a poll that RPC answers is never a timeout.  A preflight
\* that succeeds promises that the call passes every check but those of the seal
\* and the id, and one that does not, unless over the session, that it is not sent
\* (client.ts:352-428 against 583-727).
SubmitTellsFate ==
    sample.kind = "submit" /\ NewClientAccepted(sample.config) =>
        LET config == sample.config
            world == sample.world
            call == WriteCall(config, sample.params, world)
            polls == PollTimes(config, world)
            preflight == PreflightCall(config, sample.params, world)
            Succeeds == world.lands # None /\ world.status = "SUCCESS"
        IN  /\ call.error = "none" => call.sent /\ Succeeds
            /\ call.error = "MissingReturnValue" => call.sent /\ Succeeds
            /\ call.error = "Transaction" =>
                 call.sent /\ world.lands # None /\ world.status = "FAILED"
            /\ call.error \notin {"none", "Submit", "Transaction", "MissingReturnValue", "Timeout"}
                 => ~call.sent
            /\ call.error = "Timeout" =>
                 config.relayed /\ call.sent /\ \A t \in polls : ~Landed(world, t)
            /\ call.sent /\ world.relay = "accepts" /\ world.rpcFails = None
               /\ Landed(world, Max(polls)) => call.error \notin {"Timeout", "Submit"}
                                               \/ ~config.relayed
            /\ preflight = "ok" =>
                 Build(config, sample.params, world) \in {"none", "seal", "roundId"}
            /\ preflight # "ok" /\ config.session = None => ~call.sent
=============================================================================
