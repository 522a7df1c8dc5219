------------------------------ MODULE Checkpoint ------------------------------
(***************************************************************************)
(* The keeper's cursor file (services/keeper/src/checkpoint.ts): recording a *)
(* step with or without its transaction hash, loading the file of this or   *)
(* another deployment, and the two checks at a restart that decide which    *)
(* recorded steps are believed.                                            *)
(*                                                                         *)
(* A sample of kind "cursor" is a history of recorded steps, the file it is *)
(* found in, what the RPC says of the hashes and the status on chain.       *)
(***************************************************************************)
EXTENDS Sample, Sequences, SequencesExt, Functions

CONSTANTS NoHash, Nobody      \* no transaction hash, no verifier

KeeperStep == {"open-reveal", "reveal", "clear", "settle", "void"}

\* STEP_SATISFIED_BY_STATUS: the statuses that prove a step.
SatisfiedBy(step) ==
    CASE step \in {"open-reveal", "reveal"} -> {"Revealing", "Cleared", "Settled", "Voided"}
      [] step = "clear"  -> {"Cleared", "Settled", "Voided"}
      [] step = "settle" -> {"Settled", "Voided"}
      [] step = "void"   -> {"Voided"}
-----------------------------------------------------------------------------
(***************************************************************************)
(* One round's entry: the completed steps in order, and the hashes.        *)
(***************************************************************************)
NoEntry == [steps |-> <<>>, hashes |-> [s \in {} |-> NoHash], last |-> NoHash]

\* planCheckpointStep: a step recorded again without a hash forgets the old one.
PlanStep(entry, step, hash) ==
    [steps  |-> IF step \in ToSet(entry.steps) THEN entry.steps
                ELSE Append(entry.steps, step),
     hashes |-> LET kept == DOMAIN entry.hashes \ {step}
                IN  [s \in IF hash = NoHash THEN kept ELSE kept \cup {step} |->
                        IF s = step THEN hash ELSE entry.hashes[s]],
     last   |-> hash]

\* The steps that are not in drop, in their order.
Without(steps, drop) ==
    LET kept[i \in 0 .. Len(steps)] ==
            IF i = 0 THEN <<>>
            ELSE IF steps[i] \in drop THEN kept[i - 1] ELSE Append(kept[i - 1], steps[i])
    IN  kept[Len(steps)]

\* planCheckpointRollback, for each of drop in turn: a recorded step and its hash
\* go, the step that is then at the end is the last.
PlanRollback(entry, drop) ==
    LET gone == drop \cap ToSet(entry.steps)
        steps == Without(entry.steps, gone)
        hashes == Restrict(entry.hashes, DOMAIN entry.hashes \ gone)
    IN  IF gone = {} THEN entry
        ELSE [steps |-> steps, hashes |-> hashes,
              last |-> IF steps # <<>> /\ Last(steps) \in DOMAIN hashes
                       THEN hashes[Last(steps)] ELSE NoHash]

\* markComplete, once for each mark of the history.
Recorded(history) ==
    LET entry[i \in 0 .. Len(history)] ==
            IF i = 0 THEN NoEntry
            ELSE PlanStep(entry[i - 1], history[i].step, history[i].hash)
    IN  entry[Len(history)]

\* parseCheckpointEntry: what is no step is dropped, the last hash is not.
ParseEntry(entry) ==
    [steps |-> Without(entry.steps, ToSet(entry.steps) \ KeeperStep),
     hashes |-> Restrict(entry.hashes, DOMAIN entry.hashes \cap KeeperStep),
     last |-> entry.last]

\* load: the file of another deployment or version stops the keeper, one that
\* cannot be parsed is set aside.
MayLoad(file) == file \notin {"otherNetwork", "otherContract", "otherVersion"}
Load(file, entry) == IF file = "own" THEN ParseEntry(entry) ELSE NoEntry
-----------------------------------------------------------------------------
(***************************************************************************)
(* The restart.                                                            *)
(***************************************************************************)
\* Seeded fault: a transaction nobody knows counts as confirmed.
VerifyHashes_Missing(entry, verify) ==
    IF verify = Nobody THEN entry
    ELSE PlanRollback(entry, {s \in DOMAIN entry.hashes : verify[entry.hashes[s]] = "failed"})

\* verifyHashes: a lookup that fails decides nothing, and neither does a
\* keeper without a verifier.
VerifyHashes(entry, verify) ==
    IF verify = Nobody THEN entry
    ELSE PlanRollback(entry,
             {s \in DOMAIN entry.hashes : verify[entry.hashes[s]] \in {"failed", "missing"}})

\* reconcile: steps without a hash need a status that proves them.
Reconcile(entry, status) ==
    PlanRollback(entry,
        {s \in ToSet(entry.steps) : s \notin DOMAIN entry.hashes /\ status \notin SatisfiedBy(s)})

\* resumeCheckpoint: a round that cannot be read, of status None, is not reconciled.
Resume(entry, verify, status) ==
    LET checked == VerifyHashes(entry, verify)
    IN  IF status = None THEN checked ELSE Reconcile(checked, status)

\* The keeper starts again and finds its file.
Restart(file, entry, verify, status) ==
    [started |-> MayLoad(file),
     cursor  |-> IF MayLoad(file) THEN Resume(Load(file, entry), verify, status) ELSE NoEntry]
-----------------------------------------------------------------------------
\* Mark i is the last one of its step.
IsLastMark(history, i) ==
    \A j \in DOMAIN history : j > i => history[j].step # history[i].step

\* After a restart the cursor holds exactly the steps the last mark of which has
\* evidence: a hash that a verifier confirms, cannot look up or is not there to
\* refute, and in want of a hash a status the step must have led to, or no answer.
\* An earlier mark counts for nothing; a hash that failed or that nobody knows
\* takes its step with it, even where the status proves the step: it is sent
\* again, and the contract refuses it.  The hashes kept are those of the last
\* marks, and no step comes from another deployment's file: with one the keeper
\* does not start.
ResumeKeepsProof ==
    sample.kind = "cursor" =>
        LET history == sample.history
            Stands(hash) ==
                \/ sample.verify = Nobody
                \/ sample.verify[hash] \in {"confirmed", "unreachable"}
            Believed(mark) ==
                IF mark.hash # NoHash THEN Stands(mark.hash)
                ELSE sample.status = None \/ sample.status \in SatisfiedBy(mark.step)
            last == {i \in DOMAIN history : IsLastMark(history, i)}
            kept == IF sample.file # "own" THEN {}
                    ELSE {i \in last : Believed(history[i])}
            hashed == {i \in kept : history[i].hash # NoHash}
            restart == Restart(sample.file, Recorded(history), sample.verify, sample.status)
            cursor == restart.cursor
        IN  /\ restart.started <=> sample.file \in {"own", "missing"}
            /\ ToSet(cursor.steps) = {history[i].step : i \in kept}
            /\ DOMAIN cursor.hashes = {history[i].step : i \in hashed}
            /\ \A i \in hashed : cursor.hashes[history[i].step] = history[i].hash
            /\ cursor.last # NoHash => cursor.last \in Range(cursor.hashes)
=============================================================================
