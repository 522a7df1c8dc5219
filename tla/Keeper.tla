------------------------------- MODULE Keeper -------------------------------
(***************************************************************************)
(* Keepers driving one round whose bids are all committed                  *)
(* (services/keeper/src: keeper.ts, checkpoint.ts, and the resume and      *)
(* retry of watch-loop.ts).  Every await is a point where other keepers,   *)
(* the chain and the clock may move: a keeper acts on what it read before. *)
(*                                                                         *)
(* The contract is what a caller sees of it: its status, what its calls    *)
(* answer, in the order in which lib.rs checks, and what they change.  A   *)
(* call that was sent may land although its answer was lost.  Status reads *)
(* may be served by a replica that is behind; calls are judged by the      *)
(* current state.                                                          *)
(***************************************************************************)
EXTENDS Integers, Sequences

CONSTANTS
    Keeper,         \* keeper processes, each with its own checkpoint file
    Bidder,
    Bidders,        \* the bidder index, a sequence without repetitions
    Seals,          \* kinds of seals the bidders may have, as functions
    Skew,           \* how far a keeper's clock is ahead of the ledger's
    None,
    BEACON,         \* when Drand is due to publish the round
    REVEAL_DEADLINE,
    VOID_GRACE,
    MaxTime,        \* bound: last time
    MaxFaults       \* bound: crashes, lost answers, failed reads and saves

\* What openBid and reveal make of a seal: opened and revealed as a valid or a
\* zero bid, absent, not decryptable, not the committed value, above escrow.
SealKind == {"good", "zero", "absent", "corrupt", "mismatch", "over"}

ASSUME BidderAssumption ==
    /\ Bidders \in Seq(Bidder)
    /\ \A b \in Bidder : \E i \in DOMAIN Bidders : Bidders[i] = b
    /\ Seals \subseteq [Bidder -> SealKind]
ASSUME TimeAssumption ==
    /\ Skew \in [Keeper -> Int]
    /\ BEACON \in Nat
    /\ REVEAL_DEADLINE \in Nat
    /\ VOID_GRACE \in Nat
    /\ MaxTime \in Nat
    /\ MaxFaults \in Nat

VARIABLES
    now,            \* ledger time
    published,      \* whether Drand published the round
    status,         \* Round.status
    replica,        \* the status a replica that is behind still serves
    revealed,       \* bidders with a revealed_value
    seal,           \* the kind of every bidder's seal
    pool,           \* calls sent whose sender no longer waits for them
    faults,         \* faults so far
    pc,             \* where watchRound is in every keeper
    pos,            \* the next bidder of keepRound's loop
    skipped,        \* bidders the pass could not prove revealed
    reply,          \* the chain's answer to the call a keeper waits for
    mem,            \* steps the checkpoint records complete, in memory
    disk            \* the same, in the checkpoint file

chain == <<status, revealed>>
files == <<mem, disk>>
vars == <<now, published, status, replica, revealed, seal, pool, faults, pc,
          pos, skipped, reply, mem, disk>>

Status == {"Open", "Revealing", "Cleared", "Settled", "Voided"}
Terminal == {"Settled", "Voided"}
KeeperStep == {"open-reveal", "reveal", "clear", "settle", "void"}
Waiting == {"voiding", "opening", "revealing", "clearing", "settling"}
Reading == {"idle", "look", "keep", "opened", "bid", "after", "close", "closed"}

Replies == {"ok", "InvalidDrandSignature", "RevealAlreadyOpen", "RevealNotOpen",
            "RevealWindowClosed", "AlreadyRevealed", "HashMismatch", "BidExceedsEscrow",
            "RevealStillOpen", "NotCleared", "NotVoidable", "AlreadyCleared",
            "AlreadySettled", "RoundVoided"}

Calls == {<<"void">>, <<"open">>, <<"clear">>, <<"settle">>}
             \cup {<<"reveal", b>> : b \in Bidder}

Clock(k) == now + Skew[k]
VoidAfter == REVEAL_DEADLINE + VOID_GRACE
-----------------------------------------------------------------------------
(***************************************************************************)
(* The contract, as its callers see it (lib.rs).                           *)
(***************************************************************************)
OpenRevealAnswer ==
    [Open |-> IF published THEN "ok" ELSE "InvalidDrandSignature",
     Revealing |-> "RevealAlreadyOpen", Cleared |-> "AlreadyCleared",
     Settled |-> "AlreadySettled", Voided |-> "RoundVoided"][status]

SealAnswer(b) ==
    [good |-> "ok", zero |-> "ok", absent |-> "HashMismatch", corrupt |-> "HashMismatch",
     mismatch |-> "HashMismatch", over |-> "BidExceedsEscrow"][seal[b]]

RevealAnswer(b) ==
    [Open |-> "RevealNotOpen", Cleared |-> "RevealNotOpen",
     Settled |-> "AlreadySettled", Voided |-> "RoundVoided",
     Revealing |-> IF now > REVEAL_DEADLINE THEN "RevealWindowClosed"
                   ELSE IF b \in revealed THEN "AlreadyRevealed"
                   ELSE SealAnswer(b)][status]

ClearAnswer ==
    [Open |-> "RevealNotOpen", Cleared |-> "AlreadyCleared",
     Settled |-> "AlreadySettled", Voided |-> "RoundVoided",
     Revealing |-> IF now > REVEAL_DEADLINE THEN "ok" ELSE "RevealStillOpen"][status]

SettleAnswer ==
    [Open |-> "NotCleared", Revealing |-> "NotCleared", Cleared |-> "ok",
     Settled |-> "AlreadySettled", Voided |-> "RoundVoided"][status]

VoidAnswer ==
    [Open |-> IF now > VoidAfter THEN "ok" ELSE "NotVoidable",
     Revealing |-> "NotVoidable", Cleared |-> "NotVoidable",
     Settled |-> "AlreadySettled", Voided |-> "RoundVoided"][status]

Answer(call) ==
    CASE call[1] = "void"   -> VoidAnswer
      [] call[1] = "open"   -> OpenRevealAnswer
      [] call[1] = "reveal" -> RevealAnswer(call[2])
      [] call[1] = "clear"  -> ClearAnswer
      [] call[1] = "settle" -> SettleAnswer

\* clear voids the round when no valid bid is revealed.
StatusAfter(call) ==
    CASE call[1] = "void"   -> "Voided"
      [] call[1] = "open"   -> "Revealing"
      [] call[1] = "reveal" -> status
      [] call[1] = "clear"  -> IF \E b \in revealed : seal[b] = "good"
                               THEN "Cleared" ELSE "Voided"
      [] call[1] = "settle" -> "Settled"

\* A call lands: a refused one is rolled back.
Lands(call) ==
    IF Answer(call) = "ok"
    THEN /\ status' = StatusAfter(call)
         /\ revealed' = IF call[1] = "reveal" THEN revealed \cup {call[2]} ELSE revealed
    ELSE UNCHANGED chain
-----------------------------------------------------------------------------
Init ==
    /\ now = 0
    /\ published = FALSE
    /\ status = "Open"
    /\ replica = "Open"
    /\ revealed = {}
    /\ seal \in Seals
    /\ pool = {}
    /\ faults = 0
    /\ pc = [k \in Keeper |-> "idle"]
    /\ pos = [k \in Keeper |-> 1]
    /\ skipped = [k \in Keeper |-> {}]
    /\ reply = [k \in Keeper |-> None]
    /\ mem = [k \in Keeper |-> {}]
    /\ disk = [k \in Keeper |-> {}]

(***************************************************************************)
(* The environment.                                                        *)
(***************************************************************************)
Tick ==
    /\ now < MaxTime
    /\ now' = now + 1
    /\ UNCHANGED <<published, chain, replica, seal, pool, faults, pc, pos,
                   skipped, reply, files>>

Publish ==
    /\ ~published
    /\ now >= BEACON
    /\ published' = TRUE
    /\ UNCHANGED <<now, chain, replica, seal, pool, faults, pc, pos, skipped,
                   reply, files>>

CatchUp ==
    /\ replica # status
    /\ replica' = status
    /\ UNCHANGED <<now, published, chain, seal, pool, faults, pc, pos, skipped,
                   reply, files>>

\* A call nobody waits for lands late, or never.
LandLate ==
    \E call \in pool :
        /\ pool' = pool \ {call}
        /\ Lands(call) \/ UNCHANGED chain
        /\ UNCHANGED <<now, published, replica, seal, faults, pc, pos, skipped,
                       reply, files>>
-----------------------------------------------------------------------------
(***************************************************************************)
(* One pass of a keeper: watchRound.                                       *)
(***************************************************************************)
environment == <<now, published, chain, replica, seal, pool, faults>>

Readable == {status, replica}

InReveals(k) == pc[k] \in {"bid", "revealing"}

Goto(k, place) == pc' = [pc EXCEPT ![k] = place]

\* recordStep: the checkpoint saves after every change; an error of the write
\* is only logged, and leaves the old file or one that does not parse.
Saved(k) == disk' = [disk EXCEPT ![k] = mem'[k]] /\ UNCHANGED faults
SaveFails(k) ==
    /\ faults < MaxFaults
    /\ faults' = faults + 1
    /\ disk' = disk \/ disk' = [disk EXCEPT ![k] = {}]
Record(k, step) ==
    /\ mem' = [mem EXCEPT ![k] = @ \cup {step}]
    /\ Saved(k) \/ SaveFails(k)
NothingRecorded == UNCHANGED <<files, faults>>

\* stepAlreadyDone: open-reveal is recorded but never used to skip work.
StepAlreadyDone(k, step) == step \in mem[k] \ {"open-reveal"}

\* voidIfStale's read and its gate.
VoidIfStale(k) ==
    /\ pc[k] = "idle"
    /\ \E s \in Readable :
          Goto(k, IF s = "Open" /\ Clock(k) > VoidAfter THEN "voiding" ELSE "look")
    /\ UNCHANGED <<environment, pos, skipped, reply, files>>

Look(k) ==
    /\ pc[k] = "look"
    /\ \E s \in Readable :
          Goto(k, IF s \in {"Open", "Revealing"} THEN "keep"
                  ELSE IF s = "Cleared" THEN "close" ELSE "idle")
    /\ UNCHANGED <<environment, pos, skipped, reply, files>>

\* keepRound enters its loop over the bidders, unless the cursor says that
\* they are all revealed.
EnterReveals(k) ==
    IF StepAlreadyDone(k, "reveal")
    THEN Goto(k, "after")
    ELSE Goto(k, "bid")

\* An Open round is opened when Drand serves its signature: waitForRound does
\* not wait at all, and five failed fetches end keepRound.
Keep(k) ==
    /\ pc[k] = "keep"
    /\ \E s \in Readable :
          \/ /\ s = "Open"
             /\ \/ published /\ Clock(k) >= BEACON /\ Goto(k, "opening")
                \/ Goto(k, "after")
          \/ s = "Revealing" /\ EnterReveals(k)
          \/ s \notin {"Open", "Revealing"} /\ Goto(k, "after")
    /\ UNCHANGED <<environment, pos, skipped, reply, files>>

Opened(k) ==
    /\ pc[k] = "opened"
    /\ \E s \in Readable :
          \/ s = "Revealing" /\ EnterReveals(k)
          \/ s # "Revealing" /\ Goto(k, "after")
    /\ UNCHANGED <<environment, pos, skipped, reply, files>>

NextBid(k) == pos' = [pos EXCEPT ![k] = @ + 1]
SkipBid(k) ==
    /\ NextBid(k)
    /\ skipped' = [skipped EXCEPT ![k] = @ \cup {Bidders[pos[k]]}]

\* One bidder of keepRound's loop: read its state and its seal and open it.
TryBid(k) ==
    /\ pc[k] = "bid"
    /\ pos[k] <= Len(Bidders)
    /\ LET b == Bidders[pos[k]]
       IN  \/ b \in revealed /\ NextBid(k) /\ UNCHANGED <<pc, skipped>>
           \/ /\ b \notin revealed
              /\ seal[b] \in {"absent", "corrupt"}
              /\ SkipBid(k)
              /\ UNCHANGED pc
           \/ /\ b \notin revealed
              /\ seal[b] \notin {"absent", "corrupt"}
              /\ Goto(k, "revealing")
              /\ UNCHANGED <<pos, skipped>>
    /\ UNCHANGED <<environment, reply, files>>

\* Seeded fault: the cursor advances although bids were skipped.
EveryBidRevealed_Ignored(k) == TRUE

\* Seeded fault: they are kept for the next pass.
LeaveReveals_Keeps(k) == UNCHANGED <<pos, skipped>>

\* The loop's position and its result are gone when keepRound ends or throws.
LeaveReveals(k) ==
    /\ pos' = [pos EXCEPT ![k] = 1]
    /\ skipped' = [skipped EXCEPT ![k] = {}]

\* Only a pass that left every bid revealed advances the cursor.
EveryBidRevealed(k) == skipped[k] = {}

EndReveals(k) ==
    /\ pc[k] = "bid"
    /\ pos[k] > Len(Bidders)
    /\ IF EveryBidRevealed(k) THEN Record(k, "reveal") ELSE NothingRecorded
    /\ Goto(k, "after")
    /\ LeaveReveals(k)
    /\ UNCHANGED <<now, published, chain, replica, seal, pool, reply>>

After(k) ==
    /\ pc[k] = "after"
    /\ \E s \in Readable :
          Goto(k, IF s \in {"Revealing", "Cleared"} THEN "close" ELSE "idle")
    /\ UNCHANGED <<environment, pos, skipped, reply, files>>

\* closeRound's first read: clear a Revealing round past its deadline.
Close(k) ==
    /\ pc[k] = "close"
    /\ \E s \in Readable :
          \/ /\ s = "Revealing"
             /\ IF StepAlreadyDone(k, "clear") THEN Goto(k, "closed")
                ELSE IF Clock(k) <= REVEAL_DEADLINE THEN Goto(k, "idle")
                ELSE Goto(k, "clearing")
          \/ /\ s = "Cleared"
             /\ Goto(k, IF StepAlreadyDone(k, "settle") THEN "idle" ELSE "settling")
          \/ s \notin {"Revealing", "Cleared"} /\ Goto(k, "idle")
    /\ UNCHANGED <<environment, pos, skipped, reply, files>>

\* closeRound's read after clear.
Closed(k) ==
    /\ pc[k] = "closed"
    /\ \E s \in Readable :
          Goto(k, IF s = "Cleared" /\ ~StepAlreadyDone(k, "settle")
                  THEN "settling" ELSE "idle")
    /\ UNCHANGED <<environment, pos, skipped, reply, files>>
-----------------------------------------------------------------------------
(***************************************************************************)
(* Calls: sent when pc enters Waiting, landing at any later time, answered *)
(* after that.                                                             *)
(***************************************************************************)
CallOf(k) ==
    CASE pc[k] = "voiding"   -> <<"void">>
      [] pc[k] = "opening"   -> <<"open">>
      [] pc[k] = "revealing" -> <<"reveal", Bidders[pos[k]]>>
      [] pc[k] = "clearing"  -> <<"clear">>
      [] pc[k] = "settling"  -> <<"settle">>

Land(k) ==
    /\ pc[k] \in Waiting
    /\ reply[k] = None
    /\ reply' = [reply EXCEPT ![k] = Answer(CallOf(k))]
    /\ Lands(CallOf(k))
    /\ UNCHANGED <<now, published, replica, seal, pool, faults, pc, pos, skipped, files>>

\* The answers a pass continues after, and those that prove the step done.
VoidGoesOn == {"ok", "NotVoidable", "WrongStatus", "AlreadyCleared"}
OpenGoesOn == {"ok", "RevealAlreadyOpen", "WrongStatus", "AlreadyCleared"}

\* Seeded fault: a reveal that does not hash to the commitment is thrown.
RevealSkips_Throws == {"RevealWindowClosed"}

RevealSkips == {"HashMismatch", "RevealWindowClosed"}

\* Seeded fault: only a reveal of its own counts.
RevealDone_NoRace == {"ok"}

RevealDone == {"ok", "AlreadyRevealed"}
ClearGoesOn == {"ok", "AlreadyCleared", "RevealStillOpen", "WrongStatus", "RoundVoided"}

\* Seeded fault: a clear that comes too early counts as done.
ClearProved_Early == {"ok", "AlreadyCleared", "RevealStillOpen"}

ClearProved == {"ok", "AlreadyCleared"}
SettleGoesOn == {"ok", "AlreadySettled", "NotCleared", "WrongStatus"}
SettleProved == {"ok", "AlreadySettled"}

Answered(k, place) ==
    /\ pc[k] = place
    /\ reply[k] # None
    /\ reply' = [reply EXCEPT ![k] = None]
    /\ UNCHANGED <<now, published, chain, replica, seal, pool>>

RecordIf(k, step, proved) == IF proved THEN Record(k, step) ELSE NothingRecorded

AfterVoid(k) ==
    /\ Answered(k, "voiding")
    /\ Goto(k, IF reply[k] \in VoidGoesOn THEN "look" ELSE "failed")
    /\ RecordIf(k, "void", reply[k] = "ok")
    /\ UNCHANGED <<pos, skipped>>

AfterOpen(k) ==
    /\ Answered(k, "opening")
    /\ Goto(k, IF reply[k] \in OpenGoesOn THEN "opened" ELSE "failed")
    /\ RecordIf(k, "open-reveal", reply[k] \in OpenGoesOn)
    /\ UNCHANGED <<pos, skipped>>

AfterReveal(k) ==
    /\ Answered(k, "revealing")
    /\ \/ reply[k] \in RevealDone /\ Goto(k, "bid") /\ NextBid(k) /\ UNCHANGED skipped
       \/ reply[k] \in RevealSkips /\ Goto(k, "bid") /\ SkipBid(k)
       \/ /\ reply[k] \notin RevealDone \cup RevealSkips
          /\ Goto(k, "failed")
          /\ LeaveReveals(k)
    /\ NothingRecorded

AfterClear(k) ==
    /\ Answered(k, "clearing")
    /\ Goto(k, IF reply[k] \in ClearGoesOn THEN "closed" ELSE "failed")
    /\ RecordIf(k, "clear", reply[k] \in ClearProved)
    /\ UNCHANGED <<pos, skipped>>

AfterSettle(k) ==
    /\ Answered(k, "settling")
    /\ Goto(k, IF reply[k] \in SettleGoesOn THEN "idle" ELSE "failed")
    /\ RecordIf(k, "settle", reply[k] \in SettleProved)
    /\ UNCHANGED <<pos, skipped>>

\* The watch loop releases the round of a failed tick and polls it again.
Retry(k) ==
    /\ pc[k] = "failed"
    /\ Goto(k, "idle")
    /\ UNCHANGED <<environment, pos, skipped, reply, files>>
-----------------------------------------------------------------------------
(***************************************************************************)
(* Faults.                                                                 *)
(***************************************************************************)
Fault == faults < MaxFaults /\ faults' = faults + 1

\* A call whose sender gives up on it may still land.
GiveUp(k) ==
    /\ pool' = IF pc[k] \in Waiting /\ reply[k] = None THEN pool \cup {CallOf(k)} ELSE pool
    /\ reply' = [reply EXCEPT ![k] = None]

\* The confirmation of a call times out or is lost: the tick fails.
LoseAnswer(k) ==
    /\ pc[k] \in Waiting
    /\ Fault
    /\ GiveUp(k)
    /\ Goto(k, "failed")
    /\ LeaveReveals(k)
    /\ UNCHANGED <<now, published, chain, replica, seal, files>>

\* A read fails: getBidState's failure skips the bidder, others fail the tick.
ReadFails(k) ==
    /\ pc[k] \in Reading
    /\ Fault
    /\ Goto(k, "failed")
    /\ LeaveReveals(k)
    /\ UNCHANGED <<now, published, chain, replica, seal, pool, reply, files>>

StateReadFails(k) ==
    /\ pc[k] = "bid"
    /\ pos[k] <= Len(Bidders)
    /\ Fault
    /\ SkipBid(k)
    /\ UNCHANGED <<now, published, chain, replica, seal, pool, pc, reply, files>>

Crash(k) ==
    /\ pc[k] # "down"
    /\ Fault
    /\ GiveUp(k)
    /\ Goto(k, "down")
    /\ LeaveReveals(k)
    /\ mem' = [mem EXCEPT ![k] = {}]
    /\ UNCHANGED <<now, published, chain, replica, seal, disk>>

SatisfiedBy ==
    [step \in KeeperStep |->
       CASE step = "open-reveal" -> {"Revealing", "Cleared", "Settled", "Voided"}
         [] step = "reveal"      -> {"Revealing", "Cleared", "Settled", "Voided"}
         [] step = "clear"       -> {"Cleared", "Settled", "Voided"}
         [] step = "settle"      -> {"Settled", "Voided"}
         [] step = "void"        -> {"Voided"}]

\* The process starts: it loads the file, and resumeCheckpoint drops the steps
\* the observed status cannot prove (no step has a transaction hash).
Restart(k) ==
    /\ pc[k] = "down"
    /\ \E s \in Readable :
          mem' = [mem EXCEPT ![k] = {step \in disk[k] : s \in SatisfiedBy[step]}]
    /\ Saved(k) \/ SaveFails(k)
    /\ Goto(k, "idle")
    /\ UNCHANGED <<now, published, chain, replica, seal, pool, pos, skipped, reply>>

\* The status could not be read: the cursor is kept as it is.
RestartUnreconciled(k) ==
    /\ pc[k] = "down"
    /\ Fault
    /\ mem' = [mem EXCEPT ![k] = disk[k]]
    /\ Goto(k, "idle")
    /\ UNCHANGED <<now, published, chain, replica, seal, pool, pos, skipped, reply, disk>>
-----------------------------------------------------------------------------
Pass(k) ==
    \/ VoidIfStale(k) \/ Look(k) \/ Keep(k) \/ Opened(k) \/ TryBid(k) \/ EndReveals(k)
    \/ After(k) \/ Close(k) \/ Closed(k)
    \/ AfterVoid(k) \/ AfterOpen(k) \/ AfterReveal(k) \/ AfterClear(k) \/ AfterSettle(k)
    \/ Retry(k) \/ Restart(k)

Trouble(k) ==
    LoseAnswer(k) \/ ReadFails(k) \/ StateReadFails(k) \/ Crash(k) \/ RestartUnreconciled(k)

Next ==
    \/ Tick \/ Publish \/ CatchUp \/ LandLate
    \/ \E k \in Keeper : Pass(k) \/ Land(k) \/ Trouble(k)

Spec == Init /\ [][Next]_vars

(***************************************************************************)
(* Time passes, replicas catch up, and a keeper process that runs goes on: *)
(* its loop polls for ever, its calls land or are given up, and whoever    *)
(* operates it restarts it.  Drand owes nothing.                           *)
(***************************************************************************)
Fairness ==
    /\ WF_vars(Tick) /\ WF_vars(CatchUp)
    /\ \A k \in Keeper : WF_vars(Pass(k)) /\ WF_vars(Land(k))

FairSpec == Spec /\ Fairness
-----------------------------------------------------------------------------
(***************************************************************************)
(* Properties.                                                             *)
(***************************************************************************)
\* Types, the bounds of the loop, and that its state lives in the loop only.
TypeOK ==
    /\ now \in 0 .. MaxTime
    /\ published \in BOOLEAN
    /\ status \in Status /\ replica \in Status
    /\ revealed \subseteq Bidder
    /\ seal \in [Bidder -> SealKind]
    /\ pool \subseteq Calls
    /\ faults \in 0 .. MaxFaults
    /\ pc \in [Keeper -> Reading \cup Waiting \cup {"failed", "down"}]
    /\ pos \in [Keeper -> 1 .. Len(Bidders) + 1]
    /\ skipped \in [Keeper -> SUBSET Bidder]
    /\ \A k \in Keeper : ~InReveals(k) => pos[k] = 1 /\ skipped[k] = {}
    /\ reply \in [Keeper -> Replies \cup {None}]
    /\ mem \in [Keeper -> SUBSET KeeperStep]
    /\ disk \in [Keeper -> SUBSET KeeperStep]

\* The cursor never claims what the chain does not show (checkpoint.ts rule 3
\* and keeper.ts, recordStep): a recorded step holds on chain whatever was
\* lost, raced, restarted or read late, in memory and in the file, so skipping
\* it cannot strand the round.
Proven(step) ==
    /\ status \in SatisfiedBy[step]
    /\ step = "reveal" => revealed = Bidder
    /\ step = "settle" => status = "Settled"
CursorHonest == \A k \in Keeper : \A step \in mem[k] \cup disk[k] : Proven(step)

\* A pass over the bidders, unless the window closes on it or a fault cuts it
\* short, leaves every bid that can be opened revealed or recorded as skipped:
\* no seal keeps the keeper from the next one (keeper.ts, head comment).
PassRevealsAll ==
    [][\A k \in Keeper :
          (InReveals(k) /\ ~InReveals(k)' /\ faults' = faults /\ now <= REVEAL_DEADLINE)
          => \A b \in Bidder : seal[b] \in {"good", "zero"}
                => b \in revealed \/ b \in skipped[k]]_vars

\* Liveness: whatever crashes, gets lost, lags or is sealed badly, the round
\* ends settled or voided.
RoundCompletes == <>(status \in Terminal)
=============================================================================
