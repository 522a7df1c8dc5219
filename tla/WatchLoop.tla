------------------------------ MODULE WatchLoop ------------------------------
(***************************************************************************)
(* Watchers (services/keeper/src: watch-loop.ts, queue.ts, store.ts) that   *)
(* share one store file, and the queue CLI that edits it beside them.      *)
(*                                                                         *)
(* A watcher polls: it enqueues the rounds it discovers, claims one queued *)
(* round after the other and runs watchRound on it, here the step Tick     *)
(* (module Keeper models its inside).  Every store call reads the file     *)
(* again, changes its copy and writes all of it back.  Nothing locks the   *)
(* file: where calls overlap, another process may write between the two.   *)
(***************************************************************************)
EXTENDS Integers, Sequences, FiniteSets, SequencesExt

CONSTANTS
    Watcher,        \* watcher processes; a watcher is its own lease owner
    Cli,            \* processes of the queue CLI
    Round,          \* round ids
    Poison,         \* rounds whose ticks always fail
    Here, There,    \* the watchers' deployment and another one
    None,
    LEASE,          \* duration of a lease
    Setups          \* who runs, what can go wrong, and the bounds

Setup == [
    up : SUBSET Watcher,
    rounds : (SUBSET Round) \ {{}},    \* rounds there are to discover
    overlap : BOOLEAN,          \* may store calls of two processes overlap?
    saves : BOOLEAN,            \* may a save fail?
    time : Nat,                 \* bound: last time
    faults : Nat,               \* bound: crashes, failed ticks, discoveries and saves
    calls : Nat]                \* bound: calls of the CLI

ASSUME RoundAssumption == Round \subseteq Nat /\ IsFiniteSet(Round) /\ Poison \subseteq Round
ASSUME NameAssumption == None \notin {Here, There} /\ Here # There
ASSUME SetupAssumption == Setups \subseteq Setup /\ LEASE \in Nat

VARIABLES
    setup,          \* chosen at the start
    now,
    chain,          \* the status of every round
    file,           \* the store file: rounds and leases
    mem,            \* KeeperStore.data of every process
    loaded,         \* processes inside a store call, after its reload
    queue,          \* KeeperQueue.queuedRoundIds, in insertion order
    inFlight,       \* KeeperQueue.inFlightRoundIds
    pc,             \* where runWatchLoop is
    todo,           \* discovered rounds still to be enqueued
    batch,          \* claims left in this batch
    tick,           \* the round being ticked and how the tick ended
    stopping,       \* watchers told to stop
    removed,        \* history: rounds the CLI ever removed
    faults, calls

vars == <<setup, removed, now, chain, file, mem, loaded, queue, inFlight, pc, todo, batch,
          tick, stopping, faults, calls>>
stores == <<file, mem, loaded>>
work == <<queue, inFlight>>
bounds == <<setup, removed, faults, calls>>
faultless == <<setup, removed, calls>>

Process == Watcher \cup Cli
\* Statuses as far as the loop tells them apart: Open stands for Revealing too.
Status == {"Open", "Cleared", "Settled", "Voided"}
Terminal == {"Settled", "Voided"}
Scope == {Here, There, None}

\* WatchedRound and RoundLease, as far as the loop reads them; contract id and
\* network are one scope.
WatchedRound == [lastStatus : Status \cup {"Unknown"}, scope : Scope]
RoundLease == [owner : Process, round : Round, scope : Scope, expires : Nat]
Store == [rounds : UNION {[tracked -> WatchedRound] : tracked \in SUBSET Round},
          leases : SUBSET RoundLease]
EmptyStore == [rounds |-> [r \in {} |-> None], leases |-> {}]
-----------------------------------------------------------------------------
(***************************************************************************)
(* The store: what every mutator makes of the data it read.                *)
(***************************************************************************)
Tracked(d) == DOMAIN d.rounds
SetRound(d, r, rec) ==
    [d EXCEPT !.rounds = [q \in Tracked(d) \cup {r} |-> IF q = r THEN rec ELSE @[q]]]

\* addRound: a new entry, or the old one with its scope replaced, be it by none:
\* the fields that enqueue spreads over the entry are there, if undefined.
AddRound(d, r, scope) ==
    SetRound(d, r, [lastStatus |-> IF r \in Tracked(d) THEN d.rounds[r].lastStatus ELSE "Unknown",
                    scope |-> scope])

RemoveRound(d, r) == [d EXCEPT !.rounds = [q \in Tracked(d) \ {r} |-> @[q]]]

ScopesOverlap(a, b) == a = None \/ b = None \/ a = b

Live(l) == l.expires > now

\* Seeded fault: only leases of the very same scope are in the way.
HeldLeases_Exact(d, r, owner, scope) ==
    {l \in d.leases : l.round = r /\ l.owner # owner /\ Live(l) /\ l.scope = scope}

\* The leases that keep owner from a claim.
HeldLeases(d, r, owner, scope) ==
    {l \in d.leases : l.round = r /\ l.owner # owner /\ Live(l)
                      /\ ScopesOverlap(l.scope, scope)}

\* claimRound, when no lease is held: one lease per round and scope.
ClaimRound(d, r, owner, scope) ==
    [d EXCEPT !.leases =
        {l \in @ : l.round # r \/ l.scope # scope}
        \cup {[owner |-> owner, round |-> r, scope |-> scope, expires |-> now + LEASE]}]

\* Seeded fault: everybody's leases on the round are removed.
ReleaseLease_Any(d, r, owner, scope) ==
    [d EXCEPT !.leases = {l \in @ : ~(l.round = r /\ ScopesOverlap(l.scope, scope))}]

ReleaseLease(d, r, owner, scope) ==
    [d EXCEPT !.leases =
        {l \in @ : ~(l.round = r /\ l.owner = owner /\ ScopesOverlap(l.scope, scope))}]
-----------------------------------------------------------------------------
(***************************************************************************)
(* Store calls of a process.                                               *)
(***************************************************************************)
CanClaim(p) == batch[p] > 0 /\ p \notin stopping /\ queue[p] # <<>>

InStoreCall(p) ==
    \/ p \in Cli /\ calls < setup.calls
    \/ /\ p \in Watcher
       /\ \/ pc[p] = "enqueue" /\ todo[p] # <<>>
          \/ pc[p] = "batch" /\ CanClaim(p)
          \/ pc[p] \in {"completed", "failed", "release"}

\* The data the call works on: what it read when it began.
Read(p) == IF p \in loaded THEN mem[p] ELSE file

\* The first half of a store call, when another process may get in between.
Reload(p) ==
    /\ setup.overlap
    /\ p \notin loaded
    /\ InStoreCall(p)
    /\ mem' = [mem EXCEPT ![p] = file]
    /\ loaded' = loaded \cup {p}
    /\ UNCHANGED <<now, chain, file, work, pc, todo, batch, tick, stopping, bounds>>

\* saveStore replaces the file; an error is logged and the copy is kept.
Save(p, d) ==
    /\ mem' = [mem EXCEPT ![p] = IF p \in Cli THEN EmptyStore ELSE d]
    /\ loaded' = loaded \ {p}
    /\ \/ file' = d /\ UNCHANGED faults
       \/ setup.saves /\ d # file /\ faults < setup.faults /\ faults' = faults + 1 /\ UNCHANGED file

\* A call that decides not to write has read the file all the same.
ReadOnly(p) ==
    /\ mem' = [mem EXCEPT ![p] = IF p \in Cli THEN EmptyStore ELSE Read(p)]
    /\ loaded' = loaded \ {p}
    /\ UNCHANGED <<file, faults>>

\* updateRound and removeRound write when the round is there.
Update(p, r, d) == IF r \in Tracked(Read(p)) THEN Save(p, d) ELSE ReadOnly(p)

\* releaseLease writes when it removed a lease.
Drop(p, r, owner, scope) ==
    LET d == ReleaseLease(Read(p), r, owner, scope)
    IN  IF d = Read(p) THEN ReadOnly(p) ELSE Save(p, d)
-----------------------------------------------------------------------------
(***************************************************************************)
(* The queue.                                                              *)
(***************************************************************************)
Active(d) == {r \in Tracked(d) : d.rounds[r].lastStatus \notin Terminal}
InScope(rec) == rec.scope \in {Here, None}

\* Seeded fault: a round may wait twice.
AppendNew_Twice(q, r) == Append(q, r)

AppendNew(q, r) == IF r \in ToSet(q) THEN q ELSE Append(q, r)

\* The ids of a set, ascending: a set of one sequence.
Sorted(ids) ==
    {q \in [1 .. Cardinality(ids) -> ids] : \A i, j \in DOMAIN q : i < j => q[i] < q[j]}

\* syncWithStore adds the active rounds of the store by ascending id.
SyncWithStore(q, flying, d) ==
    LET mine == {r \in Active(d) : InScope(d.rounds[r])} \ flying
    IN  {q \o new : new \in Sorted(mine \ ToSet(q))}

Goto(p, place) == pc' = [pc EXCEPT ![p] = place]
NoTick == [round |-> None, status |-> None]
-----------------------------------------------------------------------------
Init ==
    /\ setup \in Setups
    /\ now = 0
    /\ chain = [r \in Round |-> "Open"]
    /\ file = EmptyStore
    /\ mem = [p \in Process |-> EmptyStore]
    /\ loaded = {}
    /\ queue = [p \in Watcher |-> <<>>]
    /\ inFlight = [p \in Watcher |-> {}]
    /\ pc = [p \in Watcher |-> "down"]
    /\ todo = [p \in Watcher |-> <<>>]
    /\ batch = [p \in Watcher |-> 0]
    /\ tick = [p \in Watcher |-> NoTick]
    /\ stopping = {}
    /\ removed = {}
    /\ faults = 0
    /\ calls = 0

(***************************************************************************)
(* The loop of a watcher.                                                  *)
(***************************************************************************)
\* validateStoredCheckpoint refuses the rounds of another deployment.
MayStart(d) == \A r \in Tracked(d) : d.rounds[r].scope # There

Start(p) ==
    /\ pc[p] = "down"
    /\ p \in setup.up
    /\ MayStart(file)
    /\ mem' = [mem EXCEPT ![p] = file]
    /\ \E q \in SyncWithStore(<<>>, {}, file) : queue' = [queue EXCEPT ![p] = q]
    /\ inFlight' = [inFlight EXCEPT ![p] = {}]
    /\ stopping' = stopping \ {p}
    /\ Goto(p, "poll")
    /\ UNCHANGED <<now, chain, file, loaded, todo, batch, tick, bounds>>

\* The queue is synchronised with the store in memory; its length is the batch.
StartBatch(p, q, d) ==
    /\ \E synced \in SyncWithStore(q, inFlight[p], d) :
          /\ queue' = [queue EXCEPT ![p] = synced]
          /\ batch' = [batch EXCEPT ![p] = Len(synced)]
    /\ Goto(p, "batch")

\* resolveRoundIds lists the rounds; when it fails the poll goes on without.
Poll(p) ==
    /\ pc[p] = "poll"
    /\ p \notin stopping
    /\ \/ /\ \E found \in Sorted(setup.rounds) : todo' = [todo EXCEPT ![p] = found]
          /\ Goto(p, "enqueue")
          /\ UNCHANGED <<queue, batch, faults>>
       \/ /\ faults < setup.faults
          /\ faults' = faults + 1
          /\ StartBatch(p, queue[p], mem[p])
          /\ UNCHANGED todo
    /\ UNCHANGED <<now, chain, stores, inFlight, tick, stopping, faultless>>

\* Seeded fault: an active round is queued while it is in flight.
Enqueued_Flying(p, r, d) == IF r \in Active(d) THEN AppendNew(queue[p], r) ELSE queue[p]

Enqueued(p, r, d) ==
    IF r \in Active(d) \ inFlight[p] THEN AppendNew(queue[p], r) ELSE queue[p]

Enqueue(p) ==
    /\ pc[p] = "enqueue"
    /\ LET r == Head(todo[p])
           d == AddRound(Read(p), r, Here)
       IN  /\ Save(p, d)
           /\ IF Len(todo[p]) = 1
              THEN StartBatch(p, Enqueued(p, r, d), d)
              ELSE /\ queue' = [queue EXCEPT ![p] = Enqueued(p, r, d)]
                   /\ UNCHANGED <<batch, pc>>
    /\ todo' = [todo EXCEPT ![p] = Tail(@)]
    /\ UNCHANGED <<now, chain, inFlight, tick, stopping, faultless>>

\* claim: a round that the store no longer has ends the batch, in flight.
Claim(p) ==
    /\ pc[p] = "batch"
    /\ CanClaim(p)
    /\ LET r == Head(queue[p])
       IN  /\ queue' = [queue EXCEPT ![p] = Tail(@)]
           /\ inFlight' = [inFlight EXCEPT ![p] = @ \cup {r}]
           /\ Update(p, r, Read(p))       \* the queue status is not modelled
           /\ IF r \in Tracked(Read(p))
              THEN /\ tick' = [tick EXCEPT ![p] = [round |-> r, status |-> "running"]]
                   /\ batch' = [batch EXCEPT ![p] = @ - 1]
                   /\ Goto(p, "tick")
              ELSE batch' = [batch EXCEPT ![p] = 0] /\ UNCHANGED <<tick, pc>>
    /\ UNCHANGED <<now, chain, todo, stopping, faultless>>

\* The batch is done, or the loop sees that it has to stop.
EndBatch(p) ==
    /\ \/ pc[p] = "batch" /\ ~CanClaim(p)
       \/ pc[p] = "poll" /\ p \in stopping
    /\ Goto(p, IF p \in stopping THEN "down" ELSE "poll")
    /\ batch' = [batch EXCEPT ![p] = 0]
    /\ UNCHANGED <<now, chain, stores, work, todo, tick, stopping, bounds>>

Later(s) ==
    [Open |-> {"Cleared", "Voided"}, Cleared |-> {"Settled"}, Settled |-> {}, Voided |-> {}][s]
Reach(s) == {s} \cup Later(s) \cup UNION {Later(t) : t \in Later(s)}

\* watchRound ends: it moved the round as far as it could and read its status.
TickEnds(p) ==
    /\ pc[p] = "tick"
    /\ tick[p].round \notin Poison
    /\ \E s \in Reach(chain[tick[p].round]) :
          /\ chain' = [chain EXCEPT ![tick[p].round] = s]
          /\ tick' = [tick EXCEPT ![p].status = s]
    /\ Goto(p, "completed")
    /\ UNCHANGED <<now, stores, work, todo, batch, stopping, bounds>>

\* It throws, or takes too long for a watcher that has to stop.  Only an answer
\* of the contract is definitive.
TickFails(p) ==
    /\ pc[p] = "tick"
    /\ \/ tick[p].round \in Poison /\ UNCHANGED faults
       \/ p \in stopping /\ UNCHANGED faults
       \/ faults < setup.faults /\ faults' = faults + 1
    /\ \E kind \in {"definitive", "unknown"} : tick' = [tick EXCEPT ![p].status = kind]
    /\ Goto(p, "failed")
    /\ UNCHANGED <<now, chain, stores, work, todo, batch, stopping, faultless>>

\* Seeded fault: a failed round goes back to the head of the queue.
Requeue_First(q, r) == IF r \in ToSet(q) THEN q ELSE <<r>> \o q

Requeue(q, r) == AppendNew(q, r)

\* Seeded fault: a round is recorded settled when its tick cleared it.
Outcome_Settled(s) == IF s = "Cleared" THEN "Settled" ELSE s

Outcome(s) == s

\* The round leaves inFlight and, when another tick is due, is queued again.
Back(p, r, d, again) ==
    /\ inFlight' = [inFlight EXCEPT ![p] = @ \ {r}]
    /\ queue' = [queue EXCEPT ![p] =
           IF again /\ r \in Tracked(d) THEN Requeue(@, r) ELSE @]

\* On to the lease of a finished round, or to the next claim.
Then(p, release) ==
    /\ Goto(p, IF release THEN "release" ELSE "batch")
    /\ tick' = IF release THEN tick ELSE [tick EXCEPT ![p] = NoTick]

\* queue.complete records the status that the tick ended with.
Complete(p) ==
    /\ pc[p] = "completed"
    /\ LET r == tick[p].round
           s == Outcome(tick[p].status)
           d == Read(p)
           done == s \in Terminal
       IN  /\ Update(p, r, SetRound(d, r, [d.rounds[r] EXCEPT !.lastStatus = s]))
           /\ Back(p, r, d, ~done /\ p \notin stopping)
           /\ Then(p, done)
    /\ UNCHANGED <<now, chain, todo, batch, stopping, faultless>>

\* queue.release writes the retry count and the error, which nothing reads.
Fail(p) ==
    /\ pc[p] = "failed"
    /\ Update(p, tick[p].round, Read(p))
    /\ Back(p, tick[p].round, Read(p), TRUE)
    /\ Then(p, tick[p].status = "definitive")
    /\ UNCHANGED <<now, chain, todo, batch, stopping, faultless>>

Release(p) ==
    /\ pc[p] = "release"
    /\ Drop(p, tick[p].round, p, Here)
    /\ tick' = [tick EXCEPT ![p] = NoTick]
    /\ Goto(p, "batch")
    /\ UNCHANGED <<now, chain, work, todo, batch, stopping, faultless>>
-----------------------------------------------------------------------------
(***************************************************************************)
(* The queue CLI: each run is a process of its own.  KEEPER_OWNER may name *)
(* a watcher, and the deployment need not be given.                        *)
(***************************************************************************)
CliCall ==
    /\ calls < setup.calls
    /\ calls' = calls + 1
    /\ UNCHANGED <<setup, now, chain, work, pc, todo, batch, tick, stopping>>

CliAdd(c, r) ==
    /\ \E scope \in Scope : Save(c, AddRound(Read(c), r, scope))
    /\ CliCall
    /\ UNCHANGED removed

CliRemove(c, r) ==
    /\ Update(c, r, RemoveRound(Read(c), r))
    /\ removed' = removed \cup {r}
    /\ CliCall

CliClaim(c, owner, r) ==
    /\ \E scope \in Scope :
          IF HeldLeases(Read(c), r, owner, scope) = {}
          THEN Save(c, ClaimRound(Read(c), r, owner, scope))
          ELSE ReadOnly(c)
    /\ CliCall
    /\ UNCHANGED removed

CliRelease(c, owner, r) ==
    /\ \E scope \in Scope : Drop(c, r, owner, scope)
    /\ CliCall
    /\ UNCHANGED removed
-----------------------------------------------------------------------------
Clock ==
    /\ now < setup.time
    /\ now' = now + 1
    /\ UNCHANGED <<chain, stores, work, pc, todo, batch, tick, stopping, bounds>>

\* Somebody else's call moves a round: every step is permissionless.
Advance(r) ==
    /\ r \in setup.rounds
    /\ \E s \in Later(chain[r]) : chain' = [chain EXCEPT ![r] = s]
    /\ UNCHANGED <<now, stores, work, pc, todo, batch, tick, stopping, bounds>>

Stop(p) ==
    /\ pc[p] # "down"
    /\ p \notin stopping
    /\ faults < setup.faults
    /\ faults' = faults + 1
    /\ stopping' = stopping \cup {p}
    /\ UNCHANGED <<now, chain, stores, work, pc, todo, batch, tick, faultless>>

Crash(p) ==
    /\ pc[p] # "down"
    /\ faults < setup.faults
    /\ faults' = faults + 1
    /\ loaded' = loaded \ {p}
    /\ tick' = [tick EXCEPT ![p] = NoTick]
    /\ todo' = [todo EXCEPT ![p] = <<>>]
    /\ mem' = [mem EXCEPT ![p] = EmptyStore]
    /\ Goto(p, "down")
    /\ UNCHANGED <<now, chain, file, work, batch, stopping, faultless>>
-----------------------------------------------------------------------------
Step(p) ==
    \/ Start(p) \/ Poll(p) \/ Enqueue(p) \/ Claim(p) \/ EndBatch(p)
    \/ TickEnds(p) \/ TickFails(p) \/ Complete(p) \/ Fail(p) \/ Release(p)

Next ==
    \/ Clock
    \/ \E r \in Round : Advance(r)
    \/ \E p \in Process : Reload(p)
    \/ \E p \in Watcher : Step(p) \/ Stop(p) \/ Crash(p)
    \/ \E c \in Cli, r \in setup.rounds :
          \/ CliAdd(c, r) \/ CliRemove(c, r)
          \/ \E owner \in Watcher \cup {c} : CliClaim(c, owner, r) \/ CliRelease(c, owner, r)

Spec == Init /\ [][Next]_vars

\* A watcher goes on and is restarted; a round that anybody may move is moved.
Fairness ==
    /\ \A p \in Watcher : WF_vars(Step(p))
    /\ \A r \in Round : WF_vars(Advance(r))

FairSpec == Spec /\ Fairness
-----------------------------------------------------------------------------
(***************************************************************************)
(* Properties.                                                             *)
(***************************************************************************)
\* Types; where the loop holds a round, and where the end of its tick.
TypeOK ==
    /\ setup \in Setups /\ now \in Nat
    /\ chain \in [Round -> Status]
    /\ file \in Store /\ mem \in [Process -> Store]
    /\ loaded \subseteq Process
    /\ queue \in [Watcher -> Seq(Round)] /\ todo \in [Watcher -> Seq(Round)]
    /\ inFlight \in [Watcher -> SUBSET Round]
    /\ pc \in [Watcher -> {"down", "poll", "enqueue", "batch", "tick", "completed",
                            "failed", "release"}]
    /\ tick \in [Watcher -> [round : Round \cup {None},
                             status : Status \cup {"running", "definitive", "unknown", None}]]
    /\ \A p \in Watcher :
          /\ pc[p] \in {"tick", "completed", "failed", "release"} => tick[p].round \in Round
          /\ pc[p] = "completed" => tick[p].status \in Status

\* "strict state separation between queued and in-flight rounds" (queue.ts:23),
\* over every poll, failure and re-discovery of a round that is being ticked.
QueueSeparation == \A p \in Watcher : ToSet(queue[p]) \cap inFlight[p] = {}

\* No watcher drops a round that is not over: what the store says to be
\* settled or voided is so on chain, whoever wrote it and however late.
TerminalIsTrue ==
    \A r \in Tracked(file) :
        file.rounds[r].lastStatus \in Terminal => chain[r] = file.rounds[r].lastStatus

\* At most one owner holds a live lease on a round, whatever the scopes the
\* leases were claimed under, as long as store calls do not overlap.
LeaseExclusive ==
    ~setup.overlap =>
        \A l, m \in file.leases :
            l.round = m.round /\ Live(l) /\ Live(m) /\ ScopesOverlap(l.scope, m.scope)
            => l.owner = m.owner

\* "a watcher can never release a round somebody else is working on"
\* (store.ts:365): a live lease goes only by a release in its owner's name, from
\* its watcher or the CLI (KEEPER_OWNER names the owner), or by a renewal.
Kept(l) ==
    \/ \E m \in file'.leases : m.owner = l.owner /\ m.round = l.round
                              /\ m.scope = l.scope /\ m.expires >= l.expires
    \/ l.owner \in Watcher /\ pc[l.owner] = "release" /\ pc'[l.owner] = "batch"
    \/ \E c \in Cli : CliRelease(c, l.owner, l.round)
LeaseKept ==
    [][~setup.overlap => \A l \in file.leases : Live(l) => Kept(l)]_vars

\* A round is in the end recorded as over, for good, if the CLI does not remove
\* it and no round of another deployment stays in the store: with one there no
\* watcher starts.
Recorded(r) == r \in Tracked(file) /\ file.rounds[r].lastStatus \in Terminal
Ends(r) ==
    r \in setup.rounds \ Poison =>
        \/ <>[](r \in removed \/ Recorded(r))
        \/ <>[]~MayStart(file)

\* Liveness: whatever crashes or fails, beside other watchers, the CLI and
\* rounds whose ticks always fail, every round is ticked until it is recorded as
\* over.  Store calls must not overlap and saves not fail: either way a round
\* may be missing in the file when claim looks for it, and stays in flight.
RoundsFinish == \A r \in Round : ~setup.saves /\ ~setup.overlap => Ends(r)

\* "reliable persistence handoff" (queue.ts:23): the same when a save of the
\* store may fail, and where store calls overlap.  It does not hold: the round
\* that enqueue could not write is missing when claim reads the file again, and
\* stays in flight for ever.
RoundsFinishUnsaved == \A r \in Round : Ends(r)
=============================================================================
