--------------------------- MODULE WatchLoopProofs ---------------------------
(***************************************************************************)
(* What watchers that share a store file never get wrong, for any number of *)
(* watchers, CLI calls, rounds, crashes, failures and overlaps: a round     *)
(* waits or is in flight, a recorded end is the end on chain, and leases    *)
(* exclude each other and last while store calls do not overlap.            *)
(***************************************************************************)
EXTENDS WatchLoop, FiniteSetTheorems, TLAPS
-----------------------------------------------------------------------------
(***************************************************************************)
(* The inductive invariant.                                                *)
(***************************************************************************)
BaseInv ==
    /\ setup \in Setups
    /\ now \in Nat
    /\ chain \in [Round -> Status]

\* Data that calls no round over that is not.
IsTrue(d) ==
    \A r \in Tracked(d) :
        d.rounds[r].lastStatus \in Terminal => chain[r] = d.rounds[r].lastStatus

Good(d) == d \in Store /\ IsTrue(d)

\* Nobody's copy is worse than the file: it may be written at any later time.
StoreInv ==
    /\ Good(file)
    /\ mem \in [Process -> Store]
    /\ \A p \in Process : IsTrue(mem[p])
    /\ loaded \subseteq Process

LeaseInv ==
    /\ LeaseExclusive
    /\ ~setup.overlap =>
          /\ loaded = {}
          /\ \A l \in file.leases : l.expires <= now + LEASE

\* A queue with the rounds in flight beside it.
Separate(q, flying) ==
    /\ q \in Seq(Round) /\ flying \in SUBSET Round
    /\ IsInjective(q)
    /\ ToSet(q) \cap flying = {}

QueueInv ==
    /\ queue \in [Watcher -> Seq(Round)]
    /\ inFlight \in [Watcher -> SUBSET Round]
    /\ \A p \in Watcher : Separate(queue[p], inFlight[p])

Place == {"down", "poll", "enqueue", "batch", "tick", "completed", "failed", "release"}
TickStatus == Status \cup {"running", "definitive", "unknown", None}

\* A tick that has ended knows how its round ended.
LoopInv ==
    /\ todo \in [Watcher -> Seq(Round)]
    /\ pc \in [Watcher -> Place]
    /\ tick \in [Watcher -> [round : Round \cup {None}, status : TickStatus]]
    /\ \A p \in Watcher :
          /\ pc[p] = "enqueue" => todo[p] # <<>>
          /\ pc[p] \in {"tick", "completed", "failed", "release"} => tick[p].round \in Round
          /\ pc[p] = "completed" =>
                /\ tick[p].status \in Status
                /\ tick[p].status \in Terminal => chain[tick[p].round] = tick[p].status

IInv == BaseInv /\ StoreInv /\ LeaseInv /\ QueueInv /\ LoopInv
-----------------------------------------------------------------------------
(***************************************************************************)
(* Data of the store.                                                      *)
(***************************************************************************)
\* What makes a record a store.
LEMMA StoreIntro ==
    ASSUME NEW tracked \in SUBSET Round, NEW f \in [tracked -> WatchedRound],
           NEW leases \in SUBSET RoundLease
    PROVE  [rounds |-> f, leases |-> leases] \in Store
BY DEF Store

\* What a store is.
LEMMA StoreElim ==
    ASSUME NEW d \in Store
    PROVE  /\ Tracked(d) \in SUBSET Round
           /\ d.rounds \in [Tracked(d) -> WatchedRound]
           /\ d.leases \in SUBSET RoundLease
           /\ d = [rounds |-> d.rounds, leases |-> d.leases]
BY DEF Store, Tracked

LEMMA EmptyStoreGood == Good(EmptyStore)
<1>1. [r \in {} |-> None] \in [{} -> WatchedRound]
  OBVIOUS
<1>2. EmptyStore \in Store
  BY <1>1, StoreIntro DEF EmptyStore
<1>3. Tracked(EmptyStore) = {}
  BY DEF Tracked, EmptyStore
<1> QED
  BY <1>2, <1>3 DEF Good, IsTrue

\* A round is replaced or added by a record that is true of it.
LEMMA SetRoundGood ==
    ASSUME NEW d, Good(d), NEW r \in Round, NEW rec \in WatchedRound,
           rec.lastStatus \in Terminal => chain[r] = rec.lastStatus
    PROVE  /\ Good(SetRound(d, r, rec))
           /\ SetRound(d, r, rec).leases = d.leases
<1> DEFINE f == [q \in Tracked(d) \cup {r} |-> IF q = r THEN rec ELSE d.rounds[q]]
<1>1. /\ Tracked(d) \in SUBSET Round
      /\ d.rounds \in [Tracked(d) -> WatchedRound]
      /\ d.leases \in SUBSET RoundLease
      /\ d = [rounds |-> d.rounds, leases |-> d.leases]
  BY StoreElim DEF Good
<1>2. SetRound(d, r, rec) = [rounds |-> f, leases |-> d.leases]
  BY <1>1 DEF SetRound
<1>3. f \in [Tracked(d) \cup {r} -> WatchedRound]
  BY <1>1
<1>4. SetRound(d, r, rec) \in Store
  BY <1>1, <1>2, <1>3, StoreIntro
<1>5. ASSUME NEW q \in Tracked(SetRound(d, r, rec)),
             SetRound(d, r, rec).rounds[q].lastStatus \in Terminal
      PROVE  chain[q] = SetRound(d, r, rec).rounds[q].lastStatus
  <2>1. q \in Tracked(d) \cup {r} /\ SetRound(d, r, rec).rounds[q] = f[q]
    BY <1>2, <1>5 DEF Tracked
  <2>2. CASE q = r
    BY <1>5, <2>1, <2>2
  <2>3. CASE q # r
    <3>1. q \in Tracked(d) /\ SetRound(d, r, rec).rounds[q] = d.rounds[q]
      BY <2>1, <2>3
    <3>2. d.rounds[q].lastStatus \in Terminal
      BY <1>5, <3>1, Zenon
    <3>3. chain[q] = d.rounds[q].lastStatus
      BY <3>1, <3>2, Zenon DEF Good, IsTrue
    <3> QED
      BY <3>1, <3>3
  <2> QED
    BY <2>2, <2>3
<1>6. IsTrue(SetRound(d, r, rec))
  BY <1>5 DEF IsTrue
<1>7. SetRound(d, r, rec).leases = d.leases
  BY <1>2
<1> QED
  BY <1>4, <1>6, <1>7 DEF Good

LEMMA AddRoundGood ==
    ASSUME NEW d, Good(d), NEW r \in Round, NEW scope \in Scope
    PROVE  /\ Good(AddRound(d, r, scope))
           /\ AddRound(d, r, scope).leases = d.leases
<1> DEFINE status == IF r \in Tracked(d) THEN d.rounds[r].lastStatus ELSE "Unknown"
           rec == [lastStatus |-> status, scope |-> scope]
<1>1. status \in Status \cup {"Unknown"} /\ (status \in Terminal => chain[r] = status)
  <2>1. CASE r \in Tracked(d)
    <3>1. d.rounds[r] \in WatchedRound
      BY <2>1, StoreElim DEF Good
    <3> QED
      BY <2>1, <3>1 DEF WatchedRound, Good, IsTrue
  <2>2. CASE r \notin Tracked(d)
    BY <2>2 DEF Terminal
  <2> QED
    BY <2>1, <2>2
<1>2. rec \in WatchedRound /\ rec.lastStatus = status
  BY <1>1 DEF WatchedRound
<1> QED
  BY <1>1, <1>2, SetRoundGood DEF AddRound

LEMMA RemoveRoundGood ==
    ASSUME NEW d, Good(d), NEW r \in Round
    PROVE  /\ Good(RemoveRound(d, r))
           /\ RemoveRound(d, r).leases = d.leases
<1> DEFINE f == [q \in Tracked(d) \ {r} |-> d.rounds[q]]
<1>1. /\ Tracked(d) \in SUBSET Round
      /\ d.rounds \in [Tracked(d) -> WatchedRound]
      /\ d.leases \in SUBSET RoundLease
      /\ d = [rounds |-> d.rounds, leases |-> d.leases]
  BY StoreElim DEF Good
<1>2. RemoveRound(d, r) = [rounds |-> f, leases |-> d.leases]
  BY <1>1 DEF RemoveRound
<1>3. f \in [Tracked(d) \ {r} -> WatchedRound]
  BY <1>1
<1>4. RemoveRound(d, r) \in Store
  BY <1>1, <1>2, <1>3, StoreIntro
<1> QED
  BY <1>2, <1>4 DEF Good, IsTrue, Tracked

\* Other leases with the same rounds.
LEMMA LeasesGood ==
    ASSUME NEW d, Good(d), NEW leases \in SUBSET RoundLease
    PROVE  Good([d EXCEPT !.leases = leases])
<1>1. /\ Tracked(d) \in SUBSET Round
      /\ d.rounds \in [Tracked(d) -> WatchedRound]
      /\ d = [rounds |-> d.rounds, leases |-> d.leases]
  BY StoreElim DEF Good
<1>2. [d EXCEPT !.leases = leases] = [rounds |-> d.rounds, leases |-> leases]
  BY <1>1
<1>3. [d EXCEPT !.leases = leases] \in Store
  BY <1>1, <1>2, StoreIntro
<1> QED
  BY <1>2, <1>3 DEF Good, IsTrue, Tracked

LEMMA ClaimRoundGood ==
    ASSUME NEW d, Good(d), NEW r \in Round, NEW owner \in Process, NEW scope \in Scope,
           now \in Nat
    PROVE  Good(ClaimRound(d, r, owner, scope))
<1>1. d.leases \in SUBSET RoundLease
  BY StoreElim DEF Good
<1>2. LEASE \in Nat
  BY SetupAssumption
<1>3. [owner |-> owner, round |-> r, scope |-> scope, expires |-> now + LEASE] \in RoundLease
  BY <1>2 DEF RoundLease
<1> DEFINE others == {l \in d.leases : l.round # r \/ l.scope # scope}
           new == [owner |-> owner, round |-> r, scope |-> scope, expires |-> now + LEASE]
<1>4. others \cup {new} \in SUBSET RoundLease
  BY <1>1, <1>3
<1> QED
  BY <1>4, LeasesGood DEF ClaimRound

LEMMA ReleaseLeaseGood ==
    ASSUME NEW d, Good(d), NEW r \in Round, NEW owner \in Process, NEW scope \in Scope
    PROVE  Good(ReleaseLease(d, r, owner, scope))
<1>1. d.leases \in SUBSET RoundLease
  BY StoreElim DEF Good
<1> DEFINE left == {l \in d.leases : ~(l.round = r /\ l.owner = owner /\ ScopesOverlap(l.scope, scope))}
<1>2. left \in SUBSET RoundLease
  BY <1>1
<1> QED
  BY <1>2, LeasesGood DEF ReleaseLease
-----------------------------------------------------------------------------
(***************************************************************************)
(* Queues.                                                                 *)
(***************************************************************************)
LEMMA AppendNewSeparate ==
    ASSUME NEW q, NEW flying, Separate(q, flying), NEW r \in Round \ flying
    PROVE  Separate(AppendNew(q, r), flying)
<1>1. CASE r \in ToSet(q)
  BY <1>1 DEF AppendNew
<1>2. CASE r \notin ToSet(q)
  <2>1. q \in Seq(Round) /\ AppendNew(q, r) = Append(q, r)
    BY <1>2 DEF AppendNew, Separate
  <2>2. /\ Append(q, r) \in Seq(Round)
        /\ DOMAIN Append(q, r) = 1 .. Len(q) + 1
        /\ DOMAIN q = 1 .. Len(q) /\ Len(q) \in Nat
        /\ \A i \in 1 .. Len(q) : Append(q, r)[i] = q[i]
        /\ Append(q, r)[Len(q) + 1] = r
    BY <2>1
  <2>3. IsInjective(Append(q, r))
    BY <1>2, <2>2 DEF IsInjective, ToSet, Separate
  <2>4. ToSet(Append(q, r)) \subseteq ToSet(q) \cup {r}
    BY <2>2 DEF ToSet
  <2> QED
    BY <2>1, <2>2, <2>3, <2>4 DEF Separate
<1> QED
  BY <1>1, <1>2

LEMMA TailSeparate ==
    ASSUME NEW q, NEW flying, Separate(q, flying), q # <<>>
    PROVE  /\ Head(q) \in Round
           /\ Separate(Tail(q), flying \cup {Head(q)})
<1>1. /\ q \in Seq(Round) /\ Len(q) \in Nat /\ DOMAIN q = 1 .. Len(q)
      /\ Len(q) > 0
  BY DEF Separate
<1>2. /\ Head(q) = q[1] /\ Head(q) \in Round
      /\ Tail(q) \in Seq(Round) /\ DOMAIN Tail(q) = 1 .. Len(q) - 1
      /\ \A i \in 1 .. Len(q) - 1 : Tail(q)[i] = q[i + 1]
  BY <1>1
<1>3. IsInjective(Tail(q))
  BY <1>1, <1>2 DEF Separate, IsInjective
<1>4. ToSet(Tail(q)) \subseteq ToSet(q) \ {Head(q)}
  BY <1>1, <1>2 DEF Separate, IsInjective, ToSet
<1> QED
  BY <1>2, <1>3, <1>4 DEF Separate

\* Less in flight is as good.
LEMMA FewerInFlight ==
    ASSUME NEW q, NEW flying, Separate(q, flying), NEW fewer \in SUBSET flying
    PROVE  Separate(q, fewer)
BY DEF Separate

LEMMA SortedSeq ==
    ASSUME NEW ids \in SUBSET Round, NEW new \in Sorted(ids)
    PROVE  /\ new \in Seq(Round) /\ new \in Seq(ids)
           /\ IsInjective(new)
           /\ ids # {} => new # <<>>
<1>1. IsFiniteSet(ids)
  BY RoundAssumption, FS_Subset
<1>2. Cardinality(ids) \in Nat
  BY <1>1, FS_CardinalityType
<1>3. /\ new \in [1 .. Cardinality(ids) -> ids]
      /\ \A i, j \in DOMAIN new : i < j => new[i] < new[j]
  BY DEF Sorted
<1>4. new \in Seq(ids)
  BY <1>2, <1>3
<1>5. new \in Seq(Round)
  BY <1>2, <1>3
<1>6. ASSUME NEW a \in DOMAIN new, NEW b \in DOMAIN new, new[a] = new[b]
      PROVE  a = b
  <2>1. a \in Int /\ b \in Int
    BY <1>2, <1>3
  <2>2. new[a] \in ids
    BY <1>3
  <2>3. PICK n \in Nat : new[a] = n /\ new[b] = n
    BY <1>6, <2>2, RoundAssumption
  <2>4. ~(a < b) /\ ~(b < a)
    <3>1. ~(n < n)
      OBVIOUS
    <3> QED
      BY <1>3, <2>3, <3>1
  <2> QED
    BY <2>1, <2>4
<1>7. ASSUME ids # {}
      PROVE  new # <<>>
  <2>1. Cardinality(ids) # 0
    BY <1>1, <1>7, FS_EmptySet
  <2> QED
    BY <1>2, <1>3, <2>1
<1> QED
  BY <1>4, <1>5, <1>6, <1>7 DEF IsInjective

LEMMA SyncSeparate ==
    ASSUME NEW q, NEW flying, Separate(q, flying), NEW d \in Store,
           NEW synced \in SyncWithStore(q, flying, d)
    PROVE  Separate(synced, flying)
<1> DEFINE mine == {r \in Active(d) : InScope(d.rounds[r])} \ flying
           ids == mine \ ToSet(q)
<1>1. PICK new \in Sorted(ids) : synced = q \o new
  BY DEF SyncWithStore
<1>2. ids \in SUBSET Round
  BY StoreElim DEF Active
<1>3. new \in Seq(Round) /\ new \in Seq(ids) /\ IsInjective(new)
  BY <1>2, SortedSeq
<1>4. q \in Seq(Round) /\ IsInjective(q) /\ ToSet(q) \cap flying = {}
  BY DEF Separate
<1>5. /\ synced \in Seq(Round)
      /\ Len(q) \in Nat /\ Len(new) \in Nat
      /\ DOMAIN q = 1 .. Len(q) /\ DOMAIN new = 1 .. Len(new)
      /\ DOMAIN synced = 1 .. Len(q) + Len(new)
      /\ \A i \in 1 .. Len(q) + Len(new) :
            synced[i] = IF i <= Len(q) THEN q[i] ELSE new[i - Len(q)]
  BY <1>1, <1>3, <1>4
<1>6. \A i \in DOMAIN new : new[i] \in ids
  BY <1>3
<1>7. ASSUME NEW a \in DOMAIN synced, NEW b \in DOMAIN synced, synced[a] = synced[b]
      PROVE  a = b
  <2>1. CASE a <= Len(q) /\ b <= Len(q)
    <3>1. a \in DOMAIN q /\ b \in DOMAIN q /\ q[a] = q[b]
      BY <1>5, <1>7, <2>1
    <3> QED
      BY <1>4, <3>1 DEF IsInjective
  <2>2. CASE a > Len(q) /\ b > Len(q)
    <3>1. /\ a - Len(q) \in DOMAIN new /\ b - Len(q) \in DOMAIN new
          /\ new[a - Len(q)] = new[b - Len(q)]
      BY <1>5, <1>7, <2>2
    <3>2. a - Len(q) = b - Len(q)
      BY <1>3, <3>1 DEF IsInjective
    <3> QED
      BY <1>5, <3>2
  <2>3. ASSUME NEW i \in DOMAIN synced, NEW j \in DOMAIN synced,
               i <= Len(q), j > Len(q)
        PROVE  synced[i] # synced[j]
    <3>1. synced[i] \in ToSet(q)
      BY <1>5, <2>3 DEF ToSet
    <3>2. j - Len(q) \in DOMAIN new /\ synced[j] = new[j - Len(q)]
      BY <1>5, <2>3
    <3>3. synced[j] \in ids
      BY <1>6, <3>2
    <3> QED
      BY <3>1, <3>3
  <2> QED
    BY <1>5, <1>7, <2>1, <2>2, <2>3
<1>8. ToSet(synced) \subseteq ToSet(q) \cup ids
  BY <1>5, <1>6 DEF ToSet
<1> QED
  BY <1>4, <1>5, <1>7, <1>8 DEF Separate, IsInjective

LEMMA EmptySeparate == Separate(<<>>, {})
BY DEF Separate, IsInjective
-----------------------------------------------------------------------------
(***************************************************************************)
(* Store calls.                                                            *)
(***************************************************************************)
LEMMA ReadGood ==
    ASSUME StoreInv, NEW p \in Process
    PROVE  Good(Read(p))
BY DEF StoreInv, Read, Good

\* A call that writes good data or none, whatever the disk does.
LEMMA StoreCallGood ==
    ASSUME StoreInv, NEW p \in Process, NEW d,
           (Save(p, d) /\ Good(d)) \/ ReadOnly(p), UNCHANGED chain
    PROVE  /\ StoreInv'
           /\ file' \in {file, d}
           /\ loaded' \subseteq loaded
<1>1. EmptyStore \in Store /\ IsTrue(EmptyStore)
  BY EmptyStoreGood DEF Good
<1>2. ASSUME NEW e PROVE IsTrue(e)' <=> \A r \in Tracked(e') :
               e'.rounds[r].lastStatus \in Terminal => chain[r] = e'.rounds[r].lastStatus
  BY DEF IsTrue, Tracked
<1>3. PICK e : Good(e) /\ mem' = [mem EXCEPT ![p] = e] /\ file' \in {file, d}
               /\ (file' = d => file' = file \/ Good(d)) /\ loaded' = loaded \ {p}
  BY <1>1, ReadGood DEF Save, ReadOnly, Good
<1>4. mem' \in [Process -> Store]
  BY <1>3 DEF StoreInv, Good
<1>5. \A q \in Process : IsTrue(mem[q])'
  BY <1>3 DEF StoreInv, Good, IsTrue, Tracked
<1>6. Good(file)'
  BY <1>3 DEF StoreInv, Good, IsTrue, Tracked
<1> QED
  BY <1>3, <1>4, <1>5, <1>6 DEF StoreInv

\* Leases that only become fewer.
LEMMA FewerLeases ==
    ASSUME LeaseInv, UNCHANGED <<setup, now>>,
           ~setup.overlap => loaded' \subseteq loaded /\ file'.leases \subseteq file.leases
    PROVE  LeaseInv'
BY DEF LeaseInv, LeaseExclusive, Live

\* What a call leaves when the data it writes has no lease that it did not read.
LEMMA CallKeeps ==
    ASSUME StoreInv, LeaseInv, NEW p \in Process, NEW d,
           d.leases \subseteq Read(p).leases,
           (Save(p, d) /\ Good(d)) \/ ReadOnly(p), UNCHANGED <<setup, now, chain>>
    PROVE  StoreInv' /\ LeaseInv'
<1>1. StoreInv' /\ file' \in {file, d} /\ loaded' \subseteq loaded
  BY StoreCallGood
<1>2. ~setup.overlap => Read(p) = file
  BY DEF LeaseInv, Read
<1>3. ~setup.overlap => file'.leases \subseteq file.leases
  BY <1>1, <1>2
<1> QED
  BY <1>1, <1>3, FewerLeases

LEMMA UpdateKeeps ==
    ASSUME StoreInv, LeaseInv, NEW p \in Process, NEW r, NEW d,
           r \in Tracked(Read(p)) => Good(d) /\ d.leases = Read(p).leases,
           Update(p, r, d), UNCHANGED <<setup, now, chain>>
    PROVE  StoreInv' /\ LeaseInv'
<1>1. CASE r \in Tracked(Read(p))
  BY <1>1, CallKeeps DEF Update
<1>2. CASE r \notin Tracked(Read(p))
  <2>1. ReadOnly(p)
    BY <1>2 DEF Update
  <2> QED
    BY <2>1, CallKeeps
<1> QED
  BY <1>1, <1>2

LEMMA DropKeeps ==
    ASSUME StoreInv, LeaseInv, NEW p \in Process, NEW r \in Round, NEW owner \in Process,
           NEW scope \in Scope, Drop(p, r, owner, scope), UNCHANGED <<setup, now, chain>>
    PROVE  StoreInv' /\ LeaseInv'
<1> DEFINE d == ReleaseLease(Read(p), r, owner, scope)
<1>1. Good(Read(p))
  BY ReadGood
<1>2. Good(d)
  BY <1>1, ReleaseLeaseGood
<1>3. d.leases \subseteq Read(p).leases
  BY <1>1, StoreElim DEF ReleaseLease, Good
<1>4. Save(p, d) \/ ReadOnly(p)
  BY DEF Drop
<1> QED
  BY <1>2, <1>3, <1>4, CallKeeps

\* One watcher's queue and rounds in flight are replaced.
LEMMA QueueChange ==
    ASSUME QueueInv, NEW p \in Watcher, NEW q, NEW flying, Separate(q, flying),
           queue' = [queue EXCEPT ![p] = q], inFlight' = [inFlight EXCEPT ![p] = flying]
    PROVE  QueueInv'
<1>1. q \in Seq(Round) /\ flying \in SUBSET Round
  BY DEF Separate
<1>2. ASSUME NEW w \in Watcher
      PROVE  Separate(queue'[w], inFlight'[w])
  BY DEF QueueInv
<1>3. \A w \in Watcher : Separate(queue[w], inFlight[w])'
  BY <1>2 DEF Separate
<1> QED
  BY <1>1, <1>3 DEF QueueInv

LEMMA InFlightSame ==
    ASSUME QueueInv, NEW p \in Watcher
    PROVE  inFlight = [inFlight EXCEPT ![p] = inFlight[p]]
BY DEF QueueInv

\* A round that is over stays as it ended.
LEMMA ChainForward ==
    ASSUME chain \in [Round -> Status], NEW r \in Round, NEW s \in Reach(chain[r]),
           chain' = [chain EXCEPT ![r] = s]
    PROVE  /\ chain' \in [Round -> Status]
           /\ \A q \in Round : chain[q] \in Terminal => chain'[q] = chain[q]
<1>1. chain[r] \in Status
  OBVIOUS
<1>2. /\ Later("Open") = {"Cleared", "Voided"} /\ Later("Cleared") = {"Settled"}
      /\ Later("Settled") = {} /\ Later("Voided") = {}
  BY DEF Later
<1>3. s \in Status /\ (chain[r] \in Terminal => s = chain[r])
  BY <1>1, <1>2 DEF Reach, Status, Terminal
<1> QED
  BY <1>3

LEMMA StoresKeep ==
    ASSUME StoreInv, LeaseInv, UNCHANGED <<stores, setup, now>>,
           \A q \in Round : chain[q] \in Terminal => chain'[q] = chain[q]
    PROVE  StoreInv' /\ LeaseInv'
<1>1. ASSUME NEW d \in Store, IsTrue(d)
      PROVE  \A r \in Tracked(d) :
                d.rounds[r].lastStatus \in Terminal => chain'[r] = d.rounds[r].lastStatus
  <2>1. Tracked(d) \subseteq Round
    BY StoreElim
  <2> QED
    BY <1>1, <2>1 DEF IsTrue
<1>2. IsTrue(file)'
  BY <1>1 DEF StoreInv, Good, IsTrue, Tracked, stores
<1>3. \A p \in Process : IsTrue(mem[p])'
  BY <1>1 DEF StoreInv, IsTrue, Tracked, stores
<1>4. StoreInv'
  BY <1>2, <1>3 DEF StoreInv, Good, stores
<1>5. LeaseInv'
  BY FewerLeases DEF stores
<1> QED
  BY <1>4, <1>5

LEMMA RoundsOfSetup == BaseInv => setup.rounds \in SUBSET Round /\ setup.rounds # {}
BY SetupAssumption DEF BaseInv, Setup
-----------------------------------------------------------------------------
(***************************************************************************)
(* One lemma per action.                                                   *)
(***************************************************************************)
LEMMA InitIInv == Init => IInv
<1> SUFFICES ASSUME Init PROVE IInv
  OBVIOUS
<1> USE DEF Init
<1>1. BaseInv
  BY DEF BaseInv, Status
<1>2. StoreInv
  BY EmptyStoreGood DEF StoreInv, Good
<1>3. LeaseInv
  BY DEF LeaseInv, LeaseExclusive, EmptyStore
<1>4. QueueInv
  BY EmptySeparate DEF QueueInv
<1>5. LoopInv
  BY DEF LoopInv, NoTick, Place, TickStatus
<1> QED
  BY <1>1, <1>2, <1>3, <1>4, <1>5 DEF IInv

LEMMA ReloadKeeps ==
    ASSUME IInv, NEW p \in Process, Reload(p)
    PROVE  IInv'
<1> USE DEF IInv, Reload, work, bounds
<1>1. BaseInv' /\ QueueInv' /\ LoopInv'
  BY DEF BaseInv, QueueInv, LoopInv
<1>2. StoreInv'
  BY DEF StoreInv, Good, IsTrue, Tracked
<1>3. LeaseInv'
  BY DEF LeaseInv, LeaseExclusive, Live
<1> QED
  BY <1>1, <1>2, <1>3

LEMMA StartKeeps ==
    ASSUME IInv, NEW p \in Watcher, Start(p)
    PROVE  IInv'
<1> USE DEF IInv, Start, bounds
<1>1. BaseInv'
  BY DEF BaseInv
<1>2. StoreInv'
  BY DEF StoreInv, Good, IsTrue, Tracked, Process
<1>3. LeaseInv'
  BY FewerLeases
<1>4. PICK q \in SyncWithStore(<<>>, {}, file) : queue' = [queue EXCEPT ![p] = q]
  OBVIOUS
<1>5. Separate(q, {})
  BY <1>4, EmptySeparate, SyncSeparate DEF StoreInv, Good
<1>6. QueueInv'
  BY <1>4, <1>5, QueueChange
<1>7. LoopInv'
  BY DEF LoopInv, Goto, Place
<1> QED
  BY <1>1, <1>2, <1>3, <1>6, <1>7

\* The queue is synchronised with data that is a store.
LEMMA StartBatchKeeps ==
    ASSUME QueueInv, NEW p \in Watcher, NEW q, NEW d \in Store,
           Separate(q, inFlight[p]), StartBatch(p, q, d), UNCHANGED inFlight
    PROVE  QueueInv'
<1>1. PICK synced \in SyncWithStore(q, inFlight[p], d) : queue' = [queue EXCEPT ![p] = synced]
  BY DEF StartBatch
<1>2. Separate(synced, inFlight[p])
  BY <1>1, SyncSeparate
<1> QED
  BY <1>1, <1>2, QueueChange, InFlightSame

LEMMA PollKeeps ==
    ASSUME IInv, NEW p \in Watcher, Poll(p)
    PROVE  IInv'
<1> USE DEF IInv
<1>1. BaseInv'
  BY DEF Poll, BaseInv, faultless
<1>2. StoreInv' /\ LeaseInv'
  BY StoresKeep DEF Poll, faultless
<1>3. CASE pc' = [pc EXCEPT ![p] = "enqueue"] /\ UNCHANGED queue
           /\ \E found \in Sorted(setup.rounds) : todo' = [todo EXCEPT ![p] = found]
  <2>1. PICK found \in Sorted(setup.rounds) : todo' = [todo EXCEPT ![p] = found]
    BY <1>3
  <2>2. found \in Seq(Round) /\ found # <<>>
    BY <2>1, RoundsOfSetup, SortedSeq
  <2>3. QueueInv'
    BY <1>3 DEF Poll, QueueInv
  <2>4. LoopInv'
    BY <1>3, <2>1, <2>2 DEF Poll, LoopInv, Place
  <2> QED
    BY <1>1, <1>2, <2>3, <2>4
<1>4. CASE StartBatch(p, queue[p], mem[p]) /\ UNCHANGED todo
  <2>1. mem[p] \in Store /\ Separate(queue[p], inFlight[p])
    BY DEF StoreInv, QueueInv, Process
  <2>2. QueueInv'
    BY <1>4, <2>1, StartBatchKeeps DEF Poll
  <2>3. LoopInv'
    BY <1>4 DEF Poll, LoopInv, Place, StartBatch, Goto
  <2> QED
    BY <1>1, <1>2, <2>2, <2>3
<1> QED
  BY <1>3, <1>4 DEF Poll, Goto

LEMMA EnqueuedSeparate ==
    ASSUME QueueInv, NEW p \in Watcher, NEW r \in Round, NEW d
    PROVE  Separate(Enqueued(p, r, d), inFlight[p])
<1>1. Separate(queue[p], inFlight[p])
  BY DEF QueueInv
<1>2. CASE r \in Active(d) \ inFlight[p]
  BY <1>1, <1>2, AppendNewSeparate DEF Enqueued
<1>3. CASE r \notin Active(d) \ inFlight[p]
  BY <1>1, <1>3 DEF Enqueued
<1> QED
  BY <1>2, <1>3

\* A list of rounds, its first one and what is left of it.
LEMMA ListLeft ==
    ASSUME NEW list \in Seq(Round), list # <<>>
    PROVE  /\ Head(list) \in Round /\ Tail(list) \in Seq(Round)
           /\ Len(list) # 1 => Tail(list) # <<>>
<1>1. /\ Head(list) \in Round /\ Tail(list) \in Seq(Round)
      /\ Len(list) \in Nat /\ Len(list) # 0 /\ Len(Tail(list)) = Len(list) - 1
  OBVIOUS
<1>2. Len(<<>>) = 0
  OBVIOUS
<1>3. ASSUME Len(list) # 1
      PROVE  Len(Tail(list)) # 0
  BY <1>1, <1>3
<1> QED
  BY <1>1, <1>2, <1>3

LEMMA EnqueueKeeps ==
    ASSUME IInv, NEW p \in Watcher, Enqueue(p)
    PROVE  IInv'
<1> USE DEF IInv
<1> DEFINE r == Head(todo[p])
           d == AddRound(Read(p), r, Here)
<1>1. /\ todo[p] \in Seq(Round) /\ todo[p] # <<>>
      /\ r \in Round /\ Tail(todo[p]) \in Seq(Round)
      /\ Len(todo[p]) # 1 => Tail(todo[p]) # <<>>
  <2>1. pc[p] = "enqueue"
    BY DEF Enqueue
  <2>2. todo[p] \in Seq(Round) /\ todo[p] # <<>>
    BY <2>1 DEF LoopInv
  <2> QED
    BY <2>2, ListLeft
<1>2. Good(d) /\ d.leases = Read(p).leases
  BY <1>1, ReadGood, AddRoundGood DEF Scope, Process
<1>3. BaseInv'
  BY DEF Enqueue, BaseInv, faultless
<1>4. Save(p, d) /\ UNCHANGED <<setup, now, chain>>
  BY DEF Enqueue, faultless
<1>5. StoreInv' /\ LeaseInv'
  BY <1>2, <1>4, CallKeeps DEF Process
<1>6. Separate(Enqueued(p, r, d), inFlight[p])
  BY <1>1, EnqueuedSeparate
<1>7. CASE StartBatch(p, Enqueued(p, r, d), d)
  <2>1. QueueInv'
    BY <1>2, <1>6, <1>7, StartBatchKeeps DEF Enqueue, Good
  <2>2. LoopInv'
    BY <1>1, <1>7 DEF Enqueue, StartBatch, Goto, LoopInv, Place
  <2> QED
    BY <1>3, <1>5, <2>1, <2>2
<1>8. CASE /\ Len(todo[p]) # 1
           /\ queue' = [queue EXCEPT ![p] = Enqueued(p, r, d)]
           /\ UNCHANGED pc
  <2>1. QueueInv'
    BY <1>6, <1>8, QueueChange, InFlightSame DEF Enqueue
  <2>2. LoopInv'
    BY <1>1, <1>8 DEF Enqueue, LoopInv
  <2> QED
    BY <1>3, <1>5, <2>1, <2>2
<1> QED
  BY <1>7, <1>8 DEF Enqueue

LEMMA ClaimKeeps ==
    ASSUME IInv, NEW p \in Watcher, Claim(p)
    PROVE  IInv'
<1> USE DEF IInv
<1> DEFINE r == Head(queue[p])
<1>1. queue[p] # <<>> /\ Separate(queue[p], inFlight[p])
  BY DEF Claim, CanClaim, QueueInv
<1>2. r \in Round /\ Separate(Tail(queue[p]), inFlight[p] \cup {r})
  BY <1>1, TailSeparate
<1>3. BaseInv'
  BY DEF Claim, BaseInv, faultless
<1>4. Update(p, r, Read(p)) /\ UNCHANGED <<setup, now, chain>>
  BY DEF Claim, faultless
<1>5. StoreInv' /\ LeaseInv'
  BY <1>4, ReadGood, UpdateKeeps DEF Process
<1>6. QueueInv'
  BY <1>2, QueueChange DEF Claim
<1>7. LoopInv'
  <2>1. CASE tick' = [tick EXCEPT ![p] = [round |-> r, status |-> "running"]]
             /\ pc' = [pc EXCEPT ![p] = "tick"]
    BY <1>2, <2>1 DEF Claim, LoopInv, Place, TickStatus
  <2>2. CASE UNCHANGED <<tick, pc>>
    BY <2>2 DEF Claim, LoopInv
  <2> QED
    BY <2>1, <2>2 DEF Claim, Goto
<1> QED
  BY <1>3, <1>5, <1>6, <1>7

LEMMA EndBatchKeeps ==
    ASSUME IInv, NEW p \in Watcher, EndBatch(p)
    PROVE  IInv'
<1> USE DEF IInv, EndBatch, bounds, work
<1>1. BaseInv' /\ QueueInv'
  BY DEF BaseInv, QueueInv
<1>2. StoreInv' /\ LeaseInv'
  BY StoresKeep
<1>3. LoopInv'
  BY DEF LoopInv, Goto, Place
<1> QED
  BY <1>1, <1>2, <1>3

LEMMA TickEndsKeeps ==
    ASSUME IInv, NEW p \in Watcher, TickEnds(p)
    PROVE  IInv'
<1> USE DEF IInv
<1> DEFINE r == tick[p].round
<1>1. r \in Round /\ chain \in [Round -> Status]
  BY DEF TickEnds, LoopInv, BaseInv
<1>2. PICK s \in Reach(chain[r]) : /\ chain' = [chain EXCEPT ![r] = s]
                                  /\ tick' = [tick EXCEPT ![p].status = s]
  BY DEF TickEnds
<1>3. /\ chain' \in [Round -> Status]
      /\ \A q \in Round : chain[q] \in Terminal => chain'[q] = chain[q]
  BY <1>1, <1>2, ChainForward
<1>4. BaseInv' /\ QueueInv'
  BY <1>3 DEF TickEnds, BaseInv, QueueInv, bounds, work
<1>5. StoreInv' /\ LeaseInv'
  BY <1>3, StoresKeep DEF TickEnds, bounds
<1>6. chain'[r] = s /\ s \in Status
  BY <1>1, <1>2, <1>3
<1>7. /\ pc' = [pc EXCEPT ![p] = "completed"] /\ UNCHANGED todo
      /\ tick'[p].round = r /\ tick'[p].status = s
      /\ tick' \in [Watcher -> [round : Round \cup {None}, status : TickStatus]]
      /\ \A w \in Watcher \ {p} : tick'[w] = tick[w]
  <2>1. pc' = [pc EXCEPT ![p] = "completed"] /\ UNCHANGED todo
    BY DEF TickEnds, Goto
  <2>2. tick \in [Watcher -> [round : Round \cup {None}, status : TickStatus]]
    BY DEF LoopInv
  <2>3. s \in TickStatus
    BY <1>6 DEF TickStatus
  <2> QED
    BY <1>2, <2>1, <2>2, <2>3
<1>8. LoopInv'
  BY <1>1, <1>3, <1>6, <1>7 DEF LoopInv, Place
<1> QED
  BY <1>4, <1>5, <1>8

LEMMA TickFailsKeeps ==
    ASSUME IInv, NEW p \in Watcher, TickFails(p)
    PROVE  IInv'
<1> USE DEF IInv
<1>1. BaseInv' /\ QueueInv'
  BY DEF TickFails, BaseInv, QueueInv, faultless, work
<1>2. StoreInv' /\ LeaseInv'
  BY StoresKeep DEF TickFails, faultless
<1>3. PICK kind \in {"definitive", "unknown"} : tick' = [tick EXCEPT ![p].status = kind]
  BY DEF TickFails
<1>4. /\ tick'[p].round = tick[p].round
      /\ tick' \in [Watcher -> [round : Round \cup {None}, status : TickStatus]]
      /\ \A w \in Watcher \ {p} : tick'[w] = tick[w]
  BY <1>3 DEF LoopInv, TickStatus
<1>5. LoopInv'
  BY <1>4 DEF TickFails, LoopInv, Goto, Place
<1> QED
  BY <1>1, <1>2, <1>5

\* The round that comes back leaves what is in flight.
LEMMA BackKeeps ==
    ASSUME QueueInv, NEW p \in Watcher, NEW r \in Round, NEW d, NEW again \in BOOLEAN,
           Back(p, r, d, again)
    PROVE  QueueInv'
<1> DEFINE flying == inFlight[p] \ {r}
           q == IF again /\ r \in Tracked(d) THEN Requeue(queue[p], r) ELSE queue[p]
<1>1. Separate(queue[p], flying)
  BY FewerInFlight DEF QueueInv
<1>2. Separate(AppendNew(queue[p], r), flying)
  BY <1>1, AppendNewSeparate
<1>3. Separate(q, flying)
  BY <1>1, <1>2 DEF Requeue
<1>4. queue' = [queue EXCEPT ![p] = q] /\ inFlight' = [inFlight EXCEPT ![p] = flying]
  BY DEF Back
<1> QED
  BY <1>3, <1>4, QueueChange

LEMMA ThenKeeps ==
    ASSUME LoopInv, NEW p \in Watcher, NEW release \in BOOLEAN, tick[p].round \in Round,
           Then(p, release), UNCHANGED <<chain, todo>>
    PROVE  LoopInv'
<1>1. NoTick \in [round : Round \cup {None}, status : TickStatus]
  BY DEF NoTick, TickStatus
<1>2. CASE release
  BY <1>2 DEF Then, Goto, LoopInv, Place
<1>3. CASE ~release
  BY <1>1, <1>3 DEF Then, Goto, LoopInv, Place
<1> QED
  BY <1>2, <1>3

LEMMA CompleteKeeps ==
    ASSUME IInv, NEW p \in Watcher, Complete(p)
    PROVE  IInv'
<1> USE DEF IInv
<1> DEFINE r == tick[p].round
           s == Outcome(tick[p].status)
           d == Read(p)
           done == s \in Terminal
           new == SetRound(d, r, [d.rounds[r] EXCEPT !.lastStatus = s])
<1>1. /\ r \in Round /\ s \in Status
      /\ s \in Terminal => chain[r] = s
  BY DEF Complete, LoopInv, Outcome
<1>2. /\ Update(p, r, new) /\ Back(p, r, d, ~done /\ p \notin stopping) /\ Then(p, done)
      /\ UNCHANGED <<setup, now, chain, todo>>
  BY DEF Complete, faultless
<1>3. ASSUME r \in Tracked(d)
      PROVE  Good(new) /\ new.leases = d.leases
  <2>1. Good(d) /\ d.rounds[r] \in WatchedRound
    BY <1>3, ReadGood, StoreElim DEF Good, Process
  <2>2. /\ [d.rounds[r] EXCEPT !.lastStatus = s] \in WatchedRound
        /\ [d.rounds[r] EXCEPT !.lastStatus = s].lastStatus = s
    BY <1>1, <2>1 DEF WatchedRound
  <2> QED
    BY <1>1, <2>1, <2>2, SetRoundGood
<1>4. StoreInv' /\ LeaseInv'
  BY <1>2, <1>3, UpdateKeeps DEF Process
<1>5. QueueInv'
  BY <1>1, <1>2, BackKeeps
<1>6. LoopInv'
  <2>1. CASE done
    <3>1. Then(p, TRUE)
      BY <1>2, <2>1 DEF Then
    <3> QED
      BY <1>1, <1>2, <3>1, ThenKeeps
  <2>2. CASE ~done
    <3>1. Then(p, FALSE)
      BY <1>2, <2>2 DEF Then
    <3> QED
      BY <1>1, <1>2, <3>1, ThenKeeps
  <2> QED
    BY <2>1, <2>2
<1>7. BaseInv'
  BY <1>2 DEF BaseInv
<1> QED
  BY <1>4, <1>5, <1>6, <1>7

LEMMA FailKeeps ==
    ASSUME IInv, NEW p \in Watcher, Fail(p)
    PROVE  IInv'
<1> USE DEF IInv
<1> DEFINE r == tick[p].round
           d == Read(p)
           final == tick[p].status = "definitive"
<1>1. /\ Update(p, r, d) /\ Back(p, r, d, TRUE) /\ Then(p, final)
      /\ UNCHANGED <<setup, now, chain, todo>>
  BY DEF Fail, faultless
<1>2. r \in Round
  BY DEF Fail, LoopInv
<1>3. StoreInv' /\ LeaseInv'
  BY <1>1, ReadGood, UpdateKeeps DEF Process
<1>4. QueueInv'
  BY <1>1, <1>2, BackKeeps
<1>5. LoopInv'
  BY <1>1, <1>2, ThenKeeps
<1>6. BaseInv'
  BY <1>1 DEF BaseInv
<1> QED
  BY <1>3, <1>4, <1>5, <1>6

LEMMA ReleaseKeeps ==
    ASSUME IInv, NEW p \in Watcher, Release(p)
    PROVE  IInv'
<1> USE DEF IInv
<1>1. Drop(p, tick[p].round, p, Here) /\ UNCHANGED <<setup, now, chain, todo>>
  BY DEF Release, faultless
<1>2. tick[p].round \in Round
  BY DEF Release, LoopInv
<1>3. StoreInv' /\ LeaseInv'
  BY <1>1, <1>2, DropKeeps DEF Process, Scope
<1>4. BaseInv' /\ QueueInv'
  BY DEF Release, BaseInv, QueueInv, work, faultless
<1>5. NoTick \in [round : Round \cup {None}, status : TickStatus]
  BY DEF NoTick, TickStatus
<1>6. LoopInv'
  BY <1>5 DEF Release, Goto, LoopInv, Place
<1> QED
  BY <1>3, <1>4, <1>6

LEMMA CliAddKeeps ==
    ASSUME IInv, NEW c \in Cli, NEW r \in Round, CliAdd(c, r)
    PROVE  IInv'
<1> USE DEF IInv
<1>1. PICK scope \in Scope : Save(c, AddRound(Read(c), r, scope))
  BY DEF CliAdd
<1>2. Good(AddRound(Read(c), r, scope)) /\ AddRound(Read(c), r, scope).leases = Read(c).leases
  BY ReadGood, AddRoundGood DEF Process
<1>3. StoreInv' /\ LeaseInv'
  BY <1>1, <1>2, CallKeeps DEF CliAdd, CliCall, Process
<1>4. BaseInv' /\ QueueInv' /\ LoopInv'
  BY DEF CliAdd, CliCall, BaseInv, QueueInv, LoopInv, work
<1> QED
  BY <1>3, <1>4

LEMMA CliRemoveKeeps ==
    ASSUME IInv, NEW c \in Cli, NEW r \in Round, CliRemove(c, r)
    PROVE  IInv'
<1> USE DEF IInv
<1>1. Good(RemoveRound(Read(c), r)) /\ RemoveRound(Read(c), r).leases = Read(c).leases
  BY ReadGood, RemoveRoundGood DEF Process
<1>2. StoreInv' /\ LeaseInv'
  BY <1>1, UpdateKeeps DEF CliRemove, CliCall, Process
<1>3. BaseInv' /\ QueueInv' /\ LoopInv'
  BY DEF CliRemove, CliCall, BaseInv, QueueInv, LoopInv, work
<1> QED
  BY <1>2, <1>3

\* A claim that finds nobody else's live lease in its way.
LEMMA ClaimExclusive ==
    ASSUME IInv, NEW r \in Round, NEW owner \in Process, NEW scope \in Scope,
           ~setup.overlap, HeldLeases(file, r, owner, scope) = {},
           file' = ClaimRound(file, r, owner, scope), loaded' = {}, UNCHANGED <<setup, now>>
    PROVE  LeaseInv'
<1> USE DEF IInv
<1> DEFINE new == [owner |-> owner, round |-> r, scope |-> scope, expires |-> now + LEASE]
           others == {l \in file.leases : l.round # r \/ l.scope # scope}
<1>1. file \in Store
  BY DEF StoreInv, Good
<1>2. file'.leases = others \cup {new}
  BY <1>1, StoreElim DEF ClaimRound
<1>3. \A l \in others : l.round = r /\ Live(l) /\ ScopesOverlap(l.scope, scope) => l.owner = owner
  BY DEF HeldLeases
<1>4. /\ new.round = r /\ new.owner = owner /\ new.scope = scope
      /\ new.expires = now + LEASE /\ now + LEASE \in Int
  BY SetupAssumption DEF BaseInv
<1>5. \A l, m \in file'.leases :
         l.round = m.round /\ Live(l) /\ Live(m) /\ ScopesOverlap(l.scope, m.scope)
         => l.owner = m.owner
  <2> SUFFICES ASSUME NEW l \in file'.leases, NEW m \in file'.leases,
                      l.round = m.round, Live(l), Live(m), ScopesOverlap(l.scope, m.scope)
               PROVE  l.owner = m.owner
    OBVIOUS
  <2>1. CASE l \in others /\ m \in others
    BY <2>1 DEF LeaseInv, LeaseExclusive
  <2>2. CASE l = new /\ m = new
    BY <2>2
  <2>3. CASE l \in others /\ m = new
    BY <1>3, <1>4, <2>3
  <2>4. CASE l = new /\ m \in others
    <3>1. ScopesOverlap(m.scope, scope)
      BY <1>4, <2>4 DEF ScopesOverlap
    <3> QED
      BY <1>3, <1>4, <2>4, <3>1
  <2> QED
    BY <1>2, <2>1, <2>2, <2>3, <2>4
<1>6. \A l \in file'.leases : l.expires <= now + LEASE
  BY <1>2, <1>4 DEF LeaseInv
<1> QED
  BY <1>5, <1>6 DEF LeaseInv, LeaseExclusive, Live

LEMMA CliClaimKeeps ==
    ASSUME IInv, NEW c \in Cli, NEW owner \in Process, NEW r \in Round, CliClaim(c, owner, r)
    PROVE  IInv'
<1> USE DEF IInv
<1>1. PICK scope \in Scope :
         IF HeldLeases(Read(c), r, owner, scope) = {}
         THEN Save(c, ClaimRound(Read(c), r, owner, scope))
         ELSE ReadOnly(c)
  BY DEF CliClaim
<1> DEFINE d == ClaimRound(Read(c), r, owner, scope)
<1>2. c \in Process /\ UNCHANGED <<setup, now, chain>>
  BY DEF CliClaim, CliCall, Process
<1>3. Good(d)
  BY <1>2, ReadGood, ClaimRoundGood DEF BaseInv
<1>4. StoreInv' /\ file' \in {file, d} /\ loaded' \subseteq loaded
  BY <1>1, <1>2, <1>3, StoreCallGood
<1>5. LeaseInv'
  <2>1. CASE setup.overlap
    BY <1>2, <2>1 DEF LeaseInv, LeaseExclusive
  <2>2. CASE ~setup.overlap /\ file' = file
    BY <1>2, <1>4, <2>2, FewerLeases
  <2>3. CASE ~setup.overlap /\ file' # file
    <3>1. Read(c) = file /\ loaded' = {}
      BY <1>4, <2>3 DEF LeaseInv, Read
    <3>2. HeldLeases(file, r, owner, scope) = {} /\ file' = ClaimRound(file, r, owner, scope)
      BY <1>1, <1>4, <2>3, <3>1 DEF ReadOnly
    <3> QED
      BY <1>2, <2>3, <3>1, <3>2, ClaimExclusive
  <2> QED
    BY <2>1, <2>2, <2>3
<1>6. BaseInv' /\ QueueInv' /\ LoopInv'
  BY DEF CliClaim, CliCall, BaseInv, QueueInv, LoopInv, work
<1> QED
  BY <1>4, <1>5, <1>6

LEMMA CliReleaseKeeps ==
    ASSUME IInv, NEW c \in Cli, NEW r \in Round, NEW owner \in Process,
           CliRelease(c, owner, r)
    PROVE  IInv'
<1> USE DEF IInv
<1>1. PICK scope \in Scope : Drop(c, r, owner, scope)
  BY DEF CliRelease
<1>2. StoreInv' /\ LeaseInv'
  BY <1>1, DropKeeps DEF CliRelease, CliCall, Process
<1>3. BaseInv' /\ QueueInv' /\ LoopInv'
  BY DEF CliRelease, CliCall, BaseInv, QueueInv, LoopInv, work
<1> QED
  BY <1>2, <1>3

LEMMA ClockKeeps ==
    ASSUME IInv, Clock
    PROVE  IInv'
<1> USE DEF IInv, Clock, stores, work, bounds
<1>1. now \in Nat /\ now' = now + 1 /\ LEASE \in Nat
  BY SetupAssumption DEF BaseInv
<1>2. BaseInv' /\ QueueInv' /\ LoopInv'
  BY <1>1 DEF BaseInv, QueueInv, LoopInv
<1>3. StoreInv'
  BY DEF StoreInv, Good, IsTrue, Tracked
<1>4. \A l \in file.leases : l.expires \in Nat
  BY StoreElim DEF StoreInv, Good, RoundLease
<1>5. LeaseInv'
  BY <1>1, <1>4 DEF LeaseInv, LeaseExclusive, Live
<1> QED
  BY <1>2, <1>3, <1>5

LEMMA AdvanceKeeps ==
    ASSUME IInv, NEW r \in Round, Advance(r)
    PROVE  IInv'
<1> USE DEF IInv
<1>1. PICK s \in Reach(chain[r]) : chain' = [chain EXCEPT ![r] = s]
  BY DEF Advance, Reach
<1>2. /\ chain' \in [Round -> Status]
      /\ \A q \in Round : chain[q] \in Terminal => chain'[q] = chain[q]
  BY <1>1, ChainForward DEF BaseInv
<1>3. BaseInv' /\ QueueInv'
  BY <1>2 DEF Advance, BaseInv, QueueInv, bounds, work
<1>4. StoreInv' /\ LeaseInv'
  BY <1>2, StoresKeep DEF Advance, bounds
<1>5. LoopInv'
  BY <1>2 DEF Advance, LoopInv
<1> QED
  BY <1>3, <1>4, <1>5

LEMMA StopKeeps ==
    ASSUME IInv, NEW p \in Watcher, Stop(p)
    PROVE  IInv'
<1> USE DEF IInv, Stop, faultless, work
<1>1. BaseInv' /\ QueueInv' /\ LoopInv'
  BY DEF BaseInv, QueueInv, LoopInv
<1>2. StoreInv' /\ LeaseInv'
  BY StoresKeep
<1> QED
  BY <1>1, <1>2

LEMMA CrashKeeps ==
    ASSUME IInv, NEW p \in Watcher, Crash(p)
    PROVE  IInv'
<1> USE DEF IInv, Crash, faultless, work
<1>1. BaseInv' /\ QueueInv'
  BY DEF BaseInv, QueueInv
<1>2. StoreInv'
  BY EmptyStoreGood DEF StoreInv, Good, IsTrue, Tracked
<1>3. LeaseInv'
  BY FewerLeases
<1>4. NoTick \in [round : Round \cup {None}, status : TickStatus] /\ <<>> \in Seq(Round)
  BY DEF NoTick, TickStatus
<1>5. LoopInv'
  BY <1>4 DEF LoopInv, Goto, Place
<1> QED
  BY <1>1, <1>2, <1>3, <1>5

LEMMA StutterKeeps ==
    ASSUME IInv, UNCHANGED vars
    PROVE  IInv'
<1> USE DEF IInv, vars
<1>1. BaseInv' /\ QueueInv' /\ LoopInv'
  BY DEF BaseInv, QueueInv, LoopInv
<1>2. StoreInv' /\ LeaseInv'
  BY StoresKeep DEF stores
<1> QED
  BY <1>1, <1>2
-----------------------------------------------------------------------------
(***************************************************************************)
(* The invariant and what follows from it.                                 *)
(***************************************************************************)
LEMMA NextKeeps == IInv /\ [Next]_vars => IInv'
<1> SUFFICES ASSUME IInv, [Next]_vars PROVE IInv'
  OBVIOUS
<1>1. setup.rounds \subseteq Round
  BY RoundsOfSetup DEF IInv
<1>2. CASE Clock
  BY <1>2, ClockKeeps
<1>3. CASE \E r \in Round : Advance(r)
  BY <1>3, AdvanceKeeps
<1>4. CASE \E p \in Process : Reload(p)
  BY <1>4, ReloadKeeps
<1>5. ASSUME NEW p \in Watcher, Step(p) \/ Stop(p) \/ Crash(p)
      PROVE  IInv'
  BY <1>5, StartKeeps, PollKeeps, EnqueueKeeps, ClaimKeeps, EndBatchKeeps, TickEndsKeeps,
     TickFailsKeeps, CompleteKeeps, FailKeeps, ReleaseKeeps, StopKeeps, CrashKeeps DEF Step
<1>6. ASSUME NEW c \in Cli, NEW r \in setup.rounds,
             \/ CliAdd(c, r) \/ CliRemove(c, r)
             \/ \E owner \in Watcher \cup {c} : CliClaim(c, owner, r) \/ CliRelease(c, owner, r)
      PROVE  IInv'
  <2>1. r \in Round /\ Watcher \cup {c} \subseteq Process
    BY <1>1 DEF Process
  <2> QED
    BY <1>6, <2>1, CliAddKeeps, CliRemoveKeeps, CliClaimKeeps, CliReleaseKeeps
<1>7. CASE UNCHANGED vars
  BY <1>7, StutterKeeps
<1> QED
  BY <1>2, <1>3, <1>4, <1>5, <1>6, <1>7 DEF Next

\* The inductive invariant of the watchers, their store and their queues.
THEOREM WatchersInvariant == Spec => []IInv
BY InitIInv, NextKeeps, PTL DEF Spec

\* Every store on the way to the file, every queue and every tick keeps its type.
THEOREM WatcherTypes == Spec => []TypeOK
<1>1. IInv => TypeOK
  BY DEF IInv, BaseInv, StoreInv, QueueInv, LoopInv, TypeOK, Good, Place, TickStatus
<1> QED
  BY <1>1, WatchersInvariant, PTL

\* A round waits in a watcher's queue or is in flight, never both.
THEOREM QueuesAreSeparate == Spec => []QueueSeparation
<1>1. IInv => QueueSeparation
  BY DEF IInv, QueueInv, Separate, QueueSeparation
<1> QED
  BY <1>1, WatchersInvariant, PTL

\* What the store calls settled or voided is so on chain.
THEOREM RecordedEndsAreTrue == Spec => []TerminalIsTrue
<1>1. IInv => TerminalIsTrue
  BY DEF IInv, StoreInv, Good, IsTrue, TerminalIsTrue
<1> QED
  BY <1>1, WatchersInvariant, PTL

\* While store calls do not overlap, live leases on a round have one owner.
THEOREM LeasesExclude == Spec => []LeaseExclusive
<1>1. IInv => LeaseExclusive
  BY DEF IInv, LeaseInv
<1> QED
  BY <1>1, WatchersInvariant, PTL
-----------------------------------------------------------------------------
(***************************************************************************)
(* How leases go.                                                          *)
(***************************************************************************)
AllKept == \A l \in file.leases : Live(l) => Kept(l)

LEMMA SameLeasesKept ==
    ASSUME IInv, file.leases \subseteq file'.leases
    PROVE  AllKept
<1> SUFFICES ASSUME NEW l \in file.leases PROVE Kept(l)
  BY DEF AllKept
<1>1. l.expires \in Nat
  BY StoreElim DEF IInv, StoreInv, Good, RoundLease
<1> QED
  BY <1>1 DEF Kept

\* A call that writes the leases it read.
LEMMA CallKept ==
    ASSUME IInv, ~setup.overlap, NEW p \in Process, NEW d, d.leases = Read(p).leases,
           Save(p, d) \/ ReadOnly(p)
    PROVE  AllKept
<1>1. Read(p) = file
  BY DEF IInv, LeaseInv, Read
<1>2. file' \in {file, d}
  BY DEF Save, ReadOnly
<1> QED
  BY <1>1, <1>2, SameLeasesKept

LEMMA UpdateKept ==
    ASSUME IInv, ~setup.overlap, NEW p \in Process, NEW r, NEW d,
           r \in Tracked(Read(p)) => d.leases = Read(p).leases, Update(p, r, d)
    PROVE  AllKept
<1>1. CASE r \in Tracked(Read(p))
  BY <1>1, CallKept DEF Update
<1>2. CASE r \notin Tracked(Read(p))
  BY <1>2, CallKept DEF Update
<1> QED
  BY <1>1, <1>2

\* A release leaves what is somebody else's or on another round.
LEMMA DropLeaves ==
    ASSUME IInv, ~setup.overlap, NEW p \in Process, NEW r, NEW owner, NEW scope,
           Drop(p, r, owner, scope), NEW l \in file.leases, l \notin file'.leases
    PROVE  l.round = r /\ l.owner = owner
<1>1. Read(p) = file
  BY DEF IInv, LeaseInv, Read
<1>2. file' \in {file, ReleaseLease(file, r, owner, scope)}
  BY <1>1 DEF Drop, Save, ReadOnly
<1>3. file \in Store
  BY DEF IInv, StoreInv, Good
<1>4. ReleaseLease(file, r, owner, scope).leases =
        {m \in file.leases : ~(m.round = r /\ m.owner = owner /\ ScopesOverlap(m.scope, scope))}
  BY <1>3, StoreElim DEF ReleaseLease
<1> QED
  BY <1>2, <1>4

LEMMA StepKept ==
    ASSUME IInv, ~setup.overlap, NEW p \in Watcher, Step(p)
    PROVE  AllKept
<1>1. p \in Process
  BY DEF Process
<1>2. CASE Enqueue(p)
  <2> DEFINE r == Head(todo[p])
             d == AddRound(Read(p), r, Here)
  <2>1. r \in Round
    BY <1>2, ListLeft DEF Enqueue, IInv, LoopInv
  <2>2. d.leases = Read(p).leases
    BY <1>1, <2>1, ReadGood, AddRoundGood DEF IInv, Scope
  <2> QED
    BY <1>1, <1>2, <2>2, CallKept DEF Enqueue
<1>3. CASE Claim(p) \/ Fail(p)
  BY <1>1, <1>3, UpdateKept DEF Claim, Fail
<1>4. CASE Complete(p)
  <2> DEFINE r == tick[p].round
             d == Read(p)
             rec == [d.rounds[r] EXCEPT !.lastStatus = Outcome(tick[p].status)]
  <2>1. d \in Store
    BY <1>1, ReadGood DEF IInv, Good
  <2>2. SetRound(d, r, rec).leases = d.leases
    BY <2>1, StoreElim DEF SetRound
  <2>3. Update(p, r, SetRound(d, r, rec))
    BY <1>4 DEF Complete
  <2> QED
    BY <1>1, <2>2, <2>3, UpdateKept
<1>5. CASE Release(p)
  <2>1. Drop(p, tick[p].round, p, Here) /\ pc[p] = "release" /\ pc' = [pc EXCEPT ![p] = "batch"]
    BY <1>5 DEF Release, Goto
  <2>2. pc'[p] = "batch"
    BY <2>1 DEF IInv, LoopInv
  <2>3. ASSUME NEW l \in file.leases
        PROVE  Kept(l)
    <3>1. CASE l \in file'.leases
      <4>1. l.expires \in Nat
        BY StoreElim DEF IInv, StoreInv, Good, RoundLease
      <4> QED
        BY <3>1, <4>1 DEF Kept
    <3>2. CASE l \notin file'.leases
      <4>1. l.owner = p
        BY <1>1, <2>1, <3>2, DropLeaves
      <4> QED
        BY <2>1, <2>2, <4>1 DEF Kept
    <3> QED
      BY <3>1, <3>2
  <2> QED
    BY <2>3 DEF AllKept
<1>6. CASE Start(p) \/ Poll(p) \/ EndBatch(p) \/ TickEnds(p) \/ TickFails(p)
  BY <1>6, SameLeasesKept DEF Start, Poll, EndBatch, TickEnds, TickFails, stores
<1> QED
  BY <1>2, <1>3, <1>4, <1>5, <1>6 DEF Step

\* A claim replaces its owner's lease by one that ends no earlier.
LEMMA ClaimKept ==
    ASSUME IInv, ~setup.overlap, NEW c \in Cli, NEW owner, NEW r, CliClaim(c, owner, r)
    PROVE  AllKept
<1>1. Read(c) = file
  BY DEF IInv, LeaseInv, Read
<1>2. PICK scope \in Scope :
         IF HeldLeases(file, r, owner, scope) = {}
         THEN Save(c, ClaimRound(file, r, owner, scope))
         ELSE ReadOnly(c)
  BY <1>1 DEF CliClaim
<1>3. CASE file' = file
  BY <1>3, SameLeasesKept
<1>4. CASE file' # file
  <2> DEFINE new == [owner |-> owner, round |-> r, scope |-> scope, expires |-> now + LEASE]
  <2>1. HeldLeases(file, r, owner, scope) = {} /\ file' = ClaimRound(file, r, owner, scope)
    BY <1>2, <1>4 DEF Save, ReadOnly
  <2>2. file'.leases = {l \in file.leases : l.round # r \/ l.scope # scope} \cup {new}
    BY <2>1, StoreElim DEF ClaimRound, IInv, StoreInv, Good
  <2>3. ASSUME NEW l \in file.leases, Live(l)
        PROVE  Kept(l)
    <3>1. l.expires \in Nat /\ l.expires <= now + LEASE
      BY StoreElim DEF IInv, StoreInv, Good, RoundLease, LeaseInv
    <3>2. CASE l.round # r \/ l.scope # scope
      BY <2>2, <3>1, <3>2 DEF Kept
    <3>3. CASE l.round = r /\ l.scope = scope
      <4>1. l.owner = owner
        BY <2>1, <2>3, <3>3 DEF HeldLeases, ScopesOverlap
      <4>2. /\ new \in file'.leases /\ new.owner = l.owner /\ new.round = l.round
            /\ new.scope = l.scope /\ new.expires >= l.expires
        BY <2>2, <3>1, <3>3, <4>1, SetupAssumption DEF IInv, BaseInv
      <4> HIDE DEF new
      <4> QED
        BY <4>2 DEF Kept
    <3> QED
      BY <3>2, <3>3
  <2> QED
    BY <2>3 DEF AllKept
<1> QED
  BY <1>3, <1>4

LEMMA CliKept ==
    ASSUME IInv, ~setup.overlap, NEW c \in Cli, NEW r \in Round,
           \/ CliAdd(c, r) \/ CliRemove(c, r)
           \/ \E owner \in Watcher \cup {c} : CliClaim(c, owner, r) \/ CliRelease(c, owner, r)
    PROVE  AllKept
<1>1. c \in Process /\ Good(Read(c))
  BY ReadGood DEF Process, IInv
<1>2. CASE CliAdd(c, r)
  <2>1. PICK scope \in Scope : Save(c, AddRound(Read(c), r, scope))
    BY <1>2 DEF CliAdd
  <2>2. AddRound(Read(c), r, scope).leases = Read(c).leases
    BY <1>1, AddRoundGood
  <2> QED
    BY <1>1, <2>1, <2>2, CallKept
<1>3. CASE CliRemove(c, r)
  BY <1>1, <1>3, RemoveRoundGood, UpdateKept DEF CliRemove
<1>4. CASE \E owner \in Watcher \cup {c} : CliClaim(c, owner, r)
  BY <1>4, ClaimKept
<1>5. ASSUME NEW owner \in Watcher \cup {c}, CliRelease(c, owner, r)
      PROVE  AllKept
  <2>1. PICK scope \in Scope : Drop(c, r, owner, scope)
    BY <1>5 DEF CliRelease
  <2>2. ASSUME NEW l \in file.leases
        PROVE  Kept(l)
    <3>1. CASE l \in file'.leases
      <4>1. l.expires \in Nat
        BY StoreElim DEF IInv, StoreInv, Good, RoundLease
      <4> QED
        BY <3>1, <4>1 DEF Kept
    <3>2. CASE l \notin file'.leases
      <4>1. l.round = r /\ l.owner = owner
        BY <1>1, <2>1, <3>2, DropLeaves
      <4> QED
        BY <1>5, <4>1 DEF Kept
    <3> QED
      BY <3>1, <3>2
  <2> QED
    BY <2>2 DEF AllKept
<1> QED
  BY <1>2, <1>3, <1>4, <1>5

\* While store calls do not overlap, a live lease goes only by the release or
\* the renewal of its owner, or by a release in its owner's name.
THEOREM LeasesLast == Spec => LeaseKept
<1>1. IInv /\ [Next]_vars => [~setup.overlap => \A l \in file.leases : Live(l) => Kept(l)]_vars
  <2> SUFFICES ASSUME IInv, Next, ~setup.overlap PROVE AllKept
    BY DEF AllKept
  <2>1. CASE Clock \/ \E r \in Round : Advance(r)
    BY <2>1, SameLeasesKept DEF Clock, Advance, stores
  <2>2. CASE \E p \in Process : Reload(p)
    BY <2>2, SameLeasesKept DEF Reload
  <2>3. CASE \E p \in Watcher : Step(p)
    BY <2>3, StepKept
  <2>4. CASE \E p \in Watcher : Stop(p) \/ Crash(p)
    BY <2>4, SameLeasesKept DEF Stop, Crash, stores
  <2>5. CASE \E c \in Cli, r \in setup.rounds :
                \/ CliAdd(c, r) \/ CliRemove(c, r)
                \/ \E owner \in Watcher \cup {c} : CliClaim(c, owner, r) \/ CliRelease(c, owner, r)
    BY <2>5, RoundsOfSetup, CliKept DEF IInv
  <2> QED
    BY <2>1, <2>2, <2>3, <2>4, <2>5 DEF Next
<1> QED
  BY <1>1, WatchersInvariant, PTL DEF Spec, LeaseKept
=============================================================================
