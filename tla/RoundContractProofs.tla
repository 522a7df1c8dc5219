------------------------ MODULE RoundContractProofs ------------------------
(***************************************************************************)
(* Proofs about RoundContract, for every number of accounts, rounds, bids, *)
(* escrows and deadlines.                                                  *)
(***************************************************************************)
EXTENDS RoundContract, SumsProofs

USE DEF RoundId
-----------------------------------------------------------------------------
(***************************************************************************)
(* The inductive invariant, in named parts.                                *)
(***************************************************************************)

\* Rounds are numbered in creation order, and only by create_round's rules.
CreatedInv(r) ==
    /\ status[r] = "None" <=> r > counter
    /\ status[r] = "None" => bidders[r] = <<>> /\ ledger[r] = NoLedger
    /\ status[r] # "None" => terms[r] \in Terms /\ ClosesBeforeBeacon(terms[r])

\* The bidder index lists exactly the accounts with bid state, each once, and
\* the bids are settled together, at the end of the round.
IndexInv(r) ==
    /\ \A i, j \in 1 .. Len(bidders[r]) : bidders[r][i] = bidders[r][j] => i = j
    /\ \A a \in Indexed(r) : bid[r][a].escrow > 0
    /\ \A a \in Account \ Indexed(r) : bid[r][a] = NoBid
    /\ status[r] \notin Terminal => \A a \in Account : ~bid[r][a].settled
    /\ status[r] \in Terminal => \A a \in Indexed(r) : bid[r][a].settled

\* No round opens before its beacon.
OpenedInv(r) ==
    status[r] \in {"Revealing", "Cleared", "Settled"} => terms[r].reveal_round \in published

\* Bids are revealed only once their round is open, and valid when positive.
RevealInv(r) ==
    \A a \in Account :
        /\ bid[r][a].revealed_value # None => status[r] \notin {"None", "Open"}
        /\ bid[r][a].valid <=> /\ bid[r][a].revealed_value # None
                               /\ bid[r][a].revealed_value > 0

\* A round has an outcome only once cleared, and pays out only when settled.
OutcomeInv(r) ==
    /\ status[r] \notin {"Cleared", "Settled"} => winner[r] = None
    /\ status[r] # "Settled" => ledger[r].payout = 0
    /\ status[r] \in {"Cleared", "Settled"} => WonByBest(r)
    /\ status[r] = "Voided" => HarmlessVoid(r)

RoundInv(r) ==
    /\ CreatedInv(r)
    /\ IndexInv(r)
    /\ Backed(r)
    /\ OpenedInv(r)
    /\ RevealInv(r)
    /\ \A a \in Account : SealedReveal(r, a)
    /\ OutcomeInv(r)

\* Drand never publishes early.
BeaconInv == \A R \in published : TimeOfRound(R) <= now

HeldInv == held = Sum([r \in RoundId |-> IndexLocked(r)], MaxRounds)

IInv == TypeOK /\ BeaconInv /\ HeldInv /\ \A r \in RoundId : RoundInv(r)
-----------------------------------------------------------------------------
LEMMA TimeOfRoundType == \A R \in Nat : TimeOfRound(R) \in Nat
  BY ParameterAssumption DEF TimeOfRound

LEMMA IndexedInAccount ==
  ASSUME TypeOK, NEW r \in RoundId
  PROVE  /\ Indexed(r) \subseteq Account
         /\ Len(bidders[r]) \in Nat
         /\ DOMAIN bidders[r] = 1 .. Len(bidders[r])
         /\ \A i \in 1 .. Len(bidders[r]) : bidders[r][i] \in Indexed(r)
         /\ \A a \in Indexed(r) : \E i \in 1 .. Len(bidders[r]) : bidders[r][i] = a
<1>1. bidders[r] \in Seq(Account)
  BY DEF TypeOK
<1> QED
  BY <1>1 DEF Indexed

LEMMA OwedType ==
  TypeOK => \A r \in RoundId : Owed(r) \in [Account -> Nat] /\ IndexLocked(r) \in Nat
<1> SUFFICES ASSUME TypeOK, NEW r \in RoundId
             PROVE  Owed(r) \in [Account -> Nat] /\ IndexLocked(r) \in Nat
  OBVIOUS
<1>1. bidders[r] \in Seq(Account) /\ bid[r] \in [Account -> BidState]
  BY DEF TypeOK
<1>2. Owed(r) \in [Account -> Nat]
  BY <1>1 DEF Owed, BidState
<1> QED
  BY <1>1, <1>2, SumOverNat DEF IndexLocked

\* The same after a step.
LEMMA OwedTypePrime ==
  TypeOK' => \A r \in RoundId : Owed(r)' \in [Account -> Nat] /\ IndexLocked(r)' \in Nat
<1>1. TypeOK' => (\A r \in RoundId : Owed(r) \in [Account -> Nat] /\ IndexLocked(r) \in Nat)'
  BY OwedType, PTL
<1> QED
  BY <1>1

LEMMA EnsureLedgerType ==
  ASSUME TypeOK, NEW r \in RoundId
  PROVE  EnsureLedger(r) \in EscrowLedger
<1>1. ledger[r] \in EscrowLedger /\ IndexLocked(r) \in Nat
  BY OwedType DEF TypeOK
<1> QED
  BY <1>1 DEF EnsureLedger, EscrowLedger, LedgerOf

\* What the accounting primitives do to the flows of a ledger.
LEMMA DepositFlows ==
  ASSUME NEW l \in EscrowLedger, NEW x \in Int
  PROVE  /\ Deposit(l, x) \in EscrowLedger
         /\ Deposit(l, x).committed = l.committed + x
         /\ Deposit(l, x).locked = l.locked + x
         /\ Deposit(l, x).refunds = l.refunds
         /\ Deposit(l, x).payout = l.payout
  BY DEF EscrowLedger, Deposit, LedgerOf

LEMMA RefundFlows ==
  ASSUME NEW l \in EscrowLedger, NEW x \in Int
  PROVE  /\ Refund(l, x) \in EscrowLedger
         /\ Refund(l, x).committed = l.committed
         /\ Refund(l, x).locked = l.locked - x
         /\ Refund(l, x).refunds = l.refunds + x
         /\ Refund(l, x).payout = l.payout
  BY DEF EscrowLedger, Refund, LedgerOf

LEMMA PayOperatorFlows ==
  ASSUME NEW l \in EscrowLedger, NEW x \in Int
  PROVE  /\ PayOperator(l, x) \in EscrowLedger
         /\ PayOperator(l, x).committed = l.committed
         /\ PayOperator(l, x).locked = l.locked - x
         /\ PayOperator(l, x).refunds = l.refunds
         /\ PayOperator(l, x).payout = l.payout + x
  BY DEF EscrowLedger, PayOperator, LedgerOf

\* Escrow held for a round whose index and owed amounts do not change.
LEMMA IndexLockedUnchanged ==
  ASSUME TypeOK, NEW r \in RoundId, bidders'[r] = bidders[r],
         \A a \in Indexed(r) : Owed(r)'[a] = Owed(r)[a]
  PROVE  IndexLocked(r)' = IndexLocked(r)
<1>1. bidders[r] \in Seq(Account)
  BY DEF TypeOK
<1>2. \A i \in 1 .. Len(bidders[r]) : Owed(r)'[bidders[r][i]] = Owed(r)[bidders[r][i]]
  BY IndexedInAccount
<1>3. SumOver(Owed(r)', bidders[r]) = SumOver(Owed(r), bidders[r])
  BY <1>1, <1>2, SumOverCongruence
<1> QED
  BY <1>3 DEF IndexLocked

\* The contract's balance follows the one round whose escrow changes.
LEMMA HeldFollows ==
  ASSUME TypeOK, TypeOK', NEW r \in RoundId,
         held = Sum([q \in RoundId |-> IndexLocked(q)], MaxRounds),
         \A q \in RoundId \ {r} : IndexLocked(q)' = IndexLocked(q),
         held' = held - IndexLocked(r) + IndexLocked(r)'
  PROVE  held' = Sum([q \in RoundId |-> IndexLocked(q)'], MaxRounds)
<1> DEFINE d == [q \in 1 .. MaxRounds |-> IndexLocked(q)]
           e == [q \in 1 .. MaxRounds |-> IndexLocked(q)']
<1>1. \A q \in 1 .. MaxRounds : d[q] \in Int /\ e[q] \in Int
  <2>1. \A q \in 1 .. MaxRounds : IndexLocked(q) \in Nat
    BY OwedType
  <2>2. \A q \in 1 .. MaxRounds : IndexLocked(q)' \in Nat
    BY OwedTypePrime
  <2> QED
    BY <2>1, <2>2
<1>2. \A q \in 1 .. MaxRounds : q # r => e[q] = d[q]
  OBVIOUS
<1>3. r \in 1 .. MaxRounds /\ MaxRounds \in Nat
  BY ParameterAssumption
<1>4. d[r] = IndexLocked(r) /\ e[r] = IndexLocked(r)'
  BY <1>3
<1>5. held = Sum(d, MaxRounds)
  OBVIOUS
<1> HIDE DEF d, e
<1>6. Sum(e, MaxRounds) = Sum(d, MaxRounds) - d[r] + e[r]
  BY ONLY <1>1, <1>2, <1>3, SumChangeOne
<1> QED
  BY <1>4, <1>5, <1>6 DEF e
-----------------------------------------------------------------------------
(***************************************************************************)
(* clear's pass over the bidder index.                                     *)
(***************************************************************************)

\* b is the best of the first k indexed bids: None if none of them is
\* eligible, and the earliest of the best ones otherwise.
BestOfFirst(r, k, b) ==
    \/ b = None /\ \A j \in 1 .. k : ~Eligible(r, bidders[r][j])
    \/ \E i \in 1 .. k :
          /\ b = bidders[r][i]
          /\ Eligible(r, b)
          /\ \A j \in 1 .. k : Eligible(r, bidders[r][j]) =>
                /\ ~Better(terms[r].clearing_rule, ValueAt(r, j), bid[r][b].revealed_value)
                /\ ValueAt(r, j) = bid[r][b].revealed_value => i <= j

ClearStep(r, k, b) ==
    IF Eligible(r, bidders[r][k]) /\ Beats(r, bidders[r][k], b) THEN bidders[r][k] ELSE b

\* One iteration of the loop keeps the best bid best.
LEMMA ClearStepKeepsBest ==
  ASSUME TypeOK, NEW r \in RoundId, NEW k \in Nat, k + 1 \in 1 .. Len(bidders[r]),
         NEW b, BestOfFirst(r, k, b)
  PROVE  BestOfFirst(r, k + 1, ClearStep(r, k + 1, b))
<1> DEFINE a == bidders[r][k + 1]
           v(j) == ValueAt(r, j)
           rule == terms[r].clearing_rule
<1>1. \A j \in 1 .. Len(bidders[r]) :
         bidders[r][j] \in Account /\ (Eligible(r, bidders[r][j]) => v(j) \in Int)
  <2> SUFFICES ASSUME NEW j \in 1 .. Len(bidders[r])
               PROVE  bidders[r][j] \in Account /\ (Eligible(r, bidders[r][j]) => v(j) \in Int)
    OBVIOUS
  <2>1. bidders[r][j] \in Account
    BY DEF TypeOK
  <2>2. bid[r][bidders[r][j]] \in BidState
    BY <2>1 DEF TypeOK
  <2>3. v(j) \in Value \cup {None}
    BY <2>2 DEF BidState, ValueAt
  <2> QED
    BY <2>1, <2>3, InputAssumption DEF Eligible, ValueAt
<1>2. \A j \in 1 .. k : j \in 1 .. Len(bidders[r]) /\ j \in 1 .. k + 1 /\ j # k + 1
  OBVIOUS
<1>3. \A j \in 1 .. k + 1 : j \in 1 .. k \/ j = k + 1
  OBVIOUS
<1>4. CASE ~Eligible(r, a)
  <2>1. ClearStep(r, k + 1, b) = b
    BY <1>4 DEF ClearStep
  <2>2. CASE b = None /\ \A j \in 1 .. k : ~Eligible(r, bidders[r][j])
    BY <1>3, <1>4, <2>1, <2>2 DEF BestOfFirst
  <2>3. CASE b # None \/ ~\A j \in 1 .. k : ~Eligible(r, bidders[r][j])
    <3>1. PICK i \in 1 .. k :
            /\ b = bidders[r][i]
            /\ Eligible(r, b)
            /\ \A j \in 1 .. k : Eligible(r, bidders[r][j]) =>
                 ~Better(rule, v(j), bid[r][b].revealed_value) /\ (v(j) = bid[r][b].revealed_value => i <= j)
      BY <2>3 DEF BestOfFirst
    <3> QED
      BY <1>2, <1>3, <1>4, <2>1, <3>1 DEF BestOfFirst
  <2> QED
    BY <2>2, <2>3
<1>5. CASE Eligible(r, a) /\ ~Beats(r, a, b)
  <2>1. ClearStep(r, k + 1, b) = b
    BY <1>5 DEF ClearStep
  <2>2. b # None /\ ~Better(rule, v(k + 1), bid[r][b].revealed_value)
    BY <1>5 DEF Beats, ValueAt
  <2>3. PICK i \in 1 .. k :
          /\ b = bidders[r][i]
          /\ Eligible(r, b)
          /\ \A j \in 1 .. k : Eligible(r, bidders[r][j]) =>
               ~Better(rule, v(j), bid[r][b].revealed_value) /\ (v(j) = bid[r][b].revealed_value => i <= j)
    BY <2>2 DEF BestOfFirst
  <2>4. i <= k + 1 /\ i \in 1 .. k + 1
    OBVIOUS
  <2> QED
    BY <1>3, <2>1, <2>2, <2>3, <2>4 DEF BestOfFirst
<1>6. CASE Eligible(r, a) /\ Beats(r, a, b)
  <2>1. ClearStep(r, k + 1, b) = a /\ bid[r][a].revealed_value = v(k + 1)
    BY <1>6 DEF ClearStep, ValueAt
  <2>2. k + 1 \in 1 .. k + 1 /\ v(k + 1) \in Int
    BY <1>1, <1>6
  <2>3. ~Better(rule, v(k + 1), v(k + 1))
    BY <2>2 DEF Better
  <2>4. ASSUME NEW j \in 1 .. k, Eligible(r, bidders[r][j])
        PROVE  ~Better(rule, v(j), v(k + 1)) /\ v(j) # v(k + 1)
    <3>1. PICK i \in 1 .. k :
            /\ b = bidders[r][i]
            /\ Eligible(r, b)
            /\ ~Better(rule, v(j), bid[r][b].revealed_value)
      BY <2>4 DEF BestOfFirst
    <3>2. bid[r][b].revealed_value = v(i)
      BY <3>1 DEF ValueAt
    <3>3. v(i) \in Int /\ v(j) \in Int /\ b # None
      BY <1>1, <1>2, <2>4, <3>1, NoneAssumption
    <3>4. Better(rule, v(k + 1), v(i))
      BY <1>6, <3>2, <3>3 DEF Beats, ValueAt
    <3> HIDE DEF v
    <3> QED
      BY <2>2, <3>1, <3>2, <3>3, <3>4 DEF Better
  <2>5. \A j \in 1 .. k + 1 : Eligible(r, bidders[r][j]) =>
          ~Better(rule, v(j), v(k + 1)) /\ (v(j) = v(k + 1) => k + 1 <= j)
    BY <1>3, <2>3, <2>4
  <2> QED
    BY <1>6, <2>1, <2>2, <2>5 DEF BestOfFirst
<1> QED
  BY <1>4, <1>5, <1>6

\* u is the table of the best bid after each iteration of the loop.
BestTable(r, n, u) ==
    u = [k \in 0 .. n |-> IF k = 0 THEN None ELSE ClearStep(r, k, u[k - 1])]

LEMMA BestTableExists ==
  ASSUME NEW r
  PROVE  \A n \in Nat : \E u : BestTable(r, n, u)
<1> DEFINE S == {n \in Nat : \E u : BestTable(r, n, u)}
<1>1. 0 \in S
  <2> DEFINE u == [k \in 0 .. 0 |-> None]
  <2>1. u = [k \in 0 .. 0 |-> IF k = 0 THEN None ELSE ClearStep(r, k, u[k - 1])]
    OBVIOUS
  <2> QED
    BY <2>1 DEF BestTable
<1>2. ASSUME NEW n \in S PROVE n + 1 \in S
  <2>1. PICK u : u = [k \in 0 .. n |-> IF k = 0 THEN None ELSE ClearStep(r, k, u[k - 1])]
    BY DEF BestTable
  <2> DEFINE w == [k \in 0 .. n + 1 |-> IF k = n + 1 THEN ClearStep(r, n + 1, u[n]) ELSE u[k]]
             v == [k \in 0 .. n + 1 |-> IF k = 0 THEN None ELSE ClearStep(r, k, w[k - 1])]
  <2>2. ASSUME NEW k \in 0 .. n + 1 PROVE w[k] = v[k]
    <3>1. CASE k = 0
      BY <2>1, <3>1
    <3>2. CASE k = n + 1
      BY <2>1, <3>2
    <3>3. CASE k \in 1 .. n
      <4>1. k \in 0 .. n /\ k - 1 \in 0 .. n /\ k - 1 # n + 1 /\ k # n + 1
        BY <3>3
      <4>2. w[k - 1] = u[k - 1] /\ w[k] = u[k]
        BY <4>1
      <4>3. u[k] = ClearStep(r, k, u[k - 1])
        BY <2>1, <4>1, <3>3
      <4> QED
        BY <4>1, <4>2, <4>3, <3>3
    <3> QED
      BY <3>1, <3>2, <3>3
  <2>3. w = v
    BY <2>2
  <2>4. BestTable(r, n + 1, w)
    BY <2>3 DEF BestTable
  <2> QED
    BY <2>4
<1> HIDE DEF S
<1>3. S = Nat
  <2>1. S \in SUBSET Nat
    BY DEF S
  <2> QED
    BY <1>1, <1>2, <2>1, NatSetInduction
<1> QED
  BY <1>3 DEF S

\* clear's winner is the earliest of the best valid bids of the whole index.
LEMMA BestBidderIsBest ==
  ASSUME TypeOK, NEW r \in RoundId
  PROVE  BestOfFirst(r, Len(bidders[r]), BestBidder(r))
<1> DEFINE n == Len(bidders[r])
           c == CHOOSE u : u = [k \in 0 .. n |-> IF k = 0 THEN None
                                  ELSE IF /\ Eligible(r, bidders[r][k])
                                          /\ Beats(r, bidders[r][k], u[k - 1])
                                       THEN bidders[r][k] ELSE u[k - 1]]
<1>1. n \in Nat
  BY IndexedInAccount
<1>2. BestBidder(r) = c[n]
  BY DEF BestBidder
<1>3. c = [k \in 0 .. n |-> IF k = 0 THEN None ELSE ClearStep(r, k, c[k - 1])]
  BY <1>1, BestTableExists DEF BestTable, ClearStep
<1> HIDE DEF c, n
<1> DEFINE S == {k \in Nat : k <= n => BestOfFirst(r, k, c[k])}
<1>4. 0 \in S
  BY <1>1, <1>3 DEF BestOfFirst
<1>5. ASSUME NEW k \in S PROVE k + 1 \in S
  <2> SUFFICES ASSUME k + 1 <= n PROVE BestOfFirst(r, k + 1, c[k + 1])
    OBVIOUS
  <2>1. k + 1 \in 1 .. Len(bidders[r]) /\ BestOfFirst(r, k, c[k])
    BY <1>1 DEF n
  <2>2. c[k + 1] = ClearStep(r, k + 1, c[k])
    BY <1>1, <1>3
  <2>3. BestOfFirst(r, k + 1, ClearStep(r, k + 1, c[k]))
    BY <2>1, ClearStepKeepsBest
  <2> QED
    BY <2>2, <2>3
<1> HIDE DEF S
<1>6. S = Nat
  <2>1. S \in SUBSET Nat
    BY DEF S
  <2> QED
    BY <1>4, <1>5, <2>1, NatSetInduction
<1>7. BestOfFirst(r, n, c[n])
  BY <1>1, <1>6 DEF S
<1> QED
  BY <1>2, <1>7 DEF n
-----------------------------------------------------------------------------
(***************************************************************************)
(* A round none of whose data a step touches keeps its invariant.          *)
(***************************************************************************)
LEMMA FrameRound ==
  ASSUME NEW r \in RoundId, TypeOK, RoundInv(r), published \subseteq published',
         terms'[r] = terms[r], status'[r] = status[r], bidders'[r] = bidders[r],
         winner'[r] = winner[r], winning_bid'[r] = winning_bid[r],
         bid'[r] = bid[r], ledger'[r] = ledger[r],
         r > counter' <=> r > counter
  PROVE  RoundInv(r)' /\ IndexLocked(r)' = IndexLocked(r)
<1>1. Indexed(r)' = Indexed(r) /\ Owed(r)' = Owed(r)
  BY DEF Indexed, Owed
<1>2. IndexLocked(r)' = IndexLocked(r)
  BY <1>1 DEF IndexLocked
<1>3. CreatedInv(r)'
  BY DEF RoundInv, CreatedInv
<1>4. IndexInv(r)'
  BY <1>1 DEF RoundInv, IndexInv
<1>5. Backed(r)'
  BY <1>2 DEF RoundInv, Backed, Conserved
<1>6. OpenedInv(r)'
  BY DEF RoundInv, OpenedInv
<1>7. RevealInv(r)'
  BY DEF RoundInv, RevealInv
<1>8. (\A a \in Account : SealedReveal(r, a))'
  BY DEF RoundInv, SealedReveal
<1>9. WonByBest(r)' <=> WonByBest(r)
  BY DEF WonByBest, ValueAt, ValidAt
<1>10. HarmlessVoid(r)' <=> HarmlessVoid(r)
  BY <1>1 DEF HarmlessVoid
<1>11. OutcomeInv(r)'
  BY <1>9, <1>10 DEF RoundInv, OutcomeInv
<1> QED
  BY <1>2, <1>3, <1>4, <1>5, <1>6, <1>7, <1>8, <1>11 DEF RoundInv

SameRound(r) ==
    /\ terms'[r] = terms[r] /\ status'[r] = status[r] /\ bidders'[r] = bidders[r]
    /\ winner'[r] = winner[r] /\ winning_bid'[r] = winning_bid[r]
    /\ bid'[r] = bid[r] /\ ledger'[r] = ledger[r]
    /\ r > counter' <=> r > counter

\* A step on one round keeps the invariant when it keeps the types, that
\* round's own invariant, and moves the contract's balance with its escrow.
LEMMA OneRoundStep ==
  ASSUME IInv, TypeOK', BeaconInv', published \subseteq published', NEW r \in RoundId,
         \A q \in RoundId \ {r} : SameRound(q),
         RoundInv(r)', held' = held - IndexLocked(r) + IndexLocked(r)'
  PROVE  IInv'
<1>1. \A q \in RoundId \ {r} : RoundInv(q)' /\ IndexLocked(q)' = IndexLocked(q)
  <2> SUFFICES ASSUME NEW q \in RoundId \ {r}
               PROVE  RoundInv(q)' /\ IndexLocked(q)' = IndexLocked(q)
    OBVIOUS
  <2>1. SameRound(q) /\ RoundInv(q) /\ TypeOK
    BY DEF IInv
  <2> QED
    BY <2>1, FrameRound DEF SameRound
<1>2. HeldInv'
  <2>1. held = Sum([q \in RoundId |-> IndexLocked(q)], MaxRounds) /\ TypeOK
    BY DEF IInv, HeldInv
  <2>2. held' = Sum([q \in RoundId |-> IndexLocked(q)'], MaxRounds)
    BY <1>1, <2>1, HeldFollows
  <2> QED
    BY <2>2 DEF HeldInv
<1>3. \A q \in RoundId : RoundInv(q)'
  BY <1>1
<1> QED
  BY <1>2, <1>3 DEF IInv

\* A step that touches no round keeps the invariant.
LEMMA NoRoundStep ==
  ASSUME IInv, TypeOK', BeaconInv', published \subseteq published', held' = held,
         UNCHANGED <<counter, terms, status, bidders, outcome, bid, ledger>>
  PROVE  IInv'
<1>1. \A r \in RoundId : RoundInv(r)' /\ IndexLocked(r)' = IndexLocked(r)
  <2> SUFFICES ASSUME NEW r \in RoundId
               PROVE  RoundInv(r)' /\ IndexLocked(r)' = IndexLocked(r)
    OBVIOUS
  <2>1. RoundInv(r) /\ TypeOK
    BY DEF IInv
  <2> QED
    BY <2>1, FrameRound DEF outcome
<1>2. [r \in RoundId |-> IndexLocked(r)'] = [r \in RoundId |-> IndexLocked(r)]
  BY <1>1
<1>3. HeldInv'
  BY <1>2 DEF IInv, HeldInv
<1> QED
  BY <1>1, <1>3 DEF IInv
-----------------------------------------------------------------------------
LEMMA InitIInv == Init => IInv
<1> SUFFICES ASSUME Init PROVE IInv
  OBVIOUS
<1>1. NoBid \in BidState /\ NoLedger \in EscrowLedger
  BY DEF NoBid, BidState, NoLedger, EscrowLedger
<1>2. TypeOK
  BY <1>1, InputAssumption, ParameterAssumption DEF Init, TypeOK, Status
<1>3. BeaconInv
  BY DEF Init, BeaconInv
<1>4. \A r \in RoundId : bidders[r] = <<>> /\ IndexLocked(r) = 0
  BY SumOverEmpty DEF Init, IndexLocked
<1>5. HeldInv
  <2> DEFINE d == [r \in RoundId |-> IndexLocked(r)]
  <2>1. \A r \in 1 .. MaxRounds : d[r] = 0
    BY <1>4
  <2>2. MaxRounds \in Nat
    BY ParameterAssumption
  <2> HIDE DEF d
  <2>3. Sum(d, MaxRounds) = 0
    BY <2>1, <2>2, SumAllZero
  <2> QED
    BY <2>3 DEF HeldInv, Init, d
<1>6. \A r \in RoundId : RoundInv(r)
  <2> SUFFICES ASSUME NEW r \in RoundId PROVE RoundInv(r)
    OBVIOUS
  <2>1. /\ status[r] = "None" /\ bidders[r] = <<>> /\ ledger[r] = NoLedger
        /\ winner[r] = None /\ Indexed(r) = {} /\ Len(bidders[r]) = 0
        /\ \A a \in Account : bid[r][a] = NoBid
    BY DEF Init, Indexed
  <2>2. CreatedInv(r)
    BY <2>1 DEF CreatedInv, Init
  <2>3. IndexInv(r)
    <3>1. \A a \in Account : ~bid[r][a].settled
      BY <2>1 DEF NoBid
    <3>2. \A i, j \in 1 .. Len(bidders[r]) : bidders[r][i] = bidders[r][j] => i = j
      BY <2>1
    <3> QED
      BY <2>1, <3>1, <3>2 DEF IndexInv, Terminal
  <2>4. RevealInv(r) /\ \A a \in Account : SealedReveal(r, a)
    BY <2>1 DEF RevealInv, SealedReveal, NoBid
  <2>5. OutcomeInv(r)
    BY <2>1 DEF OutcomeInv, NoLedger
  <2> QED
    BY <2>1, <2>2, <2>3, <2>4, <2>5 DEF RoundInv, Backed, OpenedInv
<1> QED
  BY <1>2, <1>3, <1>5, <1>6 DEF IInv

LEMMA TickStep == IInv /\ Tick => IInv'
<1> SUFFICES ASSUME IInv, Tick PROVE IInv'
  OBVIOUS
<1>1. TypeOK'
  BY ParameterAssumption DEF IInv, TypeOK, Tick, outcome, tokens
<1>2. BeaconInv'
  <2>1. \A R \in published : TimeOfRound(R) \in Nat
    BY TimeOfRoundType, InputAssumption DEF IInv, TypeOK
  <2>2. TimeOfRound(1)' = TimeOfRound(1) /\ now \in Nat
    BY ParameterAssumption DEF IInv, TypeOK, TimeOfRound
  <2> QED
    BY <2>1, <2>2 DEF IInv, BeaconInv, Tick, TimeOfRound
<1> QED
  BY <1>1, <1>2, NoRoundStep DEF Tick, tokens

LEMMA PublishStep == ASSUME IInv, NEW R \in DrandRound, Publish(R) PROVE IInv'
<1>1. TypeOK'
  BY DEF IInv, TypeOK, Publish, outcome, tokens
<1>2. BeaconInv'
  BY DEF IInv, BeaconInv, Publish, TimeOfRound
<1> QED
  BY <1>1, <1>2, NoRoundStep DEF Publish, tokens

LEMMA CreateRoundStep == ASSUME IInv, NEW t \in Terms, CreateRound(t) PROVE IInv'
<1>0. counter + 1 \in RoundId
  BY ParameterAssumption DEF CreateRound, IInv, TypeOK
<1> PICK n \in RoundId : n = counter + 1
  BY <1>0
<1>1. n \in RoundId /\ n = counter + 1 /\ counter \in Nat /\ TypeOK
  BY DEF CreateRound, IInv, TypeOK
<1>2. RoundInv(n)
  BY <1>1 DEF IInv
<1>3. status[n] = "None" /\ bidders[n] = <<>> /\ ledger[n] = NoLedger
  BY <1>1, <1>2 DEF RoundInv, CreatedInv
<1>4. TypeOK'
  BY <1>1 DEF CreateRound, TypeOK, Status, clock, tokens
<1>5. /\ terms'[n] = t /\ status'[n] = "Open" /\ bidders'[n] = <<>>
      /\ winner'[n] = None /\ counter' = n /\ bid' = bid /\ ledger' = ledger
      /\ published' = published /\ now' = now /\ held' = held
  BY <1>1 DEF CreateRound, TypeOK, clock, tokens
<1>6. \A q \in RoundId \ {n} : SameRound(q)
  BY <1>1, <1>5 DEF CreateRound, TypeOK, SameRound
<1>7. Indexed(n)' = Indexed(n) /\ Owed(n)' = Owed(n)
  BY <1>3, <1>5 DEF Indexed, Owed
<1>8. IndexLocked(n)' = IndexLocked(n)
  BY <1>3, <1>5, <1>7 DEF IndexLocked
<1>9. RoundInv(n)'
  <2>1. CreatedInv(n)'
    BY <1>1, <1>5 DEF CreatedInv, CreateRound, ClosesBeforeBeacon, TimeOfRound
  <2>2. IndexInv(n)'
    BY <1>2, <1>3, <1>5, <1>7 DEF RoundInv, IndexInv, Terminal
  <2>3. Backed(n)'
    BY <1>3, <1>5 DEF Backed
  <2>4. RevealInv(n)'
    BY <1>2, <1>3, <1>5 DEF RoundInv, RevealInv
  <2>5. (\A a \in Account : SealedReveal(n, a))'
    BY <1>2, <1>3, <1>5 DEF RoundInv, RevealInv, SealedReveal
  <2>6. OutcomeInv(n)'
    BY <1>2, <1>3, <1>5 DEF RoundInv, OutcomeInv
  <2> QED
    BY <1>5, <2>1, <2>2, <2>3, <2>4, <2>5, <2>6 DEF RoundInv, OpenedInv
<1>10. BeaconInv'
  BY <1>5 DEF IInv, BeaconInv, TimeOfRound
<1>11. held' = held - IndexLocked(n) + IndexLocked(n)'
  <2>1. held \in Nat /\ IndexLocked(n) \in Nat
    BY <1>1, OwedType DEF TypeOK
  <2> QED
    BY <1>5, <1>8, <2>1
<1> QED
  BY <1>1, <1>4, <1>5, <1>6, <1>9, <1>10, <1>11, OneRoundStep

LEMMA OpenRevealStep == ASSUME IInv, NEW r \in RoundId, OpenReveal(r) PROVE IInv'
<1>1. TypeOK /\ RoundInv(r)
  BY DEF IInv
<1>2. TypeOK'
  BY <1>1 DEF OpenReveal, TypeOK, Status, clock, outcome, tokens
<1>3. /\ status[r] = "Open" /\ status'[r] = "Revealing"
      /\ bidders' = bidders /\ bid' = bid /\ ledger' = ledger /\ terms' = terms
      /\ winner' = winner /\ winning_bid' = winning_bid /\ counter' = counter
      /\ published' = published /\ now' = now /\ held' = held
      /\ terms[r].reveal_round \in published
  BY <1>1 DEF OpenReveal, TypeOK, clock, outcome, tokens
<1>4. \A q \in RoundId \ {r} : SameRound(q)
  BY <1>1, <1>3 DEF OpenReveal, TypeOK, SameRound
<1>5. Indexed(r)' = Indexed(r) /\ IndexLocked(r)' = IndexLocked(r)
  BY <1>3 DEF Indexed, IndexLocked, Owed
<1>6. RoundInv(r)'
  <2>1. CreatedInv(r)'
    BY <1>1, <1>3 DEF RoundInv, CreatedInv
  <2>2. IndexInv(r)'
    BY <1>1, <1>3, <1>5 DEF RoundInv, IndexInv, Terminal
  <2>3. Backed(r)'
    BY <1>1, <1>3, <1>5 DEF RoundInv, Backed, Conserved
  <2>4. RevealInv(r)' /\ (\A a \in Account : SealedReveal(r, a))'
    BY <1>1, <1>3 DEF RoundInv, RevealInv, SealedReveal
  <2>5. OutcomeInv(r)'
    BY <1>1, <1>3 DEF RoundInv, OutcomeInv
  <2> QED
    BY <1>3, <2>1, <2>2, <2>3, <2>4, <2>5 DEF RoundInv, OpenedInv
<1>7. BeaconInv'
  BY <1>3 DEF IInv, BeaconInv, TimeOfRound
<1>8. held' = held - IndexLocked(r) + IndexLocked(r)'
  <2>1. held \in Nat /\ IndexLocked(r) \in Nat
    BY <1>1, OwedType DEF TypeOK
  <2> QED
    BY <1>3, <1>5, <2>1
<1> QED
  BY <1>2, <1>3, <1>4, <1>6, <1>7, <1>8, OneRoundStep

\* The stored ledger of a backed round is the one ensure_ledger returns, or
\* there is no bid and the seeded ledger is empty.
LEMMA EnsureLedgerBacked ==
  ASSUME TypeOK, NEW r \in RoundId, Backed(r)
  PROVE  /\ EnsureLedger(r).locked = IndexLocked(r)
         /\ Conserved(EnsureLedger(r))
         /\ EnsureLedger(r).payout = ledger[r].payout
<1>1. CASE ledger[r] # NoLedger
  BY <1>1 DEF EnsureLedger, Backed
<1>2. CASE ledger[r] = NoLedger
  <2>1. bidders[r] = <<>>
    BY <1>2 DEF Backed, Conserved, NoLedger
  <2>2. IndexLocked(r) = 0
    BY <2>1, SumOverEmpty DEF IndexLocked
  <2> QED
    BY <1>2, <2>2 DEF EnsureLedger, LedgerOf, Conserved, NoLedger
<1> QED
  BY <1>1, <1>2

\* What reveal writes into the state of a bid.
LEMMA RevealedBid ==
  ASSUME NEW b \in BidState, NEW v \in Value
  PROVE  LET c == [b EXCEPT !.revealed_value = v, !.valid = v > 0]
         IN  /\ c \in BidState
             /\ c.commitment = b.commitment /\ c.escrow = b.escrow
             /\ c.revealed_value = v /\ c.valid = (v > 0) /\ c.settled = b.settled
<1> DEFINE c == [b EXCEPT !.revealed_value = v, !.valid = v > 0]
           d == [b EXCEPT !.revealed_value = v]
<1>1. d \in BidState /\ (v > 0) \in BOOLEAN
  BY DEF BidState
<1>2. c = [d EXCEPT !.valid = (v > 0)]
  OBVIOUS
<1>3. c \in BidState
  <2> HIDE DEF d
  <2> QED
    BY <1>1, <1>2 DEF BidState
<1>4. c.valid = (v > 0)
  BY DEF BidState
<1>5. /\ c.commitment = b.commitment /\ c.escrow = b.escrow
      /\ c.revealed_value = v /\ c.settled = b.settled
  BY DEF BidState
<1> QED
  BY <1>3, <1>4, <1>5

LEMMA RevealStep ==
  ASSUME IInv, NEW r \in RoundId, NEW a \in Account, NEW v \in Value, Reveal(r, a, v)
  PROVE  IInv'
<1>1. TypeOK /\ RoundInv(r)
  BY DEF IInv
<1>2. bid[r][a] \in BidState /\ v \in Int /\ v # None
  <2>1. bid[r][a] \in BidState
    BY <1>1 DEF TypeOK
  <2> QED
    BY <2>1, InputAssumption, NoneAssumption
<1> DEFINE b == [bid[r][a] EXCEPT !.revealed_value = v, !.valid = v > 0]
<1>3. /\ b \in BidState
      /\ b.commitment = bid[r][a].commitment /\ b.escrow = bid[r][a].escrow
      /\ b.revealed_value = v /\ b.valid = (v > 0) /\ b.settled = bid[r][a].settled
  BY <1>2, RevealedBid
<1>4. /\ bid'[r][a] = b
      /\ \A x \in Account \ {a} : bid'[r][x] = bid[r][x]
      /\ \A q \in RoundId \ {r} : bid'[q] = bid[q]
      /\ bid' \in [RoundId -> [Account -> BidState]]
  <2>1. bid \in [RoundId -> [Account -> BidState]]
    BY <1>1 DEF TypeOK
  <2>2. bid' = [bid EXCEPT ![r] = [bid[r] EXCEPT ![a] = b]]
    BY <2>1 DEF Reveal
  <2> HIDE DEF b
  <2> QED
    BY <1>3, <2>1, <2>2
<1> HIDE DEF b
<1>5. EnsureLedger(r) \in EscrowLedger
  BY <1>1, EnsureLedgerType
<1>6. TypeOK'
  BY <1>1, <1>4, <1>5 DEF Reveal, TypeOK, clock, outcome, tokens
<1>7. /\ status[r] = "Revealing" /\ status' = status
      /\ bidders' = bidders /\ ledger'[r] = EnsureLedger(r) /\ terms' = terms
      /\ winner' = winner /\ winning_bid' = winning_bid /\ counter' = counter
      /\ published' = published /\ now' = now /\ held' = held
      /\ v = bid[r][a].commitment /\ v <= bid[r][a].escrow
  BY <1>1 DEF Reveal, Opens, TypeOK, clock, outcome, tokens
<1>8. \A q \in RoundId \ {r} : SameRound(q)
  BY <1>1, <1>4, <1>7 DEF Reveal, TypeOK, SameRound
<1>9. Indexed(r)' = Indexed(r)
  BY <1>7 DEF Indexed
<1>10. IndexLocked(r)' = IndexLocked(r)
  <2>1. \A x \in Account : Owed(r)'[x] = Owed(r)[x]
    BY <1>3, <1>4 DEF Owed
  <2> QED
    BY <1>1, <1>7, <2>1, IndexedInAccount, IndexLockedUnchanged
<1>11. RoundInv(r)'
  <2>1. CreatedInv(r)'
    BY <1>1, <1>7 DEF RoundInv, CreatedInv
  <2>2. IndexInv(r)'
    <3>1. a \in Indexed(r)
      BY <1>1 DEF Reveal, RoundInv, IndexInv
    <3>2. \A x \in Account : bid'[r][x].escrow = bid[r][x].escrow
                              /\ bid'[r][x].settled = bid[r][x].settled
      BY <1>3, <1>4
    <3>3. Indexed(r) \subseteq Account
      BY <1>1, IndexedInAccount
    <3> QED
      BY <1>1, <1>4, <1>7, <1>9, <3>1, <3>2, <3>3 DEF RoundInv, IndexInv, Terminal
  <2>3. Backed(r)'
    BY <1>1, <1>7, <1>10, EnsureLedgerBacked DEF RoundInv, Backed, Conserved
  <2>4. RevealInv(r)'
    BY <1>1, <1>2, <1>3, <1>4, <1>7 DEF RoundInv, RevealInv
  <2>5. (\A x \in Account : SealedReveal(r, x))'
    BY <1>1, <1>2, <1>3, <1>4, <1>7 DEF RoundInv, SealedReveal, OpenedInv
  <2>6. OutcomeInv(r)'
    BY <1>1, <1>7, EnsureLedgerBacked DEF RoundInv, OutcomeInv
  <2>7. OpenedInv(r)'
    BY <1>1, <1>7 DEF RoundInv, OpenedInv
  <2> QED
    BY <2>1, <2>2, <2>3, <2>4, <2>5, <2>6, <2>7 DEF RoundInv
<1>12. BeaconInv'
  BY <1>7 DEF IInv, BeaconInv, TimeOfRound
<1>13. held' = held - IndexLocked(r) + IndexLocked(r)'
  <2>1. held \in Nat /\ IndexLocked(r) \in Nat
    BY <1>1, OwedType DEF TypeOK
  <2> QED
    BY <1>7, <1>10, <2>1
<1> QED
  BY <1>6, <1>7, <1>8, <1>11, <1>12, <1>13, OneRoundStep
-----------------------------------------------------------------------------
(***************************************************************************)
(* Paying a round out: every indexed bid settled, nothing locked.          *)
(***************************************************************************)
LEMMA MarkSettledBids ==
  ASSUME TypeOK, NEW r \in RoundId, MarkSettled(r), bidders' = bidders
  PROVE  /\ bid' \in [RoundId -> [Account -> BidState]]
         /\ \A q \in RoundId \ {r} : bid'[q] = bid[q]
         /\ \A a \in Account :
              /\ bid'[r][a].commitment = bid[r][a].commitment
              /\ bid'[r][a].escrow = bid[r][a].escrow
              /\ bid'[r][a].revealed_value = bid[r][a].revealed_value
              /\ bid'[r][a].valid = bid[r][a].valid
         /\ \A a \in Indexed(r) : bid'[r][a].settled
         /\ \A a \in Account \ Indexed(r) : bid'[r][a] = bid[r][a]
         /\ Indexed(r)' = Indexed(r)
         /\ IndexLocked(r)' = 0
<1>1. bid \in [RoundId -> [Account -> BidState]] /\ bidders[r] \in Seq(Account)
  BY DEF TypeOK
<1> DEFINE f == [a \in Account |-> IF a \in Indexed(r)
                                   THEN [bid[r][a] EXCEPT !.settled = TRUE] ELSE bid[r][a]]
<1>2. bid' = [bid EXCEPT ![r] = f]
  BY DEF MarkSettled
<1>3. \A a \in Account :
        /\ f[a] \in BidState
        /\ f[a].commitment = bid[r][a].commitment
        /\ f[a].escrow = bid[r][a].escrow
        /\ f[a].revealed_value = bid[r][a].revealed_value
        /\ f[a].valid = bid[r][a].valid
        /\ a \in Indexed(r) => f[a].settled
        /\ a \notin Indexed(r) => f[a] = bid[r][a]
  <2> SUFFICES ASSUME NEW a \in Account
               PROVE  /\ f[a] \in BidState
                      /\ f[a].commitment = bid[r][a].commitment
                      /\ f[a].escrow = bid[r][a].escrow
                      /\ f[a].revealed_value = bid[r][a].revealed_value
                      /\ f[a].valid = bid[r][a].valid
                      /\ a \in Indexed(r) => f[a].settled
                      /\ a \notin Indexed(r) => f[a] = bid[r][a]
    OBVIOUS
  <2>1. bid[r][a] \in BidState
    BY <1>1
  <2>2. CASE a \in Indexed(r)
    <3>1. f[a] = [bid[r][a] EXCEPT !.settled = TRUE]
      BY <2>2
    <3> QED
      BY <2>1, <2>2, <3>1 DEF BidState
  <2>3. CASE a \notin Indexed(r)
    BY <2>1, <2>3
  <2> QED
    BY <2>2, <2>3
<1> HIDE DEF f
<1>4. f \in [Account -> BidState]
  BY <1>3 DEF f
<1>5. /\ bid' \in [RoundId -> [Account -> BidState]]
      /\ bid'[r] = f
      /\ \A q \in RoundId \ {r} : bid'[q] = bid[q]
  BY <1>1, <1>2, <1>4
<1>6. Indexed(r)' = Indexed(r) /\ Indexed(r) \subseteq Account
  BY IndexedInAccount DEF Indexed
<1>7. IndexLocked(r)' = 0
  <2>1. \A a \in Indexed(r) : Owed(r)'[a] = 0
    BY <1>3, <1>5, <1>6 DEF Owed
  <2>2. \A k \in 1 .. Len(bidders[r]) : Owed(r)'[bidders[r][k]] = 0
    BY <2>1, IndexedInAccount
  <2>3. SumOver(Owed(r)', bidders[r]) = 0
    BY <1>1, <2>2, SumOverAllZero
  <2> QED
    BY <2>3 DEF IndexLocked
<1> QED
  BY <1>3, <1>5, <1>6, <1>7

\* What refund_all guarantees when it returns Ok.
LEMMA RefundAllPays ==
  ASSUME TypeOK, NEW r \in RoundId, RefundAll(r), bidders' = bidders
  PROVE  /\ balance' \in [Account -> Nat] /\ held' \in Nat
         /\ ledger' \in [RoundId -> EscrowLedger]
         /\ \A q \in RoundId \ {r} : ledger'[q] = ledger[q]
         /\ Conserved(ledger'[r]) /\ ledger'[r].locked = 0 /\ ledger'[r].payout = 0
         /\ held' = held - IndexLocked(r)
<1>1. Owed(r) \in [Account -> Nat] /\ IndexLocked(r) \in Nat
  BY OwedType
<1>2. EnsureLedger(r) \in EscrowLedger
  BY EnsureLedgerType
<1> DEFINE l == Refund(EnsureLedger(r), IndexLocked(r))
<1>3. l \in EscrowLedger /\ l.payout = EnsureLedger(r).payout
  BY <1>1, <1>2, RefundFlows
<1>4. Conserved(l) /\ l.locked = 0 /\ EnsureLedger(r).payout = 0 /\ held >= IndexLocked(r)
  BY DEF RefundAll, RefundAllAccepted, NothingPaidOut
<1>5. /\ ledger' = [ledger EXCEPT ![r] = l]
      /\ balance' = [a \in Account |-> balance[a] + RefundTo(r, a)]
      /\ held' = held - IndexLocked(r)
  BY DEF RefundAll
<1>6. \A a \in Account : RefundTo(r, a) \in Nat
  BY <1>1 DEF RefundTo
<1>7. balance' \in [Account -> Nat] /\ held' \in Nat
  BY <1>1, <1>4, <1>5, <1>6 DEF TypeOK
<1> HIDE DEF l
<1> QED
  BY <1>3, <1>4, <1>5, <1>7 DEF TypeOK

\* A round that a step voids, refunding everyone, keeps the invariant when no
\* valid bid was revealed in it.
LEMMA VoidedRoundStep ==
  ASSUME IInv, NEW r \in RoundId, status[r] \in {"Open", "Revealing"},
         status' = [status EXCEPT ![r] = "Voided"], RefundAll(r),
         UNCHANGED <<clock, counter, terms, bidders, outcome>>,
         \A a \in Indexed(r) : ~bid[r][a].valid
  PROVE  IInv'
<1>1. TypeOK /\ RoundInv(r)
  BY DEF IInv
<1>2. /\ bidders' = bidders /\ terms' = terms /\ counter' = counter
      /\ winner' = winner /\ winning_bid' = winning_bid
      /\ published' = published /\ now' = now /\ MarkSettled(r)
      /\ status'[r] = "Voided" /\ \A q \in RoundId \ {r} : status'[q] = status[q]
  BY <1>1 DEF clock, outcome, RefundAll, TypeOK
<1>3. /\ bid' \in [RoundId -> [Account -> BidState]]
      /\ \A q \in RoundId \ {r} : bid'[q] = bid[q]
      /\ \A a \in Account :
           /\ bid'[r][a].commitment = bid[r][a].commitment
           /\ bid'[r][a].escrow = bid[r][a].escrow
           /\ bid'[r][a].revealed_value = bid[r][a].revealed_value
           /\ bid'[r][a].valid = bid[r][a].valid
      /\ \A a \in Indexed(r) : bid'[r][a].settled
      /\ \A a \in Account \ Indexed(r) : bid'[r][a] = bid[r][a]
      /\ Indexed(r)' = Indexed(r)
      /\ IndexLocked(r)' = 0
  BY <1>1, <1>2, MarkSettledBids
<1>4. /\ balance' \in [Account -> Nat] /\ held' \in Nat
      /\ ledger' \in [RoundId -> EscrowLedger]
      /\ \A q \in RoundId \ {r} : ledger'[q] = ledger[q]
      /\ Conserved(ledger'[r]) /\ ledger'[r].locked = 0 /\ ledger'[r].payout = 0
      /\ held' = held - IndexLocked(r)
  BY <1>1, <1>2, RefundAllPays
<1>5. TypeOK'
  BY <1>1, <1>2, <1>3, <1>4 DEF TypeOK, Status
<1>6. \A q \in RoundId \ {r} : SameRound(q)
  BY <1>2, <1>3, <1>4 DEF SameRound
<1>7. Indexed(r) \subseteq Account
  BY <1>1, IndexedInAccount
<1>8. RoundInv(r)'
  <2>1. CreatedInv(r)'
    BY <1>1, <1>2 DEF RoundInv, CreatedInv
  <2>2. IndexInv(r)'
    BY <1>1, <1>2, <1>3, <1>7 DEF RoundInv, IndexInv, Terminal
  <2>3. Backed(r)'
    BY <1>3, <1>4 DEF Backed, Conserved
  <2>4. RevealInv(r)'
    BY <1>1, <1>2, <1>3 DEF RoundInv, RevealInv
  <2>5. (\A a \in Account : SealedReveal(r, a))'
    BY <1>1, <1>2, <1>3 DEF RoundInv, SealedReveal
  <2>6. OutcomeInv(r)'
    BY <1>1, <1>2, <1>3, <1>4, <1>7 DEF RoundInv, OutcomeInv, HarmlessVoid
  <2>7. OpenedInv(r)'
    BY <1>2 DEF OpenedInv
  <2> QED
    BY <2>1, <2>2, <2>3, <2>4, <2>5, <2>6, <2>7 DEF RoundInv
<1>9. BeaconInv'
  BY <1>2 DEF IInv, BeaconInv, TimeOfRound
<1>10. held' = held - IndexLocked(r) + IndexLocked(r)'
  <2>1. held \in Nat /\ IndexLocked(r) \in Nat
    BY <1>1, OwedType DEF TypeOK
  <2> QED
    BY <1>3, <1>4, <2>1
<1> QED
  BY <1>2, <1>5, <1>6, <1>8, <1>9, <1>10, OneRoundStep

LEMMA VoidStep == ASSUME IInv, NEW r \in RoundId, Void(r) PROVE IInv'
<1>1. TypeOK /\ RoundInv(r) /\ status[r] = "Open"
  BY DEF IInv, Void, Voidable
<1>2. Indexed(r) \subseteq Account
  BY <1>1, IndexedInAccount
<1>3. \A a \in Indexed(r) : ~bid[r][a].valid
  BY <1>1, <1>2 DEF RoundInv, RevealInv
<1> QED
  BY <1>1, <1>3, VoidedRoundStep DEF Void

\* A revealed value is an integer.
LEMMA RevealedInt ==
  \A b \in BidState : /\ b.revealed_value # None => b.revealed_value \in Int
                      /\ b.escrow \in Int
<1> TAKE b \in BidState
<1>1. b.revealed_value \in Value \cup {None} /\ b.escrow \in Nat
  BY DEF BidState
<1>2. Value \subseteq Int
  BY InputAssumption
<1>3. b.escrow \in Int
  BY <1>1
<1>4. b.revealed_value # None => b.revealed_value \in Value
  BY <1>1
<1>5. b.revealed_value # None => b.revealed_value \in Int
  BY <1>2, <1>4
<1> QED
  BY <1>3, <1>5

\* clear, when some bid is eligible: the winner is the best one.
LEMMA ClearedRoundStep ==
  ASSUME IInv, NEW r \in RoundId, status[r] = "Revealing", BestBidder(r) # None,
         status' = [status EXCEPT ![r] = "Cleared"],
         winner' = [winner EXCEPT ![r] = BestBidder(r)],
         winning_bid' = [winning_bid EXCEPT ![r] = bid[r][BestBidder(r)].revealed_value],
         UNCHANGED <<bid, ledger, tokens, clock, counter, terms, bidders>>
  PROVE  IInv'
<1>1. TypeOK /\ RoundInv(r)
  BY DEF IInv
<1> DEFINE w == BestBidder(r)
           n == Len(bidders[r])
<1>2. PICK i \in 1 .. n :
        /\ w = bidders[r][i]
        /\ Eligible(r, w)
        /\ \A j \in 1 .. n : Eligible(r, bidders[r][j]) =>
              /\ ~Better(terms[r].clearing_rule, ValueAt(r, j), bid[r][w].revealed_value)
              /\ ValueAt(r, j) = bid[r][w].revealed_value => i <= j
  BY <1>1, BestBidderIsBest DEF BestOfFirst
<1>3. w \in Indexed(r) /\ w \in Account /\ DOMAIN bidders[r] = 1 .. n
  BY <1>1, <1>2, IndexedInAccount
<1>4. /\ bid[r][w].revealed_value = bid[r][w].commitment
      /\ bid[r][w].revealed_value \in 1 .. bid[r][w].escrow
  <2>1. bid[r][w] \in BidState
    BY <1>1, <1>3 DEF TypeOK
  <2>2. bid[r][w].revealed_value \in Int /\ bid[r][w].escrow \in Int
    <3>1. bid[r][w].revealed_value # None
      BY <1>2 DEF Eligible
    <3> QED
      BY <2>1, <3>1, RevealedInt
  <2>3. bid[r][w].revealed_value > 0 /\ SealedReveal(r, w)
    BY <1>1, <1>2, <1>3 DEF RoundInv, RevealInv, Eligible
  <2> QED
    BY <1>2, <2>2, <2>3 DEF SealedReveal, Eligible
<1>5. \A j \in 1 .. n : ValidAt(r, j) => Eligible(r, bidders[r][j])
  <2> SUFFICES ASSUME NEW j \in 1 .. n, ValidAt(r, j) PROVE Eligible(r, bidders[r][j])
    OBVIOUS
  <2>1. bidders[r][j] \in Indexed(r) /\ bidders[r][j] \in Account
    BY <1>1, IndexedInAccount
  <2>2. bid[r][bidders[r][j]].escrow > 0 /\ bid[r][bidders[r][j]].revealed_value # None
    BY <1>1, <2>1 DEF RoundInv, IndexInv, RevealInv, ValidAt
  <2>3. bid[r][bidders[r][j]] # NoBid
    BY <2>2 DEF NoBid
  <2> QED
    BY <2>2, <2>3 DEF Eligible, ValidAt
<1>6. /\ bidders' = bidders /\ bid' = bid /\ ledger' = ledger /\ terms' = terms
      /\ counter' = counter /\ published' = published /\ now' = now
      /\ held' = held /\ balance' = balance
      /\ status'[r] = "Cleared" /\ winner'[r] = w
      /\ winning_bid'[r] = bid[r][w].revealed_value
      /\ \A q \in RoundId \ {r} : /\ status'[q] = status[q] /\ winner'[q] = winner[q]
                                  /\ winning_bid'[q] = winning_bid[q]
  BY <1>1 DEF TypeOK, clock, tokens
<1> HIDE DEF w, n
<1>7. TypeOK'
  BY <1>1, <1>3, <1>4, <1>6 DEF TypeOK, Status, w
<1>8. \A q \in RoundId \ {r} : SameRound(q)
  BY <1>6 DEF SameRound
<1>9. Indexed(r)' = Indexed(r) /\ IndexLocked(r)' = IndexLocked(r)
  BY <1>6 DEF Indexed, IndexLocked, Owed
<1>10. WonByBest(r)'
  <2>1. \A j \in 1 .. n : ValidAt(r, j)' = ValidAt(r, j) /\ ValueAt(r, j)' = ValueAt(r, j)
    BY <1>6 DEF ValidAt, ValueAt
  <2>2. DOMAIN bidders'[r] = 1 .. n /\ i \in 1 .. n /\ bidders'[r][i] = w
    BY <1>2, <1>3, <1>6
  <2>3. /\ winner'[r] = w /\ winning_bid'[r] = bid'[r][w].commitment
        /\ winning_bid'[r] \in 1 .. bid'[r][w].escrow
        /\ terms' = terms /\ winning_bid'[r] = bid[r][w].revealed_value
    BY <1>4, <1>6
  <2>4. ASSUME NEW j \in 1 .. n, ValidAt(r, j)'
        PROVE  /\ ~Better(terms'[r].clearing_rule, ValueAt(r, j)', winning_bid'[r])
               /\ ValueAt(r, j)' = winning_bid'[r] => i <= j
    <3>1. Eligible(r, bidders[r][j])
      BY <1>5, <2>1, <2>4
    <3> QED
      BY <1>2, <2>1, <2>3, <3>1
  <2> QED
    BY <2>2, <2>3, <2>4 DEF WonByBest
<1>11. RoundInv(r)'
  <2>1. CreatedInv(r)'
    BY <1>1, <1>6 DEF RoundInv, CreatedInv
  <2>2. IndexInv(r)'
    BY <1>1, <1>6, <1>9 DEF RoundInv, IndexInv, Terminal
  <2>3. Backed(r)'
    BY <1>1, <1>6, <1>9 DEF RoundInv, Backed, Conserved
  <2>4. RevealInv(r)'
    BY <1>1, <1>6 DEF RoundInv, RevealInv
  <2>5. (\A a \in Account : SealedReveal(r, a))'
    BY <1>1, <1>6 DEF RoundInv, SealedReveal
  <2>6. OutcomeInv(r)'
    BY <1>1, <1>6, <1>10 DEF RoundInv, OutcomeInv
  <2>7. OpenedInv(r)'
    BY <1>1, <1>6 DEF RoundInv, OpenedInv
  <2> QED
    BY <2>1, <2>2, <2>3, <2>4, <2>5, <2>6, <2>7 DEF RoundInv
<1>12. BeaconInv'
  BY <1>6 DEF IInv, BeaconInv, TimeOfRound
<1>13. held' = held - IndexLocked(r) + IndexLocked(r)'
  <2>1. held \in Nat /\ IndexLocked(r) \in Nat
    BY <1>1, OwedType DEF TypeOK
  <2> QED
    BY <1>6, <1>9, <2>1
<1> QED
  BY <1>6, <1>7, <1>8, <1>11, <1>12, <1>13, OneRoundStep

LEMMA ClearActionStep == ASSUME IInv, NEW r \in RoundId, Clear(r) PROVE IInv'
<1>1. TypeOK /\ RoundInv(r) /\ status[r] = "Revealing"
  BY DEF IInv, Clear, Clearable
<1>2. CASE BestBidder(r) # None
  BY <1>1, <1>2, ClearedRoundStep DEF Clear
<1>3. CASE BestBidder(r) = None
  <2>1. \A j \in 1 .. Len(bidders[r]) : ~Eligible(r, bidders[r][j])
    <3>1. \A a \in Indexed(r) : a # None
      BY <1>1, IndexedInAccount, NoneAssumption
    <3> QED
      BY <1>1, <1>3, <3>1, BestBidderIsBest, IndexedInAccount DEF BestOfFirst
  <2>2. \A a \in Indexed(r) : ~bid[r][a].valid
    <3> SUFFICES ASSUME NEW a \in Indexed(r), bid[r][a].valid PROVE FALSE
      OBVIOUS
    <3>1. a \in Account /\ ~Eligible(r, a)
      BY <1>1, <2>1, IndexedInAccount
    <3>2. bid[r][a].escrow > 0 /\ bid[r][a].revealed_value # None
      BY <1>1, <3>1 DEF RoundInv, IndexInv, RevealInv
    <3>3. bid[r][a] # NoBid
      BY <3>2 DEF NoBid
    <3> QED
      BY <3>1, <3>2, <3>3 DEF Eligible
  <2>3. /\ status' = [status EXCEPT ![r] = "Voided"] /\ RefundAll(r)
        /\ UNCHANGED <<clock, counter, terms, bidders, outcome>>
    BY <1>3 DEF Clear
  <2> QED
    BY <1>1, <2>2, <2>3, VoidedRoundStep
<1> QED
  BY <1>2, <1>3
-----------------------------------------------------------------------------
(***************************************************************************)
(* settle.                                                                 *)
(***************************************************************************)

\* The winning bid of a cleared round is positive and covered by its escrow.
LEMMA WinnerCovered ==
  ASSUME TypeOK, NEW r \in RoundId, RoundInv(r), status[r] = "Cleared"
  PROVE  /\ winner[r] \in Indexed(r) /\ winner[r] \in Account
         /\ winning_bid[r] \in Nat /\ bid[r][winner[r]].escrow \in Nat
         /\ winning_bid[r] <= bid[r][winner[r]].escrow
<1>1. PICK i \in DOMAIN bidders[r] :
        /\ winner[r] = bidders[r][i]
        /\ winning_bid[r] \in 1 .. bid[r][winner[r]].escrow
  BY DEF RoundInv, OutcomeInv, WonByBest
<1>2. winner[r] \in Indexed(r) /\ winner[r] \in Account
  BY <1>1, IndexedInAccount
<1>3. bid[r][winner[r]] \in BidState
  BY <1>2 DEF TypeOK
<1>4. bid[r][winner[r]].escrow \in Nat
  BY <1>3 DEF BidState
<1> QED
  BY <1>1, <1>2, <1>4

\* Every refund settle plans is a non-negative amount.
LEMMA SettleRefundType ==
  ASSUME TypeOK, NEW r \in RoundId, RoundInv(r), status[r] = "Cleared"
  PROVE  SettleRefund(r) \in [Account -> Nat] /\ RefundTotal(r) \in Nat
<1>1. Owed(r) \in [Account -> Nat] /\ bidders[r] \in Seq(Account)
  BY OwedType DEF TypeOK
<1>2. bid[r][winner[r]].escrow - winning_bid[r] \in Nat
  BY WinnerCovered
<1>3. SettleRefund(r) \in [Account -> Nat]
  BY <1>1, <1>2 DEF SettleRefund
<1> QED
  BY <1>1, <1>3, SumOverNat DEF RefundTotal

\* What settle guarantees when it returns Ok.
LEMMA SettlePays ==
  ASSUME TypeOK, NEW r \in RoundId, RoundInv(r), Settle(r)
  PROVE  /\ balance' \in [Account -> Nat] /\ held' \in Nat
         /\ ledger' \in [RoundId -> EscrowLedger]
         /\ \A q \in RoundId \ {r} : ledger'[q] = ledger[q]
         /\ Conserved(ledger'[r]) /\ ledger'[r].locked = 0
         /\ held' = held - IndexLocked(r)
<1>1. status[r] = "Cleared" /\ SettleAccepted(r)
  BY DEF Settle
<1>2. /\ SettleRefund(r) \in [Account -> Nat] /\ RefundTotal(r) \in Nat
      /\ winning_bid[r] \in Nat /\ IndexLocked(r) \in Nat
  BY <1>1, SettleRefundType, WinnerCovered, OwedType
<1>3. SettledLedger(r) \in EscrowLedger
  <2>1. EnsureLedger(r) \in EscrowLedger
    BY EnsureLedgerType
  <2>2. Refund(EnsureLedger(r), RefundTotal(r)) \in EscrowLedger
    BY <1>2, <2>1, RefundFlows
  <2>3. winning_bid[r] \in Int
    BY <1>2
  <2>4. PayOperator(Refund(EnsureLedger(r), RefundTotal(r)), winning_bid[r]) \in EscrowLedger
    BY <2>2, <2>3, PayOperatorFlows
  <2> QED
    BY <2>4 DEF SettledLedger
<1>4. Conserved(SettledLedger(r)) /\ SettledLedger(r).locked = 0
  BY <1>1 DEF SettleAccepted
<1>5. held' = held - IndexLocked(r) /\ held' \in Nat
  <2>1. /\ winning_bid[r] + RefundTotal(r) = IndexLocked(r) /\ held >= IndexLocked(r)
        /\ held' = held - winning_bid[r] - RefundTotal(r) /\ held \in Nat
    BY <1>1 DEF SettleAccepted, Settle, TypeOK
  <2> QED
    BY <1>2, <2>1
<1>6. balance' \in [Account -> Nat]
  <2>1. \A a \in Account : OperatorPay(r, a) \in Nat
    BY <1>2 DEF OperatorPay
  <2>2. \A a \in Account : SettleRefund(r)[a] \in Nat /\ balance[a] \in Nat
    BY <1>2 DEF TypeOK
  <2>3. balance' = [a \in Account |->
                      balance[a]
                      + (IF a \in Indexed(r) THEN SettleRefund(r)[a] ELSE 0)
                      + OperatorPay(r, a)]
    BY DEF Settle
  <2> QED
    BY <2>1, <2>2, <2>3
<1>7. ledger' = [ledger EXCEPT ![r] = SettledLedger(r)]
  BY DEF Settle
<1> QED
  BY <1>3, <1>4, <1>5, <1>6, <1>7 DEF TypeOK

LEMMA SettleStep == ASSUME IInv, NEW r \in RoundId, Settle(r) PROVE IInv'
<1>1. TypeOK /\ RoundInv(r) /\ status[r] = "Cleared"
  BY DEF IInv, Settle
<1>2. /\ bidders' = bidders /\ terms' = terms /\ counter' = counter
      /\ winner' = winner /\ winning_bid' = winning_bid
      /\ published' = published /\ now' = now /\ MarkSettled(r)
      /\ status'[r] = "Settled" /\ \A q \in RoundId \ {r} : status'[q] = status[q]
      /\ status' \in [RoundId -> Status]
  BY <1>1 DEF clock, outcome, Settle, TypeOK, Status
<1>3. /\ bid' \in [RoundId -> [Account -> BidState]]
      /\ \A q \in RoundId \ {r} : bid'[q] = bid[q]
      /\ \A a \in Account :
           /\ bid'[r][a].commitment = bid[r][a].commitment
           /\ bid'[r][a].escrow = bid[r][a].escrow
           /\ bid'[r][a].revealed_value = bid[r][a].revealed_value
           /\ bid'[r][a].valid = bid[r][a].valid
      /\ \A a \in Indexed(r) : bid'[r][a].settled
      /\ \A a \in Account \ Indexed(r) : bid'[r][a] = bid[r][a]
      /\ Indexed(r)' = Indexed(r)
      /\ IndexLocked(r)' = 0
  BY <1>1, <1>2, MarkSettledBids
<1>4. /\ balance' \in [Account -> Nat] /\ held' \in Nat
      /\ ledger' \in [RoundId -> EscrowLedger]
      /\ \A q \in RoundId \ {r} : ledger'[q] = ledger[q]
      /\ Conserved(ledger'[r]) /\ ledger'[r].locked = 0
      /\ held' = held - IndexLocked(r)
  BY <1>1, SettlePays
<1>5. TypeOK'
  BY <1>1, <1>2, <1>3, <1>4 DEF TypeOK
<1>6. \A q \in RoundId \ {r} : SameRound(q)
  BY <1>2, <1>3, <1>4 DEF SameRound
<1>7. Indexed(r) \subseteq Account
  BY <1>1, IndexedInAccount
<1>8. WonByBest(r)'
  <2>1. WonByBest(r) /\ winner[r] \in Account
    BY <1>1, WinnerCovered DEF RoundInv, OutcomeInv
  <2>2. \A j \in DOMAIN bidders[r] :
           ValidAt(r, j)' = ValidAt(r, j) /\ ValueAt(r, j)' = ValueAt(r, j)
    BY <1>1, <1>2, <1>3, IndexedInAccount DEF ValidAt, ValueAt
  <2>3. /\ bid'[r][winner[r]].commitment = bid[r][winner[r]].commitment
        /\ bid'[r][winner[r]].escrow = bid[r][winner[r]].escrow
    BY <1>3, <2>1
  <2> QED
    BY <1>2, <2>1, <2>2, <2>3 DEF WonByBest
<1>9. RoundInv(r)'
  <2>1. CreatedInv(r)'
    BY <1>1, <1>2 DEF RoundInv, CreatedInv
  <2>2. IndexInv(r)'
    BY <1>1, <1>2, <1>3, <1>7 DEF RoundInv, IndexInv, Terminal
  <2>3. Backed(r)'
    BY <1>3, <1>4 DEF Backed, Conserved
  <2>4. RevealInv(r)'
    BY <1>1, <1>2, <1>3 DEF RoundInv, RevealInv
  <2>5. (\A a \in Account : SealedReveal(r, a))'
    BY <1>1, <1>2, <1>3 DEF RoundInv, SealedReveal
  <2>6. OutcomeInv(r)'
    BY <1>2, <1>8 DEF OutcomeInv
  <2>7. OpenedInv(r)'
    BY <1>1, <1>2 DEF RoundInv, OpenedInv
  <2> QED
    BY <2>1, <2>2, <2>3, <2>4, <2>5, <2>6, <2>7 DEF RoundInv
<1>10. BeaconInv'
  BY <1>2 DEF IInv, BeaconInv, TimeOfRound
<1>11. held' = held - IndexLocked(r) + IndexLocked(r)'
  <2>1. held \in Nat /\ IndexLocked(r) \in Nat
    BY <1>1, OwedType DEF TypeOK
  <2> QED
    BY <1>3, <1>4, <2>1
<1> QED
  BY <1>2, <1>5, <1>6, <1>9, <1>10, <1>11, OneRoundStep
-----------------------------------------------------------------------------
(***************************************************************************)
(* commit.                                                                 *)
(***************************************************************************)

\* What commit writes as the bid of account a.
CommittedBid(c, e) ==
    [commitment |-> c, escrow |-> e, revealed_value |-> None,
     valid |-> FALSE, settled |-> FALSE]

\* What an accepted commit changes, and what it leaves alone.
CommitEffect(r, a, c, e) ==
    /\ TypeOK /\ RoundInv(r) /\ status[r] = "Open"
    /\ e \in Nat /\ e > 0 /\ bid[r][a] \in BidState /\ bid[r][a].escrow \in Nat
    /\ status' = status /\ terms' = terms /\ counter' = counter
    /\ winner' = winner /\ winning_bid' = winning_bid
    /\ published' = published /\ now' = now
    /\ bid'[r][a] = CommittedBid(c, e)
    /\ \A x \in Account \ {a} : bid'[r][x] = bid[r][x]
    /\ \A q \in RoundId \ {r} : bid'[q] = bid[q]
    /\ bid' \in [RoundId -> [Account -> BidState]]
    /\ bidders' \in [RoundId -> Seq(Account)]
    /\ bidders'[r] = IndexAfter(r, a)
    /\ \A q \in RoundId \ {r} : bidders'[q] = bidders[q]
    /\ held' = held + (e - bid[r][a].escrow) /\ held' \in Nat
    /\ balance' \in [Account -> Nat]
    /\ ledger' = [ledger EXCEPT
                    ![r] = Deposit(Refund(EnsureLedger(r), bid[r][a].escrow), e)]

LEMMA CommitFacts ==
  ASSUME IInv, NEW r \in RoundId, NEW a \in Account, NEW c \in Value \cup {None},
         NEW e \in Escrow, NEW s \in DrandRound, Commit(r, a, c, e, s)
  PROVE  CommitEffect(r, a, c, e)
<1>1. TypeOK /\ RoundInv(r) /\ status[r] = "Open"
  BY DEF IInv, Commit
<1>2. e \in Int /\ e > 0
  BY InputAssumption DEF Commit, AmountAccepted
<1>3. bid[r][a] \in BidState /\ bid[r][a].escrow \in Nat
  <2>1. bid[r][a] \in BidState
    BY <1>1 DEF TypeOK
  <2> QED
    BY <2>1 DEF BidState
<1>4. CommittedBid(c, e) \in BidState
  BY <1>2 DEF BidState, CommittedBid
<1>5. bid \in [RoundId -> [Account -> BidState]]
  BY <1>1 DEF TypeOK
<1>6. bid' = [bid EXCEPT ![r] = [bid[r] EXCEPT ![a] = CommittedBid(c, e)]]
  BY <1>5 DEF Commit, CommittedBid
<1>7. /\ bid'[r][a] = CommittedBid(c, e)
      /\ \A x \in Account \ {a} : bid'[r][x] = bid[r][x]
      /\ \A q \in RoundId \ {r} : bid'[q] = bid[q]
      /\ bid' \in [RoundId -> [Account -> BidState]]
  BY <1>4, <1>5, <1>6
<1>8. /\ bidders' \in [RoundId -> Seq(Account)]
      /\ bidders'[r] = IndexAfter(r, a)
      /\ \A q \in RoundId \ {r} : bidders'[q] = bidders[q]
  <2>1. bidders \in [RoundId -> Seq(Account)] /\ bidders[r] \in Seq(Account)
    BY <1>1 DEF TypeOK
  <2>2. IndexAfter(r, a) \in Seq(Account)
    BY <2>1 DEF IndexAfter
  <2>3. bidders' = [bidders EXCEPT ![r] = IndexAfter(r, a)]
    BY DEF Commit
  <2> QED
    BY <2>1, <2>2, <2>3
<1>9. held' = held + (e - bid[r][a].escrow) /\ held' \in Nat
  <2>1. held \in Nat /\ held >= bid[r][a].escrow /\ held' = held + (e - bid[r][a].escrow)
    BY <1>1 DEF TypeOK, Commit, NetEscrow
  <2> QED
    BY <1>2, <1>3, <2>1
<1>10. balance' \in [Account -> Nat]
  <2>1. /\ balance \in [Account -> Nat] /\ balance[a] + bid[r][a].escrow >= e
        /\ balance' = [balance EXCEPT ![a] = balance[a] - (e - bid[r][a].escrow)]
    BY <1>1 DEF TypeOK, Commit, NetEscrow
  <2>2. balance[a] - (e - bid[r][a].escrow) \in Nat
    BY <1>2, <1>3, <2>1
  <2> QED
    BY <2>1, <2>2
<1>11. ledger' = [ledger EXCEPT ![r] = Deposit(Refund(EnsureLedger(r), bid[r][a].escrow), e)]
  BY DEF Commit
<1>12. e \in Nat
  BY <1>2
<1> QED
  BY <1>1, <1>2, <1>3, <1>7, <1>8, <1>9, <1>10, <1>11, <1>12
     DEF CommitEffect, Commit, clock, outcome

\* A commit moves the escrow the round holds by exactly the net amount.
LEMMA CommitLocks ==
  ASSUME NEW r \in RoundId, NEW a \in Account, NEW c, NEW e, CommitEffect(r, a, c, e)
  PROVE  /\ IndexLocked(r)' = IndexLocked(r) - bid[r][a].escrow + e
         /\ Indexed(r)' = Indexed(r) \cup {a}
         /\ \A i, j \in 1 .. Len(bidders'[r]) : bidders'[r][i] = bidders'[r][j] => i = j
<1>1. /\ TypeOK /\ RoundInv(r) /\ status[r] = "Open"
      /\ e \in Nat /\ e > 0 /\ bid[r][a].escrow \in Nat
      /\ bid'[r][a] = CommittedBid(c, e)
      /\ \A x \in Account \ {a} : bid'[r][x] = bid[r][x]
      /\ bid' \in [RoundId -> [Account -> BidState]]
      /\ bidders'[r] = IndexAfter(r, a)
  BY DEF CommitEffect
<1> DEFINE t == bidders[r]
           f == [x \in Account |-> IF bid[r][x].settled THEN 0 ELSE bid[r][x].escrow]
           g == [x \in Account |-> IF bid'[r][x].settled THEN 0 ELSE bid'[r][x].escrow]
<1>2. IndexLocked(r) = SumOver(f, t) /\ IndexLocked(r)' = SumOver(g, bidders'[r])
  BY DEF IndexLocked, Owed
<1>3. t \in Seq(Account) /\ \A i, j \in 1 .. Len(t) : t[i] = t[j] => i = j
  BY <1>1 DEF TypeOK, RoundInv, IndexInv
<1>4. f \in [Account -> Nat] /\ g \in [Account -> Nat]
  <2>1. f \in [Account -> Nat]
    BY <1>1 DEF TypeOK, BidState
  <2>2. g \in [Account -> Nat]
    <3>1. \A x \in Account : bid'[r][x] \in BidState
      BY <1>1
    <3> QED
      BY <3>1 DEF BidState
  <2> QED
    BY <2>1, <2>2
<1>5. /\ f[a] = bid[r][a].escrow /\ g[a] = e
      /\ \A x \in Account \ {a} : g[x] = f[x]
  <2>1. ~bid[r][a].settled
    BY <1>1 DEF RoundInv, IndexInv, Terminal
  <2>2. ~bid'[r][a].settled /\ bid'[r][a].escrow = e
    BY <1>1 DEF CommittedBid
  <2> QED
    BY <1>1, <2>1, <2>2
<1>6. SumOver(f, t) \in Nat
  BY <1>3, <1>4, SumOverNat
<1>7. t = bidders[r] /\ \A x \in Indexed(r) : x \in Account /\ \E i \in 1 .. Len(t) : t[i] = x
  BY <1>1, IndexedInAccount
<1> HIDE DEF f, g, t
<1>8. CASE bid[r][a] = NoBid
  <2>1. bidders'[r] = Append(t, a) /\ bid[r][a].escrow = 0
    BY <1>1, <1>7, <1>8 DEF IndexAfter, NoBid
  <2>2. \A i \in 1 .. Len(t) : t[i] \in Account /\ t[i] # a
    <3> SUFFICES ASSUME NEW i \in 1 .. Len(t) PROVE t[i] \in Account /\ t[i] # a
      OBVIOUS
    <3>1. t[i] \in Indexed(r) /\ t[i] \in Account
      BY <1>1, <1>7, IndexedInAccount
    <3>2. bid[r][t[i]].escrow > 0
      BY <1>1, <3>1 DEF RoundInv, IndexInv
    <3> QED
      BY <2>1, <3>1, <3>2
  <2>3. \A i \in 1 .. Len(t) : g[t[i]] = f[t[i]]
    BY <1>5, <2>2
  <2>4. SumOver(g, Append(t, a)) = SumOver(g, t) + g[a]
    BY <1>3, SumOverAppend
  <2>5. SumOver(g, t) = SumOver(f, t)
    BY <1>3, <2>3, SumOverCongruence
  <2>6. IndexLocked(r)' = IndexLocked(r) - bid[r][a].escrow + e
    BY <1>1, <1>2, <1>5, <1>6, <2>1, <2>4, <2>5
  <2>7. /\ Len(Append(t, a)) = Len(t) + 1 /\ Len(t) \in Nat
        /\ Append(t, a)[Len(t) + 1] = a
        /\ \A i \in 1 .. Len(t) : Append(t, a)[i] = t[i]
    BY <1>3
  <2>8. \A i \in 1 .. Len(t) + 1 : i \in 1 .. Len(t) \/ i = Len(t) + 1
    BY <2>7
  <2>9. \A i, j \in 1 .. Len(t) + 1 : Append(t, a)[i] = Append(t, a)[j] => i = j
    BY <1>3, <2>2, <2>7, <2>8
  <2>10. Indexed(r)' = Indexed(r) \cup {a}
    <3>1. Indexed(r)' = {Append(t, a)[i] : i \in 1 .. Len(t) + 1}
      BY <1>3, <2>1, <2>7 DEF Indexed
    <3>2. Indexed(r) = {t[i] : i \in 1 .. Len(t)}
      BY <1>3, <1>7 DEF Indexed
    <3>3. Len(t) + 1 \in 1 .. Len(t) + 1 /\ \A i \in 1 .. Len(t) : i \in 1 .. Len(t) + 1
      BY <2>7
    <3> QED
      BY <2>7, <2>8, <3>1, <3>2, <3>3
  <2> QED
    BY <2>1, <2>6, <2>7, <2>9, <2>10
<1>9. CASE bid[r][a] # NoBid
  <2>1. bidders'[r] = t /\ a \in Indexed(r)
    BY <1>1, <1>7, <1>9 DEF IndexAfter, RoundInv, IndexInv
  <2>2. \E k \in 1 .. Len(t) : t[k] = a
    BY <1>7, <2>1
  <2>3. f \in [Account -> Int] /\ g \in [Account -> Int]
    BY <1>4
  <2>4. \A y \in Account : y # a => g[y] = f[y]
    BY <1>5
  <2>5. SumOver(g, t) = SumOver(f, t) - f[a] + g[a]
    <3>1. t \in Seq(Account) /\ ListsOnce(t, a)
      BY <1>3, <2>2 DEF ListsOnce
    <3>2. AgreeBut(Account, f, g, a)
      BY <2>4 DEF AgreeBut
    <3> QED
      BY ONLY <2>3, <3>1, <3>2, SumOverChangeOne
  <2>6. Indexed(r)' = Indexed(r)
    BY <1>7, <2>1 DEF Indexed
  <2> QED
    BY <1>2, <1>3, <1>5, <2>1, <2>2, <2>5, <2>6
<1> QED
  BY <1>8, <1>9

LEMMA CommitStep ==
  ASSUME IInv, NEW r \in RoundId, NEW a \in Account, NEW c \in Value \cup {None},
         NEW e \in Escrow, NEW s \in DrandRound, Commit(r, a, c, e, s)
  PROVE  IInv'
<1>0. CommitEffect(r, a, c, e)
  BY CommitFacts
<1>1. /\ TypeOK /\ RoundInv(r) /\ status[r] = "Open"
      /\ e \in Nat /\ e > 0 /\ bid[r][a].escrow \in Nat
      /\ status' = status /\ terms' = terms /\ counter' = counter
      /\ winner' = winner /\ winning_bid' = winning_bid
      /\ published' = published /\ now' = now
      /\ bid'[r][a] = CommittedBid(c, e)
      /\ \A x \in Account \ {a} : bid'[r][x] = bid[r][x]
      /\ \A q \in RoundId \ {r} : bid'[q] = bid[q]
      /\ bid' \in [RoundId -> [Account -> BidState]]
      /\ bidders' \in [RoundId -> Seq(Account)]
      /\ \A q \in RoundId \ {r} : bidders'[q] = bidders[q]
      /\ held' = held + (e - bid[r][a].escrow) /\ held' \in Nat
      /\ balance' \in [Account -> Nat]
      /\ ledger' = [ledger EXCEPT
                      ![r] = Deposit(Refund(EnsureLedger(r), bid[r][a].escrow), e)]
  BY <1>0 DEF CommitEffect
<1>2. /\ IndexLocked(r)' = IndexLocked(r) - bid[r][a].escrow + e
      /\ Indexed(r)' = Indexed(r) \cup {a}
      /\ \A i, j \in 1 .. Len(bidders'[r]) : bidders'[r][i] = bidders'[r][j] => i = j
  BY <1>0, CommitLocks
<1>3. /\ bid'[r][a].escrow = e /\ ~bid'[r][a].settled /\ ~bid'[r][a].valid
      /\ bid'[r][a].revealed_value = None
  BY <1>1 DEF CommittedBid
<1>4. PICK l : l = EnsureLedger(r)
  OBVIOUS
<1>5. l \in EscrowLedger /\ Conserved(l) /\ l.locked = IndexLocked(r) /\ l.payout = 0
  <2>1. ledger[r].payout = 0 /\ Backed(r)
    BY <1>1 DEF RoundInv, OutcomeInv
  <2> QED
    BY <1>1, <1>4, <2>1, EnsureLedgerType, EnsureLedgerBacked
<1>6. PICK m : m = Deposit(Refund(l, bid[r][a].escrow), e)
  OBVIOUS
<1>7. /\ m \in EscrowLedger /\ m.payout = 0 /\ m.locked = l.locked - bid[r][a].escrow + e
      /\ m.committed = l.committed + e /\ m.refunds = l.refunds + bid[r][a].escrow
  <2>1. PICK n : n = Refund(l, bid[r][a].escrow)
    OBVIOUS
  <2>2. bid[r][a].escrow \in Int /\ e \in Int
    BY <1>1
  <2>3. /\ n \in EscrowLedger /\ n.payout = 0 /\ n.committed = l.committed
        /\ n.locked = l.locked - bid[r][a].escrow
        /\ n.refunds = l.refunds + bid[r][a].escrow
    BY <1>5, <2>1, <2>2, RefundFlows
  <2>4. /\ m \in EscrowLedger /\ m.payout = n.payout /\ m.locked = n.locked + e
        /\ m.committed = n.committed + e /\ m.refunds = n.refunds
    BY <1>6, <2>1, <2>2, <2>3, DepositFlows
  <2> QED
    BY <2>3, <2>4
<1>8. TypeOK'
  <2>1. ledger' = [ledger EXCEPT ![r] = m] /\ ledger \in [RoundId -> EscrowLedger]
    BY <1>1, <1>4, <1>6 DEF TypeOK
  <2>2. ledger' \in [RoundId -> EscrowLedger]
    BY <1>7, <2>1
  <2> QED
    BY <1>1, <2>2 DEF TypeOK
<1>9. ledger'[r] = m /\ \A q \in RoundId \ {r} : ledger'[q] = ledger[q]
  BY <1>1, <1>4, <1>6 DEF TypeOK
<1>10. \A q \in RoundId \ {r} : SameRound(q)
  BY <1>1, <1>9 DEF SameRound
<1>11. RoundInv(r)'
  <2>1. CreatedInv(r)'
    BY <1>1 DEF RoundInv, CreatedInv
  <2>2. IndexInv(r)'
    <3>1. \A x \in Indexed(r)' : bid'[r][x].escrow > 0
      <4>1. \A x \in Indexed(r) : x \in Account /\ bid[r][x].escrow > 0
        BY <1>1, IndexedInAccount DEF RoundInv, IndexInv
      <4> QED
        BY <1>1, <1>2, <1>3, <4>1
    <3>2. \A x \in Account \ Indexed(r)' : bid'[r][x] = NoBid
      BY <1>1, <1>2 DEF RoundInv, IndexInv
    <3>3. \A x \in Account : ~bid'[r][x].settled
      BY <1>1, <1>3 DEF RoundInv, IndexInv, Terminal
    <3> QED
      BY <1>1, <1>2, <3>1, <3>2, <3>3 DEF IndexInv, Terminal
  <2>3. Backed(r)'
    <3>1. IndexLocked(r)' \in Nat /\ IndexLocked(r) \in Nat
      BY <1>1, <1>8, OwedType, OwedTypePrime
    <3>2. m.locked = IndexLocked(r)'
      BY <1>2, <1>5, <1>7
    <3>3. /\ l.committed \in Nat /\ l.refunds \in Nat /\ l.locked \in Nat
          /\ l.committed = l.refunds + l.locked
      BY <1>5 DEF Conserved, EscrowLedger
    <3>4. /\ m.committed \in Nat /\ m.refunds \in Nat /\ m.locked \in Nat
          /\ m.committed = m.refunds + m.locked
      <4>1. PICK x \in Nat : x = bid[r][a].escrow
        BY <1>1
      <4>2. /\ m.committed = l.committed + e /\ m.refunds = l.refunds + x
            /\ m.locked = l.locked - x + e /\ m.locked \in Nat /\ e \in Nat
        BY <1>1, <1>7, <3>1, <3>2, <4>1
      <4> QED
        BY ONLY <3>3, <4>1, <4>2
    <3>5. Conserved(m)
      BY <1>7, <3>4 DEF Conserved
    <3> QED
      BY <1>9, <3>2, <3>5 DEF Backed
  <2>4. RevealInv(r)'
    BY <1>1, <1>3 DEF RoundInv, RevealInv
  <2>5. (\A x \in Account : SealedReveal(r, x))'
    BY <1>1, <1>3 DEF RoundInv, SealedReveal
  <2>6. OutcomeInv(r)'
    BY <1>1, <1>7, <1>9 DEF RoundInv, OutcomeInv
  <2>7. OpenedInv(r)'
    BY <1>1 DEF RoundInv, OpenedInv
  <2> QED
    BY <2>1, <2>2, <2>3, <2>4, <2>5, <2>6, <2>7 DEF RoundInv
<1>12. BeaconInv'
  BY <1>1 DEF IInv, BeaconInv, TimeOfRound
<1>13. held' = held - IndexLocked(r) + IndexLocked(r)'
  <2>1. PICK x \in Nat : x = bid[r][a].escrow
    BY <1>1
  <2>2. PICK n \in Nat : n = IndexLocked(r)
    BY <1>1, OwedType
  <2>3. IndexLocked(r)' = n - x + e /\ held' = held + (e - x) /\ e \in Nat /\ held \in Nat
    BY <1>0, <1>2, <2>1, <2>2 DEF TypeOK, CommitEffect
  <2> QED
    BY <2>2, <2>3
<1> QED
  BY <1>1, <1>8, <1>10, <1>11, <1>12, <1>13, OneRoundStep
-----------------------------------------------------------------------------
(***************************************************************************)
(* The invariant holds in every reachable state.                           *)
(***************************************************************************)
LEMMA StepIInv == IInv /\ [Next]_vars => IInv'
<1> SUFFICES ASSUME IInv, [Next]_vars PROVE IInv'
  OBVIOUS
<1>1. CASE Tick
  BY <1>1, TickStep
<1>2. CASE \E R \in DrandRound : Publish(R)
  BY <1>2, PublishStep
<1>3. CASE \E t \in Terms : CreateRound(t)
  BY <1>3, CreateRoundStep
<1>4. CASE \E r \in RoundId, a \in Account, c \in Value \cup {None}, e \in Escrow,
              s \in DrandRound : Commit(r, a, c, e, s)
  BY <1>4, CommitStep
<1>5. CASE \E r \in RoundId : OpenReveal(r)
  BY <1>5, OpenRevealStep
<1>6. CASE \E r \in RoundId, a \in Account, v \in Value : Reveal(r, a, v)
  BY <1>6, RevealStep
<1>7. CASE \E r \in RoundId : Clear(r)
  BY <1>7, ClearActionStep
<1>8. CASE \E r \in RoundId : Settle(r)
  BY <1>8, SettleStep
<1>9. CASE \E r \in RoundId : Void(r)
  BY <1>9, VoidStep
<1>10. CASE UNCHANGED vars
  <2>1. TypeOK' /\ BeaconInv'
    BY <1>10 DEF IInv, TypeOK, BeaconInv, TimeOfRound, vars
  <2> QED
    BY <1>10, <2>1, NoRoundStep DEF vars, outcome
<1> QED
  BY <1>1, <1>2, <1>3, <1>4, <1>5, <1>6, <1>7, <1>8, <1>9, <1>10 DEF Next

\* The inductive invariant holds throughout every behaviour of the contract.
THEOREM InvariantHolds == Spec => []IInv
  BY InitIInv, StepIInv, PTL DEF Spec

\* Type correctness of contract storage and token balances: no token balance
\* ever goes negative (commit's transfers, settle, refund_all).
THEOREM TypesHold == Spec => []TypeOK
<1>1. IInv => TypeOK
  BY DEF IInv
<1> QED
  BY <1>1, InvariantHolds, PTL

\* Conservation (`conserved`, `prove_conserved`): the ledger of every round
\* matches its unsettled bids and the contract holds exactly all of them.
THEOREM EscrowIsBacked == Spec => []EscrowBacked
<1>1. IInv => EscrowBacked
  BY DEF IInv, EscrowBacked, HeldInv, RoundInv
<1> QED
  BY <1>1, InvariantHolds, PTL

\* The winner clear picked is the first of the best valid bids, and pays the
\* value it sealed, out of its own escrow.
THEOREM BestBidWins == Spec => []WinnerIsBest
<1>1. IInv => WinnerIsBest
  BY DEF IInv, WinnerIsBest, RoundInv, OutcomeInv
<1> QED
  BY <1>1, InvariantHolds, PTL

\* What reveal records is what was sealed, and only after Drand published.
THEOREM RevealsAreSealed == Spec => []RevealedIsSealed
<1>1. IInv => RevealedIsSealed
  BY DEF IInv, RevealedIsSealed, RoundInv
<1> QED
  BY <1>1, InvariantHolds, PTL

\* clear and void refund everyone and never discard a valid revealed bid.
THEOREM VoidsAreHarmless == Spec => []VoidedIsHarmless
<1>1. IInv => VoidedIsHarmless
  BY DEF IInv, VoidedIsHarmless, RoundInv, OutcomeInv
<1> QED
  BY <1>1, InvariantHolds, PTL
=============================================================================
