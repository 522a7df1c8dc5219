------------------------- MODULE RoundOutcomeProofs -------------------------
(***************************************************************************)
(* Further theorems about RoundContract, all from the inductive invariant  *)
(* of RoundContractProofs: what a step may never do to a round, that no    *)
(* payment is ever refused, that the books of every account balance, and   *)
(* that the contract implements SealedAuction.                             *)
(***************************************************************************)
EXTENDS RoundContractProofs, RoundRefinement

USE DEF RoundId
-----------------------------------------------------------------------------
(***************************************************************************)
(* A call on one round leaves every other round alone.                     *)
(***************************************************************************)
Untouched(r) ==
    /\ status'[r] = status[r] /\ bidders'[r] = bidders[r]
    /\ winner'[r] = winner[r] /\ winning_bid'[r] = winning_bid[r]
    /\ bid'[r] = bid[r] /\ ledger'[r] = ledger[r]

\* What the bids of a round keep when they are marked settled or not at all.
BidsKept(r) ==
    /\ bidders'[r] = bidders[r]
    /\ \A a \in Account : /\ bid'[r][a].commitment = bid[r][a].commitment
                          /\ bid'[r][a].escrow = bid[r][a].escrow
                          /\ bid'[r][a].revealed_value = bid[r][a].revealed_value

LEMMA CommitOthers ==
  ASSUME IInv, NEW q \in RoundId, NEW a \in Account, NEW c \in Value \cup {None},
         NEW e \in Escrow, NEW s \in DrandRound, Commit(q, a, c, e, s)
  PROVE  status[q] = "Open" /\ \A r \in RoundId \ {q} : Untouched(r)
<1>1. CommitEffect(q, a, c, e)
  BY CommitFacts
<1> QED
  BY <1>1 DEF CommitEffect, TypeOK, Untouched

LEMMA OpenRevealOthers ==
  ASSUME IInv, NEW q \in RoundId, OpenReveal(q)
  PROVE  /\ status[q] = "Open" /\ BidsKept(q)
         /\ \A r \in RoundId \ {q} : Untouched(r)
  BY DEF IInv, TypeOK, OpenReveal, Untouched, BidsKept, outcome

LEMMA RevealOthers ==
  ASSUME IInv, NEW q \in RoundId, NEW a \in Account, NEW v \in Value, Reveal(q, a, v)
  PROVE  /\ status[q] = "Revealing" /\ bidders' = bidders
         /\ \A r \in RoundId \ {q} : Untouched(r)
         /\ \A x \in Account : /\ bid'[q][x].commitment = bid[q][x].commitment
                               /\ bid'[q][x].escrow = bid[q][x].escrow
                               /\ bid[q][x].revealed_value # None =>
                                    bid'[q][x].revealed_value = bid[q][x].revealed_value
<1>1. bid \in [RoundId -> [Account -> BidState]] /\ ledger \in [RoundId -> EscrowLedger]
  BY DEF IInv, TypeOK
<1>2. bid[q][a] \in BidState /\ bid[q][a].revealed_value = None
  BY <1>1 DEF Reveal
<1> DEFINE b == [bid[q][a] EXCEPT !.revealed_value = v, !.valid = v > 0]
<1>3. b.commitment = bid[q][a].commitment /\ b.escrow = bid[q][a].escrow
  BY <1>2, RevealedBid
<1>4. bid' = [bid EXCEPT ![q] = [bid[q] EXCEPT ![a] = b]]
  BY <1>1 DEF Reveal
<1> HIDE DEF b
<1>5. /\ bid'[q][a] = b /\ \A x \in Account \ {a} : bid'[q][x] = bid[q][x]
      /\ \A r \in RoundId \ {q} : bid'[r] = bid[r]
  BY <1>1, <1>4
<1>6. /\ status[q] = "Revealing" /\ status' = status /\ bidders' = bidders
      /\ winner' = winner /\ winning_bid' = winning_bid
      /\ \A r \in RoundId \ {q} : ledger'[r] = ledger[r]
  BY <1>1 DEF Reveal, outcome
<1> QED
  BY <1>2, <1>3, <1>5, <1>6 DEF Untouched

\* clear voiding a round, and void.
LEMMA RefundAllOthers ==
  ASSUME IInv, NEW q \in RoundId, RefundAll(q), UNCHANGED <<bidders, outcome>>,
         status' = [status EXCEPT ![q] = "Voided"]
  PROVE  BidsKept(q) /\ \A r \in RoundId \ {q} : Untouched(r)
<1>1. TypeOK /\ MarkSettled(q) /\ bidders' = bidders
  BY DEF IInv, RefundAll
<1>2. /\ \A r \in RoundId \ {q} : bid'[r] = bid[r]
      /\ \A a \in Account :
           /\ bid'[q][a].commitment = bid[q][a].commitment
           /\ bid'[q][a].escrow = bid[q][a].escrow
           /\ bid'[q][a].revealed_value = bid[q][a].revealed_value
  BY <1>1, MarkSettledBids
<1>3. \A r \in RoundId \ {q} : ledger'[r] = ledger[r]
  BY <1>1, RefundAllPays
<1> QED
  BY <1>1, <1>2, <1>3 DEF TypeOK, Untouched, BidsKept, outcome

LEMMA ClearOthers ==
  ASSUME IInv, NEW q \in RoundId, Clear(q)
  PROVE  /\ status[q] = "Revealing" /\ BidsKept(q)
         /\ \A r \in RoundId \ {q} : Untouched(r)
<1>1. status[q] = "Revealing" /\ bidders' = bidders /\ TypeOK
  BY DEF Clear, Clearable, IInv
<1>2. CASE BestBidder(q) = None
  <2>1. /\ status' = [status EXCEPT ![q] = "Voided"] /\ RefundAll(q)
        /\ UNCHANGED <<bidders, outcome>>
    BY <1>2 DEF Clear
  <2> QED
    BY <1>1, <2>1, RefundAllOthers
<1>3. CASE BestBidder(q) # None
  <2>1. /\ status' = [status EXCEPT ![q] = "Cleared"]
        /\ winner' = [winner EXCEPT ![q] = BestBidder(q)]
        /\ winning_bid' = [winning_bid EXCEPT ![q] = bid[q][BestBidder(q)].revealed_value]
        /\ bid' = bid /\ ledger' = ledger
    BY <1>3 DEF Clear
  <2> QED
    BY <1>1, <2>1 DEF TypeOK, Untouched, BidsKept
<1> QED
  BY <1>2, <1>3

LEMMA SettleOthers ==
  ASSUME IInv, NEW q \in RoundId, Settle(q)
  PROVE  /\ status[q] = "Cleared" /\ BidsKept(q)
         /\ \A r \in RoundId \ {q} : Untouched(r)
<1>1. TypeOK /\ MarkSettled(q) /\ bidders' = bidders
  BY DEF IInv, Settle
<1>2. /\ \A r \in RoundId \ {q} : bid'[r] = bid[r]
      /\ \A a \in Account :
           /\ bid'[q][a].commitment = bid[q][a].commitment
           /\ bid'[q][a].escrow = bid[q][a].escrow
           /\ bid'[q][a].revealed_value = bid[q][a].revealed_value
  BY <1>1, MarkSettledBids
<1> QED
  BY <1>1, <1>2 DEF Settle, TypeOK, Untouched, BidsKept, outcome

LEMMA VoidOthers ==
  ASSUME IInv, NEW q \in RoundId, Void(q)
  PROVE  /\ status[q] = "Open" /\ BidsKept(q)
         /\ \A r \in RoundId \ {q} : Untouched(r)
  BY RefundAllOthers DEF Void, Voidable

\* create_round writes a record that did not exist.
LEMMA CreateRoundOthers ==
  ASSUME IInv, NEW t \in Terms, CreateRound(t)
  PROVE  /\ bid' = bid /\ ledger' = ledger
         /\ \A r \in RoundId : status[r] # "None" => Untouched(r)
<1>1. TypeOK /\ counter \in Nat /\ counter + 1 \in RoundId
  BY ParameterAssumption DEF IInv, TypeOK, CreateRound
<1>2. status[counter + 1] = "None"
  BY <1>1 DEF IInv, RoundInv, CreatedInv
<1>3. /\ bid' = bid /\ ledger' = ledger
      /\ \A r \in RoundId \ {counter + 1} :
           /\ status'[r] = status[r] /\ bidders'[r] = bidders[r]
           /\ winner'[r] = winner[r] /\ winning_bid'[r] = winning_bid[r]
  BY <1>1 DEF CreateRound, TypeOK
<1> QED
  BY <1>2, <1>3 DEF Untouched

\* The steps of the environment touch no round.
LEMMA EnvironmentOthers ==
  ASSUME IInv, Tick \/ (\E R \in DrandRound : Publish(R)) \/ UNCHANGED vars, NEW r \in RoundId
  PROVE  Untouched(r)
  BY DEF Tick, Publish, vars, outcome, Untouched
-----------------------------------------------------------------------------
(***************************************************************************)
(* Terminal rounds are final.                                              *)
(***************************************************************************)
LEMMA TerminalUntouched ==
  ASSUME IInv, [Next]_vars, NEW r \in RoundId, status[r] \in Terminal
  PROVE  Untouched(r)
<1>1. /\ status[r] # "None" /\ status[r] # "Open"
      /\ status[r] # "Revealing" /\ status[r] # "Cleared"
  BY DEF Terminal
<1>2. CASE Tick \/ (\E R \in DrandRound : Publish(R)) \/ UNCHANGED vars
  BY <1>2, EnvironmentOthers
<1>3. CASE \E t \in Terms : CreateRound(t)
  BY <1>1, <1>3, CreateRoundOthers
<1>4. CASE \E q \in RoundId, a \in Account, c \in Value \cup {None}, e \in Escrow,
              s \in DrandRound : Commit(q, a, c, e, s)
  BY <1>1, <1>4, CommitOthers
<1>5. CASE \E q \in RoundId : OpenReveal(q)
  BY <1>1, <1>5, OpenRevealOthers
<1>6. CASE \E q \in RoundId, a \in Account, v \in Value : Reveal(q, a, v)
  BY <1>1, <1>6, RevealOthers
<1>7. CASE \E q \in RoundId : Clear(q)
  BY <1>1, <1>7, ClearOthers
<1>8. CASE \E q \in RoundId : Settle(q)
  BY <1>1, <1>8, SettleOthers
<1>9. CASE \E q \in RoundId : Void(q)
  BY <1>1, <1>9, VoidOthers
<1> QED
  BY <1>2, <1>3, <1>4, <1>5, <1>6, <1>7, <1>8, <1>9 DEF Next

\* No call (commit, open_reveal, reveal, clear, settle, void) changes a round
\* once it is settled or voided.
THEOREM TerminalRoundsAreFinal == Spec => TerminalIsFinal
<1>1. IInv /\ [Next]_vars =>
        [\A r \in RoundId : status[r] \in Terminal =>
            /\ status'[r] = status[r]
            /\ winner'[r] = winner[r] /\ winning_bid'[r] = winning_bid[r]
            /\ bid'[r] = bid[r] /\ ledger'[r] = ledger[r]]_vars
  BY TerminalUntouched DEF Untouched
<1> QED
  BY <1>1, InvariantHolds, PTL DEF Spec, TerminalIsFinal
-----------------------------------------------------------------------------
(***************************************************************************)
(* Bids are frozen from the moment the beacon is public.                   *)
(***************************************************************************)

\* What FrozenOncePublished says of one round.
Frozen(r) ==
    /\ SealedBids(r)' = SealedBids(r)
    /\ bidders'[r] = bidders[r]
    /\ \A a \in Account : bid[r][a].revealed_value # None
         => bid'[r][a].revealed_value = bid[r][a].revealed_value

LEMMA UntouchedIsFrozen ==
  ASSUME NEW r \in RoundId, Untouched(r) \/ BidsKept(r)
  PROVE  Frozen(r)
  BY DEF Untouched, BidsKept, Frozen, SealedBids

\* Once the beacon is public the commit window is over.
LEMMA CommitIsOver ==
  ASSUME IInv, NEW r \in RoundId, status[r] # "None", terms[r].reveal_round \in published
  PROVE  now > terms[r].commit_deadline
<1>1. terms[r] \in Terms /\ ClosesBeforeBeacon(terms[r])
  BY DEF IInv, RoundInv, CreatedInv
<1>2. terms[r] \in RoundTerms
  BY <1>1, InputAssumption
<1>3. terms[r].commit_deadline \in Nat /\ terms[r].reveal_round \in Nat
  BY <1>2 DEF RoundTerms
<1>4. TimeOfRound(terms[r].reveal_round) <= now /\ now \in Nat
  BY DEF IInv, BeaconInv, TypeOK
<1>5. TimeOfRound(terms[r].reveal_round) \in Nat
  BY <1>3, TimeOfRoundType
<1> QED
  BY <1>1, <1>3, <1>4, <1>5 DEF ClosesBeforeBeacon

LEMMA PublishedIsFrozen ==
  ASSUME IInv, [Next]_vars, NEW r \in RoundId, status[r] # "None",
         terms[r].reveal_round \in published
  PROVE  Frozen(r)
<1>1. CASE Tick \/ (\E R \in DrandRound : Publish(R)) \/ UNCHANGED vars
  BY <1>1, EnvironmentOthers, UntouchedIsFrozen
<1>2. CASE \E t \in Terms : CreateRound(t)
  BY <1>2, CreateRoundOthers, UntouchedIsFrozen
<1>3. CASE \E q \in RoundId, a \in Account, c \in Value \cup {None}, e \in Escrow,
              s \in DrandRound : Commit(q, a, c, e, s)
  <2>1. PICK q \in RoundId, a \in Account, c \in Value \cup {None}, e \in Escrow,
              s \in DrandRound : Commit(q, a, c, e, s)
    BY <1>3
  <2>2. CASE q = r
    <3>1. now <= terms[r].commit_deadline
      BY <2>1, <2>2 DEF Commit
    <3>2. terms[r] \in RoundTerms
      BY InputAssumption DEF IInv, RoundInv, CreatedInv
    <3>3. terms[r].commit_deadline \in Nat /\ now \in Nat
      BY <3>2 DEF RoundTerms, IInv, TypeOK
    <3> QED
      BY <3>1, <3>3, CommitIsOver
  <2>3. CASE q # r
    BY <2>1, <2>3, CommitOthers, UntouchedIsFrozen
  <2> QED
    BY <2>2, <2>3
<1>4. CASE \E q \in RoundId : OpenReveal(q)
  BY <1>4, OpenRevealOthers, UntouchedIsFrozen
<1>5. CASE \E q \in RoundId, a \in Account, v \in Value : Reveal(q, a, v)
  <2>1. PICK q \in RoundId, a \in Account, v \in Value : Reveal(q, a, v)
    BY <1>5
  <2>2. CASE q = r
    BY <2>1, <2>2, RevealOthers DEF Frozen, SealedBids
  <2>3. CASE q # r
    BY <2>1, <2>3, RevealOthers, UntouchedIsFrozen
  <2> QED
    BY <2>2, <2>3
<1>6. CASE \E q \in RoundId : Clear(q)
  BY <1>6, ClearOthers, UntouchedIsFrozen
<1>7. CASE \E q \in RoundId : Settle(q)
  BY <1>7, SettleOthers, UntouchedIsFrozen
<1>8. CASE \E q \in RoundId : Void(q)
  BY <1>8, VoidOthers, UntouchedIsFrozen
<1> QED
  BY <1>1, <1>2, <1>3, <1>4, <1>5, <1>6, <1>7, <1>8 DEF Next

\* create_round's deadline check makes commits confidential: nobody can place,
\* replace or withdraw a bid once the beacon that opens the bids is public.
THEOREM BidsFreezeAtTheBeacon == Spec => FrozenOncePublished
<1>1. IInv /\ [Next]_vars =>
        [\A r \in RoundId :
            (status[r] # "None" /\ terms[r].reveal_round \in published)
            => /\ SealedBids(r)' = SealedBids(r)
               /\ bidders'[r] = bidders[r]
               /\ \A a \in Account : bid[r][a].revealed_value # None
                    => bid'[r][a].revealed_value = bid[r][a].revealed_value]_vars
  BY PublishedIsFrozen DEF Frozen
<1> QED
  BY <1>1, InvariantHolds, PTL DEF Spec, FrozenOncePublished
-----------------------------------------------------------------------------
(***************************************************************************)
(* No check of settle or refund_all ever rejects a round that is due.      *)
(***************************************************************************)

\* A round not yet paid out passes prove_conserved and can be paid in full.
LEMMA LiveRoundProved ==
  ASSUME IInv, NEW r \in RoundId, status[r] \notin Terminal
  PROVE  /\ Proved(r) /\ NoneSettled(r)
         /\ held >= IndexLocked(r) /\ IndexLocked(r) \in Nat
         /\ EnsureLedger(r) \in EscrowLedger
         /\ EnsureLedger(r).payout = 0
         /\ EnsureLedger(r).locked = IndexLocked(r)
         /\ Conserved(EnsureLedger(r))
<1>1. TypeOK /\ RoundInv(r) /\ Indexed(r) \subseteq Account
  BY IndexedInAccount DEF IInv
<1>2. IndexComplete(r) /\ NoneSettled(r)
  BY <1>1 DEF RoundInv, IndexInv, IndexComplete, NoneSettled, NoBid
<1>3. /\ EnsureLedger(r).locked = IndexLocked(r)
      /\ Conserved(EnsureLedger(r))
      /\ EnsureLedger(r).payout = 0
  <2>1. Backed(r) /\ ledger[r].payout = 0
    BY <1>1 DEF RoundInv, OutcomeInv, Terminal
  <2> QED
    BY <1>1, <2>1, EnsureLedgerBacked
<1>4. Proved(r)
  BY <1>2, <1>3 DEF Proved, LedgerAvailable
<1>5. held >= IndexLocked(r) /\ IndexLocked(r) \in Nat
  <2> DEFINE d == [q \in 1 .. MaxRounds |-> IndexLocked(q)]
  <2>1. \A q \in 1 .. MaxRounds : d[q] \in Nat
    BY <1>1, OwedType
  <2>2. MaxRounds \in Nat /\ r \in 1 .. MaxRounds /\ d[r] = IndexLocked(r)
    BY ParameterAssumption
  <2>3. held = Sum(d, MaxRounds) /\ held \in Nat
    BY DEF IInv, HeldInv, TypeOK
  <2> HIDE DEF d
  <2>4. d[r] <= Sum(d, MaxRounds)
    BY ONLY <2>1, <2>2, SumBoundsMember
  <2>5. d[r] \in Nat
    BY <2>1, <2>2
  <2> QED
    BY <2>2, <2>3, <2>4, <2>5
<1> QED
  BY <1>1, <1>2, <1>3, <1>4, <1>5, EnsureLedgerType

LEMMA RefundAlwaysAccepted ==
  ASSUME IInv, NEW r \in RoundId, status[r] \in {"Open", "Revealing"}
  PROVE  RefundAllAccepted(r)
<1>1. status[r] \notin Terminal
  BY DEF Terminal
<1>2. PICK l : l = EnsureLedger(r)
  OBVIOUS
<1>3. PICK n : n = IndexLocked(r)
  OBVIOUS
<1>4. /\ Proved(r) /\ NoneSettled(r) /\ held >= n /\ n \in Nat
      /\ l \in EscrowLedger /\ l.payout = 0 /\ l.locked = n /\ Conserved(l)
  BY <1>1, <1>2, <1>3, LiveRoundProved
<1>5. PICK m : m = Refund(l, n)
  OBVIOUS
<1>6. /\ m.committed = l.committed /\ m.locked = l.locked - n
      /\ m.refunds = l.refunds + n /\ m.payout = l.payout
  <2>1. n \in Int /\ l \in EscrowLedger
    BY <1>4
  <2> QED
    BY <1>5, <2>1, RefundFlows
<1>7. Conserved(m) /\ m.locked = 0
  <2>1. /\ l.committed \in Nat /\ l.refunds \in Nat /\ l.committed = l.refunds + n
    BY <1>4 DEF Conserved, EscrowLedger
  <2>2. /\ m.committed \in Nat /\ m.refunds \in Nat /\ m.locked = 0 /\ m.payout = 0
        /\ m.committed = m.refunds
    BY <1>4, <1>6, <2>1
  <2> QED
    BY <2>2 DEF Conserved
<1> QED
  BY <1>2, <1>3, <1>4, <1>5, <1>7 DEF RefundAllAccepted, NothingPaidOut

\* The refunds settle plans are what the round holds, less the winning bid.
LEMMA RefundsPlusPayout ==
  ASSUME IInv, NEW r \in RoundId, status[r] = "Cleared"
  PROVE  winning_bid[r] + RefundTotal(r) = IndexLocked(r)
<1>1. TypeOK /\ RoundInv(r) /\ IndexLocked(r) \in Nat
  BY OwedType DEF IInv
<1>2. PICK w : w = winner[r]
  OBVIOUS
<1>3. PICK f : f = Owed(r)
  OBVIOUS
<1>4. PICK g : g = SettleRefund(r)
  OBVIOUS
<1>5. PICK t : t = bidders[r]
  OBVIOUS
<1>6. f \in [Account -> Int] /\ g \in [Account -> Int]
  <2>1. f \in [Account -> Nat]
    BY <1>1, <1>3, OwedType
  <2>2. g \in [Account -> Nat]
    BY <1>1, <1>4, SettleRefundType
  <2> QED
    BY <2>1, <2>2
<1>7. /\ t \in Seq(Account) /\ \A i, j \in 1 .. Len(t) : t[i] = t[j] => i = j
      /\ \E k \in 1 .. Len(t) : t[k] = w
  <2>1. w \in Indexed(r)
    BY <1>1, <1>2, WinnerCovered
  <2> QED
    BY <1>1, <1>5, <2>1, IndexedInAccount DEF TypeOK, RoundInv, IndexInv
<1>8. /\ f[w] = bid[r][w].escrow /\ g[w] = bid[r][w].escrow - winning_bid[r]
      /\ \A y \in Account : y # w => g[y] = f[y]
  <2>1. w \in Account /\ ~bid[r][w].settled
    BY <1>1, <1>2, WinnerCovered DEF RoundInv, IndexInv, Terminal
  <2> QED
    BY <1>2, <1>3, <1>4, <2>1 DEF Owed, SettleRefund
<1>9. SumOver(g, t) = SumOver(f, t) - f[w] + g[w]
  <2>1. AgreeBut(Account, f, g, w)
    BY <1>8 DEF AgreeBut
  <2>2. t \in Seq(Account) /\ ListsOnce(t, w)
    BY <1>7 DEF ListsOnce
  <2>3. w \in Account
    BY <1>1, <1>2, WinnerCovered
  <2> QED
    BY ONLY <1>6, <2>1, <2>2, <2>3, SumOverChangeOne
<1>10. SumOver(g, t) = RefundTotal(r) /\ SumOver(f, t) = IndexLocked(r)
  BY <1>3, <1>4, <1>5 DEF RefundTotal, IndexLocked
<1>11. winning_bid[r] \in Nat /\ bid[r][w].escrow \in Nat
  BY <1>1, <1>2, WinnerCovered
<1> QED
  BY <1>1, <1>8, <1>9, <1>10, <1>11

LEMMA SettleAlwaysAccepted ==
  ASSUME IInv, NEW r \in RoundId, status[r] = "Cleared"
  PROVE  SettleAccepted(r)
<1>1. TypeOK /\ RoundInv(r) /\ status[r] \notin Terminal
  BY DEF IInv, Terminal
<1>2. PICK l : l = EnsureLedger(r)
  OBVIOUS
<1>3. PICK n : n = IndexLocked(r)
  OBVIOUS
<1>4. /\ Proved(r) /\ NoneSettled(r) /\ held >= n /\ n \in Nat
      /\ l \in EscrowLedger /\ l.payout = 0 /\ l.locked = n /\ Conserved(l)
  BY <1>1, <1>2, <1>3, LiveRoundProved
<1>5. PICK x \in Nat : x = RefundTotal(r)
  BY <1>1, SettleRefundType
<1>6. PICK p \in Nat : p = winning_bid[r]
  BY <1>1, WinnerCovered
<1>7. p + x = n
  BY <1>3, <1>5, <1>6, RefundsPlusPayout
<1>8. PICK m : m = Refund(l, x)
  OBVIOUS
<1>9. /\ m \in EscrowLedger
      /\ m.committed = l.committed /\ m.locked = l.locked - x
      /\ m.refunds = l.refunds + x /\ m.payout = l.payout
  <2>1. x \in Int /\ l \in EscrowLedger
    BY <1>4
  <2> QED
    BY <1>8, <2>1, RefundFlows
<1>10. PICK k : k = PayOperator(m, p)
  OBVIOUS
<1>11. /\ k.committed = m.committed /\ k.locked = m.locked - p
       /\ k.refunds = m.refunds /\ k.payout = m.payout + p
  <2>1. p \in Int /\ m \in EscrowLedger
    BY <1>9
  <2> QED
    BY <1>10, <2>1, PayOperatorFlows
<1>12. Conserved(k) /\ k.locked = 0
  <2>1. /\ l.committed \in Nat /\ l.refunds \in Nat /\ l.committed = l.refunds + n
    BY <1>4 DEF Conserved, EscrowLedger
  <2>2. /\ k.committed = l.committed /\ k.locked = l.locked - x - p
        /\ k.refunds = l.refunds + x /\ k.payout = p
    BY <1>4, <1>9, <1>11
  <2>3. l.locked = n
    BY <1>4
  <2>4. /\ k.committed \in Nat /\ k.refunds \in Nat /\ k.payout \in Nat /\ k.locked = 0
        /\ k.committed = k.payout + k.refunds
    BY ONLY <1>7, <2>1, <2>2, <2>3
  <2> QED
    BY <2>4 DEF Conserved
<1>13. SettledLedger(r) = k
  BY <1>2, <1>5, <1>6, <1>8, <1>10 DEF SettledLedger
<1>14. winner[r] # None /\ winning_bid[r] <= bid[r][winner[r]].escrow
  BY <1>1, WinnerCovered, NoneAssumption
<1> QED
  BY <1>3, <1>4, <1>5, <1>6, <1>7, <1>12, <1>13, <1>14 DEF SettleAccepted

\* settle "cannot fail for lack of funds": neither it nor the refunds of clear
\* and void ever return EscrowNotConserved, whatever was bid or overwritten.
THEOREM PayoutsAreNeverRefused == Spec => []PayoutNeverRefused
<1>1. IInv => PayoutNeverRefused
  BY SettleAlwaysAccepted, RefundAlwaysAccepted DEF PayoutNeverRefused
<1> QED
  BY <1>1, InvariantHolds, PTL
-----------------------------------------------------------------------------
(***************************************************************************)
(* The books balance for every account, for any number of rounds, bids,    *)
(* edits and payouts.  What a round is worth to an account is what it      *)
(* earned there less what it still has in escrow: a call changes the worth *)
(* of one round at most, and the account's tokens by as much.              *)
(***************************************************************************)
Worth(r, a) == Earned(r, a) - InEscrow(r, a)

\* What BooksBalance says of one account.
Balanced(a) == balance[a] = Funds[a] + Sum([r \in RoundId |-> Worth(r, a)], MaxRounds)

\* A step pays a what round r comes to be worth to it, and changes no other round.
Moves(r, a) ==
    /\ \A q \in RoundId \ {r} : Worth(q, a)' = Worth(q, a)
    /\ balance'[a] = balance[a] - Worth(r, a) + Worth(r, a)'
-----------------------------------------------------------------------------
LEMMA WorthType ==
  TypeOK => \A r \in RoundId, a \in Account : Worth(r, a) \in Int /\ bid[r][a].escrow \in Nat
<1> SUFFICES ASSUME TypeOK, NEW r \in RoundId, NEW a \in Account
             PROVE  Worth(r, a) \in Int /\ bid[r][a].escrow \in Nat
  OBVIOUS
<1>1. bid[r][a] \in BidState /\ winning_bid[r] \in Int
  BY DEF TypeOK
<1>2. bid[r][a].escrow \in Nat
  BY <1>1 DEF BidState
<1>3. Earned(r, a) \in Int
  BY <1>1 DEF Earned
<1>4. InEscrow(r, a) \in Int
  BY <1>2 DEF InEscrow
<1> QED
  BY <1>2, <1>3, <1>4 DEF Worth

\* The same after a step.
LEMMA WorthTypePrime ==
  TypeOK' => \A r \in RoundId, a \in Account : Worth(r, a)' \in Int
<1>1. TypeOK' => (\A r \in RoundId, a \in Account :
                    Worth(r, a) \in Int /\ bid[r][a].escrow \in Nat)'
  BY WorthType, PTL
<1> QED
  BY <1>1

\* An account's tokens follow the one round whose worth changes.
LEMMA BooksFollow ==
  ASSUME TypeOK, TypeOK', NEW r \in RoundId, NEW a \in Account, Balanced(a), Moves(r, a)
  PROVE  Balanced(a)'
<1> DEFINE d == [q \in 1 .. MaxRounds |-> Worth(q, a)]
           e == [q \in 1 .. MaxRounds |-> Worth(q, a)']
<1>1. \A q \in 1 .. MaxRounds : d[q] \in Int /\ e[q] \in Int
  BY WorthType, WorthTypePrime
<1>2. \A q \in 1 .. MaxRounds : q # r => e[q] = d[q]
  BY DEF Moves
<1>3. r \in 1 .. MaxRounds /\ MaxRounds \in Nat
  BY ParameterAssumption
<1>4. /\ balance[a] = Funds[a] + Sum(d, MaxRounds)
      /\ balance'[a] = balance[a] - d[r] + e[r]
  BY DEF Balanced, Moves
<1>5. Funds[a] \in Int /\ d[r] \in Int /\ e[r] \in Int
  BY <1>1, <1>3, InputAssumption
<1>6. Balanced(a)' <=> balance'[a] = Funds[a] + Sum(e, MaxRounds)
  BY DEF Balanced
<1> HIDE DEF d, e
<1>7. Sum(e, MaxRounds) = Sum(d, MaxRounds) - d[r] + e[r] /\ Sum(d, MaxRounds) \in Int
  BY ONLY <1>1, <1>2, <1>3, SumChangeOne, SumType
<1> QED
  BY ONLY <1>4, <1>5, <1>6, <1>7

\* Nothing happens to the books.
LEMMA BooksStill ==
  ASSUME NEW a \in Account, Balanced(a), balance' = balance,
         \A r \in RoundId : Worth(r, a)' = Worth(r, a)
  PROVE  Balanced(a)'
<1>1. [r \in RoundId |-> Worth(r, a)]' = [r \in RoundId |-> Worth(r, a)]
  OBVIOUS
<1> QED
  BY <1>1 DEF Balanced

LEMMA SameWorth ==
  ASSUME NEW r \in RoundId, NEW a \in Account, Untouched(r), terms'[r] = terms[r]
  PROVE  Worth(r, a)' = Worth(r, a)
BY DEF Untouched, Worth, Earned, InEscrow

\* A round that is not paid out is worth the escrow it holds.
LEMMA LiveWorth ==
  ASSUME TypeOK, NEW r \in RoundId, NEW a \in Account,
         status[r] \notin Terminal, status'[r] \notin Terminal,
         bid'[r][a].escrow = bid[r][a].escrow
  PROVE  Worth(r, a)' = Worth(r, a)
BY DEF Worth, Earned, InEscrow, Terminal
-----------------------------------------------------------------------------
(***************************************************************************)
(* The calls that move no tokens.                                          *)
(***************************************************************************)
LEMMA EnvironmentBooks ==
  ASSUME IInv, Tick \/ (\E R \in DrandRound : Publish(R)) \/ UNCHANGED vars,
         NEW a \in Account, Balanced(a)
  PROVE  Balanced(a)'
<1>1. balance' = balance /\ terms' = terms
  BY DEF Tick, Publish, vars, tokens
<1>2. \A r \in RoundId : Worth(r, a)' = Worth(r, a)
  BY <1>1, EnvironmentOthers, SameWorth
<1> QED
  BY <1>1, <1>2, BooksStill

LEMMA CreateRoundBooks ==
  ASSUME IInv, NEW t \in Terms, CreateRound(t), NEW a \in Account, Balanced(a)
  PROVE  Balanced(a)'
<1>0. counter + 1 \in RoundId
  BY ParameterAssumption DEF CreateRound, IInv, TypeOK
<1> PICK n \in RoundId : n = counter + 1
  BY <1>0
<1>1. TypeOK /\ counter \in Nat /\ n = counter + 1
  BY DEF IInv, TypeOK
<1>2. status[n] = "None"
  BY <1>1 DEF IInv, RoundInv, CreatedInv
<1>3. /\ status'[n] = "Open" /\ bid' = bid /\ ledger' = ledger /\ balance' = balance
      /\ \A r \in RoundId \ {n} :
           /\ terms'[r] = terms[r] /\ status'[r] = status[r] /\ bidders'[r] = bidders[r]
           /\ winner'[r] = winner[r] /\ winning_bid'[r] = winning_bid[r]
  BY <1>1 DEF CreateRound, TypeOK, tokens
<1>4. Worth(n, a)' = Worth(n, a)
  BY <1>1, <1>2, <1>3, LiveWorth DEF Terminal
<1>5. \A r \in RoundId \ {n} : Worth(r, a)' = Worth(r, a)
  BY <1>3, SameWorth DEF Untouched
<1> QED
  BY <1>3, <1>4, <1>5, BooksStill

\* A call on round q that moves no tokens, and does not pay it out.
LEMMA TokensStill ==
  ASSUME IInv, NEW q \in RoundId, NEW a \in Account, Balanced(a), balance' = balance,
         terms' = terms, status[q] \notin Terminal, status'[q] \notin Terminal,
         bid'[q][a].escrow = bid[q][a].escrow, \A r \in RoundId \ {q} : Untouched(r)
  PROVE  Balanced(a)'
<1>1. Worth(q, a)' = Worth(q, a)
  BY LiveWorth DEF IInv
<1>2. \A r \in RoundId \ {q} : Worth(r, a)' = Worth(r, a)
  BY SameWorth
<1> QED
  BY <1>1, <1>2, BooksStill

LEMMA OpenRevealBooks ==
  ASSUME IInv, NEW q \in RoundId, OpenReveal(q), NEW a \in Account, Balanced(a)
  PROVE  Balanced(a)'
<1>1. /\ balance' = balance /\ terms' = terms /\ status[q] = "Open"
      /\ status'[q] = "Revealing"
  BY DEF OpenReveal, tokens, IInv, TypeOK
<1> QED
  BY <1>1, OpenRevealOthers, TokensStill DEF BidsKept, Terminal

LEMMA RevealBooks ==
  ASSUME IInv, NEW q \in RoundId, NEW x \in Account, NEW v \in Value, Reveal(q, x, v),
         NEW a \in Account, Balanced(a)
  PROVE  Balanced(a)'
<1>1. /\ balance' = balance /\ terms' = terms /\ status' = status /\ status[q] = "Revealing"
  BY DEF Reveal, tokens
<1> QED
  BY <1>1, RevealOthers, TokensStill DEF Terminal
-----------------------------------------------------------------------------
(***************************************************************************)
(* The calls that move tokens.                                             *)
(***************************************************************************)
LEMMA CommitBooks ==
  ASSUME IInv, NEW q \in RoundId, NEW x \in Account, NEW c \in Value \cup {None},
         NEW e \in Escrow, NEW s \in DrandRound, Commit(q, x, c, e, s),
         NEW a \in Account, Balanced(a)
  PROVE  Moves(q, a)
<1>1. /\ TypeOK /\ status[q] = "Open" /\ status' = status /\ terms' = terms
      /\ e \in Nat /\ bid'[q][x] = CommittedBid(c, e)
      /\ \A y \in Account \ {x} : bid'[q][y] = bid[q][y]
  <2>1. CommitEffect(q, x, c, e)
    BY CommitFacts
  <2> QED
    BY <2>1, Zenon DEF CommitEffect
<1>2. /\ balance \in [Account -> Nat] /\ bid[q][x].escrow \in Nat /\ bid[q][a].escrow \in Nat
  BY <1>1, WorthType DEF TypeOK
<1>3. balance' = [balance EXCEPT ![x] = balance[x] - (e - bid[q][x].escrow)]
  BY <1>2 DEF Commit, NetEscrow
<1>4. /\ Worth(q, a) = 0 - bid[q][a].escrow
      /\ Worth(q, a)' = 0 - bid'[q][a].escrow
  BY <1>1 DEF Worth, Earned, InEscrow, Terminal
<1>5. balance'[a] = balance[a] - Worth(q, a) + Worth(q, a)'
  <2>1. CASE a = x
    <3>1. bid'[q][a].escrow = e
      BY <1>1, <2>1 DEF CommittedBid
    <3>2. balance'[a] = balance[a] - (e - bid[q][a].escrow) /\ balance[a] \in Nat
      BY <1>2, <1>3, <2>1
    <3> QED
      BY <1>1, <1>2, <1>4, <3>1, <3>2
  <2>2. CASE a # x
    <3>1. bid'[q][a] = bid[q][a] /\ balance'[a] = balance[a] /\ balance[a] \in Nat
      BY <1>1, <1>2, <1>3, <2>2
    <3> QED
      BY <1>2, <1>4, <3>1
  <2> QED
    BY <2>1, <2>2
<1>6. \A r \in RoundId \ {q} : Worth(r, a)' = Worth(r, a)
  BY <1>1, CommitOthers, SameWorth
<1> QED
  BY <1>5, <1>6 DEF Moves

\* What an account has in a round that is not paid out, it has as an indexed bid.
LEMMA EscrowIndexed ==
  ASSUME IInv, NEW r \in RoundId, NEW a \in Account, status[r] \notin Terminal
  PROVE  /\ ~bid[r][a].settled
         /\ a \notin Indexed(r) => bid[r][a].escrow = 0
BY DEF IInv, RoundInv, IndexInv, NoBid

\* A round that a step voids gives everybody its escrow back.
LEMMA VoidedBooks ==
  ASSUME IInv, NEW q \in RoundId, status[q] \in {"Open", "Revealing"},
         status' = [status EXCEPT ![q] = "Voided"], RefundAll(q),
         UNCHANGED <<terms, bidders, outcome>>, NEW a \in Account
  PROVE  Moves(q, a)
<1>1. TypeOK /\ status[q] \notin Terminal /\ status'[q] = "Voided" /\ terms' = terms
  BY DEF IInv, TypeOK, Terminal
<1>2. /\ balance'[a] = balance[a] + RefundTo(q, a) /\ balance[a] \in Nat
      /\ bid[q][a].escrow \in Nat
  BY <1>1, WorthType DEF RefundAll, TypeOK
<1>3. RefundTo(q, a) = bid[q][a].escrow
  BY <1>1, EscrowIndexed DEF RefundTo, Owed
<1>4. Worth(q, a) = 0 - bid[q][a].escrow /\ Worth(q, a)' = 0
  BY <1>1 DEF Worth, Earned, InEscrow, Terminal
<1>5. \A r \in RoundId \ {q} : Worth(r, a)' = Worth(r, a)
  BY <1>1, RefundAllOthers, SameWorth
<1> QED
  BY <1>2, <1>3, <1>4, <1>5 DEF Moves

LEMMA VoidBooks ==
  ASSUME IInv, NEW q \in RoundId, Void(q), NEW a \in Account
  PROVE  Moves(q, a)
BY VoidedBooks DEF Void, Voidable

LEMMA ClearBooks ==
  ASSUME IInv, NEW q \in RoundId, Clear(q), NEW a \in Account, Balanced(a)
  PROVE  Balanced(a)' \/ Moves(q, a)
<1>1. status[q] = "Revealing" /\ terms' = terms /\ bidders' = bidders /\ TypeOK
  BY DEF Clear, Clearable, IInv
<1>2. CASE BestBidder(q) = None
  BY <1>1, <1>2, VoidedBooks DEF Clear
<1>3. CASE BestBidder(q) # None
  <2>1. status'[q] = "Cleared" /\ bid' = bid /\ balance' = balance
    BY <1>1, <1>3 DEF Clear, TypeOK, tokens
  <2> QED
    BY <1>1, <2>1, ClearOthers, TokensStill DEF Terminal
<1> QED
  BY <1>2, <1>3

\* settle pays the winner its surplus, the operator the winning bid, and
\* everybody else its escrow.
LEMMA SettleBooks ==
  ASSUME IInv, NEW q \in RoundId, Settle(q), NEW a \in Account
  PROVE  Moves(q, a)
<1>1. /\ TypeOK /\ RoundInv(q) /\ status[q] = "Cleared" /\ status'[q] = "Settled"
      /\ terms' = terms /\ winner' = winner /\ winning_bid' = winning_bid
  BY DEF IInv, TypeOK, Settle, outcome
<1>2. /\ winner[q] \in Indexed(q) /\ winning_bid[q] \in Nat
      /\ balance[a] \in Nat /\ bid[q][a].escrow \in Nat
      /\ ~bid[q][a].settled /\ (a \notin Indexed(q) => bid[q][a].escrow = 0)
  BY <1>1, WinnerCovered, WorthType, EscrowIndexed DEF TypeOK, Terminal
<1> DEFINE refund == IF a \in Indexed(q) THEN SettleRefund(q)[a] ELSE 0
           won == IF a = winner[q] THEN winning_bid[q] ELSE 0
           pay == OperatorPay(q, a)
<1>3. balance'[a] = balance[a] + refund + pay
  BY DEF Settle
<1>4. refund = bid[q][a].escrow - won
  BY <1>2 DEF SettleRefund, Owed
<1>5. Worth(q, a) = 0 - bid[q][a].escrow /\ Worth(q, a)' = pay - won - 0
  BY <1>1 DEF Worth, Earned, InEscrow, OperatorPay, Terminal
<1>6. won \in Nat /\ pay \in Nat
  BY <1>2 DEF OperatorPay
<1>7. \A r \in RoundId \ {q} : Worth(r, a)' = Worth(r, a)
  BY <1>1, SettleOthers, SameWorth
<1> HIDE DEF refund, won, pay
<1>8. balance'[a] = balance[a] - Worth(q, a) + Worth(q, a)'
  BY <1>2, <1>3, <1>4, <1>5, <1>6
<1> QED
  BY <1>7, <1>8 DEF Moves
-----------------------------------------------------------------------------
LEMMA StepBooks ==
  ASSUME IInv, [Next]_vars, NEW a \in Account, Balanced(a)
  PROVE  Balanced(a)'
<1>1. TypeOK /\ TypeOK'
  BY StepIInv DEF IInv
<1>2. ASSUME NEW q \in RoundId, Moves(q, a) PROVE Balanced(a)'
  BY <1>1, <1>2, BooksFollow
<1>3. CASE Tick \/ (\E R \in DrandRound : Publish(R)) \/ UNCHANGED vars
  BY <1>3, EnvironmentBooks
<1>4. CASE \E t \in Terms : CreateRound(t)
  BY <1>4, CreateRoundBooks
<1>5. CASE \E q \in RoundId, x \in Account, c \in Value \cup {None}, e \in Escrow,
              s \in DrandRound : Commit(q, x, c, e, s)
  BY <1>2, <1>5, CommitBooks
<1>6. CASE \E q \in RoundId : OpenReveal(q)
  BY <1>6, OpenRevealBooks
<1>7. CASE \E q \in RoundId, x \in Account, v \in Value : Reveal(q, x, v)
  BY <1>7, RevealBooks
<1>8. CASE \E q \in RoundId : Clear(q)
  BY <1>2, <1>8, ClearBooks
<1>9. CASE \E q \in RoundId : Settle(q)
  BY <1>2, <1>9, SettleBooks
<1>10. CASE \E q \in RoundId : Void(q)
  BY <1>2, <1>10, VoidBooks
<1> QED
  BY <1>3, <1>4, <1>5, <1>6, <1>7, <1>8, <1>9, <1>10 DEF Next

LEMMA InitBooks == ASSUME Init, NEW a \in Account PROVE Balanced(a)
<1> DEFINE d == [r \in 1 .. MaxRounds |-> Worth(r, a)]
<1>1. \A r \in 1 .. MaxRounds : d[r] = 0
  BY DEF Init, Worth, Earned, InEscrow, Terminal, NoBid
<1>2. MaxRounds \in Nat /\ Funds[a] \in Int
  BY ParameterAssumption, InputAssumption
<1>3. Balanced(a) <=> balance[a] = Funds[a] + Sum(d, MaxRounds)
  BY DEF Balanced
<1>4. balance[a] = Funds[a]
  BY DEF Init
<1> HIDE DEF d
<1>5. Sum(d, MaxRounds) = 0
  BY <1>1, <1>2, SumAllZero
<1> QED
  BY <1>2, <1>3, <1>4, <1>5

\* Exactly-once payment (commit, settle, refund_all): whatever an account
\* overwrote, won, lost or had refunded in any number of rounds, its tokens are
\* its initial funds, less its live bids and the bids it won, plus the winning
\* bids paid to it as operator.
THEOREM BooksAlwaysBalance == Spec => []BooksBalance
<1> DEFINE Books == \A a \in Account : Balanced(a)
<1>1. Init => Books
  BY InitBooks
<1>2. IInv /\ Books /\ [Next]_vars => Books'
  BY StepBooks
<1>3. Books => BooksBalance
  BY DEF Balanced, BooksBalance, Worth
<1> HIDE DEF Books
<1> QED
  BY <1>1, <1>2, <1>3, InvariantHolds, PTL DEF Spec
-----------------------------------------------------------------------------
(***************************************************************************)
(* RoundContract implements SealedAuction: the initial states map to       *)
(* initial states, and every step maps to a step of the auction or leaves  *)
(* what an observer sees of it unchanged.                                  *)
(***************************************************************************)
(***************************************************************************)
(* What an observer sees changes only with the storage it is read from.    *)
(***************************************************************************)
LEMMA OffersKept ==
  ASSUME \A r \in RoundId, a \in Account :
            /\ bid'[r][a].commitment = bid[r][a].commitment
            /\ bid'[r][a].escrow = bid[r][a].escrow
  PROVE  Offers' = Offers
  BY DEF Offers, OfferOf

LEMMA ShowingsKept ==
  ASSUME \A r \in RoundId, a \in Account :
            bid'[r][a].revealed_value = bid[r][a].revealed_value
  PROVE  Showings' = Showings
  BY DEF Showings, Shown

LEMMA KeysKept ==
  ASSUME published' = published, terms' = terms,
         \A r \in RoundId : status'[r] = "None" <=> status[r] = "None"
  PROVE  Keys' = Keys
  BY DEF Keys, KeyPublic

\* The offer and the showings of one round.
LEMMA OfferValues ==
  ASSUME NEW r \in RoundId
  PROVE  /\ Keys[r] = KeyPublic(r)
         /\ Showings[r] = Shown(r)
         /\ \A a \in Account : /\ Offers[r][a].price = bid[r][a].commitment
                               /\ Offers[r][a].locked = bid[r][a].escrow
  BY DEF Offers, OfferOf, Showings, Keys

\* The offers that stand in the auction are the valid bids of the contract.
LEMMA StandingIsValid ==
  ASSUME IInv, NEW r \in RoundId
  PROVE  /\ Promise!Standing(r) = {a \in Account : bid[r][a].valid}
         /\ \A a \in Account : bid[r][a].valid =>
              /\ a \in Indexed(r) /\ Eligible(r, a)
              /\ bid[r][a].revealed_value = bid[r][a].commitment
<1>1. \A a \in Account :
         /\ bid[r][a].revealed_value # None =>
               bid[r][a].revealed_value = bid[r][a].commitment
         /\ bid[r][a].valid <=> /\ bid[r][a].revealed_value # None
                                /\ bid[r][a].revealed_value > 0
  BY DEF IInv, RoundInv, RevealInv, SealedReveal
<1>2. Promise!Standing(r) = {a \in Shown(r) : bid[r][a].commitment > 0}
  BY OfferValues DEF Promise!Standing, Shown
<1>3. Promise!Standing(r) = {a \in Account : bid[r][a].valid}
  BY <1>1, <1>2 DEF Shown
<1>4. ASSUME NEW a \in Account, bid[r][a].valid
      PROVE  a \in Indexed(r) /\ Eligible(r, a)
  <2>1. bid[r][a].revealed_value # None /\ bid[r][a] # NoBid
    BY <1>1, <1>4 DEF NoBid
  <2> QED
    BY <1>4, <2>1 DEF IInv, RoundInv, IndexInv, Eligible
<1> QED
  BY <1>1, <1>3, <1>4
-----------------------------------------------------------------------------
(***************************************************************************)
(* The initial states, and the steps of the environment.                   *)
(***************************************************************************)
LEMMA InitMaps == Init => Promise!Init
<1> SUFFICES ASSUME Init PROVE Promise!Init
  OBVIOUS
<1>1. Keys = [r \in RoundId |-> FALSE]
  BY DEF Init, Keys, KeyPublic
<1>2. Offers = [r \in RoundId |-> [a \in Account |-> [price |-> None, locked |-> 0]]]
  BY DEF Init, Offers, OfferOf, NoBid
<1>3. Showings = [r \in RoundId |-> {}]
  BY DEF Init, Showings, Shown, NoBid
<1> QED
  BY <1>1, <1>2, <1>3 DEF Init, Promise!Init, Promise!NoOffer

\* A step that changes no storage and no token balance is invisible.
LEMMA InvisibleStep ==
  ASSUME UNCHANGED <<published, terms, status, winner, bid, balance>>
  PROVE  UNCHANGED Promise!vars
  BY OffersKept, ShowingsKept, KeysKept DEF Promise!vars

\* Drand publishing a round unseals every auction sealed to it.
LEMMA PublishMaps ==
  ASSUME NEW R \in DrandRound, Publish(R)
  PROVE  \E X \in SUBSET RoundId : Promise!Unseal(X)
<1>1. /\ published' = published \cup {R} /\ status' = status /\ terms' = terms
      /\ bid' = bid /\ winner' = winner /\ balance' = balance
  BY DEF Publish, outcome, tokens
<1> DEFINE X == {r \in RoundId : KeyPublic(r)'}
<1>2. Keys' = [r \in RoundId |-> Keys[r] \/ r \in X]
  <2>1. \A r \in RoundId : KeyPublic(r) => KeyPublic(r)'
    BY <1>1 DEF KeyPublic
  <2>2. \A r \in RoundId : KeyPublic(r)' <=> (Keys[r] \/ r \in X)
    BY <2>1, OfferValues
  <2> QED
    BY <2>2 DEF Keys, KeyPublic
<1>3. Offers' = Offers /\ Showings' = Showings
  BY <1>1, OffersKept, ShowingsKept
<1> HIDE DEF X
<1>4. Promise!Unseal(X)
  BY <1>1, <1>2, <1>3 DEF Promise!Unseal
<1>5. X \in SUBSET RoundId
  BY DEF X
<1> QED
  BY <1>4, <1>5
-----------------------------------------------------------------------------
(***************************************************************************)
(* The calls of the contract.                                              *)
(***************************************************************************)
LEMMA CreateRoundMaps ==
  ASSUME IInv, NEW t \in Terms, CreateRound(t)
  PROVE  \E r \in RoundId : Promise!Announce(r, t)
<1>1. TypeOK /\ counter \in Nat /\ counter + 1 \in RoundId
  BY ParameterAssumption DEF IInv, TypeOK, CreateRound
<1>2. PICK n \in RoundId : n = counter + 1
  BY <1>1
<1>3. status[n] = "None"
  BY <1>1, <1>2 DEF IInv, RoundInv, CreatedInv
<1>4. /\ status' = [status EXCEPT ![n] = "Open"] /\ terms' = [terms EXCEPT ![n] = t]
      /\ winner' = [winner EXCEPT ![n] = None] /\ published' = published
      /\ bid' = bid /\ balance' = balance
  BY <1>2 DEF CreateRound, clock, tokens
<1>5. winner' = winner
  <2>1. winner[n] = None /\ winner \in [RoundId -> Account \cup {None}]
    BY <1>1, <1>3 DEF IInv, RoundInv, OutcomeInv, TypeOK
  <2> QED
    BY <1>4, <2>1
<1>6. t.reveal_round \notin published
  <2>1. t \in RoundTerms
    BY InputAssumption
  <2>2. t.commit_deadline \in Nat /\ t.reveal_round \in Nat /\ now \in Nat
    BY <1>1, <2>1 DEF RoundTerms, TypeOK
  <2>3. TimeOfRound(t.reveal_round) \in Nat
    BY <2>2, TimeOfRoundType
  <2>4. t.commit_deadline < TimeOfRound(t.reveal_round) /\ now < t.commit_deadline
    BY <2>2 DEF CreateRound, ClosesBeforeBeacon
  <2> QED
    BY <2>2, <2>3, <2>4 DEF IInv, BeaconInv
<1>7. Keys' = Keys /\ ~Keys[n]
  <2>1. \A r \in RoundId : KeyPublic(r)' <=> KeyPublic(r)
    <3>1. ~KeyPublic(n) /\ ~KeyPublic(n)'
      BY <1>1, <1>3, <1>4, <1>6 DEF KeyPublic, TypeOK
    <3>2. \A r \in RoundId \ {n} : status'[r] = status[r] /\ terms'[r] = terms[r]
      BY <1>1, <1>4 DEF TypeOK
    <3> QED
      BY <1>4, <3>1, <3>2 DEF KeyPublic
  <2> QED
    BY <1>3, <2>1 DEF Keys, KeyPublic
<1>8. Offers' = Offers /\ Showings' = Showings
  BY <1>4, OffersKept, ShowingsKept
<1> QED
  BY <1>3, <1>4, <1>5, <1>7, <1>8 DEF Promise!Announce

LEMMA CommitMaps ==
  ASSUME IInv, NEW r \in RoundId, NEW a \in Account, NEW c \in Value \cup {None},
         NEW e \in Escrow, NEW s \in DrandRound, Commit(r, a, c, e, s)
  PROVE  Promise!Bid(r, a, c, e)
<1>1. CommitEffect(r, a, c, e)
  BY CommitFacts
<1>2. /\ TypeOK /\ status[r] = "Open" /\ e \in Nat /\ e > 0
      /\ bid[r][a].escrow \in Nat
      /\ status' = status /\ terms' = terms /\ winner' = winner
      /\ published' = published
      /\ bid'[r][a] = CommittedBid(c, e)
      /\ \A x \in Account \ {a} : bid'[r][x] = bid[r][x]
      /\ \A q \in RoundId \ {r} : bid'[q] = bid[q]
  BY <1>1 DEF CommitEffect
<1>3. ~Keys[r]
  <2>1. now <= terms[r].commit_deadline
    BY DEF Commit
  <2>2. terms[r] \in RoundTerms
    BY <1>2, InputAssumption DEF IInv, RoundInv, CreatedInv
  <2>3. terms[r].commit_deadline \in Nat /\ now \in Nat
    BY <1>2, <2>2 DEF RoundTerms, TypeOK
  <2>4. KeyPublic(r) => now > terms[r].commit_deadline
    BY CommitIsOver DEF KeyPublic
  <2> QED
    BY <2>1, <2>3, <2>4, OfferValues
<1>4. Keys' = Keys
  BY <1>2, KeysKept
<1>5. Offers' = [Offers EXCEPT ![r][a] = [price |-> c, locked |-> e]]
  <2>1. OfferOf(r, a)' = [price |-> c, locked |-> e]
    BY <1>2 DEF OfferOf, CommittedBid
  <2>2. \A q \in RoundId, x \in Account : q # r \/ x # a => OfferOf(q, x)' = OfferOf(q, x)
    BY <1>2 DEF OfferOf
  <2> QED
    BY <2>1, <2>2 DEF Offers
<1>6. Showings' = Showings
  <2>1. bid[r][a].revealed_value = None
    BY <1>2 DEF IInv, RoundInv, RevealInv
  <2>2. bid'[r][a].revealed_value = None
    BY <1>2 DEF CommittedBid
  <2> QED
    BY <1>2, <2>1, <2>2, ShowingsKept
<1>7. /\ balance[a] + Offers[r][a].locked >= e
      /\ balance' = [balance EXCEPT ![a] = balance[a] + Offers[r][a].locked - e]
  <2>1. /\ balance[a] + bid[r][a].escrow >= e
        /\ balance' = [balance EXCEPT ![a] = balance[a] - (e - bid[r][a].escrow)]
    BY DEF Commit, NetEscrow
  <2>2. balance[a] \in Nat
    BY <1>2 DEF TypeOK
  <2>3. balance[a] - (e - bid[r][a].escrow) = balance[a] + bid[r][a].escrow - e
    BY <1>2, <2>2
  <2>4. Offers[r][a].locked = bid[r][a].escrow
    BY OfferValues
  <2> QED
    BY <2>1, <2>3, <2>4
<1> QED
  BY <1>2, <1>3, <1>4, <1>5, <1>6, <1>7 DEF Promise!Bid

LEMMA OpenRevealMaps ==
  ASSUME NEW r \in RoundId, TypeOK, OpenReveal(r)
  PROVE  Promise!Open(r)
<1>1. /\ status[r] = "Open" /\ status' = [status EXCEPT ![r] = "Revealing"]
      /\ terms' = terms /\ published' = published /\ bid' = bid
      /\ winner' = winner /\ balance' = balance
      /\ terms[r].reveal_round \in published
  BY DEF OpenReveal, clock, outcome, tokens
<1>2. Keys[r] /\ Keys' = Keys
  <2>1. \A q \in RoundId : status'[q] = "None" <=> status[q] = "None"
    BY <1>1 DEF TypeOK
  <2> QED
    BY <1>1, <2>1, KeysKept, OfferValues DEF KeyPublic
<1>3. Offers' = Offers /\ Showings' = Showings
  BY <1>1, OffersKept, ShowingsKept
<1> QED
  BY <1>1, <1>2, <1>3 DEF Promise!Open

LEMMA RevealMaps ==
  ASSUME IInv, NEW r \in RoundId, NEW a \in Account, NEW v \in Value, Reveal(r, a, v)
  PROVE  Promise!Show(r, a)
<1>1. /\ status[r] = "Revealing" /\ v = bid[r][a].commitment
      /\ v <= bid[r][a].escrow
      /\ status' = status /\ terms' = terms /\ published' = published
      /\ winner' = winner /\ balance' = balance
  BY DEF Reveal, Opens, clock, outcome, tokens
<1>2. v # None
  BY InputAssumption, NoneAssumption
<1>3. Keys' = Keys
  BY <1>1, KeysKept
<1>4. bid \in [RoundId -> [Account -> BidState]] /\ bid[r][a] \in BidState
  BY DEF IInv, TypeOK
<1> DEFINE b == [bid[r][a] EXCEPT !.revealed_value = v, !.valid = v > 0]
<1>5. /\ b.commitment = bid[r][a].commitment /\ b.escrow = bid[r][a].escrow
      /\ b.revealed_value = v
  BY <1>4, RevealedBid
<1>6. bid' = [bid EXCEPT ![r] = [bid[r] EXCEPT ![a] = b]]
  BY <1>4 DEF Reveal
<1> HIDE DEF b
<1>7. /\ bid'[r][a] = b /\ \A x \in Account \ {a} : bid'[r][x] = bid[r][x]
      /\ \A q \in RoundId \ {r} : bid'[q] = bid[q]
  BY <1>4, <1>6
<1>8. Offers' = Offers
  <2>1. \A q \in RoundId, x \in Account :
          /\ bid'[q][x].commitment = bid[q][x].commitment
          /\ bid'[q][x].escrow = bid[q][x].escrow
    BY <1>5, <1>7
  <2> QED
    BY <2>1, OffersKept
<1>9. Showings' = [Showings EXCEPT ![r] = Showings[r] \cup {a}]
  <2>1. Shown(r)' = Shown(r) \cup {a}
    BY <1>2, <1>5, <1>7 DEF Shown
  <2>2. \A q \in RoundId \ {r} : Shown(q)' = Shown(q)
    BY <1>7 DEF Shown
  <2> QED
    BY <2>1, <2>2 DEF Showings
<1> QED
  BY <1>1, <1>2, <1>3, <1>8, <1>9, OfferValues DEF Promise!Show
-----------------------------------------------------------------------------
(***************************************************************************)
(* The three ways a round ends.                                            *)
(***************************************************************************)

\* Refunding everyone gives every account what its offer locked.
LEMMA RefundsMap ==
  ASSUME IInv, NEW r \in RoundId, RefundAll(r), status[r] \notin Terminal
  PROVE  balance' = [a \in Account |-> balance[a] + Offers[r][a].locked]
<1>1. /\ TypeOK /\ \A a \in Account : ~bid[r][a].settled
      /\ \A a \in Account \ Indexed(r) : bid[r][a] = NoBid
  BY DEF IInv, RoundInv, IndexInv
<1>2. \A a \in Account : RefundTo(r, a) = Offers[r][a].locked
  BY <1>1, OfferValues DEF RefundTo, Owed, NoBid
<1> QED
  BY <1>2 DEF RefundAll

\* A call that ends a round changes none of its offers or showings.
LEMMA EndingKeeps ==
  ASSUME TypeOK, NEW r \in RoundId, bid' = bid \/ (MarkSettled(r) /\ bidders' = bidders),
         NEW s, s # "None", status[r] # "None", status' = [status EXCEPT ![r] = s],
         terms' = terms, published' = published
  PROVE  Offers' = Offers /\ Showings' = Showings /\ Keys' = Keys
<1>1. \A q \in RoundId, a \in Account :
         /\ bid'[q][a].commitment = bid[q][a].commitment
         /\ bid'[q][a].escrow = bid[q][a].escrow
         /\ bid'[q][a].revealed_value = bid[q][a].revealed_value
  BY MarkSettledBids
<1>2. \A q \in RoundId : status'[q] = "None" <=> status[q] = "None"
  BY DEF TypeOK
<1> QED
  BY <1>1, <1>2, OffersKept, ShowingsKept, KeysKept

LEMMA VoidMaps ==
  ASSUME IInv, NEW r \in RoundId, Void(r)
  PROVE  Promise!Cancel(r)
<1>1. /\ TypeOK /\ status[r] = "Open" /\ status' = [status EXCEPT ![r] = "Voided"]
      /\ terms' = terms /\ published' = published /\ winner' = winner
      /\ RefundAll(r) /\ MarkSettled(r) /\ bidders' = bidders
  BY DEF IInv, Void, Voidable, RefundAll, clock, outcome
<1>2. Offers' = Offers /\ Showings' = Showings /\ Keys' = Keys
  BY <1>1, EndingKeeps
<1>3. balance' = [a \in Account |-> balance[a] + Offers[r][a].locked]
  BY <1>1, RefundsMap DEF Terminal
<1> QED
  BY <1>1, <1>2, <1>3 DEF Promise!Cancel

LEMMA ClearMaps ==
  ASSUME IInv, NEW r \in RoundId, Clear(r)
  PROVE  Promise!Cancel(r) \/ \E a \in Account : Promise!Award(r, a)
<1>1. /\ TypeOK /\ status[r] = "Revealing" /\ bidders' = bidders
      /\ terms' = terms /\ published' = published
  BY DEF IInv, Clear, Clearable, clock
<1>2. BestOfFirst(r, Len(bidders[r]), BestBidder(r))
  BY <1>1, BestBidderIsBest
<1>3. CASE BestBidder(r) = None
  <2>1. /\ status' = [status EXCEPT ![r] = "Voided"] /\ winner' = winner
        /\ RefundAll(r) /\ MarkSettled(r)
    BY <1>3 DEF Clear, outcome, RefundAll
  <2>2. Offers' = Offers /\ Showings' = Showings /\ Keys' = Keys
    BY <1>1, <2>1, EndingKeeps
  <2>3. balance' = [a \in Account |-> balance[a] + Offers[r][a].locked]
    BY <1>1, <2>1, RefundsMap DEF Terminal
  <2>4. \A j \in 1 .. Len(bidders[r]) : ~Eligible(r, bidders[r][j])
    <3>1. \A i \in 1 .. Len(bidders[r]) : bidders[r][i] # None
      BY <1>1, IndexedInAccount, NoneAssumption
    <3> QED
      BY <1>2, <1>3, <3>1 DEF BestOfFirst
  <2>5. \A a \in Indexed(r) : ~Eligible(r, a)
    BY <1>1, <2>4, IndexedInAccount
  <2>6. Promise!Standing(r) = {}
    BY <2>5, StandingIsValid
  <2>7. Promise!Cancel(r)
    BY <1>1, <2>1, <2>2, <2>3, <2>6 DEF Promise!Cancel
  <2> QED
    BY <2>7
<1>4. CASE BestBidder(r) # None
  <2>1. PICK w : w = BestBidder(r)
    OBVIOUS
  <2>2. /\ status' = [status EXCEPT ![r] = "Cleared"]
        /\ winner' = [winner EXCEPT ![r] = w]
        /\ bid' = bid /\ balance' = balance
    BY <1>4, <2>1 DEF Clear, tokens
  <2>3. Offers' = Offers /\ Showings' = Showings /\ Keys' = Keys
    BY <1>1, <2>2, EndingKeeps
  <2>4. PICK i \in 1 .. Len(bidders[r]) :
          /\ w = bidders[r][i]
          /\ Eligible(r, w)
          /\ \A j \in 1 .. Len(bidders[r]) : Eligible(r, bidders[r][j]) =>
                ~Better(terms[r].clearing_rule, ValueAt(r, j), bid[r][w].revealed_value)
    BY <1>2, <1>4, <2>1 DEF BestOfFirst
  <2>5. w \in Account /\ bid[r][w].valid
    BY <1>1, <2>4, IndexedInAccount DEF Eligible
  <2>6. w \in Promise!Standing(r)
    BY <2>5, StandingIsValid
  <2>7. ASSUME NEW b \in Promise!Standing(r)
        PROVE  Promise!AtLeastAsGood(r, w, b)
    <3>1. /\ b \in Account /\ bid[r][b].valid /\ b \in Indexed(r) /\ Eligible(r, b)
          /\ bid[r][b].revealed_value = bid[r][b].commitment
          /\ bid[r][w].revealed_value = bid[r][w].commitment
      BY <2>5, <2>7, StandingIsValid
    <3>2. ~Better(terms[r].clearing_rule, bid[r][b].revealed_value, bid[r][w].revealed_value)
      <4>1. PICK j \in 1 .. Len(bidders[r]) : bidders[r][j] = b
        BY <1>1, <3>1, IndexedInAccount
      <4> QED
        BY <2>4, <3>1, <4>1 DEF ValueAt
    <3>3. bid[r][b].commitment \in Int /\ bid[r][w].commitment \in Int
      <4>1. bid[r][b] \in BidState /\ bid[r][w] \in BidState
        BY <1>1, <2>5, <3>1 DEF TypeOK
      <4>2. bid[r][b].revealed_value # None /\ bid[r][w].revealed_value # None
        BY <2>4, <3>1 DEF Eligible
      <4> QED
        BY <3>1, <4>1, <4>2, RevealedInt
    <3>4. /\ Offers[r][b].price = bid[r][b].commitment
          /\ Offers[r][w].price = bid[r][w].commitment
      BY <2>5, <3>1, OfferValues
    <3> QED
      BY <3>1, <3>2, <3>3, <3>4 DEF Better, Promise!AtLeastAsGood
  <2>8. Promise!Award(r, w)
    BY <1>1, <2>2, <2>3, <2>6, <2>7 DEF Promise!Award
  <2> QED
    BY <2>5, <2>8
<1> QED
  BY <1>3, <1>4

LEMMA SettleMaps ==
  ASSUME IInv, NEW r \in RoundId, Settle(r)
  PROVE  Promise!Settle(r)
<1>1. /\ TypeOK /\ status[r] = "Cleared" /\ status' = [status EXCEPT ![r] = "Settled"]
      /\ terms' = terms /\ published' = published /\ winner' = winner
      /\ MarkSettled(r) /\ bidders' = bidders
  BY DEF IInv, Settle, clock, outcome
<1>2. Offers' = Offers /\ Showings' = Showings /\ Keys' = Keys
  BY <1>1, EndingKeeps
<1>3. PICK p : p = winning_bid[r]
  OBVIOUS
<1>4. /\ winner[r] \in Indexed(r) /\ winner[r] \in Account
      /\ p \in Nat /\ p = Offers[r][winner[r]].price
  <2>1. WonByBest(r) /\ RoundInv(r)
    BY <1>1 DEF IInv, RoundInv, OutcomeInv
  <2>2. winner[r] \in Indexed(r) /\ winner[r] \in Account /\ p \in Nat
    BY <1>1, <1>3, <2>1, WinnerCovered
  <2>3. p = bid[r][winner[r]].commitment
    BY <1>3, <2>1 DEF WonByBest
  <2> QED
    BY <2>2, <2>3, OfferValues
<1>5. ASSUME NEW a \in Account
      PROVE  balance'[a] = balance[a] + Offers[r][a].locked
                             - Promise!Paid(r, a) + Promise!Received(r, a)
  <2>1. /\ ~bid[r][a].settled
        /\ a \notin Indexed(r) => bid[r][a].escrow = 0
        /\ bid[r][a].escrow \in Nat /\ balance[a] \in Nat
    <3>1. bid[r][a] \in BidState /\ balance[a] \in Nat
      BY <1>1 DEF TypeOK
    <3>2. RoundInv(r) /\ status[r] = "Cleared"
      BY <1>1 DEF IInv
    <3>3. ~bid[r][a].settled /\ (a \notin Indexed(r) => bid[r][a].escrow = 0)
      BY <3>2 DEF RoundInv, IndexInv, Terminal, NoBid
    <3> QED
      BY <3>1, <3>3 DEF BidState
  <2>2. /\ Promise!Paid(r, a) = IF a = winner[r] THEN p ELSE 0
        /\ Promise!Received(r, a) = IF a = terms[r].operator THEN p ELSE 0
    BY <1>4 DEF Promise!Paid, Promise!Received
  <2>3. Offers[r][a].locked = bid[r][a].escrow
    BY OfferValues
  <2>4. balance'[a] = balance[a]
                      + (IF a \in Indexed(r) THEN SettleRefund(r)[a] ELSE 0)
                      + (IF a = terms[r].operator THEN p ELSE 0)
    BY <1>3 DEF Settle, OperatorPay
  <2>5. (IF a \in Indexed(r) THEN SettleRefund(r)[a] ELSE 0)
          = bid[r][a].escrow - (IF a = winner[r] THEN p ELSE 0)
    <3>1. SettleRefund(r)[a] = IF a = winner[r] THEN bid[r][a].escrow - p ELSE bid[r][a].escrow
      BY <1>3, <2>1 DEF SettleRefund, Owed
    <3>2. a \notin Indexed(r) => a # winner[r] /\ bid[r][a].escrow = 0
      BY <1>4, <2>1
    <3> QED
      BY <1>4, <2>1, <3>1, <3>2
  <2> QED
    BY <1>4, <2>1, <2>2, <2>3, <2>4, <2>5
<1>6. balance' = [a \in Account |-> balance[a] + Offers[r][a].locked
                                    - Promise!Paid(r, a) + Promise!Received(r, a)]
  <2>1. balance' = [a \in Account |-> balance'[a]]
    BY DEF Settle
  <2> QED
    BY <1>5, <2>1
<1> QED
  BY <1>1, <1>2, <1>6 DEF Promise!Settle
-----------------------------------------------------------------------------
(***************************************************************************)
(* The refinement.                                                         *)
(***************************************************************************)
LEMMA StepMaps == IInv /\ [Next]_vars => [Promise!Next]_(Promise!vars)
<1> SUFFICES ASSUME IInv, [Next]_vars
             PROVE  Promise!Next \/ UNCHANGED Promise!vars
  OBVIOUS
<1>1. CASE Tick \/ UNCHANGED vars
  BY <1>1, InvisibleStep DEF Tick, vars, outcome, tokens
<1>2. CASE \E R \in DrandRound : Publish(R)
  BY <1>2, PublishMaps DEF Promise!Next
<1>3. CASE \E t \in Terms : CreateRound(t)
  BY <1>3, CreateRoundMaps DEF Promise!Next
<1>4. CASE \E r \in RoundId, a \in Account, c \in Value \cup {None}, e \in Escrow,
              s \in DrandRound : Commit(r, a, c, e, s)
  BY <1>4, CommitMaps DEF Promise!Next
<1>5. CASE \E r \in RoundId : OpenReveal(r)
  BY <1>5, OpenRevealMaps DEF Promise!Next, IInv
<1>6. CASE \E r \in RoundId, a \in Account, v \in Value : Reveal(r, a, v)
  BY <1>6, RevealMaps DEF Promise!Next
<1>7. CASE \E r \in RoundId : Clear(r)
  BY <1>7, ClearMaps DEF Promise!Next
<1>8. CASE \E r \in RoundId : Settle(r)
  BY <1>8, SettleMaps DEF Promise!Next
<1>9. CASE \E r \in RoundId : Void(r)
  BY <1>9, VoidMaps DEF Promise!Next
<1> QED
  BY <1>1, <1>2, <1>3, <1>4, <1>5, <1>6, <1>7, <1>8, <1>9 DEF Next

\* The contract implements the sealed auction: every call of create_round,
\* commit, open_reveal, reveal, clear, settle and void is one step of it, and
\* nothing else an observer of the auction sees ever changes.
THEOREM ContractKeepsPromise == Spec => KeepsPromise
  BY InitMaps, StepMaps, InvariantHolds, PTL DEF Spec, KeepsPromise, Promise!Spec
=============================================================================
