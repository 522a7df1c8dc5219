--------------------------- MODULE RoundContract ---------------------------
(***************************************************************************)
(* The Soroban contract of a Sub Rosa round (contracts/round/src): the      *)
(* round registry, the sealed bids, the escrow ledger of every round and    *)
(* the token balances its transfers move.  One action per contract entry    *)
(* point; a call that returns an error or traps is rolled back by the host  *)
(* and changes nothing, so an error is a guard that is false.               *)
(*                                                                         *)
(* A commitment is modelled by the value it opens to, or by None when it    *)
(* is a digest nobody can open; the nonce is part of the opening.  A Drand  *)
(* signature verifies exactly when that Drand round has been published.     *)
(***************************************************************************)
EXTENDS Sums

CONSTANTS
    Account,        \* addresses: bidders and operators
    None,           \* Option::None, and a commitment without known opening
    Terms,          \* create_round arguments callers may use
    DrandRound,     \* Drand rounds the beacon may publish
    Value,          \* sealed bid values (any sign: the contract decides)
    Escrow,         \* escrow arguments of commit (any sign)
    Funds,          \* initial token balance of every account
    MAX_BIDDERS,
    VOID_GRACE,
    DRAND_GENESIS,
    DRAND_PERIOD,
    U64_MAX,
    MaxRounds,      \* bound: rounds ever created
    MaxTime,        \* bound: last ledger timestamp
    MaxCommitted    \* bound: cumulative escrow of one round

ClearingRule == {"HighestBid", "LowestBid"}

RoundTerms == [operator : Account, reveal_round : Nat,
               clearing_rule : ClearingRule,
               commit_deadline : Nat, reveal_deadline : Nat]

ASSUME NoneAssumption == None \notin Account /\ None \notin Int
ASSUME InputAssumption ==
    /\ Terms \subseteq RoundTerms
    /\ DrandRound \subseteq Nat
    /\ Value \subseteq Int
    /\ Escrow \subseteq Int
    /\ Funds \in [Account -> Nat]
ASSUME ParameterAssumption ==
    /\ MAX_BIDDERS \in Nat
    /\ VOID_GRACE \in Nat
    /\ DRAND_GENESIS \in Nat
    /\ DRAND_PERIOD \in Nat
    /\ U64_MAX \in Nat
    /\ MaxRounds \in Nat
    /\ MaxTime \in Nat
    /\ MaxCommitted \in Nat

RoundId == 1 .. MaxRounds

VARIABLES
    now,            \* env.ledger().timestamp()
    published,      \* Drand rounds whose signature is public
    counter,        \* DataKey::RoundCounter
    terms,          \* the arguments a round was created with
    status,         \* Round.status ("None" before create_round)
    bidders,        \* Round.bidders: the ordered bidder index
    winner,         \* Round.winner
    winning_bid,    \* Round.winning_bid
    bid,            \* DataKey::State: BidState of every account, or NoBid
    ledger,         \* DataKey::Escrow: EscrowLedger of a round, or NoLedger
    balance,        \* token balance of every account
    held            \* token balance of the contract itself

vars == <<now, published, counter, terms, status, bidders, winner,
          winning_bid, bid, ledger, balance, held>>

tokens == <<balance, held>>
outcome == <<winner, winning_bid>>
clock == <<now, published>>

Status == {"None", "Open", "Revealing", "Cleared", "Settled", "Voided"}
Terminal == {"Settled", "Voided"}

NoBid == [commitment |-> None, escrow |-> 0, revealed_value |-> None,
          valid |-> FALSE, settled |-> FALSE]
BidState == [commitment : Value \cup {None}, escrow : Nat,
             revealed_value : Value \cup {None},
             valid : BOOLEAN, settled : BOOLEAN]

EscrowLedger == [committed : Int, payout : Int, refunds : Int, locked : Int]
NoLedger == [committed |-> -1, payout |-> 0, refunds |-> 0, locked |-> 0]   \* None
-----------------------------------------------------------------------------
(***************************************************************************)
(* Drand arithmetic (drand.rs).                                            *)
(***************************************************************************)
TimeOfRound(R) == DRAND_GENESIS + DRAND_PERIOD * R

\* checked_time_of_round is Some: neither zero nor past the u64 range.
PublishableRound(R) == R # 0 /\ TimeOfRound(R) <= U64_MAX

(***************************************************************************)
(* Escrow accounting (lib.rs).                                             *)
(***************************************************************************)
LedgerOf(committed, payout, refunds, locked) ==
    [committed |-> committed, payout |-> payout, refunds |-> refunds, locked |-> locked]

Deposit(l, x) == LedgerOf(l.committed + x, l.payout, l.refunds, l.locked + x)

\* Seeded fault: the refund is recorded but the escrow stays locked.
Refund_StillLocked(l, x) == LedgerOf(l.committed + x, l.payout, l.refunds + x, l.locked)

Refund(l, x) == LedgerOf(l.committed, l.payout, l.refunds + x, l.locked - x)
PayOperator(l, x) == LedgerOf(l.committed, l.payout + x, l.refunds, l.locked - x)

Conserved(l) ==
    /\ l.committed >= 0
    /\ l.payout >= 0
    /\ l.refunds >= 0
    /\ l.locked >= 0
    /\ l.committed = l.payout + l.refunds + l.locked

Indexed(r) == {bidders[r][i] : i \in DOMAIN bidders[r]}

\* Every indexed bidder has durable bid state.
IndexComplete(r) == \A a \in Indexed(r) : bid[r][a] # NoBid
NoneSettled(r) == \A a \in Indexed(r) : ~bid[r][a].settled

\* scan_bidder_index: the escrow of the indexed bids not settled yet.
Owed(r) == [a \in Account |-> IF bid[r][a].settled THEN 0 ELSE bid[r][a].escrow]
IndexLocked(r) == SumOver(Owed(r), bidders[r])

\* ensure_ledger: the stored ledger, or one seeded from the bidder index.
EnsureLedger(r) ==
    IF ledger[r] # NoLedger THEN ledger[r]
    ELSE LedgerOf(IndexLocked(r), 0, 0, IndexLocked(r))
LedgerAvailable(r) == ledger[r] # NoLedger \/ IndexComplete(r)

\* prove_conserved accepts the round.
Proved(r) ==
    /\ LedgerAvailable(r)
    /\ IndexComplete(r)
    /\ Conserved(EnsureLedger(r))
    /\ IndexLocked(r) = EnsureLedger(r).locked

MarkSettled(r) ==
    bid' = [bid EXCEPT ![r] =
              [a \in Account |->
                 IF a \in Indexed(r) THEN [bid[r][a] EXCEPT !.settled = TRUE]
                 ELSE bid[r][a]]]

\* What account a gets back when every unsettled indexed escrow is refunded.
RefundTo(r, a) == IF a \in Indexed(r) THEN Owed(r)[a] ELSE 0

\* Seeded fault: an overwrite's refund counts as "already paid out".
NothingPaidOut_Refunds(r) == EnsureLedger(r).payout + EnsureLedger(r).refunds = 0

\* "A void pays nobody, and nothing may already have been paid out".
NothingPaidOut(r) == EnsureLedger(r).payout = 0

\* refund_all's checks: conserved, nothing paid out, nobody settled, and
\* nothing left locked when every refund has been made.
RefundAllAccepted(r) ==
    LET l == EnsureLedger(r)
    IN  /\ Proved(r)
        /\ NothingPaidOut(r)
        /\ NoneSettled(r)
        /\ held >= IndexLocked(r)
        /\ Conserved(Refund(l, IndexLocked(r)))
        /\ Refund(l, IndexLocked(r)).locked = 0

RefundAll(r) ==
    /\ RefundAllAccepted(r)
    /\ balance' = [a \in Account |-> balance[a] + RefundTo(r, a)]
    /\ held' = held - IndexLocked(r)
    /\ ledger' = [ledger EXCEPT ![r] = Refund(EnsureLedger(r), IndexLocked(r))]
    /\ MarkSettled(r)
-----------------------------------------------------------------------------
Init ==
    /\ now = 0
    /\ published = {}
    /\ counter = 0
    /\ terms = [r \in RoundId |-> None]
    /\ status = [r \in RoundId |-> "None"]
    /\ bidders = [r \in RoundId |-> <<>>]
    /\ winner = [r \in RoundId |-> None]
    /\ winning_bid = [r \in RoundId |-> 0]
    /\ bid = [r \in RoundId |-> [a \in Account |-> NoBid]]
    /\ ledger = [r \in RoundId |-> NoLedger]
    /\ balance = Funds
    /\ held = 0

(***************************************************************************)
(* The environment: ledgers close and Drand publishes, or stalls forever.  *)
(***************************************************************************)
Tick ==
    /\ now < MaxTime
    /\ now' = now + 1
    /\ UNCHANGED <<published, counter, terms, status, bidders, outcome, bid,
                   ledger, tokens>>

Publish(R) ==
    /\ R \notin published
    /\ now >= TimeOfRound(R)
    /\ published' = published \cup {R}
    /\ UNCHANGED <<now, counter, terms, status, bidders, outcome, bid, ledger,
                   tokens>>

(***************************************************************************)
(* The contract.                                                           *)
(***************************************************************************)
\* Seeded fault: commits may still land at the instant R is published.
ClosesBeforeBeacon_OffByOne(t) == t.commit_deadline <= TimeOfRound(t.reveal_round)

\* "Commit must close strictly before R is published."
ClosesBeforeBeacon(t) == t.commit_deadline < TimeOfRound(t.reveal_round)

CreateRound(t) ==
    /\ t.reveal_round # 0
    /\ PublishableRound(t.reveal_round)
    /\ ClosesBeforeBeacon(t)
    /\ t.reveal_deadline > TimeOfRound(t.reveal_round)
    /\ t.commit_deadline > now
    /\ counter < MaxRounds
    /\ counter' = counter + 1
    /\ terms' = [terms EXCEPT ![counter + 1] = t]
    /\ status' = [status EXCEPT ![counter + 1] = "Open"]
    /\ bidders' = [bidders EXCEPT ![counter + 1] = <<>>]
    /\ winner' = [winner EXCEPT ![counter + 1] = None]
    /\ winning_bid' = [winning_bid EXCEPT ![counter + 1] = 0]
    /\ UNCHANGED <<clock, bid, ledger, tokens>>

\* Seeded fault: only a zero escrow is refused.
AmountAccepted_NonZero(e) == e # 0

AmountAccepted(e) == e > 0

\* Seeded fault: an edit appends the bidder to the index a second time.
IndexAfter_Always(r, a) == Append(bidders[r], a)

\* The bidder index after a commit: only a first bid is pushed.
IndexAfter(r, a) == IF bid[r][a] = NoBid THEN Append(bidders[r], a) ELSE bidders[r]

\* Seeded fault: an edit takes the new escrow and keeps the old one.
NetEscrow_KeepsOld(prev, e) == e

\* Tokens an accepted commit moves from the bidder to the contract.
NetEscrow(prev, e) == e - prev.escrow

\* A bid for round r by account a sealing commitment c, overwriting the bid a
\* has in the round, if any: the old escrow is returned first, then e is taken.
Commit(r, a, c, e, seal_round) ==
    LET prev  == bid[r][a]
        first == prev = NoBid
        returned == Refund(EnsureLedger(r), prev.escrow)
    IN  /\ status[r] = "Open"
        /\ now <= terms[r].commit_deadline
        /\ AmountAccepted(e)
        /\ seal_round = terms[r].reveal_round
        /\ first => Len(bidders[r]) < MAX_BIDDERS
        /\ LedgerAvailable(r)
        /\ EnsureLedger(r).committed + e <= MaxCommitted
        /\ held >= prev.escrow
        /\ balance[a] + prev.escrow >= e
        /\ bidders' = [bidders EXCEPT ![r] = IndexAfter(r, a)]
        /\ ledger' = [ledger EXCEPT ![r] = Deposit(returned, e)]
        /\ balance' = [balance EXCEPT ![a] = @ - NetEscrow(prev, e)]
        /\ held' = held + NetEscrow(prev, e)
        /\ bid' = [bid EXCEPT ![r][a] =
                     [commitment |-> c, escrow |-> e, revealed_value |-> None,
                      valid |-> FALSE, settled |-> FALSE]]
        /\ UNCHANGED <<clock, counter, terms, status, outcome>>

OpenReveal(r) ==
    /\ status[r] = "Open"
    /\ now > terms[r].commit_deadline
    /\ terms[r].reveal_round \in published
    /\ status' = [status EXCEPT ![r] = "Revealing"]
    /\ UNCHANGED <<clock, counter, terms, bidders, outcome, bid, ledger, tokens>>

\* Seeded fault: the digest of the revealed value is not compared.
Opens_Unchecked(r, a, v) == v \in Value

\* sha256(be16(value) || nonce) is the commitment.
Opens(r, a, v) == v = bid[r][a].commitment

Reveal(r, a, v) ==
    /\ status[r] = "Revealing"
    /\ now <= terms[r].reveal_deadline
    /\ bid[r][a] # NoBid
    /\ bid[r][a].revealed_value = None
    /\ Proved(r)
    /\ Opens(r, a, v)
    /\ v <= bid[r][a].escrow
    /\ bid' = [bid EXCEPT ![r][a].revealed_value = v, ![r][a].valid = v > 0]
    /\ ledger' = [ledger EXCEPT ![r] = EnsureLedger(r)]
    /\ UNCHANGED <<clock, counter, terms, status, bidders, outcome, tokens>>

(***************************************************************************)
(* clear's pass over the bidder index: the account whose revealed value is *)
(* best among the first k indexed bids, an earlier bid winning a tie.      *)
(***************************************************************************)
\* Seeded fault: a revealed bid that is not positive may win.
Eligible_NotPositive(r, a) == bid[r][a] # NoBid /\ bid[r][a].revealed_value # None

Eligible(r, a) ==
    /\ bid[r][a] # NoBid
    /\ bid[r][a].valid
    /\ bid[r][a].revealed_value # None

\* Seeded fault: a later equal bid displaces an earlier one.
Better_Ties(rule, v, w) == IF rule = "HighestBid" THEN v >= w ELSE v <= w

Better(rule, v, w) == IF rule = "HighestBid" THEN v > w ELSE v < w

Beats(r, a, best) ==
    \/ best = None
    \/ Better(terms[r].clearing_rule, bid[r][a].revealed_value,
              bid[r][best].revealed_value)

BestBidder(r) ==
    LET best[k \in 0 .. Len(bidders[r])] ==
          IF k = 0 THEN None
          ELSE LET a == bidders[r][k]
               IN  IF Eligible(r, a) /\ Beats(r, a, best[k - 1]) THEN a
                   ELSE best[k - 1]
    IN  best[Len(bidders[r])]

\* Seeded fault: the AlreadyCleared, AlreadySettled and RoundVoided checks gone.
Clearable_AnyStatus(r) == status[r] \notin {"None", "Open"}

Clearable(r) == status[r] = "Revealing"

Clear(r) ==
    /\ Clearable(r)
    /\ now > terms[r].reveal_deadline
    /\ \/ /\ BestBidder(r) = None
          /\ status' = [status EXCEPT ![r] = "Voided"]
          /\ RefundAll(r)
          /\ UNCHANGED outcome
       \/ /\ BestBidder(r) # None
          /\ status' = [status EXCEPT ![r] = "Cleared"]
          /\ winner' = [winner EXCEPT ![r] = BestBidder(r)]
          /\ winning_bid' = [winning_bid EXCEPT
                               ![r] = bid[r][BestBidder(r)].revealed_value]
          /\ UNCHANGED <<bid, ledger, tokens>>
    /\ UNCHANGED <<clock, counter, terms, bidders>>

\* settle's refunds: the winner's surplus and every other unsettled escrow.
SettleRefund(r) ==
    [a \in Account |-> IF a = winner[r] /\ ~bid[r][a].settled
                       THEN bid[r][a].escrow - winning_bid[r]
                       ELSE Owed(r)[a]]
RefundTotal(r) == SumOver(SettleRefund(r), bidders[r])

SettledLedger(r) ==
    PayOperator(Refund(EnsureLedger(r), RefundTotal(r)), winning_bid[r])

\* Seeded fault: the winning bid is sent to the winner.
OperatorPay_ToWinner(r, a) == IF a = winner[r] THEN winning_bid[r] ELSE 0

\* What settle transfers to account a as the operator of round r.
OperatorPay(r, a) == IF a = terms[r].operator THEN winning_bid[r] ELSE 0

\* Every check settle makes before and after its transfers.
SettleAccepted(r) ==
    /\ winner[r] # None
    /\ Proved(r)
    /\ NoneSettled(r)
    /\ winner[r] \in Indexed(r) => winning_bid[r] <= bid[r][winner[r]].escrow
    /\ winning_bid[r] + RefundTotal(r) = IndexLocked(r)
    /\ held >= IndexLocked(r)
    /\ Conserved(SettledLedger(r))
    /\ SettledLedger(r).locked = 0

Settle(r) ==
    /\ status[r] = "Cleared"
    /\ SettleAccepted(r)
    /\ balance' = [a \in Account |->
                     balance[a]
                     + (IF a \in Indexed(r) THEN SettleRefund(r)[a] ELSE 0)
                     + OperatorPay(r, a)]
    /\ held' = held - winning_bid[r] - RefundTotal(r)
    /\ ledger' = [ledger EXCEPT ![r] = SettledLedger(r)]
    /\ MarkSettled(r)
    /\ status' = [status EXCEPT ![r] = "Settled"]
    /\ UNCHANGED <<clock, counter, terms, bidders, outcome>>

\* Seeded fault: a round that opened can be voided too.
Voidable_Opened(r) == status[r] \in {"Open", "Revealing"}

Voidable(r) == status[r] = "Open"

\* The addition reveal_deadline + VOID_GRACE traps when it leaves u64.
Void(r) ==
    /\ Voidable(r)
    /\ terms[r].reveal_deadline + VOID_GRACE <= U64_MAX
    /\ now > terms[r].reveal_deadline + VOID_GRACE
    /\ status' = [status EXCEPT ![r] = "Voided"]
    /\ RefundAll(r)
    /\ UNCHANGED <<clock, counter, terms, bidders, outcome>>

Next ==
    \/ Tick
    \/ \E R \in DrandRound : Publish(R)
    \/ \E t \in Terms : CreateRound(t)
    \/ \E r \in RoundId, a \in Account, c \in Value \cup {None}, e \in Escrow,
          s \in DrandRound : Commit(r, a, c, e, s)
    \/ \E r \in RoundId : OpenReveal(r)
    \/ \E r \in RoundId, a \in Account, v \in Value : Reveal(r, a, v)
    \/ \E r \in RoundId : Clear(r)
    \/ \E r \in RoundId : Settle(r)
    \/ \E r \in RoundId : Void(r)

Spec == Init /\ [][Next]_vars

(***************************************************************************)
(* Ledgers keep closing, and clear, settle and void are called again until *)
(* they succeed: every one of them is permissionless and the keeper's loop *)
(* retries it on every poll.  Nobody is obliged to commit, open or reveal, *)
(* and Drand owes nothing.                                                 *)
(***************************************************************************)
Fairness ==
    /\ WF_vars(Tick)
    /\ \A r \in RoundId : WF_vars(Clear(r)) /\ WF_vars(Settle(r)) /\ WF_vars(Void(r))

FairSpec == Spec /\ Fairness
-----------------------------------------------------------------------------
(***************************************************************************)
(* Properties.                                                             *)
(***************************************************************************)

\* Every piece of contract storage and every token balance has its type: in
\* particular no balance is ever negative, whoever commits, edits or settles.
TypeOK ==
    /\ now \in 0 .. MaxTime
    /\ published \subseteq DrandRound
    /\ counter \in 0 .. MaxRounds
    /\ terms \in [RoundId -> Terms \cup {None}]
    /\ status \in [RoundId -> Status]
    /\ bidders \in [RoundId -> Seq(Account)]
    /\ winner \in [RoundId -> Account \cup {None}]
    /\ winning_bid \in [RoundId -> Int]
    /\ bid \in [RoundId -> [Account -> BidState]]
    /\ ledger \in [RoundId -> EscrowLedger]
    /\ balance \in [Account -> Nat]
    /\ held \in Nat

\* Conservation (lib.rs `conserved`, `prove_conserved`): the ledger of a round
\* accounts for exactly the escrow its unsettled indexed bids hold, and the
\* contract holds exactly the escrow of all rounds together, so no round is
\* ever paid out of another round's escrow.
Backed(r) ==
    \/ ledger[r] = NoLedger /\ bidders[r] = <<>>
    \/ Conserved(ledger[r]) /\ ledger[r].locked = IndexLocked(r)
EscrowBacked ==
    /\ \A r \in RoundId : Backed(r)
    /\ held = Sum([r \in RoundId |-> IndexLocked(r)], MaxRounds)

\* Exactly-once payment: whatever an account overwrote, won, lost or had
\* refunded, its tokens are its initial funds less the escrow of its live
\* bids, less every bid it won, plus every winning bid paid to it as operator.
InEscrow(r, a) == IF status[r] \in Terminal THEN 0 ELSE bid[r][a].escrow
Earned(r, a) ==
    IF status[r] # "Settled" THEN 0
    ELSE (IF a = terms[r].operator THEN winning_bid[r] ELSE 0)
         - (IF a = winner[r] THEN winning_bid[r] ELSE 0)
BooksBalance ==
    \A a \in Account :
        balance[a] = Funds[a]
                     + Sum([r \in RoundId |-> Earned(r, a) - InEscrow(r, a)], MaxRounds)

\* settle "cannot fail for lack of funds" (lib.rs, doc of settle): no check of
\* settle ever rejects a cleared round, and no check of refund_all ever rejects
\* a round that clear or void would have to refund.
PayoutNeverRefused ==
    \A r \in RoundId :
        /\ status[r] = "Cleared" => SettleAccepted(r)
        /\ status[r] \in {"Open", "Revealing"} => RefundAllAccepted(r)

\* The cleared outcome is the right one: the winner's own sealed value, covered
\* by its escrow, beaten by no valid bid and, among equals, first committed.
ValueAt(r, i) == bid[r][bidders[r][i]].revealed_value
ValidAt(r, i) == bid[r][bidders[r][i]].valid
WonByBest(r) ==
    \E i \in DOMAIN bidders[r] :
        /\ winner[r] = bidders[r][i]
        /\ winning_bid[r] = bid[r][winner[r]].commitment
        /\ winning_bid[r] \in 1 .. bid[r][winner[r]].escrow
        /\ \A j \in DOMAIN bidders[r] : ValidAt(r, j) =>
              /\ ~Better(terms[r].clearing_rule, ValueAt(r, j), winning_bid[r])
              /\ ValueAt(r, j) = winning_bid[r] => i <= j
WinnerIsBest ==
    \A r \in RoundId : status[r] \in {"Cleared", "Settled"} => WonByBest(r)

\* A recorded reveal is the value sealed before the beacon existed, covered by
\* the escrow behind it; nothing is revealed before Drand published the round.
SealedReveal(r, a) ==
    bid[r][a].revealed_value # None =>
        /\ bid[r][a].revealed_value = bid[r][a].commitment
        /\ bid[r][a].revealed_value <= bid[r][a].escrow
        /\ terms[r].reveal_round \in published
RevealedIsSealed == \A r \in RoundId, a \in Account : SealedReveal(r, a)

\* Voiding never takes a round from a bidder who could have won it: a voided
\* round has no valid revealed bid, no winner, and every bid in it is refunded.
HarmlessVoid(r) ==
    /\ winner[r] = None
    /\ \A a \in Indexed(r) : ~bid[r][a].valid /\ bid[r][a].settled
VoidedIsHarmless == \A r \in RoundId : status[r] = "Voided" => HarmlessVoid(r)

\* Confidential commit: from the moment the beacon that opens a round is
\* public, the bids of the round are frozen (who bid, commitment and escrow),
\* and a value once revealed is never replaced or withdrawn.
SealedBids(r) == [a \in Account |-> <<bid[r][a].commitment, bid[r][a].escrow>>]
FrozenOncePublished ==
    [][\A r \in RoundId :
          (status[r] # "None" /\ terms[r].reveal_round \in published)
          => /\ SealedBids(r)' = SealedBids(r)
             /\ bidders'[r] = bidders[r]
             /\ \A a \in Account : bid[r][a].revealed_value # None
                  => bid'[r][a].revealed_value = bid[r][a].revealed_value]_vars

\* A settled or voided round is closed for good: no later call changes its
\* outcome, its bids or its books.
TerminalIsFinal ==
    [][\A r \in RoundId : status[r] \in Terminal =>
          /\ status'[r] = status[r]
          /\ winner'[r] = winner[r] /\ winning_bid'[r] = winning_bid[r]
          /\ bid'[r] = bid[r] /\ ledger'[r] = ledger[r]]_vars

\* Liveness (lib.rs, doc of void; services/keeper/src/keeper.ts): every round
\* ends settled or voided, its escrow paid out, even when Drand stalls, nobody
\* opens it, or nobody reveals.
EveryRoundResolves ==
    \A r \in RoundId : status[r] = "Open" ~> status[r] \in Terminal
=============================================================================
