--------------------------- MODULE SettlementGuard ---------------------------
(***************************************************************************)
(* The keeper's settlement guard (services/keeper/src/settlement-guard.ts):  *)
(* its view of a round, read bidder by bidder, the decision whether to      *)
(* submit a settle or a void, what it says the contract will pay, and the   *)
(* entry that suppresses duplicates.                                       *)
(*                                                                         *)
(* A sample of kind "guard" is a round of the contract, the part of it that *)
(* could be read, the keeper's clock and the calls made on the guard.       *)
(***************************************************************************)
EXTENDS Sample, Sequences, SequencesExt

CONSTANTS Unread, VOID_GRACE_SECONDS

ASSUME GuardAssumption == VOID_GRACE_SECONDS \in Nat /\ Unread \notin Int /\ None # Unread
-----------------------------------------------------------------------------
(***************************************************************************)
(* The view.  A bidder is named by the position in the index.              *)
(***************************************************************************)
\* A page that fails leaves a shorter index, a bid state that fails an escrow
\* that is not known.  How many pages are read is the reader's: the SDK's client
\* refuses the number the guard passes as a cursor, so with it read is zero.
ReadSettlementView(round, read, unread, now) ==
    [status |-> round.status, rule |-> round.rule, deadline |-> round.deadline,
     now |-> now, total |-> Len(round.bids), winner |-> round.winner, bid |-> round.bid,
     bidders |-> [i \in 1 .. read |->
        IF i \in unread THEN [escrow |-> Unread, value |-> None, settled |-> FALSE]
                        ELSE round.bids[i]]]

Complete(view) ==
    /\ Len(view.bidders) >= view.total
    /\ \A i \in DOMAIN view.bidders : view.bidders[i].escrow # Unread

Candidates(view) ==
    {i \in DOMAIN view.bidders :
        LET b == view.bidders[i]
        IN  b.escrow # Unread /\ b.value # None /\ b.value > 0}

\* Seeded fault: the highest bid wins under either rule.
Better_Higher(view, i, j) == view.bidders[i].value > view.bidders[j].value

Better(view, i, j) ==
    IF view.rule = "LowestBid" THEN view.bidders[i].value < view.bidders[j].value
                               ELSE view.bidders[i].value > view.bidders[j].value

\* The first candidate that no other one is better than.
ExpectedWinner(view) ==
    LET best == {i \in Candidates(view) : \A j \in Candidates(view) : ~Better(view, j, i)}
    IN  IF best = {} THEN None ELSE CHOOSE i \in best : \A j \in best : i <= j

Unpaid(view, i) ==
    LET b == view.bidders[i] IN ~b.settled /\ b.escrow # Unread

\* What each bidder but the winner is to get back.
Refunds(view, winner) ==
    [i \in {j \in DOMAIN view.bidders :
               Unpaid(view, j) /\ j # winner /\ view.bidders[j].escrow > 0}
        |-> view.bidders[i].escrow]

WinnerSurplus(view) ==
    LET b == view.bidders[view.winner]
    IN  IF Unpaid(view, view.winner) /\ b.escrow > view.bid THEN b.escrow - view.bid ELSE 0
-----------------------------------------------------------------------------
(***************************************************************************)
(* The decisions: the first rule that refuses, or "allowed".               *)
(***************************************************************************)
VoidAfter(view) == view.deadline + VOID_GRACE_SECONDS

Unverified(view) ==
    IF Len(view.bidders) < view.total THEN "bidder_page_incomplete"
    ELSE IF ~Complete(view) THEN "refund_missing" ELSE "allowed"

EvaluateSettle(view) ==
    CASE view.status = "Settled" -> "already_settled"
      [] view.status = "Voided"  -> "round_voided"
      [] view.status \in {"Open", "Revealing"} -> "not_cleared"
      [] OTHER ->
           IF view.winner = None THEN "missing_winner"
           ELSE IF Unverified(view) # "allowed" THEN Unverified(view)
           ELSE IF \/ ExpectedWinner(view) # view.winner
                   \/ view.bidders[view.winner].value # view.bid
                THEN "winner_mismatch" ELSE "allowed"

EvaluateVoid(view) ==
    CASE view.status = "Voided"  -> "round_voided"
      [] view.status = "Settled" -> "already_settled"
      [] view.status \in {"Revealing", "Cleared"} -> "void_not_open"
      [] OTHER ->
           IF view.now <= VoidAfter(view) THEN "void_grace_not_elapsed" ELSE Unverified(view)

Evaluate(action, view) ==
    IF action = "settle" THEN EvaluateSettle(view) ELSE EvaluateVoid(view)

\* The plan of an allowed action: what the operator and every bidder get.
Plan(action, view) ==
    IF action = "settle"
    THEN [operator |-> view.bid, refunds |-> Refunds(view, view.winner),
          surplus |-> WinnerSurplus(view)]
    ELSE [operator |-> 0, refunds |-> Refunds(view, None), surplus |-> 0]
-----------------------------------------------------------------------------
(***************************************************************************)
(* The entry of a round, [status, skip], and what the calls make of it.    *)
(***************************************************************************)
NewEntry == [status |-> "pending", skip |-> None]
CanSettle(entry) == entry.status = "pending"

\* check: duplicates are refused before any rule is evaluated.
Check(entry, action, view) ==
    LET reason == Evaluate(action, view)
    IN  IF ~CanSettle(entry) THEN entry
        ELSE IF reason = "allowed" THEN [entry EXCEPT !.skip = None]
        ELSE [status |-> IF reason \in {"already_settled", "round_voided"}
                         THEN "terminal" ELSE entry.status,
              skip |-> reason]

MarkSubmitted(entry) == [status |-> "submitted", skip |-> None]
MarkTerminal(entry) == [entry EXCEPT !.status = "terminal"]

\* Seeded fault: the entry stays as the submission left it.
MarkRetryable_Submitted(entry) == entry

MarkRetryable(entry) == [entry EXCEPT !.status = "pending"]

\* voidIfStale with a guard: the entry after the check, the call and its answer.
\* An answer the contract gives a call that comes too late is final.
VoidIfStale(entry, view, answer) ==
    LET checked == Check(entry, "void", view)
    IN  IF ~CanSettle(entry) \/ EvaluateVoid(view) # "allowed" THEN checked
        ELSE IF answer \in {"ok", "NotVoidable", "WrongStatus", "AlreadyCleared"}
             THEN MarkTerminal(MarkSubmitted(checked))
             ELSE MarkRetryable(MarkSubmitted(checked))
-----------------------------------------------------------------------------
(***************************************************************************)
(* What the contract does (contracts/round/src/lib.rs: clear, settle, void) *)
(***************************************************************************)
Valid(bid) == bid.value # None /\ bid.value > 0

\* clear walks the index and replaces its best bid by a strictly better one.
Cleared(rule, bids) ==
    LET Replaces(i, best) ==
            /\ Valid(bids[i])
            /\ \/ best = None
               \/ rule = "LowestBid" /\ bids[i].value < bids[best].value
               \/ rule = "HighestBid" /\ bids[i].value > bids[best].value
        best[i \in 0 .. Len(bids)] ==
            IF i = 0 THEN None ELSE IF Replaces(i, best[i - 1]) THEN i ELSE best[i - 1]
    IN  best[Len(bids)]

\* A round in the given status, as the contract leaves it.
ContractRound(status, rule, bids) ==
    LET best == Cleared(rule, bids)
        over == status \in {"Settled", "Voided"}
        won  == status \in {"Cleared", "Settled"}
    IN  [status |-> status, rule |-> rule, deadline |-> 0,
         bids |-> [i \in DOMAIN bids |-> [bids[i] EXCEPT !.settled = over]],
         winner |-> IF won THEN best ELSE None,
         bid |-> IF won /\ best # None THEN bids[best].value ELSE None]

ContractAccepts(action, round, ledgerNow) ==
    IF action = "settle" THEN round.status = "Cleared" /\ round.winner # None
    ELSE round.status = "Open" /\ ledgerNow > round.deadline + VOID_GRACE_SECONDS

\* Every bidder is paid its escrow, the winner what the bid leaves of it.
ContractPays(action, round) ==
    [i \in {j \in DOMAIN round.bids : ~round.bids[j].settled} |->
        IF action = "settle" /\ i = round.winner
        THEN round.bids[i].escrow - round.bid ELSE round.bids[i].escrow]
-----------------------------------------------------------------------------
\* What the plan pays bidder i.
Planned(plan, view, i) ==
    IF i \in DOMAIN plan.refunds THEN plan.refunds[i]
    ELSE IF i = view.winner THEN plan.surplus ELSE 0

\* A guard whose clock is not ahead submits exactly what the contract accepts,
\* of a round it has read completely, and its plan is what the contract pays,
\* bidder by bidder and in all; with anything unread it submits nothing.
GuardMatchesContract ==
    sample.kind = "guard" =>
        LET round == sample.round
            view == ReadSettlementView(round, sample.read, sample.unread, sample.now)
        IN  \A action \in {"settle", "void"} :
               LET allowed == Evaluate(action, view) = "allowed"
                   plan == Plan(action, view)
                   pays == ContractPays(action, round)
               IN  /\ allowed <=> ContractAccepts(action, round, sample.now) /\ Complete(view)
                   /\ allowed =>
                        /\ \A i \in DOMAIN pays : Planned(plan, view, i) = pays[i]
                        /\ DOMAIN plan.refunds \subseteq DOMAIN pays
                        /\ plan.operator = IF action = "settle" THEN round.bid ELSE 0

\* "Failed work is never permanently suppressed" (settlement-guard.ts:199), as
\* long as the keeper's clock is not ahead of the ledger's: after a call whose
\* answer is lost the next pass may send it again, and an entry is terminal only
\* when the round is over.
FailedWorkIsRetried ==
    sample.kind = "guard" =>
        LET view == ReadSettlementView(sample.round, sample.read, sample.unread, sample.now)
            Answer(wanted) ==
                IF ContractAccepts("void", sample.round, sample.now) THEN wanted
                ELSE "NotVoidable"
            once == VoidIfStale(NewEntry, view, Answer("lost"))
            twice == VoidIfStale(once, view, Answer("ok"))
        IN  /\ once.status = "terminal" => sample.round.status \in {"Settled", "Voided"}
            /\ EvaluateVoid(view) = "allowed" => CanSettle(once) /\ twice.status = "terminal"
=============================================================================
