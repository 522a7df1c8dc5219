-------------------------- MODULE MCRoundContract --------------------------
(***************************************************************************)
(* Small instances of RoundContract.  A Drand period of two ledgers and a  *)
(* grace of one keep every deadline of a round, and the void window behind *)
(* it, within MaxTime.                                                     *)
(***************************************************************************)
EXTENDS RoundRefinement, TLC

CONSTANTS ann, bob, op

MCAccount == {ann, bob, op}
MCFunds == [a \in MCAccount |-> IF a = op THEN 1 ELSE 2]

\* The operator may bid as well, so that MAX_BIDDERS = 2 refuses a third bidder.
MCValue == {0, 1, 2, 3}
MCEscrow == {-1, 0, 1, 2}

Term(o, R, rule, c, d) ==
    [operator |-> o, reveal_round |-> R, clearing_rule |-> rule,
     commit_deadline |-> c, reveal_deadline |-> d]

\* Drand round 1 is due at time 2.  The last four are refused by create_round:
\* round zero, past u64, commit at the beacon, reveal closing at the beacon.
SingleTerms ==
    {Term(o, 1, rule, 1, 3) : o \in {op, ann}, rule \in ClearingRule}
    \cup {Term(op, 0, "HighestBid", 1, 3), Term(op, 9, "HighestBid", 1, 19),
          Term(op, 1, "HighestBid", 2, 3), Term(op, 1, "HighestBid", 1, 2)}

\* Two rounds on one token: the second stays open while the first is revealed,
\* cleared, settled or voided.  ann operates the second and bids in both.
PairAccount == {ann, bob}
PairFunds == [a \in PairAccount |-> 2]
PairTerms ==
    {Term(bob, 1, "HighestBid", 1, 3), Term(ann, 2, "LowestBid", 3, 5)}
=============================================================================
