------------------------------ MODULE MCKeeper ------------------------------
(***************************************************************************)
(* Small instances of Keeper: one or two keepers, two bidders.             *)
(***************************************************************************)
EXTENDS Keeper, TLC

CONSTANTS one, two, ann, bob

TwoKeepers == {one, two}
OneKeeper == {one}
MCBidder == {ann, bob}
MCBidders == <<ann, bob>>

\* The second keeper's clock is ahead.
MCSkew == [k \in {one, two} |-> IF k = one THEN 0 ELSE 1]
\* A single keeper whose clock is ahead.
OneSkew == [k \in {one} |-> 1]

Sealed(x, y) == [b \in MCBidder |-> IF b = ann THEN x ELSE y]

\* Seals that do not get in each other's way.
MCSeals == {Sealed("good", "zero"), Sealed("mismatch", "good"), Sealed("corrupt", "absent")}

PairSeals == {Sealed("good", "zero"), Sealed("mismatch", "good")}

\* A bid above its escrow ahead of a good one.
OverSeals == {Sealed("over", "good")}
=============================================================================
