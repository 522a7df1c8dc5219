---------------------------- MODULE MCStorageTtl ----------------------------
(***************************************************************************)
(* Instances of StorageTtl.  A day is two ledgers of two seconds; as in    *)
(* storage.rs the buffer is one day and the floor two.  The cap is six     *)
(* days instead of sixty.                                                  *)
(***************************************************************************)
EXTENDS StorageTtl

\* Windows that fit under the cap, that outgrow it only for early bids, that
\* outgrow it until the reveal, and one whose TTL wraps the u32 (of 32 values).
MCTimes ==
    {[commit_deadline |-> c, publish |-> c + 1, reveal_deadline |-> d] :
        c \in {9, 17}, d \in {19, 22, 30, 62}}

\* A commit window longer than the cap.
LongTimes == {[commit_deadline |-> 28, publish |-> 30, reveal_deadline |-> 34]}
=============================================================================
