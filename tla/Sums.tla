-------------------------------- MODULE Sums --------------------------------
(***************************************************************************)
(* Finite sums of integers, written as a recursive function so that they   *)
(* can be evaluated by TLC and reasoned about by TLAPS.                     *)
(***************************************************************************)
EXTENDS Integers, Sequences

\* d[1] + ... + d[n]
Sum(d, n) ==
    LET upTo[k \in 0 .. n] == IF k = 0 THEN 0 ELSE upTo[k - 1] + d[k]
    IN  upTo[n]

\* f[s[1]] + ... + f[s[Len(s)]]: a quantity of the elements a sequence lists.
SumOver(f, s) == Sum([i \in 1 .. Len(s) |-> f[s[i]]], Len(s))
=============================================================================
