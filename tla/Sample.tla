-------------------------------- MODULE Sample --------------------------------
(***************************************************************************)
(* The pure rules of the off-chain code are checked one input at a time:    *)
(* the initial states are the inputs, and a property holds of each of them. *)
(* A module of rules extends this one and speaks of the samples of its kind. *)
(***************************************************************************)
EXTENDS Integers

CONSTANT None           \* no value

ASSUME NoneAssumption == None \notin Int

VARIABLE sample         \* the input, a record that names its kind

Keep == UNCHANGED sample
=============================================================================
