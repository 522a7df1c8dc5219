---------------------------- MODULE MCWebSession ----------------------------
(***************************************************************************)
(* Two rounds and a wallet with two accounts.                              *)
(***************************************************************************)
EXTENDS WebSession, TLC

CONSTANTS ann, bob

MCRound == 1 .. 2
MCWallet == {ann, bob}
WalletSymmetry == Permutations(MCWallet)
=============================================================================
