-------------------------- MODULE RoundRefinement --------------------------
(***************************************************************************)
(* RoundContract implements SealedAuction: what of a round's storage an    *)
(* observer of the auction sees.                                           *)
(***************************************************************************)
EXTENDS RoundContract

\* The key to a round's bids is public once Drand published its round.
KeyPublic(r) == status[r] # "None" /\ terms[r].reveal_round \in published
Keys == [r \in RoundId |-> KeyPublic(r)]

OfferOf(r, a) == [price |-> bid[r][a].commitment, locked |-> bid[r][a].escrow]
Offers == [r \in RoundId |-> [a \in Account |-> OfferOf(r, a)]]

Shown(r) == {a \in Account : bid[r][a].revealed_value # None}
Showings == [r \in RoundId |-> Shown(r)]

Promise == INSTANCE SealedAuction WITH
    Auction <- RoundId,
    Deal <- Terms,
    Price <- Value,
    Amount <- Escrow,
    deal <- terms,
    public <- Keys,
    offer <- Offers,
    shown <- Showings,
    award <- winner,
    wallet <- balance

\* The contract keeps the promise of a sealed auction: nobody's offer changes
\* once its key is public, the award goes to a best shown offer, and every
\* token locked by commit leaves exactly once, through the two commits of an
\* overwrite, settle, clear or void.
KeepsPromise == Promise!Spec
=============================================================================
