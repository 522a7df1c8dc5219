--------------------------- MODULE SealedAuction ---------------------------
(***************************************************************************)
(* What a Sub Rosa round promises, without ledgers, bidder indexes,         *)
(* deadlines or settlement flags: sealed offers that nobody can change once *)
(* their key is public, one award to a best shown offer, and every token    *)
(* that was locked leaving exactly once.                                    *)
(***************************************************************************)
EXTENDS Integers

CONSTANTS
    Account,
    None,
    Auction,    \* names of the auctions
    Deal,       \* records with at least an operator and a clearing_rule
    Price,      \* values an offer may seal
    Amount,     \* amounts an account may lock
    Funds       \* initial wallet of every account

VARIABLES
    status,
    deal,       \* what an auction was announced with
    public,     \* whether the key that opens an auction's offers is public
    offer,      \* the offer of every account: sealed price and locked amount
    shown,      \* accounts whose offer has been opened
    award,      \* the account that won
    wallet      \* tokens of every account, those locked in offers excluded

vars == <<status, deal, public, offer, shown, award, wallet>>

NoOffer == [price |-> None, locked |-> 0]

Init ==
    /\ status = [r \in Auction |-> "None"]
    /\ deal = [r \in Auction |-> None]
    /\ public = [r \in Auction |-> FALSE]
    /\ offer = [r \in Auction |-> [a \in Account |-> NoOffer]]
    /\ shown = [r \in Auction |-> {}]
    /\ award = [r \in Auction |-> None]
    /\ wallet = Funds

Announce(r, d) ==
    /\ status[r] = "None"
    /\ ~public[r]
    /\ status' = [status EXCEPT ![r] = "Open"]
    /\ deal' = [deal EXCEPT ![r] = d]
    /\ UNCHANGED <<public, offer, shown, award, wallet>>

\* The key of some auctions becomes public, for good.
Unseal(R) ==
    /\ public' = [r \in Auction |-> public[r] \/ r \in R]
    /\ UNCHANGED <<status, deal, offer, shown, award, wallet>>

\* A first offer, or one in place of the account's earlier offer.
Bid(r, a, p, x) ==
    /\ status[r] = "Open"
    /\ ~public[r]
    /\ x > 0
    /\ wallet[a] + offer[r][a].locked >= x
    /\ offer' = [offer EXCEPT ![r][a] = [price |-> p, locked |-> x]]
    /\ wallet' = [wallet EXCEPT ![a] = @ + offer[r][a].locked - x]
    /\ UNCHANGED <<status, deal, public, shown, award>>

Open(r) ==
    /\ status[r] = "Open"
    /\ public[r]
    /\ status' = [status EXCEPT ![r] = "Revealing"]
    /\ UNCHANGED <<deal, public, offer, shown, award, wallet>>

\* An offer is shown as it was sealed, if its locked amount covers it.
Show(r, a) ==
    /\ status[r] = "Revealing"
    /\ offer[r][a].price # None
    /\ offer[r][a].price <= offer[r][a].locked
    /\ shown' = [shown EXCEPT ![r] = @ \cup {a}]
    /\ UNCHANGED <<status, deal, public, offer, award, wallet>>

Standing(r) == {a \in shown[r] : offer[r][a].price > 0}

AtLeastAsGood(r, a, b) ==
    IF deal[r].clearing_rule = "HighestBid"
    THEN offer[r][a].price >= offer[r][b].price
    ELSE offer[r][a].price <= offer[r][b].price

Award(r, a) ==
    /\ status[r] = "Revealing"
    /\ a \in Standing(r)
    /\ \A b \in Standing(r) : AtLeastAsGood(r, a, b)
    /\ status' = [status EXCEPT ![r] = "Cleared"]
    /\ award' = [award EXCEPT ![r] = a]
    /\ UNCHANGED <<deal, public, offer, shown, wallet>>

\* The price moves from the winner's locked amount to the operator; all else
\* that is locked goes back to its owner.
Paid(r, a) == IF a = award[r] THEN offer[r][award[r]].price ELSE 0
Received(r, a) == IF a = deal[r].operator THEN offer[r][award[r]].price ELSE 0

Settle(r) ==
    /\ status[r] = "Cleared"
    /\ status' = [status EXCEPT ![r] = "Settled"]
    /\ wallet' = [a \in Account |->
                    wallet[a] + offer[r][a].locked - Paid(r, a) + Received(r, a)]
    /\ UNCHANGED <<deal, public, offer, shown, award>>

\* Nobody can win: the auction never opened, or no shown offer stands.
Cancel(r) ==
    /\ \/ status[r] = "Open"
       \/ status[r] = "Revealing" /\ Standing(r) = {}
    /\ status' = [status EXCEPT ![r] = "Voided"]
    /\ wallet' = [a \in Account |-> wallet[a] + offer[r][a].locked]
    /\ UNCHANGED <<deal, public, offer, shown, award>>

Next ==
    \/ \E R \in SUBSET Auction : Unseal(R)
    \/ \E r \in Auction :
          \/ \E d \in Deal : Announce(r, d)
          \/ \E a \in Account, p \in Price \cup {None}, x \in Amount : Bid(r, a, p, x)
          \/ Open(r)
          \/ \E a \in Account : Show(r, a)
          \/ \E a \in Account : Award(r, a)
          \/ Settle(r)
          \/ Cancel(r)

Spec == Init /\ [][Next]_vars
=============================================================================
