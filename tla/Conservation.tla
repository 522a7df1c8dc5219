----------------------------- MODULE Conservation -----------------------------
(***************************************************************************)
(* The SDK's proof, before any payout runs, that a round's escrow adds up   *)
(* (packages/sdk/src/conservation.ts), the preflights built on it and on a  *)
(* simulation (client.ts, preflight.ts), and the walk of the bidder index   *)
(* that receipts use (SubRosaClient.bidders).                              *)
(*                                                                         *)
(* A sample of kind "conservation" is a round of the contract, the pages    *)
(* that answer the walk, the bidders whose state cannot be read and the     *)
(* outcome of simulating the payout.  A bidder is its position in the index.*)
(* The walk asks for its pages by number, as its interface and its tests do; *)
(* the client's own page call takes an opaque token, and throws at a number. *)
(***************************************************************************)
EXTENDS SettlementGuard, Functions, Sums

CONSTANTS ESCROW_PAGE_SIZE,     \* the longest page
          ESCROW_MAX_BIDDERS    \* the most bidders of a round

ASSUME ConservationAssumption ==
    ESCROW_PAGE_SIZE \in Nat \ {0} /\ ESCROW_MAX_BIDDERS \in Nat \ {0}

PagesFor(total, size) == (total + size - 1) \div size

\* The index in pages of the given size, from a numeric cursor.
HonestPages(total, size) ==
    LET count == IF total = 0 THEN 1 ELSE PagesFor(total, size)
    IN  [p \in 1 .. count |->
           [total |-> total, next |-> IF p = count THEN 0 ELSE p * size,
            data |-> [k \in 1 .. IF p = count THEN total - (p - 1) * size ELSE size
                        |-> (p - 1) * size + k]]]
-----------------------------------------------------------------------------
(***************************************************************************)
(* The predicate and the report.                                           *)
(***************************************************************************)
Totals == {"held", "refundable", "payable", "won"}

Surplus(totals) == totals.won - totals.payable
Stranded(totals) == totals.held - (totals.refundable + totals.payable + Surplus(totals))

\* The operator is paid out of the winner's escrow, never on top of it.
IsEscrowConserved(totals, issues) ==
    /\ issues = {}
    /\ \A t \in Totals : totals[t] >= 0
    /\ Surplus(totals) >= 0
    /\ Stranded(totals) = 0

EvaluateConservation(walk, payable) ==
    LET totals == [held |-> walk.held, refundable |-> walk.refundable,
                   payable |-> payable, won |-> walk.won]
    IN  [bidders |-> Len(walk.seen), totals |-> totals, surplus |-> Surplus(totals),
         conserved |-> IsEscrowConserved(totals, walk.issues),
         issues |-> walk.issues
                    \cup IF Stranded(totals) > 0 THEN {"escrow_stranded"} ELSE {}]
-----------------------------------------------------------------------------
(***************************************************************************)
(* The walk: every defect of a page or of a bid becomes an issue.          *)
(***************************************************************************)
NewWalk(issues) ==
    [seen |-> <<>>, held |-> 0, refundable |-> 0, won |-> 0, total |-> None,
     cursor |-> 0, pages |-> 0, done |-> FALSE, issues |-> issues]

Noted(walk, code) == [walk EXCEPT !.issues = @ \cup {code}]

\* One bidder of a page: its escrow counts as held even when already settled.
BidderStep(round, unread, winner, walk, i) ==
      IF i \in ToSet(walk.seen) THEN Noted(walk, "duplicate_bidder")
      ELSE LET new == [walk EXCEPT !.seen = Append(@, i)]
           IN  IF i \in unread \/ i \notin DOMAIN round.bids THEN Noted(new, "bid_state_missing")
               ELSE LET b == round.bids[i]
                        held == [new EXCEPT !.held = @ + b.escrow]
                    IN  CASE b.settled -> Noted(held, "bidder_already_settled")
                          [] ~b.settled /\ i = winner -> [held EXCEPT !.won = @ + b.escrow]
                          [] OTHER -> [held EXCEPT !.refundable = @ + b.escrow]

\* The bidders of one page, in turn.
ReadPage(round, unread, winner, walk, data) ==
    LET read[k \in 0 .. Len(data)] ==
            IF k = 0 THEN walk ELSE BidderStep(round, unread, winner, read[k - 1], data[k])
    IN  read[Len(data)]

\* One page: the total, its bidders, then whether the cursor moves on.
PageStep(round, unread, winner, size, walk, page) ==
      LET told == IF walk.total \in {None, page.total} THEN walk
                  ELSE Noted(walk, "page_total_drift")
          read == ReadPage(round, unread, winner, told, page.data)
          next == [read EXCEPT !.pages = @ + 1,
                               !.total = IF @ = None THEN page.total ELSE @]
          last == [next EXCEPT !.done = TRUE]
      IN  IF walk.done THEN walk
          ELSE IF Len(next.seen) > ESCROW_MAX_BIDDERS THEN Noted(last, "page_count_mismatch")
          ELSE IF page.next = 0 THEN last
          ELSE IF \/ page.next <= walk.cursor \/ page.next > ESCROW_MAX_BIDDERS
                  \/ next.pages > PagesFor(ESCROW_MAX_BIDDERS, size)
               THEN Noted(last, "cursor_stalled")
          ELSE [next EXCEPT !.cursor = page.next]

\* The pages in turn, until one ends the walk.
ReadPages(round, unread, winner, size, pages, walk) ==
    LET read[p \in 0 .. Len(pages)] ==
            IF p = 0 THEN walk
            ELSE PageStep(round, unread, winner, size, read[p - 1], pages[p])
    IN  read[Len(pages)]

\* Seeded fault: what the pages held is taken for the whole index.
CrossChecked_PagesOnly(walk, winner, expected) == walk

\* After the walk: the winner, the list on the round record, the total.
CrossChecked(walk, winner, expected) ==
    [walk EXCEPT !.issues = @
        \cup (IF winner # None /\ winner \notin ToSet(walk.seen)
              THEN {"winner_not_indexed"} ELSE {})
        \cup (IF expected # ToSet(walk.seen) THEN {"index_mismatch"} ELSE {})
        \cup (IF walk.total # None /\ Len(walk.seen) # walk.total
              THEN {"page_count_mismatch"} ELSE {})]

\* A page call that throws, here past the last page, is not caught.
Thrown == [conserved |-> FALSE, thrown |-> TRUE]

ProveFromPages(round, size, pages, unread, payable, winner, issues) ==
    LET walk == ReadPages(round, unread, winner, size, pages, NewWalk(issues))
    IN  IF size \notin 1 .. ESCROW_PAGE_SIZE
        THEN EvaluateConservation(NewWalk(issues \cup {"cursor_stalled"}), payable)
        ELSE IF ~walk.done THEN Thrown
        ELSE EvaluateConservation(CrossChecked(walk, winner, DOMAIN round.bids), payable)

\* proveEscrowConservation: what the round record says before any page is read.
RoundIssues(round, phase) ==
    (IF round.status # (IF phase = "settle" THEN "Cleared" ELSE "Revealing")
     THEN {"round_wrong_status"} ELSE {})
    \cup (IF phase = "settle" /\ round.winner = None THEN {"no_winner"} ELSE {})

\* The walk with the options proveEscrowConservation gives it.
ProveForPhase(round, phase, size, pages, unread) ==
    LET pays == phase = "settle" /\ round.winner # None
    IN  ProveFromPages(round, size, pages, unread,
                       IF pays THEN round.bid ELSE 0, IF pays THEN round.winner ELSE None,
                       RoundIssues(round, phase))

\* What getBiddersPage of the client answers to a cursor that is a number: it
\* copies the bytes of the cursor, 0 has none, and the first call throws.
AskedByNumber(pages) == <<>>

ProveEscrowConservation(round, phase, size, pages, unread) ==
    ProveForPhase(round, phase, size, AskedByNumber(pages), unread)

\* A walk that throws is reported like one that does not add up.
PreflightSettleConservation(round, size, pages, unread) ==
    IF ProveEscrowConservation(round, "settle", size, pages, unread).conserved
    THEN "conserved" ELSE "refused"

\* Here it is not caught.
PreflightVoidConservation(round, size, pages, unread) ==
    LET report == ProveEscrowConservation(round, "void", size, pages, unread)
    IN  IF report = Thrown THEN "thrown" ELSE IF report.conserved THEN "conserved" ELSE "refused"
-----------------------------------------------------------------------------
(***************************************************************************)
(* Preflight by simulation: the answer, or what kind of failure stopped it. *)
(* An outcome of a simulation is "accepted" or "rejected" by the contract,  *)
(* or one of the ways it has no answer.                                    *)
(***************************************************************************)
BuildFailure == {"SimulationFailed", "ExpiredState", "transport"}

ClassifyBuildError(failure) ==
    CASE failure = "SimulationFailed" -> "simulation_error"
      [] failure = "ExpiredState"     -> "expired_state"
      [] OTHER                        -> "rpc_error"

EvaluatePreflight(outcome) ==
    CASE outcome = "missing"  -> "malformed_response"
      [] outcome = "error"    -> "simulation_error"
      [] outcome = "restore"  -> "expired_state"
      [] outcome = "rejected" -> "contract_error"
      [] outcome = "accepted" -> "ok"

\* A misconfigured client throws; everything else is a result.
Preflight(outcome) ==
    IF outcome \in {"config", "network"} THEN "thrown"
    ELSE IF outcome \in BuildFailure THEN ClassifyBuildError(outcome)
    ELSE EvaluatePreflight(outcome)

PreflightSettle(outcome) == Preflight(outcome)
-----------------------------------------------------------------------------
(***************************************************************************)
(* SubRosaClient.bidders, by opaque tokens: a page is checked whole before  *)
(* any of it is yielded, and the first page that is wrong ends the walk.    *)
(***************************************************************************)
PageValid(walk, page) ==
    /\ walk.total \in {None, page.total}
    /\ Len(page.data) <= ESCROW_PAGE_SIZE
    /\ IsInjective(page.data)
    /\ ToSet(page.data) \cap ToSet(walk.seen) = {}
    /\ LET seen == Len(walk.seen) + Len(page.data)
       IN  /\ seen <= page.total
           /\ page.next # 0 => page.data # <<>> /\ seen < page.total
           /\ page.next = 0 => seen = page.total
    /\ page.next \notin walk.tokens

BiddersStep(walk, page) ==
    IF walk.done THEN walk
    ELSE IF ~PageValid(walk, page) THEN [walk EXCEPT !.done = TRUE, !.failed = TRUE]
    ELSE [walk EXCEPT !.total = page.total, !.seen = @ \o page.data,
                      !.tokens = @ \cup ({page.next} \ {0}), !.done = page.next = 0]

BiddersWalk(pages) ==
    LET read[p \in 0 .. Len(pages)] ==
            IF p = 0 THEN [total |-> None, seen |-> <<>>, tokens |-> {}, done |-> FALSE,
                           failed |-> FALSE]
            ELSE BiddersStep(read[p - 1], pages[p])
    IN  read[Len(pages)]
-----------------------------------------------------------------------------
\* A settle that proveEscrowConservationFromPages reports as conserved, over any
\* source of pages, is one the contract accepts, and it refunds, pays out and
\* returns to the winner what settle will (conservation.ts:16-20 and 22-23): a
\* bidder dropped, counted twice or already paid is never proved.  A cleared
\* round whose index a source hands out to the end is proved.  No simulation of
\* a proved settle is refused by the contract.  The client's bidders() yields
\* nobody twice, and when it ends without an error as many as the index holds.
ConservedMeansPaid ==
    sample.kind = "conservation" =>
        LET round == sample.round
            report == ProveForPhase(round, "settle", sample.size, sample.pages, sample.unread)
            walk == BiddersWalk(sample.pages)
            honest == /\ sample.size \in 1 .. ESCROW_PAGE_SIZE
                      /\ sample.pages = HonestPages(Len(round.bids), sample.size)
            pays == ContractPays("settle", round)
            refunds == [i \in DOMAIN round.bids |-> IF i = round.winner THEN 0 ELSE pays[i]]
        IN  /\ report.conserved =>
                 /\ ContractAccepts("settle", round, 0)
                 /\ report.totals.refundable = Sum(refunds, Len(round.bids))
                 /\ report.surplus = pays[round.winner]
                 /\ report.totals.payable = round.bid
                 /\ PreflightSettle(sample.simulated) \notin {"contract_error", "simulation_error"}
            /\ honest /\ sample.unread = {} /\ ContractAccepts("settle", round, 0) => report.conserved
            /\ IsInjective(walk.seen)
            /\ walk.done /\ ~walk.failed => Len(walk.seen) = sample.pages[1].total
            /\ honest => walk.done /\ ~walk.failed
=============================================================================
