------------------------------- MODULE Bidder -------------------------------
(***************************************************************************)
(* The autonomous bidder (services/agent/src): the mandate a principal      *)
(* signs (mandate.ts) and the run that pays an appraisal, seals and commits  *)
(* within it (bidder.ts).                                                  *)
(*                                                                         *)
(* A sample of kind "bid" is a configured agent and the world it meets in    *)
(* one run: the clock at its five checks, the round at its three reads, the *)
(* answer to the appraisal it pays and the end of its commit.  Time and      *)
(* rounds change between the checks, as they do while the agent waits; the   *)
(* clock is read once for what follows a wait without another one:          *)
(*   1  the mandate                    2  the round once it is read, the      *)
(*   3  the quote that was paid           limits of the payment               *)
(*   4  the round, before the seal     5  round and mandate, before the commit*)
(***************************************************************************)
EXTENDS Appraisal

-----------------------------------------------------------------------------
(***************************************************************************)
(* The mandate.                                                            *)
(***************************************************************************)
ValidateMandateNumbers(m) ==
    /\ m.roundId >= 1
    /\ {m.maxBid, m.maxEscrow, m.maxSpend, m.price, m.commitDeadline, m.issuedAt, m.expiresAt}
         \subseteq Nat
    /\ "" \notin {m.asset, m.payTo}

ValidateMandateTimestampOrdering(m) ==
    /\ m.issuedAt <= m.expiresAt
    /\ m.issuedAt <= m.commitDeadline
    /\ m.commitDeadline <= m.expiresAt

\* What is issued is signed; None when the parameters are refused.
CreateSessionMandate(params, now, ttl) ==
    LET m == [params EXCEPT !.issuedAt = now, !.expiresAt = now + ttl, !.signed = TRUE]
    IN  IF ValidateMandateNumbers(m) /\ ValidateMandateTimestampOrdering(m) THEN m ELSE None

VerifySessionMandate(m, now) ==
    /\ m.version = 1 /\ m.signed
    /\ ValidateMandateNumbers(m) /\ ValidateMandateTimestampOrdering(m)
    /\ now <= m.expiresAt /\ now <= m.commitDeadline
    /\ m.maxBid <= m.maxEscrow
    /\ m.price <= m.maxSpend

\* The run gives it nothing spent, whatever earlier runs of the session paid.
AssertAppraisalSpendAllowed(m, price, spent) == price <= m.price /\ spent + price <= m.maxSpend

\* The operator's own setting counts only where the mandate has none.
AssertAppraisalQuoteAllowed(m, quote, config, now) ==
    LET Expected(own, other) == IF own # None THEN own ELSE other
    IN  /\ "" \notin {quote.asset, quote.destination} /\ quote.amount > 0
        /\ quote.expiresAt >= 0 /\ now >= 0
        /\ now <= quote.expiresAt
        /\ Expected(m.asset, config.asset) \in {None, quote.asset}
        /\ Expected(m.payTo, config.payTo) \in {None, quote.destination}
        /\ AssertAppraisalSpendAllowed(m, quote.amount, 0)

RemainingAppraisalSpend(m, spent) ==
    IF spent < 0 \/ spent > m.maxSpend THEN None ELSE m.maxSpend - spent

AssertBidWithinMandate(m, bid, escrow) ==
    0 < bid /\ bid <= m.maxBid /\ 0 < escrow /\ escrow <= m.maxEscrow /\ bid <= escrow

\* The suggestion, in stroops, cut to the largest bid; no more is locked.
BidFromAppraisal(suggested, m) == IF suggested > m.maxBid THEN m.maxBid ELSE suggested
-----------------------------------------------------------------------------
(***************************************************************************)
(* The run.                                                                *)
(***************************************************************************)
\* Seeded fault: the last second of the window is one too many.
AssertCommitEligible_AtDeadline(round, now) ==
    round.status = "Open" /\ now >= 0 /\ now <= round.commitDeadline

AssertCommitEligible(round, now) ==
    round.status = "Open" /\ now >= 0 /\ now < round.commitDeadline

AppraisalRequest(config) ==
    [text |-> TRUE, len |-> config.bodyLen, parses |-> "object", credentials |-> config.credentials,
     fields |-> "valid"]

\* The call of the run gives paidFetch its limits and no quote of its own.
PaidFetchCall(config, world) ==
    [accepts |-> world.accepts, quote |-> None, body |-> AppraisalRequest(config),
     rpc |-> "plain", first |-> world.first, second |-> 200, json |-> TRUE,
     limits |-> [asset |-> IF config.asset # None THEN config.asset ELSE config.mandate.asset,
                 destination |-> IF config.payTo # None THEN config.payTo ELSE config.mandate.payTo,
                 max |-> config.mandate.price, expiresAt |-> None, now |-> world.clock[2]]]

\* The paid fetch of this repository, or another one that was injected.
Fetched(config, world) ==
    IF world.injected THEN [result |-> "answer", paid |-> world.charged]
    ELSE LET done == PaidFetch(PaidFetchCall(config, world), world.clock[2])
         IN  [result |-> IF done.result = "answer" /\ world.first \in {200, 402} THEN "answer"
                         ELSE "refused", paid |-> done.paid # None]

MayPayAppraisal(config, world) ==
    LET m == config.mandate
        round == world.rounds[1]
    IN  /\ config.session = m.sessionKey
        /\ VerifySessionMandate(m, world.clock[1])
        /\ AssertCommitEligible(round, world.clock[2])
        /\ config.revealRound >= 1 /\ config.revealRound = round.revealRound
        /\ config.auditor = round.auditor
        /\ AssertAppraisalSpendAllowed(m, m.price, 0)
        /\ AssertAppraisalBodyBytes(AppraisalRequest(config)) = "allowed"

\* The appraisal is for the item, its quote keeps to the mandate, and so does the bid.
AppraisalHolds(config, world) ==
    LET m == config.mandate
        bid == BidFromAppraisal(world.suggested, m)
    IN  /\ world.item = m.item
        /\ world.quote # None => AssertAppraisalQuoteAllowed(m, world.quote, config, world.clock[3])
        /\ AssertBidWithinMandate(m, bid, bid)

\* How far the run comes, and what it reports of its commit.
RunBidderAgent(config, world) ==
    LET m == config.mandate
        bid == BidFromAppraisal(world.suggested, m)
        Ended(at, paid, report) ==
            [at |-> at, paid |-> paid, report |-> report, bid |-> bid, escrow |-> bid,
             revealRound |-> world.rounds[1].revealRound]
        fetched == Fetched(config, world)
        mayCommit == /\ AssertCommitEligible(world.rounds[3], world.clock[5])
                     /\ VerifySessionMandate(m, world.clock[5])
    IN  IF ~MayPayAppraisal(config, world) THEN Ended("refused", FALSE, <<>>)
        ELSE IF fetched.result # "answer" \/ ~AppraisalHolds(config, world)
                \/ ~AssertCommitEligible(world.rounds[2], world.clock[4])
        THEN Ended("appraised", fetched.paid, <<>>)
        ELSE IF ~mayCommit THEN Ended("sealed", fetched.paid, <<>>)
        ELSE IF world.commit = "ok" THEN Ended("committed", fetched.paid, <<"pending", "committed">>)
        ELSE Ended("failed", fetched.paid, <<"pending", "failed">>)
-----------------------------------------------------------------------------
\* An agent sends a commit only while its mandate and the round it last read
\* allow one, for a bid inside every cap, sealed to the Drand round of the
\* round and bought for no more than the price of the mandate (bidder.ts:121,
\* mandate.ts:3-9).  It pays only in a run whose mandate held when the run began
\* and whose round took bids once it was read; the mandate may run out in
\* between, and then the run pays and the check before the commit ends it.  What
\* it pays is within the cap of the session for this run alone.
AgentKeepsItsMandate ==
    sample.kind = "bid" =>
        LET config == sample.config
            world == sample.world
            m == config.mandate
            run == RunBidderAgent(config, world)
        IN  /\ run.report # <<>> =>
                 /\ m.signed /\ config.session = m.sessionKey
                 /\ world.clock[5] <= m.expiresAt /\ world.clock[5] <= m.commitDeadline
                 /\ \A i \in 1 .. 3 : world.rounds[i].status = "Open"
                 /\ world.clock[5] < world.rounds[3].commitDeadline
                 /\ 0 < run.bid /\ run.bid <= run.escrow
                 /\ run.bid <= m.maxBid /\ run.escrow <= m.maxEscrow
                 /\ run.bid <= world.suggested
                 /\ run.revealRound = config.revealRound
                 /\ world.quote # None => world.quote.amount <= m.price
            /\ run.paid =>
                 /\ m.signed /\ m.price <= RemainingAppraisalSpend(m, 0)
                 /\ world.clock[1] <= m.expiresAt /\ world.clock[1] <= m.commitDeadline
                 /\ world.rounds[1].status = "Open"
                 /\ world.clock[2] < world.rounds[1].commitDeadline
            /\ Len(run.report) \in {0, 2}
=============================================================================
