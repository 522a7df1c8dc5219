----------------------------- MODULE WebSession -----------------------------
(***************************************************************************)
(* The live page of the web app: the session that creates, joins, commits  *)
(* and reveals with a wallet (apps/web/src/hooks/useRoundSession.ts), the   *)
(* guide that offers its buttons (pages/DemoPage.tsx), and the poll of an    *)
(* observer (hooks/useLiveRound.ts).                                       *)
(*                                                                         *)
(* A handler runs with the wallet and the round of the render it was clicked *)
(* in, and everything may change at each of its awaits: op is a handler in   *)
(* flight.  The contract is external: a round opens, takes bids until its    *)
(* window closes, and is revealed once Drand publishes.  An auditor key and  *)
(* a ciphertext are named by their round.                                  *)
(***************************************************************************)
EXTENDS Integers, FiniteSets

CONSTANTS None,
          Round,        \* the ids of rounds
          Wallet,       \* the accounts of the user's wallet
          MaxClicks,    \* bound: handlers started
          MaxWorld,     \* bound: steps of everybody else
          MaxReads      \* bound: snapshots of the observer

VARIABLES chain,        \* the rounds on chain
          network,      \* where the wallet is: "sdk", the network of the page, or "other"
          page,         \* the state and the refs of useRoundSession
          ops,          \* handlers and refreshes in flight
          watch,        \* the state of useLiveRound, its polls included
          clicks,       \* handlers started so far
          world         \* steps of everybody else so far

vars == <<chain, network, page, ops, watch, clicks, world>>

StatusRank == [none |-> 0, Open |-> 1, Revealing |-> 2, Settled |-> 3]
-----------------------------------------------------------------------------
(***************************************************************************)
(* What the contract lets happen to a round.                               *)
(***************************************************************************)
Created(c, r)   == [c EXCEPT ![r].status = "Open"]
Bid(c, r, a)    == [c EXCEPT ![r].bids = @ \cup {a}]
Opened(c, r)    == [c EXCEPT ![r].status = "Revealing"]
Revealed(c, r, a) == [c EXCEPT ![r].revealed = @ \cup {a}]
Settled(c, r)   == [c EXCEPT ![r].status = "Settled"]
Later(c, r)     == [c EXCEPT ![r].window = IF @ = "open" THEN "closed" ELSE "published"]

MayBid(c, r)  == c[r].status = "Open" /\ c[r].window = "open"
MayOpen(c, r) == c[r].status = "Open" /\ c[r].window = "published"

World ==
    /\ world < MaxWorld /\ world' = world + 1
    /\ \/ \E r \in Round :
            \/ \E a \in Wallet : MayBid(chain, r) /\ a \notin chain[r].bids /\ chain' = Bid(chain, r, a)
            \/ chain[r].status # "none" /\ chain[r].window # "published" /\ chain' = Later(chain, r)
            \/ MayOpen(chain, r) /\ chain' = Opened(chain, r)
            \/ /\ chain[r].status = "Revealing"
               /\ \/ \E a \in chain[r].bids \ chain[r].revealed : chain' = Revealed(chain, r, a)
                  \/ chain' = Settled(chain, r)
          /\ UNCHANGED network
       \/ network' \in {"sdk", "other"} \ {network} /\ UNCHANGED chain
    /\ UNCHANGED <<page, ops, watch, clicks>>
-----------------------------------------------------------------------------
(***************************************************************************)
(* What the page shows.                                                    *)
(***************************************************************************)
CommitClosed == page.live # None /\ chain[page.live.round].window # "open"

DrandPublished == page.live = None \/ chain[page.live.round].window = "published"

Committed ==
    \/ page.live # None /\ page.address \in page.live.bids
    \/ page.commit # None /\ page.live = None

\* The button the guide offers, apart from Reconnect and Refresh.
Offered ==
    IF page.status = "working" \/ page.mismatch THEN "none"
    ELSE IF page.round = None THEN (IF page.address = None THEN "connect" ELSE "create")
    ELSE IF ~Committed THEN (IF CommitClosed THEN "create" ELSE "commit")
    ELSE IF (page.live # None /\ page.live.revealed # {}) \/ ~DrandPublished THEN "none"
    ELSE "reveal"
-----------------------------------------------------------------------------
(***************************************************************************)
(* A refresh: it starts for the round and the wallet of its closure when     *)
(* they are still current, reads the round, the bidders and each bidder's   *)
(* state, and is applied when nothing has replaced it.                     *)
(***************************************************************************)
MayRefresh(p, op, r) ==
    r # None /\ op.address # None /\ p.mounted /\ p.address = op.address /\ p.round = r

RefreshOf(p, op, r) ==
    [op EXCEPT !.kind = "refresh", !.step = "round", !.round = r,
               !.generation = p.generation, !.request = p.latest + 1]

\* op goes on with p and refreshes, or ends.
Continue(p, op, r) ==
    /\ page' = IF MayRefresh(p, op, r) THEN [p EXCEPT !.latest = @ + 1] ELSE p
    /\ ops' = (ops \ {op}) \cup (IF MayRefresh(p, op, r) THEN {RefreshOf(p, op, r)} ELSE {})

\* Seeded fault: a newer request of the same round does not count.
IsCurrent_AnyRequest(op) ==
    /\ page.mounted /\ page.generation = op.generation
    /\ page.round = op.round /\ page.address = op.address

IsCurrent(op) ==
    /\ page.mounted /\ page.generation = op.generation /\ page.latest = op.request
    /\ page.round = op.round /\ page.address = op.address

Goto(op, step) == (ops \ {op}) \cup {[op EXCEPT !.step = step]}

\* updateSession with the round in it, which ends every older refresh.
UpdateSession(p, r) ==
    [p EXCEPT !.round = r, !.auditor = r, !.commit = None, !.copy = None, !.live = None,
              !.generation = @ + 1]

RefreshReadsRound(op) ==
    /\ op.kind = "refresh" /\ op.step = "round"
    /\ ops' = (ops \ {op}) \cup {[op EXCEPT !.step = "bids", !.status = chain[op.round].status]}
    /\ UNCHANGED page

RefreshReadsBids(op) ==
    /\ op.kind = "refresh" /\ op.step = "bids"
    /\ ops' = (ops \ {op}) \cup {[op EXCEPT !.step = "states", !.bids = chain[op.round].bids,
                                            !.left = chain[op.round].bids,
                                            !.revealed = {}]}
    /\ UNCHANGED page

RefreshReadsState(op) ==
    /\ op.kind = "refresh" /\ op.step = "states"
    /\ \E a \in op.left :
         ops' = (ops \ {op}) \cup {[op EXCEPT !.left = @ \ {a},
                                   !.revealed = @ \cup ({a} \cap chain[op.round].revealed)]}
    /\ UNCHANGED page

RefreshApplies(op) ==
    /\ op.kind = "refresh" /\ op.step = "states" /\ op.left = {}
    /\ page' = IF IsCurrent(op)
               THEN [page EXCEPT !.live = [round |-> op.round, status |-> op.status,
                                           bids |-> op.bids, revealed |-> op.revealed]]
               ELSE page
    /\ ops' = ops \ {op}

\* A failure is the caller's while the refresh is current, and is swallowed then.
RefreshFails(op) ==
    /\ op.kind = "refresh"
    /\ page' = IF IsCurrent(op) /\ op.caller # "refresh" THEN [page EXCEPT !.status = "error"]
               ELSE page
    /\ ops' = ops \ {op}
-----------------------------------------------------------------------------
(***************************************************************************)
(* The handlers.                                                           *)
(***************************************************************************)
Op(kind) ==
    [kind |-> kind, caller |-> kind, n |-> clicks, step |-> "start", address |-> page.address,
     round |-> page.round, auditor |-> page.auditor, generation |-> 0, request |-> 0,
     status |-> None, bids |-> {}, left |-> {}, revealed |-> {}]

Click ==
    /\ clicks < MaxClicks /\ clicks' = clicks + 1
    /\ page.mounted
    /\ \/ /\ page' = [page EXCEPT !.status = "working"]
          /\ \/ ops' = ops \cup {Op("connect")}
             \/ Offered \in {"create", "commit", "reveal"} /\ ops' = ops \cup {Op(Offered)}
             \/ /\ Offered = "create" /\ page.round = None
                /\ \E r \in Round : ops' = ops \cup {[Op("join") EXCEPT !.round = r]}
       \/ Continue(page, Op("refresh"), page.round) /\ page.round # None
    /\ UNCHANGED <<chain, network, watch, world>>

Unmount ==
    /\ page.mounted
    /\ page' = [page EXCEPT !.mounted = FALSE, !.generation = @ + 1]
    /\ UNCHANGED <<chain, network, ops, watch, clicks, world>>

\* The catch of every handler but connect, whose mismatch stays as it was.
Fails(op) ==
    /\ op.kind # "refresh"
    /\ page' = [page EXCEPT !.status = "error"]
    /\ ops' = ops \ {op}
    /\ UNCHANGED chain

\* setAddress renders the page again; its effect ends every refresh in flight.
ConnectGetsAddress(op) ==
    /\ op.kind = "connect" /\ op.step = "start"
    /\ \E a \in Wallet :
         page' = [page EXCEPT !.address = a,
                              !.generation = IF a = page.address THEN @ ELSE @ + 2]
    /\ ops' = Goto(op, "network")
    /\ UNCHANGED chain

\* The client is the one of the click: at the first connect there is none.
ConnectChecksNetwork(op) ==
    /\ op.kind = "connect" /\ op.step = "network"
    /\ page' = [page EXCEPT !.status = "ok", !.mismatch = op.address # None /\ network # "sdk"]
    /\ ops' = ops \ {op}
    /\ UNCHANGED chain

\* The transaction lands before its answer arrives.
CreateSends(op) ==
    /\ op.kind = "create" /\ op.step = "start"
    /\ \E r \in Round :
         /\ chain[r].status = "none"
         /\ \A s \in Round : chain[s].status = "none" => r <= s
         /\ chain' = Created(chain, r)
         /\ ops' = (ops \ {op}) \cup {[op EXCEPT !.step = "done", !.round = r]}
    /\ UNCHANGED page

JoinReads(op) ==
    /\ op.kind = "join" /\ op.step = "start"
    /\ MayBid(chain, op.round)
    /\ ops' = Goto(op, "done")
    /\ UNCHANGED <<chain, page>>

EntersRound(op) ==
    /\ op.kind \in {"create", "join"} /\ op.step = "done"
    /\ Continue([UpdateSession(page, op.round) EXCEPT !.status = "ok"], op, op.round)
    /\ UNCHANGED chain

\* The wallet's network is read before a commit and a reveal.
GuardNetwork(op) ==
    /\ op.kind \in {"commit", "reveal"} /\ op.step = "start"
    /\ IF network = "sdk"
       THEN page' = [page EXCEPT !.mismatch = FALSE] /\ ops' = Goto(op, "send")
       ELSE page' = [page EXCEPT !.mismatch = TRUE, !.status = "error"] /\ ops' = ops \ {op}
    /\ UNCHANGED chain

CommitSends(op) ==
    /\ op.kind = "commit" /\ op.step = "send"
    /\ MayBid(chain, op.round)
    /\ chain' = Bid(chain, op.round, op.address)
    /\ ops' = Goto(op, "done")
    /\ UNCHANGED page

CommitDone(op) ==
    /\ op.kind = "commit" /\ op.step = "done"
    /\ Continue([page EXCEPT !.commit = op.round, !.copy = op.round, !.status = "ok",
                             !.auditor = IF op.auditor # None THEN op.auditor ELSE op.round],
                op, op.round)
    /\ UNCHANGED chain

\* The gate is opened first when nobody has, then one bid after the other; a
\* seal that is gone is skipped, and one reveal at least has to land.
RevealOpens(op) ==
    /\ op.kind = "reveal" /\ op.step = "send"
    /\ MayOpen(chain, op.round)
    /\ chain' = Opened(chain, op.round)
    /\ UNCHANGED <<page, ops>>

RevealSends(op) ==
    /\ op.kind = "reveal" /\ op.step \in {"send", "done"}
    /\ chain[op.round].status = "Revealing"
    /\ \E a \in chain[op.round].bids \ chain[op.round].revealed :
         chain' = Revealed(chain, op.round, a)
    /\ ops' = Goto(op, "done")
    /\ UNCHANGED page

RevealDone(op) ==
    /\ op.kind = "reveal" /\ op.step = "done"
    /\ Continue([page EXCEPT !.status = "ok"], op, op.round)
    /\ UNCHANGED chain

Step(op) ==
    \/ /\ \/ RefreshReadsRound(op) \/ RefreshReadsBids(op) \/ RefreshReadsState(op)
          \/ RefreshApplies(op) \/ RefreshFails(op)
       /\ UNCHANGED chain
    \/ Fails(op)
    \/ ConnectGetsAddress(op) \/ ConnectChecksNetwork(op)
    \/ CreateSends(op) \/ JoinReads(op) \/ EntersRound(op)
    \/ GuardNetwork(op) \/ CommitSends(op) \/ CommitDone(op)
    \/ RevealOpens(op) \/ RevealSends(op) \/ RevealDone(op)
-----------------------------------------------------------------------------
(***************************************************************************)
(* The observer's poll.  A change of its options ends the running effect and *)
(* starts the next one, which waits for the reads in flight.                 *)
(***************************************************************************)
\* The options in force belong to the last effect; the ones before it are cancelled.
Cancelled(poll) == poll.effect # watch.effect

NewPoll(effect, r, step) ==
    [effect |-> effect, round |-> r, step |-> step, status |-> None,
     bids |-> {}, left |-> {}, revealed |-> {}]

Configure ==
    /\ watch.on /\ clicks < MaxClicks /\ clicks' = clicks + 1
    /\ \E r \in Round :
         watch' = [watch EXCEPT !.round = r, !.effect = @ + 1,
                                !.polls = @ \cup {NewPoll(watch.effect + 1, r, "wait")}]
    /\ UNCHANGED <<chain, network, page, ops, world>>

WithPoll(poll, new) == [watch EXCEPT !.polls = (@ \ {poll}) \cup new]

\* A poll reads after the reads before it, and only while its effect lives.
PollStarts(poll) ==
    /\ poll.step = "wait" /\ watch.sequence < MaxReads
    /\ \A other \in watch.polls : other.step \in {"wait", "sleep"}
    /\ watch' = WithPoll(poll, IF Cancelled(poll) THEN {} ELSE {[poll EXCEPT !.step = "round"]})

PollReadsRound(poll) ==
    /\ poll.step = "round"
    /\ watch' = WithPoll(poll, {[poll EXCEPT !.step = "bids", !.status = chain[poll.round].status]})

PollReadsBids(poll) ==
    /\ poll.step = "bids"
    /\ watch' = WithPoll(poll, {[poll EXCEPT !.step = "states", !.bids = chain[poll.round].bids,
                                             !.left = chain[poll.round].bids,
                                             !.revealed = {}]})

PollReadsState(poll) ==
    /\ poll.step = "states"
    /\ \E a \in poll.left :
         watch' = WithPoll(poll, {[poll EXCEPT !.left = @ \ {a},
                                     !.revealed = @ \cup ({a} \cap chain[poll.round].revealed)]})

\* The read ends; the next is scheduled unless the effect has ended.
Asleep(poll) == IF Cancelled(poll) THEN {} ELSE {NewPoll(poll.effect, poll.round, "sleep")}

BuildRoundSnapshot(poll) ==
    [round |-> poll.round, status |-> poll.status, bids |-> poll.bids,
     revealed |-> poll.revealed, sequence |-> watch.sequence + 1]

IsNewerSnapshot(incoming) ==
    watch.shown = None \/ incoming.sequence > watch.shown.sequence

\* Seeded fault: a read that outlived its options is shown.
PollApplies_Late(poll) ==
    /\ poll.step = "states" /\ poll.left = {}
    /\ watch' = [WithPoll(poll, Asleep(poll)) EXCEPT
                   !.shown = BuildRoundSnapshot(poll), !.sequence = @ + 1]

PollApplies(poll) ==
    /\ poll.step = "states" /\ poll.left = {}
    /\ watch' = IF Cancelled(poll) THEN WithPoll(poll, {})
                ELSE [WithPoll(poll, Asleep(poll)) EXCEPT
                        !.sequence = @ + 1, !.error = FALSE,
                        !.shown = IF IsNewerSnapshot(BuildRoundSnapshot(poll))
                                  THEN BuildRoundSnapshot(poll) ELSE @]

PollFails(poll) ==
    /\ poll.step \in {"round", "bids"} \/ (poll.step = "states" /\ poll.left # {})
    /\ watch' = [WithPoll(poll, Asleep(poll)) EXCEPT !.error = @ \/ ~Cancelled(poll)]

PollWakes(poll) ==
    /\ poll.step = "sleep"
    /\ watch' = WithPoll(poll, IF Cancelled(poll) THEN {} ELSE {[poll EXCEPT !.step = "wait"]})

Poll ==
    /\ \E poll \in watch.polls :
         \/ PollStarts(poll) \/ PollReadsRound(poll) \/ PollReadsBids(poll) \/ PollReadsState(poll)
         \/ PollApplies(poll) \/ PollFails(poll) \/ PollWakes(poll)
    /\ UNCHANGED <<chain, network, page, ops, clicks, world>>
-----------------------------------------------------------------------------
\* A page just opened, on its session or on the observer's view; the first
\* round is somebody's already.
Init ==
    /\ \E w \in {"open", "published"} :
         chain = [r \in Round |-> [status |-> IF r = 1 THEN "Open" ELSE "none", bids |-> {},
                                   window |-> IF r = 1 THEN w ELSE "open", revealed |-> {}]]
    /\ network = "sdk" /\ clicks = 0 /\ world = 0 /\ ops = {}
    /\ \E on \in BOOLEAN :
         /\ page = [mounted |-> ~on, address |-> None, generation |-> 1, latest |-> 0,
                    round |-> None, auditor |-> None, commit |-> None, copy |-> None,
                    live |-> None, status |-> "idle", mismatch |-> FALSE]
         /\ watch = [on |-> on, round |-> None, effect |-> 0, polls |-> {}, sequence |-> 0,
                     shown |-> None, error |-> FALSE]

Next ==
    \/ World
    \/ Click
    \/ Unmount
    \/ (\E op \in ops : Step(op)) /\ UNCHANGED <<network, watch, clicks, world>>
    \/ Configure
    \/ Poll

Spec == Init /\ [][Next]_vars
-----------------------------------------------------------------------------
\* new was read no earlier than old.
NotOlder(new, old) ==
    /\ StatusRank[new.status] >= StatusRank[old.status]
    /\ old.bids \subseteq new.bids /\ old.revealed \subseteq new.revealed

\* What a page replaces is the same round as seen earlier, or another round.
Follows(new, old, round) ==
    new # None => /\ new.round = round
                  /\ old # None /\ old.round = new.round => NotOlder(new, old)

\* "round A cannot overwrite a joined round B", "older same-round refresh
\* cannot replace a newer snapshot" (useRoundSession.refresh.test.tsx:71, 85):
\* whatever is in flight when the wallet or the round changes, the session
\* shows its own round and never goes back to what it showed before.
LiveFollowsTheRound ==
    [][/\ page'.live # page.live => Follows(page'.live, page.live, page'.round)
       /\ page'.round # page.round => page'.live = None]_vars

\* The observer is shown only the round of its options, never an older read
\* of it: "a slow response can never mark a round settled while a reveal is in
\* flight" (useLiveRound.ts:86-87).
ObserverFollowsTheRound ==
    [][watch'.shown # watch.shown => Follows(watch'.shown, watch.shown, watch.round)]_vars
=============================================================================
