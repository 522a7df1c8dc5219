--------------------------- MODULE WebSessionProofs ---------------------------
(***************************************************************************)
(* What the page and the observer show belongs to their round and never     *)
(* goes back in time, for any number of rounds, accounts, handlers, polls   *)
(* and steps of everybody else.  Rounds only move forward, so it is enough   *)
(* that of two reads the later is shown last: a refresh that is current      *)
(* began after the one that was shown, and polls read one at a time.        *)
(***************************************************************************)
EXTENDS WebSession, TLAPS
-----------------------------------------------------------------------------
(***************************************************************************)
(* Types.                                                                  *)
(***************************************************************************)
RoundStatus == {"none", "Open", "Revealing", "Settled"}
Account == Wallet \cup {None}
AnyRound == Round \cup {None}

ChainRound ==
    [status : RoundStatus, bids : SUBSET Account,
     window : {"open", "closed", "published"}, revealed : SUBSET Account]

Snapshot == [round : Round, status : RoundStatus, bids : SUBSET Account, revealed : SUBSET Account]

Page ==
    [mounted : BOOLEAN, address : Account, generation : Nat, latest : Nat, round : AnyRound,
     auditor : AnyRound, commit : AnyRound, copy : AnyRound, live : Snapshot \cup {None},
     status : {"idle", "working", "ok", "error"}, mismatch : BOOLEAN]

Kind == {"connect", "create", "join", "commit", "reveal", "refresh"}

Handler ==
    [kind : Kind, caller : Kind, n : Nat,
     step : {"start", "network", "send", "done", "round", "bids", "states"},
     address : Account, round : AnyRound, auditor : AnyRound, generation : Nat, request : Nat,
     status : RoundStatus \cup {None}, bids : SUBSET Account, left : SUBSET Account,
     revealed : SUBSET Account]

PollRecord ==
    [effect : Nat, round : Round, step : {"wait", "sleep", "round", "bids", "states"},
     status : RoundStatus \cup {None}, bids : SUBSET Account, left : SUBSET Account,
     revealed : SUBSET Account]

ShownSnapshot ==
    [round : Round, status : RoundStatus, bids : SUBSET Account, revealed : SUBSET Account,
     sequence : Nat]

Observer ==
    [on : BOOLEAN, round : AnyRound, effect : Nat, polls : SUBSET PollRecord, sequence : Nat,
     shown : ShownSnapshot \cup {None}, error : BOOLEAN]
-----------------------------------------------------------------------------
(***************************************************************************)
(* The inductive invariant.                                                *)
(***************************************************************************)
ChainInv ==
    /\ chain \in [Round -> ChainRound]
    /\ \A r \in Round : chain[r].revealed \subseteq chain[r].bids

\* What has been read of a round is not ahead of it.
Seen(o) ==
    /\ o.step \in {"bids", "states"} =>
          /\ o.status \in RoundStatus
          /\ StatusRank[chain[o.round].status] >= StatusRank[o.status]
    /\ o.step = "states" =>
          o.bids \subseteq chain[o.round].bids /\ o.revealed \subseteq chain[o.round].revealed

\* What has been read is no older than what is shown of the same round.
Beyond(o, old) ==
    old # None /\ old.round = o.round =>
        /\ o.step \in {"bids", "states"} => StatusRank[o.status] >= StatusRank[old.status]
        /\ o.step = "states" =>
              old.bids \subseteq o.bids /\ old.revealed \subseteq o.revealed \cup o.left

OnChain(shown) == shown # None => NotOlder(chain[shown.round], shown)

Refresh(o) == o.kind = "refresh"

\* A request has one refresh, and the last request reads after what is shown.
PageInv ==
    /\ page \in Page
    /\ ops \in SUBSET Handler
    /\ OnChain(page.live)
    /\ \A o \in ops : Refresh(o) =>
          /\ o.round \in Round
          /\ o.request <= page.latest
          /\ Seen(o)
          /\ o.request = page.latest => Beyond(o, page.live)
    /\ \A a, b \in ops : Refresh(a) /\ Refresh(b) /\ a.request = b.request => a = b

Reading(poll) == poll.step \in {"round", "bids", "states"}

\* One poll reads at a time, and the last effect's is of the observer's round.
WatchInv ==
    /\ watch \in Observer
    /\ OnChain(watch.shown)
    /\ \A poll \in watch.polls :
          /\ Seen(poll)
          /\ Reading(poll) => Beyond(poll, watch.shown)
          /\ poll.effect <= watch.effect
          /\ poll.effect = watch.effect => poll.round = watch.round
    /\ \A a, b \in watch.polls : Reading(a) /\ Reading(b) => a = b

IInv == clicks \in Nat /\ ChainInv /\ PageInv /\ WatchInv

\* How the rounds move.
Forward == ChainInv' /\ \A r \in Round : NotOlder(chain'[r], chain[r])
-----------------------------------------------------------------------------
(***************************************************************************)
(* Rounds only move forward.                                               *)
(***************************************************************************)
LEMMA Ranks ==
    /\ StatusRank["none"] = 0 /\ StatusRank["Open"] = 1
    /\ StatusRank["Revealing"] = 2 /\ StatusRank["Settled"] = 3
BY DEF StatusRank

LEMMA RankType == \A s \in RoundStatus : StatusRank[s] \in Nat
BY Ranks DEF RoundStatus

LEMMA StillForward ==
    ASSUME ChainInv, UNCHANGED chain
    PROVE  Forward
<1>1. \A r \in Round : chain[r].status \in RoundStatus
  BY DEF ChainInv, ChainRound
<1>2. \A r \in Round : StatusRank[chain[r].status] \in Nat
  BY <1>1, RankType
<1> QED
  BY <1>2 DEF Forward, ChainInv, NotOlder

\* One round is replaced by a later state of it.
LEMMA RoundForward ==
    ASSUME ChainInv, NEW r, NEW new,
           r \in Round => /\ new \in ChainRound /\ new.revealed \subseteq new.bids
                          /\ NotOlder(new, chain[r]),
           chain' = [chain EXCEPT ![r] = new]
    PROVE  Forward
<1>1. ChainInv'
  BY DEF ChainInv
<1>2. \A s \in Round : StatusRank[chain[s].status] \in Nat
  BY RankType DEF ChainInv, ChainRound
<1>3. \A s \in Round : NotOlder(chain'[s], chain[s])
  BY <1>2 DEF ChainInv, NotOlder
<1> QED
  BY <1>1, <1>3 DEF Forward

LEMMA CreatedForward ==
    ASSUME ChainInv, NEW r \in Round, chain[r].status = "none", chain' = Created(chain, r)
    PROVE  Forward
<1> DEFINE new == [chain[r] EXCEPT !.status = "Open"]
<1>1. new \in ChainRound /\ new.revealed \subseteq new.bids /\ NotOlder(new, chain[r])
  BY Ranks DEF ChainInv, ChainRound, RoundStatus, NotOlder
<1>2. chain' = [chain EXCEPT ![r] = new]
  BY DEF Created
<1> HIDE DEF new
<1> QED
  BY <1>1, <1>2, RoundForward

LEMMA BidForward ==
    ASSUME ChainInv, NEW r, NEW a \in Account, chain' = Bid(chain, r, a)
    PROVE  Forward
<1> DEFINE new == [chain[r] EXCEPT !.bids = @ \cup {a}]
<1>1. ASSUME r \in Round
      PROVE  new \in ChainRound /\ new.revealed \subseteq new.bids /\ NotOlder(new, chain[r])
  <2>1. /\ chain[r] \in ChainRound /\ StatusRank[chain[r].status] \in Nat
        /\ chain[r].revealed \subseteq chain[r].bids
    BY <1>1, RankType DEF ChainInv, ChainRound
  <2> QED
    BY <2>1 DEF ChainRound, NotOlder
<1>2. chain' = [chain EXCEPT ![r] = new]
  BY DEF Bid
<1> HIDE DEF new
<1> QED
  BY <1>1, <1>2, RoundForward

LEMMA OpenedForward ==
    ASSUME ChainInv, NEW r, MayOpen(chain, r), chain' = Opened(chain, r)
    PROVE  Forward
<1> DEFINE new == [chain[r] EXCEPT !.status = "Revealing"]
<1>1. ASSUME r \in Round
      PROVE  new \in ChainRound /\ new.revealed \subseteq new.bids /\ NotOlder(new, chain[r])
  BY <1>1, Ranks DEF ChainInv, ChainRound, RoundStatus, NotOlder, MayOpen
<1>2. chain' = [chain EXCEPT ![r] = new]
  BY DEF Opened
<1> HIDE DEF new
<1> QED
  BY <1>1, <1>2, RoundForward

LEMMA RevealedForward ==
    ASSUME ChainInv, NEW r, NEW a, r \in Round => a \in chain[r].bids, chain' = Revealed(chain, r, a)
    PROVE  Forward
<1> DEFINE new == [chain[r] EXCEPT !.revealed = @ \cup {a}]
<1>1. ASSUME r \in Round
      PROVE  new \in ChainRound /\ new.revealed \subseteq new.bids /\ NotOlder(new, chain[r])
  <2>1. /\ chain[r] \in ChainRound /\ StatusRank[chain[r].status] \in Nat
        /\ chain[r].revealed \subseteq chain[r].bids
    BY <1>1, RankType DEF ChainInv, ChainRound
  <2> QED
    BY <1>1, <2>1 DEF ChainRound, NotOlder
<1>2. chain' = [chain EXCEPT ![r] = new]
  BY DEF Revealed
<1> HIDE DEF new
<1> QED
  BY <1>1, <1>2, RoundForward

LEMMA WorldForward ==
    ASSUME ChainInv, World
    PROVE  Forward
<1>1. CASE UNCHANGED chain
  BY <1>1, StillForward
<1>2. ASSUME NEW r \in Round, NEW a \in Wallet, chain' = Bid(chain, r, a)
      PROVE  Forward
  BY <1>2, BidForward DEF Account
<1>3. ASSUME NEW r \in Round, chain' = Later(chain, r)
      PROVE  Forward
  <2> DEFINE new == [chain[r] EXCEPT !.window = IF @ = "open" THEN "closed" ELSE "published"]
  <2>1. /\ chain[r] \in ChainRound /\ StatusRank[chain[r].status] \in Nat
        /\ chain[r].revealed \subseteq chain[r].bids
    BY RankType DEF ChainInv, ChainRound
  <2>2. new \in ChainRound /\ new.revealed \subseteq new.bids /\ NotOlder(new, chain[r])
    BY <2>1 DEF ChainRound, NotOlder
  <2>3. chain' = [chain EXCEPT ![r] = new]
    BY <1>3 DEF Later
  <2> HIDE DEF new
  <2> QED
    BY <2>2, <2>3, RoundForward
<1>4. ASSUME NEW r \in Round, chain[r].status = "Revealing", chain' = Settled(chain, r)
      PROVE  Forward
  <2> DEFINE new == [chain[r] EXCEPT !.status = "Settled"]
  <2>1. new \in ChainRound /\ new.revealed \subseteq new.bids /\ NotOlder(new, chain[r])
    BY <1>4, Ranks DEF ChainInv, ChainRound, RoundStatus, NotOlder
  <2>2. chain' = [chain EXCEPT ![r] = new]
    BY <1>4 DEF Settled
  <2> HIDE DEF new
  <2> QED
    BY <2>1, <2>2, RoundForward
<1>5. ASSUME NEW r \in Round, NEW a \in chain[r].bids \ chain[r].revealed,
             chain' = Revealed(chain, r, a)
      PROVE  Forward
  BY <1>5, RevealedForward
<1> QED
  BY <1>1, <1>2, <1>3, <1>4, <1>5, OpenedForward DEF World

\* What was read stays behind the chain.
LEMMA ReadsForward ==
    ASSUME ChainInv, Forward, NEW r \in Round, NEW status \in RoundStatus,
           StatusRank[chain[r].status] >= StatusRank[status]
    PROVE  StatusRank[chain'[r].status] >= StatusRank[status]
<1>1. /\ StatusRank[chain[r].status] \in Nat /\ StatusRank[status] \in Nat
      /\ StatusRank[chain'[r].status] \in Nat
  BY RankType DEF ChainInv, ChainRound, Forward
<1>2. StatusRank[chain'[r].status] >= StatusRank[chain[r].status]
  BY DEF Forward, NotOlder
<1> QED
  BY <1>1, <1>2

LEMMA SetsForward ==
    ASSUME Forward, NEW r \in Round
    PROVE  chain[r].bids \subseteq chain'[r].bids /\ chain[r].revealed \subseteq chain'[r].revealed
BY DEF Forward, NotOlder

LEMMA SeenForward ==
    ASSUME ChainInv, Forward, NEW o, o.round \in Round, Seen(o)
    PROVE  /\ o.step \in {"bids", "states"} =>
                o.status \in RoundStatus /\ StatusRank[chain'[o.round].status] >= StatusRank[o.status]
           /\ o.step = "states" =>
                o.bids \subseteq chain'[o.round].bids /\ o.revealed \subseteq chain'[o.round].revealed
<1>1. ASSUME o.step \in {"bids", "states"}
      PROVE  o.status \in RoundStatus /\ StatusRank[chain'[o.round].status] >= StatusRank[o.status]
  BY <1>1, ReadsForward DEF Seen
<1>2. ASSUME o.step = "states"
      PROVE  o.bids \subseteq chain'[o.round].bids /\ o.revealed \subseteq chain'[o.round].revealed
  BY <1>2, SetsForward DEF Seen
<1> QED
  BY <1>1, <1>2

LEMMA OnChainForward ==
    ASSUME ChainInv, Forward, NEW shown, shown # None => shown.round \in Round /\ shown.status \in RoundStatus,
           OnChain(shown)
    PROVE  shown # None => NotOlder(chain'[shown.round], shown)
<1> SUFFICES ASSUME shown # None PROVE NotOlder(chain'[shown.round], shown)
  OBVIOUS
<1>1. NotOlder(chain[shown.round], shown)
  BY DEF OnChain
<1> QED
  BY <1>1, ReadsForward, SetsForward DEF NotOlder
-----------------------------------------------------------------------------
(***************************************************************************)
(* The page.                                                               *)
(***************************************************************************)
\* A step that shows nothing new.
Quiet ==
    /\ page'.live \in {page.live, None}
    /\ page'.round # page.round => page'.live = None

LiveStep ==
    /\ page'.live # page.live => Follows(page'.live, page.live, page'.round)
    /\ page'.round # page.round => page'.live = None

LEMMA QuietFollows == Quiet => LiveStep
BY DEF Quiet, LiveStep, Follows

LEMMA LiveType ==
    ASSUME PageInv
    PROVE  page.live # None => page.live.round \in Round /\ page.live.status \in RoundStatus
BY DEF PageInv, Page, Snapshot

\* No refresh starts, and nothing new is shown.
LEMMA OpsHarmless ==
    ASSUME ChainInv, PageInv, Forward, page' \in Page, ops' \in SUBSET Handler,
           page'.latest = page.latest, page'.live \in {page.live, None},
           \A o \in ops' : Refresh(o) => o \in ops
    PROVE  PageInv'
<1>1. OnChain(page.live)'
  BY LiveType, OnChainForward DEF PageInv, OnChain, NotOlder
<1>2. ASSUME NEW o \in ops', Refresh(o)
      PROVE  /\ o.round \in Round /\ o.request <= page'.latest
             /\ o.request = page'.latest => Beyond(o, page'.live)
             /\ o.step \in {"bids", "states"} =>
                  o.status \in RoundStatus /\ StatusRank[chain'[o.round].status] >= StatusRank[o.status]
             /\ o.step = "states" =>
                  o.bids \subseteq chain'[o.round].bids /\ o.revealed \subseteq chain'[o.round].revealed
  <2>1. o \in ops
    BY <1>2
  <2>2. /\ o.round \in Round /\ o.request <= page.latest /\ Seen(o)
        /\ o.request = page.latest => Beyond(o, page.live)
    BY <1>2, <2>1 DEF PageInv
  <2>3. o.request = page'.latest => Beyond(o, page'.live)
    BY <2>2 DEF Beyond
  <2> QED
    BY <2>2, <2>3, SeenForward
<1>3. \A o \in ops' : Refresh(o) =>
         /\ o.round \in Round /\ o.request <= page'.latest
         /\ Seen(o)' /\ (o.request = page'.latest => Beyond(o, page'.live))
  BY <1>2 DEF Seen
<1>4. \A a, b \in ops' : Refresh(a) /\ Refresh(b) /\ a.request = b.request => a = b
  BY DEF PageInv
<1> QED
  BY <1>1, <1>3, <1>4 DEF PageInv, Refresh, Seen, Beyond

LEMMA OpTyped ==
    ASSUME PageInv, clicks \in Nat, NEW kind \in Kind
    PROVE  /\ Op(kind) \in Handler
           /\ Op(kind).kind = kind /\ Op(kind).round = page.round
BY DEF PageInv, Page, Op, Handler

LEMMA RefreshTyped ==
    ASSUME NEW p \in Page, NEW op \in Handler, NEW r \in Round
    PROVE  /\ RefreshOf(p, op, r) \in Handler
           /\ RefreshOf(p, op, r).kind = "refresh" /\ RefreshOf(p, op, r).step = "round"
           /\ RefreshOf(p, op, r).round = r
           /\ RefreshOf(p, op, r).request = p.latest + 1
<1> DEFINE step == [op EXCEPT !.kind = "refresh", !.step = "round", !.round = r]
<1>1. /\ step \in Handler /\ step.kind = "refresh" /\ step.step = "round" /\ step.round = r
  BY DEF Handler, Kind, AnyRound
<1>2. p.generation \in Nat /\ p.latest + 1 \in Nat
  BY DEF Page
<1>3. RefreshOf(p, op, r) = [step EXCEPT !.generation = p.generation, !.request = p.latest + 1]
  BY DEF RefreshOf, Handler
<1> HIDE DEF step
<1> QED
  BY <1>1, <1>2, <1>3 DEF Handler

\* Going on with a page that shows nothing new, and a refresh that has read nothing.
LEMMA ContinueKeeps ==
    ASSUME ChainInv, PageInv, Forward, NEW p \in Page, p.latest = page.latest,
           p.live \in {page.live, None}, p.round # page.round => p.live = None,
           NEW op \in Handler, NEW r \in AnyRound, Continue(p, op, r)
    PROVE  PageInv' /\ Quiet
<1> DEFINE new == RefreshOf(p, op, r)
<1>1. CASE ~MayRefresh(p, op, r)
  <2>1. page' = p /\ ops' = ops \ {op}
    BY <1>1 DEF Continue
  <2>2. ops' \in SUBSET Handler /\ \A o \in ops' : Refresh(o) => o \in ops
    BY <2>1 DEF PageInv
  <2> QED
    BY <2>1, <2>2, OpsHarmless DEF Quiet
<1>2. CASE MayRefresh(p, op, r)
  <2>1. page' = [p EXCEPT !.latest = @ + 1] /\ ops' = (ops \ {op}) \cup {new}
    BY <1>2 DEF Continue
  <2>2. r \in Round
    BY <1>2 DEF MayRefresh, AnyRound
  <2>3. /\ new \in Handler /\ new.kind = "refresh" /\ new.step = "round" /\ new.round = r
        /\ new.request = page.latest + 1
    BY <2>2, RefreshTyped
  <2>4. /\ page' \in Page /\ page'.latest = page.latest + 1 /\ page'.live = p.live
        /\ page'.round = p.round /\ page.latest \in Nat
    BY <2>1 DEF Page, PageInv
  <2> HIDE DEF new
  <2>5. OnChain(page.live)'
    BY <2>4, LiveType, OnChainForward DEF PageInv, OnChain, NotOlder
  <2>6. ASSUME NEW o \in ops', Refresh(o)
        PROVE  /\ o.round \in Round /\ o.request <= page'.latest
               /\ o.request = page'.latest => Beyond(o, page'.live)
               /\ o.step \in {"bids", "states"} =>
                    o.status \in RoundStatus /\ StatusRank[chain'[o.round].status] >= StatusRank[o.status]
               /\ o.step = "states" =>
                    o.bids \subseteq chain'[o.round].bids /\ o.revealed \subseteq chain'[o.round].revealed
    <3>1. CASE o = new
      BY <2>2, <2>3, <2>4, <3>1 DEF Beyond
    <3>2. CASE o \in ops
      <4>1. /\ o.round \in Round /\ o.request <= page.latest /\ Seen(o)
            /\ o.request \in Nat
        BY <2>6, <3>2 DEF PageInv, Handler
      <4>2. o.request <= page'.latest /\ o.request # page'.latest
        BY <2>4, <4>1
      <4> QED
        BY <4>1, <4>2, SeenForward
    <3> QED
      BY <2>1, <2>6, <3>1, <3>2
  <2>7. \A o \in ops' : Refresh(o) =>
           /\ o.round \in Round /\ o.request <= page'.latest
           /\ Seen(o)' /\ (o.request = page'.latest => Beyond(o, page'.live))
    BY <2>6 DEF Seen
  <2>8. \A o \in ops : Refresh(o) => o.request # new.request
    BY <2>3, <2>4 DEF PageInv, Handler
  <2>9. \A a, b \in ops' : Refresh(a) /\ Refresh(b) /\ a.request = b.request => a = b
    BY <2>1, <2>8 DEF PageInv
  <2>10. ops' \in SUBSET Handler
    BY <2>1, <2>3 DEF PageInv
  <2>11. PageInv'
    BY <2>4, <2>5, <2>7, <2>9, <2>10 DEF PageInv, Refresh, Seen, Beyond
  <2>12. Quiet
    BY <2>4 DEF Quiet
  <2> QED
    BY <2>11, <2>12
<1> QED
  BY <1>1, <1>2

\* A refresh that has read more takes the place of what it was.
LEMMA RefreshReads ==
    ASSUME ChainInv, PageInv, UNCHANGED <<page, chain>>, NEW op \in ops, Refresh(op),
           NEW new \in Handler, Refresh(new), new.round = op.round, new.request = op.request,
           Seen(new), new.request = page.latest => Beyond(new, page.live),
           ops' = (ops \ {op}) \cup {new}
    PROVE  PageInv' /\ Quiet
<1>1. ops' \in SUBSET Handler
  BY DEF PageInv
<1>2. \A o \in ops' : Refresh(o) =>
         /\ o.round \in Round /\ o.request <= page.latest
         /\ Seen(o) /\ (o.request = page.latest => Beyond(o, page.live))
  BY DEF PageInv
<1>3. \A a, b \in ops' : Refresh(a) /\ Refresh(b) /\ a.request = b.request => a = b
  BY DEF PageInv
<1>4. PageInv'
  BY <1>1, <1>2, <1>3 DEF PageInv, Refresh, Seen, Beyond, OnChain
<1> QED
  BY <1>4 DEF Quiet

LEMMA RefreshReadsRoundKeeps ==
    ASSUME ChainInv, PageInv, NEW op \in ops, RefreshReadsRound(op), UNCHANGED chain
    PROVE  PageInv' /\ Quiet
<1> DEFINE new == [op EXCEPT !.step = "bids", !.status = chain[op.round].status]
<1>1. op \in Handler /\ Refresh(op) /\ op.round \in Round
  BY DEF PageInv, RefreshReadsRound, Refresh
<1>2. chain[op.round].status \in RoundStatus
  BY <1>1 DEF ChainInv, ChainRound
<1>3. /\ new \in Handler /\ Refresh(new) /\ new.round = op.round /\ new.request = op.request
      /\ new.step = "bids" /\ new.status = chain[op.round].status
  BY <1>1, <1>2 DEF Handler, Refresh
<1>4. ops' = (ops \ {op}) \cup {new} /\ UNCHANGED page
  BY DEF RefreshReadsRound
<1> HIDE DEF new
<1>5. Seen(new)
  BY <1>2, <1>3, RankType DEF Seen
<1>6. Beyond(new, page.live)
  BY <1>3 DEF Beyond, PageInv, OnChain, NotOlder
<1> QED
  BY <1>1, <1>3, <1>4, <1>5, <1>6, RefreshReads

LEMMA RefreshReadsBidsKeeps ==
    ASSUME ChainInv, PageInv, NEW op \in ops, RefreshReadsBids(op), UNCHANGED chain
    PROVE  PageInv' /\ Quiet
<1> DEFINE new == [op EXCEPT !.step = "states", !.bids = chain[op.round].bids,
                             !.left = chain[op.round].bids, !.revealed = {}]
<1>1. /\ op \in Handler /\ Refresh(op) /\ op.round \in Round /\ op.step = "bids"
      /\ Seen(op) /\ (op.request = page.latest => Beyond(op, page.live))
  BY DEF PageInv, RefreshReadsBids, Refresh
<1>2. chain[op.round].bids \in SUBSET Account /\ chain[op.round].revealed \in SUBSET Account
  BY <1>1 DEF ChainInv, ChainRound
<1>3. /\ new \in Handler /\ Refresh(new) /\ new.round = op.round /\ new.request = op.request
      /\ new.step = "states" /\ new.status = op.status
      /\ new.bids = chain[op.round].bids /\ new.left = chain[op.round].bids /\ new.revealed = {}
  BY <1>1, <1>2 DEF Handler, Refresh
<1>4. ops' = (ops \ {op}) \cup {new} /\ UNCHANGED page
  BY DEF RefreshReadsBids
<1> HIDE DEF new
<1>5. Seen(new)
  BY <1>1, <1>3 DEF Seen
<1>6. ASSUME new.request = page.latest
      PROVE  Beyond(new, page.live)
  BY <1>1, <1>3, <1>6 DEF ChainInv, Beyond, PageInv, OnChain, NotOlder
<1> QED
  BY <1>1, <1>3, <1>4, <1>5, <1>6, RefreshReads

\* Whoever is shown as revealed has revealed on chain, and is read again.
LEMMA RefreshReadsStateKeeps ==
    ASSUME ChainInv, PageInv, NEW op \in ops, RefreshReadsState(op), UNCHANGED chain
    PROVE  PageInv' /\ Quiet
<1>1. /\ op \in Handler /\ Refresh(op) /\ op.round \in Round /\ op.step = "states"
      /\ Seen(op) /\ (op.request = page.latest => Beyond(op, page.live))
  BY DEF PageInv, RefreshReadsState, Refresh
<1>2. PICK a \in op.left :
        ops' = (ops \ {op}) \cup
                 {[op EXCEPT !.left = op.left \ {a},
                             !.revealed = op.revealed \cup ({a} \cap chain[op.round].revealed)]}
  BY <1>1 DEF RefreshReadsState, Handler
<1> DEFINE new == [op EXCEPT !.left = op.left \ {a},
                             !.revealed = op.revealed \cup ({a} \cap chain[op.round].revealed)]
<1>3. /\ new \in Handler /\ Refresh(new) /\ new.round = op.round /\ new.request = op.request
      /\ new.step = "states" /\ new.status = op.status /\ new.bids = op.bids
      /\ new.left = op.left \ {a}
      /\ new.revealed = op.revealed \cup ({a} \cap chain[op.round].revealed)
  BY <1>1 DEF Handler, Refresh
<1>4. ops' = (ops \ {op}) \cup {new} /\ UNCHANGED page
  BY <1>2 DEF RefreshReadsState
<1> HIDE DEF new
<1>5. Seen(new)
  BY <1>1, <1>3 DEF Seen
<1>6. ASSUME new.request = page.latest
      PROVE  Beyond(new, page.live)
  BY <1>1, <1>3, <1>6 DEF Beyond, PageInv, OnChain, NotOlder
<1> QED
  BY <1>1, <1>3, <1>4, <1>5, <1>6, RefreshReads

\* What is shown was read by the last request, and after what was shown before.
LEMMA RefreshAppliesKeeps ==
    ASSUME ChainInv, PageInv, NEW op \in ops, RefreshApplies(op), UNCHANGED chain
    PROVE  PageInv' /\ LiveStep
<1>1. /\ op \in Handler /\ Refresh(op) /\ op.round \in Round /\ op.step = "states" /\ op.left = {}
      /\ Seen(op) /\ (op.request = page.latest => Beyond(op, page.live))
      /\ page \in Page
  BY DEF PageInv, RefreshApplies, Refresh
<1>2. Forward
  BY StillForward
<1>3. ops' = ops \ {op} /\ ops' \in SUBSET Handler
  BY DEF RefreshApplies, PageInv
<1>4. CASE ~IsCurrent(op)
  <2>1. page' = page
    BY <1>4 DEF RefreshApplies
  <2>2. PageInv'
    BY <1>1, <1>2, <1>3, <2>1, OpsHarmless
  <2> QED
    BY <2>1, <2>2 DEF LiveStep
<1>5. CASE IsCurrent(op)
  <2> DEFINE live == [round |-> op.round, status |-> op.status,
                      bids |-> op.bids, revealed |-> op.revealed]
  <2>1. page' = [page EXCEPT !.live = live]
    BY <1>5 DEF RefreshApplies
  <2>2. live \in Snapshot
    BY <1>1 DEF Snapshot, Handler, Seen
  <2>3. /\ page' \in Page /\ page'.live = live /\ page'.latest = page.latest
        /\ page'.round = page.round
    BY <1>1, <2>1, <2>2 DEF Page
  <2>4. op.request = page.latest /\ op.round = page.round /\ Beyond(op, page.live)
    BY <1>1, <1>5 DEF IsCurrent
  <2>5. /\ live.round = op.round /\ live.status = op.status
        /\ live.bids = op.bids /\ live.revealed = op.revealed
    OBVIOUS
  <2> HIDE DEF live
  <2>6. OnChain(page.live)'
    BY <1>1, <2>3, <2>5 DEF OnChain, NotOlder, Seen
  <2>7. \A o \in ops' : Refresh(o) =>
           /\ o.round \in Round /\ o.request <= page'.latest
           /\ Seen(o) /\ o.request # page'.latest
    BY <1>1, <1>3, <2>3, <2>4 DEF PageInv
  <2>8. \A a, b \in ops' : Refresh(a) /\ Refresh(b) /\ a.request = b.request => a = b
    BY <1>3 DEF PageInv
  <2>9. PageInv'
    BY <1>3, <2>3, <2>6, <2>7, <2>8 DEF PageInv, Refresh, Seen, Beyond
  <2>10. LiveStep
    BY <1>1, <2>3, <2>4, <2>5 DEF LiveStep, Follows, NotOlder, Beyond
  <2> QED
    BY <2>9, <2>10
<1> QED
  BY <1>4, <1>5
-----------------------------------------------------------------------------
(***************************************************************************)
(* The handlers: none of them shows a round, and each of them starts a      *)
(* refresh through Continue alone.                                         *)
(***************************************************************************)
LEMMA HandlerKeeps ==
    ASSUME ChainInv, PageInv, Forward, page' \in Page, ops' \in SUBSET Handler,
           page'.latest = page.latest, page'.live = page.live, page'.round = page.round,
           \A o \in ops' : Refresh(o) => o \in ops
    PROVE  PageInv' /\ Quiet
BY OpsHarmless DEF Quiet

LEMMA DropsTyped ==
    ASSUME PageInv, NEW op \in ops, ops' = ops \ {op}
    PROVE  ops' \in SUBSET Handler /\ \A o \in ops' : Refresh(o) => o \in ops
BY DEF PageInv

\* A handler that goes on is still that handler.
LEMMA GoesOnTyped ==
    ASSUME PageInv, NEW op \in ops, op.kind # "refresh", NEW new \in Handler, new.kind = op.kind,
           ops' = (ops \ {op}) \cup {new}
    PROVE  ops' \in SUBSET Handler /\ \A o \in ops' : Refresh(o) => o \in ops
BY DEF PageInv, Refresh

LEMMA GotoTyped ==
    ASSUME PageInv, NEW op \in ops, op.kind # "refresh",
           NEW step \in {"network", "send", "done"}, ops' = Goto(op, step)
    PROVE  ops' \in SUBSET Handler /\ \A o \in ops' : Refresh(o) => o \in ops
<1> DEFINE new == [op EXCEPT !.step = step]
<1>1. new \in Handler /\ new.kind = op.kind
  BY DEF PageInv, Handler
<1>2. ops' = (ops \ {op}) \cup {new}
  BY DEF Goto
<1> HIDE DEF new
<1> QED
  BY <1>1, <1>2, GoesOnTyped

LEMMA RefreshFailsKeeps ==
    ASSUME ChainInv, PageInv, NEW op \in ops, RefreshFails(op), UNCHANGED chain
    PROVE  PageInv' /\ Quiet
<1>1. Forward
  BY StillForward
<1>2. ops' \in SUBSET Handler /\ \A o \in ops' : Refresh(o) => o \in ops
  BY DropsTyped DEF RefreshFails
<1>3. page' = page \/ page' = [page EXCEPT !.status = "error"]
  BY DEF RefreshFails
<1>4. /\ page' \in Page /\ page'.latest = page.latest /\ page'.live = page.live
      /\ page'.round = page.round
  BY <1>3 DEF PageInv, Page
<1> QED
  BY <1>1, <1>2, <1>4, HandlerKeeps

LEMMA FailsKeeps ==
    ASSUME ChainInv, PageInv, NEW op \in ops, Fails(op)
    PROVE  Forward /\ PageInv' /\ Quiet
<1>1. Forward
  BY StillForward DEF Fails
<1>2. ops' \in SUBSET Handler /\ \A o \in ops' : Refresh(o) => o \in ops
  BY DropsTyped DEF Fails
<1>3. /\ page' \in Page /\ page'.latest = page.latest /\ page'.live = page.live
      /\ page'.round = page.round
  BY DEF Fails, PageInv, Page
<1> QED
  BY <1>1, <1>2, <1>3, HandlerKeeps

LEMMA ConnectKeeps ==
    ASSUME ChainInv, PageInv, NEW op \in ops, ConnectGetsAddress(op) \/ ConnectChecksNetwork(op)
    PROVE  Forward /\ PageInv' /\ Quiet
<1>1. Forward
  BY StillForward DEF ConnectGetsAddress, ConnectChecksNetwork
<1>2. CASE ConnectGetsAddress(op)
  <2>1. PICK a \in Wallet :
          page' = [page EXCEPT !.address = a,
                               !.generation = IF a = page.address THEN @ ELSE @ + 2]
    BY <1>2 DEF ConnectGetsAddress
  <2> DEFINE generation == IF a = page.address THEN page.generation ELSE page.generation + 2
  <2>2. generation \in Nat /\ page' = [page EXCEPT !.address = a, !.generation = generation]
    BY <2>1 DEF PageInv, Page
  <2> HIDE DEF generation
  <2>3. /\ page' \in Page /\ page'.latest = page.latest /\ page'.live = page.live
        /\ page'.round = page.round
    BY <2>2 DEF PageInv, Page, Account
  <2>4. ops' \in SUBSET Handler /\ \A o \in ops' : Refresh(o) => o \in ops
    BY <1>2, GotoTyped DEF ConnectGetsAddress
  <2> QED
    BY <1>1, <2>3, <2>4, HandlerKeeps
<1>3. CASE ConnectChecksNetwork(op)
  <2>1. (op.address # None /\ network # "sdk") \in BOOLEAN
    OBVIOUS
  <2>2. /\ page' \in Page /\ page'.latest = page.latest /\ page'.live = page.live
        /\ page'.round = page.round
    BY <1>3, <2>1 DEF PageInv, Page, ConnectChecksNetwork
  <2>3. ops' \in SUBSET Handler /\ \A o \in ops' : Refresh(o) => o \in ops
    BY <1>3, DropsTyped DEF ConnectChecksNetwork
  <2> QED
    BY <1>1, <2>2, <2>3, HandlerKeeps
<1> QED
  BY <1>2, <1>3

LEMMA CreateSendsKeeps ==
    ASSUME ChainInv, PageInv, NEW op \in ops, CreateSends(op)
    PROVE  Forward /\ PageInv' /\ Quiet
<1>1. PICK r \in Round :
        /\ chain[r].status = "none" /\ chain' = Created(chain, r)
        /\ ops' = (ops \ {op}) \cup {[op EXCEPT !.step = "done", !.round = r]}
  BY DEF CreateSends
<1>2. Forward
  BY <1>1, CreatedForward
<1> DEFINE new == [op EXCEPT !.step = "done", !.round = r]
<1>3. new \in Handler /\ new.kind = op.kind /\ op.kind # "refresh"
  BY DEF PageInv, Handler, AnyRound, CreateSends
<1>4. ops' = (ops \ {op}) \cup {new}
  BY <1>1
<1> HIDE DEF new
<1>5. ops' \in SUBSET Handler /\ \A o \in ops' : Refresh(o) => o \in ops
  BY <1>3, <1>4, GoesOnTyped
<1>6. UNCHANGED page /\ page \in Page
  BY DEF CreateSends, PageInv
<1> QED
  BY <1>2, <1>5, <1>6, HandlerKeeps

LEMMA JoinReadsKeeps ==
    ASSUME ChainInv, PageInv, NEW op \in ops, JoinReads(op)
    PROVE  Forward /\ PageInv' /\ Quiet
<1>1. Forward
  BY StillForward DEF JoinReads
<1>2. ops' \in SUBSET Handler /\ \A o \in ops' : Refresh(o) => o \in ops
  BY GotoTyped DEF JoinReads
<1> QED
  BY <1>1, <1>2, HandlerKeeps DEF JoinReads, PageInv

LEMMA EntersRoundKeeps ==
    ASSUME ChainInv, PageInv, NEW op \in ops, EntersRound(op)
    PROVE  Forward /\ PageInv' /\ Quiet
<1> DEFINE session == UpdateSession(page, op.round)
           p == [session EXCEPT !.status = "ok"]
<1>1. Forward
  BY StillForward DEF EntersRound
<1>2. op \in Handler /\ op.round \in AnyRound /\ page \in Page
  BY DEF PageInv, Handler
<1>3. page.generation + 1 \in Nat
  BY <1>2 DEF Page
<1>4. /\ op.round \in Round \cup {None} /\ None \in Round \cup {None}
      /\ None \in Snapshot \cup {None}
  BY <1>2 DEF AnyRound
<1>5. /\ session \in Page /\ session.live = None /\ session.latest = page.latest
  BY <1>2, <1>3, <1>4 DEF UpdateSession, Page, AnyRound
<1>6. Continue(p, op, op.round)
  BY DEF EntersRound
<1> HIDE DEF session
<1>7. p \in Page /\ p.live = None /\ p.latest = page.latest
  BY <1>5 DEF Page
<1> HIDE DEF p
<1> QED
  BY <1>1, <1>2, <1>6, <1>7, ContinueKeeps

LEMMA GuardNetworkKeeps ==
    ASSUME ChainInv, PageInv, NEW op \in ops, GuardNetwork(op)
    PROVE  Forward /\ PageInv' /\ Quiet
<1>1. Forward
  BY StillForward DEF GuardNetwork
<1>2. \/ page' = [page EXCEPT !.mismatch = FALSE] /\ ops' = Goto(op, "send")
      \/ page' = [page EXCEPT !.mismatch = TRUE, !.status = "error"] /\ ops' = ops \ {op}
  BY DEF GuardNetwork
<1>3. /\ page' \in Page /\ page'.latest = page.latest /\ page'.live = page.live
      /\ page'.round = page.round
  <2>1. CASE page' = [page EXCEPT !.mismatch = FALSE]
    BY <2>1 DEF PageInv, Page
  <2>2. CASE page' = [page EXCEPT !.mismatch = TRUE, !.status = "error"]
    BY <2>2 DEF PageInv, Page
  <2> QED
    BY <1>2, <2>1, <2>2
<1>4. ops' \in SUBSET Handler /\ \A o \in ops' : Refresh(o) => o \in ops
  BY <1>2, GotoTyped, DropsTyped DEF GuardNetwork
<1> QED
  BY <1>1, <1>3, <1>4, HandlerKeeps

LEMMA CommitKeeps ==
    ASSUME ChainInv, PageInv, NEW op \in ops, CommitSends(op) \/ CommitDone(op)
    PROVE  Forward /\ PageInv' /\ Quiet
<1>1. /\ op \in Handler /\ op.address \in Account /\ op.round \in AnyRound
      /\ op.auditor \in AnyRound /\ page \in Page
  BY DEF PageInv, Handler
<1>2. CASE CommitSends(op)
  <2>1. Forward
    BY <1>1, <1>2, BidForward DEF CommitSends
  <2>2. ops' \in SUBSET Handler /\ \A o \in ops' : Refresh(o) => o \in ops
    BY <1>2, GotoTyped DEF CommitSends
  <2> QED
    BY <1>1, <1>2, <2>1, <2>2, HandlerKeeps DEF CommitSends
<1>3. CASE CommitDone(op)
  <2> DEFINE key == IF op.auditor # None THEN op.auditor ELSE op.round
             p == [page EXCEPT !.commit = op.round, !.copy = op.round, !.status = "ok",
                               !.auditor = key]
  <2>1. Forward
    BY <1>3, StillForward DEF CommitDone
  <2>2. Continue(p, op, op.round)
    BY <1>3 DEF CommitDone
  <2>3. key \in AnyRound
    BY <1>1
  <2> HIDE DEF key
  <2>4. p \in Page /\ p.live = page.live /\ p.latest = page.latest /\ p.round = page.round
    BY <1>1, <2>3 DEF Page
  <2> HIDE DEF p
  <2> QED
    BY <1>1, <2>1, <2>2, <2>4, ContinueKeeps
<1> QED
  BY <1>2, <1>3

LEMMA RevealKeeps ==
    ASSUME ChainInv, PageInv, NEW op \in ops, RevealOpens(op) \/ RevealSends(op) \/ RevealDone(op)
    PROVE  Forward /\ PageInv' /\ Quiet
<1>1. op \in Handler /\ op.round \in AnyRound /\ page \in Page
  BY DEF PageInv, Handler
<1>2. CASE RevealOpens(op)
  <2>1. Forward
    BY <1>2, OpenedForward DEF RevealOpens
  <2> QED
    BY <1>1, <1>2, <2>1, HandlerKeeps DEF RevealOpens, PageInv
<1>3. CASE RevealSends(op)
  <2>1. PICK a \in chain[op.round].bids \ chain[op.round].revealed :
          chain' = Revealed(chain, op.round, a)
    BY <1>3 DEF RevealSends
  <2>2. op.round \in Round => a \in Account
    BY DEF ChainInv, ChainRound
  <2>3. Forward
    BY <2>1, <2>2, RevealedForward
  <2>4. ops' \in SUBSET Handler /\ \A o \in ops' : Refresh(o) => o \in ops
    BY <1>3, GotoTyped DEF RevealSends
  <2> QED
    BY <1>1, <1>3, <2>3, <2>4, HandlerKeeps DEF RevealSends
<1>4. CASE RevealDone(op)
  <2> DEFINE p == [page EXCEPT !.status = "ok"]
  <2>1. Forward
    BY <1>4, StillForward DEF RevealDone
  <2>2. Continue(p, op, op.round)
    BY <1>4 DEF RevealDone
  <2>3. p \in Page /\ p.live = page.live /\ p.latest = page.latest /\ p.round = page.round
    BY <1>1 DEF Page
  <2> HIDE DEF p
  <2> QED
    BY <1>1, <2>1, <2>2, <2>3, ContinueKeeps
<1> QED
  BY <1>2, <1>3, <1>4

LEMMA StepKeeps ==
    ASSUME ChainInv, PageInv, NEW op \in ops, Step(op)
    PROVE  Forward /\ PageInv' /\ LiveStep
<1>1. CASE \/ RefreshReadsRound(op) \/ RefreshReadsBids(op) \/ RefreshReadsState(op)
           \/ RefreshApplies(op) \/ RefreshFails(op)
  <2>1. CASE UNCHANGED chain
    BY <1>1, <2>1, StillForward, QuietFollows, RefreshReadsRoundKeeps, RefreshReadsBidsKeeps,
       RefreshReadsStateKeeps, RefreshAppliesKeeps, RefreshFailsKeeps
  <2> QED
    BY <1>1, <2>1, FailsKeeps, ConnectKeeps, CreateSendsKeeps, JoinReadsKeeps, EntersRoundKeeps,
       GuardNetworkKeeps, CommitKeeps, RevealKeeps, QuietFollows DEF Step
<1>2. CASE \/ Fails(op) \/ ConnectGetsAddress(op) \/ ConnectChecksNetwork(op)
           \/ CreateSends(op) \/ JoinReads(op) \/ EntersRound(op) \/ GuardNetwork(op)
           \/ CommitSends(op) \/ CommitDone(op)
           \/ RevealOpens(op) \/ RevealSends(op) \/ RevealDone(op)
  BY <1>2, FailsKeeps, ConnectKeeps, CreateSendsKeeps, JoinReadsKeeps, EntersRoundKeeps,
     GuardNetworkKeeps, CommitKeeps, RevealKeeps, QuietFollows
<1> QED
  BY <1>1, <1>2 DEF Step

LEMMA ClickKeeps ==
    ASSUME ChainInv, PageInv, clicks \in Nat, Click
    PROVE  PageInv' /\ Quiet
<1>1. Forward
  BY StillForward DEF Click
<1>2. page \in Page /\ page.round \in AnyRound
  BY DEF PageInv, Page
<1>3. ASSUME NEW new \in Handler, new.kind # "refresh", ops' = ops \cup {new},
             page' = [page EXCEPT !.status = "working"]
      PROVE  PageInv' /\ Quiet
  <2>1. /\ page' \in Page /\ page'.latest = page.latest /\ page'.live = page.live
        /\ page'.round = page.round
    BY <1>2, <1>3 DEF Page
  <2>2. ops' \in SUBSET Handler /\ \A o \in ops' : Refresh(o) => o \in ops
    BY <1>3 DEF PageInv, Refresh
  <2> QED
    BY <1>1, <2>1, <2>2, HandlerKeeps
<1>4. \A kind \in Kind : Op(kind) \in Handler /\ Op(kind).kind = kind
  BY OpTyped
<1>5. ASSUME NEW kind \in {"connect", "create", "commit", "reveal"}, ops' = ops \cup {Op(kind)},
             page' = [page EXCEPT !.status = "working"]
      PROVE  PageInv' /\ Quiet
  <2>1. kind \in Kind /\ kind # "refresh"
    BY DEF Kind
  <2> QED
    BY <1>3, <1>4, <1>5, <2>1
<1>6. ASSUME NEW r \in Round, ops' = ops \cup {[Op("join") EXCEPT !.round = r]},
             page' = [page EXCEPT !.status = "working"]
      PROVE  PageInv' /\ Quiet
  <2> DEFINE new == [Op("join") EXCEPT !.round = r]
  <2>1. Op("join") \in Handler /\ Op("join").kind = "join"
    BY <1>4 DEF Kind
  <2>2. new \in Handler /\ new.kind = "join"
    BY <2>1 DEF Handler, AnyRound
  <2> HIDE DEF new
  <2> QED
    BY <1>3, <1>6, <2>2 DEF new
<1>7. ASSUME Continue(page, Op("refresh"), page.round)
      PROVE  PageInv' /\ Quiet
  <2>1. Op("refresh") \in Handler
    BY <1>4 DEF Kind
  <2> QED
    BY <1>1, <1>2, <1>7, <2>1, ContinueKeeps
<1> QED
  BY <1>5, <1>6, <1>7 DEF Click

LEMMA UnmountKeeps ==
    ASSUME ChainInv, PageInv, Unmount
    PROVE  PageInv' /\ Quiet
<1>1. Forward
  BY StillForward DEF Unmount
<1>2. page \in Page /\ page.generation + 1 \in Nat
  BY DEF PageInv, Page
<1>3. /\ page' \in Page /\ page'.latest = page.latest /\ page'.live = page.live
      /\ page'.round = page.round
  BY <1>2 DEF Unmount, Page
<1> QED
  BY <1>1, <1>3, HandlerKeeps DEF Unmount, PageInv
-----------------------------------------------------------------------------
(***************************************************************************)
(* The observer.                                                           *)
(***************************************************************************)
ShownStep == watch'.shown # watch.shown => Follows(watch'.shown, watch.shown, watch.round)

LEMMA ShownType ==
    ASSUME WatchInv
    PROVE  watch.shown # None =>
             watch.shown.round \in Round /\ watch.shown.status \in RoundStatus
BY DEF WatchInv, Observer, ShownSnapshot

\* The rounds may move while the observer does nothing.
LEMMA WatchStill ==
    ASSUME ChainInv, WatchInv, Forward, UNCHANGED watch
    PROVE  WatchInv' /\ ShownStep
<1>1. OnChain(watch.shown)'
  BY ShownType, OnChainForward DEF WatchInv, OnChain, NotOlder
<1>2. ASSUME NEW poll \in watch.polls
      PROVE  /\ poll.step \in {"bids", "states"} =>
                  /\ poll.status \in RoundStatus
                  /\ StatusRank[chain'[poll.round].status] >= StatusRank[poll.status]
             /\ poll.step = "states" =>
                  /\ poll.bids \subseteq chain'[poll.round].bids
                  /\ poll.revealed \subseteq chain'[poll.round].revealed
  <2>1. poll.round \in Round /\ Seen(poll)
    BY DEF WatchInv, Observer, PollRecord
  <2> QED
    BY <2>1, SeenForward
<1>3. WatchInv'
  BY <1>1, <1>2 DEF WatchInv, Seen, Reading, Beyond
<1> QED
  BY <1>3 DEF ShownStep

\* A poll goes on as new, or ends; nothing new is shown.
LEMMA PollsKeep ==
    ASSUME ChainInv, WatchInv, UNCHANGED chain, NEW poll \in watch.polls, NEW new \in PollRecord,
           watch' \in Observer, watch'.effect = watch.effect, watch'.round = watch.round,
           watch'.shown = watch.shown, watch'.polls \subseteq (watch.polls \ {poll}) \cup {new},
           new.effect = poll.effect, new.round = poll.round, Seen(new),
           Reading(new) => /\ Beyond(new, watch.shown)
                           /\ \A other \in watch.polls \ {poll} : ~Reading(other)
    PROVE  WatchInv' /\ ShownStep
<1>1. OnChain(watch'.shown)
  BY DEF WatchInv
<1>2. \A other \in watch'.polls :
         /\ Seen(other)
         /\ Reading(other) => Beyond(other, watch'.shown)
         /\ other.effect <= watch'.effect
         /\ other.effect = watch'.effect => other.round = watch'.round
  BY DEF WatchInv
<1>3. \A a, b \in watch'.polls : Reading(a) /\ Reading(b) => a = b
  BY DEF WatchInv
<1>4. WatchInv'
  BY <1>1, <1>2, <1>3 DEF WatchInv, OnChain, Seen, Reading, Beyond
<1> QED
  BY <1>4 DEF ShownStep

\* What WithPoll leaves of the observer.
LEMMA WithPollTyped ==
    ASSUME WatchInv, NEW poll \in watch.polls, NEW new \in SUBSET PollRecord
    PROVE  /\ WithPoll(poll, new) \in Observer
           /\ WithPoll(poll, new).effect = watch.effect /\ WithPoll(poll, new).round = watch.round
           /\ WithPoll(poll, new).shown = watch.shown
           /\ WithPoll(poll, new).polls = (watch.polls \ {poll}) \cup new
BY DEF WatchInv, Observer, WithPoll

LEMMA PollTyped ==
    ASSUME WatchInv, NEW poll \in watch.polls
    PROVE  /\ poll \in PollRecord /\ poll.round \in Round /\ Seen(poll)
           /\ Reading(poll) => /\ Beyond(poll, watch.shown)
                               /\ \A other \in watch.polls \ {poll} : ~Reading(other)
BY DEF WatchInv, Observer, PollRecord

\* A poll that ends, sleeps or waits has read nothing.
LEMMA PollIdle ==
    ASSUME ChainInv, WatchInv, UNCHANGED chain, NEW poll \in watch.polls, NEW step \in {"wait", "sleep"},
           NEW new \in SUBSET {[poll EXCEPT !.step = step]}, watch' = WithPoll(poll, new)
    PROVE  WatchInv' /\ ShownStep
<1> DEFINE next == [poll EXCEPT !.step = step]
<1>1. /\ next \in PollRecord /\ next.effect = poll.effect /\ next.round = poll.round
      /\ next.step = step
  BY PollTyped DEF PollRecord
<1>2. new \in SUBSET {next}
  OBVIOUS
<1> HIDE DEF next
<1>3. Seen(next) /\ ~Reading(next)
  BY <1>1 DEF Seen, Reading
<1>4. new \in SUBSET PollRecord
  BY <1>1, <1>2
<1> QED
  BY <1>1, <1>2, <1>3, <1>4, WithPollTyped, PollsKeep

LEMMA PollStartsKeeps ==
    ASSUME ChainInv, WatchInv, UNCHANGED chain, NEW poll \in watch.polls, PollStarts(poll)
    PROVE  WatchInv' /\ ShownStep
<1>1. CASE Cancelled(poll)
  <2>1. watch' = WithPoll(poll, {}) /\ {} \in SUBSET {[poll EXCEPT !.step = "wait"]}
    BY <1>1 DEF PollStarts
  <2> QED
    BY <2>1, PollIdle
<1>2. CASE ~Cancelled(poll)
  <2> DEFINE next == [poll EXCEPT !.step = "round"]
  <2>1. watch' = WithPoll(poll, {next})
    BY <1>2 DEF PollStarts
  <2>2. /\ next \in PollRecord /\ next.effect = poll.effect /\ next.round = poll.round
        /\ next.step = "round"
    BY PollTyped DEF PollRecord
  <2> HIDE DEF next
  <2>3. Seen(next) /\ Beyond(next, watch.shown)
    BY <2>2 DEF Seen, Beyond
  <2>4. \A other \in watch.polls \ {poll} : ~Reading(other)
    BY DEF PollStarts, Reading
  <2> QED
    BY <2>1, <2>2, <2>3, <2>4, WithPollTyped, PollsKeep
<1> QED
  BY <1>1, <1>2

\* What is read now is no older than what was shown, since the rounds go forward.
LEMMA PollReadsKeep ==
    ASSUME ChainInv, WatchInv, UNCHANGED chain, NEW poll \in watch.polls,
           PollReadsRound(poll) \/ PollReadsBids(poll) \/ PollReadsState(poll)
    PROVE  WatchInv' /\ ShownStep
<1>1. /\ poll \in PollRecord /\ poll.round \in Round /\ Seen(poll) /\ Reading(poll)
      /\ Beyond(poll, watch.shown) /\ \A other \in watch.polls \ {poll} : ~Reading(other)
  BY PollTyped DEF Reading, PollReadsRound, PollReadsBids, PollReadsState
<1>2. /\ chain[poll.round].status \in RoundStatus
      /\ chain[poll.round].bids \in SUBSET Account /\ chain[poll.round].revealed \in SUBSET Account
  BY <1>1 DEF ChainInv, ChainRound
<1>3. CASE PollReadsRound(poll)
  <2> DEFINE next == [poll EXCEPT !.step = "bids", !.status = chain[poll.round].status]
  <2>1. watch' = WithPoll(poll, {next})
    BY <1>3 DEF PollReadsRound
  <2>2. /\ next \in PollRecord /\ next.effect = poll.effect /\ next.round = poll.round
        /\ next.step = "bids" /\ next.status = chain[poll.round].status
    BY <1>1, <1>2 DEF PollRecord
  <2> HIDE DEF next
  <2>3. Seen(next)
    BY <1>2, <2>2, RankType DEF Seen
  <2>4. Beyond(next, watch.shown)
    BY <2>2 DEF Beyond, WatchInv, OnChain, NotOlder
  <2> QED
    BY <1>1, <2>1, <2>2, <2>3, <2>4, WithPollTyped, PollsKeep
<1>4. CASE PollReadsBids(poll)
  <2> DEFINE next == [poll EXCEPT !.step = "states", !.bids = chain[poll.round].bids,
                                  !.left = chain[poll.round].bids, !.revealed = {}]
  <2>1. watch' = WithPoll(poll, {next}) /\ poll.step = "bids"
    BY <1>4 DEF PollReadsBids
  <2>2. /\ next \in PollRecord /\ next.effect = poll.effect /\ next.round = poll.round
        /\ next.step = "states" /\ next.status = poll.status
        /\ next.bids = chain[poll.round].bids /\ next.left = chain[poll.round].bids
        /\ next.revealed = {}
    BY <1>1, <1>2 DEF PollRecord
  <2> HIDE DEF next
  <2>3. Seen(next)
    BY <1>1, <2>1, <2>2 DEF Seen
  <2>4. Beyond(next, watch.shown)
    BY <1>1, <2>1, <2>2 DEF ChainInv, Beyond, WatchInv, OnChain, NotOlder
  <2> QED
    BY <1>1, <2>1, <2>2, <2>3, <2>4, WithPollTyped, PollsKeep
<1>5. CASE PollReadsState(poll)
  <2>1. PICK a \in poll.left :
          watch' = WithPoll(poll,
                     {[poll EXCEPT !.left = poll.left \ {a},
                         !.revealed = poll.revealed \cup ({a} \cap chain[poll.round].revealed)]})
    BY <1>1, <1>5 DEF PollReadsState, PollRecord
  <2> DEFINE next == [poll EXCEPT !.left = poll.left \ {a},
                        !.revealed = poll.revealed \cup ({a} \cap chain[poll.round].revealed)]
  <2>2. /\ next \in PollRecord /\ next.effect = poll.effect /\ next.round = poll.round
        /\ next.step = poll.step /\ next.status = poll.status /\ next.bids = poll.bids
        /\ next.left = poll.left \ {a}
        /\ next.revealed = poll.revealed \cup ({a} \cap chain[poll.round].revealed)
    BY <1>1, <1>2 DEF PollRecord
  <2>3. watch' = WithPoll(poll, {next}) /\ poll.step = "states"
    BY <1>5, <2>1 DEF PollReadsState
  <2> HIDE DEF next
  <2>4. Seen(next)
    BY <1>1, <2>2, <2>3 DEF Seen
  <2>5. Beyond(next, watch.shown)
    BY <1>1, <2>2, <2>3 DEF Beyond, WatchInv, OnChain, NotOlder
  <2> QED
    BY <1>1, <2>2, <2>3, <2>4, <2>5, WithPollTyped, PollsKeep
<1> QED
  BY <1>3, <1>4, <1>5

\* A poll in force is of the observer's round, and the one that reads.
LEMMA PollAppliesKeeps ==
    ASSUME ChainInv, WatchInv, UNCHANGED chain, NEW poll \in watch.polls, PollApplies(poll)
    PROVE  WatchInv' /\ ShownStep
<1>1. CASE Cancelled(poll)
  <2>1. watch' = WithPoll(poll, {}) /\ {} \in SUBSET {[poll EXCEPT !.step = "wait"]}
    BY <1>1 DEF PollApplies
  <2> QED
    BY <2>1, PollIdle
<1>2. CASE ~Cancelled(poll)
  <2> DEFINE next == NewPoll(poll.effect, poll.round, "sleep")
             asleep == WithPoll(poll, {next})
             read == BuildRoundSnapshot(poll)
             shown == IF IsNewerSnapshot(read) THEN read ELSE watch.shown
  <2>1. watch' = [asleep EXCEPT !.sequence = watch.sequence + 1, !.error = FALSE, !.shown = shown]
    BY <1>2 DEF PollApplies, Asleep, WatchInv, Observer, WithPoll
  <2>2. /\ poll \in PollRecord /\ poll.round \in Round /\ Seen(poll) /\ poll.step = "states"
        /\ poll.left = {} /\ Beyond(poll, watch.shown) /\ \A other \in watch.polls \ {poll} : ~Reading(other)
    BY PollTyped DEF Reading, PollApplies
  <2>3. /\ next \in PollRecord /\ next.effect = poll.effect /\ next.round = poll.round
        /\ next.step = "sleep"
    BY <2>2 DEF PollRecord, NewPoll
  <2>4. poll.effect = watch.effect /\ poll.round = watch.round
    BY <1>2 DEF Cancelled, WatchInv
  <2>5. watch.sequence \in Nat /\ watch.sequence + 1 \in Nat /\ watch.shown \in ShownSnapshot \cup {None}
    BY DEF WatchInv, Observer
  <2>6. /\ read \in ShownSnapshot /\ read.round = poll.round /\ read.status = poll.status
        /\ read.bids = poll.bids /\ read.revealed = poll.revealed
    BY <2>2, <2>5 DEF BuildRoundSnapshot, ShownSnapshot, PollRecord, Seen
  <2>7. shown = read \/ shown = watch.shown
    OBVIOUS
  <2> HIDE DEF next, read, shown
  <2>8. /\ asleep \in Observer /\ asleep.effect = watch.effect /\ asleep.round = watch.round
        /\ asleep.polls = (watch.polls \ {poll}) \cup {next}
    BY <2>3, WithPollTyped
  <2> HIDE DEF asleep
  <2>9. shown \in ShownSnapshot \cup {None}
    BY <2>5, <2>6, <2>7
  <2>10. /\ watch' \in Observer /\ watch'.effect = watch.effect /\ watch'.round = watch.round
         /\ watch'.polls = (watch.polls \ {poll}) \cup {next} /\ watch'.shown = shown
    BY <2>1, <2>5, <2>8, <2>9 DEF Observer
  <2>11. OnChain(shown)
    BY <2>2, <2>6, <2>7 DEF WatchInv, OnChain, NotOlder, Seen
  <2>12. \A other \in watch'.polls :
           /\ Seen(other) /\ ~Reading(other)
           /\ other.effect <= watch'.effect
           /\ other.effect = watch'.effect => other.round = watch'.round
    BY <2>2, <2>3, <2>4, <2>10 DEF WatchInv, Seen, Reading
  <2>13. WatchInv'
    BY <2>10, <2>11, <2>12 DEF WatchInv, OnChain, Seen, Reading, Beyond
  <2>14. ShownStep
    BY <2>2, <2>4, <2>6, <2>7, <2>10 DEF ShownStep, Follows, NotOlder, Beyond
  <2> QED
    BY <2>13, <2>14
<1> QED
  BY <1>1, <1>2

LEMMA PollFailsKeeps ==
    ASSUME ChainInv, WatchInv, UNCHANGED chain, NEW poll \in watch.polls, PollFails(poll)
    PROVE  WatchInv' /\ ShownStep
<1> DEFINE next == NewPoll(poll.effect, poll.round, "sleep")
           asleep == WithPoll(poll, Asleep(poll))
           error == watch.error \/ ~Cancelled(poll)
<1>1. watch' = [asleep EXCEPT !.error = error]
  BY DEF PollFails, WithPoll, WatchInv, Observer
<1>2. /\ next \in PollRecord /\ next.effect = poll.effect /\ next.round = poll.round
      /\ next.step = "sleep"
  BY PollTyped DEF PollRecord, NewPoll
<1>3. Asleep(poll) \in SUBSET {next}
  BY DEF Asleep
<1>4. error \in BOOLEAN
  BY DEF WatchInv, Observer
<1> HIDE DEF next, error
<1>5. Asleep(poll) \in SUBSET PollRecord
  BY <1>2, <1>3
<1>6. /\ asleep \in Observer /\ asleep.effect = watch.effect /\ asleep.round = watch.round
      /\ asleep.shown = watch.shown /\ asleep.polls \subseteq (watch.polls \ {poll}) \cup {next}
  BY <1>3, <1>5, WithPollTyped
<1> HIDE DEF asleep
<1>7. /\ watch' \in Observer /\ watch'.effect = watch.effect /\ watch'.round = watch.round
      /\ watch'.shown = watch.shown /\ watch'.polls \subseteq (watch.polls \ {poll}) \cup {next}
  BY <1>1, <1>4, <1>6 DEF Observer
<1>8. Seen(next) /\ ~Reading(next)
  BY <1>2 DEF Seen, Reading
<1> QED
  BY <1>2, <1>7, <1>8, PollsKeep

LEMMA PollWakesKeeps ==
    ASSUME ChainInv, WatchInv, UNCHANGED chain, NEW poll \in watch.polls, PollWakes(poll)
    PROVE  WatchInv' /\ ShownStep
<1> DEFINE new == IF Cancelled(poll) THEN {} ELSE {[poll EXCEPT !.step = "wait"]}
<1>1. watch' = WithPoll(poll, new)
  BY DEF PollWakes
<1>2. new \in SUBSET {[poll EXCEPT !.step = "wait"]}
  OBVIOUS
<1> HIDE DEF new
<1> QED
  BY <1>1, <1>2, PollIdle

LEMMA ConfigureKeeps ==
    ASSUME ChainInv, WatchInv, Configure
    PROVE  WatchInv' /\ ShownStep
<1>1. PICK r \in Round :
        watch' = [watch EXCEPT !.round = r, !.effect = watch.effect + 1,
                               !.polls = watch.polls \cup {NewPoll(watch.effect + 1, r, "wait")}]
  BY DEF Configure, WatchInv, Observer
<1> DEFINE new == NewPoll(watch.effect + 1, r, "wait")
<1>2. watch \in Observer /\ watch.effect \in Nat /\ watch.effect + 1 \in Nat
  BY DEF WatchInv, Observer
<1>3. /\ new \in PollRecord /\ new.effect = watch.effect + 1 /\ new.round = r
      /\ new.step = "wait"
  BY <1>2 DEF PollRecord, NewPoll
<1>4. watch' = [watch EXCEPT !.round = r, !.effect = watch.effect + 1, !.polls = watch.polls \cup {new}]
  BY <1>1
<1> HIDE DEF new
<1>5. watch.polls \cup {new} \in SUBSET PollRecord /\ r \in AnyRound
  BY <1>2, <1>3 DEF Observer, AnyRound
<1>6. /\ watch' \in Observer /\ watch'.effect = watch.effect + 1 /\ watch'.round = r
      /\ watch'.shown = watch.shown /\ watch'.polls = watch.polls \cup {new}
  BY <1>2, <1>4, <1>5 DEF Observer
<1>7. Seen(new) /\ ~Reading(new)
  BY <1>3 DEF Seen, Reading
<1>8. \A poll \in watch.polls :
         /\ Seen(poll) /\ (Reading(poll) => Beyond(poll, watch.shown))
         /\ poll.effect <= watch'.effect /\ poll.effect # watch'.effect
  <2>1. \A poll \in watch.polls : poll.effect \in Nat
    BY DEF WatchInv, Observer, PollRecord
  <2> QED
    BY <1>2, <1>6, <2>1 DEF WatchInv
<1>9. \A poll \in watch'.polls :
         /\ Seen(poll) /\ (Reading(poll) => Beyond(poll, watch.shown))
         /\ poll.effect <= watch'.effect
         /\ poll.effect = watch'.effect => poll.round = watch'.round
  BY <1>2, <1>3, <1>6, <1>7, <1>8
<1>10. \A a, b \in watch'.polls : Reading(a) /\ Reading(b) => a = b
  BY <1>6, <1>7 DEF WatchInv
<1>11. UNCHANGED chain
  BY DEF Configure
<1>12. WatchInv'
  BY <1>6, <1>9, <1>10, <1>11 DEF WatchInv, OnChain, Seen, Reading, Beyond
<1> QED
  BY <1>6, <1>12 DEF ShownStep
-----------------------------------------------------------------------------
(***************************************************************************)
(* The whole system.                                                       *)
(***************************************************************************)
LEMMA InitIInv == Init => IInv
<1> SUFFICES ASSUME Init PROVE IInv
  OBVIOUS
<1>1. clicks \in Nat /\ ops = {}
  BY DEF Init
<1>2. ChainInv
  BY DEF Init, ChainInv, ChainRound, RoundStatus
<1>3. page \in Page /\ page.live = None
  BY DEF Init, Page, Account, AnyRound
<1>4. watch \in Observer /\ watch.polls = {} /\ watch.shown = None
  BY DEF Init, Observer, AnyRound
<1>5. PageInv
  BY <1>1, <1>3 DEF PageInv, OnChain
<1>6. WatchInv
  BY <1>4 DEF WatchInv, OnChain
<1> QED
  BY <1>1, <1>2, <1>5, <1>6 DEF IInv

\* One step: the invariant, and what either view may do.
LEMMA NextKeeps ==
    ASSUME IInv, [Next]_vars
    PROVE  IInv' /\ LiveStep /\ ShownStep
<1> USE DEF IInv
<1>1. ASSUME Forward, UNCHANGED <<page, ops, watch>>, clicks' \in Nat
      PROVE  IInv' /\ LiveStep /\ ShownStep
  <2>1. PageInv' /\ Quiet
    BY <1>1, HandlerKeeps DEF PageInv
  <2>2. WatchInv' /\ ShownStep
    BY <1>1, WatchStill
  <2> QED
    BY <1>1, <2>1, <2>2, QuietFollows DEF Forward
<1>2. ASSUME Forward, PageInv', LiveStep, UNCHANGED watch, clicks' \in Nat
      PROVE  IInv' /\ LiveStep /\ ShownStep
  BY <1>2, WatchStill DEF Forward
<1>3. ASSUME WatchInv', ShownStep, UNCHANGED <<chain, page, ops>>, clicks' \in Nat
      PROVE  IInv' /\ LiveStep /\ ShownStep
  <2>1. Forward
    BY <1>3, StillForward
  <2>2. PageInv' /\ Quiet
    BY <1>3, <2>1, HandlerKeeps DEF PageInv
  <2> QED
    BY <1>3, <2>1, <2>2, QuietFollows DEF Forward
<1>4. CASE World
  BY <1>1, <1>4, WorldForward DEF World
<1>5. CASE Click
  BY <1>2, <1>5, ClickKeeps, QuietFollows, StillForward DEF Click
<1>6. CASE Unmount
  BY <1>2, <1>6, UnmountKeeps, QuietFollows, StillForward DEF Unmount
<1>7. ASSUME NEW op \in ops, Step(op), UNCHANGED <<network, watch, clicks, world>>
      PROVE  IInv' /\ LiveStep /\ ShownStep
  BY <1>2, <1>7, StepKeeps
<1>8. CASE Configure
  <2>1. clicks' \in Nat /\ UNCHANGED <<chain, page, ops>>
    BY <1>8 DEF Configure
  <2>2. WatchInv' /\ ShownStep
    BY <1>8, ConfigureKeeps
  <2> QED
    BY <1>3, <2>1, <2>2
<1>9. ASSUME NEW poll \in watch.polls, UNCHANGED <<chain, network, page, ops, clicks, world>>,
             \/ PollStarts(poll) \/ PollReadsRound(poll) \/ PollReadsBids(poll)
             \/ PollReadsState(poll) \/ PollApplies(poll) \/ PollFails(poll) \/ PollWakes(poll)
      PROVE  IInv' /\ LiveStep /\ ShownStep
  <2>1. WatchInv' /\ ShownStep
    BY <1>9, PollStartsKeeps, PollReadsKeep, PollAppliesKeeps, PollFailsKeeps, PollWakesKeeps
  <2> QED
    BY <1>3, <1>9, <2>1
<1>10. CASE UNCHANGED vars
  BY <1>1, <1>10, StillForward DEF vars
<1> QED
  BY <1>4, <1>5, <1>6, <1>7, <1>8, <1>9, <1>10 DEF Next, Poll

\* The session and the observer keep their types, at most one refresh of a
\* request and one read of the observer are in flight, and what they have read
\* is behind the chain and not older than what is shown.
THEOREM SessionInvariant == Spec => []IInv
<1>1. IInv /\ [Next]_vars => IInv'
  BY NextKeeps
<1> QED
  BY InitIInv, <1>1, PTL DEF Spec

\* Whatever is in flight when the wallet or the round changes, and for any
\* number of handlers and refreshes, the session shows its own round and never
\* goes back to what it showed before.
THEOREM LiveFollows == Spec => LiveFollowsTheRound
<1>1. IInv /\ [Next]_vars =>
        [/\ page'.live # page.live => Follows(page'.live, page.live, page'.round)
         /\ page'.round # page.round => page'.live = None]_vars
  BY NextKeeps DEF LiveStep
<1> QED
  BY SessionInvariant, <1>1, PTL DEF Spec, LiveFollowsTheRound

\* The observer is shown only the round of its options and never an older read
\* of it, for any number of changes of the options and reads in flight.
THEOREM ObserverFollows == Spec => ObserverFollowsTheRound
<1>1. IInv /\ [Next]_vars =>
        [watch'.shown # watch.shown => Follows(watch'.shown, watch.shown, watch.round)]_vars
  BY NextKeeps DEF ShownStep
<1> QED
  BY SessionInvariant, <1>1, PTL DEF Spec, ObserverFollowsTheRound
=============================================================================
