---------------------------- MODULE KeeperProofs ----------------------------
(***************************************************************************)
(* The cursor is honest, for any number of keepers, bidders, seals and     *)
(* faults.  The round only moves forward, so whatever a keeper remembers   *)
(* of it (a reply, a place in its loop, a recorded step) stays true; what  *)
(* is left to show is that each of them is true when it is made.           *)
(***************************************************************************)
EXTENDS Keeper, TLAPS

Place == Reading \cup Waiting \cup {"failed", "down"}
Done == {"Cleared", "Settled", "Voided"}

\* The loop runs on a round that was opened, and has tried every bidder before
\* its position.
Looping(k) ==
    /\ InReveals(k) => status # "Open"
    /\ pc[k] = "revealing" => pos[k] <= Len(Bidders)
    /\ \A i \in 1 .. pos[k] - 1 : Bidders[i] \in revealed \cup skipped[k]

\* A reply that proves a step done is true of the chain.
Replied(k) ==
    /\ pc[k] \notin Waiting => reply[k] = None
    /\ reply[k] # None =>
          /\ pc[k] = "voiding" /\ reply[k] = "ok" => status = "Voided"
          /\ pc[k] = "opening" /\ reply[k] \in OpenGoesOn => status # "Open"
          /\ pc[k] = "revealing" /\ reply[k] \in RevealDone => Bidders[pos[k]] \in revealed
          /\ pc[k] = "clearing" /\ reply[k] \in ClearProved => status \in Done
          /\ pc[k] = "settling" /\ reply[k] \in SettleProved => status = "Settled"

Honest(k) == \A step \in mem[k] \cup disk[k] : Proven(step)

KeeperInv(k) == Looping(k) /\ Replied(k) /\ Honest(k)

\* The inductive invariant.  A replica may be behind, never ahead.
IInv ==
    /\ TypeOK
    /\ replica # "Open" => status # "Open"
    /\ \A k \in Keeper : KeeperInv(k)

\* How a round moves.
Forward ==
    /\ status' \in Status
    /\ status # "Open" => status' # "Open"
    /\ status \in Done => status' \in Done
    /\ status \in Terminal => status' = status
    /\ revealed \subseteq revealed' /\ revealed' \subseteq Bidder

Same(k) ==
    /\ pc'[k] = pc[k] /\ pos'[k] = pos[k] /\ skipped'[k] = skipped[k]
    /\ reply'[k] = reply[k] /\ mem'[k] = mem[k] /\ disk'[k] = disk[k]
-----------------------------------------------------------------------------
(***************************************************************************)
(* What a recorded step claims.                                            *)
(***************************************************************************)
LEMMA ProvenSteps ==
  /\ Proven("open-reveal") <=> status \in Done \cup {"Revealing"}
  /\ Proven("reveal") <=> status \in Done \cup {"Revealing"} /\ revealed = Bidder
  /\ Proven("clear") <=> status \in Done
  /\ Proven("settle") <=> status = "Settled"
  /\ Proven("void") <=> status = "Voided"
BY DEF Proven, SatisfiedBy, KeeperStep, Done

LEMMA ProvenStaysProven ==
  ASSUME TypeOK, Forward, NEW step \in KeeperStep, Proven(step)
  PROVE  Proven(step)'
<1>1. CASE step = "open-reveal"
  BY <1>1, ProvenSteps DEF Forward, Proven, SatisfiedBy, KeeperStep, Done, Status, Terminal
<1>2. CASE step = "reveal"
  BY <1>2, ProvenSteps DEF Forward, Proven, SatisfiedBy, KeeperStep, Done, Status, Terminal
<1>3. CASE step = "clear"
  BY <1>3, ProvenSteps DEF Forward, Proven, SatisfiedBy, KeeperStep, Done, Status, Terminal
<1>4. CASE step = "settle"
  BY <1>4, ProvenSteps DEF Forward, Proven, SatisfiedBy, KeeperStep, Done, Status, Terminal
<1>5. CASE step = "void"
  BY <1>5, ProvenSteps DEF Forward, Proven, SatisfiedBy, KeeperStep, Done, Status, Terminal
<1> QED
  BY <1>1, <1>2, <1>3, <1>4, <1>5 DEF KeeperStep
-----------------------------------------------------------------------------
(***************************************************************************)
(* What the contract answers, and what it then does.                       *)
(***************************************************************************)
LEMMA OpenRevealAnswers ==
  ASSUME TypeOK
  PROVE  /\ OpenRevealAnswer \in Replies
         /\ OpenRevealAnswer \in OpenGoesOn /\ OpenRevealAnswer # "ok" => status # "Open"
         /\ OpenRevealAnswer = "ok" => status = "Open"
BY DEF TypeOK, Status, OpenRevealAnswer, Replies, OpenGoesOn

LEMMA RevealAnswers ==
  ASSUME TypeOK, NEW b \in Bidder
  PROVE  /\ RevealAnswer(b) \in Replies
         /\ RevealAnswer(b) = "AlreadyRevealed" => b \in revealed
BY DEF TypeOK, Status, RevealAnswer, SealAnswer, SealKind, Replies

LEMMA ClearAnswers ==
  ASSUME TypeOK
  PROVE  /\ ClearAnswer \in Replies
         /\ ClearAnswer = "ok" => status = "Revealing"
         /\ ClearAnswer = "AlreadyCleared" => status = "Cleared"
BY DEF TypeOK, Status, ClearAnswer, Replies

LEMMA SettleAnswers ==
  ASSUME TypeOK
  PROVE  /\ SettleAnswer \in Replies
         /\ SettleAnswer = "ok" => status = "Cleared"
         /\ SettleAnswer = "AlreadySettled" => status = "Settled"
BY DEF TypeOK, Status, SettleAnswer, Replies

LEMMA VoidAnswers ==
  ASSUME TypeOK
  PROVE  /\ VoidAnswer \in Replies
         /\ VoidAnswer = "ok" => status = "Open"
BY DEF TypeOK, Status, VoidAnswer, Replies

\* What a reply says of the round after the call has landed.
Truth(call) ==
    /\ call = <<"void">> /\ Answer(call) = "ok" => status' = "Voided"
    /\ call = <<"open">> /\ Answer(call) \in OpenGoesOn => status' # "Open"
    /\ call = <<"clear">> /\ Answer(call) \in ClearProved => status' \in Done
    /\ call = <<"settle">> /\ Answer(call) \in SettleProved => status' = "Settled"
    /\ \A b \in Bidder : call = <<"reveal", b>> /\ Answer(call) \in RevealDone => b \in revealed'

LEMMA CallLands ==
  ASSUME TypeOK, NEW call \in Calls, Lands(call)
  PROVE  Answer(call) \in Replies /\ Forward /\ Truth(call)
<1>0. status \in Status /\ revealed \subseteq Bidder
  BY DEF TypeOK
<1>1. CASE call = <<"void">>
  <2>1. Answer(call) = VoidAnswer /\ StatusAfter(call) = "Voided" /\ call[1] = "void"
    BY <1>1 DEF Answer, StatusAfter
  <2> QED
    BY <1>0, <1>1, <2>1, VoidAnswers DEF Lands, Forward, Truth, Status, Done, Terminal, chain
<1>2. CASE call = <<"open">>
  <2>1. Answer(call) = OpenRevealAnswer /\ StatusAfter(call) = "Revealing" /\ call[1] = "open"
    BY <1>2 DEF Answer, StatusAfter
  <2> QED
    BY <1>0, <1>2, <2>1, OpenRevealAnswers
    DEF Lands, Forward, Truth, Status, Done, Terminal, chain
<1>3. CASE call = <<"clear">>
  <2>1. Answer(call) = ClearAnswer /\ call[1] = "clear" /\ StatusAfter(call) \in {"Cleared", "Voided"}
    BY <1>3 DEF Answer, StatusAfter
  <2> QED
    BY <1>0, <1>3, <2>1, ClearAnswers
    DEF Lands, Forward, Truth, Status, Done, Terminal, chain, ClearProved
<1>4. CASE call = <<"settle">>
  <2>1. Answer(call) = SettleAnswer /\ call[1] = "settle" /\ StatusAfter(call) = "Settled"
    BY <1>4 DEF Answer, StatusAfter
  <2> QED
    BY <1>0, <1>4, <2>1, SettleAnswers
    DEF Lands, Forward, Truth, Status, Done, Terminal, chain, SettleProved
<1>5. ASSUME NEW b \in Bidder, call = <<"reveal", b>>
      PROVE  Answer(call) \in Replies /\ Forward /\ Truth(call)
  <2>1. Answer(call) = RevealAnswer(b) /\ call[1] = "reveal" /\ StatusAfter(call) = status
    BY <1>5 DEF Answer, StatusAfter
  <2> QED
    BY <1>0, <1>5, <2>1, RevealAnswers
    DEF Lands, Forward, Truth, Status, Done, Terminal, chain, RevealDone
<1> QED
  BY <1>1, <1>2, <1>3, <1>4, <1>5 DEF Calls
-----------------------------------------------------------------------------
(***************************************************************************)
(* What a keeper knows stays true while it waits.                          *)
(***************************************************************************)
LEMMA KnowledgeKeeps ==
  ASSUME IInv, Forward, NEW k \in Keeper, Same(k)
  PROVE  KeeperInv(k)'
<1>1. TypeOK /\ KeeperInv(k) /\ mem[k] \subseteq KeeperStep /\ disk[k] \subseteq KeeperStep
  BY DEF IInv, TypeOK
<1>2. Honest(k)'
  BY <1>1, ProvenStaysProven DEF KeeperInv, Honest, Same
<1>3. Looping(k)'
  BY <1>1 DEF KeeperInv, Looping, InReveals, Same, Forward
<1>4. Replied(k)'
  BY <1>1 DEF KeeperInv, Replied, Same, Forward, Done, Terminal, Status, TypeOK
<1> QED
  BY <1>2, <1>3, <1>4 DEF KeeperInv

LEMMA OneKeeperStep ==
  ASSUME IInv, TypeOK', Forward, replica' = replica, NEW k \in Keeper, KeeperInv(k)',
         \A j \in Keeper \ {k} : Same(j)
  PROVE  IInv'
<1>1. \A j \in Keeper \ {k} : KeeperInv(j)'
  BY KnowledgeKeeps
<1> QED
  BY <1>1 DEF IInv, Forward

LEMMA RestForward ==
  ASSUME TypeOK, UNCHANGED chain
  PROVE  Forward
BY DEF TypeOK, Forward, chain

LEMMA EnvironmentTypes ==
  ASSUME TypeOK, UNCHANGED environment
  PROVE  /\ now' \in 0 .. MaxTime /\ published' \in BOOLEAN /\ status' \in Status
         /\ replica' \in Status /\ revealed' \subseteq Bidder /\ seal' \in [Bidder -> SealKind]
         /\ pool' \subseteq Calls /\ faults' \in 0 .. MaxFaults
BY DEF TypeOK, environment, chain
-----------------------------------------------------------------------------
(***************************************************************************)
(* Steps that only move a keeper on.                                       *)
(***************************************************************************)
LEMMA MoveKeeps ==
  ASSUME IInv, NEW k \in Keeper, NEW place \in Place \ {"revealing"},
         pc[k] \notin Waiting, ~InReveals(k), Goto(k, place),
         place = "bid" => status # "Open",
         UNCHANGED <<environment, pos, skipped, reply, files>>
  PROVE  IInv'
<1>1. TypeOK /\ KeeperInv(k)
  BY DEF IInv
<1>2. /\ pc'[k] = place /\ pc' \in [Keeper -> Place]
      /\ \A j \in Keeper \ {k} : pc'[j] = pc[j]
  BY <1>1 DEF Goto, TypeOK, Place
<1>3. TypeOK'
  BY <1>1, <1>2, EnvironmentTypes DEF TypeOK, files, Place, InReveals
<1>4. Forward
  BY <1>1, RestForward DEF environment
<1>5. Looping(k)'
  BY <1>1, <1>2 DEF KeeperInv, Looping, InReveals, environment, chain
<1>6. Replied(k)'
  BY <1>1, <1>2 DEF KeeperInv, Replied
<1>7. Honest(k)'
  BY <1>1 DEF KeeperInv, Honest, Proven, environment, chain, files
<1>8. \A j \in Keeper \ {k} : Same(j)
  BY <1>2 DEF Same, files
<1> QED
  BY <1>3, <1>4, <1>5, <1>6, <1>7, <1>8, OneKeeperStep DEF KeeperInv, environment

LEMMA ReadsAreBehind ==
  ASSUME IInv, NEW s \in Readable, s # "Open"
  PROVE  status # "Open"
BY DEF IInv, Readable

LEMMA ReadingKeeps ==
  ASSUME IInv, NEW k \in Keeper,
         VoidIfStale(k) \/ Look(k) \/ After(k) \/ Close(k) \/ Closed(k) \/ Retry(k)
  PROVE  IInv'
<1>1. CASE VoidIfStale(k)
  BY <1>1, MoveKeeps DEF VoidIfStale, Place, Reading, Waiting, InReveals
<1>2. CASE Look(k)
  BY <1>2, MoveKeeps DEF Look, Place, Reading, Waiting, InReveals
<1>3. CASE After(k)
  BY <1>3, MoveKeeps DEF After, Place, Reading, Waiting, InReveals
<1>4. CASE Close(k)
  BY <1>4, MoveKeeps DEF Close, Place, Reading, Waiting, InReveals
<1>5. CASE Closed(k)
  BY <1>5, MoveKeeps DEF Closed, Place, Reading, Waiting, InReveals
<1>6. CASE Retry(k)
  BY <1>6, MoveKeeps DEF Retry, Place, Reading, Waiting, InReveals
<1> QED
  BY <1>1, <1>2, <1>3, <1>4, <1>5, <1>6

LEMMA EnteringKeeps ==
  ASSUME IInv, NEW k \in Keeper, Keep(k) \/ Opened(k)
  PROVE  IInv'
<1>1. /\ pc[k] \in {"keep", "opened"}
      /\ UNCHANGED <<environment, pos, skipped, reply, files>>
      /\ \/ Goto(k, "opening") \/ Goto(k, "after")
         \/ \E s \in Readable : s = "Revealing" /\ Goto(k, "bid")
  BY DEF Keep, Opened, EnterReveals
<1>2. pc[k] \notin Waiting /\ ~InReveals(k)
  BY <1>1 DEF Waiting, InReveals
<1>3. CASE Goto(k, "opening") \/ Goto(k, "after")
  BY <1>1, <1>2, <1>3, MoveKeeps DEF Place, Reading, Waiting
<1>4. CASE \E s \in Readable : s = "Revealing" /\ Goto(k, "bid")
  <2>1. status # "Open"
    BY <1>4, ReadsAreBehind
  <2> QED
    BY <1>1, <1>2, <1>4, <2>1, MoveKeeps DEF Place, Reading
<1> QED
  BY <1>1, <1>3, <1>4
-----------------------------------------------------------------------------
(***************************************************************************)
(* Steps that leave the round alone.                                       *)
(***************************************************************************)
LEMMA CalmKeeps ==
  ASSUME IInv, TypeOK', UNCHANGED <<chain, replica>>, NEW k \in Keeper,
         Looping(k)', Replied(k)', Honest(k)',
         \A j \in Keeper \ {k} : Same(j)
  PROVE  IInv'
<1>1. Forward
  BY RestForward DEF IInv
<1> QED
  BY <1>1, OneKeeperStep DEF KeeperInv

\* The cursor after a step that may have recorded something.
FilesOK(k) ==
    /\ mem' \in [Keeper -> SUBSET KeeperStep]
    /\ disk' \in [Keeper -> SUBSET KeeperStep]
    /\ faults' \in 0 .. MaxFaults
    /\ \A step \in mem'[k] \cup disk'[k] : Proven(step)
    /\ \A j \in Keeper \ {k} : mem'[j] = mem[j] /\ disk'[j] = disk[j]

LEMMA NothingIsHonest ==
  ASSUME IInv, NEW k \in Keeper, NothingRecorded
  PROVE  FilesOK(k)
BY DEF IInv, TypeOK, KeeperInv, Honest, FilesOK, NothingRecorded, files

LEMMA RecordIsHonest ==
  ASSUME IInv, NEW k \in Keeper, NEW step \in KeeperStep, Proven(step), Record(k, step)
  PROVE  FilesOK(k)
<1>1. /\ mem \in [Keeper -> SUBSET KeeperStep] /\ disk \in [Keeper -> SUBSET KeeperStep]
      /\ faults \in 0 .. MaxFaults /\ Honest(k)
  BY DEF IInv, TypeOK, KeeperInv
<1>2. mem'[k] = mem[k] \cup {step} /\ \A j \in Keeper \ {k} : mem'[j] = mem[j]
  BY <1>1 DEF Record
<1>3. mem' \in [Keeper -> SUBSET KeeperStep]
  BY <1>1 DEF Record
<1>4. \A x \in mem'[k] : Proven(x)
  BY <1>1, <1>2 DEF Honest
<1>5. CASE Saved(k)
  BY <1>1, <1>2, <1>3, <1>4, <1>5 DEF Saved, FilesOK
<1>6. CASE SaveFails(k)
  <2>1. faults' \in 0 .. MaxFaults
    BY <1>1, <1>6, TimeAssumption DEF SaveFails
  <2>2. CASE disk' = disk
    BY <1>1, <1>2, <1>3, <1>4, <2>1, <2>2 DEF FilesOK, Honest
  <2>3. CASE disk' = [disk EXCEPT ![k] = {}]
    BY <1>1, <1>2, <1>3, <1>4, <2>1, <2>3 DEF FilesOK
  <2> QED
    BY <1>6, <2>2, <2>3 DEF SaveFails
<1> QED
  BY <1>5, <1>6 DEF Record

LEMMA FilesHonest ==
  ASSUME NEW k \in Keeper, FilesOK(k), UNCHANGED chain
  PROVE  Honest(k)'
BY DEF FilesOK, Honest, Proven, chain
-----------------------------------------------------------------------------
(***************************************************************************)
(* Answers outside the loop.                                               *)
(***************************************************************************)
LEMMA AnsweredKeeps ==
  ASSUME IInv, NEW k \in Keeper, NEW place \in Waiting \ {"revealing"},
         NEW next \in (Place \ Waiting) \ {"bid"}, Answered(k, place), Goto(k, next),
         FilesOK(k), UNCHANGED <<pos, skipped>>
  PROVE  IInv'
<1>1. TypeOK /\ KeeperInv(k) /\ UNCHANGED <<now, published, chain, replica, seal, pool>>
  BY DEF IInv, Answered
<1>2. /\ pc'[k] = next /\ pc' \in [Keeper -> Place] /\ ~InReveals(k)
      /\ next \notin Waiting /\ next \notin {"bid", "revealing"}
      /\ reply'[k] = None /\ reply' \in [Keeper -> Replies \cup {None}]
      /\ \A j \in Keeper \ {k} : pc'[j] = pc[j] /\ reply'[j] = reply[j]
  BY <1>1 DEF Goto, TypeOK, Place, Answered, InReveals, Waiting
<1>3. TypeOK'
  BY <1>1, <1>2 DEF TypeOK, FilesOK, Place, InReveals, chain
<1>4. Looping(k)'
  BY <1>1, <1>2 DEF KeeperInv, Looping, InReveals, chain
<1>5. Replied(k)'
  BY <1>2 DEF Replied
<1>6. Honest(k)'
  BY <1>1, FilesHonest
<1>7. \A j \in Keeper \ {k} : Same(j)
  BY <1>2 DEF Same, FilesOK
<1> QED
  BY <1>1, <1>3, <1>4, <1>5, <1>6, <1>7, CalmKeeps

LEMMA AnswerKeeps ==
  ASSUME IInv, NEW k \in Keeper,
         AfterVoid(k) \/ AfterOpen(k) \/ AfterClear(k) \/ AfterSettle(k)
  PROVE  IInv'
<1>1. TypeOK /\ Replied(k) /\ reply[k] \in Replies \cup {None}
  BY DEF IInv, TypeOK, KeeperInv
<1>2. CASE AfterVoid(k)
  <2>1. reply[k] = "ok" => Proven("void")
    BY <1>1, <1>2, ProvenSteps DEF AfterVoid, Answered, Replied
  <2>2. FilesOK(k)
    BY <1>2, <2>1, NothingIsHonest, RecordIsHonest DEF AfterVoid, RecordIf, KeeperStep
  <2> QED
    BY <1>2, <2>2, AnsweredKeeps DEF AfterVoid, Place, Reading, Waiting
<1>3. CASE AfterOpen(k)
  <2>1. reply[k] \in OpenGoesOn => Proven("open-reveal")
    BY <1>1, <1>3, ProvenSteps DEF AfterOpen, Answered, Replied, TypeOK, Status, Done
  <2>2. FilesOK(k)
    BY <1>3, <2>1, NothingIsHonest, RecordIsHonest DEF AfterOpen, RecordIf, KeeperStep
  <2> QED
    BY <1>3, <2>2, AnsweredKeeps DEF AfterOpen, Place, Reading, Waiting
<1>4. CASE AfterClear(k)
  <2>1. reply[k] \in ClearProved => Proven("clear")
    BY <1>1, <1>4, ProvenSteps DEF AfterClear, Answered, Replied
  <2>2. FilesOK(k)
    BY <1>4, <2>1, NothingIsHonest, RecordIsHonest DEF AfterClear, RecordIf, KeeperStep
  <2> QED
    BY <1>4, <2>2, AnsweredKeeps DEF AfterClear, Place, Reading, Waiting
<1>5. CASE AfterSettle(k)
  <2>1. reply[k] \in SettleProved => Proven("settle")
    BY <1>1, <1>5, ProvenSteps DEF AfterSettle, Answered, Replied
  <2>2. FilesOK(k)
    BY <1>5, <2>1, NothingIsHonest, RecordIsHonest DEF AfterSettle, RecordIf, KeeperStep
  <2> QED
    BY <1>5, <2>2, AnsweredKeeps DEF AfterSettle, Place, Reading, Waiting
<1> QED
  BY <1>2, <1>3, <1>4, <1>5
-----------------------------------------------------------------------------
(***************************************************************************)
(* The loop over the bidders.                                              *)
(***************************************************************************)
LEMMA BidderTypes ==
  /\ Len(Bidders) \in Nat
  /\ \A i \in 1 .. Len(Bidders) : Bidders[i] \in Bidder
  /\ \A b \in Bidder : \E i \in 1 .. Len(Bidders) : Bidders[i] = b
BY BidderAssumption

\* The bidder at pos is revealed or skipped, and the loop goes on.
LEMMA NextBidKeeps ==
  ASSUME IInv, NEW k \in Keeper, InReveals(k), pos[k] <= Len(Bidders),
         (NextBid(k) /\ UNCHANGED skipped /\ Bidders[pos[k]] \in revealed) \/ SkipBid(k),
         pc' = [pc EXCEPT ![k] = "bid"], reply' = [reply EXCEPT ![k] = None],
         UNCHANGED <<now, published, chain, replica, seal, pool, files>>,
         faults' \in 0 .. MaxFaults
  PROVE  IInv'
<1>1. TypeOK /\ KeeperInv(k) /\ pos[k] \in Nat \ {0} /\ skipped[k] \subseteq Bidder
  BY BidderTypes DEF IInv, TypeOK
<1>2. Bidders[pos[k]] \in Bidder
  BY <1>1, BidderTypes
<1>3. /\ pos'[k] = pos[k] + 1 /\ pos' \in [Keeper -> 1 .. Len(Bidders) + 1]
      /\ \A j \in Keeper \ {k} : pos'[j] = pos[j]
  <2>1. pos \in [Keeper -> 1 .. Len(Bidders) + 1]
    BY <1>1 DEF TypeOK
  <2>2. pos' = [pos EXCEPT ![k] = pos[k] + 1]
    BY DEF NextBid, SkipBid
  <2>3. pos[k] + 1 \in 1 .. Len(Bidders) + 1
    BY <1>1, BidderTypes
  <2> QED
    BY <2>1, <2>2, <2>3
<1>4. /\ skipped' \in [Keeper -> SUBSET Bidder] /\ skipped[k] \subseteq skipped'[k]
      /\ Bidders[pos[k]] \in revealed \cup skipped'[k]
      /\ \A j \in Keeper \ {k} : skipped'[j] = skipped[j]
  <2>1. skipped \in [Keeper -> SUBSET Bidder]
    BY <1>1 DEF TypeOK
  <2>2. CASE UNCHANGED skipped /\ Bidders[pos[k]] \in revealed
    BY <2>1, <2>2
  <2>3. CASE skipped' = [skipped EXCEPT ![k] = skipped[k] \cup {Bidders[pos[k]]}]
    BY <1>1, <1>2, <2>1, <2>3
  <2> QED
    BY <2>2, <2>3 DEF SkipBid
<1>5. /\ pc'[k] = "bid" /\ reply'[k] = None
      /\ pc' \in [Keeper -> Place] /\ reply' \in [Keeper -> Replies \cup {None}]
      /\ \A j \in Keeper \ {k} : pc'[j] = pc[j] /\ reply'[j] = reply[j]
  BY <1>1 DEF TypeOK, Place, Reading
<1>6. TypeOK'
  BY <1>1, <1>3, <1>4, <1>5 DEF TypeOK, Place, InReveals, chain, files
<1>7. Looping(k)'
  <2>1. \A i \in 1 .. pos[k] : Bidders[i] \in revealed \cup skipped'[k]
    <3>1. \A i \in 1 .. pos[k] - 1 : Bidders[i] \in revealed \cup skipped'[k]
      BY <1>1, <1>4 DEF KeeperInv, Looping
    <3> QED
      BY <1>1, <1>4, <3>1
  <2> QED
    BY <1>1, <1>3, <1>5, <2>1 DEF KeeperInv, Looping, InReveals, chain
<1>8. Replied(k)'
  BY <1>5 DEF Replied
<1>9. Honest(k)'
  BY <1>1 DEF KeeperInv, Honest, Proven, chain, files
<1>10. \A j \in Keeper \ {k} : Same(j)
  BY <1>3, <1>4, <1>5 DEF Same, files
<1> QED
  BY <1>6, <1>7, <1>8, <1>9, <1>10, CalmKeeps

\* The loop is left, at its end or by an error; so is every other place.
LEMMA LeaveKeeps ==
  ASSUME IInv, NEW k \in Keeper, NEW place \in {"after", "failed", "down"},
         Goto(k, place), LeaveReveals(k), reply' = [reply EXCEPT ![k] = None],
         FilesOK(k), pool' \subseteq Calls,
         UNCHANGED <<now, published, chain, replica, seal>>
  PROVE  IInv'
<1>1. TypeOK /\ KeeperInv(k)
  BY DEF IInv
<1>2. /\ pc'[k] = place /\ place \notin Waiting \cup {"bid", "revealing"}
      /\ pc' \in [Keeper -> Place]
      /\ reply'[k] = None /\ reply' \in [Keeper -> Replies \cup {None}]
      /\ \A j \in Keeper \ {k} : pc'[j] = pc[j] /\ reply'[j] = reply[j]
  BY <1>1 DEF Goto, TypeOK, Place, Reading, Waiting
<1>3. /\ pos'[k] = 1 /\ pos' \in [Keeper -> 1 .. Len(Bidders) + 1]
      /\ skipped'[k] = {} /\ skipped' \in [Keeper -> SUBSET Bidder]
      /\ \A j \in Keeper \ {k} : pos'[j] = pos[j] /\ skipped'[j] = skipped[j]
  BY <1>1, BidderTypes DEF LeaveReveals, TypeOK
<1>4. TypeOK'
  BY <1>1, <1>2, <1>3 DEF TypeOK, FilesOK, Place, InReveals, chain
<1>5. Looping(k)'
  BY <1>2, <1>3 DEF Looping, InReveals
<1>6. Replied(k)'
  BY <1>2 DEF Replied
<1>7. Honest(k)'
  BY FilesHonest
<1>8. \A j \in Keeper \ {k} : Same(j)
  BY <1>2, <1>3 DEF Same, FilesOK
<1> QED
  BY <1>4, <1>5, <1>6, <1>7, <1>8, CalmKeeps

\* Outside Waiting there is no reply to forget.
LEMMA NoReply ==
  ASSUME IInv, NEW k \in Keeper, pc[k] \notin Waiting, UNCHANGED reply
  PROVE  reply' = [reply EXCEPT ![k] = None]
BY DEF IInv, TypeOK, KeeperInv, Replied

LEMMA TryBidKeeps ==
  ASSUME IInv, NEW k \in Keeper, TryBid(k)
  PROVE  IInv'
<1>1. /\ TypeOK /\ KeeperInv(k) /\ pc[k] = "bid" /\ pos[k] <= Len(Bidders)
      /\ UNCHANGED <<environment, reply, files>>
  BY DEF IInv, TryBid
<1>2. InReveals(k) /\ pc[k] \notin Waiting
  BY <1>1 DEF InReveals, Waiting
<1>3. CASE UNCHANGED pc
  <2>1. pc' = [pc EXCEPT ![k] = "bid"]
    BY <1>1, <1>3 DEF TypeOK
  <2>2. (NextBid(k) /\ UNCHANGED skipped /\ Bidders[pos[k]] \in revealed) \/ SkipBid(k)
    BY <1>1, <1>3, <2>1 DEF TryBid, Goto, TypeOK
  <2>3. faults' \in 0 .. MaxFaults
    BY <1>1 DEF TypeOK, environment
  <2>4. reply' = [reply EXCEPT ![k] = None]
    BY <1>1, <1>2, NoReply
  <2> QED
    BY <1>1, <1>2, <2>1, <2>2, <2>3, <2>4, NextBidKeeps DEF environment
<1>4. CASE Goto(k, "revealing") /\ UNCHANGED <<pos, skipped>>
  <2>1. /\ pc'[k] = "revealing" /\ pc' \in [Keeper -> Place]
        /\ \A j \in Keeper \ {k} : pc'[j] = pc[j]
    BY <1>1, <1>4 DEF Goto, TypeOK, Place, Waiting
  <2>2. TypeOK'
    BY <1>1, <1>4, <2>1, EnvironmentTypes DEF TypeOK, Place, InReveals, files
  <2>3. Looping(k)'
    BY <1>1, <1>2, <1>4, <2>1 DEF KeeperInv, Looping, InReveals, environment, chain
  <2>4. Replied(k)'
    BY <1>1, <1>2, <2>1 DEF KeeperInv, Replied
  <2>5. Honest(k)'
    BY <1>1 DEF KeeperInv, Honest, Proven, environment, chain, files
  <2>6. \A j \in Keeper \ {k} : Same(j)
    BY <1>1, <1>4, <2>1 DEF Same, files
  <2> QED
    BY <1>1, <2>2, <2>3, <2>4, <2>5, <2>6, CalmKeeps DEF environment
<1> QED
  BY <1>3, <1>4 DEF TryBid

\* The cursor records the reveals only when all bidders are revealed.
LEMMA EndRevealsKeeps ==
  ASSUME IInv, NEW k \in Keeper, EndReveals(k)
  PROVE  IInv'
<1>1. /\ TypeOK /\ Looping(k) /\ pc[k] = "bid" /\ pos[k] > Len(Bidders)
      /\ pos[k] \in 1 .. Len(Bidders) + 1
      /\ UNCHANGED <<now, published, chain, replica, seal, pool, reply>>
  BY DEF IInv, KeeperInv, TypeOK, EndReveals
<1>2. FilesOK(k)
  <2>1. CASE EveryBidRevealed(k)
    <3>0. Len(Bidders) \in Nat
      BY BidderTypes
    <3>1. \A i \in 1 .. Len(Bidders) : Bidders[i] \in revealed
      <4>1. pos[k] - 1 = Len(Bidders) /\ skipped[k] = {}
        BY <1>1, <2>1, <3>0 DEF EveryBidRevealed
      <4> QED
        BY <1>1, <4>1 DEF Looping
    <3>2. revealed = Bidder
      <4>1. \A b \in Bidder : b \in revealed
        BY <3>1, BidderTypes
      <4> QED
        BY <1>1, <4>1 DEF TypeOK
    <3>3. status \in Done \cup {"Revealing"}
      BY <1>1 DEF Looping, InReveals, TypeOK, Status, Done
    <3>4. Proven("reveal")
      BY <3>2, <3>3, ProvenSteps
    <3> QED
      BY <2>1, <3>4, RecordIsHonest DEF EndReveals, KeeperStep
  <2>2. CASE ~EveryBidRevealed(k)
    BY <2>2, NothingIsHonest DEF EndReveals
  <2> QED
    BY <2>1, <2>2
<1>3. reply' = [reply EXCEPT ![k] = None]
  BY <1>1, NoReply DEF Waiting
<1>4. pool' \subseteq Calls
  BY <1>1 DEF TypeOK
<1> QED
  BY <1>1, <1>2, <1>3, <1>4, LeaveKeeps DEF EndReveals

LEMMA AfterRevealKeeps ==
  ASSUME IInv, NEW k \in Keeper, AfterReveal(k)
  PROVE  IInv'
<1>1. /\ TypeOK /\ Looping(k) /\ Replied(k) /\ pc[k] = "revealing" /\ reply[k] # None
      /\ reply' = [reply EXCEPT ![k] = None]
      /\ UNCHANGED <<now, published, chain, replica, seal, pool, files, faults>>
  BY DEF IInv, KeeperInv, AfterReveal, Answered, NothingRecorded
<1>2. InReveals(k) /\ pos[k] <= Len(Bidders) /\ faults' \in 0 .. MaxFaults
  BY <1>1 DEF InReveals, Looping, TypeOK
<1>3. CASE reply[k] \in RevealDone /\ Goto(k, "bid") /\ NextBid(k) /\ UNCHANGED skipped
  <2>1. Bidders[pos[k]] \in revealed
    BY <1>1, <1>3 DEF Replied
  <2> QED
    BY <1>1, <1>2, <1>3, <2>1, NextBidKeeps DEF Goto
<1>4. CASE Goto(k, "bid") /\ SkipBid(k)
  BY <1>1, <1>2, <1>4, NextBidKeeps DEF Goto
<1>5. CASE Goto(k, "failed") /\ LeaveReveals(k)
  <2>1. FilesOK(k)
    BY <1>1, NothingIsHonest DEF NothingRecorded
  <2>2. pool' \subseteq Calls
    BY <1>1 DEF TypeOK
  <2> QED
    BY <1>1, <1>5, <2>1, <2>2, LeaveKeeps
<1> QED
  BY <1>3, <1>4, <1>5 DEF AfterReveal
-----------------------------------------------------------------------------
(***************************************************************************)
(* Calls that land, and faults.                                            *)
(***************************************************************************)
LEMMA CallTypes ==
  ASSUME IInv, NEW k \in Keeper, pc[k] \in Waiting
  PROVE  /\ CallOf(k) \in Calls
         /\ pc[k] = "voiding" => CallOf(k) = <<"void">>
         /\ pc[k] = "opening" => CallOf(k) = <<"open">>
         /\ pc[k] = "clearing" => CallOf(k) = <<"clear">>
         /\ pc[k] = "settling" => CallOf(k) = <<"settle">>
         /\ pc[k] = "revealing" => /\ CallOf(k) = <<"reveal", Bidders[pos[k]]>>
                                   /\ Bidders[pos[k]] \in Bidder
<1>1. CASE pc[k] = "voiding"
  BY <1>1 DEF CallOf, Calls
<1>2. CASE pc[k] = "opening"
  BY <1>2 DEF CallOf, Calls
<1>3. CASE pc[k] = "clearing"
  BY <1>3 DEF CallOf, Calls
<1>4. CASE pc[k] = "settling"
  BY <1>4 DEF CallOf, Calls
<1>5. CASE pc[k] = "revealing"
  <2>1. Looping(k) /\ pos[k] \in 1 .. Len(Bidders) + 1
    BY DEF IInv, TypeOK, KeeperInv
  <2>2. Bidders[pos[k]] \in Bidder
    BY <1>5, <2>1, BidderTypes DEF Looping
  <2>3. CallOf(k) = <<"reveal", Bidders[pos[k]]>>
    BY <1>5 DEF CallOf
  <2> QED
    BY <1>5, <2>2, <2>3 DEF Calls
<1> QED
  BY <1>1, <1>2, <1>3, <1>4, <1>5 DEF Waiting

LEMMA LandKeeps ==
  ASSUME IInv, NEW k \in Keeper, Land(k)
  PROVE  IInv'
<1> DEFINE call == CallOf(k)
<1>1. /\ TypeOK /\ KeeperInv(k) /\ pc[k] \in Waiting /\ Lands(call)
      /\ reply' = [reply EXCEPT ![k] = Answer(call)]
      /\ UNCHANGED <<now, published, replica, seal, pool, faults, pc, pos, skipped, files>>
  BY DEF IInv, Land
<1>2. call \in Calls
  BY <1>1, CallTypes
<1>3. Answer(call) \in Replies /\ Forward /\ Truth(call)
  BY <1>1, <1>2, CallLands
<1>4. /\ reply'[k] = Answer(call) /\ reply' \in [Keeper -> Replies \cup {None}]
      /\ \A j \in Keeper \ {k} : reply'[j] = reply[j]
  BY <1>1, <1>3 DEF TypeOK
<1>5. TypeOK'
  BY <1>1, <1>3, <1>4 DEF TypeOK, Forward, InReveals, files
<1>6. Looping(k)'
  BY <1>1, <1>3 DEF KeeperInv, Looping, InReveals, Forward
<1>7. Replied(k)'
  BY <1>1, <1>3, <1>4, CallTypes DEF Replied, Truth, Waiting
<1>8. Honest(k)'
  BY <1>1, <1>3, ProvenStaysProven DEF KeeperInv, Honest, TypeOK, files
<1>9. \A j \in Keeper \ {k} : Same(j)
  BY <1>1, <1>4 DEF Same, files
<1> QED
  BY <1>1, <1>3, <1>5, <1>6, <1>7, <1>8, <1>9, OneKeeperStep DEF KeeperInv

\* Steps that touch no keeper.
LEMMA EnvironmentKeeps ==
  ASSUME IInv, Tick \/ Publish \/ CatchUp \/ LandLate
  PROVE  IInv'
<1>1. TypeOK /\ UNCHANGED <<pc, pos, skipped, reply, files>>
  BY DEF IInv, Tick, Publish, CatchUp, LandLate
<1>2. Forward
  <2>1. CASE UNCHANGED chain
    BY <1>1, <2>1, RestForward
  <2>2. ASSUME NEW call \in pool, Lands(call)
        PROVE  Forward
    BY <1>1, <2>2, CallLands DEF TypeOK
  <2> QED
    BY <2>1, <2>2 DEF Tick, Publish, CatchUp, LandLate
<1>3. /\ now' \in 0 .. MaxTime /\ published' \in BOOLEAN /\ replica' \in {replica, status}
      /\ pool' \subseteq Calls /\ faults' = faults /\ seal' = seal
  <2>1. CASE Tick
    BY <1>1, <2>1, TimeAssumption DEF TypeOK, Tick
  <2>2. CASE Publish
    BY <1>1, <2>2 DEF TypeOK, Publish
  <2>3. CASE CatchUp
    BY <1>1, <2>3 DEF TypeOK, CatchUp
  <2>4. CASE LandLate
    BY <1>1, <2>4 DEF TypeOK, LandLate
  <2> QED
    BY <2>1, <2>2, <2>3, <2>4
<1>4. TypeOK'
  BY <1>1, <1>2, <1>3 DEF TypeOK, Forward, InReveals, files
<1>5. \A k \in Keeper : Same(k)
  BY <1>1 DEF Same, files
<1>6. \A k \in Keeper : KeeperInv(k)'
  BY <1>2, <1>5, KnowledgeKeeps
<1> QED
  BY <1>2, <1>3, <1>4, <1>6 DEF IInv, Forward

LEMMA FaultTypes ==
  ASSUME IInv, Fault
  PROVE  faults' \in 0 .. MaxFaults
BY TimeAssumption DEF IInv, TypeOK, Fault

LEMMA PoolTypes ==
  ASSUME IInv, NEW k \in Keeper, GiveUp(k)
  PROVE  pool' \subseteq Calls
BY CallTypes DEF IInv, TypeOK, GiveUp

LEMMA FaultsKeep ==
  ASSUME IInv, NEW k \in Keeper,
         LoseAnswer(k) \/ ReadFails(k) \/ StateReadFails(k) \/ Crash(k)
  PROVE  IInv'
<1>1. TypeOK /\ KeeperInv(k) /\ faults' \in 0 .. MaxFaults
  BY FaultTypes DEF IInv, LoseAnswer, ReadFails, StateReadFails, Crash
<1>2. ASSUME UNCHANGED files
      PROVE  FilesOK(k)
  BY <1>1, <1>2 DEF TypeOK, KeeperInv, Honest, FilesOK, files
<1>3. CASE LoseAnswer(k)
  BY <1>2, <1>3, PoolTypes, LeaveKeeps DEF LoseAnswer, GiveUp
<1>4. CASE ReadFails(k)
  <2>1. pc[k] \notin Waiting /\ pool' \subseteq Calls
    BY <1>1, <1>4 DEF ReadFails, Reading, Waiting, TypeOK
  <2>2. reply' = [reply EXCEPT ![k] = None]
    BY <1>4, <2>1, NoReply DEF ReadFails
  <2> QED
    BY <1>2, <1>4, <2>1, <2>2, LeaveKeeps DEF ReadFails
<1>5. CASE StateReadFails(k)
  <2>1. pc[k] = "bid" /\ pc[k] \notin Waiting /\ InReveals(k) /\ pc' = [pc EXCEPT ![k] = "bid"]
    BY <1>1, <1>5 DEF StateReadFails, Waiting, InReveals, TypeOK
  <2>2. reply' = [reply EXCEPT ![k] = None]
    BY <1>5, <2>1, NoReply DEF StateReadFails
  <2> QED
    BY <1>1, <1>5, <2>1, <2>2, NextBidKeeps DEF StateReadFails
<1>6. CASE Crash(k)
  <2>1. FilesOK(k)
    BY <1>1, <1>6 DEF Crash, TypeOK, KeeperInv, Honest, FilesOK
  <2> QED
    BY <1>6, <2>1, PoolTypes, LeaveKeeps DEF Crash, GiveUp
<1> QED
  BY <1>3, <1>4, <1>5, <1>6

\* A restart believes no more than the file says.
LEMMA RestartKeeps ==
  ASSUME IInv, NEW k \in Keeper, Restart(k) \/ RestartUnreconciled(k)
  PROVE  IInv'
<1>1. /\ TypeOK /\ KeeperInv(k) /\ pc[k] = "down"
      /\ UNCHANGED <<now, published, chain, replica, seal, pool, pos, skipped, reply>>
      /\ Goto(k, "idle")
  BY DEF IInv, Restart, RestartUnreconciled
<1>2. FilesOK(k)
  <2>1. CASE Restart(k)
    <3>1. PICK believed \in SUBSET disk[k] : mem' = [mem EXCEPT ![k] = believed]
      BY <2>1 DEF Restart
    <3>2. /\ mem'[k] \subseteq disk[k] /\ mem' \in [Keeper -> SUBSET KeeperStep]
          /\ \A j \in Keeper \ {k} : mem'[j] = mem[j]
      BY <1>1, <3>1 DEF TypeOK
    <3>3. CASE Saved(k)
      BY <1>1, <3>2, <3>3 DEF Saved, TypeOK, KeeperInv, Honest, FilesOK
    <3>4. CASE SaveFails(k)
      <4>1. faults' \in 0 .. MaxFaults
        BY <1>1, <3>4, TimeAssumption DEF SaveFails, TypeOK
      <4>2. /\ disk' \in [Keeper -> SUBSET KeeperStep] /\ disk'[k] \subseteq disk[k]
            /\ \A j \in Keeper \ {k} : disk'[j] = disk[j]
        <5>1. disk \in [Keeper -> SUBSET KeeperStep]
          BY <1>1 DEF TypeOK
        <5>2. CASE disk' = disk
          BY <5>1, <5>2
        <5>3. CASE disk' = [disk EXCEPT ![k] = {}]
          BY <5>1, <5>3
        <5> QED
          BY <3>4, <5>2, <5>3 DEF SaveFails
      <4> QED
        BY <1>1, <3>2, <4>1, <4>2 DEF KeeperInv, Honest, FilesOK
    <3> QED
      BY <2>1, <3>3, <3>4 DEF Restart
  <2>2. CASE RestartUnreconciled(k)
    BY <1>1, <2>2, FaultTypes
    DEF RestartUnreconciled, TypeOK, KeeperInv, Honest, FilesOK
  <2> QED
    BY <2>1, <2>2
<1>3. /\ pc'[k] = "idle" /\ pc' \in [Keeper -> Place]
      /\ \A j \in Keeper \ {k} : pc'[j] = pc[j]
  BY <1>1 DEF Goto, TypeOK, Place, Reading
<1>4. ~InReveals(k) /\ pc[k] \notin Waiting
  BY <1>1 DEF InReveals, Waiting
<1>5. TypeOK'
  BY <1>1, <1>2, <1>3, <1>4 DEF TypeOK, FilesOK, Place, InReveals, chain
<1>6. Looping(k)'
  BY <1>1, <1>3 DEF KeeperInv, Looping, InReveals, chain
<1>7. Replied(k)'
  BY <1>1, <1>3, <1>4 DEF KeeperInv, Replied
<1>8. Honest(k)'
  BY <1>1, <1>2, FilesHonest
<1>9. \A j \in Keeper \ {k} : Same(j)
  BY <1>1, <1>2, <1>3 DEF Same, FilesOK
<1> QED
  BY <1>1, <1>5, <1>6, <1>7, <1>8, <1>9, CalmKeeps
-----------------------------------------------------------------------------
(***************************************************************************)
(* The theorems.                                                           *)
(***************************************************************************)
LEMMA InitHolds ==
  ASSUME Init
  PROVE  IInv
<1>1. \A k \in Keeper : /\ pc[k] = "idle" /\ pos[k] = 1 /\ skipped[k] = {}
                        /\ reply[k] = None /\ mem[k] = {} /\ disk[k] = {}
  BY DEF Init
<1>2. TypeOK
  <2>1. /\ now \in 0 .. MaxTime /\ published \in BOOLEAN /\ status \in Status
        /\ replica \in Status /\ revealed \subseteq Bidder /\ pool \subseteq Calls
        /\ faults \in 0 .. MaxFaults
    <3>1. now = 0 /\ 0 \in 0 .. MaxTime
      BY TimeAssumption DEF Init
    <3>2. faults = 0 /\ 0 \in 0 .. MaxFaults
      BY TimeAssumption DEF Init
    <3> QED
      BY <3>1, <3>2 DEF Init, Status
  <2>2. seal \in [Bidder -> SealKind]
    BY BidderAssumption DEF Init
  <2>3. 1 \in 1 .. Len(Bidders) + 1
    BY BidderTypes
  <2>4. /\ pc \in [Keeper -> Reading \cup Waiting \cup {"failed", "down"}]
        /\ pos \in [Keeper -> 1 .. Len(Bidders) + 1]
        /\ skipped \in [Keeper -> SUBSET Bidder]
        /\ reply \in [Keeper -> Replies \cup {None}]
        /\ mem \in [Keeper -> SUBSET KeeperStep]
        /\ disk \in [Keeper -> SUBSET KeeperStep]
    BY <2>3 DEF Init, Reading
  <2> QED
    BY <1>1, <2>1, <2>2, <2>4 DEF TypeOK
<1>3. ASSUME NEW k \in Keeper
      PROVE  KeeperInv(k)
  <2>1. Looping(k)
    BY <1>1 DEF Looping, InReveals
  <2>2. Replied(k)
    BY <1>1 DEF Replied
  <2>3. Honest(k)
    BY <1>1 DEF Honest
  <2> QED
    BY <2>1, <2>2, <2>3 DEF KeeperInv
<1> QED
  BY <1>2, <1>3 DEF Init, IInv

LEMMA NextKeeps ==
  ASSUME IInv, [Next]_vars
  PROVE  IInv'
<1>1. CASE Tick \/ Publish \/ CatchUp \/ LandLate
  BY <1>1, EnvironmentKeeps
<1>2. ASSUME NEW k \in Keeper, Pass(k)
      PROVE  IInv'
  BY <1>2, ReadingKeeps, EnteringKeeps, TryBidKeeps, EndRevealsKeeps, AnswerKeeps,
     AfterRevealKeeps, RestartKeeps DEF Pass
<1>3. ASSUME NEW k \in Keeper, Land(k)
      PROVE  IInv'
  BY <1>3, LandKeeps
<1>4. ASSUME NEW k \in Keeper, Trouble(k)
      PROVE  IInv'
  BY <1>4, FaultsKeep, RestartKeeps DEF Trouble
<1>5. CASE UNCHANGED vars
  BY <1>5 DEF vars, chain, files, IInv, TypeOK, KeeperInv, Looping, Replied, Honest,
              Proven, InReveals
<1> QED
  BY <1>1, <1>2, <1>3, <1>4, <1>5 DEF Next

\* IInv holds in every reachable state, with any number of keepers and faults.
THEOREM KeeperInvariant == Spec => []IInv
<1>1. Init => IInv
  BY InitHolds
<1>2. IInv /\ [Next]_vars => IInv'
  BY NextKeeps
<1> QED
  BY <1>1, <1>2, PTL DEF Spec

\* Types, the bounds of the loop, and that its state lives in the loop only
\* (keepRound).
THEOREM KeeperTypes == Spec => []TypeOK
<1>1. IInv => TypeOK
  BY DEF IInv
<1> QED
  BY <1>1, KeeperInvariant, PTL

\* A step in a checkpoint holds on chain, whatever was lost, raced, restarted
\* or read late (recordStep, reconcile).
THEOREM CursorIsHonest == Spec => []CursorHonest
<1>1. IInv => CursorHonest
  BY DEF IInv, KeeperInv, Honest, CursorHonest
<1> QED
  BY <1>1, KeeperInvariant, PTL
-----------------------------------------------------------------------------
(***************************************************************************)
(* A pass over the bidders, as long as no bid is above its escrow: the     *)
(* contract answers every reveal of an open window with one of the answers *)
(* the loop goes on after, so only a fault or its end takes a keeper out.  *)
(***************************************************************************)
Coverable == \A kinds \in Seals : \A b \in Bidder : kinds[b] # "over"

\* Nobody ends a round before its reveal deadline has passed.
OpenInTime == now <= REVEAL_DEADLINE => status \in {"Open", "Revealing"}

Answerable(k) ==
    (pc[k] = "revealing" /\ reply[k] # None /\ now <= REVEAL_DEADLINE)
        => reply[k] \in RevealDone \cup RevealSkips

PassInv ==
    /\ IInv
    /\ \A b \in Bidder : seal[b] # "over"
    /\ OpenInTime
    /\ \A k \in Keeper : Answerable(k)

\* What a keeper that waits knows of its answer: it has none, or the old one.
Known(k) == reply'[k] = None \/ (reply'[k] = reply[k] /\ pc'[k] = pc[k])

LEMMA LandsInTime ==
  ASSUME TypeOK, OpenInTime, NEW call \in Calls, Lands(call), now' = now
  PROVE  OpenInTime'
<1>0. /\ now \in Nat /\ REVEAL_DEADLINE \in Nat /\ VOID_GRACE \in Nat
      /\ status \in Status
  BY TimeAssumption DEF TypeOK
<1> SUFFICES ASSUME now <= REVEAL_DEADLINE PROVE status' \in {"Open", "Revealing"}
  BY DEF OpenInTime
<1>1. status \in {"Open", "Revealing"}
  BY DEF OpenInTime
<1>2. CASE call = <<"void">>
  <2>1. Answer(call) = VoidAnswer /\ VoidAnswer # "ok"
    BY <1>0, <1>1, <1>2 DEF Answer, VoidAnswer, VoidAfter
  <2> QED
    BY <1>1, <2>1 DEF Lands, chain
<1>3. CASE call = <<"open">>
  <2>1. StatusAfter(call) = "Revealing"
    BY <1>3 DEF StatusAfter
  <2> QED
    BY <1>1, <2>1 DEF Lands, chain
<1>4. CASE call = <<"clear">>
  <2>1. Answer(call) = ClearAnswer /\ ClearAnswer # "ok"
    BY <1>0, <1>1, <1>4 DEF Answer, ClearAnswer
  <2> QED
    BY <1>1, <2>1 DEF Lands, chain
<1>5. CASE call = <<"settle">>
  <2>1. Answer(call) = SettleAnswer /\ SettleAnswer # "ok"
    BY <1>0, <1>1, <1>5 DEF Answer, SettleAnswer
  <2> QED
    BY <1>1, <2>1 DEF Lands, chain
<1>6. ASSUME NEW b \in Bidder, call = <<"reveal", b>>
      PROVE  status' \in {"Open", "Revealing"}
  <2>1. StatusAfter(call) = status
    BY <1>6 DEF StatusAfter
  <2> QED
    BY <1>1, <2>1 DEF Lands, chain
<1> QED
  BY <1>2, <1>3, <1>4, <1>5, <1>6 DEF Calls

\* A reveal of an open window, by a keeper in its loop.
LEMMA RevealIsAnswered ==
  ASSUME PassInv, NEW b \in Bidder, status # "Open", now <= REVEAL_DEADLINE
  PROVE  RevealAnswer(b) \in RevealDone \cup RevealSkips
<1>1. status = "Revealing"
  BY DEF PassInv, OpenInTime
<1>2. now \in Nat /\ REVEAL_DEADLINE \in Nat /\ seal[b] \in SealKind /\ seal[b] # "over"
  BY TimeAssumption DEF PassInv, IInv, TypeOK
<1>3. SealAnswer(b) \in {"ok", "HashMismatch"}
  BY <1>2 DEF SealAnswer, SealKind
<1> QED
  BY <1>1, <1>2, <1>3 DEF RevealAnswer, RevealDone, RevealSkips

\* Steps of a keeper other than a call that lands.
LEMMA KeeperStepKnown ==
  ASSUME IInv, NEW k \in Keeper, Pass(k) \/ Trouble(k)
  PROVE  /\ UNCHANGED <<now, status, seal>>
         /\ \A j \in Keeper : Known(j)
         /\ \A j \in Keeper \ {k} : pc'[j] = pc[j]
<1>1. /\ pc \in [Keeper -> Place] /\ reply \in [Keeper -> Replies \cup {None}]
      /\ pc[k] \notin Waiting => reply[k] = None
  BY DEF IInv, TypeOK, Place, KeeperInv, Replied
<1>2. UNCHANGED <<now, status, seal>>
  BY DEF Pass, Trouble, VoidIfStale, Look, Keep, Opened, TryBid, EndReveals, After, Close, Closed,
         AfterVoid, AfterOpen, AfterReveal, AfterClear, AfterSettle, Retry, Restart, Answered,
         LoseAnswer, ReadFails, StateReadFails, Crash, RestartUnreconciled, environment, chain
<1>3. \A j \in Keeper \ {k} : pc'[j] = pc[j]
  BY <1>1 DEF Pass, Trouble, VoidIfStale, Look, Keep, Opened, TryBid, EndReveals, After, Close,
         Closed, AfterVoid, AfterOpen, AfterReveal, AfterClear, AfterSettle, Retry, Restart,
         LoseAnswer, ReadFails, StateReadFails, Crash, RestartUnreconciled, Goto, EnterReveals
<1>4. reply' = [reply EXCEPT ![k] = None] \/ (reply' = reply /\ pc[k] \notin Waiting)
  BY DEF Pass, Trouble, VoidIfStale, Look, Keep, Opened, TryBid, EndReveals, After, Close, Closed,
         AfterVoid, AfterOpen, AfterReveal, AfterClear, AfterSettle, Retry, Restart, Answered,
         LoseAnswer, ReadFails, StateReadFails, Crash, RestartUnreconciled, GiveUp, Reading, Waiting
<1>5. \A j \in Keeper : Known(j)
  BY <1>1, <1>3, <1>4 DEF Known
<1> QED
  BY <1>2, <1>3, <1>5

LEMMA PassInvKeeps ==
  ASSUME PassInv, [Next]_vars
  PROVE  PassInv'
<1>1. IInv'
  BY NextKeeps DEF PassInv
<1>2. IInv /\ TypeOK /\ now \in Nat /\ REVEAL_DEADLINE \in Nat
  BY TimeAssumption DEF PassInv, IInv, TypeOK
<1>3. ASSUME seal' = seal, OpenInTime', now' \in Nat, now' >= now, \A k \in Keeper : Known(k)
      PROVE  PassInv'
  BY <1>1, <1>2, <1>3 DEF PassInv, Answerable, Known
<1>4. ASSUME UNCHANGED <<pc, reply>>
      PROVE  \A k \in Keeper : Known(k)
  BY <1>4 DEF Known
<1>5. CASE UNCHANGED vars
  BY <1>2, <1>3, <1>4, <1>5 DEF vars, chain, PassInv, OpenInTime
<1>6. CASE Tick
  <2>1. now' = now + 1 /\ UNCHANGED <<pc, reply, status, seal>>
    BY <1>6 DEF Tick, chain
  <2>2. OpenInTime'
    BY <1>2, <2>1 DEF PassInv, OpenInTime
  <2> QED
    BY <1>2, <1>3, <1>4, <2>1, <2>2
<1>7. CASE Publish \/ CatchUp
  BY <1>2, <1>3, <1>4, <1>7 DEF Publish, CatchUp, chain, PassInv, OpenInTime
<1>8. CASE LandLate
  <2>1. now' = now /\ UNCHANGED <<pc, reply, seal>>
    BY <1>8 DEF LandLate
  <2>2. OpenInTime'
    <3>1. CASE UNCHANGED chain
      BY <2>1, <3>1 DEF PassInv, OpenInTime, chain
    <3>2. ASSUME NEW call \in pool, Lands(call)
          PROVE  OpenInTime'
      BY <1>2, <2>1, <3>2, LandsInTime DEF PassInv, TypeOK
    <3> QED
      BY <1>8, <3>1, <3>2 DEF LandLate
  <2> QED
    BY <1>2, <1>3, <1>4, <2>1, <2>2
<1>9. ASSUME NEW k \in Keeper, Pass(k) \/ Trouble(k)
      PROVE  PassInv'
  <2>1. UNCHANGED <<now, status, seal>> /\ \A j \in Keeper : Known(j)
    BY <1>2, <1>9, KeeperStepKnown
  <2> QED
    BY <1>2, <1>3, <2>1 DEF PassInv, OpenInTime
<1>10. ASSUME NEW k \in Keeper, Land(k)
       PROVE  PassInv'
  <2>1. /\ pc[k] \in Waiting /\ Lands(CallOf(k)) /\ CallOf(k) \in Calls
        /\ reply' = [reply EXCEPT ![k] = Answer(CallOf(k))]
        /\ UNCHANGED <<now, seal, pc>>
    BY <1>2, <1>10, CallTypes DEF Land
  <2>2. OpenInTime'
    BY <1>2, <2>1, LandsInTime DEF PassInv
  <2>3. /\ reply'[k] = Answer(CallOf(k))
        /\ \A j \in Keeper \ {k} : reply'[j] = reply[j]
    BY <1>2, <2>1 DEF TypeOK
  <2>4. Answerable(k)'
    <3> SUFFICES ASSUME pc[k] = "revealing", now <= REVEAL_DEADLINE
                 PROVE  reply'[k] \in RevealDone \cup RevealSkips
      BY <2>1 DEF Answerable
    <3>1. status # "Open"
      BY <1>2 DEF IInv, KeeperInv, Looping, InReveals
    <3>2. CallOf(k) = <<"reveal", Bidders[pos[k]]>> /\ Bidders[pos[k]] \in Bidder
      BY <1>2, <2>1, CallTypes
    <3>3. Answer(CallOf(k)) = RevealAnswer(Bidders[pos[k]])
      BY <3>2 DEF Answer
    <3> QED
      BY <2>3, <3>1, <3>2, <3>3, RevealIsAnswered
  <2>5. \A j \in Keeper \ {k} : Answerable(j)'
    BY <2>1, <2>3 DEF PassInv, Answerable
  <2> QED
    BY <1>1, <2>1, <2>2, <2>4, <2>5 DEF PassInv
<1> QED
  BY <1>5, <1>6, <1>7, <1>8, <1>9, <1>10 DEF Next

\* A pass ends at the last bidder, unless a fault cuts it short.
LEMMA PassEnds ==
  ASSUME PassInv, NEW k \in Keeper, Pass(k), InReveals(k), ~InReveals(k)', faults' = faults,
         now <= REVEAL_DEADLINE
  PROVE  pc[k] = "bid" /\ pos[k] > Len(Bidders)
<1>1. TypeOK /\ Replied(k) /\ Looping(k) /\ Answerable(k) /\ pc[k] \in {"bid", "revealing"}
      /\ pc'[k] \notin {"bid", "revealing"} /\ pc \in [Keeper -> Place]
  BY DEF PassInv, IInv, KeeperInv, TypeOK, Place, InReveals
<1>2. TryBid(k) \/ EndReveals(k) \/ AfterReveal(k)
  BY <1>1 DEF Pass, VoidIfStale, Look, Keep, Opened, After, Close, Closed, AfterVoid, AfterOpen,
              AfterClear, AfterSettle, Retry, Restart, Answered
<1>3. ~TryBid(k)
  BY <1>1 DEF TryBid, Goto
<1>4. CASE AfterReveal(k)
  <2>1. pc[k] = "revealing" /\ reply[k] # None
    BY <1>4 DEF AfterReveal, Answered
  <2>2. reply[k] \in RevealDone \cup RevealSkips
    BY <1>1, <2>1 DEF Answerable
  <2>3. Goto(k, "bid")
    BY <1>4, <2>2 DEF AfterReveal
  <2> QED
    BY <1>1, <2>3 DEF Goto
<1>5. CASE EndReveals(k)
  BY <1>5 DEF EndReveals
<1> QED
  BY <1>2, <1>3, <1>4, <1>5

\* A fault is counted: it is no step that the property speaks of.
LEMMA TroubleCounts ==
  ASSUME IInv, NEW k \in Keeper, Trouble(k)
  PROVE  faults' # faults
BY DEF IInv, TypeOK, Trouble, LoseAnswer, ReadFails, StateReadFails, Crash,
       RestartUnreconciled, Fault

LEMMA PassStep ==
  ASSUME PassInv, [Next]_vars, NEW k \in Keeper, InReveals(k), ~InReveals(k)',
         faults' = faults, now <= REVEAL_DEADLINE, NEW b \in Bidder
  PROVE  b \in revealed \/ b \in skipped[k]
<1>1. IInv /\ TypeOK /\ Looping(k)
  BY DEF PassInv, IInv, KeeperInv
<1>2. pc'[k] # pc[k]
  BY DEF InReveals
<1>3. Pass(k)
  <2>1. ~UNCHANGED pc
    BY <1>2
  <2>2. \E j \in Keeper : Pass(j) \/ Trouble(j)
    BY <2>1 DEF Next, vars, Tick, Publish, CatchUp, LandLate, Land
  <2>3. Pass(k) \/ Trouble(k)
    BY <1>1, <1>2, <2>2, KeeperStepKnown
  <2> QED
    BY <1>1, <2>3, TroubleCounts
<1>4. pc[k] = "bid" /\ pos[k] > Len(Bidders)
  BY <1>3, PassEnds
<1>5. pos[k] \in 1 .. Len(Bidders) + 1 /\ Len(Bidders) \in Nat
  BY <1>1, BidderTypes DEF TypeOK
<1>6. \A i \in 1 .. Len(Bidders) : Bidders[i] \in revealed \cup skipped[k]
  <2>1. pos[k] - 1 = Len(Bidders)
    BY <1>4, <1>5
  <2> QED
    BY <1>1, <2>1 DEF Looping
<1> QED
  BY <1>6, BidderTypes

\* A pass leaves every bid it could open revealed or recorded as skipped, unless
\* the window closes on it or a fault cuts it short (keepRound): for any bidders
\* and any seals, as long as no bid is above its escrow (the run keeper_over_bid
\* shows what one of those does).
THEOREM PassesRevealAll ==
  ASSUME Coverable
  PROVE  Spec => PassRevealsAll
<1>1. Init => PassInv
  <2> SUFFICES ASSUME Init PROVE PassInv
    OBVIOUS
  <2>1. \A b \in Bidder : seal[b] # "over"
    BY DEF Init, Coverable
  <2>2. OpenInTime /\ \A k \in Keeper : Answerable(k)
    BY DEF Init, OpenInTime, Answerable
  <2> QED
    BY <2>1, <2>2, InitHolds DEF PassInv
<1>2. PassInv /\ [Next]_vars => PassInv'
  BY PassInvKeeps
<1>3. PassInv /\ [Next]_vars
        => [\A k \in Keeper :
              (InReveals(k) /\ ~InReveals(k)' /\ faults' = faults /\ now <= REVEAL_DEADLINE)
              => \A b \in Bidder : seal[b] \in {"good", "zero"}
                    => b \in revealed \/ b \in skipped[k]]_vars
  BY PassStep
<1> QED
  BY <1>1, <1>2, <1>3, PTL DEF Spec, PassRevealsAll
=============================================================================
