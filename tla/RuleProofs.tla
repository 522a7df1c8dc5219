------------------------------ MODULE RuleProofs ------------------------------
(***************************************************************************)
(* The rules of the off-chain code, proved for inputs of any size.          *)
(*                                                                         *)
(* TLC checks a rule on the samples that MCRules enumerates.  Here the       *)
(* samples of a kind are described by what the program gives the rule: each *)
(* ...Input below says what a sample of its kind is, with sequences of any  *)
(* length and numbers without a bound, and each theorem says that the rule  *)
(* keeps its promise on all of them.                                       *)
(***************************************************************************)
EXTENDS KeeperStatus, Receipt, Seal, Readiness, Bidder, Client, SumsProofs, FiniteSetTheorems,
        SequenceTheorems

RoundStatus == {"Open", "Revealing", "Cleared", "Settled", "Voided"}

\* What a verifier says of a hash.
Verdict == {"confirmed", "failed", "missing", "unreachable"}

\* A bid as the contract stores it: a revealed value is no larger than the escrow.
StoredBid ==
    {b \in [escrow : Nat, value : Int \cup {None}, settled : BOOLEAN] :
        b.value = None \/ b.value <= b.escrow}

\* A round of any number of bids, read up to any bidder but for any of them, at
\* any time; a round is cleared or settled with a winner, and an open one has no
\* value yet.
GuardInput ==
    sample.kind = "guard" =>
        \E bids \in Seq(StoredBid), rule \in {"HighestBid", "LowestBid"}, status \in RoundStatus :
           LET round == ContractRound(status, rule, bids)
           IN  /\ status \in {"Cleared", "Settled"} => round.winner # None
               /\ status = "Open" => \A i \in DOMAIN bids : bids[i].value = None
               /\ \E read \in 0 .. Len(bids), now \in Int :
                  \E unread \in SUBSET (1 .. read) :
                     sample = [kind |-> "guard", round |-> round, read |-> read,
                               unread |-> unread, now |-> now]

\* Any history of recorded steps, in any file, whatever the status on chain and
\* whatever a verifier, if there is one, says of the hashes.
CursorInput ==
    sample.kind = "cursor" =>
        \E hashes, file, status, verify :
           /\ NoHash \notin hashes
           /\ verify = Nobody \/ verify \in [hashes -> Verdict]
           /\ file \in {"own", "missing", "otherNetwork", "otherContract", "otherVersion"}
           /\ \E history \in Seq([step : KeeperStep, hash : hashes \cup {NoHash}]) :
                 sample = [kind |-> "cursor", history |-> history, file |-> file,
                           status |-> status, verify |-> verify]

\* A round that commits before its beacon (lib.rs:99), with any number of bidders and
\* revealed bids, read at any time and by any answers, any history of recorded steps
\* in any file, and another round of any status beside it.
StatusInput ==
    sample.kind = "status" =>
        \E status \in RoundStatus, other \in RoundStatus, revealed \in Seq(BOOLEAN),
           commit \in Int, publish \in Int, deadline \in Int, now \in Int,
           file \in {"own", "missing", "otherNetwork", "otherContract", "otherVersion"},
           tracked \in 0 .. 2, drand \in BOOLEAN :
           /\ commit < publish
           /\ \E hashes, read, unread :
              /\ NoHash \notin hashes
              /\ \E history \in Seq([step : KeeperStep, hash : hashes \cup {NoHash}]) :
                   sample = [kind |-> "status", now |-> now, unread |-> unread, history |-> history,
                             round |-> [status |-> status, commit |-> commit, publish |-> publish,
                                        deadline |-> deadline, revealed |-> revealed],
                             file |-> file, read |-> read, tracked |-> tracked, other |-> other,
                             drand |-> drand]
-----------------------------------------------------------------------------
\* A void whose answer is lost may be sent again by the next pass, which then
\* learns how the round ended, and no pass takes a round for ended that is not
\* (settlement-guard.ts).
THEOREM FailedWorkIsSentAgain ==
  GuardInput => FailedWorkIsRetried
<1> SUFFICES ASSUME GuardInput, sample.kind = "guard" PROVE FailedWorkIsRetried
  BY DEF FailedWorkIsRetried
<1> DEFINE round == sample.round
           view == ReadSettlementView(round, sample.read, sample.unread, sample.now)
           Answer(wanted) == IF ContractAccepts("void", round, sample.now) THEN wanted
                             ELSE "NotVoidable"
           once == VoidIfStale(NewEntry, view, Answer("lost"))
           twice == VoidIfStale(once, view, Answer("ok"))
<1>1. round.status \in RoundStatus /\ round.deadline = 0 /\ sample.now \in Int
  BY DEF GuardInput, ContractRound
<1>2. view.status = round.status /\ view.now = sample.now /\ view.deadline = round.deadline
  BY DEF ReadSettlementView
<1>3. Unverified(view) \in {"bidder_page_incomplete", "refund_missing", "allowed"}
  BY DEF Unverified
<1>4. CASE EvaluateVoid(view) = "allowed"
  <2>1. round.status = "Open" /\ sample.now > round.deadline + VOID_GRACE_SECONDS
    BY <1>1, <1>2, <1>4, GuardAssumption DEF EvaluateVoid, VoidAfter, RoundStatus
  <2>2. Answer("lost") = "lost" /\ Answer("ok") = "ok"
    BY <2>1 DEF ContractAccepts
  <2>3. once = [status |-> "pending", skip |-> None]
    BY <1>4, <2>2
       DEF VoidIfStale, Check, Evaluate, NewEntry, CanSettle, MarkRetryable, MarkSubmitted
  <2>4. twice.status = "terminal"
    BY <1>4, <2>2, <2>3
       DEF VoidIfStale, Check, Evaluate, CanSettle, MarkTerminal, MarkSubmitted
  <2> QED
    BY <2>3, <2>4, <1>4 DEF FailedWorkIsRetried, CanSettle
<1>5. CASE EvaluateVoid(view) # "allowed"
  <2>1. once = [status |-> IF EvaluateVoid(view) \in {"already_settled", "round_voided"}
                           THEN "terminal" ELSE "pending", skip |-> EvaluateVoid(view)]
    BY <1>5 DEF VoidIfStale, Check, Evaluate, NewEntry, CanSettle
  <2>2. EvaluateVoid(view) \in {"already_settled", "round_voided"}
          => round.status \in {"Settled", "Voided"}
    BY <1>1, <1>2, <1>3 DEF EvaluateVoid, RoundStatus
  <2> QED
    BY <1>5, <2>1, <2>2 DEF FailedWorkIsRetried
<1> QED
  BY <1>4, <1>5
-----------------------------------------------------------------------------
(***************************************************************************)
(* A loop over 1 .. n that keeps one value of the set D.                   *)
(***************************************************************************)
\* u is the table of the value before the loop and after each of its turns.
LoopTable(n, base, Turn, u) ==
    u = [i \in 0 .. n |-> IF i = 0 THEN base ELSE Turn[i][u[i - 1]]]

\* The table exists, and holds nothing but values of D.
LEMMA LoopTableExists ==
  ASSUME NEW D, NEW base \in D, NEW n \in Nat, NEW Turn \in [1 .. n -> [D -> D]]
  PROVE  \E u \in [0 .. n -> D] : LoopTable(n, base, Turn, u)
<1> DEFINE S == {m \in Nat : m <= n => \E u \in [0 .. m -> D] : LoopTable(m, base, Turn, u)}
<1>1. 0 \in S
  <2> DEFINE u == [i \in 0 .. 0 |-> base]
  <2>1. u = [i \in 0 .. 0 |-> IF i = 0 THEN base ELSE Turn[i][u[i - 1]]] /\ u \in [0 .. 0 -> D]
    OBVIOUS
  <2> QED
    BY <2>1 DEF LoopTable
<1>2. ASSUME NEW m \in S PROVE m + 1 \in S
  <2> SUFFICES ASSUME m + 1 <= n
               PROVE  \E u \in [0 .. m + 1 -> D] : LoopTable(m + 1, base, Turn, u)
    OBVIOUS
  <2>1. PICK u \in [0 .. m -> D] : LoopTable(m, base, Turn, u)
    OBVIOUS
  <2> DEFINE w == [i \in 0 .. m + 1 |-> IF i = m + 1 THEN Turn[m + 1][u[m]] ELSE u[i]]
             v == [i \in 0 .. m + 1 |-> IF i = 0 THEN base ELSE Turn[i][w[i - 1]]]
  <2>2. ASSUME NEW i \in 0 .. m + 1 PROVE w[i] = v[i] /\ w[i] \in D
    <3>1. CASE i = m + 1
      BY <3>1
    <3>2. CASE i # m + 1
      <4>1. i \in 0 .. m /\ (i # 0 => i - 1 \in 0 .. m /\ i - 1 # m + 1)
        BY <3>2
      <4>2. u[i] = IF i = 0 THEN base ELSE Turn[i][u[i - 1]]
        BY <2>1, <4>1 DEF LoopTable
      <4> QED
        BY <3>2, <4>1, <4>2
    <3> QED
      BY <3>1, <3>2
  <2>3. w = v /\ w \in [0 .. m + 1 -> D]
    BY <2>2
  <2>4. LoopTable(m + 1, base, Turn, w)
    BY <2>3 DEF LoopTable
  <2> QED
    BY <2>3, <2>4
<1> HIDE DEF S
<1>3. S = Nat
  <2>1. S \in SUBSET Nat
    BY DEF S
  <2> QED
    BY <1>1, <1>2, <2>1, NatSetInduction
<1> QED
  BY <1>3 DEF S
-----------------------------------------------------------------------------
(***************************************************************************)
(* clear's loop ends with the first of the best valid bids.                *)
(***************************************************************************)
\* One turn of the loop.
ClearTurn(rule, bids, i, best) ==
    IF /\ Valid(bids[i])
       /\ \/ best = None
          \/ rule = "LowestBid" /\ bids[i].value < bids[best].value
          \/ rule = "HighestBid" /\ bids[i].value > bids[best].value
    THEN i ELSE best

\* w is the first of the best valid ones among the first n bids.
FirstBest(rule, bids, n, w) ==
    \/ w = None /\ \A j \in 1 .. n : ~Valid(bids[j])
    \/ /\ w \in 1 .. n /\ Valid(bids[w])
       /\ \A j \in 1 .. n : Valid(bids[j]) =>
             IF rule = "LowestBid" THEN bids[w].value <= bids[j].value
                                   ELSE bids[w].value >= bids[j].value
       /\ \A j \in 1 .. n : Valid(bids[j]) /\ j < w => bids[w].value # bids[j].value

\* One turn keeps the first of the best.
LEMMA ClearTurnKeepsBest ==
  ASSUME NEW rule \in {"HighestBid", "LowestBid"}, NEW bids \in Seq(StoredBid),
         NEW n \in Nat, n + 1 <= Len(bids), NEW w, FirstBest(rule, bids, n, w)
  PROVE  FirstBest(rule, bids, n + 1, ClearTurn(rule, bids, n + 1, w))
<1>1. \A j \in 1 .. n + 1 : bids[j] \in StoredBid
  OBVIOUS
<1>2. \A j \in 1 .. n + 1 : Valid(bids[j]) => bids[j].value \in Int
  BY <1>1 DEF StoredBid, Valid
<1>3. None \notin Int
  BY NoneAssumption
<1>4. CASE ~Valid(bids[n + 1])
  BY <1>2, <1>4 DEF FirstBest, ClearTurn
<1>5. CASE Valid(bids[n + 1]) /\ w = None
  BY <1>2, <1>3, <1>5 DEF FirstBest, ClearTurn
<1>6. CASE Valid(bids[n + 1]) /\ w # None
  <2>1. w \in 1 .. n /\ Valid(bids[w]) /\ bids[w].value \in Int /\ bids[n + 1].value \in Int
    BY <1>2, <1>6 DEF FirstBest
  <2>2. CASE rule = "LowestBid"
    BY <1>2, <1>3, <1>6, <2>1, <2>2 DEF FirstBest, ClearTurn
  <2>3. CASE rule = "HighestBid"
    BY <1>2, <1>3, <1>6, <2>1, <2>3 DEF FirstBest, ClearTurn
  <2> QED
    BY <2>2, <2>3
<1> QED
  BY <1>4, <1>5, <1>6

\* clear's loop as a table of the best bid after each of its turns.
LEMMA ClearedTable ==
  ASSUME NEW rule \in {"HighestBid", "LowestBid"}, NEW bids \in Seq(StoredBid)
  PROVE  \E c : /\ c = [i \in 0 .. Len(bids) |->
                          IF i = 0 THEN None ELSE ClearTurn(rule, bids, i, c[i - 1])]
               /\ Cleared(rule, bids) = c[Len(bids)]
<1> DEFINE n == Len(bids)
           c == CHOOSE u : u = [i \in 0 .. n |->
                    IF i = 0 THEN None
                    ELSE IF /\ Valid(bids[i])
                            /\ \/ u[i - 1] = None
                               \/ rule = "LowestBid" /\ bids[i].value < bids[u[i - 1]].value
                               \/ rule = "HighestBid" /\ bids[i].value > bids[u[i - 1]].value
                         THEN i ELSE u[i - 1]]
<1>1. n \in Nat
  OBVIOUS
<1>2. Cleared(rule, bids) = c[n]
  BY DEF Cleared
<1>3. c = [i \in 0 .. n |-> IF i = 0 THEN None ELSE ClearTurn(rule, bids, i, c[i - 1])]
  <2> DEFINE D == {None} \cup 1 .. n
             Turn == [i \in 1 .. n |-> [d \in D |-> ClearTurn(rule, bids, i, d)]]
  <2>1. Turn \in [1 .. n -> [D -> D]]
    BY DEF ClearTurn
  <2> HIDE DEF n
  <2>2. PICK u \in [0 .. n -> D] : LoopTable(n, None, Turn, u)
    BY <1>1, <2>1, LoopTableExists
  <2>3. ASSUME NEW i \in 0 .. n, i # 0 PROVE Turn[i][u[i - 1]] = ClearTurn(rule, bids, i, u[i - 1])
    BY <1>1, <2>3
  <2>4. u = [i \in 0 .. n |-> IF i = 0 THEN None ELSE ClearTurn(rule, bids, i, u[i - 1])]
    BY <1>1, <2>2, <2>3 DEF LoopTable
  <2>5. u = [i \in 0 .. n |->
                IF i = 0 THEN None
                ELSE IF /\ Valid(bids[i])
                        /\ \/ u[i - 1] = None
                           \/ rule = "LowestBid" /\ bids[i].value < bids[u[i - 1]].value
                           \/ rule = "HighestBid" /\ bids[i].value > bids[u[i - 1]].value
                     THEN i ELSE u[i - 1]]
    BY <2>4 DEF ClearTurn
  <2> QED
    BY <2>5, Zenon DEF ClearTurn
<1> HIDE DEF c
<1> QED
  BY <1>2, <1>3 DEF n

\* The winner of clear.
LEMMA ClearedIsFirstBest ==
  ASSUME NEW rule \in {"HighestBid", "LowestBid"}, NEW bids \in Seq(StoredBid)
  PROVE  FirstBest(rule, bids, Len(bids), Cleared(rule, bids))
<1> DEFINE n == Len(bids)
<1>1. n \in Nat
  OBVIOUS
<1>2. PICK c : /\ c = [i \in 0 .. n |-> IF i = 0 THEN None ELSE ClearTurn(rule, bids, i, c[i - 1])]
               /\ Cleared(rule, bids) = c[n]
  BY ClearedTable
<1>3. c = [i \in 0 .. n |-> IF i = 0 THEN None ELSE ClearTurn(rule, bids, i, c[i - 1])]
  BY <1>2
<1> HIDE DEF n
<1> DEFINE S == {i \in Nat : i <= n => FirstBest(rule, bids, i, c[i])}
<1>4. 0 \in S
  BY <1>1, <1>3 DEF FirstBest
<1>5. ASSUME NEW i \in S PROVE i + 1 \in S
  <2> SUFFICES ASSUME i + 1 <= n PROVE FirstBest(rule, bids, i + 1, c[i + 1])
    OBVIOUS
  <2>1. FirstBest(rule, bids, i, c[i])
    BY <1>1
  <2>2. c[i + 1] = ClearTurn(rule, bids, i + 1, c[i])
    BY <1>1, <1>3
  <2> QED
    BY <2>1, <2>2, ClearTurnKeepsBest DEF n
<1> HIDE DEF S
<1>6. S = Nat
  <2>1. S \in SUBSET Nat
    BY DEF S
  <2> QED
    BY <1>4, <1>5, <2>1, NatSetInduction
<1>7. FirstBest(rule, bids, n, c[n])
  BY <1>1, <1>6 DEF S
<1> QED
  BY <1>2, <1>7 DEF n

\* w is the first of the best valid bids that the view holds.
Leads(view, w) ==
    /\ view.rule \in {"HighestBid", "LowestBid"} /\ view.bidders \in Seq(StoredBid)
    /\ w # None /\ FirstBest(view.rule, view.bidders, Len(view.bidders), w)

\* What the guard expects of a round it has read completely.
LEMMA ExpectedIsFirstBest ==
  ASSUME NEW view, NEW w, Leads(view, w)
  PROVE  ExpectedWinner(view) = w
<1> USE DEF Leads
<1> DEFINE bids == view.bidders
           best == {i \in Candidates(view) : \A j \in Candidates(view) : ~Better(view, j, i)}
<1>1. \A i \in DOMAIN bids : bids[i].escrow # Unread /\ (Valid(bids[i]) => bids[i].value \in Int)
  BY GuardAssumption DEF StoredBid, Valid
<1>2. Candidates(view) = {i \in 1 .. Len(bids) : Valid(bids[i])}
  BY <1>1 DEF Candidates, Valid
<1>3. w \in Candidates(view)
  BY <1>2 DEF FirstBest
<1>4. \A i \in Candidates(view) : i \in Nat /\ bids[i].value \in Int
  BY <1>1, <1>2
<1>5. w \in best
  <2> SUFFICES ASSUME NEW j \in Candidates(view) PROVE ~Better(view, j, w)
    BY <1>3
  <2>1. Valid(bids[j]) /\ j \in 1 .. Len(bids)
    BY <1>2
  <2>2. IF view.rule = "LowestBid" THEN bids[w].value <= bids[j].value
                                   ELSE bids[w].value >= bids[j].value
    BY <2>1 DEF FirstBest
  <2> QED
    BY <1>3, <1>4, <2>2 DEF Better
<1>6. ASSUME NEW i \in best PROVE w <= i
  <2> SUFFICES ASSUME i < w PROVE FALSE
    BY <1>3, <1>4
  <2>1. Valid(bids[i]) /\ i \in 1 .. Len(bids)
    BY <1>2
  <2>2. /\ bids[w].value # bids[i].value
        /\ IF view.rule = "LowestBid" THEN bids[w].value <= bids[i].value
                                      ELSE bids[w].value >= bids[i].value
    BY <2>1 DEF FirstBest
  <2>3. Better(view, w, i)
    BY <1>3, <1>4, <2>2 DEF Better
  <2> QED
    BY <1>3, <2>3
<1>7. ExpectedWinner(view) = CHOOSE i \in best : \A j \in best : i <= j
  BY <1>5 DEF ExpectedWinner
<1>8. \A i \in best : (\A j \in best : i <= j) => i = w
  BY <1>4, <1>5, <1>6
<1> HIDE DEF best
<1> QED
  BY <1>5, <1>6, <1>7, <1>8

\* A bid marked as paid is the same bid.
LEMMA MarkedBid ==
  ASSUME NEW b \in StoredBid, NEW over \in BOOLEAN, NEW c, c = [b EXCEPT !.settled = over]
  PROVE  c \in StoredBid /\ c.value = b.value /\ c.escrow = b.escrow /\ c.settled = over
  BY DEF StoredBid

\* The guard agrees with the contract: it submits what the contract accepts of a
\* round it has read to the end, and plans what the contract pays
\* (settlement-guard.ts).
THEOREM GuardAgrees ==
  GuardInput => GuardMatchesContract
<1> SUFFICES ASSUME GuardInput, sample.kind = "guard" PROVE GuardMatchesContract
  BY DEF GuardMatchesContract
<1>1. PICK bids \in Seq(StoredBid), rule \in {"HighestBid", "LowestBid"}, status \in RoundStatus,
           read \in Nat, now \in Int, unread \in SUBSET Nat :
        /\ read <= Len(bids) /\ unread \subseteq 1 .. read
        /\ status \in {"Cleared", "Settled"} => ContractRound(status, rule, bids).winner # None
        /\ status = "Open" => \A i \in DOMAIN bids : bids[i].value = None
        /\ sample = [kind |-> "guard", round |-> ContractRound(status, rule, bids), read |-> read,
                     unread |-> unread, now |-> now]
  BY DEF GuardInput
<1> DEFINE round == ContractRound(status, rule, bids)
           view == ReadSettlementView(round, read, unread, now)
           best == Cleared(rule, bids)
           n == Len(bids)
           won == status \in {"Cleared", "Settled"}
           over == status \in {"Settled", "Voided"}
<1>2. sample.round = round /\ sample.read = read /\ sample.unread = unread /\ sample.now = now
      /\ (won => round.winner # None)
  BY <1>1
<1>3. /\ round.status = status /\ round.rule = rule /\ round.deadline = 0
      /\ round.winner = (IF won THEN best ELSE None)
      /\ round.bid = (IF won /\ best # None THEN bids[best].value ELSE None)
      /\ round.bids = [i \in DOMAIN bids |->
                         [bids[i] EXCEPT !.settled = over]]
  BY DEF ContractRound
<1>11. /\ view.status = status /\ view.rule = rule /\ view.deadline = 0 /\ view.now = now
       /\ view.winner = round.winner /\ view.bid = round.bid /\ view.total = Len(round.bids)
       /\ view.bidders = [i \in 1 .. read |->
            IF i \in unread THEN [escrow |-> Unread, value |-> None, settled |-> FALSE]
                            ELSE round.bids[i]]
  BY <1>3 DEF ReadSettlementView
<1>5. FirstBest(rule, bids, n, best)
  BY ClearedIsFirstBest
<1>0. over \in BOOLEAN
  OBVIOUS
<1> HIDE DEF round, view, best, over
<1>4. n \in Nat /\ DOMAIN bids = 1 .. n /\ round.bids \in Seq(StoredBid) /\ Len(round.bids) = n
      /\ \A i \in 1 .. n : round.bids[i].value = bids[i].value /\ round.bids[i].escrow = bids[i].escrow
                            /\ round.bids[i].settled = over
  <2>1. n \in Nat /\ DOMAIN bids = 1 .. n
    OBVIOUS
  <2>2. ASSUME NEW i \in 1 .. n
        PROVE  /\ round.bids[i] \in StoredBid
               /\ round.bids[i].value = bids[i].value /\ round.bids[i].escrow = bids[i].escrow
               /\ round.bids[i].settled = over
    <3>1. bids[i] \in StoredBid
      OBVIOUS
    <3>2. round.bids[i] = [bids[i] EXCEPT !.settled = over]
      BY <1>3, <2>1
    <3> QED
      BY <1>0, <3>1, <3>2, MarkedBid
  <2> HIDE DEF n
  <2>3. round.bids = [i \in 1 .. n |-> round.bids[i]]
    BY <1>3, <2>1
  <2>4. round.bids \in Seq(StoredBid) /\ Len(round.bids) = n
    BY <2>1, <2>2, <2>3
  <2> QED
    BY <2>1, <2>2, <2>4
<1> HIDE DEF n
<1>6. Len(view.bidders) = read /\ DOMAIN view.bidders = 1 .. read /\ view.total = n
  BY <1>4, <1>11
<1>7. \A i \in 1 .. n : /\ round.bids[i].escrow \in Nat /\ round.bids[i].escrow # Unread
                        /\ round.bids[i].value \in Int \cup {None}
                        /\ round.bids[i].value = None \/ round.bids[i].value <= round.bids[i].escrow
  BY <1>4, GuardAssumption DEF StoredBid
<1>8. Complete(view) <=> read = n /\ unread = {}
  <2>1. \A i \in 1 .. read : view.bidders[i].escrow # Unread <=> i \notin unread
    BY <1>1, <1>4, <1>7, <1>11
  <2> QED
    BY <1>1, <1>4, <1>6, <2>1 DEF Complete
<1>9. Complete(view) => view.bidders = round.bids
  BY <1>4, <1>8, <1>11
<1>10. Unverified(view) = "allowed" <=> Complete(view)
  BY <1>4, <1>6 DEF Unverified, Complete
<1>12. Evaluate("settle", view) = "allowed" <=> ContractAccepts("settle", round, now) /\ Complete(view)
  <2>1. CASE status # "Cleared"
    BY <1>3, <1>11, <2>1 DEF Evaluate, EvaluateSettle, ContractAccepts, RoundStatus
  <2>2. CASE status = "Cleared" /\ ~Complete(view)
    BY <1>10, <1>11, <2>2 DEF Evaluate, EvaluateSettle
  <2>3. CASE status = "Cleared" /\ Complete(view)
    <3>1. round.winner = best /\ best # None /\ round.bid = bids[best].value /\ best \in 1 .. n
      BY <1>2, <1>3, <1>5, <2>3 DEF FirstBest
    <3>2. FirstBest(rule, round.bids, n, best) /\ n = Len(round.bids) /\ round.bids \in Seq(StoredBid)
      BY <1>3, <1>4, <1>5 DEF FirstBest, Valid
    <3>3. ExpectedWinner(view) = best
      <4>1. view.bidders = round.bids /\ view.rule = rule /\ best # None
        BY <1>9, <1>11, <2>3, <3>1
      <4>2. Leads(view, best)
        BY <3>2, <4>1 DEF Leads
      <4> QED
        BY <4>2, ExpectedIsFirstBest
    <3>4. view.bidders[best].value = round.bid
      BY <1>3, <1>4, <1>9, <2>3, <3>1
    <3> QED
      BY <1>3, <1>10, <1>11, <2>3, <3>1, <3>3, <3>4 DEF Evaluate, EvaluateSettle, ContractAccepts
  <2> QED
    BY <2>1, <2>2, <2>3
<1>13. Evaluate("void", view) = "allowed" <=> ContractAccepts("void", round, now) /\ Complete(view)
  BY <1>3, <1>10, <1>11, GuardAssumption
     DEF Evaluate, EvaluateVoid, VoidAfter, ContractAccepts, RoundStatus
<1> DEFINE Pays(action) ==
             LET plan == Plan(action, view)
                 pays == ContractPays(action, round)
             IN  /\ \A i \in DOMAIN pays : Planned(plan, view, i) = pays[i]
                 /\ DOMAIN plan.refunds \subseteq DOMAIN pays
                 /\ plan.operator = IF action = "settle" THEN round.bid ELSE 0
<1>14. ASSUME Evaluate("settle", view) = "allowed" PROVE Pays("settle")
  <2> DEFINE w == round.winner
             plan == Plan("settle", view)
             pays == ContractPays("settle", round)
  <2>1. status = "Cleared" /\ ~over /\ Complete(view)
    BY <1>3, <1>12, <1>14 DEF ContractAccepts, over
  <2>2. w \in 1 .. n /\ round.bid = round.bids[w].value /\ round.bid \in Int /\ round.bid <= round.bids[w].escrow
    <3>1. w = best /\ best # None /\ round.bid = bids[best].value
      BY <1>2, <1>3, <2>1
    <3>2. w \in 1 .. n /\ Valid(bids[w])
      BY <1>5, <3>1 DEF FirstBest
    <3> QED
      BY <1>4, <1>7, <3>1, <3>2 DEF Valid
  <2>3. view.bidders = round.bids /\ DOMAIN round.bids = 1 .. n
    BY <1>4, <1>9, <2>1
  <2>4. \A i \in 1 .. n : Unpaid(view, i)
    BY <1>4, <1>7, <2>1, <2>3 DEF Unpaid
  <2>5. plan.refunds = [i \in {j \in 1 .. n : j # w /\ round.bids[j].escrow > 0} |-> round.bids[i].escrow]
    <3>1. {j \in DOMAIN view.bidders : Unpaid(view, j) /\ j # w /\ view.bidders[j].escrow > 0}
            = {j \in 1 .. n : j # w /\ round.bids[j].escrow > 0}
      BY <2>3, <2>4
    <3>2. plan.refunds = Refunds(view, w)
      BY <1>11 DEF Plan
    <3> QED
      BY <2>3, <3>1, <3>2 DEF Refunds
  <2>6. plan.operator = round.bid /\ plan.surplus = round.bids[w].escrow - round.bid
    BY <1>7, <1>11, <2>2, <2>3, <2>4 DEF Plan, WinnerSurplus
  <2>7. pays = [i \in 1 .. n |-> IF i = w THEN round.bids[i].escrow - round.bid ELSE round.bids[i].escrow]
    BY <1>4, <2>1, <2>3 DEF ContractPays
  <2>8. ASSUME NEW i \in 1 .. n PROVE Planned(plan, view, i) = pays[i]
    <3> HIDE DEF plan, pays
    <3>1. CASE i = w
      BY <1>11, <2>2, <2>5, <2>6, <2>7, <3>1 DEF Planned
    <3>2. CASE i # w /\ round.bids[i].escrow > 0
      BY <2>5, <2>7, <3>2 DEF Planned
    <3>3. CASE i # w /\ round.bids[i].escrow = 0
      BY <1>11, <2>5, <2>7, <3>3 DEF Planned
    <3> QED
      BY <1>7, <3>1, <3>2, <3>3
  <2> QED
    BY <2>5, <2>6, <2>7, <2>8
<1>15. ASSUME Evaluate("void", view) = "allowed" PROVE Pays("void")
  <2> DEFINE plan == Plan("void", view)
             pays == ContractPays("void", round)
  <2>1. status = "Open" /\ ~over /\ Complete(view)
    BY <1>3, <1>13, <1>15 DEF ContractAccepts, over
  <2>2. view.winner = None /\ None \notin 1 .. n
    BY <1>3, <1>4, <1>11, <2>1, NoneAssumption
  <2>3. view.bidders = round.bids /\ DOMAIN round.bids = 1 .. n
    BY <1>4, <1>9, <2>1
  <2>4. \A i \in 1 .. n : Unpaid(view, i)
    BY <1>4, <1>7, <2>1, <2>3 DEF Unpaid
  <2>5. plan.refunds = [i \in {j \in 1 .. n : round.bids[j].escrow > 0} |-> round.bids[i].escrow]
        /\ plan.operator = 0
    <3>1. {j \in DOMAIN view.bidders : Unpaid(view, j) /\ j # None /\ view.bidders[j].escrow > 0}
            = {j \in 1 .. n : round.bids[j].escrow > 0}
      BY <2>2, <2>3, <2>4
    <3>2. plan.refunds = Refunds(view, None) /\ plan.operator = 0
      BY DEF Plan
    <3> QED
      BY <2>3, <3>1, <3>2 DEF Refunds
  <2>6. pays = [i \in 1 .. n |-> round.bids[i].escrow]
    BY <1>4, <2>1, <2>3 DEF ContractPays
  <2>7. ASSUME NEW i \in 1 .. n PROVE Planned(plan, view, i) = pays[i]
    <3> HIDE DEF plan, pays
    <3>1. CASE round.bids[i].escrow > 0
      BY <2>5, <2>6, <3>1 DEF Planned
    <3>2. CASE round.bids[i].escrow = 0
      BY <2>2, <2>5, <2>6, <3>2 DEF Planned
    <3> QED
      BY <1>7, <3>1, <3>2
  <2> QED
    BY <2>5, <2>6, <2>7
<1>16. GuardMatchesContract <=>
         \A action \in {"settle", "void"} :
            /\ Evaluate(action, view) = "allowed" <=> ContractAccepts(action, round, now) /\ Complete(view)
            /\ Evaluate(action, view) = "allowed" => Pays(action)
  BY <1>2, <1>1 DEF GuardMatchesContract, view
<1> QED
  BY <1>12, <1>13, <1>14, <1>15, <1>16
-----------------------------------------------------------------------------
(***************************************************************************)
(* The steps of a cursor that a rollback leaves.                           *)
(***************************************************************************)
\* The members of a sequence with one more.
LEMMA AppendSet ==
  ASSUME NEW T, NEW s \in Seq(T), NEW e \in T
  PROVE  ToSet(Append(s, e)) = ToSet(s) \cup {e}
<1> DEFINE a == Append(s, e)
<1>1. /\ DOMAIN s = 1 .. Len(s) /\ DOMAIN a = 1 .. Len(s) + 1 /\ Len(s) \in Nat
      /\ \A i \in 1 .. Len(s) : a[i] = s[i]
      /\ a[Len(s) + 1] = e
  OBVIOUS
<1> HIDE DEF a
<1>2. ToSet(a) = ToSet(s) \cup {e}
  BY <1>1 DEF ToSet
<1> QED
  BY <1>2 DEF a

\* The filter keeps the members that are not dropped.
LEMMA WithoutKeeps ==
  ASSUME NEW T, NEW steps \in Seq(T), NEW drop
  PROVE  /\ Without(steps, drop) \in Seq(T)
         /\ ToSet(Without(steps, drop)) = ToSet(steps) \ drop
<1> DEFINE n == Len(steps)
           c == CHOOSE u : u = [i \in 0 .. n |->
                    IF i = 0 THEN <<>>
                    ELSE IF steps[i] \in drop THEN u[i - 1] ELSE Append(u[i - 1], steps[i])]
<1>1. n \in Nat
  OBVIOUS
<1>2. Without(steps, drop) = c[n]
  BY DEF Without
<1>3. c = [i \in 0 .. n |->
             IF i = 0 THEN <<>>
             ELSE IF steps[i] \in drop THEN c[i - 1] ELSE Append(c[i - 1], steps[i])]
  <2> DEFINE D == Seq(T)
             Kept(i, d) == IF steps[i] \in drop THEN d ELSE Append(d, steps[i])
             Turn == [i \in 1 .. n |-> [d \in D |-> Kept(i, d)]]
  <2>1. Turn \in [1 .. n -> [D -> D]] /\ <<>> \in D
    OBVIOUS
  <2> HIDE DEF n
  <2>2. PICK u \in [0 .. n -> D] : LoopTable(n, <<>>, Turn, u)
    BY <1>1, <2>1, LoopTableExists
  <2>3. ASSUME NEW i \in 0 .. n, i # 0 PROVE Turn[i][u[i - 1]] = Kept(i, u[i - 1])
    BY <1>1, <2>3
  <2>4. u = [i \in 0 .. n |-> IF i = 0 THEN <<>> ELSE Kept(i, u[i - 1])]
    BY <1>1, <2>2, <2>3 DEF LoopTable
  <2> QED
    BY <2>4, Zenon
<1> HIDE DEF c
<1> DEFINE Held(i) == /\ c[i] \in Seq(T)
                      /\ ToSet(c[i]) = {steps[j] : j \in 1 .. i} \ drop
           S == {i \in Nat : i <= n => Held(i)}
<1>4. 0 \in S
  <2>1. c[0] = <<>>
    BY <1>1, <1>3
  <2>2. ToSet(<<>>) = {} /\ {steps[j] : j \in 1 .. 0} = {} /\ <<>> \in Seq(T)
    BY DEF ToSet
  <2> QED
    BY <2>1, <2>2
<1>5. ASSUME NEW i \in Nat, i \in S PROVE i + 1 \in S
  <2> SUFFICES ASSUME i + 1 <= n PROVE Held(i + 1)
    OBVIOUS
  <2>1. Held(i)
    BY <1>1, <1>5
  <2>2. c[i + 1] = IF steps[i + 1] \in drop THEN c[i] ELSE Append(c[i], steps[i + 1])
    <3> HIDE DEF n, S, Held
    <3>1. i + 1 \in 0 .. n /\ i + 1 # 0 /\ (i + 1) - 1 = i
      BY <1>1, <1>5
    <3> QED
      BY <1>3, <3>1
  <2>3. steps[i + 1] \in T
    BY <1>1
  <2>4. {steps[j] : j \in 1 .. i + 1} = {steps[j] : j \in 1 .. i} \cup {steps[i + 1]}
    OBVIOUS
  <2>5. CASE steps[i + 1] \in drop
    BY <2>1, <2>2, <2>4, <2>5
  <2>6. CASE steps[i + 1] \notin drop
    <3>1. c[i + 1] = Append(c[i], steps[i + 1]) /\ c[i] \in Seq(T)
      BY <2>1, <2>2, <2>6
    <3>2. ToSet(c[i + 1]) = ToSet(c[i]) \cup {steps[i + 1]}
      BY <2>3, <3>1, AppendSet
    <3>3. c[i + 1] \in Seq(T)
      BY <2>3, <3>1
    <3> QED
      BY <2>1, <2>4, <2>6, <3>2, <3>3
  <2> QED
    BY <2>5, <2>6
<1> HIDE DEF S
<1>6. S = Nat
  <2>1. S \in SUBSET Nat
    BY DEF S
  <2> QED
    BY <1>4, <1>5, <2>1, NatSetInduction
<1>7. Held(n)
  BY <1>1, <1>6 DEF S
<1>8. ToSet(steps) = {steps[j] : j \in 1 .. n}
  BY DEF ToSet
<1> QED
  BY <1>2, <1>7, <1>8
-----------------------------------------------------------------------------
(***************************************************************************)
(* The cursor file.                                                        *)
(***************************************************************************)
\* What a mark of the history holds.
Marks(hashes) == [step : KeeperStep, hash : hashes \cup {NoHash}]

\* A cursor: hashes of recorded steps only, and the last hash is one of them.
Cursors(hashes) ==
    {e \in [steps : Seq(KeeperStep), hashes : UNION {[D -> hashes] : D \in SUBSET KeeperStep},
            last : hashes \cup {NoHash}] :
        /\ DOMAIN e.hashes \subseteq ToSet(e.steps)
        /\ e.last # NoHash => e.last \in Range(e.hashes)}

\* Of the first n marks, mark k is the last of step s.
LastOf(history, n, k, s) ==
    /\ k \in 1 .. n
    /\ history[k].step = s
    /\ \A j \in 1 .. n : j > k => history[j].step # s

\* The entry holds what the last of the first n marks of every step said.
Remembers(e, history, n) ==
    /\ \A s \in ToSet(e.steps) : \E k \in 1 .. n : LastOf(history, n, k, s)
    /\ \A s \in KeeperStep, k \in 1 .. n : LastOf(history, n, k, s) =>
          /\ s \in ToSet(e.steps)
          /\ s \in DOMAIN e.hashes <=> history[k].hash # NoHash
          /\ history[k].hash # NoHash => e.hashes[s] = history[k].hash

\* Recording a step keeps the entry a cursor, and touches nothing of the others.
LEMMA PlanStepCursor ==
  ASSUME NEW hashes, NoHash \notin hashes, NEW e \in Cursors(hashes),
         NEW step \in KeeperStep, NEW hash \in hashes \cup {NoHash}
  PROVE  LET after == PlanStep(e, step, hash)
         IN  /\ after \in Cursors(hashes)
             /\ ToSet(after.steps) = ToSet(e.steps) \cup {step}
             /\ step \in DOMAIN after.hashes <=> hash # NoHash
             /\ hash # NoHash => after.hashes[step] = hash
             /\ \A s \in KeeperStep \ {step} :
                   /\ s \in DOMAIN after.hashes <=> s \in DOMAIN e.hashes
                   /\ s \in DOMAIN e.hashes => after.hashes[s] = e.hashes[s]
<1> DEFINE steps == IF step \in ToSet(e.steps) THEN e.steps ELSE Append(e.steps, step)
           D == IF hash = NoHash THEN DOMAIN e.hashes \ {step} ELSE (DOMAIN e.hashes \ {step}) \cup {step}
           h == [s \in D |-> IF s = step THEN hash ELSE e.hashes[s]]
<1>1. e.steps \in Seq(KeeperStep) /\ DOMAIN e.hashes \subseteq ToSet(e.steps)
      /\ DOMAIN e.hashes \in SUBSET KeeperStep /\ e.hashes \in [DOMAIN e.hashes -> hashes]
  BY DEF Cursors
<1>2. steps \in Seq(KeeperStep) /\ ToSet(steps) = ToSet(e.steps) \cup {step}
  BY <1>1, AppendSet
<1>3. D \in SUBSET KeeperStep /\ h \in [D -> hashes] /\ D \subseteq ToSet(steps)
  BY <1>1, <1>2
<1>4. hash # NoHash => hash \in Range(h)
  <2> SUFFICES ASSUME hash # NoHash PROVE hash \in Range(h)
    OBVIOUS
  <2>1. step \in DOMAIN h /\ h[step] = hash
    OBVIOUS
  <2> HIDE DEF h
  <2> QED
    BY <2>1 DEF Range
<1>5. PlanStep(e, step, hash) = [steps |-> steps, hashes |-> h, last |-> hash]
  BY DEF PlanStep
<1>6. DOMAIN h = D
  OBVIOUS
<1>7. /\ step \in D <=> hash # NoHash
      /\ hash # NoHash => h[step] = hash
      /\ \A s \in KeeperStep \ {step} :
            /\ s \in D <=> s \in DOMAIN e.hashes
            /\ s \in DOMAIN e.hashes => h[s] = e.hashes[s]
  OBVIOUS
<1> HIDE DEF steps, h, D
<1>8. PlanStep(e, step, hash) \in Cursors(hashes)
  BY <1>2, <1>3, <1>4, <1>5, <1>6 DEF Cursors
<1> QED
  BY <1>2, <1>5, <1>6, <1>7, <1>8

\* An entry without steps is a cursor.
LEMMA NoEntryCursor ==
  ASSUME NEW hashes
  PROVE  NoEntry \in Cursors(hashes)
<1>1. ToSet(<<>>) = {} /\ <<>> \in Seq(KeeperStep)
  BY DEF ToSet
<1>2. [s \in {} |-> NoHash] \in [{} -> hashes] /\ DOMAIN [s \in {} |-> NoHash] = {}
  OBVIOUS
<1>3. [s \in {} |-> NoHash] \in UNION {[D -> hashes] : D \in SUBSET KeeperStep}
  BY <1>2
<1> QED
  BY <1>1, <1>2, <1>3 DEF Cursors, NoEntry

\* One more mark: the entry holds what it said, and of the others what it held.
LEMMA PlanStepTells ==
  ASSUME NEW hashes, NoHash \notin hashes, NEW e \in Cursors(hashes),
         NEW history \in Seq(Marks(hashes)), NEW n \in Nat, n + 1 <= Len(history),
         Remembers(e, history, n)
  PROVE  Remembers(PlanStep(e, history[n + 1].step, history[n + 1].hash), history, n + 1)
<1> DEFINE step == history[n + 1].step
           hash == history[n + 1].hash
           after == PlanStep(e, step, hash)
<1>1. step \in KeeperStep /\ hash \in hashes \cup {NoHash}
  <2>1. history[n + 1] \in Marks(hashes)
    OBVIOUS
  <2> QED
    BY <2>1 DEF Marks
<1>2. /\ after \in Cursors(hashes)
      /\ ToSet(after.steps) = ToSet(e.steps) \cup {step}
      /\ step \in DOMAIN after.hashes <=> hash # NoHash
      /\ hash # NoHash => after.hashes[step] = hash
      /\ \A s \in KeeperStep \ {step} :
            /\ s \in DOMAIN after.hashes <=> s \in DOMAIN e.hashes
            /\ s \in DOMAIN e.hashes => after.hashes[s] = e.hashes[s]
  <2> HIDE DEF step, hash
  <2> QED
    BY <1>1, PlanStepCursor
<1> HIDE DEF after
<1>3. LastOf(history, n + 1, n + 1, step)
  BY DEF LastOf
<1>4. ASSUME NEW k \in 1 .. n + 1, LastOf(history, n + 1, k, step)
      PROVE  k = n + 1
  BY <1>4 DEF LastOf
<1>5. ASSUME NEW s, s # step, NEW k \in 1 .. n + 1
      PROVE  LastOf(history, n + 1, k, s) <=> k \in 1 .. n /\ LastOf(history, n, k, s)
  BY <1>5 DEF LastOf
<1>6. ASSUME NEW s \in ToSet(after.steps)
      PROVE  \E k \in 1 .. n + 1 : LastOf(history, n + 1, k, s)
  <2>1. CASE s = step
    BY <1>3, <2>1
  <2>2. CASE s # step
    <3>1. PICK k \in 1 .. n : LastOf(history, n, k, s)
      BY <1>2, <2>2 DEF Remembers
    <3>2. k \in 1 .. n + 1
      OBVIOUS
    <3> QED
      BY <1>5, <2>2, <3>1, <3>2
  <2> QED
    BY <2>1, <2>2
<1>7. ASSUME NEW s \in KeeperStep, NEW k \in 1 .. n + 1, LastOf(history, n + 1, k, s)
      PROVE  /\ s \in ToSet(after.steps)
             /\ s \in DOMAIN after.hashes <=> history[k].hash # NoHash
             /\ history[k].hash # NoHash => after.hashes[s] = history[k].hash
  <2>1. CASE s = step
    BY <1>2, <1>4, <1>7, <2>1
  <2>2. CASE s # step
    <3>1. k \in 1 .. n /\ LastOf(history, n, k, s)
      BY <1>5, <1>7, <2>2
    <3>2. /\ s \in ToSet(e.steps)
          /\ s \in DOMAIN e.hashes <=> history[k].hash # NoHash
          /\ history[k].hash # NoHash => e.hashes[s] = history[k].hash
      BY <3>1 DEF Remembers
    <3> QED
      BY <1>2, <2>2, <3>2
  <2> QED
    BY <2>1, <2>2
<1> QED
  BY <1>6, <1>7 DEF Remembers, after

\* A history of recorded steps leaves a cursor that holds its last marks.
LEMMA RecordedCursor ==
  ASSUME NEW hashes, NoHash \notin hashes, NEW history \in Seq(Marks(hashes))
  PROVE  /\ Recorded(history) \in Cursors(hashes)
         /\ Remembers(Recorded(history), history, Len(history))
<1> DEFINE Step(i, e) == PlanStep(e, history[i].step, history[i].hash)
           n == Len(history)
           c == CHOOSE u : u = [i \in 0 .. n |->
                    IF i = 0 THEN NoEntry
                    ELSE PlanStep(u[i - 1], history[i].step, history[i].hash)]
           Turn == [i \in 1 .. n |-> [e \in Cursors(hashes) |->
                        PlanStep(e, history[i].step, history[i].hash)]]
<1>1. n \in Nat
  OBVIOUS
<1>0. ASSUME NEW i \in 1 .. n PROVE history[i].step \in KeeperStep /\ history[i].hash \in hashes \cup {NoHash}
  <2>1. history[i] \in Marks(hashes)
    OBVIOUS
  <2> QED
    BY <2>1 DEF Marks
<1>2. Recorded(history) = c[n]
  BY DEF Recorded
<1>3. NoEntry \in Cursors(hashes)
  BY NoEntryCursor
<1>4. Turn \in [1 .. n -> [Cursors(hashes) -> Cursors(hashes)]]
  <2> HIDE DEF n
  <2> QED
    BY <1>0, PlanStepCursor
<1> HIDE DEF n
<1>5. PICK u \in [0 .. n -> Cursors(hashes)] : LoopTable(n, NoEntry, Turn, u)
  BY <1>1, <1>3, <1>4, LoopTableExists
<1>6. ASSUME NEW i \in 0 .. n, i # 0 PROVE Turn[i][u[i - 1]] = Step(i, u[i - 1])
  BY <1>1, <1>6
<1>7. u = [i \in 0 .. n |-> IF i = 0 THEN NoEntry ELSE Step(i, u[i - 1])]
  <2> HIDE DEF Step, Turn
  <2> QED
    BY <1>1, <1>5, <1>6 DEF LoopTable
<1>8. c = [i \in 0 .. n |-> IF i = 0 THEN NoEntry ELSE Step(i, c[i - 1])]
  BY <1>7, Zenon
<1> HIDE DEF c, Turn
<1> DEFINE S == {i \in Nat : i <= n => c[i] \in Cursors(hashes) /\ Remembers(c[i], history, i)}
<1>9. 0 \in S
  <2>1. c[0] = NoEntry
    BY <1>1, <1>8
  <2>2. Remembers(NoEntry, history, 0)
    BY DEF Remembers, NoEntry, ToSet
  <2> QED
    BY <1>3, <2>1, <2>2
<1>10. ASSUME NEW i \in S PROVE i + 1 \in S
  <2> SUFFICES ASSUME i + 1 <= n
               PROVE  c[i + 1] \in Cursors(hashes) /\ Remembers(c[i + 1], history, i + 1)
    OBVIOUS
  <2>1. /\ i \in Nat /\ i + 1 <= Len(history)
        /\ c[i] \in Cursors(hashes) /\ Remembers(c[i], history, i)
        /\ i + 1 \in 1 .. n /\ (i + 1) - 1 = i
    BY <1>1 DEF n
  <2> HIDE DEF S
  <2>2. c[i + 1] = Step(i + 1, c[i])
    <3> HIDE DEF Step
    <3> QED
      BY <1>1, <1>8, <2>1
  <2>3. Remembers(c[i + 1], history, i + 1)
    <3> HIDE DEF n
    <3> QED
      BY <2>1, <2>2, PlanStepTells
  <2>4. c[i + 1] \in Cursors(hashes)
    BY <1>0, <2>1, <2>2, PlanStepCursor
  <2> QED
    BY <2>3, <2>4
<1> HIDE DEF S
<1>11. S = Nat
  <2>1. S \in SUBSET Nat
    BY DEF S
  <2> QED
    BY <1>9, <1>10, <2>1, NatSetInduction
<1> QED
  BY <1>1, <1>2, <1>11 DEF S, n

\* A rollback takes the dropped steps, with their hashes, and nothing else.
LEMMA RollbackCursor ==
  ASSUME NEW hashes, NoHash \notin hashes, NEW e \in Cursors(hashes), NEW drop
  PROVE  LET after == PlanRollback(e, drop)
         IN  /\ after \in Cursors(hashes)
             /\ ToSet(after.steps) = ToSet(e.steps) \ drop
             /\ DOMAIN after.hashes = DOMAIN e.hashes \ drop
             /\ \A s \in DOMAIN after.hashes : after.hashes[s] = e.hashes[s]
<1> DEFINE gone == drop \cap ToSet(e.steps)
           steps == Without(e.steps, gone)
           h == Restrict(e.hashes, DOMAIN e.hashes \ gone)
           last == IF steps # <<>> /\ Last(steps) \in DOMAIN h THEN h[Last(steps)] ELSE NoHash
<1>1. /\ e.steps \in Seq(KeeperStep) /\ DOMAIN e.hashes \subseteq ToSet(e.steps)
      /\ DOMAIN e.hashes \in SUBSET KeeperStep /\ e.hashes \in [DOMAIN e.hashes -> hashes]
  BY DEF Cursors
<1>2. steps \in Seq(KeeperStep) /\ ToSet(steps) = ToSet(e.steps) \ drop
  BY <1>1, WithoutKeeps
<1>3. h = [s \in DOMAIN e.hashes \ drop |-> e.hashes[s]]
  BY <1>1 DEF Restrict
<1>4. CASE gone = {}
  <2>1. PlanRollback(e, drop) = e
    BY <1>4 DEF PlanRollback
  <2> QED
    BY <1>1, <1>4, <2>1
<1>5. CASE gone # {}
  <2>1. PlanRollback(e, drop) = [steps |-> steps, hashes |-> h, last |-> last]
    BY <1>5 DEF PlanRollback
  <2>2. /\ DOMAIN h = DOMAIN e.hashes \ drop /\ h \in [DOMAIN h -> hashes]
        /\ \A s \in DOMAIN h : h[s] = e.hashes[s]
    BY <1>1, <1>3
  <2> HIDE DEF h, steps
  <2>3. last # NoHash => last \in Range(h)
    BY DEF Range
  <2>4. last \in hashes \cup {NoHash}
    BY <2>2
  <2> HIDE DEF last
  <2>5. [steps |-> steps, hashes |-> h, last |-> last] \in Cursors(hashes)
    BY <1>1, <1>2, <2>2, <2>3, <2>4 DEF Cursors
  <2> QED
    BY <1>2, <2>1, <2>2, <2>5
<1> QED
  BY <1>4, <1>5

\* Reading the file drops none of its steps and hashes.
LEMMA ParseCursor ==
  ASSUME NEW hashes, NEW e \in Cursors(hashes)
  PROVE  /\ ParseEntry(e) \in Cursors(hashes)
         /\ ToSet(ParseEntry(e).steps) = ToSet(e.steps)
         /\ ParseEntry(e).hashes = e.hashes
<1>1. /\ e.steps \in Seq(KeeperStep) /\ DOMAIN e.hashes \subseteq ToSet(e.steps)
      /\ DOMAIN e.hashes \in SUBSET KeeperStep /\ e.hashes \in [DOMAIN e.hashes -> hashes]
  BY DEF Cursors
<1>2. ToSet(e.steps) \subseteq KeeperStep
  BY <1>1 DEF ToSet
<1>3. Restrict(e.hashes, DOMAIN e.hashes \cap KeeperStep) = e.hashes
  BY <1>1 DEF Restrict
<1> DEFINE kept == Without(e.steps, ToSet(e.steps) \ KeeperStep)
<1>4. kept \in Seq(KeeperStep) /\ ToSet(kept) = ToSet(e.steps)
  <2>1. ToSet(kept) = ToSet(e.steps) \ (ToSet(e.steps) \ KeeperStep) /\ kept \in Seq(KeeperStep)
    BY <1>1, WithoutKeeps
  <2> QED
    BY <1>2, <2>1
<1> HIDE DEF kept
<1>5. ParseEntry(e) = [steps |-> kept, hashes |-> e.hashes, last |-> e.last]
  BY <1>3 DEF ParseEntry, kept
<1> QED
  BY <1>1, <1>4, <1>5 DEF Cursors

\* After a restart the cursor holds exactly the steps the last mark of which is
\* evidence, with its hash, and none of another deployment's file (checkpoint.ts,
\* load, verifyHashes and reconcile).
THEOREM ResumeKeepsEvidence ==
  CursorInput => ResumeKeepsProof
<1> SUFFICES ASSUME CursorInput, sample.kind = "cursor" PROVE ResumeKeepsProof
  BY DEF ResumeKeepsProof
<1>1. PICK hashes, file, status, verify :
        /\ NoHash \notin hashes
        /\ verify = Nobody \/ verify \in [hashes -> Verdict]
        /\ file \in {"own", "missing", "otherNetwork", "otherContract", "otherVersion"}
        /\ \E history \in Seq(Marks(hashes)) :
              sample = [kind |-> "cursor", history |-> history, file |-> file,
                        status |-> status, verify |-> verify]
  BY DEF CursorInput, Marks
<1>2. PICK history \in Seq(Marks(hashes)) :
        sample = [kind |-> "cursor", history |-> history, file |-> file,
                  status |-> status, verify |-> verify]
  BY <1>1
<1> DEFINE n == Len(history)
           Stands(hash) == verify = Nobody \/ verify[hash] \in {"confirmed", "unreachable"}
           Believed(mark) == IF mark.hash # NoHash THEN Stands(mark.hash)
                             ELSE status = None \/ status \in SatisfiedBy(mark.step)
           last == {i \in DOMAIN history : IsLastMark(history, i)}
           kept == IF file # "own" THEN {} ELSE {i \in last : Believed(history[i])}
           hashed == {i \in kept : history[i].hash # NoHash}
           restart == Restart(file, Recorded(history), verify, status)
           Goal(cursor) == /\ ToSet(cursor.steps) = {history[i].step : i \in kept}
                           /\ DOMAIN cursor.hashes = {history[i].step : i \in hashed}
                           /\ \A i \in hashed : cursor.hashes[history[i].step] = history[i].hash
                           /\ cursor.last # NoHash => cursor.last \in Range(cursor.hashes)
<1>3. restart.started <=> file \in {"own", "missing"}
  BY <1>1 DEF Restart, MayLoad
<1>4. CASE file # "own"
  <2>1. kept = {} /\ hashed = {}
    BY <1>4
  <2>2. Goal(NoEntry)
    <3> HIDE DEF kept
    <3> QED
      BY <2>1 DEF NoEntry, ToSet
  <2>3. restart.cursor \in {NoEntry, Resume(NoEntry, verify, status)}
    BY <1>4 DEF Restart, Load
  <2>4. ToSet(NoEntry.steps) = {} /\ DOMAIN NoEntry.hashes = {}
    BY DEF NoEntry, ToSet
  <2>5. \A drop : PlanRollback(NoEntry, drop) = NoEntry
    BY <2>4 DEF PlanRollback
  <2>6. VerifyHashes(NoEntry, verify) = NoEntry /\ Reconcile(NoEntry, status) = NoEntry
    BY <2>5 DEF VerifyHashes, Reconcile
  <2>7. restart.cursor = NoEntry
    BY <2>3, <2>6 DEF Resume
  <2> QED
    BY <1>2, <1>3, <2>2, <2>7 DEF ResumeKeepsProof
<1>5. CASE file = "own"
  <2> DEFINE entry == ParseEntry(Recorded(history))
             sure == VerifyHashes(entry, verify)
             after == Resume(entry, verify, status)
  <2>1. /\ entry \in Cursors(hashes)
        /\ Remembers(entry, history, n)
    <3>1. Recorded(history) \in Cursors(hashes) /\ Remembers(Recorded(history), history, n)
      BY <1>1, RecordedCursor
    <3>2. /\ entry \in Cursors(hashes)
          /\ ToSet(entry.steps) = ToSet(Recorded(history).steps)
          /\ entry.hashes = Recorded(history).hashes
      BY <3>1, ParseCursor
    <3> HIDE DEF entry
    <3> QED
      BY <3>1, <3>2 DEF Remembers
  <2>2. restart.cursor = after
    BY <1>5 DEF Restart, Load, MayLoad
  <2> HIDE DEF entry
  <2> DEFINE lost == {s \in DOMAIN entry.hashes : verify # Nobody /\ verify[entry.hashes[s]] \in {"failed", "missing"}}
  <2>3. \A s \in DOMAIN entry.hashes : entry.hashes[s] \in hashes
    BY <2>1 DEF Cursors
  <2>4. \A s \in DOMAIN entry.hashes : s \in lost <=> ~Stands(entry.hashes[s])
    BY <1>1, <2>3 DEF Verdict
  <2>5. /\ sure \in Cursors(hashes)
        /\ ToSet(sure.steps) = ToSet(entry.steps) \ lost
        /\ DOMAIN sure.hashes = DOMAIN entry.hashes \ lost
        /\ \A s \in DOMAIN sure.hashes : sure.hashes[s] = entry.hashes[s]
    <3>1. CASE verify = Nobody
      <4>1. sure = entry /\ lost = {}
        BY <3>1 DEF VerifyHashes
      <4> QED
        BY <2>1, <4>1
    <3>2. CASE verify # Nobody
      <4>1. sure = PlanRollback(entry, lost)
        BY <3>2 DEF VerifyHashes
      <4> HIDE DEF sure, lost
      <4> QED
        BY <1>1, <2>1, <4>1, RollbackCursor
    <3> QED
      BY <3>1, <3>2
  <2> HIDE DEF sure
  <2> DEFINE open == IF status = None THEN {}
                     ELSE {s \in ToSet(sure.steps) : s \notin DOMAIN sure.hashes /\ status \notin SatisfiedBy(s)}
  <2>6. /\ after \in Cursors(hashes)
        /\ ToSet(after.steps) = ToSet(sure.steps) \ open
        /\ DOMAIN after.hashes = DOMAIN sure.hashes \ open
        /\ \A s \in DOMAIN after.hashes : after.hashes[s] = sure.hashes[s]
    <3>1. CASE status = None
      <4>1. after = sure /\ open = {}
        BY <3>1 DEF Resume, sure
      <4> QED
        BY <2>5, <4>1
    <3>2. CASE status # None
      <4>1. after = PlanRollback(sure, open)
        BY <3>2 DEF Resume, Reconcile, sure
      <4> HIDE DEF after, open
      <4>2. /\ PlanRollback(sure, open) \in Cursors(hashes)
            /\ ToSet(PlanRollback(sure, open).steps) = ToSet(sure.steps) \ open
            /\ DOMAIN PlanRollback(sure, open).hashes = DOMAIN sure.hashes \ open
            /\ \A s \in DOMAIN PlanRollback(sure, open).hashes :
                  PlanRollback(sure, open).hashes[s] = sure.hashes[s]
        BY <1>1, <2>5, RollbackCursor
      <4> QED
        BY <4>1, <4>2
    <3> QED
      BY <3>1, <3>2
  <2> HIDE DEF after
  <2>7. ASSUME NEW i \in DOMAIN history
        PROVE  /\ i \in 1 .. n /\ history[i].step \in KeeperStep
               /\ i \in last <=> LastOf(history, n, i, history[i].step)
    <3>1. i \in 1 .. n /\ history[i] \in Marks(hashes) /\ DOMAIN history = 1 .. n
      OBVIOUS
    <3> QED
      BY <3>1 DEF Marks, IsLastMark, LastOf
  <2>8. ASSUME NEW i \in last
        PROVE  /\ history[i].step \in ToSet(after.steps) <=> Believed(history[i])
               /\ history[i].step \in DOMAIN after.hashes <=> Believed(history[i]) /\ history[i].hash # NoHash
               /\ history[i].step \in DOMAIN after.hashes => after.hashes[history[i].step] = history[i].hash
    <3> DEFINE s == history[i].step
    <3>1. /\ s \in ToSet(entry.steps)
          /\ s \in DOMAIN entry.hashes <=> history[i].hash # NoHash
          /\ history[i].hash # NoHash => entry.hashes[s] = history[i].hash
      BY <2>1, <2>7 DEF Remembers
    <3>2. CASE history[i].hash # NoHash
      <4>1. s \in ToSet(sure.steps) <=> Stands(history[i].hash)
        BY <2>4, <2>5, <3>1, <3>2
      <4>2. s \in DOMAIN sure.hashes <=> Stands(history[i].hash)
        BY <2>4, <2>5, <3>1, <3>2
      <4>3. s \notin open
        BY <4>1, <4>2
      <4> QED
        BY <2>5, <2>6, <3>1, <3>2, <4>1, <4>2, <4>3
    <3>3. CASE history[i].hash = NoHash
      <4>1. s \in ToSet(sure.steps) /\ s \notin DOMAIN sure.hashes
        BY <2>5, <3>1, <3>3
      <4>2. s \in open <=> ~Believed(history[i])
        BY <3>3, <4>1
      <4> QED
        BY <2>6, <3>3, <4>1, <4>2
    <3> QED
      BY <3>2, <3>3
  <2>9. ASSUME NEW s \in ToSet(after.steps)
        PROVE  \E i \in last : history[i].step = s
    <3>1. s \in ToSet(entry.steps)
      BY <2>5, <2>6
    <3>2. PICK i \in 1 .. n : LastOf(history, n, i, s)
      BY <2>1, <3>1 DEF Remembers
    <3>3. i \in DOMAIN history /\ history[i].step = s
      BY <3>2 DEF LastOf
    <3> QED
      BY <2>7, <3>2, <3>3
  <2>10. kept = {i \in last : Believed(history[i])}
    BY <1>5
  <2>11. DOMAIN after.hashes \subseteq ToSet(after.steps)
    BY <2>6 DEF Cursors
  <2> HIDE DEF kept, last, Believed
  <2>12. ToSet(after.steps) = {history[i].step : i \in kept}
    BY <2>8, <2>9, <2>10
  <2>13. DOMAIN after.hashes = {history[i].step : i \in hashed}
    <3>1. ASSUME NEW s \in DOMAIN after.hashes
          PROVE  \E i \in hashed : history[i].step = s
      <4>1. PICK i \in last : history[i].step = s
        BY <2>9, <2>11
      <4> QED
        BY <2>8, <2>10, <4>1
    <3>2. ASSUME NEW i \in hashed
          PROVE  history[i].step \in DOMAIN after.hashes
      BY <2>8, <2>10
    <3> QED
      BY <3>1, <3>2
  <2>14. ASSUME NEW i \in hashed
         PROVE  after.hashes[history[i].step] = history[i].hash
    BY <2>8, <2>10
  <2>15. after.last # NoHash => after.last \in Range(after.hashes)
    BY <2>6 DEF Cursors
  <2>16. Goal(after)
    BY <2>12, <2>13, <2>14, <2>15
  <2> QED
    BY <1>2, <1>3, <2>2, <2>16 DEF ResumeKeepsProof, kept, last, Believed
<1> QED
  BY <1>4, <1>5
-----------------------------------------------------------------------------
(***************************************************************************)
(* The dry run and the status API.                                         *)
(***************************************************************************)
\* The bids of a round that are revealed.
Shown(revealed) == {i \in DOMAIN revealed : revealed[i]}

\* Some bid is not revealed unless all of them are.
LEMMA ShownIs ==
  ASSUME NEW revealed
  PROVE  /\ Shown(revealed) \subseteq DOMAIN revealed
         /\ Shown(revealed) # DOMAIN revealed <=> \E i \in DOMAIN revealed : ~revealed[i]
BY Zenon DEF Shown

\* As many are revealed as there are bidders exactly when all are.
LEMMA ShownCount ==
  ASSUME NEW revealed \in Seq(BOOLEAN)
  PROVE  /\ Cardinality(Shown(revealed)) \in Nat
         /\ Cardinality(Shown(revealed)) <= Len(revealed)
         /\ Cardinality(Shown(revealed)) = Len(revealed) <=> Shown(revealed) = DOMAIN revealed
<1>1. DOMAIN revealed = 1 .. Len(revealed) /\ Len(revealed) \in Nat
  OBVIOUS
<1>2. IsFiniteSet(1 .. Len(revealed)) /\ Cardinality(1 .. Len(revealed)) = Len(revealed)
  BY <1>1, FS_Interval
<1>3. /\ IsFiniteSet(Shown(revealed))
      /\ Cardinality(Shown(revealed)) <= Len(revealed)
      /\ Cardinality(Shown(revealed)) = Len(revealed) => Shown(revealed) = DOMAIN revealed
  BY <1>1, <1>2, ShownIs, FS_Subset
<1>4. Cardinality(Shown(revealed)) \in Nat
  BY <1>3, FS_CardinalityType
<1> QED
  BY <1>1, <1>2, <1>3, <1>4

\* What the dry run knows of the round.
LEMMA CountIs ==
  ASSUME NEW round, round.revealed \in Seq(BOOLEAN), NEW unread
  PROVE  LET count == CountRevealed(round, unread)
         IN  /\ count = None \/ count = Cardinality(Shown(round.revealed))
             /\ unread = {} => count = Cardinality(Shown(round.revealed))
BY DEF CountRevealed, Shown

\* A round as the keeper reads it.
RoundRead(round) ==
    /\ round.status \in RoundStatus
    /\ round.commit \in Int /\ round.publish \in Int /\ round.deadline \in Int
    /\ round.commit < round.publish
    /\ round.revealed \in Seq(BOOLEAN)

\* The step that is announced is the one the contract would accept now.
LEMMA StepIsNext ==
  ASSUME NEW round, RoundRead(round), NEW unread, NEW now \in Int
  PROVE  LET step == PhaseStep(DecideDryRun(round, Len(round.revealed), CountRevealed(round, unread), now))
         IN  /\ step \in KeeperStep \cup {None}
             /\ step = "clear" <=> Accepts("clear", round, now)
             /\ step = "settle" <=> Accepts("settle", round, now)
             /\ step = "void" <=> Accepts("void", round, now)
             /\ step = "reveal" /\ unread = {} => Accepts("reveal", round, now)
             /\ Accepts("reveal", round, now) => step = "reveal"
             /\ step = "open-reveal" =>
                  (round.status = "Open" /\ now >= round.publish <=> Accepts("open-reveal", round, now))
<1> DEFINE count == CountRevealed(round, unread)
           phase == DecideDryRun(round, Len(round.revealed), count, now)
           hidden == \E i \in DOMAIN round.revealed : ~round.revealed[i]
           n == Len(round.revealed)
<1>1. /\ round.status \in RoundStatus /\ n \in Nat
      /\ round.commit \in Int /\ round.publish \in Int /\ round.deadline \in Int
      /\ round.commit < round.publish
  BY DEF RoundRead
<1>2. /\ count = None \/ count \in Nat
      /\ hidden => (count = None \/ count < n)
      /\ unread = {} /\ (count = None \/ count < n) => hidden
  <2>1. /\ count = None \/ count = Cardinality(Shown(round.revealed))
        /\ unread = {} => count = Cardinality(Shown(round.revealed))
    BY CountIs DEF RoundRead
  <2>2. /\ Cardinality(Shown(round.revealed)) \in Nat
        /\ Cardinality(Shown(round.revealed)) <= n
        /\ Cardinality(Shown(round.revealed)) = n <=> Shown(round.revealed) = DOMAIN round.revealed
    BY ShownCount DEF RoundRead
  <2>3. Shown(round.revealed) # DOMAIN round.revealed <=> hidden
    BY ShownIs
  <2> HIDE DEF count, hidden, n
  <2> QED
    BY <1>1, <2>1, <2>2, <2>3, NoneAssumption
<1>3. /\ Accepts("reveal", round, now) <=> round.status = "Revealing" /\ now <= round.deadline /\ hidden
      /\ Accepts("clear", round, now) <=> round.status = "Revealing" /\ now > round.deadline
      /\ Accepts("settle", round, now) <=> round.status = "Cleared"
      /\ Accepts("void", round, now) <=> round.status = "Open" /\ Stale(round, now)
      /\ Accepts("open-reveal", round, now) <=> round.status = "Open" /\ now > round.commit /\ now >= round.publish
  BY DEF Accepts, Stale
<1>4. /\ round.status = "Open" => PhaseStep(phase) = IF Stale(round, now) THEN "void" ELSE "open-reveal"
      /\ round.status = "Revealing" =>
           PhaseStep(phase) = IF now > round.deadline THEN "clear"
                              ELSE IF count = None \/ count < n THEN "reveal" ELSE None
      /\ round.status = "Cleared" => PhaseStep(phase) = "settle"
      /\ round.status \in {"Settled", "Voided"} => PhaseStep(phase) = None
  <2> HIDE DEF count, n
  <2>1. ASSUME round.status = "Open"
        PROVE  PhaseStep(phase) = IF Stale(round, now) THEN "void" ELSE "open-reveal"
    <3>1. phase = IF Stale(round, now) THEN "stale-open" ELSE "awaiting-drand"
      BY <2>1 DEF DecideDryRun, Terminal, n
    <3> QED
      BY <3>1 DEF PhaseStep
  <2>2. ASSUME round.status = "Revealing"
        PROVE  PhaseStep(phase) = IF now > round.deadline THEN "clear"
                                  ELSE IF count = None \/ count < n THEN "reveal" ELSE None
    <3>1. phase = IF now > round.deadline THEN "ready-to-clear"
                  ELSE IF count = None \/ count < n THEN "revealing" ELSE "awaiting-clear"
      BY <2>2 DEF DecideDryRun, Terminal, n
    <3> QED
      BY <3>1 DEF PhaseStep
  <2>3. ASSUME round.status = "Cleared" PROVE PhaseStep(phase) = "settle"
    <3>1. phase = "ready-to-settle"
      BY <2>3 DEF DecideDryRun, Terminal
    <3> QED
      BY <3>1 DEF PhaseStep
  <2>4. ASSUME round.status \in {"Settled", "Voided"} PROVE PhaseStep(phase) = None
    <3>1. phase = "complete"
      BY <2>4 DEF DecideDryRun, Terminal
    <3> QED
      BY <3>1 DEF PhaseStep
  <2> QED
    BY <2>1, <2>2, <2>3, <2>4
<1>5. None \notin KeeperStep
  BY StatusAssumption
<1> HIDE DEF count, phase, hidden, n
<1> DEFINE step == PhaseStep(phase)
<1>6. /\ step \in KeeperStep \cup {None}
      /\ step = "clear" <=> Accepts("clear", round, now)
      /\ step = "settle" <=> Accepts("settle", round, now)
      /\ step = "void" <=> Accepts("void", round, now)
      /\ step = "reveal" /\ unread = {} => Accepts("reveal", round, now)
      /\ Accepts("reveal", round, now) => step = "reveal"
      /\ step = "open-reveal" =>
           (round.status = "Open" /\ now >= round.publish <=> Accepts("open-reveal", round, now))
  <2> HIDE DEF step
  <2>1. /\ round.status = "Open" => step = IF Stale(round, now) THEN "void" ELSE "open-reveal"
        /\ round.status = "Revealing" =>
             step = IF now > round.deadline THEN "clear"
                    ELSE IF count = None \/ count < n THEN "reveal" ELSE None
        /\ round.status = "Cleared" => step = "settle"
        /\ round.status \in {"Settled", "Voided"} => step = None
    BY <1>4 DEF step
  <2>2. now >= round.publish => now > round.commit
    BY <1>1
  <2>3. CASE round.status = "Open"
    BY <1>3, <1>5, <2>1, <2>2, <2>3 DEF KeeperStep
  <2>4. CASE round.status = "Revealing"
    BY <1>1, <1>2, <1>3, <1>5, <2>1, <2>4 DEF KeeperStep
  <2>5. CASE round.status = "Cleared"
    BY <1>3, <1>5, <2>1, <2>5 DEF KeeperStep
  <2>6. CASE round.status \in {"Settled", "Voided"}
    BY <1>3, <1>5, <2>1, <2>6 DEF KeeperStep
  <2> QED
    BY <1>1, <2>3, <2>4, <2>5, <2>6 DEF RoundStatus
<1> QED
  BY <1>6 DEF step, phase, count

\* What a view says of a status.
ViewStatus == RoundStatus \cup {"NotFound", "Unknown"}

\* The rank of each status in the list.
LEMMA StatusOrders ==
  /\ StatusOrder("Unknown") = 0 /\ StatusOrder("Open") = 1 /\ StatusOrder("Revealing") = 2
  /\ StatusOrder("Cleared") = 3 /\ StatusOrder("Settled") = 4 /\ StatusOrder("Voided") = 5
  /\ StatusOrder("NotFound") = 6
<1> DEFINE names == <<"Unknown", "Open", "Revealing", "Cleared", "Settled", "Voided", "NotFound">>
<1>1. ASSUME NEW i \in 0 .. 6
      PROVE  /\ names[i + 1] = "Unknown" <=> i = 0
             /\ names[i + 1] = "Open" <=> i = 1
             /\ names[i + 1] = "Revealing" <=> i = 2
             /\ names[i + 1] = "Cleared" <=> i = 3
             /\ names[i + 1] = "Settled" <=> i = 4
             /\ names[i + 1] = "Voided" <=> i = 5
             /\ names[i + 1] = "NotFound" <=> i = 6
  <2>1. i = 0 \/ i = 1 \/ i = 2 \/ i = 3 \/ i = 4 \/ i = 5 \/ i = 6
    OBVIOUS
  <2> QED
    BY <2>1
<1> HIDE DEF names
<1>2. ASSUME NEW status, NEW k \in 0 .. 6, \A i \in 0 .. 6 : names[i + 1] = status <=> i = k
      PROVE  StatusOrder(status) = k
  <2>1. StatusOrder(status) = CHOOSE i \in 0 .. 6 : status = names[i + 1]
    BY DEF StatusOrder, names
  <2> QED
    BY <1>2, <2>1
<1> QED
  BY <1>1, <1>2

\* A round that is over ranks after one that still runs.
LEMMA EndedComesLater ==
  ASSUME NEW x \in ViewStatus, NEW y \in ViewStatus,
         RoundStatusClass(x) = "terminal", RoundStatusClass(y) = "active"
  PROVE  StatusOrder(x) > StatusOrder(y)
<1>1. x \in {"Settled", "Voided"}
  BY DEF RoundStatusClass, Active, Terminal, ViewStatus, RoundStatus
<1>2. y \in {"Open", "Revealing", "Cleared"}
  BY DEF RoundStatusClass, Active, Terminal, ViewStatus, RoundStatus
<1> QED
  BY <1>1, <1>2, StatusOrders

\* The list has an order, and no round that is over stands before one that runs.
LEMMA ListedInOrder ==
  ASSUME NEW a, NEW b, a.status \in ViewStatus, b.status \in ViewStatus,
         a.roundId = 2, b.roundId = 1, NEW n \in 0 .. 2, NEW contract
  PROVE  LET rounds == BuildKeeperStatus(contract, SubSeq(<<a, b>>, 1, n)).rounds
         IN  \A i, j \in DOMAIN rounds :
                i < j /\ RoundStatusClass(rounds[i].status) = "terminal"
                => RoundStatusClass(rounds[j].status) # "active"
<1> DEFINE Before(x, y) == \/ StatusOrder(x.status) < StatusOrder(y.status)
                           \/ x.status = y.status /\ x.roundId < y.roundId
           s == SubSeq(<<a, b>>, 1, n)
           Good(p) == /\ IsInjective(p)
                      /\ \A i, j \in DOMAIN s : i < j => ~Before(s[p[j]], s[p[i]])
           perm == CHOOSE p \in [DOMAIN s -> DOMAIN s] : Good(p)
           rounds == BuildKeeperStatus(contract, s).rounds
<1>1. /\ Len(s) = n /\ n \in Nat
      /\ n >= 1 => s[1] = a
      /\ n >= 2 => s[2] = b
  OBVIOUS
<1>2. rounds = [i \in DOMAIN s |-> s[perm[i]]]
  BY DEF BuildKeeperStatus
<1>0. DOMAIN s = 1 .. n
  OBVIOUS
<1> HIDE DEF s
<1>3. \E p \in [DOMAIN s -> DOMAIN s] : Good(p)
  <2> DEFINE id == [i \in 1 .. n |-> i]
             swap == [i \in 1 .. n |-> 3 - i]
  <2>1. id \in [1 .. n -> 1 .. n] /\ IsInjective(id)
    BY DEF IsInjective
  <2>2. n = 2 => swap \in [1 .. n -> 1 .. n] /\ IsInjective(swap)
    BY DEF IsInjective
  <2>3. CASE n < 2
    <3>1. \A i, j \in 1 .. n : ~(i < j)
      BY <1>1, <2>3
    <3> HIDE DEF id
    <3> QED
      BY <1>0, <2>1, <3>1
  <2>4. CASE n = 2 /\ ~Before(b, a)
    <3>1. \A i, j \in 1 .. n : i < j => id[i] = 1 /\ id[j] = 2
      BY <2>4
    <3> HIDE DEF id, Before
    <3>2. \A i, j \in 1 .. n : i < j => ~Before(s[id[j]], s[id[i]])
      BY <1>1, <2>4, <3>1
    <3> QED
      BY <1>0, <2>1, <3>2
  <2>5. CASE n = 2 /\ Before(b, a)
    <3>1. ~Before(a, b)
      <4>1. StatusOrder(a.status) \in Int /\ StatusOrder(b.status) \in Int
        BY StatusOrders DEF ViewStatus, RoundStatus
      <4>2. a.status = b.status => StatusOrder(a.status) = StatusOrder(b.status)
        OBVIOUS
      <4> HIDE DEF StatusOrder
      <4> QED
        BY <2>5, <4>1, <4>2
    <3>2. \A i, j \in 1 .. n : i < j => swap[i] = 2 /\ swap[j] = 1
      BY <2>5
    <3> HIDE DEF swap, Before
    <3>3. \A i, j \in 1 .. n : i < j => ~Before(s[swap[j]], s[swap[i]])
      BY <1>1, <2>5, <3>1, <3>2
    <3> QED
      BY <1>0, <2>2, <2>5, <3>3
  <2> QED
    BY <1>1, <2>3, <2>4, <2>5
<1>4. perm \in [DOMAIN s -> DOMAIN s] /\ Good(perm)
  <2> HIDE DEF Good
  <2> QED
    BY <1>3
<1> HIDE DEF perm
<1>5. \A i \in 1 .. n : perm[i] \in 1 .. n /\ rounds[i] = s[perm[i]]
  BY <1>0, <1>2, <1>4
<1> HIDE DEF rounds
<1>6. \A i \in 1 .. n : rounds[i].status \in ViewStatus
  <2>1. \A k \in 1 .. n : s[k].status \in ViewStatus
    BY <1>1
  <2> QED
    BY <1>5, <2>1
<1>7. \A i, j \in 1 .. n : i < j => ~Before(rounds[j], rounds[i])
  <2> HIDE DEF Before
  <2> QED
    BY <1>0, <1>4, <1>5
<1>8. DOMAIN rounds = 1 .. n
  BY <1>0, <1>2
<1>9. ASSUME NEW i \in DOMAIN rounds, NEW j \in DOMAIN rounds, i < j,
             RoundStatusClass(rounds[i].status) = "terminal",
             RoundStatusClass(rounds[j].status) = "active"
      PROVE  FALSE
  <2>1. StatusOrder(rounds[i].status) > StatusOrder(rounds[j].status)
    BY <1>6, <1>8, <1>9, EndedComesLater
  <2>2. /\ StatusOrder(rounds[i].status) \in Int /\ StatusOrder(rounds[j].status) \in Int
    BY <1>6, <1>8, <1>9, StatusOrders DEF ViewStatus, RoundStatus
  <2>3. ~Before(rounds[j], rounds[i])
    BY <1>7, <1>8, <1>9
  <2> QED
    BY <2>1, <2>2, <2>3
<1> QED
  BY <1>9 DEF rounds, s

\* The planned entry has the step.
LEMMA PlanStepSteps ==
  ASSUME NEW hashes, NEW e \in Cursors(hashes), NEW step \in KeeperStep, NEW hash
  PROVE  step \in ToSet(PlanStep(e, step, hash).steps)
<1>1. e.steps \in Seq(KeeperStep)
  BY DEF Cursors
<1>2. PlanStep(e, step, hash).steps = IF step \in ToSet(e.steps) THEN e.steps ELSE Append(e.steps, step)
  BY DEF PlanStep
<1>3. ToSet(Append(e.steps, step)) = ToSet(e.steps) \cup {step}
  BY <1>1, AppendSet
<1> QED
  BY <1>2, <1>3

\* The planned step is kept by a restart that finds the status it leads to.
LEMMA StepIsKept ==
  ASSUME NEW hashes, NoHash \notin hashes, NEW e \in Cursors(hashes), NEW step \in KeeperStep,
         NEW status \in After(step)
  PROVE  step \in ToSet(Reconcile(PlanStep(e, step, NoHash), status).steps)
<1> DEFINE planned == PlanStep(e, step, NoHash)
           drop == {s \in ToSet(planned.steps) :
                       s \notin DOMAIN planned.hashes /\ status \notin SatisfiedBy(s)}
<1>1. planned \in Cursors(hashes)
  BY PlanStepCursor
<1>2. step \in ToSet(planned.steps)
  BY PlanStepSteps
<1>3. status \in SatisfiedBy(step)
  <2>1. step = "open-reveal" \/ step = "reveal" \/ step = "clear" \/ step = "settle" \/ step = "void"
    BY DEF KeeperStep
  <2> QED
    BY <2>1 DEF After, SatisfiedBy
<1>4. ToSet(PlanRollback(planned, drop).steps) = ToSet(planned.steps) \ drop
  <2> HIDE DEF planned, drop
  <2> QED
    BY <1>1, RollbackCursor
<1>5. Reconcile(planned, status) = PlanRollback(planned, drop)
  BY DEF Reconcile
<1> QED
  BY <1>2, <1>3, <1>4, <1>5

\* What the view of a round says.
LEMMA ViewIs ==
  ASSUME NEW id, NEW round, round.status \in RoundStatus, NEW read, NEW unread, NEW now
  PROVE  LET view == BuildRoundStatus(id, round, read, unread, now, None, "none")
         IN  /\ view.roundId = id /\ view.status \in ViewStatus
             /\ read = "ok" =>
                  /\ view.status = round.status
                  /\ view.next = PhaseStep(DecideDryRun(round, Len(round.revealed),
                                                        CountRevealed(round, unread), now))
                  /\ view.settlement = IF round.status \in Terminal THEN "terminal" ELSE "none"
<1>1. CASE read = "ok"
  BY <1>1 DEF BuildRoundStatus, ViewStatus
<1>2. CASE read # "ok"
  BY <1>2 DEF BuildRoundStatus, ViewStatus
<1> QED
  BY <1>1, <1>2

\* The beacon is announced ready when its round is open and it is published.
LEMMA ReadyIs ==
  ASSUME NEW id, NEW round, NEW read, read = "ok", NEW unread, NEW now
  PROVE  BuildRoundStatus(id, round, read, unread, now, None, "none").revealReady
         <=> round.status = "Open" /\ now >= round.publish
BY Zenon DEF BuildRoundStatus

\* What the dry run says of the next step and of the file.
LEMMA SummaryIs ==
  ASSUME NEW round, NEW unread, NEW now, NEW file, NEW entry
  PROVE  LET dry == DryRunSummary(round, unread, now, file, entry)
             step == PhaseStep(DecideDryRun(round, Len(round.revealed), CountRevealed(round, unread), now))
             base == IF file = "missing" THEN NoEntry ELSE ParseEntry(entry)
         IN  /\ dry.checkpoint.step = step
             /\ dry.checkpoint.mismatch = Mismatch(file)
             /\ step # None => dry.checkpoint.entry = PlanStep(base, step, NoHash)
<1> DEFINE dry == DryRunSummary(round, unread, now, file, entry)
           step == PhaseStep(DecideDryRun(round, Len(round.revealed), CountRevealed(round, unread), now))
<1>1. dry.checkpoint = PlanDryRun(file, entry, step)
  BY DEF DryRunSummary
<1> HIDE DEF step, dry
<1>2. /\ dry.checkpoint.step = step
      /\ dry.checkpoint.mismatch = Mismatch(file)
      /\ step # None =>
           dry.checkpoint.entry =
             PlanStep(IF file = "missing" THEN NoEntry ELSE ParseEntry(entry), step, NoHash)
  BY <1>1 DEF PlanDryRun
<1> QED
  BY <1>2 DEF step, dry

\* What the client takes for ready.
LEMMA AnswerIs ==
  ASSUME NEW status, status.contractId = "own", NEW client, NEW mine,
         NEW delivery \in {"inTime", "late", "lost", "garbled", "malformed"}, NEW built
  PROVE  /\ ~built => Readiness(client, delivery, Handle("GET", "/status", mine, status, built)) # "ready"
         /\ built => (Readiness(client, delivery, Handle("GET", "/status", mine, status, built)) = "ready"
                      <=> /\ delivery = "inTime" /\ client.contract = "own"
                          /\ client.round \in {v.roundId : v \in ToSet(status.rounds)})
<1> DEFINE answer == Handle("GET", "/status", mine, status, built)
<1>1. CASE built
  <2>1. answer = Route("/status", mine, status)
    BY <1>1 DEF Handle
  <2>2. Route("/status", mine, status) = [code |-> 200, body |-> status]
    BY DEF Route
  <2>3. answer.code = 200 /\ answer.body = status
    BY <2>1, <2>2
  <2>4. Judge(client, status) = "ready" <=>
          client.contract = "own" /\ client.round \in {v.roundId : v \in ToSet(status.rounds)}
    BY DEF Judge
  <2> HIDE DEF answer
  <2>5. Readiness(client, delivery, answer) = "ready"
        <=> /\ delivery = "inTime" /\ client.contract = "own"
            /\ client.round \in {v.roundId : v \in ToSet(status.rounds)}
    BY <2>3, <2>4 DEF Readiness
  <2> QED
    BY <1>1, <2>5 DEF answer
<1>2. CASE ~built
  <2>1. answer = [code |-> 500, body |-> None]
    BY <1>2 DEF Handle
  <2>2. answer.code = 500
    BY <2>1
  <2> HIDE DEF answer
  <2>3. Readiness(client, delivery, answer) # "ready"
    BY <2>2 DEF Readiness
  <2> QED
    BY <1>2, <2>3 DEF answer
<1> QED
  BY <1>1, <1>2

\* What a keeper announces of a round is what the contract accepts, its proposed
\* cursor survives the restart that follows, and a client that takes it for ready has
\* the answer of its own contract and round (dry-run.ts, status.ts, status-client.ts).
THEOREM StatusIsTrue ==
  StatusInput => StatusTellsTruth
<1> SUFFICES ASSUME StatusInput, sample.kind = "status" PROVE StatusTellsTruth
  BY DEF StatusTellsTruth
<1> DEFINE round == sample.round
           now == sample.now
           entry == Recorded(sample.history)
           dry == DryRunSummary(round, sample.unread, now, sample.file, entry)
           step == dry.checkpoint.step
           kept(s) == Reconcile(dry.checkpoint.entry, s)
           live(s) == Reconcile(PlanStep(Load(sample.file, entry), step, NoHash), s)
           view == BuildRoundStatus(1, round, sample.read, sample.unread, now, None, "none")
           beside == [round EXCEPT !.status = sample.other]
           other == BuildRoundStatus(2, beside, "ok", {}, now, None, "none")
           listed == SubSeq(<<other, view>>, 1, sample.tracked)
           status == BuildKeeperStatus("own", listed)
           ids == {v.roundId : v \in ToSet(status.rounds)}
           built == CanBuild(SubSeq(<<"ok", sample.read>>, 1, sample.tracked), sample.drand)
           next == PhaseStep(DecideDryRun(round, Len(round.revealed),
                                          CountRevealed(round, sample.unread), now))
           base == IF sample.file = "missing" THEN NoEntry ELSE ParseEntry(entry)
<1>1. /\ RoundRead(round) /\ now \in Int /\ sample.tracked \in 0 .. 2 /\ sample.drand \in BOOLEAN
      /\ sample.file \in {"own", "missing", "otherNetwork", "otherContract", "otherVersion"}
      /\ beside.status \in RoundStatus
      /\ \E hashes : NoHash \notin hashes /\ sample.history \in Seq(Marks(hashes))
  <2>1. PICK st \in RoundStatus, oth \in RoundStatus, revealed \in Seq(BOOLEAN),
             commit \in Int, publish \in Int, deadline \in Int, nw \in Int,
             file \in {"own", "missing", "otherNetwork", "otherContract", "otherVersion"},
             tracked \in 0 .. 2, drand \in BOOLEAN :
           /\ commit < publish
           /\ \E hashes, read, unread :
              /\ NoHash \notin hashes
              /\ \E history \in Seq(Marks(hashes)) :
                   sample = [kind |-> "status", now |-> nw, unread |-> unread, history |-> history,
                             round |-> [status |-> st, commit |-> commit, publish |-> publish,
                                        deadline |-> deadline, revealed |-> revealed],
                             file |-> file, read |-> read, tracked |-> tracked, other |-> oth,
                          drand |-> drand]
    BY Zenon DEF StatusInput, Marks
  <2>2. PICK hashes, read, unread :
           /\ NoHash \notin hashes
           /\ \E history \in Seq(Marks(hashes)) :
                sample = [kind |-> "status", now |-> nw, unread |-> unread, history |-> history,
                          round |-> [status |-> st, commit |-> commit, publish |-> publish,
                                     deadline |-> deadline, revealed |-> revealed],
                          file |-> file, read |-> read, tracked |-> tracked, other |-> oth,
                          drand |-> drand]
    BY <2>1
  <2>3. PICK history \in Seq(Marks(hashes)) :
           sample = [kind |-> "status", now |-> nw, unread |-> unread, history |-> history,
                     round |-> [status |-> st, commit |-> commit, publish |-> publish,
                                deadline |-> deadline, revealed |-> revealed],
                     file |-> file, read |-> read, tracked |-> tracked, other |-> oth,
                          drand |-> drand]
    BY <2>2
  <2>4. /\ round = [status |-> st, commit |-> commit, publish |-> publish,
                    deadline |-> deadline, revealed |-> revealed]
        /\ now = nw /\ sample.tracked = tracked /\ sample.file = file /\ sample.other = oth
        /\ sample.history = history /\ sample.drand = drand
    BY <2>3
  <2>5. RoundRead(round)
    BY <2>1, <2>4 DEF RoundRead
  <2>6. beside.status = oth
    BY <2>4
  <2> QED
    BY <2>2, <2>4, <2>5, <2>6
<1>2. /\ step = next
      /\ dry.checkpoint.mismatch = Mismatch(sample.file)
      /\ step # None => dry.checkpoint.entry = PlanStep(base, step, NoHash)
  <2> HIDE DEF round, now, entry
  <2> QED
    BY SummaryIs
<1>3. /\ next \in KeeperStep \cup {None}
      /\ next = "clear" <=> Accepts("clear", round, now)
      /\ next = "settle" <=> Accepts("settle", round, now)
      /\ next = "void" <=> Accepts("void", round, now)
      /\ next = "reveal" /\ sample.unread = {} => Accepts("reveal", round, now)
      /\ Accepts("reveal", round, now) => next = "reveal"
      /\ next = "open-reveal" =>
           (round.status = "Open" /\ now >= round.publish <=> Accepts("open-reveal", round, now))
  BY <1>1, StepIsNext, Zenon
<1>4. /\ \A s \in {"clear", "settle", "void"} : s = step <=> Accepts(s, round, now)
      /\ step = "reveal" /\ sample.unread = {} => Accepts("reveal", round, now)
      /\ Accepts("reveal", round, now) => step = "reveal"
  <2> HIDE DEF step, next, round, now
  <2> QED
    BY <1>2, <1>3, Zenon
<1>5. /\ view.roundId = 1 /\ view.status \in ViewStatus
      /\ sample.read = "ok" =>
           /\ view.status = round.status /\ view.next = next
           /\ view.settlement = IF round.status \in Terminal THEN "terminal" ELSE "none"
  <2>1. round.status \in RoundStatus
    BY <1>1 DEF RoundRead
  <2> HIDE DEF round, now
  <2> QED
    BY <2>1, ViewIs
<1>6. other.roundId = 2 /\ other.status \in ViewStatus
  <2> HIDE DEF beside, now
  <2> QED
    BY <1>1, ViewIs
<1>7. sample.read = "ok" => (view.revealReady <=> round.status = "Open" /\ now >= round.publish)
  BY ReadyIs, Zenon
<1>8. sample.read = "ok" =>
         /\ view.next = step
         /\ view.revealReady /\ step = "open-reveal" <=>
              step = "open-reveal" /\ Accepts(step, round, now)
         /\ view.settlement = "terminal" <=> RoundStatusClass(view.status) = "terminal"
  <2>1. RoundStatusClass(round.status) = "terminal" <=> round.status \in Terminal
    BY DEF RoundStatusClass, Active, Terminal
  <2> HIDE DEF view, step, next, round, now
  <2>2. sample.read = "ok" =>
          (view.revealReady /\ step = "open-reveal" <=> step = "open-reveal" /\ Accepts(step, round, now))
    BY <1>2, <1>3, <1>7, Zenon
  <2> QED
    BY <1>2, <1>5, <2>1, <2>2
<1>9. ASSUME step # None, NEW s \in After(step)
      PROVE  /\ step \in ToSet(kept(s).steps)
             /\ MayLoad(sample.file) => kept(s) = live(s)
  <2>1. PICK hashes : NoHash \notin hashes /\ sample.history \in Seq(Marks(hashes))
    BY <1>1
  <2>2. entry \in Cursors(hashes)
    BY <2>1, RecordedCursor
  <2> HIDE DEF entry
  <2>3. ParseEntry(entry) \in Cursors(hashes) /\ NoEntry \in Cursors(hashes)
    BY <2>2, ParseCursor, NoEntryCursor
  <2>4. base \in Cursors(hashes) /\ (MayLoad(sample.file) => base = Load(sample.file, entry))
    BY <1>1, <2>3 DEF MayLoad, Load
  <2>5. step \in KeeperStep
    <3> HIDE DEF step, next
    <3> QED
      BY <1>2, <1>3, <1>9
  <2> HIDE DEF base, step, dry
  <2>6. dry.checkpoint.entry = PlanStep(base, step, NoHash)
    BY <1>2, <1>9
  <2>7. step \in ToSet(Reconcile(PlanStep(base, step, NoHash), s).steps)
    BY <1>9, <2>1, <2>4, <2>5, StepIsKept
  <2> QED
    BY <2>4, <2>6, <2>7
<1>10. /\ dry.checkpoint.mismatch # None => ~MayLoad(sample.file)
       /\ ~MayLoad(sample.file) /\ sample.file # "otherVersion" => dry.checkpoint.mismatch # None
  <2> HIDE DEF dry
  <2>1. /\ sample.file = "otherNetwork" => Mismatch(sample.file) = "network"
        /\ sample.file = "otherContract" => Mismatch(sample.file) = "contractId"
        /\ sample.file \notin {"otherNetwork", "otherContract"} => Mismatch(sample.file) = None
    BY DEF Mismatch
  <2> QED
    BY <1>1, <1>2, <2>1, StatusAssumption DEF MayLoad
<1>11. ASSUME NEW env \in [dryRun : {"true", "false", "unreadable"}, secret : BOOLEAN,
                           contract : BOOLEAN, roundId : 0 .. 1],
              RunMain(env, sample.file) = "live"
       PROVE  dry.checkpoint.mismatch = None /\ env.secret
  <2> HIDE DEF dry
  <2>1. ParseKeeperRunConfig(env) = "live" /\ MayLoad(sample.file)
    BY <1>11 DEF RunMain
  <2>2. env.dryRun = "false" /\ env.secret
    BY <2>1 DEF ParseKeeperRunConfig
  <2> QED
    BY <1>10, <2>1, <2>2
<1>12. ASSUME NEW delivery \in {"inTime", "late", "lost", "garbled", "malformed"},
              NEW mine \in 1 .. 2, NEW contract \in {"own", "other"}
       PROVE  Readiness([contract |-> contract, round |-> mine], delivery,
                        Handle("GET", "/status", mine, status, built)) = "ready"
              <=> delivery = "inTime" /\ mine \in ids /\ contract = "own" /\ built
  <2>1. status.contractId = "own"
    BY DEF BuildKeeperStatus
  <2>0. built \in BOOLEAN
    BY <1>1 DEF CanBuild
  <2> HIDE DEF status, built
  <2> DEFINE client == [contract |-> contract, round |-> mine]
  <2>2. client.contract = contract /\ client.round = mine
    OBVIOUS
  <2> HIDE DEF client
  <2> DEFINE ready == Readiness(client, delivery, Handle("GET", "/status", mine, status, built)) = "ready"
  <2>3. /\ ~built => Readiness(client, delivery, Handle("GET", "/status", mine, status, built)) # "ready"
        /\ built => (Readiness(client, delivery, Handle("GET", "/status", mine, status, built)) = "ready"
                     <=> /\ delivery = "inTime" /\ client.contract = "own"
                         /\ client.round \in {v.roundId : v \in ToSet(status.rounds)})
    BY <2>1, AnswerIs
  <2> HIDE DEF ready, status, built
  <2>4. ready <=> delivery = "inTime" /\ mine \in ids /\ contract = "own" /\ built
    BY <2>0, <2>2, <2>3 DEF ready
  <2> QED
    BY <2>4 DEF client, ready
<1>13. \A i, j \in DOMAIN status.rounds :
          i < j /\ RoundStatusClass(status.rounds[i].status) = "terminal"
          => RoundStatusClass(status.rounds[j].status) # "active"
  <2> HIDE DEF view, other
  <2> QED
    BY <1>1, <1>5, <1>6, ListedInOrder
<1> QED
  BY <1>4, <1>8, <1>9, <1>10, <1>11, <1>12, <1>13, Zenon DEF StatusTellsTruth
-----------------------------------------------------------------------------
(***************************************************************************)
(* The bidder agent.                                                        *)
(***************************************************************************)
\* The appraisal suggests a bid that is an integer; all else is as it may be.
BidInput ==
    sample.kind = "bid" => sample.world.suggested \in Int

\* In one run an agent commits inside its mandate and pays only where mandate
\* and round allowed it as they were read (bidder.ts, mandate.ts).
THEOREM AgentStaysInMandate ==
  BidInput => AgentKeepsItsMandate
<1> SUFFICES ASSUME BidInput, sample.kind = "bid" PROVE AgentKeepsItsMandate
  BY DEF AgentKeepsItsMandate
<1> DEFINE config == sample.config
           world == sample.world
           m == config.mandate
           run == RunBidderAgent(config, world)
           bid == BidFromAppraisal(world.suggested, m)
           fetched == Fetched(config, world)
           Ended(at, paid, report) ==
             [at |-> at, paid |-> paid, report |-> report, bid |-> bid, escrow |-> bid,
              revealRound |-> world.rounds[1].revealRound]
           mayCommit == /\ AssertCommitEligible(world.rounds[3], world.clock[5])
                        /\ VerifySessionMandate(m, world.clock[5])
           held == /\ MayPayAppraisal(config, world)
                   /\ AppraisalHolds(config, world)
                   /\ AssertCommitEligible(world.rounds[2], world.clock[4])
                   /\ mayCommit
<1>1. \/ run = Ended("refused", FALSE, <<>>)
      \/ MayPayAppraisal(config, world) /\ run = Ended("appraised", fetched.paid, <<>>)
      \/ MayPayAppraisal(config, world) /\ run = Ended("sealed", fetched.paid, <<>>)
      \/ held /\ run = Ended("committed", fetched.paid, <<"pending", "committed">>)
      \/ held /\ run = Ended("failed", fetched.paid, <<"pending", "failed">>)
  BY Zenon DEF RunBidderAgent
<1>2. /\ run.report = <<>> \/ run.report = <<"pending", "committed">> \/ run.report = <<"pending", "failed">>
      /\ run.report # <<>> => held
      /\ run.paid => MayPayAppraisal(config, world)
      /\ run.bid = bid /\ run.escrow = bid /\ run.revealRound = world.rounds[1].revealRound
  BY <1>1
<1> HIDE DEF run
<1>3. ASSUME MayPayAppraisal(config, world)
      PROVE  /\ m.maxBid \in Nat /\ m.maxSpend \in Nat /\ m.signed
             /\ config.session = m.sessionKey
             /\ world.rounds[1].status = "Open"
             /\ config.revealRound = world.rounds[1].revealRound
             /\ m.price <= RemainingAppraisalSpend(m, 0)
             /\ world.clock[1] <= m.expiresAt /\ world.clock[1] <= m.commitDeadline
             /\ world.clock[2] < world.rounds[1].commitDeadline
  <2>1. /\ config.session = m.sessionKey /\ VerifySessionMandate(m, world.clock[1])
        /\ AssertCommitEligible(world.rounds[1], world.clock[2])
        /\ config.revealRound = world.rounds[1].revealRound
    BY <1>3 DEF MayPayAppraisal
  <2>2. m.signed /\ ValidateMandateNumbers(m)
    BY <2>1, Zenon DEF VerifySessionMandate
  <2>3. m.maxBid \in Nat /\ m.maxSpend \in Nat
    BY <2>2 DEF ValidateMandateNumbers
  <2>4. m.price <= m.maxSpend /\ world.clock[1] <= m.expiresAt /\ world.clock[1] <= m.commitDeadline
    BY <2>1 DEF VerifySessionMandate
  <2>5. RemainingAppraisalSpend(m, 0) = m.maxSpend
    BY <2>3 DEF RemainingAppraisalSpend
  <2>6. world.rounds[1].status = "Open" /\ world.clock[2] < world.rounds[1].commitDeadline
    BY <2>1 DEF AssertCommitEligible
  <2> QED
    BY <2>1, <2>2, <2>3, <2>4, <2>5, <2>6
<1>4. ASSUME held
      PROVE  /\ world.clock[5] <= m.expiresAt /\ world.clock[5] <= m.commitDeadline
             /\ \A i \in 1 .. 3 : world.rounds[i].status = "Open"
             /\ world.clock[5] < world.rounds[3].commitDeadline
             /\ 0 < bid /\ bid <= m.maxBid /\ bid <= m.maxEscrow /\ bid <= bid
             /\ bid <= world.suggested
             /\ world.quote # None => world.quote.amount <= m.price
  <2>1. \A i \in 1 .. 3 : world.rounds[i].status = "Open"
    BY <1>3, <1>4 DEF AssertCommitEligible
  <2>2. bid \in Int /\ bid <= world.suggested
    BY <1>3, <1>4 DEF BidInput, BidFromAppraisal
  <2>3. 0 < bid /\ bid <= m.maxBid /\ bid <= m.maxEscrow
    BY <1>4 DEF AppraisalHolds, AssertBidWithinMandate
  <2>4. world.quote # None => world.quote.amount <= m.price
    BY <1>4 DEF AppraisalHolds, AssertAppraisalQuoteAllowed, AssertAppraisalSpendAllowed
  <2>5. /\ world.clock[5] <= m.expiresAt /\ world.clock[5] <= m.commitDeadline
        /\ world.clock[5] < world.rounds[3].commitDeadline
    BY <1>4 DEF AssertCommitEligible, VerifySessionMandate
  <2> QED
    BY <2>1, <2>2, <2>3, <2>4, <2>5
<1>5. Len(run.report) \in {0, 2}
  <2>1. /\ Len(<<>>) = 0
        /\ Len(<<"pending", "committed">>) = 2 /\ Len(<<"pending", "failed">>) = 2
    OBVIOUS
  <2> QED
    BY <1>2, <2>1, Zenon
<1>6. run.report # <<>> => held /\ MayPayAppraisal(config, world)
  BY <1>2
<1> HIDE DEF held
<1> QED
  <2>1. run.report # <<>> =>
           /\ m.signed /\ config.session = m.sessionKey
           /\ world.clock[5] <= m.expiresAt /\ world.clock[5] <= m.commitDeadline
           /\ \A i \in 1 .. 3 : world.rounds[i].status = "Open"
           /\ world.clock[5] < world.rounds[3].commitDeadline
           /\ 0 < run.bid /\ run.bid <= run.escrow
           /\ run.bid <= m.maxBid /\ run.escrow <= m.maxEscrow
           /\ run.bid <= world.suggested
           /\ run.revealRound = config.revealRound
           /\ world.quote # None => world.quote.amount <= m.price
    BY <1>2, <1>3, <1>4, <1>6
  <2>2. run.paid =>
           /\ m.signed /\ m.price <= RemainingAppraisalSpend(m, 0)
           /\ world.clock[1] <= m.expiresAt /\ world.clock[1] <= m.commitDeadline
           /\ world.rounds[1].status = "Open"
           /\ world.clock[2] < world.rounds[1].commitDeadline
    BY <1>2, <1>3
  <2> QED
    BY <1>5, <2>1, <2>2, Zenon DEF AgentKeepsItsMandate, run
-----------------------------------------------------------------------------
(***************************************************************************)
(* The client of a priced service.                                          *)
(***************************************************************************)
\* A challenge is missing or a list of offers, of any length, whose amounts are
\* numbers in one of the two forms; the amount of a quote is a number.
PaidInput ==
    sample.kind = "paid" =>
        /\ sample.call.accepts # None =>
             \E offers : /\ sample.call.accepts \in Seq(offers)
                         /\ \A offer \in offers :
                               offer.amount \in [text : {"digits", "decimal"}, n : Nat]
        /\ sample.call.quote # None => sample.call.quote.amount \in Nat

\* Of offers the client can all pay, the first is the one it pays.
LEMMA FirstOfferIsPaid ==
  ASSUME NEW offers, NEW accepts \in Seq(offers), accepts # <<>>,
         \A i \in DOMAIN accepts : accepts[i].network = "stellar"
  PROVE  PaidOffer(accepts) = accepts[1]
<1> DEFINE can == {i \in DOMAIN accepts : accepts[i].network = "stellar"}
<1>1. can = 1 .. Len(accepts) /\ Len(accepts) \in Nat \ {0}
  OBVIOUS
<1> HIDE DEF can
<1>2. (CHOOSE i \in can : \A j \in can : i <= j) = 1
  BY <1>1
<1>3. can # {}
  <2>1. 1 \in can
    BY <1>1
  <2> QED
    BY <2>1
<1> QED
  BY <1>2, <1>3 DEF PaidOffer, can

\* The client signs the quote its caller gave, and once (client.ts).
THEOREM QuoteIsWhatIsPaid ==
  PaidInput => PaysTheQuoteItChecked
<1> SUFFICES ASSUME PaidInput, sample.kind = "paid" PROVE PaysTheQuoteItChecked
  BY DEF PaysTheQuoteItChecked
<1> DEFINE call == sample.call
           done == PaidFetch(call, sample.now)
           code == AssertAppraisalBodyBytes(call.body)
           refused == call.body.text /\ code \in {"QUOTE_BODY_OVERSIZED", "QUOTE_BODY_CREDENTIALS"}
           first == call.accepts[1]
<1>1. refused => ~AssertPaidRequestBodyAllowed(call.body, FALSE)
  BY DEF AssertPaidRequestBodyAllowed
<1>2. /\ refused => done.sent = 0
      /\ done.sent = 2 <=> done.paid # None
      /\ done.paid # None => MayPay(call, sample.now) /\ done.paid = PaidOffer(call.accepts)
  <2> DEFINE open == AssertPaidRequestBodyAllowed(call.body, FALSE) /\ call.rpc # "credentials"
             pays == MayPay(call, sample.now) /\ PaidOffer(call.accepts) # None
             one == IF call.json THEN "answer" ELSE "refused"
             two == IF call.json /\ call.second = 200 THEN "answer" ELSE "refused"
  <2>1. CASE ~open
    <3>1. done = [result |-> "refused", sent |-> 0, paid |-> None]
      BY <2>1, Zenon DEF PaidFetch
    <3> QED
      BY <3>1
  <2>2. CASE open /\ (call.first # 402 \/ ~pays)
    <3>1. \E result : done = [result |-> result, sent |-> 1, paid |-> None]
      <4>1. CASE call.first # 402
        <5>1. done = [result |-> one, sent |-> 1, paid |-> None]
          BY <2>2, <4>1, Zenon DEF PaidFetch
        <5> QED
          BY <5>1, Zenon
      <4>2. CASE call.first = 402
        <5>1. AssertPaidRequestBodyAllowed(call.body, FALSE) /\ ~(call.rpc = "credentials")
          BY <2>2
        <5>2. ~(call.first # 402)
          BY <4>2
        <5>3. ~MayPay(call, sample.now) \/ PaidOffer(call.accepts) = None
          BY <2>2, <4>2, Zenon
        <5>4. done = [result |-> "refused", sent |-> 1, paid |-> None]
          BY <5>1, <5>2, <5>3, Zenon DEF PaidFetch
        <5> QED
          BY <5>4, Zenon
      <4> QED
        BY <4>1, <4>2
    <3>2. ~refused
      BY <1>1, <2>2
    <3> HIDE DEF done, refused
    <3> QED
      BY <3>1, <3>2
  <2>3. CASE open /\ call.first = 402 /\ pays
    <3>1. done = [result |-> two, sent |-> 2, paid |-> PaidOffer(call.accepts)]
      BY <2>3, Zenon DEF PaidFetch
    <3>2. ~refused
      BY <1>1, <2>3
    <3> HIDE DEF done, refused, two
    <3> QED
      BY <2>3, <3>1, <3>2
  <2> QED
    BY <2>1, <2>2, <2>3
<1> HIDE DEF done
<1>3. ASSUME done.paid # None, \A i \in DOMAIN call.accepts : call.accepts[i].network = "stellar"
      PROVE  /\ call.quote # None
             /\ <<done.paid.asset, done.paid.payTo>> = <<call.quote.asset, call.quote.destination>>
             /\ done.paid.amount = [text |-> "digits", n |-> call.quote.amount]
             /\ sample.now < call.quote.expiresAt /\ sample.now < done.paid.expiresAt
             /\ call.limits # None =>
                  /\ PaymentRequiredAmountToStroops(done.paid.amount) <= call.limits.max
                  /\ call.body.text /\ code = "allowed"
  <2>1. /\ call.accepts # None /\ call.quote # None
        /\ AssertChallengeMatchesQuote(call.accepts, call.quote, sample.now)
        /\ call.limits # None => AssertPaymentQuoteAllowed(call.accepts, call.limits)
        /\ AssertPaidRequestBodyAllowed(call.body, call.limits # None)
    BY <1>2, <1>3 DEF MayPay
  <2>2. /\ call.accepts # <<>>
        /\ first.asset = call.quote.asset /\ first.payTo = call.quote.destination
        /\ NormalizeQuoteAmount(first.amount) = call.quote.amount
        /\ sample.now < call.quote.expiresAt /\ sample.now < first.expiresAt
    BY <2>1 DEF AssertChallengeMatchesQuote
  <2>3. PICK offers : /\ call.accepts \in Seq(offers)
                      /\ \A offer \in offers :
                            offer.amount \in [text : {"digits", "decimal"}, n : Nat]
    BY <2>1 DEF PaidInput
  <2>4. done.paid = first
    BY <1>2, <1>3, <2>2, <2>3, FirstOfferIsPaid
  <2>5. first.amount \in [text : {"digits", "decimal"}, n : Nat]
    BY <2>2, <2>3
  <2>6. first.amount.text = "digits" /\ first.amount.n = call.quote.amount
    BY <2>1, <2>2, NoneAssumption DEF NormalizeQuoteAmount, PaidInput
  <2>7. first.amount = [text |-> "digits", n |-> call.quote.amount]
    BY <2>5, <2>6
  <2>8. call.limits # None =>
          PaymentRequiredAmountToStroops(first.amount) <= call.limits.max /\ call.body.text /\ code = "allowed"
    BY <2>1 DEF AssertPaymentQuoteAllowed, AssertPaidRequestBodyAllowed
  <2> QED
    BY <2>1, <2>2, <2>4, <2>7, <2>8
<1> QED
  BY <1>2, <1>3 DEF PaysTheQuoteItChecked, done
-----------------------------------------------------------------------------
(***************************************************************************)
(* The appraisal.                                                           *)
(***************************************************************************)
\* A value in cents of any size, an attribute of it in tens or absent; a request
\* to the server may be anything.
ValueInput ==
    sample.kind = "value" =>
        /\ sample.req.base \in Nat
        /\ sample.req.category \in DOMAIN CATEGORY_MULTIPLIERS
        /\ \A key \in {"quality", "demand", "scarcity", "risk"} :
              sample.req[key] \in {None} \cup 0 .. 10

\* What a valuation is built of gives a natural number of cents.
LEMMA RoundedNat ==
  ASSUME NEW n \in Nat, NEW d \in Nat \ {0}
  PROVE  Rounded(n, d) \in Nat
  BY DEF Rounded

\* One more element is at most one more.
LEMMA OneMore ==
  ASSUME NEW S, NEW x, IsFiniteSet(S)
  PROVE  /\ IsFiniteSet(S \cup {x})
         /\ Cardinality(S) \in Nat /\ Cardinality(S \cup {x}) \in Nat
         /\ Cardinality(S \cup {x}) <= Cardinality(S) + 1
<1>1. Cardinality(S) \in Nat
  BY FS_CardinalityType
<1>2. /\ IsFiniteSet(S \cup {x})
      /\ Cardinality(S \cup {x}) = IF x \in S THEN Cardinality(S) ELSE Cardinality(S) + 1
  BY FS_AddElement, Zenon
<1> QED
  BY <1>1, <1>2

\* One of the five confidences goes with any choice of attributes.
LEMMA ConfidenceIsListed ==
  ASSUME NEW provided \in SUBSET {"quality", "demand", "scarcity", "risk"}
  PROVE  <<50, 63, 75, 88, 100>>[Cardinality(provided) + 1] \in {50, 63, 75, 88, 100}
<1> DEFINE one == {} \cup {"quality"}
           two == one \cup {"demand"}
           three == two \cup {"scarcity"}
           all == three \cup {"risk"}
<1>1. Cardinality(provided) \in 0 .. 4
  <2>1. IsFiniteSet({}) /\ Cardinality({}) = 0
    BY FS_EmptySet
  <2>2. IsFiniteSet(one) /\ Cardinality(one) <= Cardinality({}) + 1
    BY <2>1, OneMore, Zenon
  <2>3. IsFiniteSet(two) /\ Cardinality(two) <= Cardinality(one) + 1 /\ Cardinality(one) \in Nat
    BY <2>2, OneMore, Zenon
  <2>4. IsFiniteSet(three) /\ Cardinality(three) <= Cardinality(two) + 1 /\ Cardinality(two) \in Nat
    BY <2>3, OneMore, Zenon
  <2>5. IsFiniteSet(all) /\ Cardinality(all) <= Cardinality(three) + 1 /\ Cardinality(three) \in Nat
    BY <2>4, OneMore, Zenon
  <2>0. provided \in SUBSET all
    OBVIOUS
  <2> HIDE DEF one, two, three, all
  <2>6. IsFiniteSet(provided) /\ Cardinality(provided) <= Cardinality(all)
    BY <2>0, <2>5, FS_Subset
  <2>7. Cardinality(provided) \in Nat /\ Cardinality(all) \in Nat
    BY <2>5, <2>6, FS_CardinalityType
  <2> QED
    BY <2>1, <2>2, <2>3, <2>4, <2>5, <2>6, <2>7
<1> DEFINE n == Cardinality(provided)
<1> HIDE DEF n
<1>2. n = 0 \/ n = 1 \/ n = 2 \/ n = 3 \/ n = 4
  BY <1>1 DEF n
<1>3. <<50, 63, 75, 88, 100>>[n + 1] \in {50, 63, 75, 88, 100}
  BY <1>2
<1> QED
  BY <1>3 DEF n

\* A valuation suggests no more than the value, which lies in its band, and the
\* server charges for nothing else than an appraisal (appraisal.ts, server.ts).
THEOREM AppraisalsAreWhatIsCharged ==
  ValueInput => ChargedOnlyForAppraisals
<1> SUFFICES ASSUME ValueInput PROVE ChargedOnlyForAppraisals
  OBVIOUS
<1>1. ASSUME sample.kind = "value"
      PROVE  LET value == Appraise(sample.req)
             IN  value.bid <= value.fair /\ value.fair \in value.low .. value.high
  <2> DEFINE req == sample.req
             At(key) == IF req[key] = None THEN 5 ELSE req[key]
             scaled == req.base * (5 + At("quality")) * (30 + 4 * At("demand"))
                           * (35 + 3 * At("scarcity")) * (25 - At("risk"))
             fair == Rounded(scaled * CATEGORY_MULTIPLIERS[req.category], 12500000)
             provided == {key \in {"quality", "demand", "scarcity", "risk"} : req[key] # None}
             confidence == <<50, 63, 75, 88, 100>>[Cardinality(provided) + 1]
  <2>1. /\ req.base \in Nat
        /\ At("quality") \in 0 .. 10 /\ At("demand") \in 0 .. 10
        /\ At("scarcity") \in 0 .. 10 /\ At("risk") \in 0 .. 10
    BY <1>1 DEF ValueInput
  <2>2. CATEGORY_MULTIPLIERS[req.category] \in Nat
    BY <1>1 DEF ValueInput, CATEGORY_MULTIPLIERS
  <2>3. fair \in Nat
    <3> HIDE DEF At
    <3>1. 5 + At("quality") \in Nat /\ 30 + 4 * At("demand") \in Nat
          /\ 35 + 3 * At("scarcity") \in Nat /\ 25 - At("risk") \in Nat
      BY <2>1
    <3>2. \A a, b \in Nat : a * b \in Nat
      OBVIOUS
    <3>3. scaled \in Nat
      BY <2>1, <3>1, <3>2
    <3> HIDE DEF scaled
    <3> QED
      BY <2>2, <3>2, <3>3, RoundedNat
  <2>4. confidence \in {50, 63, 75, 88, 100}
    BY ConfidenceIsListed
  <2>5. Appraise(req) =
          [fair |-> fair,
           low  |-> Rounded(fair * (100 + confidence), 200),
           high |-> Rounded(fair * (300 - confidence), 200),
           bid  |-> Rounded(fair * (8000 + 15 * confidence), 10000)]
    BY DEF Appraise
  <2> HIDE DEF fair, confidence, req
  <2>6. /\ Rounded(fair * (100 + confidence), 200) <= fair
        /\ fair <= Rounded(fair * (300 - confidence), 200)
        /\ Rounded(fair * (8000 + 15 * confidence), 10000) <= fair
    BY <2>3, <2>4 DEF Rounded
  <2>7. /\ Rounded(fair * (100 + confidence), 200) \in Nat
        /\ Rounded(fair * (300 - confidence), 200) \in Nat
    BY <2>3, <2>4, RoundedNat
  <2> QED
    BY <2>3, <2>5, <2>6, <2>7 DEF req
<1>2. ASSUME sample.kind = "serve", ConfigFromEnv(sample.env) # None
      PROVE  LET config == ConfigFromEnv(sample.env)
                 answer == Serve(config, sample.req, sample.now)
             IN  /\ answer.settled =>
                      /\ ParseAppraisalRequest(sample.req.body)
                      /\ BuildAppraisalQuote(config, sample.now) # None
                      /\ answer.status = 200 \/ sample.req.settlement = "lost"
                 /\ answer.status = 200 /\ sample.req.route = "POST /appraise" => answer.settled
  <2> DEFINE config == ConfigFromEnv(sample.env)
             req == sample.req
             answer == Serve(config, req, sample.now)
             refused == answer.settled = FALSE /\ answer.status # 200
             sold == ParseAppraisalRequest(req.body) /\ BuildAppraisalQuote(config, sample.now) # None
  <2>1. \/ req.route # "POST /appraise" /\ answer = Respond(200, FALSE)
        \/ refused
        \/ sold /\ answer = Respond(200, TRUE)
        \/ sold /\ req.settlement = "lost" /\ answer = Respond(500, TRUE)
    <3> DEFINE get == req.route \in {"GET /healthz", "GET /"}
               large == ~ReadCappedBody(req)
               broken == req.body.len > 0 /\ req.body.parses \in {"broken", "blank"}
               empty == req.body.len = 0 /\ req.route = "POST /appraise"
               http == ProcessHTTPRequest(req)
               bad == ~ParseAppraisalRequest(req.body) \/ BuildAppraisalQuote(config, sample.now) = None
               last == CASE req.settlement = "ok"      -> Respond(200, TRUE)
                        [] req.settlement = "refused" -> Respond(402, FALSE)
                        [] req.settlement = "lost"    -> Respond(500, TRUE)
                        [] OTHER                      -> Respond(500, FALSE)
    <3>1. answer =
            IF get THEN Respond(200, FALSE)
            ELSE IF large THEN Respond(413, FALSE)
            ELSE IF broken THEN Respond(400, FALSE)
            ELSE IF empty THEN Respond(400, FALSE)
            ELSE IF http = "no-payment-required" THEN Respond(404, FALSE)
            ELSE IF http = "payment-error" THEN Respond(402, FALSE)
            ELSE IF bad THEN Respond(400, FALSE)
            ELSE last
      BY Zenon DEF Serve
    <3>2. get => req.route # "POST /appraise"
      OBVIOUS
    <3>3. ~bad => sold
      OBVIOUS
    <3>4. \/ last = Respond(200, TRUE)
          \/ last = Respond(402, FALSE)
          \/ last = Respond(500, TRUE) /\ req.settlement = "lost"
          \/ last = Respond(500, FALSE)
      BY DEF Respond
    <3> HIDE DEF answer, get, large, broken, empty, http, bad, last, sold
    <3>5. \/ get /\ answer = Respond(200, FALSE)
          \/ refused
          \/ ~bad /\ answer = last
      BY <3>1 DEF Respond
    <3>6. CASE get /\ answer = Respond(200, FALSE)
      BY <3>2, <3>6, Zenon
    <3>7. CASE ~bad /\ answer = last
      <4>1. CASE last = Respond(402, FALSE) \/ last = Respond(500, FALSE)
        <5>1. last.settled = FALSE /\ last.status # 200
          BY <4>1 DEF Respond
        <5> QED
          BY <3>7, <5>1, Zenon
      <4>2. CASE last = Respond(200, TRUE)
        BY <3>3, <3>7, <4>2, Zenon
      <4>3. CASE last = Respond(500, TRUE) /\ req.settlement = "lost"
        BY <3>3, <3>7, <4>3, Zenon
      <4> QED
        BY <3>4, <4>1, <4>2, <4>3, Zenon
    <3> QED
      BY <3>5, <3>6, <3>7, Zenon
  <2> HIDE DEF answer, sold, refused
  <2>2. CASE req.route # "POST /appraise" /\ answer = Respond(200, FALSE)
    <3>1. answer.settled = FALSE
      BY <2>2 DEF Respond
    <3> QED
      BY <2>2, <3>1, Zenon DEF answer
  <2>3. CASE refused
    BY <2>3, Zenon DEF answer, refused
  <2>4. CASE sold /\ answer = Respond(200, TRUE)
    <3>1. answer.settled = TRUE /\ answer.status = 200
      BY <2>4 DEF Respond
    <3> QED
      BY <2>4, <3>1, Zenon DEF answer, sold
  <2>5. CASE sold /\ req.settlement = "lost" /\ answer = Respond(500, TRUE)
    <3>1. answer.settled = TRUE
      BY <2>5 DEF Respond
    <3> QED
      BY <2>5, <3>1, Zenon DEF answer, sold
  <2> QED
    BY <2>1, <2>2, <2>3, <2>4, <2>5, Zenon
<1> QED
  BY <1>1, <1>2 DEF ChargedOnlyForAppraisals
-----------------------------------------------------------------------------
(***************************************************************************)
(* Mainnet readiness.                                                       *)
(***************************************************************************)
\* A command is one of the four, and what a proof on chain says of its round is
\* that it is settled or not.
ReadinessInput ==
    sample.kind = "readiness" =>
        /\ sample.command \in {"ready", "verify", "micro", "settle"}
        /\ sample.chain.proof # None => sample.chain.proof.settled \in BOOLEAN

\* A live deployment that agrees in every field, and the settled round behind
\* it, are the deployment the manifest names.
LEMMA AgreementIsDeployment ==
  ASSUME NEW manifest, NEW run,
         CompareDeployment(manifest, ReadLiveDeployment(run.env.contractId, run.chain)) = {},
         VerifySettledRoundProof(run.chain.proof, manifest),
         run.chain.proof.settled \in BOOLEAN
  PROVE  Deployed(manifest, run)
<1> DEFINE live == ReadLiveDeployment(run.env.contractId, run.chain)
           round == run.chain.proof
<1>1. \A field \in DEPLOYMENT_FIELDS : live[field] # None /\ SameValue(field, manifest[field], live[field])
  BY DEF CompareDeployment
<1>2. /\ live["contractId"] = run.env.contractId
      /\ live["networkPassphrase"] = run.chain["networkPassphrase"]
      /\ live["wasmHash"] = run.chain["wasmHash"]
      /\ live["tokenContract"] # None => live["tokenContract"] = run.chain["tokenContract"]
  BY DEF ReadLiveDeployment
<1> HIDE DEF live
<1>3. \A field \in DEPLOYMENT_FIELDS \ {"contractId"} : live[field] = run.chain[field]
  BY <1>1, <1>2 DEF DEPLOYMENT_FIELDS
<1>4. /\ run.env.contractId # None
      /\ SameValue("contractId", manifest["contractId"], run.env.contractId)
  BY <1>1, <1>2 DEF DEPLOYMENT_FIELDS
<1>5. \A field \in DEPLOYMENT_FIELDS \ {"contractId"} :
         run.chain[field] # None /\ SameValue(field, manifest[field], run.chain[field])
  BY <1>1, <1>3
<1>6. /\ round # None
      /\ <<round.status, round.bidders, round.value, round.escrow, round.settled>>
           = <<"Settled", 1, manifest.bid, manifest.escrow, TRUE>>
  BY DEF VerifySettledRoundProof
<1> QED
  BY <1>4, <1>5, <1>6 DEF Deployed

\* A report from the network without a blocking check is of the deployment the
\* manifest names.
LEMMA PassingReport ==
  ASSUME NEW input, NEW run, input.fixture = None, input.live = TRUE,
         input.contractId = run.env.contractId,
         ~HasBlockingFailures(RunMainnetReadiness(input, run.chain)),
         run.chain.proof # None => run.chain.proof.settled \in BOOLEAN
  PROVE  Deployed(input.manifest, run)
<1> DEFINE report == RunMainnetReadiness(input, run.chain)
           live == ReadLiveDeployment(input.contractId, run.chain)
           wrong == CompareDeployment(input.manifest, live)
           proved == VerifySettledRoundProof(run.chain.proof, input.manifest)
<1>1. LiveChecks(input, run.chain) \subseteq report
  BY DEF RunMainnetReadiness
<1>2. \A check \in LiveChecks(input, run.chain) : check.status # "block"
  BY <1>1 DEF HasBlockingFailures
<1>3. Found("settled-round", PassOrBlock(proved)) \in LiveChecks(input, run.chain)
  BY DEF LiveChecks
<1>4. proved
  <2>1. Found("settled-round", PassOrBlock(proved)).status # "block"
    BY <1>2, <1>3
  <2> QED
    BY <2>1 DEF Found, PassOrBlock
<1>5. \A field \in DEPLOYMENT_FIELDS :
         Found(field, PassOrBlock(field \notin wrong)) \in LiveChecks(input, run.chain)
  BY DEF LiveChecks, DeploymentChecks
<1>6. wrong = {}
  <2>1. ASSUME NEW field \in DEPLOYMENT_FIELDS PROVE field \notin wrong
    <3>1. Found(field, PassOrBlock(field \notin wrong)).status # "block"
      BY <1>2, <1>5
    <3> QED
      BY <3>1 DEF Found, PassOrBlock
  <2>2. wrong \subseteq DEPLOYMENT_FIELDS
    BY DEF CompareDeployment
  <2> QED
    BY <2>1, <2>2
<1>7. run.chain.proof # None
  BY <1>4 DEF VerifySettledRoundProof
<1> QED
  BY <1>4, <1>6, <1>7, AgreementIsDeployment

\* Nothing of value is sent, no secret asked for and no check passed on another
\* deployment than the committed one (mainnet-readiness.ts and its scripts).
THEOREM NothingIsSentUnready ==
  ReadinessInput => BroadcastOnlyWhenReady
<1> SUFFICES ASSUME ReadinessInput, sample.kind = "readiness" PROVE BroadcastOnlyWhenReady
  BY DEF BroadcastOnlyWhenReady
<1> DEFINE run == sample
           told == RunCommand(sample)
           bid == IF sample.bid = None THEN DEFAULT_BID ELSE sample.bid
           escrow == IF sample.escrow = None THEN DEFAULT_ESCROW ELSE sample.escrow
           Goal == /\ told.sent > 0 =>
                        /\ sample.execute /\ sample.confirmed /\ sample.secrets
                        /\ Deployed(sample.embedded, sample)
                        /\ IF sample.command = "micro"
                           THEN bid \in 1 .. escrow /\ escrow <= MAINNET_MICRO_MAX_ESCROW
                           ELSE sample.chain.locked \in 1 .. MAINNET_MICRO_MAX_ESCROW
                   /\ ~sample.execute => told.sent = 0 /\ ~told.asked
                   /\ /\ sample.command \in {"ready", "verify"}
                      /\ told.exit = 0 /\ ~sample.dryRun /\ ~sample.replay
                      => Deployed(sample.manifest.doc, sample)
<1>1. sample.chain.proof # None => sample.chain.proof.settled \in BOOLEAN
  BY DEF ReadinessInput
<1>2. CASE sample.command = "ready"
  <2> DEFINE input == [DefaultMainnetReadinessInput(run.manifest.doc, run.env) EXCEPT
                         !.live = ~run.dryRun, !.withBalances = run.withBalances,
                         !.accounts = run.accounts,
                         !.fixture = IF run.replay THEN run.fixture.doc ELSE None]
             clear == ~HasBlockingFailures(RunMainnetReadiness(input, run.chain))
  <2>1. told = MainnetReady(sample)
    BY <1>2 DEF RunCommand
  <2>2. told.sent = 0 /\ told.asked = FALSE /\ (told.exit = 0 => clear)
    BY <2>1 DEF MainnetReady, Told
  <2>3. ASSUME ~sample.dryRun, ~sample.replay, clear
        PROVE  Deployed(sample.manifest.doc, sample)
    <3>1. /\ input.fixture = None /\ input.live = TRUE
          /\ input.contractId = run.env.contractId /\ input.manifest = run.manifest.doc
      BY <2>3 DEF DefaultMainnetReadinessInput
    <3> HIDE DEF input
    <3> QED
      BY <1>1, <2>3, <3>1, PassingReport
  <2> HIDE DEF told
  <2>4. Goal
    BY <1>2, <2>2, <2>3
  <2> QED
    BY <2>4 DEF told, BroadcastOnlyWhenReady
<1>3. CASE sample.command = "verify"
  <2> DEFINE live == ReadLiveDeployment(run.env.contractId, run.chain)
             manifest == run.manifest.doc
  <2>1. told = MainnetVerify(sample)
    BY <1>3 DEF RunCommand
  <2>2. told.sent = 0 /\ told.asked = FALSE
    BY <2>1 DEF MainnetVerify, Told
  <2>3. ASSUME told.exit = 0, ~sample.dryRun, ~sample.replay
        PROVE  CompareDeployment(manifest, live) = {} /\ VerifySettledRoundProof(run.chain.proof, manifest)
    BY <2>1, <2>3 DEF MainnetVerify, Told, AssertDeploymentMatches
  <2>4. ASSUME told.exit = 0, ~sample.dryRun, ~sample.replay
        PROVE  Deployed(manifest, run)
    <3>1. run.chain.proof # None
      BY <2>3, <2>4 DEF VerifySettledRoundProof
    <3> QED
      BY <1>1, <2>3, <2>4, <3>1, AgreementIsDeployment
  <2> HIDE DEF told
  <2>5. Goal
    BY <1>3, <2>2, <2>4
  <2> QED
    BY <2>5 DEF told, BroadcastOnlyWhenReady
<1>4. CASE sample.command = "micro"
  <2> DEFINE b == ParseMicroStroops(run.bid, DEFAULT_BID)
             e == ParseMicroStroops(run.escrow, DEFAULT_ESCROW)
             input == [DefaultMainnetReadinessInput(run.embedded, run.env) EXCEPT
                         !.withBalances = TRUE, !.accounts = {"operator", "bidder"}]
             clear == ~HasBlockingFailures(RunMainnetReadiness(input, run.chain))
  <2>1. told = MainnetMicro(sample)
    BY <1>4 DEF RunCommand
  <2>2. /\ told.sent > 0 => /\ b # 0 /\ e # 0 /\ AssertMicroAmounts(b, e)
                            /\ run.execute /\ run.confirmed /\ run.secrets /\ clear
        /\ told.sent \in Nat /\ (told.asked => run.execute)
    <3> DEFINE report == RunMainnetReadiness(input, run.chain)
               action == IF 0 \in {b, e} THEN "refused" ELSE RunMicroRunnerGate(run, b, e, report)
               exit == IF action = "dry-run" THEN 0 ELSE 1
               went == CASE run.tx = "create" -> 0 [] run.tx = "commit" -> 1 [] OTHER -> 2
               sent == IF action # "send" THEN 0 ELSE went
               asked == run.execute /\ run.confirmed /\ AssertMicroAmounts(b, e)
    <3>1. told = [exit |-> exit, sent |-> sent, asked |-> asked]
      BY <2>1, Zenon DEF MainnetMicro, Told
    <3>2. went \in Nat
      OBVIOUS
    <3>3. action = "send" => /\ b # 0 /\ e # 0 /\ AssertMicroAmounts(b, e)
                             /\ run.execute /\ run.confirmed /\ run.secrets /\ clear
      BY DEF RunMicroRunnerGate
    <3>4. asked => run.execute
      OBVIOUS
    <3> HIDE DEF told, action, exit, went, asked
    <3>5. told.sent = sent
      BY <3>1
    <3>6. told.asked = asked
      BY <3>1, Zenon
    <3>7. told.sent > 0 => action = "send"
      BY <3>5
    <3>8. told.sent \in Nat
      BY <3>2, <3>5
    <3> QED
      BY <3>3, <3>4, <3>6, <3>7, <3>8, Zenon
  <2>3. ASSUME b # 0, e # 0, AssertMicroAmounts(b, e)
        PROVE  bid \in 1 .. escrow /\ escrow <= MAINNET_MICRO_MAX_ESCROW
    BY <2>3, ReadinessAssumption DEF ParseMicroStroops, AssertMicroAmounts
  <2>4. ASSUME clear PROVE Deployed(sample.embedded, sample)
    <3>1. /\ input.fixture = None /\ input.live = TRUE
          /\ input.contractId = run.env.contractId /\ input.manifest = run.embedded
      BY DEF DefaultMainnetReadinessInput
    <3> HIDE DEF input
    <3> QED
      BY <1>1, <2>4, <3>1, PassingReport
  <2> HIDE DEF told, clear
  <2>5. Goal
    BY <1>4, <2>2, <2>3, <2>4
  <2> QED
    BY <2>5 DEF told, BroadcastOnlyWhenReady
<1>5. CASE sample.command = "settle"
  <2> DEFINE input == DefaultMainnetReadinessInput(run.embedded, run.env)
             clear == ~HasBlockingFailures(RunMainnetReadiness(input, run.chain))
  <2>1. told = MainnetSettle(sample)
    BY <1>5 DEF RunCommand
  <2>2. /\ told.sent > 0 => /\ run.execute /\ run.confirmed /\ run.secrets /\ clear
                            /\ ParseSettleAmount(run.chain.locked)
        /\ told.sent \in Nat /\ (told.asked => run.execute)
    <3> DEFINE report == RunMainnetReadiness(input, run.chain)
               stopped == run.execute /\ ~(run.confirmed /\ run.secrets)
               action == IF stopped THEN "refused"
                         ELSE RunMainnetSettleGate(run, report, run.chain.locked)
               ended == run.tx = "ok" /\ run.chain.escrow = 0
               exit == IF action = "dry-run" \/ (action = "send" /\ ended) THEN 0 ELSE 1
               sent == IF action = "send" THEN 1 ELSE 0
               asked == run.execute /\ run.confirmed
    <3>1. told = [exit |-> exit, sent |-> sent, asked |-> asked]
      BY <2>1, Zenon DEF MainnetSettle, Told
    <3>2. action = "send" => /\ run.execute /\ run.confirmed /\ run.secrets /\ clear
                             /\ ParseSettleAmount(run.chain.locked)
      BY DEF RunMainnetSettleGate
    <3>3. asked => run.execute
      OBVIOUS
    <3> HIDE DEF told, action, exit, asked
    <3>4. told.sent = sent
      BY <3>1
    <3>5. told.asked = asked
      BY <3>1, Zenon
    <3>6. (told.sent > 0 => action = "send") /\ told.sent \in Nat
      BY <3>4
    <3> QED
      BY <3>2, <3>3, <3>5, <3>6, Zenon
  <2>3. ASSUME clear PROVE Deployed(sample.embedded, sample)
    <3>1. /\ input.fixture = None /\ input.live = TRUE
          /\ input.contractId = run.env.contractId /\ input.manifest = run.embedded
      BY DEF DefaultMainnetReadinessInput
    <3> HIDE DEF input
    <3> QED
      BY <1>1, <2>3, <3>1, PassingReport
  <2> HIDE DEF told, clear
  <2>4. Goal
    BY <1>5, <2>2, <2>3 DEF ParseSettleAmount
  <2> QED
    BY <2>4 DEF told, BroadcastOnlyWhenReady
<1> QED
  BY <1>2, <1>3, <1>4, <1>5 DEF ReadinessInput
-----------------------------------------------------------------------------
(***************************************************************************)
(* Sealed bids and beacons.                                                 *)
(***************************************************************************)
Damage == Hidden \cup Misnamed \cup {"empty", "over", "chain", "truncated"} \cup ArmorFlaw \cup AgeFlaw

\* Any bid for any round but the last, its ciphertext whole, damaged in one way or another
\* bid's, and any claim of what it is.
SealInput ==
    sample.kind = "seal" =>
        /\ {sample.params.value, sample.params.round, sample.params.reveal, sample.other.value} \subseteq Int
        /\ sample.params.round < MAX_SAFE
        /\ sample.damage \in Damage
        /\ \E nonces : sample.binding \in [value : Int, nonce : nonces, round : Int]

\* Any answer of a replica: its numbers are numbers and its signature is some
\* key's of some round.
BeaconInput ==
    sample.kind = "beacon" =>
        /\ {sample.round, sample.now, sample.info.genesis, sample.info.period} \subseteq Int
        /\ \E keys : sample.beacon.signature \in [round : Int, key : keys]

\* Two's complement loses nothing of what fits (commitment.ts).
LEMMA TwosComplement ==
  ASSUME NEW v \in Int, FitsI128(v)
  PROVE  I128ToBytes(v) \in 0 .. TWO_128 - 1 /\ BytesToI128(I128ToBytes(v)) = v
<1> DEFINE h == TWO_128 \div 2
<1>1. TWO_128 \in Nat \ {0} /\ TWO_128 = 2 * h /\ h \in Nat
  BY SealAssumption
<1> HIDE DEF h
<1>2. v \in -h .. h - 1
  BY DEF FitsI128, h
<1>3. v % TWO_128 = IF v < 0 THEN v + 2 * h ELSE v
  BY <1>1, <1>2
<1> QED
  BY <1>1, <1>2, <1>3 DEF I128ToBytes, BytesToI128, h

\* A commitment matches the value and the nonce it was taken of and no other.
LEMMA OneCommitment ==
  ASSUME NEW v \in Int, FitsI128(v), NEW n, NEW w \in Int, NEW m
  PROVE  CommitmentMatches(w, m, Digest(EncodeBidPreimage(v, n))) <=> w = v /\ m = n /\ n # "short"
<1>1. FitsI128(w) /\ I128ToBytes(w) = I128ToBytes(v) => w = v
  BY TwosComplement
<1>2. Digest(EncodeBidPreimage(v, n)) = Digest(EncodeBidPreimage(w, m))
        <=> I128ToBytes(w) = I128ToBytes(v) /\ m = n
  BY DEF Digest, EncodeBidPreimage
<1> QED
  BY <1>1, <1>2 DEF CommitmentMatches

\* No round counts as out before it is, and a signature is its round's.
LEMMA BeaconOfItsRound ==
  BeaconInput => BeaconIsOfItsRound
<1> SUFFICES ASSUME BeaconInput, sample.kind = "beacon" PROVE BeaconIsOfItsRound
  BY DEF BeaconIsOfItsRound
<1> DEFINE fetched == FetchRoundBeacon(sample.round, sample.beacon, sample.info)
           age == ClassifyDrandRound(sample.round, sample.info, sample.now, 1)
           p == sample.info.period
           r == sample.round
<1>1. ASSUME fetched.ok PROVE fetched.signature = [round |-> sample.round, key |-> sample.info.key]
  <2>1. /\ sample.beacon.signature.round = sample.round
        /\ sample.beacon.signature.key = sample.info.key
        /\ fetched.signature = sample.beacon.signature
    BY <1>1 DEF FetchRoundBeacon, VerifyDrandSignature, Failed
  <2> QED
    BY <2>1 DEF BeaconInput
<1>2. ASSUME age \in {"fresh", "stale"} PROVE sample.now >= PublishedAt(sample.info, sample.round)
  <2>1. p \in Int /\ r \in Int /\ sample.now \in Int /\ sample.info.genesis \in Int
    BY DEF BeaconInput
  <2>2. p >= 1 /\ ~(sample.now < PublishAt(sample.info, r))
    BY <1>2, <2>1 DEF ClassifyDrandRound
  <2>3. p * r = p * (r - 1) + p
    BY <2>1
  <2>4. p * r \in Int /\ p * (r - 1) \in Int
    BY <2>1
  <2> HIDE DEF p, r
  <2>5. ~(sample.now < sample.info.genesis + p * r)
    BY <2>2 DEF PublishAt, p
  <2>6. sample.now >= sample.info.genesis + p * (r - 1)
    BY <2>1, <2>2, <2>3, <2>4, <2>5
  <2> QED
    BY <2>6 DEF PublishedAt, p, r
<1> QED
  BY <1>1, <1>2 DEF BeaconIsOfItsRound

\* What sealBid hands out.
LEMMA SealedIs ==
  ASSUME NEW p, SealBid(p).ok
  PROVE  /\ FitsI128(p.value) /\ p.nonce # "short"
         /\ p.round = p.reveal /\ ~IsMalformedRound(p.round)
         /\ SealBid(p).auditorBlob.frame \in {"empty", "whole"}
         /\ SealBid(p) = [ok |-> TRUE,
                          commitment |-> Digest(EncodeBidPreimage(p.value, p.nonce)),
                          sealRound |-> p.round,
                          ciphertext |-> TimelockEncrypt(EncodeBidPreimage(p.value, p.nonce), p.round),
                          auditorBlob |-> SealBid(p).auditorBlob]
<1> DEFINE preimage == EncodeBidPreimage(p.value, p.nonce)
           box == AuditorBlob(p, Digest(preimage))
           may == /\ p.ids /\ p.nonce # "short" /\ FitsI128(p.value)
                  /\ SealRoundInWindow(p.round, p.reveal)
                  /\ box.ok
           out == [ok |-> TRUE, commitment |-> Digest(preimage), sealRound |-> p.round,
                   ciphertext |-> TimelockEncrypt(preimage, p.round), auditorBlob |-> box.blob]
<1>1. may /\ SealBid(p) = out
  <2>1. SealBid(p) = IF may THEN out ELSE Failed
    BY Zenon DEF SealBid
  <2> HIDE DEF may
  <2> QED
    BY <2>1 DEF Failed
<1>2. /\ FitsI128(p.value) /\ p.nonce # "short"
      /\ p.round = p.reveal /\ ~IsMalformedRound(p.round)
  BY <1>1 DEF SealRoundInWindow
<1>3. box.blob.frame \in {"empty", "whole"}
  BY <1>1 DEF AuditorBlob, SealIdentityForBidder, SealIdentity, Failed
<1> HIDE DEF box, preimage
<1>4. SealBid(p).auditorBlob = box.blob
  BY <1>1
<1> QED
  BY <1>1, <1>2, <1>3, <1>4, Zenon DEF preimage

\* What the parser makes of a ciphertext, by what happened to it.
LEMMA ParsedIs ==
  ASSUME NEW plain, plain.kind = "bid", NEW r \in Int, ~IsMalformedRound(r), NEW damage \in Damage, NEW other,
         NEW c, c = Damaged(TimelockEncrypt(plain, r), damage, other)
  PROVE  LET header == ParseSealedPayload(c)
         IN  /\ damage \in Hidden \cup Misnamed \cup {"chain"} /\ ~IsMalformedRound(c.round) =>
                  /\ c.size = "fits" /\ header.ok /\ header.isBid
                  /\ header.round = c.round /\ header.chain = c.chain
             /\ damage \notin Hidden \cup Misnamed \cup {"chain"} =>
                  c.size # "fits" \/ ~(header.ok /\ header.isBid)
             /\ IsMalformedRound(c.round) => ~header.ok
             /\ c.chain = QUICKNET <=> damage # "chain"
             /\ c.round = IF damage \in Misnamed THEN r + 1 ELSE r
<1> DEFINE header == ParseSealedPayload(c)
<1>1. \A p, q : /\ TimelockEncrypt(p, q).flaw = "none" /\ TimelockEncrypt(p, q).round = q
               /\ TimelockEncrypt(p, q).chain = QUICKNET /\ TimelockEncrypt(p, q).plain = p
               /\ TimelockEncrypt(p, q).size = "fits"
  BY DEF TimelockEncrypt
<1>2. \A v, n : EncodeBidPreimage(v, n).kind = "bid"
  BY DEF EncodeBidPreimage
<1>3. header.ok => header.isBid = (c.flaw # "truncated" /\ c.plain.kind = "bid")
                   /\ header.round = c.round /\ header.chain = c.chain
  BY DEF ParseSealedPayload, ParseAgePayload, Failed
<1>4. header.ok <=> c.flaw \notin ArmorFlaw \cup AgeFlaw /\ ~IsMalformedRound(c.round)
  BY DEF ParseSealedPayload, ParseAgePayload, Failed
<1>5. CASE damage \in Hidden \cup Misnamed \cup {"chain"}
  <2>1. c.flaw \in {"none", "body"} /\ c.size = "fits" /\ c.plain.kind = "bid"
    BY <1>1, <1>2, <1>5 DEF Damaged, TimelockEncrypt, Hidden, Misnamed
  <2>2. c.chain = QUICKNET <=> damage # "chain"
    BY <1>1, <1>5 DEF Damaged, TimelockEncrypt, Hidden, Misnamed, QUICKNET
  <2>3. c.round = IF damage \in Misnamed THEN r + 1 ELSE r
    BY <1>1, <1>5 DEF Damaged, TimelockEncrypt, Hidden, Misnamed
  <2> QED
    BY <1>3, <1>4, <1>5, <2>1, <2>2, <2>3 DEF ArmorFlaw, AgeFlaw
<1>6. CASE damage \in {"empty", "over"}
  <2>1. c.size # "fits" /\ c.round = r /\ c.chain = QUICKNET
    BY <1>6 DEF Damaged, TimelockEncrypt
  <2> QED
    BY <1>4, <1>6, <2>1 DEF Hidden, Misnamed
<1>7. CASE damage \in {"truncated"} \cup ArmorFlaw \cup AgeFlaw
  <2>1. c.flaw = damage /\ c.round = r /\ c.chain = QUICKNET
    BY <1>7 DEF Damaged, TimelockEncrypt, ArmorFlaw, AgeFlaw
  <2>2. damage \notin Hidden \cup Misnamed \cup {"chain"}
    BY <1>7 DEF Hidden, Misnamed, ArmorFlaw, AgeFlaw
  <2> QED
    BY <1>3, <1>4, <1>7, <2>1, <2>2 DEF Misnamed
<1> QED
  BY <1>5, <1>6, <1>7 DEF Damage

\* What opens does so with the signature of the round its header names, and what
\* the header does not tell the truth of does not open.
LEMMA OpensInItsRound ==
  ASSUME NEW plain, NEW r \in Int, NEW damage \in Damage, NEW other, NEW out,
         NEW c, c = Damaged(TimelockEncrypt(plain, r), damage, other), OpenBid(c, out).ok
  PROVE  /\ c.round \in out /\ damage \notin {"body", "round", "chain"}
         /\ c.plain.kind = "bid"
         /\ OpenBid(c, out) = [ok |-> TRUE, value |-> BytesToI128(c.plain.value), nonce |-> c.plain.nonce]
<1>1. TimelockDecrypt(c, out).ok /\ OpenBid(c, out) = DecodeBidPreimage(TimelockDecrypt(c, out).plain)
  BY DEF OpenBid, Failed
<1>2. /\ c.flaw = "none" /\ c.chain = QUICKNET /\ c.round \in out /\ c.locked = c.round
      /\ TimelockDecrypt(c, out).plain = c.plain
  BY <1>1 DEF TimelockDecrypt, Failed
<1>3. damage # "body" /\ damage # "chain"
  BY <1>2 DEF Damaged, TimelockEncrypt, QUICKNET
<1>4. ASSUME damage = "round" PROVE FALSE
  <2>1. c.round = r + 1 /\ c.locked = r
    BY <1>4 DEF Damaged, TimelockEncrypt
  <2> QED
    BY <1>2, <2>1
<1>5. /\ c.plain.kind = "bid"
      /\ OpenBid(c, out) = [ok |-> TRUE, value |-> BytesToI128(c.plain.value), nonce |-> c.plain.nonce]
  <2> HIDE DEF OpenBid
  <2>1. DecodeBidPreimage(c.plain).ok
    BY <1>1, <1>2
  <2> QED
    BY <1>1, <1>2, <2>1 DEF DecodeBidPreimage, Failed
<1> QED
  BY <1>2, <1>3, <1>4, <1>5

\* The gate lets through what it can tell is the bid's, and what is opened and
\* matches is the bid (seal.ts, encrypted-blob.ts, quicknet.ts).
THEOREM SealsOpenToTheirBids ==
  SealInput /\ BeaconInput => SealOpensToTheBid
<1> SUFFICES ASSUME SealInput, BeaconInput PROVE SealOpensToTheBid
  OBVIOUS
<1>1. BeaconIsOfItsRound
  BY BeaconOfItsRound
<1> DEFINE p == sample.params
           sealed == SealBid(p)
           damage == sample.damage
           binding == sample.binding
           damaged == [sealed EXCEPT !.ciphertext = Damaged(@, damage, sample.other)]
           c == damaged.ciphertext
           bid == OpenBid(c, {c.round})
           matches == bid.ok /\ CommitmentMatches(bid.value, bid.nonce, damaged.commitment)
           named == [value |-> p.value, nonce |-> p.nonce, round |-> c.round]
           preimage == EncodeBidPreimage(p.value, p.nonce)
           whole == TimelockEncrypt(preimage, p.round)
<1>2. ASSUME sample.kind = "seal", sealed.ok
      PROVE  /\ FitsI128(p.value) /\ p.round = p.reveal
             /\ AssertSealedBid(damaged, {binding}).ok <=>
                  damage \in Hidden \cup Misnamed /\ binding = named
             /\ AssertSealedBid(damaged, {}).ok <=> damage \in Hidden \cup Misnamed \cup {"chain"}
             /\ \A out \in {{}, {p.reveal}, {p.reveal + 1}} :
                  OpenBid(c, out).ok => c.round \in out /\ damage \notin {"body", "round", "chain"}
             /\ matches => bid.value = p.value
             /\ damage = "none" => matches /\ ContractCommits(damaged, p.reveal)
  <2>1. p.value \in Int /\ p.round \in Int /\ damage \in Damage
        /\ p.round < MAX_SAFE /\ sample.other.value \in Int
    BY <1>2 DEF SealInput
  <2>2. PICK nonces : binding \in [value : Int, nonce : nonces, round : Int]
    BY <1>2 DEF SealInput
  <2>3. /\ FitsI128(p.value) /\ p.nonce # "short"
        /\ p.round = p.reveal /\ ~IsMalformedRound(p.round)
        /\ sealed.auditorBlob.frame \in {"empty", "whole"}
        /\ sealed = [ok |-> TRUE, commitment |-> Digest(preimage), sealRound |-> p.round,
                     ciphertext |-> whole, auditorBlob |-> sealed.auditorBlob]
    BY <1>2, SealedIs
  <2> HIDE DEF sealed, preimage
  <2>4. /\ damaged.commitment = Digest(preimage) /\ damaged.sealRound = p.round
        /\ c = Damaged(whole, damage, sample.other) /\ damaged.auditorBlob.frame \in {"empty", "whole"}
        /\ damaged.ok = TRUE
    BY <2>3
  <2> HIDE DEF damaged
  <2>5. preimage.kind = "bid" /\ preimage.value = I128ToBytes(p.value) /\ preimage.nonce = p.nonce
    BY DEF preimage, EncodeBidPreimage
  <2>6. CommitmentMatches(binding.value, binding.nonce, damaged.commitment)
          <=> binding.value = p.value /\ binding.nonce = p.nonce
    BY <2>1, <2>2, <2>3, <2>4, OneCommitment DEF preimage
  <2> DEFINE header == ParseSealedPayload(c)
             seen == damage \in Hidden \cup Misnamed \cup {"chain"}
  <2>7. /\ seen /\ ~IsMalformedRound(c.round) =>
               /\ c.size = "fits" /\ header.ok /\ header.isBid
               /\ header.round = c.round /\ header.chain = c.chain
        /\ ~seen => c.size # "fits" \/ ~(header.ok /\ header.isBid)
        /\ IsMalformedRound(c.round) => ~header.ok
        /\ c.chain = QUICKNET <=> damage # "chain"
        /\ c.round = IF damage \in Misnamed THEN p.round + 1 ELSE p.round
    BY <2>1, <2>3, <2>4, <2>5, ParsedIs
  <2> HIDE DEF header, c
  <2>8. ValidateSealedBid(damaged, {}) <=> seen
    <3>1. ValidateSealedBid(damaged, {}) <=> c.size = "fits" /\ header.ok /\ header.isBid
      BY <2>4 DEF ValidateSealedBid, ValidateEncryptedBlob, Decodes, header, c
    <3>2. ~IsMalformedRound(c.round)
      BY <2>1, <2>3, <2>7, SealAssumption DEF IsMalformedRound
    <3> QED
      BY <2>7, <3>1, <3>2
  <2>9. ValidateSealedBid(damaged, {binding})
          <=> ValidateSealedBid(damaged, {}) /\ SealBoundTo(header, damaged, binding)
    BY DEF ValidateSealedBid, header, c
  <2>10. binding = named <=> binding.round = c.round /\ binding.value = p.value /\ binding.nonce = p.nonce
    BY <2>2
  <2>11. ASSUME NEW bindings
         PROVE  AssertSealedBid(damaged, bindings).ok <=> ValidateSealedBid(damaged, bindings)
    BY <2>4 DEF AssertSealedBid, Failed
  <2>12. ASSUME NEW out, OpenBid(c, out).ok
         PROVE  /\ c.round \in out /\ damage \notin {"body", "round", "chain"}
                /\ OpenBid(c, out) = [ok |-> TRUE, value |-> BytesToI128(c.plain.value), nonce |-> c.plain.nonce]
    <3>1. \A w, r, d, other, t :
            /\ r \in Int /\ d \in Damage /\ t = Damaged(TimelockEncrypt(w, r), d, other) /\ OpenBid(t, out).ok
            => /\ t.round \in out /\ d \notin {"body", "round", "chain"}
               /\ OpenBid(t, out) = [ok |-> TRUE, value |-> BytesToI128(t.plain.value), nonce |-> t.plain.nonce]
      BY OpensInItsRound
    <3>2. p.round \in Int /\ damage \in Damage /\ c = Damaged(whole, damage, sample.other) /\ OpenBid(c, out).ok
      BY <2>1, <2>4, <2>12
    <3> QED
      BY <3>1, <3>2, Zenon
  <2>13. ASSUME matches PROVE bid.value = p.value
    <3>1. bid.value = BytesToI128(c.plain.value)
      <4>1. bid.ok
        BY <2>13
      <4> QED
        BY <2>12, <4>1
    <3>2. \/ c.plain = preimage
          \/ c.plain.value = I128ToBytes(sample.other.value)
      BY <2>4 DEF Damaged, TimelockEncrypt, EncodeBidPreimage, c
    <3>3. bid.value \in Int
      <4>1. c.plain.value \in Int
        BY <2>1, <2>5, <3>2, SealAssumption DEF I128ToBytes
      <4> QED
        BY <3>1, <4>1, SealAssumption DEF BytesToI128
    <3>4. CommitmentMatches(bid.value, bid.nonce, damaged.commitment)
      BY <2>13
    <3> HIDE DEF bid
    <3> QED
      BY <2>1, <2>3, <2>4, <3>3, <3>4, OneCommitment DEF preimage
  <2>14. ASSUME damage = "none" PROVE matches /\ ContractCommits(damaged, p.reveal)
    <3>1. /\ c.flaw = "none" /\ c.chain = QUICKNET /\ c.round = p.reveal /\ c.locked = c.round
          /\ c.plain = preimage /\ c.size = "fits"
      BY <2>3, <2>4, <2>14 DEF Damaged, TimelockEncrypt, c
    <3>2. ContractCommits(damaged, p.reveal)
      BY <2>3, <2>4, <3>1 DEF ContractCommits, c
    <3>3. bid = [ok |-> TRUE, value |-> BytesToI128(I128ToBytes(p.value)), nonce |-> p.nonce]
      BY <2>5, <3>1 DEF OpenBid, TimelockDecrypt, DecodeBidPreimage
    <3>4. BytesToI128(I128ToBytes(p.value)) = p.value
      BY <2>1, <2>3, TwosComplement
    <3> HIDE DEF bid
    <3>5. bid.ok = TRUE /\ bid.value = p.value /\ bid.nonce = p.nonce
      BY <3>3, <3>4
    <3>6. CommitmentMatches(bid.value, bid.nonce, damaged.commitment)
      BY <2>1, <2>3, <2>4, <3>5, OneCommitment DEF preimage
    <3> QED
      BY <3>2, <3>5, <3>6
  <2>15. AssertSealedBid(damaged, {binding}).ok
           <=> damage \in Hidden \cup Misnamed /\ binding = named
    <3>1. ASSUME seen
          PROVE  SealBoundTo(header, damaged, binding)
                   <=> damage # "chain" /\ binding.round = c.round
                       /\ binding.value = p.value /\ binding.nonce = p.nonce
      <4>1. header.round = c.round /\ header.chain = c.chain
        <5>1. ~IsMalformedRound(c.round)
          BY <2>1, <2>3, <2>7, SealAssumption DEF IsMalformedRound
        <5> QED
          BY <2>7, <3>1, <5>1
      <4> QED
        BY <2>6, <2>7, <4>1 DEF SealBoundTo
    <3>2. seen /\ damage # "chain" <=> damage \in Hidden \cup Misnamed
      BY DEF Hidden, Misnamed
    <3> HIDE DEF seen
    <3> QED
      BY <2>8, <2>9, <2>10, <2>11, <3>1, <3>2
  <2> HIDE DEF bid
  <2> QED
    BY <2>3, <2>8, <2>11, <2>12, <2>13, <2>14, <2>15
<1> QED
  BY <1>1, <1>2 DEF SealOpensToTheBid
-----------------------------------------------------------------------------
(***************************************************************************)
(* Structured payloads.                                                     *)
(***************************************************************************)
\* Bytes of an envelope's form with any fields, and any envelope to be sealed.
PayloadInput ==
    sample.kind = "payload" =>
        /\ \E nonces : sample.bytes \in
              [kind : {"envelope"}, magic : BOOLEAN, version : Nat, flags : Nat, reserved : Nat,
               amount : 0 .. TWO_128 - 1, nonce : nonces, declared : Nat, payload : Nat]
        /\ sample.envelope.amount \in {None} \cup Int /\ sample.envelope.payload \in Nat

\* Every 128 bits are the two's complement of what they read as.
LEMMA TwosComplementBack ==
  ASSUME NEW u \in 0 .. TWO_128 - 1
  PROVE  BytesToI128(u) \in Int /\ I128ToBytes(BytesToI128(u)) = u
<1> DEFINE h == TWO_128 \div 2
<1>1. TWO_128 \in Nat \ {0} /\ TWO_128 = 2 * h /\ h \in Nat
  BY SealAssumption
<1> HIDE DEF h
<1>2. u % TWO_128 = u /\ (u - TWO_128) % TWO_128 = u
  BY <1>1
<1> QED
  BY <1>1, <1>2 DEF I128ToBytes, BytesToI128

\* A payload has one encoding, the one that was committed (payload.ts).
THEOREM PayloadsHaveOneEncoding ==
  PayloadInput => PayloadIsCommitted
<1> SUFFICES ASSUME PayloadInput, sample.kind = "payload" PROVE PayloadIsCommitted
  BY DEF PayloadIsCommitted
<1> DEFINE b == sample.bytes
           e == sample.envelope
           p == sample.params
           opened == DecodeEnvelope(b)
           sealed == SealPayload(p, e)
           content == [amount |-> opened.amount, nonce |-> opened.nonce, payload |-> opened.payload]
<1>1. ASSUME opened.ok PROVE EncodeEnvelope(content) = b
  <2>1. PICK nonces : b \in
              [kind : {"envelope"}, magic : BOOLEAN, version : Nat, flags : Nat, reserved : Nat,
               amount : 0 .. TWO_128 - 1, nonce : nonces, declared : Nat, payload : Nat]
    BY DEF PayloadInput
  <2>2. /\ b.magic /\ b.version = 1 /\ b.reserved = 0 /\ b.payload = b.declared
        /\ b.flags = 1 \/ (b.flags = 0 /\ b.amount = 0)
        /\ opened.amount = IF b.flags = 1 THEN BytesToI128(b.amount) ELSE None
        /\ opened.nonce = b.nonce /\ opened.payload = b.payload
    BY <1>1, <2>1 DEF DecodeEnvelope, Failed
  <2> HIDE DEF opened
  <2>3. b = [kind |-> "envelope", magic |-> TRUE, version |-> 1, flags |-> b.flags, reserved |-> 0,
             amount |-> b.amount, nonce |-> b.nonce, declared |-> b.payload, payload |-> b.payload]
    BY <2>1, <2>2
  <2>4. /\ b.flags = 1 => opened.amount # None /\ I128ToBytes(opened.amount) = b.amount
        /\ b.flags = 0 => opened.amount = None
    <3>1. b.amount \in 0 .. TWO_128 - 1
      BY <2>1
    <3> QED
      BY <2>2, <3>1, TwosComplementBack, NoneAssumption
  <2>5. /\ (IF opened.amount = None THEN 0 ELSE 1) = b.flags
        /\ (IF opened.amount = None THEN 0 ELSE I128ToBytes(opened.amount)) = b.amount
    BY <2>2, <2>4
  <2> HIDE DEF b
  <2>6. EncodeEnvelope(content) =
          [kind |-> "envelope", magic |-> TRUE, version |-> 1, flags |-> b.flags, reserved |-> 0,
           amount |-> b.amount, nonce |-> b.nonce, declared |-> b.payload, payload |-> b.payload]
    BY <2>2, <2>5 DEF EncodeEnvelope
  <2> QED
    BY <2>3, <2>6
<1>2. ASSUME EnvelopeAccepted(e), sealed.ok
      PROVE  /\ OpenPayload(sealed.ciphertext, {sealed.sealRound}) =
                  [ok |-> TRUE, amount |-> e.amount, nonce |-> e.nonce, payload |-> e.payload]
             /\ ~OpenBid(sealed.ciphertext, {sealed.sealRound}).ok
  <2> DEFINE bytes == EncodeEnvelope(e)
  <2>1. sealed.ciphertext = TimelockEncrypt(bytes, p.round) /\ sealed.sealRound = p.round
    <3> DEFINE box == AuditorBlob(p, Digest(bytes))
               may == IdsAccepted(p) /\ EnvelopeAccepted(e) /\ box.ok
               out == [ok |-> TRUE, commitment |-> Digest(bytes), sealRound |-> p.round,
                       ciphertext |-> TimelockEncrypt(bytes, p.round), auditorBlob |-> box.blob]
    <3>1. sealed = IF may THEN out ELSE Failed
      BY Zenon DEF SealPayload
    <3> HIDE DEF may, box, sealed, bytes
    <3> QED
      BY <1>2, <3>1 DEF Failed
  <2> HIDE DEF sealed
  <2>2. TimelockDecrypt(sealed.ciphertext, {sealed.sealRound}) = [ok |-> TRUE, plain |-> bytes]
    <3> HIDE DEF bytes
    <3> QED
      BY <2>1 DEF TimelockDecrypt, TimelockEncrypt
  <2>3. bytes.kind = "envelope"
    BY DEF EncodeEnvelope
  <2>4. DecodeEnvelope(bytes) =
          [ok |-> TRUE, amount |-> e.amount, nonce |-> e.nonce, payload |-> e.payload]
    <3>1. ~(e.payload > MAX_PAYLOAD)
      BY <1>2, SealAssumption DEF EnvelopeAccepted, PayloadInput
    <3>2. /\ bytes.magic = TRUE /\ bytes.version = 1 /\ bytes.reserved = 0 /\ bytes.nonce = e.nonce
          /\ bytes.declared = e.payload /\ bytes.payload = e.payload
          /\ e.amount = None => bytes.flags = 0 /\ bytes.amount = 0
          /\ e.amount # None => bytes.flags = 1 /\ bytes.amount = I128ToBytes(e.amount)
      BY DEF EncodeEnvelope
    <3>3. e.amount # None => BytesToI128(I128ToBytes(e.amount)) = e.amount
      BY <1>2, TwosComplement DEF EnvelopeAccepted, PayloadInput
    <3> HIDE DEF bytes
    <3>4. DecodeEnvelope(bytes) =
            [ok |-> TRUE, amount |-> IF bytes.flags = 1 THEN BytesToI128(bytes.amount) ELSE None,
             nonce |-> bytes.nonce, payload |-> bytes.payload]
      BY <2>3, <3>1, <3>2 DEF DecodeEnvelope
    <3>5. (IF bytes.flags = 1 THEN BytesToI128(bytes.amount) ELSE None) = e.amount
      BY <3>2, <3>3
    <3> QED
      BY <3>2, <3>4, <3>5
  <2> HIDE DEF bytes
  <2>5. ~OpenBid(sealed.ciphertext, {sealed.sealRound}).ok
    BY <2>2, <2>3 DEF OpenBid, DecodeBidPreimage, Failed
  <2>6. OpenPayload(sealed.ciphertext, {sealed.sealRound}) = DecodeEnvelope(bytes)
    BY <2>2 DEF OpenPayload
  <2> QED
    BY <2>4, <2>5, <2>6, Zenon
<1> QED
  BY <1>1, <1>2 DEF PayloadIsCommitted
-----------------------------------------------------------------------------
(***************************************************************************)
(* Auditor blobs.                                                           *)
(***************************************************************************)
\* A blob that is missing, cut short, or sealed to some key around an identity
\* that is bare or bound to a round of 32 bits and a commitment.
IdentityBlob(blob) ==
    \/ blob = [frame |-> "missing"] \/ blob = [frame |-> "short"]
    \/ \E key, identity : blob = SealIdentity(Bare(identity), key)
    \/ \E key, identity, commitment : \E round \in 0 .. MAX_U32 :
          blob = SealIdentity(EncodeBound(identity, round, commitment), key)

\* Any number of blobs under any labels, in one of the three shapes of a file; a
\* round is a number or not given.
AuditorInput ==
    sample.kind = "auditor" =>
        /\ sample.args.round \in Nat \cup {None}
        /\ sample.doc.shape \in {"blobs", "bidders", "auditor"}
        /\ \A label \in DOMAIN sample.doc.blobs : IdentityBlob(sample.doc.blobs[label])
        /\ \A label \in DOMAIN sample.doc.own : IdentityBlob(sample.doc.own[label])

\* The auditor holds the key and, of a blob that is bound, named its bid.
Entitled(blob, args) ==
    /\ blob.frame = "whole" /\ blob.key = args.key
    /\ IF args.round = None THEN ~blob.plain.bound
       ELSE /\ blob.plain.bound
            /\ blob.plain.round = args.round
            /\ blob.plain.commitment = args.commitment

\* One row of the recovery tool.
LEMMA RecoveredRow ==
  ASSUME NEW blob, IdentityBlob(blob), NEW args, args.round \in Nat \cup {None}
  PROVE  RecoverRow(blob, args.key, Expected(args)).ok <=> Entitled(blob, args)
<1> DEFINE key == args.key
           round == args.round
           commitment == args.commitment
           expected == Expected(args)
           row == RecoverRow(blob, key, expected)
           box == OpenIdentity(blob, key)
           opened == DecodeBound(blob.plain)
<1>1. CASE blob.frame # "whole" \/ blob.key # key
  <2>1. ~box.ok /\ box = Failed
    BY <1>1 DEF OpenIdentity, DecodeIdentityBlob, Failed
  <2>2. ~row.ok
    BY <2>1 DEF RecoverRow, OpenIdentityForBidder, Failed
  <2> QED
    BY <1>1, <2>2 DEF Entitled
<1>2. CASE blob.frame = "whole" /\ blob.key = key
  <2>1. box = [ok |-> TRUE, plain |-> blob.plain]
    BY <1>2 DEF OpenIdentity, DecodeIdentityBlob
  <2>2. \/ blob.plain.bound = FALSE /\ opened.ok = FALSE
        \/ /\ blob.plain.bound = TRUE /\ opened.ok = TRUE
           /\ opened.round = blob.plain.round /\ opened.commitment = blob.plain.commitment
           /\ blob.plain.round \in 0 .. MAX_U32
    <3>1. CASE \E k, identity : blob = SealIdentity(Bare(identity), k)
      <4>1. PICK k, identity : blob = SealIdentity(Bare(identity), k)
        BY <3>1
      <4>2. blob.plain.bound = FALSE
        BY <4>1 DEF SealIdentity, Bare
      <4>3. opened = Failed
        BY <4>2 DEF DecodeBound
      <4>4. opened.ok = FALSE
        BY <4>3 DEF Failed
      <4> HIDE DEF opened
      <4> QED
        BY <4>2, <4>4
    <3>2. CASE \E k, identity, c : \E r \in 0 .. MAX_U32 :
                  blob = SealIdentity(EncodeBound(identity, r, c), k)
      <4>1. PICK k, identity, c : \E r \in 0 .. MAX_U32 :
                  blob = SealIdentity(EncodeBound(identity, r, c), k)
        BY <3>2
      <4>2. PICK r \in 0 .. MAX_U32 : blob = SealIdentity(EncodeBound(identity, r, c), k)
        BY <4>1
      <4>3. /\ blob.plain.bound = TRUE /\ blob.plain.version = 1 /\ blob.plain.declared = "exact"
            /\ blob.plain.round = r /\ ~(r > MAX_U32)
        BY <4>2, SealAssumption DEF SealIdentity, EncodeBound
      <4>4. opened = [ok |-> TRUE, identity |-> blob.plain.identity, round |-> blob.plain.round,
                      commitment |-> blob.plain.commitment]
        BY <4>3 DEF DecodeBound
      <4> HIDE DEF opened
      <4>5. opened.ok = TRUE /\ opened.round = blob.plain.round
            /\ opened.commitment = blob.plain.commitment
        BY <4>4
      <4> QED
        BY <4>3, <4>5
    <3>3. blob # [frame |-> "missing"] /\ blob # [frame |-> "short"]
      BY <1>2
    <3> HIDE DEF opened
    <3> QED
      BY <3>1, <3>2, <3>3, Zenon DEF IdentityBlob
  <2> HIDE DEF box, opened
  <2>3. CASE round = None
    <3>1. expected = Failed
      BY <2>3 DEF Expected
    <3>2. IsIdentityBound(blob, key) <=> opened.ok
      BY <2>1 DEF IsIdentityBound, box, opened
    <3>3. row.ok <=> ~opened.ok
      BY <1>2, <2>1, <3>1, <3>2 DEF RecoverRow, box, Failed
    <3> QED
      BY <1>2, <2>2, <2>3, <3>3 DEF Entitled
  <2>4. CASE round # None
    <3>1. expected = [ok |-> TRUE, round |-> round, commitment |-> commitment]
      BY <2>4 DEF Expected
    <3>2. expected # Failed
      <4>1. expected.ok = TRUE /\ Failed.ok = FALSE
        BY <3>1 DEF Failed
      <4> QED
        BY <4>1
    <3>3. row = OpenIdentityForBidder(blob, key, expected)
      BY <1>2, <3>2 DEF RecoverRow
    <3>4. row.ok <=> /\ ~(round > MAX_U32) /\ opened.ok
                     /\ opened.round = round /\ opened.commitment = commitment
      <4>1. CASE round > MAX_U32
        BY <3>1, <3>3, <4>1 DEF OpenIdentityForBidder, Failed
      <4>2. CASE ~(round > MAX_U32)
        <5>1. row = IF opened.ok /\ opened.round = round /\ opened.commitment = commitment
                    THEN opened ELSE Failed
          BY <2>1, <3>1, <3>3, <4>2 DEF OpenIdentityForBidder, box, opened
        <5> QED
          BY <4>2, <5>1 DEF Failed
      <4> QED
        BY <4>1, <4>2
    <3> QED
      BY <1>2, <2>2, <2>4, <3>4, SealAssumption DEF Entitled
  <2> QED
    BY <2>3, <2>4
<1> QED
  BY <1>1, <1>2

\* The recovery tool tells an identity to its bid's auditor only
\* (auditor-recovery-cli.ts, auditor.ts).
THEOREM IdentitiesStayWithTheirBids ==
  AuditorInput => IdentityOnlyToItsBid
<1> SUFFICES ASSUME AuditorInput, sample.kind = "auditor", ArgsAccepted(sample.args)
             PROVE  IdentityOnlyToItsBid
  BY DEF IdentityOnlyToItsBid
<1> DEFINE args == sample.args
           doc == sample.doc
           entries == ExtractBlobs(doc)
           rows == RunAuditorRecoveryCli(args, doc)
<1>1. \A label \in DOMAIN entries : IdentityBlob(entries[label])
  <2>1. CASE doc.shape = "blobs"
    BY <2>1 DEF AuditorInput, ExtractBlobs
  <2>2. CASE doc.shape = "bidders"
    BY <2>2 DEF AuditorInput, ExtractBlobs
  <2>3. CASE doc.shape = "auditor"
    BY <2>3 DEF AuditorInput, ExtractBlobs, IdentityBlob
  <2> QED
    BY <2>1, <2>2, <2>3 DEF AuditorInput
<1>2. rows = [label \in DOMAIN entries |-> RecoverRow(entries[label], args.key, Expected(args))]
  BY DEF RunAuditorRecoveryCli
<1>3. args.round \in Nat \cup {None}
  BY DEF AuditorInput
<1> HIDE DEF entries, rows
<1>4. ASSUME NEW label \in DOMAIN entries
      PROVE  rows[label].ok <=> Entitled(entries[label], args)
  <2>1. rows[label] = RecoverRow(entries[label], args.key, Expected(args))
    BY <1>2
  <2> QED
    BY <1>1, <1>3, <2>1, RecoveredRow
<1> QED
  BY <1>4 DEF IdentityOnlyToItsBid, Entitled, entries, rows
-----------------------------------------------------------------------------
(***************************************************************************)
(* The client's calls.                                                      *)
(***************************************************************************)
\* Any client and call, over a network that answers in one of the modelled ways;
\* the times are whole numbers, and a sleep is never shorter than asked.
SubmitInput ==
    sample.kind = "submit" =>
        LET config == sample.config
            params == sample.params
            world == sample.world
        IN  /\ config.confirmTimeout \in Int /\ config.pollInterval \in Int /\ world.late \in Nat
            /\ world.lands \in Int \cup {None} /\ world.rpcFails \in Int \cup {None}
            /\ {config.relayed, params.sealed, params.sealRound, world.value} \subseteq BOOLEAN
            /\ world.simulated \in {"accepted", "rejected", "transport", "restore"}
            /\ world.status \in {"SUCCESS", "FAILED"}

\* A set of naturals has a least element, and Min is it.
LEMMA MinIsLeast ==
  ASSUME NEW S \in SUBSET Nat, S # {}
  PROVE  Min(S) \in S /\ \A x \in S : Min(S) <= x
<1> DEFINE R == {p \in Nat \X Nat : p[1] < p[2]}
<1>1. IsWellFoundedOn(R, Nat)
  BY NatLessThanWellFounded DEF OpToRel
<1> HIDE DEF R
<1>2. PICK x \in S : \A y \in S : ~ (<<y, x>> \in R)
  BY <1>1, WFMin
<1>3. ASSUME NEW y \in S PROVE x <= y
  <2>1. x \in Nat /\ y \in Nat /\ ~ (<<y, x>> \in R)
    BY <1>2
  <2>2. ~(y < x)
    BY <2>1 DEF R
  <2> QED
    BY <2>1, <2>2
<1> QED
  BY <1>3 DEF Min

\* A set of naturals with a bound has a greatest element, and Max is in the set.
LEMMA MaxIsMember ==
  ASSUME NEW n \in Nat, NEW S \in SUBSET (0 .. n), S # {}
  PROVE  Max(S) \in S
<1> DEFINE T == {n - x : x \in S}
<1>1. T \in SUBSET Nat /\ T # {}
  <2>1. \A x \in S : x \in 0 .. n /\ n - x \in Nat
    OBVIOUS
  <2> QED
    BY <2>1
<1>2. Min(T) \in T /\ \A y \in T : Min(T) <= y
  BY <1>1, MinIsLeast
<1> HIDE DEF T
<1>3. PICK x \in S : Min(T) = n - x
  BY <1>2 DEF T
<1>4. \A y \in S : n - y \in T
  BY DEF T
<1>5. \A y \in S : x >= y
  BY <1>2, <1>3, <1>4
<1> QED
  BY <1>5 DEF Max

\* The first error is one of the errors, and none when there is none.
LEMMA FirstErrorIsOne ==
  ASSUME NEW n \in Nat, NEW errors, DOMAIN errors = 1 .. n
  PROVE  /\ FirstError(errors) = "none" <=> \A i \in 1 .. n : errors[i] = "none"
         /\ \/ FirstError(errors) = "none"
            \/ \E i \in 1 .. n : FirstError(errors) = errors[i]
<1> DEFINE bad == {i \in 1 .. n : errors[i] # "none"}
<1>1. FirstError(errors) = IF bad = {} THEN "none" ELSE errors[Min(bad)]
  BY DEF FirstError
<1>2. CASE bad = {}
  <2>1. FirstError(errors) = "none"
    BY <1>1, <1>2
  <2> QED
    BY <1>2, <2>1
<1>3. CASE bad # {}
  <2>1. bad \in SUBSET Nat
    OBVIOUS
  <2>2. Min(bad) \in bad
    BY <1>3, <2>1, MinIsLeast
  <2> HIDE DEF bad
  <2>3. FirstError(errors) = errors[Min(bad)]
    BY <1>1, <1>3
  <2>4. Min(bad) \in 1 .. n /\ errors[Min(bad)] # "none"
    BY <2>2 DEF bad
  <2> QED
    BY <2>3, <2>4
<1> QED
  BY <1>2, <1>3

\* What ended the wait is what the chain, or RPC, said at some poll.
LEMMA FinalityIsSeen ==
  ASSUME NEW config, NEW world, config.confirmTimeout \in Nat \ {0},
         config.pollInterval \in Nat \ {0}, world.late \in Nat, world.value \in BOOLEAN,
         world.lands \in Int \cup {None}, world.rpcFails \in Int \cup {None},
         world.status \in {"SUCCESS", "FAILED"}
  PROVE  LET end == AwaitFinality(config, world)
             polls == PollTimes(config, world)
         IN  /\ end \in {"none", "MissingReturnValue", "Transaction", "Submit", "Timeout"}
             /\ end \in {"none", "MissingReturnValue"} => world.lands # None /\ world.status = "SUCCESS"
             /\ end = "Transaction" => world.lands # None /\ world.status = "FAILED"
             /\ end = "Timeout" => \A t \in polls : ~Landed(world, t)
             /\ world.rpcFails = None /\ Landed(world, Max(polls)) => end \notin {"Timeout", "Submit"}
<1> DEFINE end == AwaitFinality(config, world)
           polls == PollTimes(config, world)
           final == {t \in polls : FinalAt(world, t)}
           first == Min(final)
<1> SUFFICES
      /\ end \in {"none", "MissingReturnValue", "Transaction", "Submit", "Timeout"}
      /\ end \in {"none", "MissingReturnValue"} => world.lands # None /\ world.status = "SUCCESS"
      /\ end = "Transaction" => world.lands # None /\ world.status = "FAILED"
      /\ end = "Timeout" => \A t \in polls : ~Landed(world, t)
      /\ world.rpcFails = None /\ Landed(world, Max(polls)) => end \notin {"Timeout", "Submit"}
  OBVIOUS
<1>1. polls \in SUBSET (0 .. config.confirmTimeout - 1)
  BY DEF PollTimes
<1>2. Max(polls) \in polls
  <2>1. 0 \in polls
    BY DEF PollTimes
  <2> HIDE DEF polls
  <2>2. config.confirmTimeout - 1 \in Nat
    OBVIOUS
  <2> QED
    BY <1>1, <2>1, <2>2, MaxIsMember
<1> HIDE DEF polls
<1>3. end = IF final = {} THEN "Timeout"
            ELSE IF first = world.rpcFails THEN "Submit"
            ELSE IF Landed(world, first) /\ world.status = "SUCCESS"
                 THEN Unless(world.value, "MissingReturnValue")
            ELSE "Transaction"
  BY DEF AwaitFinality, polls
<1> HIDE DEF end
<1>4. CASE final = {}
  <2>1. end = "Timeout" /\ \A t \in polls : ~Landed(world, t)
    BY <1>3, <1>4 DEF FinalAt
  <2> QED
    BY <1>2, <2>1
<1>5. CASE final # {}
  <2>1. final \in SUBSET Nat
    <3>1. \A t \in polls : t \in Nat
      BY <1>1
    <3> QED
      BY <3>1
  <2>2. first \in final
    BY <1>5, <2>1, MinIsLeast
  <2>3. first \in Int /\ (first = world.rpcFails \/ Landed(world, first))
    BY <2>1, <2>2 DEF FinalAt
  <2> HIDE DEF final, first
  <2>4. CASE first = world.rpcFails
    <3>1. end = "Submit" /\ world.rpcFails # None
      BY <1>3, <1>5, <2>3, <2>4, NoneAssumption
    <3> QED
      BY <3>1
  <2>5. CASE first # world.rpcFails /\ world.status = "SUCCESS"
    <3>1. world.lands # None
      BY <2>3, <2>5 DEF Landed
    <3>2. end \in {"none", "MissingReturnValue"}
      BY <1>3, <1>5, <2>3, <2>5 DEF Unless
    <3> QED
      BY <2>5, <3>1, <3>2
  <2>6. CASE first # world.rpcFails /\ world.status = "FAILED"
    <3>1. world.lands # None
      BY <2>3, <2>6 DEF Landed
    <3>2. end = "Transaction"
      BY <1>3, <1>5, <2>3, <2>6
    <3> QED
      BY <2>6, <3>1, <3>2
  <2> QED
    BY <2>4, <2>5, <2>6
<1> QED
  BY <1>4, <1>5

\* The error that stops a call before it is sent, and when there is none.
LEMMA BuildIsChecked ==
  ASSUME NEW config, NEW params, NEW world,
         params.sealed \in BOOLEAN, params.sealRound \in BOOLEAN
  PROVE  LET built == Build(config, params, world)
             source == RequireSource(config, params.account)
             reach == ValidatedContractCall(world)
             id == NormalizeRoundId(params.roundId)
         IN  /\ built \in {"none", "config", "rpc", "network", "seal", "asset", "roundId"}
             /\ built = "none" =>
                  /\ reach = "none" /\ Simulated(world) = "none"
                  /\ params.op \in {"create_round", "commit"} => source = "none"
                  /\ params.op = "commit" => params.sealRound
             /\ /\ reach = "none" /\ Simulated(world) = "none"
                /\ params.op \in {"create_round", "commit"} => source = "none"
                /\ params.op = "commit" => params.sealRound
                => built \in {"none", "seal", "roundId"}
<1> DEFINE built == Build(config, params, world)
           source == RequireSource(config, params.account)
           reach == ValidatedContractCall(world)
           id == NormalizeRoundId(params.roundId)
           sim == Simulated(world)
           seal == Unless(params.sealed, "seal")
           asset == AssetCheck(config)
           round == Unless(params.sealRound, "config")
           Errors == {"none", "config", "rpc", "network", "seal", "asset", "roundId"}
<1> SUFFICES
      /\ built \in Errors
      /\ built = "none" =>
           /\ reach = "none" /\ sim = "none"
           /\ params.op \in {"create_round", "commit"} => source = "none"
           /\ params.op = "commit" => params.sealRound
      /\ /\ reach = "none" /\ sim = "none"
         /\ params.op \in {"create_round", "commit"} => source = "none"
         /\ params.op = "commit" => params.sealRound
         => built \in {"none", "seal", "roundId"}
  OBVIOUS
<1>1. source \in {"none", "config"} /\ reach \in {"none", "rpc", "network"}
  BY DEF RequireSource, Unless, ValidatedContractCall, ValidateContractNetwork
<1>2. id \in {"none", "roundId"} /\ sim \in {"none", "rpc"} /\ seal \in {"none", "seal"}
  BY DEF NormalizeRoundId, Unless, Simulated
<1>3. asset = "none"
  BY DEF AssetCheck, AssetMismatch, Unless
<1>4. round = IF params.sealRound THEN "none" ELSE "config"
  BY DEF Unless
<1>5. built = FirstError(IF params.op = "create_round" THEN <<source, reach, sim>>
                         ELSE IF params.op = "commit"
                         THEN <<seal, asset, source, round, reach, id, sim>>
                         ELSE <<reach, id, sim>>)
  BY DEF Build
<1> HIDE DEF built, source, reach, id, sim, seal, asset, round
<1>6. CASE params.op = "create_round"
  <2> DEFINE errors == <<source, reach, sim>>
  <2>1. DOMAIN errors = 1 .. 3 /\ errors[1] = source /\ errors[2] = reach /\ errors[3] = sim
    OBVIOUS
  <2>2. built = FirstError(errors)
    BY <1>5, <1>6
  <2> HIDE DEF errors
  <2>3. built = "none" <=> \A i \in 1 .. 3 : errors[i] = "none"
    BY <2>1, <2>2, FirstErrorIsOne
  <2>4. built = "none" \/ \E i \in 1 .. 3 : built = errors[i]
    BY <2>1, <2>2, FirstErrorIsOne
  <2> QED
    BY <1>1, <1>2, <1>6, <2>1, <2>3, <2>4
<1>7. CASE params.op = "commit"
  <2> DEFINE errors == <<seal, asset, source, round, reach, id, sim>>
  <2>1. /\ DOMAIN errors = 1 .. 7 /\ errors[1] = seal /\ errors[2] = asset /\ errors[3] = source
        /\ errors[4] = round /\ errors[5] = reach /\ errors[6] = id /\ errors[7] = sim
    OBVIOUS
  <2>2. built = FirstError(errors)
    BY <1>5, <1>7
  <2> HIDE DEF errors
  <2>3. built = "none" <=> \A i \in 1 .. 7 : errors[i] = "none"
    BY <2>1, <2>2, FirstErrorIsOne
  <2>4. built = "none" \/ \E i \in 1 .. 7 : built = errors[i]
    BY <2>1, <2>2, FirstErrorIsOne
  <2> QED
    BY <1>1, <1>2, <1>3, <1>4, <1>7, <2>1, <2>3, <2>4
<1>8. CASE params.op \notin {"create_round", "commit"}
  <2> DEFINE errors == <<reach, id, sim>>
  <2>1. DOMAIN errors = 1 .. 3 /\ errors[1] = reach /\ errors[2] = id /\ errors[3] = sim
    OBVIOUS
  <2>2. built = FirstError(errors)
    BY <1>5, <1>8
  <2> HIDE DEF errors
  <2>3. built = "none" <=> \A i \in 1 .. 3 : errors[i] = "none"
    BY <2>1, <2>2, FirstErrorIsOne
  <2>4. built = "none" \/ \E i \in 1 .. 3 : built = errors[i]
    BY <2>1, <2>2, FirstErrorIsOne
  <2> QED
    BY <1>1, <1>2, <1>8, <2>1, <2>3, <2>4
<1> QED
  BY <1>6, <1>7, <1>8

\* A preflight ends well only when the call passes the checks that both make and
\* the contract accepts what is simulated; without a session that is enough.
LEMMA PreflightIsChecked ==
  ASSUME NEW config, NEW params, NEW world, params.sealRound \in BOOLEAN,
         world.simulated \in {"accepted", "rejected", "transport", "restore"}
  PROVE  LET passes ==
               /\ ValidatedContractCall(world) = "none" /\ world.simulated = "accepted"
               /\ params.op \in {"create_round", "commit"} =>
                    RequireSource(config, params.account) = "none"
               /\ params.op = "commit" => params.sealRound
         IN  /\ PreflightCall(config, params, world) = "ok" => passes
             /\ passes /\ config.session = None => PreflightCall(config, params, world) = "ok"
<1> DEFINE source == IF params.op \in {"create_round", "commit"}
                     THEN RequireSource(config, params.account) ELSE "none"
           round == IF params.op = "commit" THEN Unless(params.sealRound, "config") ELSE "none"
           reach == ValidatedContractCall(world)
           errors == <<source, round, reach>>
           before == FirstError(errors)
           outcome == IF before = "none" THEN world.simulated
                      ELSE IF before = "rpc" THEN "transport" ELSE before
           call == PreflightCall(config, params, world)
<1>1. /\ source \in {"none", "config"} /\ reach \in {"none", "rpc", "network"}
      /\ round \in {"none", "config"}
  BY DEF RequireSource, Unless, ValidatedContractCall, ValidateContractNetwork
<1>2. round = "none" <=> (params.op = "commit" => params.sealRound)
  BY DEF Unless
<1>3. source = "none" <=> (params.op \in {"create_round", "commit"} =>
                             RequireSource(config, params.account) = "none")
  OBVIOUS
<1>4. call \in {"thrown", Preflight(outcome)} /\ (config.session = None => call = Preflight(outcome))
  BY DEF PreflightCall
<1> HIDE DEF source, round, reach
<1>5. DOMAIN errors = 1 .. 3 /\ errors[1] = source /\ errors[2] = round /\ errors[3] = reach
  OBVIOUS
<1> HIDE DEF errors, call
<1>6. before = "none" <=> source = "none" /\ round = "none" /\ reach = "none"
  <2>1. before = "none" <=> \A i \in 1 .. 3 : errors[i] = "none"
    BY <1>5, FirstErrorIsOne
  <2> HIDE DEF before
  <2> QED
    BY <1>5, <2>1
<1>7. before \in {"none", "config", "rpc", "network"}
  <2>1. before = "none" \/ \E i \in 1 .. 3 : before = errors[i]
    BY <1>5, FirstErrorIsOne
  <2> HIDE DEF before
  <2> QED
    BY <1>1, <1>5, <2>1
<1> HIDE DEF before
<1>8. Preflight(outcome) = "ok" <=> before = "none" /\ world.simulated = "accepted"
  BY <1>7 DEF Preflight, EvaluatePreflight, ClassifyBuildError, BuildFailure
<1> HIDE DEF outcome
<1>9. call = "ok" => Preflight(outcome) = "ok"
  BY <1>4
<1> QED
  BY <1>2, <1>3, <1>4, <1>6, <1>8, <1>9 DEF call, reach

\* Whatever the network and the relayer do, the error of a call tells its caller
\* what became of the transaction (client.ts).
THEOREM ErrorsTellTheFate ==
  SubmitInput => SubmitTellsFate
<1> DEFINE config == sample.config
           params == sample.params
           world == sample.world
           built == Build(config, params, world)
           call == WriteCall(config, params, world)
           polls == PollTimes(config, world)
           end == AwaitFinality(config, world)
           preflight == PreflightCall(config, params, world)
           Succeeds == world.lands # None /\ world.status = "SUCCESS"
           passes ==
             /\ ValidatedContractCall(world) = "none" /\ world.simulated = "accepted"
             /\ params.op \in {"create_round", "commit"} =>
                  RequireSource(config, params.account) = "none"
             /\ params.op = "commit" => params.sealRound
<1> SUFFICES ASSUME SubmitInput, sample.kind = "submit", NewClientAccepted(config)
             PROVE
      /\ call.error = "none" => call.sent /\ Succeeds
      /\ call.error = "MissingReturnValue" => call.sent /\ Succeeds
      /\ call.error = "Transaction" => call.sent /\ world.lands # None /\ world.status = "FAILED"
      /\ call.error \notin {"none", "Submit", "Transaction", "MissingReturnValue", "Timeout"}
           => ~call.sent
      /\ call.error = "Timeout" => config.relayed /\ call.sent /\ \A t \in polls : ~Landed(world, t)
      /\ call.sent /\ world.relay = "accepts" /\ world.rpcFails = None /\ Landed(world, Max(polls))
           => call.error \notin {"Timeout", "Submit"} \/ ~config.relayed
      /\ preflight = "ok" => built \in {"none", "seal", "roundId"}
      /\ preflight # "ok" /\ config.session = None => ~call.sent
  BY DEF SubmitTellsFate
<1>1. /\ config.confirmTimeout \in Nat \ {0} /\ config.pollInterval \in Nat \ {0}
      /\ world.late \in Nat /\ world.lands \in Int \cup {None} /\ world.rpcFails \in Int \cup {None}
      /\ world.value \in BOOLEAN /\ config.relayed \in BOOLEAN
      /\ params.sealed \in BOOLEAN /\ params.sealRound \in BOOLEAN
      /\ world.simulated \in {"accepted", "rejected", "transport", "restore"}
      /\ world.status \in {"SUCCESS", "FAILED"}
  BY DEF SubmitInput, NewClientAccepted, MinConfirmTimeout, MinPollInterval
<1> HIDE DEF config, params, world
<1>2. /\ built \in {"none", "config", "rpc", "network", "seal", "asset", "roundId"}
      /\ built = "none" =>
           /\ ValidatedContractCall(world) = "none" /\ Simulated(world) = "none"
           /\ params.op \in {"create_round", "commit"} =>
                RequireSource(config, params.account) = "none"
           /\ params.op = "commit" => params.sealRound
      /\ /\ ValidatedContractCall(world) = "none" /\ Simulated(world) = "none"
         /\ params.op \in {"create_round", "commit"} =>
              RequireSource(config, params.account) = "none"
         /\ params.op = "commit" => params.sealRound
         => built \in {"none", "seal", "roundId"}
  BY <1>1, BuildIsChecked
<1>3. /\ preflight = "ok" => passes
      /\ passes /\ config.session = None => preflight = "ok"
  BY <1>1, PreflightIsChecked
<1>4. /\ end \in {"none", "MissingReturnValue", "Transaction", "Submit", "Timeout"}
      /\ end \in {"none", "MissingReturnValue"} => Succeeds
      /\ end = "Transaction" => world.lands # None /\ world.status = "FAILED"
      /\ end = "Timeout" => \A t \in polls : ~Landed(world, t)
      /\ world.rpcFails = None /\ Landed(world, Max(polls)) => end \notin {"Timeout", "Submit"}
  BY <1>1, FinalityIsSeen
<1> HIDE DEF built, preflight, end, polls
<1>5. \/ /\ built # "none" /\ call.error = built /\ call.sent = FALSE
      \/ /\ built = "none" /\ ~Signs(config, world)
         /\ call.error \in {"Submit", "unsigned"} /\ call.sent = FALSE
      \/ /\ built = "none" /\ Signs(config, world) /\ config.relayed = FALSE
         /\ call.error = "none" /\ call.sent = TRUE /\ Succeeds
      \/ /\ built = "none" /\ Signs(config, world) /\ config.relayed = FALSE
         /\ call.error = "Submit"
      \/ /\ built = "none" /\ Signs(config, world) /\ config.relayed = TRUE
         /\ call.error = "Submit" /\ world.relay # "accepts"
      \/ /\ built = "none" /\ Signs(config, world) /\ config.relayed = TRUE
         /\ call.error = end /\ call.sent = TRUE
  <2>1. CASE built # "none"
    <3>1. call = [error |-> built, sent |-> FALSE]
      BY <2>1 DEF WriteCall, built
    <3> HIDE DEF call
    <3> QED
      BY <2>1, <3>1
  <2>2. CASE built = "none"
    <3>1. call = SendUnwrap(config, world)
      BY <2>2 DEF WriteCall, built
    <3> HIDE DEF call
    <3>2. CASE ~Signs(config, world)
      <4>1. call = [error |-> IF config.relayed THEN "unsigned" ELSE "Submit", sent |-> FALSE]
        BY <3>1, <3>2 DEF SendUnwrap
      <4> QED
        BY <2>2, <3>2, <4>1
    <3>3. CASE Signs(config, world) /\ config.relayed = FALSE
      <4>1. call = [error |-> Unless(world.relay = "accepts" /\ Succeeds, "Submit"),
                    sent |-> world.relay # "refuses"]
        BY <3>1, <3>3 DEF SendUnwrap
      <4>2. CASE world.relay = "accepts" /\ Succeeds
        <5>1. Unless(world.relay = "accepts" /\ Succeeds, "Submit") = "none"
          BY <4>2 DEF Unless
        <5>2. call.error = "none" /\ call.sent = (world.relay # "refuses")
          BY <4>1, <5>1
        <5> QED
          BY <2>2, <3>3, <4>2, <5>2
      <4>3. CASE ~(world.relay = "accepts" /\ Succeeds)
        <5>1. Unless(world.relay = "accepts" /\ Succeeds, "Submit") = "Submit"
          BY <4>3 DEF Unless
        <5>2. call.error = "Submit"
          BY <4>1, <5>1
        <5> QED
          BY <2>2, <3>3, <5>2
      <4> QED
        BY <4>2, <4>3
    <3>4. CASE Signs(config, world) /\ config.relayed = TRUE /\ world.relay # "accepts"
      <4>1. call.error = "Submit"
        BY <3>1, <3>4 DEF SendUnwrap
      <4> QED
        BY <2>2, <3>4, <4>1
    <3>5. CASE Signs(config, world) /\ config.relayed = TRUE /\ world.relay = "accepts"
      <4>1. call = [error |-> end, sent |-> TRUE]
        BY <3>1, <3>5 DEF SendUnwrap, end
      <4> QED
        BY <2>2, <3>5, <4>1
    <3> QED
      BY <1>1, <3>2, <3>3, <3>4, <3>5
  <2> QED
    BY <2>1, <2>2
<1> HIDE DEF call
<1>6. Signs(config, world) => world.simulated = "accepted"
  BY DEF Signs
<1>7. world.simulated = "accepted" => Simulated(world) = "none"
  BY DEF Simulated
<1>8. preflight = "ok" => built \in {"none", "seal", "roundId"}
  BY <1>2, <1>3, <1>7
<1>9. preflight # "ok" /\ config.session = None => ~call.sent
  <2>1. CASE built = "none" /\ Signs(config, world)
    BY <1>2, <1>3, <1>6, <2>1
  <2>2. CASE ~(built = "none" /\ Signs(config, world))
    BY <1>5, <2>2
  <2> QED
    BY <2>1, <2>2
<1> HIDE DEF Succeeds
<1> QED
  BY <1>1, <1>2, <1>4, <1>5, <1>8, <1>9
-----------------------------------------------------------------------------
(***************************************************************************)
(* Conservation: a settle that is reported as conserved is accepted and     *)
(* pays what the report says, and a round read to the end is reported so.   *)
(***************************************************************************)
Page == [total : Nat, next : Nat, data : Seq(Nat)]

\* A round of any number of bids that the contract allows, any answers to the
\* walk, and any bidders that cannot be read; the simulation of a settle says what
\* the contract would, or nothing.
ConservationInput ==
    sample.kind = "conservation" =>
        \E bids \in Seq(StoredBid), rule \in {"HighestBid", "LowestBid"}, status \in RoundStatus,
           size \in Int, pages \in Seq(Page) :
        \E unread, simulated :
           LET round == ContractRound(status, rule, bids)
           IN  /\ Len(bids) <= ESCROW_MAX_BIDDERS
               /\ status \in {"Cleared", "Settled"} => round.winner # None
               /\ simulated \in {IF ContractAccepts("settle", round, 0) THEN "accepted" ELSE "rejected",
                                 "transport", "missing", "restore"}
               /\ sample = [kind |-> "conservation", round |-> round, unread |-> unread,
                            size |-> size, pages |-> pages, simulated |-> simulated]

Issues ==
    {"round_wrong_status", "no_winner", "duplicate_bidder", "bid_state_missing",
     "bidder_already_settled", "page_total_drift", "page_count_mismatch", "cursor_stalled",
     "winner_not_indexed", "index_mismatch"}

Walks ==
    [seen : Seq(Nat), held : Int, refundable : Int, won : Int, total : Nat \cup {None},
     cursor : Nat, pages : Nat, done : BOOLEAN, issues : SUBSET Issues]

\* The sums of a walk without an issue are those of the bidders it has seen.
Accounted(bids, winner, walk) ==
    walk.issues = {} =>
        LET Seen == ToSet(walk.seen)
        IN  /\ Seen \subseteq DOMAIN bids
            /\ walk.refundable = Sum([i \in DOMAIN bids |->
                                        IF i \in Seen /\ i # winner THEN bids[i].escrow ELSE 0],
                                     Len(bids))
            /\ walk.won = IF winner \in Seen THEN bids[winner].escrow ELSE 0
            /\ walk.held = walk.refundable + walk.won

\* The contract's round, by its fields.
LEMMA ContractRoundFields ==
  ASSUME NEW bids \in Seq(StoredBid), NEW rule \in {"HighestBid", "LowestBid"},
         NEW status \in RoundStatus, NEW round, round = ContractRound(status, rule, bids)
  PROVE  /\ round.status = status /\ round.bids \in Seq(StoredBid) /\ Len(round.bids) = Len(bids)
         /\ \A i \in DOMAIN round.bids :
               round.bids[i].settled = (status \in {"Settled", "Voided"})
         /\ status \notin {"Cleared", "Settled"} => round.winner = None
         /\ round.winner # None =>
              /\ round.winner \in DOMAIN round.bids
              /\ round.bid \in Nat /\ round.bid <= round.bids[round.winner].escrow
<1> DEFINE n == Len(bids)
           won == status \in {"Cleared", "Settled"}
           over == status \in {"Settled", "Voided"}
           best == Cleared(rule, bids)
<1>1. /\ round.status = status
      /\ round.winner = (IF won THEN best ELSE None)
      /\ round.bid = (IF won /\ best # None THEN bids[best].value ELSE None)
      /\ round.bids = [i \in DOMAIN bids |-> [bids[i] EXCEPT !.settled = over]]
  BY DEF ContractRound
<1>2. FirstBest(rule, bids, n, best)
  BY ClearedIsFirstBest
<1>3. over \in BOOLEAN /\ n \in Nat /\ DOMAIN bids = 1 .. n
  OBVIOUS
<1> HIDE DEF best, over
<1>4. ASSUME NEW i \in 1 .. n
      PROVE  /\ round.bids[i] \in StoredBid /\ round.bids[i].settled = over
             /\ round.bids[i].value = bids[i].value /\ round.bids[i].escrow = bids[i].escrow
  <2>1. bids[i] \in StoredBid
    OBVIOUS
  <2>2. round.bids[i] = [bids[i] EXCEPT !.settled = over]
    BY <1>1, <1>3
  <2> QED
    BY <1>3, <2>1, <2>2, MarkedBid
<1> HIDE DEF n
<1>5. round.bids \in Seq(StoredBid) /\ Len(round.bids) = n /\ DOMAIN round.bids = 1 .. n
  <2>1. round.bids = [i \in 1 .. n |-> round.bids[i]]
    BY <1>1, <1>3
  <2> QED
    BY <1>3, <1>4, <2>1
<1>6. ASSUME round.winner # None
      PROVE  /\ round.winner \in 1 .. n
             /\ round.bid \in Nat /\ round.bid <= round.bids[round.winner].escrow
  <2>1. round.winner = best /\ best # None /\ round.bid = bids[best].value
    BY <1>1, <1>6
  <2>2. best \in 1 .. n /\ Valid(bids[best])
    BY <1>2, <2>1 DEF FirstBest
  <2>3. round.bids[best] \in StoredBid /\ round.bids[best].value = bids[best].value
    BY <1>4, <2>2
  <2>4. bids[best].value # None /\ bids[best].value > 0
    BY <2>2 DEF Valid
  <2> QED
    BY <2>1, <2>2, <2>3, <2>4 DEF StoredBid
<1> QED
  BY <1>1, <1>4, <1>5, <1>6 DEF n, over

\* What the bidders of a page leave alone.
Alike(w, walk) ==
    /\ w.total = walk.total /\ w.cursor = walk.cursor
    /\ w.pages = walk.pages /\ w.done = walk.done

\* The fields of a walk.
LEMMA WalkFields ==
  ASSUME NEW walk \in Walks
  PROVE  /\ walk.held \in Int /\ walk.won \in Int /\ walk.refundable \in Int
         /\ walk.seen \in Seq(Nat) /\ walk.issues \subseteq Issues
         /\ walk.total \in Nat \cup {None} /\ walk.cursor \in Nat /\ walk.pages \in Nat
         /\ walk.done \in BOOLEAN
  BY DEF Walks

\* A walk with another sum in its field held.
LEMMA WalkWithHeld ==
  ASSUME NEW walk \in Walks, NEW x \in Int, NEW w, w = [walk EXCEPT !.held = x]
  PROVE  /\ w \in Walks /\ w.held = x /\ w.won = walk.won /\ w.refundable = walk.refundable
         /\ w.seen = walk.seen /\ w.issues = walk.issues /\ Alike(w, walk)
  BY DEF Walks, Alike

\* A walk with another sum in its field won.
LEMMA WalkWithWon ==
  ASSUME NEW walk \in Walks, NEW x \in Int, NEW w, w = [walk EXCEPT !.won = x]
  PROVE  /\ w \in Walks /\ w.won = x /\ w.held = walk.held /\ w.refundable = walk.refundable
         /\ w.seen = walk.seen /\ w.issues = walk.issues /\ Alike(w, walk)
  BY DEF Walks, Alike

\* A walk with another sum in its field refundable.
LEMMA WalkWithRefundable ==
  ASSUME NEW walk \in Walks, NEW x \in Int, NEW w, w = [walk EXCEPT !.refundable = x]
  PROVE  /\ w \in Walks /\ w.refundable = x /\ w.held = walk.held /\ w.won = walk.won
         /\ w.seen = walk.seen /\ w.issues = walk.issues /\ Alike(w, walk)
  BY DEF Walks, Alike

\* One bidder.
LEMMA BidderStepAccounts ==
  ASSUME NEW round, NEW unread, NEW winner, NEW walk \in Walks, NEW i \in Nat,
         round.bids \in Seq(StoredBid), winner \in DOMAIN round.bids \cup {None},
         Accounted(round.bids, winner, walk)
  PROVE  LET step == BidderStep(round, unread, winner, walk, i)
         IN  /\ step \in Walks /\ Accounted(round.bids, winner, step)
             /\ walk.issues \subseteq step.issues /\ Alike(step, walk)
<1> DEFINE bids == round.bids
           n == Len(bids)
           b == bids[i]
           new == [walk EXCEPT !.seen = Append(@, i)]
           held == [new EXCEPT !.held = @ + b.escrow]
           step == BidderStep(round, unread, winner, walk, i)
<1> SUFFICES /\ step \in Walks /\ Accounted(bids, winner, step)
             /\ walk.issues \subseteq step.issues /\ Alike(step, walk)
  OBVIOUS
<1>0. /\ new \in Walks /\ new.seen = Append(walk.seen, i) /\ new.held = walk.held
      /\ new.issues = walk.issues /\ new.won = walk.won /\ new.refundable = walk.refundable
      /\ Alike(new, walk)
  <2>1. walk.seen \in Seq(Nat)
    BY DEF Walks
  <2>2. Append(walk.seen, i) \in Seq(Nat)
    BY <2>1
  <2> DEFINE longer == Append(walk.seen, i)
  <2> HIDE DEF longer
  <2>3. /\ [walk EXCEPT !.seen = longer] \in Walks
        /\ [walk EXCEPT !.seen = longer].seen = longer
        /\ [walk EXCEPT !.seen = longer].held = walk.held
        /\ [walk EXCEPT !.seen = longer].issues = walk.issues
        /\ [walk EXCEPT !.seen = longer].won = walk.won
        /\ [walk EXCEPT !.seen = longer].refundable = walk.refundable
        /\ Alike([walk EXCEPT !.seen = longer], walk)
    BY <2>2 DEF Walks, longer, Alike
  <2> QED
    BY <2>3 DEF longer
<1>1. CASE i \in ToSet(walk.seen)
  <2>1. step = [walk EXCEPT !.issues = @ \cup {"duplicate_bidder"}]
    BY <1>1 DEF BidderStep, Noted
  <2>2. step \in Walks /\ step.issues = walk.issues \cup {"duplicate_bidder"}
        /\ Alike(step, walk)
    BY <2>1 DEF Walks, Issues, Alike
  <2> QED
    BY <2>2 DEF Accounted
<1>2. CASE i \notin ToSet(walk.seen) /\ (i \in unread \/ i \notin DOMAIN bids)
  <2>1. step = [new EXCEPT !.issues = @ \cup {"bid_state_missing"}]
    BY <1>2 DEF BidderStep, Noted
  <2> HIDE DEF new, step
  <2>2. step \in Walks /\ step.issues = walk.issues \cup {"bid_state_missing"}
        /\ Alike(step, walk)
    BY <1>0, <2>1 DEF Walks, Issues, Alike
  <2> QED
    BY <2>2 DEF Accounted
<1>3. CASE i \notin ToSet(walk.seen) /\ i \notin unread /\ i \in DOMAIN bids
  <2>1. b \in StoredBid /\ b.escrow \in Nat /\ b.settled \in BOOLEAN
    BY <1>3 DEF StoredBid
  <2> DEFINE kept == new
  <2> HIDE DEF kept
  <2>2. /\ held \in Walks /\ held.seen = Append(walk.seen, i) /\ held.held = walk.held + b.escrow
        /\ held.issues = walk.issues /\ held.won = walk.won /\ held.refundable = walk.refundable
        /\ Alike(held, walk)
    <3>1. held = [kept EXCEPT !.held = kept.held + b.escrow]
      BY DEF kept
    <3>2. kept \in Walks /\ kept.held \in Int /\ kept.held = walk.held
      BY <1>0, WalkFields DEF kept
    <3>3. kept.held + b.escrow \in Int
      BY <2>1, <3>2
    <3>4. /\ held \in Walks /\ held.held = kept.held + b.escrow /\ held.won = kept.won
          /\ held.refundable = kept.refundable /\ held.seen = kept.seen
          /\ held.issues = kept.issues /\ Alike(held, kept)
      <4> DEFINE more == kept.held + b.escrow
      <4> HIDE DEF held, b, more
      <4>1. held = [kept EXCEPT !.held = more] /\ more \in Int
        BY <3>1, <3>3 DEF more
      <4>2. held.held = more
        BY <3>2, <4>1, WalkWithHeld
      <4> QED
        BY <3>2, <4>1, <4>2, WalkWithHeld DEF more
    <3> HIDE DEF held, b
    <3> QED
      BY <1>0, <3>2, <3>4 DEF kept, Alike
  <2>3. step = IF b.settled THEN [held EXCEPT !.issues = @ \cup {"bidder_already_settled"}]
               ELSE IF i = winner THEN [held EXCEPT !.won = @ + b.escrow]
               ELSE [held EXCEPT !.refundable = @ + b.escrow]
    BY <1>3, <2>1 DEF BidderStep, Noted
  <2> HIDE DEF held, step, b
  <2>4. CASE b.settled
    <3>1. step \in Walks /\ step.issues = walk.issues \cup {"bidder_already_settled"}
          /\ Alike(step, walk)
      BY <2>2, <2>3, <2>4 DEF Walks, Issues, Alike
    <3> QED
      BY <3>1 DEF Accounted
  <2>5. CASE ~b.settled
    <3>1. /\ step \in Walks /\ step.seen = Append(walk.seen, i) /\ step.issues = walk.issues
          /\ Alike(step, walk)
          /\ step.held = walk.held + b.escrow
          /\ step.won = walk.won + (IF i = winner THEN b.escrow ELSE 0)
          /\ step.refundable = walk.refundable + (IF i = winner THEN 0 ELSE b.escrow)
      <4>0. /\ held.held \in Int /\ held.won \in Int /\ held.refundable \in Int
            /\ held.won + b.escrow \in Int /\ held.refundable + b.escrow \in Int
            /\ held \in Walks
        <5>1. held \in Walks /\ b.escrow \in Int
          BY <2>1, <2>2
        <5>2. held.held \in Int /\ held.won \in Int /\ held.refundable \in Int
          BY <5>1, WalkFields, Zenon
        <5> QED
          BY <5>1, <5>2
      <4>1. CASE i = winner
        <5>1. step = [held EXCEPT !.won = held.won + b.escrow]
          BY <2>3, <2>5, <4>1
        <5>2. /\ step \in Walks /\ step.won = held.won + b.escrow /\ step.held = held.held
              /\ step.refundable = held.refundable /\ step.seen = held.seen
              /\ step.issues = held.issues /\ Alike(step, held)
          <6> DEFINE more == held.won + b.escrow
          <6> HIDE DEF more
          <6>1. step = [held EXCEPT !.won = more] /\ more \in Int
            BY <4>0, <5>1 DEF more
          <6> QED
            BY <4>0, <6>1, WalkWithWon DEF more
        <5> QED
          BY <2>2, <4>0, <4>1, <5>2 DEF Alike
      <4>2. CASE i # winner
        <5>1. step = [held EXCEPT !.refundable = held.refundable + b.escrow]
          BY <2>3, <2>5, <4>2
        <5>2. /\ step \in Walks /\ step.refundable = held.refundable + b.escrow
              /\ step.held = held.held /\ step.won = held.won /\ step.seen = held.seen
              /\ step.issues = held.issues /\ Alike(step, held)
          <6> DEFINE more == held.refundable + b.escrow
          <6> HIDE DEF more
          <6>1. step = [held EXCEPT !.refundable = more] /\ more \in Int
            BY <4>0, <5>1 DEF more
          <6> QED
            BY <4>0, <6>1, WalkWithRefundable DEF more
        <5> QED
          BY <2>2, <4>0, <4>2, <5>2 DEF Alike
      <4> QED
        BY <4>1, <4>2
    <3> SUFFICES ASSUME walk.issues = {} PROVE Accounted(bids, winner, step)
      BY <3>1 DEF Accounted
    <3> DEFINE Before == ToSet(walk.seen)
               Reached == ToSet(step.seen)
               d == [j \in DOMAIN bids |-> IF j \in Before /\ j # winner THEN bids[j].escrow ELSE 0]
               e == [j \in DOMAIN bids |-> IF j \in Reached /\ j # winner THEN bids[j].escrow ELSE 0]
    <3>2. Reached = Before \cup {i}
      <4>1. walk.seen \in Seq(Nat)
        BY DEF Walks, Issues
      <4>2. Len(step.seen) = Len(walk.seen) + 1 /\ Len(walk.seen) \in Nat
        BY <3>1, <4>1
      <4>3. /\ DOMAIN walk.seen = 1 .. Len(walk.seen)
            /\ DOMAIN step.seen = 1 .. Len(walk.seen) + 1
            /\ step.seen[Len(walk.seen) + 1] = i
            /\ \A j \in 1 .. Len(walk.seen) : step.seen[j] = walk.seen[j]
        BY <3>1, <4>1
      <4>4. Before \cup {i} \subseteq Reached
        BY <4>2, <4>3 DEF ToSet
      <4>5. Reached \subseteq Before \cup {i}
        BY <4>2, <4>3 DEF ToSet
      <4> QED
        BY <4>4, <4>5, Zenon
    <3>3. /\ Before \subseteq DOMAIN bids /\ walk.refundable = Sum(d, n)
          /\ walk.won = IF winner \in Before THEN bids[winner].escrow ELSE 0
          /\ walk.held = walk.refundable + walk.won
      BY DEF Accounted
    <3>4. n \in Nat /\ DOMAIN bids = 1 .. n
      OBVIOUS
    <3>5. \A j \in 1 .. n : bids[j].escrow \in Nat
      BY <3>4 DEF StoredBid
    <3> HIDE DEF n, Before, Reached, b
    <3>6. Sum(e, n) = Sum(d, n) - d[i] + e[i]
      <4>1. i \in 1 .. n /\ \A j \in 1 .. n : d[j] \in Int /\ e[j] \in Int
        BY <1>3, <3>4, <3>5
      <4>2. \A j \in 1 .. n : j # i => e[j] = d[j]
        BY <3>2, <3>4
      <4> HIDE DEF d, e
      <4> QED
        BY <3>4, <4>1, <4>2, SumChangeOne
    <3>7. d[i] = 0 /\ e[i] = IF i = winner THEN 0 ELSE b.escrow
      BY <1>3, <3>2 DEF Before, b
    <3>8. step.refundable = Sum(e, n)
      <4>1. walk.refundable \in Int
        BY DEF Walks, Issues
      <4> HIDE DEF d, e
      <4> QED
        BY <2>1, <3>1, <3>3, <3>6, <3>7, <4>1
    <3>9. step.won = IF winner \in Reached THEN bids[winner].escrow ELSE 0
      <4>1. i \notin Before
        BY <1>3 DEF Before
      <4>2. CASE i = winner
        BY <2>1, <3>1, <3>2, <3>3, <4>1, <4>2 DEF b
      <4>3. CASE i # winner
        <5>1. step.won = walk.won
          <6>1. walk.won \in Int
            BY DEF Walks
          <6> QED
            BY <3>1, <4>3, <6>1
        <5> QED
          BY <3>2, <3>3, <4>3, <5>1
      <4> QED
        BY <4>2, <4>3
    <3>10. step.held = step.refundable + step.won
      <4>1. walk.refundable \in Int /\ walk.won \in Int
        BY DEF Walks, Issues
      <4> QED
        BY <2>1, <3>1, <3>3, <4>1
    <3>11. Reached \subseteq DOMAIN bids
      BY <1>3, <3>2, <3>3
    <3> QED
      BY <3>8, <3>9, <3>10, <3>11 DEF Accounted, Reached, n
  <2> QED
    BY <2>1, <2>4, <2>5
<1> QED
  BY <1>1, <1>2, <1>3

\* The walks whose sums are right.
Accounts(round, winner) == {w \in Walks : Accounted(round.bids, winner, w)}

\* c is the table of the walk before a page and after each of its bidders.
PageTable(round, unread, winner, walk, data, c) ==
    /\ c \in [0 .. Len(data) -> Accounts(round, winner)]
    /\ ReadPage(round, unread, winner, walk, data) = c[Len(data)] /\ c[0] = walk
    /\ \A k \in 1 .. Len(data) : c[k] = BidderStep(round, unread, winner, c[k - 1], data[k])

\* The bidders of a page, one after the other.
LEMMA ReadPageTable ==
  ASSUME NEW round, NEW unread, NEW winner, NEW walk \in Accounts(round, winner),
         NEW data \in Seq(Nat),
         round.bids \in Seq(StoredBid), winner \in DOMAIN round.bids \cup {None}
  PROVE  \E c : PageTable(round, unread, winner, walk, data, c)
<1> DEFINE n == Len(data)
           D == Accounts(round, winner)
           Step(w, i) == BidderStep(round, unread, winner, w, i)
           c == CHOOSE u : u = [k \in 0 .. n |-> IF k = 0 THEN walk ELSE Step(u[k - 1], data[k])]
           Turn == [k \in 1 .. n |-> [w \in D |-> Step(w, data[k])]]
<1>1. n \in Nat /\ \A k \in 1 .. n : data[k] \in Nat
  OBVIOUS
<1>2. ReadPage(round, unread, winner, walk, data) = c[n]
  BY DEF ReadPage
<1>3. \A w \in D, i \in Nat : Step(w, i) \in D
  BY BidderStepAccounts DEF Accounts
<1> HIDE DEF n, D, Step
<1>4. Turn \in [1 .. n -> [D -> D]]
  BY <1>1, <1>3
<1>5. PICK u \in [0 .. n -> D] : LoopTable(n, walk, Turn, u)
  <2>1. walk \in D
    BY DEF D
  <2> HIDE DEF Turn
  <2> QED
    BY <1>1, <1>4, <2>1, LoopTableExists
<1>6. ASSUME NEW k \in 0 .. n, k # 0 PROVE Turn[k][u[k - 1]] = Step(u[k - 1], data[k])
  BY <1>1, <1>6
<1>7. u = [k \in 0 .. n |-> IF k = 0 THEN walk ELSE Step(u[k - 1], data[k])]
  BY <1>1, <1>5, <1>6 DEF LoopTable
<1>8. c = [k \in 0 .. n |-> IF k = 0 THEN walk ELSE Step(c[k - 1], data[k])]
  BY <1>7, Zenon
<1> HIDE DEF c
<1>9. c[0] = walk /\ \A k \in 1 .. n : c[k] = Step(c[k - 1], data[k])
  BY <1>1, <1>8
<1>10. c \in [0 .. n -> D]
  <2> DEFINE S == {k \in Nat : k <= n => c[k] \in D}
  <2>1. 0 \in S
    BY <1>9 DEF D
  <2>2. ASSUME NEW k \in S PROVE k + 1 \in S
    <3> SUFFICES ASSUME k + 1 <= n PROVE c[k + 1] \in D
      OBVIOUS
    <3>1. k + 1 \in 1 .. n /\ c[k] \in D /\ data[k + 1] \in Nat
      BY <1>1
    <3>2. c[k + 1] = Step(c[k], data[k + 1])
      BY <1>9, <3>1
    <3> QED
      BY <1>3, <3>1, <3>2
  <2> HIDE DEF S
  <2>3. S = Nat
    <3>1. S \in SUBSET Nat
      BY DEF S
    <3> QED
      BY <2>1, <2>2, <3>1, NatSetInduction
  <2>4. \A k \in 0 .. n : c[k] \in D
    BY <1>1, <2>3 DEF S
  <2> QED
    BY <1>8, <2>4
<1> QED
  BY <1>2, <1>9, <1>10, Zenon DEF n, D, Step, PageTable

\* What a page leaves of a walk.
LEMMA ReadPageAccounts ==
  ASSUME NEW round, NEW unread, NEW winner, NEW walk \in Accounts(round, winner),
         NEW data \in Seq(Nat),
         round.bids \in Seq(StoredBid), winner \in DOMAIN round.bids \cup {None}
  PROVE  LET read == ReadPage(round, unread, winner, walk, data)
         IN  /\ read \in Accounts(round, winner)
             /\ walk.issues \subseteq read.issues /\ Alike(read, walk)
<1> DEFINE n == Len(data)
           D == Accounts(round, winner)
           read == ReadPage(round, unread, winner, walk, data)
<1> SUFFICES read \in D /\ walk.issues \subseteq read.issues /\ Alike(read, walk)
  OBVIOUS
<1>0. PICK c : PageTable(round, unread, winner, walk, data, c)
  BY ReadPageTable
<1>1. /\ c \in [0 .. n -> D] /\ read = c[n] /\ c[0] = walk
      /\ \A k \in 1 .. n : c[k] = BidderStep(round, unread, winner, c[k - 1], data[k])
  BY <1>0 DEF PageTable
<1>2. n \in Nat /\ \A k \in 1 .. n : data[k] \in Nat
  OBVIOUS
<1> HIDE DEF n, read
<1> DEFINE S == {k \in Nat : k <= n => walk.issues \subseteq c[k].issues /\ Alike(c[k], walk)}
<1>3. 0 \in S
  BY <1>1 DEF Alike
<1>4. ASSUME NEW k \in S PROVE k + 1 \in S
  <2> SUFFICES ASSUME k + 1 <= n
               PROVE  walk.issues \subseteq c[k + 1].issues /\ Alike(c[k + 1], walk)
    OBVIOUS
  <2>1. /\ k + 1 \in 1 .. n /\ c[k] \in D /\ data[k + 1] \in Nat
        /\ walk.issues \subseteq c[k].issues /\ Alike(c[k], walk)
        /\ c[k + 1] = BidderStep(round, unread, winner, c[k], data[k + 1])
    BY <1>1, <1>2
  <2>2. c[k] \in Walks /\ Accounted(round.bids, winner, c[k])
    BY <2>1 DEF Accounts
  <2>3. c[k].issues \subseteq c[k + 1].issues /\ Alike(c[k + 1], c[k])
    BY <2>1, <2>2, BidderStepAccounts
  <2> QED
    BY <2>1, <2>3 DEF Alike
<1> HIDE DEF S
<1>5. S = Nat
  <2>1. S \in SUBSET Nat
    BY DEF S
  <2> QED
    BY <1>3, <1>4, <2>1, NatSetInduction
<1> HIDE DEF D
<1>6. read \in D
  BY <1>1, <1>2
<1>7. walk.issues \subseteq c[n].issues /\ Alike(c[n], walk)
  BY <1>2, <1>5 DEF S
<1> QED
  BY <1>1, <1>6, <1>7

\* A walk with another issue.
LEMMA NotedWalk ==
  ASSUME NEW round, NEW winner, NEW walk \in Accounts(round, winner), NEW code \in Issues
  PROVE  /\ Noted(walk, code) \in Accounts(round, winner)
         /\ walk.issues \subseteq Noted(walk, code).issues
         /\ code \in Noted(walk, code).issues
<1> DEFINE more == walk.issues \cup {code}
           w == [walk EXCEPT !.issues = more]
<1>1. walk \in Walks /\ more \subseteq Issues
  BY WalkFields DEF Accounts
<1>2. w \in Walks /\ w.issues = more
  <2> HIDE DEF more
  <2> QED
    BY <1>1 DEF Walks
<1>3. w = Noted(walk, code)
  BY DEF Noted
<1> HIDE DEF w
<1>4. Accounted(round.bids, winner, w)
  BY <1>2 DEF Accounted
<1> QED
  BY <1>2, <1>3, <1>4 DEF Accounts

\* A walk that goes on: only what it has read counts.
LEMMA MovedWalk ==
  ASSUME NEW round, NEW winner, NEW walk \in Accounts(round, winner),
         NEW w \in Walks,
         /\ w.seen = walk.seen /\ w.held = walk.held /\ w.refundable = walk.refundable
         /\ w.won = walk.won /\ w.issues = walk.issues
  PROVE  w \in Accounts(round, winner)
BY DEF Accounts, Accounted

\* The walk after a page and the counting of it.
Counted(walk, page) ==
    [walk EXCEPT !.pages = @ + 1, !.total = IF @ = None THEN page.total ELSE @]

\* It ends there, or goes on.
Ended(walk, page) == [Counted(walk, page) EXCEPT !.done = TRUE]
GoneOn(walk, page) == [Counted(walk, page) EXCEPT !.cursor = page.next]

\* What both leave of the walk.
Taken(w, walk, page) ==
    /\ w \in Walks
    /\ w.seen = walk.seen /\ w.held = walk.held /\ w.refundable = walk.refundable
    /\ w.won = walk.won /\ w.issues = walk.issues /\ w.pages = walk.pages + 1
    /\ w.total = IF walk.total = None THEN page.total ELSE walk.total

\* However the walk goes on with a page, the page is taken.
LEMMA CountedWalk ==
  ASSUME NEW walk \in Walks, NEW page \in Page
  PROVE  /\ Taken(Counted(walk, page), walk, page)
         /\ Taken(Ended(walk, page), walk, page)
         /\ Taken(GoneOn(walk, page), walk, page)
         /\ GoneOn(walk, page).cursor = page.next /\ GoneOn(walk, page).done = walk.done
<1> DEFINE pages == walk.pages + 1
           total == IF walk.total = None THEN page.total ELSE walk.total
           paged == [walk EXCEPT !.pages = pages]
           next == Counted(walk, page)
           last == Ended(walk, page)
           on == GoneOn(walk, page)
<1>1. pages \in Nat /\ total \in Nat \cup {None}
  BY WalkFields DEF Page
<1>2. paged.total = walk.total
  BY DEF Walks
<1>3. next = [paged EXCEPT !.total = total]
  BY <1>2 DEF Counted
<1>8. /\ last = [next EXCEPT !.done = TRUE] /\ on = [next EXCEPT !.cursor = page.next]
      /\ page.next \in Nat
  BY DEF Ended, GoneOn, Page
<1> HIDE DEF pages, total, next, last, on
<1>4. /\ paged \in Walks
      /\ paged.seen = walk.seen /\ paged.held = walk.held /\ paged.refundable = walk.refundable
      /\ paged.won = walk.won /\ paged.issues = walk.issues /\ paged.pages = pages
      /\ paged.cursor = walk.cursor /\ paged.done = walk.done
  BY <1>1 DEF Walks
<1> HIDE DEF paged
<1>5. /\ next \in Walks
      /\ next.seen = walk.seen /\ next.held = walk.held /\ next.refundable = walk.refundable
      /\ next.won = walk.won /\ next.issues = walk.issues /\ next.pages = pages
      /\ next.total = total /\ next.cursor = walk.cursor /\ next.done = walk.done
  BY <1>1, <1>3, <1>4 DEF Walks
<1>6. /\ last \in Walks
      /\ last.seen = walk.seen /\ last.held = walk.held /\ last.refundable = walk.refundable
      /\ last.won = walk.won /\ last.issues = walk.issues /\ last.pages = pages
      /\ last.total = total /\ last.done = TRUE
  BY <1>5, <1>8 DEF Walks
<1>7. /\ on \in Walks
      /\ on.seen = walk.seen /\ on.held = walk.held /\ on.refundable = walk.refundable
      /\ on.won = walk.won /\ on.issues = walk.issues /\ on.pages = pages
      /\ on.total = total /\ on.cursor = page.next /\ on.done = walk.done
  BY <1>5, <1>8 DEF Walks
<1>9. Taken(next, walk, page) /\ Taken(last, walk, page) /\ Taken(on, walk, page)
  BY <1>5, <1>6, <1>7 DEF pages, total, Taken
<1> QED
  BY <1>7, <1>9 DEF next, last, on

LEMMA EndedIsDone ==
  ASSUME NEW walk \in Walks, NEW page
  PROVE  Ended(walk, page).done = TRUE
<1> DEFINE next == Counted(walk, page)
<1>1. "done" \in DOMAIN walk
  BY DEF Walks
<1>2. DOMAIN next = DOMAIN walk
  BY Zenon DEF Counted
<1> HIDE DEF next
<1> QED
  BY <1>1, <1>2, Zenon DEF Ended, next

\* What a page does to a walk.
LEMMA PageStepAccounts ==
  ASSUME NEW round, NEW unread, NEW winner, NEW size, NEW walk \in Accounts(round, winner),
         NEW page \in Page,
         round.bids \in Seq(StoredBid), winner \in DOMAIN round.bids \cup {None}
  PROVE  LET step == PageStep(round, unread, winner, size, walk, page)
         IN  step \in Accounts(round, winner) /\ walk.issues \subseteq step.issues
<1> DEFINE D == Accounts(round, winner)
           told == IF walk.total \in {None, page.total} THEN walk
                   ELSE Noted(walk, "page_total_drift")
           read == ReadPage(round, unread, winner, told, page.data)
           next == Counted(read, page)
           last == Ended(read, page)
           on == GoneOn(read, page)
           step == PageStep(round, unread, winner, size, walk, page)
<1> SUFFICES step \in D /\ walk.issues \subseteq step.issues
  OBVIOUS
<1>1. page.data \in Seq(Nat) /\ page.next \in Nat
  BY DEF Page
<1>2. told \in D /\ walk.issues \subseteq told.issues
  BY NotedWalk DEF Issues
<1>3. \/ step = walk
      \/ step = Noted(last, "page_count_mismatch")
      \/ step = last
      \/ step = Noted(last, "cursor_stalled")
      \/ step = on
  BY Zenon DEF PageStep, Counted, Ended, GoneOn
<1> HIDE DEF told, step
<1>4. read \in D /\ told.issues \subseteq read.issues
  BY <1>1, <1>2, ReadPageAccounts
<1> HIDE DEF read
<1>5. read \in Walks
  BY <1>4 DEF Accounts
<1>6. /\ last \in Walks /\ on \in Walks
      /\ \A w \in {last, on} :
            /\ w.seen = read.seen /\ w.held = read.held /\ w.refundable = read.refundable
            /\ w.won = read.won /\ w.issues = read.issues
  BY <1>5, CountedWalk DEF Taken
<1> HIDE DEF last, on
<1>7. last \in D /\ on \in D
  BY <1>4, <1>6, MovedWalk
<1>8. \A code \in Issues : Noted(last, code) \in D /\ last.issues \subseteq Noted(last, code).issues
  BY <1>7, NotedWalk
<1>9. {"page_count_mismatch", "cursor_stalled"} \subseteq Issues
  BY DEF Issues
<1> QED
  BY <1>2, <1>3, <1>4, <1>6, <1>7, <1>8, <1>9

\* c is the table of the walk before and after each page.
IndexTable(round, unread, winner, size, pages, walk, c) ==
    /\ c \in [0 .. Len(pages) -> Accounts(round, winner)]
    /\ ReadPages(round, unread, winner, size, pages, walk) = c[Len(pages)] /\ c[0] = walk
    /\ \A p \in 1 .. Len(pages) :
         /\ c[p] = PageStep(round, unread, winner, size, c[p - 1], pages[p])
         /\ c[p - 1].issues \subseteq c[p].issues

\* The pages, one after the other.
LEMMA ReadPagesTable ==
  ASSUME NEW round, NEW unread, NEW winner, NEW size, NEW walk \in Accounts(round, winner),
         NEW pages \in Seq(Page),
         round.bids \in Seq(StoredBid), winner \in DOMAIN round.bids \cup {None}
  PROVE  \E c : IndexTable(round, unread, winner, size, pages, walk, c)
<1> DEFINE n == Len(pages)
           D == Accounts(round, winner)
           Step(w, i) == PageStep(round, unread, winner, size, w, i)
           c == CHOOSE u : u = [p \in 0 .. n |-> IF p = 0 THEN walk ELSE Step(u[p - 1], pages[p])]
           Turn == [p \in 1 .. n |-> [w \in D |-> Step(w, pages[p])]]
<1>1. n \in Nat /\ \A p \in 1 .. n : pages[p] \in Page
  OBVIOUS
<1>2. ReadPages(round, unread, winner, size, pages, walk) = c[n]
  BY DEF ReadPages
<1>3. \A w \in D, i \in Page : Step(w, i) \in D /\ w.issues \subseteq Step(w, i).issues
  BY PageStepAccounts
<1> HIDE DEF n, D, Step
<1>4. Turn \in [1 .. n -> [D -> D]]
  BY <1>1, <1>3
<1>5. PICK u \in [0 .. n -> D] : LoopTable(n, walk, Turn, u)
  <2>1. walk \in D
    BY DEF D
  <2> HIDE DEF Turn
  <2> QED
    BY <1>1, <1>4, <2>1, LoopTableExists
<1>6. ASSUME NEW p \in 0 .. n, p # 0 PROVE Turn[p][u[p - 1]] = Step(u[p - 1], pages[p])
  BY <1>1, <1>6
<1>7. u = [p \in 0 .. n |-> IF p = 0 THEN walk ELSE Step(u[p - 1], pages[p])]
  BY <1>1, <1>5, <1>6 DEF LoopTable
<1>8. c = [p \in 0 .. n |-> IF p = 0 THEN walk ELSE Step(c[p - 1], pages[p])]
  BY <1>7, Zenon
<1> HIDE DEF c
<1>9. c[0] = walk /\ \A p \in 1 .. n : c[p] = Step(c[p - 1], pages[p])
  BY <1>1, <1>8
<1>10. \A p \in 0 .. n : c[p] \in D
  <2> DEFINE S == {p \in Nat : p <= n => c[p] \in D}
  <2>1. 0 \in S
    BY <1>9 DEF D
  <2>2. ASSUME NEW p \in S PROVE p + 1 \in S
    <3> SUFFICES ASSUME p + 1 <= n PROVE c[p + 1] \in D
      OBVIOUS
    <3>1. p + 1 \in 1 .. n /\ c[p] \in D /\ pages[p + 1] \in Page
      BY <1>1
    <3>2. c[p + 1] = Step(c[p], pages[p + 1])
      BY <1>9, <3>1
    <3> QED
      BY <1>3, <3>1, <3>2
  <2> HIDE DEF S
  <2>3. S = Nat
    <3>1. S \in SUBSET Nat
      BY DEF S
    <3> QED
      BY <2>1, <2>2, <3>1, NatSetInduction
  <2> QED
    BY <1>1, <2>3 DEF S
<1>11. c \in [0 .. n -> D]
  BY <1>8, <1>10
<1>12. \A p \in 1 .. n : c[p - 1].issues \subseteq c[p].issues
  <2> SUFFICES ASSUME NEW p \in 1 .. n PROVE c[p - 1].issues \subseteq c[p].issues
    OBVIOUS
  <2>1. c[p - 1] \in D /\ pages[p] \in Page /\ c[p] = Step(c[p - 1], pages[p])
    BY <1>1, <1>9, <1>10
  <2> QED
    BY <1>3, <2>1
<1> QED
  BY <1>2, <1>9, <1>11, <1>12, Zenon DEF n, D, Step, IndexTable

\* A walk that has read nothing.
LEMMA NewWalkAccounts ==
  ASSUME NEW round, NEW winner, NEW issues \in SUBSET Issues,
         round.bids \in Seq(StoredBid), winner \in DOMAIN round.bids \cup {None}
  PROVE  NewWalk(issues) \in Accounts(round, winner)
<1> DEFINE bids == round.bids
           w == NewWalk(issues)
           d == [i \in DOMAIN bids |-> IF i \in ToSet(w.seen) /\ i # winner
                                       THEN bids[i].escrow ELSE 0]
<1>1. /\ w.seen = <<>> /\ w.held = 0 /\ w.refundable = 0 /\ w.won = 0 /\ w \in Walks
  BY DEF NewWalk, Walks
<1> HIDE DEF w
<1>2. ToSet(w.seen) = {}
  BY <1>1 DEF ToSet
<1>3. Len(bids) \in Nat /\ DOMAIN bids = 1 .. Len(bids)
  OBVIOUS
<1>4. \A i \in 1 .. Len(bids) : d[i] = 0
  BY <1>2, <1>3
<1>5. Sum(d, Len(bids)) = 0
  <2> HIDE DEF d
  <2> QED
    BY <1>3, <1>4, SumAllZero
<1>6. Accounted(bids, winner, w)
  <2>1. /\ w.refundable = Sum(d, Len(bids)) /\ winner \notin ToSet(w.seen)
        /\ ToSet(w.seen) \subseteq DOMAIN bids /\ w.won = 0 /\ w.held = w.refundable + w.won
    BY <1>1, <1>2, <1>5
  <2> QED
    BY <2>1, Zenon DEF Accounted
<1> QED
  BY <1>1, <1>6 DEF Accounts, w

\* The walk is compared with the round, and nothing of what it has read changes.
LEMMA CrossCheckedWalk ==
  ASSUME NEW walk \in Walks, NEW winner, NEW expected
  PROVE  LET w == CrossChecked(walk, winner, expected)
         IN  /\ w \in Walks
             /\ w.seen = walk.seen /\ w.held = walk.held /\ w.refundable = walk.refundable
             /\ w.won = walk.won
             /\ w.issues = {} <=> /\ walk.issues = {}
                                  /\ winner \in ToSet(walk.seen) \cup {None}
                                  /\ expected = ToSet(walk.seen)
                                  /\ walk.total \in {None, Len(walk.seen)}
<1> DEFINE A == IF winner # None /\ winner \notin ToSet(walk.seen)
                THEN {"winner_not_indexed"} ELSE {}
           B == IF expected # ToSet(walk.seen) THEN {"index_mismatch"} ELSE {}
           C == IF walk.total # None /\ Len(walk.seen) # walk.total
                THEN {"page_count_mismatch"} ELSE {}
           more == walk.issues \cup A \cup B \cup C
           w == [walk EXCEPT !.issues = more]
<1>1. w = CrossChecked(walk, winner, expected)
  BY DEF CrossChecked
<1>2. /\ A = {} <=> winner \in ToSet(walk.seen) \cup {None}
      /\ B = {} <=> expected = ToSet(walk.seen)
      /\ C = {} <=> walk.total \in {None, Len(walk.seen)}
  OBVIOUS
<1>3. more \subseteq Issues
  <2>1. A \subseteq {"winner_not_indexed"} /\ B \subseteq {"index_mismatch"}
        /\ C \subseteq {"page_count_mismatch"}
    OBVIOUS
  <2> HIDE DEF A, B, C
  <2> QED
    BY <2>1, WalkFields DEF Issues
<1>4. more = {} <=> walk.issues = {} /\ A = {} /\ B = {} /\ C = {}
  <2> HIDE DEF A, B, C
  <2> QED
    OBVIOUS
<1> HIDE DEF A, B, C, more
<1>5. /\ w \in Walks
      /\ w.seen = walk.seen /\ w.held = walk.held /\ w.refundable = walk.refundable
      /\ w.won = walk.won /\ w.issues = more
  BY <1>3 DEF Walks
<1> HIDE DEF w
<1> QED
  BY <1>1, <1>2, <1>4, <1>5

\* What a proof for a settle comes to: w is the walk at its end.
Proved(round, size, pages, unread, w) ==
    LET report == ProveForPhase(round, "settle", size, pages, unread)
        payable == IF round.winner # None THEN round.bid ELSE 0
        walk == ReadPages(round, unread, round.winner, size, pages, NewWalk(RoundIssues(round, "settle")))
        throws == size \in 1 .. ESCROW_PAGE_SIZE /\ ~walk.done
    IN  /\ throws => ~report.conserved
        /\ ~throws =>
             /\ report.totals = [held |-> w.held, refundable |-> w.refundable,
                                 payable |-> payable, won |-> w.won]
             /\ report.surplus = w.won - payable
             /\ report.conserved <=>
                  /\ w.issues = {} /\ w.held >= 0 /\ w.refundable >= 0 /\ payable >= 0 /\ w.won >= 0
                  /\ w.won - payable >= 0
                  /\ w.held - (w.refundable + payable + (w.won - payable)) = 0
        /\ w = IF size \notin 1 .. ESCROW_PAGE_SIZE
               THEN NewWalk(RoundIssues(round, "settle") \cup {"cursor_stalled"})
               ELSE CrossChecked(walk, round.winner, DOMAIN round.bids)

\* The walk behind the proof of a settle.
LEMMA ProofOfSettle ==
  ASSUME NEW round, NEW size, NEW pages, NEW unread
  PROVE  \E w : Proved(round, size, pages, unread, w)
<1> DEFINE payable == IF round.winner # None THEN round.bid ELSE 0
           issues == RoundIssues(round, "settle")
           walk == ReadPages(round, unread, round.winner, size, pages, NewWalk(issues))
           throws == size \in 1 .. ESCROW_PAGE_SIZE /\ ~walk.done
           w == IF size \notin 1 .. ESCROW_PAGE_SIZE THEN NewWalk(issues \cup {"cursor_stalled"})
                ELSE CrossChecked(walk, round.winner, DOMAIN round.bids)
           totals == [held |-> w.held, refundable |-> w.refundable,
                      payable |-> payable, won |-> w.won]
           report == ProveForPhase(round, "settle", size, pages, unread)
<1>1. (IF round.winner # None THEN round.winner ELSE None) = round.winner
  OBVIOUS
<1>2. report = IF throws THEN Thrown ELSE EvaluateConservation(w, payable)
  <2>1. report = IF size \notin 1 .. ESCROW_PAGE_SIZE
                 THEN EvaluateConservation(NewWalk(issues \cup {"cursor_stalled"}), payable)
                 ELSE IF ~walk.done THEN Thrown
                 ELSE EvaluateConservation(CrossChecked(walk, round.winner, DOMAIN round.bids), payable)
    BY <1>1, Zenon DEF ProveForPhase, ProveFromPages
  <2> HIDE DEF report, walk, payable, issues
  <2> QED
    BY <2>1, Zenon
<1> HIDE DEF w, walk, payable, report
<1>0. throws => ~report.conserved
  BY <1>2 DEF Thrown
<1>3. ~throws =>
        /\ report.totals = totals /\ report.surplus = Surplus(totals)
        /\ report.conserved <=> IsEscrowConserved(totals, w.issues)
  BY <1>2, Zenon DEF EvaluateConservation
<1>4. /\ totals.held = w.held /\ totals.refundable = w.refundable
      /\ totals.payable = payable /\ totals.won = w.won
  OBVIOUS
<1> HIDE DEF totals
<1>5. Surplus(totals) = w.won - payable
  BY <1>4 DEF Surplus
<1>6. Stranded(totals) = w.held - (w.refundable + payable + (w.won - payable))
  BY <1>4, <1>5 DEF Stranded
<1>7. IsEscrowConserved(totals, w.issues) <=>
         /\ w.issues = {} /\ w.held >= 0 /\ w.refundable >= 0 /\ payable >= 0 /\ w.won >= 0
         /\ w.won - payable >= 0
         /\ w.held - (w.refundable + payable + (w.won - payable)) = 0
  BY <1>4, <1>5, <1>6 DEF IsEscrowConserved, Totals
<1>8. Proved(round, size, pages, unread, w)
  BY <1>0, <1>3, <1>5, <1>7, Zenon DEF Proved, totals, payable, report, w, walk
<1> QED
  BY <1>8

\* What a settle pays, by bidder.
LEMMA SettlePays ==
  ASSUME NEW bids \in Seq(StoredBid), NEW rule \in {"HighestBid", "LowestBid"},
         NEW round, round = ContractRound("Cleared", rule, bids), round.winner # None
  PROVE  /\ DOMAIN ContractPays("settle", round) = DOMAIN round.bids
         /\ \A i \in DOMAIN round.bids :
               ContractPays("settle", round)[i] =
                 IF i = round.winner THEN round.bids[i].escrow - round.bid
                                     ELSE round.bids[i].escrow
<1>1. \A i \in DOMAIN round.bids : ~round.bids[i].settled
  <2> DEFINE status == "Cleared"
  <2>1. status \in RoundStatus /\ status \notin {"Settled", "Voided"}
    BY DEF RoundStatus
  <2>2. round = ContractRound(status, rule, bids)
    OBVIOUS
  <2> HIDE DEF status
  <2>3. \A i \in DOMAIN round.bids : round.bids[i].settled = (status \in {"Settled", "Voided"})
    BY <2>1, <2>2, ContractRoundFields
  <2> QED
    BY <2>1, <2>3
<1>2. {j \in DOMAIN round.bids : ~round.bids[j].settled} = DOMAIN round.bids
  BY <1>1
<1>3. ContractPays("settle", round) =
        [i \in DOMAIN round.bids |->
           IF i = round.winner THEN round.bids[i].escrow - round.bid ELSE round.bids[i].escrow]
  BY <1>2 DEF ContractPays
<1> QED
  BY <1>3

\* Issues are never lost on the way.
LEMMA IssuesStay ==
  ASSUME NEW round, NEW unread, NEW winner, NEW size, NEW pages \in Seq(Page), NEW walk, NEW c,
         IndexTable(round, unread, winner, size, pages, walk, c)
  PROVE  /\ c[Len(pages)] \in Accounts(round, winner)
         /\ walk.issues \subseteq c[Len(pages)].issues
<1> DEFINE n == Len(pages)
           S == {p \in Nat : p <= n => walk.issues \subseteq c[p].issues}
<1>1. /\ n \in Nat /\ c \in [0 .. n -> Accounts(round, winner)] /\ c[0] = walk
      /\ \A p \in 1 .. n : c[p - 1].issues \subseteq c[p].issues
  BY DEF IndexTable
<1> HIDE DEF n
<1>2. 0 \in S
  BY <1>1
<1>3. ASSUME NEW p \in S PROVE p + 1 \in S
  <2> SUFFICES ASSUME p + 1 <= n PROVE walk.issues \subseteq c[p + 1].issues
    OBVIOUS
  <2>1. walk.issues \subseteq c[p].issues
    BY <1>1
  <2>2. p + 1 \in 1 .. n /\ p + 1 - 1 = p
    BY <1>1
  <2>3. c[p].issues \subseteq c[p + 1].issues
    BY <1>1, <2>2
  <2> QED
    BY <2>1, <2>3
<1> HIDE DEF S
<1>4. S = Nat
  <2>1. S \in SUBSET Nat
    BY DEF S
  <2> QED
    BY <1>2, <1>3, <2>1, NatSetInduction
<1>5. walk.issues \subseteq c[n].issues /\ c[n] \in Accounts(round, winner)
  BY <1>1, <1>4 DEF S
<1> QED
  BY <1>5 DEF n

\* A walk without an issue has read the round to the end.
LEMMA CleanWalk ==
  ASSUME NEW bids \in Seq(StoredBid), NEW rule \in {"HighestBid", "LowestBid"},
         NEW status \in RoundStatus, NEW round, round = ContractRound(status, rule, bids),
         NEW size \in Int, NEW pages \in Seq(Page), NEW unread, NEW w,
         Proved(round, size, pages, unread, w), w.issues = {}
  PROVE  /\ status = "Cleared" /\ round.winner # None
         /\ w.seen \in Seq(Nat) /\ ToSet(w.seen) = DOMAIN round.bids
         /\ Accounted(round.bids, round.winner, w)
<1> DEFINE issues == RoundIssues(round, "settle")
           walk == ReadPages(round, unread, round.winner, size, pages, NewWalk(issues))
<1>1. /\ round.bids \in Seq(StoredBid) /\ round.status = status
      /\ round.winner \in DOMAIN round.bids \cup {None}
  BY ContractRoundFields
<1>2. issues \subseteq Issues
  BY DEF RoundIssues, Issues
<1>3. issues = {} => status = "Cleared" /\ round.winner # None
  BY <1>1 DEF RoundIssues
<1>4. w = IF size \notin 1 .. ESCROW_PAGE_SIZE THEN NewWalk(issues \cup {"cursor_stalled"})
          ELSE CrossChecked(walk, round.winner, DOMAIN round.bids)
  BY Zenon DEF Proved
<1> HIDE DEF issues
<1>5. NewWalk(issues \cup {"cursor_stalled"}).issues # {}
  BY DEF NewWalk
<1>6. w = CrossChecked(walk, round.winner, DOMAIN round.bids)
  BY <1>4, <1>5
<1>7. NewWalk(issues) \in Accounts(round, round.winner) /\ NewWalk(issues).issues = issues
  BY <1>1, <1>2, NewWalkAccounts DEF NewWalk
<1>8. PICK c : IndexTable(round, unread, round.winner, size, pages, NewWalk(issues), c)
  BY <1>1, <1>7, ReadPagesTable
<1>9. walk = c[Len(pages)]
  BY <1>8 DEF IndexTable
<1> HIDE DEF walk
<1>10. walk \in Accounts(round, round.winner) /\ issues \subseteq walk.issues
  BY <1>7, <1>8, <1>9, IssuesStay
<1>11. walk \in Walks /\ Accounted(round.bids, round.winner, walk)
  BY <1>10 DEF Accounts
<1>12. /\ w.seen = walk.seen /\ w.held = walk.held /\ w.refundable = walk.refundable
       /\ w.won = walk.won
       /\ walk.issues = {} /\ DOMAIN round.bids = ToSet(walk.seen)
  BY <1>6, <1>11, CrossCheckedWalk
<1>13. walk.seen \in Seq(Nat)
  BY <1>11, WalkFields
<1>14. Accounted(round.bids, round.winner, w)
  BY <1>11, <1>12, Zenon DEF Accounted
<1> QED
  BY <1>3, <1>10, <1>12, <1>13, <1>14

\* A settle that is proved is accepted and pays what the report says.
LEMMA ProvedIsPaid ==
  ASSUME NEW bids \in Seq(StoredBid), NEW rule \in {"HighestBid", "LowestBid"},
         NEW status \in RoundStatus, NEW round, round = ContractRound(status, rule, bids),
         NEW size \in Int, NEW pages \in Seq(Page), NEW unread, NEW report,
         report = ProveForPhase(round, "settle", size, pages, unread),
         report.conserved, NEW pays, pays = ContractPays("settle", round)
  PROVE  /\ ContractAccepts("settle", round, 0)
         /\ report.totals.refundable =
              Sum([i \in DOMAIN round.bids |-> IF i = round.winner THEN 0 ELSE pays[i]],
                  Len(round.bids))
         /\ report.surplus = pays[round.winner]
         /\ report.totals.payable = round.bid
<1> DEFINE best == round.winner
           n == Len(round.bids)
           refunds == [i \in DOMAIN round.bids |-> IF i = best THEN 0 ELSE pays[i]]
<1>1. PICK w : Proved(round, size, pages, unread, w)
  BY ProofOfSettle
<1>2. /\ report.totals = [held |-> w.held, refundable |-> w.refundable,
                          payable |-> IF best # None THEN round.bid ELSE 0, won |-> w.won]
      /\ report.surplus = w.won - (IF best # None THEN round.bid ELSE 0)
      /\ w.issues = {}
  BY <1>1, Zenon DEF Proved
<1>3. /\ status = "Cleared" /\ best # None /\ ToSet(w.seen) = DOMAIN round.bids
      /\ Accounted(round.bids, best, w)
  BY <1>1, <1>2, CleanWalk
<1>4. /\ round.status = "Cleared" /\ round.bids \in Seq(StoredBid)
      /\ best \in DOMAIN round.bids /\ round.bid \in Nat
  BY <1>3, ContractRoundFields
<1>5. ContractAccepts("settle", round, 0)
  BY <1>3, <1>4 DEF ContractAccepts
<1>6. \A i \in DOMAIN round.bids :
         pays[i] = IF i = best THEN round.bids[i].escrow - round.bid ELSE round.bids[i].escrow
  BY <1>3, SettlePays
<1> DEFINE d == [i \in DOMAIN round.bids |-> IF i \in ToSet(w.seen) /\ i # best
                                            THEN round.bids[i].escrow ELSE 0]
<1>7. /\ w.refundable = Sum(d, n)
      /\ w.won = IF best \in ToSet(w.seen) THEN round.bids[best].escrow ELSE 0
  BY <1>2, <1>3, Zenon DEF Accounted
<1>8. n \in Nat /\ DOMAIN round.bids = 1 .. n
  BY <1>4
<1>9. \A i \in 1 .. n : d[i] = refunds[i]
  BY <1>3, <1>6, <1>8
<1>10. w.refundable = Sum(refunds, n)
  <2> HIDE DEF d, refunds, n
  <2> QED
    BY <1>7, <1>8, <1>9, SumCongruence
<1>11. w.won = round.bids[best].escrow
  BY <1>3, <1>4, <1>7
<1>12. report.surplus = pays[best]
  BY <1>2, <1>3, <1>4, <1>6, <1>11
<1>13. report.totals.refundable = w.refundable /\ report.totals.payable = round.bid
  BY <1>2, <1>3
<1> QED
  BY <1>5, <1>10, <1>12, <1>13

\* The quotient of a division by a positive number.
LEMMA Quotient ==
  ASSUME NEW a \in Nat, NEW s \in Nat \ {0}
  PROVE  LET q == a \div s IN q \in Nat /\ q * s <= a /\ a < q * s + s
<1>1. a = s * (a \div s) + (a % s)
  OBVIOUS
<1>2. a % s \in 0 .. s - 1 /\ a \div s \in Int
  OBVIOUS
<1> DEFINE q == a \div s
<1>3. q \in Int
  OBVIOUS
<1>4. q >= 0
  OBVIOUS
<1> HIDE DEF q
<1>5. s * q = q * s
  BY <1>3
<1> QED
  BY <1>1, <1>2, <1>3, <1>4, <1>5 DEF q

\* Multiples of s keep their order.
LEMMA Products ==
  ASSUME NEW p \in Nat, NEW q \in Nat, NEW s \in Nat \ {0}
  PROVE  /\ p * s \in Nat /\ (p + 1) * s = p * s + s
         /\ p <= q => p * s <= q * s
         /\ p < q => p * s + s <= q * s
<1>1. p * s \in Nat
  OBVIOUS
<1>2. (p + 1) * s = p * s + s
  OBVIOUS
<1>3. p <= q => p * s <= q * s
  OBVIOUS
<1>4. p < q => p * s + s <= q * s
  OBVIOUS
<1> QED
  BY <1>1, <1>2, <1>3, <1>4

\* The first m bidders, in order.
Numbers(m) == [i \in 1 .. m |-> i]

\* The m bidders after the first from ones.
FromTo(from, m) == [k \in 1 .. m |-> from + k]

\* pages lists the bidders 1 .. n in count pages of the given size.
HonestPage(page, p, count, n, size) ==
    LET from == (p - 1) * size
        upTo == IF p = count THEN n ELSE p * size
    IN  /\ from \in Nat /\ upTo \in from .. n /\ upTo <= from + size
        /\ p < count => from < upTo /\ upTo < n
        /\ page.total = n
        /\ page.next = IF p = count THEN 0 ELSE upTo
        /\ page.data = FromTo(from, upTo - from)

Honest(pages, count, n, size) ==
    /\ count \in Nat \ {0} /\ Len(pages) = count
    /\ \A p \in 1 .. count : HonestPage(pages[p], p, count, n, size)

\* An index in pages, and how many there are.
LEMMA HonestPagesAre ==
  ASSUME NEW n \in Nat, NEW size \in Nat \ {0}
  PROVE  Honest(HonestPages(n, size), IF n = 0 THEN 1 ELSE PagesFor(n, size), n, size)
<1> DEFINE count == IF n = 0 THEN 1 ELSE PagesFor(n, size)
           pages == HonestPages(n, size)
<1>1. count \in Nat \ {0} /\ (count - 1) * size <= n /\ n <= (count - 1) * size + size
  <2>1. CASE n = 0
    BY <2>1
  <2>2. CASE n # 0
    <3> DEFINE a == n + size - 1
    <3>1. a \in Nat /\ count = a \div size
      BY <2>2 DEF PagesFor
    <3> HIDE DEF a, count
    <3>2. count \in Nat /\ count * size <= a /\ a < count * size + size
      BY <3>1, Quotient
    <3>3. count # 0
      BY <2>2, <3>2 DEF a
    <3>4. count - 1 \in Nat /\ (count - 1) * size + size = count * size
                            /\ (count - 1) * size \in Nat
      BY <3>2, <3>3
    <3> QED
      BY <3>2, <3>3, <3>4 DEF a
  <2> QED
    BY <2>1, <2>2
<1>2. pages = [p \in 1 .. count |->
           [total |-> n, next |-> IF p = count THEN 0 ELSE p * size,
            data |-> [k \in 1 .. IF p = count THEN n - (p - 1) * size ELSE size
                        |-> (p - 1) * size + k]]]
  BY DEF HonestPages
<1> HIDE DEF count, pages
<1>3. Len(pages) = count
  BY <1>1, <1>2
<1>4. ASSUME NEW p \in 1 .. count PROVE HonestPage(pages[p], p, count, n, size)
  <2> DEFINE from == (p - 1) * size
             upTo == IF p = count THEN n ELSE p * size
  <2>1. from \in Nat /\ p - 1 \in Nat /\ p \in Nat /\ count \in Nat
    BY <1>1, <1>4
  <2>2. CASE p = count
    <3>1. upTo = n /\ from <= n /\ n <= from + size
      BY <1>1, <1>4, <2>2
    <3>2. pages[p] = [total |-> n, next |-> 0,
                      data |-> [k \in 1 .. n - from |-> from + k]]
      BY <1>2, <1>4, <2>2
    <3>3. /\ from \in Nat /\ upTo \in from .. n /\ upTo <= from + size
          /\ p < count => from < upTo /\ upTo < n
          /\ pages[p].total = n
          /\ pages[p].next = IF p = count THEN 0 ELSE upTo
          /\ pages[p].data = FromTo(from, upTo - from)
      <4> HIDE DEF from, upTo
      <4> QED
        BY <2>1, <2>2, <3>1, <3>2 DEF FromTo
    <3> QED
      BY <2>2, <3>3, Zenon DEF HonestPage
  <2>3. CASE p # count
    <3>1. upTo = p * size /\ p * size \in Nat /\ p * size = from + size
      BY <1>4, <2>1, <2>3
    <3>2. upTo <= (count - 1) * size
      <4>1. p <= count - 1 /\ count - 1 \in Nat
        BY <2>1, <2>3
      <4> QED
        BY <2>1, <3>1, <4>1, Products
    <3>3. pages[p] = [total |-> n, next |-> upTo, data |-> [k \in 1 .. size |-> from + k]]
      BY <1>2, <1>4, <2>3, <3>1
    <3>4. upTo - from = size /\ upTo <= n
      BY <1>1, <2>1, <3>1, <3>2
    <3>5. upTo < n
      <4>1. CASE n = 0
        BY <2>3, <4>1, <1>1, <2>1 DEF count
      <4>2. CASE n # 0
        <5> DEFINE a == n + size - 1
        <5>1. a \in Nat /\ count = a \div size
          BY <4>2 DEF PagesFor, count
        <5> HIDE DEF a
        <5>2. count * size <= a
          BY <5>1, Quotient
        <5>3. count * size = (count - 1) * size + size /\ (count - 1) * size \in Nat
          BY <1>1
        <5>4. (count - 1) * size + size <= n + size - 1
          BY <5>2, <5>3 DEF a
        <5> QED
          BY <3>1, <3>2, <5>3, <5>4
      <4> QED
        BY <4>1, <4>2
    <3>6. /\ from \in Nat /\ upTo \in from .. n /\ upTo <= from + size
          /\ p < count => from < upTo /\ upTo < n
          /\ pages[p].total = n
          /\ pages[p].next = IF p = count THEN 0 ELSE upTo
          /\ pages[p].data = FromTo(from, upTo - from)
      <4> HIDE DEF from, upTo
      <4> QED
        BY <2>1, <2>3, <3>1, <3>3, <3>4, <3>5 DEF FromTo
    <3> QED
      BY <2>3, <3>6, Zenon DEF HonestPage
  <2> QED
    BY <2>2, <2>3
<1>5. Honest(pages, count, n, size)
  BY <1>1, <1>3, <1>4, Zenon DEF Honest
<1> QED
  BY <1>5, Zenon DEF count, pages

\* A longer list has no fewer pages.
LEMMA PagesGrow ==
  ASSUME NEW n \in Nat \ {0}, NEW max \in Nat, n <= max, NEW size \in Nat \ {0}
  PROVE  PagesFor(n, size) \in Nat /\ PagesFor(max, size) \in Nat
         /\ PagesFor(n, size) <= PagesFor(max, size)
<1> DEFINE a == n + size - 1
           b == max + size - 1
           q == a \div size
           r == b \div size
<1>1. a \in Nat /\ b \in Nat /\ a <= b
  OBVIOUS
<1> HIDE DEF a, b
<1>2. q \in Nat /\ q * size <= a /\ r \in Nat /\ b < r * size + size
  BY <1>1, Quotient
<1> HIDE DEF q, r
<1>3. ~(r < q)
  <2> SUFFICES ASSUME r < q PROVE FALSE
    OBVIOUS
  <2>1. r * size + size <= q * size /\ r * size \in Nat /\ q * size \in Nat
    BY <1>2, Products
  <2> QED
    BY <1>1, <1>2, <2>1
<1> QED
  BY <1>2, <1>3 DEF PagesFor, q, r, a, b

\* The first m numbers, in order.
LEMMA NumbersAre ==
  ASSUME NEW m \in Nat
  PROVE  /\ Numbers(m) \in Seq(Nat) /\ Len(Numbers(m)) = m /\ ToSet(Numbers(m)) = 1 .. m
         /\ Append(Numbers(m), m + 1) = Numbers(m + 1)
<1>1. Numbers(m) \in Seq(Nat) /\ Len(Numbers(m)) = m
  BY DEF Numbers
<1>2. ToSet(Numbers(m)) = 1 .. m
  BY DEF Numbers, ToSet
<1>3. Append(Numbers(m), m + 1) = Numbers(m + 1)
  BY DEF Numbers
<1> QED
  BY <1>1, <1>2, <1>3

\* Nobody of the round is paid yet.
NoneSettled(round) == \A i \in DOMAIN round.bids : ~round.bids[i].settled

\* A bidder is added to those seen, and no issue.
Reads(step, walk, i) == step.seen = Append(walk.seen, i) /\ step.issues = walk.issues

\* A bidder not seen before, whose state is read and who is not paid yet.
LEMMA BidderIsRead ==
  ASSUME NEW round, NEW unread, NEW winner, NEW walk \in Walks, NEW i \in Nat, i \notin unread,
         round.bids \in Seq(StoredBid), i \notin ToSet(walk.seen), i \in DOMAIN round.bids,
         NoneSettled(round)
  PROVE  LET step == BidderStep(round, unread, winner, walk, i)
         IN  Reads(step, walk, i)
<1> DEFINE b == round.bids[i]
           new == [walk EXCEPT !.seen = Append(@, i)]
           sum == new.held + b.escrow
           held == [new EXCEPT !.held = sum]
           won == held.won + b.escrow
           back == held.refundable + b.escrow
           step == BidderStep(round, unread, winner, walk, i)
<1>1. step = IF i = winner THEN [held EXCEPT !.won = won] ELSE [held EXCEPT !.refundable = back]
  BY DEF BidderStep, NoneSettled
<1>2. b.escrow \in Int
  BY DEF StoredBid
<1> HIDE DEF step, b
<1>3. new \in Walks /\ new.seen = Append(walk.seen, i) /\ new.issues = walk.issues
  <2>1. walk.seen \in Seq(Nat)
    BY WalkFields
  <2> DEFINE longer == Append(walk.seen, i)
  <2>2. longer \in Seq(Nat)
    BY <2>1
  <2> HIDE DEF longer
  <2>3. /\ [walk EXCEPT !.seen = longer] \in Walks
        /\ [walk EXCEPT !.seen = longer].seen = longer
        /\ [walk EXCEPT !.seen = longer].issues = walk.issues
    BY <2>2 DEF Walks, longer
  <2> QED
    BY <2>3 DEF longer
<1>4. sum \in Int
  BY <1>2, <1>3, WalkFields
<1> HIDE DEF new, sum
<1>5. held \in Walks /\ held.seen = new.seen /\ held.issues = new.issues
  BY <1>3, <1>4, WalkWithHeld
<1> HIDE DEF held
<1>6. won \in Int /\ back \in Int
  BY <1>2, <1>5, WalkFields
<1> HIDE DEF won, back
<1>7. step.seen = held.seen /\ step.issues = held.issues
  BY <1>1, <1>5, <1>6, WalkWithWon, WalkWithRefundable
<1> QED
  BY <1>3, <1>5, <1>7 DEF step, Reads

\* The bidders of an honest page.
LEMMA PageIsRead ==
  ASSUME NEW round, NEW unread, unread = {}, NEW winner, NEW walk \in Accounts(round, winner),
         NEW from \in Nat, NEW m \in Nat, NEW data, data = FromTo(from, m),
         walk.seen = Numbers(from),
         round.bids \in Seq(StoredBid), winner \in DOMAIN round.bids \cup {None},
         from + m <= Len(round.bids), NoneSettled(round)
  PROVE  LET read == ReadPage(round, unread, winner, walk, data)
         IN  read.seen = Numbers(from + m) /\ read.issues = walk.issues
<1> DEFINE read == ReadPage(round, unread, winner, walk, data)
<1>0. data \in Seq(Nat) /\ Len(data) = m
  BY DEF FromTo
<1>1. PICK c : PageTable(round, unread, winner, walk, data, c)
  BY <1>0, ReadPageTable
<1>2. /\ c \in [0 .. m -> Accounts(round, winner)] /\ read = c[m] /\ c[0] = walk
      /\ \A k \in 1 .. m : c[k] = BidderStep(round, unread, winner, c[k - 1], data[k])
  BY <1>0, <1>1 DEF PageTable
<1> HIDE DEF read
<1> DEFINE S == {k \in Nat : k <= m => c[k].seen = Numbers(from + k) /\ c[k].issues = walk.issues}
<1>3. 0 \in S
  BY <1>2
<1>4. ASSUME NEW k \in S PROVE k + 1 \in S
  <2> SUFFICES ASSUME k + 1 <= m
               PROVE  c[k + 1].seen = Numbers(from + (k + 1)) /\ c[k + 1].issues = walk.issues
    OBVIOUS
  <2> DEFINE i == from + k + 1
  <2>1. /\ c[k].seen = Numbers(from + k) /\ c[k].issues = walk.issues
        /\ c[k] \in Walks
    BY <1>2 DEF Accounts
  <2>2. c[k + 1] = BidderStep(round, unread, winner, c[k], i)
    <3>1. k + 1 \in 1 .. m /\ k + 1 - 1 = k /\ data[k + 1] = i
      BY DEF FromTo
    <3> HIDE DEF i
    <3> QED
      BY <1>2, <3>1
  <2>3. /\ i \in Nat /\ i \in DOMAIN round.bids /\ i \notin 1 .. from + k
        /\ from + k \in Nat /\ i = (from + k) + 1 /\ i = from + (k + 1)
    OBVIOUS
  <2> HIDE DEF i
  <2>4. i \notin ToSet(c[k].seen)
    BY <2>1, <2>3, NumbersAre
  <2>5. c[k + 1].seen = Append(c[k].seen, i) /\ c[k + 1].issues = c[k].issues
    <3>1. Reads(c[k + 1], c[k], i)
      BY <2>1, <2>2, <2>3, <2>4, BidderIsRead
    <3> QED
      BY <3>1 DEF Reads
  <2>6. Append(Numbers(from + k), i) = Numbers(i)
    BY <2>3, NumbersAre
  <2> QED
    BY <2>1, <2>3, <2>5, <2>6
<1> HIDE DEF S
<1>5. S = Nat
  <2>1. S \in SUBSET Nat
    BY DEF S
  <2> QED
    BY <1>3, <1>4, <2>1, NatSetInduction
<1>6. c[m].seen = Numbers(from + m) /\ c[m].issues = walk.issues
  BY <1>5 DEF S
<1> QED
  BY <1>2, <1>6 DEF read

\* What the walk of an honest index is after its first p pages.
OnTheWay(w, p, count, n, size) ==
    /\ w.issues = {} /\ w.pages = p /\ w.total \in {None, n}
    /\ w.seen = Numbers(IF p = count THEN n ELSE p * size)
    /\ p < count => w.cursor = p * size /\ w.done = FALSE
    /\ p = count => w.total = n /\ w.done = TRUE

\* One honest page.
LEMMA HonestPageStep ==
  ASSUME NEW round, NEW unread, unread = {}, NEW winner, NEW size \in 1 .. ESCROW_PAGE_SIZE,
         NEW n \in Nat, n # 0, n = Len(round.bids), n <= ESCROW_MAX_BIDDERS,
         round.bids \in Seq(StoredBid), winner \in DOMAIN round.bids \cup {None},
         NoneSettled(round),
         NEW count \in Nat, count <= PagesFor(ESCROW_MAX_BIDDERS, size),
         NEW p \in 1 .. count, NEW page \in Page, HonestPage(page, p, count, n, size),
         NEW walk \in Accounts(round, winner), OnTheWay(walk, p - 1, count, n, size)
  PROVE  OnTheWay(PageStep(round, unread, winner, size, walk, page), p, count, n, size)
<1> DEFINE from == (p - 1) * size
           upTo == IF p = count THEN n ELSE p * size
           m == upTo - from
           read == ReadPage(round, unread, winner, walk, page.data)
           next == Counted(read, page)
           last == Ended(read, page)
           on == GoneOn(read, page)
           step == PageStep(round, unread, winner, size, walk, page)
<1>0. p - 1 \in Nat /\ p - 1 < count /\ p - 1 # count /\ p \in Nat
  OBVIOUS
<1>1. /\ from \in Nat /\ upTo \in from .. n /\ (p < count => from < upTo /\ upTo < n)
      /\ page.total = n /\ page.next = IF p = count THEN 0 ELSE upTo
      /\ page.data = FromTo(from, m)
  BY Zenon DEF HonestPage
<1>2. /\ walk.issues = {} /\ walk.pages = p - 1 /\ walk.total \in {None, n}
      /\ walk.seen = Numbers(from) /\ walk.cursor = from /\ walk.done = FALSE
  BY <1>0 DEF OnTheWay
<1>3. page.data \in Seq(Nat) /\ page.next \in Nat /\ page.total \in Nat
  BY DEF Page
<1>4. step = IF Len(next.seen) > ESCROW_MAX_BIDDERS THEN Noted(last, "page_count_mismatch")
             ELSE IF page.next = 0 THEN last
             ELSE IF \/ page.next <= walk.cursor \/ page.next > ESCROW_MAX_BIDDERS
                     \/ next.pages > PagesFor(ESCROW_MAX_BIDDERS, size)
                  THEN Noted(last, "cursor_stalled")
             ELSE on
  <2>1. (IF walk.total \in {None, page.total} THEN walk ELSE Noted(walk, "page_total_drift")) = walk
    BY <1>1, <1>2
  <2> QED
    BY <1>2, <2>1, Zenon DEF PageStep, Counted, Ended, GoneOn
<1> SUFFICES OnTheWay(step, p, count, n, size)
  OBVIOUS
<1> HIDE DEF step, from, upTo
<1>5. m \in Nat /\ from + m = upTo /\ upTo \in Nat
  BY <1>1
<1> HIDE DEF m
<1>6. read.seen = Numbers(upTo) /\ read.issues = {}
  <2>1. from + m <= Len(round.bids)
    BY <1>1, <1>5
  <2>2. read.seen = Numbers(from + m) /\ read.issues = walk.issues
    <3> HIDE DEF read
    <3> QED
      BY <1>1, <1>2, <1>5, <2>1, PageIsRead DEF read
  <2> QED
    BY <1>2, <1>5, <2>2
<1>7. read \in Walks /\ Alike(read, walk)
  BY <1>3, ReadPageAccounts DEF Accounts
<1>8. read.total = walk.total /\ read.pages = p - 1 /\ read.done = FALSE
  BY <1>2, <1>7 DEF Alike
<1> HIDE DEF read
<1>9. /\ \A w \in {next, last, on} :
            /\ w.seen = read.seen /\ w.issues = read.issues /\ w.pages = read.pages + 1
            /\ w.total = IF read.total = None THEN page.total ELSE read.total
      /\ on.cursor = page.next /\ on.done = read.done
  BY <1>3, <1>7, CountedWalk DEF Taken
<1>90. last.done = TRUE
  BY <1>7, EndedIsDone
<1> HIDE DEF next, last, on
<1>10. /\ next.seen = Numbers(upTo) /\ last.seen = Numbers(upTo) /\ on.seen = Numbers(upTo)
       /\ last.issues = {} /\ on.issues = {} /\ next.pages = p /\ last.pages = p /\ on.pages = p
       /\ last.total = n /\ on.total = n
  BY <1>0, <1>1, <1>2, <1>6, <1>8, <1>9
<1>11. Len(next.seen) = upTo
  BY <1>5, <1>10, NumbersAre
<1>12. ESCROW_MAX_BIDDERS \in Nat /\ PagesFor(ESCROW_MAX_BIDDERS, size) \in Int
  BY ConservationAssumption DEF PagesFor
<1>13. CASE p = count
  <2>1. step = last
    BY <1>1, <1>4, <1>5, <1>11, <1>12, <1>13
  <2> QED
    BY <1>0, <1>90, <1>10, <1>13, <2>1 DEF OnTheWay, upTo
<1>14. CASE p # count
  <2>1. p < count
    BY <1>14
  <2>2. step = on
    BY <1>0, <1>1, <1>2, <1>4, <1>5, <1>10, <1>11, <1>12, <1>14, <2>1
  <2>3. on.cursor = upTo /\ on.done = FALSE /\ upTo = p * size
    BY <1>1, <1>8, <1>9, <1>14 DEF upTo
  <2> QED
    BY <1>10, <1>14, <2>1, <2>2, <2>3 DEF OnTheWay
<1> QED
  BY <1>13, <1>14

\* An index that lists every bidder of a round that pays nobody twice.
HonestIndex(round, size, pages) ==
    LET n == Len(round.bids)
    IN  /\ size \in 1 .. ESCROW_PAGE_SIZE /\ n \in 1 .. ESCROW_MAX_BIDDERS
        /\ round.bids \in Seq(StoredBid) /\ NoneSettled(round)
        /\ pages \in Seq(Page) /\ pages = HonestPages(n, size)

\* A walk that has read every bidder without an issue.
ReadAll(round, winner, walk) ==
    /\ walk \in Accounts(round, winner) /\ walk.issues = {} /\ walk.done = TRUE
    /\ walk.total = Len(round.bids) /\ walk.seen = Numbers(Len(round.bids))

\* The walk of an honest index ends with everybody read and no issue.
LEMMA HonestWalk ==
  ASSUME NEW round, NEW size, NEW pages, HonestIndex(round, size, pages),
         NEW unread, unread = {}, NEW winner, winner \in DOMAIN round.bids \cup {None},
         NEW nothing, nothing = {}
  PROVE  ReadAll(round, winner, ReadPages(round, unread, winner, size, pages, NewWalk(nothing)))
<1> DEFINE n == Len(round.bids)
           walk == ReadPages(round, unread, winner, size, pages, NewWalk(nothing))
<1>0. /\ size \in 1 .. ESCROW_PAGE_SIZE /\ n \in Nat /\ n # 0 /\ n <= ESCROW_MAX_BIDDERS
      /\ round.bids \in Seq(StoredBid) /\ NoneSettled(round)
      /\ pages \in Seq(Page) /\ pages = HonestPages(n, size) /\ n = Len(round.bids)
  BY DEF HonestIndex
<1>00. walk = ReadPages(round, unread, winner, size, pages, NewWalk(nothing))
  OBVIOUS
<1> SUFFICES ReadAll(round, winner, walk)
  OBVIOUS
<1> HIDE DEF n, walk
<1> DEFINE count == PagesFor(n, size)
           new == NewWalk(nothing)
<1>1. size \in Nat \ {0} /\ ESCROW_MAX_BIDDERS \in Nat
  BY <1>0, ConservationAssumption
<1>2. Honest(pages, count, n, size)
  BY <1>0, <1>1, HonestPagesAre
<1>3. count \in Nat /\ count <= PagesFor(ESCROW_MAX_BIDDERS, size)
  BY <1>0, <1>1, PagesGrow
<1> HIDE DEF count
<1>4. count # 0 /\ Len(pages) = count
      /\ \A p \in 1 .. count : HonestPage(pages[p], p, count, n, size) /\ pages[p] \in Page
  BY <1>0, <1>2 DEF Honest
<1>5. new \in Accounts(round, winner)
  BY <1>0, NewWalkAccounts
<1>6. PICK c : IndexTable(round, unread, winner, size, pages, new, c)
  <2> HIDE DEF new
  <2> QED
    BY <1>0, <1>5, ReadPagesTable
<1>7. /\ c \in [0 .. count -> Accounts(round, winner)] /\ walk = c[count] /\ c[0] = new
      /\ \A p \in 1 .. count : c[p] = PageStep(round, unread, winner, size, c[p - 1], pages[p])
  BY <1>00, <1>4, <1>6, Zenon DEF IndexTable
<1> DEFINE S == {p \in Nat : p <= count => OnTheWay(c[p], p, count, n, size)}
<1>8. 0 \in S
  <2>1. /\ new.issues = {} /\ new.pages = 0 /\ new.total = None /\ new.seen = <<>>
        /\ new.cursor = 0 /\ new.done = FALSE
    BY DEF NewWalk
  <2>2. 0 * size = 0 /\ Numbers(0) = <<>> /\ 0 # count
    BY <1>1, <1>4 DEF Numbers
  <2> HIDE DEF new
  <2>3. OnTheWay(new, 0, count, n, size)
    BY <2>1, <2>2 DEF OnTheWay
  <2> QED
    BY <1>7, <2>3
<1>9. ASSUME NEW p \in S PROVE p + 1 \in S
  <2> SUFFICES ASSUME p + 1 <= count PROVE OnTheWay(c[p + 1], p + 1, count, n, size)
    OBVIOUS
  <2> DEFINE q == p + 1
  <2>1. q \in 1 .. count /\ q - 1 = p /\ q - 1 \in 0 .. count
    BY <1>3
  <2>2. OnTheWay(c[p], p, count, n, size)
    BY <1>3
  <2> HIDE DEF q, S
  <2>3. c[q] = PageStep(round, unread, winner, size, c[p], pages[q])
    BY <1>7, <2>1
  <2>4. c[p] \in Accounts(round, winner) /\ OnTheWay(c[p], q - 1, count, n, size)
        /\ HonestPage(pages[q], q, count, n, size) /\ pages[q] \in Page
    BY <1>4, <1>7, <2>1, <2>2
  <2>5. OnTheWay(c[q], q, count, n, size)
    BY <1>0, <1>3, <2>1, <2>3, <2>4, HonestPageStep
  <2> QED
    BY <2>5 DEF q
<1> HIDE DEF S
<1>10. S = Nat
  <2>1. S \in SUBSET Nat
    BY DEF S
  <2> QED
    BY <1>8, <1>9, <2>1, NatSetInduction
<1>11. OnTheWay(walk, count, count, n, size)
  BY <1>3, <1>7, <1>10 DEF S
<1>12. walk \in Accounts(round, winner)
  BY <1>3, <1>7
<1> QED
  BY <1>11, <1>12 DEF OnTheWay, ReadAll, n

\* A cleared round whose index is read to the end is proved.
LEMMA HonestIsProved ==
  ASSUME NEW bids \in Seq(StoredBid), NEW rule \in {"HighestBid", "LowestBid"},
         NEW status, status = "Cleared", NEW round, round = ContractRound(status, rule, bids),
         round.winner # None, Len(bids) <= ESCROW_MAX_BIDDERS,
         NEW size \in 1 .. ESCROW_PAGE_SIZE, NEW pages \in Seq(Page),
         NEW n, n = Len(round.bids), pages = HonestPages(n, size),
         NEW unread, unread = {}
  PROVE  ProveForPhase(round, "settle", size, pages, unread).conserved
<1> DEFINE best == round.winner
           nothing == RoundIssues(round, "settle")
           walk == ReadPages(round, unread, best, size, pages, NewWalk(nothing))
<1>0. status \in RoundStatus /\ status \notin {"Settled", "Voided"}
  BY DEF RoundStatus
<1>1. /\ round.status = status /\ round.bids \in Seq(StoredBid) /\ Len(round.bids) = Len(bids)
      /\ \A i \in DOMAIN round.bids : round.bids[i].settled = (status \in {"Settled", "Voided"})
      /\ best \in DOMAIN round.bids /\ round.bid \in Nat
      /\ round.bid <= round.bids[best].escrow
  BY <1>0, ContractRoundFields
<1>2. NoneSettled(round)
  BY <1>0, <1>1 DEF NoneSettled
<1>3. n \in Nat /\ n # 0 /\ DOMAIN round.bids = 1 .. n /\ n <= ESCROW_MAX_BIDDERS
  BY <1>1
<1>4. nothing = {}
  BY <1>1 DEF RoundIssues
<1>5. /\ walk \in Accounts(round, best)
      /\ walk.issues = {} /\ walk.done = TRUE /\ walk.total = n /\ walk.seen = Numbers(n)
  <2>1. HonestIndex(round, size, pages)
    BY <1>1, <1>2, <1>3 DEF HonestIndex
  <2>2. best \in DOMAIN round.bids \cup {None}
    BY <1>1
  <2> HIDE DEF nothing, best
  <2>3. ReadAll(round, best, walk)
    BY <1>4, <2>1, <2>2, HonestWalk
  <2> QED
    BY <2>3 DEF ReadAll
<1>6. PICK w : Proved(round, size, pages, unread, w)
  BY ProofOfSettle
<1>7. w = CrossChecked(walk, best, DOMAIN round.bids)
  BY <1>4, <1>6, Zenon DEF Proved
<1> HIDE DEF walk
<1>8. walk \in Walks /\ Accounted(round.bids, best, walk)
  BY <1>5 DEF Accounts
<1>9. ToSet(walk.seen) = 1 .. n /\ Len(walk.seen) = n
  BY <1>3, <1>5, NumbersAre
<1>10. /\ w.held = walk.held /\ w.refundable = walk.refundable /\ w.won = walk.won
       /\ w.issues = {}
  BY <1>1, <1>3, <1>5, <1>7, <1>8, <1>9, CrossCheckedWalk
<1> DEFINE d == [i \in DOMAIN round.bids |-> IF i \in ToSet(walk.seen) /\ i # best
                                            THEN round.bids[i].escrow ELSE 0]
<1>11. /\ walk.refundable = Sum(d, Len(round.bids))
       /\ walk.won = IF best \in ToSet(walk.seen) THEN round.bids[best].escrow ELSE 0
       /\ walk.held = walk.refundable + walk.won
  BY <1>5, <1>8, Zenon DEF Accounted
<1>12. walk.refundable \in Nat
  <2>1. \A i \in 1 .. n : d[i] \in Nat
    BY <1>1, <1>3 DEF StoredBid
  <2> HIDE DEF d
  <2> QED
    BY <1>3, <1>11, <2>1, SumNat
<1>13. walk.won = round.bids[best].escrow /\ round.bids[best].escrow \in Nat
  <2>1. best \in 1 .. n /\ best \in DOMAIN round.bids
    BY <1>1, <1>3
  <2>2. round.bids[best] \in StoredBid
    BY <1>1, <2>1
  <2>3. round.bids[best].escrow \in Nat
    BY <2>2 DEF StoredBid
  <2> QED
    BY <1>9, <1>11, <2>1, <2>3
<1> HIDE DEF best
<1>14. /\ w.issues = {} /\ w.held >= 0 /\ w.refundable >= 0 /\ round.bid >= 0 /\ w.won >= 0
       /\ w.won - round.bid >= 0
       /\ w.held - (w.refundable + round.bid + (w.won - round.bid)) = 0
  <2>1. round.bid \in Nat /\ round.bid <= walk.won /\ walk.won \in Nat
    BY <1>1, <1>13
  <2> QED
    BY <1>10, <1>11, <1>12, <2>1
<1>15. (IF round.winner # None THEN round.bid ELSE 0) = round.bid
  OBVIOUS
<1>16. ReadPages(round, unread, round.winner, size, pages, NewWalk(RoundIssues(round, "settle"))).done
  BY <1>5 DEF walk, best
<1> QED
  BY <1>6, <1>14, <1>15, <1>16, Zenon DEF Proved

\* What the walk of the bidder index keeps.
IndexWalks ==
    [total : Nat \cup {None}, seen : Seq(Nat), tokens : SUBSET Nat, done : BOOLEAN,
     failed : BOOLEAN]

\* Nobody is listed twice, and a walk that ends well has listed as many as the
\* first page announced.  Nothing is known of the total before that page.
Listed(w, read, first) ==
    /\ IsInjective(w.seen)
    /\ w.done = TRUE /\ w.failed = FALSE => w.total = first /\ Len(w.seen) = first
    /\ w.done = FALSE => w.total = IF read = 0 THEN None ELSE first

\* Two lists without a common member and without repetitions.
LEMMA ConcatInjective ==
  ASSUME NEW s \in Seq(Nat), NEW t \in Seq(Nat), IsInjective(s), IsInjective(t),
         ToSet(t) \cap ToSet(s) = {}
  PROVE  s \o t \in Seq(Nat) /\ Len(s \o t) = Len(s) + Len(t) /\ IsInjective(s \o t)
<1> DEFINE m == Len(s)
           n == Len(t)
           st == s \o t
<1>1. /\ m \in Nat /\ n \in Nat /\ st \in Seq(Nat) /\ Len(st) = m + n
      /\ DOMAIN s = 1 .. m /\ DOMAIN t = 1 .. n /\ DOMAIN st = 1 .. m + n
      /\ \A i \in 1 .. m + n : st[i] = IF i <= m THEN s[i] ELSE t[i - m]
  OBVIOUS
<1> HIDE DEF st, m, n
<1>2. ASSUME NEW i \in 1 .. m + n, NEW j \in 1 .. m + n, st[i] = st[j] PROVE i = j
  <2>1. CASE i <= m /\ j <= m
    <3>1. i \in DOMAIN s /\ j \in DOMAIN s /\ s[i] = s[j]
      BY <1>1, <1>2, <2>1
    <3> QED
      BY <3>1, Zenon DEF IsInjective
  <2>2. CASE i > m /\ j > m
    <3>1. i - m \in 1 .. n /\ j - m \in 1 .. n /\ t[i - m] = t[j - m]
      BY <1>1, <1>2, <2>2
    <3>2. i - m = j - m
      BY <1>1, <3>1 DEF IsInjective
    <3> QED
      BY <1>1, <3>2
  <2>3. CASE i <= m /\ j > m
    <3>1. i \in 1 .. m /\ j - m \in 1 .. n /\ s[i] = t[j - m]
      BY <1>1, <1>2, <2>3
    <3> QED
      BY <1>1, <3>1 DEF ToSet
  <2>4. CASE i > m /\ j <= m
    <3>1. j \in 1 .. m /\ i - m \in 1 .. n /\ s[j] = t[i - m]
      BY <1>1, <1>2, <2>4
    <3> QED
      BY <1>1, <3>1 DEF ToSet
  <2> QED
    BY <1>1, <2>1, <2>2, <2>3, <2>4
<1> QED
  BY <1>1, <1>2 DEF IsInjective, st, m, n

\* The walk after a page that is wrong, and after one that is right.
WalkFailed(w) == [w EXCEPT !.done = TRUE, !.failed = TRUE]
Yielded(w, page) ==
    [w EXCEPT !.total = page.total, !.seen = @ \o page.data,
              !.tokens = @ \cup ({page.next} \ {0}), !.done = page.next = 0]

\* A page that cannot be read ends the walk of the index.
LEMMA FailedWalk ==
  ASSUME NEW w \in IndexWalks
  PROVE  /\ WalkFailed(w) \in IndexWalks /\ WalkFailed(w).seen = w.seen
         /\ WalkFailed(w).done = TRUE /\ WalkFailed(w).failed = TRUE
BY DEF WalkFailed, IndexWalks

\* A page that is read adds its bidders to the walk of the index.
LEMMA TakenWalk ==
  ASSUME NEW w \in IndexWalks, NEW page \in Page
  PROVE  LET x == Yielded(w, page)
         IN  /\ x \in IndexWalks /\ x.total = page.total /\ x.seen = w.seen \o page.data
             /\ x.tokens = w.tokens \cup ({page.next} \ {0}) /\ x.failed = w.failed
             /\ x.done = (page.next = 0)
<1> DEFINE seen == w.seen \o page.data
           tokens == w.tokens \cup ({page.next} \ {0})
           done == page.next = 0
           total == page.total
           x == [w EXCEPT !.total = total, !.seen = seen, !.tokens = tokens, !.done = done]
<1>1. /\ w.seen \in Seq(Nat) /\ w.tokens \subseteq Nat /\ page.data \in Seq(Nat)
      /\ page.next \in Nat /\ total \in Nat
  BY DEF IndexWalks, Page
<1>2. seen \in Seq(Nat) /\ tokens \in SUBSET Nat /\ done \in BOOLEAN /\ total \in Nat
  BY <1>1
<1>3. Yielded(w, page) = x
  BY DEF Yielded
<1> HIDE DEF seen, tokens, done, total
<1>4. /\ x \in IndexWalks /\ x.total = total /\ x.seen = seen /\ x.tokens = tokens
      /\ x.failed = w.failed /\ x.done = done
  BY <1>2 DEF IndexWalks
<1> QED
  BY <1>3, <1>4, Zenon DEF seen, tokens, done, total

\* One page.
LEMMA BiddersStepListed ==
  ASSUME NEW w \in IndexWalks, NEW page \in Page, NEW first \in Nat, NEW read \in Nat,
         read = 0 => page.total = first, Listed(w, read, first)
  PROVE  BiddersStep(w, page) \in IndexWalks /\ Listed(BiddersStep(w, page), read + 1, first)
<1> DEFINE x == BiddersStep(w, page)
<1>1. w.done \in BOOLEAN /\ w.seen \in Seq(Nat) /\ page.data \in Seq(Nat) /\ page.total \in Nat
  BY DEF IndexWalks, Page
<1>2. CASE w.done = TRUE
  <2>1. x = w
    BY <1>2 DEF BiddersStep
  <2> HIDE DEF x
  <2> QED
    BY <1>2, <2>1 DEF Listed, x
<1>3. CASE w.done = FALSE /\ ~PageValid(w, page)
  <2>1. x = WalkFailed(w)
    BY <1>3 DEF BiddersStep, WalkFailed
  <2>2. WalkFailed(w) \in IndexWalks /\ Listed(WalkFailed(w), read + 1, first)
    BY FailedWalk DEF Listed
  <2> QED
    BY <2>1, <2>2
<1>4. CASE w.done = FALSE /\ PageValid(w, page)
  <2>1. x = Yielded(w, page)
    BY <1>4, Zenon DEF BiddersStep, Yielded
  <2> HIDE DEF x
  <2>2. /\ x \in IndexWalks /\ x.total = page.total /\ x.seen = w.seen \o page.data
        /\ x.failed = w.failed /\ x.done = (page.next = 0)
    BY <2>1, TakenWalk
  <2>3. /\ w.total \in {None, page.total} /\ IsInjective(page.data)
        /\ ToSet(page.data) \cap ToSet(w.seen) = {}
        /\ page.next = 0 => Len(w.seen) + Len(page.data) = page.total
    BY <1>4 DEF PageValid
  <2>4. page.total = first
    BY <1>4, <2>3, NoneAssumption DEF Listed
  <2>5. /\ IsInjective(x.seen) /\ Len(x.seen) = Len(w.seen) + Len(page.data)
    BY <1>1, <2>2, <2>3, ConcatInjective DEF Listed
  <2>6. Listed(x, read + 1, first)
    <3>1. x.done = TRUE => page.next = 0
      BY <2>2
    <3>2. x.done = TRUE => x.total = first /\ Len(x.seen) = first
      BY <2>2, <2>3, <2>4, <2>5, <3>1
    <3>3. x.total = IF read + 1 = 0 THEN None ELSE first
      BY <2>2, <2>4
    <3> QED
      BY <2>5, <3>2, <3>3 DEF Listed
  <2> QED
    BY <2>2, <2>6 DEF x
<1> QED
  BY <1>1, <1>2, <1>3, <1>4

\* c is the table of the walk before and after each page.
WalkTable(pages, c) ==
    /\ c \in [0 .. Len(pages) -> IndexWalks]
    /\ BiddersWalk(pages) = c[Len(pages)]
    /\ c[0] = [total |-> None, seen |-> <<>>, tokens |-> {}, done |-> FALSE, failed |-> FALSE]
    /\ \A p \in 1 .. Len(pages) : c[p] = BiddersStep(c[p - 1], pages[p])

\* One page, whatever it holds.
LEMMA BiddersStepType ==
  ASSUME NEW w \in IndexWalks, NEW page \in Page
  PROVE  BiddersStep(w, page) \in IndexWalks
<1>1. BiddersStep(w, page) \in {w, WalkFailed(w), Yielded(w, page)}
  BY Zenon DEF BiddersStep, WalkFailed, Yielded
<1> QED
  BY <1>1, FailedWalk, TakenWalk

\* The pages, one after the other.
LEMMA BiddersWalkTable ==
  ASSUME NEW pages \in Seq(Page)
  PROVE  \E c : WalkTable(pages, c)
<1> DEFINE n == Len(pages)
           D == IndexWalks
           new == [total |-> None, seen |-> <<>>, tokens |-> {}, done |-> FALSE, failed |-> FALSE]
           c == CHOOSE u : u = [p \in 0 .. n |->
                                  IF p = 0 THEN new ELSE BiddersStep(u[p - 1], pages[p])]
           Turn == [p \in 1 .. n |-> [w \in D |-> BiddersStep(w, pages[p])]]
<1>1. n \in Nat /\ \A p \in 1 .. n : pages[p] \in Page
  OBVIOUS
<1>2. BiddersWalk(pages) = c[n]
  BY DEF BiddersWalk
<1>3. \A w \in D, page \in Page : BiddersStep(w, page) \in D
  BY BiddersStepType
<1>4. new \in D
  BY DEF IndexWalks
<1> HIDE DEF n, D, new
<1>5. Turn \in [1 .. n -> [D -> D]]
  BY <1>1, <1>3
<1>6. PICK u \in [0 .. n -> D] : LoopTable(n, new, Turn, u)
  <2> HIDE DEF Turn
  <2> QED
    BY <1>1, <1>4, <1>5, LoopTableExists
<1>7. ASSUME NEW p \in 0 .. n, p # 0
      PROVE  Turn[p][u[p - 1]] = BiddersStep(u[p - 1], pages[p])
  BY <1>1, <1>7
<1>8. u = [p \in 0 .. n |-> IF p = 0 THEN new ELSE BiddersStep(u[p - 1], pages[p])]
  BY <1>1, <1>6, <1>7 DEF LoopTable
<1>9. c = [p \in 0 .. n |-> IF p = 0 THEN new ELSE BiddersStep(c[p - 1], pages[p])]
  BY <1>8, Zenon
<1> HIDE DEF c
<1>10. c[0] = new /\ \A p \in 1 .. n : c[p] = BiddersStep(c[p - 1], pages[p])
  BY <1>1, <1>9
<1>11. \A p \in 0 .. n : c[p] \in D
  <2> DEFINE S == {p \in Nat : p <= n => c[p] \in D}
  <2>1. 0 \in S
    BY <1>4, <1>10
  <2>2. ASSUME NEW p \in S PROVE p + 1 \in S
    <3> SUFFICES ASSUME p + 1 <= n PROVE c[p + 1] \in D
      OBVIOUS
    <3>1. p + 1 \in 1 .. n /\ c[p] \in D /\ pages[p + 1] \in Page
      BY <1>1
    <3>2. c[p + 1] = BiddersStep(c[p], pages[p + 1])
      BY <1>10, <3>1
    <3> QED
      BY <1>3, <3>1, <3>2
  <2> HIDE DEF S
  <2>3. S = Nat
    <3>1. S \in SUBSET Nat
      BY DEF S
    <3> QED
      BY <2>1, <2>2, <3>1, NatSetInduction
  <2> QED
    BY <1>1, <2>3 DEF S
<1>12. c \in [0 .. n -> D]
  BY <1>9, <1>11
<1> QED
  BY <1>2, <1>10, <1>12, Zenon DEF n, D, new, WalkTable

\* Whatever the pages: nobody is yielded twice, and a walk that ends without an
\* error has yielded as many as the enumeration holds.
LEMMA BiddersAreListed ==
  ASSUME NEW pages \in Seq(Page)
  PROVE  /\ IsInjective(BiddersWalk(pages).seen)
         /\ BiddersWalk(pages).done /\ ~BiddersWalk(pages).failed
              => Len(BiddersWalk(pages).seen) = pages[1].total
<1> DEFINE n == Len(pages)
           first == pages[1].total
           walk == BiddersWalk(pages)
<1>1. PICK c : WalkTable(pages, c)
  BY BiddersWalkTable
<1>2. /\ c \in [0 .. n -> IndexWalks] /\ walk = c[n]
      /\ c[0] = [total |-> None, seen |-> <<>>, tokens |-> {}, done |-> FALSE, failed |-> FALSE]
      /\ \A p \in 1 .. n : c[p] = BiddersStep(c[p - 1], pages[p])
  BY <1>1 DEF WalkTable
<1>3. n \in Nat /\ (\A p \in 1 .. n : pages[p] \in Page) /\ (n # 0 => first \in Nat)
  <2>1. (n # 0 => pages[1] \in Page) /\ n \in Nat /\ \A p \in 1 .. n : pages[p] \in Page
    OBVIOUS
  <2>2. \A page \in Page : page.total \in Nat
    BY DEF Page
  <2> QED
    BY <2>1, <2>2
<1> HIDE DEF walk, n
<1> DEFINE S == {p \in Nat : p <= n => Listed(c[p], p, first)}
<1>4. 0 \in S
  <2>1. IsInjective(c[0].seen)
    BY <1>2 DEF IsInjective
  <2> QED
    BY <1>2, <2>1 DEF Listed
<1>5. ASSUME NEW p \in S PROVE p + 1 \in S
  <2> SUFFICES ASSUME p + 1 <= n PROVE Listed(c[p + 1], p + 1, first)
    OBVIOUS
  <2>1. /\ p + 1 \in 1 .. n /\ p + 1 - 1 = p /\ p \in Nat /\ c[p] \in IndexWalks
        /\ pages[p + 1] \in Page /\ first \in Nat
    BY <1>2, <1>3
  <2>2. Listed(c[p], p, first) /\ c[p + 1] = BiddersStep(c[p], pages[p + 1])
    BY <1>2, <1>3, <2>1
  <2>3. p = 0 => pages[p + 1].total = first
    OBVIOUS
  <2> HIDE DEF first, S
  <2> QED
    BY <2>1, <2>2, <2>3, BiddersStepListed
<1> HIDE DEF S
<1>6. S = Nat
  <2>1. S \in SUBSET Nat
    BY DEF S
  <2> QED
    BY <1>4, <1>5, <2>1, NatSetInduction
<1>7. Listed(walk, n, first)
  BY <1>2, <1>3, <1>6 DEF S
<1>8. walk.done \in BOOLEAN /\ walk.failed \in BOOLEAN
  BY <1>2, <1>3 DEF IndexWalks
<1> QED
  BY <1>7, <1>8, Zenon DEF Listed, walk, first

\* What the walk of an honest index keeps after its first p pages.
Underway(w, p, count, n, size) ==
    /\ w.failed = FALSE /\ w.total \in {None, n}
    /\ w.seen = Numbers(IF p = count THEN n ELSE p * size)
    /\ p < count => w.done = FALSE /\ w.tokens \subseteq 1 .. p * size
    /\ p = count => w.done = TRUE

\* data lists the m bidders after the first from ones.
Continues(data, from, m) ==
    /\ data \in Seq(Nat) /\ Len(data) = m /\ IsInjective(data)
    /\ ToSet(data) \cap ToSet(Numbers(from)) = {}
    /\ Numbers(from) \o data = Numbers(from + m)

\* The bidders of one honest page after those of the pages before it.
LEMMA FromToIs ==
  ASSUME NEW from \in Nat, NEW m \in Nat
  PROVE  Continues(FromTo(from, m), from, m)
<1> DEFINE s == Numbers(from)
           t == FromTo(from, m)
<1>1. /\ t \in Seq(Nat) /\ Len(t) = m /\ DOMAIN t = 1 .. m /\ \A k \in 1 .. m : t[k] = from + k
  BY DEF FromTo
<1>2. /\ s \in Seq(Nat) /\ Len(s) = from /\ \A k \in 1 .. from : s[k] = k
  BY DEF Numbers
<1>3. IsInjective(t)
  BY <1>1 DEF IsInjective
<1>4. ToSet(s) = 1 .. from
  BY NumbersAre
<1>5. \A i \in ToSet(t) : i > from
  BY <1>1 DEF ToSet
<1>6. ToSet(t) \cap ToSet(s) = {}
  BY <1>4, <1>5
<1>7. s \o t = Numbers(from + m)
  <2> DEFINE u == s \o t
  <2> HIDE DEF s, t
  <2>0. s \in Seq(Nat) /\ t \in Seq(Nat) /\ Len(s) = from /\ Len(t) = m
    BY <1>1, <1>2
  <2>1. /\ u \in Seq(Nat) /\ Len(u) = from + m
        /\ \A k \in 1 .. from + m : u[k] = IF k <= from THEN s[k] ELSE t[k - from]
    BY <2>0, ConcatProperties
  <2> HIDE DEF u
  <2>2. ASSUME NEW k \in 1 .. from + m PROVE u[k] = k
    <3>1. CASE k <= from
      BY <1>2, <2>1, <3>1
    <3>2. CASE k > from
      <4>1. k - from \in 1 .. m
        BY <3>2
      <4> QED
        BY <1>1, <2>1, <3>2, <4>1
    <3> QED
      BY <3>1, <3>2
  <2>3. u = [k \in 1 .. from + m |-> u[k]]
    BY <2>1
  <2>4. u = Numbers(from + m)
    BY <2>2, <2>3 DEF Numbers
  <2> QED
    BY <2>4 DEF u
<1> QED
  BY <1>1, <1>3, <1>6, <1>7 DEF Continues

\* One honest page.
LEMMA HonestBidders ==
  ASSUME NEW size \in 1 .. ESCROW_PAGE_SIZE, NEW n \in Nat, NEW count \in Nat,
         NEW p \in 1 .. count, NEW page \in Page, HonestPage(page, p, count, n, size),
         NEW w \in IndexWalks, Underway(w, p - 1, count, n, size)
  PROVE  Underway(BiddersStep(w, page), p, count, n, size)
<1> DEFINE from == (p - 1) * size
           upTo == IF p = count THEN n ELSE p * size
           m == upTo - from
           x == BiddersStep(w, page)
<1>0. p - 1 \in Nat /\ p - 1 < count /\ p - 1 # count /\ p \in Nat
  OBVIOUS
<1>1. /\ from \in Nat /\ upTo \in from .. n /\ upTo <= from + size
      /\ (p < count => from < upTo /\ upTo < n)
      /\ page.total = n /\ page.next = IF p = count THEN 0 ELSE upTo
      /\ page.data = FromTo(from, m)
  BY Zenon DEF HonestPage
<1>2. /\ w.failed = FALSE /\ w.total \in {None, n} /\ w.seen = Numbers(from)
      /\ w.done = FALSE /\ w.tokens \subseteq 1 .. from
  BY <1>0 DEF Underway
<1>3. p # count => upTo = p * size
  OBVIOUS
<1> SUFFICES Underway(x, p, count, n, size)
  OBVIOUS
<1>4. m \in Nat /\ from + m = upTo /\ m <= size /\ upTo \in Nat /\ upTo <= n
      /\ (p < count => m > 0)
  BY <1>1
<1>5. p = count => upTo = n
  OBVIOUS
<1>50. IF p = count THEN upTo = n ELSE upTo = p * size
  OBVIOUS
<1>51. size <= ESCROW_PAGE_SIZE
  OBVIOUS
<1> HIDE DEF x, from, upTo, m
<1>6. /\ page.data \in Seq(Nat) /\ Len(page.data) = m /\ IsInjective(page.data)
      /\ ToSet(page.data) \cap ToSet(w.seen) = {} /\ w.seen \o page.data = Numbers(upTo)
  <2>1. Continues(page.data, from, m)
    BY <1>1, <1>4, FromToIs
  <2> QED
    BY <1>2, <1>4, <2>1, Zenon DEF Continues
<1>7. Len(w.seen) = from
  BY <1>1, <1>2, NumbersAre
<1>8. PageValid(w, page)
  <2>1. w.total \in {None, page.total} /\ Len(page.data) <= ESCROW_PAGE_SIZE
    BY <1>1, <1>2, <1>4, <1>6, <1>51, ConservationAssumption
  <2>2. Len(w.seen) + Len(page.data) <= page.total
    BY <1>1, <1>4, <1>6, <1>7
  <2>3. page.next # 0 => page.data # <<>> /\ Len(w.seen) + Len(page.data) < page.total
    <3> SUFFICES ASSUME page.next # 0
                 PROVE  page.data # <<>> /\ Len(w.seen) + Len(page.data) < page.total
      OBVIOUS
    <3>1. p < count
      BY <1>1
    <3>2. Len(page.data) # 0
      BY <1>4, <1>6, <3>1
    <3> QED
      BY <1>1, <1>4, <1>6, <1>7, <3>1, <3>2
  <2>4. page.next = 0 => Len(w.seen) + Len(page.data) = page.total
    <3> SUFFICES ASSUME page.next = 0 PROVE Len(w.seen) + Len(page.data) = page.total
      OBVIOUS
    <3>1. p = count
      BY <1>0, <1>1
    <3> QED
      BY <1>1, <1>4, <1>5, <1>6, <1>7, <3>1
  <2>5. page.next \notin w.tokens
    <3>1. CASE p = count
      BY <1>1, <1>2, <3>1
    <3>2. CASE p # count
      BY <1>1, <1>2, <1>4, <3>2
    <3> QED
      BY <3>1, <3>2
  <2> QED
    BY <1>6, <2>1, <2>2, <2>3, <2>4, <2>5, Zenon DEF PageValid
<1>9. x = Yielded(w, page)
  BY <1>2, <1>8, Zenon DEF BiddersStep, Yielded, x
<1>10. /\ x.total = page.total /\ x.seen = w.seen \o page.data
       /\ x.tokens = w.tokens \cup ({page.next} \ {0}) /\ x.failed = w.failed
       /\ x.done = (page.next = 0)
  BY <1>9, TakenWalk
<1>11. x.failed = FALSE /\ x.total = n /\ x.seen = Numbers(upTo)
  BY <1>1, <1>2, <1>6, <1>10
<1>12. CASE p = count
  <2>1. page.next = 0
    BY <1>1, <1>12
  <2>2. x.done = TRUE
    BY <1>10, <2>1
  <2> QED
    BY <1>11, <1>12, <1>50, <2>2 DEF Underway
<1>13. CASE p # count
  <2>1. page.next = upTo /\ upTo # 0 /\ p < count
    BY <1>1, <1>13
  <2>2. x.done = FALSE
    BY <1>10, <2>1
  <2>3. x.tokens \subseteq 1 .. upTo
    BY <1>1, <1>2, <1>4, <1>10, <2>1
  <2> QED
    BY <1>11, <1>13, <1>50, <2>1, <2>2, <2>3 DEF Underway
<1> QED
  BY <1>12, <1>13

\* The walk of an honest index ends, and well.
LEMMA HonestIsListed ==
  ASSUME NEW n \in Nat, NEW size \in 1 .. ESCROW_PAGE_SIZE, NEW pages \in Seq(Page),
         pages = HonestPages(n, size)
  PROVE  BiddersWalk(pages).done /\ ~BiddersWalk(pages).failed
<1> DEFINE count == IF n = 0 THEN 1 ELSE PagesFor(n, size)
           walk == BiddersWalk(pages)
<1>1. size \in Nat \ {0}
  BY ConservationAssumption
<1>2. Honest(pages, count, n, size)
  BY <1>1, HonestPagesAre
<1> HIDE DEF count
<1>3. count \in Nat /\ count # 0 /\ Len(pages) = count
      /\ \A p \in 1 .. count : HonestPage(pages[p], p, count, n, size) /\ pages[p] \in Page
  BY <1>2 DEF Honest
<1>4. PICK c : WalkTable(pages, c)
  BY BiddersWalkTable
<1>5. /\ c \in [0 .. count -> IndexWalks] /\ walk = c[count]
      /\ c[0] = [total |-> None, seen |-> <<>>, tokens |-> {}, done |-> FALSE, failed |-> FALSE]
      /\ \A p \in 1 .. count : c[p] = BiddersStep(c[p - 1], pages[p])
  BY <1>3, <1>4 DEF WalkTable
<1> HIDE DEF walk
<1> DEFINE S == {p \in Nat : p <= count => Underway(c[p], p, count, n, size)}
<1>6. 0 \in S
  <2>1. 0 * size = 0 /\ Numbers(0) = <<>> /\ 0 # count
    BY <1>1, <1>3 DEF Numbers
  <2> QED
    BY <1>5, <2>1 DEF Underway
<1>7. ASSUME NEW p \in S PROVE p + 1 \in S
  <2> SUFFICES ASSUME p + 1 <= count PROVE Underway(c[p + 1], p + 1, count, n, size)
    OBVIOUS
  <2> DEFINE q == p + 1
  <2>1. q \in 1 .. count /\ q - 1 = p /\ q - 1 \in 0 .. count
    BY <1>3
  <2>2. Underway(c[p], p, count, n, size)
    BY <1>3
  <2> HIDE DEF q, S
  <2>3. c[q] = BiddersStep(c[p], pages[q])
    BY <1>5, <2>1
  <2>4. c[p] \in IndexWalks /\ Underway(c[p], q - 1, count, n, size)
        /\ HonestPage(pages[q], q, count, n, size) /\ pages[q] \in Page
    BY <1>3, <1>5, <2>1, <2>2
  <2>5. Underway(c[q], q, count, n, size)
    BY <1>3, <2>1, <2>3, <2>4, HonestBidders
  <2> QED
    BY <2>5 DEF q
<1> HIDE DEF S
<1>8. S = Nat
  <2>1. S \in SUBSET Nat
    BY DEF S
  <2> QED
    BY <1>6, <1>7, <2>1, NatSetInduction
<1>9. Underway(walk, count, count, n, size)
  BY <1>3, <1>5, <1>8 DEF S
<1>10. walk.done = TRUE /\ walk.failed = FALSE
  BY <1>9 DEF Underway
<1> QED
  BY <1>10 DEF walk

\* Over any source of pages a settle reported as conserved is accepted and pays
\* what the report says, a round whose index is handed out to the end is proved,
\* and bidders() yields the index whole and nobody twice (conservation.ts, client.ts).
THEOREM ConservedIsPaid == ConservationInput => ConservedMeansPaid
<1> SUFFICES ASSUME ConservationInput, sample.kind = "conservation" PROVE ConservedMeansPaid
  BY DEF ConservedMeansPaid
<1>1. PICK bids \in Seq(StoredBid), rule \in {"HighestBid", "LowestBid"}, status \in RoundStatus,
           size \in Int, pages \in Seq(Page) : \E unread, simulated :
         LET round == ContractRound(status, rule, bids)
         IN  /\ Len(bids) <= ESCROW_MAX_BIDDERS
             /\ status \in {"Cleared", "Settled"} => round.winner # None
             /\ simulated \in {IF ContractAccepts("settle", round, 0) THEN "accepted" ELSE "rejected",
                               "transport", "missing", "restore"}
             /\ sample = [kind |-> "conservation", round |-> round, unread |-> unread,
                          size |-> size, pages |-> pages, simulated |-> simulated]
  BY DEF ConservationInput
<1>2. PICK unread, simulated :
         LET round == ContractRound(status, rule, bids)
         IN  /\ Len(bids) <= ESCROW_MAX_BIDDERS
             /\ status \in {"Cleared", "Settled"} => round.winner # None
             /\ simulated \in {IF ContractAccepts("settle", round, 0) THEN "accepted" ELSE "rejected",
                               "transport", "missing", "restore"}
             /\ sample = [kind |-> "conservation", round |-> round, unread |-> unread,
                          size |-> size, pages |-> pages, simulated |-> simulated]
  BY <1>1
<1> DEFINE round == ContractRound(status, rule, bids)
           n == Len(round.bids)
           report == ProveForPhase(round, "settle", size, pages, unread)
           walk == BiddersWalk(pages)
           pays == ContractPays("settle", round)
           refunds == [i \in DOMAIN round.bids |-> IF i = round.winner THEN 0 ELSE pays[i]]
           honest == size \in 1 .. ESCROW_PAGE_SIZE /\ pages = HonestPages(n, size)
<1>3. /\ Len(bids) <= ESCROW_MAX_BIDDERS
      /\ simulated \in {IF ContractAccepts("settle", round, 0) THEN "accepted" ELSE "rejected",
                        "transport", "missing", "restore"}
      /\ sample.round = round /\ sample.unread = unread /\ sample.size = size
      /\ sample.pages = pages /\ sample.simulated = simulated
  BY <1>2
<1> HIDE DEF round
<1>4. round = ContractRound(status, rule, bids)
  BY DEF round
<1>5. /\ round.status = status /\ round.bids \in Seq(StoredBid) /\ Len(round.bids) = Len(bids)
  BY <1>4, ContractRoundFields
<1>6. report.conserved =>
         /\ ContractAccepts("settle", round, 0)
         /\ report.totals.refundable = Sum(refunds, n)
         /\ report.surplus = pays[round.winner]
         /\ report.totals.payable = round.bid
         /\ PreflightSettle(simulated) \notin {"contract_error", "simulation_error"}
  <2> SUFFICES ASSUME report.conserved
               PROVE  /\ ContractAccepts("settle", round, 0)
                      /\ report.totals.refundable = Sum(refunds, n)
                      /\ report.surplus = pays[round.winner]
                      /\ report.totals.payable = round.bid
                      /\ PreflightSettle(simulated) \notin {"contract_error", "simulation_error"}
    OBVIOUS
  <2>1. /\ ContractAccepts("settle", round, 0)
        /\ report.totals.refundable = Sum(refunds, n)
        /\ report.surplus = pays[round.winner]
        /\ report.totals.payable = round.bid
    BY <1>4, ProvedIsPaid
  <2>2. simulated \in {"accepted", "transport", "missing", "restore"}
    BY <1>3, <2>1
  <2>3. PreflightSettle(simulated) \in {"ok", "rpc_error", "malformed_response", "expired_state"}
    BY <2>2 DEF PreflightSettle, Preflight, BuildFailure, ClassifyBuildError, EvaluatePreflight
  <2> QED
    BY <2>1, <2>3
<1>7. honest /\ unread = {} /\ ContractAccepts("settle", round, 0) => report.conserved
  <2> SUFFICES ASSUME honest, unread = {}, ContractAccepts("settle", round, 0)
               PROVE  report.conserved
    OBVIOUS
  <2>1. status = "Cleared" /\ round.winner # None
    BY <1>5 DEF ContractAccepts
  <2>2. report.conserved
    <3>1. n = Len(round.bids) /\ pages = HonestPages(n, size) /\ size \in 1 .. ESCROW_PAGE_SIZE
      OBVIOUS
    <3> HIDE DEF n
    <3> QED
      BY <1>3, <1>4, <2>1, <3>1, HonestIsProved
  <2> QED
    BY <2>2
<1>8. /\ IsInjective(walk.seen)
      /\ walk.done /\ ~walk.failed => Len(walk.seen) = pages[1].total
  BY BiddersAreListed
<1>9. honest => walk.done /\ ~walk.failed
  <2>1. n \in Nat
    BY <1>5
  <2> HIDE DEF n
  <2> QED
    BY <2>1, HonestIsListed
<1> QED
  BY <1>3, <1>6, <1>7, <1>8, <1>9, Zenon DEF ConservedMeansPaid
-----------------------------------------------------------------------------
(***************************************************************************)
(* Receipts.  Over the bids a receipt lists, the verifier's walk is clear's *)
(* walk, and one change to a receipt is caught by a hash, by the index or   *)
(* by that walk.                                                           *)
(***************************************************************************)
\* At most one field of an entry is changed; what the verifier only reports on may be
\* changed in any way.
EntryChanged(entry, changed) ==
    \E field \in {"commitment", "value", "nonce", "other"} :
       /\ field # "commitment" => changed.commitment = entry.commitment
       /\ field # "value" => changed.value = entry.value
       /\ field # "nonce" => changed.nonce = entry.nonce

\* One entry is gone, new or changed.
BidsChanged(bids, changed) ==
    \E a :
       /\ DOMAIN changed \in {DOMAIN bids, DOMAIN bids \ {a}, DOMAIN bids \cup {a}}
       /\ \A b \in (DOMAIN changed \cap DOMAIN bids) \ {a} : changed[b] = bids[b]
       /\ a \in DOMAIN changed \cap DOMAIN bids => EntryChanged(bids[a], changed[a])

\* The header and the log may be changed in any way, and one more place.
OneChange(exported, receipt) ==
    /\ DOMAIN receipt = DOMAIN exported
    /\ \E field \in {"bidders", "bids", "winner", "rule"} :
       /\ field # "bidders" => receipt.bidders = exported.bidders
       /\ field # "winner" => receipt.winner = exported.winner
       /\ field # "rule" => receipt.rule = exported.rule
       /\ IF field = "bids" THEN BidsChanged(exported.bids, receipt.bids)
                            ELSE receipt.bids = exported.bids

\* A round of as many bidders as there are addresses, or fewer, cleared or settled with
\* a winner, and the receipt exported for it: its header and its log may be changed in any
\* way, and one more place.
ReceiptInput ==
    sample.kind = "receipt" =>
        \E bids \in Seq(StoredBid), rule \in {"HighestBid", "LowestBid"}, status \in RoundStatus :
           /\ Len(bids) <= Len(Address)
           /\ sample.round = ContractRound(status, rule, bids)
           /\ status \in {"Cleared", "Settled"} => sample.round.winner # None
           /\ OneChange(ExportReceipt(sample.round, "1"), sample.receipt)

\* The address of a bidder, or none.
Named(i) == IF i = None THEN None ELSE Address[i]

\* The receipt lists the bids of the round under their rule.
Lists(receipt, rule, bids) ==
    /\ receipt.rule = rule /\ Len(bids) <= Len(Address)
    /\ receipt.bidders = [i \in DOMAIN bids |-> Address[i]]
    /\ \A i \in DOMAIN bids :
          /\ Address[i] \in DOMAIN receipt.bids
          /\ receipt.bids[Address[i]].value = bids[i].value
          /\ receipt.bids[Address[i]].valid <=> Valid(bids[i])

\* One turn of the verifier's walk.
WinnerTurn(receipt, b, best) ==
    IF /\ b \in DOMAIN receipt.bids /\ receipt.bids[b].value # None /\ receipt.bids[b].valid
       /\ \/ best = None
          \/ receipt.rule = "HighestBid" /\ receipt.bids[b].value > receipt.bids[best].value
          \/ receipt.rule # "HighestBid" /\ receipt.bids[b].value < receipt.bids[best].value
    THEN b ELSE best

\* The addresses are all different, and none of them is no address.
LEMMA AddressIs ==
  /\ Address \in Seq(ToSet(Address)) /\ Len(Address) \in Nat
  /\ \A i, j \in 1 .. Len(Address) : Address[i] = Address[j] => i = j
  /\ \A i \in 1 .. Len(Address) : Address[i] # None
<1>1. Address \in Seq(ToSet(Address)) /\ Len(Address) \in Nat /\ DOMAIN Address = 1 .. Len(Address)
  BY ReceiptAssumption
<1> QED
  BY <1>1, ReceiptAssumption DEF IsInjective, ToSet

\* On a receipt that lists the bids it takes the bidder that clear takes.
LEMMA TurnsAgree ==
  ASSUME NEW rule \in {"HighestBid", "LowestBid"}, NEW bids \in Seq(StoredBid),
         NEW receipt, Lists(receipt, rule, bids),
         NEW i \in 1 .. Len(bids), NEW best \in {None} \cup 1 .. Len(bids)
  PROVE  WinnerTurn(receipt, receipt.bidders[i], Named(best)) = Named(ClearTurn(rule, bids, i, best))
<1> DEFINE n == Len(bids)
<1>1. /\ receipt.rule = rule /\ receipt.bidders[i] = Address[i]
      /\ \A j \in 1 .. n :
          /\ Address[j] \in DOMAIN receipt.bids
          /\ receipt.bids[Address[j]].value = bids[j].value
          /\ receipt.bids[Address[j]].valid <=> Valid(bids[j])
      /\ n \in Nat /\ n <= Len(Address)
  BY DEF Lists
<1>2. i # None /\ (best # None => best \in 1 .. n /\ Address[best] # None) /\ Named(i) = Address[i]
  BY <1>1, AddressIs, NoneAssumption DEF Named
<1>3. Valid(bids[i]) => bids[i].value # None
  BY DEF Valid
<1> DEFINE b == Address[i]
           Takes == /\ b \in DOMAIN receipt.bids /\ receipt.bids[b].value # None /\ receipt.bids[b].valid
                    /\ \/ Named(best) = None
                       \/ receipt.rule = "HighestBid" /\ receipt.bids[b].value > receipt.bids[Named(best)].value
                       \/ receipt.rule # "HighestBid" /\ receipt.bids[b].value < receipt.bids[Named(best)].value
           Clears == /\ Valid(bids[i])
                     /\ \/ best = None
                        \/ rule = "LowestBid" /\ bids[i].value < bids[best].value
                        \/ rule = "HighestBid" /\ bids[i].value > bids[best].value
<1>4. Takes <=> Clears
  <2>1. receipt.bids[b].valid <=> Valid(bids[i])
    BY <1>1, Zenon
  <2>2. b \in DOMAIN receipt.bids /\ receipt.bids[b].value = bids[i].value
    BY <1>1
  <2>3. CASE best = None
    <3>1. Named(best) = None
      BY <2>3 DEF Named
    <3> QED
      BY <1>3, <2>1, <2>2, <2>3, <3>1, Zenon
  <2>4. CASE best # None
    <3>1. Named(best) = Address[best] /\ Named(best) # None
      BY <1>2, <2>4 DEF Named
    <3>2. receipt.bids[Named(best)].value = bids[best].value
      BY <1>1, <1>2, <2>4, <3>1
    <3>3. rule = "LowestBid" <=> rule # "HighestBid"
      OBVIOUS
    <3> QED
      BY <1>1, <1>3, <2>1, <2>2, <2>4, <3>1, <3>2, <3>3, Zenon
  <2> QED
    BY <2>3, <2>4
<1>5. WinnerTurn(receipt, b, Named(best)) = IF Takes THEN b ELSE Named(best)
  BY DEF WinnerTurn
<1>6. ClearTurn(rule, bids, i, best) = IF Clears THEN i ELSE best
  BY DEF ClearTurn
<1> HIDE DEF Takes, Clears
<1> QED
  BY <1>1, <1>2, <1>4, <1>5, <1>6

\* The winner the verifier computes is the one clear computes.
LEMMA ComputedIsCleared ==
  ASSUME NEW rule \in {"HighestBid", "LowestBid"}, NEW bids \in Seq(StoredBid),
         NEW receipt, Lists(receipt, rule, bids)
  PROVE  ComputedWinner(receipt) = Named(Cleared(rule, bids))
<1> DEFINE n == Len(bids)
           m == Len(receipt.bidders)
           w == CHOOSE u : u = [i \in 0 .. m |->
                   IF i = 0 THEN None
                   ELSE IF /\ receipt.bidders[i] \in DOMAIN receipt.bids
                           /\ receipt.bids[receipt.bidders[i]].value # None
                           /\ receipt.bids[receipt.bidders[i]].valid
                           /\ \/ u[i - 1] = None
                              \/ receipt.rule = "HighestBid"
                                   /\ receipt.bids[receipt.bidders[i]].value > receipt.bids[u[i - 1]].value
                              \/ receipt.rule # "HighestBid"
                                   /\ receipt.bids[receipt.bidders[i]].value < receipt.bids[u[i - 1]].value
                        THEN receipt.bidders[i] ELSE u[i - 1]]
           Turns(u) == [i \in 0 .. m |-> IF i = 0 THEN None
                                         ELSE WinnerTurn(receipt, receipt.bidders[i], u[i - 1])]
<1>1. n \in Nat /\ m = n
  <2>1. receipt.bidders = [i \in 1 .. n |-> Address[i]] /\ n \in Nat
    BY DEF Lists
  <2> QED
    BY <2>1
<1>2. ComputedWinner(receipt) = w[m]
  BY DEF ComputedWinner
<1>3. PICK c : /\ c = [i \in 0 .. n |-> IF i = 0 THEN None ELSE ClearTurn(rule, bids, i, c[i - 1])]
               /\ Cleared(rule, bids) = c[n]
  BY ClearedTable
<1> DEFINE v == [i \in 0 .. n |-> Named(c[i])]
<1> HIDE DEF n
<1>4. \A i \in 0 .. n : c[i] = IF i = 0 THEN None ELSE ClearTurn(rule, bids, i, c[i - 1])
  BY <1>1, <1>3
<1>5. \A i \in 0 .. n : c[i] \in {None} \cup 1 .. n
  <2> DEFINE S == {i \in Nat : i <= n => c[i] \in {None} \cup 1 .. n}
  <2>1. 0 \in S
    BY <1>1, <1>4
  <2>2. ASSUME NEW i \in S PROVE i + 1 \in S
    <3>1. i + 1 <= n => c[i + 1] = ClearTurn(rule, bids, i + 1, c[i])
      BY <1>1, <1>4
    <3> QED
      BY <1>1, <3>1 DEF ClearTurn
  <2> HIDE DEF S
  <2>3. S = Nat
    <3>1. S \in SUBSET Nat
      BY DEF S
    <3> QED
      BY <2>1, <2>2, <3>1, NatSetInduction
  <2> QED
    BY <1>1, <2>3 DEF S
<1>6. ASSUME NEW i \in 1 .. n
      PROVE  WinnerTurn(receipt, receipt.bidders[i], Named(c[i - 1])) = Named(c[i])
  <2>1. c[i - 1] \in {None} \cup 1 .. n /\ c[i] = ClearTurn(rule, bids, i, c[i - 1])
    BY <1>1, <1>4, <1>5
  <2> QED
    BY <2>1, TurnsAgree DEF n
<1>7. v = Turns(v)
  <2>1. ASSUME NEW i \in 0 .. n
        PROVE  v[i] = IF i = 0 THEN None ELSE WinnerTurn(receipt, receipt.bidders[i], v[i - 1])
    <3>1. v[i] = Named(c[i]) /\ (i # 0 => v[i - 1] = Named(c[i - 1]) /\ i \in 1 .. n)
      BY <1>1
    <3>2. c[0] = None /\ Named(None) = None
      BY <1>1, <1>4 DEF Named
    <3> QED
      BY <1>6, <3>1, <3>2
  <2>2. v = [i \in 0 .. n |-> v[i]]
    OBVIOUS
  <2> HIDE DEF v
  <2> QED
    BY <1>1, <2>1, <2>2
<1> HIDE DEF m
<1>8. w = Turns(w)
  <2> HIDE DEF v
  <2>1. v = [i \in 0 .. m |->
                   IF i = 0 THEN None
                   ELSE IF /\ receipt.bidders[i] \in DOMAIN receipt.bids
                           /\ receipt.bids[receipt.bidders[i]].value # None
                           /\ receipt.bids[receipt.bidders[i]].valid
                           /\ \/ v[i - 1] = None
                              \/ receipt.rule = "HighestBid"
                                   /\ receipt.bids[receipt.bidders[i]].value > receipt.bids[v[i - 1]].value
                              \/ receipt.rule # "HighestBid"
                                   /\ receipt.bids[receipt.bidders[i]].value < receipt.bids[v[i - 1]].value
                        THEN receipt.bidders[i] ELSE v[i - 1]]
    BY <1>7, Zenon DEF WinnerTurn
  <2> QED
    BY <2>1, Zenon DEF WinnerTurn
<1> HIDE DEF w, v
<1> DEFINE S == {i \in Nat : i <= n => w[i] = v[i]}
<1>9. 0 \in S
  BY <1>1, <1>7, <1>8
<1>10. ASSUME NEW i \in S PROVE i + 1 \in S
  <2> SUFFICES ASSUME i + 1 <= n PROVE w[i + 1] = v[i + 1]
    OBVIOUS
  <2> DEFINE j == i + 1
  <2>1. w[j - 1] = v[j - 1] /\ j \in 0 .. m /\ j # 0
    BY <1>1
  <2> HIDE DEF j, S
  <2>2. w[j] = WinnerTurn(receipt, receipt.bidders[j], w[j - 1])
    BY <1>8, <2>1
  <2>3. v[j] = WinnerTurn(receipt, receipt.bidders[j], v[j - 1])
    BY <1>7, <2>1
  <2> QED
    BY <2>1, <2>2, <2>3 DEF j
<1> HIDE DEF S
<1>11. S = Nat
  <2>1. S \in SUBSET Nat
    BY DEF S
  <2> QED
    BY <1>9, <1>10, <2>1, NatSetInduction
<1>12. w[n] = v[n]
  BY <1>1, <1>11 DEF S
<1> QED
  BY <1>1, <1>2, <1>3, <1>12 DEF v

\* The round as the receipt needs it.
LEMMA RoundOfBids ==
  ASSUME NEW bids \in Seq(StoredBid), NEW rule \in {"HighestBid", "LowestBid"},
         NEW status \in RoundStatus, NEW round, round = ContractRound(status, rule, bids)
  PROVE  /\ round.status = status /\ round.rule = rule /\ DOMAIN round.bids = DOMAIN bids
         /\ \A i \in DOMAIN bids : round.bids[i].value = bids[i].value
                                   /\ round.bids[i].escrow = bids[i].escrow
         /\ round.winner # None => round.winner = Cleared(rule, bids) /\ round.winner \in DOMAIN bids
<1> DEFINE over == status \in {"Settled", "Voided"}
           won == status \in {"Cleared", "Settled"}
           best == Cleared(rule, bids)
<1>1. /\ round.status = status /\ round.rule = rule
      /\ round.winner = (IF won THEN best ELSE None)
      /\ round.bids = [i \in DOMAIN bids |-> [bids[i] EXCEPT !.settled = over]]
  BY DEF ContractRound
<1>2. over \in BOOLEAN
  OBVIOUS
<1>3. FirstBest(rule, bids, Len(bids), best)
  BY ClearedIsFirstBest
<1> HIDE DEF over, won, best
<1>4. ASSUME NEW i \in DOMAIN bids
      PROVE  round.bids[i].value = bids[i].value /\ round.bids[i].escrow = bids[i].escrow
  <2>1. bids[i] \in StoredBid
    OBVIOUS
  <2>2. round.bids[i] = [bids[i] EXCEPT !.settled = over]
    BY <1>1
  <2> QED
    BY <1>2, <2>1, <2>2, MarkedBid
<1>5. DOMAIN round.bids = DOMAIN bids
  BY <1>1
<1>6. round.winner # None => round.winner = best /\ best \in DOMAIN bids
  BY <1>1, <1>3 DEF FirstBest
<1> QED
  BY <1>1, <1>4, <1>5, <1>6 DEF best

\* What is exported of a round.
LEMMA ExportIs ==
  ASSUME NEW round, NEW id, NEW n \in Nat, DOMAIN round.bids = 1 .. n, n <= Len(Address)
  PROVE  LET e == ExportReceipt(round, id)
         IN  /\ e.version = 1 /\ e.network = "testnet" /\ e.fingerprint = "testnet" /\ e.contract = "C"
             /\ e.round = id /\ e.rule = round.rule /\ e.status = round.status
             /\ e.bidders = [i \in 1 .. n |-> Address[i]]
             /\ DOMAIN e.bids = {Address[i] : i \in 1 .. n}
             /\ \A i \in 1 .. n : e.bids[Address[i]] = BidEntry(round.bids[i], i)
             /\ e.winner = Named(round.winner) /\ e.events = RoundEventLog(id)
<1> DEFINE e == ExportReceipt(round, id)
           bids == [a \in {Address[i] : i \in 1 .. n} |->
                      LET i == CHOOSE k \in 1 .. n : Address[k] = a IN BidEntry(round.bids[i], i)]
<1>1. /\ e.version = 1 /\ e.network = "testnet" /\ e.fingerprint = "testnet" /\ e.contract = "C"
      /\ e.round = id /\ e.rule = round.rule /\ e.status = round.status
      /\ e.bidders = [i \in 1 .. n |-> Address[i]] /\ e.bids = bids
      /\ e.winner = Named(round.winner) /\ e.events = RoundEventLog(id)
  BY DEF ExportReceipt, Named
<1>2. ASSUME NEW i \in 1 .. n PROVE bids[Address[i]] = BidEntry(round.bids[i], i)
  <2>1. (CHOOSE k \in 1 .. n : Address[k] = Address[i]) = i
    BY AddressIs
  <2>2. Address[i] \in {Address[j] : j \in 1 .. n}
    OBVIOUS
  <2> QED
    BY <2>1, <2>2, Zenon
<1>3. DOMAIN bids = {Address[i] : i \in 1 .. n}
  OBVIOUS
<1> HIDE DEF e, bids
<1>4. /\ DOMAIN e.bids = {Address[i] : i \in 1 .. n}
      /\ \A i \in 1 .. n : e.bids[Address[i]] = BidEntry(round.bids[i], i)
  BY <1>1, <1>2, <1>3
<1> QED
  BY <1>1, <1>4 DEF e

\* An entry tells the value and a hash that binds it.
LEMMA EntryIs ==
  ASSUME NEW bid, NEW i \in Nat
  PROVE  LET entry == BidEntry(bid, i)
         IN  /\ entry.value = bid.value /\ entry.escrow = bid.escrow /\ entry.evidence = "hex"
             /\ bid.value # None => entry.nonce = i /\ entry.commitment = Hash(bid.value, i)
             /\ bid.value = None => entry.nonce = None
BY DEF BidEntry

\* It says whether the bid is valid.
LEMMA EntryValid ==
  ASSUME NEW bid, NEW i
  PROVE  BidEntry(bid, i).valid <=> Valid(bid)
BY Zenon DEF BidEntry

\* What a receipt that verifies is sure of.
LEMMA VerifiedIs ==
  ASSUME NEW receipt, VerifyReceipt(receipt, NoExpectation) = {}
  PROVE  /\ ToSet(receipt.bidders) = DOMAIN receipt.bids
         /\ \A b \in DOMAIN receipt.bids :
               /\ receipt.bids[b].value = None => receipt.bids[b].nonce = None
               /\ receipt.bids[b].value # None /\ receipt.bids[b].nonce # None
                    => Hash(receipt.bids[b].value, receipt.bids[b].nonce) = receipt.bids[b].commitment
         /\ ComputedWinner(receipt) # None /\ receipt.winner # None
              => ComputedWinner(receipt) = receipt.winner
         /\ receipt.version = 1 /\ receipt.contract = "C"
<1>1. /\ receipt.version = 1 /\ SchemaErrors(receipt) = {} /\ BidderErrors(receipt) = {}
      /\ WinnerErrors(receipt) = {}
      /\ \A b \in ToSet(receipt.bidders) \cap DOMAIN receipt.bids : EntryErrors(receipt.bids[b]) = {}
  BY DEF VerifyReceipt
<1>2. receipt.contract = "C"
  BY <1>1 DEF SchemaErrors, Error
<1>3. ToSet(receipt.bidders) = DOMAIN receipt.bids
  <2>1. ToSet(receipt.bidders) \subseteq DOMAIN receipt.bids /\ DOMAIN receipt.bids \subseteq ToSet(receipt.bidders)
    BY <1>1 DEF BidderErrors, Error
  <2> QED
    BY <2>1
<1>4. ASSUME NEW b \in DOMAIN receipt.bids
      PROVE  /\ receipt.bids[b].value = None => receipt.bids[b].nonce = None
             /\ receipt.bids[b].value # None /\ receipt.bids[b].nonce # None
                  => Hash(receipt.bids[b].value, receipt.bids[b].nonce) = receipt.bids[b].commitment
  <2>1. BindingErrors(receipt.bids[b]) = {}
    BY <1>1, <1>3 DEF EntryErrors
  <2> QED
    BY <2>1 DEF BindingErrors, Error
<1>5. ComputedWinner(receipt) # None /\ receipt.winner # None => ComputedWinner(receipt) = receipt.winner
  BY <1>1 DEF WinnerErrors, Error
<1> QED
  BY <1>1, <1>2, <1>3, <1>4, <1>5

\* The names of the log, in their order.
LEMMA LogIs ==
  ASSUME NEW id
  PROVE  LET log == RoundEventLog(id)
         IN  /\ DOMAIN log = 1 .. 6 /\ Len(log) = 6 /\ log # <<>>
             /\ \A k \in 1 .. 6 : /\ log[k].name = Lifecycle[k] /\ log[k].round = id
                                  /\ log[k].shape = "ok" /\ log[k].phase = Phase(Lifecycle[k])
<1>1. Lifecycle \in Seq({"created", "commit", "revealing", "reveal", "cleared", "settled"})
      /\ Len(Lifecycle) = 6 /\ DOMAIN Lifecycle = 1 .. 6
  BY DEF Lifecycle
<1>2. RoundEventLog(id) = [k \in 1 .. 6 |-> [name |-> Lifecycle[k], round |-> id, shape |-> "ok",
                                            phase |-> Phase(Lifecycle[k])]]
  BY <1>1 DEF RoundEventLog
<1> QED
  BY <1>2

\* Each name of the lifecycle has its place in it.
LEMMA RanksAre ==
  /\ DOMAIN Lifecycle = 1 .. 6
  /\ \A k \in 1 .. 6 : /\ Lifecycle[k] \in EventNames /\ Lifecycle[k] # "voided"
                       /\ Phase(Lifecycle[k]) = Lifecycle[k]
                       /\ Rank(Lifecycle[k]) = k
                       /\ Lifecycle[k] = "settled" <=> k = 6
<1>1. /\ Lifecycle[1] = "created" /\ Lifecycle[2] = "commit" /\ Lifecycle[3] = "revealing"
      /\ Lifecycle[4] = "reveal" /\ Lifecycle[5] = "cleared" /\ Lifecycle[6] = "settled"
      /\ DOMAIN Lifecycle = 1 .. 6
  BY DEF Lifecycle
<1>2. \A k \in 1 .. 6 : k = 1 \/ k = 2 \/ k = 3 \/ k = 4 \/ k = 5 \/ k = 6
  OBVIOUS
<1>3. ASSUME NEW k \in 1 .. 6
      PROVE  /\ Lifecycle[k] \in EventNames /\ Lifecycle[k] # "voided"
             /\ Lifecycle[k] = "settled" <=> k = 6
             /\ \A j \in 1 .. 6 : Lifecycle[j] = Lifecycle[k] => j = k
  <2>1. Lifecycle[k] \in EventNames
    BY <1>1 DEF EventNames, ToSet
  <2> QED
    BY <1>1, <1>2, <2>1
<1>4. ASSUME NEW k \in 1 .. 6 PROVE Phase(Lifecycle[k]) = Lifecycle[k]
  BY <1>3 DEF Phase
<1>5. ASSUME NEW k \in 1 .. 6 PROVE Rank(Lifecycle[k]) = k
  <2>1. Rank(Lifecycle[k]) = CHOOSE i \in 1 .. 6 : Lifecycle[i] = Lifecycle[k]
    BY <1>1, <1>4 DEF Rank
  <2> QED
    BY <1>3, <2>1
<1> QED
  BY <1>1, <1>3, <1>4, <1>5

\* The log of an export has no error unless its round was voided.
LEMMA LogVerifies ==
  ASSUME NEW receipt, receipt.events = RoundEventLog(receipt.round), receipt.status # "Voided"
  PROVE  VerifyReceiptEvents(receipt, NoExpectation) = {}
<1> DEFINE events == receipt.events
           finals == {i \in DOMAIN events : events[i].name \in {"settled", "voided"}}
           present == {events[i].name : i \in DOMAIN events}
<1>1. /\ DOMAIN events = 1 .. 6 /\ Len(events) = 6 /\ events # <<>>
      /\ \A k \in 1 .. 6 : /\ events[k].name = Lifecycle[k] /\ events[k].round = receipt.round
                           /\ events[k].shape = "ok" /\ events[k].phase = Phase(Lifecycle[k])
  BY LogIs
<1> HIDE DEF events
<1>2. \A i \in DOMAIN events : EventErrors(receipt, events[i]) = {}
  BY <1>1, RanksAre DEF EventErrors, Error
<1>3. InLedgerOrder(events)
  <2> SUFFICES ASSUME NEW i \in 2 .. 6
               PROVE  Rank(events[i - 1].name) <= Rank(events[i].name)
    BY <1>1 DEF InLedgerOrder
  <2>1. i \in 1 .. 6 /\ i - 1 \in 1 .. 6
    OBVIOUS
  <2>2. events[i].name = Lifecycle[i] /\ events[i - 1].name = Lifecycle[i - 1]
    BY <1>1, <2>1
  <2>3. Rank(Lifecycle[i]) = i /\ Rank(Lifecycle[i - 1]) = i - 1
    BY <2>1, RanksAre
  <2> QED
    BY <2>2, <2>3
<1>4. ~ \E i, j \in finals : i # j
  <2>1. \A i \in finals : i = 6
    BY <1>1, RanksAre
  <2> QED
    BY <2>1
<1>5. ToSet(Lifecycle) \subseteq present /\ "voided" \notin present
  <2>1. ToSet(Lifecycle) = {Lifecycle[k] : k \in 1 .. 6}
    BY RanksAre DEF ToSet
  <2>2. present = {Lifecycle[k] : k \in 1 .. 6}
    BY <1>1
  <2> QED
    BY <2>1, <2>2, RanksAre
<1>6. RequiredEvents(receipt) = {}
  <2>1. CASE receipt.status = "Settled"
    <3>1. RequiredEvents(receipt) = Error("missing_events_required", ~(ToSet(Lifecycle) \subseteq present))
                                    \cup Error("event_phase_mismatch", "voided" \in present)
      BY <2>1 DEF RequiredEvents, events
    <3> QED
      BY <1>5, <3>1 DEF Error
  <2>2. CASE receipt.status # "Settled"
    BY <2>2 DEF RequiredEvents
  <2> QED
    BY <2>1, <2>2
<1>7. /\ Error("event_contract_mismatch", NoExpectation.contract \notin {None, receipt.contract}) = {}
      /\ Error("event_network_mismatch", NoExpectation.network \notin {None, receipt.network}) = {}
  BY DEF Error, NoExpectation
<1>8. /\ Error("event_not_in_ledger_order", ~InLedgerOrder(events)) = {}
      /\ Error("duplicate_settle_event", \E i, j \in finals : i # j) = {}
  BY <1>3, <1>4 DEF Error
<1>9. UNION {EventErrors(receipt, events[i]) : i \in DOMAIN events} = {}
  BY <1>2
<1> HIDE DEF finals
<1>10. VerifyReceiptEvents(receipt, NoExpectation) =
          Error("event_contract_mismatch", NoExpectation.contract \notin {None, receipt.contract})
          \cup Error("event_network_mismatch", NoExpectation.network \notin {None, receipt.network})
          \cup (IF events = <<>> THEN {"missing_events"}
                ELSE (UNION {EventErrors(receipt, events[i]) : i \in DOMAIN events})
                     \cup Error("event_not_in_ledger_order", ~InLedgerOrder(events))
                     \cup Error("duplicate_settle_event", \E i, j \in finals : i # j)
                     \cup RequiredEvents(receipt))
  BY Zenon DEF VerifyReceiptEvents, events, finals
<1> QED
  BY <1>1, <1>6, <1>7, <1>8, <1>9, <1>10

\* A receipt whose winner is the one it computes, over entries that bind their values.
LEMMA ExportVerifies ==
  ASSUME NEW bids \in Seq(StoredBid), NEW rule \in {"HighestBid", "LowestBid"},
         NEW status \in RoundStatus, status # "Voided", Len(bids) <= Len(Address),
         NEW round, round = ContractRound(status, rule, bids)
  PROVE  VerifyReceipt(ExportReceipt(round, "1"), NoExpectation) = {}
<1> DEFINE e == ExportReceipt(round, "1")
           n == Len(bids)
<1>1. n \in Nat /\ DOMAIN bids = 1 .. n
  OBVIOUS
<1>2. /\ round.status = status /\ round.rule = rule /\ DOMAIN round.bids = 1 .. n
      /\ \A i \in 1 .. n : round.bids[i].value = bids[i].value /\ round.bids[i].escrow = bids[i].escrow
      /\ round.winner # None => round.winner = Cleared(rule, bids) /\ round.winner \in 1 .. n
  BY <1>1, RoundOfBids
<1> HIDE DEF n
<1>3. /\ e.version = 1 /\ e.network = "testnet" /\ e.fingerprint = "testnet" /\ e.contract = "C"
      /\ e.round = "1" /\ e.rule = round.rule /\ e.status = round.status
      /\ e.bidders = [i \in 1 .. n |-> Address[i]]
      /\ DOMAIN e.bids = {Address[i] : i \in 1 .. n}
      /\ \A i \in 1 .. n : e.bids[Address[i]] = BidEntry(round.bids[i], i)
      /\ e.winner = Named(round.winner) /\ e.events = RoundEventLog("1")
  BY <1>1, <1>2, ExportIs DEF n
<1> HIDE DEF e
<1>4. SchemaErrors(e) = {}
  BY <1>2, <1>3 DEF SchemaErrors, Error, Decimal
<1>5. VerifyReceiptEvents(e, NoExpectation) = {}
  BY <1>2, <1>3, LogVerifies
<1>6. BidderErrors(e) = {}
  <2>1. \A i \in 1 .. n : i \in 1 .. Len(Address)
    BY <1>1, AddressIs DEF n
  <2>2. ToSet(e.bidders) = {Address[i] : i \in 1 .. n} /\ IsInjective(e.bidders)
    <3>1. DOMAIN e.bidders = 1 .. n /\ \A i \in 1 .. n : e.bidders[i] = Address[i]
      BY <1>3
    <3>2. ToSet(e.bidders) = {Address[i] : i \in 1 .. n}
      BY <3>1 DEF ToSet
    <3>3. \A i, j \in 1 .. n : Address[i] = Address[j] => i = j
      BY <2>1, AddressIs
    <3>4. IsInjective(e.bidders)
      BY <3>1, <3>3 DEF IsInjective
    <3> QED
      BY <3>2, <3>4
  <2>3. ToSet(e.bidders) \subseteq ToSet(Address)
    <3>1. DOMAIN Address = 1 .. Len(Address)
      BY AddressIs
    <3> QED
      BY <2>1, <2>2, <3>1 DEF ToSet
  <2> QED
    BY <1>3, <2>2, <2>3 DEF BidderErrors, Error
<1>7. ASSUME NEW b \in DOMAIN e.bids PROVE EntryErrors(e.bids[b]) = {}
  <2>1. PICK i \in 1 .. n : b = Address[i]
    BY <1>3
  <2>2. /\ e.bids[b].value = bids[i].value /\ e.bids[b].escrow = bids[i].escrow
        /\ e.bids[b].evidence = "hex"
        /\ bids[i].value # None => e.bids[b].nonce = i /\ e.bids[b].commitment = Hash(bids[i].value, i)
        /\ bids[i].value = None => e.bids[b].nonce = None
    <3>1. e.bids[b] = BidEntry(round.bids[i], i) /\ i \in Nat
      BY <1>3, <2>1
    <3> QED
      BY <1>2, <3>1, EntryIs
  <2>3. bids[i].escrow \in Nat
    BY <1>1 DEF StoredBid
  <2>4. BindingErrors(e.bids[b]) = {}
    BY <2>2 DEF BindingErrors, Error
  <2> QED
    BY <2>2, <2>3, <2>4 DEF EntryErrors, Error
<1>8. WinnerErrors(e) = {}
  <2>1. Lists(e, rule, bids)
    <3>1. \A i \in 1 .. n : /\ Address[i] \in DOMAIN e.bids
                            /\ e.bids[Address[i]].value = bids[i].value
      <4> TAKE i \in 1 .. n
      <4>1. i \in Nat /\ e.bids[Address[i]] = BidEntry(round.bids[i], i)
        BY <1>3
      <4> QED
        BY <1>2, <1>3, <4>1, EntryIs
    <3>2. \A i \in 1 .. n : e.bids[Address[i]].valid <=> Valid(bids[i])
      <4> TAKE i \in 1 .. n
      <4>1. e.bids[Address[i]] = BidEntry(round.bids[i], i)
        BY <1>3
      <4>2. Valid(round.bids[i]) <=> Valid(bids[i])
        BY <1>2 DEF Valid
      <4> QED
        BY <4>1, <4>2, EntryValid, Zenon
    <3>3. DOMAIN bids = 1 .. n
      BY <1>1
    <3> QED
      BY <1>2, <1>3, <3>1, <3>2, <3>3 DEF Lists, n
  <2>2. ComputedWinner(e) = Named(Cleared(rule, bids))
    BY <2>1, ComputedIsCleared
  <2>3. e.winner # None => round.winner # None
    BY <1>3 DEF Named
  <2>4. e.winner # None => ComputedWinner(e) = e.winner
    BY <1>2, <1>3, <2>2, <2>3
  <2> QED
    BY <2>4 DEF WinnerErrors, Error
<1>9. UNION {EntryErrors(e.bids[b]) : b \in ToSet(e.bidders) \cap DOMAIN e.bids} = {}
  BY <1>7
<1> QED
  BY <1>3, <1>4, <1>5, <1>6, <1>8, <1>9 DEF VerifyReceipt, e

\* What the verify command says of a receipt.
LEMMA ToldIs ==
  ASSUME NEW receipt, NEW artifact
  PROVE  LET told == CmdVerify("parsed", receipt, artifact)
         IN  /\ told.exit = 0 <=> told.json.valid
             /\ told.json.valid =>
                  /\ VerifyReceipt(receipt, NoExpectation) = {}
                  /\ artifact \in {"none", receipt.checksum}
                  /\ told.json.round = receipt.round
<1> DEFINE errors == VerifyReceipt(receipt, NoExpectation) \cup ArtifactErrors(receipt, artifact)
           found == IF "parsed" # "parsed" \/ receipt.version # 1 THEN {"parse_error"} ELSE errors
           told == CmdVerify("parsed", receipt, artifact)
<1>1. told = [exit |-> IF found = {} THEN 0 ELSE 1, json |-> BuildJsonOutput(receipt, found)]
  BY DEF CmdVerify
<1>2. found = {} => errors = {}
  OBVIOUS
<1> HIDE DEF told, found
<1>3. told.json.valid <=> found = {}
  BY <1>1, Zenon DEF BuildJsonOutput
<1>4. told.exit = 0 <=> found = {}
  BY <1>1
<1>5. found = {} => told.json.round = receipt.round
  BY <1>1 DEF BuildJsonOutput
<1>6. errors = {} => artifact \in {"none", receipt.checksum}
  BY DEF ArtifactErrors, Error
<1> HIDE DEF errors
<1>7. told.exit = 0 <=> told.json.valid
  BY <1>3, <1>4
<1>8. told.json.valid => /\ errors = {} /\ artifact \in {"none", receipt.checksum}
                         /\ told.json.round = receipt.round
  BY <1>2, <1>3, <1>5, <1>6
<1>9. errors = {} => VerifyReceipt(receipt, NoExpectation) = {}
  BY DEF errors
<1> QED
  BY <1>7, <1>8, <1>9, Zenon DEF told

\* A redacted receipt has lost its contract, and never verifies.
LEMMA RedactedFails ==
  ASSUME NEW receipt, "contract" \in DOMAIN receipt, receipt.version = 1
  PROVE  ~CmdVerify("parsed", CmdRedact("parsed", receipt), "none").json.valid
<1> DEFINE redacted == CmdRedact("parsed", receipt)
<1>1. redacted = RedactReceipt(receipt)
  BY DEF CmdRedact
<1>2. redacted.contract = "redacted"
  BY <1>1 DEF RedactReceipt
<1> HIDE DEF redacted
<1>3. VerifyReceipt(redacted, NoExpectation) # {}
  BY <1>2, VerifiedIs
<1>4. ~CmdVerify("parsed", redacted, "none").json.valid
  BY <1>3, ToldIs, Zenon
<1> QED
  BY <1>4 DEF redacted

\* The bidders, the revealed bids and the winner of the round are in the receipt.
Tells(receipt, round) ==
    /\ ToSet(receipt.bidders) = {Address[i] : i \in DOMAIN round.bids}
    /\ \A i \in DOMAIN round.bids : round.bids[i].value \in {None, receipt.bids[Address[i]].value}
    /\ round.winner # None => receipt.winner \in {None, Address[round.winner]}

\* A receipt that verifies tells the bids and the winner of the round it was
\* exported for.
LEMMA ChangeIsSeen ==
  ASSUME NEW bids \in Seq(StoredBid), NEW rule \in {"HighestBid", "LowestBid"},
         NEW status \in RoundStatus, Len(bids) <= Len(Address),
         NEW round, round = ContractRound(status, rule, bids),
         NEW receipt, OneChange(ExportReceipt(round, "1"), receipt),
         VerifyReceipt(receipt, NoExpectation) = {}
  PROVE  Tells(receipt, round)
<1> DEFINE e == ExportReceipt(round, "1")
           n == Len(bids)
<1>1. n \in Nat /\ DOMAIN bids = 1 .. n
  OBVIOUS
<1>2. /\ round.status = status /\ round.rule = rule /\ DOMAIN round.bids = 1 .. n
      /\ \A i \in 1 .. n : round.bids[i].value = bids[i].value /\ round.bids[i].escrow = bids[i].escrow
      /\ round.winner # None => round.winner = Cleared(rule, bids) /\ round.winner \in 1 .. n
  BY <1>1, RoundOfBids
<1> HIDE DEF n
<1>3. /\ e.rule = round.rule
      /\ e.bidders = [i \in 1 .. n |-> Address[i]]
      /\ DOMAIN e.bids = {Address[i] : i \in 1 .. n}
      /\ \A i \in 1 .. n : e.bids[Address[i]] = BidEntry(round.bids[i], i)
      /\ e.winner = Named(round.winner)
  BY <1>1, <1>2, ExportIs DEF n
<1>4. PICK field \in {"bidders", "bids", "winner", "rule"} :
         /\ field # "bidders" => receipt.bidders = e.bidders
         /\ field # "winner" => receipt.winner = e.winner
         /\ field # "rule" => receipt.rule = e.rule
         /\ field = "bids" => BidsChanged(e.bids, receipt.bids)
         /\ field # "bids" => receipt.bids = e.bids
  BY DEF OneChange
<1> HIDE DEF e
<1>5. /\ ToSet(receipt.bidders) = DOMAIN receipt.bids
      /\ \A b \in DOMAIN receipt.bids :
            /\ receipt.bids[b].value = None => receipt.bids[b].nonce = None
            /\ receipt.bids[b].value # None /\ receipt.bids[b].nonce # None
                 => Hash(receipt.bids[b].value, receipt.bids[b].nonce) = receipt.bids[b].commitment
      /\ ComputedWinner(receipt) # None /\ receipt.winner # None
           => ComputedWinner(receipt) = receipt.winner
  BY VerifiedIs
<1>6. ToSet(e.bidders) = {Address[i] : i \in 1 .. n}
  <2>1. DOMAIN e.bidders = 1 .. n /\ \A i \in 1 .. n : e.bidders[i] = Address[i]
    BY <1>3
  <2> QED
    BY <2>1 DEF ToSet
<1>7. ToSet(receipt.bidders) = {Address[i] : i \in 1 .. n}
  <2>1. CASE field = "bids"
    BY <1>4, <1>6, <2>1
  <2>2. CASE field # "bids"
    BY <1>3, <1>4, <1>5, <2>2
  <2> QED
    BY <2>1, <2>2
<1>8. \A i \in 1 .. n :
         LET entry == e.bids[Address[i]]
         IN  /\ Address[i] \in DOMAIN e.bids /\ entry.value = bids[i].value /\ i # None
             /\ bids[i].value # None => entry.nonce = i /\ entry.commitment = Hash(bids[i].value, i)
  <2> TAKE i \in 1 .. n
  <2>1. i \in Nat /\ e.bids[Address[i]] = BidEntry(round.bids[i], i) /\ Address[i] \in DOMAIN e.bids
    BY <1>3
  <2> QED
    BY <1>2, <2>1, EntryIs, NoneAssumption
<1>9. ASSUME NEW i \in 1 .. n, bids[i].value # None
      PROVE  receipt.bids[Address[i]].value = bids[i].value
  <2> DEFINE b == Address[i]
             old == e.bids[b]
             new == receipt.bids[b]
  <2>1. /\ b \in DOMAIN e.bids /\ old.value = bids[i].value /\ i # None
        /\ old.nonce = i /\ old.commitment = Hash(bids[i].value, i)
    BY <1>8, <1>9
  <2>2. /\ b \in DOMAIN receipt.bids
        /\ new.value = None => new.nonce = None
        /\ new.value # None /\ new.nonce # None => Hash(new.value, new.nonce) = new.commitment
    BY <1>3, <1>5, <1>7, <2>1
  <2>3. new = old \/ EntryChanged(old, new)
    <3>1. CASE field = "bids"
      <4>1. PICK a : /\ \A c \in (DOMAIN receipt.bids \cap DOMAIN e.bids) \ {a} :
                            receipt.bids[c] = e.bids[c]
                     /\ a \in DOMAIN receipt.bids \cap DOMAIN e.bids
                          => EntryChanged(e.bids[a], receipt.bids[a])
        BY <1>4, <3>1 DEF BidsChanged
      <4> QED
        BY <2>1, <2>2, <4>1
    <3>2. CASE field # "bids"
      BY <1>4, <3>2
    <3> QED
      BY <3>1, <3>2
  <2> HIDE DEF b, old, new
  <2>4. CASE new = old
    BY <2>1, <2>4 DEF new, b
  <2>5. CASE EntryChanged(old, new)
    <3>1. PICK place \in {"commitment", "value", "nonce", "other"} :
             /\ place # "commitment" => new.commitment = old.commitment
             /\ place # "value" => new.value = old.value
             /\ place # "nonce" => new.nonce = old.nonce
      BY <2>5 DEF EntryChanged
    <3>2. CASE place = "value"
      <4>1. new.nonce = i /\ new.commitment = Hash(bids[i].value, i)
        BY <2>1, <3>1, <3>2
      <4>2. Hash(new.value, i) = Hash(bids[i].value, i)
        BY <2>1, <2>2, <4>1
      <4>3. new.value = bids[i].value
        BY <4>2 DEF Hash
      <4> QED
        BY <4>3 DEF new, b
    <3>3. CASE place # "value"
      <4>1. new.value = bids[i].value
        BY <2>1, <3>1, <3>3
      <4> QED
        BY <4>1 DEF new, b
    <3> QED
      BY <3>2, <3>3
  <2> QED
    BY <2>3, <2>4, <2>5
<1>10. ASSUME round.winner # None PROVE receipt.winner \in {None, Address[round.winner]}
  <2>1. CASE field # "winner"
    BY <1>3, <1>4, <1>10, <2>1 DEF Named
  <2>2. CASE field = "winner"
    <3>1. receipt.bids = e.bids /\ receipt.bidders = e.bidders /\ receipt.rule = rule
      BY <1>2, <1>3, <1>4, <2>2
    <3>2. \A i \in 1 .. n : e.bids[Address[i]].valid <=> Valid(bids[i])
      <4> TAKE i \in 1 .. n
      <4>1. e.bids[Address[i]] = BidEntry(round.bids[i], i)
        BY <1>3
      <4>2. Valid(round.bids[i]) <=> Valid(bids[i])
        BY <1>2 DEF Valid
      <4> QED
        BY <4>1, <4>2, EntryValid, Zenon
    <3>3. Lists(receipt, rule, bids)
      BY <1>1, <1>3, <1>8, <3>1, <3>2 DEF Lists, n
    <3>4. ComputedWinner(receipt) = Named(round.winner)
      BY <1>2, <1>10, <3>3, ComputedIsCleared
    <3>5. Named(round.winner) = Address[round.winner] /\ Address[round.winner] # None
      BY <1>1, <1>2, <1>10, AddressIs DEF Named, n
    <3> QED
      BY <1>5, <3>4, <3>5
  <2> QED
    BY <2>1, <2>2
<1>11. \A i \in DOMAIN round.bids : round.bids[i].value \in {None, receipt.bids[Address[i]].value}
  BY <1>2, <1>9
<1> QED
  BY <1>2, <1>7, <1>10, <1>11 DEF Tells

\* A receipt is verified as exported, and when it is changed in one place it is
\* verified only while it tells every revealed bid and the winner (verify.ts,
\* receipt-events.ts, services/receipt-cli).
THEOREM VerifiedTellsOutcome ==
  ReceiptInput => ReceiptTellsOutcome
<1> SUFFICES ASSUME ReceiptInput, sample.kind = "receipt" PROVE ReceiptTellsOutcome
  BY DEF ReceiptTellsOutcome
<1> DEFINE round == sample.round
           receipt == sample.receipt
           told == CmdVerify("parsed", receipt, sample.artifact)
<1>1. PICK bids \in Seq(StoredBid), rule \in {"HighestBid", "LowestBid"}, status \in RoundStatus :
           /\ Len(bids) <= Len(Address)
           /\ round = ContractRound(status, rule, bids)
           /\ OneChange(ExportReceipt(round, "1"), receipt)
  BY Zenon DEF ReceiptInput
<1>2. round.status = status
  BY <1>1 DEF ContractRound
<1>3. round.status # "Voided" => VerifyReceipt(CmdExport(TRUE, round, "1"), NoExpectation) = {}
  <2>1. CmdExport(TRUE, round, "1") = ExportReceipt(round, "1")
    BY DEF CmdExport
  <2> HIDE DEF round
  <2> QED
    BY <1>1, <1>2, <2>1, ExportVerifies
<1>4. /\ told.exit = 0 <=> told.json.valid
      /\ told.json.valid =>
           /\ VerifyReceipt(receipt, NoExpectation) = {}
           /\ sample.artifact \in {"none", receipt.checksum}
           /\ told.json.round = receipt.round
  <2> HIDE DEF receipt
  <2> QED
    BY ToldIs
<1>5. VerifyReceipt(receipt, NoExpectation) = {} => Tells(receipt, round)
  <2>1. Len(bids) <= Len(Address) /\ round = ContractRound(status, rule, bids)
    BY <1>1
  <2>2. OneChange(ExportReceipt(round, "1"), receipt)
    BY <1>1
  <2> HIDE DEF round, receipt
  <2> QED
    BY <2>1, <2>2, ChangeIsSeen, Zenon
<1>6. receipt.version = 1 => ~CmdVerify("parsed", CmdRedact("parsed", receipt), "none").json.valid
  <2>1. "contract" \in DOMAIN receipt
    <3>1. "contract" \in DOMAIN ExportReceipt(round, "1")
      BY DEF ExportReceipt
    <3> QED
      BY <1>1, <3>1 DEF OneChange
  <2> QED
    BY <2>1, RedactedFails, Zenon
<1> QED
  BY <1>3, <1>4, <1>5, <1>6, Zenon DEF ReceiptTellsOutcome, Tells
=============================================================================
