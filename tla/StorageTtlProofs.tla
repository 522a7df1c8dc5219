--------------------------- MODULE StorageTtlProofs ---------------------------
(***************************************************************************)
(* Seals outlive the need for them, for any number of bidders, deadlines,  *)
(* TTL parameters and paces of the ledger that satisfy the assumptions of  *)
(* StorageTtl.  A seal that Lasts has enough ledgers left, each of the     *)
(* nominal length, to reach past the reveal deadline; a ledger that closes *)
(* takes one of them and at least as many seconds.                         *)
(***************************************************************************)
EXTENDS StorageTtl, TLAPS

\* An entry live until this ledger is live at the reveal deadline.
Lasts(until) ==
    (until - seq + 1) * LEDGER_CLOSE_SECS > times.reveal_deadline - now

SealsLast ==
    \A b \in Bidder : bid_at[b] # Never /\ WithinCap(bid_at[b]) => Lasts(seal[b])

KeptLast ==
    open_at # Never /\ WithinCap(open_at) => \A b \in kept : Lasts(seal[b])

\* A bidder with a seal has committed.
SealsCommitted == \A b \in Bidder : bid_at[b] = Never => seal[b] = Never

IInv == TypeOK /\ SealsLast /\ KeptLast /\ SealsCommitted
-----------------------------------------------------------------------------
(***************************************************************************)
(* Arithmetic.                                                             *)
(***************************************************************************)
LEMMA MinOfTwo ==
  ASSUME NEW a \in Int, NEW b \in Int
  PROVE  Min({a, b}) = IF a <= b THEN a ELSE b
<1>1. \E x \in {a, b} : \A y \in {a, b} : x <= y
  OBVIOUS
<1>2. Min({a, b}) \in {a, b} /\ \A y \in {a, b} : Min({a, b}) <= y
  BY <1>1 DEF Min
<1> QED
  BY <1>2

LEMMA MaxOfTwo ==
  ASSUME NEW a \in Int, NEW b \in Int
  PROVE  Max({a, b}) = IF a >= b THEN a ELSE b
<1>1. \E x \in {a, b} : \A y \in {a, b} : x >= y
  OBVIOUS
<1>2. Max({a, b}) \in {a, b} /\ \A y \in {a, b} : Max({a, b}) >= y
  BY <1>1 DEF Max
<1> QED
  BY <1>2

LEMMA DivBounds ==
  ASSUME NEW n \in Nat, NEW d \in Nat \ {0}
  PROVE  /\ n \div d \in Nat
         /\ (n \div d) * d <= n
         /\ n < (n \div d + 1) * d
  OBVIOUS

LEMMA ModSmall ==
  ASSUME NEW n \in Nat, NEW m \in Nat \ {0}
  PROVE  n % m \in Nat /\ (n < m => n % m = n)
  OBVIOUS

LEMMA TimesMonotone ==
  ASSUME NEW a \in Int, NEW b \in Int, NEW d \in Nat, a <= b
  PROVE  a * d <= b * d
  OBVIOUS

LEMMA TimesStep ==
  ASSUME NEW a \in Int, NEW d \in Int
  PROVE  (a + 1) * d = a * d + d
  OBVIOUS
-----------------------------------------------------------------------------
(***************************************************************************)
(* The lifetime the contract asks for, and what an extension leaves.       *)
(***************************************************************************)
LEMMA TtlType ==
  ASSUME TypeOK
  PROVE  Ttl(times.reveal_deadline) \in 0 .. PERSISTENT_BUMP
<1> DEFINE D == times.reveal_deadline
           secs == Max({D - now, 0}) + POST_REVEAL_SEAL_BUFFER_SECS
<1>1. D \in Nat /\ now \in Nat
  BY TtlAssumption DEF TypeOK
<1>2. secs \in Nat
  BY <1>1, MaxOfTwo, TtlAssumption
<1> HIDE DEF secs
<1>3. secs \div LEDGER_CLOSE_SECS \in Nat
  BY <1>2, DivBounds, TtlAssumption
<1>4. Max({TEMP_THRESHOLD, secs \div LEDGER_CLOSE_SECS}) \in Nat
  BY <1>3, MaxOfTwo, TtlAssumption
<1> DEFINE asked == Max({TEMP_THRESHOLD, secs \div LEDGER_CLOSE_SECS}) % U32_RANGE
<1>5. Ttl(D) = Min({PERSISTENT_BUMP, asked})
  BY DEF Ttl, secs
<1>6. asked \in Nat /\ PERSISTENT_BUMP \in Nat
  <2> DEFINE n == Max({TEMP_THRESHOLD, secs \div LEDGER_CLOSE_SECS})
  <2>1. n \in Nat /\ U32_RANGE \in Nat \ {0}
    BY <1>4, TtlAssumption
  <2> HIDE DEF n
  <2>2. n % U32_RANGE \in Nat
    BY <2>1, ModSmall
  <2> QED
    BY <2>2, TtlAssumption DEF n
<1> HIDE DEF asked
<1>7. Ttl(D) = Min({PERSISTENT_BUMP, asked})
  BY <1>5
<1>8. Ttl(D) = IF PERSISTENT_BUMP <= asked THEN PERSISTENT_BUMP ELSE asked
  BY <1>6, <1>7, MinOfTwo
<1> QED
  BY <1>6, <1>8

\* As long as the cap does not cut it, the lifetime reaches past the deadline
\* and the buffer behind it.
LEMMA TtlReaches ==
  ASSUME TypeOK, now <= times.reveal_deadline, WithinCap(now)
  PROVE  (Ttl(times.reveal_deadline) + 1) * LEDGER_CLOSE_SECS
             > times.reveal_deadline - now + POST_REVEAL_SEAL_BUFFER_SECS
<1> DEFINE D == times.reveal_deadline
           L == LEDGER_CLOSE_SECS
           secs == Max({D - now, 0}) + POST_REVEAL_SEAL_BUFFER_SECS
           q == secs \div L
<1>1. /\ D \in Nat /\ now \in Nat /\ L \in Nat \ {0} /\ U32_RANGE \in Nat \ {0}
      /\ TEMP_THRESHOLD \in 0 .. U32_RANGE - 1 /\ PERSISTENT_BUMP \in 0 .. U32_RANGE - 1
  BY TtlAssumption DEF TypeOK
<1>2. secs = D - now + POST_REVEAL_SEAL_BUFFER_SECS /\ secs \in Nat
  BY <1>1, MaxOfTwo, TtlAssumption
<1>3. secs <= PERSISTENT_BUMP * L
  BY <1>2 DEF WithinCap
<1>4. Ttl(D) = Min({PERSISTENT_BUMP, Max({TEMP_THRESHOLD, q}) % U32_RANGE})
  BY DEF Ttl
<1> HIDE DEF secs, L
<1>5. q \in Nat /\ q * L <= secs /\ secs < (q + 1) * L
  BY <1>1, <1>2, DivBounds
<1> HIDE DEF q
<1>6. q <= PERSISTENT_BUMP
  <2> SUFFICES ASSUME PERSISTENT_BUMP + 1 <= q PROVE FALSE
    BY <1>1, <1>5
  <2>1. (PERSISTENT_BUMP + 1) * L <= q * L
    BY <1>1, <1>5, TimesMonotone
  <2>2. (PERSISTENT_BUMP + 1) * L = PERSISTENT_BUMP * L + L
    BY <1>1, TimesStep
  <2>3. PERSISTENT_BUMP * L \in Int /\ q * L \in Int
    BY <1>1, <1>5
  <2> QED
    BY <2>1, <2>2, <2>3, <1>1, <1>2, <1>3, <1>5
<1>7. Ttl(D) \in Nat /\ q <= Ttl(D)
  <2> DEFINE asked == Max({TEMP_THRESHOLD, q})
  <2>1. asked \in 0 .. U32_RANGE - 1 /\ q <= asked
    BY <1>1, <1>5, <1>6, MaxOfTwo
  <2> HIDE DEF asked
  <2>2. asked % U32_RANGE = asked
    BY <1>1, <2>1, ModSmall
  <2>3. Ttl(D) = Min({PERSISTENT_BUMP, asked})
    BY <1>4, <2>2 DEF asked
  <2> QED
    BY <2>1, <2>3, <1>1, <1>6, MinOfTwo
<1>8. (q + 1) * L <= (Ttl(D) + 1) * L
  BY <1>1, <1>5, <1>7, TimesMonotone
<1>9. (q + 1) * L \in Int /\ (Ttl(D) + 1) * L \in Int
  BY <1>1, <1>5, <1>7
<1> QED
  BY <1>2, <1>5, <1>8, <1>9 DEF L

LEMMA ExtensionGrows ==
  ASSUME TypeOK, NEW until \in Int
  PROVE  /\ ExtendSealTtl(until, times.reveal_deadline) \in Int
         /\ ExtendSealTtl(until, times.reveal_deadline) >= until
         /\ until <= seq + PERSISTENT_BUMP
              => ExtendSealTtl(until, times.reveal_deadline) <= seq + PERSISTENT_BUMP
<1>1. Ttl(times.reveal_deadline) \in 0 .. PERSISTENT_BUMP /\ seq \in Nat
  BY TtlType, TtlAssumption DEF TypeOK
<1> QED
  BY <1>1, TtlAssumption DEF ExtendSealTtl, ExtendTtl

LEMMA LastsGrows ==
  ASSUME TypeOK, NEW u \in Int, NEW v \in Int, u <= v, Lasts(u)
  PROVE  Lasts(v)
<1>1. seq \in Int /\ now \in Int /\ times.reveal_deadline \in Int /\ LEDGER_CLOSE_SECS \in Nat
  BY TtlAssumption DEF TypeOK
<1>2. (u - seq + 1) * LEDGER_CLOSE_SECS <= (v - seq + 1) * LEDGER_CLOSE_SECS
  BY <1>1, TimesMonotone
<1>3. /\ (u - seq + 1) * LEDGER_CLOSE_SECS \in Int
      /\ (v - seq + 1) * LEDGER_CLOSE_SECS \in Int
  BY <1>1
<1> QED
  BY <1>1, <1>2, <1>3 DEF Lasts

\* A live entry that is written or extended now lasts, unless the cap cuts it.
\* One that is not extended is at most a day short of the lifetime asked for,
\* which is less than the buffer.
LEMMA ExtendedSealLasts ==
  ASSUME TypeOK, NEW until \in Int, until >= seq, WithinCap(now)
  PROVE  Lasts(ExtendSealTtl(until, times.reveal_deadline))
<1> DEFINE D == times.reveal_deadline
           L == LEDGER_CLOSE_SECS
           end == ExtendSealTtl(until, D)
           x == end - seq + 1
           DAY == LEDGERS_PER_DAY
           BUFFER == POST_REVEAL_SEAL_BUFFER_SECS
<1>1. D \in Nat /\ now \in Nat /\ seq \in Nat /\ L \in Nat \ {0} /\ DAY \in Nat /\ BUFFER \in Nat
  BY TtlAssumption DEF TypeOK
<1>2. Ttl(D) \in 0 .. PERSISTENT_BUMP /\ PERSISTENT_BUMP \in Nat
  BY TtlType, TtlAssumption
<1>3. end \in Int /\ end >= until
  BY ExtensionGrows
<1>4. \/ end = seq + Ttl(D)
      \/ end = until /\ until - seq > Ttl(D) - DAY
      \/ end = until /\ until >= seq + Ttl(D)
  BY <1>1, <1>2, MaxOfTwo DEF ExtendSealTtl, ExtendTtl
<1> HIDE DEF end, L, DAY, BUFFER
<1>5. SUFFICES x * L > D - now
  BY DEF Lasts, L, end
<1>6. x \in Int /\ x * L \in Int
  BY <1>1, <1>3
<1>7. CASE now > D
  <2>1. 1 <= x
    BY <1>1, <1>3
  <2> HIDE DEF x
  <2>2. 1 * L <= x * L
    BY <1>1, <1>6, <2>1, TimesMonotone
  <2> QED
    BY <1>1, <1>6, <1>7, <2>2
<1>8. CASE now <= D
  <2> DEFINE t == Ttl(D) + 1
  <2>1. t * L > D - now + BUFFER
    BY <1>8, TtlReaches DEF L, BUFFER
  <2>2. t \in Int /\ t * L \in Int
    BY <1>1, <1>2
  <2>3. t <= x \/ t - DAY + 1 <= x
    BY <1>1, <1>2, <1>3, <1>4
  <2> HIDE DEF x, t
  <2>4. CASE t <= x
    <3>1. t * L <= x * L
      BY <1>1, <1>6, <2>2, <2>4, TimesMonotone
    <3> QED
      BY <1>1, <1>6, <2>1, <2>2, <3>1
  <2>5. CASE t - DAY + 1 <= x
    <3>1. (t - DAY + 1) * L <= x * L
      BY <1>1, <1>6, <2>2, <2>5, TimesMonotone
    <3>2. (t - DAY + 1) * L = t * L - DAY * L + L
      BY <1>1, <2>2
    <3>3. DAY * L \in Int /\ DAY * L <= BUFFER
      BY <1>1, PaceAssumption DEF DAY, L, BUFFER
    <3> QED
      BY <1>1, <1>6, <2>1, <2>2, <3>1, <3>2, <3>3
  <2> QED
    BY <2>3, <2>4, <2>5
<1> QED
  BY <1>1, <1>7, <1>8
-----------------------------------------------------------------------------
(***************************************************************************)
(* The inductive invariant, one step per action.                           *)
(***************************************************************************)
LEMMA TtlInit == Init => IInv
<1> SUFFICES ASSUME Init PROVE IInv
  OBVIOUS
<1>1. TypeOK
  BY TtlAssumption DEF Init, TypeOK, Never
<1> QED
  BY <1>1 DEF Init, IInv, SealsLast, KeptLast, SealsCommitted, Never

\* A ledger that closes takes one of the entry's ledgers, and at least as many
\* seconds as it counts for.
LEMMA LedgerLasts ==
  ASSUME TypeOK, NEW p \in Pace, CloseLedger(p), NEW until \in Int, Lasts(until)
  PROVE  (until - seq' + 1) * LEDGER_CLOSE_SECS > times'.reveal_deadline - now'
<1> DEFINE L == LEDGER_CLOSE_SECS
           x == until - seq
<1>1. /\ L \in Nat /\ p \in Nat /\ p >= L /\ now \in Nat /\ seq \in Nat
      /\ times.reveal_deadline \in Nat
  BY TtlAssumption, PaceAssumption DEF TypeOK
<1>2. seq' = seq + 1 /\ now' = now + p /\ times' = times
  BY DEF CloseLedger
<1>3. (x + 1) * L > times.reveal_deadline - now
  BY DEF Lasts
<1>4. (x + 1) * L = x * L + L /\ x * L \in Int
  BY <1>1, TimesStep
<1>5. until - seq' + 1 = x
  BY <1>1, <1>2
<1> HIDE DEF L, x
<1>6. x * L > times.reveal_deadline - (now + p)
  BY <1>1, <1>3, <1>4
<1> QED
  BY <1>2, <1>5, <1>6 DEF L

LEMMA TtlCloseLedger ==
  ASSUME IInv, NEW p \in Pace, CloseLedger(p)
  PROVE  IInv'
<1>1. TypeOK'
  <2>1. p \in Nat /\ seq' = seq + 1 /\ now' = now + p /\ MaxSeq \in Nat /\ PERSISTENT_BUMP \in Nat
    BY TtlAssumption DEF CloseLedger
  <2>2. seq \in Nat /\ seq < MaxSeq
    BY DEF CloseLedger, IInv, TypeOK
  <2>3. \A b \in Bidder : seal[b] \in Int /\ seal[b] <= seq' + PERSISTENT_BUMP
    BY <2>1, <2>2 DEF IInv, TypeOK, Never
  <2> QED
    BY <2>1, <2>2, <2>3 DEF IInv, TypeOK, CloseLedger
<1>2. UNCHANGED <<times, status, seal, instance, bid_at, open_at, kept>>
  BY DEF CloseLedger
<1>3. seal \in [Bidder -> Int] /\ kept \subseteq Bidder
  BY DEF IInv, TypeOK, Never
<1>4. SealsLast'
  BY <1>2, <1>3, LedgerLasts DEF IInv, SealsLast, WithinCap, Lasts
<1>5. KeptLast'
  BY <1>2, <1>3, LedgerLasts DEF IInv, KeptLast, WithinCap, Lasts
<1>6. SealsCommitted'
  BY <1>2 DEF IInv, SealsCommitted
<1> QED
  BY <1>1, <1>4, <1>5, <1>6 DEF IInv

\* The seals and the deadlines stay.
LEMMA SealsStay ==
  ASSUME IInv, UNCHANGED <<seq, now, times, seal, bid_at, open_at, kept>>
  PROVE  SealsLast' /\ KeptLast' /\ SealsCommitted'
BY DEF IInv, SealsLast, KeptLast, SealsCommitted, WithinCap, Lasts

LEMMA TtlCreateRound ==
  ASSUME IInv, CreateRound
  PROVE  IInv'
<1>1. ExtendTtl(instance, PERSISTENT_THRESHOLD, PERSISTENT_BUMP) \in 0 .. seq + PERSISTENT_BUMP
  BY TtlAssumption DEF IInv, TypeOK, ExtendTtl
<1>2. TypeOK'
  BY <1>1 DEF IInv, TypeOK, CreateRound, ledgers
<1>3. SealsLast' /\ KeptLast' /\ SealsCommitted'
  BY SealsStay DEF CreateRound, ledgers
<1> QED
  BY <1>2, <1>3 DEF IInv

LEMMA TtlEndRound ==
  ASSUME IInv, EndRound
  PROVE  IInv'
<1>1. TypeOK'
  BY DEF IInv, TypeOK, EndRound, ledgers
<1>2. SealsLast' /\ KeptLast' /\ SealsCommitted'
  BY SealsStay DEF EndRound, ledgers
<1> QED
  BY <1>1, <1>2 DEF IInv

\* Seals that only grow, of bidders that have one, keep the invariant.
LEMMA SealsGrow ==
  ASSUME IInv, UNCHANGED <<seq, now, times, bid_at, open_at, kept>>,
         seal' \in [Bidder -> Int],
         \A b \in Bidder : seal'[b] >= seal[b] /\ (seal'[b] # seal[b] => seal[b] # Never)
  PROVE  SealsLast' /\ KeptLast' /\ SealsCommitted'
<1>1. \A b \in Bidder : seal[b] \in Int
  BY DEF IInv, TypeOK, Never
<1>2. \A b \in Bidder : Lasts(seal[b]) => Lasts(seal'[b])
  BY <1>1, LastsGrows DEF IInv
<1>3. kept \subseteq Bidder
  BY DEF IInv, TypeOK
<1>4. \A b \in Bidder :
        Lasts(seal[b]) => (seal'[b] - seq' + 1) * LEDGER_CLOSE_SECS > times'.reveal_deadline - now'
  BY <1>2 DEF Lasts
<1>5. SealsLast' /\ KeptLast'
  BY <1>3, <1>4 DEF IInv, SealsLast, KeptLast, WithinCap, Lasts
<1>6. SealsCommitted'
  BY DEF IInv, SealsCommitted
<1> QED
  BY <1>5, <1>6

LEMMA TtlGetSeal ==
  ASSUME IInv, NEW b \in Bidder, GetSeal(b)
  PROVE  IInv'
<1> DEFINE v == ExtendSealTtl(seal[b], times.reveal_deadline)
<1>1. /\ seal[b] \in Int /\ seal[b] >= seq /\ seq \in Nat
      /\ seal[b] <= seq + PERSISTENT_BUMP /\ PERSISTENT_BUMP \in Nat
  BY TtlAssumption DEF IInv, TypeOK, GetSeal, Live, Never
<1>2. v \in Int /\ v >= seal[b] /\ v <= seq + PERSISTENT_BUMP
  BY <1>1, ExtensionGrows DEF IInv
<1> HIDE DEF v
<1>3. seal' = [seal EXCEPT ![b] = v] /\ UNCHANGED <<seq, now, times, status, instance, bid_at, open_at, kept>>
  BY DEF GetSeal, ledgers, v
<1>4. v \in Nat
  BY <1>1, <1>2
<1>5. TypeOK'
  BY <1>2, <1>3, <1>4 DEF IInv, TypeOK
<1>6. \A c \in Bidder : seal[c] \in Int /\ (c # b => seal'[c] = seal[c]) /\ seal'[b] = v
  BY <1>3 DEF IInv, TypeOK, Never
<1>7. seal[b] # Never
  BY <1>1 DEF Never
<1>8. SealsLast' /\ KeptLast' /\ SealsCommitted'
  <2>1. seal' \in [Bidder -> Int]
    BY <1>5 DEF TypeOK, Never
  <2>2. \A c \in Bidder : seal'[c] >= seal[c] /\ (seal'[c] # seal[c] => seal[c] # Never)
    BY <1>2, <1>6, <1>7
  <2> QED
    BY <1>3, <2>1, <2>2, SealsGrow
<1> QED
  BY <1>5, <1>8 DEF IInv

\* Opening the reveal window: the seals still in storage are extended, and from
\* now on they last.
LEMMA TtlOpenReveal ==
  ASSUME IInv, OpenReveal
  PROVE  IInv'
<1> DEFINE D == times.reveal_deadline
<1>1. /\ TypeOK /\ seq \in Nat /\ now \in Nat /\ PERSISTENT_BUMP \in Nat
      /\ seal \in [Bidder -> Int]
      /\ \A b \in Bidder : (Live(b) <=> seal[b] >= seq) /\ seal[b] <= seq + PERSISTENT_BUMP
  BY TtlAssumption DEF IInv, TypeOK, Live, Never
<1>2. \A b \in Bidder : /\ ExtendSealTtl(seal[b], D) \in Int
                        /\ ExtendSealTtl(seal[b], D) >= seal[b]
                        /\ ExtendSealTtl(seal[b], D) <= seq + PERSISTENT_BUMP
  BY <1>1, ExtensionGrows
<1>3. \A b \in Bidder : Live(b) /\ WithinCap(now) => Lasts(ExtendSealTtl(seal[b], D))
  BY <1>1, ExtendedSealLasts
<1>4. /\ seal' = [b \in Bidder |-> IF Live(b) THEN ExtendSealTtl(seal[b], D) ELSE seal[b]]
      /\ kept' = {b \in Bidder : Live(b)}
      /\ open_at' = now
      /\ status' = "Revealing"
      /\ UNCHANGED <<seq, now, times, instance, bid_at>>
  BY DEF OpenReveal, ExtendRoundSeals, ledgers
<1>5. \A b \in Bidder : /\ seal'[b] = IF Live(b) THEN ExtendSealTtl(seal[b], D) ELSE seal[b]
                        /\ seal'[b] \in Nat \cup {Never}
                        /\ seal'[b] >= seal[b] /\ seal'[b] <= seq + PERSISTENT_BUMP
                        /\ (Live(b) => bid_at[b] # Never)
                        /\ (seal'[b] # seal[b] => seal[b] # Never)
  <2> HIDE DEF D
  <2> SUFFICES ASSUME NEW b \in Bidder
               PROVE  /\ seal'[b] = IF Live(b) THEN ExtendSealTtl(seal[b], D) ELSE seal[b]
                      /\ seal'[b] \in Nat \cup {Never}
                      /\ seal'[b] >= seal[b] /\ seal'[b] <= seq + PERSISTENT_BUMP
                      /\ (Live(b) => bid_at[b] # Never)
                      /\ (seal'[b] # seal[b] => seal[b] # Never)
    OBVIOUS
  <2>1. seal'[b] = IF Live(b) THEN ExtendSealTtl(seal[b], D) ELSE seal[b]
    BY <1>4
  <2>2. Live(b) => seal[b] # Never /\ seal[b] \in Nat
    BY <1>1 DEF Never
  <2>3. Live(b) => ExtendSealTtl(seal[b], D) \in Nat
    BY <1>1, <1>2, <2>2
  <2>4. seal[b] \in Nat \cup {Never}
    BY DEF IInv, TypeOK
  <2>5. Live(b) => bid_at[b] # Never
    BY <2>2 DEF IInv, SealsCommitted
  <2> QED
    BY <1>1, <1>2, <2>1, <2>2, <2>3, <2>4, <2>5
<1>6. TypeOK'
  <2>1. seal' \in [Bidder -> Nat \cup {Never}]
    BY <1>4, <1>5
  <2>2. \A b \in Bidder : seal'[b] <= seq' + PERSISTENT_BUMP
    BY <1>4, <1>5
  <2>3. kept' \subseteq {b \in Bidder : bid_at'[b] # Never}
    BY <1>4, <1>5
  <2>4. open_at' \in Nat \cup {Never}
    BY <1>1, <1>4
  <2> QED
    BY <1>4, <2>1, <2>2, <2>3, <2>4 DEF IInv, TypeOK
<1>7. SealsLast'
  <2>1. \A b \in Bidder : Lasts(seal[b]) => Lasts(seal'[b])
    <3>1. \A b \in Bidder : seal[b] \in Int /\ seal'[b] \in Int /\ seal[b] <= seal'[b]
      BY <1>1, <1>5 DEF Never
    <3> QED
      BY <1>1, <3>1, LastsGrows
  <2> QED
    BY <1>4, <2>1 DEF IInv, SealsLast, WithinCap, Lasts
<1>8. KeptLast'
  <2> HIDE DEF D
  <2>1. WithinCap(now) => \A b \in kept' : Lasts(seal'[b])
    BY <1>3, <1>4, <1>5
  <2> QED
    BY <1>4, <2>1 DEF KeptLast, WithinCap, Lasts
<1>9. SealsCommitted'
  BY <1>4, <1>5 DEF IInv, SealsCommitted
<1> QED
  BY <1>6, <1>7, <1>8, <1>9 DEF IInv

\* A commit writes a live seal and extends it: it lasts from the time of the
\* commit, and an overwritten one loses nothing.
LEMMA TtlCommit ==
  ASSUME IInv, NEW b \in Bidder, Commit(b)
  PROVE  IInv'
<1> DEFINE D == times.reveal_deadline
           start == IF Live(b) THEN seal[b] ELSE seq + MIN_TEMP_TTL - 1
           v == SealAfterSet(b, D)
<1>1. /\ TypeOK /\ seq \in Nat /\ now \in Nat /\ PERSISTENT_BUMP \in Nat
      /\ seal \in [Bidder -> Int] /\ seal[b] <= seq + PERSISTENT_BUMP
      /\ (Live(b) <=> seal[b] >= seq)
      /\ MIN_TEMP_TTL \in 1 .. PERSISTENT_BUMP
  BY TtlAssumption DEF IInv, TypeOK, Live, Never
<1>2. start \in Int /\ start >= seq /\ start >= seal[b] /\ start <= seq + PERSISTENT_BUMP
  BY <1>1
<1>3. v = ExtendSealTtl(start, D)
  BY DEF SealAfterSet
<1> HIDE DEF start
<1>4. v \in Int /\ v >= start /\ v <= seq + PERSISTENT_BUMP
  BY <1>1, <1>2, <1>3, ExtensionGrows
<1>5. WithinCap(now) => Lasts(v)
  BY <1>1, <1>2, <1>3, ExtendedSealLasts
<1>6. /\ seal' = [seal EXCEPT ![b] = v] /\ bid_at' = [bid_at EXCEPT ![b] = now]
      /\ UNCHANGED <<seq, now, times, status, instance, open_at, kept>>
      /\ status = "Open"
  BY DEF Commit, ledgers
<1> HIDE DEF v, D
<1>7. v \in Nat /\ v >= seal[b]
  BY <1>1, <1>2, <1>4
<1>8. /\ seal'[b] = v /\ bid_at'[b] = now
      /\ \A c \in Bidder \ {b} : seal'[c] = seal[c] /\ bid_at'[c] = bid_at[c]
  BY <1>1, <1>6 DEF IInv, TypeOK
<1>9. now # Never
  BY <1>1 DEF Never
<1>10. TypeOK'
  <2>1. seal' \in [Bidder -> Nat \cup {Never}] /\ bid_at' \in [Bidder -> Nat \cup {Never}]
    BY <1>1, <1>6, <1>7 DEF IInv, TypeOK
  <2>2. \A c \in Bidder : seal'[c] <= seq' + PERSISTENT_BUMP
    BY <1>1, <1>4, <1>6, <1>8 DEF IInv, TypeOK
  <2>3. kept' \subseteq {c \in Bidder : bid_at'[c] # Never}
    BY <1>6, <1>8, <1>9 DEF IInv, TypeOK
  <2> QED
    BY <1>6, <2>1, <2>2, <2>3 DEF IInv, TypeOK
<1>11. SealsLast'
  <2> SUFFICES ASSUME NEW c \in Bidder, bid_at'[c] # Never, WithinCap(bid_at'[c])
               PROVE  Lasts(seal'[c])
    BY <1>6 DEF SealsLast, WithinCap, Lasts
  <2>1. CASE c = b
    BY <1>5, <1>8, <2>1
  <2>2. CASE c # b
    BY <1>8, <2>2 DEF IInv, SealsLast
  <2> QED
    BY <2>1, <2>2
<1>12. KeptLast'
  <2> SUFFICES ASSUME open_at # Never, WithinCap(open_at), NEW c \in kept
               PROVE  Lasts(seal'[c])
    BY <1>6 DEF KeptLast, WithinCap, Lasts
  <2>1. Lasts(seal[c]) /\ c \in Bidder
    BY DEF IInv, KeptLast, TypeOK
  <2>2. seal[c] \in Int /\ seal'[c] \in Int /\ seal[c] <= seal'[c]
    BY <1>1, <1>4, <1>7, <1>8, <2>1
  <2> QED
    BY <1>1, <2>1, <2>2, LastsGrows
<1>13. SealsCommitted'
  BY <1>8, <1>9 DEF IInv, SealsCommitted
<1> QED
  BY <1>10, <1>11, <1>12, <1>13 DEF IInv

LEMMA TtlNext ==
  ASSUME IInv, [Next]_vars
  PROVE  IInv'
<1>1. CASE UNCHANGED vars
  BY <1>1 DEF vars, IInv, TypeOK, SealsLast, KeptLast, SealsCommitted, WithinCap, Lasts
<1> QED
  BY <1>1, TtlCloseLedger, TtlCreateRound, TtlCommit, TtlOpenReveal, TtlGetSeal, TtlEndRound
  DEF Next

\* IInv holds in every reachable state, for every set of deadlines and TTLs.
THEOREM TtlInvariant == Spec => []IInv
<1>1. Init => IInv
  BY TtlInit
<1>2. IInv /\ [Next]_vars => IInv'
  BY TtlNext
<1> QED
  BY <1>1, <1>2, PTL DEF Spec
-----------------------------------------------------------------------------
(***************************************************************************)
(* The theorems.                                                           *)
(***************************************************************************)
\* An entry that lasts is live as long as the deadline has not passed.
LEMMA LastingIsLive ==
  ASSUME TypeOK, NEW b \in Bidder, Lasts(seal[b]), now <= times.reveal_deadline
  PROVE  Live(b)
<1> DEFINE L == LEDGER_CLOSE_SECS
           x == seal[b] - seq + 1
<1>1. /\ L \in Nat /\ seq \in Nat /\ seal[b] \in Int /\ now \in Nat
      /\ times.reveal_deadline \in Nat
  BY TtlAssumption DEF TypeOK, Never
<1>2. x * L > 0
  <2>1. x * L \in Int /\ x * L > times.reveal_deadline - now
    BY <1>1 DEF Lasts
  <2> QED
    BY <1>1, <2>1
<1>3. x > 0
  <2> SUFFICES ASSUME x <= 0 PROVE FALSE
    BY <1>1
  <2>1. x \in Int
    BY <1>1
  <2> HIDE DEF x
  <2>2. x * L <= 0 * L
    BY <1>1, <2>1, TimesMonotone
  <2> QED
    BY <1>1, <1>2, <2>1, <2>2
<1> QED
  BY <1>1, <1>3 DEF Live

\* No write or extension makes an entry live beyond the cap, and the bidders
\* whose seals the reveal window opened with have committed (storage.rs).
THEOREM StorageTypes == Spec => []TypeOK
<1>1. IInv => TypeOK
  BY DEF IInv
<1> QED
  BY <1>1, TtlInvariant, PTL

\* The seal of a bid committed within the cap of the reveal deadline can be
\* read until then, however often it was overwritten or read and however slowly
\* ledgers close (seal_ttl_for_reveal_deadline, extend_seal_ttl).
THEOREM SealsStayReadable == Spec => []SealReadable
<1>1. IInv => SealReadable
  BY LastingIsLive DEF IInv, SealsLast, SealReadable
<1> QED
  BY <1>1, TtlInvariant, PTL

\* A seal in storage when the reveal window opens can be read until it closes,
\* however long before it was committed (extend_round_seals).
THEOREM SealsAreKeptOnceOpened == Spec => []SealKeptOnceOpened
<1>1. IInv => SealKeptOnceOpened
  BY LastingIsLive DEF IInv, KeptLast, SealKeptOnceOpened, TypeOK
<1> QED
  BY <1>1, TtlInvariant, PTL
=============================================================================
