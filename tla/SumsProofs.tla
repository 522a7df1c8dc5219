------------------------------ MODULE SumsProofs ------------------------------
(***************************************************************************)
(* What the sums of module Sums return.  Induction is over sets of naturals *)
(* (NatSetInduction), obtained from the well-foundedness of < on Nat.       *)
(***************************************************************************)
EXTENDS Sums, TLAPS, WellFoundedInduction

\* A set of naturals with 0 and closed under successor has every natural.
LEMMA NatSetInduction ==
  ASSUME NEW S \in SUBSET Nat, 0 \in S, \A n \in S : n + 1 \in S
  PROVE  S = Nat
<1> SUFFICES ASSUME Nat \ S # {} PROVE FALSE
  OBVIOUS
<1> DEFINE R == {p \in Nat \X Nat : p[1] < p[2]}
<1>1. IsWellFoundedOn(R, Nat)
  BY NatLessThanWellFounded DEF OpToRel
<1> HIDE DEF R
<1>2. PICK x \in Nat \ S : \A y \in Nat \ S : ~ (<<y, x>> \in R)
  BY <1>1, WFMin
<1>3. \A y \in Nat \ S : ~(y < x)
  BY <1>2 DEF R
<1>4. x # 0 /\ x - 1 \in Nat
  OBVIOUS
<1>5. x - 1 \in S
  BY <1>3, <1>4
<1> QED
  BY <1>4, <1>5

\* u is the table of the partial sums of d up to n.
PartialSums(d, n, u) ==
    u = [k \in 0 .. n |-> IF k = 0 THEN 0 ELSE u[k - 1] + d[k]]

\* The recursive definition inside Sum denotes a table of partial sums.
LEMMA PartialSumsExist ==
  ASSUME NEW d
  PROVE  \A n \in Nat : \E u : PartialSums(d, n, u)
<1> DEFINE S == {n \in Nat : \E u : PartialSums(d, n, u)}
<1>1. 0 \in S
  <2> DEFINE u == [k \in 0 .. 0 |-> 0]
  <2>1. u = [k \in 0 .. 0 |-> IF k = 0 THEN 0 ELSE u[k - 1] + d[k]]
    OBVIOUS
  <2> QED
    BY <2>1 DEF PartialSums
<1>2. ASSUME NEW n \in S PROVE n + 1 \in S
  <2>1. PICK u : u = [k \in 0 .. n |-> IF k = 0 THEN 0 ELSE u[k - 1] + d[k]]
    BY DEF PartialSums
  <2> DEFINE w == [k \in 0 .. n + 1 |-> IF k = n + 1 THEN u[n] + d[n + 1] ELSE u[k]]
             v == [k \in 0 .. n + 1 |-> IF k = 0 THEN 0 ELSE w[k - 1] + d[k]]
  <2>2. ASSUME NEW k \in 0 .. n + 1 PROVE w[k] = v[k]
    <3>1. CASE k = 0
      BY <2>1, <3>1
    <3>2. CASE k = n + 1
      BY <2>1, <3>2
    <3>3. CASE k \in 1 .. n
      <4>1. k \in 0 .. n /\ k - 1 \in 0 .. n /\ k - 1 # n + 1 /\ k # n + 1
        BY <3>3
      <4>2. w[k - 1] = u[k - 1] /\ w[k] = u[k]
        BY <4>1
      <4>3. u[k] = u[k - 1] + d[k]
        BY <2>1, <4>1, <3>3
      <4> QED
        BY <4>1, <4>2, <4>3, <3>3
    <3> QED
      BY <3>1, <3>2, <3>3
  <2>3. w = v
    BY <2>2
  <2>4. PartialSums(d, n + 1, w)
    BY <2>3 DEF PartialSums
  <2> QED
    BY <2>4
<1> HIDE DEF S
<1>3. S = Nat
  <2>1. S \in SUBSET Nat
    BY DEF S
  <2> QED
    BY <1>1, <1>2, <2>1, NatSetInduction
<1> QED
  BY <1>3 DEF S

\* Tables of partial sums agree wherever both are defined.
LEMMA PartialSumsAgree ==
  ASSUME NEW d, NEW m \in Nat, NEW n \in Nat, m <= n, NEW u, NEW v,
         PartialSums(d, m, u), PartialSums(d, n, v)
  PROVE  \A k \in 0 .. m : u[k] = v[k]
<1> DEFINE S == {k \in Nat : k <= m => u[k] = v[k]}
<1>1. 0 \in S
  BY DEF PartialSums
<1>2. ASSUME NEW k \in S PROVE k + 1 \in S
  <2> SUFFICES ASSUME k + 1 <= m PROVE u[k + 1] = v[k + 1]
    OBVIOUS
  <2>1. k + 1 \in 0 .. m /\ k + 1 \in 0 .. n /\ k + 1 # 0 /\ (k + 1) - 1 = k
    OBVIOUS
  <2>2. u[k + 1] = u[k] + d[k + 1] /\ v[k + 1] = v[k] + d[k + 1]
    BY <2>1 DEF PartialSums
  <2> QED
    BY <2>2
<1> HIDE DEF S
<1>3. S = Nat
  <2>1. S \in SUBSET Nat
    BY DEF S
  <2> QED
    BY <1>1, <1>2, <2>1, NatSetInduction
<1> QED
  BY <1>3 DEF S

\* Sum(d, n) is the last entry of any table of partial sums up to n.
LEMMA SumIsPartialSum ==
  ASSUME NEW d, NEW n \in Nat, NEW u, PartialSums(d, n, u)
  PROVE  Sum(d, n) = u[n]
<1> DEFINE c == CHOOSE v : v = [k \in 0 .. n |-> IF k = 0 THEN 0 ELSE v[k - 1] + d[k]]
<1>1. c = [k \in 0 .. n |-> IF k = 0 THEN 0 ELSE c[k - 1] + d[k]]
  BY DEF PartialSums
<1>2. Sum(d, n) = c[n]
  BY DEF Sum
<1> HIDE DEF c
<1>3. PartialSums(d, n, c)
  BY <1>1 DEF PartialSums
<1> QED
  BY <1>2, <1>3, PartialSumsAgree

LEMMA SumZero == \A d : Sum(d, 0) = 0
<1> TAKE d
<1>1. PICK u : PartialSums(d, 0, u)
  BY PartialSumsExist
<1>2. Sum(d, 0) = u[0]
  BY <1>1, SumIsPartialSum
<1> QED
  BY <1>1, <1>2 DEF PartialSums

LEMMA SumStep ==
  ASSUME NEW d, NEW n \in Nat
  PROVE  Sum(d, n + 1) = Sum(d, n) + d[n + 1]
<1>1. PICK u : PartialSums(d, n, u)
  BY PartialSumsExist
<1>2. PICK v : PartialSums(d, n + 1, v)
  BY PartialSumsExist
<1>3. Sum(d, n) = u[n] /\ Sum(d, n + 1) = v[n + 1]
  BY <1>1, <1>2, SumIsPartialSum
<1>4. u[n] = v[n]
  BY <1>1, <1>2, PartialSumsAgree
<1>5. v[n + 1] = v[n] + d[n + 1]
  <2>1. n + 1 \in 0 .. n + 1 /\ n + 1 # 0 /\ (n + 1) - 1 = n
    OBVIOUS
  <2> QED
    BY <1>2, <2>1 DEF PartialSums
<1> QED
  BY <1>3, <1>4, <1>5

\* The sum of integers is an integer.
LEMMA SumType ==
  ASSUME NEW d, NEW n \in Nat, \A i \in 1 .. n : d[i] \in Int
  PROVE  Sum(d, n) \in Int
<1> DEFINE S == {m \in Nat : m <= n => Sum(d, m) \in Int}
<1>1. 0 \in S
  BY SumZero
<1>2. ASSUME NEW m \in S PROVE m + 1 \in S
  BY SumStep
<1> HIDE DEF S
<1>3. S = Nat
  <2>1. S \in SUBSET Nat
    BY DEF S
  <2> QED
    BY <1>1, <1>2, <2>1, NatSetInduction
<1> QED
  BY <1>3 DEF S

\* Sums of naturals are natural.
LEMMA SumNat ==
  ASSUME NEW d, NEW n \in Nat, \A i \in 1 .. n : d[i] \in Nat
  PROVE  Sum(d, n) \in Nat
<1> DEFINE S == {m \in Nat : m <= n => Sum(d, m) \in Nat}
<1>1. 0 \in S
  BY SumZero
<1>2. ASSUME NEW m \in S PROVE m + 1 \in S
  BY SumStep
<1> HIDE DEF S
<1>3. S = Nat
  <2>1. S \in SUBSET Nat
    BY DEF S
  <2> QED
    BY <1>1, <1>2, <2>1, NatSetInduction
<1> QED
  BY <1>3 DEF S

\* A sum depends only on the summands.
LEMMA SumCongruence ==
  ASSUME NEW d, NEW e, NEW n \in Nat, \A i \in 1 .. n : d[i] = e[i]
  PROVE  Sum(d, n) = Sum(e, n)
<1> DEFINE S == {m \in Nat : m <= n => Sum(d, m) = Sum(e, m)}
<1>1. 0 \in S
  BY SumZero
<1>2. ASSUME NEW m \in S PROVE m + 1 \in S
  BY SumStep
<1> HIDE DEF S
<1>3. S = Nat
  <2>1. S \in SUBSET Nat
    BY DEF S
  <2> QED
    BY <1>1, <1>2, <2>1, NatSetInduction
<1> QED
  BY <1>3 DEF S

\* Changing one summand changes the sum by the difference.
LEMMA SumChangeOne ==
  ASSUME NEW d, NEW e, NEW n \in Nat, NEW j \in 1 .. n,
         \A i \in 1 .. n : d[i] \in Int /\ e[i] \in Int,
         \A i \in 1 .. n : i # j => e[i] = d[i]
  PROVE  Sum(e, n) = Sum(d, n) - d[j] + e[j]
<1> DEFINE S == {m \in Nat : m <= n =>
                   /\ Sum(d, m) \in Int
                   /\ Sum(e, m) = Sum(d, m) + (IF j <= m THEN e[j] - d[j] ELSE 0)}
<1>1. 0 \in S
  BY SumZero
<1>2. ASSUME NEW m \in S PROVE m + 1 \in S
  <2> SUFFICES ASSUME m + 1 <= n
               PROVE  /\ Sum(d, m + 1) \in Int
                      /\ Sum(e, m + 1) = Sum(d, m + 1)
                           + (IF j <= m + 1 THEN e[j] - d[j] ELSE 0)
    OBVIOUS
  <2>1. /\ Sum(d, m + 1) = Sum(d, m) + d[m + 1]
        /\ Sum(e, m + 1) = Sum(e, m) + e[m + 1]
    BY SumStep
  <2>2. m + 1 \in 1 .. n /\ d[m + 1] \in Int /\ e[m + 1] \in Int
    OBVIOUS
  <2>3. /\ Sum(d, m) \in Int
        /\ Sum(e, m) = Sum(d, m) + (IF j <= m THEN e[j] - d[j] ELSE 0)
    OBVIOUS
  <2>4. d[j] \in Int /\ e[j] \in Int
    OBVIOUS
  <2>5. CASE j = m + 1
    BY <2>1, <2>2, <2>3, <2>4, <2>5
  <2>6. CASE j # m + 1
    <3>1. e[m + 1] = d[m + 1]
      BY <2>6, <2>2
    <3>2. (j <= m + 1) <=> (j <= m)
      BY <2>6
    <3> QED
      BY <2>1, <2>2, <2>3, <2>4, <3>1, <3>2
  <2> QED
    BY <2>5, <2>6
<1> HIDE DEF S
<1>3. S = Nat
  <2>1. S \in SUBSET Nat
    BY DEF S
  <2> QED
    BY <1>1, <1>2, <2>1, NatSetInduction
<1>4. d[j] \in Int /\ e[j] \in Int
  OBVIOUS
<1> QED
  BY <1>3, <1>4 DEF S

\* A sum of zeros is zero.
LEMMA SumAllZero ==
  ASSUME NEW d, NEW n \in Nat, \A i \in 1 .. n : d[i] = 0
  PROVE  Sum(d, n) = 0
<1> DEFINE S == {m \in Nat : m <= n => Sum(d, m) = 0}
<1>1. 0 \in S
  BY SumZero
<1>2. ASSUME NEW m \in S PROVE m + 1 \in S
  BY SumStep
<1> HIDE DEF S
<1>3. S = Nat
  <2>1. S \in SUBSET Nat
    BY DEF S
  <2> QED
    BY <1>1, <1>2, <2>1, NatSetInduction
<1> QED
  BY <1>3 DEF S

\* No summand of a sum of naturals exceeds the sum.
LEMMA SumBoundsMember ==
  ASSUME NEW d, NEW n \in Nat, \A i \in 1 .. n : d[i] \in Nat, NEW j \in 1 .. n
  PROVE  d[j] <= Sum(d, n)
<1> DEFINE S == {m \in Nat : m <= n =>
                   Sum(d, m) \in Nat /\ (j <= m => d[j] <= Sum(d, m))}
<1>1. 0 \in S
  BY SumZero
<1>2. ASSUME NEW m \in S PROVE m + 1 \in S
  <2> SUFFICES ASSUME m + 1 <= n
               PROVE  /\ Sum(d, m + 1) \in Nat
                      /\ j <= m + 1 => d[j] <= Sum(d, m + 1)
    OBVIOUS
  <2>1. Sum(d, m + 1) = Sum(d, m) + d[m + 1]
    BY SumStep
  <2>2. d[m + 1] \in Nat /\ d[j] \in Nat
    OBVIOUS
  <2>3. Sum(d, m) \in Nat /\ (j <= m => d[j] <= Sum(d, m))
    OBVIOUS
  <2>4. CASE j = m + 1
    BY <2>1, <2>2, <2>3, <2>4
  <2>5. CASE j # m + 1
    BY <2>1, <2>2, <2>3, <2>5
  <2> QED
    BY <2>4, <2>5
<1> HIDE DEF S
<1>3. S = Nat
  <2>1. S \in SUBSET Nat
    BY DEF S
  <2> QED
    BY <1>1, <1>2, <2>1, NatSetInduction
<1> QED
  BY <1>3 DEF S
(***************************************************************************)
(* The same facts for the sum of a quantity f over a sequence s.           *)
(***************************************************************************)
LEMMA SumOverNat ==
  ASSUME NEW S, NEW s \in Seq(S), NEW f \in [S -> Nat]
  PROVE  SumOver(f, s) \in Nat
<1> DEFINE d == [i \in 1 .. Len(s) |-> f[s[i]]]
<1>1. \A i \in 1 .. Len(s) : d[i] \in Nat
  OBVIOUS
<1> HIDE DEF d
<1>2. Len(s) \in Nat
  OBVIOUS
<1>3. Sum(d, Len(s)) \in Nat
  BY <1>1, <1>2, SumNat
<1> QED
  BY <1>3 DEF SumOver, d

LEMMA SumOverInt ==
  ASSUME NEW S, NEW s \in Seq(S), NEW f \in [S -> Int]
  PROVE  SumOver(f, s) \in Int
<1> DEFINE d == [i \in 1 .. Len(s) |-> f[s[i]]]
<1>1. \A i \in 1 .. Len(s) : d[i] \in Int
  OBVIOUS
<1> HIDE DEF d
<1>2. Len(s) \in Nat
  OBVIOUS
<1>3. Sum(d, Len(s)) \in Int
  BY <1>1, <1>2, SumType
<1> QED
  BY <1>3 DEF SumOver, d

LEMMA SumOverEmpty == \A f : SumOver(f, <<>>) = 0
<1> TAKE f
<1>1. Len(<<>>) = 0
  OBVIOUS
<1> QED
  BY <1>1, SumZero DEF SumOver

LEMMA SumOverCongruence ==
  ASSUME NEW S, NEW s \in Seq(S), NEW f, NEW g,
         \A i \in 1 .. Len(s) : f[s[i]] = g[s[i]]
  PROVE  SumOver(f, s) = SumOver(g, s)
<1> DEFINE d == [i \in 1 .. Len(s) |-> f[s[i]]]
           e == [i \in 1 .. Len(s) |-> g[s[i]]]
<1>1. d = e
  OBVIOUS
<1> QED
  BY <1>1 DEF SumOver

LEMMA SumOverAllZero ==
  ASSUME NEW S, NEW s \in Seq(S), NEW f, \A i \in 1 .. Len(s) : f[s[i]] = 0
  PROVE  SumOver(f, s) = 0
<1> DEFINE d == [i \in 1 .. Len(s) |-> f[s[i]]]
<1>1. \A i \in 1 .. Len(s) : d[i] = 0
  OBVIOUS
<1> HIDE DEF d
<1>2. Len(s) \in Nat
  OBVIOUS
<1>3. Sum(d, Len(s)) = 0
  BY <1>1, <1>2, SumAllZero
<1> QED
  BY <1>3 DEF SumOver, d

LEMMA SumOverAppend ==
  ASSUME NEW S, NEW s \in Seq(S), NEW x \in S, NEW f
  PROVE  SumOver(f, Append(s, x)) = SumOver(f, s) + f[x]
<1> DEFINE n == Len(s)
           d == [i \in 1 .. n |-> f[s[i]]]
           t == Append(s, x)
           e == [i \in 1 .. Len(t) |-> f[t[i]]]
<1>1. n \in Nat /\ Len(t) = n + 1 /\ t[n + 1] = x /\ \A i \in 1 .. n : t[i] = s[i]
  OBVIOUS
<1> HIDE DEF n, t
<1>2. e[n + 1] = f[x] /\ \A i \in 1 .. n : d[i] = e[i]
  BY <1>1
<1> HIDE DEF d, e
<1>3. Sum(e, n + 1) = Sum(e, n) + e[n + 1]
  BY <1>1, SumStep
<1>4. Sum(d, n) = Sum(e, n)
  BY <1>1, <1>2, SumCongruence
<1>5. SumOver(f, t) = Sum(e, n + 1) /\ SumOver(f, s) = Sum(d, n)
  BY <1>1 DEF SumOver, d, e, n
<1> QED
  BY <1>2, <1>3, <1>4, <1>5 DEF t

\* s lists x once, and nothing else twice.
ListsOnce(s, x) ==
    /\ \A i, j \in 1 .. Len(s) : s[i] = s[j] => i = j
    /\ \E k \in 1 .. Len(s) : s[k] = x

\* f and g may differ at x only.
AgreeBut(S, f, g, x) == \A y \in S : y # x => g[y] = f[y]

\* In a sequence without repetition, changing f at one listed element changes
\* the sum by the difference.
LEMMA SumOverChangeOne ==
  ASSUME NEW S, NEW s \in Seq(S), NEW f \in [S -> Int], NEW g \in [S -> Int],
         NEW x, ListsOnce(s, x), AgreeBut(S, f, g, x)
  PROVE  SumOver(g, s) = SumOver(f, s) - f[x] + g[x]
<1> USE DEF ListsOnce, AgreeBut
<1>1. PICK k \in 1 .. Len(s) : s[k] = x
  OBVIOUS
<1> DEFINE n == Len(s)
           d == [i \in 1 .. n |-> f[s[i]]]
           e == [i \in 1 .. n |-> g[s[i]]]
<1>2. n \in Nat /\ k \in 1 .. n
  OBVIOUS
<1>3. \A i \in 1 .. n : d[i] \in Int /\ e[i] \in Int
  OBVIOUS
<1>4. \A i \in 1 .. n : i # k => s[i] # x /\ s[i] \in S
  BY <1>1
<1>5. \A i \in 1 .. n : i # k => e[i] = d[i]
  BY <1>4
<1>6. d[k] = f[x] /\ e[k] = g[x]
  BY <1>1
<1>7. SumOver(f, s) = Sum(d, n) /\ SumOver(g, s) = Sum(e, n)
  BY DEF SumOver
<1> HIDE DEF n, d, e
<1>8. Sum(e, n) = Sum(d, n) - d[k] + e[k]
  BY ONLY <1>2, <1>3, <1>5, SumChangeOne
<1> QED
  BY <1>6, <1>7, <1>8
=============================================================================
