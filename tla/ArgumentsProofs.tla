----------------------------- MODULE ArgumentsProofs -----------------------------
(***************************************************************************)
(* Command lines of any length: the loop over fs.Parse makes of a line     *)
(* what each argument's own place says it is (LineMeans).                  *)
(*                                                                         *)
(* The readers of the inputs are recursive functions over lists, and the   *)
(* prover has no induction over data.  What induction would give is had    *)
(* from a least counterexample, and that a recursion describes a function  *)
(* at all is a lemma of its own.  The lemmas about lists come first; the   *)
(* proofs about the other inputs (InputsProofs) cite them too.             *)
(***************************************************************************)
EXTENDS Arguments, SequenceTheorems, WellFoundedInduction, TLAPS

----------------------------------------------------------------------------------
\* Lists laid end to end.

\* A set of natural numbers that is not empty has a least one.
LEMMA LeastOfNaturals ==
  ASSUME NEW S \in SUBSET Nat, S # {}
  PROVE  \E m \in S : \A k \in S : m <= k
<1> DEFINE R == OpToRel(<, Nat)
<1>1. \A k, m \in S : <<k, m>> \in R <=> k < m
  BY DEF OpToRel
<1>2. IsWellFoundedOn(R, Nat)
  BY NatLessThanWellFounded
<1> HIDE DEF R
<1>3. \E m \in S : \A k \in S : ~(<<k, m>> \in R)
  BY <1>2, WFMin
<1>4. PICK m \in S : \A k \in S : ~(k < m)
  BY <1>1, <1>3
<1>5. \A k \in S : m <= k
  <2> TAKE k \in S
  <2>1. k \in Nat /\ m \in Nat /\ ~(k < m)
    BY <1>4
  <2> QED
    BY <2>1
<1> QED
  BY <1>5

\* The items of s laid end to end, up to each place.
Join(s, f) == [i \in 1..Len(s) |-> IF i = 1 THEN s[i] ELSE f[i - 1] \o s[i]]

\* There is a function that Join describes: what is laid up to a place needs only what
\* is laid before it.
LEMMA JoinExists ==
  ASSUME NEW S, NEW s \in Seq(Seq(S)), s # <<>>
  PROVE  \E f : f = Join(s, f)
<1> DEFINE n == Len(s)
           Upto(f, k) == \A i \in 1..k : f[i] = IF i = 1 THEN s[i] ELSE f[i - 1] \o s[i]
           Bad == {k \in 1..n : ~\E f : Upto(f, k)}
<1>1. n \in Nat /\ n >= 1
  BY EmptySeq
<1>2. Bad = {}
  <2> SUFFICES ASSUME Bad # {} PROVE FALSE
    OBVIOUS
  <2>1. PICK k \in Bad : \A j \in Bad : k <= j
    <3>1. Bad \in SUBSET Nat
      BY <1>1
    <3> QED
      BY <3>1, LeastOfNaturals
  <2>2. k \in 1..n
    OBVIOUS
  <2>3. CASE k = 1
    <3>1. Upto(s, 1)
      OBVIOUS
    <3> QED
      BY <2>3, <3>1
  <2>4. CASE k # 1
    <3>1. k - 1 \in 1..n /\ ~(k <= k - 1)
      BY <1>1, <2>2, <2>4
    <3>2. PICK f : Upto(f, k - 1)
      BY <2>1, <3>1
    <3> DEFINE g == [i \in 1..k |-> IF i = k THEN f[k - 1] \o s[k] ELSE f[i]]
    <3>3. \A i \in 1..k : g[i] = IF i = 1 THEN s[i] ELSE g[i - 1] \o s[i]
      <4> TAKE i \in 1..k
      <4>1. CASE i = k
        <5>1. k - 1 \in 1..k /\ k - 1 # k
          BY <2>2, <2>4, <1>1
        <5> QED
          BY <4>1, <5>1, <2>4
      <4>2. CASE i # k
        <5>1. i \in 1..(k - 1) /\ (i # 1 => i - 1 \in 1..k /\ i - 1 # k)
          BY <4>2, <2>2, <1>1
        <5>2. g[i] = f[i] /\ (i # 1 => g[i - 1] = f[i - 1])
          BY <5>1, <4>2
        <5>3. f[i] = IF i = 1 THEN s[i] ELSE f[i - 1] \o s[i]
          BY <3>2, <5>1
        <5> QED
          BY <5>2, <5>3
      <4> QED
        BY <4>1, <4>2
    <3>4. Upto(g, k)
      BY <3>3
    <3> QED
      BY <3>4
  <2> QED
    BY <2>3, <2>4
<1>3. n \in 1..n
  BY <1>1
<1>4. PICK f : Upto(f, n)
  <2>1. n \notin Bad
    BY <1>2
  <2> QED
    BY <1>3, <2>1
<1> DEFINE h == [i \in 1..n |-> f[i]]
<1>5. \A i \in 1..n : h[i] = IF i = 1 THEN s[i] ELSE h[i - 1] \o s[i]
  <2> TAKE i \in 1..n
  <2>1. i # 1 => i - 1 \in 1..n
    BY <1>1
  <2> QED
    BY <1>4, <2>1
<1>6. h = [i \in 1..n |-> IF i = 1 THEN s[i] ELSE h[i - 1] \o s[i]]
  BY <1>5
<1> HIDE DEF h
<1> QED
  BY <1>6 DEF Join

\* How a joined sequence lies: place[k] is where its kth part starts.
Laid(s, flat, place) ==
  /\ place \in [1..(Len(s) + 1) -> Nat \ {0}]
  /\ place[1] = 1 /\ place[Len(s) + 1] = Len(flat) + 1
  /\ \A k \in 1..Len(s) :
       /\ place[k + 1] = place[k] + Len(s[k])
       /\ \A j \in 1..Len(s[k]) : /\ place[k] + j - 1 \in 1..Len(flat)
                                  /\ flat[place[k] + j - 1] = s[k][j]

\* The same of the first m parts, joined to w.
LaidUpto(s, w, place, m) ==
  /\ place[m + 1] = place[m] + Len(s[m])
  /\ \A k \in 1..m : \A j \in 1..Len(s[k]) :
       /\ place[k] + j - 1 \in 1..Len(w)
       /\ w[place[k] + j - 1] = s[k][j]

\* What is laid stays laid when one more item is laid after it.
LEMMA OneMoreIsLaid ==
  ASSUME NEW S, NEW s, NEW u \in Seq(S), NEW m \in Nat \ {0, 1}, s[m] \in Seq(S),
         NEW place, place[m] = Len(u) + 1, place[m + 1] = place[m] + Len(s[m]),
         LaidUpto(s, u, place, m - 1)
  PROVE  LaidUpto(s, u \o s[m], place, m)
<1> DEFINE v == s[m]
           w == u \o s[m]
<1>1. /\ Len(u) \in Nat /\ Len(v) \in Nat /\ Len(w) = Len(u) + Len(v)
      /\ \A i \in 1..(Len(u) + Len(v)) : w[i] = IF i <= Len(u) THEN u[i] ELSE v[i - Len(u)]
  BY ConcatProperties, LenProperties
<1> HIDE DEF w
<1>2. ASSUME NEW k \in 1..m, NEW j \in 1..Len(s[k])
      PROVE  /\ place[k] + j - 1 \in 1..Len(w)
             /\ w[place[k] + j - 1] = s[k][j]
  <2>1. CASE k = m
    <3>1. j \in 1..Len(v) /\ j \in Nat /\ place[k] + j - 1 = Len(u) + j
      BY <2>1, <1>1
    <3>2. /\ Len(u) + j \in 1..(Len(u) + Len(v))
          /\ ~(Len(u) + j <= Len(u)) /\ Len(u) + j - Len(u) = j
      BY <3>1, <1>1
    <3>3. w[Len(u) + j] = v[j] /\ Len(u) + j \in 1..Len(w)
      BY <3>2, <1>1
    <3> QED
      BY <2>1, <3>1, <3>3
  <2>2. CASE k # m
    <3>1. k \in 1..(m - 1)
      BY <2>2
    <3>2. place[k] + j - 1 \in 1..Len(u) /\ u[place[k] + j - 1] = s[k][j]
      BY <3>1 DEF LaidUpto
    <3>3. place[k] + j - 1 \in 1..(Len(u) + Len(v)) /\ place[k] + j - 1 <= Len(u)
      BY <3>2, <1>1
    <3> QED
      BY <3>2, <3>3, <1>1
  <2> QED
    BY <2>1, <2>2
<1> QED
  BY <1>2 DEF LaidUpto, w

\* Every item stands in the joined list, each where the one before it ends.
LEMMA JoinIsLaid ==
  ASSUME NEW S, NEW s \in Seq(Seq(S)), s # <<>>, NEW f, f = Join(s, f)
  PROVE  /\ f[Len(s)] \in Seq(S)
         /\ \E place : Laid(s, f[Len(s)], place)
<1> DEFINE n == Len(s)
           place == [k \in 1..(n + 1) |-> IF k = 1 THEN 1 ELSE Len(f[k - 1]) + 1]
           Bad == {m \in 1..n : ~(f[m] \in Seq(S) /\ LaidUpto(s, f[m], place, m))}
<1>1. n \in Nat /\ n >= 1
  BY EmptySeq
<1>2. \A i \in 1..n : f[i] = IF i = 1 THEN s[i] ELSE f[i - 1] \o s[i]
  BY DEF Join
<1>3. \A i \in 1..n : s[i] \in Seq(S) /\ Len(s[i]) \in Nat
  BY ElementOfSeq, LenProperties
<1>4. place[1] = 1 /\ \A k \in 1..n : place[k + 1] = Len(f[k]) + 1
  BY <1>1
<1>5. DOMAIN place = 1..(n + 1) /\ place = [k \in 1..(n + 1) |-> place[k]]
  OBVIOUS
<1> HIDE DEF place
<1>6. f[1] \in Seq(S) /\ LaidUpto(s, f[1], place, 1)
  <2>1. f[1] = s[1] /\ 1 \in 1..n
    BY <1>1, <1>2
  <2> QED
    BY <2>1, <1>3, <1>4 DEF LaidUpto
<1>7. ASSUME NEW m \in 2..n, f[m - 1] \in Seq(S), LaidUpto(s, f[m - 1], place, m - 1)
      PROVE  f[m] \in Seq(S) /\ LaidUpto(s, f[m], place, m)
  <2>1. m \in 1..n /\ m - 1 \in 1..n /\ m \in Nat \ {0, 1} /\ m - 1 + 1 = m
    BY <1>1
  <2>2. f[m] = f[m - 1] \o s[m] /\ s[m] \in Seq(S)
    BY <1>2, <1>3, <2>1
  <2>3. place[m] = Len(f[m - 1]) + 1 /\ place[m + 1] = place[m] + Len(s[m])
    <3>1. place[m] = Len(f[m - 1]) + 1 /\ place[m + 1] = Len(f[m]) + 1
      BY <1>4, <2>1
    <3> DEFINE x == Len(f[m - 1])
               y == Len(f[m])
               z == Len(s[m])
    <3>2. y = x + z /\ x \in Nat /\ z \in Nat
      BY <1>7, <2>2, ConcatProperties, LenProperties
    <3>3. place[m] = x + 1 /\ place[m + 1] = y + 1
      BY <3>1
    <3> HIDE DEF x, y, z
    <3>4. place[m] = x + 1 /\ place[m + 1] = place[m] + z
      BY <3>2, <3>3
    <3> QED
      BY <3>4 DEF x, z
  <2> QED
    <3>1. f[m] \in Seq(S)
      BY <1>7, <2>2, ConcatProperties
    <3>2. LaidUpto(s, f[m - 1] \o s[m], place, m)
      BY <1>7, <2>1, <2>2, <2>3, OneMoreIsLaid
    <3> QED
      BY <3>1, <3>2, <2>2
<1>8. Bad = {}
  <2> SUFFICES ASSUME Bad # {} PROVE FALSE
    OBVIOUS
  <2>1. PICK m \in Bad : \A k \in Bad : m <= k
    <3>1. Bad \in SUBSET Nat
      BY <1>1
    <3> HIDE DEF Bad
    <3> QED
      BY <3>1, LeastOfNaturals
  <2>2. m \in 1..n /\ m # 1
    BY <1>6
  <2>3. m \in 2..n /\ m - 1 \in 1..n /\ ~(m <= m - 1)
    BY <1>1, <2>2
  <2>4. m - 1 \notin Bad
    BY <2>1, <2>3
  <2>5. f[m - 1] \in Seq(S) /\ LaidUpto(s, f[m - 1], place, m - 1)
    BY <2>3, <2>4
  <2> QED
    BY <2>3, <2>5, <1>7
<1>9. \A m \in 1..n : f[m] \in Seq(S) /\ LaidUpto(s, f[m], place, m)
  BY <1>8
<1>10. n \in 1..n
  BY <1>1
<1>11. place \in [1..(n + 1) -> Nat \ {0}]
  <2>1. ASSUME NEW k \in 1..(n + 1) PROVE place[k] \in Nat \ {0}
    <3>1. CASE k = 1
      BY <3>1, <1>4
    <3>2. CASE k # 1
      <4>1. k - 1 \in 1..n /\ k - 1 + 1 = k
        BY <3>2, <1>1
      <4>2. Len(f[k - 1]) \in Nat /\ place[k] = Len(f[k - 1]) + 1
        BY <4>1, <1>4, <1>9, LenProperties
      <4> QED
        BY <4>2
    <3> QED
      BY <3>1, <3>2
  <2> QED
    BY <2>1, <1>5
<1>12. place[n + 1] = Len(f[n]) + 1
  BY <1>4, <1>10
<1>13. Laid(s, f[n], place)
  <2>1. \A k \in 1..n : place[k + 1] = place[k] + Len(s[k])
    BY <1>9 DEF LaidUpto
  <2>2. LaidUpto(s, f[n], place, n)
    BY <1>9, <1>10
  <2> QED
    BY <2>1, <2>2, <1>4, <1>11, <1>12 DEF Laid, LaidUpto
<1> QED
  BY <1>9, <1>10, <1>13

\* FlattenSeq lays its parts one after the other.
LEMMA FlattenIsLaid ==
  ASSUME NEW S, NEW s \in Seq(Seq(S))
  PROVE  FlattenSeq(s) \in Seq(S) /\ \E place : Laid(s, FlattenSeq(s), place)
<1>1. CASE s = <<>>
  <2>1. FlattenSeq(s) = <<>> /\ Len(s) = 0
    BY <1>1, EmptySeq DEF FlattenSeq
  <2>2. Laid(s, <<>>, [k \in {1} |-> 1])
    <3>1. 1..(Len(s) + 1) = {1} /\ 1..Len(s) = {}
      BY <2>1
    <3>2. Len(<<>>) = 0
      BY <2>1, <1>1
    <3> QED
      BY <3>1, <3>2, <2>1 DEF Laid
  <2> QED
    BY <2>1, <2>2, EmptySeq
<1>2. CASE s # <<>>
  <2> DEFINE f == CHOOSE f : f = Join(s, f)
  <2>1. f = Join(s, f)
    BY <1>2, JoinExists
  <2>2. Len(s) # 0
    BY <1>2, EmptySeq
  <2>3. FlattenSeq(s) = f[Len(s)]
    BY <2>2 DEF FlattenSeq, Join
  <2> HIDE DEF f
  <2> QED
    BY <2>1, <2>3, <1>2, JoinIsLaid
<1> QED
  BY <1>1, <1>2

\* Place p holds some unit of some part.
IsCovered(s, flat, place, p) ==
  \E k \in 1..Len(s) : \E j \in 1..Len(s[k]) : p = place[k] + j - 1 /\ flat[p] = s[k][j]

\* Nothing else is in it.
LEMMA LaidCovers ==
  ASSUME NEW S, NEW s \in Seq(Seq(S)), NEW flat \in Seq(S), NEW place, Laid(s, flat, place),
         NEW p \in 1..Len(flat)
  PROVE  IsCovered(s, flat, place, p)
<1> DEFINE n == Len(s)
           Past == {k \in 1..(n + 1) : place[k] > p}
<1>1. n \in Nat /\ Len(flat) \in Nat /\ p \in Nat
  BY LenProperties
<1>2. /\ place \in [1..(n + 1) -> Nat \ {0}]
      /\ place[1] = 1 /\ place[n + 1] = Len(flat) + 1
      /\ \A k \in 1..n : place[k + 1] = place[k] + Len(s[k])
      /\ \A k \in 1..n : \A j \in 1..Len(s[k]) : flat[place[k] + j - 1] = s[k][j]
  BY DEF Laid
<1>3. n + 1 \in Past
  BY <1>1, <1>2
<1>4. PICK k \in Past : \A m \in Past : k <= m
  <2>1. Past # {}
    BY <1>3
  <2>2. Past \in SUBSET Nat
    BY <1>1
  <2> HIDE DEF Past
  <2> QED
    BY <2>1, <2>2, LeastOfNaturals
<1>5. k \in 1..(n + 1) /\ place[k] > p /\ k # 1
  BY <1>1, <1>2
<1>6. k - 1 \in 1..n /\ k - 1 \in 1..(n + 1) /\ ~(k <= k - 1) /\ k - 1 + 1 = k
  BY <1>1, <1>5
<1>7. k - 1 \notin Past
  BY <1>4, <1>6
<1>8. ~(place[k - 1] > p)
  BY <1>6, <1>7
<1> DEFINE m == k - 1
           a == place[m]
           l == Len(s[m])
           j == p - a + 1
<1>9. a \in Nat \ {0} /\ l \in Nat /\ place[k] = a + l
  <2>1. s[m] \in Seq(S)
    BY <1>6, ElementOfSeq
  <2>2. l \in Nat
    BY <2>1, LenProperties
  <2> QED
    BY <2>2, <1>2, <1>6
<1>10. m \in 1..n /\ ~(a > p)
  BY <1>6, <1>8
<1> HIDE DEF m, a, l
<1>11. j \in 1..l /\ p = a + j - 1
  <2>1. a + l > p
    BY <1>5, <1>9
  <2> QED
    BY <2>1, <1>1, <1>9, <1>10
<1> HIDE DEF j
<1>12. j \in 1..Len(s[m]) /\ p = place[m] + j - 1
  BY <1>11 DEF a, l
<1>13. flat[place[m] + j - 1] = s[m][j]
  BY <1>2, <1>10, <1>12
<1>14. flat[p] = s[m][j]
  BY <1>12, <1>13
<1> QED
  BY <1>10, <1>12, <1>14 DEF IsCovered

\* A sequence of parts all but one of which are empty is that part.
LEMMA FlattenOfOne ==
  ASSUME NEW S, NEW s \in Seq(Seq(S)), NEW m \in 1..Len(s),
         \A k \in 1..Len(s) : k # m => s[k] = <<>>
  PROVE  FlattenSeq(s) = s[m]
<1> DEFINE flat == FlattenSeq(s)
           n == Len(s)
<1>1. flat \in Seq(S) /\ s[m] \in Seq(S) /\ n \in Nat /\ m \in Nat
  BY FlattenIsLaid, ElementOfSeq, LenProperties
<1>2. PICK place : Laid(s, flat, place)
  BY FlattenIsLaid
<1> HIDE DEF flat
<1>3. \A p \in 1..Len(flat) : \E k \in 1..n : \E j \in 1..Len(s[k]) :
                                p = place[k] + j - 1 /\ flat[p] = s[k][j]
  <2>1. \A p \in 1..Len(flat) : IsCovered(s, flat, place, p)
    BY <1>1, <1>2, LaidCovers
  <2> QED
    BY <2>1 DEF IsCovered
<1>4. /\ place \in [1..(n + 1) -> Nat \ {0}]
      /\ place[1] = 1 /\ place[n + 1] = Len(flat) + 1
      /\ \A k \in 1..n : place[k + 1] = place[k] + Len(s[k])
      /\ \A k \in 1..n : \A j \in 1..Len(s[k]) :
           place[k] + j - 1 \in 1..Len(flat) /\ flat[place[k] + j - 1] = s[k][j]
  BY <1>2 DEF Laid
<1>5. \A k \in 1..n : k # m => Len(s[k]) = 0
  BY EmptySeq
<1>6. place[m] = 1
  <2> DEFINE Off == {k \in 1..m : place[k] # 1}
  <2>1. SUFFICES ASSUME Off # {} PROVE FALSE
    BY <1>1
  <2>2. PICK k \in Off : \A i \in Off : k <= i
    <3>1. Off \in SUBSET Nat
      BY <1>1
    <3> HIDE DEF Off
    <3> QED
      BY <2>1, <3>1, LeastOfNaturals
  <2>3. k \in 1..m /\ place[k] # 1 /\ k # 1
    BY <1>4
  <2>4. k - 1 \in 1..m /\ ~(k <= k - 1) /\ k - 1 \in 1..n /\ k - 1 # m /\ k - 1 + 1 = k
    BY <1>1, <2>3
  <2>5. place[k - 1] = 1
    BY <2>2, <2>4
  <2>6. place[k] = place[k - 1] + 0
    BY <1>4, <1>5, <2>4
  <2> QED
    BY <2>3, <2>5, <2>6
<1>7. \A j \in 1..Len(s[m]) : j \in 1..Len(flat) /\ flat[j] = s[m][j]
  <2> TAKE j \in 1..Len(s[m])
  <2>1. place[m] + j - 1 = j
    BY <1>6
  <2> QED
    BY <1>4, <2>1
<1>8. \A p \in 1..Len(flat) : p \in 1..Len(s[m])
  <2> TAKE p \in 1..Len(flat)
  <2>1. PICK k \in 1..n : \E j \in 1..Len(s[k]) : p = place[k] + j - 1
    BY <1>3
  <2>2. k = m
    BY <2>1, <1>5
  <2> QED
    BY <2>1, <2>2, <1>6
<1>9. Len(flat) = Len(s[m])
  <2> DEFINE a == Len(flat)
             b == Len(s[m])
  <2>1. a \in Nat /\ b \in Nat /\ 1..a = 1..b
    BY <1>1, <1>7, <1>8, LenProperties
  <2> HIDE DEF a, b
  <2>2. a = b
    BY <2>1
  <2> QED
    BY <2>2 DEF a, b
<1>10. flat = s[m]
  BY <1>1, <1>7, <1>9, SeqEqual
<1> QED
  BY <1>10 DEF flat

\* A sequence of one-element parts is the sequence of their elements.
LEMMA FlattenOfSingles ==
  ASSUME NEW S, NEW t \in Seq(S), NEW s \in Seq(Seq(S)), Len(s) = Len(t),
         \A k \in 1..Len(t) : s[k] = <<t[k]>>
  PROVE  FlattenSeq(s) = t
<1> DEFINE flat == FlattenSeq(s)
           n == Len(t)
<1>1. flat \in Seq(S) /\ n \in Nat
  BY FlattenIsLaid, LenProperties
<1>2. PICK place : Laid(s, flat, place)
  BY FlattenIsLaid
<1> HIDE DEF flat
<1>3. /\ place \in [1..(n + 1) -> Nat \ {0}]
      /\ place[1] = 1 /\ place[n + 1] = Len(flat) + 1
      /\ \A k \in 1..n : place[k + 1] = place[k] + 1
      /\ \A k \in 1..n : flat[place[k] + 1 - 1] = t[k]
  <2>1. \A k \in 1..n : Len(s[k]) = 1 /\ s[k][1] = t[k]
    <3> TAKE k \in 1..n
    <3> DEFINE x == t[k]
    <3>1. s[k] = <<x>>
      OBVIOUS
    <3> HIDE DEF x
    <3>2. Len(<<x>>) = 1 /\ <<x>>[1] = x
      OBVIOUS
    <3> QED
      BY <3>1, <3>2 DEF x
  <2>2. 1 \in 1..1
    OBVIOUS
  <2> QED
    BY <1>2, <2>1, <2>2 DEF Laid
<1>4. \A k \in 1..(n + 1) : place[k] = k
  <2> DEFINE Off == {k \in 1..(n + 1) : place[k] # k}
  <2>1. SUFFICES ASSUME Off # {} PROVE FALSE
    BY <1>1
  <2>2. PICK k \in Off : \A i \in Off : k <= i
    <3>1. Off \in SUBSET Nat
      BY <1>1
    <3> HIDE DEF Off
    <3> QED
      BY <2>1, <3>1, LeastOfNaturals
  <2>3. k \in 1..(n + 1) /\ place[k] # k /\ k # 1
    BY <1>3
  <2>4. k - 1 \in 1..n /\ ~(k <= k - 1) /\ k - 1 \in 1..(n + 1) /\ k - 1 + 1 = k
    BY <1>1, <2>3
  <2>5. place[k - 1] = k - 1
    BY <2>2, <2>4
  <2>6. place[k] = place[k - 1] + 1
    BY <1>3, <2>4
  <2> QED
    BY <2>3, <2>4, <2>5, <2>6
<1>5. n + 1 = Len(flat) + 1 /\ Len(flat) \in Nat
  BY <1>1, <1>3, <1>4, LenProperties
<1>6. \A k \in 1..n : flat[k] = t[k]
  <2> TAKE k \in 1..n
  <2>1. place[k] = k /\ place[k] + 1 - 1 = k
    BY <1>1, <1>4
  <2> QED
    BY <1>3, <2>1
<1>7. Len(flat) = n
  BY <1>1, <1>5
<1>8. flat = t
  BY <1>1, <1>6, <1>7, SeqEqual
<1> QED
  BY <1>8 DEF flat

\* A list is one of any set its elements are in.
LEMMA Narrowed ==
  ASSUME NEW S, NEW T, NEW s \in Seq(S), \A i \in 1..Len(s) : s[i] \in T
  PROVE  s \in Seq(T)
<1>1. Len(s) \in Nat /\ s \in [1..Len(s) -> S]
  BY LenProperties
<1>2. s \in [1..Len(s) -> T]
  BY <1>1
<1> QED
  BY <1>1, <1>2

----------------------------------------------------------------------------------
\* The command line.

\* What holds of a place whenever it holds of all later ones holds of all.
LEMMA FromTheEnd ==
  ASSUME NEW n \in Nat, NEW P,
         \A k \in 1..n : (\A j \in (k + 1)..n : j \in P) => k \in P
  PROVE  \A k \in 1..n : k \in P
<1> DEFINE Bad == {i \in 0..n : i < n /\ n - i \notin P}
<1>1. Bad = {}
  <2> SUFFICES ASSUME Bad # {} PROVE FALSE
    OBVIOUS
  <2>1. PICK i \in Bad : \A j \in Bad : i <= j
    <3>1. Bad \in SUBSET Nat
      OBVIOUS
    <3> HIDE DEF Bad
    <3> QED
      BY <3>1, LeastOfNaturals
  <2>2. i \in 0..n /\ i < n /\ n - i \notin P
    OBVIOUS
  <2> DEFINE k == n - i
  <2>3. k \in 1..n
    BY <2>2
  <2>4. ASSUME NEW j \in (k + 1)..n PROVE j \in P
    <3>1. n - j \in 0..n /\ n - j < n /\ ~(i <= n - j) /\ n - (n - j) = j
      BY <2>2
    <3>2. n - j \notin Bad
      <4> HIDE DEF Bad
      <4> QED
        BY <2>1, <3>1
    <3> QED
      BY <3>1, <3>2
  <2>5. k \in P
    <3> HIDE DEF k, Bad
    <3> QED
      BY <2>3, <2>4
  <2> QED
    BY <2>2, <2>5
<1>2. ASSUME NEW k \in 1..n PROVE k \in P
  <2>1. n - k \in 0..n /\ n - k < n /\ n - (n - k) = k
    OBVIOUS
  <2> QED
    BY <1>1, <2>1
<1> QED
  BY <1>2

\* G[i][f] is what f is at i, and rests on f at places of a lower rank.
LooksBack(D, V, top, rank, G) ==
  /\ V # {} /\ top \in Nat /\ rank \in [D -> 0..top] /\ G \in [D -> [[D -> V] -> V]]
  /\ \A i \in D : \A f, g \in [D -> V] :
       (\A j \in D : rank[j] < rank[i] => f[j] = g[j]) => G[i][f] = G[i][g]

\* There is a function on D each of whose values G describes from the function itself.
IsDescribed(D, V, G) == \E f \in [D -> V] : \A i \in D : f[i] = G[i][f]

\* A function that is described by what it is at lower places exists.
LEMMA RecursionExists ==
  ASSUME NEW D, NEW V, NEW top, NEW rank, NEW G, LooksBack(D, V, top, rank, G)
  PROVE  IsDescribed(D, V, G)
<1>0. V # {} /\ top \in Nat /\ rank \in [D -> 0..top] /\ G \in [D -> [[D -> V] -> V]]
  BY DEF LooksBack
<1> USE <1>0
<1> DEFINE Upto(f, m) == \A i \in D : rank[i] < m => f[i] = G[i][f]
           Bad == {m \in 0..(top + 1) : \A f \in [D -> V] : ~Upto(f, m)}
<1>1. Bad = {}
  <2> SUFFICES ASSUME Bad # {} PROVE FALSE
    OBVIOUS
  <2>1. PICK m \in Bad : \A j \in Bad : m <= j
    <3>1. Bad \in SUBSET Nat
      OBVIOUS
    <3> HIDE DEF Bad
    <3> QED
      BY <3>1, LeastOfNaturals
  <2>2. m \in 0..(top + 1) /\ \A f \in [D -> V] : ~Upto(f, m)
    <3> HIDE DEF Upto
    <3> QED
      BY <2>1
  <2>3. m # 0
    <3> SUFFICES ASSUME m = 0 PROVE FALSE
      OBVIOUS
    <3>1. PICK v : v \in V
      OBVIOUS
    <3> DEFINE f == [i \in D |-> v]
    <3>2. f \in [D -> V]
      BY <3>1
    <3>3. Upto(f, 0)
      OBVIOUS
    <3> HIDE DEF f, Upto
    <3> QED
      BY <2>2, <3>2, <3>3
  <2>4. m - 1 \in 0..(top + 1) /\ ~(m <= m - 1)
    BY <2>2, <2>3
  <2>5. m - 1 \notin Bad
    <3> HIDE DEF Bad
    <3> QED
      BY <2>1, <2>4
  <2>6. PICK f \in [D -> V] : Upto(f, m - 1)
    <3> HIDE DEF Upto
    <3> QED
      BY <2>4, <2>5
  <2> DEFINE g == [i \in D |-> IF rank[i] = m - 1 THEN G[i][f] ELSE f[i]]
  <2>7. g \in [D -> V]
    OBVIOUS
  <2>8. ASSUME NEW i \in D, rank[i] < m PROVE g[i] = G[i][g]
    <3>1. rank[i] \in Nat /\ m \in Nat
      BY <2>2
    <3>2. \A j \in D : rank[j] < rank[i] => f[j] = g[j]
      <4> TAKE j \in D
      <4>1. rank[j] \in Nat
        OBVIOUS
      <4> QED
        BY <2>8, <3>1, <4>1
    <3>3. G[i][f] = G[i][g]
      <4> HIDE DEF g
      <4> QED
        BY <2>7, <3>2 DEF LooksBack
    <3>4. g[i] = G[i][f]
      <4>1. CASE rank[i] = m - 1
        BY <4>1
      <4>2. CASE rank[i] # m - 1
        <5>1. rank[i] < m - 1
          <6> DEFINE r == rank[i]
          <6>1. r \in Nat /\ m \in Nat /\ r < m /\ r # m - 1
            BY <2>8, <3>1, <4>2
          <6> HIDE DEF r
          <6>2. r < m - 1
            BY <6>1
          <6> QED
            BY <6>2 DEF r
        <5>2. f[i] = G[i][f]
          BY <2>6, <5>1
        <5> QED
          BY <4>2, <5>2
      <4> QED
        BY <4>1, <4>2
    <3> QED
      BY <3>3, <3>4
  <2>9. Upto(g, m)
    <3> HIDE DEF g
    <3> QED
      BY <2>8
  <2> HIDE DEF g, Upto
  <2> QED
    BY <2>2, <2>7, <2>9
<1>2. top + 1 \in 0..(top + 1)
  OBVIOUS
<1>3. PICK f \in [D -> V] : Upto(f, top + 1)
  <2> HIDE DEF Upto
  <2> QED
    BY <1>1, <1>2
<1>4. ASSUME NEW i \in D PROVE f[i] = G[i][f]
  <2>1. rank[i] < top + 1
    <3>1. rank[i] \in 0..top
      OBVIOUS
    <3> QED
      BY <3>1
  <2> QED
    BY <1>3, <2>1
<1> QED
  BY <1>4 DEF IsDescribed

\* The first "--" of a line, or its end.
Stop(args) == IF "--" \in Range(args) THEN SelectInSeq(args, LAMBDA a : a = "--")
              ELSE Len(args) + 1

\* What stands before the first "--" is the same as in the line, and holds no other.
LEMMA CutAtStop ==
  ASSUME NEW args \in Seq(Argument)
  PROVE  /\ Stop(args) \in 1..(Len(args) + 1)
         /\ Cut(args).before \in Seq(Argument) /\ Len(Cut(args).before) = Stop(args) - 1
         /\ \A i \in 1..(Stop(args) - 1) :
              Cut(args).before[i] = args[i] /\ args[i] \in Argument \ {"--"}
         /\ Cut(args).literal = SubSeq(args, Stop(args) + 1, Len(args))
<1> DEFINE n == Len(args)
           I == {i \in 1..n : args[i] = "--"}
           stop == Stop(args)
<1>1. n \in Nat /\ \A i \in 1..n : args[i] \in Argument
  BY LenProperties, ElementOfSeq
<1>2. "--" \in Range(args) <=> I # {}
  BY <1>1 DEF Range
<1>3. CASE I = {}
  <2>1. stop = n + 1 /\ Cut(args) = [before |-> args, literal |-> <<>>]
    BY <1>2, <1>3 DEF Stop, Cut
  <2>2. SubSeq(args, n + 1 + 1, n) = <<>>
    BY <1>1
  <2>3. \A i \in 1..n : args[i] \in Argument \ {"--"}
    BY <1>1, <1>3
  <2> HIDE DEF stop
  <2>4. /\ stop \in 1..(n + 1) /\ stop - 1 = n /\ Cut(args).before = args
        /\ Cut(args).literal = SubSeq(args, stop + 1, n)
    BY <1>1, <2>1, <2>2
  <2> QED
    BY <2>3, <2>4 DEF stop
<1>4. CASE I # {}
  <2>1. stop = Min(I) /\ Cut(args) = [before |-> SubSeq(args, 1, stop - 1),
                                      literal |-> SubSeq(args, stop + 1, n)]
    BY <1>2, <1>4 DEF Stop, Cut, SelectInSeq
  <2>2. stop \in I /\ \A i \in I : stop <= i
    <3>1. \E m \in I : \A i \in I : m <= i
      <4>1. I \in SUBSET Nat
        OBVIOUS
      <4> HIDE DEF I
      <4> QED
        BY <1>4, <4>1, LeastOfNaturals
    <3> QED
      BY <2>1, <3>1 DEF Min
  <2> HIDE DEF stop
  <2> DEFINE c == SubSeq(args, 1, stop - 1)
  <2>3. stop \in 1..n /\ \A i \in 1..(stop - 1) : i \in 1..n /\ args[i] # "--"
    BY <1>1, <2>2
  <2>4. /\ c \in Seq(Argument) /\ Len(c) = stop - 1
        /\ \A i \in 1..(stop - 1) : c[i] = args[i]
    <3>1. 1 \in 1..(n + 1) /\ stop - 1 \in 0..n
      BY <1>1, <2>3
    <3> QED
      BY <1>1, <2>3, <3>1
  <2>5. Cut(args).before = c /\ Cut(args).literal = SubSeq(args, stop + 1, n)
    <3> DEFINE rest == SubSeq(args, stop + 1, n)
    <3>1. Cut(args) = [before |-> c, literal |-> rest]
      BY <2>1
    <3> HIDE DEF c, rest
    <3>2. Cut(args).before = c /\ Cut(args).literal = rest
      BY <3>1
    <3> QED
      BY <3>2 DEF c, rest
  <2> HIDE DEF c, I
  <2>6. stop \in 1..(n + 1) /\ \A i \in 1..(stop - 1) : args[i] \in Argument \ {"--"}
    BY <1>1, <2>3
  <2> QED
    BY <2>4, <2>5, <2>6 DEF stop
<1> QED
  BY <1>3, <1>4

\* What a run of the flag package over the last arguments comes to.
Parsed(n) == [ok : BOOLEAN, set : Seq(Seq(Argument)), rest : 0..(n + 1)]

\* What an argument before the terminator can be.
LEMMA ArgumentKinds ==
  /\ Argument = Words \cup {"--", "--log-key", "--json", "--nonsense"}
  /\ "--" \notin Words /\ "--log-key" \notin Words /\ "--json" \notin Words /\ "--nonsense" \notin Words
  /\ TakesNext = "--log-key" /\ Alone = "--json" /\ Unknown = "--nonsense"
BY DEF Argument, Words, TakesNext, Alone, Unknown

\* A setting in front leaves the rest as it is.
LEMMA PrecededIs ==
  ASSUME NEW n \in Nat, NEW r \in Parsed(n), NEW value \in Seq(Argument)
  PROVE  /\ Preceded(value, r) \in Parsed(n)
         /\ Preceded(value, r).ok = r.ok /\ Preceded(value, r).rest = r.rest
         /\ r.ok => Preceded(value, r).set = <<value>> \o r.set
<1>1. r.ok \in BOOLEAN /\ r.set \in Seq(Seq(Argument)) /\ r.rest \in 0..(n + 1)
      /\ r = [ok |-> r.ok, set |-> r.set, rest |-> r.rest]
  BY DEF Parsed
<1> DEFINE more == <<value>> \o r.set
           set == IF r.ok THEN more ELSE r.set
<1>2. more \in Seq(Seq(Argument))
  BY <1>1
<1>3. set \in Seq(Seq(Argument))
  BY <1>1, <1>2
<1>4. Preceded(value, r) = [ok |-> r.ok, set |-> set, rest |-> r.rest]
  <2>1. Preceded(value, r) = [r EXCEPT !.set = set]
    BY DEF Preceded
  <2> HIDE DEF set
  <2>2. \A a, b, c : [[ok |-> a, set |-> b, rest |-> c] EXCEPT !.set = set]
                       = [ok |-> a, set |-> set, rest |-> c]
    OBVIOUS
  <2> QED
    BY <1>1, <2>1, <2>2
<1>5. r.ok => set = more
  OBVIOUS
<1> HIDE DEF set, more
<1>6. [ok |-> r.ok, set |-> set, rest |-> r.rest] \in Parsed(n)
  BY <1>1, <1>3 DEF Parsed
<1>7. /\ Preceded(value, r).ok = r.ok /\ Preceded(value, r).rest = r.rest
      /\ Preceded(value, r).set = set
  BY <1>4
<1> QED
  BY <1>4, <1>5, <1>6, <1>7 DEF more

\* A step of Parse returns what Parse returns.
LEMMA ParsedFromIs ==
  ASSUME NEW args \in Seq(Argument), NEW i \in 1..(Len(args) + 1), NEW f,
         \A j \in (i + 1)..(Len(args) + 1) : f[j] \in Parsed(Len(args))
  PROVE  ParsedFrom(args, f, i) \in Parsed(Len(args))
<1> DEFINE n == Len(args)
<1>1. n \in Nat /\ \A j \in 1..n : args[j] \in Argument
  BY LenProperties, ElementOfSeq
<1>2. ASSUME NEW k \in 0..(n + 1) PROVE [ok |-> TRUE, set |-> <<>>, rest |-> k] \in Parsed(n)
  BY DEF Parsed
<1>3. Refused \in Parsed(n)
  BY <1>1 DEF Refused, Parsed
<1>4. CASE i > n
  <2>1. i \in 0..(n + 1)
    BY <1>1
  <2> QED
    BY <1>2, <1>4, <2>1 DEF ParsedFrom
<1>5. CASE ~(i > n)
  <2> DEFINE a == args[i]
  <2>1. a \in Argument /\ i \in 0..(n + 1) /\ i + 1 \in 0..(n + 1) /\ i + 1 \in (i + 1)..(n + 1)
    BY <1>1, <1>5
  <2>2. CASE a \in Words
    <3>1. ParsedFrom(args, f, i) = [ok |-> TRUE, set |-> <<>>, rest |-> i]
      BY <1>5, <2>2, ArgumentKinds DEF ParsedFrom
    <3> QED
      BY <1>2, <2>1, <3>1
  <2>3. CASE a = "--"
    <3>1. ParsedFrom(args, f, i) = [ok |-> TRUE, set |-> <<>>, rest |-> i + 1]
      BY <1>5, <2>3, ArgumentKinds DEF ParsedFrom
    <3> QED
      BY <1>2, <2>1, <3>1
  <2>4. CASE a = Alone
    <3>1. ParsedFrom(args, f, i) = Preceded(<<Alone>>, f[i + 1])
      BY <1>5, <2>4, ArgumentKinds DEF ParsedFrom
    <3>2. <<Alone>> \in Seq(Argument)
      BY ArgumentKinds
    <3>3. f[i + 1] \in Parsed(n)
      BY <2>1
    <3> QED
      BY <1>1, <3>1, <3>2, <3>3, PrecededIs
  <2>5. CASE a = TakesNext /\ i < n
    <3> DEFINE v == args[i + 1]
    <3>1. ParsedFrom(args, f, i) = Preceded(<<TakesNext, v>>, f[i + 2])
      BY <1>5, <2>5, ArgumentKinds DEF ParsedFrom
    <3>2. v \in Argument /\ f[i + 2] \in Parsed(n)
      <4>1. i + 1 \in 1..n /\ i + 2 \in (i + 1)..(n + 1)
        BY <1>1, <2>5
      <4> QED
        BY <1>1, <4>1
    <3> HIDE DEF v
    <3>3. <<TakesNext, v>> \in Seq(Argument)
      BY <3>2, ArgumentKinds
    <3> QED
      BY <1>1, <3>1, <3>2, <3>3, PrecededIs
  <2>6. CASE a \notin Words /\ a # "--" /\ a # Alone /\ ~(a = TakesNext /\ i < n)
    BY <1>3, <1>5, <2>6 DEF ParsedFrom
  <2> QED
    BY <2>2, <2>3, <2>4, <2>5, <2>6
<1> QED
  BY <1>4, <1>5

\* A step of Parse looks only at later arguments.
LEMMA ParsedFromLooksAhead ==
  ASSUME NEW args \in Seq(Argument), NEW i \in 1..(Len(args) + 1), NEW f, NEW g,
         \A j \in (i + 1)..(Len(args) + 1) : f[j] = g[j]
  PROVE  ParsedFrom(args, f, i) = ParsedFrom(args, g, i)
<1> DEFINE n == Len(args)
<1>1. n \in Nat
  BY LenProperties
<1>2. i <= n => f[i + 1] = g[i + 1]
  BY <1>1
<1>3. i < n => f[i + 2] = g[i + 2]
  <2> SUFFICES ASSUME i < n PROVE f[i + 2] = g[i + 2]
    OBVIOUS
  <2>1. i + 2 \in (i + 1)..(n + 1)
    BY <1>1
  <2> QED
    BY <2>1
<1>4. CASE i > n
  BY <1>4 DEF ParsedFrom
<1>5. CASE ~(i > n) /\ i < n
  BY <1>1, <1>2, <1>3, <1>5 DEF ParsedFrom
<1>6. CASE ~(i > n) /\ ~(i < n)
  <2>1. f[i + 1] = g[i + 1]
    BY <1>1, <1>2, <1>6
  <2> QED
    BY <1>6, <2>1 DEF ParsedFrom
<1> QED
  BY <1>4, <1>5, <1>6

\* FlagParse is the function its recursion describes.
LEMMA FlagParseIsFrom ==
  ASSUME NEW args \in Seq(Argument)
  PROVE  \A i \in 1..(Len(args) + 1) :
           FlagParse(args)[i] = ParsedFrom(args, FlagParse(args), i)
<1> DEFINE n == Len(args)
           D == 1..(n + 1)
           V == Parsed(n)
           rank == [i \in D |-> n + 1 - i]
           G == [i \in D |-> [f \in [D -> V] |-> ParsedFrom(args, f, i)]]
           F == CHOOSE f : f = [i \in D |-> ParsedFrom(args, f, i)]
<1>1. n \in Nat
  BY LenProperties
<1>2. ASSUME NEW i \in D, NEW f \in [D -> V] PROVE ParsedFrom(args, f, i) \in V
  <2>1. ASSUME NEW j \in (i + 1)..(n + 1) PROVE f[j] \in Parsed(n)
    <3>1. j \in D
      BY <1>1
    <3> QED
      BY <3>1
  <2> QED
    BY <2>1, ParsedFromIs
<1>3. G \in [D -> [[D -> V] -> V]]
  BY <1>2
<1>4. ASSUME NEW i \in D, NEW f \in [D -> V], NEW g \in [D -> V],
             \A j \in D : rank[j] < rank[i] => f[j] = g[j]
      PROVE  G[i][f] = G[i][g]
  <2>1. ASSUME NEW j \in (i + 1)..(n + 1) PROVE f[j] = g[j]
    <3>1. j \in D /\ n + 1 - j < n + 1 - i
      BY <1>1
    <3> QED
      BY <1>4, <3>1
  <2>2. ParsedFrom(args, f, i) = ParsedFrom(args, g, i)
    BY <2>1, ParsedFromLooksAhead
  <2> QED
    BY <2>2
<1>5. V # {} /\ n + 1 \in Nat /\ rank \in [D -> 0..(n + 1)]
  <2>1. Refused \in V
    BY <1>1 DEF Refused, Parsed
  <2> QED
    BY <1>1, <2>1
<1>6. PICK f \in [D -> V] : \A i \in D : f[i] = G[i][f]
  <2> DEFINE top == n + 1
  <2>1. V # {} /\ top \in Nat /\ rank \in [D -> 0..top]
    BY <1>5
  <2> HIDE DEF D, V, rank, G, top
  <2>2. LooksBack(D, V, top, rank, G)
    BY <1>3, <1>4, <2>1 DEF LooksBack
  <2> QED
    BY <2>2, RecursionExists DEF IsDescribed
<1>7. f = [i \in D |-> ParsedFrom(args, f, i)]
  <2>1. ASSUME NEW i \in D PROVE f[i] = ParsedFrom(args, f, i)
    BY <1>6
  <2> QED
    BY <2>1
<1>8. F = [i \in D |-> ParsedFrom(args, F, i)]
  BY <1>7
<1>9. FlagParse(args) = F
  BY DEF FlagParse
<1> HIDE DEF F
<1> QED
  BY <1>8, <1>9

\* A run ends at a word or at the end of what was to be parsed.
LEMMA ParseEnds ==
  ASSUME NEW args \in Seq(Argument \ {"--"})
  PROVE  \A i \in 1..(Len(args) + 1) :
           /\ FlagParse(args)[i] \in Parsed(Len(args))
           /\ FlagParse(args)[i].ok =>
                /\ FlagParse(args)[i].rest \in i..(Len(args) + 1)
                /\ FlagParse(args)[i].rest <= Len(args) => args[FlagParse(args)[i].rest] \in Words
<1> DEFINE n == Len(args)
           parse == FlagParse(args)
           N == n + 1
           Ends(i) == parse[i].ok => /\ parse[i].rest \in i..(n + 1)
                                     /\ parse[i].rest <= n => args[parse[i].rest] \in Words
           P == {i \in 1..N : parse[i] \in Parsed(n) /\ Ends(i)}
<1>1. n \in Nat /\ \A j \in 1..n : args[j] \in Argument \ {"--"}
  BY LenProperties, ElementOfSeq
<1>2. args \in Seq(Argument)
  OBVIOUS
<1>3. \A i \in 1..N : parse[i] = ParsedFrom(args, parse, i)
  BY <1>2, FlagParseIsFrom
<1> HIDE DEF parse
<1>4. ASSUME NEW i \in 1..N, \A j \in (i + 1)..N : j \in P
      PROVE  i \in P
  <2>1. \A j \in (i + 1)..N : parse[j] \in Parsed(n) /\ Ends(j)
    BY <1>4
  <2>2. parse[i] \in Parsed(n)
    BY <1>2, <1>3, <2>1, ParsedFromIs
  <2>3. Ends(i)
    <3>1. CASE i > n
      <4>1. parse[i] = [ok |-> TRUE, set |-> <<>>, rest |-> i]
        BY <1>3, <3>1 DEF ParsedFrom
      <4>2. parse[i].rest = i /\ i \in i..(n + 1) /\ ~(i <= n)
        BY <1>1, <3>1, <4>1
      <4> QED
        BY <4>2
    <3>2. CASE ~(i > n) /\ args[i] \in Words
      <4>1. parse[i] = [ok |-> TRUE, set |-> <<>>, rest |-> i]
        BY <1>3, <3>2, ArgumentKinds DEF ParsedFrom
      <4>2. parse[i].rest = i /\ i \in i..(n + 1)
        BY <1>1, <3>2, <4>1
      <4> QED
        BY <3>2, <4>2
    <3>3. CASE ~(i > n) /\ args[i] = Alone
      <4>1. parse[i] = Preceded(<<Alone>>, parse[i + 1])
        BY <1>3, <3>3, ArgumentKinds DEF ParsedFrom
      <4>2. i + 1 \in (i + 1)..N
        BY <1>1, <3>3
      <4>3. parse[i + 1] \in Parsed(n) /\ Ends(i + 1)
        BY <2>1, <4>2
      <4>4. <<Alone>> \in Seq(Argument)
        BY ArgumentKinds
      <4> DEFINE value == <<Alone>>
                 r == parse[i + 1]
      <4> HIDE DEF n, Ends, value, r
      <4>5. parse[i].ok = r.ok /\ parse[i].rest = r.rest
        <5>1. n \in Nat /\ r \in Parsed(n) /\ value \in Seq(Argument) /\ parse[i] = Preceded(value, r)
          BY <1>1, <4>1, <4>3, <4>4 DEF value, r
        <5>2. Preceded(value, r).ok = r.ok /\ Preceded(value, r).rest = r.rest
          BY <5>1, PrecededIs
        <5> QED
          BY <5>1, <5>2
      <4>6. \A j : j \in (i + 1)..(n + 1) => j \in i..(n + 1)
        BY <1>1
      <4> QED
        BY <4>3, <4>5, <4>6 DEF Ends, r
    <3>4. CASE ~(i > n) /\ args[i] = TakesNext /\ i < n
      <4> DEFINE v == args[i + 1]
      <4>1. parse[i] = Preceded(<<TakesNext, v>>, parse[i + 2])
        BY <1>3, <3>4, ArgumentKinds DEF ParsedFrom
      <4>2. i + 2 \in (i + 1)..N /\ i + 1 \in 1..n
        BY <1>1, <3>4
      <4>3. parse[i + 2] \in Parsed(n) /\ Ends(i + 2) /\ v \in Argument
        BY <1>1, <2>1, <4>2
      <4> HIDE DEF v, n, Ends
      <4>4. <<TakesNext, v>> \in Seq(Argument)
        BY <4>3, ArgumentKinds
      <4> DEFINE value == <<TakesNext, v>>
                 r == parse[i + 2]
      <4> HIDE DEF value, r
      <4>5. parse[i].ok = r.ok /\ parse[i].rest = r.rest
        <5>1. n \in Nat /\ r \in Parsed(n) /\ value \in Seq(Argument) /\ parse[i] = Preceded(value, r)
          BY <1>1, <4>1, <4>3, <4>4 DEF value, r
        <5>2. Preceded(value, r).ok = r.ok /\ Preceded(value, r).rest = r.rest
          BY <5>1, PrecededIs
        <5> QED
          BY <5>1, <5>2
      <4>6. \A j : j \in (i + 2)..(n + 1) => j \in i..(n + 1)
        BY <1>1
      <4> QED
        BY <4>3, <4>5, <4>6 DEF Ends, r
    <3>5. CASE ~(i > n) /\ args[i] \notin Words /\ args[i] # Alone /\ ~(args[i] = TakesNext /\ i < n)
      <4>1. args[i] # "--"
        BY <1>1, <3>5
      <4>2. parse[i] = Refused
        BY <1>3, <3>5, <4>1 DEF ParsedFrom
      <4>3. ~parse[i].ok
        BY <4>2 DEF Refused
      <4> QED
        BY <4>3
    <3> QED
      BY <3>1, <3>2, <3>3, <3>4, <3>5
  <2> HIDE DEF Ends
  <2> QED
    BY <2>2, <2>3
<1>5. \A i \in 1..N : i \in P
  <2>1. N \in Nat
    BY <1>1
  <2> HIDE DEF N, P
  <2> QED
    BY <1>4, <2>1, FromTheEnd
<1>6. ASSUME NEW i \in 1..N PROVE parse[i] \in Parsed(n) /\ Ends(i)
  <2>1. i \in P
    BY <1>5
  <2> HIDE DEF Ends
  <2> QED
    BY <2>1
<1> QED
  BY <1>6 DEF parse

\* What a line comes to.
CommandLines == [ok : BOOLEAN, set : Seq(Seq(Argument)), positional : Seq(Argument)]

\* The same with a setting, or with a word, in front.
WithSetting(v, r) ==
  IF r.ok THEN [ok |-> TRUE, set |-> <<v>> \o r.set, positional |-> r.positional] ELSE Usage

\* A word in front of what the rest of the line comes to.
WithWord(w, r) ==
  IF r.ok THEN [ok |-> TRUE, set |-> r.set, positional |-> <<w>> \o r.positional] ELSE Usage

\* Records as the loop makes them.
LEMMA LinesMade ==
  /\ Usage \in CommandLines /\ ~Usage.ok
  /\ \A s \in Seq(Seq(Argument)), w \in Seq(Argument) :
       /\ [ok |-> TRUE, set |-> s, positional |-> w] \in CommandLines
       /\ [ok |-> TRUE, set |-> s, positional |-> w].ok = TRUE
       /\ [ok |-> TRUE, set |-> s, positional |-> w].set = s
       /\ [ok |-> TRUE, set |-> s, positional |-> w].positional = w
  /\ \A r \in CommandLines :
       r.ok \in BOOLEAN /\ r.set \in Seq(Seq(Argument)) /\ r.positional \in Seq(Argument)
BY DEF CommandLines, Usage

\* A step of the loop over Parse returns what the loop returns.
LEMMA LoopedFromIs ==
  ASSUME NEW args \in Seq(Argument \ {"--"}), NEW k \in 1..(Len(args) + 1), NEW f,
         \A j \in (k + 1)..(Len(args) + 1) : f[j] \in CommandLines
  PROVE  LoopedFrom(args, f, k) \in CommandLines
<1> DEFINE n == Len(args)
           p == FlagParse(args)[k]
           r == f[p.rest + 1]
<1>1. n \in Nat /\ \A j \in 1..n : args[j] \in Argument
  BY LenProperties, ElementOfSeq
<1>2. p \in Parsed(n) /\ (p.ok => p.rest \in k..(n + 1))
  BY ParseEnds
<1>3. p.ok \in BOOLEAN /\ p.set \in Seq(Seq(Argument))
  BY <1>2 DEF Parsed
<1>4. LoopedFrom(args, f, k) =
        IF ~p.ok THEN Usage
        ELSE IF p.rest > n THEN [ok |-> TRUE, set |-> p.set, positional |-> <<>>]
        ELSE IF ~r.ok THEN Usage
        ELSE [ok |-> TRUE, set |-> p.set \o r.set, positional |-> <<args[p.rest]>> \o r.positional]
  BY DEF LoopedFrom
<1>5. CASE p.ok /\ ~(p.rest > n)
  <2>1. p.rest \in 1..n /\ p.rest + 1 \in (k + 1)..(n + 1)
    BY <1>1, <1>2, <1>5
  <2>2. r \in CommandLines /\ args[p.rest] \in Argument
    BY <1>1, <2>1
  <2> DEFINE w == args[p.rest]
             s == p.set
             set == s \o r.set
             positional == <<w>> \o r.positional
  <2> HIDE DEF r, w, s
  <2>3. set \in Seq(Seq(Argument)) /\ positional \in Seq(Argument)
    <3>1. r.set \in Seq(Seq(Argument)) /\ r.positional \in Seq(Argument)
      BY <2>2, LinesMade
    <3>2. w \in Argument /\ s \in Seq(Seq(Argument))
      BY <1>3, <2>2 DEF w, s
    <3> QED
      BY <3>1, <3>2
  <2> HIDE DEF set, positional
  <2>4. [ok |-> TRUE, set |-> set, positional |-> positional] \in CommandLines
    BY <2>3, LinesMade
  <2>5. LoopedFrom(args, f, k) =
          IF ~r.ok THEN Usage ELSE [ok |-> TRUE, set |-> set, positional |-> positional]
    BY <1>4, <1>5 DEF set, positional, w, s
  <2> QED
    BY <2>4, <2>5, LinesMade
<1>6. CASE p.ok /\ p.rest > n
  <2> DEFINE s == p.set
             w == <<>>
  <2>1. LoopedFrom(args, f, k) = [ok |-> TRUE, set |-> s, positional |-> w]
    BY <1>4, <1>6
  <2>2. s \in Seq(Seq(Argument)) /\ w \in Seq(Argument)
    BY <1>3
  <2> HIDE DEF s, w
  <2> QED
    BY <2>1, <2>2, LinesMade
<1>7. CASE ~p.ok
  BY <1>4, <1>7, LinesMade
<1> QED
  BY <1>5, <1>6, <1>7

\* A step of the loop looks only at later arguments.
LEMMA LoopedFromLooksAhead ==
  ASSUME NEW args \in Seq(Argument \ {"--"}), NEW k \in 1..(Len(args) + 1), NEW f, NEW g,
         \A j \in (k + 1)..(Len(args) + 1) : f[j] = g[j]
  PROVE  LoopedFrom(args, f, k) = LoopedFrom(args, g, k)
<1> DEFINE n == Len(args)
           p == FlagParse(args)[k]
<1>1. n \in Nat
  BY LenProperties
<1>2. p.ok => p.rest \in k..(n + 1)
  BY ParseEnds
<1>3. CASE p.ok /\ ~(p.rest > n)
  <2>1. p.rest + 1 \in (k + 1)..(n + 1)
    BY <1>1, <1>2, <1>3
  <2>2. f[p.rest + 1] = g[p.rest + 1]
    BY <2>1
  <2> QED
    BY <2>2 DEF LoopedFrom
<1>4. CASE ~(p.ok /\ ~(p.rest > n))
  BY <1>4 DEF LoopedFrom
<1> QED
  BY <1>3, <1>4

\* The loop is the function its recursion describes.
LEMMA LoopIsFrom ==
  ASSUME NEW args \in Seq(Argument \ {"--"})
  PROVE  \E f \in [1..(Len(args) + 1) -> CommandLines] :
           /\ Loop(args) = f[1]
           /\ \A k \in 1..(Len(args) + 1) : f[k] = LoopedFrom(args, f, k)
<1> DEFINE n == Len(args)
           D == 1..(n + 1)
           V == CommandLines
           rank == [k \in D |-> n + 1 - k]
           G == [k \in D |-> [f \in [D -> V] |-> LoopedFrom(args, f, k)]]
           F == CHOOSE f : f = [k \in D |-> LoopedFrom(args, f, k)]
<1>1. n \in Nat
  BY LenProperties
<1>2. ASSUME NEW k \in D, NEW f \in [D -> V] PROVE LoopedFrom(args, f, k) \in V
  <2>1. ASSUME NEW j \in (k + 1)..(n + 1) PROVE f[j] \in CommandLines
    <3>1. j \in D
      BY <1>1
    <3> QED
      BY <3>1
  <2> QED
    BY <2>1, LoopedFromIs
<1>3. G \in [D -> [[D -> V] -> V]]
  BY <1>2
<1>4. ASSUME NEW k \in D, NEW f \in [D -> V], NEW g \in [D -> V],
             \A j \in D : rank[j] < rank[k] => f[j] = g[j]
      PROVE  G[k][f] = G[k][g]
  <2>1. ASSUME NEW j \in (k + 1)..(n + 1) PROVE f[j] = g[j]
    <3>1. j \in D /\ n + 1 - j < n + 1 - k
      BY <1>1
    <3> QED
      BY <1>4, <3>1
  <2>2. LoopedFrom(args, f, k) = LoopedFrom(args, g, k)
    BY <2>1, LoopedFromLooksAhead
  <2> QED
    BY <2>2
<1>5. V # {} /\ n + 1 \in Nat /\ rank \in [D -> 0..(n + 1)]
  BY <1>1, LinesMade
<1>6. PICK f \in [D -> V] : \A k \in D : f[k] = G[k][f]
  <2> DEFINE top == n + 1
  <2>1. V # {} /\ top \in Nat /\ rank \in [D -> 0..top]
    BY <1>5
  <2> HIDE DEF D, V, rank, G, top
  <2>2. LooksBack(D, V, top, rank, G)
    BY <1>3, <1>4, <2>1 DEF LooksBack
  <2> QED
    BY <2>2, RecursionExists DEF IsDescribed
<1>7. f = [k \in D |-> LoopedFrom(args, f, k)]
  <2>1. ASSUME NEW k \in D PROVE f[k] = LoopedFrom(args, f, k)
    BY <1>6
  <2> QED
    BY <2>1
<1>8. F = [k \in D |-> LoopedFrom(args, F, k)]
  BY <1>7
<1>9. Loop(args) = F[1]
  BY DEF Loop
<1> HIDE DEF F
<1>10. \A k \in D : F[k] = LoopedFrom(args, F, k)
  BY <1>8
<1> DEFINE N == n + 1
           P == {k \in 1..N : F[k] \in CommandLines}
<1>11. ASSUME NEW k \in 1..N, \A j \in (k + 1)..N : j \in P
       PROVE  k \in P
  <2>1. \A j \in (k + 1)..(n + 1) : F[j] \in CommandLines
    BY <1>11
  <2>2. LoopedFrom(args, F, k) \in CommandLines
    BY <2>1, LoopedFromIs
  <2> QED
    BY <1>10, <2>2
<1>12. \A k \in 1..N : k \in P
  <2>1. N \in Nat
    BY <1>1
  <2> HIDE DEF N, P
  <2> QED
    BY <1>11, <2>1, FromTheEnd
<1>13. F \in [D -> V]
  <2>1. \A k \in D : F[k] \in V
    BY <1>12
  <2> QED
    BY <1>8, <2>1
<1> QED
  BY <1>9, <1>10, <1>13

\* What the loop makes of the arguments from each position on.
Loops(args, f) ==
  /\ f \in [1..(Len(args) + 1) -> CommandLines]
  /\ \A k \in 1..(Len(args) + 1) : f[k] = LoopedFrom(args, f, k)

\* A run with a setting in front of another is a line with that setting in front.
LEMMA SettingGoesFirst ==
  ASSUME NEW args \in Seq(Argument \ {"--"}), NEW f, Loops(args, f),
         NEW k \in 1..(Len(args) + 1), NEW j \in 1..(Len(args) + 1), NEW v \in Seq(Argument),
         FlagParse(args)[k] = Preceded(v, FlagParse(args)[j])
  PROVE  f[k] = WithSetting(v, f[j])
<1> DEFINE n == Len(args)
           p == FlagParse(args)[k]
           q == FlagParse(args)[j]
           r == f[q.rest + 1]
           w == args[q.rest]
<1>1. n \in Nat /\ \A i \in 1..n : args[i] \in Argument
  BY LenProperties, ElementOfSeq
<1>2. q \in Parsed(n) /\ (q.ok => q.rest \in j..(n + 1))
  BY ParseEnds
<1>3. p.ok = q.ok /\ p.rest = q.rest /\ (q.ok => p.set = <<v>> \o q.set)
  <2> HIDE DEF p, q
  <2>1. p = Preceded(v, q)
    BY DEF p, q
  <2> QED
    BY <1>1, <1>2, <2>1, PrecededIs
<1>4. q.ok \in BOOLEAN /\ q.set \in Seq(Seq(Argument))
  BY <1>2 DEF Parsed
<1>5. f[j] = IF ~q.ok THEN Usage
             ELSE IF q.rest > n THEN [ok |-> TRUE, set |-> q.set, positional |-> <<>>]
             ELSE IF ~r.ok THEN Usage
             ELSE [ok |-> TRUE, set |-> q.set \o r.set, positional |-> <<w>> \o r.positional]
  BY DEF LoopedFrom, Loops
<1>6. f[k] = IF ~q.ok THEN Usage
             ELSE IF q.rest > n THEN [ok |-> TRUE, set |-> p.set, positional |-> <<>>]
             ELSE IF ~r.ok THEN Usage
             ELSE [ok |-> TRUE, set |-> p.set \o r.set, positional |-> <<w>> \o r.positional]
  <2>1. f[k] = LoopedFrom(args, f, k)
    BY DEF Loops
  <2>2. LoopedFrom(args, f, k) =
          IF ~p.ok THEN Usage
          ELSE IF p.rest > n THEN [ok |-> TRUE, set |-> p.set, positional |-> <<>>]
          ELSE IF ~f[p.rest + 1].ok THEN Usage
          ELSE [ok |-> TRUE, set |-> p.set \o f[p.rest + 1].set,
                positional |-> <<args[p.rest]>> \o f[p.rest + 1].positional]
    BY DEF LoopedFrom
  <2> HIDE DEF p, q
  <2> QED
    BY <1>3, <2>1, <2>2
<1>7. q.ok /\ ~(q.rest > n) => r \in CommandLines /\ w \in Argument
  <2> SUFFICES ASSUME q.ok, ~(q.rest > n) PROVE r \in CommandLines /\ w \in Argument
    OBVIOUS
  <2> HIDE DEF q
  <2>1. q.rest \in 1..n /\ q.rest + 1 \in 1..(n + 1)
    BY <1>1, <1>2
  <2> QED
    BY <1>1, <2>1 DEF Loops
<1> DEFINE a == q.set
           b == p.set
           rest == q.rest
           end == <<>>
<1> HIDE DEF p, q, r, w
<1>8. CASE ~q.ok
  <2>1. f[j] = Usage /\ f[k] = Usage
    BY <1>5, <1>6, <1>8
  <2> QED
    BY <2>1, LinesMade DEF WithSetting
<1>9. CASE q.ok /\ rest > n
  <2>1. b = <<v>> \o a /\ a \in Seq(Seq(Argument)) /\ end \in Seq(Argument)
    BY <1>3, <1>4, <1>9
  <2>2. f[j] = [ok |-> TRUE, set |-> a, positional |-> end]
        /\ f[k] = [ok |-> TRUE, set |-> b, positional |-> end]
    BY <1>5, <1>6, <1>9
  <2> HIDE DEF a, b, end
  <2>3. f[j].ok = TRUE /\ f[j].set = a /\ f[j].positional = end
    BY <2>1, <2>2, LinesMade
  <2> QED
    BY <2>1, <2>2, <2>3 DEF WithSetting
<1>10. CASE q.ok /\ ~(rest > n) /\ ~r.ok
  <2>1. f[j] = Usage /\ f[k] = Usage
    BY <1>5, <1>6, <1>10
  <2> QED
    BY <2>1, LinesMade DEF WithSetting
<1>11. CASE q.ok /\ ~(rest > n) /\ r.ok
  <2> DEFINE c == r.set
             d == r.positional
             x == a \o c
             y == <<w>> \o d
             z == b \o c
  <2>1. /\ b = <<v>> \o a /\ a \in Seq(Seq(Argument)) /\ c \in Seq(Seq(Argument))
        /\ d \in Seq(Argument) /\ w \in Argument
    BY <1>3, <1>4, <1>7, <1>11, LinesMade
  <2>2. f[j] = [ok |-> TRUE, set |-> x, positional |-> y]
        /\ f[k] = [ok |-> TRUE, set |-> z, positional |-> y]
    BY <1>5, <1>6, <1>11
  <2> HIDE DEF a, b, c, d
  <2>3. x \in Seq(Seq(Argument)) /\ y \in Seq(Argument)
    BY <2>1
  <2>4. z = <<v>> \o x
    <3>1. <<v>> \in Seq(Seq(Argument))
      OBVIOUS
    <3> DEFINE o == <<v>>
    <3> HIDE DEF o
    <3>2. (o \o a) \o c = o \o (a \o c)
      BY <2>1, <3>1, ConcatAssociative DEF o
    <3> QED
      BY <2>1, <3>2 DEF o
  <2> HIDE DEF x, y, z
  <2>5. f[j].ok = TRUE /\ f[j].set = x /\ f[j].positional = y
    BY <2>2, <2>3, LinesMade
  <2> QED
    BY <2>2, <2>4, <2>5 DEF WithSetting
<1> QED
  BY <1>4, <1>8, <1>9, <1>10, <1>11

\* What each argument does to the line it starts.
LoopStep(args, f, k) ==
  /\ k = Len(args) + 1 => f[k] = [ok |-> TRUE, set |-> <<>>, positional |-> <<>>]
  /\ k <= Len(args) /\ args[k] \in Words => f[k] = WithWord(args[k], f[k + 1])
  /\ k <= Len(args) /\ args[k] = Alone => f[k] = WithSetting(<<Alone>>, f[k + 1])
  /\ k < Len(args) /\ args[k] = TakesNext =>
       f[k] = WithSetting(<<TakesNext, args[k + 1]>>, f[k + 2])
  /\ k = Len(args) /\ args[k] = TakesNext => f[k] = Usage
  /\ k <= Len(args) /\ args[k] = Unknown => f[k] = Usage

\* The loop takes every argument so.
LEMMA LoopSteps ==
  ASSUME NEW args \in Seq(Argument \ {"--"}), NEW f, Loops(args, f),
         NEW k \in 1..(Len(args) + 1)
  PROVE  LoopStep(args, f, k)
<1> DEFINE n == Len(args)
           parse == FlagParse(args)
           N == n + 1
<1>1. n \in Nat /\ \A i \in 1..n : args[i] \in Argument \ {"--"}
  BY LenProperties, ElementOfSeq
<1>2. parse[k] = ParsedFrom(args, parse, k)
  <2>1. args \in Seq(Argument)
    OBVIOUS
  <2> QED
    BY <2>1, FlagParseIsFrom
<1>3. f[k] = LoopedFrom(args, f, k)
  BY DEF Loops
<1>4. LoopedFrom(args, f, k) =
        IF ~parse[k].ok THEN Usage
        ELSE IF parse[k].rest > n THEN [ok |-> TRUE, set |-> parse[k].set, positional |-> <<>>]
        ELSE IF ~f[parse[k].rest + 1].ok THEN Usage
        ELSE [ok |-> TRUE, set |-> parse[k].set \o f[parse[k].rest + 1].set,
              positional |-> <<args[parse[k].rest]>> \o f[parse[k].rest + 1].positional]
  BY DEF LoopedFrom
<1> HIDE DEF parse
<1>5. ASSUME k = n + 1
      PROVE  f[k] = [ok |-> TRUE, set |-> <<>>, positional |-> <<>>]
  <2>1. parse[k] = [ok |-> TRUE, set |-> <<>>, rest |-> k] /\ k > n
    BY <1>1, <1>2, <1>5 DEF ParsedFrom
  <2>2. parse[k].ok = TRUE /\ parse[k].set = <<>> /\ parse[k].rest = k
    BY <2>1
  <2> QED
    BY <1>3, <1>4, <2>1, <2>2
<1>6. ASSUME k <= n, args[k] \in Words
      PROVE  f[k] = WithWord(args[k], f[k + 1])
  <2>1. parse[k] = [ok |-> TRUE, set |-> <<>>, rest |-> k] /\ ~(k > n)
    BY <1>1, <1>2, <1>6, ArgumentKinds DEF ParsedFrom
  <2>2. parse[k].ok = TRUE /\ parse[k].set = <<>> /\ parse[k].rest = k
    BY <2>1
  <2>3. f[k + 1] \in CommandLines
    <3>1. k + 1 \in 1..(n + 1)
      BY <1>1, <1>6
    <3> QED
      BY <3>1 DEF Loops
  <2> DEFINE r == f[k + 1]
             w == args[k]
  <2>4. f[k] = IF ~r.ok THEN Usage
               ELSE [ok |-> TRUE, set |-> <<>> \o r.set, positional |-> <<w>> \o r.positional]
    BY <1>3, <1>4, <2>1, <2>2
  <2> HIDE DEF r, w
  <2>5. r.ok \in BOOLEAN /\ <<>> \o r.set = r.set
    <3>1. r.ok \in BOOLEAN /\ r.set \in Seq(Seq(Argument))
      BY <2>3, LinesMade DEF r
    <3> QED
      BY <3>1, ConcatEmptySeq
  <2>6. f[k] = WithWord(w, r)
    BY <2>4, <2>5 DEF WithWord
  <2> QED
    BY <2>6 DEF r, w
<1>7. ASSUME k <= n, args[k] = Alone
      PROVE  f[k] = WithSetting(<<Alone>>, f[k + 1])
  <2>1. parse[k] = Preceded(<<Alone>>, parse[k + 1])
    BY <1>1, <1>2, <1>7, ArgumentKinds DEF ParsedFrom
  <2>2. k + 1 \in 1..(n + 1)
    BY <1>1, <1>7
  <2>3. <<Alone>> \in Seq(Argument)
    BY ArgumentKinds
  <2> QED
    BY <2>1, <2>2, <2>3, SettingGoesFirst DEF parse
<1>8. ASSUME k < n, args[k] = TakesNext
      PROVE  f[k] = WithSetting(<<TakesNext, args[k + 1]>>, f[k + 2])
  <2> DEFINE v == args[k + 1]
  <2>1. parse[k] = Preceded(<<TakesNext, v>>, parse[k + 2])
    BY <1>1, <1>2, <1>8, ArgumentKinds DEF ParsedFrom
  <2>2. k + 2 \in 1..(n + 1) /\ k + 1 \in 1..n
    BY <1>1, <1>8
  <2>3. v \in Argument
    BY <1>1, <2>2
  <2> HIDE DEF v
  <2> DEFINE value == <<TakesNext, v>>
  <2>4. value \in Seq(Argument)
    BY <2>3, ArgumentKinds
  <2> HIDE DEF value
  <2>5. parse[k] = Preceded(value, parse[k + 2])
    BY <2>1 DEF value
  <2>6. f[k] = WithSetting(value, f[k + 2])
    BY <2>2, <2>4, <2>5, SettingGoesFirst DEF parse
  <2> QED
    BY <2>6 DEF value, v
<1>9. ASSUME k <= n, args[k] = Unknown \/ (args[k] = TakesNext /\ k = n)
      PROVE  f[k] = Usage
  <2>1. parse[k] = Refused
    BY <1>1, <1>2, <1>9, ArgumentKinds DEF ParsedFrom
  <2>2. ~parse[k].ok
    BY <2>1 DEF Refused
  <2> QED
    BY <1>3, <1>4, <2>2
<1>10. k = n => k <= n
  BY <1>1
<1> QED
  BY <1>5, <1>6, <1>7, <1>8, <1>9, <1>10 DEF LoopStep

\* f[i] lists the items from i on, but for those skipped.
Lists(f, n, skip, item) ==
  \A i \in 1..(n + 1) :
    f[i] = IF i = n + 1 THEN <<>> ELSE IF skip[i] THEN f[i + 1] ELSE <<item[i]>> \o f[i + 1]

\* Such a list exists.
LEMMA ListingExists ==
  ASSUME NEW n \in Nat, NEW U, NEW skip \in [1..n -> BOOLEAN], NEW item \in [1..n -> U]
  PROVE  \E f \in [1..(n + 1) -> Seq(U)] : Lists(f, n, skip, item)
<1> DEFINE D == 1..(n + 1)
           V == Seq(U)
           Step(f, i) == IF i = n + 1 THEN <<>>
                         ELSE IF skip[i] THEN f[i + 1] ELSE <<item[i]>> \o f[i + 1]
           rank == [i \in D |-> n + 1 - i]
           G == [i \in D |-> [f \in [D -> V] |-> Step(f, i)]]
<1>1. ASSUME NEW i \in D, NEW f \in [D -> V] PROVE Step(f, i) \in V
  <2>1. CASE i = n + 1
    BY <2>1
  <2>2. CASE i # n + 1
    <3>1. i \in 1..n /\ i + 1 \in D
      BY <2>2
    <3>2. f[i + 1] \in Seq(U) /\ item[i] \in U
      BY <3>1
    <3> DEFINE r == f[i + 1]
               a == item[i]
    <3> HIDE DEF r, a
    <3>3. r \in Seq(U) /\ <<a>> \o r \in Seq(U)
      <4>1. a \in U /\ r \in Seq(U)
        BY <3>2 DEF r, a
      <4> QED
        BY <4>1
    <3> QED
      BY <2>2, <3>3 DEF r, a
  <2> QED
    BY <2>1, <2>2
<1>2. ASSUME NEW i \in D, NEW f \in [D -> V], NEW g \in [D -> V],
             \A j \in D : rank[j] < rank[i] => f[j] = g[j]
      PROVE  Step(f, i) = Step(g, i)
  <2>1. CASE i = n + 1
    BY <2>1
  <2>2. CASE i # n + 1
    <3>1. i + 1 \in D /\ n + 1 - (i + 1) < n + 1 - i
      BY <2>2
    <3>2. f[i + 1] = g[i + 1]
      BY <1>2, <3>1
    <3> QED
      BY <2>2, <3>2
  <2> QED
    BY <2>1, <2>2
<1> HIDE DEF Step
<1>3. G \in [D -> [[D -> V] -> V]]
  BY <1>1
<1>4. ASSUME NEW i \in D, NEW f \in [D -> V], NEW g \in [D -> V],
             \A j \in D : rank[j] < rank[i] => f[j] = g[j]
      PROVE  G[i][f] = G[i][g]
  <2>1. Step(f, i) = Step(g, i)
    BY <1>2, <1>4
  <2> QED
    BY <2>1
<1>5. V # {} /\ n + 1 \in Nat /\ rank \in [D -> 0..(n + 1)]
  <2>1. V # {}
    <3>1. <<>> \in V
      OBVIOUS
    <3> HIDE DEF V
    <3> QED
      BY <3>1
  <2>2. rank \in [D -> 0..(n + 1)]
    OBVIOUS
  <2> QED
    BY <2>1, <2>2
<1>6. PICK f \in [D -> V] : \A i \in D : f[i] = G[i][f]
  <2> DEFINE top == n + 1
  <2>1. V # {} /\ top \in Nat /\ rank \in [D -> 0..top]
    BY <1>5
  <2> HIDE DEF D, V, rank, G, top
  <2>2. LooksBack(D, V, top, rank, G)
    BY <1>3, <1>4, <2>1 DEF LooksBack
  <2> QED
    BY <2>2, RecursionExists DEF IsDescribed
<1>7. \A i \in D : f[i] = Step(f, i)
  BY <1>6
<1>8. Lists(f, n, skip, item)
  BY <1>7 DEF Step, Lists
<1> QED
  BY <1>8

\* Whether an argument is the value of the one before it.
LEMMA ValuesAre ==
  ASSUME NEW args \in Seq(Argument)
  PROVE  \A i \in 1..Len(args) :
           IsValue(args)[i] <=> (i > 1 /\ args[i - 1] = TakesNext /\ ~IsValue(args)[i - 1])
<1> DEFINE n == Len(args)
           D == 1..n
           V == BOOLEAN
           Step(f, i) == i > 1 /\ args[i - 1] = TakesNext /\ ~f[i - 1]
           rank == [i \in D |-> i]
           G == [i \in D |-> [f \in [D -> V] |-> Step(f, i)]]
           F == CHOOSE f : f = [i \in D |-> Step(f, i)]
<1>1. n \in Nat
  BY LenProperties
<1>2. ASSUME NEW i \in D, NEW f \in [D -> V], NEW g \in [D -> V],
             \A j \in D : rank[j] < rank[i] => f[j] = g[j]
      PROVE  Step(f, i) = Step(g, i)
  <2>1. CASE i > 1
    <3>1. i - 1 \in D /\ i - 1 < i
      BY <1>1, <2>1
    <3>2. f[i - 1] = g[i - 1]
      BY <1>2, <3>1
    <3> QED
      BY <3>2
  <2>2. CASE ~(i > 1)
    BY <2>2
  <2> QED
    BY <2>1, <2>2
<1>3. G \in [D -> [[D -> V] -> V]]
  OBVIOUS
<1>4. ASSUME NEW i \in D, NEW f \in [D -> V], NEW g \in [D -> V],
             \A j \in D : rank[j] < rank[i] => f[j] = g[j]
      PROVE  G[i][f] = G[i][g]
  <2>1. Step(f, i) = Step(g, i)
    BY <1>2, <1>4
  <2> HIDE DEF Step
  <2> QED
    BY <2>1
<1>5. V # {} /\ n \in Nat /\ rank \in [D -> 0..n]
  <2>1. V # {}
    <3>1. TRUE \in V
      OBVIOUS
    <3> HIDE DEF V
    <3> QED
      BY <3>1
  <2>2. rank \in [D -> 0..n]
    BY <1>1
  <2> QED
    BY <1>1, <2>1, <2>2
<1>6. PICK f \in [D -> V] : \A i \in D : f[i] = G[i][f]
  <2> HIDE DEF D, V, rank, G, n
  <2>2. LooksBack(D, V, n, rank, G)
    BY <1>3, <1>4, <1>5 DEF LooksBack
  <2> QED
    BY <2>2, RecursionExists DEF IsDescribed
<1>7. f = [i \in D |-> Step(f, i)]
  <2>1. ASSUME NEW i \in D PROVE f[i] = Step(f, i)
    BY <1>6
  <2> HIDE DEF Step
  <2> QED
    BY <2>1
<1>8. F = [i \in D |-> Step(F, i)]
  <2> HIDE DEF Step
  <2> QED
    BY <1>7
<1>9. IsValue(args) = F
  BY DEF IsValue
<1> HIDE DEF F
<1>10. ASSUME NEW i \in D PROVE F[i] <=> Step(F, i)
  <2>1. F[i] = Step(F, i)
    <3> HIDE DEF Step
    <3> QED
      BY <1>8
  <2> QED
    BY <2>1
<1> QED
  BY <1>9, <1>10

\* What the lists of a line pass over and what they take.
Skipped(args, n, kinds) == [i \in 1..n |-> IsValue(args)[i] \/ args[i] \notin kinds]

\* The setting that the flag at i is.
Setting(args, i) == IF args[i] = Alone THEN <<Alone>> ELSE <<TakesNext, args[i + 1]>>

\* The setting at each place, were there a flag.
Settings(args, n) == [i \in 1..n |-> Setting(args, i)]

\* The line a list of settings and one of words describe.
Described(args, settings, words) ==
  LET stop == Stop(args)
      positional == words[1] \o SubSeq(args, stop + 1, Len(args))
  IN IF \/ \E i \in 1..(stop - 1) : ~IsValue(args)[i] /\ args[i] = Unknown
        \/ stop > 1 /\ args[stop - 1] = TakesNext /\ ~IsValue(args)[stop - 1]
        \/ positional = <<>> \/ positional[1] = ""
     THEN Usage
     ELSE [ok |-> TRUE, set |-> settings[1], positional |-> positional]

\* The settings of Meant are those of the flags before the terminator, in their order.
LEMMA SettingsListed ==
  ASSUME NEW args \in Seq(Argument), NEW stop \in 1..(Len(args) + 1)
  PROVE  LET F == CHOOSE f : f = [i \in 1..stop |->
                    IF i = stop THEN <<>>
                    ELSE IF IsValue(args)[i] \/ args[i] \notin {TakesNext, Alone} THEN f[i + 1]
                    ELSE <<IF args[i] = Alone THEN <<Alone>> ELSE <<TakesNext, args[i + 1]>> >>
                           \o f[i + 1]]
         IN Lists(F, stop - 1, Skipped(args, stop - 1, {TakesNext, Alone}), Settings(args, stop - 1))
<1> DEFINE n == stop - 1
           skip == Skipped(args, n, {TakesNext, Alone})
           item == Settings(args, n)
           U == {item[i] : i \in 1..n}
           Step(f, i) == IF i = stop THEN <<>>
                         ELSE IF IsValue(args)[i] \/ args[i] \notin {TakesNext, Alone} THEN f[i + 1]
                         ELSE <<IF args[i] = Alone THEN <<Alone>> ELSE <<TakesNext, args[i + 1]>> >>
                                \o f[i + 1]
           F == CHOOSE f : f = [i \in 1..stop |-> Step(f, i)]
<1>1. n \in Nat /\ n + 1 = stop
  BY LenProperties
<1>2. skip \in [1..n -> BOOLEAN] /\ item \in [1..n -> U]
  <2>1. skip \in [1..n -> BOOLEAN]
    BY DEF Skipped
  <2>2. item \in [1..n -> U]
    BY DEF Settings
  <2> QED
    BY <2>1, <2>2
<1>3. ASSUME NEW f, NEW i \in 1..stop
      PROVE  Step(f, i) = IF i = n + 1 THEN <<>>
                          ELSE IF skip[i] THEN f[i + 1] ELSE <<item[i]>> \o f[i + 1]
  <2>1. CASE i = stop
    BY <1>1, <2>1
  <2>2. CASE i # stop
    <3>1. i \in 1..n
      BY <1>1, <2>2
    <3>2. /\ skip[i] = (IsValue(args)[i] \/ args[i] \notin {TakesNext, Alone})
          /\ item[i] = IF args[i] = Alone THEN <<Alone>> ELSE <<TakesNext, args[i + 1]>>
      BY <3>1 DEF Skipped, Settings, Setting
    <3> HIDE DEF skip, item
    <3> QED
      BY <1>1, <2>2, <3>2
  <2> QED
    BY <2>1, <2>2
<1> HIDE DEF Step, skip, item, U, n
<1>4. PICK f \in [1..(n + 1) -> Seq(U)] : Lists(f, n, skip, item)
  BY <1>1, <1>2, ListingExists
<1>5. f = [i \in 1..stop |-> Step(f, i)]
  <2>1. ASSUME NEW i \in 1..stop PROVE f[i] = Step(f, i)
    BY <1>1, <1>3, <1>4 DEF Lists
  <2> QED
    BY <1>1, <1>4, <2>1
<1>6. F = [i \in 1..stop |-> Step(F, i)]
  BY <1>5
<1> HIDE DEF F
<1>7. ASSUME NEW i \in 1..stop PROVE F[i] = Step(F, i)
  BY <1>6
<1>8. Lists(F, n, skip, item)
  BY <1>1, <1>3, <1>7 DEF Lists
<1> QED
  BY <1>8 DEF F, Step, n, skip, item

\* The words of Meant are those before the terminator, in their order.
LEMMA WordsListed ==
  ASSUME NEW args \in Seq(Argument), NEW stop \in 1..(Len(args) + 1)
  PROVE  LET F == CHOOSE f : f = [i \in 1..stop |->
                    IF i = stop THEN <<>>
                    ELSE IF IsValue(args)[i] \/ args[i] \notin Words THEN f[i + 1]
                    ELSE <<args[i]>> \o f[i + 1]]
         IN /\ Lists(F, stop - 1, Skipped(args, stop - 1, Words), args)
            /\ F[1] \in Seq(Argument)
<1> DEFINE n == stop - 1
           skip == Skipped(args, n, Words)
           item == [i \in 1..n |-> args[i]]
           Step(f, i) == IF i = stop THEN <<>>
                         ELSE IF IsValue(args)[i] \/ args[i] \notin Words THEN f[i + 1]
                         ELSE <<args[i]>> \o f[i + 1]
           F == CHOOSE f : f = [i \in 1..stop |-> Step(f, i)]
<1>1. n \in Nat /\ n + 1 = stop /\ n <= Len(args)
  BY LenProperties
<1>2. skip \in [1..n -> BOOLEAN] /\ item \in [1..n -> Argument]
  <2>1. skip \in [1..n -> BOOLEAN]
    BY DEF Skipped
  <2>2. \A i \in 1..n : args[i] \in Argument
    BY <1>1, LenProperties, ElementOfSeq
  <2> QED
    BY <2>1, <2>2
<1>3. ASSUME NEW f, NEW i \in 1..stop
      PROVE  /\ Step(f, i) = IF i = n + 1 THEN <<>>
                             ELSE IF skip[i] THEN f[i + 1] ELSE <<item[i]>> \o f[i + 1]
             /\ i # n + 1 => item[i] = args[i]
  <2>1. CASE i = stop
    BY <1>1, <2>1
  <2>2. CASE i # stop
    <3>1. i \in 1..n
      BY <1>1, <2>2
    <3>2. /\ skip[i] = (IsValue(args)[i] \/ args[i] \notin Words)
          /\ item[i] = args[i]
      BY <3>1 DEF Skipped
    <3> HIDE DEF skip, item
    <3> QED
      BY <1>1, <2>2, <3>2
  <2> QED
    BY <2>1, <2>2
<1> HIDE DEF Step, skip, item, n
<1>4. PICK f \in [1..(n + 1) -> Seq(Argument)] : Lists(f, n, skip, item)
  BY <1>1, <1>2, ListingExists
<1>5. f = [i \in 1..stop |-> Step(f, i)]
  <2>1. ASSUME NEW i \in 1..stop PROVE f[i] = Step(f, i)
    BY <1>1, <1>3, <1>4 DEF Lists
  <2> QED
    BY <1>1, <1>4, <2>1
<1>6. F = [i \in 1..stop |-> Step(F, i)]
  BY <1>5
<1> HIDE DEF F
<1>7. ASSUME NEW i \in 1..stop PROVE F[i] = Step(F, i)
  BY <1>6
<1>8. Lists(F, n, skip, args)
  BY <1>1, <1>3, <1>7 DEF Lists
<1> DEFINE N == n + 1
           P == {k \in 1..N : F[k] \in Seq(Argument)}
<1>9. ASSUME NEW k \in 1..N, \A j \in (k + 1)..N : j \in P
      PROVE  k \in P
  <2>1. CASE k = n + 1
    <3>1. F[k] = <<>>
      BY <1>1, <1>7, <2>1 DEF Step
    <3>2. <<>> \in Seq(Argument)
      OBVIOUS
    <3> QED
      BY <3>1, <3>2
  <2>2. CASE k # n + 1
    <3>1. k \in 1..n /\ k + 1 \in (k + 1)..N /\ k # stop
      BY <1>1, <2>2
    <3> DEFINE r == F[k + 1]
               a == args[k]
    <3>2. r \in Seq(Argument) /\ a \in Argument
      BY <1>1, <1>9, <3>1, LenProperties, ElementOfSeq
    <3>3. F[k] = r \/ F[k] = <<a>> \o r
      BY <1>1, <1>7, <3>1 DEF Step
    <3> HIDE DEF r, a
    <3>4. <<a>> \o r \in Seq(Argument)
      BY <3>2
    <3> QED
      BY <3>2, <3>3, <3>4
  <2> QED
    BY <2>1, <2>2
<1>10. \A k \in 1..N : k \in P
  <2>1. N \in Nat
    BY <1>1
  <2> HIDE DEF N, P
  <2> QED
    BY <1>9, <2>1, FromTheEnd
<1>11. F[1] \in Seq(Argument)
  <2>1. 1 \in 1..N
    BY <1>1
  <2> QED
    BY <1>10, <2>1
<1> QED
  BY <1>8, <1>11 DEF F, Step, n, skip

\* The lists of what a line means.
LEMMA MeantIsDescribed ==
  ASSUME NEW args \in Seq(Argument)
  PROVE  \E settings, words :
           /\ Meant(args) = Described(args, settings, words)
           /\ Lists(settings, Stop(args) - 1, Skipped(args, Stop(args) - 1, {TakesNext, Alone}),
                    Settings(args, Stop(args) - 1))
           /\ Lists(words, Stop(args) - 1, Skipped(args, Stop(args) - 1, Words), args)
           /\ words[1] \in Seq(Argument)
<1> DEFINE S == CHOOSE f : f = [i \in 1..Stop(args) |->
                    IF i = Stop(args) THEN <<>>
                    ELSE IF IsValue(args)[i] \/ args[i] \notin {TakesNext, Alone} THEN f[i + 1]
                    ELSE <<IF args[i] = Alone THEN <<Alone>> ELSE <<TakesNext, args[i + 1]>> >>
                           \o f[i + 1]]
           W == CHOOSE f : f = [i \in 1..Stop(args) |->
                    IF i = Stop(args) THEN <<>>
                    ELSE IF IsValue(args)[i] \/ args[i] \notin Words THEN f[i + 1]
                    ELSE <<args[i]>> \o f[i + 1]]
<1>1. Stop(args) \in 1..(Len(args) + 1)
  BY CutAtStop
<1>2. Meant(args) = Described(args, S, W)
  BY DEF Meant, Described, Stop
<1>3. Lists(S, Stop(args) - 1, Skipped(args, Stop(args) - 1, {TakesNext, Alone}),
            Settings(args, Stop(args) - 1))
  BY <1>1, SettingsListed
<1>4. /\ Lists(W, Stop(args) - 1, Skipped(args, Stop(args) - 1, Words), args)
      /\ W[1] \in Seq(Argument)
  BY <1>1, WordsListed
<1> HIDE DEF S, W
<1> QED
  BY <1>2, <1>3, <1>4

\* Whether something from k on is refused: a flag nobody defined, or one whose value is
\* missing.
IsRefused(args, n, k) ==
  \/ \E i \in k..n : ~IsValue(args)[i] /\ args[i] = Unknown
  \/ k <= n /\ args[n] = TakesNext /\ ~IsValue(args)[n]

\* The lists of settings and of words in a line, and the line taken for what they say.
Listings(args, n, settings, words) ==
  /\ n = Stop(args) - 1
  /\ Lists(settings, n, Skipped(args, n, {TakesNext, Alone}), Settings(args, n))
  /\ Lists(words, n, Skipped(args, n, Words), args)

\* The line is refused, or comes to the settings and the words.
TakenFor(args, n, f, settings, words) ==
  f[1] = IF IsRefused(args, n, 1) THEN Usage
         ELSE [ok |-> TRUE, set |-> settings[1], positional |-> words[1]]

\* The loop takes a line for what it means.
LEMMA LoopMeansTheLine ==
  ASSUME NEW args \in Seq(Argument), NEW f, Loops(Cut(args).before, f),
         NEW n, NEW settings, NEW words, Listings(args, n, settings, words)
  PROVE  TakenFor(args, n, f, settings, words)
<1>0. /\ n = Stop(args) - 1
      /\ Lists(settings, n, Skipped(args, n, {TakesNext, Alone}), Settings(args, n))
      /\ Lists(words, n, Skipped(args, n, Words), args)
  BY DEF Listings
<1> DEFINE b == Cut(args).before
           v == IsValue(args)
           N == n + 1
           Comes(k) == [ok |-> TRUE, set |-> settings[k], positional |-> words[k]]
           Means(k) == f[k] = IF IsRefused(args, n, k) THEN Usage ELSE Comes(k)
           P == {k \in 1..N : (k <= n => ~v[k]) => Means(k)}
<1>1. /\ n \in Nat /\ n <= Len(args) /\ Len(args) \in Nat /\ b \in Seq(Argument) /\ Len(b) = n
      /\ \A i \in 1..n : b[i] = args[i] /\ args[i] \in Argument \ {"--"}
  <2>1. Len(args) \in Nat
    BY LenProperties
  <2> QED
    BY <1>0, <2>1, CutAtStop
<1>2. b \in Seq(Argument \ {"--"})
  <2>1. \A i \in 1..Len(b) : b[i] \in Argument \ {"--"}
    BY <1>1
  <2> HIDE DEF b
  <2> QED
    BY <1>1, <2>1, Narrowed
<1>3. ASSUME NEW i \in 1..n
      PROVE  v[i] <=> (i > 1 /\ args[i - 1] = TakesNext /\ ~v[i - 1])
  <2>1. i \in 1..Len(args)
    BY <1>1
  <2> QED
    BY <2>1, ValuesAre
<1>4. ASSUME NEW i \in 1..n
      PROVE  /\ settings[i] = IF v[i] \/ args[i] \notin {TakesNext, Alone} THEN settings[i + 1]
                              ELSE <<Setting(args, i)>> \o settings[i + 1]
             /\ words[i] = IF v[i] \/ args[i] \notin Words THEN words[i + 1]
                           ELSE <<args[i]>> \o words[i + 1]
  <2>1. i \in 1..(n + 1) /\ i # n + 1
    BY <1>1
  <2>2. /\ Skipped(args, n, {TakesNext, Alone})[i] = (v[i] \/ args[i] \notin {TakesNext, Alone})
        /\ Skipped(args, n, Words)[i] = (v[i] \/ args[i] \notin Words)
        /\ Settings(args, n)[i] = Setting(args, i)
    BY DEF Skipped, Settings
  <2> DEFINE x == Skipped(args, n, {TakesNext, Alone})
             y == Skipped(args, n, Words)
             z == Settings(args, n)
             s == Setting(args, i)
  <2>3. Lists(settings, n, x, z) /\ Lists(words, n, y, args)
    BY <1>0
  <2> HIDE DEF x, y, z, s
  <2>4. /\ settings[i] = IF x[i] THEN settings[i + 1] ELSE <<z[i]>> \o settings[i + 1]
        /\ words[i] = IF y[i] THEN words[i + 1] ELSE <<args[i]>> \o words[i + 1]
    BY <2>1, <2>3 DEF Lists
  <2> QED
    BY <2>2, <2>4 DEF x, y, z, s
<1>5. settings[n + 1] = <<>> /\ words[n + 1] = <<>>
  <2>1. n + 1 \in 1..(n + 1)
    BY <1>1
  <2> QED
    BY <1>0, <2>1 DEF Lists
<1>6. ASSUME NEW k \in 1..n, NEW j \in (k + 1)..(n + 1),
             \A i \in k..(j - 1) : v[i] \/ args[i] # Unknown,
             j = n + 1 => v[n] \/ args[n] # TakesNext
      PROVE  IsRefused(args, n, k) <=> IsRefused(args, n, j)
  <2>1. ASSUME NEW i \in k..n, ~v[i], args[i] = Unknown PROVE i \in j..n
    <3>1. i \notin k..(j - 1)
      BY <1>6, <2>1
    <3> QED
      BY <1>1, <3>1
  <2>2. \A i \in j..n : i \in k..n
    BY <1>1
  <2>3. k <= n /\ (j <= n \/ j = n + 1)
    BY <1>1
  <2> HIDE DEF v
  <2> QED
    BY <1>6, <2>1, <2>2, <2>3 DEF IsRefused, v
<1>7. ASSUME NEW k \in 1..N, \A j \in (k + 1)..N : j \in P
      PROVE  k \in P
  <2> SUFFICES ASSUME k <= n => ~v[k] PROVE Means(k)
    OBVIOUS
  <2>1. k \in 1..(Len(b) + 1)
    BY <1>1
  <2>0. LoopStep(b, f, k)
    <3>1. b \in Seq(Argument \ {"--"}) /\ Loops(b, f)
      BY <1>2
    <3> HIDE DEF b
    <3> QED
      BY <2>1, <3>1, LoopSteps
  <2>2. CASE k = n + 1
    <3>1. f[k] = [ok |-> TRUE, set |-> <<>>, positional |-> <<>>]
      BY <1>1, <2>0, <2>2 DEF LoopStep
    <3>2. ~IsRefused(args, n, k)
      <4>1. ~(k <= n) /\ k..n = {}
        BY <1>1, <2>2
      <4> QED
        BY <4>1 DEF IsRefused
    <3> QED
      BY <1>5, <2>2, <3>1, <3>2
  <2>3. CASE k \in 1..n
    <3> DEFINE a == args[k]
    <3>1. b[k] = a /\ a \in Argument \ {"--"} /\ k <= Len(b) /\ ~v[k]
      BY <1>1, <2>3
    <3>2. CASE a \in Words
      <4>1. f[k] = WithWord(a, f[k + 1])
        BY <2>0, <3>1, <3>2 DEF LoopStep
      <4>2. k + 1 \in (k + 1)..N /\ k + 1 \in 1..N
        BY <1>1, <2>3
      <4>3. a # TakesNext /\ a # Unknown /\ a # Alone
        BY <3>2, ArgumentKinds
      <4>4. k + 1 <= n => ~v[k + 1]
        <5> SUFFICES ASSUME k + 1 <= n PROVE ~v[k + 1]
          OBVIOUS
        <5>1. k + 1 \in 1..n /\ k + 1 - 1 = k
          BY <1>1, <2>3
        <5> QED
          BY <1>3, <4>3, <5>1
      <4>5. Means(k + 1)
        <5>1. k + 1 \in P
          BY <1>7, <4>2
        <5> HIDE DEF Means
        <5> QED
          BY <4>4, <5>1
      <4>6. IsRefused(args, n, k) <=> IsRefused(args, n, k + 1)
        <5>1. \A i \in k..(k + 1 - 1) : v[i] \/ args[i] # Unknown
          BY <1>1, <4>3
        <5>2. k + 1 = n + 1 => v[n] \/ args[n] # TakesNext
          BY <1>1, <2>3, <4>3
        <5> QED
          BY <1>6, <2>3, <4>2, <5>1, <5>2
      <4>7. settings[k] = settings[k + 1] /\ words[k] = <<a>> \o words[k + 1]
        <5>1. a \notin {TakesNext, Alone}
          BY <4>3
        <5> QED
          BY <1>4, <2>3, <3>1, <3>2, <5>1
      <4> HIDE DEF a, v, b
      <4>8. CASE IsRefused(args, n, k + 1)
        BY <4>1, <4>5, <4>6, <4>8, LinesMade DEF WithWord
      <4>9. CASE ~IsRefused(args, n, k + 1)
        <5>1. f[k + 1] = Comes(k + 1)
          BY <4>5, <4>9
        <5>2. f[k + 1].ok = TRUE /\ f[k + 1].set = settings[k + 1] /\ f[k + 1].positional = words[k + 1]
          BY <5>1
        <5> QED
          BY <4>1, <4>6, <4>7, <4>9, <5>2 DEF WithWord
      <4> QED
        BY <4>8, <4>9
    <3>3. CASE a = Alone
      <4>1. f[k] = WithSetting(<<Alone>>, f[k + 1])
        BY <2>0, <3>1, <3>3 DEF LoopStep
      <4>2. k + 1 \in (k + 1)..N /\ k + 1 \in 1..N
        BY <1>1, <2>3
      <4>3. a # TakesNext /\ a # Unknown /\ a \notin Words
        BY <3>3, ArgumentKinds
      <4>4. k + 1 <= n => ~v[k + 1]
        <5> SUFFICES ASSUME k + 1 <= n PROVE ~v[k + 1]
          OBVIOUS
        <5>1. k + 1 \in 1..n /\ k + 1 - 1 = k
          BY <1>1, <2>3
        <5> QED
          BY <1>3, <4>3, <5>1
      <4>5. Means(k + 1)
        <5>1. k + 1 \in P
          BY <1>7, <4>2
        <5> HIDE DEF Means
        <5> QED
          BY <4>4, <5>1
      <4>6. IsRefused(args, n, k) <=> IsRefused(args, n, k + 1)
        <5>1. \A i \in k..(k + 1 - 1) : v[i] \/ args[i] # Unknown
          BY <1>1, <4>3
        <5>2. k + 1 = n + 1 => v[n] \/ args[n] # TakesNext
          BY <1>1, <2>3, <4>3
        <5> QED
          BY <1>6, <2>3, <4>2, <5>1, <5>2
      <4>7. settings[k] = <<<<Alone>>>> \o settings[k + 1] /\ words[k] = words[k + 1]
        <5>1. a \in {TakesNext, Alone} /\ Setting(args, k) = <<Alone>>
          BY <3>3 DEF Setting
        <5> QED
          BY <1>4, <2>3, <3>1, <4>3, <5>1
      <4> HIDE DEF a, v, b
      <4>8. CASE IsRefused(args, n, k + 1)
        BY <4>1, <4>5, <4>6, <4>8, LinesMade DEF WithSetting
      <4>9. CASE ~IsRefused(args, n, k + 1)
        <5>1. f[k + 1] = Comes(k + 1)
          BY <4>5, <4>9
        <5>2. f[k + 1].ok = TRUE /\ f[k + 1].set = settings[k + 1] /\ f[k + 1].positional = words[k + 1]
          BY <5>1
        <5> QED
          BY <4>1, <4>6, <4>7, <4>9, <5>2 DEF WithSetting
      <4> QED
        BY <4>8, <4>9
    <3>4. CASE a = TakesNext /\ k # n
      <4> DEFINE next == args[k + 1]
      <4>0. k < Len(b) /\ k + 1 \in 1..n /\ k + 1 - 1 = k /\ k + 1 > 1 /\ b[k + 1] = next
        BY <1>1, <2>3, <3>4
      <4>1. f[k] = WithSetting(<<TakesNext, next>>, f[k + 2])
        <5>1. k < Len(b) /\ b[k] = TakesNext /\ b[k + 1] = next
          BY <3>1, <3>4, <4>0
        <5> HIDE DEF next, b
        <5> QED
          BY <2>0, <5>1 DEF LoopStep
      <4>2. k + 2 \in (k + 1)..N /\ k + 2 \in 1..N
        BY <1>1, <4>0
      <4>3. a # Alone /\ a # Unknown /\ a \notin Words
        BY <3>4, ArgumentKinds
      <4>4. v[k + 1]
        BY <1>3, <3>1, <3>4, <4>0
      <4>5. k + 2 <= n => ~v[k + 2]
        <5> SUFFICES ASSUME k + 2 <= n PROVE ~v[k + 2]
          OBVIOUS
        <5>1. k + 2 \in 1..n /\ k + 2 - 1 = k + 1
          BY <1>1, <2>3
        <5> QED
          BY <1>3, <4>4, <5>1
      <4>6. Means(k + 2)
        <5>1. k + 2 \in P
          BY <1>7, <4>2
        <5> HIDE DEF Means
        <5> QED
          BY <4>5, <5>1
      <4>7. IsRefused(args, n, k) <=> IsRefused(args, n, k + 2)
        <5>1. ASSUME NEW i \in k..(k + 2 - 1) PROVE v[i] \/ args[i] # Unknown
          <6>1. i = k \/ i = k + 1
            BY <1>1, <2>3
          <6> QED
            BY <4>3, <4>4, <6>1
        <5>2. k + 2 = n + 1 => v[n] \/ args[n] # TakesNext
          <6>1. k + 2 = n + 1 => n = k + 1
            BY <1>1, <2>3
          <6> QED
            BY <4>4, <6>1
        <5> QED
          BY <1>6, <2>3, <4>2, <5>1, <5>2
      <4>8. settings[k] = <<<<TakesNext, next>>>> \o settings[k + 2] /\ words[k] = words[k + 2]
        <5>1. a \in {TakesNext, Alone} /\ Setting(args, k) = <<TakesNext, next>>
          BY <3>4, <4>3 DEF Setting
        <5>2. settings[k] = <<<<TakesNext, next>>>> \o settings[k + 1] /\ words[k] = words[k + 1]
          BY <1>4, <2>3, <3>1, <4>3, <5>1
        <5>3. settings[k + 1] = settings[k + 2] /\ words[k + 1] = words[k + 2]
          <6>1. k + 1 + 1 = k + 2
            BY <1>1, <2>3
          <6> QED
            BY <1>4, <4>0, <4>4, <6>1
        <5> QED
          BY <5>2, <5>3
      <4> HIDE DEF a, v, b, next
      <4>9. CASE IsRefused(args, n, k + 2)
        BY <4>1, <4>6, <4>7, <4>9, LinesMade DEF WithSetting
      <4>10. CASE ~IsRefused(args, n, k + 2)
        <5>1. f[k + 2] = Comes(k + 2)
          BY <4>6, <4>10
        <5>2. f[k + 2].ok = TRUE /\ f[k + 2].set = settings[k + 2] /\ f[k + 2].positional = words[k + 2]
          BY <5>1
        <5> QED
          BY <4>1, <4>7, <4>8, <4>10, <5>2 DEF WithSetting
      <4> QED
        BY <4>9, <4>10
    <3>5. CASE a = Unknown \/ (a = TakesNext /\ k = n)
      <4>1. f[k] = Usage
        <5>1. k = n => k = Len(b)
          BY <1>1
        <5>2. k <= Len(b) /\ b[k] = a
          BY <3>1
        <5> HIDE DEF b, a
        <5> QED
          BY <2>0, <3>5, <5>1, <5>2 DEF LoopStep
      <4>2. IsRefused(args, n, k)
        <5>1. k \in k..n /\ k <= n
          BY <1>1, <2>3
        <5> QED
          BY <3>1, <3>5, <5>1 DEF IsRefused
      <4> QED
        BY <4>1, <4>2
    <3>6. a \in Words \/ a = Alone \/ a = TakesNext \/ a = Unknown
      BY <3>1, ArgumentKinds
    <3> QED
      BY <3>2, <3>3, <3>4, <3>5, <3>6
  <2> QED
    BY <1>1, <2>2, <2>3
<1>8. \A k \in 1..N : k \in P
  <2>1. N \in Nat
    BY <1>1
  <2> HIDE DEF N, P
  <2> QED
    BY <1>7, <2>1, FromTheEnd
<1>9. 1 \in P /\ (1 <= n => ~v[1])
  <2>1. 1 \in 1..N
    BY <1>1
  <2>2. 1 <= n => ~v[1]
    <3> SUFFICES ASSUME 1 <= n PROVE ~v[1]
      OBVIOUS
    <3>1. 1 \in 1..n
      BY <1>1
    <3> QED
      BY <1>3, <3>1
  <2> QED
    BY <1>8, <2>1, <2>2
<1>10. Means(1)
  <2> HIDE DEF Means
  <2> QED
    BY <1>9
<1> QED
  BY <1>10 DEF TakenFor

\* What is made of a line is what it means.
THEOREM LineMeans ==
  ASSUME NEW args \in Seq(Argument)
  PROVE  ParseCommandArgs(args) = Meant(args)
<1> DEFINE b == Cut(args).before
           stop == Stop(args)
           n == stop - 1
           literal == SubSeq(args, stop + 1, Len(args))
<1>1. /\ b \in Seq(Argument) /\ Len(b) = n /\ Cut(args).literal = literal
      /\ \A i \in 1..n : b[i] \in Argument \ {"--"}
      /\ stop \in 1..(Len(args) + 1)
  BY CutAtStop
<1>2. b \in Seq(Argument \ {"--"})
  <2>1. \A i \in 1..Len(b) : b[i] \in Argument \ {"--"}
    BY <1>1
  <2> HIDE DEF b
  <2> QED
    BY <1>1, <2>1, Narrowed
<1>3. PICK f : Loop(b) = f[1] /\ Loops(b, f)
  BY <1>2, LoopIsFrom DEF Loops
<1>4. PICK settings, words :
        /\ Meant(args) = Described(args, settings, words)
        /\ Lists(settings, n, Skipped(args, n, {TakesNext, Alone}), Settings(args, n))
        /\ Lists(words, n, Skipped(args, n, Words), args)
        /\ words[1] \in Seq(Argument)
  BY MeantIsDescribed
<1> DEFINE positional == words[1] \o literal
           refused == IsRefused(args, n, 1)
           made == [ok |-> TRUE, set |-> settings[1], positional |-> words[1]]
<1>5. f[1] = IF refused THEN Usage ELSE made
  <2>1. Listings(args, n, settings, words)
    BY <1>4 DEF Listings
  <2> HIDE DEF n
  <2>2. TakenFor(args, n, f, settings, words)
    BY <1>3, <2>1, LoopMeansTheLine
  <2> QED
    BY <2>2 DEF TakenFor, n
<1>6. Meant(args) = IF refused \/ positional = <<>> \/ positional[1] = "" THEN Usage
                    ELSE [ok |-> TRUE, set |-> settings[1], positional |-> positional]
  <2>1. stop > 1 <=> 1 <= n
    BY <1>1, LenProperties
  <2> QED
    BY <1>4, <2>1 DEF Described, IsRefused
<1>7. ParseCommandArgs(args) =
        IF ~f[1].ok \/ f[1].positional \o literal = <<>> \/ (f[1].positional \o literal)[1] = ""
        THEN Usage ELSE [f[1] EXCEPT !.positional = f[1].positional \o literal]
  <2> DEFINE x == Loop(Cut(args).before)
             y == Cut(args).literal
  <2>1. ParseCommandArgs(args) =
          IF ~x.ok \/ x.positional \o y = <<>> \/ (x.positional \o y)[1] = ""
          THEN Usage ELSE [x EXCEPT !.positional = x.positional \o y]
    BY DEF ParseCommandArgs
  <2>2. x = f[1] /\ y = literal
    BY <1>1, <1>3
  <2> HIDE DEF x, y
  <2> QED
    BY <2>1, <2>2
<1>8. CASE refused
  <2>1. ~f[1].ok
    BY <1>5, <1>8, LinesMade
  <2> QED
    BY <1>6, <1>7, <1>8, <2>1
<1>9. CASE ~refused
  <2> DEFINE w == words[1]
             s == settings[1]
  <2>1. f[1] = [ok |-> TRUE, set |-> s, positional |-> w]
    BY <1>5, <1>9
  <2> HIDE DEF w, s
  <2>2. f[1].ok = TRUE /\ f[1].positional = w
    BY <2>1
  <2>3. w \o literal = positional
    BY DEF w
  <2> HIDE DEF positional, refused, literal
  <2>4. [f[1] EXCEPT !.positional = positional] = [ok |-> TRUE, set |-> s, positional |-> positional]
    <3>1. \A x, y, z : [[ok |-> x, set |-> y, positional |-> z] EXCEPT !.positional = positional]
                         = [ok |-> x, set |-> y, positional |-> positional]
      OBVIOUS
    <3> DEFINE line == f[1]
    <3>2. line = [ok |-> TRUE, set |-> s, positional |-> w]
      BY <2>1
    <3> HIDE DEF line
    <3>3. [line EXCEPT !.positional = positional] = [ok |-> TRUE, set |-> s, positional |-> positional]
      BY <3>1, <3>2, Zenon
    <3> QED
      BY <3>3 DEF line
  <2>5. ParseCommandArgs(args) =
          IF positional = <<>> \/ positional[1] = "" THEN Usage
          ELSE [ok |-> TRUE, set |-> s, positional |-> positional]
    BY <1>7, <2>2, <2>3, <2>4
  <2> QED
    BY <1>6, <1>9, <2>5 DEF s
<1> QED
  BY <1>8, <1>9
==================================================================================
