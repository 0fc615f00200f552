---------------------------- MODULE NumberProofs ----------------------------
(***************************************************************************)
(* What the other proofs rest on: induction, recursive functions, finite   *)
(* sequences, and the numbers of Numbers with their units and digits.      *)
(*                                                                         *)
(* The library's induction theorems are about a predicate; Upward is about *)
(* a set of numbers, which a proof can define and hide.  A function defined *)
(* by recursion is one that satisfies its equation if there is any, which  *)
(* LoopExists says of every recursion from a number to the next.           *)
(***************************************************************************)
EXTENDS Numbers, SequenceTheorems, WellFoundedInduction, TLAPS

\* Induction: a set of numbers that is not empty has a least one, and one that
\* has 0 and with every number the next has them all.
LEMMA Least ==
  ASSUME NEW T \in SUBSET Nat, T # {}
  PROVE  \E n \in T : \A m \in T : n <= m
<1> DEFINE R == {ss \in Nat \X Nat : ss[1] < ss[2]}
<1>1. IsWellFoundedOn(R, Nat)
  BY NatLessThanWellFounded DEF OpToRel
<1>2. \A m, n \in Nat : <<m, n>> \in R <=> m < n
  OBVIOUS
<1> HIDE DEF R
<1>3. PICK n \in T : \A m \in T : ~(<<m, n>> \in R)
  BY <1>1, WFMin
<1>4. n \in Nat /\ \A m \in T : m \in Nat /\ ~(m < n)
  BY <1>2, <1>3
<1> QED BY <1>4

LEMMA Upward ==
  ASSUME NEW S \in SUBSET Nat, 0 \in S, \A n \in S : n + 1 \in S
  PROVE  S = Nat
<1> SUFFICES ASSUME Nat \ S # {} PROVE FALSE
  OBVIOUS
<1>1. PICK n \in Nat \ S : \A m \in Nat \ S : n <= m
  BY Least
<1>2. n # 0 /\ n - 1 \in Nat
  BY <1>1
<1>3. n - 1 \in S
  BY <1>1, <1>2
<1> QED BY <1>1, <1>2, <1>3

\* A loop of n rounds from a, each of which takes the value of the one before.
IsLoop(f, n, a, g) == f[0] = a /\ \A i \in 1 .. n : f[i] = g[i][f[i - 1]]

LEMMA LoopExists ==
  ASSUME NEW n \in Nat, NEW S, NEW a \in S, NEW g \in [1 .. n -> [S -> S]]
  PROVE  \E f \in [0 .. n -> S] : IsLoop(f, n, a, g)
<1> DEFINE T == {k \in Nat : k <= n => \E f \in [0 .. k -> S] : IsLoop(f, k, a, g)}
<1>1. 0 \in T
  <2> DEFINE f == [i \in 0 .. 0 |-> a]
  <2>1. f \in [0 .. 0 -> S] /\ IsLoop(f, 0, a, g)
    BY DEF IsLoop
  <2> QED BY <2>1
<1>2. ASSUME NEW k \in T PROVE k + 1 \in T
  <2> SUFFICES ASSUME k + 1 <= n PROVE \E f \in [0 .. k + 1 -> S] : IsLoop(f, k + 1, a, g)
    OBVIOUS
  <2>1. k \in Nat /\ k <= n /\ k + 1 \in 1 .. n
    OBVIOUS
  <2>2. PICK f \in [0 .. k -> S] : IsLoop(f, k, a, g)
    BY <2>1
  <2> DEFINE h == [i \in 0 .. k + 1 |-> IF i = k + 1 THEN g[k + 1][f[k]] ELSE f[i]]
  <2>3. f[k] \in S /\ g[k + 1] \in [S -> S]
    BY <2>1
  <2>4. g[k + 1][f[k]] \in S
    BY <2>3
  <2>5. h \in [0 .. k + 1 -> S]
    BY <2>1, <2>4
  <2>6. \A i \in 0 .. k : h[i] = f[i]
    BY <2>1
  <2>7. h[k + 1] = g[k + 1][f[k]]
    BY <2>1
  <2> HIDE DEF h
  <2>8. h[0] = a
    BY <2>1, <2>2, <2>6 DEF IsLoop
  <2>9. ASSUME NEW i \in 1 .. k + 1 PROVE h[i] = g[i][h[i - 1]]
    <3>1. CASE i = k + 1
      BY <2>1, <2>6, <2>7, <3>1
    <3>2. CASE i # k + 1
      <4>1. i \in 1 .. k /\ i \in 0 .. k /\ i - 1 \in 0 .. k
        BY <2>1, <3>2
      <4> QED BY <2>2, <2>6, <4>1 DEF IsLoop
    <3> QED BY <3>1, <3>2
  <2>10. IsLoop(h, k + 1, a, g)
    BY <2>8, <2>9 DEF IsLoop
  <2> QED BY <2>5, <2>10
<1> HIDE DEF T
<1>3. T = Nat
  <2>1. T \subseteq Nat
    BY DEF T
  <2> QED BY <1>1, <1>2, <2>1, Upward
<1> QED BY <1>3 DEF T

-----------------------------------------------------------------------------
(* Sequences.                                                               *)

\* A finite sequence, of whatever elements.
IsSeq(q) == Len(q) \in Nat /\ q = [i \in 1 .. Len(q) |-> q[i]]

LEMMA SeqIs ==
  ASSUME NEW q, IsSeq(q)
  PROVE  q \in Seq({q[i] : i \in 1 .. Len(q)}) /\ DOMAIN q = 1 .. Len(q)
<1> DEFINE n == Len(q)
           T == {q[i] : i \in 1 .. n}
<1>1. n \in Nat /\ q = [i \in 1 .. n |-> q[i]]
  BY DEF IsSeq
<1>2. \A i \in 1 .. n : q[i] \in T
  OBVIOUS
<1> HIDE DEF n, T
<1>3. q \in [1 .. n -> T]
  BY <1>1, <1>2
<1>4. q \in Seq(T) /\ DOMAIN q = 1 .. n
  BY <1>1, <1>3, SeqDef
<1> QED BY <1>4 DEF n, T

LEMMA AppendIs ==
  ASSUME NEW q, IsSeq(q), NEW m
  PROVE  /\ IsSeq(Append(q, m)) /\ Len(Append(q, m)) = Len(q) + 1
         /\ Append(q, m)[Len(q) + 1] = m
         /\ \A i \in 1 .. Len(q) : Append(q, m)[i] = q[i]
<1> DEFINE T == {q[i] : i \in 1 .. Len(q)} \cup {m}
           t == Append(q, m)
<1>1. q \in Seq({q[i] : i \in 1 .. Len(q)}) /\ Len(q) \in Nat
  BY SeqIs DEF IsSeq
<1>2. q \in Seq(T) /\ m \in T
  BY <1>1
<1> HIDE DEF T
<1>3. /\ t \in Seq(T) /\ Len(t) = Len(q) + 1 /\ t[Len(q) + 1] = m
      /\ \A i \in 1 .. Len(q) : t[i] = q[i]
  BY <1>2, AppendProperties
<1> HIDE DEF t
<1>4. t = [i \in 1 .. Len(t) |-> t[i]] /\ Len(t) \in Nat
  BY <1>3, LenProperties
<1>5. IsSeq(t)
  BY <1>4 DEF IsSeq
<1> QED BY <1>3, <1>5 DEF t

LEMMA TailIs ==
  ASSUME NEW q, IsSeq(q), q # <<>>
  PROVE  /\ IsSeq(Tail(q)) /\ Len(q) \in Nat \ {0} /\ Len(Tail(q)) = Len(q) - 1
         /\ Head(q) = q[1]
         /\ \A i \in 1 .. Len(q) - 1 : Tail(q)[i] = q[i + 1]
<1> DEFINE T == {q[i] : i \in 1 .. Len(q)}
           t == Tail(q)
<1>1. q \in Seq(T)
  BY SeqIs
<1> HIDE DEF T
<1>2. /\ t \in Seq(T) /\ Len(q) \in Nat \ {0} /\ Len(t) = Len(q) - 1
      /\ \A i \in 1 .. Len(q) - 1 : t[i] = q[i + 1]
  BY <1>1, HeadTailProperties, LenProperties, EmptySeq
<1> HIDE DEF t
<1>3. t = [i \in 1 .. Len(t) |-> t[i]] /\ Len(t) \in Nat
  BY <1>2, LenProperties
<1>4. Head(q) = q[1]
  BY <1>1
<1>5. IsSeq(t)
  BY <1>3 DEF IsSeq
<1> QED BY <1>2, <1>4, <1>5 DEF t

-----------------------------------------------------------------------------
(* The powers of ten.                                                       *)

\* The value of the recursive function Powers.
IsPowers(f) == f = [n \in 0 .. Scale |-> IF n = 0 THEN 1 ELSE 10 * f[n - 1]]

LEMMA PowersAre ==
  /\ Powers[0] = 1 /\ \A n \in 0 .. Scale : Powers[n] \in Nat \ {0}
  /\ \A n \in 1 .. Scale : Powers[n] = 10 * Powers[n - 1]
<1> DEFINE S == Nat \ {0}
           g == [i \in 1 .. Scale |-> [v \in S |-> 10 * v]]
<1>1. Scale \in Nat /\ 1 \in S /\ g \in [1 .. Scale -> [S -> S]]
  BY NumbersAssumption
<1>2. PICK f \in [0 .. Scale -> S] : IsLoop(f, Scale, 1, g)
  <2> HIDE DEF g, S
  <2> QED BY <1>1, LoopExists
<1>3. f[0] = 1 /\ \A i \in 1 .. Scale : f[i] = 10 * f[i - 1]
  <2>1. f[0] = 1 /\ \A i \in 1 .. Scale : f[i] = g[i][f[i - 1]]
    <3> HIDE DEF g
    <3> QED BY <1>2 DEF IsLoop
  <2>2. \A i \in 1 .. Scale : f[i - 1] \in S
    BY <1>1
  <2> QED BY <2>1, <2>2
<1>4. f = [n \in 0 .. Scale |-> IF n = 0 THEN 1 ELSE 10 * f[n - 1]]
  <2>1. f = [n \in 0 .. Scale |-> f[n]]
    OBVIOUS
  <2>2. \A n \in 0 .. Scale : f[n] = IF n = 0 THEN 1 ELSE 10 * f[n - 1]
    BY <1>1, <1>3
  <2> HIDE DEF g, S
  <2> QED BY <2>1, <2>2
<1>5. IsPowers(f)
  BY <1>4 DEF IsPowers
<1> DEFINE P == CHOOSE h : IsPowers(h)
<1>6. IsPowers(P)
  BY <1>5
<1>7. Powers = P
  BY DEF Powers, IsPowers
<1> HIDE DEF P
<1>8. IsPowers(Powers)
  BY <1>6, <1>7
<1>9. \A n \in 0 .. Scale : Powers[n] = IF n = 0 THEN 1 ELSE 10 * Powers[n - 1]
  BY <1>8 DEF IsPowers
<1>10. Powers[0] = 1 /\ \A n \in 1 .. Scale : Powers[n] = 10 * Powers[n - 1]
  BY <1>1, <1>9
<1> DEFINE T == {n \in Nat : n <= Scale => Powers[n] \in Nat \ {0}}
<1>11. 0 \in T
  BY <1>10
<1>12. ASSUME NEW n \in T PROVE n + 1 \in T
  <2> SUFFICES ASSUME n + 1 <= Scale PROVE Powers[n + 1] \in Nat \ {0}
    OBVIOUS
  <2>1. Powers[n] \in Nat \ {0} /\ n + 1 \in 1 .. Scale /\ (n + 1) - 1 = n
    BY <1>1
  <2> QED BY <1>10, <2>1
<1> HIDE DEF T
<1>13. T = Nat
  <2>1. T \subseteq Nat
    BY DEF T
  <2> QED BY <1>11, <1>12, <2>1, Upward
<1>14. \A n \in 0 .. Scale : Powers[n] \in Nat \ {0}
  BY <1>1, <1>13 DEF T
<1> QED BY <1>10, <1>14

LEMMA UnitIs ==
  ASSUME NEW p \in 0 .. Scale
  PROVE  Unit(p) \in Nat \ {0}
<1>1. Scale - p \in 0 .. Scale
  BY NumbersAssumption
<1> QED BY <1>1, PowersAre DEF Unit

\* What is a multiple of the unit is printed in full, and so is zero.
LEMMA CutIs ==
  ASSUME NEW p \in 0 .. Scale
  PROVE  /\ 0 % Unit(p) = 0
         /\ \A d \in Nat : d % Unit(p) = 0 => Cut(d, p) = d
<1> DEFINE u == Unit(p)
<1>1. u \in Nat \ {0}
  BY UnitIs
<1> HIDE DEF u
<1>2. 0 % u = 0
  BY <1>1
<1>3. \A d \in Nat : d % u = 0 => (d \div u) * u = d
  BY <1>1, Z3
<1> QED BY <1>2, <1>3 DEF Cut, u

-----------------------------------------------------------------------------
(* The digits of a number.                                                  *)

\* The values of the recursive function Digits, up to n and for all numbers.
IsDigits(f, n) == f = [k \in 0 .. n |-> IF k = 0 THEN <<>> ELSE Append(f[k \div 10], k % 10)]
AreDigits(f) == f = [k \in Nat |-> IF k = 0 THEN <<>> ELSE Append(f[k \div 10], k % 10)]

LEMMA Tenth ==
  ASSUME NEW n \in Nat \ {0}
  PROVE  n \div 10 \in Nat /\ n \div 10 < n /\ n % 10 \in 0 .. 9 /\ n = 10 * (n \div 10) + (n % 10)
OBVIOUS

LEMMA DigitsExist ==
  ASSUME NEW n \in Nat
  PROVE  \E f : IsDigits(f, n)
<1> DEFINE T == {k \in Nat : \E f : IsDigits(f, k)}
<1>1. 0 \in T
  <2>1. IsDigits([k \in 0 .. 0 |-> <<>>], 0)
    BY DEF IsDigits
  <2> QED BY <2>1
<1>2. ASSUME NEW k \in T PROVE k + 1 \in T
  <2>1. PICK f : IsDigits(f, k)
    OBVIOUS
  <2>2. k \in Nat
    OBVIOUS
  <2> DEFINE last == Append(f[(k + 1) \div 10], (k + 1) % 10)
             h == [i \in 0 .. k + 1 |-> IF i = k + 1 THEN last ELSE f[i]]
  <2>3. \A i \in 0 .. k : f[i] = IF i = 0 THEN <<>> ELSE Append(f[i \div 10], i % 10)
    BY <2>1 DEF IsDigits
  <2>4. \A i \in 0 .. k : h[i] = f[i]
    BY <2>2
  <2>5. h[k + 1] = last
    BY <2>2
  <2>6. h = [i \in 0 .. k + 1 |-> h[i]]
    OBVIOUS
  <2>7. \A i \in 1 .. k + 1 : i \div 10 \in 0 .. k
    <3> SUFFICES ASSUME NEW i \in 1 .. k + 1 PROVE i \div 10 \in 0 .. k
      OBVIOUS
    <3>1. i \in Nat \ {0} /\ i <= k + 1
      BY <2>2
    <3> QED BY <2>2, <3>1, Tenth
  <2> HIDE DEF h
  <2>8. ASSUME NEW i \in 0 .. k + 1
        PROVE  h[i] = IF i = 0 THEN <<>> ELSE Append(h[i \div 10], i % 10)
    <3>1. CASE i = k + 1
      <4>1. i # 0 /\ i \in 1 .. k + 1
        BY <2>2, <3>1
      <4>2. h[i \div 10] = f[i \div 10]
        BY <2>4, <2>7, <4>1
      <4> QED BY <2>5, <3>1, <4>1, <4>2
    <3>2. CASE i = 0
      BY <2>2, <2>3, <2>4, <3>2
    <3>3. CASE i # 0 /\ i # k + 1
      <4>1. i \in 0 .. k /\ i \in 1 .. k + 1
        BY <2>2, <3>3
      <4>2. h[i] = f[i] /\ h[i \div 10] = f[i \div 10]
        BY <2>4, <2>7, <4>1
      <4> QED BY <2>3, <3>3, <4>1, <4>2
    <3> QED BY <3>1, <3>2, <3>3
  <2>9. IsDigits(h, k + 1)
    BY <2>6, <2>8 DEF IsDigits
  <2> QED BY <2>2, <2>9
<1> HIDE DEF T
<1>3. T = Nat
  <2>1. T \subseteq Nat
    BY DEF T
  <2> QED BY <1>1, <1>2, <2>1, Upward
<1> QED BY <1>3 DEF T

LEMMA DigitsUnique ==
  ASSUME NEW m \in Nat, NEW n \in Nat, NEW f, NEW h, IsDigits(f, m), IsDigits(h, n),
         NEW k \in Nat, k <= m, k <= n
  PROVE  f[k] = h[k]
<1> DEFINE T == {i \in Nat : i <= m /\ i <= n /\ f[i] # h[i]}
<1> SUFFICES ASSUME T # {} PROVE FALSE
  OBVIOUS
<1>1. PICK i \in T : \A j \in T : i <= j
  <2>1. T \in SUBSET Nat
    OBVIOUS
  <2> HIDE DEF T
  <2> QED BY <2>1, Least
<1>2. /\ f[i] = IF i = 0 THEN <<>> ELSE Append(f[i \div 10], i % 10)
      /\ h[i] = IF i = 0 THEN <<>> ELSE Append(h[i \div 10], i % 10)
  <2>1. i \in 0 .. m /\ i \in 0 .. n
    BY <1>1
  <2> HIDE DEF T
  <2>2. f[i] = IF i = 0 THEN <<>> ELSE Append(f[i \div 10], i % 10)
    BY <2>1 DEF IsDigits
  <2>3. h[i] = IF i = 0 THEN <<>> ELSE Append(h[i \div 10], i % 10)
    BY <2>1 DEF IsDigits
  <2> QED BY <2>2, <2>3
<1>3. CASE i = 0
  BY <1>1, <1>2, <1>3
<1>4. CASE i # 0
  <2>1. i \in Nat \ {0} /\ i <= m /\ i <= n
    BY <1>1, <1>4
  <2>2. i \div 10 \in Nat /\ i \div 10 < i
    BY <2>1, Tenth
  <2>3. i \div 10 \notin T
    BY <1>1, <2>1, <2>2
  <2>4. f[i \div 10] = h[i \div 10]
    BY <2>1, <2>2, <2>3
  <2> QED BY <1>1, <1>2, <1>4, <2>4
<1> QED BY <1>3, <1>4

LEMMA DigitsAre ==
  /\ Digits[0] = <<>>
  /\ \A n \in Nat \ {0} : Digits[n] = Append(Digits[n \div 10], n % 10)
<1> DEFINE upTo(n) == CHOOSE f : IsDigits(f, n)
           D == [n \in Nat |-> upTo(n)[n]]
<1>1. \A n \in Nat : IsDigits(upTo(n), n)
  BY DigitsExist
<1> HIDE DEF upTo
<1>2. \A n \in Nat : upTo(n)[n] = IF n = 0 THEN <<>> ELSE Append(upTo(n)[n \div 10], n % 10)
  <2> SUFFICES ASSUME NEW n \in Nat
               PROVE  upTo(n)[n] = IF n = 0 THEN <<>> ELSE Append(upTo(n)[n \div 10], n % 10)
    OBVIOUS
  <2> DEFINE f == upTo(n)
  <2>1. IsDigits(f, n) /\ n \in 0 .. n
    BY <1>1
  <2> HIDE DEF f
  <2>2. f[n] = IF n = 0 THEN <<>> ELSE Append(f[n \div 10], n % 10)
    BY <2>1 DEF IsDigits
  <2> QED BY <2>2 DEF f
<1>3. ASSUME NEW n \in Nat
      PROVE  D[n] = IF n = 0 THEN <<>> ELSE Append(D[n \div 10], n % 10)
  <2>1. CASE n = 0
    BY <1>2, <2>1
  <2>2. CASE n # 0
    <3>1. n \div 10 \in Nat /\ n \div 10 <= n
      BY <2>2, Tenth
    <3>2. upTo(n)[n \div 10] = upTo(n \div 10)[n \div 10]
      BY <1>1, <3>1, DigitsUnique
    <3>3. D[n] = upTo(n)[n] /\ D[n \div 10] = upTo(n \div 10)[n \div 10]
      BY <3>1
    <3> HIDE DEF D
    <3> QED BY <1>2, <2>2, <3>2, <3>3
  <2> QED BY <2>1, <2>2
<1>4. D = [n \in Nat |-> D[n]]
  OBVIOUS
<1> HIDE DEF D
<1>5. AreDigits(D)
  BY <1>3, <1>4 DEF AreDigits
<1> DEFINE E == CHOOSE f : AreDigits(f)
<1>6. AreDigits(E)
  BY <1>5
<1>7. Digits = E
  BY DEF Digits, AreDigits
<1> HIDE DEF E
<1>8. AreDigits(Digits)
  BY <1>6, <1>7
<1> QED BY <1>8 DEF AreDigits

LEMMA DigitsType == \A n \in Nat : Digits[n] \in Seq(0 .. 9)
<1> DEFINE T == {n \in Nat : Digits[n] \notin Seq(0 .. 9)}
<1> SUFFICES ASSUME T # {} PROVE FALSE
  OBVIOUS
<1>1. PICK n \in T : \A m \in T : n <= m
  <2>1. T \in SUBSET Nat
    OBVIOUS
  <2> HIDE DEF T
  <2> QED BY <2>1, Least
<1>2. n # 0 /\ n \in Nat
  <2>1. Digits[0] \in Seq(0 .. 9)
    BY DigitsAre, EmptySeq
  <2> QED BY <1>1, <2>1
<1>3. /\ n \div 10 \in Nat /\ n \div 10 < n /\ n % 10 \in 0 .. 9
      /\ Digits[n] = Append(Digits[n \div 10], n % 10)
  BY <1>2, Tenth, DigitsAre
<1>4. Digits[n \div 10] \in Seq(0 .. 9)
  BY <1>1, <1>2, <1>3
<1>5. Digits[n] \in Seq(0 .. 9)
  BY <1>3, <1>4, AppendProperties
<1> QED BY <1>1, <1>5

\* One more digit behind a number.
LEMMA DigitsGrow ==
  ASSUME NEW v \in Nat, NEW d \in 0 .. 9
  PROVE  /\ Digits[10 * v + d] = IF v = 0 /\ d = 0 THEN <<>> ELSE Append(Digits[v], d)
         /\ Digits[v] = <<>> <=> v = 0
<1>1. (10 * v + d) \div 10 = v /\ (10 * v + d) % 10 = d
  OBVIOUS
<1>2. 10 * v + d \in Nat /\ (10 * v + d = 0 <=> v = 0 /\ d = 0)
  OBVIOUS
<1>3. Digits[10 * v + d] = IF v = 0 /\ d = 0 THEN <<>> ELSE Append(Digits[v], d)
  BY <1>1, <1>2, DigitsAre
<1>4. ASSUME v # 0 PROVE Digits[v] # <<>>
  <2>1. Digits[v] = Append(Digits[v \div 10], v % 10)
    BY <1>4, DigitsAre
  <2>2. Digits[v \div 10] \in Seq(0 .. 9) /\ v % 10 \in 0 .. 9
    BY <1>4, Tenth, DigitsType
  <2>3. Digits[v] \in Seq(0 .. 9) /\ Len(Digits[v]) = Len(Digits[v \div 10]) + 1
        /\ Len(Digits[v \div 10]) \in Nat
    BY <2>1, <2>2, AppendProperties, LenProperties
  <2> QED BY <2>3
<1> QED BY <1>3, <1>4, DigitsAre
=============================================================================
