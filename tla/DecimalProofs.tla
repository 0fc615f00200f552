--------------------------- MODULE DecimalProofs ---------------------------
(***************************************************************************)
(* Proofs about Decimal: objects agree with the numbers of their texts.    *)
(*                                                                         *)
(* A number is read from a string of digits, h of them before the point    *)
(* and zeros behind Scale more (Reads).  A view shows such a string        *)
(* (Shows), a buffer holds it (Holds), a text is written from it (IsText). *)
(* An object stands for n if its buffer holds a string n is read from      *)
(* (Stands); what the constructor makes of a text does, copies do, and so  *)
(* does an object str_view has written to.  Comparing, feeding and         *)
(* printing are about Stands alone, each by an induction along the loop of *)
(* the code.                                                               *)
(***************************************************************************)
EXTENDS Decimal, NumberProofs

Char == 0 .. 12
Ends == 2 * MaxChars

\* A string of digits.
Strings == [1 .. Ends -> 0 .. 9]

\* The number read after each number of digits.
IsRead(r, x) ==
  r \in [0 .. Ends -> Nat] /\ r[0] = 0 /\ \A i \in 1 .. Ends : r[i] = 10 * r[i - 1] + x[i]

Read(x) == CHOOSE r : IsRead(r, x)

\* Strings are longer than any view.
LEMMA EndsIs == Ends \in Nat /\ MaxChars \in Nat /\ MaxChars <= Ends
BY DecimalAssumption DEF Ends

\* Reading exists: a loop of any length has a value at each step.
LEMMA ReadIs ==
  ASSUME NEW x \in Strings
  PROVE  /\ Read(x) \in [0 .. Ends -> Nat] /\ Read(x)[0] = 0
         /\ \A i \in 1 .. Ends : Read(x)[i] = 10 * Read(x)[i - 1] + x[i]
<1> DEFINE g == [i \in 1 .. Ends |-> [v \in Nat |-> 10 * v + x[i]]]
<1>1. Ends \in Nat
  BY EndsIs
<1>2. \A i \in 1 .. Ends : x[i] \in 0 .. 9
  BY DEF Strings
<1>3. g \in [1 .. Ends -> [Nat -> Nat]]
  BY <1>2
<1>4. PICK r \in [0 .. Ends -> Nat] : IsLoop(r, Ends, 0, g)
  <2> HIDE DEF g
  <2> QED BY <1>1, <1>3, LoopExists
<1>5. r[0] = 0 /\ \A i \in 1 .. Ends : r[i] = g[i][r[i - 1]]
  <2> HIDE DEF g
  <2> QED BY <1>4 DEF IsLoop
<1>6. \A i \in 1 .. Ends : r[i - 1] \in Nat
  BY <1>1
<1>7. IsRead(r, x)
  BY <1>5, <1>6 DEF IsRead
<1>8. IsRead(Read(x), x)
  BY <1>7 DEF Read
<1> QED BY <1>8 DEF IsRead

\* A view of these digits, the first h of them its integer part.  The digits it
\* does not show are zeros.
Shows(view, x, h) ==
  /\ view \in Seq(Char) /\ Len(view) <= MaxChars /\ h \in 1 .. Len(view)
  /\ \A i \in 1 .. h : view[i] = x[i]
  /\ Len(view) > h => view[h + 1] = Point
  /\ \A i \in h + 2 .. Len(view) : view[i] = x[i - 1]
  /\ \A i \in 1 .. Ends : i > h /\ i >= Len(view) => x[i] = 0

\* The point is behind the integer part, or behind the view.
LEMMA ShowsPoint ==
  ASSUME NEW x \in Strings, NEW view, NEW h, Shows(view, x, h)
  PROVE  PointAt(view) = h + 1 /\ (HasPoint(view) <=> Len(view) > h)
<1>1. /\ view \in Seq(Char) /\ Len(view) \in Nat /\ DOMAIN view = 1 .. Len(view)
      /\ h \in 1 .. Len(view) /\ Len(view) <= MaxChars
  BY LenProperties DEF Shows
<1> DEFINE n == Len(view)
<1> HIDE DEF n
<1>2. n \in Nat /\ h \in 1 .. n /\ n <= Ends /\ Ends \in Nat
  BY <1>1, EndsIs DEF n
<1>3. ASSUME NEW i \in 1 .. Len(view), i # h + 1 PROVE view[i] # Point
  <2>1. CASE i <= h
    <3>1. view[i] = x[i]
      BY <2>1 DEF Shows
    <3>2. i \in 1 .. Ends
      BY <1>2 DEF n
    <3>3. x[i] \in 0 .. 9
      BY <3>2 DEF Strings
    <3> QED BY <3>1, <3>3 DEF Point
  <2>2. CASE i > h
    <3>1. i \in h + 2 .. Len(view) /\ i - 1 \in 1 .. Ends
      BY <1>2, <1>3, <2>2 DEF n
    <3>2. view[i] = x[i - 1]
      BY <3>1 DEF Shows
    <3>3. x[i - 1] \in 0 .. 9
      BY <3>1 DEF Strings
    <3> QED BY <3>2, <3>3 DEF Point
  <2> QED BY <1>1, <2>1, <2>2
<1>4. Len(view) > h => view[h + 1] = Point /\ h + 1 \in 1 .. Len(view)
  BY <1>1 DEF Shows
<1>5. HasPoint(view) <=> \E i \in 1 .. Len(view) : view[i] = Point
  BY <1>1 DEF HasPoint, Range
<1>6. HasPoint(view) <=> Len(view) > h
  BY <1>1, <1>3, <1>4, <1>5
<1>7. CASE Len(view) > h
  BY <1>1, <1>3, <1>4, <1>6, <1>7 DEF PointAt
<1>8. CASE ~(Len(view) > h)
  BY <1>1, <1>6, <1>8 DEF PointAt
<1> QED BY <1>6, <1>7, <1>8

\* int_part and frac_part (include/decimal.hpp:161) are the digits on either side of it.
LEMMA ShowsParts ==
  ASSUME NEW x \in Strings, NEW view, NEW h, Shows(view, x, h)
  PROVE  /\ IntPart(view) \in Seq(Char) /\ Len(IntPart(view)) = h
         /\ \A i \in 1 .. h : IntPart(view)[i] = x[i]
         /\ FracPart(view) \in Seq(Char)
         /\ Len(FracPart(view)) = IF Len(view) > h THEN Len(view) - h - 1 ELSE 0
         /\ \A i \in 1 .. Len(FracPart(view)) : FracPart(view)[i] = x[h + i]
<1> DEFINE n == Len(view)
<1>1. /\ view \in Seq(Char) /\ n \in Nat /\ \A i \in 1 .. n : view[i] \in Char
      /\ h \in 1 .. n
  BY LenProperties DEF Shows
<1>2. PointAt(view) = h + 1
  BY ShowsPoint
<1>3. IntPart(view) = SubSeq(view, 1, h) /\ FracPart(view) = SubSeq(view, h + 2, n)
  BY <1>1, <1>2 DEF IntPart, FracPart
<1>4. /\ \A i \in 1 .. h : view[i] \in Char /\ view[i] = x[i]
      /\ \A i \in h + 2 .. n : view[i] \in Char /\ view[i] = x[i - 1]
  BY <1>1 DEF Shows
<1> HIDE DEF n
<1>5. /\ SubSeq(view, 1, h) \in Seq(Char) /\ Len(SubSeq(view, 1, h)) = h
      /\ \A i \in 1 .. h : SubSeq(view, 1, h)[i] = view[i]
  BY <1>1, <1>4, SubSeqProperties
<1>6. /\ SubSeq(view, h + 2, n) \in Seq(Char)
      /\ Len(SubSeq(view, h + 2, n)) = IF n > h THEN n - h - 1 ELSE 0
      /\ \A i \in 1 .. n - h - 1 : SubSeq(view, h + 2, n)[i] = view[h + 1 + i]
  BY <1>1, <1>4, SubSeqProperties
<1>7. \A i \in 1 .. h : IntPart(view)[i] = x[i]
  BY <1>3, <1>4, <1>5
<1>8. ASSUME NEW i \in 1 .. Len(FracPart(view)) PROVE FracPart(view)[i] = x[h + i]
  <2>1. i \in 1 .. n - h - 1
    BY <1>1, <1>3, <1>6
  <2>2. h + 1 + i \in h + 2 .. n /\ (h + 1 + i) - 1 = h + i
    BY <1>1, <2>1
  <2>3. view[h + 1 + i] = x[(h + 1 + i) - 1]
    BY <1>4, <2>2
  <2> QED BY <1>3, <1>6, <2>1, <2>2, <2>3
<1> QED BY <1>3, <1>5, <1>6, <1>7, <1>8 DEF n

-----------------------------------------------------------------------------
(* Numbers read from strings.                                               *)

\* What is read like a string from one of its places on, nothing but zeros before it.
ReadsFrom(f, n, y, z) ==
  /\ Read(y)[z] = 0 /\ f[0] = 0 /\ \A i \in 1 .. n : f[i] = 10 * f[i - 1] + y[z + i]

\* What is read like a string from z on reads like it.
LEMMA Along ==
  ASSUME NEW y \in Strings, NEW z \in Nat, NEW n \in Nat, z + n <= Ends,
         NEW f, ReadsFrom(f, n, y, z)
  PROVE  \A i \in 0 .. n : f[i] = Read(y)[z + i]
<1> DEFINE T == {k \in Nat : k <= n => f[k] = Read(y)[z + k]}
<1>1. 0 \in T
  BY DEF ReadsFrom
<1>2. ASSUME NEW k \in T PROVE k + 1 \in T
  <2> SUFFICES ASSUME k + 1 <= n PROVE f[k + 1] = Read(y)[z + (k + 1)]
    OBVIOUS
  <2>1. k \in Nat /\ k + 1 \in 1 .. n /\ (k + 1) - 1 = k /\ f[k] = Read(y)[z + k]
    OBVIOUS
  <2>2. z + (k + 1) \in 1 .. Ends /\ (z + (k + 1)) - 1 = z + k
    BY <2>1, EndsIs
  <2>3. Read(y)[z + (k + 1)] = 10 * Read(y)[(z + (k + 1)) - 1] + y[z + (k + 1)]
    BY <2>2, ReadIs
  <2>4. f[k + 1] = 10 * f[(k + 1) - 1] + y[z + (k + 1)]
    BY <2>1 DEF ReadsFrom
  <2> QED BY <2>1, <2>2, <2>3, <2>4
<1> HIDE DEF T
<1>3. T = Nat
  <2>1. T \subseteq Nat
    BY DEF T
  <2> QED BY <1>1, <1>2, <2>1, Upward
<1> QED BY <1>3 DEF T

\* k digits more.
LEMMA ReadMore ==
  ASSUME NEW x \in Strings, NEW h \in Nat, NEW k \in 0 .. Scale, h + k <= Ends
  PROVE  /\ Read(x)[h] \in Nat /\ Read(x)[h + k] \in Nat
         /\ Read(x)[h] * Powers[k] <= Read(x)[h + k]
         /\ Read(x)[h + k] < Read(x)[h] * Powers[k] + Powers[k]
         /\ (\A i \in h + 1 .. h + k : x[i] = 0) => Read(x)[h + k] = Read(x)[h] * Powers[k]
<1> DEFINE r == Read(x)
           More(j) == /\ r[h] * Powers[j] <= r[h + j] /\ r[h + j] < r[h] * Powers[j] + Powers[j]
                      /\ (\A i \in h + 1 .. h + j : x[i] = 0) => r[h + j] = r[h] * Powers[j]
           T == {j \in Nat : j <= k => More(j)}
<1>1. /\ Ends \in Nat /\ Scale \in Nat /\ k \in Nat /\ k <= Scale
      /\ r \in [0 .. Ends -> Nat] /\ \A i \in 1 .. Ends : r[i] = 10 * r[i - 1] + x[i]
      /\ \A i \in 1 .. Ends : x[i] \in 0 .. 9
  <2>1. \A i \in 1 .. Ends : x[i] \in 0 .. 9
    BY DEF Strings
  <2> QED BY <2>1, EndsIs, NumbersAssumption, ReadIs
<1>2. \A j \in 0 .. k : h + j \in 0 .. Ends /\ r[h + j] \in Nat
  BY <1>1
<1>3. r[h] \in Nat
  BY <1>1
<1> HIDE DEF r
<1>4. 0 \in T
  <2>1. Powers[0] = 1 /\ h + 0 = h
    BY PowersAre
  <2> QED BY <1>3, <2>1
<1>5. ASSUME NEW j \in T PROVE j + 1 \in T
  <2> SUFFICES ASSUME j + 1 <= k PROVE More(j + 1)
    OBVIOUS
  <2>1. j \in Nat /\ j \in 0 .. k /\ More(j)
    OBVIOUS
  <2>2. h + (j + 1) \in 1 .. Ends /\ (h + (j + 1)) - 1 = h + j
    BY <1>1, <2>1
  <2>3. r[h + (j + 1)] = 10 * r[h + j] + x[h + (j + 1)] /\ x[h + (j + 1)] \in 0 .. 9
    BY <1>1, <2>2
  <2>4. j + 1 \in 1 .. Scale /\ (j + 1) - 1 = j /\ j \in 0 .. Scale
    BY <1>1, <2>1
  <2>5. Powers[j + 1] = 10 * Powers[j] /\ Powers[j] \in Nat \ {0}
    BY <2>4, PowersAre
  <2> DEFINE a == r[h]
             q == Powers[j]
             b == r[h + j]
             d == x[h + (j + 1)]
  <2>6. a \in Nat /\ q \in Nat /\ b \in Nat /\ d \in 0 .. 9 /\ a * q <= b /\ b < a * q + q
    BY <1>2, <1>3, <2>1, <2>3, <2>5
  <2>7. r[h + (j + 1)] = 10 * b + d /\ Powers[j + 1] = 10 * q
    BY <2>3, <2>5
  <2>8. (\A i \in h + 1 .. h + (j + 1) : x[i] = 0) => d = 0 /\ b = a * q
    <3> SUFFICES ASSUME \A i \in h + 1 .. h + (j + 1) : x[i] = 0 PROVE d = 0 /\ b = a * q
      OBVIOUS
    <3>1. \A i \in h + 1 .. h + j : i \in h + 1 .. h + (j + 1)
      BY <2>1
    <3>2. h + (j + 1) \in h + 1 .. h + (j + 1)
      BY <2>1
    <3> QED BY <2>1, <3>1, <3>2
  <2>9. a * (10 * q) = 10 * (a * q) /\ a * q \in Nat
    <3> HIDE DEF a, q
    <3> QED BY <2>6, Z3
  <2> DEFINE m == a * q
  <2>10. m \in Nat /\ m <= b /\ b < m + q /\ a * Powers[j + 1] = 10 * m
    BY <2>6, <2>7, <2>9
  <2>11. r[h] * Powers[j + 1] = 10 * m
    BY <2>10
  <2>12. b = a * q <=> b = m
    OBVIOUS
  <2> HIDE DEF a, q, b, d, m
  <2> QED BY <2>6, <2>7, <2>8, <2>10, <2>11, <2>12
<1> HIDE DEF T
<1>6. T = Nat
  <2>1. T \subseteq Nat
    BY DEF T
  <2> QED BY <1>4, <1>5, <2>1, Upward
<1>7. More(k)
  <2>1. k \in T
    BY <1>1, <1>6
  <2> QED BY <1>1, <2>1 DEF T
<1> QED BY <1>1, <1>2, <1>3, <1>7 DEF r

\* The quotient between two multiples.
LEMMA DivIs ==
  ASSUME NEW n \in Nat, NEW u \in Nat \ {0}, NEW q \in Nat, q * u <= n, n < q * u + u
  PROVE  n \div u = q /\ n % u = n - q * u
<1>1. n \div u = q
  BY Z3
<1>2. n = u * (n \div u) + (n % u)
  BY Z3
<1> QED BY <1>1, <1>2, Z3

\* The number n in units of 10^-Scale, read from a string with h digits before the point.
Reads(x, h, n) ==
  /\ x \in Strings /\ h \in Nat \ {0} /\ h + 1 + Scale <= MaxChars
  /\ \A i \in 1 .. Ends : i > h + Scale => x[i] = 0
  /\ n = Read(x)[h + Scale]

\* The types of a number that is read.
LEMMA ReadsIn ==
  ASSUME NEW x, NEW h, NEW n, Reads(x, h, n)
  PROVE  /\ x \in Strings /\ h \in Nat \ {0} /\ Scale \in Nat /\ MaxChars \in Nat
         /\ h + 1 + Scale <= MaxChars /\ Ends = 2 * MaxChars
         /\ \A i \in 1 .. Ends : x[i] \in 0 .. 9
         /\ Read(x) \in [0 .. Ends -> Nat] /\ n \in Nat /\ n = Read(x)[h + Scale]
<1>1. /\ x \in Strings /\ h \in Nat \ {0} /\ Scale \in Nat /\ MaxChars \in Nat
      /\ h + 1 + Scale <= MaxChars /\ Ends = 2 * MaxChars /\ n = Read(x)[h + Scale]
  BY EndsIs, NumbersAssumption DEF Reads, Ends
<1>2. \A i \in 1 .. Ends : x[i] \in 0 .. 9
  BY <1>1 DEF Strings
<1>3. Read(x) \in [0 .. Ends -> Nat]
  BY <1>1, ReadIs
<1>4. h + Scale \in 0 .. Ends
  BY <1>1
<1> QED BY <1>1, <1>2, <1>3, <1>4

\* Its digits up to a precision are those of the string.
LEMMA ReadsUnits ==
  ASSUME NEW x, NEW h, NEW n, Reads(x, h, n), NEW p \in 0 .. Scale
  PROVE  /\ Read(x)[h + p] \in Nat /\ Unit(p) \in Nat \ {0}
         /\ n \div Unit(p) = Read(x)[h + p]
         /\ n % Unit(p) = n - Read(x)[h + p] * Unit(p)
         /\ Cut(n, p) = Read(x)[h + p] * Unit(p)
         /\ Cut(n, p) \in Nat /\ Cut(n, p) <= n
<1>1. Unit(p) \in Nat \ {0}
  BY UnitIs
<1>2. /\ h + p \in Nat /\ Scale - p \in 0 .. Scale /\ (h + p) + (Scale - p) <= Ends
      /\ (h + p) + (Scale - p) = h + Scale
  BY ReadsIn
<1>3. /\ x \in Strings /\ n \in Nat /\ n = Read(x)[h + Scale]
  BY ReadsIn
<1> DEFINE a == Read(x)[h + p]
           u == Unit(p)
<1>4. a \in Nat /\ a * u <= n /\ n < a * u + u
  BY <1>2, <1>3, ReadMore DEF Unit
<1> HIDE DEF a, u
<1>5. n \div u = a /\ n % u = n - a * u
  BY <1>1, <1>3, <1>4, DivIs DEF u
<1>6. a * u \in Nat
  BY <1>1, <1>4 DEF u
<1> QED BY <1>1, <1>4, <1>5, <1>6 DEF Cut, a, u

\* What fits is read by to_int as it is.
LEMMA FitsReads ==
  ASSUME NEW x, NEW h, NEW n, Reads(x, h, n), Fits(n)
  PROVE  /\ Read(x)[h] \in Nat /\ Read(x)[h] % Wrap = Read(x)[h]
         /\ Read(x)[h] = n \div Unit(0) /\ Unit(0) \in Nat \ {0}
<1>1. 0 \in 0 .. Scale /\ h + 0 = h
  BY ReadsIn
<1>2. Read(x)[h] \in Nat /\ n \div Unit(0) = Read(x)[h] /\ Unit(0) \in Nat \ {0}
  BY <1>1, ReadsUnits
<1>3. Read(x)[h] < Wrap /\ Wrap \in Nat \ {0}
  BY <1>2, DecimalAssumption DEF Fits
<1>4. \A v, w \in Nat : v < w => v % w = v
  OBVIOUS
<1> QED BY <1>2, <1>3, <1>4

-----------------------------------------------------------------------------
(* The loops of to_int, operator<=> and process.                            *)

\* The value of the recursive function in Value.
IsValue(f, s) == f = [i \in 0 .. Len(s) |-> IF i = 0 THEN 0 ELSE 10 * f[i - 1] + s[i]]

\* The loop of to_int has a value.
LEMMA ValueIs ==
  ASSUME NEW s, Len(s) \in Nat, \A i \in 1 .. Len(s) : s[i] \in 0 .. 9
  PROVE  \E f : IsValue(f, s) /\ Value(s) = f[Len(s)]
<1> DEFINE n == Len(s)
           g == [i \in 1 .. n |-> [v \in Nat |-> 10 * v + s[i]]]
<1>1. n \in Nat /\ g \in [1 .. n -> [Nat -> Nat]]
  OBVIOUS
<1>2. PICK f \in [0 .. n -> Nat] : IsLoop(f, n, 0, g)
  <2> HIDE DEF g, n
  <2> QED BY <1>1, LoopExists
<1>3. f[0] = 0 /\ \A i \in 1 .. n : f[i] = 10 * f[i - 1] + s[i]
  <2>1. f[0] = 0 /\ \A i \in 1 .. n : f[i] = g[i][f[i - 1]]
    <3> HIDE DEF g, n
    <3> QED BY <1>2 DEF IsLoop
  <2>2. \A i \in 1 .. n : f[i - 1] \in Nat
    BY <1>1
  <2> QED BY <2>1, <2>2
<1>4. f = [i \in 0 .. n |-> IF i = 0 THEN 0 ELSE 10 * f[i - 1] + s[i]]
  <2>1. f = [i \in 0 .. n |-> f[i]]
    OBVIOUS
  <2>2. \A i \in 0 .. n : f[i] = IF i = 0 THEN 0 ELSE 10 * f[i - 1] + s[i]
    BY <1>1, <1>3
  <2> HIDE DEF g, n
  <2> QED BY <2>1, <2>2
<1>5. IsValue(f, s)
  BY <1>4 DEF IsValue
<1> DEFINE c == CHOOSE h : IsValue(h, s)
<1>6. IsValue(c, s)
  BY <1>5
<1>7. Value(s) = c[Len(s)]
  BY DEF Value, IsValue
<1> HIDE DEF c
<1> QED BY <1>6, <1>7

\* Digits that stand in a string behind zeros.
LEMMA ValueRead ==
  ASSUME NEW y \in Strings, NEW z \in Nat, Read(y)[z] = 0,
         NEW s, Len(s) \in Nat, z + Len(s) <= Ends, \A i \in 1 .. Len(s) : s[i] = y[z + i]
  PROVE  Value(s) = Read(y)[z + Len(s)]
<1> DEFINE n == Len(s)
<1>1. \A i \in 1 .. n : z + i \in 1 .. Ends
  BY EndsIs
<1>2. \A i \in 1 .. n : s[i] \in 0 .. 9
  BY <1>1 DEF Strings
<1>3. PICK f : IsValue(f, s) /\ Value(s) = f[n]
  BY <1>2, ValueIs
<1>4. \A i \in 0 .. n : f[i] = IF i = 0 THEN 0 ELSE 10 * f[i - 1] + s[i]
  BY <1>3 DEF IsValue
<1>5. f[0] = 0
  BY <1>4
<1>6. \A i \in 1 .. n : f[i] = 10 * f[i - 1] + y[z + i]
  BY <1>4
<1> HIDE DEF n
<1>7. n \in Nat /\ z + n <= Ends
  BY DEF n
<1>8. ReadsFrom(f, n, y, z)
  BY <1>5, <1>6 DEF ReadsFrom
<1>9. \A i \in 0 .. n : f[i] = Read(y)[z + i]
  BY <1>7, <1>8, Along
<1> QED BY <1>3, <1>7, <1>9 DEF n

\* The value of the recursive function in Compare.
Longer(d, e) ==
  IF Len(FracPart(View(d))) > Len(FracPart(View(e)))
  THEN Len(FracPart(View(d))) ELSE Len(FracPart(View(e)))

IsResult(f, d, e) ==
  f = [i \in 0 .. Longer(d, e) |->
         IF i = 0 THEN Sign(ToInt(IntPart(View(d))), ToInt(IntPart(View(e))))
         ELSE IF f[i - 1] # 0 THEN f[i - 1]
         ELSE Sign(DigitAt(FracPart(View(d)), i), DigitAt(FracPart(View(e)), i))]

\* The loop of operator<=> has a value.
LEMMA CompareIs ==
  ASSUME NEW d, NEW e, Longer(d, e) \in Nat,
         ToInt(IntPart(View(d))) \in Nat, ToInt(IntPart(View(e))) \in Nat,
         \A i \in 1 .. Longer(d, e) : /\ DigitAt(FracPart(View(d)), i) \in 0 .. 9
                                      /\ DigitAt(FracPart(View(e)), i) \in 0 .. 9
  PROVE  \E f : IsResult(f, d, e) /\ Compare(d, e) = f[Longer(d, e)]
<1> DEFINE n == Longer(d, e)
           S == {-1, 0, 1}
           a == Sign(ToInt(IntPart(View(d))), ToInt(IntPart(View(e))))
           b(i) == Sign(DigitAt(FracPart(View(d)), i), DigitAt(FracPart(View(e)), i))
           g == [i \in 1 .. n |-> [v \in S |-> IF v # 0 THEN v ELSE b(i)]]
<1>1. n \in Nat /\ a \in S /\ \A i \in 1 .. n : b(i) \in S
  BY DEF Sign
<1> HIDE DEF n, S, a, b
<1>2. g \in [1 .. n -> [S -> S]]
  BY <1>1 DEF S
<1>4. PICK f \in [0 .. n -> S] : IsLoop(f, n, a, g)
  <2> HIDE DEF g
  <2> QED BY <1>1, <1>2, LoopExists
<1>5. f[0] = a /\ \A i \in 1 .. n : f[i] = IF f[i - 1] # 0 THEN f[i - 1] ELSE b(i)
  <2>1. f[0] = a /\ \A i \in 1 .. n : f[i] = g[i][f[i - 1]]
    <3> HIDE DEF g
    <3> QED BY <1>4 DEF IsLoop
  <2>2. \A i \in 1 .. n : f[i - 1] \in S
    BY <1>1
  <2> QED BY <2>1, <2>2
<1>6. f = [i \in 0 .. n |-> IF i = 0 THEN a ELSE IF f[i - 1] # 0 THEN f[i - 1] ELSE b(i)]
  <2>1. f = [i \in 0 .. n |-> f[i]]
    OBVIOUS
  <2>2. \A i \in 0 .. n : f[i] = IF i = 0 THEN a ELSE IF f[i - 1] # 0 THEN f[i - 1] ELSE b(i)
    BY <1>1, <1>5
  <2> HIDE DEF g
  <2> QED BY <2>1, <2>2
<1>7. IsResult(f, d, e)
  BY <1>6 DEF IsResult, n, a, b
<1> DEFINE c == CHOOSE h : IsResult(h, d, e)
<1>8. IsResult(c, d, e)
  BY <1>7
<1>9. Compare(d, e) = c[Longer(d, e)]
  BY Zenon DEF Compare, IsResult, Longer
<1> HIDE DEF c
<1> QED BY <1>8, <1>9

\* The digits of a fraction are those of the string, shown or not.
HasDigits(frac, x, h) ==
  \A k \in 1 .. MaxChars :
    /\ h + k \in 1 .. Ends /\ x[h + k] \in 0 .. 9 /\ DigitAt(frac, k) = x[h + k]
    /\ k > Len(frac) => x[h + k] = 0

\* Behind the fraction that is shown there are only zeros.
LEMMA ShowsDigits ==
  ASSUME NEW x \in Strings, NEW view, NEW h, Shows(view, x, h)
  PROVE  Len(FracPart(view)) \in 0 .. MaxChars /\ HasDigits(FracPart(view), x, h)
<1> DEFINE n == Len(view)
           l == Len(FracPart(view))
<1>1. /\ n \in Nat /\ n <= MaxChars /\ h \in 1 .. n /\ MaxChars \in Nat /\ Ends = 2 * MaxChars
  BY LenProperties, EndsIs DEF Shows, Ends
<1>2. l = (IF n > h THEN n - h - 1 ELSE 0) /\ \A i \in 1 .. l : FracPart(view)[i] = x[h + i]
  BY ShowsParts
<1>3. \A i \in 1 .. Ends : i > h /\ i >= n => x[i] = 0
  BY DEF Shows
<1> HIDE DEF n, l
<1>4. l \in 0 .. MaxChars
  BY <1>1, <1>2
<1>5. ASSUME NEW k \in 1 .. MaxChars
      PROVE  /\ h + k \in 1 .. Ends /\ x[h + k] \in 0 .. 9
             /\ DigitAt(FracPart(view), k) = x[h + k] /\ (k > l => x[h + k] = 0)
  <2>1. h + k \in 1 .. Ends
    BY <1>1
  <2>2. x[h + k] \in 0 .. 9
    BY <2>1 DEF Strings
  <2>3. CASE k <= l
    <3>1. k \in 1 .. l
      BY <1>4, <2>3
    <3> QED BY <1>2, <1>4, <2>1, <2>2, <2>3, <3>1 DEF DigitAt, l
  <2>4. CASE k > l
    <3>1. h + k > h /\ h + k >= n
      BY <1>1, <1>2, <2>4
    <3>2. x[h + k] = 0
      BY <1>3, <2>1, <3>1
    <3> QED BY <1>4, <2>1, <2>2, <2>4, <3>2 DEF DigitAt, Zero, l
  <2> QED BY <1>4, <2>3, <2>4
<1> QED BY <1>4, <1>5 DEF HasDigits, l

\* The integer part is read as it is.
LEMMA ShowsInt ==
  ASSUME NEW x, NEW view, NEW h, NEW n, Reads(x, h, n), Shows(view, x, h)
  PROVE  /\ Value(IntPart(view)) = Read(x)[h]
         /\ ToInt(IntPart(view)) = Read(x)[h] % Wrap /\ ToInt(IntPart(view)) \in Nat
         /\ Fits(n) => ToInt(IntPart(view)) = Read(x)[h]
<1>1. /\ x \in Strings /\ h \in Nat /\ 0 + h <= Ends /\ Read(x)[0] = 0 /\ Read(x)[h] \in Nat
  BY ReadsIn, ReadIs
<1>2. /\ Len(IntPart(view)) = h /\ \A i \in 1 .. h : IntPart(view)[i] = x[0 + i]
  BY <1>1, ShowsParts
<1>3. Value(IntPart(view)) = Read(x)[0 + h]
  BY <1>1, <1>2, ValueRead
<1>4. Value(IntPart(view)) = Read(x)[h]
  BY <1>1, <1>3
<1>5. Wrap \in Nat \ {0}
  BY DecimalAssumption
<1>6. Read(x)[h] % Wrap \in Nat
  BY <1>1, <1>5
<1>7. Fits(n) => Read(x)[h] % Wrap = Read(x)[h]
  BY FitsReads
<1> QED BY <1>4, <1>6, <1>7 DEF ToInt

-----------------------------------------------------------------------------
(* operator<=> compares numbers.                                            *)

\* Digits that are zeros on both sides do not matter.
Quiet(x, h, a, b) == \A i \in a + 1 .. b : x[h + i] = 0

\* Digits that are zeros on both sides do not change how two numbers compare.
LEMMA SignStays ==
  ASSUME NEW x \in Strings, NEW y \in Strings, NEW h \in Nat, NEW u \in Nat,
         NEW a \in Nat, NEW b \in Nat, a <= b, h + b <= Ends, u + b <= Ends,
         Quiet(x, h, a, b), Quiet(y, u, a, b)
  PROVE  Sign(Read(x)[h + b], Read(y)[u + b]) = Sign(Read(x)[h + a], Read(y)[u + a])
<1> DEFINE r == Read(x)
           s == Read(y)
           sign(i) == Sign(r[h + i], s[u + i])
           T == {k \in Nat : a + k <= b => sign(a + k) = sign(a)}
<1>1. Ends \in Nat /\ r \in [0 .. Ends -> Nat] /\ s \in [0 .. Ends -> Nat]
  BY EndsIs, ReadIs
<1>2. /\ \A i \in 1 .. Ends : r[i] = 10 * r[i - 1] + x[i]
      /\ \A i \in 1 .. Ends : s[i] = 10 * s[i - 1] + y[i]
  BY ReadIs
<1> HIDE DEF r, s
<1>3. 0 \in T
  OBVIOUS
<1>4. ASSUME NEW k \in T PROVE k + 1 \in T
  <2> SUFFICES ASSUME a + (k + 1) <= b PROVE sign(a + (k + 1)) = sign(a)
    OBVIOUS
  <2> DEFINE i == a + (k + 1)
             v == h + i
             w == u + i
  <2>1. /\ k \in Nat /\ a + k <= b /\ a + k = i - 1 /\ i \in a + 1 .. b
        /\ v \in 1 .. Ends /\ w \in 1 .. Ends /\ v - 1 = h + (a + k) /\ w - 1 = u + (a + k)
    BY <1>1
  <2>2. x[v] = 0 /\ y[w] = 0
    BY <2>1 DEF Quiet
  <2>3. r[v] = 10 * r[v - 1] + x[v] /\ s[w] = 10 * s[w - 1] + y[w]
    BY <1>2, <2>1
  <2>4. r[v - 1] \in Nat /\ s[w - 1] \in Nat
    BY <1>1, <2>1
  <2>5. Sign(r[v], s[w]) = Sign(r[v - 1], s[w - 1])
    BY <2>2, <2>3, <2>4 DEF Sign
  <2>6. sign(a + k) = sign(a)
    BY <2>1
  <2> HIDE DEF T
  <2>7. sign(i) = Sign(r[v], s[w]) /\ sign(a + k) = Sign(r[v - 1], s[w - 1])
    BY <2>1
  <2> QED BY <2>5, <2>6, <2>7
<1> HIDE DEF T
<1>5. T = Nat
  <2>1. T \subseteq Nat
    BY DEF T
  <2> QED BY <1>3, <1>4, <2>1, Upward
<1>6. b - a \in T /\ a + (b - a) = b
  BY <1>5
<1>7. sign(b) = sign(a)
  BY <1>6 DEF T
<1> QED BY <1>7 DEF r, s

\* operator<=> compares two views as the numbers they show, digit by digit, by
\* induction along its loop: while the digits are equal, so are the numbers they read as.
LEMMA CompareShown ==
  ASSUME NEW d, NEW x, NEW h, NEW n, Shows(View(d), x, h), Reads(x, h, n), Fits(n),
         NEW e, NEW y, NEW u, NEW m, Shows(View(e), y, u), Reads(y, u, m), Fits(m)
  PROVE  Compare(d, e) = Sign(n, m)
<1> DEFINE F == FracPart(View(d))
           G == FracPart(View(e))
           r == Read(x)
           s == Read(y)
           l == Longer(d, e)
<1>1. /\ x \in Strings /\ y \in Strings /\ h \in Nat /\ u \in Nat /\ Scale \in Nat
      /\ h + Scale <= MaxChars /\ u + Scale <= MaxChars /\ Ends = 2 * MaxChars /\ MaxChars \in Nat
  BY ReadsIn
<1>2. Len(F) \in 0 .. MaxChars /\ Len(G) \in 0 .. MaxChars
  BY <1>1, ShowsDigits
<1>3. l \in 0 .. MaxChars /\ Len(F) <= l /\ Len(G) <= l
  BY <1>2 DEF Longer
<1>4. \A k \in 1 .. MaxChars :
        /\ h + k \in 1 .. Ends /\ x[h + k] \in 0 .. 9 /\ DigitAt(F, k) = x[h + k]
        /\ k > Len(F) => x[h + k] = 0
  <2>1. HasDigits(FracPart(View(d)), x, h)
    BY <1>1, ShowsDigits
  <2> HIDE DEF F
  <2>2. HasDigits(F, x, h)
    BY <2>1 DEF F
  <2> QED BY <2>2 DEF HasDigits
<1>5. \A k \in 1 .. MaxChars :
        /\ u + k \in 1 .. Ends /\ y[u + k] \in 0 .. 9 /\ DigitAt(G, k) = y[u + k]
        /\ k > Len(G) => y[u + k] = 0
  <2>1. HasDigits(FracPart(View(e)), y, u)
    BY <1>1, ShowsDigits
  <2> HIDE DEF G
  <2>2. HasDigits(G, y, u)
    BY <2>1 DEF G
  <2> QED BY <2>2 DEF HasDigits
<1>6. ToInt(IntPart(View(d))) = r[h] /\ ToInt(IntPart(View(e))) = s[u]
      /\ ToInt(IntPart(View(d))) \in Nat /\ ToInt(IntPart(View(e))) \in Nat
  BY ShowsInt
<1>7. PICK f : IsResult(f, d, e) /\ Compare(d, e) = f[l]
  <2>1. \A i \in 1 .. l : DigitAt(F, i) \in 0 .. 9 /\ DigitAt(G, i) \in 0 .. 9
    <3> HIDE DEF F, G, l
    <3>1. \A i \in 1 .. l : i \in 1 .. MaxChars
      BY <1>1, <1>3
    <3> QED BY <1>4, <1>5, <3>1
  <2>2. l \in Nat
    BY <1>3
  <2> QED BY <1>6, <2>1, <2>2, CompareIs
<1>8. /\ r \in [0 .. Ends -> Nat] /\ s \in [0 .. Ends -> Nat]
      /\ \A i \in 1 .. Ends : r[i] = 10 * r[i - 1] + x[i]
      /\ \A i \in 1 .. Ends : s[i] = 10 * s[i - 1] + y[i]
  BY <1>1, ReadIs
<1>9. \A i \in 0 .. l : f[i] = IF i = 0 THEN Sign(r[h], s[u]) ELSE IF f[i - 1] # 0 THEN f[i - 1]
                               ELSE Sign(DigitAt(F, i), DigitAt(G, i))
  BY <1>6, <1>7 DEF IsResult
<1> HIDE DEF F, G, l, r, s
<1> DEFINE T == {k \in Nat : k <= l => f[k] = Sign(r[h + k], s[u + k])}
<1>10. 0 \in T
  <2>1. 0 \in 0 .. l /\ h + 0 = h /\ u + 0 = u
    BY <1>1, <1>3
  <2>2. f[0] = Sign(r[h], s[u])
    BY <1>9, <2>1
  <2> QED BY <2>1, <2>2
<1>11. ASSUME NEW k \in T PROVE k + 1 \in T
  <2> SUFFICES ASSUME k + 1 <= l PROVE f[k + 1] = Sign(r[h + (k + 1)], s[u + (k + 1)])
    OBVIOUS
  <2> DEFINE v == h + (k + 1)
             w == u + (k + 1)
             a == r[h + k]
             b == s[u + k]
  <2>1. k + 1 \in 0 .. l /\ k + 1 # 0 /\ (k + 1) - 1 = k /\ k + 1 \in 1 .. MaxChars
    BY <1>1, <1>3
  <2>2. f[k] = Sign(a, b)
    <3>1. k \in Nat /\ k <= l
      BY <1>3
    <3> QED BY <3>1
  <2>3. v \in 1 .. Ends /\ w \in 1 .. Ends /\ v - 1 = h + k /\ w - 1 = u + k
    BY <1>1, <2>1
  <2>4. r[v] = 10 * a + x[v] /\ s[w] = 10 * b + y[w] /\ a \in Nat /\ b \in Nat
    <3>1. r[v] = 10 * r[v - 1] + x[v] /\ s[w] = 10 * s[w - 1] + y[w]
      BY <1>8, <2>3
    <3>2. r[v - 1] \in Nat /\ s[w - 1] \in Nat
      <4>1. Ends \in Nat
        BY <1>1
      <4> HIDE DEF v, w
      <4>2. v - 1 \in 0 .. Ends /\ w - 1 \in 0 .. Ends
        BY <2>3, <4>1
      <4> QED BY <1>8, <4>2
    <3> QED BY <2>3, <3>1, <3>2
  <2>5. DigitAt(F, k + 1) = x[v] /\ DigitAt(G, k + 1) = y[w] /\ x[v] \in 0 .. 9 /\ y[w] \in 0 .. 9
    BY <1>4, <1>5, <2>1
  <2>6. f[k + 1] = IF f[(k + 1) - 1] # 0 THEN f[(k + 1) - 1]
                   ELSE Sign(DigitAt(F, k + 1), DigitAt(G, k + 1))
    BY <1>9, <2>1
  <2>7. f[k + 1] = IF Sign(a, b) # 0 THEN Sign(a, b) ELSE Sign(x[v], y[w])
    BY <2>1, <2>2, <2>5, <2>6
  <2> HIDE DEF v, w, a, b, T
  <2>8. Sign(r[v], s[w]) = IF Sign(a, b) # 0 THEN Sign(a, b) ELSE Sign(x[v], y[w])
    BY <2>4, <2>5 DEF Sign
  <2> QED BY <2>7, <2>8 DEF v, w
<1> HIDE DEF T
<1>12. T = Nat
  <2>1. T \subseteq Nat
    BY DEF T
  <2> QED BY <1>10, <1>11, <2>1, Upward
<1>13. f[l] = Sign(r[h + l], s[u + l])
  <2>1. l \in T /\ l <= l
    BY <1>3, <1>12
  <2> QED BY <2>1 DEF T
<1>14. Sign(r[h + l], s[u + l]) = Sign(r[h + Scale], s[u + Scale])
  <2>1. CASE l <= Scale
    <3>1. \A i \in l + 1 .. Scale : i \in 1 .. MaxChars /\ i > Len(F) /\ i > Len(G)
      BY <1>1, <1>2, <1>3, <2>1 DEF F, G
    <3>2. \A i \in l + 1 .. Scale : x[h + i] = 0 /\ y[u + i] = 0
      BY <1>4, <1>5, <3>1
    <3>3. l \in Nat /\ h + Scale <= Ends /\ u + Scale <= Ends
      BY <1>1, <1>3
    <3>4. Quiet(x, h, l, Scale) /\ Quiet(y, u, l, Scale)
      BY <3>2 DEF Quiet
    <3> QED BY <1>1, <2>1, <3>3, <3>4, SignStays DEF r, s
  <2>2. CASE Scale <= l
    <3>1. \A i \in Scale + 1 .. l : h + i \in 1 .. Ends /\ u + i \in 1 .. Ends
                                    /\ h + i > h + Scale /\ u + i > u + Scale
      BY <1>1, <1>3, <2>2
    <3>2. \A i \in Scale + 1 .. l : x[h + i] = 0 /\ y[u + i] = 0
      BY <3>1 DEF Reads
    <3>3. l \in Nat /\ h + l <= Ends /\ u + l <= Ends
      BY <1>1, <1>3
    <3>4. Quiet(x, h, Scale, l) /\ Quiet(y, u, Scale, l)
      BY <3>2 DEF Quiet
    <3> QED BY <1>1, <2>2, <3>3, <3>4, SignStays DEF r, s
  <2> QED BY <1>1, <1>3, <2>1, <2>2
<1>15. n = r[h + Scale] /\ m = s[u + Scale]
  BY ReadsIn DEF r, s
<1> QED BY <1>7, <1>13, <1>14, <1>15 DEF l

-----------------------------------------------------------------------------
(* Objects.                                                                 *)

Object == [chars : [1 .. MaxChars -> Char], size : Nat, own : BOOLEAN]

\* The buffer holds these digits, h of them before the point or before the place
\* where str_view writes it; the digits behind the object's view are zeros.
Holds(d, x, h) ==
  /\ d \in Object /\ d.size \in h .. MaxChars
  /\ \A i \in 1 .. h : d.chars[i] = x[i]
  /\ d.chars[h + 1] \in {Point, Zero} /\ (d.size > h => d.chars[h + 1] = Point)
  /\ \A i \in h + 2 .. MaxChars : d.chars[i] = x[i - 1]
  /\ \A i \in 1 .. Ends : i > h /\ i >= d.size => x[i] = 0

\* The view of a buffer that holds the digits shows them.
LEMMA HoldsShows ==
  ASSUME NEW x \in Strings, NEW h \in Nat \ {0}, h + 1 <= MaxChars, NEW d, Holds(d, x, h)
  PROVE  Shows(SubSeq(d.chars, 1, d.size), x, h)
<1> DEFINE c == d.chars
           n == d.size
           view == SubSeq(c, 1, n)
<1>1. /\ c \in [1 .. MaxChars -> Char] /\ n \in h .. MaxChars /\ n \in Nat
      /\ \A i \in 1 .. h : c[i] = x[i]
      /\ n > h => c[h + 1] = Point
      /\ \A i \in h + 2 .. MaxChars : c[i] = x[i - 1]
      /\ \A i \in 1 .. Ends : i > h /\ i >= n => x[i] = 0
  BY DEF Holds, Object
<1>2. MaxChars \in Nat
  BY EndsIs
<1> HIDE DEF c, n
<1>3. c \in Seq(Char) /\ Len(c) = MaxChars
  BY <1>1, <1>2, SeqDef, LenProperties
<1>4. /\ view \in Seq(Char) /\ Len(view) = n /\ \A i \in 1 .. n : view[i] = c[i]
  <2>1. \A i \in 1 .. n : c[i] \in Char
    BY <1>1, <1>2
  <2> QED BY <1>1, <1>2, <1>3, <2>1, SubSeqProperties
<1> HIDE DEF view
<1>5. h \in 1 .. n /\ n <= MaxChars
  BY <1>1, <1>2
<1>6. \A i \in 1 .. h : view[i] = x[i]
  BY <1>1, <1>4, <1>5
<1>7. n > h => view[h + 1] = Point
  BY <1>1, <1>4, <1>5
<1>8. \A i \in h + 2 .. n : view[i] = x[i - 1]
  <2>1. \A i \in h + 2 .. n : i \in 1 .. n /\ i \in h + 2 .. MaxChars
    BY <1>1, <1>2
  <2> QED BY <1>1, <1>4, <2>1
<1>9. Shows(view, x, h)
  BY <1>1, <1>4, <1>5, <1>6, <1>7, <1>8 DEF Shows
<1> QED BY <1>9 DEF view, c, n

\* The object of the number n, as long as it fits.
Stands(d, n) ==
  \E x, h : Reads(x, h, n) /\ Holds(d, x, h) /\ (d.own \/ n = 0)

\* Zeros read as zero.
LEMMA ZerosRead ==
  ASSUME NEW x \in Strings, NEW k \in 0 .. Ends, \A i \in 1 .. k : x[i] = 0
  PROVE  Read(x)[k] = 0
<1>1. Ends \in Nat
  BY EndsIs
<1>2. /\ Read(x)[0] = 0
      /\ \A i \in 1 .. Ends : Read(x)[i] = 10 * Read(x)[i - 1] + x[i]
  BY ReadIs
<1> DEFINE T == {j \in Nat : j <= k => Read(x)[j] = 0}
<1>3. 0 \in T
  BY <1>2
<1>4. ASSUME NEW j \in T PROVE j + 1 \in T
  <2> SUFFICES ASSUME j + 1 <= k PROVE Read(x)[j + 1] = 0
    OBVIOUS
  <2>1. j + 1 \in 1 .. Ends /\ j + 1 \in 1 .. k /\ (j + 1) - 1 = j /\ Read(x)[j] = 0
    BY <1>1
  <2>2. Read(x)[j + 1] = 10 * Read(x)[(j + 1) - 1] + x[j + 1] /\ x[j + 1] = 0
    BY <1>2, <2>1
  <2> QED BY <2>1, <2>2
<1> HIDE DEF T
<1>5. T = Nat
  <2>1. T \subseteq Nat
    BY DEF T
  <2> QED BY <1>3, <1>4, <2>1, Upward
<1>6. k \in T /\ k <= k
  BY <1>1, <1>5
<1> QED BY <1>6 DEF T

\* The static view of a zero.
NoDigits == [i \in 1 .. Ends |-> 0]

\* ... wherever the point is.
LEMMA NoDigitsRead ==
  ASSUME NEW h \in Nat \ {0}, h + 1 + Scale <= MaxChars
  PROVE  Reads(NoDigits, h, 0)
<1> DEFINE x == NoDigits
<1>1. x \in Strings /\ \A i \in 1 .. Ends : x[i] = 0
  BY DEF NoDigits, Strings
<1>2. Ends \in Nat /\ MaxChars \in Nat /\ MaxChars <= Ends /\ Scale \in Nat
  BY EndsIs, NumbersAssumption
<1> HIDE DEF x
<1>3. h + Scale \in 0 .. Ends /\ \A i \in 1 .. h + Scale : x[i] = 0
  BY <1>1, <1>2
<1>4. Read(x)[h + Scale] = 0
  BY <1>1, <1>3, ZerosRead
<1>5. \A i \in 1 .. Ends : i > h + Scale => x[i] = 0
  BY <1>1
<1>6. Reads(x, h, 0)
  BY <1>1, <1>4, <1>5 DEF Reads
<1> QED BY <1>6 DEF x

\* What an object shows reads as its number.
LEMMA StandsShows ==
  ASSUME NEW d, NEW n, Stands(d, n)
  PROVE  \E x, h : Reads(x, h, n) /\ Shows(View(d), x, h)
<1>1. PICK x, h : Reads(x, h, n) /\ Holds(d, x, h) /\ (d.own \/ n = 0)
  BY DEF Stands
<1>2. x \in Strings /\ h \in Nat \ {0} /\ h + 1 <= MaxChars
  BY <1>1, ReadsIn
<1>3. CASE d.own
  <2>1. View(d) = SubSeq(d.chars, 1, d.size)
    BY <1>3 DEF View
  <2> QED BY <1>1, <1>2, <2>1, HoldsShows
<1>4. CASE ~d.own
  <2>1. n = 0 /\ View(d) = <<0, 10, 0>>
    BY <1>1, <1>4 DEF View, Zero, Point
  <2>2. Reads(NoDigits, 1, 0)
    BY NoDigitsRead, DecimalAssumption, NumbersAssumption
  <2>3. MaxChars \in Nat /\ 4 <= MaxChars /\ Ends = 2 * MaxChars /\ \A i \in 1 .. Ends : NoDigits[i] = 0
    BY DecimalAssumption, NumbersAssumption DEF NoDigits, Ends
  <2>4. Shows(<<0, 10, 0>>, NoDigits, 1)
    <3> DEFINE view == <<0, 10, 0>>
    <3>1. view \in Seq(Char) /\ Len(view) = 3
      BY DEF Char
    <3>2. view[1] = 0 /\ view[2] = Point /\ view[3] = 0
      BY DEF Point
    <3> HIDE DEF view
    <3>3. (\A i \in 1 .. 1 : view[i] = NoDigits[i]) /\ \A i \in 1 + 2 .. 3 : view[i] = NoDigits[i - 1]
      <4>1. NoDigits[1] = 0 /\ NoDigits[2] = 0
        BY <2>3
      <4> QED BY <3>2, <4>1
    <3>4. Shows(view, NoDigits, 1)
      BY <2>3, <3>1, <3>2, <3>3 DEF Shows
    <3> QED BY <3>4 DEF view
  <2> QED BY <2>1, <2>2, <2>4
<1> QED BY <1>3, <1>4

\* operator<=> orders the objects of numbers as these.
LEMMA StandsCompare ==
  ASSUME NEW d, NEW n, Stands(d, n), Fits(n), NEW e, NEW m, Stands(e, m), Fits(m)
  PROVE  Compare(d, e) = Sign(n, m)
<1>1. PICK x, h : Reads(x, h, n) /\ Shows(View(d), x, h)
  BY StandsShows
<1>2. PICK y, u : Reads(y, u, m) /\ Shows(View(e), y, u)
  BY StandsShows
<1> QED BY <1>1, <1>2, CompareShown

-----------------------------------------------------------------------------
(* process feeds the digits of the number.                                  *)

\* str_view writes a point where the digits leave room for it.
LEMMA MarkedHolds ==
  ASSUME NEW x \in Strings, NEW h \in Nat \ {0}, h + 1 <= MaxChars, NEW d, Holds(d, x, h), d.own
  PROVE  /\ Holds(Marked(d), x, h) /\ Marked(d).chars[h + 1] = Point /\ Marked(d).own
         /\ PointAt(View(d)) = h + 1
<1> DEFINE view == View(d)
<1>1. Shows(view, x, h)
  BY HoldsShows DEF View
<1>2. PointAt(view) = h + 1 /\ (HasPoint(view) <=> Len(view) > h)
  BY <1>1, ShowsPoint
<1>3. d \in Object /\ d.size \in h .. MaxChars /\ MaxChars \in Nat
  BY EndsIs DEF Holds
<1>4. Len(view) = d.size
  <2>1. d.chars \in [1 .. MaxChars -> Char]
    BY <1>3 DEF Object
  <2>2. \A i \in 1 .. d.size : d.chars[i] \in Char
    BY <1>3, <2>1
  <2>3. d.chars \in Seq(Char)
    BY <1>3, <2>1, SeqDef
  <2>4. Len(SubSeq(d.chars, 1, d.size)) = d.size
    BY <1>3, <2>2, <2>3, SubSeqProperties
  <2> QED BY <2>4 DEF View
<1> HIDE DEF view
<1>5. CASE HasPoint(view)
  <2>1. Marked(d) = d
    BY <1>5 DEF Marked, view
  <2>2. d.chars[h + 1] = Point
    BY <1>2, <1>4, <1>5 DEF Holds
  <2> QED BY <1>2, <2>1, <2>2 DEF view
<1>6. CASE ~HasPoint(view)
  <2>1. d.size = h
    BY <1>2, <1>3, <1>4, <1>6
  <2>2. Marked(d) = [d EXCEPT !.chars[h + 1] = Point]
    BY <1>6, <2>1 DEF Marked, view
  <2> DEFINE c == [d.chars EXCEPT ![h + 1] = Point]
             m == Marked(d)
  <2>3. m.chars = c /\ m.size = d.size /\ m.own = d.own /\ m \in Object
    <3>1. d = [chars |-> d.chars, size |-> d.size, own |-> d.own]
          /\ d.chars \in [1 .. MaxChars -> Char] /\ d.size \in Nat /\ d.own \in BOOLEAN
      BY <1>3 DEF Object
    <3>2. c \in [1 .. MaxChars -> Char]
      BY <3>1 DEF Char, Point
    <3>3. m = [chars |-> c, size |-> d.size, own |-> d.own]
      BY <2>2, <3>1
    <3> HIDE DEF c, m
    <3> QED BY <3>1, <3>2, <3>3 DEF Object
  <2>4. h + 1 \in 1 .. MaxChars
    BY <1>3
  <2>5. c[h + 1] = Point /\ \A i \in 1 .. MaxChars : i # h + 1 => c[i] = d.chars[i]
    BY <1>3, <2>4 DEF Object
  <2> HIDE DEF c, m
  <2>6. \A i \in 1 .. h : c[i] = x[i]
    <3>1. \A i \in 1 .. h : i \in 1 .. MaxChars /\ i # h + 1
      BY <1>3
    <3> QED BY <2>5, <3>1 DEF Holds
  <2>7. \A i \in h + 2 .. MaxChars : c[i] = x[i - 1]
    <3>1. \A i \in h + 2 .. MaxChars : i \in 1 .. MaxChars /\ i # h + 1
      BY <1>3
    <3> QED BY <2>5, <3>1 DEF Holds
  <2>8. m.size \in h .. MaxChars /\ ~(m.size > h)
    BY <1>3, <2>1, <2>3
  <2>9. \A i \in 1 .. Ends : i > h /\ i >= m.size => x[i] = 0
    BY <2>3 DEF Holds
  <2>10. Holds(m, x, h)
    BY <2>3, <2>5, <2>6, <2>7, <2>8, <2>9 DEF Holds
  <2> QED BY <1>2, <2>3, <2>5, <2>10 DEF m, view
<1> QED BY <1>5, <1>6

\* What str_view gives: the digits up to the precision, whatever the view shows.
LEMMA StrViewIs ==
  ASSUME NEW x \in Strings, NEW h \in Nat \ {0}, NEW d, Holds(d, x, h), d.own,
         NEW p \in Nat, h + 1 + p <= MaxChars
  PROVE  /\ StrView(d, p) \in Seq(Char) /\ Len(StrView(d, p)) = h + 1 + p
         /\ \A i \in 1 .. h : StrView(d, p)[i] = x[i]
         /\ StrView(d, p)[h + 1] = Point
         /\ \A i \in h + 2 .. h + 1 + p : StrView(d, p)[i] = x[i - 1]
<1> DEFINE c == Marked(d).chars
           n == h + 1 + p
           s == StrView(d, p)
<1>1. h + 1 <= MaxChars /\ MaxChars \in Nat /\ n \in Nat /\ n <= MaxChars
  BY EndsIs
<1>2. Holds(Marked(d), x, h) /\ c[h + 1] = Point /\ PointAt(View(d)) = h + 1
  BY <1>1, MarkedHolds
<1>3. s = SubSeq(c, 1, n)
  BY <1>2 DEF StrView
<1>4. c \in [1 .. MaxChars -> Char] /\ (\A i \in 1 .. h : c[i] = x[i])
      /\ \A i \in h + 2 .. MaxChars : c[i] = x[i - 1]
  BY <1>2 DEF Holds, Object
<1> HIDE DEF c, s
<1>5. c \in Seq(Char)
  BY <1>1, <1>4, SeqDef
<1>6. \A i \in 1 .. n : c[i] \in Char
  BY <1>1, <1>4
<1>7. s \in Seq(Char) /\ Len(s) = n /\ \A i \in 1 .. n : s[i] = c[i]
  BY <1>1, <1>3, <1>5, <1>6, SubSeqProperties
<1>8. \A i \in 1 .. h : s[i] = x[i]
  BY <1>1, <1>4, <1>7
<1>9. s[h + 1] = Point
  BY <1>1, <1>2, <1>7
<1>10. \A i \in h + 2 .. n : s[i] = x[i - 1]
  <2>1. \A i \in h + 2 .. n : i \in 1 .. n /\ i \in h + 2 .. MaxChars
    BY <1>1
  <2> QED BY <1>4, <1>7, <2>1
<1> QED BY <1>7, <1>8, <1>9, <1>10 DEF s

FeedState == [fed : Seq(0 .. 9), trailing : BOOLEAN, count : Nat]

\* The types of the state of process' loop.
LEMMA FeedCharIs ==
  ASSUME NEW acc \in FeedState, NEW ch \in Char, NEW p
  PROVE  FeedChar(acc, ch, p) \in FeedState
<1> DEFINE k == IF acc.trailing /\ acc.fed # <<>> THEN acc.count + 1 ELSE acc.count
<1>1. /\ acc = [fed |-> acc.fed, trailing |-> acc.trailing, count |-> acc.count]
      /\ acc.fed \in Seq(0 .. 9) /\ acc.trailing \in BOOLEAN /\ acc.count \in Nat
  BY DEF FeedState
<1>2. k \in Nat
  BY <1>1
<1> HIDE DEF k
<1>3. CASE IsDigit(ch)
  <2>1. Append(acc.fed, ch) \in Seq(0 .. 9)
    BY <1>1, <1>3, AppendProperties DEF IsDigit
  <2>2. [acc EXCEPT !.fed = Append(@, ch), !.count = k] \in FeedState
    <3> DEFINE s == Append(acc.fed, ch)
    <3>1. s \in Seq(0 .. 9)
      BY <2>1
    <3> HIDE DEF s
    <3>2. [acc EXCEPT !.fed = s, !.count = k] \in FeedState
      BY <1>2, <3>1 DEF FeedState
    <3> QED BY <3>2 DEF s
  <2>4. [acc EXCEPT !.trailing = @ \/ ch = Point] \in FeedState
    BY <1>1 DEF FeedState
  <2> QED BY <2>2, <2>4 DEF FeedChar, k
<1>4. CASE ~IsDigit(ch)
  BY <1>1, <1>4 DEF FeedChar, FeedState
<1> QED BY <1>3, <1>4

\* The value of the recursive function in Process.
IsFed(f, d, p) ==
  f = [i \in 0 .. Len(StrView(d, p)) |->
         IF i = 0 THEN [fed |-> <<>>, trailing |-> FALSE, count |-> 0]
         ELSE FeedChar(f[i - 1], StrView(d, p)[i], p)]

\* The loop of process has a value.
LEMMA ProcessIs ==
  ASSUME NEW d, NEW p, StrView(d, p) \in Seq(Char)
  PROVE  \E f : IsFed(f, d, p) /\ Process(d, p) = f[Len(StrView(d, p))].fed
<1> DEFINE n == Len(StrView(d, p))
           a == [fed |-> <<>>, trailing |-> FALSE, count |-> 0]
           ch(i) == StrView(d, p)[i]
           g == [i \in 1 .. n |-> [v \in FeedState |-> FeedChar(v, ch(i), p)]]
<1>1. n \in Nat /\ \A i \in 1 .. n : ch(i) \in Char
  BY LenProperties
<1>2. a \in FeedState
  BY EmptySeq DEF FeedState
<1> HIDE DEF n, a, ch
<1>3. g \in [1 .. n -> [FeedState -> FeedState]]
  BY <1>1, FeedCharIs
<1>4. PICK f \in [0 .. n -> FeedState] : IsLoop(f, n, a, g)
  <2> HIDE DEF g
  <2> QED BY <1>1, <1>2, <1>3, LoopExists
<1>5. f[0] = a /\ \A i \in 1 .. n : f[i] = FeedChar(f[i - 1], ch(i), p)
  <2>1. f[0] = a /\ \A i \in 1 .. n : f[i] = g[i][f[i - 1]]
    <3> HIDE DEF g
    <3> QED BY <1>4 DEF IsLoop
  <2>2. \A i \in 1 .. n : f[i - 1] \in FeedState
    BY <1>1
  <2> QED BY <2>1, <2>2
<1>6. f = [i \in 0 .. n |-> IF i = 0 THEN a ELSE FeedChar(f[i - 1], ch(i), p)]
  <2>1. f = [i \in 0 .. n |-> f[i]]
    OBVIOUS
  <2>2. \A i \in 0 .. n : f[i] = IF i = 0 THEN a ELSE FeedChar(f[i - 1], ch(i), p)
    BY <1>1, <1>5
  <2> HIDE DEF g
  <2> QED BY <2>1, <2>2
<1>7. IsFed(f, d, p)
  BY <1>6 DEF IsFed, n, a, ch
<1> DEFINE c == CHOOSE h : IsFed(h, d, p)
<1>8. IsFed(c, d, p)
  BY <1>7
<1>9. Process(d, p) = c[Len(StrView(d, p))].fed
  BY Zenon DEF Process, IsFed
<1> HIDE DEF c
<1> QED BY <1>8, <1>9

FedTo(acc, v) == acc \in FeedState /\ acc.fed = Digits[v]

\* A digit extends the digits fed by what it adds to the number, and nothing if it is
\* a zero in front.
LEMMA FeedDigit ==
  ASSUME NEW acc, NEW v \in Nat, FedTo(acc, v), NEW ch \in 0 .. 9, NEW p \in Nat,
         acc.trailing => acc.count < p
  PROVE  /\ FedTo(FeedChar(acc, ch, p), 10 * v + ch)
         /\ FeedChar(acc, ch, p).trailing = acc.trailing
         /\ acc.trailing => FeedChar(acc, ch, p).count <= acc.count + 1
         /\ ~acc.trailing => FeedChar(acc, ch, p).count = acc.count
<1>1. /\ acc \in FeedState /\ acc.fed = Digits[v] /\ acc.trailing \in BOOLEAN /\ acc.count \in Nat
      /\ acc.fed \in Seq(0 .. 9)
  BY DEF FedTo, FeedState
<1>2. FeedChar(acc, ch, p) \in FeedState
  BY <1>1, FeedCharIs DEF Char
<1>3. Digits[v] = <<>> <=> v = 0
  BY DigitsGrow
<1>4. Digits[10 * v + ch] = IF v = 0 /\ ch = 0 THEN <<>> ELSE Append(Digits[v], ch)
  BY DigitsGrow
<1>5. ~(acc.trailing /\ acc.count >= p) /\ IsDigit(ch) /\ ch # Point
  BY <1>1 DEF IsDigit, Point
<1>6. CASE v = 0 /\ ch = 0
  <2>1. FeedChar(acc, ch, p) = [acc EXCEPT !.trailing = acc.trailing \/ ch = Point]
    BY <1>1, <1>3, <1>5, <1>6 DEF FeedChar, Zero
  <2>2. (acc.trailing \/ ch = Point) = acc.trailing
    BY <1>1, <1>5
  <2>3. FeedChar(acc, ch, p) = [acc EXCEPT !.trailing = acc.trailing]
    BY <2>1, <2>2
  <2>4. /\ FeedChar(acc, ch, p).fed = acc.fed /\ FeedChar(acc, ch, p).trailing = acc.trailing
        /\ FeedChar(acc, ch, p).count = acc.count
    BY <1>1, <2>3 DEF FeedState
  <2> QED BY <1>1, <1>2, <1>3, <1>4, <1>6, <2>4 DEF FedTo
<1>7. CASE ~(v = 0 /\ ch = 0)
  <2> DEFINE s == Append(acc.fed, ch)
             k == IF acc.trailing /\ acc.fed # <<>> THEN acc.count + 1 ELSE acc.count
  <2>1. FeedChar(acc, ch, p) = [acc EXCEPT !.fed = s, !.count = k]
    BY <1>1, <1>3, <1>5, <1>7 DEF FeedChar, Zero
  <2>2. k \in Nat /\ k <= acc.count + 1 /\ (~acc.trailing => k = acc.count)
    BY <1>1
  <2>3. s = Digits[10 * v + ch]
    BY <1>1, <1>4, <1>7
  <2> HIDE DEF s, k
  <2>4. /\ FeedChar(acc, ch, p).fed = s /\ FeedChar(acc, ch, p).trailing = acc.trailing
        /\ FeedChar(acc, ch, p).count = k
    BY <1>1, <2>1 DEF FeedState
  <2> QED BY <1>2, <2>2, <2>3, <2>4 DEF FedTo
<1> QED BY <1>6, <1>7

\* The point feeds nothing.
LEMMA FeedPoint ==
  ASSUME NEW acc, NEW v \in Nat, FedTo(acc, v), NEW p \in Nat, ~acc.trailing
  PROVE  /\ FedTo(FeedChar(acc, Point, p), v)
         /\ FeedChar(acc, Point, p).trailing /\ FeedChar(acc, Point, p).count = acc.count
<1>1. acc \in FeedState /\ acc.fed = Digits[v]
  BY DEF FedTo
<1>2. FeedChar(acc, Point, p) \in FeedState
  BY <1>1, FeedCharIs DEF Char, Point
<1>3. FeedChar(acc, Point, p) = [acc EXCEPT !.trailing = TRUE]
  <2>1. ~IsDigit(Point)
    BY DEF IsDigit, Point
  <2>2. FeedChar(acc, Point, p) = [acc EXCEPT !.trailing = acc.trailing \/ Point = Point]
    BY <2>1 DEF FeedChar
  <2> QED BY <2>2
<1>4. /\ FeedChar(acc, Point, p).fed = acc.fed /\ FeedChar(acc, Point, p).trailing = TRUE
      /\ FeedChar(acc, Point, p).count = acc.count
  BY <1>1, <1>3 DEF FeedState
<1> QED BY <1>1, <1>2, <1>4 DEF FedTo

\* What is fed after i characters, h of them before the point.
FedAt(acc, i, r, h) ==
  IF i <= h THEN FedTo(acc, r[i]) /\ ~acc.trailing /\ acc.count = 0
  ELSE FedTo(acc, r[i - 1]) /\ acc.trailing /\ acc.count \in 0 .. i - h - 1

\* process feeds the digits of the number at the precision: the early return never
\* comes before the last of them.
LEMMA ProcessHolds ==
  ASSUME NEW x, NEW h, NEW n, Reads(x, h, n), NEW d, Holds(d, x, h), d.own, NEW p \in 0 .. Scale
  PROVE  Process(d, p) = Shown(n, p)
<1> DEFINE s == StrView(d, p)
           l == h + 1 + p
           r == Read(x)
<1>1. /\ x \in Strings /\ h \in Nat \ {0} /\ Scale \in Nat /\ p \in Nat /\ l <= MaxChars /\ l \in Nat
      /\ l <= Ends /\ Ends \in Nat /\ \A i \in 1 .. Ends : x[i] \in 0 .. 9
  <2>1. \A i \in 1 .. Ends : x[i] \in 0 .. 9
    BY ReadsIn
  <2>2. /\ x \in Strings /\ h \in Nat \ {0} /\ Scale \in Nat /\ MaxChars \in Nat
        /\ h + 1 + Scale <= MaxChars /\ Ends = 2 * MaxChars
    BY ReadsIn
  <2> QED BY <2>1, <2>2
<1>2. /\ s \in Seq(Char) /\ Len(s) = l /\ (\A i \in 1 .. h : s[i] = x[i]) /\ s[h + 1] = Point
      /\ \A i \in h + 2 .. l : s[i] = x[i - 1]
  BY <1>1, StrViewIs
<1>3. /\ r \in [0 .. Ends -> Nat] /\ r[0] = 0
      /\ \A i \in 1 .. Ends : r[i] = 10 * r[i - 1] + x[i]
  BY <1>1, ReadIs
<1>4. PICK f : IsFed(f, d, p) /\ Process(d, p) = f[l].fed
  BY <1>2, ProcessIs
<1>5. f[0] = [fed |-> <<>>, trailing |-> FALSE, count |-> 0]
      /\ \A i \in 1 .. l : f[i] = FeedChar(f[i - 1], s[i], p)
  <2>1. \A i \in 0 .. l : f[i] = IF i = 0 THEN [fed |-> <<>>, trailing |-> FALSE, count |-> 0]
                                 ELSE FeedChar(f[i - 1], s[i], p)
    BY <1>2, <1>4 DEF IsFed
  <2> HIDE DEF s, l
  <2> QED BY <1>1, <2>1
<1> HIDE DEF s, r
<1> DEFINE T == {i \in Nat : i <= l => FedAt(f[i], i, r, h)}
<1>6. 0 \in T
  <2>1. f[0] \in FeedState /\ f[0].fed = Digits[0] /\ ~f[0].trailing /\ f[0].count = 0
    BY <1>5, DigitsAre, EmptySeq DEF FeedState
  <2> QED BY <1>1, <1>3, <2>1 DEF FedAt, FedTo
<1>7. ASSUME NEW i \in T PROVE i + 1 \in T
  <2> SUFFICES ASSUME i + 1 <= l PROVE FedAt(f[i + 1], i + 1, r, h)
    OBVIOUS
  <2>1. i \in Nat /\ i + 1 \in 1 .. l /\ (i + 1) - 1 = i /\ FedAt(f[i], i, r, h)
    BY <1>1
  <2> DEFINE b == f[i + 1]
  <2>2. b = FeedChar(f[i], s[i + 1], p)
    BY <1>5, <2>1
  <2> HIDE DEF b, T, l
  <2>3. CASE i + 1 <= h
    <3>1. i + 1 \in 1 .. Ends /\ i + 1 \in 1 .. h /\ r[i] \in Nat
      BY <1>1, <1>3, <2>1, <2>3
    <3>2. s[i + 1] = x[i + 1] /\ x[i + 1] \in 0 .. 9 /\ r[i + 1] = 10 * r[i] + x[i + 1]
      BY <1>1, <1>2, <1>3, <2>1, <3>1
    <3>3. FedTo(f[i], r[i]) /\ ~f[i].trailing /\ f[i].count = 0
      BY <1>1, <2>1, <2>3 DEF FedAt
    <3>4. FedTo(b, 10 * r[i] + x[i + 1]) /\ b.trailing = f[i].trailing /\ b.count = f[i].count
      <4> DEFINE a == f[i]
                 v == r[i]
                 c == x[i + 1]
      <4>1. /\ v \in Nat /\ FedTo(a, v) /\ c \in 0 .. 9 /\ p \in Nat /\ ~a.trailing
            /\ b = FeedChar(a, c, p)
        BY <1>1, <2>2, <3>1, <3>2, <3>3
      <4> HIDE DEF a, v, c
      <4>2. FedTo(b, 10 * v + c) /\ b.trailing = a.trailing /\ b.count = a.count
        BY <4>1, FeedDigit
      <4> QED BY <4>2 DEF a, v, c
    <3>5. b.count \in Nat
      BY <3>4 DEF FedTo, FeedState
    <3>6. b.count = 0 /\ ~b.trailing /\ FedTo(b, r[i + 1])
      BY <3>2, <3>3, <3>4, <3>5
    <3> QED BY <2>3, <3>6 DEF FedAt, b
  <2>4. CASE i = h
    <3>1. FedTo(f[i], r[i]) /\ ~f[i].trailing /\ f[i].count = 0 /\ r[i] \in Nat
      <4>1. i <= h /\ i \in 0 .. Ends
        BY <1>1, <2>1, <2>4 DEF l
      <4> QED BY <1>3, <2>1, <4>1 DEF FedAt
    <3>2. s[i + 1] = Point
      BY <1>2, <2>4
    <3>3. FedTo(b, r[i]) /\ b.trailing /\ b.count = 0
      BY <1>1, <2>2, <3>1, <3>2, FeedPoint
    <3>4. ~(i + 1 <= h) /\ 0 \in 0 .. (i + 1) - h - 1
      BY <1>1, <2>1, <2>4
    <3> QED BY <2>1, <3>3, <3>4 DEF FedAt, b
  <2>5. CASE i > h
    <3>1. /\ FedTo(f[i], r[i - 1]) /\ f[i].trailing /\ f[i].count \in 0 .. i - h - 1
          /\ i \in 1 .. Ends /\ i + 1 \in h + 2 .. l /\ r[i - 1] \in Nat
      <4>1. ~(i <= h) /\ i \in 1 .. Ends /\ i + 1 \in h + 2 .. l /\ i - 1 \in 0 .. Ends
        BY <1>1, <2>1, <2>5 DEF l
      <4> QED BY <1>3, <2>1, <4>1 DEF FedAt
    <3>2. s[i + 1] = x[i] /\ x[i] \in 0 .. 9 /\ r[i] = 10 * r[i - 1] + x[i]
      BY <1>1, <1>2, <1>3, <2>1, <3>1
    <3>3. f[i].count < p
      BY <1>1, <2>1, <3>1 DEF l
    <3>4. FedTo(b, 10 * r[i - 1] + x[i]) /\ b.trailing = f[i].trailing /\ b.count <= f[i].count + 1
      BY <1>1, <2>2, <3>1, <3>2, <3>3, FeedDigit
    <3>5. b.count \in Nat
      BY <3>4 DEF FedTo, FeedState
    <3>6. b.count \in 0 .. (i + 1) - h - 1
      BY <1>1, <2>1, <3>1, <3>4, <3>5
    <3>7. FedTo(b, r[(i + 1) - 1]) /\ b.trailing
      BY <2>1, <3>1, <3>2, <3>4
    <3> QED BY <1>1, <2>1, <2>5, <3>6, <3>7 DEF FedAt, b
  <2> QED BY <1>1, <2>1, <2>3, <2>4, <2>5
<1> HIDE DEF T
<1>8. T = Nat
  <2>1. T \subseteq Nat
    BY DEF T
  <2> QED BY <1>6, <1>7, <2>1, Upward
<1>9. FedAt(f[l], l, r, h)
  <2>1. l \in T /\ l <= l
    BY <1>1, <1>8
  <2> QED BY <2>1 DEF T
<1>10. f[l].fed = Digits[r[h + p]]
  <2>1. ~(l <= h) /\ l - 1 = h + p
    BY <1>1
  <2> QED BY <1>9, <2>1 DEF FedAt, FedTo
<1>11. n \div Unit(p) = r[h + p]
  BY ReadsUnits DEF r
<1> QED BY <1>4, <1>10, <1>11 DEF Shown

\* So it does for the object of a number.
LEMMA StandsProcess ==
  ASSUME NEW d, NEW n, Stands(d, n), d.own, NEW p \in 0 .. Scale
  PROVE  Process(d, p) = Shown(n, p)
BY ProcessHolds DEF Stands

-----------------------------------------------------------------------------
(* The constructor's loop.                                                  *)

\* A part of a text, and the part that ends a character later.
LEMMA SubSeqGrows ==
  ASSUME NEW t \in Seq(Char), NEW l \in Nat, NEW k \in Nat, l <= k, k <= Len(t)
  PROVE  /\ SubSeq(t, l + 1, k) \in Seq(Char) /\ Len(SubSeq(t, l + 1, k)) = k - l
         /\ \A i \in 1 .. k - l : SubSeq(t, l + 1, k)[i] = t[l + i]
         /\ k = l => SubSeq(t, l + 1, k) = <<>>
         /\ k < Len(t) => SubSeq(t, l + 1, k + 1) = Append(SubSeq(t, l + 1, k), t[k + 1])
<1>1. Len(t) \in Nat /\ \A i \in 1 .. Len(t) : t[i] \in Char
  BY LenProperties
<1>2. ASSUME NEW j \in Nat, l <= j, j <= Len(t)
      PROVE  /\ SubSeq(t, l + 1, j) \in Seq(Char) /\ Len(SubSeq(t, l + 1, j)) = j - l
             /\ \A i \in 1 .. j - l : SubSeq(t, l + 1, j)[i] = t[l + i]
  <2>1. \A i \in l + 1 .. j : t[i] \in Char
    BY <1>1, <1>2
  <2> DEFINE s == SubSeq(t, l + 1, j)
  <2>2. /\ s \in Seq(Char) /\ Len(s) = (IF l + 1 <= j THEN j - (l + 1) + 1 ELSE 0)
        /\ \A i \in 1 .. j - (l + 1) + 1 : s[i] = t[(l + 1) + i - 1]
    BY <1>1, <2>1, SubSeqProperties
  <2> HIDE DEF s
  <2>3. Len(s) = j - l
    BY <1>2, <2>2
  <2>4. \A i \in 1 .. j - l : s[i] = t[l + i]
    <3>1. \A i \in 1 .. j - l : i \in 1 .. j - (l + 1) + 1 /\ (l + 1) + i - 1 = l + i
      BY <1>2
    <3> QED BY <2>2, <3>1
  <2> QED BY <2>2, <2>3, <2>4 DEF s
<1>3. k = l => SubSeq(t, l + 1, k) = <<>>
  <2>1. k = l => Len(SubSeq(t, l + 1, k)) = 0
    BY <1>2
  <2> QED BY <1>2, <2>1, EmptySeq
<1>4. ASSUME k < Len(t) PROVE SubSeq(t, l + 1, k + 1) = Append(SubSeq(t, l + 1, k), t[k + 1])
  <2> DEFINE s == SubSeq(t, l + 1, k)
             u == SubSeq(t, l + 1, k + 1)
             c == t[k + 1]
             v == Append(s, c)
  <2>1. s \in Seq(Char) /\ Len(s) = k - l /\ \A i \in 1 .. k - l : s[i] = t[l + i]
    BY <1>2
  <2>2. k + 1 \in Nat /\ l <= k + 1 /\ k + 1 <= Len(t) /\ c \in Char
    BY <1>1, <1>4
  <2>3. u \in Seq(Char) /\ Len(u) = (k + 1) - l /\ \A i \in 1 .. (k + 1) - l : u[i] = t[l + i]
    BY <1>2, <2>2
  <2> HIDE DEF s, u, c
  <2>4. /\ v \in Seq(Char) /\ Len(v) = Len(s) + 1 /\ v[Len(s) + 1] = c
        /\ \A i \in 1 .. Len(s) : v[i] = s[i]
    <3>1. s \in Seq(Char) /\ c \in Char
      BY <2>1, <2>2
    <3> QED BY ONLY <3>1, AppendProperties DEF v
  <2> HIDE DEF v
  <2>5. ASSUME NEW i \in 1 .. Len(u) PROVE u[i] = v[i]
    <3>1. CASE i \in 1 .. k - l
      BY <2>1, <2>3, <2>4, <3>1
    <3>2. CASE i = (k + 1) - l
      BY <2>1, <2>3, <2>4, <3>2 DEF c
    <3> QED BY <2>3, <3>1, <3>2
  <2>6. Len(u) = Len(v)
    BY <2>1, <2>3, <2>4
  <2> QED BY <2>3, <2>4, <2>5, <2>6, SeqEqual DEF s, u, v, c
<1> QED BY <1>2, <1>3, <1>4

ParseState ==
  [out : Seq(Char),
   state : {"before_digit", "before_decimal", "after_decimal", "after_value", "invalid"}]

\* The types of the state of the constructor's loop.
LEMMA ParseCharIs ==
  ASSUME NEW acc \in ParseState, NEW text, NEW i, text[i] \in Char
  PROVE  ParseChar(acc, text, i) \in ParseState
<1> DEFINE s == Append(acc.out, text[i])
<1>1. s \in Seq(Char) /\ acc.out \in Seq(Char)
  BY AppendProperties DEF ParseState
<1>2. ASSUME NEW st \in {"before_digit", "before_decimal", "after_decimal", "after_value", "invalid"}
      PROVE  /\ [out |-> s, state |-> st] \in ParseState
             /\ [acc EXCEPT !.state = st] \in ParseState
  <2> HIDE DEF s
  <2> QED BY <1>1 DEF ParseState
<1> HIDE DEF s
<1>3. acc.state \in {"before_digit", "before_decimal", "after_decimal", "after_value", "invalid"}
  BY DEF ParseState
<1> QED BY <1>2, <1>3 DEF ParseChar, s

\* The value of the recursive function in ParseText.
IsParse(f, text) ==
  f = [i \in 0 .. Len(text) |->
         IF i = 0 THEN [out |-> <<>>, state |-> "before_digit"] ELSE ParseChar(f[i - 1], text, i)]

\* The loop of the constructor has a value.
LEMMA ParseTextIs ==
  ASSUME NEW text \in Seq(Char)
  PROVE  \E f : IsParse(f, text) /\ ParseText(text) = f[Len(text)]
<1> DEFINE n == Len(text)
           a == [out |-> <<>>, state |-> "before_digit"]
           g == [i \in 1 .. n |-> [v \in ParseState |-> ParseChar(v, text, i)]]
<1>1. n \in Nat /\ \A i \in 1 .. n : text[i] \in Char
  BY LenProperties
<1>2. a \in ParseState
  BY EmptySeq DEF ParseState
<1> HIDE DEF n, a
<1>3. g \in [1 .. n -> [ParseState -> ParseState]]
  BY <1>1, ParseCharIs
<1>4. PICK f \in [0 .. n -> ParseState] : IsLoop(f, n, a, g)
  <2> HIDE DEF g
  <2> QED BY <1>1, <1>2, <1>3, LoopExists
<1>5. f[0] = a /\ \A i \in 1 .. n : f[i] = ParseChar(f[i - 1], text, i)
  <2>1. f[0] = a /\ \A i \in 1 .. n : f[i] = g[i][f[i - 1]]
    <3> HIDE DEF g
    <3> QED BY <1>4 DEF IsLoop
  <2>2. \A i \in 1 .. n : f[i - 1] \in ParseState
    BY <1>1
  <2> QED BY <2>1, <2>2
<1>6. f = [i \in 0 .. n |-> IF i = 0 THEN a ELSE ParseChar(f[i - 1], text, i)]
  <2>1. f = [i \in 0 .. n |-> f[i]]
    OBVIOUS
  <2>2. \A i \in 0 .. n : f[i] = IF i = 0 THEN a ELSE ParseChar(f[i - 1], text, i)
    BY <1>1, <1>5
  <2> HIDE DEF g
  <2> QED BY <2>1, <2>2
<1>7. IsParse(f, text)
  BY <1>6 DEF IsParse, n, a
<1> DEFINE c == CHOOSE h : IsParse(h, text)
<1>8. IsParse(c, text)
  BY <1>7
<1>9. ParseText(text) = c[Len(text)]
  BY Zenon DEF ParseText, IsParse
<1> HIDE DEF c
<1> QED BY <1>8, <1>9

-----------------------------------------------------------------------------
(* Texts.                                                                   *)

\* A text with the digits of y, a of them before the point and b behind it, and
\* blanks behind these.
EndOf(a, b, point) == IF point THEN a + 1 + b ELSE a

IsText(t, y, a, b, point) ==
  /\ t \in Seq(Char) /\ y \in Strings /\ a \in Nat \ {0} /\ b \in 0 .. Scale /\ point \in BOOLEAN
  /\ a + 1 + Scale <= MaxChars /\ (~point => b = 0) /\ EndOf(a, b, point) <= Len(t)
  /\ \A i \in 1 .. a : t[i] = y[i]
  /\ point => t[a + 1] = Point
  /\ \A i \in a + 2 .. EndOf(a, b, point) : t[i] = y[i - 1]
  /\ \A i \in EndOf(a, b, point) + 1 .. Len(t) : t[i] = Blank
  /\ \A i \in 1 .. Ends : i > a + b => y[i] = 0

\* The types of a text.
LEMMA TextIs ==
  ASSUME NEW t, NEW y, NEW a, NEW b, NEW point, IsText(t, y, a, b, point)
  PROVE  /\ t \in Seq(Char) /\ Len(t) \in Nat /\ a \in Nat \ {0} /\ b \in Nat /\ b <= Scale
         /\ point \in BOOLEAN /\ Scale \in Nat /\ MaxChars \in Nat /\ Ends = 2 * MaxChars
         /\ a + 1 + Scale <= MaxChars /\ y \in Strings /\ (~point => b = 0)
         /\ EndOf(a, b, point) \in Nat /\ a <= EndOf(a, b, point) /\ EndOf(a, b, point) <= Len(t)
         /\ (point => EndOf(a, b, point) = a + 1 + b) /\ (~point => EndOf(a, b, point) = a)
<1>1. t \in Seq(Char) /\ Len(t) \in Nat /\ Scale \in Nat /\ MaxChars \in Nat /\ Ends = 2 * MaxChars
  BY LenProperties, NumbersAssumption, EndsIs DEF IsText, Ends
<1>2. /\ a \in Nat \ {0} /\ b \in Nat /\ b <= Scale /\ point \in BOOLEAN /\ y \in Strings
      /\ a + 1 + Scale <= MaxChars /\ (~point => b = 0) /\ EndOf(a, b, point) <= Len(t)
  BY <1>1 DEF IsText
<1> QED BY <1>1, <1>2 DEF EndOf

\* The character at each place.
LEMMA TextAt ==
  ASSUME NEW t, NEW y, NEW a, NEW b, NEW point, IsText(t, y, a, b, point), NEW i \in 1 .. Len(t)
  PROVE  /\ t[i] \in Char
         /\ i <= a => t[i] = y[i] /\ IsDigit(t[i]) /\ t[i] # Point
         /\ i = a + 1 /\ point => t[i] = Point
         /\ i > a + 1 /\ i <= EndOf(a, b, point) => t[i] = y[i - 1] /\ IsDigit(t[i])
         /\ i > EndOf(a, b, point) => t[i] = Blank
         /\ ~IsDigit(Point) /\ ~IsDigit(Blank) /\ Blank # Point
<1> DEFINE e == EndOf(a, b, point)
<1>1. /\ t \in Seq(Char) /\ Len(t) \in Nat /\ a \in Nat \ {0} /\ b \in Nat /\ b <= Scale
      /\ Scale \in Nat /\ MaxChars \in Nat /\ Ends = 2 * MaxChars /\ a + 1 + Scale <= MaxChars
      /\ y \in Strings /\ e \in Nat /\ e <= Len(t)
  BY TextIs
<1>2. e <= a + 1 + b
  BY <1>1 DEF EndOf
<1>3. ~IsDigit(Point) /\ ~IsDigit(Blank) /\ Blank # Point
  BY DEF IsDigit, Point, Blank
<1>4. t[i] \in Char
  BY <1>1, ElementOfSeq
<1>5. ASSUME i <= a PROVE t[i] = y[i] /\ IsDigit(t[i]) /\ t[i] # Point
  <2>1. i \in 1 .. a /\ i \in 1 .. Ends
    BY <1>1, <1>5
  <2>2. t[i] = y[i] /\ y[i] \in 0 .. 9
    BY <1>1, <2>1 DEF IsText, Strings
  <2> QED BY <2>2 DEF IsDigit, Point
<1>6. ASSUME i > a + 1, i <= e PROVE t[i] = y[i - 1] /\ IsDigit(t[i])
  <2>1. i \in a + 2 .. e /\ i - 1 \in 1 .. Ends
    BY <1>1, <1>2, <1>6
  <2>2. t[i] = y[i - 1]
    BY <2>1 DEF IsText
  <2>3. y[i - 1] \in 0 .. 9
    BY <1>1, <2>1 DEF Strings
  <2> QED BY <2>2, <2>3 DEF IsDigit
<1>7. ASSUME i > e PROVE t[i] = Blank
  <2>1. i \in e + 1 .. Len(t)
    BY <1>1, <1>7
  <2> QED BY <2>1 DEF IsText
<1>8. i = a + 1 /\ point => t[i] = Point
  BY DEF IsText
<1> QED BY <1>3, <1>4, <1>5, <1>6, <1>7, <1>8

\* z zeros are left out in front: not the last digit if a point follows, and no
\* zero too few.
Leading(z, i, y, a, point) ==
  /\ z \in 0 .. a /\ z <= i /\ \A j \in 1 .. z : y[j] = 0
  /\ z = a => ~point
  /\ z < a /\ z < i => y[z + 1] # 0 \/ z = a - 1

InZeros(state, z, i, a) == state = "before_digit" /\ ((i <= a /\ z = i) \/ (i >= a /\ z = a))
AtEnd(i, t, a, b, point) == (i = a /\ a = Len(t)) \/ (point /\ i > EndOf(a, b, point))

Phase(state, z, i, t, a, b, point) ==
  \/ InZeros(state, z, i, a)
  \/ state = "before_decimal" /\ z < i /\ i <= a
  \/ state = "after_decimal" /\ point /\ z < a /\ a < i /\ i <= EndOf(a, b, point)
  \/ state = "after_value" /\ z < a /\ AtEnd(i, t, a, b, point)

\* What the constructor has done with the first i characters.
Parsed(acc, i, t, y, a, b, point) ==
  \/ acc.state = "invalid" /\ ~point /\ i > a
  \/ \E z \in Nat :
       /\ Leading(z, i, y, a, point) /\ Phase(acc.state, z, i, t, a, b, point)
       /\ acc.out = SubSeq(t, z + 1, IF i <= EndOf(a, b, point) THEN i ELSE EndOf(a, b, point))

\* One character of the constructor's loop, state by state.
LEMMA ParseStep ==
  ASSUME NEW t, NEW y, NEW a, NEW b, NEW point, IsText(t, y, a, b, point),
         NEW acc \in ParseState, NEW i \in Nat, i < Len(t), Parsed(acc, i, t, y, a, b, point)
  PROVE  Parsed(ParseChar(acc, t, i + 1), i + 1, t, y, a, b, point)
<1> DEFINE e == EndOf(a, b, point)
           ch == t[i + 1]
           new == ParseChar(acc, t, i + 1)
           kept(z) == SubSeq(t, z + 1, IF i <= e THEN i ELSE e)
           now(z) == SubSeq(t, z + 1, IF i + 1 <= e THEN i + 1 ELSE e)
<1>1. /\ t \in Seq(Char) /\ Len(t) \in Nat /\ a \in Nat \ {0} /\ b \in Nat
      /\ point \in BOOLEAN /\ e \in Nat /\ a <= e /\ e <= Len(t)
      /\ (point => e = a + 1 + b) /\ (~point => e = a)
  BY TextIs
<1>2. i + 1 \in 1 .. Len(t)
  BY <1>1
<1>3. /\ i + 1 <= a => ch = y[i + 1] /\ IsDigit(ch) /\ ch # Point
      /\ i + 1 = a + 1 /\ point => ch = Point
      /\ i + 1 > a + 1 /\ i + 1 <= e => IsDigit(ch)
      /\ i + 1 > e => ch = Blank
      /\ ~IsDigit(Point) /\ ~IsDigit(Blank) /\ Blank # Point
  BY <1>2, TextAt
<1>4. acc.state \in {"before_digit", "before_decimal", "after_decimal", "after_value", "invalid"}
      /\ acc = [out |-> acc.out, state |-> acc.state]
  BY DEF ParseState
<1>5. ASSUME NEW z \in Nat, z <= i, i < e PROVE now(z) = Append(kept(z), ch)
  <2>1. i + 1 <= e /\ i <= e /\ i <= Len(t) /\ i < Len(t)
    BY <1>1, <1>5
  <2>2. now(z) = SubSeq(t, z + 1, i + 1) /\ kept(z) = SubSeq(t, z + 1, i)
    BY <2>1
  <2>3. SubSeq(t, z + 1, i + 1) = Append(SubSeq(t, z + 1, i), t[i + 1])
    BY <1>1, <1>5, <2>1, SubSeqGrows
  <2> QED BY <2>2, <2>3
<1>6. ASSUME NEW z \in Nat, i >= e PROVE now(z) = kept(z)
  <2>1. ~(i + 1 <= e) /\ (i <= e => i = e)
    BY <1>1, <1>6
  <2>2. now(z) = SubSeq(t, z + 1, e) /\ kept(z) = SubSeq(t, z + 1, e)
    BY <2>1
  <2> QED BY <2>2
<1> HIDE DEF ch, e, new, kept, now
<1>7. ASSUME acc.state = "invalid" PROVE Parsed(new, i + 1, t, y, a, b, point)
  <2>1. new = acc
    BY <1>7 DEF ParseChar, new
  <2>2. ~point /\ i + 1 > a
    <3>1. ~point /\ i > a
      BY <1>7 DEF Parsed, Phase, InZeros
    <3> QED BY <1>1, <3>1
  <2> QED BY <1>7, <2>1, <2>2 DEF Parsed
<1>8. ASSUME NEW z \in Nat, Leading(z, i, y, a, point), Phase(acc.state, z, i, t, a, b, point),
             acc.out = kept(z)
      PROVE  Parsed(new, i + 1, t, y, a, b, point)
  <2>1. /\ z \in 0 .. a /\ z <= i /\ (\A j \in 1 .. z : y[j] = 0) /\ (z = a => ~point)
        /\ (z < a /\ z < i => y[z + 1] # 0 \/ z = a - 1)
    BY <1>8 DEF Leading
  <2>2. ASSUME NEW w \in Nat, Leading(w, i + 1, y, a, point), new.out = now(w),
               Phase(new.state, w, i + 1, t, a, b, point)
        PROVE  Parsed(new, i + 1, t, y, a, b, point)
    BY <2>2 DEF Parsed, e, now
  <2>3. CASE InZeros(acc.state, z, i, a)
    <3>0. acc.state = "before_digit" /\ ((i <= a /\ z = i) \/ (i >= a /\ z = a))
      BY <2>3 DEF InZeros
    <3>1. CASE i >= a
      <4>1. z = a /\ ~point /\ ch = Blank /\ i >= e /\ e = a
        BY <1>1, <1>3, <2>1, <3>0, <3>1
      <4>2. new = acc
        BY <1>3, <3>0, <4>1 DEF ParseChar, ch, new
      <4>3. Leading(z, i + 1, y, a, point)
        BY <1>1, <2>1, <4>1 DEF Leading
      <4>4. Phase(new.state, z, i + 1, t, a, b, point)
        <5>1. InZeros(new.state, z, i + 1, a)
          BY <1>1, <3>0, <3>1, <4>1, <4>2 DEF InZeros
        <5> QED BY <5>1, Zenon DEF Phase
      <4> QED BY <1>6, <1>8, <2>2, <4>1, <4>2, <4>3, <4>4
    <3>2. CASE i < a /\ ch # Zero
      <4>1. new.out = Append(acc.out, ch) /\ new.state = "before_decimal" /\ z = i
        BY <1>1, <1>3, <3>0, <3>2 DEF ParseChar, ch, new
      <4>2. Leading(z, i + 1, y, a, point)
        BY <1>1, <1>3, <2>1, <3>2, <4>1 DEF Leading, Zero
      <4>3. Phase(new.state, z, i + 1, t, a, b, point)
        <5>1. new.state = "before_decimal" /\ z < i + 1 /\ i + 1 <= a
          BY <1>1, <3>2, <4>1
        <5> QED BY <5>1, Zenon DEF Phase, e
      <4>4. new.out = now(z)
        BY <1>1, <1>5, <1>8, <2>1, <3>2, <4>1
      <4> QED BY <2>2, <4>2, <4>3, <4>4
    <3>3. CASE i < a /\ ch = Zero /\ i + 1 = Len(t)
      <4>1. new.out = Append(acc.out, ch) /\ new.state = "after_value" /\ z = i /\ i + 1 = a
        BY <1>1, <1>3, <3>0, <3>3 DEF ParseChar, ch, new
      <4>2. Leading(z, i + 1, y, a, point)
        BY <1>1, <2>1, <3>3, <4>1 DEF Leading
      <4>3. Phase(new.state, z, i + 1, t, a, b, point)
        <5>1. new.state = "after_value" /\ z < a /\ AtEnd(i + 1, t, a, b, point)
          <6>1. i + 1 = a /\ a = Len(t)
            BY <3>3, <4>1
          <6>2. AtEnd(i + 1, t, a, b, point)
            BY <6>1, Zenon DEF AtEnd
          <6> QED BY <1>1, <3>3, <4>1, <6>2
        <5> QED BY <5>1, Zenon DEF Phase
      <4>4. new.out = now(z)
        BY <1>1, <1>5, <1>8, <2>1, <3>3, <4>1
      <4> QED BY <2>2, <4>2, <4>3, <4>4
    <3>4. CASE i < a /\ ch = Zero /\ i + 1 # Len(t) /\ t[(i + 1) + 1] = Point
      <4>1. new.out = Append(acc.out, ch) /\ new.state = "before_decimal" /\ z = i
        BY <1>1, <1>3, <3>0, <3>4 DEF ParseChar, ch, new
      <4>2. i + 1 = a
        <5>1. (i + 1) + 1 \in 1 .. Len(t)
          BY <1>1, <3>4
        <5>2. ~((i + 1) + 1 <= a)
          BY <3>4, <5>1, TextAt
        <5> QED BY <1>1, <3>4, <5>2
      <4>3. Leading(z, i + 1, y, a, point)
        BY <1>1, <2>1, <4>1, <4>2 DEF Leading
      <4>4. Phase(new.state, z, i + 1, t, a, b, point)
        <5>1. new.state = "before_decimal" /\ z < i + 1 /\ i + 1 <= a
          BY <1>1, <3>4, <4>1
        <5> QED BY <5>1, Zenon DEF Phase, e
      <4>5. new.out = now(z)
        BY <1>1, <1>5, <1>8, <2>1, <3>4, <4>1
      <4> QED BY <2>2, <4>3, <4>4, <4>5
    <3>5. CASE i < a /\ ch = Zero /\ i + 1 # Len(t) /\ t[(i + 1) + 1] # Point
      <4>1. new = acc /\ z = i
        BY <1>1, <1>3, <3>0, <3>5 DEF ParseChar, ch, new
      <4>2. ~(i + 1 = a /\ point)
        <5>1. (i + 1) + 1 \in 1 .. Len(t)
          BY <1>1, <3>5
        <5>2. ~((i + 1) + 1 = a + 1 /\ point)
          BY <3>5, <5>1, TextAt
        <5> QED BY <1>1, <5>2
      <4>3. Leading(i + 1, i + 1, y, a, point)
        <5>1. y[i + 1] = 0
          BY <1>1, <1>3, <3>5 DEF Zero
        <5>2. \A j \in 1 .. i + 1 : y[j] = 0
          BY <2>1, <4>1, <5>1
        <5> QED BY <1>1, <3>5, <4>2, <5>2 DEF Leading
      <4>4. Phase(new.state, i + 1, i + 1, t, a, b, point)
        <5>1. InZeros(new.state, i + 1, i + 1, a)
          BY <1>1, <3>0, <3>5, <4>1 DEF InZeros
        <5> QED BY <5>1, Zenon DEF Phase
      <4>5. new.out = now(i + 1)
        <5>1. i <= e /\ i + 1 <= e /\ i <= Len(t) /\ i + 1 <= Len(t)
          BY <1>1, <3>5
        <5>2. kept(z) = SubSeq(t, i + 1, i) /\ now(i + 1) = SubSeq(t, (i + 1) + 1, i + 1)
          BY <4>1, <5>1 DEF kept, now
        <5>3. SubSeq(t, i + 1, i) = <<>> /\ SubSeq(t, (i + 1) + 1, i + 1) = <<>>
          BY <1>1, <5>1, SubSeqGrows
        <5> QED BY <1>8, <4>1, <5>2, <5>3
      <4> QED BY <1>1, <2>2, <4>3, <4>4, <4>5
    <3> QED BY <1>1, <3>1, <3>2, <3>3, <3>4, <3>5
  <2>4. CASE acc.state = "before_decimal" /\ z < i /\ i <= a
    <3>1. Leading(z, i + 1, y, a, point)
      BY <1>1, <2>1, <2>4 DEF Leading
    <3>2. CASE i < a
      <4>1. new.out = Append(acc.out, ch) /\ new.state = "before_decimal"
        BY <1>1, <1>3, <2>4, <3>2 DEF ParseChar, ch, new
      <4>2. Phase(new.state, z, i + 1, t, a, b, point)
        <5>1. new.state = "before_decimal" /\ z < i + 1 /\ i + 1 <= a
          BY <1>1, <2>4, <3>2, <4>1
        <5> QED BY <5>1, Zenon DEF Phase, e
      <4>3. new.out = now(z)
        BY <1>1, <1>5, <1>8, <2>1, <3>2, <4>1
      <4> QED BY <2>2, <3>1, <4>2, <4>3
    <3>3. CASE i = a /\ point
      <4>1. new.out = Append(acc.out, ch) /\ new.state = "after_decimal"
        BY <1>1, <1>3, <2>4, <3>3 DEF ParseChar, ch, new
      <4>2. Phase(new.state, z, i + 1, t, a, b, point)
        <5>1. new.state = "after_decimal" /\ point /\ z < a /\ a < i + 1 /\ i + 1 <= e
          BY <1>1, <2>4, <3>3, <4>1
        <5> QED BY <5>1, Zenon DEF Phase, e
      <4>3. new.out = now(z)
        BY <1>1, <1>5, <1>8, <2>1, <3>3, <4>1
      <4> QED BY <2>2, <3>1, <4>2, <4>3
    <3>4. CASE i = a /\ ~point
      <4>1. ch = Blank
        BY <1>1, <1>3, <3>4
      <4>2. new = [acc EXCEPT !.state = "invalid"]
        BY <1>3, <2>4, <4>1 DEF ParseChar, ch, new
      <4>3. new.state = "invalid" /\ i + 1 > a
        BY <1>1, <1>4, <3>4, <4>2
      <4> QED BY <3>4, <4>3 DEF Parsed
    <3> QED BY <1>1, <2>4, <3>2, <3>3, <3>4
  <2>5. CASE acc.state = "after_decimal" /\ point /\ z < a /\ a < i /\ i <= e
    <3>1. Leading(z, i + 1, y, a, point)
      BY <1>1, <2>1, <2>5 DEF Leading
    <3>2. CASE i < e
      <4>1. new.out = Append(acc.out, ch) /\ new.state = "after_decimal"
        BY <1>1, <1>3, <2>5, <3>2 DEF ParseChar, ch, new
      <4>2. Phase(new.state, z, i + 1, t, a, b, point)
        <5>1. new.state = "after_decimal" /\ point /\ z < a /\ a < i + 1 /\ i + 1 <= e
          BY <1>1, <2>5, <3>2, <4>1
        <5> QED BY <5>1, Zenon DEF Phase, e
      <4>3. new.out = now(z)
        BY <1>1, <1>5, <1>8, <2>1, <3>2, <4>1
      <4> QED BY <2>2, <3>1, <4>2, <4>3
    <3>3. CASE i = e
      <4>1. ch = Blank
        BY <1>1, <1>3, <3>3
      <4>2. new = [acc EXCEPT !.state = "after_value"]
        BY <1>3, <2>5, <4>1 DEF ParseChar, ch, new
      <4>3. new.state = "after_value" /\ new.out = acc.out
        BY <1>4, <4>2
      <4>4. Phase(new.state, z, i + 1, t, a, b, point)
        <5>1. new.state = "after_value" /\ z < a /\ AtEnd(i + 1, t, a, b, point)
          <6>1. point /\ i + 1 > e
            BY <1>1, <2>5, <3>3
          <6>2. AtEnd(i + 1, t, a, b, point)
            BY <6>1, Zenon DEF AtEnd, e
          <6> QED BY <2>5, <4>3, <6>2
        <5> QED BY <5>1, Zenon DEF Phase, e
      <4>5. new.out = now(z)
        BY <1>1, <1>6, <1>8, <3>3, <4>3
      <4> QED BY <2>2, <3>1, <4>4, <4>5
    <3>4. i < e \/ i = e
      BY <1>1, <2>5
    <3> QED BY <3>2, <3>3, <3>4
  <2>6. CASE acc.state = "after_value" /\ z < a /\ AtEnd(i, t, a, b, point)
    <3>1. point /\ i > e
      BY <1>1, <2>6 DEF AtEnd, e
    <3>2. new = acc
      BY <2>6 DEF ParseChar, new
    <3>3. Leading(z, i + 1, y, a, point)
      BY <1>1, <2>1, <2>6, <3>1 DEF Leading
    <3>4. Phase(new.state, z, i + 1, t, a, b, point)
      <4>1. new.state = "after_value" /\ z < a /\ AtEnd(i + 1, t, a, b, point)
        <5>1. point /\ i + 1 > e
          BY <1>1, <3>1
        <5>2. AtEnd(i + 1, t, a, b, point)
          BY <5>1, Zenon DEF AtEnd, e
        <5> QED BY <2>6, <3>2, <5>2
      <4> QED BY <4>1, Zenon DEF Phase, e
    <3>5. new.out = now(z)
      BY <1>1, <1>6, <1>8, <3>1, <3>2
    <3> QED BY <2>2, <3>3, <3>4, <3>5
  <2> QED BY <1>8, <2>3, <2>4, <2>5, <2>6, Zenon DEF Phase, e
<1>9. CASE acc.state # "invalid"
  <2>1. PICK z \in Nat : /\ Leading(z, i, y, a, point) /\ Phase(acc.state, z, i, t, a, b, point)
                         /\ acc.out = kept(z)
    BY <1>9 DEF Parsed, kept, e
  <2> QED BY <1>8, <2>1 DEF new
<1> QED BY <1>7, <1>9 DEF new

\* What the constructor keeps: the digits from the first that counts on, and the point.
LEMMA ParseOut ==
  ASSUME NEW t, NEW y, NEW a, NEW b, NEW point, IsText(t, y, a, b, point)
  PROVE  \/ ParseText(t).state = "invalid" /\ ~point
         \/ /\ ParseText(t).state # "invalid"
            /\ \E z \in Nat : /\ Leading(z, Len(t), y, a, point)
                              /\ ParseText(t).out = SubSeq(t, z + 1, EndOf(a, b, point))
<1> DEFINE n == Len(t)
           e == EndOf(a, b, point)
<1>1. /\ t \in Seq(Char) /\ n \in Nat /\ a \in Nat \ {0} /\ e \in Nat /\ e <= n
  BY TextIs
<1>2. PICK f : IsParse(f, t) /\ ParseText(t) = f[n]
  BY <1>1, ParseTextIs
<1>3. /\ f[0] = [out |-> <<>>, state |-> "before_digit"]
      /\ \A i \in 1 .. n : f[i] = ParseChar(f[i - 1], t, i)
  <2>1. \A i \in 0 .. n : f[i] = IF i = 0 THEN [out |-> <<>>, state |-> "before_digit"]
                                 ELSE ParseChar(f[i - 1], t, i)
    BY <1>2 DEF IsParse
  <2> HIDE DEF n
  <2> QED BY <1>1, <2>1
<1> DEFINE T == {i \in Nat : i <= n => f[i] \in ParseState /\ Parsed(f[i], i, t, y, a, b, point)}
<1>4. 0 \in T
  <2> DEFINE c == f[0]
  <2>1. c.out = <<>> /\ c.state = "before_digit" /\ c \in ParseState
    BY <1>3, EmptySeq DEF ParseState
  <2> HIDE DEF c
  <2>2. Leading(0, 0, y, a, point)
    BY <1>1 DEF Leading
  <2>3. Phase(c.state, 0, 0, t, a, b, point)
    <3>1. InZeros(c.state, 0, 0, a)
      BY <1>1, <2>1 DEF InZeros
    <3> QED BY <3>1, Zenon DEF Phase
  <2>4. c.out = SubSeq(t, 0 + 1, IF 0 <= e THEN 0 ELSE e)
    <3>1. SubSeq(t, 0 + 1, 0) = <<>>
      BY <1>1, SubSeqGrows
    <3> QED BY <1>1, <2>1, <3>1
  <2>5. Parsed(c, 0, t, y, a, b, point)
    BY <2>2, <2>3, <2>4 DEF Parsed
  <2> QED BY <2>1, <2>5 DEF c
<1>5. ASSUME NEW i \in T PROVE i + 1 \in T
  <2> SUFFICES ASSUME i + 1 <= n
               PROVE  f[i + 1] \in ParseState /\ Parsed(f[i + 1], i + 1, t, y, a, b, point)
    OBVIOUS
  <2>1. i \in Nat /\ i < n /\ i + 1 \in 1 .. n /\ (i + 1) - 1 = i
    BY <1>1
  <2>2. f[i] \in ParseState /\ Parsed(f[i], i, t, y, a, b, point)
    BY <2>1
  <2>3. f[i + 1] = ParseChar(f[i], t, i + 1)
    BY <1>3, <2>1
  <2>4. t[i + 1] \in Char
    BY <2>1, TextAt
  <2> HIDE DEF T
  <2>5. f[i + 1] \in ParseState
    BY <2>2, <2>3, <2>4, ParseCharIs
  <2>6. Parsed(ParseChar(f[i], t, i + 1), i + 1, t, y, a, b, point)
    BY <2>1, <2>2, ParseStep
  <2> QED BY <2>3, <2>5, <2>6
<1> HIDE DEF T
<1>6. T = Nat
  <2>1. T \subseteq Nat
    BY DEF T
  <2> QED BY <1>4, <1>5, <2>1, Upward
<1>7. Parsed(f[n], n, t, y, a, b, point)
  <2>1. n \in T /\ n <= n
    BY <1>1, <1>6
  <2> QED BY <2>1 DEF T
<1> HIDE DEF n
<1>8. CASE f[n].state = "invalid" /\ ~point
  BY <1>2, <1>8 DEF n
<1>9. CASE ~(f[n].state = "invalid" /\ ~point)
  <2>1. PICK z \in Nat : /\ Leading(z, n, y, a, point) /\ Phase(f[n].state, z, n, t, a, b, point)
                         /\ f[n].out = SubSeq(t, z + 1, IF n <= e THEN n ELSE e)
    BY <1>7, <1>9 DEF Parsed
  <2>2. f[n].state # "invalid"
    BY <2>1 DEF Phase, InZeros
  <2>3. f[n].out = SubSeq(t, z + 1, e)
    BY <1>1, <2>1
  <2> QED BY <1>2, <2>1, <2>2, <2>3 DEF n
<1> QED BY <1>8, <1>9

\* A string from its place z on.
Shift(y, z) == [i \in 1 .. Ends |-> IF z + i <= Ends THEN y[z + i] ELSE 0]

\* Its digits.
LEMMA ShiftIs ==
  ASSUME NEW y \in Strings, NEW z \in Nat
  PROVE  /\ Shift(y, z) \in Strings
         /\ \A i \in 1 .. Ends : z + i <= Ends => Shift(y, z)[i] = y[z + i]
         /\ \A i \in 1 .. Ends : z + i > Ends => Shift(y, z)[i] = 0
<1>1. Ends \in Nat
  BY EndsIs
<1>2. \A i \in 1 .. Ends : z + i <= Ends => y[z + i] \in 0 .. 9
  BY <1>1 DEF Strings
<1> QED BY <1>1, <1>2 DEF Shift, Strings

\* Without zeros in front the number is the same.
LEMMA ShiftReads ==
  ASSUME NEW y \in Strings, NEW a \in Nat, NEW z \in Nat, z < a, a + 1 + Scale <= MaxChars,
         \A i \in 1 .. z : y[i] = 0, \A i \in 1 .. Ends : i > a + Scale => y[i] = 0
  PROVE  Reads(Shift(y, z), a - z, Read(y)[a + Scale])
<1> DEFINE x == Shift(y, z)
           n == (a - z) + Scale
<1>1. MaxChars \in Nat /\ Ends = 2 * MaxChars /\ Scale \in Nat /\ n \in Nat /\ z + n <= Ends /\ n <= Ends
      /\ z + n = a + Scale
  BY EndsIs, NumbersAssumption DEF Ends
<1>2. /\ x \in Strings /\ (\A i \in 1 .. Ends : z + i <= Ends => x[i] = y[z + i])
      /\ \A i \in 1 .. Ends : z + i > Ends => x[i] = 0
  BY ShiftIs
<1> HIDE DEF x, n
<1>3. Read(y)[z] = 0
  <2>1. z \in 0 .. Ends
    BY <1>1
  <2> QED BY <2>1, ZerosRead
<1>4. Read(x)[0] = 0 /\ \A i \in 1 .. Ends : Read(x)[i] = 10 * Read(x)[i - 1] + x[i]
  BY <1>2, ReadIs
<1>5. \A i \in 1 .. n : Read(x)[i] = 10 * Read(x)[i - 1] + y[z + i]
  <2>1. \A i \in 1 .. n : i \in 1 .. Ends /\ z + i <= Ends
    BY <1>1
  <2> QED BY <1>2, <1>4, <2>1
<1>6. ReadsFrom(Read(x), n, y, z)
  BY <1>3, <1>4, <1>5 DEF ReadsFrom
<1>7. \A i \in 0 .. n : Read(x)[i] = Read(y)[z + i]
  BY <1>1, <1>6, Along
<1>8. Read(x)[n] = Read(y)[z + n]
  BY <1>1, <1>7
<1>9. ASSUME NEW i \in 1 .. Ends, i > (a - z) + Scale PROVE x[i] = 0
  <2>1. CASE z + i <= Ends
    <3>1. z + i \in 1 .. Ends /\ z + i > a + Scale
      BY <1>1, <1>9, <2>1
    <3> QED BY <1>2, <2>1, <3>1
  <2>2. CASE z + i > Ends
    BY <1>2, <2>2
  <2> QED BY <1>1, <2>1, <2>2
<1>10. a - z \in Nat \ {0} /\ (a - z) + 1 + Scale <= MaxChars
  BY <1>1
<1>11. Reads(x, a - z, Read(y)[a + Scale])
  BY <1>1, <1>2, <1>8, <1>9, <1>10 DEF Reads, n
<1> QED BY <1>11 DEF x

\* What the constructor keeps shows the digits of the text.
LEMMA OutShows ==
  ASSUME NEW t, NEW y, NEW a, NEW b, NEW point, IsText(t, y, a, b, point),
         NEW z \in Nat, z < a
  PROVE  /\ Shows(SubSeq(t, z + 1, EndOf(a, b, point)), Shift(y, z), a - z)
         /\ Len(FracPart(SubSeq(t, z + 1, EndOf(a, b, point)))) \in 0 .. Scale
<1> DEFINE e == EndOf(a, b, point)
           out == SubSeq(t, z + 1, e)
           x == Shift(y, z)
           h == a - z
<1>1. /\ t \in Seq(Char) /\ Len(t) \in Nat /\ a \in Nat \ {0} /\ b \in Nat /\ b <= Scale
      /\ Scale \in Nat /\ MaxChars \in Nat /\ Ends = 2 * MaxChars
      /\ a + 1 + Scale <= MaxChars /\ y \in Strings /\ (~point => b = 0)
      /\ e \in Nat /\ a <= e /\ e <= Len(t) /\ (point => e = a + 1 + b) /\ (~point => e = a)
  BY TextIs
<1>2. /\ \A i \in 1 .. a : t[i] = y[i]
      /\ point => t[a + 1] = Point
      /\ \A i \in a + 2 .. e : t[i] = y[i - 1]
      /\ \A i \in 1 .. Ends : i > a + b => y[i] = 0
  BY DEF IsText
<1>3. /\ x \in Strings /\ (\A i \in 1 .. Ends : z + i <= Ends => x[i] = y[z + i])
      /\ \A i \in 1 .. Ends : z + i > Ends => x[i] = 0
  BY <1>1, ShiftIs
<1> HIDE DEF e, x
<1>4. out \in Seq(Char) /\ Len(out) = e - z /\ \A i \in 1 .. e - z : out[i] = t[z + i]
  BY <1>1, SubSeqGrows
<1> HIDE DEF out
<1>5. h \in 1 .. Len(out) /\ Len(out) <= MaxChars
  BY <1>1, <1>4
<1>6. ASSUME NEW i \in 1 .. h PROVE out[i] = x[i]
  <2>1. i \in 1 .. e - z /\ z + i \in 1 .. a /\ i \in 1 .. Ends /\ z + i <= Ends
    BY <1>1
  <2> QED BY <1>2, <1>3, <1>4, <2>1
<1>7. Len(out) > h => out[h + 1] = Point
  <2> SUFFICES ASSUME Len(out) > h PROVE out[h + 1] = Point
    OBVIOUS
  <2>1. point /\ h + 1 \in 1 .. e - z /\ z + (h + 1) = a + 1
    BY <1>1, <1>4
  <2> QED BY <1>2, <1>4, <2>1
<1>8. ASSUME NEW i \in h + 2 .. Len(out) PROVE out[i] = x[i - 1]
  <2>1. /\ i \in 1 .. e - z /\ z + i \in a + 2 .. e /\ i - 1 \in 1 .. Ends
        /\ z + (i - 1) <= Ends /\ (z + i) - 1 = z + (i - 1)
    BY <1>1, <1>4
  <2>2. t[z + i] = y[(z + i) - 1]
    BY <1>2, <2>1
  <2> QED BY <1>3, <1>4, <2>1, <2>2
<1>9. ASSUME NEW i \in 1 .. Ends, i > h, i >= Len(out) PROVE x[i] = 0
  <2>1. CASE z + i <= Ends
    <3>1. z + i \in 1 .. Ends /\ z + i > a + b
      BY <1>1, <1>4, <1>9, <2>1
    <3> QED BY <1>2, <1>3, <2>1, <3>1
  <2>2. CASE z + i > Ends
    BY <1>3, <2>2
  <2> QED BY <1>1, <2>1, <2>2
<1>10. Shows(out, x, h)
  BY <1>4, <1>5, <1>6, <1>7, <1>8, <1>9 DEF Shows
<1>11. Len(FracPart(out)) = IF Len(out) > h THEN Len(out) - h - 1 ELSE 0
  BY <1>3, <1>10, ShowsParts
<1>12. Len(FracPart(out)) \in 0 .. Scale
  BY <1>1, <1>4, <1>11
<1> QED BY <1>10, <1>12 DEF out, x, e

\* The digits in front of a zero are zeros.
LEMMA ZeroDigits ==
  ASSUME NEW x \in Strings, NEW k \in 0 .. Ends, Read(x)[k] = 0
  PROVE  /\ \A i \in 1 .. k : x[i] = 0
         /\ \A i \in 0 .. k : Read(x)[i] = 0
<1>1. Ends \in Nat
  BY EndsIs
<1>2. /\ Read(x) \in [0 .. Ends -> Nat]
      /\ \A i \in 1 .. Ends : Read(x)[i] = 10 * Read(x)[i - 1] + x[i]
  BY ReadIs
<1>3. \A i \in 1 .. Ends : x[i] \in 0 .. 9
  BY DEF Strings
<1> DEFINE T == {j \in Nat : j <= k => Read(x)[k - j] = 0}
<1>4. 0 \in T
  BY <1>1
<1>5. ASSUME NEW j \in Nat, j < k, Read(x)[k - j] = 0
      PROVE  Read(x)[k - (j + 1)] = 0 /\ x[k - j] = 0
  <2>1. k - j \in 1 .. Ends /\ (k - j) - 1 \in 0 .. Ends /\ k - (j + 1) = (k - j) - 1
    BY <1>1, <1>5
  <2>2. Read(x)[k - j] = 10 * Read(x)[(k - j) - 1] + x[k - j]
    BY <1>2, <2>1
  <2>3. Read(x)[(k - j) - 1] \in Nat /\ x[k - j] \in 0 .. 9
    BY <1>2, <1>3, <2>1
  <2> QED BY <1>5, <2>1, <2>2, <2>3
<1>6. ASSUME NEW j \in T PROVE j + 1 \in T
  <2> SUFFICES ASSUME j + 1 <= k PROVE Read(x)[k - (j + 1)] = 0
    OBVIOUS
  <2>1. j \in Nat /\ j < k /\ Read(x)[k - j] = 0
    BY <1>1
  <2> QED BY <1>5, <2>1
<1> HIDE DEF T
<1>7. T = Nat
  <2>1. T \subseteq Nat
    BY DEF T
  <2> QED BY <1>4, <1>6, <2>1, Upward
<1>8. ASSUME NEW i \in 0 .. k PROVE Read(x)[i] = 0
  <2>1. k - i \in T /\ k - i <= k /\ k - (k - i) = i
    BY <1>1, <1>7
  <2> QED BY <2>1 DEF T
<1>9. ASSUME NEW i \in 1 .. k PROVE x[i] = 0
  <2>1. k - i \in Nat /\ k - i < k /\ k - (k - i) = i /\ i \in 0 .. k
    BY <1>1
  <2>2. Read(x)[k - (k - i)] = 0
    BY <1>8, <2>1
  <2>3. x[k - (k - i)] = 0
    BY <1>5, <2>1, <2>2
  <2> QED BY <2>1, <2>3
<1> QED BY <1>8, <1>9

\* A view that shows every digit is recognised as zero when its number is.
LEMMA ShowsZero ==
  ASSUME NEW x, NEW h, NEW n, Reads(x, h, n), Fits(n), NEW view, Shows(view, x, h),
         Len(FracPart(view)) \in 0 .. Scale
  PROVE  IsZero(view) <=> n = 0
<1> DEFINE l == Len(FracPart(view))
           r == Read(x)
<1>1. /\ x \in Strings /\ h \in Nat \ {0} /\ Scale \in Nat /\ MaxChars \in Nat
      /\ h + 1 + Scale <= MaxChars /\ Ends = 2 * MaxChars /\ r \in [0 .. Ends -> Nat]
      /\ n \in Nat /\ n = r[h + Scale]
  BY ReadsIn
<1>2. ToInt(IntPart(view)) = r[h]
  BY <1>1, ShowsInt
<1>3. /\ l = (IF Len(view) > h THEN Len(view) - h - 1 ELSE 0) /\ Len(view) \in Nat
      /\ h <= Len(view) /\ \A i \in 1 .. l : FracPart(view)[i] = x[h + i]
  <2>1. Len(view) \in Nat /\ h \in 1 .. Len(view)
    BY LenProperties DEF Shows
  <2>2. /\ l = (IF Len(view) > h THEN Len(view) - h - 1 ELSE 0)
        /\ \A i \in 1 .. l : FracPart(view)[i] = x[h + i]
    <3>1. /\ Len(FracPart(view)) = IF Len(view) > h THEN Len(view) - h - 1 ELSE 0
          /\ \A i \in 1 .. Len(FracPart(view)) : FracPart(view)[i] = x[h + i]
      <4>1. x \in Strings /\ Shows(view, x, h)
        BY <1>1
      <4> QED BY ONLY <4>1, ShowsParts
    <3> QED BY Zenon, <3>1
  <2> HIDE DEF l
  <2> QED BY <1>1, <2>1, <2>2
<1>4. Wrap \in Nat \ {0}
  BY DecimalAssumption
<1>5. l \in Nat /\ l <= Scale
  BY <1>1
<1> HIDE DEF r, l
<1>6. CASE r[h] # 0
  <2>1. h + Scale \in 0 .. Ends /\ h \in 0 .. h + Scale
    BY <1>1
  <2>2. n # 0
    BY <1>1, <1>6, <2>1, ZeroDigits DEF r
  <2> QED BY <1>2, <1>6, <2>2 DEF IsZero
<1>7. CASE r[h] = 0
  <2>1. h + l <= Ends /\ h + l \in 0 .. Ends
    BY <1>1, <1>5
  <2>2. Value(FracPart(view)) = r[h + l]
    <3>1. \A i \in 1 .. l : FracPart(view)[i] = x[h + i]
      BY <1>3
    <3> QED BY <1>1, <1>5, <1>7, <2>1, <3>1, ValueRead DEF r, l
  <2> DEFINE j == Scale - l
             g == h + l
  <2>3. j \in 0 .. Scale /\ g \in Nat /\ g = h + l /\ g + j <= Ends /\ g + j = h + Scale
    BY <1>1, <1>5
  <2>4. Powers[j] \in Nat \ {0}
    BY <2>3, PowersAre
  <2> HIDE DEF j, g
  <2>5. ASSUME NEW i \in g + 1 .. g + j PROVE x[i] = 0
    <3>1. i \in 1 .. Ends /\ i > h
      BY <1>1, <1>5, <2>3
    <3>2. i >= Len(view)
      BY <1>1, <1>3, <1>5, <2>3
    <3> QED BY <3>1, <3>2 DEF Shows
  <2>6. n = r[g] * Powers[j] /\ r[g] \in Nat
    <3>1. Read(x)[g] \in Nat /\ Read(x)[g + j] = Read(x)[g] * Powers[j]
      BY <1>1, <2>3, <2>5, ReadMore
    <3> QED BY <1>1, <2>3, <3>1 DEF r
  <2>7. r[g] <= n /\ (n = 0 <=> r[g] = 0)
    <3> DEFINE u == r[g]
               w == Powers[j]
    <3>1. u \in Nat /\ w \in Nat \ {0} /\ n = u * w
      BY <2>4, <2>6
    <3> HIDE DEF u, w
    <3>2. u <= n /\ (n = 0 <=> u = 0)
      BY <3>1, Z3
    <3> QED BY <3>2 DEF u
  <2>8. n < Wrap
    <3>1. 0 \in 0 .. Scale /\ h + 0 = h
      BY <1>1
    <3>2. Unit(0) \in Nat \ {0} /\ n % Unit(0) = n - r[h] * Unit(0)
      BY <3>1, ReadsUnits DEF r
    <3>3. n % Unit(0) = n
      BY <1>1, <1>7, <3>2
    <3> QED BY <3>3 DEF Fits
  <2>9. r[g] % Wrap = r[g]
    <3>1. r[g] < Wrap
      BY <1>1, <1>4, <2>6, <2>7, <2>8
    <3>2. \A v, w \in Nat : v < w => v % w = v
      OBVIOUS
    <3> QED BY <1>4, <2>6, <3>1, <3>2
  <2>10. ToInt(FracPart(view)) = r[g]
    BY <2>2, <2>9 DEF ToInt, g
  <2> QED BY <1>2, <1>7, <2>7, <2>10 DEF IsZero
<1> QED BY <1>6, <1>7

\* The object of a zero, whose size is not that of what was kept.
LEMMA ZeroObject ==
  ASSUME NEW d \in Object, d.size = 3, \A i \in 1 .. MaxChars : d.chars[i] = 0 \/ (i = 2 /\ d.chars[i] = Point)
  PROVE  Stands(d, 0)
<1>1. /\ MaxChars \in Nat /\ Scale \in Nat /\ Scale + 4 <= MaxChars /\ Ends = 2 * MaxChars
      /\ \A i \in 1 .. Ends : NoDigits[i] = 0
  BY DecimalAssumption, NumbersAssumption DEF NoDigits, Ends
<1>2. CASE d.chars[2] = Point
  <2>1. Reads(NoDigits, 1, 0)
    BY <1>1, NoDigitsRead
  <2>2. d.chars[1] = 0 /\ \A i \in 3 .. MaxChars : d.chars[i] = 0
    BY <1>1
  <2>3. Holds(d, NoDigits, 1)
    BY <1>1, <1>2, <2>2 DEF Holds
  <2> QED BY <2>1, <2>3 DEF Stands
<1>3. CASE d.chars[2] # Point
  <2>1. Reads(NoDigits, 3, 0)
    BY <1>1, NoDigitsRead
  <2>2. \A i \in 1 .. MaxChars : d.chars[i] = 0
    BY <1>3
  <2>3. Holds(d, NoDigits, 3)
    BY <1>1, <2>2 DEF Holds, Zero
  <2> QED BY <2>1, <2>3 DEF Stands
<1> QED BY <1>2, <1>3

\* Filling the buffer behind a view, and leaving out the zeros that end its fraction.
Filled(out) == [chars |-> [i \in 1 .. MaxChars |-> IF i <= Len(out) THEN out[i] ELSE Zero],
                size |-> Trimmed(out), own |-> TRUE]

\* Only zeros are left out behind the view.
LEMMA TrimmedIs ==
  ASSUME NEW x \in Strings, NEW view, NEW h, Shows(view, x, h)
  PROVE  /\ Trimmed(view) \in h .. Len(view)
         /\ \A i \in 1 .. Ends : i > h /\ i >= Trimmed(view) => x[i] = 0
<1> DEFINE n == Len(view)
<1>1. /\ view \in Seq(Char) /\ n \in Nat /\ h \in Nat \ {0} /\ h <= n /\ n <= MaxChars
      /\ (n > h => view[h + 1] = Point) /\ MaxChars \in Nat /\ Ends = 2 * MaxChars
      /\ \A i \in h + 2 .. n : view[i] = x[i - 1]
      /\ \A i \in 1 .. Ends : i > h /\ i >= n => x[i] = 0
  BY EndsIs, LenProperties DEF Shows, Ends
<1>2. PointAt(view) = h + 1 /\ (HasPoint(view) <=> n > h)
  BY ShowsPoint
<1> HIDE DEF n
<1>3. CASE n = h
  <2>1. Trimmed(view) = n
    BY <1>1, <1>2, <1>3 DEF Trimmed, n
  <2> QED BY <1>1, <1>3, <2>1 DEF n
<1>4. CASE n > h
  <2> DEFINE Ok(i) == view[i] # Zero /\ \A j \in i + 1 .. n : view[j] = Zero
             S == {k \in Nat : h + 1 <= n - k /\ view[n - k] # 0}
  <2>1. n - (h + 1) \in S
    BY <1>1, <1>4 DEF Point
  <2>2. PICK k \in S : \A m \in S : k <= m
    <3>1. S \in SUBSET Nat /\ S # {}
      BY <2>1
    <3> HIDE DEF S
    <3> QED BY <3>1, Least
  <2> DEFINE u == n - k
  <2>3. u \in h + 1 .. n /\ view[u] # 0
    BY <1>1, <2>2
  <2>4. ASSUME NEW j \in u + 1 .. n PROVE view[j] = 0
    <3>1. n - j \in Nat /\ h + 1 <= n - (n - j) /\ n - (n - j) = j /\ ~(k <= n - j)
      BY <1>1, <2>2, <2>3
    <3>2. n - j \notin S
      BY <2>2, <3>1
    <3> QED BY <3>1, <3>2
  <2> HIDE DEF u
  <2>5. Ok(u)
    BY <2>3, <2>4 DEF Zero
  <2>6. \A i, j \in h + 1 .. n : Ok(i) /\ Ok(j) => i = j
    <3>1. ASSUME NEW i \in h + 1 .. n, NEW j \in h + 1 .. n, Ok(i), Ok(j), i < j PROVE FALSE
      <4>1. j \in i + 1 .. n
        BY <1>1, <3>1
      <4> QED BY <3>1, <4>1
    <3> QED BY <1>1, <3>1
  <2> DEFINE last == CHOOSE i \in h + 1 .. n : Ok(i)
  <2>7. last = u
    <3> HIDE DEF Ok
    <3> QED BY <2>3, <2>5, <2>6
  <2>8. Trimmed(view) = IF last = h + 1 THEN last - 1 ELSE last
    BY <1>2, <1>4 DEF Trimmed, n
  <2> HIDE DEF last
  <2>9. Trimmed(view) = IF u = h + 1 THEN h ELSE u
    BY <1>1, <2>3, <2>7, <2>8
  <2>10. ASSUME NEW i \in 1 .. Ends, i > h, i >= Trimmed(view) PROVE x[i] = 0
    <3>1. CASE i >= n
      BY <1>1, <2>10, <3>1
    <3>2. CASE i < n
      <4>1. i >= u /\ i + 1 \in u + 1 .. n /\ i + 1 \in h + 2 .. n /\ (i + 1) - 1 = i
        BY <1>1, <2>3, <2>9, <2>10, <3>2
      <4>2. view[i + 1] = x[(i + 1) - 1]
        BY <1>1, <4>1
      <4> QED BY <2>4, <4>1, <4>2
    <3> QED BY <1>1, <3>1, <3>2
  <2> QED BY <1>1, <2>3, <2>9, <2>10 DEF n
<1> QED BY <1>1, <1>3, <1>4

\* The buffer after the constructor has filled it.
LEMMA FilledIs ==
  ASSUME NEW out \in Seq(Char)
  PROVE  /\ [i \in 1 .. MaxChars |-> IF i <= Len(out) THEN out[i] ELSE Zero] \in [1 .. MaxChars -> Char]
         /\ \A i \in 1 .. MaxChars :
              [j \in 1 .. MaxChars |-> IF j <= Len(out) THEN out[j] ELSE Zero][i]
                = IF i <= Len(out) THEN out[i] ELSE 0
<1>1. Len(out) \in Nat /\ \A i \in 1 .. Len(out) : out[i] \in Char
  BY LenProperties
<1>2. MaxChars \in Nat /\ 0 \in Char
  BY EndsIs DEF Char
<1>3. \A i \in 1 .. MaxChars : i <= Len(out) => out[i] \in Char
  BY <1>1, <1>2
<1> QED BY <1>2, <1>3 DEF Zero

\* The object the constructor makes of what it kept holds the digits.
LEMMA TrimmedHolds ==
  ASSUME NEW x \in Strings, NEW out, NEW h, Shows(out, x, h), h + 1 <= MaxChars
  PROVE  Holds(Filled(out), x, h)
<1> DEFINE n == Len(out)
           size == Trimmed(out)
           d == Filled(out)
           c == [i \in 1 .. MaxChars |-> IF i <= Len(out) THEN out[i] ELSE Zero]
<1>1. /\ out \in Seq(Char) /\ n \in Nat /\ h \in Nat \ {0} /\ h <= n /\ n <= MaxChars
      /\ \A i \in 1 .. h : out[i] = x[i]
      /\ (n > h => out[h + 1] = Point) /\ MaxChars \in Nat /\ Ends = 2 * MaxChars
      /\ \A i \in h + 2 .. n : out[i] = x[i - 1]
      /\ \A i \in 1 .. Ends : i > h /\ i >= n => x[i] = 0
  BY EndsIs, LenProperties DEF Shows, Ends
<1>2. size \in h .. n /\ \A i \in 1 .. Ends : i > h /\ i >= size => x[i] = 0
  BY TrimmedIs
<1>3. c \in [1 .. MaxChars -> Char] /\ \A i \in 1 .. MaxChars : c[i] = IF i <= n THEN out[i] ELSE 0
  BY <1>1, FilledIs
<1>4. d = [chars |-> c, size |-> size, own |-> TRUE]
  BY DEF Filled
<1> HIDE DEF c, size, d
<1>5. d \in Object /\ d.chars = c /\ d.size = size
  BY <1>1, <1>2, <1>3, <1>4 DEF Object
<1> HIDE DEF n
<1>6. size \in h .. MaxChars
  BY <1>1, <1>2
<1>7. ASSUME NEW i \in 1 .. h PROVE c[i] = x[i]
  BY <1>1, <1>3
<1>8. c[h + 1] \in {Point, Zero} /\ (size > h => c[h + 1] = Point)
  <2>1. h + 1 \in 1 .. MaxChars
    BY <1>1
  <2>2. c[h + 1] = IF n > h THEN Point ELSE 0
    BY <1>1, <1>3, <2>1
  <2> QED BY <1>1, <1>2, <2>2 DEF Zero
<1>9. ASSUME NEW i \in h + 2 .. MaxChars PROVE c[i] = x[i - 1]
  <2>1. CASE i <= n
    BY <1>1, <1>3, <2>1
  <2>2. CASE i > n
    <3>1. i - 1 \in 1 .. Ends /\ i - 1 > h /\ i - 1 >= n /\ i \in 1 .. MaxChars
      BY <1>1, <2>2
    <3> QED BY <1>1, <1>3, <2>2, <3>1
  <2> QED BY <1>1, <2>1, <2>2
<1>10. Holds(d, x, h)
  BY <1>2, <1>5, <1>6, <1>7, <1>8, <1>9 DEF Holds
<1> QED BY <1>10 DEF d

\* Nothing at all is a zero.
LEMMA NothingIsZero == IsZero(<<>>)
<1>1. ~HasPoint(<<>>)
  BY DEF HasPoint, Range
<1>2. <<>> \in Seq(Char) /\ Len(<<>>) = 0
  BY EmptySeq
<1>3. IntPart(<<>>) = <<>> /\ FracPart(<<>>) = <<>>
  <2>1. PointAt(<<>>) = 1
    BY <1>1, <1>2 DEF PointAt
  <2>2. SubSeq(<<>>, 1, 0) = <<>> /\ SubSeq(<<>>, 2, 0) = <<>>
    OBVIOUS
  <2> QED BY <1>2, <2>1, <2>2 DEF IntPart, FracPart
<1>4. NoDigits \in Strings
  BY DEF NoDigits, Strings
<1>5. Read(NoDigits)[0] = 0 /\ Ends \in Nat
  BY <1>4, ReadIs, EndsIs
<1>6. Value(<<>>) = Read(NoDigits)[0 + 0]
  <2> DEFINE s == <<>>
  <2>1. Len(s) = 0 /\ 0 + Len(s) <= Ends /\ \A i \in 1 .. Len(s) : s[i] = NoDigits[0 + i]
    BY <1>2, <1>5
  <2> HIDE DEF s
  <2>2. Value(s) = Read(NoDigits)[0 + Len(s)]
    BY <1>4, <1>5, <2>1, ValueRead
  <2> QED BY <2>1, <2>2 DEF s
<1>7. Value(<<>>) = 0
  BY <1>5, <1>6
<1>8. 0 % Wrap = 0
  BY DecimalAssumption
<1> QED BY <1>3, <1>7, <1>8 DEF IsZero, ToInt

\* The object of a zero: its characters are zeros, but for a point behind the first.
LEMMA NullObject ==
  ASSUME NEW out \in Seq(Char),
         \A i \in 1 .. Len(out) : out[i] = 0 \/ (i = 2 /\ out[i] = Point)
  PROVE  Stands([chars |-> [i \in 1 .. MaxChars |-> IF i <= Len(out) THEN out[i] ELSE Zero],
                 size |-> 3, own |-> FALSE], 0)
<1> DEFINE c == [i \in 1 .. MaxChars |-> IF i <= Len(out) THEN out[i] ELSE Zero]
           d == [chars |-> c, size |-> 3, own |-> FALSE]
<1>1. c \in [1 .. MaxChars -> Char] /\ \A i \in 1 .. MaxChars : c[i] = IF i <= Len(out) THEN out[i] ELSE 0
  BY FilledIs
<1> HIDE DEF c
<1>2. d \in Object /\ d.chars = c /\ d.size = 3
  BY <1>1 DEF Object
<1> HIDE DEF d
<1>3. \A i \in 1 .. MaxChars : d.chars[i] = 0 \/ (i = 2 /\ d.chars[i] = Point)
  <2>1. Len(out) \in Nat
    BY LenProperties
  <2> QED BY <1>1, <1>2, <2>1
<1>4. Stands(d, 0)
  BY <1>2, <1>3, ZeroObject
<1> QED BY <1>4 DEF d, c

\* The constructor makes the object of the number its text reads as.
LEMMA ParseStands ==
  ASSUME NEW t, NEW y, NEW a, NEW b, NEW point, IsText(t, y, a, b, point),
         Fits(Read(y)[a + Scale]), ParseText(t).state # "invalid"
  PROVE  Stands(Parse(t), Read(y)[a + Scale])
<1> DEFINE n == Read(y)[a + Scale]
           e == EndOf(a, b, point)
           out == ParseText(t).out
           null == [chars |-> [i \in 1 .. MaxChars |-> IF i <= Len(out) THEN out[i] ELSE Zero],
                    size |-> 3, own |-> FALSE]
<1>1. /\ t \in Seq(Char) /\ Len(t) \in Nat /\ a \in Nat \ {0} /\ b \in Nat /\ b <= Scale
      /\ Scale \in Nat /\ MaxChars \in Nat /\ Ends = 2 * MaxChars
      /\ a + 1 + Scale <= MaxChars /\ y \in Strings /\ (~point => b = 0)
      /\ e \in Nat /\ a <= e /\ e <= Len(t) /\ (point => e = a + 1 + b) /\ (~point => e = a)
  BY TextIs
<1>2. \A i \in 1 .. Ends : i > a + b => y[i] = 0
  BY DEF IsText
<1>3. PICK z \in Nat : Leading(z, Len(t), y, a, point) /\ out = SubSeq(t, z + 1, e)
  BY ParseOut
<1>4. Parse(t) = IF IsZero(out) THEN null ELSE Filled(out)
  BY DEF Parse, Filled
<1>5. z <= a /\ z <= Len(t) /\ \A i \in 1 .. z : y[i] = 0
  BY <1>1, <1>3 DEF Leading
<1> HIDE DEF n, e, out, null
<1>6. a + Scale \in 0 .. Ends
  BY <1>1
<1>7. CASE z < a
  <2> DEFINE x == Shift(y, z)
             h == a - z
  <2>1. h \in Nat \ {0} /\ h + 1 <= MaxChars /\ h + 1 + Scale <= MaxChars
    BY <1>1, <1>7
  <2>2. Reads(x, h, n)
    <3>1. \A i \in 1 .. Ends : i > a + Scale => y[i] = 0
      BY <1>1, <1>2
    <3> QED BY <1>1, <1>5, <1>7, <3>1, ShiftReads DEF n
  <2>3. Shows(out, x, h) /\ Len(FracPart(out)) \in 0 .. Scale
    BY <1>3, <1>7, OutShows DEF e
  <2> HIDE DEF x
  <2>4. IsZero(out) <=> n = 0
    BY <2>2, <2>3, ShowsZero DEF n
  <2>5. x \in Strings
    BY <2>2, ReadsIn
  <2>6. CASE n # 0
    <3>1. Holds(Filled(out), x, h)
      BY <2>1, <2>3, <2>5, TrimmedHolds
    <3>2. Filled(out).own
      BY DEF Filled
    <3>3. Stands(Filled(out), n)
      BY <2>2, <3>1, <3>2 DEF Stands
    <3> QED BY <1>4, <2>4, <2>6, <3>3 DEF n
  <2>7. CASE n = 0
    <3>1. \A i \in 1 .. a + Scale : y[i] = 0
      BY <1>1, <1>6, <2>7, ZeroDigits DEF n
    <3>2. y[z + 1] = 0
      BY <1>1, <1>7, <3>1
    <3>3. z = a - 1
      BY <1>1, <1>3, <1>7, <3>2 DEF Leading
    <3>4. h = 1
      BY <1>1, <3>3
    <3>5. \A i \in 1 .. Ends : x[i] = 0
      <4>1. ASSUME NEW i \in 1 .. Ends, z + i <= Ends PROVE y[z + i] = 0
        <5>1. z + i \in 1 .. Ends /\ (z + i \in 1 .. a + Scale \/ z + i > a + b)
          BY <1>1, <4>1
        <5> QED BY <1>2, <3>1, <5>1
      <4>2. /\ \A i \in 1 .. Ends : z + i <= Ends => x[i] = y[z + i]
            /\ \A i \in 1 .. Ends : z + i > Ends => x[i] = 0
        BY <1>1, ShiftIs DEF x
      <4> QED BY <1>1, <4>1, <4>2
    <3>6. /\ out \in Seq(Char) /\ Len(out) \in Nat /\ Len(out) <= MaxChars
          /\ \A i \in 1 .. h : out[i] = x[i]
          /\ (Len(out) > h => out[h + 1] = Point)
          /\ \A i \in h + 2 .. Len(out) : out[i] = x[i - 1]
      BY <2>3, LenProperties DEF Shows
    <3> HIDE DEF h
    <3>7. ASSUME NEW i \in 1 .. Len(out) PROVE out[i] = 0 \/ (i = 2 /\ out[i] = Point)
      <4>1. CASE i = 1
        BY <1>1, <3>4, <3>5, <3>6, <4>1
      <4>2. CASE i = 2
        BY <3>4, <3>6, <4>2
      <4>3. CASE i >= 3
        <5>1. i \in h + 2 .. Len(out) /\ i - 1 \in 1 .. Ends
          BY <1>1, <3>4, <3>6, <4>3
        <5> QED BY <3>5, <3>6, <5>1
      <4> QED BY <3>6, <4>1, <4>2, <4>3
    <3>8. Stands(null, 0)
      BY <3>6, <3>7, NullObject DEF null
    <3> QED BY <1>4, <2>4, <2>7, <3>8 DEF n
  <2> QED BY <2>6, <2>7
<1>8. CASE z = a
  <2>1. ~point /\ e = a /\ b = 0
    BY <1>1, <1>3, <1>8 DEF Leading
  <2>2. out = <<>>
    BY <1>1, <1>3, <1>8, <2>1, SubSeqGrows
  <2>3. ASSUME NEW i \in 1 .. a + Scale PROVE y[i] = 0
    <3>1. i \in 1 .. Ends /\ (i \in 1 .. z \/ i > a + b)
      BY <1>1, <1>8, <2>1
    <3> QED BY <1>2, <1>5, <3>1
  <2>4. n = 0
    BY <1>1, <1>6, <2>3, ZerosRead DEF n
  <2>5. out \in Seq(Char) /\ Len(out) = 0
    BY <2>2, EmptySeq
  <2>6. Stands(null, 0)
    <3>1. \A i \in 1 .. Len(out) : out[i] = 0 \/ (i = 2 /\ out[i] = Point)
      BY <2>5
    <3> QED BY <2>5, <3>1, NullObject DEF null
  <2>7. IsZero(out)
    BY <2>2, NothingIsZero
  <2> QED BY <1>4, <2>4, <2>6, <2>7 DEF n
<1> QED BY <1>1, <1>5, <1>7, <1>8

\* A copy owns its buffer, and stands for the same number.
LEMMA CopyStands ==
  ASSUME NEW d, NEW n, Stands(d, n)
  PROVE  Stands(CopyOf(d), n) /\ CopyOf(d).own
<1>1. PICK x, h : Reads(x, h, n) /\ Holds(d, x, h)
  BY DEF Stands
<1> DEFINE c == CopyOf(d)
<1>2. c \in Object /\ c.own /\ c.chars = d.chars /\ c.size = d.size
  BY <1>1 DEF CopyOf, Object, Holds
<1> HIDE DEF c
<1>3. Holds(c, x, h)
  BY <1>1, <1>2 DEF Holds
<1> QED BY <1>1, <1>2, <1>3 DEF Stands, c

\* So does the object that was fed to a checksum.
LEMMA MarkedStands ==
  ASSUME NEW d, NEW n, Stands(d, n), d.own
  PROVE  Stands(Marked(d), n)
<1>1. PICK x, h : Reads(x, h, n) /\ Holds(d, x, h)
  BY DEF Stands
<1>2. x \in Strings /\ h \in Nat \ {0} /\ h + 1 <= MaxChars
  BY <1>1, ReadsIn
<1>3. Holds(Marked(d), x, h) /\ Marked(d).own
  BY <1>1, <1>2, MarkedHolds
<1> QED BY <1>1, <1>3 DEF Stands

\* What str prints: the digits up to the precision, whatever the view shows.
LEMMA StrIs ==
  ASSUME NEW x, NEW h, NEW n, Reads(x, h, n), NEW d, Shows(View(d), x, h), NEW p \in 0 .. Scale
  PROVE  /\ Str(d, p) \in Seq(Char) /\ Len(Str(d, p)) = h + 1 + p
         /\ \A i \in 1 .. h : Str(d, p)[i] = x[i]
         /\ Str(d, p)[h + 1] = Point
         /\ \A i \in h + 2 .. h + 1 + p : Str(d, p)[i] = x[i - 1]
<1> DEFINE view == View(d)
           l == Len(view)
           after == Len(view) - PointAt(view)
           s == Str(d, p)
           Printed(q) == /\ q \in Seq(Char) /\ Len(q) = h + 1 + p
                         /\ \A i \in 1 .. h : q[i] = x[i]
                         /\ q[h + 1] = Point
                         /\ \A i \in h + 2 .. h + 1 + p : q[i] = x[i - 1]
<1>1. /\ x \in Strings /\ h \in Nat \ {0} /\ Scale \in Nat /\ MaxChars \in Nat
      /\ h + 1 + Scale <= MaxChars /\ Ends = 2 * MaxChars /\ p \in Nat /\ p <= Scale
  BY ReadsIn
<1>2. /\ view \in Seq(Char) /\ l \in Nat /\ h <= l
      /\ \A i \in 1 .. l : view[i] \in Char
      /\ \A i \in 1 .. h : view[i] = x[i]
      /\ (l > h => view[h + 1] = Point)
      /\ \A i \in h + 2 .. l : view[i] = x[i - 1]
      /\ \A i \in 1 .. Ends : i > h /\ i >= l => x[i] = 0
  BY LenProperties DEF Shows
<1>3. PointAt(view) = h + 1 /\ (HasPoint(view) <=> l > h)
  BY <1>1, ShowsPoint
<1>4. ASSUME NEW k \in Nat
      PROVE  /\ Zeros(k) \in Seq(Char) /\ Len(Zeros(k)) = k /\ \A i \in 1 .. k : Zeros(k)[i] = 0
  <2>1. Zeros(k) \in [1 .. k -> Char] /\ \A i \in 1 .. k : Zeros(k)[i] = 0
    BY DEF Zeros, Zero, Char
  <2> HIDE DEF Zeros
  <2> QED BY <2>1, SeqDef, LenProperties
<1>5. after = l - (h + 1)
  BY <1>3
<1>6. s = IF ~HasPoint(view) THEN Append(view, Point) \o Zeros(p)
          ELSE IF p > after THEN view \o Zeros(p - after) ELSE SubSeq(view, 1, PointAt(view) + p)
  BY DEF Str
<1> HIDE DEF view, l, after, s
<1>7. CASE l = h
  <2> DEFINE u == Append(view, Point)
             v == Zeros(p)
             q == u \o v
  <2>1. Point \in Char
    BY DEF Point, Char
  <2>2. /\ u \in Seq(Char) /\ Len(u) = h + 1 /\ u[h + 1] = Point
        /\ \A i \in 1 .. h : u[i] = view[i]
    BY <1>2, <1>7, <2>1, AppendProperties DEF l
  <2>3. v \in Seq(Char) /\ Len(v) = p /\ \A i \in 1 .. p : v[i] = 0
    BY <1>1, <1>4
  <2> HIDE DEF u, v
  <2>4. /\ q \in Seq(Char) /\ Len(q) = Len(u) + Len(v)
        /\ \A i \in 1 .. Len(u) + Len(v) : q[i] = IF i <= Len(u) THEN u[i] ELSE v[i - Len(u)]
    BY <2>2, <2>3, ConcatProperties
  <2> HIDE DEF q
  <2>5. \A i \in 1 .. h : q[i] = x[i]
    BY <1>1, <1>2, <2>2, <2>3, <2>4
  <2>6. q[h + 1] = Point
    BY <1>1, <2>2, <2>3, <2>4
  <2>7. ASSUME NEW i \in h + 2 .. h + 1 + p PROVE q[i] = x[i - 1]
    <3>1. q[i] = 0
      <4>1. i \in 1 .. Len(u) + Len(v) /\ ~(i <= Len(u)) /\ i - Len(u) \in 1 .. p
        BY <1>1, <2>2, <2>3
      <4> QED BY <2>3, <2>4, <4>1
    <3>2. i - 1 \in 1 .. Ends /\ i - 1 > h /\ i - 1 >= l
      BY <1>1, <1>7
    <3> QED BY <1>2, <3>1, <3>2
  <2>8. q \in Seq(Char) /\ Len(q) = h + 1 + p
    BY <1>1, <2>2, <2>3, <2>4
  <2>9. s = q
    <3>1. ~HasPoint(view)
      BY <1>1, <1>2, <1>3, <1>7
    <3> QED BY <1>6, <3>1 DEF q, u, v
  <2>10. Printed(q)
    BY <2>5, <2>6, <2>7, <2>8
  <2> QED BY <2>9, <2>10 DEF s
<1>8. CASE l > h /\ p > after
  <2> DEFINE v == Zeros(p - after)
             q == view \o v
  <2>1. after \in Nat /\ p - after \in Nat
    BY <1>1, <1>2, <1>5, <1>8
  <2>2. v \in Seq(Char) /\ Len(v) = p - after /\ \A i \in 1 .. p - after : v[i] = 0
    BY <1>4, <2>1
  <2> HIDE DEF v
  <2>3. /\ q \in Seq(Char) /\ Len(q) = l + Len(v)
        /\ \A i \in 1 .. l + Len(v) : q[i] = IF i <= l THEN view[i] ELSE v[i - l]
    BY <1>2, <2>2, ConcatProperties DEF l
  <2> HIDE DEF q
  <2>4. Len(q) = h + 1 + p
    BY <1>1, <1>2, <1>5, <2>1, <2>2, <2>3
  <2>5. \A i \in 1 .. h : q[i] = x[i]
    BY <1>1, <1>2, <2>2, <2>3, <2>4
  <2>6. q[h + 1] = Point
    BY <1>1, <1>2, <1>8, <2>3, <2>4
  <2>7. ASSUME NEW i \in h + 2 .. h + 1 + p PROVE q[i] = x[i - 1]
    <3>1. CASE i <= l
      <4>1. i \in h + 2 .. l /\ i \in 1 .. l + Len(v)
        BY <1>1, <1>2, <2>3, <2>4, <3>1
      <4> QED BY <1>2, <2>3, <3>1, <4>1
    <3>2. CASE i > l
      <4>1. q[i] = 0
        <5>1. i \in 1 .. l + Len(v) /\ ~(i <= l) /\ i - l \in 1 .. p - after
          BY <1>1, <1>2, <1>5, <2>1, <2>2, <2>3, <2>4, <3>2
        <5> QED BY <2>2, <2>3, <5>1
      <4>2. i - 1 \in 1 .. Ends /\ i - 1 > h /\ i - 1 >= l
        BY <1>1, <1>2, <3>2
      <4> QED BY <1>2, <4>1, <4>2
    <3> QED BY <1>1, <1>2, <3>1, <3>2
  <2>8. s = q
    BY <1>3, <1>6, <1>8 DEF q, v
  <2>9. Printed(q)
    BY <2>3, <2>4, <2>5, <2>6, <2>7
  <2> QED BY <2>8, <2>9 DEF s
<1>9. CASE l > h /\ ~(p > after)
  <2> DEFINE m == h + 1 + p
             q == SubSeq(view, 1, m)
  <2>1. m \in Nat /\ m <= l /\ h + 1 <= m
    BY <1>1, <1>2, <1>5, <1>9
  <2>2. \A i \in 1 .. m : view[i] \in Char
    BY <1>2, <2>1
  <2>3. /\ q \in Seq(Char) /\ Len(q) = m
        /\ \A i \in 1 .. m : q[i] = view[i]
    <3> HIDE DEF m
    <3> QED BY <1>2, <2>1, <2>2, SubSeqProperties DEF l
  <2> HIDE DEF q
  <2>4. \A i \in 1 .. h : q[i] = x[i]
    BY <1>1, <1>2, <2>1, <2>3
  <2>5. q[h + 1] = Point
    BY <1>1, <1>2, <1>9, <2>1, <2>3
  <2>6. ASSUME NEW i \in h + 2 .. m PROVE q[i] = x[i - 1]
    <3>1. i \in 1 .. m /\ i \in h + 2 .. l
      BY <1>1, <1>2, <2>1
    <3> QED BY <1>2, <2>3, <3>1
  <2>7. s = q
    BY <1>1, <1>3, <1>6, <1>9 DEF q
  <2>8. Printed(q)
    BY <2>3, <2>4, <2>5, <2>6
  <2> QED BY <2>7, <2>8 DEF s
<1> QED BY <1>1, <1>2, <1>7, <1>8, <1>9

\* The digits of a string up to the k-th.
FirstOf(x, k) == [i \in 1 .. Ends |-> IF i <= k THEN x[i] ELSE 0]

\* They read as the number cut off, which fits if the number does.
LEMMA FirstReads ==
  ASSUME NEW x, NEW h, NEW n, Reads(x, h, n), NEW p \in 0 .. Scale
  PROVE  /\ Reads(FirstOf(x, h + p), h, Cut(n, p))
         /\ Fits(n) => Fits(Cut(n, p))
         /\ \A i \in 1 .. Ends : i <= h + p => FirstOf(x, h + p)[i] = x[i]
         /\ \A i \in 1 .. Ends : i > h + p => FirstOf(x, h + p)[i] = 0
<1> DEFINE y == FirstOf(x, h + p)
           k == h + p
           j == Scale - p
<1>1. /\ x \in Strings /\ h \in Nat \ {0} /\ Scale \in Nat /\ MaxChars \in Nat
      /\ h + 1 + Scale <= MaxChars /\ Ends = 2 * MaxChars /\ p \in Nat /\ p <= Scale
      /\ \A i \in 1 .. Ends : x[i] \in 0 .. 9
  BY ReadsIn
<1>2. y \in [1 .. Ends -> 0 .. 9] /\ \A i \in 1 .. Ends : y[i] = IF i <= k THEN x[i] ELSE 0
  BY <1>1 DEF FirstOf
<1>3. y \in Strings
  BY <1>2 DEF Strings
<1> HIDE DEF y
<1>4. k \in Nat /\ h <= k /\ k + j = h + Scale /\ k + j <= Ends /\ j \in 0 .. Scale
  BY <1>1
<1> HIDE DEF k, j
<1>5. Read(x)[0] = 0 /\ Read(y)[0] = 0 /\ \A i \in 1 .. Ends : Read(y)[i] = 10 * Read(y)[i - 1] + y[i]
  BY <1>1, <1>3, ReadIs
<1>6. \A i \in 1 .. k : Read(y)[i] = 10 * Read(y)[i - 1] + x[0 + i]
  <2>1. \A i \in 1 .. k : i \in 1 .. Ends /\ i <= k /\ 0 + i = i
    BY <1>1, <1>4
  <2> QED BY <1>2, <1>5, <2>1
<1>7. ReadsFrom(Read(y), k, x, 0)
  BY <1>5, <1>6 DEF ReadsFrom
<1>8. \A i \in 0 .. k : Read(y)[i] = Read(x)[0 + i]
  <2>1. 0 + k <= Ends
    BY <1>1, <1>4
  <2> QED BY <1>1, <1>4, <1>7, <2>1, Along
<1>9. Read(y)[k] = Read(x)[k] /\ Read(y)[h] = Read(x)[h]
  <2>1. k \in 0 .. k /\ h \in 0 .. k /\ 0 + k = k /\ 0 + h = h
    BY <1>1, <1>4
  <2> QED BY <1>8, <2>1
<1>10. Read(y)[k + j] = Read(y)[k] * Powers[j]
  <2>1. \A i \in k + 1 .. k + j : y[i] = 0
    <3>1. \A i \in k + 1 .. k + j : i \in 1 .. Ends /\ ~(i <= k)
      BY <1>1, <1>4
    <3> QED BY <1>2, <3>1
  <2> QED BY <1>3, <1>4, <2>1, ReadMore
<1>11. Cut(n, p) = Read(x)[k] * Powers[j]
  BY ReadsUnits DEF Unit, k, j
<1>12. Cut(n, p) = Read(y)[h + Scale]
  BY <1>4, <1>9, <1>10, <1>11
<1>13. \A i \in 1 .. Ends : i > h + Scale => y[i] = 0
  BY <1>1, <1>2, <1>4
<1>14. Reads(y, h, Cut(n, p))
  BY <1>1, <1>3, <1>12, <1>13 DEF Reads
<1>15. ASSUME Fits(n) PROVE Fits(Cut(n, p))
  <2> DEFINE c == Cut(n, p)
             a == Read(x)[h]
             u == Unit(0)
  <2>1. 0 \in 0 .. Scale /\ h + 0 = h
    BY <1>1
  <2>2. /\ a \in Nat /\ u \in Nat \ {0} /\ n \div u = a /\ n % u = n - a * u
        /\ c \in Nat /\ c <= n
    BY <2>1, ReadsUnits
  <2>3. c \div u = a /\ c % u = c - a * u
    BY <1>9, <1>14, <2>1, ReadsUnits
  <2>4. n \in Nat /\ Wrap \in Nat
    BY ReadsIn, DecimalAssumption
  <2> HIDE DEF c, a, u
  <2>5. a * u \in Nat
    BY <2>2
  <2>6. a < Wrap /\ n - a * u < Wrap
    BY <1>15, <2>2 DEF Fits, u
  <2>7. c - a * u < Wrap
    BY <2>2, <2>4, <2>5, <2>6
  <2> QED BY <2>3, <2>6, <2>7 DEF Fits, c, u
<1>16. \A i \in 1 .. Ends : i > k => y[i] = 0
  BY <1>1, <1>2, <1>4
<1>17. \A i \in 1 .. Ends : i <= k => y[i] = x[i]
  BY <1>2
<1> QED BY <1>14, <1>15, <1>16, <1>17 DEF y, k

\* What str prints is a text of the number cut off.
LEMMA StrText ==
  ASSUME NEW d, NEW n, Stands(d, n), Fits(n), NEW p \in 0 .. Scale
  PROVE  /\ Fits(Cut(n, p)) /\ Len(Str(d, p)) <= MaxChars
         /\ \E y, h : IsText(Str(d, p), y, h, p, TRUE) /\ Read(y)[h + Scale] = Cut(n, p)
<1>1. PICK x, h : Reads(x, h, n) /\ Shows(View(d), x, h)
  BY StandsShows
<1> DEFINE s == Str(d, p)
           y == FirstOf(x, h + p)
<1>2. /\ h \in Nat \ {0} /\ Scale \in Nat /\ MaxChars \in Nat
      /\ h + 1 + Scale <= MaxChars /\ Ends = 2 * MaxChars /\ p \in Nat /\ p <= Scale
  BY <1>1, ReadsIn
<1>3. /\ s \in Seq(Char) /\ Len(s) = h + 1 + p
      /\ \A i \in 1 .. h : s[i] = x[i]
      /\ s[h + 1] = Point
      /\ \A i \in h + 2 .. h + 1 + p : s[i] = x[i - 1]
  BY <1>1, StrIs
<1>4. Reads(y, h, Cut(n, p)) /\ Fits(Cut(n, p))
  BY <1>1, FirstReads
<1>5. /\ \A i \in 1 .. Ends : i <= h + p => y[i] = x[i]
      /\ \A i \in 1 .. Ends : i > h + p => y[i] = 0
  BY <1>1, FirstReads
<1> HIDE DEF s, y
<1>6. Len(s) <= MaxChars
  BY <1>2, <1>3
<1> DEFINE e == EndOf(h, p, TRUE)
<1>7. e = h + 1 + p
  BY DEF EndOf
<1> HIDE DEF e
<1>8. ASSUME NEW i \in 1 .. h PROVE s[i] = y[i]
  BY <1>2, <1>3, <1>5
<1>9. ASSUME NEW i \in h + 2 .. h + 1 + p PROVE s[i] = y[i - 1]
  <2>1. i - 1 \in 1 .. Ends /\ i - 1 <= h + p
    BY <1>2
  <2> QED BY <1>3, <1>5, <2>1
<1>10. \A i \in h + 1 + p + 1 .. Len(s) : s[i] = Blank
  BY <1>2, <1>3
<1>11. y \in Strings /\ Read(y)[h + Scale] = Cut(n, p)
  BY <1>4 DEF Reads
<1>12. /\ \A i \in h + 2 .. e : s[i] = y[i - 1]
       /\ \A i \in e + 1 .. Len(s) : s[i] = Blank
       /\ e <= Len(s)
  BY <1>2, <1>3, <1>7, <1>9, <1>10
<1>13. \A i \in 1 .. Ends : i > h + p => y[i] = 0
  BY <1>5
<1>14. IsText(s, y, h, p, TRUE)
  BY <1>2, <1>3, <1>8, <1>11, <1>12, <1>13 DEF IsText, e
<1> QED BY <1>4, <1>6, <1>11, <1>14 DEF s

-----------------------------------------------------------------------------
(* The texts the feeds and the files hold.                                  *)

\* Numbers without an exponent, as the feeds send them and the recorder writes them.
PlainTails == \A tail \in Tails : \A i \in DOMAIN tail : tail[i] = Blank

\* The digits of a part of a text.
LEMMA RunIs ==
  ASSUME NEW n \in {0, 1}, NEW s \in Runs(n)
  PROVE  /\ s \in Seq(0 .. 9) /\ Len(s) \in Nat /\ Len(s) >= n
         /\ Len(s) <= (IF n = 0 THEN Scale ELSE IntDigits)
         /\ \A i \in 1 .. Len(s) : s[i] \in 0 .. 9
<1>1. Scale \in Nat /\ IntDigits \in Nat /\ Digit \subseteq 0 .. 9
  BY NumbersAssumption, DecimalAssumption
<1>2. PICK k \in n .. (IF n = 0 THEN Scale ELSE IntDigits) : s \in [1 .. k -> Digit]
  BY DEF Runs
<1>3. k \in Nat
  BY <1>1
<1>4. s \in [1 .. k -> 0 .. 9]
  BY <1>1, <1>2
<1>5. s \in Seq(0 .. 9) /\ Len(s) = k
  BY <1>3, <1>4, SeqDef, LenProperties
<1> QED BY <1>1, <1>2, <1>3, <1>4, <1>5

\* The digits of a text.
TextDigits(text) ==
  [i \in 1 .. Ends |-> IF i <= Len(text.int) THEN text.int[i]
                       ELSE IF i <= Len(text.int) + Len(text.frac) THEN text.frac[i - Len(text.int)]
                       ELSE 0]

\* The parts of a text.
LEMMA TextParts ==
  ASSUME NEW text \in Texts, PlainTails
  PROVE  /\ text.int \in Seq(0 .. 9) /\ Len(text.int) \in Nat \ {0}
         /\ text.frac \in Seq(0 .. 9) /\ Len(text.frac) \in Nat /\ Len(text.frac) <= Scale
         /\ text.point \in BOOLEAN
         /\ text.suffix \in Seq(Char) /\ Len(text.suffix) \in Nat
         /\ \A i \in 1 .. Len(text.suffix) : text.suffix[i] = Blank
         /\ Len(text.int) + 1 + Scale <= MaxChars /\ Scale \in Nat /\ MaxChars \in Nat
         /\ Ends = 2 * MaxChars
         /\ \A i \in 1 .. Len(text.int) : text.int[i] \in 0 .. 9
         /\ \A i \in 1 .. Len(text.frac) : text.frac[i] \in 0 .. 9
<1>1. /\ text.int \in Runs(1) /\ text.frac \in Runs(0) /\ text.point \in BOOLEAN
      /\ text.suffix \in Tails
  BY DEF Texts
<1>2. /\ Scale \in Nat /\ MaxChars \in Nat /\ IntDigits \in Nat /\ Ends = 2 * MaxChars
      /\ IntDigits + Scale + 1 <= MaxChars
      /\ Tails \subseteq Seq({Exponent, Blank} \cup 0 .. 9)
  BY NumbersAssumption, DecimalAssumption DEF Ends
<1>3. /\ text.int \in Seq(0 .. 9) /\ Len(text.int) \in Nat /\ Len(text.int) >= 1
      /\ Len(text.int) <= IntDigits /\ \A i \in 1 .. Len(text.int) : text.int[i] \in 0 .. 9
  BY <1>1, RunIs
<1>4. /\ text.frac \in Seq(0 .. 9) /\ Len(text.frac) \in Nat
      /\ Len(text.frac) <= Scale /\ \A i \in 1 .. Len(text.frac) : text.frac[i] \in 0 .. 9
  BY <1>1, RunIs
<1> DEFINE s == text.suffix
           S == {Exponent, Blank} \cup 0 .. 9
<1>5. s \in Seq(S)
  BY <1>1, <1>2
<1>6. Len(s) \in Nat /\ DOMAIN s = 1 .. Len(s)
  <2> HIDE DEF s, S
  <2> QED BY <1>5, LenProperties
<1>7. \A i \in 1 .. Len(s) : s[i] = Blank
  BY <1>1, <1>6 DEF PlainTails
<1>8. S \subseteq Char
  BY DEF Exponent, Blank, Char
<1>9. s \in Seq(Char)
  <2> HIDE DEF s, S
  <2>1. s \in [1 .. Len(s) -> S]
    BY <1>5, <1>6, LenProperties
  <2>2. s \in [1 .. Len(s) -> Char]
    BY <1>8, <2>1
  <2> QED BY <1>6, <2>2, SeqDef
<1> QED BY <1>1, <1>2, <1>3, <1>4, <1>6, <1>7, <1>9

\* What is written is a text of these digits.
LEMMA CharsText ==
  ASSUME NEW text \in Texts, WellFormed(text), PlainTails
  PROVE  IsText(Chars(text), TextDigits(text), Len(text.int), Len(text.frac), text.point)
<1> DEFINE int == text.int
           frac == text.frac
           s == text.suffix
           a == Len(int)
           b == Len(frac)
           m == Len(s)
           point == text.point
           y == TextDigits(text)
           e == EndOf(a, b, point)
           mid == IF point THEN <<Point>> \o frac ELSE <<>>
           start == int \o mid
           t == Chars(text)
<1>1. /\ a \in Nat \ {0} /\ b \in Nat /\ b <= Scale /\ point \in BOOLEAN
      /\ s \in Seq(Char) /\ m \in Nat
      /\ \A i \in 1 .. m : s[i] = Blank
      /\ a + 1 + Scale <= MaxChars /\ Scale \in Nat /\ MaxChars \in Nat
      /\ Ends = 2 * MaxChars
      /\ \A i \in 1 .. a : int[i] \in 0 .. 9
      /\ \A i \in 1 .. b : frac[i] \in 0 .. 9
  BY TextParts
<1>2. int \in Seq(Char) /\ Len(int) = a /\ frac \in Seq(Char) /\ Len(frac) = b /\ Len(s) = m
  <2>1. ASSUME NEW q \in Seq(0 .. 9) PROVE q \in Seq(Char)
    <3>1. Len(q) \in Nat /\ q \in [1 .. Len(q) -> 0 .. 9]
      BY LenProperties
    <3>2. q \in [1 .. Len(q) -> Char]
      BY <3>1 DEF Char
    <3> QED BY <3>1, <3>2, SeqDef
  <2>2. int \in Seq(0 .. 9) /\ frac \in Seq(0 .. 9)
    BY TextParts
  <2> QED BY <2>1, <2>2
<1>3. ~point => b = 0
  <2>1. ~point => frac = <<>>
    BY DEF WellFormed
  <2> QED BY <1>2, <2>1, EmptySeq
<1>4. y = [i \in 1 .. Ends |-> IF i <= a THEN int[i] ELSE IF i <= a + b THEN frac[i - a] ELSE 0]
  BY DEF TextDigits
<1>5. t = start \o s
  BY DEF Chars
<1>6. e = IF point THEN a + 1 + b ELSE a
  BY DEF EndOf
<1> HIDE DEF int, frac, s, a, b, m, point, y, e, t
<1>7. /\ y \in [1 .. Ends -> 0 .. 9]
      /\ \A i \in 1 .. Ends : y[i] = IF i <= a THEN int[i] ELSE IF i <= a + b THEN frac[i - a] ELSE 0
  <2>1. ASSUME NEW i \in 1 .. Ends
        PROVE  (IF i <= a THEN int[i] ELSE IF i <= a + b THEN frac[i - a] ELSE 0) \in 0 .. 9
    <3>1. i <= a => int[i] \in 0 .. 9
      BY <1>1
    <3>2. ~(i <= a) /\ i <= a + b => frac[i - a] \in 0 .. 9
      <4>1. ~(i <= a) /\ i <= a + b => i - a \in 1 .. b
        BY <1>1
      <4> QED BY <1>1, <4>1
    <3> QED BY <3>1, <3>2
  <2> QED BY <1>4, <2>1
<1>8. y \in Strings
  BY <1>7 DEF Strings
<1>9. /\ e \in Nat /\ a <= e /\ (point => e = a + 1 + b) /\ (~point => e = a)
      /\ e - a \in Nat
  BY <1>1, <1>6
<1>10. /\ mid \in Seq(Char) /\ Len(mid) = e - a
      /\ (point => mid[1] = Point)
      /\ \A i \in 2 .. e - a : mid[i] = frac[i - 1]
  <2>1. CASE ~point
    <3>1. mid = <<>>
      BY <2>1
    <3> HIDE DEF mid
    <3>2. mid \in Seq(Char) /\ Len(mid) = 0
      BY <3>1, EmptySeq
    <3> QED BY <1>1, <1>9, <2>1, <3>2
  <2>2. CASE point
    <3> DEFINE u == <<Point>>
               q == u \o frac
    <3>1. u \in Seq(Char) /\ Len(u) = 1 /\ u[1] = Point
      BY DEF Point, Char
    <3>2. mid = q
      BY <2>2
    <3> HIDE DEF u, mid
    <3>3. /\ q \in Seq(Char) /\ Len(q) = Len(u) + Len(frac)
          /\ \A i \in 1 .. Len(u) + Len(frac) : q[i] = IF i <= Len(u) THEN u[i] ELSE frac[i - Len(u)]
      BY <1>2, <3>1, ConcatProperties
    <3> HIDE DEF q
    <3>4. Len(u) + Len(frac) = 1 + b /\ e - a = 1 + b /\ b \in Nat
      BY <1>1, <1>2, <1>9, <2>2, <3>1
    <3>5. \A i \in 1 .. 1 + b : q[i] = IF i <= 1 THEN u[i] ELSE frac[i - 1]
      BY <3>1, <3>3, <3>4
    <3>6. q[1] = Point /\ \A i \in 2 .. 1 + b : q[i] = frac[i - 1]
      BY <3>1, <3>4, <3>5
    <3> QED BY <3>2, <3>3, <3>4, <3>6
  <2> QED BY <1>1, <2>1, <2>2
<1> HIDE DEF mid
<1>11. /\ start \in Seq(Char) /\ Len(start) = e
      /\ \A i \in 1 .. e : start[i] = IF i <= a THEN int[i] ELSE mid[i - a]
  <2>1. /\ start \in Seq(Char) /\ Len(start) = Len(int) + Len(mid)
        /\ \A i \in 1 .. Len(int) + Len(mid) :
             start[i] = IF i <= Len(int) THEN int[i] ELSE mid[i - Len(int)]
    BY <1>2, <1>10, ConcatProperties
  <2> HIDE DEF start
  <2>2. Len(int) + Len(mid) = e /\ Len(int) = a
    BY <1>1, <1>2, <1>9, <1>10
  <2> QED BY <2>1, <2>2
<1>12. t = start \o s
  BY <1>5
<1> HIDE DEF start
<1>13. /\ t \in Seq(Char) /\ Len(t) = e + m
       /\ \A i \in 1 .. e + m : t[i] = IF i <= e THEN start[i] ELSE s[i - e]
  <2>1. /\ t \in Seq(Char) /\ Len(t) = Len(start) + Len(s)
        /\ \A i \in 1 .. Len(start) + Len(s) :
             t[i] = IF i <= Len(start) THEN start[i] ELSE s[i - Len(start)]
    BY <1>1, <1>11, <1>12, ConcatProperties
  <2> QED BY <1>2, <1>11, <2>1
<1>14. ASSUME NEW i \in 1 .. a PROVE t[i] = y[i]
  <2>1. i \in 1 .. e /\ i \in 1 .. Ends /\ i <= a /\ i \in 1 .. e + m
    BY <1>1, <1>9
  <2> QED BY <1>7, <1>11, <1>13, <2>1
<1>15. point => t[a + 1] = Point
  <2> SUFFICES ASSUME point PROVE t[a + 1] = Point
    OBVIOUS
  <2>1. a + 1 \in 1 .. e /\ ~(a + 1 <= a) /\ (a + 1) - a = 1 /\ a + 1 \in 1 .. e + m
    BY <1>1, <1>9
  <2> QED BY <1>10, <1>11, <1>13, <2>1
<1>16. ASSUME NEW i \in a + 2 .. e PROVE t[i] = y[i - 1]
  <2>1. /\ i \in 1 .. e /\ ~(i <= a) /\ i - a \in 2 .. e - a /\ i \in 1 .. e + m
        /\ i <= e
    BY <1>1, <1>9
  <2>2. /\ point /\ i - 1 \in 1 .. Ends /\ ~(i - 1 <= a) /\ i - 1 <= a + b /\ (i - 1) - a = (i - a) - 1
    BY <1>1, <1>9
  <2>3. t[i] = frac[(i - a) - 1]
    BY <1>10, <1>11, <1>13, <2>1
  <2>4. y[i - 1] = frac[(i - 1) - a]
    BY <1>7, <2>2
  <2> QED BY <2>2, <2>3, <2>4
<1>17. ASSUME NEW i \in e + 1 .. Len(t) PROVE t[i] = Blank
  <2>1. i \in 1 .. e + m /\ ~(i <= e) /\ i - e \in 1 .. m
    BY <1>1, <1>9, <1>13
  <2> QED BY <1>1, <1>13, <2>1
<1>18. \A i \in 1 .. Ends : i > a + b => y[i] = 0
  BY <1>1, <1>7
<1>19. e <= Len(t)
  BY <1>1, <1>9, <1>13
<1>20. b \in 0 .. Scale
  BY <1>1
<1>21. IsText(t, y, a, b, point)
  BY <1>1, <1>3, <1>8, <1>13, <1>14, <1>15, <1>16, <1>17, <1>18, <1>19, <1>20 DEF IsText, e
<1> QED BY <1>21 DEF t, y, a, b, point, int, frac

\* Its number is read from these digits.
LEMMA NumberText ==
  ASSUME NEW text \in Texts, PlainTails
  PROVE  /\ TextDigits(text) \in Strings
         /\ Number(text) = Read(TextDigits(text))[Len(text.int) + Scale]
<1> DEFINE int == text.int
           frac == text.frac
           s == text.suffix
           a == Len(int)
           b == Len(frac)
           y == TextDigits(text)
           k == Scale - b
           zeros == Zeros(k)
           start == int \o frac
           q == start \o zeros
<1>1. /\ a \in Nat \ {0} /\ b \in Nat /\ b <= Scale
      /\ int \in Seq(0 .. 9) /\ frac \in Seq(0 .. 9)
      /\ a + 1 + Scale <= MaxChars /\ Scale \in Nat /\ MaxChars \in Nat
      /\ Ends = 2 * MaxChars
      /\ \A i \in 1 .. a : int[i] \in 0 .. 9
      /\ \A i \in 1 .. b : frac[i] \in 0 .. 9
  BY TextParts
<1>2. Len(s) = 2 => s[1] = Blank
  <2>1. \A i \in 1 .. Len(s) : s[i] = Blank
    BY TextParts
  <2> QED BY <2>1
<1>3. y = [i \in 1 .. Ends |-> IF i <= a THEN int[i] ELSE IF i <= a + b THEN frac[i - a] ELSE 0]
  BY DEF TextDigits
<1>4. Number(text) = Value(q) * IF Len(s) = 2 /\ s[1] = Exponent THEN 10 ^ s[2] ELSE 1
  BY DEF Number
<1>5. Number(text) = Value(q) * 1
  <2>1. ~(Len(s) = 2 /\ s[1] = Exponent)
    BY <1>2 DEF Exponent, Blank
  <2> QED BY Zenon, <1>4, <2>1
<1>6. Len(int) = a /\ Len(frac) = b
  OBVIOUS
<1> HIDE DEF int, frac, s, a, b, y
<1>7. /\ y \in [1 .. Ends -> 0 .. 9]
      /\ \A i \in 1 .. Ends : y[i] = IF i <= a THEN int[i] ELSE IF i <= a + b THEN frac[i - a] ELSE 0
  <2>1. ASSUME NEW i \in 1 .. Ends
        PROVE  (IF i <= a THEN int[i] ELSE IF i <= a + b THEN frac[i - a] ELSE 0) \in 0 .. 9
    <3>1. i <= a => int[i] \in 0 .. 9
      BY <1>1
    <3>2. ~(i <= a) /\ i <= a + b => frac[i - a] \in 0 .. 9
      <4>1. ~(i <= a) /\ i <= a + b => i - a \in 1 .. b
        BY <1>1
      <4> QED BY <1>1, <4>1
    <3> QED BY <3>1, <3>2
  <2> QED BY <1>3, <2>1
<1>8. y \in Strings
  BY <1>7 DEF Strings
<1>9. k \in Nat /\ a + b + k = a + Scale
  BY <1>1
<1> HIDE DEF k
<1>10. zeros \in Seq(0 .. 9) /\ Len(zeros) = k /\ \A i \in 1 .. k : zeros[i] = 0
  <2>1. zeros \in [1 .. k -> 0 .. 9] /\ \A i \in 1 .. k : zeros[i] = 0
    BY DEF Zeros, Zero
  <2> HIDE DEF zeros
  <2> QED BY <1>9, <2>1, SeqDef, LenProperties
<1> HIDE DEF zeros
<1>11. /\ start \in Seq(0 .. 9) /\ Len(start) = a + b
       /\ \A i \in 1 .. a + b : start[i] = IF i <= a THEN int[i] ELSE frac[i - a]
  <2>1. /\ start \in Seq(0 .. 9) /\ Len(start) = Len(int) + Len(frac)
        /\ \A i \in 1 .. Len(int) + Len(frac) :
             start[i] = IF i <= Len(int) THEN int[i] ELSE frac[i - Len(int)]
    BY <1>1, ConcatProperties
  <2> HIDE DEF start
  <2> QED BY <1>6, <2>1
<1> HIDE DEF start
<1>12. /\ q \in Seq(0 .. 9) /\ Len(q) = a + b + k
       /\ \A i \in 1 .. a + b + k : q[i] = IF i <= a + b THEN start[i] ELSE zeros[i - (a + b)]
  <2>1. /\ q \in Seq(0 .. 9) /\ Len(q) = Len(start) + Len(zeros)
        /\ \A i \in 1 .. Len(start) + Len(zeros) :
             q[i] = IF i <= Len(start) THEN start[i] ELSE zeros[i - Len(start)]
    BY <1>10, <1>11, ConcatProperties
  <2> HIDE DEF q
  <2> QED BY <1>10, <1>11, <2>1
<1> HIDE DEF q
<1>13. ASSUME NEW i \in 1 .. a + Scale PROVE q[i] = y[0 + i]
  <2>1. i \in 1 .. a + b + k /\ i \in 1 .. Ends /\ 0 + i = i
    BY <1>1, <1>9
  <2>2. CASE i <= a + b
    <3>1. i \in 1 .. a + b
      BY <1>1, <2>2
    <3> QED BY <1>7, <1>11, <1>12, <2>1, <2>2, <3>1
  <2>3. CASE ~(i <= a + b)
    <3>1. i - (a + b) \in 1 .. k /\ ~(i <= a)
      BY <1>1, <1>9, <2>1, <2>3
    <3> QED BY <1>7, <1>10, <1>12, <2>1, <2>3, <3>1
  <2> QED BY <2>2, <2>3
<1>14. Len(q) = a + Scale /\ a + Scale \in Nat /\ 0 + (a + Scale) <= Ends /\ 0 + (a + Scale) = a + Scale
  BY <1>1, <1>9, <1>12
<1>15. Read(y)[0] = 0 /\ Read(y)[a + Scale] \in Nat
  <2>1. a + Scale \in 0 .. Ends
    BY <1>1
  <2> QED BY <1>8, <2>1, ReadIs
<1>16. Value(q) = Read(y)[a + Scale]
  <2>1. Len(q) \in Nat /\ 0 + Len(q) <= Ends /\ \A i \in 1 .. Len(q) : q[i] = y[0 + i]
    BY <1>13, <1>14
  <2>2. Value(q) = Read(y)[0 + Len(q)]
    BY <1>8, <1>15, <2>1, ValueRead
  <2> QED BY <1>14, <2>2
<1>17. Number(text) = Read(y)[a + Scale]
  <2>1. \A v \in Nat : v * 1 = v
    OBVIOUS
  <2> QED BY <1>5, <1>15, <1>16, <2>1
<1> QED BY <1>8, <1>17 DEF y, a, int

\* The constructor makes the object of a text's number.
LEMMA ConstructStands ==
  ASSUME NEW text \in Texts, WellFormed(text), PlainTails, ~Throws(Chars(text)), Fits(Number(text))
  PROVE  Stands(Parse(Chars(text)), Number(text))
<1>1. IsText(Chars(text), TextDigits(text), Len(text.int), Len(text.frac), text.point)
  BY CharsText
<1>2. Number(text) = Read(TextDigits(text))[Len(text.int) + Scale]
  BY NumberText
<1>3. ParseText(Chars(text)).state # "invalid"
  BY DEF Throws
<1> QED BY <1>1, <1>2, <1>3, ParseStands

-----------------------------------------------------------------------------
(* The theorems.                                                            *)

\* Each object whose number fits stands for it.
Standing == \A s \in DOMAIN objs : Fits(exact[s]) => Stands(objs[s], exact[s])

\* An object that is added keeps this.
LEMMA StandingHolding ==
  ASSUME Standing, NEW slot, NEW d, NEW n, Holding(slot, d, n), Fits(n) => Stands(d, n)
  PROVE  Standing'
<1>1. /\ DOMAIN objs' = DOMAIN objs \cup {slot}
      /\ \A s \in DOMAIN objs' : /\ objs'[s] = IF s = slot THEN d ELSE objs[s]
                                 /\ exact'[s] = IF s = slot THEN n ELSE exact[s]
  BY DEF Holding
<1>2. ASSUME NEW s \in DOMAIN objs', Fits(exact'[s]) PROVE Stands(objs'[s], exact'[s])
  <2>1. CASE s = slot
    BY <1>1, <1>2, <2>1
  <2>2. CASE s # slot
    BY <1>1, <1>2, <2>2 DEF Standing
  <2> QED BY <2>1, <2>2
<1> QED BY <1>2 DEF Standing

\* It is the inductive invariant: objects are made of texts, copied and fed to checksums.
LEMMA StandingCorrect ==
  ASSUME PlainTails
  PROVE  Spec => []Standing
<1>1. Init => Standing
  BY DEF Init, Standing
<1>2. Standing /\ [Next]_vars => Standing'
  <2> SUFFICES ASSUME Standing, [Next]_vars PROVE Standing'
    OBVIOUS
  <2>1. ASSUME NEW text \in Texts, WellFormed(text), NEW slot \in Slots, Construct(slot, text)
        PROVE  Standing'
    <3>1. ~Throws(Chars(text)) /\ Holding(slot, Parse(Chars(text)), Number(text))
      BY <2>1 DEF Construct
    <3>2. Fits(Number(text)) => Stands(Parse(Chars(text)), Number(text))
      BY <2>1, <3>1, ConstructStands
    <3> QED BY <3>1, <3>2, StandingHolding
  <2>2. ASSUME NEW from \in DOMAIN objs, Feed(from) PROVE Standing'
    <3>1. /\ objs[from].own /\ exact' = exact
          /\ objs' = [objs EXCEPT ![from] = Marked(objs[from])]
      BY <2>2 DEF Feed
    <3>2. DOMAIN objs' = DOMAIN objs
      BY <3>1
    <3>3. ASSUME NEW s \in DOMAIN objs', Fits(exact'[s]) PROVE Stands(objs'[s], exact'[s])
      <4>1. s \in DOMAIN objs /\ Stands(objs[s], exact[s])
        BY <3>1, <3>2, <3>3 DEF Standing
      <4>2. CASE s = from
        <5>1. objs'[s] = Marked(objs[s]) /\ objs[s].own
          BY <3>1, <4>1, <4>2
        <5> QED BY <3>1, <4>1, <5>1, MarkedStands
      <4>3. CASE s # from
        BY <3>1, <4>1, <4>3
      <4> QED BY <4>2, <4>3
    <3> QED BY <3>3 DEF Standing
  <2>3. ASSUME NEW from \in DOMAIN objs, NEW slot \in Slots, Assign(slot, from) PROVE Standing'
    <3>1. Holding(slot, CopyOf(objs[from]), exact[from])
      BY <2>3 DEF Assign
    <3>2. Fits(exact[from]) => Stands(CopyOf(objs[from]), exact[from])
      BY <2>3, CopyStands DEF Standing
    <3> QED BY <3>1, <3>2, StandingHolding
  <2>4. CASE UNCHANGED vars
    BY <2>4 DEF Standing, vars
  <2> QED BY <2>1, <2>2, <2>3, <2>4 DEF Next
<1> QED BY <1>1, <1>2, PTL DEF Spec

\* operator<=> (src/decimal.cpp:23) orders objects as their numbers, whatever zeros
\* their texts carried, copied or not, before or after a checksum wrote a point
\* behind them: for any lengths of the parts that fit the buffer, and any digits.
THEOREM OrderAgreesCorrect ==
  ASSUME PlainTails
  PROVE  Spec => []OrderAgrees
<1>1. Standing => OrderAgrees
  BY StandsCompare DEF Standing, OrderAgrees
<1> QED BY <1>1, StandingCorrect, PTL

\* process (src/decimal.cpp:119) feeds the digits of the number at every precision,
\* although str_view reads and writes behind the view: what lies there is the rest
\* of the number.
THEOREM StreamAgreesCorrect ==
  ASSUME PlainTails
  PROVE  Spec => []StreamAgrees
<1>1. Standing => StreamAgrees
  BY StandsProcess DEF Standing, StreamAgrees
<1> QED BY <1>1, StandingCorrect, PTL

\* What str (src/decimal.cpp:74) prints at a precision, the constructor
\* (include/decimal.hpp:77) accepts, and reads as the number cut off there.
THEOREM RowsReadBackCorrect ==
  ASSUME PlainTails
  PROVE  Spec => []RowsReadBack
<1>1. Standing => RowsReadBack
  <2> SUFFICES ASSUME Standing, NEW s \in DOMAIN objs, NEW p \in 0 .. Scale, Fits(exact[s])
               PROVE  /\ ~Throws(Str(objs[s], p))
                      /\ Compare(Parse(Str(objs[s], p)), objs[s]) = Sign(Cut(exact[s], p), exact[s])
                      /\ Process(CopyOf(Parse(Str(objs[s], p))), p) = Shown(Cut(exact[s], p), p)
    BY DEF RowsReadBack
  <2> DEFINE d == objs[s]
             n == exact[s]
             t == Str(d, p)
             m == Cut(n, p)
  <2>1. Stands(d, n) /\ Fits(n)
    BY DEF Standing
  <2> HIDE DEF d, n
  <2>2. Fits(m) /\ Len(t) <= MaxChars
    BY <2>1, StrText
  <2>3. PICK y, h : IsText(t, y, h, p, TRUE) /\ Read(y)[h + Scale] = m
    BY <2>1, StrText
  <2> HIDE DEF t, m
  <2>4. ParseText(t).state # "invalid"
    BY <2>3, ParseOut
  <2>5. Stands(Parse(t), m)
    BY <2>2, <2>3, <2>4, ParseStands
  <2>6. ~Throws(t)
    <3>1. Len(t) \in Nat /\ MaxChars \in Nat
      BY <2>3, TextIs
    <3> QED BY <2>2, <2>4, <3>1 DEF Throws
  <2>7. Compare(Parse(t), d) = Sign(m, n)
    BY <2>1, <2>2, <2>5, StandsCompare
  <2>8. Stands(CopyOf(Parse(t)), m) /\ CopyOf(Parse(t)).own
    BY <2>5, CopyStands
  <2>9. Process(CopyOf(Parse(t)), p) = Shown(m, p)
    BY <2>8, StandsProcess
  <2> QED BY <2>6, <2>7, <2>9 DEF d, n, t, m
<1> QED BY <1>1, StandingCorrect, PTL
=============================================================================
