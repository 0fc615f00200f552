-------------------------- MODULE LevelBookProofs --------------------------
(***************************************************************************)
(* Proofs about LevelBook, for any prices, quantities, depths and          *)
(* precisions, and for a venue that loses quotes as well as a sound one.   *)
(*                                                                         *)
(* The first half is about the operators of Sides: which levels are the    *)
(* best, what a list of quotes does to a side, and when a side that lacks  *)
(* the venue's deep levels has its best ones.                              *)
(***************************************************************************)
EXTENDS LevelBook, NumberProofs, FiniteSetTheorems

-----------------------------------------------------------------------------
(* The order of a side.                                                     *)

\* The levels of B better than p, and how many they are.
Above(sd, B, p) == {q \in B : Better(sd, q, p)}
Rank(sd, B, p) == Cardinality(Above(sd, B, p))

\* The prices of the n best levels of B.
Leaders(sd, B, n) == {p \in B : Rank(sd, B, p) < n}

LEMMA TopIs ==
  ASSUME NEW sd, NEW side, NEW n
  PROVE  Top(sd, side, n) = [p \in Leaders(sd, DOMAIN side, n) |-> side[p]]
BY DEF Top, Restrict, Leaders, Rank, Above

\* The order is strict and total.
LEMMA BetterOrders ==
  ASSUME NEW sd, NEW p \in Nat, NEW q \in Nat, NEW r \in Nat
  PROVE  /\ ~Better(sd, p, p)
         /\ Better(sd, p, q) /\ Better(sd, q, r) => Better(sd, p, r)
         /\ p = q \/ Better(sd, p, q) \/ Better(sd, q, p)
BY DEF Better

LEMMA RankType ==
  ASSUME NEW sd, NEW B, IsFiniteSet(B), NEW p
  PROVE  Rank(sd, B, p) \in Nat /\ IsFiniteSet(Above(sd, B, p))
BY FS_Subset, FS_CardinalityType DEF Rank, Above

\* A better level has a lower rank.
LEMMA BetterRank ==
  ASSUME NEW sd, NEW B \in SUBSET Nat, IsFiniteSet(B),
         NEW p \in B, NEW q \in B, Better(sd, q, p)
  PROVE  Rank(sd, B, q) < Rank(sd, B, p)
<1> DEFINE P == Above(sd, B, p)
           Q == Above(sd, B, q)
<1>1. Q \subseteq P /\ q \in P /\ q \notin Q
  BY BetterOrders DEF Above
<1>2. IsFiniteSet(P) /\ IsFiniteSet(Q) /\ Cardinality(P) \in Nat /\ Cardinality(Q) \in Nat
  BY RankType DEF Rank
<1> HIDE DEF P, Q
<1>3. Cardinality(Q) <= Cardinality(P) /\ Cardinality(P) # Cardinality(Q)
  BY <1>1, <1>2, FS_Subset
<1>4. Cardinality(Q) < Cardinality(P)
  BY <1>2, <1>3
<1> QED BY <1>4 DEF P, Q, Rank

\* There are no more leaders than asked for: the last of them has all the
\* others above it.
LEMMA LeadersBounded ==
  ASSUME NEW sd, NEW B \in SUBSET Nat, IsFiniteSet(B), NEW n \in Nat
  PROVE  /\ IsFiniteSet(Leaders(sd, B, n))
         /\ Cardinality(Leaders(sd, B, n)) <= n
<1> DEFINE L == Leaders(sd, B, n)
<1>1. L \in SUBSET B
  BY DEF Leaders
<1>2. IsFiniteSet(L)
  BY <1>1, FS_Subset
<1>3. CASE L = {}
  BY <1>2, <1>3, FS_EmptySet
<1>4. CASE L # {}
  <2> DEFINE gap(p) == n - Rank(sd, B, p)
             gaps == {gap(p) : p \in L}
  <2>1. \A p \in L : Rank(sd, B, p) \in Nat /\ gap(p) \in Nat /\ gap(p) > 0
    BY RankType DEF Leaders
  <2>2. PICK last \in L : \A p \in L : gap(last) <= gap(p)
    <3>1. gaps \in SUBSET Nat /\ gaps # {}
      BY <1>4, <2>1
    <3>2. PICK g \in gaps : \A h \in gaps : g <= h
      <4> HIDE DEF gaps
      <4> QED BY <3>1, Least
    <3> QED BY <3>2
  <2>3. L \ {last} \in SUBSET Above(sd, B, last)
    <3> SUFFICES ASSUME NEW p \in L, p # last PROVE Better(sd, p, last)
      BY <1>1 DEF Above
    <3>1. ~Better(sd, last, p)
      <4> SUFFICES ASSUME Better(sd, last, p) PROVE FALSE
        OBVIOUS
      <4>1. Rank(sd, B, last) < Rank(sd, B, p)
        BY <1>1, BetterRank
      <4>2. gap(last) <= gap(p)
        BY <2>2
      <4> QED BY <2>1, <4>1, <4>2
    <3> QED BY <1>1, <3>1, BetterOrders
  <2>4. Cardinality(L \ {last}) <= Rank(sd, B, last)
    BY <2>3, RankType, FS_Subset DEF Rank
  <2>5. Cardinality(L \ {last}) = Cardinality(L) - 1 /\ Cardinality(L) \in Nat
    BY <1>2, FS_RemoveElement, FS_CardinalityType
  <2>6. Rank(sd, B, last) \in Nat /\ Rank(sd, B, last) < n
    BY <2>1 DEF Leaders
  <2> HIDE DEF L
  <2> QED BY <1>2, <2>4, <2>5, <2>6 DEF L
<1> QED BY <1>3, <1>4

\* A level that is not a leader has all of them above it, and they are all n.
LEMMA LeadersLead ==
  ASSUME NEW sd, NEW B \in SUBSET Nat, IsFiniteSet(B), NEW n \in Nat,
         NEW p \in B, p \notin Leaders(sd, B, n)
  PROVE  /\ \A t \in Leaders(sd, B, n) : Better(sd, t, p)
         /\ Cardinality(Leaders(sd, B, n)) >= n
<1> DEFINE L == Leaders(sd, B, n)
<1>1. ASSUME NEW q \in B, q \notin L, NEW t \in L PROVE Better(sd, t, q)
  <2>1. Rank(sd, B, t) \in Nat /\ Rank(sd, B, q) \in Nat
    BY RankType
  <2>2. Rank(sd, B, t) < n /\ ~(Rank(sd, B, q) < n) /\ t \in B
    BY <1>1 DEF Leaders
  <2>3. ~Better(sd, q, t)
    BY <1>1, <2>1, <2>2, BetterRank
  <2> QED BY <1>1, <2>2, <2>3, BetterOrders
<1> DEFINE ranks == {Rank(sd, B, q) : q \in B \ L}
<1>2. PICK next \in B \ L : \A q \in B \ L : Rank(sd, B, next) <= Rank(sd, B, q)
  <2>1. ranks \in SUBSET Nat /\ ranks # {}
    BY RankType
  <2>2. PICK r \in ranks : \A s \in ranks : r <= s
    <3> HIDE DEF ranks
    <3> QED BY <2>1, Least
  <2> QED BY <2>2
<1>3. Above(sd, B, next) \in SUBSET L
  <2> SUFFICES ASSUME NEW q \in B, Better(sd, q, next), q \notin L PROVE FALSE
    BY DEF Above
  <2>1. Rank(sd, B, q) < Rank(sd, B, next)
    BY BetterRank
  <2> QED BY <1>2, <2>1, RankType
<1>4. Rank(sd, B, next) >= n /\ Rank(sd, B, next) \in Nat
  BY <1>2, RankType DEF Leaders
<1>5. IsFiniteSet(L) /\ Cardinality(L) \in Nat
  BY LeadersBounded, FS_CardinalityType
<1>6. Rank(sd, B, next) <= Cardinality(L)
  <2> HIDE DEF L
  <2> QED BY <1>3, <1>5, FS_Subset DEF Rank
<1> QED BY <1>1, <1>4, <1>5, <1>6

\* A side that lacks levels of B, but none of its leaders, has the same leaders.
LEMMA LeadersOfPart ==
  ASSUME NEW sd, NEW B \in SUBSET Nat, IsFiniteSet(B), NEW n \in Nat,
         NEW A \in SUBSET B, Leaders(sd, B, n) \subseteq A
  PROVE  Leaders(sd, A, n) = Leaders(sd, B, n)
<1> DEFINE L == Leaders(sd, B, n)
<1>1. IsFiniteSet(A)
  BY FS_Subset
<1>2. ASSUME NEW p \in L PROVE p \in Leaders(sd, A, n)
  <2>1. Above(sd, A, p) \in SUBSET Above(sd, B, p)
    BY DEF Above
  <2>2. Rank(sd, A, p) <= Rank(sd, B, p)
    BY <2>1, RankType, FS_Subset DEF Rank
  <2>3. Rank(sd, A, p) \in Nat /\ Rank(sd, B, p) \in Nat /\ Rank(sd, B, p) < n
    BY <1>1, RankType DEF Leaders
  <2>4. Rank(sd, A, p) < n
    BY <2>2, <2>3
  <2> QED BY <2>4 DEF Leaders
<1>3. ASSUME NEW p \in A, p \notin L PROVE p \notin Leaders(sd, A, n)
  <2>1. L \in SUBSET Above(sd, A, p) /\ Cardinality(L) >= n
    BY <1>3, LeadersLead DEF Above
  <2>2. IsFiniteSet(Above(sd, A, p)) /\ Rank(sd, A, p) \in Nat
    BY <1>1, RankType
  <2>3. Cardinality(L) <= Rank(sd, A, p) /\ Cardinality(L) \in Nat
    <3> HIDE DEF L
    <3> QED BY <2>1, <2>2, FS_Subset, FS_CardinalityType DEF Rank
  <2> QED BY <2>1, <2>2, <2>3 DEF Leaders
<1>4. Leaders(sd, A, n) \subseteq A
  BY DEF Leaders
<1> QED BY <1>2, <1>3, <1>4

\* The same of sides: with the best levels of `full`, and others of its prices at
\* whatever quantities, a side has the top that `full` has.
LEMMA TopOfPart ==
  ASSUME NEW sd, NEW full, DOMAIN full \subseteq Nat, IsFiniteSet(DOMAIN full),
         NEW n \in Nat, NEW part, DOMAIN part \subseteq DOMAIN full,
         \A p \in Leaders(sd, DOMAIN full, n) : p \in DOMAIN part /\ part[p] = full[p]
  PROVE  Top(sd, part, n) = Top(sd, full, n)
<1>1. Leaders(sd, DOMAIN part, n) = Leaders(sd, DOMAIN full, n)
  BY LeadersOfPart
<1> QED BY <1>1, TopIs

\* The top has at most n levels, all of the side's.
LEMMA TopBounded ==
  ASSUME NEW sd, NEW side, DOMAIN side \subseteq Nat, IsFiniteSet(DOMAIN side),
         NEW n \in Nat
  PROVE  /\ DOMAIN Top(sd, side, n) = Leaders(sd, DOMAIN side, n)
         /\ DOMAIN Top(sd, side, n) \subseteq DOMAIN side
         /\ \A p \in DOMAIN Top(sd, side, n) : Top(sd, side, n)[p] = side[p]
         /\ IsFiniteSet(DOMAIN Top(sd, side, n))
         /\ Cardinality(DOMAIN Top(sd, side, n)) <= n
<1>1. Leaders(sd, DOMAIN side, n) \subseteq DOMAIN side
  BY DEF Leaders
<1> QED BY <1>1, TopIs, LeadersBounded

-----------------------------------------------------------------------------
(* What a list of quotes does.                                              *)

\* The values of the recursive functions in Applied and in FromSnapshot.
IsAfter(f, n, side, quotes) ==
  f = [i \in 0 .. n |-> IF i = 0 THEN side ELSE ApplyQuote(f[i - 1], quotes[i])]

IsAdded(f, n, quotes) ==
  f = [i \in 0 .. n |-> IF i = 0 THEN EmptySide ELSE AddQuote(f[i - 1], quotes[i])]

LEMMA AfterExists ==
  ASSUME NEW side, NEW quotes, NEW n \in Nat
  PROVE  \E f : IsAfter(f, n, side, quotes)
<1> DEFINE S == {k \in Nat : \E f : IsAfter(f, k, side, quotes)}
<1>1. 0 \in S
  <2>1. IsAfter([i \in 0 .. 0 |-> side], 0, side, quotes)
    BY DEF IsAfter
  <2> QED BY <2>1
<1>2. ASSUME NEW k \in S PROVE k + 1 \in S
  <2>1. PICK f : IsAfter(f, k, side, quotes)
    OBVIOUS
  <2> DEFINE g == [i \in 0 .. k + 1 |-> IF i = k + 1 THEN ApplyQuote(f[k], quotes[k + 1])
                                        ELSE f[i]]
  <2>2. \A i \in 0 .. k : f[i] = IF i = 0 THEN side ELSE ApplyQuote(f[i - 1], quotes[i])
    BY <2>1 DEF IsAfter
  <2>3. ASSUME NEW i \in 0 .. k + 1
        PROVE  g[i] = IF i = 0 THEN side ELSE ApplyQuote(g[i - 1], quotes[i])
    <3>1. k \in Nat
      OBVIOUS
    <3>2. CASE i = k + 1
      BY <3>1, <3>2
    <3>3. CASE i # k + 1
      <4>1. i \in 0 .. k /\ (i # 0 => i - 1 \in 0 .. k)
        BY <3>1, <3>3
      <4>2. g[i] = f[i] /\ (i # 0 => g[i - 1] = f[i - 1])
        BY <3>1, <3>3, <4>1
      <4> QED BY <2>2, <4>1, <4>2
    <3> QED BY <3>2, <3>3
  <2>4. IsAfter(g, k + 1, side, quotes)
    <3>1. g = [i \in 0 .. k + 1 |-> g[i]]
      OBVIOUS
    <3> HIDE DEF g
    <3> QED BY <2>3, <3>1 DEF IsAfter
  <2> QED BY <2>4
<1> HIDE DEF S
<1>3. S = Nat
  <2>1. S \subseteq Nat
    BY DEF S
  <2> QED BY <1>1, <1>2, <2>1, Upward
<1> QED BY <1>3 DEF S

LEMMA AddedExists ==
  ASSUME NEW quotes, NEW n \in Nat
  PROVE  \E f : IsAdded(f, n, quotes)
<1> DEFINE S == {k \in Nat : \E f : IsAdded(f, k, quotes)}
<1>1. 0 \in S
  <2>1. IsAdded([i \in 0 .. 0 |-> EmptySide], 0, quotes)
    BY DEF IsAdded
  <2> QED BY <2>1
<1>2. ASSUME NEW k \in S PROVE k + 1 \in S
  <2>1. PICK f : IsAdded(f, k, quotes)
    OBVIOUS
  <2> DEFINE g == [i \in 0 .. k + 1 |-> IF i = k + 1 THEN AddQuote(f[k], quotes[k + 1])
                                        ELSE f[i]]
  <2>2. \A i \in 0 .. k : f[i] = IF i = 0 THEN EmptySide ELSE AddQuote(f[i - 1], quotes[i])
    BY <2>1 DEF IsAdded
  <2>3. ASSUME NEW i \in 0 .. k + 1
        PROVE  g[i] = IF i = 0 THEN EmptySide ELSE AddQuote(g[i - 1], quotes[i])
    <3>1. k \in Nat
      OBVIOUS
    <3>2. CASE i = k + 1
      BY <3>1, <3>2
    <3>3. CASE i # k + 1
      <4>1. i \in 0 .. k /\ (i # 0 => i - 1 \in 0 .. k)
        BY <3>1, <3>3
      <4>2. g[i] = f[i] /\ (i # 0 => g[i - 1] = f[i - 1])
        BY <3>1, <3>3, <4>1
      <4> QED BY <2>2, <4>1, <4>2
    <3> QED BY <3>2, <3>3
  <2>4. IsAdded(g, k + 1, quotes)
    <3>1. g = [i \in 0 .. k + 1 |-> g[i]]
      OBVIOUS
    <3> HIDE DEF g
    <3> QED BY <2>3, <3>1 DEF IsAdded
  <2> QED BY <2>4
<1> HIDE DEF S
<1>3. S = Nat
  <2>1. S \subseteq Nat
    BY DEF S
  <2> QED BY <1>1, <1>2, <2>1, Upward
<1> QED BY <1>3 DEF S

\* Applied(side, quotes) is the last of the sides from `side` on, each made of
\* the one before it by the next quote.
LEMMA AppliedIs ==
  ASSUME NEW side, NEW quotes, Len(quotes) \in Nat
  PROVE  \E f : /\ f[0] = side /\ Applied(side, quotes) = f[Len(quotes)]
                /\ \A i \in 1 .. Len(quotes) : f[i] = ApplyQuote(f[i - 1], quotes[i])
<1> DEFINE f == CHOOSE g : IsAfter(g, Len(quotes), side, quotes)
<1>1. IsAfter(f, Len(quotes), side, quotes)
  BY AfterExists
<1>2. Applied(side, quotes) = f[Len(quotes)]
  BY DEF Applied, IsAfter
<1> HIDE DEF f
<1>3. \A i \in 0 .. Len(quotes) :
        f[i] = IF i = 0 THEN side ELSE ApplyQuote(f[i - 1], quotes[i])
  BY <1>1 DEF IsAfter
<1> QED BY <1>2, <1>3

\* So is FromSnapshot(quotes), from the empty side on.
LEMMA AddedIs ==
  ASSUME NEW quotes, Len(quotes) \in Nat
  PROVE  \E f : /\ f[0] = EmptySide /\ FromSnapshot(quotes) = f[Len(quotes)]
                /\ \A i \in 1 .. Len(quotes) : f[i] = AddQuote(f[i - 1], quotes[i])
<1> DEFINE f == CHOOSE g : IsAdded(g, Len(quotes), quotes)
<1>1. IsAdded(f, Len(quotes), quotes)
  BY AddedExists
<1>2. FromSnapshot(quotes) = f[Len(quotes)]
  BY DEF FromSnapshot, IsAdded
<1> HIDE DEF f
<1>3. \A i \in 0 .. Len(quotes) :
        f[i] = IF i = 0 THEN EmptySide ELSE AddQuote(f[i - 1], quotes[i])
  BY <1>1 DEF IsAdded
<1> QED BY <1>2, <1>3

\* A side over these prices and quantities.
IsSide(side, P, Q) == DOMAIN side \subseteq P /\ side \in [DOMAIN side -> Q]

\* No two quotes are of one price.
Distinct(quotes) ==
  \A i, j \in 1 .. Len(quotes) : quotes[i].price = quotes[j].price => i = j

\* What has become of a price since `side`: a quote was applied, or none was.
Effect(now, side, quote) ==
  IF quote.price \in DOMAIN side /\ quote.qty = 0
  THEN quote.price \notin DOMAIN now
  ELSE quote.price \in DOMAIN now /\ now[quote.price] = quote.qty

Same(now, side, x) ==
  /\ x \in DOMAIN now <=> x \in DOMAIN side
  /\ x \in DOMAIN now => now[x] = side[x]

LEMMA ApplyQuoteDoes ==
  ASSUME NEW side, NEW quote
  PROVE  /\ Effect(ApplyQuote(side, quote), side, quote)
         /\ \A x : x # quote.price => Same(ApplyQuote(side, quote), side, x)
<1>1. CASE quote.price \in DOMAIN side /\ quote.qty = 0
  <2>1. ApplyQuote(side, quote) = [x \in DOMAIN side \ {quote.price} |-> side[x]]
    BY <1>1 DEF ApplyQuote, Restrict
  <2> QED BY <1>1, <2>1 DEF Effect, Same
<1>2. CASE ~(quote.price \in DOMAIN side /\ quote.qty = 0)
  <2>1. ApplyQuote(side, quote) = [x \in DOMAIN side \cup {quote.price} |->
                                     IF x = quote.price THEN quote.qty ELSE side[x]]
    BY <1>2 DEF ApplyQuote, With
  <2> QED BY <1>2, <2>1 DEF Effect, Same
<1> QED BY <1>1, <1>2

\* Quotes of different prices do not meet: each has its effect, and what none
\* is of stays as it was.
LEMMA AppliedDoes ==
  ASSUME NEW side, NEW quotes, Len(quotes) \in Nat, Distinct(quotes)
  PROVE  /\ \A i \in 1 .. Len(quotes) : Effect(Applied(side, quotes), side, quotes[i])
         /\ \A x : (\A i \in 1 .. Len(quotes) : quotes[i].price # x)
                   => Same(Applied(side, quotes), side, x)
<1> DEFINE n == Len(quotes)
<1>1. PICK f : /\ f[0] = side /\ Applied(side, quotes) = f[n]
               /\ \A i \in 1 .. n : f[i] = ApplyQuote(f[i - 1], quotes[i])
  BY AppliedIs
<1> DEFINE Done(k) == /\ \A i \in 1 .. k : Effect(f[k], side, quotes[i])
                      /\ \A x : (\A i \in 1 .. k : quotes[i].price # x) => Same(f[k], side, x)
           S == {k \in Nat : k <= n => Done(k)}
<1>2. 0 \in S
  <2>1. \A x : Same(f[0], side, x)
    BY <1>1 DEF Same
  <2> QED BY <2>1
<1>3. ASSUME NEW k \in S PROVE k + 1 \in S
  <2> SUFFICES ASSUME k + 1 <= n PROVE Done(k + 1)
    OBVIOUS
  <2>1. k \in Nat /\ n \in Nat
    OBVIOUS
  <2>2. Done(k)
    BY <2>1
  <2> DEFINE q == quotes[k + 1]
  <2>3. f[k + 1] = ApplyQuote(f[k], q)
    BY <1>1, <2>1
  <2>4. Effect(f[k + 1], f[k], q) /\ \A x : x # q.price => Same(f[k + 1], f[k], x)
    BY <2>3, ApplyQuoteDoes
  <2>5. \A i \in 1 .. k : quotes[i].price # q.price
    BY <2>1 DEF Distinct
  <2>6. Same(f[k], side, q.price)
    BY <2>2, <2>5
  <2>7. Effect(f[k + 1], side, q)
    BY <2>4, <2>6 DEF Effect, Same
  <2>8. ASSUME NEW i \in 1 .. k PROVE Effect(f[k + 1], side, quotes[i])
    <3>1. Effect(f[k], side, quotes[i])
      BY <2>2
    <3>2. Same(f[k + 1], f[k], quotes[i].price)
      BY <2>4, <2>5
    <3> QED BY <3>1, <3>2 DEF Effect, Same
  <2>9. ASSUME NEW x, \A i \in 1 .. k + 1 : quotes[i].price # x PROVE Same(f[k + 1], side, x)
    <3>1. q.price # x /\ \A i \in 1 .. k : quotes[i].price # x
      BY <2>1, <2>9
    <3>2. Same(f[k], side, x) /\ Same(f[k + 1], f[k], x)
      BY <2>2, <2>4, <3>1
    <3> QED BY <3>2 DEF Same
  <2>10. \A i \in 1 .. k + 1 : i \in 1 .. k \/ i = k + 1
    BY <2>1
  <2> QED BY <2>7, <2>8, <2>9, <2>10
<1> HIDE DEF S
<1>4. S = Nat
  <2>1. S \subseteq Nat
    BY DEF S
  <2> QED BY <1>2, <1>3, <2>1, Upward
<1>5. Done(n)
  BY <1>4 DEF S
<1> QED BY <1>1, <1>5

\* An update keeps a side a side.
LEMMA AppliedType ==
  ASSUME NEW P, NEW Q, NEW side, IsSide(side, P, Q),
         NEW quotes, Len(quotes) \in Nat,
         \A i \in 1 .. Len(quotes) : quotes[i].price \in P /\ quotes[i].qty \in Q
  PROVE  IsSide(Applied(side, quotes), P, Q)
<1> DEFINE n == Len(quotes)
<1>1. PICK f : /\ f[0] = side /\ Applied(side, quotes) = f[n]
               /\ \A i \in 1 .. n : f[i] = ApplyQuote(f[i - 1], quotes[i])
  BY AppliedIs
<1> DEFINE S == {k \in Nat : k <= n => IsSide(f[k], P, Q)}
<1>2. 0 \in S
  BY <1>1
<1>3. ASSUME NEW k \in S PROVE k + 1 \in S
  <2> SUFFICES ASSUME k + 1 <= n PROVE IsSide(f[k + 1], P, Q)
    OBVIOUS
  <2>1. k \in Nat /\ n \in Nat /\ k + 1 \in 1 .. n
    OBVIOUS
  <2>2. IsSide(f[k], P, Q)
    BY <2>1
  <2>3. quotes[k + 1].price \in P /\ quotes[k + 1].qty \in Q
    BY <2>1
  <2>4. f[k + 1] = ApplyQuote(f[k], quotes[k + 1])
    BY <1>1, <2>1
  <2> QED BY <2>2, <2>3, <2>4 DEF ApplyQuote, With, Restrict, IsSide
<1> HIDE DEF S
<1>4. S = Nat
  <2>1. S \subseteq Nat
    BY DEF S
  <2> QED BY <1>2, <1>3, <2>1, Upward
<1>5. IsSide(f[n], P, Q)
  BY <1>4 DEF S
<1> QED BY <1>1, <1>5

\* The quotes of a snapshot, of different prices, are the side it gives.
LEMMA SnapshotIs ==
  ASSUME NEW quotes, Len(quotes) \in Nat, Distinct(quotes)
  PROVE  FromSnapshot(quotes) =
           [p \in {quotes[i].price : i \in 1 .. Len(quotes)} |->
              quotes[CHOOSE i \in 1 .. Len(quotes) : quotes[i].price = p].qty]
<1> DEFINE n == Len(quotes)
           at(p) == CHOOSE i \in 1 .. n : quotes[i].price = p
           part(k) == [p \in {quotes[i].price : i \in 1 .. k} |-> quotes[at(p)].qty]
<1>1. PICK f : /\ f[0] = EmptySide /\ FromSnapshot(quotes) = f[n]
               /\ \A i \in 1 .. n : f[i] = AddQuote(f[i - 1], quotes[i])
  BY AddedIs
<1>2. \A i \in 1 .. n : at(quotes[i].price) = i
  BY DEF Distinct
<1> DEFINE S == {k \in Nat : k <= n => f[k] = part(k)}
<1>3. 0 \in S
  <2>1. {quotes[i].price : i \in 1 .. 0} = {}
    OBVIOUS
  <2> QED BY <1>1, <2>1 DEF EmptySide
<1>4. ASSUME NEW k \in S PROVE k + 1 \in S
  <2> SUFFICES ASSUME k + 1 <= n PROVE f[k + 1] = part(k + 1)
    OBVIOUS
  <2>1. k \in Nat /\ n \in Nat /\ k + 1 \in 1 .. n
    OBVIOUS
  <2> DEFINE q == quotes[k + 1]
             old == {quotes[i].price : i \in 1 .. k}
             all == {quotes[i].price : i \in 1 .. k + 1}
  <2>2. f[k] = [p \in old |-> quotes[at(p)].qty]
    BY <2>1
  <2>3. q.price \notin old
    BY <2>1 DEF Distinct
  <2>4. f[k + 1] = AddQuote(f[k], q)
    BY <1>1, <2>1
  <2>5. all = old \cup {q.price}
    <3>1. 1 .. k + 1 = (1 .. k) \cup {k + 1}
      BY <2>1
    <3> QED BY <3>1
  <2>6. at(q.price) = k + 1
    BY <1>2, <2>1
  <2> HIDE DEF at, all, old
  <2>7. f[k + 1] = [p \in old \cup {q.price} |-> IF p = q.price THEN q.qty ELSE f[k][p]]
    BY <2>2, <2>3, <2>4 DEF AddQuote, With
  <2>8. f[k + 1] = [p \in all |-> quotes[at(p)].qty]
    BY <2>2, <2>3, <2>5, <2>6, <2>7
  <2> QED BY <2>8 DEF all
<1> HIDE DEF S
<1>5. S = Nat
  <2>1. S \subseteq Nat
    BY DEF S
  <2> QED BY <1>3, <1>4, <2>1, Upward
<1> HIDE DEF part
<1>6. f[n] = part(n)
  <2>1. n \in {k \in Nat : k <= n => f[k] = part(k)}
    BY <1>5 DEF S
  <2> QED BY <2>1
<1> USE DEF part
<1> QED BY <1>1, <1>6

-----------------------------------------------------------------------------
(* A set of quotes in some order.                                           *)

\* A sequence of the elements of a finite set, each once, has them all.
LEMMA Enumerates ==
  ASSUME NEW S, IsFiniteSet(S), NEW seq \in SetToSeqs(S)
  PROVE  /\ Len(seq) \in Nat
         /\ \A i \in 1 .. Len(seq) : seq[i] \in S
         /\ \A i, j \in 1 .. Len(seq) : seq[i] = seq[j] => i = j
         /\ \A x \in S : \E i \in 1 .. Len(seq) : seq[i] = x
<1> DEFINE n == Cardinality(S)
<1>1. n \in Nat
  BY FS_CardinalityType
<1> HIDE DEF n
<1>2. seq \in [1 .. n -> S] /\ \A i, j \in 1 .. n : seq[i] = seq[j] => i = j
  BY DEF SetToSeqs, n
<1>3. Len(seq) = n
  BY <1>1, <1>2
<1>4. seq \in Injection(1 .. n, S)
  BY <1>2 DEF Injection, IsInjective
<1>5. Cardinality(1 .. n) = n
  BY <1>1, FS_Interval
<1>6. seq \in Surjection(1 .. n, S)
  BY <1>4, <1>5, FS_Injection DEF n
<1> QED BY <1>1, <1>2, <1>3, <1>6 DEF Surjection

\* The quotes of a finite side are finitely many.
LEMMA SideQuotesFinite ==
  ASSUME NEW side, IsFiniteSet(DOMAIN side)
  PROVE  IsFiniteSet({[price |-> p, qty |-> side[p]] : p \in DOMAIN side})
<1> DEFINE Q == {[price |-> p, qty |-> side[p]] : p \in DOMAIN side}
           f == [p \in DOMAIN side |-> [price |-> p, qty |-> side[p]]]
<1>1. f \in Surjection(DOMAIN side, Q)
  BY DEF Surjection
<1> HIDE DEF f, Q
<1>2. IsFiniteSet(Q)
  BY <1>1, FS_Surjection
<1> QED BY <1>2 DEF Q

-----------------------------------------------------------------------------
(* What the messages of a sound venue do to one side.                       *)

\* A side over these prices: Sides' notion of it and LevelBook's.
LEMMA SideOfIs ==
  ASSUME NEW P, NEW Q, NEW side
  PROVE  side \in SideOf(P, Q) <=> IsSide(side, P, Q)
BY DEF SideOf, IsSide

\* The best levels of a side are a side, at most BookDepth deep.
LEMMA BestType ==
  ASSUME NEW sd, NEW P \in SUBSET Nat, IsFiniteSet(P), NEW Q, NEW side, IsSide(side, P, Q)
  PROVE  /\ IsSide(Top(sd, side, BookDepth), P, Q)
         /\ IsFiniteSet(DOMAIN Top(sd, side, BookDepth))
         /\ Cardinality(DOMAIN Top(sd, side, BookDepth)) <= BookDepth
         /\ DOMAIN Top(sd, side, BookDepth) \subseteq DOMAIN side
         /\ \A p \in DOMAIN Top(sd, side, BookDepth) : Top(sd, side, BookDepth)[p] = side[p]
<1>1. DOMAIN side \subseteq Nat /\ IsFiniteSet(DOMAIN side) /\ BookDepth \in Nat
  BY FS_Subset, SidesAssumption DEF IsSide
<1> DEFINE top == Top(sd, side, BookDepth)
<1>2. top = [p \in DOMAIN top |-> side[p]]
  BY TopIs
<1>3. DOMAIN top \subseteq DOMAIN side /\ IsFiniteSet(DOMAIN top)
      /\ Cardinality(DOMAIN top) <= BookDepth
  BY <1>1, TopBounded
<1> HIDE DEF top
<1>4. IsSide(top, P, Q) /\ \A p \in DOMAIN top : top[p] = side[p]
  BY <1>2, <1>3 DEF IsSide
<1> QED BY <1>3, <1>4 DEF top

\* A snapshot's quotes, in any order, give the side they are of.
LEMMA SnapshotGives ==
  ASSUME NEW side, side = [p \in DOMAIN side |-> side[p]], IsFiniteSet(DOMAIN side),
         NEW quotes \in SetToSeqs(Quotes(side))
  PROVE  FromSnapshot(quotes) = side
<1> DEFINE n == Len(quotes)
<1>1. IsFiniteSet(Quotes(side))
  BY SideQuotesFinite DEF Quotes
<1>2. /\ n \in Nat
      /\ \A i \in 1 .. n : quotes[i] \in Quotes(side)
      /\ \A i, j \in 1 .. n : quotes[i] = quotes[j] => i = j
      /\ \A x \in Quotes(side) : \E i \in 1 .. n : quotes[i] = x
  BY <1>1, Enumerates
<1>3. \A i \in 1 .. n : quotes[i].price \in DOMAIN side
                       /\ quotes[i] = [price |-> quotes[i].price, qty |-> side[quotes[i].price]]
  BY <1>2 DEF Quotes
<1>4. Distinct(quotes)
  <2> SUFFICES ASSUME NEW i \in 1 .. n, NEW j \in 1 .. n, quotes[i].price = quotes[j].price
               PROVE  i = j
    BY DEF Distinct
  <2>1. quotes[i] = quotes[j]
    BY <1>3
  <2> QED BY <1>2, <2>1
<1>5. {quotes[i].price : i \in 1 .. n} = DOMAIN side
  <2>1. ASSUME NEW p \in DOMAIN side PROVE \E i \in 1 .. n : quotes[i].price = p
    <3>1. [price |-> p, qty |-> side[p]] \in Quotes(side)
      BY DEF Quotes
    <3> QED BY <1>2, <3>1
  <2> QED BY <1>3, <2>1
<1> DEFINE at(p) == CHOOSE i \in 1 .. n : quotes[i].price = p
<1>6. ASSUME NEW p \in DOMAIN side PROVE quotes[at(p)].qty = side[p]
  <2>1. \E i \in 1 .. n : quotes[i].price = p
    BY <1>5
  <2>2. at(p) \in 1 .. n /\ quotes[at(p)].price = p
    BY <2>1
  <2> HIDE DEF at
  <2>3. quotes[at(p)] = [price |-> p, qty |-> side[p]]
    BY <1>3, <2>2
  <2> QED BY <2>3
<1>7. FromSnapshot(quotes) = [p \in {quotes[i].price : i \in 1 .. n} |-> quotes[at(p)].qty]
  BY <1>2, <1>4, SnapshotIs
<1> HIDE DEF at
<1> QED BY <1>5, <1>6, <1>7

\* A quote of an update removes a level of the old best that is gone from the
\* book, or is a level of the new best.
IsChange(sd, old, new, q) ==
  \/ /\ q.price \in DOMAIN Best(sd, old) \ DOMAIN new[sd]
     /\ q = [price |-> q.price, qty |-> 0]
  \/ /\ q.price \in DOMAIN Best(sd, new) /\ q \notin Quotes(Best(sd, old))
     /\ q = [price |-> q.price, qty |-> new[sd][q.price]]

\* All quotes of an update are such, and they are finitely many.
LEMMA ChangesAre ==
  ASSUME NEW sd, NEW P \in SUBSET Nat, IsFiniteSet(P), NEW Q, NEW old, NEW new,
         IsSide(old[sd], P, Q), IsSide(new[sd], P, Q)
  PROVE  /\ IsFiniteSet(Changes(sd, old, new))
         /\ \A q \in Changes(sd, old, new) :
              q.price \in P /\ q.qty \in Q \cup {0} /\ IsChange(sd, old, new, q)
<1> DEFINE was == Best(sd, old)
           is == Best(sd, new)
           gone == [p \in DOMAIN was \ DOMAIN new[sd] |-> 0]
<1>1. /\ IsFiniteSet(DOMAIN was) /\ DOMAIN was \subseteq P
      /\ IsFiniteSet(DOMAIN is) /\ DOMAIN is \subseteq P
      /\ \A p \in DOMAIN is : is[p] = new[sd][p] /\ is[p] \in Q
  <2>1. IsSide(was, P, Q) /\ IsFiniteSet(DOMAIN was)
    BY BestType DEF Best
  <2>2. IsSide(is, P, Q) /\ IsFiniteSet(DOMAIN is) /\ \A p \in DOMAIN is : is[p] = new[sd][p]
    BY BestType DEF Best
  <2> HIDE DEF was, is
  <2> QED BY <2>1, <2>2 DEF IsSide
<1>2. Changes(sd, old, new) = {[price |-> p, qty |-> 0] : p \in DOMAIN was \ DOMAIN new[sd]}
                              \cup (Quotes(is) \ Quotes(was))
  BY DEF Changes
<1> HIDE DEF was, is
<1>3. IsFiniteSet(Quotes(is))
  BY <1>1, SideQuotesFinite DEF Quotes
<1>4. IsFiniteSet({[price |-> p, qty |-> 0] : p \in DOMAIN was \ DOMAIN new[sd]})
  <2>1. DOMAIN gone = DOMAIN was \ DOMAIN new[sd] /\ IsFiniteSet(DOMAIN gone)
    BY <1>1, FS_Difference
  <2>2. IsFiniteSet({[price |-> p, qty |-> gone[p]] : p \in DOMAIN gone})
    BY <2>1, SideQuotesFinite
  <2>3. {[price |-> p, qty |-> gone[p]] : p \in DOMAIN gone}
          = {[price |-> p, qty |-> 0] : p \in DOMAIN was \ DOMAIN new[sd]}
    OBVIOUS
  <2> QED BY <2>2, <2>3
<1>5. IsFiniteSet(Quotes(is) \ Quotes(was))
  BY <1>3, FS_Difference
<1>6. IsFiniteSet(Changes(sd, old, new))
  BY <1>2, <1>4, <1>5, FS_Union
<1>7. ASSUME NEW q \in Quotes(is)
      PROVE  q.price \in DOMAIN is /\ q = [price |-> q.price, qty |-> new[sd][q.price]]
             /\ q.price \in P /\ q.qty \in Q
  BY <1>1 DEF Quotes
<1>8. ASSUME NEW q \in {[price |-> p, qty |-> 0] : p \in DOMAIN was \ DOMAIN new[sd]}
      PROVE  q.price \in DOMAIN was \ DOMAIN new[sd] /\ q = [price |-> q.price, qty |-> 0]
             /\ q.price \in P /\ q.qty = 0
  BY <1>1
<1> QED BY <1>2, <1>6, <1>7, <1>8 DEF was, is, IsChange

\* Applied in any order to the old best levels and cut back to the depth, the
\* changes of a book give its new best levels.
LEMMA UpdateGives ==
  ASSUME NEW sd, NEW P \in SUBSET Nat, IsFiniteSet(P), NEW Q, 0 \notin Q,
         NEW old, NEW new, IsSide(old[sd], P, Q), IsSide(new[sd], P, Q),
         NEW quotes \in SetToSeqs(Changes(sd, old, new))
  PROVE  ApplyUpdate(sd, Best(sd, old), quotes) = Best(sd, new)
<1> DEFINE was == Best(sd, old)
           is == Best(sd, new)
           n == Len(quotes)
           got == Applied(was, quotes)
<1>1. /\ IsSide(was, P, Q) /\ IsSide(is, P, Q)
      /\ DOMAIN is \subseteq DOMAIN new[sd] /\ \A p \in DOMAIN is : is[p] = new[sd][p]
  BY BestType DEF Best
<1>2. /\ n \in Nat
      /\ \A i \in 1 .. n : quotes[i] \in Changes(sd, old, new)
      /\ \A i, j \in 1 .. n : quotes[i] = quotes[j] => i = j
      /\ \A x \in Changes(sd, old, new) : \E i \in 1 .. n : quotes[i] = x
  BY Enumerates, ChangesAre
<1>3. \A q \in Changes(sd, old, new) :
        \/ /\ q.price \in DOMAIN was \ DOMAIN new[sd]
           /\ q = [price |-> q.price, qty |-> 0]
        \/ /\ q.price \in DOMAIN is /\ q \notin Quotes(was)
           /\ q = [price |-> q.price, qty |-> new[sd][q.price]]
  <2>1. \A q \in Changes(sd, old, new) : IsChange(sd, old, new, q)
    BY ChangesAre
  <2> QED BY <2>1 DEF IsChange
<1>4. Distinct(quotes)
  BY <1>1, <1>2, <1>3 DEF Distinct
<1>5. /\ \A i \in 1 .. n : Effect(got, was, quotes[i])
      /\ \A x : (\A i \in 1 .. n : quotes[i].price # x) => Same(got, was, x)
  BY <1>2, <1>4, AppliedDoes
<1>6. Changes(sd, old, new) = {[price |-> p, qty |-> 0] : p \in DOMAIN was \ DOMAIN new[sd]}
                              \cup (Quotes(is) \ Quotes(was))
  BY DEF Changes
<1> HIDE DEF was, is, got, n
<1>7. ASSUME NEW p \in DOMAIN is PROVE p \in DOMAIN got /\ got[p] = is[p]
  <2> DEFINE q == [price |-> p, qty |-> is[p]]
  <2>1. q \in Quotes(is) /\ q.price = p /\ q.qty = is[p]
    BY DEF Quotes
  <2> HIDE DEF q
  <2>2. CASE q \in Quotes(was)
    <3>1. p \in DOMAIN was /\ was[p] = is[p]
      BY <2>1, <2>2 DEF Quotes
    <3>2. ASSUME NEW i \in 1 .. n, quotes[i].price = p PROVE FALSE
      <4>1. quotes[i] \in Changes(sd, old, new)
        BY <1>2
      <4>2. quotes[i] = [price |-> p, qty |-> new[sd][p]] /\ quotes[i] \notin Quotes(was)
        BY <1>1, <1>3, <3>2, <4>1
      <4>3. quotes[i] = [price |-> p, qty |-> is[p]]
        BY <1>1, <4>2
      <4> QED BY <2>2, <4>2, <4>3 DEF q
    <3>3. Same(got, was, p)
      BY <1>5, <3>2
    <3> QED BY <3>1, <3>3 DEF Same
  <2>3. CASE q \notin Quotes(was)
    <3>1. PICK i \in 1 .. n : quotes[i] = q
      BY <1>2, <1>6, <2>1, <2>3
    <3>2. Effect(got, was, q) /\ q.qty # 0
      BY <1>1, <1>5, <2>1, <3>1 DEF IsSide
    <3> QED BY <2>1, <3>2 DEF Effect
  <2> QED BY <2>2, <2>3
<1>8. ASSUME NEW x \in DOMAIN got PROVE x \in DOMAIN new[sd]
  <2>1. CASE \E i \in 1 .. n : quotes[i].price = x
    <3>1. PICK i \in 1 .. n : quotes[i].price = x
      BY <2>1
    <3>2. Effect(got, was, quotes[i]) /\ quotes[i] \in Changes(sd, old, new)
      BY <1>2, <1>5
    <3>3. CASE x \in DOMAIN was \ DOMAIN new[sd] /\ quotes[i] = [price |-> x, qty |-> 0]
      BY <3>2, <3>3 DEF Effect
    <3>4. CASE x \in DOMAIN is
      BY <1>1, <3>4
    <3> QED BY <1>3, <3>1, <3>2, <3>3, <3>4
  <2>2. CASE \A i \in 1 .. n : quotes[i].price # x
    <3>1. x \in DOMAIN was
      BY <1>5, <2>2 DEF Same
    <3> SUFFICES ASSUME x \notin DOMAIN new[sd] PROVE FALSE
      OBVIOUS
    <3>2. [price |-> x, qty |-> 0] \in Changes(sd, old, new)
      BY <1>6, <3>1
    <3>3. PICK i \in 1 .. n : quotes[i] = [price |-> x, qty |-> 0]
      BY <1>2, <3>2
    <3> QED BY <2>2, <3>3
  <2> QED BY <2>1, <2>2
<1>9. DOMAIN new[sd] \subseteq Nat /\ IsFiniteSet(DOMAIN new[sd]) /\ BookDepth \in Nat
  BY FS_Subset, SidesAssumption DEF IsSide
<1>10. DOMAIN is = Leaders(sd, DOMAIN new[sd], BookDepth)
  <2>1. DOMAIN Top(sd, new[sd], BookDepth) = Leaders(sd, DOMAIN new[sd], BookDepth)
    BY TopIs
  <2> QED BY <2>1 DEF is, Best
<1>11. Top(sd, got, BookDepth) = Top(sd, new[sd], BookDepth)
  BY <1>1, <1>7, <1>8, <1>9, <1>10, TopOfPart
<1> QED BY <1>11 DEF ApplyUpdate, Best, got, was

\* A change that is not worth an update leaves the best levels as they were.
LEMMA NothingGives ==
  ASSUME NEW sd, NEW P \in SUBSET Nat, IsFiniteSet(P), NEW Q,
         NEW old, NEW new, IsSide(old[sd], P, Q), IsSide(new[sd], P, Q),
         Changes(sd, old, new) = {}
  PROVE  Best(sd, old) = Best(sd, new)
<1> DEFINE was == Best(sd, old)
           is == Best(sd, new)
<1>1. Changes(sd, old, new) = {[price |-> p, qty |-> 0] : p \in DOMAIN was \ DOMAIN new[sd]}
                              \cup (Quotes(is) \ Quotes(was))
  BY DEF Changes
<1>2. /\ DOMAIN was \subseteq DOMAIN old[sd] /\ \A p \in DOMAIN was : was[p] = old[sd][p]
      /\ DOMAIN is \subseteq DOMAIN new[sd] /\ \A p \in DOMAIN is : is[p] = new[sd][p]
  BY BestType DEF Best
<1>3. /\ DOMAIN new[sd] \subseteq Nat /\ IsFiniteSet(DOMAIN new[sd])
      /\ DOMAIN old[sd] \subseteq Nat /\ IsFiniteSet(DOMAIN old[sd]) /\ BookDepth \in Nat
  BY FS_Subset, SidesAssumption DEF IsSide
<1>4. /\ DOMAIN is = Leaders(sd, DOMAIN new[sd], BookDepth)
      /\ DOMAIN was = Leaders(sd, DOMAIN old[sd], BookDepth)
  <2>1. DOMAIN Top(sd, new[sd], BookDepth) = Leaders(sd, DOMAIN new[sd], BookDepth)
    BY TopIs
  <2>2. DOMAIN Top(sd, old[sd], BookDepth) = Leaders(sd, DOMAIN old[sd], BookDepth)
    BY TopIs
  <2> QED BY <2>1, <2>2 DEF Best
<1>5. Top(sd, was, BookDepth) = Top(sd, old[sd], BookDepth)
  <2> HIDE DEF was
  <2> QED BY <1>2, <1>3, <1>4, TopOfPart
<1> HIDE DEF was, is
<1>6. DOMAIN was \subseteq DOMAIN new[sd]
  <2> SUFFICES ASSUME NEW p \in DOMAIN was, p \notin DOMAIN new[sd] PROVE FALSE
    OBVIOUS
  <2>1. [price |-> p, qty |-> 0] \in Changes(sd, old, new)
    BY <1>1
  <2> QED BY <2>1
<1>7. ASSUME NEW p \in DOMAIN is PROVE p \in DOMAIN was /\ was[p] = new[sd][p]
  <2>1. [price |-> p, qty |-> is[p]] \in Quotes(was)
    BY <1>1 DEF Quotes
  <2> QED BY <1>2, <2>1 DEF Quotes
<1>8. Top(sd, was, BookDepth) = Top(sd, new[sd], BookDepth)
  BY <1>3, <1>4, <1>6, <1>7, TopOfPart
<1> QED BY <1>5, <1>8 DEF Best, was, is

-----------------------------------------------------------------------------
(* The books and the venue's.                                               *)

\* m_sides maps each symbol known to a book, which always has its precision.
BooksFormed ==
  /\ DOMAIN sides \subseteq Symbols
  /\ sides = [s \in DOMAIN sides |-> sides[s]]
  /\ \A s \in DOMAIN sides :
       sides[s] = [bids |-> sides[s].bids, asks |-> sides[s].asks, prec |-> sides[s].prec]

\* A book is formatted with the precision its pair has at the venue, and of a
\* sound venue no book is subscribed to that is not known.
Current == \A s \in DOMAIN sides : sides[s].prec = listed[s]
Subscribed == sound => synced \subseteq DOMAIN sides

Faithful == Current /\ Subscribed /\ MirrorsVenue /\ NoFalseAlarm

\* The inductive invariant.
BookInv == BooksFormed /\ TypeOK /\ DepthBounded /\ PrecisionsAgree /\ Faithful

\* The sides of the books, of any symbol.
LEMMA SidesType ==
  ASSUME BookInv, NEW s \in DOMAIN sides
  PROVE  /\ s \in Symbols /\ sides[s].prec \in Precisions
         /\ IsSide(sides[s].bids, BidPrices, Qtys \cup {0})
         /\ IsSide(sides[s].asks, AskPrices, Qtys \cup {0})
<1>1. /\ s \in Symbols /\ sides[s].prec \in Precisions
      /\ [bids |-> sides[s].bids, asks |-> sides[s].asks] \in Book(Qtys \cup {0})
  BY DEF BookInv, TypeOK
<1>2. /\ sides[s].bids \in SideOf(BidPrices, Qtys \cup {0})
      /\ sides[s].asks \in SideOf(AskPrices, Qtys \cup {0})
  BY <1>1 DEF Book
<1> QED BY <1>1, <1>2, SideOfIs

LEMMA VenueType ==
  ASSUME NEW book \in Book(Qtys)
  PROVE  IsSide(book["bids"], BidPrices, Qtys) /\ IsSide(book["asks"], AskPrices, Qtys)
BY SideOfIs DEF Book

LEMMA PricesAre ==
  /\ BidPrices \in SUBSET Nat /\ IsFiniteSet(BidPrices)
  /\ AskPrices \in SUBSET Nat /\ IsFiniteSet(AskPrices)
  /\ Qtys \in SUBSET Nat /\ 0 \notin Qtys
BY LevelBookAssumption

\* The books, with these sides for one of them.
Replaced(s, b, k) ==
  [x \in DOMAIN sides |-> IF x = s THEN [bids |-> b, asks |-> k, prec |-> sides[s].prec]
                          ELSE sides[x]]

\* level_book.accept of a known book: its sides are the message's, its precision
\* stays, and it throws if the checksum disagrees.
LEMMA AcceptBookIs ==
  ASSUME BooksFormed, NEW s \in DOMAIN sides, NEW b, NEW k, NEW crc,
         AcceptBook(s, [sides[s] EXCEPT !.bids = b, !.asks = k], crc)
  PROVE  /\ sides' = Replaced(s, b, k)
         /\ thrown' \in BOOLEAN
         /\ ~thrown' <=> Crc32(b, k, sides[s].prec) = crc
<1> DEFINE new == [sides[s] EXCEPT !.bids = b, !.asks = k]
<1>1. new = [bids |-> b, asks |-> k, prec |-> sides[s].prec]
  <2>1. sides[s] = [bids |-> sides[s].bids, asks |-> sides[s].asks, prec |-> sides[s].prec]
    BY DEF BooksFormed
  <2>2. [sides[s] EXCEPT !.bids = b] = [bids |-> b, asks |-> sides[s].asks, prec |-> sides[s].prec]
    BY <2>1
  <2>3. new = [[sides[s] EXCEPT !.bids = b] EXCEPT !.asks = k]
    OBVIOUS
  <2> HIDE DEF new
  <2> QED BY <2>2, <2>3
<1>2. Verify(s, new, crc)
  BY DEF AcceptBook
<1> HIDE DEF new
<1>3. sides' = [x \in DOMAIN sides |-> IF x = s THEN new ELSE sides[x]]
  BY <1>2 DEF Verify, BooksFormed
<1>4. thrown' = (Crc32(new.bids, new.asks, new.prec) # crc)
  BY <1>2 DEF Verify
<1>5. new.bids = b /\ new.asks = k /\ new.prec = sides[s].prec
  BY <1>1
<1>6. thrown' \in BOOLEAN /\ (~thrown' <=> Crc32(b, k, sides[s].prec) = crc)
  BY <1>4, <1>5
<1> QED BY <1>1, <1>3, <1>6 DEF Replaced

\* ... so the books stay books, no deeper than they may be unless a snapshot was
\* too deep, and those of other symbols are left alone.
LEMMA AcceptBookKeeps ==
  ASSUME BookInv, NEW s \in Symbols, NEW b, NEW k, NEW crc,
         AcceptBook(s, [sides[s] EXCEPT !.bids = b, !.asks = k], crc),
         s \in DOMAIN sides =>
           IsSide(b, BidPrices, Qtys \cup {0}) /\ IsSide(k, AskPrices, Qtys \cup {0}),
         \/ deep' = deep \cup {s}
         \/ /\ deep' = deep \ {s}
            /\ s \in DOMAIN sides => /\ Cardinality(DOMAIN b) <= BookDepth
                                    /\ Cardinality(DOMAIN k) <= BookDepth
  PROVE  /\ BooksFormed' /\ DepthBounded'
         /\ DOMAIN sides' = DOMAIN sides /\ thrown' \in BOOLEAN
         /\ \A x \in DOMAIN sides : sides'[x].prec = sides[x].prec
                                    /\ (x # s => sides'[x] = sides[x])
         /\ \A x \in DOMAIN sides' :
              /\ sides'[x].prec \in Precisions
              /\ [bids |-> sides'[x].bids, asks |-> sides'[x].asks] \in Book(Qtys \cup {0})
<1>1. CASE s \notin DOMAIN sides
  <2>1. sides' = sides /\ thrown' = TRUE
    BY <1>1 DEF AcceptBook
  <2> QED BY <1>1, <2>1 DEF BookInv, BooksFormed, DepthBounded, TypeOK
<1>2. CASE s \in DOMAIN sides
  <2> DEFINE new == [bids |-> b, asks |-> k, prec |-> sides[s].prec]
  <2>1. /\ sides' = [x \in DOMAIN sides |-> IF x = s THEN new ELSE sides[x]]
        /\ thrown' \in BOOLEAN
    <3>1. sides' = Replaced(s, b, k) /\ thrown' \in BOOLEAN
      BY <1>2, AcceptBookIs DEF BookInv
    <3> QED BY <3>1 DEF Replaced
  <2>2. /\ new.bids = b /\ new.asks = k /\ new.prec = sides[s].prec
        /\ new["bids"] = b /\ new["asks"] = k
        /\ new = [bids |-> new.bids, asks |-> new.asks, prec |-> new.prec]
    OBVIOUS
  <2> HIDE DEF new
  <2>3. DOMAIN sides' = DOMAIN sides /\ sides' = [x \in DOMAIN sides' |-> sides'[x]]
    BY <2>1
  <2>4. \A x \in DOMAIN sides : sides'[x] = IF x = s THEN new ELSE sides[x]
    BY <2>1
  <2>5. BooksFormed'
    BY <2>2, <2>3, <2>4 DEF BooksFormed, BookInv
  <2>6. DepthBounded'
    <3> SUFFICES ASSUME NEW x \in DOMAIN sides, x \notin deep', NEW sd \in {"bids", "asks"}
                 PROVE  Cardinality(DOMAIN sides'[x][sd]) <= BookDepth
      BY <2>3 DEF DepthBounded
    <3>1. CASE x = s
      BY <1>2, <2>2, <2>4, <3>1
    <3>2. CASE x # s
      BY <2>4, <3>2 DEF BookInv, DepthBounded
    <3> QED BY <3>1, <3>2
  <2>7. ASSUME NEW x \in DOMAIN sides'
        PROVE  /\ sides'[x].prec \in Precisions
               /\ [bids |-> sides'[x].bids, asks |-> sides'[x].asks] \in Book(Qtys \cup {0})
    <3>1. CASE x = s
      <4>1. [bids |-> b, asks |-> k] \in Book(Qtys \cup {0})
        BY <1>2, SideOfIs DEF Book
      <4>2. sides[s].prec \in Precisions
        BY <1>2 DEF BookInv, TypeOK
      <4> QED BY <2>2, <2>3, <2>4, <3>1, <4>1, <4>2
    <3>2. CASE x # s
      BY <2>3, <2>4, <3>2 DEF BookInv, TypeOK
    <3> QED BY <3>1, <3>2
  <2>8. \A x \in DOMAIN sides : sides'[x].prec = sides[x].prec
                                /\ (x # s => sides'[x] = sides[x])
    BY <2>2, <2>4
  <2> QED BY <2>1, <2>3, <2>5, <2>6, <2>7, <2>8
<1> QED BY <1>1, <1>2

\* A message received is accepted, and if it was not refused the best levels are
\* the venue's or the checksum was mistaken.
LEMMA ReceiveDoes ==
  ASSUME BookInv, NEW s \in Symbols, NEW b, NEW k, NEW book, NEW crc,
         Receive(s, [sides[s] EXCEPT !.bids = b, !.asks = k], book, crc)
  PROVE  /\ AcceptBook(s, [sides[s] EXCEPT !.bids = b, !.asks = k], crc)
         /\ mistaken' \in BOOLEAN /\ (mistaken => mistaken')
         /\ ~thrown' => s \in DOMAIN sides /\ (mistaken' \/ SameTop(sides'[s], book))
<1> DEFINE new == [sides[s] EXCEPT !.bids = b, !.asks = k]
<1>1. /\ AcceptBook(s, new, crc)
      /\ mistaken' = \/ mistaken
                     \/ /\ s \in DOMAIN sides
                        /\ Crc32(new.bids, new.asks, new.prec) = crc
                        /\ ~SameTop(new, book)
  BY DEF Receive
<1> HIDE DEF new
<1>2. mistaken' \in BOOLEAN /\ (mistaken => mistaken')
  BY <1>1
<1>3. ASSUME ~thrown' PROVE s \in DOMAIN sides /\ (mistaken' \/ SameTop(sides'[s], book))
  <2>1. s \in DOMAIN sides /\ Verify(s, new, crc)
    BY <1>1, <1>3 DEF AcceptBook
  <2>2. sides'[s] = new /\ Crc32(new.bids, new.asks, new.prec) = crc
    BY <1>3, <2>1 DEF Verify
  <2> QED BY <1>1, <2>1, <2>2
<1> QED BY <1>1, <1>2, <1>3 DEF new

\* What a snapshot of these sides, in whatever order it lists them, does.
LEMMA SnapshotOfDoes ==
  ASSUME NEW s \in Symbols, NEW b, NEW k, IsSide(b, BidPrices, Qtys), IsSide(k, AskPrices, Qtys),
         SnapshotOf(s, b, k)
  PROVE  /\ ~thrown /\ synced' = synced \cup {s} /\ UNCHANGED <<venue, listed, refdata>>
         /\ Receive(s, [sides[s] EXCEPT !.bids = b, !.asks = k], venue[s],
                    Crc32(b, k, listed[s]))
<1>1. PICK bids \in SetToSeqs(Quotes(b)), asks \in SetToSeqs(Quotes(k)) :
        Receive(s, AcceptSnapshot(s, [bids |-> bids, asks |-> asks]), venue[s],
                Crc32(b, k, listed[s]))
  BY DEF SnapshotOf
<1>2. IsFiniteSet(DOMAIN b) /\ IsFiniteSet(DOMAIN k)
  BY PricesAre, FS_Subset DEF IsSide
<1>3. FromSnapshot(bids) = b /\ FromSnapshot(asks) = k
  BY <1>2, SnapshotGives DEF IsSide
<1>4. AcceptSnapshot(s, [bids |-> bids, asks |-> asks])
        = [sides[s] EXCEPT !.bids = b, !.asks = k]
  BY <1>3 DEF AcceptSnapshot
<1>5. ~thrown /\ synced' = synced \cup {s} /\ UNCHANGED <<venue, listed, refdata>>
  BY DEF SnapshotOf
<1> QED BY <1>1, <1>4, <1>5

\* A snapshot, deep or not, keeps the books books.
LEMMA SnapshotKeeps ==
  ASSUME BookInv, NEW s \in Symbols, NEW b, NEW k,
         IsSide(b, BidPrices, Qtys), IsSide(k, AskPrices, Qtys), SnapshotOf(s, b, k),
         \/ deep' = deep \cup {s}
         \/ /\ deep' = deep \ {s}
            /\ Cardinality(DOMAIN b) <= BookDepth /\ Cardinality(DOMAIN k) <= BookDepth,
         sound' \in BOOLEAN
  PROVE  /\ BooksFormed' /\ TypeOK' /\ DepthBounded' /\ PrecisionsAgree'
         /\ DOMAIN sides' = DOMAIN sides
         /\ \A x \in DOMAIN sides : sides'[x].prec = sides[x].prec
                                    /\ (x # s => sides'[x] = sides[x])
<1> DEFINE crc == Crc32(b, k, listed[s])
<1>1. /\ UNCHANGED <<venue, listed, refdata>> /\ synced' = synced \cup {s}
      /\ Receive(s, [sides[s] EXCEPT !.bids = b, !.asks = k], venue[s], crc)
  BY SnapshotOfDoes
<1> HIDE DEF crc
<1>2. AcceptBook(s, [sides[s] EXCEPT !.bids = b, !.asks = k], crc) /\ mistaken' \in BOOLEAN
  BY <1>1, ReceiveDoes
<1>3. IsSide(b, BidPrices, Qtys \cup {0}) /\ IsSide(k, AskPrices, Qtys \cup {0})
  BY DEF IsSide
<1>4. /\ BooksFormed' /\ DepthBounded'
      /\ DOMAIN sides' = DOMAIN sides /\ thrown' \in BOOLEAN
      /\ \A x \in DOMAIN sides : sides'[x].prec = sides[x].prec
                                 /\ (x # s => sides'[x] = sides[x])
      /\ \A x \in DOMAIN sides' :
           /\ sides'[x].prec \in Precisions
           /\ [bids |-> sides'[x].bids, asks |-> sides'[x].asks] \in Book(Qtys \cup {0})
  BY <1>2, <1>3, AcceptBookKeeps
<1>5. deep' \subseteq Symbols
  BY DEF BookInv, TypeOK
<1>6. TypeOK'
  BY <1>1, <1>2, <1>4, <1>5 DEF BookInv, TypeOK
<1>7. PrecisionsAgree'
  BY <1>1, <1>4 DEF BookInv, PrecisionsAgree
<1> QED BY <1>4, <1>6, <1>7

\* The sides the venue may send of one of its books.
LEMMA VenueSides ==
  ASSUME BookInv, NEW s \in Symbols
  PROVE  /\ IsSide(venue[s].bids, BidPrices, Qtys) /\ IsSide(venue[s].asks, AskPrices, Qtys)
         /\ IsSide(Best("bids", venue[s]), BidPrices, Qtys)
         /\ IsSide(Best("asks", venue[s]), AskPrices, Qtys)
         /\ Cardinality(DOMAIN Best("bids", venue[s])) <= BookDepth
         /\ Cardinality(DOMAIN Best("asks", venue[s])) <= BookDepth
<1>1. venue[s] \in Book(Qtys)
  BY DEF BookInv, TypeOK
<1>2. IsSide(venue[s]["bids"], BidPrices, Qtys) /\ IsSide(venue[s]["asks"], AskPrices, Qtys)
  BY <1>1, VenueType
<1>3. /\ IsSide(Best("bids", venue[s]), BidPrices, Qtys)
      /\ Cardinality(DOMAIN Best("bids", venue[s])) <= BookDepth
  BY <1>2, BestType, PricesAre DEF Best
<1>4. /\ IsSide(Best("asks", venue[s]), AskPrices, Qtys)
      /\ Cardinality(DOMAIN Best("asks", venue[s])) <= BookDepth
  BY <1>2, BestType, PricesAre DEF Best
<1> QED BY <1>2, <1>3, <1>4

LEMMA SnapshotInv == ASSUME BookInv, NEW s \in Symbols, Snapshot(s) PROVE BookInv'
<1> DEFINE bb == Best("bids", venue[s])
           ba == Best("asks", venue[s])
<1>1. /\ IsSide(bb, BidPrices, Qtys) /\ Cardinality(DOMAIN bb) <= BookDepth
      /\ IsSide(ba, AskPrices, Qtys) /\ Cardinality(DOMAIN ba) <= BookDepth
  BY VenueSides
<1>2. /\ SnapshotOf(s, bb, ba)
      /\ sound' = (sound /\ s \in DOMAIN sides) /\ deep' = deep \ {s}
  BY DEF Snapshot
<1> HIDE DEF bb, ba
<1>3. /\ ~thrown /\ synced' = synced \cup {s} /\ UNCHANGED <<venue, listed, refdata>>
      /\ Receive(s, [sides[s] EXCEPT !.bids = bb, !.asks = ba], venue[s],
                 Crc32(bb, ba, listed[s]))
  BY <1>1, <1>2, SnapshotOfDoes
<1>4. sound' \in BOOLEAN
  BY <1>2
<1>5. /\ BooksFormed' /\ TypeOK' /\ DepthBounded' /\ PrecisionsAgree'
      /\ DOMAIN sides' = DOMAIN sides
      /\ \A x \in DOMAIN sides : sides'[x].prec = sides[x].prec
                                 /\ (x # s => sides'[x] = sides[x])
  BY <1>1, <1>2, <1>4, SnapshotKeeps
<1>6. Current' /\ Subscribed'
  BY <1>2, <1>3, <1>5 DEF BookInv, Faithful, Current, Subscribed
<1>7. ASSUME sound'
      PROVE  ~thrown' /\ sides'[s].bids = bb /\ sides'[s].asks = ba
  <2>1. s \in DOMAIN sides /\ sides[s].prec = listed[s]
    BY <1>2, <1>7 DEF BookInv, Faithful, Current
  <2> DEFINE crc == Crc32(bb, ba, listed[s])
  <2>2. crc = Crc32(bb, ba, sides[s].prec)
    BY <2>1
  <2>3. Receive(s, [sides[s] EXCEPT !.bids = bb, !.asks = ba], venue[s], crc)
    BY <1>3
  <2> HIDE DEF crc
  <2>4. AcceptBook(s, [sides[s] EXCEPT !.bids = bb, !.asks = ba], crc)
    BY <2>3, ReceiveDoes
  <2>5. sides' = Replaced(s, bb, ba) /\ ~thrown'
    BY <2>1, <2>2, <2>4, AcceptBookIs DEF BookInv
  <2> QED BY <2>1, <2>5 DEF Replaced
<1>8. MirrorsVenue'
  <2> SUFFICES ASSUME sound', NEW x \in synced'
               PROVE  /\ sides'[x].bids = Best("bids", venue'[x])
                      /\ sides'[x].asks = Best("asks", venue'[x])
    BY DEF MirrorsVenue, Best
  <2>1. CASE x = s
    BY <1>3, <1>7, <2>1 DEF bb, ba
  <2>2. CASE x # s
    <3>1. sound /\ x \in synced /\ x \in DOMAIN sides
      BY <1>2, <1>3, <2>2 DEF BookInv, Faithful, Subscribed
    <3>2. sides[x].bids = Best("bids", venue[x]) /\ sides[x].asks = Best("asks", venue[x])
      BY <3>1 DEF BookInv, Faithful, MirrorsVenue
    <3> QED BY <1>3, <1>5, <2>2, <3>1, <3>2
  <2> QED BY <2>1, <2>2
<1>9. NoFalseAlarm'
  BY <1>7 DEF NoFalseAlarm
<1> QED BY <1>5, <1>6, <1>8, <1>9 DEF BookInv, Faithful

LEMMA DeepSnapshotInv == ASSUME BookInv, NEW s \in Symbols, DeepSnapshot(s) PROVE BookInv'
<1> DEFINE b == venue[s].bids
           k == venue[s].asks
<1>1. SnapshotOf(s, b, k) /\ sound' = FALSE /\ deep' = deep \cup {s}
  BY DEF DeepSnapshot
<1>2. IsSide(b, BidPrices, Qtys) /\ IsSide(k, AskPrices, Qtys)
  BY VenueSides
<1> HIDE DEF b, k
<1>3. /\ BooksFormed' /\ TypeOK' /\ DepthBounded' /\ PrecisionsAgree'
      /\ DOMAIN sides' = DOMAIN sides
      /\ \A x \in DOMAIN sides : sides'[x].prec = sides[x].prec
  BY <1>1, <1>2, SnapshotKeeps
<1>4. UNCHANGED listed
  BY <1>1, <1>2, SnapshotOfDoes
<1>5. Faithful'
  BY <1>1, <1>3, <1>4 DEF Faithful, Current, Subscribed, MirrorsVenue, NoFalseAlarm, BookInv
<1> QED BY <1>3, <1>5 DEF BookInv

\* An update, of whatever quotes, keeps the books books.
LEMMA UpdateKeeps ==
  ASSUME BookInv, NEW s \in Symbols, NEW new \in Book(Qtys), NEW bq, NEW aq,
         IsFiniteSet(bq), \A q \in bq : q.price \in BidPrices /\ q.qty \in Qtys \cup {0},
         IsFiniteSet(aq), \A q \in aq : q.price \in AskPrices /\ q.qty \in Qtys \cup {0},
         Update(s, new, bq, aq), sound' \in BOOLEAN
  PROVE  /\ BooksFormed' /\ TypeOK' /\ DepthBounded' /\ PrecisionsAgree'
         /\ DOMAIN sides' = DOMAIN sides
         /\ \A x \in DOMAIN sides : sides'[x].prec = sides[x].prec
                                    /\ (x # s => sides'[x] = sides[x])
<1>1. /\ ~thrown /\ venue' = [venue EXCEPT ![s] = new]
      /\ UNCHANGED <<listed, synced, refdata>>
  BY DEF Update
<1>2. venue' \in [Symbols -> Book(Qtys)]
  BY <1>1 DEF BookInv, TypeOK
<1>3. CASE ~(s \in synced /\ bq \cup aq # {})
  <2>1. UNCHANGED <<sides, thrown, deep, mistaken>>
    BY <1>3 DEF Update
  <2> QED BY <1>1, <1>2, <2>1
          DEF BookInv, BooksFormed, TypeOK, DepthBounded, PrecisionsAgree
<1>4. CASE s \in synced /\ bq \cup aq # {}
  <2>1. PICK bids \in SetToSeqs(bq), asks \in SetToSeqs(aq) :
          Receive(s, AcceptUpdate(s, [bids |-> bids, asks |-> asks]), new, VenueCrc(s, new))
    BY <1>4 DEF Update
  <2> DEFINE b == ApplyUpdate("bids", sides[s].bids, bids)
             k == ApplyUpdate("asks", sides[s].asks, asks)
             crc == VenueCrc(s, new)
  <2>2. Receive(s, [sides[s] EXCEPT !.bids = b, !.asks = k], new, crc)
    BY <2>1 DEF AcceptUpdate
  <2>3. ASSUME s \in DOMAIN sides
        PROVE  IsSide(b, BidPrices, Qtys \cup {0}) /\ Cardinality(DOMAIN b) <= BookDepth
    <3>1. Len(bids) \in Nat /\ \A i \in 1 .. Len(bids) : bids[i] \in bq
      BY Enumerates
    <3>2. IsSide(Applied(sides[s].bids, bids), BidPrices, Qtys \cup {0})
      BY <2>3, <3>1, SidesType, AppliedType
    <3> QED BY <3>2, PricesAre, BestType DEF ApplyUpdate
  <2>4. ASSUME s \in DOMAIN sides
        PROVE  IsSide(k, AskPrices, Qtys \cup {0}) /\ Cardinality(DOMAIN k) <= BookDepth
    <3>1. Len(asks) \in Nat /\ \A i \in 1 .. Len(asks) : asks[i] \in aq
      BY Enumerates
    <3>2. IsSide(Applied(sides[s].asks, asks), AskPrices, Qtys \cup {0})
      BY <2>4, <3>1, SidesType, AppliedType
    <3> QED BY <3>2, PricesAre, BestType DEF ApplyUpdate
  <2> HIDE DEF b, k, crc
  <2>5. /\ AcceptBook(s, [sides[s] EXCEPT !.bids = b, !.asks = k], crc)
        /\ mistaken' \in BOOLEAN
    BY <2>2, ReceiveDoes
  <2>6. /\ BooksFormed' /\ DepthBounded'
        /\ DOMAIN sides' = DOMAIN sides /\ thrown' \in BOOLEAN
        /\ \A x \in DOMAIN sides : sides'[x].prec = sides[x].prec
                                   /\ (x # s => sides'[x] = sides[x])
        /\ \A x \in DOMAIN sides' :
             /\ sides'[x].prec \in Precisions
             /\ [bids |-> sides'[x].bids, asks |-> sides'[x].asks] \in Book(Qtys \cup {0})
    <3>1. deep' = deep \ {s}
      BY <1>4 DEF Update
    <3> QED BY <2>3, <2>4, <2>5, <3>1, AcceptBookKeeps
  <2>7. TypeOK'
    <3>1. deep' \subseteq Symbols
      BY <1>4 DEF Update, BookInv, TypeOK
    <3> QED BY <1>1, <1>2, <2>6, <2>5, <3>1 DEF BookInv, TypeOK
  <2>8. PrecisionsAgree'
    BY <1>1, <2>6 DEF BookInv, PrecisionsAgree
  <2> QED BY <2>6, <2>7, <2>8
<1> QED BY <1>3, <1>4

\* What changes in a venue's book is finitely many quotes of its prices.
LEMMA ChangesType ==
  ASSUME BookInv, NEW s \in Symbols, NEW new \in NextBooks(venue[s])
  PROVE  /\ new \in Book(Qtys) /\ venue[s] \in Book(Qtys)
         /\ IsFiniteSet(Changes("bids", venue[s], new))
         /\ IsFiniteSet(Changes("asks", venue[s], new))
         /\ \A q \in Changes("bids", venue[s], new) :
              q.price \in BidPrices /\ q.qty \in Qtys \cup {0}
         /\ \A q \in Changes("asks", venue[s], new) :
              q.price \in AskPrices /\ q.qty \in Qtys \cup {0}
<1>1. new \in Book(Qtys)
  BY DEF NextBooks, Changed, Book
<1>2. venue[s] \in Book(Qtys)
  BY DEF BookInv, TypeOK
<1>3. /\ IsSide(new["bids"], BidPrices, Qtys) /\ IsSide(new["asks"], AskPrices, Qtys)
      /\ IsSide(venue[s]["bids"], BidPrices, Qtys) /\ IsSide(venue[s]["asks"], AskPrices, Qtys)
  BY <1>1, <1>2, VenueType
<1>4. /\ IsFiniteSet(Changes("bids", venue[s], new))
      /\ \A q \in Changes("bids", venue[s], new) :
           q.price \in BidPrices /\ q.qty \in Qtys \cup {0}
  BY <1>3, PricesAre, ChangesAre
<1>5. /\ IsFiniteSet(Changes("asks", venue[s], new))
      /\ \A q \in Changes("asks", venue[s], new) :
           q.price \in AskPrices /\ q.qty \in Qtys \cup {0}
  BY <1>3, PricesAre, ChangesAre
<1> QED BY <1>1, <1>2, <1>4, <1>5

LEMMA LossyUpdateInv == ASSUME BookInv, NEW s \in Symbols, LossyUpdate(s) PROVE BookInv'
<1>1. PICK new \in NextBooks(venue[s]) :
        \E lost : Update(s, new, Changes("bids", venue[s], new) \ {lost},
                        Changes("asks", venue[s], new) \ {lost})
  BY DEF LossyUpdate
<1>2. PICK lost : Update(s, new, Changes("bids", venue[s], new) \ {lost},
                         Changes("asks", venue[s], new) \ {lost})
  BY <1>1
<1>3. sound' = FALSE /\ UNCHANGED listed
  BY <1>2 DEF LossyUpdate, Update
<1>4. /\ BooksFormed' /\ TypeOK' /\ DepthBounded' /\ PrecisionsAgree'
      /\ DOMAIN sides' = DOMAIN sides
      /\ \A x \in DOMAIN sides : sides'[x].prec = sides[x].prec
                                 /\ (x # s => sides'[x] = sides[x])
  <2> DEFINE bq == Changes("bids", venue[s], new) \ {lost}
             aq == Changes("asks", venue[s], new) \ {lost}
  <2>1. /\ new \in Book(Qtys) /\ IsFiniteSet(bq) /\ IsFiniteSet(aq)
        /\ \A q \in bq : q.price \in BidPrices /\ q.qty \in Qtys \cup {0}
        /\ \A q \in aq : q.price \in AskPrices /\ q.qty \in Qtys \cup {0}
    BY ChangesType, FS_Difference
  <2>2. Update(s, new, bq, aq)
    BY <1>2
  <2> HIDE DEF bq, aq
  <2> QED BY <1>3, <2>1, <2>2, UpdateKeeps
<1>5. Faithful'
  BY <1>3, <1>4 DEF Faithful, Current, Subscribed, MirrorsVenue, NoFalseAlarm, BookInv
<1> QED BY <1>4, <1>5 DEF BookInv

LEMMA SoundUpdateInv == ASSUME BookInv, NEW s \in Symbols, SoundUpdate(s) PROVE BookInv'
<1>1. PICK new \in NextBooks(venue[s]) :
        Update(s, new, Changes("bids", venue[s], new), Changes("asks", venue[s], new))
  BY DEF SoundUpdate
<1> DEFINE bq == Changes("bids", venue[s], new)
           aq == Changes("asks", venue[s], new)
<1>2. /\ ~thrown /\ venue' = [venue EXCEPT ![s] = new]
      /\ UNCHANGED <<listed, synced, refdata, sound>>
  BY <1>1 DEF SoundUpdate, Update
<1>3. /\ new \in Book(Qtys) /\ venue[s] \in Book(Qtys) /\ IsFiniteSet(bq) /\ IsFiniteSet(aq)
      /\ \A q \in bq : q.price \in BidPrices /\ q.qty \in Qtys \cup {0}
      /\ \A q \in aq : q.price \in AskPrices /\ q.qty \in Qtys \cup {0}
  BY ChangesType
<1>4. Update(s, new, bq, aq)
  BY <1>1
<1>5. /\ IsSide(new["bids"], BidPrices, Qtys) /\ IsSide(new["asks"], AskPrices, Qtys)
      /\ IsSide(venue[s]["bids"], BidPrices, Qtys) /\ IsSide(venue[s]["asks"], AskPrices, Qtys)
  BY <1>3, VenueType
<1>6. /\ BooksFormed' /\ TypeOK' /\ DepthBounded' /\ PrecisionsAgree'
      /\ DOMAIN sides' = DOMAIN sides
      /\ \A x \in DOMAIN sides : sides'[x].prec = sides[x].prec
                                 /\ (x # s => sides'[x] = sides[x])
  <2>1. sound' \in BOOLEAN
    BY <1>2 DEF BookInv, TypeOK
  <2> HIDE DEF bq, aq
  <2> QED BY <1>3, <1>4, <2>1, UpdateKeeps
<1>7. Current' /\ Subscribed'
  BY <1>2, <1>6 DEF BookInv, Faithful, Current, Subscribed
<1>8. venue'[s] = new /\ \A x \in Symbols : x # s => venue'[x] = venue[x]
  BY <1>2 DEF BookInv, TypeOK
<1>9. ASSUME sound, s \in synced
      PROVE  /\ ~thrown'
             /\ sides'[s].bids = Best("bids", new) /\ sides'[s].asks = Best("asks", new)
  <2>1. /\ s \in DOMAIN sides /\ sides[s].prec = listed[s]
        /\ sides[s].bids = Best("bids", venue[s]) /\ sides[s].asks = Best("asks", venue[s])
    BY <1>9 DEF BookInv, Faithful, Current, Subscribed, MirrorsVenue
  <2>2. CASE bq \cup aq = {}
    <3>1. UNCHANGED <<sides, thrown>>
      BY <1>1, <2>2 DEF Update
    <3>2. /\ Best("bids", venue[s]) = Best("bids", new)
          /\ Best("asks", venue[s]) = Best("asks", new)
      <4>1. Changes("bids", venue[s], new) = {} /\ Changes("asks", venue[s], new) = {}
        BY <2>2
      <4>2. BidPrices \in SUBSET Nat /\ IsFiniteSet(BidPrices)
        BY PricesAre
      <4>3. AskPrices \in SUBSET Nat /\ IsFiniteSet(AskPrices)
        BY PricesAre
      <4> HIDE DEF bq, aq
      <4>4. Best("bids", venue[s]) = Best("bids", new)
        BY <1>5, <4>1, <4>2, NothingGives
      <4>5. Best("asks", venue[s]) = Best("asks", new)
        BY <1>5, <4>1, <4>3, NothingGives
      <4> QED BY <4>4, <4>5
    <3> QED BY <1>2, <2>1, <3>1, <3>2
  <2>3. CASE bq \cup aq # {}
    <3>1. PICK bids \in SetToSeqs(bq), asks \in SetToSeqs(aq) :
            Receive(s, AcceptUpdate(s, [bids |-> bids, asks |-> asks]), new, VenueCrc(s, new))
      BY <1>4, <1>9, <2>3 DEF Update
    <3>2. /\ ApplyUpdate("bids", sides[s].bids, bids) = Best("bids", new)
          /\ ApplyUpdate("asks", sides[s].asks, asks) = Best("asks", new)
      BY <1>5, <2>1, PricesAre, UpdateGives
    <3>3. AcceptUpdate(s, [bids |-> bids, asks |-> asks])
            = [sides[s] EXCEPT !.bids = Best("bids", new), !.asks = Best("asks", new)]
      BY <3>2 DEF AcceptUpdate
    <3> DEFINE nb == Best("bids", new)
               na == Best("asks", new)
    <3>4. VenueCrc(s, new) = Crc32(nb, na, listed[s])
      BY DEF VenueCrc
    <3>5. Receive(s, [sides[s] EXCEPT !.bids = nb, !.asks = na], new, VenueCrc(s, new))
      BY <3>1, <3>3
    <3> HIDE DEF nb, na
    <3>6. AcceptBook(s, [sides[s] EXCEPT !.bids = nb, !.asks = na], VenueCrc(s, new))
      BY <3>5, ReceiveDoes
    <3>7. /\ sides' = Replaced(s, nb, na)
          /\ Crc32(nb, na, sides[s].prec) = VenueCrc(s, new) => ~thrown'
      BY <2>1, <3>6, AcceptBookIs DEF BookInv
    <3>8. sides'[s].bids = nb /\ sides'[s].asks = na
      BY <2>1, <3>7 DEF Replaced
    <3> QED BY <2>1, <3>4, <3>7, <3>8 DEF nb, na
  <2> QED BY <2>2, <2>3
<1>10. MirrorsVenue'
  <2> SUFFICES ASSUME sound', NEW x \in synced'
               PROVE  /\ sides'[x].bids = Best("bids", venue'[x])
                      /\ sides'[x].asks = Best("asks", venue'[x])
    BY DEF MirrorsVenue, Best
  <2>1. sound /\ x \in synced /\ x \in Symbols /\ x \in DOMAIN sides
    BY <1>2 DEF BookInv, TypeOK, Faithful, Subscribed
  <2>2. CASE x = s
    BY <1>8, <1>9, <2>1, <2>2
  <2>3. CASE x # s
    <3>1. sides[x].bids = Best("bids", venue[x]) /\ sides[x].asks = Best("asks", venue[x])
      BY <2>1 DEF BookInv, Faithful, MirrorsVenue
    <3> QED BY <1>6, <1>8, <2>1, <2>3, <3>1
  <2> QED BY <2>2, <2>3
<1>11. NoFalseAlarm'
  <2> SUFFICES ASSUME sound PROVE ~thrown'
    BY <1>2 DEF NoFalseAlarm
  <2>1. CASE s \in synced
    BY <1>9, <2>1
  <2>2. CASE s \notin synced
    BY <1>2, <1>4, <2>2 DEF Update
  <2> QED BY <2>1, <2>2
<1> QED BY <1>6, <1>7, <1>10, <1>11 DEF BookInv, Faithful

\* A pair gives its precision to the book and leaves the levels alone.
LEMMA InstrumentInv == ASSUME BookInv, NEW s \in Symbols, Instrument(s) PROVE BookInv'
<1>1. PICK prec \in Precisions : /\ listed' = [listed EXCEPT ![s] = prec]
                                 /\ refdata' = With(refdata, s, prec)
                                 /\ sides' = AcceptPair(s, prec)
  BY DEF Instrument
<1>2. ~thrown /\ UNCHANGED <<venue, synced, thrown, sound, deep, mistaken>>
  BY DEF Instrument, history
<1> DEFINE new == IF s \in DOMAIN sides
                  THEN [bids |-> sides[s].bids, asks |-> sides[s].asks, prec |-> prec]
                  ELSE [bids |-> EmptySide, asks |-> EmptySide, prec |-> prec]
<1>3. sides' = [x \in DOMAIN sides \cup {s} |-> IF x = s THEN new ELSE sides[x]]
  <2>1. CASE s \notin DOMAIN sides
    BY <1>1, <2>1 DEF AcceptPair, With
  <2>2. CASE s \in DOMAIN sides
    <3>1. DOMAIN sides \cup {s} = DOMAIN sides
      BY <2>2
    <3>2. sides[s] = [bids |-> sides[s].bids, asks |-> sides[s].asks, prec |-> sides[s].prec]
      BY <2>2 DEF BookInv, BooksFormed
    <3>3. sides' = [x \in DOMAIN sides |-> IF x = s THEN [sides[s] EXCEPT !.prec = prec]
                                           ELSE sides[x]]
      <4>1. CASE sides[s].prec # prec
        BY <1>1, <2>2, <4>1 DEF AcceptPair, BookInv, BooksFormed
      <4>2. CASE sides[s].prec = prec
        <5>1. [sides[s] EXCEPT !.prec = prec] = sides[s]
          BY <3>2, <4>2
        <5>2. sides' = sides /\ sides = [x \in DOMAIN sides |-> sides[x]]
          BY <1>1, <2>2, <4>2 DEF AcceptPair, BookInv, BooksFormed
        <5> QED BY <5>1, <5>2
      <4> QED BY <4>1, <4>2
    <3>4. [sides[s] EXCEPT !.prec = prec] = new
      BY <2>2, <3>2
    <3> HIDE DEF new
    <3> QED BY <3>1, <3>3, <3>4
  <2> QED BY <2>1, <2>2
<1>4. /\ new = [bids |-> new.bids, asks |-> new.asks, prec |-> new.prec] /\ new.prec = prec
      /\ new.bids = (IF s \in DOMAIN sides THEN sides[s].bids ELSE EmptySide)
      /\ new.asks = (IF s \in DOMAIN sides THEN sides[s].asks ELSE EmptySide)
      /\ new["bids"] = new.bids /\ new["asks"] = new.asks
  OBVIOUS
<1> HIDE DEF new
<1>5. DOMAIN sides' = DOMAIN sides \cup {s} /\ sides' = [x \in DOMAIN sides' |-> sides'[x]]
  BY <1>3
<1>6. \A x \in DOMAIN sides' : sides'[x] = IF x = s THEN new ELSE sides[x]
  BY <1>3
<1>7. /\ IsSide(new.bids, BidPrices, Qtys \cup {0}) /\ IsSide(new.asks, AskPrices, Qtys \cup {0})
      /\ s \notin deep \/ s \notin DOMAIN sides =>
           Cardinality(DOMAIN new.bids) <= BookDepth /\ Cardinality(DOMAIN new.asks) <= BookDepth
  <2>1. CASE s \in DOMAIN sides
    <3>1. ASSUME s \notin deep
          PROVE  /\ Cardinality(DOMAIN sides[s]["bids"]) <= BookDepth
                 /\ Cardinality(DOMAIN sides[s]["asks"]) <= BookDepth
      BY <2>1, <3>1 DEF BookInv, DepthBounded
    <3> QED BY <1>4, <2>1, <3>1, SidesType
  <2>2. CASE s \notin DOMAIN sides
    <3>1. DOMAIN EmptySide = {} /\ Cardinality({}) <= BookDepth
      BY FS_EmptySet, SidesAssumption DEF EmptySide
    <3>2. \A P, Q : IsSide(EmptySide, P, Q)
      BY DEF IsSide, EmptySide
    <3> QED BY <1>4, <2>2, <3>1, <3>2
  <2> QED BY <2>1, <2>2
<1>8. BooksFormed'
  BY <1>4, <1>5, <1>6 DEF BookInv, BooksFormed
<1>9. TypeOK'
  <2>1. listed' \in [Symbols -> Precisions]
    BY <1>1 DEF BookInv, TypeOK
  <2>2. refdata' \in Partial(Symbols, Precisions)
    <3>1. PICK X \in SUBSET Symbols : refdata \in [X -> Precisions]
      BY DEF BookInv, TypeOK, Partial
    <3>2. refdata' \in [X \cup {s} -> Precisions] /\ X \cup {s} \in SUBSET Symbols
      BY <1>1, <3>1 DEF With
    <3> QED BY <3>2 DEF Partial
  <2>3. ASSUME NEW x \in DOMAIN sides'
        PROVE  /\ sides'[x].prec \in Precisions
               /\ [bids |-> sides'[x].bids, asks |-> sides'[x].asks] \in Book(Qtys \cup {0})
    <3>1. CASE x = s
      <4>1. [bids |-> new.bids, asks |-> new.asks] \in Book(Qtys \cup {0})
        BY <1>7, SideOfIs DEF Book
      <4> QED BY <1>4, <1>6, <3>1, <4>1
    <3>2. CASE x # s
      BY <1>5, <1>6, <3>2 DEF BookInv, TypeOK
    <3> QED BY <3>1, <3>2
  <2>4. DOMAIN sides' \subseteq Symbols
    BY <1>5 DEF BookInv, TypeOK
  <2> QED BY <1>2, <2>1, <2>2, <2>3, <2>4 DEF BookInv, TypeOK
<1>10. DepthBounded'
  <2> SUFFICES ASSUME NEW x \in DOMAIN sides', x \notin deep, NEW sd \in {"bids", "asks"}
               PROVE  Cardinality(DOMAIN sides'[x][sd]) <= BookDepth
    BY <1>2 DEF DepthBounded
  <2>1. CASE x = s
    BY <1>4, <1>6, <1>7, <2>1
  <2>2. CASE x # s
    BY <1>5, <1>6, <2>2 DEF BookInv, DepthBounded
  <2> QED BY <2>1, <2>2
<1>11. Current' /\ Subscribed'
  <2>1. \A x \in DOMAIN sides' : sides'[x].prec = IF x = s THEN prec ELSE sides[x].prec
    BY <1>4, <1>6
  <2>2. \A x \in Symbols : listed'[x] = IF x = s THEN prec ELSE listed[x]
    BY <1>1 DEF BookInv, TypeOK
  <2> QED BY <1>2, <1>5, <2>1, <2>2 DEF BookInv, TypeOK, Faithful, Current, Subscribed
<1>12. MirrorsVenue'
  <2> SUFFICES ASSUME sound', NEW x \in synced'
               PROVE  /\ sides'[x].bids = Best("bids", venue'[x])
                      /\ sides'[x].asks = Best("asks", venue'[x])
    BY DEF MirrorsVenue, Best
  <2>1. sound /\ x \in synced /\ x \in DOMAIN sides
    BY <1>2 DEF BookInv, Faithful, Subscribed
  <2>2. sides[x].bids = Best("bids", venue[x]) /\ sides[x].asks = Best("asks", venue[x])
    BY <2>1 DEF BookInv, Faithful, MirrorsVenue
  <2>3. sides'[x].bids = sides[x].bids /\ sides'[x].asks = sides[x].asks
    BY <1>4, <1>5, <1>6, <2>1
  <2> QED BY <1>2, <2>2, <2>3
<1>13. NoFalseAlarm'
  BY <1>2 DEF BookInv, Faithful, NoFalseAlarm
<1>14. PrecisionsAgree'
  <2>1. DOMAIN refdata = DOMAIN sides /\ \A x \in DOMAIN sides : refdata[x] = sides[x].prec
    BY DEF BookInv, PrecisionsAgree
  <2>2. refdata' = [x \in DOMAIN sides \cup {s} |-> IF x = s THEN prec ELSE sides[x].prec]
    BY <1>1, <2>1 DEF With
  <2>3. \A x \in DOMAIN sides' : sides'[x].prec = IF x = s THEN prec ELSE sides[x].prec
    BY <1>4, <1>6
  <2> QED BY <1>5, <2>2, <2>3 DEF PrecisionsAgree
<1> QED BY <1>8, <1>9, <1>10, <1>11, <1>12, <1>13, <1>14 DEF BookInv, Faithful

LEMMA BookInvInit == Init => BookInv
<1> SUFFICES ASSUME Init PROVE BookInv
  OBVIOUS
<1>1. IsSide(EmptySide, BidPrices, Qtys) /\ IsSide(EmptySide, AskPrices, Qtys)
  BY DEF IsSide, EmptySide
<1>2. [bids |-> EmptySide, asks |-> EmptySide] \in Book(Qtys)
  BY <1>1, SideOfIs DEF Book
<1>3. venue \in [Symbols -> Book(Qtys)]
  BY <1>2 DEF Init
<1>4. DOMAIN sides = {} /\ sides = [s \in DOMAIN sides |-> sides[s]]
  BY DEF Init
<1>5. refdata \in Partial(Symbols, Precisions)
  <2>1. refdata \in [{} -> Precisions]
    BY DEF Init
  <2> QED BY <2>1 DEF Partial
<1>6. TypeOK
  BY <1>3, <1>4, <1>5 DEF Init, TypeOK
<1>7. Faithful
  BY <1>4 DEF Init, Faithful, Current, Subscribed, MirrorsVenue, NoFalseAlarm
<1>8. PrecisionsAgree
  BY <1>4 DEF Init, PrecisionsAgree
<1> QED BY <1>4, <1>6, <1>7, <1>8 DEF BookInv, BooksFormed, DepthBounded

LEMMA BookInvStep == BookInv /\ [Next]_vars => BookInv'
<1> SUFFICES ASSUME BookInv, [Next]_vars PROVE BookInv'
  OBVIOUS
<1>1. ASSUME NEW s \in Symbols, Instrument(s) PROVE BookInv'
  BY <1>1, InstrumentInv
<1>2. ASSUME NEW s \in Symbols, Snapshot(s) PROVE BookInv'
  BY <1>2, SnapshotInv
<1>3. ASSUME NEW s \in Symbols, SoundUpdate(s) PROVE BookInv'
  BY <1>3, SoundUpdateInv
<1>4. ASSUME NEW s \in Symbols, LossyUpdate(s) PROVE BookInv'
  BY <1>4, LossyUpdateInv
<1>5. ASSUME NEW s \in Symbols, DeepSnapshot(s) PROVE BookInv'
  BY <1>5, DeepSnapshotInv
<1>6. CASE UNCHANGED vars
  <2>1. BooksFormed' /\ TypeOK' /\ DepthBounded' /\ PrecisionsAgree'
    BY <1>6 DEF BookInv, BooksFormed, TypeOK, DepthBounded, PrecisionsAgree, vars, history
  <2>2. Current' /\ Subscribed' /\ NoFalseAlarm'
    BY <1>6 DEF BookInv, Faithful, Current, Subscribed, NoFalseAlarm, vars, history
  <2>3. MirrorsVenue'
    BY <1>6 DEF BookInv, Faithful, MirrorsVenue, Best, vars, history
  <2> QED BY <2>1, <2>2, <2>3 DEF BookInv, Faithful
<1> QED BY <1>1, <1>2, <1>3, <1>4, <1>5, <1>6 DEF Next, Stopped

THEOREM BookInvCorrect == Spec => []BookInv
<1> QED BY BookInvInit, BookInvStep, PTL DEF Spec

\* Type correctness.
THEOREM TypeCorrect == Spec => []TypeOK
<1>1. BookInv => TypeOK
  BY DEF BookInv
<1> QED BY <1>1, BookInvCorrect, PTL

\* A side is deeper than the depth subscribed to only between a snapshot that is and
\* the next update: of snapshots of any depth, any quotes and changes of precision
\* (src/sides.cpp:17-28, include/sides.hpp:93-98, src/level_book.cpp:31-37).
THEOREM DepthBoundedCorrect == Spec => []DepthBounded
<1>1. BookInv => DepthBounded
  BY DEF BookInv
<1> QED BY <1>1, BookInvCorrect, PTL

\* Of a venue that sends every change the recorder's book is after every message
\* the BookDepth best levels of the venue's, for books and depths of any size,
\* any number of changes in an update and any order of its quotes
\* (include/sides.hpp:75-98, src/sides.cpp:17-28).
THEOREM MirrorsVenueCorrect == Spec => []MirrorsVenue
<1>1. BookInv => MirrorsVenue
  BY DEF BookInv, Faithful
<1> QED BY <1>1, BookInvCorrect, PTL

\* ... and so no checksum ever disagrees, whatever the checksum computes
\* (src/level_book.cpp:17-38).
THEOREM NoFalseAlarmCorrect == Spec => []NoFalseAlarm
<1>1. BookInv => NoFalseAlarm
  BY DEF BookInv, Faithful
<1> QED BY <1>1, BookInvCorrect, PTL

\* refdata, with which rows are written, and the level book, with which they
\* are verified, have the same pairs at the same precisions
\* (kdr_record/kdr_record.cpp:102-113), whatever the venue sends.
THEOREM PrecisionsAgreeCorrect == Spec => []PrecisionsAgree
<1>1. BookInv => PrecisionsAgree
  BY DEF BookInv
<1> QED BY <1>1, BookInvCorrect, PTL

-----------------------------------------------------------------------------
(* What the checksum says of a venue that loses quotes.                     *)

\* Of the best levels the best are those of the side.
LEMMA TopOfBest ==
  ASSUME NEW sd, NEW P \in SUBSET Nat, IsFiniteSet(P), NEW Q, NEW side, IsSide(side, P, Q),
         CrcDepth <= BookDepth
  PROVE  Top(sd, Top(sd, side, BookDepth), CrcDepth) = Top(sd, side, CrcDepth)
<1> DEFINE best == Top(sd, side, BookDepth)
<1>1. /\ DOMAIN side \subseteq Nat /\ IsFiniteSet(DOMAIN side)
      /\ BookDepth \in Nat /\ CrcDepth \in Nat
  BY FS_Subset, SidesAssumption DEF IsSide
<1>2. /\ DOMAIN best = Leaders(sd, DOMAIN side, BookDepth)
      /\ DOMAIN best \subseteq DOMAIN side /\ \A p \in DOMAIN best : best[p] = side[p]
  <2>1. best = [p \in Leaders(sd, DOMAIN side, BookDepth) |-> side[p]]
    BY TopIs
  <2>2. Leaders(sd, DOMAIN side, BookDepth) \subseteq DOMAIN side
    BY DEF Leaders
  <2> HIDE DEF best
  <2> QED BY <2>1, <2>2
<1> HIDE DEF best
<1>3. ASSUME NEW p \in Leaders(sd, DOMAIN side, CrcDepth) PROVE p \in DOMAIN best
  <2>1. p \in DOMAIN side /\ Rank(sd, DOMAIN side, p) < CrcDepth
    BY DEF Leaders
  <2>2. Rank(sd, DOMAIN side, p) \in Nat
    BY <1>1, RankType
  <2>3. Rank(sd, DOMAIN side, p) < BookDepth
    BY <1>1, <2>1, <2>2
  <2> QED BY <1>2, <2>1, <2>3 DEF Leaders
<1>4. Top(sd, best, CrcDepth) = Top(sd, side, CrcDepth)
  BY <1>1, <1>2, <1>3, TopOfPart
<1> QED BY <1>4 DEF best

\* The inductive invariant: as long as no message was refused and no checksum was
\* mistaken, the books subscribed to are known, and their best levels the venue's.
Verified == ~thrown /\ ~mistaken => synced \subseteq DOMAIN sides /\ VerifiedTopAgrees

\* A message received leaves the book it is of with the best levels of the
\* venue's, and the other books as they were.
LEMMA ReceiveVerifies ==
  ASSUME BookInv, Verified, ~thrown, NEW s \in Symbols, NEW b, NEW k, NEW crc,
         Receive(s, [sides[s] EXCEPT !.bids = b, !.asks = k], venue'[s], crc),
         synced' \subseteq synced \cup {s}, \A x \in synced : x # s => venue'[x] = venue[x]
  PROVE  Verified'
<1> SUFFICES ASSUME ~thrown', ~mistaken'
             PROVE  /\ synced' \subseteq DOMAIN sides'
                    /\ \A x \in synced' : SameTop(sides'[x], venue'[x])
  BY DEF Verified, VerifiedTopAgrees, SameTop
<1> DEFINE book == venue'[s]
<1>1. Receive(s, [sides[s] EXCEPT !.bids = b, !.asks = k], book, crc)
  OBVIOUS
<1> HIDE DEF book
<1>2. /\ AcceptBook(s, [sides[s] EXCEPT !.bids = b, !.asks = k], crc)
      /\ s \in DOMAIN sides /\ ~mistaken /\ SameTop(sides'[s], book)
  BY <1>1, ReceiveDoes
<1>3. sides' = Replaced(s, b, k)
  BY <1>2, AcceptBookIs DEF BookInv
<1>4. DOMAIN sides' = DOMAIN sides /\ \A x \in DOMAIN sides : x # s => sides'[x] = sides[x]
  BY <1>3 DEF Replaced
<1>5. synced \subseteq DOMAIN sides /\ \A x \in synced : SameTop(sides[x], venue[x])
  BY <1>2 DEF Verified, VerifiedTopAgrees
<1>6. ASSUME NEW x \in synced' PROVE x \in DOMAIN sides' /\ SameTop(sides'[x], venue'[x])
  <2>1. CASE x = s
    BY <1>2, <1>4, <2>1 DEF book
  <2>2. CASE x # s
    <3>1. /\ x \in synced /\ x \in DOMAIN sides
          /\ sides'[x] = sides[x] /\ venue'[x] = venue[x]
      BY <1>4, <1>5, <2>2
    <3> QED BY <1>4, <1>5, <3>1
  <2> QED BY <2>1, <2>2
<1> QED BY <1>6

LEMMA SnapshotVerifies ==
  ASSUME BookInv, Verified, NEW s \in Symbols, NEW b, NEW k,
         IsSide(b, BidPrices, Qtys), IsSide(k, AskPrices, Qtys), SnapshotOf(s, b, k)
  PROVE  Verified'
<1> DEFINE crc == Crc32(b, k, listed[s])
<1>1. /\ ~thrown /\ synced' = synced \cup {s} /\ venue' = venue
      /\ Receive(s, [sides[s] EXCEPT !.bids = b, !.asks = k], venue[s], crc)
  BY SnapshotOfDoes
<1> HIDE DEF crc
<1> QED BY <1>1, ReceiveVerifies

\* An update leaves the best levels right if it is sent, or if it has nothing to
\* say of them.
LEMMA UpdateVerifies ==
  ASSUME BookInv, CrcDepth <= BookDepth, Verified,
         NEW s \in Symbols, NEW new \in Book(Qtys), NEW bq, NEW aq, Update(s, new, bq, aq),
         bq \cup aq = {} =>
           \A sd \in {"bids", "asks"} : Best(sd, venue[s]) = Best(sd, new)
  PROVE  Verified'
<1>1. ~thrown /\ venue' = [venue EXCEPT ![s] = new] /\ UNCHANGED synced
  BY DEF Update
<1>2. venue'[s] = new /\ venue[s] \in Book(Qtys) /\ synced \subseteq Symbols
      /\ \A x \in Symbols : x # s => venue'[x] = venue[x]
  BY <1>1 DEF BookInv, TypeOK
<1>3. CASE s \in synced /\ bq \cup aq # {}
  <2>1. PICK bids \in SetToSeqs(bq), asks \in SetToSeqs(aq) :
          Receive(s, AcceptUpdate(s, [bids |-> bids, asks |-> asks]), new, VenueCrc(s, new))
    BY <1>3 DEF Update
  <2> DEFINE b == ApplyUpdate("bids", sides[s].bids, bids)
             k == ApplyUpdate("asks", sides[s].asks, asks)
             crc == VenueCrc(s, new)
  <2>2. Receive(s, [sides[s] EXCEPT !.bids = b, !.asks = k], venue'[s], crc)
    BY <1>2, <2>1 DEF AcceptUpdate
  <2> HIDE DEF b, k, crc
  <2> QED BY <1>1, <1>2, <2>2, ReceiveVerifies
<1>4. CASE ~(s \in synced /\ bq \cup aq # {})
  <2>1. UNCHANGED <<sides, thrown, mistaken>>
    BY <1>4 DEF Update
  <2>2. SUFFICES ASSUME ~mistaken, NEW x \in synced
                 PROVE  SameTop(sides[x], venue'[x])
    BY <1>1, <2>1 DEF Verified, VerifiedTopAgrees, SameTop
  <2>3. SameTop(sides[x], venue[x])
    BY <1>1, <2>2 DEF Verified, VerifiedTopAgrees
  <2>4. CASE x # s
    BY <1>2, <2>3, <2>4
  <2>5. CASE x = s
    <3>1. ASSUME NEW sd \in {"bids", "asks"}
          PROVE  Top(sd, venue[s][sd], CrcDepth) = Top(sd, new[sd], CrcDepth)
      <4>1. Best(sd, venue[s]) = Best(sd, new)
        BY <1>4, <2>5
      <4>2. /\ IsSide(new["bids"], BidPrices, Qtys) /\ IsSide(new["asks"], AskPrices, Qtys)
            /\ IsSide(venue[s]["bids"], BidPrices, Qtys)
            /\ IsSide(venue[s]["asks"], AskPrices, Qtys)
        BY <1>2, VenueType
      <4>3. Top(sd, Best(sd, venue[s]), CrcDepth) = Top(sd, venue[s][sd], CrcDepth)
        BY <4>2, PricesAre, TopOfBest DEF Best
      <4>4. Top(sd, Best(sd, new), CrcDepth) = Top(sd, new[sd], CrcDepth)
        BY <4>2, PricesAre, TopOfBest DEF Best
      <4> QED BY <4>1, <4>3, <4>4
    <3> QED BY <1>2, <2>3, <2>5, <3>1 DEF SameTop
  <2> QED BY <2>4, <2>5
<1> QED BY <1>3, <1>4

LEMMA VerifiedStep ==
  ASSUME BookInv, CrcDepth <= BookDepth, Verified, [Next]_vars
  PROVE  Verified'
<1>1. ASSUME NEW s \in Symbols, Instrument(s) PROVE Verified'
  <2>1. PICK prec \in Precisions : sides' = AcceptPair(s, prec)
    BY <1>1 DEF Instrument
  <2>2. UNCHANGED <<venue, synced, thrown, mistaken>>
    BY <1>1 DEF Instrument, history
  <2>3. /\ DOMAIN sides \subseteq DOMAIN sides'
        /\ \A x \in DOMAIN sides, sd \in {"bids", "asks"} : sides'[x][sd] = sides[x][sd]
    <3>1. \A x \in DOMAIN sides :
            sides[x] = [bids |-> sides[x].bids, asks |-> sides[x].asks, prec |-> sides[x].prec]
      BY DEF BookInv, BooksFormed
    <3> QED BY <2>1, <3>1 DEF AcceptPair, With
  <2> QED BY <2>2, <2>3 DEF Verified, VerifiedTopAgrees, SameTop
<1>2. ASSUME NEW s \in Symbols, Snapshot(s) \/ DeepSnapshot(s) PROVE Verified'
  <2>1. \/ SnapshotOf(s, Best("bids", venue[s]), Best("asks", venue[s]))
        \/ SnapshotOf(s, venue[s].bids, venue[s].asks)
    BY <1>2 DEF Snapshot, DeepSnapshot
  <2> QED BY <2>1, VenueSides, SnapshotVerifies
<1>3. ASSUME NEW s \in Symbols, SoundUpdate(s) PROVE Verified'
  <2> DEFINE bq(new) == Changes("bids", venue[s], new)
             aq(new) == Changes("asks", venue[s], new)
  <2>1. PICK new \in NextBooks(venue[s]) : Update(s, new, bq(new), aq(new))
    BY <1>3 DEF SoundUpdate
  <2>2. new \in Book(Qtys) /\ venue[s] \in Book(Qtys)
    BY ChangesType
  <2>3. ASSUME bq(new) \cup aq(new) = {}, NEW sd \in {"bids", "asks"}
        PROVE  Best(sd, venue[s]) = Best(sd, new)
    <3>1. Changes(sd, venue[s], new) = {}
      BY <2>3
    <3>2. /\ IsSide(new["bids"], BidPrices, Qtys) /\ IsSide(new["asks"], AskPrices, Qtys)
          /\ IsSide(venue[s]["bids"], BidPrices, Qtys) /\ IsSide(venue[s]["asks"], AskPrices, Qtys)
      BY <2>2, VenueType
    <3>3. PICK P \in {BidPrices, AskPrices} :
            IsSide(venue[s][sd], P, Qtys) /\ IsSide(new[sd], P, Qtys)
      BY <3>2
    <3>4. P \in SUBSET Nat /\ IsFiniteSet(P)
      BY PricesAre
    <3> HIDE DEF bq, aq
    <3> QED BY <3>1, <3>3, <3>4, NothingGives
  <2> HIDE DEF bq, aq
  <2> QED BY <2>1, <2>2, <2>3, UpdateVerifies
<1>4. ASSUME NEW s \in Symbols, LossyUpdate(s) PROVE Verified'
  <2> DEFINE bq(new, lost) == Changes("bids", venue[s], new) \ {lost}
             aq(new, lost) == Changes("asks", venue[s], new) \ {lost}
  <2>1. PICK new \in NextBooks(venue[s]) :
          \E lost \in Changes("bids", venue[s], new) \cup Changes("asks", venue[s], new) :
            /\ Changes("bids", venue[s], new) \cup Changes("asks", venue[s], new) # {lost}
            /\ Update(s, new, bq(new, lost), aq(new, lost))
    BY <1>4 DEF LossyUpdate
  <2>2. PICK lost \in Changes("bids", venue[s], new) \cup Changes("asks", venue[s], new) :
          /\ Changes("bids", venue[s], new) \cup Changes("asks", venue[s], new) # {lost}
          /\ Update(s, new, bq(new, lost), aq(new, lost))
    BY <2>1
  <2>3. new \in Book(Qtys)
    BY ChangesType
  <2>4. bq(new, lost) \cup aq(new, lost) # {}
    BY <2>2
  <2> HIDE DEF bq, aq
  <2> QED BY <2>2, <2>3, <2>4, UpdateVerifies
<1>5. CASE UNCHANGED vars
  BY <1>5 DEF Verified, VerifiedTopAgrees, SameTop, vars, history
<1> QED BY <1>1, <1>2, <1>3, <1>4, <1>5 DEF Next, Stopped

\* Of a venue that loses quotes, or sends deeper snapshots than it should, the
\* levels the checksum covers are right until a message is refused
\* (src/sides.cpp:35-50) or a checksum agrees with the wrong levels, whatever the
\* prices, quantities and precisions: nothing that happens without a checksum, a
\* change of precision or of levels not sent, makes them wrong.  The checksum
\* covers no more than is subscribed to (include/sides.hpp:60, README.md:132).
THEOREM VerifiedTopAgreesCorrect ==
  ASSUME CrcDepth <= BookDepth
  PROVE  Spec => []VerifiedTopAgrees
<1>1. Init => Verified
  BY DEF Init, Verified, VerifiedTopAgrees
<1>2. BookInv /\ Verified /\ [Next]_vars => Verified'
  BY VerifiedStep
<1>3. Verified => VerifiedTopAgrees
  BY DEF Verified, VerifiedTopAgrees
<1> QED BY <1>1, <1>2, <1>3, BookInvCorrect, PTL DEF Spec
=============================================================================
