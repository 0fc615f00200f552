---------------------------- MODULE ReplayProofs ----------------------------
(***************************************************************************)
(* Proofs about Replay, for any number of symbols, messages and pairs and  *)
(* any books, depths and precisions: what is queued leads from the         *)
(* recorder's book to the venue's, only a message overtaken by a change of *)
(* precision is refused, and check_book rebuilds the recorder's books from *)
(* the files if no precision changed.                                      *)
(*                                                                         *)
(* The first part is about the side after each number of messages, Course, *)
(* as messages are appended to a sequence and taken off its head.          *)
(***************************************************************************)
EXTENDS Replay, LevelBookProofs

-----------------------------------------------------------------------------
(* The side after each number of messages.                                  *)

\* The value of the recursive function in Course.
IsCourse(f, n, sd, s, side, msgs) ==
  f = [i \in 0 .. n |-> IF i = 0 THEN side ELSE After(sd, s, f[i - 1], msgs[i])]

LEMMA CourseExists ==
  ASSUME NEW sd, NEW s, NEW side, NEW msgs, NEW n \in Nat
  PROVE  \E f : IsCourse(f, n, sd, s, side, msgs)
<1> DEFINE S == {k \in Nat : \E f : IsCourse(f, k, sd, s, side, msgs)}
<1>1. 0 \in S
  <2>1. IsCourse([i \in 0 .. 0 |-> side], 0, sd, s, side, msgs)
    BY DEF IsCourse
  <2> QED BY <2>1
<1>2. ASSUME NEW k \in S PROVE k + 1 \in S
  <2>1. PICK f : IsCourse(f, k, sd, s, side, msgs)
    OBVIOUS
  <2> DEFINE g == [i \in 0 .. k + 1 |-> IF i = k + 1 THEN After(sd, s, f[k], msgs[k + 1])
                                        ELSE f[i]]
  <2>2. \A i \in 0 .. k : f[i] = IF i = 0 THEN side ELSE After(sd, s, f[i - 1], msgs[i])
    BY <2>1 DEF IsCourse
  <2>3. ASSUME NEW i \in 0 .. k + 1
        PROVE  g[i] = IF i = 0 THEN side ELSE After(sd, s, g[i - 1], msgs[i])
    <3>1. k \in Nat
      OBVIOUS
    <3>2. CASE i = k + 1
      BY <3>1, <3>2
    <3>3. CASE i # k + 1
      <4>1. i \in 0 .. k /\ (i # 0 => i - 1 \in 0 .. k)
        BY <3>1, <3>3
      <4>2. g[i] = f[i] /\ (i # 0 => g[i - 1] = f[i - 1])
        BY <3>1, <3>3, <4>1
      <4> QED BY <2>2, <4>1, <4>2
    <3> QED BY <3>2, <3>3
  <2>4. IsCourse(g, k + 1, sd, s, side, msgs)
    <3>1. g = [i \in 0 .. k + 1 |-> g[i]]
      OBVIOUS
    <3> HIDE DEF g
    <3> QED BY <2>3, <3>1 DEF IsCourse
  <2> QED BY <2>4
<1> HIDE DEF S
<1>3. S = Nat
  <2>1. S \subseteq Nat
    BY DEF S
  <2> QED BY <1>1, <1>2, <2>1, Upward
<1> QED BY <1>3 DEF S

\* A course starts at the side and goes on message by message.
LEMMA CourseIs ==
  ASSUME NEW sd, NEW s, NEW side, NEW msgs, Len(msgs) \in Nat
  PROVE  /\ Course(sd, s, side, msgs)[0] = side
         /\ \A i \in 1 .. Len(msgs) :
              Course(sd, s, side, msgs)[i]
                = After(sd, s, Course(sd, s, side, msgs)[i - 1], msgs[i])
<1> DEFINE f == CHOOSE g : IsCourse(g, Len(msgs), sd, s, side, msgs)
<1>1. IsCourse(f, Len(msgs), sd, s, side, msgs)
  BY CourseExists
<1>2. Course(sd, s, side, msgs) = f
  BY DEF Course, IsCourse
<1> HIDE DEF f
<1>3. \A i \in 0 .. Len(msgs) :
        f[i] = IF i = 0 THEN side ELSE After(sd, s, f[i - 1], msgs[i])
  BY <1>1 DEF IsCourse
<1> QED BY <1>2, <1>3

Follows(f, n, sd, s, side, msgs) ==
  f[0] = side /\ \A i \in 1 .. n : f[i] = After(sd, s, f[i - 1], msgs[i])

\* It is the only one that does, as far as the messages are the same.
LEMMA CourseUnique ==
  ASSUME NEW sd, NEW s, NEW side, NEW msgs, Len(msgs) \in Nat, NEW n \in 0 .. Len(msgs),
         NEW f, Follows(f, n, sd, s, side, msgs)
  PROVE  \A i \in 0 .. n : Course(sd, s, side, msgs)[i] = f[i]
<1> DEFINE c == Course(sd, s, side, msgs)
           S == {k \in Nat : k <= n => c[k] = f[k]}
<1>1. c[0] = side /\ \A i \in 1 .. n : c[i] = After(sd, s, c[i - 1], msgs[i])
  BY CourseIs
<1> HIDE DEF c
<1>2. 0 \in S
  BY <1>1 DEF Follows
<1>3. ASSUME NEW k \in S PROVE k + 1 \in S
  <2> SUFFICES ASSUME k + 1 <= n PROVE c[k + 1] = f[k + 1]
    OBVIOUS
  <2>1. c[k] = f[k] /\ k + 1 \in 1 .. n /\ (k + 1) - 1 = k
    OBVIOUS
  <2> QED BY <1>1, <2>1 DEF Follows
<1> HIDE DEF S
<1>4. S = Nat
  <2>1. S \subseteq Nat
    BY DEF S
  <2> QED BY <1>2, <1>3, <2>1, Upward
<1>5. \A i \in 0 .. n : c[i] = f[i]
  BY <1>4 DEF S
<1> QED BY <1>5 DEF c

IsLonger(more, msgs) ==
  /\ Len(msgs) \in Nat /\ Len(more) = Len(msgs) + 1
  /\ \A i \in 1 .. Len(msgs) : more[i] = msgs[i]

\* One more message makes it longer.
LEMMA CourseAppend ==
  ASSUME NEW sd, NEW s, NEW side, NEW msgs, NEW more, IsLonger(more, msgs)
  PROVE  /\ \A i \in 0 .. Len(msgs) :
              Course(sd, s, side, more)[i] = Course(sd, s, side, msgs)[i]
         /\ Course(sd, s, side, more)[Len(more)]
              = After(sd, s, Course(sd, s, side, msgs)[Len(msgs)], more[Len(more)])
<1> DEFINE n == Len(msgs)
           c == Course(sd, s, side, msgs)
           d == Course(sd, s, side, more)
<1>1. n \in Nat /\ Len(more) = n + 1 /\ \A i \in 1 .. n : more[i] = msgs[i]
  BY DEF IsLonger
<1>2. c[0] = side /\ \A i \in 1 .. n : c[i] = After(sd, s, c[i - 1], msgs[i])
  BY CourseIs
<1>3. \A i \in 1 .. n + 1 : d[i] = After(sd, s, d[i - 1], more[i])
  <2>1. Len(more) \in Nat
    BY <1>1
  <2>2. \A i \in 1 .. Len(more) : d[i] = After(sd, s, d[i - 1], more[i])
    BY <2>1, CourseIs
  <2> QED BY <1>1, <2>2
<1>4. \A i \in 0 .. n : d[i] = c[i]
  <2> HIDE DEF c, n
  <2>1. \A i \in 1 .. n : c[i] = After(sd, s, c[i - 1], more[i])
    BY <1>1, <1>2
  <2>2. Len(more) \in Nat /\ n \in 0 .. Len(more) /\ c[0] = side
    BY <1>1, <1>2
  <2>3. Follows(c, n, sd, s, side, more)
    BY <2>1, <2>2 DEF Follows
  <2> QED BY <2>2, <2>3, CourseUnique
<1> HIDE DEF c, d, n
<1>5. d[n + 1] = After(sd, s, d[(n + 1) - 1], more[n + 1]) /\ (n + 1) - 1 = n
  BY <1>1, <1>3
<1>6. d[n + 1] = After(sd, s, c[n], more[n + 1])
  BY <1>1, <1>4, <1>5
<1> QED BY <1>1, <1>4, <1>6 DEF c, d, n

IsRest(rest, msgs) ==
  /\ Len(msgs) \in Nat \ {0} /\ Len(rest) = Len(msgs) - 1
  /\ \A i \in 1 .. Len(rest) : rest[i] = msgs[i + 1]

\* Without its first message it starts one message later.
LEMMA CourseTail ==
  ASSUME NEW sd, NEW s, NEW side, NEW msgs, NEW rest, IsRest(rest, msgs)
  PROVE  \A i \in 0 .. Len(rest) :
           Course(sd, s, After(sd, s, side, msgs[1]), rest)[i] = Course(sd, s, side, msgs)[i + 1]
<1> DEFINE n == Len(rest)
           c == Course(sd, s, side, msgs)
           f == [i \in 0 .. n |-> c[i + 1]]
           first == After(sd, s, side, msgs[1])
<1>1. n \in Nat /\ Len(msgs) = n + 1 /\ \A i \in 1 .. n : rest[i] = msgs[i + 1]
  BY DEF IsRest
<1>2. c[0] = side /\ \A i \in 1 .. n + 1 : c[i] = After(sd, s, c[i - 1], msgs[i])
  <2>1. c[0] = side /\ \A i \in 1 .. Len(msgs) : c[i] = After(sd, s, c[i - 1], msgs[i])
    BY CourseIs
  <2> QED BY <1>1, <2>1
<1> HIDE DEF c, n, first
<1>3. f[0] = first
  <2>1. c[1] = After(sd, s, c[1 - 1], msgs[1]) /\ 1 - 1 = 0
    BY <1>1, <1>2
  <2> QED BY <1>1, <1>2, <2>1 DEF first
<1>4. ASSUME NEW i \in 1 .. n PROVE f[i] = After(sd, s, f[i - 1], rest[i])
  <2>1. i \in 0 .. n /\ i - 1 \in 0 .. n /\ i + 1 \in 1 .. n + 1 /\ (i - 1) + 1 = i
        /\ (i + 1) - 1 = i
    BY <1>1
  <2>2. f[i] = c[i + 1] /\ f[i - 1] = c[i] /\ rest[i] = msgs[i + 1]
    BY <1>1, <2>1
  <2> HIDE DEF f
  <2> QED BY <1>2, <2>1, <2>2
<1>5. \A i \in 0 .. n : f[i] = c[i + 1]
  OBVIOUS
<1> HIDE DEF f
<1>6. \A i \in 0 .. n : Course(sd, s, first, rest)[i] = f[i]
  <2>1. Len(rest) \in Nat /\ n \in 0 .. Len(rest)
    BY <1>1 DEF n
  <2>2. Follows(f, n, sd, s, first, rest)
    BY <1>3, <1>4 DEF Follows
  <2> QED BY <2>1, <2>2, CourseUnique
<1> QED BY <1>5, <1>6 DEF c, n, first

\* Messages of other symbols leave the side alone.
LEMMA CourseIdle ==
  ASSUME NEW sd, NEW s, NEW side, NEW msgs, Len(msgs) \in Nat,
         \A i \in 1 .. Len(msgs) : msgs[i].symbol # s
  PROVE  Course(sd, s, side, msgs)[Len(msgs)] = side
<1> DEFINE n == Len(msgs)
           f == [i \in 0 .. n |-> side]
<1>1. f[0] = side /\ f[n] = side
  OBVIOUS
<1>2. ASSUME NEW i \in 1 .. n PROVE f[i] = After(sd, s, f[i - 1], msgs[i])
  BY DEF After
<1> HIDE DEF f
<1>3. n \in 0 .. n /\ Follows(f, n, sd, s, side, msgs)
  BY <1>1, <1>2 DEF Follows
<1> QED BY <1>1, <1>3, CourseUnique

-----------------------------------------------------------------------------
(* Lists of quotes that a precision expresses.                              *)

FitsQuote(q, prec) ==
  /\ q = [price |-> q.price, qty |-> q.qty] /\ q.price \in Nat /\ q.qty \in Nat
  /\ q.price % Unit(prec.price) = 0 /\ q.qty % Unit(prec.qty) = 0

FitsList(quotes, prec) ==
  IsSeq(quotes) /\ \A i \in 1 .. Len(quotes) : FitsQuote(quotes[i], prec)

LEMMA PrecisionIs ==
  ASSUME NEW prec \in Precisions
  PROVE  prec.price \in 0 .. Scale /\ prec.qty \in 0 .. Scale
BY LevelBookAssumption

\* The row of such a list has the numbers of the message.
LEMMA PrintedIs ==
  ASSUME NEW prec \in Precisions, NEW quotes, FitsList(quotes, prec)
  PROVE  Printed(quotes, prec) = quotes
<1>1. DOMAIN quotes = 1 .. Len(quotes) /\ quotes = [i \in 1 .. Len(quotes) |-> quotes[i]]
  BY SeqIs DEF FitsList, IsSeq
<1>2. ASSUME NEW i \in 1 .. Len(quotes)
      PROVE  [price |-> Cut(quotes[i].price, prec.price), qty |-> Cut(quotes[i].qty, prec.qty)]
               = quotes[i]
  <2>1. FitsQuote(quotes[i], prec)
    BY DEF FitsList
  <2> DEFINE q == quotes[i]
  <2>2. q.price \in Nat /\ q.qty \in Nat
        /\ q.price % Unit(prec.price) = 0 /\ q.qty % Unit(prec.qty) = 0
        /\ q = [price |-> q.price, qty |-> q.qty]
    BY <2>1 DEF FitsQuote
  <2> HIDE DEF q
  <2>3. Cut(q.price, prec.price) = q.price /\ Cut(q.qty, prec.qty) = q.qty
    BY <2>2, CutIs, PrecisionIs
  <2>4. [price |-> Cut(q.price, prec.price), qty |-> Cut(q.qty, prec.qty)] = q
    BY <2>2, <2>3
  <2> QED BY <2>4 DEF q
<1> QED BY <1>1, <1>2 DEF Printed

\* The list the venue makes of a set of quotes.
LEMMA ListOf ==
  ASSUME NEW S, IsFiniteSet(S), NEW prec, \A q \in S : FitsQuote(q, prec)
  PROVE  SetToSeq(S) \in SetToSeqs(S) /\ FitsList(SetToSeq(S), prec)
<1> DEFINE n == Cardinality(S)
           l == SetToSeq(S)
<1>1. n \in Nat
  BY FS_CardinalityType
<1>2. \E f \in [1 .. n -> S] : IsInjective(f)
  <2>1. PICK k \in Nat : ExistsBijection(1 .. k, S)
    BY FS_NatBijection
  <2>2. k = n
    BY <2>1, FS_CountingElements
  <2> QED BY <2>1, <2>2 DEF ExistsBijection, Bijection, Injection
<1>3. l \in [1 .. n -> S] /\ IsInjective(l)
  BY <1>2 DEF SetToSeq
<1> HIDE DEF l
<1>4. l \in SetToSeqs(S)
  BY <1>3 DEF SetToSeqs, IsInjective
<1> HIDE DEF n
<1>5. Len(l) = n /\ IsSeq(l)
  BY <1>1, <1>3 DEF IsSeq
<1>6. FitsList(l, prec)
  BY <1>3, <1>5 DEF FitsList
<1> QED BY <1>4, <1>6 DEF l

\* The quotes of a book a precision expresses, and of a change between two.
LEMMA QuotesFit ==
  ASSUME NEW sd \in {"bids", "asks"}, NEW P \in SUBSET Nat, IsFiniteSet(P),
         NEW Q \in SUBSET Nat, NEW book, IsSide(book[sd], P, Q),
         NEW prec, Expressible(book, prec)
  PROVE  /\ IsFiniteSet(DOMAIN Best(sd, book))
         /\ Best(sd, book) = [p \in DOMAIN Best(sd, book) |-> Best(sd, book)[p]]
         /\ IsFiniteSet(Quotes(Best(sd, book)))
         /\ \A q \in Quotes(Best(sd, book)) : FitsQuote(q, prec)
<1> DEFINE top == Best(sd, book)
<1>1. /\ IsSide(top, P, Q) /\ IsFiniteSet(DOMAIN top) /\ DOMAIN top \subseteq DOMAIN book[sd]
      /\ \A p \in DOMAIN top : top[p] = book[sd][p]
  BY BestType DEF Best
<1> HIDE DEF top
<1>2. top = [p \in DOMAIN top |-> top[p]]
  BY <1>1 DEF IsSide
<1>3. IsFiniteSet(Quotes(top))
  BY <1>1, SideQuotesFinite DEF Quotes
<1>4. ASSUME NEW p \in DOMAIN top
      PROVE  FitsQuote([price |-> p, qty |-> top[p]], prec)
  <2>1. p \in Nat /\ top[p] \in Nat
    BY <1>1 DEF IsSide
  <2>2. p % Unit(prec.price) = 0 /\ top[p] % Unit(prec.qty) = 0
    BY <1>1 DEF Expressible
  <2> QED BY <2>1, <2>2 DEF FitsQuote
<1>5. \A q \in Quotes(top) : FitsQuote(q, prec)
  BY <1>4 DEF Quotes
<1> QED BY <1>1, <1>2, <1>3, <1>5 DEF top

LEMMA ChangesFit ==
  ASSUME NEW sd \in {"bids", "asks"}, NEW P \in SUBSET Nat, IsFiniteSet(P),
         NEW Q \in SUBSET Nat, NEW old, IsSide(old[sd], P, Q), NEW new, IsSide(new[sd], P, Q),
         NEW prec \in Precisions, Expressible(old, prec), Expressible(new, prec)
  PROVE  /\ IsFiniteSet(Changes(sd, old, new))
         /\ \A q \in Changes(sd, old, new) : FitsQuote(q, prec)
<1>1. /\ IsFiniteSet(Changes(sd, old, new))
      /\ \A q \in Changes(sd, old, new) :
           q.price \in P /\ q.qty \in Q \cup {0} /\ IsChange(sd, old, new, q)
  BY ChangesAre
<1>2. DOMAIN Best(sd, old) \subseteq DOMAIN old[sd] /\ DOMAIN Best(sd, new) \subseteq DOMAIN new[sd]
  BY BestType DEF Best
<1>3. 0 % Unit(prec.qty) = 0
  BY CutIs, PrecisionIs
<1>4. ASSUME NEW q \in Changes(sd, old, new) PROVE FitsQuote(q, prec)
  <2>1. q.price \in Nat /\ q.qty \in Nat
    <3>1. q.price \in P /\ q.qty \in Q \cup {0}
      BY <1>1
    <3>2. \A x \in P : x \in Nat
      OBVIOUS
    <3>3. \A x \in Q \cup {0} : x \in Nat
      OBVIOUS
    <3> QED BY <3>1, <3>2, <3>3, Zenon
  <2>2. CASE q.price \in DOMAIN Best(sd, old) /\ q = [price |-> q.price, qty |-> 0]
    <3>1. q.price % Unit(prec.price) = 0
      BY <1>2, <2>2 DEF Expressible
    <3>2. q.qty = 0 /\ q = [price |-> q.price, qty |-> q.qty]
      BY <2>2
    <3> QED BY <1>3, <2>1, <3>1, <3>2 DEF FitsQuote
  <2>3. CASE q.price \in DOMAIN Best(sd, new)
             /\ q = [price |-> q.price, qty |-> new[sd][q.price]]
    <3>1. q.price % Unit(prec.price) = 0 /\ new[sd][q.price] % Unit(prec.qty) = 0
      BY <1>2, <2>3 DEF Expressible
    <3>2. q.qty = new[sd][q.price] /\ q = [price |-> q.price, qty |-> q.qty]
      BY <2>3
    <3> QED BY <2>1, <3>1, <3>2 DEF FitsQuote
  <2> QED BY <1>1, <2>2, <2>3 DEF IsChange
<1> QED BY <1>1, <1>4

-----------------------------------------------------------------------------
(* Books, the recorder's and check_book's.                                  *)

Formed(books) ==
  /\ books = [s \in DOMAIN books |-> books[s]]
  /\ \A s \in DOMAIN books :
       books[s] = [bids |-> books[s].bids, asks |-> books[s].asks, prec |-> books[s].prec]

\* `after` is `books` with this precision for one of them.
Learns(after, books, s, prec) ==
  \/ /\ s \notin DOMAIN books
     /\ after = With(books, s, [bids |-> EmptySide, asks |-> EmptySide, prec |-> prec])
  \/ /\ s \in DOMAIN books /\ books[s].prec # prec
     /\ after = [books EXCEPT ![s].prec = prec]
  \/ s \in DOMAIN books /\ books[s].prec = prec /\ after = books

\* level_book.accept of a pair: a new book is empty, one that is there keeps its
\* levels, and either has the precision of the pair.
LEMMA PairGives ==
  ASSUME NEW books, Formed(books), NEW s, NEW prec, NEW after, Learns(after, books, s, prec)
  PROVE  /\ Formed(after) /\ DOMAIN after = DOMAIN books \cup {s} /\ after[s].prec = prec
         /\ s \notin DOMAIN books => after[s].bids = EmptySide /\ after[s].asks = EmptySide
         /\ \A x \in DOMAIN books : /\ after[x].bids = books[x].bids
                                    /\ after[x].asks = books[x].asks
                                    /\ x # s => after[x].prec = books[x].prec
<1>1. CASE s \notin DOMAIN books
  <2> DEFINE new == [bids |-> EmptySide, asks |-> EmptySide, prec |-> prec]
  <2>1. after = [x \in DOMAIN books \cup {s} |-> IF x = s THEN new ELSE books[x]]
    BY <1>1 DEF With, Learns
  <2>2. /\ new.bids = EmptySide /\ new.asks = EmptySide /\ new.prec = prec
        /\ new = [bids |-> new.bids, asks |-> new.asks, prec |-> new.prec]
    OBVIOUS
  <2> HIDE DEF new
  <2>3. /\ DOMAIN after = DOMAIN books \cup {s} /\ after = [x \in DOMAIN after |-> after[x]]
        /\ after[s] = new /\ \A x \in DOMAIN books : after[x] = books[x]
    BY <1>1, <2>1
  <2> QED BY <1>1, <2>2, <2>3 DEF Formed
<1>2. CASE s \in DOMAIN books /\ books[s].prec # prec
  <2> DEFINE new == [bids |-> books[s].bids, asks |-> books[s].asks, prec |-> prec]
  <2>1. books[s] = [bids |-> books[s].bids, asks |-> books[s].asks, prec |-> books[s].prec]
    BY <1>2 DEF Formed
  <2>2. [books[s] EXCEPT !.prec = prec] = new
    BY <2>1
  <2>3. /\ new.bids = books[s].bids /\ new.asks = books[s].asks /\ new.prec = prec
        /\ new = [bids |-> new.bids, asks |-> new.asks, prec |-> new.prec]
    OBVIOUS
  <2> HIDE DEF new
  <2>4. after = [x \in DOMAIN books |-> IF x = s THEN new ELSE books[x]]
    BY <1>2, <2>2 DEF Formed, Learns
  <2>5. /\ DOMAIN after = DOMAIN books /\ after = [x \in DOMAIN after |-> after[x]]
        /\ after[s] = new /\ \A x \in DOMAIN books : x # s => after[x] = books[x]
    BY <1>2, <2>4
  <2> QED BY <1>2, <2>3, <2>5 DEF Formed
<1>3. CASE s \in DOMAIN books /\ books[s].prec = prec
  <2>1. after = books
    BY <1>3 DEF Learns
  <2> QED BY <1>3, <2>1
<1> QED BY <1>1, <1>2, <1>3

\* `after` is `books` with these sides for one of them.
Replaces(after, books, s, b, k) ==
  /\ DOMAIN after = DOMAIN books /\ after = [x \in DOMAIN after |-> after[x]]
  /\ after[s] = [books[s] EXCEPT !.bids = b, !.asks = k]
  /\ \A x \in DOMAIN books : x # s => after[x] = books[x]

\* level_book.accept of a book message: the sides of one book are replaced.
LEMMA BookGives ==
  ASSUME NEW books, Formed(books), NEW s \in DOMAIN books, NEW b, NEW k,
         NEW after, Replaces(after, books, s, b, k)
  PROVE  /\ Formed(after) /\ DOMAIN after = DOMAIN books
         /\ after[s].bids = b /\ after[s].asks = k /\ after[s].prec = books[s].prec
         /\ \A x \in DOMAIN books : x # s => after[x] = books[x]
<1> DEFINE new == [books[s] EXCEPT !.bids = b, !.asks = k]
<1>1. new = [bids |-> b, asks |-> k, prec |-> books[s].prec]
  <2>1. books[s] = [bids |-> books[s].bids, asks |-> books[s].asks, prec |-> books[s].prec]
    BY DEF Formed
  <2>2. [books[s] EXCEPT !.bids = b] = [bids |-> b, asks |-> books[s].asks, prec |-> books[s].prec]
    BY <2>1
  <2>3. new = [[books[s] EXCEPT !.bids = b] EXCEPT !.asks = k]
    OBVIOUS
  <2> HIDE DEF new
  <2> QED BY <2>2, <2>3
<1>4. /\ DOMAIN after = DOMAIN books /\ after = [x \in DOMAIN after |-> after[x]]
      /\ after[s] = new /\ \A x \in DOMAIN books : x # s => after[x] = books[x]
  BY DEF Replaces
<1> HIDE DEF new
<1>5. /\ new.bids = b /\ new.asks = k /\ new.prec = books[s].prec
      /\ new = [bids |-> new.bids, asks |-> new.asks, prec |-> new.prec]
  BY <1>1
<1> QED BY <1>4, <1>5 DEF Formed

\* What check_book computes is what the recorder computes.
LEMMA ToolSame ==
  /\ \A b, k, prec : Tool!Crc32(b, k, prec) = Crc32(b, k, prec)
  /\ \A sd, side, quotes : Tool!ApplyUpdate(sd, side, quotes) = ApplyUpdate(sd, side, quotes)
  /\ \A quotes : Tool!FromSnapshot(quotes) = FromSnapshot(quotes)
<1>1. ASSUME NEW b, NEW k, NEW prec PROVE Tool!Crc32(b, k, prec) = Crc32(b, k, prec)
  BY Zenon DEF Tool!Crc32, Crc32, Tool!SideStream, SideStream, Tool!Top, Top, Tool!Better, Better,
               Tool!Shown, Shown, Tool!Digits, Digits, Tool!Unit, Unit, Tool!Powers, Powers,
               Tool!FlattenSeq, FlattenSeq,
               Tool!Restrict, Restrict, Tool!Cardinality, Cardinality
<1>2. ASSUME NEW sd, NEW side, NEW quotes
      PROVE  Tool!ApplyUpdate(sd, side, quotes) = ApplyUpdate(sd, side, quotes)
  BY Zenon DEF Tool!ApplyUpdate, ApplyUpdate, Tool!Applied, Applied,
               Tool!ApplyQuote, ApplyQuote, Tool!With, With, Tool!Top, Top, Tool!Better, Better,
               Tool!Restrict, Restrict, Tool!Cardinality, Cardinality
<1>3. ASSUME NEW quotes PROVE Tool!FromSnapshot(quotes) = FromSnapshot(quotes)
  BY Zenon DEF Tool!FromSnapshot, FromSnapshot, Tool!AddQuote, AddQuote, Tool!With, With,
               Tool!EmptySide, EmptySide
<1> QED BY <1>1, <1>2, <1>3

\* level_book.accept of a message of the queue, or of a row of the file.
LEMMA RecorderAccepts ==
  ASSUME Formed(sides), NEW msg, msg.symbol \in DOMAIN sides,
         AcceptBook(msg.symbol, IF msg.type = "snapshot" THEN AcceptSnapshot(msg.symbol, msg)
                                ELSE AcceptUpdate(msg.symbol, msg), msg.crc)
  PROVE  /\ Formed(sides)' /\ DOMAIN sides' = DOMAIN sides
         /\ \A x \in DOMAIN sides : sides'[x].prec = sides[x].prec
         /\ \A x \in DOMAIN sides, sd \in {"bids", "asks"} :
              sides'[x][sd] = After(sd, x, sides[x][sd], msg)
         /\ thrown' <=> Crc32(sides'[msg.symbol].bids, sides'[msg.symbol].asks,
                              sides[msg.symbol].prec) # msg.crc
<1> DEFINE s == msg.symbol
           b == After("bids", s, sides[s].bids, msg)
           k == After("asks", s, sides[s].asks, msg)
           new == [sides[s] EXCEPT !.bids = b, !.asks = k]
<1>1. (IF msg.type = "snapshot" THEN AcceptSnapshot(s, msg) ELSE AcceptUpdate(s, msg)) = new
  <2>1. msg["bids"] = msg.bids /\ msg["asks"] = msg.asks
    OBVIOUS
  <2> QED BY <2>1 DEF After, AcceptSnapshot, AcceptUpdate
<1>2. Verify(s, new, msg.crc)
  BY <1>1, Zenon DEF AcceptBook
<1> HIDE DEF b, k
<1>3. sides' = [sides EXCEPT ![s] = [sides[s] EXCEPT !.bids = b, !.asks = k]]
  BY <1>2 DEF Verify
<1>4. thrown' = (Crc32(new.bids, new.asks, new.prec) # msg.crc)
  BY <1>2 DEF Verify
<1>5. /\ Formed(sides)' /\ DOMAIN sides' = DOMAIN sides
      /\ sides'[s].bids = b /\ sides'[s].asks = k /\ sides'[s].prec = sides[s].prec
      /\ \A x \in DOMAIN sides : x # s => sides'[x] = sides[x]
  <2> HIDE DEF s
  <2> DEFINE after == sides'
  <2>1. s \in DOMAIN sides /\ Replaces(after, sides, s, b, k)
    <3>1. s \in DOMAIN sides
      BY DEF s
    <3> QED BY <1>3, <3>1 DEF Formed, Replaces
  <2> HIDE DEF after
  <2>2. /\ Formed(after) /\ DOMAIN after = DOMAIN sides
        /\ after[s].bids = b /\ after[s].asks = k /\ after[s].prec = sides[s].prec
        /\ \A x \in DOMAIN sides : x # s => after[x] = sides[x]
    BY <2>1, BookGives
  <2>3. Formed(sides)'
    BY <2>2 DEF Formed, after
  <2> QED BY <2>2, <2>3 DEF after
<1>6. sides'[s] = new
  BY <1>3, <1>5 DEF Formed
<1> QED
  <2>1. thrown' <=> Crc32(sides'[s].bids, sides'[s].asks, sides[s].prec) # msg.crc
    BY <1>4, <1>5, <1>6
  <2>2. ASSUME NEW x \in DOMAIN sides, NEW sd \in {"bids", "asks"}
        PROVE  sides'[x][sd] = After(sd, x, sides[x][sd], msg)
    <3>1. CASE x # s
      BY <1>5, <3>1 DEF After
    <3>2. CASE x = s
      <4>1. sides'[s]["bids"] = b /\ sides'[s]["asks"] = k
        BY <1>5
      <4>2. /\ b = After("bids", s, sides[s]["bids"], msg)
            /\ k = After("asks", s, sides[s]["asks"], msg)
        BY DEF b, k
      <4> QED BY <3>2, <4>1, <4>2
    <3> QED BY <3>1, <3>2
  <2> QED BY <1>5, <2>1, <2>2

LEMMA ToolAccepts ==
  ASSUME Formed(toolSides), NEW msg, msg.symbol \in DOMAIN toolSides,
         Tool!AcceptBook(msg.symbol,
                         IF msg.type = "snapshot" THEN Tool!AcceptSnapshot(msg.symbol, msg)
                         ELSE Tool!AcceptUpdate(msg.symbol, msg), msg.crc)
  PROVE  /\ Formed(toolSides)' /\ DOMAIN toolSides' = DOMAIN toolSides
         /\ \A x \in DOMAIN toolSides : toolSides'[x].prec = toolSides[x].prec
         /\ \A x \in DOMAIN toolSides, sd \in {"bids", "asks"} :
              toolSides'[x][sd] = After(sd, x, toolSides[x][sd], msg)
         /\ toolThrown' <=> Crc32(toolSides'[msg.symbol].bids, toolSides'[msg.symbol].asks,
                                  toolSides[msg.symbol].prec) # msg.crc
<1> DEFINE s == msg.symbol
           b == After("bids", s, toolSides[s].bids, msg)
           k == After("asks", s, toolSides[s].asks, msg)
           new == [toolSides[s] EXCEPT !.bids = b, !.asks = k]
<1>1. (IF msg.type = "snapshot" THEN Tool!AcceptSnapshot(s, msg)
       ELSE Tool!AcceptUpdate(s, msg)) = new
  <2>1. msg["bids"] = msg.bids /\ msg["asks"] = msg.asks
    OBVIOUS
  <2>2. Tool!AcceptSnapshot(s, msg)
          = [toolSides[s] EXCEPT !.bids = FromSnapshot(msg.bids), !.asks = FromSnapshot(msg.asks)]
    BY ToolSame DEF Tool!AcceptSnapshot
  <2>3. Tool!AcceptUpdate(s, msg)
          = [toolSides[s] EXCEPT !.bids = ApplyUpdate("bids", toolSides[s].bids, msg.bids),
                                 !.asks = ApplyUpdate("asks", toolSides[s].asks, msg.asks)]
    BY ToolSame DEF Tool!AcceptUpdate
  <2> QED BY <2>1, <2>2, <2>3 DEF After
<1>2. Tool!Verify(s, new, msg.crc)
  BY <1>1, Zenon DEF Tool!AcceptBook
<1> HIDE DEF b, k
<1>3. toolSides' = [toolSides EXCEPT ![s] = [toolSides[s] EXCEPT !.bids = b, !.asks = k]]
  BY <1>2 DEF Tool!Verify
<1>4. toolThrown' = (Crc32(new.bids, new.asks, new.prec) # msg.crc)
  BY <1>2, ToolSame DEF Tool!Verify
<1>5. /\ Formed(toolSides)' /\ DOMAIN toolSides' = DOMAIN toolSides
      /\ toolSides'[s].bids = b /\ toolSides'[s].asks = k /\ toolSides'[s].prec = toolSides[s].prec
      /\ \A x \in DOMAIN toolSides : x # s => toolSides'[x] = toolSides[x]
  <2> HIDE DEF s
  <2> DEFINE after == toolSides'
  <2>1. s \in DOMAIN toolSides /\ Replaces(after, toolSides, s, b, k)
    <3>1. s \in DOMAIN toolSides
      BY DEF s
    <3> QED BY <1>3, <3>1 DEF Formed, Replaces
  <2> HIDE DEF after
  <2>2. /\ Formed(after) /\ DOMAIN after = DOMAIN toolSides
        /\ after[s].bids = b /\ after[s].asks = k /\ after[s].prec = toolSides[s].prec
        /\ \A x \in DOMAIN toolSides : x # s => after[x] = toolSides[x]
    BY <2>1, BookGives
  <2>3. Formed(toolSides)'
    BY <2>2 DEF Formed, after
  <2> QED BY <2>2, <2>3 DEF after
<1>6. toolSides'[s] = new
  BY <1>3, <1>5 DEF Formed
<1> QED
  <2>1. toolThrown' <=> Crc32(toolSides'[s].bids, toolSides'[s].asks, toolSides[s].prec) # msg.crc
    BY <1>4, <1>5, <1>6
  <2>2. ASSUME NEW x \in DOMAIN toolSides, NEW sd \in {"bids", "asks"}
        PROVE  toolSides'[x][sd] = After(sd, x, toolSides[x][sd], msg)
    <3>1. CASE x # s
      BY <1>5, <3>1 DEF After
    <3>2. CASE x = s
      <4>1. toolSides'[s]["bids"] = b /\ toolSides'[s]["asks"] = k
        BY <1>5
      <4>2. /\ b = After("bids", s, toolSides[s]["bids"], msg)
            /\ k = After("asks", s, toolSides[s]["asks"], msg)
        BY DEF b, k
      <4> QED BY <3>2, <4>1, <4>2
    <3> QED BY <3>1, <3>2
  <2> QED BY <1>5, <2>1, <2>2

\* level_book.accept of a pair.
LEMMA RecorderLearns ==
  ASSUME Formed(sides), NEW s, NEW prec, sides' = AcceptPair(s, prec)
  PROVE  /\ Formed(sides)' /\ DOMAIN sides' = DOMAIN sides \cup {s} /\ sides'[s].prec = prec
         /\ \A sd \in {"bids", "asks"} :
              /\ s \notin DOMAIN sides => sides'[s][sd] = EmptySide
              /\ \A x \in DOMAIN sides : sides'[x][sd] = sides[x][sd]
         /\ \A x \in DOMAIN sides : x # s => sides'[x].prec = sides[x].prec
<1> DEFINE after == sides'
<1>1. Learns(after, sides, s, prec)
  BY DEF AcceptPair, Learns
<1> HIDE DEF after
<1>2. /\ Formed(after) /\ DOMAIN after = DOMAIN sides \cup {s} /\ after[s].prec = prec
      /\ s \notin DOMAIN sides => after[s].bids = EmptySide /\ after[s].asks = EmptySide
      /\ \A x \in DOMAIN sides : /\ after[x].bids = sides[x].bids
                                 /\ after[x].asks = sides[x].asks
                                 /\ x # s => after[x].prec = sides[x].prec
  BY <1>1, PairGives
<1>3. Formed(sides)'
  BY <1>2 DEF Formed, after
<1> QED BY <1>2, <1>3 DEF after

LEMMA ToolLearns ==
  ASSUME Formed(toolSides), NEW s, NEW prec, toolSides' = Tool!AcceptPair(s, prec)
  PROVE  /\ Formed(toolSides)' /\ DOMAIN toolSides' = DOMAIN toolSides \cup {s}
         /\ toolSides'[s].prec = prec
         /\ \A sd \in {"bids", "asks"} :
              /\ s \notin DOMAIN toolSides => toolSides'[s][sd] = EmptySide
              /\ \A x \in DOMAIN toolSides : toolSides'[x][sd] = toolSides[x][sd]
         /\ \A x \in DOMAIN toolSides : x # s => toolSides'[x].prec = toolSides[x].prec
<1> DEFINE after == toolSides'
<1>1. Learns(after, toolSides, s, prec)
  BY DEF Learns, Tool!AcceptPair, Tool!With, With, Tool!EmptySide, EmptySide
<1> HIDE DEF after
<1>2. /\ Formed(after) /\ DOMAIN after = DOMAIN toolSides \cup {s} /\ after[s].prec = prec
      /\ s \notin DOMAIN toolSides => after[s].bids = EmptySide /\ after[s].asks = EmptySide
      /\ \A x \in DOMAIN toolSides : /\ after[x].bids = toolSides[x].bids
                                     /\ after[x].asks = toolSides[x].asks
                                     /\ x # s => after[x].prec = toolSides[x].prec
  BY <1>1, PairGives
<1>3. Formed(toolSides)'
  BY <1>2 DEF Formed, after
<1> QED BY <1>2, <1>3 DEF after

-----------------------------------------------------------------------------
(* The inductive invariant.                                                 *)

Announced(told, s, prec) ==
  \E i \in 1 .. Len(told) : told[i].symbol = s /\ told[i].prec = prec

\* The venue and the recorder: a book is formatted and verified with the
\* precision the venue announced last, which expresses the venue's book.
Base ==
  /\ Formed(sides) /\ DOMAIN sides \subseteq Symbols /\ synced \subseteq DOMAIN sides
  /\ venue \in [Symbols -> Book(Qtys)] /\ listed \in [Symbols -> Precisions]
  /\ Current /\ PrecisionsAgree
  /\ \A s \in Symbols : Expressible(venue[s], listed[s])
  /\ IsSeq(queue) /\ IsSeq(rows) /\ IsSeq(pairs)

\* A queued message has the numbers and the precision of when it was sent, ...
QueueKnown ==
  \A k \in 1 .. Len(queue) :
    /\ queue[k].symbol \in synced /\ queue[k].prec \in Precisions
    /\ FitsList(queue[k].bids, queue[k].prec) /\ FitsList(queue[k].asks, queue[k].prec)
    /\ Announced(pairs, queue[k].symbol, queue[k].prec)

\* ... and the checksum of the book it leads to.
QueueChecked ==
  ~thrown => \A k \in 1 .. Len(queue) :
    queue[k].crc = Crc32(Course("bids", queue[k].symbol, sides[queue[k].symbol].bids, queue)[k],
                         Course("asks", queue[k].symbol, sides[queue[k].symbol].asks, queue)[k],
                         queue[k].prec)

\* Each pair has a row with its precision.
PairsKnown ==
  /\ \A s \in DOMAIN sides : Announced(pairs, s, sides[s].prec)
  /\ \A i \in 1 .. Len(pairs) : pairs[i].symbol \in DOMAIN sides

RowsKnown == \A k \in 1 .. Len(rows) : rows[k].symbol \in DOMAIN sides

\* The rows lead to the recorder's books, if no precision changed, ...
RowsLead ==
  PrecisionsKept => \A s \in DOMAIN sides, sd \in {"bids", "asks"} :
    Course(sd, s, EmptySide, rows)[Len(rows)] = sides[s][sd]

\* ... and have the checksums of the books on the way there.
RowsChecked ==
  PrecisionsKept /\ ~thrown => \A k \in 1 .. Len(rows) :
    rows[k].crc = Crc32(Course("bids", rows[k].symbol, EmptySide, rows)[k],
                        Course("asks", rows[k].symbol, EmptySide, rows)[k],
                        sides[rows[k].symbol].prec)

\* check_book has the books of the pairs it has read ...
ToolPairs ==
  phase = "pairs" =>
    /\ ~toolThrown /\ read \in 0 .. Len(pairs) /\ Formed(toolSides)
    /\ DOMAIN toolSides = {pairs[i].symbol : i \in 1 .. read}
    /\ \A s \in DOMAIN toolSides :
         /\ Announced(pairs, s, toolSides[s].prec)
         /\ \A sd \in {"bids", "asks"} : toolSides[s][sd] = EmptySide

\* ... and then the sides the rows lead to.
ToolRows ==
  phase = "book" /\ PrecisionsKept =>
    /\ ~toolThrown /\ read \in 0 .. Len(rows) /\ Formed(toolSides)
    /\ DOMAIN toolSides = DOMAIN sides
    /\ \A s \in DOMAIN sides :
         /\ toolSides[s].prec = sides[s].prec
         /\ \A sd \in {"bids", "asks"} :
              toolSides[s][sd] = Course(sd, s, EmptySide, rows)[read]

Idle ==
  /\ phase \in {"recording", "pairs", "book"}
  /\ phase = "recording" => read = 0 /\ ~toolThrown /\ toolSides = [s \in {} |-> 0]
  /\ phase # "recording" => ~thrown

QueueInv == Base /\ QueueKnown /\ PairsKnown /\ QueueChecked
            /\ QueueCatchesUp /\ RefusesOnlyOvertaken

FilesInv == RowsKnown /\ RowsLead /\ RowsChecked
ToolInv == Idle /\ ToolPairs /\ ToolRows

ReplayInv == QueueInv /\ FilesInv /\ ToolInv

-----------------------------------------------------------------------------
(* What the pairs file says.                                                *)

\* If no precision changed, what was ever announced is what is in force.
LEMMA KeptIs ==
  ASSUME Base, PairsKnown, PrecisionsKept, NEW s \in DOMAIN sides, NEW prec,
         Announced(pairs, s, prec)
  PROVE  prec = sides[s].prec
<1>1. DOMAIN pairs = 1 .. Len(pairs)
  BY SeqIs DEF Base
<1>2. PICK i \in 1 .. Len(pairs) : pairs[i].symbol = s /\ pairs[i].prec = prec
  BY DEF Announced
<1>3. PICK j \in 1 .. Len(pairs) : pairs[j].symbol = s /\ pairs[j].prec = sides[s].prec
  BY DEF PairsKnown, Announced
<1> QED BY <1>1, <1>2, <1>3 DEF PrecisionsKept

\* A row more in the pairs file takes nothing back.
LEMMA PairsGrow ==
  ASSUME IsSeq(pairs), NEW m, pairs' = Append(pairs, m)
  PROVE  /\ IsSeq(pairs)' /\ Len(pairs') = Len(pairs) + 1 /\ Len(pairs) \in Nat
         /\ \A s, p : Announced(pairs, s, p) => Announced(pairs', s, p)
         /\ Announced(pairs', m.symbol, m.prec)
         /\ \A i \in 1 .. Len(pairs') :
              pairs'[i] # m => i \in 1 .. Len(pairs) /\ pairs'[i] = pairs[i]
         /\ PrecisionsKept' => PrecisionsKept
<1> DEFINE t == pairs'
<1>1. t = Append(pairs, m)
  OBVIOUS
<1> HIDE DEF t
<1>2. /\ IsSeq(t) /\ Len(t) = Len(pairs) + 1 /\ t[Len(pairs) + 1] = m
      /\ \A i \in 1 .. Len(pairs) : t[i] = pairs[i]
  BY <1>1, AppendIs
<1>3. DOMAIN t = 1 .. Len(t) /\ DOMAIN pairs = 1 .. Len(pairs) /\ Len(pairs) \in Nat
  BY <1>2, SeqIs DEF IsSeq
<1>4. \A i \in 1 .. Len(pairs) : i \in 1 .. Len(t)
  BY <1>2, <1>3
<1>5. Len(t) \in 1 .. Len(t)
  BY <1>2, <1>3
<1>6. \A i \in 1 .. Len(t) : t[i] # m => i \in 1 .. Len(pairs) /\ t[i] = pairs[i]
  BY <1>2, <1>3
<1>7. IsSeq(pairs)'
  BY <1>2 DEF IsSeq, t
<1>8. \A s, p : Announced(pairs, s, p) => Announced(pairs', s, p)
  BY <1>2, <1>4 DEF Announced, t
<1>9. Announced(pairs', m.symbol, m.prec)
  BY <1>2, <1>5 DEF Announced, t
<1>10. PrecisionsKept' => PrecisionsKept
  BY <1>2, <1>3, <1>4 DEF PrecisionsKept, t
<1> QED BY <1>2, <1>3, <1>6, <1>7, <1>8, <1>9, <1>10 DEF t

\* Where the books and the pairs file stay, so does what they say.
LEMMA PairsStay ==
  ASSUME PairsKnown, DOMAIN sides' = DOMAIN sides, UNCHANGED pairs,
         \A s \in DOMAIN sides : sides'[s].prec = sides[s].prec
  PROVE  PairsKnown' /\ (PrecisionsKept' <=> PrecisionsKept)
         /\ \A s, p : Announced(pairs, s, p) <=> Announced(pairs', s, p)
BY DEF PairsKnown, PrecisionsKept, Announced

-----------------------------------------------------------------------------
(* Instrument messages.                                                     *)

LEMMA InstrumentMeans ==
  ASSUME Base, NEW s \in Symbols, AcceptInstrument(s)
  PROVE  \E prec \in Precisions :
    /\ phase = "recording" /\ ~thrown
    /\ UNCHANGED <<venue, synced, thrown, sound, queue, rows, toolVars>>
    /\ listed' = [listed EXCEPT ![s] = prec] /\ refdata' = With(refdata, s, prec)
    /\ Expressible(venue[s], prec)
    /\ pairs' = Append(pairs, [symbol |-> s, prec |-> prec])
    /\ Formed(sides)' /\ DOMAIN sides' = DOMAIN sides \cup {s} /\ sides'[s].prec = prec
    /\ \A sd \in {"bids", "asks"} :
         /\ s \notin DOMAIN sides => sides'[s][sd] = EmptySide
         /\ \A x \in DOMAIN sides : sides'[x][sd] = sides[x][sd]
    /\ \A x \in DOMAIN sides : x # s => sides'[x].prec = sides[x].prec
<1>1. PICK prec \in Precisions : /\ listed' = [listed EXCEPT ![s] = prec]
                                 /\ refdata' = With(refdata, s, prec)
                                 /\ sides' = AcceptPair(s, prec)
  BY DEF AcceptInstrument, Instrument
<1>2. /\ phase = "recording" /\ ~thrown
      /\ UNCHANGED <<venue, synced, thrown, sound, queue, rows, toolVars>>
      /\ Expressible(venue[s], listed'[s])
      /\ pairs' = Append(pairs, [symbol |-> s, prec |-> listed'[s]])
  BY DEF AcceptInstrument, Instrument, Recording, history
<1>3. listed'[s] = prec
  BY <1>1 DEF Base
<1>4. /\ Formed(sides)' /\ DOMAIN sides' = DOMAIN sides \cup {s} /\ sides'[s].prec = prec
      /\ \A sd \in {"bids", "asks"} :
           /\ s \notin DOMAIN sides => sides'[s][sd] = EmptySide
           /\ \A x \in DOMAIN sides : sides'[x][sd] = sides[x][sd]
      /\ \A x \in DOMAIN sides : x # s => sides'[x].prec = sides[x].prec
  BY <1>1, RecorderLearns DEF Base
<1> QED BY <1>1, <1>2, <1>3, <1>4

\* What a new pair in the pairs file says of the books and the pairs before.
LEMMA InstrumentPairs ==
  ASSUME Base, PairsKnown, NEW s \in Symbols, AcceptInstrument(s)
  PROVE  /\ IsSeq(pairs)' /\ PairsKnown' /\ (PrecisionsKept' => PrecisionsKept)
         /\ \A x, p : Announced(pairs, x, p) => Announced(pairs', x, p)
         /\ PrecisionsKept' => \A x \in DOMAIN sides : sides'[x].prec = sides[x].prec
<1>1. PICK prec \in Precisions :
        /\ pairs' = Append(pairs, [symbol |-> s, prec |-> prec])
        /\ DOMAIN sides' = DOMAIN sides \cup {s} /\ sides'[s].prec = prec
        /\ \A x \in DOMAIN sides : x # s => sides'[x].prec = sides[x].prec
  BY InstrumentMeans
<1> DEFINE m == [symbol |-> s, prec |-> prec]
<1>2. m.symbol = s /\ m.prec = prec /\ pairs' = Append(pairs, m)
  BY <1>1
<1> HIDE DEF m
<1>3. /\ IsSeq(pairs)' /\ Len(pairs') = Len(pairs) + 1 /\ Len(pairs) \in Nat
      /\ \A x, p : Announced(pairs, x, p) => Announced(pairs', x, p)
      /\ Announced(pairs', m.symbol, m.prec)
      /\ \A i \in 1 .. Len(pairs') :
           pairs'[i] # m => i \in 1 .. Len(pairs) /\ pairs'[i] = pairs[i]
      /\ PrecisionsKept' => PrecisionsKept
  BY <1>2, PairsGrow DEF Base
<1>4. PairsKnown'
  <2>1. \A x \in DOMAIN sides' : Announced(pairs', x, sides'[x].prec)
    <3> SUFFICES ASSUME NEW x \in DOMAIN sides' PROVE Announced(pairs', x, sides'[x].prec)
      OBVIOUS
    <3>1. CASE x = s
      <4>1. Announced(pairs', s, prec)
        BY <1>2, <1>3 DEF Announced
      <4> QED BY <1>1, <3>1, <4>1 DEF Announced
    <3>2. CASE x # s
      <4>1. x \in DOMAIN sides /\ sides'[x].prec = sides[x].prec
        BY <1>1, <3>2
      <4>2. Announced(pairs, x, sides[x].prec)
        BY <4>1 DEF PairsKnown
      <4>3. PICK i \in 1 .. Len(pairs') : pairs'[i].symbol = x /\ pairs'[i].prec = sides[x].prec
        BY <1>3, <4>2 DEF Announced
      <4> QED BY <4>1, <4>3 DEF Announced
    <3> QED BY <3>1, <3>2
  <2>2. \A i \in 1 .. Len(pairs') : pairs'[i].symbol \in DOMAIN sides'
    BY <1>1, <1>2, <1>3 DEF PairsKnown
  <2> QED BY <2>1, <2>2 DEF PairsKnown
<1>5. ASSUME PrecisionsKept', NEW x \in DOMAIN sides PROVE sides'[x].prec = sides[x].prec
  <2>1. CASE x # s
    BY <1>1, <2>1
  <2>2. CASE x = s
    <3>1. /\ \E i \in 1 .. Len(pairs') : pairs'[i].symbol = s /\ pairs'[i].prec = prec
          /\ \E i \in 1 .. Len(pairs') : pairs'[i].symbol = s /\ pairs'[i].prec = sides[s].prec
      <4>1. Announced(pairs, s, sides[s].prec)
        BY <2>2 DEF PairsKnown
      <4> QED BY <1>2, <1>3, <4>1 DEF Announced
    <3>2. DOMAIN pairs' = 1 .. Len(pairs')
      <4> DEFINE t == pairs'
      <4>1. IsSeq(t)
        BY <1>3 DEF IsSeq
      <4> HIDE DEF t
      <4>2. DOMAIN t = 1 .. Len(t)
        BY <4>1, SeqIs
      <4> QED BY <4>2 DEF t
    <3> QED BY <1>1, <1>5, <2>2, <3>1, <3>2 DEF PrecisionsKept
  <2> QED BY <2>1, <2>2
<1> QED BY <1>3, <1>4, <1>5

LEMMA InstrumentQueue ==
  ASSUME QueueInv, NEW s \in Symbols, AcceptInstrument(s)
  PROVE  QueueInv'
<1>1. PICK prec \in Precisions :
        /\ ~thrown /\ UNCHANGED <<venue, synced, thrown, sound, queue, rows>>
        /\ listed' = [listed EXCEPT ![s] = prec] /\ refdata' = With(refdata, s, prec)
        /\ Expressible(venue[s], prec)
        /\ Formed(sides)' /\ DOMAIN sides' = DOMAIN sides \cup {s} /\ sides'[s].prec = prec
        /\ \A sd \in {"bids", "asks"} : \A x \in DOMAIN sides : sides'[x][sd] = sides[x][sd]
        /\ \A x \in DOMAIN sides : x # s => sides'[x].prec = sides[x].prec
  BY InstrumentMeans DEF QueueInv
<1>2. /\ IsSeq(pairs)' /\ PairsKnown'
      /\ \A x, p : Announced(pairs, x, p) => Announced(pairs', x, p)
  BY InstrumentPairs DEF QueueInv
<1>3. \A x \in Symbols : listed'[x] = IF x = s THEN prec ELSE listed[x]
  BY <1>1 DEF QueueInv, Base
<1>4. Base'
  <2>1. /\ Formed(sides)' /\ DOMAIN sides' \subseteq Symbols /\ synced' \subseteq DOMAIN sides'
        /\ venue' \in [Symbols -> Book(Qtys)] /\ listed' \in [Symbols -> Precisions]
    BY <1>1 DEF QueueInv, Base
  <2>2. Current'
    BY <1>1, <1>3 DEF QueueInv, Base, Current
  <2>3. PrecisionsAgree'
    <3>1. DOMAIN refdata = DOMAIN sides /\ \A x \in DOMAIN sides : refdata[x] = sides[x].prec
      BY DEF QueueInv, Base, PrecisionsAgree
    <3>2. refdata' = [x \in DOMAIN sides \cup {s} |-> IF x = s THEN prec ELSE sides[x].prec]
      BY <1>1, <3>1 DEF With
    <3>3. \A x \in DOMAIN sides' : sides'[x].prec = IF x = s THEN prec ELSE sides[x].prec
      BY <1>1
    <3> QED BY <1>1, <3>2, <3>3 DEF PrecisionsAgree
  <2>4. \A x \in Symbols : Expressible(venue'[x], listed'[x])
    BY <1>1, <1>3 DEF QueueInv, Base, Expressible
  <2>5. IsSeq(queue)' /\ IsSeq(rows)'
    BY <1>1 DEF QueueInv, Base, IsSeq
  <2> QED BY <1>2, <2>1, <2>2, <2>3, <2>4, <2>5 DEF Base
<1>5. QueueKnown'
  <2>1. \A k \in 1 .. Len(queue) :
          /\ queue[k].symbol \in synced /\ queue[k].prec \in Precisions
          /\ FitsList(queue[k].bids, queue[k].prec) /\ FitsList(queue[k].asks, queue[k].prec)
          /\ Announced(pairs', queue[k].symbol, queue[k].prec)
    BY <1>2 DEF QueueInv, QueueKnown
  <2> QED BY <1>1, <2>1 DEF QueueKnown
<1>6. \A x \in synced : x \in DOMAIN sides /\ \A sd \in {"bids", "asks"} : sides'[x][sd] = sides[x][sd]
  BY <1>1 DEF QueueInv, Base
<1>7. QueueChecked'
  <2> SUFFICES ASSUME NEW k \in 1 .. Len(queue)
               PROVE  queue[k].crc
                        = Crc32(Course("bids", queue[k].symbol, sides'[queue[k].symbol].bids, queue)[k],
                                Course("asks", queue[k].symbol, sides'[queue[k].symbol].asks, queue)[k],
                                queue[k].prec)
    BY <1>1 DEF QueueChecked
  <2> DEFINE x == queue[k].symbol
  <2>1. x \in synced
    BY DEF QueueInv, QueueKnown
  <2>2. sides'[x].bids = sides[x].bids /\ sides'[x].asks = sides[x].asks
    <3>1. sides'[x]["bids"] = sides[x]["bids"] /\ sides'[x]["asks"] = sides[x]["asks"]
      BY <1>6, <2>1
    <3> QED BY <3>1
  <2> QED BY <1>1, <2>2 DEF QueueInv, QueueChecked
<1>8. QueueCatchesUp'
  <2> SUFFICES ASSUME NEW x \in synced, NEW sd \in {"bids", "asks"}
               PROVE  Course(sd, x, sides'[x][sd], queue)[Len(queue)] = Best(sd, venue[x])
    BY <1>1 DEF QueueCatchesUp
  <2> QED BY <1>1, <1>6 DEF QueueInv, QueueCatchesUp
<1>9. RefusesOnlyOvertaken'
  BY <1>1 DEF RefusesOnlyOvertaken
<1> QED BY <1>2, <1>4, <1>5, <1>7, <1>8, <1>9 DEF QueueInv

LEMMA InstrumentFiles ==
  ASSUME QueueInv, FilesInv, NEW s \in Symbols, AcceptInstrument(s)
  PROVE  FilesInv'
<1>1. /\ UNCHANGED <<thrown, rows>> /\ DOMAIN sides' = DOMAIN sides \cup {s}
      /\ \A sd \in {"bids", "asks"} :
           /\ s \notin DOMAIN sides => sides'[s][sd] = EmptySide
           /\ \A x \in DOMAIN sides : sides'[x][sd] = sides[x][sd]
  BY InstrumentMeans DEF QueueInv
<1>2. /\ PrecisionsKept' => PrecisionsKept
      /\ PrecisionsKept' => \A x \in DOMAIN sides : sides'[x].prec = sides[x].prec
  BY InstrumentPairs DEF QueueInv
<1>3. RowsKnown'
  BY <1>1 DEF FilesInv, RowsKnown
<1>4. RowsLead'
  <2> SUFFICES ASSUME PrecisionsKept', NEW x \in DOMAIN sides', NEW sd \in {"bids", "asks"}
               PROVE  Course(sd, x, EmptySide, rows)[Len(rows)] = sides'[x][sd]
    BY <1>1 DEF RowsLead
  <2>1. CASE x \in DOMAIN sides
    BY <1>1, <1>2, <2>1 DEF FilesInv, RowsLead
  <2>2. CASE x \notin DOMAIN sides
    <3>1. Len(rows) \in Nat /\ \A k \in 1 .. Len(rows) : rows[k].symbol # x
      BY <2>2 DEF FilesInv, RowsKnown, QueueInv, Base, IsSeq
    <3>2. Course(sd, x, EmptySide, rows)[Len(rows)] = EmptySide
      BY <3>1, CourseIdle
    <3>3. x = s
      BY <1>1, <2>2
    <3> QED BY <1>1, <2>2, <3>2, <3>3
  <2> QED BY <2>1, <2>2
<1>5. RowsChecked'
  <2> SUFFICES ASSUME PrecisionsKept', ~thrown, NEW k \in 1 .. Len(rows)
               PROVE  rows[k].crc = Crc32(Course("bids", rows[k].symbol, EmptySide, rows)[k],
                                          Course("asks", rows[k].symbol, EmptySide, rows)[k],
                                          sides'[rows[k].symbol].prec)
    BY <1>1 DEF RowsChecked
  <2>1. rows[k].symbol \in DOMAIN sides
    BY DEF FilesInv, RowsKnown
  <2>2. sides'[rows[k].symbol].prec = sides[rows[k].symbol].prec
    BY <1>2, <2>1
  <2> QED BY <1>2, <2>2 DEF FilesInv, RowsChecked
<1> QED BY <1>3, <1>4, <1>5 DEF FilesInv

-----------------------------------------------------------------------------
(* What the venue sends.                                                    *)

\* A message of the book of s, once the venue's book is `book`: it leads there
\* from the best levels the venue had, or from anywhere if it is the first.
Message(s, msg, book) ==
  /\ msg.symbol = s /\ msg.prec = listed[s]
  /\ FitsList(msg.bids, msg.prec) /\ FitsList(msg.asks, msg.prec)
  /\ msg.crc = Crc32(Best("bids", book), Best("asks", book), msg.prec)
  /\ \A sd \in {"bids", "asks"} :
       \/ \A side : After(sd, s, side, msg) = Best(sd, book)
       \/ s \in synced /\ After(sd, s, Best(sd, venue[s]), msg) = Best(sd, book)

LEMMA SnapshotSends ==
  ASSUME Base, NEW s \in Symbols, SendSnapshot(s)
  PROVE  /\ s \in DOMAIN sides /\ synced' = synced \cup {s} /\ UNCHANGED <<venue, listed>>
         /\ \E msg : queue' = Append(queue, msg) /\ Message(s, msg, venue[s])
<1> DEFINE book == venue[s]
           prec == listed[s]
           bb == Best("bids", book)
           ba == Best("asks", book)
           bids == SetToSeq(Quotes(bb))
           asks == SetToSeq(Quotes(ba))
           msg == [symbol |-> s, type |-> "snapshot", bids |-> bids, asks |-> asks,
                   crc |-> VenueCrc(s, book), prec |-> prec]
<1>1. /\ s \in DOMAIN sides /\ synced' = synced \cup {s} /\ UNCHANGED <<venue, listed>>
      /\ queue' = Append(queue, msg)
  BY DEF SendSnapshot, Enqueue
<1>2. VenueCrc(s, book) = Crc32(bb, ba, prec)
  BY DEF VenueCrc
<1>3. /\ book \in Book(Qtys) /\ prec \in Precisions /\ Expressible(book, prec)
  BY DEF Base
<1> HIDE DEF book, prec
<1>4. IsSide(book["bids"], BidPrices, Qtys) /\ IsSide(book["asks"], AskPrices, Qtys)
  BY <1>3, VenueType
<1>5. /\ IsFiniteSet(DOMAIN bb) /\ bb = [p \in DOMAIN bb |-> bb[p]] /\ IsFiniteSet(Quotes(bb))
      /\ \A q \in Quotes(bb) : FitsQuote(q, prec)
  BY <1>3, <1>4, PricesAre, QuotesFit
<1>6. /\ IsFiniteSet(DOMAIN ba) /\ ba = [p \in DOMAIN ba |-> ba[p]] /\ IsFiniteSet(Quotes(ba))
      /\ \A q \in Quotes(ba) : FitsQuote(q, prec)
  BY <1>3, <1>4, PricesAre, QuotesFit
<1> HIDE DEF bb, ba
<1>7. bids \in SetToSeqs(Quotes(bb)) /\ FitsList(bids, prec)
  BY <1>5, ListOf
<1>8. asks \in SetToSeqs(Quotes(ba)) /\ FitsList(asks, prec)
  BY <1>6, ListOf
<1> HIDE DEF bids, asks
<1>9. FromSnapshot(bids) = bb /\ FromSnapshot(asks) = ba
  BY <1>5, <1>6, <1>7, <1>8, SnapshotGives
<1>10. /\ msg.symbol = s /\ msg.type = "snapshot" /\ msg.prec = prec
       /\ msg.bids = bids /\ msg.asks = asks /\ msg.crc = Crc32(bb, ba, prec)
       /\ msg["bids"] = bids /\ msg["asks"] = asks
  BY <1>2
<1> HIDE DEF msg
<1>11. ASSUME NEW sd \in {"bids", "asks"}, NEW side PROVE After(sd, s, side, msg) = Best(sd, book)
  BY <1>9, <1>10 DEF After, bb, ba
<1>12. Message(s, msg, book)
  BY <1>7, <1>8, <1>10, <1>11 DEF Message, bb, ba, prec
<1> QED BY <1>1, <1>12 DEF book

LEMMA UpdateSends ==
  ASSUME Base, NEW s \in Symbols, SendUpdate(s)
  PROVE  \E new \in Book(Qtys) :
           /\ Expressible(new, listed[s]) /\ venue' = [venue EXCEPT ![s] = new]
           /\ UNCHANGED <<listed, synced>>
           /\ \/ /\ s \in synced => \A sd \in {"bids", "asks"} : Best(sd, venue[s]) = Best(sd, new)
                 /\ UNCHANGED queue
              \/ /\ s \in synced
                 /\ \E msg : queue' = Append(queue, msg) /\ Message(s, msg, new)
<1>1. PICK new \in NextBooks(venue[s]) :
        /\ Expressible(new, listed[s]) /\ venue' = [venue EXCEPT ![s] = new]
        /\ IF s \in synced /\ Changes("bids", venue[s], new) \cup Changes("asks", venue[s], new) # {}
           THEN Enqueue(s, "update", Changes("bids", venue[s], new),
                        Changes("asks", venue[s], new), new)
           ELSE UNCHANGED queue
        /\ UNCHANGED <<listed, synced>>
  BY DEF SendUpdate
<1> DEFINE old == venue[s]
           prec == listed[s]
           bq == Changes("bids", old, new)
           aq == Changes("asks", old, new)
           bids == SetToSeq(bq)
           asks == SetToSeq(aq)
           msg == [symbol |-> s, type |-> "update", bids |-> bids, asks |-> asks,
                   crc |-> VenueCrc(s, new), prec |-> prec]
<1>2. new \in Book(Qtys) /\ old \in Book(Qtys) /\ prec \in Precisions
      /\ Expressible(old, prec) /\ Expressible(new, prec)
  BY <1>1 DEF Base, NextBooks, Changed, Book
<1>3. VenueCrc(s, new) = Crc32(Best("bids", new), Best("asks", new), prec)
  BY DEF VenueCrc
<1>4. \/ ~(s \in synced /\ bq \cup aq # {}) /\ UNCHANGED queue
      \/ s \in synced /\ queue' = Append(queue, msg)
  BY <1>1 DEF Enqueue
<1>5. \A sd \in {"bids", "asks"} : Best(sd, old) = Best(sd, venue[s])
  OBVIOUS
<1>6. Expressible(new, listed[s]) /\ venue' = [venue EXCEPT ![s] = new]
      /\ UNCHANGED <<listed, synced>>
  BY <1>1
<1> HIDE DEF old, prec
<1>7. /\ IsSide(old["bids"], BidPrices, Qtys) /\ IsSide(old["asks"], AskPrices, Qtys)
      /\ IsSide(new["bids"], BidPrices, Qtys) /\ IsSide(new["asks"], AskPrices, Qtys)
  BY <1>2, VenueType
<1>8. /\ BidPrices \in SUBSET Nat /\ IsFiniteSet(BidPrices)
      /\ AskPrices \in SUBSET Nat /\ IsFiniteSet(AskPrices)
      /\ Qtys \in SUBSET Nat /\ 0 \notin Qtys
  BY PricesAre
<1>9. IsFiniteSet(bq) /\ \A q \in bq : FitsQuote(q, prec)
  BY <1>2, <1>7, <1>8, ChangesFit
<1>10. IsFiniteSet(aq) /\ \A q \in aq : FitsQuote(q, prec)
  BY <1>2, <1>7, <1>8, ChangesFit
<1>11. ASSUME bq \cup aq = {}
       PROVE  \A sd \in {"bids", "asks"} : Best(sd, old) = Best(sd, new)
  <2>1. Changes("bids", old, new) = {} /\ Changes("asks", old, new) = {}
    BY <1>11
  <2> HIDE DEF bq, aq
  <2>2. Best("bids", old) = Best("bids", new)
    BY <1>7, <1>8, <2>1, NothingGives
  <2>3. Best("asks", old) = Best("asks", new)
    BY <1>7, <1>8, <2>1, NothingGives
  <2> QED BY <2>2, <2>3
<1>12. bids \in SetToSeqs(Changes("bids", old, new)) /\ FitsList(bids, prec)
  BY <1>9, ListOf
<1>13. asks \in SetToSeqs(Changes("asks", old, new)) /\ FitsList(asks, prec)
  BY <1>10, ListOf
<1> HIDE DEF bq, aq, bids, asks
<1>14. ApplyUpdate("bids", Best("bids", old), bids) = Best("bids", new)
  BY <1>7, <1>8, <1>12, UpdateGives
<1>15. ApplyUpdate("asks", Best("asks", old), asks) = Best("asks", new)
  BY <1>7, <1>8, <1>13, UpdateGives
<1>16. /\ msg.symbol = s /\ msg.type = "update" /\ msg.prec = prec
       /\ msg.bids = bids /\ msg.asks = asks
       /\ msg.crc = Crc32(Best("bids", new), Best("asks", new), prec)
       /\ msg["bids"] = bids /\ msg["asks"] = asks
  BY <1>3
<1> HIDE DEF msg
<1>17. ASSUME NEW sd \in {"bids", "asks"} PROVE After(sd, s, Best(sd, old), msg) = Best(sd, new)
  BY <1>14, <1>15, <1>16 DEF After
<1>18. s \in synced => Message(s, msg, new)
  BY <1>5, <1>12, <1>13, <1>16, <1>17 DEF Message, prec
<1> QED BY <1>2, <1>4, <1>5, <1>6, <1>11, <1>18

\* Either way: the venue's book of s is `book`, which the messages lead to.
LEMMA ReadMeans ==
  ASSUME Base, NEW s \in Symbols, ReadBook(s)
  PROVE  \E book \in Book(Qtys) :
    /\ phase = "recording" /\ ~thrown
    /\ UNCHANGED <<sides, refdata, thrown, sound, rows, pairs, toolVars, listed>>
    /\ Expressible(book, listed[s])
    /\ venue' \in [Symbols -> Book(Qtys)] /\ venue'[s] = book
    /\ \A x \in Symbols : x # s => venue'[x] = venue[x]
    /\ \/ /\ s \in synced => \A sd \in {"bids", "asks"} : Best(sd, venue[s]) = Best(sd, book)
          /\ UNCHANGED <<queue, synced>>
       \/ /\ s \in DOMAIN sides /\ synced' = synced \cup {s}
          /\ \E msg : queue' = Append(queue, msg) /\ Message(s, msg, book)
<1>1. /\ phase = "recording" /\ ~thrown
      /\ UNCHANGED <<sides, refdata, thrown, sound, rows, pairs, toolVars>>
      /\ SendSnapshot(s) \/ SendUpdate(s)
  BY DEF ReadBook, Recording, history
<1>2. CASE SendSnapshot(s)
  <2>1. /\ s \in DOMAIN sides /\ synced' = synced \cup {s} /\ UNCHANGED <<venue, listed>>
        /\ \E msg : queue' = Append(queue, msg) /\ Message(s, msg, venue[s])
    BY <1>2, SnapshotSends
  <2>2. venue[s] \in Book(Qtys) /\ Expressible(venue[s], listed[s])
        /\ venue' \in [Symbols -> Book(Qtys)]
    BY <2>1 DEF Base
  <2> QED BY <1>1, <2>1, <2>2
<1>3. CASE SendUpdate(s)
  <2>1. PICK new \in Book(Qtys) :
          /\ Expressible(new, listed[s]) /\ venue' = [venue EXCEPT ![s] = new]
          /\ UNCHANGED <<listed, synced>>
          /\ \/ /\ s \in synced => \A sd \in {"bids", "asks"} : Best(sd, venue[s]) = Best(sd, new)
                /\ UNCHANGED queue
             \/ /\ s \in synced
                /\ \E msg : queue' = Append(queue, msg) /\ Message(s, msg, new)
    BY <1>3, UpdateSends
  <2>2. /\ venue' \in [Symbols -> Book(Qtys)] /\ venue'[s] = new
        /\ \A x \in Symbols : x # s => venue'[x] = venue[x]
    BY <2>1 DEF Base
  <2>3. s \in synced => s \in DOMAIN sides /\ synced' = synced \cup {s}
    BY <2>1 DEF Base
  <2> HIDE DEF Message
  <2> QED BY <1>1, <2>1, <2>2, <2>3
<1> QED BY <1>1, <1>2, <1>3

LEMMA ReadQueue ==
  ASSUME QueueInv, NEW s \in Symbols, ReadBook(s)
  PROVE  QueueInv'
<1>1. PICK book \in Book(Qtys) :
    /\ ~thrown /\ UNCHANGED <<sides, refdata, thrown, rows, pairs, listed>>
    /\ Expressible(book, listed[s])
    /\ venue' \in [Symbols -> Book(Qtys)] /\ venue'[s] = book
    /\ \A x \in Symbols : x # s => venue'[x] = venue[x]
    /\ \/ /\ s \in synced => \A sd \in {"bids", "asks"} : Best(sd, venue[s]) = Best(sd, book)
          /\ UNCHANGED <<queue, synced>>
       \/ /\ s \in DOMAIN sides /\ synced' = synced \cup {s}
          /\ \E msg : queue' = Append(queue, msg) /\ Message(s, msg, book)
  BY ReadMeans DEF QueueInv
<1>2. PairsKnown' /\ RefusesOnlyOvertaken'
  BY <1>1 DEF QueueInv, PairsKnown, RefusesOnlyOvertaken
<1>3. /\ Formed(sides)' /\ DOMAIN sides' \subseteq Symbols /\ listed' \in [Symbols -> Precisions]
      /\ Current' /\ PrecisionsAgree' /\ IsSeq(rows)' /\ IsSeq(pairs)'
  BY <1>1 DEF QueueInv, Base, Formed, Current, PrecisionsAgree, IsSeq
<1>4. \A x \in Symbols : Expressible(venue'[x], listed'[x])
  BY <1>1 DEF QueueInv, Base
<1>5. CASE UNCHANGED <<queue, synced>>
           /\ (s \in synced => \A sd \in {"bids", "asks"} : Best(sd, venue[s]) = Best(sd, book))
  <2>1. Base'
    <3>1. IsSeq(queue)' /\ synced' \subseteq DOMAIN sides'
      BY <1>1, <1>5 DEF QueueInv, Base, IsSeq
    <3> QED BY <1>1, <1>3, <1>4, <3>1 DEF Base
  <2>2. QueueKnown' /\ QueueChecked'
    BY <1>1, <1>5 DEF QueueInv, QueueKnown, QueueChecked
  <2>3. QueueCatchesUp'
    <3> SUFFICES ASSUME NEW x \in synced, NEW sd \in {"bids", "asks"}
                 PROVE  Course(sd, x, sides[x][sd], queue)[Len(queue)] = Best(sd, venue'[x])
      BY <1>1, <1>5 DEF QueueCatchesUp
    <3>1. Course(sd, x, sides[x][sd], queue)[Len(queue)] = Best(sd, venue[x]) /\ x \in Symbols
      BY <1>1 DEF QueueInv, QueueCatchesUp, Base
    <3> QED BY <1>1, <1>5, <3>1
  <2> QED BY <1>2, <2>1, <2>2, <2>3 DEF QueueInv
<1>6. CASE /\ s \in DOMAIN sides /\ synced' = synced \cup {s}
           /\ \E msg : queue' = Append(queue, msg) /\ Message(s, msg, book)
  <2>1. PICK msg : queue' = Append(queue, msg) /\ Message(s, msg, book)
    BY <1>6
  <2> DEFINE t == queue'
             n == Len(queue)
  <2>2. /\ IsSeq(t) /\ n \in Nat /\ Len(t) = n + 1 /\ t[n + 1] = msg
        /\ \A k \in 1 .. n : t[k] = queue[k]
    BY <2>1, AppendIs DEF QueueInv, Base, IsSeq
  <2> HIDE DEF t
  <2>3. Base'
    <3>1. IsSeq(queue)' /\ synced' \subseteq DOMAIN sides'
      BY <1>1, <1>6, <2>2 DEF QueueInv, Base, IsSeq, t
    <3> QED BY <1>1, <1>3, <1>4, <3>1 DEF Base
  <2>4. QueueKnown'
    <3> SUFFICES ASSUME NEW k \in 1 .. Len(t)
                 PROVE  /\ t[k].symbol \in synced' /\ t[k].prec \in Precisions
                        /\ FitsList(t[k].bids, t[k].prec) /\ FitsList(t[k].asks, t[k].prec)
                        /\ Announced(pairs', t[k].symbol, t[k].prec)
      BY DEF QueueKnown, t
    <3>1. CASE k \in 1 .. n
      BY <1>1, <1>6, <2>2, <3>1 DEF QueueInv, QueueKnown
    <3>2. CASE k = n + 1
      <4>1. /\ msg.symbol = s /\ msg.prec = listed[s]
            /\ FitsList(msg.bids, msg.prec) /\ FitsList(msg.asks, msg.prec)
        BY <2>1 DEF Message
      <4>2. Announced(pairs, s, listed[s])
        BY <1>6 DEF QueueInv, PairsKnown, Base, Current
      <4>3. listed[s] \in Precisions
        BY DEF QueueInv, Base
      <4> QED BY <1>1, <1>6, <2>2, <3>2, <4>1, <4>2, <4>3
    <3> QED BY <2>2, <3>1, <3>2
  <2>5. ASSUME NEW x, NEW sd \in {"bids", "asks"}, NEW side
        PROVE  /\ \A i \in 0 .. n : Course(sd, x, side, t)[i] = Course(sd, x, side, queue)[i]
               /\ Course(sd, x, side, t)[n + 1] = After(sd, x, Course(sd, x, side, queue)[n], msg)
    <3>1. IsLonger(t, queue)
      BY <2>2 DEF IsLonger
    <3> HIDE DEF n
    <3>2. /\ \A i \in 0 .. Len(queue) : Course(sd, x, side, t)[i] = Course(sd, x, side, queue)[i]
          /\ Course(sd, x, side, t)[Len(t)]
               = After(sd, x, Course(sd, x, side, queue)[Len(queue)], t[Len(t)])
      BY <3>1, CourseAppend
    <3> QED BY <2>2, <3>2 DEF n
  <2>6. \A x \in synced, sd \in {"bids", "asks"} :
          Course(sd, x, sides[x][sd], queue)[n] = Best(sd, venue[x])
    BY <1>1 DEF QueueInv, QueueCatchesUp
  <2>7. ASSUME NEW sd \in {"bids", "asks"}
        PROVE  Course(sd, s, sides[s][sd], t)[n + 1] = Best(sd, book)
    <3>1. \/ \A side : After(sd, s, side, msg) = Best(sd, book)
          \/ s \in synced /\ After(sd, s, Best(sd, venue[s]), msg) = Best(sd, book)
      BY <2>1 DEF Message
    <3>2. Course(sd, s, sides[s][sd], t)[n + 1]
            = After(sd, s, Course(sd, s, sides[s][sd], queue)[n], msg)
      BY <2>5
    <3>3. CASE \A side : After(sd, s, side, msg) = Best(sd, book)
      BY <3>2, <3>3
    <3>4. CASE s \in synced /\ After(sd, s, Best(sd, venue[s]), msg) = Best(sd, book)
      <4>1. Course(sd, s, sides[s][sd], queue)[n] = Best(sd, venue[s])
        BY <2>6, <3>4
      <4> QED BY <3>2, <3>4, <4>1
    <3> QED BY <3>1, <3>3, <3>4
  <2>8. QueueCatchesUp'
    <3> SUFFICES ASSUME NEW x \in synced', NEW sd \in {"bids", "asks"}
                 PROVE  Course(sd, x, sides[x][sd], t)[n + 1] = Best(sd, venue'[x])
      BY <1>1, <2>2 DEF QueueCatchesUp, t
    <3>1. CASE x = s
      BY <1>1, <2>7, <3>1
    <3>2. CASE x # s
      <4>1. x \in synced /\ x \in Symbols
        BY <1>6, <3>2 DEF QueueInv, Base
      <4>2. After(sd, x, Course(sd, x, sides[x][sd], queue)[n], msg)
              = Course(sd, x, sides[x][sd], queue)[n]
        BY <2>1, <3>2 DEF After, Message
      <4> QED BY <1>1, <2>5, <2>6, <3>2, <4>1, <4>2
    <3> QED BY <3>1, <3>2
  <2>9. QueueChecked'
    <3> SUFFICES ASSUME NEW k \in 1 .. n + 1
                 PROVE  t[k].crc = Crc32(Course("bids", t[k].symbol, sides[t[k].symbol].bids, t)[k],
                                         Course("asks", t[k].symbol, sides[t[k].symbol].asks, t)[k],
                                         t[k].prec)
      BY <1>1, <2>2 DEF QueueChecked, t
    <3>1. CASE k \in 1 .. n
      <4> DEFINE x == queue[k].symbol
      <4>1. queue[k].crc = Crc32(Course("bids", x, sides[x].bids, queue)[k],
                                 Course("asks", x, sides[x].asks, queue)[k], queue[k].prec)
        BY <1>1, <3>1 DEF QueueInv, QueueChecked
      <4>2. k \in 0 .. n /\ t[k] = queue[k]
        BY <2>2, <3>1
      <4>3. /\ Course("bids", x, sides[x].bids, t)[k] = Course("bids", x, sides[x].bids, queue)[k]
            /\ Course("asks", x, sides[x].asks, t)[k] = Course("asks", x, sides[x].asks, queue)[k]
        BY <2>5, <4>2
      <4> QED BY <4>1, <4>2, <4>3
    <3>2. CASE k = n + 1
      <4>1. t[k] = msg /\ msg.symbol = s
            /\ msg.crc = Crc32(Best("bids", book), Best("asks", book), msg.prec)
        BY <2>1, <2>2, <3>2 DEF Message
      <4>2. /\ Course("bids", s, sides[s]["bids"], t)[k] = Best("bids", book)
            /\ Course("asks", s, sides[s]["asks"], t)[k] = Best("asks", book)
        BY <2>7, <3>2
      <4>3. sides[s]["bids"] = sides[s].bids /\ sides[s]["asks"] = sides[s].asks
        OBVIOUS
      <4> QED BY <4>1, <4>2, <4>3
    <3> QED BY <2>2, <3>1, <3>2
  <2> QED BY <1>2, <2>3, <2>4, <2>8, <2>9 DEF QueueInv
<1> QED BY <1>1, <1>5, <1>6

-----------------------------------------------------------------------------
(* The process timer.                                                       *)

LEMMA DrainMeans ==
  ASSUME QueueInv, Drain
  PROVE  /\ phase = "recording" /\ ~thrown /\ UNCHANGED <<venue, listed, synced, refdata, pairs, toolVars>>
         /\ queue # <<>> /\ Len(queue) \in Nat \ {0} /\ queue[1].symbol \in DOMAIN sides
         /\ rows' = Append(rows, Row(queue[1]))
         /\ Formed(sides)' /\ DOMAIN sides' = DOMAIN sides
         /\ \A x \in DOMAIN sides : sides'[x].prec = sides[x].prec
         /\ \A x \in DOMAIN sides, sd \in {"bids", "asks"} :
              sides'[x][sd] = After(sd, x, sides[x][sd], queue[1])
         /\ thrown' <=> Crc32(sides'[queue[1].symbol].bids, sides'[queue[1].symbol].asks,
                              sides[queue[1].symbol].prec) # queue[1].crc
         /\ (thrown' /\ queue' = queue) \/ (~thrown' /\ queue' = Tail(queue))
<1> DEFINE msg == Oldest
<1>1. /\ phase = "recording" /\ ~thrown /\ UNCHANGED <<venue, listed, synced, refdata, pairs, toolVars>>
      /\ queue # <<>> /\ rows' = Append(rows, Row(msg))
      /\ AcceptBook(msg.symbol, IF msg.type = "snapshot" THEN AcceptSnapshot(msg.symbol, msg)
                                ELSE AcceptUpdate(msg.symbol, msg), msg.crc)
      /\ queue' = IF thrown' THEN queue ELSE Tail(queue)
  BY DEF Drain, Recording, venueVars
<1>2. Len(queue) \in Nat \ {0} /\ msg = queue[1]
  BY <1>1, TailIs DEF QueueInv, Base, Oldest
<1>3. msg.symbol \in DOMAIN sides
  BY <1>2 DEF QueueInv, QueueKnown, Base
<1> HIDE DEF msg
<1>4. /\ Formed(sides)' /\ DOMAIN sides' = DOMAIN sides
      /\ \A x \in DOMAIN sides : sides'[x].prec = sides[x].prec
      /\ \A x \in DOMAIN sides, sd \in {"bids", "asks"} :
           sides'[x][sd] = After(sd, x, sides[x][sd], msg)
      /\ thrown' <=> Crc32(sides'[msg.symbol].bids, sides'[msg.symbol].asks,
                           sides[msg.symbol].prec) # msg.crc
  BY <1>1, <1>3, RecorderAccepts DEF QueueInv, Base
<1>5. rows' = Append(rows, Row(queue[1]))
  BY <1>1, <1>2
<1>6. \A x \in DOMAIN sides, sd \in {"bids", "asks"} :
        sides'[x][sd] = After(sd, x, sides[x][sd], queue[1])
  BY <1>2, <1>4
<1>7. thrown' <=> Crc32(sides'[queue[1].symbol].bids, sides'[queue[1].symbol].asks,
                        sides[queue[1].symbol].prec) # queue[1].crc
  BY <1>2, <1>4
<1>8. (thrown' /\ queue' = queue) \/ (~thrown' /\ queue' = Tail(queue))
  BY <1>1
<1> QED BY <1>1, <1>2, <1>3, <1>4, <1>5, <1>6, <1>7, <1>8

\* A message taken off the queue takes the book as far as it led before; one
\* that is refused was sent with another precision.
LEMMA DrainQueue ==
  ASSUME QueueInv, Drain
  PROVE  QueueInv'
<1> DEFINE n == Len(queue)
           first == queue[1]
<1>1. /\ ~thrown /\ UNCHANGED <<venue, listed, synced, refdata, pairs>>
      /\ queue # <<>> /\ n \in Nat \ {0} /\ first.symbol \in DOMAIN sides
      /\ rows' = Append(rows, Row(first))
      /\ Formed(sides)' /\ DOMAIN sides' = DOMAIN sides
      /\ \A x \in DOMAIN sides : sides'[x].prec = sides[x].prec
      /\ \A x \in DOMAIN sides, sd \in {"bids", "asks"} :
           sides'[x][sd] = After(sd, x, sides[x][sd], first)
      /\ thrown' <=> Crc32(sides'[first.symbol].bids, sides'[first.symbol].asks,
                           sides[first.symbol].prec) # first.crc
      /\ (thrown' /\ queue' = queue) \/ (~thrown' /\ queue' = Tail(queue))
  BY DrainMeans
<1>2. PairsKnown' /\ (\A s, p : Announced(pairs, s, p) => Announced(pairs', s, p))
  BY <1>1, PairsStay DEF QueueInv
<1>3. IsSeq(queue) /\ \A x \in synced : x \in DOMAIN sides
  BY DEF QueueInv, Base
<1>4. /\ IsSeq(Tail(queue)) /\ Len(Tail(queue)) = n - 1 /\ Head(queue) = first
      /\ \A i \in 1 .. n - 1 : Tail(queue)[i] = queue[i + 1]
  BY <1>1, <1>3, TailIs
<1>5. IsSeq(Append(rows, Row(first)))
  BY AppendIs DEF QueueInv, Base
<1>6. Base'
  <2>1. /\ DOMAIN sides' \subseteq Symbols /\ synced' \subseteq DOMAIN sides'
        /\ venue' \in [Symbols -> Book(Qtys)] /\ listed' \in [Symbols -> Precisions]
        /\ \A s \in Symbols : Expressible(venue'[s], listed'[s])
    BY <1>1 DEF QueueInv, Base
  <2>2. Current' /\ PrecisionsAgree'
    BY <1>1 DEF QueueInv, Base, Current, PrecisionsAgree
  <2>3. IsSeq(queue)' /\ IsSeq(rows)' /\ IsSeq(pairs)'
    BY <1>1, <1>3, <1>4, <1>5 DEF QueueInv, Base, IsSeq
  <2> QED BY <1>1, <2>1, <2>2, <2>3 DEF Base
<1>7. ASSUME NEW sd \in {"bids", "asks"}, NEW x \in DOMAIN sides
      PROVE  /\ Course(sd, x, sides[x][sd], queue)[1] = sides'[x][sd]
             /\ \A i \in 0 .. n - 1 : Course(sd, x, sides'[x][sd], Tail(queue))[i]
                                        = Course(sd, x, sides[x][sd], queue)[i + 1]
  <2> DEFINE t == Tail(queue)
  <2>1. sides'[x][sd] = After(sd, x, sides[x][sd], queue[1])
    BY <1>1
  <2>2. IsRest(t, queue) /\ Len(queue) \in Nat \ {0} /\ Len(t) = Len(queue) - 1
    BY <1>1, <1>4 DEF IsRest
  <2> HIDE DEF t, n
  <2>3. \A i \in 0 .. Len(t) :
          Course(sd, x, After(sd, x, sides[x][sd], queue[1]), t)[i]
            = Course(sd, x, sides[x][sd], queue)[i + 1]
    BY <2>2, CourseTail
  <2>4. /\ Course(sd, x, sides[x][sd], queue)[0] = sides[x][sd]
        /\ Course(sd, x, sides[x][sd], queue)[1]
             = After(sd, x, Course(sd, x, sides[x][sd], queue)[1 - 1], queue[1])
    <3>1. 1 \in 1 .. Len(queue) /\ Len(queue) \in Nat
      BY <2>2
    <3> QED BY <3>1, CourseIs
  <2>5. Course(sd, x, sides[x][sd], queue)[1] = sides'[x][sd]
    BY <2>1, <2>4
  <2> QED BY <2>1, <2>2, <2>3, <2>5 DEF t, n
<1>8. CASE thrown' /\ queue' = queue
  <2>1. QueueKnown' /\ QueueChecked' /\ QueueCatchesUp'
    BY <1>1, <1>2, <1>8 DEF QueueInv, QueueKnown, QueueChecked, QueueCatchesUp
  <2>2. first.prec # sides[first.symbol].prec
    <3> SUFFICES ASSUME first.prec = sides[first.symbol].prec PROVE FALSE
      OBVIOUS
    <3>1. 1 \in 1 .. n
      BY <1>1
    <3>2. first.crc = Crc32(Course("bids", first.symbol, sides[first.symbol].bids, queue)[1],
                            Course("asks", first.symbol, sides[first.symbol].asks, queue)[1],
                            first.prec)
      BY <1>1, <3>1 DEF QueueInv, QueueChecked
    <3>3. /\ Course("bids", first.symbol, sides[first.symbol]["bids"], queue)[1]
               = sides'[first.symbol]["bids"]
          /\ Course("asks", first.symbol, sides[first.symbol]["asks"], queue)[1]
               = sides'[first.symbol]["asks"]
      BY <1>1, <1>7
    <3> QED BY <1>1, <1>8, <3>2, <3>3
  <2>3. RefusesOnlyOvertaken'
    BY <1>1, <1>4, <1>8, <2>2 DEF RefusesOnlyOvertaken
  <2> QED BY <1>2, <1>6, <2>1, <2>3 DEF QueueInv
<1>9. CASE ~thrown' /\ queue' = Tail(queue)
  <2> DEFINE t == queue'
  <2>1. /\ Len(t) = n - 1 /\ \A k \in 1 .. n - 1 : t[k] = queue[k + 1]
    BY <1>4, <1>9
  <2>2. ASSUME NEW sd \in {"bids", "asks"}, NEW x \in DOMAIN sides, NEW i \in 0 .. n - 1
        PROVE  Course(sd, x, sides'[x][sd], t)[i] = Course(sd, x, sides[x][sd], queue)[i + 1]
    BY <1>7, <1>9
  <2> HIDE DEF t
  <2>3. \A k \in 1 .. n - 1 : k \in 0 .. n - 1 /\ k + 1 \in 1 .. n
    BY <1>1
  <2>4. QueueKnown'
    <3> SUFFICES ASSUME NEW k \in 1 .. n - 1
                 PROVE  /\ t[k].symbol \in synced' /\ t[k].prec \in Precisions
                        /\ FitsList(t[k].bids, t[k].prec) /\ FitsList(t[k].asks, t[k].prec)
                        /\ Announced(pairs', t[k].symbol, t[k].prec)
      BY <2>1 DEF QueueKnown, t
    <3> QED BY <1>1, <1>2, <2>1, <2>3 DEF QueueInv, QueueKnown
  <2>5. QueueCatchesUp'
    <3> SUFFICES ASSUME NEW x \in synced, NEW sd \in {"bids", "asks"}
                 PROVE  Course(sd, x, sides'[x][sd], t)[n - 1] = Best(sd, venue[x])
      BY <1>1, <2>1 DEF QueueCatchesUp, t
    <3>1. Course(sd, x, sides[x][sd], queue)[n] = Best(sd, venue[x])
      BY <1>1 DEF QueueInv, QueueCatchesUp
    <3>2. n - 1 \in 0 .. n - 1 /\ (n - 1) + 1 = n
      BY <1>1
    <3> HIDE DEF n
    <3> QED BY <1>3, <2>2, <3>1, <3>2
  <2>6. QueueChecked'
    <3> SUFFICES ASSUME NEW k \in 1 .. n - 1
                 PROVE  t[k].crc = Crc32(Course("bids", t[k].symbol, sides'[t[k].symbol].bids, t)[k],
                                         Course("asks", t[k].symbol, sides'[t[k].symbol].asks, t)[k],
                                         t[k].prec)
      BY <2>1 DEF QueueChecked, t
    <3> DEFINE m == queue[k + 1]
               x == m.symbol
    <3>1. t[k] = m /\ x \in DOMAIN sides /\ k \in 0 .. n - 1
      BY <1>3, <2>1, <2>3 DEF QueueInv, QueueKnown
    <3>2. m.crc = Crc32(Course("bids", x, sides[x]["bids"], queue)[k + 1],
                        Course("asks", x, sides[x]["asks"], queue)[k + 1], m.prec)
      BY <1>1, <2>3 DEF QueueInv, QueueChecked
    <3> HIDE DEF m
    <3>3. /\ Course("bids", x, sides'[x]["bids"], t)[k] = Course("bids", x, sides[x]["bids"], queue)[k + 1]
          /\ Course("asks", x, sides'[x]["asks"], t)[k] = Course("asks", x, sides[x]["asks"], queue)[k + 1]
      BY <2>2, <3>1
    <3> QED BY <3>1, <3>2, <3>3
  <2>7. RefusesOnlyOvertaken'
    BY <1>9 DEF RefusesOnlyOvertaken
  <2> QED BY <1>2, <1>6, <2>4, <2>5, <2>6, <2>7 DEF QueueInv
<1> QED BY <1>1, <1>8, <1>9

\* If no precision changed, the row of the oldest message has its numbers, and
\* takes a side where the message takes it.
LEMMA RowIs ==
  ASSUME QueueInv, queue # <<>>
  PROVE  /\ Row(queue[1]).symbol = queue[1].symbol /\ Row(queue[1]).crc = queue[1].crc
         /\ PrecisionsKept => \A sd \in {"bids", "asks"} : \A x, side :
              After(sd, x, side, Row(queue[1])) = After(sd, x, side, queue[1])
<1> DEFINE m == queue[1]
           r == Row(m)
<1>1. 1 \in 1 .. Len(queue)
  BY TailIs DEF QueueInv, Base
<1>2. /\ m.symbol \in DOMAIN sides /\ m.prec \in Precisions /\ Announced(pairs, m.symbol, m.prec)
      /\ FitsList(m.bids, m.prec) /\ FitsList(m.asks, m.prec)
  BY <1>1 DEF QueueInv, QueueKnown, Base
<1>3. refdata[m.symbol] = sides[m.symbol].prec
  BY <1>2 DEF QueueInv, Base, PrecisionsAgree
<1> HIDE DEF m
<1>4. /\ r.symbol = m.symbol /\ r.type = m.type /\ r.crc = m.crc
      /\ r["bids"] = Printed(m.bids, refdata[m.symbol])
      /\ r["asks"] = Printed(m.asks, refdata[m.symbol])
  BY DEF Row
<1> HIDE DEF r
<1>5. ASSUME PrecisionsKept, NEW sd \in {"bids", "asks"}, NEW x, NEW side
      PROVE  After(sd, x, side, r) = After(sd, x, side, m)
  <2>1. m.prec = refdata[m.symbol]
    BY <1>2, <1>3, <1>5, KeptIs DEF QueueInv
  <2>2. Printed(m.bids, m.prec) = m.bids /\ Printed(m.asks, m.prec) = m.asks
    BY <1>2, PrintedIs
  <2>3. r["bids"] = m["bids"] /\ r["asks"] = m["asks"]
    BY <1>4, <2>1, <2>2
  <2> QED BY <1>4, <2>3 DEF After
<1> QED BY <1>4, <1>5 DEF m, r

\* A row goes as far as the message it is of.
LEMMA DrainFiles ==
  ASSUME QueueInv, FilesInv, Drain
  PROVE  FilesInv'
<1> DEFINE n == Len(rows)
           first == queue[1]
           row == Row(first)
           t == rows'
<1>1. /\ ~thrown /\ UNCHANGED pairs /\ queue # <<>> /\ first.symbol \in DOMAIN sides
      /\ DOMAIN sides' = DOMAIN sides
      /\ \A x \in DOMAIN sides : sides'[x].prec = sides[x].prec
      /\ \A x \in DOMAIN sides, sd \in {"bids", "asks"} :
           sides'[x][sd] = After(sd, x, sides[x][sd], first)
      /\ thrown' <=> Crc32(sides'[first.symbol].bids, sides'[first.symbol].asks,
                           sides[first.symbol].prec) # first.crc
  BY DrainMeans
<1>2. t = Append(rows, row)
  BY DrainMeans
<1>3. PrecisionsKept' <=> PrecisionsKept
  BY <1>1, PairsStay DEF QueueInv
<1>4. /\ row.symbol = first.symbol /\ row.crc = first.crc
      /\ PrecisionsKept => \A sd \in {"bids", "asks"} : \A x, side :
           After(sd, x, side, row) = After(sd, x, side, first)
  BY <1>1, RowIs
<1> HIDE DEF row
<1>5. /\ n \in Nat /\ Len(t) = n + 1 /\ t[n + 1] = row
      /\ \A k \in 1 .. n : t[k] = rows[k]
  BY <1>2, AppendIs DEF QueueInv, Base, IsSeq
<1> HIDE DEF t, first
<1>6. ASSUME NEW x, NEW sd \in {"bids", "asks"}
      PROVE  /\ \A i \in 0 .. n : Course(sd, x, EmptySide, t)[i] = Course(sd, x, EmptySide, rows)[i]
             /\ Course(sd, x, EmptySide, t)[n + 1]
                  = After(sd, x, Course(sd, x, EmptySide, rows)[n], row)
  <2>1. IsLonger(t, rows)
    BY <1>5 DEF IsLonger
  <2> HIDE DEF n
  <2>2. /\ \A i \in 0 .. Len(rows) :
             Course(sd, x, EmptySide, t)[i] = Course(sd, x, EmptySide, rows)[i]
        /\ Course(sd, x, EmptySide, t)[Len(t)]
             = After(sd, x, Course(sd, x, EmptySide, rows)[Len(rows)], t[Len(t)])
    BY <2>1, CourseAppend
  <2> QED BY <1>5, <2>2 DEF n
<1>7. RowsKnown'
  <2>1. \A k \in 1 .. n + 1 : t[k].symbol \in DOMAIN sides
    BY <1>1, <1>4, <1>5 DEF FilesInv, RowsKnown
  <2> QED BY <1>1, <1>5, <2>1 DEF RowsKnown, t
<1>8. ASSUME PrecisionsKept, NEW x \in DOMAIN sides, NEW sd \in {"bids", "asks"}
      PROVE  Course(sd, x, EmptySide, t)[n + 1] = sides'[x][sd]
  <2>1. Course(sd, x, EmptySide, rows)[n] = sides[x][sd]
    BY <1>8 DEF FilesInv, RowsLead
  <2>2. After(sd, x, sides[x][sd], row) = After(sd, x, sides[x][sd], first)
    BY <1>4, <1>8
  <2>3. sides'[x][sd] = After(sd, x, sides[x][sd], first)
    BY <1>1
  <2> QED BY <1>6, <2>1, <2>2, <2>3
<1>9. RowsLead'
  BY <1>1, <1>3, <1>5, <1>8 DEF RowsLead, t
<1>10. RowsChecked'
  <2> SUFFICES ASSUME PrecisionsKept, ~thrown', NEW k \in 1 .. n + 1
               PROVE  t[k].crc = Crc32(Course("bids", t[k].symbol, EmptySide, t)[k],
                                       Course("asks", t[k].symbol, EmptySide, t)[k],
                                       sides'[t[k].symbol].prec)
    BY <1>3, <1>5 DEF RowsChecked, t
  <2>1. CASE k \in 1 .. n
    <3> DEFINE x == rows[k].symbol
    <3>1. rows[k].crc = Crc32(Course("bids", x, EmptySide, rows)[k],
                              Course("asks", x, EmptySide, rows)[k], sides[x].prec)
      BY <1>1, <2>1 DEF FilesInv, RowsChecked
    <3>2. k \in 0 .. n /\ t[k] = rows[k] /\ x \in DOMAIN sides
      BY <1>5, <2>1 DEF FilesInv, RowsKnown
    <3>3. /\ Course("bids", x, EmptySide, t)[k] = Course("bids", x, EmptySide, rows)[k]
          /\ Course("asks", x, EmptySide, t)[k] = Course("asks", x, EmptySide, rows)[k]
      BY <1>6, <3>2
    <3>4. sides'[x].prec = sides[x].prec
      BY <1>1, <3>2
    <3> QED BY <3>1, <3>2, <3>3, <3>4
  <2>2. CASE k = n + 1
    <3> DEFINE x == first.symbol
    <3>1. t[k].symbol = x /\ t[k].crc = first.crc /\ x \in DOMAIN sides
      BY <1>1, <1>4, <1>5, <2>2
    <3>2. /\ Course("bids", x, EmptySide, t)[k] = sides'[x]["bids"]
          /\ Course("asks", x, EmptySide, t)[k] = sides'[x]["asks"]
      BY <1>8, <2>2, <3>1
    <3>3. sides'[x].prec = sides[x].prec
      BY <1>1, <3>1
    <3>4. first.crc = Crc32(sides'[x]["bids"], sides'[x]["asks"], sides[x].prec)
      BY <1>1
    <3> QED BY <3>1, <3>2, <3>3, <3>4
  <2> QED BY <1>5, <2>1, <2>2
<1> QED BY <1>7, <1>9, <1>10 DEF FilesInv

-----------------------------------------------------------------------------
(* check_book.                                                              *)

\* While the recorder runs check_book has not started.
LEMMA RecordingTool ==
  ASSUME ToolInv, phase = "recording", UNCHANGED toolVars
  PROVE  ToolInv'
<1>1. phase' = "recording" /\ UNCHANGED <<read, toolSides, toolThrown>>
  BY DEF toolVars
<1>2. Idle'
  BY <1>1 DEF ToolInv, Idle
<1>3. ToolPairs' /\ ToolRows'
  BY <1>1 DEF ToolPairs, ToolRows
<1> QED BY <1>2, <1>3 DEF ToolInv

LEMMA StopTool ==
  ASSUME ReplayInv, StopRecording
  PROVE  ToolInv'
<1>1. /\ phase = "recording" /\ ~thrown /\ phase' = "pairs"
      /\ UNCHANGED <<thrown, pairs, read, toolSides, toolThrown>>
  BY DEF StopRecording, Recording, vars
<1>2. read = 0 /\ ~toolThrown /\ toolSides = [s \in {} |-> 0]
  BY <1>1 DEF ReplayInv, ToolInv, Idle
<1>3. Idle' /\ ToolRows'
  BY <1>1 DEF Idle, ToolRows
<1>4. ToolPairs'
  <2>1. DOMAIN toolSides = {} /\ {pairs[i].symbol : i \in 1 .. 0} = {}
    BY <1>2
  <2>2. Len(pairs) \in Nat
    BY DEF ReplayInv, QueueInv, Base, IsSeq
  <2>3. Formed(toolSides)'
    BY <1>1, <1>2, <2>1 DEF Formed
  <2>4. read' \in 0 .. Len(pairs')
    BY <1>1, <1>2, <2>2
  <2>5. DOMAIN toolSides' = {pairs'[i].symbol : i \in 1 .. read'}
    BY <1>1, <1>2, <2>1
  <2>6. \A s \in DOMAIN toolSides' : FALSE
    BY <1>1, <2>1
  <2> QED BY <1>1, <1>2, <2>3, <2>4, <2>5, <2>6 DEF ToolPairs
<1> QED BY <1>3, <1>4 DEF ToolInv

\* A row of the pairs file gives an empty book its last precision so far.
LEMMA PairTool ==
  ASSUME ReplayInv, ReadPair, read < Len(pairs)
  PROVE  ToolInv'
<1> DEFINE pair == pairs[read + 1]
<1>1. /\ phase = "pairs" /\ toolSides' = Tool!AcceptPair(pair.symbol, pair.prec)
      /\ read' = read + 1 /\ UNCHANGED <<thrown, pairs, phase, toolThrown>>
  BY DEF ReadPair, vars
<1>2. /\ ~toolThrown /\ read \in 0 .. Len(pairs) /\ Formed(toolSides)
      /\ DOMAIN toolSides = {pairs[i].symbol : i \in 1 .. read}
      /\ \A s \in DOMAIN toolSides :
           /\ Announced(pairs, s, toolSides[s].prec)
           /\ \A sd \in {"bids", "asks"} : toolSides[s][sd] = EmptySide
      /\ Len(pairs) \in Nat
  BY <1>1 DEF ReplayInv, ToolInv, ToolPairs, QueueInv, Base, IsSeq
<1>3. /\ Formed(toolSides)' /\ DOMAIN toolSides' = DOMAIN toolSides \cup {pair.symbol}
      /\ toolSides'[pair.symbol].prec = pair.prec
      /\ \A sd \in {"bids", "asks"} :
           /\ pair.symbol \notin DOMAIN toolSides => toolSides'[pair.symbol][sd] = EmptySide
           /\ \A x \in DOMAIN toolSides : toolSides'[x][sd] = toolSides[x][sd]
      /\ \A x \in DOMAIN toolSides : x # pair.symbol => toolSides'[x].prec = toolSides[x].prec
  BY <1>1, <1>2, ToolLearns
<1>4. Idle' /\ ToolRows'
  BY <1>1 DEF ReplayInv, ToolInv, Idle, ToolRows
<1>5. read + 1 \in 1 .. Len(pairs) /\ read' \in 0 .. Len(pairs')
  BY <1>1, <1>2
<1>6. DOMAIN toolSides' = {pairs'[i].symbol : i \in 1 .. read'}
  <2>1. \A i : i \in 1 .. read + 1 <=> i \in 1 .. read \/ i = read + 1
    BY <1>2
  <2>2. {pairs[i].symbol : i \in 1 .. read + 1} = {pairs[i].symbol : i \in 1 .. read} \cup {pair.symbol}
    BY <2>1
  <2> QED BY <1>1, <1>2, <1>3, <2>2
<1>7. ASSUME NEW s \in DOMAIN toolSides'
      PROVE  /\ Announced(pairs, s, toolSides'[s].prec)
             /\ \A sd \in {"bids", "asks"} : toolSides'[s][sd] = EmptySide
  <2>1. \A sd \in {"bids", "asks"} : toolSides'[s][sd] = EmptySide
    BY <1>2, <1>3
  <2>2. CASE s = pair.symbol
    <3>1. pairs[read + 1].symbol = s /\ pairs[read + 1].prec = toolSides'[s].prec
      BY <1>3, <2>2
    <3>2. Announced(pairs, s, toolSides'[s].prec)
      BY <1>5, <3>1 DEF Announced
    <3> QED BY <2>1, <3>2
  <2>3. CASE s # pair.symbol
    <3>1. s \in DOMAIN toolSides /\ toolSides'[s].prec = toolSides[s].prec
      BY <1>3, <2>3
    <3>2. Announced(pairs, s, toolSides[s].prec)
      BY <1>2, <3>1
    <3> QED BY <2>1, <3>1, <3>2
  <2> QED BY <2>2, <2>3
<1>8. ToolPairs'
  BY <1>1, <1>2, <1>3, <1>5, <1>6, <1>7 DEF ToolPairs
<1> QED BY <1>4, <1>8 DEF ToolInv

\* After all of them check_book has the recorder's symbols and precisions.
LEMMA PairsTool ==
  ASSUME ReplayInv, ReadPair, ~(read < Len(pairs))
  PROVE  ToolInv'
<1>1. /\ phase = "pairs" /\ phase' = "book" /\ read' = 0
      /\ UNCHANGED <<thrown, sides, rows, pairs, toolSides, toolThrown>>
  BY DEF ReadPair, vars
<1>2. /\ ~toolThrown /\ read \in 0 .. Len(pairs) /\ Formed(toolSides)
      /\ DOMAIN toolSides = {pairs[i].symbol : i \in 1 .. read}
      /\ \A s \in DOMAIN toolSides :
           /\ Announced(pairs, s, toolSides[s].prec)
           /\ \A sd \in {"bids", "asks"} : toolSides[s][sd] = EmptySide
      /\ Len(pairs) \in Nat /\ Len(rows) \in Nat
  BY <1>1 DEF ReplayInv, ToolInv, ToolPairs, QueueInv, Base, IsSeq
<1>3. Idle' /\ ToolPairs'
  BY <1>1 DEF ReplayInv, ToolInv, Idle, ToolPairs
<1>4. read = Len(pairs)
  BY <1>2
<1>5. DOMAIN toolSides = DOMAIN sides
  <2>1. ASSUME NEW s \in DOMAIN sides PROVE s \in DOMAIN toolSides
    <3>1. PICK i \in 1 .. Len(pairs) : pairs[i].symbol = s
      BY DEF ReplayInv, QueueInv, PairsKnown, Announced
    <3> QED BY <1>2, <1>4, <3>1
  <2>2. ASSUME NEW s \in DOMAIN toolSides PROVE s \in DOMAIN sides
    <3>1. PICK i \in 1 .. Len(pairs) : pairs[i].symbol = s
      BY <1>2, <1>4
    <3> QED BY <3>1 DEF ReplayInv, QueueInv, PairsKnown
  <2> QED BY <2>1, <2>2
<1>6. ASSUME PrecisionsKept, NEW s \in DOMAIN sides
      PROVE  /\ toolSides[s].prec = sides[s].prec
             /\ \A sd \in {"bids", "asks"} : toolSides[s][sd] = Course(sd, s, EmptySide, rows)[0]
  <2>1. Announced(pairs, s, toolSides[s].prec)
    BY <1>2, <1>5
  <2>2. toolSides[s].prec = sides[s].prec
    BY <1>6, <2>1, KeptIs DEF ReplayInv, QueueInv
  <2>3. \A sd \in {"bids", "asks"} : Course(sd, s, EmptySide, rows)[0] = EmptySide
    BY <1>2, CourseIs
  <2> QED BY <1>2, <1>5, <2>2, <2>3
<1>7. PrecisionsKept' => PrecisionsKept
  BY <1>1 DEF PrecisionsKept
<1>8. ToolRows'
  <2>1. Formed(toolSides)'
    BY <1>1, <1>2 DEF Formed
  <2>2. read' \in 0 .. Len(rows')
    BY <1>1, <1>2
  <2> QED BY <1>1, <1>2, <1>5, <1>6, <1>7, <2>1, <2>2 DEF ToolRows
<1> QED BY <1>3, <1>8 DEF ToolInv

\* A row of the book file takes check_book's book one message further, and its
\* checksum agrees.
LEMMA RowTool ==
  ASSUME ReplayInv, ReadRow
  PROVE  ToolInv'
<1> DEFINE row == rows[read + 1]
<1>1. /\ phase = "book" /\ ~toolThrown /\ read < Len(rows) /\ read' = read + 1
      /\ UNCHANGED <<thrown, sides, rows, pairs, phase>>
      /\ Tool!AcceptBook(row.symbol,
                         IF row.type = "snapshot" THEN Tool!AcceptSnapshot(row.symbol, row)
                         ELSE Tool!AcceptUpdate(row.symbol, row), row.crc)
  BY DEF ReadRow, vars
<1>2. Idle' /\ ToolPairs' /\ ~thrown
  BY <1>1 DEF ReplayInv, ToolInv, Idle, ToolPairs
<1>3. PrecisionsKept' => PrecisionsKept
  BY <1>1 DEF PrecisionsKept
<1>4. ToolRows'
  <2> SUFFICES ASSUME PrecisionsKept
               PROVE  /\ ~toolThrown' /\ read + 1 \in 0 .. Len(rows) /\ Formed(toolSides)'
                      /\ DOMAIN toolSides' = DOMAIN sides
                      /\ \A s \in DOMAIN sides :
                           /\ toolSides'[s].prec = sides[s].prec
                           /\ \A sd \in {"bids", "asks"} :
                                toolSides'[s][sd] = Course(sd, s, EmptySide, rows)[read + 1]
    BY <1>1, <1>3 DEF ToolRows
  <2>1. /\ read \in 0 .. Len(rows) /\ Formed(toolSides)
        /\ DOMAIN toolSides = DOMAIN sides
        /\ \A s \in DOMAIN sides :
             /\ toolSides[s].prec = sides[s].prec
             /\ \A sd \in {"bids", "asks"} :
                  toolSides[s][sd] = Course(sd, s, EmptySide, rows)[read]
    BY <1>1 DEF ReplayInv, ToolInv, ToolRows
  <2>2. /\ Len(rows) \in Nat /\ read + 1 \in 1 .. Len(rows) /\ (read + 1) - 1 = read
    <3>1. Len(rows) \in Nat
      BY DEF ReplayInv, QueueInv, Base, IsSeq
    <3> QED BY <1>1, <2>1, <3>1
  <2>3. row.symbol \in DOMAIN toolSides
    BY <2>1, <2>2 DEF ReplayInv, FilesInv, RowsKnown
  <2>4. /\ Formed(toolSides)' /\ DOMAIN toolSides' = DOMAIN toolSides
        /\ \A x \in DOMAIN toolSides : toolSides'[x].prec = toolSides[x].prec
        /\ \A x \in DOMAIN toolSides, sd \in {"bids", "asks"} :
             toolSides'[x][sd] = After(sd, x, toolSides[x][sd], row)
        /\ toolThrown' <=> Crc32(toolSides'[row.symbol].bids, toolSides'[row.symbol].asks,
                                 toolSides[row.symbol].prec) # row.crc
    BY <1>1, <2>1, <2>3, ToolAccepts
  <2>5. ASSUME NEW s \in DOMAIN sides, NEW sd \in {"bids", "asks"}
        PROVE  toolSides'[s][sd] = Course(sd, s, EmptySide, rows)[read + 1]
    <3>1. Course(sd, s, EmptySide, rows)[read + 1]
            = After(sd, s, Course(sd, s, EmptySide, rows)[(read + 1) - 1], rows[read + 1])
      BY <2>2, CourseIs
    <3>2. toolSides'[s][sd] = After(sd, s, toolSides[s][sd], row)
      BY <2>1, <2>4
    <3> QED BY <2>1, <2>2, <3>1, <3>2
  <2>6. ~toolThrown'
    <3> DEFINE x == row.symbol
    <3>1. row.crc = Crc32(Course("bids", x, EmptySide, rows)[read + 1],
                          Course("asks", x, EmptySide, rows)[read + 1], sides[x].prec)
      BY <1>2, <2>2 DEF ReplayInv, FilesInv, RowsChecked
    <3>2. /\ toolSides'[x]["bids"] = Course("bids", x, EmptySide, rows)[read + 1]
          /\ toolSides'[x]["asks"] = Course("asks", x, EmptySide, rows)[read + 1]
      BY <2>1, <2>3, <2>5
    <3>3. toolSides[x].prec = sides[x].prec
      BY <2>1, <2>3
    <3> QED BY <2>4, <3>1, <3>2, <3>3
  <2>7. read + 1 \in 0 .. Len(rows)
    BY <2>2
  <2> QED BY <2>1, <2>4, <2>5, <2>6, <2>7
<1> QED BY <1>2, <1>4 DEF ToolInv

-----------------------------------------------------------------------------
(* The invariant holds, and the properties of the runs with it.             *)

\* Nothing of the recording changes while check_book reads it.
LEMMA RecordingStays ==
  ASSUME QueueInv, FilesInv, UNCHANGED <<vars, queue, rows, pairs>>
  PROVE  QueueInv' /\ FilesInv'
<1>1. UNCHANGED <<venue, listed, synced, sides, refdata, thrown, queue, rows, pairs>>
  BY DEF vars
<1>2. Base'
  BY <1>1 DEF QueueInv, Base, Formed, Current, PrecisionsAgree, IsSeq
<1>3. QueueKnown' /\ PairsKnown' /\ QueueChecked' /\ QueueCatchesUp' /\ RefusesOnlyOvertaken'
  BY <1>1 DEF QueueInv, QueueKnown, PairsKnown, QueueChecked, QueueCatchesUp,
              RefusesOnlyOvertaken
<1>4. PrecisionsKept' <=> PrecisionsKept
  BY <1>1 DEF PrecisionsKept
<1>5. RowsKnown' /\ RowsLead' /\ RowsChecked'
  BY <1>1, <1>4 DEF FilesInv, RowsKnown, RowsLead, RowsChecked
<1> QED BY <1>2, <1>3, <1>5 DEF QueueInv, FilesInv

LEMMA ReadFiles ==
  ASSUME FilesInv, NEW s \in Symbols, ReadBook(s)
  PROVE  FilesInv'
<1>1. UNCHANGED <<sides, thrown, rows, pairs>>
  BY DEF ReadBook
<1>2. PrecisionsKept' <=> PrecisionsKept
  BY <1>1 DEF PrecisionsKept
<1> QED BY <1>1, <1>2 DEF FilesInv, RowsKnown, RowsLead, RowsChecked

LEMMA ReplayStart ==
  ASSUME ReplayInit
  PROVE  ReplayInv
<1>1. /\ venue = [s \in Symbols |-> [bids |-> EmptySide, asks |-> EmptySide]]
      /\ listed \in [Symbols -> Precisions] /\ synced = {}
      /\ sides = [s \in {} |-> 0] /\ refdata = [s \in {} |-> 0] /\ thrown = FALSE
      /\ queue = <<>> /\ rows = <<>> /\ pairs = <<>> /\ phase = "recording" /\ read = 0
      /\ toolSides = [s \in {} |-> 0] /\ toolThrown = FALSE
  BY DEF ReplayInit, Init
<1>2. DOMAIN sides = {}
  BY <1>1
<1>3. Len(queue) = 0 /\ Len(rows) = 0 /\ Len(pairs) = 0
  BY <1>1
<1>4. IsSeq(queue) /\ IsSeq(rows) /\ IsSeq(pairs)
  BY <1>1, <1>3 DEF IsSeq
<1>5. venue \in [Symbols -> Book(Qtys)] /\ Current /\ PrecisionsAgree
  <2>1. BookInv
    BY BookInvInit DEF ReplayInit
  <2> QED BY <2>1 DEF BookInv, TypeOK, Faithful
<1>6. \A s \in Symbols : Expressible(venue[s], listed[s])
  BY <1>1 DEF Expressible, EmptySide
<1>7. Base
  BY <1>1, <1>2, <1>4, <1>5, <1>6 DEF Base, Formed
<1>8. QueueKnown /\ PairsKnown /\ QueueChecked /\ QueueCatchesUp /\ RefusesOnlyOvertaken
  BY <1>1, <1>2, <1>3 DEF QueueKnown, PairsKnown, QueueChecked, QueueCatchesUp,
                          RefusesOnlyOvertaken
<1>9. FilesInv
  BY <1>1, <1>2, <1>3 DEF FilesInv, RowsKnown, RowsLead, RowsChecked
<1>10. ToolInv
  BY <1>1 DEF ToolInv, Idle, ToolPairs, ToolRows
<1> QED BY <1>7, <1>8, <1>9, <1>10 DEF ReplayInv, QueueInv

LEMMA ReplayStep ==
  ASSUME ReplayInv, [ReplayNext]_replayVars
  PROVE  ReplayInv'
<1> USE DEF ReplayInv
<1>1. ASSUME NEW s \in Symbols, AcceptInstrument(s) PROVE ReplayInv'
  <2>1. phase = "recording" /\ UNCHANGED toolVars
    BY <1>1 DEF AcceptInstrument, Recording
  <2> QED BY <1>1, <2>1, InstrumentQueue, InstrumentFiles, RecordingTool
<1>2. ASSUME NEW s \in Symbols, ReadBook(s) PROVE ReplayInv'
  <2>1. phase = "recording" /\ UNCHANGED toolVars
    BY <1>2 DEF ReadBook, Recording
  <2> QED BY <1>2, <2>1, ReadQueue, ReadFiles, RecordingTool
<1>3. CASE Drain
  <2>1. phase = "recording" /\ UNCHANGED toolVars
    BY <1>3 DEF Drain, Recording
  <2> QED BY <1>3, <2>1, DrainQueue, DrainFiles, RecordingTool
<1>4. CASE StopRecording
  <2>1. UNCHANGED <<vars, queue, rows, pairs>>
    BY <1>4 DEF StopRecording
  <2> QED BY <1>4, <2>1, RecordingStays, StopTool
<1>5. CASE ReadPair
  <2>1. UNCHANGED <<vars, queue, rows, pairs>>
    BY <1>5 DEF ReadPair
  <2> QED BY <1>5, <2>1, RecordingStays, PairTool, PairsTool
<1>6. CASE ReadRow
  <2>1. UNCHANGED <<vars, queue, rows, pairs>>
    BY <1>6 DEF ReadRow
  <2> QED BY <1>6, <2>1, RecordingStays, RowTool
<1>7. CASE UNCHANGED replayVars
  <2>1. UNCHANGED <<vars, queue, rows, pairs>> /\ UNCHANGED toolVars
    BY <1>7 DEF replayVars
  <2>2. ToolInv'
    <3>1. UNCHANGED <<sides, rows, pairs, thrown, phase, read, toolSides, toolThrown>>
      BY <2>1 DEF vars, toolVars
    <3>2. PrecisionsKept' <=> PrecisionsKept
      BY <3>1 DEF PrecisionsKept
    <3> QED BY <3>1, <3>2 DEF ToolInv, Idle, ToolPairs, ToolRows, Formed, Announced
  <2> QED BY <2>1, <2>2, RecordingStays
<1> QED BY <1>1, <1>2, <1>3, <1>4, <1>5, <1>6, <1>7 DEF ReplayNext

\* Once check_book has read every row it has every book the recorder had.
LEMMA ReplayEnds ==
  ASSUME ReplayInv
  PROVE  ReplayReproduces
<1> SUFFICES ASSUME PrecisionsKept
             PROVE  ~toolThrown /\ (phase = "book" /\ read = Len(rows) => toolSides = sides)
  BY DEF ReplayReproduces
<1>1. ~toolThrown
  BY DEF ReplayInv, ToolInv, Idle, ToolPairs, ToolRows
<1>2. ASSUME phase = "book", read = Len(rows) PROVE toolSides = sides
  <2>1. /\ Formed(toolSides) /\ DOMAIN toolSides = DOMAIN sides
        /\ \A s \in DOMAIN sides :
             /\ toolSides[s].prec = sides[s].prec
             /\ \A sd \in {"bids", "asks"} :
                  toolSides[s][sd] = Course(sd, s, EmptySide, rows)[Len(rows)]
    BY <1>2 DEF ReplayInv, ToolInv, ToolRows
  <2>2. /\ Formed(sides)
        /\ \A s \in DOMAIN sides, sd \in {"bids", "asks"} :
             Course(sd, s, EmptySide, rows)[Len(rows)] = sides[s][sd]
    BY DEF ReplayInv, QueueInv, FilesInv, Base, RowsLead
  <2>3. ASSUME NEW s \in DOMAIN sides PROVE toolSides[s] = sides[s]
    <3>1. toolSides[s]["bids"] = sides[s]["bids"] /\ toolSides[s]["asks"] = sides[s]["asks"]
          /\ toolSides[s].prec = sides[s].prec
      BY <2>1, <2>2
    <3> QED BY <2>1, <2>2, <3>1 DEF Formed
  <2> QED BY <2>1, <2>2, <2>3 DEF Formed
<1> QED BY <1>1, <1>2

THEOREM ReplayInvCorrect == ReplaySpec => []ReplayInv
<1>1. ReplayInit => ReplayInv
  BY ReplayStart
<1>2. ReplayInv /\ [ReplayNext]_replayVars => ReplayInv'
  BY ReplayStep
<1> QED BY <1>1, <1>2, PTL DEF ReplaySpec

\* However far the process timer is behind the network, the messages in
\* m_book_responses lead from the recorder's book to the venue's.
THEOREM QueueCatchesUpCorrect == ReplaySpec => []QueueCatchesUp
<1>1. ReplayInv => QueueCatchesUp
  BY DEF ReplayInv, QueueInv
<1> QED BY <1>1, ReplayInvCorrect, PTL

\* The checksum of level_book.accept refuses no message of a sound venue unless
\* the precision of its pair changed while it was in the queue.
THEOREM RefusesOnlyOvertakenCorrect == ReplaySpec => []RefusesOnlyOvertaken
<1>1. ReplayInv => RefusesOnlyOvertaken
  BY DEF ReplayInv, QueueInv
<1> QED BY <1>1, ReplayInvCorrect, PTL

\* From the pairs file and the book file of a recording in which no pair changed
\* its precision, check_book rebuilds every book the recorder had, and every
\* checksum on the way agrees.
THEOREM ReplayReproducesCorrect == ReplaySpec => []ReplayReproduces
<1>1. ReplayInv => ReplayReproduces
  BY ReplayEnds
<1> QED BY <1>1, ReplayInvCorrect, PTL
=============================================================================
