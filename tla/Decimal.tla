------------------------------ MODULE Decimal ------------------------------
(***************************************************************************)
(* decimal_t (include/decimal.hpp, src/decimal.cpp): a number kept as the  *)
(* characters it was received in, compared, printed and fed to the         *)
(* checksum without ever being converted.                                  *)
(*                                                                         *)
(* An object holds a buffer of MaxChars characters, filled with zeros, and *)
(* a view of its start.  str_view is const but writes a point into the     *)
(* buffer, just behind a view that has none.  The view of a zero that was  *)
(* parsed is of a static "0.0" instead; a copy of it is a view of the      *)
(* same length of the copy's own buffer.                                   *)
(*                                                                         *)
(* A digit is the character of its value; `exact` is the number each       *)
(* object's text stands for, in units of 10^-Scale.                        *)
(***************************************************************************)
EXTENDS Integers, Numbers, SequencesExt

\* Scale bounds the digits of a fraction.
CONSTANTS
  MaxChars,   \* c_max_num_chars
  Wrap,       \* 2^64, what uint64_t counts modulo
  IntDigits,  \* bound: digits of an integer part
  Digit,      \* the digits that occur
  Tails,      \* what may follow the number in its token, a set of sequences
  Slots       \* the objects

Point == 10
Exponent == 11
Blank == 12
Zero == 0

ASSUME DecimalAssumption ==
  /\ IntDigits \in Nat \ {0} /\ Wrap \in Nat \ {0}
  /\ Digit \subseteq 0 .. 9
  /\ Tails \subseteq Seq({Exponent, Blank} \cup 0 .. 9)
  \* The longest text fits, and so does what str_view makes of it or of "0.0".
  /\ MaxChars \in Nat /\ IntDigits + Scale + 1 <= MaxChars /\ Scale + 4 <= MaxChars

VARIABLES
  objs,   \* the objects that exist
  exact   \* history: the number of each object's text

vars == <<objs, exact>>

IsDigit(ch) == ch \in 0 .. 9

-----------------------------------------------------------------------------
(* Parts of a view.                                                         *)

HasPoint(view) == Point \in Range(view)

\* The position of the point, just behind the view if it has none.
PointAt(view) ==
  IF HasPoint(view) THEN CHOOSE i \in DOMAIN view : view[i] = Point ELSE Len(view) + 1

IntPart(view) == SubSeq(view, 1, PointAt(view) - 1)
FracPart(view) == SubSeq(view, PointAt(view) + 1, Len(view))

Value(digits) ==
  LET value[i \in 0 .. Len(digits)] ==
        IF i = 0 THEN 0 ELSE 10 * value[i - 1] + digits[i]
  IN  value[Len(digits)]

ToInt(digits) == Value(digits) % Wrap

IsZero(view) == ToInt(IntPart(view)) = 0 /\ ToInt(FracPart(view)) = 0

-----------------------------------------------------------------------------
(* The constructor.                                                         *)

\* One character of the text.  A zero before the first digit counts only if it
\* is the last character or a point follows.
ParseChar(acc, text, i) ==
  LET ch == text[i]
      keep(state) == [out |-> Append(acc.out, ch), state |-> state]
      skip(state) == [acc EXCEPT !.state = state]
  IN  CASE acc.state = "before_digit" ->
             IF ~IsDigit(ch) THEN acc
             ELSE IF ch # Zero THEN keep("before_decimal")
             ELSE IF i = Len(text) THEN keep("after_value")
             ELSE IF text[i + 1] = Point THEN keep("before_decimal") ELSE acc
        [] acc.state = "before_decimal" ->
             IF IsDigit(ch) THEN keep("before_decimal")
             ELSE IF ch = Point THEN keep("after_decimal") ELSE skip("invalid")
        [] acc.state = "after_decimal" ->
             IF IsDigit(ch) THEN keep("after_decimal") ELSE skip("after_value")
        [] OTHER -> acc

ParseText(text) ==
  LET after[i \in 0 .. Len(text)] ==
        IF i = 0 THEN [out |-> <<>>, state |-> "before_digit"]
        ELSE ParseChar(after[i - 1], text, i)
  IN  after[Len(text)]

Throws(text) == Len(text) > MaxChars \/ ParseText(text).state = "invalid"

\* The length of a view without the zeros that end its fraction, nor a bare point.
Trimmed(view) ==
  IF ~HasPoint(view) THEN Len(view)
  ELSE LET last == CHOOSE i \in PointAt(view) .. Len(view) :
                     view[i] # Zero /\ \A j \in i + 1 .. Len(view) : view[j] = Zero
       IN  IF last = PointAt(view) THEN last - 1 ELSE last

\* A variant that does not fill the buffer first.
ParseUnfilled(text) ==
  LET out == ParseText(text).out
  IN  IF IsZero(out) THEN [chars |-> [i \in 1 .. MaxChars |-> Zero], size |-> 3, own |-> FALSE]
      ELSE [chars |-> [i \in 1 .. MaxChars |-> IF i <= Len(out) THEN out[i] ELSE 9],
            size |-> Trimmed(out), own |-> TRUE]

\* The object: `own` says that its view is of its own buffer.
Parse(text) ==
  LET out   == ParseText(text).out
      chars == [i \in 1 .. MaxChars |-> IF i <= Len(out) THEN out[i] ELSE Zero]
  IN  IF IsZero(out) THEN [chars |-> chars, size |-> 3, own |-> FALSE]
      ELSE [chars |-> chars, size |-> Trimmed(out), own |-> TRUE]

\* The copy and move constructors, and the assignment.
CopyOf(d) == [d EXCEPT !.own = TRUE]

View(d) == IF d.own THEN SubSeq(d.chars, 1, d.size) ELSE <<Zero, Point, Zero>>

-----------------------------------------------------------------------------
(* Comparison: -1, 0 or 1.                                                  *)

Sign(m, n) == IF m < n THEN -1 ELSE IF m > n THEN 1 ELSE 0

\* A digit of a fraction, which goes on with zeros.
DigitAt(frac, i) == IF i <= Len(frac) THEN frac[i] ELSE Zero

\* A variant that compares the fractions as integers, whatever their lengths.
CompareFracsAsInts(d, e) ==
  IF ToInt(IntPart(View(d))) # ToInt(IntPart(View(e)))
  THEN Sign(ToInt(IntPart(View(d))), ToInt(IntPart(View(e))))
  ELSE Sign(ToInt(FracPart(View(d))), ToInt(FracPart(View(e))))

\* operator<=>: the integer parts, then the fractions digit by digit, the
\* shorter one continued with zeros.
Compare(d, e) ==
  LET f == FracPart(View(d))
      g == FracPart(View(e))
      size == IF Len(f) > Len(g) THEN Len(f) ELSE Len(g)
      result[i \in 0 .. size] ==
        IF i = 0 THEN Sign(ToInt(IntPart(View(d))), ToInt(IntPart(View(e))))
        ELSE IF result[i - 1] # 0 THEN result[i - 1]
        ELSE Sign(DigitAt(f, i), DigitAt(g, i))
  IN  result[size]

-----------------------------------------------------------------------------
(* Printing and the checksum.                                               *)

Zeros(n) == [i \in 1 .. n |-> Zero]

\* A variant that cuts one digit too many.
StrCutShort(d, precision) ==
  LET view == View(d)
  IN  IF HasPoint(view) /\ Len(view) >= PointAt(view) + precision
      THEN SubSeq(view, 1, PointAt(view) + precision - 1)
      ELSE view \o IF HasPoint(view) THEN <<>> ELSE <<Point>>

\* str(precision): digits are cut off, never rounded.
Str(d, precision) ==
  LET view  == View(d)
      after == Len(view) - PointAt(view)
  IN  IF ~HasPoint(view) THEN Append(view, Point) \o Zeros(precision)
      ELSE IF precision > after THEN view \o Zeros(precision - after)
      ELSE SubSeq(view, 1, PointAt(view) + precision)

\* The object after str_view, which writes a point behind a view without one.
Marked(d) ==
  IF HasPoint(View(d)) THEN d ELSE [d EXCEPT !.chars[d.size + 1] = Point]

\* str_view(precision) of an object whose view is of its own buffer.
StrView(d, precision) ==
  SubSeq(Marked(d).chars, 1, PointAt(View(d)) + precision)

\* One character of process.
FeedChar(acc, ch, precision) ==
  IF acc.trailing /\ acc.count >= precision THEN acc
  ELSE IF IsDigit(ch) /\ (acc.fed # <<>> \/ ch # Zero)
  THEN [acc EXCEPT !.fed = Append(@, ch),
                   !.count = IF acc.trailing /\ acc.fed # <<>> THEN @ + 1 ELSE @]
  ELSE [acc EXCEPT !.trailing = @ \/ ch = Point]

\* process: the digits fed to the checksum, without the zeros in front.
Process(d, precision) ==
  LET chars == StrView(d, precision)
      after[i \in 0 .. Len(chars)] ==
        IF i = 0 THEN [fed |-> <<>>, trailing |-> FALSE, count |-> 0]
        ELSE FeedChar(after[i - 1], chars[i], precision)
  IN  after[Len(chars)].fed

-----------------------------------------------------------------------------
(* Texts, and the numbers they stand for.                                   *)

Runs(n) == UNION {[1 .. k -> Digit] : k \in n .. IF n = 0 THEN Scale ELSE IntDigits}

\* Parts of a text; a bare point is what str(0) prints.
Texts == [int : Runs(1), frac : Runs(0), point : BOOLEAN, suffix : Tails]

Chars(text) ==
  text.int \o (IF text.point THEN <<Point>> \o text.frac ELSE <<>>) \o text.suffix

WellFormed(text) == text.point \/ text.frac = <<>>

\* ... in exponent notation too.
Number(text) ==
  Value(text.int \o text.frac \o Zeros(Scale - Len(text.frac)))
  * IF Len(text.suffix) = 2 /\ text.suffix[1] = Exponent THEN 10 ^ text.suffix[2] ELSE 1

-----------------------------------------------------------------------------
(* The life of an object: constructed, copied, fed to the checksum.         *)

Holding(slot, d, number) ==
  /\ objs' = [s \in DOMAIN objs \cup {slot} |-> IF s = slot THEN d ELSE objs[s]]
  /\ exact' = [s \in DOMAIN objs \cup {slot} |-> IF s = slot THEN number ELSE exact[s]]

Init == objs = [s \in {} |-> 0] /\ exact = [s \in {} |-> 0]

\* extract_decimal and the replay tool's extract.  A constructor that throws,
\* as for an integer with a blank behind it, makes no object.
Construct(slot, text) ==
  /\ ~Throws(Chars(text))
  /\ Holding(slot, Parse(Chars(text)), Number(text))

Assign(slot, from) == Holding(slot, CopyOf(objs[from]), exact[from])

\* Only the copies that the maps of a level book hold are fed to a checksum.
Feed(slot) ==
  /\ objs[slot].own
  /\ objs' = [objs EXCEPT ![slot] = Marked(@)]
  /\ UNCHANGED exact

Next ==
  \/ \E text \in {t \in Texts : WellFormed(t)} :
       \E slot \in Slots : Construct(slot, text)
  \/ \E from \in DOMAIN objs : Feed(from) \/ \E slot \in Slots : Assign(slot, from)

Spec == Init /\ [][Next]_vars

-----------------------------------------------------------------------------
(* Properties.                                                              *)

\* The parts of the number are below 2^64, as to_int (src/decimal.cpp:10) needs.
Fits(n) == n \div Unit(0) < Wrap /\ n % Unit(0) < Wrap

\* operator<=> (src/decimal.cpp:23) orders texts as their numbers, whatever
\* zeros they carry, copied or not, fed to a checksum or not: levels of a book
\* are found by it, and a quantity is recognised as zero by it.
OrderAgrees ==
  \A s, t \in DOMAIN objs :
    Fits(exact[s]) /\ Fits(exact[t]) => Compare(objs[s], objs[t]) = Sign(exact[s], exact[t])

\* process (src/decimal.cpp:119) feeds the digits of the number at the
\* precision, although str_view reads past the view and writes behind it: what
\* lies there after parsing, copies and earlier checksums must be zeros.
StreamAgrees ==
  \A s \in DOMAIN objs, p \in 0 .. Scale :
    objs[s].own /\ Fits(exact[s]) => Process(objs[s], p) = Shown(exact[s], p)

\* What str (src/decimal.cpp:74) prints into a row, decimal_t's constructor
\* (include/decimal.hpp:77) reads back as the number cut off at the precision:
\* the replay tool works with the recorder's numbers.
RowsReadBack ==
  \A s \in DOMAIN objs, p \in 0 .. Scale :
    LET text == Str(objs[s], p)
    IN  Fits(exact[s]) =>
          /\ ~Throws(text)
          /\ Compare(Parse(text), objs[s]) = Sign(Cut(exact[s], p), exact[s])
          /\ Process(CopyOf(Parse(text)), p) = Shown(Cut(exact[s], p), p)

\* A number is worth what its text says, in exponent notation too: the book of
\* test/unit/response_test.cpp:34 has "qty":0E0, and its values must be those
\* of the JSON (:45).
NumbersRead ==
  \A s \in DOMAIN objs :
    objs[s].own /\ Fits(exact[s]) => Process(objs[s], Scale) = Shown(exact[s], Scale)
=============================================================================
