----------------------------- MODULE FeedProofs -----------------------------
(***************************************************************************)
(* The order of the venue's feed in Recorder's rows: the invariants here   *)
(* follow each message from the venue through the wire and the queue to    *)
(* the files, for any number of symbols and messages and any set of        *)
(* faults.                                                                 *)
(***************************************************************************)
EXTENDS RecorderProofs

-----------------------------------------------------------------------------
(* The feed's numbers on the wire.                                          *)

\* The numbers a message of the channel carries.
Numbers(ch, m) ==
  IF m.ch # ch THEN {}
  ELSE IF ch = "book" THEN {m.id} ELSE {m.trades[i].id : i \in DOMAIN m.trades}

\* The channel's messages among w continue, in order and without a gap, the first
\* `got` of the `out` numbers sent.
InFeed(ch, w, got, out) ==
  /\ got <= out
  /\ \A i, j \in DOMAIN w : i < j =>
       \A x \in Numbers(ch, w[i]), y \in Numbers(ch, w[j]) : x < y
  /\ \A i \in DOMAIN w : \A x \in Numbers(ch, w[i]) :
       /\ x \in got + 1 .. out
       /\ \A n \in got + 1 .. x : \E k \in DOMAIN w : n \in Numbers(ch, w[k])

\* None of them is missing at the end, either.
Whole(ch, w, got, out) ==
  \A n \in got + 1 .. out : \E k \in DOMAIN w : n \in Numbers(ch, w[k])

\* The trades of one message are numbered from one number on.
InStep(m) == m.ch = "trade" => \E n \in Nat : \A i \in DOMAIN m.trades : m.trades[i].id = n + i

LEMMA FeedAppendOther ==
  ASSUME NEW ch, NEW w \in Seq(Msg), NEW m \in Msg, Numbers(ch, m) = {},
         NEW got \in Nat, NEW out \in Nat, InFeed(ch, w, got, out)
  PROVE  /\ InFeed(ch, Append(w, m), got, out)
         /\ Whole(ch, w, got, out) => Whole(ch, Append(w, m), got, out)
<1> DEFINE v == Append(w, m)
<1>1. /\ DOMAIN w = 1 .. Len(w) /\ Len(w) \in Nat /\ DOMAIN v = 1 .. Len(w) + 1
      /\ \A i \in 1 .. Len(w) + 1 : v[i] = IF i <= Len(w) THEN w[i] ELSE m
  BY LenProperties
<1> HIDE DEF v
<1>2. \A i \in DOMAIN v : Numbers(ch, v[i]) # {} => i \in DOMAIN w /\ v[i] = w[i]
  BY <1>1
<1>3. \A i \in DOMAIN w : i \in DOMAIN v /\ v[i] = w[i]
  BY <1>1
<1>4. InFeed(ch, v, got, out)
  BY <1>2, <1>3 DEF InFeed
<1>5. Whole(ch, w, got, out) => Whole(ch, v, got, out)
  BY <1>3 DEF Whole
<1>6. QED
  BY <1>4, <1>5 DEF v

LEMMA FeedAppend ==
  ASSUME NEW ch, NEW w \in Seq(Msg), NEW m \in Msg, NEW got \in Nat, NEW out \in Nat,
         NEW n \in Nat, Numbers(ch, m) = out + 1 .. out + n,
         InFeed(ch, w, got, out), Whole(ch, w, got, out)
  PROVE  InFeed(ch, Append(w, m), got, out + n) /\ Whole(ch, Append(w, m), got, out + n)
<1> DEFINE v == Append(w, m)
<1>1. /\ DOMAIN w = 1 .. Len(w) /\ Len(w) \in Nat /\ DOMAIN v = 1 .. Len(w) + 1
      /\ \A i \in 1 .. Len(w) + 1 : v[i] = IF i <= Len(w) THEN w[i] ELSE m
  BY LenProperties
<1> HIDE DEF v
<1>2. \A i \in DOMAIN w : i \in DOMAIN v /\ v[i] = w[i]
  BY <1>1
<1>3. Len(w) + 1 \in DOMAIN v /\ v[Len(w) + 1] = m
  BY <1>1
<1>4. Whole(ch, v, got, out + n)
  <2> SUFFICES ASSUME NEW x \in got + 1 .. out + n
               PROVE  \E k \in DOMAIN v : x \in Numbers(ch, v[k])
    BY DEF Whole
  <2>1. CASE x <= out
    BY <1>2, <2>1 DEF Whole
  <2>2. CASE ~(x <= out)
    <3>1. x \in Numbers(ch, m)
      BY <2>2
    <3>2. QED  BY <1>3, <3>1
  <2>3. QED  BY <2>1, <2>2
<1>5. ASSUME NEW i \in DOMAIN v, NEW x \in Numbers(ch, v[i])
      PROVE  x \in got + 1 .. out + n
  <2>1. CASE i <= Len(w)
    <3>1. i \in DOMAIN w /\ v[i] = w[i]
      BY <1>1, <2>1
    <3>2. x \in got + 1 .. out
      BY <1>5, <3>1 DEF InFeed
    <3>3. QED  BY <3>2
  <2>2. CASE ~(i <= Len(w))
    <3>1. x \in out + 1 .. out + n /\ got <= out
      BY <1>1, <1>5, <2>2 DEF InFeed
    <3>2. QED  BY <3>1
  <2>3. QED  BY <2>1, <2>2
<1>6. ASSUME NEW i \in DOMAIN v, NEW j \in DOMAIN v, i < j,
             NEW x \in Numbers(ch, v[i]), NEW y \in Numbers(ch, v[j])
      PROVE  x < y
  <2>1. i \in DOMAIN w /\ v[i] = w[i]
    BY <1>1, <1>6
  <2>2. CASE j <= Len(w)
    <3>1. j \in DOMAIN w /\ v[j] = w[j]
      BY <1>1, <2>2
    <3>2. QED  BY <1>6, <2>1, <3>1 DEF InFeed
  <2>3. CASE ~(j <= Len(w))
    <3>1. y \in out + 1 .. out + n
      BY <1>1, <1>6, <2>3
    <3>2. x \in got + 1 .. out
      BY <1>6, <2>1 DEF InFeed
    <3>3. QED  BY <3>1, <3>2
  <2>4. QED  BY <2>2, <2>3
<1>7. ASSUME NEW i \in DOMAIN v, NEW x \in Numbers(ch, v[i]), NEW z \in got + 1 .. x
      PROVE  \E k \in DOMAIN v : z \in Numbers(ch, v[k])
  <2>1. z \in got + 1 .. out + n
    BY <1>5
  <2>2. QED  BY <1>4, <2>1 DEF Whole
<1>8. got <= out + n
  BY DEF InFeed
<1>9. InFeed(ch, v, got, out + n)
  BY <1>5, <1>6, <1>7, <1>8 DEF InFeed
<1>10. QED
  BY <1>4, <1>9 DEF v

LEMMA FeedTailOther ==
  ASSUME NEW ch, NEW w \in Seq(Msg), w # <<>>, Numbers(ch, Head(w)) = {},
         NEW got \in Nat, NEW out \in Nat, InFeed(ch, w, got, out)
  PROVE  /\ InFeed(ch, Tail(w), got, out)
         /\ Whole(ch, w, got, out) => Whole(ch, Tail(w), got, out)
<1> DEFINE v == Tail(w)
<1>1. /\ DOMAIN w = 1 .. Len(w) /\ Len(w) \in Nat /\ DOMAIN v = 1 .. Len(w) - 1
      /\ \A i \in 1 .. Len(w) - 1 : v[i] = w[i + 1] /\ Head(w) = w[1]
  BY LenProperties
<1> HIDE DEF v
<1>2. \A i \in DOMAIN v : i + 1 \in DOMAIN w /\ v[i] = w[i + 1]
  BY <1>1
<1>3. \A k \in DOMAIN w : Numbers(ch, w[k]) # {} => k - 1 \in DOMAIN v /\ v[k - 1] = w[k]
  <2> SUFFICES ASSUME NEW k \in DOMAIN w, Numbers(ch, w[k]) # {}
               PROVE  k - 1 \in DOMAIN v /\ v[k - 1] = w[k]
    OBVIOUS
  <2>1. k # 1
    BY HeadTailProperties
  <2>2. k - 1 \in 1 .. Len(w) - 1 /\ (k - 1) + 1 = k
    BY <1>1, <2>1
  <2>3. QED  BY <1>1, <2>2
<1>4. \A x, k : k \in DOMAIN w /\ x \in Numbers(ch, w[k]) => \E j \in DOMAIN v : x \in Numbers(ch, v[j])
  BY <1>3
<1>5. ASSUME NEW i \in DOMAIN v, NEW j \in DOMAIN v, i < j,
             NEW x \in Numbers(ch, v[i]), NEW y \in Numbers(ch, v[j])
      PROVE  x < y
  <2>1. i + 1 \in DOMAIN w /\ j + 1 \in DOMAIN w /\ v[i] = w[i + 1] /\ v[j] = w[j + 1] /\ i + 1 < j + 1
    BY <1>1, <1>2, <1>5
  <2>2. QED  BY <1>5, <2>1 DEF InFeed
<1>6. ASSUME NEW i \in DOMAIN v, NEW x \in Numbers(ch, v[i])
      PROVE  /\ x \in got + 1 .. out
             /\ \A z \in got + 1 .. x : \E k \in DOMAIN v : z \in Numbers(ch, v[k])
  <2>1. i + 1 \in DOMAIN w /\ v[i] = w[i + 1]
    BY <1>2
  <2>2. /\ x \in got + 1 .. out
        /\ \A z \in got + 1 .. x : \E k \in DOMAIN w : z \in Numbers(ch, w[k])
    BY <1>6, <2>1 DEF InFeed
  <2>3. QED  BY <1>4, <2>2
<1>7. InFeed(ch, v, got, out)
  BY <1>5, <1>6 DEF InFeed
<1>8. Whole(ch, w, got, out) => Whole(ch, v, got, out)
  BY <1>4 DEF Whole
<1>9. QED
  BY <1>7, <1>8 DEF v

\* The first message of w carries the next numbers.
LEMMA FeedTail ==
  ASSUME NEW ch, NEW w \in Seq(Msg), w # <<>>, NEW got \in Nat, NEW out \in Nat,
         NEW a \in Nat, NEW n \in Nat, n > 0, Numbers(ch, Head(w)) = a + 1 .. a + n,
         InFeed(ch, w, got, out)
  PROVE  /\ a = got
         /\ InFeed(ch, Tail(w), got + n, out)
         /\ Whole(ch, w, got, out) => Whole(ch, Tail(w), got + n, out)
<1> DEFINE v == Tail(w)
<1>1. /\ DOMAIN w = 1 .. Len(w) /\ Len(w) \in Nat /\ Len(w) >= 1 /\ DOMAIN v = 1 .. Len(w) - 1
      /\ \A i \in 1 .. Len(w) - 1 : v[i] = w[i + 1]
  BY LenProperties, EmptySeq
<1>2. Head(w) = w[1] /\ 1 \in DOMAIN w
  BY <1>1
<1> HIDE DEF v
<1>3. a + 1 \in Numbers(ch, w[1]) /\ a + n \in Numbers(ch, w[1])
  BY <1>2
<1>4. a + 1 \in got + 1 .. out /\ a + n \in got + 1 .. out
  BY <1>2, <1>3 DEF InFeed
<1>5. \A i \in DOMAIN v : i + 1 \in DOMAIN w /\ v[i] = w[i + 1] /\ 1 < i + 1
  BY <1>1
<1>6. \A j \in DOMAIN w : j # 1 => j - 1 \in DOMAIN v /\ v[j - 1] = w[j]
  <2> SUFFICES ASSUME NEW j \in DOMAIN w, j # 1 PROVE j - 1 \in DOMAIN v /\ v[j - 1] = w[j]
    OBVIOUS
  <2>1. j - 1 \in 1 .. Len(w) - 1 /\ (j - 1) + 1 = j
    BY <1>1
  <2>2. QED  BY <1>1, <2>1
<1>7. a = got
  <2>1. got + 1 \in got + 1 .. a + 1
    BY <1>4
  <2>2. PICK k \in DOMAIN w : got + 1 \in Numbers(ch, w[k])
    BY <1>2, <1>3, <2>1 DEF InFeed
  <2>3. CASE k = 1
    <3>1. got + 1 \in a + 1 .. a + n
      BY <1>2, <2>2, <2>3
    <3>2. QED  BY <1>4, <3>1
  <2>4. CASE k # 1
    <3>1. 1 < k
      BY <1>1, <2>4
    <3>2. a + 1 < got + 1
      BY <1>2, <1>3, <2>2, <3>1 DEF InFeed
    <3>3. QED  BY <1>4, <3>2
  <2>5. QED  BY <2>3, <2>4
<1>8. Numbers(ch, w[1]) = got + 1 .. got + n
  BY <1>2, <1>7
<1>9. ASSUME NEW z \in Int, z > got + n, NEW k \in DOMAIN w, z \in Numbers(ch, w[k])
      PROVE  \E j \in DOMAIN v : z \in Numbers(ch, v[j])
  <2>1. k # 1
    BY <1>8, <1>9
  <2>2. QED  BY <1>6, <1>9, <2>1
<1>10. ASSUME NEW i \in DOMAIN v, NEW x \in Numbers(ch, v[i])
       PROVE  /\ x \in got + n + 1 .. out
              /\ \A z \in got + n + 1 .. x : \E k \in DOMAIN v : z \in Numbers(ch, v[k])
  <2>1. i + 1 \in DOMAIN w /\ x \in Numbers(ch, w[i + 1]) /\ 1 < i + 1
    BY <1>5, <1>10
  <2>2. /\ x \in got + 1 .. out
        /\ \A z \in got + 1 .. x : \E k \in DOMAIN w : z \in Numbers(ch, w[k])
    BY <2>1 DEF InFeed
  <2>3. a + n < x
    BY <1>2, <1>3, <2>1 DEF InFeed
  <2>4. x \in got + n + 1 .. out
    BY <1>7, <2>2, <2>3
  <2>5. ASSUME NEW z \in got + n + 1 .. x
        PROVE  \E k \in DOMAIN v : z \in Numbers(ch, v[k])
    <3>1. z \in Int /\ z > got + n /\ z \in got + 1 .. x
      BY <2>4, <2>5
    <3>2. QED  BY <1>9, <2>2, <3>1
  <2>6. QED  BY <2>4, <2>5
<1>11. ASSUME NEW i \in DOMAIN v, NEW j \in DOMAIN v, i < j,
              NEW x \in Numbers(ch, v[i]), NEW y \in Numbers(ch, v[j])
       PROVE  x < y
  <2>1. i + 1 \in DOMAIN w /\ j + 1 \in DOMAIN w /\ v[i] = w[i + 1] /\ v[j] = w[j + 1] /\ i + 1 < j + 1
    BY <1>1, <1>5, <1>11
  <2>2. QED  BY <1>11, <2>1 DEF InFeed
<1>12. got + n <= out
  BY <1>4, <1>7
<1>13. InFeed(ch, v, got + n, out)
  BY <1>10, <1>11, <1>12 DEF InFeed
<1>14. ASSUME Whole(ch, w, got, out)
       PROVE  Whole(ch, v, got + n, out)
  <2> SUFFICES ASSUME NEW z \in got + n + 1 .. out
               PROVE  \E k \in DOMAIN v : z \in Numbers(ch, v[k])
    BY DEF Whole
  <2>1. z \in Int /\ z > got + n /\ z \in got + 1 .. out
    OBVIOUS
  <2>2. QED  BY <1>9, <1>14, <2>1 DEF Whole
<1>15. QED
  BY <1>7, <1>13, <1>14 DEF v

\* What is lost with the connection is the end of the wire.
LEMMA FeedPrefix ==
  ASSUME NEW ch, NEW w \in Seq(Msg), NEW got \in Nat, NEW out \in Nat, NEW n \in 0 .. Len(w),
         InFeed(ch, w, got, out)
  PROVE  InFeed(ch, SubSeq(w, 1, n), got, out)
<1> DEFINE v == SubSeq(w, 1, n)
<1>1. /\ DOMAIN w = 1 .. Len(w) /\ Len(w) \in Nat /\ DOMAIN v = 1 .. n
      /\ \A i \in 1 .. n : v[i] = w[i]
  BY LenProperties
<1> HIDE DEF v
<1>2. \A i \in DOMAIN v : i \in DOMAIN w /\ v[i] = w[i]
  BY <1>1
<1>3. ASSUME NEW i \in DOMAIN v, NEW x \in Numbers(ch, v[i]), NEW z \in got + 1 .. x
      PROVE  \E k \in DOMAIN v : z \in Numbers(ch, v[k])
  <2>1. x \in Numbers(ch, w[i]) /\ i \in DOMAIN w
    BY <1>2, <1>3
  <2>2. PICK k \in DOMAIN w : z \in Numbers(ch, w[k])
    BY <2>1 DEF InFeed
  <2>3. ~(i < k)
    <3>1. SUFFICES ASSUME i < k PROVE FALSE
      OBVIOUS
    <3>2. x < z /\ x \in got + 1 .. out
      BY <2>1, <2>2, <3>1 DEF InFeed
    <3>3. QED  BY <3>2
  <2>4. k \in DOMAIN v
    BY <1>1, <2>2, <2>3
  <2>5. QED  BY <1>2, <2>2, <2>4
<1>4. InFeed(ch, v, got, out)
  BY <1>2, <1>3 DEF InFeed
<1>5. QED
  BY <1>4 DEF v

-----------------------------------------------------------------------------
(* What the venue sends.                                                    *)

\* A pair changes before anything was announced.
ChangesSilently ==
  /\ sent["snapshot"] = 0 /\ wire' = wire /\ sent' = sent
  /\ \A s \in Symbols : listed'[s] >= listed[s]

\* An instrument message tells what is now listed of the pairs it names.
Announces(m) ==
  /\ m \in InstrumentMsg /\ wire' = Append(wire, m)
  /\ sent'["book"] = sent["book"] /\ sent'["trade"] = sent["trade"] /\ sent'["snapshot"] > 0
  /\ \A s \in Symbols :
       /\ s \in DOMAIN m.pairs => m.pairs[s] = listed'[s]
       /\ s \notin DOMAIN m.pairs => listed'[s] = listed[s]
       /\ listed'[s] >= listed[s]

SendsBook(m) ==
  /\ m \in BookMsg /\ wire' = Append(wire, m) /\ listed' = listed
  /\ sent'["book"] = sent["book"] + 1 /\ sent'["trade"] = sent["trade"]
  /\ sent'["snapshot"] = sent["snapshot"]
  /\ m.id = sent["book"] + 1 /\ m.prec = listed[m.sym]
  /\ m.ok \/ "corrupt" \in Faults

SendsTrades(m) ==
  /\ m \in TradeMsg /\ wire' = Append(wire, m) /\ listed' = listed
  /\ sent'["book"] = sent["book"] /\ sent'["trade"] = sent["trade"] + Len(m.trades)
  /\ sent'["snapshot"] = sent["snapshot"]
  /\ \A i \in DOMAIN m.trades :
       m.trades[i].id = sent["trade"] + i /\ m.trades[i].prec = listed[m.trades[i].sym]

SendsOther(m) ==
  /\ m \in OtherMsg /\ wire' = Append(wire, m) /\ listed' = listed
  /\ sent'["book"] = sent["book"] /\ sent'["trade"] = sent["trade"]
  /\ sent'["snapshot"] = sent["snapshot"]

VenueSends ==
  \/ ChangesSilently
  \/ \E m : Announces(m) \/ SendsBook(m) \/ SendsTrades(m) \/ SendsOther(m)

LEMMA SendCounts ==
  ASSUME VenueTypeOK, NEW k \in Kinds, NEW m, NEW n \in Nat, Send(k, m, n)
  PROVE  /\ wire' = Append(wire, m)
         /\ \A j \in Kinds : sent'[j] = IF j = k THEN sent[k] + n ELSE sent[j]
BY DEF Send, VenueTypeOK

LEMMA VenueStepSends ==
  ASSUME TypeOK, VenueStep
  PROVE  VenueSends
<1>1. /\ VenueTypeOK
      /\ listed \in [Symbols -> 0 .. MaxPrecision] /\ wire \in Seq(Msg)
      /\ sent \in [Kinds -> Nat] /\ MaxPrecision \in Nat /\ MaxSent \in [Kinds -> Nat]
  BY VenueAssumption DEF VenueTypeOK, TypeOK
<1>2. {"snapshot", "book", "trade", "other"} = Kinds
  BY DEF Kinds
<1>3. CASE SendSnapshot
  <2> DEFINE m == [ch |-> "snapshot", pairs |-> [s \in Listed |-> listed[s]]]
  <2>1. Send("snapshot", m, 1) /\ listed' = listed
    BY <1>3 DEF SendSnapshot
  <2>2. Listed \in SUBSET Symbols /\ \A s \in Listed : listed[s] \in Precision
    BY <1>1 DEF Listed, Precision
  <2>3. m.pairs \in [Listed -> Precision]
    BY <2>2
  <2>4. m \in InstrumentMsg
    BY <2>2, <2>3 DEF InstrumentMsg
  <2>5. \A s \in Symbols : s \in DOMAIN m.pairs => m.pairs[s] = listed'[s]
    BY <2>1
  <2> HIDE DEF m
  <2>6. /\ wire' = Append(wire, m) /\ sent'["snapshot"] = sent["snapshot"] + 1
        /\ sent'["book"] = sent["book"] /\ sent'["trade"] = sent["trade"]
    BY <1>1, <1>2, <2>1, SendCounts
  <2>7. Announces(m)
    BY <1>1, <1>2, <2>1, <2>4, <2>5, <2>6 DEF Announces
  <2>8. QED  BY <2>7 DEF VenueSends
<1>4. ASSUME NEW s \in Symbols, ChangePair(s)
      PROVE  VenueSends
  <2>1. /\ listed[s] < MaxPrecision /\ listed' = [listed EXCEPT ![s] = listed[s] + 1]
        /\ sent' = sent
    BY <1>4 DEF ChangePair
  <2>2. /\ listed'[s] \in Precision
        /\ \A x \in Symbols : listed'[x] >= listed[x] /\ (x # s => listed'[x] = listed[x])
    BY <1>1, <2>1 DEF Precision
  <2> DEFINE m == [ch |-> "update", pairs |-> [x \in {s} |-> listed'[s]]]
  <2>3. m.pairs \in [{s} -> Precision] /\ {s} \in SUBSET Symbols
    BY <2>2
  <2>4. m \in InstrumentMsg
    BY <2>3 DEF InstrumentMsg
  <2>5. \A x \in Symbols : x \in DOMAIN m.pairs <=> x = s
    OBVIOUS
  <2>6. m.pairs[s] = listed'[s]
    OBVIOUS
  <2>7. wire' = IF sent["snapshot"] = 0 THEN wire ELSE Append(wire, m)
    BY <1>4, Zenon DEF ChangePair
  <2> HIDE DEF m
  <2>8. CASE sent["snapshot"] = 0
    BY <2>1, <2>2, <2>7, <2>8 DEF ChangesSilently, VenueSends
  <2>9. CASE sent["snapshot"] # 0
    <3>1. sent["snapshot"] \in Nat
      BY <1>1, <1>2
    <3>2. Announces(m)
      BY <2>1, <2>2, <2>4, <2>5, <2>6, <2>7, <2>9, <3>1 DEF Announces
    <3>3. QED  BY <3>2 DEF VenueSends
  <2>10. QED  BY <2>8, <2>9
<1>5. ASSUME NEW s \in Symbols, NEW ok \in BOOLEAN, SendBook(s, ok)
      PROVE  VenueSends
  <2> DEFINE m == [ch |-> "book", id |-> sent["book"] + 1, sym |-> s,
                   prec |-> listed[s], ok |-> ok]
  <2>1. Send("book", m, 1) /\ listed' = listed /\ (ok \/ "corrupt" \in Faults)
    BY <1>5 DEF SendBook
  <2>2. sent["book"] + 1 <= MaxSent["book"] /\ sent["book"] \in Nat /\ MaxSent["book"] \in Nat
    BY <1>1, <1>2, <2>1 DEF Send
  <2>3. sent["book"] + 1 \in 1 .. MaxSent["book"] /\ listed[s] \in 0 .. MaxPrecision
    BY <1>1, <2>2
  <2>4. m \in BookMsg /\ m.id = sent["book"] + 1 /\ m.prec = listed[m.sym] /\ m.ok = ok
    BY <2>3 DEF BookMsg
  <2> HIDE DEF m
  <2>5. /\ wire' = Append(wire, m) /\ sent'["book"] = sent["book"] + 1
        /\ sent'["trade"] = sent["trade"] /\ sent'["snapshot"] = sent["snapshot"]
    BY <1>1, <1>2, <2>1, SendCounts
  <2>6. SendsBook(m)
    BY <2>1, <2>4, <2>5 DEF SendsBook
  <2>7. QED  BY <2>6 DEF VenueSends
<1>6. ASSUME NEW ss \in Seq(Symbols), SendTrades(ss)
      PROVE  VenueSends
  <2> DEFINE ts == [i \in 1 .. Len(ss) |-> [id |-> sent["trade"] + i, sym |-> ss[i],
                                            prec |-> listed[ss[i]]]]
             m == [ch |-> "trade", trades |-> ts]
  <2>1. Send("trade", m, Len(ss)) /\ listed' = listed
    BY <1>6 DEF SendTrades
  <2>2. /\ sent["trade"] + Len(ss) <= MaxSent["trade"] /\ Len(ss) \in Nat
        /\ sent["trade"] \in Nat /\ MaxSent["trade"] \in Nat
    BY <1>1, <1>2, <2>1 DEF Send
  <2>3. \A i \in 1 .. Len(ss) :
          /\ sent["trade"] + i \in 1 .. MaxSent["trade"]
          /\ ss[i] \in Symbols /\ listed[ss[i]] \in 0 .. MaxPrecision
    BY <1>1, <2>2
  <2>4. \A i \in 1 .. Len(ss) :
          ts[i] \in Trade /\ ts[i].id = sent["trade"] + i /\ ts[i].prec = listed[ts[i].sym]
    BY <2>3 DEF Trade
  <2>5. ts \in [1 .. Len(ss) -> Trade]
    BY <2>4
  <2> HIDE DEF ts
  <2>6. ts \in Seq(Trade) /\ Len(ts) = Len(ss) /\ DOMAIN ts = 1 .. Len(ss)
    BY <2>2, <2>5, SeqDef, LenProperties
  <2>7. m \in TradeMsg /\ m.trades = ts
    BY <2>6 DEF TradeMsg
  <2> HIDE DEF m
  <2>8. /\ wire' = Append(wire, m) /\ sent'["trade"] = sent["trade"] + Len(ts)
        /\ sent'["book"] = sent["book"] /\ sent'["snapshot"] = sent["snapshot"]
    BY <1>1, <1>2, <2>1, <2>2, <2>6, SendCounts
  <2>9. SendsTrades(m)
    BY <2>1, <2>4, <2>6, <2>7, <2>8 DEF SendsTrades
  <2>10. QED  BY <2>9 DEF VenueSends
<1>7. ASSUME NEW ch \in {"other", "malformed", "empty"}, SendOther(ch)
      PROVE  VenueSends
  <2> DEFINE m == [ch |-> ch]
  <2>1. m \in OtherMsg /\ Send("other", m, 1) /\ listed' = listed
    BY <1>7 DEF SendOther, OtherMsg
  <2> HIDE DEF m
  <2>2. /\ wire' = Append(wire, m) /\ sent'["book"] = sent["book"]
        /\ sent'["trade"] = sent["trade"] /\ sent'["snapshot"] = sent["snapshot"]
    BY <1>1, <1>2, <2>1, SendCounts
  <2>3. SendsOther(m)
    BY <2>1, <2>2 DEF SendsOther
  <2>4. QED  BY <2>3 DEF VenueSends
<1>8. Published("book") \subseteq Symbols /\ Published("trade") \subseteq Symbols
  BY PublishedType
<1>9. \A s, t \in Symbols : <<s>> \in Seq(Symbols) /\ <<s, t>> \in Seq(Symbols)
  OBVIOUS
<1>10. \/ SendSnapshot
       \/ \E s \in Symbols : ChangePair(s)
       \/ \E s \in Symbols, ok \in BOOLEAN : SendBook(s, ok)
       \/ \E ss \in Seq(Symbols) : SendTrades(ss)
       \/ \E ch \in {"other", "malformed", "empty"} : SendOther(ch)
  BY <1>8, <1>9, Zenon DEF VenueStep
<1>11. QED
  BY <1>3, <1>4, <1>5, <1>6, <1>7, <1>10, Zenon

-----------------------------------------------------------------------------
(* The order of the feed.                                                   *)

\* Before the websocket handshake there is no link.
NoLinkYet ==
  pending \in {"resolve", "connect", "ssl_handshake", "handshake"} => link = "down"

Numbered(items) == \A i \in DOMAIN items : items[i].id = i

\* What was received and what is on the wire is the feed; a broken connection may
\* have lost its end.
BookFeed ==
  /\ Numbered(received)
  /\ InFeed("book", wire, Len(received), sent["book"])
  /\ link # "broken" => Whole("book", wire, Len(received), sent["book"])

\* The same of trades, for as long as another message may be read: one that names an
\* unknown symbol is taken half way, and is the last.
TradeFeed ==
  /\ Numbered(traded)
  /\ \A i \in DOMAIN wire : InStep(wire[i])
  /\ MayContinue /\ CaptureTrades =>
       /\ InFeed("trade", wire, Len(traded), sent["trade"])
       /\ link # "broken" => Whole("trade", wire, Len(traded), sent["trade"])

LEMMA NextNoLink == NoLinkYet /\ [Next]_vars => NoLinkYet'
<1> SUFFICES ASSUME NoLinkYet, [Next]_vars PROVE NoLinkYet'
  OBVIOUS
<1>1. CASE Connect
  BY <1>1 DEF Connect, NoLinkYet, OnResolve, OnConnect, OnSslHandshake, OnHandshake
<1>2. CASE Read
  <2>1. pending' \in {"read", "none"}
    BY <1>2 DEF Read, ReadSnapshot, ReadUpdate, InstrumentThrows, ReadBook, ReadTrades,
         TradesThrow, ReadOther, ReadError, Caught, OnRead, OnReadEmpty, OnReadError
  <2>2. QED  BY <2>1 DEF NoLinkYet
<1>3. CASE PingFails \/ ProcessOne \/ OnProcessTimer
  <2>1. UNCHANGED sessionVars \/ \E outs : Sent(outs)
    BY <1>3 DEF PingFails, ProcessOne, OnProcessTimer, FinishProcess
  <2>2. QED  BY <2>1 DEF Sent, sessionVars, NoLinkYet
<1>4. CASE \/ Interrupt \/ ProcessThrows \/ Exit \/ VenueStep \/ LinkLost \/ UNCHANGED vars
  BY <1>4 DEF Interrupt, ProcessThrows, Exit, StopProcessing, VenueStep, LinkLost, LinkBreaks,
              vars, sessionVars, NoLinkYet
<1>5. QED
  BY <1>1, <1>2, <1>3, <1>4 DEF Next, Process, Terminated

\* A broken connection is not mended.
LEMMA LinkStaysBroken ==
  ASSUME NoLinkYet, [Next]_vars, link = "broken"
  PROVE  link' = "broken"
<1>1. CASE Connect
  BY <1>1 DEF Connect, NoLinkYet, OnResolve, OnConnect, OnSslHandshake, OnHandshake
<1>2. CASE Read
  BY <1>2 DEF Read, ReadSnapshot, ReadUpdate, InstrumentThrows, ReadBook, ReadTrades,
       TradesThrow, ReadOther, ReadError, Caught, OnRead, OnReadEmpty, OnReadError
<1>3. CASE PingFails \/ ProcessOne \/ OnProcessTimer
  <2>1. UNCHANGED sessionVars \/ \E outs : Sent(outs)
    BY <1>3 DEF PingFails, ProcessOne, OnProcessTimer, FinishProcess
  <2>2. QED  BY <2>1 DEF Sent, sessionVars
<1>4. CASE \/ Interrupt \/ ProcessThrows \/ Exit \/ VenueStep \/ LinkLost \/ UNCHANGED vars
  BY <1>4 DEF Interrupt, ProcessThrows, Exit, StopProcessing, VenueStep, LinkLost, LinkBreaks,
              vars, sessionVars
<1>5. QED
  BY <1>1, <1>2, <1>3, <1>4 DEF Next, Process, Terminated

\* The recorder's own steps leave the wire alone, or read its first message.
LEMMA WireSteps ==
  ASSUME TypeOK, [Next]_vars
  PROVE  \/ VenueStep \/ LinkLost
         \/ \E ch : Reads(ch)
         \/ UNCHANGED <<listed, wire, sent, received, traded>>
BY DEF Next, Process, Read, Terminated, Connect, Interrupt, PingFails, OnProcessTimer,
       ProcessOne, ProcessThrows, ReadSnapshot, ReadUpdate, InstrumentThrows, ReadBook,
       ReadTrades, TradesThrow, ReadOther, ReadError, Exit, vars, venueVars, history

\* Reading takes the first message of the wire, and its kind decides what is done.
LEMMA ReadSteps ==
  ASSUME TypeOK, [Next]_vars, NEW ch, Reads(ch)
  PROVE  /\ wire \in Seq(Msg) /\ wire # <<>> /\ Incoming = Head(wire) /\ Incoming \in Msg
         /\ Incoming.ch = ch /\ wire' = Tail(wire) /\ sent' = sent /\ listed' = listed
         /\ MayContinue
<1>1. wire \in Seq(Msg) /\ wire # <<>> /\ wire' = Tail(wire) /\ Incoming = Head(wire)
  BY DEF TypeOK, VenueTypeOK, Reads, Incoming
<1>2. MayContinue
  BY DEF Reads, Dispatch, Continue, MayContinue
<1>3. QED
  BY <1>1, <1>2, ReadsType DEF Reads

LEMMA NumberedConcat ==
  ASSUME NEW S, NEW q \in Seq(S), NEW t \in Seq(S), Numbered(q),
         \A i \in DOMAIN t : t[i].id = Len(q) + i
  PROVE  Numbered(q \o t) /\ Len(q \o t) = Len(q) + Len(t)
<1>1. /\ q \o t \in Seq(S) /\ Len(q \o t) = Len(q) + Len(t)
      /\ \A i \in 1 .. Len(q) + Len(t) : (q \o t)[i] = IF i <= Len(q) THEN q[i] ELSE t[i - Len(q)]
  BY ConcatProperties
<1> DEFINE u == q \o t
<1>2. /\ DOMAIN q = 1 .. Len(q) /\ DOMAIN t = 1 .. Len(t) /\ Len(q) \in Nat /\ Len(t) \in Nat
  BY LenProperties
<1>3. DOMAIN u = 1 .. Len(q) + Len(t)
  BY <1>1, LenProperties
<1>4. \A i \in DOMAIN u : u[i] = IF i <= Len(q) THEN q[i] ELSE t[i - Len(q)]
  BY <1>1, <1>3
<1> HIDE DEF u
<1>5. ASSUME NEW i \in DOMAIN u PROVE u[i].id = i
  <2>1. CASE i <= Len(q)
    <3>1. i \in DOMAIN q /\ u[i] = q[i]
      BY <1>2, <1>3, <1>4, <2>1
    <3>2. QED  BY <3>1 DEF Numbered
  <2>2. CASE ~(i <= Len(q))
    <3>1. i - Len(q) \in DOMAIN t /\ u[i] = t[i - Len(q)] /\ Len(q) + (i - Len(q)) = i
      BY <1>2, <1>3, <1>4, <2>2
    <3>2. QED  BY <3>1
  <2>3. QED  BY <2>1, <2>2
<1>6. Numbered(u)
  BY <1>5 DEF Numbered
<1>7. QED
  BY <1>1, <1>6 DEF u

\* What a message sent adds to the numbers of the wire.
LEMMA VenueStepFeed ==
  ASSUME TypeOK, VenueStep, NEW ch \in {"book", "trade"}, NEW got \in Nat,
         InFeed(ch, wire, got, sent[ch]), Whole(ch, wire, got, sent[ch])
  PROVE  InFeed(ch, wire', got, sent'[ch]) /\ Whole(ch, wire', got, sent'[ch])
<1>1. wire \in Seq(Msg) /\ sent[ch] \in Nat
  BY DEF TypeOK, VenueTypeOK, Kinds
<1>2. CASE ChangesSilently
  BY <1>2 DEF ChangesSilently
<1>3. ASSUME NEW m, m \in Msg, Numbers(ch, m) = {}, wire' = Append(wire, m), sent'[ch] = sent[ch]
      PROVE  InFeed(ch, wire', got, sent'[ch]) /\ Whole(ch, wire', got, sent'[ch])
  BY <1>1, <1>3, FeedAppendOther
<1>4. ASSUME NEW m, Announces(m) \/ SendsOther(m)
      PROVE  InFeed(ch, wire', got, sent'[ch]) /\ Whole(ch, wire', got, sent'[ch])
  <2>1. m \in InstrumentMsg \cup OtherMsg /\ wire' = Append(wire, m) /\ sent'[ch] = sent[ch]
    BY <1>4 DEF Announces, SendsOther
  <2>2. m \in Msg /\ Numbers(ch, m) = {}
    BY <2>1 DEF Msg, InstrumentMsg, OtherMsg, Numbers
  <2>3. QED  BY <1>3, <2>1, <2>2
<1>5. ASSUME NEW m, SendsBook(m)
      PROVE  InFeed(ch, wire', got, sent'[ch]) /\ Whole(ch, wire', got, sent'[ch])
  <2>1. m \in BookMsg /\ m \in Msg /\ m.ch = "book" /\ wire' = Append(wire, m) /\ m.id = sent["book"] + 1
    BY <1>5 DEF SendsBook, Msg, BookMsg
  <2>2. CASE ch = "book"
    <3>1. Numbers(ch, m) = sent[ch] + 1 .. sent[ch] + 1
      BY <1>1, <2>1, <2>2 DEF Numbers
    <3>2. sent'[ch] = sent[ch] + 1
      BY <1>5, <2>2 DEF SendsBook
    <3>3. QED  BY <1>1, <2>1, <3>1, <3>2, FeedAppend
  <2>3. CASE ch = "trade"
    <3>1. Numbers(ch, m) = {} /\ sent'[ch] = sent[ch]
      BY <1>5, <2>1, <2>3 DEF Numbers, SendsBook
    <3>2. QED  BY <1>3, <2>1, <3>1
  <2>4. QED  BY <2>2, <2>3
<1>6. ASSUME NEW m, SendsTrades(m)
      PROVE  InFeed(ch, wire', got, sent'[ch]) /\ Whole(ch, wire', got, sent'[ch])
  <2>1. m \in TradeMsg /\ m \in Msg /\ m.ch = "trade" /\ wire' = Append(wire, m)
    BY <1>6 DEF SendsTrades, Msg, TradeMsg
  <2>2. CASE ch = "trade"
    <3>1. m.trades \in Seq(Trade)
      BY <2>1 DEF TradeMsg
    <3>2. DOMAIN m.trades = 1 .. Len(m.trades) /\ Len(m.trades) \in Nat
      BY <3>1, LenProperties
    <3>3. \A i \in 1 .. Len(m.trades) : m.trades[i].id = sent[ch] + i
      BY <1>6, <2>2, <3>2 DEF SendsTrades
    <3>4. Numbers(ch, m) = sent[ch] + 1 .. sent[ch] + Len(m.trades)
      <4>1. Numbers(ch, m) = {m.trades[i].id : i \in 1 .. Len(m.trades)}
        BY <2>1, <2>2, <3>2 DEF Numbers
      <4>2. ASSUME NEW x \in sent[ch] + 1 .. sent[ch] + Len(m.trades)
            PROVE  x \in Numbers(ch, m)
        <5>1. x - sent[ch] \in 1 .. Len(m.trades) /\ sent[ch] + (x - sent[ch]) = x
          BY <1>1, <3>2
        <5>2. m.trades[x - sent[ch]].id = x
          BY <3>3, <5>1
        <5>3. QED  BY <4>1, <5>1, <5>2
      <4>3. ASSUME NEW x \in Numbers(ch, m)
            PROVE  x \in sent[ch] + 1 .. sent[ch] + Len(m.trades)
        <5>1. PICK i \in 1 .. Len(m.trades) : x = sent[ch] + i
          BY <3>3, <4>1
        <5>2. QED  BY <1>1, <3>2, <5>1
      <4>4. QED  BY <4>2, <4>3
    <3>5. sent'[ch] = sent[ch] + Len(m.trades)
      BY <1>6, <2>2 DEF SendsTrades
    <3>6. QED  BY <1>1, <2>1, <3>2, <3>4, <3>5, FeedAppend
  <2>3. CASE ch = "book"
    <3>1. Numbers(ch, m) = {} /\ sent'[ch] = sent[ch]
      BY <1>6, <2>1, <2>3 DEF Numbers, SendsTrades
    <3>2. QED  BY <1>3, <2>1, <3>1
  <2>4. QED  BY <2>2, <2>3
<1>7. QED
  BY <1>2, <1>4, <1>5, <1>6, VenueStepSends DEF VenueSends

\* Reading a message of another channel takes none of this one's numbers.
LEMMA ReadsOtherFeed ==
  ASSUME TypeOK, [Next]_vars, NEW c, Reads(c), NEW ch, c # ch,
         NEW got \in Nat, NEW out \in Nat, InFeed(ch, wire, got, out)
  PROVE  /\ InFeed(ch, wire', got, out)
         /\ Whole(ch, wire, got, out) => Whole(ch, wire', got, out)
<1>1. wire \in Seq(Msg) /\ wire # <<>> /\ Head(wire).ch = c /\ wire' = Tail(wire)
  BY ReadSteps
<1>2. Numbers(ch, Head(wire)) = {}
  BY <1>1 DEF Numbers
<1>3. QED
  BY <1>1, <1>2, FeedTailOther

LEMMA LinkLostWire ==
  ASSUME TypeOK, LinkLost
  PROVE  /\ link' = "broken" /\ link = "open" /\ UNCHANGED <<listed, sent, received, traded, proc, pending, keep>>
         /\ wire \in Seq(Msg) /\ \E n \in 0 .. Len(wire) : wire' = SubSeq(wire, 1, n)
BY DEF LinkLost, LinkBreaks, LoseInFlight, history, mainVars, TypeOK, VenueTypeOK

LEMMA NextBookFeed == TypeOK /\ NoLinkYet /\ BookFeed /\ [Next]_vars => BookFeed'
<1> SUFFICES ASSUME TypeOK, NoLinkYet, BookFeed, [Next]_vars PROVE BookFeed'
  OBVIOUS
<1>1. /\ received \in Seq(BookMsg) /\ Len(received) \in Nat /\ sent["book"] \in Nat
      /\ wire \in Seq(Msg)
  BY LenProperties DEF TypeOK, VenueTypeOK, Kinds
<1>2. /\ Numbered(received) /\ InFeed("book", wire, Len(received), sent["book"])
      /\ link # "broken" => Whole("book", wire, Len(received), sent["book"])
  BY DEF BookFeed
<1>3. link' # "broken" => link # "broken"
  BY LinkStaysBroken
<1>4. CASE VenueStep
  <2>1. received' = received /\ link # "broken"
    BY <1>4 DEF VenueStep, history
  <2>2. QED  BY <1>1, <1>2, <1>4, <2>1, VenueStepFeed DEF BookFeed
<1>5. CASE LinkLost
  <2>1. PICK n \in 0 .. Len(wire) : wire' = SubSeq(wire, 1, n)
    BY <1>5, LinkLostWire
  <2>2. InFeed("book", wire', Len(received), sent["book"])
    BY <1>1, <1>2, <2>1, FeedPrefix
  <2>3. QED  BY <1>2, <1>5, <2>2, LinkLostWire DEF BookFeed
<1>6. CASE ReadBook
  <2>1. Reads("book") /\ received' = Append(received, Incoming)
    BY <1>6 DEF ReadBook
  <2>2. /\ wire # <<>> /\ Incoming = Head(wire) /\ wire' = Tail(wire) /\ sent' = sent
        /\ Incoming \in BookMsg
    BY <2>1, ReadSteps, IncomingTypes
  <2>3. Incoming.id \in 1 .. MaxSent["book"] /\ Incoming.ch = "book" /\ MaxSent["book"] \in Nat
    BY <2>2, VenueAssumption DEF BookMsg, Kinds
  <2>4. PICK n \in Nat : Incoming.id = n + 1 /\ Numbers("book", Incoming) = n + 1 .. n + 1
    <3>1. Incoming.id - 1 \in Nat /\ Incoming.id = (Incoming.id - 1) + 1
      BY <2>3
    <3>2. Numbers("book", Incoming) = {Incoming.id} /\ {Incoming.id} = Incoming.id .. Incoming.id
      BY <2>3 DEF Numbers
    <3>3. QED  BY <3>1, <3>2
  <2>5. /\ n = Len(received)
        /\ InFeed("book", wire', Len(received) + 1, sent["book"])
        /\ Whole("book", wire, Len(received), sent["book"]) =>
             Whole("book", wire', Len(received) + 1, sent["book"])
    <3>1. 1 \in Nat /\ 1 > 0
      OBVIOUS
    <3>2. Numbers("book", Head(wire)) = n + 1 .. n + 1
      BY <2>2, <2>4
    <3>3. QED  BY <1>1, <1>2, <2>2, <3>1, <3>2, FeedTail
  <2>6. /\ Len(<<Incoming>>) = 1 /\ <<Incoming>> \in Seq(BookMsg)
        /\ \A i \in DOMAIN <<Incoming>> : <<Incoming>>[i].id = Len(received) + i
    <3>1. <<Incoming>>[1] = Incoming /\ DOMAIN <<Incoming>> = {1}
      OBVIOUS
    <3>2. QED  BY <2>2, <2>4, <2>5, <3>1
  <2>7. Numbered(received \o <<Incoming>>) /\ Len(received \o <<Incoming>>) = Len(received) + 1
    <3> DEFINE t == <<Incoming>>
    <3>1. t \in Seq(BookMsg) /\ Len(t) = 1 /\ \A i \in DOMAIN t : t[i].id = Len(received) + i
      BY <2>6
    <3> HIDE DEF t
    <3>2. Numbered(received \o t) /\ Len(received \o t) = Len(received) + Len(t)
      BY <1>1, <1>2, <3>1, NumberedConcat
    <3>3. QED  BY <3>1, <3>2 DEF t
  <2>8. received' = received \o <<Incoming>>
    BY <1>1, <2>1, <2>2, AppendIsConcat
  <2>9. QED  BY <1>2, <1>3, <2>2, <2>5, <2>7, <2>8 DEF BookFeed
<1>7. CASE Read /\ ~ReadBook /\ ~ReadError
  <2>1. received' = received /\ \E c : c # "book" /\ Reads(c)
    BY <1>7 DEF Read, ReadSnapshot, ReadUpdate, InstrumentThrows, ReadTrades, TradesThrow,
                ReadOther, history
  <2>2. PICK c : c # "book" /\ Reads(c)
    BY <2>1
  <2>3. sent' = sent
    BY <2>2, ReadSteps
  <2>4. /\ InFeed("book", wire', Len(received), sent["book"])
        /\ Whole("book", wire, Len(received), sent["book"]) =>
             Whole("book", wire', Len(received), sent["book"])
    BY <1>1, <1>2, <2>2, ReadsOtherFeed
  <2>5. QED  BY <1>2, <1>3, <2>1, <2>3, <2>4 DEF BookFeed
<1>8. CASE \/ Connect \/ Interrupt \/ PingFails \/ Process \/ ReadError \/ Exit \/ UNCHANGED vars
  <2>1. UNCHANGED <<wire, sent, received>>
    BY <1>8 DEF Connect, Interrupt, PingFails, Process, OnProcessTimer, ProcessOne,
                ProcessThrows, ReadError, Exit, vars, venueVars, history
  <2>2. QED  BY <1>2, <1>3, <2>1 DEF BookFeed
<1>9. QED
  BY <1>4, <1>5, <1>6, <1>7, <1>8 DEF Next, Terminated

\* The trades taken of a message are its first ones.
LEMMA KnownTradesFirst ==
  ASSUME Incoming.trades \in Seq(Trade)
  PROVE  \A i \in DOMAIN KnownTrades : i \in DOMAIN Incoming.trades /\ KnownTrades[i] = Incoming.trades[i]
<1> DEFINE ts == Incoming.trades
           start == {i \in DOMAIN ts : \A j \in 1 .. i : Known(ts[j].sym)}
           n == Cardinality(start)
<1>1. /\ DOMAIN ts = 1 .. Len(ts) /\ Len(ts) \in Nat
      /\ IsFiniteSet(1 .. Len(ts)) /\ Cardinality(1 .. Len(ts)) = Len(ts)
  <2>1. DOMAIN ts = 1 .. Len(ts) /\ Len(ts) \in Nat
    BY LenProperties
  <2>2. QED  BY <2>1, FS_Interval
<1>2. start \subseteq 1 .. Len(ts) /\ IsFiniteSet(start) /\ n \in Nat /\ n <= Len(ts)
  BY <1>1, FS_Subset, FS_CardinalityType
<1>3. KnownTrades = SubSeq(ts, 1, n)
  BY DEF KnownTrades
<1> HIDE DEF start, n, ts
<1>4. QED
  BY <1>1, <1>2, <1>3 DEF ts

\* The trades of the message read next go on where the last left off.
LEMMA IncomingTradesNext ==
  ASSUME TypeOK, TradeFeed, CaptureTrades, [Next]_vars, Reads("trade")
  PROVE  /\ Incoming.trades \in Seq(Trade)
         /\ \A i \in DOMAIN Incoming.trades : Incoming.trades[i].id = Len(traded) + i
         /\ InFeed("trade", wire', Len(traded) + Len(Incoming.trades), sent["trade"])
         /\ Whole("trade", wire, Len(traded), sent["trade"]) =>
              Whole("trade", wire', Len(traded) + Len(Incoming.trades), sent["trade"])
<1> DEFINE ts == Incoming.trades
<1>1. /\ wire \in Seq(Msg) /\ wire # <<>> /\ Incoming = Head(wire) /\ wire' = Tail(wire)
      /\ Incoming.ch = "trade" /\ ts \in Seq(Trade) /\ MayContinue
  BY ReadSteps, IncomingTypes
<1>2. /\ Len(traded) \in Nat /\ sent["trade"] \in Nat
      /\ InFeed("trade", wire, Len(traded), sent["trade"])
  BY <1>1, LenProperties DEF TradeFeed, TypeOK, VenueTypeOK, Kinds
<1>3. InStep(Incoming)
  <2>1. 1 \in DOMAIN wire /\ Incoming = wire[1]
    BY <1>1
  <2>2. QED  BY <2>1 DEF TradeFeed
<1>4. PICK n \in Nat : \A i \in DOMAIN ts : ts[i].id = n + i
  BY <1>1, <1>3 DEF InStep
<1>5. DOMAIN ts = 1 .. Len(ts) /\ Len(ts) \in Nat
  BY <1>1, LenProperties
<1>6. Numbers("trade", Head(wire)) = n + 1 .. n + Len(ts)
  <2>1. Numbers("trade", Head(wire)) = {ts[i].id : i \in 1 .. Len(ts)}
    BY <1>1, <1>5 DEF Numbers
  <2>2. \A i \in 1 .. Len(ts) : ts[i].id = n + i
    BY <1>4, <1>5
  <2> HIDE DEF ts
  <2>3. ASSUME NEW x \in n + 1 .. n + Len(ts)
        PROVE  x \in Numbers("trade", Head(wire))
    <3>1. x - n \in 1 .. Len(ts) /\ n + (x - n) = x
      BY <1>5
    <3>2. ts[x - n].id = x
      BY <2>2, <3>1
    <3>3. QED  BY <2>1, <3>1, <3>2
  <2>4. ASSUME NEW x \in Numbers("trade", Head(wire))
        PROVE  x \in n + 1 .. n + Len(ts)
    <3>1. PICK i \in 1 .. Len(ts) : x = n + i
      BY <2>1, <2>2
    <3>2. QED  BY <1>5, <3>1
  <2>5. QED  BY <2>3, <2>4
<1>7. CASE Len(ts) = 0
  <2>1. Numbers("trade", Head(wire)) = {} /\ DOMAIN ts = {} /\ Len(traded) + Len(ts) = Len(traded)
    BY <1>2, <1>5, <1>6, <1>7
  <2> HIDE DEF ts
  <2>2. /\ InFeed("trade", Tail(wire), Len(traded), sent["trade"])
        /\ Whole("trade", wire, Len(traded), sent["trade"]) =>
             Whole("trade", Tail(wire), Len(traded), sent["trade"])
    BY <1>1, <1>2, <2>1, FeedTailOther
  <2>3. QED  BY <1>1, <2>1, <2>2 DEF ts
<1>8. CASE Len(ts) # 0
  <2>1. Len(ts) > 0
    BY <1>5, <1>8
  <2> HIDE DEF ts
  <2>2. /\ n = Len(traded)
        /\ InFeed("trade", Tail(wire), Len(traded) + Len(ts), sent["trade"])
        /\ Whole("trade", wire, Len(traded), sent["trade"]) =>
             Whole("trade", Tail(wire), Len(traded) + Len(ts), sent["trade"])
    BY <1>1, <1>2, <1>4, <1>5, <1>6, <2>1, FeedTail
  <2>3. QED  BY <1>1, <1>4, <2>2 DEF ts
<1>9. QED
  BY <1>7, <1>8

\* A message on the wire was there before, or was sent just now.
LEMMA WireFrom ==
  ASSUME TypeOK, [Next]_vars, NEW i \in DOMAIN wire'
  PROVE  \/ \E j \in DOMAIN wire : wire'[i] = wire[j]
         \/ Announces(wire'[i]) \/ SendsBook(wire'[i]) \/ SendsTrades(wire'[i])
         \/ SendsOther(wire'[i])
<1>1. wire \in Seq(Msg) /\ DOMAIN wire = 1 .. Len(wire) /\ Len(wire) \in Nat
  BY LenProperties DEF TypeOK, VenueTypeOK
<1>2. CASE VenueStep
  <2>1. ASSUME NEW m, wire' = Append(wire, m)
        PROVE  wire'[i] = m \/ \E j \in DOMAIN wire : wire'[i] = wire[j]
    <3>1. DOMAIN wire' = 1 .. Len(wire) + 1
      BY <1>1, <2>1
    <3>2. wire'[i] = IF i <= Len(wire) THEN wire[i] ELSE m
      BY <1>1, <2>1, <3>1
    <3>3. i <= Len(wire) => i \in DOMAIN wire
      BY <1>1, <3>1
    <3>4. QED  BY <3>2, <3>3
  <2>2. CASE ChangesSilently
    BY <2>2 DEF ChangesSilently
  <2>3. ASSUME NEW m, Announces(m) \/ SendsBook(m) \/ SendsTrades(m) \/ SendsOther(m)
        PROVE  \/ \E j \in DOMAIN wire : wire'[i] = wire[j]
               \/ Announces(wire'[i]) \/ SendsBook(wire'[i]) \/ SendsTrades(wire'[i])
               \/ SendsOther(wire'[i])
    <3>1. wire' = Append(wire, m)
      BY <2>3 DEF Announces, SendsBook, SendsTrades, SendsOther
    <3>2. CASE wire'[i] = m
      BY <2>3, <3>2
    <3>3. QED  BY <2>1, <3>1, <3>2
  <2>4. QED  BY <1>2, <2>2, <2>3, VenueStepSends DEF VenueSends
<1>3. CASE LinkLost
  <2>1. PICK n \in 0 .. Len(wire) : wire' = SubSeq(wire, 1, n)
    BY <1>3, LinkLostWire
  <2>2. DOMAIN wire' = 1 .. n /\ wire'[i] = wire[i] /\ i \in DOMAIN wire
    BY <1>1, <2>1
  <2>3. QED  BY <2>2
<1>4. CASE \E ch : Reads(ch)
  <2>1. wire # <<>> /\ wire' = Tail(wire)
    BY <1>4 DEF Reads
  <2>2. DOMAIN wire' = 1 .. Len(wire) - 1 /\ wire'[i] = wire[i + 1] /\ i + 1 \in DOMAIN wire
    BY <1>1, <2>1
  <2>3. QED  BY <2>2
<1>5. CASE wire' = wire
  BY <1>5
<1>6. QED
  BY <1>2, <1>3, <1>4, <1>5, WireSteps

LEMMA NextInStep ==
  ASSUME TypeOK, [Next]_vars, \A i \in DOMAIN wire : InStep(wire[i])
  PROVE  \A i \in DOMAIN wire' : InStep(wire'[i])
<1> SUFFICES ASSUME NEW i \in DOMAIN wire' PROVE InStep(wire'[i])
  OBVIOUS
<1>1. CASE \E j \in DOMAIN wire : wire'[i] = wire[j]
  BY <1>1
<1> DEFINE m == wire'[i]
<1>2. CASE Announces(m) \/ SendsBook(m) \/ SendsOther(m)
  <2>1. m \in InstrumentMsg \cup BookMsg \cup OtherMsg
    BY <1>2 DEF Announces, SendsBook, SendsOther
  <2> HIDE DEF m
  <2>2. m.ch # "trade"
    BY <2>1 DEF InstrumentMsg, BookMsg, OtherMsg
  <2>3. QED  BY <2>2 DEF InStep, m
<1>3. CASE SendsTrades(m)
  <2>1. \A k \in DOMAIN m.trades : m.trades[k].id = sent["trade"] + k
    BY <1>3 DEF SendsTrades
  <2>2. sent["trade"] \in Nat
    BY DEF TypeOK, VenueTypeOK, Kinds
  <2> HIDE DEF m
  <2>3. QED  BY <2>1, <2>2 DEF InStep, m
<1>4. QED
  BY <1>1, <1>2, <1>3, WireFrom

\* Trades taken in their order keep the order of those taken.
LEMMA TakenInOrder ==
  ASSUME traded \in Seq(Trade), Numbered(traded), NEW ts \in Seq(Trade),
         \A i \in DOMAIN ts : ts[i].id = Len(traded) + i, traded' = traded \o ts
  PROVE  Numbered(traded') /\ Len(traded') = Len(traded) + Len(ts)
BY NumberedConcat

LEMMA NextTradeFeed == TypeOK /\ NoLinkYet /\ TradeFeed /\ [Next]_vars => TradeFeed'
<1> SUFFICES ASSUME TypeOK, NoLinkYet, TradeFeed, [Next]_vars PROVE TradeFeed'
  OBVIOUS
<1> DEFINE Rest == MayContinue /\ CaptureTrades =>
                     /\ InFeed("trade", wire, Len(traded), sent["trade"])
                     /\ link # "broken" => Whole("trade", wire, Len(traded), sent["trade"])
<1>1. \A i \in DOMAIN wire' : InStep(wire'[i])
  BY NextInStep DEF TradeFeed
<1>2. SUFFICES Numbered(traded)' /\ Rest'
  BY <1>1 DEF TradeFeed
<1>3. /\ traded \in Seq(Trade) /\ Len(traded) \in Nat /\ sent["trade"] \in Nat
      /\ wire \in Seq(Msg) /\ Numbered(traded) /\ Rest
  BY LenProperties DEF TypeOK, VenueTypeOK, Kinds, TradeFeed
<1>4. (link' # "broken" => link # "broken") /\ (MayContinue' => MayContinue)
  BY LinkStaysBroken, MayContinueBefore
<1>5. CASE VenueStep
  <2>1. traded' = traded /\ link # "broken"
    BY <1>5 DEF VenueStep, history
  <2>2. QED  BY <1>3, <1>4, <1>5, <2>1, VenueStepFeed
<1>6. CASE LinkLost
  <2>1. PICK n \in 0 .. Len(wire) : wire' = SubSeq(wire, 1, n)
    BY <1>6, LinkLostWire
  <2>2. ASSUME InFeed("trade", wire, Len(traded), sent["trade"])
        PROVE  InFeed("trade", wire', Len(traded), sent["trade"])
    BY <1>3, <2>1, <2>2, FeedPrefix
  <2>3. QED  BY <1>3, <1>4, <1>6, <2>2, LinkLostWire
<1>7. CASE ReadTrades /\ CaptureTrades
  <2>1. Reads("trade") /\ traded' = traded \o Incoming.trades
    BY <1>7 DEF ReadTrades
  <2>2. /\ Incoming.trades \in Seq(Trade)
        /\ \A i \in DOMAIN Incoming.trades : Incoming.trades[i].id = Len(traded) + i
        /\ InFeed("trade", wire', Len(traded) + Len(Incoming.trades), sent["trade"])
        /\ Whole("trade", wire, Len(traded), sent["trade"]) =>
             Whole("trade", wire', Len(traded) + Len(Incoming.trades), sent["trade"])
    BY <1>7, <2>1, IncomingTradesNext
  <2>3. Numbered(traded') /\ Len(traded') = Len(traded) + Len(Incoming.trades)
    BY <1>3, <2>1, <2>2, TakenInOrder
  <2>4. sent' = sent /\ MayContinue
    BY <2>1, ReadSteps
  <2>5. QED  BY <1>3, <1>4, <1>7, <2>2, <2>3, <2>4 DEF Numbered
<1>8. CASE TradesThrow
  <2>1. Reads("trade") /\ CaptureTrades /\ traded' = traded \o KnownTrades
    BY <1>8 DEF TradesThrow
  <2>2. /\ Incoming.trades \in Seq(Trade)
        /\ \A i \in DOMAIN Incoming.trades : Incoming.trades[i].id = Len(traded) + i
    BY <2>1, IncomingTradesNext
  <2>3. KnownTrades \in Seq(Trade) /\ \A i \in DOMAIN KnownTrades : KnownTrades[i].id = Len(traded) + i
    BY <2>2, KnownTradesType, KnownTradesFirst
  <2>4. Numbered(traded')
    BY <1>3, <2>1, <2>3, TakenInOrder
  <2>5. ~MayContinue'
    BY <1>8 DEF TradesThrow, Caught, OnRead, MayContinue
  <2>6. QED  BY <2>4, <2>5 DEF Numbered
<1>9. CASE Read /\ ~(ReadTrades /\ CaptureTrades) /\ ~TradesThrow /\ ~ReadError
  <2>1. traded' = traded /\ \E c : (c # "trade" \/ ~CaptureTrades) /\ Reads(c)
    BY <1>9 DEF Read, ReadSnapshot, ReadUpdate, InstrumentThrows, ReadBook, ReadTrades,
                ReadOther, history
  <2>2. PICK c : (c # "trade" \/ ~CaptureTrades) /\ Reads(c)
    BY <2>1
  <2>3. sent' = sent
    BY <2>2, ReadSteps
  <2>4. CASE c # "trade"
    <3>1. ASSUME InFeed("trade", wire, Len(traded), sent["trade"])
          PROVE  /\ InFeed("trade", wire', Len(traded), sent["trade"])
                 /\ Whole("trade", wire, Len(traded), sent["trade"]) =>
                      Whole("trade", wire', Len(traded), sent["trade"])
      BY <1>3, <2>2, <2>4, <3>1, ReadsOtherFeed
    <3>2. QED  BY <1>3, <1>4, <2>1, <2>3, <3>1
  <2>5. CASE ~CaptureTrades
    BY <1>3, <2>1, <2>5
  <2>6. QED  BY <2>2, <2>4, <2>5
<1>10. CASE \/ Connect \/ Interrupt \/ PingFails \/ Process \/ ReadError \/ Exit \/ UNCHANGED vars
  <2>1. UNCHANGED <<wire, sent, traded>>
    BY <1>10 DEF Connect, Interrupt, PingFails, Process, OnProcessTimer, ProcessOne,
                 ProcessThrows, ReadError, Exit, vars, venueVars, history
  <2>2. QED  BY <1>3, <1>4, <2>1
<1>11. QED
  BY <1>5, <1>6, <1>7, <1>8, <1>9, <1>10 DEF Next, Terminated

-----------------------------------------------------------------------------
(* The order of the rows.                                                   *)

NumberedRows(rows) == \A i \in DOMAIN rows : rows[i].msg.id = i

\* The rows in the files are numbered like the feed, and without --capture_book there
\* are none of books.
RowsNumbered ==
  /\ NumberedRows(bookWritten) /\ NumberedRows(tradeWritten)
  /\ ~CaptureBook => bookRows = <<>>

\* Rows whose messages are the start of a numbered journal are numbered.
LEMMA RowsOfJournal ==
  ASSUME NEW R, NEW M, \A r \in R : r.msg \in M, NEW written \in Seq(R), NEW rows \in Seq(R),
         NEW rest \in Seq(M), NEW journal, journal = Msgs(written \o rows) \o rest,
         Numbered(journal)
  PROVE  NumberedRows(written) /\ NumberedRows(written \o rows)
<1> DEFINE held == written \o rows
<1>1. held \in Seq(R)
  BY ConcatProperties
<1>2. /\ DOMAIN written = 1 .. Len(written) /\ DOMAIN held = 1 .. Len(held)
      /\ Len(written) \in Nat /\ Len(held) = Len(written) + Len(rows) /\ Len(rows) \in Nat
      /\ \A i \in 1 .. Len(written) : held[i] = written[i]
  <2>1. /\ Len(held) = Len(written) + Len(rows)
        /\ \A i \in 1 .. Len(written) + Len(rows) :
             held[i] = IF i <= Len(written) THEN written[i] ELSE rows[i - Len(written)]
    BY ConcatProperties
  <2>2. /\ DOMAIN written = 1 .. Len(written) /\ DOMAIN held = 1 .. Len(held)
        /\ Len(written) \in Nat /\ Len(rows) \in Nat
    BY <1>1, LenProperties
  <2> HIDE DEF held
  <2>3. QED  BY <2>1, <2>2
<1> HIDE DEF held
<1>3. /\ Msgs(held) \in Seq(M) /\ Len(Msgs(held)) = Len(held)
      /\ \A i \in 1 .. Len(held) : Msgs(held)[i] = held[i].msg
  BY <1>1, MsgsType
<1>4. journal = Msgs(held) \o rest
  BY DEF held
<1>5. /\ journal \in Seq(M) /\ Len(journal) = Len(held) + Len(rest) /\ Len(rest) \in Nat
      /\ \A i \in 1 .. Len(held) + Len(rest) :
           journal[i] = IF i <= Len(held) THEN Msgs(held)[i] ELSE rest[i - Len(held)]
  <2> DEFINE u == Msgs(held)
  <2>1. u \in Seq(M) /\ Len(u) = Len(held) /\ journal = u \o rest
    BY <1>3, <1>4
  <2> HIDE DEF u
  <2>2. /\ u \o rest \in Seq(M) /\ Len(u \o rest) = Len(u) + Len(rest) /\ Len(rest) \in Nat
        /\ \A i \in 1 .. Len(u) + Len(rest) :
             (u \o rest)[i] = IF i <= Len(u) THEN u[i] ELSE rest[i - Len(u)]
    BY <2>1, ConcatProperties, LenProperties
  <2>3. /\ journal \in Seq(M) /\ Len(journal) = Len(held) + Len(rest) /\ Len(rest) \in Nat
        /\ \A i \in 1 .. Len(held) + Len(rest) :
             journal[i] = IF i <= Len(held) THEN u[i] ELSE rest[i - Len(held)]
    BY <2>1, <2>2
  <2>4. QED  BY <2>3 DEF u
<1>6. DOMAIN journal = 1 .. Len(held) + Len(rest)
  BY <1>5, LenProperties
<1>7. ASSUME NEW i \in 1 .. Len(held) PROVE held[i].msg.id = i
  <2> DEFINE n == Len(held)
             u == Msgs(held)
  <2>1. n \in Nat /\ Len(rest) \in Nat /\ i \in 1 .. n
    BY <1>2, <1>5, LenProperties
  <2>2. journal[i] = u[i] /\ i \in 1 .. n + Len(rest)
    <3> HIDE DEF n, u
    <3>1. \A j \in 1 .. n + Len(rest) : journal[j] = IF j <= n THEN u[j] ELSE rest[j - n]
      BY <1>5 DEF n, u
    <3>2. i \in 1 .. n + Len(rest) /\ i <= n
      BY <2>1
    <3> QED BY <3>1, <3>2
  <2>3. i \in DOMAIN journal /\ u[i] = held[i].msg
    BY <1>3, <1>6, <2>2
  <2> HIDE DEF n, u
  <2>4. journal[i].id = i
    BY <2>3 DEF Numbered
  <2> QED BY <2>2, <2>3, <2>4
<1>8. NumberedRows(held)
  BY <1>2, <1>7 DEF NumberedRows
<1>9. NumberedRows(written)
  BY <1>2, <1>7 DEF NumberedRows
<1>10. QED
  BY <1>8, <1>9 DEF held

\* So are the rows held while the recorder runs.
HeldNumbered ==
  proc = "running" =>
    /\ CaptureBook => NumberedRows(bookWritten) /\ NumberedRows(bookWritten \o bookRows)
    /\ tradeFile = "open" => NumberedRows(tradeWritten) /\ NumberedRows(tradeWritten \o tradeRows)

LEMMA JournalsNumbered ==
  TypeOK /\ BookJournal /\ TradeJournal /\ BookFeed /\ TradeFeed => HeldNumbered
<1> SUFFICES ASSUME TypeOK, BookJournal, TradeJournal, BookFeed, TradeFeed, proc = "running"
             PROVE  HeldNumbered
  BY DEF HeldNumbered
<1>1. ASSUME CaptureBook
      PROVE  NumberedRows(bookWritten) /\ NumberedRows(bookWritten \o bookRows)
  <2>1. /\ bookWritten \in Seq(BookRow) /\ bookRows \in Seq(BookRow) /\ queue \in Seq(BookMsg)
        /\ received = Msgs(bookWritten \o bookRows) \o queue /\ Numbered(received)
    BY <1>1 DEF TypeOK, BookSink!SinkTypeOK, BookJournal, BookFeed
  <2>2. QED  BY <2>1, RowMsgs, RowsOfJournal
<1>2. ASSUME tradeFile = "open"
      PROVE  NumberedRows(tradeWritten) /\ NumberedRows(tradeWritten \o tradeRows)
  <2> DEFINE held == tradeWritten \o tradeRows
  <2>1. /\ tradeWritten \in Seq(TradeRow) /\ tradeRows \in Seq(TradeRow)
        /\ traded = Msgs(held) /\ Numbered(traded) /\ traded \in Seq(Trade)
    BY <1>2 DEF TypeOK, TradeSink!SinkTypeOK, TradeJournal, TradeFeed
  <2> HIDE DEF held
  <2>2. traded = Msgs(held) \o <<>> /\ <<>> \in Seq(Trade)
    BY <2>1, ConcatEmptySeq, EmptySeq
  <2>3. QED  BY <2>1, <2>2, RowMsgs, RowsOfJournal DEF held
<1>3. QED
  BY <1>1, <1>2 DEF HeldNumbered

LEMMA NextBookRowsNumbered ==
  ASSUME TypeOK, HeldNumbered, HeldNumbered', RowsNumbered, [Next]_vars
  PROVE  NumberedRows(bookWritten)' /\ (~CaptureBook => bookRows' = <<>>)
<1>1. CASE proc' = "running" /\ CaptureBook
  BY <1>1 DEF HeldNumbered
<1>2. CASE Exit
  <2>1. CASE BookSink!CloseThrows
    BY <2>1 DEF BookSink!CloseThrows, RowsNumbered, NumberedRows
  <2>2. CASE BookSink!Close
    <3>1. bookWritten' = bookWritten \o bookRows /\ bookRows' = <<>>
      BY <2>2 DEF BookSink!Close
    <3>2. CASE CaptureBook
      BY <1>2, <3>1, <3>2 DEF Exit, HeldNumbered, NumberedRows
    <3>3. CASE ~CaptureBook
      <4>1. bookWritten' = bookWritten
        BY <3>1, <3>3, ConcatEmptySeq DEF RowsNumbered, TypeOK, BookSink!SinkTypeOK
      <4>2. QED  BY <3>1, <4>1 DEF RowsNumbered, NumberedRows
    <3>4. QED  BY <3>2, <3>3
  <2>3. QED  BY <1>2, <2>1, <2>2 DEF Exit
<1>3. CASE ProcessThrows
  BY <1>3 DEF ProcessThrows, BookSink!Abandon, RowsNumbered, NumberedRows
<1>4. CASE ~Exit /\ ~ProcessThrows /\ ~(proc' = "running" /\ CaptureBook)
  <2>1. UNCHANGED <<bookRows, bookWritten>>
    BY <1>4 DEF Next, Process, Read, Terminated, Connect, Interrupt, PingFails, OnProcessTimer,
         ProcessOne, ReadSnapshot, ReadUpdate, InstrumentThrows, ReadBook, ReadTrades,
         TradesThrow, ReadOther, ReadError, Reads, Dispatch, VenueStep, LinkLost, vars,
         bookVars, mainVars
  <2>2. QED  BY <2>1 DEF RowsNumbered, NumberedRows
<1>5. QED
  BY <1>1, <1>2, <1>3, <1>4

LEMMA NextTradeRowsNumbered ==
  ASSUME TypeOK, HeldNumbered, HeldNumbered', RowsNumbered, [Next]_vars
  PROVE  NumberedRows(tradeWritten)'
<1>1. CASE proc' = "running" /\ tradeFile' = "open"
  BY <1>1 DEF HeldNumbered
<1>2. CASE Exit
  <2>1. CASE TradeSink!CloseThrows
    BY <2>1 DEF TradeSink!CloseThrows, RowsNumbered, NumberedRows
  <2>2. CASE TradeSink!Close
    BY <1>2, <2>2 DEF Exit, TradeSink!Close, HeldNumbered, NumberedRows
  <2>3. QED  BY <1>2, <2>1, <2>2 DEF Exit
<1>3. CASE ProcessThrows
  BY <1>3 DEF ProcessThrows, TradeSink!Abandon, RowsNumbered, NumberedRows
<1>4. CASE ReadTrades /\ tradeFile' # "open"
  <2>1. UNCHANGED tradeVars \/ TradeSink!Accept(TradeRows(Incoming.trades))
    BY <1>4 DEF ReadTrades
  <2>2. tradeWritten' = tradeWritten
    BY <1>4, <2>1 DEF tradeVars, TradeSink!Accept, TradeSink!AddRows, TradeSink!Flush
  <2>3. QED  BY <2>2 DEF RowsNumbered, NumberedRows
<1>5. CASE TradesThrow
  <2>1. tradeWritten' = tradeWritten
    BY <1>5 DEF TradesThrow, TradeSink!AddRows, TradeSink!AcceptThrows
  <2>2. QED  BY <2>1 DEF RowsNumbered, NumberedRows
<1>6. CASE ~Exit /\ ~ProcessThrows /\ ~ReadTrades /\ ~TradesThrow
  <2>1. tradeWritten' = tradeWritten
    BY <1>6 DEF Next, Process, Read, Terminated, Connect, Interrupt, PingFails, OnProcessTimer,
         ProcessOne, ReadSnapshot, ReadUpdate, InstrumentThrows, ReadBook,
         ReadOther, ReadError, VenueStep, LinkLost, vars, tradeVars
  <2>2. QED  BY <2>1 DEF RowsNumbered, NumberedRows
<1>7. CASE ReadTrades /\ tradeFile' = "open"
  <2>1. proc' = "running"
    BY <1>7 DEF ReadTrades, Reads, Dispatch, mainVars
  <2>2. QED  BY <1>1, <1>7, <2>1
<1>8. QED
  BY <1>2, <1>3, <1>4, <1>5, <1>6, <1>7

LEMMA NextRowsNumbered ==
  TypeOK /\ HeldNumbered /\ HeldNumbered' /\ RowsNumbered /\ [Next]_vars => RowsNumbered'
BY NextBookRowsNumbered, NextTradeRowsNumbered DEF RowsNumbered

\* What can be read back of either file is the venue's feed from its start, with no
\* message missing, doubled or out of order, whatever the process, the connection or
\* the disk did in between (src/engine.cpp:165-249, parquet/src/book_sink.cpp:41-126,
\* parquet/src/trade_sink.cpp:22-85).
THEOREM RecoveredIsFeedPrefixCorrect == Spec => []RecoveredIsFeedPrefix
<1>1. Init => NoLinkYet /\ BookFeed /\ TradeFeed /\ RowsNumbered
  <2> SUFFICES ASSUME Init PROVE NoLinkYet /\ BookFeed /\ TradeFeed /\ RowsNumbered
    OBVIOUS
  <2>1. /\ wire = <<>> /\ received = <<>> /\ traded = <<>> /\ sent["book"] = 0 /\ sent["trade"] = 0
        /\ link = "down" /\ bookRows = <<>> /\ bookWritten = <<>> /\ tradeWritten = <<>>
    BY DEF Init, SessionInit, VenueInit, BookSink!SinkInit, TradeSink!SinkInit, Kinds
  <2>2. Len(<<>>) = 0 /\ DOMAIN <<>> = {}
    OBVIOUS
  <2>3. Numbered(<<>>) /\ NumberedRows(<<>>)
    BY <2>2 DEF Numbered, NumberedRows
  <2>4. \A ch : InFeed(ch, <<>>, 0, 0) /\ Whole(ch, <<>>, 0, 0)
    BY <2>2 DEF InFeed, Whole
  <2>5. QED  BY <2>1, <2>2, <2>3, <2>4 DEF NoLinkYet, BookFeed, TradeFeed, RowsNumbered
<1>2. RowsNumbered => RecoveredIsFeedPrefix
  BY DEF RowsNumbered, NumberedRows, RecoveredIsFeedPrefix, BookSink!Recovered,
         TradeSink!Recovered
<1>3. QED
  BY <1>1, <1>2, TypeCorrect, BookJournalCorrect, TradeJournalCorrect, NextNoLink,
     NextBookFeed, NextTradeFeed, JournalsNumbered, NextRowsNumbered, PTL DEF Spec
=============================================================================
