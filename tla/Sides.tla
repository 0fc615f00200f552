------------------------------- MODULE Sides -------------------------------
(***************************************************************************)
(* One side of a level book and the checksum over both, as sides_t         *)
(* computes them (include/sides.hpp, src/sides.cpp).  A side is the map    *)
(* from its prices to the quantities there.                                *)
(***************************************************************************)
EXTENDS Numbers, FiniteSets, SequencesExt

CONSTANTS
  BookDepth,   \* m_book_depth
  CrcDepth     \* c_crc32_depth

ASSUME SidesAssumption == BookDepth \in Nat \ {0} /\ CrcDepth \in Nat \ {0}

EmptySide == [p \in {} |-> 0]
With(side, p, q) == [x \in DOMAIN side \cup {p} |-> IF x = p THEN q ELSE side[x]]

-----------------------------------------------------------------------------
(* The order of a side's map: bids descend, asks ascend.                    *)

Better(sd, p, q) == IF sd = "bids" THEN p > q ELSE p < q

\* The n best levels.
Top(sd, side, n) ==
  Restrict(side, {p \in DOMAIN side :
                    Cardinality({q \in DOMAIN side : Better(sd, q, p)}) < n})

-----------------------------------------------------------------------------
\* One quote of an update: a zero quantity removes the level, if there is one.
ApplyQuote(side, quote) ==
  IF quote.price \in DOMAIN side /\ quote.qty = 0
  THEN Restrict(side, DOMAIN side \ {quote.price})
  ELSE With(side, quote.price, quote.qty)

\* Every quote of an update, one after the other.
Applied(side, quotes) ==
  LET after[i \in 0 .. Len(quotes)] ==
        IF i = 0 THEN side ELSE ApplyQuote(after[i - 1], quotes[i])
  IN  after[Len(quotes)]

\* A variant that cuts the side back after every quote.
ApplyUpdateCutting(sd, side, quotes) ==
  FoldLeft(LAMBDA s, q : Top(sd, ApplyQuote(s, q), BookDepth), side, quotes)

\* A variant that does not cut the side back.
ApplyUpdateUncut(sd, side, quotes) == Applied(side, quotes)

\* apply_update: the quotes, then what is beyond the depth is erased.
ApplyUpdate(sd, side, quotes) == Top(sd, Applied(side, quotes), BookDepth)

\* One quote of a snapshot: of two at a price the first stays.
AddQuote(side, quote) ==
  IF quote.price \in DOMAIN side THEN side ELSE With(side, quote.price, quote.qty)

\* accept_snapshot fills a cleared map.
FromSnapshot(quotes) ==
  LET after[i \in 0 .. Len(quotes)] ==
        IF i = 0 THEN EmptySide ELSE AddQuote(after[i - 1], quotes[i])
  IN  after[Len(quotes)]

-----------------------------------------------------------------------------
(* The checksum.  crc32 stands for the bytes it is fed: the digits of each  *)
(* number at its precision, with no point and no leading zeros.             *)

\* update_checksum: the best CrcDepth levels, best first.
SideStream(sd, side, prec) ==
  LET top    == Top(sd, side, CrcDepth)
      prices == [k \in 1 .. Cardinality(DOMAIN top) |->
                   CHOOSE p \in DOMAIN top :
                     Cardinality({q \in DOMAIN top : Better(sd, q, p)}) = k - 1]
  IN  FlattenSeq([i \in DOMAIN prices |-> Shown(prices[i], prec.price)
                                          \o Shown(top[prices[i]], prec.qty)])

Crc32(bids, asks, prec) ==
  SideStream("asks", asks, prec) \o SideStream("bids", bids, prec)
=============================================================================
