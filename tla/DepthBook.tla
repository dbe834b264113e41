----------------------------- MODULE DepthBook -----------------------------
(***************************************************************************)
(* The L2 depth book both halves of crosstick keep: ingest/book.py           *)
(* (OrderBook, two SortedDicts) and gateway/src/book.ts (Book, two BTrees).  *)
(* A side maps every price to a size, NoSize where the sorted map has no     *)
(* entry, so that setting and deleting a level are both function updates.    *)
(***************************************************************************)
LOCAL INSTANCE Integers
LOCAL INSTANCE FiniteSetsExt

CONSTANTS
  Prices,   \* the price grid: a set of naturals, compared as cmpDecimal does
  Sizes     \* the non-zero sizes of a level

NoSize == 0   \* no level; on the wire, size "0" is a delete

ASSUME PricesAssumption == Prices \subseteq Nat
ASSUME SizesAssumption  == Sizes \subseteq Nat \ {NoSize}

Side == [Prices -> Sizes \cup {NoSize}]

EmptySide == [p \in Prices |-> NoSize]

\* A message lists levels: a function from the prices it names to their sizes.
\* Each is an absolute set or delete; the prices not listed keep theirs.
ApplyLevels(side, ops) ==
  [p \in Prices |-> IF p \in DOMAIN ops THEN ops[p] ELSE side[p]]

SnapshotSide(ops) == ApplyLevels(EmptySide, ops)

LevelsOf(side) == {p \in Prices : side[p] # NoSize}

BestBid(book) == Max(LevelsOf(book.bids))
BestAsk(book) == Min(LevelsOf(book.asks))

TwoSided(book) == LevelsOf(book.bids) # {} /\ LevelsOf(book.asks) # {}

\* The gateway's test (book.ts isCrossed): the ask strictly below the bid.
Crossed(book) ==
  \E b \in LevelsOf(book.bids), a \in LevelsOf(book.asks) : a < b

\* The ingester's test (book.py): a locked book is already a violation.
CrossedOrLocked(book) ==
  \E b \in LevelsOf(book.bids), a \in LevelsOf(book.asks) : a <= b

Top(book) == [bid_px |-> BestBid(book), bid_sz |-> book.bids[BestBid(book)],
              ask_px |-> BestAsk(book), ask_sz |-> book.asks[BestAsk(book)]]
=============================================================================
