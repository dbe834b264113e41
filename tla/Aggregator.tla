---------------------------- MODULE Aggregator ----------------------------
(***************************************************************************)
(* The per-stream half of gateway/src/aggregator.ts: what applyBook does to  *)
(* the entries that `books`, `pending`, `appliedTail`, `tailEvicted` and     *)
(* `lastBbo` hold for one (exchange, symbol).  applyBook is synchronous, so  *)
(* one call is one operator.  A message is a record with the epoch of the    *)
(* connection that produced it and that connection's sequence number; its    *)
(* levels are DepthBook's.  Timestamps and metrics are left out, except the  *)
(* underrun counter, which is the code's own claim about a heal.             *)
(***************************************************************************)
EXTENDS Integers, Sequences, DepthBook

CONSTANTS
  MAX_PENDING_DELTAS,   \* deltas kept while their snapshot is awaited
  MAX_APPLIED_TAIL      \* applied deltas kept for a heal to replay

ASSUME TailAssumption == MAX_APPLIED_TAIL \in Nat /\ MAX_APPLIED_TAIL >= 2
ASSUME PendingAssumption == MAX_PENDING_DELTAS \in Nat \ {0}

None == [epoch |-> 0, seq |-> -1]        \* an absent tailEvicted entry
NoBbo == [bid_px |-> 0, bid_sz |-> 0, ask_px |-> 0, ask_sz |-> 0]

NewStream ==
  [book    |-> [bids |-> EmptySide, asks |-> EmptySide, seq |-> -1, epoch |-> 0],
   pending |-> <<>>, tail |-> <<>>, evicted |-> None,
   bbo |-> NoBbo, underruns |-> 0]

----------------------------------------------------------------------------
\* book.ts

\* A book is rebuilt from the snapshot's levels alone.
ResetTo(s) == [bids |-> SnapshotSide(s.bids), asks |-> SnapshotSide(s.asks),
               seq |-> s.seq, epoch |-> s.epoch]

ApplyUnguarded(book, d) ==
  [book EXCEPT !.bids = ApplyLevels(@, d.bids), !.asks = ApplyLevels(@, d.asks),
               !.seq = d.seq]

\* applyDelta: a delta at or below the book's sequence mutates nothing.
BookDelta(book, d) == IF d.seq <= book.seq THEN book ELSE ApplyUnguarded(book, d)

StaleReSnapshot(book, s) == s.epoch = book.epoch /\ s.seq <= book.seq

\* applySnapshot's guard: only a crossed book takes a same-epoch rewind.
SkipsSnapshot(book, s) == StaleReSnapshot(book, s) /\ ~Crossed(book)

----------------------------------------------------------------------------
\* aggregator.ts

\* A faulty dedup that looks at the bid alone.
DeriveBboOnBid(a) ==
  IF TwoSided(a.book) /\ Top(a.book).bid_px # a.bbo.bid_px
  THEN [a EXCEPT !.bbo = Top(a.book)] ELSE a

\* deriveBbo: a one-sided book has no BBO, and the last one stands.
DeriveBbo(a) == IF TwoSided(a.book) THEN [a EXCEPT !.bbo = Top(a.book)] ELSE a

\* A faulty record without its bound.
RecordUnbounded(a, d) == [a EXCEPT !.tail = Append(@, d)]

\* A faulty record that sheds without remembering it did.
RecordForgets(a, d) ==
  LET full == Len(a.tail) >= MAX_APPLIED_TAIL
      half == MAX_APPLIED_TAIL \div 2
  IN  [a EXCEPT !.tail = Append(IF full THEN SubSeq(@, half + 1, Len(@)) ELSE @, d)]

\* recordApplied: a full tail sheds its oldest half and remembers the newest
\* entry it shed.
RecordApplied(a, d) ==
  LET full == Len(a.tail) >= MAX_APPLIED_TAIL
      half == MAX_APPLIED_TAIL \div 2
      shed == a.tail[half]
  IN  [a EXCEPT !.tail = Append(IF full THEN SubSeq(@, half + 1, Len(@)) ELSE @, d),
                !.evicted = IF full THEN [epoch |-> shed.epoch, seq |-> shed.seq] ELSE @]

\* A faulty take that trusts the snapshot to supersede nothing.
TakeUnguarded(a, d) == RecordApplied([a EXCEPT !.book = ApplyUnguarded(@, d)], d)

\* applyDelta of the book, recorded in the tail when it was applied.
Take(a, d) == IF d.seq <= a.book.seq THEN a
              ELSE RecordApplied([a EXCEPT !.book = ApplyUnguarded(@, d)], d)

\* The pending queue of the stream, drop-oldest when full.
Buffer(a, d) ==
  [a EXCEPT !.pending =
     Append(IF Len(@) >= MAX_PENDING_DELTAS THEN SubSeq(@, 2, Len(@)) ELSE @, d)]

\* A faulty test that takes a delta of any epoch for the book's own.
NoBookYet(a, d) == a.book.seq < 0

\* No book yet, or one of another connection.
NoBookFor(a, d) == a.book.seq < 0 \/ d.epoch # a.book.epoch

\* applyBook, the delta branch.
ApplyDelta(a, d) ==
  IF NoBookFor(a, d) THEN Buffer(a, d)
  ELSE IF d.seq <= a.book.seq THEN a
  ELSE DeriveBbo(Take(a, d))

\* A faulty heal that stops at the snapshot.
ReplaysNothing(a, s) == ResetTo(s)

\* The book an accepted snapshot rebuilds: the snapshot, then the applied tail
\* of its own epoch over it.
ReplayOne(book, d, s) == IF d.epoch = s.epoch THEN BookDelta(book, d) ELSE book
Replay == INSTANCE SeqLoop WITH Body <- ReplayOne
ReplayTail(a, s) == Replay!Loop(ResetTo(s), a.tail, s)

\* What of the tail a later heal to this snapshot or a newer one can need.
KeepOne(kept, d, s) ==
  IF d.epoch = s.epoch /\ d.seq > s.seq THEN Append(kept, d) ELSE kept
Keep == INSTANCE SeqLoop WITH Body <- KeepOne
KeptTail(a, s) == Keep!Loop(<<>>, a.tail, s)

\* The bookkeeping an accepted snapshot leaves.
PruneTail(a, s) ==
  [a EXCEPT
     !.tail = KeptTail(a, s),
     !.evicted = IF @ # None /\ (@.epoch # s.epoch \/ @.seq <= s.seq) THEN None ELSE @,
     !.underruns = IF StaleReSnapshot(a.book, s) /\ a.evicted # None
                      /\ a.evicted.epoch = s.epoch /\ a.evicted.seq > s.seq
                   THEN @ + 1 ELSE @]

\* A faulty drain that throws away what it should take.
DrainForgets(a, s) == [a EXCEPT !.pending = SelectSeq(@, LAMBDA d : d.epoch # s.epoch)]

\* The buffered deltas of the snapshot's epoch are taken in arrival order, the
\* others keep waiting for theirs.
DrainOne(a, d, s) ==
  IF d.epoch = s.epoch THEN Take(a, d) ELSE [a EXCEPT !.pending = Append(@, d)]
Draining == INSTANCE SeqLoop WITH Body <- DrainOne
Drain(a, s) == Draining!Loop([a EXCEPT !.pending = <<>>], a.pending, s)

\* applyBook, the snapshot branch.
ApplySnapshot(a, s) ==
  IF SkipsSnapshot(a.book, s) THEN a
  ELSE DeriveBbo(Drain([PruneTail(a, s) EXCEPT !.book = ReplayTail(a, s)], s))
=============================================================================
