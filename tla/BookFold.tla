------------------------------ MODULE BookFold ------------------------------
(***************************************************************************)
(* silver/dq.py: one symbol's book rebuilt from bronze.  Snapshots and       *)
(* deltas come from two topics, each in offset order; they are merged by     *)
(* (epoch, sequence, snapshot first) and folded through an OrderBook.        *)
(* A record is [kind, epoch, sequence, offset, levels, changes].             *)
(***************************************************************************)
EXTENDS LevelBook

\* A faulty key: sequences restart with every epoch.
EpochlessKey(r) == <<0, r.sequence, IF r.kind = "snap" THEN 0 ELSE 1>>

\* _book_sort_key, and its order.
SortKey(r) == <<r.epoch, r.sequence, IF r.kind = "snap" THEN 0 ELSE 1>>
KeyBelow(k, l) ==
  \E n \in 1..3 : k[n] < l[n] /\ \A m \in 1..(n - 1) : k[m] = l[m]

\* heapq.merge: in each of its turns the smaller head, the snapshots' on a tie.
\* It trusts its inputs to be sorted.
SmallerHead(at, record, none) ==
  IF at.snaps = <<>> \/ /\ at.deltas # <<>>
                        /\ KeyBelow(SortKey(Head(at.deltas)), SortKey(Head(at.snaps)))
  THEN [at EXCEPT !.deltas = Tail(@), !.out = Append(@, Head(at.deltas))]
  ELSE [at EXCEPT !.snaps = Tail(@), !.out = Append(@, Head(at.snaps))]

Merging == INSTANCE SeqLoop WITH Body <- SmallerHead
Merged(snaps, deltas) ==
  Merging!Loop([snaps |-> snaps, deltas |-> deltas, out |-> <<>>], snaps \o deltas, {}).out

\* FoldOrderError: a record behind its predecessor in the merged order, or its
\* topic's predecessor in offset.
OutOfOrder(acc, r) ==
  \/ acc.keys # <<>> /\ KeyBelow(SortKey(r), Last(acc.keys))
  \/ \E o \in acc.offsets[r.kind] : r.offset < o

\* A delta whose sequence a periodic snapshot has borrowed is in it already.
FoldDelta(book, r) ==
  IF r.sequence = book.sequence THEN book ELSE Moved(book, r.sequence, r.changes)

\* The numbers missing before r where the venue's own are contiguous.
SeqGap(book, r, contiguous) ==
  IF r.kind = "delta" /\ contiguous /\ book.sequence >= 0 /\ r.sequence > book.sequence + 1
  THEN r.sequence - book.sequence - 1 ELSE 0

\* One turn of _fold: a new book for a new epoch, the record applied, the row
\* of book_quality, and a cleared book after an invariant error.
Folded(acc, r, contiguous) ==
  LET base == IF r.epoch = acc.epoch THEN acc.book ELSE Cleared
      book == IF r.kind = "snap" THEN Snapped(base, r.sequence, r.levels)
              ELSE FoldDelta(base, r)
      row == [of |-> r, levels |-> book.levels, invariant |-> book.raised,
              seq_gap |-> SeqGap(base, r, contiguous)]
  IN  IF acc.refused \/ OutOfOrder(acc, r) THEN [acc EXCEPT !.refused = TRUE]
      ELSE [refused |-> FALSE, epoch |-> r.epoch,
            book |-> IF book.raised = "none" THEN book ELSE Cleared,
            keys |-> <<SortKey(r)>>, offsets |-> [acc.offsets EXCEPT ![r.kind] = {r.offset}],
            rows |-> Append(acc.rows, row)]

Folding == INSTANCE SeqLoop WITH Body <- Folded
Fold(records, contiguous) ==
  Folding!Loop([refused |-> FALSE, epoch |-> 0, book |-> Cleared, keys |-> <<>>,
                offsets |-> [snap |-> {}, delta |-> {}], rows |-> <<>>],
               records, contiguous)

\* The records of one topic.
KeptIn(topic, r, kind) == IF r.kind = kind THEN Append(topic, r) ELSE topic
Filtering == INSTANCE SeqLoop WITH Body <- KeptIn
OfKind(log, kind) == Filtering!Loop(<<>>, log, kind)

\* fold_book_partition over the topics as they lie in bronze (silver/main.py).
StreamingFold(log, contiguous) ==
  Fold(Merged(OfKind(log, "snap"), OfKind(log, "delta")), contiguous)

\* sorted: each record behind those placed before it, except the ones its key is
\* below.
Placed(sorted, r, none) ==
  LET stay == {n \in DOMAIN sorted : ~KeyBelow(SortKey(r), SortKey(sorted[n]))}
  IN  InsertAt(sorted, Cardinality(stay) + 1, r)
Sorting == INSTANCE SeqLoop WITH Body <- Placed
Sorted(records) == Sorting!Loop(<<>>, records, {})

\* build_silver sorts each stream by the key first.
InMemoryFold(log, contiguous) ==
  Fold(Merged(Sorted(OfKind(log, "snap")), Sorted(OfKind(log, "delta"))), contiguous)

\* _quote_row: a row for a valid event of a two-sided book.
HasQuote(row) ==
  /\ row.invariant = "none"
  /\ \A side \in {"bid", "ask"} : \E l \in row.levels : l.side = side
=============================================================================
