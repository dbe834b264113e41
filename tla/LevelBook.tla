----------------------------- MODULE LevelBook -----------------------------
(***************************************************************************)
(* ingest/book.py: the OrderBook the ingesters keep and silver's fold        *)
(* rebuilds.  A level is there or not: sizes are left out, so an update of a *)
(* size is no change.  An operation that raises BookInvariantError leaves    *)
(* its kind in `raised`, and the book as the code leaves it.                 *)
(***************************************************************************)
EXTENDS Integers, FiniteSets, SequencesExt

\* A level is [side : {"bid", "ask"}, px : Nat]; a delta is a sequence of
\* [level, on]: set a size, or remove it.
Changes(levels, on) == {[level |-> l, on |-> on] : l \in levels}

\* OrderBook(), and what clear() leaves.
Cleared == [levels |-> {}, sequence |-> -1, raised |-> "none"]

Crossed(levels) ==
  \E bid, ask \in levels : bid.side = "bid" /\ ask.side = "ask" /\ bid.px >= ask.px

\* apply_snapshot: validated before it is committed.
Snapped(book, sequence, levels) ==
  IF Crossed(levels) THEN [book EXCEPT !.raised = "snapshot_crossed"]
  ELSE [levels |-> levels, sequence |-> sequence, raised |-> "none"]

\* The levels after the changes, the last one of a level counting.
ChangeOne(levels, c, none) == IF c.on THEN levels \cup {c.level} ELSE levels \ {c.level}
Changing == INSTANCE SeqLoop WITH Body <- ChangeOne
Changed(levels, changes) == Changing!Loop(levels, changes, {})

\* apply_delta: applied, then validated; a crossed book keeps its old sequence.
Moved(book, sequence, changes) ==
  LET after == Changed(book.levels, changes)
  IN  IF sequence <= book.sequence THEN [book EXCEPT !.raised = "non_monotonic_seq"]
      ELSE IF Crossed(after)
      THEN [book EXCEPT !.levels = after, !.raised = "crossed_after_delta"]
      ELSE [levels |-> after, sequence |-> sequence, raised |-> "none"]

Better(l, than) ==
  l.side = than.side /\ IF l.side = "bid" THEN l.px > than.px ELSE l.px < than.px

\* top_n of both sides.
Top(levels, n) == {l \in levels : Cardinality({m \in levels : Better(m, l)}) < n}

\* A faulty trim: none.
NoEviction(levels, depth) == {}

\* trim: the levels beyond the `depth` best of each side.
Evicted(levels, depth) == levels \ Top(levels, depth)

\* kraken_checksum: the digits of the best `n` levels of each side; collisions
\* of the CRC are left out.
Checksum(levels, n) == Top(levels, n)
=============================================================================
