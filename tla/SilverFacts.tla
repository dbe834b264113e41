---------------------------- MODULE SilverFacts ----------------------------
(***************************************************************************)
(* silver/dq.py past the fold (BookFold): the rows one bronze partition of   *)
(* one date becomes, venue status, and the NBBO of a canonical symbol.       *)
(* A book event is the fold's: [kind, epoch, recv, local, exch, gap,         *)
(* invariant, bid, ask]; recv is <<>> where the header is missing, bid and   *)
(* ask are <<>> where the side is empty, exch is 0 for a local record.       *)
(***************************************************************************)
EXTENDS AsOf

CONSTANTS MaxLegAge,       \* MAX_LEG_AGE_NS
          ReorderWindow    \* WINDOW_NS

Pick(test(_), rows) == SelectSeq(rows, test)
Mapped(op(_), rows) == [i \in DOMAIN rows |-> op(rows[i])]

\* The receive clock every row of a date shares, else the emit clock.
Clock(r) == IF r.recv = <<>> THEN r.local ELSE r.recv[1]

\* _quote_row: the touch of a valid two-sided book.
QuoteRows(events) ==
  Mapped(LAMBDA e : [ts |-> Clock(e), bid |-> e.bid[1], ask |-> e.ask[1]],
         Pick(LAMBDA e : ~e.invariant /\ e.bid # <<>> /\ e.ask # <<>>, events))

\* _book_quality_row: a row for every event of the fold.
QualityRows(events) ==
  Mapped(LAMBDA e : [kind |-> e.kind, epoch |-> e.epoch, recv |-> e.recv, seq_gap |-> e.gap,
                     invariant |-> e.invariant], events)

\* _latency_dict: none for a local record or without the receive clock.
LatencyRow(dataset, r) ==
  IF r.exch = 0 \/ r.recv = <<>> THEN <<>>
  ELSE <<[dataset |-> dataset, emit |-> r.local - r.exch]>>

\* book_latency_row: a book event's dataset is the one its record came from.
BookDataset(e) == IF e.kind = "snap" THEN "book_snapshots" ELSE "book_deltas"

\* tape_and_latency_rows: every record of the tape, on the clock of the quotes.
TapeRows(records) == Mapped(LAMBDA r : [ts |-> Clock(r), val |-> r.val], records)

\* SILVER_DATASETS: the tape is lifted whole.
TapeDatasets == {"trades", "liquidations", "mark_price", "open_interest"}
SilverDatasets == TapeDatasets \cup {"latency", "quotes", "book_quality"}

\* What _process_partition writes of a bronze partition [events, tape].
PartitionRows(part) ==
  LET tapes == <<"trades", "liquidations", "mark_price", "open_interest">>
      latencies ==
        Mapped(LAMBDA e : LatencyRow(BookDataset(e), e), part.events)
        \o FlattenSeq(Mapped(LAMBDA ds : Mapped(LAMBDA r : LatencyRow(ds, r), part.tape[ds]),
                             tapes))
  IN  [ds \in SilverDatasets |->
         CASE ds \in TapeDatasets -> TapeRows(part.tape[ds])
           [] ds = "book_quality" -> QualityRows(part.events)
           [] ds = "quotes" -> QuoteRows(part.events)
           [] ds = "latency" -> FlattenSeq(latencies)]

IsTransition(prev, state) == prev # "none" /\ state # prev

\* _status_transitions over [ts, state], sorted by the reporter's clock.
StatusRows(records) ==
  LET sorted == InOrder(records, DOMAIN records)
      Prev(i) == IF i = 1 THEN "none" ELSE sorted[i - 1].state
      downs(i) == {sorted[j].ts : j \in {j \in 1..(i - 1) : sorted[j].state = "down"}}
  IN  [i \in DOMAIN sorted |->
        [ts |-> sorted[i].ts, state |-> sorted[i].state,
         is_transition |-> IsTransition(Prev(i), sorted[i].state),
         downtime |-> IF sorted[i].state = "up" /\ Prev(i) = "down"
                      THEN sorted[i].ts - Max(downs(i)) ELSE 0]]

\* downs_by_exchange, of one exchange.
Downs(rows) == Mapped(LAMBDA r : r.ts, Pick(LAMBDA r : r.state = "down" /\ r.is_transition, rows))

\* One venue's stream: its quotes through the reorder buffer, then heapq.merge
\* with its down sentinels, quotes first at equal ts.
VenueStream(quotes, downs) ==
  LET ordered == Reordered(Mapped(LAMBDA q : [ts |-> q.ts, val |-> <<q>>], quotes), ReorderWindow)
      sentinels == Mapped(LAMBDA ts : [ts |-> ts, val |-> <<>>], SortSeq(downs, LAMBDA a, b : a < b))
      all == ordered.out \o sentinels
  IN  [late |-> ordered.late, out |-> InOrder(all, DOMAIN all)]

\* A faulty eviction: a down venue's leg goes, a quiet one's stays.
LiveUnlessDown(snap) == {v \in DOMAIN snap.latest : snap.latest[v] # <<>>}

\* The venues whose leg is neither evicted nor stale at this tick.
LiveLegs(snap) ==
  {v \in DOMAIN snap.latest :
     snap.latest[v] # <<>> /\ snap.ts - snap.latest[v][1].ts <= MaxLegAge}

\* Max bid and min ask of the live legs; ties by the venue's name (a natural).
BestOf(ts, legs) ==
  LET live == DOMAIN legs
      bid == CHOOSE v \in live : \A w \in live :
               ~Before(<<legs[v].bid, v>>, <<legs[w].bid, w>>)
      ask == CHOOSE v \in live : \A w \in live :
               ~Before(<<legs[w].ask, w>>, <<legs[v].ask, v>>)
  IN  [ts |-> ts, bid |-> legs[bid].bid, ask |-> legs[ask].ask,
       bid_venue |-> bid, ask_venue |-> ask, n_venues |-> Cardinality(live)]

\* iter_nbbo.
NbboRows(streams) ==
  LET quoted == Pick(LAMBDA snap : LiveLegs(snap) # {}, MergeLatest(streams))
  IN  Mapped(LAMBDA snap : BestOf(snap.ts, [v \in LiveLegs(snap) |-> snap.latest[v][1]]), quoted)

\* _build_nbbo_streaming for one canonical symbol: quotes and downs by venue.
StreamedNbbo(quotes, downs) ==
  LET streams == [v \in DOMAIN quotes |-> VenueStream(quotes[v], downs[v])]
  IN  [late |-> \E v \in DOMAIN streams : streams[v].late,
       rows |-> NbboRows([v \in DOMAIN streams |-> streams[v].out])]
=============================================================================
