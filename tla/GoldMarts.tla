----------------------------- MODULE GoldMarts -----------------------------
(***************************************************************************)
(* gold: the scorecard of one date, the budget its rows are held to, and the *)
(* USDT/USD basis.  A scorecard row is [exchange, symbol, check, n_records,  *)
(* n_violations, p99, detail]; a check is a tuple of words, <<"latency", d>> *)
(* for latency.d; p99 is in hundredths, <<>> where there is none.            *)
(***************************************************************************)
EXTENDS SilverFacts

Row(exchange, symbol, check, n, violations, p99, detail) ==
  [exchange |-> exchange, symbol |-> symbol, check |-> check, n_records |-> n,
   n_violations |-> violations, p99 |-> p99, detail |-> detail]

Sum(values) == FoldLeft(LAMBDA a, b : a + b, 0, values)
Largest(values) == FoldLeft(LAMBDA a, b : IF b > a THEN b ELSE a, 0, values)

Deltas(rows) == Pick(LAMBDA r : r.kind = "delta", rows)
Gaps(rows) == Mapped(LAMBDA r : r.seq_gap, Pick(LAMBDA r : r.seq_gap > 0, Deltas(rows)))

\* The receive clocks of the deltas, with their epochs, in fold order.
Clocked(rows) ==
  Mapped(LAMBDA r : <<r.recv[1], r.epoch>>, Pick(LAMBDA r : r.recv # <<>>, Deltas(rows)))

\* BookCheckAccumulator(): nothing counted, no clock carried.
NoBook ==
  [total |-> 0, deltas |-> 0, gaps |-> 0, missing |-> 0, max_gap |-> 0, invariants |-> 0,
   intra |-> 0, inter |-> 0, worst |-> 0, last |-> <<>>]

\* The clocks of a batch behind the last one of the batch before.
Carried(acc, rows) == acc.last \o Clocked(rows)

\* BookCheckAccumulator.update with _clock_update, columnar over one batch.
BookUpdate(acc, rows) ==
  LET clocks == Carried(acc, rows)
      back == {i \in 2..Len(clocks) : clocks[i][1] < clocks[i - 1][1]}
      intra == {i \in back : clocks[i][2] = clocks[i - 1][2]}
      lateness == {clocks[i - 1][1] - clocks[i][1] : i \in intra}
  IN  [total |-> acc.total + Len(rows), deltas |-> acc.deltas + Len(Deltas(rows)),
       gaps |-> acc.gaps + Len(Gaps(rows)), missing |-> acc.missing + Sum(Gaps(rows)),
       max_gap |-> Largest(<<acc.max_gap>> \o Gaps(rows)),
       invariants |-> acc.invariants + Len(Pick(LAMBDA r : r.invariant, rows)),
       intra |-> acc.intra + Cardinality(intra), inter |-> acc.inter + Cardinality(back \ intra),
       worst |-> Max(lateness \cup {acc.worst}),
       last |-> IF clocks = <<>> THEN <<>> ELSE <<Last(clocks)>>]

\* BookCheckAccumulator.rows.
BookRows(v, s, acc) ==
  {Row(v, s, <<"sequence_gap">>, acc.deltas, acc.gaps, <<>>, <<acc.missing, acc.max_gap>>),
   Row(v, s, <<"book_invariant">>, acc.total, acc.invariants, <<>>, <<>>),
   Row(v, s, <<"coverage">>, acc.total, 0, <<>>, <<acc.total - acc.deltas, acc.deltas>>),
   Row(v, s, <<"clock_monotonic">>, acc.deltas, acc.intra, <<>>, <<acc.worst, acc.inter>>)}

\* _clock_monotonic_row: the oracle, one record at a time.
ClockWalk(rows) ==
  LET Walked(w, r) ==
        IF r.kind # "delta" \/ r.recv = <<>> THEN w
        ELSE LET back == w.prev # <<>> /\ r.recv[1] < w.prev[1][1]
                 same == back /\ r.epoch = w.prev[1][2]
             IN  [prev |-> <<<<r.recv[1], r.epoch>>>>,
                  intra |-> w.intra + (IF same THEN 1 ELSE 0),
                  inter |-> w.inter + (IF back /\ ~same THEN 1 ELSE 0),
                  worst |-> IF same /\ w.prev[1][1] - r.recv[1] > w.worst
                            THEN w.prev[1][1] - r.recv[1] ELSE w.worst]
  IN  FoldLeft(Walked, [prev |-> <<>>, intra |-> 0, inter |-> 0, worst |-> 0], rows)

\* _book_checks: the oracle, over one partition's rows.
BookChecks(v, s, rows) ==
  LET deltas == {i \in DOMAIN rows : rows[i].kind = "delta"}
      gapped == {i \in deltas : rows[i].seq_gap > 0}
      clock == ClockWalk(rows)
  IN  {Row(v, s, <<"sequence_gap">>, Cardinality(deltas), Cardinality(gapped), <<>>,
           <<MapThenSumSet(LAMBDA i : rows[i].seq_gap, gapped),
             Max({rows[i].seq_gap : i \in gapped} \cup {0})>>),
       Row(v, s, <<"book_invariant">>, Len(rows),
           Cardinality({i \in DOMAIN rows : rows[i].invariant}), <<>>, <<>>),
       Row(v, s, <<"coverage">>, Len(rows), 0, <<>>,
           <<Len(rows) - Cardinality(deltas), Cardinality(deltas)>>),
       Row(v, s, <<"clock_monotonic">>, Cardinality(deltas), clock.intra, <<>>,
           <<clock.worst, clock.inter>>)}

\* numpy's percentile of sorted values, linear between neighbours, in hundredths.
Percentile(p, values) ==
  LET sorted == SortSeq(values, LAMBDA a, b : a < b)
      at == (p * (Len(values) - 1)) \div 100
      between == (p * (Len(values) - 1)) % 100
  IN  100 * sorted[at + 1]
      + (IF between = 0 THEN 0 ELSE between * (sorted[at + 2] - sorted[at + 1]))

\* LatencyAccumulator: a row for every dataset of the partition.
LatencyChecks(v, s, rows) ==
  {LET emits == Mapped(LAMBDA r : r.emit, Pick(LAMBDA r : r.dataset = d, rows))
   IN  Row(v, s, <<"latency", d>>, Len(emits), 0, <<Percentile(99, emits)>>, <<Largest(emits)>>)
   : d \in {rows[i].dataset : i \in DOMAIN rows}}

\* _status_checks: one venue's uptime; its rows name no symbol.
StatusCheck(v, rows) ==
  LET transitions == Pick(LAMBDA r : r.is_transition, rows)
      downs == Pick(LAMBDA r : r.state = "down", transitions)
  IN  Row(v, "none", <<"venue_uptime">>, Len(rows), Len(downs), <<>>,
          <<Len(transitions), Sum(Mapped(LAMBDA r : r.downtime, rows)), Last(rows).state>>)

\* absent_partition_rows: a coverage row of no records for every declared pair
\* without a row of any check.
AbsentRows(rows, declared) ==
  LET seen == {<<r.exchange, r.symbol>> : r \in rows}
  IN  {Row(p[1], p[2], <<"coverage">>, 0, 0, <<>>, <<"absent">>) : p \in declared \ seen}

-----------------------------------------------------------------------------
(* The budget: [default, checks]; a check's node is [limit, exchanges], an   *)
(* exchange's scope [limit, symbols]; a limit maps the bounds it sets.       *)

\* Limit.under: the fields `over` sets win.
Under(limit, over) == over @@ limit

\* The config keys of a check, its family first.
Keys(check) == IF Len(check) = 2 THEN <<<<check[1]>>, check>> ELSE <<check>>

\* A faulty ladder: the exact check outranks its family at every scope.
LadderByNode(nodes, exchange, symbol) ==
  FlattenSeq(Mapped(LAMBDA n :
    IF exchange \notin DOMAIN n.exchanges THEN <<n.limit>>
    ELSE LET scope == n.exchanges[exchange]
         IN  <<n.limit, scope.limit>>
             \o (IF symbol \in DOMAIN scope.symbols THEN <<scope.symbols[symbol]>> ELSE <<>>),
    nodes))

\* _ladder: every limit that applies, the least specific first; scope dominates.
Ladder(nodes, exchange, symbol) ==
  LET scopes == Mapped(LAMBDA n : n.exchanges[exchange],
                       Pick(LAMBDA n : exchange \in DOMAIN n.exchanges, nodes))
  IN  Mapped(LAMBDA n : n.limit, nodes) \o Mapped(LAMBDA c : c.limit, scopes)
      \o Mapped(LAMBDA c : c.symbols[symbol],
                Pick(LAMBDA c : symbol \in DOMAIN c.symbols, scopes))

\* limit_for: the default only where no node names the check or its family.
LimitFor(budget, check, exchange, symbol) ==
  LET nodes == Mapped(LAMBDA k : budget.checks[k],
                      Pick(LAMBDA k : k \in DOMAIN budget.checks, Keys(check)))
  IN  FoldLeft(Under, IF nodes = <<>> THEN budget.default ELSE <<>>,
               Ladder(nodes, exchange, symbol))

\* Whether a value of the row is past a bound; max_rate is in percent.
Past(row, name, bound) ==
  CASE name = "max_violations" -> row.n_violations > bound
    [] name = "max_rate" -> row.n_records > 0 /\ 100 * row.n_violations > bound * row.n_records
    [] name = "min_records" -> row.n_records < bound
    [] name = "max_p99" -> row.p99 # <<>> /\ row.p99[1] > bound

\* row_breaches: each limit is a tripwire of its own.
RowBreaches(budget, row) ==
  LET limit == LimitFor(budget, row.check, row.exchange, row.symbol)
  IN  {name \in DOMAIN limit : Past(row, name, limit[name])}

Breaches(budget, rows) == UNION {{<<r, name>> : name \in RowBreaches(budget, r)} : r \in rows}

-----------------------------------------------------------------------------
\* Both legs have quoted, and neither is stale at this tick.
BothLive(snap) ==
  /\ {"usd", "usdt"} \subseteq DOMAIN snap.latest
  /\ \A leg \in {"usd", "usdt"} : snap.ts - snap.latest[leg].ts <= MaxLegAge

\* iter_basis over the two legs' NBBO rows; the spread is that of doubled mids.
BasisRows(base, usd, usdt) ==
  LET Leg(rows) == Mapped(LAMBDA r : [ts |-> r.ts, val |-> r], rows)
      ticks == MergeLatest("usd" :> Leg(usd) @@ "usdt" :> Leg(usdt))
      Doubled(q) == q.bid + q.ask
  IN  Mapped(LAMBDA snap : [base |-> base, ts |-> snap.ts,
                            basis |-> Doubled(snap.latest["usd"]) - Doubled(snap.latest["usdt"])],
             Pick(BothLive, ticks))

\* summary_row; the mean as the sum it divides.
Summary(base, rows) ==
  LET of == Mapped(LAMBDA r : r.basis, rows)
      ts == {rows[i].ts : i \in DOMAIN rows}
      values == {of[i] : i \in DOMAIN of}
  IN  [base |-> base, n_obs |-> Len(rows), total |-> Sum(of), min |-> Min(values),
       max |-> Max(values), coverage |-> Max(ts) - Min(ts)]
=============================================================================
