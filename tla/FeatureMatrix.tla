--------------------------- MODULE FeatureMatrix ---------------------------
(***************************************************************************)
(* research: the point-in-time feature matrix of one date (features.py), the *)
(* rows a model may see (model.py) and the walk-forward splits               *)
(* (validation.py).  Time is in ticks, Bar of them to a bar.                 *)
(* A silver date is [quotes, nbbo, trades, marks, oi, liqs]: functions from  *)
(* legs (nbbo: symbols) to rows sorted by ts; load_* sort unstably, so the   *)
(* order within a ts is any.  A cell is <<>> where it is null; a return is   *)
(* the pair of values it compares, a flow the sum of its events.             *)
(***************************************************************************)
EXTENDS AsOf

CONSTANTS Bar, MaxAge, MaxTapeAge,   \* BAR_NS, MAX_AGE_MS, MAX_TAPE_AGE_MS
          StalenessPercent,          \* WINDOW_STALENESS_FRAC
          FlowWindows, ReturnWindows, Horizons,
          ValPercent                 \* VAL_FRAC

Larger(a, b) == IF a > b THEN a ELSE b
BarClose(ts) == (ts \div Bar) * Bar

\* _grid: the bar closes from the first quote's bar to the last quote's.
Grid(first, last) == {n * Bar : n \in (first \div Bar)..(last \div Bar)}

\* A faulty _bar_index: the bar that is open at ts, not the one ts closes in.
OpenBar(ts) == BarClose(ts)

\* _bar_index: the bar (t - Bar, t] of a timestamp.
BarIndex(ts) == BarClose(ts + Bar - 1)

\* join_asof(strategy="backward"): the last row at or before t.
Backward(rows, t) == {i \in DOMAIN rows : rows[i].ts <= t}

Found(rows, t) == IF Backward(rows, t) = {} THEN <<>> ELSE <<rows[Max(Backward(rows, t))]>>

\* _asof's staleness column, <<>> before the first row.
Age(rows, t) == IF Found(rows, t) = <<>> THEN <<>> ELSE <<t - Found(rows, t)[1].ts>>

AtMost(age, tolerance) == age # <<>> /\ age[1] <= tolerance

\* _window_tol: what a w-bar window accepts at its far endpoint.
WindowTol(w, floor) == Larger(floor, (w * Bar * StalenessPercent) \div 100)

\* _at_offset: the row k bars away (back, or forward for k < 0) if that bar is
\* on the grid and holds a fresh one.
AtOffset(rows, grid, t, k, tolerance) ==
  IF t - k * Bar \in grid /\ AtMost(Age(rows, t - k * Bar), tolerance)
  THEN Found(rows, t - k * Bar) ELSE <<>>

\* The change over w bars back of field `of`: <<now, then>>.
Change(rows, grid, t, w, tolerance, of) ==
  LET far == AtOffset(rows, grid, t, w, tolerance)
  IN  IF far = <<>> \/ Found(rows, t) = <<>> THEN <<>> ELSE <<Found(rows, t)[1][of], far[1][of]>>

\* _returns.
Returns(quotes, grid, t) ==
  [w \in ReturnWindows |-> Change(quotes, grid, t, w, WindowTol(w, MaxAge), "mid")]

\* _mark_features: the basis now, its age, and its change over each window.
MarkFeatures(marks, grid, t) ==
  [now |-> Found(marks, t), age |-> Age(marks, t),
   change |-> [w \in FlowWindows |->
                 Change(marks, grid, t, w, WindowTol(w, MaxTapeAge), "basis")]]

\* _oi_features: likewise, the change relative to a level that is not zero.
OiFeatures(oi, grid, t) ==
  LET Moved(w) == Change(oi, grid, t, w, WindowTol(w, MaxTapeAge), "level")
      IsRatio(change) == change # <<>> /\ change[2] > 0
  IN  [now |-> Found(oi, t), age |-> Age(oi, t),
       change |-> [w \in FlowWindows |-> IF IsRatio(Moved(w)) THEN Moved(w) ELSE <<>>]]

\* _captured, and rolling_sum's full window: w bars of the grid, all live.
Captured(grid, live, t, w) ==
  \A b \in 0..(w - 1) : t - b * Bar \in grid /\ live[t - b * Bar]

\* A flow of one bar, zero where nothing happened, and over the last w bars.
BarFlow(events, t) ==
  FoldLeft(LAMBDA sum, e : IF BarIndex(e.ts) = t THEN sum + e.size ELSE sum, 0, events)
Rolled(events, grid, live, t, w) ==
  IF ~Captured(grid, live, t, w) THEN <<>>
  ELSE <<MapThenSumSet(LAMBDA b : BarFlow(events, t - b * Bar), 0..(w - 1))>>

\* _flow_features: signed size, by bar and rolled.
Flows(events, grid, live, t) ==
  [bar |-> BarFlow(events, t),
   rolled |-> [w \in FlowWindows |-> Rolled(events, grid, live, t, w)]]

\* _ofi's event: the pressure between two quotes, none across a hole.  The touch
\* and its sizes are left out: the mid's move stands for them.
Pressure(before, after) == IF after.ts - before.ts <= MaxAge THEN after.mid - before.mid ELSE 0
Ofi(quotes) ==
  [i \in DOMAIN quotes |->
    [ts |-> quotes[i].ts, size |-> IF i = 1 THEN 0 ELSE Pressure(quotes[i - 1], quotes[i])]]

\* The NBBO of the primary symbol is the capture clock of the date.
Live(date, symbol, grid) == [t \in grid |-> AtMost(Age(date.nbbo[symbol], t), MaxAge)]

\* _liq_features: the same of the liquidations, which are flow as well.
LiqFeatures(liqs, grid, live, t) == Flows(liqs, grid, live, t)

\* _perp_features: the tape of every venue that publishes one.
PerpFeatures(date, grid, live, t) ==
  [mark |-> [v \in DOMAIN date.marks |-> MarkFeatures(date.marks[v], grid, t)],
   oi |-> [v \in DOMAIN date.oi |-> OiFeatures(date.oi[v], grid, t)],
   liq |-> [v \in DOMAIN date.liqs |-> LiqFeatures(date.liqs[v], grid, live, t)]]

\* _align of a venue's _book_features: its touch as of t, and how old that is.
BookFeatures(quotes, t) == [now |-> Found(quotes, t), age |-> Age(quotes, t)]

\* The columns knowable at t: books, returns and order flow of the legs, the
\* taker flow of the trades, the perp tape, the consolidated book.
Features(date, symbol, grid, t) ==
  LET live == Live(date, symbol, grid)
  IN  [book |-> [v \in DOMAIN date.quotes |-> BookFeatures(date.quotes[v], t)],
       ret |-> [v \in DOMAIN date.quotes |-> Returns(date.quotes[v], grid, t)],
       ofi |-> [v \in DOMAIN date.quotes |-> Flows(Ofi(date.quotes[v]), grid, live, t)],
       flow |-> [v \in DOMAIN date.trades |-> Flows(date.trades[v], grid, live, t)],
       perp |-> PerpFeatures(date, grid, live, t),
       nbbo |-> BookFeatures(date.nbbo[symbol], t)]

\* _dead_zone of the move <<now, then>>: mids are doubled, so half a spread is one.
DeadZone(ret, spread) ==
  IF ret = <<>> THEN <<>>
  ELSE IF ret[2] - ret[1] > spread THEN <<1>>
  ELSE IF ret[1] - ret[2] > spread THEN <<-1>> ELSE <<0>>

\* _add_targets over one book: the only columns that look forward, guarded alike.
Targets(rows, grid, t) ==
  [h \in Horizons |->
     LET far == AtOffset(rows, grid, t, -h, WindowTol(h, MaxAge))
         ret == IF far = <<>> \/ Found(rows, t) = <<>> THEN <<>>
                ELSE <<Found(rows, t)[1].mid, far[1].mid>>
     IN  [ret |-> ret,
          dz |-> IF ret = <<>> THEN <<>> ELSE DeadZone(ret, Found(rows, t)[1].spread)]]

\* build_features: <<>> without an NBBO or a leg of the primary symbol, which
\* alone anchor the grid; `legs` are the legs of that symbol.
Matrix(date, symbol, legs) ==
  LET quoted == UNION {{date.quotes[v][i].ts : i \in DOMAIN date.quotes[v]}
                       : v \in legs \cap DOMAIN date.quotes}
      grid == Grid(Min(quoted), Max(quoted))
  IN  IF symbol \notin DOMAIN date.nbbo \/ quoted = {} THEN <<>>
      ELSE [t \in grid |-> [features |-> Features(date, symbol, grid, t),
                            y |-> Targets(date.nbbo[symbol], grid, t)]]

-----------------------------------------------------------------------------
\* clean: a target, and no book or tape staler than its tolerance.
Clean(row, h) ==
  LET Fresh(columns, tolerance) ==
        \A v \in DOMAIN columns : columns[v].age = <<>> \/ columns[v].age[1] <= tolerance
      perp == row.features.perp
  IN  /\ row.y[h].ret # <<>>
      /\ Fresh(row.features.book, MaxAge)
      /\ Fresh(perp.mark, MaxTapeAge) /\ Fresh(perp.oi, MaxTapeAge)
      /\ Fresh(<<row.features.nbbo>>, MaxTapeAge)

\* The rows a run keeps of its matrices, in time: pl.concat(frames).sort("ts_ns").
Kept(matrices, h) ==
  LET Rows(d) == {t \in DOMAIN matrices[d] : Clean(matrices[d][t], h)}
      OfDate(d) == LET ts == Ascending(Rows(d), LAMBDA a, b : a < b)
                   IN  [i \in DOMAIN ts |-> [date |-> d, ts |-> ts[i]]]
  IN  FlattenSeq([d \in DOMAIN matrices |-> OfDate(d)])

\* Python's round(): half to even.
Rounded(n, percent) ==
  LET q == (n * percent) \div 100
      r == (n * percent) % 100
  IN  IF r > 50 \/ (r = 50 /\ q % 2 = 1) THEN q + 1 ELSE q

Firsts(rows, n) == SubSeq(rows, 1, Larger(0, n))

\* The rows to fit: what is older than the validation slice and its gap.
Fitted(train, n_val, h) == Firsts(train, Len(train) - n_val - h)

\* split_on_dates: [fit] gap [val] gap [test]; <<>> where one is empty.
SplitOn(rows, h, train_dates, test_dates) ==
  LET OfDates(dates) == SelectSeq(rows, LAMBDA r : r.date \in dates)
      train == Firsts(OfDates(train_dates), Len(OfDates(train_dates)) - h)
      n_val == Rounded(Len(train), ValPercent)
      split == [fit |-> Fitted(train, n_val, h),
                val |-> SubSeq(train, Len(train) - n_val + 1, Len(train)),
                test |-> OfDates(test_dates)]
  IN  IF \E part \in {"fit", "val", "test"} : split[part] = <<>> THEN <<>> ELSE <<split>>

\* walk_forward: expanding folds over the dates that kept a row.
WalkForward(rows, h, min_train, test_size, step) ==
  LET dates == Ascending({rows[i].date : i \in DOMAIN rows}, LAMBDA a, b : a < b)
      Days(from, to) == {dates[i] : i \in from..to}
      starts == {min_train + k * step : k \in 0..Len(dates)}
      usable == {s \in starts : s + test_size <= Len(dates)}
      Fold(s) == SplitOn(rows, h, Days(1, s), Days(s + 1, s + test_size))
  IN  UNION {{Fold(s)[1] : n \in DOMAIN Fold(s)} : s \in usable}

\* _strided: every h-th row of a fold's test.
Strided(rows, h) == [n \in 1..((Len(rows) + h - 1) \div h) |-> rows[(n - 1) * h + 1]]
=============================================================================
