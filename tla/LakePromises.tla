---------------------------- MODULE LakePromises ----------------------------
(***************************************************************************)
(* What the batch jobs promise of the lake: the silver of a date that is     *)
(* complete is that of its bronze, the gold of it that of its silver, no     *)
(* feature and no split of a study sees its future, and the feature cache    *)
(* serves the silver its key was taken of.  Each is stated over definitions  *)
(* of its own, not over the ones the jobs compute with.                      *)
(***************************************************************************)
EXTENDS LakeJobs

\* The quote a venue shows at t: the last by time, then by the fold's order.
ShownAt(quotes, t) ==
  LET past == {i \in DOMAIN quotes : quotes[i].ts <= t}
  IN  {i \in past : \A j \in past : ~Before(<<quotes[i].ts, i>>, <<quotes[j].ts, j>>)}

\* The times a venue that was heard of before goes down.
DownAt(heartbeats) ==
  LET Earlier(i) == {j \in DOMAIN heartbeats :
                       Before(<<heartbeats[j].ts, j>>, <<heartbeats[i].ts, i>>)}
      Latest(of) == CHOOSE j \in of : \A k \in of :
                      ~Before(<<heartbeats[j].ts, j>>, <<heartbeats[k].ts, k>>)
  IN  {heartbeats[i].ts : i \in {i \in DOMAIN heartbeats :
         /\ heartbeats[i].state = "down" /\ Earlier(i) # {}
         /\ heartbeats[Latest(Earlier(i))].state # "down"}}

\* The NBBO at every instant a quote or a down arrives, venue by venue: the leg
\* counts while it is young and its venue has not gone down since.
PointInTime(quotes, downs) ==
  LET ticks == UNION {{quotes[v][i].ts : i \in DOMAIN quotes[v]} \cup downs[v]
                      : v \in DOMAIN quotes}
      LegAt(v, t) == {quotes[v][i] : i \in {i \in ShownAt(quotes[v], t) :
                        /\ t - quotes[v][i].ts <= MaxLegAge
                        /\ \A down \in downs[v] : ~(quotes[v][i].ts <= down /\ down <= t)}}
      LegsAt(t) == {v \in DOMAIN quotes : LegAt(v, t) # {}}
      quoted == Ascending({t \in ticks : LegsAt(t) # {}}, LAMBDA a, b : a < b)
  IN  [n \in DOMAIN quoted |->
        BestOf(quoted[n], [v \in LegsAt(quoted[n]) |-> CHOOSE q \in LegAt(v, quoted[n]) : TRUE])]

\* A symbol's quotes by venue, and its NBBO, as a date's bronze b has them in it.
QuotesOfBronze(b, s) ==
  [v \in {p[1] : p \in {p \in DOMAIN b.parts :
                        p[2] = s /\ PartitionRows(b.parts[p]).quotes # <<>>}}
     |-> PartitionRows(b.parts[<<v, s>>]).quotes]
NbboOfBronze(b, s) ==
  LET quotes == QuotesOfBronze(b, s)
      Down(v) == IF v \in DOMAIN b.status THEN DownAt(b.status[v]) ELSE {}
  IN  PointInTime(quotes, [v \in DOMAIN quotes |-> Down(v)])

\* The silver a date's bronze has in it.
SilverOfBronze(b) ==
  LET silver == [pair \in DOMAIN b.parts |-> PartitionRows(b.parts[pair])]
      of == {<<SilverKey(ds, p), silver[p][ds]>> : ds \in SilverDatasets, p \in DOMAIN b.parts}
            \cup {<<StatusKey(v), StatusRows(b.status[v])>> : v \in DOMAIN b.status}
            \cup {<<NbboKey(s), NbboOfBronze(b, s)>> : s \in Symbols}
      written == {o \in of : o[2] # <<>>}
  IN  [k \in {o[1] : o \in written} |-> (CHOOSE o \in written : o[1] = k)[2]]

\* A date whose markers were written and whose bronze and silver have not moved
\* since holds exactly the silver of its bronze, whichever runs failed, were
\* killed or were repeated before: silver.main, common/lake.PartitionWriter, the
\* reorder buffer and the merge under the NBBO.
SilverIsBronze ==
  \A d \in fresh : /\ \A pair \in DOMAIN bronze[d].parts : bronze[d].parts[pair].ok
                   /\ SilverOf(d) = SilverOfBronze(bronze[d])

-----------------------------------------------------------------------------
\* The bound a budget sets for a check of a pair: that of the narrowest scope
\* which has it, and there of the check itself before its family.
Bounds(check, exchange, symbol) ==
  LET named == {k \in DOMAIN DqBudget.checks : k = check \/ k = <<check[1]>>}
      Rank(k) == IF k = check /\ Len(check) = 2 THEN 1 ELSE 0
      Scope(k) == IF exchange \in DOMAIN DqBudget.checks[k].exchanges
                  THEN {DqBudget.checks[k].exchanges[exchange]} ELSE {}
      all == {[at |-> <<0, Rank(k)>>, limit |-> DqBudget.checks[k].limit] : k \in named}
             \cup UNION {{[at |-> <<1, Rank(k)>>, limit |-> c.limit] : c \in Scope(k)}
                          : k \in named}
             \cup UNION {{[at |-> <<2, Rank(k)>>, limit |-> c.symbols[symbol]] :
                           c \in {c \in Scope(k) : symbol \in DOMAIN c.symbols}} : k \in named}
      Setting(name) == {l \in all : name \in DOMAIN l.limit}
      names == UNION {DOMAIN l.limit : l \in all}
  IN  IF named = {} THEN DqBudget.default
      ELSE [name \in names |->
             LET narrowest(l) == \A m \in Setting(name) : ~Before(l.at, m.at)
             IN  (CHOOSE l \in Setting(name) : narrowest(l)).limit[name]]

OverBudget(rows) ==
  \E r \in rows : LET bounds == Bounds(r.check, r.exchange, r.symbol)
                  IN  \E name \in DOMAIN bounds : Past(r, name, bounds[name])

\* The basis at every instant either leg's NBBO moves, both young.
BasisInTime(base, usd, usdt) ==
  LET ticks == {usd[i].ts : i \in DOMAIN usd} \cup {usdt[i].ts : i \in DOMAIN usdt}
      Young(rows, t) == {i \in ShownAt(rows, t) : t - rows[i].ts <= MaxLegAge}
      Mid(rows, t) == LET i == CHOOSE i \in Young(rows, t) : TRUE IN rows[i].bid + rows[i].ask
      priced == Ascending({t \in ticks : Young(usd, t) # {} /\ Young(usdt, t) # {}},
                             LAMBDA a, b : a < b)
  IN  [n \in DOMAIN priced |-> [base |-> base, ts |-> priced[n],
                                basis |-> Mid(usd, priced[n]) - Mid(usdt, priced[n])]]

\* A date that gold finished and whose silver stands has the scorecard of the
\* row-by-row oracle, however a partition's rows are batched on the way, is
\* called a breach exactly when the narrowest bounds are passed, and has the
\* basis of its two NBBO legs with its summary: gold.main, scorecard's
\* accumulators, budget's ladder, basis.
GoldIsSilvers ==
  \A d \in graded :
    LET silver == SilverOf(d)
        scorecard == ScorecardOf(silver, UNION {BookChecks(k[2], k[3], silver[k])
                                                  : k \in KeysOf(silver, "book_quality")})
        Promised(b) == BasisInTime(b[1], silver[NbboKey(b[2])], silver[NbboKey(b[3])])
        basis == FlattenSeq(Mapped(Promised, Priced(silver, Bases)))
        Has(dataset, rows) == GoldKey(dataset) \in DOMAIN lake[d] /\ lake[d][GoldKey(dataset)] = rows
    IN  /\ scorecard # {} => /\ Has("scorecard", <<scorecard>>)
                             /\ d \in breached <=> OverBudget(scorecard)
        /\ \A k \in KeysOf(silver, "book_quality") : \A n \in DOMAIN silver[k] :
             LET rows == silver[k]
                 batched == BookUpdate(BookUpdate(NoBook, SubSeq(rows, 1, n)),
                                       SubSeq(rows, n + 1, Len(rows)))
             IN  BookRows(k[2], k[3], batched) = BookChecks(k[2], k[3], rows)
        /\ basis # <<>> => Has("basis", basis) /\ Has("basis_summary", <<SummariesOf(basis)>>)

-----------------------------------------------------------------------------
\* A silver date as the feature builder loads it: sorted by ts, the ties of a
\* ts in either order.
Loaded(rows, flip) ==
  LET order == Ascending(DOMAIN rows, LAMBDA i, j :
                 \/ rows[i].ts < rows[j].ts
                 \/ rows[i].ts = rows[j].ts /\ (IF flip THEN i > j ELSE i < j))
  IN  [n \in DOMAIN order |-> rows[order[n]]]

\* The legs of a dataset by exchange.
Legs(sources, dataset, flip) ==
  LET keys == {k \in DOMAIN sources : k[1] = dataset}
      KeyOf(v) == CHOOSE k \in keys : k[2] = v
  IN  [v \in {k[2] : k \in keys} |-> Loaded(sources[KeyOf(v)], flip)]

\* Their rows as the matrix names them.
Named(As(_), legs) == [v \in DOMAIN legs |-> Mapped(As, legs[v])]
Touching(q) == [ts |-> q.ts, mid |-> q.bid + q.ask, spread |-> q.ask - q.bid]
Sized(r) == [ts |-> r.ts, size |-> r.val]
Based(r) == [ts |-> r.ts, basis |-> r.val]
Levelled(r) == [ts |-> r.ts, level |-> r.val]

\* The columns of a date of silver objects, an NBBO beside them.
DateOf(sources, nbbo, flip) ==
  [quotes |-> Named(Touching, Legs(sources, "quotes", flip)),
   nbbo |-> Primary :> Mapped(Touching, nbbo),
   trades |-> Named(Sized, Legs(sources, "trades", flip)),
   marks |-> Named(Based, Legs(sources, "mark_price", flip)),
   oi |-> Named(Levelled, Legs(sources, "open_interest", flip)),
   liqs |-> Named(Sized, Legs(sources, "liquidations", flip))]

PrimaryLegs == {p[1] : p \in {p \in Declared : p[2] = Primary}}
MatrixOf(sources, flip) ==
  IF ~HasMatrix(sources) THEN <<>>
  ELSE Matrix(DateOf(sources, sources[NbboKey(Primary)], flip), Primary, PrimaryLegs)

\* The silver date as it would have been at t, its NBBO rebuilt from that.
AsOfThen(d, sources, t, flip) ==
  LET Until(rows) == Pick(LAMBDA r : r.ts <= t, rows)
      past == [k \in DOMAIN sources |-> Until(sources[k])]
      quotes == [v \in {k[2] : k \in {k \in DOMAIN past : k[1] = "quotes" /\ k[3] = Primary}}
                   |-> past[<<"quotes", v, Primary>>]]
      Heard(v) == IF StatusKey(v) \in DOMAIN lake[d] THEN Until(lake[d][StatusKey(v)]) ELSE <<>>
      downs == [v \in DOMAIN quotes |-> Downs(Heard(v))]
  IN  DateOf(past, StreamedNbbo(quotes, downs).rows, flip)

\* No column but the targets of the row at t depends on an event after t.
KnowsThePast(d, sources, flip) ==
  LET matrix == MatrixOf(sources, flip)
  IN  \A t \in DOMAIN matrix :
        matrix[t].features = Features(AsOfThen(d, sources, t, flip), Primary, DOMAIN matrix, t)

\* No label of a fitted row reaches the rows that validate it or test it, no
\* scored window overlaps another and no date is tested twice.
Embargoed(folds, h) ==
  LET Reach(r) == r.ts + h * Bar
      DatesIn(rows) == {rows[i].date : i \in DOMAIN rows}
  IN  /\ \A f \in folds :
           LET scored == Strided(f.test, h)
           IN  /\ \A i \in DOMAIN f.fit, j \in DOMAIN f.val :
                    \/ f.fit[i].date < f.val[j].date
                    \/ f.fit[i].date = f.val[j].date /\ Reach(f.fit[i]) < f.val[j].ts
               /\ \A i \in DOMAIN f.val, j \in DOMAIN f.test : f.val[i].date < f.test[j].date
               /\ \A i \in 1..(Len(scored) - 1) :
                    scored[i].date = scored[i + 1].date => Reach(scored[i]) <= scored[i + 1].ts
      /\ \A f, g \in folds : f # g => DatesIn(f.test) \cap DatesIn(g.test) = {}

\* A study sees nothing from the future: at every bar the features are those of
\* the silver that was knowable then, through the as-of joins, the bar index,
\* the windows and the NBBO itself, and the walk-forward splits keep every label
\* of the fit away from what judges it: research/features, model, validation.
NothingFromTheFuture ==
  StudyDone =>
    \A flip \in BOOLEAN :
      LET Served(d) == study.runs[d].served
          matrices == [d \in Dates |-> MatrixOf(Served(d), flip)]
      IN  /\ \A d \in fresh : Served(d) = Sources(d) => KnowsThePast(d, Served(d), flip)
          /\ Embargoed(WalkForward(Kept(matrices, Horizon), Horizon, MinTrain, TestSize, Step),
                       Horizon)

\* The matrix a study is served, from the cache or built, is of the silver its
\* fingerprint was taken of, unless that silver was rewritten while the entry
\* was being built: research.main.cached_features, source_fingerprint.
CacheServesSilver ==
  \A d \in DOMAIN study.runs :
    LET run == study.runs[d]
    IN  d < study.date /\ run.key \notin torn => run.served = run.seen
=============================================================================
