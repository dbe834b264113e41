----------------------------- MODULE MCLakeJobs -----------------------------
(* Three venues, two of them quoting BTC-USD and one BTC-USDT, over two dates: *)
(* every corpus of `Calm` runs silver, gold and a study without a fault; the  *)
(* few of `Rough` run the jobs twice, with late records in between, over two  *)
(* faults or with two studies beside them.                                   *)
EXTENDS LakePromises

USD == "BTC-USD"
USDT == "BTC-USDT"
MCDates == 1..2
MCDeclared == {<<1, USD>>, <<2, USD>>, <<3, USDT>>}
MCBases == <<<<"BTC", USD, USDT>>>>

\* dq_budgets.yml: a family and one of its checks, a scope that outranks both.
MCBudget ==
  [default |-> [max_violations |-> 0],
   checks |->
     <<"latency">> :> [limit |-> [max_p99 |-> 250], exchanges |->
        1 :> [limit |-> [max_p99 |-> 300], symbols |-> <<>>]]
     @@ <<"latency", "book_deltas">> :> [limit |-> [max_p99 |-> 150], exchanges |-> <<>>]
     @@ <<"sequence_gap">> :> [limit |-> [max_violations |-> 0], exchanges |->
        1 :> [limit |-> [max_rate |-> 40], symbols |-> USD :> [max_violations |-> 1]]]
     @@ <<"coverage">> :> [limit |-> [min_records |-> 1], exchanges |-> <<>>]
     @@ <<"book_invariant">> :> [limit |-> [max_violations |-> 1], exchanges |-> <<>>]
     @@ <<"clock_monotonic">> :> [limit |-> [max_violations |-> 0], exchanges |->
        1 :> [limit |-> [max_violations |-> 1], symbols |-> <<>>]]
     @@ <<"venue_uptime">> :> [limit |-> [max_violations |-> 0], exchanges |-> <<>>]]

Quote(ts, bid, ask) ==
  [kind |-> "delta", epoch |-> 1, recv |-> <<ts>>, local |-> ts + 1, exch |-> ts, gap |-> 0,
   invariant |-> FALSE, bid |-> <<bid>>, ask |-> <<ask>>]
Tick(ts, val) == [recv |-> <<ts>>, local |-> ts + 2, exch |-> ts, val |-> val]

NoTape ==
  [trades |-> <<>>, liquidations |-> <<>>, mark_price |-> <<>>, open_interest |-> <<>>]
Part(events, tape) == [ok |-> TRUE, events |-> events, tape |-> tape]
Folds(events) == Part(events, NoTape)

\* Venue 1: in order; a storm whose epochs overlap within the reorder window;
\* one beyond it; a gap, a rejected update and a snapshot fetched in between;
\* two quotes of one instant; a one-sided book and a record without headers.
FirstVenue ==
  {<<Quote(10, 100, 102), Quote(14, 101, 103), Quote(18, 104, 106)>>,
   <<Quote(10, 100, 102), Quote(17, 101, 103), Quote(18, 104, 106),
     [Quote(15, 103, 105) EXCEPT !.epoch = 2, !.local = 17], Quote(18, 105, 107)>>,
   <<Quote(10, 100, 102), Quote(14, 101, 103), Quote(18, 104, 106),
     [Quote(11, 103, 105) EXCEPT !.epoch = 2]>>,
   <<[Quote(10, 100, 102) EXCEPT !.kind = "snap"], Quote(12, 101, 103),
     [Quote(14, 101, 103) EXCEPT !.gap = 2], [Quote(11, 101, 103) EXCEPT !.kind = "snap"],
     Quote(13, 99, 103), [Quote(16, 104, 103) EXCEPT !.invariant = TRUE], Quote(18, 104, 106)>>,
   <<Quote(10, 100, 102), Quote(14, 101, 103), Quote(14, 99, 104), Quote(18, 104, 106)>>,
   <<[Quote(9, 100, 102) EXCEPT !.recv = <<>>], [Quote(13, 101, 103) EXCEPT !.bid = <<>>],
     Quote(14, 101, 103), Quote(18, 104, 106)>>}
SecondVenue ==
  {<<Quote(10, 99, 101), Quote(16, 102, 103)>>, <<Quote(13, 103, 104)>>,
   <<Quote(11, 98, 101), Quote(12, 100, 101)>>}
ThirdVenue == {<<>>, <<Quote(10, 100, 101), Quote(15, 102, 104)>>, <<Quote(12, 101, 103)>>}
Heard(ts, state) == [ts |-> ts, state |-> state]
FirstStatus ==
  {<<>>, <<Heard(9, "up"), Heard(12, "down"), Heard(16, "up")>>,
   <<Heard(9, "up"), Heard(14, "down"), Heard(15, "down")>>, <<Heard(14, "down"), Heard(15, "up")>>}
Tapes ==
  {NoTape,
   [trades |-> <<Tick(11, 2), Tick(13, -1), Tick(14, 3)>>, liquidations |-> <<Tick(14, -2)>>,
    mark_price |-> <<Tick(10, 1), Tick(15, 4)>>,
    open_interest |-> <<Tick(10, 5), Tick(15, 7)>>]}

Bronze(first, tape, second, third, status) ==
  [parts |-> (<<1, USD>> :> Part(first, tape)) @@ (<<2, USD>> :> Folds(second))
             @@ (IF third = <<>> THEN <<>> ELSE <<3, USDT>> :> Folds(third)),
   status |-> IF status = <<>> THEN <<>> ELSE 1 :> status]

Plain == <<Quote(10, 100, 102), Quote(14, 101, 103), Quote(18, 104, 106)>>
SecondDate == Bronze(Plain, NoTape, <<Quote(12, 99, 101)>>, <<Quote(13, 100, 101)>>, <<>>)
Runs(kinds, dates) == [n \in DOMAIN kinds |-> [kind |-> kinds[n], dates |-> dates]]

Calm ==
  {[bronze |-> <<Bronze(first, tape, second, third, status), SecondDate>>, later |-> <<>>,
    script |-> Runs(<<"silver", "gold">>, <<1, 2>>), studies |-> 1, overlap |-> FALSE, faults |-> 0]
   : first \in FirstVenue, tape \in Tapes, second \in SecondVenue, third \in ThirdVenue,
     status \in FirstStatus}

\* The date grows by a quote and a heartbeat, or into a fold that is refused.
Small(second) == Bronze(Plain, NoTape, second, <<>>, <<Heard(9, "up")>>)
Grown == [Small(<<Quote(12, 99, 101), Quote(15, 105, 106)>>)
            EXCEPT !.status[1] = <<Heard(9, "up"), Heard(16, "down")>>]
Refused == [Small(<<Quote(12, 99, 101)>>) EXCEPT !.parts[<<2, USD>>].ok = FALSE]

Again(grown, twice, beside) ==
  [bronze |-> <<Small(<<Quote(12, 99, 101)>>), [parts |-> <<>>, status |-> <<>>]>>,
   later |-> <<[date |-> 1, bronze |-> grown]>>,
   script |-> Runs(<<"silver", "gold", "silver", "gold">>, <<1>>),
   studies |-> beside, overlap |-> TRUE, faults |-> twice]
Rough == {Again(grown, 2, 0) : grown \in {Grown, Refused}} \cup {Again(Grown, 1, 1)}
         \cup {Again(grown, 0, 2) : grown \in {Grown, Refused}}

MCScenarios == Calm \cup Rough
=============================================================================
