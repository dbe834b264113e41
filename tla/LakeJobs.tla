------------------------------ MODULE LakeJobs ------------------------------
(***************************************************************************)
(* The batch jobs over the lake: runs of silver.main and gold.main, one after *)
(* the other, and research.main's feature cache beside them.  An object is   *)
(* published whole when its writer closes; a job that fails discards what it *)
(* had open, one that is killed leaves the lake as it is.                    *)
(* `lake[d]` maps the keys <<dataset, exchange, symbol>> of a date to their  *)
(* rows (0 and "none" where a dataset has no such level).                    *)
(***************************************************************************)
EXTENDS GoldMarts, FeatureMatrix

CONSTANTS Dates,       \* the dates, 1..n
          Declared,    \* instruments.yml: the <<exchange, symbol>> pairs
          Bases,       \* its <<base, usd symbol, usdt symbol>> triples, a sequence
          DqBudget,    \* ops/dq_budgets.yml
          Primary,     \* research: --symbol; the other symbols are extra legs
          MinTrain, TestSize, Step, Horizon,
          Scenarios    \* [bronze, later, script, studies, overlap, faults]

Symbols == {p[2] : p \in Declared}
Exchanges == {p[1] : p \in Declared}

\* Feature legs are named by their exchange (features._quote_legs refuses more),
\* and an exchange by a number, in the order of the names.
ASSUME OneSymbolPerVenue ==
  \A p, q \in Declared : p \in Nat \X STRING /\ (p[1] = q[1] => p = q)

\* A date's bronze: partitions of declared instruments, exchanges with heartbeats.
IsBronze(b) ==
  /\ IsFiniteSet(DOMAIN b.parts) /\ DOMAIN b.parts \subseteq Declared
  /\ IsFiniteSet(DOMAIN b.status) /\ DOMAIN b.status \subseteq Nat
  /\ \A pair \in DOMAIN b.parts : b.parts[pair].ok \in BOOLEAN

ASSUME ScenariosAssumption ==
  \A s \in Scenarios :
    /\ s.script \in Seq([kind : {"silver", "gold"}, dates : Seq(Dates)])
    /\ \A d \in Dates : IsBronze(s.bronze[d])
    /\ DOMAIN s.bronze = Dates
    /\ s.later \in Seq({s.later[i] : i \in DOMAIN s.later})
    /\ \A i \in DOMAIN s.later : s.later[i].date \in Dates /\ IsBronze(s.later[i].bronze)

VARIABLES bronze, lake, marker, job, script, study, studies, cache, faults, overlap, later,
          \* history: dates whose silver is complete, whose gold is of the silver
          \* that stands, whose last gold run breached; cache keys whose silver
          \* moved while they were being filled
          fresh, graded, breached, torn
history == <<fresh, graded, breached>>
objects == <<lake, marker>>
research == <<study, studies, cache, torn>>
env == <<bronze, faults, overlap, later>>
vars == <<objects, history, job, script, research, env>>

NoJob == [kind |-> "none", dates |-> <<>>, stage |-> "begin", todo |-> <<>>, writes |-> <<>>,
          part |-> <<>>, status |-> <<>>, counted |-> {}, doomed |-> <<>>, closed |-> FALSE]
Idle == [stage |-> "idle", date |-> 0, runs |-> <<>>]

Init ==
  \E s \in Scenarios :
    /\ bronze = s.bronze /\ later = s.later /\ script = s.script /\ studies = s.studies
    /\ overlap = s.overlap /\ faults = s.faults
    /\ lake = [d \in Dates |-> <<>>] /\ marker = <<>> /\ job = NoJob
    /\ study = Idle /\ cache = <<>>
    /\ fresh = {} /\ graded = {} /\ breached = {} /\ torn = {}

-----------------------------------------------------------------------------
(* Objects: a key is <<dataset, exchange, symbol>>, as partition_key has it.  *)

SilverKey(dataset, pair) == <<dataset, pair[1], pair[2]>>
StatusKey(exchange) == <<"status_events", exchange, "none">>
NbboKey(symbol) == <<"nbbo", 0, symbol>>
GoldKey(dataset) == <<dataset, 0, "none">>
GoldDatasets == {"scorecard", "basis", "basis_summary"}

\* list_partitions of a date's objects, and those of them that are silver's.
KeysOf(objs, dataset) == {k \in DOMAIN objs : k[1] = dataset}
SilverOf(d) == [k \in {k \in DOMAIN lake[d] : k[1] \notin GoldDatasets} |-> lake[d][k]]

Date == job.dates[1]
Silver(stage) == job.kind = "silver" /\ job.dates # <<>> /\ job.stage = stage
Gold(stage) == job.kind = "gold" /\ job.dates # <<>> /\ job.stage = stage

\* The history of the date ends where one of its objects changes.
Touch(key) ==
  /\ graded' = graded \ {Date}
  /\ fresh' = IF key[1] \in GoldDatasets THEN fresh ELSE fresh \ {Date}

\* The map f with e at k.
Stored(f, k, e) == [x \in {k} \cup DOMAIN f |-> IF x = k THEN e ELSE f[x]]

\* A writer closes: rows are published under its key, none leave it alone.
Publish(key, rows) ==
  IF rows = <<>> THEN UNCHANGED <<lake, fresh, graded>>
  ELSE lake' = [lake EXCEPT ![Date] = Stored(@, key, rows)] /\ Touch(key)

\* delete_file: the object of this key, whichever run wrote it.
Delete(key) ==
  IF key \notin DOMAIN lake[Date] THEN UNCHANGED <<lake, fresh, graded>>
  ELSE /\ lake' = [lake EXCEPT ![Date] = [k \in DOMAIN @ \ {key} |-> @[k]]]
       /\ Touch(key)

-----------------------------------------------------------------------------
(* Jobs, their ends and their failures.                                      *)

\* The operator runs the next job of the script.
StartJob ==
  /\ job = NoJob /\ script # <<>>
  /\ job' = [NoJob EXCEPT !.kind = script[1].kind, !.dates = script[1].dates]
  /\ script' = Tail(script)
  /\ UNCHANGED <<objects, history, research, env>>

\* A job is over when its dates are.
EndJob ==
  /\ job.kind # "none" /\ job.dates = <<>>
  /\ job' = NoJob
  /\ UNCHANGED <<objects, history, script, research, env>>

\* The process is killed: an open upload is gone with it.
Kill ==
  /\ faults > 0 /\ job.kind # "none"
  /\ faults' = faults - 1 /\ job' = NoJob
  /\ UNCHANGED <<objects, history, script, research, bronze, overlap, later>>

\* An exception leaves the writers of these keys, in this order, by __exit__.
Raised(j, keys) == [j EXCEPT !.stage = "discard", !.doomed = keys, !.closed = FALSE]

\* PartitionWriter.discard closes first: what a writer had flushed of its rows
\* (a row group is one row here) is published for a moment.
DiscardCloses ==
  /\ job.stage = "discard" /\ job.doomed # <<>> /\ ~job.closed
  /\ LET key == job.doomed[1]
         rows == IF key[1] \in DOMAIN job.part THEN job.part[key[1]] ELSE <<>>
     IN  \E n \in {0, 1} \cap 0..Len(rows) : Publish(key, SubSeq(rows, 1, n))
  /\ job' = [job EXCEPT !.closed = TRUE]
  /\ UNCHANGED <<marker, breached, script, research, env>>

\* ... and deletes then, or the delete fails too.
DiscardDeletes ==
  /\ job.stage = "discard" /\ job.doomed # <<>> /\ job.closed
  /\ job' = [job EXCEPT !.doomed = Tail(@), !.closed = FALSE]
  /\ \/ Delete(job.doomed[1]) /\ faults' = faults
     \/ faults > 0 /\ faults' = faults - 1 /\ UNCHANGED <<lake, fresh, graded>>
  /\ UNCHANGED <<marker, breached, script, research, bronze, overlap, later>>

\* All discarded: silver goes on with its next date, gold's process ends.
DateFailed ==
  /\ job.stage = "discard" /\ job.doomed = <<>>
  /\ job' = IF job.kind = "gold" THEN NoJob
            ELSE [NoJob EXCEPT !.kind = "silver", !.dates = Tail(job.dates)]
  /\ UNCHANGED <<objects, history, script, research, env>>

-----------------------------------------------------------------------------
(* silver: build_silver_streaming and the loop of main around it.  bronze[d]  *)
(* is [parts, status]: pairs to partitions [ok, events, tape], exchanges to   *)
(* their heartbeats; ok is whether the fold takes the partition's order.      *)

\* The sorted listing of a date.
Listed(keys) == Ascending(keys, LAMBDA a, b : a[1] < b[1])

\* The partition's writers, as the ExitStack unwinds them.
Outer(pair) ==
  Mapped(LAMBDA ds : SilverKey(ds, pair), <<"latency", "quotes", "book_quality">>)
TapeOf(pair) ==
  Mapped(LAMBDA ds : SilverKey(ds, pair),
         <<"trades", "liquidations", "mark_price", "open_interest">>)

\* Those of them whose dataset is present.
OpenIfThere(keys, key, tape) == IF tape[key[1]] # <<>> THEN Append(keys, key) ELSE keys
Opening == INSTANCE SeqLoop WITH Body <- OpenIfThere
Opened(pair, tape) == Opening!Loop(<<>>, TapeOf(pair), tape)

BeginSilver ==
  /\ Silver("begin")
  /\ job' = [job EXCEPT !.stage = "fold", !.todo = Listed(DOMAIN bronze[Date].parts)]
  /\ UNCHANGED <<objects, history, script, research, env>>

\* _process_partition reads its bronze: FoldOrderError, or rows to write.
FoldPartition ==
  /\ Silver("fold") /\ job.todo # <<>>
  /\ LET pair == job.todo[1]
         part == bronze[Date].parts[pair]
         rows == PartitionRows(part)
         folded == [job EXCEPT !.part = rows]
     IN  job' = IF ~part.ok THEN Raised(folded, Outer(pair))
                ELSE [folded EXCEPT !.stage = "write",
                        !.writes = Opened(pair, part.tape) \o Outer(pair)]
  /\ UNCHANGED <<objects, history, script, research, env>>

\* The next writer of the partition closes.
ClosePartitionWriter ==
  /\ Silver("write") /\ job.writes # <<>>
  /\ LET key == job.writes[1]
         rows == job.part[key[1]]
     IN  /\ Publish(key, rows)
         /\ job' = [job EXCEPT !.writes = Tail(@),
                               !.counted = IF rows = <<>> THEN @ ELSE @ \cup {key[1]}]
  /\ UNCHANGED <<marker, breached, script, research, env>>

\* ... and after the last of them the next partition's turn comes.
PartitionDone ==
  /\ Silver("write") /\ job.writes = <<>>
  /\ job' = [job EXCEPT !.stage = "fold", !.todo = Tail(@)]
  /\ UNCHANGED <<objects, history, script, research, env>>

PartitionsDone ==
  /\ Silver("fold") /\ job.todo = <<>>
  /\ job' = [job EXCEPT !.stage = "status", !.part = <<>>,
                        !.todo = Listed({<<v>> : v \in DOMAIN bronze[Date].status})]
  /\ UNCHANGED <<objects, history, script, research, env>>

\* The status log of one exchange, kept for the NBBO's evictions.
WriteStatus ==
  /\ Silver("status") /\ job.todo # <<>>
  /\ LET v == job.todo[1][1]
         rows == StatusRows(bronze[Date].status[v])
     IN  /\ Publish(StatusKey(v), rows)
         /\ job' = [job EXCEPT !.todo = Tail(@), !.status = Stored(@, v, rows),
                               !.counted = @ \cup {"status_events"}]
  /\ UNCHANGED <<marker, breached, script, research, env>>

\* The NBBO comes from the persisted quotes, of whichever run.
StatusDone ==
  /\ Silver("status") /\ job.todo = <<>>
  /\ job' = [job EXCEPT !.stage = "nbbo",
                        !.todo = SetToSeq({k[3] : k \in KeysOf(SilverOf(Date), "quotes")})]
  /\ UNCHANGED <<objects, history, script, research, env>>

\* A canonical symbol's quotes by exchange, and those exchanges' downs.
QuotesOf(silver, symbol) ==
  [v \in {k[2] : k \in {k \in KeysOf(silver, "quotes") : k[3] = symbol}}
     |-> silver[<<"quotes", v, symbol>>]]
DownsOf(status, venues) ==
  [v \in venues |-> IF v \in DOMAIN status THEN Downs(status[v]) ELSE <<>>]

NbboOf(silver, status, symbol) ==
  LET quotes == QuotesOf(silver, symbol)
  IN  StreamedNbbo(quotes, DownsOf(status, DOMAIN quotes))

\* _build_nbbo_streaming for one symbol: written, or LatenessError.
WriteNbbo ==
  /\ Silver("nbbo") /\ job.todo # <<>>
  /\ LET key == NbboKey(job.todo[1])
         nbbo == NbboOf(SilverOf(Date), job.status, job.todo[1])
     IN  IF nbbo.late
         THEN /\ job' = Raised([job EXCEPT !.part = [nbbo |-> nbbo.rows]], <<key>>)
              /\ UNCHANGED <<lake, fresh, graded>>
         ELSE /\ Publish(key, nbbo.rows)
              /\ job' = [job EXCEPT !.todo = Tail(@),
                             !.counted = IF nbbo.rows = <<>> THEN @ ELSE @ \cup {"nbbo"}]
  /\ UNCHANGED <<marker, breached, script, research, env>>

\* write_freshness_markers, last: one object for every dataset with rows.
Marked(counted) == marker' = [ds \in counted |-> Date] @@ marker

WriteSilverMarkers ==
  /\ Silver("nbbo") /\ job.todo = <<>>
  /\ Marked(job.counted)
  /\ fresh' = IF job.counted = {} THEN fresh ELSE fresh \cup {Date}
  /\ job' = [NoJob EXCEPT !.kind = "silver", !.dates = Tail(job.dates)]
  /\ UNCHANGED <<lake, graded, breached, script, research, env>>

\* What one run makes of a date's bronze b when nothing fails.
QuotesIn(b) ==
  [k \in {SilverKey("quotes", p) :
            p \in {p \in DOMAIN b.parts : PartitionRows(b.parts[p]).quotes # <<>>}}
     |-> PartitionRows(b.parts[<<k[2], k[3]>>]).quotes]
StatusIn(b) == [v \in DOMAIN b.status |-> StatusRows(b.status[v])]
NbboIn(b, symbol) == NbboOf(QuotesIn(b), StatusIn(b), symbol)
RunKeys(b) ==
  {SilverKey(ds, p) : ds \in SilverDatasets, p \in DOMAIN b.parts}
  \cup {StatusKey(v) : v \in DOMAIN b.status} \cup {NbboKey(k[3]) : k \in DOMAIN QuotesIn(b)}
RunRows(b, k) ==
  IF k[1] = "nbbo" THEN NbboIn(b, k[3]).rows
  ELSE IF k[1] = "status_events" THEN StatusRows(b.status[k[2]])
  ELSE PartitionRows(b.parts[<<k[2], k[3]>>])[k[1]]
RunOf(b) == [k \in {k \in RunKeys(b) : RunRows(b, k) # <<>>} |-> RunRows(b, k)]

\* Bronze is only added to: late records leave no object of silver without rows.
ASSUME LateRecordsAdd ==
  \A s \in Scenarios : \A i \in DOMAIN s.later :
    LET late == s.later[i]
    IN  /\ DOMAIN RunOf(s.bronze[late.date]) \subseteq DOMAIN RunOf(late.bronze)
        /\ \A j \in 1..(i - 1) : s.later[j].date = late.date =>
             DOMAIN RunOf(s.later[j].bronze) \subseteq DOMAIN RunOf(late.bronze)

\* Reading or writing fails in silver: which writers the exception goes through.
Through ==
  IF Silver("fold") /\ job.todo # <<>> THEN {Outer(job.todo[1])}
  ELSE IF Silver("write") /\ job.writes # <<>>
  THEN LET outer == Outer(job.todo[1])
       IN  IF Len(job.writes) > 3 THEN {<<job.writes[1]>> \o outer, outer}
           ELSE {job.writes, Tail(job.writes)}
  ELSE IF Silver("status") /\ job.todo # <<>> THEN {<<StatusKey(job.todo[1][1])>>, <<>>}
  ELSE IF Silver("nbbo") /\ job.todo # <<>> THEN {<<NbboKey(job.todo[1])>>, <<>>}
  ELSE {}

\* What these writers may have flushed.
Flushed ==
  IF Silver("fold") THEN PartitionRows(bronze[Date].parts[job.todo[1]])
  ELSE IF Silver("status")
  THEN [status_events |-> StatusRows(bronze[Date].status[job.todo[1][1]])]
  ELSE IF Silver("nbbo")
  THEN [nbbo |-> NbboOf(SilverOf(Date), job.status, job.todo[1]).rows]
  ELSE job.part

SilverFails ==
  /\ faults > 0 /\ faults' = faults - 1
  /\ \E keys \in Through : job' = Raised([job EXCEPT !.part = Flushed], keys)
  /\ UNCHANGED <<objects, history, script, research, bronze, overlap, later>>

-----------------------------------------------------------------------------
(* gold: one date of main.                                                   *)

\* build_for_date, with the absent pairs main adds; {} where silver has nothing.
ScorecardOf(silver, book) ==
  LET latency == UNION {LatencyChecks(k[2], k[3], silver[k]) : k \in KeysOf(silver, "latency")}
      status == {StatusCheck(k[2], silver[k]) : k \in KeysOf(silver, "status_events")}
      rows == book \cup latency \cup status
  IN  IF rows = {} THEN {} ELSE rows \cup AbsentRows(rows, Declared)

\* The book rows of a date: one object of a partition is one table.
BookScores(silver) ==
  UNION {BookRows(k[2], k[3], BookUpdate(NoBook, silver[k])) : k \in KeysOf(silver, "book_quality")}
Scored(silver) == ScorecardOf(silver, BookScores(silver))

WriteScorecard ==
  /\ Gold("begin")
  /\ LET rows == Scored(SilverOf(Date))
     IN  /\ Publish(GoldKey("scorecard"), IF rows = {} THEN <<>> ELSE <<rows>>)
         /\ breached' = IF rows = {} THEN breached
                        ELSE IF Breaches(DqBudget, rows) = {} THEN breached \ {Date}
                        ELSE breached \cup {Date}
         /\ job' = [job EXCEPT !.stage = "basis",
                               !.counted = IF rows = {} THEN {} ELSE {"scorecard"}]
  /\ UNCHANGED <<marker, script, research, env>>

\* The bases of pairs_by_base that both legs' NBBO objects are there for.
Priced(silver, bases) ==
  Pick(LAMBDA b : {NbboKey(b[2]), NbboKey(b[3])} \subseteq DOMAIN silver, bases)
SeriesOf(silver) ==
  FlattenSeq(Mapped(LAMBDA b : BasisRows(b[1], silver[NbboKey(b[2])], silver[NbboKey(b[3])]),
                    Priced(silver, Bases)))

\* write_basis_for_date: the series of all bases in one object; a failure
\* discards it.
WriteBasis ==
  /\ Gold("basis")
  /\ LET rows == SeriesOf(SilverOf(Date))
     IN  \/ /\ Publish(GoldKey("basis"), rows)
            /\ job' = [job EXCEPT !.stage = "summary", !.part = [basis |-> rows]]
            /\ faults' = faults
         \/ /\ faults > 0 /\ faults' = faults - 1
            /\ job' = Raised([job EXCEPT !.part = [basis |-> rows]], <<GoldKey("basis")>>)
            /\ UNCHANGED <<lake, fresh, graded>>
  /\ UNCHANGED <<marker, breached, script, research, bronze, overlap, later>>

SummariesOf(rows) ==
  {Summary(b, Pick(LAMBDA r : r.base = b, rows)) : b \in {rows[i].base : i \in DOMAIN rows}}

\* ... and after it their summaries.
WriteSummary ==
  /\ Gold("summary")
  /\ LET rows == job.part.basis
     IN  /\ Publish(GoldKey("basis_summary"), IF rows = <<>> THEN <<>> ELSE <<SummariesOf(rows)>>)
         /\ job' = [job EXCEPT !.stage = "mark",
              !.counted = @ \cup (IF rows = <<>> THEN {} ELSE {"basis", "basis_summary"})]
  /\ UNCHANGED <<marker, breached, script, research, env>>

WriteGoldMarkers ==
  /\ Gold("mark")
  /\ Marked(job.counted)
  /\ graded' = IF job.counted = {} THEN graded ELSE graded \cup {Date}
  /\ job' = [NoJob EXCEPT !.kind = "gold", !.dates = Tail(job.dates)]
  /\ UNCHANGED <<lake, fresh, breached, script, research, env>>

-----------------------------------------------------------------------------
(* research.main: cached_features for each date of a study.  study.runs maps  *)
(* a date to [key, seen, served]: the cache key, the silver it was taken of   *)
(* and the silver behind the matrix that is used.                            *)

SourceDatasets ==
  {"quotes", "nbbo", "trades", "liquidations", "mark_price", "open_interest"}

\* The silver objects of a date a feature matrix is built from.
Sources(d) ==
  [k \in {k \in DOMAIN lake[d] : k[1] \in SourceDatasets /\ k[3] \in Symbols} |-> lake[d][k]]

\* source_fingerprint: a digest of each object's key and bytes, here the
\* objects themselves.  A faulty one forgets that the NBBO is a source.
FingerprintOfLegs(d) == [k \in {k \in DOMAIN Sources(d) : k[1] # "nbbo"} |-> Sources(d)[k]]
Fingerprint(d) == Sources(d)

CacheKey(d) == <<d, Fingerprint(d)>>

StartStudy ==
  /\ study = Idle /\ studies > 0
  /\ overlap \/ (script = <<>> /\ job = NoJob)
  /\ studies' = studies - 1
  /\ study' = [Idle EXCEPT !.stage = "fingerprint", !.date = 1]
  /\ UNCHANGED <<objects, history, job, script, cache, torn, env>>

TakeFingerprint ==
  /\ study.stage = "fingerprint" /\ study.date \in Dates
  /\ study' = [study EXCEPT !.stage = "build",
       !.runs = Stored(@, study.date, [key |-> CacheKey(study.date),
                                       seen |-> Sources(study.date), served |-> <<>>])]
  /\ UNCHANGED <<objects, history, job, script, studies, cache, torn, env>>

\* A hit is served; a miss is built from the silver of now and kept.  Without
\* an NBBO or a leg of the primary symbol there is no matrix to keep.
HasMatrix(sources) ==
  /\ NbboKey(Primary) \in DOMAIN sources
  /\ \E k \in DOMAIN sources : k[1] = "quotes" /\ k[3] = Primary

ServeFeatures ==
  /\ study.stage = "build"
  /\ LET d == study.date
         key == study.runs[d].key
         hit == key \in DOMAIN cache
         now == Sources(d)
     IN  /\ study' = [study EXCEPT !.stage = "fingerprint", !.date = @ + 1,
                                   !.runs[d].served = IF hit THEN cache[key] ELSE now]
         /\ cache' = IF hit \/ ~HasMatrix(now) THEN cache ELSE Stored(cache, key, now)
         /\ torn' = IF hit \/ now = study.runs[d].seen THEN torn ELSE torn \cup {key}
  /\ UNCHANGED <<objects, history, job, script, studies, env>>

StudyDone == study.stage = "fingerprint" /\ study.date \notin Dates

EndStudy ==
  /\ StudyDone
  /\ study' = Idle
  /\ UNCHANGED <<objects, history, job, script, studies, cache, torn, env>>

\* Late records reach the bronze of a date between two jobs.
BronzeGrows ==
  /\ job = NoJob /\ later # <<>>
  /\ bronze' = [bronze EXCEPT ![later[1].date] = later[1].bronze]
  /\ later' = Tail(later)
  /\ fresh' = fresh \ {later[1].date}
  /\ UNCHANGED <<objects, graded, breached, job, script, research, faults, overlap>>

Next ==
  \/ StartJob \/ EndJob \/ Kill \/ DiscardCloses \/ DiscardDeletes \/ DateFailed
  \/ BeginSilver \/ FoldPartition \/ ClosePartitionWriter \/ PartitionDone \/ PartitionsDone
  \/ WriteStatus \/ StatusDone \/ WriteNbbo \/ WriteSilverMarkers \/ SilverFails
  \/ WriteScorecard \/ WriteBasis \/ WriteSummary \/ WriteGoldMarkers
  \/ StartStudy \/ TakeFingerprint \/ ServeFeatures \/ EndStudy \/ BronzeGrows

Spec == Init /\ [][Next]_vars
=============================================================================
