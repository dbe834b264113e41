------------------------------ MODULE LakeProofs ------------------------------
EXTENDS LakePromises, FiniteSetTheorems, SequenceTheorems, TLAPS

Fields ==
  {"kind", "dates", "stage", "todo", "writes", "part", "status", "counted", "doomed", "closed"}
Stages ==
  {"begin", "fold", "write", "status", "nbbo", "basis", "summary", "mark", "discard"}
Ran == [kind : {"silver", "gold"}, dates : Seq(Dates)]

\* The elements of a sequence.
In(q) == {q[i] : i \in 1..Len(q)}

\* A job between two steps.
JobIs(j) ==
  /\ DOMAIN j = Fields /\ j.kind \in {"none", "silver", "gold"} /\ j.dates \in Seq(Dates)
  /\ j.stage \in Stages /\ j.doomed \in Seq(In(j.doomed))
  /\ j.kind = "none" => j.stage = "begin"
  /\ j.stage = "discard" => j.kind # "none" /\ j.dates # <<>>

Types ==
  /\ DOMAIN lake = Dates /\ DOMAIN bronze = Dates /\ \A d \in Dates : IsBronze(bronze[d])
  /\ \A d \in Dates : IsFiniteSet(DOMAIN lake[d])
  /\ fresh \subseteq Dates /\ graded \subseteq Dates
  /\ script \in Seq(Ran) /\ JobIs(job)
  /\ later \in Seq({later[i] : i \in DOMAIN later})
  /\ \A i \in DOMAIN later : later[i].date \in Dates /\ IsBronze(later[i].bronze)

\* Bronze grows.
Due(b) == DOMAIN RunOf(b)
Grows ==
  \A i \in DOMAIN later :
    /\ Due(bronze[later[i].date]) \subseteq Due(later[i].bronze)
    /\ \A j \in 1..(i - 1) : later[j].date = later[i].date =>
         Due(later[j].bronze) \subseteq Due(later[i].bronze)

\* No object of silver is left that bronze does not account for.
NothingStale == \A d \in Dates : DOMAIN SilverOf(d) \subseteq Due(bronze[d])

\* The rows r are under the key k, where there are any.
Bears(objs, k, r) == r # <<>> => k \in DOMAIN objs /\ objs[k] = r

PairKept(objs, b, p) ==
  /\ b.parts[p].ok
  /\ \A ds \in SilverDatasets : Bears(objs, SilverKey(ds, p), PartitionRows(b.parts[p])[ds])

\* The pairs that are not to be folded any more.
PairsKept(objs, b, todo) == \A p \in DOMAIN b.parts : p \in todo \/ PairKept(objs, b, p)
StatusKept(objs, b, v) == Bears(objs, StatusKey(v), StatusRows(b.status[v]))
NbboKept(objs, status, s) ==
  LET nbbo == NbboOf(objs, status, s) IN ~nbbo.late /\ Bears(objs, NbboKey(s), nbbo.rows)
Quoted(objs) == {k[3] : k \in KeysOf(objs, "quotes")}

\* The todo list of a stage.
Starting ==
  Silver("begin") \/ Silver("fold") \/ Silver("write") => job.status = <<>>
Folding ==
  Silver("fold") \/ Silver("write") =>
    LET b == bronze[Date]
    IN  /\ job.todo \in Seq(DOMAIN b.parts)
        /\ PairsKept(SilverOf(Date), b, In(job.todo))
Writing ==
  Silver("write") =>
    LET p == job.todo[1]
    IN  /\ job.todo # <<>> /\ bronze[Date].parts[p].ok
        /\ job.part = PartitionRows(bronze[Date].parts[p])
        /\ job.writes \in Seq({SilverKey(ds, p) : ds \in SilverDatasets})
        /\ \A ds \in SilverDatasets : \/ SilverKey(ds, p) \in In(job.writes)
                                      \/ Bears(SilverOf(Date), SilverKey(ds, p), job.part[ds])
Reporting ==
  Silver("status") =>
    LET b == bronze[Date]
    IN  /\ PairsKept(SilverOf(Date), b, {})
        /\ job.todo \in Seq({<<v>> : v \in DOMAIN b.status})
        /\ DOMAIN job.status \subseteq DOMAIN b.status
        /\ job.status = [v \in DOMAIN job.status |-> StatusRows(b.status[v])]
        /\ \A v \in DOMAIN b.status : \/ <<v>> \in In(job.todo)
                                      \/ v \in DOMAIN job.status /\ StatusKept(SilverOf(Date), b, v)
Streaming ==
  Silver("nbbo") =>
    LET b == bronze[Date]
        silver == SilverOf(Date)
    IN  /\ PairsKept(silver, b, {})
        /\ job.status = StatusIn(b)
        /\ \A v \in DOMAIN b.status : StatusKept(silver, b, v)
        /\ job.todo \in Seq(Quoted(silver))
        /\ \A s \in Quoted(silver) : s \in In(job.todo) \/ NbboKept(silver, job.status, s)
Discarding ==
  job.stage = "discard" =>
    /\ job.kind = "gold" => \A k \in In(job.doomed) : k[1] \in GoldDatasets
    /\ job.kind = "silver" => \A k \in In(job.doomed) :
         /\ k[1] \notin GoldDatasets
         /\ k[1] \in DOMAIN job.part /\ job.part[k[1]] # <<>> => k \in Due(bronze[Date])

\* The date has changed under no key but this, and its history has ended if it has.
Rewrites(key) ==
  LET old == lake[Date]
      new == lake'[Date]
  IN  /\ DOMAIN lake' = Dates /\ \A d \in Dates : d # Date => lake'[d] = lake[d]
      /\ \A k : k # key => /\ k \in DOMAIN new <=> k \in DOMAIN old
                           /\ k \in DOMAIN old => new[k] = old[k]
      /\ fresh' \subseteq fresh /\ graded' \subseteq graded
      /\ new # old => Date \notin graded' /\ (key[1] \in GoldDatasets \/ Date \notin fresh')

SilverIsOneRun ==
  \A d \in fresh : /\ \A p \in DOMAIN bronze[d].parts : bronze[d].parts[p].ok
                   /\ \A k \in DOMAIN QuotesIn(bronze[d]) : ~NbboIn(bronze[d], k[3]).late
                   /\ SilverOf(d) = RunOf(bronze[d])

ScoreKept(d) ==
  LET rows == Scored(SilverOf(d))
  IN  rows # {} => /\ Bears(lake[d], GoldKey("scorecard"), <<rows>>)
                   /\ d \in breached <=> Breaches(DqBudget, rows) # {}
BasisKept(d) == Bears(lake[d], GoldKey("basis"), SeriesOf(SilverOf(d)))
SummaryKept(d) ==
  LET rows == SeriesOf(SilverOf(d))
  IN  rows # <<>> => Bears(lake[d], GoldKey("basis_summary"), <<SummariesOf(rows)>>)
Grading ==
  /\ Gold("basis") \/ Gold("summary") \/ Gold("mark") => ScoreKept(Date)
  /\ Gold("summary") \/ Gold("mark") => BasisKept(Date)
  /\ Gold("summary") => job.part = [basis |-> SeriesOf(SilverOf(Date))]
  /\ Gold("mark") => SummaryKept(Date)
GoldIsOneRun == \A d \in graded : ScoreKept(d) /\ BasisKept(d) /\ SummaryKept(d)

Served ==
  /\ study = [stage |-> study.stage, date |-> study.date, runs |-> study.runs]
  /\ study.date \in Nat /\ DOMAIN study.runs \subseteq Nat
  /\ study.stage = "build" => study.date \in DOMAIN study.runs
  /\ \A d \in DOMAIN study.runs :
       LET run == study.runs[d]
       IN  /\ run = [key |-> <<d, run.seen>>, seen |-> run.seen, served |-> run.served]
           /\ d < study.date /\ run.key \notin torn => run.served = run.seen
  /\ \A key \in DOMAIN cache : key \notin torn => cache[key] = key[2]
-----------------------------------------------------------------------------
(* No study has been started: nothing is cached and nothing was served.      *)
LEMMA ServedInit == Init => Served
BY DEF Init, Served, Idle

(* The fingerprint is taken of the silver as it is then.                     *)
LEMMA TakeFingerprintServes ==
  ASSUME Served, TakeFingerprint
  PROVE  Served'
<1>. DEFINE d == study.date
            new == [key |-> CacheKey(d), seen |-> Sources(d), served |-> <<>>]
            runs == Stored(study.runs, d, new)
<1>1. study' = [stage |-> "build", date |-> d, runs |-> runs]
  BY DEF TakeFingerprint, Served
<1>2. /\ new = [key |-> <<d, new.seen>>, seen |-> new.seen, served |-> new.served]
      /\ d \in Nat
  BY DEF CacheKey, Fingerprint, Served
<1>3. UNCHANGED <<cache, torn>>
  BY DEF TakeFingerprint
<1>. HIDE DEF new
<1>4. DOMAIN runs = {d} \cup DOMAIN study.runs /\ runs[d] = new
      /\ \A x \in DOMAIN study.runs : x # d => runs[x] = study.runs[x]
  BY DEF Stored
<1>. HIDE DEF runs
<1>5. study'.date = d /\ study'.runs = runs /\ study'.stage = "build"
  BY <1>1
<1>6. ASSUME NEW x \in DOMAIN runs
      PROVE  /\ runs[x] = [key |-> <<x, runs[x].seen>>, seen |-> runs[x].seen,
                           served |-> runs[x].served]
             /\ x < d /\ runs[x].key \notin torn => runs[x].served = runs[x].seen
  BY <1>2, <1>4, <1>6 DEF Served
<1>. QED
  <2>1. \A key \in DOMAIN cache : key \notin torn => cache[key] = key[2]
    BY DEF Served
  <2>2. DOMAIN runs \subseteq Nat /\ d \in DOMAIN runs
    BY <1>2, <1>4 DEF Served
  <2>. QED  BY <1>1, <1>2, <1>3, <1>5, <1>6, <2>1, <2>2 DEF Served

(* What is built is put under the key it was built for, unless silver moved  *)
(* on the way, and then that key is torn.                                    *)
LEMMA ServeFeaturesServes ==
  ASSUME Served, ServeFeatures
  PROVE  Served'
<1>. DEFINE d == study.date
            run == study.runs[d]
            now == Sources(d)
            hit == run.key \in DOMAIN cache
            served == IF hit THEN cache[run.key] ELSE now
            runs == [study.runs EXCEPT ![d].served = served]
<1>1. /\ study' = [stage |-> "fingerprint", date |-> d + 1, runs |-> runs]
      /\ cache' = IF hit \/ ~HasMatrix(now) THEN cache ELSE Stored(cache, run.key, now)
      /\ torn' = IF hit \/ now = run.seen THEN torn ELSE torn \cup {run.key}
  BY DEF ServeFeatures, Served
<1>2. /\ d \in DOMAIN study.runs /\ d \in Nat
      /\ run = [key |-> <<d, run.seen>>, seen |-> run.seen, served |-> run.served]
      /\ \A key \in DOMAIN cache : key \notin torn => cache[key] = key[2]
  BY DEF ServeFeatures, Served
<1>3. torn \subseteq torn' /\ (~hit /\ run.key \notin torn' => now = run.seen)
  BY <1>1
<1>4. run.key = <<d, run.seen>>
  BY <1>2
<1>5. ASSUME NEW key \in DOMAIN cache', key \notin torn'
      PROVE  cache'[key] = key[2]
  <2>1. CASE hit \/ ~HasMatrix(now)
    BY <1>1, <1>2, <1>3, <1>5, <2>1
  <2>2. CASE ~(hit \/ ~HasMatrix(now))
    <3>1. cache' = Stored(cache, run.key, now)
      BY <1>1, <2>2
    <3>. HIDE DEF run, now
    <3>2. /\ DOMAIN cache' = {run.key} \cup DOMAIN cache /\ cache'[run.key] = now
          /\ \A x \in DOMAIN cache : x # run.key => cache'[x] = cache[x]
      BY <3>1 DEF Stored
    <3>3. CASE key = run.key
      BY <1>3, <1>4, <1>5, <2>2, <3>2, <3>3
    <3>4. CASE key # run.key
      BY <1>2, <1>3, <1>5, <3>2, <3>4
    <3>. QED  BY <3>3, <3>4
  <2>. QED  BY <2>1, <2>2
<1>6. /\ DOMAIN runs = DOMAIN study.runs
      /\ runs[d] = [key |-> run.key, seen |-> run.seen, served |-> served]
      /\ \A x \in DOMAIN study.runs : x # d => runs[x] = study.runs[x]
  <2>1. runs[d] = [run EXCEPT !.served = served]
    BY <1>2
  <2>. HIDE DEF run, served
  <2>2. runs[d] = [key |-> run.key, seen |-> run.seen, served |-> served]
    BY <1>2, <2>1
  <2>. QED  BY <2>2
<1>7. run.key \notin torn' => served = run.seen
  BY <1>2, <1>3, <1>4
<1>. HIDE DEF run, served, runs, now
<1>8. study'.date = d + 1 /\ study'.runs = runs /\ study'.stage = "fingerprint"
  BY <1>1
<1>9. ASSUME NEW x \in DOMAIN runs
      PROVE  /\ runs[x] = [key |-> <<x, runs[x].seen>>, seen |-> runs[x].seen,
                           served |-> runs[x].served]
             /\ x < d + 1 /\ runs[x].key \notin torn' => runs[x].served = runs[x].seen
  <2>1. CASE x = d
    BY <1>4, <1>6, <1>7, <2>1
  <2>2. CASE x # d
    <3>1. /\ x \in DOMAIN study.runs /\ x \in Nat /\ runs[x] = study.runs[x]
          /\ runs[x] = [key |-> <<x, runs[x].seen>>, seen |-> runs[x].seen,
                        served |-> runs[x].served]
          /\ x < d /\ runs[x].key \notin torn => runs[x].served = runs[x].seen
      BY <1>6, <1>9, <2>2 DEF Served
    <3>2. x < d + 1 => x < d
      BY <1>2, <2>2, <3>1
    <3>. QED  BY <1>3, <3>1, <3>2
  <2>. QED  BY <2>1, <2>2
<1>10. DOMAIN runs \subseteq Nat /\ d + 1 \in Nat
  BY <1>2, <1>6 DEF Served
<1>. QED  BY <1>1, <1>5, <1>8, <1>9, <1>10 DEF Served

(* Nothing but the feature builder touches the cache.                        *)
LEMMA ServedNext ==
  ASSUME Served, [Next]_vars
  PROVE  Served'
<1>1. CASE TakeFingerprint
  BY <1>1, TakeFingerprintServes
<1>2. CASE ServeFeatures
  BY <1>2, ServeFeaturesServes
<1>3. CASE StartStudy \/ EndStudy
  <2>1. \E stage \in {"idle", "fingerprint"}, date \in Nat :
          study' = [stage |-> stage, date |-> date, runs |-> <<>>]
    <3>1. CASE StartStudy
      BY <3>1 DEF StartStudy, Idle
    <3>2. CASE EndStudy
      BY <3>2 DEF EndStudy, Idle
    <3>. QED  BY <1>3, <3>1, <3>2
  <2>2. UNCHANGED <<cache, torn>>
    BY <1>3 DEF StartStudy, EndStudy
  <2>. QED  BY <2>1, <2>2 DEF Served
<1>4. CASE UNCHANGED <<study, cache, torn>>
  BY <1>4 DEF Served
<1>5. CASE UNCHANGED vars \/ ~(TakeFingerprint \/ ServeFeatures \/ StartStudy \/ EndStudy)
  <2>1. UNCHANGED <<study, cache, torn>>
    BY <1>5 DEF Next, vars, research, StartJob, EndJob, Kill, DiscardCloses, DiscardDeletes, DateFailed,
       BeginSilver, FoldPartition, ClosePartitionWriter, PartitionDone, PartitionsDone,
       WriteStatus, StatusDone, WriteNbbo, WriteSilverMarkers, SilverFails,
       WriteScorecard, WriteBasis, WriteSummary, WriteGoldMarkers, BronzeGrows
  <2>. QED  BY SMTT(40), <1>4, <2>1
<1>. QED  BY <1>1, <1>2, <1>3, <1>5

(* research/features.py: whatever the jobs rewrite between the fingerprint   *)
(* of a date's silver and the build, a key no build tore holds the features  *)
(* of the silver it names, and a study is served those.                      *)
THEOREM FeaturesAreOfTheirSilver == Spec => []CacheServesSilver
<1>1. Served => CacheServesSilver
  BY DEF Served, CacheServesSilver
<1>. QED  BY <1>1, ServedInit, ServedNext, PTL DEF Spec
-----------------------------------------------------------------------------
(* Publishing rows rewrites their key; publishing none does nothing.         *)
LEMMA PublishRewrites ==
  ASSUME Types, job.dates # <<>>, NEW key, NEW rows, Publish(key, rows)
  PROVE  /\ Rewrites(key)
         /\ rows # <<>> => key \in DOMAIN lake'[Date] /\ lake'[Date][key] = rows
         /\ rows = <<>> => UNCHANGED <<lake, fresh, graded>>
<1>. DEFINE d == Date
<1>1. d \in Dates /\ DOMAIN lake = Dates
  BY DEF Types, JobIs, Date
<1>2. CASE rows = <<>>
  <2>1. UNCHANGED <<lake, fresh, graded>>
    BY <1>2 DEF Publish
  <2>. QED  BY <1>1, <1>2, <2>1 DEF Rewrites
<1>3. CASE rows # <<>>
  <2>1. /\ lake' = [lake EXCEPT ![d] = Stored(@, key, rows)]
        /\ graded' = graded \ {d}
        /\ fresh' = IF key[1] \in GoldDatasets THEN fresh ELSE fresh \ {d}
    BY <1>3 DEF Publish, Touch
  <2>. HIDE DEF d
  <2>2. lake'[d] = Stored(lake[d], key, rows) /\ DOMAIN lake' = Dates
        /\ \A e \in Dates : e # d => lake'[e] = lake[e]
    BY <1>1, <2>1
  <2>3. /\ DOMAIN lake'[d] = {key} \cup DOMAIN lake[d] /\ lake'[d][key] = rows
        /\ \A k \in DOMAIN lake[d] : k # key => lake'[d][k] = lake[d][k]
    BY <2>2 DEF Stored
  <2>. QED  BY <1>1, <1>3, <2>1, <2>2, <2>3 DEF Rewrites, d
<1>. QED  BY <1>2, <1>3

(* Deleting an object takes its key away.                                    *)
LEMMA DeleteRewrites ==
  ASSUME Types, job.dates # <<>>, NEW key, Delete(key)
  PROVE  Rewrites(key) /\ key \notin DOMAIN lake'[Date]
<1>. DEFINE d == Date
<1>1. d \in Dates /\ DOMAIN lake = Dates
  BY DEF Types, JobIs, Date
<1>2. CASE key \notin DOMAIN lake[d]
  <2>1. UNCHANGED <<lake, fresh, graded>>
    BY <1>2 DEF Delete
  <2>. QED  BY <1>1, <1>2, <2>1 DEF Rewrites
<1>3. CASE key \in DOMAIN lake[d]
  <2>1. /\ lake' = [lake EXCEPT ![d] = [k \in DOMAIN @ \ {key} |-> @[k]]]
        /\ graded' = graded \ {d}
        /\ fresh' = IF key[1] \in GoldDatasets THEN fresh ELSE fresh \ {d}
    BY <1>3 DEF Delete, Touch
  <2>. HIDE DEF d
  <2>2. lake'[d] = [k \in DOMAIN lake[d] \ {key} |-> lake[d][k]] /\ DOMAIN lake' = Dates
        /\ \A e \in Dates : e # d => lake'[e] = lake[e]
    BY <1>1, <2>1
  <2>3. /\ DOMAIN lake'[d] = DOMAIN lake[d] \ {key}
        /\ \A k \in DOMAIN lake[d] : k # key => lake'[d][k] = lake[d][k]
    BY <2>2
  <2>. QED  BY <1>1, <1>3, <2>1, <2>2, <2>3 DEF Rewrites, d
<1>. QED  BY <1>2, <1>3

(* What a rewritten key leaves of the silver.                                *)
LEMMA SilverRewritten ==
  ASSUME Types, job.dates # <<>>, NEW key, Rewrites(key), NEW d \in Dates
  PROVE  /\ d # Date \/ key[1] \in GoldDatasets => SilverOf(d)' = SilverOf(d)
         /\ \A k : k # key => /\ k \in DOMAIN SilverOf(d)' <=> k \in DOMAIN SilverOf(d)
                              /\ k \in DOMAIN SilverOf(d) => SilverOf(d)'[k] = SilverOf(d)[k]
<1>1. /\ d # Date => lake'[d] = lake[d]
      /\ \A k : k # key => /\ k \in DOMAIN lake'[d] <=> k \in DOMAIN lake[d]
                           /\ k \in DOMAIN lake[d] => lake'[d][k] = lake[d][k]
  <2>0. \A k : k # key => /\ k \in DOMAIN lake'[Date] <=> k \in DOMAIN lake[Date]
                          /\ k \in DOMAIN lake[Date] => lake'[Date][k] = lake[Date][k]
    BY DEF Rewrites
  <2>1. CASE d = Date
    BY <2>0, <2>1
  <2>2. CASE d # Date
    BY <2>2 DEF Rewrites
  <2>. QED  BY <2>1, <2>2
<1>2. CASE d # Date
  BY <1>1, <1>2 DEF SilverOf
<1>3. CASE key[1] \in GoldDatasets
  <2>1. DOMAIN SilverOf(d)' = DOMAIN SilverOf(d)
    BY <1>1, <1>3 DEF SilverOf
  <2>2. \A k \in DOMAIN SilverOf(d) : SilverOf(d)'[k] = SilverOf(d)[k]
    BY <1>1, <1>3 DEF SilverOf
  <2>. QED  BY <1>1, <2>1, <2>2 DEF SilverOf
<1>4. \A k : k # key => /\ k \in DOMAIN SilverOf(d)' <=> k \in DOMAIN SilverOf(d)
                        /\ k \in DOMAIN SilverOf(d) => SilverOf(d)'[k] = SilverOf(d)[k]
  BY <1>1 DEF SilverOf
<1>. QED  BY <1>2, <1>3, <1>4

(* A date that had finitely many objects has finitely many after one is      *)
(* written.                                                                  *)
LEMMA RewritesFinite ==
  ASSUME Types, job.dates # <<>>, NEW key, Rewrites(key)
  PROVE  /\ DOMAIN lake' = Dates /\ \A d \in Dates : IsFiniteSet(DOMAIN lake'[d])
         /\ fresh' \subseteq Dates /\ graded' \subseteq Dates
<1>1. ASSUME NEW d \in Dates PROVE IsFiniteSet(DOMAIN lake'[d])
  <2>1. IsFiniteSet(DOMAIN lake[d] \cup {key})
    BY FS_AddElement DEF Types
  <2>2. DOMAIN lake'[d] \subseteq DOMAIN lake[d] \cup {key}
    <3>0. \A k : k # key => (k \in DOMAIN lake'[Date] <=> k \in DOMAIN lake[Date])
      BY DEF Rewrites
    <3>1. CASE d = Date
      BY <3>0, <3>1
    <3>2. CASE d # Date
      BY <3>2 DEF Rewrites
    <3>. QED  BY <3>1, <3>2
  <2>. QED  BY <2>1, <2>2, FS_Subset
<1>. QED  BY <1>1 DEF Rewrites, Types
-----------------------------------------------------------------------------
(* A sequence is one of its own elements.                                    *)
LEMMA InSeq ==
  ASSUME NEW S, NEW q \in Seq(S)
  PROVE  q \in Seq(In(q)) /\ In(q) \subseteq S
BY DEF In

(* A sequence that is not empty is its head and its tail.                    *)
LEMMA InTail ==
  ASSUME NEW S, NEW q \in Seq(S), q # <<>>
  PROVE  /\ q[1] \in In(q) /\ q[1] \in S /\ Tail(q) \in Seq(S)
         /\ In(q) = {q[1]} \cup In(Tail(q))
<1>1. /\ Len(q) \in Nat /\ Len(q) >= 1 /\ Tail(q) \in Seq(S) /\ Len(Tail(q)) = Len(q) - 1
      /\ \A i \in 1..Len(Tail(q)) : Tail(q)[i] = q[i + 1]
      /\ q[1] \in S
  OBVIOUS
<1>2. In(q) \subseteq {q[1]} \cup In(Tail(q))
  <2>. SUFFICES ASSUME NEW i \in 1..Len(q), i # 1 PROVE q[i] \in In(Tail(q))
    BY DEF In
  <2>1. i - 1 \in 1..Len(Tail(q)) /\ (i - 1) + 1 = i
    BY <1>1
  <2>2. Tail(q)[i - 1] = q[i]
    BY <1>1, <2>1
  <2>. QED  BY <2>1, <2>2 DEF In
<1>3. In(Tail(q)) \subseteq In(q) /\ q[1] \in In(q)
  BY <1>1 DEF In
<1>. QED  BY <1>1, <1>2, <1>3

(* No job is a job between two steps.                                        *)
LEMMA NoJobIs == JobIs(NoJob)
BY DEF JobIs, NoJob, Fields, Stages, In

\* The writers of a pair, in the order of their ends.
(* The writers every fold of a pair has open.                                *)
LEMMA OuterIs ==
  ASSUME NEW p
  PROVE  /\ Outer(p) \in Seq({SilverKey(ds, p) : ds \in SilverDatasets})
         /\ In(Outer(p)) = {SilverKey(ds, p) : ds \in {"latency", "quotes", "book_quality"}}
<1>1. Outer(p) = <<SilverKey("latency", p), SilverKey("quotes", p), SilverKey("book_quality", p)>>
  BY DEF Outer, Mapped
<1>. QED  BY <1>1 DEF In, SilverDatasets

(* Silver is at work, or gold.                                               *)
LEMMA AtWork ==
  ASSUME JobIs(job), NEW stage, Silver(stage) \/ Gold(stage) \/ (stage = "discard" /\ job.stage = stage)
  PROVE  /\ job.kind # "none" /\ job.dates # <<>> /\ Date \in Dates
         /\ Tail(job.dates) \in Seq(Dates)
<1>1. job.kind # "none" /\ job.dates # <<>> /\ job.dates \in Seq(Dates)
  BY DEF JobIs, Silver, Gold
<1>. QED  BY <1>1 DEF Date

(* A run that starts on a list of dates.                                     *)
LEMMA NextDate ==
  ASSUME NEW dates \in Seq(Dates), NEW kind \in {"silver", "gold"}
  PROVE  JobIs([NoJob EXCEPT !.kind = kind, !.dates = dates])
BY DEF JobIs, NoJob, Fields, Stages, In
-----------------------------------------------------------------------------
(* A partition's rows are filed under every dataset of silver.               *)
LEMMA PartitionRowsOf ==
  ASSUME NEW part
  PROVE  DOMAIN PartitionRows(part) = SilverDatasets
BY DEF PartitionRows

(* A dataset of the tape that is not there has no rows.                      *)
LEMMA NoTapeNoRows ==
  ASSUME NEW part, NEW ds \in TapeDatasets, part.tape[ds] = <<>>
  PROVE  PartitionRows(part)[ds] = <<>>
<1>1. PartitionRows(part)[ds] = TapeRows(part.tape[ds])
  BY DEF PartitionRows, SilverDatasets, TapeDatasets
<1>. QED  BY <1>1 DEF TapeRows, Mapped

(* What a bronze is due, key by key.                                         *)
LEMMA SilverDue ==
  ASSUME NEW b, IsBronze(b), NEW p \in DOMAIN b.parts, NEW ds \in SilverDatasets
  PROVE  /\ PartitionRows(b.parts[p])[ds] # <<>> <=> SilverKey(ds, p) \in Due(b)
         /\ RunRows(b, SilverKey(ds, p)) = PartitionRows(b.parts[p])[ds]
         /\ SilverKey(ds, p) \in RunKeys(b)
<1>1. p = <<p[1], p[2]>>
  BY OneSymbolPerVenue DEF IsBronze
<1>2. /\ SilverKey(ds, p) = <<ds, p[1], p[2]>>
      /\ ds # "nbbo" /\ ds # "status_events"
  BY DEF SilverKey, SilverDatasets, TapeDatasets
<1>3. RunRows(b, SilverKey(ds, p)) = PartitionRows(b.parts[p])[ds]
  BY <1>1, <1>2 DEF RunRows
<1>4. SilverKey(ds, p) \in RunKeys(b)
  BY DEF RunKeys
<1>. QED  BY <1>3, <1>4 DEF Due, RunOf

(* A heartbeat topic's rows are due under its key.                           *)
LEMMA StatusDue ==
  ASSUME NEW b, NEW v \in DOMAIN b.status
  PROVE  /\ StatusRows(b.status[v]) # <<>> <=> StatusKey(v) \in Due(b)
         /\ RunRows(b, StatusKey(v)) = StatusRows(b.status[v])
         /\ StatusKey(v) \in RunKeys(b)
<1>1. RunRows(b, StatusKey(v)) = StatusRows(b.status[v])
  BY DEF RunRows, StatusKey
<1>2. StatusKey(v) \in RunKeys(b)
  BY DEF RunKeys
<1>. QED  BY <1>1, <1>2 DEF Due, RunOf

(* The NBBO streamed for a symbol somebody quoted is due under its key.      *)
LEMMA NbboDue ==
  ASSUME NEW b, NEW s \in {k[3] : k \in DOMAIN QuotesIn(b)}
  PROVE  /\ NbboIn(b, s).rows # <<>> <=> NbboKey(s) \in Due(b)
         /\ RunRows(b, NbboKey(s)) = NbboIn(b, s).rows
         /\ NbboKey(s) \in RunKeys(b)
<1>1. RunRows(b, NbboKey(s)) = NbboIn(b, s).rows
  BY DEF RunRows, NbboKey
<1>2. NbboKey(s) \in RunKeys(b)
  BY DEF RunKeys
<1>. QED  BY <1>1, <1>2 DEF Due, RunOf

(* What is due is of a pair, of a heartbeat topic or the NBBO of a quoted    *)
(* symbol.                                                                   *)
LEMMA DueIs ==
  ASSUME NEW b, IsBronze(b), NEW k \in Due(b)
  PROVE  \/ \E p \in DOMAIN b.parts, ds \in SilverDatasets :
              k = SilverKey(ds, p) /\ k[1] = ds /\ PartitionRows(b.parts[p])[ds] # <<>>
         \/ \E v \in DOMAIN b.status :
              k = StatusKey(v) /\ k[1] = "status_events" /\ StatusRows(b.status[v]) # <<>>
         \/ \E s \in {q[3] : q \in DOMAIN QuotesIn(b)} :
              k = NbboKey(s) /\ k[1] = "nbbo" /\ NbboIn(b, s).rows # <<>>
<1>1. k \in RunKeys(b) /\ RunRows(b, k) # <<>>
  BY DEF Due, RunOf
<1>2. CASE \E ds \in SilverDatasets, p \in DOMAIN b.parts : k = SilverKey(ds, p)
  <2>1. PICK ds \in SilverDatasets, p \in DOMAIN b.parts : k = SilverKey(ds, p)
    BY <1>2
  <2>2. k[1] = ds
    BY <2>1 DEF SilverKey
  <2>. QED  BY <1>1, <2>1, <2>2, SilverDue
<1>3. CASE \E v \in DOMAIN b.status : k = StatusKey(v)
  <2>1. PICK v \in DOMAIN b.status : k = StatusKey(v)
    BY <1>3
  <2>2. k[1] = "status_events"
    BY <2>1 DEF StatusKey
  <2>. QED  BY <1>1, <2>1, <2>2, StatusDue
<1>4. CASE \E s \in {q[3] : q \in DOMAIN QuotesIn(b)} : k = NbboKey(s)
  <2>1. PICK s \in {q[3] : q \in DOMAIN QuotesIn(b)} : k = NbboKey(s)
    BY <1>4
  <2>2. k[1] = "nbbo"
    BY <2>1 DEF NbboKey
  <2>. QED  BY <1>1, <2>1, <2>2, NbboDue
<1>. QED  BY <1>1, <1>2, <1>3, <1>4 DEF RunKeys

(* The quotes of a run are the quote objects it leaves.                      *)
LEMMA QuotesInIs ==
  ASSUME NEW b, IsBronze(b)
  PROVE  /\ DOMAIN QuotesIn(b) = {k \in Due(b) : k[1] = "quotes"}
         /\ \A k \in DOMAIN QuotesIn(b) : QuotesIn(b)[k] = RunOf(b)[k]
<1>1. "quotes" \in SilverDatasets
  BY DEF SilverDatasets
<1>2. \A p \in DOMAIN b.parts : PartitionRows(b.parts[p]).quotes = PartitionRows(b.parts[p])["quotes"]
  OBVIOUS
<1>3. ASSUME NEW k \in DOMAIN QuotesIn(b)
      PROVE  k \in Due(b) /\ k[1] = "quotes" /\ QuotesIn(b)[k] = RunOf(b)[k]
  <2>1. PICK p \in DOMAIN b.parts :
          k = SilverKey("quotes", p) /\ PartitionRows(b.parts[p])["quotes"] # <<>>
    BY DEF QuotesIn
  <2>2. k \in Due(b) /\ RunRows(b, k) = PartitionRows(b.parts[p])["quotes"]
    BY <1>1, <2>1, SilverDue
  <2>3. k[1] = "quotes" /\ <<k[2], k[3]>> = p
    BY <2>1, OneSymbolPerVenue DEF SilverKey, IsBronze
  <2>4. QuotesIn(b)[k] = PartitionRows(b.parts[<<k[2], k[3]>>]).quotes
    BY <1>3 DEF QuotesIn
  <2>5. RunOf(b)[k] = RunRows(b, k)
    BY <2>2 DEF Due, RunOf
  <2>. QED  BY <1>2, <2>2, <2>3, <2>4, <2>5
<1>4. ASSUME NEW k \in Due(b), k[1] = "quotes"
      PROVE  k \in DOMAIN QuotesIn(b)
  <2>1. PICK p \in DOMAIN b.parts, ds \in SilverDatasets :
          k = SilverKey(ds, p) /\ k[1] = ds /\ PartitionRows(b.parts[p])[ds] # <<>>
    BY <1>4, DueIs
  <2>. QED  BY <1>4, <2>1 DEF QuotesIn
<1>. QED  BY <1>3, <1>4

(* Quotes of a date whose pairs are done are those of its bronze.            *)
LEMMA QuotesAre ==
  ASSUME NEW b, IsBronze(b), NEW objs, PairsKept(objs, b, {}), DOMAIN objs \subseteq Due(b)
  PROVE  /\ KeysOf(objs, "quotes") = DOMAIN QuotesIn(b)
         /\ Quoted(objs) = {k[3] : k \in DOMAIN QuotesIn(b)}
         /\ \A status, s : NbboOf(objs, status, s) = NbboOf(QuotesIn(b), status, s)
<1>1. "quotes" \in SilverDatasets
  BY DEF SilverDatasets
<1>2. ASSUME NEW k \in DOMAIN QuotesIn(b)
      PROVE  k \in DOMAIN objs /\ objs[k] = QuotesIn(b)[k] /\ k[1] = "quotes"
  <2>1. k \in Due(b) /\ k[1] = "quotes" /\ QuotesIn(b)[k] = RunOf(b)[k]
    BY QuotesInIs
  <2>2. PICK p \in DOMAIN b.parts, ds \in SilverDatasets :
          k = SilverKey(ds, p) /\ k[1] = ds /\ PartitionRows(b.parts[p])[ds] # <<>>
    BY <2>1, DueIs
  <2>3. RunOf(b)[k] = PartitionRows(b.parts[p])[ds]
    BY <2>1, <2>2, SilverDue DEF Due, RunOf
  <2>4. Bears(objs, k, PartitionRows(b.parts[p])[ds])
    BY <2>2 DEF PairsKept, PairKept
  <2>. QED  BY <2>1, <2>2, <2>3, <2>4 DEF Bears
<1>3. KeysOf(objs, "quotes") = DOMAIN QuotesIn(b)
  BY <1>2, QuotesInIs DEF KeysOf
<1>4. KeysOf(QuotesIn(b), "quotes") = DOMAIN QuotesIn(b)
  BY <1>2 DEF KeysOf
<1>5. ASSUME NEW status, NEW s
      PROVE  NbboOf(objs, status, s) = NbboOf(QuotesIn(b), status, s)
  <2>1. QuotesOf(objs, s) = QuotesOf(QuotesIn(b), s)
    <3>. DEFINE V == {k[2] : k \in {k \in DOMAIN QuotesIn(b) : k[3] = s}}
    <3>1. ASSUME NEW v \in V
          PROVE  objs[<<"quotes", v, s>>] = QuotesIn(b)[<<"quotes", v, s>>]
      <4>1. PICK k \in DOMAIN QuotesIn(b) : k[3] = s /\ k[2] = v
        BY <3>1
      <4>2. PICK p \in DOMAIN b.parts : k = SilverKey("quotes", p)
        BY <4>1 DEF QuotesIn
      <4>3. k = <<"quotes", v, s>>
        BY <4>1, <4>2 DEF SilverKey
      <4>. QED  BY <1>2, <4>1, <4>3
    <3>2. QuotesOf(objs, s) = [v \in V |-> objs[<<"quotes", v, s>>]]
      BY <1>3 DEF QuotesOf
    <3>3. QuotesOf(QuotesIn(b), s) = [v \in V |-> QuotesIn(b)[<<"quotes", v, s>>]]
      BY <1>4 DEF QuotesOf
    <3>. HIDE DEF V
    <3>. QED  BY <3>1, <3>2, <3>3
  <2>. QED  BY <2>1 DEF NbboOf
<1>. QED  BY <1>3, <1>5 DEF Quoted
-----------------------------------------------------------------------------
(* The image of a finite set is finite.                                      *)
LEMMA ImageFinite ==
  ASSUME NEW S, NEW f, IsFiniteSet(S), DOMAIN f = S
  PROVE  IsFiniteSet({f[x] : x \in S})
<1>. DEFINE T == {f[x] : x \in S}
            g == [x \in S |-> f[x]]
<1>1. g \in Surjection(S, T)
  BY DEF Surjection
<1>. QED  BY <1>1, FS_Surjection

(* A sorted listing lists its keys: exchanges differ.                        *)
LEMMA ListedIs ==
  ASSUME NEW S, IsFiniteSet(S), \A x \in S : x[1] \in Nat,
         \A x, y \in S : x[1] = y[1] => x = y
  PROVE  Listed(S) \in Seq(S) /\ In(Listed(S)) = S
<1>. DEFINE Below(x) == {y \in S : y[1] < x[1]}
            c == Cardinality(S)
            r == [x \in S |-> Cardinality(Below(x)) + 1]
<1>1. c \in Nat
  BY FS_CardinalityType
<1>2. ASSUME NEW x \in S
      PROVE  Cardinality(Below(x)) \in Nat /\ r[x] \in 1..c
  <2>1. Below(x) \subseteq S \ {x}
    OBVIOUS
  <2>2. IsFiniteSet(S \ {x}) /\ Cardinality(S \ {x}) = c - 1
    BY FS_RemoveElement
  <2>. HIDE DEF Below, c
  <2>3. IsFiniteSet(Below(x)) /\ Cardinality(Below(x)) <= c - 1
    BY <2>1, <2>2, FS_Subset
  <2>4. Cardinality(Below(x)) \in Nat
    BY <2>3, FS_CardinalityType
  <2>. QED  BY <1>1, <2>3, <2>4
<1>3. ASSUME NEW x \in S, NEW y \in S, x[1] < y[1]
      PROVE  r[x] # r[y]
  <2>1. Below(x) \subseteq Below(y) /\ x \in Below(y) /\ x \notin Below(x)
    BY <1>3
  <2>2. IsFiniteSet(Below(y))
    <3>1. Below(y) \subseteq S
      OBVIOUS
    <3>. QED  BY <3>1, FS_Subset
  <2>. HIDE DEF Below
  <2>3. Cardinality(Below(x)) <= Cardinality(Below(y)) /\ Cardinality(Below(x)) # Cardinality(Below(y))
    BY <2>1, <2>2, FS_Subset
  <2>4. Cardinality(Below(x)) \in Nat /\ Cardinality(Below(y)) \in Nat
    BY <1>2
  <2>. QED  BY <2>3, <2>4
<1>4. r \in Injection(S, 1..c)
  <2>1. ASSUME NEW x \in S, NEW y \in S, r[x] = r[y] PROVE x = y
    <3>1. x[1] \in Nat /\ y[1] \in Nat /\ ~(x[1] < y[1]) /\ ~(y[1] < x[1])
      BY <1>3, <2>1
    <3>2. x[1] = y[1]
      BY <3>1
    <3>. QED  BY <3>2
  <2>2. r \in [S -> 1..c]
    BY <1>2
  <2>. HIDE DEF r, c
  <2>. QED  BY <2>1, <2>2 DEF Injection, IsInjective
<1>5. r \in Surjection(S, 1..c)
  <2>1. IsFiniteSet(1..c) /\ Cardinality(1..c) = c
    BY <1>1, FS_Interval
  <2>. HIDE DEF r
  <2>. QED  BY <1>4, <2>1, FS_Injection
<1>6. ASSUME NEW n \in 1..c
      PROVE  Listed(S)[n] \in S /\ Cardinality(Below(Listed(S)[n])) = n - 1
  <2>1. PICK x \in S : r[x] = n
    <3>. HIDE DEF r
    <3>. QED  BY <1>5, <1>6 DEF Surjection
  <2>2. Cardinality(Below(x)) = n - 1
    BY <1>2, <2>1
  <2>3. Listed(S)[n] = CHOOSE z \in S : Cardinality(Below(z)) = n - 1
    BY <1>6 DEF Listed, Ascending
  <2>. HIDE DEF Below
  <2>. QED  BY <2>2, <2>3
<1>7. Listed(S) = [n \in 1..c |-> Listed(S)[n]]
  <2>. DEFINE At(n) == CHOOSE z \in S : Cardinality(Below(z)) = n - 1
  <2>1. Listed(S) = [n \in 1..c |-> At(n)]
    BY DEF Listed, Ascending
  <2>. HIDE DEF At, c
  <2>. QED  BY <2>1
<1>8. DOMAIN Listed(S) = 1..c
  BY DEF Listed, Ascending
<1>. HIDE DEF c
<1>9. Listed(S) \in Seq(S) /\ Len(Listed(S)) = c
  <2>. DEFINE q == Listed(S)
  <2>1. q \in [1..c -> S]
    BY <1>6, <1>7, <1>8
  <2>. HIDE DEF q
  <2>2. q \in Seq(S) /\ Len(q) = c
    BY <1>1, <2>1
  <2>. QED  BY <2>2 DEF q
<1>10. ASSUME NEW x \in S PROVE x \in In(Listed(S))
  <2>1. r[x] \in 1..c /\ r[x] - 1 = Cardinality(Below(x))
    BY <1>2
  <2>. DEFINE y == Listed(S)[r[x]]
  <2>2. y \in S /\ Cardinality(Below(y)) = Cardinality(Below(x))
    BY <1>6, <2>1
  <2>3. r[y] = r[x]
    BY <2>2
  <2>. HIDE DEF r, y
  <2>4. y = x
    BY <1>4, <2>2, <2>3 DEF Injection, IsInjective
  <2>. QED  BY <1>9, <2>1, <2>4 DEF In, y
<1>. QED  BY <1>9, <1>10 DEF In

(* The pairs of a bronze are listed each once, in the order silver folds     *)
(* them.                                                                     *)
LEMMA ListedPairs ==
  ASSUME NEW b, IsBronze(b)
  PROVE  Listed(DOMAIN b.parts) \in Seq(DOMAIN b.parts)
         /\ In(Listed(DOMAIN b.parts)) = DOMAIN b.parts
<1>1. /\ IsFiniteSet(DOMAIN b.parts) /\ \A x \in DOMAIN b.parts : x[1] \in Nat
      /\ \A x, y \in DOMAIN b.parts : x[1] = y[1] => x = y
  BY OneSymbolPerVenue DEF IsBronze
<1>. QED  BY <1>1, ListedIs

(* So are its heartbeat topics.                                              *)
LEMMA ListedVenues ==
  ASSUME NEW b, IsBronze(b)
  PROVE  LET S == {<<v>> : v \in DOMAIN b.status}
         IN  Listed(S) \in Seq(S) /\ In(Listed(S)) = S
<1>. DEFINE S == {<<v>> : v \in DOMAIN b.status}
            f == [v \in DOMAIN b.status |-> <<v>>]
<1>1. IsFiniteSet({f[v] : v \in DOMAIN b.status})
  <2>1. IsFiniteSet(DOMAIN b.status) /\ DOMAIN f = DOMAIN b.status
    BY DEF IsBronze
  <2>. HIDE DEF f
  <2>. QED  BY <2>1, ImageFinite
<1>2. S = {f[v] : v \in DOMAIN b.status}
  OBVIOUS
<1>3. /\ \A x \in S : x[1] \in Nat
      /\ \A x, y \in S : x[1] = y[1] => x = y
  BY DEF IsBronze
<1>. HIDE DEF S
<1>4. Listed(S) \in Seq(S) /\ In(Listed(S)) = S
  BY <1>1, <1>2, <1>3, ListedIs
<1>. QED  BY <1>4 DEF S

(* A finite set put in some order is that set.                               *)
LEMMA SetToSeqIs ==
  ASSUME NEW S, IsFiniteSet(S)
  PROVE  SetToSeq(S) \in Seq(S) /\ In(SetToSeq(S)) = S
<1>. DEFINE c == Cardinality(S)  q == SetToSeq(S)
<1>1. c \in Nat /\ ExistsBijection(1..c, S)
  BY FS_CardinalityType
<1>2. \E f \in [1..c -> S] : IsInjective(f)
  BY <1>1 DEF ExistsBijection, Bijection, Injection
<1>3. q \in [1..c -> S] /\ IsInjective(q)
  <2>1. q = CHOOSE f \in [1..c -> S] : IsInjective(f)
    BY DEF SetToSeq
  <2>. HIDE DEF q
  <2>. QED  BY <1>2, <2>1
<1>4. q \in Injection(1..c, S)
  <2>. HIDE DEF q, c
  <2>. QED  BY <1>3 DEF Injection
<1>5. q \in Surjection(1..c, S)
  <2>1. IsFiniteSet(1..c) /\ Cardinality(1..c) = c
    BY <1>1, FS_Interval
  <2>. HIDE DEF q
  <2>. QED  BY <1>4, <2>1, FS_Injection
<1>. HIDE DEF q, c
<1>6. q \in Seq(S) /\ Len(q) = c
  BY <1>1, <1>3
<1>7. In(q) = S
  BY <1>5, <1>6 DEF In, Surjection
<1>. QED  BY <1>6, <1>7 DEF q

(* Finitely many symbols are quoted.                                         *)
LEMMA QuotedFinite ==
  ASSUME NEW objs, IsFiniteSet(DOMAIN objs)
  PROVE  IsFiniteSet(Quoted(objs))
<1>. DEFINE K == KeysOf(objs, "quotes")
            f == [k \in K |-> k[3]]
<1>1. IsFiniteSet(K)
  BY FS_Subset DEF KeysOf
<1>2. IsFiniteSet({f[k] : k \in K})
  <2>1. DOMAIN f = K
    OBVIOUS
  <2>. HIDE DEF f, K
  <2>. QED  BY <1>1, <2>1, ImageFinite
<1>3. Quoted(objs) = {f[k] : k \in K}
  BY DEF Quoted
<1>. QED  BY <1>2, <1>3

(* The writers that are open: those whose dataset is present.                *)
LEMMA OpenedIs ==
  ASSUME NEW p, NEW tape
  PROVE  /\ Opened(p, tape) \in Seq({SilverKey(ds, p) : ds \in TapeDatasets})
         /\ In(Opened(p, tape)) =
              {SilverKey(ds, p) : ds \in {ds \in TapeDatasets : tape[ds] # <<>>}}
<1>. DEFINE q == TapeOf(p)
            K(n) == {SilverKey(ds, p) : ds \in {ds \in TapeDatasets :
                       \E i \in 1..n : q[i][1] = ds /\ tape[ds] # <<>>}}
            S == {SilverKey(ds, p) : ds \in TapeDatasets}
<1>1. q = <<SilverKey("trades", p), SilverKey("liquidations", p),
            SilverKey("mark_price", p), SilverKey("open_interest", p)>>
  BY DEF TapeOf, Mapped
<1>2. Len(q) = 4
  BY <1>1
<1>3. PICK g : /\ g[0] = <<>> /\ g[4] = Opened(p, tape)
               /\ \A n \in 1..4 : g[n] = OpenIfThere(g[n - 1], q[n], tape)
  <2>. HIDE DEF q
  <2>1. Len(q) \in Nat
    BY <1>2
  <2>2. \E g : /\ g[0] = <<>> /\ g[Len(q)] = Opening!Loop(<<>>, q, tape)
               /\ \A n \in 1..Len(q) : g[n] = OpenIfThere(g[n - 1], q[n], tape)
    BY <2>1, Opening!LoopStates
  <2>. QED  BY <1>2, <2>2 DEF Opened, q
<1>. DEFINE There(ds) == IF tape[ds] # <<>> THEN {SilverKey(ds, p)} ELSE {}
<1>4. ASSUME NEW n \in 1..4, g[n - 1] \in Seq(S)
      PROVE  /\ g[n] \in Seq(S)
             /\ In(g[n]) = In(g[n - 1]) \cup There(q[n][1])
  <2>1. PICK ds \in TapeDatasets : q[n] = SilverKey(ds, p) /\ q[n][1] = ds
    BY <1>1 DEF SilverKey, TapeDatasets
  <2>2. q[n] \in S
    BY <2>1
  <2>3. g[n] = IF tape[ds] # <<>> THEN Append(g[n - 1], q[n]) ELSE g[n - 1]
    BY <1>3, <2>1 DEF OpenIfThere
  <2>. HIDE DEF q, S
  <2>4. CASE tape[ds] = <<>>
    BY <1>4, <2>1, <2>3, <2>4
  <2>5. CASE tape[ds] # <<>>
    <3>. DEFINE h == g[n - 1]
    <3>1. g[n] = Append(h, q[n]) /\ h \in Seq(S)
      BY <1>4, <2>3, <2>5
    <3>. HIDE DEF h
    <3>2. Append(h, q[n]) \in Seq(S) /\ In(Append(h, q[n])) = In(h) \cup {q[n]}
      BY <2>2, <3>1 DEF In
    <3>3. There(q[n][1]) = {q[n]}
      BY <2>1, <2>5
    <3>. QED  BY <3>1, <3>2, <3>3 DEF h
  <2>. QED  BY <2>4, <2>5
<1>5. q[1][1] = "trades" /\ q[2][1] = "liquidations" /\ q[3][1] = "mark_price"
      /\ q[4][1] = "open_interest"
  BY <1>1 DEF SilverKey
<1>. HIDE DEF q, S, There
<1>6. g[0] \in Seq(S) /\ In(g[0]) = {}
  BY <1>3 DEF In
<1>7. g[1] \in Seq(S) /\ In(g[1]) = There("trades")
  <2>1. 1 \in 1..4 /\ g[1 - 1] = g[0]
    OBVIOUS
  <2>2. g[1] \in Seq(S) /\ In(g[1]) = In(g[0]) \cup There(q[1][1])
    BY <1>4, <1>6, <2>1
  <2>. QED  BY <1>5, <1>6, <2>2
<1>8. g[2] \in Seq(S) /\ In(g[2]) = There("trades") \cup There("liquidations")
  BY <1>4, <1>5, <1>7
<1>9. g[3] \in Seq(S) /\ In(g[3]) = There("trades") \cup There("liquidations") \cup There("mark_price")
  BY <1>4, <1>5, <1>8
<1>10. /\ g[4] \in Seq(S)
       /\ In(g[4]) = There("trades") \cup There("liquidations") \cup There("mark_price")
                     \cup There("open_interest")
  BY <1>4, <1>5, <1>9
<1>. QED  BY <1>3, <1>10 DEF S, There, TapeDatasets
-----------------------------------------------------------------------------
(* The job after each of its steps.                                          *)
LEMMA SilverSteps ==
  ASSUME JobIs(job), job.kind # "none", job.dates # <<>>
  PROVE  /\ BeginSilver => /\ DOMAIN job' = Fields /\ job'.kind = job.kind /\ job'.dates = job.dates
                           /\ job'.doomed = job.doomed /\ job'.stage = "fold"
                           /\ job'.todo = Listed(DOMAIN bronze[Date].parts)
         /\ ClosePartitionWriter =>
              /\ DOMAIN job' = Fields /\ job'.kind = job.kind /\ job'.dates = job.dates
              /\ job'.doomed = job.doomed /\ job'.stage = "write" /\ job'.todo = job.todo
              /\ job'.writes = Tail(job.writes) /\ job'.part = job.part
         /\ PartitionDone => /\ DOMAIN job' = Fields /\ job'.kind = job.kind /\ job'.dates = job.dates
                             /\ job'.doomed = job.doomed /\ job'.stage = "fold"
                             /\ job'.todo = Tail(job.todo)
         /\ PartitionsDone =>
              /\ DOMAIN job' = Fields /\ job'.kind = job.kind /\ job'.dates = job.dates
              /\ job'.doomed = job.doomed /\ job'.stage = "status" /\ job'.status = job.status
              /\ job'.todo = Listed({<<v>> : v \in DOMAIN bronze[Date].status})
         /\ StatusDone => /\ DOMAIN job' = Fields /\ job'.kind = job.kind /\ job'.dates = job.dates
                          /\ job'.doomed = job.doomed /\ job'.stage = "nbbo"
                          /\ job'.todo = SetToSeq(Quoted(SilverOf(Date)))
                          /\ job'.status = job.status
<1>1. DOMAIN job = Fields
  BY DEF JobIs
<1>2. BeginSilver => /\ DOMAIN job' = Fields /\ job'.kind = job.kind /\ job'.dates = job.dates
                     /\ job'.doomed = job.doomed /\ job'.stage = "fold"
                     /\ job'.todo = Listed(DOMAIN bronze[Date].parts)
  BY <1>1 DEF BeginSilver, Fields
<1>3. ClosePartitionWriter =>
        /\ DOMAIN job' = Fields /\ job'.kind = job.kind /\ job'.dates = job.dates
        /\ job'.doomed = job.doomed /\ job'.stage = "write" /\ job'.todo = job.todo
        /\ job'.writes = Tail(job.writes) /\ job'.part = job.part
  BY <1>1 DEF ClosePartitionWriter, Fields, Silver
<1>4. PartitionDone => /\ DOMAIN job' = Fields /\ job'.kind = job.kind /\ job'.dates = job.dates
                       /\ job'.doomed = job.doomed /\ job'.stage = "fold"
                       /\ job'.todo = Tail(job.todo)
  BY <1>1 DEF PartitionDone, Fields
<1>5. PartitionsDone =>
        /\ DOMAIN job' = Fields /\ job'.kind = job.kind /\ job'.dates = job.dates
        /\ job'.doomed = job.doomed /\ job'.stage = "status" /\ job'.status = job.status
        /\ job'.todo = Listed({<<v>> : v \in DOMAIN bronze[Date].status})
  BY <1>1 DEF PartitionsDone, Fields
<1>6. StatusDone => /\ DOMAIN job' = Fields /\ job'.kind = job.kind /\ job'.dates = job.dates
                    /\ job'.doomed = job.doomed /\ job'.stage = "nbbo"
                    /\ job'.todo = SetToSeq(Quoted(SilverOf(Date)))
                    /\ job'.status = job.status
  BY SMTT(40), <1>1 DEF StatusDone, Fields, Quoted
<1>. QED  BY <1>2, <1>3, <1>4, <1>5, <1>6

(* _process_partition: a pair that is refused is discarded, another has its  *)
(* writers closed.                                                           *)
LEMMA FoldSteps ==
  ASSUME JobIs(job), FoldPartition
  PROVE  LET p == job.todo[1]
             part == bronze[Date].parts[p]
         IN  /\ job.todo # <<>> /\ UNCHANGED <<lake, bronze, fresh, graded, later, script, breached>>
             /\ DOMAIN job' = Fields /\ job'.kind = "silver" /\ job'.dates = job.dates
             /\ job'.part = PartitionRows(part)
             /\ ~part.ok => job'.stage = "discard" /\ job'.doomed = Outer(p)
             /\ part.ok => /\ job'.stage = "write" /\ job'.todo = job.todo
                           /\ job'.writes = Opened(p, part.tape) \o Outer(p)
                           /\ job'.doomed = job.doomed
<1>. DEFINE p == job.todo[1]
            part == bronze[Date].parts[p]
            rows == PartitionRows(part)
            folded == [job EXCEPT !.part = rows]
<1>1. DOMAIN job = Fields /\ job.kind = "silver" /\ job.todo # <<>>
  BY DEF JobIs, FoldPartition, Silver
<1>2. job' = IF ~part.ok THEN Raised(folded, Outer(p))
             ELSE [folded EXCEPT !.stage = "write", !.writes = Opened(p, part.tape) \o Outer(p)]
  BY DEF FoldPartition
<1>3. UNCHANGED <<lake, bronze, fresh, graded, later, script, breached>>
  BY DEF FoldPartition, objects, history, env
<1>. HIDE DEF part, rows
<1>4. /\ ~part.ok => /\ DOMAIN job' = Fields /\ job'.kind = "silver" /\ job'.dates = job.dates
                     /\ job'.part = rows /\ job'.stage = "discard" /\ job'.doomed = Outer(p)
      /\ part.ok => /\ DOMAIN job' = Fields /\ job'.kind = "silver" /\ job'.dates = job.dates
                    /\ job'.part = rows /\ job'.stage = "write" /\ job'.todo = job.todo
                    /\ job'.writes = Opened(p, part.tape) \o Outer(p)
                    /\ job'.doomed = job.doomed
  BY <1>1, <1>2 DEF Raised, Fields
<1>. QED  BY <1>1, <1>3, <1>4 DEF part, rows

(* A heartbeat topic is written and kept for the NBBO.                       *)
LEMMA StatusSteps ==
  ASSUME JobIs(job), WriteStatus
  PROVE  LET v == job.todo[1][1]
             rows == StatusRows(bronze[Date].status[v])
         IN  /\ job.todo # <<>> /\ Publish(StatusKey(v), rows)
             /\ UNCHANGED <<bronze, later, script, breached>>
             /\ DOMAIN job' = Fields /\ job'.kind = "silver" /\ job'.dates = job.dates
             /\ job'.doomed = job.doomed /\ job'.stage = "status" /\ job'.todo = Tail(job.todo)
             /\ job'.status = Stored(job.status, v, rows)
<1>1. DOMAIN job = Fields /\ job.kind = "silver" /\ job.stage = "status"
  BY DEF JobIs, WriteStatus, Silver
<1>. QED  BY <1>1 DEF WriteStatus, Fields, env

(* The NBBO of a symbol is written, or discarded when a quote came too       *)
(* late.                                                                     *)
LEMMA NbboSteps ==
  ASSUME JobIs(job), WriteNbbo
  PROVE  LET s == job.todo[1]
             nbbo == NbboOf(SilverOf(Date), job.status, s)
         IN  /\ job.todo # <<>> /\ UNCHANGED <<bronze, later, script, breached>>
             /\ DOMAIN job' = Fields /\ job'.kind = "silver" /\ job'.dates = job.dates
             /\ nbbo.late => /\ UNCHANGED <<lake, fresh, graded>> /\ job'.stage = "discard"
                             /\ job'.doomed = <<NbboKey(s)>> /\ job'.part = [nbbo |-> nbbo.rows]
             /\ ~nbbo.late => /\ Publish(NbboKey(s), nbbo.rows) /\ job'.stage = "nbbo"
                              /\ job'.todo = Tail(job.todo) /\ job'.status = job.status
                              /\ job'.doomed = job.doomed
<1>. DEFINE s == job.todo[1]
            nbbo == NbboOf(SilverOf(Date), job.status, s)
<1>1. DOMAIN job = Fields /\ job.kind = "silver" /\ job.stage = "nbbo" /\ job.todo # <<>>
  BY DEF JobIs, WriteNbbo, Silver
<1>2. UNCHANGED <<bronze, later, script, breached>>
  BY DEF WriteNbbo, env
<1>3. CASE nbbo.late
  <2>1. job' = Raised([job EXCEPT !.part = [nbbo |-> nbbo.rows]], <<NbboKey(s)>>)
    BY <1>3 DEF WriteNbbo
  <2>2. UNCHANGED <<lake, fresh, graded>>
    BY <1>3 DEF WriteNbbo
  <2>. HIDE DEF nbbo, s
  <2>3. /\ DOMAIN job' = Fields /\ job'.kind = "silver" /\ job'.dates = job.dates
        /\ job'.stage = "discard" /\ job'.doomed = <<NbboKey(s)>>
        /\ job'.part = [nbbo |-> nbbo.rows]
    BY <1>1, <2>1 DEF Raised, Fields
  <2>. QED  BY <1>1, <1>2, <1>3, <2>2, <2>3 DEF nbbo, s
<1>4. CASE ~nbbo.late
  <2>1. /\ Publish(NbboKey(s), nbbo.rows)
        /\ job' = [job EXCEPT !.todo = Tail(@),
                     !.counted = IF nbbo.rows = <<>> THEN @ ELSE @ \cup {"nbbo"}]
    BY <1>4 DEF WriteNbbo
  <2>. HIDE DEF nbbo, s
  <2>2. /\ DOMAIN job' = Fields /\ job'.kind = "silver" /\ job'.dates = job.dates
        /\ job'.stage = "nbbo" /\ job'.todo = Tail(job.todo) /\ job'.status = job.status
        /\ job'.doomed = job.doomed
    BY <1>1, <2>1 DEF Fields
  <2>. QED  BY <1>1, <1>2, <1>4, <2>1, <2>2 DEF nbbo, s
<1>. QED  BY <1>3, <1>4

(* Writers that are closed on the way out, published or deleted.             *)
LEMMA DiscardSteps ==
  ASSUME JobIs(job), job.stage = "discard"
  PROVE  /\ DiscardCloses => /\ DOMAIN job' = Fields /\ job'.kind = job.kind
                             /\ job'.dates = job.dates /\ job'.stage = "discard"
                             /\ job'.doomed = job.doomed /\ job'.part = job.part
         /\ DiscardDeletes => /\ DOMAIN job' = Fields /\ job'.kind = job.kind
                              /\ job'.dates = job.dates /\ job'.stage = "discard"
                              /\ job'.doomed = Tail(job.doomed) /\ job'.part = job.part
<1>1. DOMAIN job = Fields
  BY DEF JobIs
<1>2. DiscardCloses => /\ DOMAIN job' = Fields /\ job'.kind = job.kind
                       /\ job'.dates = job.dates /\ job'.stage = "discard"
                       /\ job'.doomed = job.doomed /\ job'.part = job.part
  BY <1>1 DEF DiscardCloses, Fields
<1>3. DiscardDeletes => /\ DOMAIN job' = Fields /\ job'.kind = job.kind
                        /\ job'.dates = job.dates /\ job'.stage = "discard"
                        /\ job'.doomed = Tail(job.doomed) /\ job'.part = job.part
  BY <1>1 DEF DiscardDeletes, Fields
<1>. QED  BY <1>2, <1>3

(* The scorecard and the summary go on whatever they publish.                *)
LEMMA GoldSteps ==
  ASSUME JobIs(job)
  PROVE  /\ WriteScorecard => /\ DOMAIN job' = Fields /\ job'.kind = "gold"
                              /\ job'.dates = job.dates /\ job'.stage = "basis"
                              /\ job'.doomed = job.doomed
         /\ WriteSummary => /\ DOMAIN job' = Fields /\ job'.kind = "gold"
                            /\ job'.dates = job.dates /\ job'.stage = "mark"
                            /\ job'.doomed = job.doomed
<1>1. DOMAIN job = Fields
  BY DEF JobIs
<1>2. WriteScorecard => /\ DOMAIN job' = Fields /\ job'.kind = "gold"
                        /\ job'.dates = job.dates /\ job'.stage = "basis"
                        /\ job'.doomed = job.doomed
  BY <1>1 DEF WriteScorecard, Gold, Fields
<1>3. WriteSummary => /\ DOMAIN job' = Fields /\ job'.kind = "gold"
                      /\ job'.dates = job.dates /\ job'.stage = "mark"
                      /\ job'.doomed = job.doomed
  BY <1>1 DEF WriteSummary, Gold, Fields
<1>. QED  BY <1>2, <1>3

(* The basis is published, or its writer is discarded.                       *)
LEMMA BasisSteps ==
  ASSUME JobIs(job), WriteBasis
  PROVE  LET rows == SeriesOf(SilverOf(Date))
         IN  /\ DOMAIN job' = Fields /\ job'.kind = "gold" /\ job'.dates = job.dates
             /\ job'.part = [basis |-> rows]
             /\ UNCHANGED <<bronze, later, script, breached>>
             /\ \/ /\ Publish(GoldKey("basis"), rows) /\ job'.stage = "summary"
                   /\ job'.doomed = job.doomed
                \/ /\ UNCHANGED <<lake, fresh, graded>> /\ job'.stage = "discard"
                   /\ job'.doomed = <<GoldKey("basis")>>
<1>. DEFINE rows == SeriesOf(SilverOf(Date))
<1>1. DOMAIN job = Fields /\ job.kind = "gold"
  BY DEF JobIs, WriteBasis, Gold
<1>2. UNCHANGED <<bronze, later, script, breached>>
  BY DEF WriteBasis
<1>3. \/ /\ Publish(GoldKey("basis"), rows)
         /\ job' = [job EXCEPT !.stage = "summary", !.part = [basis |-> rows]]
      \/ /\ job' = Raised([job EXCEPT !.part = [basis |-> rows]], <<GoldKey("basis")>>)
         /\ UNCHANGED <<lake, fresh, graded>>
  BY DEF WriteBasis
<1>. HIDE DEF rows
<1>4. CASE /\ Publish(GoldKey("basis"), rows)
           /\ job' = [job EXCEPT !.stage = "summary", !.part = [basis |-> rows]]
  <2>1. /\ DOMAIN job' = Fields /\ job'.kind = "gold" /\ job'.dates = job.dates
        /\ job'.part = [basis |-> rows] /\ job'.stage = "summary" /\ job'.doomed = job.doomed
    BY <1>1, <1>4 DEF Fields
  <2>. QED  BY <1>2, <1>4, <2>1 DEF rows
<1>5. CASE /\ job' = Raised([job EXCEPT !.part = [basis |-> rows]], <<GoldKey("basis")>>)
           /\ UNCHANGED <<lake, fresh, graded>>
  <2>1. /\ DOMAIN job' = Fields /\ job'.kind = "gold" /\ job'.dates = job.dates
        /\ job'.part = [basis |-> rows] /\ job'.stage = "discard"
        /\ job'.doomed = <<GoldKey("basis")>>
    BY <1>1, <1>5 DEF Raised, Fields
  <2>. QED  BY <1>2, <1>5, <2>1 DEF rows
<1>. QED  BY <1>3, <1>4, <1>5

(* A silver run that raises discards what its writers may have flushed.      *)
LEMMA FailSteps ==
  ASSUME JobIs(job), SilverFails
  PROVE  /\ job.kind = "silver" /\ job.dates # <<>>
         /\ UNCHANGED <<lake, fresh, graded, bronze, later, script, breached>>
         /\ DOMAIN job' = Fields /\ job'.kind = "silver" /\ job'.dates = job.dates
         /\ job'.stage = "discard" /\ job'.part = Flushed /\ job'.doomed \in Through
<1>1. PICK keys \in Through : job' = Raised([job EXCEPT !.part = Flushed], keys)
  BY DEF SilverFails
<1>2. job.kind = "silver" /\ job.dates # <<>> /\ DOMAIN job = Fields
  BY <1>1 DEF Through, Silver, JobIs
<1>3. UNCHANGED <<lake, fresh, graded, bronze, later, script, breached>>
  BY DEF SilverFails, objects, history
<1>4. /\ DOMAIN job' = Fields /\ job'.kind = "silver" /\ job'.dates = job.dates
      /\ job'.stage = "discard" /\ job'.part = Flushed /\ job'.doomed = keys
  BY <1>1, <1>2 DEF Raised, Fields
<1>. QED  BY <1>1, <1>2, <1>3, <1>4
-----------------------------------------------------------------------------
(* The dataset in each kind of silver key; none of them is one of gold's.    *)
LEMMA NotGold ==
  ASSUME NEW p, NEW ds \in SilverDatasets, NEW v, NEW s
  PROVE  /\ SilverKey(ds, p)[1] = ds /\ SilverKey(ds, p)[1] \notin GoldDatasets
         /\ StatusKey(v)[1] = "status_events" /\ StatusKey(v)[1] \notin GoldDatasets
         /\ NbboKey(s)[1] = "nbbo" /\ NbboKey(s)[1] \notin GoldDatasets
BY DEF SilverKey, StatusKey, NbboKey, GoldDatasets, SilverDatasets, TapeDatasets

\* A key silver may discard with what was flushed of its rows.
Discardable(k, part, b) ==
  /\ k[1] \notin GoldDatasets
  /\ k[1] \in DOMAIN part /\ part[k[1]] # <<>> => k \in Due(b)

(* The rows of a pair may be flushed under its keys.                         *)
LEMMA PartDiscardable ==
  ASSUME NEW b, IsBronze(b), NEW p \in DOMAIN b.parts,
         NEW k \in {SilverKey(ds, p) : ds \in SilverDatasets}
  PROVE  Discardable(k, PartitionRows(b.parts[p]), b)
<1>1. PICK ds \in SilverDatasets : k = SilverKey(ds, p)
  OBVIOUS
<1>2. k[1] = ds /\ k[1] \notin GoldDatasets
  BY <1>1, NotGold
<1>3. PartitionRows(b.parts[p])[ds] # <<>> <=> k \in Due(b)
  BY <1>1, SilverDue
<1>. QED  BY <1>2, <1>3 DEF Discardable

(* The writers a silver run may raise through, and what they may have        *)
(* flushed.                                                                  *)
LEMMA ThroughIs ==
  ASSUME Types, NothingStale, Folding, Writing, Reporting, Streaming, NEW keys \in Through
  PROVE  keys \in Seq(In(keys)) /\ \A k \in In(keys) : Discardable(k, Flushed, bronze[Date])
<1>. DEFINE b == bronze[Date]
<1>1. job.kind = "silver" /\ job.dates # <<>> /\ Date \in Dates
  BY AtWork DEF Through, Silver, Types
<1>2. IsBronze(b)
  BY <1>1 DEF Types
<1>3. CASE Silver("fold") /\ job.todo # <<>>
  <2>. DEFINE p == job.todo[1]
  <2>1. p \in DOMAIN b.parts
    BY <1>3 DEF Folding
  <2>2. keys = Outer(p) /\ Flushed = PartitionRows(b.parts[p])
    BY <1>3 DEF Through, Flushed
  <2>. HIDE DEF p, b
  <2>3. keys \in Seq({SilverKey(ds, p) : ds \in SilverDatasets})
    BY <2>2, OuterIs
  <2>4. keys \in Seq(In(keys)) /\ In(keys) \subseteq {SilverKey(ds, p) : ds \in SilverDatasets}
    BY <2>3, InSeq
  <2>5. \A k \in In(keys) : Discardable(k, Flushed, b)
    BY <1>2, <2>1, <2>2, <2>4, PartDiscardable
  <2>. QED  BY <2>4, <2>5 DEF b
<1>4. CASE Silver("write") /\ job.writes # <<>>
  <2>. DEFINE p == job.todo[1]
              S == {SilverKey(ds, p) : ds \in SilverDatasets}
  <2>1. p \in DOMAIN b.parts
    BY <1>4 DEF Folding, Writing
  <2>2. job.writes \in Seq(S) /\ job.part = PartitionRows(b.parts[p])
    BY <1>4 DEF Writing
  <2>3. Flushed = PartitionRows(b.parts[p])
    BY <1>4, <2>2 DEF Flushed, Silver
  <2>4. keys \in {<<job.writes[1]>> \o Outer(p), Outer(p), job.writes, Tail(job.writes)}
    BY <1>4 DEF Through, Silver
  <2>. HIDE DEF p, b, S
  <2>5. keys \in Seq(S)
    <3>1. Outer(p) \in Seq(S)
      BY OuterIs DEF S
    <3>2. Tail(job.writes) \in Seq(S) /\ <<job.writes[1]>> \in Seq(S)
      BY <1>4, <2>2
    <3>3. <<job.writes[1]>> \o Outer(p) \in Seq(S)
      BY <3>1, <3>2
    <3>. QED  BY <2>2, <2>4, <3>1, <3>2, <3>3
  <2>6. keys \in Seq(In(keys)) /\ In(keys) \subseteq S
    BY <2>5, InSeq
  <2>7. \A k \in In(keys) : Discardable(k, Flushed, b)
    BY <1>2, <2>1, <2>3, <2>6, PartDiscardable DEF S
  <2>. QED  BY <2>6, <2>7 DEF b
<1>5. CASE keys = <<>>
  BY <1>5 DEF In
<1>6. CASE Silver("status") /\ job.todo # <<>> /\ keys # <<>>
  <2>. DEFINE v == job.todo[1][1]
              rows == StatusRows(b.status[v])
              k == StatusKey(v)
  <2>1. v \in DOMAIN b.status
    BY <1>6 DEF Reporting
  <2>2. keys = <<StatusKey(v)>> /\ Flushed = [status_events |-> rows]
    BY <1>6 DEF Through, Flushed, Silver
  <2>3. rows # <<>> => k \in Due(b)
    BY <2>1, StatusDue
  <2>4. k[1] = "status_events" /\ k[1] \notin GoldDatasets
    BY DEF StatusKey, GoldDatasets
  <2>. HIDE DEF rows, k, b, v
  <2>5. Discardable(k, Flushed, b)
    BY <2>2, <2>3, <2>4 DEF Discardable
  <2>6. keys \in Seq({k}) /\ In(keys) = {k}
    BY <2>2 DEF In, k
  <2>. QED  BY <2>5, <2>6 DEF b
<1>7. CASE Silver("nbbo") /\ job.todo # <<>> /\ keys # <<>>
  <2>. DEFINE s == job.todo[1]
              silver == SilverOf(Date)
              rows == NbboOf(silver, job.status, s).rows
              k == NbboKey(s)
  <2>1. s \in Quoted(silver) /\ PairsKept(silver, b, {}) /\ job.status = StatusIn(b)
    BY <1>7 DEF Streaming
  <2>2. keys = <<NbboKey(s)>> /\ Flushed = [nbbo |-> rows]
    BY <1>7 DEF Through, Flushed, Silver
  <2>3. DOMAIN silver \subseteq Due(b)
    BY <1>1 DEF NothingStale
  <2>4. k[1] = "nbbo" /\ k[1] \notin GoldDatasets
    BY DEF NbboKey, GoldDatasets
  <2>. HIDE DEF b, silver, s, k
  <2>5. /\ s \in {q[3] : q \in DOMAIN QuotesIn(b)}
        /\ NbboOf(silver, job.status, s) = NbboIn(b, s)
    BY <1>2, <2>1, <2>3, QuotesAre DEF NbboIn
  <2>6. rows # <<>> => k \in Due(b)
    BY <2>5, NbboDue DEF k
  <2>. HIDE DEF rows
  <2>7. Discardable(k, Flushed, b)
    BY <2>2, <2>4, <2>6 DEF Discardable
  <2>8. keys \in Seq({k}) /\ In(keys) = {k}
    BY <2>2 DEF In, k
  <2>. QED  BY <2>7, <2>8 DEF b
<1>8. \/ Silver("fold") /\ job.todo # <<>>
      \/ Silver("write") /\ job.writes # <<>>
      \/ Silver("status") /\ job.todo # <<>>
      \/ Silver("nbbo") /\ job.todo # <<>>
  BY DEF Through
<1>. QED  BY <1>3, <1>4, <1>5, <1>6, <1>7, <1>8

(* The scenarios start well typed, with a bronze that only grows.            *)
LEMMA TypesInit == Init => Types /\ Grows
<1>. SUFFICES ASSUME Init PROVE Types /\ Grows
  OBVIOUS
<1>1. PICK s \in Scenarios :
        /\ bronze = s.bronze /\ later = s.later /\ script = s.script
        /\ lake = [d \in Dates |-> <<>>] /\ job = NoJob /\ fresh = {} /\ graded = {}
  BY DEF Init
<1>2. /\ s.script \in Seq(Ran) /\ DOMAIN s.bronze = Dates /\ \A d \in Dates : IsBronze(s.bronze[d])
      /\ s.later \in Seq({s.later[i] : i \in DOMAIN s.later})
      /\ \A i \in DOMAIN s.later : s.later[i].date \in Dates /\ IsBronze(s.later[i].bronze)
  BY ScenariosAssumption DEF Ran
<1>3. Types
  <2>1. \A d \in Dates : IsFiniteSet(DOMAIN lake[d])
    BY <1>1, FS_EmptySet
  <2>. QED  BY <1>1, <1>2, <2>1, NoJobIs DEF Types
<1>4. Grows
  BY <1>1, LateRecordsAdd DEF Grows, Due
<1>. QED  BY <1>3, <1>4

(* A job that goes on is a job between two steps.                            *)
LEMMA GoesOn ==
  ASSUME JobIs(job), job.kind # "none", job.dates # <<>>, NEW j,
         DOMAIN j = Fields, j.kind = job.kind, j.dates = job.dates, j.stage \in Stages,
         j.doomed \in Seq(In(j.doomed))
  PROVE  JobIs(j)
BY DEF JobIs

(* Every step leaves a job between two steps.                                *)
LEMMA JobNext ==
  ASSUME Types, NothingStale, Folding, Writing, Reporting, Streaming, Next
  PROVE  JobIs(job)'
<1>1. JobIs(job)
  BY SMTT(40) DEF Types
<1>2. CASE StartJob
  <2>. DEFINE r == script[1]
  <2>1. r \in Ran /\ job' = [NoJob EXCEPT !.kind = r.kind, !.dates = r.dates]
    BY <1>2 DEF StartJob, Types
  <2>. HIDE DEF r
  <2>2. r.kind \in {"silver", "gold"} /\ r.dates \in Seq(Dates)
    BY <2>1 DEF Ran
  <2>. QED  BY <2>1, <2>2, NextDate
<1>3. CASE EndJob \/ Kill
  BY <1>3, NoJobIs DEF EndJob, Kill
<1>4. CASE DiscardCloses \/ DiscardDeletes
  <2>1. job.stage = "discard" /\ job.doomed \in Seq(In(job.doomed)) /\ job.doomed # <<>>
    BY <1>1, <1>4 DEF DiscardCloses, DiscardDeletes, JobIs
  <2>2. job.kind # "none" /\ job.dates # <<>>
    BY <1>1, <2>1, AtWork
  <2>3. Tail(job.doomed) \in Seq(In(Tail(job.doomed)))
    BY <2>1, InTail, InSeq
  <2>. QED  BY <1>1, <1>4, <2>1, <2>2, <2>3, DiscardSteps, GoesOn DEF Stages
<1>5. CASE DateFailed
  <2>1. Tail(job.dates) \in Seq(Dates)
    BY <1>1, <1>5, AtWork DEF DateFailed
  <2>. QED  BY <1>5, <2>1, NextDate, NoJobIs DEF DateFailed
<1>6. CASE BeginSilver \/ ClosePartitionWriter \/ PartitionDone \/ PartitionsDone \/ StatusDone
  <2>1. job.kind # "none" /\ job.dates # <<>> /\ job.doomed \in Seq(In(job.doomed))
    BY <1>1, <1>6 DEF BeginSilver, ClosePartitionWriter, PartitionDone, PartitionsDone,
         StatusDone, JobIs, Silver
  <2>2. /\ DOMAIN job' = Fields /\ job'.kind = job.kind /\ job'.dates = job.dates
        /\ job'.stage \in Stages /\ job'.doomed = job.doomed
    BY <1>1, <1>6, <2>1, SilverSteps DEF Stages
  <2>. QED  BY <1>1, <2>1, <2>2, GoesOn
<1>7. CASE FoldPartition
  <2>1. job.kind = "silver" /\ job.dates # <<>> /\ job.doomed \in Seq(In(job.doomed))
    BY <1>1, <1>7 DEF FoldPartition, Silver, JobIs
  <2>2. \A p : Outer(p) \in Seq(In(Outer(p)))
    BY OuterIs, InSeq
  <2>3. /\ DOMAIN job' = Fields /\ job'.kind = job.kind /\ job'.dates = job.dates
        /\ job'.stage \in Stages /\ job'.doomed \in Seq(In(job'.doomed))
    <3>. DEFINE p == job.todo[1]  ok == bronze[Date].parts[p].ok
    <3>1. /\ DOMAIN job' = Fields /\ job'.kind = "silver" /\ job'.dates = job.dates
          /\ ~ok => job'.stage = "discard" /\ job'.doomed = Outer(p)
          /\ ok => job'.stage = "write" /\ job'.doomed = job.doomed
      BY <1>1, <1>7, FoldSteps
    <3>. HIDE DEF p, ok
    <3>. QED  BY <2>1, <2>2, <3>1 DEF Stages
  <2>. QED  BY <1>1, <2>1, <2>3, GoesOn
<1>8. CASE WriteStatus
  <2>1. job.kind = "silver" /\ job.dates # <<>> /\ job.doomed \in Seq(In(job.doomed))
    BY <1>1, <1>8 DEF WriteStatus, Silver, JobIs
  <2>2. /\ DOMAIN job' = Fields /\ job'.kind = job.kind /\ job'.dates = job.dates
        /\ job'.stage \in Stages /\ job'.doomed = job.doomed
    BY <1>1, <1>8, <2>1, StatusSteps DEF Stages
  <2>. QED  BY <1>1, <2>1, <2>2, GoesOn
<1>9. CASE WriteNbbo
  <2>1. job.kind = "silver" /\ job.dates # <<>> /\ job.doomed \in Seq(In(job.doomed))
    BY <1>1, <1>9 DEF WriteNbbo, Silver, JobIs
  <2>2. \A k : <<k>> \in Seq(In(<<k>>))
    BY DEF In
  <2>3. /\ DOMAIN job' = Fields /\ job'.kind = "silver" /\ job'.dates = job.dates
        /\ \/ job'.stage = "discard" /\ job'.doomed = <<NbboKey(job.todo[1])>>
           \/ job'.stage = "nbbo" /\ job'.doomed = job.doomed
    BY SMTT(40), <1>1, <1>9, NbboSteps
  <2>. QED  BY <1>1, <2>1, <2>2, <2>3, GoesOn DEF Stages
<1>10. CASE WriteSilverMarkers \/ WriteGoldMarkers
  <2>1. job.dates # <<>> /\ job.dates \in Seq(Dates)
    BY <1>1, <1>10 DEF WriteSilverMarkers, WriteGoldMarkers, Silver, Gold, JobIs
  <2>2. Tail(job.dates) \in Seq(Dates)
    BY <2>1
  <2>. QED  BY <1>10, <2>2, NextDate DEF WriteSilverMarkers, WriteGoldMarkers
<1>11. CASE SilverFails
  <2>1. job'.doomed \in Seq(In(job'.doomed))
    BY <1>1, <1>11, FailSteps, ThroughIs
  <2>2. /\ DOMAIN job' = Fields /\ job'.kind = job.kind /\ job'.dates = job.dates
        /\ job'.stage \in Stages /\ job.dates # <<>> /\ job.kind # "none"
    BY <1>1, <1>11, FailSteps DEF Stages
  <2>. QED  BY <1>1, <2>1, <2>2, GoesOn
<1>12. CASE WriteScorecard \/ WriteSummary
  <2>1. job.kind # "none" /\ job.dates # <<>> /\ job.doomed \in Seq(In(job.doomed))
        /\ job.kind = "gold"
    BY <1>1, <1>12 DEF WriteScorecard, WriteSummary, Gold, JobIs
  <2>. QED  BY <1>1, <1>12, <2>1, GoldSteps, GoesOn DEF Stages
<1>13. CASE WriteBasis
  <2>1. job.kind = "gold" /\ job.dates # <<>> /\ job.doomed \in Seq(In(job.doomed))
    BY <1>1, <1>13 DEF WriteBasis, Gold, JobIs
  <2>2. \A k : <<k>> \in Seq(In(<<k>>))
    BY DEF In
  <2>3. /\ DOMAIN job' = Fields /\ job'.kind = "gold" /\ job'.dates = job.dates
        /\ \/ job'.stage = "summary" /\ job'.doomed = job.doomed
           \/ job'.stage = "discard" /\ job'.doomed = <<GoldKey("basis")>>
    BY <1>1, <1>13, BasisSteps
  <2>. QED  BY <1>1, <2>1, <2>2, <2>3, GoesOn DEF Stages
<1>14. CASE StartStudy \/ TakeFingerprint \/ ServeFeatures \/ EndStudy \/ BronzeGrows
  BY <1>1, <1>14 DEF StartStudy, TakeFingerprint, ServeFeatures, EndStudy, BronzeGrows
<1>. QED
  BY <1>2, <1>3, <1>4, <1>5, <1>6, <1>7, <1>8, <1>9, <1>10, <1>11, <1>12, <1>13, <1>14 DEF Next
-----------------------------------------------------------------------------
\* What a step does to the lake, if anything: silver's objects that appear are due.
Writes ==
  /\ job.dates # <<>> /\ UNCHANGED <<bronze, later>>
  /\ \E key : /\ Rewrites(key)
              /\ \/ key[1] \in GoldDatasets
                 \/ key \in DOMAIN lake'[Date] => key \in Due(bronze[Date]) \cup DOMAIN lake[Date]

(* What is published is due or is gold's.                                    *)
LEMMA PublishWrites ==
  ASSUME Types, job.dates # <<>>, UNCHANGED <<bronze, later>>, NEW key, NEW rows,
         Publish(key, rows), key[1] \in GoldDatasets \/ (rows # <<>> => key \in Due(bronze[Date]))
  PROVE  Writes
<1>1. Rewrites(key) /\ (rows = <<>> => UNCHANGED <<lake, fresh, graded>>)
  BY PublishRewrites
<1>. QED  BY <1>1 DEF Writes

(* What a discarded writer flushed is due or is gold's.                      *)
LEMMA DiscardDue ==
  ASSUME Types, Discarding, job.stage = "discard", job.doomed # <<>>
  PROVE  LET key == job.doomed[1]
             rows == IF key[1] \in DOMAIN job.part THEN job.part[key[1]] ELSE <<>>
         IN  /\ job.kind = "gold" => key[1] \in GoldDatasets
             /\ job.kind = "silver" => Discardable(key, job.part, bronze[Date])
             /\ \A n \in {0, 1} \cap 0..Len(rows) : SubSeq(rows, 1, n) # <<>> =>
                  key[1] \in GoldDatasets \/ key \in Due(bronze[Date])
<1>. DEFINE key == job.doomed[1]
            rows == IF key[1] \in DOMAIN job.part THEN job.part[key[1]] ELSE <<>>
<1>1. key \in In(job.doomed)
  BY InTail DEF Types, JobIs
<1>2. job.kind \in {"silver", "gold"}
  BY DEF Types, JobIs
<1>3. /\ job.kind = "gold" => key[1] \in GoldDatasets
      /\ job.kind = "silver" => Discardable(key, job.part, bronze[Date])
  BY <1>1 DEF Discarding, Discardable
<1>. HIDE DEF key
<1>4. ASSUME NEW n \in {0, 1} \cap 0..Len(rows), SubSeq(rows, 1, n) # <<>>
      PROVE  rows # <<>>
  <2>. SUFFICES ASSUME rows = <<>> PROVE SubSeq(<<>>, 1, 0) = <<>> /\ n = 0
    BY <1>4
  <2>. QED  BY <1>4
<1>5. rows # <<>> => key[1] \in DOMAIN job.part /\ job.part[key[1]] # <<>>
  OBVIOUS
<1>6. rows # <<>> => key[1] \in GoldDatasets \/ key \in Due(bronze[Date])
  BY <1>2, <1>3, <1>5 DEF Discardable
<1>. QED  BY <1>3, <1>4, <1>6 DEF key

(* A step leaves the lake alone or writes one key that is due, or gold's.    *)
LEMMA Moves ==
  ASSUME Types, NothingStale, Folding, Writing, Reporting, Streaming, Discarding, Next
  PROVE  UNCHANGED lake \/ Writes
<1>1. JobIs(job)
  BY DEF Types
<1>2. CASE DiscardCloses
  <2>. DEFINE key == job.doomed[1]
              rows == IF key[1] \in DOMAIN job.part THEN job.part[key[1]] ELSE <<>>
  <2>1. /\ job.stage = "discard" /\ job.doomed # <<>> /\ UNCHANGED <<bronze, later>>
        /\ \E n \in {0, 1} \cap 0..Len(rows) : Publish(key, SubSeq(rows, 1, n))
    BY <1>2 DEF DiscardCloses, env
  <2>2. job.dates # <<>>
    BY <1>1, <2>1 DEF JobIs
  <2>3. \A n \in {0, 1} \cap 0..Len(rows) : SubSeq(rows, 1, n) # <<>> =>
          key[1] \in GoldDatasets \/ key \in Due(bronze[Date])
    BY <2>1, DiscardDue
  <2>. HIDE DEF key, rows
  <2>4. PICK n \in {0, 1} \cap 0..Len(rows) : Publish(key, SubSeq(rows, 1, n))
    BY <2>1
  <2>. DEFINE part == SubSeq(rows, 1, n)
  <2>5. Publish(key, part) /\ (key[1] \in GoldDatasets \/ (part # <<>> => key \in Due(bronze[Date])))
    BY <2>3, <2>4
  <2>. HIDE DEF part
  <2>. QED  BY <2>1, <2>2, <2>5, PublishWrites
<1>3. CASE DiscardDeletes
  <2>. DEFINE key == job.doomed[1]
  <2>1. job.stage = "discard" /\ job.doomed # <<>> /\ UNCHANGED <<bronze, later>>
        /\ (Delete(key) \/ UNCHANGED lake)
    BY <1>3 DEF DiscardDeletes
  <2>2. job.dates # <<>>
    BY <1>1, <2>1 DEF JobIs
  <2>. HIDE DEF key
  <2>3. Delete(key) => Rewrites(key) /\ key \notin DOMAIN lake'[Date]
    BY <2>2, DeleteRewrites
  <2>. QED  BY <2>1, <2>2, <2>3 DEF Writes
<1>4. CASE ClosePartitionWriter
  <2>. DEFINE p == job.todo[1]  b == bronze[Date]  key == job.writes[1]
              rows == job.part[key[1]]
  <2>1. /\ Silver("write") /\ job.writes # <<>> /\ UNCHANGED <<bronze, later>> /\ Publish(key, rows)
    BY <1>4 DEF ClosePartitionWriter, env
  <2>2. job.dates # <<>> /\ IsBronze(b)
    BY <1>1, <2>1, AtWork DEF Types, Silver
  <2>3. p \in DOMAIN b.parts /\ job.part = PartitionRows(b.parts[p])
        /\ key \in {SilverKey(ds, p) : ds \in SilverDatasets}
    BY <2>1 DEF Folding, Writing
  <2>4. Discardable(key, PartitionRows(b.parts[p]), b)
    BY <2>2, <2>3, PartDiscardable
  <2>5. key[1] \in DOMAIN PartitionRows(b.parts[p])
    BY <2>3, NotGold, PartitionRowsOf
  <2>. HIDE DEF key, p
  <2>6. rows # <<>> => key \in Due(b)
    BY <2>3, <2>4, <2>5 DEF Discardable
  <2>. HIDE DEF rows
  <2>. QED  BY <2>1, <2>2, <2>6, PublishWrites
<1>5. CASE WriteStatus
  <2>. DEFINE v == job.todo[1][1]  b == bronze[Date]  rows == StatusRows(b.status[v])
              key == StatusKey(v)
  <2>1. job.todo # <<>> /\ Publish(key, rows) /\ UNCHANGED <<bronze, later>>
    BY <1>1, <1>5, StatusSteps
  <2>2. Silver("status") /\ job.dates # <<>>
    BY <1>5 DEF WriteStatus, Silver
  <2>3. v \in DOMAIN b.status
    BY <2>1, <2>2 DEF Reporting
  <2>4. rows # <<>> => key \in Due(b)
    BY <2>3, StatusDue
  <2>. HIDE DEF key, rows
  <2>. QED  BY <2>1, <2>2, <2>4, PublishWrites
<1>6. CASE WriteNbbo
  <2>. DEFINE s == job.todo[1]  b == bronze[Date]  silver == SilverOf(Date)
              nbbo == NbboOf(silver, job.status, s)  key == NbboKey(s)  rows == nbbo.rows
  <2>1. /\ job.todo # <<>> /\ UNCHANGED <<bronze, later>>
        /\ nbbo.late => UNCHANGED lake
        /\ ~nbbo.late => Publish(key, rows)
    BY <1>1, <1>6, NbboSteps
  <2>2. Silver("nbbo") /\ job.dates # <<>> /\ Date \in Dates
    BY <1>1, <1>6, AtWork DEF WriteNbbo, Silver
  <2>3. /\ IsBronze(b) /\ s \in Quoted(silver) /\ PairsKept(silver, b, {})
        /\ job.status = StatusIn(b) /\ DOMAIN silver \subseteq Due(b)
    BY <2>1, <2>2 DEF Streaming, NothingStale, Types
  <2>. HIDE DEF silver, b, s
  <2>4. s \in {q[3] : q \in DOMAIN QuotesIn(b)} /\ nbbo = NbboIn(b, s)
    BY <2>3, QuotesAre DEF NbboIn
  <2>. HIDE DEF nbbo
  <2>5. rows # <<>> => key \in Due(b)
    BY <2>4, NbboDue
  <2>. HIDE DEF key, rows
  <2>. QED  BY <2>1, <2>2, <2>5, PublishWrites DEF b
<1>7. CASE WriteScorecard \/ WriteBasis \/ WriteSummary
  <2>1. job.dates # <<>> /\ UNCHANGED <<bronze, later>>
    BY <1>7 DEF WriteScorecard, WriteBasis, WriteSummary, Gold, env
  <2>2. UNCHANGED lake \/ \E key, rows : Publish(key, rows) /\ key[1] \in GoldDatasets
    <3>1. \A ds \in GoldDatasets : GoldKey(ds)[1] \in GoldDatasets
      BY DEF GoldKey
    <3>2. CASE WriteScorecard
      BY <3>1, <3>2 DEF WriteScorecard, GoldDatasets
    <3>3. CASE WriteSummary
      BY <3>1, <3>3 DEF WriteSummary, GoldDatasets
    <3>4. CASE WriteBasis
      BY <1>1, <3>1, <3>4, BasisSteps DEF GoldDatasets
    <3>. QED  BY <1>7, <3>2, <3>3, <3>4
  <2>. QED  BY <2>1, <2>2, PublishWrites
<1>8. CASE \/ StartJob \/ EndJob \/ Kill \/ DateFailed \/ BeginSilver \/ FoldPartition \/ PartitionDone
           \/ PartitionsDone \/ StatusDone \/ WriteSilverMarkers \/ SilverFails \/ WriteGoldMarkers
           \/ StartStudy \/ TakeFingerprint \/ ServeFeatures \/ EndStudy \/ BronzeGrows
  BY SMTT(40), <1>8 DEF objects, StartJob, EndJob, Kill, DateFailed, BeginSilver, FoldPartition, PartitionDone,
     PartitionsDone, StatusDone, WriteSilverMarkers, SilverFails, WriteGoldMarkers,
     StartStudy, TakeFingerprint, ServeFeatures, EndStudy, BronzeGrows
<1>. QED  BY <1>2, <1>3, <1>4, <1>5, <1>6, <1>7, <1>8 DEF Next

(* Nothing but the ingest side moves bronze.                                 *)
LEMMA BronzeNext ==
  ASSUME Next
  PROVE  BronzeGrows \/ UNCHANGED <<bronze, later>>
BY DEF Next, env, StartJob, EndJob, Kill, DiscardCloses, DiscardDeletes, DateFailed, BeginSilver, FoldPartition,
  ClosePartitionWriter, PartitionDone, PartitionsDone, WriteStatus, StatusDone, WriteNbbo,
  WriteSilverMarkers, SilverFails, WriteScorecard, WriteBasis, WriteSummary, WriteGoldMarkers,
  StartStudy, TakeFingerprint, ServeFeatures, EndStudy

(* Bronze grows: what was due stays due.                                     *)
LEMMA BronzeTypes ==
  ASSUME Types, Grows, BronzeGrows
  PROVE  /\ DOMAIN bronze' = Dates /\ \A d \in Dates : IsBronze(bronze[d])'
         /\ later' \in Seq({later'[i] : i \in DOMAIN later'})
         /\ \A i \in DOMAIN later' : later'[i].date \in Dates /\ IsBronze(later'[i].bronze)
         /\ \A d \in Dates : Due(bronze[d]) \subseteq Due(bronze'[d])
         /\ Grows'
<1>. DEFINE late == later[1]
<1>1. /\ later # <<>> /\ later' = Tail(later)
      /\ bronze' = [bronze EXCEPT ![late.date] = late.bronze]
  BY DEF BronzeGrows
<1>2. /\ DOMAIN later = 1..Len(later) /\ Len(later) \in Nat /\ Len(later) >= 1
      /\ DOMAIN later' = 1..Len(later') /\ Len(later') = Len(later) - 1
      /\ \A i \in DOMAIN later' : later'[i] = later[i + 1] /\ i + 1 \in DOMAIN later
  BY <1>1 DEF Types
<1>3. /\ late.date \in Dates /\ IsBronze(late.bronze) /\ 1 \in DOMAIN later
      /\ DOMAIN bronze = Dates /\ \A d \in Dates : IsBronze(bronze[d])
  BY <1>2 DEF Types
<1>. HIDE DEF late
<1>4. /\ DOMAIN bronze' = Dates /\ bronze'[late.date] = late.bronze
      /\ \A d \in Dates : d # late.date => bronze'[d] = bronze[d]
  BY <1>1, <1>3
<1>5. \A d \in Dates : Due(bronze[d]) \subseteq Due(bronze'[d])
  BY <1>3, <1>4 DEF Grows, late
<1>6. \A d \in Dates : IsBronze(bronze'[d])
  BY <1>3, <1>4
<1>7. later' \in Seq({later'[i] : i \in DOMAIN later'})
  <2>1. later' \in Seq({later[i] : i \in DOMAIN later})
    BY <1>1 DEF Types
  <2>. QED  BY <2>1
<1>8. \A i \in DOMAIN later' : later'[i].date \in Dates /\ IsBronze(later'[i].bronze)
  BY <1>2 DEF Types
<1>9. ASSUME NEW i \in DOMAIN later'
      PROVE  /\ Due(bronze'[later'[i].date]) \subseteq Due(later'[i].bronze)
             /\ \A j \in 1..(i - 1) : later'[j].date = later'[i].date =>
                  Due(later'[j].bronze) \subseteq Due(later'[i].bronze)
  <2>1. i + 1 \in DOMAIN later /\ later'[i] = later[i + 1] /\ i \in Nat /\ i >= 1
        /\ later'[i].date \in Dates
    BY <1>2, <1>8
  <2>2. /\ Due(bronze[later[i + 1].date]) \subseteq Due(later[i + 1].bronze)
        /\ \A j \in 1..((i + 1) - 1) : later[j].date = later[i + 1].date =>
             Due(later[j].bronze) \subseteq Due(later[i + 1].bronze)
    BY <2>1 DEF Grows
  <2>3. Due(bronze'[later'[i].date]) \subseteq Due(later'[i].bronze)
    <3>1. CASE later'[i].date = late.date
      <4>1. 1 \in 1..((i + 1) - 1)
        BY <2>1
      <4>. QED  BY <1>4, <2>1, <2>2, <3>1, <4>1 DEF late
    <3>2. CASE later'[i].date # late.date
      BY <1>4, <2>1, <2>2, <3>2
    <3>. QED  BY <3>1, <3>2
  <2>4. ASSUME NEW j \in 1..(i - 1)
        PROVE  j + 1 \in 1..((i + 1) - 1) /\ later'[j] = later[j + 1]
    <3>1. j \in DOMAIN later'
      BY <1>2, <2>1
    <3>. QED  BY <1>2, <2>1, <3>1
  <2>. QED  BY <2>1, <2>2, <2>3, <2>4
<1>10. Grows'
  BY <1>9 DEF Grows
<1>. QED  BY <1>4, <1>5, <1>6, <1>7, <1>8, <1>10

(* Only the markers of a run add a date to the history.                      *)
LEMMA HistoryShrinks ==
  ASSUME JobIs(job), Next
  PROVE  /\ ~WriteSilverMarkers => fresh' \subseteq fresh
         /\ ~WriteGoldMarkers => graded' \subseteq graded
<1>1. ASSUME NEW key, NEW rows, Publish(key, rows)
      PROVE  fresh' \subseteq fresh /\ graded' \subseteq graded
  BY <1>1 DEF Publish, Touch
<1>2. ASSUME NEW key, Delete(key) PROVE fresh' \subseteq fresh /\ graded' \subseteq graded
  BY <1>2 DEF Delete, Touch
<1>3. CASE DiscardCloses \/ DiscardDeletes \/ ClosePartitionWriter \/ WriteStatus \/ WriteNbbo
           \/ WriteScorecard \/ WriteBasis \/ WriteSummary
  <2>1. \/ UNCHANGED <<fresh, graded>>
        \/ \E key, rows : Publish(key, rows)
        \/ \E key : Delete(key)
    <3>1. DiscardCloses => \E key, rows : Publish(key, rows)
      BY DEF DiscardCloses
    <3>2. DiscardDeletes => UNCHANGED <<fresh, graded>> \/ \E key : Delete(key)
      BY DEF DiscardDeletes
    <3>3. ClosePartitionWriter => \E key, rows : Publish(key, rows)
      BY DEF ClosePartitionWriter
    <3>4. WriteStatus => \E key, rows : Publish(key, rows)
      BY DEF WriteStatus
    <3>5. WriteNbbo => UNCHANGED <<fresh, graded>> \/ \E key, rows : Publish(key, rows)
      BY NbboSteps
    <3>6. WriteScorecard => \E key, rows : Publish(key, rows)
      BY DEF WriteScorecard
    <3>7. WriteBasis => UNCHANGED <<fresh, graded>> \/ \E key, rows : Publish(key, rows)
      BY BasisSteps
    <3>8. WriteSummary => \E key, rows : Publish(key, rows)
      BY DEF WriteSummary
    <3>. QED  BY <1>3, <3>1, <3>2, <3>3, <3>4, <3>5, <3>6, <3>7, <3>8
  <2>. QED  BY <1>1, <1>2, <2>1
<1>4. CASE \/ StartJob \/ EndJob \/ Kill \/ DateFailed \/ BeginSilver \/ FoldPartition
           \/ PartitionDone \/ PartitionsDone \/ StatusDone \/ SilverFails
           \/ StartStudy \/ TakeFingerprint \/ ServeFeatures \/ EndStudy
  <2>1. UNCHANGED <<fresh, graded>>
    BY <1>4 DEF history, StartJob, EndJob, Kill, DateFailed, BeginSilver, FoldPartition,
       PartitionDone, PartitionsDone, StatusDone, SilverFails, StartStudy, TakeFingerprint,
       ServeFeatures, EndStudy
  <2>. QED  BY <2>1
<1>5. CASE BronzeGrows
  BY <1>5 DEF BronzeGrows
<1>6. CASE WriteSilverMarkers
  BY <1>6 DEF WriteSilverMarkers
<1>7. CASE WriteGoldMarkers
  BY <1>7 DEF WriteGoldMarkers
<1>. QED  BY <1>3, <1>4, <1>5, <1>6, <1>7 DEF Next

(* The history names dates.                                                  *)
LEMMA HistoryOfDates ==
  ASSUME Types, Next
  PROVE  fresh' \subseteq Dates /\ graded' \subseteq Dates
<1>1. fresh \subseteq Dates /\ graded \subseteq Dates /\ JobIs(job)
  BY DEF Types
<1>2. CASE WriteSilverMarkers \/ WriteGoldMarkers
  <2>1. job.dates # <<>> /\ job.dates \in Seq(Dates)
    BY <1>1, <1>2 DEF WriteSilverMarkers, WriteGoldMarkers, Silver, Gold, JobIs
  <2>2. Date \in Dates
    BY <2>1 DEF Date
  <2>. QED  BY <1>1, <1>2, <2>2 DEF WriteSilverMarkers, WriteGoldMarkers
<1>3. CASE ~(WriteSilverMarkers \/ WriteGoldMarkers)
  BY <1>1, <1>3, HistoryShrinks
<1>. QED  BY <1>2, <1>3

(* Types, and a bronze that only grows, are kept.                            *)
LEMMA TypesNext ==
  ASSUME Types, Grows, NothingStale, Folding, Writing, Reporting, Streaming, Discarding, Next
  PROVE  Types' /\ Grows'
<1>1. JobIs(job)'
  BY JobNext
<1>2. DOMAIN lake' = Dates /\ \A d \in Dates : IsFiniteSet(DOMAIN lake'[d])
  <2>1. CASE UNCHANGED lake
    BY <2>1 DEF Types
  <2>2. CASE Writes
    BY <2>2, RewritesFinite DEF Writes
  <2>. QED  BY <2>1, <2>2, Moves
<1>3. fresh' \subseteq Dates /\ graded' \subseteq Dates
  BY HistoryOfDates
<1>4. script' \in Seq(Ran)
  <2>1. script' = script \/ (script # <<>> /\ script' = Tail(script))
    BY DEF Next, StartJob, EndJob, Kill, DiscardCloses, DiscardDeletes, DateFailed, BeginSilver, FoldPartition,
       ClosePartitionWriter, PartitionDone, PartitionsDone, WriteStatus, StatusDone, WriteNbbo,
       WriteSilverMarkers, SilverFails, WriteScorecard, WriteBasis, WriteSummary, WriteGoldMarkers,
       StartStudy, TakeFingerprint, ServeFeatures, EndStudy, BronzeGrows
  <2>. QED  BY SMTT(40), <2>1 DEF Types
<1>5. CASE BronzeGrows
  BY <1>1, <1>2, <1>3, <1>4, <1>5, BronzeTypes DEF Types
<1>6. CASE UNCHANGED <<bronze, later>>
  BY <1>1, <1>2, <1>3, <1>4, <1>6 DEF Types, Grows
<1>. QED  BY <1>5, <1>6, BronzeNext

(* Nothing stale is left by any step.                                        *)
LEMMA NothingStaleNext ==
  ASSUME Types, Grows, NothingStale, Folding, Writing, Reporting, Streaming, Discarding, Next
  PROVE  NothingStale'
<1>1. CASE UNCHANGED lake
  <2>1. \A d \in Dates : Due(bronze[d]) \subseteq Due(bronze'[d])
    BY BronzeNext, BronzeTypes
  <2>2. \A d \in Dates : SilverOf(d)' = SilverOf(d)
    BY <1>1 DEF SilverOf
  <2>. QED  BY <2>1, <2>2 DEF NothingStale
<1>2. CASE Writes
  <2>1. PICK key : /\ Rewrites(key)
                   /\ \/ key[1] \in GoldDatasets
                      \/ key \in DOMAIN lake'[Date] => key \in Due(bronze[Date]) \cup DOMAIN lake[Date]
    BY <1>2 DEF Writes
  <2>2. job.dates # <<>> /\ bronze' = bronze
    BY <1>2 DEF Writes
  <2>3. ASSUME NEW d \in Dates, NEW k \in DOMAIN SilverOf(d)' PROVE k \in Due(bronze[d])
    <3>1. CASE d # Date \/ key[1] \in GoldDatasets \/ k # key
      <4>1. k \in DOMAIN SilverOf(d)
        BY <2>1, <2>2, <2>3, <3>1, SilverRewritten
      <4>. QED  BY <4>1 DEF NothingStale
    <3>2. CASE d = Date /\ k = key /\ key[1] \notin GoldDatasets
      <4>1. k \in DOMAIN lake'[d]
        BY <2>3 DEF SilverOf
      <4>2. k \in Due(bronze[d]) \/ k \in DOMAIN lake[d]
        BY <2>1, <3>2, <4>1
      <4>3. k \in DOMAIN lake[d] => k \in DOMAIN SilverOf(d)
        BY <3>2 DEF SilverOf
      <4>. QED  BY <4>2, <4>3 DEF NothingStale
    <3>. QED  BY <3>1, <3>2
  <2>. QED  BY <2>2, <2>3 DEF NothingStale
<1>. QED  BY <1>1, <1>2, Moves
-----------------------------------------------------------------------------
(* A job at work is at a date.                                               *)
LEMMA AtDate ==
  ASSUME JobIs(job), job.dates # <<>>
  PROVE  Date \in Dates /\ Tail(job.dates) \in Seq(Dates)
<1>1. job.dates \in Seq(Dates)
  BY DEF JobIs
<1>. QED  BY <1>1 DEF Date

(* A step that stays at its date.                                            *)
LEMMA StaysOn ==
  ASSUME job'.dates = job.dates, NEW d, d = Date
  PROVE  Date' = d /\ SilverOf(Date)' = SilverOf(d)' /\ (UNCHANGED lake => SilverOf(d)' = SilverOf(d))
BY DEF Date, SilverOf

(* A published key bears its rows, and the others what they bore.            *)
LEMMA BearsAfter ==
  ASSUME Types, job.dates # <<>>, NEW key, NEW rows, Publish(key, rows), key[1] \notin GoldDatasets,
         NEW d \in Dates, d = Date
  PROVE  /\ Bears(SilverOf(d)', key, rows)
         /\ \A k, r : (k # key \/ r = rows) /\ Bears(SilverOf(d), k, r) => Bears(SilverOf(d)', k, r)
<1>1. /\ Rewrites(key)
      /\ rows # <<>> => key \in DOMAIN lake'[d] /\ lake'[d][key] = rows
  BY PublishRewrites
<1>2. Bears(SilverOf(d)', key, rows)
  BY <1>1 DEF Bears, SilverOf
<1>3. \A k : k # key => /\ k \in DOMAIN SilverOf(d)' <=> k \in DOMAIN SilverOf(d)
                        /\ k \in DOMAIN SilverOf(d) => SilverOf(d)'[k] = SilverOf(d)[k]
  BY <1>1, SilverRewritten
<1>4. ASSUME NEW k, NEW r, k # key \/ r = rows, Bears(SilverOf(d), k, r)
      PROVE  Bears(SilverOf(d)', k, r)
  <2>1. CASE k # key
    BY <1>3, <1>4, <2>1 DEF Bears
  <2>2. CASE k = key
    BY <1>2, <1>4, <2>2
  <2>. QED  BY <2>1, <2>2
<1>. QED  BY <1>2, <1>4

(* The keys of two pairs differ, and those of two datasets.                  *)
LEMMA PairKeysDiffer ==
  ASSUME NEW b, IsBronze(b), NEW p \in DOMAIN b.parts, NEW q \in DOMAIN b.parts,
         NEW ds \in SilverDatasets, NEW dt \in SilverDatasets, SilverKey(ds, p) = SilverKey(dt, q)
  PROVE  ds = dt /\ p = q
<1>1. p = <<p[1], p[2]>> /\ q = <<q[1], q[2]>>
  BY OneSymbolPerVenue DEF IsBronze
<1>. QED  BY <1>1 DEF SilverKey

(* The keys of the three kinds of silver differ.                             *)
LEMMA KindsDiffer ==
  ASSUME NEW ds \in SilverDatasets, NEW p
  PROVE  \A v, s : /\ SilverKey(ds, p) # StatusKey(v) /\ SilverKey(ds, p) # NbboKey(s)
                  /\ StatusKey(v) # NbboKey(s)
BY DEF SilverKey, StatusKey, NbboKey, SilverDatasets, TapeDatasets

(* What is kept of the pairs when an object of another kind is published.    *)
LEMMA PairsStay ==
  ASSUME NEW objs, NEW new, NEW b, NEW todo, PairsKept(objs, b, todo),
         \A p \in DOMAIN b.parts, ds \in SilverDatasets : \A r :
           p \notin todo /\ Bears(objs, SilverKey(ds, p), r) => Bears(new, SilverKey(ds, p), r)
  PROVE  PairsKept(new, b, todo)
BY DEF PairsKept, PairKept

(* A run begins with every pair to fold.                                     *)
LEMMA BeginKeeps ==
  ASSUME Types, Starting, BeginSilver
  PROVE  Starting' /\ Folding' /\ ~Silver("write")' /\ ~Silver("status")' /\ ~Silver("nbbo")'
<1>1. JobIs(job) /\ job.kind = "silver" /\ job.dates # <<>> /\ Silver("begin")
  BY DEF BeginSilver, Silver, Types
<1>2. PICK d \in Dates : d = Date
  BY <1>1, AtDate
<1>. DEFINE b == bronze[d]
<1>3. IsBronze(b) /\ bronze' = bronze
  BY <1>2 DEF Types, BeginSilver, env
<1>4. job'.stage = "fold" /\ job'.dates = job.dates /\ job'.todo = Listed(DOMAIN b.parts)
  BY <1>1, <1>2, SilverSteps
<1>5. job'.status = job.status
  BY <1>1 DEF BeginSilver, JobIs, Fields
<1>6. Date' = d /\ bronze'[Date'] = b
  BY <1>2, <1>3, <1>4, StaysOn
<1>. HIDE DEF b
<1>7. job'.todo \in Seq(DOMAIN b.parts) /\ In(job'.todo) = DOMAIN b.parts
  BY <1>3, <1>4, ListedPairs
<1>8. PairsKept(SilverOf(Date)', b, In(job'.todo))
  BY <1>7 DEF PairsKept
<1>9. Folding'
  BY <1>6, <1>7, <1>8 DEF Folding, In
<1>. QED  BY <1>1, <1>4, <1>5, <1>9 DEF Starting, Silver

(* A fold that is not refused has its writers open.                          *)
LEMMA FoldKeeps ==
  ASSUME Types, Starting, Folding, FoldPartition
  PROVE  Starting' /\ Folding' /\ Writing' /\ ~Silver("status")' /\ ~Silver("nbbo")'
<1>1. JobIs(job) /\ job.kind = "silver" /\ job.dates # <<>> /\ Silver("fold")
  BY DEF FoldPartition, Silver, Types
<1>2. PICK d \in Dates : d = Date
  BY <1>1, AtDate
<1>. DEFINE b == bronze[d]  p == job.todo[1]  part == b.parts[p]
<1>3. IsBronze(b)
  BY SMTT(40), <1>2 DEF Types
<1>4. /\ job.todo # <<>> /\ UNCHANGED <<lake, bronze>>
      /\ job'.dates = job.dates /\ job'.part = PartitionRows(part)
      /\ ~part.ok => job'.stage = "discard"
      /\ part.ok => /\ job'.stage = "write" /\ job'.todo = job.todo
                    /\ job'.writes = Opened(p, part.tape) \o Outer(p)
  BY <1>1, <1>2, FoldSteps
<1>5. Date' = d /\ bronze'[Date'] = b /\ SilverOf(Date)' = SilverOf(d)
  BY SMTT(40), <1>2, <1>4, StaysOn
<1>6. /\ job.todo \in Seq(DOMAIN b.parts) /\ p \in DOMAIN b.parts
      /\ PairsKept(SilverOf(d), b, In(job.todo))
  BY <1>1, <1>2, <1>4 DEF Folding
<1>7. part.ok \in BOOLEAN
  BY <1>3, <1>6 DEF IsBronze
<1>. HIDE DEF b, p
<1>8. CASE ~part.ok
  BY <1>4, <1>8 DEF Starting, Folding, Writing, Silver
<1>9. CASE part.ok
  <2>1. job'.stage = "write" /\ job'.todo = job.todo /\ job'.writes = Opened(p, part.tape) \o Outer(p)
    BY <1>4, <1>9
  <2>2. Folding'
    BY <1>5, <1>6, <2>1 DEF Folding
  <2>3. Starting'
    <3>1. job'.status = job.status
      <4>1. job' = [[job EXCEPT !.part = PartitionRows(part)] EXCEPT !.stage = "write",
                       !.writes = Opened(p, part.tape) \o Outer(p)]
        BY SMTT(40), <1>2, <1>9 DEF FoldPartition, b, p
      <4>. HIDE DEF part
      <4>. QED  BY <1>1, <4>1 DEF JobIs, Fields
    <3>. QED  BY <1>1, <3>1 DEF Starting
  <2>4. Writing'
    <3>. DEFINE tape == part.tape
                S == {SilverKey(ds, p) : ds \in SilverDatasets}
                u == Opened(p, tape)  w == Outer(p)
    <3>1. /\ u \in Seq(S) /\ w \in Seq(S)
          /\ In(u) = {SilverKey(ds, p) : ds \in {ds \in TapeDatasets : tape[ds] # <<>>}}
          /\ In(w) = {SilverKey(ds, p) : ds \in {"latency", "quotes", "book_quality"}}
      <4>1. {SilverKey(ds, p) : ds \in TapeDatasets} \subseteq S
        BY DEF SilverDatasets
      <4>2. u \in Seq({SilverKey(ds, p) : ds \in TapeDatasets})
        BY OpenedIs
      <4>. HIDE DEF u, S
      <4>3. u \in Seq(S)
        BY <4>1, <4>2
      <4>. QED  BY <4>3, OpenedIs, OuterIs DEF u, S
    <3>. HIDE DEF u, w, S, tape
    <3>2. u \o w \in Seq(S) /\ In(u) \cup In(w) \subseteq In(u \o w)
      <4>1. /\ u \o w \in Seq(S) /\ Len(u \o w) = Len(u) + Len(w)
            /\ Len(u) \in Nat /\ Len(w) \in Nat
            /\ \A i \in 1..Len(u) : (u \o w)[i] = u[i]
            /\ \A i \in 1..Len(w) : (u \o w)[Len(u) + i] = w[i]
        BY <3>1
      <4>2. \A i \in 1..Len(w) : Len(u) + i \in 1..Len(u \o w)
        BY <4>1
      <4>3. \A i \in 1..Len(u) : i \in 1..Len(u \o w)
        BY <4>1
      <4>. QED  BY <4>1, <4>2, <4>3 DEF In
    <3>3. ASSUME NEW ds \in SilverDatasets
          PROVE  \/ SilverKey(ds, p) \in In(u \o w)
                 \/ Bears(SilverOf(d), SilverKey(ds, p), PartitionRows(part)[ds])
      <4>1. CASE ds \in TapeDatasets /\ tape[ds] = <<>>
        <5>1. PartitionRows(part)[ds] = <<>>
          BY <4>1, NoTapeNoRows DEF tape
        <5>. QED  BY <5>1 DEF Bears
      <4>2. CASE ds \in TapeDatasets /\ tape[ds] # <<>>
        BY <3>1, <3>2, <4>2
      <4>3. CASE ds \notin TapeDatasets
        <5>1. ds \in {"latency", "quotes", "book_quality"}
          BY <4>3 DEF SilverDatasets
        <5>. QED  BY <3>1, <3>2, <5>1
      <4>. QED  BY <4>1, <4>2, <4>3
    <3>. QED  BY <1>4, <1>5, <1>6, <1>9, <2>1, <3>2, <3>3 DEF Writing, u, w, S, tape, p
  <2>. QED  BY <2>1, <2>2, <2>3, <2>4 DEF Silver
<1>. QED  BY <1>7, <1>8, <1>9

(* A writer that closes has its rows under its key.                          *)
LEMMA CloseKeeps ==
  ASSUME Types, Starting, Folding, Writing, ClosePartitionWriter
  PROVE  Starting' /\ Folding' /\ Writing' /\ ~Silver("status")' /\ ~Silver("nbbo")'
<1>1. JobIs(job) /\ job.kind = "silver" /\ job.dates # <<>> /\ Silver("write") /\ job.writes # <<>>
  BY DEF ClosePartitionWriter, Silver, Types
<1>2. PICK d \in Dates : d = Date
  BY <1>1, AtDate
<1>. DEFINE b == bronze[d]  p == job.todo[1]  key == job.writes[1]  rows == job.part[key[1]]
            S == {SilverKey(ds, p) : ds \in SilverDatasets}
<1>3. IsBronze(b)
  BY <1>2 DEF Types
<1>4. /\ Publish(key, rows) /\ bronze' = bronze /\ job'.dates = job.dates /\ job'.stage = "write"
      /\ job'.todo = job.todo /\ job'.writes = Tail(job.writes) /\ job'.part = job.part
      /\ job'.status = job.status
  <2>1. job'.status = job.status
    BY <1>1 DEF ClosePartitionWriter, JobIs, Fields
  <2>. QED  BY <1>1, <2>1, SilverSteps DEF ClosePartitionWriter, env
<1>5. Date' = d /\ bronze'[Date'] = b /\ SilverOf(Date)' = SilverOf(d)'
  BY <1>2, <1>4, StaysOn
<1>6. /\ job.todo # <<>> /\ job.todo \in Seq(DOMAIN b.parts)
      /\ PairsKept(SilverOf(d), b, In(job.todo))
      /\ b.parts[p].ok /\ job.part = PartitionRows(b.parts[p]) /\ job.writes \in Seq(S)
      /\ \A ds \in SilverDatasets : \/ SilverKey(ds, p) \in In(job.writes)
                                    \/ Bears(SilverOf(d), SilverKey(ds, p), job.part[ds])
  BY <1>1, <1>2 DEF Folding, Writing
<1>7. p \in DOMAIN b.parts /\ p \in In(job.todo)
  BY <1>6 DEF In
<1>8. PICK dk \in SilverDatasets : key = SilverKey(dk, p) /\ key[1] = dk
  <2>1. key \in S
    BY <1>1, <1>6
  <2>. QED  BY SMTT(40), <2>1, NotGold
<1>9. key[1] \notin GoldDatasets
  BY <1>8, NotGold
<1>. HIDE DEF b, p, key, S
<1>10. rows = job.part[dk]
  BY <1>8
<1>. HIDE DEF rows
<1>11. /\ Bears(SilverOf(d)', key, rows)
       /\ \A k, r : (k # key \/ r = rows) /\ Bears(SilverOf(d), k, r) => Bears(SilverOf(d)', k, r)
  BY <1>1, <1>2, <1>4, <1>9, BearsAfter
<1>12. PairsKept(SilverOf(d)', b, In(job.todo))
  <2>1. ASSUME NEW q \in DOMAIN b.parts, NEW ds \in SilverDatasets, NEW r,
               q \notin In(job.todo), Bears(SilverOf(d), SilverKey(ds, q), r)
        PROVE  Bears(SilverOf(d)', SilverKey(ds, q), r)
    <3>1. SilverKey(ds, q) # key
      BY <1>3, <1>7, <1>8, <2>1, PairKeysDiffer
    <3>. QED  BY <1>11, <2>1, <3>1
  <2>. QED  BY <1>6, <2>1, PairsStay
<1>13. In(job.writes) = {key} \cup In(Tail(job.writes)) /\ Tail(job.writes) \in Seq(S)
  BY <1>1, <1>6, InTail DEF key
<1>14. ASSUME NEW ds \in SilverDatasets
       PROVE  \/ SilverKey(ds, p) \in In(Tail(job.writes))
              \/ Bears(SilverOf(d)', SilverKey(ds, p), job.part[ds])
  <2>1. CASE SilverKey(ds, p) = key
    <3>1. ds = dk
      BY <1>3, <1>7, <1>8, <2>1, PairKeysDiffer
    <3>. QED  BY <1>10, <1>11, <2>1, <3>1
  <2>2. CASE SilverKey(ds, p) # key
    BY <1>6, <1>11, <1>13, <2>2
  <2>. QED  BY <2>1, <2>2
<1>15. Folding'
  BY <1>4, <1>5, <1>6, <1>12 DEF Folding
<1>16. Writing'
  BY <1>4, <1>5, <1>6, <1>13, <1>14 DEF Writing, p, S
<1>17. Starting'
  BY <1>1, <1>4 DEF Starting
<1>. QED  BY <1>4, <1>15, <1>16, <1>17 DEF Silver

(* A pair whose writers are closed is kept.                                  *)
LEMMA PartitionKeeps ==
  ASSUME Types, Starting, Folding, Writing, PartitionDone
  PROVE  Starting' /\ Folding' /\ ~Silver("write")' /\ ~Silver("status")' /\ ~Silver("nbbo")'
<1>1. JobIs(job) /\ job.kind = "silver" /\ job.dates # <<>> /\ Silver("write") /\ job.writes = <<>>
  BY DEF PartitionDone, Silver, Types
<1>2. PICK d \in Dates : d = Date
  BY <1>1, AtDate
<1>. DEFINE b == bronze[d]  p == job.todo[1]
<1>3. /\ UNCHANGED <<lake, bronze>> /\ job'.dates = job.dates /\ job'.stage = "fold"
      /\ job'.todo = Tail(job.todo) /\ job'.status = job.status
  <2>1. job'.status = job.status
    BY <1>1 DEF PartitionDone, JobIs, Fields
  <2>. QED  BY <1>1, <2>1, SilverSteps DEF PartitionDone, env, objects
<1>4. Date' = d /\ bronze'[Date'] = b /\ SilverOf(Date)' = SilverOf(d)
  BY <1>2, <1>3, StaysOn
<1>5. /\ job.todo # <<>> /\ job.todo \in Seq(DOMAIN b.parts)
      /\ PairsKept(SilverOf(d), b, In(job.todo))
      /\ b.parts[p].ok /\ job.part = PartitionRows(b.parts[p])
      /\ \A ds \in SilverDatasets : Bears(SilverOf(d), SilverKey(ds, p), job.part[ds])
  <2>1. In(<<>>) = {}
    BY DEF In
  <2>. QED  BY <1>1, <1>2, <2>1 DEF Folding, Writing
<1>. HIDE DEF b
<1>6. In(job.todo) = {p} \cup In(Tail(job.todo)) /\ Tail(job.todo) \in Seq(DOMAIN b.parts)
  BY <1>5, InTail
<1>7. PairKept(SilverOf(d), b, p)
  BY <1>5 DEF PairKept
<1>8. PairsKept(SilverOf(d), b, In(Tail(job.todo)))
  BY <1>5, <1>6, <1>7 DEF PairsKept
<1>9. Folding'
  BY <1>3, <1>4, <1>6, <1>8 DEF Folding
<1>. QED  BY <1>1, <1>3, <1>9 DEF Starting, Silver

(* Every pair is kept once none is to fold.                                  *)
LEMMA PairsDoneKeeps ==
  ASSUME Types, Starting, Folding, PartitionsDone
  PROVE  Reporting' /\ ~Silver("begin")' /\ ~Silver("fold")' /\ ~Silver("write")' /\ ~Silver("nbbo")'
<1>1. JobIs(job) /\ job.kind = "silver" /\ job.dates # <<>> /\ Silver("fold") /\ job.todo = <<>>
  BY DEF PartitionsDone, Silver, Types
<1>2. PICK d \in Dates : d = Date
  BY <1>1, AtDate
<1>. DEFINE b == bronze[d]  S == {<<v>> : v \in DOMAIN b.status}
<1>3. /\ UNCHANGED <<lake, bronze>> /\ job'.dates = job.dates /\ job'.stage = "status"
      /\ job'.todo = Listed(S) /\ job'.status = <<>>
  BY <1>1, <1>2, SilverSteps DEF PartitionsDone, env, objects, Starting
<1>4. Date' = d /\ bronze'[Date'] = b /\ SilverOf(Date)' = SilverOf(d)
  BY <1>2, <1>3, StaysOn
<1>5. PairsKept(SilverOf(d), b, {})
  <2>1. In(<<>>) = {}
    BY DEF In
  <2>. QED  BY <1>1, <1>2, <2>1 DEF Folding
<1>6. IsBronze(b)
  BY <1>2 DEF Types
<1>. HIDE DEF b
<1>7. Listed(S) \in Seq(S) /\ In(Listed(S)) = S
  BY <1>6, ListedVenues
<1>8. /\ DOMAIN job'.status \subseteq DOMAIN b.status
      /\ job'.status = [v \in DOMAIN job'.status |-> StatusRows(b.status[v])]
  <2>1. DOMAIN job'.status = {}
    BY <1>3
  <2>2. job'.status = [v \in {} |-> StatusRows(b.status[v])]
    BY <1>3
  <2>. QED  BY <2>1, <2>2
<1>9. \A v \in DOMAIN b.status : <<v>> \in In(job'.todo)
  BY <1>3, <1>7
<1>10. Reporting'
  BY <1>3, <1>4, <1>5, <1>7, <1>8, <1>9 DEF Reporting
<1>. QED  BY <1>3, <1>10 DEF Silver

(* A heartbeat topic that is written is kept.                                *)
LEMMA StatusKeeps ==
  ASSUME Types, Reporting, WriteStatus
  PROVE  Reporting' /\ ~Silver("begin")' /\ ~Silver("fold")' /\ ~Silver("write")' /\ ~Silver("nbbo")'
<1>1. JobIs(job) /\ job.kind = "silver" /\ job.dates # <<>> /\ Silver("status")
  BY DEF WriteStatus, Silver, Types
<1>2. PICK d \in Dates : d = Date
  BY <1>1, AtDate
<1>. DEFINE b == bronze[d]  v == job.todo[1][1]  rows == StatusRows(b.status[v])
            S == {<<w>> : w \in DOMAIN b.status}
<1>3. /\ job.todo # <<>> /\ Publish(StatusKey(v), rows) /\ bronze' = bronze
      /\ job'.dates = job.dates /\ job'.stage = "status" /\ job'.todo = Tail(job.todo)
      /\ job'.status = Stored(job.status, v, rows)
  BY <1>1, <1>2, StatusSteps
<1>4. Date' = d /\ bronze'[Date'] = b /\ SilverOf(Date)' = SilverOf(d)' /\ IsBronze(b)
  BY <1>2, <1>3, StaysOn DEF Types
<1>5. /\ PairsKept(SilverOf(d), b, {}) /\ job.todo \in Seq(S)
      /\ DOMAIN job.status \subseteq DOMAIN b.status
      /\ job.status = [w \in DOMAIN job.status |-> StatusRows(b.status[w])]
      /\ \A w \in DOMAIN b.status : \/ <<w>> \in In(job.todo)
                                    \/ w \in DOMAIN job.status /\ StatusKept(SilverOf(d), b, w)
  BY <1>1, <1>2 DEF Reporting
<1>6. v \in DOMAIN b.status /\ job.todo[1] = <<v>>
  <2>1. job.todo[1] \in S
    BY <1>3, <1>5
  <2>. QED  BY <2>1
<1>. HIDE DEF b, v, S
<1>7. StatusKey(v)[1] \notin GoldDatasets
  BY DEF StatusKey, GoldDatasets
<1>8. /\ Bears(SilverOf(d)', StatusKey(v), rows)
      /\ \A k, r : (k # StatusKey(v) \/ r = rows) /\ Bears(SilverOf(d), k, r)
                     => Bears(SilverOf(d)', k, r)
  <2>. HIDE DEF rows
  <2>. QED  BY <1>1, <1>2, <1>3, <1>7, BearsAfter
<1>9. PairsKept(SilverOf(d)', b, {})
  <2>1. ASSUME NEW q \in DOMAIN b.parts, NEW ds \in SilverDatasets, NEW r,
               q \notin {}, Bears(SilverOf(d), SilverKey(ds, q), r)
        PROVE  Bears(SilverOf(d)', SilverKey(ds, q), r)
    <3>1. SilverKey(ds, q) # StatusKey(v)
      BY KindsDiffer
    <3>. QED  BY <1>8, <2>1, <3>1
  <2>. QED  BY <1>5, <2>1, PairsStay
<1>10. /\ In(job.todo) = {<<v>>} \cup In(Tail(job.todo)) /\ Tail(job.todo) \in Seq(S)
  BY <1>3, <1>5, <1>6, InTail
<1>11. /\ DOMAIN job'.status = {v} \cup DOMAIN job.status /\ job'.status[v] = rows
       /\ \A w \in DOMAIN job.status : w # v => job'.status[w] = job.status[w]
       /\ job'.status = [w \in DOMAIN job'.status |-> job'.status[w]]
  <2>. HIDE DEF rows
  <2>. QED  BY <1>3 DEF Stored
<1>12. /\ DOMAIN job'.status \subseteq DOMAIN b.status
       /\ \A w \in DOMAIN job'.status : job'.status[w] = StatusRows(b.status[w])
  <2>1. ASSUME NEW w \in DOMAIN job.status PROVE job.status[w] = StatusRows(b.status[w])
    BY <1>5
  <2>. QED  BY <1>5, <1>6, <1>11, <2>1
<1>13. job'.status = [w \in DOMAIN job'.status |-> StatusRows(b.status[w])]
  BY <1>11, <1>12
<1>14. ASSUME NEW w \in DOMAIN b.status
       PROVE  \/ <<w>> \in In(Tail(job.todo))
              \/ w \in DOMAIN job'.status /\ StatusKept(SilverOf(d)', b, w)
  <2>1. CASE w = v
    BY <1>8, <1>11, <2>1 DEF StatusKept
  <2>2. CASE w # v
    <3>1. StatusKey(w) # StatusKey(v)
      BY <2>2 DEF StatusKey
    <3>2. <<w>> # <<v>>
      BY <2>2
    <3>. QED  BY <1>5, <1>8, <1>10, <1>11, <3>1, <3>2 DEF StatusKept
  <2>. QED  BY <2>1, <2>2
<1>15. Reporting'
  BY <1>3, <1>4, <1>9, <1>10, <1>12, <1>13, <1>14 DEF Reporting, S
<1>. QED  BY <1>3, <1>15 DEF Silver
-----------------------------------------------------------------------------
(* The NBBO starts over the silver of this bronze: its pairs, heartbeats     *)
(* and quotes.                                                               *)
LEMMA StatusDoneKeeps ==
  ASSUME Types, NothingStale, Reporting, StatusDone
  PROVE  Streaming' /\ ~Silver("begin")' /\ ~Silver("fold")' /\ ~Silver("write")' /\ ~Silver("status")'
<1>1. JobIs(job) /\ job.kind = "silver" /\ job.dates # <<>> /\ Silver("status") /\ job.todo = <<>>
  BY DEF StatusDone, Silver, Types
<1>2. PICK d \in Dates : d = Date
  BY <1>1, AtDate
<1>. DEFINE b == bronze[d]  silver == SilverOf(d)
<1>3. /\ UNCHANGED <<lake, bronze>> /\ job'.dates = job.dates /\ job'.stage = "nbbo"
      /\ job'.todo = SetToSeq(Quoted(silver)) /\ job'.status = job.status
  BY <1>1, <1>2, SilverSteps DEF StatusDone, env, objects
<1>4. Date' = d /\ bronze'[Date'] = b /\ SilverOf(Date)' = silver
  BY <1>2, <1>3, StaysOn
<1>5. /\ PairsKept(silver, b, {}) /\ DOMAIN job.status \subseteq DOMAIN b.status
      /\ job.status = [v \in DOMAIN job.status |-> StatusRows(b.status[v])]
      /\ \A v \in DOMAIN b.status : v \in DOMAIN job.status /\ StatusKept(silver, b, v)
  <2>1. In(<<>>) = {}
    BY DEF In
  <2>. QED  BY <1>1, <1>2, <2>1 DEF Reporting
<1>6. job.status = StatusIn(b)
  BY <1>5 DEF StatusIn
<1>7. IsFiniteSet(DOMAIN silver)
  <2>1. IsFiniteSet(DOMAIN lake[d]) /\ DOMAIN silver \subseteq DOMAIN lake[d]
    BY DEF Types, SilverOf
  <2>. HIDE DEF silver
  <2>. QED  BY <2>1, FS_Subset
<1>. HIDE DEF b, silver
<1>8. job'.todo \in Seq(Quoted(silver)) /\ In(job'.todo) = Quoted(silver)
  BY <1>3, <1>7, QuotedFinite, SetToSeqIs
<1>9. Streaming'
  BY <1>3, <1>4, <1>5, <1>6, <1>8 DEF Streaming
<1>. QED  BY <1>3, <1>9 DEF Silver

(* A symbol's NBBO that is written is kept.                                  *)
LEMMA NbboKeeps ==
  ASSUME Types, NothingStale, Streaming, WriteNbbo, NothingStale'
  PROVE  Streaming' /\ ~Silver("begin")' /\ ~Silver("fold")' /\ ~Silver("write")' /\ ~Silver("status")'
<1>1. JobIs(job) /\ job.kind = "silver" /\ job.dates # <<>> /\ Silver("nbbo")
  BY DEF WriteNbbo, Silver, Types
<1>2. PICK d \in Dates : d = Date
  BY <1>1, AtDate
<1>. DEFINE b == bronze[d]  silver == SilverOf(d)  s == job.todo[1]  new == SilverOf(d)'
            nbbo == NbboOf(silver, job.status, s)
<1>3. /\ job.todo # <<>> /\ bronze' = bronze /\ job'.dates = job.dates
      /\ nbbo.late => job'.stage = "discard"
      /\ ~nbbo.late => /\ Publish(NbboKey(s), nbbo.rows) /\ job'.stage = "nbbo"
                       /\ job'.todo = Tail(job.todo) /\ job'.status = job.status
  BY <1>1, <1>2, NbboSteps
<1>4. Date' = d /\ bronze'[Date'] = b /\ SilverOf(Date)' = new /\ IsBronze(b)
  BY <1>2, <1>3, StaysOn DEF Types
<1>5. /\ PairsKept(silver, b, {}) /\ job.status = StatusIn(b)
      /\ \A v \in DOMAIN b.status : StatusKept(silver, b, v)
      /\ job.todo \in Seq(Quoted(silver))
      /\ \A t \in Quoted(silver) : t \in In(job.todo) \/ NbboKept(silver, job.status, t)
      /\ DOMAIN silver \subseteq Due(b) /\ DOMAIN new \subseteq Due(b)
  <2>1. DOMAIN silver \subseteq Due(b)
    BY DEF NothingStale
  <2>2. DOMAIN new \subseteq Due(b)
    BY <1>3 DEF NothingStale
  <2>. QED  BY <1>1, <1>2, <2>1, <2>2 DEF Streaming
<1>6. CASE nbbo.late
  BY <1>3, <1>6 DEF Streaming, Silver
<1>7. CASE ~nbbo.late
  <2>1. NbboKey(s)[1] \notin GoldDatasets
    BY DEF NbboKey, GoldDatasets
  <2>. DEFINE key == NbboKey(s)  rows == nbbo.rows
  <2>2. /\ Bears(new, key, rows)
        /\ \A k, r : (k # key \/ r = rows) /\ Bears(silver, k, r) => Bears(new, k, r)
    <3>1. Publish(key, rows)
      BY <1>3, <1>7
    <3>. HIDE DEF rows, key
    <3>. QED  BY <1>1, <1>2, <2>1, <3>1, BearsAfter DEF key
  <2>. HIDE DEF new, silver, b
  <2>3. PairsKept(new, b, {})
    <3>1. ASSUME NEW q \in DOMAIN b.parts, NEW ds \in SilverDatasets, NEW r,
                 q \notin {}, Bears(silver, SilverKey(ds, q), r)
          PROVE  Bears(new, SilverKey(ds, q), r)
      <4>1. SilverKey(ds, q) # key
        BY KindsDiffer
      <4>. HIDE DEF key, rows
      <4>. QED  BY <2>2, <3>1, <4>1
    <3>. QED  BY <1>5, <3>1, PairsStay
  <2>4. \A v \in DOMAIN b.status : StatusKept(new, b, v)
    <3>1. \A v : StatusKey(v) # key
      BY DEF StatusKey, NbboKey
    <3>. HIDE DEF key, rows
    <3>. QED  BY <1>5, <2>2, <3>1 DEF StatusKept
  <2>5. /\ Quoted(new) = Quoted(silver)
        /\ \A status, t : NbboOf(new, status, t) = NbboOf(silver, status, t)
    <3>1. /\ Quoted(silver) = {k[3] : k \in DOMAIN QuotesIn(b)}
          /\ \A status, t : NbboOf(silver, status, t) = NbboOf(QuotesIn(b), status, t)
      BY <1>4, <1>5, QuotesAre
    <3>2. /\ Quoted(new) = {k[3] : k \in DOMAIN QuotesIn(b)}
          /\ \A status, t : NbboOf(new, status, t) = NbboOf(QuotesIn(b), status, t)
      BY <1>4, <1>5, <2>3, QuotesAre
    <3>. QED  BY <3>1, <3>2
  <2>6. In(job.todo) = {s} \cup In(Tail(job.todo)) /\ Tail(job.todo) \in Seq(Quoted(silver))
    BY <1>3, <1>5, InTail
  <2>7. ASSUME NEW t \in Quoted(silver), t \notin In(Tail(job.todo))
        PROVE  NbboKept(new, job.status, t)
    <3>. DEFINE of == NbboOf(silver, job.status, t)
    <3>1. NbboOf(new, job.status, t) = of
      BY <2>5
    <3>2. CASE t = s
      <4>1. of = nbbo
        BY <3>2
      <4>. HIDE DEF of, nbbo
      <4>. QED  BY <1>7, <2>2, <3>1, <3>2, <4>1 DEF NbboKept
    <3>3. CASE t # s
      <4>1. NbboKept(silver, job.status, t)
        BY <1>5, <2>6, <2>7, <3>3
      <4>2. ~of.late /\ Bears(silver, NbboKey(t), of.rows)
        BY <4>1 DEF NbboKept
      <4>3. NbboKey(t) # key
        BY <3>3 DEF NbboKey
      <4>. HIDE DEF of, rows, key
      <4>4. Bears(new, NbboKey(t), of.rows)
        BY <2>2, <4>2, <4>3
      <4>. QED  BY <3>1, <4>2, <4>4 DEF NbboKept
    <3>. QED  BY <3>2, <3>3
  <2>8. /\ job'.stage = "nbbo" /\ job'.todo = Tail(job.todo) /\ job'.status = job.status
    BY <1>3, <1>7
  <2>. HIDE DEF nbbo
  <2>9. Streaming'
    BY <1>4, <1>5, <2>3, <2>4, <2>5, <2>6, <2>7, <2>8 DEF Streaming
  <2>. QED  BY <2>8, <2>9 DEF Silver
<1>. QED  BY <1>3, <1>6, <1>7 DEF Silver

\* Where silver's run of a date stands.
AtSilver == Starting /\ Folding /\ Writing /\ Reporting /\ Streaming

(* Nothing is said of a run that is at its start, discards, or is gold's.    *)
LEMMA SilverAtStart ==
  ASSUME job'.stage \in {"begin", "discard"} \/ job'.kind = "gold", job'.stage = "begin" => job'.status = <<>>
  PROVE  AtSilver'
BY DEF AtSilver, Starting, Folding, Writing, Reporting, Streaming, Silver

(* Between two runs, or two dates of one.                                    *)
LEMMA Begins ==
  ASSUME StartJob \/ EndJob \/ Kill \/ DateFailed \/ WriteSilverMarkers \/ WriteGoldMarkers
         \/ BronzeGrows
  PROVE  job'.stage = "begin" /\ job'.status = <<>>
<1>1. ASSUME NEW kind, NEW dates, job' = [NoJob EXCEPT !.kind = kind, !.dates = dates]
      PROVE  job'.stage = "begin" /\ job'.status = <<>>
  BY <1>1 DEF NoJob
<1>2. CASE job' = NoJob
  BY <1>2 DEF NoJob
<1>. DEFINE To(kind, dates) == job' = [NoJob EXCEPT !.kind = kind, !.dates = dates]
<1>3. job' = NoJob \/ \E kind, dates : To(kind, dates)
  <2>1. StartJob => To(script[1].kind, script[1].dates)
    BY DEF StartJob
  <2>2. DateFailed => job' = NoJob \/ To("silver", Tail(job.dates))
    BY DEF DateFailed
  <2>3. WriteSilverMarkers => To("silver", Tail(job.dates))
    BY DEF WriteSilverMarkers
  <2>4. WriteGoldMarkers => To("gold", Tail(job.dates))
    BY DEF WriteGoldMarkers
  <2>5. EndJob \/ Kill \/ BronzeGrows => job' = NoJob
    BY DEF EndJob, Kill, BronzeGrows
  <2>. HIDE DEF To
  <2>. QED  BY <2>1, <2>2, <2>3, <2>4, <2>5
<1>. QED  BY <1>1, <1>2, <1>3

(* The stages of a silver run are kept by every step.                        *)
LEMMA AtSilverNext ==
  ASSUME Types, NothingStale, NothingStale', AtSilver, Next
  PROVE  AtSilver'
<1>0. JobIs(job) /\ Starting /\ Folding /\ Writing /\ Reporting /\ Streaming
  BY DEF Types, AtSilver
<1>1. CASE BeginSilver
  BY <1>0, <1>1, BeginKeeps DEF AtSilver, Writing, Reporting, Streaming
<1>2. CASE FoldPartition
  BY <1>0, <1>2, FoldKeeps DEF AtSilver, Reporting, Streaming
<1>3. CASE ClosePartitionWriter
  BY <1>0, <1>3, CloseKeeps DEF AtSilver, Reporting, Streaming
<1>4. CASE PartitionDone
  BY <1>0, <1>4, PartitionKeeps DEF AtSilver, Writing, Reporting, Streaming
<1>5. CASE PartitionsDone
  BY <1>0, <1>5, PairsDoneKeeps DEF AtSilver, Starting, Folding, Writing, Streaming
<1>6. CASE WriteStatus
  BY <1>0, <1>6, StatusKeeps DEF AtSilver, Starting, Folding, Writing, Streaming
<1>7. CASE StatusDone
  BY <1>0, <1>7, StatusDoneKeeps DEF AtSilver, Starting, Folding, Writing, Reporting
<1>8. CASE WriteNbbo
  BY <1>0, <1>8, NbboKeeps DEF AtSilver, Starting, Folding, Writing, Reporting
<1>9. CASE StartJob \/ EndJob \/ Kill \/ DateFailed \/ WriteSilverMarkers \/ WriteGoldMarkers
           \/ BronzeGrows
  BY <1>9, Begins, SilverAtStart
<1>10. CASE DiscardCloses \/ DiscardDeletes \/ SilverFails
  <2>1. job'.stage = "discard"
    BY <1>0, <1>10, DiscardSteps, FailSteps DEF DiscardCloses, DiscardDeletes
  <2>. QED  BY <2>1, SilverAtStart
<1>11. CASE WriteScorecard \/ WriteBasis \/ WriteSummary
  <2>1. job'.kind = "gold" /\ job'.stage # "begin"
    BY <1>0, <1>11, GoldSteps, BasisSteps
  <2>. QED  BY <2>1, SilverAtStart
<1>12. CASE StartStudy \/ TakeFingerprint \/ ServeFeatures \/ EndStudy
  <2>1. UNCHANGED <<job, lake, bronze>>
    BY <1>12 DEF StartStudy, TakeFingerprint, ServeFeatures, EndStudy, objects, env
  <2>2. (\A stage : Silver(stage)' = Silver(stage)) /\ Date' = Date /\ SilverOf(Date)' = SilverOf(Date)
    BY <2>1 DEF Silver, Date, SilverOf
  <2>. QED  BY <1>0, <2>1, <2>2 DEF AtSilver, Starting, Folding, Writing, Reporting, Streaming
<1>. QED
  BY <1>1, <1>2, <1>3, <1>4, <1>5, <1>6, <1>7, <1>8, <1>9, <1>10, <1>11, <1>12 DEF Next
-----------------------------------------------------------------------------
(* Writers are discarded only after a run raised, with what they had.        *)
LEMMA DiscardingNext ==
  ASSUME Types, NothingStale, AtSilver, Discarding, Next
  PROVE  Discarding'
<1>0. JobIs(job) /\ Starting /\ Folding /\ Writing /\ Reporting /\ Streaming
  BY DEF Types, AtSilver
<1>1. CASE FoldPartition
  <2>. DEFINE p == job.todo[1]  b == bronze[Date]  part == b.parts[p]
  <2>1. /\ job.todo # <<>> /\ bronze' = bronze /\ job'.dates = job.dates /\ job'.kind = "silver"
        /\ job'.part = PartitionRows(part)
        /\ job'.stage = "discard" => job'.doomed = Outer(p) \/ part.ok
        /\ part.ok => job'.stage = "write"
    BY <1>0, <1>1, FoldSteps
  <2>2. Date' = Date /\ IsBronze(b) /\ p \in DOMAIN b.parts
    <3>1. Silver("fold") /\ job.dates # <<>>
      BY <1>1 DEF FoldPartition, Silver
    <3>2. p \in DOMAIN b.parts
      BY <1>0, <2>1, <3>1 DEF Folding
    <3>. QED  BY <1>0, <2>1, <3>1, <3>2, AtDate DEF Date, Types
  <2>3. bronze'[Date'] = b
    BY <2>1, <2>2
  <2>. HIDE DEF b, p
  <2>4. CASE job'.stage = "discard"
    <3>1. job'.doomed = Outer(p)
      BY <2>1, <2>4
    <3>2. \A k \in In(job'.doomed) : k \in {SilverKey(ds, p) : ds \in SilverDatasets}
      BY <3>1, OuterIs, InSeq
    <3>3. \A k \in In(job'.doomed) : Discardable(k, job'.part, b)
      BY <2>1, <2>2, <3>2, PartDiscardable
    <3>. QED  BY <2>1, <2>3, <3>3 DEF Discarding, Discardable
  <2>5. CASE job'.stage # "discard"
    BY <2>5 DEF Discarding
  <2>. QED  BY SMTT(40), <2>4, <2>5
<1>2. CASE WriteNbbo
  <2>. DEFINE s == job.todo[1]  b == bronze[Date]  silver == SilverOf(Date)
              nbbo == NbboOf(silver, job.status, s)
  <2>1. /\ job.todo # <<>> /\ bronze' = bronze /\ job'.dates = job.dates /\ job'.kind = "silver"
        /\ nbbo.late => job'.doomed = <<NbboKey(s)>> /\ job'.part = [nbbo |-> nbbo.rows]
        /\ ~nbbo.late => job'.stage = "nbbo"
    BY <1>0, <1>2, NbboSteps
  <2>2. Silver("nbbo") /\ job.dates # <<>>
    BY <1>2 DEF WriteNbbo, Silver
  <2>3. /\ Date' = Date /\ IsBronze(b) /\ s \in Quoted(silver) /\ PairsKept(silver, b, {})
        /\ job.status = StatusIn(b) /\ DOMAIN silver \subseteq Due(b)
    <3>1. Date \in Dates /\ Date' = Date
      BY <1>0, <2>1, <2>2, AtDate DEF Date
    <3>. QED  BY <1>0, <2>1, <2>2, <3>1 DEF Streaming, NothingStale, Types
  <2>4. bronze'[Date'] = b
    BY <2>1, <2>3
  <2>. HIDE DEF silver, b, s
  <2>5. s \in {q[3] : q \in DOMAIN QuotesIn(b)} /\ nbbo = NbboIn(b, s)
    BY <2>3, QuotesAre DEF NbboIn
  <2>. HIDE DEF nbbo
  <2>6. nbbo.rows # <<>> => NbboKey(s) \in Due(b)
    BY <2>5, NbboDue
  <2>7. CASE job'.stage = "discard"
    <3>1. job'.doomed = <<NbboKey(s)>> /\ job'.part = [nbbo |-> nbbo.rows]
      BY <2>1, <2>7
    <3>2. NbboKey(s)[1] = "nbbo" /\ NbboKey(s)[1] \notin GoldDatasets
      BY DEF NbboKey, GoldDatasets
    <3>3. In(job'.doomed) = {NbboKey(s)}
      BY <3>1 DEF In
    <3>. DEFINE key == NbboKey(s)
    <3>. HIDE DEF key
    <3>. QED  BY <2>1, <2>4, <2>6, <3>1, <3>2, <3>3 DEF Discarding, key
  <2>8. CASE job'.stage # "discard"
    BY <2>8 DEF Discarding
  <2>. QED  BY <2>7, <2>8
<1>3. CASE SilverFails
  <2>1. /\ job'.kind = "silver" /\ job'.dates = job.dates /\ bronze' = bronze
        /\ job'.part = Flushed /\ job'.doomed \in Through
    BY <1>0, <1>3, FailSteps
  <2>2. \A k \in In(job'.doomed) : Discardable(k, Flushed, bronze[Date])
    BY <1>0, <2>1, ThroughIs
  <2>3. Date' = Date
    BY <2>1 DEF Date
  <2>. QED  BY <2>1, <2>2, <2>3 DEF Discarding, Discardable
<1>4. CASE DiscardCloses \/ DiscardDeletes
  <2>1. job.stage = "discard" /\ bronze' = bronze /\ job.doomed # <<>>
    BY <1>4 DEF DiscardCloses, DiscardDeletes, env
  <2>2. /\ job'.kind = job.kind /\ job'.dates = job.dates /\ job'.part = job.part
        /\ job'.doomed = job.doomed \/ job'.doomed = Tail(job.doomed)
    BY <1>0, <1>4, <2>1, DiscardSteps
  <2>3. In(job'.doomed) \subseteq In(job.doomed)
    BY <1>0, <2>1, <2>2, InTail DEF JobIs
  <2>4. Date' = Date
    BY <2>2 DEF Date
  <2>. QED  BY <2>1, <2>2, <2>3, <2>4 DEF Discarding
<1>5. CASE WriteBasis
  <2>1. job'.kind = "gold" /\ (job'.stage = "discard" => job'.doomed = <<GoldKey("basis")>>)
    BY <1>0, <1>5, BasisSteps
  <2>2. In(<<GoldKey("basis")>>) = {GoldKey("basis")} /\ GoldKey("basis")[1] \in GoldDatasets
    BY DEF In, GoldKey, GoldDatasets
  <2>. QED  BY <2>1, <2>2 DEF Discarding
<1>6. CASE BeginSilver \/ ClosePartitionWriter \/ PartitionDone \/ PartitionsDone \/ StatusDone
  <2>1. job.kind # "none" /\ job.dates # <<>>
    BY <1>0, <1>6 DEF BeginSilver, ClosePartitionWriter, PartitionDone, PartitionsDone,
         StatusDone, JobIs, Silver
  <2>2. job'.stage # "discard"
    BY <1>0, <1>6, <2>1, SilverSteps
  <2>. QED  BY <2>2 DEF Discarding
<1>7. CASE WriteStatus \/ WriteScorecard \/ WriteSummary
  <2>1. job'.stage # "discard"
    BY <1>0, <1>7, StatusSteps, GoldSteps
  <2>. QED  BY <2>1 DEF Discarding
<1>8. CASE StartJob \/ EndJob \/ Kill \/ DateFailed \/ WriteSilverMarkers \/ WriteGoldMarkers
           \/ BronzeGrows
  <2>1. job'.stage # "discard"
    BY <1>8, Begins
  <2>. QED  BY <2>1 DEF Discarding
<1>9. CASE StartStudy \/ TakeFingerprint \/ ServeFeatures \/ EndStudy
  <2>1. UNCHANGED <<job, bronze>>
    BY <1>9 DEF StartStudy, TakeFingerprint, ServeFeatures, EndStudy, env
  <2>2. Date' = Date
    BY <2>1 DEF Date
  <2>. QED  BY <2>1, <2>2 DEF Discarding
<1>. QED  BY <1>1, <1>2, <1>3, <1>4, <1>5, <1>6, <1>7, <1>8, <1>9 DEF Next

(* A date that stays fresh keeps its silver, one that stays graded its objects. *)
LEMMA FreshStays ==
  ASSUME Types, NothingStale, AtSilver, Discarding, Next, NEW d \in fresh', ~WriteSilverMarkers
  PROVE  d \in fresh /\ SilverOf(d)' = SilverOf(d)
<1>0. d \in fresh /\ d \in Dates
  BY HistoryShrinks DEF Types
<1>1. CASE UNCHANGED lake
  BY <1>0, <1>1 DEF SilverOf
<1>2. CASE Writes
  <2>1. PICK key : Rewrites(key)
    BY <1>2 DEF Writes
  <2>2. job.dates # <<>>
    BY <1>2 DEF Writes
  <2>3. CASE d # Date \/ key[1] \in GoldDatasets
    BY <1>0, <2>1, <2>2, <2>3, SilverRewritten
  <2>4. CASE d = Date /\ key[1] \notin GoldDatasets
    <3>1. lake'[Date] = lake[Date]
      BY <2>1, <2>4 DEF Rewrites
    <3>2. lake'[d] = lake[d]
      BY <2>4, <3>1
    <3>. QED  BY <1>0, <3>2 DEF SilverOf
  <2>. QED  BY <2>3, <2>4
<1>. QED  BY <1>1, <1>2, Moves DEF AtSilver

(* A date that stays graded keeps its objects.                               *)
LEMMA GradedStays ==
  ASSUME Types, NothingStale, AtSilver, Discarding, Next, NEW d \in graded', ~WriteGoldMarkers
  PROVE  d \in graded /\ lake'[d] = lake[d]
<1>0. d \in graded /\ d \in Dates
  BY HistoryShrinks DEF Types
<1>1. CASE UNCHANGED lake
  BY <1>0, <1>1
<1>2. CASE Writes
  <2>1. PICK key : Rewrites(key)
    BY <1>2 DEF Writes
  <2>2. CASE d # Date
    BY <1>0, <2>1, <2>2 DEF Rewrites
  <2>3. CASE d = Date
    <3>1. lake'[Date] = lake[Date]
      BY <2>1, <2>3 DEF Rewrites
    <3>. QED  BY <1>0, <2>3, <3>1
  <2>. QED  BY <2>2, <2>3
<1>. QED  BY <1>1, <1>2, Moves DEF AtSilver

(* A run that got through has made of the date what its bronze is due.       *)
LEMMA RunIsDone ==
  ASSUME NEW b, IsBronze(b), NEW objs, objs = [k \in DOMAIN objs |-> objs[k]],
         PairsKept(objs, b, {}), DOMAIN objs \subseteq Due(b),
         \A v \in DOMAIN b.status : StatusKept(objs, b, v),
         \A s \in Quoted(objs) : NbboKept(objs, StatusIn(b), s)
  PROVE  /\ \A p \in DOMAIN b.parts : b.parts[p].ok
         /\ \A k \in DOMAIN QuotesIn(b) : ~NbboIn(b, k[3]).late
         /\ objs = RunOf(b)
<1>1. \A p \in DOMAIN b.parts : b.parts[p].ok
  BY DEF PairsKept, PairKept
<1>2. /\ Quoted(objs) = {k[3] : k \in DOMAIN QuotesIn(b)}
      /\ \A s : NbboOf(objs, StatusIn(b), s) = NbboIn(b, s)
  BY QuotesAre DEF NbboIn
<1>3. \A s \in {k[3] : k \in DOMAIN QuotesIn(b)} :
        ~NbboIn(b, s).late /\ Bears(objs, NbboKey(s), NbboIn(b, s).rows)
  BY <1>2 DEF NbboKept
<1>4. ASSUME NEW k \in Due(b)
      PROVE  k \in DOMAIN objs /\ objs[k] = RunRows(b, k)
  <2>1. RunRows(b, k) # <<>>
    BY DEF Due, RunOf
  <2>2. Bears(objs, k, RunRows(b, k))
    <3>1. CASE \E p \in DOMAIN b.parts, ds \in SilverDatasets : k = SilverKey(ds, p)
      <4>1. PICK p \in DOMAIN b.parts, ds \in SilverDatasets : k = SilverKey(ds, p)
        BY <3>1
      <4>2. RunRows(b, k) = PartitionRows(b.parts[p])[ds]
        BY <4>1, SilverDue
      <4>. QED  BY <4>1, <4>2 DEF PairsKept, PairKept
    <3>2. CASE \E v \in DOMAIN b.status : k = StatusKey(v)
      <4>1. PICK v \in DOMAIN b.status : k = StatusKey(v)
        BY <3>2
      <4>2. RunRows(b, k) = StatusRows(b.status[v])
        BY <4>1, StatusDue
      <4>. QED  BY <4>1, <4>2 DEF StatusKept
    <3>3. CASE \E s \in {q[3] : q \in DOMAIN QuotesIn(b)} : k = NbboKey(s)
      <4>1. PICK s \in {q[3] : q \in DOMAIN QuotesIn(b)} : k = NbboKey(s)
        BY <3>3
      <4>2. RunRows(b, k) = NbboIn(b, s).rows
        BY <4>1, NbboDue
      <4>. QED  BY <1>3, <4>1, <4>2
    <3>. QED  BY <3>1, <3>2, <3>3, DueIs
  <2>. QED  BY <2>1, <2>2 DEF Bears
<1>5. DOMAIN objs = Due(b)
  BY <1>4
<1>6. RunOf(b) = [k \in Due(b) |-> RunRows(b, k)]
  BY DEF Due, RunOf
<1>7. objs = RunOf(b)
  BY <1>4, <1>5, <1>6
<1>. QED  BY <1>1, <1>3, <1>7

(* A date becomes fresh when a run got through, and stays so while nothing   *)
(* moved.                                                                    *)
LEMMA SilverIsOneRunNext ==
  ASSUME Types, NothingStale, AtSilver, Discarding, SilverIsOneRun, Next
  PROVE  SilverIsOneRun'
<1>1. CASE WriteSilverMarkers
  <2>1. /\ UNCHANGED <<lake, bronze>> /\ Silver("nbbo") /\ job.todo = <<>>
        /\ fresh' = IF job.counted = {} THEN fresh ELSE fresh \cup {Date}
    BY <1>1 DEF WriteSilverMarkers, env
  <2>2. PICK d \in Dates : d = Date
    <3>1. JobIs(job) /\ job.dates # <<>>
      BY <2>1 DEF Types, Silver
    <3>. QED  BY <3>1, AtDate
  <2>. DEFINE b == bronze[d]  silver == SilverOf(d)
  <2>3. /\ PairsKept(silver, b, {}) /\ job.status = StatusIn(b)
        /\ \A v \in DOMAIN b.status : StatusKept(silver, b, v)
        /\ \A s \in Quoted(silver) : NbboKept(silver, job.status, s)
        /\ DOMAIN silver \subseteq Due(b) /\ IsBronze(b)
    <3>1. In(<<>>) = {}
      BY DEF In
    <3>2. DOMAIN silver \subseteq Due(b) /\ IsBronze(b)
      BY DEF NothingStale, Types
    <3>. QED  BY <2>1, <2>2, <3>1, <3>2 DEF AtSilver, Streaming
  <2>4. silver = [k \in DOMAIN silver |-> silver[k]]
    BY DEF SilverOf
  <2>. HIDE DEF b, silver
  <2>5. /\ \A p \in DOMAIN b.parts : b.parts[p].ok
        /\ \A k \in DOMAIN QuotesIn(b) : ~NbboIn(b, k[3]).late
        /\ silver = RunOf(b)
    BY <2>3, <2>4, RunIsDone
  <2>6. \A e \in fresh' : (e \in fresh \/ e = d) /\ SilverOf(e)' = SilverOf(e)
    BY <2>1, <2>2 DEF SilverOf
  <2>. QED  BY <2>1, <2>5, <2>6 DEF SilverIsOneRun, b, silver
<1>2. CASE BronzeGrows
  <2>1. ASSUME NEW d \in fresh' PROVE d \in fresh /\ bronze'[d] = bronze[d] /\ SilverOf(d)' = SilverOf(d)
    <3>1. d \in fresh /\ d # later[1].date /\ UNCHANGED lake /\ d \in Dates
      BY <1>2 DEF BronzeGrows, objects, Types
    <3>2. bronze'[d] = bronze[d]
      BY <1>2, <3>1 DEF BronzeGrows, Types
    <3>. QED  BY <3>1, <3>2 DEF SilverOf
  <2>. QED  BY <2>1 DEF SilverIsOneRun
<1>3. CASE ~WriteSilverMarkers /\ ~BronzeGrows
  <2>1. bronze' = bronze
    BY <1>3, BronzeNext
  <2>2. \A d \in fresh' : d \in fresh /\ SilverOf(d)' = SilverOf(d)
    BY <1>3, FreshStays
  <2>. QED  BY <2>1, <2>2 DEF SilverIsOneRun
<1>. QED  BY <1>1, <1>2, <1>3
-----------------------------------------------------------------------------
(* An object of gold is published: silver and the others stand.              *)
LEMMA GoldAfter ==
  ASSUME Types, job.dates # <<>>, NEW key, key[1] \in GoldDatasets, NEW rows, Publish(key, rows),
         NEW d \in Dates, d = Date
  PROVE  /\ SilverOf(d)' = SilverOf(d) /\ Bears(lake'[d], key, rows)
         /\ \A k, r : k # key /\ Bears(lake[d], k, r) => Bears(lake'[d], k, r)
<1>1. /\ Rewrites(key)
      /\ rows # <<>> => key \in DOMAIN lake'[d] /\ lake'[d][key] = rows
  BY PublishRewrites
<1>2. SilverOf(d)' = SilverOf(d)
  BY <1>1, SilverRewritten
<1>3. \A k : k # key => /\ k \in DOMAIN lake'[d] <=> k \in DOMAIN lake[d]
                        /\ k \in DOMAIN lake[d] => lake'[d][k] = lake[d][k]
  BY <1>1 DEF Rewrites
<1>. QED  BY <1>1, <1>2, <1>3 DEF Bears

(* The scorecard of the date, and whether it breaches the budget.            *)
LEMMA ScorecardGrades ==
  ASSUME Types, WriteScorecard
  PROVE  Grading' /\ \A d \in graded' : d # Date => (d \in breached' <=> d \in breached)
<1>1. JobIs(job) /\ Gold("begin") /\ job.dates # <<>>
  BY DEF WriteScorecard, Gold, Types
<1>2. PICK d \in Dates : d = Date
  BY <1>1, AtDate
<1>. DEFINE rows == Scored(SilverOf(d))  key == GoldKey("scorecard")
            card == IF rows = {} THEN <<>> ELSE <<rows>>
<1>3. /\ Publish(key, card) /\ job'.stage = "basis" /\ job'.dates = job.dates
      /\ breached' = IF rows = {} THEN breached
                     ELSE IF Breaches(DqBudget, rows) = {} THEN breached \ {d}
                     ELSE breached \cup {d}
  BY <1>1, <1>2, GoldSteps DEF WriteScorecard
<1>4. Date' = d
  BY <1>2, <1>3 DEF Date
<1>5. key[1] \in GoldDatasets
  BY DEF GoldKey, GoldDatasets
<1>6. /\ SilverOf(d)' = SilverOf(d) /\ Bears(lake'[d], key, card)
  <2>. HIDE DEF card, key
  <2>. QED  BY <1>1, <1>2, <1>3, <1>5, GoldAfter
<1>7. ScoreKept(d)'
  <2>1. Scored(SilverOf(d))' = rows
    BY <1>6
  <2>. HIDE DEF rows, key
  <2>2. rows # {} => card = <<rows>>
    OBVIOUS
  <2>. HIDE DEF card
  <2>. QED  BY <1>3, <1>6, <2>1, <2>2 DEF ScoreKept, key
<1>8. ScoreKept(Date)'
  BY <1>4, <1>7 DEF ScoreKept, SilverOf
<1>9. Grading'
  BY <1>3, <1>8 DEF Grading, Gold
<1>. HIDE DEF rows
<1>. QED  BY <1>2, <1>3, <1>9

(* The basis of the date, kept for its summary.                              *)
LEMMA BasisGrades ==
  ASSUME Types, Grading, WriteBasis
  PROVE  Grading'
<1>1. JobIs(job) /\ Gold("basis") /\ job.dates # <<>>
  BY DEF WriteBasis, Gold, Types
<1>2. PICK d \in Dates : d = Date
  BY <1>1, AtDate
<1>. DEFINE rows == SeriesOf(SilverOf(d))  key == GoldKey("basis")
<1>3. /\ job'.dates = job.dates /\ job'.part = [basis |-> rows] /\ breached' = breached
      /\ \/ Publish(key, rows) /\ job'.stage = "summary"
         \/ job'.stage = "discard"
  BY <1>1, <1>2, BasisSteps
<1>4. Date' = d
  BY <1>2, <1>3 DEF Date
<1>5. key[1] \in GoldDatasets /\ key # GoldKey("scorecard")
  BY DEF GoldKey, GoldDatasets
<1>6. CASE job'.stage = "discard"
  BY <1>6 DEF Grading, Gold
<1>7. CASE Publish(key, rows) /\ job'.stage = "summary"
  <2>1. /\ SilverOf(d)' = SilverOf(d) /\ Bears(lake'[d], key, rows)
        /\ \A k, r : k # key /\ Bears(lake[d], k, r) => Bears(lake'[d], k, r)
    <3>. HIDE DEF rows, key
    <3>. QED  BY <1>1, <1>2, <1>5, <1>7, GoldAfter
  <2>2. ScoreKept(d)
    BY <1>1, <1>2 DEF Grading
  <2>3. ScoreKept(d)'
    <3>. HIDE DEF key
    <3>. QED  BY <1>3, <1>5, <2>1, <2>2 DEF ScoreKept
  <2>4. BasisKept(d)' /\ SeriesOf(SilverOf(d))' = rows
    BY <2>1 DEF BasisKept
  <2>. HIDE DEF rows
  <2>5. ScoreKept(Date)' /\ BasisKept(Date)' /\ SeriesOf(SilverOf(Date))' = rows
    BY <1>4, <2>3, <2>4 DEF ScoreKept, BasisKept, SilverOf
  <2>. QED  BY <1>3, <1>7, <2>5 DEF Grading, Gold
<1>. QED  BY <1>3, <1>6, <1>7

(* The summary of the basis.                                                 *)
LEMMA SummaryGrades ==
  ASSUME Types, Grading, WriteSummary
  PROVE  Grading'
<1>1. JobIs(job) /\ Gold("summary") /\ job.dates # <<>>
  BY DEF WriteSummary, Gold, Types
<1>2. PICK d \in Dates : d = Date
  BY <1>1, AtDate
<1>. DEFINE rows == SeriesOf(SilverOf(d))  key == GoldKey("basis_summary")
            summary == IF rows = <<>> THEN <<>> ELSE <<SummariesOf(rows)>>
<1>3. ScoreKept(d) /\ BasisKept(d) /\ job.part.basis = rows
  BY <1>1, <1>2 DEF Grading
<1>4. /\ Publish(key, summary) /\ job'.stage = "mark" /\ job'.dates = job.dates
      /\ breached' = breached
  BY <1>1, <1>3, GoldSteps DEF WriteSummary
<1>5. Date' = d
  BY <1>2, <1>4 DEF Date
<1>6. key[1] \in GoldDatasets /\ key # GoldKey("scorecard") /\ key # GoldKey("basis")
  BY DEF GoldKey, GoldDatasets
<1>7. /\ SilverOf(d)' = SilverOf(d) /\ Bears(lake'[d], key, summary)
      /\ \A k, r : k # key /\ Bears(lake[d], k, r) => Bears(lake'[d], k, r)
  <2>. HIDE DEF summary, key
  <2>. QED  BY <1>1, <1>2, <1>4, <1>6, GoldAfter
<1>8. ScoreKept(d)'
  <2>. HIDE DEF key, summary
  <2>. QED  BY <1>3, <1>4, <1>6, <1>7 DEF ScoreKept
<1>9. BasisKept(d)'
  <2>. HIDE DEF key, summary
  <2>. QED  BY <1>3, <1>6, <1>7 DEF BasisKept
<1>10. SummaryKept(d)'
  <2>1. SeriesOf(SilverOf(d))' = rows
    BY <1>7
  <2>. HIDE DEF rows, key
  <2>2. rows # <<>> => summary = <<SummariesOf(rows)>>
    OBVIOUS
  <2>. HIDE DEF summary
  <2>. QED  BY <1>7, <2>1, <2>2 DEF SummaryKept, key
<1>11. ScoreKept(Date)' /\ BasisKept(Date)' /\ SummaryKept(Date)'
  BY <1>5, <1>8, <1>9, <1>10 DEF ScoreKept, BasisKept, SummaryKept, SilverOf
<1>. QED  BY <1>4, <1>11 DEF Grading, Gold

(* The stages of a gold run are kept by every step.                          *)
LEMMA GradingNext ==
  ASSUME Types, Grading, Next
  PROVE  Grading'
<1>0. JobIs(job)
  BY DEF Types
<1>1. CASE WriteScorecard
  BY <1>1, ScorecardGrades
<1>2. CASE WriteBasis
  BY <1>2, BasisGrades
<1>3. CASE WriteSummary
  BY <1>3, SummaryGrades
<1>4. CASE StartJob \/ EndJob \/ Kill \/ DateFailed \/ WriteSilverMarkers \/ WriteGoldMarkers
           \/ BronzeGrows
  <2>1. job'.stage = "begin"
    BY <1>4, Begins
  <2>. QED  BY <2>1 DEF Grading, Gold
<1>5. CASE DiscardCloses \/ DiscardDeletes \/ SilverFails
  <2>1. job'.stage = "discard"
    BY <1>0, <1>5, DiscardSteps, FailSteps DEF DiscardCloses, DiscardDeletes
  <2>. QED  BY <2>1 DEF Grading, Gold
<1>6. CASE \/ BeginSilver \/ FoldPartition \/ ClosePartitionWriter \/ PartitionDone
           \/ PartitionsDone \/ WriteStatus \/ StatusDone \/ WriteNbbo
  <2>1. job.kind = "silver" /\ job.dates # <<>>
    BY SMTT(40), <1>6 DEF BeginSilver, FoldPartition, ClosePartitionWriter, PartitionDone, PartitionsDone,
       WriteStatus, StatusDone, WriteNbbo, Silver
  <2>2. job'.kind = "silver"
    BY <1>0, <1>6, <2>1, SilverSteps, FoldSteps, StatusSteps, NbboSteps
  <2>. QED  BY <2>2 DEF Grading, Gold
<1>7. CASE StartStudy \/ TakeFingerprint \/ ServeFeatures \/ EndStudy
  <2>1. UNCHANGED <<job, lake, breached>>
    BY <1>7 DEF StartStudy, TakeFingerprint, ServeFeatures, EndStudy, objects, history
  <2>2. (\A stage : Gold(stage)' = Gold(stage)) /\ Date' = Date /\ SilverOf(Date)' = SilverOf(Date)
    BY <2>1 DEF Gold, Date, SilverOf
  <2>. QED  BY <2>1, <2>2 DEF Grading, ScoreKept, BasisKept, SummaryKept
<1>. QED  BY <1>1, <1>2, <1>3, <1>4, <1>5, <1>6, <1>7 DEF Next

(* A date nobody touched keeps its gold.                                     *)
LEMMA GoldStays ==
  ASSUME NEW d \in Dates, lake'[d] = lake[d], d \in breached' <=> d \in breached
  PROVE  /\ ScoreKept(d) => ScoreKept(d)'
         /\ BasisKept(d) => BasisKept(d)'
         /\ SummaryKept(d) => SummaryKept(d)'
<1>1. SilverOf(d)' = SilverOf(d)
  BY DEF SilverOf
<1>. QED  BY <1>1 DEF ScoreKept, BasisKept, SummaryKept

(* A date is graded when a run got through, and stays so while nothing       *)
(* moved.                                                                    *)
LEMMA GoldIsOneRunNext ==
  ASSUME Types, NothingStale, AtSilver, Discarding, Grading, GoldIsOneRun, Next
  PROVE  GoldIsOneRun'
<1>1. CASE WriteGoldMarkers
  <2>1. /\ UNCHANGED <<lake, breached>> /\ Gold("mark")
        /\ graded' \subseteq graded \cup {Date}
    BY <1>1 DEF WriteGoldMarkers
  <2>2. PICK d \in Dates : d = Date
    <3>1. JobIs(job) /\ job.dates # <<>>
      BY <2>1 DEF Types, Gold
    <3>. QED  BY <3>1, AtDate
  <2>3. ScoreKept(d) /\ BasisKept(d) /\ SummaryKept(d)
    BY <2>1, <2>2 DEF Grading
  <2>4. \A e \in graded' : e \in Dates /\ ScoreKept(e) /\ BasisKept(e) /\ SummaryKept(e)
    BY <2>1, <2>2, <2>3 DEF GoldIsOneRun, Types
  <2>. QED  BY <2>1, <2>4, GoldStays DEF GoldIsOneRun
<1>2. CASE ~WriteGoldMarkers
  <2>1. ASSUME NEW d \in graded'
        PROVE  d \in graded /\ d \in Dates /\ lake'[d] = lake[d] /\ (d \in breached' <=> d \in breached)
    <3>1. d \in graded /\ lake'[d] = lake[d] /\ d \in Dates
      BY <1>2, <2>1, GradedStays DEF Types
    <3>2. CASE WriteScorecard
      <4>1. CASE d # Date
        BY <2>1, <3>1, <3>2, <4>1, ScorecardGrades
      <4>2. CASE d = Date
        <5>. DEFINE rows == Scored(SilverOf(Date))
        <5>1. rows = {} => breached' = breached
          BY <3>2 DEF WriteScorecard
        <5>2. rows # {} => Publish(GoldKey("scorecard"), <<rows>>)
          BY <3>2 DEF WriteScorecard
        <5>3. rows # {} => graded' = graded \ {Date}
          <6>. HIDE DEF rows
          <6>1. <<rows>> # <<>>
            OBVIOUS
          <6>. QED  BY <5>2, <6>1 DEF Publish, Touch
        <5>. HIDE DEF rows
        <5>. QED  BY <2>1, <3>1, <4>2, <5>1, <5>3
      <4>. QED  BY <4>1, <4>2
    <3>3. CASE ~WriteScorecard
      <4>1. CASE StartJob \/ EndJob \/ Kill \/ DiscardCloses \/ DiscardDeletes \/ DateFailed
                 \/ BeginSilver \/ FoldPartition \/ ClosePartitionWriter
        BY <3>1, <4>1 DEF history, StartJob, EndJob, Kill, DiscardCloses, DiscardDeletes, DateFailed,
           BeginSilver, FoldPartition, ClosePartitionWriter
      <4>2. CASE PartitionDone \/ PartitionsDone \/ WriteStatus \/ StatusDone \/ WriteNbbo
                 \/ WriteSilverMarkers \/ SilverFails
        BY <3>1, <4>2 DEF history, PartitionDone, PartitionsDone, WriteStatus, StatusDone, WriteNbbo,
           WriteSilverMarkers, SilverFails
      <4>3. CASE WriteBasis \/ WriteSummary \/ WriteGoldMarkers \/ StartStudy \/ TakeFingerprint
                 \/ ServeFeatures \/ EndStudy \/ BronzeGrows
        BY <3>1, <4>3 DEF history, WriteBasis, WriteSummary, WriteGoldMarkers, StartStudy,
           TakeFingerprint, ServeFeatures, EndStudy, BronzeGrows
      <4>. QED  BY <3>3, <4>1, <4>2, <4>3 DEF Next
    <3>. QED  BY <3>1, <3>2, <3>3
  <2>. QED  BY <2>1, GoldStays DEF GoldIsOneRun
<1>. QED  BY <1>1, <1>2

Inv ==
  /\ Types /\ Grows /\ NothingStale /\ AtSilver /\ Discarding /\ SilverIsOneRun
  /\ Grading /\ GoldIsOneRun

(* The scenarios start with the invariant.                                   *)
LEMMA InvInit == Init => Inv
<1>. SUFFICES ASSUME Init PROVE Inv
  OBVIOUS
<1>1. /\ lake = [d \in Dates |-> <<>>] /\ job = NoJob /\ fresh = {} /\ graded = {}
  BY DEF Init
<1>2. ~(\E stage : Silver(stage) \/ Gold(stage)) /\ job.stage # "discard"
  BY <1>1 DEF NoJob, Silver, Gold
<1>3. NothingStale
  BY <1>1 DEF NothingStale, SilverOf
<1>. QED
  BY <1>1, <1>2, <1>3, TypesInit DEF Inv, AtSilver, Starting, Folding, Writing, Reporting, Streaming,
     Discarding, SilverIsOneRun, Grading, GoldIsOneRun

(* Every step keeps it.                                                      *)
LEMMA InvNext == Inv /\ [Next]_vars => Inv'
<1>. SUFFICES ASSUME Inv, [Next]_vars PROVE Inv'
  OBVIOUS
<1>1. CASE Next
  <2>1. /\ Types /\ Grows /\ NothingStale /\ AtSilver /\ Discarding /\ SilverIsOneRun /\ Grading
        /\ GoldIsOneRun /\ Folding /\ Writing /\ Reporting /\ Streaming
    BY DEF Inv, AtSilver
  <2>2. Types' /\ Grows' /\ NothingStale'
    BY <1>1, <2>1, TypesNext, NothingStaleNext
  <2>3. AtSilver' /\ Discarding'
    BY <1>1, <2>1, <2>2, AtSilverNext, DiscardingNext
  <2>4. SilverIsOneRun' /\ Grading' /\ GoldIsOneRun'
    BY <1>1, <2>1, SilverIsOneRunNext, GradingNext, GoldIsOneRunNext
  <2>. QED  BY <2>2, <2>3, <2>4 DEF Inv
<1>2. CASE UNCHANGED vars
  <2>1. UNCHANGED <<lake, bronze, job, fresh, graded, breached, later, script>>
    BY <1>2 DEF vars, objects, history, env
  <2>2. (\A stage : (Gold(stage)' = Gold(stage)) /\ (Silver(stage)' = Silver(stage))) /\ Date' = Date
    BY <2>1 DEF Gold, Silver, Date
  <2>3. \A d : SilverOf(d)' = SilverOf(d)
    BY <2>1 DEF SilverOf
  <2>4. SilverOf(Date)' = SilverOf(Date)
    BY <2>1, <2>2 DEF SilverOf
  <2>5. Types' /\ Grows' /\ NothingStale' /\ Discarding' /\ SilverIsOneRun'
    BY <2>1, <2>2, <2>3 DEF Inv, Types, Grows, NothingStale, Discarding, SilverIsOneRun
  <2>6. AtSilver'
    BY <2>1, <2>2, <2>4 DEF Inv, AtSilver, Starting, Folding, Writing, Reporting, Streaming
  <2>7. Grading' /\ GoldIsOneRun'
    BY <2>1, <2>2, <2>3, <2>4 DEF Inv, Grading, GoldIsOneRun, ScoreKept, BasisKept, SummaryKept
  <2>. QED  BY <2>5, <2>6, <2>7 DEF Inv
<1>. QED  BY <1>1, <1>2

(* The invariant holds in every reachable state.                             *)
LEMMA Invariance == Spec => []Inv
BY InvInit, InvNext, PTL DEF Spec
-----------------------------------------------------------------------------
\* The NBBO a run streams out of a bronze is the point-in-time one.
MergesInTime(b) ==
  \A s \in {k[3] : k \in DOMAIN QuotesIn(b)} :
    ~NbboIn(b, s).late => NbboIn(b, s).rows = NbboOfBronze(b, s)

(* A symbol nobody quoted has no NBBO.                                       *)
LEMMA NoQuotesNoNbbo ==
  ASSUME NEW b, IsBronze(b), NEW s, s \notin {k[3] : k \in DOMAIN QuotesIn(b)}
  PROVE  NbboOfBronze(b, s) = <<>>
<1>1. QuotesOfBronze(b, s) = [v \in {} |-> PartitionRows(b.parts[<<v, s>>]).quotes]
  <2>1. ASSUME NEW p \in DOMAIN b.parts, p[2] = s, PartitionRows(b.parts[p]).quotes # <<>>
        PROVE  FALSE
    <3>1. SilverKey("quotes", p) \in DOMAIN QuotesIn(b)
      BY <2>1 DEF QuotesIn
    <3>2. SilverKey("quotes", p)[3] = s
      BY <2>1 DEF SilverKey
    <3>. QED  BY <3>1, <3>2
  <2>. QED  BY <2>1 DEF QuotesOfBronze
<1>2. DOMAIN QuotesOfBronze(b, s) = {}
  BY <1>1
<1>3. ASSUME NEW quotes, NEW downs, DOMAIN quotes = {}
      PROVE  PointInTime(quotes, downs) = <<>>
  <2>. DEFINE ticks == UNION {{quotes[v][i].ts : i \in DOMAIN quotes[v]} \cup downs[v]
                              : v \in DOMAIN quotes}
              LegAt(v, t) == {quotes[v][i] : i \in {i \in ShownAt(quotes[v], t) :
                                /\ t - quotes[v][i].ts <= MaxLegAge
                                /\ \A down \in downs[v] : ~(quotes[v][i].ts <= down /\ down <= t)}}
              LegsAt(t) == {v \in DOMAIN quotes : LegAt(v, t) # {}}
              T == {t \in ticks : LegsAt(t) # {}}
              quoted == Ascending(T, LAMBDA a, c : a < c)
  <2>1. T = {}
    BY <1>3
  <2>. HIDE DEF T
  <2>0. DOMAIN quoted = 1..Cardinality(T)
    BY DEF Ascending
  <2>. HIDE DEF quoted
  <2>2. DOMAIN quoted = {}
    BY <2>0, <2>1, FS_EmptySet
  <2>. DEFINE Best(n) == BestOf(quoted[n], [v \in LegsAt(quoted[n]) |->
                                              CHOOSE q \in LegAt(v, quoted[n]) : TRUE])
  <2>3. PointInTime(quotes, downs) = [n \in DOMAIN quoted |-> Best(n)]
    BY DEF PointInTime, quoted, T
  <2>. HIDE DEF Best
  <2>. DEFINE f == [n \in DOMAIN quoted |-> Best(n)]
  <2>4. f \in [1..0 -> {}]
    BY <2>2
  <2>. HIDE DEF f
  <2>5. f \in Seq({}) /\ Len(f) = 0
    BY <2>4
  <2>6. f = <<>>
    BY <2>5, EmptySeq
  <2>. QED  BY <2>3, <2>6 DEF f
<1>. QED  BY <1>2, <1>3 DEF NbboOfBronze

(* The silver in a bronze, key by key.                                       *)
LEMMA SilverInBronze ==
  ASSUME NEW b, IsBronze(b), MergesInTime(b), \A k \in DOMAIN QuotesIn(b) : ~NbboIn(b, k[3]).late
  PROVE  SilverOfBronze(b) = RunOf(b)
<1>. DEFINE silver == [pair \in DOMAIN b.parts |-> PartitionRows(b.parts[pair])]
            ofParts == {<<SilverKey(ds, p), silver[p][ds]>> : ds \in SilverDatasets, p \in DOMAIN b.parts}
            ofStatus == {<<StatusKey(v), StatusRows(b.status[v])>> : v \in DOMAIN b.status}
            ofNbbo == {<<NbboKey(s), NbboOfBronze(b, s)>> : s \in Symbols}
            of == ofParts \cup ofStatus \cup ofNbbo
            written == {o \in of : o[2] # <<>>}
<1>1. \A s \in {k[3] : k \in DOMAIN QuotesIn(b)} : NbboIn(b, s).rows = NbboOfBronze(b, s)
  BY DEF MergesInTime
<1>2. ASSUME NEW o \in written
      PROVE  o[1] \in Due(b) /\ o[2] = RunRows(b, o[1])
  <2>1. CASE o \in ofParts
    <3>1. PICK ds \in SilverDatasets, p \in DOMAIN b.parts : o = <<SilverKey(ds, p), silver[p][ds]>>
      BY <2>1
    <3>2. o[1] = SilverKey(ds, p) /\ o[2] = PartitionRows(b.parts[p])[ds] /\ o[2] # <<>>
      BY <1>2, <3>1
    <3>. QED  BY <3>2, SilverDue
  <2>2. CASE o \in ofStatus
    <3>1. PICK v \in DOMAIN b.status : o = <<StatusKey(v), StatusRows(b.status[v])>>
      BY <2>2
    <3>2. o[1] = StatusKey(v) /\ o[2] = StatusRows(b.status[v]) /\ o[2] # <<>>
      BY <1>2, <3>1
    <3>. QED  BY <3>2, StatusDue
  <2>3. CASE o \in ofNbbo
    <3>1. PICK s \in Symbols : o = <<NbboKey(s), NbboOfBronze(b, s)>>
      BY <2>3
    <3>2. o[1] = NbboKey(s) /\ o[2] = NbboOfBronze(b, s) /\ o[2] # <<>>
      BY <1>2, <3>1
    <3>3. s \in {k[3] : k \in DOMAIN QuotesIn(b)}
      BY <3>2, NoQuotesNoNbbo
    <3>4. o[2] = NbboIn(b, s).rows
      BY <1>1, <3>2, <3>3
    <3>. QED  BY <3>2, <3>3, <3>4, NbboDue
  <2>. QED  BY <1>2, <2>1, <2>2, <2>3
<1>3. ASSUME NEW k \in Due(b)
      PROVE  \E o \in written : o[1] = k
  <2>1. CASE \E p \in DOMAIN b.parts, ds \in SilverDatasets :
               k = SilverKey(ds, p) /\ PartitionRows(b.parts[p])[ds] # <<>>
    <3>1. PICK p \in DOMAIN b.parts, ds \in SilverDatasets :
            k = SilverKey(ds, p) /\ PartitionRows(b.parts[p])[ds] # <<>>
      BY <2>1
    <3>. DEFINE o == <<SilverKey(ds, p), silver[p][ds]>>
    <3>2. o \in ofParts /\ o[2] # <<>> /\ o[1] = k
      BY <3>1
    <3>3. o \in written
      BY <3>2
    <3>. HIDE DEF o
    <3>. QED  BY <3>2, <3>3
  <2>2. CASE \E v \in DOMAIN b.status : k = StatusKey(v) /\ StatusRows(b.status[v]) # <<>>
    <3>1. PICK v \in DOMAIN b.status : k = StatusKey(v) /\ StatusRows(b.status[v]) # <<>>
      BY <2>2
    <3>. DEFINE o == <<StatusKey(v), StatusRows(b.status[v])>>
    <3>2. o \in ofStatus /\ o[2] # <<>> /\ o[1] = k
      BY <3>1
    <3>3. o \in written
      BY <3>2
    <3>. HIDE DEF o
    <3>. QED  BY <3>2, <3>3
  <2>3. CASE \E s \in {q[3] : q \in DOMAIN QuotesIn(b)} :
               k = NbboKey(s) /\ NbboIn(b, s).rows # <<>>
    <3>1. PICK s \in {q[3] : q \in DOMAIN QuotesIn(b)} : k = NbboKey(s) /\ NbboIn(b, s).rows # <<>>
      BY <2>3
    <3>2. s \in Symbols
      <4>1. PICK p \in DOMAIN b.parts : s = SilverKey("quotes", p)[3]
        BY DEF QuotesIn
      <4>2. s = p[2] /\ p \in Declared
        BY <4>1 DEF SilverKey, IsBronze
      <4>. QED  BY <4>2 DEF Symbols
    <3>. DEFINE o == <<NbboKey(s), NbboOfBronze(b, s)>>
    <3>3. o \in ofNbbo /\ o[2] # <<>> /\ o[1] = k
      BY <1>1, <3>1, <3>2
    <3>4. o \in written
      BY <3>3
    <3>. HIDE DEF o
    <3>. QED  BY <3>3, <3>4
  <2>. QED  BY <2>1, <2>2, <2>3, DueIs
<1>4. SilverOfBronze(b) = [k \in {o[1] : o \in written} |-> (CHOOSE o \in written : o[1] = k)[2]]
  BY DEF SilverOfBronze
<1>. HIDE DEF written
<1>5. {o[1] : o \in written} = Due(b)
  BY <1>2, <1>3
<1>6. ASSUME NEW k \in Due(b) PROVE (CHOOSE o \in written : o[1] = k)[2] = RunRows(b, k)
  <2>. DEFINE o == CHOOSE o \in written : o[1] = k
  <2>1. o \in written /\ o[1] = k
    BY <1>3
  <2>. HIDE DEF o
  <2>2. o[2] = RunRows(b, k)
    BY <1>2, <2>1
  <2>. QED  BY <2>2 DEF o
<1>7. RunOf(b) = [k \in Due(b) |-> RunRows(b, k)]
  BY DEF Due, RunOf
<1>. DEFINE Chosen(k) == (CHOOSE o \in written : o[1] = k)[2]
<1>8. SilverOfBronze(b) = [k \in Due(b) |-> Chosen(k)] /\ \A k \in Due(b) : Chosen(k) = RunRows(b, k)
  BY <1>4, <1>5, <1>6
<1>. HIDE DEF Chosen
<1>. QED  BY <1>7, <1>8

(* A date that is fresh holds exactly the silver of its bronze, wherever     *)
(* the NBBO streamed out of that bronze is the point-in-time one:            *)
(* silver/main.py under failures, kills, repeated runs and a bronze that     *)
(* grows. What the merge makes of one bronze is left to TLC.                 *)
THEOREM SilverIsBronzeWhereMerged ==
  Spec => []((\A d \in fresh : MergesInTime(bronze[d])) => SilverIsBronze)
<1>1. Inv /\ (\A d \in fresh : MergesInTime(bronze[d])) => SilverIsBronze
  <2>. SUFFICES ASSUME Inv, \A d \in fresh : MergesInTime(bronze[d]), NEW d \in fresh
                PROVE  /\ \A pair \in DOMAIN bronze[d].parts : bronze[d].parts[pair].ok
                       /\ SilverOf(d) = SilverOfBronze(bronze[d])
    BY DEF SilverIsBronze
  <2>1. IsBronze(bronze[d])
    BY DEF Inv, Types
  <2>. QED  BY <2>1, SilverInBronze DEF Inv, SilverIsOneRun
<1>. QED  BY <1>1, Invariance, PTL

(* A date whose silver markers stand holds what one undisturbed run makes    *)
(* of its bronze, object by object and nothing else, whichever runs failed,  *)
(* were killed or were repeated before: silver/main.py, common/lake.py.      *)
THEOREM SilverIsThatOfOneRun == Spec => []SilverIsOneRun
<1>1. Inv => SilverIsOneRun
  BY DEF Inv
<1>. QED  BY <1>1, Invariance, PTL

(* A date whose gold markers stand holds the scorecard, basis and summary    *)
(* of its silver, and is called a breach exactly when that scorecard         *)
(* breaches its budget: gold/main.py.                                        *)
THEOREM GoldIsThatOfOneRun == Spec => []GoldIsOneRun
<1>1. Inv => GoldIsOneRun
  BY DEF Inv
<1>. QED  BY <1>1, Invariance, PTL
=============================================================================
