-------------------------------- MODULE AsOf --------------------------------
(***************************************************************************)
(* common/asof.py: the as-of merge silver's NBBO and gold's basis share.     *)
(* An event is [ts, val]; the value <<>> is the eviction sentinel None.      *)
(***************************************************************************)
EXTENDS Integers, FiniteSets, SequencesExt

\* A set in ascending order: an element stands behind all that are less.
Ascending(S, Less(_, _)) ==
  [n \in 1..Cardinality(S) |-> CHOOSE x \in S : Cardinality({y \in S : Less(y, x)}) = n - 1]

\* The order of a heap of <<ts, index>>.
Before(p, q) == p[1] < q[1] \/ (p[1] = q[1] /\ p[2] < q[2])

\* One turn of merge_latest: the earliest head of the streams is applied, and
\* with the other events of its tick makes one snapshot.
MergeStep(streams, m) ==
  LET live == {k \in DOMAIN streams : m.pos[k] < Len(streams[k])}
      First(k) == streams[k][m.pos[k] + 1]
      k == CHOOSE k \in live : \A l \in live : First(k).ts <= First(l).ts
      snap == [ts |-> First(k).ts, latest |-> (k :> First(k).val) @@ m.latest]
      sameTick == m.out # <<>> /\ Last(m.out).ts = snap.ts
  IN  [pos |-> [m.pos EXCEPT ![k] = @ + 1], latest |-> snap.latest,
       out |-> Append(IF sameTick THEN Front(m.out) ELSE m.out, snap)]

\* merge_latest: the running latest value of every stream, once per distinct ts.
MergeLatest(streams) ==
  LET total == MapThenSumSet(LAMBDA k : Len(streams[k]), DOMAIN streams)
  IN  FoldLeft(LAMBDA m, i : MergeStep(streams, m),
               [pos |-> [k \in DOMAIN streams |-> 0], latest |-> <<>>, out |-> <<>>],
               [i \in 1..total |-> i]).out

\* What no later event may still undercut.
Cutoff(watermark, window) == watermark - window

\* The events of the heap, by ts and then by arrival.
InOrder(events, heap) ==
  LET order == Ascending(heap, LAMBDA i, j : Before(<<events[i].ts, i>>, <<events[j].ts, j>>))
  IN  [n \in DOMAIN order |-> events[order[n]]]

\* One event read by reorder: LatenessError, or pushed and what is ripe popped.
\* `emitted` is last_emitted; <<>> while it is None.
ReorderStep(events, window, r, i) ==
  LET ts == events[i].ts
      watermark == IF ts > r.watermark THEN ts ELSE r.watermark
      heap == r.heap \cup {i}
      ripe == {j \in heap : events[j].ts <= Cutoff(watermark, window)}
      out == r.out \o InOrder(events, ripe)
  IN  IF r.late \/ (r.emitted # <<>> /\ ts < r.emitted[1]) THEN [r EXCEPT !.late = TRUE]
      ELSE [late |-> FALSE, watermark |-> watermark, heap |-> heap \ ripe, out |-> out,
            emitted |-> IF ripe = {} THEN r.emitted ELSE <<Last(out).ts>>]

\* reorder, and the tail drained at the end of the stream.
Reordered(events, window) ==
  LET r == FoldLeft(LAMBDA acc, i : ReorderStep(events, window, acc, i),
                    [late |-> FALSE, watermark |-> 0, heap |-> {}, out |-> <<>>, emitted |-> <<>>],
                    [i \in DOMAIN events |-> i])
  IN  [late |-> r.late, out |-> r.out \o InOrder(events, r.heap)]
=============================================================================
