---------------------------- MODULE Materializer ----------------------------
(***************************************************************************)
(* python/materializer: topics -> bronze Parquet objects.  poll_once takes a *)
(* batch, buffers it per topic-partition, cuts a chunk on size, UTC date or  *)
(* age, PUTs it and then commits.  One coroutine does all of it; it is       *)
(* suspended in getmany, in the PUT and in the commit, and may die anywhere. *)
(*                                                                           *)
(* The assignment is stable here; MaterializerRebalance adds rebalances.     *)
(***************************************************************************)
EXTENDS Integers, Sequences

CONSTANTS
  TPs,          \* topic-partitions
  Dates,        \* UTC dates
  FLUSH_RECORDS,\* flush_bytes, every record counting one
  MaxOffset,    \* bound: records per partition
  MaxBatch,     \* bound: records of a partition one getmany returns
  MaxCrashes    \* bound: crashes and shutdowns

ASSUME MaterializerAssumption ==
  FLUSH_RECORDS \in Nat \ {0} /\ {MaxOffset, MaxBatch, MaxCrashes} \subseteq Nat

VARIABLES
  date,       \* date[tp][o]: the UTC date of the record at offset o
  committed,  \* the group's committed offset, per partition
  lake,       \* lake[tp]: the objects, [date, start, rows] records
  pc,         \* where the coroutine is
  stopping,   \* self._stopping
  position,   \* the consumer's fetch position
  batch,      \* batch[tp]: what getmany returned and is not appended yet
  cur,        \* {tp} while poll_once is among the records of tp, else {}
  buffers,    \* self._buffers[tp].records, <<>> when there is no buffer
  todo,       \* partitions whose flush is due, or left by flush_all
  flush,      \* [tp, rows, then]: the chunk _flush has popped
  crashes     \* how much of MaxCrashes is used

taskVars == <<pc, stopping, position, batch, cur, buffers, todo, flush>>
vars == <<date, committed, lake, taskVars, crashes>>

Offsets == 0..(MaxOffset - 1)
Nothing == [tp \in TPs |-> <<>>]
NoFlush == [tp |-> CHOOSE tp \in TPs : TRUE, rows |-> <<>>, then |-> "poll"]

Init ==
  /\ date \in [TPs -> [Offsets -> Dates]]
  /\ committed = [tp \in TPs |-> 0] /\ lake = [tp \in TPs |-> {}]
  /\ pc = "poll" /\ stopping = FALSE
  /\ position = [tp \in TPs |-> 0] /\ batch = Nothing /\ cur = {}
  /\ buffers = Nothing /\ todo = {} /\ flush = NoFlush
  /\ crashes = 0

----------------------------------------------------------------------------
\* A faulty consumer, its auto-commit left on.
PollAutoCommits ==
  /\ pc = "poll" /\ ~stopping
  /\ \E n \in [TPs -> 0..MaxBatch] :
       /\ \A tp \in TPs : position[tp] + n[tp] <= MaxOffset
       /\ batch' = [tp \in TPs |-> [i \in 1..n[tp] |-> position[tp] + i - 1]]
       /\ position' = [tp \in TPs |-> position[tp] + n[tp]]
  /\ committed' = position' /\ pc' = "append"
  /\ UNCHANGED <<date, lake, stopping, cur, buffers, todo, flush, crashes>>

\* getmany: the next records of some partitions.
Poll ==
  /\ pc = "poll" /\ ~stopping
  /\ \E n \in [TPs -> 0..MaxBatch] :
       /\ \A tp \in TPs : position[tp] + n[tp] <= MaxOffset
       /\ batch' = [tp \in TPs |-> [i \in 1..n[tp] |-> position[tp] + i - 1]]
       /\ position' = [tp \in TPs |-> position[tp] + n[tp]]
  /\ pc' = "append"
  /\ UNCHANGED <<date, committed, lake, stopping, cur, buffers, todo, flush, crashes>>

\* _flush pops the buffer and starts the PUT; `then` is what comes after it.
StartFlush(tp, rows, then) ==
  /\ flush' = [tp |-> tp, rows |-> rows, then |-> then]
  /\ buffers' = [buffers EXCEPT ![tp] = <<>>]
  /\ pc' = "put"

DateOf(tp, rows) == date[tp][rows[1]]

\* poll_once finishes one partition before it turns to the next.
Turn(tp) == batch[tp] # <<>> /\ cur \subseteq {tp}

\* _append, the date-boundary cut: the record stays at hand.
DateCut(tp) ==
  /\ pc = "append" /\ Turn(tp)
  /\ buffers[tp] # <<>> /\ date[tp][Head(batch[tp])] # DateOf(tp, buffers[tp])
  /\ StartFlush(tp, buffers[tp], "append")
  /\ cur' = {tp}
  /\ UNCHANGED <<date, committed, lake, stopping, position, batch, todo, crashes>>

\* _append, with the size cut behind it.
AppendRecord(tp) ==
  /\ pc = "append" /\ Turn(tp)
  /\ buffers[tp] # <<>> => date[tp][Head(batch[tp])] = DateOf(tp, buffers[tp])
  /\ batch' = [batch EXCEPT ![tp] = Tail(@)]
  /\ cur' = IF Tail(batch[tp]) = <<>> THEN {} ELSE {tp}
  /\ LET rows == Append(buffers[tp], Head(batch[tp]))
     IN  \/ Len(rows) >= FLUSH_RECORDS /\ StartFlush(tp, rows, "append")
         \/ /\ Len(rows) < FLUSH_RECORDS
            /\ buffers' = [buffers EXCEPT ![tp] = rows]
            /\ UNCHANGED <<pc, flush>>
  /\ UNCHANGED <<date, committed, lake, stopping, position, todo, crashes>>

Buffered == {tp \in TPs : buffers[tp] # <<>>}

\* A faulty _flush_due that lists partitions without a buffer too.
FlushDueAll(due) ==
  /\ pc = "append" /\ \A tp \in TPs : batch[tp] = <<>>
  /\ todo' = due /\ pc' = "flush"
  /\ UNCHANGED <<date, committed, lake, stopping, position, batch, cur, buffers, flush, crashes>>

\* The batch is done: _flush_due lists the buffers that are old enough.
FlushDue(due) ==
  /\ pc = "append" /\ \A tp \in TPs : batch[tp] = <<>>
  /\ due \subseteq Buffered
  /\ todo' = due /\ pc' = "flush"
  /\ UNCHANGED <<date, committed, lake, stopping, position, batch, cur, buffers, flush, crashes>>

\* run leaves its loop: flush_all sweeps every buffer.
FlushAll ==
  /\ pc = "poll" /\ stopping
  /\ todo' = Buffered /\ pc' = "flush"
  /\ UNCHANGED <<date, committed, lake, stopping, position, batch, cur, buffers, flush, crashes>>

\* The next listed flush, or the end of the cycle.
FlushNext ==
  /\ pc = "flush"
  /\ \/ \E tp \in todo \cap Buffered :
          /\ todo' = todo \ {tp}
          /\ StartFlush(tp, buffers[tp], "flush")
     \/ /\ todo = {}
        /\ pc' = IF stopping /\ Buffered = {} THEN "stopped" ELSE "poll"
        /\ UNCHANGED <<todo, buffers, flush>>
  /\ UNCHANGED <<date, committed, lake, stopping, position, batch, cur, crashes>>

Object == [date |-> DateOf(flush.tp, flush.rows), start |-> flush.rows[1], rows |-> flush.rows]

\* A faulty key that names the chunk by its start and its end.
SameKeyWithEnd(a, b) ==
  a.date = b.date /\ a.start = b.start /\ Len(a.rows) = Len(b.rows)

\* A faulty key without the offset.
SameKeyByDate(a, b) == a.date = b.date

\* object_key: the partition, the date and the START offset, nothing else.
SameKey(a, b) == a.date = b.date /\ a.start = b.start

\* The PUT lands, over whatever had its key.
Put ==
  /\ pc = "put"
  /\ lake' = [lake EXCEPT ![flush.tp] = {o \in @ : ~SameKey(o, Object)} \cup {Object}]
  /\ pc' = "commit"
  /\ UNCHANGED <<date, committed, stopping, position, batch, cur, buffers, todo, flush, crashes>>

\* A faulty commit: of the last record's own offset.
CommitLastOffset ==
  /\ pc = "commit"
  /\ committed' = [committed EXCEPT ![flush.tp] = flush.rows[Len(flush.rows)]]
  /\ pc' = flush.then /\ flush' = NoFlush
  /\ UNCHANGED <<date, lake, stopping, position, batch, cur, buffers, todo, crashes>>

\* The commit is accepted, and the loop that called _flush goes on.
Commit ==
  /\ pc = "commit"
  /\ committed' = [committed EXCEPT ![flush.tp] = flush.rows[Len(flush.rows)] + 1]
  /\ pc' = flush.then /\ flush' = NoFlush
  /\ UNCHANGED <<date, lake, stopping, position, batch, cur, buffers, todo, crashes>>

\* A new process: empty buffers, the position the committed offset.
FreshTask ==
  /\ pc' = "poll" /\ stopping' = FALSE
  /\ position' = committed' /\ batch' = Nothing /\ cur' = {}
  /\ buffers' = Nothing /\ todo' = {} /\ flush' = NoFlush

\* The process dies and is started again: before the PUT landed, between the PUT
\* and the commit, or with an answer to the commit that never came.
Crash ==
  /\ pc # "stopped" /\ crashes < MaxCrashes /\ crashes' = crashes + 1
  /\ \/ committed' = committed
     \/ /\ pc = "commit"
        /\ committed' = [committed EXCEPT ![flush.tp] = flush.rows[Len(flush.rows)] + 1]
  /\ FreshTask
  /\ UNCHANGED <<date, lake>>

Shutdown ==
  /\ ~stopping /\ crashes < MaxCrashes /\ crashes' = crashes + 1
  /\ stopping' = TRUE
  /\ UNCHANGED <<date, committed, lake, pc, position, batch, cur, buffers, todo, flush>>

Restart ==
  /\ pc = "stopped"
  /\ committed' = committed /\ FreshTask
  /\ UNCHANGED <<date, lake, crashes>>

Step ==
  \/ Poll \/ FlushAll \/ FlushNext \/ Put \/ Commit \/ Restart
  \/ \E tp \in TPs : DateCut(tp) \/ AppendRecord(tp)
  \/ \E due \in SUBSET TPs : FlushDue(due)

Next == Step \/ Crash \/ Shutdown

\* The coroutine runs on; a buffer that stays is due at some cycle's end
\* (flush_interval_sec), and records that are there are polled.
Fairness ==
  /\ WF_vars(Step)
  /\ \A tp \in TPs : /\ SF_vars(tp \in Buffered /\ FlushDue(Buffered))
                     /\ SF_vars(position[tp] < MaxOffset /\ Poll /\ batch'[tp] # <<>>)

Spec == Init /\ [][Next]_vars /\ Fairness

----------------------------------------------------------------------------
\* Properties

Rows(o) == {o.rows[i] : i \in 1..Len(o.rows)}

(* The shape of the task's state; a chunk being flushed is never empty       *)
(* (records_to_table refuses one), and is never longer than the size cut.    *)
TypeOK ==
  /\ committed \in [TPs -> 0..MaxOffset] /\ position \in [TPs -> 0..MaxOffset]
  /\ pc \in {"poll", "append", "flush", "put", "commit", "stopped"}
  /\ \A tp \in TPs : \A q \in {batch[tp], buffers[tp]} :
       \A i \in 1..Len(q) : q[i] \in Offsets
  /\ \A tp \in TPs : Len(buffers[tp]) < FLUSH_RECORDS
  /\ todo \subseteq Buffered
  /\ pc \in {"put", "commit"} => Len(flush.rows) \in 1..FLUSH_RECORDS

(* service.py, "exactly-once at the file grain": no record stands in the     *)
(* lake twice, in one object or in two, at any time, crashes included, and   *)
(* every committed record stands there.                                      *)
ExactlyOnce ==
  \A tp \in TPs :
    /\ \A a, b \in lake[tp] : a # b => Rows(a) \cap Rows(b) = {}
    /\ \A a \in lake[tp] : \A i, j \in 1..Len(a.rows) : a.rows[i] = a.rows[j] => i = j
    /\ \A n \in 0..(committed[tp] - 1) : \E a \in lake[tp] : n \in Rows(a)

(* object_key: chunks are contiguous, so a sorted listing implies coverage,  *)
(* and at most one object is ahead of the committed offset, right at it.     *)
(* The date partition is honest: every row of an object is of its date.      *)
ChunksTile ==
  \A tp \in TPs : \A a \in lake[tp] :
    /\ a.start <= committed[tp]
    /\ \/ a.start + Len(a.rows) <= committed[tp]
       \/ a.start = committed[tp]
    /\ a.start > 0 => \E b \in lake[tp] : b.start + Len(b.rows) = a.start
    /\ \A n \in Rows(a) : date[tp][n] = a.date

(* What is committed stays as it was read: no later PUT changes, moves or    *)
(* removes an object below the committed offset.                             *)
CommittedObjectsStay ==
  [][\A tp \in TPs : \A a \in lake[tp] : a.start < committed[tp] => a \in lake'[tp]]_vars

(* Every record ends in the lake, whatever crashes, restarts or is stopped;  *)
(* the buffers that were lost are read again.                                *)
EventuallyArchived ==
  <>[](\A tp \in TPs : \A n \in Offsets : \E a \in lake[tp] : n \in Rows(a))
=============================================================================
