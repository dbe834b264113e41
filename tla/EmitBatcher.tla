---------------------------- MODULE EmitBatcher ----------------------------
(***************************************************************************)
(* gateway/src/batcher.ts: derived messages accumulate per topic and leave   *)
(* through one sendBatch at a time.  Messages of a topic are numbered in the *)
(* order they are enqueued.  JavaScript runs to completion, so an action is  *)
(* one callback: an enqueue, the setImmediate flush, a settled send.         *)
(*                                                                           *)
(* The broker is external: while a sendBatch is in flight it appends each    *)
(* topic's messages as a block, perhaps more than once (kafkajs resends a    *)
(* request whose answer was lost, the producer is not idempotent), and the   *)
(* send settles with success only if every topic was appended.  A request the*)
(* client has given up on is assumed never to be appended later.             *)
(***************************************************************************)
EXTENDS Integers, Sequences, FiniteSets, Functions

CONSTANTS
  Topics,       \* md.bbo.* and md.nbbo.* topics
  MaxQueued,    \* maxQueued: messages one flush carries
  MaxEnqueued,  \* bound: messages enqueued
  MaxAppends    \* bound: times a send's block is appended to a topic

ASSUME TopicsAssumption == IsFiniteSet(Topics)
ASSUME MaxQueuedAssumption == MaxQueued \in Nat \ {0}
ASSUME BoundsAssumption == MaxEnqueued \in Nat /\ MaxAppends \in Nat

VARIABLES
  order,          \* the insertion order of the Map `queues`: its keys
  queues,         \* queues[t]: the messages waiting, <<>> when t is no key
  queued,         \* this.queued
  flushScheduled, \* this.flushScheduled
  sending,        \* this.sending
  inflight,       \* the sends in flight: [id, msgs, appends] records
  flushes,        \* sends started; numbers the promises `current` holds
  enqueued,       \* enqueued[t]: the number of the last message of t
  broker,         \* broker[t]: the topic, as [flush, n] entries
  drain           \* [phase, on]: shutdown, and the send drain() awaits

batcherVars == <<order, queues, queued, sending, inflight, flushes>>
vars == <<batcherVars, flushScheduled, enqueued, broker, drain>>

Keys == {order[i] : i \in DOMAIN order}

Init ==
  /\ order = <<>> /\ queues = [t \in Topics |-> <<>>] /\ queued = 0
  /\ flushScheduled = FALSE /\ sending = FALSE
  /\ inflight = {} /\ flushes = 0
  /\ enqueued = [t \in Topics |-> 0]
  /\ broker = [t \in Topics |-> <<>>]
  /\ drain = [phase |-> "running", on |-> 0]

----------------------------------------------------------------------------
\* takeBatch

\* The messages that wait in the queues q of the topics S.
Waiting(q, S) == SumFunctionOnSet([t \in Topics |-> Len(q[t])], S)

\* Messages of the keys that come before position k of the Map.
Ahead(ord, q, k) == Waiting(q, {ord[i] : i \in 1..(k - 1)})

Position(ord, t) == CHOOSE i \in DOMAIN ord : ord[i] = t

\* What takeBatch takes of topic t: all of it, what the budget leaves, or none.
Share(ord, q, t) ==
  LET left == MaxQueued - Ahead(ord, q, Position(ord, t))
  IN  IF q[t] = <<>> THEN 0
      ELSE IF left \in 1..Len(q[t]) THEN left
      ELSE IF left > 0 THEN Len(q[t]) ELSE 0

Taken(ord, q) == SumFunction([t \in Topics |-> Share(ord, q, t)])

\* Of the Map's first m keys nothing is left: takeBatch deletes them.
Emptied(ord, q, m) ==
  \A k \in DOMAIN ord : k <= m <=> Share(ord, q, ord[k]) = Len(q[ord[k]])

\* One request, as sendBatch gets it.
Send(id, msgs) == [id |-> id, msgs |-> msgs, appends |-> [t \in Topics |-> 0]]

\* A faulty splice: the newest messages of a topic leave first.
TakeBatchNewest(ord, q, fl) ==
  /\ inflight' = fl \cup {Send(flushes + 1, [t \in Topics |->
                      SubSeq(q[t], Len(q[t]) - Share(ord, q, t) + 1, Len(q[t]))])}
  /\ queues' = [t \in Topics |-> SubSeq(q[t], 1, Len(q[t]) - Share(ord, q, t))]
  /\ \E m \in 0..Len(ord) : Emptied(ord, q, m) /\ order' = SubSeq(ord, m + 1, Len(ord))

\* A faulty batch: whatever is queued goes into one request.
TakeBatchUncapped(ord, q, fl) ==
  /\ inflight' = fl \cup {Send(flushes + 1, q)}
  /\ queues' = [t \in Topics |-> <<>>]
  /\ order' = <<>>

\* takeBatch over the Map (ord, q), into a request beside those in fl.
TakeBatch(ord, q, fl) ==
  /\ inflight' = fl \cup {Send(flushes + 1, [t \in Topics |-> SubSeq(q[t], 1, Share(ord, q, t))])}
  /\ queues' = [t \in Topics |-> SubSeq(q[t], Share(ord, q, t) + 1, Len(q[t]))]
  /\ \E m \in 0..Len(ord) : Emptied(ord, q, m) /\ order' = SubSeq(ord, m + 1, Len(ord))

\* Issue #86: a flush does not wait for the send in flight.
FlushConcurrently(ord, q, n, busy, fl) ==
  \/ /\ n = 0
     /\ order' = ord /\ queues' = q /\ queued' = n /\ sending' = busy /\ inflight' = fl
     /\ UNCHANGED flushes
  \/ /\ n # 0
     /\ TakeBatch(ord, q, fl)
     /\ queued' = n - Taken(ord, q)
     /\ sending' = TRUE /\ flushes' = flushes + 1

\* flush() over the Map (ord, q) holding n messages, with `busy` for sending
\* and the requests fl in flight.
Flush(ord, q, n, busy, fl) ==
  \/ /\ busy \/ n = 0
     /\ order' = ord /\ queues' = q /\ queued' = n /\ sending' = busy /\ inflight' = fl
     /\ UNCHANGED flushes
  \/ /\ ~busy /\ n # 0
     /\ TakeBatch(ord, q, fl)
     /\ queued' = n - Taken(ord, q)
     /\ sending' = TRUE /\ flushes' = flushes + 1

----------------------------------------------------------------------------
\* enqueue: at the cap the flush is immediate, otherwise it is left to the end
\* of the tick.
Enqueue(t) ==
  /\ drain.phase = "running"
  /\ SumFunction(enqueued) < MaxEnqueued
  /\ enqueued' = [enqueued EXCEPT ![t] = @ + 1]
  /\ LET q   == [queues EXCEPT ![t] = Append(@, enqueued[t] + 1)]
         ord == IF queues[t] = <<>> THEN Append(order, t) ELSE order
     IN  \/ /\ queued + 1 >= MaxQueued
            /\ Flush(ord, q, queued + 1, sending, inflight)
            /\ UNCHANGED flushScheduled
         \/ /\ queued + 1 < MaxQueued
            /\ order' = ord /\ queues' = q /\ queued' = queued + 1
            /\ flushScheduled' = TRUE
            /\ UNCHANGED <<sending, inflight, flushes>>
  /\ UNCHANGED <<broker, drain>>

\* The setImmediate callback.
Immediate ==
  /\ flushScheduled /\ drain.phase # "exited"
  /\ flushScheduled' = FALSE
  /\ Flush(order, queues, queued, sending, inflight)
  /\ UNCHANGED <<enqueued, broker, drain>>

\* The broker appends a request's block of topic t (external).
BrokerAppend(t) ==
  /\ drain.phase # "exited"
  /\ \E r \in inflight :
       /\ r.msgs[t] # <<>> /\ r.appends[t] < MaxAppends
       /\ broker' = [broker EXCEPT ![t] =
            @ \o [i \in 1..Len(r.msgs[t]) |-> [flush |-> r.id, n |-> r.msgs[t][i]]]]
       /\ inflight' = (inflight \ {r}) \cup {[r EXCEPT !.appends[t] = @ + 1]}
  /\ UNCHANGED <<order, queues, queued, sending, flushes, flushScheduled, enqueued, drain>>

\* A faulty finally: the next send waits for the next enqueue.
SettleNoReflush ==
  /\ drain.phase # "exited"
  /\ \E r \in inflight : inflight' = inflight \ {r}
  /\ sending' = FALSE
  /\ UNCHANGED <<order, queues, queued, flushes, flushScheduled, enqueued, broker, drain>>

\* The send settles, appended or not: then and catch only count, and finally
\* re-flushes what accumulated meanwhile.
Settle ==
  /\ drain.phase # "exited"
  /\ \E r \in inflight : Flush(order, queues, queued, FALSE, inflight \ {r})
  /\ UNCHANGED <<flushScheduled, enqueued, broker, drain>>

\* shutdown: the consumer is stopped; drain() flushes and awaits `current`.
Shutdown ==
  /\ drain.phase = "running"
  /\ \/ /\ queued > 0 \/ sending
        /\ Flush(order, queues, queued, sending, inflight)
        /\ drain' = [phase |-> "draining", on |-> flushes']
     \/ /\ ~(queued > 0 \/ sending)
        /\ drain' = [phase |-> "drained", on |-> flushes]
        /\ UNCHANGED batcherVars
  /\ UNCHANGED <<flushScheduled, enqueued, broker>>

Awaited == drain.phase = "draining" /\ (drain.on < flushes \/ ~sending)

\* The await returns: another send has started, or the chain is idle.
DrainStep ==
  /\ Awaited
  /\ drain' = IF drain.on < flushes THEN [drain EXCEPT !.on = flushes]
              ELSE [drain EXCEPT !.phase = "drained"]
  /\ UNCHANGED <<batcherVars, flushScheduled, enqueued, broker>>

\* producer.disconnect and exit: drained, or SHUTDOWN_DRAIN_MS has passed.
Exit ==
  /\ drain.phase \in {"draining", "drained"}
  /\ drain' = [drain EXCEPT !.phase = "exited"]
  /\ UNCHANGED <<batcherVars, flushScheduled, enqueued, broker>>

Next ==
  \/ \E t \in Topics : Enqueue(t) \/ BrokerAppend(t)
  \/ Immediate \/ Settle \/ Shutdown \/ DrainStep \/ Exit

\* The event loop runs what is due; a send settles, if only with a timeout.
Fairness == WF_vars(Immediate) /\ WF_vars(Settle) /\ WF_vars(DrainStep)

Spec == Init /\ [][Next]_vars /\ Fairness

----------------------------------------------------------------------------
\* Properties

Message == 1..MaxEnqueued

(* The queues hold messages; the Map's keys are the topics that have some,   *)
(* each once; this.queued counts them.  INV-4: no request carries more than  *)
(* maxQueued messages, however many accumulate behind a slow send.           *)
TypeOK ==
  /\ \A t \in Topics : \A i \in 1..Len(queues[t]) : queues[t][i] \in Message
  /\ Keys = {t \in Topics : queues[t] # <<>>}
  /\ \A i, j \in DOMAIN order : order[i] = order[j] => i = j
  /\ queued = Waiting(queues, Topics)
  /\ \A r \in inflight : Waiting(r.msgs, Topics) <= MaxQueued
  /\ {flushScheduled, sending} \subseteq BOOLEAN
  /\ drain.phase \in {"running", "draining", "drained", "exited"} /\ drain.on \in 0..flushes

(* INV-1 (batcher.ts header, issue #86): a topic's partition holds its       *)
(* messages in the order they were derived.  A resent block may stand twice, *)
(* but no message of a later flush comes before one of an earlier flush, and *)
(* a later flush carries later messages only.                                *)
PartitionOrder ==
  \A t \in Topics : \A i, j \in 1..Len(broker[t]) :
    /\ i < j => broker[t][i].flush <= broker[t][j].flush
    /\ broker[t][i].flush < broker[t][j].flush => broker[t][i].n < broker[t][j].n

\* The number of the last message of t that was taken.
Sent(t) == enqueued[t] - Len(queues[t])

(* Nothing is skipped or taken twice: what waits in a topic's queue is its   *)
(* newest messages, and what the send in flight carries of the topic is the  *)
(* block right before them.                                                  *)
NothingSkipped ==
  \A t \in Topics :
    /\ \A i \in 1..Len(queues[t]) : queues[t][i] = Sent(t) + i
    /\ \A r \in inflight : \A i \in 1..Len(r.msgs[t]) :
         r.msgs[t][i] = Sent(t) - Len(r.msgs[t]) + i

Idle == queued = 0 /\ ~sending

(* No message is stranded: whatever is queued is sent, or the process exits; *)
(* and drain() resolves only when the chain is idle, nothing queued, nothing *)
(* in flight (shutdown then disconnects, which aborts pending sends).        *)
EventuallySent ==
  /\ [](queued > 0 => <>(queued = 0 \/ drain.phase = "exited"))
  /\ [][drain'.phase = "drained" => Idle']_vars

Latest == [t \in Topics |-> IF broker[t] = <<>> THEN 0 ELSE broker[t][Len(broker[t])].n]

(* A reader of the compacted md.nbbo topic never finds an older value than   *)
(* one it has already found.                                                 *)
Compacted == INSTANCE LatestValue WITH latest <- Latest

LatestNeverGoesBack == Compacted!Spec
=============================================================================
