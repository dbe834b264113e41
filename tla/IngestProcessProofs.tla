------------------------ MODULE IngestProcessProofs ------------------------
(***************************************************************************)
(* Theorems about IngestProcess: type correctness for any ingesters, and,    *)
(* for a process with one owner of the status topic, that nothing it says    *)
(* follows its final 'down'.                                                 *)
(***************************************************************************)
EXTENDS IngestProcess, TLAPS

(* Where an owner is from its final send on, and once that has settled.      *)
Settled == {"ended", "returned", "raised"}
Leaving == {"parting"} \cup Settled

Steps ==
  {"next", "dialing", "subscribing", "announced", "streaming", "closing", "stopping"}
    \cup Leaving

Tasks == {"reader", "applier", "produce_failed", "watchdog"}

IngesterState ==
  [pc : Steps, attempt : 0..FLOAT_MAX_EXP, failed : BOOLEAN, connected : BOOLEAN,
   socket : {"open", "closed"}, state : {"BOOTSTRAP", "LIVE", "STALE"},
   queue : Seq({"frame", "end"}), done : SUBSET Tasks,
   heartbeat : {"sleep", "sending", "sent", "gone"}, poller : {"sleep", "sending", "gone"}]

Message == [by : Owner, who : {"run", "heartbeat"}, state : {"up", "down"}]

(* The fields of an ingester fit together.                                   *)
WellFormed(i, me) ==
  /\ me \in IngesterState
  /\ Len(me.queue) <= QUEUE_MAXSIZE
  /\ me.connected <=> me.pc \in {"announced", "streaming"}
  /\ me.done # {} => me.pc \in {"streaming", "closing"}
  /\ me.queue # <<>> => me.pc = "streaming"
  /\ me.state = "LIVE" => me.pc \in {"streaming", "closing"} /\ i \notin Pollers
  /\ me.heartbeat \in {"sending", "sent"} => i \in Owner

Types ==
  /\ ing \in [Ingesters -> IngesterState]
  /\ shut \in BOOLEAN /\ proc \in {"running", "stopped", "failing", "dead"}
  /\ pipe \in Seq(Message)
  /\ last \in {"none", "up", "down"} /\ parted \in BOOLEAN /\ unsaid \in BOOLEAN
  /\ faults \in 0..MaxFaults

Inv == Types /\ \A i \in Ingesters : WellFormed(i, ing[i])

(* Where the messages that run() awaits stand in the producer's queue.       *)
AwaitedBy(msg) == IF msg.state = "up" THEN "announced" ELSE "parting"

InFlight ==
  \A n \in 1..Len(pipe) :
    /\ pipe[n].who = "run" => ing[pipe[n].by].pc = AwaitedBy(pipe[n])
    /\ pipe[n].state = "down" => pipe[n].who = "run" /\ n = Len(pipe)

OneAwaited ==
  \A m, n \in 1..Len(pipe) : pipe[m].who = "run" /\ pipe[n].who = "run" => m = n

(* An owner that has begun to part has no heartbeat, and nothing of it is    *)
(* under way once its 'down' has settled.                                    *)
LeavesQuietly ==
  \A i \in Owner :
    /\ ing[i].pc \in Leaving => ing[i].heartbeat = "gone"
    /\ ing[i].pc \in Settled => pipe = <<>>

PartedIsOver ==
  /\ parted => pipe = <<>> /\ \A i \in Owner : ing[i].pc \in Settled
  /\ proc = "dead" => pipe = <<>>

OneOwner == \A i, j \in Owner : i = j

GoodbyeInv == InFlight /\ OneAwaited /\ LeavesQuietly /\ PartedIsOver

BothInv == Inv /\ GoodbyeInv

----------------------------------------------------------------------------
(* Type correctness *)

(* A step of one ingester that leaves it well formed keeps Inv.              *)
LEMMA BecomesKeepsInv ==
  ASSUME Inv, NEW i \in Ingesters, NEW me, WellFormed(i, me), Becomes(i, me),
         pipe' \in Seq(Message), faults' \in 0..MaxFaults
  PROVE  Inv'
<1>1. ing' = [ing EXCEPT ![i] = me] /\ me \in IngesterState
  BY DEF Becomes, WellFormed
<1>2. ing' \in [Ingesters -> IngesterState]
  BY <1>1 DEF Inv, Types
<1>3. Types'
  BY <1>2 DEF Types, Inv, Becomes
<1>4. ASSUME NEW j \in Ingesters PROVE WellFormed(j, ing'[j])
  BY <1>1 DEF Inv, Types
<1>. QED  BY <1>3, <1>4 DEF Inv, WellFormed

LEMMA FaultsStayBounded ==
  ASSUME Inv, NoFault \/ Fault
  PROVE  faults' \in 0..MaxFaults
BY ProcessAssumption DEF Inv, Types, NoFault, Fault

LEMMA LocalKeepsInv ==
  ASSUME Inv, NEW i \in Ingesters, NEW me, WellFormed(i, me), Local(i, me), NoFault \/ Fault
  PROVE  Inv'
<1>1. pipe' \in Seq(Message)
  BY DEF Local, Inv, Types
<1>. QED  BY <1>1, FaultsStayBounded, BecomesKeepsInv DEF Local

LEMMA SendKeepsInv ==
  ASSUME Inv, NEW i \in Owner, NEW who \in {"run", "heartbeat"}, NEW state \in {"up", "down"},
         NEW me, WellFormed(i, me), Send(i, who, state, me), NoFault
  PROVE  Inv'
<1>1. pipe' \in Seq(Message)
  BY DEF Send, Inv, Types, Message
<1>2. i \in Ingesters
  BY ProcessAssumption
<1>. QED  BY <1>1, <1>2, FaultsStayBounded, BecomesKeepsInv DEF Send

(* IngesterState, field by field.                                            *)
LEMMA StateByFields ==
  ASSUME NEW me, me \in IngesterState, NEW k \in 0..FLOAT_MAX_EXP
  PROVE  [me EXCEPT !.attempt = k] \in IngesterState
BY DEF IngesterState

(* What follows a connection: its tasks are over and it holds nothing.       *)
LEMMA AfterConnectionIsWellFormed ==
  ASSUME NEW i \in Ingesters, NEW me, me \in IngesterState, me.queue = <<>>, me.done = {},
         ~me.connected, me.heartbeat \in {"sending", "sent"} => i \in Owner,
         me.state = "LIVE" => i \notin Pollers, shut \in BOOLEAN
  PROVE  WellFormed(i, AfterConnection(i, me))
<1>. DEFINE stale == [MarkedStale(i, me) EXCEPT !.socket = "closed"]
<1>1. /\ stale \in IngesterState /\ stale.queue = <<>> /\ stale.done = {} /\ ~stale.connected
      /\ stale.heartbeat = me.heartbeat /\ stale.state # "LIVE" /\ stale.attempt = me.attempt
  BY DEF MarkedStale, IngesterState
<1>. HIDE DEF stale
<1>2. QUEUE_MAXSIZE \in Nat /\ FLOAT_MAX_EXP \in Nat /\ me.attempt \in 0..FLOAT_MAX_EXP
  BY ProcessAssumption DEF IngesterState
<1>3. CASE shut
  <2>1. AfterConnection(i, me) = [stale EXCEPT !.pc = "stopping"]
    BY <1>3 DEF AfterConnection, stale
  <2>. QED  BY <2>1, <1>1, <1>2 DEF WellFormed, IngesterState, Steps
<1>4. CASE ~shut /\ me.attempt >= FLOAT_MAX_EXP
  <2>1. AfterConnection(i, me) = [stale EXCEPT !.pc = "stopping", !.failed = TRUE]
    BY <1>4 DEF AfterConnection, stale
  <2>2. AfterConnection(i, me) \in IngesterState
    BY <2>1, <1>1 DEF IngesterState, Steps
  <2>. QED  BY <2>1, <2>2, <1>1, <1>2 DEF WellFormed, IngesterState
<1>5. CASE ~shut /\ ~(me.attempt >= FLOAT_MAX_EXP)
  <2>1. AfterConnection(i, me) = [stale EXCEPT !.pc = "next", !.attempt = @ + 1]
    BY <1>5 DEF AfterConnection, stale
  <2>2. me.attempt + 1 \in 0..FLOAT_MAX_EXP
    BY <1>2, <1>5
  <2>. DEFINE later == [stale EXCEPT !.attempt = me.attempt + 1]
  <2>4. later \in IngesterState
    BY <2>2, <1>1, StateByFields
  <2>5. AfterConnection(i, me) = [later EXCEPT !.pc = "next"]
    BY <2>1, <1>1 DEF IngesterState
  <2>. HIDE DEF later
  <2>3. AfterConnection(i, me) \in IngesterState
    BY <2>4, <2>5 DEF IngesterState, Steps
  <2>. QED  BY <2>1, <2>3, <1>1, <1>2 DEF WellFormed, IngesterState
<1>. QED  BY <1>3, <1>4, <1>5

LEMMA RunKeepsInv ==
  ASSUME Inv, NEW i \in Ingesters, Run(i)
  PROVE  Inv'
<1>. DEFINE me == ing[i]
<1>1. /\ me \in IngesterState /\ WellFormed(i, me) /\ shut \in BOOLEAN
      /\ QUEUE_MAXSIZE \in Nat /\ Len(<<>>) = 0 /\ <<>> \in Seq({"frame", "end"})
  BY ProcessAssumption DEF Inv, Types
<1>2. CASE Loop(i)
  <2>1. WellFormed(i, [me EXCEPT !.pc = "stopping"])
    BY <1>1, <1>2 DEF Loop, WellFormed, IngesterState, Steps
  <2>2. WellFormed(i, [me EXCEPT !.pc = "dialing", !.state = "BOOTSTRAP", !.queue = <<>>,
                                 !.done = {}])
    BY <1>1, <1>2 DEF Loop, WellFormed, IngesterState, Steps
  <2>. QED  BY <2>1, <2>2, <1>2, LocalKeepsInv DEF Loop
<1>3. CASE Dialed(i)
  <2>. DEFINE now == [me EXCEPT !.pc = "subscribing", !.socket = "open", !.attempt = 0]
  <2>3. now \in IngesterState
    <3>1. [me EXCEPT !.attempt = 0] \in IngesterState
      BY <1>1, StateByFields, ProcessAssumption
    <3>. QED  BY <1>1, <3>1 DEF IngesterState, Steps
  <2>1. WellFormed(i, now)
    BY <1>1, <1>3, <2>3 DEF Dialed, WellFormed, IngesterState
  <2>2. WellFormed(i, AfterConnection(i, me))
    BY <1>1, <1>3, AfterConnectionIsWellFormed DEF Dialed, WellFormed
  <2>. QED  BY <2>1, <2>2, <1>3, LocalKeepsInv DEF Dialed
<1>4. CASE Refused(i)
  <2>1. WellFormed(i, AfterConnection(i, me))
    BY <1>1, <1>4, AfterConnectionIsWellFormed DEF Refused, WellFormed
  <2>. QED  BY <2>1, <1>4, LocalKeepsInv DEF Refused
<1>5. CASE Bootstrapped(i)
  <2>1. WellFormed(i, [[me EXCEPT !.connected = TRUE] EXCEPT !.pc = "announced"])
    BY <1>1, <1>5 DEF Bootstrapped, WellFormed, IngesterState, Steps
  <2>2. WellFormed(i, [[me EXCEPT !.connected = TRUE] EXCEPT !.pc = "streaming"])
    BY <1>1, <1>5 DEF Bootstrapped, WellFormed, IngesterState, Steps
  <2>. QED  BY <2>1, <2>2, <1>5, LocalKeepsInv, SendKeepsInv DEF Bootstrapped
<1>6. CASE WindDown(i)
  <2>. DEFINE now == [me EXCEPT !.pc = "closing", !.connected = FALSE, !.queue = <<>>]
  <2>2. now \in IngesterState
    BY <1>1 DEF IngesterState, Steps
  <2>1. WellFormed(i, now)
    BY <1>1, <1>6, <2>2 DEF WindDown, Streaming, WellFormed, IngesterState
  <2>. QED  BY <2>1, <1>6, LocalKeepsInv DEF WindDown
<1>7. CASE Closed(i)
  <2>. DEFINE bare == [me EXCEPT !.done = {}]
  <2>1. /\ bare \in IngesterState /\ bare.queue = <<>> /\ bare.done = {} /\ ~bare.connected
        /\ bare.heartbeat = me.heartbeat /\ bare.state = me.state
    BY <1>1, <1>7 DEF Closed, WellFormed, IngesterState
  <2>. HIDE DEF bare
  <2>2. WellFormed(i, AfterConnection(i, bare))
    BY <1>1, <2>1, AfterConnectionIsWellFormed DEF WellFormed
  <2>3. Local(i, AfterConnection(i, bare))
    BY <1>7 DEF Closed, bare
  <2>. QED  BY <2>2, <2>3, <1>7, LocalKeepsInv DEF Closed
<1>8. CASE Stop(i)
  <2>1. WellFormed(i, [[me EXCEPT !.heartbeat = "gone"] EXCEPT !.pc = "parting"])
    BY <1>1, <1>8 DEF Stop, WellFormed, IngesterState, Steps, Leaving
  <2>2. WellFormed(i, [[me EXCEPT !.heartbeat = "gone"] EXCEPT !.pc = "ended"])
    BY <1>1, <1>8 DEF Stop, WellFormed, IngesterState, Steps, Leaving, Settled
  <2>. QED  BY <2>1, <2>2, <1>8, LocalKeepsInv, SendKeepsInv DEF Stop
<1>9. CASE Ended(i)
  <2>1. WellFormed(i, [me EXCEPT !.poller = "gone",
                                 !.pc = IF me.failed THEN "raised" ELSE "returned"])
    BY <1>1, <1>9 DEF Ended, WellFormed, IngesterState, Steps, Leaving, Settled
  <2>. QED  BY <2>1, <1>9, LocalKeepsInv DEF Ended
<1>. QED  BY <1>2, <1>3, <1>4, <1>5, <1>6, <1>7, <1>8, <1>9 DEF Run

(* The tasks of a connection, and those that outlive it.                     *)
Task(i) ==
  \/ SocketLost(i) \/ Frame(i) \/ ReaderEnds(i) \/ Apply(i) \/ ProduceFails(i)
  \/ Watchdog(i) \/ HeartbeatTick(i) \/ HeartbeatSend(i) \/ Poll(i)

(* A task that ends leaves its name in `done` while the connection streams.  *)
LEMMA TaskEnds ==
  ASSUME NEW i \in Ingesters, NEW me, WellFormed(i, me), me.pc = "streaming", NEW task \in Tasks
  PROVE  WellFormed(i, [me EXCEPT !.done = @ \cup {task}])
<1>. DEFINE now == [me EXCEPT !.done = @ \cup {task}]
<1>1. now \in IngesterState
  BY DEF WellFormed, IngesterState
<1>. QED  BY <1>1 DEF WellFormed, IngesterState

(* A queue is filled only while the connection streams, and up to its limit. *)
LEMMA QueueChanges ==
  ASSUME NEW i \in Ingesters, NEW me, WellFormed(i, me), me.pc = "streaming",
         NEW q \in Seq({"frame", "end"}), Len(q) <= QUEUE_MAXSIZE
  PROVE  WellFormed(i, [me EXCEPT !.queue = q])
<1>. DEFINE now == [me EXCEPT !.queue = q]
<1>1. now \in IngesterState
  BY DEF WellFormed, IngesterState
<1>. QED  BY <1>1 DEF WellFormed, IngesterState

LEMMA BookChanges ==
  ASSUME NEW i \in Ingesters, NEW me, WellFormed(i, me), me.pc = "streaming",
         NEW state \in {"LIVE", "STALE"}, i \notin Pollers
  PROVE  WellFormed(i, [me EXCEPT !.state = state])
<1>. DEFINE now == [me EXCEPT !.state = state]
<1>1. now \in IngesterState
  BY DEF WellFormed, IngesterState
<1>. QED  BY <1>1 DEF WellFormed, IngesterState

LEMMA ApplyKeepsInv ==
  ASSUME Inv, NEW i \in Ingesters, Apply(i)
  PROVE  Inv'
<1>. DEFINE q == ing[i].queue
            me == [ing[i] EXCEPT !.queue = Tail(@)]
            over == [me EXCEPT !.done = @ \cup {"applier"}]
<1>1. WellFormed(i, ing[i]) /\ ing[i].pc = "streaming" /\ q \in Seq({"frame", "end"}) /\ q # <<>>
  BY DEF Inv, Apply, Runs, Streaming, WellFormed, IngesterState
<1>2. Tail(q) \in Seq({"frame", "end"}) /\ Len(Tail(q)) <= QUEUE_MAXSIZE
  <2>1. Len(q) <= QUEUE_MAXSIZE /\ QUEUE_MAXSIZE \in Nat
    BY <1>1, ProcessAssumption DEF WellFormed
  <2>2. Tail(q) \in Seq({"frame", "end"}) /\ Len(Tail(q)) = Len(q) - 1 /\ Len(q) \in Nat
    BY <1>1
  <2>. QED  BY <2>1, <2>2
<1>3. WellFormed(i, me) /\ me.pc = "streaming"
  BY <1>1, <1>2, QueueChanges DEF WellFormed, IngesterState
<1>4. WellFormed(i, over) /\ over.pc = "streaming"
  <2>1. WellFormed(i, over)
    BY <1>3, TaskEnds DEF Tasks
  <2>2. over.pc = me.pc
    BY <1>3 DEF WellFormed, IngesterState
  <2>. QED  BY <2>1, <2>2, <1>3
<1>5. i \notin Pollers => /\ WellFormed(i, [me EXCEPT !.state = "LIVE"])
                         /\ WellFormed(i, [over EXCEPT !.state = "STALE"])
  BY <1>3, <1>4, BookChanges
<1>. HIDE DEF q
<1>6. \/ Local(i, over) \/ Local(i, me)
      \/ i \notin Pollers /\ Local(i, [me EXCEPT !.state = "LIVE"])
      \/ i \notin Pollers /\ Local(i, [over EXCEPT !.state = "STALE"])
  BY DEF Apply
<1>7. NoFault \/ Fault
  BY DEF Apply
<1>. QED  BY <1>3, <1>4, <1>5, <1>6, <1>7, LocalKeepsInv

LEMMA TaskKeepsInv ==
  ASSUME Inv, NEW i \in Ingesters, Task(i)
  PROVE  Inv'
<1>. DEFINE me == ing[i]
<1>1. /\ WellFormed(i, me) /\ me \in IngesterState /\ QUEUE_MAXSIZE \in Nat
      /\ me.queue \in Seq({"frame", "end"}) /\ Len(me.queue) \in Nat
      /\ {"reader", "applier", "produce_failed", "watchdog"} \subseteq Tasks
  BY ProcessAssumption DEF Inv, WellFormed, IngesterState, Tasks
<1>2. CASE SocketLost(i)
  <2>1. WellFormed(i, [me EXCEPT !.socket = "closed"])
    BY <1>1 DEF WellFormed, IngesterState
  <2>. QED  BY <2>1, <1>2, LocalKeepsInv DEF SocketLost
<1>3. ASSUME NEW w \in {"frame", "end"}, Len(me.queue) < QUEUE_MAXSIZE
      PROVE  Append(me.queue, w) \in Seq({"frame", "end"}) /\ Len(Append(me.queue, w)) <= QUEUE_MAXSIZE
  <2>1. Append(me.queue, w) \in Seq({"frame", "end"}) /\ Len(Append(me.queue, w)) = Len(me.queue) + 1
    BY <1>1
  <2>. QED  BY <2>1, <1>1, <1>3
<1>4. CASE Frame(i)
  <2>1. me.pc = "streaming"
    BY <1>4 DEF Frame, Runs, Streaming
  <2>2. WellFormed(i, [me EXCEPT !.done = @ \cup {"reader"}])
    BY <1>1, <2>1, TaskEnds
  <2>3. CASE Len(me.queue) < QUEUE_MAXSIZE
    <3>1. WellFormed(i, [me EXCEPT !.queue = Append(@, "frame")])
      BY <1>1, <1>3, <2>1, <2>3, QueueChanges
    <3>. QED  BY <3>1, <2>3, <1>4, LocalKeepsInv DEF Frame
  <2>4. CASE ~(Len(me.queue) < QUEUE_MAXSIZE)
    BY <2>2, <2>4, <1>4, LocalKeepsInv DEF Frame
  <2>. QED  BY <2>3, <2>4
<1>5. CASE ReaderEnds(i)
  <2>. DEFINE over == [me EXCEPT !.done = @ \cup {"reader"}]
              q == IF Len(me.queue) < QUEUE_MAXSIZE THEN Append(me.queue, "end") ELSE me.queue
  <2>1. me.pc = "streaming"
    BY <1>5 DEF ReaderEnds, Runs, Streaming
  <2>2. WellFormed(i, over) /\ over.pc = "streaming"
    BY <1>1, <2>1, TaskEnds DEF IngesterState
  <2>3. q \in Seq({"frame", "end"}) /\ Len(q) <= QUEUE_MAXSIZE
    BY <1>1, <1>3 DEF WellFormed
  <2>4. [over EXCEPT !.queue = q] = [me EXCEPT !.done = @ \cup {"reader"}, !.queue = q]
    BY <1>1 DEF IngesterState
  <2>5. Local(i, [me EXCEPT !.done = @ \cup {"reader"}, !.queue = q])
    BY <1>5 DEF ReaderEnds
  <2>. HIDE DEF q
  <2>6. WellFormed(i, [over EXCEPT !.queue = q])
    BY <2>2, <2>3, QueueChanges
  <2>. QED  BY <2>4, <2>5, <2>6, <1>5, LocalKeepsInv DEF ReaderEnds
<1>6. CASE Apply(i)
  BY <1>6, ApplyKeepsInv
<1>7. CASE ProduceFails(i)
  <2>1. WellFormed(i, [me EXCEPT !.done = @ \cup {"produce_failed"}])
    BY <1>1, <1>7, TaskEnds DEF ProduceFails, Runs, Streaming
  <2>. QED  BY <2>1, <1>7, LocalKeepsInv DEF ProduceFails
<1>8. CASE Watchdog(i)
  <2>1. WellFormed(i, [me EXCEPT !.done = @ \cup {"watchdog"}])
    BY <1>1, <1>8, TaskEnds DEF Watchdog, Runs, Streaming
  <2>. QED  BY <2>1, <1>8, LocalKeepsInv DEF Watchdog
<1>9. CASE HeartbeatTick(i)
  <2>1. WellFormed(i, [me EXCEPT !.heartbeat = "sending"])
    BY <1>1, <1>9 DEF HeartbeatTick, WellFormed, IngesterState
  <2>. QED  BY <2>1, <1>9, LocalKeepsInv DEF HeartbeatTick
<1>10. CASE HeartbeatSend(i)
  <2>1. WellFormed(i, [me EXCEPT !.heartbeat = "sent"]) /\ i \in Owner
    BY <1>1, <1>10 DEF HeartbeatSend, WellFormed, IngesterState
  <2>. QED  BY <2>1, <1>10, SendKeepsInv DEF HeartbeatSend
<1>11. CASE Poll(i)
  <2>1. ASSUME NEW p \in {"sleep", "sending", "gone"} PROVE WellFormed(i, [me EXCEPT !.poller = p])
    BY <1>1 DEF WellFormed, IngesterState
  <2>. QED  BY <2>1, <1>11, LocalKeepsInv DEF Poll
<1>. QED  BY <1>2, <1>4, <1>5, <1>6, <1>7, <1>8, <1>9, <1>10, <1>11 DEF Task

(* A status call that returns wakes who awaited it, and nobody else.         *)
LEMMA ResumedIsWellFormed ==
  ASSUME Inv, NEW msg \in Message
  PROVE  WellFormed(msg.by, Resumed(msg))
<1>. DEFINE i == msg.by
            me == ing[i]
<1>1. i \in Owner /\ WellFormed(i, me) /\ me \in IngesterState
  BY ProcessAssumption DEF Inv, Message, WellFormed
<1>2. ASSUME NEW h \in {"gone", "sleep"} PROVE WellFormed(i, [me EXCEPT !.heartbeat = h])
  BY <1>1 DEF WellFormed, IngesterState
<1>3. ASSUME me.pc = "announced" PROVE WellFormed(i, [me EXCEPT !.pc = "streaming"])
  BY <1>1, <1>3 DEF WellFormed, IngesterState, Steps
<1>4. ASSUME me.pc = "parting" PROVE WellFormed(i, [me EXCEPT !.pc = "ended"])
  BY <1>1, <1>4 DEF WellFormed, IngesterState, Steps, Leaving, Settled
<1>. QED  BY <1>1, <1>2, <1>3, <1>4 DEF Resumed

LEMMA StatusKeepsInv ==
  ASSUME Inv, StatusDone
  PROVE  Inv'
<1>. DEFINE msg == Head(pipe)
<1>1. msg \in Message /\ Tail(pipe) \in Seq(Message)
  BY DEF StatusDone, Inv, Types
<1>2. msg.by \in Ingesters /\ msg.state \in {"up", "down"}
  BY <1>1, ProcessAssumption DEF Message
<1>. HIDE DEF msg
<1>3. WellFormed(msg.by, Resumed(msg)) /\ Resumed(msg) \in IngesterState
  BY <1>1, ResumedIsWellFormed DEF WellFormed
<1>4. ing' = [ing EXCEPT ![msg.by] = Resumed(msg)] /\ pipe' = Tail(pipe)
  BY DEF StatusDone, msg
<1>5. ing' \in [Ingesters -> IngesterState] /\ pipe' \in Seq(Message)
  BY <1>1, <1>3, <1>4 DEF Inv, Types
<1>6. faults' \in 0..MaxFaults
  BY FaultsStayBounded DEF StatusDone
<1>7. last' \in {"none", "up", "down"} /\ parted' \in BOOLEAN /\ unsaid' \in BOOLEAN
  BY <1>2 DEF StatusDone, Inv, Types, msg
<1>8. Types'
  BY <1>5, <1>6, <1>7 DEF StatusDone, Inv, Types
<1>9. ASSUME NEW j \in Ingesters PROVE WellFormed(j, ing'[j])
  BY <1>3, <1>4 DEF Inv, Types
<1>. QED  BY <1>8, <1>9 DEF Inv, WellFormed

LEMMA FreshIsWellFormed ==
  ASSUME NEW i \in Ingesters
  PROVE  WellFormed(i, Fresh) /\ Fresh \in IngesterState
<1>1. QUEUE_MAXSIZE \in Nat /\ 0 \in 0..FLOAT_MAX_EXP
  BY ProcessAssumption
<1>. QED  BY <1>1 DEF WellFormed, Fresh, IngesterState, Steps

LEMMA InitInv == Init => Inv
<1>. SUFFICES ASSUME Init PROVE Inv
  OBVIOUS
<1>1. ing \in [Ingesters -> IngesterState] /\ \A i \in Ingesters : WellFormed(i, ing[i])
  BY FreshIsWellFormed DEF Init
<1>2. 0 \in 0..MaxFaults /\ <<>> \in Seq(Message)
  BY ProcessAssumption
<1>3. Types
  BY <1>1, <1>2 DEF Init, Types
<1>. QED  BY <1>1, <1>3 DEF Inv

(* What the process does around its ingesters leaves them as they are, but   *)
(* for a restart.                                                            *)
LEMMA ProcessKeepsInv ==
  ASSUME Inv, Signal \/ Gathered \/ ProducerStopped \/ Crash \/ Restart \/ UNCHANGED vars
  PROVE  Inv'
<1>1. CASE Restart
  <2>1. ing' \in [Ingesters -> IngesterState] /\ \A i \in Ingesters : WellFormed(i, ing'[i])
    BY <1>1, FreshIsWellFormed DEF Restart
  <2>. QED  BY <1>1, <2>1 DEF Restart, Inv, Types, WellFormed
<1>2. CASE Crash
  <2>1. faults' \in 0..MaxFaults
    BY <1>2, FaultsStayBounded DEF Crash
  <2>2. pipe' \in Seq(Message)
    BY <1>2 DEF Crash
  <2>. QED  BY <1>2, <2>1, <2>2 DEF Crash, Inv, Types, WellFormed
<1>3. CASE Signal
  BY <1>3 DEF Signal, Inv, Types, WellFormed
<1>4. CASE Gathered
  BY <1>4 DEF Gathered, Inv, Types, WellFormed
<1>5. CASE ProducerStopped
  BY <1>5 DEF ProducerStopped, Inv, Types, WellFormed
<1>6. CASE UNCHANGED vars
  BY <1>6 DEF vars, Inv, Types, WellFormed
<1>. QED  BY <1>1, <1>2, <1>3, <1>4, <1>5, <1>6

LEMMA NextByParts ==
  ASSUME [Next]_vars
  PROVE  \/ \E i \in Ingesters : Run(i) \/ Task(i)
         \/ StatusDone
         \/ Signal \/ Gathered \/ ProducerStopped \/ Crash \/ Restart \/ UNCHANGED vars
BY DEF Next, Run, Task

LEMMA StepKeepsInv ==
  ASSUME Inv, [Next]_vars
  PROVE  Inv'
BY NextByParts, RunKeepsInv, TaskKeepsInv, StatusKeepsInv, ProcessKeepsInv

(* The types, and what holds between the fields of an ingester in every step *)
(* of base_ingester.py: _connected is set exactly from the bootstrap to the  *)
(* end of the wind-down, and only a connection that is up has a LIVE book.   *)
THEOREM TypeCorrect == Spec => []TypeOK
<1>1. ASSUME Inv PROVE TypeOK
  <2>1. ASSUME NEW n \in DOMAIN pipe PROVE pipe[n].by \in Owner /\ pipe[n].state \in {"up", "down"}
    <3>1. pipe \in Seq(Message)
      BY <1>1 DEF Inv, Types
    <3>2. pipe[n] \in Message
      BY <2>1, <3>1
    <3>. QED  BY <3>2 DEF Message
  <2>2. ASSUME NEW i \in Ingesters
        PROVE  LET me == ing[i]
               IN  /\ me.attempt \in 0..FLOAT_MAX_EXP
                   /\ Len(me.queue) <= QUEUE_MAXSIZE
                   /\ me.connected <=> me.pc \in {"announced", "streaming"}
                   /\ me.done # {} \/ me.queue # <<>> => me.pc \in {"streaming", "closing"}
                   /\ me.state = "LIVE" => me.pc \in {"streaming", "closing"}
    BY <1>1 DEF Inv, WellFormed, IngesterState
  <2>. QED  BY <1>1, <2>1, <2>2 DEF TypeOK, Inv, Types
<1>. QED  BY <1>1, InitInv, StepKeepsInv, PTL DEF Spec

----------------------------------------------------------------------------
(* The goodbye *)

LEMMA PipeHoldsMessages ==
  ASSUME Inv
  PROVE  /\ Len(pipe) \in Nat
         /\ \A n \in 1..Len(pipe) : /\ pipe[n] \in Message /\ pipe[n].by \in Owner
                                     /\ pipe[n].state \in {"up", "down"}
                                     /\ pipe[n].who \in {"run", "heartbeat"}
<1>1. pipe \in Seq(Message)
  BY DEF Inv, Types
<1>2. ASSUME NEW n \in 1..Len(pipe) PROVE pipe[n] \in Message
  BY <1>1
<1>. QED  BY <1>1, <1>2 DEF Message

(* A change of an ingester that starts no farewell and skips none.           *)
Quietly(old, me) ==
  /\ old.pc \in {"announced", "parting"} => me.pc = old.pc
  /\ me.pc = "parting" => old.pc = "parting"
  /\ me.pc \in Settled <=> old.pc \in Settled
  /\ old.heartbeat = "gone" => me.heartbeat = "gone"

LEMMA LocalKeepsGoodbye ==
  ASSUME Inv, GoodbyeInv, NEW i \in Ingesters, NEW me, Local(i, me),
         i \in Owner => Quietly(ing[i], me)
  PROVE  GoodbyeInv'
<1>1. /\ ing' = [ing EXCEPT ![i] = me] /\ pipe' = pipe /\ parted' = parted /\ proc' = proc
      /\ ing \in [Ingesters -> IngesterState] /\ Owner \subseteq Ingesters
  BY ProcessAssumption DEF Local, Becomes, Inv, Types
<1>2. \A j \in Owner : j \in Ingesters /\ ing'[j] = (IF j = i THEN me ELSE ing[j])
  BY <1>1
<1>3. \A j \in Owner : Quietly(ing[j], ing'[j])
  BY <1>2 DEF Quietly
<1>4. InFlight'
  BY <1>1, <1>3, PipeHoldsMessages DEF GoodbyeInv, InFlight, AwaitedBy, Quietly
<1>5. LeavesQuietly'
  BY <1>1, <1>3 DEF GoodbyeInv, LeavesQuietly, Leaving, Quietly
<1>6. OneAwaited' /\ PartedIsOver'
  BY <1>1, <1>3 DEF GoodbyeInv, OneAwaited, PartedIsOver, Quietly
<1>. QED  BY <1>4, <1>5, <1>6 DEF GoodbyeInv

(* A send: an owner that has not begun to part says 'up', or begins to part. *)
LEMMA SendKeepsGoodbye ==
  ASSUME OneOwner, Inv, GoodbyeInv, NEW i \in Owner, NEW who, NEW state, NEW me,
         Send(i, who, state, me), ing[i].pc \notin Leaving,
         \/ who = "run" /\ state = "up" /\ ing[i].pc # "announced" /\ me.pc = "announced"
         \/ /\ who = "run" /\ state = "down" /\ ing[i].pc # "announced"
            /\ me.pc = "parting" /\ me.heartbeat = "gone"
         \/ who = "heartbeat" /\ state = "up" /\ me.pc = ing[i].pc
  PROVE  GoodbyeInv'
<1>. DEFINE msg == [by |-> i, who |-> who, state |-> state]
            c == Len(pipe)
<1>1. /\ ing' = [ing EXCEPT ![i] = me] /\ pipe' = Append(pipe, msg) /\ parted' = parted
      /\ proc = "running" /\ proc' = proc
      /\ ing \in [Ingesters -> IngesterState] /\ i \in Ingesters /\ pipe \in Seq(Message)
  BY ProcessAssumption DEF Send, Becomes, Inv, Types
<1>2. ing'[i] = me /\ \A j \in Owner : j = i
  BY <1>1 DEF OneOwner
<1>3. c \in Nat /\ \A n \in 1..c : pipe[n].by = i /\ pipe[n].who \in {"run", "heartbeat"}
                                      /\ pipe[n].state \in {"up", "down"}
  BY <1>2, PipeHoldsMessages
<1>4. Len(pipe') = c + 1 /\ pipe'[c + 1] = msg /\ \A n \in 1..c : pipe'[n] = pipe[n]
  BY <1>1
<1>5. msg.by = i /\ msg.who = who /\ msg.state = state
  OBVIOUS
<1>. HIDE DEF msg, c
<1>6. \A n \in 1..c : /\ pipe[n].state = "up"
                      /\ pipe[n].who = "run" => ing[i].pc = "announced"
  BY <1>3 DEF GoodbyeInv, InFlight, AwaitedBy, Leaving, c
<1>7. ~parted
  BY <1>1 DEF GoodbyeInv, PartedIsOver, Leaving
<1>8. ASSUME NEW n \in 1..(c + 1) PROVE n \in 1..c \/ n = c + 1
  BY <1>3, <1>8
<1>9. InFlight'
  <2>. SUFFICES ASSUME NEW n \in 1..(c + 1)
       PROVE  /\ pipe'[n].who = "run" => ing'[pipe'[n].by].pc = AwaitedBy(pipe'[n])
              /\ pipe'[n].state = "down" => pipe'[n].who = "run" /\ n = c + 1
    BY <1>4 DEF InFlight, AwaitedBy
  <2>1. CASE n \in 1..c
    BY <1>2, <1>3, <1>4, <1>6, <2>1 DEF AwaitedBy, Leaving
  <2>2. CASE n = c + 1
    BY <1>2, <1>4, <1>5, <2>2 DEF AwaitedBy
  <2>. QED  BY <1>8, <2>1, <2>2
<1>10. OneAwaited'
  <2>. SUFFICES ASSUME NEW m \in 1..(c + 1), NEW n \in 1..(c + 1),
                       pipe'[m].who = "run", pipe'[n].who = "run"
       PROVE  m = n
    BY <1>4 DEF OneAwaited
  <2>1. CASE m \in 1..c /\ n \in 1..c
    BY <1>4, <2>1 DEF GoodbyeInv, OneAwaited, c
  <2>2. CASE m \in 1..c /\ n = c + 1
    BY <1>4, <1>5, <1>6, <2>2
  <2>3. CASE n \in 1..c /\ m = c + 1
    BY <1>4, <1>5, <1>6, <2>3
  <2>. QED  BY <1>8, <2>1, <2>2, <2>3
<1>11. LeavesQuietly'
  <2>1. me.pc \notin Settled /\ (me.pc \in Leaving => me.heartbeat = "gone")
    BY DEF Leaving, Settled
  <2>. QED  BY <1>2, <2>1 DEF LeavesQuietly
<1>12. PartedIsOver'
  BY <1>1, <1>7 DEF PartedIsOver
<1>. QED  BY <1>9, <1>10, <1>11, <1>12 DEF GoodbyeInv

LEMMA AfterConnectionIsQuiet ==
  ASSUME NEW i \in Ingesters, NEW me, me \in IngesterState
  PROVE  /\ AfterConnection(i, me).pc \in {"next", "stopping"}
         /\ AfterConnection(i, me).heartbeat = me.heartbeat
<1>. DEFINE stale == [MarkedStale(i, me) EXCEPT !.socket = "closed"]
<1>1. stale.heartbeat = me.heartbeat /\ stale \in IngesterState
  BY DEF MarkedStale, IngesterState
<1>. HIDE DEF stale
<1>2. \/ AfterConnection(i, me) = [stale EXCEPT !.pc = "stopping"]
      \/ AfterConnection(i, me) = [stale EXCEPT !.pc = "stopping", !.failed = TRUE]
      \/ AfterConnection(i, me) = [stale EXCEPT !.pc = "next", !.attempt = @ + 1]
  BY DEF AfterConnection, stale
<1>. QED  BY <1>1, <1>2 DEF IngesterState

LEMMA RunKeepsGoodbye ==
  ASSUME OneOwner, Inv, GoodbyeInv, NEW i \in Ingesters, Run(i)
  PROVE  GoodbyeInv'
<1>. DEFINE me == ing[i]
<1>1. me \in IngesterState
  BY DEF Inv, Types
<1>2. ASSUME NEW now, Local(i, now), me.pc \notin {"announced"} \cup Leaving,
             now.pc \notin Leaving, now.heartbeat = me.heartbeat
      PROVE  GoodbyeInv'
  BY <1>2, LocalKeepsGoodbye DEF Quietly, Leaving, Settled
<1>3. CASE Loop(i)
  <2>1. \/ Local(i, [me EXCEPT !.pc = "stopping"])
        \/ Local(i, [me EXCEPT !.pc = "dialing", !.state = "BOOTSTRAP", !.queue = <<>>,
                               !.done = {}])
    BY <1>3 DEF Loop
  <2>. QED  BY <1>1, <1>2, <1>3, <2>1 DEF Loop, IngesterState, Leaving, Settled
<1>4. CASE Dialed(i)
  <2>1. \/ Local(i, [me EXCEPT !.pc = "subscribing", !.socket = "open", !.attempt = 0])
        \/ Local(i, AfterConnection(i, me))
    BY <1>4 DEF Dialed
  <2>2. [me EXCEPT !.pc = "subscribing", !.socket = "open", !.attempt = 0].pc = "subscribing"
    BY <1>1 DEF IngesterState
  <2>3. [me EXCEPT !.pc = "subscribing", !.socket = "open", !.attempt = 0].heartbeat = me.heartbeat
    BY <1>1 DEF IngesterState
  <2>. QED  BY <1>1, <1>2, <1>4, <2>1, <2>2, <2>3, AfterConnectionIsQuiet
            DEF Dialed, Leaving, Settled
<1>5. CASE Refused(i)
  <2>1. Local(i, AfterConnection(i, me))
    BY <1>5 DEF Refused
  <2>. QED  BY <1>1, <1>2, <1>5, <2>1, AfterConnectionIsQuiet DEF Refused, Leaving, Settled
<1>6. CASE Bootstrapped(i)
  <2>. DEFINE bare == [me EXCEPT !.connected = TRUE]
  <2>1. bare.heartbeat = me.heartbeat /\ bare \in IngesterState /\ me.pc = "subscribing"
    BY <1>1, <1>6 DEF Bootstrapped, IngesterState
  <2>2. CASE i \in Owner
    <3>1. Send(i, "run", "up", [bare EXCEPT !.pc = "announced"])
      BY <1>6, <2>2 DEF Bootstrapped
    <3>2. [bare EXCEPT !.pc = "announced"].pc = "announced"
      BY <2>1 DEF IngesterState
    <3>. QED  BY <2>1, <2>2, <3>1, <3>2, SendKeepsGoodbye DEF Leaving, Settled
  <2>3. CASE i \notin Owner
    <3>1. Local(i, [bare EXCEPT !.pc = "streaming"])
      BY <1>6, <2>3 DEF Bootstrapped
    <3>. QED  BY <2>3, <3>1, LocalKeepsGoodbye
  <2>. QED  BY <2>2, <2>3
<1>7. CASE WindDown(i)
  <2>1. Local(i, [me EXCEPT !.pc = "closing", !.connected = FALSE, !.queue = <<>>])
    BY <1>7 DEF WindDown
  <2>. QED  BY <1>1, <1>2, <1>7, <2>1 DEF WindDown, Streaming, IngesterState, Leaving, Settled
<1>8. CASE Closed(i)
  <2>. DEFINE bare == [me EXCEPT !.done = {}]
  <2>1. bare.heartbeat = me.heartbeat /\ bare \in IngesterState /\ me.pc = "closing"
    BY <1>1, <1>8 DEF Closed, IngesterState
  <2>2. Local(i, AfterConnection(i, bare))
    BY <1>8 DEF Closed
  <2>. QED  BY <1>2, <2>1, <2>2, AfterConnectionIsQuiet DEF Leaving, Settled
<1>9. CASE Stop(i)
  <2>. DEFINE bare == [me EXCEPT !.heartbeat = "gone"]
  <2>1. bare \in IngesterState /\ bare.heartbeat = "gone" /\ me.pc = "stopping"
    BY <1>1, <1>9 DEF Stop, IngesterState
  <2>2. CASE i \in Owner
    <3>1. Send(i, "run", "down", [bare EXCEPT !.pc = "parting"])
      BY <1>9, <2>2 DEF Stop
    <3>2. [bare EXCEPT !.pc = "parting"].pc = "parting"
      BY <2>1 DEF IngesterState
    <3>3. [bare EXCEPT !.pc = "parting"].heartbeat = "gone"
      BY <2>1 DEF IngesterState
    <3>. QED  BY <2>1, <2>2, <3>1, <3>2, <3>3, SendKeepsGoodbye DEF Leaving, Settled
  <2>3. CASE i \notin Owner
    <3>1. Local(i, [bare EXCEPT !.pc = "ended"])
      BY <1>9, <2>3 DEF Stop
    <3>. QED  BY <2>3, <3>1, LocalKeepsGoodbye
  <2>. QED  BY <2>2, <2>3
<1>10. CASE Ended(i)
  <2>. DEFINE now == [me EXCEPT !.poller = "gone",
                                !.pc = IF me.failed THEN "raised" ELSE "returned"]
  <2>1. Local(i, now) /\ me.pc = "ended"
    BY <1>10 DEF Ended
  <2>2. now.pc \in {"raised", "returned"} /\ now.heartbeat = me.heartbeat
    BY <1>1 DEF IngesterState
  <2>. HIDE DEF now
  <2>3. Quietly(me, now)
    BY <2>1, <2>2 DEF Quietly, Settled
  <2>. QED  BY <2>1, <2>3, LocalKeepsGoodbye
<1>. QED  BY <1>3, <1>4, <1>5, <1>6, <1>7, <1>8, <1>9, <1>10 DEF Run

LEMMA TaskKeepsGoodbye ==
  ASSUME OneOwner, Inv, GoodbyeInv, NEW i \in Ingesters, Task(i)
  PROVE  GoodbyeInv'
<1>. DEFINE me == ing[i]
<1>1. me \in IngesterState /\ WellFormed(i, me)
  BY DEF Inv, Types
<1>2. ASSUME NEW now, Local(i, now), now.pc = me.pc,
             me.heartbeat = "gone" => now.heartbeat = "gone"
      PROVE  GoodbyeInv'
  BY <1>2, LocalKeepsGoodbye DEF Quietly, Settled
<1>3. CASE SocketLost(i)
  BY <1>1, <1>2, <1>3 DEF SocketLost, IngesterState
<1>4. CASE Frame(i)
  BY <1>1, <1>2, <1>4 DEF Frame, IngesterState
<1>5. CASE ReaderEnds(i)
  BY <1>1, <1>2, <1>5 DEF ReaderEnds, IngesterState
<1>6. CASE Apply(i)
  BY <1>1, <1>2, <1>6 DEF Apply, IngesterState
<1>7. CASE ProduceFails(i)
  BY <1>1, <1>2, <1>7 DEF ProduceFails, IngesterState
<1>8. CASE Watchdog(i)
  BY <1>1, <1>2, <1>8 DEF Watchdog, IngesterState
<1>9. CASE HeartbeatTick(i)
  BY <1>1, <1>2, <1>9 DEF HeartbeatTick, IngesterState
<1>10. CASE HeartbeatSend(i)
  <2>. DEFINE now == [me EXCEPT !.heartbeat = "sent"]
  <2>1. i \in Owner /\ me.heartbeat = "sending"
    BY <1>1, <1>10 DEF HeartbeatSend, WellFormed
  <2>2. me.pc \notin Leaving
    BY <2>1 DEF GoodbyeInv, LeavesQuietly
  <2>3. now.pc = me.pc /\ Send(i, "heartbeat", "up", now)
    BY <1>1, <1>10 DEF HeartbeatSend, IngesterState
  <2>. HIDE DEF now
  <2>. QED  BY <2>1, <2>2, <2>3, SendKeepsGoodbye
<1>11. CASE Poll(i)
  BY <1>1, <1>2, <1>11 DEF Poll, IngesterState
<1>. QED  BY <1>3, <1>4, <1>5, <1>6, <1>7, <1>8, <1>9, <1>10, <1>11 DEF Task

(* A status call returns: whatever is behind it in the queue moves up, and   *)
(* behind a 'down' there is nothing.                                         *)
LEMMA StatusKeepsGoodbye ==
  ASSUME OneOwner, Inv, GoodbyeInv, StatusDone
  PROVE  GoodbyeInv' /\ ~parted
<1>. DEFINE msg == pipe[1]
            i == msg.by
            c == Len(pipe)
            me == Resumed(msg)
<1>1. pipe # <<>> /\ pipe \in Seq(Message) /\ Head(pipe) = msg /\ c \in Nat
  BY DEF StatusDone, Inv, Types
<1>2. c \in Nat \ {0} /\ 1 \in 1..c /\ c - 1 \in Nat
  BY <1>1
<1>3. Len(pipe') = c - 1 /\ \A n \in 1..(c - 1) : n + 1 \in 1..c /\ pipe'[n] = pipe[n + 1]
  <2>1. pipe' = Tail(pipe)
    BY DEF StatusDone
  <2>. QED  BY <1>1, <2>1
<1>4. /\ \A j \in Owner : j = i
      /\ i \in Owner /\ i \in Ingesters /\ msg.state \in {"up", "down"}
      /\ msg.who \in {"run", "heartbeat"}
      /\ \A n \in 1..c : pipe[n].by = i
  BY <1>2, PipeHoldsMessages, ProcessAssumption DEF OneOwner
<1>5. ing' = [ing EXCEPT ![i] = me] /\ ing \in [Ingesters -> IngesterState] /\ proc' = proc
  BY <1>1 DEF StatusDone, Inv, Types
<1>6. ing'[i] = me
  BY <1>4, <1>5
<1>7. ing[i] \in IngesterState
  BY <1>4, <1>5
<1>8. ~parted /\ ing[i].pc \notin Settled /\ proc # "dead"
  BY <1>1, <1>4 DEF GoodbyeInv, PartedIsOver, LeavesQuietly
<1>9. msg.state = "up" => ~parted'
  BY <1>1, <1>8 DEF StatusDone
<1>. HIDE DEF c
<1>10. /\ msg.who = "run" => ing[i].pc = AwaitedBy(msg)
       /\ msg.state = "down" => msg.who = "run" /\ c = 1
       /\ \A n \in 1..c : /\ pipe[n].who = "run" => ing[i].pc = AwaitedBy(pipe[n])
                          /\ pipe[n].state = "down" => pipe[n].who = "run" /\ n = c
       /\ \A m, n \in 1..c : pipe[m].who = "run" /\ pipe[n].who = "run" => m = n
  BY <1>2, <1>4 DEF GoodbyeInv, InFlight, OneAwaited, c
<1>11. OneAwaited'
  <2>. SUFFICES ASSUME NEW m \in 1..(c - 1), NEW n \in 1..(c - 1),
                       pipe[m + 1].who = "run", pipe[n + 1].who = "run"
       PROVE  m = n
    BY <1>3 DEF OneAwaited
  <2>1. m + 1 = n + 1
    BY <1>3, <1>10
  <2>. QED  BY <2>1, <1>2
<1>12. PartedIsOver' \/ msg.state = "down"
  BY <1>4, <1>5, <1>8, <1>9 DEF PartedIsOver
<1>13. CASE msg.who = "heartbeat"
  <2>1. /\ me.pc = ing[i].pc /\ msg.state = "up"
        /\ ing[i].heartbeat = "gone" => me.heartbeat = "gone"
    BY <1>4, <1>7, <1>10, <1>13 DEF Resumed, IngesterState
  <2>2. InFlight'
    <3>. SUFFICES ASSUME NEW n \in 1..(c - 1)
         PROVE  /\ pipe'[n].who = "run" => ing'[pipe'[n].by].pc = AwaitedBy(pipe'[n])
                /\ pipe'[n].state = "down" => pipe'[n].who = "run" /\ n = c - 1
      BY <1>3 DEF InFlight, AwaitedBy
    <3>1. n + 1 \in 1..c /\ pipe'[n] = pipe[n + 1]
      BY <1>3
    <3>2. pipe'[n].by = i /\ (pipe'[n].who = "run" => me.pc = AwaitedBy(pipe'[n]))
      BY <1>4, <1>10, <2>1, <3>1
    <3>3. pipe'[n].state = "down" => pipe'[n].who = "run" /\ n + 1 = c
      BY <1>10, <3>1
    <3>. QED  BY <1>2, <1>6, <3>2, <3>3
  <2>3. LeavesQuietly'
    BY <1>4, <1>6, <1>8, <2>1 DEF GoodbyeInv, LeavesQuietly
  <2>. QED  BY <1>8, <1>11, <1>12, <2>1, <2>2, <2>3 DEF GoodbyeInv
<1>14. CASE msg.who = "run" /\ msg.state = "up"
  <2>1. ing[i].pc = "announced" /\ me.pc = "streaming"
    BY <1>7, <1>10, <1>14 DEF Resumed, AwaitedBy, IngesterState
  <2>2. ASSUME NEW n \in 1..(c - 1) PROVE pipe'[n].who # "run" /\ pipe'[n].state # "down"
    <3>1. n + 1 \in 1..c /\ pipe'[n] = pipe[n + 1] /\ n + 1 # 1
      BY <1>2, <1>3
    <3>. QED  BY <1>2, <1>10, <1>14, <3>1
  <2>3. InFlight'
    BY <1>3, <2>2 DEF InFlight, AwaitedBy
  <2>4. LeavesQuietly'
    BY <1>4, <1>6, <2>1 DEF LeavesQuietly, Leaving, Settled
  <2>. QED  BY <1>8, <1>11, <1>12, <1>14, <2>3, <2>4 DEF GoodbyeInv
<1>15. CASE msg.state = "down"
  <2>1. pipe' = <<>>
    <3>1. pipe' = Tail(pipe) /\ Len(pipe) = 1
      BY <1>10, <1>15 DEF StatusDone, c
    <3>. QED  BY <1>1, <3>1
  <2>2. me.pc = "ended" /\ me.heartbeat = ing[i].heartbeat /\ ing[i].pc = "parting"
    BY <1>7, <1>10, <1>15 DEF Resumed, AwaitedBy, IngesterState
  <2>3. LeavesQuietly'
    BY <1>4, <1>6, <2>1, <2>2 DEF GoodbyeInv, LeavesQuietly, Leaving
  <2>4. InFlight'
    BY <2>1 DEF InFlight, AwaitedBy
  <2>5. PartedIsOver'
    BY <1>4, <1>6, <2>1, <2>2 DEF PartedIsOver, Settled
  <2>. QED  BY <1>8, <1>11, <2>3, <2>4, <2>5 DEF GoodbyeInv
<1>. QED  BY <1>4, <1>13, <1>14, <1>15

LEMMA ProcessKeepsGoodbye ==
  ASSUME Inv, GoodbyeInv,
         Signal \/ Gathered \/ ProducerStopped \/ Crash \/ Restart \/ UNCHANGED vars
  PROVE  GoodbyeInv'
<1>1. CASE Restart
  <2>1. pipe' = <<>> /\ ~parted' /\ \A i \in Owner : ing'[i] = Fresh
    BY <1>1, ProcessAssumption DEF Restart, GoodbyeInv, PartedIsOver
  <2>. QED  BY <2>1 DEF GoodbyeInv, InFlight, AwaitedBy, OneAwaited, LeavesQuietly,
                        PartedIsOver, Fresh, Leaving, Settled
<1>2. CASE Crash
  BY <1>2 DEF Crash, GoodbyeInv, InFlight, AwaitedBy, OneAwaited, LeavesQuietly, PartedIsOver
<1>3. CASE Signal
  BY <1>3 DEF Signal, GoodbyeInv, InFlight, AwaitedBy, OneAwaited, LeavesQuietly, PartedIsOver
<1>4. CASE Gathered
  BY <1>4 DEF Gathered, GoodbyeInv, InFlight, AwaitedBy, OneAwaited, LeavesQuietly, PartedIsOver
<1>5. CASE ProducerStopped
  BY <1>5 DEF ProducerStopped, GoodbyeInv, InFlight, AwaitedBy, OneAwaited, LeavesQuietly,
              PartedIsOver
<1>6. CASE UNCHANGED vars
  BY <1>6 DEF vars, GoodbyeInv, InFlight, AwaitedBy, OneAwaited, LeavesQuietly, PartedIsOver
<1>. QED  BY <1>1, <1>2, <1>3, <1>4, <1>5, <1>6

(* base_ingester.py:310: in a process with one owner of the status topic, as *)
(* every exchange's is, no status follows the final 'down', however late a   *)
(* heartbeat was cancelled, an 'up' settles or another ingester fails.       *)
THEOREM GoodbyeIsFinal == ASSUME OneOwner PROVE Spec => GoodbyeStands
<1>1. Init => BothInv
  <2>. SUFFICES ASSUME Init PROVE GoodbyeInv
    BY InitInv DEF BothInv
  <2>1. \A i \in Owner : ing[i] = Fresh
    BY ProcessAssumption DEF Init
  <2>2. pipe = <<>> /\ ~parted
    BY DEF Init
  <2>. QED  BY <2>1, <2>2 DEF GoodbyeInv, InFlight, AwaitedBy, OneAwaited, LeavesQuietly,
                              PartedIsOver, Fresh, Leaving, Settled
<1>2. ASSUME BothInv, [Next]_vars PROVE BothInv'
  BY <1>2, OneOwner, StepKeepsInv, NextByParts, RunKeepsGoodbye, TaskKeepsGoodbye,
     StatusKeepsGoodbye, ProcessKeepsGoodbye DEF BothInv
<1>3. ASSUME BothInv, [Next]_vars PROVE [parted /\ parted' => last' = last]_vars
  <2>1. CASE \E i \in Ingesters : Run(i)
    BY <2>1 DEF Run, Loop, Dialed, Refused, Bootstrapped, WindDown, Closed, Stop, Ended,
                Local, Send, Becomes
  <2>2. CASE \E i \in Ingesters : Task(i)
    BY <2>2 DEF Task, SocketLost, Frame, ReaderEnds, Apply, ProduceFails, Watchdog,
                HeartbeatTick, HeartbeatSend, Poll, Local, Send, Becomes
  <2>3. CASE StatusDone
    BY <1>3, <2>3, OneOwner, StatusKeepsGoodbye DEF BothInv
  <2>4. CASE Signal \/ Gathered \/ ProducerStopped \/ Crash \/ Restart \/ UNCHANGED vars
    BY <2>4 DEF Signal, Gathered, ProducerStopped, Crash, Restart
  <2>. QED  BY <1>3, <2>1, <2>2, <2>3, <2>4, NextByParts
<1>. QED  BY <1>1, <1>2, <1>3, PTL DEF Spec, GoodbyeStands
=============================================================================
