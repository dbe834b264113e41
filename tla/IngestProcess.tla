--------------------------- MODULE IngestProcess ---------------------------
(***************************************************************************)
(* One ingest process (ingest/main.py) and the lifecycle every ingester runs *)
(* (ingest/base_ingester.py): dialing and backoff, the tasks of a            *)
(* connection, the heartbeat on md.status.<exchange>, the watchdog, shutdown *)
(* and the final 'down'.  binance-futures runs two ingesters in one process: *)
(* the market one polls open interest and leaves status and books to the     *)
(* other.  An action is what a task does between two awaits.  What frames do *)
(* to a book is RestDepthSync's and InBandSync's subject; here a frame is    *)
(* applied, ignored, or asks for a resync.                                   *)
(***************************************************************************)
EXTENDS Naturals, Sequences

CONSTANTS
  Ingesters,      \* build_ingesters' list
  Owner,          \* those with heartbeat_s: they own md.status.<exchange>
  Pollers,        \* those with an open-interest poller and no book
  Watched,        \* those with a stale_timeout
  QUEUE_MAXSIZE,  \* queue_maxsize
  FLOAT_MAX_EXP,  \* the least k for which base * 2**k does not fit a float
  MaxFaults       \* bound: lost or silent sockets, failed dials, sends, polls; crashes

ASSUME ProcessAssumption ==
  /\ Owner \cup Pollers \cup Watched \subseteq Ingesters
  /\ Owner \cap Pollers = {}
  /\ {QUEUE_MAXSIZE, FLOAT_MAX_EXP} \subseteq Nat \ {0} /\ MaxFaults \in Nat

VARIABLES
  ing,     \* ing[i]: the tasks and fields of an ingester, see Fresh
  shut,    \* a signal has set every ingester's _shutdown
  proc,    \* "running", "stopped" (amain returned), "failing" (run() raised), "dead"
  pipe,    \* status messages the producer has accepted: [by, who, state]
  last,    \* the last message of the status topic, "none" at first
  parted,  \* history: this process's final 'down' has been appended
  unsaid,  \* history: a status of this process was not delivered
  faults   \* how much of its bound has been used

vars == <<ing, shut, proc, pipe, last, parted, unsaid, faults>>

Fault == faults < MaxFaults /\ faults' = faults + 1
NoFault == UNCHANGED faults

\* __init__, and run() up to its loop.
Fresh ==
  [pc |-> "next", attempt |-> 0, failed |-> FALSE, connected |-> FALSE, socket |-> "closed",
   state |-> "BOOTSTRAP", queue |-> <<>>, done |-> {}, heartbeat |-> "sleep", poller |-> "sleep"]

Init ==
  /\ ing = [i \in Ingesters |-> Fresh]
  /\ shut = FALSE /\ proc = "running" /\ pipe = <<>>
  /\ last = "none" /\ parted = FALSE /\ unsaid = FALSE /\ faults = 0

\* Ingester i becomes `me`, and nothing else of the process changes.
Becomes(i, me) ==
  /\ proc = "running" /\ ing' = [ing EXCEPT ![i] = me]
  /\ UNCHANGED <<shut, proc, last, parted, unsaid>>
Local(i, me) == Becomes(i, me) /\ UNCHANGED pipe
Send(i, who, state, me) ==
  Becomes(i, me) /\ pipe' = Append(pipe, [by |-> i, who |-> who, state |-> state])

----------------------------------------------------------------------------
\* run()

\* A faulty end of a connection: the books stay LIVE.
KeptLive(i, me) == me

\* _mark_all_stale.  The market instance has no book to invalidate.
MarkedStale(i, me) == IF i \in Pollers THEN me ELSE [me EXCEPT !.state = "STALE"]

\* What follows _connect_and_stream, however it ended: out of the loop on
\* shutdown, else FullJitterBackoff.sleep, which raises when its ceiling
\* overflows.
AfterConnection(i, me) ==
  LET stale == [MarkedStale(i, me) EXCEPT !.socket = "closed"]
  IN  IF shut THEN [stale EXCEPT !.pc = "stopping"]
      ELSE IF me.attempt >= FLOAT_MAX_EXP
           THEN [stale EXCEPT !.pc = "stopping", !.failed = TRUE]
      ELSE [stale EXCEPT !.pc = "next", !.attempt = @ + 1]

\* The backoff is over: the loop's test, _reset_contexts, and a fresh queue and
\* _produce_failed.
Loop(i) ==
  /\ ing[i].pc = "next" /\ NoFault
  /\ Local(i, IF shut THEN [ing[i] EXCEPT !.pc = "stopping"]
              ELSE [ing[i] EXCEPT !.pc = "dialing", !.state = "BOOTSTRAP", !.queue = <<>>,
                                  !.done = {}])

Dialed(i) ==
  /\ ing[i].pc = "dialing"
  /\ \/ NoFault /\ Local(i, [ing[i] EXCEPT !.pc = "subscribing", !.socket = "open",
                                           !.attempt = 0])
     \/ Fault /\ Local(i, AfterConnection(i, ing[i]))

\* _send_subscribes and the gathered bootstraps: a hook may raise, and a send
\* does on a closed socket.
Refused(i) ==
  /\ ing[i].pc = "subscribing"
  /\ IF ing[i].socket = "open" THEN Fault ELSE NoFault
  /\ Local(i, AfterConnection(i, ing[i]))

\* They are done: the 'up' goes into the producer and is awaited (StatusDone)
\* before the tasks of the connection are created.
Bootstrapped(i) ==
  /\ ing[i].pc = "subscribing" /\ ing[i].socket = "open" /\ NoFault
  /\ LET me == [ing[i] EXCEPT !.connected = TRUE]
     IN  IF i \in Owner THEN Send(i, "run", "up", [me EXCEPT !.pc = "announced"])
         ELSE Local(i, [me EXCEPT !.pc = "streaming"])

\* A faulty end: the heartbeat task lives on.
StopKeepsHeartbeat(i) ==
  /\ ing[i].pc = "stopping" /\ NoFault
  /\ IF i \in Owner THEN Send(i, "run", "down", [ing[i] EXCEPT !.pc = "parting"])
     ELSE Local(i, [ing[i] EXCEPT !.pc = "ended"])

\* run()'s finally: the heartbeat and the snapshotter are cancelled and awaited,
\* then the 'down' goes into the producer and is awaited.
Stop(i) ==
  /\ ing[i].pc = "stopping" /\ NoFault
  /\ LET me == [ing[i] EXCEPT !.heartbeat = "gone"]
     IN  IF i \in Owner THEN Send(i, "run", "down", [me EXCEPT !.pc = "parting"])
         ELSE Local(i, [me EXCEPT !.pc = "ended"])

\* run() is over; the futures' one also cancels its poller.
Ended(i) ==
  /\ ing[i].pc = "ended" /\ NoFault
  /\ Local(i, [ing[i] EXCEPT !.poller = "gone",
                             !.pc = IF ing[i].failed THEN "raised" ELSE "returned"])

----------------------------------------------------------------------------
\* The tasks of a connection

Streaming(i) == ing[i].pc = "streaming"

\* The socket closes under us.
SocketLost(i) ==
  /\ ing[i].socket = "open" /\ Fault
  /\ Local(i, [ing[i] EXCEPT !.socket = "closed"])

Runs(i, task) == Streaming(i) /\ task \notin ing[i].done

\* _reader: a frame into the queue; a full queue ends the task, and its
\* sentinel does not fit either.
Frame(i) ==
  /\ Runs(i, "reader") /\ ing[i].socket = "open" /\ NoFault
  /\ Local(i, IF Len(ing[i].queue) < QUEUE_MAXSIZE
              THEN [ing[i] EXCEPT !.queue = Append(@, "frame")]
              ELSE [ing[i] EXCEPT !.done = @ \cup {"reader"}])

\* The socket is closed: the sentinel, if there is room for it.
ReaderEnds(i) ==
  /\ Runs(i, "reader") /\ ing[i].socket = "closed" /\ NoFault
  /\ Local(i, [ing[i] EXCEPT !.done = @ \cup {"reader"},
       !.queue = IF Len(@) < QUEUE_MAXSIZE THEN Append(@, "end") ELSE @])

\* _applier: the sentinel ends it; a frame may be ignored or unparsable, make
\* the symbol LIVE, or ask for a resync.
Apply(i) ==
  /\ Runs(i, "applier") /\ ing[i].queue # <<>>
  /\ LET me == [ing[i] EXCEPT !.queue = Tail(@)]
         over == [me EXCEPT !.done = @ \cup {"applier"}]
     IN  \/ Head(ing[i].queue) = "end" /\ NoFault /\ Local(i, over)
         \/ Head(ing[i].queue) = "frame" /\ NoFault /\ Local(i, me)
         \/ /\ Head(ing[i].queue) = "frame" /\ i \notin Pollers
            /\ \/ NoFault /\ Local(i, [me EXCEPT !.state = "LIVE"])
               \/ Fault /\ Local(i, [over EXCEPT !.state = "STALE"])

\* _on_produce_done with an exception, for a message of this connection.
ProduceFails(i) ==
  /\ Runs(i, "produce_failed") /\ Fault
  /\ Local(i, [ing[i] EXCEPT !.done = @ \cup {"produce_failed"}])

\* _staleness_watchdog: the venue has sent nothing for a stale_timeout.
Watchdog(i) ==
  /\ i \in Watched /\ Runs(i, "watchdog") /\ Fault
  /\ Local(i, [ing[i] EXCEPT !.done = @ \cup {"watchdog"}])

\* A faulty wait for the applier to drain the queue up to the sentinel.
OverWhenDrained(i) == ing[i].done \ {"reader"} # {} \/ shut

\* A faulty wait that leaves shutdown_task out.
OverUnlessShut(i) == ing[i].done # {}

\* asyncio.wait(FIRST_COMPLETED)
Over(i) == ing[i].done # {} \/ shut

\* The other tasks are cancelled and awaited, and _connected is cleared; then
\* the socket is closed, which takes at most close_timeout.
WindDown(i) ==
  /\ Streaming(i) /\ Over(i) /\ NoFault
  /\ Local(i, [ing[i] EXCEPT !.pc = "closing", !.connected = FALSE, !.queue = <<>>])

Closed(i) ==
  /\ ing[i].pc = "closing" /\ NoFault
  /\ Local(i, AfterConnection(i, [ing[i] EXCEPT !.done = {}]))

----------------------------------------------------------------------------
\* The tasks that outlive a connection

\* _heartbeat_loop: a tick while connected; the send; (StatusDone).
HeartbeatTick(i) ==
  /\ i \in Owner /\ ing[i].heartbeat = "sleep" /\ ing[i].connected /\ NoFault
  /\ Local(i, [ing[i] EXCEPT !.heartbeat = "sending"])

HeartbeatSend(i) ==
  /\ ing[i].heartbeat = "sending" /\ NoFault
  /\ Send(i, "heartbeat", "up", [ing[i] EXCEPT !.heartbeat = "sent"])

\* _send_status returns, delivered or not: whoever awaits it goes on.  A
\* cancelled heartbeat awaits nothing any more.
Resumed(msg) ==
  LET me == ing[msg.by]
  IN  IF msg.who = "heartbeat"
      THEN IF me.heartbeat # "sent" THEN me
           ELSE [me EXCEPT !.heartbeat = IF shut THEN "gone" ELSE "sleep"]
      ELSE IF me.pc = "announced" THEN [me EXCEPT !.pc = "streaming"]
      ELSE IF me.pc = "parting" THEN [me EXCEPT !.pc = "ended"]
      ELSE me

StatusDone ==
  /\ pipe # <<>> /\ pipe' = Tail(pipe)
  /\ LET msg == Head(pipe)
     IN  /\ ing' = [ing EXCEPT ![msg.by] = Resumed(msg)]
         /\ \/ /\ NoFault /\ last' = msg.state
               /\ parted' = (parted \/ msg.state = "down") /\ UNCHANGED unsaid
            \/ Fault /\ unsaid' = TRUE /\ UNCHANGED <<last, parted>>
  /\ UNCHANGED <<shut, proc>>

\* _oi_poll_loop: the REST call, which may fail, and the send.
Poll(i) ==
  /\ i \in Pollers
  /\ \/ ing[i].poller = "sleep" /\ NoFault /\ Local(i, [ing[i] EXCEPT !.poller = "sending"])
     \/ /\ \/ ing[i].poller = "sleep" /\ Fault
           \/ ing[i].poller = "sending" /\ NoFault
        /\ Local(i, [ing[i] EXCEPT !.poller = IF shut THEN "gone" ELSE "sleep"])

----------------------------------------------------------------------------
\* The process

\* SIGTERM: every ingester's shutdown().
Signal ==
  /\ proc = "running" /\ ~shut /\ shut' = TRUE
  /\ UNCHANGED <<ing, proc, pipe, last, parted, unsaid, faults>>

\* gather(): all have returned, or one raised, which ends the others where they
\* are; what they still send meets a stopped producer.
Gathered ==
  /\ proc = "running"
  /\ \/ /\ \A i \in Ingesters : ing[i].pc = "returned"
        /\ proc' = "stopped"
     \/ /\ \E i \in Ingesters : ing[i].pc = "raised"
        /\ proc' = "failing"
  /\ UNCHANGED <<ing, shut, pipe, last, parted, unsaid, faults>>

\* producer.stop() has flushed.
ProducerStopped ==
  /\ proc = "failing" /\ pipe = <<>> /\ proc' = "dead"
  /\ UNCHANGED <<ing, shut, pipe, last, parted, unsaid, faults>>

\* Killed: what the producer had not delivered is lost.
Crash ==
  /\ proc \in {"running", "failing"} /\ Fault
  /\ proc' = "dead" /\ pipe' = <<>>
  /\ UNCHANGED <<ing, shut, last, parted, unsaid>>

\* docker compose: unless-stopped.
Restart ==
  /\ proc = "dead" /\ ~shut /\ proc' = "running"
  /\ ing' = [i \in Ingesters |-> Fresh]
  /\ parted' = FALSE /\ unsaid' = FALSE
  /\ UNCHANGED <<shut, pipe, last, faults>>

----------------------------------------------------------------------------
Run(i) ==
  \/ Loop(i) \/ Dialed(i) \/ Refused(i) \/ Bootstrapped(i) \/ WindDown(i) \/ Closed(i)
  \/ Stop(i) \/ Ended(i)

Process == Gathered \/ ProducerStopped \/ Restart

Next ==
  \/ \E i \in Ingesters :
       \/ Loop(i) \/ Dialed(i) \/ Refused(i) \/ Bootstrapped(i) \/ WindDown(i) \/ Closed(i)
       \/ Stop(i) \/ Ended(i)
       \/ SocketLost(i) \/ Frame(i) \/ ReaderEnds(i) \/ Apply(i) \/ ProduceFails(i)
       \/ Watchdog(i) \/ HeartbeatTick(i) \/ HeartbeatSend(i) \/ Poll(i)
  \/ StatusDone \/ Signal \/ Gathered \/ ProducerStopped \/ Crash \/ Restart

\* asyncio runs every ready task, timeouts end every call, and compose restarts
\* the process.  The venue owes no frame, and nobody a signal.
Fairness ==
  /\ \A i \in Ingesters :
       /\ WF_vars(Run(i)) /\ WF_vars(ReaderEnds(i)) /\ WF_vars(Apply(i))
       /\ WF_vars(Poll(i))
       /\ WF_vars(HeartbeatTick(i) \/ HeartbeatSend(i))
  /\ WF_vars(StatusDone) /\ WF_vars(Process)

Spec == Init /\ [][Next]_vars /\ Fairness

----------------------------------------------------------------------------
\* Properties

(* Types, and how the fields of an ingester hang together: _connected is set *)
(* exactly from the bootstrap to the end of the wind-down, the tasks of a    *)
(* connection run while it streams, a LIVE book belongs to a connection that *)
(* has not been given up (_snapshot_loop relies on both).                    *)
TypeOK ==
  /\ shut \in BOOLEAN /\ proc \in {"running", "stopped", "failing", "dead"}
  /\ last \in {"none", "up", "down"} /\ parted \in BOOLEAN /\ unsaid \in BOOLEAN
  /\ faults \in 0..MaxFaults
  /\ \A n \in DOMAIN pipe : pipe[n].by \in Owner /\ pipe[n].state \in {"up", "down"}
  /\ \A i \in Ingesters :
       LET me == ing[i]
       IN  /\ me.attempt \in 0..FLOAT_MAX_EXP
           /\ Len(me.queue) <= QUEUE_MAXSIZE
           /\ me.connected <=> me.pc \in {"announced", "streaming"}
           /\ me.done # {} \/ me.queue # <<>> => me.pc \in {"streaming", "closing"}
           /\ me.state = "LIVE" => me.pc \in {"streaming", "closing"}

(* base_ingester.py:310: the 'down' of a process that ends is the last it    *)
(* says, so no late heartbeat brings the venue back.                         *)
GoodbyeStands == [][parted /\ parted' => last' = last]_vars

(* main.py, amain: a signal ends the process, whatever its ingesters are     *)
(* doing and however silent the venue is, and the process leaves a 'down'    *)
(* behind unless that could not be delivered or it is killed first.          *)
ShutdownEnds ==
  shut ~> \/ proc = "dead"
          \/ proc = "stopped" /\ (last = "down" \/ unsaid \/ Owner = {})

Healthy(i) ==
  /\ Streaming(i) /\ ~Over(i) /\ ing[i].socket = "open"
  /\ i \in Owner => last = "up"

(* run(), "forever; respects shutdown event": after any finite number of     *)
(* failures every ingester streams again and its venue is announced as up;   *)
(* no full queue, missing sentinel, dead socket or exhausted backoff stops   *)
(* it for good.  The open-interest poll survives its errors and the          *)
(* connection's.                                                             *)
AlwaysBack ==
  /\ \A i \in Ingesters : []<>(shut \/ Healthy(i))
  /\ \A i \in Pollers : []<>(shut \/ ing[i].poller = "sending")
=============================================================================
