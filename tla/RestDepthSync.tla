--------------------------- MODULE RestDepthSync ---------------------------
(***************************************************************************)
(* The binance ingesters, spot (ingest/binance.py) and futures depth         *)
(* (ingest/binance_futures.py), on ingest/base_ingester.py: one symbol's     *)
(* local book, kept in step with the venue by diff-depth events and a REST   *)
(* snapshot, and published to the snapshots and deltas topics.  The two      *)
(* drivers differ in the rules by which an event continues the book.         *)
(*                                                                           *)
(* asyncio runs one task at a time, so an action is what a task does between *)
(* two awaits.  The tasks are the reader, the applier, the REST fetch, the   *)
(* periodic snapshotter, the producer's sender and the connect loop.         *)
(*                                                                           *)
(* Book content.  The venue's i-th update sets or deletes the level touch[i];*)
(* what a level holds is named by the update that wrote it last (0: none     *)
(* yet).  Every write is thus distinct, and a book that missed, repeated or  *)
(* reordered an update differs from the venue's.                             *)
(***************************************************************************)
EXTENDS Integers, Sequences

CONSTANTS
  Markets,            \* the drivers: a subset of {"spot", "futures"}
  Prices,             \* the levels of the book
  QUEUE_MAXSIZE,      \* queue_maxsize: frames between the reader and the applier
  MAX_BUFFER_DELTAS,  \* deltas buffered while the REST snapshot is awaited
  MaxId,              \* bound: updates of the venue
  MaxEvent,           \* bound: updates one diff-depth event covers
  MaxLag,             \* bound: updates a REST answer may be behind the venue
  MaxFaults,          \* bound: lost frames, closed sockets, failed fetches and produces
  MaxPeriodic         \* bound: periodic snapshots over the run

ASSUME SpotAssumption ==
  /\ Markets \subseteq {"spot", "futures"}
  /\ Prices \subseteq Nat
  /\ {QUEUE_MAXSIZE, MAX_BUFFER_DELTAS, MaxEvent} \subseteq Nat \ {0}
  /\ {MaxId, MaxLag, MaxFaults, MaxPeriodic} \subseteq Nat

VARIABLES
  market,       \* which driver this is
  touch,        \* venue: the level its i-th update wrote
  socket,       \* frames the websocket holds for the reader
  queue,        \* self._queue
  conn,         \* "down", "connecting" (subscribed), "up" (self._connected)
  ended,        \* a task of this connection has returned or raised
  epoch,        \* self._epoch, and self._generation: both move in _reset_contexts
  state,        \* ctx.state
  lastSeq,      \* ctx.last_seq
  book,         \* ctx.book: [seq, lvl]
  buffered,     \* ctx.buffered
  snapshot,     \* self._snapshots[symbol]: [id, crossed]
  snapLastId,   \* self._snap_last_id[symbol], NoId when absent
  synced,       \* symbol \in self._synced (futures)
  fetch,        \* the generation of the REST fetch in flight, 0 when none
  applier,      \* [pc, cur, todo]: where the applier is suspended and on what
  periodic,     \* the snapshot the snapshotter is suspended sending, or NoMsg
  produceFailed,\* self._produce_failed.is_set()
  pipe,         \* pipe[t]: messages accepted by producer.send, not acknowledged
  log,          \* log[t]: the topic
  faults, periodics   \* how much of their bounds has been used

venueVars == <<market, touch, socket>>
ctxVars == <<state, lastSeq, book, buffered>>
fetchVars == <<snapshot, snapLastId, synced, fetch>>
producerVars == <<produceFailed, pipe, log>>
boundVars == <<faults, periodics>>
vars == <<market, touch, socket, queue, conn, ended, epoch, state, lastSeq, book, buffered,
          snapshot, snapLastId, synced, fetch, applier, periodic, produceFailed, pipe, log,
          faults, periodics>>

Topics == {"snapshots", "deltas"}

NoId == -1
NoSnapshot  == [id |-> NoId, crossed |-> FALSE]
FetchFailed == [id |-> -2, crossed |-> FALSE]       \* _FETCH_FAILED
NoEvent == [U |-> 0, u |-> 0, crosses |-> FALSE]
NoMsg == [epoch |-> 0, by |-> 0, seq |-> NoId, lvl |-> <<>>]

Empty == [p \in Prices |-> 0]
ClearBook == [seq |-> -1, lvl |-> Empty]             \* OrderBook.clear

----------------------------------------------------------------------------
\* Book content

Writers(p, from, to) == {i \in from..to : i \in DOMAIN touch /\ touch[i] = p}

Latest(S) == CHOOSE i \in S : \A j \in S : j <= i

\* The venue's book once it has made n updates.
VenueBook(n) == [p \in Prices |-> Latest({0} \cup Writers(p, 1, n))]

\* apply_delta: every level the event lists is overwritten.
Written(lvl, ev) ==
  [p \in Prices |-> IF Writers(p, ev.U, ev.u) = {} THEN lvl[p]
                    ELSE Latest(Writers(p, ev.U, ev.u))]

----------------------------------------------------------------------------
Init ==
  /\ market \in Markets /\ touch = <<>> /\ socket = <<>> /\ queue = <<>>
  /\ conn = "down" /\ ended = FALSE /\ epoch = 0
  /\ state = "BOOTSTRAP" /\ lastSeq = -1 /\ book = ClearBook /\ buffered = <<>>
  /\ snapshot = NoSnapshot /\ snapLastId = NoId /\ synced = FALSE /\ fetch = 0
  /\ applier = [pc |-> "idle", cur |-> NoEvent, todo |-> <<>>]
  /\ periodic = NoMsg
  /\ produceFailed = FALSE
  /\ pipe = [t \in Topics |-> <<>>] /\ log = [t \in Topics |-> <<>>]
  /\ faults = 0 /\ periodics = 0

Fault == faults < MaxFaults /\ faults' = faults + 1 /\ UNCHANGED periodics

----------------------------------------------------------------------------
\* The venue

Touched(t) == {t[i] : i \in DOMAIN t}

\* A level not yet touched is as good as another: the least one stands for all.
Candidates(t) ==
  Touched(t) \cup {p \in Prices \ Touched(t) : \A q \in Prices \ Touched(t) : p <= q}

InOrder(t) == \A i \in DOMAIN t : t[i] \in Candidates(SubSeq(t, 1, i - 1))

\* The venue makes some updates and sends one diff-depth event for them to
\* whoever is subscribed.  A fault loses the frame, or has it cross the book.
VenueEvent ==
  /\ \E ps \in UNION {[1..k -> Prices] : k \in 1..MaxEvent} :
       LET n == Len(touch) + Len(ps)
           ev == [U |-> Len(touch) + 1, u |-> n, crosses |-> FALSE]
       IN  /\ n <= MaxId /\ InOrder(touch \o ps)
           /\ touch' = touch \o ps
           /\ \/ UNCHANGED boundVars
                 /\ socket' = IF conn = "down" THEN socket ELSE Append(socket, ev)
              \/ conn # "down" /\ Fault /\ socket' = socket
              \/ conn # "down" /\ Fault
                 /\ socket' = Append(socket, [ev EXCEPT !.crosses = TRUE])
  /\ UNCHANGED <<market, queue, conn, ended, epoch, ctxVars, fetchVars, applier, periodic,
                 producerVars>>

\* The socket closes under us, or the connect itself fails.
SocketClosed ==
  /\ conn # "down" /\ ~ended /\ Fault
  /\ ended' = TRUE
  /\ UNCHANGED <<venueVars, queue, conn, epoch, ctxVars, fetchVars, applier, periodic,
                 producerVars>>

----------------------------------------------------------------------------
\* Connection lifecycle

\* _reset_contexts, of the base and of the drivers.
ResetContexts ==
  /\ epoch' = epoch + 1
  /\ buffered' = <<>> /\ lastSeq' = -1 /\ book' = ClearBook /\ state' = "BOOTSTRAP"
  /\ snapshot' = NoSnapshot /\ snapLastId' = NoId /\ synced' = FALSE /\ fetch' = 0

\* _connect_and_stream up to the subscribe: contexts reset, a fresh queue and a
\* fresh _produce_failed, the stream subscribed.
Connect ==
  /\ conn = "down"
  /\ ResetContexts
  /\ conn' = "connecting" /\ ended' = FALSE
  /\ queue' = <<>> /\ socket' = <<>> /\ produceFailed' = FALSE
  /\ applier' = [pc |-> "idle", cur |-> NoEvent, todo |-> <<>>]
  /\ UNCHANGED <<market, touch, periodic, pipe, log, boundVars>>

\* bootstrap: BUFFERING, the REST fetch started in the background; then the
\* reader and the applier run.
Bootstrap ==
  /\ conn = "connecting" /\ ~ended
  /\ state' = "BUFFERING" /\ fetch' = epoch /\ conn' = "up"
  /\ UNCHANGED <<venueVars, queue, ended, epoch, lastSeq, book, buffered, snapshot,
                 snapLastId, synced, applier, periodic, producerVars, boundVars>>

\* A faulty wait: nobody awaits the delivery failure.
WindDownIgnoringProduce ==
  /\ \/ conn = "connecting" /\ ended
     \/ conn = "up" /\ ended
  /\ conn' = "down" /\ state' = "STALE"
  /\ applier' = [applier EXCEPT !.pc = "dead"]
  /\ UNCHANGED <<venueVars, queue, ended, epoch, lastSeq, book, buffered, fetchVars,
                 periodic, producerVars, boundVars>>

\* asyncio.wait returned: the other tasks are cancelled, a suspended send with
\* them, and every symbol is marked STALE.
WindDown ==
  /\ \/ conn = "connecting" /\ ended
     \/ conn = "up" /\ (ended \/ produceFailed)
  /\ conn' = "down" /\ state' = "STALE"
  /\ applier' = [applier EXCEPT !.pc = "dead"]
  /\ UNCHANGED <<venueVars, queue, ended, epoch, lastSeq, book, buffered, fetchVars,
                 periodic, producerVars, boundVars>>

----------------------------------------------------------------------------
\* The reader and the REST fetch

\* _reader: a frame into the bounded queue, or QueueFull and the end.
Read ==
  /\ conn = "up" /\ ~ended /\ socket # <<>>
  /\ socket' = Tail(socket)
  /\ IF Len(queue) < QUEUE_MAXSIZE
     THEN queue' = Append(queue, Head(socket)) /\ ended' = ended
     ELSE queue' = queue /\ ended' = TRUE
  /\ UNCHANGED <<market, touch, conn, epoch, ctxVars, fetchVars, applier, periodic, producerVars,
                 boundVars>>

Store(value) == snapshot' = IF fetch = epoch THEN value ELSE snapshot

\* _fetch_snapshot: the answer is some book the venue had, not older than MaxLag
\* updates; or an error.
FetchLands ==
  /\ fetch # 0
  /\ fetch' = 0
  /\ \/ \E n \in 0..Len(touch) :
          /\ n + MaxLag >= Len(touch)
          /\ \/ Store([id |-> n, crossed |-> FALSE]) /\ UNCHANGED boundVars
             \/ Store([id |-> n, crossed |-> TRUE]) /\ Fault
     \/ Store(FetchFailed) /\ Fault
  /\ UNCHANGED <<venueVars, queue, conn, ended, epoch, ctxVars, snapLastId, synced,
                 applier, periodic, producerVars>>

----------------------------------------------------------------------------
\* The applier

Running == conn = "up" /\ applier.pc = "idle"

\* A ResyncRequired: the symbol is STALE and the connection is to end.
Resync(b) ==
  /\ state' = "STALE" /\ ended' = TRUE /\ book' = b
  /\ applier' = [applier EXCEPT !.pc = "dead"]
  /\ UNCHANGED <<lastSeq, snapshot, snapLastId, synced>>

Spot == market = "spot"

\* The first event after the snapshot is still to come.
Unsynced == IF Spot THEN lastSeq = snapLastId ELSE ~synced

\* The snapshot lies in the event: what futures ask of the first one.
Straddles(ev) == ev.U <= lastSeq /\ lastSeq <= ev.u

\* Covered by the book already.  Futures ask this of the first event only.
Stale(ev) == IF Spot THEN ev.u <= lastSeq
             ELSE Unsynced /\ (ev.u < lastSeq \/ (Straddles(ev) /\ ev.u = lastSeq))

\* A faulty check: whatever comes first after the snapshot is let through.
GapOnlyAfterFirst(ev) == ~Unsynced /\ ev.U # lastSeq + 1

\* The first event must continue (spot) or straddle (futures) the snapshot, every
\* other must start where the last one ended: U = u + 1, or pu = u.
Gap(ev) == IF Unsynced THEN IF Spot THEN ev.U > lastSeq + 1 ELSE ~Straddles(ev)
           ELSE ev.U # lastSeq + 1

\* _apply_delta_synced up to its await; `rest` is what is left to replay.
ApplySynced(ev, rest) ==
  \/ /\ Stale(ev)
     /\ synced' = (synced \/ (~Spot /\ Straddles(ev)))
     /\ applier' = [applier EXCEPT !.todo = rest]
     /\ UNCHANGED <<state, lastSeq, book, ended, snapshot, snapLastId>>
  \/ ~Stale(ev) /\ Gap(ev) /\ Resync(book)
  \/ ~Stale(ev) /\ ~Gap(ev) /\ ev.crosses /\ Resync(ClearBook)
  \/ /\ ~Stale(ev) /\ ~Gap(ev) /\ ~ev.crosses
     /\ synced' = ~Spot
     /\ book' = [seq |-> ev.u, lvl |-> Written(book.lvl, ev)]
     /\ applier' = [pc |-> "delta", cur |-> ev, todo |-> rest]
     /\ UNCHANGED <<state, lastSeq, ended, snapshot, snapLastId>>

\* process_event of a delta while LIVE.
ApplyLive ==
  /\ Running /\ applier.todo = <<>> /\ queue # <<>> /\ state = "LIVE"
  /\ queue' = Tail(queue)
  /\ ApplySynced(Head(queue), <<>>)
  /\ UNCHANGED <<venueVars, conn, epoch, buffered, fetch, periodic, producerVars, boundVars>>

\* The replay of what was buffered, one delta at a time.
DrainBuffered ==
  /\ Running /\ applier.todo # <<>>
  /\ ApplySynced(Head(applier.todo), Tail(applier.todo))
  /\ UNCHANGED <<venueVars, queue, conn, epoch, buffered, fetch, periodic, producerVars,
                 boundVars>>

Buffering == Running /\ applier.todo = <<>> /\ queue # <<>> /\ state = "BUFFERING"

\* A faulty append: the buffer grows without a limit.
BufferAppendUnbounded ==
  /\ Buffering /\ snapshot = NoSnapshot
  /\ queue' = Tail(queue)
  /\ buffered' = Append(buffered, Head(queue))
  /\ UNCHANGED <<venueVars, conn, ended, epoch, state, lastSeq, book, fetchVars, applier,
                 periodic, producerVars, boundVars>>

\* process_event of a delta while BUFFERING, with no snapshot yet.
BufferAppend ==
  /\ Buffering /\ snapshot = NoSnapshot
  /\ queue' = Tail(queue)
  /\ \/ /\ Len(buffered) < MAX_BUFFER_DELTAS
        /\ buffered' = Append(buffered, Head(queue))
        /\ UNCHANGED <<state, lastSeq, book, applier, ended, snapshot, snapLastId, synced>>
     \/ Len(buffered) >= MAX_BUFFER_DELTAS /\ Resync(book) /\ UNCHANGED buffered
  /\ UNCHANGED <<venueVars, conn, epoch, fetch, periodic, producerVars, boundVars>>

\* The snapshot has landed: apply it, go LIVE, and send it.  One that failed or
\* that is crossed ends the connection.
ApplySnapshot ==
  /\ Buffering /\ snapshot # NoSnapshot
  /\ queue' = Tail(queue)
  /\ \/ snapshot = FetchFailed /\ Resync(book)
     \/ snapshot.crossed /\ Resync(ClearBook)
     \/ /\ snapshot # FetchFailed /\ ~snapshot.crossed
        /\ book' = [seq |-> snapshot.id, lvl |-> VenueBook(snapshot.id)]
        /\ state' = "LIVE" /\ lastSeq' = snapshot.id
        /\ snapLastId' = IF Spot THEN snapshot.id ELSE NoId
        /\ applier' = [pc |-> "snap", cur |-> Head(queue), todo |-> <<>>]
        /\ UNCHANGED <<ended, snapshot, synced>>
  /\ UNCHANGED <<venueVars, conn, epoch, buffered, fetch, periodic, producerVars, boundVars>>

SnapshotMsg(e, b) == [epoch |-> e, by |-> epoch, seq |-> b.seq, lvl |-> b.lvl]
DeltaMsg(ev) == [epoch |-> epoch, by |-> epoch, first |-> ev.U, seq |-> ev.u]

\* The snapshot's send returns: everything buffered, then the delta at hand.
SnapshotSent ==
  /\ conn = "up" /\ applier.pc = "snap"
  /\ pipe' = [pipe EXCEPT !["snapshots"] = Append(@, SnapshotMsg(epoch, book))]
  /\ buffered' = <<>> /\ snapshot' = NoSnapshot
  /\ applier' = [pc |-> "idle", cur |-> NoEvent, todo |-> Append(buffered, applier.cur)]
  /\ UNCHANGED <<venueVars, queue, conn, ended, epoch, state, lastSeq, book, snapLastId,
                 synced, fetch, periodic, produceFailed, log, boundVars>>

\* The delta's send returns; only now does last_seq move.
DeltaSent ==
  /\ conn = "up" /\ applier.pc = "delta"
  /\ pipe' = [pipe EXCEPT !["deltas"] = Append(@, DeltaMsg(applier.cur))]
  /\ lastSeq' = applier.cur.u
  /\ applier' = [applier EXCEPT !.pc = "idle", !.cur = NoEvent]
  /\ UNCHANGED <<venueVars, queue, conn, ended, epoch, state, book, buffered, fetchVars,
                 periodic, produceFailed, log, boundVars>>

----------------------------------------------------------------------------
\* The snapshotter, and the producer's sender

\* _snapshot_loop: a LIVE book is copied, at its own sequence and epoch.
SnapshotTick ==
  /\ conn = "up" /\ state = "LIVE" /\ book.seq >= 0 /\ periodic = NoMsg
  /\ periodics < MaxPeriodic /\ periodics' = periodics + 1
  /\ periodic' = [SnapshotMsg(epoch, book) EXCEPT !.by = 0]
  /\ UNCHANGED <<venueVars, queue, conn, ended, epoch, ctxVars, fetchVars, applier,
                 producerVars, faults>>

\* A faulty send: the sequence is read after the await, the levels before it.
PeriodicSentAtCurrentSeq ==
  /\ periodic # NoMsg
  /\ pipe' = [pipe EXCEPT !["snapshots"] =
       Append(@, [periodic EXCEPT !.by = epoch, !.seq = lastSeq])]
  /\ periodic' = NoMsg
  /\ UNCHANGED <<venueVars, queue, conn, ended, epoch, ctxVars, fetchVars, applier,
                 produceFailed, log, boundVars>>

\* Its send returns, whichever connection is up by then; the delivery future is
\* bound to that connection's _produce_failed.
PeriodicSent ==
  /\ periodic # NoMsg
  /\ pipe' = [pipe EXCEPT !["snapshots"] = Append(@, [periodic EXCEPT !.by = epoch])]
  /\ periodic' = NoMsg
  /\ UNCHANGED <<venueVars, queue, conn, ended, epoch, ctxVars, fetchVars, applier,
                 produceFailed, log, boundVars>>

Deliver(t) ==
  /\ pipe[t] # <<>>
  /\ pipe' = [pipe EXCEPT ![t] = Tail(@)]
  /\ log' = [log EXCEPT ![t] = Append(@, Head(pipe[t]))]
  /\ UNCHANGED <<venueVars, queue, conn, ended, epoch, ctxVars, fetchVars, applier,
                 periodic, produceFailed, boundVars>>

\* A faulty _on_produce_done that only logs.
ProduceFailsSilently(t) ==
  /\ pipe[t] # <<>> /\ Fault
  /\ pipe' = [pipe EXCEPT ![t] = Tail(@)]
  /\ UNCHANGED <<venueVars, queue, conn, ended, epoch, ctxVars, fetchVars, applier,
                 periodic, log, produceFailed>>

\* _on_produce_done with an exception: the event bound at attach time is set,
\* which only the connection that bound it still awaits.  The messages
\* pipelined behind the lost one are delivered all the same.
ProduceFails(t) ==
  /\ pipe[t] # <<>> /\ Fault
  /\ pipe' = [pipe EXCEPT ![t] = Tail(@)]
  /\ produceFailed' = (produceFailed \/ Head(pipe[t]).by = epoch)
  /\ UNCHANGED <<venueVars, queue, conn, ended, epoch, ctxVars, fetchVars, applier,
                 periodic, log>>

----------------------------------------------------------------------------
Apply == ApplyLive \/ DrainBuffered \/ BufferAppend \/ ApplySnapshot
         \/ SnapshotSent \/ DeltaSent

Lifecycle == Connect \/ Bootstrap \/ WindDown

Next ==
  \/ VenueEvent \/ SocketClosed
  \/ Connect \/ Bootstrap \/ WindDown
  \/ Read \/ FetchLands
  \/ ApplyLive \/ DrainBuffered \/ BufferAppend \/ ApplySnapshot
  \/ SnapshotSent \/ DeltaSent
  \/ SnapshotTick \/ PeriodicSent
  \/ \E t \in Topics : Deliver(t) \/ ProduceFails(t)

\* Every task the event loop can run is run; the venue, the faults and the
\* snapshotter's timer may stay away for ever.
Fairness ==
  /\ WF_vars(Lifecycle) /\ WF_vars(Read) /\ WF_vars(FetchLands) /\ WF_vars(Apply)
  /\ WF_vars(PeriodicSent) /\ \A t \in Topics : WF_vars(Deliver(t))

Spec == Init /\ [][Next]_vars /\ Fairness
----------------------------------------------------------------------------
\* Properties

Events == [U : 1..MaxId, u : 1..MaxId, crosses : BOOLEAN]

AllIn(q, S) == \A i \in 1..Len(q) : q[i] \in S

(* The shape of the ingester's state; the two queues never exceed their      *)
(* limits, and a dead applier belongs to a connection that is ending.        *)
TypeOK ==
  /\ AllIn(touch, Prices) /\ Len(touch) <= MaxId
  /\ AllIn(socket, Events) /\ AllIn(queue, Events) /\ AllIn(buffered, Events)
  /\ Len(queue) <= QUEUE_MAXSIZE /\ Len(buffered) <= MAX_BUFFER_DELTAS
  /\ conn \in {"down", "connecting", "up"}
  /\ state \in {"BOOTSTRAP", "BUFFERING", "LIVE", "STALE"}
  /\ lastSeq \in -1..MaxId /\ book.seq \in -1..MaxId /\ book.lvl \in [Prices -> 0..MaxId]
  /\ snapshot.id \in -2..MaxId /\ snapLastId \in -1..MaxId /\ fetch \in 0..epoch
  /\ applier.pc \in {"idle", "snap", "delta", "dead"}
  /\ AllIn(applier.todo, Events)
  /\ applier.pc = "dead" => conn = "down" \/ ended
  /\ applier.pc \in {"snap", "delta"} => state = "LIVE"

(* binance.py steps 1-3, and binance_futures.py's: at every await point, the *)
(* local book is exactly the venue's book as of its sequence; no buffered,   *)
(* replayed, lost or repeated event and no snapshot of an earlier connection *)
(* has slipped into it.                                                      *)
BookIsTheVenues == book.seq >= 0 => book.lvl = VenueBook(book.seq)

(* base_ingester.py, _snapshot_loop: whatever is published as a snapshot, at *)
(* bootstrap or periodically and however long its send was suspended, is the *)
(* venue's book at the sequence it names.                                    *)
SnapshotsAreTheVenues ==
  LET sent == log["snapshots"] \o pipe["snapshots"]
  IN  /\ \A i \in 1..Len(sent) : sent[i].lvl = VenueBook(sent[i].seq)
      /\ periodic # NoMsg => periodic.lvl = VenueBook(periodic.seq)

\* All that was sent to topic t, delivered or on its way, and what of it is of
\* this connection.
Sent(t) == log[t] \o pipe[t]
OfEpoch(t) == {i \in 1..Len(Sent(t)) : Sent(t)[i].epoch = epoch}

(* _emit, "the no-silent-gap invariant": unless _produce_failed is set, and  *)
(* the connection therefore about to end, the messages of this connection    *)
(* rebuild the live book: some snapshot, then every update after it without  *)
(* a hole and with nothing of another connection between, up to the          *)
(* applier's position.                                                       *)
NoSilentGap ==
  LET ds == Sent("deltas")
      ss == Sent("snapshots")
  IN  ~produceFailed =>
        /\ \A i \in OfEpoch("deltas") :
             /\ i < Len(ds) => i + 1 \in OfEpoch("deltas") /\ ds[i + 1].first = ds[i].seq + 1
             /\ i - 1 \notin OfEpoch("deltas") =>
                  \E j \in OfEpoch("snapshots") : /\ ss[j].seq < ds[i].seq
                                                 /\ ds[i].first <= ss[j].seq + 1
        /\ state = "LIVE" /\ applier.pc = "idle" =>
             IF OfEpoch("deltas") = {} THEN \E j \in OfEpoch("snapshots") : ss[j].seq = lastSeq
             ELSE ds[Len(ds)].seq = lastSeq

Settled ==
  /\ conn = "up" /\ ~ended /\ ~produceFailed
  /\ socket = <<>> /\ queue = <<>> /\ applier.pc = "idle" /\ applier.todo = <<>>
  /\ \A t \in Topics : pipe[t] = <<>>
  /\ \/ state = "LIVE"
     \/ state = "BUFFERING" /\ snapshot # NoSnapshot

(* When the venue falls silent and the faults cease, the ingester is up again*)
(* and has worked off everything it was sent: it is LIVE, or has the snapshot*)
(* and waits for the next delta to apply it.  It never stays STALE, blocked  *)
(* on a full queue, or with a delivery failure nobody heeds.                 *)
EventuallySettled == <>[]Settled
=============================================================================
