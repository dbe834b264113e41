----------------------------- MODULE InBandSync -----------------------------
(***************************************************************************)
(* The ingesters of the venues whose snapshot comes over the socket          *)
(* (ingest/coinbase.py, ingest/kraken.py), for one symbol, down to silver's  *)
(* fold of what they publish (BookFold).  Coinbase counts every frame of the *)
(* connection and sends the whole book; kraken counts nothing, sends a       *)
(* window of the book, drops levels out of it silently, and closes each      *)
(* message with a checksum.  Trades, acks, heartbeats and other symbols are  *)
(* frames with no event for the book.                                        *)
(***************************************************************************)
EXTENDS BookFold

CONSTANTS
  Level,        \* the levels a book may have
  Depth,        \* kraken's `depth`
  CRC_LEVELS,   \* how many levels of a side the checksum covers
  MaxFrames,    \* bound: frames the venue sends
  MaxFaults,    \* bound: frames lost, repeated or garbled, connections lost
  MaxPeriodic   \* bound: periodic snapshots

ASSUME InBandAssumption ==
  /\ IsFiniteSet(Level) /\ \A l \in Level : l.side \in {"bid", "ask"} /\ l.px \in Nat
  /\ {Depth, CRC_LEVELS} \subseteq Nat \ {0} /\ Depth <= CRC_LEVELS
  /\ {MaxFrames, MaxFaults, MaxPeriodic} \subseteq Nat

VARIABLES
  driver,     \* "coinbase" or "kraken"
  venue,      \* the venue's book
  net,        \* frames of this connection that the applier has not taken
  sent,       \* sequence_num of the venue's last frame of this connection
  up,         \* connected and streaming
  epoch,      \* _epoch
  expected,   \* _expected_seq; -1 is None
  state,      \* ctx.state
  book,       \* ctx.book
  periodic,   \* a periodic snapshot built but not yet in the log, 0 or 1 of them
  log,        \* the symbol's book records in the order they are appended
  midnight,   \* how many of them are of the day before
  used,       \* how much of each bound is used
  truth,      \* history: the venue's (window of the) book after the last frame taken
  blind,      \* history: an undecodable frame was skipped on this connection
  unanswered, \* history: the snapshot of this connection did not get through
  late        \* history: a periodic snapshot went into a later epoch's log

vars == <<driver, venue, net, sent, up, epoch, expected, state, book, periodic, log,
          midnight, used, truth, blind, unanswered, late>>
venueVars == <<driver, venue, net, sent>>
history == <<midnight, truth, blind, unanswered, late>>

Spend(bound, max) == used[bound] < max /\ used' = [used EXCEPT ![bound] = @ + 1]
Fault == Spend("faults", MaxFaults)

\* What the venue shows of its book.
Shown(levels) == IF driver = "kraken" THEN Top(levels, Depth) ELSE levels

Init ==
  /\ driver \in {"coinbase", "kraken"}
  /\ venue \in {ls \in SUBSET Level : ~Crossed(ls)}
  /\ net = <<>> /\ sent = 0 /\ up = FALSE /\ epoch = 0 /\ expected = -1
  /\ state = "BOOTSTRAP" /\ book = Cleared /\ periodic = <<>> /\ log = <<>>
  /\ midnight = 0 /\ used = [frames |-> 0, faults |-> 0, periodic |-> 0]
  /\ truth = {} /\ blind = FALSE /\ unanswered = FALSE /\ late = FALSE

----------------------------------------------------------------------------
\* The venue

SnapshotEvent == [kind |-> "snap", levels |-> Shown(venue), changes |-> <<>>,
                  shown |-> Shown(venue)]

\* An update carries what changed of what the venue shows, except, on kraken, a
\* level that another one has pushed out of the window.
DeltaEvent(after) ==
  LET gone == (Shown(venue) \ Shown(after)) \ (IF driver = "kraken" THEN after ELSE {})
  IN  [kind |-> "delta", levels |-> {}, shown |-> Shown(after),
       changes |-> SetToSeq(Changes(gone, FALSE) \cup Changes(Shown(after) \ Shown(venue), TRUE))]

Put(events) ==
  /\ net' = Append(net, [seq |-> sent + 1, events |-> events, fault |-> "none"])
  /\ sent' = sent + 1

\* A level comes or goes: in a frame of its own, or with the events of the last
\* frame.
VenueMoves ==
  /\ Spend("frames", MaxFrames)
  /\ \E l \in Level :
       LET after == IF l \in venue THEN venue \ {l} ELSE venue \cup {l}
           event == DeltaEvent(after)
       IN  /\ ~Crossed(after) /\ venue' = after
           /\ IF ~up \/ event.changes = <<>> THEN UNCHANGED <<net, sent>>
              ELSE \/ Put(<<event>>)
                   \/ /\ net # <<>> /\ Last(net).seq = sent
                      /\ Last(net).events # <<>> /\ Last(net).fault = "none"
                      /\ net' = [net EXCEPT ![Len(net)].events = Append(@, event)]
                      /\ UNCHANGED sent
  /\ UNCHANGED <<driver, up, epoch, expected, state, book, periodic, log, history>>

\* A frame with nothing for the book.
OtherFrame ==
  /\ up /\ Spend("frames", MaxFrames) /\ Put(<<>>)
  /\ UNCHANGED <<driver, venue, up, epoch, expected, state, book, periodic, log, history>>

\* A frame is lost, comes again after the others, or does not decode.
Unreliable ==
  /\ net # <<>> /\ Fault
  /\ \E n \in DOMAIN net :
       \/ /\ \/ net' = RemoveAt(net, n)
             \/ net' = [net EXCEPT ![n].fault = "garbled"]
          /\ unanswered' = (unanswered \/ \E m \in DOMAIN net[n].events :
                                             net[n].events[m].kind = "snap")
       \/ /\ driver = "coinbase"
          /\ net' = Append(net, [net[n] EXCEPT !.fault = "again"])
          /\ UNCHANGED unanswered
  /\ UNCHANGED <<driver, venue, sent, up, epoch, expected, state, book, periodic, log,
                 midnight, truth, blind, late>>

----------------------------------------------------------------------------
\* The connection (base_ingester.py)

\* A faulty reset: the count goes on.
KeptCount == expected

\* coinbase.py _reset_contexts.
FreshCount == -1

\* _reset_contexts, the connect and the subscriptions, which the snapshot answers.
Connect ==
  /\ ~up /\ up' = TRUE /\ epoch' = epoch + 1
  /\ expected' = FreshCount /\ state' = "BOOTSTRAP" /\ book' = Cleared
  /\ sent' = 1 /\ net' = <<[seq |-> 1, events |-> <<SnapshotEvent>>, fault |-> "none"]>>
  /\ truth' = {} /\ blind' = FALSE /\ unanswered' = FALSE
  /\ UNCHANGED <<driver, venue, periodic, log, midnight, used, late>>

\* Wind-down and _mark_all_stale.
Drop ==
  /\ up' = FALSE /\ net' = <<>> /\ state' = "STALE"
  /\ UNCHANGED <<driver, venue, sent, epoch, periodic, midnight, late>>

Disconnect ==
  up /\ Fault /\ Drop /\ UNCHANGED <<book, log, expected, truth, blind, unanswered>>

----------------------------------------------------------------------------
\* Handlers.  An outcome is [book, state, out, raised]: `out` the records
\* emitted, `raised` that the connection must go.

Record(kind, me, event, changes) ==
  [kind |-> kind, epoch |-> epoch, sequence |-> me.book.sequence, offset |-> 0,
   levels |-> event.levels, changes |-> changes, book |-> me.book.levels]

Resync(me) == [me EXCEPT !.raised = TRUE, !.state = "STALE"]

\* _applier on a BookInvariantError.
Broken(me) == [me EXCEPT !.raised = TRUE, !.state = "STALE", !.book = Cleared]

Emitting(me, kind, event, changes) ==
  [me EXCEPT !.state = "LIVE", !.out = Append(@, Record(kind, me, event, changes))]

\* coinbase.py process_event, for a frame numbered seq.
CoinbaseEvent(me, event, seq) ==
  LET next == IF event.kind = "snap" THEN Snapped(me.book, seq, event.levels)
              ELSE Moved(me.book, seq, event.changes)
  IN  IF event.kind = "delta" /\ me.state # "LIVE" THEN Resync(me)
      ELSE IF next.raised # "none" THEN Broken(me)
      ELSE Emitting([me EXCEPT !.book = next], event.kind, event, event.changes)

\* A faulty relay: what falls out of the window stays in downstream books.
RelayedUpdateOnly(event, evicted) == event.changes

\* _deletes: what falls out of the window is deleted downstream.
Relayed(event, evicted) == event.changes \o SetToSeq(Changes(evicted, FALSE))

\* _verify_checksum, against what the venue shows.
Verified(own, event) == Checksum(own.levels, CRC_LEVELS) = Checksum(event.shown, CRC_LEVELS)

\* kraken.py process_event: ctx.last_seq is the book's sequence, which an
\* update raises by one.
KrakenEvent(me, event) ==
  LET next == IF event.kind = "snap" THEN Snapped(me.book, 0, event.levels)
              ELSE Moved(me.book, me.book.sequence + 1, event.changes)
      evicted == Evicted(next.levels, Depth)
      trimmed == [next EXCEPT !.levels = @ \ evicted]
  IN  IF event.kind = "delta" /\ me.state # "LIVE" THEN Resync(me)
      ELSE IF next.raised # "none" THEN Broken(me)
      ELSE IF ~Verified(trimmed, event) THEN Resync([me EXCEPT !.book = trimmed])
      ELSE Emitting([me EXCEPT !.book = trimmed], event.kind, event, Relayed(event, evicted))

Handled(me, event, seq) ==
  IF me.raised THEN me
  ELSE IF driver = "coinbase" THEN CoinbaseEvent(me, event, seq) ELSE KrakenEvent(me, event)

\* The events of a frame, in order.
Handling == INSTANCE SeqLoop WITH Body <- Handled

\* A faulty check: only a repeated frame is noticed.
InSequenceOrAhead(seq) == IF expected = -1 \/ seq >= expected THEN "next" ELSE "old"

\* coinbase.py parse_message: the connection-wide counter.
Numbered(seq) ==
  IF expected = -1 \/ seq = expected THEN "next" ELSE IF seq < expected THEN "old" ELSE "gap"

\* parse_message of either venue: kraken's frames carry no number to check.
Parsed(frame) == IF driver = "coinbase" THEN Numbered(frame.seq) ELSE "next"

Take(me) ==
  /\ log' = log \o [n \in DOMAIN me.out |-> [me.out[n] EXCEPT !.offset = Len(log) + n]]
  /\ book' = me.book
  /\ IF me.raised THEN Drop /\ UNCHANGED used
     ELSE /\ state' = me.state /\ net' = Tail(net)
          /\ UNCHANGED <<driver, venue, sent, up, epoch, periodic, used, midnight, late>>

\* One turn of _applier: the head frame parsed, its events handled in order up
\* to the first that raises.  A frame that does not decode is logged and
\* skipped, after coinbase has counted it.
Receive ==
  /\ up /\ net # <<>> /\ UNCHANGED unanswered
  /\ LET frame == Head(net)
         what == Parsed(frame)
         idle == [book |-> book, state |-> state, out |-> <<>>, raised |-> FALSE]
     IN  IF what # "next" \/ frame.fault = "garbled"
         THEN /\ Take([idle EXCEPT !.raised = what = "gap"])
              /\ expected' = IF what = "next" /\ driver = "coinbase" THEN frame.seq + 1
                             ELSE expected
              /\ truth' = truth /\ blind' = (blind \/ what = "next")
         ELSE LET me == Handling!Loop(idle, frame.events, frame.seq)
              IN  /\ Take(me)
                  /\ IF me.raised THEN UNCHANGED <<expected, truth, blind>>
                     ELSE /\ expected' = IF driver = "coinbase" THEN frame.seq + 1 ELSE expected
                          /\ truth' = IF frame.events = <<>> THEN truth
                                      ELSE Last(frame.events).shown
                          /\ UNCHANGED blind

----------------------------------------------------------------------------
\* _snapshot_loop

\* _emit_book_snapshot up to the send ...
BuildPeriodic ==
  /\ up /\ state = "LIVE" /\ book.sequence >= 0 /\ periodic = <<>>
  /\ Spend("periodic", MaxPeriodic)
  /\ periodic' = <<[kind |-> "snap", epoch |-> epoch, sequence |-> book.sequence, offset |-> 0,
                    levels |-> book.levels, changes |-> <<>>, book |-> book.levels]>>
  /\ UNCHANGED <<venueVars, up, epoch, expected, state, book, log, history>>

\* ... which may have had to wait for room in the producer.
SendPeriodic ==
  /\ periodic # <<>> /\ periodic' = <<>>
  /\ log' = Append(log, [periodic[1] EXCEPT !.offset = Len(log) + 1])
  /\ late' = (late \/ \E n \in DOMAIN log : log[n].epoch > periodic[1].epoch)
  /\ UNCHANGED <<venueVars, up, epoch, expected, state, book, midnight, used, truth, blind,
                 unanswered>>

\* The records so far are of the day before (bronze's date partitions).
Midnight ==
  /\ midnight = 0 /\ log # <<>> /\ midnight' = Len(log)
  /\ UNCHANGED <<venueVars, up, epoch, expected, state, book, periodic, log, used, truth,
                 blind, unanswered, late>>

Next ==
  \/ VenueMoves \/ OtherFrame \/ Unreliable
  \/ Connect \/ Disconnect \/ Receive
  \/ BuildPeriodic \/ SendPeriodic \/ Midnight

\* The ingester's tasks are scheduled, and a venue that is reachable answers.
\* The middle conjunct is WF_vars(Receive), with ENABLED written out.
Spec ==
  /\ Init /\ [][Next]_vars
  /\ WF_vars(Connect) /\ WF_vars(SendPeriodic)
  /\ <>[](up /\ net # <<>>) => []<><<Receive>>_vars

----------------------------------------------------------------------------
\* Properties

Day == SubSeq(log, midnight + 1, Len(log))
Contiguous == driver = "kraken"

\* A periodic snapshot was built before midnight and sent after it, and a delta
\* got in between.
SplitByMidnight ==
  \E m \in 1..midnight, n \in (midnight + 1)..Len(log) :
    log[m].epoch = log[n].epoch /\ log[n].sequence < log[m].sequence

(* Types; the book of a LIVE symbol is never crossed, nor deeper than the     *)
(* window on kraken, and its sequence is one the log has.                    *)
TypeOK ==
  /\ venue \subseteq Level /\ up \in BOOLEAN /\ state \in {"BOOTSTRAP", "LIVE", "STALE"}
  /\ expected \in -1..(MaxFrames + 2) /\ Len(periodic) <= 1
  /\ state = "LIVE" =>
       /\ up /\ ~Crossed(book.levels) /\ book.raised = "none"
       /\ driver = "kraken" => book.levels = Top(book.levels, Depth)
       /\ \E n \in DOMAIN log : log[n].epoch = epoch /\ log[n].sequence = book.sequence

(* coinbase.py's sequence_num, kraken.py's checksum: a LIVE book is what the *)
(* venue showed with the last frame taken, whatever was lost or repeated.    *)
(* Only a coinbase frame that does not decode can make it wrong unnoticed:   *)
(* it is counted first and skipped then.                                     *)
BookIsTheVenues == state = "LIVE" /\ ~(blind /\ driver = "coinbase") => book.levels = truth

(* dq.py's fold, from a day's records alone: from the first snapshot of an   *)
(* epoch on every row has the ingester's own book, evictions and borrowed    *)
(* sequences included, and at no time does it report a gap or an invariant.  *)
(* Before it, after midnight, a book is what the deltas since have built.    *)
(* Only a snapshot that midnight has cut off from its place breaks this.     *)
SilverRebuildsTheBook ==
  LET rows == StreamingFold(Day, Contiguous).rows
      Warm(n) == \E m \in 1..n : rows[m].of.kind = "snap" /\ rows[m].of.epoch = rows[n].of.epoch
  IN  \/ SplitByMidnight
      \/ \A n \in DOMAIN rows :
           /\ rows[n].seq_gap = 0 /\ rows[n].invariant = "none"
           /\ IF Warm(n) THEN rows[n].levels = rows[n].of.book
              ELSE rows[n].levels \subseteq rows[n].of.book

(* dq.py:294: the fold refuses a day only if a periodic snapshot of an old   *)
(* connection got into the log behind a new one's records, and the in-memory *)
(* path, which sorts first, judges every log as the streaming one does.      *)
FoldsAgree ==
  LET streaming == StreamingFold(Day, Contiguous)
      memory == InMemoryFold(Day, Contiguous)
  IN  /\ streaming.refused => late
      /\ memory.refused = streaming.refused
      /\ ~streaming.refused => memory.rows = streaming.rows

(* A symbol comes LIVE again after any finite number of lost frames and      *)
(* connections.  A snapshot that is lost or does not decode is missed only   *)
(* with the first update of the symbol; until then nothing stirs.            *)
EventuallyLive == []<>(state = "LIVE" \/ unanswered)
=============================================================================
