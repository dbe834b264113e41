-------------------------- MODULE InBandSyncProofs --------------------------
(***************************************************************************)
(* The coinbase and kraken ingesters for any set of levels, any window and   *)
(* checksum depth, and any number of frames, faults and snapshots: a LIVE    *)
(* book is the one the venue showed with the last frame taken, and silver's  *)
(* fold of what was published has the ingester's books.                      *)
(*                                                                           *)
(* The book alone is not inductive.  Coinbase's handler trusts a delta it    *)
(* cannot check, so the frames in flight must lead from one book of the      *)
(* venue to the next (Counts, by a history h of its books), and the number   *)
(* expected must say which of them is the local one.  Kraken's trusts its    *)
(* checksum, so what the frames show must be windows (Windows).  The fold    *)
(* takes the records in another order than the log has them, so each must    *)
(* name its predecessor whatever lies between (Told, by Story).  And the log *)
(* must be in the order the fold asks for, topic by topic, unless a snapshot *)
(* came late (Filed).                                                        *)
(***************************************************************************)
EXTENDS InBandSync, SequenceTheorems, FiniteSetTheorems, TLAPS

Change == [level : Level, on : BOOLEAN]
Raises == {"none", "snapshot_crossed", "non_monotonic_seq", "crossed_after_delta"}
Books == [levels : SUBSET Level, sequence : Int, raised : Raises]
Event == [kind : {"snap", "delta"}, levels : SUBSET Level, changes : Seq(Change),
          shown : SUBSET Level]
Frame == [seq : Nat, events : Seq(Event), fault : {"none", "again", "garbled"}]
Entry == [kind : {"snap", "delta"}, epoch : Nat, sequence : Int, offset : Nat,
          levels : SUBSET Level, changes : Seq(Change), book : SUBSET Level]
States == {"BOOTSTRAP", "LIVE", "STALE"}
Outcome == [book : Books, state : States, out : Seq(Entry), raised : BOOLEAN]

----------------------------------------------------------------------------
\* The invariant

Types ==
  /\ driver \in {"coinbase", "kraken"} /\ venue \in SUBSET Level /\ net \in Seq(Frame)
  /\ sent \in Nat /\ up \in BOOLEAN /\ epoch \in Nat /\ expected \in Int
  /\ state \in States /\ book \in Books /\ periodic \in Seq(Entry) /\ Len(periodic) <= 1
  /\ log \in Seq(Entry) /\ midnight \in Nat
  /\ used \in [frames : Nat, faults : Nat, periodic : Nat]
  /\ truth \in SUBSET Level /\ {blind, unanswered, late} \subseteq BOOLEAN

\* The venue's numbers, and what is expected of them.
NumberedTo(q, top) == \A n \in 1..Len(q) : q[n].seq \in 1..top
Numbers ==
  /\ used.frames <= MaxFrames /\ sent <= used.frames + 1
  /\ NumberedTo(net, sent)
  /\ expected = -1 \/ expected \in 2..(sent + 1)

\* A book that may be relayed, ...
Good(b) ==
  /\ ~Crossed(b.levels) /\ b.raised = "none"
  /\ driver = "kraken" => b.levels = Top(b.levels, Depth)

\* ... and that was.
Relays(records, b, e) == \E n \in DOMAIN records :
  records[n].epoch = e /\ records[n].sequence = b.sequence

Live ==
  /\ ~up => net = <<>> /\ state # "LIVE"
  /\ state = "LIVE" => Good(book) /\ Relays(log, book, epoch)

\* Kraken: what a frame shows is a window, and the book what the last one showed.
Shows(events) == driver = "kraken" =>
  \A m \in 1..Len(events) : events[m].shown = Top(events[m].shown, Depth)
AllShow(q) == \A n \in 1..Len(q) : Shows(q[n].events)
Windows == AllShow(net) /\ (driver = "kraken" /\ state = "LIVE" => book.levels = truth)

\* Coinbase: h[k] is the venue's book after its k-th frame, and each frame leads
\* from the book before it to its own.  The handler takes no frame of several
\* events.
Leads(frame, h) ==
  /\ frame.events = <<>> => h[frame.seq] = h[frame.seq - 1]
  /\ Len(frame.events) = 1 =>
       LET event == frame.events[1]
       IN  /\ event.shown = h[frame.seq]
           /\ event.kind = "snap" => event.levels = h[frame.seq]
           /\ event.kind = "delta" => Changed(h[frame.seq - 1], event.changes) = h[frame.seq]
  /\ \A m \in 2..Len(frame.events) : frame.events[m].kind = "delta"

AllLead(q, h) == \A n \in 1..Len(q) : Leads(q[n], h)

\* A frame that may still grow is the first of its number and is not taken yet.
Ordered(q, least) ==
  \A n \in 1..Len(q) : q[n].fault = "none" =>
    least <= q[n].seq /\ \A m \in 1..(n - 1) : q[m].seq < q[n].seq

Follows(h) ==
  /\ h \in [0..sent -> SUBSET Level] /\ h[sent] = venue /\ AllLead(net, h)
  /\ state = "LIVE" /\ ~blind =>
       expected # -1 /\ book.levels = h[expected - 1] /\ truth = h[expected - 1]

Counts == driver = "coinbase" /\ up => Ordered(net, expected) /\ \E h : Follows(h)

Inv == Types /\ Numbers /\ Live /\ Windows /\ Counts

----------------------------------------------------------------------------
(* Any book is finite.                                                       *)
LEMMA LevelIsFinite == IsFiniteSet(Level) /\ \A L \in SUBSET Level : IsFiniteSet(L)
BY InBandAssumption, FS_Subset

(* SetToSeq lists the members of a finite set.                               *)
LEMMA ListOfSet ==
  ASSUME NEW S, IsFiniteSet(S)
  PROVE  /\ SetToSeq(S) \in Seq(S) /\ Len(SetToSeq(S)) = Cardinality(S)
         /\ Cardinality(S) \in Nat
<1>1. Cardinality(S) \in Nat /\ ExistsBijection(1..Cardinality(S), S)
  BY FS_CardinalityType
<1>2. \E f : f \in [1..Cardinality(S) -> S] /\ IsInjective(f)
  BY <1>1 DEF ExistsBijection, Bijection, Injection
<1>3. SetToSeq(S) \in [1..Cardinality(S) -> S]
  BY <1>2, Zenon DEF SetToSeq
<1>. QED  BY <1>1, <1>3

(* The list of a single change.                                              *)
LEMMA ListOfOne ==
  ASSUME NEW x
  PROVE  Len(SetToSeq({x})) = 1 /\ SetToSeq({x})[1] = x
<1>1. IsFiniteSet({x}) /\ Cardinality({x}) = 1
  BY FS_Singleton
<1>2. SetToSeq({x}) \in Seq({x}) /\ Len(SetToSeq({x})) = 1
  BY <1>1, ListOfSet
<1>. QED  BY <1>2

(* The changes an update lists.                                              *)
LEMMA ChangesOf ==
  ASSUME NEW L \in SUBSET Level, NEW on \in BOOLEAN
  PROVE  Changes(L, on) \subseteq Change /\ IsFiniteSet(Changes(L, on))
<1>. DEFINE f == [l \in L |-> [level |-> l, on |-> on]]
<1>1. Changes(L, on) \subseteq Change
  <2>. SUFFICES ASSUME NEW c \in Changes(L, on) PROVE c \in Change
    OBVIOUS
  <2>1. PICK l \in L : c = [level |-> l, on |-> on]
    BY DEF Changes
  <2>. QED  BY <2>1 DEF Change
<1>2. f \in Surjection(L, Changes(L, on))
  BY DEF Changes, Surjection
<1>3. IsFiniteSet(L)
  BY LevelIsFinite
<1>. HIDE DEF f
<1>4. IsFiniteSet(Changes(L, on))
  BY <1>2, <1>3, FS_Surjection
<1>. QED  BY <1>1, <1>4

(* The changes of a delta, as DeltaEvent and _deletes list them.             *)
LEMMA ChangesAre ==
  ASSUME NEW gone \in SUBSET Level, NEW new \in SUBSET Level
  PROVE  SetToSeq(Changes(gone, FALSE) \cup Changes(new, TRUE)) \in Seq(Change)
<1>. DEFINE S == Changes(gone, FALSE) \cup Changes(new, TRUE)
<1>1. S \subseteq Change /\ IsFiniteSet(S)
  <2>1. Changes(gone, FALSE) \subseteq Change /\ IsFiniteSet(Changes(gone, FALSE))
    BY ChangesOf
  <2>2. Changes(new, TRUE) \subseteq Change /\ IsFiniteSet(Changes(new, TRUE))
    BY ChangesOf
  <2>. QED  BY <2>1, <2>2, FS_Union
<1>. HIDE DEF S
<1>2. SetToSeq(S) \in Seq(S)
  BY <1>1, ListOfSet
<1>3. SetToSeq(S) \in Seq(Change)
  BY <1>1, <1>2
<1>. QED  BY <1>3 DEF S

(* A loop that starts in a set and never leaves it ends in it.               *)
LEMMA ChangedIs ==
  ASSUME NEW levels \in SUBSET Level, NEW changes \in Seq(Change)
  PROVE  Changed(levels, changes) \in SUBSET Level
<1>1. PICK st : /\ st[0] = levels /\ st[Len(changes)] = Changed(levels, changes)
                /\ \A n \in 1..Len(changes) : st[n] = ChangeOne(st[n - 1], changes[n], {})
  BY Changing!LoopStates DEF Changed
<1>. DEFINE Ks == {n \in 0..Len(changes) : st[n] \in SUBSET Level}
<1>2. Len(changes) \in Nat /\ 0 \in Ks
  BY <1>1
<1>3. ASSUME NEW n \in 1..Len(changes), n - 1 \in Ks PROVE n \in Ks
  <2>1. changes[n] \in Change /\ st[n - 1] \in SUBSET Level
    BY <1>3
  <2>2. st[n] \in SUBSET Level
    BY <1>1, <2>1 DEF ChangeOne, Change
  <2>. QED  BY <2>2
<1>. HIDE DEF Ks
<1>4. \A n \in 0..Len(changes) : n \in Ks
  BY <1>2, <1>3, Changing!UpTo
<1>. QED  BY <1>1, <1>2, <1>4 DEF Ks

(* One change, as on coinbase.                                               *)
LEMMA ChangedByOne ==
  ASSUME NEW levels, NEW changes, Len(changes) = 1
  PROVE  Changed(levels, changes) = ChangeOne(levels, changes[1], {})
<1>1. PICK st : /\ st[0] = levels /\ st[Len(changes)] = Changed(levels, changes)
                /\ \A n \in 1..Len(changes) : st[n] = ChangeOne(st[n - 1], changes[n], {})
  BY Changing!LoopStates DEF Changed
<1>2. st[1] = ChangeOne(st[0], changes[1], {})
  BY <1>1
<1>. QED  BY <1>1, <1>2

(* The window of a window.                                                   *)
LEMMA TopOfTop ==
  ASSUME NEW L \in SUBSET Level, NEW d \in Nat, NEW c \in Nat, d <= c
  PROVE  Top(Top(L, d), c) = Top(L, d)
<1>. DEFINE W == Top(L, d)
<1>1. W \subseteq L
  BY DEF Top
<1>2. ASSUME NEW l \in W PROVE Cardinality({m \in W : Better(m, l)}) < c
  <2>. DEFINE A == {m \in W : Better(m, l)}  B == {m \in L : Better(m, l)}
  <2>1. IsFiniteSet(B) /\ A \subseteq B
    BY <1>1, LevelIsFinite, FS_Subset
  <2>2. Cardinality(B) < d
    BY <1>2 DEF Top
  <2>3. Cardinality(A) <= Cardinality(B) /\ Cardinality(A) \in Nat /\ Cardinality(B) \in Nat
    BY <2>1, FS_Subset, FS_CardinalityType
  <2>. QED  BY <2>2, <2>3
<1>. HIDE DEF W
<1>3. Top(W, c) = W
  BY <1>2 DEF Top
<1>. QED  BY <1>3 DEF W

----------------------------------------------------------------------------
\* One event

(* trim leaves the window.                                                   *)
LEMMA WindowIs ==
  ASSUME NEW L \in SUBSET Level, NEW d \in Nat
  PROVE  /\ Top(L, d) \in SUBSET L /\ Evicted(L, d) \in SUBSET L
         /\ L \ Evicted(L, d) = Top(L, d)
BY DEF Top, Evicted

(* Taking levels away crosses no book.                                       *)
LEMMA PartIsNotCrossed ==
  ASSUME NEW L, NEW M, M \subseteq L, ~Crossed(L)
  PROVE  ~Crossed(M)
BY DEF Crossed

(* apply_snapshot raises, or leaves the levels it was given.                 *)
LEMMA SnappedIs ==
  ASSUME NEW b \in Books, NEW sequence \in Int, NEW L \in SUBSET Level
  PROVE  LET next == Snapped(b, sequence, L)
         IN  /\ next \in Books
             /\ next.raised = "none" =>
                  ~Crossed(next.levels) /\ next.sequence = sequence /\ next.levels = L
<1>1. CASE Crossed(L)
  <2>1. Snapped(b, sequence, L) = [b EXCEPT !.raised = "snapshot_crossed"]
    BY <1>1 DEF Snapped
  <2>. QED  BY <2>1 DEF Books, Raises
<1>2. CASE ~Crossed(L)
  <2>1. Snapped(b, sequence, L) = [levels |-> L, sequence |-> sequence, raised |-> "none"]
    BY <1>2 DEF Snapped
  <2>. QED  BY <1>2, <2>1 DEF Books, Raises
<1>. QED  BY <1>1, <1>2

(* apply_delta raises, or leaves the changed levels at a later sequence.     *)
LEMMA MovedIs ==
  ASSUME NEW b \in Books, NEW sequence \in Int, NEW changes \in Seq(Change)
  PROVE  LET next == Moved(b, sequence, changes)
         IN  /\ next \in Books
             /\ next.raised = "none" =>
                  /\ ~Crossed(next.levels) /\ next.sequence = sequence
                  /\ next.levels = Changed(b.levels, changes) /\ b.sequence < sequence
<1>. DEFINE after == Changed(b.levels, changes)
<1>1. after \in SUBSET Level
  BY ChangedIs DEF Books
<1>2. CASE sequence <= b.sequence
  <2>1. Moved(b, sequence, changes) = [b EXCEPT !.raised = "non_monotonic_seq"]
    BY <1>2 DEF Moved
  <2>. QED  BY <2>1 DEF Books, Raises
<1>3. CASE ~(sequence <= b.sequence) /\ Crossed(after)
  <2>1. Moved(b, sequence, changes) = [b EXCEPT !.levels = after, !.raised = "crossed_after_delta"]
    BY <1>3 DEF Moved
  <2>. QED  BY <1>1, <2>1 DEF Books, Raises
<1>4. CASE ~(sequence <= b.sequence) /\ ~Crossed(after)
  <2>1. Moved(b, sequence, changes) = [levels |-> after, sequence |-> sequence, raised |-> "none"]
    BY <1>4 DEF Moved
  <2>2. b.sequence < sequence
    BY <1>4 DEF Books
  <2>. QED  BY <1>1, <1>4, <2>1, <2>2 DEF Books, Raises
<1>. QED  BY <1>2, <1>3, <1>4

\* What an outcome holds when the events so far are handled.
Fits(me) ==
  /\ me \in Outcome
  /\ me.state = "LIVE" =>
       /\ Good(me.book)
       /\ IF me.out = <<>> THEN me.book = book /\ state = "LIVE"
          ELSE /\ me.out[Len(me.out)].epoch = epoch
               /\ me.out[Len(me.out)].sequence = me.book.sequence

(* Giving the connection up.                                                 *)
LEMMA ResyncFits ==
  ASSUME NEW me \in Outcome
  PROVE  Fits(Resync(me)) /\ Resync(me).raised
BY DEF Resync, Outcome, States, Fits

(* Giving it up with an empty book.                                          *)
LEMMA BrokenFits ==
  ASSUME NEW me \in Outcome
  PROVE  Fits(Broken(me)) /\ Broken(me).raised
<1>1. Cleared \in Books
  BY DEF Cleared, Books, Raises
<1>2. Broken(me) \in Outcome
  BY <1>1 DEF Broken, Outcome, States
<1>. QED  BY <1>2 DEF Broken, Outcome, Fits

(* A relayed record has the epoch and the sequence of the book.              *)
LEMMA EmittingFits ==
  ASSUME epoch \in Nat, NEW me \in Outcome, ~me.raised, Good(me.book), NEW event \in Event,
         NEW changes \in Seq(Change)
  PROVE  LET now == Emitting(me, event.kind, event, changes)
         IN  /\ Fits(now) /\ ~now.raised /\ now.state = "LIVE" /\ now.book = me.book
<1>. DEFINE r == Record(event.kind, me, event, changes)
            now == Emitting(me, event.kind, event, changes)
<1>1. r \in Entry /\ r.epoch = epoch /\ r.sequence = me.book.sequence
  <2>1. /\ event.kind \in {"snap", "delta"} /\ event.levels \in SUBSET Level
        /\ me.book.sequence \in Int /\ me.book.levels \in SUBSET Level
    BY DEF Event, Outcome, Books
  <2>2. r = [kind |-> event.kind, epoch |-> epoch, sequence |-> me.book.sequence, offset |-> 0,
             levels |-> event.levels, changes |-> changes, book |-> me.book.levels]
    BY DEF Record
  <2>. QED  BY <2>1, <2>2 DEF Entry
<1>2. now = [me EXCEPT !.state = "LIVE", !.out = Append(@, r)]
  BY DEF Emitting
<1>. HIDE DEF r, now
<1>3. me.out \in Seq(Entry)
  BY DEF Outcome
<1>4. /\ Append(me.out, r) \in Seq(Entry) /\ Append(me.out, r) # <<>>
      /\ Append(me.out, r)[Len(Append(me.out, r))] = r
  BY <1>1, <1>3
<1>5. /\ now \in Outcome /\ now.state = "LIVE" /\ now.out = Append(me.out, r)
      /\ now.book = me.book /\ now.raised = me.raised
  BY <1>2, <1>4 DEF Outcome, States
<1>6. Fits(now)
  BY <1>1, <1>4, <1>5 DEF Fits
<1>7. Fits(now) /\ ~now.raised /\ now.state = "LIVE" /\ now.book = me.book
  BY <1>5, <1>6
<1>. QED  BY <1>7 DEF now

(* process_event of coinbase: it raises, or the snapshot's levels or the     *)
(* changed ones are the book, whose sequence is the frame's.                 *)
LEMMA CoinbaseFits ==
  ASSUME epoch \in Nat, driver = "coinbase", NEW me, Fits(me), ~me.raised, NEW event \in Event,
         NEW seq \in Nat
  PROVE  LET now == CoinbaseEvent(me, event, seq)
         IN  /\ Fits(now)
             /\ ~now.raised =>
                  /\ now.state = "LIVE" /\ now.book.sequence = seq
                  /\ event.kind = "snap" => now.book.levels = event.levels
                  /\ event.kind = "delta" =>
                       /\ me.state = "LIVE" /\ me.book.sequence < seq
                       /\ now.book.levels = Changed(me.book.levels, event.changes)
<1>. DEFINE next == IF event.kind = "snap" THEN Snapped(me.book, seq, event.levels)
                    ELSE Moved(me.book, seq, event.changes)
            at == [me EXCEPT !.book = next]
            now == CoinbaseEvent(me, event, seq)
<1>1. /\ me \in Outcome /\ me.book \in Books /\ event.levels \in SUBSET Level
      /\ event.changes \in Seq(Change) /\ event.kind \in {"snap", "delta"} /\ seq \in Int
  <2>1. me \in Outcome
    BY Zenon DEF Fits
  <2>. QED  BY <2>1 DEF Outcome, Event
<1>2. /\ next \in Books
      /\ next.raised = "none" =>
           /\ ~Crossed(next.levels) /\ next.sequence = seq
           /\ event.kind = "snap" => next.levels = event.levels
           /\ event.kind = "delta" =>
                next.levels = Changed(me.book.levels, event.changes) /\ me.book.sequence < seq
  <2>1. CASE event.kind = "snap"
    <3>1. next = Snapped(me.book, seq, event.levels)
      BY <2>1
    <3>. HIDE DEF next
    <3>. QED  BY <1>1, <2>1, <3>1, SnappedIs
  <2>2. CASE event.kind = "delta"
    <3>1. next = Moved(me.book, seq, event.changes)
      BY <2>2
    <3>. HIDE DEF next
    <3>. QED  BY <1>1, <2>2, <3>1, MovedIs
  <2>. QED  BY <1>1, <2>1, <2>2
<1>3. CASE event.kind = "delta" /\ me.state # "LIVE"
  <2>1. now = Resync(me)
    BY <1>3 DEF CoinbaseEvent
  <2>. QED  BY <1>1, <2>1, ResyncFits
<1>4. CASE ~(event.kind = "delta" /\ me.state # "LIVE") /\ next.raised # "none"
  <2>1. now = Broken(me)
    BY <1>4, Zenon DEF CoinbaseEvent
  <2>. QED  BY <1>1, <2>1, BrokenFits
<1>5. CASE ~(event.kind = "delta" /\ me.state # "LIVE") /\ next.raised = "none"
  <2>1. now = Emitting(at, event.kind, event, event.changes)
    BY <1>5, Zenon DEF CoinbaseEvent
  <2>2. at \in Outcome /\ ~at.raised /\ at.book = next /\ at.state = me.state
    <3>. HIDE DEF next
    <3>. QED  BY <1>1, <1>2 DEF Outcome
  <2>. HIDE DEF at, next
  <2>3. Good(next)
    BY <1>2, <1>5 DEF Good
  <2>4. Good(at.book)
    BY <2>2, <2>3
  <2>5. Fits(now) /\ ~now.raised /\ now.state = "LIVE" /\ now.book = at.book
    BY <1>1, <2>1, <2>2, <2>4, EmittingFits
  <2>. HIDE DEF now
  <2>6. /\ Fits(now) /\ ~now.raised /\ now.state = "LIVE" /\ now.book.sequence = seq
        /\ event.kind = "snap" => now.book.levels = event.levels
        /\ event.kind = "delta" =>
             /\ me.state = "LIVE" /\ me.book.sequence < seq
             /\ now.book.levels = Changed(me.book.levels, event.changes)
    BY <1>2, <1>5, <2>2, <2>5
  <2>. QED  BY <2>6 DEF now
<1>. QED  BY <1>3, <1>4, <1>5

(* An update that the checksum lets pass is the window the venue shows.      *)
LEMMA KrakenFits ==
  ASSUME epoch \in Nat, driver = "kraken", NEW me, Fits(me), ~me.raised, NEW event \in Event,
         event.shown = Top(event.shown, Depth)
  PROVE  LET now == KrakenEvent(me, event)
         IN  /\ Fits(now)
             /\ ~now.raised => now.state = "LIVE" /\ now.book.levels = event.shown
<1>. DEFINE next == IF event.kind = "snap" THEN Snapped(me.book, 0, event.levels)
                    ELSE Moved(me.book, me.book.sequence + 1, event.changes)
            evicted == Evicted(next.levels, Depth)
            trimmed == [next EXCEPT !.levels = @ \ evicted]
            at == [me EXCEPT !.book = trimmed]
            now == KrakenEvent(me, event)
<1>1. /\ me \in Outcome /\ me.book \in Books /\ event.levels \in SUBSET Level
      /\ event.changes \in Seq(Change) /\ event.kind \in {"snap", "delta"}
      /\ event.shown \in SUBSET Level /\ me.book.sequence + 1 \in Int /\ 0 \in Int
  <2>1. me \in Outcome
    BY Zenon DEF Fits
  <2>2. me.book \in Books
    BY <2>1 DEF Outcome
  <2>. QED  BY <2>1, <2>2 DEF Event, Books
<1>2. next \in Books /\ (next.raised = "none" => ~Crossed(next.levels))
  <2>1. CASE event.kind = "snap"
    <3>1. next = Snapped(me.book, 0, event.levels)
      BY <2>1
    <3>. HIDE DEF next
    <3>. QED  BY <1>1, <3>1, SnappedIs
  <2>2. CASE event.kind = "delta"
    <3>1. next = Moved(me.book, me.book.sequence + 1, event.changes)
      BY <2>2
    <3>. HIDE DEF next
    <3>. QED  BY <1>1, <3>1, MovedIs
  <2>. QED  BY <1>1, <2>1, <2>2
<1>3. /\ Depth \in Nat /\ CRC_LEVELS \in Nat /\ Depth <= CRC_LEVELS
  BY InBandAssumption
<1>4. /\ next.levels \in SUBSET Level /\ Top(next.levels, Depth) \in SUBSET Level
      /\ evicted \in SUBSET Level /\ Top(next.levels, Depth) \subseteq next.levels
      /\ next.levels \ evicted = Top(next.levels, Depth)
  <2>. HIDE DEF next
  <2>1. next.levels \in SUBSET Level
    BY <1>2 DEF Books
  <2>. QED  BY <1>3, <2>1, WindowIs
<1>5. /\ trimmed \in Books /\ trimmed.levels = Top(next.levels, Depth)
      /\ trimmed.raised = next.raised
  <2>. HIDE DEF next, evicted
  <2>. QED  BY <1>2, <1>4 DEF Books
<1>6. Top(trimmed.levels, Depth) = trimmed.levels /\ Top(trimmed.levels, CRC_LEVELS) = trimmed.levels
  <2>. HIDE DEF next, trimmed
  <2>. QED  BY <1>3, <1>4, <1>5, TopOfTop
<1>7. Top(event.shown, CRC_LEVELS) = event.shown
  BY <1>1, <1>3, TopOfTop
<1>8. at \in Outcome /\ ~at.raised /\ at.book = trimmed
  <2>. HIDE DEF next, evicted, trimmed
  <2>. QED  BY <1>1, <1>5 DEF Outcome
<1>9. CASE event.kind = "delta" /\ me.state # "LIVE"
  <2>1. now = Resync(me)
    BY <1>9 DEF KrakenEvent
  <2>. QED  BY <1>1, <2>1, ResyncFits
<1>10. CASE ~(event.kind = "delta" /\ me.state # "LIVE") /\ next.raised # "none"
  <2>1. now = Broken(me)
    BY <1>10, Zenon DEF KrakenEvent
  <2>. QED  BY <1>1, <2>1, BrokenFits
<1>11. CASE /\ ~(event.kind = "delta" /\ me.state # "LIVE") /\ next.raised = "none"
            /\ ~Verified(trimmed, event)
  <2>1. now = Resync(at)
    BY <1>11, Zenon DEF KrakenEvent
  <2>. QED  BY <1>8, <2>1, ResyncFits
<1>12. CASE /\ ~(event.kind = "delta" /\ me.state # "LIVE") /\ next.raised = "none"
            /\ Verified(trimmed, event)
  <2>1. now = Emitting(at, event.kind, event, Relayed(event, evicted))
    BY <1>12, Zenon DEF KrakenEvent
  <2>2. Relayed(event, evicted) \in Seq(Change)
    <3>. HIDE DEF evicted
    <3>1. Changes(evicted, FALSE) \cup Changes({}, TRUE) = Changes(evicted, FALSE)
      BY DEF Changes
    <3>2. SetToSeq(Changes(evicted, FALSE)) \in Seq(Change)
      BY <1>4, <3>1, ChangesAre
    <3>3. event.changes \o SetToSeq(Changes(evicted, FALSE)) \in Seq(Change)
      BY <1>1, <3>2, ConcatProperties
    <3>. QED  BY <3>3 DEF Relayed
  <2>3. ~Crossed(trimmed.levels)
    <3>. HIDE DEF next, trimmed
    <3>. QED  BY <1>2, <1>4, <1>5, <1>12, PartIsNotCrossed
  <2>4. trimmed.levels = event.shown
    <3>. HIDE DEF next, trimmed
    <3>. QED  BY <1>6, <1>7, <1>12 DEF Verified, Checksum
  <2>. HIDE DEF at, next, trimmed, evicted
  <2>5. Good(at.book)
    BY <1>5, <1>6, <1>8, <1>12, <2>3 DEF Good
  <2>6. Fits(now) /\ ~now.raised /\ now.state = "LIVE" /\ now.book = at.book
    BY <1>1, <1>8, <2>1, <2>2, <2>5, EmittingFits
  <2>. HIDE DEF now
  <2>7. Fits(now) /\ ~now.raised /\ now.state = "LIVE" /\ now.book.levels = event.shown
    BY <1>8, <2>4, <2>6
  <2>. QED  BY <2>7 DEF now
<1>. QED  BY <1>9, <1>10, <1>11, <1>12

----------------------------------------------------------------------------
\* The events of a frame

(* Either venue's event.                                                     *)
LEMMA HandledFits ==
  ASSUME epoch \in Nat, driver \in {"coinbase", "kraken"}, NEW me, Fits(me), NEW event \in Event,
         driver = "kraken" => event.shown = Top(event.shown, Depth), NEW seq \in Nat
  PROVE  LET now == Handled(me, event, seq)
         IN  /\ Fits(now)
             /\ ~now.raised => /\ ~me.raised /\ now.state = "LIVE"
                               /\ driver = "kraken" => now.book.levels = event.shown
<1>0. me.raised \in BOOLEAN
  BY DEF Fits, Outcome
<1>1. CASE me.raised
  BY <1>1 DEF Handled
<1>2. CASE ~me.raised /\ driver = "coinbase"
  <2>1. Handled(me, event, seq) = CoinbaseEvent(me, event, seq)
    BY <1>2 DEF Handled
  <2>. QED  BY <1>2, <2>1, CoinbaseFits
<1>3. CASE ~me.raised /\ driver = "kraken"
  <2>1. Handled(me, event, seq) = KrakenEvent(me, event)
    BY <1>3 DEF Handled
  <2>. QED  BY <1>3, <2>1, KrakenFits
<1>. QED  BY <1>0, <1>1, <1>2, <1>3

(* The outcome of a frame: each event is relayed, or the connection goes.    *)
LEMMA FrameFits ==
  ASSUME epoch \in Nat, driver \in {"coinbase", "kraken"}, NEW idle, Fits(idle),
         NEW events \in Seq(Event), Shows(events), NEW seq \in Nat
  PROVE  LET me == Handling!Loop(idle, events, seq)
         IN  /\ Fits(me) /\ (events = <<>> => me = idle)
             /\ ~me.raised /\ events # <<>> =>
                  /\ me.state = "LIVE"
                  /\ driver = "kraken" => me.book.levels = events[Len(events)].shown
<1>. DEFINE me == Handling!Loop(idle, events, seq)
            N == Len(events)
<1>1. N \in Nat
  OBVIOUS
<1>0. PICK st : Handling!Goes(st, idle, events, seq)
  BY <1>1, Handling!LoopGoes, Zenon
<1>2. /\ st[0] = idle /\ st[N] = me
      /\ \A n \in 1..N : st[n] = Handled(st[n - 1], events[n], seq)
  BY <1>0, Zenon DEF Handling!Goes
<1>. DEFINE S == {n \in 0..N :
                   /\ Fits(st[n])
                   /\ ~st[n].raised /\ n # 0 =>
                        /\ st[n].state = "LIVE"
                        /\ driver = "kraken" => st[n].book.levels = events[n].shown}
<1>3. 0 \in S
  BY <1>1, <1>2
<1>4. ASSUME NEW n \in 1..N, n - 1 \in S PROVE n \in S
  <2>1. Fits(st[n - 1]) /\ events[n] \in Event /\ st[n] = Handled(st[n - 1], events[n], seq)
    BY <1>2, <1>4
  <2>2. driver = "kraken" => events[n].shown = Top(events[n].shown, Depth)
    BY DEF Shows
  <2>3. /\ Fits(st[n])
        /\ ~st[n].raised => /\ st[n].state = "LIVE"
                            /\ driver = "kraken" => st[n].book.levels = events[n].shown
    BY <2>1, <2>2, HandledFits
  <2>. QED  BY <2>3
<1>. HIDE DEF S, me, N
<1>5. \A n \in 0..N : n \in S
  BY <1>1, <1>3, <1>4, Handling!UpTo
<1>6. N \in S
  BY <1>1, <1>5
<1>7. /\ Fits(me) /\ (N = 0 => me = idle)
      /\ ~me.raised /\ N # 0 =>
           /\ me.state = "LIVE"
           /\ driver = "kraken" => me.book.levels = events[N].shown
  BY <1>2, <1>6 DEF S
<1>8. events = <<>> <=> N = 0
  BY DEF N
<1>9. /\ Fits(me) /\ (events = <<>> => me = idle)
      /\ ~me.raised /\ events # <<>> =>
           /\ me.state = "LIVE"
           /\ driver = "kraken" => me.book.levels = events[N].shown
  BY <1>7, <1>8
<1>. QED  BY <1>9 DEF me, N

(* Coinbase: a second event has the number of the first, and is refused.     *)
LEMMA OneEventOrNone ==
  ASSUME epoch \in Nat, driver = "coinbase", NEW idle, Fits(idle), ~idle.raised,
         NEW events \in Seq(Event), NEW seq \in Nat,
         \A m \in 2..Len(events) : events[m].kind = "delta",
         ~Handling!Loop(idle, events, seq).raised, events # <<>>
  PROVE  /\ Len(events) = 1
         /\ Handling!Loop(idle, events, seq) = CoinbaseEvent(idle, events[1], seq)
<1>. DEFINE me == Handling!Loop(idle, events, seq)
            N == Len(events)
<1>1. N \in Nat /\ N # 0
  OBVIOUS
<1>0. PICK st : Handling!Goes(st, idle, events, seq)
  BY <1>1, Handling!LoopGoes, Zenon
<1>2. /\ st[0] = idle /\ st[N] = me
      /\ \A n \in 1..N : st[n] = Handled(st[n - 1], events[n], seq)
  BY <1>0, Zenon DEF Handling!Goes
<1>3. st[1] = CoinbaseEvent(idle, events[1], seq) /\ events[1] \in Event
  <2>1. st[1] = Handled(st[0], events[1], seq)
    BY <1>1, <1>2
  <2>2. events[1] \in Event
    BY <1>1
  <2>. QED  BY <1>2, <2>1, <2>2 DEF Handled
<1>4. Fits(st[1]) /\ (~st[1].raised => st[1].state = "LIVE" /\ st[1].book.sequence = seq)
  BY <1>3, CoinbaseFits
<1>5. ASSUME N # 1 PROVE FALSE
  <2>. DEFINE S == {n \in 0..N : n < 2 \/ (Fits(st[n]) /\ st[n].raised)}
  <2>1. 0 \in S
    BY <1>1
  <2>2. ASSUME NEW n \in 1..N, n - 1 \in S PROVE n \in S
    <3>1. CASE n = 1
      BY <3>1
    <3>2. CASE n = 2
      <4>1. st[2] = Handled(st[1], events[2], seq) /\ events[2] \in Event /\ events[2].kind = "delta"
        BY <1>2, <3>2
      <4>2. CASE st[1].raised
        <5>1. st[2] = st[1]
          BY <4>1, <4>2 DEF Handled
        <5>. QED  BY <1>4, <3>2, <4>2, <5>1
      <4>3. CASE ~st[1].raised
        <5>1. st[2] = CoinbaseEvent(st[1], events[2], seq)
          BY <4>1, <4>3 DEF Handled
        <5>2. /\ Fits(st[2])
              /\ ~st[2].raised => st[1].book.sequence < seq
          BY <1>4, <4>1, <4>3, <5>1, CoinbaseFits
        <5>3. st[2].raised
          BY <1>4, <4>3, <5>2
        <5>. QED  BY <3>2, <5>2, <5>3
      <4>. QED  BY <4>2, <4>3
    <3>3. CASE n > 2
      <4>1. Fits(st[n - 1]) /\ st[n - 1].raised
        BY <2>2, <3>3
      <4>2. st[n] = st[n - 1]
        BY <1>2, <4>1 DEF Handled
      <4>. QED  BY <4>1, <4>2
    <3>. QED  BY <3>1, <3>2, <3>3
  <2>. HIDE DEF S, me, N
  <2>3. \A n \in 0..N : n \in S
    BY <1>1, <2>1, <2>2, Handling!UpTo
  <2>4. N \in S /\ ~(N < 2)
    BY <1>1, <1>5, <2>3
  <2>5. st[N].raised
    BY <2>4 DEF S
  <2>. QED  BY <1>2, <2>5 DEF me
<1>6. N = 1
  BY <1>5
<1>7. me = st[1]
  BY <1>2, <1>6
<1>. QED  BY <1>3, <1>6, <1>7

----------------------------------------------------------------------------
\* The frames in flight

\* The frames of q are frames of p, by their places f; those that may still grow
\* keep their order.
Made(q, p, f) ==
  /\ f \in [1..Len(q) -> 1..Len(p)]
  /\ \A n \in 1..Len(q) :
       /\ q[n].seq = p[f[n]].seq /\ q[n].events = p[f[n]].events
       /\ q[n].fault = "none" => p[f[n]].fault = "none" /\ \A m \in 1..(n - 1) : f[m] < f[n]
MadeFrom(q, p) == q \in Seq(Frame) /\ \E f : Made(q, p, f)

(* The frames behind the head, ...                                           *)
LEMMA TailIsMade ==
  ASSUME NEW p \in Seq(Frame), p # <<>>
  PROVE  MadeFrom(Tail(p), p)
<1>. DEFINE q == Tail(p)
            f == [n \in 1..Len(q) |-> n + 1]
<1>1. q \in Seq(Frame) /\ Len(q) = Len(p) - 1 /\ \A n \in 1..Len(q) : q[n] = p[n + 1]
  BY HeadTailProperties
<1>2. f \in [1..Len(q) -> 1..Len(p)]
  BY <1>1
<1>3. \A n \in 1..Len(q) : f[n] = n + 1
  OBVIOUS
<1>. HIDE DEF q, f
<1>4. \A n \in 1..Len(q) : \A m \in 1..(n - 1) : f[m] < f[n]
  <2>. TAKE n \in 1..Len(q)
  <2>. TAKE m \in 1..(n - 1)
  <2>1. m \in 1..Len(q) /\ m < n
    BY <1>1
  <2>. QED  BY <1>3, <2>1
<1>5. Made(q, p, f)
  BY <1>1, <1>2, <1>3, <1>4 DEF Made
<1>. QED  BY <1>1, <1>5 DEF MadeFrom, q

(* A sequence without its k-th frame.                                        *)
LEMMA WithoutOne ==
  ASSUME NEW p \in Seq(Frame), NEW k \in 1..Len(p)
  PROVE  /\ RemoveAt(p, k) \in Seq(Frame) /\ Len(RemoveAt(p, k)) = Len(p) - 1
         /\ \A n \in 1..Len(RemoveAt(p, k)) :
              RemoveAt(p, k)[n] = p[IF n < k THEN n ELSE n + 1]
<1>. DEFINE q == RemoveAt(p, k)
            a == SubSeq(p, 1, k - 1)
            b == SubSeq(p, k + 1, Len(p))
<1>1. /\ a \in Seq(Frame) /\ Len(a) = k - 1
      /\ \A n \in 1..(k - 1) : a[n] = p[n]
  OBVIOUS
<1>2. /\ b \in Seq(Frame) /\ Len(b) = Len(p) - k
      /\ \A n \in 1..(Len(p) - k) : b[n] = p[k + n]
  OBVIOUS
<1>. HIDE DEF a, b
<1>3. q = a \o b
  BY DEF RemoveAt, a, b
<1>. HIDE DEF q
<1>4. /\ a \o b \in Seq(Frame) /\ Len(a \o b) = Len(a) + Len(b)
      /\ \A n \in 1..(Len(a) + Len(b)) : (a \o b)[n] = IF n <= Len(a) THEN a[n] ELSE b[n - Len(a)]
  BY <1>1, <1>2, ConcatProperties
<1>5. ASSUME NEW n \in 1..Len(q) PROVE q[n] = p[IF n < k THEN n ELSE n + 1]
  <2>1. n \in 1..(Len(p) - 1) /\ n \in 1..(Len(a) + Len(b))
    BY <1>1, <1>2, <1>3, <1>4
  <2>2. CASE n < k
    <3>1. q[n] = a[n] /\ n \in 1..(k - 1)
      BY <1>1, <1>3, <1>4, <2>1, <2>2
    <3>. QED  BY <1>1, <2>2, <3>1
  <2>3. CASE ~(n < k)
    <3>1. q[n] = b[n - (k - 1)] /\ n - (k - 1) \in 1..(Len(p) - k)
      BY <1>1, <1>3, <1>4, <2>1, <2>3
    <3>2. k + (n - (k - 1)) = n + 1
      BY <2>1
    <3>. QED  BY <1>2, <2>3, <3>1, <3>2
  <2>. QED  BY <2>2, <2>3
<1>6. q \in Seq(Frame) /\ Len(q) = Len(p) - 1
  BY <1>1, <1>2, <1>3, <1>4
<1>7. /\ q \in Seq(Frame) /\ Len(q) = Len(p) - 1
      /\ \A n \in 1..Len(q) : q[n] = p[IF n < k THEN n ELSE n + 1]
  BY <1>5, <1>6
<1>. QED  BY <1>7 DEF q

(* ... those but one, ...                                                    *)
LEMMA LostIsMade ==
  ASSUME NEW p \in Seq(Frame), NEW k \in 1..Len(p)
  PROVE  MadeFrom(RemoveAt(p, k), p)
<1>. DEFINE q == RemoveAt(p, k)
            f == [n \in 1..Len(q) |-> IF n < k THEN n ELSE n + 1]
<1>1. /\ q \in Seq(Frame) /\ Len(q) = Len(p) - 1
      /\ \A n \in 1..Len(q) : q[n] = p[IF n < k THEN n ELSE n + 1]
  BY WithoutOne
<1>. HIDE DEF q
<1>2. f \in [1..Len(q) -> 1..Len(p)]
  BY <1>1
<1>3. \A n \in 1..Len(q) : f[n] = IF n < k THEN n ELSE n + 1
  OBVIOUS
<1>. HIDE DEF f
<1>4. \A n \in 1..Len(q) : \A m \in 1..(n - 1) : f[m] < f[n]
  <2>. TAKE n \in 1..Len(q)
  <2>. TAKE m \in 1..(n - 1)
  <2>1. m \in 1..Len(q) /\ m < n
    BY <1>1
  <2>. QED  BY <1>3, <2>1
<1>5. \A n \in 1..Len(q) : q[n] = p[f[n]]
  BY <1>1, <1>3
<1>6. Made(q, p, f)
  BY <1>2, <1>4, <1>5 DEF Made
<1>. QED  BY <1>1, <1>6 DEF MadeFrom, q

(* ... one of them garbled, ...                                              *)
LEMMA GarbledIsMade ==
  ASSUME NEW p \in Seq(Frame), NEW k \in 1..Len(p)
  PROVE  MadeFrom([p EXCEPT ![k].fault = "garbled"], p)
<1>. DEFINE q == [p EXCEPT ![k].fault = "garbled"]
            f == [n \in 1..Len(q) |-> n]
            r == [p[k] EXCEPT !.fault = "garbled"]
<1>1. r \in Frame /\ r.seq = p[k].seq /\ r.events = p[k].events /\ r.fault = "garbled"
  <2>1. p[k] \in Frame
    OBVIOUS
  <2>. QED  BY <2>1 DEF Frame
<1>2. q = [p EXCEPT ![k] = r]
  OBVIOUS
<1>. HIDE DEF q, r
<1>3. /\ q \in Seq(Frame) /\ Len(q) = Len(p)
      /\ \A n \in 1..Len(q) : q[n] = IF n = k THEN r ELSE p[n]
  BY <1>1, <1>2, ExceptSeq
<1>4. f \in [1..Len(q) -> 1..Len(p)] /\ \A n \in 1..Len(q) : f[n] = n
  BY <1>3
<1>. HIDE DEF f
<1>5. \A n \in 1..Len(q) : \A m \in 1..(n - 1) : f[m] < f[n]
  <2>. TAKE n \in 1..Len(q)
  <2>. TAKE m \in 1..(n - 1)
  <2>1. m \in 1..Len(q) /\ m < n
    BY <1>3
  <2>. QED  BY <1>4, <2>1
<1>6. ASSUME NEW n \in 1..Len(q)
      PROVE  /\ q[n].seq = p[f[n]].seq /\ q[n].events = p[f[n]].events
             /\ q[n].fault = "none" => p[f[n]].fault = "none"
  BY <1>1, <1>3, <1>4
<1>7. Made(q, p, f)
  BY <1>4, <1>5, <1>6 DEF Made
<1>. QED  BY <1>3, <1>7 DEF MadeFrom, q

(* ... or one of them again.                                                 *)
LEMMA RepeatedIsMade ==
  ASSUME NEW p \in Seq(Frame), NEW k \in 1..Len(p)
  PROVE  MadeFrom(Append(p, [p[k] EXCEPT !.fault = "again"]), p)
<1>. DEFINE r == [p[k] EXCEPT !.fault = "again"]
            q == Append(p, r)
            f == [n \in 1..Len(q) |-> IF n = Len(p) + 1 THEN k ELSE n]
<1>1. r \in Frame /\ r.seq = p[k].seq /\ r.events = p[k].events /\ r.fault = "again"
  <2>1. p[k] \in Frame
    OBVIOUS
  <2>. QED  BY <2>1 DEF Frame
<1>. HIDE DEF r
<1>2. /\ q \in Seq(Frame) /\ Len(q) = Len(p) + 1
      /\ \A n \in 1..Len(q) : q[n] = IF n = Len(p) + 1 THEN r ELSE p[n]
  BY <1>1
<1>. HIDE DEF q
<1>3. /\ f \in [1..Len(q) -> 1..Len(p)]
      /\ \A n \in 1..Len(q) : f[n] = IF n = Len(p) + 1 THEN k ELSE n
  BY <1>2
<1>. HIDE DEF f
<1>4. ASSUME NEW n \in 1..Len(q), n # Len(p) + 1 PROVE \A m \in 1..(n - 1) : f[m] < f[n]
  <2>. TAKE m \in 1..(n - 1)
  <2>1. m \in 1..Len(q) /\ m < n /\ m # Len(p) + 1
    BY <1>2, <1>4
  <2>. QED  BY <1>3, <1>4, <2>1
<1>5. ASSUME NEW n \in 1..Len(q)
      PROVE  /\ q[n].seq = p[f[n]].seq /\ q[n].events = p[f[n]].events
             /\ q[n].fault = "none" => p[f[n]].fault = "none" /\ n # Len(p) + 1
  BY <1>1, <1>2, <1>3
<1>6. Made(q, p, f)
  BY <1>3, <1>4, <1>5 DEF Made
<1>. QED  BY <1>2, <1>6 DEF MadeFrom, q, r

(* What is claimed of frames is claimed of any frames made of them.          *)
LEMMA MadeKeeps ==
  ASSUME NEW p \in Seq(Frame), NEW q, MadeFrom(q, p)
  PROVE  /\ \A top : NumberedTo(p, top) => NumberedTo(q, top)
         /\ AllShow(p) => AllShow(q)
         /\ \A h : AllLead(p, h) => AllLead(q, h)
         /\ \A least : Ordered(p, least) => Ordered(q, least)
<1>1. PICK f : Made(q, p, f)
  BY DEF MadeFrom
<1>2. /\ \A n \in 1..Len(q) : /\ f[n] \in 1..Len(p)
                              /\ q[n].seq = p[f[n]].seq /\ q[n].events = p[f[n]].events
      /\ \A n \in 1..Len(q) : q[n].fault = "none" =>
           p[f[n]].fault = "none" /\ \A m \in 1..(n - 1) : f[m] < f[n]
  BY <1>1 DEF Made
<1>3. \A top : NumberedTo(p, top) => NumberedTo(q, top)
  BY <1>2 DEF NumberedTo
<1>4. AllShow(p) => AllShow(q)
  BY <1>2 DEF AllShow
<1>5. \A h : AllLead(p, h) => AllLead(q, h)
  BY SMTT(40), <1>2 DEF AllLead, Leads
<1>6. ASSUME NEW least, Ordered(p, least) PROVE Ordered(q, least)
  <2>. SUFFICES ASSUME NEW n \in 1..Len(q), q[n].fault = "none"
                PROVE  least <= q[n].seq /\ \A m \in 1..(n - 1) : q[m].seq < q[n].seq
    BY DEF Ordered
  <2>1. /\ p[f[n]].fault = "none" /\ f[n] \in 1..Len(p)
        /\ \A m \in 1..(n - 1) : f[m] < f[n]
    BY <1>2
  <2>2. /\ least <= p[f[n]].seq
        /\ \A m \in 1..(f[n] - 1) : p[m].seq < p[f[n]].seq
    BY <1>6, <2>1 DEF Ordered
  <2>3. ASSUME NEW m \in 1..(n - 1) PROVE q[m].seq < q[n].seq
    <3>1. m \in 1..Len(q)
      BY DEF MadeFrom
    <3>2. f[m] \in 1..(f[n] - 1) /\ q[m].seq = p[f[m]].seq /\ q[n].seq = p[f[n]].seq
      BY <1>2, <2>1, <3>1
    <3>. QED  BY <2>2, <3>2
  <2>4. q[n].seq = p[f[n]].seq
    BY <1>2
  <2>. QED  BY <2>2, <2>3, <2>4
<1>. QED  BY <1>3, <1>4, <1>5, <1>6

(* What a frame leads from and to are all it knows of the history.           *)
LEMMA LeadsAlike ==
  ASSUME NEW frame, NEW h, NEW g, g[frame.seq] = h[frame.seq],
         g[frame.seq - 1] = h[frame.seq - 1], Leads(frame, h)
  PROVE  Leads(frame, g)
BY DEF Leads

----------------------------------------------------------------------------
\* The venue

(* A bound is used up by one.                                                *)
LEMMA SpendIs ==
  ASSUME Types, used.frames <= MaxFrames, NEW bound \in {"frames", "faults", "periodic"}, NEW max \in Nat,
         bound = "frames" => max = MaxFrames, Spend(bound, max)
  PROVE  /\ used' \in [frames : Nat, faults : Nat, periodic : Nat]
         /\ used'.frames = IF bound = "frames" THEN used.frames + 1 ELSE used.frames
         /\ used'.frames <= MaxFrames
<1>1. /\ used \in [frames : Nat, faults : Nat, periodic : Nat] /\ MaxFrames \in Nat
      /\ used[bound] < max /\ used' = [used EXCEPT ![bound] = @ + 1]
  BY InBandAssumption DEF Types, Spend
<1>2. CASE bound = "frames"
  BY <1>1, <1>2
<1>3. CASE bound = "faults"
  BY <1>1, <1>3
<1>4. CASE bound = "periodic"
  BY <1>1, <1>4
<1>. QED  BY <1>2, <1>3, <1>4

(* What a venue shows of a book.                                             *)
LEMMA ShownIs ==
  ASSUME driver \in {"coinbase", "kraken"}, NEW L \in SUBSET Level
  PROVE  /\ Shown(L) \in SUBSET Level
         /\ driver = "kraken" => Shown(L) = Top(Shown(L), Depth)
         /\ driver = "coinbase" => Shown(L) = L
<1>1. Depth \in Nat /\ Depth <= Depth
  BY InBandAssumption
<1>2. Top(L, Depth) \in SUBSET Level /\ Top(Top(L, Depth), Depth) = Top(L, Depth)
  BY <1>1, WindowIs, TopOfTop
<1>. QED  BY <1>2 DEF Shown

(* An update of the venue: a window on kraken, one change on coinbase,       *)
(* which leads from its book before to its book after.                       *)
LEMMA DeltaIs ==
  ASSUME driver \in {"coinbase", "kraken"}, venue \in SUBSET Level, NEW l \in Level, NEW after,
         after = IF l \in venue THEN venue \ {l} ELSE venue \cup {l}
  PROVE  /\ after \in SUBSET Level /\ DeltaEvent(after) \in Event
         /\ DeltaEvent(after).kind = "delta"
         /\ driver = "kraken" => DeltaEvent(after).shown = Top(DeltaEvent(after).shown, Depth)
         /\ driver = "coinbase" =>
              /\ DeltaEvent(after).shown = after /\ Len(DeltaEvent(after).changes) = 1
              /\ Changed(venue, DeltaEvent(after).changes) = after
<1>. DEFINE gone == (Shown(venue) \ Shown(after)) \ (IF driver = "kraken" THEN after ELSE {})
            new == Shown(after) \ Shown(venue)
            changes == SetToSeq(Changes(gone, FALSE) \cup Changes(new, TRUE))
<1>1. after \in SUBSET Level
  OBVIOUS
<1>2. Shown(after) \in SUBSET Level /\ gone \in SUBSET Level /\ new \in SUBSET Level
  BY <1>1, ShownIs
<1>3. changes \in Seq(Change)
  <2>. HIDE DEF gone, new
  <2>. QED  BY <1>2, ChangesAre
<1>4. DeltaEvent(after) = [kind |-> "delta", levels |-> {}, shown |-> Shown(after), changes |-> changes]
  BY DEF DeltaEvent
<1>5. ASSUME driver = "coinbase" PROVE Len(changes) = 1 /\ Changed(venue, changes) = after
  <2>1. Shown(venue) = venue /\ Shown(after) = after
    BY <1>1, <1>5, ShownIs
  <2>2. CASE l \in venue
    <3>1. gone = {l} /\ new = {}
      BY <1>5, <2>1, <2>2
    <3>. DEFINE c == [level |-> l, on |-> FALSE]
    <3>2. Changes(gone, FALSE) \cup Changes(new, TRUE) = {c}
      BY <3>1 DEF Changes
    <3>. HIDE DEF gone, new, c
    <3>3. Len(changes) = 1 /\ changes[1] = c
      BY <3>2, ListOfOne
    <3>. HIDE DEF changes
    <3>4. Changed(venue, changes) = ChangeOne(venue, c, {})
      BY <3>3, ChangedByOne
    <3>. QED  BY <2>2, <3>3, <3>4 DEF ChangeOne, c
  <2>3. CASE l \notin venue
    <3>1. gone = {} /\ new = {l}
      BY <1>5, <2>1, <2>3
    <3>. DEFINE c == [level |-> l, on |-> TRUE]
    <3>2. Changes(gone, FALSE) \cup Changes(new, TRUE) = {c}
      BY <3>1 DEF Changes
    <3>. HIDE DEF gone, new, c
    <3>3. Len(changes) = 1 /\ changes[1] = c
      BY <3>2, ListOfOne
    <3>. HIDE DEF changes
    <3>4. Changed(venue, changes) = ChangeOne(venue, c, {})
      BY <3>3, ChangedByOne
    <3>. QED  BY <2>3, <3>3, <3>4 DEF ChangeOne, c
  <2>. QED  BY <2>2, <2>3
<1>. HIDE DEF changes
<1>6. /\ DeltaEvent(after) \in Event /\ DeltaEvent(after).kind = "delta"
      /\ DeltaEvent(after).shown = Shown(after) /\ DeltaEvent(after).changes = changes
  <2>1. Shown(after) \in SUBSET Level
    BY <1>2
  <2>. HIDE DEF gone, new
  <2>2. [kind |-> "delta", levels |-> {}, shown |-> Shown(after), changes |-> changes] \in Event
    BY <2>1, <1>3 DEF Event
  <2>. QED  BY <1>4, <2>2
<1>7. /\ driver = "kraken" => Shown(after) = Top(Shown(after), Depth)
      /\ driver = "coinbase" => Shown(after) = after
  BY <1>1, ShownIs
<1>. QED  BY <1>1, <1>5, <1>6, <1>7

\* A frame of its own.
Sends(events) ==
  /\ events \in Seq(Event) /\ Shows(events) /\ Put(events)
  /\ venue' \in SUBSET Level
  /\ driver = "coinbase" =>
       \/ events = <<>> /\ venue' = venue
       \/ /\ Len(events) = 1 /\ events[1].kind = "delta" /\ events[1].shown = venue'
          /\ Changed(venue, events[1].changes) = venue'
Idles == UNCHANGED <<driver, up, epoch, expected, state, book, periodic, log, history>>

(* The types of what the venue leaves alone.                                 *)
LEMMA VenueKeepsTypes ==
  ASSUME Types, used.frames <= MaxFrames, Spend("frames", MaxFrames), Idles,
         venue' \in SUBSET Level, net' \in Seq(Frame), sent' \in Nat
  PROVE  Types'
<1>1. used' \in [frames : Nat, faults : Nat, periodic : Nat]
  BY SpendIs, InBandAssumption
<1>. QED  BY <1>1 DEF Types, Idles, history

(* ... and what is claimed of the book.                                      *)
LEMMA VenueKeepsLive ==
  ASSUME Live, up, Idles
  PROVE  Live'
BY DEF Live, Idles, history, Good, Relays

(* A frame of its own: the history grows by the venue's new book.            *)
LEMMA PutKeepsInv ==
  ASSUME Inv, up, Spend("frames", MaxFrames), NEW events, Sends(events), Idles
  PROVE  Inv'
<1>. DEFINE frame == [seq |-> sent + 1, events |-> events, fault |-> "none"]
<1>1. /\ Types /\ Numbers /\ Live /\ Windows /\ Counts
      /\ driver' = driver /\ up' = up /\ expected' = expected /\ state' = state /\ book' = book
      /\ truth' = truth /\ blind' = blind
      /\ net' = Append(net, frame) /\ sent' = sent + 1
      /\ events \in Seq(Event) /\ Shows(events) /\ venue' \in SUBSET Level
  BY DEF Inv, Sends, Put, Idles, history
<1>2. net \in Seq(Frame) /\ sent \in Nat /\ used.frames <= MaxFrames /\ used.frames \in Nat
  BY <1>1 DEF Types, Numbers
<1>3. frame \in Frame /\ frame.seq = sent + 1 /\ frame.events = events
  BY <1>1, <1>2 DEF Frame
<1>. HIDE DEF frame
<1>4. /\ net' \in Seq(Frame) /\ Len(net') = Len(net) + 1 /\ sent' \in Nat
      /\ \A n \in 1..Len(net') : net'[n] = IF n = Len(net) + 1 THEN frame ELSE net[n]
  BY <1>1, <1>2, <1>3
<1>5. Types'
  BY <1>1, <1>2, <1>4, VenueKeepsTypes
<1>6. Numbers'
  <2>1. used'.frames = used.frames + 1 /\ used'.frames <= MaxFrames
    BY <1>1, <1>2, SpendIs, InBandAssumption
  <2>2. \A n \in 1..Len(net') : net'[n].seq \in 1..(sent + 1)
    <3>. TAKE n \in 1..Len(net')
    <3>1. CASE n = Len(net) + 1
      BY <1>2, <1>3, <1>4, <3>1
    <3>2. CASE n # Len(net) + 1
      <4>1. n \in 1..Len(net) /\ net'[n] = net[n]
        BY <1>4, <3>2
      <4>2. net[n].seq \in 1..sent
        BY <1>1, <4>1 DEF Numbers, NumberedTo
      <4>. QED  BY <1>2, <4>1, <4>2
    <3>. QED  BY <3>1, <3>2
  <2>3. NumberedTo(net, sent)'
    BY <1>1, <2>2 DEF NumberedTo
  <2>4. sent <= used.frames + 1 /\ (expected = -1 \/ expected \in 2..(sent + 1))
    BY <1>1 DEF Numbers
  <2>5. sent' <= used'.frames + 1 /\ (expected' = -1 \/ expected' \in 2..(sent' + 1))
    BY <1>1, <1>2, <2>1, <2>4
  <2>. QED  BY <2>1, <2>3, <2>5 DEF Numbers
<1>7. Live'
  BY <1>1, VenueKeepsLive
<1>8. Windows'
  <2>1. \A n \in 1..Len(net') : Shows(net'[n].events)
    <3>. TAKE n \in 1..Len(net')
    <3>1. CASE n = Len(net) + 1
      BY <1>1, <1>3, <1>4, <3>1
    <3>2. CASE n # Len(net) + 1
      <4>1. n \in 1..Len(net) /\ net'[n] = net[n]
        BY <1>4, <3>2
      <4>. QED  BY <1>1, <4>1 DEF Windows, AllShow
    <3>. QED  BY <3>1, <3>2
  <2>2. AllShow(net)'
    BY <1>1, <2>1 DEF AllShow, Shows
  <2>. QED  BY <1>1, <2>2 DEF Windows
<1>9. Counts'
  <2>. SUFFICES ASSUME driver = "coinbase" PROVE Ordered(net', expected) /\ (\E h : Follows(h))'
    BY <1>1 DEF Counts
  <2>1. Ordered(net, expected) /\ \E h : Follows(h)
    BY <1>1 DEF Counts
  <2>2. PICK h : Follows(h)
    BY <2>1
  <2>3. /\ \A n \in 1..Len(net) : net[n].seq \in 1..sent
        /\ expected = -1 \/ expected \in 2..(sent + 1)
    BY <1>1 DEF Numbers, NumberedTo
  <2>4. Ordered(net', expected)
    <3>. SUFFICES ASSUME NEW n \in 1..Len(net'), net'[n].fault = "none"
                  PROVE  expected <= net'[n].seq /\ \A m \in 1..(n - 1) : net'[m].seq < net'[n].seq
      BY DEF Ordered
    <3>1. ASSUME NEW m \in 1..(n - 1) PROVE m \in 1..Len(net) /\ net'[m] = net[m]
      BY <1>2, <1>4
    <3>2. CASE n = Len(net) + 1
      <4>1. net'[n].seq = sent + 1
        BY <1>3, <1>4, <3>2
      <4>2. expected <= net'[n].seq
        BY <1>2, <2>3, <4>1
      <4>3. ASSUME NEW m \in 1..(n - 1) PROVE net'[m].seq < net'[n].seq
        <5>1. net'[m].seq \in 1..sent
          BY <2>3, <3>1
        <5>. QED  BY <1>2, <4>1, <5>1
      <4>. QED  BY <4>2, <4>3
    <3>3. CASE n # Len(net) + 1
      <4>1. n \in 1..Len(net) /\ net'[n] = net[n]
        BY <1>4, <3>3
      <4>. QED  BY <2>1, <3>1, <4>1 DEF Ordered
    <3>. QED  BY <3>2, <3>3
  <2>. DEFINE g == [k \in 0..(sent + 1) |-> IF k = sent + 1 THEN venue' ELSE h[k]]
  <2>5. /\ h \in [0..sent -> SUBSET Level] /\ h[sent] = venue /\ AllLead(net, h)
        /\ state = "LIVE" /\ ~blind =>
             expected # -1 /\ book.levels = h[expected - 1] /\ truth = h[expected - 1]
    BY <2>2 DEF Follows
  <2>6. /\ g \in [0..sent' -> SUBSET Level] /\ g[sent + 1] = venue'
        /\ \A k \in 0..sent : g[k] = h[k]
    BY <1>1, <1>2, <2>5
  <2>. HIDE DEF g
  <2>7. PICK c : c = g
    OBVIOUS
  <2>8. ASSUME NEW n \in 1..Len(net') PROVE Leads(net'[n], g)
    <3>1. CASE n = Len(net) + 1
      <4>1. net'[n].seq = sent + 1 /\ net'[n].events = events /\ net'[n].seq - 1 = sent
        BY SMTT(40), <1>2, <1>3, <1>4, <3>1
      <4>2. g[net'[n].seq] = venue' /\ g[net'[n].seq - 1] = venue
        BY <1>2, <2>5, <2>6, <4>1
      <4>3. \/ events = <<>> /\ venue' = venue
            \/ /\ Len(events) = 1 /\ events[1].kind = "delta" /\ events[1].shown = venue'
               /\ Changed(venue, events[1].changes) = venue'
        BY DEF Sends
      <4>4. /\ events = <<>> => Len(events) = 0 /\ 2..Len(events) = {}
            /\ Len(events) = 1 => events # <<>> /\ 2..Len(events) = {}
        <5>1. events = <<>> => Len(events) = 0
          OBVIOUS
        <5>2. 2..0 = {} /\ 2..1 = {} /\ 0 # 1
          OBVIOUS
        <5>. QED  BY <5>1, <5>2, Zenon
      <4>5. CASE events = <<>> /\ venue' = venue
        BY <4>1, <4>2, <4>4, <4>5 DEF Leads
      <4>6. CASE /\ Len(events) = 1 /\ events[1].kind = "delta" /\ events[1].shown = venue'
                 /\ Changed(venue, events[1].changes) = venue'
        BY <4>1, <4>2, <4>4, <4>6 DEF Leads
      <4>. QED  BY <4>3, <4>5, <4>6
    <3>2. CASE n # Len(net) + 1
      <4>1. n \in 1..Len(net) /\ net'[n] = net[n]
        BY <1>4, <3>2
      <4>2. Leads(net[n], h) /\ net[n].seq \in 1..sent
        BY <2>3, <2>5, <4>1 DEF AllLead
      <4>3. net[n].seq \in 0..sent /\ net[n].seq - 1 \in 0..sent
        BY <1>2, <4>2
      <4>. QED  BY <2>6, <4>1, <4>2, <4>3, LeadsAlike
    <3>. QED  BY <3>1, <3>2
  <2>9. AllLead(net', g)
    BY <2>8 DEF AllLead
  <2>10. expected # -1 => g[expected - 1] = h[expected - 1]
    <3>. SUFFICES ASSUME expected # -1 PROVE g[expected - 1] = h[expected - 1]
      OBVIOUS
    <3>1. expected - 1 \in 0..sent
      BY <1>2, <2>3
    <3>. QED  BY <2>6, <3>1
  <2>11. AllLead(net, c)'
    BY <2>7, <2>9 DEF AllLead, Leads
  <2>12. c[sent'] = venue'
    BY <1>1, <2>6, <2>7
  <2>13. Follows(c)'
    BY <1>1, <2>5, <2>6, <2>7, <2>10, <2>11, <2>12 DEF Follows
  <2>. QED  BY <1>1, <2>4, <2>13
<1>. QED  BY <1>5, <1>6, <1>7, <1>8, <1>9 DEF Inv

\* An event joins those of the last frame.
Grows(event) ==
  /\ event \in Event /\ event.kind = "delta"
  /\ driver = "kraken" => event.shown = Top(event.shown, Depth)
  /\ net # <<>> /\ net[Len(net)].seq = sent /\ net[Len(net)].events # <<>>
  /\ net[Len(net)].fault = "none"
  /\ net' = [net EXCEPT ![Len(net)].events = Append(@, event)]
  /\ sent' = sent /\ venue' \in SUBSET Level

(* An event joins a frame that is not taken yet: the last book of the        *)
(* history is replaced, and no other frame leads to it.                      *)
LEMMA GrowKeepsInv ==
  ASSUME Inv, up, Spend("frames", MaxFrames), NEW event, Grows(event), Idles
  PROVE  Inv'
<1>. DEFINE N == Len(net)
            old == net[N]
            frame == [old EXCEPT !.events = Append(@, event)]
<1>1. /\ Types /\ Numbers /\ Live /\ Windows /\ Counts
      /\ driver' = driver /\ up' = up /\ expected' = expected /\ state' = state /\ book' = book
      /\ truth' = truth /\ blind' = blind /\ sent' = sent /\ venue' \in SUBSET Level
      /\ event \in Event /\ event.kind = "delta"
      /\ driver = "kraken" => event.shown = Top(event.shown, Depth)
  BY DEF Inv, Grows, Idles, history
<1>2. net \in Seq(Frame) /\ sent \in Nat /\ used.frames <= MaxFrames /\ used.frames \in Nat
  BY <1>1 DEF Types, Numbers
<1>3. N \in Nat /\ N # 0 /\ old \in Frame /\ N \in 1..N
  BY <1>2 DEF Grows
<1>4. net' = [net EXCEPT ![N] = frame] /\ old.seq = sent /\ old.events # <<>> /\ old.fault = "none"
  BY DEF Grows
<1>5. /\ frame \in Frame /\ frame.seq = old.seq /\ frame.fault = old.fault
      /\ frame.events = Append(old.events, event) /\ old.events \in Seq(Event)
  <2>. HIDE DEF old
  <2>1. old.events \in Seq(Event)
    BY <1>3 DEF Frame
  <2>2. Append(old.events, event) \in Seq(Event)
    BY <1>1, <2>1, AppendProperties
  <2>. QED  BY <1>3, <2>1, <2>2 DEF Frame
<1>. HIDE DEF N, old, frame
<1>6. /\ net' \in Seq(Frame) /\ Len(net') = N
      /\ \A n \in 1..N : net'[n] = IF n = N THEN frame ELSE net[n]
  BY <1>2, <1>3, <1>4, <1>5, ExceptSeq DEF N
<1>7. /\ frame.events \in Seq(Event) /\ Len(frame.events) = Len(old.events) + 1
      /\ Len(old.events) \in Nat \ {0} /\ frame.events # <<>>
      /\ \A m \in 1..Len(old.events) : frame.events[m] = old.events[m]
      /\ frame.events[Len(old.events) + 1] = event
  BY <1>1, <1>4, <1>5, AppendProperties
<1>8. Types'
  BY <1>1, <1>2, <1>6, VenueKeepsTypes
<1>9. Numbers'
  <2>1. used'.frames = used.frames + 1 /\ used'.frames <= MaxFrames
    BY <1>1, <1>2, SpendIs, InBandAssumption
  <2>2. \A n \in 1..N : net'[n].seq \in 1..sent
    BY <1>1, <1>3, <1>5, <1>6 DEF Numbers, NumberedTo, N, old
  <2>3. NumberedTo(net, sent)'
    BY <1>1, <1>6, <2>2 DEF NumberedTo
  <2>4. sent <= used.frames + 1 /\ (expected = -1 \/ expected \in 2..(sent + 1))
    BY <1>1 DEF Numbers
  <2>5. sent' <= used'.frames + 1 /\ (expected' = -1 \/ expected' \in 2..(sent' + 1))
    BY <1>1, <1>2, <2>1, <2>4
  <2>. QED  BY <2>1, <2>3, <2>5 DEF Numbers
<1>10. Live'
  BY <1>1, VenueKeepsLive
<1>11. Windows'
  <2>1. Shows(frame.events)
    <3>1. Shows(old.events)
      BY <1>1, <1>3 DEF Windows, AllShow, N, old
    <3>. SUFFICES ASSUME driver = "kraken", NEW m \in 1..Len(frame.events)
                  PROVE  frame.events[m].shown = Top(frame.events[m].shown, Depth)
      BY DEF Shows
    <3>2. CASE m = Len(old.events) + 1
      BY <1>1, <1>7, <3>2
    <3>3. CASE m # Len(old.events) + 1
      <4>1. m \in 1..Len(old.events)
        BY <1>7, <3>3
      <4>. QED  BY <1>7, <3>1, <4>1 DEF Shows
    <3>. QED  BY <3>2, <3>3
  <2>2. \A n \in 1..N : Shows(net'[n].events)
    <3>. TAKE n \in 1..N
    <3>1. CASE n = N
      BY <1>6, <2>1, <3>1
    <3>2. CASE n # N
      BY <1>1, <1>6, <3>2 DEF Windows, AllShow, N
    <3>. QED  BY <3>1, <3>2
  <2>3. AllShow(net)'
    BY <1>1, <1>6, <2>2 DEF AllShow, Shows
  <2>. QED  BY <1>1, <2>3 DEF Windows
<1>12. Counts'
  <2>. SUFFICES ASSUME driver = "coinbase" PROVE Ordered(net', expected) /\ (\E h : Follows(h))'
    BY <1>1 DEF Counts
  <2>1. Ordered(net, expected) /\ \E h : Follows(h)
    BY <1>1 DEF Counts
  <2>2. PICK h : Follows(h)
    BY <2>1
  <2>3. /\ \A n \in 1..N : net[n].seq \in 1..sent
        /\ expected = -1 \/ expected \in 2..(sent + 1)
    BY <1>1 DEF Numbers, NumberedTo, N
  <2>4. expected <= sent /\ \A m \in 1..(N - 1) : net[m].seq < sent
    BY <1>3, <1>4, <2>1 DEF Ordered, N, old
  <2>5. \A n \in 1..N : net'[n].seq = net[n].seq /\ net'[n].fault = net[n].fault
    BY <1>5, <1>6 DEF N, old
  <2>6. Ordered(net', expected)
    <3>. SUFFICES ASSUME NEW n \in 1..N, net'[n].fault = "none"
                  PROVE  expected <= net'[n].seq /\ \A m \in 1..(n - 1) : net'[m].seq < net'[n].seq
      BY <1>6 DEF Ordered
    <3>1. /\ expected <= net[n].seq
          /\ \A m \in 1..(n - 1) : net[m].seq < net[n].seq
      BY <2>1, <2>5 DEF Ordered, N
    <3>2. \A m \in 1..(n - 1) : m \in 1..N
      BY <1>3
    <3>. QED  BY <2>5, <3>1, <3>2
  <2>. DEFINE g == [h EXCEPT ![sent] = venue']
  <2>7. /\ h \in [0..sent -> SUBSET Level] /\ AllLead(net, h)
        /\ state = "LIVE" /\ ~blind =>
             expected # -1 /\ book.levels = h[expected - 1] /\ truth = h[expected - 1]
    BY <2>2 DEF Follows
  <2>8. /\ g \in [0..sent -> SUBSET Level] /\ g[sent] = venue'
        /\ \A k \in 0..(sent - 1) : g[k] = h[k]
    BY <1>1, <1>2, <2>7
  <2>. HIDE DEF g
  <2>9. PICK c : c = g
    OBVIOUS
  <2>10. ASSUME NEW n \in 1..N PROVE Leads(net'[n], g)
    <3>1. CASE n = N
      <4>1. Leads(old, h)
        BY <1>3, <2>7 DEF AllLead, N, old
      <4>2. \A m \in 2..Len(frame.events) : frame.events[m].kind = "delta"
        <5>. TAKE m \in 2..Len(frame.events)
        <5>1. CASE m = Len(old.events) + 1
          BY <1>1, <1>7, <5>1
        <5>2. CASE m # Len(old.events) + 1
          <6>1. m \in 2..Len(old.events) /\ m \in 1..Len(old.events)
            BY <1>7, <5>2
          <6>. QED  BY <1>7, <4>1, <6>1 DEF Leads
        <5>. QED  BY <5>1, <5>2
      <4>3. frame.events # <<>> /\ Len(frame.events) # 1
        BY <1>7
      <4>4. Leads(frame, g)
        BY <4>2, <4>3, Zenon DEF Leads
      <4>. QED  BY <1>6, <3>1, <4>4
    <3>2. CASE n # N
      <4>1. Leads(net[n], h) /\ net[n].seq \in 1..sent
        BY <2>3, <2>7 DEF AllLead, N
      <4>2. net[n].seq < sent
        BY <1>3, <2>4, <3>2
      <4>3. net[n].seq \in 0..(sent - 1) /\ net[n].seq - 1 \in 0..(sent - 1)
        BY <1>2, <4>1, <4>2
      <4>4. Leads(net[n], g)
        BY <2>8, <4>1, <4>3, LeadsAlike
      <4>. QED  BY <1>6, <3>2, <4>4
    <3>. QED  BY <3>1, <3>2
  <2>11. AllLead(net, c)'
    BY <1>6, <2>9, <2>10 DEF AllLead, Leads
  <2>12. expected # -1 => g[expected - 1] = h[expected - 1]
    <3>. SUFFICES ASSUME expected # -1 PROVE g[expected - 1] = h[expected - 1]
      OBVIOUS
    <3>1. expected - 1 \in 0..(sent - 1)
      BY <1>2, <2>3, <2>4
    <3>. QED  BY <2>8, <3>1
  <2>13. Follows(c)'
    BY <1>1, <2>7, <2>8, <2>9, <2>11, <2>12 DEF Follows
  <2>. QED  BY <1>1, <2>6, <2>13
<1>. QED  BY <1>8, <1>9, <1>10, <1>11, <1>12 DEF Inv

(* A move of the venue, sent or not.                                         *)
LEMMA VenueMovesKeepsInv ==
  ASSUME Inv, VenueMoves
  PROVE  Inv'
<1>. DEFINE moved(l) == IF l \in venue THEN venue \ {l} ELSE venue \cup {l}
<1>0. PICK l \in Level :
        /\ venue' = moved(l)
        /\ IF ~up \/ DeltaEvent(moved(l)).changes = <<>> THEN UNCHANGED <<net, sent>>
           ELSE \/ Put(<<DeltaEvent(moved(l))>>)
                \/ /\ net # <<>> /\ Last(net).seq = sent
                   /\ Last(net).events # <<>> /\ Last(net).fault = "none"
                   /\ net' = [net EXCEPT ![Len(net)].events = Append(@, DeltaEvent(moved(l)))]
                   /\ UNCHANGED sent
  BY Zenon DEF VenueMoves
<1>. DEFINE after == moved(l)
            event == DeltaEvent(after)
<1>1. after = (IF l \in venue THEN venue \ {l} ELSE venue \cup {l}) /\ venue' = after
  BY <1>0
<1>2. /\ Types /\ Numbers /\ Live /\ Windows /\ Counts
      /\ Idles /\ Spend("frames", MaxFrames)
  BY DEF Inv, VenueMoves, Idles
<1>3. /\ driver \in {"coinbase", "kraken"} /\ venue \in SUBSET Level /\ net \in Seq(Frame)
      /\ sent \in Nat /\ up \in BOOLEAN /\ used.frames <= MaxFrames /\ used.frames \in Nat
  BY <1>2 DEF Types, Numbers
<1>. HIDE DEF after
<1>4. /\ after \in SUBSET Level /\ event \in Event /\ event.kind = "delta"
      /\ driver = "kraken" => event.shown = Top(event.shown, Depth)
      /\ driver = "coinbase" =>
           event.shown = after /\ Len(event.changes) = 1 /\ Changed(venue, event.changes) = after
  BY <1>1, <1>3, DeltaIs
<1>. HIDE DEF event
<1>5. CASE UNCHANGED <<net, sent>> /\ (~up \/ driver # "coinbase")
  <2>1. Types'
    BY <1>1, <1>2, <1>3, <1>4, <1>5, VenueKeepsTypes
  <2>2. Numbers'
    <3>1. used'.frames = used.frames + 1 /\ used'.frames <= MaxFrames
      BY <1>2, <1>3, SpendIs, InBandAssumption
    <3>2. expected' = expected
      BY <1>2 DEF Idles
    <3>3. sent <= used.frames + 1 /\ NumberedTo(net, sent) /\ (expected = -1 \/ expected \in 2..(sent + 1))
      BY <1>2 DEF Numbers
    <3>4. sent' <= used'.frames + 1
      BY <1>3, <1>5, <3>1, <3>3
    <3>. QED  BY <1>5, <3>1, <3>2, <3>3, <3>4 DEF Numbers, NumberedTo
  <2>3. Live'
    BY <1>2, <1>5 DEF Live, Idles, history, Good, Relays
  <2>4. Windows'
    BY <1>2, <1>5 DEF Windows, Idles, history, AllShow, Shows
  <2>5. Counts'
    BY <1>2, <1>5 DEF Counts, Idles
  <2>. QED  BY <2>1, <2>2, <2>3, <2>4, <2>5 DEF Inv
<1>6. CASE up /\ Put(<<event>>)
  <2>1. <<event>> \in Seq(Event) /\ Len(<<event>>) = 1 /\ <<event>>[1] = event
    BY <1>4
  <2>2. Shows(<<event>>)
    BY <1>4, <2>1 DEF Shows
  <2>3. Sends(<<event>>)
    BY <1>1, <1>4, <1>6, <2>1, <2>2 DEF Sends
  <2>. QED  BY <1>2, <1>6, <2>3, PutKeepsInv
<1>7. CASE /\ up /\ net # <<>> /\ Last(net).seq = sent
           /\ Last(net).events # <<>> /\ Last(net).fault = "none"
           /\ net' = [net EXCEPT ![Len(net)].events = Append(@, event)]
           /\ UNCHANGED sent
  <2>1. Grows(event)
    BY <1>1, <1>4, <1>7 DEF Grows, Last
  <2>. QED  BY <1>2, <1>7, <2>1, GrowKeepsInv
<1>8. event.changes = <<>> => driver # "coinbase"
  BY <1>4
<1>. QED  BY <1>0, <1>3, <1>5, <1>6, <1>7, <1>8 DEF event, after

(* A frame for another symbol leads nowhere.                                 *)
LEMMA OtherFrameKeepsInv ==
  ASSUME Inv, OtherFrame
  PROVE  Inv'
<1>1. /\ up /\ Spend("frames", MaxFrames) /\ Put(<<>>) /\ Idles /\ venue' = venue
      /\ venue \in SUBSET Level
  BY DEF OtherFrame, Idles, Inv, Types
<1>2. Sends(<<>>)
  BY <1>1 DEF Sends, Shows
<1>. QED  BY <1>1, <1>2, PutKeepsInv

(* Whatever happens to the frames, those that are left are the venue's.      *)
LEMMA UnreliableKeepsInv ==
  ASSUME Inv, Unreliable
  PROVE  Inv'
<1>1. /\ Types /\ Numbers /\ Live /\ Windows /\ Counts
      /\ net # <<>> /\ Spend("faults", MaxFaults)
      /\ UNCHANGED <<driver, venue, sent, up, epoch, expected, state, book, periodic, log>>
      /\ UNCHANGED <<midnight, truth, blind, late>>
  BY DEF Inv, Unreliable, Fault
<1>2. net \in Seq(Frame) /\ used.frames <= MaxFrames /\ used.frames \in Nat
  BY <1>1 DEF Types, Numbers
<1>3. MadeFrom(net', net) /\ unanswered' \in BOOLEAN
  <2>1. PICK n \in DOMAIN net :
       \/ /\ \/ net' = RemoveAt(net, n)
             \/ net' = [net EXCEPT ![n].fault = "garbled"]
          /\ unanswered' = (unanswered \/ \E m \in DOMAIN net[n].events :
                                             net[n].events[m].kind = "snap")
       \/ /\ driver = "coinbase"
          /\ net' = Append(net, [net[n] EXCEPT !.fault = "again"])
          /\ UNCHANGED unanswered
    BY DEF Unreliable
  <2>2. n \in 1..Len(net)
    BY <1>2
  <2>3. unanswered \in BOOLEAN
    BY <1>1 DEF Types
  <2>4. MadeFrom(net', net)
    BY <1>2, <2>1, <2>2, LostIsMade, GarbledIsMade, RepeatedIsMade, Zenon
  <2>5. unanswered' \in BOOLEAN
    BY <2>1, <2>3, Zenon
  <2>. QED  BY <2>4, <2>5
<1>4. /\ used' \in [frames : Nat, faults : Nat, periodic : Nat]
      /\ used'.frames = used.frames
  BY <1>1, <1>2, SpendIs, InBandAssumption
<1>5. /\ NumberedTo(net', sent) /\ AllShow(net')
      /\ \A h : AllLead(net, h) => AllLead(net', h)
      /\ Ordered(net, expected) => Ordered(net', expected)
  BY <1>1, <1>2, <1>3, MadeKeeps DEF Numbers, Windows
<1>6. Types'
  <2>1. net' \in Seq(Frame)
    BY <1>3 DEF MadeFrom
  <2>. QED  BY <1>1, <1>3, <1>4, <2>1 DEF Types
<1>7. Numbers'
  <2>1. NumberedTo(net, sent)'
    BY <1>1, <1>5 DEF NumberedTo
  <2>. QED  BY <1>1, <1>4, <2>1 DEF Numbers
<1>8. Live'
  BY <1>1, <1>3 DEF Live, Good, Relays
<1>9. Windows'
  <2>1. AllShow(net)'
    BY <1>1, <1>5 DEF AllShow, Shows
  <2>. QED  BY <1>1, <2>1 DEF Windows
<1>10. Counts'
  <2>. SUFFICES ASSUME driver = "coinbase", up PROVE Ordered(net', expected) /\ (\E h : Follows(h))'
    BY <1>1 DEF Counts
  <2>1. Ordered(net, expected) /\ \E h : Follows(h)
    BY <1>1 DEF Counts
  <2>2. PICK h : Follows(h)
    BY <2>1
  <2>3. AllLead(net', h)
    BY <1>5, <2>2 DEF Follows
  <2>4. AllLead(net, h)'
    BY <2>3 DEF AllLead, Leads
  <2>5. Follows(h)'
    BY <1>1, <2>2, <2>4 DEF Follows
  <2>. QED  BY <1>5, <2>1, <2>5
<1>. QED  BY <1>6, <1>7, <1>8, <1>9, <1>10 DEF Inv

----------------------------------------------------------------------------
\* The connection

(* A new connection starts a new history with its snapshot.                  *)
LEMMA ConnectKeepsInv ==
  ASSUME Inv, Connect
  PROVE  Inv'
<1>. DEFINE frame == [seq |-> 1, events |-> <<SnapshotEvent>>, fault |-> "none"]
<1>1. /\ Types /\ Numbers
      /\ up' = TRUE /\ epoch' = epoch + 1 /\ expected' = -1 /\ state' = "BOOTSTRAP" /\ book' = Cleared
      /\ sent' = 1 /\ net' = <<frame>> /\ truth' = {} /\ blind' = FALSE /\ unanswered' = FALSE
      /\ UNCHANGED <<driver, venue, periodic, log, midnight, used, late>>
  BY DEF Inv, Connect, FreshCount
<1>2. driver \in {"coinbase", "kraken"} /\ venue \in SUBSET Level /\ used.frames \in Nat
  BY <1>1 DEF Types
<1>3. /\ SnapshotEvent \in Event /\ SnapshotEvent.kind = "snap"
      /\ SnapshotEvent.levels = Shown(venue) /\ SnapshotEvent.shown = Shown(venue)
  <2>1. Shown(venue) \in SUBSET Level
    BY <1>2, ShownIs
  <2>2. <<>> \in Seq(Change)
    OBVIOUS
  <2>. QED  BY <2>1, <2>2 DEF SnapshotEvent, Event
<1>4. /\ driver = "kraken" => Shown(venue) = Top(Shown(venue), Depth)
      /\ driver = "coinbase" => Shown(venue) = venue
  BY <1>2, ShownIs
<1>5. /\ frame \in Frame /\ frame.seq = 1 /\ Len(frame.events) = 1 /\ frame.fault = "none"
      /\ frame.events # <<>> /\ frame.events[1] = SnapshotEvent
  BY <1>3 DEF Frame
<1>. HIDE DEF frame
<1>6. net' \in Seq(Frame) /\ Len(net') = 1 /\ net'[1] = frame
  BY <1>1, <1>5
<1>7. Types'
  <2>1. Cleared \in Books
    BY DEF Cleared, Books, Raises
  <2>2. /\ epoch' \in Nat /\ sent' \in Nat /\ expected' \in Int /\ state' \in States
    <3>1. epoch \in Nat
      BY <1>1 DEF Types
    <3>. QED  BY <1>1, <3>1 DEF States
  <2>3. /\ up' \in BOOLEAN /\ blind' \in BOOLEAN /\ unanswered' \in BOOLEAN /\ book' \in Books
        /\ truth' \in SUBSET Level /\ net' \in Seq(Frame)
    BY <1>1, <1>6, <2>1, <2>2
  <2>. QED  BY <1>1, <2>2, <2>3 DEF Types
<1>8. Numbers'
  <2>1. NumberedTo(net, sent)'
    BY <1>1, <1>5, <1>6 DEF NumberedTo
  <2>. QED  BY <1>1, <1>2, <2>1 DEF Numbers
<1>9. Live'
  BY <1>1 DEF Live
<1>10. Windows'
  <2>1. AllShow(net)'
    BY <1>1, <1>3, <1>4, <1>5, <1>6 DEF AllShow, Shows
  <2>. QED  BY <1>1, <2>1 DEF Windows
<1>11. Counts'
  <2>. SUFFICES ASSUME driver = "coinbase" PROVE Ordered(net', -1) /\ (\E h : Follows(h))'
    BY <1>1 DEF Counts
  <2>1. Ordered(net', -1)
    BY <1>5, <1>6 DEF Ordered
  <2>. DEFINE h == [k \in 0..1 |-> venue]
  <2>2. h \in [0..1 -> SUBSET Level] /\ h[0] = venue /\ h[1] = venue
    BY <1>2
  <2>. HIDE DEF h
  <2>3. PICK c : c = h
    OBVIOUS
  <2>4. Leads(frame, h)
    <3>1. 2..1 = {} /\ 1 - 1 = 0
      OBVIOUS
    <3>. QED  BY <1>3, <1>4, <1>5, <2>2, <3>1 DEF Leads
  <2>5. AllLead(net, c)'
    BY <1>6, <2>3, <2>4 DEF AllLead, Leads
  <2>6. Follows(c)'
    BY <1>1, <2>2, <2>3, <2>5 DEF Follows
  <2>. QED  BY <2>1, <2>6
<1>. QED  BY <1>7, <1>8, <1>9, <1>10, <1>11 DEF Inv

(* Without a connection nothing is claimed but what the log keeps.           *)
LEMMA DownKeepsInv ==
  ASSUME Types', Numbers, up' = FALSE, net' = <<>>, state' = "STALE",
         UNCHANGED <<sent, expected>>, used'.frames = used.frames
  PROVE  Inv'
<1>1. Numbers'
  BY DEF Numbers, NumberedTo
<1>2. Live' /\ Windows' /\ Counts'
  BY DEF Live, Windows, Counts, AllShow
<1>. QED  BY <1>1, <1>2 DEF Inv

(* A lost connection.                                                        *)
LEMMA DisconnectKeepsInv ==
  ASSUME Inv, Disconnect
  PROVE  Inv'
<1>1. /\ Types /\ Numbers /\ up' = FALSE /\ net' = <<>> /\ state' = "STALE"
      /\ Spend("faults", MaxFaults)
      /\ UNCHANGED <<driver, venue, sent, epoch, periodic, midnight, late>>
      /\ UNCHANGED <<book, log, expected, truth, blind, unanswered>>
  BY DEF Inv, Disconnect, Drop, Fault
<1>2. /\ used' \in [frames : Nat, faults : Nat, periodic : Nat]
      /\ used'.frames = used.frames
  <2>1. used.frames <= MaxFrames /\ used.frames \in Nat
    BY <1>1 DEF Types, Numbers
  <2>. QED  BY <1>1, <2>1, SpendIs, InBandAssumption
<1>3. Types'
  <2>1. <<>> \in Seq(Frame) /\ "STALE" \in States
    BY DEF States
  <2>. QED  BY <1>1, <1>2, <2>1 DEF Types
<1>. QED  BY <1>1, <1>2, <1>3, DownKeepsInv

----------------------------------------------------------------------------
\* The snapshotter and the calendar

(* A periodic snapshot is built,                                             *)
LEMMA BuildPeriodicKeepsInv ==
  ASSUME Inv, BuildPeriodic
  PROVE  Inv'
<1>. DEFINE r == [kind |-> "snap", epoch |-> epoch, sequence |-> book.sequence, offset |-> 0,
                  levels |-> book.levels, changes |-> <<>>, book |-> book.levels]
<1>1. /\ Types /\ Numbers /\ Live /\ Windows /\ Counts
      /\ periodic' = <<r>> /\ Spend("periodic", MaxPeriodic)
      /\ UNCHANGED <<driver, venue, net, sent, up, epoch, expected, state, book, log>>
      /\ UNCHANGED <<midnight, truth, blind, unanswered, late>>
  BY DEF Inv, BuildPeriodic, venueVars, history
<1>2. /\ used' \in [frames : Nat, faults : Nat, periodic : Nat]
      /\ used'.frames = used.frames
  <2>1. used.frames <= MaxFrames /\ used.frames \in Nat
    BY <1>1 DEF Types, Numbers
  <2>. QED  BY <1>1, <2>1, SpendIs, InBandAssumption
<1>3. r \in Entry
  <2>1. epoch \in Nat /\ book.sequence \in Int /\ book.levels \in SUBSET Level /\ <<>> \in Seq(Change)
    BY <1>1 DEF Types, Books
  <2>. QED  BY <2>1 DEF Entry
<1>. HIDE DEF r
<1>4. Types'
  <2>1. <<r>> \in Seq(Entry) /\ Len(<<r>>) <= 1
    BY <1>3
  <2>. QED  BY <1>1, <1>2, <2>1 DEF Types
<1>5. Numbers'
  BY <1>1, <1>2 DEF Numbers, NumberedTo
<1>6. Live'
  BY <1>1 DEF Live, Good, Relays
<1>7. Windows'
  BY <1>1 DEF Windows, AllShow, Shows
<1>8. Counts'
  BY <1>1 DEF Counts, Ordered, Follows, AllLead, Leads
<1>. QED  BY <1>4, <1>5, <1>6, <1>7, <1>8 DEF Inv

(* A record stays in a log that others are appended to.                      *)
LEMMA AppendedRelays ==
  ASSUME NEW q \in Seq(Entry), NEW r, NEW b, NEW e, Relays(q, b, e)
  PROVE  Relays(Append(q, r), b, e)
<1>1. PICK n \in 1..Len(q) : q[n].epoch = e /\ q[n].sequence = b.sequence
  BY DEF Relays
<1>2. n \in DOMAIN Append(q, r) /\ Append(q, r)[n] = q[n]
  OBVIOUS
<1>. QED  BY <1>1, <1>2 DEF Relays

(* sent,                                                                     *)
LEMMA SendPeriodicKeepsInv ==
  ASSUME Inv, SendPeriodic
  PROVE  Inv'
<1>. DEFINE r == [periodic[1] EXCEPT !.offset = Len(log) + 1]
<1>1. /\ Types /\ Numbers /\ Live /\ Windows /\ Counts
      /\ periodic # <<>> /\ periodic' = <<>> /\ log' = Append(log, r)
      /\ UNCHANGED <<driver, venue, net, sent, up, epoch, expected, state, book>>
      /\ UNCHANGED <<midnight, used, truth, blind, unanswered>>
  BY DEF Inv, SendPeriodic, venueVars
<1>2. late' \in BOOLEAN
  <2>1. late \in BOOLEAN
    BY <1>1 DEF Types
  <2>. QED  BY <2>1 DEF SendPeriodic
<1>3. log \in Seq(Entry) /\ r \in Entry
  <2>1. periodic \in Seq(Entry) /\ log \in Seq(Entry)
    BY <1>1 DEF Types
  <2>2. periodic[1] \in Entry /\ Len(log) + 1 \in Nat
    BY <1>1, <2>1
  <2>. QED  BY <2>1, <2>2 DEF Entry
<1>. HIDE DEF r
<1>4. Types'
  <2>1. log' \in Seq(Entry)
    BY <1>1, <1>3
  <2>2. <<>> \in Seq(Entry) /\ Len(<<>>) <= 1
    OBVIOUS
  <2>. QED  BY <1>1, <1>2, <2>1, <2>2 DEF Types
<1>5. Numbers'
  BY <1>1 DEF Numbers, NumberedTo
<1>6. Live'
  <2>1. Relays(log, book, epoch) => Relays(log', book, epoch)
    BY <1>1, <1>3, AppendedRelays
  <2>. QED  BY <1>1, <2>1 DEF Live, Good, Relays
<1>7. Windows'
  BY <1>1 DEF Windows, AllShow, Shows
<1>8. Counts'
  BY <1>1 DEF Counts, Ordered, Follows, AllLead, Leads
<1>. QED  BY <1>4, <1>5, <1>6, <1>7, <1>8 DEF Inv

(* and the day may change.                                                   *)
LEMMA MidnightKeepsInv ==
  ASSUME Inv, Midnight
  PROVE  Inv'
<1>1. /\ Types /\ Numbers /\ Live /\ Windows /\ Counts /\ midnight' = Len(log)
      /\ UNCHANGED <<driver, venue, net, sent, up, epoch, expected, state, book, periodic, log>>
      /\ UNCHANGED <<used, truth, blind, unanswered, late>>
  BY DEF Inv, Midnight, venueVars
<1>2. Types'
  <2>1. Len(log) \in Nat
    BY <1>1 DEF Types
  <2>. QED  BY <1>1, <2>1 DEF Types
<1>3. Numbers' /\ Live' /\ Windows'
  BY <1>1 DEF Numbers, NumberedTo, Live, Good, Relays, Windows, AllShow, Shows
<1>4. Counts'
  BY <1>1 DEF Counts, Ordered, Follows, AllLead, Leads
<1>. QED  BY <1>1, <1>2, <1>3, <1>4 DEF Inv

----------------------------------------------------------------------------
\* The applier

(* What an outcome does to the log and the connection.                       *)
LEMMA TakeIs ==
  ASSUME Inv, up, NEW me, Fits(me), Take(me)
  PROVE  /\ log' \in Seq(Entry) /\ book' = me.book /\ book' \in Books
         /\ UNCHANGED <<driver, venue, sent, epoch, periodic, used, midnight, late>>
         /\ me.raised \in BOOLEAN /\ me.state \in States
         /\ me.raised => up' = FALSE /\ net' = <<>> /\ state' = "STALE"
         /\ ~me.raised =>
              /\ up' = up /\ net' = Tail(net) /\ state' = me.state
              /\ state' = "LIVE" => Good(book') /\ Relays(log', book', epoch)
<1>. DEFINE N == Len(log)
            added == [n \in DOMAIN me.out |-> [me.out[n] EXCEPT !.offset = N + n]]
<1>1. /\ log \in Seq(Entry) /\ me.book \in Books /\ me.out \in Seq(Entry) /\ me.raised \in BOOLEAN
      /\ me.state \in States
  BY DEF Inv, Types, Fits, Outcome
<1>2. /\ log' = log \o added /\ book' = me.book
      /\ IF me.raised THEN Drop /\ UNCHANGED used
         ELSE /\ state' = me.state /\ net' = Tail(net)
              /\ UNCHANGED <<driver, venue, sent, up, epoch, periodic, used, midnight, late>>
  BY DEF Take
<1>3. UNCHANGED <<driver, venue, sent, epoch, periodic, used, midnight, late>>
  BY <1>1, <1>2 DEF Drop
<1>4. ASSUME NEW n \in 1..Len(me.out)
      PROVE  /\ added[n] \in Entry /\ added[n].epoch = me.out[n].epoch
             /\ added[n].sequence = me.out[n].sequence
  <2>1. me.out[n] \in Entry /\ N + n \in Nat /\ n \in DOMAIN me.out
    BY <1>1
  <2>2. added[n] = [me.out[n] EXCEPT !.offset = N + n]
    BY <2>1
  <2>. HIDE DEF added, N
  <2>. QED  BY <2>1, <2>2 DEF Entry
<1>5. added \in Seq(Entry) /\ Len(added) = Len(me.out)
  <2>1. DOMAIN me.out = 1..Len(me.out) /\ Len(me.out) \in Nat
    BY <1>1
  <2>2. \A n \in 1..Len(me.out) : added[n] \in Entry
    BY <1>4
  <2>3. added = [n \in 1..Len(me.out) |-> added[n]]
    BY <2>1
  <2>. HIDE DEF added
  <2>4. added \in Seq(Entry) /\ DOMAIN added = 1..Len(me.out)
    BY <2>1, <2>2, <2>3, IsASeq
  <2>. QED  BY <2>1, <2>4, LenProperties
<1>. HIDE DEF added
<1>6. /\ log' \in Seq(Entry) /\ Len(log') = N + Len(me.out)
      /\ \A n \in 1..N : log'[n] = log[n]
      /\ \A n \in 1..Len(me.out) : log'[N + n] = added[n]
  <2>1. /\ log \o added \in Seq(Entry) /\ Len(log \o added) = Len(log) + Len(added)
        /\ \A n \in 1..(Len(log) + Len(added)) :
             (log \o added)[n] = IF n <= Len(log) THEN log[n] ELSE added[n - Len(log)]
    BY <1>1, <1>5, ConcatProperties
  <2>2. N \in Nat /\ Len(me.out) \in Nat
    BY <1>1
  <2>3. ASSUME NEW n \in 1..N PROVE log'[n] = log[n]
    BY <1>2, <1>5, <2>1, <2>2
  <2>4. ASSUME NEW n \in 1..Len(me.out) PROVE log'[N + n] = added[n]
    <3>1. N + n \in 1..(Len(log) + Len(added)) /\ ~(N + n <= Len(log)) /\ N + n - Len(log) = n
      BY <1>5, <2>2
    <3>. QED  BY <1>2, <2>1, <3>1
  <2>. QED  BY <1>2, <1>5, <2>1, <2>3, <2>4
<1>7. ASSUME ~me.raised, state' = "LIVE"
      PROVE  Good(book') /\ Relays(log', book', epoch)
  <2>1. me.state = "LIVE" /\ Good(me.book)
    BY <1>2, <1>7 DEF Fits
  <2>2. CASE me.out = <<>>
    <3>1. state = "LIVE" /\ me.book = book
      BY <1>7, <2>1, <2>2 DEF Fits
    <3>2. Relays(log, book, epoch)
      BY <3>1 DEF Inv, Live
    <3>3. PICK n \in 1..N : log[n].epoch = epoch /\ log[n].sequence = book.sequence
      BY <1>1, <3>2 DEF Relays
    <3>4. n \in DOMAIN log' /\ log'[n] = log[n]
      BY <1>1, <1>6
    <3>. QED  BY <1>2, <2>1, <3>1, <3>3, <3>4 DEF Relays
  <2>3. CASE me.out # <<>>
    <3>. DEFINE M == Len(me.out)
    <3>1. M \in 1..M /\ M \in Nat
      BY <1>1, <2>3
    <3>2. me.out[M].epoch = epoch /\ me.out[M].sequence = me.book.sequence
      BY <2>1, <2>3, Zenon DEF Fits
    <3>3. log'[N + M].epoch = epoch /\ log'[N + M].sequence = me.book.sequence
      BY <1>4, <1>6, <3>1, <3>2
    <3>4. N + M \in DOMAIN log'
      BY <1>1, <1>6, <3>1
    <3>. QED  BY <1>2, <2>1, <3>3, <3>4 DEF Relays
  <2>. QED  BY <2>2, <2>3
<1>8. /\ me.raised => up' = FALSE /\ net' = <<>> /\ state' = "STALE"
      /\ ~me.raised => up' = up /\ net' = Tail(net) /\ state' = me.state
  BY <1>2 DEF Drop
<1>9. /\ log' \in Seq(Entry) /\ book' = me.book /\ book' \in Books
  BY <1>1, <1>2, <1>6
<1>. QED  BY <1>1, <1>3, <1>7, <1>8, <1>9

(* The frames behind the head, and the number that is expected next.         *)
LEMMA TailKeeps ==
  ASSUME Inv, net # <<>>, NEW next \in BOOLEAN, net' = Tail(net),
         UNCHANGED <<driver, sent, used>>,
         expected' = IF next THEN net[1].seq + 1 ELSE expected
  PROVE  /\ net' \in Seq(Frame) /\ Numbers' /\ AllShow(net)'
         /\ \A h : AllLead(net, h) => AllLead(net', h)
         /\ Ordered(net, expected) => Ordered(net', expected')
<1>1. net \in Seq(Frame) /\ Numbers /\ Windows /\ sent \in Nat /\ expected \in Int
  BY DEF Inv, Types
<1>2. MadeFrom(net', net) /\ net' \in Seq(Frame)
  BY <1>1, TailIsMade DEF MadeFrom
<1>3. /\ NumberedTo(net', sent) /\ AllShow(net')
      /\ \A h : AllLead(net, h) => AllLead(net', h)
      /\ Ordered(net, expected) => Ordered(net', expected)
  BY <1>1, <1>2, MadeKeeps DEF Numbers, Windows
<1>4. 1 \in 1..Len(net) /\ net[1].seq \in 1..sent
  <2>1. 1 \in 1..Len(net)
    BY <1>1
  <2>. QED  BY <1>1, <2>1 DEF Numbers, NumberedTo
<1>5. Numbers'
  <2>1. expected' = -1 \/ expected' \in 2..(sent + 1)
    <3>1. expected = -1 \/ expected \in 2..(sent + 1)
      BY <1>1 DEF Numbers
    <3>. QED  BY <1>1, <1>4, <3>1
  <2>2. NumberedTo(net, sent)'
    BY <1>3 DEF NumberedTo
  <2>. QED  BY <1>1, <2>1, <2>2 DEF Numbers
<1>6. AllShow(net)'
  BY <1>3 DEF AllShow, Shows
<1>7. ASSUME Ordered(net, expected), next PROVE Ordered(net', net[1].seq + 1)
  <2>. SUFFICES ASSUME NEW n \in 1..Len(net'), net'[n].fault = "none"
                PROVE  /\ net[1].seq + 1 <= net'[n].seq
                       /\ \A m \in 1..(n - 1) : net'[m].seq < net'[n].seq
    BY DEF Ordered
  <2>1. Ordered(net', expected)
    BY <1>3, <1>7
  <2>2. \A m \in 1..(n - 1) : net'[m].seq < net'[n].seq
    BY <2>1 DEF Ordered
  <2>3. n + 1 \in 1..Len(net) /\ net'[n] = net[n + 1] /\ 1 \in 1..((n + 1) - 1)
    BY <1>1, HeadTailProperties
  <2>4. net[n + 1].fault = "none"
    BY <2>3
  <2>5. net[1].seq < net[n + 1].seq
    BY <1>7, <2>3, <2>4 DEF Ordered
  <2>6. net[n + 1].seq \in 1..sent
    BY <1>1, <2>3 DEF Numbers, NumberedTo
  <2>7. net[1].seq + 1 <= net'[n].seq
    BY <1>4, <2>3, <2>5, <2>6
  <2>. QED  BY <2>2, <2>7
<1>8. Ordered(net, expected) => Ordered(net', expected')
  BY <1>3, <1>7
<1>. QED  BY <1>2, <1>3, <1>5, <1>6, <1>8

\* The applier's hands before the first event.
Idle == [book |-> book, state |-> state, out |-> <<>>, raised |-> FALSE]

(* Before the first event nothing is relayed, and a LIVE book is good.       *)
LEMMA IdleFits ==
  ASSUME Inv, NEW r \in BOOLEAN
  PROVE  Fits([Idle EXCEPT !.raised = r]) /\ Fits(Idle) /\ ~Idle.raised
<1>1. book \in Books /\ state \in States /\ <<>> \in Seq(Entry)
  BY DEF Inv, Types
<1>2. Idle \in Outcome /\ [Idle EXCEPT !.raised = r] \in Outcome
  BY <1>1 DEF Idle, Outcome
<1>3. state = "LIVE" => Good(book)
  BY DEF Inv, Live
<1>. QED  BY <1>2, <1>3 DEF Fits, Idle

(* A frame that is not handled: out of sequence, or it does not decode.      *)
LEMMA SkippedKeepsInv ==
  ASSUME Inv, up, net # <<>>, UNCHANGED unanswered, NEW what, what = Parsed(net[1]),
         Take([Idle EXCEPT !.raised = what = "gap"]),
         expected' = IF what = "next" /\ driver = "coinbase" THEN net[1].seq + 1 ELSE expected,
         truth' = truth, blind' = (blind \/ what = "next")
  PROVE  Inv'
<1>. DEFINE me == [Idle EXCEPT !.raised = what = "gap"]
            next == what = "next" /\ driver = "coinbase"
<1>1. /\ Types /\ Numbers /\ Live /\ Windows /\ Counts
  BY DEF Inv
<1>2. /\ Fits(me) /\ me.raised = (what = "gap") /\ me.state = state /\ me.book = book
  BY IdleFits DEF Idle
<1>. HIDE DEF me
<1>3. /\ log' \in Seq(Entry) /\ book' = me.book /\ book' \in Books
      /\ UNCHANGED <<driver, venue, sent, epoch, periodic, used, midnight, late>>
      /\ me.raised => up' = FALSE /\ net' = <<>> /\ state' = "STALE"
      /\ ~me.raised =>
           /\ up' = up /\ net' = Tail(net) /\ state' = me.state
           /\ state' = "LIVE" => Good(book') /\ Relays(log', book', epoch)
  BY <1>2, TakeIs DEF me
<1>4. net \in Seq(Frame) /\ net[1] \in Frame /\ net[1].seq \in Nat
  <2>1. net \in Seq(Frame)
    BY <1>1 DEF Types
  <2>2. net[1] \in Frame
    BY <2>1
  <2>. QED  BY <2>1, <2>2 DEF Frame
<1>5. blind' \in BOOLEAN /\ expected' \in Int
  <2>1. expected \in Int
    BY <1>1 DEF Types
  <2>. QED  BY <1>4, <2>1
<1>6. CASE me.raised
  <2>1. what # "next" /\ expected' = expected
    BY <1>2, <1>6
  <2>2. Types'
    <3>1. <<>> \in Seq(Frame) /\ "STALE" \in States
      BY DEF States
    <3>. QED  BY <1>1, <1>3, <1>5, <1>6, <3>1 DEF Types
  <2>. QED  BY <1>1, <1>3, <1>6, <2>1, <2>2, DownKeepsInv
<1>7. CASE ~me.raised
  <2>1. /\ up' = up /\ net' = Tail(net) /\ state' = state /\ book' = book /\ driver' = driver
        /\ sent' = sent /\ venue' = venue /\ epoch' = epoch
        /\ state' = "LIVE" => Good(book') /\ Relays(log', book', epoch)
    BY <1>2, <1>3, <1>7
  <2>2. /\ net' \in Seq(Frame) /\ Numbers' /\ AllShow(net)'
        /\ \A h : AllLead(net, h) => AllLead(net', h)
        /\ Ordered(net, expected) => Ordered(net', expected')
    <3>1. next \in BOOLEAN /\ expected' = IF next THEN net[1].seq + 1 ELSE expected
      OBVIOUS
    <3>. HIDE DEF next
    <3>. QED  BY <1>3, <2>1, <3>1, TailKeeps
  <2>3. Types'
    BY <1>1, <1>3, <1>5, <2>1, <2>2 DEF Types
  <2>4. Live'
    BY <2>1 DEF Live, Good, Relays
  <2>5. Windows'
    BY <1>1, <2>1, <2>2 DEF Windows
  <2>6. Counts'
    <3>. SUFFICES ASSUME driver = "coinbase" PROVE Ordered(net', expected') /\ (\E h : Follows(h))'
      BY <2>1 DEF Counts
    <3>1. Ordered(net, expected) /\ \E h : Follows(h)
      BY <1>1 DEF Counts
    <3>2. PICK h : Follows(h)
      BY <3>1
    <3>3. /\ h \in [0..sent -> SUBSET Level] /\ h[sent] = venue /\ AllLead(net, h)
          /\ state = "LIVE" /\ ~blind =>
               expected # -1 /\ book.levels = h[expected - 1] /\ truth = h[expected - 1]
      BY <3>2 DEF Follows
    <3>4. AllLead(net, h)'
      BY <2>2, <3>3 DEF AllLead, Leads
    <3>5. state' = "LIVE" /\ ~blind' =>
             expected' # -1 /\ book'.levels = h[expected' - 1] /\ truth' = h[expected' - 1]
      BY <2>1, <3>3
    <3>6. Follows(h)'
      BY <2>1, <3>3, <3>4, <3>5 DEF Follows
    <3>. QED  BY <2>2, <3>1, <3>6
  <2>. QED  BY <2>2, <2>3, <2>4, <2>5, <2>6 DEF Inv
<1>8. me.raised \in BOOLEAN
  BY <1>2
<1>. QED  BY <1>6, <1>7, <1>8

\* What the frame's events make of the applier's hands.
Handles(me) ==
  /\ me = Handling!Loop(Idle, net[1].events, net[1].seq) /\ Take(me)
  /\ IF me.raised THEN UNCHANGED <<expected, truth, blind>>
     ELSE /\ expected' = IF driver = "coinbase" THEN net[1].seq + 1 ELSE expected
          /\ truth' = IF net[1].events = <<>> THEN truth ELSE Last(net[1].events).shown
          /\ UNCHANGED blind

(* Coinbase: the frame that was expected, on the book the venue had before.  *)
LEMMA NextFrameLeadsOn ==
  ASSUME Inv, driver = "coinbase", up, net # <<>>, expected = -1 \/ net[1].seq = expected,
         NEW me, Handles(me), ~me.raised, me.state = "LIVE", ~blind, NEW h, Follows(h)
  PROVE  me.book.levels = h[net[1].seq] /\ truth' = h[net[1].seq]
<1>. DEFINE frame == net[1]
            events == frame.events
            event == events[1]
<1>1. /\ frame \in Frame /\ frame.seq \in Nat /\ events \in Seq(Event) /\ epoch \in Nat
      /\ 1 \in 1..Len(net) /\ sent \in Nat
  <2>1. net \in Seq(Frame) /\ epoch \in Nat /\ sent \in Nat
    BY DEF Inv, Types
  <2>2. 1 \in 1..Len(net) /\ net[1] \in Frame
    BY <2>1
  <2>. QED  BY <2>1, <2>2 DEF Frame
<1>2. /\ Leads(frame, h) /\ h \in [0..sent -> SUBSET Level]
      /\ state = "LIVE" =>
           expected # -1 /\ book.levels = h[expected - 1] /\ truth = h[expected - 1]
  BY <1>1 DEF Follows, AllLead
<1>3. state = "LIVE" => book.levels = h[frame.seq - 1] /\ truth = h[frame.seq - 1]
  BY <1>2
<1>4. Fits(Idle) /\ ~Idle.raised /\ Idle.state = state /\ Idle.book = book
  BY IdleFits DEF Idle
<1>5. me = Handling!Loop(Idle, events, frame.seq)
  BY DEF Handles
<1>6. CASE events = <<>>
  <2>1. Shows(events)
    BY DEF Shows
  <2>2. me = Idle
    BY <1>1, <1>4, <1>5, <1>6, <2>1, FrameFits
  <2>3. h[frame.seq] = h[frame.seq - 1]
    BY <1>2, <1>6, Zenon DEF Leads
  <2>4. truth' = truth
    BY <1>6 DEF Handles
  <2>. QED  BY <1>3, <1>4, <2>2, <2>3, <2>4
<1>7. CASE events # <<>>
  <2>1. \A m \in 2..Len(events) : events[m].kind = "delta"
    BY <1>2, Zenon DEF Leads
  <2>2. Len(events) = 1 /\ me = CoinbaseEvent(Idle, event, frame.seq)
    BY <1>1, <1>4, <1>5, <1>7, <2>1, OneEventOrNone
  <2>3. event \in Event /\ event.kind \in {"snap", "delta"}
    <3>1. event \in Event
      BY <1>1, <2>2
    <3>. QED  BY <3>1 DEF Event
  <2>4. /\ event.shown = h[frame.seq]
        /\ event.kind = "snap" => event.levels = h[frame.seq]
        /\ event.kind = "delta" => Changed(h[frame.seq - 1], event.changes) = h[frame.seq]
    BY <1>2, <2>2, Zenon DEF Leads
  <2>5. /\ event.kind = "snap" => me.book.levels = event.levels
        /\ event.kind = "delta" =>
             /\ Idle.state = "LIVE"
             /\ me.book.levels = Changed(Idle.book.levels, event.changes)
    BY <1>1, <1>4, <2>2, <2>3, CoinbaseFits
  <2>6. truth' = event.shown
    BY <1>7, <2>2 DEF Handles, Last
  <2>7. CASE event.kind = "snap"
    BY <2>4, <2>5, <2>6, <2>7
  <2>8. CASE event.kind = "delta"
    <3>1. book.levels = h[frame.seq - 1]
      BY <1>3, <1>4, <2>5, <2>8
    <3>. QED  BY <1>4, <2>4, <2>5, <2>6, <2>8, <3>1
  <2>. QED  BY <2>3, <2>7, <2>8
<1>. QED  BY <1>6, <1>7

(* A frame whose events are handled.                                         *)
LEMMA HandledKeepsInv ==
  ASSUME Inv, up, net # <<>>, UNCHANGED unanswered, Parsed(net[1]) = "next", NEW me, Handles(me)
  PROVE  Inv'
<1>. DEFINE frame == net[1]
            events == frame.events
<1>1. /\ Types /\ Numbers /\ Live /\ Windows /\ Counts
  BY DEF Inv
<1>2. /\ frame \in Frame /\ frame.seq \in Nat /\ events \in Seq(Event) /\ epoch \in Nat
      /\ 1 \in 1..Len(net) /\ driver \in {"coinbase", "kraken"} /\ net \in Seq(Frame)
  <2>1. net \in Seq(Frame) /\ epoch \in Nat /\ driver \in {"coinbase", "kraken"}
    BY <1>1 DEF Types
  <2>2. 1 \in 1..Len(net) /\ net[1] \in Frame
    BY <2>1
  <2>. QED  BY <2>1, <2>2 DEF Frame
<1>3. Shows(events)
  BY <1>1, <1>2 DEF Windows, AllShow
<1>4. Fits(Idle) /\ ~Idle.raised /\ Idle.state = state /\ Idle.book = book
  BY IdleFits DEF Idle
<1>5. /\ me = Handling!Loop(Idle, events, frame.seq) /\ Take(me)
      /\ me.raised => UNCHANGED <<expected, truth, blind>>
      /\ ~me.raised =>
           /\ expected' = IF driver = "coinbase" THEN frame.seq + 1 ELSE expected
           /\ truth' = IF events = <<>> THEN truth ELSE events[Len(events)].shown
           /\ blind' = blind
  BY DEF Handles, Last
<1>. HIDE DEF frame, events
<1>6. /\ Fits(me) /\ (events = <<>> => me = Idle)
      /\ ~me.raised /\ events # <<>> /\ driver = "kraken" =>
           me.book.levels = events[Len(events)].shown
  BY <1>2, <1>3, <1>4, <1>5, FrameFits
<1>7. /\ log' \in Seq(Entry) /\ book' = me.book /\ book' \in Books
      /\ UNCHANGED <<driver, venue, sent, epoch, periodic, used, midnight, late>>
      /\ me.raised \in BOOLEAN /\ me.state \in States
      /\ me.raised => up' = FALSE /\ net' = <<>> /\ state' = "STALE"
      /\ ~me.raised =>
           /\ up' = up /\ net' = Tail(net) /\ state' = me.state
           /\ state' = "LIVE" => Good(book') /\ Relays(log', book', epoch)
  BY <1>5, <1>6, TakeIs
<1>8. CASE me.raised
  <2>1. Types'
    <3>1. <<>> \in Seq(Frame) /\ "STALE" \in States
      BY DEF States
    <3>. QED  BY <1>1, <1>5, <1>7, <1>8, <3>1 DEF Types
  <2>. QED  BY <1>1, <1>5, <1>7, <1>8, <2>1, DownKeepsInv
<1>9. CASE ~me.raised
  <2>1. /\ up' = up /\ net' = Tail(net) /\ state' = me.state /\ book' = me.book /\ driver' = driver
        /\ sent' = sent /\ venue' = venue /\ epoch' = epoch /\ blind' = blind
        /\ state' = "LIVE" => Good(book') /\ Relays(log', book', epoch)
        /\ expected' = IF driver = "coinbase" THEN frame.seq + 1 ELSE expected
        /\ truth' = IF events = <<>> THEN truth ELSE events[Len(events)].shown
    BY <1>5, <1>7, <1>9
  <2>2. /\ net' \in Seq(Frame) /\ Numbers' /\ AllShow(net)'
        /\ \A h : AllLead(net, h) => AllLead(net', h)
        /\ Ordered(net, expected) => Ordered(net', expected')
    <3>. DEFINE next == driver = "coinbase"
    <3>1. next \in BOOLEAN /\ expected' = IF next THEN net[1].seq + 1 ELSE expected
      BY <2>1 DEF frame
    <3>. HIDE DEF next
    <3>. QED  BY <1>7, <2>1, <3>1, TailKeeps
  <2>3. truth' \in SUBSET Level
    <3>1. CASE events = <<>>
      BY <1>1, <2>1, <3>1 DEF Types
    <3>2. CASE events # <<>>
      <4>1. events[Len(events)] \in Event
        BY <1>2, <3>2
      <4>. QED  BY <2>1, <3>2, <4>1 DEF Event
    <3>. QED  BY <3>1, <3>2
  <2>4. Types'
    <3>1. expected' \in Int
      <4>1. expected \in Int
        BY <1>1 DEF Types
      <4>. QED  BY <1>2, <2>1, <4>1
    <3>. QED  BY <1>1, <1>7, <2>1, <2>2, <2>3, <3>1 DEF Types
  <2>5. Live'
    <3>1. state' = "LIVE" => up
      OBVIOUS
    <3>. QED  BY <2>1, <3>1 DEF Live, Good, Relays
  <2>6. Windows'
    <3>1. ASSUME driver = "kraken", state' = "LIVE" PROVE book'.levels = truth'
      <4>1. CASE events = <<>>
        <5>1. state = "LIVE" /\ book' = book /\ truth' = truth
          BY <1>4, <1>6, <2>1, <3>1, <4>1
        <5>. QED  BY <1>1, <3>1, <5>1 DEF Windows
      <4>2. CASE events # <<>>
        BY <1>6, <1>9, <2>1, <3>1, <4>2
      <4>. QED  BY <4>1, <4>2
    <3>. QED  BY <2>1, <2>2, <3>1 DEF Windows
  <2>7. Counts'
    <3>. SUFFICES ASSUME driver = "coinbase" PROVE Ordered(net', expected') /\ (\E h : Follows(h))'
      BY <2>1 DEF Counts
    <3>1. Ordered(net, expected) /\ \E h : Follows(h)
      BY <1>1 DEF Counts
    <3>2. PICK h : Follows(h)
      BY <3>1
    <3>3. h \in [0..sent -> SUBSET Level] /\ h[sent] = venue /\ AllLead(net, h)
      BY <3>2 DEF Follows
    <3>4. AllLead(net, h)'
      BY <2>2, <3>3 DEF AllLead, Leads
    <3>5. expected = -1 \/ net[1].seq = expected
      BY DEF Parsed, Numbered
    <3>6. ASSUME state' = "LIVE", ~blind'
          PROVE  expected' # -1 /\ book'.levels = h[expected' - 1] /\ truth' = h[expected' - 1]
      <4>1. me.book.levels = h[net[1].seq] /\ truth' = h[net[1].seq]
        BY <1>9, <2>1, <3>2, <3>5, <3>6, NextFrameLeadsOn
      <4>2. expected' - 1 = net[1].seq /\ expected' # -1
        BY <1>2, <2>1 DEF frame
      <4>. QED  BY <2>1, <4>1, <4>2
    <3>7. Follows(h)'
      BY <2>1, <3>3, <3>4, <3>6 DEF Follows
    <3>. QED  BY <2>2, <3>1, <3>7
  <2>. QED  BY <2>2, <2>4, <2>5, <2>6, <2>7 DEF Inv
<1>. QED  BY <1>7, <1>8, <1>9

(* One turn of the applier.                                                  *)
LEMMA ReceiveKeepsInv ==
  ASSUME Inv, Receive
  PROVE  Inv'
<1>1. up /\ net # <<>> /\ UNCHANGED unanswered /\ Head(net) = net[1]
  BY DEF Receive
<1>. DEFINE what == Parsed(net[1])
            me == Handling!Loop(Idle, net[1].events, net[1].seq)
<1>2. CASE what # "next" \/ net[1].fault = "garbled"
  <2>1. /\ Take([Idle EXCEPT !.raised = what = "gap"])
        /\ expected' = IF what = "next" /\ driver = "coinbase" THEN net[1].seq + 1 ELSE expected
        /\ truth' = truth /\ blind' = (blind \/ what = "next")
    BY <1>1, <1>2, Zenon DEF Receive, Idle
  <2>2. what = Parsed(net[1])
    OBVIOUS
  <2>. HIDE DEF what
  <2>. QED  BY <1>1, <2>1, <2>2, SkippedKeepsInv
<1>3. CASE ~(what # "next" \/ net[1].fault = "garbled")
  <2>1. /\ Take(me)
        /\ IF me.raised THEN UNCHANGED <<expected, truth, blind>>
           ELSE /\ expected' = IF driver = "coinbase" THEN net[1].seq + 1 ELSE expected
                /\ truth' = IF net[1].events = <<>> THEN truth ELSE Last(net[1].events).shown
                /\ UNCHANGED blind
    BY <1>1, <1>3, Zenon DEF Receive, Idle
  <2>2. Handles(me)
    BY <2>1 DEF Handles
  <2>. QED  BY <1>1, <1>3, <2>2, HandledKeepsInv
<1>. QED  BY <1>2, <1>3

----------------------------------------------------------------------------
\* The specification

(* The invariant holds at first, ...                                         *)
LEMMA InitInv ==
  ASSUME Init
  PROVE  Inv
<1>1. Cleared \in Books /\ <<>> \in Seq(Frame) /\ <<>> \in Seq(Entry) /\ Len(<<>>) = 0
  BY DEF Cleared, Books, Raises
<1>2. MaxFrames \in Nat
  BY InBandAssumption
<1>3. Types
  <2>1. used \in [frames : Nat, faults : Nat, periodic : Nat]
    BY DEF Init
  <2>2. venue \in SUBSET Level
    BY DEF Init
  <2>3. sent \in Nat /\ epoch \in Nat /\ expected \in Int /\ midnight \in Nat /\ Len(periodic) <= 1
    BY <1>1 DEF Init
  <2>4. driver \in {"coinbase", "kraken"} /\ state \in States /\ {up, blind, unanswered, late} \subseteq BOOLEAN
    BY DEF Init, States
  <2>5. net \in Seq(Frame) /\ book \in Books /\ periodic \in Seq(Entry) /\ log \in Seq(Entry)
    BY <1>1, Zenon DEF Init
  <2>6. truth \in SUBSET Level
    BY DEF Init
  <2>. QED  BY <2>1, <2>2, <2>3, <2>4, <2>5, <2>6 DEF Types
<1>4. Numbers /\ Live /\ Windows /\ Counts
  BY <1>1, <1>2 DEF Init, Numbers, NumberedTo, Live, Windows, AllShow, Counts
<1>. QED  BY <1>3, <1>4 DEF Inv

(* ... in every step, ...                                                    *)
LEMMA NextKeepsInv ==
  ASSUME Inv, [Next]_vars
  PROVE  Inv'
<1>1. CASE VenueMoves  BY <1>1, VenueMovesKeepsInv
<1>2. CASE OtherFrame  BY <1>2, OtherFrameKeepsInv
<1>3. CASE Unreliable  BY <1>3, UnreliableKeepsInv
<1>4. CASE Connect  BY <1>4, ConnectKeepsInv
<1>5. CASE Disconnect  BY <1>5, DisconnectKeepsInv
<1>6. CASE Receive  BY <1>6, ReceiveKeepsInv
<1>7. CASE BuildPeriodic  BY <1>7, BuildPeriodicKeepsInv
<1>8. CASE SendPeriodic  BY <1>8, SendPeriodicKeepsInv
<1>9. CASE Midnight  BY <1>9, MidnightKeepsInv
<1>10. CASE UNCHANGED vars
  <2>1. Types' /\ Numbers' /\ Live' /\ Windows'
    BY <1>10 DEF Inv, vars, Types, Numbers, NumberedTo, Live, Good, Relays, Windows, AllShow, Shows
  <2>2. Counts'
    BY <1>10 DEF Inv, vars, Counts, Ordered, Follows, AllLead, Leads
  <2>. QED  BY <2>1, <2>2 DEF Inv
<1>. QED
  BY <1>1, <1>2, <1>3, <1>4, <1>5, <1>6, <1>7, <1>8, <1>9, <1>10 DEF Next

(* ... and so always.                                                        *)
LEMMA InvHolds == Spec => []Inv
BY InitInv, NextKeepsInv, PTL DEF Spec

(* What the invariant says of the types ...                                  *)
LEMMA InvTypes ==
  ASSUME Inv
  PROVE  TypeOK
<1>1. Types /\ Numbers /\ Live
  BY DEF Inv
<1>2. expected \in -1..(MaxFrames + 2)
  <2>1. used.frames \in Nat /\ MaxFrames \in Nat /\ sent \in Nat
    BY <1>1, InBandAssumption DEF Types
  <2>. QED  BY <1>1, <2>1 DEF Numbers
<1>3. state = "LIVE" =>
       /\ up /\ ~Crossed(book.levels) /\ book.raised = "none"
       /\ driver = "kraken" => book.levels = Top(book.levels, Depth)
       /\ \E n \in DOMAIN log : log[n].epoch = epoch /\ log[n].sequence = book.sequence
  BY <1>1 DEF Live, Good, Relays
<1>. QED  BY <1>1, <1>2, <1>3 DEF Types, States, TypeOK

(* ... and of the book.                                                      *)
LEMMA InvBook ==
  ASSUME Inv
  PROVE  BookIsTheVenues
<1>. SUFFICES ASSUME state = "LIVE", ~(blind /\ driver = "coinbase")
              PROVE  book.levels = truth
  BY DEF BookIsTheVenues
<1>1. driver \in {"coinbase", "kraken"} /\ up
  BY DEF Inv, Types, Live
<1>2. CASE driver = "kraken"
  BY <1>2 DEF Inv, Windows
<1>3. CASE driver = "coinbase"
  <2>1. PICK h : Follows(h)
    BY <1>1, <1>3 DEF Inv, Counts
  <2>. QED  BY <1>3, <2>1 DEF Follows
<1>. QED  BY <1>1, <1>2, <1>3

(* The types, for every instance; and a LIVE symbol is connected, its book   *)
(* is neither crossed nor deeper than kraken's window, and a record with     *)
(* the book's sequence was relayed on this connection (process_event of      *)
(* coinbase.py and kraken.py).                                               *)
THEOREM TypeCorrect == Spec => []TypeOK
BY InvHolds, InvTypes, PTL

(* coinbase.py's sequence_num and kraken.py's checksum, for every instance:  *)
(* a LIVE book is what the venue showed with the last frame taken, whatever  *)
(* was lost, repeated, garbled or sent in one frame, unless coinbase         *)
(* skipped a frame that does not decode.                                     *)
THEOREM LiveBookIsTheVenues == Spec => []BookIsTheVenues
BY InvHolds, InvBook, PTL

----------------------------------------------------------------------------
\* What the log says

\* No record of r's epoch has a lower sequence.
Earliest(l, r) == \A q \in 1..Len(l) : l[q].epoch = r.epoch => r.sequence <= l[q].sequence

\* Nothing of an epoch lies between the sequences of a and b.
Adjacent(l, a, b) ==
  \A q \in 1..Len(l) : l[q].epoch = b.epoch =>
    l[q].sequence <= a.sequence \/ b.sequence <= l[q].sequence

\* The delta b makes its book of a's, the record right before it.
Succeeds(l, a, b, d) ==
  /\ a.epoch = b.epoch /\ a.sequence < b.sequence
  /\ d = "kraken" => b.sequence = a.sequence + 1
  /\ b.book = Changed(a.book, b.changes)
  /\ a.kind = "delta" \/ Earliest(l, a)
  /\ Adjacent(l, a, b)

Sound(l, r, d) ==
  /\ 0 <= r.sequence /\ ~Crossed(r.book)
  /\ r.kind = "snap" => r.levels = r.book
  /\ r.kind = "delta" => \E m \in 1..Len(l) : Succeeds(l, l[m], r, d)

\* A sequence of an epoch stands for one book, and its deltas come in order.
Agree(l) == \A m, n \in 1..Len(l) :
  l[m].epoch = l[n].epoch /\ l[m].sequence = l[n].sequence => l[m].book = l[n].book
Rising(l) == \A m, n \in 1..Len(l) :
  m < n /\ l[m].epoch = l[n].epoch /\ l[m].kind = "delta" /\ l[n].kind = "delta" =>
    l[m].sequence < l[n].sequence

Story(l, d) == (\A n \in 1..Len(l) : Sound(l, l[n], d)) /\ Agree(l) /\ Rising(l)

\* b is the newest book of epoch e.
Newest(l, e, s) == \A q \in 1..Len(l) : l[q].epoch = e => l[q].sequence <= s
Holds(l, e, b, r) ==
  /\ r.epoch = e /\ r.sequence = b.sequence /\ r.book = b.levels
  /\ r.kind = "delta" \/ Earliest(l, r)
Tip(l, e, b) == Newest(l, e, b.sequence) /\ \E m \in 1..Len(l) : Holds(l, e, b, l[m])

(* Sequences can be compared.                                                *)
LEMMA SequencesAre ==
  ASSUME NEW l \in Seq(Entry), NEW r \in Entry
  PROVE  r.sequence \in Int /\ \A n \in 1..Len(l) : l[n].sequence \in Int
<1>1. \A n \in 1..Len(l) : l[n] \in Entry
  OBVIOUS
<1>. QED  BY <1>1 DEF Entry

\* l and then r.
Grown(k, l, r) ==
  /\ Len(k) = Len(l) + 1 /\ Len(l) \in Nat /\ k[Len(k)] = r /\ \A n \in 1..Len(l) : k[n] = l[n]

(* A log and a record behind it.                                             *)
LEMMA GrownIs ==
  ASSUME NEW l \in Seq(Entry), NEW r \in Entry
  PROVE  Grown(Append(l, r), l, r) /\ Append(l, r) \in Seq(Entry)
BY DEF Grown

\* r is the newest record of its epoch, or tells of a book that l has told of.
Newer(l, r) == \A q \in 1..Len(l) : l[q].epoch = r.epoch => l[q].sequence < r.sequence
Retold(l, r) == \E q \in 1..Len(l) :
  l[q].epoch = r.epoch /\ l[q].sequence = r.sequence /\ l[q].book = r.book

(* Such a record comes before nothing and between nothing.                   *)
LEMMA GrownKeeps ==
  ASSUME NEW l \in Seq(Entry), NEW r \in Entry, NEW k, Grown(k, l, r), Newer(l, r) \/ Retold(l, r)
  PROVE  /\ \A n \in 1..Len(l) : Earliest(l, l[n]) => Earliest(k, l[n])
         /\ \A m, n \in 1..Len(l) : Adjacent(l, l[m], l[n]) => Adjacent(k, l[m], l[n])
<1>0. /\ r.sequence \in Int
      /\ \A n \in 1..Len(l) : l[n].sequence \in Int
  BY SequencesAre
<1>1. ASSUME NEW n \in 1..Len(l), Earliest(l, l[n]) PROVE Earliest(k, l[n])
  <2>. SUFFICES ASSUME NEW q \in 1..Len(k), k[q].epoch = l[n].epoch
                PROVE  l[n].sequence <= k[q].sequence
    BY DEF Earliest
  <2>1. CASE q \in 1..Len(l)
    BY <1>1, <2>1 DEF Earliest, Grown
  <2>2. CASE q = Len(k)
    <3>1. k[q] = r
      BY <2>2 DEF Grown
    <3>2. CASE Newer(l, r)
      BY <1>0, <3>1, <3>2 DEF Newer
    <3>3. CASE Retold(l, r)
      BY <1>0, <1>1, <3>1, <3>3 DEF Retold, Earliest
    <3>. QED  BY <3>2, <3>3
  <2>. QED  BY <2>1, <2>2 DEF Grown
<1>2. ASSUME NEW m \in 1..Len(l), NEW n \in 1..Len(l), Adjacent(l, l[m], l[n])
      PROVE  Adjacent(k, l[m], l[n])
  <2>. SUFFICES ASSUME NEW q \in 1..Len(k), k[q].epoch = l[n].epoch
                PROVE  k[q].sequence <= l[m].sequence \/ l[n].sequence <= k[q].sequence
    BY DEF Adjacent
  <2>1. CASE q \in 1..Len(l)
    BY <1>2, <2>1 DEF Adjacent, Grown
  <2>2. CASE q = Len(k)
    <3>1. k[q] = r
      BY <2>2 DEF Grown
    <3>2. CASE Newer(l, r)
      BY <1>0, <3>1, <3>2 DEF Newer
    <3>3. CASE Retold(l, r)
      BY <1>0, <1>2, <3>1, <3>3 DEF Retold, Adjacent
    <3>. QED  BY <3>2, <3>3
  <2>. QED  BY <2>1, <2>2 DEF Grown
<1>. QED  BY <1>1, <1>2

(* A sound record leaves a sound log.                                        *)
LEMMA StoryGoesOn ==
  ASSUME NEW d, NEW l \in Seq(Entry), Story(l, d), NEW r \in Entry, NEW k, Grown(k, l, r),
         Newer(l, r) \/ (r.kind = "snap" /\ Retold(l, r)), Sound(k, r, d)
  PROVE  Story(k, d)
<1>0. /\ r.sequence \in Int /\ Len(k) = Len(l) + 1 /\ Len(l) \in Nat /\ k[Len(k)] = r
      /\ \A n \in 1..Len(l) : k[n] = l[n]
      /\ \A n \in 1..Len(l) : l[n].sequence \in Int
  BY SequencesAre DEF Grown
<1>1. ASSUME NEW n \in 1..Len(l) PROVE Sound(k, k[n], d)
  <2>1. Sound(l, l[n], d) /\ k[n] = l[n]
    BY <1>0 DEF Story
  <2>2. ASSUME l[n].kind = "delta" PROVE \E m \in 1..Len(k) : Succeeds(k, k[m], l[n], d)
    <3>1. PICK m \in 1..Len(l) : Succeeds(l, l[m], l[n], d)
      BY <2>1, <2>2 DEF Sound
    <3>2. Succeeds(k, l[m], l[n], d)
      BY <3>1, GrownKeeps DEF Succeeds
    <3>3. m \in 1..Len(k) /\ k[m] = l[m]
      BY <1>0
    <3>. QED  BY <3>2, <3>3
  <2>. QED  BY <2>1, <2>2 DEF Sound
<1>2. \A n \in 1..Len(k) : n \in 1..Len(l) \/ n = Len(k)
  BY <1>0
<1>3. ASSUME NEW n \in 1..Len(l), l[n].epoch = r.epoch, l[n].sequence = r.sequence
      PROVE  l[n].book = r.book
  <2>1. CASE Newer(l, r)
    BY <1>0, <1>3, <2>1 DEF Newer
  <2>2. CASE Retold(l, r)
    BY <1>3, <2>2 DEF Retold, Story, Agree
  <2>. QED  BY <2>1, <2>2
<1>4. Agree(k)
  <2>. SUFFICES ASSUME NEW m \in 1..Len(k), NEW n \in 1..Len(k), k[m].epoch = k[n].epoch,
                       k[m].sequence = k[n].sequence
                PROVE  k[m].book = k[n].book
    BY DEF Agree
  <2>1. CASE m \in 1..Len(l) /\ n \in 1..Len(l)
    BY <1>0, <2>1 DEF Story, Agree
  <2>2. CASE m = Len(k) \/ n = Len(k)
    BY <1>0, <1>2, <1>3, <2>2
  <2>. QED  BY <1>2, <2>1, <2>2
<1>5. Rising(k)
  <2>. SUFFICES ASSUME NEW m \in 1..Len(k), NEW n \in 1..Len(k), m < n, k[m].epoch = k[n].epoch,
                       k[m].kind = "delta", k[n].kind = "delta"
                PROVE  k[m].sequence < k[n].sequence
    BY DEF Rising
  <2>0. m \in 1..Len(l)
    BY <1>0
  <2>1. CASE n \in 1..Len(l)
    BY <1>0, <2>0, <2>1 DEF Story, Rising
  <2>2. CASE n = Len(k)
    BY <1>0, <2>0, <2>2 DEF Newer
  <2>. QED  BY <1>2, <2>1, <2>2
<1>6. Sound(k, k[Len(k)], d)
  BY <1>0
<1>. QED  BY <1>1, <1>2, <1>4, <1>5, <1>6 DEF Story

(* The first snapshot of an epoch.                                           *)
LEMMA EpochOpens ==
  ASSUME NEW d, NEW l \in Seq(Entry), Story(l, d), NEW r \in Entry, r.kind = "snap",
         r.levels = r.book, ~Crossed(r.book), 0 <= r.sequence,
         \A n \in 1..Len(l) : l[n].epoch # r.epoch, NEW b, b.sequence = r.sequence, b.levels = r.book
  PROVE  Story(Append(l, r), d) /\ Tip(Append(l, r), r.epoch, b)
<1>. DEFINE k == Append(l, r)
<1>1. Grown(k, l, r)
  BY GrownIs
<1>. HIDE DEF k
<1>2. Newer(l, r) /\ Sound(k, r, d)
  BY DEF Newer, Sound
<1>3. Story(k, d)
  BY <1>1, <1>2, StoryGoesOn
<1>4. \A q \in 1..Len(k) : k[q].epoch = r.epoch => k[q] = r
  BY <1>1 DEF Grown
<1>5. r.sequence <= r.sequence
  BY DEF Entry
<1>6. Earliest(k, r) /\ Newest(k, r.epoch, b.sequence)
  BY <1>4, <1>5 DEF Earliest, Newest
<1>7. Len(k) \in 1..Len(k) /\ Holds(k, r.epoch, b, k[Len(k)])
  BY <1>1, <1>6 DEF Holds, Grown
<1>8. Story(k, d) /\ Tip(k, r.epoch, b)
  BY <1>3, <1>6, <1>7 DEF Tip
<1>. QED  BY <1>8 DEF k

(* The next delta.                                                           *)
LEMMA BookMovesOn ==
  ASSUME NEW d, NEW l \in Seq(Entry), Story(l, d), NEW r \in Entry, r.kind = "delta",
         ~Crossed(r.book), NEW a, a.sequence \in Int, Tip(l, r.epoch, a), a.sequence < r.sequence,
         d = "kraken" => r.sequence = a.sequence + 1, r.book = Changed(a.levels, r.changes),
         NEW b, b.sequence = r.sequence, b.levels = r.book
  PROVE  Story(Append(l, r), d) /\ Tip(Append(l, r), r.epoch, b)
<1>. DEFINE k == Append(l, r)
<1>1. Grown(k, l, r)
  BY GrownIs
<1>. HIDE DEF k
<1>0. /\ r.sequence \in Int /\ Len(k) = Len(l) + 1 /\ Len(l) \in Nat /\ k[Len(k)] = r
      /\ \A n \in 1..Len(l) : k[n] = l[n]
      /\ \A n \in 1..Len(l) : l[n].sequence \in Int
  BY <1>1, SequencesAre DEF Grown
<1>2. Newer(l, r)
  BY <1>0 DEF Newer, Tip, Newest
<1>3. PICK m \in 1..Len(l) : Holds(l, r.epoch, a, l[m])
  BY DEF Tip
<1>4. Succeeds(k, l[m], r, d)
  <2>1. Adjacent(k, l[m], r)
    <3>. SUFFICES ASSUME NEW q \in 1..Len(k), k[q].epoch = r.epoch
                  PROVE  k[q].sequence <= l[m].sequence \/ r.sequence <= k[q].sequence
      BY DEF Adjacent
    <3>1. CASE q \in 1..Len(l)
      BY <1>0, <1>3, <3>1 DEF Tip, Newest, Holds
    <3>2. CASE q = Len(k)
      BY <1>0, <3>2
    <3>. QED  BY <1>0, <3>1, <3>2
  <2>2. Earliest(l, l[m]) => Earliest(k, l[m])
    BY <1>1, <1>2, GrownKeeps
  <2>. QED  BY <1>3, <2>1, <2>2 DEF Succeeds, Holds
<1>5. Sound(k, r, d)
  <2>1. m \in 1..Len(k) /\ k[m] = l[m]
    BY <1>0
  <2>2. 0 <= r.sequence
    <3>1. Sound(l, l[m], d) /\ l[m].sequence = a.sequence
      BY <1>3 DEF Story, Holds
    <3>. QED  BY <1>0, <3>1 DEF Sound
  <2>. QED  BY <1>4, <2>1, <2>2 DEF Sound
<1>6. Story(k, d)
  BY <1>1, <1>2, <1>5, StoryGoesOn
<1>7. Newest(k, r.epoch, b.sequence)
  <2>. SUFFICES ASSUME NEW q \in 1..Len(k), k[q].epoch = r.epoch PROVE k[q].sequence <= r.sequence
    BY DEF Newest
  <2>1. \A p \in 1..Len(l) : l[p].epoch = r.epoch => l[p].sequence < r.sequence
    BY <1>2 DEF Newer
  <2>2. q \in 1..Len(l) \/ k[q] = r
    BY <1>0
  <2>. QED  BY <1>0, <2>1, <2>2
<1>8. Len(k) \in 1..Len(k) /\ Holds(k, r.epoch, b, k[Len(k)])
  BY <1>0 DEF Holds
<1>9. Story(k, d) /\ Tip(k, r.epoch, b)
  BY <1>6, <1>7, <1>8 DEF Tip
<1>. QED  BY <1>9 DEF k

(* A snapshot of a book that was told of before.                             *)
LEMMA BookIsRetold ==
  ASSUME NEW d, NEW l \in Seq(Entry), Story(l, d), NEW r \in Entry, r.kind = "snap",
         r.levels = r.book, Retold(l, r)
  PROVE  /\ Story(Append(l, r), d)
         /\ \A e, b : Tip(l, e, b) => Tip(Append(l, r), e, b)
<1>. DEFINE k == Append(l, r)
<1>1. Grown(k, l, r)
  BY GrownIs
<1>. HIDE DEF k
<1>0. /\ r.sequence \in Int /\ Len(k) = Len(l) + 1 /\ Len(l) \in Nat /\ k[Len(k)] = r
      /\ \A n \in 1..Len(l) : k[n] = l[n]
      /\ \A n \in 1..Len(l) : l[n].sequence \in Int
  BY <1>1, SequencesAre DEF Grown
<1>2. PICK q \in 1..Len(l) : l[q].epoch = r.epoch /\ l[q].sequence = r.sequence /\ l[q].book = r.book
  BY DEF Retold
<1>3. Sound(k, r, d)
  <2>1. Sound(l, l[q], d)
    BY DEF Story
  <2>. QED  BY <1>2, <2>1 DEF Sound
<1>4. Story(k, d)
  BY <1>1, <1>3, StoryGoesOn
<1>5. ASSUME NEW e, NEW b, Tip(l, e, b) PROVE Tip(k, e, b)
  <2>1. PICK m \in 1..Len(l) : Holds(l, e, b, l[m])
    BY <1>5 DEF Tip
  <2>2. Earliest(l, l[m]) => Earliest(k, l[m])
    BY <1>1, GrownKeeps
  <2>3. m \in 1..Len(k) /\ Holds(k, e, b, k[m])
    BY <1>0, <2>1, <2>2 DEF Holds
  <2>4. Newest(k, e, b.sequence)
    <3>. SUFFICES ASSUME NEW p \in 1..Len(k), k[p].epoch = e PROVE k[p].sequence <= b.sequence
      BY DEF Newest
    <3>1. \A p1 \in 1..Len(l) : l[p1].epoch = e => l[p1].sequence <= b.sequence
      BY <1>5 DEF Tip, Newest
    <3>2. p \in 1..Len(l) \/ k[p] = r
      BY SMTT(40), <1>0
    <3>. QED  BY <1>0, <1>2, <3>1, <3>2
  <2>. QED  BY <2>3, <2>4 DEF Tip
<1>6. Story(k, d) /\ \A e, b : Tip(l, e, b) => Tip(k, e, b)
  BY <1>4, <1>5
<1>. QED  BY <1>6 DEF k

\* The records of k tell what those of l tell, wherever they lie in their topics.
Alike(k, l) ==
  /\ Len(k) = Len(l)
  /\ \A n \in 1..Len(l) :
       /\ k[n].kind = l[n].kind /\ k[n].epoch = l[n].epoch /\ k[n].sequence = l[n].sequence
       /\ k[n].levels = l[n].levels /\ k[n].changes = l[n].changes /\ k[n].book = l[n].book

(* ... so the one log is as sound as the other.                              *)
LEMMA AlikeLogs ==
  ASSUME NEW k, NEW l, NEW d, Alike(k, l)
  PROVE  /\ Story(l, d) => Story(k, d)
         /\ \A e, b : Tip(l, e, b) => Tip(k, e, b)
<1>1. ASSUME NEW n \in 1..Len(l), Earliest(l, l[n]) PROVE Earliest(k, k[n])
  BY <1>1 DEF Earliest, Alike
<1>2. ASSUME NEW m \in 1..Len(l), NEW n \in 1..Len(l), Succeeds(l, l[m], l[n], d)
      PROVE  Succeeds(k, k[m], k[n], d)
  <2>1. Adjacent(k, k[m], k[n])
    BY <1>2 DEF Succeeds, Adjacent, Alike
  <2>2. Earliest(l, l[m]) => Earliest(k, k[m])
    BY <1>1
  <2>3. /\ k[m].kind = l[m].kind /\ k[m].epoch = l[m].epoch /\ k[m].sequence = l[m].sequence
        /\ k[m].book = l[m].book
        /\ k[n].epoch = l[n].epoch /\ k[n].sequence = l[n].sequence
        /\ k[n].changes = l[n].changes /\ k[n].book = l[n].book
    BY DEF Alike
  <2>. QED  BY <1>2, <2>1, <2>2, <2>3 DEF Succeeds
<1>3. ASSUME Story(l, d) PROVE Story(k, d)
  <2>1. ASSUME NEW n \in 1..Len(l) PROVE Sound(k, k[n], d)
    <3>1. Sound(l, l[n], d)
      BY <1>3 DEF Story
    <3>2. /\ k[n].kind = l[n].kind /\ k[n].sequence = l[n].sequence
          /\ k[n].levels = l[n].levels /\ k[n].book = l[n].book /\ Len(k) = Len(l)
      BY DEF Alike
    <3>3. ASSUME k[n].kind = "delta" PROVE \E m \in 1..Len(k) : Succeeds(k, k[m], k[n], d)
      <4>1. PICK m \in 1..Len(l) : Succeeds(l, l[m], l[n], d)
        BY <3>1, <3>2, <3>3 DEF Sound
      <4>. QED  BY <1>2, <3>2, <4>1
    <3>. QED  BY <3>1, <3>2, <3>3 DEF Sound
  <2>2. Agree(k) /\ Rising(k)
    BY <1>3 DEF Story, Agree, Rising, Alike
  <2>3. Len(k) = Len(l)
    BY DEF Alike
  <2>. QED  BY <2>1, <2>2, <2>3 DEF Story
<1>4. ASSUME NEW e, NEW b, Tip(l, e, b) PROVE Tip(k, e, b)
  <2>1. PICK m \in 1..Len(l) : Holds(l, e, b, l[m])
    BY <1>4 DEF Tip
  <2>2. Holds(k, e, b, k[m])
    <3>1. /\ k[m].kind = l[m].kind /\ k[m].epoch = l[m].epoch /\ k[m].sequence = l[m].sequence
          /\ k[m].book = l[m].book
      BY DEF Alike
    <3>. QED  BY <1>1, <2>1, <3>1 DEF Holds
  <2>3. Newest(k, e, b.sequence) /\ Len(k) = Len(l)
    BY <1>4 DEF Tip, Newest, Alike
  <2>. QED  BY <2>2, <2>3 DEF Tip
<1>. QED  BY <1>3, <1>4

----------------------------------------------------------------------------
\* What a frame adds to the log

(* The list of a finite set has all its members.                             *)
LEMMA ListHasAll ==
  ASSUME NEW S, IsFiniteSet(S)
  PROVE  \A x \in S : \E n \in 1..Len(SetToSeq(S)) : SetToSeq(S)[n] = x
<1>. DEFINE N == Cardinality(S)
            f == SetToSeq(S)
<1>1. N \in Nat /\ ExistsBijection(1..N, S)
  BY FS_CardinalityType
<1>2. \E g : g \in [1..N -> S] /\ IsInjective(g)
  BY <1>1 DEF ExistsBijection, Bijection, Injection
<1>3. f \in [1..N -> S] /\ IsInjective(f)
  BY <1>2, Zenon DEF SetToSeq
<1>4. Len(f) = N
  BY ListOfSet
<1>. HIDE DEF f
<1>5. f \in Injection(1..N, S)
  BY <1>3 DEF Injection, IsInjective
<1>6. Cardinality(1..N) = N /\ IsFiniteSet(1..N)
  BY <1>1, FS_Interval
<1>7. f \in Surjection(1..N, S)
  BY <1>5, <1>6, FS_Injection
<1>. QED  BY <1>4, <1>7 DEF Surjection, f

(* Removals take away the levels they name.                                  *)
LEMMA Removed ==
  ASSUME NEW L, NEW E \in SUBSET Level
  PROVE  Changed(L, SetToSeq(Changes(E, FALSE))) = L \ E
<1>. DEFINE S == Changes(E, FALSE)
            q == SetToSeq(S)
<1>1. IsFiniteSet(S)
  BY ChangesOf
<1>2. q \in Seq(S) /\ Len(q) \in Nat /\ \A x \in S : \E n \in 1..Len(q) : q[n] = x
  BY <1>1, ListOfSet, ListHasAll
<1>3. \A x \in S : x.on = FALSE /\ x.level \in E
  BY DEF Changes
<1>4. ASSUME NEW l \in E PROVE \E x \in S : x.level = l
  <2>1. [level |-> l, on |-> FALSE] \in S
    BY DEF Changes
  <2>. QED  BY <2>1
<1>. HIDE DEF q, S
<1>5. PICK st : /\ st[0] = L /\ st[Len(q)] = Changed(L, q)
                /\ \A n \in 1..Len(q) : st[n] = ChangeOne(st[n - 1], q[n], {})
  <2>1. Changed(L, q) = Changing!Loop(L, q, {})
    BY DEF Changed
  <2>. QED  BY SMTT(40), <1>2, <2>1, Changing!LoopStates
<1>6. \A n \in 1..Len(q) : q[n] \in S
  BY <1>2
<1>. DEFINE Off(n) == {q[i].level : i \in 1..n}
            Ks == {n \in 0..Len(q) : st[n] = L \ Off(n)}
<1>7. 0 \in Ks
  <2>1. Off(0) = {}
    OBVIOUS
  <2>2. L \ {} = L
    OBVIOUS
  <2>. QED  BY <1>2, <1>5, <2>1, <2>2
<1>8. ASSUME NEW n \in 1..Len(q), n - 1 \in Ks PROVE n \in Ks
  <2>1. st[n] = st[n - 1] \ {q[n].level}
    BY <1>3, <1>5, <1>6 DEF ChangeOne
  <2>2. Off(n) = Off(n - 1) \cup {q[n].level}
    <3>1. \A i \in 1..n : i \in 1..(n - 1) \/ i = n
      BY <1>2
    <3>2. \A i \in 1..(n - 1) : i \in 1..n
      BY <1>2
    <3>3. n \in 1..n
      BY <1>2
    <3>. QED  BY <3>1, <3>2, <3>3
  <2>3. st[n - 1] = L \ Off(n - 1)
    BY <1>8
  <2>. HIDE DEF Off
  <2>4. st[n] = L \ Off(n)
    BY <2>1, <2>2, <2>3
  <2>. QED  BY <2>4
<1>9. Off(Len(q)) = E
  BY <1>2, <1>3, <1>4, <1>6
<1>. HIDE DEF Ks, Off
<1>10. \A n \in 0..Len(q) : n \in Ks
  BY <1>2, <1>7, <1>8, Changing!UpTo
<1>11. Len(q) \in Ks
  BY <1>2, <1>10
<1>12. Changed(L, q) = L \ E
  BY <1>5, <1>9, <1>11 DEF Ks
<1>. QED  BY <1>12 DEF q, S

(* _deletes: the relayed update leads to the trimmed book.                   *)
LEMMA RelayedLeads ==
  ASSUME NEW L \in SUBSET Level, NEW event \in Event, NEW E \in SUBSET Level
  PROVE  /\ Relayed(event, E) \in Seq(Change)
         /\ Changed(L, Relayed(event, E)) = Changed(L, event.changes) \ E
<1>. DEFINE q == SetToSeq(Changes(E, FALSE))
<1>1. Changes(E, FALSE) \subseteq Change /\ IsFiniteSet(Changes(E, FALSE))
  BY ChangesOf
<1>2. q \in Seq(Change)
  <2>. DEFINE S == Changes(E, FALSE)
  <2>1. q \in Seq(S) /\ S \subseteq Change
    BY <1>1, ListOfSet
  <2>. HIDE DEF q, S
  <2>. QED  BY <2>1
<1>3. event.changes \in Seq(Change)
  BY DEF Event
<1>4. Relayed(event, E) = event.changes \o q
  BY DEF Relayed
<1>5. Changed(Changed(L, event.changes), q) = Changed(L, event.changes) \ E
  BY Removed
<1>. HIDE DEF q
<1>6. Changed(L, event.changes \o q) = Changed(Changed(L, event.changes), q)
  BY <1>2, <1>3, Changing!LoopOfTwo DEF Changed
<1>7. event.changes \o q \in Seq(Change)
  BY <1>2, <1>3
<1>. QED  BY <1>4, <1>5, <1>6, <1>7

\* What is added is of this connection, and a snapshot its first record.
Adds(out) == \A n \in 1..Len(out) :
  /\ out[n].epoch = epoch
  /\ out[n].kind = "snap" => n = 1 /\ \A k \in 1..Len(log) : log[k].epoch # epoch

\* What the log tells with what an outcome adds to it.
Tells(me) ==
  /\ Story(log \o me.out, driver) /\ Adds(me.out)
  /\ \A n \in 1..Len(log \o me.out) : (log \o me.out)[n].epoch <= epoch
  /\ ~me.raised =>
       /\ me.state # "STALE"
       /\ me.state = "BOOTSTRAP" =>
            \A n \in 1..Len(log \o me.out) : (log \o me.out)[n].epoch # epoch
       /\ me.state = "LIVE" => Tip(log \o me.out, epoch, me.book)

(* A connection that is given up adds nothing more.                          *)
LEMMA GivenUpTells ==
  ASSUME NEW me, Tells(me), NEW now, now.out = me.out, now.raised
  PROVE  Tells(now)
BY DEF Tells

\* The event makes the book `next` of the outcome's.
Makes(me, event, changes, next) ==
  /\ event.kind = "snap" =>
       me.state = "BOOTSTRAP" /\ 0 <= next.sequence /\ next.levels = event.levels
  /\ event.kind = "delta" =>
       /\ me.state = "LIVE" /\ me.book.sequence < next.sequence
       /\ driver = "kraken" => next.sequence = me.book.sequence + 1
       /\ next.levels = Changed(me.book.levels, changes)

(* The record of an event.                                                   *)
LEMMA EntryIs ==
  ASSUME NEW kind \in {"snap", "delta"}, NEW e \in Nat, NEW s \in Int, NEW levels \in SUBSET Level,
         NEW changes \in Seq(Change), NEW b \in SUBSET Level
  PROVE  [kind |-> kind, epoch |-> e, sequence |-> s, offset |-> 0, levels |-> levels,
          changes |-> changes, book |-> b] \in Entry
BY DEF Entry

(* A relayed event goes on with the story.                                   *)
LEMMA EmittedTells ==
  ASSUME epoch \in Nat, log \in Seq(Entry), NEW me \in Outcome, ~me.raised, Tells(me),
         NEW next \in Books, ~Crossed(next.levels),
         NEW at \in Outcome, at = [me EXCEPT !.book = next], NEW event \in Event,
         NEW changes \in Seq(Change), Makes(me, event, changes, next)
  PROVE  Tells(Emitting(at, event.kind, event, changes))
<1>. DEFINE r == Record(event.kind, at, event, changes)
            now == Emitting(at, event.kind, event, changes)
            l == log \o me.out
<1>1. /\ event.kind \in {"snap", "delta"} /\ event.levels \in SUBSET Level
      /\ next.sequence \in Int /\ next.levels \in SUBSET Level /\ me.out \in Seq(Entry)
      /\ me.state \in States /\ me.book.sequence \in Int
  BY DEF Event, Outcome, Books
<1>2. at.book = next /\ at.out = me.out /\ at.raised = me.raised
  BY DEF Outcome
<1>3. r = [kind |-> event.kind, epoch |-> epoch, sequence |-> next.sequence, offset |-> 0,
           levels |-> event.levels, changes |-> changes, book |-> next.levels]
  BY <1>2 DEF Record
<1>4. /\ r \in Entry /\ r.epoch = epoch /\ r.sequence = next.sequence /\ r.book = next.levels
      /\ r.kind = event.kind /\ r.levels = event.levels /\ r.changes = changes
  <2>1. r \in Entry
    <3>1. \A kind \in {"snap", "delta"}, e \in Nat, s \in Int, levels \in SUBSET Level,
            q \in Seq(Change), b \in SUBSET Level :
            [kind |-> kind, epoch |-> e, sequence |-> s, offset |-> 0, levels |-> levels,
             changes |-> q, book |-> b] \in Entry
      BY EntryIs
    <3>2. changes \in Seq(Change) /\ epoch \in Nat
      OBVIOUS
    <3>3. [kind |-> event.kind, epoch |-> epoch, sequence |-> next.sequence, offset |-> 0,
           levels |-> event.levels, changes |-> changes, book |-> next.levels] \in Entry
      BY <1>1, <3>1, <3>2, Zenon
    <3>. QED  BY <1>3, <3>3, Zenon
  <2>2. /\ r.epoch = epoch /\ r.sequence = next.sequence /\ r.book = next.levels
        /\ r.kind = event.kind /\ r.levels = event.levels /\ r.changes = changes
    BY <1>3
  <2>. QED  BY <2>1, <2>2
<1>5. now = [at EXCEPT !.state = "LIVE", !.out = Append(@, r)]
  BY DEF Emitting
<1>. HIDE DEF r, now
<1>6. now.out = Append(me.out, r) /\ now.state = "LIVE" /\ now.book = next /\ ~now.raised
  BY <1>2, <1>5 DEF Outcome
<1>7. log \o now.out = Append(l, r) /\ l \in Seq(Entry)
  <2>1. log \o Append(me.out, r) = Append(log \o me.out, r)
    BY SMTT(40), <1>1, <1>4
  <2>. QED  BY <1>1, <1>6, <2>1
<1>. HIDE DEF l
<1>8. /\ Story(l, driver)
      /\ \A n \in 1..Len(l) : l[n].epoch <= epoch
      /\ me.state = "BOOTSTRAP" => \A n \in 1..Len(l) : l[n].epoch # epoch
      /\ me.state = "LIVE" => Tip(l, epoch, me.book)
  BY DEF Tells, l
<1>9. Story(Append(l, r), driver) /\ Tip(Append(l, r), epoch, next)
  <2>1. CASE event.kind = "snap"
    <3>1. \A n \in 1..Len(l) : l[n].epoch # r.epoch
      BY <1>4, <1>8, <2>1 DEF Makes
    <3>2. r.kind = "snap" /\ r.levels = r.book /\ ~Crossed(r.book) /\ 0 <= r.sequence
      BY <1>4, <2>1 DEF Makes
    <3>. QED  BY <1>4, <1>7, <1>8, <3>1, <3>2, EpochOpens
  <2>2. CASE event.kind = "delta"
    <3>1. Tip(l, r.epoch, me.book)
      BY <1>4, <1>8, <2>2 DEF Makes
    <3>2. /\ r.kind = "delta" /\ ~Crossed(r.book) /\ me.book.sequence < r.sequence
          /\ driver = "kraken" => r.sequence = me.book.sequence + 1
          /\ r.book = Changed(me.book.levels, r.changes)
      BY <1>4, <2>2 DEF Makes
    <3>. QED  BY <1>1, <1>4, <1>7, <1>8, <3>1, <3>2, BookMovesOn
  <2>. QED  BY <1>1, <2>1, <2>2
<1>10. \A n \in 1..Len(Append(l, r)) : Append(l, r)[n].epoch <= epoch
  BY <1>4, <1>7, <1>8
<1>11. Adds(now.out)
  <2>. DEFINE M == Len(me.out)
              K == Len(log)
  <2>1. /\ M \in Nat /\ K \in Nat /\ Len(Append(me.out, r)) = M + 1 /\ Append(me.out, r)[M + 1] = r
        /\ \A n \in 1..M : Append(me.out, r)[n] = me.out[n]
        /\ Len(l) = K + M /\ (\A k \in 1..K : l[k] = log[k]) /\ \A n \in 1..M : l[K + n] = me.out[n]
    BY SMTT(40), <1>1, <1>4 DEF l
  <2>2. Adds(me.out)
    BY DEF Tells
  <2>3. ASSUME r.kind = "snap" PROVE M = 0 /\ \A k \in 1..K : log[k].epoch # epoch
    <3>1. \A n \in 1..(K + M) : l[n].epoch # epoch
      BY <1>4, <1>8, <2>1, <2>3 DEF Makes
    <3>2. \A k \in 1..K : k \in 1..(K + M)
      BY <2>1
    <3>3. ASSUME M # 0 PROVE FALSE
      <4>1. 1 \in 1..M /\ K + 1 \in 1..(K + M)
        BY <2>1, <3>3
      <4>. QED  BY <2>1, <2>2, <3>1, <4>1 DEF Adds
    <3>. QED  BY <2>1, <3>1, <3>2, <3>3
  <2>. HIDE DEF M
  <2>4. ASSUME NEW n \in 1..(M + 1)
        PROVE  /\ Append(me.out, r)[n].epoch = epoch
               /\ Append(me.out, r)[n].kind = "snap" =>
                    n = 1 /\ \A k \in 1..K : log[k].epoch # epoch
    <3>1. CASE n = M + 1
      BY <1>4, <2>1, <2>3, <3>1
    <3>2. CASE n \in 1..M
      BY <2>1, <2>2, <3>2 DEF Adds, M
    <3>. QED  BY <2>1, <3>1, <3>2
  <2>. QED  BY <1>6, <2>1, <2>4 DEF Adds
<1>12. Tells(now)
  BY <1>6, <1>7, <1>9, <1>10, <1>11 DEF Tells
<1>. QED  BY <1>12 DEF now

(* process_event of coinbase.                                                *)
LEMMA CoinbaseTells ==
  ASSUME epoch \in Nat, log \in Seq(Entry), driver = "coinbase", NEW me \in Outcome, ~me.raised,
         Tells(me), NEW event \in Event, event.kind = "snap" => me.state # "LIVE", NEW seq \in Nat
  PROVE  Tells(CoinbaseEvent(me, event, seq))
<1>. DEFINE next == IF event.kind = "snap" THEN Snapped(me.book, seq, event.levels)
                    ELSE Moved(me.book, seq, event.changes)
            at == [me EXCEPT !.book = next]
            now == CoinbaseEvent(me, event, seq)
<1>1. /\ me.book \in Books /\ event.levels \in SUBSET Level
      /\ event.changes \in Seq(Change) /\ event.kind \in {"snap", "delta"} /\ seq \in Int
      /\ me.state \in States /\ me.state # "STALE"
  BY DEF Outcome, Event, Tells
<1>2. /\ next \in Books
      /\ next.raised = "none" =>
           /\ ~Crossed(next.levels) /\ next.sequence = seq
           /\ event.kind = "snap" => next.levels = event.levels
           /\ event.kind = "delta" =>
                next.levels = Changed(me.book.levels, event.changes) /\ me.book.sequence < seq
  <2>1. CASE event.kind = "snap"
    <3>1. next = Snapped(me.book, seq, event.levels)
      BY <2>1
    <3>. HIDE DEF next
    <3>. QED  BY <1>1, <2>1, <3>1, SnappedIs
  <2>2. CASE event.kind = "delta"
    <3>1. next = Moved(me.book, seq, event.changes)
      BY <2>2
    <3>. HIDE DEF next
    <3>. QED  BY <1>1, <2>2, <3>1, MovedIs
  <2>. QED  BY <1>1, <2>1, <2>2
<1>3. CASE event.kind = "delta" /\ me.state # "LIVE"
  <2>1. CoinbaseEvent(me, event, seq) = Resync(me)
    BY <1>3 DEF CoinbaseEvent
  <2>2. Resync(me).out = me.out /\ Resync(me).raised
    BY DEF Resync, Outcome
  <2>. QED  BY <2>1, <2>2, GivenUpTells
<1>4. CASE ~(event.kind = "delta" /\ me.state # "LIVE") /\ next.raised # "none"
  <2>1. now = Broken(me)
    BY <1>4, Zenon DEF CoinbaseEvent
  <2>2. Broken(me).out = me.out /\ Broken(me).raised
    BY DEF Broken, Outcome
  <2>. QED  BY <2>1, <2>2, GivenUpTells
<1>5. CASE ~(event.kind = "delta" /\ me.state # "LIVE") /\ next.raised = "none"
  <2>1. now = Emitting(at, event.kind, event, event.changes)
    BY <1>5, Zenon DEF CoinbaseEvent
  <2>. HIDE DEF next
  <2>2. at \in Outcome
    BY <1>1, <1>2 DEF Outcome
  <2>3. Makes(me, event, event.changes, next)
    <3>1. event.kind = "snap" => me.state = "BOOTSTRAP"
      BY <1>1 DEF States
    <3>. QED  BY <1>1, <1>2, <1>5, <3>1 DEF Makes
  <2>4. Tells(Emitting(at, event.kind, event, event.changes))
    <3>1. at = [me EXCEPT !.book = next]
      OBVIOUS
    <3>. HIDE DEF at
    <3>. QED  BY <1>1, <1>2, <1>5, <2>2, <2>3, <3>1, EmittedTells
  <2>. QED  BY <2>1, <2>4
<1>. QED  BY <1>3, <1>4, <1>5

(* process_event of kraken.                                                  *)
LEMMA KrakenTells ==
  ASSUME epoch \in Nat, log \in Seq(Entry), driver = "kraken", NEW me \in Outcome, ~me.raised,
         Tells(me), NEW event \in Event,
         event.kind = "snap" => me.state # "LIVE" /\ event.levels = Top(event.levels, Depth)
  PROVE  Tells(KrakenEvent(me, event))
<1>. DEFINE next == IF event.kind = "snap" THEN Snapped(me.book, 0, event.levels)
                    ELSE Moved(me.book, me.book.sequence + 1, event.changes)
            evicted == Evicted(next.levels, Depth)
            trimmed == [next EXCEPT !.levels = @ \ evicted]
            at == [me EXCEPT !.book = trimmed]
            now == KrakenEvent(me, event)
            relayed == Relayed(event, evicted)
<1>1. /\ me.book \in Books /\ event.levels \in SUBSET Level
      /\ event.changes \in Seq(Change) /\ event.kind \in {"snap", "delta"}
      /\ me.book.sequence \in Int /\ me.book.sequence + 1 \in Int /\ 0 \in Int
      /\ me.book.levels \in SUBSET Level /\ me.state \in States /\ me.state # "STALE"
      /\ Depth \in Nat
  <2>1. me.book \in Books
    BY DEF Outcome
  <2>2. Depth \in Nat
    BY InBandAssumption
  <2>. QED  BY <2>1, <2>2 DEF Outcome, Event, Books, Tells
<1>2. /\ next \in Books
      /\ next.raised = "none" =>
           /\ ~Crossed(next.levels)
           /\ event.kind = "snap" => next.levels = event.levels /\ next.sequence = 0
           /\ event.kind = "delta" =>
                next.levels = Changed(me.book.levels, event.changes) /\ next.sequence = me.book.sequence + 1
  <2>1. CASE event.kind = "snap"
    <3>1. next = Snapped(me.book, 0, event.levels)
      BY <2>1
    <3>. HIDE DEF next
    <3>. QED  BY <1>1, <2>1, <3>1, SnappedIs
  <2>2. CASE event.kind = "delta"
    <3>1. next = Moved(me.book, me.book.sequence + 1, event.changes)
      BY <2>2
    <3>. HIDE DEF next
    <3>. QED  BY <1>1, <2>2, <3>1, MovedIs
  <2>. QED  BY <1>1, <2>1, <2>2
<1>3. CASE event.kind = "delta" /\ me.state # "LIVE"
  <2>1. KrakenEvent(me, event) = Resync(me)
    BY <1>3 DEF KrakenEvent
  <2>2. Resync(me).out = me.out /\ Resync(me).raised
    BY DEF Resync, Outcome
  <2>. QED  BY <2>1, <2>2, GivenUpTells
<1>4. CASE ~(event.kind = "delta" /\ me.state # "LIVE") /\ next.raised # "none"
  <2>1. now = Broken(me)
    BY <1>4, Zenon DEF KrakenEvent
  <2>2. Broken(me).out = me.out /\ Broken(me).raised
    BY DEF Broken, Outcome
  <2>. QED  BY <2>1, <2>2, GivenUpTells
<1>5. CASE ~(event.kind = "delta" /\ me.state # "LIVE") /\ next.raised = "none" /\ ~Verified(trimmed, event)
  <2>1. now = Resync(at)
    BY <1>5, Zenon DEF KrakenEvent
  <2>2. Resync(at).out = me.out /\ Resync(at).raised
    <3>. HIDE DEF trimmed
    <3>. QED  BY DEF Resync, Outcome
  <2>. QED  BY <2>1, <2>2, GivenUpTells
<1>6. CASE ~(event.kind = "delta" /\ me.state # "LIVE") /\ next.raised = "none" /\ Verified(trimmed, event)
  <2>1. now = Emitting(at, event.kind, event, relayed)
    BY <1>6, Zenon DEF KrakenEvent
  <2>. HIDE DEF next
  <2>2. next.levels \in SUBSET Level /\ next.sequence \in Int
    BY <1>2 DEF Books
  <2>3. /\ evicted \in SUBSET Level /\ next.levels \ evicted = Top(next.levels, Depth)
        /\ next.levels \ evicted \subseteq next.levels
    <3>1. /\ Top(next.levels, Depth) \in SUBSET next.levels
          /\ Evicted(next.levels, Depth) \in SUBSET next.levels
          /\ next.levels \ Evicted(next.levels, Depth) = Top(next.levels, Depth)
      <4>1. \A L \in SUBSET Level :
              /\ Top(L, Depth) \in SUBSET L /\ Evicted(L, Depth) \in SUBSET L
              /\ L \ Evicted(L, Depth) = Top(L, Depth)
        BY <1>1, WindowIs
      <4>. QED  BY <2>2, <4>1
    <3>. QED  BY <2>2, <3>1
  <2>. HIDE DEF evicted
  <2>4. /\ trimmed \in Books /\ trimmed.levels = next.levels \ evicted
        /\ trimmed.sequence = next.sequence
    BY <1>2, <2>2 DEF Books
  <2>. HIDE DEF trimmed
  <2>5. ~Crossed(trimmed.levels)
    BY <1>2, <1>6, <2>3, <2>4, PartIsNotCrossed
  <2>6. at \in Outcome
    BY <2>4 DEF Outcome
  <2>7. relayed \in Seq(Change) /\ Changed(me.book.levels, relayed) = Changed(me.book.levels, event.changes) \ evicted
    BY ZenonT(60), <1>1, <2>3, RelayedLeads
  <2>8. Makes(me, event, relayed, trimmed)
    <3>1. CASE event.kind = "snap"
      <4>1. me.state = "BOOTSTRAP"
        BY <1>1, <3>1 DEF States
      <4>2. trimmed.sequence = 0 /\ trimmed.levels = event.levels
        BY <1>2, <1>6, <2>3, <2>4, <3>1
      <4>. QED  BY <3>1, <4>1, <4>2 DEF Makes
    <3>2. CASE event.kind = "delta"
      <4>1. me.state = "LIVE" /\ trimmed.sequence = me.book.sequence + 1
        BY <1>2, <1>6, <2>4, <3>2
      <4>2. trimmed.levels = Changed(me.book.levels, relayed)
        BY <1>2, <1>6, <2>4, <2>7, <3>2
      <4>3. me.book.sequence < trimmed.sequence
        BY <1>1, <4>1
      <4>. QED  BY <3>2, <4>1, <4>2, <4>3 DEF Makes
    <3>. QED  BY <1>1, <3>1, <3>2
  <2>. HIDE DEF relayed
  <2>9. Tells(Emitting(at, event.kind, event, relayed))
    <3>1. at = [me EXCEPT !.book = trimmed]
      OBVIOUS
    <3>. HIDE DEF at
    <3>. QED  BY <2>4, <2>5, <2>6, <2>7, <2>8, <3>1, EmittedTells
  <2>. QED  BY <2>1, <2>9 DEF now
<1>. QED  BY <1>3, <1>4, <1>5, <1>6

\* A snapshot comes with a frame that is its own, the first of the connection;
\* kraken does not say so, but there it is the head, as long as it is awaited.
OpensOne(f, n, d, s) ==
  \A m \in 1..Len(f.events) : f.events[m].kind = "snap" =>
    /\ m = 1 /\ f.events[m].levels = f.events[m].shown
    /\ d = "coinbase" => f.seq = 1
    /\ d = "kraken" => n = 1 /\ s = "BOOTSTRAP"
Opens(q, d, s) == \A n \in 1..Len(q) : OpensOne(q[n], n, d, s)

(* Either venue's event.                                                     *)
LEMMA HandledTells ==
  ASSUME epoch \in Nat, log \in Seq(Entry), driver \in {"coinbase", "kraken"},
         NEW me \in Outcome, Tells(me), NEW event \in Event, NEW seq \in Nat,
         event.kind = "snap" => me.state # "LIVE" /\ event.levels = event.shown,
         driver = "kraken" => event.shown = Top(event.shown, Depth)
  PROVE  Tells(Handled(me, event, seq))
<1>1. CASE me.raised
  BY <1>1 DEF Handled
<1>2. CASE ~me.raised /\ driver = "coinbase"
  <2>1. Handled(me, event, seq) = CoinbaseEvent(me, event, seq)
    BY <1>2 DEF Handled
  <2>2. Tells(CoinbaseEvent(me, event, seq))
    BY <1>2, CoinbaseTells
  <2>. QED  BY <2>1, <2>2
<1>3. CASE ~me.raised /\ driver = "kraken"
  <2>1. Handled(me, event, seq) = KrakenEvent(me, event)
    BY <1>3 DEF Handled
  <2>2. event.kind = "snap" => me.state # "LIVE" /\ event.levels = Top(event.levels, Depth)
    BY <1>3
  <2>3. Tells(KrakenEvent(me, event))
    BY <1>3, <2>2, KrakenTells
  <2>. QED  BY <2>1, <2>3
<1>4. me.raised \in BOOLEAN
  BY DEF Outcome
<1>. QED  BY <1>1, <1>2, <1>3, <1>4

(* The events of a frame; coinbase's book has then the frame's number.       *)
LEMMA FrameTells ==
  ASSUME epoch \in Nat, log \in Seq(Entry), driver \in {"coinbase", "kraken"}, NEW idle, Fits(idle),
         Tells(idle), NEW frame, frame.events \in Seq(Event), Shows(frame.events), frame.seq \in Nat,
         OpensOne(frame, 1, driver, "BOOTSTRAP"), driver = "kraken" /\ idle.state # "BOOTSTRAP" =>
           \A m \in 1..Len(frame.events) : frame.events[m].kind # "snap",
         driver = "coinbase" /\ idle.state = "LIVE" => frame.seq # 1
  PROVE  LET me == Handling!Loop(idle, frame.events, frame.seq)
         IN  /\ Tells(me)
             /\ ~me.raised /\ frame.events # <<>> /\ driver = "coinbase" => me.book.sequence = frame.seq
<1>. DEFINE events == frame.events
            seq == frame.seq
            me == Handling!Loop(idle, events, seq)
            N == Len(events)
<1>1. N \in Nat /\ events \in Seq(Event) /\ seq \in Nat
  OBVIOUS
<1>0. PICK st : Handling!Goes(st, idle, events, seq)
  BY <1>1, Handling!LoopGoes, Zenon
<1>2. /\ st[0] = idle /\ st[N] = me
      /\ \A n \in 1..N : st[n] = Handled(st[n - 1], events[n], seq)
  BY <1>0, Zenon DEF Handling!Goes
<1>3. /\ \A m \in 1..N : driver = "kraken" => events[m].shown = Top(events[m].shown, Depth)
      /\ \A m \in 1..N : events[m].kind = "snap" => m = 1 /\ events[m].levels = events[m].shown
  BY DEF Shows, OpensOne
<1>4. idle.state = "LIVE" => \A m \in 1..N : events[m].kind # "snap"
  BY DEF OpensOne
<1>. DEFINE S == {n \in 0..N :
                   /\ Fits(st[n]) /\ Tells(st[n])
                   /\ ~st[n].raised /\ n # 0 /\ driver = "coinbase" => st[n].book.sequence = seq}
<1>. HIDE DEF me, N, events, seq
<1>5. 0 \in S
  BY <1>1, <1>2
<1>6. ASSUME NEW n \in 1..N, n - 1 \in S PROVE n \in S
  <2>1. /\ Fits(st[n - 1]) /\ Tells(st[n - 1])
        /\ st[n] = Handled(st[n - 1], events[n], seq) /\ n \in 0..N /\ N = Len(events)
    BY <1>1, <1>2, <1>6 DEF N
  <2>2. st[n - 1] \in Outcome
    BY <2>1 DEF Fits
  <2>3. driver = "kraken" => events[n].shown = Top(events[n].shown, Depth)
    BY <1>3
  <2>4. events[n] \in Event
    BY <1>1, <2>1
  <2>5. Fits(Handled(st[n - 1], events[n], seq))
    BY <1>1, <2>1, <2>3, <2>4, HandledFits
  <2>6. events[n].kind = "snap" => st[n - 1].state # "LIVE" /\ events[n].levels = events[n].shown
    <3>. SUFFICES ASSUME events[n].kind = "snap" PROVE st[n - 1].state # "LIVE"
      BY <1>3
    <3>1. n = 1 /\ idle.state # "LIVE"
      BY <1>3, <1>4
    <3>. QED  BY <1>2, <3>1
  <2>7. Tells(Handled(st[n - 1], events[n], seq))
    BY <1>1, <2>1, <2>2, <2>3, <2>4, <2>6, HandledTells
  <2>8. ASSUME ~st[n].raised, driver = "coinbase" PROVE st[n].book.sequence = seq
    <3>1. ~st[n - 1].raised
      BY <2>1, <2>8 DEF Handled
    <3>2. st[n] = CoinbaseEvent(st[n - 1], events[n], seq)
      BY <2>1, <2>8, <3>1 DEF Handled
    <3>3. ~CoinbaseEvent(st[n - 1], events[n], seq).raised =>
            CoinbaseEvent(st[n - 1], events[n], seq).book.sequence = seq
      BY <1>1, <2>1, <2>4, <2>8, <3>1, CoinbaseFits
    <3>. QED  BY <2>8, <3>2, <3>3
  <2>. QED  BY <2>1, <2>5, <2>7, <2>8
<1>. HIDE DEF S
<1>7. \A n \in 0..N : n \in S
  BY <1>1, <1>5, <1>6, Handling!UpTo
<1>8. N \in S
  BY <1>1, <1>7
<1>9. Tells(me) /\ (~me.raised /\ N # 0 /\ driver = "coinbase" => me.book.sequence = seq)
  BY <1>2, <1>8 DEF S
<1>10. events # <<>> => N # 0
  BY <1>1 DEF N
<1>. QED  BY <1>9, <1>10 DEF me, events, seq

----------------------------------------------------------------------------
\* The story is told on

Told ==
  /\ Story(log, driver) /\ Opens(net, driver, state)
  /\ \A n \in 1..Len(log) : log[n].epoch <= epoch
  /\ up => state # "STALE"
  /\ state = "BOOTSTRAP" => \A n \in 1..Len(log) : log[n].epoch # epoch
  /\ state = "LIVE" => Tip(log, epoch, book)
  /\ state = "LIVE" /\ driver = "coinbase" => book.sequence < expected
  /\ \A i \in 1..Len(periodic) :
       periodic[i].kind = "snap" /\ periodic[i].levels = periodic[i].book /\ Retold(log, periodic[i])
  /\ midnight <= Len(log)

\* Neither the log nor what is to be appended changes.
SameStory == UNCHANGED <<driver, log, epoch, state, book, expected, periodic>>

(* While only frames come and go, ...                                        *)
LEMMA FramesKeepTold ==
  ASSUME Told, SameStory, UNCHANGED <<up, midnight>>, Opens(net', driver, state)
  PROVE  Told'
<1>1. /\ Story(log', driver') /\ Opens(net', driver', state')
      /\ state' = "LIVE" => Tip(log', epoch', book')
      /\ \A i \in 1..Len(periodic') : Retold(log', periodic'[i])
  BY Zenon DEF Told, SameStory
<1>2. (Story(log, driver) /\ Opens(net, driver, state))'
  BY <1>1
<1>3. (state = "LIVE" => Tip(log, epoch, book))' /\ (\A i \in 1..Len(periodic) : Retold(log, periodic[i]))'
  BY <1>1
<1>. QED  BY <1>2, <1>3 DEF Told, SameStory

(* ... a new frame has no snapshot, and behind a frame's event comes none;   *)
LEMMA VenueMovesKeepsTold ==
  ASSUME Inv, Told, VenueMoves
  PROVE  Told'
<1>1. net \in Seq(Frame) /\ SameStory /\ UNCHANGED <<up, midnight>> /\ Opens(net, driver, state)
  BY DEF Inv, Types, VenueMoves, SameStory, history, Told
<1>2. PICK after : LET event == DeltaEvent(after) IN
        \/ net' = net
        \/ Put(<<event>>)
        \/ /\ net # <<>> /\ Last(net).events # <<>>
           /\ net' = [net EXCEPT ![Len(net)].events = Append(@, event)]
  BY Zenon DEF VenueMoves
<1>. DEFINE event == DeltaEvent(after)
<1>3. event.kind = "delta"
  BY DEF DeltaEvent
<1>. HIDE DEF event
<1>4. CASE net' = net
  BY <1>1, <1>4, FramesKeepTold
<1>5. CASE Put(<<event>>)
  <2>. DEFINE frame == [seq |-> sent + 1, events |-> <<event>>, fault |-> "none"]
  <2>1. net' = Append(net, frame) /\ frame.events = <<event>>
    BY <1>5 DEF Put
  <2>2. \A n : OpensOne(frame, n, driver, state)
    BY <1>3, <2>1 DEF OpensOne
  <2>. HIDE DEF frame
  <2>3. Opens(net', driver, state)
    <3>1. \A n \in 1..Len(net') : (n \in 1..Len(net) /\ net'[n] = net[n]) \/ net'[n] = frame
      BY <1>1, <2>1
    <3>. QED  BY <1>1, <2>2, <3>1, Zenon DEF Opens
  <2>. QED  BY <1>1, <2>3, FramesKeepTold
<1>6. CASE /\ net # <<>> /\ Last(net).events # <<>>
           /\ net' = [net EXCEPT ![Len(net)].events = Append(@, event)]
  <2>. DEFINE N == Len(net)
              old == net[N]
              frame == [old EXCEPT !.events = Append(@, event)]
  <2>1. N \in 1..N /\ old \in Frame /\ old.events \in Seq(Event) /\ old.events # <<>>
    <3>1. N \in 1..N /\ net[N] \in Frame
      BY <1>1, <1>6
    <3>. QED  BY <1>6, <3>1 DEF Last, Frame
  <2>2. frame.events = Append(old.events, event) /\ frame.seq = old.seq
    BY <2>1 DEF Frame
  <2>3. \A n \in 1..Len(net') : n \in 1..N /\ net'[n] = IF n = N THEN frame ELSE net[n]
    BY <1>1, <1>6, <2>1
  <2>. HIDE DEF frame, N, old
  <2>4. OpensOne(old, N, driver, state)
    BY <1>1, <2>1 DEF Opens, N, old
  <2>5. ASSUME NEW m \in 1..Len(frame.events), frame.events[m].kind = "snap"
        PROVE  m \in 1..Len(old.events) /\ frame.events[m] = old.events[m]
    <3>1. m = Len(old.events) + 1 => frame.events[m] = event
      BY <2>1, <2>2
    <3>2. m # Len(old.events) + 1
      BY <1>3, <2>5, <3>1
    <3>. QED  BY <2>1, <2>2, <3>2
  <2>6. OpensOne(frame, N, driver, state)
    BY <2>2, <2>4, <2>5 DEF OpensOne
  <2>7. Opens(net', driver, state)
    BY <1>1, <2>3, <2>6 DEF Opens, N
  <2>. QED  BY <1>1, <2>7, FramesKeepTold
<1>. QED  BY <1>2, <1>4, <1>5, <1>6 DEF event

(* ... nor does a frame for another symbol, ...                              *)
LEMMA OtherFrameKeepsTold ==
  ASSUME Inv, Told, OtherFrame
  PROVE  Told'
<1>1. net \in Seq(Frame) /\ SameStory /\ UNCHANGED <<up, midnight>> /\ Opens(net, driver, state)
  BY DEF Inv, Types, OtherFrame, SameStory, history, Told
<1>. DEFINE frame == [seq |-> sent + 1, events |-> <<>>, fault |-> "none"]
<1>2. net' = Append(net, frame) /\ frame.events = <<>>
  BY DEF OtherFrame, Put
<1>3. \A n : OpensOne(frame, n, driver, state)
  BY <1>2 DEF OpensOne
<1>. HIDE DEF frame
<1>4. Opens(net', driver, state)
  <2>1. \A n \in 1..Len(net') : (n \in 1..Len(net) /\ net'[n] = net[n]) \/ net'[n] = frame
    BY <1>1, <1>2
  <2>. QED  BY <1>1, <1>3, <2>1, Zenon DEF Opens
<1>. QED  BY <1>1, <1>4, FramesKeepTold

(* ... and kraken's head becomes no other's place.                           *)
LEMMA UnreliableKeepsTold ==
  ASSUME Inv, Told, Unreliable
  PROVE  Told'
<1>1. /\ net \in Seq(Frame) /\ SameStory /\ UNCHANGED <<up, midnight>> /\ Opens(net, driver, state)
      /\ driver \in {"coinbase", "kraken"}
  BY DEF Inv, Types, Unreliable, SameStory, Told
<1>2. PICK k \in 1..Len(net) :
       \/ net' = RemoveAt(net, k)
       \/ net' = [net EXCEPT ![k].fault = "garbled"]
       \/ driver = "coinbase" /\ net' = Append(net, [net[k] EXCEPT !.fault = "again"])
  <2>1. DOMAIN net = 1..Len(net)
    BY <1>1
  <2>. QED  BY <2>1 DEF Unreliable
<1>3. net[k] \in Frame
  BY <1>1
<1>4. ASSUME NEW n \in 1..Len(net')
      PROVE  \E m \in 1..Len(net) : /\ net'[n].seq = net[m].seq /\ net'[n].events = net[m].events
                                    /\ driver = "kraken" => m >= n
  <2>1. CASE net' = RemoveAt(net, k)
    <3>1. Len(net') = Len(net) - 1 /\ net'[n] = net[IF n < k THEN n ELSE n + 1]
      BY <1>1, <2>1, WithoutOne
    <3>2. (IF n < k THEN n ELSE n + 1) \in 1..Len(net) /\ (IF n < k THEN n ELSE n + 1) >= n
      BY <1>1, <3>1
    <3>. QED  BY <3>1, <3>2
  <2>2. CASE net' = [net EXCEPT ![k].fault = "garbled"]
    <3>. DEFINE r == [net[k] EXCEPT !.fault = "garbled"]
    <3>1. r.seq = net[k].seq /\ r.events = net[k].events
      BY <1>3 DEF Frame
    <3>2. n \in 1..Len(net) /\ net'[n] = IF n = k THEN r ELSE net[n]
      BY <1>1, <2>2
    <3>3. n >= n
      OBVIOUS
    <3>. HIDE DEF r
    <3>. QED  BY <3>1, <3>2, <3>3
  <2>3. CASE driver = "coinbase" /\ net' = Append(net, [net[k] EXCEPT !.fault = "again"])
    <3>. DEFINE r == [net[k] EXCEPT !.fault = "again"]
    <3>1. r.seq = net[k].seq /\ r.events = net[k].events
      BY <1>3 DEF Frame
    <3>. HIDE DEF r
    <3>2. net' = Append(net, r) /\ driver # "kraken"
      BY <2>3 DEF r
    <3>3. net'[n] = r \/ (n \in 1..Len(net) /\ net'[n] = net[n])
      BY <1>1, <3>2
    <3>. QED  BY <3>1, <3>2, <3>3
  <2>. QED  BY <1>2, <2>1, <2>2, <2>3
<1>5. ASSUME NEW n \in 1..Len(net') PROVE OpensOne(net'[n], n, driver, state)
  <2>1. PICK m \in 1..Len(net) : /\ net'[n].seq = net[m].seq /\ net'[n].events = net[m].events
                                 /\ driver = "kraken" => m >= n
    BY <1>4
  <2>2. OpensOne(net[m], m, driver, state)
    BY <1>1 DEF Opens
  <2>3. driver = "kraken" /\ m = 1 => n = 1
    BY <1>1, <2>1
  <2>. QED  BY <2>1, <2>2, <2>3 DEF OpensOne
<1>6. Opens(net', driver, state)
  BY <1>5 DEF Opens
<1>. QED  BY <1>1, <1>6, FramesKeepTold

(* A new connection has told nothing yet.                                    *)
LEMMA ConnectKeepsTold ==
  ASSUME Inv, Told, Connect
  PROVE  Told'
<1>1. /\ epoch \in Nat /\ epoch' = epoch + 1 /\ state' = "BOOTSTRAP" /\ up' = TRUE
      /\ net' = <<[seq |-> 1, events |-> <<SnapshotEvent>>, fault |-> "none"]>>
      /\ UNCHANGED <<driver, log, periodic, midnight>>
      /\ log \in Seq(Entry)
  BY DEF Inv, Types, Connect
<1>2. SnapshotEvent.levels = SnapshotEvent.shown
  BY DEF SnapshotEvent
<1>3. Opens(net', driver, "BOOTSTRAP")
  <2>. DEFINE frame == [seq |-> 1, events |-> <<SnapshotEvent>>, fault |-> "none"]
  <2>1. Len(net') = 1 /\ net'[1] = frame /\ frame.seq = 1 /\ frame.events = <<SnapshotEvent>>
    BY <1>1
  <2>. HIDE DEF frame
  <2>2. Len(<<SnapshotEvent>>) = 1 /\ <<SnapshotEvent>>[1] = SnapshotEvent
    OBVIOUS
  <2>3. OpensOne(frame, 1, driver, "BOOTSTRAP")
    BY <1>2, <2>1, <2>2 DEF OpensOne
  <2>. QED  BY <2>1, <2>3 DEF Opens
<1>4. \A n \in 1..Len(log) : log[n].epoch \in Nat
  <2>1. \A n \in 1..Len(log) : log[n] \in Entry
    BY <1>1
  <2>. QED  BY <2>1 DEF Entry
<1>5. \A n \in 1..Len(log) : log[n].epoch <= epoch' /\ log[n].epoch # epoch'
  BY <1>1, <1>4 DEF Told
<1>6. (Story(log, driver) /\ Opens(net, driver, state))'
  BY <1>1, <1>3 DEF Told
<1>7. (\A i \in 1..Len(periodic) : Retold(log, periodic[i]))'
  BY <1>1 DEF Told
<1>. QED  BY <1>1, <1>5, <1>6, <1>7 DEF Told

(* A connection that ends tells nothing more.                                *)
LEMMA DownKeepsTold ==
  ASSUME Story(log', driver'), \A n \in 1..Len(log') : log'[n].epoch <= epoch',
         up' = FALSE, net' = <<>>, state' = "STALE",
         \A i \in 1..Len(periodic') :
            periodic'[i].kind = "snap" /\ periodic'[i].levels = periodic'[i].book /\ Retold(log', periodic'[i]),
         midnight' <= Len(log')
  PROVE  Told'
<1>1. Opens(net', driver', state')
  BY DEF Opens
<1>2. (Story(log, driver) /\ Opens(net, driver, state))'
  BY <1>1
<1>3. (\A i \in 1..Len(periodic) : Retold(log, periodic[i]))'
  OBVIOUS
<1>. QED  BY <1>2, <1>3 DEF Told

(* ... as when it is lost.                                                   *)
LEMMA DisconnectKeepsTold ==
  ASSUME Told, Disconnect
  PROVE  Told'
<1>1. /\ up' = FALSE /\ net' = <<>> /\ state' = "STALE"
      /\ log' = log /\ driver' = driver /\ epoch' = epoch /\ periodic' = periodic /\ midnight' = midnight
  BY DEF Disconnect, Drop
<1>. QED  BY <1>1, DownKeepsTold DEF Told

(* A periodic snapshot tells of the newest book, ...                         *)
LEMMA BuildPeriodicKeepsTold ==
  ASSUME Inv, Told, BuildPeriodic
  PROVE  Told'
<1>. DEFINE r == [kind |-> "snap", epoch |-> epoch, sequence |-> book.sequence, offset |-> 0,
                  levels |-> book.levels, changes |-> <<>>, book |-> book.levels]
<1>1. /\ state = "LIVE" /\ periodic' = <<r>>
      /\ UNCHANGED <<driver, net, up, epoch, expected, state, book, log, midnight>>
  BY DEF BuildPeriodic, venueVars, history
<1>2. /\ r.kind = "snap" /\ r.levels = r.book /\ r.epoch = epoch /\ r.sequence = book.sequence
      /\ r.book = book.levels
  OBVIOUS
<1>. HIDE DEF r
<1>3. Retold(log, r)
  BY <1>1, <1>2 DEF Told, Tip, Holds, Retold
<1>4. Len(periodic') = 1 /\ periodic'[1] = r
  BY <1>1
<1>5. \A i \in 1..Len(periodic') :
        periodic'[i].kind = "snap" /\ periodic'[i].levels = periodic'[i].book /\ Retold(log', periodic'[i])
  BY <1>1, <1>2, <1>3, <1>4
<1>6. (\A i \in 1..Len(periodic) :
        periodic[i].kind = "snap" /\ periodic[i].levels = periodic[i].book /\ Retold(log, periodic[i]))'
  BY <1>5
<1>7. (Story(log, driver) /\ Opens(net, driver, state))' /\ (state = "LIVE" => Tip(log, epoch, book))'
  BY <1>1 DEF Told
<1>. QED  BY <1>1, <1>6, <1>7 DEF Told

(* ... which the log holds already when it is sent.                          *)
LEMMA SendPeriodicKeepsTold ==
  ASSUME Inv, Told, SendPeriodic
  PROVE  Told'
<1>. DEFINE r == [periodic[1] EXCEPT !.offset = Len(log) + 1]
<1>1. /\ periodic # <<>> /\ periodic' = <<>> /\ log' = Append(log, r)
      /\ UNCHANGED <<driver, net, up, epoch, expected, state, book, midnight>>
      /\ periodic \in Seq(Entry) /\ log \in Seq(Entry) /\ epoch \in Nat /\ midnight \in Nat
  BY DEF SendPeriodic, venueVars, Inv, Types
<1>2. 1 \in 1..Len(periodic) /\ periodic[1] \in Entry
  BY <1>1
<1>3. /\ r \in Entry /\ r.kind = "snap" /\ r.levels = r.book /\ Retold(log, r)
  <2>1. /\ r \in Entry /\ r.kind = periodic[1].kind /\ r.levels = periodic[1].levels
        /\ r.book = periodic[1].book /\ r.epoch = periodic[1].epoch /\ r.sequence = periodic[1].sequence
    <3>1. Len(log) + 1 \in Nat
      BY <1>1
    <3>. QED  BY <1>2, <3>1 DEF Entry
  <2>2. /\ periodic[1].kind = "snap" /\ periodic[1].levels = periodic[1].book
        /\ Retold(log, periodic[1])
    BY <1>2 DEF Told
  <2>. HIDE DEF r
  <2>. QED  BY <2>1, <2>2 DEF Retold
<1>. HIDE DEF r
<1>4. Story(log', driver') /\ (state' = "LIVE" => Tip(log', epoch', book'))
  <2>1. Story(log, driver) /\ (state = "LIVE" => Tip(log, epoch, book))
    BY DEF Told
  <2>2. Story(Append(log, r), driver) /\ \A e, b : Tip(log, e, b) => Tip(Append(log, r), e, b)
    BY <1>1, <1>3, <2>1, BookIsRetold
  <2>. QED  BY <1>1, <2>1, <2>2
<1>5. PICK q \in 1..Len(log) : log[q].epoch = r.epoch
  BY <1>3 DEF Retold
<1>6. ASSUME NEW n \in 1..Len(log') PROVE \E m \in 1..Len(log) : log'[n].epoch = log[m].epoch
  <2>1. (n \in 1..Len(log) /\ log'[n] = log[n]) \/ log'[n] = r
    BY <1>1, <1>3
  <2>. QED  BY <1>5, <2>1
<1>7. /\ \A n \in 1..Len(log') : log'[n].epoch <= epoch'
      /\ state' = "BOOTSTRAP" => \A n \in 1..Len(log') : log'[n].epoch # epoch'
  BY <1>1, <1>6 DEF Told
<1>8. midnight' <= Len(log') /\ Len(periodic') = 0
  BY <1>1, <1>3 DEF Told
<1>9. (Story(log, driver) /\ Opens(net, driver, state))' /\ (state = "LIVE" => Tip(log, epoch, book))'
  BY <1>1, <1>4 DEF Told
<1>. QED  BY <1>1, <1>7, <1>8, <1>9 DEF Told

(* The day changes no record.                                                *)
LEMMA MidnightKeepsTold ==
  ASSUME Inv, Told, Midnight
  PROVE  Told'
<1>1. /\ SameStory /\ net' = net /\ up' = up /\ midnight' = Len(log) /\ log \in Seq(Entry)
  BY DEF Midnight, SameStory, venueVars, Inv, Types
<1>2. /\ Story(log', driver') /\ Opens(net', driver', state')
      /\ state' = "LIVE" => Tip(log', epoch', book')
      /\ \A i \in 1..Len(periodic') : Retold(log', periodic'[i])
  BY <1>1, Zenon DEF Told, SameStory
<1>3. (Story(log, driver) /\ Opens(net, driver, state))'
  BY <1>2
<1>4. (state = "LIVE" => Tip(log, epoch, book))' /\ (\A i \in 1..Len(periodic) : Retold(log, periodic[i]))'
  BY <1>2
<1>5. midnight' <= Len(log')
  BY <1>1 DEF SameStory
<1>. QED  BY <1>1, <1>3, <1>4, <1>5 DEF Told, SameStory

\* What is behind the log is numbered on, and as it is added.
Lengthens ==
  /\ \A n \in 1..Len(log) : n \in 1..Len(log') /\ log'[n] = log[n]
  /\ \A n \in 1..Len(log') : n \in 1..Len(log) \/
       /\ log'[n].offset = n /\ log'[n].epoch = epoch
       /\ log'[n].kind = "snap" =>
            n = Len(log) + 1 /\ \A k \in 1..Len(log) : log[k].epoch # epoch

(* The log grows by what an outcome relays.                                  *)
LEMMA TakenTells ==
  ASSUME Inv, up, NEW me, Fits(me), Tells(me), Take(me)
  PROVE  /\ Story(log', driver') /\ \A n \in 1..Len(log') : log'[n].epoch <= epoch'
         /\ ~me.raised =>
              /\ me.state # "STALE"
              /\ me.state = "BOOTSTRAP" => \A n \in 1..Len(log') : log'[n].epoch # epoch'
              /\ me.state = "LIVE" => Tip(log', epoch', me.book)
         /\ \A r : Retold(log, r) => Retold(log', r)
         /\ Len(log) <= Len(log') /\ Lengthens
<1>. DEFINE N == Len(log)
            l == log \o me.out
            added == [n \in DOMAIN me.out |-> [me.out[n] EXCEPT !.offset = N + n]]
<1>1. log \in Seq(Entry) /\ me.out \in Seq(Entry) /\ driver' = driver /\ epoch' = epoch
  BY TakeIs DEF Inv, Types, Fits, Outcome
<1>2. log' = log \o added
  BY DEF Take
<1>3. DOMAIN added = 1..Len(me.out) /\ Len(added) = Len(me.out) /\ Len(me.out) \in Nat
  BY <1>1
<1>4. ASSUME NEW n \in 1..Len(me.out)
      PROVE  /\ added[n].kind = me.out[n].kind /\ added[n].epoch = me.out[n].epoch
             /\ added[n].sequence = me.out[n].sequence /\ added[n].levels = me.out[n].levels
             /\ added[n].changes = me.out[n].changes /\ added[n].book = me.out[n].book
             /\ added[n].offset = N + n
  <2>1. me.out[n] \in Entry /\ n \in DOMAIN me.out
    BY <1>1
  <2>2. added[n] = [me.out[n] EXCEPT !.offset = N + n]
    BY <2>1
  <2>. HIDE DEF added, N
  <2>. QED  BY <2>1, <2>2 DEF Entry
<1>. HIDE DEF added
<1>5. /\ Len(l) = N + Len(me.out) /\ Len(log') = N + Len(me.out) /\ N \in Nat
      /\ \A n \in 1..N : l[n] = log[n] /\ log'[n] = log[n]
      /\ \A n \in 1..Len(me.out) : l[N + n] = me.out[n] /\ log'[N + n] = added[n]
  <2>1. /\ Len(l) = N + Len(me.out) /\ N \in Nat /\ \A n \in 1..N : l[n] = log[n]
        /\ \A n \in 1..Len(me.out) : l[N + n] = me.out[n]
    BY <1>1
  <2>2. added \in Seq(Entry)
    <3>1. \A n \in 1..Len(me.out) : added[n] \in Entry
      <4>. SUFFICES ASSUME NEW n \in 1..Len(me.out) PROVE added[n] \in Entry
        OBVIOUS
      <4>1. me.out[n] \in Entry /\ N + n \in Nat /\ n \in DOMAIN me.out
        BY <1>1
      <4>2. added[n] = [me.out[n] EXCEPT !.offset = N + n]
        BY <4>1 DEF added
      <4>. HIDE DEF N
      <4>. QED  BY <4>1, <4>2 DEF Entry
    <3>2. added = [n \in 1..Len(me.out) |-> added[n]]
      BY <1>3 DEF added
    <3>. QED  BY <1>3, <3>1, <3>2, IsASeq
  <2>3. /\ Len(log') = N + Len(me.out) /\ \A n \in 1..N : log'[n] = log[n]
        /\ \A n \in 1..Len(me.out) : log'[N + n] = added[n]
    <3>1. /\ Len(log \o added) = Len(log) + Len(added)
          /\ \A n \in 1..Len(log) : (log \o added)[n] = log[n]
          /\ \A n \in 1..Len(added) : (log \o added)[Len(log) + n] = added[n]
      BY <1>1, <2>2
    <3>. QED  BY <1>2, <1>3, <3>1
  <2>. QED  BY <2>1, <2>3
<1>6. \A n \in 1..Len(l) : n \in 1..N \/ \E k \in 1..Len(me.out) : n = N + k
  <2>1. \A n \in 1..(N + Len(me.out)) : n \in 1..N \/ (n - N \in 1..Len(me.out) /\ n = N + (n - N))
    BY <1>3, <1>5
  <2>. QED  BY <1>5, <2>1
<1>. HIDE DEF l, N
<1>7. Alike(log', l)
  <2>. SUFFICES ASSUME NEW n \in 1..Len(l)
                PROVE  /\ log'[n].kind = l[n].kind /\ log'[n].epoch = l[n].epoch
                       /\ log'[n].sequence = l[n].sequence /\ log'[n].levels = l[n].levels
                       /\ log'[n].changes = l[n].changes /\ log'[n].book = l[n].book
    BY <1>5 DEF Alike
  <2>1. CASE n \in 1..N
    BY <1>5, <2>1
  <2>2. CASE \E k \in 1..Len(me.out) : n = N + k
    <3>1. PICK k \in 1..Len(me.out) : n = N + k
      BY <2>2
    <3>2. l[n] = me.out[k] /\ log'[n] = added[k]
      BY <1>5, <3>1
    <3>. QED  BY <1>4, <3>2
  <2>. QED  BY <1>6, <2>1, <2>2
<1>8. /\ Story(l, driver) => Story(log', driver)
      /\ \A e, b : Tip(l, e, b) => Tip(log', e, b)
  BY <1>7, AlikeLogs
<1>9. \A n \in 1..Len(log') : n \in 1..Len(l) /\ log'[n].epoch = l[n].epoch
  BY <1>7 DEF Alike
<1>10. /\ Story(l, driver) /\ \A n \in 1..Len(l) : l[n].epoch <= epoch
       /\ ~me.raised =>
            /\ me.state # "STALE"
            /\ me.state = "BOOTSTRAP" => \A n \in 1..Len(l) : l[n].epoch # epoch
            /\ me.state = "LIVE" => Tip(l, epoch, me.book)
  BY DEF Tells, l
<1>11. ASSUME NEW r, Retold(log, r) PROVE Retold(log', r)
  <2>1. PICK q \in 1..Len(log) :
          log[q].epoch = r.epoch /\ log[q].sequence = r.sequence /\ log[q].book = r.book
    BY <1>11 DEF Retold
  <2>2. q \in 1..Len(log') /\ log'[q] = log[q]
    BY <1>3, <1>5 DEF N
  <2>. QED  BY <2>1, <2>2 DEF Retold
<1>12. Len(log) <= Len(log')
  BY <1>3, <1>5 DEF N
<1>13. Lengthens
  <2>1. Adds(me.out)
    BY DEF Tells
  <2>2. N = Len(log)
    BY DEF N
  <2>3. \A n \in 1..N : n \in 1..Len(log') /\ log'[n] = log[n]
    BY <1>3, <1>5
  <2>4. ASSUME NEW k \in 1..Len(me.out)
        PROVE  /\ log'[N + k].offset = N + k /\ log'[N + k].epoch = epoch
               /\ log'[N + k].kind = "snap" => N + k = N + 1 /\ \A q \in 1..N : log[q].epoch # epoch
    <3>1. /\ log'[N + k].offset = N + k /\ log'[N + k].epoch = me.out[k].epoch
          /\ log'[N + k].kind = me.out[k].kind
      BY <1>4, <1>5
    <3>. QED  BY <2>1, <2>2, <3>1 DEF Adds
  <2>5. \A n \in 1..Len(log') : n \in 1..N \/ \E k \in 1..Len(me.out) : n = N + k
    BY <1>5, <1>6
  <2>. QED  BY <2>2, <2>3, <2>4, <2>5 DEF Lengthens
<1>. QED  BY <1>1, <1>8, <1>9, <1>10, <1>11, <1>12, <1>13

(* Before a frame's events the outcome tells what the log does.              *)
LEMMA IdleTells ==
  ASSUME Inv, Told, up, NEW r \in BOOLEAN
  PROVE  Tells([Idle EXCEPT !.raised = r]) /\ Tells(Idle)
<1>1. log \in Seq(Entry) /\ Idle.out = <<>> /\ Idle.state = state /\ Idle.book = book
  BY DEF Inv, Types, Idle
<1>2. log \o <<>> = log
  BY <1>1
<1>3. /\ [Idle EXCEPT !.raised = r].out = <<>> /\ [Idle EXCEPT !.raised = r].state = state
      /\ [Idle EXCEPT !.raised = r].book = book
  BY DEF Idle
<1>4. Adds(<<>>)
  BY DEF Adds
<1>. QED  BY <1>1, <1>2, <1>3, <1>4 DEF Told, Tells

(* Behind the head, kraken has no snapshot.                                  *)
LEMMA TailOpens ==
  ASSUME NEW q \in Seq(Frame), q # <<>>, NEW d, NEW s, NEW t, Opens(q, d, s)
  PROVE  Opens(Tail(q), d, t)
<1>. SUFFICES ASSUME NEW n \in 1..Len(Tail(q)) PROVE OpensOne(Tail(q)[n], n, d, t)
  BY DEF Opens
<1>1. n + 1 \in 1..Len(q) /\ Tail(q)[n] = q[n + 1] /\ n + 1 # 1
  BY HeadTailProperties
<1>2. OpensOne(q[n + 1], n + 1, d, s)
  BY <1>1 DEF Opens
<1>. QED  BY <1>1, <1>2 DEF OpensOne

(* No sequence is negative.                                                  *)
LEMMA LiveFromZero ==
  ASSUME Inv, Told, state = "LIVE"
  PROVE  0 <= book.sequence /\ book.sequence \in Int
<1>1. PICK m \in 1..Len(log) : Holds(log, epoch, book, log[m])
  BY DEF Told, Tip
<1>2. Sound(log, log[m], driver)
  BY DEF Told, Story
<1>3. book \in Books
  BY DEF Inv, Types
<1>. QED  BY <1>1, <1>2, <1>3 DEF Holds, Sound, Books

(* A frame is taken.                                                         *)
LEMMA TakenKeepsTold ==
  ASSUME Inv, Told, up, net # <<>>, NEW me, Fits(me), Tells(me), Take(me),
         ~me.raised /\ me.state = "LIVE" /\ driver = "coinbase" => me.book.sequence < expected'
  PROVE  Told'
<1>1. /\ UNCHANGED <<driver, epoch, periodic, midnight>> /\ book' = me.book
      /\ me.raised \in BOOLEAN
      /\ me.raised => up' = FALSE /\ net' = <<>> /\ state' = "STALE"
      /\ ~me.raised => up' = up /\ net' = Tail(net) /\ state' = me.state
  BY TakeIs
<1>2. /\ Story(log', driver') /\ \A n \in 1..Len(log') : log'[n].epoch <= epoch'
      /\ ~me.raised =>
           /\ me.state # "STALE"
           /\ me.state = "BOOTSTRAP" => \A n \in 1..Len(log') : log'[n].epoch # epoch'
           /\ me.state = "LIVE" => Tip(log', epoch', me.book)
      /\ \A r : Retold(log, r) => Retold(log', r)
      /\ Len(log) <= Len(log')
  BY TakenTells
<1>3. \A i \in 1..Len(periodic') : /\ periodic'[i].kind = "snap"
                                   /\ periodic'[i].levels = periodic'[i].book
                                   /\ Retold(log', periodic'[i])
  BY <1>1, <1>2 DEF Told
<1>4. midnight' <= Len(log')
  <2>1. midnight <= Len(log) /\ midnight \in Nat /\ log \in Seq(Entry) /\ log' \in Seq(Entry)
    BY TakeIs DEF Inv, Types, Told
  <2>2. Len(log) \in Nat /\ Len(log') \in Nat
    BY <2>1
  <2>. QED  BY <1>1, <1>2, <2>1, <2>2
<1>5. CASE me.raised
  BY <1>1, <1>2, <1>3, <1>4, <1>5, DownKeepsTold
<1>6. CASE ~me.raised
  <2>1. Opens(net', driver', state')
    <3>1. Opens(net, driver, state) /\ net \in Seq(Frame)
      BY DEF Told, Inv, Types
    <3>2. Opens(Tail(net), driver, state')
      BY <3>1, TailOpens
    <3>. QED  BY <1>1, <1>6, <3>2
  <2>2. (Story(log, driver) /\ Opens(net, driver, state))'
    BY <1>2, <2>1
  <2>3. state' = "LIVE" => Tip(log', epoch', book')
    BY <1>1, <1>2, <1>6
  <2>4. (state = "LIVE" => Tip(log, epoch, book))' /\ (\A i \in 1..Len(periodic) : Retold(log, periodic[i]))'
    BY <1>3, <2>3
  <2>5. /\ state' # "STALE"
        /\ state' = "BOOTSTRAP" => \A n \in 1..Len(log') : log'[n].epoch # epoch'
        /\ state' = "LIVE" /\ driver' = "coinbase" => book'.sequence < expected'
    BY <1>1, <1>2, <1>6
  <2>. QED  BY <1>2, <1>3, <1>4, <2>2, <2>4, <2>5 DEF Told
<1>. QED  BY <1>1, <1>5, <1>6

\* What the applier takes when it takes a frame.
Takes(me) ==
  /\ Fits(me) /\ Tells(me) /\ Take(me)
  /\ ~me.raised /\ me.state = "LIVE" /\ driver = "coinbase" => me.book.sequence < expected'

(* One turn of the applier takes what tells on.                              *)
LEMMA ReceiveTakes ==
  ASSUME Inv, Told, Receive
  PROVE  \E me : Takes(me)
<1>1. up /\ net # <<>> /\ Head(net) = net[1]
  BY DEF Receive
<1>. DEFINE frame == net[1]
            what == Parsed(frame)
            me == Handling!Loop(Idle, frame.events, frame.seq)
<1>2. /\ net \in Seq(Frame) /\ log \in Seq(Entry) /\ epoch \in Nat /\ driver \in {"coinbase", "kraken"}
      /\ expected \in Int /\ 1 \in 1..Len(net)
      /\ expected = -1 \/ expected \in 2..(sent + 1)
  <2>1. net \in Seq(Frame)
    BY DEF Inv, Types
  <2>2. 1 \in 1..Len(net)
    BY <1>1, <2>1
  <2>. QED  BY <2>1, <2>2 DEF Inv, Types, Numbers
<1>3. /\ frame \in Frame /\ frame.seq \in Nat /\ frame.events \in Seq(Event)
      /\ OpensOne(frame, 1, driver, state) /\ Shows(frame.events)
  <2>1. frame \in Frame
    BY <1>2
  <2>. QED  BY <1>2, <2>1 DEF Frame, Told, Opens, Inv, Windows, AllShow
<1>4. ASSUME state = "LIVE", driver = "coinbase", what = "next"
      PROVE  frame.seq = expected /\ frame.seq # 1 /\ book.sequence < frame.seq + 1
  <2>1. 0 <= book.sequence /\ book.sequence \in Int /\ book.sequence < expected
    BY <1>4, LiveFromZero DEF Told
  <2>2. expected = -1 \/ frame.seq = expected
    BY <1>4 DEF Parsed, Numbered
  <2>. QED  BY <1>2, <1>3, <2>1, <2>2
<1>5. Idle.state = state /\ Idle.book = book /\ ~Idle.raised
  BY DEF Idle
<1>6. CASE what # "next" \/ frame.fault = "garbled"
  <2>. DEFINE now == [Idle EXCEPT !.raised = what = "gap"]
  <2>1. /\ Take(now)
        /\ expected' = IF what = "next" /\ driver = "coinbase" THEN frame.seq + 1 ELSE expected
    BY <1>1, <1>6, Zenon DEF Receive, Idle
  <2>2. Fits(now) /\ Tells(now)
    BY <1>1, IdleFits, IdleTells
  <2>3. now.book = book /\ now.state = state
    BY DEF Idle
  <2>. HIDE DEF now, what, frame
  <2>4. now.state = "LIVE" /\ driver = "coinbase" => now.book.sequence < expected'
    <3>1. state = "LIVE" /\ driver = "coinbase" => book.sequence < expected
      BY DEF Told
    <3>. QED  BY <1>4, <2>1, <2>3, <3>1
  <2>5. Takes(now)
    BY <2>1, <2>2, <2>4 DEF Takes
  <2>. QED  BY <2>5
<1>7. CASE ~(what # "next" \/ frame.fault = "garbled")
  <2>1. /\ Take(me)
        /\ ~me.raised => expected' = IF driver = "coinbase" THEN frame.seq + 1 ELSE expected
    BY <1>1, <1>7, Zenon DEF Receive, Idle
  <2>2. Fits(Idle) /\ Tells(Idle)
    BY <1>1, IdleFits, IdleTells
  <2>3. /\ OpensOne(frame, 1, driver, "BOOTSTRAP")
        /\ driver = "kraken" /\ Idle.state # "BOOTSTRAP" =>
             \A m \in 1..Len(frame.events) : frame.events[m].kind # "snap"
    BY <1>3, <1>5 DEF OpensOne
  <2>4. driver = "coinbase" /\ Idle.state = "LIVE" => frame.seq # 1
    BY <1>4, <1>5, <1>7
  <2>. HIDE DEF what
  <2>5. /\ Tells(me)
        /\ ~me.raised /\ frame.events # <<>> /\ driver = "coinbase" => me.book.sequence = frame.seq
    <3>. HIDE DEF frame
    <3>. QED  BY <1>2, <1>3, <2>2, <2>3, <2>4, FrameTells
  <2>6. Fits(me) /\ (frame.events = <<>> => me = Idle)
    <3>. HIDE DEF frame
    <3>. QED  BY <1>2, <1>3, <2>2, FrameFits
  <2>. HIDE DEF me, frame
  <2>7. ASSUME ~me.raised, me.state = "LIVE", driver = "coinbase" PROVE me.book.sequence < expected'
    <3>1. expected' = frame.seq + 1
      BY <2>1, <2>7
    <3>2. CASE frame.events = <<>>
      BY <1>4, <1>5, <1>7, <2>6, <2>7, <3>1, <3>2
    <3>3. CASE frame.events # <<>>
      BY <1>3, <2>5, <2>7, <3>1, <3>3
    <3>. QED  BY <3>2, <3>3
  <2>8. Takes(me)
    BY <2>1, <2>5, <2>6, <2>7 DEF Takes
  <2>. QED  BY <2>8
<1>. QED  BY <1>6, <1>7

(* So it tells on.                                                           *)
LEMMA ReceiveKeepsTold ==
  ASSUME Inv, Told, Receive
  PROVE  Told'
<1>1. PICK me : Takes(me)
  BY ReceiveTakes
<1>2. up /\ net # <<>>
  BY DEF Receive
<1>. QED  BY <1>1, <1>2, TakenKeepsTold DEF Takes

(* At first nothing is told, ...                                             *)
LEMMA ToldInit ==
  ASSUME Init
  PROVE  Told
<1>1. log = <<>> /\ net = <<>> /\ periodic = <<>> /\ midnight = 0 /\ state = "BOOTSTRAP" /\ ~up
  BY DEF Init
<1>. QED  BY <1>1 DEF Told, Story, Agree, Rising, Opens

(* ... every step goes on with it, ...                                       *)
LEMMA NextKeepsTold ==
  ASSUME Inv, Told, [Next]_vars
  PROVE  Told'
<1>1. CASE VenueMoves  BY <1>1, VenueMovesKeepsTold
<1>2. CASE OtherFrame  BY <1>2, OtherFrameKeepsTold
<1>3. CASE Unreliable  BY <1>3, UnreliableKeepsTold
<1>4. CASE Connect  BY <1>4, ConnectKeepsTold
<1>5. CASE Disconnect  BY <1>5, DisconnectKeepsTold
<1>6. CASE Receive  BY <1>6, ReceiveKeepsTold
<1>7. CASE BuildPeriodic  BY <1>7, BuildPeriodicKeepsTold
<1>8. CASE SendPeriodic  BY <1>8, SendPeriodicKeepsTold
<1>9. CASE Midnight  BY <1>9, MidnightKeepsTold
<1>10. CASE UNCHANGED vars
  <2>1. SameStory /\ UNCHANGED <<up, midnight>> /\ net' = net
    BY <1>10 DEF vars, SameStory
  <2>2. Opens(net', driver, state)
    BY <2>1 DEF Told
  <2>. QED  BY <2>1, <2>2, FramesKeepTold
<1>. QED
  BY <1>1, <1>2, <1>3, <1>4, <1>5, <1>6, <1>7, <1>8, <1>9, <1>10 DEF Next

(* ... and so it is always sound.                                            *)
LEMMA ToldHolds == Spec => []Told
BY InvHolds, ToldInit, NextKeepsTold, PTL DEF Spec

----------------------------------------------------------------------------
\* silver/dq.py: the order of the fold

\* q is what is left of f behind its first a records.
Behind(q, f, a) ==
  q \in Seq(Entry) /\ Len(q) = Len(f) - a /\ \A i \in 1..Len(q) : q[i] = f[a + i]

\* f holds the records of a kind among the first n of the day, in order.
Keeps(f, day, kind, n) ==
  /\ f \in Seq(Entry)
  /\ \A i \in 1..Len(f) : \E p \in 1..n :
       /\ f[i] = day[p] /\ day[p].kind = kind
       /\ \A q \in 1..(p - 1) : day[q].kind = kind => \E j \in 1..(i - 1) : f[j] = day[q]
  /\ \A q \in 1..n : day[q].kind = kind => \E j \in 1..Len(f) : f[j] = day[q]

(* A topic has its records in the order of the log.                          *)
LEMMA TopicKeeps ==
  ASSUME NEW day \in Seq(Entry), NEW kind
  PROVE  Keeps(OfKind(day, kind), day, kind, Len(day))
<1>. DEFINE N == Len(day)
<1>1. N \in Nat
  OBVIOUS
<1>2. PICK st : /\ st[0] = <<>> /\ st[Len(day)] = OfKind(day, kind)
                /\ \A n \in 1..Len(day) : st[n] = KeptIn(st[n - 1], day[n], kind)
  <2>1. \E st : /\ st[0] = <<>> /\ st[Len(day)] = Filtering!Loop(<<>>, day, kind)
                /\ \A n \in 1..Len(day) : st[n] = KeptIn(st[n - 1], day[n], kind)
    <3>1. PICK walk : Filtering!Goes(walk, <<>>, day, kind)
      BY <1>1, Filtering!LoopGoes, Zenon
    <3>. QED  BY <3>1, Zenon DEF Filtering!Goes
  <2>. QED  BY <2>1 DEF OfKind
<1>. DEFINE S == {n \in 0..N : Keeps(st[n], day, kind, n)}
<1>3. 0 \in S
  <2>1. Keeps(<<>>, day, kind, 0)
    BY DEF Keeps
  <2>. QED  BY <1>1, <1>2, <2>1
<1>4. ASSUME NEW n \in 1..N, n - 1 \in S PROVE n \in S
  <2>. DEFINE f == st[n - 1]
              g == st[n]
  <2>1. /\ Keeps(f, day, kind, n - 1) /\ g = KeptIn(f, day[n], kind) /\ n \in 0..N /\ n \in Nat
        /\ f \in Seq(Entry) /\ day[n] \in Entry
    BY <1>1, <1>2, <1>4 DEF Keeps
  <2>. HIDE DEF f, g
  <2>2. CASE day[n].kind # kind
    <3>1. g = f
      BY <2>1, <2>2 DEF KeptIn
    <3>2. \A q \in 1..n : q \in 1..(n - 1) \/ q = n
      BY <2>1
    <3>3. \A p \in 1..(n - 1) : p \in 1..n
      BY <2>1
    <3>4. Keeps(g, day, kind, n)
      BY <2>1, <2>2, <3>1, <3>2, <3>3 DEF Keeps
    <3>. QED  BY <2>1, <3>4 DEF g
  <2>3. CASE day[n].kind = kind
    <3>1. /\ g \in Seq(Entry) /\ Len(g) = Len(f) + 1 /\ g[Len(f) + 1] = day[n] /\ Len(f) \in Nat
          /\ \A i \in 1..Len(f) : g[i] = f[i]
      BY <2>1, <2>3 DEF KeptIn
    <3>2. \A q \in 1..n : day[q].kind = kind => \E j \in 1..Len(g) : g[j] = day[q]
      <4>. SUFFICES ASSUME NEW q \in 1..n, day[q].kind = kind
                    PROVE  \E j \in 1..Len(g) : g[j] = day[q]
        OBVIOUS
      <4>1. CASE q = n
        <5>1. Len(f) + 1 \in 1..Len(g)
          BY <3>1
        <5>. QED  BY <3>1, <4>1, <5>1
      <4>2. CASE q \in 1..(n - 1)
        <5>1. PICK j \in 1..Len(f) : f[j] = day[q]
          BY <2>1, <4>2 DEF Keeps
        <5>2. j \in 1..Len(g) /\ g[j] = f[j]
          BY <3>1
        <5>. QED  BY <5>1, <5>2
      <4>. QED  BY <2>1, <4>1, <4>2
    <3>3. ASSUME NEW i \in 1..Len(g)
          PROVE  \E p \in 1..n :
                   /\ g[i] = day[p] /\ day[p].kind = kind
                   /\ \A q \in 1..(p - 1) : day[q].kind = kind => \E j \in 1..(i - 1) : g[j] = day[q]
      <4>1. CASE i = Len(f) + 1
        <5>1. ASSUME NEW q \in 1..(n - 1), day[q].kind = kind
              PROVE  \E j \in 1..(i - 1) : g[j] = day[q]
          <6>1. PICK j \in 1..Len(f) : f[j] = day[q]
            BY <2>1, <5>1 DEF Keeps
          <6>2. j \in 1..(i - 1) /\ g[j] = f[j]
            BY <3>1, <4>1
          <6>. QED  BY <6>1, <6>2
        <5>2. n \in 1..n /\ g[i] = day[n]
          BY <2>1, <3>1, <4>1
        <5>. QED  BY <2>3, <5>1, <5>2
      <4>2. CASE i \in 1..Len(f)
        <5>1. PICK p \in 1..(n - 1) :
                /\ f[i] = day[p] /\ day[p].kind = kind
                /\ \A q \in 1..(p - 1) : day[q].kind = kind => \E j \in 1..(i - 1) : f[j] = day[q]
          BY <2>1, <4>2 DEF Keeps
        <5>2. \A j \in 1..(i - 1) : g[j] = f[j]
          BY <3>1, <4>2
        <5>3. p \in 1..n /\ g[i] = f[i]
          BY <2>1, <3>1, <4>2
        <5>. QED  BY <5>1, <5>2, <5>3
      <4>. QED  BY <3>1, <4>1, <4>2
    <3>4. Keeps(g, day, kind, n)
      BY <3>1, <3>2, <3>3 DEF Keeps
    <3>. QED  BY <2>1, <3>4 DEF g
  <2>. QED  BY <2>2, <2>3
<1>. HIDE DEF S
<1>5. \A n \in 0..N : n \in S
  BY <1>1, <1>3, <1>4, Filtering!UpTo
<1>6. N \in S
  BY <1>1, <1>5
<1>. QED  BY <1>2, <1>6 DEF S

\* The records are of the day, a delta behind all those before it.
InOrder(out, day) ==
  \A i \in 1..Len(out) : \E p \in 1..Len(day) :
    /\ out[i] = day[p]
    /\ day[p].kind = "delta" =>
         \A q \in 1..(p - 1) : day[q].kind = "delta" => \E j \in 1..(i - 1) : out[j] = day[q]

(* One more record.                                                          *)
LEMMA InOrderGoesOn ==
  ASSUME NEW day \in Seq(Entry), NEW out \in Seq(Entry), InOrder(out, day),
         NEW p \in 1..Len(day), day[p].kind = "delta" =>
           \A q \in 1..(p - 1) : day[q].kind = "delta" => \E j \in 1..Len(out) : out[j] = day[q]
  PROVE  InOrder(Append(out, day[p]), day)
<1>. DEFINE g == Append(out, day[p])
<1>1. /\ Len(g) = Len(out) + 1 /\ Len(out) \in Nat /\ g[Len(out) + 1] = day[p]
      /\ \A i \in 1..Len(out) : g[i] = out[i]
  OBVIOUS
<1>. HIDE DEF g
<1>. SUFFICES ASSUME NEW i \in 1..Len(g)
              PROVE  \E k \in 1..Len(day) :
                       /\ g[i] = day[k]
                       /\ day[k].kind = "delta" =>
                            \A q \in 1..(k - 1) : day[q].kind = "delta" =>
                              \E j \in 1..(i - 1) : g[j] = day[q]
  BY DEF InOrder, g
<1>2. CASE i = Len(out) + 1
  <2>1. \A j \in 1..Len(out) : j \in 1..(i - 1) /\ g[j] = out[j]
    BY <1>1, <1>2
  <2>2. day[p].kind = "delta" =>
          \A q \in 1..(p - 1) : day[q].kind = "delta" => \E j \in 1..(i - 1) : g[j] = day[q]
    BY <2>1
  <2>. QED  BY <1>1, <1>2, <2>2
<1>3. CASE i \in 1..Len(out)
  <2>1. \A j \in 1..(i - 1) : g[j] = out[j]
    BY <1>1, <1>3
  <2>2. PICK k \in 1..Len(day) :
          /\ out[i] = day[k]
          /\ day[k].kind = "delta" =>
               \A q \in 1..(k - 1) : day[q].kind = "delta" => \E j \in 1..(i - 1) : out[j] = day[q]
    BY <1>3 DEF InOrder
  <2>3. day[k].kind = "delta" =>
          \A q \in 1..(k - 1) : day[q].kind = "delta" => \E j \in 1..(i - 1) : g[j] = day[q]
    BY <2>1, <2>2
  <2>. QED  BY <1>1, <1>3, <2>2, <2>3
<1>. QED  BY <1>1, <1>2, <1>3

Hands == [snaps : Seq(Entry), deltas : Seq(Entry), out : Seq(Entry)]

\* The merge has put out the first a snapshots and b deltas.
Merges(at, f, g, day, a, b) ==
  /\ at \in Hands /\ Behind(at.snaps, f, a) /\ Behind(at.deltas, g, b)
  /\ InOrder(at.out, day) /\ \A k \in 1..b : \E i \in 1..Len(at.out) : at.out[i] = g[k]

(* The next snapshot.                                                        *)
LEMMA SnapGoesOut ==
  ASSUME NEW day \in Seq(Entry), NEW f, NEW g, Keeps(f, day, "snap", Len(day)),
         NEW a \in Nat, NEW b \in Nat, NEW at, Merges(at, f, g, day, a, b), at.snaps # <<>>
  PROVE  Merges([at EXCEPT !.snaps = Tail(@), !.out = Append(@, Head(at.snaps))], f, g, day, a + 1, b)
<1>. DEFINE next == [at EXCEPT !.snaps = Tail(@), !.out = Append(@, Head(at.snaps))]
            s == at.snaps
            out == at.out
            x == Head(at.snaps)
<1>1. /\ at \in Hands /\ s \in Seq(Entry) /\ out \in Seq(Entry) /\ s # <<>>
      /\ Behind(s, f, a) /\ Behind(at.deltas, g, b) /\ f \in Seq(Entry)
  BY DEF Merges, Hands, Keeps
<1>2. x \in Entry /\ x = s[1] /\ Tail(s) \in Seq(Entry) /\ 1 \in 1..Len(s)
  BY <1>1
<1>3. next \in Hands /\ next.snaps = Tail(s) /\ next.deltas = at.deltas /\ next.out = Append(out, x)
  <2>1. Append(out, x) \in Seq(Entry)
    BY <1>1, <1>2
  <2>. QED  BY <1>1, <1>2, <2>1 DEF Hands
<1>4. Len(s) = Len(f) - a /\ \A i \in 1..Len(s) : s[i] = f[a + i]
  BY <1>1 DEF Behind
<1>. HIDE DEF next, s, out, x
<1>5. Behind(Tail(s), f, a + 1)
  <2>1. Len(Tail(s)) = Len(f) - (a + 1)
    BY <1>1, <1>4
  <2>2. ASSUME NEW i \in 1..Len(Tail(s)) PROVE Tail(s)[i] = f[(a + 1) + i]
    <3>1. i + 1 \in 1..Len(s) /\ Tail(s)[i] = s[i + 1] /\ a + (i + 1) = (a + 1) + i
      BY <1>1, HeadTailProperties
    <3>. QED  BY <1>4, <3>1
  <2>. QED  BY <1>2, <2>1, <2>2 DEF Behind
<1>6. PICK p \in 1..Len(day) : x = day[p] /\ day[p].kind = "snap"
  <2>1. x = f[a + 1] /\ a + 1 \in 1..Len(f)
    BY <1>1, <1>2, <1>4
  <2>. QED  BY <2>1 DEF Keeps
<1>7. InOrder(Append(out, x), day)
  <2>1. InOrder(out, day)
    BY DEF Merges, out
  <2>. QED  BY <1>1, <1>6, <2>1, InOrderGoesOn
<1>8. \A k \in 1..b : \E i \in 1..Len(Append(out, x)) : Append(out, x)[i] = g[k]
  <2>1. \A k \in 1..b : \E i \in 1..Len(out) : out[i] = g[k]
    BY DEF Merges, out
  <2>2. \A i \in 1..Len(out) : i \in 1..Len(Append(out, x)) /\ Append(out, x)[i] = out[i]
    BY <1>1, <1>2
  <2>. QED  BY <2>1, <2>2
<1>9. Merges(next, f, g, day, a + 1, b)
  BY <1>1, <1>3, <1>5, <1>7, <1>8 DEF Merges
<1>. QED  BY <1>9 DEF next

(* The next delta.                                                           *)
LEMMA DeltaGoesOut ==
  ASSUME NEW day \in Seq(Entry), NEW f, NEW g, Keeps(g, day, "delta", Len(day)),
         NEW a \in Nat, NEW b \in Nat, NEW at, Merges(at, f, g, day, a, b), at.deltas # <<>>
  PROVE  Merges([at EXCEPT !.deltas = Tail(@), !.out = Append(@, Head(at.deltas))], f, g, day, a, b + 1)
<1>. DEFINE next == [at EXCEPT !.deltas = Tail(@), !.out = Append(@, Head(at.deltas))]
            s == at.deltas
            out == at.out
            x == Head(at.deltas)
<1>1. /\ at \in Hands /\ s \in Seq(Entry) /\ out \in Seq(Entry) /\ s # <<>>
      /\ Behind(s, g, b) /\ Behind(at.snaps, f, a) /\ g \in Seq(Entry)
  BY DEF Merges, Hands, Keeps
<1>2. x \in Entry /\ x = s[1] /\ Tail(s) \in Seq(Entry) /\ 1 \in 1..Len(s)
  BY <1>1
<1>3. next \in Hands /\ next.deltas = Tail(s) /\ next.snaps = at.snaps /\ next.out = Append(out, x)
  <2>1. Append(out, x) \in Seq(Entry)
    BY <1>1, <1>2
  <2>. QED  BY <1>1, <1>2, <2>1 DEF Hands
<1>4. Len(s) = Len(g) - b /\ \A i \in 1..Len(s) : s[i] = g[b + i]
  BY <1>1 DEF Behind
<1>. HIDE DEF next, s, out, x
<1>5. Behind(Tail(s), g, b + 1)
  <2>1. Len(Tail(s)) = Len(g) - (b + 1)
    BY <1>1, <1>4
  <2>2. ASSUME NEW i \in 1..Len(Tail(s)) PROVE Tail(s)[i] = g[(b + 1) + i]
    <3>1. i + 1 \in 1..Len(s) /\ Tail(s)[i] = s[i + 1] /\ b + (i + 1) = (b + 1) + i
      BY <1>1, HeadTailProperties
    <3>. QED  BY <1>4, <3>1
  <2>. QED  BY <1>2, <2>1, <2>2 DEF Behind
<1>6. x = g[b + 1] /\ b + 1 \in 1..Len(g)
  BY <1>1, <1>2, <1>4
<1>7. PICK p \in 1..Len(day) :
        /\ x = day[p] /\ day[p].kind = "delta"
        /\ \A q \in 1..(p - 1) : day[q].kind = "delta" => \E j \in 1..((b + 1) - 1) : g[j] = day[q]
  BY <1>6 DEF Keeps
<1>8. \A k \in 1..b : \E i \in 1..Len(out) : out[i] = g[k]
  BY DEF Merges, out
<1>9. InOrder(Append(out, x), day)
  <2>1. InOrder(out, day)
    BY DEF Merges, out
  <2>2. ASSUME NEW q \in 1..(p - 1), day[q].kind = "delta" PROVE \E j \in 1..Len(out) : out[j] = day[q]
    <3>1. PICK j \in 1..((b + 1) - 1) : g[j] = day[q]
      BY <1>7, <2>2
    <3>2. j \in 1..b
      OBVIOUS
    <3>. QED  BY <1>8, <3>1, <3>2
  <2>. QED  BY <1>1, <1>7, <2>1, <2>2, InOrderGoesOn
<1>10. \A k \in 1..(b + 1) : \E i \in 1..Len(Append(out, x)) : Append(out, x)[i] = g[k]
  <2>1. \A i \in 1..Len(out) : i \in 1..Len(Append(out, x)) /\ Append(out, x)[i] = out[i]
    BY <1>1, <1>2
  <2>2. Len(out) + 1 \in 1..Len(Append(out, x)) /\ Append(out, x)[Len(out) + 1] = x
    BY <1>1, <1>2
  <2>3. \A k \in 1..(b + 1) : k \in 1..b \/ k = b + 1
    OBVIOUS
  <2>. QED  BY <1>6, <1>8, <2>1, <2>2, <2>3
<1>11. Merges(next, f, g, day, a, b + 1)
  BY <1>1, <1>3, <1>5, <1>9, <1>10 DEF Merges
<1>. QED  BY <1>11 DEF next

(* heapq.merge puts the day's records out, and the deltas in order.          *)
LEMMA MergedInOrder ==
  ASSUME NEW day \in Seq(Entry)
  PROVE  LET m == Merged(OfKind(day, "snap"), OfKind(day, "delta"))
         IN  m \in Seq(Entry) /\ InOrder(m, day)
<1>. DEFINE f == OfKind(day, "snap")
            g == OfKind(day, "delta")
            first == [snaps |-> f, deltas |-> g, out |-> <<>>]
            N == Len(f) + Len(g)
<1>1. Keeps(f, day, "snap", Len(day)) /\ Keeps(g, day, "delta", Len(day))
  BY TopicKeeps
<1>. HIDE DEF f, g
<1>2. f \in Seq(Entry) /\ g \in Seq(Entry) /\ N \in Nat /\ Len(f) \in Nat /\ Len(g) \in Nat /\ Len(f \o g) = N
  BY <1>1 DEF Keeps
<1>3. PICK st : /\ st[0] = first /\ st[N] = Merging!Loop(first, f \o g, {})
                /\ \A n \in 1..N : st[n] = SmallerHead(st[n - 1], (f \o g)[n], {})
  <2>. DEFINE q == f \o g
  <2>1. Len(q) \in Nat /\ Len(q) = N
    BY <1>2
  <2>. HIDE DEF first, N, q
  <2>2. \E st : /\ st[0] = first /\ st[Len(q)] = Merging!Loop(first, q, {})
                /\ \A n \in 1..Len(q) : st[n] = SmallerHead(st[n - 1], q[n], {})
    <3>1. PICK walk : Merging!Goes(walk, first, q, {})
      BY <2>1, Merging!LoopGoes, Zenon
    <3>. QED  BY <3>1, Zenon DEF Merging!Goes
  <2>3. \E st : /\ st[0] = first /\ st[N] = Merging!Loop(first, q, {})
                /\ \A n \in 1..N : st[n] = SmallerHead(st[n - 1], q[n], {})
    BY <2>1, <2>2
  <2>. QED  BY <2>3 DEF q
<1>. DEFINE S == {n \in 0..N : \E b \in 0..n : Merges(st[n], f, g, day, n - b, b)}
<1>4. 0 \in S
  <2>1. first \in Hands /\ first.snaps = f /\ first.deltas = g /\ first.out = <<>>
    BY <1>2 DEF Hands
  <2>. HIDE DEF first
  <2>2. Merges(first, f, g, day, 0, 0)
    BY <1>2, <2>1 DEF Merges, Behind, InOrder
  <2>3. 0 \in 0..0 /\ 0 \in 0..N /\ 0 - 0 = 0
    BY <1>2
  <2>. QED  BY <1>3, <2>2, <2>3
<1>5. ASSUME NEW n \in 1..N, n - 1 \in S PROVE n \in S
  <2>. DEFINE at == st[n - 1]
  <2>1. PICK b \in 0..(n - 1) : Merges(at, f, g, day, (n - 1) - b, b)
    BY <1>5
  <2>2. st[n] = SmallerHead(at, (f \o g)[n], {})
    BY <1>3
  <2>. DEFINE a == (n - 1) - b
  <2>3. a \in Nat /\ b \in Nat /\ n \in 0..N /\ a + b < N /\ a = (n - 1) - b
    BY <1>2
  <2>7. Merges(at, f, g, day, a, b)
    BY <2>1
  <2>. HIDE DEF at, N, a
  <2>4. at.snaps # <<>> \/ at.deltas # <<>>
    <3>1. Len(at.snaps) = Len(f) - a /\ Len(at.deltas) = Len(g) - b
      BY <2>7 DEF Merges, Behind
    <3>2. ASSUME at.snaps = <<>>, at.deltas = <<>> PROVE FALSE
      <4>1. Len(at.snaps) = 0 /\ Len(at.deltas) = 0
        BY <3>2
      <4>. QED  BY <1>2, <2>3, <3>1, <4>1 DEF N
    <3>. QED  BY <3>2
  <2>5. CASE \/ at.snaps = <<>>
             \/ /\ at.deltas # <<>>
                /\ KeyBelow(SortKey(Head(at.deltas)), SortKey(Head(at.snaps)))
    <3>1. at.deltas # <<>> /\ st[n] = [at EXCEPT !.deltas = Tail(@), !.out = Append(@, Head(at.deltas))]
      BY <2>2, <2>4, <2>5 DEF SmallerHead
    <3>2. Merges(st[n], f, g, day, a, b + 1)
      <4>1. Merges([at EXCEPT !.deltas = Tail(@), !.out = Append(@, Head(at.deltas))], f, g, day, a, b + 1)
        BY <1>1, <2>3, <2>7, <3>1, DeltaGoesOut
      <4>. QED  BY <3>1, <4>1, Zenon
    <3>3. b + 1 \in 0..n /\ n - (b + 1) = a
      BY <2>3
    <3>4. \E c \in 0..n : Merges(st[n], f, g, day, n - c, c)
      BY <3>2, <3>3
    <3>. QED  BY <2>3, <3>4
  <2>6. CASE ~(\/ at.snaps = <<>>
               \/ /\ at.deltas # <<>>
                  /\ KeyBelow(SortKey(Head(at.deltas)), SortKey(Head(at.snaps))))
    <3>1. at.snaps # <<>> /\ st[n] = [at EXCEPT !.snaps = Tail(@), !.out = Append(@, Head(at.snaps))]
      BY <2>2, <2>6 DEF SmallerHead
    <3>2. Merges(st[n], f, g, day, a + 1, b)
      <4>1. Merges([at EXCEPT !.snaps = Tail(@), !.out = Append(@, Head(at.snaps))], f, g, day, a + 1, b)
        BY <1>1, <2>3, <2>7, <3>1, SnapGoesOut
      <4>. QED  BY <3>1, <4>1, Zenon
    <3>3. b \in 0..n /\ n - b = a + 1
      BY <2>3
    <3>4. \E c \in 0..n : Merges(st[n], f, g, day, n - c, c)
      BY <3>2, <3>3
    <3>. QED  BY <2>3, <3>4
  <2>. QED  BY <2>5, <2>6
<1>. HIDE DEF S, N
<1>6. \A n \in 0..N : n \in S
  BY <1>2, <1>4, <1>5, Merging!UpTo
<1>7. N \in S
  BY <1>2, <1>6
<1>8. PICK b \in 0..N : Merges(st[N], f, g, day, N - b, b)
  BY <1>7 DEF S
<1>9. st[N].out \in Seq(Entry) /\ InOrder(st[N].out, day)
  BY <1>8 DEF Merges, Hands
<1>10. Merged(f, g) = st[N].out
  BY <1>3 DEF Merged
<1>. QED  BY <1>9, <1>10 DEF f, g

----------------------------------------------------------------------------
\* The fold

\* The day is what of the log lies behind its first k records.
DayOf(day, l, k) == Behind(day, l, k) /\ k \in 0..Len(l)

\* No snapshot is cut off from its place.
Unsplit(l, k) == \A m \in 1..k, n \in (k + 1)..Len(l) :
  l[m].epoch = l[n].epoch => l[m].sequence <= l[n].sequence

\* r may be folded before s.
NotAfter(r, s) == r.epoch < s.epoch \/ (r.epoch = s.epoch /\ r.sequence <= s.sequence)

(* A record that is not out of order.                                        *)
LEMMA NotBelow ==
  ASSUME NEW r \in Entry, NEW s \in Entry, ~KeyBelow(SortKey(s), SortKey(r))
  PROVE  NotAfter(r, s)
<1>. DEFINE k == SortKey(s)
            l == SortKey(r)
<1>1. /\ k[1] = s.epoch /\ k[2] = s.sequence /\ l[1] = r.epoch /\ l[2] = r.sequence
      /\ s.epoch \in Int /\ r.epoch \in Int /\ s.sequence \in Int /\ r.sequence \in Int
  BY DEF SortKey, Entry
<1>. HIDE DEF k, l
<1>2. \A n \in 1..3 : k[n] < l[n] => \E m \in 1..(n - 1) : k[m] # l[m]
  BY DEF KeyBelow, k, l
<1>3. 1 \in 1..3 /\ 2 \in 1..3 /\ (\A m \in 1..(1 - 1) : FALSE) /\ (\A m \in 1..(2 - 1) : m = 1)
  OBVIOUS
<1>4. ~(k[1] < l[1]) /\ (k[1] = l[1] => ~(k[2] < l[2]))
  BY <1>2, <1>3
<1>. QED  BY <1>1, <1>4 DEF NotAfter

(* Order is transitive.                                                      *)
LEMMA NotAfterEither ==
  ASSUME NEW r \in Entry, NEW s \in Entry, NEW t \in Entry, NotAfter(r, s), NotAfter(s, t)
  PROVE  NotAfter(r, t)
BY DEF NotAfter, Entry

\* None of the first n records belongs behind the n-th.
Before(m, n) == \A i \in 1..n : NotAfter(m[i], m[n])

(* A record of the day is one of the log.                                    *)
LEMMA OfTheLog ==
  ASSUME NEW l \in Seq(Entry), NEW k, NEW day, DayOf(day, l, k), NEW m \in Seq(Entry),
         InOrder(m, day), NEW n \in 1..Len(m)
  PROVE  \E p \in (k + 1)..Len(l) :
           /\ m[n] = l[p]
           /\ l[p].kind = "delta" =>
                \A q \in (k + 1)..(p - 1) : l[q].kind = "delta" => \E j \in 1..(n - 1) : m[j] = l[q]
<1>1. /\ day \in Seq(Entry) /\ Len(day) = Len(l) - k /\ \A i \in 1..Len(day) : day[i] = l[k + i]
      /\ k \in Nat /\ Len(l) \in Nat /\ k <= Len(l)
  BY DEF DayOf, Behind
<1>2. PICK i \in 1..Len(day) :
        /\ m[n] = day[i]
        /\ day[i].kind = "delta" =>
             \A q \in 1..(i - 1) : day[q].kind = "delta" => \E j \in 1..(n - 1) : m[j] = day[q]
  BY DEF InOrder
<1>3. k + i \in (k + 1)..Len(l) /\ m[n] = l[k + i] /\ day[i] = l[k + i]
  BY <1>1, <1>2
<1>4. ASSUME l[k + i].kind = "delta", NEW q \in (k + 1)..((k + i) - 1), l[q].kind = "delta"
      PROVE  \E j \in 1..(n - 1) : m[j] = l[q]
  <2>1. q - k \in 1..(i - 1) /\ q - k \in 1..Len(day) /\ k + (q - k) = q
    BY <1>1
  <2>2. day[q - k] = l[q]
    BY <1>1, <2>1
  <2>. QED  BY <1>2, <1>3, <1>4, <2>1, <2>2
<1>. QED  BY <1>3, <1>4

(* A delta makes its book of that of the record folded before it, whichever  *)
(* record that is, if it is of the same connection.                          *)
LEMMA FoldedSucceeds ==
  ASSUME NEW d, NEW l \in Seq(Entry), Story(l, d), NEW k, Unsplit(l, k), NEW day, DayOf(day, l, k),
         NEW m \in Seq(Entry), InOrder(m, day), NEW n \in 1..Len(m), n # 1, Before(m, n - 1),
         m[n].kind = "delta", m[n - 1].epoch = m[n].epoch, m[n - 1].sequence < m[n].sequence
  PROVE  /\ m[n].book = Changed(m[n - 1].book, m[n].changes)
         /\ d = "kraken" => m[n].sequence = m[n - 1].sequence + 1
<1>. DEFINE r == m[n]
            b == m[n - 1]
<1>0. n - 1 \in 1..Len(m) /\ n - 1 \in Nat
  OBVIOUS
<1>1. PICK p \in (k + 1)..Len(l) :
        /\ r = l[p]
        /\ l[p].kind = "delta" =>
             \A q \in (k + 1)..(p - 1) : l[q].kind = "delta" => \E j \in 1..(n - 1) : m[j] = l[q]
  BY OfTheLog
<1>2. PICK o \in (k + 1)..Len(l) : b = l[o]
  BY <1>0, OfTheLog
<1>3. k \in Nat /\ Len(l) \in Nat /\ p \in 1..Len(l) /\ o \in 1..Len(l) /\ k <= Len(l)
  BY DEF DayOf
<1>4. /\ r.kind = "delta" /\ b.epoch = r.epoch /\ b.sequence < r.sequence
      /\ \A i \in 1..(n - 1) : NotAfter(m[i], b)
  BY DEF Before
<1>. HIDE DEF r, b
<1>5. PICK c \in 1..Len(l) : Succeeds(l, l[c], r, d)
  <2>1. Sound(l, l[p], d)
    BY <1>3 DEF Story
  <2>. QED  BY <1>1, <1>4, <2>1 DEF Sound
<1>. DEFINE a == l[c]
<1>6. /\ r.sequence \in Int /\ b.sequence \in Int /\ a.sequence \in Int
      /\ r.epoch \in Int /\ b.epoch \in Int /\ a.epoch \in Int
  <2>1. r \in Entry /\ b \in Entry /\ a \in Entry
    BY <1>1, <1>2, <1>3
  <2>. HIDE DEF a
  <2>. QED  BY <2>1 DEF Entry
<1>7. /\ a.epoch = r.epoch /\ a.sequence < r.sequence
      /\ d = "kraken" => r.sequence = a.sequence + 1
      /\ r.book = Changed(a.book, r.changes)
      /\ a.kind = "delta" \/ Earliest(l, a)
      /\ Adjacent(l, a, r)
  BY <1>5 DEF Succeeds
<1>8. a.sequence <= b.sequence
  <2>1. CASE Earliest(l, a)
    BY <1>2, <1>3, <1>4, <1>7, <2>1 DEF Earliest
  <2>2. CASE c \in 1..k
    BY <1>2, <1>4, <1>7, <2>2 DEF Unsplit
  <2>3. CASE a.kind = "delta" /\ c \notin 1..k
    <3>1. c \in (k + 1)..(p - 1)
      <4>1. c # p
        BY <1>1, <1>6, <1>7
      <4>2. ~(p < c)
        <5>. SUFFICES ASSUME p < c PROVE FALSE
          OBVIOUS
        <5>1. l[p].sequence < l[c].sequence
          BY <1>1, <1>3, <1>4, <1>7, <2>3 DEF Story, Rising
        <5>. QED  BY <1>1, <1>6, <1>7, <5>1
      <4>. QED  BY <1>3, <2>3, <4>1, <4>2
    <3>2. PICK j \in 1..(n - 1) : m[j] = a
      BY <1>1, <1>4, <2>3, <3>1
    <3>3. NotAfter(a, b)
      BY <1>4, <3>2
    <3>. QED  BY <1>4, <1>6, <1>7, <3>3 DEF NotAfter
  <2>. QED  BY <1>7, <2>1, <2>2, <2>3
<1>9. b.sequence <= a.sequence
  <2>1. b.sequence <= a.sequence \/ r.sequence <= b.sequence
    BY <1>2, <1>3, <1>4, <1>7 DEF Adjacent
  <2>. QED  BY <1>4, <1>6, <2>1
<1>10. a.sequence = b.sequence /\ a.book = b.book
  <2>1. a.sequence = b.sequence
    BY <1>6, <1>8, <1>9
  <2>. QED  BY <1>2, <1>3, <1>4, <1>7, <2>1 DEF Story, Agree
<1>11. r.book = Changed(b.book, r.changes) /\ (d = "kraken" => r.sequence = b.sequence + 1)
  BY <1>7, <1>10
<1>. QED  BY <1>11 DEF r, b

(* A book of fewer levels stays within the other.                            *)
LEMMA ChangedGrows ==
  ASSUME NEW L, NEW M, L \subseteq M, NEW changes, Len(changes) \in Nat
  PROVE  Changed(L, changes) \subseteq Changed(M, changes)
<1>0. \A K : \E s : /\ s[0] = K /\ s[Len(changes)] = Changed(K, changes)
                    /\ \A n \in 1..Len(changes) : s[n] = ChangeOne(s[n - 1], changes[n], {})
  <2>. TAKE K
  <2>. QED  BY Changing!LoopStates DEF Changed
<1>1. PICK s : /\ s[0] = L /\ s[Len(changes)] = Changed(L, changes)
               /\ \A n \in 1..Len(changes) : s[n] = ChangeOne(s[n - 1], changes[n], {})
  BY <1>0, Zenon
<1>2. PICK t : /\ t[0] = M /\ t[Len(changes)] = Changed(M, changes)
               /\ \A n \in 1..Len(changes) : t[n] = ChangeOne(t[n - 1], changes[n], {})
  BY <1>0, Zenon
<1>. DEFINE Ks == {n \in 0..Len(changes) : s[n] \subseteq t[n]}
<1>3. 0 \in Ks
  BY <1>1, <1>2
<1>4. ASSUME NEW n \in 1..Len(changes), n - 1 \in Ks PROVE n \in Ks
  <2>1. s[n - 1] \subseteq t[n - 1]
    BY <1>4
  <2>2. s[n] \subseteq t[n]
    BY <1>1, <1>2, <2>1 DEF ChangeOne
  <2>. QED  BY <2>2
<1>. HIDE DEF Ks
<1>5. \A n \in 0..Len(changes) : n \in Ks
  BY <1>3, <1>4, Changing!UpTo
<1>6. Len(changes) \in Ks
  BY <1>5
<1>. QED  BY <1>1, <1>2, <1>6 DEF Ks

\* What a row's levels are of the ingester's book.
Near(levels, b, warm) == IF warm THEN levels = b ELSE levels \subseteq b

(* apply_delta on such a book.                                               *)
LEMMA MovedIsNear ==
  ASSUME NEW b \in Books, NEW r \in Entry, NEW B \in SUBSET Level, NEW warm \in BOOLEAN,
         Near(b.levels, B, warm), b.sequence < r.sequence, r.book = Changed(B, r.changes),
         ~Crossed(r.book)
  PROVE  LET next == Moved(b, r.sequence, r.changes)
         IN  /\ next \in Books /\ next.raised = "none" /\ next.sequence = r.sequence
             /\ Near(next.levels, r.book, warm)
<1>. DEFINE after == Changed(b.levels, r.changes)
<1>1. r.sequence \in Int /\ r.changes \in Seq(Change) /\ b.levels \in SUBSET Level /\ b.sequence \in Int
  BY DEF Entry, Books
<1>2. after \in SUBSET Level
  BY <1>1, ChangedIs
<1>3. after \subseteq r.book /\ (warm => after = r.book)
  <2>1. CASE warm
    BY <2>1 DEF Near
  <2>2. CASE ~warm
    <3>1. Len(r.changes) \in Nat /\ b.levels \subseteq B
      BY <1>1, <2>2 DEF Near
    <3>. QED  BY <2>2, <3>1, ChangedGrows
  <2>. QED  BY <2>1, <2>2
<1>4. ~Crossed(after)
  BY <1>3, PartIsNotCrossed
<1>5. Moved(b, r.sequence, r.changes) = [levels |-> after, sequence |-> r.sequence, raised |-> "none"]
  <2>1. ~(r.sequence <= b.sequence)
    BY <1>1
  <2>. QED  BY <1>4, <2>1 DEF Moved
<1>. HIDE DEF after
<1>. QED  BY <1>1, <1>2, <1>3, <1>5 DEF Books, Raises, Near

\* A row that reports nothing.
Row == [of : Entry, levels : SUBSET Level, invariant : {"none"}, seq_gap : {0}]

\* There was a snapshot of the connection by the n-th row, or before r.
WarmAt(rows, n) == \E i \in 1..n : rows[i].of.kind = "snap" /\ rows[i].of.epoch = rows[n].of.epoch
WarmBy(rows, r) == \/ r.kind = "snap"
                   \/ \E i \in 1..Len(rows) : rows[i].of.kind = "snap" /\ rows[i].of.epoch = r.epoch

GoodRows(rows) ==
  /\ rows \in Seq(Row)
  /\ \A n \in 1..Len(rows) : Near(rows[n].levels, rows[n].of.book, WarmAt(rows, n))

(* One more good row.                                                        *)
LEMMA RowJoins ==
  ASSUME NEW rows, GoodRows(rows), NEW row \in Row, Near(row.levels, row.of.book, WarmBy(rows, row.of))
  PROVE  GoodRows(Append(rows, row))
<1>. DEFINE g == Append(rows, row)
<1>1. /\ g \in Seq(Row) /\ Len(g) = Len(rows) + 1 /\ Len(rows) \in Nat /\ g[Len(g)] = row
      /\ \A n \in 1..Len(rows) : g[n] = rows[n]
  BY DEF GoodRows
<1>. HIDE DEF g
<1>2. ASSUME NEW n \in 1..Len(rows) PROVE Near(g[n].levels, g[n].of.book, WarmAt(g, n))
  <2>1. Near(rows[n].levels, rows[n].of.book, WarmAt(rows, n))
    BY DEF GoodRows
  <2>2. \A i \in 1..n : g[i] = rows[i]
    BY <1>1
  <2>3. g[n] = rows[n] /\ (WarmAt(g, n) <=> WarmAt(rows, n))
    BY <1>1, <2>2 DEF WarmAt
  <2>. QED  BY <2>1, <2>3 DEF Near
<1>3. Near(g[Len(g)].levels, g[Len(g)].of.book, WarmAt(g, Len(g)))
  <2>1. WarmBy(rows, row.of) <=> WarmAt(g, Len(g))
    <3>1. \A i \in 1..Len(g) : i \in 1..Len(rows) \/ i = Len(g)
      BY <1>1
    <3>2. \A i \in 1..Len(rows) : i \in 1..Len(g)
      BY <1>1
    <3>3. Len(g) \in 1..Len(g)
      BY <1>1
    <3>4. ASSUME WarmBy(rows, row.of) PROVE WarmAt(g, Len(g))
      BY <1>1, <3>2, <3>3, <3>4 DEF WarmBy, WarmAt
    <3>5. ASSUME WarmAt(g, Len(g)) PROVE WarmBy(rows, row.of)
      BY <1>1, <3>1, <3>5 DEF WarmBy, WarmAt
    <3>. QED  BY <3>4, <3>5
  <2>. QED  BY <1>1, <2>1 DEF Near
<1>4. \A n \in 1..Len(g) : n \in 1..Len(rows) \/ n = Len(g)
  BY <1>1
<1>5. GoodRows(g)
  BY <1>1, <1>2, <1>3, <1>4 DEF GoodRows
<1>. QED  BY <1>5 DEF g

Accumulator ==
  [refused : BOOLEAN, epoch : Nat, book : Books, keys : Seq(Nat \X Int \X {0, 1}),
   offsets : [snap : SUBSET Nat, delta : SUBSET Nat], rows : Seq(Row)]

\* The fold has come to the n-th record: its book is that of the last row.
GoesOn(acc, m, n) ==
  /\ Len(acc.rows) = n /\ \A i \in 1..n : acc.rows[i].of = m[i]
  /\ acc.book.raised = "none"
  /\ n = 0 => acc.book = Cleared
  /\ n # 0 =>
       /\ acc.epoch = m[n].epoch /\ acc.keys = <<SortKey(m[n])>>
       /\ acc.book.sequence = m[n].sequence /\ acc.book.levels = acc.rows[n].levels
       /\ Before(m, n)
Folds(acc, m, n) ==
  /\ acc \in Accumulator /\ GoodRows(acc.rows) /\ (~acc.refused => GoesOn(acc, m, n))

\* The book a record of epoch e is applied to.
Base(acc, e) == IF e = acc.epoch THEN acc.book ELSE Cleared

(* A new connection starts with no book, the same one with the last row's.   *)
LEMMA BaseIs ==
  ASSUME NEW m \in Seq(Entry), NEW n \in 1..Len(m), NEW acc, acc \in Accumulator,
         GoodRows(acc.rows), GoesOn(acc, m, n - 1), ~OutOfOrder(acc, m[n])
  PROVE  LET base == Base(acc, m[n].epoch)
         IN  /\ base \in Books /\ base.raised = "none"
             /\ \/ base = Cleared /\ (m[n].kind = "delta" => ~WarmBy(acc.rows, m[n]))
                \/ /\ n # 1 /\ Before(m, n - 1) /\ m[n - 1].epoch = m[n].epoch
                   /\ base.sequence = m[n - 1].sequence /\ base.sequence <= m[n].sequence
                   /\ Near(base.levels, m[n - 1].book, WarmAt(acc.rows, n - 1))
                   /\ m[n].kind = "delta" => (WarmBy(acc.rows, m[n]) <=> WarmAt(acc.rows, n - 1))
             /\ n # 1 => NotAfter(m[n - 1], m[n])
<1>. DEFINE r == m[n]
            s == m[n - 1]
            base == Base(acc, r.epoch)
            rows == acc.rows
<1>1. r \in Entry /\ n - 1 \in Nat /\ (n # 1 => n - 1 \in 1..Len(m) /\ s \in Entry)
  OBVIOUS
<1>2. /\ Len(rows) = n - 1 /\ \A i \in 1..(n - 1) : rows[i].of = m[i]
      /\ acc.book.raised = "none" /\ acc.book \in Books
      /\ n = 1 => acc.book = Cleared
      /\ n # 1 =>
           /\ acc.epoch = s.epoch /\ acc.keys = <<SortKey(s)>>
           /\ acc.book.sequence = s.sequence /\ acc.book.levels = rows[n - 1].levels
           /\ Before(m, n - 1)
  BY DEF GoesOn, Accumulator
<1>3. Cleared \in Books /\ Cleared.raised = "none"
  BY DEF Cleared, Books, Raises
<1>4. ASSUME n # 1 PROVE NotAfter(s, r)
  <2>1. acc.keys # <<>> /\ Last(acc.keys) = SortKey(s)
    <3>1. \A x : <<x>> # <<>> /\ Last(<<x>>) = x
      BY DEF Last
    <3>2. acc.keys = <<SortKey(s)>>
      BY <1>2, <1>4
    <3>. QED  BY <3>1, <3>2, Zenon
  <2>2. ~KeyBelow(SortKey(r), SortKey(s))
    BY <2>1, Zenon DEF OutOfOrder
  <2>. QED  BY <1>1, <1>4, <2>2, NotBelow
<1>. HIDE DEF r, s, rows
<1>5. CASE n = 1
  <2>1. base = Cleared
    BY <1>2, <1>5 DEF Base
  <2>2. r.kind = "delta" => ~WarmBy(rows, r)
    BY <1>2, <1>5 DEF WarmBy
  <2>. QED  BY <1>3, <1>5, <2>1, <2>2 DEF r, s, rows
<1>6. CASE n # 1 /\ r.epoch # s.epoch
  <2>1. base = Cleared
    BY <1>2, <1>6 DEF Base
  <2>2. ASSUME r.kind = "delta", WarmBy(rows, r) PROVE FALSE
    <3>1. PICK i \in 1..(n - 1) : m[i].epoch = r.epoch
      BY <1>2, <2>2 DEF WarmBy
    <3>2. NotAfter(m[i], s)
      BY <1>2, <1>6 DEF Before, s
    <3>3. m[i] \in Entry
      BY <1>1, <1>6
    <3>4. NotAfter(s, r) /\ s \in Entry
      BY <1>1, <1>4, <1>6
    <3>. QED  BY <1>1, <1>6, <3>1, <3>2, <3>3, <3>4 DEF NotAfter, Entry
  <2>. QED  BY <1>3, <1>4, <1>6, <2>1, <2>2 DEF r, s, rows
<1>7. CASE n # 1 /\ r.epoch = s.epoch
  <2>1. base = acc.book
    BY <1>2, <1>7 DEF Base
  <2>2. base.sequence <= r.sequence
    <3>1. NotAfter(s, r) /\ s \in Entry
      BY <1>1, <1>4, <1>7
    <3>2. s.epoch \in Int /\ r.epoch \in Int
      BY <1>1, <3>1 DEF Entry
    <3>3. s.sequence <= r.sequence
      BY <1>7, <3>1, <3>2 DEF NotAfter
    <3>. QED  BY <1>2, <1>7, <2>1, <3>3
  <2>3. rows[n - 1].of = s /\ n - 1 \in 1..Len(rows)
    BY <1>1, <1>2, <1>7 DEF s
  <2>4. Near(base.levels, s.book, WarmAt(rows, n - 1))
    <3>1. Near(rows[n - 1].levels, rows[n - 1].of.book, WarmAt(rows, n - 1))
      BY <2>3 DEF GoodRows, rows
    <3>. QED  BY <1>2, <1>7, <2>1, <2>3, <3>1
  <2>5. r.kind = "delta" => (WarmBy(rows, r) <=> WarmAt(rows, n - 1))
    BY <1>2, <1>7, <2>3 DEF WarmBy, WarmAt
  <2>. QED  BY <1>2, <1>4, <1>7, <2>1, <2>2, <2>4, <2>5 DEF r, s, rows
<1>. QED  BY <1>5, <1>6, <1>7

\* The book after the record.
FoldedBook(base, r) == IF r.kind = "snap" THEN Snapped(base, r.sequence, r.levels) ELSE FoldDelta(base, r)

(* One record: no gap, no error, and the ingester's book.                    *)
LEMMA RecordIsNear ==
  ASSUME NEW d \in {"coinbase", "kraken"}, NEW l \in Seq(Entry), Story(l, d), NEW k, Unsplit(l, k),
         NEW day, DayOf(day, l, k), NEW m \in Seq(Entry), InOrder(m, day), NEW n \in 1..Len(m),
         NEW acc, acc \in Accumulator, GoodRows(acc.rows), GoesOn(acc, m, n - 1), ~OutOfOrder(acc, m[n])
  PROVE  LET base == Base(acc, m[n].epoch)
             next == FoldedBook(base, m[n])
         IN  /\ next \in Books /\ next.raised = "none" /\ next.sequence = m[n].sequence
             /\ SeqGap(base, m[n], d = "kraken") = 0
             /\ Near(next.levels, m[n].book, WarmBy(acc.rows, m[n]))
<1>. DEFINE r == m[n]
            s == m[n - 1]
            base == Base(acc, r.epoch)
            next == FoldedBook(base, r)
            warm == WarmBy(acc.rows, r)
<1>1. PICK p \in (k + 1)..Len(l) : r = l[p]
  BY OfTheLog
<1>2. p \in 1..Len(l) /\ r \in Entry
  BY <1>1 DEF DayOf
<1>3. Sound(l, r, d)
  BY <1>1, <1>2 DEF Story
<1>4. base \in Books /\ base.raised = "none"
  BY BaseIs
<1>5. \/ base = Cleared /\ (r.kind = "delta" => ~warm)
      \/ /\ n # 1 /\ Before(m, n - 1) /\ s.epoch = r.epoch
         /\ base.sequence = s.sequence /\ base.sequence <= r.sequence
         /\ Near(base.levels, s.book, WarmAt(acc.rows, n - 1))
         /\ r.kind = "delta" => (warm <=> WarmAt(acc.rows, n - 1))
  BY BaseIs
<1>6. /\ r.kind \in {"snap", "delta"} /\ r.sequence \in Int /\ r.levels \in SUBSET Level
      /\ r.book \in SUBSET Level /\ base.sequence \in Int
  BY <1>2, <1>4 DEF Entry, Books
<1>7. 0 <= r.sequence /\ ~Crossed(r.book) /\ (r.kind = "snap" => r.levels = r.book)
  BY <1>3 DEF Sound
<1>8. n # 1 => \E o \in 1..Len(l) : s = l[o]
  <2>. SUFFICES ASSUME n # 1 PROVE \E o \in 1..Len(l) : s = l[o]
    OBVIOUS
  <2>1. n - 1 \in 1..Len(m)
    OBVIOUS
  <2>2. \E o \in (k + 1)..Len(l) : s = l[o]
    BY <2>1, OfTheLog
  <2>. QED  BY <2>2 DEF DayOf
<1>. HIDE DEF base, next, warm
<1>9. CASE r.kind = "snap"
  <2>1. next = Snapped(base, r.sequence, r.levels) /\ warm
    BY <1>9 DEF next, FoldedBook, warm, WarmBy
  <2>2. Snapped(base, r.sequence, r.levels) = [levels |-> r.levels, sequence |-> r.sequence, raised |-> "none"]
    BY <1>7, <1>9 DEF Snapped
  <2>3. SeqGap(base, r, d = "kraken") = 0
    BY <1>9 DEF SeqGap
  <2>4. next \in Books /\ next.raised = "none" /\ next.sequence = r.sequence /\ Near(next.levels, r.book, warm)
    BY <1>6, <1>7, <1>9, <2>1, <2>2 DEF Books, Raises, Near
  <2>. QED  BY <2>3, <2>4 DEF base, next, warm
<1>10. CASE r.kind = "delta" /\ base.sequence = r.sequence
  <2>1. next = base
    BY <1>10 DEF next, FoldedBook, FoldDelta
  <2>2. /\ n # 1 /\ s.epoch = r.epoch /\ s.sequence = r.sequence
        /\ Near(base.levels, s.book, WarmAt(acc.rows, n - 1)) /\ (warm <=> WarmAt(acc.rows, n - 1))
    BY <1>5, <1>7, <1>10 DEF Cleared
  <2>3. s.book = r.book
    BY <1>1, <1>2, <1>8, <2>2 DEF Story, Agree
  <2>4. Near(base.levels, r.book, warm)
    BY <2>2, <2>3 DEF Near
  <2>5. SeqGap(base, r, d = "kraken") = 0
    BY <1>6, <1>10 DEF SeqGap
  <2>. QED  BY <1>4, <1>10, <2>1, <2>4, <2>5 DEF base, next, warm
<1>11. CASE r.kind = "delta" /\ base.sequence # r.sequence /\ base = Cleared /\ ~warm
  <2>1. next = Moved(base, r.sequence, r.changes)
    BY <1>11 DEF next, FoldedBook, FoldDelta
  <2>2. base.levels = {} /\ base.sequence = -1
    BY <1>11 DEF Cleared
  <2>3. PICK c \in 1..Len(l) : r.book = Changed(l[c].book, r.changes)
    BY <1>3, <1>11 DEF Sound, Succeeds
  <2>4. l[c].book \in SUBSET Level
    <3>1. l[c] \in Entry
      OBVIOUS
    <3>. QED  BY <3>1 DEF Entry
  <2>5. base.sequence < r.sequence /\ Near(base.levels, l[c].book, FALSE)
    BY <1>6, <1>7, <2>2 DEF Near
  <2>6. /\ next \in Books /\ next.raised = "none" /\ next.sequence = r.sequence
        /\ Near(next.levels, r.book, FALSE)
    BY <1>2, <1>4, <1>7, <2>1, <2>3, <2>4, <2>5, MovedIsNear
  <2>7. SeqGap(base, r, d = "kraken") = 0
    BY <2>2 DEF SeqGap
  <2>8. Near(next.levels, r.book, warm)
    BY <1>11, <2>6 DEF Near
  <2>. QED  BY <2>6, <2>7, <2>8 DEF base, next, warm
<1>12. CASE /\ r.kind = "delta" /\ base.sequence # r.sequence
            /\ n # 1 /\ Before(m, n - 1) /\ s.epoch = r.epoch
            /\ base.sequence = s.sequence /\ base.sequence <= r.sequence
            /\ Near(base.levels, s.book, WarmAt(acc.rows, n - 1))
            /\ (warm <=> WarmAt(acc.rows, n - 1))
  <2>1. next = Moved(base, r.sequence, r.changes)
    BY <1>12 DEF next, FoldedBook, FoldDelta
  <2>2. base.sequence < r.sequence
    BY <1>6, <1>12
  <2>3. r.book = Changed(s.book, r.changes) /\ (d = "kraken" => r.sequence = s.sequence + 1)
    BY <1>12, <2>2, FoldedSucceeds
  <2>4. s.book \in SUBSET Level
    <3>1. s \in Entry
      BY <1>8, <1>12
    <3>. QED  BY <3>1 DEF Entry
  <2>5. warm \in BOOLEAN /\ Near(base.levels, s.book, warm)
    BY <1>12 DEF Near, warm, WarmBy
  <2>6. /\ next \in Books /\ next.raised = "none" /\ next.sequence = r.sequence
        /\ Near(next.levels, r.book, warm)
    BY <1>2, <1>4, <1>7, <2>1, <2>2, <2>3, <2>4, <2>5, MovedIsNear
  <2>7. SeqGap(base, r, d = "kraken") = 0
    BY <1>6, <1>12, <2>3 DEF SeqGap
  <2>. QED  BY <2>6, <2>7 DEF base, next, warm
<1>13. r.kind = "delta" => (warm \in BOOLEAN)
  BY DEF warm, WarmBy
<1>. QED  BY <1>5, <1>6, <1>9, <1>10, <1>11, <1>12

(* One turn of the fold.                                                     *)
LEMMA FoldedFolds ==
  ASSUME NEW d \in {"coinbase", "kraken"}, NEW l \in Seq(Entry), Story(l, d), NEW k, Unsplit(l, k),
         NEW day, DayOf(day, l, k), NEW m \in Seq(Entry), InOrder(m, day), NEW n \in 1..Len(m),
         NEW acc, Folds(acc, m, n - 1)
  PROVE  Folds(Folded(acc, m[n], d = "kraken"), m, n)
<1>. DEFINE r == m[n]
            base == Base(acc, r.epoch)
            next == FoldedBook(base, r)
            gap == SeqGap(base, r, d = "kraken")
            row == [of |-> r, levels |-> next.levels, invariant |-> next.raised, seq_gap |-> gap]
            now == Folded(acc, r, d = "kraken")
<1>1. acc \in Accumulator /\ GoodRows(acc.rows) /\ acc.refused \in BOOLEAN /\ r \in Entry
  BY DEF Folds, Accumulator
<1>2. CASE acc.refused \/ OutOfOrder(acc, r)
  <2>1. now = [acc EXCEPT !.refused = TRUE]
    BY <1>2, Zenon DEF Folded
  <2>. HIDE DEF now
  <2>2. now \in Accumulator /\ now.rows = acc.rows /\ now.refused
    BY <1>1, <2>1 DEF Accumulator
  <2>3. Folds(now, m, n)
    BY <1>1, <2>2 DEF Folds
  <2>. QED  BY <2>3 DEF now
<1>3. CASE ~(acc.refused \/ OutOfOrder(acc, r))
  <2>1. GoesOn(acc, m, n - 1)
    BY <1>3 DEF Folds
  <2>2. /\ next \in Books /\ next.raised = "none" /\ next.sequence = r.sequence /\ gap = 0
        /\ Near(next.levels, r.book, WarmBy(acc.rows, r))
    BY <1>1, <1>3, <2>1, RecordIsNear
  <2>3. n # 1 => NotAfter(m[n - 1], r)
    BY <1>1, <1>3, <2>1, BaseIs
  <2>4. now = [refused |-> FALSE, epoch |-> r.epoch,
               book |-> IF next.raised = "none" THEN next ELSE Cleared,
               keys |-> <<SortKey(r)>>, offsets |-> [acc.offsets EXCEPT ![r.kind] = {r.offset}],
               rows |-> Append(acc.rows, row)]
    BY <1>3, Zenon DEF Folded, Base, FoldedBook
  <2>. HIDE DEF now, next, gap, base
  <2>5. row \in Row /\ row.of = r /\ row.levels = next.levels
    <3>1. next.levels \in SUBSET Level
      BY <2>2 DEF Books
    <3>. QED  BY <1>1, <2>2, <3>1 DEF Row
  <2>. HIDE DEF row
  <2>6. GoodRows(Append(acc.rows, row))
    BY <1>1, <2>2, <2>5, RowJoins
  <2>7. /\ acc.rows \in Seq(Row) /\ Append(acc.rows, row) \in Seq(Row)
        /\ Len(acc.rows) = n - 1 /\ \A i \in 1..(n - 1) : acc.rows[i].of = m[i]
    BY <2>1, <2>5 DEF GoesOn, Folds, GoodRows
  <2>8. /\ SortKey(r) \in Nat \X Int \X {0, 1} /\ r.epoch \in Nat
        /\ [acc.offsets EXCEPT ![r.kind] = {r.offset}] \in [snap : SUBSET Nat, delta : SUBSET Nat]
    <3>1. r.epoch \in Nat /\ r.sequence \in Int /\ r.offset \in Nat /\ r.kind \in {"snap", "delta"}
      BY <1>1 DEF Entry
    <3>2. acc.offsets \in [snap : SUBSET Nat, delta : SUBSET Nat]
      BY <1>1 DEF Accumulator
    <3>3. SortKey(r) \in Nat \X Int \X {0, 1}
      BY <3>1 DEF SortKey
    <3>4. [acc.offsets EXCEPT ![r.kind] = {r.offset}] \in [snap : SUBSET Nat, delta : SUBSET Nat]
      BY <3>1, <3>2
    <3>. QED  BY <3>1, <3>3, <3>4
  <2>9. /\ now.refused = FALSE /\ now.epoch = r.epoch /\ now.book = next /\ now.keys = <<SortKey(r)>>
        /\ now.rows = Append(acc.rows, row)
    BY <2>2, <2>4
  <2>10. now \in Accumulator
    <3>1. <<SortKey(r)>> \in Seq(Nat \X Int \X {0, 1})
      BY <2>8
    <3>. QED  BY <2>2, <2>4, <2>7, <2>8, <3>1 DEF Accumulator
  <2>11. Len(now.rows) = n /\ (\A i \in 1..n : now.rows[i].of = m[i]) /\ now.rows[n] = row
    <3>1. /\ Len(now.rows) = n /\ now.rows[n] = row
          /\ \A i \in 1..(n - 1) : now.rows[i] = acc.rows[i]
      BY <2>5, <2>7, <2>9
    <3>2. \A i \in 1..n : i \in 1..(n - 1) \/ i = n
      OBVIOUS
    <3>. QED  BY <2>5, <2>7, <3>1, <3>2
  <2>12. Before(m, n)
    <3>. SUFFICES ASSUME NEW i \in 1..n PROVE NotAfter(m[i], m[n])
      BY DEF Before
    <3>1. CASE i = n
      BY <1>1, <3>1 DEF NotAfter, Entry
    <3>2. CASE i \in 1..(n - 1)
      <4>1. n # 1 /\ n - 1 # 0 /\ m[i] \in Entry /\ m[n - 1] \in Entry /\ m[n] \in Entry
        BY <3>2
      <4>2. NotAfter(m[i], m[n - 1]) /\ NotAfter(m[n - 1], m[n])
        BY <2>1, <2>3, <3>2, <4>1 DEF GoesOn, Before
      <4>. QED  BY <4>1, <4>2, NotAfterEither
    <3>. QED  BY <3>1, <3>2
  <2>13. GoesOn(now, m, n)
    <3>1. n # 0
      OBVIOUS
    <3>. QED  BY <2>2, <2>5, <2>9, <2>11, <2>12, <3>1 DEF GoesOn
  <2>14. Folds(now, m, n)
    BY <2>6, <2>9, <2>10, <2>13 DEF Folds
  <2>. QED  BY <2>14 DEF now
<1>. QED  BY <1>2, <1>3

(* Every row of a day's fold is good.                                        *)
LEMMA DayFolds ==
  ASSUME NEW d \in {"coinbase", "kraken"}, NEW l \in Seq(Entry), Story(l, d), NEW k, Unsplit(l, k),
         NEW day, DayOf(day, l, k)
  PROVE  GoodRows(StreamingFold(day, d = "kraken").rows)
<1>. DEFINE m == Merged(OfKind(day, "snap"), OfKind(day, "delta"))
            N == Len(m)
            first == [refused |-> FALSE, epoch |-> 0, book |-> Cleared, keys |-> <<>>,
                      offsets |-> [snap |-> {}, delta |-> {}], rows |-> <<>>]
<1>1. day \in Seq(Entry)
  BY DEF DayOf, Behind
<1>2. m \in Seq(Entry) /\ InOrder(m, day)
  BY <1>1, MergedInOrder
<1>. HIDE DEF m
<1>3. N \in Nat
  BY <1>2
<1>4. PICK st : /\ st[0] = first /\ st[Len(m)] = Folding!Loop(first, m, d = "kraken")
                /\ \A n \in 1..Len(m) : st[n] = Folded(st[n - 1], m[n], d = "kraken")
  <2>. DEFINE c == d = "kraken"
  <2>. HIDE DEF first, c
  <2>1. \E st : /\ st[0] = first /\ st[Len(m)] = Folding!Loop(first, m, c)
                /\ \A n \in 1..Len(m) : st[n] = Folded(st[n - 1], m[n], c)
    <3>1. PICK walk : Folding!Goes(walk, first, m, c)
      BY <1>3, Folding!LoopGoes, Zenon
    <3>. QED  BY <3>1, Zenon DEF Folding!Goes
  <2>. QED  BY <2>1 DEF c
<1>. DEFINE S == {n \in 0..N : Folds(st[n], m, n)}
<1>5. 0 \in S
  <2>1. Cleared \in Books /\ Cleared.raised = "none"
    BY DEF Cleared, Books, Raises
  <2>2. first \in Accumulator /\ first.rows = <<>> /\ first.book = Cleared /\ first.keys = <<>>
    BY <2>1 DEF Accumulator
  <2>. HIDE DEF first
  <2>3. Folds(first, m, 0)
    BY <2>1, <2>2 DEF Folds, GoodRows, GoesOn
  <2>. QED  BY <1>3, <1>4, <2>3
<1>6. ASSUME NEW n \in 1..N, n - 1 \in S PROVE n \in S
  <2>1. Folds(st[n - 1], m, n - 1) /\ st[n] = Folded(st[n - 1], m[n], d = "kraken") /\ n \in 0..N
    BY <1>3, <1>4, <1>6
  <2>2. Folds(Folded(st[n - 1], m[n], d = "kraken"), m, n)
    BY <1>2, <2>1, FoldedFolds
  <2>3. Folds(st[n], m, n)
    BY <2>1, <2>2
  <2>. QED  BY <2>1, <2>3
<1>. HIDE DEF S
<1>7. \A n \in 0..N : n \in S
  BY <1>3, <1>5, <1>6, Folding!UpTo
<1>8. N \in S
  BY <1>3, <1>7
<1>9. GoodRows(st[N].rows)
  BY <1>8 DEF S, Folds
<1>10. StreamingFold(day, d = "kraken") = st[N]
  BY <1>4, Zenon DEF StreamingFold, Fold, m
<1>. QED  BY <1>9, <1>10

(* The day's records are the log's behind midnight.                          *)
LEMMA DayIs ==
  ASSUME Inv, Told
  PROVE  DayOf(Day, log, midnight)
<1>1. log \in Seq(Entry) /\ midnight \in Nat /\ midnight <= Len(log)
  BY DEF Inv, Types, Told
<1>2. Len(log) \in Nat
  BY <1>1
<1>3. /\ Day \in Seq(Entry) /\ Len(Day) = Len(log) - midnight
      /\ \A i \in 1..Len(Day) : Day[i] = log[midnight + i]
  BY SMTT(40), <1>1, <1>2 DEF Day
<1>. QED  BY <1>1, <1>2, <1>3 DEF DayOf, Behind

(* What the invariants say of silver.                                        *)
LEMMA InvSilver ==
  ASSUME Inv, Told
  PROVE  SilverRebuildsTheBook
<1>. DEFINE rows == StreamingFold(Day, Contiguous).rows
<1>1. /\ driver \in {"coinbase", "kraken"} /\ log \in Seq(Entry) /\ Story(log, driver)
      /\ midnight \in Nat /\ midnight <= Len(log)
  BY DEF Inv, Types, Told
<1>2. CASE SplitByMidnight
  BY <1>2, Zenon DEF SilverRebuildsTheBook
<1>3. CASE ~SplitByMidnight
  <2>1. Unsplit(log, midnight)
    <3>1. ASSUME NEW m \in 1..midnight, NEW n \in (midnight + 1)..Len(log), log[m].epoch = log[n].epoch
          PROVE  log[m].sequence <= log[n].sequence
      <4>1. ~(log[n].sequence < log[m].sequence)
        BY <1>3, <3>1 DEF SplitByMidnight
      <4>2. m \in 1..Len(log) /\ n \in 1..Len(log)
        BY <1>1
      <4>3. log[m] \in Entry /\ log[n] \in Entry
        BY <1>1, <4>2
      <4>4. log[m].sequence \in Int /\ log[n].sequence \in Int
        BY <4>3 DEF Entry
      <4>. QED  BY <4>1, <4>4
    <3>. QED  BY <3>1 DEF Unsplit
  <2>2. DayOf(Day, log, midnight)
    BY DayIs
  <2>3. GoodRows(rows)
    BY <1>1, <2>1, <2>2, DayFolds DEF Contiguous
  <2>. HIDE DEF rows
  <2>4. DOMAIN rows = 1..Len(rows)
    BY <2>3 DEF GoodRows
  <2>5. ASSUME NEW n \in 1..Len(rows)
        PROVE  /\ rows[n].seq_gap = 0 /\ rows[n].invariant = "none"
               /\ IF \E m \in 1..n : rows[m].of.kind = "snap" /\ rows[m].of.epoch = rows[n].of.epoch
                  THEN rows[n].levels = rows[n].of.book
                  ELSE rows[n].levels \subseteq rows[n].of.book
    <3>1. rows[n] \in Row
      BY <2>3 DEF GoodRows
    <3>2. rows[n].seq_gap = 0 /\ rows[n].invariant = "none"
      BY <3>1 DEF Row
    <3>. QED  BY <2>3, <3>2 DEF GoodRows, Near, WarmAt
  <2>. QED  BY <2>4, <2>5, Zenon DEF SilverRebuildsTheBook, rows
<1>. QED  BY <1>2, <1>3

(* dq.py's fold of a day's records, for every instance: whatever was lost,   *)
(* repeated or garbled, and wherever midnight fell, every row has the        *)
(* ingester's own book from the first snapshot of a connection on, and       *)
(* before it no level that the book has not; and no row reports a gap or an  *)
(* error.  Only a periodic snapshot that midnight cut off breaks this.       *)
THEOREM SilverIsFaithful == Spec => []SilverRebuildsTheBook
BY InvHolds, ToldHolds, InvSilver, PTL

----------------------------------------------------------------------------
\* What the fold refuses

\* r's key is not above s's.
Rank(r) == IF r.kind = "snap" THEN 0 ELSE 1
NotAbove(r, s) ==
  \/ r.epoch < s.epoch
  \/ /\ r.epoch = s.epoch
     /\ r.sequence < s.sequence \/ (r.sequence = s.sequence /\ Rank(r) <= Rank(s))

(* The order of the tuples, written out.                                     *)
LEMMA KeysCompare ==
  ASSUME NEW r \in Entry, NEW s \in Entry
  PROVE  KeyBelow(SortKey(s), SortKey(r)) <=> ~NotAbove(r, s)
<1>. DEFINE k == SortKey(s)
            l == SortKey(r)
<1>1. /\ k[1] = s.epoch /\ k[2] = s.sequence /\ k[3] = Rank(s)
      /\ l[1] = r.epoch /\ l[2] = r.sequence /\ l[3] = Rank(r)
      /\ s.epoch \in Int /\ r.epoch \in Int /\ s.sequence \in Int /\ r.sequence \in Int
      /\ Rank(r) \in Int /\ Rank(s) \in Int
  BY DEF SortKey, Entry, Rank
<1>. HIDE DEF k, l
<1>2. KeyBelow(k, l) <=> \E n \in 1..3 : k[n] < l[n] /\ \A m \in 1..(n - 1) : k[m] = l[m]
  BY DEF KeyBelow
<1>3. KeyBelow(k, l) <=> \/ k[1] < l[1]
                         \/ k[1] = l[1] /\ k[2] < l[2]
                         \/ k[1] = l[1] /\ k[2] = l[2] /\ k[3] < l[3]
  <2>1. /\ \A n : n \in 1..3 <=> n = 1 \/ n = 2 \/ n = 3
        /\ \A m : m \notin 1..(1 - 1)
        /\ \A m : m \in 1..(2 - 1) <=> m = 1
        /\ \A m : m \in 1..(3 - 1) <=> m = 1 \/ m = 2
    OBVIOUS
  <2>. QED  BY <1>2, <2>1, Zenon
<1>. QED  BY <1>1, <1>3 DEF NotAbove, k, l

(* It is an order.                                                           *)
LEMMA NotAboveEither ==
  ASSUME NEW r \in Entry, NEW s \in Entry, NEW t \in Entry
  PROVE  NotAbove(r, r) /\ (NotAbove(r, s) /\ NotAbove(s, t) => NotAbove(r, t))
<1>1. /\ r.epoch \in Int /\ s.epoch \in Int /\ t.epoch \in Int
      /\ r.sequence \in Int /\ s.sequence \in Int /\ t.sequence \in Int
      /\ Rank(r) \in Int /\ Rank(s) \in Int /\ Rank(t) \in Int
  BY DEF Entry, Rank
<1>. QED  BY <1>1 DEF NotAbove

\* The fold takes r before s, whatever comes between them.
InLine(r, s) == NotAbove(r, s) /\ (r.kind = s.kind => r.offset <= s.offset)
LinedTo(m, n) == \A i, j \in 1..n : i < j => InLine(m[i], m[j])
Lined(m) == LinedTo(m, Len(m))

\* The fold has refused one of the first n records, or remembers the last of
\* them and the last of each kind.
Judges(acc, m, n) ==
  /\ acc.refused \in BOOLEAN /\ "refused" \in DOMAIN acc
  /\ acc.refused <=> ~LinedTo(m, n)
  /\ ~acc.refused =>
       /\ acc.keys = IF n = 0 THEN <<>> ELSE <<SortKey(m[n])>>
       /\ DOMAIN acc.offsets = {"snap", "delta"}
       /\ \A k \in {"snap", "delta"} : \A o \in acc.offsets[k] :
            /\ \E i \in 1..n : m[i].kind = k /\ m[i].offset = o
            /\ \A i \in 1..n : m[i].kind = k => m[i].offset <= o
       /\ \A i \in 1..n : acc.offsets[m[i].kind] # {}

(* The two checks, of the last record and of the last of its kind, find      *)
(* whatever is out of line.                                                  *)
LEMMA ChecksFindAll ==
  ASSUME NEW m \in Seq(Entry), NEW n \in 1..Len(m), NEW acc, Judges(acc, m, n - 1), ~acc.refused
  PROVE  OutOfOrder(acc, m[n]) <=> \E i \in 1..(n - 1) : ~InLine(m[i], m[n])
<1>. DEFINE r == m[n]
            p == n - 1
<1>1. /\ p \in Nat /\ r \in Entry /\ \A i \in 1..p : m[i] \in Entry
      /\ p # 0 => p \in 1..p
  OBVIOUS
<1>2. /\ LinedTo(m, p)
      /\ acc.keys = IF p = 0 THEN <<>> ELSE <<SortKey(m[p])>>
      /\ \A k \in {"snap", "delta"} : \A o \in acc.offsets[k] :
           /\ \E i \in 1..p : m[i].kind = k /\ m[i].offset = o
           /\ \A i \in 1..p : m[i].kind = k => m[i].offset <= o
      /\ \A i \in 1..p : acc.offsets[m[i].kind] # {}
  BY DEF Judges
<1>3. /\ r.kind \in {"snap", "delta"} /\ r.offset \in Nat
      /\ \A i \in 1..p : m[i].offset \in Nat /\ m[i].kind \in {"snap", "delta"}
  BY <1>1 DEF Entry
<1>. HIDE DEF r, p
<1>4. (acc.keys # <<>> /\ KeyBelow(SortKey(r), Last(acc.keys))) <=> (p # 0 /\ ~NotAbove(m[p], r))
  <2>1. CASE p = 0
    BY <1>2, <2>1
  <2>2. CASE p # 0
    <3>1. acc.keys # <<>> /\ Last(acc.keys) = SortKey(m[p])
      <4>1. \A x : <<x>> # <<>> /\ Last(<<x>>) = x
        BY DEF Last
      <4>2. acc.keys = <<SortKey(m[p])>>
        BY <1>2, <2>2
      <4>. QED  BY <4>1, <4>2, Zenon
    <3>2. KeyBelow(SortKey(r), SortKey(m[p])) <=> ~NotAbove(m[p], r)
      BY <1>1, <2>2, KeysCompare
    <3>. QED  BY <2>2, <3>1, <3>2, Zenon
  <2>. QED  BY <2>1, <2>2
<1>5. OutOfOrder(acc, r) <=> \/ p # 0 /\ ~NotAbove(m[p], r)
                             \/ \E o \in acc.offsets[r.kind] : r.offset < o
  BY <1>4, Zenon DEF OutOfOrder
<1>6. ASSUME p # 0, ~NotAbove(m[p], r) PROVE \E i \in 1..p : ~InLine(m[i], r)
  BY <1>1, <1>6 DEF InLine
<1>7. ASSUME NEW o \in acc.offsets[r.kind], r.offset < o PROVE \E i \in 1..p : ~InLine(m[i], r)
  <2>1. PICK i \in 1..p : m[i].kind = r.kind /\ m[i].offset = o
    BY <1>2, <1>3
  <2>2. ~(m[i].offset <= r.offset)
    BY <1>3, <1>7, <2>1
  <2>. QED  BY <2>1, <2>2 DEF InLine
<1>8. ASSUME NEW i \in 1..p, ~NotAbove(m[i], r) PROVE p # 0 /\ ~NotAbove(m[p], r)
  <2>1. p # 0 /\ (i < p \/ i = p)
    BY <1>1
  <2>2. NotAbove(m[i], m[p])
    <3>1. CASE i < p
      BY <1>1, <1>2, <2>1, <3>1 DEF LinedTo, InLine
    <3>2. CASE i = p
      BY <1>1, <3>2, NotAboveEither
    <3>. QED  BY <2>1, <3>1, <3>2
  <2>. QED  BY <1>1, <1>8, <2>1, <2>2, NotAboveEither
<1>9. ASSUME NEW i \in 1..p, m[i].kind = r.kind, ~(m[i].offset <= r.offset)
      PROVE  \E o \in acc.offsets[r.kind] : r.offset < o
  <2>1. PICK o \in acc.offsets[r.kind] : TRUE
    BY <1>2, <1>9
  <2>2. m[i].offset <= o /\ \E j \in 1..p : m[j].offset = o
    BY <1>2, <1>3, <1>9
  <2>. QED  BY <1>3, <1>9, <2>2
<1>10. OutOfOrder(acc, r) <=> \E i \in 1..p : ~InLine(m[i], r)
  BY <1>5, <1>6, <1>7, <1>8, <1>9 DEF InLine
<1>. QED  BY <1>10 DEF r, p

(* One turn.                                                                 *)
LEMMA FoldedJudges ==
  ASSUME NEW m \in Seq(Entry), NEW n \in 1..Len(m), NEW c, NEW acc, Judges(acc, m, n - 1)
  PROVE  Judges(Folded(acc, m[n], c), m, n)
<1>. DEFINE r == m[n]
            now == Folded(acc, r, c)
<1>1. /\ n - 1 \in Nat /\ r \in Entry /\ r.kind \in {"snap", "delta"} /\ r.offset \in Nat
      /\ \A i \in 1..n : m[i] \in Entry /\ (i \in 1..(n - 1) \/ i = n)
  <2>1. /\ n - 1 \in Nat /\ r \in Entry
        /\ \A i \in 1..n : m[i] \in Entry /\ (i \in 1..(n - 1) \/ i = n)
    OBVIOUS
  <2>2. r.kind \in {"snap", "delta"} /\ r.offset \in Nat
    BY <2>1 DEF Entry
  <2>. QED  BY <2>1, <2>2
<1>2. LinedTo(m, n) <=> LinedTo(m, n - 1) /\ \A i \in 1..(n - 1) : InLine(m[i], r)
  BY <1>1 DEF LinedTo
<1>3. CASE acc.refused \/ OutOfOrder(acc, r)
  <2>1. now = [acc EXCEPT !.refused = TRUE]
    BY <1>3, Zenon DEF Folded
  <2>. HIDE DEF now
  <2>2. now.refused = TRUE /\ "refused" \in DOMAIN now
    BY <2>1 DEF Judges
  <2>3. ~LinedTo(m, n)
    <3>1. CASE acc.refused
      BY <1>2, <3>1 DEF Judges
    <3>2. CASE ~acc.refused
      BY <1>2, <1>3, <3>2, ChecksFindAll
    <3>. QED  BY <3>1, <3>2
  <2>4. Judges(now, m, n)
    BY <2>2, <2>3 DEF Judges
  <2>. QED  BY <2>4 DEF now
<1>4. CASE ~(acc.refused \/ OutOfOrder(acc, r))
  <2>1. LinedTo(m, n)
    <3>1. \A i \in 1..(n - 1) : InLine(m[i], r)
      BY <1>4, ChecksFindAll
    <3>. QED  BY <1>2, <1>4, <3>1 DEF Judges
  <2>2. /\ now.refused = FALSE /\ "refused" \in DOMAIN now /\ now.keys = <<SortKey(r)>>
        /\ now.offsets = [acc.offsets EXCEPT ![r.kind] = {r.offset}]
    <3>1. \E b, y : now = [refused |-> FALSE, epoch |-> r.epoch, book |-> b, keys |-> <<SortKey(r)>>,
                           offsets |-> [acc.offsets EXCEPT ![r.kind] = {r.offset}], rows |-> y]
      BY <1>4, Zenon DEF Folded
    <3>. HIDE DEF now
    <3>. QED  BY <3>1
  <2>. HIDE DEF now
  <2>3. /\ DOMAIN now.offsets = {"snap", "delta"} /\ now.offsets[r.kind] = {r.offset}
        /\ \A k \in {"snap", "delta"} : k # r.kind => now.offsets[k] = acc.offsets[k]
    BY <1>1, <1>4, <2>2 DEF Judges
  <2>. HIDE DEF r
  <2>4. ASSUME NEW k \in {"snap", "delta"}, NEW o \in now.offsets[k]
        PROVE  /\ \E i \in 1..n : m[i].kind = k /\ m[i].offset = o
               /\ \A i \in 1..n : m[i].kind = k => m[i].offset <= o
    <3>1. CASE k = r.kind
      <4>1. o = r.offset /\ n \in 1..n
        BY <2>3, <2>4, <3>1
      <4>2. \A i \in 1..(n - 1) : m[i].kind = k => m[i].offset <= o
        BY <1>2, <2>1, <3>1, <4>1 DEF InLine
      <4>. QED  BY <1>1, <3>1, <4>1, <4>2 DEF r
    <3>2. CASE k # r.kind
      <4>1. /\ \E i \in 1..(n - 1) : m[i].kind = k /\ m[i].offset = o
            /\ \A i \in 1..(n - 1) : m[i].kind = k => m[i].offset <= o
        BY <1>4, <2>3, <2>4, <3>2 DEF Judges
      <4>. QED  BY <1>1, <3>2, <4>1 DEF r
    <3>. QED  BY <3>1, <3>2
  <2>5. ASSUME NEW i \in 1..n PROVE now.offsets[m[i].kind] # {}
    <3>1. CASE m[i].kind = r.kind
      BY <2>3, <3>1
    <3>2. CASE m[i].kind # r.kind
      <4>1. i \in 1..(n - 1) /\ m[i].kind \in {"snap", "delta"}
        BY <1>1, <3>2 DEF r, Entry
      <4>2. acc.offsets[m[i].kind] # {}
        BY <1>4, <4>1 DEF Judges
      <4>. QED  BY <2>3, <3>2, <4>1, <4>2
    <3>. QED  BY <3>1, <3>2
  <2>6. n # 0
    OBVIOUS
  <2>7. now.keys = IF n = 0 THEN <<>> ELSE <<SortKey(m[n])>>
    BY <2>2, <2>6 DEF r
  <2>8. Judges(now, m, n)
    BY <2>1, <2>2, <2>3, <2>4, <2>5, <2>7 DEF Judges
  <2>. QED  BY <2>8 DEF now, r
<1>. QED  BY <1>3, <1>4

(* FoldOrderError: the fold refuses what is not in line, and nothing else.   *)
LEMMA FoldRefuses ==
  ASSUME NEW m \in Seq(Entry), NEW c
  PROVE  Fold(m, c).refused \in BOOLEAN /\ (Fold(m, c).refused <=> ~Lined(m))
<1>. DEFINE N == Len(m)
            first == [refused |-> FALSE, epoch |-> 0, book |-> Cleared, keys |-> <<>>,
                      offsets |-> [snap |-> {}, delta |-> {}], rows |-> <<>>]
<1>1. N \in Nat
  OBVIOUS
<1>2. PICK st : Folding!Goes(st, first, m, c)
  BY <1>1, Folding!LoopGoes, Zenon
<1>3. /\ st[0] = first /\ st[N] = Fold(m, c)
      /\ \A n \in 1..N : st[n] = Folded(st[n - 1], m[n], c)
  BY <1>2, Zenon DEF Folding!Goes, Fold
<1>. DEFINE S == {n \in 0..N : Judges(st[n], m, n)}
<1>4. 0 \in S
  <2>1. /\ first.refused = FALSE /\ "refused" \in DOMAIN first /\ first.keys = <<>>
        /\ DOMAIN first.offsets = {"snap", "delta"}
        /\ \A k \in {"snap", "delta"} : first.offsets[k] = {}
    OBVIOUS
  <2>. HIDE DEF first
  <2>2. LinedTo(m, 0) /\ \A i : i \notin 1..0
    BY DEF LinedTo
  <2>3. Judges(first, m, 0)
    BY <2>1, <2>2, Zenon DEF Judges
  <2>. QED  BY <1>1, <1>3, <2>3
<1>5. ASSUME NEW n \in 1..N, n - 1 \in S PROVE n \in S
  <2>1. Judges(st[n - 1], m, n - 1) /\ st[n] = Folded(st[n - 1], m[n], c) /\ n \in 0..N
    BY <1>1, <1>3, <1>5
  <2>2. Judges(Folded(st[n - 1], m[n], c), m, n)
    BY <2>1, FoldedJudges
  <2>. QED  BY <2>1, <2>2
<1>. HIDE DEF S, first
<1>6. \A n \in 0..N : n \in S
  BY <1>1, <1>4, <1>5, Folding!UpTo
<1>7. Judges(st[N], m, N)
  BY <1>1, <1>6 DEF S
<1>. QED  BY <1>3, <1>7 DEF Judges, Lined

----------------------------------------------------------------------------
\* What the merge and the sort keep

\* Each record of p has gone out or waits in s.
Held(p, s, out) == \A i \in 1..Len(p) :
  (\E j \in 1..Len(out) : out[j] = p[i]) \/ (\E j \in 1..Len(s) : s[j] = p[i])

\* What has gone out is in line and ahead of what waits, in line, of two kinds.
Ahead(s, t) == \A i \in 1..Len(s), j \in 1..Len(t) : InLine(s[i], t[j])
Ready(s, t, out) ==
  /\ Lined(out) /\ Lined(s) /\ Lined(t) /\ Ahead(out, s) /\ Ahead(out, t)
  /\ \A i \in 1..Len(s), j \in 1..Len(t) : s[i].kind # t[j].kind

(* A head goes out.                                                          *)
LEMMA HeadIsHeld ==
  ASSUME NEW p \in Seq(Entry), NEW s \in Seq(Entry), NEW out \in Seq(Entry), s # <<>>
  PROVE  /\ Held(p, s, out) => Held(p, Tail(s), Append(out, Head(s)))
         /\ \A t : Held(p, t, out) => Held(p, t, Append(out, Head(s)))
<1>. DEFINE g == Append(out, Head(s))
<1>1. /\ Head(s) = s[1] /\ Head(s) \in Entry /\ Tail(s) \in Seq(Entry)
      /\ \A j \in 1..Len(s) : j = 1 \/ (j - 1 \in 1..Len(Tail(s)) /\ Tail(s)[j - 1] = s[j])
  <2>1. /\ Tail(s) \in Seq(Entry) /\ Len(Tail(s)) = Len(s) - 1
        /\ \A i \in 1..Len(Tail(s)) : Tail(s)[i] = s[i + 1]
    BY HeadTailProperties
  <2>2. ASSUME NEW j \in 1..Len(s), j # 1
        PROVE  j - 1 \in 1..Len(Tail(s)) /\ Tail(s)[j - 1] = s[j]
    <3>1. j - 1 \in 1..Len(Tail(s)) /\ (j - 1) + 1 = j
      BY <2>1, <2>2
    <3>. QED  BY <2>1, <3>1
  <2>3. Head(s) = s[1] /\ Head(s) \in Entry
    OBVIOUS
  <2>. QED  BY <2>1, <2>2, <2>3
<1>2. /\ \A j \in 1..Len(out) : j \in 1..Len(g) /\ g[j] = out[j]
      /\ \E j \in 1..Len(g) : g[j] = s[1]
  <2>1. Len(out) + 1 \in 1..Len(g) /\ g[Len(out) + 1] = s[1]
    BY <1>1
  <2>2. \A j \in 1..Len(out) : j \in 1..Len(g) /\ g[j] = out[j]
    BY <1>1
  <2>. QED  BY <2>1, <2>2
<1>. HIDE DEF g
<1>3. Held(p, s, out) => Held(p, Tail(s), g)
  <2>. SUFFICES ASSUME Held(p, s, out), NEW i \in 1..Len(p)
                PROVE  \/ \E j \in 1..Len(g) : g[j] = p[i]
                       \/ \E j \in 1..Len(Tail(s)) : Tail(s)[j] = p[i]
    BY DEF Held
  <2>1. CASE \E j \in 1..Len(out) : out[j] = p[i]
    BY <1>2, <2>1
  <2>2. CASE \E j \in 1..Len(s) : s[j] = p[i]
    BY <1>1, <1>2, <2>2
  <2>. QED  BY <2>1, <2>2 DEF Held
<1>4. \A t : Held(p, t, out) => Held(p, t, g)
  BY <1>2 DEF Held
<1>. QED  BY <1>3, <1>4 DEF g

(* The smaller head goes out ahead of all that waits.                        *)
LEMMA HeadIsReady ==
  ASSUME NEW s \in Seq(Entry), NEW t \in Seq(Entry), NEW out \in Seq(Entry), s # <<>>,
         Ready(s, t, out), t # <<>> => NotAbove(Head(s), Head(t))
  PROVE  Ready(Tail(s), t, Append(out, Head(s)))
<1>. DEFINE g == Append(out, Head(s))
            x == Head(s)
            r == Tail(s)
<1>1. /\ x = s[1] /\ x \in Entry /\ r \in Seq(Entry) /\ Len(r) = Len(s) - 1 /\ 1 \in 1..Len(s)
      /\ \A i \in 1..Len(r) : r[i] = s[i + 1] /\ i + 1 \in 1..Len(s) /\ 1 < i + 1
  <2>1. r \in Seq(Entry) /\ Len(r) = Len(s) - 1 /\ \A i \in 1..Len(r) : r[i] = s[i + 1]
    BY HeadTailProperties
  <2>. QED  BY <2>1
<1>2. /\ Len(g) = Len(out) + 1 /\ Len(out) \in Nat /\ g[Len(out) + 1] = x
      /\ \A j \in 1..Len(out) : g[j] = out[j]
  BY <1>1
<1>3. /\ Lined(out) /\ Lined(s) /\ Lined(t) /\ Ahead(out, s) /\ Ahead(out, t)
      /\ \A i \in 1..Len(s), j \in 1..Len(t) : s[i].kind # t[j].kind
  BY DEF Ready
<1>. HIDE DEF g, x, r
<1>4. \A j \in 1..Len(g) : j \in 1..Len(out) \/ j = Len(out) + 1
  BY <1>2
<1>5. Lined(g)
  <2>. SUFFICES ASSUME NEW i \in 1..Len(g), NEW j \in 1..Len(g), i < j PROVE InLine(g[i], g[j])
    BY DEF Lined, LinedTo
  <2>1. i \in 1..Len(out) /\ g[i] = out[i]
    BY <1>2
  <2>2. CASE j \in 1..Len(out)
    BY <1>2, <1>3, <2>1, <2>2 DEF Lined, LinedTo
  <2>3. CASE j = Len(out) + 1
    BY <1>1, <1>2, <1>3, <2>1, <2>3 DEF Ahead
  <2>. QED  BY <1>4, <2>2, <2>3
<1>6. Lined(r)
  <2>. SUFFICES ASSUME NEW i \in 1..Len(r), NEW j \in 1..Len(r), i < j PROVE InLine(r[i], r[j])
    BY DEF Lined, LinedTo
  <2>1. i + 1 < j + 1 /\ i + 1 \in 1..Len(s) /\ j + 1 \in 1..Len(s)
    BY <1>1
  <2>. QED  BY <1>1, <1>3, <2>1 DEF Lined, LinedTo
<1>7. Ahead(g, r)
  <2>. SUFFICES ASSUME NEW i \in 1..Len(g), NEW j \in 1..Len(r) PROVE InLine(g[i], r[j])
    BY DEF Ahead
  <2>1. CASE i \in 1..Len(out)
    BY <1>1, <1>2, <1>3, <2>1 DEF Ahead
  <2>2. CASE i = Len(out) + 1
    BY <1>1, <1>2, <1>3, <2>2 DEF Lined, LinedTo
  <2>. QED  BY <1>4, <2>1, <2>2
<1>8. Ahead(g, t)
  <2>. SUFFICES ASSUME NEW i \in 1..Len(g), NEW j \in 1..Len(t) PROVE InLine(g[i], t[j])
    BY DEF Ahead
  <2>1. CASE i \in 1..Len(out)
    BY <1>2, <1>3, <2>1 DEF Ahead
  <2>2. CASE i = Len(out) + 1
    <3>1. t # <<>> /\ Head(t) = t[1] /\ t[1] \in Entry /\ t[j] \in Entry /\ 1 \in 1..Len(t)
          /\ (j = 1 \/ 1 < j)
      OBVIOUS
    <3>2. NotAbove(x, t[1])
      BY <3>1 DEF x
    <3>3. NotAbove(t[1], t[j])
      <4>1. CASE j = 1
        BY <3>1, <4>1, NotAboveEither
      <4>2. CASE 1 < j
        BY <1>3, <3>1, <4>2 DEF Lined, LinedTo, InLine
      <4>. QED  BY <3>1, <4>1, <4>2
    <3>4. NotAbove(x, t[j])
      BY <1>1, <3>1, <3>2, <3>3, NotAboveEither
    <3>5. x.kind # t[j].kind
      BY <1>1, <1>3
    <3>. QED  BY <1>2, <2>2, <3>4, <3>5 DEF InLine
  <2>. QED  BY <1>4, <2>1, <2>2
<1>9. \A i \in 1..Len(r), j \in 1..Len(t) : r[i].kind # t[j].kind
  BY <1>1, <1>3
<1>. QED  BY <1>3, <1>5, <1>6, <1>7, <1>8, <1>9 DEF Ready, g, x, r

(* The two hands may change places.                                          *)
LEMMA ReadyEither ==
  ASSUME NEW s, NEW t, NEW out, Ready(s, t, out)
  PROVE  Ready(t, s, out)
BY DEF Ready

\* The merge after n turns.
Hand(at, p, q, n) ==
  /\ at \in Hands /\ Len(at.snaps) + Len(at.deltas) + n = Len(p) + Len(q)
  /\ Held(p, at.snaps, at.out) /\ Held(q, at.deltas, at.out)
  /\ Ready(p, q, <<>>) => Ready(at.snaps, at.deltas, at.out)

(* One turn.                                                                 *)
LEMMA SmallerHeadGoes ==
  ASSUME NEW p \in Seq(Entry), NEW q \in Seq(Entry), NEW n \in 1..(Len(p) + Len(q)), NEW at, NEW any,
         Hand(at, p, q, n - 1)
  PROVE  Hand(SmallerHead(at, any, {}), p, q, n)
<1>. DEFINE s == at.snaps
            t == at.deltas
            out == at.out
            now == SmallerHead(at, any, {})
            below == KeyBelow(SortKey(Head(t)), SortKey(Head(s)))
<1>1. /\ at \in Hands /\ s \in Seq(Entry) /\ t \in Seq(Entry) /\ out \in Seq(Entry)
      /\ Len(s) + Len(t) + (n - 1) = Len(p) + Len(q)
      /\ Held(p, s, out) /\ Held(q, t, out) /\ (Ready(p, q, <<>>) => Ready(s, t, out))
  BY DEF Hand, Hands
<1>2. /\ s # <<>> => Head(s) \in Entry /\ Tail(s) \in Seq(Entry) /\ Len(Tail(s)) = Len(s) - 1
      /\ t # <<>> => Head(t) \in Entry /\ Tail(t) \in Seq(Entry) /\ Len(Tail(t)) = Len(t) - 1
  BY <1>1
<1>3. s # <<>> \/ t # <<>>
  <2>1. ASSUME s = <<>>, t = <<>> PROVE FALSE
    <3>1. Len(s) = 0 /\ Len(t) = 0
      BY <2>1
    <3>. QED  BY <1>1, <3>1
  <2>. QED  BY <2>1
<1>4. s # <<>> /\ t # <<>> => (below <=> ~NotAbove(Head(s), Head(t)))
  BY <1>2, KeysCompare
<1>5. CASE s = <<>> \/ (t # <<>> /\ below)
  <2>1. now = [at EXCEPT !.deltas = Tail(@), !.out = Append(@, Head(at.deltas))]
    BY <1>5 DEF SmallerHead
  <2>. HIDE DEF now, s, t, out, below
  <2>2. t # <<>> /\ (s # <<>> => NotAbove(Head(t), Head(s)))
    <3>1. ASSUME s # <<>>, t # <<>>, ~NotAbove(Head(s), Head(t)) PROVE NotAbove(Head(t), Head(s))
      <4>1. Head(s) \in Entry /\ Head(t) \in Entry
        BY <1>2, <3>1
      <4>2. /\ Head(s).epoch \in Int /\ Head(t).epoch \in Int /\ Head(s).sequence \in Int
            /\ Head(t).sequence \in Int /\ Rank(Head(s)) \in Int /\ Rank(Head(t)) \in Int
        BY <4>1 DEF Entry, Rank
      <4>. QED  BY <3>1, <4>2 DEF NotAbove
    <3>. QED  BY <1>3, <1>4, <1>5, <3>1
  <2>3. now.snaps = s /\ now.deltas = Tail(t) /\ now.out = Append(out, Head(t)) /\ now \in Hands
    <3>1. Append(out, Head(t)) \in Seq(Entry) /\ Tail(t) \in Seq(Entry)
      BY <1>1, <1>2, <2>2
    <3>. QED  BY <1>1, <2>1, <3>1 DEF Hands, s, t, out
  <2>4. Held(p, s, now.out) /\ Held(q, Tail(t), now.out)
    BY <1>1, <2>2, <2>3, HeadIsHeld
  <2>5. ASSUME Ready(p, q, <<>>) PROVE Ready(s, Tail(t), now.out)
    <3>1. Ready(t, s, out)
      BY <1>1, <2>5, ReadyEither
    <3>2. Ready(Tail(t), s, Append(out, Head(t)))
      BY <1>1, <2>2, <3>1, HeadIsReady
    <3>. QED  BY <2>3, <3>2, ReadyEither
  <2>6. Len(now.snaps) + Len(now.deltas) + n = Len(p) + Len(q)
    <3>1. Len(s) \in Nat /\ Len(t) \in Nat /\ Len(p) \in Nat /\ Len(q) \in Nat
      BY <1>1
    <3>. QED  BY <1>1, <1>2, <2>2, <2>3, <3>1
  <2>7. Hand(now, p, q, n)
    BY <2>3, <2>4, <2>5, <2>6 DEF Hand
  <2>. QED  BY <2>7 DEF now
<1>6. CASE ~(s = <<>> \/ (t # <<>> /\ below))
  <2>1. now = [at EXCEPT !.snaps = Tail(@), !.out = Append(@, Head(at.snaps))]
    BY <1>6 DEF SmallerHead
  <2>. HIDE DEF now, s, t, out, below
  <2>2. s # <<>> /\ (t # <<>> => NotAbove(Head(s), Head(t)))
    BY <1>4, <1>6
  <2>3. now.snaps = Tail(s) /\ now.deltas = t /\ now.out = Append(out, Head(s)) /\ now \in Hands
    <3>1. Append(out, Head(s)) \in Seq(Entry) /\ Tail(s) \in Seq(Entry)
      BY <1>1, <1>2, <2>2
    <3>. QED  BY <1>1, <2>1, <3>1 DEF Hands, s, t, out
  <2>4. Held(p, Tail(s), now.out) /\ Held(q, t, now.out)
    BY <1>1, <2>2, <2>3, HeadIsHeld
  <2>5. Ready(p, q, <<>>) => Ready(Tail(s), t, now.out)
    BY <1>1, <2>2, <2>3, HeadIsReady
  <2>6. Len(now.snaps) + Len(now.deltas) + n = Len(p) + Len(q)
    <3>1. Len(s) \in Nat /\ Len(t) \in Nat /\ Len(p) \in Nat /\ Len(q) \in Nat
      BY <1>1
    <3>. QED  BY <1>1, <1>2, <2>2, <2>3, <3>1
  <2>7. Hand(now, p, q, n)
    BY <2>3, <2>4, <2>5, <2>6 DEF Hand
  <2>. QED  BY <2>7 DEF now
<1>. QED  BY <1>5, <1>6

\* m has every record of p.
Has(m, p) == \A i \in 1..Len(p) : \E j \in 1..Len(m) : m[j] = p[i]

(* heapq.merge loses nothing, and its output is in line if its inputs are.   *)
LEMMA MergedHolds ==
  ASSUME NEW p \in Seq(Entry), NEW q \in Seq(Entry)
  PROVE  LET m == Merged(p, q)
         IN  m \in Seq(Entry) /\ Has(m, p) /\ Has(m, q) /\ (Ready(p, q, <<>>) => Lined(m))
<1>. DEFINE N == Len(p) + Len(q)
            first == [snaps |-> p, deltas |-> q, out |-> <<>>]
            pq == p \o q
<1>1. N \in Nat /\ Len(pq) = N /\ Len(p) \in Nat /\ Len(q) \in Nat
  OBVIOUS
<1>. HIDE DEF pq
<1>2. PICK st : Merging!Goes(st, first, pq, {})
  BY <1>1, Merging!LoopGoes, Zenon
<1>3. /\ st[0] = first /\ st[Len(pq)] = Merging!Loop(first, pq, {})
      /\ \A n \in 1..Len(pq) : st[n] = SmallerHead(st[n - 1], pq[n], {})
  BY <1>2, Zenon DEF Merging!Goes
<1>. DEFINE S == {n \in 0..N : Hand(st[n], p, q, n)}
<1>4. 0 \in S
  <2>1. first \in Hands /\ first.snaps = p /\ first.deltas = q /\ first.out = <<>>
    BY DEF Hands
  <2>. HIDE DEF first
  <2>2. Held(p, p, <<>>) /\ Held(q, q, <<>>)
    BY DEF Held
  <2>3. Hand(first, p, q, 0)
    BY <1>1, <2>1, <2>2 DEF Hand
  <2>. QED  BY <1>1, <1>3, <2>3
<1>5. ASSUME NEW n \in 1..N, n - 1 \in S PROVE n \in S
  <2>1. Hand(st[n - 1], p, q, n - 1) /\ st[n] = SmallerHead(st[n - 1], pq[n], {}) /\ n \in 0..N
    BY <1>1, <1>3, <1>5
  <2>2. Hand(SmallerHead(st[n - 1], pq[n], {}), p, q, n)
    BY <2>1, SmallerHeadGoes
  <2>. QED  BY <2>1, <2>2
<1>. HIDE DEF S, first
<1>6. \A n \in 0..N : n \in S
  BY <1>1, <1>4, <1>5, Merging!UpTo
<1>7. Hand(st[N], p, q, N)
  BY <1>1, <1>6 DEF S
<1>8. Merged(p, q) = st[N].out
  BY <1>1, <1>3 DEF Merged, first, pq
<1>. DEFINE m == Merged(p, q)
            s == st[N].snaps
            t == st[N].deltas
<1>9. /\ m \in Seq(Entry) /\ s \in Seq(Entry) /\ t \in Seq(Entry)
      /\ Len(s) + Len(t) + N = Len(p) + Len(q)
      /\ Held(p, s, m) /\ Held(q, t, m) /\ (Ready(p, q, <<>>) => Ready(s, t, m))
  BY <1>7, <1>8 DEF Hand, Hands
<1>. HIDE DEF m, s, t
<1>10. Len(s) = 0 /\ Len(t) = 0
  <2>1. Len(s) \in Nat /\ Len(t) \in Nat
    BY <1>9
  <2>. QED  BY <1>1, <1>9, <2>1 DEF N
<1>11. Has(m, p) /\ Has(m, q) /\ (Ready(p, q, <<>>) => Lined(m))
  <2>1. \A j : j \notin 1..0
    OBVIOUS
  <2>. QED  BY <1>9, <1>10, <2>1, Zenon DEF Held, Has, Ready
<1>. QED  BY <1>9, <1>11 DEF m

(* The numbers up to n.                                                      *)
LEMMA CountTo ==
  ASSUME NEW n \in Nat
  PROVE  IsFiniteSet(1..n) /\ Cardinality(1..n) = n
<1>1. 1 \in Int /\ n \in Int
  OBVIOUS
<1>2. IsFiniteSet(1..n) /\ Cardinality(1..n) = IF 1 > n THEN 0 ELSE n - 1 + 1
  BY <1>1, FS_Interval
<1>. QED  BY <1>2

(* A record's kind and offset.                                               *)
LEMMA EntryHas ==
  ASSUME NEW r \in Entry
  PROVE  r.kind \in {"snap", "delta"} /\ r.offset \in Int
BY DEF Entry

\* f is the first n records of p.
Copies(f, p, n) == Len(f) = n /\ \A i \in 1..n : f[i] = p[i]
Has1(m, p, n) == \A i \in 1..n : \E j \in 1..Len(m) : m[j] = p[i]

(* A record put in its place leaves the others there.                        *)
LEMMA InsertedIs ==
  ASSUME NEW s \in Seq(Entry), NEW r \in Entry, NEW k \in 0..Len(s)
  PROVE  /\ InsertAt(s, k + 1, r) \in Seq(Entry)
         /\ \A j \in 1..Len(s) : \E i \in 1..Len(InsertAt(s, k + 1, r)) : InsertAt(s, k + 1, r)[i] = s[j]
         /\ \E i \in 1..Len(InsertAt(s, k + 1, r)) : InsertAt(s, k + 1, r)[i] = r
         /\ k = Len(s) => InsertAt(s, k + 1, r) = Append(s, r)
<1>. DEFINE a == SubSeq(s, 1, k)
            b == SubSeq(s, k + 1, Len(s))
            g == InsertAt(s, k + 1, r)
<1>1. /\ a \in Seq(Entry) /\ Len(a) = k /\ \A i \in 1..k : a[i] = s[i]
      /\ b \in Seq(Entry) /\ Len(b) = Len(s) - k /\ \A i \in 1..(Len(s) - k) : b[i] = s[k + i]
      /\ k \in Nat /\ Len(s) \in Nat
  OBVIOUS
<1>2. g = a \o <<r>> \o b
  <2>1. (k + 1) - 1 = k
    OBVIOUS
  <2>. QED  BY <2>1 DEF InsertAt
<1>3. k = Len(s) => g = Append(s, r)
  <2>. SUFFICES ASSUME k = Len(s) PROVE g = Append(s, r)
    OBVIOUS
  <2>1. a = s /\ b = <<>>
    OBVIOUS
  <2>2. g = s \o <<r>> \o <<>>
    BY <1>2, <2>1, Zenon
  <2>. QED  BY <2>2
<1>. HIDE DEF a, b, g
<1>4. /\ g \in Seq(Entry) /\ Len(g) = Len(s) + 1 /\ g[k + 1] = r
      /\ \A i \in 1..k : g[i] = s[i]
      /\ \A i \in 1..(Len(s) - k) : g[(k + 1) + i] = s[k + i]
  <2>. DEFINE c == a \o <<r>>
  <2>1. c \in Seq(Entry) /\ Len(c) = k + 1 /\ c[k + 1] = r /\ \A i \in 1..k : c[i] = s[i]
    BY <1>1
  <2>2. g = c \o b
    BY <1>2
  <2>. HIDE DEF c
  <2>. QED  BY <1>1, <2>1, <2>2
<1>5. ASSUME NEW j \in 1..Len(s) PROVE \E i \in 1..Len(g) : g[i] = s[j]
  <2>1. CASE j <= k
    <3>1. j \in 1..k /\ j \in 1..Len(g)
      BY <1>1, <1>4, <2>1
    <3>. QED  BY <1>4, <3>1
  <2>2. CASE k < j
    <3>1. j - k \in 1..(Len(s) - k) /\ k + (j - k) = j /\ (k + 1) + (j - k) \in 1..Len(g)
      BY <1>1, <1>4, <2>2
    <3>. QED  BY <1>4, <3>1
  <2>. QED  BY <1>1, <2>1, <2>2
<1>6. k + 1 \in 1..Len(g)
  BY <1>1, <1>4
<1>. QED  BY <1>3, <1>4, <1>5, <1>6 DEF g

\* The sort after n records.
Sorts(f, p, n) ==
  /\ f \in Seq(Entry) /\ Has1(f, p, n)
  /\ LinedTo(p, n) => Copies(f, p, n)

(* One record.                                                               *)
LEMMA PlacedSorts ==
  ASSUME NEW p \in Seq(Entry), NEW n \in 1..Len(p), NEW f, Sorts(f, p, n - 1)
  PROVE  Sorts(Placed(f, p[n], {}), p, n)
<1>. DEFINE r == p[n]
            stay == {i \in DOMAIN f : ~KeyBelow(SortKey(r), SortKey(f[i]))}
            k == Cardinality(stay)
            g == Placed(f, r, {})
<1>1. /\ f \in Seq(Entry) /\ r \in Entry /\ Len(f) \in Nat /\ DOMAIN f = 1..Len(f) /\ n - 1 \in Nat
      /\ \A i \in 1..n : i \in 1..(n - 1) \/ i = n
  BY DEF Sorts
<1>2. k \in 0..Len(f) /\ (stay = DOMAIN f => k = Len(f))
  <2>1. IsFiniteSet(1..Len(f)) /\ Cardinality(1..Len(f)) = Len(f)
    BY <1>1, CountTo
  <2>2. stay \subseteq 1..Len(f)
    BY <1>1
  <2>. HIDE DEF stay
  <2>3. IsFiniteSet(stay) /\ Cardinality(stay) <= Cardinality(1..Len(f))
    BY <2>1, <2>2, FS_Subset
  <2>4. Cardinality(stay) \in Nat
    BY <2>3, FS_CardinalityType
  <2>. QED  BY <1>1, <2>1, <2>3, <2>4
<1>3. g = InsertAt(f, k + 1, r)
  BY DEF Placed
<1>. HIDE DEF k, g
<1>4. /\ g \in Seq(Entry) /\ \A j \in 1..Len(f) : \E i \in 1..Len(g) : g[i] = f[j]
      /\ \E i \in 1..Len(g) : g[i] = r
      /\ k = Len(f) => g = Append(f, r)
  <2>. HIDE DEF r
  <2>1. k \in 0..Len(f)
    BY SMTT(40), <1>2
  <2>2. /\ InsertAt(f, k + 1, r) \in Seq(Entry)
        /\ \A j \in 1..Len(f) : \E i \in 1..Len(InsertAt(f, k + 1, r)) : InsertAt(f, k + 1, r)[i] = f[j]
        /\ \E i \in 1..Len(InsertAt(f, k + 1, r)) : InsertAt(f, k + 1, r)[i] = r
        /\ k = Len(f) => InsertAt(f, k + 1, r) = Append(f, r)
    BY <1>1, <2>1, InsertedIs
  <2>. QED  BY <1>3, <2>2
<1>5. Has1(g, p, n)
  <2>. SUFFICES ASSUME NEW i \in 1..n PROVE \E j \in 1..Len(g) : g[j] = p[i]
    BY DEF Has1
  <2>1. CASE i = n
    BY <1>4, <2>1
  <2>2. CASE i \in 1..(n - 1)
    <3>1. PICK j \in 1..Len(f) : f[j] = p[i]
      BY <2>2 DEF Sorts, Has1
    <3>. QED  BY <1>4, <3>1
  <2>. QED  BY <1>1, <2>1, <2>2
<1>6. ASSUME LinedTo(p, n) PROVE Copies(g, p, n)
  <2>1. LinedTo(p, n - 1) /\ \A i \in 1..(n - 1) : InLine(p[i], r)
    <3>1. \A i \in 1..(n - 1) : i \in 1..n /\ i < n
      BY <1>1
    <3>2. n \in 1..n
      OBVIOUS
    <3>. QED  BY <1>6, <3>1, <3>2 DEF LinedTo
  <2>2. Len(f) = n - 1 /\ \A i \in 1..(n - 1) : f[i] = p[i]
    BY <2>1 DEF Sorts, Copies
  <2>3. ASSUME NEW i \in DOMAIN f PROVE ~KeyBelow(SortKey(r), SortKey(f[i]))
    <3>1. i \in 1..(n - 1) /\ f[i] \in Entry
      BY <1>1, <2>2
    <3>2. NotAbove(f[i], r)
      BY <2>1, <2>2, <3>1 DEF InLine
    <3>. QED  BY <1>1, <3>1, <3>2, KeysCompare
  <2>4. stay = DOMAIN f
    BY <2>3
  <2>5. g = Append(f, r)
    BY <1>2, <1>4, <2>4
  <2>6. Len(g) = n /\ g[n] = r /\ \A i \in 1..(n - 1) : g[i] = f[i]
    BY <1>1, <2>2, <2>5
  <2>. QED  BY <1>1, <2>2, <2>6 DEF Copies
<1>7. Sorts(g, p, n)
  BY <1>4, <1>5, <1>6 DEF Sorts
<1>. QED  BY <1>7 DEF g

(* The sort loses nothing, and changes nothing that is in line.              *)
LEMMA SortedHolds ==
  ASSUME NEW p \in Seq(Entry)
  PROVE  Sorted(p) \in Seq(Entry) /\ Has(Sorted(p), p) /\ (Lined(p) => Sorted(p) = p)
<1>. DEFINE N == Len(p)
<1>1. N \in Nat
  OBVIOUS
<1>2. PICK st : Sorting!Goes(st, <<>>, p, {})
  BY <1>1, Sorting!LoopGoes, Zenon
<1>3. /\ st[0] = <<>> /\ st[N] = Sorted(p)
      /\ \A n \in 1..N : st[n] = Placed(st[n - 1], p[n], {})
  BY <1>2, Zenon DEF Sorting!Goes, Sorted
<1>. DEFINE S == {n \in 0..N : Sorts(st[n], p, n)}
<1>4. 0 \in S
  <2>1. Sorts(<<>>, p, 0)
    BY DEF Sorts, Has1, Copies
  <2>. QED  BY <1>1, <1>3, <2>1
<1>5. ASSUME NEW n \in 1..N, n - 1 \in S PROVE n \in S
  <2>1. Sorts(st[n - 1], p, n - 1) /\ st[n] = Placed(st[n - 1], p[n], {}) /\ n \in 0..N
    BY <1>1, <1>3, <1>5
  <2>2. Sorts(Placed(st[n - 1], p[n], {}), p, n)
    BY <2>1, PlacedSorts
  <2>. QED  BY <2>1, <2>2
<1>. HIDE DEF S
<1>6. \A n \in 0..N : n \in S
  BY <1>1, <1>4, <1>5, Sorting!UpTo
<1>7. Sorts(Sorted(p), p, N)
  BY <1>1, <1>3, <1>6 DEF S
<1>. DEFINE f == Sorted(p)
<1>8. f \in Seq(Entry) /\ Has1(f, p, N) /\ (LinedTo(p, N) => Copies(f, p, N))
  BY <1>7 DEF Sorts
<1>. HIDE DEF f
<1>9. Lined(p) => f = p
  <2>. SUFFICES ASSUME Lined(p) PROVE f = p
    OBVIOUS
  <2>1. Len(f) = Len(p) /\ \A i \in 1..Len(p) : f[i] = p[i]
    BY <1>8 DEF Lined, Copies
  <2>. QED  BY <1>8, <2>1, SeqEqual
<1>. QED  BY <1>8, <1>9 DEF f, Has, Has1

\* f is the records of a kind among the first n of the day, picked by h.
Picks(h, f, day, kind, n) ==
  /\ f \in Seq(Entry) /\ \A i \in 1..Len(f) :
       /\ h[i] \in 1..n /\ f[i] = day[h[i]] /\ f[i].kind = kind
       /\ \A j \in 1..Len(f) : i < j => h[i] < h[j]

(* A topic is picked from the log from left to right.                        *)
LEMMA TopicPicks ==
  ASSUME NEW day \in Seq(Entry), NEW kind
  PROVE  \E h : Picks(h, OfKind(day, kind), day, kind, Len(day))
<1>. DEFINE N == Len(day)
<1>1. N \in Nat
  OBVIOUS
<1>2. PICK st : Filtering!Goes(st, <<>>, day, kind)
  BY <1>1, Filtering!LoopGoes, Zenon
<1>3. /\ st[0] = <<>> /\ st[N] = OfKind(day, kind)
      /\ \A n \in 1..N : st[n] = KeptIn(st[n - 1], day[n], kind)
  BY <1>2, Zenon DEF Filtering!Goes, OfKind
<1>. DEFINE S == {n \in 0..N : \E h : Picks(h, st[n], day, kind, n)}
<1>4. 0 \in S
  <2>1. Picks(<<>>, <<>>, day, kind, 0)
    BY DEF Picks
  <2>. QED  BY <1>1, <1>3, <2>1
<1>5. ASSUME NEW n \in 1..N, n - 1 \in S PROVE n \in S
  <2>. DEFINE f == st[n - 1]
              g == st[n]
  <2>1. PICK h : Picks(h, f, day, kind, n - 1)
    BY <1>5
  <2>2. g = KeptIn(f, day[n], kind) /\ n \in 0..N /\ n \in Nat /\ f \in Seq(Entry) /\ day[n] \in Entry
    BY <1>1, <1>3, <2>1 DEF Picks
  <2>. HIDE DEF f, g
  <2>3. CASE day[n].kind # kind
    <3>1. g = f
      BY <2>2, <2>3 DEF KeptIn
    <3>2. \A i \in 1..(n - 1) : i \in 1..n
      BY <2>2
    <3>3. Picks(h, g, day, kind, n)
      BY <2>1, <3>1, <3>2 DEF Picks
    <3>. QED  BY <2>2, <3>3 DEF g
  <2>4. CASE day[n].kind = kind
    <3>. DEFINE M == Len(f)
                k == [i \in 1..(M + 1) |-> IF i = M + 1 THEN n ELSE h[i]]
    <3>1. /\ g \in Seq(Entry) /\ Len(g) = M + 1 /\ g[M + 1] = day[n] /\ M \in Nat
          /\ \A i \in 1..M : g[i] = f[i] /\ k[i] = h[i] /\ i # M + 1
          /\ k[M + 1] = n
      BY <2>2, <2>4 DEF KeptIn
    <3>. HIDE DEF k, M
    <3>2. \A i \in 1..M : /\ h[i] \in 1..n /\ h[i] < n /\ f[i] = day[h[i]] /\ f[i].kind = kind
                          /\ \A j \in 1..M : i < j => h[i] < h[j]
      <4>. SUFFICES ASSUME NEW i \in 1..M
                    PROVE  /\ h[i] \in 1..n /\ h[i] < n /\ f[i] = day[h[i]] /\ f[i].kind = kind
                           /\ \A j \in 1..M : i < j => h[i] < h[j]
        OBVIOUS
      <4>1. /\ h[i] \in 1..(n - 1) /\ f[i] = day[h[i]] /\ f[i].kind = kind
            /\ \A j \in 1..M : i < j => h[i] < h[j]
        BY <2>1 DEF Picks, M
      <4>2. h[i] \in 1..n /\ h[i] < n
        BY <2>2, <4>1
      <4>. QED  BY <4>1, <4>2
    <3>3. ASSUME NEW i \in 1..Len(g)
          PROVE  /\ k[i] \in 1..n /\ g[i] = day[k[i]] /\ g[i].kind = kind
                 /\ \A j \in 1..Len(g) : i < j => k[i] < k[j]
      <4>1. CASE i = M + 1
        <5>1. \A j \in 1..Len(g) : ~(i < j)
          BY <3>1, <4>1
        <5>2. n \in 1..n
          BY <2>2
        <5>. QED  BY <2>4, <3>1, <4>1, <5>1, <5>2
      <4>2. CASE i \in 1..M
        <5>1. ASSUME NEW j \in 1..Len(g), i < j PROVE k[i] < k[j]
          <6>1. CASE j = M + 1
            BY <3>1, <3>2, <4>2, <6>1
          <6>2. CASE j \in 1..M
            BY <3>1, <3>2, <4>2, <5>1, <6>2
          <6>. QED  BY <3>1, <6>1, <6>2
        <5>. QED  BY <3>1, <3>2, <4>2, <5>1
      <4>. QED  BY <3>1, <4>1, <4>2
    <3>4. Picks(k, g, day, kind, n)
      BY <3>1, <3>3 DEF Picks
    <3>. QED  BY <2>2, <3>4 DEF g
  <2>. QED  BY <2>3, <2>4
<1>. HIDE DEF S
<1>6. \A n \in 0..N : n \in S
  BY <1>1, <1>4, <1>5, Filtering!UpTo
<1>7. N \in S
  BY <1>1, <1>6
<1>. QED  BY <1>3, <1>7 DEF S

\* The records lie in the order they were appended in.
Ascends(q) == \A i, j \in 1..Len(q) : i < j => q[i].offset < q[j].offset

(* A list in line that has all of a topic has it in the topic's order.       *)
LEMMA InLineWithin ==
  ASSUME NEW f \in Seq(Entry), Ascends(f), \A i, j \in 1..Len(f) : f[i].kind = f[j].kind,
         NEW m \in Seq(Entry), Has(m, f), Lined(m)
  PROVE  Lined(f)
<1>. SUFFICES ASSUME NEW i \in 1..Len(f), NEW j \in 1..Len(f), i < j PROVE InLine(f[i], f[j])
  BY DEF Lined, LinedTo
<1>1. PICK a \in 1..Len(m) : m[a] = f[i]
  BY DEF Has
<1>2. PICK b \in 1..Len(m) : m[b] = f[j]
  BY DEF Has
<1>3. /\ f[i].kind = f[j].kind /\ f[i].offset < f[j].offset
      /\ f[i].offset \in Int /\ f[j].offset \in Int
  <2>1. f[i] \in Entry /\ f[j] \in Entry
    OBVIOUS
  <2>2. f[i].offset \in Int /\ f[j].offset \in Int
    BY <2>1, EntryHas
  <2>. QED  BY <2>2 DEF Ascends
<1>4. ~(b < a) /\ a # b
  <2>1. ~InLine(m[b], m[a])
    BY <1>1, <1>2, <1>3 DEF InLine
  <2>2. m[a] # m[b]
    BY <1>1, <1>2, <1>3
  <2>. QED  BY <2>1, <2>2 DEF Lined, LinedTo
<1>5. a < b
  BY <1>4
<1>. QED  BY <1>1, <1>2, <1>5 DEF Lined, LinedTo

(* What is picked lies as it lay.                                            *)
LEMMA PickedLies ==
  ASSUME NEW day \in Seq(Entry), Ascends(day), NEW kind, NEW h, NEW f, Picks(h, f, day, kind, Len(day))
  PROVE  /\ f \in Seq(Entry) /\ Ascends(f) /\ \A i \in 1..Len(f) : f[i].kind = kind
         /\ ~Lined(f) => \E i, j \in 1..Len(day) :
              i < j /\ day[i].kind = kind /\ day[j].kind = kind /\ ~NotAbove(day[i], day[j])
<1>1. /\ f \in Seq(Entry)
      /\ \A i \in 1..Len(f) : /\ h[i] \in 1..Len(day) /\ f[i] = day[h[i]] /\ f[i].kind = kind
                              /\ \A j \in 1..Len(f) : i < j => h[i] < h[j]
  BY DEF Picks
<1>2. Ascends(f)
  BY <1>1 DEF Ascends
<1>3. ASSUME ~Lined(f)
      PROVE  \E i, j \in 1..Len(day) :
               i < j /\ day[i].kind = kind /\ day[j].kind = kind /\ ~NotAbove(day[i], day[j])
  <2>1. PICK i \in 1..Len(f), j \in 1..Len(f) : i < j /\ ~InLine(f[i], f[j])
    BY <1>3 DEF Lined, LinedTo
  <2>2. f[i].offset <= f[j].offset
    <3>1. f[i] \in Entry /\ f[j] \in Entry /\ f[i].offset < f[j].offset
      BY <1>1, <1>2, <2>1 DEF Ascends
    <3>. QED  BY <3>1 DEF Entry
  <2>3. ~NotAbove(f[i], f[j])
    BY <2>1, <2>2 DEF InLine
  <2>. QED  BY <1>1, <2>1, <2>3
<1>. QED  BY <1>1, <1>2, <1>3

(* The streamed and the sorted fold of a day.                                *)
LEMMA FoldsAreOne ==
  ASSUME NEW day \in Seq(Entry), Ascends(day), NEW c
  PROVE  LET streaming == StreamingFold(day, c)
             memory == InMemoryFold(day, c)
         IN  /\ memory.refused = streaming.refused
             /\ ~streaming.refused => memory.rows = streaming.rows
             /\ streaming.refused => \E i, j \in 1..Len(day) :
                  i < j /\ day[i].kind = day[j].kind /\ ~NotAbove(day[i], day[j])
<1>. DEFINE f == OfKind(day, "snap")
            g == OfKind(day, "delta")
            m == Merged(f, g)
            n == Merged(Sorted(f), Sorted(g))
            streaming == StreamingFold(day, c)
            memory == InMemoryFold(day, c)
            Swapped == \E i, j \in 1..Len(day) :
              i < j /\ day[i].kind = day[j].kind /\ ~NotAbove(day[i], day[j])
<1>1. streaming = Fold(m, c) /\ memory = Fold(n, c)
  BY DEF StreamingFold, InMemoryFold
<1>2. /\ f \in Seq(Entry) /\ Ascends(f) /\ (\A i \in 1..Len(f) : f[i].kind = "snap")
      /\ ~Lined(f) => Swapped
  <2>1. PICK h : Picks(h, f, day, "snap", Len(day))
    BY TopicPicks
  <2>. HIDE DEF f
  <2>2. /\ f \in Seq(Entry) /\ Ascends(f) /\ (\A i \in 1..Len(f) : f[i].kind = "snap")
        /\ ~Lined(f) => \E i, j \in 1..Len(day) :
             i < j /\ day[i].kind = "snap" /\ day[j].kind = "snap" /\ ~NotAbove(day[i], day[j])
    BY <2>1, PickedLies
  <2>. QED  BY <2>2
<1>3. /\ g \in Seq(Entry) /\ Ascends(g) /\ (\A i \in 1..Len(g) : g[i].kind = "delta")
      /\ ~Lined(g) => Swapped
  <2>1. PICK h : Picks(h, g, day, "delta", Len(day))
    BY TopicPicks
  <2>. HIDE DEF g
  <2>2. /\ g \in Seq(Entry) /\ Ascends(g) /\ (\A i \in 1..Len(g) : g[i].kind = "delta")
        /\ ~Lined(g) => \E i, j \in 1..Len(day) :
             i < j /\ day[i].kind = "delta" /\ day[j].kind = "delta" /\ ~NotAbove(day[i], day[j])
    BY <2>1, PickedLies
  <2>. QED  BY <2>2
<1>. HIDE DEF f, g, Swapped
<1>4. m \in Seq(Entry) /\ Has(m, f) /\ Has(m, g) /\ (Ready(f, g, <<>>) => Lined(m))
  BY <1>2, <1>3, MergedHolds
<1>5. /\ Sorted(f) \in Seq(Entry) /\ Has(Sorted(f), f) /\ (Lined(f) => Sorted(f) = f)
      /\ Sorted(g) \in Seq(Entry) /\ Has(Sorted(g), g) /\ (Lined(g) => Sorted(g) = g)
  BY <1>2, <1>3, SortedHolds
<1>6. n \in Seq(Entry) /\ Has(n, f) /\ Has(n, g)
  <2>1. n \in Seq(Entry) /\ Has(n, Sorted(f)) /\ Has(n, Sorted(g))
    BY <1>5, MergedHolds
  <2>. HIDE DEF n
  <2>2. \A a, b : Has(n, a) /\ Has(a, b) => Has(n, b)
    BY DEF Has
  <2>. QED  BY <1>5, <2>1, <2>2
<1>7. CASE Lined(f) /\ Lined(g)
  <2>1. n = m
    BY <1>5, <1>7
  <2>2. Ready(f, g, <<>>)
    BY <1>2, <1>3, <1>7 DEF Ready, Lined, LinedTo, Ahead
  <2>3. ~Fold(m, c).refused
    BY <1>4, <2>2, FoldRefuses
  <2>. QED  BY <1>1, <2>1, <2>3
<1>8. CASE ~(Lined(f) /\ Lined(g))
  <2>1. Swapped
    BY <1>2, <1>3, <1>8
  <2>2. ~Lined(m) /\ ~Lined(n)
    BY <1>2, <1>3, <1>4, <1>6, <1>8, InLineWithin
  <2>3. /\ streaming.refused \in BOOLEAN /\ streaming.refused
        /\ memory.refused \in BOOLEAN /\ memory.refused
    BY <1>1, <1>4, <1>6, <2>2, FoldRefuses
  <2>. QED  BY <2>1, <2>3 DEF Swapped
<1>. QED  BY <1>7, <1>8

----------------------------------------------------------------------------
\* The log is filed in order

\* Each record is at its offset; epochs follow each other unless a snapshot came
\* late; and the snapshots of an epoch rise, one that waits to be sent included.
Filed ==
  /\ \A n \in 1..Len(log) : log[n].offset = n
  /\ ~late => \A m, n \in 1..Len(log) : m < n => log[m].epoch <= log[n].epoch
  /\ \A m, n \in 1..Len(log) :
       m < n /\ log[m].epoch = log[n].epoch /\ log[m].kind = "snap" /\ log[n].kind = "snap" =>
         log[m].sequence <= log[n].sequence
  /\ \A i \in 1..Len(periodic), n \in 1..Len(log) :
       log[n].epoch = periodic[i].epoch /\ log[n].kind = "snap" =>
         log[n].sequence <= periodic[i].sequence

(* What appends nothing, and has nothing to append, files nothing.           *)
LEMMA NothingFiled ==
  ASSUME Filed, UNCHANGED <<log, periodic, late>>
  PROVE  Filed'
BY DEF Filed

(* The applier's records go behind all of theirs: a snapshot of its opens an *)
(* epoch, and none of an epoch that is open already waits to be sent.        *)
LEMMA ReceiveFiles ==
  ASSUME Inv, Told, Filed, Receive
  PROVE  Filed'
<1>1. PICK me : Takes(me)
  BY ReceiveTakes
<1>2. up /\ Fits(me) /\ Tells(me) /\ Take(me)
  BY <1>1 DEF Receive, Takes
<1>3. UNCHANGED <<epoch, periodic, late>> /\ log \in Seq(Entry) /\ log' \in Seq(Entry)
  BY <1>2, TakeIs DEF Inv, Types
<1>4. Lengthens /\ \A n \in 1..Len(log') : log'[n].epoch <= epoch
  BY <1>2, <1>3, TakenTells
<1>5. /\ \A n \in 1..Len(log) : n \in 1..Len(log') /\ log'[n] = log[n]
      /\ \A n \in 1..Len(log') : n \in 1..Len(log) \/
           /\ log'[n].offset = n /\ log'[n].epoch = epoch
           /\ log'[n].kind = "snap" =>
                n = Len(log) + 1 /\ \A k \in 1..Len(log) : log[k].epoch # epoch
  BY <1>4 DEF Lengthens
<1>6. Len(log) \in Nat /\ Len(log') \in Nat
  BY <1>3
<1>7. \A n \in 1..Len(log') : log'[n].offset = n
  BY <1>5 DEF Filed
<1>8. ASSUME ~late, NEW m \in 1..Len(log'), NEW n \in 1..Len(log'), m < n
      PROVE  log'[m].epoch <= log'[n].epoch
  <2>1. CASE n \in 1..Len(log)
    <3>1. m \in 1..Len(log)
      BY <1>6, <1>8, <2>1
    <3>. QED  BY <1>5, <1>8, <2>1, <3>1 DEF Filed
  <2>2. CASE n \notin 1..Len(log)
    BY <1>4, <1>5, <2>2
  <2>. QED  BY <2>1, <2>2
<1>9. ASSUME NEW m \in 1..Len(log'), NEW n \in 1..Len(log'), m < n, log'[m].epoch = log'[n].epoch,
             log'[m].kind = "snap", log'[n].kind = "snap"
      PROVE  log'[m].sequence <= log'[n].sequence
  <2>1. CASE n \in 1..Len(log)
    <3>1. m \in 1..Len(log)
      BY <1>6, <1>9, <2>1
    <3>. QED  BY <1>5, <1>9, <2>1, <3>1 DEF Filed
  <2>2. CASE n \notin 1..Len(log)
    <3>1. n = Len(log) + 1 /\ log'[n].epoch = epoch /\ \A k \in 1..Len(log) : log[k].epoch # epoch
      BY <1>5, <1>9, <2>2
    <3>2. m \in 1..Len(log)
      BY <1>6, <1>9, <3>1
    <3>. QED  BY <1>5, <1>9, <3>1, <3>2
  <2>. QED  BY <2>1, <2>2
<1>10. ASSUME NEW i \in 1..Len(periodic), NEW n \in 1..Len(log'), log'[n].epoch = periodic[i].epoch,
              log'[n].kind = "snap"
       PROVE  log'[n].sequence <= periodic[i].sequence
  <2>1. CASE n \in 1..Len(log)
    BY <1>5, <1>10, <2>1 DEF Filed
  <2>2. CASE n \notin 1..Len(log)
    <3>1. log'[n].epoch = epoch /\ \A k \in 1..Len(log) : log[k].epoch # epoch
      BY <1>5, <1>10, <2>2
    <3>2. \E k \in 1..Len(log) : log[k].epoch = periodic[i].epoch
      BY DEF Told, Retold
    <3>. QED  BY <1>10, <3>1, <3>2
  <2>. QED  BY <2>1, <2>2
<1>. QED  BY <1>3, <1>7, <1>8, <1>9, <1>10 DEF Filed

(* A periodic snapshot is of the newest book there is, ...                   *)
LEMMA BuildPeriodicFiles ==
  ASSUME Inv, Told, Filed, BuildPeriodic
  PROVE  Filed'
<1>. DEFINE r == [kind |-> "snap", epoch |-> epoch, sequence |-> book.sequence, offset |-> 0,
                  levels |-> book.levels, changes |-> <<>>, book |-> book.levels]
<1>1. state = "LIVE" /\ periodic' = <<r>> /\ UNCHANGED <<log, late>>
  BY DEF BuildPeriodic, history
<1>2. Len(periodic') = 1 /\ periodic'[1].epoch = epoch /\ periodic'[1].sequence = book.sequence
  BY <1>1
<1>3. \A n \in 1..Len(log) : log[n].epoch = epoch => log[n].sequence <= book.sequence
  BY <1>1 DEF Told, Tip, Newest
<1>4. \A i \in 1..Len(periodic') : i = 1
  BY <1>2
<1>5. \A i \in 1..Len(periodic'), n \in 1..Len(log') :
        log'[n].epoch = periodic'[i].epoch /\ log'[n].kind = "snap" =>
          log'[n].sequence <= periodic'[i].sequence
  BY <1>1, <1>2, <1>3, <1>4
<1>. QED  BY <1>1, <1>5 DEF Filed

(* ... and late if a newer connection's records are there when it is sent.   *)
LEMMA SendPeriodicFiles ==
  ASSUME Inv, Told, Filed, SendPeriodic
  PROVE  Filed'
<1>. DEFINE r == [periodic[1] EXCEPT !.offset = Len(log) + 1]
            N == Len(log)
<1>1. /\ periodic # <<>> /\ periodic' = <<>> /\ log' = Append(log, r)
      /\ late' = (late \/ \E n \in DOMAIN log : log[n].epoch > periodic[1].epoch)
      /\ periodic \in Seq(Entry) /\ log \in Seq(Entry) /\ late \in BOOLEAN
  BY DEF SendPeriodic, Inv, Types
<1>2. 1 \in 1..Len(periodic) /\ periodic[1] \in Entry /\ N \in Nat /\ DOMAIN log = 1..N
  BY <1>1
<1>3. /\ r.offset = N + 1 /\ r.epoch = periodic[1].epoch /\ r.sequence = periodic[1].sequence
      /\ r \in Entry
  <2>1. N + 1 \in Nat
    BY <1>2
  <2>. HIDE DEF N
  <2>. QED  BY <1>2, <2>1 DEF Entry, N
<1>. HIDE DEF r
<1>4. /\ Len(log') = N + 1 /\ log'[N + 1] = r /\ \A n \in 1..N : log'[n] = log[n]
      /\ \A n \in 1..(N + 1) : n \in 1..N \/ n = N + 1
  BY <1>1, <1>2, <1>3
<1>. HIDE DEF N
<1>5. \A n \in 1..Len(log') : log'[n].offset = n
  BY <1>3, <1>4 DEF Filed, N
<1>6. ASSUME ~late', NEW m \in 1..Len(log'), NEW n \in 1..Len(log'), m < n
      PROVE  log'[m].epoch <= log'[n].epoch
  <2>1. m \in 1..N
    BY <1>2, <1>4, <1>6
  <2>2. CASE n \in 1..N
    BY <1>1, <1>4, <1>6, <2>1, <2>2 DEF Filed, N
  <2>3. CASE n = N + 1
    <3>1. ~(log[m].epoch > r.epoch)
      BY <1>1, <1>2, <1>3, <1>6, <2>1
    <3>2. log[m].epoch \in Int /\ r.epoch \in Int
      <4>1. log[m] \in Entry
        BY <1>1, <2>1 DEF N
      <4>. QED  BY <1>3, <4>1 DEF Entry
    <3>. QED  BY <1>4, <2>1, <2>3, <3>1, <3>2
  <2>. QED  BY <1>4, <2>2, <2>3
<1>7. ASSUME NEW m \in 1..Len(log'), NEW n \in 1..Len(log'), m < n, log'[m].epoch = log'[n].epoch,
             log'[m].kind = "snap", log'[n].kind = "snap"
      PROVE  log'[m].sequence <= log'[n].sequence
  <2>1. m \in 1..N
    BY <1>2, <1>4, <1>7
  <2>2. CASE n \in 1..N
    BY <1>4, <1>7, <2>1, <2>2 DEF Filed, N
  <2>3. CASE n = N + 1
    BY <1>2, <1>3, <1>4, <1>7, <2>1, <2>3 DEF Filed, N
  <2>. QED  BY <1>4, <2>2, <2>3
<1>8. \A i : i \notin 1..Len(periodic')
  BY <1>1
<1>. QED  BY <1>5, <1>6, <1>7, <1>8 DEF Filed

(* At first nothing is filed, ...                                            *)
LEMMA FiledInit ==
  ASSUME Init
  PROVE  Filed
<1>1. log = <<>> /\ periodic = <<>>
  BY DEF Init
<1>. QED  BY <1>1 DEF Filed

(* ... and every step keeps the order.                                       *)
LEMMA NextFiles ==
  ASSUME Inv, Told, Filed, [Next]_vars
  PROVE  Filed'
<1>1. CASE VenueMoves \/ OtherFrame \/ Unreliable \/ Connect \/ Disconnect \/ Midnight \/ UNCHANGED vars
  <2>1. UNCHANGED <<log, periodic, late>>
    BY <1>1 DEF VenueMoves, OtherFrame, Unreliable, Connect, Disconnect, Drop, Midnight, vars,
                venueVars, history
  <2>. QED  BY <2>1, NothingFiled
<1>2. CASE Receive  BY <1>2, ReceiveFiles
<1>3. CASE BuildPeriodic  BY <1>3, BuildPeriodicFiles
<1>4. CASE SendPeriodic  BY <1>4, SendPeriodicFiles
<1>. QED  BY <1>1, <1>2, <1>3, <1>4 DEF Next

(* So it is always filed in order.                                           *)
LEMMA FiledHolds == Spec => []Filed
BY InvHolds, ToldHolds, FiledInit, NextFiles, PTL DEF Spec

(* What the invariants say of the two folds.                                 *)
LEMMA InvFolds ==
  ASSUME Inv, Told, Filed
  PROVE  FoldsAgree
<1>1. /\ log \in Seq(Entry) /\ midnight \in Nat /\ late \in BOOLEAN /\ Rising(log)
      /\ Len(log) \in Nat
  BY DEF Inv, Types, Told, Story
<1>2. /\ Day \in Seq(Entry) /\ Len(Day) = Len(log) - midnight
      /\ \A i \in 1..Len(Day) : Day[i] = log[midnight + i]
  BY DayIs DEF DayOf, Behind
<1>. DEFINE day == Day
            streaming == StreamingFold(day, Contiguous)
            memory == InMemoryFold(day, Contiguous)
<1>. HIDE DEF day
<1>3. /\ day \in Seq(Entry) /\ Len(day) = Len(log) - midnight
      /\ \A i \in 1..Len(day) : midnight + i \in 1..Len(log) /\ day[i] = log[midnight + i]
  BY <1>1, <1>2 DEF day
<1>4. Ascends(day)
  <2>. SUFFICES ASSUME NEW i \in 1..Len(day), NEW j \in 1..Len(day), i < j
                PROVE  day[i].offset < day[j].offset
    BY DEF Ascends
  <2>1. day[i].offset = midnight + i /\ day[j].offset = midnight + j
    BY <1>3 DEF Filed
  <2>. QED  BY <1>1, <2>1
<1>5. /\ memory.refused = streaming.refused
      /\ ~streaming.refused => memory.rows = streaming.rows
      /\ streaming.refused => \E i, j \in 1..Len(day) :
           i < j /\ day[i].kind = day[j].kind /\ ~NotAbove(day[i], day[j])
  BY <1>3, <1>4, FoldsAreOne
<1>6. ASSUME ~late, NEW i \in 1..Len(day), NEW j \in 1..Len(day), i < j, day[i].kind = day[j].kind
      PROVE  NotAbove(day[i], day[j])
  <2>. DEFINE m == midnight + i
              n == midnight + j
  <2>1. /\ m \in 1..Len(log) /\ n \in 1..Len(log) /\ m < n /\ day[i] = log[m] /\ day[j] = log[n]
    BY <1>1, <1>3, <1>6
  <2>. HIDE DEF m, n
  <2>2. /\ log[m].epoch \in Int /\ log[n].epoch \in Int /\ log[m].sequence \in Int
        /\ log[n].sequence \in Int /\ log[m].kind \in {"snap", "delta"}
    <3>1. log[m] \in Entry /\ log[n] \in Entry
      BY <1>1, <2>1
    <3>. QED  BY SMTT(40), <3>1 DEF Entry
  <2>3. log[m].epoch <= log[n].epoch
    BY <1>6, <2>1 DEF Filed
  <2>4. ASSUME log[m].epoch = log[n].epoch PROVE log[m].sequence <= log[n].sequence
    <3>1. CASE log[m].kind = "snap"
      BY <1>6, <2>1, <2>4, <3>1 DEF Filed
    <3>2. CASE log[m].kind = "delta"
      BY <1>1, <1>6, <2>1, <2>2, <2>4, <3>2 DEF Rising
    <3>. QED  BY <2>2, <3>1, <3>2
  <2>5. Rank(log[m]) = Rank(log[n]) /\ Rank(log[m]) \in Int
    BY <1>6, <2>1 DEF Rank
  <2>. QED  BY <2>1, <2>2, <2>3, <2>4, <2>5 DEF NotAbove
<1>7. streaming.refused => late
  BY <1>1, <1>5, <1>6
<1>. QED  BY <1>5, <1>7 DEF FoldsAgree, day

(* dq.py:294, for every instance: the fold refuses a day only if a periodic  *)
(* snapshot came into the log behind a newer connection's records, and the   *)
(* path that sorts each topic first refuses the same days and gives the same *)
(* rows for the others.                                                      *)
THEOREM EitherFoldWillDo == Spec => []FoldsAgree
BY InvHolds, ToldHolds, FiledHolds, InvFolds, PTL
=============================================================================
