------------------------ MODULE RestDepthSyncProofs ------------------------
(***************************************************************************)
(* The binance ingesters for any levels, queue and buffer sizes, and any     *)
(* number of updates, faults and snapshots: the local book is the venue's at *)
(* its sequence, so is every snapshot the ingester publishes, and what was   *)
(* sent of a connection rebuilds the book unless its failure is known.       *)
(*                                                                           *)
(* The book alone is not inductive.  An event is applied when it continues   *)
(* last_seq, so the applier must hold last_seq at the book's sequence in     *)
(* every state it may go on from (Control); what waits in the socket, the    *)
(* queue and the buffers must be the venue's own events, and a snapshot at   *)
(* hand no newer than the venue (Types).                                     *)
(*                                                                           *)
(* That nothing is missing in what was sent (NoSilentGap) needs to know how  *)
(* the next delta will go on: the driver is behind its snapshot's first      *)
(* event once it has sent a delta (Moving), has sent none before (Quiet),    *)
(* and a message of this connection reports its failure to it (Messages).    *)
(***************************************************************************)
EXTENDS RestDepthSync, TLAPS, WellFoundedInduction, SequenceTheorems

\* The events the venue may have sent so far.
Known == {ev \in Events : ev.U <= ev.u /\ ev.u <= Len(touch)}

\* What a REST answer may be.
Answers == {NoSnapshot, FetchFailed} \cup [id : 0..Len(touch), crossed : BOOLEAN]

Levels == [Prices -> 0..MaxId]

\* Snapshot messages of books the venue had.
VenueSnapshots ==
  {m \in [epoch : Nat, by : Nat, seq : 0..Len(touch), lvl : Levels] : m.lvl = VenueBook(m.seq)}

Types ==
  /\ market \in Markets /\ touch \in Seq(Prices) /\ Len(touch) <= MaxId
  /\ socket \in Seq(Known) /\ queue \in Seq(Known) /\ buffered \in Seq(Known)
  /\ Len(queue) <= QUEUE_MAXSIZE /\ Len(buffered) <= MAX_BUFFER_DELTAS
  /\ conn \in {"down", "connecting", "up"} /\ ended \in BOOLEAN /\ epoch \in Nat
  /\ state \in {"BOOTSTRAP", "BUFFERING", "LIVE", "STALE"}
  /\ lastSeq \in -1..Len(touch) /\ book \in [seq : -1..Len(touch), lvl : Levels]
  /\ snapshot \in Answers /\ snapLastId \in -1..Len(touch) /\ fetch \in 0..epoch
  /\ applier \in [pc : {"idle", "snap", "delta", "dead"}, cur : Known \cup {NoEvent},
                  todo : Seq(Known)]

Published ==
  /\ periodic \in VenueSnapshots \cup {NoMsg}
  /\ pipe = [t \in Topics |-> pipe[t]] /\ log = [t \in Topics |-> log[t]]
  /\ pipe["snapshots"] \in Seq(VenueSnapshots) /\ log["snapshots"] \in Seq(VenueSnapshots)

Control ==
  /\ conn = "connecting" => applier.pc = "idle" /\ state = "BOOTSTRAP"
  /\ applier.pc = "dead" => conn = "down" \/ ended
  /\ applier.pc \in {"snap", "delta"} => state = "LIVE" /\ applier.cur \in Known
  /\ applier.pc = "idle" /\ state # "LIVE" => applier.todo = <<>>
  /\ applier.pc = "snap" \/ (applier.pc = "idle" /\ state = "LIVE") =>
       lastSeq = book.seq /\ book.seq >= 0
  /\ applier.pc = "delta" => book.seq = applier.cur.u

Inv == Types /\ Published /\ Control /\ BookIsTheVenues

----------------------------------------------------------------------------
(* The venue's book *)

LEMMA BoundsAreNaturals ==
  /\ MaxId \in Nat /\ MaxFaults \in Nat /\ MaxPeriodic \in Nat /\ MaxLag \in Nat
  /\ QUEUE_MAXSIZE \in Nat \ {0} /\ MAX_BUFFER_DELTAS \in Nat \ {0} /\ MaxEvent \in Nat \ {0}
BY SpotAssumption

(* Latest finds the last of finitely many updates.                           *)
LEMMA LatestIsLast ==
  ASSUME NEW n \in Nat, NEW S \in SUBSET (0..n), S # {}
  PROVE  Latest(S) \in S /\ \A j \in S : j <= Latest(S)
<1>. DEFINE T == {n - i : i \in S}
<1>1. T \subseteq Nat /\ T # {}
  OBVIOUS
<1>2. PICK k \in T : \A j \in T : <<j, k>> \notin OpToRel(<, Nat)
  BY <1>1, NatLessThanWellFounded, WFMin
<1>3. PICK m \in S : k = n - m
  BY <1>2
<1>4. ASSUME NEW j \in S PROVE j <= m
  <2>1. n - j \in T /\ n - j \in Nat /\ k \in Nat
    BY <1>1
  <2>2. ~(n - j < k)
    BY <1>2, <2>1 DEF OpToRel
  <2>. QED  BY <1>3, <2>2
<1>5. \E i \in S : \A j \in S : j <= i
  BY <1>4
<1>. QED  BY <1>5 DEF Latest

LEMMA LatestIs ==
  ASSUME NEW n \in Nat, NEW S \in SUBSET (0..n), NEW m \in S, \A j \in S : j <= m
  PROVE  Latest(S) = m
<1>1. Latest(S) \in S /\ m <= Latest(S)
  BY LatestIsLast
<1>2. \A j \in S : j \in Nat
  OBVIOUS
<1>. DEFINE last == Latest(S)
<1>3. last \in S /\ m <= last
  BY <1>1
<1>. HIDE DEF last
<1>4. last = m
  BY <1>2, <1>3
<1>. QED  BY <1>4 DEF last

LEMMA VenueBookHasLevels ==
  ASSUME touch \in Seq(Prices), Len(touch) <= MaxId, NEW n \in 0..Len(touch)
  PROVE  VenueBook(n) \in Levels
<1>. SUFFICES ASSUME NEW p \in Prices PROVE Latest({0} \cup Writers(p, 1, n)) \in 0..MaxId
  BY DEF VenueBook, Levels
<1>1. {0} \cup Writers(p, 1, n) \in SUBSET (0..n) /\ {0} \cup Writers(p, 1, n) # {}
  BY DEF Writers
<1>2. n \in Nat /\ n <= MaxId
  BY BoundsAreNaturals
<1>3. Latest({0} \cup Writers(p, 1, n)) \in 0..n
  BY <1>1, <1>2, LatestIsLast
<1>. QED  BY <1>2, <1>3, BoundsAreNaturals

(* binance.py, apply_delta: an event that continues or overlaps a book the   *)
(* venue had leads to the book the venue had behind it.                      *)
LEMMA WrittenIsTheVenues ==
  ASSUME touch \in Seq(Prices), NEW n \in 0..Len(touch), NEW ev \in Known,
         ev.U <= n + 1, n <= ev.u
  PROVE  Written(VenueBook(n), ev) = VenueBook(ev.u)
<1>1. ev.U \in Nat /\ ev.u \in Nat /\ 1 <= ev.U /\ ev.U <= ev.u /\ ev.u <= Len(touch)
  BY DEF Known, Events
<1>. SUFFICES ASSUME NEW p \in Prices
     PROVE  (IF Writers(p, ev.U, ev.u) = {} THEN VenueBook(n)[p]
             ELSE Latest(Writers(p, ev.U, ev.u))) = Latest({0} \cup Writers(p, 1, ev.u))
  BY DEF Written, VenueBook
<1>. DEFINE new == Writers(p, ev.U, ev.u)
            old == Writers(p, 1, n)
            all == {0} \cup Writers(p, 1, ev.u)
<1>2. all = {0} \cup old \cup new
  BY <1>1 DEF Writers
<1>3. new \in SUBSET (ev.U..ev.u) /\ old \in SUBSET (1..n)
  BY DEF Writers
<1>. HIDE DEF new, old, all
<1>4. CASE new = {}
  <2>1. all = {0} \cup old
    BY <1>2, <1>4
  <2>. QED  BY <1>4, <2>1 DEF VenueBook, all, old, new
<1>5. CASE new # {}
  <2>0. new \in SUBSET (0..ev.u)
    BY <1>1, <1>3
  <2>1. Latest(new) \in new /\ \A j \in new : j <= Latest(new)
    BY <1>1, <1>5, <2>0, LatestIsLast
  <2>. DEFINE last == Latest(new)
  <2>7. last \in new
    BY <2>1
  <2>. HIDE DEF last
  <2>8. last \in Nat /\ ev.U <= last
    BY <1>1, <1>3, <2>7
  <2>4. Latest(new) \in Nat /\ ev.U <= Latest(new)
    BY <2>8 DEF last
  <2>5. ASSUME NEW j \in old PROVE j \in Nat /\ (j <= Latest(new) \/ j \in new)
    <3>1. j \in 1..n /\ j \in DOMAIN touch /\ touch[j] = p
      BY <2>5 DEF Writers, old
    <3>2. CASE j >= ev.U
      BY <1>1, <3>1, <3>2 DEF Writers, new
    <3>3. CASE ~(j >= ev.U)
      BY <1>1, <2>4, <3>1, <3>3
    <3>. QED  BY <3>1, <3>2, <3>3
  <2>2. \A j \in {0} \cup old : j \in Nat /\ (j <= Latest(new) \/ j \in new)
    BY <2>4, <2>5
  <2>3. all \in SUBSET (0..ev.u) /\ Latest(new) \in all /\ \A j \in all : j <= Latest(new)
    BY <1>1, <1>2, <1>3, <2>1, <2>2
  <2>6. Latest(all) = Latest(new)
    BY <1>1, <2>3, LatestIs
  <2>. QED  BY <1>5, <2>6 DEF all, new
<1>. QED  BY <1>4, <1>5

(* What the venue adds leaves its former books, events and answers as they   *)
(* were.                                                                     *)
LEMMA VenueGrows ==
  ASSUME touch \in Seq(Prices), touch' \in Seq(Prices), Len(touch) <= Len(touch'),
         \A i \in 1..Len(touch) : touch'[i] = touch[i]
  PROVE  /\ \A n \in 0..Len(touch) : VenueBook(n)' = VenueBook(n)
         /\ Known \subseteq Known' /\ Answers \subseteq Answers'
         /\ VenueSnapshots \subseteq VenueSnapshots'
<1>1. ASSUME NEW n \in 0..Len(touch) PROVE VenueBook(n)' = VenueBook(n)
  <2>1. ASSUME NEW p \in Prices PROVE Writers(p, 1, n)' = Writers(p, 1, n)
    BY DEF Writers
  <2>. QED  BY <2>1 DEF VenueBook
<1>2. Len(touch) \in Nat /\ Len(touch') \in Nat
  OBVIOUS
<1>3. Known \subseteq Known'
  BY <1>2 DEF Known, Events
<1>4. Answers \subseteq Answers'
  BY <1>2 DEF Answers
<1>5. VenueSnapshots \subseteq VenueSnapshots'
  BY <1>1, <1>2 DEF VenueSnapshots, Levels
<1>. QED  BY <1>1, <1>3, <1>4, <1>5

LEMMA VenueStays ==
  ASSUME touch' = touch
  PROVE  /\ \A n : VenueBook(n)' = VenueBook(n)
         /\ Known' = Known /\ Answers' = Answers /\ VenueSnapshots' = VenueSnapshots
<1>1. \A n : VenueBook(n)' = VenueBook(n)
  BY DEF VenueBook, Latest, Writers
<1>2. Known' = Known /\ Answers' = Answers
  BY DEF Known, Answers, Events, NoSnapshot, FetchFailed
<1>3. VenueSnapshots' = VenueSnapshots
  BY <1>1 DEF VenueSnapshots, Levels
<1>. QED  BY <1>1, <1>2, <1>3

----------------------------------------------------------------------------
(* The steps that leave the venue alone *)

LEMMA PublishedStays ==
  ASSUME Inv, touch' = touch, UNCHANGED <<periodic, pipe, log>>
  PROVE  Published'
BY VenueStays DEF Inv, Published

LEMMA BookStays ==
  ASSUME Inv, touch' = touch, book' = book \/ book'.seq = -1
  PROVE  BookIsTheVenues'
BY VenueStays DEF Inv, BookIsTheVenues

LEMMA QueuesAreSequences ==
  ASSUME Inv
  PROVE  /\ Len(touch) \in Nat /\ Len(queue) \in Nat /\ Len(buffered) \in Nat
         /\ queue # <<>> => /\ Head(queue) \in Known /\ Tail(queue) \in Seq(Known)
                            /\ Len(Tail(queue)) <= QUEUE_MAXSIZE
         /\ socket # <<>> => Head(socket) \in Known /\ Tail(socket) \in Seq(Known)
         /\ applier.todo # <<>> => Head(applier.todo) \in Known /\ Tail(applier.todo) \in Seq(Known)
<1>1. /\ touch \in Seq(Prices) /\ queue \in Seq(Known) /\ buffered \in Seq(Known)
      /\ socket \in Seq(Known) /\ applier.todo \in Seq(Known)
      /\ Len(queue) <= QUEUE_MAXSIZE /\ QUEUE_MAXSIZE \in Nat
  BY BoundsAreNaturals DEF Inv, Types
<1>2. ASSUME queue # <<>> PROVE Len(Tail(queue)) <= QUEUE_MAXSIZE
  <2>1. Len(Tail(queue)) = Len(queue) - 1 /\ Len(queue) \in Nat
    BY <1>1, <1>2
  <2>. QED  BY <1>1, <2>1
<1>. QED  BY <1>1, <1>2

LEMMA SocketClosedKeepsInv ==
  ASSUME Inv, SocketClosed
  PROVE  Inv'
<1>1. touch' = touch /\ UNCHANGED <<periodic, pipe, log, book>>
  BY DEF SocketClosed, venueVars, ctxVars, producerVars
<1>2. Types'
  BY <1>1, VenueStays DEF SocketClosed, venueVars, ctxVars, fetchVars, Inv, Types
<1>3. Control'
  BY <1>1, VenueStays DEF SocketClosed, ctxVars, Inv, Control
<1>. QED  BY <1>1, <1>2, <1>3, PublishedStays, BookStays DEF Inv

LEMMA ConnectKeepsInv ==
  ASSUME Inv, Connect
  PROVE  Inv'
<1>1. touch' = touch /\ UNCHANGED <<periodic, pipe, log>>
  BY DEF Connect
<1>2. book' = ClearBook /\ ClearBook \in [seq : -1..Len(touch), lvl : Levels] /\ ClearBook.seq = -1
  BY QueuesAreSequences, BoundsAreNaturals
     DEF Connect, ResetContexts, ClearBook, Empty, Levels, Inv, Types
<1>3. /\ market' = market /\ socket' = <<>> /\ queue' = <<>> /\ buffered' = <<>> /\ conn' = "connecting"
      /\ ended' = FALSE /\ epoch' = epoch + 1 /\ state' = "BOOTSTRAP" /\ lastSeq' = -1
      /\ snapshot' = NoSnapshot /\ snapLastId' = NoId /\ fetch' = 0
      /\ applier' = [pc |-> "idle", cur |-> NoEvent, todo |-> <<>>]
  BY DEF Connect, ResetContexts
<1>4. /\ <<>> \in Seq(Known) /\ Len(<<>>) = 0 /\ NoSnapshot \in Answers
      /\ -1 \in -1..Len(touch) /\ epoch + 1 \in Nat /\ 0 \in 0..(epoch + 1)
  BY QueuesAreSequences DEF Answers, Inv, Types
<1>5. applier' \in [pc : {"idle", "snap", "delta", "dead"}, cur : Known \cup {NoEvent},
                    todo : Seq(Known)]
  BY <1>3, <1>4
<1>6. Types'
  <2>1. /\ socket' \in Seq(Known') /\ queue' \in Seq(Known') /\ buffered' \in Seq(Known')
        /\ Len(queue') <= QUEUE_MAXSIZE /\ Len(buffered') <= MAX_BUFFER_DELTAS
    BY <1>1, <1>3, <1>4, VenueStays, BoundsAreNaturals
  <2>2. /\ lastSeq' \in -1..Len(touch') /\ book' \in [seq : -1..Len(touch'), lvl : Levels]
        /\ snapshot' \in Answers' /\ snapLastId' \in -1..Len(touch') /\ fetch' \in 0..epoch'
    BY <1>1, <1>2, <1>3, <1>4, VenueStays DEF NoId
  <2>3. applier' \in [pc : {"idle", "snap", "delta", "dead"}, cur : Known' \cup {NoEvent},
                      todo : Seq(Known')]
    BY <1>1, <1>5, VenueStays
  <2>. QED  BY <1>1, <1>3, <1>4, <2>1, <2>2, <2>3 DEF Inv, Types, Levels
<1>7. Control'
  BY <1>1, <1>3, VenueStays DEF Control
<1>. QED  BY <1>1, <1>2, <1>6, <1>7, PublishedStays, BookStays DEF Inv

LEMMA BootstrapKeepsInv ==
  ASSUME Inv, Bootstrap
  PROVE  Inv'
<1>1. touch' = touch /\ UNCHANGED <<periodic, pipe, log, book>>
  BY DEF Bootstrap, venueVars, producerVars
<1>2. epoch \in 0..epoch
  BY DEF Inv, Types
<1>3. Types'
  BY <1>1, <1>2, VenueStays DEF Bootstrap, venueVars, Inv, Types
<1>4. Control'
  BY <1>1, VenueStays DEF Bootstrap, Inv, Control
<1>. QED  BY <1>1, <1>3, <1>4, PublishedStays, BookStays DEF Inv

\* An applier that has ended, or was cancelled.
LEMMA DeadApplier ==
  ASSUME Inv, touch' = touch, applier' = [applier EXCEPT !.pc = "dead"]
  PROVE  /\ applier' \in [pc : {"idle", "snap", "delta", "dead"}, cur : Known \cup {NoEvent},
                          todo : Seq(Known)]
         /\ applier'.pc = "dead"
BY DEF Inv, Types

LEMMA WindDownKeepsInv ==
  ASSUME Inv, WindDown
  PROVE  Inv'
<1>1. touch' = touch /\ UNCHANGED <<periodic, pipe, log, book>>
  BY DEF WindDown, venueVars, producerVars
<1>2. /\ applier' \in [pc : {"idle", "snap", "delta", "dead"}, cur : Known \cup {NoEvent},
                        todo : Seq(Known)]
      /\ applier'.pc = "dead"
  BY <1>1, DeadApplier DEF WindDown
<1>3. Types'
  BY <1>1, <1>2, VenueStays DEF WindDown, venueVars, fetchVars, Inv, Types
<1>4. Control'
  BY <1>1, <1>2, VenueStays DEF WindDown, Control
<1>. QED  BY <1>1, <1>3, <1>4, PublishedStays, BookStays DEF Inv

LEMMA ReadKeepsInv ==
  ASSUME Inv, Read
  PROVE  Inv'
<1>1. touch' = touch /\ UNCHANGED <<periodic, pipe, log, book>>
  BY DEF Read, ctxVars, producerVars
<1>2. socket' \in Seq(Known) /\ ended' \in BOOLEAN /\ (ended' = ended \/ ended')
  BY QueuesAreSequences DEF Read, Inv, Types
<1>3. queue' \in Seq(Known) /\ Len(queue') <= QUEUE_MAXSIZE
  <2>1. CASE Len(queue) < QUEUE_MAXSIZE
    <3>1. queue' = Append(queue, Head(socket)) /\ Head(socket) \in Known /\ queue \in Seq(Known)
      BY <2>1, QueuesAreSequences DEF Read, Inv, Types
    <3>2. queue' \in Seq(Known) /\ Len(queue') = Len(queue) + 1
      BY <3>1
    <3>. QED  BY <2>1, <3>2, QueuesAreSequences, BoundsAreNaturals
  <2>2. CASE ~(Len(queue) < QUEUE_MAXSIZE)
    BY <2>2 DEF Read, Inv, Types
  <2>. QED  BY <2>1, <2>2
<1>4. Types'
  BY <1>1, <1>2, <1>3, VenueStays DEF Read, ctxVars, fetchVars, Inv, Types
<1>5. Control'
  BY <1>1, <1>2, VenueStays DEF Read, ctxVars, Inv, Control
<1>. QED  BY <1>1, <1>4, <1>5, PublishedStays, BookStays DEF Inv

LEMMA FetchKeepsInv ==
  ASSUME Inv, FetchLands
  PROVE  Inv'
<1>1. touch' = touch /\ UNCHANGED <<periodic, pipe, log, book>>
  BY DEF FetchLands, venueVars, ctxVars, producerVars
<1>2. snapshot' \in Answers
  <2>1. \A n \in 0..Len(touch), b \in BOOLEAN : [id |-> n, crossed |-> b] \in Answers
    BY DEF Answers
  <2>2. FetchFailed \in Answers
    BY DEF Answers
  <2>3. snapshot \in Answers
    BY DEF Inv, Types
  <2>. QED  BY <2>1, <2>2, <2>3 DEF FetchLands, Store
<1>3. fetch' \in 0..epoch
  BY DEF FetchLands, Inv, Types
<1>4. Types'
  BY <1>1, <1>2, <1>3, VenueStays DEF FetchLands, venueVars, ctxVars, Inv, Types
<1>5. Control'
  BY <1>1, VenueStays DEF FetchLands, ctxVars, Inv, Control
<1>. QED  BY <1>1, <1>4, <1>5, PublishedStays, BookStays DEF Inv

----------------------------------------------------------------------------
(* The applier *)

AppliersOf(events) ==
  [pc : {"idle", "snap", "delta", "dead"}, cur : events \cup {NoEvent}, todo : Seq(events)]

(* What an applied event may change, and how it leaves it.                   *)
Applied ==
  /\ state' \in {"LIVE", "STALE"} /\ ended' \in BOOLEAN
  /\ lastSeq' = lastSeq /\ snapshot' = snapshot /\ snapLastId' = snapLastId
  /\ book' \in [seq : -1..Len(touch), lvl : Levels]
  /\ book'.seq >= 0 => book'.lvl = VenueBook(book'.seq)
  /\ applier' \in AppliersOf(Known)
  /\ \/ applier'.pc = "dead" /\ ended'
     \/ applier'.pc = "idle" /\ state' = "LIVE" /\ lastSeq = book'.seq /\ book'.seq >= 0
     \/ applier'.pc = "delta" /\ state' = "LIVE" /\ applier'.cur \in Known
        /\ book'.seq = applier'.cur.u

LEMMA ResyncIsApplied ==
  ASSUME Inv, NEW b \in {book, ClearBook}, Resync(b)
  PROVE  Applied
<1>1. ClearBook \in [seq : -1..Len(touch), lvl : Levels] /\ ClearBook.seq = -1
  BY QueuesAreSequences, BoundsAreNaturals DEF ClearBook, Empty, Levels
<1>2. /\ b \in [seq : -1..Len(touch), lvl : Levels]
      /\ b.seq >= 0 => b.lvl = VenueBook(b.seq)
  BY <1>1 DEF Inv, Types, BookIsTheVenues
<1>3. applier' \in AppliersOf(Known) /\ applier'.pc = "dead"
  BY DEF Resync, AppliersOf, Inv, Types
<1>. QED  BY <1>2, <1>3 DEF Resync, Applied

LEMMA ApplySyncedIsApplied ==
  ASSUME Inv, NEW ev \in Known, NEW rest \in Seq(Known), applier.pc = "idle", state = "LIVE",
         ApplySynced(ev, rest)
  PROVE  Applied
<1>1. /\ lastSeq = book.seq /\ book.seq \in 0..Len(touch) /\ book.lvl = VenueBook(book.seq)
      /\ book \in [seq : -1..Len(touch), lvl : Levels] /\ touch \in Seq(Prices)
      /\ Len(touch) <= MaxId /\ ended \in BOOLEAN /\ Len(touch) \in Nat
  BY QueuesAreSequences DEF Inv, Types, Control, BookIsTheVenues
<1>2. CASE Stale(ev) /\ applier' = [applier EXCEPT !.todo = rest]
           /\ UNCHANGED <<state, lastSeq, book, ended, snapshot, snapLastId>>
  <2>1. applier' \in AppliersOf(Known) /\ applier'.pc = "idle"
    BY <1>2 DEF Inv, Types, AppliersOf
  <2>. QED  BY <1>1, <1>2, <2>1 DEF Applied
<1>3. CASE Resync(book) \/ Resync(ClearBook)
  BY <1>3, ResyncIsApplied
<1>4. CASE /\ ~Stale(ev) /\ ~Gap(ev)
           /\ book' = [seq |-> ev.u, lvl |-> Written(book.lvl, ev)]
           /\ applier' = [pc |-> "delta", cur |-> ev, todo |-> rest]
           /\ UNCHANGED <<state, lastSeq, ended, snapshot, snapLastId>>
  <2>1. ev.U \in Nat /\ ev.u \in 0..Len(touch) /\ ev.U <= ev.u
    BY <1>1 DEF Known, Events
  <2>2. ev.U <= lastSeq + 1 /\ lastSeq <= ev.u
    BY <1>1, <1>4, <2>1 DEF Stale, Gap, Straddles
  <2>3. Written(book.lvl, ev) = VenueBook(ev.u)
    BY <1>1, <2>2, WrittenIsTheVenues
  <2>4. VenueBook(ev.u) \in Levels
    BY <1>1, <2>1, VenueBookHasLevels
  <2>5. /\ book' \in [seq : -1..Len(touch), lvl : Levels]
        /\ book'.seq = ev.u /\ book'.lvl = VenueBook(ev.u)
    BY <1>1, <1>4, <2>1, <2>3, <2>4
  <2>6. applier' \in AppliersOf(Known) /\ applier'.pc = "delta" /\ applier'.cur = ev
    BY <1>4 DEF AppliersOf
  <2>. QED  BY <1>1, <1>4, <2>5, <2>6 DEF Applied
<1>. QED  BY <1>2, <1>3, <1>4 DEF ApplySynced

LEMMA AppliedKeepsInv ==
  ASSUME Inv, Applied, conn = "up",
         queue' \in Seq(Known), Len(queue') <= QUEUE_MAXSIZE,
         buffered' \in Seq(Known), Len(buffered') <= MAX_BUFFER_DELTAS,
         UNCHANGED <<venueVars, conn, epoch, fetch, periodic, producerVars>>
  PROVE  Inv'
<1>1. touch' = touch /\ UNCHANGED <<periodic, pipe, log>>
  BY DEF venueVars, producerVars
<1>2. Types'
  BY <1>1, VenueStays DEF Applied, AppliersOf, venueVars, Inv, Types, Levels
<1>3. Control'
  BY <1>1, VenueStays DEF Applied, Control
<1>4. BookIsTheVenues'
  BY <1>1, VenueStays DEF Applied, BookIsTheVenues
<1>. QED  BY <1>1, <1>2, <1>3, <1>4, PublishedStays DEF Inv

LEMMA ApplyLiveKeepsInv ==
  ASSUME Inv, ApplyLive
  PROVE  Inv'
<1>1. Head(queue) \in Known /\ queue' \in Seq(Known) /\ Len(queue') <= QUEUE_MAXSIZE
  BY QueuesAreSequences DEF ApplyLive
<1>2. Applied
  <2>1. /\ ApplySynced(Head(queue), <<>>) /\ <<>> \in Seq(Known)
        /\ applier.pc = "idle" /\ state = "LIVE"
    BY DEF ApplyLive, Running
  <2>. QED  BY <1>1, <2>1, ApplySyncedIsApplied
<1>3. buffered' \in Seq(Known) /\ Len(buffered') <= MAX_BUFFER_DELTAS
  BY DEF ApplyLive, Inv, Types
<1>. QED  BY <1>1, <1>2, <1>3, AppliedKeepsInv DEF ApplyLive, Running

LEMMA DrainKeepsInv ==
  ASSUME Inv, DrainBuffered
  PROVE  Inv'
<1>1. Head(applier.todo) \in Known /\ Tail(applier.todo) \in Seq(Known) /\ state = "LIVE"
  BY QueuesAreSequences DEF DrainBuffered, Running, Inv, Control
<1>2. Applied
  BY <1>1, ApplySyncedIsApplied DEF DrainBuffered, Running
<1>3. /\ queue' \in Seq(Known) /\ Len(queue') <= QUEUE_MAXSIZE
      /\ buffered' \in Seq(Known) /\ Len(buffered') <= MAX_BUFFER_DELTAS
  BY DEF DrainBuffered, Inv, Types
<1>. QED  BY <1>2, <1>3, AppliedKeepsInv DEF DrainBuffered, Running

LEMMA BufferAppendKeepsInv ==
  ASSUME Inv, BufferAppend
  PROVE  Inv'
<1>1. /\ Head(queue) \in Known /\ queue' \in Seq(Known) /\ Len(queue') <= QUEUE_MAXSIZE
      /\ conn = "up" /\ applier.pc = "idle" /\ state = "BUFFERING" /\ touch' = touch
      /\ UNCHANGED <<venueVars, conn, epoch, fetch, periodic, producerVars>>
  BY QueuesAreSequences DEF BufferAppend, Buffering, Running, venueVars
<1>2. CASE Resync(book) /\ UNCHANGED buffered
  <2>1. Applied
    BY <1>2, ResyncIsApplied
  <2>2. buffered' \in Seq(Known) /\ Len(buffered') <= MAX_BUFFER_DELTAS
    BY <1>2 DEF Inv, Types
  <2>. QED  BY <1>1, <2>1, <2>2, AppliedKeepsInv
<1>3. CASE /\ Len(buffered) < MAX_BUFFER_DELTAS
           /\ buffered' = Append(buffered, Head(queue))
           /\ UNCHANGED <<state, lastSeq, book, applier, ended, snapshot, snapLastId, synced>>
  <2>1. buffered' \in Seq(Known) /\ Len(buffered') = Len(buffered) + 1
    BY <1>1, <1>3 DEF Inv, Types
  <2>2. Len(buffered') <= MAX_BUFFER_DELTAS
    BY <1>3, <2>1, QueuesAreSequences, BoundsAreNaturals
  <2>3. Types'
    BY <1>1, <1>3, <2>1, <2>2, VenueStays DEF venueVars, Inv, Types
  <2>4. Control'
    BY <1>1, <1>3, VenueStays DEF Inv, Control
  <2>5. UNCHANGED <<periodic, pipe, log>>
    BY <1>1 DEF producerVars
  <2>. QED  BY <1>1, <1>3, <2>3, <2>4, <2>5, PublishedStays, BookStays DEF Inv
<1>. QED  BY <1>2, <1>3 DEF BufferAppend

LEMMA ApplySnapshotKeepsInv ==
  ASSUME Inv, ApplySnapshot
  PROVE  Inv'
<1>1. /\ Head(queue) \in Known /\ queue' \in Seq(Known) /\ Len(queue') <= QUEUE_MAXSIZE
      /\ conn = "up" /\ applier.pc = "idle" /\ state = "BUFFERING" /\ touch' = touch
      /\ UNCHANGED <<venueVars, conn, epoch, fetch, periodic, producerVars>>
      /\ snapshot # NoSnapshot /\ UNCHANGED buffered
  BY QueuesAreSequences DEF ApplySnapshot, Buffering, Running, venueVars
<1>2. buffered' \in Seq(Known) /\ Len(buffered') <= MAX_BUFFER_DELTAS
  BY <1>1 DEF Inv, Types
<1>3. CASE Resync(book) \/ Resync(ClearBook)
  <2>1. Applied
    BY <1>3, ResyncIsApplied
  <2>. QED  BY <1>1, <1>2, <2>1, AppliedKeepsInv
<1>4. CASE /\ snapshot # FetchFailed
           /\ book' = [seq |-> snapshot.id, lvl |-> VenueBook(snapshot.id)]
           /\ state' = "LIVE" /\ lastSeq' = snapshot.id
           /\ snapLastId' = IF Spot THEN snapshot.id ELSE NoId
           /\ applier' = [pc |-> "snap", cur |-> Head(queue), todo |-> <<>>]
           /\ UNCHANGED <<ended, snapshot, synced>>
  <2>. DEFINE n == snapshot.id
  <2>1. n \in 0..Len(touch)
    BY <1>1, <1>4 DEF Inv, Types, Answers
  <2>2. VenueBook(n) \in Levels
    BY <2>1, VenueBookHasLevels DEF Inv, Types
  <2>. HIDE DEF n
  <2>3. /\ book' = [seq |-> n, lvl |-> VenueBook(n)] /\ lastSeq' = n
        /\ snapLastId' \in {n, -1}
    BY <1>4 DEF n, NoId
  <2>4. /\ book' \in [seq : -1..Len(touch), lvl : Levels]
        /\ book'.seq = n /\ book'.lvl = VenueBook(n) /\ n >= 0 /\ Len(touch) \in Nat
        /\ lastSeq' \in -1..Len(touch) /\ snapLastId' \in -1..Len(touch)
    BY <2>1, <2>2, <2>3, QueuesAreSequences
  <2>5. /\ applier' \in AppliersOf(Known) /\ applier'.pc = "snap"
        /\ applier'.cur \in Known
    BY <1>1, <1>4 DEF AppliersOf
  <2>6. Types'
    BY <1>1, <1>2, <1>4, <2>4, <2>5, VenueStays DEF venueVars, Inv, Types, AppliersOf, Levels
  <2>7. Control'
    BY <1>1, <1>4, <2>3, <2>4, <2>5, VenueStays DEF Control
  <2>8. BookIsTheVenues'
    BY <1>1, <2>4, VenueStays DEF BookIsTheVenues
  <2>9. UNCHANGED <<periodic, pipe, log>>
    BY <1>1 DEF producerVars
  <2>. QED  BY <1>1, <2>6, <2>7, <2>8, <2>9, PublishedStays DEF Inv
<1>. QED  BY <1>3, <1>4 DEF ApplySnapshot

----------------------------------------------------------------------------
(* What is published *)

\* A copy of the book is a book the venue had.
LEMMA CopyIsTheVenues ==
  ASSUME Inv, book.seq >= 0, NEW by \in Nat
  PROVE  [epoch |-> epoch, by |-> by, seq |-> book.seq, lvl |-> book.lvl] \in VenueSnapshots
<1>1. /\ epoch \in Nat /\ book.seq \in 0..Len(touch) /\ book.lvl \in Levels
      /\ book.lvl = VenueBook(book.seq)
  BY DEF Inv, Types, BookIsTheVenues
<1>. QED  BY <1>1 DEF VenueSnapshots

LEMMA SnapshotSentKeepsInv ==
  ASSUME Inv, SnapshotSent
  PROVE  Inv'
<1>1. /\ touch' = touch /\ conn = "up" /\ applier.pc = "snap" /\ state = "LIVE"
      /\ applier.cur \in Known /\ lastSeq = book.seq /\ book.seq >= 0
      /\ UNCHANGED <<book, periodic, log, conn, state, lastSeq, ended>>
  BY DEF SnapshotSent, venueVars, Inv, Control
<1>2. SnapshotMsg(epoch, book) \in VenueSnapshots
  BY <1>1, CopyIsTheVenues DEF SnapshotMsg, Inv, Types
<1>3. Published'
  <2>1. pipe' = [t \in Topics |-> IF t = "snapshots"
                                  THEN Append(pipe["snapshots"], SnapshotMsg(epoch, book))
                                  ELSE pipe[t]]
    BY DEF SnapshotSent, Inv, Published
  <2>2. Append(pipe["snapshots"], SnapshotMsg(epoch, book)) \in Seq(VenueSnapshots)
    BY <1>2 DEF Inv, Published
  <2>. HIDE DEF SnapshotMsg
  <2>3. /\ pipe' = [t \in Topics |-> pipe'[t]] /\ pipe'["snapshots"] \in Seq(VenueSnapshots)
    BY <2>1, <2>2 DEF Topics
  <2>. QED  BY <1>1, <2>3, VenueStays DEF Inv, Published
<1>4. applier' \in AppliersOf(Known) /\ applier'.pc = "idle"
  <2>1. Append(buffered, applier.cur) \in Seq(Known)
    BY <1>1 DEF Inv, Types
  <2>. QED  BY <2>1 DEF SnapshotSent, AppliersOf
<1>5. /\ buffered' = <<>> /\ <<>> \in Seq(Known) /\ Len(<<>>) <= MAX_BUFFER_DELTAS
      /\ snapshot' = NoSnapshot /\ NoSnapshot \in Answers
  BY BoundsAreNaturals DEF SnapshotSent, Answers
<1>6. Types'
  BY <1>1, <1>4, <1>5, VenueStays DEF SnapshotSent, venueVars, Inv, Types, AppliersOf
<1>7. Control'
  BY <1>1, <1>4 DEF Control
<1>. QED  BY <1>1, <1>3, <1>6, <1>7, BookStays DEF Inv

LEMMA DeltaSentKeepsInv ==
  ASSUME Inv, DeltaSent
  PROVE  Inv'
<1>1. /\ touch' = touch /\ conn = "up" /\ applier.pc = "delta" /\ state = "LIVE"
      /\ applier.cur \in Known /\ book.seq = applier.cur.u /\ lastSeq' = applier.cur.u
      /\ UNCHANGED <<book, periodic, log, conn, state, ended>>
  BY DEF DeltaSent, venueVars, fetchVars, Inv, Control
<1>2. Published'
  <2>. DEFINE deltas == Append(pipe["deltas"], DeltaMsg(applier.cur))
  <2>2. pipe' = [t \in Topics |-> IF t = "deltas" THEN deltas ELSE pipe[t]]
    BY DEF DeltaSent, Inv, Published
  <2>. HIDE DEF deltas
  <2>1. pipe' = [t \in Topics |-> pipe'[t]] /\ pipe'["snapshots"] = pipe["snapshots"]
    BY <2>2 DEF Topics
  <2>. QED  BY <1>1, <2>1, VenueStays DEF Inv, Published
<1>3. applier' \in AppliersOf(Known) /\ applier'.pc = "idle"
  BY DEF DeltaSent, AppliersOf, Inv, Types
<1>4. lastSeq' \in -1..Len(touch) /\ lastSeq' >= 0
  <2>1. applier.cur.u \in Nat /\ applier.cur.u <= Len(touch)
    BY <1>1, BoundsAreNaturals DEF Known, Events
  <2>. QED  BY <1>1, <2>1, QueuesAreSequences
<1>5. Types'
  BY <1>1, <1>3, <1>4, VenueStays DEF DeltaSent, venueVars, fetchVars, Inv, Types, AppliersOf
<1>6. Control'
  BY <1>1, <1>3, <1>4 DEF Control
<1>. QED  BY <1>1, <1>2, <1>5, <1>6, BookStays DEF Inv

LEMMA SnapshotTickKeepsInv ==
  ASSUME Inv, SnapshotTick
  PROVE  Inv'
<1>1. touch' = touch /\ book.seq >= 0 /\ UNCHANGED <<book, pipe, log, conn, state, ended, applier, lastSeq>>
  BY DEF SnapshotTick, venueVars, ctxVars, producerVars
<1>2. periodic' \in VenueSnapshots
  <2>1. periodic' = [epoch |-> epoch, by |-> 0, seq |-> book.seq, lvl |-> book.lvl]
    BY DEF SnapshotTick, SnapshotMsg
  <2>. QED  BY <1>1, <2>1, CopyIsTheVenues
<1>3. Published'
  BY <1>1, <1>2, VenueStays DEF Inv, Published
<1>4. Types'
  BY <1>1, VenueStays DEF SnapshotTick, venueVars, ctxVars, fetchVars, Inv, Types
<1>5. Control'
  BY <1>1, VenueStays DEF Inv, Control
<1>. QED  BY <1>1, <1>3, <1>4, <1>5, BookStays DEF Inv

LEMMA PeriodicSentKeepsInv ==
  ASSUME Inv, PeriodicSent
  PROVE  Inv'
<1>1. touch' = touch /\ UNCHANGED <<book, log, conn, state, ended, applier, lastSeq>>
  BY DEF PeriodicSent, venueVars, ctxVars
<1>. DEFINE msg == [periodic EXCEPT !.by = epoch]
<1>2. msg \in VenueSnapshots
  BY DEF PeriodicSent, VenueSnapshots, Inv, Published, Types
<1>3. Published'
  <2>1. pipe' = [t \in Topics |-> IF t = "snapshots" THEN Append(pipe["snapshots"], msg) ELSE pipe[t]]
    BY DEF PeriodicSent, Inv, Published
  <2>. HIDE DEF msg
  <2>2. Append(pipe["snapshots"], msg) \in Seq(VenueSnapshots)
    BY <1>2 DEF Inv, Published
  <2>3. /\ pipe' = [t \in Topics |-> pipe'[t]] /\ pipe'["snapshots"] \in Seq(VenueSnapshots)
    BY <2>1, <2>2 DEF Topics
  <2>4. periodic' = NoMsg
    BY DEF PeriodicSent
  <2>. QED  BY <1>1, <2>3, <2>4, VenueStays DEF Inv, Published
<1>4. Types'
  BY <1>1, VenueStays DEF PeriodicSent, venueVars, ctxVars, fetchVars, Inv, Types
<1>5. Control'
  BY <1>1, VenueStays DEF Inv, Control
<1>. QED  BY <1>1, <1>3, <1>4, <1>5, BookStays DEF Inv

(* The producer delivers the head of a topic's queue, or drops it.           *)
LEMMA SenderKeepsInv ==
  ASSUME Inv, NEW t \in Topics, Deliver(t) \/ ProduceFails(t)
  PROVE  Inv'
<1>1. /\ touch' = touch /\ pipe[t] # <<>>
      /\ UNCHANGED <<book, periodic, conn, state, ended, applier, lastSeq>>
      /\ UNCHANGED <<venueVars, queue, epoch, ctxVars, fetchVars>>
  BY DEF Deliver, ProduceFails, venueVars, ctxVars
<1>2. Published'
  <2>1. /\ pipe = [u \in Topics |-> pipe[u]] /\ log = [u \in Topics |-> log[u]]
        /\ pipe["snapshots"] \in Seq(VenueSnapshots) /\ log["snapshots"] \in Seq(VenueSnapshots)
    BY DEF Inv, Published
  <2>. DEFINE told == Append(log[t], Head(pipe[t]))
              left == Tail(pipe[t])
  <2>2. /\ pipe' = [u \in Topics |-> IF u = t THEN left ELSE pipe[u]]
        /\ \/ log' = log
           \/ log' = [u \in Topics |-> IF u = t THEN told ELSE log[u]]
    BY <2>1 DEF Deliver, ProduceFails
  <2>3. t = "snapshots" => left \in Seq(VenueSnapshots) /\ told \in Seq(VenueSnapshots)
    BY <1>1, <2>1
  <2>. HIDE DEF told, left
  <2>4. /\ pipe' = [u \in Topics |-> pipe'[u]] /\ log' = [u \in Topics |-> log'[u]]
        /\ pipe'["snapshots"] \in Seq(VenueSnapshots) /\ log'["snapshots"] \in Seq(VenueSnapshots)
    BY <2>1, <2>2, <2>3 DEF Topics
  <2>. QED  BY <1>1, <2>4, VenueStays DEF Inv, Published
<1>3. Types'
  BY <1>1, VenueStays DEF venueVars, ctxVars, fetchVars, Inv, Types
<1>4. Control'
  BY <1>1, VenueStays DEF Inv, Control
<1>. QED  BY <1>1, <1>2, <1>3, <1>4, BookStays DEF Inv

----------------------------------------------------------------------------
(* The venue *)

LEMMA VenueEventKeepsInv ==
  ASSUME Inv, VenueEvent
  PROVE  Inv'
<1>1. PICK ps \in UNION {[1..k -> Prices] : k \in 1..MaxEvent} :
        LET n == Len(touch) + Len(ps)
            ev == [U |-> Len(touch) + 1, u |-> n, crosses |-> FALSE]
        IN  /\ n <= MaxId /\ touch' = touch \o ps
            /\ \/ socket' = socket
               \/ socket' = Append(socket, ev)
               \/ socket' = Append(socket, [ev EXCEPT !.crosses = TRUE])
  BY DEF VenueEvent
<1>. DEFINE n == Len(touch) + Len(ps)
            ev == [U |-> Len(touch) + 1, u |-> n, crosses |-> FALSE]
<1>0. PICK k \in 1..MaxEvent : ps \in [1..k -> Prices]
  OBVIOUS
<1>2. /\ touch \in Seq(Prices) /\ ps \in Seq(Prices) /\ Len(ps) = k /\ k \in Nat \ {0}
      /\ Len(touch) \in Nat /\ n \in Nat /\ n <= MaxId /\ touch' = touch \o ps
  <2>1. ps \in Seq(Prices) /\ Len(ps) = k /\ k \in Nat \ {0}
    BY <1>0, BoundsAreNaturals
  <2>2. touch \in Seq(Prices) /\ Len(touch) \in Nat
    BY QueuesAreSequences DEF Inv, Types
  <2>3. n <= MaxId /\ touch' = touch \o ps
    BY <1>1
  <2>. QED  BY <2>1, <2>2, <2>3
<1>3. /\ touch' \in Seq(Prices) /\ Len(touch') = n /\ Len(touch) <= n
      /\ \A i \in 1..Len(touch) : touch'[i] = touch[i]
  <2>1. n = Len(touch) + Len(ps) /\ Len(touch) <= n /\ Len(ps) \in Nat
    BY <1>2
  <2>. HIDE DEF n
  <2>4. touch \o ps \in Seq(Prices) /\ Len(touch \o ps) = Len(touch) + Len(ps)
    BY <1>2, ConcatProperties, Zenon
  <2>2. touch \o ps \in Seq(Prices) /\ Len(touch \o ps) = n
    BY <2>1, <2>4
  <2>3. ASSUME NEW i \in 1..Len(touch) PROVE (touch \o ps)[i] = touch[i]
    BY <1>2, <2>3
  <2>. QED  BY <1>2, <2>1, <2>2, <2>3
<1>4. /\ \A m \in 0..Len(touch) : VenueBook(m)' = VenueBook(m)
      /\ Known \subseteq Known' /\ Answers \subseteq Answers'
      /\ VenueSnapshots \subseteq VenueSnapshots'
  BY <1>2, <1>3, VenueGrows
<1>5. Seq(Known) \subseteq Seq(Known') /\ Seq(VenueSnapshots) \subseteq Seq(VenueSnapshots')
  BY <1>4
<1>6. ev \in Known' /\ [ev EXCEPT !.crosses = TRUE] \in Known'
  <2>1. Len(touch) + 1 \in 1..MaxId /\ n \in 1..MaxId /\ Len(touch) + 1 <= n
    BY <1>2, BoundsAreNaturals
  <2>2. n <= Len(touch')
    BY <1>2, <1>3
  <2>. HIDE DEF n
  <2>3. ev \in Known'
    BY <2>1, <2>2 DEF Known, Events
  <2>. HIDE DEF ev
  <2>4. [ev EXCEPT !.crosses = TRUE] \in Known'
    BY <2>3 DEF Known, Events
  <2>. QED  BY <2>3, <2>4
<1>7. /\ socket' \in Seq(Known')
      /\ UNCHANGED <<market, queue, conn, ended, epoch, ctxVars, fetchVars, applier, periodic,
                     producerVars>>
  <2>1. \/ socket' = socket \/ socket' = Append(socket, ev)
        \/ socket' = Append(socket, [ev EXCEPT !.crosses = TRUE])
    BY <1>1
  <2>4. socket \in Seq(Known)
    BY DEF Inv, Types
  <2>2. socket \in Seq(Known')
    BY <1>4, <2>4
  <2>5. ASSUME NEW S, NEW e \in S, NEW q \in Seq(S) PROVE Append(q, e) \in Seq(S)
    OBVIOUS
  <2>. HIDE DEF ev, n
  <2>3. socket' \in Seq(Known')
    BY <1>6, <2>1, <2>2, <2>5, Zenon
  <2>. QED  BY <2>3 DEF VenueEvent
<1>. HIDE DEF ev, n
<1>8. Types'
  <2>1. applier' \in AppliersOf(Known')
    BY <1>4, <1>5, <1>7 DEF Inv, Types, AppliersOf
  <2>2. queue' \in Seq(Known') /\ buffered' \in Seq(Known') /\ snapshot' \in Answers'
    BY <1>4, <1>5, <1>7 DEF ctxVars, fetchVars, Inv, Types
  <2>4. /\ lastSeq' \in -1..Len(touch) /\ snapLastId' \in -1..Len(touch)
        /\ book' \in [seq : -1..Len(touch), lvl : Levels]
    BY <1>7 DEF ctxVars, fetchVars, Inv, Types
  <2>5. -1..Len(touch) \subseteq -1..Len(touch')
    BY <1>2, <1>3
  <2>3. /\ lastSeq' \in -1..Len(touch') /\ snapLastId' \in -1..Len(touch')
        /\ book' \in [seq : -1..Len(touch'), lvl : Levels]
    BY <2>4, <2>5
  <2>. QED  BY <1>2, <1>3, <1>7, <2>1, <2>2, <2>3
            DEF ctxVars, fetchVars, Inv, Types, AppliersOf, Levels
<1>9. Control'
  BY <1>4, <1>7 DEF ctxVars, Inv, Control
<1>10. Published'
  BY <1>4, <1>5, <1>7 DEF producerVars, Inv, Published
<1>11. BookIsTheVenues'
  <2>1. book' = book
    BY <1>7 DEF ctxVars
  <2>2. book.seq >= 0 => book.seq \in 0..Len(touch)
    BY <1>2 DEF Inv, Types
  <2>. QED  BY <1>4, <2>1, <2>2 DEF BookIsTheVenues, Inv
<1>. QED  BY <1>8, <1>9, <1>10, <1>11 DEF Inv

----------------------------------------------------------------------------
LEMMA InitInv == Init => Inv
<1>. SUFFICES ASSUME Init PROVE Inv
  OBVIOUS
<1>1. /\ touch = <<>> /\ <<>> \in Seq(Prices) /\ <<>> \in Seq(Known) /\ Len(<<>>) = 0
      /\ <<>> \in Seq(VenueSnapshots) /\ NoSnapshot \in Answers /\ -1 \in -1..0 /\ 0 \in 0..0
  BY DEF Init, Answers
<1>2. book \in [seq : -1..0, lvl : Levels] /\ book.seq = -1
  BY BoundsAreNaturals DEF Init, ClearBook, Empty, Levels
<1>3. applier \in AppliersOf(Known)
  BY <1>1 DEF Init, AppliersOf
<1>4. Types
  <2>1. /\ Len(touch) = 0 /\ 0 <= MaxId /\ 0 <= QUEUE_MAXSIZE /\ 0 <= MAX_BUFFER_DELTAS
        /\ book \in [seq : -1..Len(touch), lvl : Levels] /\ snapLastId \in -1..Len(touch)
        /\ lastSeq \in -1..Len(touch)
    BY <1>1, <1>2, BoundsAreNaturals DEF Init, NoId
  <2>. QED  BY <1>1, <1>3, <2>1 DEF Init, Types, AppliersOf
<1>5. Published
  BY <1>1 DEF Init, Published, Topics
<1>6. Control
  BY DEF Init, Control
<1>. QED  BY <1>2, <1>4, <1>5, <1>6 DEF Inv, BookIsTheVenues

LEMMA StepKeepsInv ==
  ASSUME Inv, [Next]_vars
  PROVE  Inv'
<1>1. CASE UNCHANGED vars
  <2>1. touch' = touch /\ UNCHANGED <<periodic, pipe, log, book>>
    BY <1>1 DEF vars
  <2>2. Types'
    BY <1>1, <2>1, VenueStays DEF vars, Inv, Types
  <2>3. Control'
    BY <1>1, <2>1, VenueStays DEF vars, Inv, Control
  <2>. QED  BY <2>1, <2>2, <2>3, PublishedStays, BookStays DEF Inv
<1>. QED  BY <1>1, VenueEventKeepsInv, SocketClosedKeepsInv, ConnectKeepsInv, BootstrapKeepsInv,
             WindDownKeepsInv, ReadKeepsInv, FetchKeepsInv, ApplyLiveKeepsInv, DrainKeepsInv,
             BufferAppendKeepsInv, ApplySnapshotKeepsInv, SnapshotSentKeepsInv,
             DeltaSentKeepsInv, SnapshotTickKeepsInv, PeriodicSentKeepsInv, SenderKeepsInv
          DEF Next

LEMMA Invariance == Spec => []Inv
BY InitInv, StepKeepsInv, PTL DEF Spec

(* binance.py steps 1-3 and binance_futures.py's, for every instance: at     *)
(* each await the local book is the venue's as of its sequence, whatever was *)
(* buffered, replayed, lost, late or left over from an earlier connection.   *)
THEOREM LocalBookIsTheVenues == Spec => []BookIsTheVenues
BY Invariance, PTL DEF Inv

(* base_ingester.py, _snapshot_loop: every snapshot sent or about to be is   *)
(* the venue's book at the sequence it names, whichever connection sends it. *)
THEOREM PublishedSnapshotsAreTheVenues == Spec => []SnapshotsAreTheVenues
<1>1. ASSUME Inv PROVE SnapshotsAreTheVenues
  <2>. DEFINE sent == log["snapshots"] \o pipe["snapshots"]
  <2>1. sent \in Seq(VenueSnapshots)
    BY <1>1 DEF Inv, Published
  <2>. HIDE DEF sent
  <2>2. ASSUME NEW i \in 1..Len(sent) PROVE sent[i].lvl = VenueBook(sent[i].seq)
    <3>1. sent[i] \in VenueSnapshots
      BY <2>1, <2>2
    <3>. QED  BY <3>1 DEF VenueSnapshots
  <2>3. periodic # NoMsg => periodic.lvl = VenueBook(periodic.seq)
    BY <1>1 DEF Inv, Published, VenueSnapshots
  <2>. QED  BY <2>2, <2>3 DEF SnapshotsAreTheVenues, sent
<1>. QED  BY <1>1, Invariance, PTL

(* The types; the queue and the buffer stay within their limits, a suspended *)
(* applier belongs to a LIVE symbol, and one that died to a connection that  *)
(* is ending.                                                                *)
THEOREM TypeCorrect == Spec => []TypeOK
<1>1. ASSUME Inv PROVE TypeOK
  <2>1. ASSUME NEW q \in Seq(Known) PROVE AllIn(q, Events)
    BY <2>1 DEF AllIn, Known
  <2>2. AllIn(touch, Prices)
    BY <1>1 DEF Inv, Types, AllIn
  <2>5. -1..Len(touch) \subseteq -1..MaxId /\ 0..Len(touch) \subseteq -2..MaxId
    <3>1. Len(touch) \in Nat /\ Len(touch) <= MaxId /\ MaxId \in Nat
      BY <1>1, BoundsAreNaturals, QueuesAreSequences DEF Inv, Types
    <3>. QED  BY <3>1
  <2>3. /\ lastSeq \in -1..MaxId /\ book.seq \in -1..MaxId /\ book.lvl \in [Prices -> 0..MaxId]
        /\ snapLastId \in -1..MaxId
    BY <1>1, <2>5 DEF Inv, Types, Levels
  <2>4. snapshot.id \in -2..MaxId
    <3>1. \/ snapshot = NoSnapshot \/ snapshot = FetchFailed
          \/ snapshot \in [id : 0..Len(touch), crossed : BOOLEAN]
      BY <1>1 DEF Inv, Types, Answers
    <3>. QED  BY <2>5, <3>1, BoundsAreNaturals DEF NoSnapshot, FetchFailed, NoId
  <2>. QED  BY <1>1, <2>1, <2>2, <2>3, <2>4 DEF TypeOK, Inv, Types, Control
<1>. QED  BY <1>1, Invariance, PTL

----------------------------------------------------------------------------
(* No silent gap *)

DeltaMsgs == [epoch : Nat, by : Nat, first : Nat, seq : Nat]

\* Where the messages of epoch e stand.
Of(q, e) == {i \in 1..Len(q) : q[i].epoch = e}

\* Some snapshot of epoch e that the delta d goes on from.
Based(ss, e, d) == \E j \in Of(ss, e) : ss[j].seq < d.seq /\ d.first <= ss[j].seq + 1

\* The deltas of epoch e are the end of the topic, go on from a snapshot and
\* each from the one before.
Unbroken(ds, ss, e) ==
  \A i \in Of(ds, e) :
    /\ \A j \in i..Len(ds) : j \in Of(ds, e)
    /\ i < Len(ds) => ds[i + 1].first = ds[i].seq + 1
    /\ i - 1 \notin Of(ds, e) => Based(ss, e, ds[i])

\* What was sent of epoch e rebuilds the book of sequence n.
Rebuilds(ds, ss, e, n) ==
  /\ Of(ds, e) = {} => \E j \in Of(ss, e) : ss[j].seq = n
  /\ Of(ds, e) # {} => ds[Len(ds)].seq = n

\* The first event after the snapshot is behind us.
Synced == IF Spot THEN snapLastId < lastSeq ELSE synced

\* What the delta that is being sent goes on from.
Continues(ds) ==
  /\ applier.cur.U <= lastSeq + 1 /\ lastSeq < applier.cur.u
  /\ Of(ds, epoch) # {} => applier.cur.U = lastSeq + 1
  /\ ~Spot => synced

\* Whatever was sent is of this connection or an earlier one; what of it is still
\* with the producer reports its failure to this connection.
Messages ==
  /\ produceFailed \in BOOLEAN
  /\ log["deltas"] \in Seq(DeltaMsgs) /\ pipe["deltas"] \in Seq(DeltaMsgs)
  /\ \A t \in Topics : /\ \A i \in 1..Len(Sent(t)) : Sent(t)[i].epoch <= epoch
                       /\ \A i \in 1..Len(pipe[t]) : pipe[t][i].epoch = epoch => pipe[t][i].by = epoch
  /\ periodic.epoch <= epoch

\* Until the snapshot is sent there is no delta.
Quiet == state \in {"BOOTSTRAP", "BUFFERING"} \/ applier.pc = "snap" =>
           Of(Sent("deltas"), epoch) = {} /\ synced = FALSE

\* The driver is not behind its snapshot, nor ahead of what it is sending.
Anchored ==
  /\ state = "LIVE" /\ Spot => snapLastId <= lastSeq
  /\ applier.pc = "delta" => lastSeq < applier.cur.u

Moving ==
  state = "LIVE" /\ applier.pc # "snap" =>
    /\ Rebuilds(Sent("deltas"), Sent("snapshots"), epoch, lastSeq)
    /\ Of(Sent("deltas"), epoch) # {} => Synced
    /\ applier.pc = "delta" => Continues(Sent("deltas"))

Whole == produceFailed = FALSE => Unbroken(Sent("deltas"), Sent("snapshots"), epoch) /\ Moving

Flow == Messages /\ Quiet /\ Anchored /\ Whole

\* Every message of epoch e in p is in q.
Holds(q, p, e) == \A i \in Of(p, e) : \E j \in Of(q, e) : q[j] = p[i]

(* More snapshots do no harm.                                                *)
LEMMA MoreSnapshots ==
  ASSUME NEW ds, NEW p, NEW q, NEW e, Holds(q, p, e), Unbroken(ds, p, e)
  PROVE  /\ Unbroken(ds, q, e)
         /\ \A n : Rebuilds(ds, p, e, n) => Rebuilds(ds, q, e, n)
<1>1. ASSUME NEW d, Based(p, e, d) PROVE Based(q, e, d)
  <2>1. PICK i \in Of(p, e) : p[i].seq < d.seq /\ d.first <= p[i].seq + 1
    BY <1>1 DEF Based
  <2>2. PICK j \in Of(q, e) : q[j] = p[i]
    BY <2>1 DEF Holds
  <2>. QED  BY <2>1, <2>2 DEF Based
<1>2. Unbroken(ds, q, e)
  BY <1>1 DEF Unbroken
<1>3. ASSUME NEW n, Rebuilds(ds, p, e, n) PROVE Rebuilds(ds, q, e, n)
  <2>1. ASSUME NEW i \in Of(p, e), p[i].seq = n PROVE \E j \in Of(q, e) : q[j].seq = n
    BY <2>1 DEF Holds
  <2>. QED  BY <1>3, <2>1 DEF Rebuilds
<1>. QED  BY <1>2, <1>3

\* q is p with the message m behind it.
Longer(q, p, m) ==
  /\ Len(p) \in Nat /\ Len(q) = Len(p) + 1 /\ q[Len(q)] = m
  /\ \A i \in 1..Len(p) : q[i] = p[i]

(* A delta that goes on from the last one, or from a snapshot.               *)
LEMMA MoreDeltas ==
  ASSUME NEW ds, NEW p, NEW ss, NEW e, NEW d, Longer(p, ds, d), d.epoch = e,
         Unbroken(ds, ss, e), NEW n, Rebuilds(ds, ss, e, n),
         n < d.seq, d.first <= n + 1, Of(ds, e) # {} => d.first = n + 1
  PROVE  /\ Unbroken(p, ss, e) /\ Rebuilds(p, ss, e, d.seq) /\ Of(p, e) # {}
<1>. DEFINE k == Len(ds) + 1
<1>1. /\ Len(ds) \in Nat /\ Len(p) = k /\ k \in 1..k /\ p[k] = d /\ Len(ds) = k - 1
      /\ \A i \in 1..Len(ds) : p[i] = ds[i] /\ i \in 1..k /\ i # k
      /\ \A i \in 1..k : i = k \/ i \in 1..Len(ds)
  BY DEF Longer
<1>. HIDE DEF k
<1>2. k \in Of(p, e) /\ k \notin Of(ds, e)
  BY <1>1 DEF Of
<1>3. \A i : i \in Of(p, e) <=> i \in Of(ds, e) \/ i = k
  BY <1>1, <1>2 DEF Of
<1>4. ASSUME NEW i \in Of(ds, e)
      PROVE  /\ i \in 1..Len(ds) /\ Len(ds) \in Of(ds, e) /\ ds[Len(ds)].seq = n
             /\ d.first = ds[Len(ds)].seq + 1
  <2>1. i \in 1..Len(ds) /\ Len(ds) \in i..Len(ds)
    BY <1>1 DEF Of
  <2>2. Len(ds) \in Of(ds, e)
    BY <2>1 DEF Unbroken
  <2>. QED  BY <2>1, <2>2 DEF Rebuilds
<1>5. ASSUME NEW i \in Of(p, e), NEW j \in i..Len(p) PROVE j \in Of(p, e)
  <2>1. CASE i = k
    <3>1. j = k
      BY <1>1, <2>1
    <3>. QED  BY <1>2, <3>1
  <2>2. CASE i \in Of(ds, e)
    <3>1. j = k \/ j \in i..Len(ds)
      BY <1>1
    <3>. QED  BY <1>2, <1>3, <2>2, <3>1 DEF Unbroken
  <2>. QED  BY <1>3, <2>1, <2>2
<1>6. ASSUME NEW i \in Of(p, e), i < Len(p) PROVE p[i + 1].first = p[i].seq + 1
  <2>1. i \in Of(ds, e) /\ i \in 1..Len(ds) /\ p[i] = ds[i]
    BY <1>1, <1>3, <1>4, <1>6
  <2>2. CASE i = Len(ds)
    <3>1. i + 1 = k
      BY <1>1, <2>2
    <3>. QED  BY <1>1, <1>4, <2>1, <2>2, <3>1
  <2>3. CASE i # Len(ds)
    <3>1. i < Len(ds) /\ i + 1 \in 1..Len(ds)
      BY <1>1, <2>1, <2>3
    <3>. QED  BY <1>1, <2>1, <3>1 DEF Unbroken
  <2>. QED  BY <2>2, <2>3
<1>7. ASSUME NEW i \in Of(p, e), i - 1 \notin Of(p, e) PROVE Based(ss, e, p[i])
  <2>1. CASE i \in Of(ds, e)
    <3>1. i - 1 \notin Of(ds, e) /\ p[i] = ds[i]
      BY <1>1, <1>3, <1>4, <1>7, <2>1
    <3>. QED  BY <2>1, <3>1 DEF Unbroken
  <2>2. CASE i = k
    <3>1. i - 1 = Len(ds)
      BY <1>1, <2>2
    <3>2. Of(ds, e) = {}
      BY <1>3, <1>4, <1>7, <3>1
    <3>3. PICK j \in Of(ss, e) : ss[j].seq = n
      BY <3>2 DEF Rebuilds
    <3>. QED  BY <1>1, <2>2, <3>3 DEF Based
  <2>. QED  BY <1>3, <2>1, <2>2
<1>8. Unbroken(p, ss, e)
  BY <1>5, <1>6, <1>7 DEF Unbroken
<1>. QED  BY <1>1, <1>2, <1>8 DEF Rebuilds

\* q is p without its k-th message.
Shorter(q, p, k) ==
  /\ Len(p) \in Nat /\ k \in 1..Len(p) /\ Len(q) = Len(p) - 1
  /\ \A i \in 1..(k - 1) : q[i] = p[i]
  /\ \A i \in k..Len(q) : q[i] = p[i + 1]

(* Losing a message of another epoch loses none of this one.                 *)
LEMMA FewerHolds ==
  ASSUME NEW p, NEW q, NEW k, Shorter(q, p, k), NEW e, p[k].epoch # e
  PROVE  Holds(q, p, e)
<1>. SUFFICES ASSUME NEW i \in Of(p, e) PROVE \E j \in Of(q, e) : q[j] = p[i]
  BY DEF Holds
<1>1. i \in 1..Len(p) /\ i # k /\ p[i].epoch = e
  BY DEF Of
<1>2. CASE i < k
  <2>1. i \in 1..(k - 1) /\ i \in 1..Len(q)
    BY <1>1, <1>2 DEF Shorter
  <2>. QED  BY <1>1, <2>1 DEF Shorter, Of
<1>3. CASE i > k
  <2>1. i - 1 \in k..Len(q) /\ i - 1 \in 1..Len(q) /\ (i - 1) + 1 = i
    BY <1>1, <1>3 DEF Shorter
  <2>2. q[i - 1] = p[i]
    BY <2>1 DEF Shorter
  <2>. QED  BY <1>1, <2>1, <2>2 DEF Of
<1>4. i < k \/ i > k
  BY <1>1 DEF Shorter
<1>. QED  BY <1>2, <1>3, <1>4

(* Losing a message adds none of any epoch.                                  *)
LEMMA NoneLeft ==
  ASSUME NEW p, NEW q, NEW k, Shorter(q, p, k), NEW e, Of(p, e) = {}
  PROVE  Of(q, e) = {}
<1>. SUFFICES ASSUME NEW i \in Of(q, e) PROVE FALSE
  OBVIOUS
<1>1. i \in 1..Len(q) /\ q[i].epoch = e
  BY DEF Of
<1>2. (i \in 1..(k - 1) /\ i \in 1..Len(p)) \/ (i \in k..Len(q) /\ i + 1 \in 1..Len(p))
  BY <1>1 DEF Shorter
<1>. QED  BY <1>1, <1>2 DEF Shorter, Of

(* Losing a delta of another epoch leaves this one's unbroken.               *)
LEMMA FewerDeltas ==
  ASSUME NEW p, NEW q, NEW k, Shorter(q, p, k), NEW e, p[k].epoch # e, NEW ss, Unbroken(p, ss, e)
  PROVE  /\ Unbroken(q, ss, e)
         /\ \A n : Rebuilds(p, ss, e, n) => Rebuilds(q, ss, e, n)
         /\ Of(q, e) = {} <=> Of(p, e) = {}
<1>1. /\ Len(p) \in Nat /\ k \in 1..Len(p) /\ Len(q) = Len(p) - 1
      /\ \A i \in 1..(k - 1) : q[i] = p[i]
      /\ \A i \in k..Len(q) : q[i] = p[i + 1]
  BY DEF Shorter
<1>2. ASSUME NEW i \in Of(p, e) PROVE i \in (k + 1)..Len(p)
  <2>1. i \in 1..Len(p) /\ k \notin Of(p, e)
    BY DEF Of
  <2>2. k \notin i..Len(p)
    BY <2>1 DEF Unbroken
  <2>. QED  BY <1>1, <2>1, <2>2
<1>3. ASSUME NEW i \in Int PROVE i \in Of(q, e) <=> i + 1 \in Of(p, e) /\ i >= k
  <2>1. CASE i \in 1..(k - 1)
    <3>1. q[i] = p[i] /\ i \notin Of(p, e) /\ i \in 1..Len(p) /\ ~(i >= k)
      BY <1>1, <1>2, <2>1
    <3>. QED  BY <3>1 DEF Of
  <2>2. CASE i \in k..Len(q)
    <3>1. q[i] = p[i + 1] /\ i \in 1..Len(q) /\ i + 1 \in 1..Len(p) /\ i >= k
      BY <1>1, <2>2
    <3>. QED  BY <3>1 DEF Of
  <2>3. CASE i \notin 1..Len(q)
    <3>1. ~(i + 1 \in 1..Len(p) /\ i >= k)
      BY <1>1, <2>3
    <3>. QED  BY <2>3, <3>1 DEF Of
  <2>4. i \in 1..(k - 1) \/ i \in k..Len(q) \/ i \notin 1..Len(q)
    BY <1>1
  <2>. QED  BY <2>1, <2>2, <2>3, <2>4
<1>4. ASSUME NEW i \in Of(q, e)
      PROVE i \in Nat /\ i \in k..Len(q) /\ i + 1 \in Of(p, e) /\ q[i] = p[i + 1]
  <2>1. i \in 1..Len(q)
    BY DEF Of
  <2>2. i \in Int /\ i \in Nat
    BY <2>1
  <2>3. i + 1 \in Of(p, e) /\ i >= k
    BY <1>3, <2>2
  <2>4. i \in k..Len(q)
    BY <1>1, <2>1, <2>3
  <2>. QED  BY <1>1, <2>2, <2>3, <2>4
<1>5. ASSUME NEW i \in Of(q, e), NEW j \in i..Len(q) PROVE j \in Of(q, e)
  <2>1. j \in Int /\ j + 1 \in (i + 1)..Len(p) /\ j >= k
    BY <1>1, <1>4
  <2>2. j + 1 \in Of(p, e)
    BY <1>4, <2>1 DEF Unbroken
  <2>. QED  BY <1>3, <2>1, <2>2
<1>6. ASSUME NEW i \in Of(q, e), i < Len(q) PROVE q[i + 1].first = q[i].seq + 1
  <2>1. i + 1 < Len(p) /\ i + 1 \in k..Len(q)
    BY <1>1, <1>4, <1>6
  <2>2. q[i + 1] = p[(i + 1) + 1]
    BY <1>1, <2>1
  <2>. QED  BY <1>4, <2>1, <2>2 DEF Unbroken
<1>7. ASSUME NEW i \in Of(q, e), i - 1 \notin Of(q, e) PROVE Based(ss, e, q[i])
  <2>1. i - 1 \in Int /\ (i - 1) + 1 = i /\ (i + 1) - 1 = i
    BY <1>4
  <2>2. ~(i \in Of(p, e) /\ i - 1 >= k)
    BY <1>3, <1>7, <2>1
  <2>3. i \notin Of(p, e)
    <3>1. ASSUME i \in Of(p, e) PROVE i - 1 >= k
      BY <1>1, <1>2, <1>4, <3>1
    <3>. QED  BY <2>2, <3>1
  <2>. QED  BY <1>4, <2>1, <2>3 DEF Unbroken
<1>8. Unbroken(q, ss, e)
  BY <1>5, <1>6, <1>7 DEF Unbroken
<1>9. Of(q, e) = {} <=> Of(p, e) = {}
  <2>1. ASSUME NEW i \in Of(p, e) PROVE Of(q, e) # {}
    <3>1. i - 1 \in Int /\ (i - 1) + 1 = i /\ i - 1 >= k
      BY <1>1, <1>2
    <3>2. i - 1 \in Of(q, e)
      BY <1>3, <3>1
    <3>. QED  BY <3>2
  <2>. QED  BY <1>4, <2>1
<1>10. ASSUME NEW n, Rebuilds(p, ss, e, n) PROVE Rebuilds(q, ss, e, n)
  <2>1. CASE Of(q, e) = {}
    BY <1>9, <1>10, <2>1 DEF Rebuilds
  <2>2. CASE Of(q, e) # {}
    <3>1. PICK i : i \in Of(q, e)
      BY <2>2
    <3>2. Len(q) \in k..Len(q) /\ Len(q) + 1 = Len(p)
      BY <1>1, <1>4, <3>1
    <3>3. q[Len(q)] = p[Len(p)]
      BY <1>1, <3>2
    <3>. QED  BY <1>9, <1>10, <2>2, <3>3 DEF Rebuilds
  <2>. QED  BY <2>1, <2>2
<1>. QED  BY <1>8, <1>9, <1>10

\* Nothing is sent, delivered or lost.
SameMessages == UNCHANGED <<market, pipe, log, epoch, periodic, produceFailed>>

(* What holds of the messages holds on while none is sent, delivered or lost. *)
LEMMA MessagesStay ==
  ASSUME Flow, SameMessages
  PROVE  /\ Sent("deltas")' = Sent("deltas") /\ Sent("snapshots")' = Sent("snapshots")
         /\ Messages'
         /\ (Moving => Moving') => Whole'
<1>1. \A t \in Topics : Sent(t)' = Sent(t)
  BY DEF SameMessages, Sent
<1>2. "deltas" \in Topics /\ "snapshots" \in Topics
  BY DEF Topics
<1>3. Messages'
  BY <1>1 DEF Flow, Messages, SameMessages
<1>. QED  BY <1>1, <1>2, <1>3 DEF Flow, Whole, SameMessages

\* What the driver remembers of the stream.
SameProgress == UNCHANGED <<state, lastSeq, snapLastId, synced>>

(* A step that moves neither the book nor a message,                         *)
LEMMA FlowStays ==
  ASSUME Flow, SameMessages, SameProgress, applier'.pc = applier.pc, applier'.cur = applier.cur
  PROVE  Flow'
<1>1. Moving => Moving'
  BY MessagesStay DEF Moving, Synced, Continues, Spot, SameMessages, SameProgress
<1>2. Quiet' /\ Anchored'
  BY MessagesStay DEF Flow, Quiet, Anchored, Spot, SameMessages, SameProgress
<1>. QED  BY <1>1, <1>2, MessagesStay DEF Flow

(* ... or that ends the stream, keeps the flow.                              *)
LEMMA FlowEnds ==
  ASSUME Flow, SameMessages, state' = "STALE", applier'.pc = "dead"
  PROVE  Flow'
<1>1. Moving' /\ Quiet' /\ Anchored'
  BY DEF Moving, Quiet, Anchored
<1>. QED  BY <1>1, MessagesStay DEF Flow

(* A new connection has sent nothing yet.                                    *)
LEMMA ConnectKeepsFlow ==
  ASSUME Inv, Flow, Connect
  PROVE  Flow'
<1>1. /\ UNCHANGED <<pipe, log, periodic>> /\ epoch' = epoch + 1 /\ epoch \in Nat
      /\ state' = "BOOTSTRAP" /\ synced' = FALSE /\ applier'.pc = "idle" /\ produceFailed' = FALSE
  BY DEF Connect, ResetContexts, Inv, Types
<1>2. \A t \in Topics : Sent(t)' = Sent(t)
  BY <1>1 DEF Sent
<1>3. ASSUME NEW t \in Topics
      PROVE  /\ \A i \in 1..Len(Sent(t)) : Sent(t)[i].epoch \in Nat /\ Sent(t)[i].epoch <= epoch
             /\ \A i \in 1..Len(pipe[t]) : pipe[t][i].epoch \in Nat /\ pipe[t][i].epoch <= epoch
  <2>1. PICK S : /\ log[t] \in Seq(S) /\ pipe[t] \in Seq(S)
                 /\ \A m \in S : m.epoch \in Nat
    <3>0. \A m \in DeltaMsgs : m.epoch \in Nat
      BY DEF DeltaMsgs
    <3>1. CASE t = "deltas"
      BY <3>0, <3>1 DEF Flow, Messages
    <3>2. CASE t = "snapshots"
      BY <3>2 DEF Inv, Published, VenueSnapshots
    <3>. QED  BY <3>1, <3>2 DEF Topics
  <2>. DEFINE p == pipe[t]
              l == log[t]
  <2>2. /\ p \in Seq(S) /\ l \in Seq(S) /\ l \o p \in Seq(S)
    BY <2>1
  <2>3. \A i \in 1..Len(l \o p) : (l \o p)[i].epoch <= epoch
    BY DEF Flow, Messages, Sent
  <2>. HIDE DEF p, l
  <2>4. \A i \in 1..Len(l \o p) : (l \o p)[i] \in S
    BY <2>2
  <2>5. ASSUME NEW i \in 1..Len(p)
        PROVE  /\ p[i] \in S /\ Len(l) + i \in 1..Len(l \o p) /\ (l \o p)[Len(l) + i] = p[i]
    BY <2>2
  <2>. QED  BY <2>1, <2>3, <2>4, <2>5 DEF p, l, Sent
<1>4. Messages'
  <2>1. periodic.epoch \in Nat /\ periodic.epoch <= epoch
    BY DEF Flow, Messages, Inv, Published, VenueSnapshots, NoMsg
  <2>2. \A n \in Nat : n <= epoch => n <= epoch' /\ n # epoch'
    BY <1>1
  <2>3. periodic'.epoch <= epoch'
    BY <1>1, <2>1, <2>2
  <2>4. ASSUME NEW t \in Topics
        PROVE  /\ \A i \in 1..Len(Sent(t)') : Sent(t)'[i].epoch <= epoch'
               /\ \A i \in 1..Len(pipe'[t]) : pipe'[t][i].epoch # epoch'
    BY <1>1, <1>2, <1>3, <2>2
  <2>. QED  BY <1>1, <2>3, <2>4 DEF Flow, Messages
<1>5. ASSUME NEW t \in Topics PROVE Of(Sent(t)', epoch') = {}
  <2>1. \A n \in Nat : n <= epoch => n # epoch'
    BY <1>1
  <2>. QED  BY <1>2, <1>3, <2>1 DEF Of
<1>6. Of(Sent("deltas")', epoch') = {} /\ Of(Sent("snapshots")', epoch') = {}
  BY <1>5 DEF Topics
<1>7. Quiet' /\ Anchored' /\ Whole'
  BY <1>1, <1>6 DEF Quiet, Anchored, Whole, Unbroken, Moving
<1>. QED  BY <1>4, <1>7 DEF Flow

(* One delta is applied, and waits to be sent.                               *)
LEMMA ApplySyncedKeepsFlow ==
  ASSUME Inv, Flow, SameMessages, NEW ev \in Known, NEW rest, ApplySynced(ev, rest),
         applier.pc = "idle", state = "LIVE"
  PROVE  Flow'
<1>1. CASE Resync(book) \/ Resync(ClearBook)
  BY <1>1, FlowEnds DEF Resync, Inv, Types
<1>2. CASE /\ Stale(ev) /\ synced' = (synced \/ (~Spot /\ Straddles(ev)))
           /\ applier' = [applier EXCEPT !.todo = rest]
           /\ UNCHANGED <<state, lastSeq, book, ended, snapshot, snapLastId>>
  <2>1. applier'.pc = "idle" /\ state' = "LIVE"
    BY <1>2 DEF Inv, Types
  <2>2. Synced => Synced'
    BY <1>2 DEF Synced, Spot, SameMessages
  <2>3. Moving => Moving'
    BY <1>2, <2>1, <2>2, MessagesStay DEF Moving, SameMessages
  <2>4. Quiet' /\ Anchored'
    BY <1>2, <2>1 DEF Quiet, Anchored, Flow, Spot, SameMessages
  <2>. QED  BY <2>3, <2>4, MessagesStay DEF Flow
<1>3. CASE /\ ~Stale(ev) /\ ~Gap(ev) /\ synced' = ~Spot
           /\ applier' = [pc |-> "delta", cur |-> ev, todo |-> rest]
           /\ UNCHANGED <<state, lastSeq, ended, snapshot, snapLastId>>
  <2>1. applier'.pc = "delta" /\ applier'.cur = ev /\ state' = "LIVE" /\ lastSeq' = lastSeq
    BY <1>3
  <2>2. ev.U \in Int /\ ev.u \in Int /\ lastSeq \in Int /\ snapLastId \in Int /\ ev.U <= ev.u
    BY QueuesAreSequences DEF Inv, Types, Known, Events
  <2>3. /\ ev.U <= lastSeq + 1 /\ lastSeq < ev.u
        /\ Synced => ev.U = lastSeq + 1
    BY <1>3, <2>2 DEF Stale, Gap, Straddles, Unsynced, Synced
  <2>4. Moving => Moving'
    <3>1. Synced => Synced'
      BY <1>3 DEF Synced, Spot, SameMessages
    <3>2. ASSUME Moving PROVE Continues(Sent("deltas"))'
      <4>1. Of(Sent("deltas"), epoch) # {} => Synced
        BY <3>2 DEF Moving
      <4>. QED  BY <1>3, <2>1, <2>3, <4>1, MessagesStay DEF Continues, Spot, SameMessages
    <3>. QED  BY <1>3, <2>1, <3>1, <3>2, MessagesStay DEF Moving, SameMessages
  <2>5. Quiet' /\ Anchored'
    BY <1>3, <2>1, <2>3 DEF Quiet, Anchored, Flow, Spot, SameMessages
  <2>. QED  BY <2>4, <2>5, MessagesStay DEF Flow
<1>. QED  BY <1>1, <1>2, <1>3 DEF ApplySynced

LEMMA ApplyKeepsFlow ==
  ASSUME Inv, Flow, ApplyLive \/ DrainBuffered
  PROVE  Flow'
<1>1. SameMessages
  BY DEF ApplyLive, DrainBuffered, SameMessages, venueVars, producerVars
<1>2. CASE ApplyLive
  <2>1. Head(queue) \in Known /\ ApplySynced(Head(queue), <<>>) /\ applier.pc = "idle"
        /\ state = "LIVE"
    BY <1>2, QueuesAreSequences DEF ApplyLive, Running
  <2>. QED  BY <1>1, <2>1, ApplySyncedKeepsFlow
<1>3. CASE DrainBuffered
  <2>1. Head(applier.todo) \in Known /\ ApplySynced(Head(applier.todo), Tail(applier.todo))
        /\ applier.pc = "idle" /\ state = "LIVE"
    BY <1>3, QueuesAreSequences DEF DrainBuffered, Running, Inv, Control
  <2>. QED  BY <1>1, <2>1, ApplySyncedKeepsFlow
<1>. QED  BY <1>2, <1>3

LEMMA BufferingKeepsFlow ==
  ASSUME Inv, Flow, BufferAppend \/ ApplySnapshot
  PROVE  Flow'
<1>1. SameMessages /\ state = "BUFFERING" /\ applier.pc = "idle"
  BY DEF BufferAppend, ApplySnapshot, Buffering, Running, SameMessages, venueVars, producerVars
<1>2. CASE Resync(book) \/ Resync(ClearBook)
  BY <1>1, <1>2, FlowEnds DEF Resync, Inv, Types
<1>3. CASE UNCHANGED <<state, lastSeq, book, applier, ended, snapshot, snapLastId, synced>>
  BY <1>1, <1>3, FlowStays DEF SameProgress
<1>4. CASE /\ state' = "LIVE" /\ lastSeq' = snapshot.id
           /\ snapLastId' = IF Spot THEN snapshot.id ELSE NoId
           /\ applier' = [pc |-> "snap", cur |-> Head(queue), todo |-> <<>>]
           /\ UNCHANGED <<ended, snapshot, synced>>
           /\ snapshot # FetchFailed /\ snapshot # NoSnapshot
  <2>0. snapshot.id \in Int
    BY <1>4 DEF Inv, Types, Answers
  <2>1. Moving' /\ Quiet'
    BY <1>1, <1>4, MessagesStay DEF Moving, Quiet, Flow, SameMessages
  <2>2. Anchored'
    <3>1. snapshot.id <= snapshot.id /\ Spot' = Spot
      BY <1>1, <2>0 DEF Spot, SameMessages
    <3>. QED  BY <1>4, <3>1 DEF Anchored
  <2>. QED  BY <1>1, <2>1, <2>2, MessagesStay DEF Flow
<1>. QED  BY <1>2, <1>3, <1>4 DEF BufferAppend, ApplySnapshot

LEMMA LifecycleKeepsFlow ==
  ASSUME Inv, Flow, Bootstrap \/ WindDown
  PROVE  Flow'
<1>1. SameMessages
  BY DEF Bootstrap, WindDown, SameMessages, venueVars, producerVars
<1>2. CASE Bootstrap
  <2>1. /\ state = "BOOTSTRAP" /\ state' = "BUFFERING" /\ UNCHANGED <<applier, synced>>
        /\ applier.pc = "idle"
    BY <1>2 DEF Bootstrap, Inv, Control
  <2>2. Moving' /\ Quiet' /\ Anchored'
    BY <1>1, <2>1, MessagesStay DEF Moving, Quiet, Anchored, Flow, SameMessages
  <2>. QED  BY <1>1, <2>2, MessagesStay DEF Flow
<1>3. CASE WindDown
  BY <1>1, <1>3, FlowEnds DEF WindDown, Inv, Types
<1>. QED  BY <1>2, <1>3

LEMMA OthersKeepFlow ==
  ASSUME Inv, Flow, VenueEvent \/ SocketClosed \/ Read \/ FetchLands
  PROVE  Flow'
<1>1. SameMessages /\ SameProgress /\ applier' = applier
  <2>1. CASE VenueEvent
    BY <2>1 DEF VenueEvent, SameMessages, SameProgress, ctxVars, fetchVars, producerVars
  <2>2. CASE SocketClosed
    BY <2>2 DEF SocketClosed, SameMessages, SameProgress, venueVars, ctxVars, fetchVars, producerVars
  <2>3. CASE Read
    BY <2>3 DEF Read, SameMessages, SameProgress, ctxVars, fetchVars, producerVars
  <2>4. CASE FetchLands
    BY <2>4 DEF FetchLands, SameMessages, SameProgress, venueVars, ctxVars, producerVars
  <2>. QED  BY <2>1, <2>2, <2>3, <2>4
<1>. QED  BY <1>1, FlowStays

LEMMA TickKeepsFlow ==
  ASSUME Inv, Flow, SnapshotTick
  PROVE  Flow'
<1>1. /\ UNCHANGED <<market, pipe, log, epoch, produceFailed, applier>> /\ SameProgress
      /\ periodic'.epoch = epoch /\ epoch \in Nat
  BY DEF SnapshotTick, SameProgress, venueVars, ctxVars, fetchVars, producerVars, SnapshotMsg,
         Inv, Types
<1>2. \A t \in Topics : Sent(t)' = Sent(t)
  BY <1>1 DEF Sent
<1>3. Sent("deltas")' = Sent("deltas") /\ Sent("snapshots")' = Sent("snapshots")
  BY <1>2 DEF Topics
<1>4. Messages'
  BY <1>1, <1>2 DEF Flow, Messages
<1>5. Moving => Moving'
  BY <1>1, <1>3 DEF Moving, Synced, Continues, Spot, SameProgress
<1>6. Quiet' /\ Anchored' /\ Whole'
  BY <1>1, <1>3, <1>5 DEF Flow, Quiet, Anchored, Whole, Spot, SameProgress
<1>. QED  BY <1>4, <1>6 DEF Flow

\* Topic t has one message more on its way, sent by this connection.
Sends(t, m) ==
  /\ pipe' = [pipe EXCEPT ![t] = Append(@, m)] /\ m.epoch <= epoch /\ m.by = epoch
  /\ UNCHANGED <<market, log, epoch, produceFailed>>

(* What is sent comes behind all that was sent to its topic.                 *)
LEMMA SentLonger ==
  ASSUME Inv, Flow, NEW t \in Topics, NEW m, Sends(t, m)
  PROVE  /\ Longer(Sent(t)', Sent(t), m)
         /\ \A u \in Topics : u # t => Sent(u)' = Sent(u)
         /\ pipe'[t] = Append(pipe[t], m)
         /\ \A u \in Topics :
              /\ \A i \in 1..Len(Sent(u)') : Sent(u)'[i].epoch <= epoch
              /\ \A i \in 1..Len(pipe'[u]) : pipe'[u][i].epoch = epoch => pipe'[u][i].by = epoch
<1>1. PICK S : log[t] \in Seq(S) /\ pipe[t] \in Seq(S)
  BY DEF Flow, Messages, Inv, Published, Topics
<1>. DEFINE p == pipe[t]
            l == log[t]
<1>2. pipe'[t] = Append(p, m) /\ Sent(t) = l \o p /\ Sent(t)' = l \o Append(p, m)
  BY DEF Sends, Sent, Inv, Published
<1>3. p \in Seq(S \cup {m}) /\ l \in Seq(S \cup {m})
  BY <1>1
<1>. HIDE DEF p, l
<1>4. /\ l \o p \in Seq(S \cup {m}) /\ l \o Append(p, m) = Append(l \o p, m)
      /\ Len(Append(l \o p, m)) = Len(l \o p) + 1 /\ Len(l \o p) \in Nat
  BY <1>3
<1>5. Longer(Append(l \o p, m), l \o p, m)
  BY <1>4 DEF Longer
<1>6. Longer(Sent(t)', Sent(t), m)
  BY <1>2, <1>4, <1>5
<1>7. ASSUME NEW u \in Topics, u # t PROVE Sent(u)' = Sent(u) /\ pipe'[u] = pipe[u]
  BY <1>7 DEF Sends, Sent, Inv, Published
<1>8. ASSUME NEW u \in Topics
      PROVE  /\ \A i \in 1..Len(Sent(u)') : Sent(u)'[i].epoch <= epoch
             /\ \A i \in 1..Len(pipe'[u]) : pipe'[u][i].epoch = epoch => pipe'[u][i].by = epoch
  <2>1. CASE u # t
    BY <1>7, <2>1 DEF Flow, Messages
  <2>2. CASE u = t
    <3>1. ASSUME NEW i \in 1..Len(Sent(t)') PROVE Sent(t)'[i].epoch <= epoch
      <4>1. i \in 1..Len(Sent(t)) \/ i = Len(Sent(t)')
        BY <1>6 DEF Longer
      <4>. QED  BY <1>6, <4>1 DEF Longer, Sends, Flow, Messages
    <3>2. ASSUME NEW i \in 1..Len(Append(p, m)), Append(p, m)[i].epoch = epoch
          PROVE  Append(p, m)[i].by = epoch
      <4>1. (i \in 1..Len(p) /\ Append(p, m)[i] = p[i]) \/ Append(p, m)[i] = m
        BY <1>3
      <4>2. \A k \in 1..Len(p) : p[k].epoch = epoch => p[k].by = epoch
        BY DEF Flow, Messages, p
      <4>. QED  BY <3>2, <4>1, <4>2 DEF Sends
    <3>. QED  BY <1>2, <2>2, <3>1, <3>2
  <2>. QED  BY <2>1, <2>2
<1>. QED  BY <1>2, <1>6, <1>7, <1>8 DEF p

(* A message that was sent is there, as are those before it.                 *)
LEMMA LongerHolds ==
  ASSUME NEW q, NEW p, NEW m, Longer(q, p, m), NEW e
  PROVE  /\ Holds(q, p, e)
         /\ m.epoch = e => \E j \in Of(q, e) : q[j] = m
BY DEF Longer, Holds, Of

(* The first snapshot of a connection is what its deltas go on from.         *)
LEMMA SnapshotSentKeepsFlow ==
  ASSUME Inv, Flow, SnapshotSent
  PROVE  Flow'
<1>. DEFINE m == SnapshotMsg(epoch, book)
<1>1. /\ m.epoch = epoch /\ m.by = epoch /\ m.seq = lastSeq /\ state = "LIVE" /\ epoch \in Nat
      /\ Of(Sent("deltas"), epoch) = {} /\ applier.pc = "snap"
  BY DEF SnapshotMsg, SnapshotSent, Inv, Control, Types, Flow, Quiet
<1>2. /\ Sends("snapshots", m) /\ UNCHANGED <<state, lastSeq, snapLastId, periodic>>
      /\ applier'.pc = "idle" /\ "snapshots" \in Topics
  BY <1>1 DEF SnapshotSent, Sends, venueVars, Topics
<1>. HIDE DEF m
<1>3. /\ Longer(Sent("snapshots")', Sent("snapshots"), m) /\ Sent("deltas")' = Sent("deltas")
      /\ pipe'["deltas"] = pipe["deltas"]
  BY <1>2, SentLonger DEF Topics, Sends, Inv, Published
<1>4. Messages'
  BY <1>2, <1>3, SentLonger DEF Messages, Flow, Sends
<1>5. PICK j \in Of(Sent("snapshots")', epoch) : Sent("snapshots")'[j] = m
  BY <1>1, <1>3, LongerHolds
<1>6. Moving'
  <2>1. Rebuilds(Sent("deltas")', Sent("snapshots")', epoch, lastSeq)
    BY <1>1, <1>3, <1>5 DEF Rebuilds
  <2>. QED  BY <1>1, <1>2, <1>3, <2>1 DEF Moving, Sends
<1>7. Unbroken(Sent("deltas"), Sent("snapshots"), epoch)'
  BY <1>1, <1>2, <1>3 DEF Unbroken, Sends
<1>8. Quiet' /\ Anchored'
  BY <1>1, <1>2 DEF Quiet, Anchored, Flow, Spot, Sends
<1>. QED  BY <1>4, <1>6, <1>7, <1>8 DEF Flow, Whole

(* A periodic snapshot, of this connection or one before, takes nothing away. *)
LEMMA PeriodicSentKeepsFlow ==
  ASSUME Inv, Flow, PeriodicSent
  PROVE  Flow'
<1>. DEFINE m == [periodic EXCEPT !.by = epoch]
<1>1. m.epoch <= epoch /\ m.by = epoch
  <2>1. periodic = [periodic EXCEPT !.by = periodic.by] /\ periodic.epoch <= epoch
    BY DEF Inv, Published, VenueSnapshots, NoMsg, Flow, Messages
  <2>2. m.epoch = periodic.epoch /\ m.by = epoch
    BY DEF Inv, Published, VenueSnapshots, NoMsg
  <2>. QED  BY <2>1, <2>2
<1>2. /\ Sends("snapshots", m) /\ SameProgress /\ applier' = applier /\ periodic' = NoMsg
      /\ "snapshots" \in Topics
  BY <1>1 DEF PeriodicSent, Sends, venueVars, ctxVars, fetchVars, Topics, SameProgress
<1>. HIDE DEF m
<1>3. /\ Longer(Sent("snapshots")', Sent("snapshots"), m) /\ Sent("deltas")' = Sent("deltas")
      /\ pipe'["deltas"] = pipe["deltas"]
  BY <1>2, SentLonger DEF Topics, Sends, Inv, Published
<1>4. Messages'
  <2>1. periodic'.epoch <= epoch'
    BY <1>2 DEF NoMsg, Sends, Inv, Types
  <2>. QED  BY <1>2, <1>3, <2>1, SentLonger DEF Messages, Flow, Sends
<1>5. Holds(Sent("snapshots")', Sent("snapshots"), epoch)
  BY <1>3, LongerHolds
<1>6. ASSUME Unbroken(Sent("deltas"), Sent("snapshots"), epoch), Moving
      PROVE  Unbroken(Sent("deltas"), Sent("snapshots"), epoch)' /\ Moving'
  <2>1. /\ Unbroken(Sent("deltas"), Sent("snapshots")', epoch)
        /\ \A n : Rebuilds(Sent("deltas"), Sent("snapshots"), epoch, n)
             => Rebuilds(Sent("deltas"), Sent("snapshots")', epoch, n)
    BY <1>5, <1>6, MoreSnapshots
  <2>. QED  BY <1>2, <1>3, <1>6, <2>1 DEF Moving, Synced, Continues, Spot, Sends, SameProgress
<1>7. Quiet' /\ Anchored'
  BY <1>2, <1>3 DEF Quiet, Anchored, Flow, Spot, Sends, SameProgress
<1>. QED  BY <1>2, <1>4, <1>6, <1>7 DEF Flow, Whole, Sends

(* The delta that was waiting is the one that goes on from what was sent.    *)
LEMMA DeltaSentKeepsFlow ==
  ASSUME Inv, Flow, DeltaSent
  PROVE  Flow'
<1>. DEFINE m == DeltaMsg(applier.cur)
<1>1. /\ applier.cur \in Known /\ state = "LIVE" /\ epoch \in Nat /\ applier.pc = "delta"
  BY DEF DeltaSent, Inv, Control, Types
<1>2. /\ m.epoch = epoch /\ m.by = epoch /\ m.first = applier.cur.U /\ m.seq = applier.cur.u
      /\ m \in DeltaMsgs /\ m.seq \in Int
  BY <1>1 DEF DeltaMsg, DeltaMsgs, Known, Events
<1>3. /\ Sends("deltas", m) /\ UNCHANGED <<state, snapLastId, synced, periodic>>
      /\ lastSeq' = m.seq /\ applier'.pc = "idle" /\ "deltas" \in Topics
  BY <1>1, <1>2 DEF DeltaSent, Sends, venueVars, fetchVars, Topics, Inv, Types
<1>. HIDE DEF m
<1>4. /\ Longer(Sent("deltas")', Sent("deltas"), m) /\ Sent("snapshots")' = Sent("snapshots")
      /\ pipe'["deltas"] = Append(pipe["deltas"], m)
  BY <1>3, SentLonger DEF Topics
<1>5. Messages'
  <2>1. pipe'["deltas"] \in Seq(DeltaMsgs)
    <3>1. pipe["deltas"] \in Seq(DeltaMsgs)
      BY DEF Flow, Messages
    <3>. QED  BY <1>2, <1>4, <3>1
  <2>. QED  BY <1>3, <1>4, <2>1, SentLonger DEF Messages, Flow, Sends
<1>6. lastSeq \in Int /\ snapLastId \in Int
  BY QueuesAreSequences DEF Inv, Types
<1>7. ASSUME produceFailed = FALSE
      PROVE  Unbroken(Sent("deltas"), Sent("snapshots"), epoch)' /\ Moving'
  <2>1. /\ Unbroken(Sent("deltas"), Sent("snapshots"), epoch)
        /\ Rebuilds(Sent("deltas"), Sent("snapshots"), epoch, lastSeq)
        /\ m.first <= lastSeq + 1 /\ lastSeq < m.seq
        /\ Of(Sent("deltas"), epoch) # {} => m.first = lastSeq + 1
        /\ ~Spot => synced
    BY <1>1, <1>2, <1>7 DEF Flow, Whole, Moving, Continues
  <2>2. /\ Unbroken(Sent("deltas")', Sent("snapshots"), epoch)
        /\ Rebuilds(Sent("deltas")', Sent("snapshots"), epoch, m.seq)
    BY <1>2, <1>4, <2>1, MoreDeltas
  <2>3. Synced'
    <3>1. Spot => snapLastId <= lastSeq
      BY <1>1 DEF Flow, Anchored
    <3>2. Spot => snapLastId < m.seq
      BY <1>2, <1>6, <2>1, <3>1
    <3>. QED  BY <1>3, <2>1, <3>2 DEF Synced, Spot, Sends
  <2>. QED  BY <1>3, <1>4, <2>2, <2>3 DEF Moving, Sends
<1>8. Quiet'
  BY <1>1, <1>3 DEF Quiet
<1>9. Anchored'
  <2>1. ASSUME Spot PROVE snapLastId <= m.seq
    <3>1. snapLastId <= lastSeq /\ lastSeq = lastSeq
      BY <1>1, <2>1 DEF Flow, Anchored
    <3>2. lastSeq < m.seq
      BY <1>1, <1>2 DEF Flow, Anchored
    <3>. QED  BY <1>2, <1>6, <3>1, <3>2
  <2>. QED  BY <1>3, <2>1 DEF Anchored, Spot, Sends
<1>. QED  BY <1>3, <1>5, <1>7, <1>8, <1>9 DEF Flow, Whole, Sends

(* A delivered message was sent, and is sent still.                          *)
LEMMA DeliverKeepsFlow ==
  ASSUME Inv, Flow, NEW t \in Topics, Deliver(t)
  PROVE  Flow'
<1>1. PICK S : log[t] \in Seq(S) /\ pipe[t] \in Seq(S) /\ (t = "deltas" => S = DeltaMsgs)
  BY DEF Flow, Messages, Inv, Published, Topics
<1>. DEFINE p == pipe[t]
            l == log[t]
<1>2. /\ p # <<>> /\ pipe'[t] = Tail(p) /\ log'[t] = Append(l, Head(p))
      /\ \A u \in Topics : u # t => pipe'[u] = pipe[u] /\ log'[u] = log[u]
      /\ Sent(t) = l \o p /\ Sent(t)' = log'[t] \o pipe'[t]
  BY DEF Deliver, Sent, Inv, Published
<1>3. p \in Seq(S) /\ l \in Seq(S)
  BY <1>1
<1>4. \A i \in 1..Len(p) : p[i].epoch = epoch => p[i].by = epoch
  BY DEF Flow, Messages
<1>. HIDE DEF p, l
<1>5. /\ Append(l, Head(p)) \o Tail(p) = l \o p
      /\ Append(l, Head(p)) \in Seq(S) /\ Tail(p) \in Seq(S)
      /\ \A i \in 1..Len(Tail(p)) : i + 1 \in 1..Len(p) /\ Tail(p)[i] = p[i + 1]
  <2>1. /\ Head(p) \in S /\ Tail(p) \in Seq(S) /\ <<Head(p)>> \in Seq(S)
        /\ \A i \in 1..Len(Tail(p)) : i + 1 \in 1..Len(p) /\ Tail(p)[i] = p[i + 1]
    BY <1>2, <1>3
  <2>2. Append(l, Head(p)) = l \o <<Head(p)>> /\ Append(l, Head(p)) \in Seq(S)
    BY <1>3, <2>1, AppendIsConcat, AppendProperties
  <2>3. (l \o <<Head(p)>>) \o Tail(p) = l \o (<<Head(p)>> \o Tail(p))
    BY <1>3, <2>1, ConcatAssociative
  <2>4. <<Head(p)>> \o Tail(p) = p
    BY <1>2, <1>3, <2>1
  <2>. QED  BY <2>1, <2>2, <2>3, <2>4
<1>6. \A u \in Topics : Sent(u)' = Sent(u)
  <2>1. Sent(t)' = Sent(t)
    BY <1>2, <1>5
  <2>2. \A u \in Topics : u # t => Sent(u)' = Sent(u)
    BY <1>2 DEF Sent
  <2>. QED  BY <2>1, <2>2
<1>7. /\ UNCHANGED <<market, epoch, periodic, produceFailed, applier>> /\ SameProgress
      /\ Sent("deltas")' = Sent("deltas") /\ Sent("snapshots")' = Sent("snapshots")
  BY <1>6 DEF Deliver, SameProgress, venueVars, ctxVars, fetchVars, Topics
<1>8. Messages'
  <2>1. \A u \in Topics : \A i \in 1..Len(pipe'[u]) : pipe'[u][i].epoch = epoch => pipe'[u][i].by = epoch
    <3>1. \A i \in 1..Len(pipe'[t]) : pipe'[t][i].epoch = epoch => pipe'[t][i].by = epoch
      BY <1>2, <1>4, <1>5
    <3>2. \A u \in Topics : u # t =>
            \A i \in 1..Len(pipe'[u]) : pipe'[u][i].epoch = epoch => pipe'[u][i].by = epoch
      BY ZenonT(60), <1>2 DEF Flow, Messages
    <3>. QED  BY <3>1, <3>2
  <2>2. log'["deltas"] \in Seq(DeltaMsgs) /\ pipe'["deltas"] \in Seq(DeltaMsgs)
    BY <1>1, <1>2, <1>5 DEF Flow, Messages, Topics
  <2>. QED  BY <1>6, <1>7, <2>1, <2>2 DEF Flow, Messages
<1>9. Quiet' /\ Anchored' /\ Whole'
  BY <1>7 DEF Flow, Quiet, Anchored, Whole, Moving, Synced, Continues, Spot, SameProgress
<1>. QED  BY <1>8, <1>9 DEF Flow

\* Topic t loses the first message on its way.
Loses(t) ==
  /\ Shorter(Sent(t)', Sent(t), Len(log[t]) + 1)
  /\ Sent(t)[Len(log[t]) + 1] = Head(pipe[t])
  /\ \A u \in Topics : u # t => Sent(u)' = Sent(u)
  /\ \A i \in 1..Len(Sent(t)') : Sent(t)'[i].epoch <= epoch

(* A message that failed is reported to the connection that sent it: if that *)
(* is still the one that is up, it is about to end; if it is not, nothing of *)
(* this connection is gone.                                                  *)
LEMMA ProduceFailsLoses ==
  ASSUME Inv, Flow, NEW t \in Topics, ProduceFails(t)
  PROVE  /\ Loses(t) /\ Messages'
         /\ produceFailed' = FALSE => Head(pipe[t]).epoch # epoch
<1>1. PICK S : log[t] \in Seq(S) /\ pipe[t] \in Seq(S) /\ (t = "deltas" => S = DeltaMsgs)
  BY DEF Flow, Messages, Inv, Published, Topics
<1>. DEFINE p == pipe[t]
            l == log[t]
<1>2. /\ p # <<>> /\ pipe'[t] = Tail(p) /\ log' = log
      /\ \A u \in Topics : u # t => pipe'[u] = pipe[u]
      /\ Sent(t) = l \o p /\ Sent(t)' = l \o Tail(p)
      /\ \A u \in Topics : u # t => Sent(u)' = Sent(u)
      /\ UNCHANGED <<epoch, periodic>>
      /\ produceFailed' = (produceFailed \/ Head(p).by = epoch)
  BY DEF ProduceFails, Sent, Inv, Published
<1>3. p \in Seq(S) /\ l \in Seq(S)
  BY <1>1
<1>4. \A i \in 1..Len(p) : p[i].epoch = epoch => p[i].by = epoch
  BY DEF Flow, Messages
<1>5. \A i \in 1..Len(l \o p) : (l \o p)[i].epoch <= epoch
  BY <1>2 DEF Flow, Messages
<1>. HIDE DEF p, l
<1>6. /\ Tail(p) \in Seq(S) /\ Head(p) = p[1] /\ 1 \in 1..Len(p)
      /\ \A i \in 1..Len(Tail(p)) : i + 1 \in 1..Len(p) /\ Tail(p)[i] = p[i + 1]
  BY <1>2, <1>3
<1>7. Shorter(l \o Tail(p), l \o p, Len(l) + 1) /\ (l \o p)[Len(l) + 1] = Head(p)
  <2>1. /\ Len(l \o p) = Len(l) + Len(p) /\ Len(l \o Tail(p)) = Len(l) + Len(Tail(p))
        /\ Len(Tail(p)) = Len(p) - 1 /\ Len(l) \in Nat /\ Len(p) \in Nat /\ Len(p) >= 1
    BY <1>2, <1>3
  <2>2. ASSUME NEW i \in 1..Len(l) PROVE (l \o Tail(p))[i] = (l \o p)[i]
    BY <1>2, <1>3
  <2>3. ASSUME NEW i \in (Len(l) + 1)..Len(l \o Tail(p))
        PROVE  (l \o Tail(p))[i] = (l \o p)[i + 1]
    <3>1. i - Len(l) \in 1..Len(Tail(p)) /\ (i + 1) - Len(l) = (i - Len(l)) + 1 /\ i > Len(l)
          /\ i \in 1..Len(l \o Tail(p)) /\ i + 1 \in 1..Len(l \o p) /\ i + 1 > Len(l)
      BY <2>1
    <3>2. (l \o Tail(p))[i] = Tail(p)[i - Len(l)]
      <4>1. i \in 1..(Len(l) + Len(Tail(p))) /\ ~(i <= Len(l))
        BY <2>1, <3>1
      <4>. QED  BY <1>3, <1>6, <4>1, ConcatProperties
    <3>3. (l \o p)[i + 1] = p[(i + 1) - Len(l)]
      <4>1. i + 1 \in 1..(Len(l) + Len(p)) /\ ~(i + 1 <= Len(l))
        BY <2>1, <3>1
      <4>. QED  BY <1>3, <4>1, ConcatProperties
    <3>. QED  BY <1>6, <3>1, <3>2, <3>3
  <2>4. (l \o p)[Len(l) + 1] = p[1]
    BY <1>3, <2>1
  <2>5. Len(l) + 1 \in 1..Len(l \o p) /\ Len(l \o Tail(p)) = Len(l \o p) - 1 /\ Len(l \o p) \in Nat
        /\ (Len(l) + 1) - 1 = Len(l)
    BY <2>1
  <2>. QED  BY <1>6, <2>2, <2>3, <2>4, <2>5 DEF Shorter
<1>8. ASSUME NEW i \in 1..Len(l \o Tail(p)) PROVE (l \o Tail(p))[i].epoch <= epoch
  <2>1. i \in 1..Len(l) \/ i \in (Len(l) + 1)..Len(l \o Tail(p))
    BY <1>3
  <2>2. i \in 1..Len(l \o p) /\ i + 1 \in 1..Len(l \o p)
    BY <1>7 DEF Shorter
  <2>3. i \in 1..Len(l) => i \in 1..((Len(l) + 1) - 1)
    BY <1>3
  <2>. QED  BY <1>5, <1>7, <2>1, <2>2, <2>3 DEF Shorter
<1>9. Loses(t)
  BY <1>2, <1>7, <1>8 DEF Loses, p, l
<1>10. Messages'
  <2>1. \A u \in Topics : \A i \in 1..Len(pipe'[u]) : pipe'[u][i].epoch = epoch => pipe'[u][i].by = epoch
    <3>1. \A i \in 1..Len(pipe'[t]) : pipe'[t][i].epoch = epoch => pipe'[t][i].by = epoch
      BY <1>2, <1>4, <1>6
    <3>2. \A u \in Topics : u # t =>
            \A i \in 1..Len(pipe'[u]) : pipe'[u][i].epoch = epoch => pipe'[u][i].by = epoch
      BY <1>2 DEF Flow, Messages
    <3>. QED  BY <3>1, <3>2
  <2>2. log'["deltas"] \in Seq(DeltaMsgs) /\ pipe'["deltas"] \in Seq(DeltaMsgs)
    BY <1>1, <1>2, <1>6 DEF Flow, Messages, Topics
  <2>3. \A u \in Topics : \A i \in 1..Len(Sent(u)') : Sent(u)'[i].epoch <= epoch
    BY <1>2, <1>9 DEF Loses, Flow, Messages
  <2>. QED  BY <1>2, <2>1, <2>2, <2>3 DEF Flow, Messages
<1>11. produceFailed' = FALSE => Head(p).epoch # epoch
  BY <1>2, <1>4, <1>6
<1>. QED  BY <1>9, <1>10, <1>11 DEF p

LEMMA ProduceFailsKeepsFlow ==
  ASSUME Inv, Flow, NEW t \in Topics, ProduceFails(t)
  PROVE  Flow'
<1>1. /\ UNCHANGED <<market, epoch, periodic, applier>> /\ SameProgress
      /\ produceFailed' = FALSE => produceFailed = FALSE
  BY DEF ProduceFails, SameProgress, venueVars, ctxVars, fetchVars, Flow, Messages
<1>2. /\ Loses(t) /\ Messages'
      /\ produceFailed' = FALSE => Head(pipe[t]).epoch # epoch
  BY ProduceFailsLoses
<1>3. ASSUME produceFailed' = FALSE
      PROVE  /\ Unbroken(Sent("deltas"), Sent("snapshots"), epoch)' /\ Moving'
  <2>1. Unbroken(Sent("deltas"), Sent("snapshots"), epoch) /\ Moving
    BY <1>1, <1>3 DEF Flow, Whole
  <2>2. CASE t = "deltas"
    <3>1. Sent("snapshots")' = Sent("snapshots")
      BY <1>2, <2>2 DEF Loses, Topics
    <3>2. /\ Unbroken(Sent("deltas")', Sent("snapshots"), epoch)
          /\ \A n : Rebuilds(Sent("deltas"), Sent("snapshots"), epoch, n)
               => Rebuilds(Sent("deltas")', Sent("snapshots"), epoch, n)
          /\ Of(Sent("deltas")', epoch) = {} <=> Of(Sent("deltas"), epoch) = {}
      BY <1>2, <1>3, <2>1, <2>2, FewerDeltas DEF Loses
    <3>. QED  BY <1>1, <2>1, <3>1, <3>2 DEF Moving, Synced, Continues, Spot, SameProgress
  <2>3. CASE t = "snapshots"
    <3>1. Sent("deltas")' = Sent("deltas")
      BY <1>2, <2>3 DEF Loses, Topics
    <3>2. Holds(Sent("snapshots")', Sent("snapshots"), epoch)
      BY <1>2, <1>3, <2>3, FewerHolds DEF Loses
    <3>3. /\ Unbroken(Sent("deltas"), Sent("snapshots")', epoch)
          /\ \A n : Rebuilds(Sent("deltas"), Sent("snapshots"), epoch, n)
               => Rebuilds(Sent("deltas"), Sent("snapshots")', epoch, n)
      BY <2>1, <3>2, MoreSnapshots
    <3>. QED  BY <1>1, <2>1, <3>1, <3>3 DEF Moving, Synced, Continues, Spot, SameProgress
  <2>. QED  BY <2>2, <2>3 DEF Topics
<1>4. ASSUME Of(Sent("deltas"), epoch) = {} PROVE Of(Sent("deltas")', epoch) = {}
  <2>1. CASE t = "deltas"
    BY <1>2, <1>4, <2>1, NoneLeft DEF Loses
  <2>2. CASE t # "deltas"
    BY <1>2, <1>4, <2>2 DEF Loses, Topics
  <2>. QED  BY <2>1, <2>2
<1>5. Quiet' /\ Anchored'
  BY <1>1, <1>4 DEF Flow, Quiet, Anchored, Spot, SameProgress
<1>6. Whole'
  BY <1>3 DEF Whole
<1>. QED  BY <1>2, <1>5, <1>6 DEF Flow

LEMMA StepKeepsFlow ==
  ASSUME Inv, Flow, [Next]_vars
  PROVE  Flow'
<1>1. CASE UNCHANGED vars
  BY <1>1, FlowStays DEF vars, SameMessages, SameProgress
<1>. QED  BY <1>1, OthersKeepFlow, ConnectKeepsFlow, LifecycleKeepsFlow, ApplyKeepsFlow,
             BufferingKeepsFlow, SnapshotSentKeepsFlow, DeltaSentKeepsFlow, TickKeepsFlow,
             PeriodicSentKeepsFlow, DeliverKeepsFlow, ProduceFailsKeepsFlow
          DEF Next

LEMMA InitFlow ==
  ASSUME Init
  PROVE  Flow
<1>1. /\ log["deltas"] = <<>> /\ pipe["deltas"] = <<>> /\ <<>> \in Seq(DeltaMsgs)
      /\ \A t \in Topics : Sent(t) = <<>> /\ pipe[t] = <<>>
      /\ Len(<<>>) = 0 /\ 1..0 = {}
  BY DEF Init, Sent, Topics
<1>2. Messages
  <2>1. periodic.epoch <= epoch /\ produceFailed \in BOOLEAN
    <3>1. periodic = NoMsg /\ epoch = 0 /\ produceFailed = FALSE
      BY DEF Init
    <3>2. NoMsg.epoch = 0
      BY DEF NoMsg
    <3>3. 0 <= 0
      OBVIOUS
    <3>. QED  BY <3>1, <3>2, <3>3
  <2>2. ASSUME NEW t \in Topics
        PROVE  /\ \A i \in 1..Len(Sent(t)) : Sent(t)[i].epoch <= epoch
               /\ \A i \in 1..Len(pipe[t]) : pipe[t][i].epoch = epoch => pipe[t][i].by = epoch
    BY <1>1
  <2>. QED  BY <1>1, <2>1, <2>2 DEF Messages
<1>3. Sent("deltas") = <<>>
  BY <1>1 DEF Topics
<1>4. Of(<<>>, epoch) = {}
  BY <1>1 DEF Of
<1>. QED  BY <1>2, <1>3, <1>4 DEF Init, Flow, Quiet, Anchored, Whole, Unbroken, Moving

(* base_ingester.py, _emit, for every instance of both drivers: as long as   *)
(* no failed produce of this connection is being reported, what it has sent  *)
(* rebuilds the live book, whatever else was lost, late or sent by an        *)
(* earlier connection.                                                       *)
THEOREM WhatWasSentRebuilds == Spec => []NoSilentGap
<1>1. ASSUME Inv, Flow PROVE NoSilentGap
  <2>. SUFFICES ASSUME produceFailed = FALSE PROVE NoSilentGap
    BY <1>1 DEF NoSilentGap, Flow, Messages
  <2>1. Unbroken(Sent("deltas"), Sent("snapshots"), epoch) /\ Moving
    BY <1>1 DEF Flow, Whole
  <2>2. OfEpoch("deltas") = Of(Sent("deltas"), epoch)
        /\ OfEpoch("snapshots") = Of(Sent("snapshots"), epoch)
    BY DEF OfEpoch, Of
  <2>3. ASSUME NEW i \in OfEpoch("deltas"), i < Len(Sent("deltas"))
        PROVE  i + 1 \in OfEpoch("deltas")
    <3>1. i \in 1..Len(Sent("deltas"))
      BY DEF OfEpoch
    <3>2. log["deltas"] \in Seq(DeltaMsgs) /\ pipe["deltas"] \in Seq(DeltaMsgs)
      BY <1>1 DEF Flow, Messages
    <3>3. Len(Sent("deltas")) \in Nat
      <4>1. Sent("deltas") \in Seq(DeltaMsgs)
        BY <3>2, ConcatProperties DEF Sent
      <4>. QED  BY <4>1
    <3>4. i + 1 \in i..Len(Sent("deltas"))
      BY <2>3, <3>1, <3>3
    <3>. QED  BY <2>1, <2>2, <2>3, <3>4 DEF Unbroken
  <2>. QED  BY <2>1, <2>2, <2>3 DEF NoSilentGap, Unbroken, Based, Moving, Rebuilds
<1>. QED  BY <1>1, Invariance, InitFlow, StepKeepsFlow, PTL DEF Spec
=============================================================================
