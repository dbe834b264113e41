---------------------------- MODULE GatewayBook ----------------------------
(***************************************************************************)
(* One stream through the gateway: the producer appends its snapshots and    *)
(* its deltas to two topics, and the gateway's consumer, which has no order  *)
(* between the two, feeds them to the Aggregator.                            *)
(*                                                                           *)
(* The producer is the ingester as the logs show it: a connection starts     *)
(* with a snapshot at sequence 0 of a new epoch (coinbase and kraken restart *)
(* their counters; binance's ids, which go on, are the easier case), every   *)
(* delta moves the book to an uncrossed one, snapshots are re-emitted at the *)
(* current sequence.  A delta whose produce fails is lost from the topic,    *)
(* and the deltas pipelined behind it may still arrive.                      *)
(***************************************************************************)
EXTENDS Aggregator, FiniteSets

CONSTANTS
  MaxEpochs,      \* bound: connections of the producer
  MaxSeq,         \* bound: deltas per connection
  MaxResnapshots, \* bound: periodic snapshots over the run
  MaxLost,        \* bound: deltas whose produce failed
  FirstBooks      \* the books a connection may start from

VARIABLES
  hist,      \* hist[e][n + 1]: the producer's book at sequence n of connection e
  snapLog,   \* topic md.book.<exchange>.<symbol>.snapshots
  deltaLog,  \* topic md.book.<exchange>.<symbol>.deltas
  lost,      \* {[epoch, seq]}: deltas the broker never got
  si, di,    \* messages of each topic the gateway has consumed
  agg        \* the Aggregator's entries for this stream

vars == <<hist, snapLog, deltaLog, lost, si, di, agg>>

Epoch == Len(hist)
Seqno == Len(hist[Epoch]) - 1
Current == hist[Epoch][Seqno + 1]
Resnapshots == Len(snapLog) - Epoch

Books == [bids : Side, asks : Side]

\* book.py raises on a snapshot that crosses.
ASSUME GatewayAssumption ==
  /\ {MaxEpochs, MaxSeq, MaxResnapshots, MaxLost} \subseteq Nat
  /\ FirstBooks \subseteq {b \in Books : ~CrossedOrLocked(b)}

Snapshot(e, n, b) == [epoch |-> e, seq |-> n, bids |-> b.bids, asks |-> b.asks]

Init == /\ hist = <<>> /\ snapLog = <<>> /\ deltaLog = <<>> /\ lost = {}
        /\ si = 0 /\ di = 0
        /\ agg = NewStream

\* A connection comes up: a new epoch, its sequence restarted, its first
\* snapshot on the snapshots topic.
Connect ==
  /\ Epoch < MaxEpochs
  /\ \E b \in FirstBooks :
       /\ hist' = Append(hist, <<b>>)
       /\ snapLog' = Append(snapLog, Snapshot(Epoch + 1, 0, b))
  /\ UNCHANGED <<deltaLog, lost, si, di, agg>>

\* One changed level, on either side, to or from nothing.
Changes == {[bids |-> f, asks |-> <<>>] : f \in UNION {[{p} -> Sizes \cup {NoSize}] : p \in Prices}}
           \cup {[bids |-> <<>>, asks |-> f] : f \in UNION {[{p} -> Sizes \cup {NoSize}] : p \in Prices}}

Moved(b, c) == [bids |-> ApplyLevels(b.bids, c.bids), asks |-> ApplyLevels(b.asks, c.asks)]

PublishDelta ==
  /\ Epoch > 0 /\ Seqno < MaxSeq
  /\ \E c \in Changes :
       LET b == Moved(Current, c)
           d == [epoch |-> Epoch, seq |-> Seqno + 1, bids |-> c.bids, asks |-> c.asks]
       IN  /\ b # Current /\ ~CrossedOrLocked(b)
           /\ hist' = [hist EXCEPT ![Epoch] = Append(@, b)]
           /\ \/ deltaLog' = Append(deltaLog, d) /\ lost' = lost
              \/ /\ Cardinality(lost) < MaxLost
                 /\ lost' = lost \cup {[epoch |-> Epoch, seq |-> Seqno + 1]}
                 /\ deltaLog' = deltaLog
  /\ UNCHANGED <<snapLog, si, di, agg>>

\* _snapshot_loop re-emits the current book at its current sequence.
PublishSnapshot ==
  /\ Epoch > 0 /\ Resnapshots < MaxResnapshots
  /\ snapLog' = Append(snapLog, Snapshot(Epoch, Seqno, Current))
  /\ UNCHANGED <<hist, deltaLog, lost, si, di, agg>>

After(d, s) == d.epoch > s.epoch \/ (d.epoch = s.epoch /\ d.seq > s.seq)

\* planWarmStart, of a gateway that starts on logs already written: what it had in
\* memory is gone, so a restart is a late start.  The snapshots are sought to the
\* latest one and the deltas to the lookback, which reaches behind it; with no
\* snapshot inside the lookback the snapshots are sought to the live edge.
WarmStart ==
  /\ agg = NewStream /\ si = 0 /\ di = 0 /\ snapLog # <<>>
  /\ di' \in 0..Len(deltaLog)
  /\ \/ /\ si' = Len(snapLog) - 1
        /\ \A i \in 1..di' : ~After(deltaLog[i], snapLog[Len(snapLog)])
     \/ si' = Len(snapLog)
  /\ UNCHANGED <<hist, snapLog, deltaLog, lost, agg>>

ConsumeSnapshot ==
  /\ si < Len(snapLog)
  /\ si' = si + 1
  /\ agg' = ApplySnapshot(agg, snapLog[si + 1])
  /\ UNCHANGED <<hist, snapLog, deltaLog, lost, di>>

ConsumeDelta ==
  /\ di < Len(deltaLog)
  /\ di' = di + 1
  /\ agg' = ApplyDelta(agg, deltaLog[di + 1])
  /\ UNCHANGED <<hist, snapLog, deltaLog, lost, si>>

Next == \/ Connect \/ PublishDelta \/ PublishSnapshot
        \/ WarmStart \/ ConsumeSnapshot \/ ConsumeDelta

Spec == Init /\ [][Next]_vars

----------------------------------------------------------------------------
\* Properties

Levels(book) == [bids |-> book.bids, asks |-> book.asks]

BookOf(book) == hist[book.epoch][book.seq + 1]

Ordered(q) == \A i, j \in 1..Len(q) : i < j /\ q[i].epoch = q[j].epoch => q[i].seq < q[j].seq

(* The aggregator's entries have their shape; a pending delta belongs to no  *)
(* book yet, and the applied tail is the book's own epoch, in order, and     *)
(* never ahead of the book it was applied to.                                *)
TypeOK ==
  /\ agg.book.seq \in -1..MaxSeq /\ agg.book.epoch \in 0..MaxEpochs
  /\ Levels(agg.book) \in Books
  /\ Len(agg.pending) <= MAX_PENDING_DELTAS /\ Len(agg.tail) <= MAX_APPLIED_TAIL
  /\ \A i \in 1..Len(agg.pending) : NoBookFor(agg, agg.pending[i])
  /\ \A i \in 1..Len(agg.tail) : /\ agg.tail[i].epoch = agg.book.epoch
                                 /\ agg.tail[i].seq <= agg.book.seq
  /\ Ordered(agg.pending) /\ Ordered(agg.tail)

(* aggregator.ts, class header: whatever order the two topics are consumed   *)
(* in, the book is a book the producer really had, at the epoch and sequence *)
(* it carries.  For a stream that lost nothing.                              *)
BookIsTheProducers ==
  lost = {} /\ agg.book.seq >= 0
     => /\ agg.book.epoch \in 1..Epoch /\ agg.book.seq < Len(hist[agg.book.epoch])
        /\ Levels(agg.book) = BookOf(agg.book)

(* No delta is left behind: once both topics are read to their end, from     *)
(* wherever the gateway started and was given a snapshot, the book is the    *)
(* producer's latest, and nothing of its epoch still waits.                  *)
ReadToTheEndMeansCurrent ==
  lost = {} /\ agg.book.seq >= 0 /\ si = Len(snapLog) /\ di = Len(deltaLog)
     => /\ agg.book.epoch = Epoch /\ agg.book.seq = Seqno
        /\ \A i \in 1..Len(agg.pending) : agg.pending[i].epoch # Epoch

(* The last BBO handed to md.bbo and to new WS clients is the top of the     *)
(* book whenever the book has both sides, through drains, heals and skips.   *)
BboIsTop == agg.book.seq >= 0 /\ TwoSided(agg.book) => agg.bbo = Top(agg.book)

(* book.ts and the MAX_APPLIED_TAIL comment: a re-snapshot taken to heal a   *)
(* crossed book leaves the producer's book behind, not one with a level the  *)
(* rewound deltas had deleted, unless a delta after the snapshot was lost or *)
(* the heal was counted as an underrun.                                      *)
HealRestoresTheBook ==
  [][ LET s == snapLog[si + 1]
      IN  (/\ si' = si + 1
           /\ agg.book.seq >= 0 /\ Crossed(agg.book) /\ StaleReSnapshot(agg.book, s)
           /\ agg'.underruns = agg.underruns
           /\ \A l \in lost : ~(l.epoch = s.epoch /\ l.seq > s.seq))
          => Levels(agg'.book) = BookOf(agg'.book)
    ]_vars

(* A heal gives back only what the deltas it rewinds past say: the book      *)
(* never ends below the sequence it had reached, whatever was lost and even  *)
(* when the heal is counted as an underrun.                                  *)
HealKeepsProgress ==
  [][agg'.book.epoch = agg.book.epoch => agg'.book.seq >= agg.book.seq]_vars

(* The stream implements the view it promises.                               *)
View == INSTANCE StreamView WITH
  view <- IF agg.book.seq < 0 THEN [epoch |-> 0, seq |-> 0, book |-> <<>>]
          ELSE [epoch |-> agg.book.epoch, seq |-> agg.book.seq, book |-> Levels(agg.book)]

ImplementsView == View!Spec
=============================================================================
