------------------------- MODULE GatewayBookProofs -------------------------
(***************************************************************************)
(* One stream through the aggregator, for any books, topics, sizes of queue  *)
(* and tail, any losses and any order in which the two topics are read.      *)
(*                                                                           *)
(* That the book is the producer's is not inductive.  A delta is taken when  *)
(* it is newer than the book, not when it is the next one, so nothing may be *)
(* missing between: every delta read is in the book or waits for it          *)
(* (Accounts).  A heal starts over from an older snapshot, so what it has to *)
(* put back must be in the tail, or known to be shed (Recalled).  The two    *)
(* topics must hold the producer's own messages, and the entries must fit    *)
(* what was read of them (Shape).  Then, with nothing lost, the book is the  *)
(* producer's (Truth).                                                       *)
(*                                                                           *)
(* Shape needs no hypothesis, and with it hold TypeOK, BboIsTop and          *)
(* HealKeepsProgress.  The rest is about a pending queue that does not       *)
(* overflow (Roomy): one that does drops deltas the book then never gets.    *)
(***************************************************************************)
EXTENDS GatewayBook, SequenceTheorems, FiniteSetTheorems, TLAPS

Ops == UNION {[P -> Sizes \cup {NoSize}] : P \in SUBSET Prices}
Deltas == [epoch : Nat, seq : Nat, bids : Ops, asks : Ops]
Snapshots == [epoch : Nat, seq : Nat, bids : Side, asks : Side]
BookRecords == [bids : Side, asks : Side, seq : Nat \cup {-1}, epoch : Nat]
Marks == [epoch : Nat, seq : Nat \cup {-1}]

\* The entries of a stream that has read the deltas D.
Streams(D, bbo) ==
  [book : BookRecords, pending : Seq(D), tail : Seq(D), evicted : Marks,
   bbo : {bbo}, underruns : Nat]

\* The tail is what was applied to the book last, in order, behind what was shed.
GoodTail(a) ==
  /\ Len(a.tail) <= MAX_APPLIED_TAIL
  /\ \A i \in 1..Len(a.tail) : a.tail[i].epoch = a.book.epoch /\ a.tail[i].seq <= a.book.seq
  /\ Ordered(a.tail)
  /\ a.tail # <<>> => a.tail[Len(a.tail)].seq = a.book.seq
  /\ \/ a.evicted = None
     \/ /\ a.evicted.epoch = a.book.epoch /\ a.tail # <<>>
        /\ \A i \in 1..Len(a.tail) : a.evicted.seq < a.tail[i].seq

\* The entries of a stream that has read the deltas D, in good order.
Stream(D, bbo, a) == D \subseteq Deltas /\ a \in Streams(D, bbo) /\ GoodTail(a)

\* A heal either replays the delta or is counted as an underrun.
Recalls(a, d) ==
  \/ \E i \in 1..Len(a.tail) : a.tail[i] = d
  \/ a.evicted.epoch = d.epoch /\ d.seq <= a.evicted.seq

\* d moves the books h to the next one; b's number is one of h's; and b is the
\* book of that number.
FitsIn(h, d) ==
  /\ d.epoch \in 1..Len(h) /\ d.seq \in 1..(Len(h[d.epoch]) - 1)
  /\ h[d.epoch][d.seq + 1] = Moved(h[d.epoch][d.seq], d)
RealIn(h, b) == b.epoch \in 1..Len(h) /\ b.seq \in 0..(Len(h[b.epoch]) - 1)
RightIn(h, b) == RealIn(h, b) /\ Levels(b) = h[b.epoch][b.seq + 1]

Fits(d) == FitsIn(hist, d)
Real(b) == RealIn(hist, b)
Right(b) == RightIn(hist, b)

Before(d, x) == d.epoch < x.epoch \/ (d.epoch = x.epoch /\ d.seq < x.seq)

\* The producer's books, and what its two topics hold of them.
HistIn(h) ==
  /\ h \in Seq(Seq(Books)) /\ Len(h) <= MaxEpochs
  /\ \A e \in 1..Len(h) : Len(h[e]) \in 1..(MaxSeq + 1)
  /\ \A e \in 1..Len(h) : \A n \in 1..Len(h[e]) : ~CrossedOrLocked(h[e][n])

DeltasIn(h, q, l) ==
  /\ q \in Seq(Deltas)
  /\ \A i \in 1..Len(q) : FitsIn(h, q[i])
  /\ \A i, j \in 1..Len(q) : i < j => Before(q[i], q[j])
  /\ \A e \in 1..Len(h) : \A n \in 1..(Len(h[e]) - 1) :
       \/ [epoch |-> e, seq |-> n] \in l
       \/ \E i \in 1..Len(q) : q[i].epoch = e /\ q[i].seq = n

SnapsIn(h, q) ==
  /\ q \in Seq(Snapshots)
  /\ \A j \in 1..Len(q) : RightIn(h, q[j])
  /\ \A i, j \in 1..Len(q) : i < j => ~After(q[i], q[j])
  /\ Len(h) > 0 => Len(q) > 0 /\ q[Len(q)].epoch = Len(h)

LogsOK == HistIn(hist) /\ DeltasIn(hist, deltaLog, lost) /\ SnapsIn(hist, snapLog)

\* What was said of the books h stays true of the books g.
More(h, g) ==
  /\ \A x : RealIn(h, x) => RealIn(g, x)
  /\ \A x : RightIn(h, x) => RightIn(g, x)
  /\ \A x : FitsIn(h, x) => FitsIn(g, x)

\* The producer only adds.
Grown ==
  /\ More(hist, hist') /\ lost \subseteq lost'
  /\ Len(deltaLog) <= Len(deltaLog')
  /\ \A i \in 1..Len(deltaLog) : deltaLog'[i] = deltaLog[i]
  /\ Len(snapLog) <= Len(snapLog')
  /\ \A j \in 1..Len(snapLog) : snapLog'[j] = snapLog[j]
  /\ \A j \in (Len(snapLog) + 1)..Len(snapLog') :
       \A x : RealIn(hist, x) => ~After(x, snapLog'[j])

Read == {deltaLog[i] : i \in 1..di}

\* No snapshot still to come says less than the delta did.
Passed(d) == \A j \in (si + 1)..Len(snapLog) : ~After(d, snapLog[j])

GateOK ==
  /\ si \in 0..Len(snapLog) /\ di \in 0..Len(deltaLog)
  /\ Stream(Read, agg.bbo, agg)
  /\ Ordered(agg.pending) /\ Len(agg.pending) <= di
  /\ Len(agg.pending) <= MAX_PENDING_DELTAS
  /\ \A i \in 1..Len(agg.pending) : NoBookFor(agg, agg.pending[i])
  /\ agg.book.seq < 0 => agg = [NewStream EXCEPT !.pending = agg.pending]
  /\ agg.book.seq >= 0 =>
       /\ Real(agg.book)
       /\ si >= 1 /\ snapLog[si].epoch = agg.book.epoch /\ snapLog[si].seq <= agg.book.seq
       /\ agg.tail = <<>> => Passed(agg.book)
  /\ BboIsTop

\* Every delta read is in the book, waits for its own, or is of no more use.
Reached(d) == agg.book.seq >= 0 /\ ~After(d, agg.book)
Waiting(d) == \E i \in 1..Len(agg.pending) : agg.pending[i] = d
Accounts == \A d \in Read : Reached(d) \/ Waiting(d) \/ (agg.book.seq < 0 /\ Passed(d))
Recalled == \A d \in Read : agg.book.seq >= 0 /\ d.epoch = agg.book.epoch /\ d.seq <= agg.book.seq
                 => Recalls(agg, d) \/ Passed(d)
Truth == lost = {} /\ agg.book.seq >= 0 => Right(agg.book)

Shape == LogsOK /\ GateOK
Roomy == di < Len(deltaLog) => Len(agg.pending) < MAX_PENDING_DELTAS

\* The book after the first n of q, from b0: it only moves forward, past all of
\* b0's epoch, and to the producer's books if none is missing between.
Chained(b0, q) ==
  \A i \in 1..Len(q) : q[i].epoch = b0.epoch /\ q[i].seq > b0.seq =>
    /\ Fits(q[i])
    /\ \/ q[i].seq = b0.seq + 1
       \/ \E j \in 1..Len(q) : q[j].epoch = q[i].epoch /\ q[j].seq = q[i].seq - 1

Walked(b0, q, n, b) ==
  /\ b \in BookRecords /\ b.epoch = b0.epoch /\ b.seq >= b0.seq
  /\ \A j \in 1..n : q[j].epoch = b0.epoch => q[j].seq <= b.seq
  /\ \/ b = b0
     \/ \E j \in 1..n : q[j].epoch = b0.epoch /\ q[j].seq > b0.seq /\ b.seq = q[j].seq
  /\ Chained(b0, q) /\ Right(b0) => Right(b)

----------------------------------------------------------------------------
(* One delta *)

(* Changing levels of one side of a book leaves a side of a book.            *)
LEMMA LevelsStay ==
  ASSUME NEW side \in Side, NEW ops \in Ops
  PROVE  ApplyLevels(side, ops) \in Side
<1>1. \A p \in DOMAIN ops : ops[p] \in Sizes \cup {NoSize}
  BY DEF Ops
<1>. QED  BY <1>1 DEF ApplyLevels, Side

(* ApplyUnguarded, book.ts applyDelta past its guard: a book record again,   *)
(* at the delta's sequence and in the book's epoch.                          *)
LEMMA UnguardedType ==
  ASSUME NEW b \in BookRecords, NEW d \in Deltas
  PROVE  /\ ApplyUnguarded(b, d) \in BookRecords
         /\ ApplyUnguarded(b, d).seq = d.seq /\ ApplyUnguarded(b, d).epoch = b.epoch
         /\ ApplyUnguarded(b, d).bids = ApplyLevels(b.bids, d.bids)
         /\ ApplyUnguarded(b, d).asks = ApplyLevels(b.asks, d.asks)
<1>1. ApplyLevels(b.bids, d.bids) \in Side /\ ApplyLevels(b.asks, d.asks) \in Side
  BY LevelsStay DEF BookRecords, Deltas
<1>. QED  BY <1>1 DEF ApplyUnguarded, BookRecords, Deltas

\* What a taken delta leaves as it was, and what it adds.
TakenInto(D, bbo, a, d, r) ==
  /\ Stream(D, bbo, r) /\ Recalls(r, d) /\ r.tail # <<>>
  /\ r.book = ApplyUnguarded(a.book, d) /\ r.pending = a.pending
  /\ r.underruns = a.underruns
  /\ \A x \in Deltas : Recalls(a, x) => Recalls(r, x)

\* The stream after d moved the book and was recorded.
Taken(a, d) == RecordApplied([a EXCEPT !.book = ApplyUnguarded(@, d)], d)

(* recordApplied: the tail stays bounded, in order and up to the book; what  *)
(* a full tail sheds is covered by its mark, so a heal that still recalls a  *)
(* delta goes on recalling it.                                               *)
LEMMA RecordKeepsTail ==
  ASSUME NEW D, NEW bbo, NEW a, NEW d, Stream(D, bbo, a), d \in D,
         d.epoch = a.book.epoch, d.seq > a.book.seq
  PROVE  TakenInto(D, bbo, a, d, Taken(a, d))
<1>. DEFINE r == Taken(a, d)
<1>0. /\ D \subseteq Deltas /\ a \in Streams(D, bbo) /\ GoodTail(a)
      /\ a.book \in BookRecords /\ a.tail \in Seq(D) /\ a.evicted \in Marks
      /\ a.pending \in Seq(D) /\ a.underruns \in Nat /\ a.bbo = bbo /\ d \in Deltas
  BY DEF Stream, Streams
<1>3. Len(a.tail) \in Nat /\ Len(a.tail) <= MAX_APPLIED_TAIL
  BY SMTT(40), <1>0 DEF GoodTail
<1>4. \E off \in 0..Len(a.tail), kept \in Seq(D), mark \in Marks :
        /\ r = [a EXCEPT !.book = ApplyUnguarded(a.book, d), !.tail = Append(kept, d),
                         !.evicted = mark]
        /\ Len(kept) = Len(a.tail) - off /\ Len(kept) < MAX_APPLIED_TAIL
        /\ \A i \in 1..Len(kept) : kept[i] = a.tail[i + off]
        /\ \/ off = 0 /\ mark = a.evicted
           \/ off >= 1 /\ mark.epoch = a.tail[off].epoch /\ mark.seq = a.tail[off].seq
  <2>1. CASE Len(a.tail) >= MAX_APPLIED_TAIL
    <3>. DEFINE half == MAX_APPLIED_TAIL \div 2
                kept == SubSeq(a.tail, half + 1, Len(a.tail))
                mark == [epoch |-> a.tail[half].epoch, seq |-> a.tail[half].seq]
    <3>1. half \in Nat /\ 1 <= half /\ half < MAX_APPLIED_TAIL /\ MAX_APPLIED_TAIL \in Nat
      BY TailAssumption
    <3>2. r = [a EXCEPT !.book = ApplyUnguarded(a.book, d), !.tail = Append(kept, d),
                        !.evicted = mark]
      BY <2>1, <1>0 DEF Taken, RecordApplied, Streams
    <3>. HIDE DEF half
    <3>3. half \in 1..Len(a.tail) /\ half \in 0..Len(a.tail)
      BY <2>1, <3>1, <1>3
    <3>4. \A i \in (half + 1)..Len(a.tail) : a.tail[i] \in D
      BY <1>0, <3>1
    <3>5. half + 1 \in Int /\ Len(a.tail) \in Int
      BY <3>1, <1>3
    <3>. HIDE DEF kept
    <3>6. /\ kept \in Seq(D)
          /\ Len(kept) = IF half + 1 <= Len(a.tail) THEN Len(a.tail) - (half + 1) + 1 ELSE 0
          /\ \A i \in 1..(Len(a.tail) - (half + 1) + 1) : kept[i] = a.tail[half + 1 + i - 1]
      BY <3>4, <3>5, SubSeqProperties DEF kept
    <3>7. /\ Len(kept) = Len(a.tail) - half /\ Len(kept) < MAX_APPLIED_TAIL
          /\ \A i \in 1..Len(kept) : kept[i] = a.tail[i + half]
      BY <3>1, <3>3, <3>6, <1>3
    <3>8. mark \in Marks
      <4>1. a.tail[half] \in Deltas
        BY <3>3, <1>0
      <4>. QED  BY <4>1 DEF Marks, Deltas
    <3>. HIDE DEF mark
    <3>9. half >= 1 /\ mark.epoch = a.tail[half].epoch /\ mark.seq = a.tail[half].seq
      BY <3>1 DEF mark
    <3>. QED  BY <3>2, <3>3, <3>6, <3>7, <3>8, <3>9
  <2>2. CASE ~(Len(a.tail) >= MAX_APPLIED_TAIL)
    <3>1. r = [a EXCEPT !.book = ApplyUnguarded(a.book, d), !.tail = Append(a.tail, d),
                        !.evicted = a.evicted]
      BY <2>2, <1>0 DEF Taken, RecordApplied, Streams
    <3>2. /\ 0 \in 0..Len(a.tail) /\ Len(a.tail) = Len(a.tail) - 0 /\ Len(a.tail) < MAX_APPLIED_TAIL
          /\ \A i \in 1..Len(a.tail) : a.tail[i] = a.tail[i + 0]
      BY <2>2, <1>3, TailAssumption
    <3>. QED  BY <3>1, <3>2, <1>0
  <2>. QED  BY <2>1, <2>2
<1>5. PICK off, kept, mark :
        /\ off \in 0..Len(a.tail) /\ kept \in Seq(D) /\ mark \in Marks
        /\ r = [a EXCEPT !.book = ApplyUnguarded(a.book, d), !.tail = Append(kept, d),
                         !.evicted = mark]
        /\ Len(kept) = Len(a.tail) - off /\ Len(kept) < MAX_APPLIED_TAIL
        /\ \A i \in 1..Len(kept) : kept[i] = a.tail[i + off]
        /\ \/ off = 0 /\ mark = a.evicted
           \/ off >= 1 /\ mark.epoch = a.tail[off].epoch /\ mark.seq = a.tail[off].seq
  BY <1>4
<1>6. /\ off \in Nat /\ off <= Len(a.tail) /\ Len(kept) \in Nat /\ Len(a.tail) \in Nat
      /\ Len(kept) = Len(a.tail) - off /\ Len(kept) < MAX_APPLIED_TAIL /\ MAX_APPLIED_TAIL \in Nat
  BY <1>3, <1>5, TailAssumption
<1>7. /\ Append(kept, d) \in Seq(D) /\ Len(Append(kept, d)) = Len(kept) + 1
      /\ \A i \in 1..Len(kept) : Append(kept, d)[i] = kept[i]
      /\ Append(kept, d)[Len(kept) + 1] = d
  BY <1>0, <1>5, <1>6
<1>. HIDE DEF r
<1>. DEFINE tail == Append(kept, d)
<1>8. /\ r.book = ApplyUnguarded(a.book, d) /\ r.tail = tail /\ r.evicted = mark
      /\ r.pending = a.pending /\ r.underruns = a.underruns /\ r.bbo = a.bbo
  BY <1>5, <1>0 DEF Streams
<1>9. /\ r.book \in BookRecords /\ r.book.seq = d.seq /\ r.book.epoch = a.book.epoch
  BY <1>0, <1>8, UnguardedType
<1>10. r \in Streams(D, bbo)
  <2>1. r.book \in BookRecords /\ tail \in Seq(D) /\ mark \in Marks
    BY <1>5, <1>7, <1>8, <1>9
  <2>. HIDE DEF tail
  <2>2. r = [a EXCEPT !.book = r.book, !.tail = tail, !.evicted = mark]
    BY <1>5, <1>8
  <2>. QED  BY <1>0, <2>1, <2>2 DEF Streams
<1>. HIDE DEF tail
<1>11. /\ Len(tail) \in Nat /\ Len(tail) >= 1 /\ Len(tail) <= MAX_APPLIED_TAIL
       /\ Len(tail) = Len(a.tail) - off + 1
  BY <1>6, <1>7 DEF tail
<1>17. /\ tail[Len(tail)] = d /\ tail # <<>> /\ Len(tail) \in 1..Len(tail)
       /\ \A i \in 1..(Len(tail) - 1) : i + off \in 1..Len(a.tail) /\ tail[i] = a.tail[i + off]
  <2>1. tail # <<>> /\ Len(tail) \in 1..Len(tail)
    BY <1>7, <1>11
  <2>2. \A i \in 1..(Len(tail) - 1) : i \in 1..Len(kept) /\ i + off \in 1..Len(a.tail)
    BY <1>6, <1>11
  <2>3. \A i \in 1..Len(kept) : tail[i] = a.tail[i + off]
    BY <1>5, <1>7 DEF tail
  <2>4. tail[Len(tail)] = d
    BY <1>7 DEF tail
  <2>. QED  BY <2>1, <2>2, <2>3, <2>4
<1>18. \A i \in 1..Len(tail) : i \in Nat /\ (i = Len(tail) \/ (i < Len(tail) /\ i \in 1..(Len(tail) - 1)))
  BY <1>11
<1>12. \A i \in 1..Len(a.tail) : /\ a.tail[i] \in D /\ a.tail[i].epoch \in Nat /\ a.tail[i].seq \in Nat
                                 /\ a.tail[i].epoch = a.book.epoch /\ a.tail[i].seq <= a.book.seq
  <2>. TAKE i \in 1..Len(a.tail)
  <2>1. a.tail[i] \in D /\ a.tail[i] \in Deltas
    BY <1>0
  <2>. QED  BY <1>0, <2>1 DEF GoodTail, Deltas
<1>13. /\ d.seq \in Nat /\ d.epoch \in Nat /\ a.book.seq \in Int
       /\ a.evicted.epoch \in Nat /\ a.evicted.seq \in Int
  BY <1>0 DEF Deltas, BookRecords, Marks
<1>14. GoodTail(r)
  <2>1. Len(r.tail) <= MAX_APPLIED_TAIL
    BY <1>8, <1>11
  <2>2. ASSUME NEW i \in 1..Len(tail)
        PROVE  tail[i].epoch = r.book.epoch /\ tail[i].seq <= r.book.seq
    <3>1. CASE i = Len(tail)
      BY <3>1, <1>17, <1>9, <1>13
    <3>2. CASE i # Len(tail)
      <4>1. i \in 1..(Len(tail) - 1)
        BY <3>2, <1>18
      <4>2. i + off \in 1..Len(a.tail) /\ tail[i] = a.tail[i + off]
        BY <4>1, <1>17
      <4>. QED  BY <4>2, <1>9, <1>12, <1>13
    <3>. QED  BY <3>1, <3>2
  <2>3. ASSUME NEW i \in 1..Len(tail), NEW j \in 1..Len(tail), i < j
        PROVE  tail[i].seq < tail[j].seq
    <3>0. i \in 1..(Len(tail) - 1) /\ (j = Len(tail) \/ j \in 1..(Len(tail) - 1))
      BY <2>3, <1>18
    <3>1. CASE j = Len(tail)
      <4>1. i + off \in 1..Len(a.tail) /\ tail[i] = a.tail[i + off] /\ tail[j] = d
        BY <3>0, <3>1, <1>17
      <4>2. a.tail[i + off].seq \in Nat /\ a.tail[i + off].seq <= a.book.seq
        BY <4>1, <1>12
      <4>3. a.tail[i + off].seq < d.seq
        BY <4>2, <1>13
      <4>. QED  BY <4>1, <4>3
    <3>2. CASE j < Len(tail)
      <4>1. /\ i + off \in 1..Len(a.tail) /\ j + off \in 1..Len(a.tail)
            /\ tail[i] = a.tail[i + off] /\ tail[j] = a.tail[j + off]
        <5>1. j # Len(tail)
          BY <3>2, <1>11
        <5>. QED  BY <3>0, <5>1, <1>17
      <4>2. i + off < j + off
        BY <2>3, <1>6, <1>18
      <4>. QED  BY <4>1, <4>2, <1>0, <1>12 DEF GoodTail, Ordered
    <3>. QED  BY <3>0, <3>1, <3>2
  <2>4. mark = None \/ (mark.epoch = r.book.epoch /\ tail # <<>> /\ \A i \in 1..Len(tail) : mark.seq < tail[i].seq)
    <3>1. CASE off >= 1
      <4>1. off \in 1..Len(a.tail) /\ mark.epoch = a.tail[off].epoch /\ mark.seq = a.tail[off].seq
        BY <3>1, <1>5, <1>6
      <4>2. ASSUME NEW i \in 1..Len(tail) PROVE a.tail[off].seq < tail[i].seq
        <5>1. CASE i = Len(tail)
          <6>1. a.tail[off].seq \in Nat /\ a.tail[off].seq <= a.book.seq
            BY <4>1, <1>12
          <6>. QED  BY <5>1, <6>1, <1>13, <1>17
        <5>2. CASE i < Len(tail)
          <6>0. i \in 1..(Len(tail) - 1) /\ i \in Nat /\ i >= 1
            BY <5>2, <1>11, <1>18
          <6>1. i + off \in 1..Len(a.tail) /\ tail[i] = a.tail[i + off] /\ off < i + off
            BY <6>0, <1>6, <1>17
          <6>. QED  BY <4>1, <6>1, <1>0, <1>12 DEF GoodTail, Ordered
        <5>. QED  BY <5>1, <5>2, <1>18
      <4>. QED  BY <4>1, <4>2, <1>9, <1>12, <1>17
    <3>2. CASE off = 0
      <4>1. mark = a.evicted
        BY <3>2, <1>5
      <4>2. CASE a.evicted = None
        BY <4>1, <4>2
      <4>3. CASE a.evicted # None
        <5>1. /\ a.evicted.epoch = a.book.epoch /\ a.tail # <<>>
              /\ \A i \in 1..Len(a.tail) : a.evicted.seq < a.tail[i].seq
          BY <1>0, <4>3 DEF GoodTail
        <5>2. a.evicted.seq < d.seq
          <6>1. Len(a.tail) \in 1..Len(a.tail)
            BY <5>1, <1>0, <1>3
          <6>. QED  BY <5>1, <6>1, <1>12, <1>13
        <5>3. \A i \in 1..Len(tail) : mark.seq < tail[i].seq
          <6>. TAKE i \in 1..Len(tail)
          <6>1. CASE i = Len(tail)
            BY <4>1, <5>2, <6>1, <1>17
          <6>2. CASE i < Len(tail)
            <7>1. i + off \in 1..Len(a.tail) /\ tail[i] = a.tail[i + off]
              BY <6>2, <1>11, <1>17, <1>18
            <7>. QED  BY <4>1, <5>1, <7>1
          <6>. QED  BY <6>1, <6>2, <1>18
        <5>. QED  BY <4>1, <5>1, <5>3, <1>9, <1>17
      <4>. QED  BY <4>2, <4>3
    <3>. QED  BY <3>1, <3>2, <1>6
  <2>. QED  BY <2>1, <2>2, <2>3, <2>4, <1>8, <1>9, <1>17 DEF GoodTail, Ordered
<1>15. r.tail # <<>> /\ Recalls(r, d)
  BY <1>8, <1>17 DEF Recalls
<1>16. ASSUME NEW x \in Deltas, Recalls(a, x) PROVE Recalls(r, x)
  <2>0. x.epoch \in Nat /\ x.seq \in Nat
    BY DEF Deltas
  <2>1. ASSUME NEW i \in 1..Len(a.tail), a.tail[i] = x PROVE Recalls(r, x)
    <3>1. CASE i <= off
      <4>1. off >= 1 /\ off \in 1..Len(a.tail)
        BY <2>1, <3>1, <1>6
      <4>2. mark.epoch = a.book.epoch /\ x.epoch = a.book.epoch /\ x.seq <= mark.seq
        <5>1. mark.epoch = a.book.epoch /\ x.epoch = a.book.epoch
          BY <2>1, <4>1, <1>5, <1>12
        <5>2. x.seq <= a.tail[off].seq
          <6>1. i = off \/ i < off
            BY <2>1, <3>1, <4>1
          <6>2. i < off => x.seq < a.tail[off].seq
            BY <2>1, <4>1, <1>0, <1>12 DEF GoodTail, Ordered
          <6>. QED  BY <2>1, <4>1, <6>1, <6>2, <1>12
        <5>. QED  BY <4>1, <5>1, <5>2, <1>5
      <4>. QED  BY <4>2, <1>8 DEF Recalls
    <3>2. CASE i > off
      <4>1. i - off \in 1..(Len(tail) - 1) /\ i - off \in 1..Len(tail) /\ i - off + off = i
        BY <3>2, <1>6, <1>11
      <4>2. tail[i - off] = x
        BY <2>1, <4>1, <1>17
      <4>. QED  BY <4>1, <4>2, <1>8 DEF Recalls
    <3>. QED  BY <3>1, <3>2, <1>6
  <2>2. ASSUME a.evicted.epoch = x.epoch, x.seq <= a.evicted.seq PROVE Recalls(r, x)
    <3>1. CASE off >= 1
      <4>1. /\ mark.epoch = a.tail[off].epoch /\ mark.seq = a.tail[off].seq
            /\ off \in 1..Len(a.tail)
        BY <3>1, <1>5, <1>6
      <4>2. a.evicted # None
        BY <2>0, <2>2 DEF None
      <4>3. a.evicted.epoch = a.book.epoch /\ a.evicted.seq < a.tail[off].seq
        BY <1>0, <4>1, <4>2 DEF GoodTail
      <4>4. mark.epoch = x.epoch /\ x.seq <= mark.seq
        BY <2>0, <2>2, <4>1, <4>3, <1>12, <1>13
      <4>. QED  BY <4>4, <1>8 DEF Recalls
    <3>2. CASE off = 0
      BY <2>2, <3>2, <1>5, <1>8 DEF Recalls
    <3>. QED  BY <3>1, <3>2, <1>6
  <2>. QED  BY <1>16, <2>1, <2>2 DEF Recalls
<1>. QED  BY <1>0, <1>8, <1>10, <1>14, <1>15, <1>16 DEF TakenInto, Stream, r

(* Take: a delta at or below the book's sequence does nothing; any other     *)
(* moves the book and is recorded.                                           *)
LEMMA TakeKeepsTail ==
  ASSUME NEW D, NEW bbo, NEW a, NEW d, Stream(D, bbo, a), d \in D, d.epoch = a.book.epoch
  PROVE  \/ d.seq <= a.book.seq /\ Take(a, d) = a /\ BookDelta(a.book, d) = a.book
         \/ /\ d.seq > a.book.seq /\ TakenInto(D, bbo, a, d, Take(a, d))
            /\ BookDelta(a.book, d) = ApplyUnguarded(a.book, d)
<1>0. d.seq \in Nat /\ a.book.seq \in Int
  BY DEF Stream, Streams, Deltas, BookRecords
<1>1. CASE d.seq <= a.book.seq
  BY <1>1 DEF Take, BookDelta
<1>2. CASE d.seq > a.book.seq
  <2>1. Take(a, d) = Taken(a, d) /\ BookDelta(a.book, d) = ApplyUnguarded(a.book, d)
    BY <1>0, <1>2 DEF Take, Taken, BookDelta
  <2>2. TakenInto(D, bbo, a, d, Taken(a, d))
    BY <1>2, RecordKeepsTail
  <2>. QED  BY <1>2, <2>1, <2>2
<1>. QED  BY <1>0, <1>1, <1>2

(* A delta that fits moves the producer's book to the producer's next.       *)
LEMMA FitsMoves ==
  ASSUME NEW b \in BookRecords, Right(b), NEW d \in Deltas, Fits(d),
         d.epoch = b.epoch, d.seq = b.seq + 1
  PROVE  Right(ApplyUnguarded(b, d))
<1>. DEFINE r == ApplyUnguarded(b, d)
<1>1. /\ r.seq = d.seq /\ r.epoch = b.epoch
      /\ r.bids = ApplyLevels(b.bids, d.bids) /\ r.asks = ApplyLevels(b.asks, d.asks)
  BY UnguardedType
<1>. HIDE DEF r
<1>2. Real(r)
  BY <1>1 DEF Fits, FitsIn, Real, RealIn
<1>3. hist[b.epoch][b.seq + 1] = Levels(b)
  BY DEF Right, RightIn
<1>4. hist[d.epoch][d.seq + 1] = Moved(Levels(b), d)
  BY <1>3 DEF Fits, FitsIn
<1>5. Levels(r) = Moved(Levels(b), d)
  BY <1>1 DEF Moved, Levels
<1>. QED  BY <1>1, <1>2, <1>4, <1>5 DEF Right, RightIn, Real, r

(* One round of a loop of applyDelta over ordered deltas keeps Walked.       *)
LEMMA Walks ==
  ASSUME NEW D \in SUBSET Deltas, NEW b0 \in BookRecords, NEW q \in Seq(D), Ordered(q),
         NEW n \in 1..Len(q), NEW b, Walked(b0, q, n - 1, b)
  PROVE  Walked(b0, q, n, IF q[n].epoch = b0.epoch THEN BookDelta(b, q[n]) ELSE b)
<1>. DEFINE d == q[n]
            r == IF d.epoch = b0.epoch THEN BookDelta(b, d) ELSE b
<1>0. /\ d \in Deltas /\ \A j \in 1..Len(q) : q[j] \in Deltas
  OBVIOUS
<1>1. /\ b \in BookRecords /\ b.epoch = b0.epoch /\ b.seq >= b0.seq
      /\ d.seq \in Nat /\ d.epoch \in Nat /\ b.seq \in Nat \cup {-1} /\ b0.seq \in Nat \cup {-1}
      /\ \A j \in 1..Len(q) : q[j].seq \in Nat /\ q[j].epoch \in Nat
  BY <1>0 DEF Walked, BookRecords, Deltas
<1>2. /\ n \in Nat /\ Len(q) \in Nat /\ n - 1 \in Nat
      /\ \A j \in 1..n : j \in 1..Len(q) /\ (j = n \/ j \in 1..(n - 1))
      /\ \A j \in 1..(n - 1) : j \in 1..n /\ j # n /\ j < n
  OBVIOUS
<1>. HIDE DEF d
<1>3. CASE r = b /\ (d.epoch # b0.epoch \/ d.seq <= b.seq)
  <2>1. \A j \in 1..n : q[j].epoch = b0.epoch => q[j].seq <= b.seq
    BY <1>2, <1>3 DEF Walked, d
  <2>2. \/ b = b0
        \/ \E j \in 1..n : q[j].epoch = b0.epoch /\ q[j].seq > b0.seq /\ b.seq = q[j].seq
    BY <1>2 DEF Walked
  <2>. HIDE DEF r
  <2>3. Walked(b0, q, n, r)
    BY <1>1, <1>3, <2>1, <2>2 DEF Walked
  <2>. QED  BY <2>3 DEF r, d
<1>4. CASE r = ApplyUnguarded(b, d) /\ d.epoch = b0.epoch /\ d.seq > b.seq
  <2>1. r \in BookRecords /\ r.seq = d.seq /\ r.epoch = b0.epoch
    BY <1>0, <1>1, <1>4, UnguardedType
  <2>2. \A j \in 1..n : q[j].epoch = b0.epoch => q[j].seq <= r.seq
    <3>. TAKE j \in 1..n
    <3>. HAVE q[j].epoch = b0.epoch
    <3>1. CASE j = n
      BY <2>1, <3>1, <1>1 DEF d
    <3>2. CASE j # n
      <4>1. q[j].seq <= b.seq
        BY <3>2, <1>2 DEF Walked
      <4>. QED  BY <4>1, <1>1, <1>2, <1>4, <2>1
    <3>. QED  BY <3>1, <3>2
  <2>3. \E j \in 1..n : q[j].epoch = b0.epoch /\ q[j].seq > b0.seq /\ r.seq = q[j].seq
    <3>1. n \in 1..n /\ d.seq > b0.seq
      BY <1>1, <1>2, <1>4
    <3>. QED  BY <3>1, <2>1, <1>4 DEF d
  <2>4. ASSUME Chained(b0, q), Right(b0) PROVE Right(r)
    <3>1. Right(b)
      BY <2>4 DEF Walked
    <3>2. d.seq > b0.seq
      BY <1>1, <1>4
    <3>3. /\ Fits(d)
          /\ \/ d.seq = b0.seq + 1
             \/ \E j \in 1..Len(q) : q[j].epoch = d.epoch /\ q[j].seq = d.seq - 1
      BY <2>4, <3>2, <1>4 DEF Chained, d
    <3>4. d.seq <= b.seq + 1
      <4>1. CASE d.seq = b0.seq + 1
        BY <4>1, <1>1
      <4>2. ASSUME NEW j \in 1..Len(q), q[j].epoch = d.epoch, q[j].seq = d.seq - 1
            PROVE  d.seq <= b.seq + 1
        <5>1. j < n
          <6>1. CASE j = n
            BY <6>1, <4>2, <1>1 DEF d
          <6>2. CASE n < j
            <7>1. d.seq < q[j].seq
              BY <6>2, <4>2 DEF Ordered, d
            <7>. QED  BY <7>1, <4>2, <1>1
          <6>. QED  BY <6>1, <6>2, <1>2
        <5>2. j \in 1..(n - 1)
          BY <5>1, <1>2
        <5>3. q[j].seq <= b.seq
          BY <5>2, <4>2, <1>4 DEF Walked
        <5>. QED  BY <5>3, <4>2, <1>1
      <4>. QED  BY <3>3, <4>1, <4>2
    <3>5. d.seq = b.seq + 1
      BY <3>4, <1>1, <1>4
    <3>. QED  BY <3>1, <3>3, <3>5, <1>0, <1>1, <1>4, FitsMoves
  <2>. HIDE DEF r
  <2>5. r.seq >= b0.seq
    BY <1>1, <1>4, <2>1
  <2>6. Walked(b0, q, n, r)
    BY <2>1, <2>2, <2>3, <2>4, <2>5 DEF Walked
  <2>. QED  BY <2>6 DEF r, d
<1>5. \/ r = b /\ (d.epoch # b0.epoch \/ d.seq <= b.seq)
      \/ r = ApplyUnguarded(b, d) /\ d.epoch = b0.epoch /\ d.seq > b.seq
  BY <1>1 DEF BookDelta
<1>. QED  BY <1>3, <1>4, <1>5

----------------------------------------------------------------------------
(* The drain *)

\* What is held back of the first n of q: all that is in W, in order.
Held(q, n, W, held) ==
  /\ Ordered(held) /\ Len(held) <= n
  /\ \A i \in 1..Len(held) : \E j \in 1..n : q[j] = held[i] /\ q[j] \in W
  /\ \A j \in 1..n : q[j] \in W => \E i \in 1..Len(held) : held[i] = q[j]

\* The messages that are not of epoch e, and those a snapshot does not cover.
Others(e) == {d \in Deltas : d.epoch # e}
Newer(s) == {d \in Deltas : d.epoch = s.epoch /\ d.seq > s.seq}

\* A heal can still recall what the drain took, and what was recalled before.
Recorded(a0, q, n, x) ==
  /\ \A y \in Deltas : Recalls(a0, y) => Recalls(x, y)
  /\ \A j \in 1..n : q[j].epoch = a0.book.epoch /\ q[j].seq > a0.book.seq => Recalls(x, q[j])
  /\ x.tail = <<>> => a0.tail = <<>> /\ x.book = a0.book

Drained(D, bbo, a0, q, n, x) ==
  /\ Stream(D, bbo, x) /\ x.underruns = a0.underruns
  /\ Walked(a0.book, q, n, x.book) /\ Recorded(a0, q, n, x)
  /\ Held(q, n, Others(a0.book.epoch), x.pending)

(* One round of a loop that holds back the messages of W keeps Held.         *)
LEMMA HeldGrows ==
  ASSUME NEW D, NEW q, NEW n, NEW W, NEW held, D \subseteq Deltas, q \in Seq(D), held \in Seq(D),
         Ordered(q), n \in 1..Len(q), Held(q, n - 1, W, held)
  PROVE  Held(q, n, W, IF q[n] \in W THEN Append(held, q[n]) ELSE held)
<1>1. /\ n \in Nat /\ n - 1 \in Nat /\ Len(held) \in Nat /\ Len(held) <= n - 1
      /\ \A j \in 1..n : j \in 1..Len(q) /\ (j = n \/ j \in 1..(n - 1))
      /\ \A j \in 1..(n - 1) : j \in 1..n /\ j < n /\ j \in 1..Len(q)
      /\ n \in 1..n
  BY DEF Held
<1>2. CASE q[n] \notin W
  <2>1. Len(held) <= n
    BY <1>1
  <2>2. \A i \in 1..Len(held) : \E j \in 1..n : q[j] = held[i] /\ q[j] \in W
    BY <1>1 DEF Held
  <2>3. \A j \in 1..n : q[j] \in W => \E i \in 1..Len(held) : held[i] = q[j]
    BY <1>1, <1>2 DEF Held
  <2>. QED  BY <1>2, <2>1, <2>2, <2>3 DEF Held
<1>3. CASE q[n] \in W
  <2>. DEFINE r == Append(held, q[n])
  <2>1. /\ Len(r) = Len(held) + 1 /\ r[Len(held) + 1] = q[n] /\ Len(r) \in Nat
        /\ \A i \in 1..Len(held) : r[i] = held[i] /\ i \in 1..Len(r)
        /\ Len(r) \in 1..Len(r) /\ r[Len(r)] = q[n]
        /\ \A i \in 1..Len(r) : i = Len(r) \/ (i \in 1..Len(held) /\ i < Len(r))
    <3>1. q[n] \in D /\ Len(held) \in Nat
      BY <1>1
    <3>. QED  BY <3>1
  <2>. HIDE DEF r
  <2>2. Len(r) <= n
    BY <1>1, <2>1
  <2>3. \A i \in 1..Len(r) : \E j \in 1..n : q[j] = r[i] /\ q[j] \in W
    <3>. TAKE i \in 1..Len(r)
    <3>1. CASE i = Len(r)
      BY <1>1, <1>3, <2>1, <3>1
    <3>2. CASE i \in 1..Len(held)
      BY SMTT(40), <1>1, <2>1, <3>2 DEF Held
    <3>. QED  BY <2>1, <3>1, <3>2
  <2>4. \A j \in 1..n : q[j] \in W => \E i \in 1..Len(r) : r[i] = q[j]
    <3>. TAKE j \in 1..n
    <3>. HAVE q[j] \in W
    <3>1. CASE j = n
      BY <2>1, <3>1
    <3>2. CASE j \in 1..(n - 1)
      BY <2>1, <3>2 DEF Held
    <3>. QED  BY <1>1, <3>1, <3>2
  <2>5. ASSUME NEW i \in 1..Len(r), NEW j \in 1..Len(r), i < j, r[i].epoch = r[j].epoch
        PROVE  r[i].seq < r[j].seq
    <3>1. i \in 1..Len(held)
      BY <2>1, <2>5
    <3>2. CASE j = Len(r)
      <4>1. PICK k \in 1..(n - 1) : q[k] = held[i]
        BY <3>1 DEF Held
      <4>2. q[k].epoch = q[n].epoch /\ k \in 1..Len(q) /\ k < n
        BY <1>1, <2>1, <2>5, <3>1, <3>2, <4>1
      <4>. QED  BY <2>1, <3>1, <3>2, <4>1, <4>2 DEF Ordered
    <3>3. CASE j \in 1..Len(held)
      BY <2>1, <2>5, <3>1, <3>3 DEF Held, Ordered
    <3>. QED  BY <2>1, <3>2, <3>3
  <2>6. Held(q, n, W, r)
    BY <2>2, <2>3, <2>4, <2>5 DEF Held, Ordered
  <2>. QED  BY <1>3, <2>6 DEF r
<1>. QED  BY <1>2, <1>3

(* One round of the drain, for a message of the snapshot's epoch or another. *)
LEMMA DrainStep ==
  ASSUME NEW D, NEW bbo, NEW a0, NEW q, NEW n, NEW x, NEW s,
         a0.book \in BookRecords, q \in Seq(D), Ordered(q), n \in 1..Len(q),
         s.epoch = a0.book.epoch, Drained(D, bbo, a0, q, n - 1, x)
  PROVE  Drained(D, bbo, a0, q, n, DrainOne(x, q[n], s))
<1>. DEFINE d == q[n]
            r == DrainOne(x, q[n], s)
<1>1. /\ D \subseteq Deltas /\ q \in Seq(Deltas) /\ d \in D /\ d \in Deltas
      /\ x \in Streams(D, bbo) /\ x.pending \in Seq(D) /\ x.book \in BookRecords
      /\ x.book.epoch = a0.book.epoch
  <2>1. D \subseteq Deltas /\ x \in Streams(D, bbo)
    BY DEF Drained, Stream
  <2>2. x.book.epoch = a0.book.epoch
    BY DEF Drained, Walked
  <2>. QED  BY <2>1, <2>2 DEF Streams
<1>2. /\ d.seq \in Nat /\ d.epoch \in Nat /\ x.book.seq \in Int /\ a0.book.seq \in Int
      /\ \A j \in 1..(n - 1) : q[j] \in Deltas /\ q[j].seq \in Nat /\ j \in 1..Len(q) /\ j < n
  BY SMTT(40), <1>1 DEF Deltas, BookRecords
<1>3. Walked(a0.book, q, n, IF d.epoch = a0.book.epoch THEN BookDelta(x.book, d) ELSE x.book)
  BY <1>1, Walks DEF Drained
<1>4. Held(q, n, Others(a0.book.epoch),
           IF d.epoch = a0.book.epoch THEN x.pending ELSE Append(x.pending, d))
  <2>1. Held(q, n, Others(a0.book.epoch),
             IF d \in Others(a0.book.epoch) THEN Append(x.pending, d) ELSE x.pending)
    BY <1>1, HeldGrows DEF Drained
  <2>. QED  BY <1>1, <2>1 DEF Others
<1>5. \A j \in 1..n : j = n \/ j \in 1..(n - 1)
  OBVIOUS
<1>. HIDE DEF d
<1>6. CASE d.epoch = a0.book.epoch
  <2>1. r = Take(x, d)
    BY <1>6 DEF DrainOne, d
  <2>2. \/ d.seq <= x.book.seq /\ r = x /\ BookDelta(x.book, d) = x.book
        \/ /\ d.seq > x.book.seq /\ TakenInto(D, bbo, x, d, r)
           /\ BookDelta(x.book, d) = ApplyUnguarded(x.book, d)
    BY SMTT(40), <1>1, <1>6, <2>1, TakeKeepsTail DEF Drained
  <2>. HIDE DEF r
  <2>3. CASE d.seq <= x.book.seq /\ r = x /\ BookDelta(x.book, d) = x.book
    <3>1. d.seq <= a0.book.seq
      <4>1. SUFFICES ASSUME d.seq > a0.book.seq PROVE FALSE
        BY <1>2
      <4>2. x.book # a0.book
        BY <1>2, <2>3, <4>1
      <4>3. PICK j \in 1..(n - 1) : q[j].epoch = a0.book.epoch /\ x.book.seq = q[j].seq
        BY <4>2 DEF Drained, Walked
      <4>4. q[j].seq < d.seq
        BY <1>2, <1>6, <4>3 DEF Ordered, d
      <4>. QED  BY <1>2, <2>3, <4>3, <4>4
    <3>2. Recorded(a0, q, n, r)
      <4>1. ~(d.seq > a0.book.seq)
        BY <1>2, <3>1
      <4>. QED  BY <1>5, <2>3, <4>1 DEF Drained, Recorded, d
    <3>. QED  BY <1>3, <1>4, <1>6, <2>3, <3>2 DEF Drained, r
  <2>4. CASE /\ d.seq > x.book.seq /\ TakenInto(D, bbo, x, d, r)
             /\ BookDelta(x.book, d) = ApplyUnguarded(x.book, d)
    <3>1. /\ Stream(D, bbo, r) /\ Recalls(r, d) /\ r.tail # <<>>
          /\ r.book = BookDelta(x.book, d) /\ r.pending = x.pending /\ r.underruns = x.underruns
          /\ \A y \in Deltas : Recalls(x, y) => Recalls(r, y)
      BY <2>4 DEF TakenInto
    <3>2. Recorded(a0, q, n, r)
      <4>1. \A y \in Deltas : Recalls(a0, y) => Recalls(r, y)
        BY <3>1 DEF Drained, Recorded
      <4>2. \A j \in 1..n : q[j].epoch = a0.book.epoch /\ q[j].seq > a0.book.seq => Recalls(r, q[j])
        BY <1>2, <1>5, <3>1 DEF Drained, Recorded, d
      <4>. QED  BY <3>1, <4>1, <4>2 DEF Recorded
    <3>. QED  BY <1>3, <1>4, <1>6, <3>1, <3>2 DEF Drained, r
  <2>. QED  BY <2>2, <2>3, <2>4
<1>7. CASE d.epoch # a0.book.epoch
  <2>1. r = [x EXCEPT !.pending = Append(x.pending, d)]
    BY <1>1, <1>7 DEF DrainOne, d, Streams
  <2>2. /\ r.pending = Append(x.pending, d) /\ r.book = x.book /\ r.tail = x.tail
        /\ r.evicted = x.evicted /\ r.underruns = x.underruns
    BY <1>1, <2>1 DEF Streams
  <2>3. r \in Streams(D, bbo)
    <3>1. Append(x.pending, d) \in Seq(D)
      BY <1>1
    <3>. QED  BY <1>1, <2>1, <3>1 DEF Streams
  <2>. HIDE DEF r
  <2>4. Stream(D, bbo, r)
    BY <1>1, <2>2, <2>3 DEF Drained, Stream, GoodTail
  <2>5. Recorded(a0, q, n, r)
    <3>1. \A y : Recalls(x, y) => Recalls(r, y)
      BY <2>2 DEF Recalls
    <3>. QED  BY <1>5, <1>7, <2>2, <3>1 DEF Drained, Recorded, d
  <2>. QED  BY <1>3, <1>4, <1>7, <2>2, <2>4, <2>5 DEF Drained, r
<1>. QED  BY <1>6, <1>7

(* The drain loop over the whole pending queue: the deltas of the snapshot's *)
(* epoch are in the book and in the tail, the others wait in the order they  *)
(* waited in.                                                                *)
LEMMA DrainGoes ==
  ASSUME NEW D, NEW bbo, NEW a, NEW s, Stream(D, bbo, a), Ordered(a.pending),
         s.epoch = a.book.epoch
  PROVE  Drained(D, bbo, [a EXCEPT !.pending = <<>>], a.pending, Len(a.pending), Drain(a, s))
<1>. DEFINE a0 == [a EXCEPT !.pending = <<>>]
            q == a.pending
<1>1. q \in Seq(D) /\ a \in Streams(D, bbo) /\ Len(q) \in Nat /\ D \subseteq Deltas
  BY DEF Stream, Streams
<1>2. /\ a0.book = a.book /\ a0.tail = a.tail /\ a0.evicted = a.evicted /\ a0.pending = <<>>
      /\ a0.underruns = a.underruns /\ a0.book \in BookRecords
  BY <1>1 DEF Streams
<1>3. a0 \in Streams(D, bbo)
  <2>1. <<>> \in Seq(D)
    OBVIOUS
  <2>. QED  BY <1>1, <2>1 DEF Streams
<1>. HIDE DEF a0
<1>4. Drained(D, bbo, a0, q, 0, a0)
  <2>1. Stream(D, bbo, a0)
    BY <1>2, <1>3 DEF Stream, GoodTail
  <2>2. Walked(a0.book, q, 0, a0.book)
    <3>1. a0.book.seq \in Int /\ (\A j \in 1..0 : FALSE)
      BY <1>2 DEF BookRecords
    <3>. QED  BY <1>2, <3>1 DEF Walked
  <2>3. Recorded(a0, q, 0, a0)
    BY DEF Recorded
  <2>4. Held(q, 0, Others(a0.book.epoch), a0.pending)
    BY <1>2 DEF Held, Ordered
  <2>. QED  BY <2>1, <2>2, <2>3, <2>4 DEF Drained
<1>5. PICK state :
        /\ state[0] = a0 /\ state[Len(q)] = Drain(a, s)
        /\ \A n \in 1..Len(q) : state[n] = DrainOne(state[n - 1], q[n], s)
  BY <1>1, Draining!LoopStates DEF Drain, a0
<1>. DEFINE S == {i \in 0..Len(q) : Drained(D, bbo, a0, q, i, state[i])}
<1>6. 0 \in S
  BY <1>1, <1>4, <1>5
<1>7. ASSUME NEW n \in 1..Len(q), n - 1 \in S PROVE n \in S
  <2>1. Drained(D, bbo, a0, q, n - 1, state[n - 1])
    BY <1>7
  <2>2. Drained(D, bbo, a0, q, n, DrainOne(state[n - 1], q[n], s))
    BY <1>1, <1>2, <2>1, DrainStep
  <2>3. Drained(D, bbo, a0, q, n, state[n])
    BY <1>5, <2>2
  <2>. QED  BY <1>1, <2>3
<1>. HIDE DEF S
<1>8. Len(q) \in S
  <2>1. \A i \in 0..Len(q) : i \in S
    BY <1>1, <1>6, <1>7, Draining!UpTo
  <2>. QED  BY <1>1, <2>1
<1>. QED  BY <1>5, <1>8 DEF S, a0

----------------------------------------------------------------------------
(* The heal *)

(* A snapshot names every price, so what it sets is what it says.            *)
LEMMA SnapshotSets ==
  ASSUME NEW s \in Snapshots
  PROVE  /\ ResetTo(s) \in BookRecords /\ Levels(ResetTo(s)) = Levels(s)
         /\ ResetTo(s).epoch = s.epoch /\ ResetTo(s).seq = s.seq
<1>1. ASSUME NEW side \in Side PROVE SnapshotSide(side) = side
  <2>1. DOMAIN side = Prices
    BY DEF Side
  <2>. QED  BY <2>1 DEF SnapshotSide, ApplyLevels, Side
<1>2. /\ s.bids \in Side /\ s.asks \in Side /\ s.seq \in Nat /\ s.epoch \in Nat
  BY DEF Snapshots
<1>3. ResetTo(s) = [bids |-> s.bids, asks |-> s.asks, seq |-> s.seq, epoch |-> s.epoch]
  BY <1>1, <1>2 DEF ResetTo
<1>. QED  BY <1>2, <1>3 DEF BookRecords, Levels

(* The replay loop over the whole tail: the book after it is the snapshot    *)
(* walked through the tail.                                                  *)
LEMMA ReplayGoes ==
  ASSUME NEW D, NEW bbo, NEW a, NEW s, Stream(D, bbo, a), s \in Snapshots
  PROVE  Walked(ResetTo(s), a.tail, Len(a.tail), ReplayTail(a, s))
<1>. DEFINE b0 == ResetTo(s)
            q == a.tail
<1>1. q \in Seq(D) /\ Len(q) \in Nat /\ D \subseteq Deltas /\ Ordered(q)
  BY DEF Stream, Streams, GoodTail
<1>2. b0 \in BookRecords /\ b0.epoch = s.epoch
  BY SnapshotSets
<1>. HIDE DEF b0
<1>3. Walked(b0, q, 0, b0)
  <2>1. b0.seq \in Int /\ (\A j \in 1..0 : FALSE)
    BY <1>2 DEF BookRecords
  <2>. QED  BY <1>2, <2>1 DEF Walked
<1>4. PICK state :
        /\ state[0] = b0 /\ state[Len(q)] = ReplayTail(a, s)
        /\ \A n \in 1..Len(q) : state[n] = ReplayOne(state[n - 1], q[n], s)
  <2>1. ReplayTail(a, s) = Replay!Loop(b0, q, s)
    BY DEF ReplayTail, b0
  <2>. QED  BY <1>1, <2>1, Replay!LoopStates
<1>. DEFINE S == {i \in 0..Len(q) : Walked(b0, q, i, state[i])}
<1>5. 0 \in S
  BY <1>1, <1>3, <1>4
<1>6. ASSUME NEW n \in 1..Len(q), n - 1 \in S PROVE n \in S
  <2>1. Walked(b0, q, n - 1, state[n - 1])
    BY <1>6
  <2>2. Walked(b0, q, n, IF q[n].epoch = b0.epoch THEN BookDelta(state[n - 1], q[n])
                         ELSE state[n - 1])
    BY <1>1, <1>2, <2>1, Walks
  <2>3. Walked(b0, q, n, state[n])
    BY <1>2, <1>4, <2>2 DEF ReplayOne
  <2>. QED  BY <1>1, <2>3
<1>. HIDE DEF S
<1>7. Len(q) \in S
  <2>1. \A i \in 0..Len(q) : i \in S
    BY <1>1, <1>5, <1>6, Replay!UpTo
  <2>. QED  BY <1>1, <2>1
<1>. QED  BY <1>4, <1>7 DEF S, b0

(* The `kept` filter: the tail after a heal is what is newer than the        *)
(* snapshot, in order.                                                       *)
LEMMA KeepGoes ==
  ASSUME NEW D, NEW bbo, NEW a, NEW s, Stream(D, bbo, a), s \in Snapshots
  PROVE  /\ KeptTail(a, s) \in Seq(D)
         /\ Held(a.tail, Len(a.tail), Newer(s), KeptTail(a, s))
<1>. DEFINE q == a.tail
            Good(n, kept) == kept \in Seq(D) /\ Held(q, n, Newer(s), kept)
<1>1. q \in Seq(D) /\ Len(q) \in Nat /\ D \subseteq Deltas /\ Ordered(q)
  BY DEF Stream, Streams, GoodTail
<1>2. Good(0, <<>>)
  BY DEF Held, Ordered
<1>3. PICK state :
        /\ state[0] = <<>> /\ state[Len(q)] = KeptTail(a, s)
        /\ \A n \in 1..Len(q) : state[n] = KeepOne(state[n - 1], q[n], s)
  BY <1>1, Keep!LoopStates DEF KeptTail
<1>4. ASSUME NEW n \in 1..Len(q), Good(n - 1, state[n - 1]) PROVE Good(n, state[n])
  <2>1. q[n] \in D /\ q[n] \in Deltas
    BY <1>1
  <2>2. Held(q, n, Newer(s), IF q[n] \in Newer(s) THEN Append(state[n - 1], q[n]) ELSE state[n - 1])
    BY <1>1, <1>4, HeldGrows
  <2>3. state[n] = IF q[n] \in Newer(s) THEN Append(state[n - 1], q[n]) ELSE state[n - 1]
    BY <1>3, <2>1 DEF KeepOne, Newer
  <2>4. state[n] \in Seq(D)
    BY <1>4, <2>1, <2>3
  <2>. QED  BY <2>2, <2>3, <2>4
<1>. HIDE DEF Good
<1>. DEFINE S == {i \in 0..Len(q) : Good(i, state[i])}
<1>5. 0 \in S
  BY <1>1, <1>2, <1>3
<1>6. ASSUME NEW n \in 1..Len(q), n - 1 \in S PROVE n \in S
  BY <1>1, <1>4, <1>6
<1>. HIDE DEF S
<1>7. Len(q) \in S
  <2>1. \A i \in 0..Len(q) : i \in S
    BY <1>1, <1>5, <1>6, Keep!UpTo
  <2>. QED  BY <1>1, <2>1
<1>. QED  BY <1>3, <1>7 DEF S, Good

\* The stream between the replay and the drain.
Healed(a, s) == [PruneTail(a, s) EXCEPT !.book = ReplayTail(a, s)]

\* The tail was shed past the snapshot that asks for it.
Underrun(a, s) ==
  /\ StaleReSnapshot(a.book, s) /\ a.evicted # None
  /\ a.evicted.epoch = s.epoch /\ a.evicted.seq > s.seq

HealedWell(D, bbo, a, s, p) ==
  /\ Stream(D, bbo, p) /\ p.pending = a.pending /\ p.book = ReplayTail(a, s)
  /\ p.tail = <<>> => ReplayTail(a, s) = ResetTo(s)
  /\ \A y \in Newer(s) : Recalls(a, y) => Recalls(p, y)
  /\ p.underruns = IF Underrun(a, s) THEN a.underruns + 1 ELSE a.underruns

(* A heal leaves a good tail, keeps what later snapshots may need, and       *)
(* counts what it could not replay.                                          *)
LEMMA HealKeeps ==
  ASSUME NEW D, NEW bbo, NEW a, NEW s, Stream(D, bbo, a), s \in Snapshots
  PROVE  HealedWell(D, bbo, a, s, Healed(a, s))
<1>. DEFINE p == Healed(a, s)
            q == a.tail
            b == ReplayTail(a, s)
            kept == KeptTail(a, s)
<1>1. /\ a \in Streams(D, bbo) /\ q \in Seq(D) /\ Len(q) \in Nat /\ D \subseteq Deltas
      /\ a.evicted \in Marks /\ a.underruns \in Nat
      /\ GoodTail(a) /\ Ordered(q)
  BY DEF Stream, Streams, GoodTail
<1>2. kept \in Seq(D) /\ Held(q, Len(q), Newer(s), kept)
  BY KeepGoes
<1>3. Walked(ResetTo(s), q, Len(q), b)
  BY ReplayGoes
<1>4. ResetTo(s).epoch = s.epoch /\ ResetTo(s).seq = s.seq /\ s.seq \in Nat /\ s.epoch \in Nat
  BY SnapshotSets DEF Snapshots
<1>5. b \in BookRecords /\ b.epoch = s.epoch /\ b.seq \in Int
  BY <1>3, <1>4 DEF Walked, BookRecords
<1>. DEFINE mark == IF a.evicted # None /\ (a.evicted.epoch # s.epoch \/ a.evicted.seq <= s.seq)
                    THEN None ELSE a.evicted
            count == IF Underrun(a, s) THEN a.underruns + 1 ELSE a.underruns
<1>6. p = [a EXCEPT !.book = b, !.tail = kept, !.evicted = mark, !.underruns = count]
  BY <1>1 DEF Healed, PruneTail, Streams, Underrun
<1>7. mark \in Marks /\ count \in Nat
  BY <1>1 DEF Marks, None
<1>8. /\ mark = None
         \/ /\ mark = a.evicted /\ a.evicted # None
            /\ a.evicted.epoch = s.epoch /\ a.evicted.seq > s.seq
      /\ mark # a.evicted => a.evicted.epoch # s.epoch \/ a.evicted.seq <= s.seq
  <2>1. a.evicted.seq \in Int
    BY <1>1 DEF Marks
  <2>. QED  BY <2>1, <1>4
<1>. HIDE DEF mark, count, b, kept, p
<1>9. /\ p \in Streams(D, bbo) /\ p.pending = a.pending /\ p.book = b /\ p.tail = kept
      /\ p.evicted = mark /\ p.underruns = count
  BY <1>1, <1>2, <1>5, <1>6, <1>7 DEF Streams
<1>10. /\ Len(kept) \in Nat /\ Len(kept) <= MAX_APPLIED_TAIL
       /\ kept # <<>> => Len(kept) \in 1..Len(kept)
  <2>1. Len(kept) \in Nat /\ (kept # <<>> => Len(kept) >= 1)
    BY <1>2
  <2>2. Len(q) <= MAX_APPLIED_TAIL /\ MAX_APPLIED_TAIL \in Nat
    BY <1>1, TailAssumption DEF GoodTail
  <2>3. Len(kept) <= Len(q)
    BY <1>2 DEF Held
  <2>. QED  BY <2>1, <2>2, <2>3, <1>1
<1>11. ASSUME NEW i \in 1..Len(kept)
       PROVE  /\ kept[i].epoch = s.epoch /\ kept[i].seq \in Nat /\ kept[i].seq > s.seq
              /\ kept[i].seq <= b.seq
              /\ \E j \in 1..Len(q) : q[j] = kept[i]
  <2>1. PICK j \in 1..Len(q) : q[j] = kept[i] /\ q[j] \in Newer(s)
    BY <1>2 DEF Held
  <2>. QED  BY <2>1, <1>3, <1>4 DEF Newer, Walked, Deltas
<1>12. ASSUME NEW j \in 1..Len(q), q[j].epoch = s.epoch, q[j].seq > s.seq
       PROVE  \E i \in 1..Len(kept) : kept[i] = q[j]
  <2>1. q[j] \in Newer(s)
    BY <1>1, <1>12 DEF Newer
  <2>. QED  BY <2>1, <1>2 DEF Held
<1>13. b = ResetTo(s) \/ \E i \in 1..Len(kept) : kept[i].seq = b.seq
  BY <1>3, <1>4, <1>12 DEF Walked
<1>14. kept = <<>> => b = ResetTo(s)
  <2>1. Len(<<>>) = 0
    OBVIOUS
  <2>. QED  BY <2>1, <1>13
<1>15. kept # <<>> => kept[Len(kept)].seq = b.seq
  <2>. HAVE kept # <<>>
  <2>1. Len(kept) \in 1..Len(kept) /\ kept[Len(kept)].seq \in Nat
        /\ kept[Len(kept)].seq > s.seq /\ kept[Len(kept)].seq <= b.seq
    BY <1>10, <1>11
  <2>2. b # ResetTo(s)
    BY <2>1, <1>4
  <2>3. PICK i \in 1..Len(kept) : kept[i].seq = b.seq
    BY <2>2, <1>13
  <2>4. CASE i = Len(kept)
    BY <2>3, <2>4
  <2>5. CASE i < Len(kept)
    <3>1. kept[i].seq < kept[Len(kept)].seq
      BY <2>1, <2>5, <1>2, <1>11 DEF Held, Ordered
    <3>. QED  BY <2>1, <2>3, <3>1, <1>5
  <2>. QED  BY <2>4, <2>5, <1>10
<1>16. mark # None => kept # <<>> /\ \A i \in 1..Len(kept) : mark.seq < kept[i].seq
  <2>. HAVE mark # None
  <2>1. /\ mark = a.evicted /\ a.evicted.epoch = s.epoch /\ a.evicted.seq > s.seq
        /\ a.evicted.epoch = a.book.epoch /\ q # <<>>
        /\ \A i \in 1..Len(q) : a.evicted.seq < q[i].seq /\ q[i].epoch = a.book.epoch
    BY <1>1, <1>8 DEF GoodTail
  <2>2. 1 \in 1..Len(q) /\ q[1].seq \in Nat /\ a.evicted.seq \in Int
    <3>1. Len(q) >= 1
      BY <1>1, <2>1
    <3>2. 1 \in 1..Len(q) /\ q[1] \in Deltas
      BY <1>1, <3>1
    <3>. QED  BY <1>1, <3>2 DEF Deltas, Marks
  <2>3. \E i \in 1..Len(kept) : kept[i] = q[1]
    <3>1. q[1].epoch = s.epoch /\ q[1].seq > s.seq
      BY <2>1, <2>2, <1>4
    <3>. QED  BY <2>2, <3>1, <1>12
  <2>4. kept # <<>>
    <3>1. Len(<<>>) = 0
      OBVIOUS
    <3>. QED  BY <2>3, <3>1
  <2>. QED  BY <2>1, <2>4, <1>11
<1>17. GoodTail(p)
  <2>1. Ordered(kept)
    BY <1>2 DEF Held
  <2>2. mark # None => mark.epoch = s.epoch
    BY <1>8
  <2>. QED  BY <2>1, <2>2, <1>5, <1>9, <1>10, <1>11, <1>15, <1>16 DEF GoodTail
<1>18. ASSUME NEW y \in Newer(s), Recalls(a, y) PROVE Recalls(p, y)
  <2>1. y \in Deltas /\ y.epoch = s.epoch /\ y.seq > s.seq /\ y.seq \in Nat
    BY DEF Newer, Deltas
  <2>2. ASSUME NEW j \in 1..Len(q), q[j] = y PROVE Recalls(p, y)
    BY <2>1, <2>2, <1>9, <1>12 DEF Recalls
  <2>3. ASSUME a.evicted.epoch = y.epoch, y.seq <= a.evicted.seq PROVE Recalls(p, y)
    <3>1. mark = a.evicted
      <4>1. a.evicted.seq \in Int
        BY <1>1 DEF Marks
      <4>2. a.evicted.epoch = s.epoch /\ ~(a.evicted.seq <= s.seq)
        BY <2>1, <2>3, <4>1, <1>4
      <4>. QED  BY <4>2, <1>8
    <3>. QED  BY <2>3, <3>1, <1>9 DEF Recalls
  <2>. QED  BY <1>18, <2>2, <2>3 DEF Recalls
<1>. QED  BY <1>1, <1>9, <1>14, <1>17, <1>18 DEF HealedWell, Stream, p, b, kept, count

----------------------------------------------------------------------------
(* One message *)

\* What an accepted snapshot does to a stream.
Applied(D, a, s, r) ==
  /\ Stream(D, r.bbo, r)
  /\ Walked(ResetTo(s), a.tail, Len(a.tail), ReplayTail(a, s))
  /\ Walked(ReplayTail(a, s), a.pending, Len(a.pending), r.book)
  /\ Held(a.pending, Len(a.pending), Others(s.epoch), r.pending)
  /\ r.tail = <<>> => r.book = ResetTo(s)
  /\ \A y \in Newer(s) : Recalls(a, y) => Recalls(r, y)
  /\ \A j \in 1..Len(a.pending) :
       a.pending[j].epoch = s.epoch /\ a.pending[j].seq > ReplayTail(a, s).seq
         => Recalls(r, a.pending[j])
  /\ r.underruns = IF Underrun(a, s) THEN a.underruns + 1 ELSE a.underruns
  /\ TwoSided(r.book) => r.bbo = Top(r.book)

(* deriveBbo changes nothing but the BBO.                                    *)
LEMMA DeriveKeeps ==
  ASSUME NEW D, NEW bbo, NEW x, Stream(D, bbo, x)
  PROVE  /\ Stream(D, DeriveBbo(x).bbo, DeriveBbo(x))
         /\ DeriveBbo(x).book = x.book /\ DeriveBbo(x).pending = x.pending
         /\ DeriveBbo(x).tail = x.tail /\ DeriveBbo(x).evicted = x.evicted
         /\ DeriveBbo(x).underruns = x.underruns
         /\ TwoSided(x.book) => DeriveBbo(x).bbo = Top(x.book)
<1>. DEFINE r == DeriveBbo(x)
<1>1. D \subseteq Deltas /\ x \in Streams(D, bbo) /\ GoodTail(x)
  BY DEF Stream
<1>2. PICK new : r = [x EXCEPT !.bbo = new] /\ (TwoSided(x.book) => new = Top(x.book))
  <2>1. CASE TwoSided(x.book)
    BY <2>1 DEF DeriveBbo
  <2>2. CASE ~TwoSided(x.book)
    <3>1. x = [x EXCEPT !.bbo = x.bbo]
      BY <1>1 DEF Streams
    <3>. QED  BY <2>2, <3>1 DEF DeriveBbo
  <2>. QED  BY <2>1, <2>2
<1>3. /\ r \in Streams(D, new) /\ r.bbo = new /\ r.book = x.book /\ r.pending = x.pending
      /\ r.tail = x.tail /\ r.evicted = x.evicted /\ r.underruns = x.underruns
  BY <1>1, <1>2 DEF Streams
<1>. HIDE DEF r
<1>4. GoodTail(r)
  BY <1>1, <1>3 DEF GoodTail
<1>. QED  BY <1>1, <1>2, <1>3, <1>4 DEF Stream, r

(* applyBook, a snapshot that is not skipped: heal, drain and BBO together.  *)
LEMMA SnapshotApplied ==
  ASSUME NEW D, NEW bbo, NEW a, NEW s, Stream(D, bbo, a), Ordered(a.pending), s \in Snapshots,
         ~SkipsSnapshot(a.book, s)
  PROVE  Applied(D, a, s, ApplySnapshot(a, s))
<1>. DEFINE p == Healed(a, s)
            p0 == [p EXCEPT !.pending = <<>>]
            x == Drain(p, s)
            r == ApplySnapshot(a, s)
            q == a.pending
            h == ReplayTail(a, s)
<1>1. r = DeriveBbo(x)
  BY DEF ApplySnapshot, Healed
<1>2. /\ Stream(D, bbo, p) /\ p.pending = q /\ p.book = h
      /\ p.tail = <<>> => h = ResetTo(s)
      /\ \A y \in Newer(s) : Recalls(a, y) => Recalls(p, y)
      /\ p.underruns = IF Underrun(a, s) THEN a.underruns + 1 ELSE a.underruns
  <2>. HIDE DEF p, h
  <2>1. HealedWell(D, bbo, a, s, p)
    BY HealKeeps DEF p
  <2>. QED  BY <2>1 DEF HealedWell, h
<1>3. Walked(ResetTo(s), a.tail, Len(a.tail), h)
  BY ReplayGoes
<1>4. h.epoch = s.epoch
  BY <1>3, SnapshotSets DEF Walked
<1>. HIDE DEF p, h, x
<1>5. Drained(D, bbo, p0, q, Len(q), x)
  BY <1>2, <1>4, DrainGoes DEF x
<1>6. p0.book = h /\ p0.tail = p.tail /\ p0.evicted = p.evicted /\ p0.underruns = p.underruns
  BY <1>2 DEF Stream, Streams
<1>. HIDE DEF p0
<1>7. /\ Stream(D, bbo, x) /\ x.underruns = p.underruns /\ Walked(h, q, Len(q), x.book)
      /\ Recorded(p0, q, Len(q), x) /\ Held(q, Len(q), Others(s.epoch), x.pending)
  BY <1>4, <1>5, <1>6 DEF Drained
<1>. HIDE DEF r
<1>8. /\ Stream(D, r.bbo, r) /\ r.book = x.book /\ r.pending = x.pending /\ r.tail = x.tail
      /\ r.evicted = x.evicted /\ r.underruns = x.underruns
      /\ TwoSided(x.book) => r.bbo = Top(x.book)
  BY <1>1, <1>7, DeriveKeeps
<1>9. \A y : Recalls(x, y) => Recalls(r, y)
  BY <1>8 DEF Recalls
<1>10. \A y : Recalls(p, y) => Recalls(p0, y)
  BY <1>6 DEF Recalls
<1>11. \A y \in Newer(s) : Recalls(a, y) => Recalls(r, y)
  <2>1. \A y \in Newer(s) : y \in Deltas
    BY DEF Newer
  <2>. QED  BY <2>1, <1>2, <1>7, <1>9, <1>10 DEF Recorded
<1>12. \A j \in 1..Len(q) : q[j].epoch = s.epoch /\ q[j].seq > h.seq => Recalls(r, q[j])
  BY <1>4, <1>6, <1>7, <1>9 DEF Recorded
<1>13. r.tail = <<>> => r.book = ResetTo(s)
  BY <1>2, <1>6, <1>7, <1>8 DEF Recorded
<1>. QED  BY <1>2, <1>3, <1>7, <1>8, <1>11, <1>12, <1>13 DEF Applied, r, h

\* The delta d at the end of the pending queue of a, whose oldest may have gone.
Buffered(D, bbo, a, d, r) ==
  /\ Stream(D, bbo, r) /\ r = [a EXCEPT !.pending = r.pending]
  /\ Len(r.pending) <= MAX_PENDING_DELTAS /\ Len(r.pending) <= Len(a.pending) + 1
  /\ \E off \in Nat : \A i \in 1..Len(r.pending) :
       \/ i = Len(r.pending) /\ r.pending[i] = d
       \/ i + off \in 1..Len(a.pending) /\ r.pending[i] = a.pending[i + off]
  /\ Len(a.pending) < MAX_PENDING_DELTAS => r.pending = Append(a.pending, d)

(* The pending queue, full or not.                                           *)
LEMMA BufferKeeps ==
  ASSUME NEW D, NEW bbo, NEW a, NEW d, Stream(D, bbo, a), d \in D,
         Len(a.pending) <= MAX_PENDING_DELTAS
  PROVE  Buffered(D, bbo, a, d, Buffer(a, d))
<1>. DEFINE q == a.pending
            r == Buffer(a, d)
<1>1. /\ q \in Seq(D) /\ a \in Streams(D, bbo) /\ Len(q) \in Nat /\ GoodTail(a)
      /\ D \subseteq Deltas /\ Len(q) <= MAX_PENDING_DELTAS
  BY DEF Stream, Streams
<1>2. MAX_PENDING_DELTAS \in Nat \ {0}
  BY PendingAssumption
<1>. DEFINE Leaves(off, kept) ==
              /\ off \in Nat /\ kept \in Seq(D)
              /\ r = [a EXCEPT !.pending = Append(kept, d)]
              /\ Len(kept) <= Len(q) /\ Len(kept) < MAX_PENDING_DELTAS
              /\ \A i \in 1..Len(kept) : i + off \in 1..Len(q) /\ kept[i] = q[i + off]
              /\ Len(q) < MAX_PENDING_DELTAS => kept = q
<1>3. \E off, kept : Leaves(off, kept)
  <2>1. CASE Len(q) >= MAX_PENDING_DELTAS
    <3>. DEFINE kept == SubSeq(q, 2, Len(q))
    <3>1. r = [a EXCEPT !.pending = Append(kept, d)]
      BY <2>1 DEF Buffer
    <3>2. \A i \in 2..Len(q) : q[i] \in D
      BY <1>1
    <3>3. Len(q) \in Int /\ Len(q) >= 1
      BY <1>1, <1>2, <2>1
    <3>. HIDE DEF kept
    <3>4. /\ kept \in Seq(D)
          /\ Len(kept) = IF 2 <= Len(q) THEN Len(q) - 2 + 1 ELSE 0
          /\ \A i \in 1..(Len(q) - 2 + 1) : kept[i] = q[2 + i - 1]
      BY <3>2, <3>3, SubSeqProperties DEF kept
    <3>5. Len(kept) = Len(q) - 1
      BY <3>3, <3>4
    <3>6. \A i \in 1..Len(kept) : i + 1 \in 1..Len(q) /\ kept[i] = q[i + 1]
      BY <1>1, <3>4, <3>5
    <3>7. Len(kept) <= Len(q) /\ Len(kept) < MAX_PENDING_DELTAS
      <4>. HIDE DEF r, q
      <4>. QED  BY <1>1, <1>2, <3>3, <3>5
    <3>8. 1 \in Nat /\ ~(Len(q) < MAX_PENDING_DELTAS)
      BY <1>1, <1>2, <2>1
    <3>9. Leaves(1, kept)
      BY <3>1, <3>4, <3>6, <3>7, <3>8
    <3>. HIDE DEF Leaves
    <3>. QED  BY <3>9
  <2>2. CASE Len(q) < MAX_PENDING_DELTAS
    <3>1. r = [a EXCEPT !.pending = Append(q, d)]
      BY <1>1, <1>2, <2>2 DEF Buffer
    <3>2. \A i \in 1..Len(q) : i + 0 \in 1..Len(q) /\ q[i] = q[i + 0]
      BY <1>1
    <3>3. Leaves(0, q)
      BY <1>1, <2>2, <3>1, <3>2
    <3>. HIDE DEF Leaves
    <3>. QED  BY <3>3
  <2>. HIDE DEF Leaves
  <2>. QED  BY <1>1, <1>2, <2>1, <2>2
<1>4. PICK off, kept :
        /\ off \in Nat /\ kept \in Seq(D) /\ r = [a EXCEPT !.pending = Append(kept, d)]
        /\ Len(kept) <= Len(q) /\ Len(kept) < MAX_PENDING_DELTAS
        /\ \A i \in 1..Len(kept) : i + off \in 1..Len(q) /\ kept[i] = q[i + off]
        /\ Len(q) < MAX_PENDING_DELTAS => kept = q
  BY <1>3
<1>. HIDE DEF r
<1>5. /\ r.pending = Append(kept, d) /\ r.book = a.book /\ r.tail = a.tail
      /\ r.evicted = a.evicted /\ r = [a EXCEPT !.pending = r.pending]
  BY <1>1, <1>4 DEF Streams
<1>6. /\ Append(kept, d) \in Seq(D) /\ Len(kept) \in Nat /\ Len(Append(kept, d)) = Len(kept) + 1
      /\ \A i \in 1..Len(Append(kept, d)) :
           \/ i = Len(Append(kept, d)) /\ Append(kept, d)[i] = d
           \/ i \in 1..Len(kept) /\ Append(kept, d)[i] = kept[i]
  BY <1>4
<1>7. Stream(D, bbo, r)
  <2>1. r \in Streams(D, bbo)
    BY <1>1, <1>4, <1>6 DEF Streams
  <2>. QED  BY <1>1, <1>5, <2>1 DEF Stream, GoodTail
<1>8. Len(r.pending) <= MAX_PENDING_DELTAS /\ Len(r.pending) <= Len(q) + 1
  BY <1>1, <1>2, <1>4, <1>5, <1>6
<1>9. \E o \in Nat : \A i \in 1..Len(r.pending) :
        \/ i = Len(r.pending) /\ r.pending[i] = d
        \/ i + o \in 1..Len(q) /\ r.pending[i] = q[i + o]
  BY SMTT(40), <1>4, <1>5, <1>6
<1>. QED  BY <1>4, <1>5, <1>7, <1>8, <1>9 DEF Buffered, r

----------------------------------------------------------------------------
(* The producer *)

\* Every book of h is the same book of g.
Continues(h, g) ==
  /\ Len(h) <= Len(g)
  /\ \A e \in 1..Len(h) : /\ Len(h[e]) <= Len(g[e])
                           /\ \A n \in 1..Len(h[e]) : g[e][n] = h[e][n]

(* A producer that goes on from the books h to the books g takes back        *)
(* nothing it said.                                                          *)
LEMMA MoreBooks ==
  ASSUME NEW h, NEW g, HistIn(h), HistIn(g), Continues(h, g)
  PROVE  More(h, g)
<1>1. /\ Len(h) \in Nat /\ Len(g) \in Nat
      /\ \A e \in 1..Len(h) : e \in 1..Len(g) /\ Len(h[e]) \in Nat /\ Len(g[e]) \in Nat
  <2>1. Len(h) \in Nat /\ Len(g) \in Nat
    BY DEF HistIn
  <2>2. \A e \in 1..Len(h) : e \in 1..Len(g)
    BY <2>1 DEF Continues
  <2>. QED  BY <2>1, <2>2 DEF HistIn
<1>2. \A x : RealIn(h, x) => RealIn(g, x)
  <2>. TAKE x
  <2>. HAVE RealIn(h, x)
  <2>1. x.epoch \in 1..Len(h) /\ x.seq \in 0..(Len(h[x.epoch]) - 1)
    BY DEF RealIn
  <2>2. Len(h[x.epoch]) \in Nat /\ Len(g[x.epoch]) \in Nat /\ Len(h[x.epoch]) <= Len(g[x.epoch])
    BY <1>1, <2>1 DEF Continues
  <2>. QED  BY <1>1, <2>1, <2>2 DEF RealIn
<1>3. \A x : RightIn(h, x) => RightIn(g, x)
  <2>. TAKE x
  <2>. HAVE RightIn(h, x)
  <2>1. x.epoch \in 1..Len(h) /\ x.seq \in 0..(Len(h[x.epoch]) - 1)
    BY DEF RightIn, RealIn
  <2>2. x.seq + 1 \in 1..Len(h[x.epoch])
    BY <1>1, <2>1
  <2>3. g[x.epoch][x.seq + 1] = h[x.epoch][x.seq + 1]
    BY <2>1, <2>2 DEF Continues
  <2>. QED  BY <1>2, <2>3 DEF RightIn
<1>4. \A x : FitsIn(h, x) => FitsIn(g, x)
  <2>. TAKE x
  <2>. HAVE FitsIn(h, x)
  <2>1. x.epoch \in 1..Len(h) /\ x.seq \in 1..(Len(h[x.epoch]) - 1)
    BY DEF FitsIn
  <2>2. Len(h[x.epoch]) \in Nat /\ Len(g[x.epoch]) \in Nat /\ Len(h[x.epoch]) <= Len(g[x.epoch])
    BY <1>1, <2>1 DEF Continues
  <2>3. x.seq + 1 \in 1..Len(h[x.epoch]) /\ x.seq \in 1..Len(h[x.epoch])
    BY <2>1, <2>2
  <2>4. /\ g[x.epoch][x.seq + 1] = h[x.epoch][x.seq + 1]
        /\ g[x.epoch][x.seq] = h[x.epoch][x.seq]
    BY <2>1, <2>3 DEF Continues
  <2>. QED  BY <1>1, <2>1, <2>2, <2>4 DEF FitsIn
<1>. QED  BY <1>2, <1>3, <1>4 DEF More

(* A connection adds one row to the producer's books and changes no other.   *)
LEMMA NewConnection ==
  ASSUME NEW h, HistIn(h), Len(h) < MaxEpochs, NEW b \in FirstBooks
  PROVE  /\ HistIn(Append(h, <<b>>)) /\ More(h, Append(h, <<b>>))
         /\ Len(Append(h, <<b>>)) = Len(h) + 1 /\ Len(h) \in Nat
         /\ Append(h, <<b>>)[Len(h) + 1] = <<b>>
         /\ \A e \in 1..Len(h) : Append(h, <<b>>)[e] = h[e]
<1>. DEFINE first == <<b>>
            g == Append(h, first)
<1>1. b \in Books /\ ~CrossedOrLocked(b) /\ MaxEpochs \in Nat /\ MaxSeq \in Nat
  BY GatewayAssumption
<1>2. first \in Seq(Books) /\ Len(first) = 1 /\ first[1] = b
  BY <1>1
<1>. HIDE DEF first
<1>3. h \in Seq(Seq(Books)) /\ Len(h) \in Nat
  BY DEF HistIn
<1>4. /\ g \in Seq(Seq(Books)) /\ Len(g) = Len(h) + 1 /\ g[Len(h) + 1] = first
      /\ \A e \in 1..Len(h) : g[e] = h[e]
  BY <1>2, <1>3
<1>. HIDE DEF g
<1>5. \A e \in 1..Len(g) : e \in 1..Len(h) \/ e = Len(h) + 1
  BY <1>3, <1>4
<1>6. HistIn(g)
  <2>1. Len(g) <= MaxEpochs
    BY <1>1, <1>3, <1>4
  <2>2. ASSUME NEW e \in 1..Len(g) PROVE Len(g[e]) \in 1..(MaxSeq + 1)
    <3>1. CASE e \in 1..Len(h)
      BY <1>4, <3>1 DEF HistIn
    <3>2. CASE e = Len(h) + 1
      <4>1. g[e] = first
        BY <1>4, <3>2
      <4>2. Len(first) \in 1..(MaxSeq + 1)
        BY <1>1, <1>2
      <4>. QED  BY <4>1, <4>2
    <3>. QED  BY <1>5, <3>1, <3>2
  <2>3. ASSUME NEW e \in 1..Len(g), NEW n \in 1..Len(g[e]) PROVE ~CrossedOrLocked(g[e][n])
    <3>1. CASE e \in 1..Len(h)
      BY <1>4, <3>1 DEF HistIn
    <3>2. CASE e = Len(h) + 1
      <4>1. g[e] = first
        BY <1>4, <3>2
      <4>2. n = 1
        <5>1. n \in 1..Len(first)
          BY <4>1
        <5>. QED  BY <1>2, <5>1
      <4>. QED  BY <1>1, <1>2, <4>1, <4>2
    <3>. QED  BY <1>5, <3>1, <3>2
  <2>. QED  BY <1>4, <2>1, <2>2, <2>3 DEF HistIn
<1>7. \A e \in 1..Len(h) : Len(h[e]) <= Len(g[e]) /\ \A n \in 1..Len(h[e]) : g[e][n] = h[e][n]
  <2>1. \A e \in 1..Len(h) : Len(h[e]) \in Nat
    BY DEF HistIn
  <2>. QED  BY <1>4, <2>1
<1>8. More(h, g)
  <2>1. Continues(h, g)
    BY <1>3, <1>4, <1>7 DEF Continues
  <2>. QED  BY <1>6, <2>1, MoreBooks
<1>. QED  BY <1>3, <1>4, <1>6, <1>8 DEF g, first

\* The books after the producer moved to b.
Pushed(h, b) == [h EXCEPT ![Len(h)] = Append(@, b)]

NextIs(h, g, b) ==
  /\ HistIn(g) /\ More(h, g) /\ Len(g) = Len(h)
  /\ \A e \in 1..Len(h) : e # Len(h) => g[e] = h[e]
  /\ Len(g[Len(h)]) = Len(h[Len(h)]) + 1 /\ g[Len(h)][Len(h[Len(h)]) + 1] = b
  /\ \A n \in 1..Len(h[Len(h)]) : g[Len(h)][n] = h[Len(h)][n]

(* A delta adds one book to the producer's last row and changes no other.    *)
LEMMA NextBook ==
  ASSUME NEW h, HistIn(h), Len(h) > 0, Len(h[Len(h)]) <= MaxSeq,
         NEW b, b \in Books, ~CrossedOrLocked(b),
         NEW g, g = Pushed(h, b)
  PROVE  NextIs(h, g, b)
<1>. DEFINE z == Len(h)
            q == h[z]
            r == Append(q, b)
<1>1. /\ h \in Seq(Seq(Books)) /\ z \in Nat /\ z \in 1..z /\ MaxSeq \in Nat
      /\ q \in Seq(Books) /\ Len(q) \in Nat /\ Len(q) <= MaxSeq
  <2>1. h \in Seq(Seq(Books)) /\ z \in Nat /\ z \in 1..z
    BY DEF HistIn
  <2>. QED  BY <2>1, GatewayAssumption
<1>2. /\ r \in Seq(Books) /\ Len(r) = Len(q) + 1 /\ r[Len(q) + 1] = b
      /\ \A n \in 1..Len(q) : r[n] = q[n]
      /\ \A n \in 1..Len(r) : n \in 1..Len(q) \/ n = Len(q) + 1
  BY <1>1
<1>3. /\ g \in Seq(Seq(Books)) /\ Len(g) = z /\ g[z] = r
      /\ \A e \in 1..z : e # z => g[e] = h[e]
  <2>1. r \in Seq(Books)
    BY <1>2
  <2>. HIDE DEF r
  <2>2. g = [h EXCEPT ![z] = r]
    BY DEF r, Pushed
  <2>. QED  BY <1>1, <2>1, <2>2
<1>. HIDE DEF r, q, z
<1>4. HistIn(g)
  <2>1. ASSUME NEW e \in 1..z PROVE Len(g[e]) \in 1..(MaxSeq + 1)
    <3>1. CASE e = z
      BY <1>1, <1>2, <1>3, <3>1
    <3>2. CASE e # z
      BY <1>3, <3>2 DEF HistIn, z
    <3>. QED  BY <3>1, <3>2
  <2>2. ASSUME NEW e \in 1..z, NEW n \in 1..Len(g[e]) PROVE ~CrossedOrLocked(g[e][n])
    <3>1. CASE e = z
      <4>1. CASE n \in 1..Len(q)
        BY <1>1, <1>2, <1>3, <3>1, <4>1 DEF HistIn, q, z
      <4>2. CASE n = Len(q) + 1
        BY <1>2, <1>3, <3>1, <4>2
      <4>. QED  BY <1>2, <1>3, <3>1, <4>1, <4>2
    <3>2. CASE e # z
      BY <1>3, <3>2 DEF HistIn, z
    <3>. QED  BY <3>1, <3>2
  <2>3. Len(g) <= MaxEpochs
    BY <1>3 DEF HistIn, z
  <2>. QED  BY <1>3, <2>1, <2>2, <2>3 DEF HistIn
<1>5. \A e \in 1..z : Len(h[e]) <= Len(g[e]) /\ \A n \in 1..Len(h[e]) : g[e][n] = h[e][n]
  <2>. TAKE e \in 1..z
  <2>1. CASE e = z
    BY <1>1, <1>2, <1>3, <2>1 DEF q
  <2>2. CASE e # z
    <3>1. Len(h[e]) \in Nat
      BY DEF HistIn, z
    <3>. QED  BY <1>3, <2>2, <3>1
  <2>. QED  BY <2>1, <2>2
<1>6. More(h, g)
  <2>1. Continues(h, g)
    <3>1. Len(h) <= Len(g)
      <4>1. z <= Len(g)
        BY <1>1, <1>3
      <4>. QED  BY <4>1 DEF z
    <3>. QED  BY <1>5, <3>1 DEF Continues, z
  <2>. QED  BY <1>4, <2>1, MoreBooks
<1>. QED  BY <1>2, <1>3, <1>4, <1>6 DEF NextIs, z, q

(* A snapshot of the producer's latest book can follow the snapshots of the  *)
(* topic.                                                                    *)
LEMMA SnapAdded ==
  ASSUME NEW h, NEW g, NEW q, NEW s, SnapsIn(h, q), More(h, g), s \in Snapshots, RightIn(g, s),
         s.epoch = Len(g), \A x : RealIn(h, x) => ~After(x, s)
  PROVE  /\ SnapsIn(g, Append(q, s)) /\ Len(q) \in Nat /\ Len(Append(q, s)) = Len(q) + 1
         /\ Append(q, s)[Len(q) + 1] = s /\ \A j \in 1..Len(q) : Append(q, s)[j] = q[j]
<1>. DEFINE r == Append(q, s)
<1>1. q \in Seq(Snapshots) /\ Len(q) \in Nat
  BY DEF SnapsIn
<1>2. /\ r \in Seq(Snapshots) /\ Len(r) = Len(q) + 1 /\ r[Len(q) + 1] = s
      /\ \A j \in 1..Len(q) : r[j] = q[j]
      /\ \A j \in 1..Len(r) : j \in 1..Len(q) \/ j = Len(q) + 1
  BY <1>1
<1>. HIDE DEF r
<1>3. ASSUME NEW j \in 1..Len(r) PROVE RightIn(g, r[j])
  BY <1>2 DEF SnapsIn, More
<1>4. ASSUME NEW i \in 1..Len(r), NEW j \in 1..Len(r), i < j PROVE ~After(r[i], r[j])
  <2>1. i \in 1..Len(q)
    BY <1>1, <1>2, <1>4
  <2>2. CASE j \in 1..Len(q)
    BY <1>2, <1>4, <2>1, <2>2 DEF SnapsIn
  <2>3. CASE j = Len(q) + 1
    <3>1. RealIn(h, r[i])
      BY <1>2, <2>1 DEF SnapsIn, RightIn
    <3>. QED  BY <1>2, <2>3, <3>1
  <2>. QED  BY <1>2, <2>2, <2>3
<1>5. Len(r) > 0 /\ r[Len(r)].epoch = Len(g)
  BY <1>1, <1>2
<1>6. SnapsIn(g, r)
  BY <1>2, <1>3, <1>4, <1>5 DEF SnapsIn
<1>. QED  BY <1>1, <1>2, <1>6 DEF r

(* The snapshot message of a book is that book at its sequence.              *)
LEMMA SnapshotOf ==
  ASSUME NEW b \in Books, NEW e \in Nat, NEW n \in Nat
  PROVE  /\ Snapshot(e, n, b) \in Snapshots
         /\ Snapshot(e, n, b).epoch = e /\ Snapshot(e, n, b).seq = n
         /\ Levels(Snapshot(e, n, b)) = b
  BY DEF Books, Snapshot, Snapshots, Levels

(* More books with nothing new to read.                                      *)
LEMMA SameDeltas ==
  ASSUME NEW h, NEW g, NEW q, NEW l, DeltasIn(h, q, l), More(h, g),
         \A e \in 1..Len(g) : \A n \in 1..(Len(g[e]) - 1) :
           e \in 1..Len(h) /\ n \in 1..(Len(h[e]) - 1)
  PROVE  DeltasIn(g, q, l)
  BY DEF DeltasIn, More

(* A new connection leaves books and topics in order, and only adds to them. *)
LEMMA ConnectLogs ==
  ASSUME LogsOK, Connect
  PROVE  LogsOK' /\ Grown
<1>1. PICK b \in FirstBooks :
        /\ hist' = Append(hist, <<b>>)
        /\ snapLog' = Append(snapLog, Snapshot(Epoch + 1, 0, b))
  BY DEF Connect
<1>. DEFINE s == Snapshot(Epoch + 1, 0, b)
            z == Len(hist)
<1>2. deltaLog' = deltaLog /\ lost' = lost /\ z < MaxEpochs
  BY DEF Connect, Epoch
<1>3. /\ HistIn(hist') /\ More(hist, hist') /\ Len(hist') = z + 1 /\ z \in Nat
      /\ hist'[z + 1] = <<b>> /\ \A e \in 1..z : hist'[e] = hist[e]
  BY <1>1, <1>2, NewConnection DEF LogsOK
<1>4. b \in Books
  BY GatewayAssumption
<1>. HIDE DEF z
<1>5. s \in Snapshots /\ s.epoch = z + 1 /\ s.seq = 0 /\ Levels(s) = b
  <2>1. Epoch + 1 \in Nat /\ Epoch = z
    BY <1>3 DEF Epoch, z
  <2>. QED  BY <1>4, <2>1, SnapshotOf
<1>. HIDE DEF s
<1>6. RightIn(hist', s)
  <2>1. hist'[s.epoch][s.seq + 1] = b /\ Len(hist'[s.epoch]) = 1
    <3>1. hist'[s.epoch] = <<b>> /\ s.seq + 1 = 1
      BY <1>3, <1>5
    <3>2. Len(<<b>>) = 1 /\ <<b>>[1] = b
      OBVIOUS
    <3>. QED  BY <3>1, <3>2
  <2>. QED  BY <1>3, <1>5, <2>1 DEF RightIn, RealIn
<1>7. \A x : RealIn(hist, x) => ~After(x, s)
  BY <1>3, <1>5 DEF RealIn, After, z
<1>8. /\ SnapsIn(hist', snapLog') /\ Len(snapLog) \in Nat /\ Len(snapLog') = Len(snapLog) + 1
      /\ snapLog'[Len(snapLog) + 1] = s /\ \A j \in 1..Len(snapLog) : snapLog'[j] = snapLog[j]
  <2>1. SnapsIn(hist, snapLog) /\ snapLog' = Append(snapLog, s)
    BY <1>1 DEF LogsOK, s
  <2>. QED  BY <1>3, <1>5, <1>6, <1>7, <2>1, SnapAdded
<1>9. DeltasIn(hist', deltaLog', lost')
  <2>1. ASSUME NEW e \in 1..Len(hist'), NEW n \in 1..(Len(hist'[e]) - 1)
        PROVE  e \in 1..Len(hist) /\ n \in 1..(Len(hist[e]) - 1)
    <3>1. e \in 1..z \/ e = z + 1
      BY <1>3
    <3>2. CASE e \in 1..z
      BY <1>3, <3>2 DEF z
    <3>3. CASE e = z + 1
      <4>1. hist'[e] = <<b>> /\ Len(<<b>>) = 1
        BY <1>3, <3>3
      <4>. QED  BY <4>1
    <3>. QED  BY <3>1, <3>2, <3>3
  <2>2. DeltasIn(hist, deltaLog, lost)
    BY DEF LogsOK
  <2>3. DeltasIn(hist', deltaLog, lost)
    BY <1>3, <2>1, <2>2, SameDeltas
  <2>. QED  BY <1>2, <2>3
<1>10. Grown
  <2>1. \A j \in (Len(snapLog) + 1)..Len(snapLog') : \A x : RealIn(hist, x) => ~After(x, snapLog'[j])
    BY <1>7, <1>8
  <2>2. Len(deltaLog) \in Nat
    BY DEF LogsOK, DeltasIn
  <2>. QED  BY <1>2, <1>3, <1>8, <2>1, <2>2 DEF Grown
<1>. QED  BY <1>3, <1>8, <1>9, <1>10 DEF LogsOK

(* A periodic snapshot leaves books and topics in order, and only adds.      *)
LEMMA PublishSnapshotLogs ==
  ASSUME LogsOK, PublishSnapshot
  PROVE  LogsOK' /\ Grown
<1>. DEFINE s == Snapshot(Epoch, Seqno, Current)
            z == Len(hist)
            m == Len(hist[z])
<1>1. /\ hist' = hist /\ deltaLog' = deltaLog /\ lost' = lost /\ snapLog' = Append(snapLog, s)
      /\ z \in Nat /\ z > 0 /\ HistIn(hist)
  BY DEF PublishSnapshot, LogsOK, HistIn, Epoch
<1>2. z \in 1..z /\ m \in Nat /\ m >= 1 /\ hist[z] \in Seq(Books) /\ hist[z][m] \in Books
  <2>1. z \in 1..z
    BY <1>1
  <2>2. hist[z] \in Seq(Books) /\ m \in Nat /\ m >= 1
    BY <1>1, <2>1, GatewayAssumption DEF HistIn
  <2>. HIDE DEF m
  <2>3. m \in 1..m
    BY <2>2
  <2>. QED  BY <2>1, <2>2, <2>3 DEF m
<1>. HIDE DEF z, m
<1>3. s \in Snapshots /\ s.epoch = z /\ s.seq = m - 1 /\ Levels(s) = hist[z][m]
  <2>1. Epoch = z /\ Seqno = m - 1
    BY DEF Epoch, Seqno, z, m
  <2>2. Seqno + 1 = m /\ Seqno \in Nat
    BY <1>2, <2>1
  <2>3. Current = hist[z][m]
    BY <2>1, <2>2 DEF Current
  <2>. QED  BY <1>1, <1>2, <2>1, <2>2, <2>3, SnapshotOf
<1>. HIDE DEF s
<1>4. RightIn(hist, s)
  <2>1. s.seq \in 0..(m - 1) /\ s.seq + 1 = m
    BY <1>2, <1>3
  <2>. QED  BY <1>2, <1>3, <2>1 DEF RightIn, RealIn, z, m
<1>5. \A x : RealIn(hist, x) => ~After(x, s)
  <2>. TAKE x
  <2>. HAVE RealIn(hist, x)
  <2>1. x.epoch \in 1..z /\ x.seq \in 0..(Len(hist[x.epoch]) - 1)
    BY DEF RealIn, z
  <2>2. x.epoch = z => x.seq \in 0..(m - 1)
    BY <2>1 DEF m
  <2>. QED  BY <1>1, <1>2, <1>3, <2>1, <2>2 DEF After
<1>6. More(hist, hist)
  BY DEF More
<1>7. /\ SnapsIn(hist, snapLog') /\ Len(snapLog) \in Nat /\ Len(snapLog') = Len(snapLog) + 1
      /\ snapLog'[Len(snapLog) + 1] = s /\ \A j \in 1..Len(snapLog) : snapLog'[j] = snapLog[j]
  <2>1. SnapsIn(hist, snapLog) /\ s.epoch = Len(hist)
    BY <1>3 DEF LogsOK, z
  <2>. QED  BY <1>1, <1>3, <1>4, <1>5, <1>6, <2>1, SnapAdded
<1>8. Grown
  <2>1. \A j \in (Len(snapLog) + 1)..Len(snapLog') : \A x : RealIn(hist, x) => ~After(x, snapLog'[j])
    BY <1>5, <1>7
  <2>2. Len(deltaLog) \in Nat
    BY DEF LogsOK, DeltasIn
  <2>. QED  BY <1>1, <1>6, <1>7, <2>1, <2>2 DEF Grown
<1>. QED  BY <1>1, <1>7, <1>8 DEF LogsOK

(* A delta may name no level of a side.                                      *)
LEMMA NoOps ==
  <<>> \in Ops
<1>1. <<>> \in [{} -> Sizes \cup {NoSize}]
  OBVIOUS
<1>. QED  BY <1>1 DEF Ops

(* What one delta may change.                                                *)
LEMMA ChangeType ==
  ASSUME NEW c \in Changes
  PROVE  c.bids \in Ops /\ c.asks \in Ops
<1>1. \A f \in UNION {[{p} -> Sizes \cup {NoSize}] : p \in Prices} : f \in Ops
  <2>1. ASSUME NEW p \in Prices, NEW f \in [{p} -> Sizes \cup {NoSize}] PROVE f \in Ops
    <3>1. {p} \in SUBSET Prices
      OBVIOUS
    <3>. QED  BY <3>1 DEF Ops
  <2>. QED  BY <2>1
<1>. DEFINE Fs == UNION {[{p} -> Sizes \cup {NoSize}] : p \in Prices}
<1>. HIDE DEF Fs
<1>2. c \in {[bids |-> f, asks |-> <<>>] : f \in Fs} \cup {[bids |-> <<>>, asks |-> f] : f \in Fs}
  BY DEF Changes, Fs
<1>3. \A f \in Fs : f \in Ops
  BY <1>1 DEF Fs
<1>4. CASE c \in {[bids |-> f, asks |-> <<>>] : f \in Fs}
  BY <1>3, <1>4, NoOps
<1>5. CASE c \in {[bids |-> <<>>, asks |-> f] : f \in Fs}
  BY <1>3, <1>5, NoOps
<1>. QED  BY <1>2, <1>4, <1>5

(* The producer moves from a book to a book.                                 *)
LEMMA MovedType ==
  ASSUME NEW b \in Books, NEW c \in Changes
  PROVE  Moved(b, c) \in Books
<1>1. b.bids \in Side /\ b.asks \in Side
  BY DEF Books
<1>2. ApplyLevels(b.bids, c.bids) \in Side /\ ApplyLevels(b.asks, c.asks) \in Side
  BY <1>1, ChangeType, LevelsStay
<1>. QED  BY <1>2 DEF Moved, Books

\* The books g are the books h and the one the delta d moves them to.
OneMore(h, g, d) ==
  /\ More(h, g) /\ FitsIn(g, d)
  /\ \A x : FitsIn(h, x) => Before(x, d)
  /\ \A e \in 1..Len(g) : \A n \in 1..(Len(g[e]) - 1) :
       \/ e \in 1..Len(h) /\ n \in 1..(Len(h[e]) - 1)
       \/ e = d.epoch /\ n = d.seq

(* A delta that moves the producer's books can follow the deltas of the      *)
(* topic.                                                                    *)
LEMMA DeltaAdded ==
  ASSUME NEW h, NEW g, NEW q, NEW l, NEW d \in Deltas, DeltasIn(h, q, l), OneMore(h, g, d)
  PROVE  /\ DeltasIn(g, Append(q, d), l) /\ Len(q) \in Nat /\ Len(Append(q, d)) = Len(q) + 1
         /\ \A i \in 1..Len(q) : Append(q, d)[i] = q[i]
<1>. DEFINE r == Append(q, d)
<1>1. q \in Seq(Deltas) /\ Len(q) \in Nat
  BY DEF DeltasIn
<1>2. /\ r \in Seq(Deltas) /\ Len(r) = Len(q) + 1 /\ r[Len(q) + 1] = d
      /\ \A i \in 1..Len(q) : r[i] = q[i] /\ i \in 1..Len(r) /\ i < Len(q) + 1
      /\ Len(q) + 1 \in 1..Len(r)
      /\ \A i \in 1..Len(r) : i \in 1..Len(q) \/ i = Len(q) + 1
  BY <1>1
<1>. HIDE DEF r
<1>3. ASSUME NEW i \in 1..Len(r) PROVE FitsIn(g, r[i])
  BY <1>2 DEF DeltasIn, OneMore, More
<1>4. ASSUME NEW i \in 1..Len(r), NEW j \in 1..Len(r), i < j PROVE Before(r[i], r[j])
  <2>1. i \in 1..Len(q)
    BY <1>1, <1>2, <1>4
  <2>2. CASE j \in 1..Len(q)
    BY <1>2, <1>4, <2>1, <2>2 DEF DeltasIn
  <2>3. CASE j = Len(q) + 1
    <3>1. FitsIn(h, r[i])
      BY <1>2, <2>1 DEF DeltasIn
    <3>. QED  BY <1>2, <2>3, <3>1 DEF OneMore
  <2>. QED  BY <1>2, <2>2, <2>3
<1>5. ASSUME NEW e \in 1..Len(g), NEW n \in 1..(Len(g[e]) - 1)
      PROVE  [epoch |-> e, seq |-> n] \in l \/ \E i \in 1..Len(r) : r[i].epoch = e /\ r[i].seq = n
  <2>1. CASE e \in 1..Len(h) /\ n \in 1..(Len(h[e]) - 1)
    <3>1. \/ [epoch |-> e, seq |-> n] \in l
          \/ \E i \in 1..Len(q) : q[i].epoch = e /\ q[i].seq = n
      BY <2>1 DEF DeltasIn
    <3>. QED  BY <1>2, <3>1
  <2>2. CASE e = d.epoch /\ n = d.seq
    BY <1>2, <2>2
  <2>. QED  BY <2>1, <2>2 DEF OneMore
<1>6. DeltasIn(g, r, l)
  BY <1>2, <1>3, <1>4, <1>5 DEF DeltasIn
<1>. QED  BY <1>1, <1>2, <1>6 DEF r

(* One whose produce fails leaves the topic as it was, and is known as lost. *)
LEMMA DeltaLost ==
  ASSUME NEW h, NEW g, NEW q, NEW l, NEW d \in Deltas, DeltasIn(h, q, l), OneMore(h, g, d)
  PROVE  DeltasIn(g, q, l \cup {[epoch |-> d.epoch, seq |-> d.seq]})
  BY SMTT(40) DEF DeltasIn, OneMore, More

(* A delta, sent or lost, leaves books and topics in order, and only adds to *)
(* them.                                                                     *)
LEMMA PublishDeltaLogs ==
  ASSUME LogsOK, PublishDelta
  PROVE  LogsOK' /\ Grown
<1>. DEFINE z == Len(hist)
            m == Len(hist[z])
<1>1. PICK c \in Changes :
        /\ ~CrossedOrLocked(Moved(Current, c))
        /\ hist' = [hist EXCEPT ![Epoch] = Append(@, Moved(Current, c))]
        /\ \/ /\ deltaLog' = Append(deltaLog, [epoch |-> Epoch, seq |-> Seqno + 1,
                                               bids |-> c.bids, asks |-> c.asks])
              /\ lost' = lost
           \/ /\ lost' = lost \cup {[epoch |-> Epoch, seq |-> Seqno + 1]}
              /\ deltaLog' = deltaLog
  BY DEF PublishDelta
<1>2. /\ snapLog' = snapLog /\ HistIn(hist) /\ DeltasIn(hist, deltaLog, lost)
      /\ SnapsIn(hist, snapLog) /\ z \in Nat /\ z > 0 /\ Seqno < MaxSeq
  BY DEF PublishDelta, LogsOK, HistIn, Epoch
<1>3. z \in 1..z /\ m \in Nat /\ m >= 1 /\ m \in 1..m /\ hist[z] \in Seq(Books) /\ hist[z][m] \in Books
  <2>1. z \in 1..z
    BY <1>2
  <2>2. hist[z] \in Seq(Books) /\ m \in Nat /\ m >= 1
    BY <1>2, <2>1, GatewayAssumption DEF HistIn
  <2>. HIDE DEF m
  <2>3. m \in 1..m
    BY <2>2
  <2>. QED  BY <2>1, <2>2, <2>3 DEF m
<1>. HIDE DEF z, m
<1>4. Epoch = z /\ Seqno = m - 1 /\ Seqno + 1 = m /\ Current = hist[z][m] /\ m <= MaxSeq
  <2>1. Epoch = z /\ Seqno = m - 1
    BY DEF Epoch, Seqno, z, m
  <2>2. Seqno + 1 = m
    BY <1>3, <2>1
  <2>3. m <= MaxSeq
    BY <1>2, <1>3, <2>1, GatewayAssumption
  <2>. QED  BY <2>1, <2>2, <2>3 DEF Current
<1>. DEFINE b == Moved(hist[z][m], c)
            d == [epoch |-> z, seq |-> m, bids |-> c.bids, asks |-> c.asks]
<1>5. b \in Books
  BY <1>3, MovedType
<1>6. /\ d \in Deltas /\ d.epoch = z /\ d.seq = m /\ Moved(hist[z][m], d) = b
  BY <1>2, <1>3, ChangeType DEF Deltas, Moved
<1>. HIDE DEF b, d
<1>7. /\ HistIn(hist') /\ More(hist, hist') /\ Len(hist') = z
      /\ \A e \in 1..z : e # z => hist'[e] = hist[e]
      /\ Len(hist'[z]) = m + 1 /\ hist'[z][m + 1] = b
      /\ \A n \in 1..m : hist'[z][n] = hist[z][n]
  <2>1. hist' = [hist EXCEPT ![z] = Append(@, b)] /\ ~CrossedOrLocked(b)
    BY <1>1, <1>4 DEF b
  <2>2. hist' = Pushed(hist, b)
    BY <2>1 DEF z, Pushed
  <2>3. Len(hist) > 0 /\ Len(hist[Len(hist)]) <= MaxSeq
    BY <1>2, <1>4 DEF z, m
  <2>4. NextIs(hist, hist', b)
    BY <1>2, <1>5, <2>1, <2>2, <2>3, NextBook
  <2>. QED  BY <2>4 DEF NextIs, z, m
<1>8. OneMore(hist, hist', d)
  <2>1. FitsIn(hist', d)
    <3>1. hist'[z][m] = hist[z][m]
      BY <1>3, <1>7
    <3>2. m \in 1..(Len(hist'[z]) - 1)
      BY <1>3, <1>7
    <3>. QED  BY <1>3, <1>6, <1>7, <3>1, <3>2 DEF FitsIn
  <2>2. ASSUME NEW x, FitsIn(hist, x) PROVE Before(x, d)
    <3>1. x.epoch \in 1..z /\ x.seq \in 1..(Len(hist[x.epoch]) - 1)
      BY <2>2 DEF FitsIn, z
    <3>2. x.epoch = z => x.seq \in 1..(m - 1)
      BY <3>1 DEF m
    <3>. QED  BY <1>2, <1>3, <1>6, <3>1, <3>2 DEF Before
  <2>3. ASSUME NEW e \in 1..Len(hist'), NEW n \in 1..(Len(hist'[e]) - 1)
        PROVE  \/ e \in 1..Len(hist) /\ n \in 1..(Len(hist[e]) - 1)
               \/ e = d.epoch /\ n = d.seq
    <3>1. e \in 1..Len(hist)
      BY <1>7 DEF z
    <3>2. CASE e # z
      <4>1. hist'[e] = hist[e]
        BY <1>7, <3>1, <3>2 DEF z
      <4>. QED  BY <3>1, <4>1
    <3>3. CASE e = z
      <4>1. n \in 1..m /\ Len(hist[e]) = m
        BY <1>3, <1>7, <3>3 DEF m
      <4>2. n \in 1..(m - 1) \/ n = m
        BY <1>3, <4>1
      <4>. QED  BY <1>6, <3>1, <3>3, <4>1, <4>2
    <3>. QED  BY <3>2, <3>3
  <2>. QED  BY <1>7, <2>1, <2>2, <2>3 DEF OneMore
<1>9. /\ DeltasIn(hist', deltaLog', lost') /\ lost \subseteq lost'
      /\ Len(deltaLog) <= Len(deltaLog')
      /\ \A i \in 1..Len(deltaLog) : deltaLog'[i] = deltaLog[i]
  <2>1. CASE deltaLog' = Append(deltaLog, d) /\ lost' = lost
    BY <1>2, <1>6, <1>8, <2>1, DeltaAdded
  <2>2. CASE lost' = lost \cup {[epoch |-> z, seq |-> m]} /\ deltaLog' = deltaLog
    <3>1. DeltasIn(hist', deltaLog, lost \cup {[epoch |-> d.epoch, seq |-> d.seq]})
      BY <1>2, <1>6, <1>8, DeltaLost
    <3>2. Len(deltaLog) \in Nat
      BY <1>2 DEF DeltasIn
    <3>. QED  BY <1>6, <2>2, <3>1, <3>2
  <2>. QED  BY <1>1, <1>4, <2>1, <2>2 DEF d
<1>10. SnapsIn(hist', snapLog')
  BY <1>2, <1>7 DEF SnapsIn, More, z
<1>11. Grown
  <2>1. Len(snapLog) \in Nat
    BY <1>2 DEF SnapsIn
  <2>2. \A j \in (Len(snapLog) + 1)..Len(snapLog') : FALSE
    BY <1>2, <2>1
  <2>. QED  BY <1>2, <1>7, <1>9, <2>1, <2>2 DEF Grown
<1>. QED  BY <1>7, <1>9, <1>10, <1>11 DEF LogsOK

----------------------------------------------------------------------------
(* The shape of the gateway's entries *)

(* A stream in order stays in order when more deltas are read.               *)
LEMMA StreamMore ==
  ASSUME NEW D, NEW E, NEW bbo, NEW a, Stream(D, bbo, a), D \subseteq E, E \subseteq Deltas
  PROVE  Stream(E, bbo, a)
<1>1. a \in Streams(D, bbo) /\ GoodTail(a)
  BY DEF Stream
<1>2. a.pending \in Seq(D) /\ a.tail \in Seq(D)
  BY <1>1 DEF Streams
<1>3. a.pending \in Seq(E) /\ a.tail \in Seq(E)
  BY <1>2
<1>4. a \in Streams(E, bbo)
  BY <1>1, <1>3 DEF Streams
<1>. QED  BY <1>1, <1>4 DEF Stream

(* What has been read is in the log, and fits the producer's books.          *)
LEMMA ReadFits ==
  ASSUME LogsOK, di \in 0..Len(deltaLog)
  PROVE  /\ Read \subseteq Deltas
         /\ \A d \in Read : Fits(d) /\ Real(d) /\ \E i \in 1..di : deltaLog[i] = d
<1>1. /\ deltaLog \in Seq(Deltas) /\ Len(deltaLog) \in Nat
      /\ \A i \in 1..Len(deltaLog) : deltaLog[i] \in Deltas /\ Fits(deltaLog[i])
  BY DEF LogsOK, DeltasIn, Fits
<1>2. \A i \in 1..di : i \in 1..Len(deltaLog)
  BY <1>1
<1>3. ASSUME NEW d, Fits(d) PROVE Real(d)
  <2>1. Len(hist[d.epoch]) \in Nat
    BY <1>3 DEF Fits, FitsIn, LogsOK, HistIn
  <2>. QED  BY <1>3, <2>1 DEF Fits, FitsIn, Real, RealIn
<1>. QED  BY <1>1, <1>2, <1>3 DEF Read

(* Nothing is published and the aggregator has no entry.                     *)
LEMMA InitShape ==
  ASSUME Init
  PROVE  LogsOK /\ GateOK
<1>1. /\ hist = <<>> /\ snapLog = <<>> /\ deltaLog = <<>> /\ lost = {} /\ si = 0 /\ di = 0
      /\ agg = NewStream
  BY DEF Init
<1>2. LogsOK
  <2>1. HistIn(hist)
    BY <1>1, GatewayAssumption DEF HistIn
  <2>2. DeltasIn(hist, deltaLog, lost)
    BY <1>1 DEF DeltasIn
  <2>3. SnapsIn(hist, snapLog)
    BY <1>1 DEF SnapsIn
  <2>. QED  BY <2>1, <2>2, <2>3 DEF LogsOK
<1>3. EmptySide \in Side /\ None \in Marks /\ NewStream.book \in BookRecords
  BY DEF EmptySide, Side, None, Marks, NewStream, BookRecords
<1>4. Stream(Read, agg.bbo, agg)
  <2>1. Read \subseteq Deltas
    BY <1>1 DEF Read
  <2>2. agg \in Streams(Read, agg.bbo)
    BY <1>1, <1>3 DEF NewStream, Streams
  <2>3. GoodTail(agg)
    BY <1>1, TailAssumption DEF NewStream, GoodTail, Ordered
  <2>. QED  BY <2>1, <2>2, <2>3 DEF Stream
<1>5. /\ agg.pending = <<>> /\ agg.book.seq = -1
      /\ agg = [NewStream EXCEPT !.pending = agg.pending]
  BY <1>1 DEF NewStream
<1>6. GateOK
  BY <1>1, <1>4, <1>5, PendingAssumption DEF GateOK, Ordered, BboIsTop
<1>. QED  BY <1>2, <1>6

(* Whatever the producer adds, what is known of the gateway's entries stays  *)
(* true.                                                                     *)
LEMMA ProducerKeeps ==
  ASSUME LogsOK, LogsOK', GateOK, Grown, UNCHANGED <<si, di, agg>>
  PROVE  /\ GateOK' /\ Read' = Read
         /\ Accounts => Accounts'
         /\ Recalled => Recalled'
         /\ Truth => Truth'
<1>1. /\ si' = si /\ di' = di /\ agg' = agg /\ si \in 0..Len(snapLog) /\ di \in 0..Len(deltaLog)
      /\ Len(snapLog) \in Nat /\ Len(deltaLog) \in Nat /\ Len(snapLog') \in Nat
      /\ Len(deltaLog') \in Nat /\ Len(snapLog) <= Len(snapLog')
      /\ Len(deltaLog) <= Len(deltaLog')
  BY DEF GateOK, LogsOK, SnapsIn, DeltasIn, Grown
<1>2. /\ si \in 0..Len(snapLog') /\ di \in 0..Len(deltaLog')
      /\ \A i \in 1..di : i \in 1..Len(deltaLog)
  BY <1>1
<1>3. Read' = Read
  BY <1>1, <1>2 DEF Read, Grown
<1>4. \A x : Real(x) => RealIn(hist', x) /\ (Passed(x) => \A j \in (si + 1)..Len(snapLog') : ~After(x, snapLog'[j]))
  <2>. TAKE x
  <2>. HAVE Real(x)
  <2>1. RealIn(hist', x)
    BY DEF Real, Grown, More
  <2>2. ASSUME Passed(x), NEW j \in (si + 1)..Len(snapLog') PROVE ~After(x, snapLog'[j])
    <3>1. CASE j \in 1..Len(snapLog)
      <4>1. j \in (si + 1)..Len(snapLog) /\ snapLog'[j] = snapLog[j]
        BY <1>1, <3>1 DEF Grown
      <4>. QED  BY <2>2, <4>1 DEF Passed
    <3>2. CASE j \notin 1..Len(snapLog)
      <4>1. j \in (Len(snapLog) + 1)..Len(snapLog')
        BY <1>1, <3>2
      <4>. QED  BY <4>1 DEF Grown, Real
    <3>. QED  BY <3>1, <3>2
  <2>. QED  BY <2>1, <2>2
<1>5. \A d \in Read : Real(d)
  BY <1>1, ReadFits
<1>6. GateOK'
  <2>1. Stream(Read', agg'.bbo, agg')
    BY <1>1, <1>3 DEF GateOK
  <2>2. ASSUME agg.book.seq >= 0
        PROVE  /\ RealIn(hist', agg.book) /\ si >= 1 /\ snapLog'[si].epoch = agg.book.epoch
               /\ snapLog'[si].seq <= agg.book.seq
               /\ agg.tail = <<>> => \A j \in (si + 1)..Len(snapLog') : ~After(agg.book, snapLog'[j])
    <3>1. /\ Real(agg.book) /\ si >= 1 /\ snapLog[si].epoch = agg.book.epoch
          /\ snapLog[si].seq <= agg.book.seq
          /\ agg.tail = <<>> => Passed(agg.book)
      BY <2>2 DEF GateOK
    <3>2. snapLog'[si] = snapLog[si]
      <4>1. si \in 1..Len(snapLog)
        BY <1>1, <3>1
      <4>. QED  BY <4>1 DEF Grown
    <3>. QED  BY <1>4, <3>1, <3>2
  <2>. QED  BY <1>1, <1>2, <2>1, <2>2 DEF GateOK, Real, Passed, BboIsTop
<1>7. ASSUME Accounts PROVE Accounts'
  BY <1>1, <1>3, <1>4, <1>5, <1>7 DEF Accounts, Reached, Waiting, Passed
<1>8. ASSUME Recalled PROVE Recalled'
  BY <1>1, <1>3, <1>4, <1>5, <1>8 DEF Recalled, Passed
<1>9. ASSUME Truth PROVE Truth'
  <2>1. SUFFICES ASSUME lost' = {}, agg.book.seq >= 0 PROVE RightIn(hist', agg.book)
    BY <1>1 DEF Truth, Right
  <2>2. lost = {}
    BY <2>1 DEF Grown
  <2>. QED  BY <1>9, <2>1, <2>2 DEF Truth, Right, Grown, More
<1>. QED  BY <1>3, <1>6, <1>7, <1>8, <1>9

(* The next snapshot is the producer's, and no older than the book.          *)
LEMMA NextSnapshot ==
  ASSUME LogsOK, GateOK, si < Len(snapLog), NEW s, s = snapLog[si + 1]
  PROVE  /\ s \in Snapshots /\ Right(s) /\ Real(s) /\ s.epoch \in Nat /\ s.seq \in Nat
         /\ si \in Nat /\ si + 1 \in 1..Len(snapLog) /\ Len(snapLog) \in Nat
         /\ \A j \in (si + 2)..Len(snapLog) : ~After(s, snapLog[j])
         /\ agg.book.seq >= 0 => agg.book.epoch <= s.epoch
<1>1. /\ snapLog \in Seq(Snapshots) /\ Len(snapLog) \in Nat /\ si \in 0..Len(snapLog)
      /\ \A j \in 1..Len(snapLog) : Right(snapLog[j])
      /\ \A i, j \in 1..Len(snapLog) : i < j => ~After(snapLog[i], snapLog[j])
  BY DEF LogsOK, SnapsIn, GateOK, Right
<1>2. si \in Nat /\ si + 1 \in 1..Len(snapLog)
  BY <1>1
<1>3. s \in Snapshots /\ Right(s) /\ Real(s)
  BY <1>1, <1>2 DEF Right, RightIn, Real
<1>4. s.epoch \in Nat /\ s.seq \in Nat
  BY <1>3 DEF Snapshots
<1>5. \A j \in (si + 2)..Len(snapLog) : ~After(s, snapLog[j])
  <2>1. \A j \in (si + 2)..Len(snapLog) : j \in 1..Len(snapLog) /\ si + 1 < j
    BY <1>1, <1>2
  <2>. QED  BY <1>1, <1>2, <2>1
<1>6. agg.book.seq >= 0 => agg.book.epoch <= s.epoch
  <2>. HAVE agg.book.seq >= 0
  <2>1. si >= 1 /\ snapLog[si].epoch = agg.book.epoch
    BY DEF GateOK
  <2>2. si \in 1..Len(snapLog) /\ si < si + 1
    BY <1>2, <2>1
  <2>3. snapLog[si] \in Snapshots /\ ~After(snapLog[si], s)
    BY <1>1, <1>2, <2>2
  <2>. QED  BY <1>4, <2>1, <2>3 DEF After, Snapshots
<1>. QED  BY <1>1, <1>2, <1>3, <1>4, <1>5, <1>6

(* A walk from a book of the producer's over its deltas ends at one of its   *)
(* sequences.                                                                *)
LEMMA WalkReal ==
  ASSUME NEW b0, NEW q, NEW n, NEW b, Walked(b0, q, n, b), Real(b0), \A j \in 1..n : Real(q[j])
  PROVE  Real(b)
<1>1. CASE b = b0
  BY <1>1
<1>2. CASE b # b0
  <2>1. PICK j \in 1..n : q[j].epoch = b0.epoch /\ b.seq = q[j].seq
    BY <1>2 DEF Walked
  <2>2. b.epoch = q[j].epoch
    BY <2>1 DEF Walked
  <2>. QED  BY <2>1, <2>2 DEF Real, RealIn
<1>. QED  BY <1>1, <1>2

(* A snapshot that is taken leaves the stream in shape.                      *)
LEMMA AcceptShape ==
  ASSUME LogsOK, GateOK, si < Len(snapLog), si' = si + 1,
         UNCHANGED <<hist, snapLog, deltaLog, lost, di>>,
         NEW s, s = snapLog[si + 1], Applied(Read, agg, s, agg')
  PROVE  GateOK' /\ agg'.book.epoch = s.epoch /\ agg'.book.seq >= s.seq
<1>1. /\ s \in Snapshots /\ Right(s) /\ Real(s) /\ s.epoch \in Nat /\ s.seq \in Nat
      /\ si \in Nat /\ si + 1 \in 1..Len(snapLog) /\ Len(snapLog) \in Nat
      /\ \A j \in (si + 2)..Len(snapLog) : ~After(s, snapLog[j])
  BY NextSnapshot
<1>2. Read' = Read
  BY DEF Read
<1>3. /\ di \in 0..Len(deltaLog) /\ Stream(Read, agg.bbo, agg) /\ Len(agg.pending) <= di
      /\ Len(agg.pending) <= MAX_PENDING_DELTAS
      /\ agg.tail \in Seq(Read) /\ agg.pending \in Seq(Read)
      /\ Len(agg.tail) \in Nat /\ Len(agg.pending) \in Nat
  BY DEF GateOK, Stream, Streams
<1>4. /\ \A i \in 1..Len(agg.tail) : Real(agg.tail[i])
      /\ \A i \in 1..Len(agg.pending) : Real(agg.pending[i])
  <2>1. \A d \in Read : Real(d)
    BY <1>3, ReadFits
  <2>2. /\ \A i \in 1..Len(agg.tail) : agg.tail[i] \in Read
        /\ \A i \in 1..Len(agg.pending) : agg.pending[i] \in Read
    BY <1>3
  <2>. QED  BY <2>1, <2>2
<1>. DEFINE h == ReplayTail(agg, s)
<1>5. /\ Walked(ResetTo(s), agg.tail, Len(agg.tail), h)
      /\ Walked(h, agg.pending, Len(agg.pending), agg'.book)
      /\ Held(agg.pending, Len(agg.pending), Others(s.epoch), agg'.pending)
      /\ agg'.tail = <<>> => agg'.book = ResetTo(s)
      /\ Stream(Read, agg'.bbo, agg')
      /\ TwoSided(agg'.book) => agg'.bbo = Top(agg'.book)
  BY DEF Applied
<1>. HIDE DEF h
<1>6. /\ ResetTo(s).epoch = s.epoch /\ ResetTo(s).seq = s.seq /\ Real(ResetTo(s))
  BY <1>1, SnapshotSets DEF Real, RealIn
<1>7. h.epoch = s.epoch /\ h.seq >= s.seq /\ Real(h) /\ h.seq \in Int
  <2>1. Real(h)
    BY <1>4, <1>5, <1>6, WalkReal
  <2>. QED  BY <1>5, <1>6, <2>1 DEF Walked, BookRecords
<1>8. agg'.book.epoch = s.epoch /\ agg'.book.seq >= h.seq /\ Real(agg'.book) /\ agg'.book.seq \in Int
  <2>1. Real(agg'.book)
    BY <1>4, <1>5, <1>7, WalkReal
  <2>. QED  BY <1>5, <1>7, <2>1 DEF Walked, BookRecords
<1>9. agg'.book.seq >= s.seq /\ agg'.book.seq >= 0
  BY <1>1, <1>7, <1>8
<1>10. /\ Ordered(agg'.pending) /\ Len(agg'.pending) <= Len(agg.pending)
       /\ \A i \in 1..Len(agg'.pending) : agg'.pending[i].epoch # s.epoch
  BY <1>5 DEF Held, Others
<1>11. Len(agg'.pending) \in Nat
  BY <1>5 DEF Stream, Streams
<1>12. Len(agg'.pending) <= di /\ Len(agg'.pending) <= MAX_PENDING_DELTAS
  BY <1>3, <1>10, <1>11, PendingAssumption
<1>13. agg'.tail = <<>> => \A j \in (si + 1 + 1)..Len(snapLog) : ~After(agg'.book, snapLog[j])
  <2>. HAVE agg'.tail = <<>>
  <2>1. agg'.book.epoch = s.epoch /\ agg'.book.seq = s.seq
    BY <1>5, <1>6
  <2>. QED  BY <1>1, <2>1 DEF After
<1>14. si + 1 \in 0..Len(snapLog) /\ si + 1 >= 1 /\ ~(agg'.book.seq < 0)
  BY <1>1, <1>8, <1>9
<1>15. GateOK'
  <2>1. \A i \in 1..Len(agg'.pending) : NoBookFor(agg', agg'.pending[i])
    BY <1>8, <1>10 DEF NoBookFor
  <2>2. agg'.book.seq >= 0 =>
          /\ RealIn(hist', agg'.book) /\ si' >= 1 /\ snapLog'[si'].epoch = agg'.book.epoch
          /\ snapLog'[si'].seq <= agg'.book.seq
          /\ agg'.tail = <<>> => \A j \in (si' + 1)..Len(snapLog') : ~After(agg'.book, snapLog'[j])
    BY <1>8, <1>9, <1>13, <1>14 DEF Real
  <2>3. si' \in 0..Len(snapLog') /\ di' \in 0..Len(deltaLog') /\ Stream(Read', agg'.bbo, agg')
    BY <1>2, <1>3, <1>5, <1>14
  <2>4. Ordered(agg'.pending) /\ Len(agg'.pending) <= di' /\ Len(agg'.pending) <= MAX_PENDING_DELTAS
    BY <1>10, <1>12
  <2>. QED  BY <1>5, <1>14, <2>1, <2>2, <2>3, <2>4 DEF GateOK, Real, Passed, BboIsTop
<1>. QED  BY <1>8, <1>9, <1>15

(* ... and so does one that is skipped.                                      *)
LEMMA SkipShape ==
  ASSUME LogsOK, GateOK, si < Len(snapLog), si' = si + 1, agg' = agg,
         UNCHANGED <<hist, snapLog, deltaLog, lost, di>>,
         SkipsSnapshot(agg.book, snapLog[si + 1])
  PROVE  GateOK' /\ agg.book.seq >= 0
<1>. DEFINE s == snapLog[si + 1]
<1>1. /\ s.seq \in Nat /\ si \in Nat /\ si + 1 \in 1..Len(snapLog) /\ Len(snapLog) \in Nat
  BY NextSnapshot
<1>2. s.epoch = agg.book.epoch /\ s.seq <= agg.book.seq
  BY DEF SkipsSnapshot, StaleReSnapshot
<1>. HIDE DEF s
<1>3. agg.book.seq \in Int /\ Stream(Read, agg.bbo, agg)
  BY DEF GateOK, Stream, Streams, BookRecords
<1>4. agg.book.seq >= 0 /\ ~(agg.book.seq < 0) /\ si + 1 \in 0..Len(snapLog) /\ si + 1 >= 1
  BY <1>1, <1>2, <1>3
<1>5. agg.tail = <<>> => \A j \in (si + 1 + 1)..Len(snapLog) : ~After(agg.book, snapLog[j])
  <2>. HAVE agg.tail = <<>>
  <2>1. Passed(agg.book)
    BY <1>4 DEF GateOK
  <2>2. \A j \in (si + 1 + 1)..Len(snapLog) : j \in (si + 1)..Len(snapLog)
    BY <1>1
  <2>. QED  BY <2>1, <2>2 DEF Passed
<1>6. Read' = Read
  BY DEF Read
<1>7. GateOK'
  <2>1. Real(agg.book)
    BY <1>4 DEF GateOK
  <2>2. /\ di \in 0..Len(deltaLog) /\ Ordered(agg.pending) /\ Len(agg.pending) <= di
        /\ Len(agg.pending) <= MAX_PENDING_DELTAS /\ BboIsTop
        /\ \A i \in 1..Len(agg.pending) : NoBookFor(agg, agg.pending[i])
    BY DEF GateOK
  <2>. QED  BY <1>2, <1>3, <1>4, <1>5, <1>6, <2>1, <2>2 DEF GateOK, Real, Passed, BboIsTop, s
<1>. QED  BY <1>4, <1>7

(* The next delta is the producer's, and comes after all those read.         *)
LEMMA NextDelta ==
  ASSUME LogsOK, GateOK, di < Len(deltaLog), NEW d, d = deltaLog[di + 1]
  PROVE  /\ d \in Deltas /\ Fits(d) /\ Real(d) /\ d.epoch \in Nat /\ d.seq \in Nat
         /\ di \in Nat /\ di + 1 \in 1..Len(deltaLog) /\ Len(deltaLog) \in Nat
         /\ Read \subseteq Deltas /\ Read \cup {d} \subseteq Deltas
         /\ \A x \in Read : Before(x, d) /\ Fits(x) /\ Real(x)
<1>1. /\ deltaLog \in Seq(Deltas) /\ Len(deltaLog) \in Nat /\ di \in 0..Len(deltaLog)
      /\ \A i \in 1..Len(deltaLog) : Fits(deltaLog[i])
      /\ \A i, j \in 1..Len(deltaLog) : i < j => Before(deltaLog[i], deltaLog[j])
  BY DEF LogsOK, DeltasIn, GateOK, Fits
<1>2. di \in Nat /\ di + 1 \in 1..Len(deltaLog)
  BY <1>1
<1>3. d \in Deltas /\ Fits(d)
  BY <1>1, <1>2
<1>4. Real(d)
  <2>1. Len(hist[d.epoch]) \in Nat
    BY <1>3 DEF Fits, FitsIn, LogsOK, HistIn
  <2>. QED  BY <1>3, <2>1 DEF Fits, FitsIn, Real, RealIn
<1>5. Read \subseteq Deltas /\ \A x \in Read : Fits(x) /\ Real(x)
  BY <1>1, ReadFits
<1>6. \A x \in Read : Before(x, d)
  <2>. TAKE x \in Read
  <2>1. PICK i \in 1..di : deltaLog[i] = x
    BY DEF Read
  <2>2. i \in 1..Len(deltaLog) /\ i < di + 1
    BY <1>1, <1>2
  <2>. QED  BY <1>1, <1>2, <2>1, <2>2
<1>. QED  BY <1>1, <1>2, <1>3, <1>4, <1>5, <1>6 DEF Deltas

(* A consumed delta is one more read.                                        *)
LEMMA ReadNext ==
  ASSUME di \in Nat, di' = di + 1, deltaLog' = deltaLog, NEW d, d = deltaLog[di + 1]
  PROVE  Read' = Read \cup {d}
<1>1. \A i : i \in 1..(di + 1) <=> i \in 1..di \/ i = di + 1
  OBVIOUS
<1>. QED  BY <1>1 DEF Read

\* What a step that consumes the delta d leaves alone.
Consumes(d) ==
  /\ di < Len(deltaLog) /\ d = deltaLog[di + 1] /\ di' = di + 1
  /\ UNCHANGED <<hist, snapLog, deltaLog, lost, si>>

(* A delta that waits leaves the stream in shape.                            *)
LEMMA BufferShape ==
  ASSUME LogsOK, GateOK, NEW d, Consumes(d), NoBookFor(agg, d), agg' = Buffer(agg, d)
  PROVE  GateOK'
<1>1. /\ d \in Deltas /\ d.epoch \in Nat /\ d.seq \in Nat
      /\ di \in Nat /\ di + 1 \in 1..Len(deltaLog) /\ Len(deltaLog) \in Nat
      /\ Read \subseteq Deltas /\ Read \cup {d} \subseteq Deltas
      /\ \A x \in Read : Before(x, d)
  BY NextDelta DEF Consumes
<1>2. Read' = Read \cup {d}
  BY <1>1, ReadNext DEF Consumes
<1>3. Stream(Read, agg.bbo, agg) /\ Len(agg.pending) <= MAX_PENDING_DELTAS
      /\ Len(agg.pending) <= di /\ Ordered(agg.pending)
  BY DEF GateOK
<1>4. Stream(Read', agg.bbo, agg)
  BY <1>1, <1>2, <1>3, StreamMore
<1>5. /\ Stream(Read', agg.bbo, agg')
      /\ agg' = [agg EXCEPT !.pending = agg'.pending]
      /\ Len(agg'.pending) <= MAX_PENDING_DELTAS
      /\ Len(agg'.pending) <= Len(agg.pending) + 1
      /\ \E off \in Nat : \A i \in 1..Len(agg'.pending) :
              \/ i = Len(agg'.pending) /\ agg'.pending[i] = d
              \/ i + off \in 1..Len(agg.pending) /\ agg'.pending[i] = agg.pending[i + off]
  <2>1. d \in Read'
    BY <1>2
  <2>2. Buffered(Read', agg.bbo, agg, d, agg')
    BY <1>3, <1>4, <2>1, BufferKeeps
  <2>. QED  BY <2>2 DEF Buffered
<1>6. /\ agg'.book = agg.book /\ agg'.tail = agg.tail /\ agg'.bbo = agg.bbo
      /\ agg'.evicted = agg.evicted /\ agg'.underruns = agg.underruns
      /\ agg.pending \in Seq(Read) /\ agg'.pending \in Seq(Read')
      /\ Len(agg.pending) \in Nat /\ Len(agg'.pending) \in Nat
  <2>1. agg \in Streams(Read, agg.bbo) /\ agg' \in Streams(Read', agg.bbo)
    BY <1>3, <1>5 DEF Stream
  <2>. QED  BY <2>1, <1>5 DEF Streams
<1>7. PICK off \in Nat : \A i \in 1..Len(agg'.pending) :
         \/ i = Len(agg'.pending) /\ agg'.pending[i] = d
         \/ i + off \in 1..Len(agg.pending) /\ agg'.pending[i] = agg.pending[i + off]
  BY <1>5
<1>8. \A i \in 1..Len(agg.pending) : agg.pending[i] \in Read /\ agg.pending[i] \in Deltas
  BY <1>1, <1>6
<1>9. Ordered(agg'.pending)
  <2>. DEFINE p == agg'.pending
              q == agg.pending
  <2>. HIDE DEF p, q
  <2>1. SUFFICES ASSUME NEW i \in 1..Len(p), NEW j \in 1..Len(p), i < j, p[i].epoch = p[j].epoch
                 PROVE  p[i].seq < p[j].seq
    BY DEF Ordered, p
  <2>2. i + off \in 1..Len(q) /\ p[i] = q[i + off] /\ i + off < j + off
    BY <1>6, <1>7, <2>1 DEF p, q
  <2>3. CASE j = Len(p) /\ p[j] = d
    <3>1. q[i + off] \in Read
      BY <1>8, <2>2 DEF q
    <3>2. Before(p[i], d) /\ p[i] \in Deltas
      BY <1>1, <2>2, <3>1
    <3>. QED  BY <1>1, <2>1, <2>3, <3>2 DEF Before, Deltas
  <2>4. CASE j + off \in 1..Len(q) /\ p[j] = q[j + off]
    BY <1>3, <2>1, <2>2, <2>4 DEF Ordered, q
  <2>. QED  BY <1>7, <2>3, <2>4 DEF p, q
<1>10. \A i \in 1..Len(agg'.pending) : NoBookFor(agg', agg'.pending[i])
  <2>. TAKE i \in 1..Len(agg'.pending)
  <2>1. CASE agg'.pending[i] = d
    BY <1>6, <2>1 DEF NoBookFor
  <2>2. CASE i + off \in 1..Len(agg.pending) /\ agg'.pending[i] = agg.pending[i + off]
    <3>1. NoBookFor(agg, agg.pending[i + off])
      BY <2>2 DEF GateOK
    <3>. QED  BY <1>6, <2>2, <3>1 DEF NoBookFor
  <2>. QED  BY <1>7, <2>1, <2>2
<1>11. Len(agg'.pending) <= di + 1 /\ di + 1 \in 0..Len(deltaLog)
  BY <1>1, <1>3, <1>5, <1>6
<1>12. agg'.book.seq < 0 => agg' = [NewStream EXCEPT !.pending = agg'.pending]
  <2>. HAVE agg'.book.seq < 0
  <2>1. agg = [NewStream EXCEPT !.pending = agg.pending]
    BY <1>6 DEF GateOK
  <2>. QED  BY <1>5, <2>1 DEF NewStream
<1>13. agg.book.seq >= 0 =>
          /\ Real(agg.book)
          /\ si >= 1 /\ snapLog[si].epoch = agg.book.epoch /\ snapLog[si].seq <= agg.book.seq
          /\ agg.tail = <<>> => Passed(agg.book)
  BY DEF GateOK
<1>14. /\ si' \in 0..Len(snapLog') /\ di' \in 0..Len(deltaLog') /\ Stream(Read', agg'.bbo, agg')
       /\ Len(agg'.pending) <= di' /\ BboIsTop'
  <2>1. si \in 0..Len(snapLog) /\ BboIsTop
    BY DEF GateOK
  <2>. QED  BY <1>5, <1>6, <1>11, <2>1 DEF Consumes, BboIsTop
<1>15. hist' = hist /\ snapLog' = snapLog /\ si' = si
  BY DEF Consumes
<1>. QED  BY <1>5, <1>6, <1>9, <1>10, <1>12, <1>13, <1>14, <1>15 DEF GateOK, Real, Passed

(* What a delta that is taken does to the entries.                           *)
LEMMA TakenDelta ==
  ASSUME LogsOK, GateOK, NEW d, Consumes(d), ~NoBookFor(agg, d), d.seq > agg.book.seq,
         agg' = DeriveBbo(Take(agg, d))
  PROVE  /\ Stream(Read', agg'.bbo, agg') /\ agg'.tail # <<>> /\ Recalls(agg', d)
         /\ agg'.book = ApplyUnguarded(agg.book, d) /\ agg'.book \in BookRecords
         /\ agg'.book.epoch = agg.book.epoch /\ agg'.book.seq = d.seq /\ d.epoch = agg.book.epoch
         /\ agg.book \in BookRecords /\ agg.book.seq >= 0
         /\ agg'.pending = agg.pending /\ agg'.underruns = agg.underruns
         /\ \A x \in Deltas : Recalls(agg, x) => Recalls(agg', x)
         /\ TwoSided(agg'.book) => agg'.bbo = Top(agg'.book)
<1>1. /\ d \in Deltas /\ d.seq \in Nat /\ di \in Nat
      /\ Read \subseteq Deltas /\ Read \cup {d} \subseteq Deltas
  BY NextDelta DEF Consumes
<1>2. Read' = Read \cup {d}
  BY <1>1, ReadNext DEF Consumes
<1>3. Stream(Read', agg.bbo, agg)
  BY <1>1, <1>2, StreamMore DEF GateOK
<1>4. agg.book \in BookRecords /\ agg.book.seq \in Int
  BY <1>3 DEF Stream, Streams, BookRecords
<1>5. d.epoch = agg.book.epoch /\ agg.book.seq >= 0
  BY <1>4 DEF NoBookFor
<1>. DEFINE x == Take(agg, d)
<1>6. TakenInto(Read', agg.bbo, agg, d, x)
  <2>1. d \in Read'
    BY <1>2
  <2>2. ~(d.seq <= agg.book.seq)
    BY <1>1, <1>4
  <2>. QED  BY <1>3, <1>5, <2>1, <2>2, TakeKeepsTail
<1>. HIDE DEF x
<1>7. /\ Stream(Read', agg.bbo, x) /\ Recalls(x, d) /\ x.tail # <<>>
      /\ x.book = ApplyUnguarded(agg.book, d) /\ x.pending = agg.pending
      /\ x.underruns = agg.underruns
      /\ \A y \in Deltas : Recalls(agg, y) => Recalls(x, y)
  BY <1>6 DEF TakenInto
<1>8. /\ Stream(Read', agg'.bbo, agg')
      /\ agg'.book = x.book /\ agg'.pending = x.pending
      /\ agg'.tail = x.tail /\ agg'.evicted = x.evicted
      /\ agg'.underruns = x.underruns
      /\ TwoSided(x.book) => agg'.bbo = Top(x.book)
  <2>1. agg' = DeriveBbo(x)
    BY DEF x
  <2>. QED  BY <1>7, <2>1, DeriveKeeps
<1>9. \A y : Recalls(x, y) => Recalls(agg', y)
  BY <1>8 DEF Recalls
<1>10. /\ agg'.book.epoch = agg.book.epoch /\ agg'.book.seq = d.seq /\ agg'.book \in BookRecords
  BY <1>1, <1>4, <1>7, <1>8, UnguardedType
<1>. QED  BY <1>4, <1>5, <1>7, <1>8, <1>9, <1>10

(* A delta that is taken leaves the stream in shape.                         *)
LEMMA TakeShape ==
  ASSUME LogsOK, GateOK, NEW d, Consumes(d), ~NoBookFor(agg, d), d.seq > agg.book.seq,
         agg' = DeriveBbo(Take(agg, d))
  PROVE  GateOK'
<1>1. /\ Stream(Read', agg'.bbo, agg') /\ agg'.tail # <<>>
      /\ agg'.book.epoch = agg.book.epoch /\ agg'.book.seq = d.seq /\ d.epoch = agg.book.epoch
      /\ agg.book \in BookRecords /\ agg.book.seq >= 0 /\ agg'.pending = agg.pending
      /\ TwoSided(agg'.book) => agg'.bbo = Top(agg'.book)
  BY TakenDelta
<1>2. /\ d.seq \in Nat /\ Real(d) /\ di \in Nat /\ di + 1 \in 1..Len(deltaLog)
      /\ Len(deltaLog) \in Nat
  BY NextDelta DEF Consumes
<1>3. agg.book.seq \in Int /\ ~(agg.book.seq < 0) /\ ~(agg'.book.seq < 0) /\ agg'.book.seq >= 0
      /\ agg.book.seq <= agg'.book.seq
  BY <1>1, <1>2 DEF BookRecords
<1>4. Real(agg'.book)
  BY <1>1, <1>2 DEF Real, RealIn
<1>5. /\ si >= 1 /\ snapLog[si].epoch = agg'.book.epoch /\ snapLog[si].seq <= agg'.book.seq
  <2>1. si >= 1 /\ snapLog[si].epoch = agg.book.epoch /\ snapLog[si].seq <= agg.book.seq
    BY <1>3 DEF GateOK
  <2>2. snapLog[si].seq \in Int
    <3>1. si \in 1..Len(snapLog) /\ snapLog \in Seq(Snapshots)
      BY <2>1 DEF GateOK, LogsOK, SnapsIn
    <3>2. snapLog[si] \in Snapshots
      BY <3>1
    <3>. QED  BY <3>2 DEF Snapshots
  <2>3. snapLog[si].seq <= agg'.book.seq
    BY <1>3, <1>1, <1>2, <2>1, <2>2
  <2>. QED  BY <1>1, <2>1, <2>3
<1>6. \A i \in 1..Len(agg'.pending) : NoBookFor(agg', agg'.pending[i])
  BY <1>1, <1>3 DEF GateOK, NoBookFor
<1>7. /\ si \in 0..Len(snapLog) /\ Ordered(agg.pending) /\ Len(agg.pending) <= di
      /\ Len(agg.pending) <= MAX_PENDING_DELTAS /\ Len(agg.pending) \in Nat
  BY DEF GateOK, Stream, Streams
<1>8. di + 1 \in 0..Len(deltaLog) /\ Len(agg'.pending) <= di + 1
  BY <1>1, <1>2, <1>7
<1>9. /\ hist' = hist /\ snapLog' = snapLog /\ si' = si /\ deltaLog' = deltaLog /\ di' = di + 1
  BY DEF Consumes
<1>. QED  BY <1>1, <1>3, <1>4, <1>5, <1>6, <1>7, <1>8, <1>9 DEF GateOK, Real, Passed, BboIsTop

(* ... and so does one at or below the book's sequence.                      *)
LEMMA IgnoreShape ==
  ASSUME LogsOK, GateOK, NEW d, Consumes(d), agg' = agg
  PROVE  GateOK'
<1>1. /\ d \in Deltas /\ di \in Nat /\ di + 1 \in 1..Len(deltaLog) /\ Len(deltaLog) \in Nat
      /\ Read \subseteq Deltas /\ Read \cup {d} \subseteq Deltas
  BY NextDelta DEF Consumes
<1>2. Read' = Read \cup {d}
  BY <1>1, ReadNext DEF Consumes
<1>3. Stream(Read', agg.bbo, agg)
  BY <1>1, <1>2, StreamMore DEF GateOK
<1>4. Len(agg.pending) <= di /\ Len(agg.pending) \in Nat
  BY DEF GateOK, Stream, Streams
<1>5. di + 1 \in 0..Len(deltaLog) /\ Len(agg.pending) <= di + 1
  BY <1>1, <1>4
<1>. QED  BY <1>3, <1>5 DEF GateOK, Consumes, Real, Passed, BboIsTop

(* A gateway that starts on logs already written has read deltas, and knows  *)
(* nothing of them.                                                          *)
LEMMA WarmStartShape ==
  ASSUME LogsOK, GateOK, WarmStart
  PROVE  GateOK'
<1>1. /\ agg = NewStream /\ agg' = agg /\ hist' = hist /\ snapLog' = snapLog
      /\ deltaLog' = deltaLog /\ di' \in 0..Len(deltaLog) /\ di = 0
      /\ si' = Len(snapLog) - 1 \/ si' = Len(snapLog)
      /\ snapLog # <<>>
  BY DEF WarmStart
<1>2. Len(snapLog) \in Nat /\ Len(snapLog) > 0 /\ Len(deltaLog) \in Nat
  BY <1>1 DEF LogsOK, SnapsIn, DeltasIn
<1>3. si' \in 0..Len(snapLog') /\ di' \in 0..Len(deltaLog') /\ di' \in Nat
  BY <1>1, <1>2
<1>4. Read = {} /\ Read' \subseteq Deltas
  <2>1. Read = {}
    BY <1>1 DEF Read
  <2>2. deltaLog \in Seq(Deltas)
    BY DEF LogsOK, DeltasIn
  <2>3. \A i \in 1..di' : i \in 1..Len(deltaLog)
    BY <1>1, <1>2
  <2>4. Read' \subseteq Deltas
    BY <1>1, <2>2, <2>3 DEF Read
  <2>. QED  BY <2>1, <2>4
<1>5. Stream(Read', agg'.bbo, agg')
  BY <1>1, <1>4, StreamMore DEF GateOK
<1>6. /\ agg'.pending = <<>> /\ agg'.book.seq = -1
      /\ agg' = [NewStream EXCEPT !.pending = agg'.pending]
  BY <1>1 DEF NewStream
<1>. QED  BY <1>3, <1>5, <1>6, PendingAssumption DEF GateOK, Ordered, BboIsTop

----------------------------------------------------------------------------
(* The shape is an invariant *)

\* What a step that consumes the snapshot s leaves alone.
Hears(s) ==
  /\ si < Len(snapLog) /\ s = snapLog[si + 1] /\ si' = si + 1
  /\ UNCHANGED <<hist, snapLog, deltaLog, lost, di>>

\* The three things a delta can come to.
DeltaWaits(d) == NoBookFor(agg, d) /\ agg' = Buffer(agg, d)
DeltaIsOld(d) == ~NoBookFor(agg, d) /\ d.seq <= agg.book.seq /\ agg' = agg
DeltaMoves(d) == ~NoBookFor(agg, d) /\ d.seq > agg.book.seq /\ agg' = DeriveBbo(Take(agg, d))

(* A delta waits, is old, or moves the book.                                 *)
LEMMA DeltaCases ==
  ASSUME LogsOK, GateOK, ConsumeDelta
  PROVE  \E d : Consumes(d) /\ (DeltaWaits(d) \/ DeltaIsOld(d) \/ DeltaMoves(d))
<1>. DEFINE d == deltaLog[di + 1]
<1>1. Consumes(d) /\ agg' = ApplyDelta(agg, d)
  BY DEF ConsumeDelta, Consumes
<1>. HIDE DEF d
<1>2. d.seq \in Nat
  BY <1>1, NextDelta DEF Consumes
<1>3. agg.book.seq \in Int
  BY DEF GateOK, Stream, Streams, BookRecords
<1>4. DeltaWaits(d) \/ DeltaIsOld(d) \/ DeltaMoves(d)
  BY <1>1, <1>2, <1>3 DEF ApplyDelta, DeltaWaits, DeltaIsOld, DeltaMoves
<1>. QED  BY <1>1, <1>4

\* The two things a snapshot can come to.
SnapshotSkipped(s) == SkipsSnapshot(agg.book, s) /\ agg' = agg
SnapshotTaken(s) == ~SkipsSnapshot(agg.book, s) /\ Applied(Read, agg, s, agg')

(* A snapshot is skipped or taken.                                           *)
LEMMA SnapshotCases ==
  ASSUME LogsOK, GateOK, ConsumeSnapshot
  PROVE  \E s : Hears(s) /\ (SnapshotSkipped(s) \/ SnapshotTaken(s))
<1>. DEFINE s == snapLog[si + 1]
<1>1. Hears(s) /\ agg' = ApplySnapshot(agg, s)
  BY DEF ConsumeSnapshot, Hears
<1>. HIDE DEF s
<1>2. s \in Snapshots
  BY <1>1, NextSnapshot DEF Hears
<1>3. Stream(Read, agg.bbo, agg) /\ Ordered(agg.pending)
  BY DEF GateOK
<1>4. CASE SkipsSnapshot(agg.book, s)
  BY <1>1, <1>4 DEF ApplySnapshot, SnapshotSkipped
<1>5. CASE ~SkipsSnapshot(agg.book, s)
  <2>1. Applied(Read, agg, s, ApplySnapshot(agg, s))
    BY <1>2, <1>3, <1>5, SnapshotApplied
  <2>. QED  BY <1>1, <1>5, <2>1 DEF SnapshotTaken
<1>. QED  BY <1>4, <1>5

(* The producer's steps leave the gateway alone.                             *)
LEMMA ProducerSteps ==
  ASSUME LogsOK, Connect \/ PublishDelta \/ PublishSnapshot
  PROVE  LogsOK' /\ Grown /\ UNCHANGED <<si, di, agg>>
<1>1. UNCHANGED <<si, di, agg>>
  BY DEF Connect, PublishDelta, PublishSnapshot
<1>. QED  BY <1>1, ConnectLogs, PublishDeltaLogs, PublishSnapshotLogs

(* The consumer leaves the producer's books and topics as they are.          *)
LEMMA SameLogs ==
  ASSUME LogsOK, UNCHANGED <<hist, snapLog, deltaLog, lost>>
  PROVE  LogsOK'
BY DEF LogsOK

(* Every step keeps the shape: the producer's steps by ProducerKeeps, the    *)
(* consumer's by what becomes of the message, a late start by knowing        *)
(* nothing.                                                                  *)
LEMMA ShapeStep ==
  ASSUME Shape, [Next]_vars
  PROVE  Shape'
<1>0. LogsOK /\ GateOK
  BY DEF Shape
<1>1. CASE Connect \/ PublishDelta \/ PublishSnapshot
  BY <1>0, <1>1, ProducerSteps, ProducerKeeps DEF Shape
<1>2. CASE WarmStart
  <2>1. UNCHANGED <<hist, snapLog, deltaLog, lost>>
    BY <1>2 DEF WarmStart
  <2>. QED  BY <1>0, <1>2, <2>1, SameLogs, WarmStartShape DEF Shape
<1>3. CASE ConsumeSnapshot
  <2>1. PICK s : Hears(s) /\ (SnapshotSkipped(s) \/ SnapshotTaken(s))
    BY <1>0, <1>3, SnapshotCases
  <2>2. LogsOK'
    BY <1>0, <2>1, SameLogs DEF Hears
  <2>3. CASE SnapshotSkipped(s)
    BY <1>0, <2>1, <2>2, <2>3, SkipShape DEF Hears, SnapshotSkipped, Shape
  <2>4. CASE SnapshotTaken(s)
    BY <1>0, <2>1, <2>2, <2>4, AcceptShape DEF Hears, SnapshotTaken, Shape
  <2>. QED  BY <2>1, <2>3, <2>4
<1>4. CASE ConsumeDelta
  <2>1. PICK d : Consumes(d) /\ (DeltaWaits(d) \/ DeltaIsOld(d) \/ DeltaMoves(d))
    BY <1>0, <1>4, DeltaCases
  <2>2. LogsOK'
    BY <1>0, <2>1, SameLogs DEF Consumes
  <2>3. CASE DeltaWaits(d)
    BY <1>0, <2>1, <2>2, <2>3, BufferShape DEF DeltaWaits, Shape
  <2>4. CASE DeltaIsOld(d)
    BY <1>0, <2>1, <2>2, <2>4, IgnoreShape DEF DeltaIsOld, Shape
  <2>5. CASE DeltaMoves(d)
    BY <1>0, <2>1, <2>2, <2>5, TakeShape DEF DeltaMoves, Shape
  <2>. QED  BY <2>1, <2>3, <2>4, <2>5
<1>5. CASE UNCHANGED vars
  BY <1>5 DEF vars, Shape, LogsOK, GateOK, Read, Real, Passed, BboIsTop
<1>. QED  BY <1>1, <1>2, <1>3, <1>4, <1>5 DEF Next

(* Shape holds in every reachable state, for any sizes of queue and tail,    *)
(* any loss and any order of the two topics.                                 *)
THEOREM ShapeInvariant == Spec => []Shape
<1>1. Init => Shape
  BY InitShape DEF Shape
<1>. QED  BY <1>1, ShapeStep, PTL DEF Spec

(* The shape is what TypeOK says, and more.                                  *)
LEMMA ShapeTypes == Shape => TypeOK
<1>. SUFFICES ASSUME Shape PROVE TypeOK
  OBVIOUS
<1>1. /\ Stream(Read, agg.bbo, agg) /\ Ordered(agg.pending)
      /\ Len(agg.pending) <= MAX_PENDING_DELTAS
      /\ \A i \in 1..Len(agg.pending) : NoBookFor(agg, agg.pending[i])
  BY DEF Shape, GateOK
<1>2. agg.book \in BookRecords /\ GoodTail(agg)
  BY <1>1 DEF Stream, Streams
<1>3. Levels(agg.book) \in Books
  BY <1>2 DEF BookRecords, Levels, Books
<1>4. agg.book.seq \in -1..MaxSeq /\ agg.book.epoch \in 0..MaxEpochs
  <2>0. MaxSeq \in Nat /\ MaxEpochs \in Nat /\ agg.book.seq \in Int
    BY <1>2, GatewayAssumption DEF BookRecords
  <2>1. CASE agg.book.seq < 0
    <3>1. agg.book = NewStream.book
      BY <2>1 DEF Shape, GateOK, NewStream
    <3>. QED  BY <2>0, <3>1 DEF NewStream
  <2>2. CASE agg.book.seq >= 0
    <3>1. Real(agg.book)
      BY <2>2 DEF Shape, GateOK
    <3>2. /\ agg.book.epoch \in 1..Len(hist) /\ Len(hist) \in Nat /\ Len(hist) <= MaxEpochs
          /\ Len(hist[agg.book.epoch]) \in 1..(MaxSeq + 1)
          /\ agg.book.seq \in 0..(Len(hist[agg.book.epoch]) - 1)
      BY <3>1 DEF Shape, LogsOK, HistIn, Real, RealIn
    <3>. QED  BY <2>0, <3>2
  <2>. QED  BY <2>0, <2>1, <2>2
<1>. QED  BY <1>1, <1>2, <1>3, <1>4 DEF TypeOK, GoodTail

(* aggregator.ts: the entries of a stream stay in shape.  No delta waits in  *)
(* the pending queue that its own book could take, the queue and the applied *)
(* tail keep their bounds, and the tail is the book's own epoch, in order,   *)
(* never ahead of the book.  Whatever the sizes, the losses and the order of *)
(* the two topics.                                                           *)
THEOREM Types == Spec => []TypeOK
BY ShapeInvariant, ShapeTypes, PTL

(* aggregator.ts deriveBbo: the BBO last handed out is the top of the book   *)
(* whenever the book has two sides, after every delta, drain, heal and       *)
(* skipped snapshot, with no hypothesis at all.                              *)
THEOREM BboTheorem == Spec => []BboIsTop
<1>1. Shape => BboIsTop
  BY DEF Shape, GateOK
<1>. QED  BY <1>1, ShapeInvariant, PTL

(* A snapshot that is taken leaves the book where it was or further on: the  *)
(* last delta of the tail is the one the book stood at.                      *)
LEMMA TakenKeepsProgress ==
  ASSUME Shape, NEW s, Hears(s), SnapshotTaken(s), agg'.book.epoch = agg.book.epoch
  PROVE  agg'.book.seq >= agg.book.seq
<1>0. LogsOK /\ GateOK /\ Applied(Read, agg, s, agg')
  BY DEF Shape, SnapshotTaken
<1>1. agg'.book.epoch = s.epoch /\ agg'.book.seq >= s.seq
  BY <1>0, AcceptShape DEF Hears
<1>2. s \in Snapshots /\ s.seq \in Nat /\ si + 1 \in 1..Len(snapLog) /\ si \in Nat
      /\ Len(snapLog) \in Nat
  BY <1>0, NextSnapshot DEF Hears
<1>3. /\ agg.book.seq \in Int /\ agg'.book.seq \in Int /\ agg.tail \in Seq(Read)
      /\ GoodTail(agg) /\ Len(agg.tail) \in Nat
  BY <1>0 DEF GateOK, Applied, Stream, Streams, BookRecords
<1>4. SUFFICES ASSUME agg.book.seq > s.seq PROVE agg'.book.seq >= agg.book.seq
  BY <1>1, <1>2, <1>3
<1>5. agg.tail # <<>>
  <2>1. SUFFICES ASSUME agg.tail = <<>> PROVE FALSE
    OBVIOUS
  <2>2. agg.book.seq >= 0
    BY <1>2, <1>3, <1>4
  <2>3. Passed(agg.book)
    BY <1>0, <2>1, <2>2 DEF GateOK
  <2>4. ~After(agg.book, s)
    BY <1>2, <2>3 DEF Passed, Hears
  <2>. QED  BY <1>1, <1>4, <2>4 DEF After
<1>6. /\ Len(agg.tail) \in 1..Len(agg.tail)
      /\ agg.tail[Len(agg.tail)].seq = agg.book.seq
      /\ agg.tail[Len(agg.tail)].epoch = s.epoch
  <2>1. Len(agg.tail) >= 1
    BY <1>3, <1>5
  <2>. QED  BY <1>1, <1>3, <1>5, <2>1 DEF GoodTail
<1>. DEFINE h == ReplayTail(agg, s)
<1>7. Walked(ResetTo(s), agg.tail, Len(agg.tail), h) /\ Walked(h, agg.pending, Len(agg.pending), agg'.book)
  BY <1>0 DEF Applied
<1>8. ResetTo(s).epoch = s.epoch
  BY <1>2, SnapshotSets
<1>. HIDE DEF h
<1>9. h.seq >= agg.book.seq /\ h.seq \in Int
  BY <1>6, <1>7, <1>8 DEF Walked, BookRecords
<1>. QED  BY <1>3, <1>7, <1>9 DEF Walked

(* book.ts and aggregator.ts: within an epoch the book never goes back,      *)
(* although a heal starts over from an older snapshot; not when deltas were  *)
(* lost, not when the tail had shed what the heal wanted.                    *)
THEOREM HealKeepsProgressTheorem == Spec => HealKeepsProgress
<1>1. ASSUME Shape, [Next]_vars, agg'.book.epoch = agg.book.epoch
      PROVE  agg'.book.seq >= agg.book.seq
  <2>0. LogsOK /\ GateOK /\ agg.book.seq \in Int
    BY <1>1 DEF Shape, GateOK, Stream, Streams, BookRecords
  <2>1. CASE agg' = agg
    BY <2>0, <2>1
  <2>2. CASE ConsumeSnapshot
    BY <1>1, <2>0, <2>1, <2>2, SnapshotCases, TakenKeepsProgress DEF SnapshotSkipped
  <2>3. CASE ConsumeDelta
    <3>1. PICK d : Consumes(d) /\ (DeltaWaits(d) \/ DeltaIsOld(d) \/ DeltaMoves(d))
      BY <2>0, <2>3, DeltaCases
    <3>2. CASE DeltaWaits(d)
      <4>1. agg'.book = agg.book
        <5>1. agg \in Streams(Read, agg.bbo)
          BY <2>0 DEF GateOK, Stream
        <5>. QED  BY <3>2, <5>1 DEF DeltaWaits, Buffer, Streams
      <4>. QED  BY <2>0, <4>1
    <3>3. CASE DeltaMoves(d)
      <4>1. agg'.book.seq = d.seq /\ d.seq > agg.book.seq
        BY <2>0, <3>1, <3>3, TakenDelta DEF DeltaMoves
      <4>2. d.seq \in Nat
        BY <2>0, <3>1, NextDelta DEF Consumes
      <4>. QED  BY <2>0, <4>1, <4>2
    <3>. QED  BY <2>1, <3>1, <3>2, <3>3 DEF DeltaIsOld
  <2>. QED
    BY <1>1, <2>1, <2>2, <2>3 DEF Next, vars, Connect, PublishDelta, PublishSnapshot, WarmStart
<1>. QED  BY <1>1, ShapeInvariant, PTL DEF Spec, HealKeepsProgress

----------------------------------------------------------------------------
(* Where every delta read has gone                                           *)

(* The types of what the consumer holds and has read.                        *)
LEMMA ReadTypes ==
  ASSUME Shape
  PROVE  /\ Read \subseteq Deltas /\ \A x \in Read : Fits(x) /\ x.epoch \in Nat /\ x.seq \in Nat
         /\ agg.book \in BookRecords /\ agg.book.seq \in Int /\ agg.book.epoch \in Nat
         /\ agg.tail \in Seq(Read) /\ agg.pending \in Seq(Read)
         /\ Len(agg.tail) \in Nat /\ Len(agg.pending) \in Nat
         /\ GoodTail(agg)
         /\ si \in Nat /\ di \in Nat /\ Len(snapLog) \in Nat /\ Len(deltaLog) \in Nat
         /\ si <= Len(snapLog) /\ di <= Len(deltaLog)
         /\ \A j \in 1..Len(snapLog) : snapLog[j].epoch \in Nat /\ snapLog[j].seq \in Nat
<1>1. Read \subseteq Deltas /\ \A x \in Read : Fits(x)
  BY ReadFits DEF Shape, GateOK
<1>2. \A x \in Read : x.epoch \in Nat /\ x.seq \in Nat
  BY <1>1 DEF Deltas
<1>3. agg \in Streams(Read, agg.bbo) /\ GoodTail(agg)
  BY DEF Shape, GateOK, Stream
<1>4. agg.book \in BookRecords /\ agg.tail \in Seq(Read) /\ agg.pending \in Seq(Read)
  BY <1>3 DEF Streams
<1>5. agg.book.seq \in Int /\ agg.book.epoch \in Nat
  BY <1>4 DEF BookRecords
<1>6. snapLog \in Seq(Snapshots) /\ deltaLog \in Seq(Deltas)
  BY DEF Shape, LogsOK, SnapsIn, DeltasIn
<1>7. \A j \in 1..Len(snapLog) : snapLog[j] \in Snapshots
  BY <1>6
<1>8. \A j \in 1..Len(snapLog) : snapLog[j].epoch \in Nat /\ snapLog[j].seq \in Nat
  BY <1>7 DEF Snapshots
<1>9. si \in 0..Len(snapLog) /\ di \in 0..Len(deltaLog) /\ Len(snapLog) \in Nat /\ Len(deltaLog) \in Nat
  BY <1>6 DEF Shape, GateOK
<1>. QED  BY <1>1, <1>2, <1>3, <1>4, <1>5, <1>8, <1>9

(* Nothing that waits or that the tail holds is of the epoch of a snapshot   *)
(* the book is not on; what is replayed over such a one is nothing.          *)
LEMMA TakenFacts ==
  ASSUME Shape, NEW s, Hears(s), SnapshotTaken(s)
  PROVE  /\ s \in Snapshots /\ s.epoch \in Nat /\ s.seq \in Nat /\ Right(ResetTo(s))
         /\ ResetTo(s).epoch = s.epoch /\ ResetTo(s).seq = s.seq
         /\ \A j \in (si + 2)..Len(snapLog) : ~After(s, snapLog[j])
         /\ si + 1 \in 1..Len(snapLog) /\ snapLog[si + 1] = s
         /\ agg'.book.epoch = s.epoch /\ agg'.book.seq \in Nat /\ agg'.book.seq >= s.seq
         /\ agg.book.seq >= 0 => agg.book.epoch <= s.epoch
         /\ agg.book.seq >= 0 /\ agg.book.epoch = s.epoch =>
              /\ agg'.book.seq >= agg.book.seq
              /\ \A i \in 1..Len(agg.pending) : agg.pending[i].epoch # s.epoch
         /\ ~(agg.book.seq >= 0 /\ agg.book.epoch = s.epoch) =>
              /\ \A i \in 1..Len(agg.tail) : agg.tail[i].epoch # s.epoch
              /\ ReplayTail(agg, s) = ResetTo(s)
<1>0. LogsOK /\ GateOK /\ Applied(Read, agg, s, agg')
  BY DEF Shape, SnapshotTaken
<1>1. /\ s \in Snapshots /\ Right(s) /\ s.epoch \in Nat /\ s.seq \in Nat
      /\ si + 1 \in 1..Len(snapLog) /\ \A j \in (si + 2)..Len(snapLog) : ~After(s, snapLog[j])
      /\ agg.book.seq >= 0 => agg.book.epoch <= s.epoch
  BY <1>0, NextSnapshot DEF Hears
<1>2. /\ ResetTo(s).epoch = s.epoch /\ ResetTo(s).seq = s.seq /\ Levels(ResetTo(s)) = Levels(s)
  BY <1>1, SnapshotSets
<1>3. Right(ResetTo(s))
  BY <1>1, <1>2 DEF Right, RightIn, RealIn
<1>4. agg'.book.epoch = s.epoch /\ agg'.book.seq >= s.seq
  BY <1>0, AcceptShape DEF Hears
<1>5. agg'.book.seq \in Nat
  <2>1. agg'.book.seq \in Int
    BY <1>0 DEF Applied, Stream, Streams, BookRecords
  <2>. QED  BY <1>1, <1>4, <2>1
<1>6. ASSUME agg.book.seq >= 0, agg.book.epoch = s.epoch
      PROVE  /\ agg'.book.seq >= agg.book.seq
             /\ \A i \in 1..Len(agg.pending) : agg.pending[i].epoch # s.epoch
  <2>1. ~(agg.book.seq < 0)
    BY <1>6, ReadTypes
  <2>2. \A i \in 1..Len(agg.pending) : agg.pending[i].epoch # s.epoch
    BY <1>0, <1>6, <2>1 DEF GateOK, NoBookFor
  <2>. QED  BY <1>4, <1>6, <2>2, TakenKeepsProgress
<1>7. ASSUME ~(agg.book.seq >= 0 /\ agg.book.epoch = s.epoch)
      PROVE  /\ \A i \in 1..Len(agg.tail) : agg.tail[i].epoch # s.epoch
             /\ ReplayTail(agg, s) = ResetTo(s)
  <2>1. \A i \in 1..Len(agg.tail) : agg.tail[i].epoch # s.epoch
    <3>1. CASE agg.book.seq < 0
      <4>1. agg.tail = <<>>
        BY <1>0, <3>1 DEF GateOK, NewStream
      <4>. QED  BY <4>1
    <3>2. CASE agg.book.seq >= 0
      BY <1>7, <3>2, ReadTypes DEF GoodTail
    <3>. QED  BY <3>1, <3>2, ReadTypes
  <2>2. Walked(ResetTo(s), agg.tail, Len(agg.tail), ReplayTail(agg, s))
    BY <1>0 DEF Applied
  <2>. QED  BY <1>2, <2>1, <2>2 DEF Walked
<1>. QED  BY <1>1, <1>2, <1>3, <1>4, <1>5, <1>6, <1>7 DEF Hears

(* What waited before a snapshot is in the book after it, or waits still.    *)
LEMMA TakenPending ==
  ASSUME Shape, NEW s, Hears(s), SnapshotTaken(s), NEW i \in 1..Len(agg.pending)
  PROVE  \/ agg.pending[i].epoch = s.epoch /\ agg.pending[i].seq <= agg'.book.seq
         \/ /\ agg.pending[i].epoch # s.epoch
            /\ \E j \in 1..Len(agg'.pending) : agg'.pending[j] = agg.pending[i]
<1>. DEFINE h == ReplayTail(agg, s)
<1>1. /\ Walked(ResetTo(s), agg.tail, Len(agg.tail), h)
      /\ Walked(h, agg.pending, Len(agg.pending), agg'.book)
      /\ Held(agg.pending, Len(agg.pending), Others(s.epoch), agg'.pending)
  BY DEF SnapshotTaken, Applied
<1>2. ResetTo(s).epoch = s.epoch
  BY TakenFacts
<1>. HIDE DEF h
<1>3. h.epoch = s.epoch
  BY <1>1, <1>2 DEF Walked
<1>4. agg.pending[i] \in Deltas
  BY ReadTypes
<1>5. CASE agg.pending[i].epoch = s.epoch
  BY <1>1, <1>3, <1>5 DEF Walked
<1>6. CASE agg.pending[i].epoch # s.epoch
  <2>1. agg.pending[i] \in Others(s.epoch)
    BY <1>4, <1>6 DEF Others
  <2>. QED  BY <1>1, <1>6, <2>1 DEF Held
<1>. QED  BY <1>5, <1>6

(* A snapshot that is taken loses sight of no delta.                         *)
LEMMA AccountsTaken ==
  ASSUME Shape, Accounts, NEW s, Hears(s), SnapshotTaken(s)
  PROVE  Accounts'
<1>1. Read' = Read
  BY DEF Hears, Read
<1>2. SUFFICES ASSUME NEW d \in Read
               PROVE  \/ agg'.book.seq >= 0 /\ ~After(d, agg'.book)
                      \/ \E i \in 1..Len(agg'.pending) : agg'.pending[i] = d
  BY <1>1 DEF Accounts, Reached, Waiting
<1>3. d.epoch \in Nat /\ d.seq \in Nat
  BY ReadTypes
<1>4. /\ s.epoch \in Nat /\ s.seq \in Nat
      /\ agg'.book.epoch = s.epoch /\ agg'.book.seq \in Nat /\ agg'.book.seq >= s.seq
  BY TakenFacts
<1>5. CASE Reached(d)
  <2>1. /\ agg.book.seq >= 0 /\ ~After(d, agg.book) /\ agg.book.epoch <= s.epoch
        /\ agg.book.epoch = s.epoch => agg'.book.seq >= agg.book.seq
    BY <1>5, TakenFacts DEF Reached
  <2>2. agg.book.seq \in Int /\ agg.book.epoch \in Nat
    BY ReadTypes
  <2>. QED  BY <1>3, <1>4, <2>1, <2>2 DEF After
<1>6. CASE Waiting(d)
  <2>1. PICK i \in 1..Len(agg.pending) : agg.pending[i] = d
    BY <1>6 DEF Waiting
  <2>2. CASE d.epoch = s.epoch /\ d.seq <= agg'.book.seq
    BY <1>3, <1>4, <2>2 DEF After
  <2>. QED  BY <2>1, <2>2, TakenPending
<1>7. CASE Passed(d)
  <2>1. si + 1 \in (si + 1)..Len(snapLog) /\ snapLog[si + 1] = s
    <3>1. si + 1 \in 1..Len(snapLog) /\ snapLog[si + 1] = s /\ si \in Nat /\ Len(snapLog) \in Nat
      BY TakenFacts, ReadTypes
    <3>. QED  BY <3>1
  <2>2. ~After(d, s)
    BY <1>7, <2>1 DEF Passed
  <2>. QED  BY <1>3, <1>4, <2>2 DEF After
<1>. QED  BY <1>5, <1>6, <1>7 DEF Accounts

(* Nor does a delta, as long as the pending queue does not shed one.         *)
LEMMA AccountsDelta ==
  ASSUME Shape, Accounts, Roomy, ConsumeDelta
  PROVE  Accounts'
<1>1. PICK d : Consumes(d) /\ (DeltaWaits(d) \/ DeltaIsOld(d) \/ DeltaMoves(d))
  BY DeltaCases DEF Shape
<1>2. di \in Nat /\ d \in Deltas /\ d.epoch \in Nat /\ d.seq \in Nat
  BY <1>1, NextDelta DEF Consumes, Shape
<1>3. Read' = Read \cup {d} /\ si' = si /\ snapLog' = snapLog
  BY <1>1, <1>2, ReadNext DEF Consumes
<1>4. SUFFICES ASSUME NEW x \in Read \cup {d}
               PROVE  \/ agg'.book.seq >= 0 /\ ~After(x, agg'.book)
                      \/ \E i \in 1..Len(agg'.pending) : agg'.pending[i] = x
                      \/ agg'.book.seq < 0 /\ Passed(x)
  BY <1>3 DEF Accounts, Reached, Waiting, Passed
<1>5. x # d => Reached(x) \/ Waiting(x) \/ (agg.book.seq < 0 /\ Passed(x))
  BY DEF Accounts
<1>6. x \in Deltas /\ x.epoch \in Nat /\ x.seq \in Nat /\ agg.book.seq \in Int /\ agg.book.epoch \in Nat
  BY <1>2, ReadTypes
<1>7. CASE DeltaWaits(d)
  <2>1. agg'.pending = Append(agg.pending, d) /\ agg'.book = agg.book
    <3>1. Stream(Read \cup {d}, agg.bbo, agg) /\ Len(agg.pending) <= MAX_PENDING_DELTAS
      <4>1. Read \cup {d} \subseteq Deltas
        BY <1>2, ReadTypes
      <4>. QED  BY <4>1, StreamMore DEF Shape, GateOK
    <3>2. Buffered(Read \cup {d}, agg.bbo, agg, d, agg')
      BY <1>7, <3>1, BufferKeeps DEF DeltaWaits
    <3>3. Len(agg.pending) < MAX_PENDING_DELTAS
      BY <1>1 DEF Roomy, Consumes
    <3>4. agg'.book = agg.book
      <4>1. agg \in Streams(Read \cup {d}, agg.bbo)
        BY <3>1 DEF Stream
      <4>. QED  BY <1>7, <4>1 DEF DeltaWaits, Buffer, Streams
    <3>. QED  BY <3>2, <3>3, <3>4 DEF Buffered
  <2>2. agg.pending \in Seq(Read) /\ Len(agg.pending) \in Nat
    BY ReadTypes
  <2>3. /\ \A i \in 1..Len(agg.pending) : i \in 1..Len(agg'.pending) /\ agg'.pending[i] = agg.pending[i]
        /\ Len(agg.pending) + 1 \in 1..Len(agg'.pending) /\ agg'.pending[Len(agg.pending) + 1] = d
    BY <2>1, <2>2
  <2>4. CASE x = d
    BY <2>3, <2>4
  <2>5. CASE x # d
    BY <1>5, <2>1, <2>3, <2>5 DEF Reached, Waiting
  <2>. QED  BY <2>4, <2>5
<1>8. CASE DeltaIsOld(d)
  <2>1. agg' = agg /\ Reached(d)
    BY <1>2, <1>6, <1>8 DEF DeltaIsOld, NoBookFor, Reached, After
  <2>. QED  BY <1>5, <2>1 DEF Reached, Waiting
<1>9. CASE DeltaMoves(d)
  <2>1. /\ agg'.book.epoch = agg.book.epoch /\ agg'.book.seq = d.seq /\ d.epoch = agg.book.epoch
        /\ agg.book.seq >= 0 /\ agg'.pending = agg.pending /\ d.seq > agg.book.seq
    BY <1>1, <1>9, TakenDelta DEF DeltaMoves, Shape
  <2>2. CASE x = d
    BY <1>2, <2>1, <2>2 DEF After
  <2>3. CASE x # d
    BY <1>2, <1>5, <1>6, <2>1, <2>3 DEF Reached, Waiting, After
  <2>. QED  BY <2>2, <2>3
<1>. QED  BY <1>1, <1>7, <1>8, <1>9

(* Nor does any other step.                                                  *)
LEMMA AccountsStep ==
  ASSUME Shape, Accounts, Roomy, [Next]_vars
  PROVE  Accounts'
<1>0. LogsOK /\ GateOK
  BY DEF Shape
<1>1. CASE Connect \/ PublishDelta \/ PublishSnapshot
  BY <1>0, <1>1, ProducerSteps, ProducerKeeps
<1>2. CASE WarmStart
  <2>1. /\ agg' = agg /\ agg.book.seq = -1 /\ snapLog' = snapLog /\ deltaLog' = deltaLog
    BY <1>2 DEF WarmStart, NewStream
  <2>2. Len(snapLog) \in Nat
    BY ReadTypes
  <2>3. \A i \in 1..di' : \A j \in (si' + 1)..Len(snapLog) : ~After(deltaLog[i], snapLog[j])
    <3>1. CASE si' = Len(snapLog) - 1 /\ \A i \in 1..di' : ~After(deltaLog[i], snapLog[Len(snapLog)])
      <4>1. \A j \in (si' + 1)..Len(snapLog) : j = Len(snapLog)
        BY <2>2, <3>1
      <4>. QED  BY <3>1, <4>1
    <3>2. CASE si' = Len(snapLog)
      <4>1. \A j \in (si' + 1)..Len(snapLog) : FALSE
        BY <2>2, <3>2
      <4>. QED  BY <4>1
    <3>. QED  BY <1>2, <3>1, <3>2 DEF WarmStart
  <2>. QED  BY <2>1, <2>3 DEF Accounts, Read, Passed
<1>3. CASE ConsumeSnapshot
  <2>1. PICK s : Hears(s) /\ (SnapshotSkipped(s) \/ SnapshotTaken(s))
    BY <1>0, <1>3, SnapshotCases
  <2>2. CASE SnapshotSkipped(s)
    <3>1. agg' = agg /\ Read' = Read /\ snapLog' = snapLog /\ si' = si + 1
      BY <2>1, <2>2 DEF SnapshotSkipped, Hears, Read
    <3>2. \A j \in (si' + 1)..Len(snapLog) : j \in (si + 1)..Len(snapLog)
      BY <3>1, ReadTypes
    <3>. QED  BY <3>1, <3>2 DEF Accounts, Reached, Waiting, Passed
  <2>. QED  BY <2>1, <2>2, AccountsTaken
<1>4. CASE ConsumeDelta
  BY <1>4, AccountsDelta
<1>5. CASE UNCHANGED vars
  BY SMTT(40), <1>5 DEF vars, Accounts, Read, Reached, Waiting, Passed
<1>. QED  BY <1>1, <1>2, <1>3, <1>4, <1>5 DEF Next

----------------------------------------------------------------------------
(* What a heal can still recall                                              *)

(* A delta that was consumed and belongs to the book's epoch is in the book. *)
LEMMA InTheBook ==
  ASSUME Shape, Accounts, NEW x \in Read, agg.book.seq >= 0, x.epoch = agg.book.epoch
  PROVE  x.seq <= agg.book.seq
<1>1. x.seq \in Nat /\ x.epoch \in Nat /\ agg.book.seq \in Int
  BY ReadTypes
<1>2. ~Waiting(x)
  <2>1. ASSUME NEW i \in 1..Len(agg.pending), agg.pending[i] = x PROVE FALSE
    <3>1. NoBookFor(agg, agg.pending[i])
      BY DEF Shape, GateOK
    <3>. QED  BY <1>1, <2>1, <3>1 DEF NoBookFor
  <2>. QED  BY <2>1 DEF Waiting
<1>3. Reached(x)
  BY <1>1, <1>2 DEF Accounts
<1>. QED  BY <1>1, <1>3 DEF Reached, After

\* x is behind every snapshot from the (k + 1)-th on.
Behind(x, k) == \A j \in (k + 1)..Len(snapLog) : ~After(x, snapLog[j])

(* What is behind a message is behind what that message is behind.           *)
LEMMA BehindToo ==
  ASSUME Shape, NEW x, NEW y, NEW k \in Nat, Behind(y, k), ~After(x, y),
         x.epoch \in Nat, x.seq \in Nat, y.epoch \in Nat, y.seq \in Int
  PROVE  Behind(x, k)
<1>1. SUFFICES ASSUME NEW j \in (k + 1)..Len(snapLog) PROVE ~After(x, snapLog[j])
  BY DEF Behind
<1>2. snapLog[j].epoch \in Nat /\ snapLog[j].seq \in Nat
  <2>1. j \in 1..Len(snapLog)
    BY ReadTypes
  <2>. QED  BY <2>1, ReadTypes
<1>3. ~After(y, snapLog[j])
  BY DEF Behind
<1>. QED  BY <1>2, <1>3 DEF After

(* After a heal the tail still holds what the snapshots to come may ask for. *)
LEMMA RecalledTaken ==
  ASSUME Shape, Accounts, Recalled, NEW s, Hears(s), SnapshotTaken(s)
  PROVE  Recalled'
<1>1. Read' = Read /\ si' = si + 1 /\ snapLog' = snapLog
  BY DEF Hears, Read
<1>2. SUFFICES ASSUME NEW d \in Read, d.epoch = agg'.book.epoch, d.seq <= agg'.book.seq
               PROVE  Recalls(agg', d) \/ Behind(d, si + 1)
  BY <1>1 DEF Recalled, Passed, Behind
<1>3. /\ d \in Deltas /\ d.epoch \in Nat /\ d.seq \in Nat /\ si \in Nat /\ si + 1 \in Nat
      /\ agg.book.seq \in Int /\ agg.book.epoch \in Nat
  BY ReadTypes
<1>4. /\ s.epoch \in Nat /\ s.seq \in Nat /\ agg'.book.epoch = s.epoch
      /\ \A j \in (si + 2)..Len(snapLog) : ~After(s, snapLog[j])
      /\ agg.book.seq >= 0 => agg.book.epoch <= s.epoch
  BY TakenFacts
<1>5. Behind(s, si + 1)
  <2>1. si + 1 + 1 = si + 2
    BY <1>3
  <2>. QED  BY <1>4, <2>1 DEF Behind
<1>6. Passed(d) => Behind(d, si + 1)
  <2>1. \A j \in (si + 1 + 1)..Len(snapLog) : j \in (si + 1)..Len(snapLog)
    BY <1>3
  <2>. QED  BY <2>1 DEF Passed, Behind
<1>7. CASE d.seq <= s.seq
  BY <1>2, <1>3, <1>4, <1>5, <1>7, BehindToo DEF After
<1>8. CASE d.seq > s.seq
  <2>1. Recalls(agg, d) => Recalls(agg', d)
    BY <1>2, <1>3, <1>4, <1>8 DEF SnapshotTaken, Applied, Newer
  <2>2. CASE agg.book.seq >= 0 /\ agg.book.epoch = s.epoch
    <3>1. d.seq <= agg.book.seq
      BY <1>2, <1>4, <2>2, InTheBook
    <3>. QED  BY <1>2, <1>4, <1>6, <2>1, <2>2, <3>1 DEF Recalled
  <2>3. CASE ~(agg.book.seq >= 0 /\ agg.book.epoch = s.epoch)
    <3>1. ReplayTail(agg, s).seq = s.seq
      BY <2>3, TakenFacts
    <3>2. ~Reached(d)
      BY <1>2, <1>3, <1>4, <2>3 DEF Reached, After
    <3>3. CASE Waiting(d)
      <4>1. PICK i \in 1..Len(agg.pending) : agg.pending[i] = d
        BY <3>3 DEF Waiting
      <4>. QED  BY <1>2, <1>4, <1>8, <3>1, <4>1 DEF SnapshotTaken, Applied
    <3>. QED  BY <1>6, <3>2, <3>3 DEF Accounts
  <2>. QED  BY <2>2, <2>3
<1>. QED  BY <1>3, <1>4, <1>7, <1>8

(* A delta that is taken can be recalled, and so can those before it.        *)
LEMMA RecalledDelta ==
  ASSUME Shape, Accounts, Recalled, ConsumeDelta
  PROVE  Recalled'
<1>1. PICK d : Consumes(d) /\ (DeltaWaits(d) \/ DeltaIsOld(d) \/ DeltaMoves(d))
  BY DeltaCases DEF Shape
<1>2. /\ di \in Nat /\ d \in Deltas /\ d.epoch \in Nat /\ d.seq \in Nat
      /\ \A x \in Read : Before(x, d)
  BY <1>1, NextDelta DEF Consumes, Shape
<1>3. Read' = Read \cup {d} /\ si' = si /\ snapLog' = snapLog
  BY <1>1, <1>2, ReadNext DEF Consumes
<1>4. SUFFICES ASSUME NEW x \in Read \cup {d}, agg'.book.seq >= 0,
                      x.epoch = agg'.book.epoch, x.seq <= agg'.book.seq
               PROVE  Recalls(agg', x) \/ Passed(x)
  BY <1>3 DEF Recalled, Passed
<1>5. x \in Deltas /\ x.epoch \in Nat /\ x.seq \in Nat /\ agg.book.seq \in Int /\ agg.book.epoch \in Nat
  BY <1>2, ReadTypes
<1>6. CASE DeltaWaits(d)
  <2>1. /\ agg'.book = agg.book /\ agg'.tail = agg.tail /\ agg'.evicted = agg.evicted
    <3>1. agg \in Streams(Read, agg.bbo)
      BY DEF Shape, GateOK, Stream
    <3>. QED  BY <1>6, <3>1 DEF DeltaWaits, Buffer, Streams
  <2>2. x # d
    BY <1>4, <1>5, <1>6, <2>1 DEF DeltaWaits, NoBookFor
  <2>. QED  BY <1>4, <2>1, <2>2 DEF Recalled, Recalls
<1>7. CASE DeltaIsOld(d)
  <2>1. agg' = agg /\ agg.book.seq >= 0 /\ d.epoch = agg.book.epoch /\ d.seq <= agg.book.seq
    BY <1>5, <1>7 DEF DeltaIsOld, NoBookFor
  <2>2. CASE x # d
    BY <1>4, <2>1, <2>2 DEF Recalled
  <2>3. CASE x = d
    <3>1. CASE agg.tail = <<>>
      <4>1. Passed(agg.book)
        BY <2>1, <3>1 DEF Shape, GateOK
      <4>2. Behind(x, si)
        BY <1>5, <2>1, <2>3, <4>1, BehindToo, ReadTypes DEF Passed, Behind, After
      <4>. QED  BY <4>2 DEF Passed, Behind
    <3>2. CASE agg.tail # <<>>
      <4>1. agg.tail \in Seq(Read) /\ Len(agg.tail) \in Nat /\ GoodTail(agg)
        BY ReadTypes
      <4>2. Len(agg.tail) \in 1..Len(agg.tail)
        BY <3>2, <4>1
      <4>. DEFINE y == agg.tail[Len(agg.tail)]
      <4>3. y \in Read /\ y.seq = agg.book.seq /\ y.epoch = agg.book.epoch
        BY <3>2, <4>1, <4>2 DEF GoodTail
      <4>. HIDE DEF y
      <4>. QED  BY <1>2, <1>5, <2>1, <4>3 DEF Before
    <3>. QED  BY <3>1, <3>2
  <2>. QED  BY <2>2, <2>3
<1>8. CASE DeltaMoves(d)
  <2>1. /\ agg'.book.epoch = agg.book.epoch /\ agg.book.seq >= 0 /\ Recalls(agg', d)
        /\ \A y \in Deltas : Recalls(agg, y) => Recalls(agg', y)
    BY <1>1, <1>8, TakenDelta DEF DeltaMoves, Shape
  <2>2. CASE x # d
    <3>1. x.seq <= agg.book.seq
      BY <1>4, <2>1, <2>2, InTheBook
    <3>2. Recalls(agg, x) \/ Passed(x)
      BY <1>4, <2>1, <2>2, <3>1 DEF Recalled
    <3>. QED  BY <1>5, <2>1, <3>2
  <2>. QED  BY <2>1, <2>2
<1>. QED  BY <1>1, <1>6, <1>7, <1>8

(* Every step keeps what a heal can still recall.                            *)
LEMMA RecalledStep ==
  ASSUME Shape, Accounts, Recalled, [Next]_vars
  PROVE  Recalled'
<1>0. LogsOK /\ GateOK
  BY DEF Shape
<1>1. CASE Connect \/ PublishDelta \/ PublishSnapshot
  BY <1>0, <1>1, ProducerSteps, ProducerKeeps
<1>2. CASE WarmStart
  <2>1. agg'.book.seq = -1
    BY <1>2 DEF WarmStart, NewStream
  <2>. QED  BY <2>1 DEF Recalled
<1>3. CASE ConsumeSnapshot
  <2>1. PICK s : Hears(s) /\ (SnapshotSkipped(s) \/ SnapshotTaken(s))
    BY <1>0, <1>3, SnapshotCases
  <2>2. CASE SnapshotSkipped(s)
    <3>1. agg' = agg /\ Read' = Read /\ snapLog' = snapLog /\ si' = si + 1
      BY <2>1, <2>2 DEF SnapshotSkipped, Hears, Read
    <3>2. \A j \in (si' + 1)..Len(snapLog) : j \in (si + 1)..Len(snapLog)
      BY <3>1, ReadTypes
    <3>. QED  BY <3>1, <3>2 DEF Recalled, Passed
  <2>. QED  BY <2>1, <2>2, RecalledTaken
<1>4. CASE ConsumeDelta
  BY <1>4, RecalledDelta
<1>5. CASE UNCHANGED vars
  BY <1>5 DEF vars, Recalled, Read, Passed
<1>. QED  BY <1>1, <1>2, <1>3, <1>4, <1>5 DEF Next

----------------------------------------------------------------------------
(* Whose book it is                                                          *)

(* What came before a delta of the log was lost, or is in the log before it. *)
LEMMA Predecessor ==
  ASSUME LogsOK, NEW i \in 1..Len(deltaLog), deltaLog[i].seq > 1
  PROVE  \/ [epoch |-> deltaLog[i].epoch, seq |-> deltaLog[i].seq - 1] \in lost
         \/ \E k \in 1..(i - 1) : /\ deltaLog[k].epoch = deltaLog[i].epoch
                                  /\ deltaLog[k].seq = deltaLog[i].seq - 1
<1>. DEFINE d == deltaLog[i]
<1>1. /\ deltaLog \in Seq(Deltas) /\ Len(deltaLog) \in Nat
      /\ \A n, k \in 1..Len(deltaLog) : n < k => Before(deltaLog[n], deltaLog[k])
      /\ FitsIn(hist, d)
  BY DEF LogsOK, DeltasIn
<1>2. d \in Deltas /\ d.epoch \in Nat /\ d.seq \in Nat
  <2>1. d \in Deltas
    BY <1>1
  <2>. QED  BY <2>1 DEF Deltas
<1>3. d.epoch \in 1..Len(hist) /\ d.seq \in 1..(Len(hist[d.epoch]) - 1)
  BY <1>1 DEF FitsIn
<1>4. Len(hist[d.epoch]) \in Nat
  BY <1>3 DEF LogsOK, HistIn
<1>5. d.seq - 1 \in 1..(Len(hist[d.epoch]) - 1)
  BY <1>2, <1>3, <1>4
<1>6. \/ [epoch |-> d.epoch, seq |-> d.seq - 1] \in lost
      \/ \E k \in 1..Len(deltaLog) : deltaLog[k].epoch = d.epoch /\ deltaLog[k].seq = d.seq - 1
  BY <1>3, <1>5 DEF LogsOK, DeltasIn
<1>7. ASSUME NEW k \in 1..Len(deltaLog), deltaLog[k].epoch = d.epoch, deltaLog[k].seq = d.seq - 1
      PROVE  k \in 1..(i - 1)
  <2>1. ~Before(d, deltaLog[k])
    BY <1>2, <1>7 DEF Before
  <2>2. ~(i < k) /\ i # k
    BY <1>1, <1>2, <1>7, <2>1
  <2>. QED  BY <2>2
<1>. QED  BY <1>6, <1>7 DEF d

\* The one before x is of the same connection.
LEMMA ReadPredecessor ==
  ASSUME Shape, NEW x \in Read, x.seq > 1
  PROVE  \/ [epoch |-> x.epoch, seq |-> x.seq - 1] \in lost
         \/ \E y \in Read : y.epoch = x.epoch /\ y.seq = x.seq - 1
<1>1. PICK i \in 1..di : deltaLog[i] = x
  BY DEF Read
<1>2. i \in 1..Len(deltaLog) /\ \A k \in 1..(i - 1) : k \in 1..di
  BY ReadTypes
<1>. QED  BY <1>1, <1>2, Predecessor DEF Read, Shape

(* The producer's book is not crossed, so the stale snapshots are skipped.   *)
LEMMA RightIsNotCrossed ==
  ASSUME Shape, Right(agg.book)
  PROVE  ~Crossed(agg.book)
<1>1. /\ agg.book.epoch \in 1..Len(hist) /\ agg.book.seq \in 0..(Len(hist[agg.book.epoch]) - 1)
      /\ Levels(agg.book) = hist[agg.book.epoch][agg.book.seq + 1]
  BY DEF Right, RightIn, RealIn
<1>2. agg.book.seq + 1 \in 1..Len(hist[agg.book.epoch])
  <2>1. Len(hist[agg.book.epoch]) \in Nat
    BY <1>1 DEF Shape, LogsOK, HistIn
  <2>. QED  BY <1>1, <2>1
<1>3. ~CrossedOrLocked(Levels(agg.book))
  BY <1>1, <1>2 DEF Shape, LogsOK, HistIn
<1>4. \A a \in LevelsOf(agg.book.asks), b \in LevelsOf(agg.book.bids) : a \in Nat /\ b \in Nat
  BY PricesAssumption DEF LevelsOf
<1>5. Levels(agg.book).bids = agg.book.bids /\ Levels(agg.book).asks = agg.book.asks
  BY DEF Levels
<1>. QED  BY <1>3, <1>4, <1>5 DEF CrossedOrLocked, Crossed

(* With nothing lost, the tail over a snapshot and the drained deltas behind *)
(* it lead from a book of the producer's to a book of the producer's.        *)
LEMMA TruthTaken ==
  ASSUME Shape, Accounts, Truth, lost = {}, NEW s, Hears(s), SnapshotTaken(s)
  PROVE  Right(agg'.book)
<1>. DEFINE b0 == ResetTo(s)
            h == ReplayTail(agg, s)
<1>1. /\ Walked(b0, agg.tail, Len(agg.tail), h)
      /\ Walked(h, agg.pending, Len(agg.pending), agg'.book)
  BY DEF SnapshotTaken, Applied
<1>2. /\ s.epoch \in Nat /\ s.seq \in Nat /\ Right(b0) /\ b0.epoch = s.epoch /\ b0.seq = s.seq
      /\ agg.book.seq >= 0 => agg.book.epoch <= s.epoch
  BY TakenFacts
<1>3. /\ agg.book.seq \in Int /\ agg.book.epoch \in Nat /\ GoodTail(agg)
      /\ agg.pending \in Seq(Read) /\ agg.tail \in Seq(Read)
      /\ \A x \in Read : x.seq \in Nat /\ x.epoch \in Nat /\ Fits(x)
  BY ReadTypes
<1>4. CASE agg.book.seq >= 0 /\ agg.book.epoch = s.epoch
  <2>1. s.seq > agg.book.seq
    <3>1. ~Crossed(agg.book)
      BY <1>4, RightIsNotCrossed DEF Truth
    <3>. QED  BY <1>2, <1>3, <1>4, <3>1 DEF SnapshotTaken, SkipsSnapshot, StaleReSnapshot
  <2>2. \A i \in 1..Len(agg.tail) : ~(agg.tail[i].seq > s.seq)
    <3>. TAKE i \in 1..Len(agg.tail)
    <3>1. agg.tail[i].seq \in Nat /\ agg.tail[i].seq <= agg.book.seq
      BY <1>3 DEF GoodTail
    <3>. QED  BY <1>2, <1>3, <2>1, <3>1
  <2>. HIDE DEF b0, h
  <2>3. Chained(b0, agg.tail)
    BY <1>2, <2>2 DEF Chained
  <2>4. Right(h) /\ h.epoch = s.epoch
    BY <1>1, <1>2, <2>3 DEF Walked
  <2>5. Chained(h, agg.pending)
    BY <1>4, <2>4, TakenFacts DEF Chained
  <2>. QED  BY <1>1, <2>4, <2>5 DEF Walked
<1>5. CASE ~(agg.book.seq >= 0 /\ agg.book.epoch = s.epoch)
  <2>1. h = b0
    BY <1>5, TakenFacts
  <2>2. Chained(b0, agg.pending)
    <3>1. SUFFICES ASSUME NEW i \in 1..Len(agg.pending),
                          agg.pending[i].epoch = s.epoch, agg.pending[i].seq > s.seq
                   PROVE  /\ Fits(agg.pending[i])
                          /\ \/ agg.pending[i].seq = s.seq + 1
                             \/ \E j \in 1..Len(agg.pending) :
                                  /\ agg.pending[j].epoch = s.epoch
                                  /\ agg.pending[j].seq = agg.pending[i].seq - 1
      BY <1>2 DEF Chained
    <3>. DEFINE x == agg.pending[i]
    <3>2. x \in Read /\ Fits(x) /\ x.seq \in Nat
      BY <1>3
    <3>3. CASE x.seq # s.seq + 1
      <4>1. x.seq > 1 /\ x.seq - 1 > s.seq
        BY <1>2, <3>1, <3>2, <3>3
      <4>2. PICK y \in Read : y.epoch = x.epoch /\ y.seq = x.seq - 1
        BY <3>2, <4>1, ReadPredecessor
      <4>3. ~Reached(y)
        BY <1>2, <1>3, <1>5, <3>1, <4>2 DEF Reached, After
      <4>4. ~Passed(y)
        <5>1. si + 1 \in (si + 1)..Len(snapLog) /\ snapLog[si + 1] = s
          <6>1. si + 1 \in 1..Len(snapLog) /\ snapLog[si + 1] = s /\ si \in Nat /\ Len(snapLog) \in Nat
            BY TakenFacts, ReadTypes
          <6>. QED  BY <6>1
        <5>2. After(y, s)
          BY <3>1, <4>1, <4>2 DEF After
        <5>. QED  BY <5>1, <5>2 DEF Passed
      <4>5. Waiting(y)
        BY <4>3, <4>4 DEF Accounts
      <4>. QED  BY <3>1, <3>2, <4>2, <4>5 DEF Waiting
    <3>. QED  BY <3>2, <3>3
  <2>. QED  BY <1>1, <1>2, <2>1, <2>2 DEF Walked
<1>. QED  BY <1>4, <1>5

(* With nothing lost, the delta that moves the book is the one that follows  *)
(* it: every one before it is in the log, was read, and is in the book.      *)
LEMMA TruthDelta ==
  ASSUME Shape, Accounts, Truth, lost = {}, NEW d, Consumes(d), DeltaMoves(d)
  PROVE  Right(agg'.book)
<1>1. /\ agg'.book = ApplyUnguarded(agg.book, d) /\ d.epoch = agg.book.epoch
      /\ agg.book \in BookRecords /\ agg.book.seq >= 0 /\ d.seq > agg.book.seq
  BY TakenDelta DEF DeltaMoves, Shape
<1>2. /\ d \in Deltas /\ Fits(d) /\ d.seq \in Nat /\ di \in Nat /\ di + 1 \in 1..Len(deltaLog)
      /\ deltaLog[di + 1] = d
  BY NextDelta DEF Consumes, Shape
<1>3. agg.book.seq \in Int
  BY ReadTypes
<1>4. d.seq = agg.book.seq + 1
  <2>1. SUFFICES ASSUME d.seq > agg.book.seq + 1 PROVE FALSE
    BY <1>1, <1>2, <1>3
  <2>2. PICK k \in 1..(di + 1 - 1) : deltaLog[k].epoch = d.epoch /\ deltaLog[k].seq = d.seq - 1
    <3>1. d.seq > 1
      BY <1>1, <1>2, <1>3, <2>1
    <3>. QED  BY <1>2, <3>1, Predecessor DEF Shape
  <2>3. deltaLog[k] \in Read
    BY <1>2 DEF Read
  <2>4. deltaLog[k].seq <= agg.book.seq
    BY <1>1, <2>2, <2>3, InTheBook
  <2>. QED  BY <1>2, <1>3, <2>1, <2>2, <2>4
<1>. QED  BY <1>1, <1>2, <1>4, FitsMoves DEF Truth

(* With nothing lost, every step leaves the book a book of the producer's.   *)
LEMMA TruthStep ==
  ASSUME Shape, Accounts, Truth, [Next]_vars
  PROVE  Truth'
<1>0. LogsOK /\ GateOK
  BY DEF Shape
<1>1. CASE Connect \/ PublishDelta \/ PublishSnapshot
  BY <1>0, <1>1, ProducerSteps, ProducerKeeps
<1>2. CASE WarmStart
  <2>1. agg'.book.seq = -1
    BY <1>2 DEF WarmStart, NewStream
  <2>. QED  BY <2>1 DEF Truth
<1>3. CASE ConsumeSnapshot
  <2>1. PICK s : Hears(s) /\ (SnapshotSkipped(s) \/ SnapshotTaken(s))
    BY <1>0, <1>3, SnapshotCases
  <2>2. hist' = hist /\ lost' = lost
    BY <2>1 DEF Hears
  <2>3. CASE SnapshotSkipped(s)
    BY <2>2, <2>3 DEF SnapshotSkipped, Truth, Right
  <2>4. CASE SnapshotTaken(s)
    BY <2>1, <2>2, <2>4, TruthTaken DEF Truth, Right
  <2>. QED  BY <2>1, <2>3, <2>4
<1>4. CASE ConsumeDelta
  <2>1. PICK d : Consumes(d) /\ (DeltaWaits(d) \/ DeltaIsOld(d) \/ DeltaMoves(d))
    BY <1>0, <1>4, DeltaCases
  <2>2. hist' = hist /\ lost' = lost
    BY <2>1 DEF Consumes
  <2>3. CASE DeltaWaits(d)
    <3>1. agg \in Streams(Read, agg.bbo)
      BY <1>0 DEF GateOK, Stream
    <3>2. agg'.book = agg.book
      BY <2>3, <3>1 DEF DeltaWaits, Buffer, Streams
    <3>. QED  BY <2>2, <3>2 DEF Truth, Right
  <2>4. CASE DeltaIsOld(d)
    BY <2>2, <2>4 DEF DeltaIsOld, Truth, Right
  <2>5. CASE DeltaMoves(d)
    BY <2>1, <2>2, <2>5, TruthDelta DEF Truth, Right
  <2>. QED  BY <2>1, <2>3, <2>4, <2>5
<1>5. CASE UNCHANGED vars
  BY <1>5 DEF vars, Truth, Right
<1>. QED  BY <1>1, <1>2, <1>3, <1>4, <1>5 DEF Next

----------------------------------------------------------------------------
(* The theorems about the book, as long as the pending queue has room        *)

Faithful == Shape /\ Accounts /\ Recalled /\ Truth

(* The inductive invariant, for a pending queue that always has room.        *)
THEOREM FaithfulInvariant == Spec /\ []Roomy => []Faithful
<1>1. Init => Faithful
  <2>. HAVE Init
  <2>1. Shape
    BY InitShape DEF Shape
  <2>2. Read = {} /\ agg.book.seq = -1
    BY DEF Init, Read, NewStream
  <2>. QED  BY <2>1, <2>2 DEF Faithful, Accounts, Recalled, Truth
<1>2. Faithful /\ Roomy /\ [Next]_vars => Faithful'
  <2>. HAVE Faithful /\ Roomy /\ [Next]_vars
  <2>1. Shape /\ Accounts /\ Recalled /\ Truth
    BY DEF Faithful
  <2>. QED  BY <2>1, ShapeStep, AccountsStep, RecalledStep, TruthStep DEF Faithful
<1>. QED  BY <1>1, <1>2, PTL DEF Spec

(* aggregator.ts, class header: with nothing lost, whatever order the two    *)
(* topics are consumed in and wherever the gateway starts in them, the book  *)
(* is the one the producer had at the epoch and sequence it carries.         *)
THEOREM BookTheorem == Spec /\ []Roomy => []BookIsTheProducers
<1>1. Faithful => BookIsTheProducers
  <2>. SUFFICES ASSUME Faithful, lost = {}, agg.book.seq >= 0
                PROVE  /\ agg.book.epoch \in 1..Epoch /\ agg.book.seq < Len(hist[agg.book.epoch])
                       /\ Levels(agg.book) = BookOf(agg.book)
    BY DEF BookIsTheProducers
  <2>1. /\ agg.book.epoch \in 1..Len(hist)
        /\ agg.book.seq \in 0..(Len(hist[agg.book.epoch]) - 1)
        /\ Levels(agg.book) = hist[agg.book.epoch][agg.book.seq + 1]
    BY DEF Faithful, Truth, Right, RightIn, RealIn
  <2>2. Len(hist[agg.book.epoch]) \in Nat
    BY <2>1 DEF Faithful, Shape, LogsOK, HistIn
  <2>. QED  BY <2>1, <2>2 DEF Epoch, BookOf
<1>. QED  BY <1>1, FaithfulInvariant, PTL

(* applyBook and its drain: with nothing lost and both topics read to their  *)
(* ends, the book is the producer's latest and nothing of its epoch still    *)
(* waits in the pending queue.                                               *)
THEOREM CurrentTheorem == Spec /\ []Roomy => []ReadToTheEndMeansCurrent
<1>1. Faithful => ReadToTheEndMeansCurrent
  <2>. SUFFICES ASSUME Faithful, lost = {}, agg.book.seq >= 0,
                       si = Len(snapLog), di = Len(deltaLog)
                PROVE  /\ agg.book.epoch = Epoch /\ agg.book.seq = Seqno
                       /\ \A i \in 1..Len(agg.pending) : agg.pending[i].epoch # Epoch
    BY DEF ReadToTheEndMeansCurrent
  <2>0. Shape /\ Accounts
    BY DEF Faithful
  <2>1. /\ Real(agg.book) /\ si >= 1 /\ snapLog[si].epoch = agg.book.epoch
        /\ \A i \in 1..Len(agg.pending) : NoBookFor(agg, agg.pending[i])
    BY <2>0 DEF Shape, GateOK
  <2>2. agg.book.epoch \in 1..Len(hist) /\ agg.book.seq \in 0..(Len(hist[agg.book.epoch]) - 1)
    BY <2>1 DEF Real, RealIn
  <2>3. Len(hist) \in Nat /\ Len(hist[agg.book.epoch]) \in Nat
    BY <2>0, <2>2 DEF Shape, LogsOK, HistIn
  <2>4. agg.book.epoch = Len(hist)
    BY <2>0, <2>1, <2>2, <2>3 DEF Shape, LogsOK, SnapsIn
  <2>5. agg.book.seq = Len(hist[Len(hist)]) - 1
    <3>1. SUFFICES ASSUME agg.book.seq < Len(hist[Len(hist)]) - 1 PROVE FALSE
      BY <2>2, <2>3, <2>4
    <3>. DEFINE n == Len(hist[Len(hist)]) - 1
    <3>2. n \in 1..(Len(hist[Len(hist)]) - 1) /\ Len(hist) \in 1..Len(hist)
      BY <2>2, <2>3, <2>4, <3>1
    <3>. HIDE DEF n
    <3>3. PICK i \in 1..Len(deltaLog) : deltaLog[i].epoch = Len(hist) /\ deltaLog[i].seq = n
      BY <2>0, <3>2 DEF Shape, LogsOK, DeltasIn
    <3>4. deltaLog[i] \in Read
      BY DEF Read
    <3>5. deltaLog[i].seq <= agg.book.seq
      BY <2>0, <2>4, <3>3, <3>4, InTheBook
    <3>. QED  BY <2>2, <2>3, <2>4, <3>1, <3>3, <3>5 DEF n
  <2>6. \A i \in 1..Len(agg.pending) : agg.pending[i].epoch # Len(hist)
    <3>1. ~(agg.book.seq < 0)
      BY <2>2, <2>3
    <3>. QED  BY <2>1, <2>4, <3>1 DEF NoBookFor
  <2>. QED  BY <2>4, <2>5, <2>6 DEF Epoch, Seqno
<1>. QED  BY <1>1, FaithfulInvariant, PTL

(* The deltas of a tail that nothing was shed from since the snapshot, and   *)
(* none was lost of, lead from the snapshot to the book that was.            *)
LEMMA HealRestores ==
  ASSUME Shape, Accounts, Recalled, NEW s, Hears(s), SnapshotTaken(s),
         agg.book.seq >= 0, StaleReSnapshot(agg.book, s), agg'.underruns = agg.underruns,
         \A l \in lost : ~(l.epoch = s.epoch /\ l.seq > s.seq)
  PROVE  Right(agg'.book)
<1>. DEFINE b0 == ResetTo(s)
            h == ReplayTail(agg, s)
<1>1. /\ Walked(b0, agg.tail, Len(agg.tail), h)
      /\ Walked(h, agg.pending, Len(agg.pending), agg'.book)
      /\ agg'.underruns = IF Underrun(agg, s) THEN agg.underruns + 1 ELSE agg.underruns
  BY DEF SnapshotTaken, Applied
<1>2. /\ s.epoch \in Nat /\ s.seq \in Nat /\ Right(b0) /\ b0.epoch = s.epoch /\ b0.seq = s.seq
  BY TakenFacts
<1>3. /\ agg.book.seq \in Int /\ agg.book.epoch \in Nat /\ GoodTail(agg)
      /\ agg.tail \in Seq(Read) /\ \A x \in Read : x.seq \in Nat /\ x.epoch \in Nat /\ Fits(x)
  BY ReadTypes
<1>4. agg.book.epoch = s.epoch /\ s.epoch # 0
  <2>1. agg.book.epoch = s.epoch
    BY DEF StaleReSnapshot
  <2>. QED  BY <1>2, <2>1 DEF Right, RightIn, RealIn
<1>5. /\ agg.underruns \in Nat /\ agg.evicted.epoch \in Nat /\ agg.evicted.seq \in Int
  BY DEF Shape, GateOK, Stream, Streams, Marks
<1>6. ~Underrun(agg, s)
  BY <1>1, <1>5
<1>7. Chained(b0, agg.tail)
  <2>1. SUFFICES ASSUME NEW i \in 1..Len(agg.tail),
                        agg.tail[i].epoch = s.epoch, agg.tail[i].seq > s.seq
                 PROVE  /\ Fits(agg.tail[i])
                        /\ \/ agg.tail[i].seq = s.seq + 1
                           \/ \E j \in 1..Len(agg.tail) :
                                /\ agg.tail[j].epoch = s.epoch
                                /\ agg.tail[j].seq = agg.tail[i].seq - 1
    BY <1>2 DEF Chained
  <2>. DEFINE x == agg.tail[i]
  <2>2. x \in Read /\ Fits(x) /\ x.seq \in Nat /\ x.seq <= agg.book.seq
    BY <1>3 DEF GoodTail
  <2>3. CASE x.seq # s.seq + 1
    <3>1. x.seq > 1 /\ x.seq - 1 > s.seq
      BY <1>2, <2>1, <2>2, <2>3
    <3>2. [epoch |-> x.epoch, seq |-> x.seq - 1] \notin lost
      BY <2>1, <3>1
    <3>3. PICK y \in Read : y.epoch = x.epoch /\ y.seq = x.seq - 1
      BY <2>2, <3>1, <3>2, ReadPredecessor
    <3>4. y.seq <= agg.book.seq /\ y.seq > s.seq /\ y.epoch = s.epoch
      BY <1>3, <2>1, <2>2, <3>1, <3>3
    <3>5. ~Passed(y)
      <4>1. si + 1 \in (si + 1)..Len(snapLog) /\ snapLog[si + 1] = s
        <5>1. si + 1 \in 1..Len(snapLog) /\ snapLog[si + 1] = s /\ si \in Nat /\ Len(snapLog) \in Nat
          BY TakenFacts, ReadTypes
        <5>. QED  BY <5>1
      <4>2. After(y, s)
        BY <3>4 DEF After
      <4>. QED  BY <4>1, <4>2 DEF Passed
    <3>6. Recalls(agg, y)
      BY <1>4, <3>4, <3>5 DEF Recalled
    <3>7. ~(agg.evicted.epoch = y.epoch /\ y.seq <= agg.evicted.seq)
      <4>1. SUFFICES ASSUME agg.evicted.epoch = y.epoch, y.seq <= agg.evicted.seq PROVE FALSE
        OBVIOUS
      <4>2. agg.evicted.seq > s.seq /\ agg.evicted # None
        BY <1>2, <1>3, <1>4, <1>5, <3>4, <4>1 DEF None
      <4>. QED  BY <1>6, <3>4, <4>1, <4>2 DEF Underrun
    <3>8. PICK j \in 1..Len(agg.tail) : agg.tail[j] = y
      BY <3>6, <3>7 DEF Recalls
    <3>. QED  BY <2>1, <2>2, <3>3, <3>8
  <2>. QED  BY <2>2, <2>3
<1>. HIDE DEF b0, h
<1>8. Right(h) /\ h.epoch = s.epoch
  BY <1>1, <1>2, <1>7 DEF Walked
<1>9. Chained(h, agg.pending)
  BY <1>4, <1>8, TakenFacts DEF Chained
<1>. QED  BY <1>1, <1>8, <1>9 DEF Walked

(* book.ts and MAX_APPLIED_TAIL: a heal that is not counted as an underrun,  *)
(* from a snapshot after which nothing of its epoch was lost, puts back the  *)
(* producer's own book at the sequence the crossed one had reached.          *)
THEOREM HealTheorem == Spec /\ []Roomy => HealRestoresTheBook
<1>. DEFINE s == snapLog[si + 1]
            Heal == /\ si' = si + 1 /\ agg.book.seq >= 0 /\ Crossed(agg.book)
                    /\ StaleReSnapshot(agg.book, s) /\ agg'.underruns = agg.underruns
                    /\ \A l \in lost : ~(l.epoch = s.epoch /\ l.seq > s.seq)
<1>1. ASSUME Faithful, [Next]_vars, Heal
      PROVE  Levels(agg'.book) = BookOf(agg'.book)
  <2>0. Shape /\ Accounts /\ Recalled /\ LogsOK /\ GateOK /\ si \in Nat
    BY <1>1, ReadTypes DEF Faithful, Shape
  <2>1. ConsumeSnapshot
    <3>1. si' # si
      BY <1>1, <2>0
    <3>2. ~WarmStart
      BY <1>1 DEF WarmStart, NewStream
    <3>. QED
      BY <1>1, <3>1, <3>2 DEF Next, vars, Connect, PublishDelta, PublishSnapshot, ConsumeDelta
  <2>2. PICK m : Hears(m) /\ (SnapshotSkipped(m) \/ SnapshotTaken(m))
    BY <2>0, <2>1, SnapshotCases
  <2>3. m = s
    BY <2>2 DEF Hears
  <2>4. SnapshotTaken(m)
    BY <1>1, <2>2 DEF SnapshotSkipped, SkipsSnapshot
  <2>5. Right(agg'.book)
    <3>. HIDE DEF s
    <3>. QED  BY <1>1, <2>0, <2>2, <2>3, <2>4, HealRestores
  <2>. QED  BY <2>5 DEF Right, RightIn, BookOf
<1>2. ASSUME Faithful, [Next]_vars
      PROVE  Heal => Levels(agg'.book) = BookOf(agg'.book)
  BY <1>1, <1>2
<1>. QED  BY <1>2, FaithfulInvariant, PTL DEF Spec, HealRestoresTheBook

----------------------------------------------------------------------------
(* The stream implements the view                                            *)

(* A delta, sent or lost, appends one book to the producer's last row.       *)
LEMMA PublishedBook ==
  ASSUME Shape, PublishDelta
  PROVE  \E b : hist' = [hist EXCEPT ![Epoch] = Append(@, b)] /\ b \in Books
<1>1. PICK c \in Changes : hist' = [hist EXCEPT ![Epoch] = Append(@, Moved(Current, c))]
  BY DEF PublishDelta
<1>2. hist \in Seq(Seq(Books)) /\ Len(hist) \in 1..Len(hist)
  BY DEF Shape, LogsOK, HistIn, PublishDelta, Epoch
<1>3. hist[Len(hist)] \in Seq(Books) /\ Len(hist[Len(hist)]) >= 1
  BY <1>2 DEF Shape, LogsOK, HistIn
<1>. DEFINE q == hist[Len(hist)]
<1>. HIDE DEF q
<1>4. q \in Seq(Books) /\ Len(q) >= 1
  BY <1>3 DEF q
<1>5. q[Len(q) - 1 + 1] \in Books
  BY <1>4
<1>6. Current \in Books
  BY <1>5 DEF Current, Seqno, Epoch, q
<1>. QED  BY <1>1, <1>6, MovedType

\* The topics hold every delta of the producer's.
Lossless == lost = {}

\* The view an aggregator's entries show.
Shown(a) == IF a.book.seq < 0 THEN [epoch |-> 0, seq |-> 0, book |-> <<>>]
            ELSE [epoch |-> a.book.epoch, seq |-> a.book.seq, book |-> Levels(a.book)]

(* A step that leaves the books alone shows what it showed, or a later book  *)
(* of the producer's.                                                        *)
LEMMA ShowsLater ==
  ASSUME Shape, hist' = hist, agg'.book.seq >= 0, Right(agg'.book), agg'.book.seq \in Int,
         \/ agg.book.seq < 0
         \/ agg'.book.epoch > agg.book.epoch
         \/ agg'.book.epoch = agg.book.epoch /\ agg'.book.seq > agg.book.seq
  PROVE  View!Advance
<1>. DEFINE e == agg'.book.epoch
            n == agg'.book.seq
<1>1. /\ e \in 1..Len(hist) /\ n \in 0..(Len(hist[e]) - 1)
      /\ Levels(agg'.book) = hist[e][n + 1]
  BY DEF Right, RightIn, RealIn
<1>2. agg.book.seq \in Int /\ agg.book.epoch \in Nat
  BY ReadTypes
<1>3. Shown(agg') = [epoch |-> e, seq |-> n, book |-> hist[e][n + 1]]
  BY <1>1 DEF Shown
<1>4. e > Shown(agg).epoch \/ (e = Shown(agg).epoch /\ n > Shown(agg).seq)
  <2>1. CASE agg.book.seq < 0
    BY <1>1, <2>1 DEF Shown
  <2>2. CASE ~(agg.book.seq < 0)
    <3>1. Shown(agg).epoch = agg.book.epoch /\ Shown(agg).seq = agg.book.seq
      BY <2>2 DEF Shown
    <3>. QED  BY <2>2, <3>1
  <2>. QED  BY <2>1, <2>2
<1>. HIDE DEF e, n
<1>5. \E f \in 1..Len(hist) : \E m \in 0..(Len(hist[f]) - 1) :
        /\ f > Shown(agg).epoch \/ (f = Shown(agg).epoch /\ m > Shown(agg).seq)
        /\ Shown(agg') = [epoch |-> f, seq |-> m, book |-> hist[f][m + 1]]
  BY <1>1, <1>3, <1>4
<1>. QED  BY <1>5 DEF View!Advance, View!Later, Shown

(* Every step, with nothing lost, is a step of the view or leaves it as it   *)
(* is.                                                                       *)
LEMMA ViewStep ==
  ASSUME Faithful, Faithful', lost' = {}, [Next]_vars
  PROVE  [View!Next]_<<hist, Shown(agg)>>
<1>0. Shape /\ Accounts /\ Recalled /\ Truth /\ LogsOK /\ GateOK
  BY DEF Faithful, Shape
<1>1. CASE Connect
  <2>1. PICK b \in FirstBooks : hist' = Append(hist, <<b>>)
    BY <1>1 DEF Connect
  <2>2. b \in Books /\ agg' = agg
    BY <1>1, GatewayAssumption DEF Connect
  <2>. QED  BY <2>1, <2>2 DEF View!Next, View!Extend
<1>2. CASE PublishDelta
  <2>1. PICK b : hist' = [hist EXCEPT ![Epoch] = Append(@, b)] /\ b \in Books
    BY <1>0, <1>2, PublishedBook
  <2>2. agg' = agg /\ Len(hist) > 0
    BY <1>2 DEF PublishDelta, Epoch
  <2>3. hist # <<>>
    BY <2>2
  <2>. QED  BY <2>1, <2>2, <2>3 DEF View!Next, View!Extend, Epoch
<1>3. CASE PublishSnapshot \/ WarmStart \/ UNCHANGED vars
  BY <1>3 DEF PublishSnapshot, WarmStart, vars
<1>4. CASE ConsumeSnapshot
  <2>1. PICK s : Hears(s) /\ (SnapshotSkipped(s) \/ SnapshotTaken(s))
    BY <1>0, <1>4, SnapshotCases
  <2>2. hist' = hist /\ lost = {}
    BY <2>1 DEF Hears
  <2>3. CASE SnapshotSkipped(s)
    BY <2>2, <2>3 DEF SnapshotSkipped
  <2>4. CASE SnapshotTaken(s)
    <3>1. Right(agg'.book)
      BY <1>0, <2>1, <2>2, <2>4, TruthTaken
    <3>2. /\ agg'.book.epoch = s.epoch /\ agg'.book.seq \in Nat /\ agg'.book.seq >= s.seq
          /\ agg.book.seq >= 0 => agg.book.epoch <= s.epoch
          /\ s.epoch \in Nat /\ s.seq \in Nat
      BY <1>0, <2>1, <2>4, TakenFacts
    <3>3. agg.book.seq \in Int /\ agg.book.epoch \in Nat
      BY <1>0, ReadTypes
    <3>4. agg.book.seq >= 0 /\ agg.book.epoch = s.epoch => s.seq > agg.book.seq
      <4>. HAVE agg.book.seq >= 0 /\ agg.book.epoch = s.epoch
      <4>1. ~Crossed(agg.book)
        BY <1>0, <2>2, RightIsNotCrossed DEF Truth
      <4>. QED  BY <2>4, <3>2, <3>3, <4>1 DEF SnapshotTaken, SkipsSnapshot, StaleReSnapshot
    <3>5. \/ agg.book.seq < 0
          \/ agg'.book.epoch > agg.book.epoch
          \/ agg'.book.epoch = agg.book.epoch /\ agg'.book.seq > agg.book.seq
      BY <3>2, <3>3, <3>4
    <3>. QED  BY <1>0, <2>2, <3>1, <3>2, <3>5, ShowsLater DEF View!Next
  <2>. QED  BY <2>1, <2>3, <2>4
<1>5. CASE ConsumeDelta
  <2>1. PICK d : Consumes(d) /\ (DeltaWaits(d) \/ DeltaIsOld(d) \/ DeltaMoves(d))
    BY <1>0, <1>5, DeltaCases
  <2>2. hist' = hist /\ lost = {}
    BY <2>1 DEF Consumes
  <2>3. CASE DeltaWaits(d)
    <3>1. agg \in Streams(Read, agg.bbo)
      BY <1>0 DEF GateOK, Stream
    <3>2. agg'.book = agg.book
      BY <2>3, <3>1 DEF DeltaWaits, Buffer, Streams
    <3>. QED  BY <2>2, <3>2 DEF Shown
  <2>4. CASE DeltaIsOld(d)
    BY <2>2, <2>4 DEF DeltaIsOld
  <2>5. CASE DeltaMoves(d)
    <3>1. Right(agg'.book)
      BY <1>0, <2>1, <2>2, <2>5, TruthDelta
    <3>2. /\ agg'.book.epoch = agg.book.epoch /\ agg'.book.seq = d.seq /\ d.seq > agg.book.seq
      BY <1>0, <2>1, <2>5, TakenDelta DEF DeltaMoves
    <3>3. d.seq \in Nat
      BY <1>0, <2>1, NextDelta DEF Consumes
    <3>. QED  BY <1>0, <2>2, <3>1, <3>2, <3>3, ShowsLater DEF View!Next
  <2>. QED  BY <2>1, <2>3, <2>4, <2>5
<1>. QED  BY <1>1, <1>2, <1>3, <1>4, <1>5 DEF Next

(* The aggregator's stream implements StreamView: what a reader of the book  *)
(* sees only moves on from a book of the producer's to a later one, of the   *)
(* same connection or a later.                                               *)
THEOREM ViewTheorem == Spec /\ []Roomy /\ []Lossless => ImplementsView
<1>1. Init => View!Init
  BY DEF Init, NewStream, View!Init, View!NoView
<1>2. ASSUME Faithful, Faithful', Lossless', [Next]_vars
      PROVE  [View!Next]_<<hist, IF agg.book.seq < 0 THEN [epoch |-> 0, seq |-> 0, book |-> <<>>]
                                 ELSE [epoch |-> agg.book.epoch, seq |-> agg.book.seq,
                                       book |-> Levels(agg.book)]>>
  BY <1>2, ViewStep DEF Shown, Lossless
<1>3. Spec /\ []Roomy => []Faithful
  BY FaithfulInvariant
<1>. QED  BY <1>1, <1>2, <1>3, PTL DEF Spec, ImplementsView, View!Spec

----------------------------------------------------------------------------
(* When the hypotheses hold                                                  *)

\* How many deltas the producer has numbered.
Numbered == IF Epoch = 0 THEN 0 ELSE (Epoch - 1) * MaxSeq + Seqno
LogsShort == Len(deltaLog) <= Numbered

(* The pending queue has room whenever all the deltas of the producer's      *)
(* bounded life fit in it: the queue holds no delta that was not read, and   *)
(* no more than were numbered.                                               *)
THEOREM LogsFit ==
  ASSUME MaxEpochs * MaxSeq <= MAX_PENDING_DELTAS
  PROVE  Spec => []Roomy
<1>0. /\ MaxEpochs \in Nat /\ MaxSeq \in Nat /\ MAX_PENDING_DELTAS \in Nat
  BY GatewayAssumption, PendingAssumption
<1>. DEFINE Upto(e) == (e - 1) * MaxSeq
            all == MaxEpochs * MaxSeq
<1>1. \A e \in Nat \ {0} : /\ Upto(e) \in Nat /\ Upto(e + 1) = Upto(e) + MaxSeq
                           /\ e <= MaxEpochs => Upto(e) + MaxSeq <= all
  BY <1>0
<1>2. \A e \in Nat : Upto(e) = (e - 1) * MaxSeq
  OBVIOUS
<1>3. Upto(1) = 0 /\ all \in Nat /\ all <= MAX_PENDING_DELTAS
  BY <1>0
<1>. HIDE DEF Upto, all
<1>4. ASSUME Shape
      PROVE  /\ Epoch \in Nat /\ Epoch <= MaxEpochs /\ Len(deltaLog) \in Nat
             /\ Epoch > 0 => Seqno \in Nat /\ Seqno <= MaxSeq
             /\ Numbered = IF Epoch = 0 THEN 0 ELSE Upto(Epoch) + Seqno
             /\ Epoch > 0 => /\ Upto(Epoch) \in Nat /\ Upto(Epoch + 1) = Upto(Epoch) + MaxSeq
                             /\ Upto(Epoch) + MaxSeq <= all
  <2>1. Len(hist) \in Nat /\ Len(hist) <= MaxEpochs
    BY <1>4 DEF Shape, LogsOK, HistIn
  <2>2. Len(hist) > 0 => Len(hist[Len(hist)]) \in 1..(MaxSeq + 1)
    BY <1>4, <2>1 DEF Shape, LogsOK, HistIn
  <2>3. Len(deltaLog) \in Nat
    BY <1>4, ReadTypes
  <2>4. Numbered = IF Epoch = 0 THEN 0 ELSE (Epoch - 1) * MaxSeq + Seqno
    BY DEF Numbered
  <2>5. Upto(Epoch) = (Epoch - 1) * MaxSeq
    BY <1>2, <2>1, Zenon DEF Epoch
  <2>6. Numbered = IF Epoch = 0 THEN 0 ELSE Upto(Epoch) + Seqno
    BY <2>4, <2>5, Zenon
  <2>7. Epoch \in Nat /\ Epoch <= MaxEpochs /\ (Epoch > 0 => Seqno \in Nat /\ Seqno <= MaxSeq)
    BY <1>0, <2>1, <2>2 DEF Epoch, Seqno
  <2>8. ASSUME Epoch > 0
        PROVE  /\ Upto(Epoch) \in Nat /\ Upto(Epoch + 1) = Upto(Epoch) + MaxSeq
               /\ Upto(Epoch) + MaxSeq <= all
    <3>1. Epoch \in Nat \ {0}
      BY <2>7, <2>8
    <3>. QED  BY <1>1, <2>7, <3>1, Zenon
  <2>. QED  BY <2>3, <2>6, <2>7, <2>8
<1>5. Init => LogsShort
  BY DEF Init, LogsShort, Numbered, Epoch
<1>6. ASSUME Shape, Shape', LogsShort, [Next]_vars
      PROVE  LogsShort'
  <2>1. /\ Epoch \in Nat /\ Len(deltaLog) \in Nat /\ Numbered = IF Epoch = 0 THEN 0 ELSE Upto(Epoch) + Seqno
        /\ Epoch > 0 => Seqno \in Nat /\ Seqno <= MaxSeq
        /\ Epoch > 0 => Upto(Epoch) \in Nat /\ Upto(Epoch + 1) = Upto(Epoch) + MaxSeq
    BY <1>4, <1>6
  <2>. DEFINE e1 == Len(hist')
              n1 == Len(hist'[e1]) - 1
  <2>2. Numbered' = IF e1 = 0 THEN 0 ELSE (e1 - 1) * MaxSeq + n1
    BY DEF Numbered, Epoch, Seqno
  <2>3. CASE Connect
    <3>1. deltaLog' = deltaLog
      BY <2>3 DEF Connect
    <3>2. PICK b \in FirstBooks : hist' = Append(hist, <<b>>)
      BY <2>3 DEF Connect
    <3>3. e1 = Epoch + 1 /\ hist'[Epoch + 1] = <<b>>
      <4>1. HistIn(hist) /\ Len(hist) < MaxEpochs
        BY <1>6, <2>3 DEF Shape, LogsOK, Connect, Epoch
      <4>. QED  BY <3>2, <4>1, NewConnection DEF Epoch
    <3>4. n1 = 0
      <4>1. Len(<<b>>) = 1
        OBVIOUS
      <4>. QED  BY <3>3, <4>1
    <3>. HIDE DEF e1, n1
    <3>5. Numbered' = Upto(Epoch + 1)
      <4>1. Numbered' = (Epoch + 1 - 1) * MaxSeq + 0
        BY <2>1, <2>2, <3>3, <3>4
      <4>2. Upto(Epoch + 1) = (Epoch + 1 - 1) * MaxSeq /\ (Epoch + 1 - 1) * MaxSeq \in Int
        BY <1>0, <1>2, <2>1
      <4>. QED  BY <4>1, <4>2
    <3>6. Numbered <= Upto(Epoch + 1)
      <4>1. CASE Epoch = 0
        BY <1>3, <2>1, <4>1
      <4>2. CASE Epoch > 0
        BY <1>0, <2>1, <4>2
      <4>. QED  BY <2>1, <4>1, <4>2
    <3>7. Len(deltaLog) <= Upto(Epoch + 1)
      <4>1. Numbered \in Int /\ Upto(Epoch + 1) \in Int /\ Len(deltaLog) <= Numbered
        BY <1>1, <1>6, <2>1 DEF LogsShort
      <4>. QED  BY <2>1, <3>6, <4>1
    <3>. QED  BY <3>1, <3>5, <3>7 DEF LogsShort
  <2>4. CASE PublishDelta
    <3>1. /\ Epoch > 0 /\ \E d : deltaLog' = Append(deltaLog, d) \/ deltaLog' = deltaLog
      BY <2>4 DEF PublishDelta
    <3>2. Len(deltaLog') <= Len(deltaLog) + 1
      <4>1. deltaLog \in Seq(Deltas) /\ deltaLog' \in Seq(Deltas)
        BY <1>6 DEF Shape, LogsOK, DeltasIn
      <4>. QED  BY <2>1, <3>1, <4>1
    <3>3. e1 = Epoch /\ n1 = Seqno + 1
      <4>1. PICK b : hist' = [hist EXCEPT ![Epoch] = Append(@, b)] /\ b \in Books
        BY <1>6, <2>4, PublishedBook
      <4>2. hist \in Seq(Seq(Books)) /\ Epoch \in 1..Len(hist)
        BY <1>6, <2>1, <3>1 DEF Shape, LogsOK, HistIn, Epoch
      <4>3. hist[Epoch] \in Seq(Books)
        BY <4>2
      <4>4. Append(hist[Epoch], b) \in Seq(Books) /\ Len(Append(hist[Epoch], b)) = Len(hist[Epoch]) + 1
        BY <4>1, <4>3
      <4>5. hist'[Epoch] = Append(hist[Epoch], b) /\ Len(hist') = Len(hist)
        BY <4>1, <4>2, <4>4
      <4>. QED  BY <4>3, <4>4, <4>5 DEF Epoch, Seqno
    <3>. HIDE DEF e1, n1
    <3>4. Numbered' = Upto(Epoch) + (Seqno + 1) /\ Numbered = Upto(Epoch) + Seqno
      <4>1. Upto(Epoch) = (Epoch - 1) * MaxSeq /\ ~(Epoch = 0)
        BY <1>2, <2>1, <3>1
      <4>2. Numbered' = (Epoch - 1) * MaxSeq + (Seqno + 1)
        BY <2>2, <3>3, <4>1, Zenon
      <4>. QED  BY <2>1, <4>1, <4>2, Zenon
    <3>5. Len(deltaLog') \in Nat
      BY <1>6 DEF Shape, LogsOK, DeltasIn
    <3>. QED  BY <1>6, <2>1, <3>1, <3>2, <3>4, <3>5 DEF LogsShort
  <2>5. CASE PublishSnapshot \/ WarmStart \/ ConsumeSnapshot \/ ConsumeDelta \/ UNCHANGED vars
    <3>1. hist' = hist /\ deltaLog' = deltaLog
      BY <2>5 DEF PublishSnapshot, WarmStart, ConsumeSnapshot, ConsumeDelta, vars
    <3>. QED  BY <1>6, <3>1 DEF LogsShort, Numbered, Epoch, Seqno
  <2>. QED  BY <1>6, <2>3, <2>4, <2>5 DEF Next
<1>7. Shape /\ LogsShort => Roomy
  <2>. SUFFICES ASSUME Shape, LogsShort, di < Len(deltaLog)
                PROVE  Len(agg.pending) < MAX_PENDING_DELTAS
    BY DEF Roomy
  <2>1. Len(agg.pending) <= di /\ Len(agg.pending) \in Nat /\ di \in Nat /\ Len(deltaLog) \in Nat
    BY ReadTypes DEF Shape, GateOK
  <2>2. Numbered <= all /\ Numbered \in Int
    BY <1>0, <1>3, <1>4
  <2>3. Len(deltaLog) <= MAX_PENDING_DELTAS
    BY <1>0, <1>3, <2>1, <2>2 DEF LogsShort
  <2>. QED  BY <1>0, <2>1, <2>3
<1>. QED  BY <1>5, <1>6, <1>7, ShapeInvariant, PTL DEF Spec

(* A producer none of whose sends fail loses nothing.                        *)
LEMMA NothingLost ==
  ASSUME MaxLost = 0
  PROVE  Spec => []Lossless
<1>1. Init => Lossless
  BY DEF Init, Lossless
<1>2. Lossless /\ [Next]_vars => Lossless'
  <2>. SUFFICES ASSUME lost = {}, [Next]_vars PROVE lost' = {}
    BY DEF Lossless
  <2>1. ~(Cardinality(lost) < MaxLost)
    BY FS_EmptySet
  <2>. QED
    BY <2>1 DEF Next, vars, Connect, PublishDelta, PublishSnapshot, WarmStart,
                ConsumeSnapshot, ConsumeDelta
<1>. QED  BY <1>1, <1>2, PTL DEF Spec

(* So a producer that loses nothing, and whose deltas fit in the pending     *)
(* queue, is shown faithfully, with no other hypothesis.                     *)
THEOREM LosslessViewTheorem ==
  ASSUME MaxEpochs * MaxSeq <= MAX_PENDING_DELTAS, MaxLost = 0
  PROVE  Spec => ImplementsView
BY LogsFit, NothingLost, ViewTheorem, PTL
=============================================================================
