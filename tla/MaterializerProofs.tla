------------------------- MODULE MaterializerProofs -------------------------
(***************************************************************************)
(* The materializer for any partitions, dates, flush size and batches, and   *)
(* any number of crashes: every record stands in the lake at most once, every *)
(* committed one exactly once, and what is committed is never rewritten.     *)
(*                                                                           *)
(* The lake alone is not inductive.  What a partition still holds in memory, *)
(* the chunk in flight, the buffer and the rest of the batch, is one run of  *)
(* offsets from the committed offset to the fetch position (Held): so a      *)
(* chunk starts where the commit stands, its key is that of the only object  *)
(* that may lie there (LakeFits), and its commit moves right behind it.      *)
(***************************************************************************)
EXTENDS Materializer, TLAPS

\* q is a, a + 1, ...
Run(q, a) == \A i \in 1..Len(q) : q[i] = a + i - 1

\* The chunk that is being flushed, of this partition.
Chunk(tp) == IF pc \in {"put", "commit"} /\ flush.tp = tp THEN flush.rows ELSE <<>>

Held(tp) ==
  /\ Run(Chunk(tp), committed[tp])
  /\ Run(buffers[tp], committed[tp] + Len(Chunk(tp)))
  /\ Run(batch[tp], committed[tp] + Len(Chunk(tp)) + Len(buffers[tp]))
  /\ position[tp] = committed[tp] + Len(Chunk(tp)) + Len(buffers[tp]) + Len(batch[tp])

\* The records of q are of one date.
OneDate(tp, q) == \A i \in 1..Len(q) : date[tp][q[i]] = date[tp][q[1]]

Dated(tp) ==
  /\ OneDate(tp, Chunk(tp)) /\ OneDate(tp, buffers[tp])
  /\ Len(buffers[tp]) < FLUSH_RECORDS

End(o) == o.start + Len(o.rows)

\* An object is a run of records of its date, and is committed or starts where
\* the commit stands.
Fits(tp, o) ==
  /\ o.rows # <<>> /\ Run(o.rows, o.start)
  /\ o.date = date[tp][o.start] /\ OneDate(tp, o.rows)
  /\ End(o) <= committed[tp] \/ o.start = committed[tp]

\* The objects of a partition tile it up to the committed offset.
LakeFits(tp) ==
  /\ \A o \in lake[tp] : Fits(tp, o)
  /\ \A a, b \in lake[tp] : a = b \/ End(a) <= b.start \/ End(b) <= a.start
  /\ \A n \in 0..(committed[tp] - 1) : \E a \in lake[tp] : a.start <= n /\ n < End(a)

Objects == [date : Dates, start : Offsets, rows : Seq(Offsets)]

Types ==
  /\ date \in [TPs -> [Offsets -> Dates]]
  /\ committed \in [TPs -> 0..MaxOffset] /\ position \in [TPs -> 0..MaxOffset]
  /\ lake \in [TPs -> SUBSET Objects]
  /\ pc \in {"poll", "append", "flush", "put", "commit", "stopped"}
  /\ stopping \in BOOLEAN
  /\ batch \in [TPs -> Seq(Offsets)] /\ buffers \in [TPs -> Seq(Offsets)]
  /\ todo \in SUBSET TPs

\* A chunk in flight, and what is still to come at each point.
Control ==
  /\ pc \in {"put", "commit"} =>
       /\ flush.tp \in TPs /\ flush.rows \in Seq(Offsets)
       /\ Len(flush.rows) \in 1..FLUSH_RECORDS /\ flush.then \in {"append", "flush"}
  /\ pc = "append" \/ (pc \in {"put", "commit"} /\ flush.then = "append") =>
       todo = {}
  /\ pc \in {"poll", "flush", "stopped"} \/ (pc \in {"put", "commit"} /\ flush.then = "flush") =>
       \A tp \in TPs : batch[tp] = <<>>
  /\ pc = "poll" => todo = {}
  /\ todo \subseteq Buffered
  /\ pc = "commit" => Object \in lake[flush.tp]

Inv ==
  /\ Types /\ Control
  /\ \A tp \in TPs : Held(tp) /\ Dated(tp) /\ LakeFits(tp)

----------------------------------------------------------------------------
\* Runs of offsets

LEMMA OffsetsAreNaturals ==
  MaxOffset \in Nat /\ FLUSH_RECORDS \in Nat \ {0} /\ Offsets \subseteq Nat
BY MaterializerAssumption DEF Offsets

LEMMA Sums == \A c, l, m, n \in Nat : c + l \in Nat /\ c + l <= c + l + m + n
OBVIOUS

LEMMA RunTail ==
  ASSUME NEW q \in Seq(Offsets), q # <<>>, NEW a \in Int, Run(q, a)
  PROVE  /\ Head(q) = a /\ Head(q) \in Offsets
         /\ Tail(q) \in Seq(Offsets) /\ Len(Tail(q)) = Len(q) - 1
         /\ Run(Tail(q), a + 1)
BY OffsetsAreNaturals DEF Run

LEMMA RunAppend ==
  ASSUME NEW q \in Seq(Offsets), NEW a \in Int, Run(q, a), NEW e \in Offsets, e = a + Len(q)
  PROVE  /\ Append(q, e) \in Seq(Offsets) /\ Len(Append(q, e)) = Len(q) + 1
         /\ Append(q, e)[1] = a
         /\ Run(Append(q, e), a)
BY OffsetsAreNaturals DEF Run

LEMMA DateAppend ==
  ASSUME NEW tp \in TPs, NEW q \in Seq(Offsets), OneDate(tp, q), NEW e \in Offsets,
         q # <<>> => date[tp][e] = date[tp][q[1]]
  PROVE  OneDate(tp, Append(q, e))
BY DEF OneDate

LEMMA ObjectRange ==
  ASSUME NEW o \in Objects
  PROVE  /\ o.start \in Nat /\ o.rows \in Seq(Offsets) /\ Len(o.rows) \in Nat
         /\ End(o) \in Nat /\ (o.rows # <<>> => End(o) > o.start)
<1>1. o.start \in Nat /\ o.rows \in Seq(Offsets)
  BY OffsetsAreNaturals DEF Objects
<1>2. Len(o.rows) \in Nat /\ (o.rows # <<>> => Len(o.rows) > 0)
  BY <1>1
<1>. QED  BY <1>1, <1>2 DEF End

LEMMA EmptyRun == \A a : Run(<<>>, a) /\ \A tp : OneDate(tp, <<>>)
BY DEF Run, OneDate

----------------------------------------------------------------------------
\* What a step leaves alone

LEMMA LakeFrame ==
  ASSUME NEW tp \in TPs, LakeFits(tp), UNCHANGED <<date, committed, lake>>
  PROVE  LakeFits(tp)'
BY DEF LakeFits, Fits, OneDate, End

LEMMA HeldFrame ==
  ASSUME NEW tp \in TPs, Held(tp), Dated(tp),
         UNCHANGED <<date, position, Chunk(tp), committed[tp], buffers[tp], batch[tp]>>,
         position[tp]' = position[tp]
  PROVE  Held(tp)' /\ Dated(tp)'
BY DEF Held, Dated, OneDate

LEMMA InitInv == Init => Inv
<1>. SUFFICES ASSUME Init PROVE Inv
  OBVIOUS
<1>1. Types
  <2>1. Nothing \in [TPs -> Seq(Offsets)]
    BY DEF Nothing
  <2>2. 0 \in 0..MaxOffset
    BY OffsetsAreNaturals
  <2>3. committed \in [TPs -> 0..MaxOffset] /\ position \in [TPs -> 0..MaxOffset]
    BY <2>2 DEF Init
  <2>4. lake \in [TPs -> SUBSET Objects]
    BY DEF Init
  <2>. QED  BY <2>1, <2>3, <2>4 DEF Init, Types
<1>2. Control
  BY DEF Init, Control, Nothing, Buffered
<1>3. ASSUME NEW tp \in TPs PROVE Held(tp) /\ Dated(tp) /\ LakeFits(tp)
  <2>1. Chunk(tp) = <<>> /\ buffers[tp] = <<>> /\ batch[tp] = <<>>
    BY DEF Init, Chunk, Nothing
  <2>2. Held(tp)
    BY <2>1, EmptyRun DEF Init, Held
  <2>3. Dated(tp)
    BY <2>1, EmptyRun, OffsetsAreNaturals DEF Dated
  <2>4. LakeFits(tp)
    BY DEF Init, LakeFits
  <2>. QED  BY <2>2, <2>3, <2>4
<1>. QED  BY <1>1, <1>2, <1>3 DEF Inv

----------------------------------------------------------------------------
\* Reading

LEMMA PollKeeps == Inv /\ Poll => Inv'
<1>. SUFFICES ASSUME Inv, Poll PROVE Inv'
  OBVIOUS
<1>1. PICK n \in [TPs -> 0..MaxBatch] :
        /\ \A tp \in TPs : position[tp] + n[tp] <= MaxOffset
        /\ batch' = [tp \in TPs |-> [i \in 1..n[tp] |-> position[tp] + i - 1]]
        /\ position' = [tp \in TPs |-> position[tp] + n[tp]]
  BY DEF Poll
<1>2. ASSUME NEW tp \in TPs
      PROVE  /\ position[tp] \in Nat /\ n[tp] \in Nat /\ position'[tp] = position[tp] + n[tp]
             /\ position'[tp] \in 0..MaxOffset
             /\ batch'[tp] \in Seq(Offsets) /\ Len(batch'[tp]) = n[tp]
             /\ Run(batch'[tp], position[tp])
  <2>1. position[tp] \in 0..MaxOffset /\ n[tp] \in Nat /\ position[tp] + n[tp] <= MaxOffset
    BY <1>1, MaterializerAssumption DEF Inv, Types
  <2>. DEFINE q == [i \in 1..n[tp] |-> position[tp] + i - 1]
  <2>2. q \in [1..n[tp] -> Offsets]
    BY <2>1, OffsetsAreNaturals DEF Offsets
  <2>3. q \in Seq(Offsets) /\ Len(q) = n[tp]
    BY SMTT(40), <2>1, <2>2
  <2>4. Run(q, position[tp])
    BY <2>1, <2>3 DEF Run
  <2>5. batch'[tp] = q /\ position'[tp] = position[tp] + n[tp]
    BY <1>1
  <2>. QED  BY <2>1, <2>3, <2>4, <2>5, OffsetsAreNaturals
<1>3. Types'
  <2>1. batch' \in [TPs -> Seq(Offsets)]
    BY <1>1, <1>2
  <2>2. position' \in [TPs -> 0..MaxOffset]
    BY <1>1, <1>2
  <2>. QED  BY <2>1, <2>2 DEF Inv, Types, Poll
<1>4. Control'
  BY DEF Inv, Control, Poll, Buffered
<1>5. ASSUME NEW tp \in TPs PROVE Held(tp)' /\ Dated(tp)' /\ LakeFits(tp)'
  <2>1. Chunk(tp) = <<>> /\ Chunk(tp)' = <<>> /\ batch[tp] = <<>>
      /\ UNCHANGED <<buffers, committed, date>>
    BY DEF Inv, Control, Poll, Chunk
  <2>2. Held(tp) /\ Dated(tp) /\ LakeFits(tp)
    BY DEF Inv
  <2>3. committed[tp] \in Nat /\ Len(buffers[tp]) \in Nat
    BY OffsetsAreNaturals DEF Inv, Types
  <2>4. position[tp] = committed[tp] + Len(buffers[tp])
    BY <2>1, <2>2, <2>3 DEF Held
  <2>5. Held(tp)'
    BY <1>2, <2>1, <2>2, <2>3, <2>4, EmptyRun DEF Held
  <2>6. Dated(tp)'
    BY <2>1, <2>2 DEF Dated, OneDate
  <2>7. LakeFits(tp)'
    BY <2>2, LakeFrame DEF Poll
  <2>. QED  BY <2>5, <2>6, <2>7
<1>. QED  BY <1>3, <1>4, <1>5 DEF Inv

(* The first record at hand is the one right behind what is buffered.        *)
LEMMA AtHand ==
  ASSUME Inv, NEW tp \in TPs, pc = "append", batch[tp] # <<>>
  PROVE  /\ Head(batch[tp]) \in Offsets
         /\ Head(batch[tp]) = committed[tp] + Len(buffers[tp])
         /\ Tail(batch[tp]) \in Seq(Offsets) /\ Len(Tail(batch[tp])) = Len(batch[tp]) - 1
         /\ Run(Tail(batch[tp]), committed[tp] + Len(buffers[tp]) + 1)
         /\ position[tp] = committed[tp] + Len(buffers[tp]) + Len(batch[tp])
         /\ Run(buffers[tp], committed[tp])
         /\ committed[tp] \in Nat /\ Len(buffers[tp]) \in Nat /\ Len(batch[tp]) \in Nat
<1>1. Chunk(tp) = <<>> /\ Held(tp)
  BY DEF Inv, Chunk
<1>2. committed[tp] \in Nat /\ Len(buffers[tp]) \in Nat /\ Len(batch[tp]) \in Nat
  BY OffsetsAreNaturals DEF Inv, Types
<1>3. /\ Run(batch[tp], committed[tp] + Len(buffers[tp])) /\ Run(buffers[tp], committed[tp])
      /\ position[tp] = committed[tp] + Len(buffers[tp]) + Len(batch[tp])
  BY <1>1, <1>2 DEF Held
<1>4. batch[tp] \in Seq(Offsets) /\ committed[tp] + Len(buffers[tp]) \in Int
  BY <1>2 DEF Inv, Types
<1>. QED  BY <1>2, <1>3, <1>4, RunTail

----------------------------------------------------------------------------
\* Cutting

(* A buffer, with one more record or without, becomes the chunk in flight:   *)
(* `rest` is then what is at hand.                                           *)
LEMMA CutKeeps ==
  ASSUME Inv, NEW tp \in TPs, NEW rows \in Seq(Offsets), NEW then \in {"append", "flush"},
         pc \in {"append", "flush"},
         StartFlush(tp, rows, then),
         Len(rows) \in 1..FLUSH_RECORDS, Run(rows, committed[tp]), OneDate(tp, rows),
         batch' \in [TPs -> Seq(Offsets)],
         Run(batch'[tp], committed[tp] + Len(rows)),
         position[tp] = committed[tp] + Len(rows) + Len(batch'[tp]),
         \A t \in TPs \ {tp} : batch'[t] = batch[t],
         todo' \subseteq todo \ {tp}, then = "append" => todo' = {},
         then = "flush" => \A t \in TPs : batch'[t] = <<>>,
         UNCHANGED <<date, committed, lake, stopping, position>>
  PROVE  Inv'
<1>1. Types'
  <2>1. buffers' \in [TPs -> Seq(Offsets)]
    BY DEF Inv, Types, StartFlush
  <2>2. todo' \in SUBSET TPs /\ pc' = "put"
    BY DEF Inv, Types, StartFlush
  <2>. QED  BY <2>1, <2>2 DEF Inv, Types
<1>2. buffers'[tp] = <<>> /\ \A t \in TPs \ {tp} : buffers'[t] = buffers[t]
  BY DEF Inv, Types, StartFlush
<1>3. Control'
  <2>1. todo' \subseteq Buffered'
    BY <1>2 DEF Inv, Control, Buffered
  <2>. QED  BY <2>1 DEF Inv, Control, StartFlush
<1>4. ASSUME NEW t \in TPs PROVE Held(t)' /\ Dated(t)' /\ LakeFits(t)'
  <2>1. LakeFits(t)'
    BY LakeFrame DEF Inv
  <2>2. CASE t = tp
    <3>1. Chunk(t)' = rows /\ Chunk(t) = <<>>
      BY <2>2 DEF Chunk, StartFlush
    <3>2. committed[t] \in Nat /\ Len(rows) \in Nat
      BY OffsetsAreNaturals DEF Inv, Types
    <3>3. Held(t)'
      BY <1>2, <2>2, <3>1, <3>2, EmptyRun DEF Held
    <3>4. Dated(t)'
      BY <1>2, <2>2, <3>1, EmptyRun, OffsetsAreNaturals DEF Dated, OneDate
    <3>. QED  BY <2>1, <3>3, <3>4
  <2>3. CASE t # tp
    <3>1. Chunk(t)' = <<>> /\ Chunk(t) = <<>>
      BY <2>3 DEF Chunk, StartFlush
    <3>2. batch'[t] = batch[t] /\ buffers'[t] = buffers[t]
      BY <1>2, <2>3
    <3>3. Held(t)' /\ Dated(t)'
      BY <3>1, <3>2, HeldFrame DEF Inv
    <3>. QED  BY <2>1, <3>3
  <2>. QED  BY <2>2, <2>3
<1>. QED  BY <1>1, <1>3, <1>4 DEF Inv

LEMMA DateCutKeeps == ASSUME Inv, NEW tp \in TPs, DateCut(tp) PROVE Inv'
<1>1. /\ pc = "append" /\ batch[tp] # <<>> /\ buffers[tp] # <<>>
      /\ StartFlush(tp, buffers[tp], "append")
  BY DEF DateCut, Turn
<1>2. Chunk(tp) = <<>> /\ Held(tp) /\ Dated(tp) /\ todo = {}
  BY <1>1 DEF Inv, Control, Chunk
<1>3. buffers[tp] \in Seq(Offsets) /\ committed[tp] \in Nat /\ batch \in [TPs -> Seq(Offsets)]
  BY OffsetsAreNaturals DEF Inv, Types
<1>4. Len(buffers[tp]) \in 1..FLUSH_RECORDS
  BY <1>1, <1>2, <1>3, OffsetsAreNaturals DEF Dated
<1>5. /\ Run(buffers[tp], committed[tp]) /\ Run(batch[tp], committed[tp] + Len(buffers[tp]))
      /\ position[tp] = committed[tp] + Len(buffers[tp]) + Len(batch[tp])
  BY <1>2, <1>3 DEF Held
<1>6. OneDate(tp, buffers[tp])
  BY <1>2 DEF Dated
<1>7. UNCHANGED <<date, committed, lake, stopping, position, batch, todo>>
  BY DEF DateCut
<1>. QED  BY <1>1, <1>2, <1>3, <1>4, <1>5, <1>6, <1>7, CutKeeps

LEMMA AppendRecordKeeps == ASSUME Inv, NEW tp \in TPs, AppendRecord(tp) PROVE Inv'
<1>. DEFINE e == Head(batch[tp])
            rows == Append(buffers[tp], e)
<1>1. pc = "append" /\ batch[tp] # <<>> /\ Chunk(tp) = <<>> /\ todo = {} /\ Dated(tp)
  BY DEF AppendRecord, Turn, Inv, Control, Chunk
<1>2. /\ e \in Offsets /\ e = committed[tp] + Len(buffers[tp])
      /\ Tail(batch[tp]) \in Seq(Offsets) /\ Len(Tail(batch[tp])) = Len(batch[tp]) - 1
      /\ Run(Tail(batch[tp]), committed[tp] + Len(buffers[tp]) + 1)
      /\ position[tp] = committed[tp] + Len(buffers[tp]) + Len(batch[tp])
      /\ Run(buffers[tp], committed[tp])
      /\ committed[tp] \in Nat /\ Len(buffers[tp]) \in Nat /\ Len(batch[tp]) \in Nat
  BY <1>1, AtHand
<1>3. buffers[tp] \in Seq(Offsets) /\ {buffers, batch} \subseteq [TPs -> Seq(Offsets)]
  BY DEF Inv, Types
<1>4. rows \in Seq(Offsets) /\ Len(rows) = Len(buffers[tp]) + 1 /\ Run(rows, committed[tp])
  BY <1>2, <1>3, RunAppend
<1>5. OneDate(tp, rows)
  <2>1. buffers[tp] # <<>> => date[tp][e] = date[tp][buffers[tp][1]]
    BY DEF AppendRecord, DateOf
  <2>. QED  BY <1>1, <1>2, <1>3, <2>1, DateAppend DEF Dated
<1>6. /\ batch' = [batch EXCEPT ![tp] = Tail(@)]
      /\ UNCHANGED <<date, committed, lake, stopping, position, todo>>
  BY DEF AppendRecord
<1>7. /\ batch' \in [TPs -> Seq(Offsets)] /\ batch'[tp] = Tail(batch[tp])
      /\ \A t \in TPs \ {tp} : batch'[t] = batch[t]
  BY <1>2, <1>3, <1>6
<1>8. Len(buffers[tp]) < FLUSH_RECORDS
  BY <1>1 DEF Dated
<1>. HIDE DEF rows, e
<1>11. committed[tp] + Len(buffers[tp]) + 1 = committed[tp] + Len(rows)
  BY <1>2, <1>4
<1>12. /\ Run(batch'[tp], committed[tp] + Len(rows))
       /\ position[tp] = committed[tp] + Len(rows) + Len(batch'[tp])
  <2>1. Run(batch'[tp], committed[tp] + Len(rows))
    BY <1>2, <1>7, <1>11
  <2>2. Len(batch'[tp]) = Len(batch[tp]) - 1
    BY <1>2, <1>7
  <2>3. position[tp] = committed[tp] + (Len(buffers[tp]) + 1) + (Len(batch[tp]) - 1)
    <3>. DEFINE c == committed[tp]
                l == Len(buffers[tp])
                m == Len(batch[tp])
    <3>1. c \in Nat /\ l \in Nat /\ m \in Nat /\ position[tp] = c + l + m
      BY <1>2
    <3>. HIDE DEF c, l, m
    <3>2. position[tp] = c + (l + 1) + (m - 1)
      BY <3>1
    <3>. QED  BY <3>2 DEF c, l, m
  <2>4. position[tp] = committed[tp] + Len(rows) + Len(batch'[tp])
    BY <1>4, <2>2, <2>3
  <2>. QED  BY <2>1, <2>4
<1>9. CASE Len(rows) >= FLUSH_RECORDS /\ StartFlush(tp, rows, "append")
  <2>1. Len(rows) \in 1..FLUSH_RECORDS
    BY <1>2, <1>4, <1>8, <1>9, OffsetsAreNaturals
  <2>. QED  BY <1>1, <1>4, <1>5, <1>6, <1>7, <1>9, <1>12, <2>1, CutKeeps
<1>10. CASE /\ Len(rows) < FLUSH_RECORDS /\ buffers' = [buffers EXCEPT ![tp] = rows]
            /\ UNCHANGED <<pc, flush>>
  <2>1. /\ buffers' \in [TPs -> Seq(Offsets)] /\ buffers'[tp] = rows
        /\ \A t \in TPs \ {tp} : buffers'[t] = buffers[t]
    BY <1>3, <1>4, <1>10
  <2>2. Types'
    BY <1>6, <1>7, <1>10, <2>1 DEF Inv, Types
  <2>3. Control'
    BY <1>1, <1>6, <1>10 DEF Inv, Control
  <2>4. ASSUME NEW t \in TPs PROVE Held(t)' /\ Dated(t)' /\ LakeFits(t)'
    <3>1. LakeFits(t)'
      BY <1>6, LakeFrame DEF Inv
    <3>2. Chunk(t) = <<>> /\ Chunk(t)' = <<>>
      BY <1>1, <1>10 DEF Chunk
    <3>3. CASE t = tp
      <4>1. Held(t)'
        <5>1. Len(Chunk(tp)') = 0 /\ Run(Chunk(tp)', committed[tp])
          BY <3>2, <3>3, EmptyRun
        <5>2. UNCHANGED <<committed, position>> /\ buffers'[tp] = rows
          BY <1>6, <2>1
        <5>3. committed[tp] + 0 = committed[tp] /\ Len(rows) \in Nat
          BY <1>2, <1>4
        <5>. QED  BY <1>4, <1>12, <3>3, <5>1, <5>2, <5>3 DEF Held
      <4>2. Dated(t)'
        BY <1>5, <1>6, <1>10, <2>1, <3>2, <3>3, EmptyRun DEF Dated, OneDate
      <4>. QED  BY <3>1, <4>1, <4>2
    <3>4. CASE t # tp
      <4>1. buffers'[t] = buffers[t] /\ batch'[t] = batch[t]
        BY <1>7, <2>1, <3>4
      <4>. QED  BY <1>6, <3>1, <3>2, <4>1, HeldFrame DEF Inv
    <3>. QED  BY <3>3, <3>4
  <2>. QED  BY <2>2, <2>3, <2>4 DEF Inv
<1>. QED  BY <1>9, <1>10 DEF AppendRecord, rows, e

----------------------------------------------------------------------------
\* Flushing

(* The steps that only turn to another list of flushes.                      *)
LEMMA TurnKeeps ==
  ASSUME Inv, pc \in {"poll", "append", "flush"}, pc' \in {"poll", "flush", "stopped"},
         \A tp \in TPs : batch[tp] = <<>>,
         todo' \subseteq Buffered, pc' = "poll" => todo' = {},
         UNCHANGED <<date, committed, lake, stopping, position, batch, buffers, flush>>
  PROVE  Inv'
<1>1. Types'
  BY DEF Inv, Types, Buffered
<1>2. Control'
  BY DEF Control, Buffered
<1>3. ASSUME NEW tp \in TPs PROVE Held(tp)' /\ Dated(tp)' /\ LakeFits(tp)'
  <2>1. Chunk(tp)' = Chunk(tp)
    BY DEF Chunk
  <2>. QED  BY <2>1, HeldFrame, LakeFrame DEF Inv
<1>. QED  BY <1>1, <1>2, <1>3 DEF Inv

LEMMA FlushNextKeeps == ASSUME Inv, FlushNext PROVE Inv'
<1>1. /\ pc = "flush" /\ \A tp \in TPs : batch[tp] = <<>>
      /\ UNCHANGED <<date, committed, lake, stopping, position, batch>>
  BY DEF FlushNext, Inv, Control
<1>2. ASSUME NEW tp \in todo \cap Buffered, todo' = todo \ {tp}, StartFlush(tp, buffers[tp], "flush")
      PROVE  Inv'
  <2>1. tp \in TPs /\ buffers[tp] # <<>> /\ Held(tp) /\ Dated(tp) /\ Chunk(tp) = <<>>
    BY <1>1 DEF Buffered, Inv, Chunk
  <2>2. buffers[tp] \in Seq(Offsets) /\ committed[tp] \in Nat /\ batch \in [TPs -> Seq(Offsets)]
    BY <2>1, OffsetsAreNaturals DEF Inv, Types
  <2>3. Len(buffers[tp]) \in 1..FLUSH_RECORDS
    BY <2>1, <2>2, OffsetsAreNaturals DEF Dated
  <2>4. /\ Run(buffers[tp], committed[tp]) /\ Run(batch[tp], committed[tp] + Len(buffers[tp]))
        /\ position[tp] = committed[tp] + Len(buffers[tp]) + Len(batch[tp])
    BY <2>1, <2>2 DEF Held
  <2>5. OneDate(tp, buffers[tp])
    BY <2>1 DEF Dated
  <2>. QED  BY <1>1, <1>2, <2>1, <2>2, <2>3, <2>4, <2>5, CutKeeps
<1>3. ASSUME todo = {}, pc' = (IF stopping /\ Buffered = {} THEN "stopped" ELSE "poll"),
             UNCHANGED <<todo, buffers, flush>>
      PROVE  Inv'
  BY <1>1, <1>3, TurnKeeps
<1>. QED  BY <1>2, <1>3 DEF FlushNext

----------------------------------------------------------------------------
\* The PUT and the commit

(* The chunk in flight starts where the commit stands, and is one date's.    *)
LEMMA InFlight ==
  ASSUME Inv, pc \in {"put", "commit"}
  PROVE  /\ flush.tp \in TPs /\ committed[flush.tp] \in Nat
         /\ Object.start = committed[flush.tp] /\ Object.rows = flush.rows
         /\ Object \in Objects /\ Fits(flush.tp, Object)
         /\ flush.rows[Len(flush.rows)] + 1 = End(Object)
         /\ End(Object) \in 0..MaxOffset /\ End(Object) > committed[flush.tp]
<1>. DEFINE tp == flush.tp
            q == flush.rows
<1>1. tp \in TPs /\ q \in Seq(Offsets) /\ Len(q) \in Nat /\ Len(q) >= 1
  BY OffsetsAreNaturals DEF Inv, Control
<1>2. Chunk(tp) = q /\ Held(tp) /\ Dated(tp)
  BY <1>1 DEF Chunk, Inv
<1>3. /\ committed[tp] \in Nat /\ Len(buffers[tp]) \in Nat /\ Len(batch[tp]) \in Nat
      /\ position[tp] \in Nat /\ position[tp] <= MaxOffset
      /\ date[tp] \in [Offsets -> Dates]
  BY <1>1, OffsetsAreNaturals DEF Inv, Types
<1>4. /\ Run(q, committed[tp]) /\ OneDate(tp, q)
      /\ position[tp] = committed[tp] + Len(q) + Len(buffers[tp]) + Len(batch[tp])
  BY <1>2 DEF Held, Dated
<1>. HIDE DEF tp, q
<1>5. q[1] = committed[tp] /\ q[Len(q)] = committed[tp] + Len(q) - 1 /\ q[1] \in Offsets
  BY <1>1, <1>3, <1>4 DEF Run
<1>6. Object = [date |-> date[tp][q[1]], start |-> q[1], rows |-> q]
  BY DEF Object, DateOf, tp, q
<1>7. Object \in Objects
  BY <1>1, <1>3, <1>5, <1>6 DEF Objects
<1>8. Fits(tp, Object)
  BY <1>1, <1>4, <1>5, <1>6 DEF Fits
<1>9. Object.start = committed[tp] /\ Object.rows = q /\ End(Object) = committed[tp] + Len(q)
  BY <1>5, <1>6 DEF End
<1>10. End(Object) \in 0..MaxOffset /\ End(Object) > committed[tp] /\ q[Len(q)] + 1 = End(Object)
  <2>1. End(Object) \in Nat /\ End(Object) <= position[tp] /\ End(Object) > committed[tp]
    <3>1. End(Object) \in Nat /\ End(Object) <= position[tp]
      BY SMTT(40), <1>1, <1>3, <1>4, <1>9, Sums
    <3>2. End(Object) > committed[tp]
      BY <1>1, <1>3, <1>9
    <3>. QED  BY <3>1, <3>2
  <2>2. q[Len(q)] + 1 = End(Object)
    BY <1>1, <1>3, <1>5, <1>9
  <2>3. End(Object) <= MaxOffset
    BY <1>3, <2>1, OffsetsAreNaturals
  <2>. QED  BY <2>1, <2>2, <2>3, OffsetsAreNaturals
<1>. QED  BY <1>1, <1>3, <1>7, <1>8, <1>9, <1>10 DEF tp, q

LEMMA PutKeeps == ASSUME Inv, Put PROVE Inv'
<1>0. PICK tp \in TPs : tp = flush.tp
  BY InFlight DEF Put
<1>1. /\ pc = "put" /\ pc' = "commit"
      /\ lake' = [lake EXCEPT ![tp] = {o \in @ : ~SameKey(o, Object)} \cup {Object}]
      /\ UNCHANGED <<date, committed, stopping, position, batch, buffers, todo, flush>>
  BY <1>0 DEF Put
<1>2. /\ tp \in TPs /\ committed[tp] \in Nat /\ Object.start = committed[tp]
      /\ Object \in Objects /\ Fits(tp, Object) /\ End(Object) > committed[tp]
      /\ End(Object) \in Nat
  BY <1>0, <1>1, InFlight, OffsetsAreNaturals
<1>3. LakeFits(tp) /\ lake[tp] \in SUBSET Objects /\ lake \in [TPs -> SUBSET Objects]
  BY <1>2 DEF Inv, Types
<1>4. /\ lake'[tp] = {o \in lake[tp] : ~SameKey(o, Object)} \cup {Object}
      /\ \A t \in TPs \ {tp} : lake'[t] = lake[t]
  BY <1>1, <1>2, <1>3
<1>5. Object' = Object
  BY <1>1 DEF Object, DateOf
<1>6. Types'
  <2>1. lake'[tp] \in SUBSET Objects
    BY <1>2, <1>3, <1>4
  <2>2. lake' \in [TPs -> SUBSET Objects]
    BY <1>1, <1>3, <1>4, <2>1
  <2>. QED  BY <1>1, <2>2 DEF Inv, Types
<1>7. Control'
  <2>1. Object' \in lake'[flush'.tp]
    BY <1>0, <1>1, <1>4, <1>5
  <2>. QED  BY <1>1, <2>1 DEF Inv, Control, Buffered
<1>8. LakeFits(tp)'
  <2>1. ASSUME NEW o \in lake'[tp], o # Object
        PROVE  o \in lake[tp] /\ Fits(tp, o) /\ End(o) <= Object.start
    <3>1. o \in lake[tp] /\ ~SameKey(o, Object) /\ Fits(tp, o)
      BY <1>3, <1>4, <2>1 DEF LakeFits
    <3>2. o.start # committed[tp]
      BY <1>2, <3>1 DEF Fits, SameKey
    <3>. QED  BY <1>2, <3>1, <3>2 DEF Fits
  <2>2. ASSUME NEW o \in lake'[tp] PROVE Fits(tp, o)'
    <3>1. Fits(tp, o)
      BY <1>2, <2>1
    <3>. QED  BY <1>1, <3>1 DEF Fits, OneDate
  <2>3. ASSUME NEW a \in lake'[tp], NEW b \in lake'[tp]
        PROVE  a = b \/ End(a) <= b.start \/ End(b) <= a.start
    BY <1>3, <2>1 DEF LakeFits
  <2>4. ASSUME NEW n \in 0..(committed[tp] - 1)
        PROVE  \E a \in lake'[tp] : a.start <= n /\ n < End(a)
    <3>1. PICK a \in lake[tp] : a.start <= n /\ n < End(a)
      BY <1>3 DEF LakeFits
    <3>2. a.start \in Nat /\ a.start # Object.start
      <4>1. a.start \in Nat
        BY <1>3, ObjectRange
      <4>. QED  BY <1>2, <3>1, <4>1
    <3>3. a \in lake'[tp]
      BY <1>4, <3>2 DEF SameKey
    <3>. QED  BY <3>1, <3>3
  <2>5. UNCHANGED committed
    BY <1>1
  <2>. QED  BY <2>2, <2>3, <2>4, <2>5 DEF LakeFits
<1>9. ASSUME NEW t \in TPs PROVE Held(t)' /\ Dated(t)' /\ LakeFits(t)'
  <2>1. Chunk(t)' = Chunk(t)
    BY <1>1 DEF Chunk
  <2>2. Held(t)' /\ Dated(t)'
    BY <1>1, <2>1, HeldFrame DEF Inv
  <2>3. t # tp => LakeFits(t)'
    <3>. SUFFICES ASSUME t # tp PROVE LakeFits(t)'
      OBVIOUS
    <3>1. lake'[t] = lake[t] /\ LakeFits(t)
      BY <1>4 DEF Inv
    <3>. QED  BY <1>1, <3>1 DEF LakeFits, Fits, OneDate, End
  <2>4. t = tp => LakeFits(t)'
    BY <1>1, <1>8
  <2>. QED  BY <2>2, <2>3, <2>4
<1>. QED  BY <1>6, <1>7, <1>9 DEF Inv

(* A commit of the chunk in flight, whoever lives to see its answer: what    *)
(* lay behind the committed offset still fits, and now the chunk does too.   *)
LEMMA CommitFits ==
  ASSUME Inv, pc = "commit",
         committed' = [committed EXCEPT ![flush.tp] = flush.rows[Len(flush.rows)] + 1],
         UNCHANGED <<date, lake>>
  PROVE  /\ committed' \in [TPs -> 0..MaxOffset]
         /\ \A t \in TPs : LakeFits(t)'
         /\ committed'[flush.tp] = committed[flush.tp] + Len(flush.rows)
         /\ \A t \in TPs \ {flush.tp} : committed'[t] = committed[t]
<1>0. PICK tp \in TPs : tp = flush.tp
  BY InFlight
<1>1. /\ committed[tp] \in Nat /\ Object.start = committed[tp]
      /\ Object.rows = flush.rows /\ Object \in Objects /\ Fits(tp, Object)
      /\ flush.rows[Len(flush.rows)] + 1 = End(Object)
      /\ End(Object) \in 0..MaxOffset /\ End(Object) > committed[tp]
      /\ End(Object) = committed[tp] + Len(flush.rows)
  BY <1>0, InFlight DEF End
<1>2. committed \in [TPs -> 0..MaxOffset] /\ Object \in lake[tp] /\ LakeFits(tp)
      /\ lake[tp] \in SUBSET Objects
  BY <1>0 DEF Inv, Types, Control
<1>3. /\ committed' \in [TPs -> 0..MaxOffset] /\ committed'[tp] = End(Object)
      /\ \A t \in TPs \ {tp} : committed'[t] = committed[t]
  BY <1>0, <1>1, <1>2
<1>4. LakeFits(tp)'
  <2>1. ASSUME NEW o \in lake[tp] PROVE End(o) <= committed'[tp] /\ Fits(tp, o)
    <3>1. Fits(tp, o) /\ (o = Object \/ End(o) <= Object.start \/ End(Object) <= o.start)
      BY <1>2 DEF LakeFits
    <3>2. o.start \in Nat /\ Len(o.rows) \in Nat /\ End(o) \in Nat /\ End(o) > o.start
      BY <1>2, <3>1, ObjectRange DEF Fits
    <3>3. o # Object => End(o) <= committed[tp]
      BY <1>1, <3>1, <3>2, OffsetsAreNaturals DEF Fits
    <3>. QED  BY <1>1, <1>3, <3>1, <3>2, <3>3, OffsetsAreNaturals
  <2>2. ASSUME NEW n \in 0..(committed'[tp] - 1)
        PROVE  \E a \in lake[tp] : a.start <= n /\ n < End(a)
    <3>1. CASE n <= committed[tp] - 1
      BY <1>1, <1>2, <3>1 DEF LakeFits
    <3>2. CASE n >= committed[tp]
      BY <1>1, <1>2, <1>3, <3>2, OffsetsAreNaturals
    <3>. QED  BY <1>1, <3>1, <3>2
  <2>3. ASSUME NEW o \in lake[tp] PROVE Fits(tp, o)'
    BY <2>1 DEF Fits, OneDate
  <2>. QED  BY <1>2, <2>2, <2>3 DEF LakeFits
<1>5. ASSUME NEW t \in TPs, t # tp PROVE LakeFits(t)'
  <2>1. committed'[t] = committed[t] /\ LakeFits(t)
    BY <1>3, <1>5 DEF Inv
  <2>. QED  BY <2>1 DEF LakeFits, Fits, OneDate
<1>. QED  BY <1>0, <1>1, <1>3, <1>4, <1>5

LEMMA CommitKeeps == ASSUME Inv, Commit PROVE Inv'
<1>1. /\ pc = "commit" /\ pc' = flush.then
      /\ committed' = [committed EXCEPT ![flush.tp] = flush.rows[Len(flush.rows)] + 1]
      /\ UNCHANGED <<date, lake, stopping, position, batch, buffers, todo>>
  BY DEF Commit
<1>2. /\ committed' \in [TPs -> 0..MaxOffset]
      /\ \A t \in TPs : LakeFits(t)'
      /\ committed'[flush.tp] = committed[flush.tp] + Len(flush.rows)
      /\ \A t \in TPs \ {flush.tp} : committed'[t] = committed[t]
  BY <1>1, CommitFits
<1>3. pc' \in {"append", "flush"}
  BY <1>1 DEF Inv, Control
<1>4. Types'
  BY <1>1, <1>2, <1>3 DEF Inv, Types
<1>5. Control'
  BY <1>1, <1>3 DEF Inv, Control, Buffered
<1>6. ASSUME NEW t \in TPs PROVE Held(t)' /\ Dated(t)'
  <2>1. Chunk(t)' = <<>> /\ Held(t) /\ Dated(t)
    BY <1>3 DEF Chunk, Inv
  <2>2. committed[t] \in Nat /\ Len(buffers[t]) \in Nat /\ Len(batch[t]) \in Nat
    BY OffsetsAreNaturals DEF Inv, Types
  <2>3. Chunk(t) = <<>> \/ (Chunk(t) = flush.rows /\ flush.rows \in Seq(Offsets))
    BY <1>1 DEF Chunk, Inv, Control
  <2>4. committed'[t] = committed[t] + Len(Chunk(t)) /\ Len(Chunk(t)) \in Nat
    <3>1. CASE t = flush.tp
      BY <1>1, <1>2, <2>3, <3>1 DEF Chunk
    <3>2. CASE t # flush.tp
      BY <1>2, <2>2, <3>2 DEF Chunk
    <3>. QED  BY <3>1, <3>2
  <2>. DEFINE c == committed'[t]
  <2>5. /\ Run(buffers[t], c) /\ Run(batch[t], c + Len(buffers[t]))
        /\ position[t] = c + Len(buffers[t]) + Len(batch[t])
    BY <2>1, <2>4 DEF Held
  <2>6. c \in Nat /\ c + 0 = c
    BY <2>2, <2>4
  <2>. HIDE DEF c
  <2>7. Run(<<>>, c) /\ Len(<<>>) = 0
    BY EmptyRun
  <2>8. Held(t)'
    <3>1. /\ Run(Chunk(t)', c) /\ Run(buffers'[t], c + Len(Chunk(t)'))
          /\ Run(batch'[t], c + Len(Chunk(t)') + Len(buffers'[t]))
          /\ position'[t] = c + Len(Chunk(t)') + Len(buffers'[t]) + Len(batch'[t])
      BY <1>1, <2>1, <2>5, <2>6, <2>7
    <3>. QED  BY <3>1 DEF Held, c
  <2>9. Dated(t)'
    BY <1>1, <2>1, EmptyRun DEF Dated, OneDate
  <2>. QED  BY <2>8, <2>9
<1>. QED  BY <1>2, <1>4, <1>5, <1>6 DEF Inv

----------------------------------------------------------------------------
\* Ends and new beginnings

LEMMA FreshKeeps ==
  ASSUME Inv, FreshTask, committed' \in [TPs -> 0..MaxOffset],
         \A tp \in TPs : LakeFits(tp)', UNCHANGED <<date, lake>>
  PROVE  Inv'
<1>1. /\ pc' = "poll" /\ stopping' = FALSE /\ position' = committed' /\ batch' = Nothing
      /\ buffers' = Nothing /\ todo' = {}
  BY DEF FreshTask
<1>2. Nothing \in [TPs -> Seq(Offsets)] /\ \A tp \in TPs : Nothing[tp] = <<>>
  BY DEF Nothing
<1>3. Types'
  BY <1>1, <1>2 DEF Inv, Types
<1>4. Control'
  BY <1>1, <1>2 DEF Control, Buffered
<1>5. ASSUME NEW tp \in TPs PROVE Held(tp)' /\ Dated(tp)'
  <2>1. Chunk(tp)' = <<>> /\ buffers'[tp] = <<>> /\ batch'[tp] = <<>>
    BY <1>1, <1>2 DEF Chunk
  <2>2. committed'[tp] \in Nat
    BY OffsetsAreNaturals
  <2>3. Held(tp)'
    BY <1>1, <2>1, <2>2, EmptyRun DEF Held
  <2>4. Dated(tp)'
    BY <2>1, EmptyRun, OffsetsAreNaturals DEF Dated, OneDate
  <2>. QED  BY <2>3, <2>4
<1>. QED  BY <1>3, <1>4, <1>5 DEF Inv

LEMMA CrashKeeps == ASSUME Inv, Crash PROVE Inv'
<1>1. FreshTask /\ UNCHANGED <<date, lake>>
  BY DEF Crash
<1>2. CASE committed' = committed
  <2>1. \A tp \in TPs : LakeFits(tp)'
    BY <1>1, <1>2, LakeFrame DEF Inv
  <2>2. committed' \in [TPs -> 0..MaxOffset]
    BY <1>2 DEF Inv, Types
  <2>. QED  BY <1>1, <2>1, <2>2, FreshKeeps
<1>3. CASE /\ pc = "commit"
           /\ committed' = [committed EXCEPT ![flush.tp] = flush.rows[Len(flush.rows)] + 1]
  <2>1. committed' \in [TPs -> 0..MaxOffset] /\ \A tp \in TPs : LakeFits(tp)'
    BY <1>1, <1>3, CommitFits
  <2>. QED  BY <1>1, <2>1, FreshKeeps
<1>. QED  BY <1>2, <1>3 DEF Crash

LEMMA RestartKeeps == ASSUME Inv, Restart PROVE Inv'
<1>1. \A tp \in TPs : LakeFits(tp)'
  BY LakeFrame DEF Inv, Restart
<1>2. committed' \in [TPs -> 0..MaxOffset]
  BY DEF Inv, Types, Restart
<1>. QED  BY <1>1, <1>2, FreshKeeps DEF Restart

(* Shutdown only raises a flag, and a stutter nothing.                       *)
LEMMA FlagKeeps ==
  ASSUME Inv, stopping' \in BOOLEAN,
         UNCHANGED <<date, committed, lake, pc, position, batch, buffers, todo, flush>>
  PROVE  Inv'
<1>1. Types'
  BY DEF Inv, Types
<1>2. Control'
  BY DEF Inv, Control, Buffered, Object, DateOf
<1>3. ASSUME NEW tp \in TPs PROVE Held(tp)' /\ Dated(tp)' /\ LakeFits(tp)'
  <2>1. Chunk(tp)' = Chunk(tp)
    BY DEF Chunk
  <2>. QED  BY <2>1, HeldFrame, LakeFrame DEF Inv
<1>. QED  BY <1>1, <1>2, <1>3 DEF Inv
----------------------------------------------------------------------------
\* The theorems

LEMMA StepKeeps == Inv /\ [Next]_vars => Inv'
<1>. SUFFICES ASSUME Inv, [Next]_vars PROVE Inv'
  OBVIOUS
<1>1. CASE Poll
  BY <1>1, PollKeeps
<1>2. CASE FlushAll
  <2>1. /\ pc = "poll" /\ pc' = "flush" /\ todo' = Buffered
        /\ UNCHANGED <<date, committed, lake, stopping, position, batch, buffers, flush>>
    BY <1>2 DEF FlushAll
  <2>2. \A tp \in TPs : batch[tp] = <<>>
    BY <2>1 DEF Inv, Control
  <2>. QED  BY <2>1, <2>2, TurnKeeps
<1>3. CASE FlushNext
  BY <1>3, FlushNextKeeps
<1>4. CASE Put
  BY <1>4, PutKeeps
<1>5. CASE Commit
  BY <1>5, CommitKeeps
<1>6. CASE Restart
  BY <1>6, RestartKeeps
<1>7. ASSUME NEW tp \in TPs, DateCut(tp) PROVE Inv'
  BY <1>7, DateCutKeeps
<1>8. ASSUME NEW tp \in TPs, AppendRecord(tp) PROVE Inv'
  BY <1>8, AppendRecordKeeps
<1>9. ASSUME NEW due \in SUBSET TPs, FlushDue(due) PROVE Inv'
  <2>1. /\ pc = "append" /\ pc' = "flush" /\ todo' \subseteq Buffered
        /\ \A tp \in TPs : batch[tp] = <<>>
        /\ UNCHANGED <<date, committed, lake, stopping, position, batch, buffers, flush>>
    BY <1>9 DEF FlushDue
  <2>. QED  BY <2>1, TurnKeeps
<1>10. CASE Crash
  BY <1>10, CrashKeeps
<1>11. CASE Shutdown
  BY <1>11, FlagKeeps DEF Shutdown
<1>12. CASE UNCHANGED vars
  <2>1. stopping' \in BOOLEAN
    BY <1>12 DEF Inv, Types, vars, taskVars
  <2>. QED  BY <1>12, <2>1, FlagKeeps DEF vars, taskVars
<1>. QED
  BY <1>1, <1>2, <1>3, <1>4, <1>5, <1>6, <1>7, <1>8, <1>9, <1>10, <1>11, <1>12 DEF Next, Step

(* The invariant of the lake and of what is still in memory.                 *)
THEOREM Invariance == Spec => []Inv
<1>1. Spec => Init /\ [][Next]_vars
  BY DEF Spec
<1>. QED  BY <1>1, InitInv, StepKeeps, PTL

(* The objects of a partition are runs of offsets that do not overlap.       *)
LEMMA RowsOfObject ==
  ASSUME NEW tp \in TPs, NEW o \in Objects, Run(o.rows, o.start), NEW n \in Int
  PROVE  n \in Rows(o) <=> o.start <= n /\ n < End(o)
<1>1. o.start \in Nat /\ Len(o.rows) \in Nat /\ End(o) = o.start + Len(o.rows)
  BY ObjectRange DEF End
<1>2. ASSUME n \in Rows(o) PROVE o.start <= n /\ n < End(o)
  <2>1. PICK i \in 1..Len(o.rows) : n = o.rows[i]
    BY <1>2 DEF Rows
  <2>. QED  BY <1>1, <2>1 DEF Run
<1>3. ASSUME o.start <= n, n < End(o) PROVE n \in Rows(o)
  <2>. DEFINE i == n - o.start + 1
  <2>1. i \in 1..Len(o.rows) /\ o.start + i - 1 = n
    BY <1>1, <1>3
  <2>2. o.rows[i] = n
    BY <2>1 DEF Run
  <2>. QED  BY <2>1, <2>2 DEF Rows
<1>. QED  BY <1>2, <1>3

(* service.py, "exactly-once at the file grain", for any number of crashes,  *)
(* shutdowns and lost answers: no record stands in the lake twice, and every *)
(* committed one stands there.                                               *)
THEOREM ArchivedExactlyOnce == Spec => []ExactlyOnce
<1>1. ASSUME Inv PROVE ExactlyOnce
  <2>. SUFFICES ASSUME NEW tp \in TPs
       PROVE  /\ \A a, b \in lake[tp] : a # b => Rows(a) \cap Rows(b) = {}
              /\ \A a \in lake[tp] : \A i, j \in 1..Len(a.rows) : a.rows[i] = a.rows[j] => i = j
              /\ \A n \in 0..(committed[tp] - 1) : \E a \in lake[tp] : n \in Rows(a)
    BY DEF ExactlyOnce
  <2>1. lake[tp] \subseteq Objects /\ LakeFits(tp) /\ committed[tp] \in Nat
    BY <1>1, OffsetsAreNaturals DEF Inv, Types
  <2>2. ASSUME NEW o \in lake[tp]
        PROVE  /\ o.start \in Nat /\ End(o) \in Nat /\ Len(o.rows) \in Nat /\ Run(o.rows, o.start)
               /\ \A n \in Int : n \in Rows(o) <=> o.start <= n /\ n < End(o)
               /\ \A n \in Rows(o) : n \in Int
    <3>1. o \in Objects /\ Run(o.rows, o.start)
      BY <2>1 DEF LakeFits, Fits
    <3>2. o.start \in Nat /\ End(o) \in Nat /\ o.rows \in Seq(Offsets) /\ Len(o.rows) \in Nat
      BY <3>1, ObjectRange
    <3>3. ASSUME NEW n \in Rows(o) PROVE n \in Int
      <4>1. PICK i \in 1..Len(o.rows) : n = o.rows[i]
        BY DEF Rows
      <4>2. o.rows[i] \in Offsets
        BY <3>2, <4>1
      <4>3. n \in Nat
        BY <4>1, <4>2, OffsetsAreNaturals
      <4>. QED  BY <4>3
    <3>. QED  BY <3>1, <3>2, <3>3, RowsOfObject
  <2>3. ASSUME NEW a \in lake[tp], NEW b \in lake[tp], a # b PROVE Rows(a) \cap Rows(b) = {}
    <3>1. End(a) <= b.start \/ End(b) <= a.start
      BY <2>1, <2>3 DEF LakeFits
    <3>. QED  BY <2>2, <3>1
  <2>4. ASSUME NEW a \in lake[tp], NEW i \in 1..Len(a.rows), NEW j \in 1..Len(a.rows),
               a.rows[i] = a.rows[j]
        PROVE  i = j
    BY <2>2, <2>4 DEF Run
  <2>5. ASSUME NEW n \in 0..(committed[tp] - 1) PROVE \E a \in lake[tp] : n \in Rows(a)
    BY <2>1, <2>2 DEF LakeFits
  <2>. QED  BY <2>3, <2>4, <2>5
<1>. QED  BY <1>1, Invariance, PTL

(* object_key: the chunks of a partition lie end to end, at most one of them *)
(* past the committed offset and that right at it, each of one date.         *)
THEOREM ChunksLieEndToEnd == Spec => []ChunksTile
<1>1. ASSUME Inv PROVE ChunksTile
  <2>. SUFFICES ASSUME NEW tp \in TPs, NEW a \in lake[tp]
       PROVE  /\ a.start <= committed[tp]
              /\ \/ a.start + Len(a.rows) <= committed[tp]
                 \/ a.start = committed[tp]
              /\ a.start > 0 => \E b \in lake[tp] : b.start + Len(b.rows) = a.start
              /\ \A n \in Rows(a) : date[tp][n] = a.date
    BY DEF ChunksTile
  <2>1. lake[tp] \subseteq Objects /\ LakeFits(tp) /\ committed[tp] \in Nat
    BY <1>1, OffsetsAreNaturals DEF Inv, Types
  <2>2. ASSUME NEW o \in lake[tp]
        PROVE  /\ Fits(tp, o) /\ o.start \in Nat /\ Len(o.rows) \in Nat /\ End(o) \in Nat
               /\ End(o) > o.start /\ End(o) = o.start + Len(o.rows)
    <3>1. Fits(tp, o) /\ o \in Objects
      BY <2>1 DEF LakeFits
    <3>. QED  BY <3>1, ObjectRange DEF Fits, End
  <2>3. a.start <= committed[tp] /\ (End(a) <= committed[tp] \/ a.start = committed[tp])
    BY <2>1, <2>2 DEF Fits
  <2>4. ASSUME a.start > 0 PROVE \E b \in lake[tp] : b.start + Len(b.rows) = a.start
    <3>1. a.start - 1 \in 0..(committed[tp] - 1)
      BY <2>1, <2>2, <2>3, <2>4
    <3>2. PICK b \in lake[tp] : b.start <= a.start - 1 /\ a.start - 1 < End(b)
      BY <2>1, <3>1 DEF LakeFits
    <3>3. End(b) <= a.start
      <4>1. a = b \/ End(a) <= b.start \/ End(b) <= a.start
        BY <2>1 DEF LakeFits
      <4>. QED  BY <2>2, <3>2, <4>1
    <3>. QED  BY <2>2, <3>2, <3>3
  <2>5. ASSUME NEW n \in Rows(a) PROVE date[tp][n] = a.date
    <3>1. PICK i \in 1..Len(a.rows) : n = a.rows[i]
      BY DEF Rows
    <3>2. a.rows[1] = a.start
      BY <2>2 DEF Fits, Run
    <3>. QED  BY <2>2, <3>1, <3>2 DEF Fits, OneDate
  <2>. QED  BY <2>2, <2>3, <2>4, <2>5
<1>. QED  BY <1>1, Invariance, PTL

(* What is committed is never rewritten, moved or removed: a PUT replaces    *)
(* only what starts where the commit stands.                                 *)
THEOREM CommittedNeverRewritten == Spec => CommittedObjectsStay
<1>1. ASSUME Inv, [Next]_vars, NEW tp \in TPs, NEW a \in lake[tp], a.start < committed[tp]
      PROVE  a \in lake'[tp]
  <2>1. CASE Put
    <3>1. lake' = [lake EXCEPT ![flush.tp] = {o \in @ : ~SameKey(o, Object)} \cup {Object}]
      BY <2>1 DEF Put
    <3>2. a.start \in Nat /\ committed[tp] \in Nat /\ lake \in [TPs -> SUBSET Objects]
      BY <1>1, ObjectRange, OffsetsAreNaturals DEF Inv, Types
    <3>3. tp = flush.tp => ~SameKey(a, Object)
      BY <1>1, <2>1, <3>2, InFlight DEF SameKey, Put
    <3>. QED  BY <3>1, <3>2, <3>3
  <2>2. CASE UNCHANGED lake
    BY <1>1, <2>2
  <2>3. Put \/ UNCHANGED lake
    BY <1>1 DEF Next, Step, Poll, FlushAll, FlushNext, Commit, Restart, DateCut, AppendRecord,
                FlushDue, Crash, Shutdown, vars
  <2>. QED  BY <2>1, <2>2, <2>3
<1>2. Inv /\ [Next]_vars =>
        [\A tp \in TPs : \A a \in lake[tp] : a.start < committed[tp] => a \in lake'[tp]]_vars
  BY <1>1
<1>3. Spec => [][Next]_vars
  BY DEF Spec
<1>. QED  BY <1>2, <1>3, Invariance, PTL DEF CommittedObjectsStay

(* The task's state has its types; a chunk being flushed is not empty and no *)
(* longer than the size cut.                                                 *)
THEOREM TypeCorrect == Spec => []TypeOK
<1>1. ASSUME Inv PROVE TypeOK
  <2>1. \A tp \in TPs : Len(buffers[tp]) < FLUSH_RECORDS
    BY <1>1 DEF Inv, Dated
  <2>2. ASSUME NEW tp \in TPs, NEW q \in {batch[tp], buffers[tp]}, NEW i \in 1..Len(q)
        PROVE  q[i] \in Offsets
    <3>1. q \in Seq(Offsets)
      BY <1>1 DEF Inv, Types
    <3>. QED  BY <3>1
  <2>. QED  BY <1>1, <2>1, <2>2 DEF Inv, Types, Control, TypeOK
<1>. QED  BY <1>1, Invariance, PTL
=============================================================================
