---------------------------- MODULE StreamView ----------------------------
(***************************************************************************)
(* What the gateway promises of one stream: a view of some book the stream's *)
(* producer really had, at the sequence number and connection epoch it had   *)
(* it, moving only forward.  No word of topics, buffers or arrival order.    *)
(***************************************************************************)
EXTENDS Naturals, Sequences

CONSTANT Books   \* the books a producer may have

VARIABLES
  hist,   \* hist[e][n + 1]: the producer's book at sequence n of its connection e
  view    \* [epoch, seq, book], or NoView

NoView == [epoch |-> 0, seq |-> 0, book |-> <<>>]

Init == hist = <<>> /\ view = NoView

\* The producer reconnects, or moves to its next book.
Extend ==
  /\ view' = view
  /\ \E b \in Books :
       \/ hist' = Append(hist, <<b>>)
       \/ hist # <<>> /\ hist' = [hist EXCEPT ![Len(hist)] = Append(@, b)]

Later(e, n) == e > view.epoch \/ (e = view.epoch /\ n > view.seq)

\* The view catches up with some later book, however many it skips.
Advance ==
  /\ hist' = hist
  /\ \E e \in 1..Len(hist) : \E n \in 0..(Len(hist[e]) - 1) :
       Later(e, n) /\ view' = [epoch |-> e, seq |-> n, book |-> hist[e][n + 1]]

Next == Extend \/ Advance

Spec == Init /\ [][Next]_<<hist, view>>
=============================================================================
