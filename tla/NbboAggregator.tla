--------------------------- MODULE NbboAggregator ---------------------------
(***************************************************************************)
(* gateway/src/nbbo.ts for one canonical instrument.  The aggregator is a    *)
(* record nb:                                                                *)
(*   legs       the Map of the venues' latest BBOs, a function on its keys   *)
(*   down       downVenues                                                   *)
(*   lastTuple  {} for null, else {the quotes last returned}                 *)
(*   published  {} or {the last NBBO emitNbbo let through} (server.ts); what *)
(*              a reader of the compacted topic and a client see             *)
(* Venues are numbered in the alphabetical order of their names; prices and  *)
(* sizes compare exactly (cmpDecimal), so naturals stand for them.  The age  *)
(* and crossed flags, computed from what is here, are left out.              *)
(***************************************************************************)
EXTENDS Integers

Quote == [px : Nat, sz : Nat]

NewAggregator == [legs |-> <<>>, down |-> {}, lastTuple |-> {}, published |-> {}]

BeatsBid(candidate, incumbent) ==
  \/ candidate.px > incumbent.px
  \/ candidate.px = incumbent.px /\ candidate.sz > incumbent.sz

BeatsAsk(candidate, incumbent) ==
  \/ candidate.px < incumbent.px
  \/ candidate.px = incumbent.px /\ candidate.sz > incumbent.sz

\* Of the venues S in alphabetical order, the first that no other beats.
BidWinner(legs, S) ==
  CHOOSE v \in S : \A w \in S : /\ ~BeatsBid(legs[w].bid, legs[v].bid)
                                /\ w < v => BeatsBid(legs[v].bid, legs[w].bid)

AskWinner(legs, S) ==
  CHOOSE v \in S : \A w \in S : /\ ~BeatsAsk(legs[w].ask, legs[v].ask)
                                /\ w < v => BeatsAsk(legs[v].ask, legs[w].ask)

\* compute() over the legs of the venues S, which it needs at least one of.
Compute(legs, S) ==
  LET b == BidWinner(legs, S)
      a == AskWinner(legs, S)
  IN  [bid |-> legs[b].bid, bidVenue |-> b, ask |-> legs[a].ask, askVenue |-> a,
       constituents |-> S]

\* A faulty emit gate: prices only.
PriceTuple(msg) == [bid |-> msg.bid.px, ask |-> msg.ask.px]

\* The emit gate's key.
Tuple(msg) == [bid |-> msg.bid, ask |-> msg.ask]

\* The venues compute() considers.
Live(nb) == DOMAIN nb.legs \ nb.down

\* emitNbbo: nothing leaves while the output is held.
Emit(nb, msg, held) == IF held THEN nb ELSE [nb EXCEPT !.published = {msg}]

Stored(legs, v, leg) == [w \in DOMAIN legs \cup {v} |-> IF w = v THEN leg ELSE legs[w]]

OnBBO(nb, v, leg, held) ==
  LET legs == Stored(nb.legs, v, leg)
      stored == [nb EXCEPT !.legs = legs]
      msg == Compute(legs, Live(stored))
  IN  IF Live(stored) = {} \/ nb.lastTuple = {Tuple(msg)} THEN stored
      ELSE Emit([stored EXCEPT !.lastTuple = {Tuple(msg)}], msg, held)

\* setVenueDown's loop body: emit whatever the winner, or forget the tuple.
Recomputed(nb, held) ==
  LET msg == Compute(nb.legs, Live(nb))
  IN  IF Live(nb) = {} THEN [nb EXCEPT !.lastTuple = {}]
      ELSE Emit([nb EXCEPT !.lastTuple = {Tuple(msg)}], msg, held)

SetVenueDown(nb, v, isDown, held) ==
  LET set == [nb EXCEPT !.down = IF isDown THEN @ \cup {v} ELSE @ \ {v}]
  IN  IF isDown = (v \in nb.down) THEN nb
      ELSE IF v \in DOMAIN nb.legs THEN Recomputed(set, held) ELSE set

\* What is left when setVenueDown(v, true) has been called for each v in gone,
\* in an order left open.  The last call that finds a live leg decides: when
\* none is live in the end, the last NBBO out is of the venue w evicted last.
EvictAll(nb, gone, held) ==
  LET set == [nb EXCEPT !.down = @ \cup gone]
  IN  IF gone \cap Live(nb) = {} THEN {set}
      ELSE IF Live(set) # {} \/ \E w \in Live(nb) : Live(nb) = {w}
           THEN {Recomputed(set, held)}
      ELSE {Recomputed(Emit(set, Compute(nb.legs, {w}), held), held) : w \in Live(nb)}

\* The gate opens: snapshot(), every NBBO there is.
Flushed(nb) ==
  IF Live(nb) = {} THEN nb ELSE Emit(nb, Compute(nb.legs, Live(nb)), FALSE)
=============================================================================
