---------------------------- MODULE MCVenueNbbo ----------------------------
(* Two venues of one book partition each, and what they quote.               *)
EXTENDS VenueNbbo, SequencesExt

\* A tie on the bid's price that the size decides; the other leg has the ask.
MCLegs == {[bid |-> [px |-> 2, sz |-> 2], ask |-> [px |-> 5, sz |-> 1]],
           [bid |-> [px |-> 2, sz |-> 1], ask |-> [px |-> 4, sz |-> 1]]}
MCVenueOf == [p \in Partitions |-> p]
MCUndecodable == {-1, 1}

(* EvictAll is the loop of evictSilentVenues over setVenueDown, in the       *)
(* orders lastSeenMs may have.                                               *)
Loop(n, order, held) == FoldLeft(LAMBDA m, v : SetVenueDown(m, v, TRUE, held), n, order)
Orders(S) == {o \in [1..Cardinality(S) -> S] : \A v \in S : \E i \in DOMAIN o : o[i] = v}
Quoting == UNION {[S -> MCLegs] : S \in SUBSET (1..3)}
ASSUME EvictAllIsTheLoop ==
  \A legs \in Quoting, down, gone \in SUBSET (1..3), held \in BOOLEAN :
    LET n == [NewAggregator EXCEPT !.legs = legs, !.down = down]
    IN  EvictAll(n, gone, held) = {Loop(n, o, held) : o \in Orders(gone)}
=============================================================================
