------------------------- MODULE GatewayOutputProofs -------------------------
(***************************************************************************)
(* What the gateway sends out: first the NBBO of its venues (VenueNbbo), then *)
(* the batcher that carries its messages to the broker (EmitBatcher).        *)
(***************************************************************************)
EXTENDS VenueNbbo, EmitBatcher, FiniteSetTheorems, SequenceTheorems, WellFoundedInduction, TLAPS

(***************************************************************************)
(* The NBBO of the gateway for every set of venues, every quote, every       *)
(* timeout and every backlog: what was published last is the best of the     *)
(* live venues, and who is live is what the log says.                        *)
(*                                                                           *)
(* The emit gate compares with the tuple last computed, which need not be    *)
(* the one last published.  The invariant therefore says that lastTuple is   *)
(* the tuple of the live legs (Tracks), held output or not, and that it is   *)
(* the published one whenever nothing is held (Current).                     *)
(***************************************************************************)

\* The gate's tuple is that of the live legs.
Tracks(n) ==
  n.lastTuple = IF Live(n) = {} THEN {} ELSE {Tuple(Compute(n.legs, Live(n)))}

\* What was published has that tuple, and comes from live venues.
Current(n) ==
  Live(n) # {} =>
    \E msg \in Messages :
      /\ n.published = {msg} /\ n.lastTuple = {Tuple(msg)}
      /\ (msg.constituents \cup {msg.bidVenue, msg.askVenue}) \subseteq Live(n)

----------------------------------------------------------------------------
\* compute()

(* A strict order on a finite set has a least element: the one that fewest   *)
(* come before.                                                              *)
LEMMA LeastExists ==
  ASSUME NEW S, IsFiniteSet(S), S # {}, NEW R,
         \A x \in S : <<x, x>> \notin R,
         \A x, y, z \in S : <<x, y>> \in R /\ <<y, z>> \in R => <<x, z>> \in R
  PROVE  \E v \in S : \A w \in S : <<w, v>> \notin R
<1>. DEFINE Before(v) == {w \in S : <<w, v>> \in R}
            size == [v \in S |-> Cardinality(Before(v))]
            Sizes == {size[v] : v \in S}
<1>1. \A v \in S : IsFiniteSet(Before(v)) /\ Cardinality(Before(v)) \in Nat
  <2>. SUFFICES ASSUME NEW v \in S PROVE IsFiniteSet(Before(v)) /\ Cardinality(Before(v)) \in Nat
    OBVIOUS
  <2>1. Before(v) \in SUBSET S
    OBVIOUS
  <2>2. IsFiniteSet(Before(v))
    BY <2>1, FS_Subset
  <2>. QED  BY <2>2, FS_CardinalityType
<1>2. PICK k \in Sizes : \A j \in Sizes : <<j, k>> \notin OpToRel(<, Nat)
  <2>. HIDE DEF Before
  <2>1. \A v \in S : size[v] \in Nat
    BY <1>1
  <2>. HIDE DEF size
  <2>2. Sizes \subseteq Nat /\ Sizes # {}
    BY <2>1
  <2>. QED  BY <2>2, NatLessThanWellFounded, WFMin
<1>3. PICK v \in S : k = Cardinality(Before(v))
  <2>. HIDE DEF Before
  <2>. QED  BY DEF Sizes
<1>4. ASSUME NEW w \in S, <<w, v>> \in R PROVE FALSE
  <2>1. Before(w) \in SUBSET Before(v)
    BY <1>4
  <2>2. w \in Before(v) /\ w \notin Before(w)
    BY <1>4
  <2>3. /\ Cardinality(Before(w)) <= Cardinality(Before(v))
        /\ Cardinality(Before(v)) # Cardinality(Before(w))
    BY <1>1, <2>1, <2>2, FS_Subset
  <2>4. Cardinality(Before(w)) \in Nat /\ Cardinality(Before(v)) \in Nat
    BY <1>1
  <2>. HIDE DEF Before
  <2>5. <<Cardinality(Before(w)), k>> \in OpToRel(<, Nat)
    BY <2>3, <2>4, <1>3 DEF OpToRel
  <2>6. Cardinality(Before(w)) \in Sizes
    OBVIOUS
  <2>. QED  BY <2>5, <2>6, <1>2
<1>. QED  BY <1>4

(* The bid winner of some venues is one of them, and none of them beats it. *)
LEMMA BidWinnerWins ==
  ASSUME NEW D \in SUBSET Venues, NEW legs \in [D -> Legs], NEW S \in SUBSET D, S # {}
  PROVE  /\ BidWinner(legs, S) \in S
         /\ \A w \in S : ~BeatsBid(legs[w].bid, legs[BidWinner(legs, S)].bid)
<1>. DEFINE Precedes(w, v) == \/ BeatsBid(legs[w].bid, legs[v].bid)
                              \/ w < v /\ ~BeatsBid(legs[v].bid, legs[w].bid)
            R == {p \in S \X S : Precedes(p[1], p[2])}
<1>1. S \subseteq Nat /\ IsFiniteSet(S)
  BY VenuesAssumption, FS_Subset
<1>2. \A v \in S : legs[v].bid.px \in Nat /\ legs[v].bid.sz \in Nat
  BY LegsAssumption DEF Quote
<1>3. \A x \in S : <<x, x>> \notin R
  BY <1>1, <1>2 DEF BeatsBid
<1>4. \A x, y, z \in S : <<x, y>> \in R /\ <<y, z>> \in R => <<x, z>> \in R
  BY <1>1, <1>2 DEF BeatsBid
<1>5. PICK v \in S : \A w \in S : <<w, v>> \notin R
  <2>. HIDE DEF R
  <2>. QED  BY <1>1, <1>3, <1>4, LeastExists
<1>6. \A w \in S : /\ ~BeatsBid(legs[w].bid, legs[v].bid)
                   /\ w < v => BeatsBid(legs[v].bid, legs[w].bid)
  BY <1>5
<1>. QED  BY <1>6 DEF BidWinner

(* The same of the ask.                                                      *)
LEMMA AskWinnerWins ==
  ASSUME NEW D \in SUBSET Venues, NEW legs \in [D -> Legs], NEW S \in SUBSET D, S # {}
  PROVE  /\ AskWinner(legs, S) \in S
         /\ \A w \in S : ~BeatsAsk(legs[w].ask, legs[AskWinner(legs, S)].ask)
<1>. DEFINE Precedes(w, v) == \/ BeatsAsk(legs[w].ask, legs[v].ask)
                              \/ w < v /\ ~BeatsAsk(legs[v].ask, legs[w].ask)
            R == {p \in S \X S : Precedes(p[1], p[2])}
<1>1. S \subseteq Nat /\ IsFiniteSet(S)
  BY VenuesAssumption, FS_Subset
<1>2. \A v \in S : legs[v].ask.px \in Nat /\ legs[v].ask.sz \in Nat
  BY LegsAssumption DEF Quote
<1>3. \A x \in S : <<x, x>> \notin R
  BY <1>1, <1>2 DEF BeatsAsk
<1>4. \A x, y, z \in S : <<x, y>> \in R /\ <<y, z>> \in R => <<x, z>> \in R
  BY <1>1, <1>2 DEF BeatsAsk
<1>5. PICK v \in S : \A w \in S : <<w, v>> \notin R
  <2>. HIDE DEF R
  <2>. QED  BY <1>1, <1>3, <1>4, LeastExists
<1>6. \A w \in S : /\ ~BeatsAsk(legs[w].ask, legs[v].ask)
                   /\ w < v => BeatsAsk(legs[v].ask, legs[w].ask)
  BY <1>5
<1>. QED  BY <1>6 DEF AskWinner

(* compute() over live legs is a message of these venues.                    *)
LEMMA ComputedMessage ==
  ASSUME NEW D \in SUBSET Venues, NEW legs \in [D -> Legs], NEW S \in SUBSET D, S # {}
  PROVE  /\ Compute(legs, S) \in Messages
         /\ Tuple(Compute(legs, S)) \in [bid : Quote, ask : Quote]
         /\ Compute(legs, S).constituents = S
         /\ Compute(legs, S).bidVenue \in S /\ Compute(legs, S).askVenue \in S
         /\ Compute(legs, S).bid = legs[BidWinner(legs, S)].bid
         /\ Compute(legs, S).ask = legs[AskWinner(legs, S)].ask
<1>1. BidWinner(legs, S) \in S /\ AskWinner(legs, S) \in S
  BY BidWinnerWins, AskWinnerWins
<1>2. legs[BidWinner(legs, S)].bid \in Quote /\ legs[AskWinner(legs, S)].ask \in Quote
  BY <1>1, LegsAssumption
<1>. QED  BY <1>1, <1>2 DEF Compute, Tuple, Messages

----------------------------------------------------------------------------
\* The aggregator's methods.  Each keeps Tracks; held output changes nothing
\* that is published, and output that is not held keeps Current.

(* What a change of one field leaves of the record.                          *)
LEMMA FieldChanged ==
  ASSUME NEW A, NEW B, NEW C, NEW E, NEW x,
         NEW n \in [legs : A, down : B, lastTuple : C, published : E]
  PROVE  /\ n = [legs |-> n.legs, down |-> n.down,
                 lastTuple |-> n.lastTuple, published |-> n.published]
         /\ [n EXCEPT !.legs = x] = [legs |-> x, down |-> n.down,
                 lastTuple |-> n.lastTuple, published |-> n.published]
         /\ [n EXCEPT !.down = x] = [legs |-> n.legs, down |-> x,
                 lastTuple |-> n.lastTuple, published |-> n.published]
         /\ [n EXCEPT !.lastTuple = x] = [legs |-> n.legs, down |-> n.down,
                 lastTuple |-> x, published |-> n.published]
         /\ [n EXCEPT !.published = x] = [legs |-> n.legs, down |-> n.down,
                 lastTuple |-> n.lastTuple, published |-> x]
  OBVIOUS

(* The fields of an aggregator.                                           *)
LEMMA Fields ==
  ASSUME NEW n \in Aggregators
  PROVE  /\ n.legs \in [DOMAIN n.legs -> Legs] /\ DOMAIN n.legs \in SUBSET Venues
         /\ n.down \in SUBSET Venues
         /\ n.lastTuple \in SUBSET [bid : Quote, ask : Quote]
         /\ n.published \in SUBSET Messages
         /\ n = [legs |-> n.legs, down |-> n.down,
                 lastTuple |-> n.lastTuple, published |-> n.published]
         /\ Live(n) \in SUBSET DOMAIN n.legs /\ Live(n) \in SUBSET Venues
  BY DEF Aggregators, Live

(* Recomputing an aggregator with a live leg: its tuple is that of the live  *)
(* legs, and so is what is published, unless the output is held.             *)
LEMMA RecomputedTracks ==
  ASSUME NEW n \in Aggregators, NEW held \in BOOLEAN
  PROVE  LET m == Recomputed(n, held)
         IN  /\ m \in Aggregators /\ m.legs = n.legs /\ m.down = n.down
             /\ Tracks(m)
             /\ IF held THEN m.published = n.published ELSE Current(m)
<1>. DEFINE msg == Compute(n.legs, Live(n))
            m == Recomputed(n, held)
<1>1. CASE Live(n) = {}
  <2>1. m = [n EXCEPT !.lastTuple = {}]
    BY <1>1 DEF Recomputed
  <2>2. m = [legs |-> n.legs, down |-> n.down, lastTuple |-> {}, published |-> n.published]
    BY <2>1, FieldChanged DEF Aggregators
  <2>. HIDE DEF m
  <2>3. Live(m) = {}
    BY <1>1, <2>2 DEF Live
  <2>4. m \in Aggregators
    BY <2>2, Fields DEF Aggregators
  <2>5. Tracks(m) /\ Current(m)
    BY <2>2, <2>3 DEF Tracks, Current
  <2>. QED  BY <2>2, <2>4, <2>5 DEF m
<1>2. CASE Live(n) # {}
  <2>1. /\ msg \in Messages /\ Tuple(msg) \in [bid : Quote, ask : Quote]
        /\ msg.constituents = Live(n)
        /\ msg.bidVenue \in Live(n) /\ msg.askVenue \in Live(n)
    BY <1>2, Fields, ComputedMessage
  <2>. HIDE DEF msg
  <2>. DEFINE tuples == {Tuple(msg)}
              gated == [n EXCEPT !.lastTuple = {Tuple(msg)}]
  <2>a. gated = [legs |-> n.legs, down |-> n.down, lastTuple |-> {Tuple(msg)},
                 published |-> n.published]
    <3>1. gated = [n EXCEPT !.lastTuple = tuples]
      OBVIOUS
    <3>. HIDE DEF gated, tuples
    <3>2. gated = [legs |-> n.legs, down |-> n.down, lastTuple |-> tuples,
                   published |-> n.published]
      BY <3>1, FieldChanged DEF Aggregators
    <3>. QED  BY <3>2 DEF tuples
  <2>b. m = IF held THEN gated ELSE [gated EXCEPT !.published = {msg}]
    BY <1>2 DEF Recomputed, Emit, msg
  <2>2. m = [legs |-> n.legs, down |-> n.down, lastTuple |-> {Tuple(msg)},
             published |-> IF held THEN n.published ELSE {msg}]
    BY <2>a, <2>b
  <2>. HIDE DEF m
  <2>3. Live(m) = Live(n)
    BY <2>2 DEF Live
  <2>4. m \in Aggregators
    BY <2>1, <2>2, Fields DEF Aggregators
  <2>5. Tracks(m)
    BY <1>2, <2>2, <2>3 DEF Tracks, msg
  <2>6. ~held => Current(m)
    BY <2>1, <2>2, <2>3 DEF Current
  <2>. QED  BY <2>2, <2>4, <2>5, <2>6 DEF m
<1>. QED  BY <1>1, <1>2

(* onBBO, emit gate included.                                                *)
LEMMA OnBBOTracks ==
  ASSUME NEW n \in Aggregators, NEW v \in Venues, NEW leg \in Legs, NEW held \in BOOLEAN,
         Tracks(n)
  PROVE  LET m == OnBBO(n, v, leg, held)
         IN  /\ m \in Aggregators /\ m.down = n.down
             /\ Tracks(m)
             /\ IF held THEN m.published = n.published ELSE Current(n) => Current(m)
<1>. DEFINE stored == [n EXCEPT !.legs = Stored(n.legs, v, leg)]
            msg == Compute(stored.legs, Live(stored))
            m == OnBBO(n, v, leg, held)
<1>1. /\ stored = [legs |-> Stored(n.legs, v, leg), down |-> n.down,
                   lastTuple |-> n.lastTuple, published |-> n.published]
      /\ DOMAIN Stored(n.legs, v, leg) = DOMAIN n.legs \cup {v}
      /\ Stored(n.legs, v, leg) \in [DOMAIN n.legs \cup {v} -> Legs]
  <2>1. stored = [legs |-> Stored(n.legs, v, leg), down |-> n.down,
                  lastTuple |-> n.lastTuple, published |-> n.published]
    BY FieldChanged DEF Aggregators
  <2>. QED  BY <2>1, Fields DEF Stored
<1>2. stored \in Aggregators /\ Live(n) \subseteq Live(stored)
  BY <1>1, Fields DEF Aggregators, Live
<1>. HIDE DEF stored
<1>3. m = IF Live(stored) = {} \/ n.lastTuple = {Tuple(msg)} THEN stored
          ELSE Emit([stored EXCEPT !.lastTuple = {Tuple(msg)}], msg, held)
  BY <1>1 DEF OnBBO, stored
<1>4. CASE Live(stored) = {}
  <2>1. m = stored
    BY <1>3, <1>4
  <2>. QED  BY <1>1, <1>2, <1>4, <2>1 DEF Tracks, Current
<1>5. CASE Live(stored) # {} /\ n.lastTuple = {Tuple(msg)}
  <2>1. m = stored
    BY <1>3, <1>5
  <2>2. Tracks(stored)
    BY <1>1, <1>5 DEF Tracks
  <2>3. Live(n) # {}
    BY <1>5 DEF Tracks
  <2>4. Current(n) => Current(stored)
    BY <1>1, <1>2, <2>3 DEF Current
  <2>. QED  BY <1>1, <1>2, <2>1, <2>2, <2>4
<1>6. CASE Live(stored) # {} /\ n.lastTuple # {Tuple(msg)}
  <2>1. m = Recomputed(stored, held)
    BY <1>3, <1>6 DEF Recomputed
  <2>. QED  BY <1>1, <1>2, <2>1, RecomputedTracks
<1>. QED  BY <1>4, <1>5, <1>6

(* setVenueDown, either way.                                                 *)
LEMMA SetVenueDownTracks ==
  ASSUME NEW n \in Aggregators, NEW v \in Venues, NEW isDown \in BOOLEAN, NEW held \in BOOLEAN,
         Tracks(n)
  PROVE  LET m == SetVenueDown(n, v, isDown, held)
         IN  /\ m \in Aggregators /\ m.legs = n.legs
             /\ isDown => m.down = n.down \cup {v}
             /\ ~isDown => m.down = n.down \ {v}
             /\ Tracks(m)
             /\ held => m.published = n.published
             /\ ~held /\ Current(n) => Current(m)
<1>. DEFINE down == IF isDown THEN n.down \cup {v} ELSE n.down \ {v}
            set == [n EXCEPT !.down = down]
            m == SetVenueDown(n, v, isDown, held)
<1>1. set = [legs |-> n.legs, down |-> down,
             lastTuple |-> n.lastTuple, published |-> n.published]
  <2>. HIDE DEF down
  <2>. QED  BY FieldChanged DEF Aggregators
<1>2. m = IF isDown = (v \in n.down) THEN n
          ELSE IF v \in DOMAIN n.legs THEN Recomputed(set, held) ELSE set
  BY DEF SetVenueDown
<1>3. down \in SUBSET Venues
  BY Fields
<1>. HIDE DEF down, set, m
<1>4. set \in Aggregators
  BY <1>1, <1>3, Fields DEF Aggregators
<1>5. CASE isDown = (v \in n.down)
  BY <1>2, <1>5 DEF m, down
<1>6. CASE isDown # (v \in n.down) /\ v \in DOMAIN n.legs
  <2>1. m = Recomputed(set, held)
    BY <1>2, <1>6
  <2>2. /\ m \in Aggregators /\ m.legs = set.legs /\ m.down = set.down /\ Tracks(m)
        /\ IF held THEN m.published = set.published ELSE Current(m)
    BY <1>4, <2>1, RecomputedTracks
  <2>. QED  BY <1>1, <2>2 DEF m, down
<1>7. CASE isDown # (v \in n.down) /\ v \notin DOMAIN n.legs
  <2>1. m = set
    BY <1>2, <1>7
  <2>2. Live(m) = Live(n)
    BY <1>1, <1>7, <2>1 DEF Live, down
  <2>3. Tracks(m) /\ (Current(n) => Current(m))
    BY <1>1, <2>1, <2>2 DEF Tracks, Current
  <2>. QED  BY <1>1, <1>4, <2>1, <2>3 DEF m, down
<1>. QED  BY <1>5, <1>6, <1>7

(* The evictions of one message, in whatever order.                          *)
LEMMA EvictAllTracks ==
  ASSUME NEW n \in Aggregators, NEW gone \in SUBSET Venues, NEW held \in BOOLEAN,
         NEW m \in EvictAll(n, gone, held), Tracks(n)
  PROVE  /\ m \in Aggregators /\ m.legs = n.legs
         /\ m.down = n.down \cup gone
         /\ Tracks(m)
         /\ IF held THEN m.published = n.published ELSE Current(n) => Current(m)
<1>. DEFINE down == n.down \cup gone
            set == [n EXCEPT !.down = down]
<1>1. set = [legs |-> n.legs, down |-> down,
             lastTuple |-> n.lastTuple, published |-> n.published]
  <2>. HIDE DEF down
  <2>. QED  BY FieldChanged DEF Aggregators
<1>2. m \in IF gone \cap Live(n) = {} THEN {set}
            ELSE IF Live(set) # {} \/ \E w \in Live(n) : Live(n) = {w}
                 THEN {Recomputed(set, held)}
            ELSE {Recomputed(Emit(set, Compute(n.legs, {w}), held), held) : w \in Live(n)}
  BY DEF EvictAll
<1>3. down \in SUBSET Venues
  BY Fields
<1>. HIDE DEF down, set
<1>4. set \in Aggregators
  BY <1>1, <1>3, Fields DEF Aggregators
<1>5. CASE gone \cap Live(n) = {}
  <2>1. m = set
    BY <1>2, <1>5
  <2>2. Live(m) = Live(n)
    BY <1>1, <1>5, <2>1 DEF Live, down
  <2>3. Tracks(m) /\ (Current(n) => Current(m))
    BY <1>1, <2>1, <2>2 DEF Tracks, Current
  <2>. QED  BY <1>1, <1>4, <2>1, <2>3 DEF down
<1>6. CASE gone \cap Live(n) # {} /\ m = Recomputed(set, held)
  BY <1>1, <1>4, <1>6, RecomputedTracks DEF down
<1>7. ASSUME gone \cap Live(n) # {}, NEW w \in Live(n),
             m = Recomputed(Emit(set, Compute(n.legs, {w}), held), held)
      PROVE  /\ m \in Aggregators /\ m.legs = n.legs
             /\ m.down = n.down \cup gone
             /\ Tracks(m)
             /\ IF held THEN m.published = n.published ELSE Current(n) => Current(m)
  <2>. DEFINE msgs == {Compute(n.legs, {w})}
              emitted == IF held THEN set ELSE [set EXCEPT !.published = msgs]
  <2>1. msgs \in SUBSET Messages
    BY Fields, ComputedMessage
  <2>2. m = Recomputed(emitted, held)
    BY <1>7 DEF Emit
  <2>3. [set EXCEPT !.published = msgs] =
          [legs |-> set.legs, down |-> set.down, lastTuple |-> set.lastTuple, published |-> msgs]
    <3>. HIDE DEF msgs
    <3>. QED  BY <1>4, FieldChanged DEF Aggregators
  <2>. HIDE DEF msgs
  <2>4. /\ emitted \in Aggregators /\ emitted.legs = n.legs /\ emitted.down = down
        /\ held => emitted.published = n.published
    BY <1>1, <1>4, <2>1, <2>3, Fields DEF Aggregators
  <2>. HIDE DEF emitted
  <2>. QED  BY <2>2, <2>4, RecomputedTracks DEF down
<1>. QED  BY <1>2, <1>5, <1>6, <1>7

(* The gate opens: what is published is current.                             *)
LEMMA FlushedIsCurrent ==
  ASSUME NEW n \in Aggregators, Tracks(n)
  PROVE  LET m == Flushed(n)
         IN  /\ m \in Aggregators /\ m.legs = n.legs /\ m.down = n.down
             /\ Tracks(m) /\ Current(m)
<1>. DEFINE msg == Compute(n.legs, Live(n))
            m == Flushed(n)
<1>1. CASE Live(n) = {}
  BY <1>1 DEF Flushed, Current
<1>2. CASE Live(n) # {}
  <2>1. /\ msg \in Messages /\ msg.constituents = Live(n)
        /\ msg.bidVenue \in Live(n) /\ msg.askVenue \in Live(n)
    BY <1>2, Fields, ComputedMessage
  <2>2. n.lastTuple = {Tuple(msg)}
    BY <1>2 DEF Tracks
  <2>. DEFINE msgs == {msg}
  <2>3. m = [n EXCEPT !.published = msgs]
    BY <1>2 DEF Flushed, Emit
  <2>4. [n EXCEPT !.published = msgs] =
          [legs |-> n.legs, down |-> n.down, lastTuple |-> n.lastTuple, published |-> msgs]
    <3>. HIDE DEF msgs
    <3>. QED  BY FieldChanged DEF Aggregators
  <2>. HIDE DEF m, msg
  <2>5. Live(m) = Live(n)
    BY <2>3, <2>4 DEF Live
  <2>6. m \in Aggregators
    BY <2>1, <2>3, <2>4, Fields DEF Aggregators
  <2>7. Tracks(m)
    BY <2>3, <2>4, <2>5 DEF Tracks
  <2>8. Current(m)
    BY <2>1, <2>2, <2>3, <2>4, <2>5 DEF Current
  <2>. QED  BY <2>3, <2>4, <2>6, <2>7, <2>8 DEF m
<1>. QED  BY <1>1, <1>2

----------------------------------------------------------------------------
\* The state machine

\* The tuple is that of the live legs, and what was published last is current
\* unless the output is held.
AggregatorInv == Tracks(nb) /\ (~Held => Current(nb))

\* A partition the gate has let go has been replayed; a straggler is handled
\* before anything else is consumed.
GateInv ==
  /\ armed => \A p \in Partitions \ pending : pos[p] = 1
  /\ straggler # {} => engaged = {}

VenueInv == NbboTypeOK /\ DownIsWhatTheLogSays /\ AggregatorInv

(* NbboInit establishes the invariant, and that of the gate.                     *)
LEMMA InitInv == NbboInit => VenueInv /\ GateInv
<1>. SUFFICES ASSUME NbboInit PROVE VenueInv /\ GateInv
  OBVIOUS
<1>1. nb = [legs |-> <<>>, down |-> {}, lastTuple |-> {}, published |-> {}]
  BY DEF NbboInit, NewAggregator
<1>2. DOMAIN <<>> = {}
  OBVIOUS
<1>3. nb \in Aggregators
  <2>. DEFINE all == UNION {[S -> Legs] : S \in SUBSET Venues}
              none == <<>>
  <2>1. <<>> \in [{} -> Legs]
    OBVIOUS
  <2>2. none \in all
    BY <2>1
  <2>. HIDE DEF all, none
  <2>3. [legs |-> none, down |-> {}, lastTuple |-> {}, published |-> {}] \in
          [legs : all, down : SUBSET Venues,
           lastTuple : SUBSET [bid : Quote, ask : Quote], published : SUBSET Messages]
    BY <2>2
  <2>. QED  BY <1>1, <2>3 DEF Aggregators, all, none
<1>4. Live(nb) = {}
  BY <1>1, <1>2 DEF Live
<1>5. NbboTypeOK
  <2>1. <<>> \in [{} -> 0..0] /\ <<>> \in [{} -> {"up", "down"}]
    <3>1. <<>> \in [{} -> 0..0]
      OBVIOUS
    <3>2. <<>> \in [{} -> {"up", "down"}]
      OBVIOUS
    <3>. QED  BY <3>1, <3>2
  <2>2. pos \in [Partitions -> Offsets]
    BY GateAssumption DEF NbboInit, Offsets
  <2>3. /\ clock \in Nat /\ DOMAIN lastSeen \subseteq Venues
        /\ lastSeen \in [DOMAIN lastSeen -> 0..clock]
        /\ said \in [DOMAIN lastSeen -> {"up", "down"}]
    BY <1>2, <2>1 DEF NbboInit
  <2>. QED  BY <1>3, <2>2, <2>3 DEF NbboInit, NbboTypeOK
<1>6. DownIsWhatTheLogSays
  BY <1>1, <1>2 DEF NbboInit, DownIsWhatTheLogSays
<1>7. AggregatorInv /\ GateInv
  BY <1>1, <1>4 DEF NbboInit, AggregatorInv, GateInv, Tracks, Current
<1>. QED  BY <1>5, <1>6, <1>7 DEF VenueInv

\* Every venue that is out is out for what the log says of it at time now.
DownAt(n, seen, says, now) ==
  \A v \in Venues :
    v \in n.down <=> /\ v \in DOMAIN says
                     /\ says[v] = "down" \/ v \in Silent(seen, now)

(* The clock moves and the silent venues go: a late "up" is forgotten.       *)
LEMMA EvictedFacts ==
  ASSUME VenueInv, NEW ts \in Times, NEW e \in Evicted(ts)
  PROVE  /\ Advanced(ts) \in Nat /\ clock <= Advanced(ts) /\ ts <= Advanced(ts)
         /\ e \in Aggregators /\ Tracks(e)
         /\ IF Held THEN e.published = nb.published ELSE Current(e)
         /\ DownAt(e, lastSeen, said, Advanced(ts))
<1>. DEFINE gone == Silent(lastSeen, Advanced(ts))
<1>1. /\ Advanced(ts) \in Nat /\ clock <= Advanced(ts) /\ ts <= Advanced(ts)
  BY TimesAssumption DEF VenueInv, NbboTypeOK, Advanced
<1>2. gone \in SUBSET Venues /\ Silent(lastSeen, clock) \subseteq gone
  BY <1>1, TimesAssumption DEF VenueInv, NbboTypeOK, Silent
<1>3. e \in EvictAll(nb, gone, Held)
  BY DEF Evicted
<1>4. Held \in BOOLEAN
  BY DEF Held
<1>. HIDE DEF gone
<1>5. /\ e \in Aggregators /\ Tracks(e) /\ e.down = nb.down \cup gone
      /\ IF Held THEN e.published = nb.published ELSE Current(nb) => Current(e)
  BY <1>2, <1>3, <1>4, EvictAllTracks DEF VenueInv, NbboTypeOK, AggregatorInv
<1>6. gone \subseteq DOMAIN said
  BY DEF VenueInv, NbboTypeOK, gone, Silent
<1>7. DownAt(e, lastSeen, said, Advanced(ts))
  BY <1>2, <1>5, <1>6 DEF VenueInv, DownIsWhatTheLogSays, DownAt, gone
<1>. QED  BY <1>1, <1>5, <1>7 DEF VenueInv, AggregatorInv

(* A book message, whether its partition's next or a straggler.              *)
LEMMA HandleBookKeeps ==
  ASSUME VenueInv, NEW p \in Partitions, NEW off \in Int, NEW bbo \in BboOrNone, NEW ts \in Times,
         HandleBook(p, off, bbo, ts),
         pos' \in [Partitions -> Offsets],
         straggler' \subseteq [part : Partitions, off : StragglerFrom..1]
  PROVE  VenueInv'
<1>. USE DEF HandleBook
<1>1. PICK e \in Evicted(ts) :
        LET routed == IF bbo = {} THEN e
                      ELSE OnBBO(e, VenueOf[p], CHOOSE leg \in bbo : TRUE, Held)
        IN  nb' = IF Opens(p, off) THEN Flushed(routed) ELSE routed
  OBVIOUS
<1>. DEFINE routed == IF bbo = {} THEN e
                      ELSE OnBBO(e, VenueOf[p], CHOOSE leg \in bbo : TRUE, Held)
<1>2. /\ Advanced(ts) \in Nat /\ clock <= Advanced(ts)
      /\ e \in Aggregators /\ Tracks(e)
      /\ IF Held THEN e.published = nb.published ELSE Current(e)
      /\ DownAt(e, lastSeen, said, Advanced(ts))
  BY EvictedFacts
<1>3. /\ routed \in Aggregators /\ Tracks(routed) /\ routed.down = e.down
      /\ ~Held => Current(routed)
  <2>1. CASE bbo = {}
    BY <1>2, <2>1
  <2>2. CASE bbo # {}
    <3>1. (CHOOSE leg \in bbo : TRUE) \in Legs
      BY <2>2 DEF BboOrNone
    <3>2. VenueOf[p] \in Venues /\ Held \in BOOLEAN
      BY PartitionsAssumption DEF Held
    <3>. QED  BY <1>2, <2>2, <3>1, <3>2, OnBBOTracks
  <2>. QED  BY <2>1, <2>2
<1>. HIDE DEF routed
<1>4. nb' = IF Opens(p, off) THEN Flushed(routed) ELSE routed
  BY <1>1 DEF routed
<1>5. /\ nb' \in Aggregators /\ Tracks(nb') /\ nb'.down = e.down
      /\ Opens(p, off) \/ ~Held => Current(nb')
  BY <1>3, <1>4, FlushedIsCurrent
<1>6. pending' \subseteq pending /\ engaged' \subseteq pending'
      /\ (~Held' => Opens(p, off) \/ ~Held)
  BY DEF Observe, Opens, Drains, Held
<1>7. NbboTypeOK'
  <2>1. lastSeen \in [DOMAIN lastSeen -> 0..Advanced(ts)]
    BY <1>2 DEF VenueInv, NbboTypeOK
  <2>. QED  BY <1>2, <1>5, <1>6, <2>1 DEF VenueInv, NbboTypeOK
<1>8. DownIsWhatTheLogSays'
  BY <1>2, <1>5 DEF DownIsWhatTheLogSays, DownAt, Silent
<1>9. AggregatorInv'
  BY <1>5, <1>6 DEF AggregatorInv, Tracks, Current, Live
<1>. QED  BY <1>7, <1>8, <1>9 DEF VenueInv

(* The next offset of a partition is one of its offsets.                     *)
LEMMA PastIsAnOffset ==
  ASSUME NEW off \in Offsets
  PROVE  off \in Int /\ Past(off) \in Offsets
  BY GateAssumption DEF Offsets, Past

(* A partition's next message keeps the invariant.                        *)
LEMMA ConsumeKeepsInv ==
  ASSUME VenueInv, NEW p \in Partitions, Consume(p)
  PROVE  VenueInv'
<1>1. PICK bbo \in BboOrNone, ts \in Times : HandleBook(p, pos[p], bbo, ts)
  BY DEF Consume
<1>2. pos[p] \in Int /\ pos' \in [Partitions -> Offsets]
  BY PastIsAnOffset DEF VenueInv, NbboTypeOK, Consume
<1>3. straggler' \subseteq [part : Partitions, off : StragglerFrom..1]
  BY DEF VenueInv, NbboTypeOK, Consume
<1>. QED  BY <1>1, <1>2, <1>3, HandleBookKeeps

(* So does the suspended one.                                             *)
LEMMA StraggleKeepsInv ==
  ASSUME VenueInv, Straggle
  PROVE  VenueInv'
<1>1. PICK s \in straggler, bbo \in BboOrNone, ts \in Times : HandleBook(s.part, s.off, bbo, ts)
  BY DEF Straggle
<1>2. s.part \in Partitions /\ s.off \in Int
  BY GateAssumption DEF VenueInv, NbboTypeOK
<1>3. /\ pos' \in [Partitions -> Offsets]
      /\ straggler' \subseteq [part : Partitions, off : StragglerFrom..1]
  BY DEF VenueInv, NbboTypeOK, Straggle
<1>. QED  BY <1>1, <1>2, <1>3, HandleBookKeeps

(* A message that does not decode keeps it.                               *)
LEMMA SkipKeepsInv ==
  ASSUME VenueInv, NEW p \in Partitions, Skip(p)
  PROVE  VenueInv'
<1>1. pos' \in [Partitions -> Offsets]
  BY PastIsAnOffset DEF VenueInv, NbboTypeOK, Skip
<1>2. NbboTypeOK'
  BY <1>1 DEF VenueInv, NbboTypeOK, Skip
<1>. QED  BY <1>2 DEF VenueInv, Skip, DownIsWhatTheLogSays, Silent, AggregatorInv, Held

(* A trade keeps it.                                                      *)
LEMMA TradeKeepsInv ==
  ASSUME VenueInv, NEW ts \in Times, Trade(ts)
  PROVE  VenueInv'
<1>1. /\ Advanced(ts) \in Nat /\ clock <= Advanced(ts)
      /\ nb' \in Aggregators /\ Tracks(nb')
      /\ ~Held => Current(nb')
      /\ DownAt(nb', lastSeen, said, Advanced(ts))
  BY EvictedFacts DEF Trade
<1>2. NbboTypeOK'
  <2>1. lastSeen \in [DOMAIN lastSeen -> 0..Advanced(ts)]
    BY <1>1 DEF VenueInv, NbboTypeOK
  <2>. QED  BY <1>1, <2>1 DEF VenueInv, NbboTypeOK, Trade, gateVars
<1>3. DownIsWhatTheLogSays'
  BY <1>1 DEF DownIsWhatTheLogSays, DownAt, Silent, Trade
<1>4. AggregatorInv'
  BY <1>1 DEF AggregatorInv, Tracks, Current, Live, Held, Trade, gateVars
<1>. QED  BY <1>2, <1>3, <1>4 DEF VenueInv

(* A heartbeat keeps it.                                                  *)
LEMMA StatusKeepsInv ==
  ASSUME VenueInv, NEW v \in Venues, NEW state \in {"up", "down"}, NEW ts \in Times,
         Status(v, state, ts)
  PROVE  VenueInv'
<1>1. PICK e \in Evicted(ts) : nb' = SetVenueDown(e, v, state # "up", Held)
  BY DEF Status
<1>2. /\ Advanced(ts) \in Nat /\ clock <= Advanced(ts) /\ ts <= Advanced(ts)
      /\ e \in Aggregators /\ Tracks(e)
      /\ IF Held THEN e.published = nb.published ELSE Current(e)
      /\ DownAt(e, lastSeen, said, Advanced(ts))
  BY EvictedFacts
<1>3. /\ nb' \in Aggregators /\ Tracks(nb')
      /\ nb'.down = IF state # "up" THEN e.down \cup {v} ELSE e.down \ {v}
      /\ ~Held => Current(nb')
  <2>. DEFINE isDown == state # "up"
              m == SetVenueDown(e, v, isDown, Held)
  <2>1. Held \in BOOLEAN /\ isDown \in BOOLEAN /\ e \in Aggregators /\ Tracks(e)
    BY <1>2 DEF Held
  <2>. HIDE DEF isDown
  <2>2. /\ m \in Aggregators /\ Tracks(m)
        /\ isDown => m.down = e.down \cup {v}
        /\ ~isDown => m.down = e.down \ {v}
        /\ ~Held /\ Current(e) => Current(m)
    BY <2>1, SetVenueDownTracks
  <2>3. nb' = m
    BY <1>1 DEF isDown
  <2>. HIDE DEF m
  <2>. QED  BY <1>2, <2>2, <2>3 DEF isDown
<1>4. /\ DOMAIN lastSeen' = DOMAIN lastSeen \cup {v} /\ DOMAIN said' = DOMAIN lastSeen'
      /\ \A w \in DOMAIN lastSeen' :
           /\ lastSeen'[w] = IF w = v THEN ts ELSE lastSeen[w]
           /\ said'[w] = IF w = v THEN state ELSE said[w]
      /\ lastSeen' = [w \in DOMAIN lastSeen' |-> lastSeen'[w]]
      /\ said' = [w \in DOMAIN said' |-> said'[w]]
  BY DEF Status, Stored, VenueInv, NbboTypeOK
<1>5. NbboTypeOK'
  <2>1. DOMAIN lastSeen' \subseteq Venues
    BY <1>4 DEF VenueInv, NbboTypeOK
  <2>2. \A w \in DOMAIN lastSeen' : lastSeen'[w] \in 0..Advanced(ts)
    BY <1>2, <1>4, TimesAssumption DEF VenueInv, NbboTypeOK
  <2>3. \A w \in DOMAIN said' : said'[w] \in {"up", "down"}
    BY <1>4 DEF VenueInv, NbboTypeOK
  <2>4. /\ lastSeen' \in [DOMAIN lastSeen' -> 0..Advanced(ts)]
        /\ said' \in [DOMAIN lastSeen' -> {"up", "down"}]
    BY <1>4, <2>2, <2>3
  <2>5. clock' = Advanced(ts) /\ revived' \subseteq DOMAIN lastSeen'
    BY <1>4 DEF Status
  <2>. QED  BY <1>2, <1>3, <2>1, <2>4, <2>5 DEF VenueInv, NbboTypeOK, Status, gateVars
<1>6. DownIsWhatTheLogSays'
  <2>1. revived' = IF state = "up" THEN {v} ELSE {}
    BY DEF Status
  <2>2. clock' = Advanced(ts)
    BY DEF Status
  <2>. SUFFICES ASSUME NEW w \in Venues
                PROVE  w \in nb'.down <=> /\ w \in DOMAIN said'
                                          /\ \/ said'[w] = "down"
                                             \/ w \in Silent(lastSeen', clock') \ revived'
    BY DEF DownIsWhatTheLogSays
  <2>3. CASE w = v
    BY <1>3, <1>4, <2>1, <2>3
  <2>4. CASE w # v
    <3>1. w \in Silent(lastSeen', clock') <=> w \in Silent(lastSeen, Advanced(ts))
      BY <1>4, <2>2, <2>4 DEF Silent
    <3>2. w \in DOMAIN said' <=> w \in DOMAIN said
      BY <1>4, <2>4 DEF VenueInv, NbboTypeOK
    <3>3. w \in DOMAIN said => said'[w] = said[w]
      BY <1>4, <2>4, <3>2
    <3>. QED  BY <1>2, <1>3, <2>1, <2>4, <3>1, <3>2, <3>3 DEF DownAt
  <2>. QED  BY <2>3, <2>4
<1>7. AggregatorInv'
  BY <1>3 DEF AggregatorInv, Tracks, Current, Live, Held, Status, gateVars
<1>. QED  BY <1>5, <1>6, <1>7 DEF VenueInv

(* Arming the gate keeps it.                                              *)
LEMMA ArmKeepsInv ==
  ASSUME VenueInv, Arm
  PROVE  VenueInv'
<1>1. PICK plan \in [Partitions -> Offsets] :
        /\ pos' = plan /\ pending' = {p \in Partitions : plan[p] <= 0}
        /\ straggler' \in {{}} \cup {{s} : s \in Stragglers(plan)}
  BY DEF Arm
<1>2. straggler' \subseteq [part : Partitions, off : StragglerFrom..1]
  BY <1>1 DEF Stragglers
<1>3. NbboTypeOK'
  BY <1>1, <1>2 DEF VenueInv, NbboTypeOK, Arm
<1>4. ~Held' => ~Held
  BY DEF Arm, Held, VenueInv, NbboTypeOK
<1>. QED  BY <1>3, <1>4 DEF VenueInv, Arm, DownIsWhatTheLogSays, Silent, AggregatorInv

(* The invariant holds in every reachable state.                             *)
THEOREM VenuesInvariance == NbboSpec => []VenueInv
<1>1. NbboInit => VenueInv
  BY InitInv
<1>2. VenueInv /\ [NbboNext]_nbboVars => VenueInv'
  <2>. SUFFICES ASSUME VenueInv, [NbboNext]_nbboVars PROVE VenueInv'
    OBVIOUS
  <2>1. ASSUME NEW p \in Partitions, Consume(p) PROVE VenueInv'
    BY <2>1, ConsumeKeepsInv
  <2>2. ASSUME NEW p \in Partitions, Skip(p) PROVE VenueInv'
    BY <2>2, SkipKeepsInv
  <2>3. CASE Straggle
    BY <2>3, StraggleKeepsInv
  <2>4. ASSUME NEW ts \in Times, Trade(ts) PROVE VenueInv'
    BY <2>4, TradeKeepsInv
  <2>5. ASSUME NEW v \in Venues, NEW state \in {"up", "down"}, NEW ts \in Times,
               Status(v, state, ts)
        PROVE  VenueInv'
    BY <2>5, StatusKeepsInv
  <2>6. CASE Arm
    BY <2>6, ArmKeepsInv
  <2>7. CASE UNCHANGED nbboVars
    BY <2>7 DEF VenueInv, NbboTypeOK, DownIsWhatTheLogSays, Silent, AggregatorInv, Held, nbboVars, gateVars
  <2>. QED  BY <2>1, <2>2, <2>3, <2>4, <2>5, <2>6, <2>7 DEF NbboNext
<1>. QED  BY <1>1, <1>2, PTL DEF NbboSpec

(* Type correctness of VenueNbbo.                                            *)
THEOREM TypeCorrect == NbboSpec => []NbboTypeOK
<1>1. VenueInv => NbboTypeOK
  BY DEF VenueInv
<1>. QED  BY <1>1, VenuesInvariance, PTL

(* Which venues are out does not depend on the order in which the gateway    *)
(* has consumed the topics (setVenueDown, evictSilentVenues, handleStatus).  *)
THEOREM DownFollowsTheLog == NbboSpec => []DownIsWhatTheLogSays
<1>1. VenueInv => DownIsWhatTheLogSays
  BY DEF VenueInv
<1>. QED  BY <1>1, VenuesInvariance, PTL

(* What a reader of md.nbbo saw last is the best bid and ask of the venues   *)
(* that are live, from venues that are live (onBBO, setVenueDown, the flush  *)
(* at the gate's opening).                                                   *)
THEOREM PublishedNbboIsTheBest == NbboSpec => []PublishedIsTheBest
<1>1. VenueInv => PublishedIsTheBest
  <2>. SUFFICES ASSUME VenueInv, ~Held, Live(nb) # {} PROVE
         \E msg \in nb.published :
           /\ BestBid(msg.bid) /\ BestAsk(msg.ask)
           /\ (msg.constituents \cup {msg.bidVenue, msg.askVenue}) \subseteq Live(nb)
    BY DEF PublishedIsTheBest
  <2>. DEFINE best == Compute(nb.legs, Live(nb))
  <2>1. PICK msg \in Messages :
          /\ nb.published = {msg} /\ nb.lastTuple = {Tuple(msg)}
          /\ (msg.constituents \cup {msg.bidVenue, msg.askVenue}) \subseteq Live(nb)
    BY DEF VenueInv, AggregatorInv, Current
  <2>2. Tuple(msg) = Tuple(best)
    BY <2>1 DEF VenueInv, AggregatorInv, Tracks
  <2>3. /\ nb.legs \in [DOMAIN nb.legs -> Legs] /\ DOMAIN nb.legs \in SUBSET Venues
        /\ Live(nb) \in SUBSET DOMAIN nb.legs
    BY Fields DEF VenueInv, NbboTypeOK
  <2>4. /\ best.bid = nb.legs[BidWinner(nb.legs, Live(nb))].bid
        /\ best.ask = nb.legs[AskWinner(nb.legs, Live(nb))].ask
    BY <2>3, ComputedMessage
  <2>5. BestBid(best.bid)
    BY <2>3, <2>4, BidWinnerWins DEF BestBid
  <2>6. BestAsk(best.ask)
    BY <2>3, <2>4, AskWinnerWins DEF BestAsk
  <2>. HIDE DEF best
  <2>7. msg.bid = best.bid /\ msg.ask = best.ask
    BY <2>2 DEF Tuple
  <2>. QED  BY <2>1, <2>5, <2>6, <2>7
<1>. QED  BY <1>1, VenuesInvariance, PTL

----------------------------------------------------------------------------
\* The gate, for stragglers that are past their backlog

(* A book message publishes only if nothing is held or if it opens the gate. *)
LEMMA HeldBookIsSilent ==
  ASSUME VenueInv, NEW p \in Partitions, NEW off \in Int, NEW bbo \in BboOrNone, NEW ts \in Times,
         HandleBook(p, off, bbo, ts), Held, ~Opens(p, off)
  PROVE  ~Publishes
<1>1. PICK e \in Evicted(ts) :
        nb' = IF bbo = {} THEN e
              ELSE OnBBO(e, VenueOf[p], CHOOSE leg \in bbo : TRUE, Held)
  BY DEF HandleBook
<1>2. e \in Aggregators /\ Tracks(e) /\ e.published = nb.published
  BY EvictedFacts
<1>3. CASE bbo = {}
  BY <1>1, <1>2, <1>3 DEF Publishes
<1>4. CASE bbo # {}
  <2>1. (CHOOSE leg \in bbo : TRUE) \in Legs
    BY <1>4 DEF BboOrNone
  <2>2. VenueOf[p] \in Venues /\ Held \in BOOLEAN
    BY PartitionsAssumption DEF Held
  <2>. QED  BY <1>1, <1>2, <1>4, <2>1, <2>2, OnBBOTracks DEF Publishes
<1>. QED  BY <1>3, <1>4

\* A step that publishes leaves every backlog replayed.
Rebuilt == (armed /\ Publishes) => \A p \in Partitions : pos'[p] = 1

(* The next message of a partition drains it in its place only.              *)
LEMMA ConsumeKeepsGate ==
  ASSUME VenueInv, GateInv, NEW p \in Partitions, Consume(p)
  PROVE  GateInv' /\ Rebuilt
<1>1. PICK bbo \in BboOrNone, ts \in Times : HandleBook(p, pos[p], bbo, ts)
  BY DEF Consume
<1>2. /\ pos \in [Partitions -> Offsets] /\ pending \subseteq Partitions
      /\ pending # {} => armed
  BY DEF VenueInv, NbboTypeOK
<1>3. /\ pos' = [pos EXCEPT ![p] = Past(@)] /\ straggler' = {} /\ armed' = armed
      /\ pending' = IF Drains(p, pos[p]) THEN pending \ {p} ELSE pending
  BY <1>1 DEF Consume, HandleBook, Observe
<1>4. pos[p] \in Int /\ pos[p] <= 1
  BY <1>2 DEF Offsets
<1>5. armed => \A q \in Partitions \ pending' : pos'[q] = 1
  <2>. SUFFICES ASSUME armed, NEW q \in Partitions, q \notin pending' PROVE pos'[q] = 1
    OBVIOUS
  <2>1. CASE q = p /\ Drains(p, pos[p])
    BY <1>2, <1>3, <1>4, <2>1 DEF Drains, Past
  <2>2. CASE q \notin pending
    BY <1>2, <1>3, <2>2 DEF GateInv, Past
  <2>. QED  BY <1>3, <2>1, <2>2
<1>6. Rebuilt
  <2>. SUFFICES ASSUME armed, Publishes PROVE pending' = {}
    BY <1>5 DEF Rebuilt
  <2>1. CASE Held
    BY <1>1, <1>3, <1>4, <2>1, HeldBookIsSilent DEF Opens
  <2>2. CASE ~Held
    BY <1>3, <2>2 DEF Held
  <2>. QED  BY <2>1, <2>2
<1>. QED  BY <1>3, <1>5, <1>6 DEF GateInv

(* A straggler past its backlog is ignored by the gate.                      *)
LEMMA StraggleKeepsGate ==
  ASSUME StragglerFrom = 1, VenueInv, GateInv, Straggle
  PROVE  GateInv' /\ Rebuilt
<1>1. PICK s \in straggler, bbo \in BboOrNone, ts \in Times : HandleBook(s.part, s.off, bbo, ts)
  BY DEF Straggle
<1>2. s.part \in Partitions /\ s.off = 1
  BY DEF VenueInv, NbboTypeOK
<1>3. engaged = {} /\ ~Drains(s.part, s.off)
  BY <1>1, <1>2 DEF GateInv, Drains, EngagedBy
<1>4. pos' = pos /\ straggler' = {} /\ armed' = armed /\ pending' = pending
  BY <1>1, <1>3 DEF Straggle, HandleBook, Observe
<1>5. GateInv'
  BY <1>4 DEF GateInv
<1>6. Rebuilt
  <2>. SUFFICES ASSUME armed, Publishes PROVE pending = {}
    BY <1>4 DEF Rebuilt, GateInv
  <2>1. CASE Held
    BY <1>1, <1>2, <1>3, <2>1, HeldBookIsSilent DEF Opens
  <2>. QED  BY <2>1 DEF Held
<1>. QED  BY <1>5, <1>6

(* A step that touches neither the gate nor a backlog publishes only if      *)
(* nothing is held.                                                          *)
LEMMA OtherStepKeepsGate ==
  ASSUME VenueInv, GateInv, UNCHANGED gateVars, Held => ~Publishes
  PROVE  GateInv' /\ Rebuilt
  BY DEF GateInv, Rebuilt, gateVars, Held

(* The gate's invariant, and what it promises, hold of every step.           *)
LEMMA StepKeepsGate ==
  ASSUME StragglerFrom = 1, VenueInv, GateInv, NbboNext
  PROVE  GateInv' /\ Rebuilt
<1>1. ASSUME NEW p \in Partitions, Consume(p) PROVE GateInv' /\ Rebuilt
  BY <1>1, ConsumeKeepsGate
<1>2. ASSUME NEW p \in Partitions, Skip(p) PROVE GateInv' /\ Rebuilt
  <2>1. /\ pos \in [Partitions -> Offsets] /\ pos' = [pos EXCEPT ![p] = Past(@)]
        /\ UNCHANGED <<nb, armed, pending, engaged, straggler>>
    BY <1>2 DEF VenueInv, NbboTypeOK, Skip
  <2>. QED  BY <2>1 DEF GateInv, Rebuilt, Publishes, Past
<1>3. CASE Straggle
  BY <1>3, StraggleKeepsGate
<1>4. ASSUME NEW ts \in Times, Trade(ts) PROVE GateInv' /\ Rebuilt
  <2>1. Held => ~Publishes
    BY <1>4, EvictedFacts DEF Trade, Publishes
  <2>. QED  BY <1>4, <2>1, OtherStepKeepsGate DEF Trade
<1>5. ASSUME NEW v \in Venues, NEW state \in {"up", "down"}, NEW ts \in Times,
             Status(v, state, ts)
      PROVE  GateInv' /\ Rebuilt
  <2>1. PICK e \in Evicted(ts) : nb' = SetVenueDown(e, v, state # "up", Held)
    BY <1>5 DEF Status
  <2>2. e \in Aggregators /\ Tracks(e) /\ (Held => e.published = nb.published)
    BY EvictedFacts
  <2>. DEFINE isDown == state # "up"
              m == SetVenueDown(e, v, isDown, Held)
  <2>3. Held => ~Publishes
    <3>1. Held \in BOOLEAN /\ isDown \in BOOLEAN /\ e \in Aggregators /\ Tracks(e)
      BY <2>2 DEF Held
    <3>2. nb' = m
      BY <2>1
    <3>. HIDE DEF isDown
    <3>3. /\ m \in Aggregators /\ Tracks(m)
          /\ Held => m.published = e.published
      BY <3>1, SetVenueDownTracks
    <3>. QED  BY <2>2, <3>2, <3>3 DEF Publishes
  <2>. QED  BY <1>5, <2>3, OtherStepKeepsGate DEF Status
<1>6. CASE Arm
  <2>1. /\ armed' /\ engaged' = {} /\ nb' = nb /\ pos' \in [Partitions -> Offsets]
        /\ \A p \in Partitions \ pending' : ~(pos'[p] <= 0)
    BY <1>6 DEF Arm
  <2>2. \A p \in Partitions \ pending' : pos'[p] = 1
    BY <2>1, GateAssumption DEF Offsets
  <2>. QED  BY <2>1, <2>2 DEF GateInv, Rebuilt, Publishes
<1>. QED  BY <1>1, <1>2, <1>3, <1>4, <1>5, <1>6 DEF NbboNext

(* DrainGate.  If what was suspended in front of the seeks is past its       *)
(* backlog, nothing is published before every book has been rebuilt.  The    *)
(* condition is needed: see the run drain_gate.                              *)
THEOREM GateHoldsTheOutput == StragglerFrom = 1 => (NbboSpec => OnlyRebuiltBooksSpeak)
<1>. SUFFICES ASSUME StragglerFrom = 1 PROVE NbboSpec => OnlyRebuiltBooksSpeak
  OBVIOUS
<1>1. NbboInit => GateInv
  BY InitInv
<1>2. VenueInv /\ GateInv /\ [NbboNext]_nbboVars => GateInv' /\ [Rebuilt]_nbboVars
  <2>1. CASE UNCHANGED nbboVars
    BY <2>1 DEF GateInv, nbboVars, gateVars
  <2>. QED  BY <2>1, StepKeepsGate
<1>3. [Rebuilt]_nbboVars => [(armed /\ Publishes) => \A p \in Partitions : pos'[p] = 1]_nbboVars
  BY DEF Rebuilt
<1>. QED  BY <1>1, <1>2, <1>3, VenuesInvariance, PTL DEF NbboSpec, OnlyRebuiltBooksSpeak

-----------------------------------------------------------------------------
(***************************************************************************)
(* INV-1 for every number of topics, every maxQueued and every run: the      *)
(* single-in-flight chain of batcher.ts keeps the partition order, skips     *)
(* nothing, and never shows a reader of the compacted topic an older value.  *)
(*                                                                           *)
(* The order of the broker's entries is not inductive alone.  What makes it  *)
(* so: at most one send is in flight and it is the newest (OneSend), what it *)
(* carries ends right before what is queued (NothingSkipped), and everything *)
(* an earlier send appended is older than what it carries (BrokerBehind).    *)
(*                                                                           *)
(* INV-4 is about a sum over the topics, and the budget that keeps it is     *)
(* spent in the Map's order.  So this module first shows what a sum over a   *)
(* finite set is, whatever its order, and then follows takeBatch from key to *)
(* key (InBudget).                                                           *)
(***************************************************************************)

Entry == [flush : Nat, n : Nat]
Request == [id : Nat, msgs : [Topics -> Seq(Nat)], appends : [Topics -> Nat]]

Types ==
  /\ queues \in [Topics -> Seq(Nat)]
  /\ enqueued \in [Topics -> Nat]
  /\ broker \in [Topics -> Seq(Entry)]
  /\ flushes \in Nat
  /\ sending \in BOOLEAN
  /\ inflight \subseteq Request

OneSend ==
  /\ \A r, s \in inflight : r = s
  /\ inflight # {} => sending
  /\ \A r \in inflight : r.id = flushes

BrokerBehind ==
  \A t \in Topics : \A i \in 1..Len(broker[t]) :
    /\ broker[t][i].flush <= flushes
    /\ broker[t][i].n <= Sent(t)
    /\ \A r \in inflight :
         broker[t][i].flush < r.id => broker[t][i].n <= Sent(t) - Len(r.msgs[t])

Inv == Types /\ OneSend /\ NothingSkipped /\ BrokerBehind /\ PartitionOrder

----------------------------------------------------------------------------
\* The sequence s is cut into front and back.
CutInto(s, front, back) ==
  /\ Len(front) \in 0..Len(s) /\ Len(back) = Len(s) - Len(front)
  /\ \A i \in 1..Len(front) : front[i] = s[i]
  /\ \A i \in 1..Len(back) : back[i] = s[Len(front) + i]

LEMMA CutSequence ==
  ASSUME NEW s \in Seq(Nat), NEW k \in 0..Len(s)
  PROVE  /\ SubSeq(s, 1, k) \in Seq(Nat) /\ SubSeq(s, k + 1, Len(s)) \in Seq(Nat)
         /\ CutInto(s, SubSeq(s, 1, k), SubSeq(s, k + 1, Len(s)))
<1>1. SubSeq(s, 1, k) \in Seq(Nat) /\ Len(SubSeq(s, 1, k)) = k
  OBVIOUS
<1>2. \A i \in 1..k : SubSeq(s, 1, k)[i] = s[i]
  OBVIOUS
<1>3. /\ SubSeq(s, k + 1, Len(s)) \in Seq(Nat)
      /\ Len(SubSeq(s, k + 1, Len(s))) = Len(s) - k
  OBVIOUS
<1>4. \A i \in 1..(Len(s) - k) : SubSeq(s, k + 1, Len(s))[i] = s[k + i]
  OBVIOUS
<1>. QED  BY <1>1, <1>2, <1>3, <1>4 DEF CutInto

(* Cut a run of consecutive numbers, and both halves are runs.               *)
LEMMA CutRun ==
  ASSUME NEW s \in Seq(Nat), NEW front \in Seq(Nat), NEW back \in Seq(Nat),
         CutInto(s, front, back),
         NEW a \in Int, \A i \in 1..Len(s) : s[i] = a + i
  PROVE  /\ \A i \in 1..Len(back) : back[i] = (a + Len(front)) + i
         /\ \A i \in 1..Len(front) : front[i] = (a + Len(front)) - Len(front) + i
<1>1. /\ Len(front) \in Nat /\ Len(back) \in Nat /\ Len(s) = Len(front) + Len(back)
      /\ \A i \in 1..Len(front) : front[i] = s[i]
      /\ \A i \in 1..Len(back) : back[i] = s[Len(front) + i]
  BY DEF CutInto
<1>2. ASSUME NEW i \in 1..Len(back) PROVE back[i] = (a + Len(front)) + i
  <2>1. Len(front) + i \in 1..Len(s) /\ i \in Int
    BY <1>1
  <2>2. back[i] = a + (Len(front) + i)
    BY <1>1, <2>1
  <2>. QED  BY <1>1, <2>1, <2>2
<1>3. ASSUME NEW i \in 1..Len(front) PROVE front[i] = (a + Len(front)) - Len(front) + i
  <2>1. i \in 1..Len(s) /\ i \in Int
    BY <1>1
  <2>2. front[i] = a + i
    BY <1>1, <2>1
  <2>. QED  BY <1>1, <2>1, <2>2
<1>. QED  BY <1>2, <1>3

(* takeBatch takes no more of a topic than there is.                         *)
LEMMA ShareInRange ==
  ASSUME NEW ord, NEW q, NEW t, q[t] \in Seq(Nat)
  PROVE  Share(ord, q, t) \in 0..Len(q[t])
<1>. DEFINE left == MaxQueued - Ahead(ord, q, Position(ord, t))
<1>1. Len(q[t]) \in Nat
  OBVIOUS
<1>2. CASE q[t] = <<>>
  BY <1>1, <1>2 DEF Share
<1>3. CASE q[t] # <<>> /\ left \in 1..Len(q[t])
  <2>1. Share(ord, q, t) = left
    BY <1>3 DEF Share
  <2>. QED  BY <2>1, <1>3, <1>1
<1>4. CASE q[t] # <<>> /\ left \notin 1..Len(q[t])
  <2>1. Share(ord, q, t) \in {0, Len(q[t])}
    BY <1>4 DEF Share
  <2>. QED  BY <2>1, <1>1
<1>. QED  BY <1>2, <1>3, <1>4

(* The step takeBatch makes: each queue is cut in two, the first half is the *)
(* message list of the one request now in flight.                            *)
LEMMA TakeBatchCuts ==
  ASSUME NEW ord, NEW q \in [Topics -> Seq(Nat)], TakeBatch(ord, q, {}), flushes \in Nat
  PROVE  /\ queues' \in [Topics -> Seq(Nat)]
         /\ \E r \in Request :
              /\ inflight' = {r} /\ r.id = flushes + 1
              /\ \A t \in Topics : /\ CutInto(q[t], r.msgs[t], queues'[t])
                                  /\ Len(r.msgs[t]) = Share(ord, q, t)
<1>. DEFINE k(t) == Share(ord, q, t)
<1>. DEFINE r == Send(flushes + 1, [t \in Topics |-> SubSeq(q[t], 1, k(t))])
<1>1. inflight' = {r} /\ queues' = [t \in Topics |-> SubSeq(q[t], k(t) + 1, Len(q[t]))]
  BY DEF TakeBatch
<1>2. \A t \in Topics : q[t] \in Seq(Nat) /\ k(t) \in 0..Len(q[t])
  BY ShareInRange
<1>. HIDE DEF k
<1>3. \A t \in Topics : /\ SubSeq(q[t], 1, k(t)) \in Seq(Nat)
                        /\ SubSeq(q[t], k(t) + 1, Len(q[t])) \in Seq(Nat)
                        /\ CutInto(q[t], SubSeq(q[t], 1, k(t)), SubSeq(q[t], k(t) + 1, Len(q[t])))
  BY <1>2, CutSequence
<1>4. r \in Request
  BY <1>3 DEF Send, Request
<1>5. r.id = flushes + 1 /\ \A t \in Topics : r.msgs[t] = SubSeq(q[t], 1, k(t))
  BY DEF Send
<1>. HIDE DEF r
<1>6. queues' \in [Topics -> Seq(Nat)]
  BY <1>1, <1>3
<1>7. ASSUME NEW t \in Topics PROVE CutInto(q[t], r.msgs[t], queues'[t])
  BY <1>1, <1>3, <1>5
<1>8. \A t \in Topics : Len(r.msgs[t]) = k(t)
  BY <1>2, <1>5
<1>9. \A t \in Topics : Len(r.msgs[t]) = Share(ord, q, t)
  BY <1>8 DEF k
<1>. QED  BY <1>1, <1>4, <1>5, <1>6, <1>7, <1>9

(* What keeps the invariant when nothing is taken: the queues may only have   *)
(* grown by newer messages, and requests may only have left.                 *)
LEMMA QuietKeepsInv ==
  ASSUME Inv,
         NEW q \in [Topics -> Seq(Nat)], NEW fl \in SUBSET inflight,
         queues' = q, inflight' = fl, flushes' = flushes,
         sending' \in BOOLEAN, fl # {} => sending',
         broker' = broker, enqueued' \in [Topics -> Nat],
         \A t \in Topics : enqueued'[t] - Len(q[t]) = Sent(t),
         \A t \in Topics : \A i \in 1..Len(q[t]) : q[t][i] = Sent(t) + i
  PROVE  Inv'
<1>0. /\ Types /\ OneSend /\ NothingSkipped /\ BrokerBehind /\ PartitionOrder
      /\ \A t \in Topics : Sent(t) \in Int
  BY DEF Inv, Types, Sent
<1>1. \A t \in Topics : Sent(t)' = Sent(t)
  BY DEF Sent
<1>2. Types'
  BY <1>0 DEF Types
<1>3. OneSend'
  BY <1>0 DEF OneSend
<1>4. NothingSkipped'
  <2>. SUFFICES ASSUME NEW t \in Topics
                PROVE  /\ \A i \in 1..Len(queues'[t]) : queues'[t][i] = Sent(t)' + i
                       /\ \A r \in inflight' : \A i \in 1..Len(r.msgs[t]) :
                            r.msgs[t][i] = Sent(t)' - Len(r.msgs[t]) + i
    BY DEF NothingSkipped
  <2>1. \A i \in 1..Len(queues'[t]) : queues'[t][i] = Sent(t)' + i
    BY <1>1
  <2>2. \A r \in inflight' : \A i \in 1..Len(r.msgs[t]) :
          r.msgs[t][i] = Sent(t)' - Len(r.msgs[t]) + i
    BY <1>0, <1>1 DEF NothingSkipped
  <2>. QED  BY <2>1, <2>2
<1>5. BrokerBehind'
  BY <1>0, <1>1 DEF BrokerBehind
<1>6. PartitionOrder'
  BY <1>0 DEF PartitionOrder
<1>. QED  BY <1>2, <1>3, <1>4, <1>5, <1>6 DEF Inv

(* flush() keeps the invariant whatever queues it is called over, as long as *)
(* they are what the invariant says of them: enqueue calls it with one more  *)
(* message, a settled send with one request less.                            *)
LEMMA FlushKeepsInv ==
  ASSUME Inv,
         NEW ord, NEW q \in [Topics -> Seq(Nat)], NEW n, NEW busy \in BOOLEAN,
         NEW fl \in SUBSET inflight, fl # {} => busy,
         Flush(ord, q, n, busy, fl),
         broker' = broker, enqueued' \in [Topics -> Nat],
         \A t \in Topics : enqueued'[t] - Len(q[t]) = Sent(t),
         \A t \in Topics : \A i \in 1..Len(q[t]) : q[t][i] = Sent(t) + i
  PROVE  Inv'
<1>0. /\ Types /\ OneSend /\ NothingSkipped /\ BrokerBehind /\ PartitionOrder
      /\ \A t \in Topics : Sent(t) \in Int
  BY DEF Inv, Types, Sent
<1>1. CASE busy \/ n = 0
  <2>1. queues' = q /\ sending' = busy /\ inflight' = fl /\ flushes' = flushes
    BY <1>1 DEF Flush
  <2>. QED  BY <2>1, QuietKeepsInv
<1>2. CASE ~busy /\ n # 0
  <2>1. TakeBatch(ord, q, {}) /\ sending' = TRUE /\ flushes' = flushes + 1
    BY <1>2 DEF Flush
  <2>2. flushes \in Nat
    BY <1>0 DEF Types
  <2>3. queues' \in [Topics -> Seq(Nat)]
    BY <2>1, <2>2, TakeBatchCuts
  <2>4. PICK r \in Request : /\ inflight' = {r} /\ r.id = flushes + 1
                            /\ \A t \in Topics : CutInto(q[t], r.msgs[t], queues'[t])
    BY <2>1, <2>2, TakeBatchCuts
  <2>5. Types'
    BY <1>0, <2>1, <2>2, <2>3, <2>4 DEF Types
  <2>6. OneSend'
    BY <2>1, <2>4 DEF OneSend
  <2>7. ASSUME NEW t \in Topics
        PROVE  Sent(t)' = Sent(t) + Len(r.msgs[t]) /\ Sent(t) \in Int /\ Len(r.msgs[t]) \in Nat
    <3>. DEFINE k == Len(r.msgs[t])  n1 == enqueued'[t]  len == Len(q[t])
    <3>1. n1 \in Nat /\ len \in Nat /\ Sent(t) \in Int /\ n1 - len = Sent(t)
      BY <1>0
    <3>2. k \in 0..len /\ Len(queues'[t]) = len - k
      BY <2>4 DEF CutInto
    <3>3. Sent(t)' = n1 - Len(queues'[t])
      BY DEF Sent
    <3>. HIDE DEF n1, len, k
    <3>4. n1 - (len - k) = (n1 - len) + k
      BY <3>1, <3>2
    <3>5. Sent(t)' = Sent(t) + k
      BY <3>1, <3>2, <3>3, <3>4
    <3>6. k \in Nat
      BY <3>1, <3>2
    <3>. QED  BY <3>1, <3>5, <3>6 DEF k
  <2>8. NothingSkipped'
    <3>. SUFFICES ASSUME NEW t \in Topics
                  PROVE  /\ \A i \in 1..Len(queues'[t]) : queues'[t][i] = Sent(t)' + i
                         /\ \A i \in 1..Len(r.msgs[t]) :
                              r.msgs[t][i] = Sent(t)' - Len(r.msgs[t]) + i
      <4>1. \A x \in inflight' : x = r
        BY <2>4
      <4>. QED  BY <4>1 DEF NothingSkipped
    <3>1. CutInto(q[t], r.msgs[t], queues'[t])
      BY <2>4
    <3>2. q[t] \in Seq(Nat) /\ r.msgs[t] \in Seq(Nat) /\ queues'[t] \in Seq(Nat)
      BY <2>3 DEF Request
    <3>3. Sent(t) \in Int /\ \A i \in 1..Len(q[t]) : q[t][i] = Sent(t) + i
      BY <2>7
    <3>4. /\ \A i \in 1..Len(queues'[t]) : queues'[t][i] = (Sent(t) + Len(r.msgs[t])) + i
          /\ \A i \in 1..Len(r.msgs[t]) :
               r.msgs[t][i] = (Sent(t) + Len(r.msgs[t])) - Len(r.msgs[t]) + i
      <4>. DEFINE s == q[t]  front == r.msgs[t]  back == queues'[t]  a == Sent(t)
      <4>1. CutInto(s, front, back)
        BY <3>1
      <4>2. s \in Seq(Nat) /\ front \in Seq(Nat) /\ back \in Seq(Nat) /\ a \in Int
        BY <3>2, <3>3
      <4>3. \A i \in 1..Len(s) : s[i] = a + i
        BY <3>3
      <4>. HIDE DEF s, front, back, a
      <4>4. /\ \A i \in 1..Len(back) : back[i] = (a + Len(front)) + i
            /\ \A i \in 1..Len(front) : front[i] = (a + Len(front)) - Len(front) + i
        BY <4>1, <4>2, <4>3, CutRun
      <4>. QED  BY <4>4 DEF s, front, back, a
    <3>. QED  BY <2>7, <3>4
  <2>9. BrokerBehind'
    <3>. SUFFICES ASSUME NEW t \in Topics, NEW i \in 1..Len(broker[t])
                  PROVE  /\ broker[t][i].flush <= flushes + 1
                         /\ broker[t][i].n <= Sent(t)'
                         /\ broker[t][i].n <= Sent(t)' - Len(r.msgs[t])
      BY <2>1, <2>4 DEF BrokerBehind
    <3>. DEFINE b == broker[t][i]  k == Len(r.msgs[t])
    <3>1. b \in Entry
      BY <1>0 DEF Types
    <3>2. b.n \in Nat /\ b.flush \in Nat
      BY <3>1 DEF Entry
    <3>3. b.flush <= flushes /\ b.n <= Sent(t)
      BY <1>0 DEF BrokerBehind
    <3>4. Sent(t)' = Sent(t) + k /\ Sent(t) \in Int /\ k \in Nat
      BY <2>7
    <3>. HIDE DEF b, k
    <3>5. b.n <= Sent(t) + k /\ b.n <= (Sent(t) + k) - k
      BY <3>2, <3>3, <3>4
    <3>6. b.flush <= flushes + 1
      BY <2>2, <3>2, <3>3
    <3>. QED  BY <3>4, <3>5, <3>6 DEF b, k
  <2>10. PartitionOrder'
    BY <1>0 DEF PartitionOrder
  <2>. QED  BY <2>5, <2>6, <2>8, <2>9, <2>10 DEF Inv
<1>. QED  BY <1>1, <1>2

(* A flush over the batcher's own queues: the setImmediate callback, drain.   *)
LEMMA OwnFlushKeepsInv ==
  ASSUME Inv, Flush(order, queues, queued, sending, inflight),
         broker' = broker, enqueued' = enqueued
  PROVE  Inv'
<1>1. /\ queues \in [Topics -> Seq(Nat)] /\ enqueued \in [Topics -> Nat]
      /\ sending \in BOOLEAN /\ (inflight # {} => sending)
  BY DEF Inv, Types, OneSend
<1>2. \A t \in Topics : /\ enqueued'[t] - Len(queues[t]) = Sent(t)
                        /\ \A i \in 1..Len(queues[t]) : queues[t][i] = Sent(t) + i
  BY DEF Inv, NothingSkipped, Sent
<1>. QED  BY <1>1, <1>2, FlushKeepsInv

LEMMA EnqueueKeepsInv ==
  ASSUME Inv, NEW t \in Topics, Enqueue(t)
  PROVE  Inv'
<1>. DEFINE q == [queues EXCEPT ![t] = Append(@, enqueued[t] + 1)]
<1>. DEFINE ord == IF queues[t] = <<>> THEN Append(order, t) ELSE order
<1>1. /\ queues \in [Topics -> Seq(Nat)] /\ enqueued \in [Topics -> Nat]
      /\ sending \in BOOLEAN /\ (inflight # {} => sending)
  BY DEF Inv, Types, OneSend
<1>2. enqueued' = [enqueued EXCEPT ![t] = @ + 1] /\ broker' = broker
  BY DEF Enqueue
<1>3. q \in [Topics -> Seq(Nat)] /\ enqueued' \in [Topics -> Nat]
  BY <1>1, <1>2
<1>4. ASSUME NEW u \in Topics
      PROVE  /\ enqueued'[u] - Len(q[u]) = Sent(u)
             /\ \A i \in 1..Len(q[u]) : q[u][i] = Sent(u) + i
  <2>1. /\ queues[u] \in Seq(Nat) /\ enqueued[u] \in Nat /\ Len(queues[u]) \in Nat
        /\ \A i \in 1..Len(queues[u]) : queues[u][i] = Sent(u) + i
    BY <1>1 DEF Inv, NothingSkipped
  <2>2. CASE u = t
    <3>1. q[u] = Append(queues[u], enqueued[u] + 1) /\ enqueued'[u] = enqueued[u] + 1
      BY <1>1, <1>2, <2>2
    <3>2. /\ Len(q[u]) = Len(queues[u]) + 1
          /\ q[u][Len(queues[u]) + 1] = enqueued[u] + 1
          /\ \A i \in 1..Len(queues[u]) : q[u][i] = queues[u][i]
      BY <2>1, <3>1
    <3>3. enqueued'[u] - Len(q[u]) = Sent(u)
      BY <2>1, <3>1, <3>2 DEF Sent
    <3>4. q[u][Len(queues[u]) + 1] = Sent(u) + (Len(queues[u]) + 1)
      BY <2>1, <3>2 DEF Sent
    <3>5. ASSUME NEW i \in 1..Len(q[u])
          PROVE  q[u][i] = Sent(u) + i
      <4>1. i \in 1..Len(queues[u]) \/ i = Len(queues[u]) + 1
        BY <2>1, <3>2
      <4>. QED  BY <2>1, <3>2, <3>4, <4>1
    <3>. QED  BY <3>3, <3>5
  <2>3. CASE u # t
    <3>1. q[u] = queues[u] /\ enqueued'[u] = enqueued[u]
      BY <1>1, <1>2, <2>3
    <3>. QED  BY <2>1, <3>1 DEF Sent
  <2>. QED  BY <2>2, <2>3
<1>5. \/ Flush(ord, q, queued + 1, sending, inflight)
      \/ queues' = q /\ UNCHANGED <<sending, inflight, flushes>>
  BY DEF Enqueue
<1>. HIDE DEF q, ord
<1>6. /\ \A u \in Topics : enqueued'[u] - Len(q[u]) = Sent(u)
      /\ \A u \in Topics : \A i \in 1..Len(q[u]) : q[u][i] = Sent(u) + i
  BY <1>4
<1>7. CASE Flush(ord, q, queued + 1, sending, inflight)
  <2>1. /\ sending \in BOOLEAN /\ inflight \in SUBSET inflight /\ (inflight # {} => sending)
        /\ broker' = broker
    BY <1>1, <1>2
  <2>. QED  BY <1>3, <1>6, <1>7, <2>1, FlushKeepsInv
<1>8. CASE queues' = q /\ UNCHANGED <<sending, inflight, flushes>>
  BY <1>1, <1>2, <1>3, <1>6, <1>8, QuietKeepsInv
<1>. QED  BY <1>5, <1>7, <1>8

LEMMA SettleKeepsInv ==
  ASSUME Inv, Settle
  PROVE  Inv'
<1>1. PICK r \in inflight : Flush(order, queues, queued, FALSE, inflight \ {r})
  BY DEF Settle
<1>2. inflight \ {r} = {} /\ broker' = broker /\ enqueued' = enqueued
  BY DEF Inv, OneSend, Settle
<1>3. queues \in [Topics -> Seq(Nat)] /\ enqueued \in [Topics -> Nat]
  BY DEF Inv, Types
<1>4. \A t \in Topics : /\ enqueued'[t] - Len(queues[t]) = Sent(t)
                        /\ \A i \in 1..Len(queues[t]) : queues[t][i] = Sent(t) + i
  BY <1>2 DEF Inv, NothingSkipped, Sent
<1>. QED  BY <1>1, <1>2, <1>3, <1>4, FlushKeepsInv

LEMMA BrokerAppendKeepsInv ==
  ASSUME Inv, NEW t \in Topics, BrokerAppend(t)
  PROVE  Inv'
<1>1. PICK r \in inflight :
        /\ broker' = [broker EXCEPT ![t] =
             @ \o [i \in 1..Len(r.msgs[t]) |-> [flush |-> r.id, n |-> r.msgs[t][i]]]]
        /\ inflight' = (inflight \ {r}) \cup {[r EXCEPT !.appends[t] = @ + 1]}
  BY DEF BrokerAppend
<1>. DEFINE m == r.msgs[t]
<1>. DEFINE block == [i \in 1..Len(m) |-> [flush |-> r.id, n |-> m[i]]]
<1>. DEFINE r1 == [r EXCEPT !.appends[t] = @ + 1]
<1>2. /\ Types /\ OneSend /\ NothingSkipped /\ BrokerBehind /\ PartitionOrder
      /\ UNCHANGED <<queues, enqueued, flushes, sending>>
  BY DEF Inv, BrokerAppend
<1>3. /\ inflight = {r} /\ r.id = flushes /\ flushes \in Nat /\ sending
      /\ r \in Request
  BY <1>2 DEF OneSend, Types
<1>4. /\ inflight' = {r1} /\ r1.id = r.id /\ r1.msgs = r.msgs
      /\ r1 \in Request
  <2>1. inflight' = {r1}
    BY <1>1, <1>3
  <2>2. r1.id = r.id /\ r1.msgs = r.msgs /\ r1.appends = [r.appends EXCEPT ![t] = @ + 1]
    BY <1>3
  <2>3. r1.appends \in [Topics -> Nat]
    BY <1>3, <2>2 DEF Request
  <2>4. r1 \in Request
    BY <1>3, <2>3 DEF Request
  <2>. QED  BY <2>1, <2>2, <2>4
<1>5. m \in Seq(Nat) /\ \A i \in 1..Len(m) : m[i] = Sent(t) - Len(m) + i
  <2>1. m \in Seq(Nat)
    BY <1>3 DEF Request
  <2>. QED  BY <1>2, <1>3, <2>1 DEF NothingSkipped
<1>6. block \in Seq(Entry) /\ Len(block) = Len(m)
  BY <1>3, <1>5 DEF Entry
<1>7. broker \in [Topics -> Seq(Entry)] /\ broker' = [broker EXCEPT ![t] = @ \o block]
  BY <1>1, <1>2 DEF Types
<1>8. \A u \in Topics : Sent(u)' = Sent(u) /\ Sent(u) \in Int
  BY <1>2 DEF Sent, Types
<1>9. Types'
  <2>1. broker' \in [Topics -> Seq(Entry)]
    BY <1>6, <1>7
  <2>2. inflight' \subseteq Request
    BY <1>4
  <2>. QED  BY <1>2, <2>1, <2>2 DEF Types
<1>10. OneSend'
  BY <1>2, <1>3, <1>4 DEF OneSend
<1>11. NothingSkipped'
  <2>. SUFFICES ASSUME NEW u \in Topics
                PROVE  /\ \A i \in 1..Len(queues[u]) : queues[u][i] = Sent(u) + i
                       /\ \A i \in 1..Len(r.msgs[u]) :
                            r.msgs[u][i] = Sent(u) - Len(r.msgs[u]) + i
    BY <1>2, <1>4, <1>8 DEF NothingSkipped
  <2>. QED  BY <1>2, <1>3 DEF NothingSkipped
<1>12. \A u \in Topics : u # t => broker'[u] = broker[u]
  BY <1>7
<1>13. ASSUME NEW i \in 1..Len(broker'[t])
       PROVE  \/ i \in 1..Len(broker[t]) /\ broker'[t][i] = broker[t][i]
              \/ /\ i > Len(broker[t]) /\ broker'[t][i].flush = flushes
                 /\ broker'[t][i].n = Sent(t) - Len(m) + (i - Len(broker[t]))
                 /\ i - Len(broker[t]) \in 1..Len(m)
  <2>1. broker[t] \in Seq(Entry) /\ broker'[t] = broker[t] \o block
    BY <1>7
  <2>2. Len(broker[t]) \in Nat /\ Len(m) \in Nat
    BY <1>5, <2>1
  <2>. HIDE DEF block, m
  <2>3. Len(broker'[t]) = Len(broker[t]) + Len(m)
    <3>1. Len(broker[t] \o block) = Len(broker[t]) + Len(block)
      BY <1>6, <2>1, ConcatProperties, Zenon
    <3>. QED  BY <1>6, <2>1, <3>1
  <2>4. CASE i <= Len(broker[t])
    <3>1. i \in 1..Len(broker[t])
      BY <2>2, <2>3, <2>4
    <3>2. broker'[t][i] = broker[t][i]
      BY <1>6, <2>1, <3>1, ConcatProperties
    <3>. QED  BY <3>1, <3>2
  <2>5. CASE i > Len(broker[t])
    <3>. DEFINE j == i - Len(broker[t])
    <3>0. i \in 1..(Len(broker[t]) + Len(m))
      BY <2>3
    <3>1. j \in 1..Len(m)
      BY <2>2, <2>5, <3>0
    <3>2. broker'[t][i] = block[j]
      BY <1>6, <2>1, <2>2, <2>3, <2>5, ConcatProperties
    <3>3. block[j] = [flush |-> r.id, n |-> m[j]]
      BY <3>1 DEF block
    <3>4. m[j] = Sent(t) - Len(m) + j
      BY <1>5, <3>1
    <3>. QED  BY <1>3, <2>5, <3>1, <3>2, <3>3, <3>4
  <2>. QED  BY <2>2, <2>3, <2>4, <2>5
<1>14. ASSUME NEW u \in Topics, NEW i \in 1..Len(broker[u])
       PROVE  /\ broker[u][i].flush \in Nat /\ broker[u][i].n \in Nat
              /\ broker[u][i].flush <= flushes /\ broker[u][i].n <= Sent(u)
              /\ broker[u][i].flush < flushes => broker[u][i].n <= Sent(u) - Len(r.msgs[u])
  <2>1. broker[u][i] \in Entry
    BY <1>7
  <2>. QED  BY <1>2, <1>3, <2>1 DEF BrokerBehind, Entry
<1>15. BrokerBehind'
  <2>. SUFFICES ASSUME NEW u \in Topics, NEW i \in 1..Len(broker'[u])
                PROVE  /\ broker'[u][i].flush <= flushes
                       /\ broker'[u][i].n <= Sent(u)
                       /\ broker'[u][i].flush < flushes
                            => broker'[u][i].n <= Sent(u) - Len(r.msgs[u])
    <3>1. \A s \in inflight' : s.id = flushes /\ s.msgs = r.msgs
      BY <1>3, <1>4
    <3>2. flushes' = flushes /\ \A v \in Topics : Sent(v)' = Sent(v)
      BY <1>2, <1>8
    <3>. QED  BY <3>1, <3>2 DEF BrokerBehind
  <2>1. CASE i \in 1..Len(broker[u]) /\ broker'[u][i] = broker[u][i]
    BY <1>14, <2>1
  <2>2. CASE /\ u = t /\ i > Len(broker[t]) /\ broker'[t][i].flush = flushes
             /\ broker'[t][i].n = Sent(t) - Len(m) + (i - Len(broker[t]))
             /\ i - Len(broker[t]) \in 1..Len(m)
    <3>1. Len(m) \in Nat /\ Sent(t) \in Int
      BY <1>5, <1>8
    <3>2. broker'[t][i].n <= Sent(t)
      BY <2>2, <3>1
    <3>. QED  BY <1>3, <2>2, <3>2
  <2>. QED  BY <1>12, <1>13, <2>1, <2>2
<1>16. PartitionOrder'
  <2>. SUFFICES ASSUME NEW u \in Topics,
                       NEW i \in 1..Len(broker'[u]), NEW j \in 1..Len(broker'[u])
                PROVE  /\ i < j => broker'[u][i].flush <= broker'[u][j].flush
                       /\ broker'[u][i].flush < broker'[u][j].flush
                            => broker'[u][i].n < broker'[u][j].n
    BY DEF PartitionOrder
  <2>. DEFINE old(x) == x \in 1..Len(broker[u]) /\ broker'[u][x] = broker[u][x]
  <2>. DEFINE new(x) == /\ u = t /\ x > Len(broker[t]) /\ broker'[t][x].flush = flushes
                        /\ broker'[t][x].n = Sent(t) - Len(m) + (x - Len(broker[t]))
                        /\ x - Len(broker[t]) \in 1..Len(m)
  <2>1. (old(i) \/ new(i)) /\ (old(j) \/ new(j))
    BY <1>12, <1>13
  <2>2. Len(m) \in Nat /\ Sent(t) \in Int /\ Len(broker[t]) \in Nat
    BY <1>5, <1>7, <1>8
  <2>3. CASE old(i) /\ old(j)
    BY <1>2, <2>3 DEF PartitionOrder
  <2>4. CASE old(i) /\ new(j)
    <3>1. /\ broker'[u][i].flush <= flushes /\ broker'[u][i].n \in Nat
          /\ broker'[u][i].flush < flushes => broker'[u][i].n <= Sent(t) - Len(m)
      BY <1>14, <2>4
    <3>2. broker'[u][j].n > Sent(t) - Len(m) /\ broker'[u][j].n \in Int
      BY <2>2, <2>4
    <3>3. broker'[u][j].flush = flushes
      BY <2>4
    <3>4. Sent(t) - Len(m) \in Int
      BY SMTT(40), <2>2
    <3>5. broker'[u][i].flush < flushes => broker'[u][i].n < broker'[u][j].n
      BY <3>1, <3>2, <3>4
    <3>. QED  BY <3>1, <3>3, <3>5
  <2>5. CASE new(i) /\ old(j)
    <3>1. j < i
      BY <2>2, <2>5
    <3>2. broker'[u][j].flush <= flushes /\ broker'[u][j].flush \in Nat
      BY <1>14, <2>5
    <3>. QED  BY <1>3, <2>5, <3>1, <3>2
  <2>6. CASE new(i) /\ new(j)
    BY <1>3, <2>6
  <2>. QED  BY <2>1, <2>3, <2>4, <2>5, <2>6
<1>. QED  BY <1>9, <1>10, <1>11, <1>15, <1>16 DEF Inv

LEMMA StutterKeepsInv ==
  ASSUME Inv, UNCHANGED <<queues, inflight, flushes, sending, broker, enqueued>>
  PROVE  Inv'
BY DEF Inv, Types, OneSend, NothingSkipped, BrokerBehind, PartitionOrder, Sent

LEMMA InitGivesInv ==
  ASSUME Init
  PROVE  Inv
<1>1. Types
  <2>1. queues \in [Topics -> Seq(Nat)] /\ broker \in [Topics -> Seq(Entry)]
    BY DEF Init
  <2>. QED  BY <2>1 DEF Init, Types
<1>2. \A t \in Topics : Len(queues[t]) = 0 /\ Len(broker[t]) = 0
  BY DEF Init
<1>3. inflight = {}
  BY DEF Init
<1>4. OneSend
  BY <1>3 DEF OneSend
<1>5. NothingSkipped
  BY <1>2, <1>3 DEF NothingSkipped
<1>6. BrokerBehind
  BY <1>2 DEF BrokerBehind
<1>7. PartitionOrder
  BY <1>2 DEF PartitionOrder
<1>. QED  BY <1>1, <1>4, <1>5, <1>6, <1>7 DEF Inv

----------------------------------------------------------------------------
(* The invariant is inductive.                                               *)
LEMMA NextKeepsInv ==
  ASSUME Inv, [Next]_vars
  PROVE  Inv'
<1>1. ASSUME NEW t \in Topics, Enqueue(t) PROVE Inv'
  BY <1>1, EnqueueKeepsInv
<1>2. ASSUME NEW t \in Topics, BrokerAppend(t) PROVE Inv'
  BY <1>2, BrokerAppendKeepsInv
<1>3. CASE Immediate
  BY <1>3, OwnFlushKeepsInv DEF Immediate
<1>4. CASE Settle
  BY <1>4, SettleKeepsInv
<1>5. CASE Shutdown
  BY <1>5, OwnFlushKeepsInv, StutterKeepsInv DEF Shutdown, batcherVars
<1>6. CASE DrainStep \/ Exit
  BY <1>6, StutterKeepsInv DEF DrainStep, Exit, batcherVars
<1>7. CASE UNCHANGED vars
  BY <1>7, StutterKeepsInv DEF vars, batcherVars
<1>. QED  BY <1>1, <1>2, <1>3, <1>4, <1>5, <1>6, <1>7 DEF Next

THEOREM Invariance == Spec => []Inv
<1>1. Init => Inv
  BY InitGivesInv
<1>2. Inv /\ [Next]_vars => Inv'
  BY NextKeepsInv
<1>. QED  BY <1>1, <1>2, PTL DEF Spec

(* INV-1 of batcher.ts: the order of a topic's partition, for any number of  *)
(* topics, any maxQueued, any number of failed or resent requests.           *)
THEOREM OrderedPartitions == Spec => []PartitionOrder
<1>1. Inv => PartitionOrder
  BY DEF Inv
<1>. QED  BY <1>1, Invariance, PTL

(* takeBatch and the re-flush never skip, repeat or reorder a message.       *)
THEOREM NoMessageSkipped == Spec => []NothingSkipped
<1>1. Inv => NothingSkipped
  BY DEF Inv
<1>. QED  BY <1>1, Invariance, PTL

----------------------------------------------------------------------------
(* The block a request appends ends with the last message taken.             *)
LEMMA AppendEndsAtSent ==
  ASSUME Inv, NEW t \in Topics, BrokerAppend(t)
  PROVE  /\ broker'[t] # <<>> /\ broker'[t][Len(broker'[t])].n = Sent(t)
         /\ \A u \in Topics : u # t => broker'[u] = broker[u]
<1>1. PICK r \in inflight :
        /\ r.msgs[t] # <<>>
        /\ broker' = [broker EXCEPT ![t] =
             @ \o [i \in 1..Len(r.msgs[t]) |-> [flush |-> r.id, n |-> r.msgs[t][i]]]]
  BY DEF BrokerAppend
<1>. DEFINE m == r.msgs[t]
<1>. DEFINE block == [i \in 1..Len(m) |-> [flush |-> r.id, n |-> m[i]]]
<1>2. m \in Seq(Nat) /\ r.id \in Nat /\ broker \in [Topics -> Seq(Entry)]
  BY DEF Inv, Types, Request
<1>3. Len(m) \in Nat \ {0} /\ m[Len(m)] = Sent(t) - Len(m) + Len(m) /\ Sent(t) \in Int
  <2>1. Len(m) \in Nat \ {0}
    BY <1>1, <1>2
  <2>2. \A i \in 1..Len(m) : m[i] = Sent(t) - Len(m) + i
    BY DEF Inv, NothingSkipped
  <2>3. Sent(t) \in Int
    BY DEF Inv, Types, Sent
  <2>. QED  BY <2>1, <2>2, <2>3
<1>4. block \in Seq(Entry) /\ Len(block) = Len(m) /\ block[Len(m)].n = m[Len(m)]
  <2>1. \A i \in 1..Len(m) : block[i] = [flush |-> r.id, n |-> m[i]] /\ m[i] \in Nat
    BY <1>2
  <2>2. block \in Seq(Entry) /\ Len(block) = Len(m)
    BY <1>2, <2>1 DEF Entry
  <2>. QED  BY <1>3, <2>1, <2>2
<1>5. broker'[t] = broker[t] \o block /\ \A u \in Topics : u # t => broker'[u] = broker[u]
  BY <1>1, <1>2
<1>6. broker[t] \in Seq(Entry) /\ Len(broker[t]) \in Nat
  BY <1>2
<1>. HIDE DEF block, m
<1>7. Len(broker[t] \o block) = Len(broker[t]) + Len(block)
  BY <1>4, <1>6, ConcatProperties, Zenon
<1>8. (broker[t] \o block)[Len(broker[t]) + Len(block)] = block[Len(block)]
  BY <1>3, <1>4, <1>6, ConcatProperties
<1>. QED  BY <1>3, <1>4, <1>5, <1>6, <1>7, <1>8

LEMMA LastIsNat ==
  ASSUME NEW b \in [Topics -> Seq(Entry)]
  PROVE  [t \in Topics |-> IF b[t] = <<>> THEN 0 ELSE b[t][Len(b[t])].n] \in [Topics -> Nat]
<1>1. ASSUME NEW t \in Topics, b[t] # <<>>
      PROVE  b[t][Len(b[t])].n \in Nat
  <2>1. b[t][Len(b[t])] \in Entry
    BY <1>1
  <2>. QED  BY <2>1 DEF Entry
<1>. QED  BY <1>1

(* The batcher implements what the reader of a compacted topic relies on:    *)
(* every step leaves the latest value alone or moves it forward.             *)
THEOREM CompactedNeverGoesBack == Spec => LatestNeverGoesBack
<1>1. Init => Compacted!Init
  BY DEF Init, Compacted!Init, Latest
<1>2. ASSUME Inv, Inv', [Next]_vars
      PROVE  [Compacted!Publish]_Latest
  <2>1. CASE broker' = broker
    BY <2>1 DEF Latest
  <2>2. ASSUME NEW t \in Topics, BrokerAppend(t)
        PROVE  Compacted!Publish
    <3>1. Latest \in [Topics -> Nat] /\ Latest' \in [Topics -> Nat]
      BY <1>2, LastIsNat DEF Inv, Types, Latest
    <3>2. Latest[t] <= Latest'[t]
      <4>1. Latest'[t] = Sent(t)
        BY <1>2, <2>2, AppendEndsAtSent DEF Latest
      <4>2. CASE broker[t] = <<>>
        BY <3>1, <4>1, <4>2 DEF Latest
      <4>3. CASE broker[t] # <<>>
        <5>1. Len(broker[t]) \in 1..Len(broker[t])
          BY <1>2, <4>3 DEF Inv, Types
        <5>. QED  BY <1>2, <4>1, <4>3, <5>1 DEF Latest, Inv, BrokerBehind
      <4>. QED  BY <4>2, <4>3
    <3>3. \A u \in Topics : u # t => Latest'[u] = Latest[u]
      BY <1>2, <2>2, AppendEndsAtSent DEF Latest
    <3>. QED  BY <3>1, <3>2, <3>3 DEF Compacted!Publish
  <2>3. broker' = broker \/ \E t \in Topics : BrokerAppend(t)
    BY <1>2 DEF Next, Enqueue, Immediate, Settle, Shutdown, DrainStep, Exit, vars
  <2>. QED  BY <2>1, <2>2, <2>3
<1>. QED  BY <1>1, <1>2, Invariance, PTL DEF Spec, LatestNeverGoesBack, Compacted!Spec

----------------------------------------------------------------------------
(* Sums over finite sets.  The community modules define them with a CHOOSE    *)
(* of the next member; a sum does not depend on it.                          *)

\* The member of S that the sum over S starts with.
First(S) == CHOOSE x \in S : TRUE

\* g[T] is right, given the sums of smaller sets.
Adds(g, f, T) == g[T] = IF T = {} THEN 0 ELSE f[First(T)] + g[T \ {First(T)}]

\* g is the function that the sum over S is read from.
Sums(g, f, S) == g = [T \in SUBSET S |-> IF T = {} THEN 0 ELSE f[First(T)] + g[T \ {First(T)}]]

(* The library's sum is read from such a function.                           *)
LEMMA SumIs ==
  ASSUME NEW f, NEW S
  PROVE  SumFunctionOnSet(f, S) = (CHOOSE g : Sums(g, f, S))[S]
BY DEF SumFunctionOnSet, FoldFunctionOnSet, MapThenFoldSet, Sums, First

(* What is left of T without that member is smaller by one.                  *)
LEMMA Removed ==
  ASSUME NEW T, IsFiniteSet(T), T # {}
  PROVE  /\ First(T) \in T /\ IsFiniteSet(T \ {First(T)})
         /\ Cardinality(T) \in Nat \ {0}
         /\ Cardinality(T \ {First(T)}) = Cardinality(T) - 1
<1>1. First(T) \in T
  BY DEF First
<1>. HIDE DEF First
<1>2. Cardinality(T) \in Nat /\ Cardinality(T) # 0
  BY FS_CardinalityType, FS_EmptySet
<1>3. IsFiniteSet(T \ {First(T)}) /\ Cardinality(T \ {First(T)}) = Cardinality(T) - 1
  BY <1>1, FS_RemoveElement
<1>. QED  BY <1>1, <1>2, <1>3

(* Induction up to n, over the set of the numbers that have the property.    *)
LEMMA UpTo ==
  ASSUME NEW n \in Nat, NEW S, 0 \in S, \A i \in 1..n : i - 1 \in S => i \in S
  PROVE  \A i \in 0..n : i \in S
<1>. SUFFICES ASSUME NEW j \in 0..n, j \notin S PROVE FALSE
  OBVIOUS
<1>. DEFINE T == {i \in 0..n : i \notin S}
<1>1. T \subseteq Nat /\ T # {}
  OBVIOUS
<1>2. PICK k \in T : \A i \in T : <<i, k>> \notin OpToRel(<, Nat)
  BY <1>1, NatLessThanWellFounded, WFMin
<1>3. k - 1 \in Nat /\ k \in 1..n
  OBVIOUS
<1>4. k - 1 \in S
  <2>1. k - 1 \in 0..n /\ <<k - 1, k>> \in OpToRel(<, Nat)
    BY <1>3 DEF OpToRel
  <2>. QED  BY <1>2, <2>1
<1>. QED  BY <1>3, <1>4

(* Induction over the subsets of a finite set, from the empty one up.        *)
LEMMA SubsetsUpTo ==
  ASSUME NEW S, IsFiniteSet(S), NEW G, {} \in G,
         \A T \in SUBSET S : T # {} /\ (\A x \in T : T \ {x} \in G) => T \in G
  PROVE  S \in G
<1>. DEFINE N == Cardinality(S)
<1>. DEFINE Ks == {k \in 0..N : \A T \in SUBSET S : Cardinality(T) = k => T \in G}
<1>1. N \in Nat /\ \A T \in SUBSET S : IsFiniteSet(T) /\ Cardinality(T) \in Nat
  BY FS_CardinalityType, FS_Subset
<1>. HIDE DEF N
<1>2. 0 \in Ks
  <2>1. \A T \in SUBSET S : Cardinality(T) = 0 => T \in G
    BY <1>1, FS_EmptySet
  <2>. QED  BY <1>1, <2>1
<1>3. ASSUME NEW k \in 1..N, k - 1 \in Ks PROVE k \in Ks
  <2>1. ASSUME NEW T \in SUBSET S, Cardinality(T) = k PROVE T \in G
    <3>1. T # {}
      BY <1>1, <2>1, FS_EmptySet
    <3>2. ASSUME NEW x \in T PROVE T \ {x} \in G
      <4>1. T \ {x} \in SUBSET S /\ Cardinality(T \ {x}) = k - 1
        BY <1>1, <2>1, FS_RemoveElement
      <4>. QED  BY <1>3, <4>1
    <3>. QED  BY <3>1, <3>2
  <2>. QED  BY <2>1
<1>. HIDE DEF Ks
<1>4. N \in Ks
  BY <1>1, <1>2, <1>3, UpTo
<1>. QED  BY <1>4 DEF Ks, N

\* One function adds up all the subsets of S.
LEMMA SumExists ==
  ASSUME NEW f, NEW S, IsFiniteSet(S)
  PROVE  \E g : Sums(g, f, S)
<1>. DEFINE N == Cardinality(S)
<1>. DEFINE Good(g, k) == \A T \in SUBSET S : Cardinality(T) <= k => Adds(g, f, T)
<1>. DEFINE Ks == {k \in 0..N : \E g : Good(g, k)}
<1>1. N \in Nat /\ \A T \in SUBSET S : IsFiniteSet(T) /\ Cardinality(T) \in Nat /\ Cardinality(T) <= N
  BY FS_CardinalityType, FS_Subset
<1>. HIDE DEF N
<1>2. 0 \in Ks
  <2>1. Good([T \in SUBSET S |-> 0], 0)
    <3>. SUFFICES ASSUME NEW T \in SUBSET S, Cardinality(T) <= 0
                  PROVE  Adds([X \in SUBSET S |-> 0], f, T)
      OBVIOUS
    <3>1. T = {}
      BY <1>1, FS_EmptySet
    <3>. QED  BY <3>1 DEF Adds
  <2>. HIDE DEF Good
  <2>. QED  BY <2>1, <1>1
<1>3. ASSUME NEW k \in 1..N, k - 1 \in Ks PROVE k \in Ks
  <2>1. PICK g : Good(g, k - 1)
    BY <1>3
  <2>. DEFINE h == [T \in SUBSET S |-> IF Cardinality(T) < k THEN g[T]
                                       ELSE f[First(T)] + g[T \ {First(T)}]]
  <2>2. ASSUME NEW T \in SUBSET S, Cardinality(T) <= k PROVE Adds(h, f, T)
    <3>1. IsFiniteSet(T) /\ Cardinality(T) \in Nat /\ T \ {First(T)} \in SUBSET S
      BY <1>1
    <3>2. T # {} => h[T \ {First(T)}] = g[T \ {First(T)}]
      <4>. HAVE T # {}
      <4>1. Cardinality(T \ {First(T)}) < k
        <5>1. /\ Cardinality(T) \in Nat /\ k \in Nat /\ Cardinality(T) <= k
              /\ Cardinality(T \ {First(T)}) = Cardinality(T) - 1
          BY <1>1, <3>1, <2>2, Removed
        <5>. QED  BY <5>1
      <4>. QED  BY <3>1, <4>1
    <3>3. CASE Cardinality(T) < k
      <4>1. Cardinality(T) <= k - 1
        BY <3>1, <3>3
      <4>2. Adds(g, f, T)
        BY <2>1, <4>1
      <4>3. h[T] = g[T]
        BY <3>3
      <4>. HIDE DEF h
      <4>. QED  BY <3>2, <4>2, <4>3 DEF Adds
    <3>4. CASE ~(Cardinality(T) < k)
      <4>1. T # {}
        BY <3>1, <3>4, FS_EmptySet
      <4>2. h[T] = f[First(T)] + g[T \ {First(T)}]
        BY <3>4
      <4>. HIDE DEF h
      <4>. QED  BY <3>2, <4>1, <4>2 DEF Adds
    <3>. QED  BY <3>3, <3>4
  <2>3. Good(h, k)
    BY <2>2
  <2>. HIDE DEF Good
  <2>. QED  BY <2>3
<1>. HIDE DEF Ks
<1>4. N \in Ks
  BY <1>1, <1>2, <1>3, UpTo
<1>5. PICK g : Good(g, N)
  BY <1>4 DEF Ks
<1>. DEFINE h == [T \in SUBSET S |-> g[T]]
<1>6. ASSUME NEW T \in SUBSET S
      PROVE  h[T] = IF T = {} THEN 0 ELSE f[First(T)] + h[T \ {First(T)}]
  <2>1. Adds(g, f, T)
    BY <1>1, <1>5
  <2>2. h[T] = g[T] /\ h[T \ {First(T)}] = g[T \ {First(T)}]
    OBVIOUS
  <2>. HIDE DEF h
  <2>. QED  BY <2>1, <2>2 DEF Adds
<1>7. h = [T \in SUBSET S |-> IF T = {} THEN 0 ELSE f[First(T)] + h[T \ {First(T)}]]
  <2>. DEFINE e == [T \in SUBSET S |-> IF T = {} THEN 0 ELSE f[First(T)] + h[T \ {First(T)}]]
  <2>1. \A T \in SUBSET S : h[T] = e[T]
    <3>. SUFFICES ASSUME NEW T \in SUBSET S PROVE h[T] = e[T]
      OBVIOUS
    <3>1. e[T] = IF T = {} THEN 0 ELSE f[First(T)] + h[T \ {First(T)}]
      OBVIOUS
    <3>. QED  BY <3>1, <1>6
  <2>2. h = [T \in SUBSET S |-> h[T]] /\ e = [T \in SUBSET S |-> e[T]]
    OBVIOUS
  <2>. HIDE DEF h, e
  <2>3. h = e
    BY <2>1, <2>2
  <2>. QED  BY <2>3 DEF e
<1>. HIDE DEF h
<1>. QED  BY <1>7, Zenon DEF Sums

(* Such a function is right for every subset.                                *)
LEMMA SumsAdd ==
  ASSUME NEW f, NEW S, NEW g, Sums(g, f, S), NEW T \in SUBSET S
  PROVE  Adds(g, f, T)
<1>. DEFINE e == [X \in SUBSET S |-> IF X = {} THEN 0 ELSE f[First(X)] + g[X \ {First(X)}]]
<1>1. g = e
  BY Zenon DEF Sums
<1>2. e[T] = IF T = {} THEN 0 ELSE f[First(T)] + g[T \ {First(T)}]
  OBVIOUS
<1>. HIDE DEF e
<1>. QED  BY <1>1, <1>2, Zenon DEF Adds

(* Two functions that add up the subsets of R agree on it.                   *)
LEMMA SumsAgree ==
  ASSUME NEW f, NEW R, IsFiniteSet(R), NEW g, NEW h,
         \A T \in SUBSET R : Adds(g, f, T) /\ Adds(h, f, T)
  PROVE  g[R] = h[R]
<1>. DEFINE G == {T \in SUBSET R : g[T] = h[T]}
<1>1. {} \in G
  BY DEF Adds
<1>2. ASSUME NEW T \in SUBSET R, T # {}, \A x \in T : T \ {x} \in G PROVE T \in G
  <2>1. First(T) \in T
    BY <1>2 DEF First
  <2>2. g[T \ {First(T)}] = h[T \ {First(T)}]
    BY <1>2, <2>1
  <2>3. Adds(g, f, T) /\ Adds(h, f, T)
    OBVIOUS
  <2>. QED  BY <1>2, <2>2, <2>3 DEF Adds
<1>. HIDE DEF G
<1>3. R \in G
  BY <1>1, <1>2, SubsetsUpTo
<1>. QED  BY <1>3 DEF G

(* A sum is its first member's term and the sum over the others.             *)
LEMMA SumUnfolds ==
  ASSUME NEW f, NEW S, IsFiniteSet(S)
  PROVE  /\ S = {} => SumFunctionOnSet(f, S) = 0
         /\ S # {} => SumFunctionOnSet(f, S) = f[First(S)] + SumFunctionOnSet(f, S \ {First(S)})
<1>. DEFINE g == CHOOSE g : Sums(g, f, S)
<1>1. Sums(g, f, S) /\ SumFunctionOnSet(f, S) = g[S]
  BY SumExists, SumIs, Zenon
<1>. HIDE DEF g
<1>2. Adds(g, f, S)
  BY <1>1, SumsAdd
<1>3. CASE S = {}
  BY <1>1, <1>2, <1>3 DEF Adds
<1>4. CASE S # {}
  <2>. DEFINE R == S \ {First(S)}
  <2>. DEFINE h == CHOOSE h : Sums(h, f, R)
  <2>1. IsFiniteSet(R) /\ R \in SUBSET S
    BY <1>4, Removed
  <2>. HIDE DEF R
  <2>2. Sums(h, f, R) /\ SumFunctionOnSet(f, R) = h[R]
    BY <2>1, SumExists, SumIs, Zenon
  <2>. HIDE DEF h
  <2>3. \A T \in SUBSET R : Adds(g, f, T) /\ Adds(h, f, T)
    <3>. SUFFICES ASSUME NEW T \in SUBSET R PROVE Adds(g, f, T) /\ Adds(h, f, T)
      OBVIOUS
    <3>1. T \in SUBSET S
      BY <2>1
    <3>2. Adds(g, f, T)
      BY <1>1, <3>1, SumsAdd
    <3>3. Adds(h, f, T)
      BY <2>2, SumsAdd
    <3>. QED  BY <3>2, <3>3
  <2>4. g[R] = h[R]
    BY ZenonT(60), <2>1, <2>3, SumsAgree
  <2>. QED  BY <1>1, <1>2, <1>4, <2>2, <2>4 DEF Adds, R
<1>. QED  BY <1>3, <1>4

LEMMA SumOfNone == \A f : SumFunctionOnSet(f, {}) = 0
BY SumUnfolds, FS_EmptySet

(* A sum of numbers is a number.                                             *)
LEMMA SumIsNat ==
  ASSUME NEW f, NEW S, IsFiniteSet(S), \A x \in S : f[x] \in Nat
  PROVE  SumFunctionOnSet(f, S) \in Nat
<1>. DEFINE G == {T \in SUBSET S : SumFunctionOnSet(f, T) \in Nat}
<1>1. {} \in G
  BY SumOfNone
<1>2. ASSUME NEW T \in SUBSET S, T # {}, \A x \in T : T \ {x} \in G PROVE T \in G
  <2>1. First(T) \in T
    BY <1>2 DEF First
  <2>2. SumFunctionOnSet(f, T) = f[First(T)] + SumFunctionOnSet(f, T \ {First(T)})
    BY <1>2, SumUnfolds, FS_Subset
  <2>3. SumFunctionOnSet(f, T \ {First(T)}) \in Nat /\ f[First(T)] \in Nat
    BY <1>2, <2>1
  <2>. QED  BY <2>2, <2>3
<1>. HIDE DEF G
<1>3. S \in G
  BY <1>1, <1>2, SubsetsUpTo
<1>. QED  BY <1>3 DEF G

\* The sum over T may start with any member.
AnyFirst(f, T) ==
  \A x \in T : SumFunctionOnSet(f, T) = f[x] + SumFunctionOnSet(f, T \ {x})

(* The order of addition does not matter.                                    *)
LEMMA SumAnyFirst ==
  ASSUME NEW f, NEW S, IsFiniteSet(S), \A x \in S : f[x] \in Nat
  PROVE  AnyFirst(f, S)
<1>. DEFINE G == {T \in SUBSET S : AnyFirst(f, T)}
<1>. DEFINE Sum(R) == SumFunctionOnSet(f, R)
<1>0. \A T \in SUBSET S : IsFiniteSet(T) /\ Sum(T) \in Nat
  BY FS_Subset, SumIsNat
<1>1. {} \in G
  BY DEF AnyFirst
<1>2. ASSUME NEW T \in SUBSET S, T # {}, \A x \in T : T \ {x} \in G PROVE T \in G
  <2>. DEFINE c == First(T)
  <2>1. c \in T
    BY <1>2 DEF First
  <2>2. Sum(T) = f[c] + Sum(T \ {c})
    BY <1>0, <1>2, SumUnfolds
  <2>. HIDE DEF c
  <2>3. \A x \in T : AnyFirst(f, T \ {x})
    BY <1>2
  <2>4. ASSUME NEW x \in T, x # c PROVE Sum(T) = f[x] + Sum(T \ {x})
    <3>. DEFINE n == Sum((T \ {x}) \ {c})
    <3>1. Sum(T \ {c}) = f[x] + Sum((T \ {c}) \ {x})
      BY <2>1, <2>3, <2>4 DEF AnyFirst
    <3>2. Sum(T \ {x}) = f[c] + n
      BY <2>1, <2>3, <2>4 DEF AnyFirst
    <3>3. (T \ {c}) \ {x} = (T \ {x}) \ {c}
      OBVIOUS
    <3>4. f[x] \in Nat /\ f[c] \in Nat /\ n \in Nat
      BY <1>0, <2>1
    <3>5. Sum(T \ {c}) = f[x] + n
      BY <3>1, <3>3
    <3>. HIDE DEF Sum, n
    <3>. QED  BY <2>2, <3>2, <3>4, <3>5
  <2>. QED  BY <2>2, <2>4 DEF AnyFirst
<1>. HIDE DEF G
<1>3. S \in G
  BY <1>1, <1>2, SubsetsUpTo
<1>. QED  BY <1>3 DEF G

(* A sum is no less than any of its terms.                                   *)
LEMMA SumCoversTerm ==
  ASSUME NEW f, NEW S, IsFiniteSet(S), \A x \in S : f[x] \in Nat, NEW y \in S
  PROVE  f[y] <= SumFunctionOnSet(f, S)
<1>1. SumFunctionOnSet(f, S) = f[y] + SumFunctionOnSet(f, S \ {y})
  BY SumAnyFirst DEF AnyFirst
<1>2. SumFunctionOnSet(f, S \ {y}) \in Nat
  BY SumIsNat, FS_Subset
<1>. QED  BY <1>1, <1>2

(* Sums add up term by term.                                                 *)
LEMMA SumOfSums ==
  ASSUME NEW S, IsFiniteSet(S), NEW f, NEW g, NEW h,
         \A x \in S : g[x] \in Nat /\ h[x] \in Nat /\ f[x] = g[x] + h[x]
  PROVE  SumFunctionOnSet(f, S) = SumFunctionOnSet(g, S) + SumFunctionOnSet(h, S)
<1>. DEFINE F(T) == SumFunctionOnSet(f, T)
            A(T) == SumFunctionOnSet(g, T)
            B(T) == SumFunctionOnSet(h, T)
<1>. DEFINE Gs == {T \in SUBSET S : F(T) = A(T) + B(T)}
<1>0. \A T \in SUBSET S : IsFiniteSet(T) /\ A(T) \in Nat /\ B(T) \in Nat
  BY FS_Subset, SumIsNat
<1>1. {} \in Gs
  <2>1. F({}) = 0 /\ A({}) = 0 /\ B({}) = 0
    BY SumOfNone
  <2>. HIDE DEF F, A, B
  <2>2. F({}) = A({}) + B({})
    BY <2>1
  <2>. QED  BY <2>2 DEF F, A, B
<1>2. ASSUME NEW T \in SUBSET S, T # {}, \A x \in T : T \ {x} \in Gs PROVE T \in Gs
  <2>. DEFINE c == First(T)  R == T \ {c}
  <2>1. c \in T
    BY <1>2 DEF First
  <2>2. F(T) = f[c] + F(R) /\ A(T) = g[c] + A(R) /\ B(T) = h[c] + B(R)
    BY <1>0, <1>2, SumUnfolds
  <2>3. F(R) = A(R) + B(R)
    BY <1>2, <2>1
  <2>4. A(R) \in Nat /\ B(R) \in Nat
    BY <1>0
  <2>5. g[c] \in Nat /\ h[c] \in Nat /\ f[c] = g[c] + h[c]
    BY <2>1
  <2>. HIDE DEF c, R, F, A, B
  <2>6. F(T) = A(T) + B(T)
    BY <2>2, <2>3, <2>4, <2>5
  <2>. QED  BY <2>6 DEF F, A, B
<1>. HIDE DEF Gs
<1>3. S \in Gs
  BY <1>1, <1>2, SubsetsUpTo
<1>. QED  BY <1>3 DEF Gs

(* Terms that agree have the same sum.                                       *)
LEMMA SumsOfSame ==
  ASSUME NEW S, IsFiniteSet(S), NEW f, NEW g, \A x \in S : f[x] = g[x]
  PROVE  SumFunctionOnSet(f, S) = SumFunctionOnSet(g, S)
<1>. DEFINE G == {T \in SUBSET S : SumFunctionOnSet(f, T) = SumFunctionOnSet(g, T)}
<1>1. {} \in G
  BY SumOfNone
<1>2. ASSUME NEW T \in SUBSET S, T # {}, \A x \in T : T \ {x} \in G PROVE T \in G
  <2>. DEFINE c == First(T)  R == T \ {c}
  <2>1. c \in T /\ IsFiniteSet(T)
    BY <1>2, FS_Subset DEF First
  <2>2. /\ SumFunctionOnSet(f, T) = f[c] + SumFunctionOnSet(f, R)
        /\ SumFunctionOnSet(g, T) = g[c] + SumFunctionOnSet(g, R)
    BY <1>2, <2>1, SumUnfolds
  <2>3. SumFunctionOnSet(f, R) = SumFunctionOnSet(g, R) /\ f[c] = g[c]
    BY <1>2, <2>1
  <2>. QED  BY <2>2, <2>3
<1>. HIDE DEF G
<1>3. S \in G
  BY <1>1, <1>2, SubsetsUpTo
<1>. QED  BY <1>3 DEF G

(* A sum may leave out the terms that are zero.                              *)
LEMMA SumSkipsZeros ==
  ASSUME NEW S, IsFiniteSet(S), NEW f, \A x \in S : f[x] \in Nat,
         NEW R \in SUBSET S, \A x \in S \ R : f[x] = 0
  PROVE  SumFunctionOnSet(f, S) = SumFunctionOnSet(f, R)
<1>. DEFINE Sum(T) == SumFunctionOnSet(f, T)
<1>. DEFINE G == {T \in SUBSET S : Sum(T) = Sum(T \cap R)}
<1>0. \A T \in SUBSET S : IsFiniteSet(T) /\ Sum(T) \in Nat
  BY FS_Subset, SumIsNat
<1>1. {} \in G
  <2>1. {} \cap R = {}
    OBVIOUS
  <2>. QED  BY <2>1
<1>2. ASSUME NEW T \in SUBSET S, T # {}, \A x \in T : T \ {x} \in G PROVE T \in G
  <2>. DEFINE c == First(T)
  <2>1. c \in T
    BY <1>2 DEF First
  <2>2. Sum(T) = f[c] + Sum(T \ {c})
    BY <1>0, <1>2, SumUnfolds
  <2>. HIDE DEF c
  <2>3. Sum(T \ {c}) = Sum((T \ {c}) \cap R)
    BY <1>2, <2>1
  <2>4. CASE c \in R
    <3>1. Sum(T \cap R) = f[c] + Sum((T \cap R) \ {c})
      <4>1. IsFiniteSet(T \cap R) /\ c \in T \cap R /\ \A x \in T \cap R : f[x] \in Nat
        BY <1>0, <2>1, <2>4
      <4>2. AnyFirst(f, T \cap R)
        BY <4>1, SumAnyFirst
      <4>. QED  BY <4>1, <4>2 DEF AnyFirst
    <3>2. (T \cap R) \ {c} = (T \ {c}) \cap R
      OBVIOUS
    <3>3. Sum(T) = Sum(T \cap R)
      BY <2>2, <2>3, <3>1, <3>2
    <3>. QED  BY <3>3
  <2>5. CASE c \notin R
    <3>1. T \cap R = (T \ {c}) \cap R /\ f[c] = 0
      BY <2>1, <2>5
    <3>2. Sum((T \ {c}) \cap R) \in Nat
      BY <1>0
    <3>. HIDE DEF Sum
    <3>3. Sum(T) = Sum((T \ {c}) \cap R)
      BY <2>2, <2>3, <3>1, <3>2
    <3>4. Sum(T) = Sum(T \cap R)
      BY <3>1, <3>3
    <3>. QED  BY <3>4 DEF Sum
  <2>. QED  BY <2>4, <2>5
<1>. HIDE DEF G
<1>3. S \in G
  BY <1>1, <1>2, SubsetsUpTo
<1>4. S \cap R = R
  OBVIOUS
<1>. QED  BY <1>3, <1>4 DEF G

----------------------------------------------------------------------------
(* The batcher's books.                                                      *)

(* The Map's keys, in order, are the topics that have messages, each once.   *)
Lists(ord, q) ==
  /\ ord \in Seq(Topics)
  /\ \A t \in Topics : q[t] # <<>> <=> \E i \in 1..Len(ord) : ord[i] = t
  /\ \A i, j \in 1..Len(ord) : ord[i] = ord[j] => i = j

\* The topics of the first k keys.
Upto(ord, k) == {ord[i] : i \in 1..k}

Lens(q) == [t \in Topics |-> Len(q[t])]
Shares(ord, q) == [t \in Topics |-> Share(ord, q, t)]

(* What waits is a sum of lengths.                                           *)
LEMMA LensAre ==
  ASSUME NEW q \in [Topics -> Seq(Nat)]
  PROVE  /\ \A S : Waiting(q, S) = SumFunctionOnSet(Lens(q), S)
         /\ Lens(q) \in [Topics -> Nat] /\ \A t \in Topics : Lens(q)[t] = Len(q[t])
<1>1. \A t \in Topics : Len(q[t]) \in Nat
  OBVIOUS
<1>. QED  BY <1>1 DEF Waiting, Lens

(* What is taken is a sum of shares.                                         *)
LEMMA SharesAre ==
  ASSUME NEW ord, NEW q \in [Topics -> Seq(Nat)]
  PROVE  /\ Taken(ord, q) = SumFunctionOnSet(Shares(ord, q), Topics)
         /\ Shares(ord, q) \in [Topics -> Nat]
         /\ \A t \in Topics : /\ Shares(ord, q)[t] = Share(ord, q, t)
                              /\ Share(ord, q, t) \in 0..Len(q[t])
<1>1. \A t \in Topics : Share(ord, q, t) \in 0..Len(q[t])
  BY ShareInRange
<1>2. \A t \in Topics : Len(q[t]) \in Nat
  OBVIOUS
<1>3. \A t \in Topics : Share(ord, q, t) \in Nat
  BY <1>1, <1>2
<1>4. DOMAIN [t \in Topics |-> Share(ord, q, t)] = Topics
  OBVIOUS
<1>5. Taken(ord, q) = SumFunctionOnSet(Shares(ord, q), Topics)
  BY <1>4 DEF Taken, SumFunction, Shares
<1>. QED  BY <1>1, <1>3, <1>5 DEF Shares

(* One more key adds its own term to a sum over the first keys.              *)
LEMMA OneMoreKey ==
  ASSUME NEW ord \in Seq(Topics), \A i, j \in 1..Len(ord) : ord[i] = ord[j] => i = j,
         NEW f \in [Topics -> Nat], NEW k \in 1..Len(ord)
  PROVE  /\ SumFunctionOnSet(f, Upto(ord, k)) = f[ord[k]] + SumFunctionOnSet(f, Upto(ord, k - 1))
         /\ SumFunctionOnSet(f, Upto(ord, k - 1)) \in Nat
<1>1. /\ Upto(ord, k) \subseteq Topics /\ Upto(ord, k - 1) \subseteq Topics /\ ord[k] \in Upto(ord, k)
  BY DEF Upto
<1>2. Upto(ord, k - 1) = Upto(ord, k) \ {ord[k]}
  <2>1. \A i \in 1..k : i \in 1..Len(ord) /\ (i \in 1..(k - 1) \/ i = k)
    OBVIOUS
  <2>2. \A i \in 1..(k - 1) : i \in 1..Len(ord) /\ i \in 1..k /\ i # k
    OBVIOUS
  <2>. QED  BY <2>1, <2>2 DEF Upto
<1>3. IsFiniteSet(Upto(ord, k)) /\ IsFiniteSet(Upto(ord, k - 1))
  BY <1>1, TopicsAssumption, FS_Subset
<1>4. \A t \in Topics : f[t] \in Nat
  OBVIOUS
<1>5. AnyFirst(f, Upto(ord, k))
  BY <1>1, <1>3, <1>4, SumAnyFirst
<1>6. SumFunctionOnSet(f, Upto(ord, k - 1)) \in Nat
  BY <1>1, <1>3, <1>4, SumIsNat
<1>. QED  BY <1>1, <1>2, <1>5, <1>6 DEF AnyFirst

\* Of the first k keys takeBatch takes all the messages, or the whole budget.
InBudget(ord, q, k) ==
  LET waiting == SumFunctionOnSet(Lens(q), Upto(ord, k))
      taken == SumFunctionOnSet(Shares(ord, q), Upto(ord, k))
  IN  \/ waiting <= MaxQueued /\ taken = waiting
      \/ waiting >= MaxQueued /\ taken = MaxQueued

\* All the messages of the first k keys fit into one request.
FitsUpto(ord, q, k) == SumFunctionOnSet(Lens(q), Upto(ord, k)) <= MaxQueued

\* Nothing is left of the k-th key.
TakenWhole(ord, q, k) == Share(ord, q, ord[k]) = Len(q[ord[k]])

(* The loop of takeBatch stays in its budget with one more key.              *)
(* A key's messages are all taken if and only if they fit with those before. *)
LEMMA BudgetStep ==
  ASSUME NEW ord, NEW q \in [Topics -> Seq(Nat)], Lists(ord, q),
         NEW k \in 1..Len(ord), InBudget(ord, q, k - 1)
  PROVE  /\ InBudget(ord, q, k)
         /\ TakenWhole(ord, q, k) <=> FitsUpto(ord, q, k)
         /\ FitsUpto(ord, q, k) => FitsUpto(ord, q, k - 1)
<1>. DEFINE t == ord[k]
<1>. DEFINE w == SumFunctionOnSet(Lens(q), Upto(ord, k - 1))
            w1 == SumFunctionOnSet(Lens(q), Upto(ord, k))
            s == SumFunctionOnSet(Shares(ord, q), Upto(ord, k - 1))
            s1 == SumFunctionOnSet(Shares(ord, q), Upto(ord, k))
            n == Len(q[t])  m == Share(ord, q, t)
<1>0. ord \in Seq(Topics) /\ \A i, j \in 1..Len(ord) : ord[i] = ord[j] => i = j
  BY DEF Lists
<1>1. t \in Topics
  BY <1>0
<1>2. w1 = n + w /\ w \in Nat /\ n \in Nat
  <2>1. Lens(q) \in [Topics -> Nat] /\ Lens(q)[t] = n /\ n \in Nat
    BY <1>1, LensAre
  <2>2. /\ SumFunctionOnSet(Lens(q), Upto(ord, k)) = Lens(q)[ord[k]] + SumFunctionOnSet(Lens(q), Upto(ord, k - 1))
        /\ SumFunctionOnSet(Lens(q), Upto(ord, k - 1)) \in Nat
    BY <1>0, <2>1, OneMoreKey
  <2>. QED  BY <2>1, <2>2
<1>3. s1 = m + s /\ s \in Nat /\ m \in 0..n
  <2>1. Shares(ord, q) \in [Topics -> Nat] /\ Shares(ord, q)[t] = m /\ m \in 0..n
    BY <1>1, SharesAre
  <2>2. /\ SumFunctionOnSet(Shares(ord, q), Upto(ord, k)) = Shares(ord, q)[ord[k]] + SumFunctionOnSet(Shares(ord, q), Upto(ord, k - 1))
        /\ SumFunctionOnSet(Shares(ord, q), Upto(ord, k - 1)) \in Nat
    BY <1>0, <2>1, OneMoreKey
  <2>. QED  BY <2>1, <2>2
<1>4. q[t] # <<>>
  BY <1>0, <1>1 DEF Lists
<1>5. Position(ord, t) = k
  <2>1. k \in DOMAIN ord /\ DOMAIN ord = 1..Len(ord)
    BY <1>0
  <2>. QED  BY <1>0, <2>1 DEF Position
<1>6. Ahead(ord, q, k) = w
  BY LensAre DEF Ahead, Upto
<1>7. m = IF MaxQueued - w \in 1..n THEN MaxQueued - w ELSE IF MaxQueued - w > 0 THEN n ELSE 0
  BY <1>4, <1>5, <1>6 DEF Share
<1>8. (w <= MaxQueued /\ s = w) \/ (w >= MaxQueued /\ s = MaxQueued)
  BY DEF InBudget
<1>9. MaxQueued \in Nat
  BY MaxQueuedAssumption
<1>. HIDE DEF w, w1, s, s1, n, m
<1>10. (w1 <= MaxQueued /\ s1 = w1) \/ (w1 >= MaxQueued /\ s1 = MaxQueued)
  <2>1. CASE MaxQueued - w \in 1..n
    BY <1>2, <1>3, <1>7, <1>8, <1>9, <2>1
  <2>2. CASE MaxQueued - w \notin 1..n /\ MaxQueued - w > 0
    BY <1>2, <1>3, <1>7, <1>8, <1>9, <2>2
  <2>3. CASE MaxQueued - w \notin 1..n /\ ~(MaxQueued - w > 0)
    BY <1>2, <1>3, <1>7, <1>8, <1>9, <2>3
  <2>. QED  BY <2>1, <2>2, <2>3
<1>11. m = n <=> w1 <= MaxQueued
  <2>1. n # 0
    <3>1. q[t] \in Seq(Nat)
      BY <1>1
    <3>. QED  BY <1>4, <3>1 DEF n
  <2>2. CASE MaxQueued - w \in 1..n
    BY <1>2, <1>3, <1>7, <1>8, <1>9, <2>1, <2>2
  <2>3. CASE MaxQueued - w \notin 1..n /\ MaxQueued - w > 0
    BY <1>2, <1>3, <1>7, <1>8, <1>9, <2>1, <2>3
  <2>4. CASE MaxQueued - w \notin 1..n /\ ~(MaxQueued - w > 0)
    BY <1>2, <1>3, <1>7, <1>8, <1>9, <2>1, <2>4
  <2>. QED  BY <2>2, <2>3, <2>4
<1>12. w1 <= MaxQueued => w <= MaxQueued
  BY <1>2, <1>9
<1>. QED  BY <1>10, <1>11, <1>12 DEF InBudget, FitsUpto, TakenWhole, w, w1, s1, m, n, t

LEMMA BudgetHolds ==
  ASSUME NEW ord, NEW q \in [Topics -> Seq(Nat)], Lists(ord, q)
  PROVE  \A k \in 0..Len(ord) : InBudget(ord, q, k)
<1>. DEFINE N == Len(ord)
<1>0. ord \in Seq(Topics) /\ N \in Nat /\ MaxQueued \in Nat
  BY MaxQueuedAssumption DEF Lists
<1>1. InBudget(ord, q, 0)
  <2>1. Upto(ord, 0) = {}
    BY DEF Upto
  <2>2. /\ SumFunctionOnSet(Lens(q), Upto(ord, 0)) = 0
        /\ SumFunctionOnSet(Shares(ord, q), Upto(ord, 0)) = 0
    BY <2>1, SumOfNone
  <2>. QED  BY <1>0, <2>2 DEF InBudget
<1>2. \A k \in 1..N : InBudget(ord, q, k - 1) => InBudget(ord, q, k)
  BY BudgetStep
<1>. DEFINE Ks == {k \in 0..N : InBudget(ord, q, k)}
<1>. HIDE DEF N
<1>3. 0 \in Ks /\ \A k \in 1..N : k - 1 \in Ks => k \in Ks
  BY <1>0, <1>1, <1>2
<1>. HIDE DEF Ks
<1>4. \A k \in 0..N : k \in Ks
  BY <1>0, <1>3, UpTo
<1>. QED  BY <1>4 DEF Ks, N

\* Up to key n the topics taken whole come first.
WholeFirst(ord, q, n) ==
  \/ FitsUpto(ord, q, n) /\ \A k \in 1..n : TakenWhole(ord, q, k)
  \/ /\ ~FitsUpto(ord, q, n)
     /\ \E m \in 0..(n - 1) : \A k \in 1..n : k <= m <=> TakenWhole(ord, q, k)

(* What takeBatch deletes of the Map is its first keys: TakeBatch is never    *)
(* without the m it asks for.                                                *)
LEMMA EmptiedKeysAreFirst ==
  ASSUME NEW ord, NEW q \in [Topics -> Seq(Nat)], Lists(ord, q)
  PROVE  \E m \in 0..Len(ord) : Emptied(ord, q, m)
<1>. DEFINE N == Len(ord)
<1>0. ord \in Seq(Topics) /\ N \in Nat /\ MaxQueued \in Nat /\ DOMAIN ord = 1..N
  BY MaxQueuedAssumption DEF Lists
<1>1. WholeFirst(ord, q, 0)
  <2>1. Upto(ord, 0) = {}
    BY DEF Upto
  <2>2. SumFunctionOnSet(Lens(q), Upto(ord, 0)) = 0
    BY <2>1, SumOfNone
  <2>. QED  BY <1>0, <2>2 DEF WholeFirst, FitsUpto
<1>2. ASSUME NEW k \in 1..N, WholeFirst(ord, q, k - 1) PROVE WholeFirst(ord, q, k)
  <2>1. /\ TakenWhole(ord, q, k) <=> FitsUpto(ord, q, k)
        /\ FitsUpto(ord, q, k) => FitsUpto(ord, q, k - 1)
    <3>1. k - 1 \in 0..Len(ord) /\ k \in 1..Len(ord)
      BY <1>0
    <3>2. InBudget(ord, q, k - 1)
      BY <3>1, BudgetHolds
    <3>. QED  BY <3>1, <3>2, BudgetStep
  <2>2. k \in Nat /\ \A i \in 1..k : i \in 1..(k - 1) \/ i = k
    BY <1>0
  <2>3. CASE FitsUpto(ord, q, k)
    BY <1>2, <2>1, <2>2, <2>3 DEF WholeFirst
  <2>4. CASE ~FitsUpto(ord, q, k) /\ FitsUpto(ord, q, k - 1)
    <3>1. \A i \in 1..k : i <= k - 1 <=> TakenWhole(ord, q, i)
      BY <1>2, <2>1, <2>2, <2>4 DEF WholeFirst
    <3>2. k - 1 \in 0..(k - 1)
      BY <1>0
    <3>. QED  BY <2>4, <3>1, <3>2 DEF WholeFirst
  <2>5. CASE ~FitsUpto(ord, q, k) /\ ~FitsUpto(ord, q, k - 1)
    <3>1. PICK m \in 0..(k - 2) : \A i \in 1..(k - 1) : i <= m <=> TakenWhole(ord, q, i)
      <4>1. (k - 1) - 1 = k - 2
        BY <1>0
      <4>. QED  BY <1>2, <2>5, <4>1 DEF WholeFirst
    <3>2. m \in 0..(k - 1) /\ ~(k <= m)
      BY <1>0, <3>1
    <3>3. \A i \in 1..k : i <= m <=> TakenWhole(ord, q, i)
      BY <2>1, <2>2, <2>5, <3>1, <3>2
    <3>. QED  BY <2>5, <3>2, <3>3 DEF WholeFirst
  <2>. QED  BY <2>3, <2>4, <2>5
<1>3. WholeFirst(ord, q, N)
  <2>. DEFINE Ks == {k \in 0..N : WholeFirst(ord, q, k)}
  <2>. HIDE DEF N
  <2>1. 0 \in Ks /\ \A k \in 1..N : k - 1 \in Ks => k \in Ks
    BY <1>0, <1>1, <1>2
  <2>. HIDE DEF Ks
  <2>2. \A k \in 0..N : k \in Ks
    BY <1>0, <2>1, UpTo
  <2>3. N \in Ks
    BY <1>0, <2>2
  <2>. QED  BY <2>3 DEF Ks
<1>4. \E m \in 0..N : \A k \in 1..N : k <= m <=> TakenWhole(ord, q, k)
  <2>1. CASE \A k \in 1..N : TakenWhole(ord, q, k)
    <3>1. N \in 0..N /\ \A k \in 1..N : k <= N
      BY <1>0
    <3>. QED  BY <2>1, <3>1
  <2>2. CASE \E m \in 0..(N - 1) : \A k \in 1..N : k <= m <=> TakenWhole(ord, q, k)
    <3>1. \A m \in 0..(N - 1) : m \in 0..N
      BY <1>0
    <3>. QED  BY <2>2, <3>1
  <2>. QED  BY <1>3, <2>1, <2>2 DEF WholeFirst
<1>5. PICK m \in 0..N : \A k \in 1..N : k <= m <=> TakenWhole(ord, q, k)
  BY <1>4
<1>6. Emptied(ord, q, m)
  BY <1>0, <1>5 DEF Emptied, TakenWhole
<1>. QED  BY <1>6

(* INV-4: what takeBatch takes is within maxQueued.                          *)
LEMMA TakenWithinCap ==
  ASSUME NEW ord, NEW q \in [Topics -> Seq(Nat)], Lists(ord, q)
  PROVE  Taken(ord, q) \in Nat /\ Taken(ord, q) <= MaxQueued
<1>. DEFINE N == Len(ord)
<1>0. ord \in Seq(Topics) /\ N \in Nat /\ MaxQueued \in Nat
  BY MaxQueuedAssumption DEF Lists
<1>1. InBudget(ord, q, N)
  BY <1>0, BudgetHolds
<1>2. SumFunctionOnSet(Shares(ord, q), Upto(ord, N)) = Taken(ord, q)
  <2>1. Upto(ord, N) \in SUBSET Topics
    BY <1>0 DEF Upto
  <2>2. \A t \in Topics \ Upto(ord, N) : Shares(ord, q)[t] = 0
    <3>. SUFFICES ASSUME NEW t \in Topics \ Upto(ord, N) PROVE Shares(ord, q)[t] = 0
      OBVIOUS
    <3>1. q[t] = <<>>
      BY DEF Lists, Upto
    <3>. QED  BY <3>1, SharesAre DEF Share
  <2>3. \A t \in Topics : Shares(ord, q)[t] \in Nat
    BY SharesAre
  <2>. QED  BY <2>1, <2>2, <2>3, SharesAre, TopicsAssumption, SumSkipsZeros
<1>3. SumFunctionOnSet(Shares(ord, q), Topics) \in Nat
  BY SharesAre, TopicsAssumption, SumIsNat
<1>4. SumFunctionOnSet(Lens(q), Upto(ord, N)) \in Nat
  <2>1. Upto(ord, N) \subseteq Topics
    BY <1>0 DEF Upto
  <2>. QED  BY <2>1, LensAre, TopicsAssumption, SumIsNat, FS_Subset
<1>. HIDE DEF N
<1>. QED  BY <1>0, <1>1, <1>2, <1>3, <1>4, SharesAre DEF InBudget

(* The Map after takeBatch: the keys it emptied are gone.                    *)
LEMMA TakenKeysGo ==
  ASSUME NEW ord, NEW q \in [Topics -> Seq(Nat)], Lists(ord, q),
         NEW m \in 0..Len(ord), Emptied(ord, q, m),
         NEW rest \in [Topics -> Seq(Nat)],
         \A t \in Topics : Len(rest[t]) = Len(q[t]) - Share(ord, q, t)
  PROVE  Lists(SubSeq(ord, m + 1, Len(ord)), rest)
<1>. DEFINE o == SubSeq(ord, m + 1, Len(ord))
<1>0. /\ ord \in Seq(Topics) /\ Len(ord) \in Nat /\ m \in Nat
      /\ \A i, j \in 1..Len(ord) : ord[i] = ord[j] => i = j
      /\ \A t \in Topics : q[t] # <<>> <=> \E i \in 1..Len(ord) : ord[i] = t
  BY DEF Lists
<1>1. o \in Seq(Topics) /\ Len(o) = Len(ord) - m
  BY <1>0
<1>2. \A i \in 1..(Len(ord) - m) : o[i] = ord[m + i]
  BY <1>0
<1>. HIDE DEF o
<1>3. \A i, j \in 1..Len(o) : o[i] = o[j] => i = j
  <2>. SUFFICES ASSUME NEW i \in 1..Len(o), NEW j \in 1..Len(o), o[i] = o[j] PROVE i = j
    OBVIOUS
  <2>1. m + i \in 1..Len(ord) /\ m + j \in 1..Len(ord)
    BY <1>0, <1>1
  <2>2. ord[m + i] = ord[m + j]
    BY <1>1, <1>2
  <2>3. m + i = m + j
    BY <1>0, <2>1, <2>2
  <2>. QED  BY <1>0, <2>3
<1>4. ASSUME NEW t \in Topics
      PROVE  rest[t] # <<>> <=> \E i \in 1..Len(o) : o[i] = t
  <2>1. /\ Len(q[t]) \in Nat /\ Len(rest[t]) \in Nat /\ Share(ord, q, t) \in 0..Len(q[t])
        /\ rest[t] # <<>> <=> Len(rest[t]) # 0
        /\ q[t] # <<>> <=> Len(q[t]) # 0
    <3>1. q[t] \in Seq(Nat) /\ rest[t] \in Seq(Nat)
      OBVIOUS
    <3>2. Share(ord, q, t) \in 0..Len(q[t])
      BY SharesAre
    <3>. QED  BY <3>1, <3>2
  <2>2. rest[t] # <<>> <=> Share(ord, q, t) # Len(q[t])
    BY <2>1
  <2>3. ASSUME NEW i \in 1..Len(o), o[i] = t PROVE rest[t] # <<>>
    <3>1. m + i \in DOMAIN ord /\ ~(m + i <= m) /\ ord[m + i] = t
      <4>1. i \in 1..(Len(ord) - m) /\ DOMAIN ord = 1..Len(ord)
        BY <1>0, <1>1
      <4>2. m + i \in 1..Len(ord) /\ ~(m + i <= m)
        BY <1>0, <4>1
      <4>. QED  BY <1>2, <2>3, <4>1, <4>2
    <3>2. Share(ord, q, t) # Len(q[t])
      BY <3>1 DEF Emptied
    <3>. QED  BY <2>2, <3>2
  <2>4. ASSUME rest[t] # <<>> PROVE \E i \in 1..Len(o) : o[i] = t
    <3>1. Share(ord, q, t) # Len(q[t]) /\ q[t] # <<>>
      BY <2>1, <2>2, <2>4
    <3>2. PICK k \in 1..Len(ord) : ord[k] = t
      BY <1>0, <3>1
    <3>3. k \in DOMAIN ord /\ ~(k <= m)
      <4>1. k \in DOMAIN ord
        BY <1>0, <3>2
      <4>. QED  BY <3>1, <3>2, <4>1 DEF Emptied
    <3>4. k - m \in 1..Len(o) /\ m + (k - m) = k
      <4>1. k \in 1..Len(ord) /\ ~(k <= m)
        BY <3>2, <3>3
      <4>2. k - m \in 1..(Len(ord) - m) /\ m + (k - m) = k
        BY <1>0, <4>1
      <4>. QED  BY <1>1, <4>2
    <3>5. o[k - m] = t
      BY <1>1, <1>2, <3>2, <3>4
    <3>. QED  BY <3>4, <3>5
  <2>. QED  BY <2>3, <2>4
<1>5. Lists(o, rest)
  BY <1>1, <1>3, <1>4 DEF Lists
<1>. QED  BY <1>5 DEF o

\* takeBatch has cut the queues q into msgs and rest.
Cut(ord, q, msgs, rest) ==
  /\ {q, msgs, rest} \subseteq [Topics -> Seq(Nat)]
  /\ \A t \in Topics : /\ Len(msgs[t]) = Share(ord, q, t)
                        /\ Len(rest[t]) = Len(q[t]) - Len(msgs[t])

(* What is taken and what is left make up what waited.                       *)
LEMMA TakenIsCounted ==
  ASSUME NEW ord, NEW q, NEW msgs, NEW rest, Cut(ord, q, msgs, rest)
  PROVE  /\ Waiting(msgs, Topics) = Taken(ord, q)
         /\ Waiting(q, Topics) = Taken(ord, q) + Waiting(rest, Topics)
         /\ Waiting(rest, Topics) \in Nat
<1>0. /\ q \in [Topics -> Seq(Nat)] /\ msgs \in [Topics -> Seq(Nat)]
      /\ rest \in [Topics -> Seq(Nat)]
      /\ \A t \in Topics : /\ Len(msgs[t]) = Share(ord, q, t)
                           /\ Len(rest[t]) = Len(q[t]) - Len(msgs[t])
  BY DEF Cut
<1>1. \A t \in Topics : Lens(msgs)[t] = Shares(ord, q)[t]
  <2>1. \A t \in Topics : Lens(msgs)[t] = Len(msgs[t])
    BY <1>0, LensAre
  <2>. QED  BY <1>0, <2>1, SharesAre
<1>2. Waiting(msgs, Topics) = Taken(ord, q)
  <2>1. SumFunctionOnSet(Lens(msgs), Topics) = SumFunctionOnSet(Shares(ord, q), Topics)
    BY <1>1, TopicsAssumption, SumsOfSame
  <2>. QED  BY <1>0, <2>1, LensAre, SharesAre
<1>3. \A t \in Topics : /\ Lens(msgs)[t] \in Nat /\ Lens(rest)[t] \in Nat
                        /\ Lens(q)[t] = Lens(msgs)[t] + Lens(rest)[t]
  <2>. SUFFICES ASSUME NEW t \in Topics
                PROVE  /\ Lens(msgs)[t] \in Nat /\ Lens(rest)[t] \in Nat
                       /\ Lens(q)[t] = Lens(msgs)[t] + Lens(rest)[t]
    OBVIOUS
  <2>1. /\ Lens(msgs)[t] = Len(msgs[t]) /\ Lens(rest)[t] = Len(rest[t]) /\ Lens(q)[t] = Len(q[t])
        /\ Len(msgs[t]) \in Nat /\ Len(rest[t]) \in Nat /\ Len(q[t]) \in Nat
    <3>1. Lens(msgs)[t] = Len(msgs[t])
      BY <1>0, LensAre
    <3>2. Lens(rest)[t] = Len(rest[t])
      BY <1>0, LensAre
    <3>3. Lens(q)[t] = Len(q[t])
      BY <1>0, LensAre
    <3>. QED  BY <3>1, <3>2, <3>3
  <2>2. Len(rest[t]) = Len(q[t]) - Len(msgs[t])
    BY <1>0
  <2>. QED  BY <2>1, <2>2
<1>4. SumFunctionOnSet(Lens(q), Topics)
        = SumFunctionOnSet(Lens(msgs), Topics) + SumFunctionOnSet(Lens(rest), Topics)
  BY <1>3, TopicsAssumption, SumOfSums
<1>5. SumFunctionOnSet(Lens(rest), Topics) \in Nat
  BY <1>3, TopicsAssumption, SumIsNat
<1>. QED  BY <1>2, <1>4, <1>5, <1>0, LensAre

(* One more at x is one more in all.                                         *)
LEMMA OneMore ==
  ASSUME NEW S, IsFiniteSet(S), NEW f \in [S -> Nat], NEW g \in [S -> Nat], NEW x \in S,
         g[x] = f[x] + 1, \A y \in S \ {x} : g[y] = f[y]
  PROVE  SumFunctionOnSet(g, S) = SumFunctionOnSet(f, S) + 1
<1>1. AnyFirst(f, S) /\ AnyFirst(g, S)
  BY SumAnyFirst
<1>2. IsFiniteSet(S \ {x})
  BY FS_Subset
<1>3. SumFunctionOnSet(f, S \ {x}) = SumFunctionOnSet(g, S \ {x})
  BY <1>2, SumsOfSame
<1>4. SumFunctionOnSet(f, S \ {x}) \in Nat
  BY <1>2, SumIsNat
<1>5. /\ SumFunctionOnSet(f, S) = f[x] + SumFunctionOnSet(f, S \ {x})
      /\ SumFunctionOnSet(g, S) = g[x] + SumFunctionOnSet(g, S \ {x})
  BY <1>1 DEF AnyFirst
<1>. QED  BY <1>3, <1>4, <1>5

\* The books of the Map (ord, q) that n is the count of, and of the requests fl.
Books(ord, q, n, fl) ==
  /\ Lists(ord, q) /\ n = Waiting(q, Topics)
  /\ \A r \in fl : Waiting(r.msgs, Topics) <= MaxQueued

Bounds ==
  /\ \A t \in Topics : Len(queues[t]) <= enqueued[t]
  /\ SumFunction(enqueued) <= MaxEnqueued

Phases == {"running", "draining", "drained", "exited"}

Flags ==
  /\ flushScheduled \in BOOLEAN
  /\ drain \in [phase : Phases, on : Nat] /\ drain.on <= flushes

Counted == Books(order, queues, queued, inflight) /\ Bounds /\ Flags

(* flush() keeps the books, and takes no queue's length up.                  *)
LEMMA FlushKeepsBooks ==
  ASSUME Types, NEW ord, NEW q \in [Topics -> Seq(Nat)], NEW n, NEW busy \in BOOLEAN,
         NEW fl \in SUBSET inflight, fl # {} => busy,
         Books(ord, q, n, fl), Flush(ord, q, n, busy, fl)
  PROVE  /\ Books(order, queues, queued, inflight)'
         /\ \A t \in Topics : Len(queues'[t]) <= Len(q[t])
         /\ flushes' \in Nat /\ flushes <= flushes'
<1>0. flushes \in Nat /\ \A t \in Topics : Len(q[t]) \in Nat
  BY DEF Types
<1>1. CASE busy \/ n = 0
  <2>1. order' = ord /\ queues' = q /\ queued' = n /\ inflight' = fl /\ flushes' = flushes
    BY <1>1 DEF Flush
  <2>2. Books(order', queues', queued', inflight')
    BY <2>1
  <2>3. Waiting(queues, Topics)' = Waiting(queues', Topics)
    BY DEF Waiting
  <2>4. Books(order, queues, queued, inflight)'
    BY <2>2, <2>3 DEF Books, Lists, Waiting
  <2>. QED  BY <1>0, <2>1, <2>4
<1>2. CASE ~busy /\ n # 0
  <2>1. TakeBatch(ord, q, {}) /\ queued' = n - Taken(ord, q) /\ flushes' = flushes + 1
    BY <1>2 DEF Flush
  <2>2. queues' \in [Topics -> Seq(Nat)]
    BY <1>0, <2>1, TakeBatchCuts
  <2>3. PICK r \in Request : /\ inflight' = {r}
                            /\ \A t \in Topics : /\ CutInto(q[t], r.msgs[t], queues'[t])
                                                /\ Len(r.msgs[t]) = Share(ord, q, t)
    BY <1>0, <2>1, TakeBatchCuts
  <2>4. r.msgs \in [Topics -> Seq(Nat)]
    BY DEF Request
  <2>5. \A t \in Topics : Len(queues'[t]) = Len(q[t]) - Len(r.msgs[t]) /\ Len(r.msgs[t]) \in 0..Len(q[t])
    BY <2>3 DEF CutInto
  <2>6. PICK m \in 0..Len(ord) : Emptied(ord, q, m) /\ order' = SubSeq(ord, m + 1, Len(ord))
    BY <2>1 DEF TakeBatch
  <2>7. Lists(order', queues')
    <3>1. \A t \in Topics : Len(queues'[t]) = Len(q[t]) - Share(ord, q, t)
      BY <2>3, <2>5
    <3>. QED  BY <2>2, <2>6, <3>1, TakenKeysGo DEF Books
  <2>8. /\ Waiting(r.msgs, Topics) = Taken(ord, q)
        /\ Waiting(q, Topics) = Taken(ord, q) + Waiting(queues', Topics)
        /\ Waiting(queues', Topics) \in Nat
    <3>. DEFINE msgs == r.msgs  rest == queues'
    <3>1. Cut(ord, q, msgs, rest)
      BY <2>2, <2>3, <2>4, <2>5 DEF Cut
    <3>. HIDE DEF msgs, rest
    <3>2. /\ Waiting(msgs, Topics) = Taken(ord, q)
          /\ Waiting(q, Topics) = Taken(ord, q) + Waiting(rest, Topics)
          /\ Waiting(rest, Topics) \in Nat
      BY <3>1, TakenIsCounted
    <3>. QED  BY <3>2 DEF msgs, rest
  <2>9. Taken(ord, q) \in Nat /\ Taken(ord, q) <= MaxQueued
    BY TakenWithinCap DEF Books
  <2>10. queued' = Waiting(queues', Topics)
    BY <2>1, <2>8, <2>9 DEF Books
  <2>11. \A s \in inflight' : Waiting(s.msgs, Topics) <= MaxQueued
    BY <2>3, <2>8, <2>9
  <2>12. Books(order, queues, queued, inflight)'
    BY <2>7, <2>10, <2>11 DEF Books, Lists, Waiting
  <2>13. \A t \in Topics : Len(queues'[t]) <= Len(q[t])
    <3>. SUFFICES ASSUME NEW t \in Topics PROVE Len(queues'[t]) <= Len(q[t])
      OBVIOUS
    <3>. DEFINE a == Len(queues'[t])  b == Len(q[t])  c == Len(r.msgs[t])
    <3>1. b \in Nat /\ a = b - c /\ c \in 0..b
      BY <1>0, <2>5
    <3>. HIDE DEF a, b, c
    <3>2. a <= b
      BY <3>1
    <3>. QED  BY <3>2 DEF a, b
  <2>. QED  BY <1>0, <2>1, <2>12, <2>13
<1>. QED  BY <1>1, <1>2

(* flush() over the batcher's own queues keeps the counts.                   *)
LEMMA OwnFlushKeepsCounted ==
  ASSUME Inv, Counted, NEW busy \in BOOLEAN, NEW fl \in SUBSET inflight, fl # {} => busy,
         Flush(order, queues, queued, busy, fl), enqueued' = enqueued
  PROVE  Books(order, queues, queued, inflight)' /\ Bounds' /\ flushes' \in Nat /\ flushes <= flushes'
<1>1. Types /\ queues \in [Topics -> Seq(Nat)] /\ enqueued \in [Topics -> Nat]
  BY DEF Inv, Types
<1>2. Books(order, queues, queued, fl)
  BY DEF Counted, Books
<1>3. /\ Books(order, queues, queued, inflight)'
      /\ \A t \in Topics : Len(queues'[t]) <= Len(queues[t])
      /\ flushes' \in Nat /\ flushes <= flushes'
  BY <1>1, <1>2, FlushKeepsBooks
<1>4. Bounds'
  BY <1>1, <1>3 DEF Counted, Bounds
<1>. QED  BY <1>3, <1>4

(* One more message: a new key is the last of the Map, the count one more.   *)
LEMMA EnqueueKeepsCounted ==
  ASSUME Inv, Counted, NEW t \in Topics, Enqueue(t)
  PROVE  Counted'
<1>. DEFINE q == [queues EXCEPT ![t] = Append(@, enqueued[t] + 1)]
<1>. DEFINE ord == IF queues[t] = <<>> THEN Append(order, t) ELSE order
<1>1. /\ Types /\ queues \in [Topics -> Seq(Nat)] /\ enqueued \in [Topics -> Nat]
      /\ sending \in BOOLEAN /\ (inflight # {} => sending) /\ flushes \in Nat
  BY DEF Inv, Types, OneSend
<1>2. enqueued' = [enqueued EXCEPT ![t] = @ + 1] /\ drain' = drain
  BY DEF Enqueue
<1>3. /\ q \in [Topics -> Seq(Nat)] /\ Len(q[t]) = Len(queues[t]) + 1
      /\ \A u \in Topics \ {t} : q[u] = queues[u]
  BY <1>1
<1>4. Waiting(q, Topics) = Waiting(queues, Topics) + 1
  <2>. HIDE DEF q
  <2>1. /\ Lens(q) \in [Topics -> Nat] /\ \A u \in Topics : Lens(q)[u] = Len(q[u])
        /\ Waiting(q, Topics) = SumFunctionOnSet(Lens(q), Topics)
    BY <1>3, LensAre
  <2>2. /\ Lens(queues) \in [Topics -> Nat] /\ \A u \in Topics : Lens(queues)[u] = Len(queues[u])
        /\ Waiting(queues, Topics) = SumFunctionOnSet(Lens(queues), Topics)
    BY <1>1, LensAre
  <2>3. /\ Lens(q)[t] = Lens(queues)[t] + 1
        /\ \A u \in Topics \ {t} : Lens(q)[u] = Lens(queues)[u]
    BY <1>3, <2>1, <2>2
  <2>4. SumFunctionOnSet(Lens(q), Topics) = SumFunctionOnSet(Lens(queues), Topics) + 1
    BY <2>1, <2>2, <2>3, TopicsAssumption, OneMore
  <2>. QED  BY <2>1, <2>2, <2>4
<1>5. Lists(ord, q)
  <2>. DEFINE o == order
  <2>1. /\ o \in Seq(Topics) /\ Len(o) \in Nat
        /\ \A i, j \in 1..Len(o) : o[i] = o[j] => i = j
        /\ \A u \in Topics : queues[u] # <<>> <=> \E i \in 1..Len(o) : o[i] = u
    BY DEF Counted, Books, Lists
  <2>2. q[t] # <<>> /\ \A u \in Topics \ {t} : q[u] = queues[u]
    <3>1. q[t] \in Seq(Nat) /\ queues[t] \in Seq(Nat)
      BY <1>1, <1>3
    <3>2. Len(q[t]) # 0
      BY <1>3, <3>1
    <3>. QED  BY <1>3, <3>2
  <2>. HIDE DEF q, o
  <2>3. CASE queues[t] # <<>>
    <3>1. ord = o
      BY <2>3 DEF o
    <3>2. \A u \in Topics : q[u] # <<>> <=> \E i \in 1..Len(o) : o[i] = u
      BY <2>1, <2>2, <2>3
    <3>. HIDE DEF ord
    <3>. QED  BY <2>1, <3>1, <3>2 DEF Lists
  <2>4. CASE queues[t] = <<>>
    <3>1. ord = Append(o, t) /\ \A i \in 1..Len(o) : o[i] # t
      BY <2>1, <2>4 DEF o
    <3>. HIDE DEF ord
    <3>2. /\ ord \in Seq(Topics) /\ Len(ord) = Len(o) + 1 /\ ord[Len(o) + 1] = t
          /\ \A i \in 1..Len(o) : ord[i] = o[i]
      BY <2>1, <3>1
    <3>3. \A i \in 1..Len(ord) : i \in 1..Len(o) \/ i = Len(ord)
      BY <2>1, <3>2
    <3>4. \A i, j \in 1..Len(ord) : ord[i] = ord[j] => i = j
      BY <2>1, <3>1, <3>2, <3>3
    <3>5. \A u \in Topics : q[u] # <<>> <=> \E i \in 1..Len(ord) : ord[i] = u
      <4>. SUFFICES ASSUME NEW u \in Topics
                    PROVE  q[u] # <<>> <=> \E i \in 1..Len(ord) : ord[i] = u
        OBVIOUS
      <4>1. CASE u = t
        <5>1. Len(ord) \in 1..Len(ord) /\ ord[Len(ord)] = t
          BY <2>1, <3>2
        <5>. QED  BY <2>2, <4>1, <5>1
      <4>2. CASE u # t
        <5>1. \A i \in 1..Len(o) : i \in 1..Len(ord)
          BY <2>1, <3>2
        <5>. QED  BY <2>1, <2>2, <3>2, <3>3, <4>2, <5>1
      <4>. QED  BY <4>1, <4>2
    <3>. QED  BY <3>2, <3>4, <3>5 DEF Lists
  <2>. QED  BY <2>3, <2>4
<1>6. Books(ord, q, queued + 1, inflight)
  <2>. HIDE DEF ord, q
  <2>. QED  BY <1>4, <1>5 DEF Counted, Books
<1>7. \/ Flush(ord, q, queued + 1, sending, inflight) /\ flushScheduled' = flushScheduled
      \/ /\ order' = ord /\ queues' = q /\ queued' = queued + 1 /\ flushScheduled' = TRUE
         /\ UNCHANGED <<sending, inflight, flushes>>
  BY DEF Enqueue
<1>. HIDE DEF ord
<1>8. /\ Books(order, queues, queued, inflight)'
      /\ \A u \in Topics : Len(queues'[u]) <= Len(q[u])
      /\ flushes' \in Nat /\ flushes <= flushes'
      /\ flushScheduled' \in BOOLEAN
  <2>. HIDE DEF q
  <2>1. flushScheduled' \in BOOLEAN
    BY <1>7 DEF Counted, Flags
  <2>2. CASE Flush(ord, q, queued + 1, sending, inflight)
    BY <1>1, <1>3, <1>6, <2>1, <2>2, FlushKeepsBooks
  <2>3. CASE /\ order' = ord /\ queues' = q /\ queued' = queued + 1
             /\ UNCHANGED <<sending, inflight, flushes>>
    <3>1. Books(order', queues', queued', inflight')
      BY <1>6, <2>3
    <3>2. Books(order, queues, queued, inflight)'
      BY <3>1 DEF Books, Lists, Waiting
    <3>3. \A u \in Topics : Len(q[u]) \in Nat
      BY <1>3
    <3>. QED  BY <1>1, <2>1, <2>3, <3>2, <3>3
  <2>. QED  BY <1>7, <2>2, <2>3
<1>9. Bounds'
  <2>1. ASSUME NEW u \in Topics PROVE Len(queues'[u]) <= enqueued'[u]
    <3>1. Len(queues[u]) \in Nat /\ enqueued[u] \in Nat /\ Len(queues[u]) <= enqueued[u]
      BY <1>1 DEF Counted, Bounds
    <3>2. Len(q[u]) <= enqueued'[u] /\ Len(q[u]) \in Nat /\ enqueued'[u] \in Nat
      <4>1. CASE u = t
        <5>1. enqueued'[u] = enqueued[u] + 1 /\ Len(q[u]) = Len(queues[u]) + 1
          BY <1>1, <1>2, <1>3, <4>1
        <5>. QED  BY <3>1, <5>1
      <4>2. CASE u # t
        <5>1. enqueued'[u] = enqueued[u] /\ q[u] = queues[u]
          BY <1>1, <1>2, <1>3, <4>2
        <5>. QED  BY <3>1, <5>1
      <4>. QED  BY <4>1, <4>2
    <3>3. Len(queues'[u]) <= Len(q[u])
      BY <1>8
    <3>4. Len(queues'[u]) \in Nat
      <4>1. Inv'
        BY EnqueueKeepsInv
      <4>. QED  BY <4>1 DEF Inv, Types
    <3>. QED  BY <3>2, <3>3, <3>4
  <2>2. SumFunction(enqueued') <= MaxEnqueued
    <3>1. SumFunction(enqueued) < MaxEnqueued
      BY DEF Enqueue
    <3>2. DOMAIN enqueued = Topics /\ DOMAIN enqueued' = Topics /\ enqueued' \in [Topics -> Nat]
      BY <1>1, <1>2
    <3>3. enqueued'[t] = enqueued[t] + 1 /\ \A u \in Topics \ {t} : enqueued'[u] = enqueued[u]
      BY <1>1, <1>2
    <3>4. SumFunctionOnSet(enqueued', Topics) = SumFunctionOnSet(enqueued, Topics) + 1
      BY <1>1, <3>2, <3>3, TopicsAssumption, OneMore
    <3>5. SumFunctionOnSet(enqueued, Topics) \in Nat
      BY <1>1, TopicsAssumption, SumIsNat
    <3>6. /\ SumFunction(enqueued) = SumFunctionOnSet(enqueued, Topics)
          /\ SumFunction(enqueued') = SumFunctionOnSet(enqueued', Topics)
      BY <3>2 DEF SumFunction
    <3>. QED  BY <3>1, <3>4, <3>5, <3>6, BoundsAssumption
  <2>3. SumFunction(enqueued)' = SumFunction(enqueued')
    BY DEF SumFunction, SumFunctionOnSet, FoldFunctionOnSet, MapThenFoldSet
  <2>. QED  BY <2>1, <2>2, <2>3 DEF Bounds
<1>10. Flags'
  <2>1. drain.on \in Nat /\ drain.on <= flushes
    BY DEF Counted, Flags
  <2>. QED  BY <1>1, <1>2, <1>8, <2>1 DEF Counted, Flags
<1>. QED  BY <1>8, <1>9, <1>10 DEF Counted

(* A flush over the batcher's own queues; what changes of drain is a record   *)
(* still, about a send that has been started.                                *)
LEMMA OwnStepKeepsCounted ==
  ASSUME Inv, Counted, NEW busy \in BOOLEAN, NEW fl \in SUBSET inflight, fl # {} => busy,
         Flush(order, queues, queued, busy, fl), enqueued' = enqueued,
         flushScheduled' \in BOOLEAN,
         \/ drain' = drain
         \/ drain' = [phase |-> "draining", on |-> flushes']
  PROVE  Counted'
<1>1. Books(order, queues, queued, inflight)' /\ Bounds' /\ flushes' \in Nat /\ flushes <= flushes'
  BY OwnFlushKeepsCounted
<1>2. flushes \in Nat /\ drain \in [phase : Phases, on : Nat] /\ drain.on <= flushes
  BY DEF Inv, Types, Counted, Flags
<1>3. drain' \in [phase : Phases, on : Nat] /\ drain'.on <= flushes'
  <2>1. CASE drain' = drain
    <3>1. drain.on \in Nat
      BY <1>2
    <3>. QED  BY <1>1, <1>2, <2>1, <3>1
  <2>2. CASE drain' = [phase |-> "draining", on |-> flushes']
    <3>1. drain'.on = flushes' /\ drain'.phase = "draining"
      BY <2>2
    <3>2. flushes' <= flushes'
      BY <1>1
    <3>. QED  BY <1>1, <2>2, <3>1, <3>2 DEF Phases
  <2>. QED  BY <2>1, <2>2
<1>4. Flags'
  BY <1>3 DEF Flags
<1>. QED  BY <1>1, <1>4 DEF Counted

(* A step that leaves the queues alone, and carries no request's new message.*)
LEMMA QuietKeepsCounted ==
  ASSUME Inv, Counted, UNCHANGED <<order, queues, queued, enqueued, flushes, flushScheduled>>,
         \A r \in inflight' : \E s \in inflight : r.msgs = s.msgs,
         drain' \in [phase : Phases, on : Nat], drain'.on <= flushes
  PROVE  Counted'
<1>1. Books(order, queues, queued, inflight)'
  BY DEF Counted, Books, Lists, Waiting
<1>2. Bounds' /\ Flags'
  BY DEF Counted, Bounds, Flags
<1>. QED  BY <1>1, <1>2 DEF Counted

(* The books are kept by every step.                                         *)
LEMMA NextKeepsCounted ==
  ASSUME Inv, Counted, [Next]_vars
  PROVE  Counted'
<1>0. /\ inflight # {} => sending
      /\ sending \in BOOLEAN /\ flushes \in Nat /\ inflight \subseteq Request
      /\ \A r, s \in inflight : r = s
      /\ flushScheduled \in BOOLEAN
      /\ drain \in [phase : Phases, on : Nat] /\ drain.on <= flushes
  BY DEF Inv, OneSend, Types, Counted, Flags
<1>1. ASSUME NEW t \in Topics, Enqueue(t) PROVE Counted'
  BY <1>1, EnqueueKeepsCounted
<1>2. ASSUME NEW t \in Topics, BrokerAppend(t) PROVE Counted'
  <2>1. \A r \in inflight' : \E s \in inflight : r.msgs = s.msgs
    <3>1. PICK s \in inflight : inflight' = (inflight \ {s}) \cup {[s EXCEPT !.appends[t] = @ + 1]}
      BY <1>2 DEF BrokerAppend
    <3>2. s \in Request
      BY <1>0
    <3>3. [s EXCEPT !.appends[t] = @ + 1].msgs = s.msgs
      BY <3>2 DEF Request
    <3>. QED  BY <3>1, <3>3
  <2>2. UNCHANGED <<order, queues, queued, enqueued, flushes, flushScheduled, drain>>
    BY <1>2 DEF BrokerAppend
  <2>. QED  BY <1>0, <2>1, <2>2, QuietKeepsCounted
<1>3. CASE Immediate
  <2>1. /\ Flush(order, queues, queued, sending, inflight) /\ enqueued' = enqueued
        /\ flushScheduled' = FALSE /\ drain' = drain
    BY <1>3 DEF Immediate
  <2>. QED  BY <1>0, <2>1, OwnStepKeepsCounted
<1>4. CASE Settle
  <2>1. PICK r \in inflight : Flush(order, queues, queued, FALSE, inflight \ {r})
    BY <1>4 DEF Settle
  <2>2. inflight \ {r} = {}
    BY <1>0
  <2>3. enqueued' = enqueued /\ flushScheduled' = flushScheduled /\ drain' = drain
    BY <1>4 DEF Settle
  <2>4. Flush(order, queues, queued, FALSE, {})
    BY <2>1, <2>2
  <2>. DEFINE fl == {}  busy == FALSE
  <2>5. busy \in BOOLEAN /\ fl \in SUBSET inflight /\ (fl # {} => busy)
    OBVIOUS
  <2>6. Flush(order, queues, queued, busy, fl)
    BY <2>4
  <2>. HIDE DEF fl, busy
  <2>. QED  BY <1>0, <2>3, <2>5, <2>6, OwnStepKeepsCounted
<1>5. CASE Shutdown
  <2>1. enqueued' = enqueued /\ flushScheduled' = flushScheduled
    BY <1>5 DEF Shutdown
  <2>2. CASE /\ Flush(order, queues, queued, sending, inflight)
             /\ drain' = [phase |-> "draining", on |-> flushes']
    BY <1>0, <2>1, <2>2, OwnStepKeepsCounted
  <2>3. CASE drain' = [phase |-> "drained", on |-> flushes] /\ UNCHANGED batcherVars
    <3>1. drain' \in [phase : Phases, on : Nat] /\ drain'.on = flushes
      BY <1>0, <2>3 DEF Phases
    <3>2. drain'.on <= flushes
      BY <1>0, <3>1
    <3>. QED  BY <2>1, <2>3, <3>1, <3>2, QuietKeepsCounted DEF batcherVars
  <2>. QED  BY <1>5, <2>2, <2>3 DEF Shutdown
<1>6. CASE DrainStep
  <2>1. UNCHANGED <<batcherVars, flushScheduled, enqueued>>
    BY <1>6 DEF DrainStep
  <2>2. drain' = [drain EXCEPT !.on = flushes] \/ drain' = [drain EXCEPT !.phase = "drained"]
    BY <1>6 DEF DrainStep
  <2>3. drain' \in [phase : Phases, on : Nat] /\ drain'.on \in {flushes, drain.on}
    BY <1>0, <2>2 DEF Phases
  <2>4. drain'.on <= flushes
    BY <1>0, <2>3
  <2>. QED  BY <2>1, <2>3, <2>4, QuietKeepsCounted DEF batcherVars
<1>7. CASE Exit
  <2>1. UNCHANGED <<batcherVars, flushScheduled, enqueued>> /\ drain' = [drain EXCEPT !.phase = "exited"]
    BY <1>7 DEF Exit
  <2>2. drain' \in [phase : Phases, on : Nat] /\ drain'.on = drain.on
    BY <1>0, <2>1 DEF Phases
  <2>. QED  BY <1>0, <2>1, <2>2, QuietKeepsCounted DEF batcherVars
<1>8. CASE UNCHANGED vars
  BY <1>0, <1>8, QuietKeepsCounted DEF vars, batcherVars
<1>. QED  BY <1>1, <1>2, <1>3, <1>4, <1>5, <1>6, <1>7, <1>8 DEF Next

LEMMA InitGivesCounted ==
  ASSUME Init
  PROVE  Counted
<1>1. \A t \in Topics : queues[t] = <<>> /\ Len(queues[t]) = 0 /\ enqueued[t] = 0
  BY DEF Init
<1>2. Lists(order, queues)
  <2>1. order = <<>> /\ order \in Seq(Topics) /\ Len(order) = 0
    BY DEF Init
  <2>. QED  BY <1>1, <2>1 DEF Lists
<1>3. queued = Waiting(queues, Topics)
  <2>1. \A t \in Topics \ {} : Lens(queues)[t] = 0
    BY <1>1 DEF Lens
  <2>2. SumFunctionOnSet(Lens(queues), Topics) = SumFunctionOnSet(Lens(queues), {})
    BY <2>1, TopicsAssumption, SumSkipsZeros
  <2>3. SumFunctionOnSet(Lens(queues), {}) = 0
    BY SumOfNone
  <2>. QED  BY <2>2, <2>3 DEF Init, Waiting, Lens
<1>4. Bounds
  <2>1. \A t \in Topics \ {} : enqueued[t] = 0
    BY <1>1
  <2>2. SumFunctionOnSet(enqueued, Topics) = SumFunctionOnSet(enqueued, {})
    BY <2>1, TopicsAssumption, SumSkipsZeros
  <2>3. DOMAIN enqueued = Topics
    BY DEF Init
  <2>4. SumFunction(enqueued) = 0
    BY <2>2, <2>3, SumOfNone DEF SumFunction
  <2>5. 0 <= MaxEnqueued /\ 0 <= 0
    BY BoundsAssumption
  <2>6. \A t \in Topics : Len(queues[t]) <= enqueued[t]
    BY <1>1, <2>5
  <2>. QED  BY <2>4, <2>5, <2>6 DEF Bounds
<1>5. Flags
  <2>1. drain = [phase |-> "running", on |-> 0] /\ flushes = 0 /\ flushScheduled = FALSE
    BY DEF Init
  <2>2. drain \in [phase : Phases, on : Nat] /\ drain.on = 0
    BY <2>1 DEF Phases
  <2>3. 0 <= 0
    OBVIOUS
  <2>. QED  BY <2>1, <2>2, <2>3 DEF Flags
<1>6. inflight = {}
  BY DEF Init
<1>. QED  BY <1>2, <1>3, <1>4, <1>5, <1>6 DEF Counted, Books

LEMMA CountedGivesTypeOK ==
  ASSUME Inv, Counted
  PROVE  TypeOK
<1>0. /\ queues \in [Topics -> Seq(Nat)] /\ enqueued \in [Topics -> Nat]
      /\ sending \in BOOLEAN /\ MaxEnqueued \in Nat
  BY BoundsAssumption DEF Inv, Types
<1>1. ASSUME NEW t \in Topics, NEW i \in 1..Len(queues[t])
      PROVE  queues[t][i] \in Message
  <2>1. /\ Len(queues[t]) \in Nat /\ enqueued[t] \in Nat /\ Len(queues[t]) <= enqueued[t]
        /\ queues[t][i] = (enqueued[t] - Len(queues[t])) + i
    BY <1>0 DEF Counted, Bounds, Inv, NothingSkipped, Sent
  <2>2. enqueued[t] <= SumFunctionOnSet(enqueued, Topics)
    BY <1>0, TopicsAssumption, SumCoversTerm
  <2>3. SumFunctionOnSet(enqueued, Topics) <= MaxEnqueued
    <3>1. DOMAIN enqueued = Topics
      BY <1>0
    <3>. QED  BY <3>1 DEF Counted, Bounds, SumFunction
  <2>4. SumFunctionOnSet(enqueued, Topics) \in Nat
    BY <1>0, TopicsAssumption, SumIsNat
  <2>. DEFINE n == enqueued[t]  l == Len(queues[t])  s == SumFunctionOnSet(enqueued, Topics)
  <2>. HIDE DEF n, l, s
  <2>5. queues[t][i] = (n - l) + i /\ n \in Nat /\ l \in Nat /\ l <= n /\ n <= s
        /\ s <= MaxEnqueued /\ s \in Nat /\ i \in 1..l
    BY <2>1, <2>2, <2>3, <2>4 DEF n, l, s
  <2>6. (n - l) + i \in 1..MaxEnqueued
    BY <1>0, <2>5
  <2>. QED  BY <2>5, <2>6 DEF Message
<1>2. /\ Keys = {t \in Topics : queues[t] # <<>>}
      /\ \A i, j \in DOMAIN order : order[i] = order[j] => i = j
  <2>1. /\ order \in Seq(Topics)
        /\ \A t \in Topics : queues[t] # <<>> <=> \E i \in 1..Len(order) : order[i] = t
        /\ \A i, j \in 1..Len(order) : order[i] = order[j] => i = j
    BY DEF Counted, Books, Lists
  <2>2. DOMAIN order = 1..Len(order) /\ \A i \in 1..Len(order) : order[i] \in Topics
    BY <2>1
  <2>. QED  BY <2>1, <2>2 DEF Keys
<1>3. queued = Waiting(queues, Topics) /\ \A r \in inflight : Waiting(r.msgs, Topics) <= MaxQueued
  BY DEF Counted, Books
<1>4. flushScheduled \in BOOLEAN /\ drain.phase \in Phases /\ drain.on \in 0..flushes
  <2>1. /\ flushScheduled \in BOOLEAN /\ drain \in [phase : Phases, on : Nat] /\ drain.on <= flushes
        /\ flushes \in Nat
    BY DEF Counted, Flags, Inv, Types
  <2>2. drain.phase \in Phases /\ drain.on \in Nat
    BY <2>1
  <2>. QED  BY <2>1, <2>2
<1>. QED  BY <1>0, <1>1, <1>2, <1>3, <1>4 DEF TypeOK, Phases

(* INV-4 and the books of the batcher, for any number of topics, any cap: no *)
(* request carries more than maxQueued messages, this.queued is exact, and    *)
(* the Map's keys are the topics that have messages, each once.              *)
THEOREM BooksBalance == Spec => []TypeOK
<1>1. Init => Inv /\ Counted
  BY InitGivesInv, InitGivesCounted
<1>2. (Inv /\ Counted) /\ [Next]_vars => (Inv /\ Counted)'
  BY NextKeepsInv, NextKeepsCounted
<1>3. Inv /\ Counted => TypeOK
  BY CountedGivesTypeOK
<1>. QED  BY <1>1, <1>2, <1>3, PTL DEF Spec
=============================================================================
