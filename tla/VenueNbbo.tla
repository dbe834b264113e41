----------------------------- MODULE VenueNbbo -----------------------------
(***************************************************************************)
(* The gateway's consumer (server.ts, eachMessage) from venue BBOs and status *)
(* heartbeats to the NBBO: the stream clock, eviction of silent venues, and  *)
(* the warm-start gate (warmstart.ts, DrainGate) that holds the output until *)
(* every backlogged book partition has been replayed.                        *)
(*                                                                           *)
(* Each message is handled in one step: eachMessage awaits nothing after it  *)
(* has begun to handle one.  It may be suspended in front of that (its yield *)
(* to the event loop), and then the seeks and the arming of the gate come in *)
(* between: the message is a straggler from the committed edge.              *)
(*                                                                           *)
(* Messages of different topics come in any order, with any event times.     *)
(* What the Aggregator makes of a book message (GatewayBook) is here a BBO   *)
(* or none.  An offset is relative to its partition's drain target, the last *)
(* message of the startup backlog: it is 0 there, and 1 anywhere past it.    *)
(***************************************************************************)
EXTENDS NbboAggregator, FiniteSets

CONSTANTS
  Venues,            \* exchanges with a leg and a status topic
  Legs,              \* BBOs a venue may quote, [bid, ask] of Quote
  Partitions,        \* book partitions
  VenueOf,           \* VenueOf[p]: the exchange of a partition
  LIVENESS_TIMEOUT,  \* NBBO_LIVENESS_TIMEOUT_MS
  Times,             \* bound: event times
  MaxBacklog,        \* bound: messages of a backlog before its last one
  StragglerFrom,     \* least offset of a straggler: 1 past the target, 0 at it
  Undecodable        \* offsets at which decodeMsg may throw

ASSUME VenuesAssumption == Venues \subseteq Nat /\ IsFiniteSet(Venues)
ASSUME LegsAssumption == Legs \subseteq [bid : Quote, ask : Quote]
ASSUME PartitionsAssumption == VenueOf \in [Partitions -> Venues]
ASSUME TimesAssumption == Times \subseteq Nat /\ LIVENESS_TIMEOUT \in Nat
ASSUME GateAssumption ==
  MaxBacklog \in Nat /\ StragglerFrom \in 0..1 /\ Undecodable \subseteq Int \ {0}

VARIABLES
  nb,         \* nbboAgg, and what emitNbbo let through
  clock,      \* streamNowMs
  lastSeen,   \* the Map lastSeenMs
  said,       \* history: the state in a venue's last heartbeat, "up" or "down"
  revived,    \* history: {v} when the last message was v's heartbeat "up"
  armed,      \* `gate` has been set
  pending,    \* the gate's keys: partitions not drained yet
  engaged,    \* those of them that have met their backlog
  pos,        \* pos[p]: the next offset of p
  straggler   \* {} or {[part, off]}, the message suspended in front of the seeks

gateVars == <<armed, pending, engaged, pos, straggler>>
nbboVars == <<nb, clock, lastSeen, said, revived, gateVars>>

Offsets == (-MaxBacklog)..1

NbboInit ==
  /\ nb = NewAggregator /\ clock = 0 /\ lastSeen = <<>>
  /\ said = <<>> /\ revived = {}
  /\ armed = FALSE /\ pending = {} /\ engaged = {} /\ straggler = {}
  /\ pos = [p \in Partitions |-> 1]

\* gate?.warming
Held == pending # {}

Silent(seen, now) == {v \in DOMAIN seen : now - seen[v] > LIVENESS_TIMEOUT}

\* A faulty clock: that of the message at hand.
AdvancedToMessage(ts) == ts

\* streamNowMs = max(streamNowMs, event time)
Advanced(ts) == IF ts > clock THEN ts ELSE clock

\* A faulty order: eviction against the clock of the message before.
EvictedBeforeAdvance(ts) == EvictAll(nb, Silent(lastSeen, clock), Held)

\* evictSilentVenues() after the clock has moved to ts.
Evicted(ts) == EvictAll(nb, Silent(lastSeen, Advanced(ts)), Held)

----------------------------------------------------------------------------
\* DrainGate.observe

\* A faulty gate that takes any offset past the target for a replay.
UnguardedEngagedBy(p, off) == engaged \cup {p}

\* A faulty boundary: the target itself does not count.
EngagedBeforeTarget(p, off) == IF off < 0 THEN engaged \cup {p} ELSE engaged

EngagedBy(p, off) == IF off <= 0 THEN engaged \cup {p} ELSE engaged

Drains(p, off) == p \in pending /\ p \in EngagedBy(p, off) /\ off >= 0

Observe(p, off) ==
  /\ pending' = IF Drains(p, off) THEN pending \ {p} ELSE pending
  /\ engaged' = EngagedBy(p, off) \cap pending'

Opens(p, off) == Drains(p, off) /\ pending = {p}

----------------------------------------------------------------------------
\* eachMessage

\* A book message at offset off of p; bbo is {} or {what it made of the book}.
HandleBook(p, off, bbo, ts) ==
  /\ clock' = Advanced(ts)
  /\ \E evicted \in Evicted(ts) :
       LET routed == IF bbo = {} THEN evicted
                     ELSE OnBBO(evicted, VenueOf[p], CHOOSE leg \in bbo : TRUE, Held)
       IN  nb' = IF Opens(p, off) THEN Flushed(routed) ELSE routed
  /\ Observe(p, off)
  /\ revived' = {}
  /\ UNCHANGED <<lastSeen, said, armed>>

BboOrNone == {{}} \cup {{leg} : leg \in Legs}

Past(off) == IF off = 1 THEN 1 ELSE off + 1

Consume(p) ==
  /\ straggler = {}
  /\ \E bbo \in BboOrNone, ts \in Times : HandleBook(p, pos[p], bbo, ts)
  /\ pos' = [pos EXCEPT ![p] = Past(@)]
  /\ UNCHANGED straggler

\* The suspended message goes on; its partition's position is the seek's.
Straggle ==
  /\ \E s \in straggler, bbo \in BboOrNone, ts \in Times : HandleBook(s.part, s.off, bbo, ts)
  /\ straggler' = {}
  /\ UNCHANGED pos

\* decodeMsg throws: the message is skipped, and the gate does not see it.
Skip(p) ==
  /\ straggler = {} /\ pos[p] \in Undecodable
  /\ pos' = [pos EXCEPT ![p] = Past(@)]
  /\ UNCHANGED <<nb, clock, lastSeen, said, revived, armed, pending, engaged, straggler>>

\* A trade: the clock moves, and venues are evicted.
Trade(ts) ==
  /\ straggler = {}
  /\ clock' = Advanced(ts) /\ nb' \in Evicted(ts) /\ revived' = {}
  /\ UNCHANGED <<lastSeen, said, gateVars>>

\* handleStatus.  The event time is the heartbeat's own.
Status(v, state, ts) ==
  /\ straggler = {}
  /\ clock' = Advanced(ts)
  /\ \E evicted \in Evicted(ts) : nb' = SetVenueDown(evicted, v, state # "up", Held)
  /\ lastSeen' = Stored(lastSeen, v, ts)
  /\ said' = Stored(said, v, state)
  /\ revived' = IF state = "up" THEN {v} ELSE {}
  /\ UNCHANGED gateVars

\* A straggler where its partition is sought to is a message like any other.
Stragglers(plan) ==
  {s \in [part : Partitions, off : StragglerFrom..1] : s.off > plan[s.part]}

\* planWarmStart's answer: each partition sought to somewhere in its backlog,
\* or to the live edge, and the gate armed with the backlogs.
Arm ==
  /\ ~armed /\ armed' = TRUE
  /\ \E plan \in [Partitions -> Offsets] :
       /\ pos' = plan
       /\ pending' = {p \in Partitions : plan[p] <= 0}
       /\ straggler' \in {{}} \cup {{s} : s \in Stragglers(plan)}
  /\ engaged' = {}
  /\ UNCHANGED <<nb, clock, lastSeen, said, revived>>

NbboNext ==
  \/ \E p \in Partitions : Consume(p) \/ Skip(p)
  \/ Straggle
  \/ \E ts \in Times : Trade(ts)
  \/ \E v \in Venues, state \in {"up", "down"}, ts \in Times : Status(v, state, ts)
  \/ Arm

\* The backlog is there to be fetched, and a suspended handler goes on.
NbboFairness ==
  /\ WF_nbboVars(\E p \in Partitions : pos[p] <= 0 /\ Consume(p))
  /\ WF_nbboVars(Straggle)

NbboSpec == NbboInit /\ [][NbboNext]_nbboVars
NbboFairSpec == NbboSpec /\ NbboFairness

----------------------------------------------------------------------------
\* Properties

Messages ==
  [bid : Quote, bidVenue : Venues, ask : Quote, askVenue : Venues, constituents : SUBSET Venues]

Aggregators ==
  [legs : UNION {[S -> Legs] : S \in SUBSET Venues}, down : SUBSET Venues,
   lastTuple : SUBSET [bid : Quote, ask : Quote], published : SUBSET Messages]

(* Types, and what they rest on: streamNowMs is the maximum of the event     *)
(* times, so no venue was seen after it; the gate's keys that are engaged    *)
(* are pending, and before it is armed there are none.                       *)
NbboTypeOK ==
  /\ nb \in Aggregators
  /\ clock \in Nat
  /\ DOMAIN lastSeen \subseteq Venues
  /\ lastSeen \in [DOMAIN lastSeen -> 0..clock]
  /\ said \in [DOMAIN lastSeen -> {"up", "down"}]
  /\ revived \subseteq DOMAIN lastSeen
  /\ armed \in BOOLEAN /\ (pending # {} => armed)
  /\ engaged \subseteq pending /\ pending \subseteq Partitions
  /\ pos \in [Partitions -> Offsets]
  /\ straggler \subseteq [part : Partitions, off : StragglerFrom..1]

(* server.ts: eviction is decided in log time, "so a replayed log reproduces *)
(* the same evictions".  Whatever order the topics were consumed in, the     *)
(* venues that are out are those whose last heartbeat says down or is older  *)
(* than the clock allows, but for one whose own late "up" has just been      *)
(* handled: it stays in until the next message.                              *)
DownIsWhatTheLogSays ==
  \A v \in Venues :
    v \in nb.down <=> /\ v \in DOMAIN said
                      /\ \/ said[v] = "down"
                         \/ v \in Silent(lastSeen, clock) \ revived

\* v is a live venue that quotes q on the side, and none quotes better.
BestBid(q) == /\ \E v \in Live(nb) : nb.legs[v].bid = q
              /\ \A v \in Live(nb) : ~BeatsBid(nb.legs[v].bid, q)
BestAsk(q) == /\ \E v \in Live(nb) : nb.legs[v].ask = q
              /\ \A v \in Live(nb) : ~BeatsAsk(nb.legs[v].ask, q)

(* nbbo.ts, onBBO's gate and setVenueDown together: as long as a venue is    *)
(* live and the output is not held, the NBBO that was published last is the  *)
(* best bid and the best ask of the live venues, and names no venue that is  *)
(* out.                                                                      *)
PublishedIsTheBest ==
  (~Held /\ Live(nb) # {}) =>
    \E msg \in nb.published :
      /\ BestBid(msg.bid) /\ BestAsk(msg.ask)
      /\ (msg.constituents \cup {msg.bidVenue, msg.askVenue}) \subseteq Live(nb)

(* warmstart.ts, DrainGate: once the gate is armed, nothing is published     *)
(* before every backlogged book partition has been replayed to the end it    *)
(* had at the start.                                                         *)
Publishes == nb'.published # nb.published
OnlyRebuiltBooksSpeak ==
  [][(armed /\ Publishes) => \A p \in Partitions : pos'[p] = 1]_nbboVars

(* DrainGate opens.  The backlog's last message must decode: the gate sees   *)
(* no other, and would wait for a target it has passed.                      *)
GateOpens == armed ~> ~Held
=============================================================================
