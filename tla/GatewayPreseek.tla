--------------------------- MODULE GatewayPreseek ---------------------------
(***************************************************************************)
(* A restarted gateway between consumer.run() and its warm-start seeks       *)
(* (server.ts): the group's committed offsets are where it resumes, and what *)
(* it consumes from there before planWarmStart's answer is in goes into the  *)
(* Aggregator like everything else.                                          *)
(***************************************************************************)
EXTENDS GatewayBook
LOCAL INSTANCE Integers

VARIABLE startup   \* "down", "prefix" (running, not sought yet), "sought"

preseekVars == <<vars, startup>>

PreseekInit == Init /\ startup = "down"

\* consumer.run(): the committed offsets, wherever the last process left them.
Run ==
  /\ startup = "down" /\ startup' = "prefix"
  /\ si' \in 0..Len(snapLog) /\ di' \in 0..Len(deltaLog)
  /\ UNCHANGED <<hist, snapLog, deltaLog, lost, agg>>

\* The seeks land; what the prefix left in the Aggregator stays there.
Seek ==
  /\ startup = "prefix" /\ startup' = "sought"
  /\ snapLog # <<>>
  /\ si' = Len(snapLog) - 1
  /\ di' \in 0..Len(deltaLog)
  /\ \A i \in 1..di' : ~After(deltaLog[i], snapLog[Len(snapLog)])
  /\ UNCHANGED <<hist, snapLog, deltaLog, lost, agg>>

Consume == ConsumeSnapshot \/ ConsumeDelta

PreseekNext ==
  \/ Run \/ Seek
  \/ startup' = startup /\ (Connect \/ PublishDelta \/ PublishSnapshot)
  \/ startup' = startup /\ startup # "down" /\ Consume

PreseekSpec == PreseekInit /\ [][PreseekNext]_preseekVars

(* server.ts, before the seeks: "the aggregator's order-insensitivity makes  *)
(* that prefix harmless".  Sought, and read to the end, the book is the      *)
(* producer's latest.                                                        *)
PrefixIsHarmless ==
  (/\ startup = "sought" /\ lost = {}
   /\ si = Len(snapLog) /\ di = Len(deltaLog))
  => Levels(agg.book) = Levels(Current)
=============================================================================
