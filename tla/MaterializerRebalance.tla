------------------------ MODULE MaterializerRebalance ------------------------
(***************************************************************************)
(* The materializer when its group rebalances under it.  The listener runs   *)
(* in the consumer's coordinator task while the poll loop is suspended, and  *)
(* it drops the buffers; the batch poll_once still iterates over, and a      *)
(* chunk whose PUT or commit is under way, it does not touch.  Then the      *)
(* partitions are assigned again, from their committed offsets.              *)
(***************************************************************************)
EXTENDS Materializer

CONSTANT MaxRebalances  \* bound: rebalances

VARIABLE rebalances  \* how much of MaxRebalances is used

rebalanceVars == <<vars, rebalances>>

RebalanceInit == Init /\ rebalances = 0

\* The poll loop awaits getmany or the PUT (a rebalance while the commit itself
\* is under way is left to the consumer library, which may refuse the commit).
Suspended == pc \in {"poll", "put"}

\* on_partitions_revoked; the same member is assigned the partitions again.
OnPartitionsRevoked ==
  /\ Suspended /\ rebalances < MaxRebalances
  /\ rebalances' = rebalances + 1
  /\ buffers' = Nothing /\ position' = committed
  /\ UNCHANGED <<date, committed, lake, pc, stopping, batch, cur, todo, flush, crashes>>

\* The buffer of a listed partition is gone: pop raises, the process dies.
FlushOfDropped ==
  /\ pc = "flush" /\ \E tp \in todo : buffers[tp] = <<>>
  /\ committed' = committed /\ FreshTask
  /\ UNCHANGED <<date, lake, crashes, rebalances>>

RebalanceNext == (Next /\ UNCHANGED rebalances) \/ OnPartitionsRevoked \/ FlushOfDropped

RebalanceSpec == RebalanceInit /\ [][RebalanceNext]_rebalanceVars
=============================================================================
