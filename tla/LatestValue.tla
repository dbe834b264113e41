---------------------------- MODULE LatestValue ----------------------------
(***************************************************************************)
(* What the reader of a compacted output topic relies on: the value it finds *)
(* last never goes back to an older one.  Values are numbered per topic in   *)
(* the order they were derived; 0 is an empty topic.                         *)
(***************************************************************************)
EXTENDS Naturals

CONSTANT Topics

VARIABLE latest   \* latest[t]: the value a reader of topic t finds last

Init == latest = [t \in Topics |-> 0]

Publish == /\ latest' \in [Topics -> Nat]
           /\ \A t \in Topics : latest[t] <= latest'[t]

Spec == Init /\ [][Publish]_latest
=============================================================================
