---------------------------- MODULE MCInBandSync ----------------------------
(* Two bids and two asks, of which the inner ones cross.                     *)
EXTENDS InBandSync

MCLevel == {[side |-> "bid", px |-> 1], [side |-> "bid", px |-> 2],
            [side |-> "ask", px |-> 2], [side |-> "ask", px |-> 3]}
=============================================================================
