-------------------------- MODULE MCGatewayPreseek --------------------------
EXTENDS GatewayPreseek

Side1(p) == [q \in Prices |-> IF q = p THEN 1 ELSE NoSize]

OneBook == {[bids |-> Side1(1), asks |-> Side1(3)]}
=============================================================================
