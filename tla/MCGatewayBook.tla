--------------------------- MODULE MCGatewayBook ---------------------------
EXTENDS GatewayBook

Side1(p) == [q \in Prices |-> IF q = p THEN 1 ELSE NoSize]

\* A book with one level on each side, the widest the grid allows.
WideBook == {[bids |-> Side1(1), asks |-> Side1(3)]}

\* An ask next to the bid: deleting it and bidding through it needs two deltas,
\* and losing the first of them crosses the gateway's book.
NarrowBook == {[bids |-> Side1(1), asks |-> Side1(2)]}
=============================================================================
