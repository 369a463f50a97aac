------------------------- MODULE MCBffAggregation -------------------------
(* Small instances of BffAggregation for TLC: a tick is half a second. *)
EXTENDS BffAggregation

CONSTANTS ring, bike

MCRing == [gift |-> ring, qty |-> 1]
MCBike == [gift |-> bike, qty |-> 3]

\* Two lines are three calls, of which two may take all their time.
MCRows == {NoOrder, <<MCRing>>, <<MCRing, MCBike>>}
=============================================================================
