--------------------------- MODULE MCOrderRaffle ---------------------------
(* The instance of OrderRaffle for TLC: ann's order for g1 and g2.           *)
EXTENDS MCOrderSaga, OrderRaffle

CONSTANTS g3, ann, bob, d1, h1

MCOwner  == [o \in Orders |-> ann]
MCPicked == [h \in HandPicks |-> bob]

\* Whoever bought g1 and g2 adds g3 later, and that is the gift which is raffled.
MCTarget   == [r \in Requests |-> g3]
MCAddition == {<<o1, g3>>}

=============================================================================
