--------------------------- MODULE MCTicketStore ---------------------------
(* Small instances of TicketStore for TLC.                                 *)
EXTENDS TicketStore, TLC

CONSTANTS ring, bike, ann, bob, b1, b2, d1, d2, h1, e1, x1

MCUserOf == [b \in Buyers |-> IF b = b1 THEN ann ELSE bob]
MCPicked == [h \in HandPicks |-> ann]

\* Every request about the ring.
MCTarget == [r \in Requests |-> ring]

\* Both want the only bike; who has the ring reserved by then fails late.
MCBasket ==
  [b \in Buyers |-> (IF b = b1 THEN <<[gift |-> ring, qty |-> 2]>> ELSE <<>>)
                    \o <<[gift |-> bike, qty |-> 1]>>]
MCStock == [g \in Gifts |-> IF g = ring THEN 3 ELSE 1]

\* One ticket of the ring each.
MCRingBasket == [b \in Buyers |-> <<[gift |-> ring, qty |-> 1]>>]

\* Each buyer wants another gift; the draws are for different gifts too.
MCApartBasket == [b \in Buyers |-> <<[gift |-> IF b = b1 THEN ring ELSE bike, qty |-> 1]>>]
MCApartTarget == [r \in Requests |-> IF r = d2 THEN bike ELSE ring]

\* Enough for everybody.
MCPlenty == [g \in Gifts |-> 2]
MCQuantities == {0}
MCSigned == {-1, 1}
=============================================================================
