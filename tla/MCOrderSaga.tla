---------------------------- MODULE MCOrderSaga ----------------------------
(* Instances of OrderSaga for TLC: one order o1. *)
EXTENDS OrderSaga, TLC

CONSTANTS o1, g1, g2, c1, c2

\* Orders ask for the first gift, or the first two.
MCItemsOf == [o \in Orders |-> {g1}]
MCBothGifts == [o \in Orders |-> {g1, g2}]

\* The replicas of CatalogService run the same code.
Replicas == Permutations(Catalogs)

=============================================================================
