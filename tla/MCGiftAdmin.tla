---------------------------- MODULE MCGiftAdmin ----------------------------
(* Instance of GiftAdmin for TLC: two managers run the same code. *)
EXTENDS GiftAdmin, TLC

CONSTANTS m1, m2

Colleagues == Permutations(Managers)

=============================================================================
