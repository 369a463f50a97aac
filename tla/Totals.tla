------------------------------- MODULE Totals -------------------------------
(***************************************************************************)
(* Sums over a finite set, counted unit by unit: an index with quantity 3  *)
(* contributes the three units <<i, 1>>, <<i, 2>>, <<i, 3>>, the way the   *)
(* raffle lists a buyer once per ticket (Enumerable.Repeat).  A sum is a   *)
(* cardinality, so that its laws follow from those of finite sets.         *)
(***************************************************************************)
EXTENDS Integers, FiniteSets

\* The units of a family w of quantities; one that is not positive has none.
Units(w) == UNION {{i} \X (1..w[i]) : i \in DOMAIN w}

\* The sum of the family: what it counts, less what its negative members owe.
Total(w) == Cardinality(Units(w)) - Cardinality(Units([i \in DOMAIN w |-> -w[i]]))

=============================================================================
