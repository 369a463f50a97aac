--------------------------- MODULE MCCatalogStore ---------------------------
(* A small instance of CatalogStore for TLC.                               *)
EXTENDS CatalogStore

CONSTANTS toys, home, g1, g2, c1, u1, x1

\* g1 and g2 want the same new category and the same new donor; c1 adds another
\* category.
MCWanted == [r \in Adds |-> [c \in Collections |-> IF r = c1 THEN home ELSE toys]]

\* One gift is updated and deleted.
MCPlace == [r \in PlainAdds \cup Changes |-> IF r \in PlainAdds THEN "categories" ELSE "gifts"]
MCTarget  == [r \in Changes |-> 1]
MCNewName == [r \in Updates |-> home]
=============================================================================
