--------------------------- MODULE MCRegistration ---------------------------
(* Instances of Registration for TLC: r1 and r2 are two people with one address  *)
(* in the same spelling, r3 spells it otherwise, r4 is r1's retry, r5 another    *)
(* address with a role that cannot be parsed, r6 a malformed request; r2 has     *)
(* chosen a password too long for a login.                                       *)
EXTENDS Registration

CONSTANTS r1, r2, r3, r4, r5, r6, low, mixed, other, p1, p2, p3

MCSpelling == [r \in Requests |-> IF r = r3 THEN mixed ELSE IF r = r5 THEN other ELSE low]
MCAddress  == [r \in Requests |-> IF r = r5 THEN other ELSE low]
MCPassword == [r \in Requests |-> IF r \in {r1, r4} THEN p1 ELSE IF r = r2 THEN p2 ELSE p3]

=============================================================================
