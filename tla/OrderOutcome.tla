---------------------------- MODULE OrderOutcome ----------------------------
(***************************************************************************)
(* What the checkout saga promises about one order, without queues,        *)
(* deliveries, retries or processes: the row follows decisions, an         *)
(* announcement reports the row, a mail follows an announcement.  OrderSaga *)
(* implements this module (OrderSaga!ImplementsOutcome).                   *)
(*                                                                         *)
(* Delivery is at least once, so a decision may be taken, applied and      *)
(* announced again, and a second decision may contradict the first; which  *)
(* of two contradicting decisions the row and the customer end with is     *)
(* left open, because the code leaves it open.                             *)
(***************************************************************************)

CONSTANT Orders

VARIABLES
  row,        \* the order's row: "absent", "draft" or "final"
  manual,     \* orders somebody confirmed by hand
  decided,    \* the catalog's decisions: pairs of an order and its verdict
  announced,  \* the verdicts announced to the customer
  mailed      \* orders whose customer was mailed, or a mail refused

outcomeVars == <<row, manual, decided, announced, mailed>>

\* The row a verdict leaves behind.
RowFor(ok) == IF ok THEN "final" ELSE "draft"

\* What is known of an order contradicts the verdict: somebody overruled it by
\* hand, or the catalog decided both ways.
Overruled(o, ok) == o \in manual \/ <<o, ~ok>> \in decided

Init ==
  /\ row = [o \in Orders |-> "absent"]
  /\ manual = {} /\ decided = {} /\ announced = {} /\ mailed = {}

\* The client places the order, as a draft or not.
Place(o) ==
  /\ row[o] = "absent"
  /\ \E draft \in BOOLEAN : row' = [row EXCEPT ![o] = RowFor(~draft)]
  /\ UNCHANGED <<manual, decided, announced, mailed>>

ConfirmByHand(o) ==
  /\ row[o] # "absent"
  /\ row' = [row EXCEPT ![o] = "final"]
  /\ manual' = manual \cup {o}
  /\ UNCHANGED <<decided, announced, mailed>>

\* The catalog decides about a placed order.
Decide(o, ok) ==
  /\ row[o] # "absent"
  /\ decided' = decided \cup {<<o, ok>>}
  /\ UNCHANGED <<row, manual, announced, mailed>>

\* The order follows a decision.
Apply(o, ok) ==
  /\ <<o, ok>> \in decided
  /\ row' = [row EXCEPT ![o] = RowFor(ok)]
  /\ UNCHANGED <<manual, decided, announced, mailed>>

\* The customer is told a decision the row already follows.
Announce(o, ok) ==
  /\ <<o, ok>> \in decided
  /\ row[o] = RowFor(ok) \/ Overruled(o, ok)
  /\ announced' = announced \cup {<<o, ok>>}
  /\ UNCHANGED <<row, manual, decided, mailed>>

Mail(o) ==
  /\ \E ok \in BOOLEAN : <<o, ok>> \in announced
  /\ mailed' = mailed \cup {o}
  /\ UNCHANGED <<row, manual, decided, announced>>

Next == \E o \in Orders :
  \/ Place(o)
  \/ ConfirmByHand(o)
  \/ \E ok \in BOOLEAN : Decide(o, ok) \/ Apply(o, ok) \/ Announce(o, ok)
  \/ Mail(o)

Spec == Init /\ [][Next]_outcomeVars

=============================================================================
