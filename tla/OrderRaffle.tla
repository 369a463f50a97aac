---------------------------- MODULE OrderRaffle ----------------------------
(***************************************************************************)
(* OrderService's raffle over the order rows that the saga of OrderSaga    *)
(* changes meanwhile: RaffleService.RunRaffleAsync (POST run/{giftId}) and *)
(* WinnerController.CreateWinner (POST winner); and the item added to an   *)
(* order (POST {orderId}/add-item), which neither the saga nor the catalog *)
(* hears of.  The check for a winner, the query of the pool and the insert *)
(* are three calls without a transaction.  The notice to the winner is     *)
(* sent after the answer, and its failure is swallowed: it is left out.    *)
(***************************************************************************)
EXTENDS OrderSaga

CONSTANTS
  Users,      \* who buys
  Owner,      \* the UserId of each order
  Draws,      \* bound: requests to run the raffle
  HandPicks,  \* bound: requests to enter a winner
  Target,     \* the gift each of them is about
  Picked,     \* the user each hand pick names
  Additions   \* bound: requests to add an item, <<order, gift>>

ASSUME RaffleAssumption ==
  /\ Users # {} /\ Owner \in [Orders -> Users]
  /\ Draws \cap HandPicks = {}
  /\ Target \in [Draws \cup HandPicks -> Gifts]
  /\ Picked \in [HandPicks -> Users]
  /\ Additions \subseteq Orders \X Gifts

VARIABLES
  winners,  \* OrderService's Winners: [by, gift, user], by being the request
  at,       \* where each request stands
  chosen,   \* the user it is about to record
  told,     \* history: the orders announced as Rejected when each draw began
  added     \* order lines that were not in the basket, <<order, gift>>

raffleVars == <<winners, at, chosen, told, added>>
allVars == <<vars, raffleVars>>

Requests == Draws \cup HandPicks
Answered == {"ok", "none", "refused", "failed", "dead"}

RaffleInit ==
  /\ Init
  /\ winners = {}
  /\ at = [r \in Requests |-> IF r \in Draws THEN "won" ELSE "insert"]
  /\ chosen = [r \in Requests |->    \* of a draw: not set yet, any value will do
                 IF r \in HandPicks THEN Picked[r] ELSE CHOOSE u \in Users : TRUE]
  /\ told = [d \in Draws |-> {}]
  /\ added = {}

To(r, step) == at' = [at EXCEPT ![r] = step]

-----------------------------------------------------------------------------
\* AddItemToOrderAsync: one read of the order, which must exist, and one save.  Whether
\* the order is a draft is not asked, and no event tells the catalog of the gift.
AddItem(o, g) ==
  /\ <<o, g>> \in Additions /\ host[OrderSvc] # "down" /\ row[o] # "absent"
  /\ added' = added \cup {<<o, g>>}
  /\ UNCHANGED <<vars, winners, at, chosen, told>>

StartDraw(d) ==
  /\ at[d] = "won" /\ host[OrderSvc] # "down"
  /\ To(d, IF \E w \in winners : w.gift = Target[d] THEN "refused" ELSE "pool")
  /\ told' = [told EXCEPT ![d] = {o \in Orders : Statuses(o, FALSE) # {}}]
  /\ UNCHANGED <<vars, winners, chosen, added>>

HasLine(o, g) == g \in ItemsOf[o] \/ <<o, g>> \in added
IgnoresGift(o, g) == row[o] = "final"            \* mutant: no filter on the gift
InPool(o, g) == row[o] = "final" /\ HasLine(o, g)

\* GetRafflePoolAsync, then SelectWeightedWinner.  A checkout asks for at least one
\* ticket of each gift, so everybody in the pool may win.
ReadPool(d) ==
  /\ at[d] = "pool"
  /\ LET pool == {Owner[o] : o \in {p \in Orders : InPool(p, Target[d])}}
     IN  IF pool = {} THEN To(d, "none") /\ UNCHANGED chosen
         ELSE /\ \E u \in pool : chosen' = [chosen EXCEPT ![d] = u]
              /\ To(d, "insert")
  /\ UNCHANGED <<vars, winners, told, added>>

AddWinner(r) == winners' = winners \cup {[by |-> r, gift |-> Target[r], user |-> chosen[r]]}

\* CreateWinnerAsync, of a draw and of a winner entered by hand; nothing is checked.
InsertWinner(r) ==
  /\ at[r] = "insert" /\ host[OrderSvc] # "down"
  /\ AddWinner(r)
  /\ To(r, "ok")
  /\ UNCHANGED <<vars, chosen, told, added>>

\* The insert throws, before or after it took effect.
InsertWinnerThrows(r) ==
  /\ at[r] = "insert" /\ host[OrderSvc] # "down"
  /\ UNCHANGED winners \/ AddWinner(r)
  /\ To(r, "failed")
  /\ UNCHANGED <<vars, chosen, told, added>>

\* A step of the saga; requests die with their process.
Begun(r) == r \in Draws /\ at[r] \in {"pool", "insert"}
SagaStep ==
  /\ Next
  /\ at' = [r \in Requests |->
              IF crashes' # crashes /\ host'[OrderSvc] = "down" /\ Begun(r) THEN "dead" ELSE at[r]]
  /\ UNCHANGED <<winners, chosen, told, added>>

RaffleNext ==
  \/ SagaStep
  \/ \E o \in Orders, g \in Gifts : AddItem(o, g)
  \/ \E d \in Draws : StartDraw(d) \/ ReadPool(d)
  \/ \E r \in Requests : InsertWinner(r) \/ InsertWinnerThrows(r)

RaffleSpec == RaffleInit /\ [][RaffleNext]_allVars

-----------------------------------------------------------------------------
(* Properties.                                                             *)

\* Whoever a draw recorded has an order of that gift that came into the pool by its
\* client's isDraft = false, by a confirmation by hand or by a reservation.  It is
\* final still, unless the catalog has rejected it; and when its Rejected had been
\* announced before the draw began, something confirmed it again.  So only a
\* rejection that overlaps the draw or follows it leaves a winner without a ticket.
DrawnWinnersWereInThePool ==
  \A w \in winners : w.by \in Draws =>
    \E o \in Orders :
      /\ Owner[o] = w.user /\ HasLine(o, w.gift)
      /\ o \in chosenFinal \cup manual \/ Results(o, TRUE) # {}
      /\ row[o] = "final" \/ Results(o, FALSE) # {}
      /\ o \in told[w.by] => o \in manual \/ Results(o, TRUE) # {}

=============================================================================
