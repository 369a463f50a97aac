---------------------------- MODULE TicketStore ----------------------------
(***************************************************************************)
(* The monolith's SQL store under all the requests that meet in it: the    *)
(* checkouts of TicketPurchase, raffle draws (RaffleSarviceBLL.RunRaffle), *)
(* winners entered by hand (WinnerBLL.AddWinnerAndNotifyAsync) or removed, *)
(* orders confirmed and edited (OrderServiceBLL) and gifts deleted         *)
(* (GiftServiceBLL.DeleteGiftAsync).  No request holds a transaction or a  *)
(* lock across two of its queries, and Winners has no unique index.        *)
(***************************************************************************)
EXTENDS TicketPurchase

CONSTANTS
  Draws,          \* requests to run the raffle of a gift
  HandPicks,      \* requests that enter a winner chosen by the manager
  Edits,          \* requests to add an item to an order
  Deletions,      \* requests to delete a gift
  Target,         \* the gift each of them is about
  Picked,         \* the user each hand pick names
  EditQuantities, \* the quantities an edit may ask for: the request has no [Range]
  MaxRemovals     \* bound: winner rows removed

Requests == Draws \cup HandPicks \cup Edits \cup Deletions

ASSUME StoreAssumption ==
  /\ Users # {}
  /\ Draws \cap (HandPicks \cup Edits \cup Deletions) = {}    \* a request is of one kind
  /\ HandPicks \cap (Edits \cup Deletions) = {} /\ Edits \cap Deletions = {}
  /\ Target \in [Requests -> Gifts]
  /\ Picked \in [HandPicks -> Users]
  /\ EditQuantities \subseteq Int
  /\ MaxRemovals \in Nat

VARIABLES
  at,        \* where each of these requests stands
  chosen,    \* the user a draw selected, a local variable
  row,       \* the row a request found or inserted: an order, a winner
  saw,       \* history: the winner rows of its gift when a draw began
  asked,     \* history: the next identity when a deletion was asked for
  mailed,    \* congratulations sent: [user, gift]
  mailFaults, removals

requestVars == <<at, chosen, row, saw, asked, mailed, mailFaults, removals>>
vars == <<purchaseVars, requestVars>>

Done == {"ok", "none", "refused", "threw", "failed", "dead"}
FirstStep(r) ==
  CASE r \in Draws     -> "won"
    [] r \in HandPicks -> "purchasers"
    [] r \in Edits     -> "draft"
    [] r \in Deletions -> "confirmed"

Winner == [id: Nat, gift: Gifts, user: Users, by: Draws \cup HandPicks]

Init ==
  /\ PurchaseInit
  /\ at = [r \in Requests |-> FirstStep(r)]
  /\ chosen = [r \in Draws \cup HandPicks |->    \* of a draw: not set yet, any value will do
                 IF r \in HandPicks THEN Picked[r] ELSE CHOOSE u \in Users : TRUE]
  /\ row = [r \in Requests |-> 0]
  /\ saw = [d \in Draws |-> {}]
  /\ asked = [r \in Deletions |-> 0]
  /\ mailed = {} /\ mailFaults = 0 /\ removals = 0

To(r, step) == at' = [at EXCEPT ![r] = step]
Elsewhere == UNCHANGED <<avail, checkoutVars, crashes>>
OnlyRequests == UNCHANGED <<tables, faults, redisFaults>> /\ Elsewhere
Silently == UNCHANGED <<mailed, mailFaults, removals>>
Quietly  == Silently /\ UNCHANGED <<saw, asked>>
Notes(d) == saw' = [saw EXCEPT ![d] = {w.id : w \in {v \in winners : v.gift = Target[d]}}]

CountsDrafts(t) == TRUE    \* mutant: the IsDraft filter forgotten

IsConfirmed(t) == \E o \in orders : o.id = t.order /\ ~o.draft

ConfirmedFor(g) == {t \in tickets : t.gift = g /\ IsConfirmed(t)}

-----------------------------------------------------------------------------
(* Raffle.                                                                 *)

StartAnyway(d) ==    \* mutant: no look at Winners
  /\ at[d] = "won"
  /\ To(d, "pool") /\ Notes(d)
  /\ UNCHANGED <<chosen, row, asked>> /\ OnlyRequests /\ Silently

StartDraw(d) ==
  /\ at[d] = "won"
  /\ To(d, IF IsGiftAlreadyWon(Target[d]) THEN "refused" ELSE "pool")
  /\ Notes(d)
  /\ UNCHANGED <<chosen, row, asked>> /\ OnlyRequests /\ Silently

\* GetRafflePoolByGiftIdAsync: the quantity of every user with a confirmed ticket.
PoolUsers(g) == {u \in Users : \E t \in ConfirmedFor(g), o \in orders : o.id = t.order /\ o.user = u}
PoolOf(g) ==
  [u \in PoolUsers(g) |->
    Quantity({t \in ConfirmedFor(g) : \E o \in orders : o.id = t.order /\ o.user = u})]

\* Enumerable.Repeat throws on a negative quantity, the index of an empty list too.
CanDraw(pool) == /\ \A u \in DOMAIN pool : pool[u] >= 0
                 /\ \E u \in DOMAIN pool : pool[u] > 0

ReadPool(d) ==
  /\ at[d] = "pool"
  /\ LET pool == PoolOf(Target[d])
     IN  \/ DOMAIN pool = {} /\ To(d, "none") /\ UNCHANGED chosen
         \/ DOMAIN pool # {} /\ ~CanDraw(pool) /\ To(d, "threw") /\ UNCHANGED chosen
         \/ /\ CanDraw(pool)
            /\ \E u \in DOMAIN pool : pool[u] > 0 /\ chosen' = [chosen EXCEPT ![d] = u]
            /\ To(d, "purchasers")
  /\ UNCHANGED row /\ OnlyRequests /\ Quietly

\* WinnerDal.AddWinner, of a draw and of a winner entered by hand: are there buyers?
CheckPurchasers(r) ==
  /\ at[r] = "purchasers"
  /\ To(r, IF ConfirmedFor(Target[r]) = {} THEN "refused" ELSE "insert")
  /\ UNCHANGED <<chosen, row>> /\ OnlyRequests /\ Quietly

NewWinner(r, id) == [id |-> id, gift |-> Target[r], user |-> chosen[r], by |-> r]

SharesIdentity(r) ==    \* mutant: the new row does not take an identity of its own
  /\ winners' = winners \cup {NewWinner(r, nextId)}
  /\ UNCHANGED <<live, orders, tickets, nextId>>

AddWinner(r) ==
  /\ winners' = winners \cup {NewWinner(r, nextId)}
  /\ nextId' = nextId + 1
  /\ UNCHANGED <<live, orders, tickets>>

InsertWinner(r) ==
  /\ at[r] = "insert"
  /\ AddWinner(r)
  /\ row' = [row EXCEPT ![r] = nextId]
  /\ To(r, "reread")
  /\ UNCHANGED <<chosen, faults, redisFaults>> /\ Elsewhere /\ Quietly

\* As CommitTwice of a checkout.
InsertWinnerTwice(r) ==
  /\ at[r] = "insert"
  /\ SqlFault
  /\ winners' = winners \cup {NewWinner(r, nextId), NewWinner(r, nextId + 1)}
  /\ nextId' = nextId + 2
  /\ row' = [row EXCEPT ![r] = nextId + 1]
  /\ To(r, "reread")
  /\ UNCHANGED <<live, orders, tickets, chosen>> /\ Elsewhere /\ Quietly

InsertWinnerThrows(r) ==
  /\ at[r] = "insert"
  /\ SqlFault
  /\ UNCHANGED tables \/ AddWinner(r)
  /\ To(r, "failed")
  /\ UNCHANGED <<chosen, row>> /\ Elsewhere /\ Quietly

AnyWinner(r) == winners    \* mutant: the re-read without its predicate

\* What the re-read can return: a draw asks for a winner of the gift, a hand pick for
\* its own row.  Both join Gift, whose query filter hides deleted gifts.
Found(r) == {w \in winners : /\ w.gift = Target[r] /\ w.gift \in live
                             /\ r \in HandPicks => w.id = row[r]}

Congratulate(user, g) ==
  \/ mailed' = mailed \cup {[user |-> user, gift |-> g]} /\ UNCHANGED mailFaults
  \/ /\ Failures + mailFaults < MaxFaults    \* the mail fails; the exception is swallowed
     /\ mailFaults' = mailFaults + 1 /\ UNCHANGED mailed

\* A draw whose re-read finds nothing answers that the gift has no tickets.
RereadAndMail(r) ==
  /\ at[r] = "reread"
  /\ \/ /\ Found(r) = {}
        /\ To(r, IF r \in Draws THEN "none" ELSE "ok") /\ UNCHANGED <<mailed, mailFaults>>
     \/ \E w \in Found(r) : Congratulate(w.user, Target[r]) /\ To(r, "ok")
  /\ UNCHANGED <<chosen, row, saw, asked, removals>> /\ OnlyRequests

\* DELETE api/winner/{id}: the save is not awaited and may be cut short, which is no
\* step at all.
DeleteWinner(w) ==
  /\ removals < MaxRemovals /\ removals' = removals + 1
  /\ winners' = winners \ {w}
  /\ UNCHANGED <<live, orders, tickets, nextId, at, chosen, row, saw, asked, mailed, mailFaults>>
  /\ UNCHANGED <<faults, redisFaults>>
  /\ Elsewhere

-----------------------------------------------------------------------------
(* Orders and gifts.                                                       *)

\* ConfirmOrderAsync: any order, whatever its state; no cache is invalidated.
ConfirmOrder(o) ==
  /\ o.draft
  /\ orders' = (orders \ {o}) \cup {[o EXCEPT !.draft = FALSE]}
  /\ UNCHANGED <<live, tickets, winners, nextId, requestVars, faults, redisFaults>> /\ Elsewhere

DraftsAnyOrder(r) ==    \* mutant: the look at IsDraft forgotten
  /\ at[r] = "draft"
  /\ \E o \in orders : row' = [row EXCEPT ![r] = o.id] /\ To(r, "item")
  /\ UNCHANGED chosen /\ OnlyRequests /\ Quietly

\* AddItemToOrderAsync: load the order and look at IsDraft ...
CheckDraft(r) ==
  /\ at[r] = "draft"
  /\ \E o \in orders :
       \/ o.draft /\ row' = [row EXCEPT ![r] = o.id] /\ To(r, "item")
       \/ ~o.draft /\ UNCHANGED row /\ To(r, "refused")
  /\ UNCHANGED chosen /\ OnlyRequests /\ Quietly

\* ... then insert the line, into whatever the order has become.
AddItem(r) ==
  /\ at[r] = "item"
  /\ \E q \in EditQuantities, o \in orders :
       /\ o.id = row[r]
       /\ tickets' = tickets \cup {[id |-> nextId, order |-> o.id, gift |-> Target[r], qty |-> q,
                                    origin |-> IF o.draft THEN "edit" ELSE "late"]}
  /\ nextId' = nextId + 1
  /\ To(r, "ok")
  /\ UNCHANGED <<live, orders, winners, chosen, row, faults, redisFaults>> /\ Elsewhere /\ Quietly

ChecksConfirmedOnly(r) ==    \* mutant: drafts are forgotten
  /\ at[r] = "confirmed"
  /\ asked' = [asked EXCEPT ![r] = nextId]
  /\ To(r, IF ConfirmedFor(Target[r]) # {} THEN "refused" ELSE "delete")
  /\ UNCHANGED <<chosen, row, saw>> /\ OnlyRequests /\ Silently

\* DeleteGiftAsync: is there a confirmed order, is there any order? ...
CheckNotOrdered(r) ==
  /\ \/ /\ at[r] = "confirmed"
        /\ asked' = [asked EXCEPT ![r] = nextId]
        /\ To(r, IF ConfirmedFor(Target[r]) # {} THEN "refused" ELSE "drafts")
     \/ /\ at[r] = "drafts"
        /\ UNCHANGED asked
        /\ To(r, IF \E t \in tickets : t.gift = Target[r] THEN "refused" ELSE "delete")
  /\ UNCHANGED <<chosen, row, saw>> /\ OnlyRequests /\ Silently

\* ... then the soft delete, whatever has been ordered meanwhile.
DeleteGift(r) ==
  /\ at[r] = "delete"
  /\ live' = live \ {Target[r]}
  /\ To(r, "ok")
  /\ UNCHANGED <<orders, tickets, winners, nextId, chosen, row, faults, redisFaults>>
  /\ Elsewhere /\ Quietly

-----------------------------------------------------------------------------
\* The web API dies and comes back; only what is in SQL and Redis is left.
Crash ==
  /\ Failures + mailFaults < MaxFaults /\ crashes' = crashes + 1
  /\ CheckoutsDie
  /\ at' = [r \in Requests |-> IF at[r] \in Done \cup {FirstStep(r)} THEN at[r] ELSE "dead"]
  /\ UNCHANGED <<tables, avail, chosen, row, saw, asked, mailed, mailFaults, removals, faults, redisFaults>>

Checkout(b) == CheckoutStep(b) /\ UNCHANGED requestVars

Next ==
  \/ \E b \in Buyers : Checkout(b)
  \/ \E d \in Draws : StartDraw(d) \/ ReadPool(d)
  \/ \E r \in Draws \cup HandPicks :
       \/ CheckPurchasers(r) \/ InsertWinner(r) \/ RereadAndMail(r)
       \/ InsertWinnerTwice(r) \/ InsertWinnerThrows(r)
  \/ \E w \in winners : DeleteWinner(w)
  \/ \E o \in orders : ConfirmOrder(o)
  \/ \E r \in Edits : CheckDraft(r) \/ AddItem(r)
  \/ \E r \in Deletions : CheckNotOrdered(r) \/ DeleteGift(r)
  \/ Crash

Spec == Init /\ [][Next]_vars
-----------------------------------------------------------------------------
(* Properties.                                                             *)

\* Every variable holds a value of its type; ticket and winner rows refer to what
\* exists.
StoreTypeOK ==
  /\ PurchaseTypeOK
  /\ winners \subseteq Winner /\ \A w \in winners : w.id < nextId
  /\ at \in [Requests -> Done \cup {"won", "pool", "purchasers", "insert", "reread", "draft",
                                    "item", "confirmed", "drafts", "delete"}]
  /\ chosen \in [Draws \cup HandPicks -> Users]
  /\ row \in [Requests -> Nat]
  /\ saw \in [Draws -> SUBSET Nat]
  /\ asked \in [Deletions -> Nat]
  /\ mailed \subseteq [user: Users, gift: Gifts]
  /\ mailFaults \in Nat /\ removals \in Nat

\* Whoever a draw recorded had a confirmed ticket of that gift before: a row a failed
\* and repeated insert left behind included, and however orders are confirmed and
\* edited between the query of the pool and the insert.
DrawnWinnersHadTickets ==
  \A w \in winners : w.by \in Draws =>
    \E t \in tickets, o \in orders :
      /\ t.gift = w.gift /\ t.qty > 0 /\ t.id < w.id
      /\ o.id = t.order /\ ~o.draft /\ o.user = w.user

\* As long as no row is removed: a congratulation names a user and a gift that belong
\* together in a winner row, and a draw that answered with a winner has congratulated
\* a winner of its gift (or had its mail refused), although draws re-read by gift and
\* find each other's rows.
MailsMatchWinners ==
  removals = 0 =>
    /\ \A m \in mailed : \E w \in winners : w.user = m.user /\ w.gift = m.gift
    /\ mailFaults = 0 => \A d \in Draws : at[d] = "ok" => \E m \in mailed : m.gift = Target[d]

\* A draw adds no winner to a gift that had one when it began, and a checkout sells no
\* ticket of it: a second winner, and a ticket that cannot win, come only from requests
\* that overlap the draw.
RaffledGiftsAreLeftAlone ==
  \A w \in winners :
    /\ \A v \in winners : v.gift = w.gift /\ v.by \in Draws => w.id \notin saw[v.by]
    /\ \A t \in tickets, o \in orders :
         t.gift = w.gift /\ t.origin = "checkout" /\ o.id = t.order => w.id \notin met[o.buyer]

\* A deletion that goes through leaves no older ticket behind: every ticket of the gift
\* was inserted after the deletion had been asked for, whether it was in a draft then, in
\* a confirmed order, or in a draft confirmed between the two looks.
DeletedGiftsWereUnsold ==
  \A r \in Deletions : at[r] = "ok" =>
    \A t \in tickets : t.gift = Target[r] => t.id >= asked[r]

\* An order that was not placed as a draft never gets another line, although edits look
\* at IsDraft one call before they insert; and no repeated insert splits its lines.
FinalOrdersStand ==
  \A o \in orders : o.buyer \notin DraftBuyers =>
    LET lines == {t \in tickets : t.order = o.id}
    IN  /\ \A t \in lines : t.origin = "checkout"
        /\ \A g \in Gifts : Quantity({t \in lines : t.gift = g}) = LinesFor(g, Basket[o.buyer])

=============================================================================
