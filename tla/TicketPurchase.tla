--------------------------- MODULE TicketPurchase ---------------------------
(***************************************************************************)
(* The monolith's checkout, TicketPurchaseService.PlaceOrderAsync: refuse  *)
(* gifts already raffled, read the catalogue, reserve every basket line on *)
(* a Redis counter, insert the order, drop the cached sales summary.  The  *)
(* last three happen in one try block whose catch gives the reservations   *)
(* back.  The SQL tables it shares with the rest of the monolith are       *)
(* declared here; the other requests on them are in TicketStore, which     *)
(* extends this module.                                                    *)
(*                                                                         *)
(* A step is what happens between two awaits: one SQL or Redis call.       *)
(***************************************************************************)
EXTENDS Integers, Sequences, FiniteSets, Totals

CONSTANTS
  Gifts,       \* gift ids
  Users,       \* user ids
  Buyers,      \* checkout requests
  UserOf,      \* the signed-in user of each checkout
  Basket,      \* the lines of each checkout, in order: [gift, qty]
  DraftBuyers, \* the checkouts with isDraft = true
  Stock,       \* the counter an operator seeded for a gift
  Seeded,      \* the gifts that have a counter: no code creates one
  MaxFaults,   \* bound: SQL, Redis and SMTP calls that fail and crashes of the web API
  MaxSqlFaults \* bound: those of them that are SQL calls

MaxLine == 100    \* [Range(1, 100)] on a checkout line

Line == [gift: Gifts, qty: 1..MaxLine]

ASSUME PurchaseAssumption ==
  /\ UserOf \in [Buyers -> Users]
  /\ Basket \in [Buyers -> Seq(Line)]
  /\ \A b \in Buyers : Basket[b] # <<>>    \* an empty basket is refused
  /\ DraftBuyers \subseteq Buyers
  /\ Stock \in [Gifts -> Nat]
  /\ Seeded \subseteq Gifts
  /\ MaxFaults \in Nat /\ MaxSqlFaults \in Nat

VARIABLES
  live,      \* SQL: the gifts that are not soft-deleted
  orders,    \* SQL: rows [id, buyer, user, draft]
  tickets,   \* SQL: order lines [id, order, gift, qty, origin]
  winners,   \* SQL: rows [id, gift, user, origin]
  nextId,    \* SQL: source of identity columns
  avail,     \* Redis: raffle:{gift}:available_count
  pc,        \* where each checkout stands
  line,      \* the basket line it is at
  snapshot,  \* the gifts it read
  reserved,  \* its reservedItems, a local variable
  met,       \* history: the winner rows its gifts had when it began
  faults, redisFaults, crashes

tables       == <<live, orders, tickets, winners, nextId>>
checkoutVars == <<pc, line, snapshot, reserved, met>>
readVars     == <<snapshot, met>>
purchaseVars == <<tables, avail, checkoutVars, faults, redisFaults, crashes>>

AtRest == {"ok", "error", "dead", "cut"}    \* cut: died while giving back
PC == {"check", "gifts", "reserve", "commit", "invalidate", "release"} \cup AtRest

\* Where a ticket came from: a checkout, or an edit of an order that was still a
\* draft ("edit") or already confirmed ("late").
Origins == {"checkout", "edit", "late"}

Order  == [id: Nat, buyer: Buyers, user: Users, draft: BOOLEAN]
Ticket == [id: Nat, order: Nat, gift: Gifts, qty: Int, origin: Origins]

PurchaseInit ==
  /\ live = Gifts
  /\ orders = {} /\ tickets = {} /\ winners = {} /\ nextId = 1
  /\ avail = Stock
  /\ pc = [b \in Buyers |-> "check"]
  /\ line = [b \in Buyers |-> 1]
  /\ snapshot = [b \in Buyers |-> {}]
  /\ reserved = [b \in Buyers |-> <<>>]
  /\ met = [b \in Buyers |-> {}]
  /\ faults = 0 /\ redisFaults = 0 /\ crashes = 0

IsGiftAlreadyWon(g) == \E w \in winners : w.gift = g

Go(b, step) == pc' = [pc EXCEPT ![b] = step]
Failures == faults + redisFaults + crashes
SqlFault   == /\ Failures < MaxFaults /\ faults < MaxSqlFaults
              /\ faults' = faults + 1 /\ UNCHANGED redisFaults
RedisFault == Failures < MaxFaults /\ redisFaults' = redisFaults + 1 /\ UNCHANGED faults
NoFault    == UNCHANGED <<faults, redisFaults, crashes>>

WinnersFor(b) == {w.id : w \in {v \in winners : \E i \in DOMAIN Basket[b] : Basket[b][i].gift = v.gift}}

\* Has the request arrived?
Arrived(b) == ~(pc[b] = "check" /\ line[b] = 1)

-----------------------------------------------------------------------------
\* IsGiftAlreadyWonAsync for one line.  The refusal is thrown outside the try block.
CheckWon(b) ==
  /\ pc[b] = "check"
  /\ IF IsGiftAlreadyWon(Basket[b][line[b]].gift)
       THEN Go(b, "error") /\ UNCHANGED line
       ELSE IF line[b] < Len(Basket[b])
              THEN line' = [line EXCEPT ![b] = @ + 1] /\ UNCHANGED pc
              ELSE line' = [line EXCEPT ![b] = 1] /\ Go(b, "gifts")
  /\ met' = [met EXCEPT ![b] = IF Arrived(b) THEN @ ELSE WinnersFor(b)]
  /\ UNCHANGED <<tables, avail, snapshot, reserved>> /\ NoFault

\* GiftDAL.GetAll: the query filter hides soft-deleted gifts.
ReadGifts(b) ==
  /\ pc[b] = "gifts"
  /\ snapshot' = [snapshot EXCEPT ![b] = live]
  /\ Go(b, "reserve")
  /\ UNCHANGED <<tables, avail, line, reserved, met>> /\ NoFault

AlwaysReserves(g, q) == g \in Seeded               \* mutant: no comparison

\* The Lua script refuses a missing counter and one that is too small.
CanReserve(g, q) == g \in Seeded /\ avail[g] >= q

\* A query of one of the first two steps throws, before anything was reserved.
QueryThrows(b) ==
  /\ pc[b] \in {"check", "gifts"}
  /\ SqlFault
  /\ Go(b, "error")
  /\ UNCHANGED <<tables, avail, line, readVars, reserved, crashes>>

\* Reserve the current line, atomically on the Redis side.
Reserve(b) ==
  /\ pc[b] = "reserve"
  /\ LET item == Basket[b][line[b]]
     IN  IF item.gift \in snapshot[b] /\ CanReserve(item.gift, item.qty)
           THEN /\ avail' = [avail EXCEPT ![item.gift] = @ - item.qty]
                /\ reserved' = [reserved EXCEPT ![b] = Append(@, item)]
                /\ IF line[b] < Len(Basket[b])
                     THEN line' = [line EXCEPT ![b] = @ + 1] /\ UNCHANGED pc
                     ELSE Go(b, "commit") /\ UNCHANGED line
           ELSE Go(b, "release") /\ UNCHANGED <<avail, reserved, line>>
  /\ UNCHANGED <<tables, readVars>> /\ NoFault

\* The Redis call throws: the script ran or it did not, and reservedItems does not
\* know of it either way.
ReserveThrows(b) ==
  /\ pc[b] = "reserve"
  /\ RedisFault
  /\ LET item == Basket[b][line[b]]
     IN  /\ item.gift \in snapshot[b]
         /\ \/ UNCHANGED avail
            \/ /\ CanReserve(item.gift, item.qty)
               /\ avail' = [avail EXCEPT ![item.gift] = @ - item.qty]
  /\ Go(b, "release")
  /\ UNCHANGED <<tables, line, readVars, reserved, crashes>>

-----------------------------------------------------------------------------
\* The rows of one order and its lines.
NewOrder(b, id) == [id |-> id, buyer |-> b, user |-> UserOf[b], draft |-> b \in DraftBuyers]
LastLineOnly(b, id) ==    \* mutant: the list of lines is rebuilt for every item
  {[id |-> id + i, order |-> id, gift |-> reserved[b][i].gift, qty |-> reserved[b][i].qty,
    origin |-> "checkout"] : i \in {Len(reserved[b])}}
NewTickets(b, id) ==
  {[id |-> id + i, order |-> id, gift |-> reserved[b][i].gift, qty |-> reserved[b][i].qty,
    origin |-> "checkout"] : i \in DOMAIN reserved[b]}

\* AddOrder: the order and its lines in one transaction.
AddOrder(b) ==
  /\ orders' = orders \cup {NewOrder(b, nextId)}
  /\ tickets' = tickets \cup NewTickets(b, nextId)
  /\ nextId' = nextId + Len(reserved[b]) + 1
  /\ UNCHANGED <<live, winners>>

Commit(b) ==
  /\ pc[b] = "commit"
  /\ AddOrder(b)
  /\ Go(b, "invalidate")
  /\ UNCHANGED <<avail, line, readVars, reserved>> /\ NoFault

\* SaveChanges throws: before the transaction committed, or because the connection
\* was lost after it did and the retries found no server.
CommitThrows(b) ==
  /\ pc[b] = "commit"
  /\ SqlFault
  /\ UNCHANGED tables \/ AddOrder(b)
  /\ Go(b, "release")
  /\ UNCHANGED <<avail, line, readVars, reserved, crashes>>

\* The connection is lost after the server committed; EnableRetryOnFailure runs
\* SaveChanges again and inserts the rows a second time.
CommitTwice(b) ==
  /\ pc[b] = "commit"
  /\ SqlFault
  /\ LET second == nextId + Len(reserved[b]) + 1
     IN  /\ orders' = orders \cup {NewOrder(b, nextId), NewOrder(b, second)}
         /\ tickets' = tickets \cup NewTickets(b, nextId) \cup NewTickets(b, second)
         /\ nextId' = second + Len(reserved[b]) + 1
  /\ Go(b, "invalidate")
  /\ UNCHANGED <<live, winners, avail, line, readVars, reserved, crashes>>

\* SalesSummaryCacheService.InvalidateAsync, still inside the try block.
Invalidate(b) ==
  /\ pc[b] = "invalidate"
  /\ Go(b, "ok")
  /\ UNCHANGED <<tables, avail, line, readVars, reserved>> /\ NoFault

InvalidateThrows(b) ==
  /\ pc[b] = "invalidate"
  /\ RedisFault
  /\ Go(b, "release")
  /\ UNCHANGED <<tables, avail, line, readVars, reserved, crashes>>

-----------------------------------------------------------------------------
ForgetsRelease(b) == avail    \* mutant: the catch block gives nothing back

\* The counter after INCRBY for the first item still to give back.
GivenBack(b) ==
  LET item == Head(reserved[b]) IN [avail EXCEPT ![item.gift] = @ + item.qty]

\* One turn of the catch block's loop; the exception goes on at its end.
Release(b) ==
  /\ pc[b] = "release"
  /\ IF reserved[b] = <<>>
       THEN Go(b, "error") /\ UNCHANGED <<avail, reserved>>
       ELSE /\ avail' = GivenBack(b)
            /\ reserved' = [reserved EXCEPT ![b] = Tail(@)]
            /\ UNCHANGED pc
  /\ UNCHANGED <<tables, line, readVars>> /\ NoFault

\* INCRBY throws, done or not, and leaves the loop: the rest is never given back.
ReleaseThrows(b) ==
  /\ pc[b] = "release" /\ reserved[b] # <<>>
  /\ RedisFault
  /\ avail' \in {avail, GivenBack(b)}
  /\ reserved' = [reserved EXCEPT ![b] = <<>>]
  /\ Go(b, "error")
  /\ UNCHANGED <<tables, line, readVars, crashes>>

\* The process dies with the requests it is serving, and their local variables with
\* it; a request that has not arrived yet meets the restarted process.
CheckoutsDie ==
  /\ pc' = [b \in Buyers |-> IF pc[b] \in AtRest \/ ~Arrived(b) THEN pc[b]
                             ELSE IF pc[b] = "release" THEN "cut" ELSE "dead"]
  /\ reserved' = [b \in Buyers |-> <<>>]
  /\ UNCHANGED <<line, readVars>>

CheckoutStep(b) ==
  \/ CheckWon(b) \/ ReadGifts(b) \/ Reserve(b) \/ Commit(b) \/ Invalidate(b) \/ Release(b)
  \/ ReserveThrows(b) \/ CommitThrows(b) \/ CommitTwice(b) \/ QueryThrows(b)
  \/ InvalidateThrows(b) \/ ReleaseThrows(b)

-----------------------------------------------------------------------------
(* Properties.                                                             *)

\* Every table and local variable of the checkout holds a value of its type, and
\* identities are unique.
PurchaseTypeOK ==
  /\ live \subseteq Gifts
  /\ orders \subseteq Order /\ tickets \subseteq Ticket
  /\ nextId \in Nat
  /\ \A o \in orders : o.id < nextId
  /\ \A t \in tickets : t.id < nextId /\ \E o \in orders : o.id = t.order
  /\ avail \in [Gifts -> Int]
  /\ pc \in [Buyers -> PC]
  /\ line \in [Buyers -> Nat]
  /\ \A b \in Buyers : line[b] \in DOMAIN Basket[b]
  /\ snapshot \in [Buyers -> SUBSET Gifts]
  /\ reserved \in [Buyers -> Seq(Line)]
  /\ met \in [Buyers -> SUBSET Nat]
  /\ faults \in Nat /\ redisFaults \in Nat /\ crashes \in Nat

OrdersOf(b) == {o \in orders : o.buyer = b}

Quantity(S) == Total([t \in S |-> t.qty])

LinesFor(g, items) == Total([i \in {j \in DOMAIN items : items[j].gift = g} |-> items[i].qty])

\* Tickets the checkout put into orders, and quantities checkouts hold that are not,
\* or no longer meant to be, in an order.
Sold(g) == Quantity({t \in tickets : t.gift = g /\ t.origin = "checkout"})
Holds(b, g) ==
  IF pc[b] \in {"reserve", "commit", "release"} THEN LinesFor(g, reserved[b]) ELSE 0
InFlight(g) == Total([b \in Buyers |-> Holds(b, g)])

\* As long as no checkout failed after its commit and none was committed twice,
\* interleaved checkouts, failed calls and crashes never sell or promise more
\* tickets than the counter was seeded with, and never drive the counter below zero.
NoOversell ==
  (\A b \in Buyers : /\ Cardinality(OrdersOf(b)) <= 1
                     /\ OrdersOf(b) # {} => pc[b] \in {"invalidate", "ok", "dead"})
    => \A g \in Gifts : avail[g] >= 0 /\ Sold(g) + InFlight(g) + avail[g] <= Stock[g]

\* Every ticket that is not sold is on sale again once its checkout is over, unless
\* a Redis call failed or the process died: a checkout that fails on its second line,
\* or on the commit, gives back what it took for the first.
NoTicketIsLost ==
  redisFaults = 0 /\ crashes = 0
    => \A g \in Gifts : Sold(g) + InFlight(g) + avail[g] >= Stock[g]

\* A checkout that ends well has bought all of its basket.
OkMeansBought ==
  \A b \in Buyers : pc[b] = "ok" =>
    \E o \in OrdersOf(b) : \A g \in Gifts :
      Quantity({t \in tickets : t.order = o.id /\ t.gift = g /\ t.origin = "checkout"})
        = LinesFor(g, Basket[b])

-----------------------------------------------------------------------------
(* What the repository says of the checkout and the code does not do.      *)

\* Architecture rules: cache invalidation must never cause the primary operation to
\* fail.  A checkout answered with an error has not bought anything.
ErrorMeansNotBought == \A b \in Buyers : pc[b] = "error" => OrdersOf(b) = {}

=============================================================================
