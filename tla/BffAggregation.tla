--------------------------- MODULE BffAggregation ---------------------------
(***************************************************************************)
(* One request to the BFF for the details of an order                      *)
(* (AggregationService.GetOrderDetailsAsync): read the order from          *)
(* OrderService, then each of its gifts from CatalogService, one after the *)
(* other, and add up.  Each call has CallTimeout until the response's      *)
(* headers are there (HttpClient.Timeout with ResponseHeadersRead), the    *)
(* whole has Deadline.  Meanwhile customers add lines to the order and     *)
(* managers reprice and delete gifts.  Requests share no state, so one is  *)
(* enough.                                                                 *)
(***************************************************************************)
EXTENDS Integers, Sequences, Totals

CONSTANTS
  Gifts, Quantities,
  Prices,       \* in cents
  Gone,         \* no price: the gift is not in the catalog, or no longer
  NoOrder,      \* no such order
  Rows,         \* the orders there may be: sequences of lines
  Routed,       \* does OrderService route GET api/Order/{id}?  Its OrderController does not
  CallTimeout, Deadline,    \* in ticks
  MaxChanges,   \* bound: changes to the order and the catalog meanwhile
  MaxFaults     \* bound: calls that fail at once

Line     == [gift: Gifts, qty: Quantities]
ReadLine == [gift: Gifts, qty: Quantities, unit: Prices]

ASSUME BffAssumption ==
  /\ Quantities \subseteq Nat \ {0} /\ Prices \subseteq Nat
  /\ Gone \notin Prices /\ NoOrder \notin Seq(Line)
  /\ Rows \subseteq Seq(Line) \cup {NoOrder}
  /\ Routed \in BOOLEAN
  /\ CallTimeout \in Nat \ {0} /\ Deadline \in Nat /\ CallTimeout < Deadline
  /\ MaxChanges \in Nat /\ MaxFaults \in Nat

VARIABLES
  order,    \* OrderService's row
  price,    \* CatalogService's gifts
  stage,    \* what the request is waiting for
  todo,     \* the order's lines, once under way, whose gifts are still to be read
  unit,     \* the price under way in a response whose headers have come
  items,    \* the lines of the answer so far
  answer,   \* the status answered; 0 before
  elapsed,  \* ticks since the request came
  waited,   \* ticks since the call in progress was made
  calls,    \* history: calls made
  reading,  \* history: ticks spent on content after its headers had come
  orders,   \* history: the rows the order has had since the request came
  prices,   \* history: the prices each gift has had since the request came
  changes, faults

upstream == <<order, price, changes, orders, prices>>
clock    == <<elapsed, waited, reading>>
vars     == <<upstream, stage, todo, unit, items, answer, clock, calls, faults>>

Headers == {"orderHeaders", "giftHeaders"}
Content == {"orderContent", "giftContent"}
Waiting == Headers \cup Content

Init ==
  /\ order \in Rows /\ orders = {order}
  /\ price \in [Gifts -> Prices \cup {Gone}] /\ prices = [g \in Gifts |-> {price[g]}]
  /\ stage = "new"
  /\ todo = <<>> /\ items = <<>> /\ unit = Gone
  /\ answer = 0
  /\ elapsed = 0 /\ waited = 0 /\ calls = 0 /\ reading = 0
  /\ changes = 0 /\ faults = 0

-----------------------------------------------------------------------------
Answer(status) == stage' = "answered" /\ answer' = status
Calls(s) == stage' = s /\ waited' = 0 /\ calls' = calls + 1 /\ UNCHANGED <<elapsed, reading>>
NoCall   == UNCHANGED <<clock, calls>>

\* The status answered for the status an upstream call came back with.
PassesEverything(status) ==    \* mutant: a missing gift is reported as a missing order
  IF status = 408 THEN 504 ELSE status
NeverTooLate(status) == 424    \* mutant: a late catalog is a failed one
OrderAnswer(status) == IF status \in {401, 404} THEN status ELSE IF status = 408 THEN 504 ELSE 424
GiftAnswer(status)  == IF status = 408 THEN 504 ELSE 424
Mapped(status) ==
  IF stage \in {"orderHeaders", "orderContent"} THEN OrderAnswer(status) ELSE GiftAnswer(status)

\* No correlation header, or an id that is not a number.
Refuse ==
  /\ stage = "new"
  /\ Answer(400)
  /\ UNCHANGED <<upstream, todo, unit, items, faults>> /\ NoCall

Ask ==
  /\ stage = "new"
  /\ Calls("orderHeaders")
  /\ UNCHANGED <<upstream, todo, unit, items, answer, faults>>

\* OrderService's answer, which is complete when its headers are sent.  Without the route
\* no endpoint matches, and the request is answered before anybody asks who sent it; with
\* it, the controller's [Authorize] would refuse a request without a token: CallFails.
OrderStatus == IF ~Routed \/ order = NoOrder THEN 404 ELSE 200

OrderHeaders ==
  /\ stage = "orderHeaders"
  /\ IF OrderStatus = 200
       THEN stage' = "orderContent" /\ todo' = order /\ UNCHANGED answer
       ELSE Answer(Mapped(OrderStatus)) /\ UNCHANGED todo
  /\ UNCHANGED <<upstream, unit, items, faults>> /\ NoCall

GiftHeaders ==
  /\ stage = "giftHeaders"
  /\ LET p == price[Head(todo).gift]
     IN  IF p # Gone
           THEN stage' = "giftContent" /\ unit' = p /\ UNCHANGED answer
           ELSE Answer(Mapped(404)) /\ UNCHANGED unit
  /\ UNCHANGED <<upstream, todo, items, faults>> /\ NoCall

\* Read the gift of the first line left; without one, everything is there.
Continue(lines) ==
  IF lines = <<>> THEN Answer(200) /\ NoCall ELSE Calls("giftHeaders") /\ UNCHANGED answer

OrderContent ==
  /\ stage = "orderContent"
  /\ Continue(todo)
  /\ UNCHANGED <<upstream, todo, unit, items, faults>>

Item(line, p) == [gift |-> line.gift, qty |-> line.qty, unit |-> p]

GiftContent ==
  /\ stage = "giftContent"
  /\ items' = Append(items, Item(Head(todo), unit))
  /\ todo' = Tail(todo)
  /\ Continue(Tail(todo))
  /\ UNCHANGED <<upstream, unit, faults>>

-----------------------------------------------------------------------------
(* Failures and time.                                                      *)

\* The call fails at once: an error status, no connection, content that ends early.
CallFails ==
  /\ stage \in Waiting
  /\ faults < MaxFaults /\ faults' = faults + 1
  /\ \/ Answer(Mapped(500))
     \/ stage \in Headers /\ Answer(Mapped(401))
  /\ UNCHANGED <<upstream, todo, unit, items>> /\ NoCall

\* HttpClient's own timeout is a TaskCanceledException without a cancelled token: 408.
CallTimesOut ==
  /\ stage \in Headers /\ waited = CallTimeout
  /\ Answer(Mapped(408))
  /\ UNCHANGED <<upstream, todo, unit, items, faults>> /\ NoCall

OnlyHeaders == stage \in Headers /\ elapsed = Deadline    \* mutant: content is read without the token
Expired     == stage \in Waiting /\ elapsed = Deadline

\* The token of the whole request is cancelled: any other exception, 500.
DeadlineExpires ==
  /\ Expired
  /\ Answer(Mapped(500))
  /\ UNCHANGED <<upstream, todo, unit, items, faults>> /\ NoCall

\* A timer that is due goes off before time goes on.
Tick ==
  /\ stage \in Waiting /\ elapsed < Deadline
  /\ stage \in Headers => waited < CallTimeout
  /\ elapsed' = elapsed + 1
  /\ IF stage \in Headers THEN waited' = waited + 1 /\ UNCHANGED reading
                          ELSE reading' = reading + 1 /\ UNCHANGED waited
  /\ UNCHANGED <<upstream, stage, todo, unit, items, answer, calls, faults>>

-----------------------------------------------------------------------------
(* What goes on in the two services meanwhile.                             *)

Changes ==
  /\ changes < MaxChanges /\ changes' = changes + 1
  /\ UNCHANGED <<stage, todo, unit, items, answer, clock, calls, faults>>

\* OrderService.AddItemToOrderAsync
AddItem(line) ==
  /\ order # NoOrder
  /\ order' = Append(order, line)
  /\ orders' = orders \cup {order'}
  /\ UNCHANGED <<price, prices>> /\ Changes

\* CatalogService: GiftService.UpdateAsync and DeleteAsync.
SetPrice(g, p) ==
  /\ price[g] # Gone
  /\ price' = [price EXCEPT ![g] = p]
  /\ prices' = [prices EXCEPT ![g] = @ \cup {p}]
  /\ UNCHANGED <<order, orders>> /\ Changes

Work == OrderHeaders \/ GiftHeaders \/ OrderContent \/ GiftContent
Time == Tick \/ CallTimesOut \/ DeadlineExpires

Next ==
  \/ Refuse \/ Ask \/ Work \/ CallFails \/ Time
  \/ \E line \in Line : AddItem(line)
  \/ \E g \in Gifts, p \in Prices \cup {Gone} : SetPrice(g, p)

Spec == Init /\ [][Next]_vars

\* Clocks run and timers go off; the other services owe nothing.
FairSpec == Spec /\ WF_vars(Time)

-----------------------------------------------------------------------------
(* The figures of the answer, in cents.                                    *)

SubTotal == Total([i \in DOMAIN items |-> items[i].unit * items[i].qty])

Truncated(n) == n \div 10    \* mutant: cut off instead of rounded

\* Math.Round(subtotal * 0.1m, 2): to the nearest cent, half a cent to the even one.
Tax(n) == LET q == n \div 10
              r == n % 10
          IN  IF r > 5 \/ (r = 5 /\ q % 2 = 1) THEN q + 1 ELSE q

GrandTotal == SubTotal + Tax(SubTotal)

-----------------------------------------------------------------------------
(* Properties.                                                             *)

\* Every variable holds a value of its type.
BffTypeOK ==
  /\ order \in Seq(Line) \cup {NoOrder}
  /\ price \in [Gifts -> Prices \cup {Gone}]
  /\ stage \in {"new", "answered"} \cup Waiting
  /\ unit \in Prices \cup {Gone}
  /\ stage = "giftContent" => unit # Gone
  /\ stage \in {"giftHeaders", "giftContent"} => Len(todo) > 0
  /\ todo \in Seq(Line) /\ items \in Seq(ReadLine)
  /\ answer \in {0, 200, 400, 401, 404, 424, 504}
  /\ elapsed \in 0..Deadline /\ waited \in 0..CallTimeout

\* The lines of the answer are the lines the order had at one moment of the request,
\* each at a price its gift had at some moment of it;
LinesAreOfOneRow ==
  /\ [i \in DOMAIN items |-> [gift |-> items[i].gift, qty |-> items[i].qty]] \in orders
  /\ \A i \in DOMAIN items : items[i].unit \in prices[items[i].gift] \ {Gone}

\* when nothing changed meanwhile, the total is the sum over the order at the catalog's
\* prices and a tenth of it, to the cent.
TotalIsExact ==
  changes = 0 =>
    LET exact == Total([i \in DOMAIN order |-> order[i].qty * price[order[i].gift]])
    IN  /\ 2 * (10 * GrandTotal - 11 * exact) \in -10..10
        /\ Len(items) = Len(order)

\* An answer is complete, although lines are added and gifts repriced and deleted
\* between its calls.
AnswersAreComplete == answer = 200 => LinesAreOfOneRow /\ TotalIsExact

\* At some moment, a gift of a row the order had at some moment was not in the catalog.
SomeGiftWasGone ==
  \E row \in orders \ {NoOrder} : \E i \in DOMAIN row : Gone \in prices[row[i].gift]

\* A failure is blamed on the services only when a call failed, a gift of the order was
\* gone, or they used up all the time there was: so many calls, at most CallTimeout
\* each, and content that came slowly.
BlameIsDeserved ==
  answer = 424 =>
    \/ faults > 0
    \/ SomeGiftWasGone
    \/ elapsed = Deadline /\ calls * CallTimeout + reading >= Deadline

\* Every request is answered, however long the other services are silent and whatever
\* they have begun to send.
RequestsEnd == stage \in Waiting ~> stage = "answered"

-----------------------------------------------------------------------------
(* What the BFF says and the code does not do.                             *)

\* "order not found": the customer is told that the order does not exist only when it
\* does not.
NotFoundMeansAbsent == answer = 404 => NoOrder \in orders

=============================================================================
