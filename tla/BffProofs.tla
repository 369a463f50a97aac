----------------------------- MODULE BffProofs -----------------------------
(***************************************************************************)
(* What holds of BffAggregation for any orders, gifts, prices and changes, *)
(* and any deadline longer than the time of one call.                      *)
(*                                                                         *)
(* Honest is the inductive invariant.  The lines read and those to be read *)
(* are together one row the order has had (OnOneRow), what was read is     *)
(* among what the gifts have cost (AtRealPrices), and no moment is         *)
(* unaccounted for: it belongs to a call that waits for its headers, for   *)
(* CallTimeout at most, or to content that is being read (TimeIsSpent).    *)
(***************************************************************************)
EXTENDS BffAggregation, SequenceTheorems, FiniteSetTheorems, TLAPS

\* BffTypeOK in three parts: what the other services keep, where the request is, and what
\* it has read.
UpstreamTyped ==
  /\ order \in Seq(Line) \cup {NoOrder}
  /\ price \in [Gifts -> Prices \cup {Gone}]

ProgressTyped ==
  /\ stage \in {"new", "answered"} \cup Waiting
  /\ answer \in {0, 200, 400, 401, 404, 424, 504}
  /\ elapsed \in 0..Deadline
  /\ waited \in 0..CallTimeout

ReadTyped ==
  /\ unit \in Prices \cup {Gone}
  /\ stage = "giftContent" => unit # Gone
  /\ stage \in {"giftHeaders", "giftContent"} => Len(todo) > 0
  /\ todo \in Seq(Line)
  /\ items \in Seq(ReadLine)

Typed == UpstreamTyped /\ ProgressTyped /\ ReadTyped

\* The histories hold what was so from the beginning until now.
Recorded ==
  /\ orders \subseteq Seq(Line) \cup {NoOrder} /\ order \in orders
  /\ prices \in [Gifts -> SUBSET (Prices \cup {Gone})]
  /\ \A g \in Gifts : price[g] \in prices[g]
  /\ calls \in Nat /\ reading \in Nat /\ faults \in Nat /\ changes \in Nat

\* Are the lines read, followed by those to be read, this row?
Covers(read, left, rw) ==
  /\ Len(rw) = Len(read) + Len(left)
  /\ \A i \in 1..Len(read) : read[i].gift = rw[i].gift /\ read[i].qty = rw[i].qty
  /\ \A i \in 1..Len(left) : left[i] = rw[Len(read) + i]

OnOneRow ==
  /\ stage \in {"new", "orderHeaders"} => Len(items) = 0
  /\ (stage \in Waiting \ {"orderHeaders"} \/ answer = 200) =>
       \E rw \in orders \ {NoOrder} : Covers(items, todo, rw)
  /\ answer = 200 => Len(todo) = 0
  /\ answer # 0 => stage = "answered"

AtRealPrices ==
  /\ \A i \in 1..Len(items) : items[i].unit \in prices[items[i].gift]
  /\ stage = "giftContent" => unit \in prices[Head(todo).gift]

TimeIsSpent ==
  /\ stage = "new" => elapsed = 0
  /\ stage \in Headers => calls > 0 /\ elapsed <= (calls - 1) * CallTimeout + waited + reading
  /\ stage \in Content => elapsed <= calls * CallTimeout + reading

Honest ==
  /\ Typed
  /\ Recorded
  /\ OnOneRow
  /\ AtRealPrices
  /\ TimeIsSpent
  /\ BlameIsDeserved

-----------------------------------------------------------------------------
\* The steps of the request itself, and what goes on meanwhile.
RequestStep == Refuse \/ Ask \/ Work \/ CallFails \/ Time

ChangeStep ==
  \/ \E line \in Line : AddItem(line)
  \/ \E g \in Gifts, p \in Prices \cup {Gone} : SetPrice(g, p)

\* One call more has its time more.
LEMMA OneCallMore ==
  ASSUME BffAssumption, NEW n \in Nat
  PROVE  /\ n * CallTimeout \in Nat
         /\ (n - 1) * CallTimeout + CallTimeout = n * CallTimeout
<1>1. CallTimeout \in Nat
  BY DEF BffAssumption
<1> QED
  BY <1>1

\* What was read is a line with a price, and a gift that is being read a line's.
LEMMA LinesAreTyped ==
  ASSUME ReadTyped
  PROVE  /\ items \in Seq(ReadLine) /\ Len(items) \in Nat
         /\ \A i \in 1..Len(items) :
              items[i].gift \in Gifts /\ items[i].qty \in Quantities /\ items[i].unit \in Prices
         /\ todo \in Seq(Line) /\ Len(todo) \in Nat
         /\ stage \in {"giftHeaders", "giftContent"} =>
              /\ Len(todo) > 0 /\ Head(todo) = todo[1] /\ Head(todo) \in Line
              /\ Head(todo).gift \in Gifts /\ Head(todo).qty \in Quantities
<1>1. /\ items \in Seq(ReadLine) /\ todo \in Seq(Line)
      /\ stage \in {"giftHeaders", "giftContent"} => Len(todo) > 0
  BY DEF ReadTyped
<1>2. Len(items) \in Nat /\ Len(todo) \in Nat
  BY <1>1, LenProperties
<1>3. \A i \in 1..Len(items) : items[i] \in ReadLine
  BY <1>1, ElementOfSeq
<1>4. \A l \in ReadLine : l.gift \in Gifts /\ l.qty \in Quantities /\ l.unit \in Prices
  BY DEF ReadLine
<1>5. \A l \in Line : l.gift \in Gifts /\ l.qty \in Quantities
  BY DEF Line
<1>6. ASSUME Len(todo) > 0
      PROVE  Head(todo) = todo[1] /\ Head(todo) \in Line
  <2>1. todo \in Seq(Line)
    BY <1>1
  <2>2. todo # <<>>
    BY <1>6, EmptySeq
  <2> QED
    BY <2>1, <2>2, HeadTailProperties
<1> QED
  BY <1>1, <1>2, <1>3, <1>4, <1>5, <1>6

\* A request begins honest.
LEMMA StartsHonest ==
  ASSUME BffAssumption, Init
  PROVE  Honest
<1>1. Typed
  BY DEF BffAssumption, Init, Typed, UpstreamTyped, ProgressTyped, ReadTyped
<1>2. Recorded
  BY DEF BffAssumption, Init, Recorded
<1>3. OnOneRow /\ AtRealPrices /\ TimeIsSpent /\ BlameIsDeserved
  BY EmptySeq DEF Init, OnOneRow, AtRealPrices, TimeIsSpent, BlameIsDeserved, Waiting, Headers, Content
<1> QED
  BY <1>1, <1>2, <1>3 DEF Honest

-----------------------------------------------------------------------------
(* What goes on meanwhile only adds to the histories.                      *)

LEMMA ChangesAreRecorded ==
  ASSUME Typed, Recorded, ChangeStep
  PROVE  /\ Typed' /\ Recorded'
         /\ orders \subseteq orders' /\ \A g \in Gifts : prices[g] \subseteq prices'[g]
         /\ UNCHANGED <<stage, todo, unit, items, answer, elapsed, waited, reading, calls, faults>>
<1>1. ASSUME NEW line \in Line, AddItem(line)
      PROVE  /\ Typed' /\ Recorded' /\ orders \subseteq orders' /\ UNCHANGED prices
             /\ UNCHANGED <<stage, todo, unit, items, answer, elapsed, waited, reading, calls, faults>>
  <2>1. /\ order # NoOrder /\ order' = Append(order, line) /\ orders' = orders \cup {order'}
        /\ UNCHANGED <<price, prices>> /\ changes' = changes + 1
        /\ UNCHANGED <<stage, todo, unit, items, answer, elapsed, waited, reading, calls, faults>>
    BY <1>1 DEF AddItem, Changes, clock
  <2>2. order' \in Seq(Line)
    BY <2>1, AppendProperties DEF Typed, UpstreamTyped
  <2>3. Typed'
    <3>1. UpstreamTyped'
      BY <2>1, <2>2 DEF Typed, UpstreamTyped
    <3>2. ProgressTyped'
      BY <2>1 DEF Typed, ProgressTyped
    <3>3. ReadTyped'
      BY <2>1 DEF Typed, ReadTyped
    <3> QED
      BY <3>1, <3>2, <3>3 DEF Typed
  <2>4. Recorded'
    <3>1. orders' \subseteq Seq(Line) \cup {NoOrder} /\ order' \in orders'
      BY <2>1, <2>2 DEF Recorded
    <3>2. /\ prices' \in [Gifts -> SUBSET (Prices \cup {Gone})]
          /\ \A g \in Gifts : price'[g] \in prices'[g]
      BY <2>1 DEF Recorded
    <3>3. calls' \in Nat /\ reading' \in Nat /\ faults' \in Nat /\ changes' \in Nat
      BY <2>1 DEF Recorded
    <3> QED
      BY <3>1, <3>2, <3>3 DEF Recorded
  <2> QED
    BY <2>1, <2>3, <2>4
<1>2. ASSUME NEW g \in Gifts, NEW p \in Prices \cup {Gone}, SetPrice(g, p)
      PROVE  /\ Typed' /\ Recorded' /\ UNCHANGED orders
             /\ \A h \in Gifts : prices[h] \subseteq prices'[h]
             /\ UNCHANGED <<stage, todo, unit, items, answer, elapsed, waited, reading, calls, faults>>
  <2>1. /\ price' = [price EXCEPT ![g] = p] /\ prices' = [prices EXCEPT ![g] = prices[g] \cup {p}]
        /\ UNCHANGED <<order, orders>> /\ changes' = changes + 1
        /\ UNCHANGED <<stage, todo, unit, items, answer, elapsed, waited, reading, calls, faults>>
    BY <1>2 DEF SetPrice, Changes, clock
  <2>2. /\ price \in [Gifts -> Prices \cup {Gone}] /\ prices \in [Gifts -> SUBSET (Prices \cup {Gone})]
        /\ \A h \in Gifts : price[h] \in prices[h]
    BY DEF Typed, UpstreamTyped, Recorded
  <2>3. /\ price' \in [Gifts -> Prices \cup {Gone}]
        /\ \A h \in Gifts : price'[h] = IF h = g THEN p ELSE price[h]
    BY <2>1, <2>2
  <2>4. prices[g] \cup {p} \in SUBSET (Prices \cup {Gone})
    BY <2>2
  <2>5. /\ prices' \in [Gifts -> SUBSET (Prices \cup {Gone})]
        /\ \A h \in Gifts : prices'[h] = IF h = g THEN prices[g] \cup {p} ELSE prices[h]
    BY <2>1, <2>2, <2>4
  <2>6. Typed'
    <3>1. UpstreamTyped'
      BY <2>1, <2>3 DEF Typed, UpstreamTyped
    <3>2. ProgressTyped'
      BY <2>1 DEF Typed, ProgressTyped
    <3>3. ReadTyped'
      BY <2>1 DEF Typed, ReadTyped
    <3> QED
      BY <3>1, <3>2, <3>3 DEF Typed
  <2>7. Recorded'
    <3>1. orders' \subseteq Seq(Line) \cup {NoOrder} /\ order' \in orders'
      BY <2>1 DEF Recorded
    <3>2. \A h \in Gifts : price'[h] \in prices'[h]
      BY <2>2, <2>3, <2>5
    <3>3. calls' \in Nat /\ reading' \in Nat /\ faults' \in Nat /\ changes' \in Nat
      BY <2>1 DEF Recorded
    <3> QED
      BY <2>5, <3>1, <3>2, <3>3 DEF Recorded
  <2> QED
    BY <2>1, <2>2, <2>5, <2>6, <2>7
<1>3. CASE \E line \in Line : AddItem(line)
  BY <1>1, <1>3
<1>4. CASE \E g \in Gifts, p \in Prices \cup {Gone} : SetPrice(g, p)
  BY <1>2, <1>4
<1> QED
  BY <1>3, <1>4 DEF ChangeStep

LEMMA ChangesStayHonest ==
  ASSUME BffAssumption, Honest, ChangeStep
  PROVE  Honest'
<1>1. /\ Typed' /\ Recorded'
      /\ orders \subseteq orders' /\ \A g \in Gifts : prices[g] \subseteq prices'[g]
      /\ UNCHANGED <<stage, todo, unit, items, answer, elapsed, waited, reading, calls, faults>>
  BY ChangesAreRecorded DEF Honest
<1>2. OnOneRow' /\ TimeIsSpent'
  BY <1>1 DEF Honest, OnOneRow, TimeIsSpent
<1>3. AtRealPrices'
  <2>1. \A i \in 1..Len(items) : items[i].gift \in Gifts
    BY LinesAreTyped DEF Honest, Typed
  <2>2. stage = "giftContent" => Head(todo).gift \in Gifts
    BY LinesAreTyped DEF Honest, Typed, Content
  <2>3. \A i \in 1..Len(items) : items[i].unit \in prices'[items[i].gift]
    BY <1>1, <2>1 DEF Honest, AtRealPrices
  <2>4. stage = "giftContent" => unit \in prices'[Head(todo).gift]
    BY <1>1, <2>2 DEF Honest, AtRealPrices
  <2> QED
    BY <1>1, <2>3, <2>4 DEF AtRealPrices
<1>4. BlameIsDeserved'
  <2>1. ASSUME NEW rw \in orders \ {NoOrder}, NEW i \in DOMAIN rw, Gone \in prices[rw[i].gift]
        PROVE  rw \in orders' \ {NoOrder} /\ Gone \in prices'[rw[i].gift]
    <3>1. rw \in Seq(Line)
      BY DEF Honest, Recorded
    <3>2. rw[i] \in Line
      BY <2>1, <3>1
    <3>3. rw[i].gift \in Gifts
      BY <3>2 DEF Line
    <3> QED
      BY <1>1, <2>1, <3>3
  <2>2. SomeGiftWasGone => SomeGiftWasGone'
    BY <2>1 DEF SomeGiftWasGone
  <2> QED
    BY <1>1, <2>2 DEF Honest, BlameIsDeserved
<1> QED
  BY <1>1, <1>2, <1>3, <1>4 DEF Honest

-----------------------------------------------------------------------------
(* The request itself.                                                     *)

\* Its steps leave the other services and their histories alone.
LEMMA RequestsChangeNothing ==
  ASSUME RequestStep
  PROVE  UNCHANGED <<order, price, orders, prices, changes>>
BY DEF RequestStep, Work, Time, Refuse, Ask, OrderHeaders, GiftHeaders, OrderContent, GiftContent,
   CallFails, CallTimesOut, DeadlineExpires, Tick, upstream

\* The status answered for a status that was met.
LEMMA StatusesAreMapped ==
  /\ Mapped(500) = 424 /\ Mapped(408) = 504
  /\ stage = "orderHeaders" => Mapped(404) = 404
  /\ stage = "giftHeaders" => Mapped(404) = 424
  /\ Mapped(401) \in {401, 424}
<1>1. /\ OrderAnswer(500) = 424 /\ OrderAnswer(408) = 504
      /\ OrderAnswer(404) = 404 /\ OrderAnswer(401) = 401
  BY DEF OrderAnswer
<1>2. GiftAnswer(500) = 424 /\ GiftAnswer(408) = 504 /\ GiftAnswer(404) = 424 /\ GiftAnswer(401) = 424
  BY DEF GiftAnswer
<1>3. CASE stage \in {"orderHeaders", "orderContent"}
  <2>1. /\ Mapped(500) = OrderAnswer(500) /\ Mapped(408) = OrderAnswer(408)
        /\ Mapped(404) = OrderAnswer(404) /\ Mapped(401) = OrderAnswer(401)
    BY <1>3 DEF Mapped
  <2>2. stage # "giftHeaders"
    BY <1>3
  <2>3. Mapped(500) = 424 /\ Mapped(408) = 504 /\ Mapped(404) = 404 /\ Mapped(401) = 401
    BY <1>1, <2>1
  <2> QED
    BY <2>2, <2>3
<1>4. CASE stage \notin {"orderHeaders", "orderContent"}
  <2>1. /\ Mapped(500) = GiftAnswer(500) /\ Mapped(408) = GiftAnswer(408)
        /\ Mapped(404) = GiftAnswer(404) /\ Mapped(401) = GiftAnswer(401)
    BY <1>4 DEF Mapped
  <2>2. stage # "orderHeaders"
    BY <1>4
  <2>3. Mapped(500) = 424 /\ Mapped(408) = 504 /\ Mapped(404) = 424 /\ Mapped(401) = 424
    BY <1>2, <2>1
  <2> QED
    BY <2>2, <2>3
<1> QED
  BY <1>3, <1>4

\* A failure is answered: it has to be blamed on something, and nothing else changes.
LEMMA FailuresStayHonest ==
  ASSUME BffAssumption, Honest, UNCHANGED <<order, price, orders, prices, changes>>,
         UNCHANGED <<todo, unit, items, elapsed, waited, reading, calls>>,
         stage' = "answered", answer' \in {400, 401, 404, 424, 504}, faults' \in Nat,
         answer' = 424 =>
           \/ faults' > 0 \/ SomeGiftWasGone
           \/ elapsed = Deadline /\ calls * CallTimeout + reading >= Deadline
  PROVE  Honest'
<1>1. Typed'
  <2>1. UpstreamTyped' /\ ProgressTyped'
    BY DEF Honest, Typed, UpstreamTyped, ProgressTyped
  <2>2. ReadTyped'
    BY DEF Honest, Typed, ReadTyped
  <2> QED
    BY <2>1, <2>2 DEF Typed
<1>2. Recorded'
  BY DEF Honest, Recorded
<1>3. OnOneRow' /\ AtRealPrices' /\ TimeIsSpent'
  <2>1. stage' \notin {"new"} \cup Waiting /\ answer' # 200
    BY DEF Waiting, Headers, Content
  <2>2. OnOneRow'
    BY <2>1 DEF OnOneRow, Waiting, Headers
  <2>3. AtRealPrices'
    <3>1. stage' # "giftContent"
      OBVIOUS
    <3> QED
      BY <3>1 DEF Honest, AtRealPrices
  <2>4. TimeIsSpent'
    BY <2>1 DEF TimeIsSpent, Waiting
  <2> QED
    BY <2>2, <2>3, <2>4
<1>4. BlameIsDeserved'
  BY DEF BlameIsDeserved, SomeGiftWasGone
<1> QED
  BY <1>1, <1>2, <1>3, <1>4 DEF Honest

\* In time, a call that waits has waited for CallTimeout at most.
LEMMA WaitingIsAccounted ==
  ASSUME BffAssumption, Honest, stage \in Waiting
  PROVE  elapsed <= calls * CallTimeout + reading
<1>1. /\ CallTimeout \in Nat /\ waited \in 0..CallTimeout /\ elapsed \in Nat
      /\ calls \in Nat /\ reading \in Nat
  BY DEF Honest, Typed, ProgressTyped, Recorded, BffAssumption
<1>2. /\ calls * CallTimeout \in Nat
      /\ (calls - 1) * CallTimeout + CallTimeout = calls * CallTimeout
  BY <1>1, OneCallMore
<1>3. CASE stage \in Headers
  <2>1. PICK n \in Int : n = (calls - 1) * CallTimeout
    BY <1>1
  <2>2. elapsed <= n + waited + reading
    BY <1>3, <2>1 DEF Honest, TimeIsSpent
  <2> QED
    BY <1>1, <1>2, <2>1, <2>2
<1>4. CASE stage \in Content
  BY <1>4 DEF Honest, TimeIsSpent
<1> QED
  BY <1>3, <1>4 DEF Waiting

\* Every failure is one of those a failure may be blamed on.
LEMMA FailingIsHonest ==
  ASSUME BffAssumption, Honest,
         \/ Refuse \/ CallFails \/ CallTimesOut \/ DeadlineExpires
         \/ OrderHeaders /\ OrderStatus # 200
         \/ GiftHeaders /\ price[Head(todo).gift] = Gone
  PROVE  Honest'
<1>1. /\ UNCHANGED <<order, price, orders, prices, changes>>
      /\ UNCHANGED <<todo, unit, items, elapsed, waited, reading, calls>>
      /\ stage' = "answered"
  BY DEF Refuse, CallFails, CallTimesOut, DeadlineExpires, OrderHeaders, GiftHeaders, Answer, NoCall,
     clock, upstream
<1>2. faults \in Nat
  BY DEF Honest, Recorded
<1>3. CASE Refuse
  <2>1. answer' = 400 /\ faults' = faults
    BY <1>3 DEF Refuse, Answer
  <2> QED
    BY <1>1, <1>2, <2>1, FailuresStayHonest
<1>4. CASE CallFails
  <2>1. faults' = faults + 1 /\ answer' \in {424, 401}
    <3>1. faults' = faults + 1 /\ (answer' = Mapped(500) \/ answer' = Mapped(401))
      BY <1>4 DEF CallFails, Answer
    <3>2. Mapped(500) = 424 /\ Mapped(401) \in {401, 424}
      BY StatusesAreMapped
    <3> QED
      BY <3>1, <3>2
  <2>2. faults' \in Nat /\ faults' > 0
    BY <1>2, <2>1
  <2> QED
    BY <1>1, <2>1, <2>2, FailuresStayHonest
<1>5. CASE CallTimesOut
  <2>1. answer' = 504 /\ faults' = faults
    BY <1>5, StatusesAreMapped DEF CallTimesOut, Answer
  <2> QED
    BY <1>1, <1>2, <2>1, FailuresStayHonest
<1>6. CASE DeadlineExpires
  <2>1. answer' = 424 /\ faults' = faults /\ stage \in Waiting /\ elapsed = Deadline
    BY <1>6, StatusesAreMapped DEF DeadlineExpires, Answer, Expired
  <2>2. elapsed <= calls * CallTimeout + reading
    BY <2>1, WaitingIsAccounted
  <2>3. /\ calls \in Nat /\ reading \in Nat /\ Deadline \in Nat
        /\ calls * CallTimeout \in Nat
    BY OneCallMore DEF Honest, Recorded, BffAssumption
  <2>4. calls * CallTimeout + reading >= Deadline
    BY <2>1, <2>2, <2>3
  <2> QED
    BY <1>1, <1>2, <2>1, <2>4, FailuresStayHonest
<1>7. CASE OrderHeaders /\ OrderStatus # 200
  <2>1. OrderStatus = 404
    BY <1>7 DEF OrderStatus
  <2>2. answer' = 404 /\ faults' = faults
    <3>1. stage = "orderHeaders" /\ answer' = Mapped(OrderStatus) /\ faults' = faults
      BY <1>7 DEF OrderHeaders, Answer
    <3> QED
      BY <2>1, <3>1, StatusesAreMapped
  <2> QED
    BY <1>1, <1>2, <2>2, FailuresStayHonest
<1>8. CASE GiftHeaders /\ price[Head(todo).gift] = Gone
  <2>1. answer' = 424 /\ faults' = faults /\ stage = "giftHeaders"
    BY <1>8, StatusesAreMapped DEF GiftHeaders, Answer
  <2>2. SomeGiftWasGone
    <3>1. PICK rw \in orders \ {NoOrder} : Covers(items, todo, rw)
      BY <2>1 DEF Honest, OnOneRow, Waiting, Headers
    <3>2. /\ Len(items) \in Nat /\ Len(todo) \in Nat /\ Len(todo) > 0
          /\ Head(todo) = todo[1] /\ Head(todo).gift \in Gifts
      BY <2>1, LinesAreTyped DEF Honest, Typed
    <3>3. rw[Len(items) + 1] = Head(todo) /\ Len(items) + 1 \in 1..Len(rw)
      BY <3>1, <3>2 DEF Covers
    <3>4. rw \in Seq(Line)
      BY DEF Honest, Recorded
    <3>5. Len(items) + 1 \in DOMAIN rw
      BY <3>3, <3>4, LenProperties
    <3>6. Gone \in prices[Head(todo).gift]
      BY <1>8, <3>2 DEF Honest, Recorded
    <3> QED
      BY <3>3, <3>5, <3>6 DEF SomeGiftWasGone
  <2> QED
    BY <1>1, <1>2, <2>1, <2>2, FailuresStayHonest
<1> QED
  BY <1>3, <1>4, <1>5, <1>6, <1>7, <1>8

-----------------------------------------------------------------------------
\* A line that is read goes from the lines left to the lines read.
LEMMA ReadingCovers ==
  ASSUME NEW read \in Seq(ReadLine), NEW left \in Seq(Line), Len(left) > 0,
         NEW rw, Covers(read, left, rw), NEW p \in Prices
  PROVE  /\ Append(read, Item(Head(left), p)) \in Seq(ReadLine) /\ Tail(left) \in Seq(Line)
         /\ Len(Append(read, Item(Head(left), p))) = Len(read) + 1
         /\ \A i \in 1..Len(read) : Append(read, Item(Head(left), p))[i] = read[i]
         /\ Append(read, Item(Head(left), p))[Len(read) + 1] = Item(Head(left), p)
         /\ Covers(Append(read, Item(Head(left), p)), Tail(left), rw)
<1>1. PICK line \in Line : line = Head(left) /\ line = left[1]
  <2>1. left # <<>>
    BY EmptySeq
  <2> QED
    BY <2>1, HeadTailProperties
<1>2. PICK item : item = Item(line, p)
  OBVIOUS
<1>3. item \in ReadLine /\ item.gift = line.gift /\ item.qty = line.qty
  BY <1>2 DEF Item, Line, ReadLine
<1>4. PICK more : more = Append(read, item)
  OBVIOUS
<1>5. /\ more \in Seq(ReadLine) /\ Len(more) = Len(read) + 1
      /\ \A i \in 1..Len(read) : more[i] = read[i]
      /\ more[Len(read) + 1] = item
  BY <1>3, <1>4, AppendProperties
<1>6. PICK less : less = Tail(left)
  OBVIOUS
<1>7. /\ less \in Seq(Line) /\ Len(less) = Len(left) - 1
      /\ \A i \in 1..Len(less) : less[i] = left[i + 1]
  BY <1>6, HeadTailProperties, EmptySeq
<1>8. Len(read) \in Nat /\ Len(left) \in Nat
  BY LenProperties
<1>9. Covers(more, less, rw)
  <2>1. Len(rw) = Len(more) + Len(less)
    BY <1>5, <1>7, <1>8 DEF Covers
  <2>2. ASSUME NEW i \in 1..Len(more)
        PROVE  more[i].gift = rw[i].gift /\ more[i].qty = rw[i].qty
    <3>1. CASE i \in 1..Len(read)
      BY <1>5, <3>1 DEF Covers
    <3>2. CASE i = Len(read) + 1
      <4>1. rw[Len(read) + 1] = left[1]
        BY <1>8 DEF Covers
      <4> QED
        BY <1>1, <1>3, <1>5, <3>2, <4>1
    <3> QED
      BY <1>5, <1>8, <3>1, <3>2
  <2>3. ASSUME NEW i \in 1..Len(less)
        PROVE  less[i] = rw[Len(more) + i]
    <3>1. i + 1 \in 1..Len(left) /\ Len(more) + i = Len(read) + (i + 1)
      BY <1>5, <1>7, <1>8
    <3> QED
      BY <1>7, <3>1 DEF Covers
  <2> QED
    BY <2>1, <2>2, <2>3 DEF Covers
<1> QED
  BY <1>1, <1>2, <1>4, <1>5, <1>6, <1>7, <1>9

\* A step that goes on or answers 200 blames nobody.
LEMMA GoingOnIsHonest ==
  ASSUME Honest, UNCHANGED <<order, price, orders, prices, changes, faults>>,
         answer' \in {0, 200}, calls' \in Nat, reading' \in Nat,
         ProgressTyped', ReadTyped', OnOneRow', AtRealPrices', TimeIsSpent'
  PROVE  Honest'
<1>1. Typed'
  BY DEF Honest, Typed, UpstreamTyped
<1>2. Recorded'
  BY DEF Honest, Recorded
<1>3. BlameIsDeserved'
  BY DEF BlameIsDeserved
<1> QED
  BY <1>1, <1>2, <1>3 DEF Honest

\* What is known while a request is not answered, in numbers.
LEMMA InProgressIsTyped ==
  ASSUME BffAssumption, Honest, stage # "answered"
  PROVE  /\ answer = 0
         /\ elapsed \in Nat /\ elapsed \in 0..Deadline /\ Deadline \in Nat
         /\ waited \in Nat /\ waited \in 0..CallTimeout /\ CallTimeout \in Nat
         /\ calls \in Nat /\ calls + 1 \in Nat /\ reading \in Nat
         /\ calls * CallTimeout \in Nat
         /\ (calls - 1) * CallTimeout \in Int
         /\ (calls - 1) * CallTimeout + CallTimeout = calls * CallTimeout
<1>1. /\ elapsed \in 0..Deadline /\ Deadline \in Nat
      /\ waited \in 0..CallTimeout /\ CallTimeout \in Nat
      /\ calls \in Nat /\ reading \in Nat
  BY DEF Honest, Typed, ProgressTyped, Recorded, BffAssumption
<1>2. /\ calls * CallTimeout \in Nat
      /\ (calls - 1) * CallTimeout + CallTimeout = calls * CallTimeout
  BY <1>1, OneCallMore
<1>3. answer = 0
  BY DEF Honest, OnOneRow
<1>4. (calls - 1) * CallTimeout \in Int
  BY <1>1
<1> QED
  BY <1>1, <1>2, <1>3, <1>4

LEMMA AskingIsHonest ==
  ASSUME BffAssumption, Honest, Ask
  PROVE  Honest'
<1>1. /\ stage = "new" /\ stage' = "orderHeaders" /\ waited' = 0 /\ calls' = calls + 1
      /\ UNCHANGED <<order, price, orders, prices, changes, todo, unit, items, answer, faults>>
      /\ UNCHANGED <<elapsed, reading>>
  BY DEF Ask, Calls, upstream
<1>2. /\ answer = 0 /\ elapsed = 0 /\ Len(items) = 0 /\ elapsed \in 0..Deadline
      /\ calls \in Nat /\ calls + 1 \in Nat /\ reading \in Nat /\ CallTimeout \in Nat
  BY <1>1, InProgressIsTyped DEF Honest, TimeIsSpent, OnOneRow
<1>3. ProgressTyped'
  <2>1. waited' \in 0..CallTimeout
    BY <1>1, <1>2
  <2> QED
    BY <1>1, <1>2, <2>1 DEF ProgressTyped, Waiting, Headers
<1>4. ReadTyped'
  BY <1>1 DEF Honest, Typed, ReadTyped
<1>5. OnOneRow'
  BY <1>1, <1>2 DEF OnOneRow, Waiting, Headers
<1>6. AtRealPrices'
  BY <1>1 DEF Honest, AtRealPrices
<1>7. TimeIsSpent'
  <2>1. calls' > 0 /\ calls' - 1 = calls
    BY <1>1, <1>2
  <2>2. PICK n \in Nat : n = calls * CallTimeout
    BY <1>2, OneCallMore
  <2>3. 0 <= n + 0 + reading
    BY <1>2, <2>2
  <2>4. elapsed' <= (calls' - 1) * CallTimeout + waited' + reading'
    BY <1>1, <1>2, <2>1, <2>2, <2>3
  <2> QED
    BY <1>1, <2>1, <2>4 DEF TimeIsSpent, Headers, Content
<1> QED
  BY <1>1, <1>2, <1>3, <1>4, <1>5, <1>6, <1>7, GoingOnIsHonest

\* The lines of the order are all to be read.
LEMMA OrderIsFound ==
  ASSUME BffAssumption, Honest, OrderHeaders, OrderStatus = 200
  PROVE  Honest'
<1>1. /\ stage = "orderHeaders" /\ stage' = "orderContent" /\ todo' = order
      /\ UNCHANGED <<order, price, orders, prices, changes, unit, items, answer, faults>>
      /\ UNCHANGED <<elapsed, waited, calls, reading>>
  BY DEF OrderHeaders, NoCall, upstream, clock
<1>2. /\ answer = 0 /\ elapsed \in 0..Deadline /\ waited \in 0..CallTimeout
      /\ elapsed \in Nat /\ waited \in Nat /\ CallTimeout \in Nat
      /\ calls \in Nat /\ reading \in Nat /\ calls * CallTimeout \in Nat
  BY <1>1, InProgressIsTyped
<1>3. order # NoOrder /\ order \in Seq(Line) /\ order \in orders /\ Len(items) = 0
  <2>1. order # NoOrder
    BY DEF OrderStatus
  <2> QED
    BY <1>1, <2>1 DEF Honest, Typed, UpstreamTyped, Recorded, OnOneRow
<1>4. ProgressTyped'
  BY <1>1, <1>2 DEF ProgressTyped, Waiting, Content
<1>5. ReadTyped'
  BY <1>1, <1>3 DEF Honest, Typed, ReadTyped
<1>6. OnOneRow'
  <2>1. Covers(items, order, order)
    <3>1. Len(items) = 0 /\ Len(order) \in Nat
      BY <1>3, LenProperties
    <3> QED
      BY <3>1 DEF Covers
  <2>2. \E rw \in orders' \ {NoOrder} : Covers(items', todo', rw)
    BY <1>1, <1>3, <2>1
  <2> QED
    BY <1>1, <1>2, <2>2 DEF OnOneRow
<1>7. AtRealPrices'
  BY <1>1 DEF Honest, AtRealPrices
<1>8. TimeIsSpent'
  <2>1. elapsed <= calls * CallTimeout + reading
    BY <1>1, WaitingIsAccounted DEF Waiting, Headers
  <2> QED
    BY <1>1, <2>1 DEF TimeIsSpent, Headers
<1> QED
  BY <1>1, <1>2, <1>4, <1>5, <1>6, <1>7, <1>8, GoingOnIsHonest

\* The price under way is the one the gift had when the headers were sent.
LEMMA GiftIsFound ==
  ASSUME BffAssumption, Honest, GiftHeaders, price[Head(todo).gift] # Gone
  PROVE  Honest'
<1>1. /\ stage = "giftHeaders" /\ stage' = "giftContent" /\ unit' = price[Head(todo).gift]
      /\ UNCHANGED <<order, price, orders, prices, changes, todo, items, answer, faults>>
      /\ UNCHANGED <<elapsed, waited, calls, reading>>
  BY DEF GiftHeaders, NoCall, upstream, clock
<1>2. /\ answer = 0 /\ elapsed \in 0..Deadline /\ waited \in 0..CallTimeout
      /\ calls \in Nat /\ reading \in Nat
  BY <1>1, InProgressIsTyped
<1>3. Head(todo).gift \in Gifts /\ Len(todo) > 0
  BY <1>1, LinesAreTyped DEF Honest, Typed
<1>4. unit' \in Prices /\ unit' # Gone /\ unit' \in prices[Head(todo).gift]
  BY <1>1, <1>3 DEF Honest, Typed, UpstreamTyped, Recorded
<1>5. ProgressTyped'
  BY <1>1, <1>2 DEF ProgressTyped, Waiting, Content
<1>6. ReadTyped'
  BY <1>1, <1>3, <1>4 DEF Honest, Typed, ReadTyped
<1>7. OnOneRow'
  <2>1. \E rw \in orders \ {NoOrder} : Covers(items, todo, rw)
    BY <1>1 DEF Honest, OnOneRow, Waiting, Headers
  <2> QED
    BY <1>1, <1>2, <2>1 DEF OnOneRow
<1>8. AtRealPrices'
  BY <1>1, <1>4 DEF Honest, AtRealPrices
<1>9. TimeIsSpent'
  <2>1. elapsed <= calls * CallTimeout + reading
    BY <1>1, WaitingIsAccounted DEF Waiting, Headers
  <2> QED
    BY <1>1, <2>1 DEF TimeIsSpent, Headers
<1> QED
  BY <1>1, <1>2, <1>5, <1>6, <1>7, <1>8, <1>9, GoingOnIsHonest

\* After a line, the next one is asked for, or everything is there.
LEMMA ContinuingIsHonest ==
  ASSUME BffAssumption, Honest, stage \in Content, Continue(todo'),
         UNCHANGED <<order, price, orders, prices, changes, faults>>,
         items' \in Seq(ReadLine), todo' \in Seq(Line), unit' = unit,
         \E rw \in orders \ {NoOrder} : Covers(items', todo', rw),
         \A i \in 1..Len(items') : items'[i].unit \in prices[items'[i].gift]
  PROVE  Honest'
<1>1. /\ answer = 0 /\ elapsed \in 0..Deadline /\ elapsed \in Nat /\ CallTimeout \in Nat
      /\ waited \in 0..CallTimeout /\ calls \in Nat /\ calls + 1 \in Nat /\ reading \in Nat
  BY InProgressIsTyped DEF Content
<1>2. unit' \in Prices \cup {Gone}
  BY DEF Honest, Typed, ReadTyped
<1>3. CASE todo' = <<>>
  <2>1. /\ stage' = "answered" /\ answer' = 200
        /\ UNCHANGED <<elapsed, waited, calls, reading>>
    BY <1>3 DEF Continue, Answer, NoCall, clock
  <2>2. Len(todo') = 0
    BY <1>3, EmptySeq
  <2>3. ProgressTyped' /\ ReadTyped'
    BY <1>1, <1>2, <2>1 DEF ProgressTyped, ReadTyped
  <2>4. OnOneRow' /\ AtRealPrices'
    BY <2>1, <2>2 DEF OnOneRow, AtRealPrices
  <2>5. TimeIsSpent'
    BY <2>1 DEF TimeIsSpent, Headers, Content
  <2> QED
    BY <1>1, <2>1, <2>3, <2>4, <2>5, GoingOnIsHonest
<1>4. CASE todo' # <<>>
  <2>1. /\ stage' = "giftHeaders" /\ waited' = 0 /\ calls' = calls + 1
        /\ UNCHANGED <<elapsed, reading, answer>>
    BY <1>4 DEF Continue, Calls
  <2>2. Len(todo') > 0
    BY <1>4, EmptySeq
  <2>3. ProgressTyped'
    <3>1. waited' \in 0..CallTimeout
      BY <1>1, <2>1
    <3> QED
      BY <1>1, <2>1, <3>1 DEF ProgressTyped, Waiting, Headers
  <2>4. ReadTyped'
    BY <1>2, <2>1, <2>2 DEF ReadTyped
  <2>5. OnOneRow' /\ AtRealPrices'
    BY <1>1, <2>1 DEF OnOneRow, AtRealPrices
  <2>6. TimeIsSpent'
    <3>1. elapsed <= calls * CallTimeout + reading
      BY DEF Honest, TimeIsSpent
    <3>2. calls' > 0 /\ calls' - 1 = calls
      BY <1>1, <2>1
    <3>3. PICK n \in Nat : n = calls * CallTimeout
      BY <1>1, OneCallMore
    <3>4. elapsed <= n + 0 + reading
      BY <1>1, <3>1, <3>3
    <3>5. elapsed' <= (calls' - 1) * CallTimeout + waited' + reading'
      BY <2>1, <3>2, <3>3, <3>4
    <3> QED
      BY <2>1, <3>2, <3>5 DEF TimeIsSpent, Headers, Content
  <2> QED
    BY <1>1, <2>1, <2>3, <2>4, <2>5, <2>6, GoingOnIsHonest
<1> QED
  BY <1>3, <1>4

\* The order's content is there: its first gift is asked for, or it has none.
LEMMA OrderIsRead ==
  ASSUME BffAssumption, Honest, OrderContent
  PROVE  Honest'
<1>1. /\ stage = "orderContent"
      /\ UNCHANGED <<order, price, orders, prices, changes, todo, unit, items, faults>>
      /\ Continue(todo)
  BY DEF OrderContent, upstream
<1>2. \E rw \in orders \ {NoOrder} : Covers(items, todo, rw)
  BY <1>1 DEF Honest, OnOneRow, Waiting, Content
<1>3. items' \in Seq(ReadLine) /\ todo' \in Seq(Line) /\ unit' = unit
  BY <1>1 DEF Honest, Typed, ReadTyped
<1>4. \A i \in 1..Len(items') : items'[i].unit \in prices[items'[i].gift]
  BY <1>1 DEF Honest, AtRealPrices
<1>5. \E rw \in orders \ {NoOrder} : Covers(items', todo', rw)
  BY <1>1, <1>2
<1>6. todo' = todo /\ Continue(todo')
  BY <1>1
<1> QED
  BY <1>1, <1>3, <1>4, <1>5, <1>6, ContinuingIsHonest DEF Content

\* The gift's content is there: its line is read.
LEMMA GiftIsRead ==
  ASSUME BffAssumption, Honest, GiftContent
  PROVE  Honest'
<1>1. /\ stage = "giftContent" /\ todo' = Tail(todo) /\ unit' = unit
      /\ items' = Append(items, Item(Head(todo), unit))
      /\ UNCHANGED <<order, price, orders, prices, changes, faults>>
      /\ Continue(Tail(todo))
  BY DEF GiftContent, upstream
<1>2. /\ items \in Seq(ReadLine) /\ Len(items) \in Nat /\ todo \in Seq(Line) /\ Len(todo) > 0
      /\ Head(todo) \in Line /\ unit \in Prices
  BY <1>1, LinesAreTyped DEF Honest, Typed, ReadTyped
<1>3. PICK rw \in orders \ {NoOrder} : Covers(items, todo, rw)
  BY <1>1 DEF Honest, OnOneRow, Waiting, Content
<1>4. /\ items' \in Seq(ReadLine) /\ todo' \in Seq(Line)
      /\ Len(items') = Len(items) + 1
      /\ \A i \in 1..Len(items) : items'[i] = items[i]
      /\ items'[Len(items) + 1] = Item(Head(todo), unit)
      /\ Covers(items', todo', rw)
  BY <1>1, <1>2, <1>3, ReadingCovers
<1>5. \A i \in 1..Len(items') : items'[i].unit \in prices[items'[i].gift]
  <2>1. \A i \in 1..Len(items) : items[i].unit \in prices[items[i].gift]
    BY DEF Honest, AtRealPrices
  <2>2. unit \in prices[Head(todo).gift]
    BY <1>1 DEF Honest, AtRealPrices
  <2>3. Item(Head(todo), unit).unit = unit /\ Item(Head(todo), unit).gift = Head(todo).gift
    BY DEF Item
  <2>4. \A i \in 1..Len(items') : i \in 1..Len(items) \/ i = Len(items) + 1
    BY <1>2, <1>4
  <2> QED
    BY <1>4, <2>1, <2>2, <2>3, <2>4
<1>6. todo' = Tail(todo) /\ Continue(todo')
  BY <1>1
<1> QED
  BY <1>1, <1>2, <1>3, <1>4, <1>5, <1>6, ContinuingIsHonest DEF Content

\* Time goes on within its limits.
LEMMA TimeStaysHonest ==
  ASSUME BffAssumption, Honest, Tick
  PROVE  Honest'
<1>1. /\ stage \in Waiting /\ elapsed < Deadline /\ elapsed' = elapsed + 1
      /\ stage \in Headers => waited < CallTimeout /\ waited' = waited + 1 /\ reading' = reading
      /\ stage \notin Headers => waited' = waited /\ reading' = reading + 1
      /\ UNCHANGED <<order, price, orders, prices, changes, stage, todo, unit, items, answer, calls, faults>>
  BY DEF Tick, upstream
<1>2. /\ answer = 0
      /\ elapsed \in Nat /\ Deadline \in Nat
      /\ waited \in Nat /\ waited \in 0..CallTimeout /\ CallTimeout \in Nat
      /\ calls \in Nat /\ reading \in Nat
  BY <1>1, InProgressIsTyped DEF Waiting, Headers, Content
<1>3. /\ elapsed' \in 0..Deadline /\ waited' \in 0..CallTimeout /\ reading' \in Nat
  BY <1>1, <1>2
<1>4. ProgressTyped'
  BY <1>1, <1>2, <1>3 DEF Honest, Typed, ProgressTyped
<1>5. ReadTyped'
  BY <1>1 DEF Honest, Typed, ReadTyped
<1>6. OnOneRow' /\ AtRealPrices'
  BY <1>1 DEF Honest, OnOneRow, AtRealPrices
<1>7. TimeIsSpent'
  <2>1. PICK n \in Int : n = (calls - 1) * CallTimeout
    BY <1>2
  <2>2. PICK k \in Int : k = calls * CallTimeout
    BY <1>2
  <2>3. CASE stage \in Headers
    <3>1. calls > 0 /\ elapsed <= n + waited + reading
      BY <2>1, <2>3 DEF Honest, TimeIsSpent
    <3>2. elapsed' <= n + waited' + reading'
      BY <1>1, <1>2, <2>3, <3>1
    <3> QED
      BY <1>1, <2>1, <2>3, <3>1, <3>2 DEF TimeIsSpent, Headers, Content
  <2>4. CASE stage \notin Headers
    <3>1. elapsed <= k + reading /\ stage \in Content
      BY <1>1, <2>2, <2>4 DEF Honest, TimeIsSpent, Waiting
    <3>2. elapsed' <= k + reading'
      BY <1>1, <1>2, <2>4, <3>1
    <3> QED
      BY <1>1, <2>2, <2>4, <3>1, <3>2 DEF TimeIsSpent, Headers, Content
  <2> QED
    BY <2>3, <2>4
<1> QED
  BY <1>1, <1>2, <1>3, <1>4, <1>5, <1>6, <1>7, GoingOnIsHonest

-----------------------------------------------------------------------------
LEMMA StaysHonest ==
  ASSUME BffAssumption, Honest, [Next]_vars
  PROVE  Honest'
<1>1. CASE ChangeStep
  BY <1>1, ChangesStayHonest
<1>2. CASE UNCHANGED vars
  <2>1. UNCHANGED <<order, price, orders, prices, changes, faults, stage, todo, unit, items, answer,
                    calls, elapsed, waited, reading>>
    BY <1>2 DEF vars, upstream, clock
  <2>2. ProgressTyped' /\ ReadTyped'
    BY <2>1 DEF Honest, Typed, ProgressTyped, ReadTyped
  <2>3. UpstreamTyped' /\ Recorded'
    BY <2>1 DEF Honest, Typed, UpstreamTyped, Recorded
  <2>4. OnOneRow' /\ AtRealPrices' /\ TimeIsSpent'
    BY <2>1 DEF Honest, OnOneRow, AtRealPrices, TimeIsSpent
  <2>5. BlameIsDeserved'
    BY <2>1 DEF Honest, BlameIsDeserved, SomeGiftWasGone
  <2> QED
    BY <2>2, <2>3, <2>4, <2>5 DEF Honest, Typed
<1>3. CASE RequestStep
  <2>1. CASE Ask
    BY <2>1, AskingIsHonest
  <2>2. CASE OrderHeaders
    BY <2>2, OrderIsFound, FailingIsHonest
  <2>3. CASE GiftHeaders
    BY <2>3, GiftIsFound, FailingIsHonest
  <2>4. CASE OrderContent
    BY <2>4, OrderIsRead
  <2>5. CASE GiftContent
    BY <2>5, GiftIsRead
  <2>6. CASE Tick
    BY <2>6, TimeStaysHonest
  <2>7. CASE Refuse \/ CallFails \/ CallTimesOut \/ DeadlineExpires
    BY <2>7, FailingIsHonest
  <2> QED
    BY <1>3, <2>1, <2>2, <2>3, <2>4, <2>5, <2>6, <2>7 DEF RequestStep, Work, Time
<1> QED
  BY <1>1, <1>2, <1>3 DEF Next, RequestStep, ChangeStep

LEMMA AlwaysHonest == Spec => []Honest
<1>1. Init => Honest
  BY StartsHonest, BffAssumption
<1>2. Honest /\ [Next]_vars => Honest'
  BY StaysHonest, BffAssumption
<1> QED
  BY <1>1, <1>2, PTL DEF Spec

\* Every variable keeps its type, whatever the other services answer and when.
THEOREM BffTypes == Spec => []BffTypeOK
<1>1. ASSUME Honest
      PROVE  BffTypeOK
  BY <1>1 DEF Honest, Typed, UpstreamTyped, ProgressTyped, ReadTyped, BffTypeOK
<1> QED
  BY <1>1, AlwaysHonest, PTL

\* The services are blamed only for a failed call, a gift that was gone, or all the time
\* there was.
THEOREM BlameIsAlwaysDeserved == Spec => []BlameIsDeserved
<1>1. ASSUME Honest
      PROVE  BlameIsDeserved
  BY <1>1 DEF Honest
<1> QED
  BY <1>1, AlwaysHonest, PTL

\* The lines of a complete answer are those the order had at one moment, at prices their
\* gifts had.
THEOREM AnswersListOneRow == Spec => [](answer = 200 => LinesAreOfOneRow)
<1>1. ASSUME Honest, answer = 200
      PROVE  LinesAreOfOneRow
  <2>1. PICK rw \in orders \ {NoOrder} : Covers(items, todo, rw)
    BY <1>1 DEF Honest, OnOneRow
  <2>2. /\ items \in Seq(ReadLine) /\ Len(items) \in Nat /\ DOMAIN items = 1..Len(items)
        /\ \A i \in 1..Len(items) : items[i].unit \in Prices
    BY <1>1, LinesAreTyped, LenProperties DEF Honest, Typed
  <2>3. rw \in Seq(Line) /\ Len(rw) = Len(items) /\ DOMAIN rw = 1..Len(rw)
    <3>1. rw \in Seq(Line) /\ Len(todo) = 0
      BY <1>1 DEF Honest, Recorded, OnOneRow
    <3> QED
      BY <2>1, <2>2, <3>1, LenProperties DEF Covers
  <2>4. \A i \in DOMAIN items : [gift |-> items[i].gift, qty |-> items[i].qty] = rw[i]
    <3>1. ASSUME NEW i \in 1..Len(items)
          PROVE  [gift |-> items[i].gift, qty |-> items[i].qty] = rw[i]
      <4>1. rw[i] \in Line
        BY <2>3, ElementOfSeq
      <4>2. rw[i].gift = items[i].gift /\ rw[i].qty = items[i].qty
        BY <2>1 DEF Covers
      <4> QED
        BY <4>1, <4>2 DEF Line
    <3> QED
      BY <2>2, <3>1
  <2>5. [i \in DOMAIN items |-> [gift |-> items[i].gift, qty |-> items[i].qty]] = rw
    BY <2>2, <2>3, <2>4
  <2>6. \A i \in DOMAIN items : items[i].unit \in prices[items[i].gift] \ {Gone}
    <3>1. Gone \notin Prices
      BY BffAssumption DEF BffAssumption
    <3> QED
      BY <1>1, <2>2, <3>1 DEF Honest, AtRealPrices
  <2> QED
    BY <2>5, <2>6 DEF LinesAreOfOneRow
<1> QED
  BY <1>1, AlwaysHonest, PTL

-----------------------------------------------------------------------------
(* The sum of the answer.                                                  *)

\* Until something changes, the histories hold one row and one price a gift.
NothingMoved ==
  changes = 0 => orders = {order} /\ \A g \in Gifts : prices[g] = {price[g]}

LEMMA StaysUnmoved ==
  ASSUME Honest, NothingMoved, [Next]_vars
  PROVE  NothingMoved'
<1>1. changes \in Nat
  BY DEF Honest, Recorded
<1>2. CASE ChangeStep
  <2>1. changes' = changes + 1
    BY <1>2 DEF ChangeStep, AddItem, SetPrice, Changes
  <2> QED
    BY <1>1, <2>1 DEF NothingMoved
<1>3. CASE RequestStep
  <2>1. UNCHANGED <<order, price, orders, prices, changes>>
    BY <1>3, RequestsChangeNothing
  <2> QED
    BY <2>1 DEF NothingMoved
<1>4. CASE UNCHANGED vars
  BY <1>4 DEF vars, upstream, NothingMoved
<1> QED
  BY <1>2, <1>3, <1>4 DEF Next, RequestStep, ChangeStep

LEMMA AlwaysUnmoved == Spec => [](Honest /\ NothingMoved)
<1>1. Init => Honest /\ NothingMoved
  BY StartsHonest, BffAssumption DEF Init, NothingMoved
<1>2. Honest /\ NothingMoved /\ [Next]_vars => Honest' /\ NothingMoved'
  BY StaysHonest, StaysUnmoved, BffAssumption
<1> QED
  BY <1>1, <1>2, PTL DEF Spec

\* A sum of as many naturals as there are lines is a natural.
LEMMA SumsOfLines ==
  ASSUME NEW n \in Nat, NEW w, DOMAIN w = 1..n, \A i \in DOMAIN w : w[i] \in Nat
  PROVE  Total(w) \in Nat
<1> DEFINE part(i) == {i} \X (1..w[i])
           f == [i \in 1..n |-> part(i)]
           R == {part(i) : i \in 1..n}
<1>1. f \in Surjection(1..n, R)
  BY DEF Surjection
<1>2. IsFiniteSet(1..n)
  BY FS_Interval
<1>3. ASSUME NEW i \in 1..n
      PROVE  IsFiniteSet(part(i))
  <2>1. PICK k \in Nat : k = w[i]
    OBVIOUS
  <2>2. IsFiniteSet({i})
    BY FS_Singleton
  <2>3. 1 \in Int /\ k \in Int
    BY <2>1
  <2>4. IsFiniteSet(1..k)
    BY <2>3, FS_Interval
  <2> QED
    BY <2>1, <2>2, <2>4, FS_Product
<1>4. Units(w) = UNION R
  BY DEF Units
<1> HIDE DEF f, R
<1>5. IsFiniteSet(R)
  BY <1>1, <1>2, FS_Surjection
<1>6. \A S \in R : IsFiniteSet(S)
  BY <1>3 DEF R
<1>7. IsFiniteSet(UNION R)
  BY <1>5, <1>6, FS_UNION
<1>8. Cardinality(Units(w)) \in Nat
  BY <1>4, <1>7, FS_CardinalityType
<1>9. Units([i \in DOMAIN w |-> -w[i]]) = {}
  <2> DEFINE v == [i \in DOMAIN w |-> -w[i]]
  <2>1. \A i \in DOMAIN v : 1..v[i] = {}
    OBVIOUS
  <2> HIDE DEF v
  <2>2. Units(v) = {}
    BY <2>1 DEF Units
  <2> QED
    BY <2>2 DEF v
<1>10. Total(w) = Cardinality(Units(w)) - 0
  BY <1>9, FS_EmptySet DEF Total
<1> QED
  BY <1>8, <1>10

\* A tenth, to the nearest cent.
LEMMA TaxIsATenth ==
  ASSUME NEW n \in Nat
  PROVE  Tax(n) \in Nat /\ 10 * Tax(n) - n \in -5..5
<1>1. PICK q \in Nat, r \in 0..9 : q = n \div 10 /\ r = n % 10 /\ n = 10 * q + r
  OBVIOUS
<1>2. Tax(n) = IF r > 5 \/ (r = 5 /\ q % 2 = 1) THEN q + 1 ELSE q
  BY <1>1 DEF Tax
<1> QED
  BY <1>1, <1>2

\* A complete answer has the lines of the order at one moment and prices its gifts had;
\* if nothing changed meanwhile, its sum is that of the order at the catalog's prices and
\* a tenth of it, to the cent.
THEOREM AnswersAreAlwaysComplete == Spec => []AnswersAreComplete
<1>1. ASSUME Honest, NothingMoved, answer = 200, changes = 0
      PROVE  TotalIsExact
  <2>1. PICK rw \in orders \ {NoOrder} : Covers(items, todo, rw)
    BY <1>1 DEF Honest, OnOneRow
  <2>2. rw = order
    BY <1>1 DEF NothingMoved
  <2>3. PICK n \in Nat : n = Len(items)
    BY <1>1, LinesAreTyped DEF Honest, Typed
  <2>4. items \in Seq(ReadLine) /\ DOMAIN items = 1..n
    BY <1>1, <2>3, LinesAreTyped, LenProperties DEF Honest, Typed
  <2>5. order \in Seq(Line) /\ Len(order) = n /\ DOMAIN order = 1..n
    <3>1. rw \in Seq(Line) /\ Len(todo) = 0
      BY <1>1 DEF Honest, Recorded, OnOneRow
    <3>2. Len(rw) = n
      BY <2>1, <2>3, <3>1 DEF Covers
    <3> QED
      BY <2>2, <3>1, <3>2, LenProperties
  <2>6. ASSUME NEW i \in 1..n
        PROVE  /\ items[i].unit * items[i].qty = order[i].qty * price[order[i].gift]
               /\ items[i].unit * items[i].qty \in Nat
    <3>1. /\ items[i].gift \in Gifts /\ items[i].qty \in Nat /\ items[i].unit \in Nat
          /\ items[i].gift = order[i].gift /\ items[i].qty = order[i].qty
      BY <1>1, <2>1, <2>2, <2>3, LinesAreTyped, BffAssumption DEF Honest, Typed, Covers, BffAssumption
    <3>2. items[i].unit = price[items[i].gift]
      BY <1>1, <2>3, <3>1 DEF Honest, AtRealPrices, NothingMoved
    <3>3. \A a, b \in Nat : a * b = b * a /\ a * b \in Nat
      OBVIOUS
    <3> QED
      BY <3>1, <3>2, <3>3
  <2>7. PICK w : w = [i \in DOMAIN items |-> items[i].unit * items[i].qty]
    OBVIOUS
  <2>8. /\ w = [i \in DOMAIN order |-> order[i].qty * price[order[i].gift]]
        /\ DOMAIN w = 1..n /\ \A i \in DOMAIN w : w[i] \in Nat
    BY <2>4, <2>5, <2>6, <2>7
  <2>9. PICK s \in Nat : s = Total(w)
    BY <2>8, SumsOfLines
  <2>10. SubTotal = s /\ GrandTotal = s + Tax(s)
    BY <2>7, <2>9 DEF SubTotal, GrandTotal
  <2>11. PICK t \in Nat : t = Tax(s) /\ 10 * t - s \in -5..5
    BY TaxIsATenth
  <2>12. 2 * (10 * GrandTotal - 11 * s) \in -10..10
    BY <2>10, <2>11
  <2> QED
    BY <2>3, <2>5, <2>8, <2>9, <2>12 DEF TotalIsExact
<1>2. Honest /\ NothingMoved /\ (answer = 200 => LinesAreOfOneRow) => AnswersAreComplete
  BY <1>1 DEF AnswersAreComplete, TotalIsExact
<1> QED
  BY <1>2, AlwaysUnmoved, AnswersListOneRow, PTL

=============================================================================
