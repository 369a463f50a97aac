---------------------------- MODULE StoreProofs ----------------------------
(***************************************************************************)
(* What holds of the store for any buyers, baskets, draws, edits and       *)
(* deletions, and any number of failures and crashes.                      *)
(*                                                                         *)
(* Orderly is the inductive invariant.  Each check of the code is followed *)
(* by an await, so that what it saw must be carried to the write it        *)
(* guards: a draw that goes on had seen no winner (DrawsSawNothing), a     *)
(* deletion that goes on no ticket (DeletionsFaceYoungTickets), and a checkout   *)
(* had met no winner of a line it has passed (PassedLinesAreClear), which  *)
(* its reserved lines (ReservedIsOfBasket) and its tickets (TicketsAreClear) *)
(* inherit.  Winners inserted later have identities nobody had met         *)
(* (MetRowsAreOld), and a buyer with an order is past its checks           *)
(* (OrdersFollowChecks).                                                   *)
(*                                                                         *)
(* Types come first, table by table, then one lemma per conjunct of        *)
(* Orderly and kind of step.                                               *)
(***************************************************************************)
EXTENDS TicketStore, TLAPS

-----------------------------------------------------------------------------
(* Types: the checkout.                                                    *)

\* A line of a basket asks for some number of tickets of a gift.
LEMMA LinesAreTyped == \A l \in Line : l.gift \in Gifts /\ l.qty \in Int
  BY DEF Line, MaxLine

\* The rows a checkout inserts under the identity id, and those that follow it.
LEMMA NewRowsAreTyped ==
  ASSUME PurchaseAssumption, PurchaseTypeOK, NEW b \in Buyers, NEW id \in Nat
  PROVE  /\ Len(reserved[b]) \in Nat
         /\ NewOrder(b, id) \in Order /\ NewOrder(b, id).id = id
         /\ NewTickets(b, id) \subseteq Ticket
         /\ \A t \in NewTickets(b, id) :
              /\ t.order = id /\ t.id \in Nat /\ id < t.id /\ t.id < id + Len(reserved[b]) + 1
              /\ t.origin = "checkout"
              /\ \E i \in DOMAIN reserved[b] : t.gift = reserved[b][i].gift
<1>1. reserved[b] \in Seq(Line) /\ Len(reserved[b]) \in Nat
      /\ DOMAIN reserved[b] = 1..Len(reserved[b])
  BY DEF PurchaseTypeOK
<1>2. \A i \in DOMAIN reserved[b] :
        reserved[b][i] \in Line /\ reserved[b][i].gift \in Gifts /\ reserved[b][i].qty \in Int
  <2>1. \A i \in DOMAIN reserved[b] : reserved[b][i] \in Line
    BY <1>1
  <2> QED
    BY <2>1, LinesAreTyped
<1>3. NewOrder(b, id) \in Order /\ NewOrder(b, id).id = id
  BY DEF NewOrder, Order, PurchaseAssumption
<1>4. ASSUME NEW i \in DOMAIN reserved[b]
      PROVE  /\ id + i \in Nat /\ id < id + i /\ id + i < id + Len(reserved[b]) + 1
             /\ [id |-> id + i, order |-> id, gift |-> reserved[b][i].gift,
                 qty |-> reserved[b][i].qty, origin |-> "checkout"] \in Ticket
  BY <1>1, <1>2, <1>4 DEF Ticket, Origins
<1> QED
  BY <1>1, <1>3, <1>4 DEF NewTickets

\* Rows with identities of their own may be added to the tables.
LEMMA AddingRowsKeepsTypes ==
  ASSUME StoreTypeOK, NEW O \in SUBSET Order, NEW T \in SUBSET Ticket,
         NEW W \in SUBSET Winner, NEW n \in Nat, n >= nextId,
         \A x \in O \cup T \cup W : x.id < n,
         \A t \in T : \E o \in orders \cup O : o.id = t.order,
         orders' = orders \cup O, tickets' = tickets \cup T, winners' = winners \cup W,
         nextId' = n
  PROVE  /\ orders' \subseteq Order /\ tickets' \subseteq Ticket /\ winners' \subseteq Winner
         /\ nextId' \in Nat
         /\ \A o \in orders' : o.id < nextId'
         /\ \A t \in tickets' : t.id < nextId' /\ \E o \in orders' : o.id = t.order
         /\ \A w \in winners' : w.id < nextId'
<1>1. \A x \in orders \cup tickets \cup winners : x.id \in Nat /\ x.id < nextId
  BY DEF StoreTypeOK, PurchaseTypeOK, Order, Ticket, Winner
<1>2. \A x \in O \cup T \cup W : x.id \in Nat
  BY DEF Order, Ticket, Winner
<1>3. \A x \in orders' \cup tickets' \cup winners' : x.id < nextId'
  BY <1>1, <1>2 DEF StoreTypeOK, PurchaseTypeOK
<1> QED
  BY <1>3 DEF StoreTypeOK, PurchaseTypeOK

TablesTyped ==
  /\ live \subseteq Gifts
  /\ orders \subseteq Order /\ tickets \subseteq Ticket /\ winners \subseteq Winner
  /\ nextId \in Nat
  /\ \A o \in orders : o.id < nextId
  /\ \A t \in tickets : t.id < nextId /\ \E o \in orders : o.id = t.order
  /\ \A w \in winners : w.id < nextId

CheckoutsTyped ==
  /\ avail \in [Gifts -> Int]
  /\ pc \in [Buyers -> PC]
  /\ line \in [Buyers -> Nat]
  /\ \A b \in Buyers : line[b] \in DOMAIN Basket[b]
  /\ snapshot \in [Buyers -> SUBSET Gifts]
  /\ reserved \in [Buyers -> Seq(Line)]
  /\ met \in [Buyers -> SUBSET Nat]

RequestsTyped ==
  /\ at \in [Requests -> Done \cup {"won", "pool", "purchasers", "insert", "reread", "draft",
                                    "item", "confirmed", "drafts", "delete"}]
  /\ chosen \in [Draws \cup HandPicks -> Users]
  /\ row \in [Requests -> Nat]
  /\ saw \in [Draws -> SUBSET Nat]
  /\ asked \in [Deletions -> Nat]
  /\ mailed \subseteq [user: Users, gift: Gifts]

CountersTyped ==
  /\ faults \in Nat /\ redisFaults \in Nat /\ crashes \in Nat
  /\ mailFaults \in Nat /\ removals \in Nat

\* StoreTypeOK, by the variables its parts speak of.
LEMMA TypesByPart ==
  StoreTypeOK <=> TablesTyped /\ CheckoutsTyped /\ RequestsTyped /\ CountersTyped
  BY DEF StoreTypeOK, PurchaseTypeOK, TablesTyped, CheckoutsTyped, RequestsTyped, CountersTyped

-----------------------------------------------------------------------------
\* The commit of a checkout, once or twice, or failed.
LEMMA CommitsKeepTables ==
  ASSUME PurchaseAssumption, StoreTypeOK, NEW b \in Buyers,
         Commit(b) \/ CommitThrows(b) \/ CommitTwice(b)
  PROVE  TablesTyped'
<1>0. PurchaseTypeOK /\ nextId \in Nat
  BY DEF StoreTypeOK, PurchaseTypeOK
<1>1. nextId \in Nat /\ Len(reserved[b]) \in Nat
  BY <1>0, NewRowsAreTyped
<1>2. CASE AddOrder(b)
  <2> DEFINE O == {NewOrder(b, nextId)}
             T == NewTickets(b, nextId)
  <2>1. O \in SUBSET Order /\ T \in SUBSET Ticket /\ {} \in SUBSET Winner
    <3>1. NewOrder(b, nextId) \in Order /\ NewTickets(b, nextId) \subseteq Ticket
      BY <1>0, NewRowsAreTyped
    <3> QED
      BY <3>1
  <2>2. \A x \in O \cup T \cup {} : x.id < nextId + Len(reserved[b]) + 1
    <3>1. NewOrder(b, nextId).id = nextId
      BY <1>0, NewRowsAreTyped
    <3>2. \A t \in T : t.id < nextId + Len(reserved[b]) + 1
      BY <1>0, NewRowsAreTyped
    <3> QED
      BY <1>1, <3>1, <3>2
  <2>3. \A t \in T : \E o \in orders \cup O : o.id = t.order
    <3>1. NewOrder(b, nextId).id = nextId /\ \A t \in T : t.order = nextId
      BY <1>0, NewRowsAreTyped
    <3> QED
      BY <3>1
  <2>4. /\ orders' = orders \cup O /\ tickets' = tickets \cup T /\ winners' = winners \cup {}
        /\ nextId' = nextId + Len(reserved[b]) + 1 /\ live' = live
    BY <1>2 DEF AddOrder
  <2>5. /\ nextId + Len(reserved[b]) + 1 \in Nat
        /\ nextId + Len(reserved[b]) + 1 >= nextId
    BY <1>1
  <2> HIDE DEF O, T
  <2> QED
    BY <1>1, <2>1, <2>2, <2>3, <2>4, <2>5, AddingRowsKeepsTypes
       DEF TablesTyped, StoreTypeOK, PurchaseTypeOK
<1>3. CASE UNCHANGED tables
  BY <1>3, TypesByPart DEF tables, TablesTyped
<1>4. CASE CommitTwice(b)
  <2> DEFINE second == nextId + Len(reserved[b]) + 1
             O == {NewOrder(b, nextId), NewOrder(b, second)}
             T == NewTickets(b, nextId) \cup NewTickets(b, second)
  <2>0. second \in Nat /\ nextId < second
    BY <1>1
  <2>1. O \in SUBSET Order /\ T \in SUBSET Ticket /\ {} \in SUBSET Winner
    BY <1>0, <2>0, NewRowsAreTyped
  <2>2. \A x \in O \cup T \cup {} : x.id < second + Len(reserved[b]) + 1
    <3>1. NewOrder(b, nextId).id = nextId /\ NewOrder(b, second).id = second
      BY <1>0, <2>0, NewRowsAreTyped
    <3>2. \A t \in NewTickets(b, nextId) : t.id \in Nat /\ t.id < second
      BY <1>0, NewRowsAreTyped
    <3>3. \A t \in NewTickets(b, second) : t.id < second + Len(reserved[b]) + 1
      BY <1>0, <2>0, NewRowsAreTyped
    <3> HIDE DEF second
    <3> QED
      BY <1>1, <2>0, <3>1, <3>2, <3>3
  <2>3. \A t \in T : \E o \in orders \cup O : o.id = t.order
    <3>1. \A id \in Nat : /\ NewOrder(b, id).id = id
                         /\ \A t \in NewTickets(b, id) : t.order = id
      BY <1>0, NewRowsAreTyped
    <3> QED
      BY <1>0, <2>0, <3>1
  <2>4. /\ orders' = orders \cup O /\ tickets' = tickets \cup T /\ winners' = winners \cup {}
        /\ nextId' = second + Len(reserved[b]) + 1 /\ live' = live
    BY <1>4 DEF CommitTwice
  <2>5. second + Len(reserved[b]) + 1 \in Nat /\ second + Len(reserved[b]) + 1 >= nextId
    BY <1>1, <2>0
  <2> HIDE DEF O, T, second
  <2> QED
    BY <1>1, <2>1, <2>2, <2>3, <2>4, <2>5, AddingRowsKeepsTypes
       DEF TablesTyped, StoreTypeOK, PurchaseTypeOK
<1> QED
  BY <1>2, <1>3, <1>4 DEF Commit, CommitThrows

\* A checkout stays at some line of its basket.
LEMMA LinesStayTyped ==
  ASSUME PurchaseAssumption, CheckoutsTyped, NEW b \in Buyers, NEW i \in DOMAIN Basket[b],
         line' = [line EXCEPT ![b] = i]
  PROVE  line' \in [Buyers -> Nat] /\ \A c \in Buyers : line'[c] \in DOMAIN Basket[c]
<1>1. i \in Nat
  BY DEF PurchaseAssumption
<1>2. \A c \in Buyers : line'[c] = IF c = b THEN i ELSE line[c]
  BY DEF CheckoutsTyped
<1>3. line' \in [Buyers -> Nat]
  BY <1>1 DEF CheckoutsTyped
<1> QED
  BY <1>2, <1>3 DEF CheckoutsTyped

\* No step of a checkout spoils a type.
LEMMA CheckoutStepsKeepTypes ==
  ASSUME PurchaseAssumption, StoreTypeOK, NEW b \in Buyers, Checkout(b)
  PROVE  StoreTypeOK'
<1>1. TablesTyped'
  <2>1. CASE Commit(b) \/ CommitThrows(b) \/ CommitTwice(b)
    BY <2>1, CommitsKeepTables
  <2>2. CASE UNCHANGED tables
    BY <2>2, TypesByPart DEF tables, TablesTyped
  <2> QED
    BY <2>1, <2>2 DEF Checkout, CheckoutStep, CheckWon, ReadGifts, Reserve, Invalidate, Release,
                      ReserveThrows, QueryThrows, InvalidateThrows, ReleaseThrows
<1>2. RequestsTyped'
  BY TypesByPart DEF RequestsTyped, Checkout, requestVars
<1>3. CountersTyped'
  BY TypesByPart DEF CountersTyped, Checkout, requestVars, CheckoutStep, CheckWon, ReadGifts,
     Reserve, Commit, Invalidate, Release, ReserveThrows, CommitThrows, CommitTwice, QueryThrows,
     InvalidateThrows, ReleaseThrows, SqlFault, RedisFault, NoFault
<1>4. CheckoutsTyped'
  <2>1. /\ Basket[b] \in Seq(Line) /\ Len(Basket[b]) \in Nat /\ DOMAIN Basket[b] = 1..Len(Basket[b])
        /\ line[b] \in 1..Len(Basket[b]) /\ 1 \in DOMAIN Basket[b]
        /\ Basket[b][line[b]] \in Line
        /\ reserved[b] \in Seq(Line)
    BY TypesByPart DEF CheckoutsTyped, PurchaseAssumption
  <2>2. \A l \in Line : l.gift \in Gifts /\ l.qty \in Int
    BY LinesAreTyped
  <2>3. reserved[b] # <<>> => Head(reserved[b]) \in Line /\ Tail(reserved[b]) \in Seq(Line)
    BY <2>1
  <2>4. CASE CheckWon(b)
    <3>1. WinnersFor(b) \subseteq Nat
      BY TypesByPart DEF WinnersFor, TablesTyped, Winner
    <3>2. pc' \in [Buyers -> PC]
      BY <2>4, TypesByPart DEF CheckoutsTyped, CheckWon, Go, PC, AtRest
    <3>3. met' \in [Buyers -> SUBSET Nat]
      BY <2>4, <3>1, TypesByPart DEF CheckoutsTyped, CheckWon
    <3>4. line' \in [Buyers -> Nat] /\ \A c \in Buyers : line'[c] \in DOMAIN Basket[c]
      <4>1. CASE line' = line
        BY <4>1, TypesByPart DEF CheckoutsTyped
      <4>2. CASE line' = [line EXCEPT ![b] = 1]
        BY <2>1, <4>2, TypesByPart, LinesStayTyped
      <4>3. CASE line[b] < Len(Basket[b]) /\ line' = [line EXCEPT ![b] = line[b] + 1]
        <5>1. line[b] + 1 \in DOMAIN Basket[b]
          BY <2>1, <4>3
        <5> QED
          BY <4>3, <5>1, TypesByPart, LinesStayTyped
      <4> QED
        BY <2>4, <4>1, <4>2, <4>3 DEF CheckWon
    <3>5. UNCHANGED <<avail, snapshot, reserved>>
      BY <2>4 DEF CheckWon
    <3> QED
      BY <3>2, <3>3, <3>4, <3>5, TypesByPart DEF CheckoutsTyped
  <2>5. CASE ReadGifts(b)
    BY <2>5, TypesByPart DEF CheckoutsTyped, TablesTyped, ReadGifts, Go, PC, AtRest
  <2>6. CASE Reserve(b)
    <3>1. CASE UNCHANGED <<avail, reserved, line>> /\ Go(b, "release")
      BY <2>6, <3>1, TypesByPart DEF CheckoutsTyped, Reserve, readVars, Go, PC, AtRest
    <3>2. CASE ~(UNCHANGED <<avail, reserved, line>> /\ Go(b, "release"))
      <4> DEFINE item == Basket[b][line[b]]
      <4>1. /\ avail' = [avail EXCEPT ![item.gift] = @ - item.qty]
            /\ reserved' = [reserved EXCEPT ![b] = Append(@, item)]
            /\ \/ /\ line[b] < Len(Basket[b])
                  /\ line' = [line EXCEPT ![b] = @ + 1] /\ UNCHANGED pc
               \/ Go(b, "commit") /\ UNCHANGED line
            /\ UNCHANGED readVars
        BY <2>6, <3>2 DEF Reserve
      <4>2. avail' \in [Gifts -> Int]
        BY <2>1, <2>2, <4>1, TypesByPart DEF CheckoutsTyped
      <4>3. reserved' \in [Buyers -> Seq(Line)]
        BY <2>1, <4>1, TypesByPart DEF CheckoutsTyped
      <4>4. line' \in [Buyers -> Nat] /\ \A c \in Buyers : line'[c] \in DOMAIN Basket[c]
        <5>1. CASE line' = line
          BY <5>1, TypesByPart DEF CheckoutsTyped
        <5>2. CASE line[b] < Len(Basket[b]) /\ line' = [line EXCEPT ![b] = line[b] + 1]
          <6>1. line[b] + 1 \in DOMAIN Basket[b]
            BY <2>1, <5>2
          <6> QED
            BY <5>2, <6>1, TypesByPart, LinesStayTyped
        <5> QED
          BY <4>1, <5>1, <5>2
      <4>5. pc' \in [Buyers -> PC]
        BY <4>1, TypesByPart DEF CheckoutsTyped, Go, PC, AtRest
      <4>6. UNCHANGED <<snapshot, met>>
        BY <4>1 DEF readVars
      <4> HIDE DEF item
      <4> QED
        BY <4>2, <4>3, <4>4, <4>5, <4>6, TypesByPart DEF CheckoutsTyped
    <3> QED
      BY <3>1, <3>2
  <2>7. CASE ReserveThrows(b)
    <3>1. avail' \in [Gifts -> Int]
      BY <2>1, <2>2, <2>7, TypesByPart DEF ReserveThrows, CheckoutsTyped
    <3> QED
      BY <2>7, <3>1, TypesByPart DEF CheckoutsTyped, ReserveThrows, readVars, Go, PC, AtRest
  <2>8. CASE Commit(b) \/ CommitThrows(b) \/ CommitTwice(b)
    BY <2>8, TypesByPart DEF CheckoutsTyped, Commit, CommitThrows, CommitTwice, readVars, Go, PC, AtRest
  <2>9. CASE Invalidate(b) \/ InvalidateThrows(b) \/ QueryThrows(b)
    BY <2>9, TypesByPart DEF CheckoutsTyped, Invalidate, InvalidateThrows, QueryThrows, readVars, Go, PC, AtRest
  <2>10. reserved[b] # <<>> => GivenBack(b) \in [Gifts -> Int]
    BY <2>2, <2>3, TypesByPart DEF GivenBack, CheckoutsTyped
  <2>11. CASE Release(b)
    <3>1. CASE reserved[b] = <<>>
      BY <2>11, <3>1, TypesByPart DEF CheckoutsTyped, Release, readVars, Go, PC, AtRest
    <3>2. CASE reserved[b] # <<>>
      <4>1. /\ avail' = GivenBack(b) /\ UNCHANGED <<pc, line, readVars>>
            /\ reserved' = [reserved EXCEPT ![b] = Tail(@)]
        BY <2>11, <3>2 DEF Release
      <4>2. reserved' \in [Buyers -> Seq(Line)]
        BY <2>3, <3>2, <4>1, TypesByPart DEF CheckoutsTyped
      <4> QED
        BY <2>10, <3>2, <4>1, <4>2, TypesByPart DEF CheckoutsTyped, readVars
    <3> QED
      BY <3>1, <3>2
  <2>12. CASE ReleaseThrows(b)
    <3>1. avail' \in [Gifts -> Int]
      BY <2>10, <2>12, TypesByPart DEF ReleaseThrows, CheckoutsTyped
    <3>2. reserved' \in [Buyers -> Seq(Line)]
      BY <2>12, TypesByPart DEF ReleaseThrows, CheckoutsTyped
    <3> QED
      BY <2>12, <3>1, <3>2, TypesByPart DEF CheckoutsTyped, ReleaseThrows, readVars, Go, PC, AtRest
  <2> QED
    BY <2>4, <2>5, <2>6, <2>7, <2>8, <2>9, <2>11, <2>12 DEF Checkout, CheckoutStep
<1>5. (TablesTyped /\ CheckoutsTyped /\ RequestsTyped /\ CountersTyped)' => StoreTypeOK'
  BY TypesByPart, PTL
<1> QED
  BY <1>1, <1>2, <1>3, <1>4, <1>5

-----------------------------------------------------------------------------
(* Types: the other requests.                                              *)

\* The row a draw or a manager inserts.
LEMMA WinnersAreTyped ==
  ASSUME StoreAssumption, StoreTypeOK, NEW r \in Draws \cup HandPicks, NEW id \in Nat
  PROVE  NewWinner(r, id) \in Winner /\ NewWinner(r, id).id = id
  BY TypesByPart DEF RequestsTyped, NewWinner, Winner, StoreAssumption, Requests

\* A winner is inserted once, twice, or nobody knows.
LEMMA WinnerInsertsKeepTables ==
  ASSUME StoreAssumption, StoreTypeOK, NEW r \in Draws \cup HandPicks,
         InsertWinner(r) \/ InsertWinnerTwice(r) \/ InsertWinnerThrows(r)
  PROVE  TablesTyped'
<1>1. nextId \in Nat
  BY TypesByPart DEF TablesTyped
<1>2. CASE AddWinner(r)
  <2> DEFINE W == {NewWinner(r, nextId)}
  <2>1. W \in SUBSET Winner /\ \A x \in {} \cup {} \cup W : x.id < nextId + 1
    BY <1>1, WinnersAreTyped
  <2>2. /\ orders' = orders \cup {} /\ tickets' = tickets \cup {} /\ winners' = winners \cup W
        /\ nextId' = nextId + 1 /\ live' = live
        /\ nextId + 1 \in Nat /\ nextId + 1 >= nextId
    BY <1>1, <1>2 DEF AddWinner
  <2> HIDE DEF W
  <2> QED
    BY <2>1, <2>2, AddingRowsKeepsTypes DEF TablesTyped, StoreTypeOK, PurchaseTypeOK
<1>3. CASE UNCHANGED tables
  BY <1>3, TypesByPart DEF tables, TablesTyped
<1>4. CASE InsertWinnerTwice(r)
  <2> DEFINE W == {NewWinner(r, nextId), NewWinner(r, nextId + 1)}
  <2>1. W \in SUBSET Winner /\ \A x \in {} \cup {} \cup W : x.id < nextId + 2
    BY <1>1, WinnersAreTyped
  <2>2. /\ orders' = orders \cup {} /\ tickets' = tickets \cup {} /\ winners' = winners \cup W
        /\ nextId' = nextId + 2 /\ live' = live
        /\ nextId + 2 \in Nat /\ nextId + 2 >= nextId
    BY <1>1, <1>4 DEF InsertWinnerTwice
  <2> HIDE DEF W
  <2> QED
    BY <2>1, <2>2, AddingRowsKeepsTypes DEF TablesTyped, StoreTypeOK, PurchaseTypeOK
<1> QED
  BY <1>2, <1>3, <1>4 DEF InsertWinner, InsertWinnerThrows

\* A confirmation replaces the order's row under its identity: its tickets keep an order.
LEMMA ConfirmationsKeepTables ==
  ASSUME StoreTypeOK, NEW o \in orders, ConfirmOrder(o)
  PROVE  TablesTyped'
<1> DEFINE new == [o EXCEPT !.draft = FALSE]
<1>1. o \in Order
  BY TypesByPart DEF TablesTyped
<1>2. new \in Order /\ new.id = o.id
  BY <1>1 DEF Order
<1>3. /\ orders' = (orders \ {o}) \cup {new}
      /\ UNCHANGED <<live, tickets, winners, nextId>>
  BY DEF ConfirmOrder
<1> HIDE DEF new
<1> QED
  BY <1>2, <1>3, TypesByPart DEF TablesTyped

\* An edit adds a line to an order that is there.
LEMMA AddedItemsKeepTables ==
  ASSUME StoreAssumption, StoreTypeOK, NEW r \in Edits, AddItem(r)
  PROVE  TablesTyped'
<1>1. nextId \in Nat /\ orders \subseteq Order
  BY TypesByPart DEF TablesTyped
<1>2. PICK q \in EditQuantities, o \in orders, f \in Origins :
        tickets' = tickets \cup {[id |-> nextId, order |-> o.id, gift |-> Target[r], qty |-> q,
                                  origin |-> f]}
  BY DEF AddItem, Origins
<1> DEFINE new == [id |-> nextId, order |-> o.id, gift |-> Target[r], qty |-> q, origin |-> f]
           T == {new}
<1>3. new \in Ticket /\ new.id = nextId /\ new.order = o.id
  BY <1>1, <1>2 DEF Ticket, Order, StoreAssumption, Requests
<1>4. /\ orders' = orders \cup {} /\ tickets' = tickets \cup T
      /\ winners' = winners \cup {} /\ nextId' = nextId + 1 /\ live' = live
      /\ nextId + 1 \in Nat /\ nextId + 1 >= nextId
  BY <1>1, <1>2 DEF AddItem
<1> HIDE DEF new
<1>5. \A x \in {} \cup T \cup {} : x.id < nextId + 1
  BY <1>1, <1>3
<1>6. \A t \in T : \E p \in orders \cup {} : p.id = t.order
  BY <1>2, <1>3
<1>7. T \in SUBSET Ticket /\ {} \in SUBSET Order /\ {} \in SUBSET Winner
  BY <1>3
<1>8. live' \subseteq Gifts
  BY <1>4, TypesByPart DEF TablesTyped
<1> HIDE DEF T
<1> QED
  BY <1>4, <1>5, <1>6, <1>7, <1>8, AddingRowsKeepsTypes DEF TablesTyped, StoreTypeOK, PurchaseTypeOK

OtherStep ==
  \/ \E d \in Draws : StartDraw(d) \/ ReadPool(d)
  \/ \E r \in Draws \cup HandPicks :
       \/ CheckPurchasers(r) \/ InsertWinner(r) \/ RereadAndMail(r)
       \/ InsertWinnerTwice(r) \/ InsertWinnerThrows(r)
  \/ \E w \in winners : DeleteWinner(w)
  \/ \E o \in orders : ConfirmOrder(o)
  \/ \E r \in Edits : CheckDraft(r) \/ AddItem(r)
  \/ \E r \in Deletions : CheckNotOrdered(r) \/ DeleteGift(r)

\* The other requests touch no variable of a checkout,
LEMMA OtherStepsLeaveCheckouts ==
  ASSUME OtherStep
  PROVE  UNCHANGED <<avail, checkoutVars, crashes>>
  BY DEF OtherStep, StartDraw, ReadPool, CheckPurchasers, InsertWinner, RereadAndMail,
     InsertWinnerTwice, InsertWinnerThrows, DeleteWinner, ConfirmOrder, CheckDraft, AddItem,
     CheckNotOrdered, DeleteGift, OnlyRequests, Elsewhere

\* keep the tables typed,
LEMMA OtherStepsKeepTables ==
  ASSUME StoreAssumption, StoreTypeOK, OtherStep
  PROVE  TablesTyped'
<1>1. CASE UNCHANGED tables
  BY <1>1, TypesByPart DEF tables, TablesTyped
<1>2. ASSUME NEW r \in Draws \cup HandPicks,
             InsertWinner(r) \/ InsertWinnerTwice(r) \/ InsertWinnerThrows(r)
      PROVE  TablesTyped'
  BY <1>2, WinnerInsertsKeepTables
<1>3. ASSUME NEW w \in winners, DeleteWinner(w)
      PROVE  TablesTyped'
  BY <1>3, TypesByPart DEF TablesTyped, DeleteWinner
<1>4. ASSUME NEW o \in orders, ConfirmOrder(o)
      PROVE  TablesTyped'
  BY <1>4, ConfirmationsKeepTables
<1>5. ASSUME NEW r \in Edits, AddItem(r)
      PROVE  TablesTyped'
  BY <1>5, AddedItemsKeepTables
<1>6. ASSUME NEW r \in Deletions, DeleteGift(r)
      PROVE  TablesTyped'
  BY <1>6, TypesByPart DEF TablesTyped, DeleteGift
<1> QED
  BY <1>1, <1>2, <1>3, <1>4, <1>5, <1>6 DEF OtherStep, StartDraw, ReadPool, CheckPurchasers,
     RereadAndMail, CheckDraft, CheckNotOrdered, OnlyRequests

\* and count failures in numbers.
LEMMA OtherStepsKeepCounters ==
  ASSUME StoreTypeOK, OtherStep
  PROVE  CountersTyped'
<1>1. CountersTyped
  BY TypesByPart
<1> QED
  BY <1>1 DEF CountersTyped, OtherStep, StartDraw, ReadPool, CheckPurchasers, InsertWinner,
     RereadAndMail, InsertWinnerTwice, InsertWinnerThrows, DeleteWinner, ConfirmOrder, CheckDraft,
     AddItem, CheckNotOrdered, DeleteGift, OnlyRequests, Elsewhere, Silently, Quietly, SqlFault,
     Congratulate, requestVars

\* A request goes to one of its steps.
LEMMA GoingOnKeepsTypes ==
  ASSUME StoreTypeOK, NEW r \in Requests,
         NEW s \in Done \cup {"pool", "purchasers", "insert", "reread", "item", "drafts", "delete"},
         To(r, s)
  PROVE  at' \in [Requests -> Done \cup {"won", "pool", "purchasers", "insert", "reread", "draft",
                                         "item", "confirmed", "drafts", "delete"}]
  BY TypesByPart DEF RequestsTyped, To

\* What the requests remember stays typed.
LEMMA RequestStepsKeepTypes ==
  ASSUME StoreAssumption, StoreTypeOK, OtherStep
  PROVE  RequestsTyped'
<1>1. RequestsTyped /\ TablesTyped
  BY TypesByPart
<1>2. \A x \in orders \cup tickets \cup winners : x.id \in Nat
  BY <1>1 DEF TablesTyped, Order, Ticket, Winner
<1>3. ASSUME NEW d \in Draws, StartDraw(d) \/ ReadPool(d)
      PROVE  RequestsTyped'
  <2>1. at' \in [Requests -> Done \cup {"won", "pool", "purchasers", "insert", "reread", "draft",
                                        "item", "confirmed", "drafts", "delete"}]
    BY <1>3, GoingOnKeepsTypes DEF StartDraw, ReadPool, Requests, Done
  <2>2. chosen' \in [Draws \cup HandPicks -> Users]
    <3>1. DOMAIN PoolOf(Target[d]) \subseteq Users
      BY DEF PoolOf, PoolUsers
    <3> QED
      BY <1>1, <1>3, <3>1 DEF RequestsTyped, StartDraw, ReadPool
  <2>3. saw' \in [Draws -> SUBSET Nat]
    <3>1. {w.id : w \in {v \in winners : v.gift = Target[d]}} \in SUBSET Nat
      BY <1>2
    <3>2. saw \in [Draws -> SUBSET Nat]
      BY <1>1 DEF RequestsTyped
    <3> QED
      BY <1>3, <3>1, <3>2 DEF StartDraw, ReadPool, Notes, Quietly
  <2>4. row' = row /\ mailed' = mailed /\ asked' = asked
    BY <1>3 DEF StartDraw, ReadPool, Quietly, Silently
  <2> QED
    BY <1>1, <2>1, <2>2, <2>3, <2>4 DEF RequestsTyped
<1>4. ASSUME NEW r \in Draws \cup HandPicks,
             \/ CheckPurchasers(r) \/ InsertWinner(r) \/ RereadAndMail(r)
             \/ InsertWinnerTwice(r) \/ InsertWinnerThrows(r)
      PROVE  RequestsTyped'
  <2>1. at' \in [Requests -> Done \cup {"won", "pool", "purchasers", "insert", "reread", "draft",
                                        "item", "confirmed", "drafts", "delete"}]
    BY <1>4, GoingOnKeepsTypes DEF CheckPurchasers, InsertWinner, RereadAndMail,
       InsertWinnerTwice, InsertWinnerThrows, Requests, Done
  <2>2. row' \in [Requests -> Nat]
    BY <1>1, <1>4 DEF RequestsTyped, TablesTyped, CheckPurchasers, InsertWinner, RereadAndMail,
       InsertWinnerTwice, InsertWinnerThrows
  <2>3. mailed' \subseteq [user: Users, gift: Gifts]
    <3>1. Target[r] \in Gifts /\ \A w \in Found(r) : w.user \in Users
      BY <1>1 DEF StoreAssumption, Requests, Found, TablesTyped, Winner
    <3> QED
      BY <1>1, <1>4, <3>1 DEF RequestsTyped, CheckPurchasers, InsertWinner, RereadAndMail,
         InsertWinnerTwice, InsertWinnerThrows, Congratulate, Quietly, Silently
  <2>4. saw' = saw /\ asked' = asked /\ chosen' = chosen
    BY <1>4 DEF CheckPurchasers, InsertWinner, RereadAndMail, InsertWinnerTwice,
       InsertWinnerThrows, Quietly
  <2> QED
    BY <1>1, <2>1, <2>2, <2>3, <2>4 DEF RequestsTyped
<1>5. ASSUME NEW r \in Edits, CheckDraft(r) \/ AddItem(r)
      PROVE  RequestsTyped'
  <2>1. at' \in [Requests -> Done \cup {"won", "pool", "purchasers", "insert", "reread", "draft",
                                        "item", "confirmed", "drafts", "delete"}]
    BY <1>5, GoingOnKeepsTypes DEF CheckDraft, AddItem, Requests, Done
  <2>2. row' \in [Requests -> Nat]
    BY <1>1, <1>2, <1>5 DEF RequestsTyped, CheckDraft, AddItem
  <2> QED
    BY <1>1, <1>5, <2>1, <2>2 DEF RequestsTyped, CheckDraft, AddItem, Quietly, Silently
<1>6. ASSUME NEW r \in Deletions, CheckNotOrdered(r) \/ DeleteGift(r)
      PROVE  RequestsTyped'
  <2>1. at' \in [Requests -> Done \cup {"won", "pool", "purchasers", "insert", "reread", "draft",
                                        "item", "confirmed", "drafts", "delete"}]
    BY <1>6, GoingOnKeepsTypes DEF CheckNotOrdered, DeleteGift, Requests, Done
  <2>2. saw' = saw
    BY <1>6 DEF CheckNotOrdered, DeleteGift, Quietly
  <2>3. asked' \in [Deletions -> Nat]
    BY <1>1, <1>6 DEF RequestsTyped, TablesTyped, CheckNotOrdered, DeleteGift, Quietly
  <2> QED
    BY <1>1, <1>6, <2>1, <2>2, <2>3 DEF RequestsTyped, CheckNotOrdered, DeleteGift, Quietly, Silently
<1>7. ASSUME UNCHANGED <<at, chosen, row, saw, asked, mailed>>
      PROVE  RequestsTyped'
  BY <1>1, <1>7 DEF RequestsTyped
<1> QED
  BY <1>3, <1>4, <1>5, <1>6, <1>7 DEF OtherStep, DeleteWinner, ConfirmOrder, requestVars

\* A crash keeps the tables and ends requests.
LEMMA CrashKeepsTypes ==
  ASSUME StoreTypeOK, Crash
  PROVE  StoreTypeOK'
<1>1. TablesTyped /\ CheckoutsTyped /\ RequestsTyped /\ CountersTyped
  BY TypesByPart
<1>2. CheckoutsTyped'
  BY <1>1 DEF CheckoutsTyped, Crash, CheckoutsDie, readVars, PC, AtRest
<1>3. RequestsTyped'
  BY <1>1 DEF RequestsTyped, Crash, Done
<1>4. TablesTyped' /\ CountersTyped'
  BY <1>1 DEF TablesTyped, CountersTyped, Crash, tables
<1>5. (TablesTyped /\ CheckoutsTyped /\ RequestsTyped /\ CountersTyped)' => StoreTypeOK'
  BY TypesByPart, PTL
<1> QED
  BY <1>2, <1>3, <1>4, <1>5

\* The last lemmas together.
LEMMA OtherStepsKeepTypes ==
  ASSUME StoreAssumption, StoreTypeOK, OtherStep
  PROVE  StoreTypeOK'
<1>1. CheckoutsTyped'
  BY TypesByPart, OtherStepsLeaveCheckouts DEF CheckoutsTyped, checkoutVars
<1>2. (TablesTyped /\ CheckoutsTyped /\ RequestsTyped /\ CountersTyped)' => StoreTypeOK'
  BY TypesByPart, PTL
<1> QED
  BY <1>1, <1>2, OtherStepsKeepTables, RequestStepsKeepTypes, OtherStepsKeepCounters

\* The empty store is typed.
LEMMA StartsTyped ==
  ASSUME PurchaseAssumption, StoreAssumption, Init
  PROVE  StoreTypeOK
<1>1. TablesTyped /\ CountersTyped
  BY DEF TablesTyped, CountersTyped, Init, PurchaseInit
<1>2. CheckoutsTyped
  <2>1. \A b \in Buyers : 1 \in DOMAIN Basket[b]
    BY DEF PurchaseAssumption
  <2>2. avail \in [Gifts -> Int] /\ reserved \in [Buyers -> Seq(Line)]
    BY DEF Init, PurchaseInit, PurchaseAssumption
  <2> QED
    BY <2>1, <2>2 DEF CheckoutsTyped, Init, PurchaseInit, PC, AtRest
<1>3. RequestsTyped
  <2>1. \A r \in Requests : FirstStep(r) \in {"won", "purchasers", "draft", "confirmed"}
    BY DEF FirstStep, Requests
  <2>2. (CHOOSE u \in Users : TRUE) \in Users
    BY DEF StoreAssumption
  <2> QED
    BY <2>1, <2>2 DEF RequestsTyped, Init, StoreAssumption
<1> QED
  BY <1>1, <1>2, <1>3, TypesByPart

-----------------------------------------------------------------------------
(* The inductive invariant.                                                *)

\* Only draws that found no winner go on, and record one.
DrawsSawNothing ==
  /\ \A d \in Draws : at[d] \in {"pool", "purchasers", "insert"} => saw[d] = {}
  /\ \A v \in winners : v.by \in Draws =>
       saw[v.by] = {} /\ at[v.by] \notin {"won", "pool", "purchasers", "insert"}

\* A deletion that looked twice and goes on, or went through, faces only tickets inserted
\* after it was asked for.
DeletionsFaceYoungTickets ==
  \A r \in Deletions :
    /\ asked[r] <= nextId
    /\ at[r] \in {"delete", "ok"} => \A t \in tickets : t.gift = Target[r] => t.id >= asked[r]

\* Has the checkout passed the check of its i-th line, with no row inserted yet?
Passed(b, i) ==
  \/ pc[b] = "check" /\ i < line[b]
  \/ pc[b] \in {"gifts", "reserve", "commit"}

\* No winner row of a line that passed was there when the checkout began.
PassedLinesAreClear ==
  \A b \in Buyers, w \in winners : \A i \in DOMAIN Basket[b] :
    Passed(b, i) /\ Basket[b][i].gift = w.gift => w.id \notin met[b]

\* What is reserved was asked for.
ReservedIsOfBasket ==
  \A b \in Buyers : \A i \in DOMAIN reserved[b] :
    \E j \in DOMAIN Basket[b] : reserved[b][i] = Basket[b][j]

\* Winners a checkout met at its beginning have identities from before.
MetRowsAreOld == \A b \in Buyers : \A i \in met[b] : i < nextId

\* A buyer with an order is past its commit.
OrdersFollowChecks == \A o \in orders : pc[o.buyer] \notin {"check", "gifts", "reserve", "commit"}

\* No winner row of a ticket sold by a checkout was there when the checkout began.
TicketsAreClear ==
  \A w \in winners, t \in tickets, o \in orders :
    t.gift = w.gift /\ t.origin = "checkout" /\ o.id = t.order => w.id \notin met[o.buyer]

CheckoutsAreClear ==
  /\ PassedLinesAreClear /\ ReservedIsOfBasket /\ MetRowsAreOld
  /\ OrdersFollowChecks /\ TicketsAreClear

Orderly ==
  /\ StoreTypeOK
  /\ DrawsSawNothing
  /\ DeletionsFaceYoungTickets
  /\ MailsMatchWinners
  /\ CheckoutsAreClear

-----------------------------------------------------------------------------
(* Checkouts.                                                              *)

\* Checkouts insert no winner and touch no other request.
LEMMA CheckoutsLeaveWinners ==
  ASSUME NEW b \in Buyers, Checkout(b)
  PROVE  winners' = winners /\ UNCHANGED requestVars
  BY DEF Checkout, CheckoutStep, CheckWon, ReadGifts, Reserve, Commit, Invalidate, Release,
     ReserveThrows, CommitThrows, CommitTwice, QueryThrows, InvalidateThrows, ReleaseThrows,
     tables, AddOrder

\* A line that is checked has no winner at that moment; what the checkout met at its
\* beginning is noted before it can pass any.
LEMMA CheckingIsClear ==
  ASSUME PurchaseAssumption, StoreTypeOK, CheckoutsAreClear, NEW b \in Buyers, CheckWon(b)
  PROVE  CheckoutsAreClear'
<1>1. /\ pc \in [Buyers -> PC] /\ line \in [Buyers -> Nat] /\ met \in [Buyers -> SUBSET Nat]
      /\ DOMAIN Basket[b] = 1..Len(Basket[b]) /\ Len(Basket[b]) \in Nat
      /\ line[b] \in 1..Len(Basket[b])
  BY TypesByPart DEF CheckoutsTyped, PurchaseAssumption
<1>2. /\ pc[b] = "check"
      /\ UNCHANGED <<live, orders, tickets, winners, nextId, reserved>>
      /\ \A c \in Buyers \ {b} : pc'[c] = pc[c] /\ line'[c] = line[c] /\ met'[c] = met[c]
      /\ met'[b] = IF Arrived(b) THEN met[b] ELSE WinnersFor(b)
  BY <1>1 DEF CheckWon, tables, Go
<1>3. ASSUME NEW i \in DOMAIN Basket[b], NEW w \in winners, Passed(b, i)',
             Basket[b][i].gift = w.gift
      PROVE  w.id \notin met'[b]
  <2>1. ~IsGiftAlreadyWon(Basket[b][line[b]].gift)
    BY <1>1, <1>2, <1>3 DEF CheckWon, Go, Passed
  <2>2. i <= line[b]
    BY <1>1, <1>2, <1>3, <2>1 DEF CheckWon, Go, Passed
  <2>3. i # line[b]
    BY <1>3, <2>1 DEF IsGiftAlreadyWon
  <2>4. i < line[b] /\ Passed(b, i)
    BY <1>1, <1>2, <2>2, <2>3 DEF Passed
  <2>5. Arrived(b)
    BY <1>1, <2>4 DEF Arrived
  <2> QED
    BY <1>2, <1>3, <2>4, <2>5 DEF CheckoutsAreClear, PassedLinesAreClear
<1>4. PassedLinesAreClear'
  <2> SUFFICES ASSUME NEW c \in Buyers, NEW w \in winners, NEW i \in DOMAIN Basket[c],
                      Passed(c, i)', Basket[c][i].gift = w.gift
               PROVE  w.id \notin met'[c]
    BY <1>2 DEF PassedLinesAreClear
  <2>1. CASE c = b
    BY <1>3, <2>1
  <2>2. CASE c # b
    <3>1. Passed(c, i)
      BY <1>2, <2>2 DEF Passed
    <3> QED
      BY <1>2, <2>2, <3>1 DEF CheckoutsAreClear, PassedLinesAreClear
  <2> QED
    BY <2>1, <2>2
<1>5. ReservedIsOfBasket'
  BY <1>2 DEF CheckoutsAreClear, ReservedIsOfBasket
<1>6. MetRowsAreOld'
  <2>1. \A i \in WinnersFor(b) : i < nextId
    BY TypesByPart DEF WinnersFor, TablesTyped
  <2> QED
    BY <1>2, <2>1 DEF CheckoutsAreClear, MetRowsAreOld
<1>7. \A o \in orders : o.buyer \in Buyers \ {b}
  BY <1>2, TypesByPart DEF CheckoutsAreClear, OrdersFollowChecks, TablesTyped, Order
<1>8. OrdersFollowChecks' /\ TicketsAreClear'
  BY <1>2, <1>7 DEF CheckoutsAreClear, OrdersFollowChecks, TicketsAreClear
<1> QED
  BY <1>4, <1>5, <1>6, <1>8 DEF CheckoutsAreClear

\* A commit inserts the reserved lines, which are lines of the basket that passed.
LEMMA CommittingIsClear ==
  ASSUME PurchaseAssumption, StoreTypeOK, CheckoutsAreClear, NEW b \in Buyers,
         Commit(b) \/ CommitThrows(b) \/ CommitTwice(b)
  PROVE  CheckoutsAreClear'
<1>1. PurchaseTypeOK /\ nextId \in Nat
  BY DEF StoreTypeOK, PurchaseTypeOK
<1>2. /\ pc[b] = "commit" /\ pc' = [pc EXCEPT ![b] = pc'[b]] /\ pc'[b] \in {"invalidate", "release"}
      /\ UNCHANGED <<winners, line, met, reserved>>
  BY <1>1 DEF PurchaseTypeOK, Commit, CommitThrows, CommitTwice, AddOrder, readVars, tables, Go
<1>3. PassedLinesAreClear'
  BY <1>1, <1>2 DEF CheckoutsAreClear, PassedLinesAreClear, Passed, PurchaseTypeOK
<1>4. ReservedIsOfBasket'
  BY <1>2 DEF CheckoutsAreClear, ReservedIsOfBasket
<1>5. \A w \in winners : \A i \in DOMAIN reserved[b] :
        reserved[b][i].gift = w.gift => w.id \notin met[b]
  BY <1>2 DEF CheckoutsAreClear, PassedLinesAreClear, ReservedIsOfBasket, Passed
<1>6. nextId' \in Nat /\ nextId' >= nextId
  BY <1>1, NewRowsAreTyped DEF Commit, CommitThrows, CommitTwice, AddOrder, tables
<1>7. MetRowsAreOld'
  BY <1>1, <1>2, <1>6 DEF CheckoutsAreClear, MetRowsAreOld, PurchaseTypeOK
<1>8. /\ \A o \in orders' \ orders : o.buyer = b /\ o.id >= nextId
      /\ \A t \in tickets' \ tickets :
           /\ t.order >= nextId
           /\ \E i \in DOMAIN reserved[b] : t.gift = reserved[b][i].gift
  <2> DEFINE second == nextId + Len(reserved[b]) + 1
  <2>1. second \in Nat /\ second >= nextId
    BY <1>1, NewRowsAreTyped
  <2>2. \A id \in Nat :
          /\ NewOrder(b, id).buyer = b /\ NewOrder(b, id).id = id
          /\ \A t \in NewTickets(b, id) :
               t.order = id /\ \E i \in DOMAIN reserved[b] : t.gift = reserved[b][i].gift
    BY <1>1, NewRowsAreTyped DEF NewOrder
  <2>3. CASE UNCHANGED tables
    BY <2>3 DEF tables
  <2>4. CASE AddOrder(b)
    BY <1>1, <2>2, <2>4 DEF AddOrder
  <2>5. CASE CommitTwice(b)
    <3>1. /\ orders' = orders \cup {NewOrder(b, nextId), NewOrder(b, second)}
          /\ tickets' = tickets \cup NewTickets(b, nextId) \cup NewTickets(b, second)
      BY <2>5 DEF CommitTwice
    <3> HIDE DEF second
    <3> QED
      BY <1>1, <2>1, <2>2, <3>1
  <2> QED
    BY <2>3, <2>4, <2>5 DEF Commit, CommitThrows
<1>9. OrdersFollowChecks'
  BY <1>1, <1>2, <1>8 DEF CheckoutsAreClear, OrdersFollowChecks, PurchaseTypeOK, Order
<1>10. TicketsAreClear'
  <2> SUFFICES ASSUME NEW w \in winners, NEW t \in tickets', NEW o \in orders',
                      t.gift = w.gift, t.origin = "checkout", o.id = t.order
               PROVE  w.id \notin met[o.buyer]
    BY <1>2 DEF TicketsAreClear
  <2>1. CASE t \in tickets
    <3>1. t.order \in Nat /\ t.order < nextId
      BY <1>1, <2>1 DEF PurchaseTypeOK, Order
    <3>2. o \in orders
      BY <1>1, <1>8, <3>1
    <3> QED
      BY <2>1, <3>2 DEF CheckoutsAreClear, TicketsAreClear
  <2>2. CASE t \notin tickets
    <3>1. /\ t.order >= nextId
          /\ \E i \in DOMAIN reserved[b] : t.gift = reserved[b][i].gift
      BY <1>8, <2>2
    <3>2. o.buyer = b
      BY <1>1, <1>8, <3>1 DEF PurchaseTypeOK, Order
    <3> QED
      BY <1>5, <3>1, <3>2
  <2> QED
    BY <2>1, <2>2
<1> QED
  BY <1>3, <1>4, <1>7, <1>9, <1>10 DEF CheckoutsAreClear

\* The lines of a commit take new identities; no other step of a checkout inserts any.
LEMMA CheckoutTicketsAreYoung ==
  ASSUME PurchaseAssumption, StoreTypeOK, NEW b \in Buyers, Checkout(b)
  PROVE  /\ nextId' \in Nat /\ nextId' >= nextId
         /\ \A t \in tickets' \ tickets : t.id \in Nat /\ t.id >= nextId
<1>1. PurchaseTypeOK /\ nextId \in Nat /\ Len(reserved[b]) \in Nat
  BY NewRowsAreTyped DEF StoreTypeOK, PurchaseTypeOK
<1>2. \A id \in Nat : \A t \in NewTickets(b, id) : t.id \in Nat /\ id < t.id
  BY <1>1, NewRowsAreTyped
<1>3. CASE UNCHANGED <<tickets, nextId>>
  BY <1>1, <1>3
<1>4. CASE AddOrder(b)
  BY <1>1, <1>2, <1>4 DEF AddOrder
<1>5. CASE CommitTwice(b)
  <2> DEFINE second == nextId + Len(reserved[b]) + 1
  <2>1. second \in Nat /\ second >= nextId
    BY <1>1
  <2>2. /\ tickets' = tickets \cup NewTickets(b, nextId) \cup NewTickets(b, second)
        /\ nextId' = second + Len(reserved[b]) + 1
    BY <1>5 DEF CommitTwice
  <2> HIDE DEF second
  <2> QED
    BY <1>1, <1>2, <2>1, <2>2
<1> QED
  BY <1>3, <1>4, <1>5 DEF Checkout, CheckoutStep, CheckWon, ReadGifts, Reserve, Commit, Invalidate,
     Release, ReserveThrows, CommitThrows, QueryThrows, InvalidateThrows, ReleaseThrows, tables

\* The other steps of a checkout drop reserved lines or add one that passed.
LEMMA CheckoutStepsAreClear ==
  ASSUME PurchaseAssumption, StoreTypeOK, CheckoutsAreClear, NEW b \in Buyers, Checkout(b)
  PROVE  CheckoutsAreClear'
<1>1. CASE CheckWon(b)
  BY <1>1, CheckingIsClear
<1>2. CASE Commit(b) \/ CommitThrows(b) \/ CommitTwice(b)
  BY <1>2, CommittingIsClear
<1>3. CASE /\ ~CheckWon(b) /\ ~(Commit(b) \/ CommitThrows(b) \/ CommitTwice(b))
  <2>1. /\ pc \in [Buyers -> PC] /\ reserved \in [Buyers -> Seq(Line)]
        /\ \A c \in Buyers : reserved[c] \in Seq(Line)
        /\ line[b] \in DOMAIN Basket[b] /\ Basket[b] \in Seq(Line)
    BY TypesByPart DEF CheckoutsTyped, PurchaseAssumption
  <2>2. UNCHANGED <<orders, tickets, winners, nextId, met>>
    BY <1>3 DEF Checkout, CheckoutStep, ReadGifts, Reserve, Invalidate, Release,
       ReserveThrows, QueryThrows, InvalidateThrows, ReleaseThrows, tables, readVars
  <2>3. \A c \in Buyers \ {b} : pc'[c] = pc[c] /\ line'[c] = line[c] /\ reserved'[c] = reserved[c]
    BY <1>3, <2>1, TypesByPart DEF CheckoutsTyped, Checkout, CheckoutStep, ReadGifts, Reserve,
       Invalidate, Release, ReserveThrows, QueryThrows, InvalidateThrows, ReleaseThrows, readVars, Go
  <2>4. /\ pc'[b] # "check"
        /\ pc'[b] \in {"gifts", "reserve", "commit"} => pc[b] \in {"gifts", "reserve", "commit"}
    <3>1. CASE Release(b) \/ Reserve(b)
      BY <2>1, <3>1 DEF Release, Reserve, Go
    <3>2. CASE ~(Release(b) \/ Reserve(b))
      BY <1>3, <2>1, <3>2 DEF Checkout, CheckoutStep, ReadGifts, Invalidate,
         ReserveThrows, QueryThrows, InvalidateThrows, ReleaseThrows, Go
    <3> QED
      BY <3>1, <3>2
  <2>5. \A i \in DOMAIN reserved'[b] : \E j \in DOMAIN Basket[b] : reserved'[b][i] = Basket[b][j]
    <3>1. \/ reserved'[b] = reserved[b]
          \/ reserved'[b] = Append(reserved[b], Basket[b][line[b]])
          \/ reserved[b] # <<>> /\ reserved'[b] = Tail(reserved[b])
          \/ reserved'[b] = <<>>
      BY <1>3, <2>1 DEF Checkout, CheckoutStep, ReadGifts, Reserve, Invalidate, Release,
         ReserveThrows, QueryThrows, InvalidateThrows, ReleaseThrows, readVars
    <3>2. \A i \in DOMAIN reserved[b] : \E j \in DOMAIN Basket[b] : reserved[b][i] = Basket[b][j]
      BY DEF CheckoutsAreClear, ReservedIsOfBasket
    <3>3. CASE reserved'[b] = Append(reserved[b], Basket[b][line[b]])
      <4>1. \A i \in DOMAIN reserved'[b] :
              \/ i \in DOMAIN reserved[b] /\ reserved'[b][i] = reserved[b][i]
              \/ reserved'[b][i] = Basket[b][line[b]]
        BY <2>1, <3>3
      <4> QED
        BY <2>1, <3>2, <4>1
    <3>4. CASE reserved[b] # <<>> /\ reserved'[b] = Tail(reserved[b])
      <4>1. \A i \in DOMAIN reserved'[b] :
              i + 1 \in DOMAIN reserved[b] /\ reserved'[b][i] = reserved[b][i + 1]
        BY <2>1, <3>4
      <4> QED
        BY <3>2, <4>1
    <3> QED
      BY <3>1, <3>2, <3>3, <3>4
  <2>6. ReservedIsOfBasket'
    <3>1. ASSUME NEW c \in Buyers, c # b
          PROVE  \A i \in DOMAIN reserved'[c] : \E j \in DOMAIN Basket[c] : reserved'[c][i] = Basket[c][j]
      <4>1. reserved'[c] = reserved[c]
        BY <2>3, <3>1
      <4>2. \A i \in DOMAIN reserved[c] : \E j \in DOMAIN Basket[c] : reserved[c][i] = Basket[c][j]
        BY DEF CheckoutsAreClear, ReservedIsOfBasket
      <4> QED
        BY <4>1, <4>2
    <3> QED
      BY <2>5, <3>1 DEF ReservedIsOfBasket
  <2>7. PassedLinesAreClear'
    <3>1. \A c \in Buyers : \A i \in DOMAIN Basket[c] : Passed(c, i)' => Passed(c, i)
      BY <2>3, <2>4 DEF Passed
    <3> QED
      BY <2>2, <3>1 DEF CheckoutsAreClear, PassedLinesAreClear
  <2>8. OrdersFollowChecks'
    BY <2>2, <2>3, <2>4, TypesByPart DEF CheckoutsAreClear, OrdersFollowChecks, TablesTyped, Order
  <2>9. MetRowsAreOld' /\ TicketsAreClear'
    BY <2>2 DEF CheckoutsAreClear, MetRowsAreOld, TicketsAreClear
  <2> QED
    BY <2>6, <2>7, <2>8, <2>9 DEF CheckoutsAreClear
<1> QED
  BY <1>1, <1>2, <1>3

-----------------------------------------------------------------------------
(* The other requests.                                                     *)

\* What they may do to the tables a checkout depends on: new winner rows have identities
\* no checkout has met, orders keep identity and buyer, and no ticket of theirs counts
\* as sold by a checkout.
LEMMA OthersOnlyAddWinners ==
  ASSUME StoreTypeOK, OtherStep
  PROVE  /\ nextId' \in Nat /\ nextId' >= nextId
         /\ \A w \in winners' \ winners :
              /\ w.id >= nextId
              /\ \E r \in Draws \cup HandPicks : w.by = r /\ at[r] = "insert" /\ at'[r] \in {"reread", "failed"}
         /\ \A o \in orders' : \E p \in orders : p.id = o.id /\ p.buyer = o.buyer
         /\ \A t \in tickets' \ tickets : t.origin # "checkout" /\ t.id \in Nat /\ t.id >= nextId
<1>1. nextId \in Nat /\ orders \subseteq Order
      /\ at \in [Requests -> Done \cup {"won", "pool", "purchasers", "insert", "reread", "draft",
                                        "item", "confirmed", "drafts", "delete"}]
  BY TypesByPart DEF TablesTyped, RequestsTyped
<1>2. ASSUME NEW r \in Draws \cup HandPicks,
             InsertWinner(r) \/ InsertWinnerTwice(r) \/ InsertWinnerThrows(r)
      PROVE  /\ nextId' \in Nat /\ nextId' >= nextId
             /\ \A w \in winners' \ winners : w.id >= nextId /\ w.by = r
             /\ at[r] = "insert" /\ at'[r] \in {"reread", "failed"}
             /\ orders' = orders /\ tickets' = tickets
  BY <1>1, <1>2 DEF InsertWinner, InsertWinnerTwice, InsertWinnerThrows, AddWinner, NewWinner,
     tables, To, Requests
<1>3. ASSUME NEW o \in orders, ConfirmOrder(o)
      PROVE  /\ UNCHANGED <<nextId, winners, tickets>>
             /\ \A n \in orders' : \E p \in orders : p.id = n.id /\ p.buyer = n.buyer
  <2>1. [o EXCEPT !.draft = FALSE].id = o.id /\ [o EXCEPT !.draft = FALSE].buyer = o.buyer
    BY <1>1 DEF Order
  <2> QED
    BY <1>3, <2>1 DEF ConfirmOrder
<1>4. ASSUME NEW r \in Edits, AddItem(r)
      PROVE  /\ nextId' = nextId + 1 /\ UNCHANGED <<winners, orders>>
             /\ \A t \in tickets' \ tickets : t.origin # "checkout" /\ t.id \in Nat /\ t.id >= nextId
  BY <1>1, <1>4 DEF AddItem
<1>5. CASE UNCHANGED <<nextId, orders, tickets>> /\ winners' \subseteq winners
  BY <1>1, <1>5
<1>6. \/ \E r \in Draws \cup HandPicks :
           InsertWinner(r) \/ InsertWinnerTwice(r) \/ InsertWinnerThrows(r)
      \/ \E o \in orders : ConfirmOrder(o)
      \/ \E r \in Edits : AddItem(r)
      \/ UNCHANGED <<nextId, orders, tickets>> /\ winners' \subseteq winners
  BY DEF OtherStep, StartDraw, ReadPool, CheckPurchasers, RereadAndMail, DeleteWinner, CheckDraft,
     CheckNotOrdered, DeleteGift, OnlyRequests, tables
<1> QED
  BY <1>1, <1>2, <1>3, <1>4, <1>5, <1>6

\* So what the checkouts rely on survives the other requests.
LEMMA OtherStepsAreClear ==
  ASSUME StoreTypeOK, CheckoutsAreClear, OtherStep
  PROVE  CheckoutsAreClear'
<1>1. UNCHANGED <<pc, line, reserved, met>>
  BY OtherStepsLeaveCheckouts DEF checkoutVars
<1>2. nextId \in Nat /\ winners \subseteq Winner
      /\ met \in [Buyers -> SUBSET Nat] /\ \A o \in orders : o.buyer \in Buyers
  BY TypesByPart DEF TablesTyped, CheckoutsTyped, Order
<1>3. \A w \in winners' \ winners, b \in Buyers : w.id \notin met[b]
  BY <1>2, OthersOnlyAddWinners DEF CheckoutsAreClear, MetRowsAreOld
<1>4. PassedLinesAreClear'
  BY <1>1, <1>3 DEF CheckoutsAreClear, PassedLinesAreClear, Passed
<1>5. ReservedIsOfBasket'
  BY <1>1 DEF CheckoutsAreClear, ReservedIsOfBasket
<1>6. MetRowsAreOld'
  BY <1>1, <1>2, OthersOnlyAddWinners DEF CheckoutsAreClear, MetRowsAreOld
<1>7. OrdersFollowChecks'
  BY <1>1, OthersOnlyAddWinners DEF CheckoutsAreClear, OrdersFollowChecks
<1>8. TicketsAreClear'
  <2> SUFFICES ASSUME NEW w \in winners', NEW t \in tickets', NEW o \in orders',
                      t.gift = w.gift, t.origin = "checkout", o.id = t.order
               PROVE  w.id \notin met[o.buyer]
    BY <1>1 DEF TicketsAreClear
  <2>1. PICK p \in orders : p.id = o.id /\ p.buyer = o.buyer
    BY OthersOnlyAddWinners
  <2>2. t \in tickets
    BY OthersOnlyAddWinners
  <2>3. CASE w \in winners
    BY <2>1, <2>2, <2>3 DEF CheckoutsAreClear, TicketsAreClear
  <2>4. CASE w \notin winners
    BY <1>2, <1>3, <2>1, <2>4
  <2> QED
    BY <2>3, <2>4
<1> QED
  BY <1>4, <1>5, <1>6, <1>7, <1>8 DEF CheckoutsAreClear

-----------------------------------------------------------------------------
(* Draws, deletions and mails.                                             *)

\* A draw notes the winners of its gift and stops when there is one; a winner recorded
\* by a draw ends that draw.
LEMMA DrawsKeepInSight ==
  ASSUME StoreAssumption, StoreTypeOK, DrawsSawNothing, OtherStep
  PROVE  DrawsSawNothing'
<1>1. /\ at \in [Requests -> Done \cup {"won", "pool", "purchasers", "insert", "reread", "draft",
                                        "item", "confirmed", "drafts", "delete"}]
      /\ saw \in [Draws -> SUBSET Nat]
  BY TypesByPart DEF RequestsTyped
<1>2. ASSUME NEW d \in Draws, StartDraw(d)
      PROVE  DrawsSawNothing'
  <2>1. /\ at[d] = "won" /\ winners' = winners
        /\ saw' = [saw EXCEPT ![d] = {w.id : w \in {v \in winners : v.gift = Target[d]}}]
        /\ at' = [at EXCEPT ![d] = IF IsGiftAlreadyWon(Target[d]) THEN "refused" ELSE "pool"]
    BY <1>2 DEF StartDraw, Notes, To, OnlyRequests, tables
  <2>2. at'[d] = "pool" => saw'[d] = {}
    BY <1>1, <2>1 DEF IsGiftAlreadyWon, Requests
  <2>3. \A c \in Draws \ {d} : at'[c] = at[c] /\ saw'[c] = saw[c]
    BY <1>1, <2>1 DEF Requests
  <2>4. at'[d] \in {"pool", "refused"}
    BY <1>1, <2>1 DEF Requests
  <2>5. \A v \in winners : v.by # d
    BY <2>1 DEF DrawsSawNothing
  <2> QED
    BY <2>1, <2>2, <2>3, <2>4, <2>5 DEF DrawsSawNothing
<1>3. ASSUME ~\E d \in Draws : StartDraw(d)
      PROVE  DrawsSawNothing'
  <2>1. \A d \in Draws : saw'[d] = saw[d]
    BY <1>1, <1>3 DEF OtherStep, ReadPool, CheckPurchasers, InsertWinner, RereadAndMail,
       InsertWinnerTwice, InsertWinnerThrows, DeleteWinner, ConfirmOrder, CheckDraft, AddItem,
       CheckNotOrdered, DeleteGift, Quietly, Notes, requestVars, StoreAssumption
  <2>2. \A d \in Draws :
          /\ at'[d] \in {"pool", "purchasers", "insert"} => at[d] \in {"pool", "purchasers", "insert"}
          /\ at'[d] = "won" => at[d] = "won"
    BY <1>1, <1>3 DEF OtherStep, ReadPool, CheckPurchasers, InsertWinner, RereadAndMail,
       InsertWinnerTwice, InsertWinnerThrows, DeleteWinner, ConfirmOrder, CheckDraft, AddItem,
       CheckNotOrdered, DeleteGift, To, requestVars, StoreAssumption, Requests
  <2>3. \A w \in winners' \ winners : w.by \in Draws =>
          saw'[w.by] = {} /\ at'[w.by] \notin {"won", "pool", "purchasers", "insert"}
    BY <2>1, OthersOnlyAddWinners DEF DrawsSawNothing
  <2> QED
    BY <2>1, <2>2, <2>3 DEF DrawsSawNothing
<1> QED
  BY <1>2, <1>3

\* A deletion notes the next identity when it is asked for, and its second look goes over
\* every older ticket.
LEMMA DeletionsStayAhead ==
  ASSUME StoreAssumption, StoreTypeOK, DeletionsFaceYoungTickets, OtherStep
  PROVE  DeletionsFaceYoungTickets'
<1>1. /\ at \in [Requests -> Done \cup {"won", "pool", "purchasers", "insert", "reread", "draft",
                                        "item", "confirmed", "drafts", "delete"}]
      /\ asked \in [Deletions -> Nat] /\ nextId \in Nat
      /\ nextId' \in Nat /\ nextId' >= nextId
  BY TypesByPart, OthersOnlyAddWinners DEF RequestsTyped, TablesTyped
<1>2. ASSUME NEW r \in Deletions, CheckNotOrdered(r)
      PROVE  DeletionsFaceYoungTickets'
  <2>1. /\ tickets' = tickets /\ nextId' = nextId
        /\ \A q \in Deletions \ {r} : at'[q] = at[q] /\ asked'[q] = asked[q]
    BY <1>1, <1>2 DEF CheckNotOrdered, To, Requests, OnlyRequests, tables
  <2>2. asked'[r] <= nextId
    BY <1>1, <1>2 DEF CheckNotOrdered, DeletionsFaceYoungTickets
  <2>3. at'[r] \in {"delete", "ok"} => \A t \in tickets : t.gift # Target[r]
    BY <1>1, <1>2 DEF CheckNotOrdered, To, Requests
  <2> QED
    BY <2>1, <2>2, <2>3 DEF DeletionsFaceYoungTickets
<1>3. ASSUME ~\E r \in Deletions : CheckNotOrdered(r)
      PROVE  DeletionsFaceYoungTickets'
  <2>1. asked' = asked
    BY <1>3 DEF OtherStep, StartDraw, ReadPool, CheckPurchasers, InsertWinner, RereadAndMail,
       InsertWinnerTwice, InsertWinnerThrows, DeleteWinner, ConfirmOrder, CheckDraft, AddItem,
       DeleteGift, Quietly, requestVars
  <2>2. \A r \in Deletions : at'[r] \in {"delete", "ok"} => at[r] \in {"delete", "ok"}
    BY <1>1, <1>3 DEF OtherStep, StartDraw, ReadPool, CheckPurchasers, InsertWinner, RereadAndMail,
       InsertWinnerTwice, InsertWinnerThrows, DeleteWinner, ConfirmOrder, CheckDraft, AddItem,
       DeleteGift, To, requestVars, StoreAssumption, Requests
  <2>3. \A t \in tickets' \ tickets : t.id \in Nat /\ t.id >= nextId
    BY OthersOnlyAddWinners
  <2> QED
    BY <1>1, <2>1, <2>2, <2>3 DEF DeletionsFaceYoungTickets
<1> QED
  BY <1>2, <1>3

\* A mail goes to a row that was just re-read; rows disappear only by removals.
LEMMA MailsKeepMatching ==
  ASSUME StoreAssumption, StoreTypeOK, MailsMatchWinners, OtherStep
  PROVE  MailsMatchWinners'
<1>1. /\ at \in [Requests -> Done \cup {"won", "pool", "purchasers", "insert", "reread", "draft",
                                        "item", "confirmed", "drafts", "delete"}]
      /\ removals \in Nat /\ mailFaults \in Nat
  BY TypesByPart DEF RequestsTyped, CountersTyped
<1>2. ASSUME NEW w \in winners, DeleteWinner(w)
      PROVE  MailsMatchWinners'
  BY <1>1, <1>2 DEF DeleteWinner, MailsMatchWinners
<1>3. ASSUME ~\E w \in winners : DeleteWinner(w)
      PROVE  winners \subseteq winners' /\ removals' = removals
  BY <1>3 DEF OtherStep, StartDraw, ReadPool, CheckPurchasers, InsertWinner, RereadAndMail,
     InsertWinnerTwice, InsertWinnerThrows, ConfirmOrder, CheckDraft, AddItem, AddWinner, tables,
     CheckNotOrdered, DeleteGift, Quietly, Silently, OnlyRequests, requestVars
<1>4. ASSUME NEW r \in Draws \cup HandPicks, RereadAndMail(r)
      PROVE  MailsMatchWinners'
  <2>1. winners' = winners /\ removals' = removals /\ \A d \in Draws \ {r} : at'[d] = at[d]
    BY <1>1, <1>4 DEF RereadAndMail, OnlyRequests, tables, To, Requests
  <2>2. CASE mailed' = mailed /\ mailFaults' = mailFaults /\ (r \in Draws => at'[r] # "ok")
    BY <2>1, <2>2 DEF MailsMatchWinners
  <2>3. CASE \E w \in Found(r) : Congratulate(w.user, Target[r])
    <3>1. PICK w \in Found(r) : Congratulate(w.user, Target[r])
      BY <2>3
    <3>2. w \in winners /\ w.gift = Target[r]
      BY DEF Found
    <3>3. CASE mailed' = mailed \cup {[user |-> w.user, gift |-> Target[r]]} /\ mailFaults' = mailFaults
      <4>1. PICK m : m = [user |-> w.user, gift |-> Target[r]]
        OBVIOUS
      <4>2. m.user = w.user /\ m.gift = Target[r]
        BY <4>1
      <4>3. mailed' = mailed \cup {m}
        BY <3>3, <4>1
      <4>4. ASSUME removals = 0
            PROVE  \A n \in mailed' : \E v \in winners : v.user = n.user /\ v.gift = n.gift
        BY <3>2, <4>2, <4>3, <4>4 DEF MailsMatchWinners
      <4>5. ASSUME removals = 0, mailFaults = 0, NEW d \in Draws, at'[d] = "ok"
            PROVE  \E n \in mailed' : n.gift = Target[d]
        <5>1. CASE d = r
          BY <4>2, <4>3, <5>1
        <5>2. CASE d # r
          BY <2>1, <4>3, <4>5, <5>2 DEF MailsMatchWinners
        <5> QED
          BY <5>1, <5>2
      <4> QED
        BY <2>1, <3>3, <4>4, <4>5 DEF MailsMatchWinners
    <3>4. CASE mailed' = mailed /\ mailFaults' = mailFaults + 1
      BY <1>1, <2>1, <3>4 DEF MailsMatchWinners
    <3> QED
      BY <3>1, <3>3, <3>4 DEF Congratulate
  <2> QED
    BY <1>1, <1>4, <2>2, <2>3 DEF RereadAndMail, To, Requests
<1>5. ASSUME ~\E r \in Draws \cup HandPicks : RereadAndMail(r)
      PROVE  /\ mailed' = mailed /\ mailFaults' = mailFaults
             /\ \A d \in Draws : at'[d] = "ok" => at[d] = "ok"
  BY <1>1, <1>5 DEF OtherStep, StartDraw, ReadPool, CheckPurchasers, InsertWinner,
     InsertWinnerTwice, InsertWinnerThrows, DeleteWinner, ConfirmOrder, CheckDraft, AddItem,
     CheckNotOrdered, DeleteGift, To, Quietly, Silently, requestVars, StoreAssumption, Requests
<1> QED
  BY <1>2, <1>3, <1>4, <1>5 DEF MailsMatchWinners

-----------------------------------------------------------------------------
(* A crash ends the requests in progress.                                  *)

\* Requests that end have nothing to answer for.
LEMMA CrashIsOrderly ==
  ASSUME StoreAssumption, Orderly, Crash
  PROVE  Orderly'
<1>1. /\ UNCHANGED <<tables, saw, asked, mailed, mailFaults, removals, line, met>>
      /\ at \in [Requests -> Done \cup {"won", "pool", "purchasers", "insert", "reread", "draft",
                                        "item", "confirmed", "drafts", "delete"}]
      /\ at' = [r \in Requests |-> IF at[r] \in Done \cup {FirstStep(r)} THEN at[r] ELSE "dead"]
  BY TypesByPart DEF Crash, CheckoutsDie, readVars, RequestsTyped, Orderly
<1>2. \A r \in Requests : at'[r] = at[r] \/ at'[r] = "dead"
  BY <1>1
<1>3. DrawsSawNothing' /\ DeletionsFaceYoungTickets' /\ MailsMatchWinners'
  BY <1>1, <1>2 DEF Orderly, DrawsSawNothing, DeletionsFaceYoungTickets, MailsMatchWinners, tables, Requests
<1>4. /\ \A b \in Buyers : pc'[b] = pc[b] \/ pc'[b] \in {"dead", "cut"}
      /\ reserved' = [b \in Buyers |-> <<>>]
  BY DEF Crash, CheckoutsDie
<1>5. PassedLinesAreClear'
  <2>1. \A b \in Buyers : \A i \in DOMAIN Basket[b] : Passed(b, i)' => Passed(b, i)
    BY <1>1, <1>4 DEF Passed
  <2> QED
    BY <1>1, <2>1 DEF tables, Orderly, CheckoutsAreClear, PassedLinesAreClear
<1>6. ReservedIsOfBasket'
  BY <1>4 DEF ReservedIsOfBasket
<1>7. OrdersFollowChecks'
  <2>1. \A o \in orders : o.buyer \in Buyers
    BY TypesByPart DEF Orderly, TablesTyped, Order
  <2> QED
    BY <1>1, <1>4, <2>1 DEF tables, Orderly, CheckoutsAreClear, OrdersFollowChecks
<1>8. MetRowsAreOld' /\ TicketsAreClear'
  BY <1>1 DEF tables, Orderly, CheckoutsAreClear, MetRowsAreOld, TicketsAreClear
<1>9. StoreTypeOK'
  BY CrashKeepsTypes DEF Orderly
<1> QED
  BY <1>3, <1>5, <1>6, <1>7, <1>8, <1>9 DEF Orderly, CheckoutsAreClear

-----------------------------------------------------------------------------
\* The empty store is orderly,
LEMMA StartsOrderly ==
  ASSUME PurchaseAssumption, StoreAssumption, Init
  PROVE  Orderly
<1>1. /\ orders = {} /\ tickets = {} /\ winners = {} /\ mailed = {}
      /\ \A b \in Buyers : met[b] = {} /\ reserved[b] = <<>>
      /\ \A d \in Draws : saw[d] = {}
      /\ \A r \in Deletions : asked[r] <= nextId
  BY DEF Init, PurchaseInit
<1>2. \A d \in Draws : at[d] # "ok"
  BY DEF Init, Requests, FirstStep
<1> QED
  BY <1>1, <1>2, StartsTyped DEF Orderly, DrawsSawNothing, DeletionsFaceYoungTickets, MailsMatchWinners,
     CheckoutsAreClear, PassedLinesAreClear, ReservedIsOfBasket, MetRowsAreOld,
     OrdersFollowChecks, TicketsAreClear

\* every step keeps it so,
LEMMA StaysOrderly ==
  ASSUME PurchaseAssumption, StoreAssumption, Orderly, [Next]_vars
  PROVE  Orderly'
<1>1. ASSUME NEW b \in Buyers, Checkout(b)
      PROVE  Orderly'
  <2>1. winners' = winners /\ UNCHANGED <<at, saw, asked, mailed, mailFaults, removals>>
    BY <1>1, CheckoutsLeaveWinners DEF requestVars
  <2>2. DrawsSawNothing' /\ MailsMatchWinners'
    BY <2>1 DEF Orderly, DrawsSawNothing, MailsMatchWinners
  <2>3. nextId \in Nat /\ asked \in [Deletions -> Nat]
    BY TypesByPart DEF Orderly, TablesTyped, RequestsTyped
  <2>4. /\ nextId' \in Nat /\ nextId' >= nextId
        /\ \A t \in tickets' \ tickets : t.id \in Nat /\ t.id >= nextId
    BY <1>1, CheckoutTicketsAreYoung DEF Orderly
  <2>5. DeletionsFaceYoungTickets'
    BY <2>1, <2>3, <2>4 DEF Orderly, DeletionsFaceYoungTickets
  <2> QED
    BY <1>1, <2>2, <2>5, CheckoutStepsKeepTypes, CheckoutStepsAreClear DEF Orderly
<1>2. CASE OtherStep
  BY <1>2, OtherStepsKeepTypes, OtherStepsAreClear, DrawsKeepInSight, DeletionsStayAhead,
     MailsKeepMatching DEF Orderly
<1>3. CASE Crash
  BY <1>3, CrashIsOrderly
<1>4. CASE UNCHANGED vars
  <2>1. StoreTypeOK'
    BY <1>4 DEF Orderly, StoreTypeOK, PurchaseTypeOK, vars, purchaseVars, requestVars, tables, checkoutVars
  <2>2. DrawsSawNothing' /\ DeletionsFaceYoungTickets' /\ MailsMatchWinners'
    BY <1>4 DEF Orderly, DrawsSawNothing, DeletionsFaceYoungTickets, MailsMatchWinners, vars,
       purchaseVars, requestVars, tables
  <2>3. CheckoutsAreClear'
    BY <1>4 DEF Orderly, CheckoutsAreClear, PassedLinesAreClear, Passed, ReservedIsOfBasket,
       MetRowsAreOld, OrdersFollowChecks, TicketsAreClear, vars, purchaseVars, tables, checkoutVars
  <2> QED
    BY <2>1, <2>2, <2>3 DEF Orderly
<1> QED
  BY <1>1, <1>2, <1>3, <1>4 DEF Next, OtherStep

\* and it is so for ever.
LEMMA AlwaysOrderly == Spec => []Orderly
<1>1. Init => Orderly
  BY StartsOrderly, PurchaseAssumption, StoreAssumption
<1>2. Orderly /\ [Next]_vars => Orderly'
  BY StaysOrderly, PurchaseAssumption, StoreAssumption
<1> QED
  BY <1>1, <1>2, PTL DEF Spec

\* Every variable of the store keeps its type, tickets belong to orders that are there,
\* and identities are taken from the source once.
THEOREM StoreTypes == Spec => []StoreTypeOK
<1>1. Orderly => StoreTypeOK
  BY DEF Orderly
<1> QED
  BY <1>1, AlwaysOrderly, PTL

\* A draw that found a winner records none, and a checkout that began after a gift was
\* won sells no ticket of it: overlapping requests alone can.
THEOREM RaffledGiftsStayAlone == Spec => []RaffledGiftsAreLeftAlone
<1>1. ASSUME Orderly
      PROVE  RaffledGiftsAreLeftAlone
  BY <1>1 DEF Orderly, DrawsSawNothing, CheckoutsAreClear, TicketsAreClear, RaffledGiftsAreLeftAlone
<1> QED
  BY <1>1, AlwaysOrderly, PTL

\* Whatever is ordered, confirmed and deleted meanwhile, the tickets of a gift whose
\* deletion went through were all inserted after the deletion had been asked for: the
\* soft delete overtakes no older order (GiftServiceBLL.DeleteGiftAsync).
THEOREM DeletionsSpareSoldGifts == Spec => []DeletedGiftsWereUnsold
<1>1. ASSUME Orderly
      PROVE  DeletedGiftsWereUnsold
  BY <1>1 DEF Orderly, DeletionsFaceYoungTickets, DeletedGiftsWereUnsold
<1> QED
  BY <1>1, AlwaysOrderly, PTL

\* Unless rows are removed, congratulations name a winner row of their gift, and a draw
\* that answers with a winner has sent one.
THEOREM MailsAlwaysMatch == Spec => []MailsMatchWinners
<1>1. Orderly => MailsMatchWinners
  BY DEF Orderly
<1> QED
  BY <1>1, AlwaysOrderly, PTL

=============================================================================
