--------------------------- MODULE OutcomeProofs ----------------------------
(***************************************************************************)
(* The saga implements OrderOutcome: every step of OrderSaga is a step of  *)
(* the abstract order or leaves it alone, for every set of orders, gifts   *)
(* and replicas and any number of failures. RowMatchesStatus follows, and  *)
(* so does, for OrderRaffle, that whoever is drawn was in the pool.        *)
(*                                                                         *)
(* Beyond what OrderSagaProofs keeps (Decided) the refinement needs that   *)
(* an order with an event has a row (Placed), and that OrderService,       *)
(* between the commit and the publish of a verdict, has a row that follows *)
(* it or one that something else has overruled (RowFollows).               *)
(***************************************************************************)
EXTENDS OrderRaffle, OrderSagaProofs

Placed ==
  /\ \A o \in Orders : checkout[o] = "new" <=> row[o] = "absent"
  /\ \A m \in log : row[m.order] # "absent"

Follows(o, ok) == row[o] = Outcome!RowFor(ok) \/ Outcome!Overruled(o, ok)

RowFollows ==
  pc[OrderSvc] \in {"release", "announce"}
    => Follows(held[OrderSvc].order, held[OrderSvc].success)

-----------------------------------------------------------------------------
(* The refinement mapping, event by event.                                 *)

\* A pair is in the mapped sets exactly when such an event was published.
LEMMA DecisionsAreResults ==
  ASSUME NEW o, NEW ok
  PROVE  /\ <<o, ok>> \in Decisions <=> Results(o, ok) # {}
         /\ <<o, ok>> \in Announcements <=> Statuses(o, ok) # {}
BY DEF Decisions, Announcements, Verdicts, Results, Statuses

\* Publishing an event adds its pair, or nothing.
LEMMA SendMaps ==
  ASSUME NEW key, NEW o, NEW ok, Sent(key, o, ok)
  PROVE  /\ key \in ResultKeys => Decisions' = Decisions \cup {<<o, ok>>}
         /\ key \notin ResultKeys => Decisions' = Decisions
         /\ key = "order.status-changed" => Announcements' = Announcements \cup {<<o, ok>>}
         /\ key # "order.status-changed" => Announcements' = Announcements
<1>1. PICK m : /\ m.key = key /\ m.order = o /\ m.success = ok
               /\ log' = log \cup {m} /\ ready' \subseteq ready \cup {m}
  BY SendAddsOne
<1>2. ASSUME NEW keys
      PROVE  /\ key \in keys => Verdicts(keys)' = Verdicts(keys) \cup {<<o, ok>>}
             /\ key \notin keys => Verdicts(keys)' = Verdicts(keys)
  BY <1>1 DEF Verdicts
<1>3. QED
  BY <1>2 DEF Decisions, Announcements

\* The abstract state depends on rows, log and mails only.
LEMMA QuietIsMapped ==
  /\ log' = log => Decisions' = Decisions /\ Announcements' = Announcements
  /\ UNCHANGED mailVars => {o \in Orders : Informed(o)}' = {o \in Orders : Informed(o)}
  /\ UNCHANGED <<log, row, manual, mailVars>> => UNCHANGED Outcome!outcomeVars
<1>1. log' = log => Decisions' = Decisions /\ Announcements' = Announcements
  BY DEF Decisions, Announcements, Verdicts
<1>2. UNCHANGED mailVars => {o \in Orders : Informed(o)}' = {o \in Orders : Informed(o)}
  BY DEF Informed, mailVars
<1>3. QED
  BY <1>1, <1>2 DEF Outcome!outcomeVars

\* Nothing that overrules a verdict is ever taken back.
LEMMA OverruledStays ==
  ASSUME NEW o, NEW ok, Outcome!Overruled(o, ok), log \subseteq log', manual \subseteq manual'
  PROVE  Outcome!Overruled(o, ok)'
BY DEF Outcome!Overruled, Decisions, Verdicts

-----------------------------------------------------------------------------
(* Every step of the saga is a step of the order, or none.                 *)

LEMMA CheckoutRefines ==
  ASSUME TypeOK, Placed, Checkout
  PROVE  Outcome!Next \/ UNCHANGED Outcome!outcomeVars
<1> USE DEF busVars, historyVars
<1>1. ASSUME NEW o \in Orders, NEW draft \in BOOLEAN, SaveOrder(o, draft)
      PROVE  Outcome!Place(o)
  <2>1. row[o] = "absent" /\ UNCHANGED <<log, manual, mailVars>>
    BY <1>1 DEF SaveOrder, Placed
  <2>2. row' = [row EXCEPT ![o] = Outcome!RowFor(~draft)]
    BY <1>1 DEF SaveOrder, Outcome!RowFor
  <2>3. QED
    BY <2>1, <2>2, QuietIsMapped DEF Outcome!Place
<1>2. ASSUME NEW o \in Orders, ConfirmOverHttp(o)
      PROVE  Outcome!ConfirmByHand(o)
  <2>1. /\ row[o] # "absent" /\ UNCHANGED <<log, mailVars>>
        /\ row' = [row EXCEPT ![o] = "final"] /\ manual' = manual \cup {o}
    BY <1>2 DEF ConfirmOverHttp
  <2>2. QED
    BY <2>1, QuietIsMapped DEF Outcome!ConfirmByHand
<1>3. ASSUME NEW o \in Orders, PublishPlaced(o)
      PROVE  UNCHANGED Outcome!outcomeVars
  <2>1. \E key, ok : key = "order.placed" /\ Sent(key, o, ok)
    BY <1>3, PublishSends DEF PublishPlaced
  <2>2. Decisions' = Decisions /\ Announcements' = Announcements
    BY <2>1, SendMaps DEF ResultKeys
  <2>3. UNCHANGED <<row, manual, mailVars>>
    BY <1>3 DEF PublishPlaced
  <2>4. QED
    BY <2>2, <2>3, QuietIsMapped DEF Outcome!outcomeVars
<1>4. ASSUME NEW o \in Orders, PublishPlacedFails(o)
      PROVE  UNCHANGED Outcome!outcomeVars
  BY <1>4, QuietIsMapped DEF PublishPlacedFails
<1>5. QED
  BY <1>1, <1>2, <1>3, <1>4, SagaAssumption DEF Checkout, Outcome!Next

LEMMA CatalogRefines ==
  ASSUME TypeOK, Origins, Placed, NEW c \in Catalogs, CatalogWork(c)
  PROVE  Outcome!Next \/ UNCHANGED Outcome!outcomeVars
<1> USE DEF historyVars, sagaVars
<1>1. ASSUME Reply(c)
      PROVE  Outcome!Next
  <2>1. c \in Services /\ Busy(c)
    BY <1>1 DEF Services, Reply, Busy
  <2>2. PICK o : o = held[c].order
    OBVIOUS
  <2>3. o \in Orders /\ row[o] # "absent"
    BY <2>1, <2>2, OrderOfHeld DEF Origins, Published, Placed
  <2>4. PICK key \in ResultKeys, ok \in BOOLEAN : Sent(key, o, ok)
    BY <1>1, <2>2 DEF Reply, ResultKeys, Sent
  <2>5. Decisions' = Decisions \cup {<<o, ok>>} /\ Announcements' = Announcements
    BY <2>4, SendMaps DEF ResultKeys
  <2>6. UNCHANGED <<row, manual, mailVars>>
    BY <1>1 DEF Reply
  <2>7. Outcome!Decide(o, ok)
    BY <2>3, <2>5, <2>6, QuietIsMapped DEF Outcome!Decide
  <2>8. QED
    BY <2>3, <2>7 DEF Outcome!Next
<1>2. ASSUME \/ \E m \in ready : TakePlaced(c, m) \/ ReleaseLogged(c, m)
             \/ \E g \in Gifts : CheckItem(c, g)
      PROVE  UNCHANGED Outcome!outcomeVars
  <2>1. UNCHANGED <<log, row, manual, mailVars>>
    BY <1>2 DEF TakePlaced, Take, ReleaseLogged, CheckItem
  <2>2. QED
    BY <2>1, QuietIsMapped
<1>3. QED
  BY <1>1, <1>2 DEF CatalogWork

LEMMA OrderRefines ==
  ASSUME TypeOK, Origins, RowFollows, OrderWork
  PROVE  Outcome!Next \/ UNCHANGED Outcome!outcomeVars
<1> USE DEF historyVars, sagaVars
<1>0. OrderSvc \in Services
  BY DEF Services
<1>1. ASSUME NEW m \in ready, TakeResult(m)
      PROVE  UNCHANGED Outcome!outcomeVars
  BY <1>1, QuietIsMapped DEF TakeResult, Take
<1>2. ASSUME Busy(OrderSvc)
      PROVE  \E o \in Orders, ok \in BOOLEAN :
               /\ o = held[OrderSvc].order /\ ok = held[OrderSvc].success
               /\ <<o, ok>> \in Decisions
  BY <1>0, <1>2, ResultBehind, OrderOfHeld, DecisionsAreResults
<1>3. ASSUME ApplyResult
      PROVE  Outcome!Next
  <2>1. PICK o \in Orders, ok \in BOOLEAN :
          /\ o = held[OrderSvc].order /\ ok = held[OrderSvc].success
          /\ <<o, ok>> \in Decisions
    BY <1>2, <1>3 DEF ApplyResult, Busy
  <2>2. row' = [row EXCEPT ![o] = Outcome!RowFor(ok)]
    BY <1>3, <2>1 DEF ApplyResult, RowAfter, Outcome!RowFor
  <2>3. UNCHANGED <<log, manual, mailVars>>
    BY <1>3 DEF ApplyResult
  <2>4. Outcome!Apply(o, ok)
    BY <2>1, <2>2, <2>3, QuietIsMapped DEF Outcome!Apply
  <2>5. QED
    BY <2>4 DEF Outcome!Next
<1>4. ASSUME PublishRelease
      PROVE  UNCHANGED Outcome!outcomeVars
  <2>1. \E key, o, ok : key = "inventory.release-requested" /\ Sent(key, o, ok)
    BY <1>4, PublishSends DEF PublishRelease
  <2>2. Decisions' = Decisions /\ Announcements' = Announcements
    BY <2>1, SendMaps DEF ResultKeys
  <2>3. UNCHANGED <<row, manual, mailVars>>
    BY <1>4 DEF PublishRelease
  <2>4. QED
    BY <2>2, <2>3, QuietIsMapped DEF Outcome!outcomeVars
<1>5. ASSUME PublishStatus
      PROVE  Outcome!Next
  <2>1. PICK o \in Orders, ok \in BOOLEAN :
          /\ o = held[OrderSvc].order /\ ok = held[OrderSvc].success
          /\ <<o, ok>> \in Decisions
    BY <1>2, <1>5 DEF PublishStatus, Busy
  <2>2. Follows(o, ok)
    BY <1>5, <2>1 DEF PublishStatus, RowFollows
  <2>3. \E key : key = "order.status-changed" /\ Sent(key, o, ok)
    BY <1>5, <2>1, PublishSends DEF PublishStatus, Verdict
  <2>4. Decisions' = Decisions /\ Announcements' = Announcements \cup {<<o, ok>>}
    BY <2>3, SendMaps DEF ResultKeys
  <2>5. UNCHANGED <<row, manual, mailVars>>
    BY <1>5 DEF PublishStatus
  <2>6. Outcome!Announce(o, ok)
    BY <2>1, <2>2, <2>4, <2>5, QuietIsMapped DEF Outcome!Announce, Follows
  <2>7. QED
    BY <2>6 DEF Outcome!Next
<1>6. QED
  BY <1>1, <1>3, <1>4, <1>5 DEF OrderWork

LEMMA NotifierRefines ==
  ASSUME TypeOK, Origins, NotifierWork
  PROVE  Outcome!Next \/ UNCHANGED Outcome!outcomeVars
<1> USE DEF historyVars, sagaVars
<1>1. ASSUME NEW m \in ready, TakeStatus(m)
      PROVE  UNCHANGED Outcome!outcomeVars
  BY <1>1, QuietIsMapped DEF TakeStatus, Take
<1>2. ASSUME SendMail
      PROVE  Outcome!Next
  <2>1. PICK o : o = held[Notifier].order
    OBVIOUS
  <2>2. o \in Orders /\ \E ok \in BOOLEAN : <<o, ok>> \in Announcements
    BY <1>2, <2>1, StatusBehind, OrderOfHeld, DecisionsAreResults DEF SendMail, Busy, Services
  <2>3. UNCHANGED <<log, row, manual>>
    BY <1>2 DEF SendMail
  <2>4. Informed(o)' /\ \A x \in Orders \ {o} : Informed(x)' <=> Informed(x)
    BY <1>2, <2>1, <2>2 DEF SendMail, Informed, TypeOK
  <2>5. {x \in Orders : Informed(x)}' = {x \in Orders : Informed(x)} \cup {o}
    BY <2>2, <2>4
  <2>6. Outcome!Mail(o)
    BY <2>2, <2>3, <2>5, QuietIsMapped DEF Outcome!Mail
  <2>7. QED
    BY <2>2, <2>6 DEF Outcome!Next
<1>3. QED
  BY <1>1, <1>2 DEF NotifierWork

LEMMA NextRefines ==
  ASSUME TypeOK, Origins, Placed, RowFollows, [Next]_vars
  PROVE  [Outcome!Next]_(Outcome!outcomeVars)
<1>1. CASE UNCHANGED vars
  BY <1>1, QuietIsMapped DEF vars, busVars, historyVars, sagaVars
<1>2. CASE Checkout
  BY <1>2, CheckoutRefines
<1>3. ASSUME NEW g \in Gifts, AddGift(g) \/ DeleteGift(g)
      PROVE  UNCHANGED Outcome!outcomeVars
  BY <1>3, QuietIsMapped DEF AddGift, DeleteGift, busVars, historyVars
<1>4. ASSUME NEW c \in Catalogs, CatalogWork(c)
      PROVE  Outcome!Next \/ UNCHANGED Outcome!outcomeVars
  BY <1>4, CatalogRefines
<1>5. CASE OrderWork
  BY <1>5, OrderRefines
<1>6. CASE NotifierWork
  BY <1>6, NotifierRefines
<1>7. ASSUME NEW s \in Services, SharedStep(s)
      PROVE  UNCHANGED Outcome!outcomeVars
  BY <1>7, SharedIsCareless, QuietIsMapped
<1>8. QED
  BY <1>1, <1>2, <1>3, <1>4, <1>5, <1>6, <1>7 DEF Next, SharedStep

-----------------------------------------------------------------------------
(* An order with an event has a row.                                       *)

LEMMA CheckoutKeepsPlaced ==
  ASSUME TypeOK, Placed, Checkout
  PROVE  Placed'
<1> USE DEF busVars, historyVars
<1>0. \A m \in log : m.order \in Orders
  BY DEF TypeOK, BusTypeOK, Message
<1>1. ASSUME NEW o \in Orders, NEW draft \in BOOLEAN, SaveOrder(o, draft)
      PROVE  Placed'
  BY <1>0, <1>1 DEF SaveOrder, Placed, TypeOK
<1>2. ASSUME NEW o \in Orders, ConfirmOverHttp(o)
      PROVE  Placed'
  BY <1>0, <1>2 DEF ConfirmOverHttp, Placed, TypeOK
<1>3. ASSUME NEW o \in Orders, PublishPlaced(o)
      PROVE  Placed'
  <2>1. \E key, ok : key = "order.placed" /\ Sent(key, o, ok)
    BY <1>3, PublishSends DEF PublishPlaced
  <2>2. \E m : m.order = o /\ log' = log \cup {m}
    BY <2>1, SendAddsOne
  <2>3. /\ row' = row /\ row[o] # "absent"
        /\ \A x \in Orders : checkout'[x] = "new" <=> checkout[x] = "new"
    BY <1>3 DEF PublishPlaced, Placed, TypeOK
  <2>4. QED
    BY <2>2, <2>3 DEF Placed
<1>4. ASSUME NEW o \in Orders, PublishPlacedFails(o)
      PROVE  Placed'
  BY <1>4 DEF PublishPlacedFails, Placed, TypeOK
<1>5. QED
  BY <1>1, <1>2, <1>3, <1>4, SagaAssumption DEF Checkout

\* The handlers publish only about the order of the delivery they have in hand.
LEMMA HandlersKeepPlaced ==
  ASSUME TypeOK, Origins, Placed, NEW s \in Services, Busy(s), NEW key, NEW ok,
         Sent(key, held[s].order, ok), UNCHANGED <<row, checkout>>
  PROVE  Placed'
<1>1. PICK o : o = held[s].order
  OBVIOUS
<1>2. row[o] # "absent"
  BY <1>1 DEF Origins, Published, Placed
<1>3. \E m : m.order = o /\ log' = log \cup {m}
  BY <1>1, SendAddsOne
<1>4. QED
  BY <1>2, <1>3 DEF Placed

LEMMA NextKeepsPlaced ==
  ASSUME TypeOK, Origins, Placed, [Next]_vars
  PROVE  Placed'
<1> USE DEF historyVars, sagaVars
<1> DEFINE Quiet == UNCHANGED <<log, row, checkout>>
<1>0. Quiet => Placed'
  BY DEF Placed
<1>1. CASE UNCHANGED vars
  BY <1>0, <1>1 DEF vars, busVars
<1>2. CASE Checkout
  BY <1>2, CheckoutKeepsPlaced
<1>3. ASSUME NEW g \in Gifts, AddGift(g) \/ DeleteGift(g)
      PROVE  Quiet
  BY <1>3 DEF AddGift, DeleteGift, busVars
<1>4. ASSUME NEW c \in Catalogs, CatalogWork(c)
      PROVE  Placed'
  <2>1. ASSUME Reply(c)
        PROVE  Placed'
    <3>1. /\ c \in Services /\ Busy(c) /\ UNCHANGED <<row, checkout>>
          /\ \E key, ok : Sent(key, held[c].order, ok)
      BY <2>1 DEF Services, Reply, Busy, Sent
    <3>2. QED
      BY <3>1, HandlersKeepPlaced
  <2>2. ASSUME \/ \E m \in ready : TakePlaced(c, m) \/ ReleaseLogged(c, m)
               \/ \E g \in Gifts : CheckItem(c, g)
        PROVE  Quiet
    BY <2>2 DEF TakePlaced, Take, ReleaseLogged, CheckItem
  <2>3. QED
    BY <1>0, <1>4, <2>1, <2>2 DEF CatalogWork
<1>5. CASE OrderWork
  <2>1. ASSUME PublishRelease \/ PublishStatus
        PROVE  Placed'
    <3>1. /\ OrderSvc \in Services /\ Busy(OrderSvc) /\ UNCHANGED <<row, checkout>>
          /\ \E key, ok : Sent(key, held[OrderSvc].order, ok)
      BY <2>1, PublishSends DEF Services, PublishRelease, PublishStatus, Busy
    <3>2. QED
      BY <3>1, HandlersKeepPlaced
  <2>2. ASSUME NEW m \in ready, TakeResult(m)
        PROVE  Quiet
    BY <2>2 DEF TakeResult, Take
  <2>3. ASSUME ApplyResult
        PROVE  Placed'
    <3>1. PICK o : o = held[OrderSvc].order
      OBVIOUS
    <3>2. OrderSvc \in Services /\ Busy(OrderSvc)
      BY <2>3 DEF Services, ApplyResult, Busy
    <3>3. o \in Orders /\ row[o] # "absent"
      BY <3>1, <3>2, OrderOfHeld DEF Origins, Published, Placed
    <3>4. UNCHANGED <<log, checkout>> /\ \E new \in {"final", "draft"} : row' = [row EXCEPT ![o] = new]
      BY <2>3, <3>1 DEF ApplyResult, RowAfter
    <3>5. \A m \in log : m.order \in Orders
      BY DEF TypeOK, BusTypeOK, Message
    <3>6. QED
      BY <3>3, <3>4, <3>5 DEF Placed, TypeOK
  <2>4. QED
    BY <1>0, <1>5, <2>1, <2>2, <2>3 DEF OrderWork
<1>6. CASE NotifierWork
  BY <1>0, <1>6 DEF NotifierWork, TakeStatus, Take, SendMail
<1>7. ASSUME NEW s \in Services, SharedStep(s)
      PROVE  Placed'
  <2>1. UNCHANGED <<log, row>>
    BY <1>7, SharedIsCareless
  <2>2. CASE CrashService(s)
    BY <2>1, <2>2 DEF CrashService, Placed
  <2>3. CASE UNCHANGED checkout
    BY <1>0, <2>1, <2>3
  <2>4. QED
    BY <1>7, <2>2, <2>3
    DEF SharedStep, Protocol, Startup, Failure, SuppressDuplicate, Acknowledge,
        AcknowledgeThrows, HandlerThrows, RepublishWithRetry, DeadLetter, AbandonStale,
        BootService, SubscribeService, RecoverConnection, DropConnection
<1>8. QED
  BY <1>0, <1>1, <1>2, <1>3, <1>4, <1>5, <1>6, <1>7 DEF Next, SharedStep

-----------------------------------------------------------------------------
(* Between commit and publish the row follows the verdict in hand.         *)

\* A verdict the row follows stays followed while only other rows are written.
LEMMA FollowsStays ==
  ASSUME NEW o, NEW ok, Follows(o, ok), log \subseteq log', manual \subseteq manual',
         row'[o] = row[o]
  PROVE  Follows(o, ok)'
BY OverruledStays DEF Follows, Outcome!RowFor

\* A step that writes no row and leaves OrderService where it was or at a step that
\* holds no applied verdict.
LEMMA CarelessKeepsRowFollows ==
  ASSUME RowFollows, log \subseteq log', manual \subseteq manual', row' = row,
         \/ pc'[OrderSvc] \in Careless
         \/ pc'[OrderSvc] = pc[OrderSvc] /\ held'[OrderSvc] = held[OrderSvc]
  PROVE  RowFollows'
<1>1. PICK o, ok : o = held[OrderSvc].order /\ ok = held[OrderSvc].success
  OBVIOUS
<1>2. ASSUME pc'[OrderSvc] \in {"release", "announce"}
      PROVE  Follows(o, ok)' /\ held'[OrderSvc] = held[OrderSvc]
  BY <1>1, <1>2, FollowsStays DEF RowFollows, Careless
<1>3. QED
  BY <1>1, <1>2 DEF RowFollows

\* Clients write the rows of new orders, of which nothing is in hand, and confirm by
\* hand, which overrules.
LEMMA CheckoutKeepsRowFollows ==
  ASSUME TypeOK, Origins, Placed, RowFollows, Checkout
  PROVE  RowFollows'
<1> USE DEF busVars, handlerVars, historyVars
<1>1. PICK o, ok : o = held[OrderSvc].order /\ ok = held[OrderSvc].success
  OBVIOUS
<1>2. UNCHANGED <<pc, held>> /\ log \subseteq log' /\ manual \subseteq manual'
  BY PublishSends, SentIsLogged
  DEF Checkout, SaveOrder, PublishPlaced, PublishPlacedFails, ConfirmOverHttp
<1>3. SUFFICES ASSUME pc[OrderSvc] \in {"release", "announce"}
               PROVE  Follows(o, ok)'
  BY <1>1, <1>2 DEF RowFollows
<1>4. Busy(OrderSvc) /\ OrderSvc \in Services
  BY <1>3 DEF Busy, Services
<1>5. o \in Orders /\ row[o] # "absent" /\ Follows(o, ok)
  BY <1>1, <1>3, <1>4, OrderOfHeld DEF Origins, Published, Placed, RowFollows
<1>6. CASE row'[o] = row[o]
  BY <1>2, <1>5, <1>6, FollowsStays
<1>7. ASSUME NEW x \in Orders, NEW draft \in BOOLEAN, SaveOrder(x, draft)
      PROVE  row'[o] = row[o]
  BY <1>5, <1>7 DEF SaveOrder, Placed, TypeOK
<1>8. ASSUME NEW x \in Orders, ConfirmOverHttp(x), row'[o] # row[o]
      PROVE  Follows(o, ok)'
  BY <1>5, <1>8 DEF ConfirmOverHttp, Follows, Outcome!Overruled, TypeOK
<1>9. ASSUME NEW x \in Orders, PublishPlaced(x) \/ PublishPlacedFails(x)
      PROVE  row'[o] = row[o]
  BY <1>9 DEF PublishPlaced, PublishPlacedFails
<1>10. QED
  BY <1>6, <1>7, <1>8, <1>9, SagaAssumption DEF Checkout

LEMMA OrderKeepsRowFollows ==
  ASSUME TypeOK, RowFollows, OrderWork
  PROVE  RowFollows'
<1> USE DEF historyVars, sagaVars
<1>0. OrderSvc \in Services
  BY DEF Services
<1>1. PICK o, ok : o = held[OrderSvc].order /\ ok = held[OrderSvc].success
  OBVIOUS
<1>2. ASSUME NEW m \in ready, TakeResult(m)
      PROVE  RowFollows'
  <2>1. UNCHANGED <<log, manual, row>> /\ pc'[OrderSvc] \in Careless
    BY <1>0, <1>2 DEF TakeResult, Take, Careless, TypeOK, BusTypeOK
  <2>2. QED
    BY <2>1, CarelessKeepsRowFollows
<1>3. ASSUME ApplyResult
      PROVE  RowFollows'
  <2>1. held' = held /\ o \in Orders /\ ok \in BOOLEAN
    BY <1>0, <1>1, <1>3, OrderOfHeld DEF ApplyResult, Busy
  <2>2. row' = [row EXCEPT ![o] = Outcome!RowFor(ok)]
    BY <1>1, <1>3 DEF ApplyResult, RowAfter, Outcome!RowFor
  <2>3. row'[o] = Outcome!RowFor(ok)
    BY <2>1, <2>2 DEF TypeOK
  <2>4. Follows(o, ok)'
    BY <2>3 DEF Follows, Outcome!RowFor
  <2>5. QED
    BY <1>1, <2>1, <2>4 DEF RowFollows
<1>4. ASSUME PublishRelease
      PROVE  RowFollows'
  <2>1. pc[OrderSvc] = "release" /\ held' = held /\ UNCHANGED <<manual, row>>
        /\ log \subseteq log'
    BY <1>4, PublishSends, SentIsLogged DEF PublishRelease
  <2>2. Follows(o, ok)'
    BY <1>1, <2>1, FollowsStays DEF RowFollows
  <2>3. QED
    BY <1>1, <2>1, <2>2 DEF RowFollows
<1>5. ASSUME PublishStatus
      PROVE  RowFollows'
  <2>1. UNCHANGED <<manual, row>> /\ log \subseteq log' /\ pc'[OrderSvc] \in Careless
    BY <1>0, <1>5, PublishSends, SentIsLogged DEF PublishStatus, Careless, TypeOK, BusTypeOK
  <2>2. QED
    BY <2>1, CarelessKeepsRowFollows
<1>6. QED
  BY <1>2, <1>3, <1>4, <1>5 DEF OrderWork

LEMMA NextKeepsRowFollows ==
  ASSUME TypeOK, Origins, Placed, RowFollows, [Next]_vars
  PROVE  RowFollows'
<1> USE DEF historyVars, sagaVars
<1> DEFINE Elsewhere == /\ log \subseteq log' /\ manual' = manual /\ row' = row
                        /\ \/ pc'[OrderSvc] \in Careless
                           \/ pc'[OrderSvc] = pc[OrderSvc] /\ held'[OrderSvc] = held[OrderSvc]
<1>0. Elsewhere => RowFollows'
  BY CarelessKeepsRowFollows
<1>1. CASE UNCHANGED vars
  BY <1>0, <1>1 DEF vars, busVars, handlerVars
<1>2. CASE Checkout
  BY <1>2, CheckoutKeepsRowFollows
<1>3. ASSUME NEW g \in Gifts, AddGift(g) \/ DeleteGift(g)
      PROVE  Elsewhere
  BY <1>3 DEF AddGift, DeleteGift, busVars, handlerVars
<1>4. ASSUME NEW c \in Catalogs, CatalogWork(c)
      PROVE  Elsewhere
  <2>1. OrderSvc # c
    BY BusAssumption
  <2>2. log \subseteq log' /\ UNCHANGED <<manual, row>>
    BY <1>4 DEF CatalogWork, TakePlaced, Take, ReleaseLogged, CheckItem, Reply, Send
  <2>3. pc'[OrderSvc] = pc[OrderSvc] /\ held'[OrderSvc] = held[OrderSvc]
    BY <1>4, <2>1 DEF CatalogWork, TakePlaced, Take, ReleaseLogged, CheckItem, Reply,
                      handlerVars, TypeOK, BusTypeOK, Services
  <2>4. QED
    BY <2>2, <2>3
<1>5. CASE OrderWork
  BY <1>5, OrderKeepsRowFollows
<1>6. CASE NotifierWork
  <2>1. UNCHANGED <<log, manual, row>>
    BY <1>6 DEF NotifierWork, TakeStatus, Take, SendMail
  <2>2. QED
    BY <1>0, <1>6, <2>1, OthersAreCareless DEF Services
<1>7. ASSUME NEW s \in Services, SharedStep(s)
      PROVE  Elsewhere
  BY <1>7, SharedIsCareless DEF Services
<1>8. QED
  BY <1>0, <1>1, <1>2, <1>3, <1>4, <1>5, <1>6, <1>7 DEF Next, SharedStep

-----------------------------------------------------------------------------
(* The theorems.                                                           *)

\* The inductive invariant of the refinement.
Outlined == Decided /\ Placed /\ RowFollows

LEMMA InitOutlined == Init => Outlined
BY InitDecided DEF Outlined, Init, Placed, RowFollows, Services

LEMMA NextOutlined == Outlined /\ [Next]_vars => Outlined'
BY NextDecided, NextKeepsPlaced, NextKeepsRowFollows DEF Outlined, Decided

LEMMA InitRefines == Init => Outcome!Init
BY DEF Init, Outcome!Init, Decisions, Announcements, Verdicts, Informed

\* The saga with its queues, retries, crashes and lost connections does nothing the
\* abstract order does not allow: OrderService announces only what its row follows or
\* something has overruled, and the row moves only by clients and decisions.
THEOREM SagaImplementsOutcome == Spec => ImplementsOutcome
<1>1. Outlined /\ [Next]_vars => [Outcome!Next]_(Outcome!outcomeVars)
  BY NextRefines DEF Outlined, Decided
<1>2. QED
  BY <1>1, InitRefines, InitOutlined, NextOutlined, PTL DEF Spec, ImplementsOutcome, Outcome!Spec

\* What the abstract order keeps: whatever was announced, the row follows it or it
\* was overruled.
Agreed ==
  \A o \in Orders : \A ok \in BOOLEAN : <<o, ok>> \in Announcements => Follows(o, ok)

LEMMA OutcomeKeepsAgreed ==
  ASSUME TypeOK, Agreed, [Outcome!Next]_(Outcome!outcomeVars)
  PROVE  Agreed'
<1> SUFFICES ASSUME NEW o \in Orders, NEW ok \in BOOLEAN, <<o, ok>> \in Announcements'
             PROVE  Follows(o, ok)'
  BY DEF Agreed
<1> USE DEF Follows, Outcome!RowFor, Outcome!Overruled
<1>1. CASE UNCHANGED Outcome!outcomeVars
  BY <1>1 DEF Agreed, Outcome!outcomeVars
<1>2. ASSUME NEW x \in Orders, Outcome!Place(x)
      PROVE  Follows(o, ok)'
  <2>1. Follows(o, ok)
    BY <1>2 DEF Agreed, Outcome!Place
  <2>2. row'[o] = row[o] \/ row[o] = "absent"
    BY <1>2 DEF Outcome!Place, TypeOK
  <2>3. QED
    BY <1>2, <2>1, <2>2 DEF Outcome!Place
<1>3. ASSUME NEW x \in Orders, Outcome!ConfirmByHand(x)
      PROVE  Follows(o, ok)'
  <2>1. Follows(o, ok)
    BY <1>3 DEF Agreed, Outcome!ConfirmByHand
  <2>2. row'[o] = row[o] \/ o \in manual'
    BY <1>3 DEF Outcome!ConfirmByHand, TypeOK
  <2>3. QED
    BY <1>3, <2>1, <2>2 DEF Outcome!ConfirmByHand
<1>4. ASSUME NEW x \in Orders, NEW verdict \in BOOLEAN, Outcome!Decide(x, verdict)
      PROVE  Follows(o, ok)'
  BY <1>4 DEF Agreed, Outcome!Decide
<1>5. ASSUME NEW x \in Orders, NEW verdict \in BOOLEAN, Outcome!Apply(x, verdict)
      PROVE  Follows(o, ok)'
  <2>1. Follows(o, ok) /\ Decisions' = Decisions /\ manual' = manual
    BY <1>5 DEF Agreed, Outcome!Apply
  <2>2. CASE x # o
    BY <1>5, <2>1, <2>2 DEF Outcome!Apply, TypeOK
  <2>3. CASE x = o /\ verdict = ok
    BY <1>5, <2>3 DEF Outcome!Apply, TypeOK
  <2>4. CASE x = o /\ verdict = ~ok
    BY <1>5, <2>1, <2>4 DEF Outcome!Apply
  <2>5. QED
    BY <2>2, <2>3, <2>4
<1>6. ASSUME NEW x \in Orders, NEW verdict \in BOOLEAN, Outcome!Announce(x, verdict)
      PROVE  Follows(o, ok)'
  <2>1. UNCHANGED <<row, manual, Decisions>>
    BY <1>6 DEF Outcome!Announce
  <2>2. CASE <<o, ok>> \in Announcements
    BY <2>1, <2>2 DEF Agreed
  <2>3. CASE o = x /\ ok = verdict
    BY <1>6, <2>1, <2>3 DEF Outcome!Announce
  <2>4. QED
    BY <1>6, <2>2, <2>3 DEF Outcome!Announce
<1>7. ASSUME NEW x \in Orders, Outcome!Mail(x)
      PROVE  Follows(o, ok)'
  BY <1>7 DEF Agreed, Outcome!Mail
<1>8. QED
  BY <1>1, <1>2, <1>3, <1>4, <1>5, <1>6, <1>7 DEF Outcome!Next

LEMMA AgreedMatches == Agreed => RowMatchesStatus
BY DecisionsAreResults DEF Agreed, Follows, Outcome!RowFor, Outcome!Overruled, RowMatchesStatus

\* Unless the catalog contradicted itself or somebody confirmed by hand, an order
\* announced as Confirmed is out of draft and one announced as Rejected is a draft.
THEOREM RowsMatchAnnouncements == Spec => []RowMatchesStatus
<1>1. Init => Agreed
  BY DEF Init, Agreed, Announcements, Verdicts
<1>2. Outlined /\ Agreed /\ [Next]_vars => Agreed'
  BY NextRefines, OutcomeKeepsAgreed DEF Outlined, Decided
<1>3. QED
  BY <1>1, <1>2, InitOutlined, NextOutlined, AgreedMatches, PTL DEF Spec

-----------------------------------------------------------------------------
(* The raffle, for any number of orders, users, draws, winners entered by  *)
(* hand, added items and failures of the saga. The steps of the saga reach *)
(* it only through the abstract order of OrderOutcome                      *)
(* (SagaImplementsOutcome): a row that is final stays so unless the        *)
(* catalog has decided against the order, and decisions are never taken    *)
(* back. So a ticket that was good when the pool was read is good, in the  *)
(* sense of the property, for ever (TicketsStay); that it was good then    *)
(* follows from what the saga keeps (PoolHasTickets).                      *)

\* The order o gives the user a ticket of the gift, which the rejections a draw knew of
\* when it began do not speak against.
Ticket(o, user, g, rejected) ==
  /\ Owner[o] = user /\ HasLine(o, g)
  /\ o \in chosenFinal \cup manual \/ Results(o, TRUE) # {}
  /\ row[o] = "final" \/ Results(o, FALSE) # {}
  /\ o \in rejected => o \in manual \/ Results(o, TRUE) # {}

RaffleTyped ==
  /\ at \in [Requests -> {"won", "pool", "insert"} \cup Answered]
  /\ DOMAIN chosen = Requests
  /\ DOMAIN told = Draws

\* A draw knows of rejections that were announced, and a winner row was inserted by a
\* request that has done so for the gift it is about.
DrawsBegan == \A d \in Draws : told[d] \subseteq {o \in Orders : Statuses(o, FALSE) # {}}
WinnersAreOf ==
  \A w \in winners :
    /\ w.by \in Requests /\ at[w.by] \in {"ok", "failed"}
    /\ w.gift = Target[w.by]

\* What a draw is about to record has a ticket, like what it has recorded.
ChosenHaveTickets ==
  \A d \in Draws : at[d] = "insert" =>
    \E o \in Orders : Ticket(o, chosen[d], Target[d], told[d])

WinnersHaveTickets ==
  \A w \in winners : w.by \in Draws =>
    \E o \in Orders : Ticket(o, w.user, w.gift, told[w.by])

FairDraws ==
  /\ RaffleTyped /\ DrawsBegan /\ WinnersAreOf
  /\ ChosenHaveTickets /\ WinnersHaveTickets

\* What the saga keeps, whatever the raffle does.
Known == Outlined /\ PoolIsJustified /\ Agreed

-----------------------------------------------------------------------------
(* The saga below the raffle.                                              *)

LEMMA RaffleRunsTheSaga == [RaffleNext]_allVars => [Next]_vars
BY DEF RaffleNext, SagaStep, AddItem, StartDraw, ReadPool, InsertWinner, InsertWinnerThrows,
       allVars

LEMMA InitKnown == Init => Known
<1>1. Init => Agreed /\ PoolIsJustified
  BY DEF Init, Agreed, Announcements, Verdicts, PoolIsJustified
<1>2. QED
  BY <1>1, InitOutlined DEF Known

LEMMA NextKnown == Known /\ [Next]_vars => Known'
<1> SUFFICES ASSUME Known, [Next]_vars
             PROVE  Known'
  OBVIOUS
<1>1. /\ Outlined /\ PoolIsJustified /\ Agreed
      /\ TypeOK /\ Origins /\ Placed /\ RowFollows
  BY DEF Known, Outlined, Decided
<1>2. Agreed'
  BY <1>1, NextRefines, OutcomeKeepsAgreed
<1>3. PoolIsJustified'
  BY <1>1, NextGrows, NextKeepsPool
<1>4. QED
  BY <1>1, <1>2, <1>3, NextOutlined DEF Known

-----------------------------------------------------------------------------
(* Tickets.                                                                *)

\* A final row leaves the pool by a decision against it only.
LEMMA FinalRowsStay ==
  ASSUME TypeOK, [Outcome!Next]_(Outcome!outcomeVars), NEW o \in Orders, row[o] = "final"
  PROVE  row'[o] = "final" \/ <<o, FALSE>> \in Decisions
<1> USE DEF Outcome!RowFor, TypeOK
<1>1. CASE UNCHANGED Outcome!outcomeVars
  BY <1>1 DEF Outcome!outcomeVars
<1>2. ASSUME NEW x \in Orders, Outcome!Place(x)
      PROVE  row'[o] = "final"
  BY <1>2 DEF Outcome!Place
<1>3. ASSUME NEW x \in Orders, Outcome!ConfirmByHand(x)
      PROVE  row'[o] = "final"
  BY <1>3 DEF Outcome!ConfirmByHand
<1>4. ASSUME NEW x \in Orders, NEW ok \in BOOLEAN, Outcome!Apply(x, ok)
      PROVE  row'[o] = "final" \/ <<o, FALSE>> \in Decisions
  BY <1>4 DEF Outcome!Apply
<1>5. ASSUME NEW x \in Orders, NEW ok \in BOOLEAN,
             Outcome!Decide(x, ok) \/ Outcome!Announce(x, ok) \/ Outcome!Mail(x)
      PROVE  row'[o] = "final"
  BY <1>5 DEF Outcome!Decide, Outcome!Announce, Outcome!Mail
<1>6. QED
  BY <1>1, <1>2, <1>3, <1>4, <1>5 DEF Outcome!Next

\* Clients' choices and confirmations by hand are never taken back.
LEMMA ChoicesStay ==
  ASSUME TypeOK, [Next]_vars
  PROVE  chosenFinal \subseteq chosenFinal' /\ manual \subseteq manual'
<1>1. CASE UNCHANGED <<row, chosenFinal, manual>>
  BY <1>1
<1>2. CASE ApplyResult
  BY <1>2 DEF ApplyResult
<1>3. CASE Checkout
  BY <1>3 DEF Checkout, SaveOrder, ConfirmOverHttp, PublishPlaced, PublishPlacedFails
<1>4. QED
  BY <1>1, <1>2, <1>3, RowsKept

\* A ticket is never lost: what the saga and the owners do later only adds to it.
LEMMA TicketsStay ==
  ASSUME Known, [Next]_vars, added \subseteq added',
         NEW o \in Orders, NEW user, NEW g, NEW rejected, Ticket(o, user, g, rejected)
  PROVE  Ticket(o, user, g, rejected)'
<1>1. TypeOK /\ Origins /\ Placed /\ RowFollows
  BY DEF Known, Outlined, Decided
<1>2. \A ok \in BOOLEAN : Results(o, ok) # {} => Results(o, ok)' # {}
  BY <1>1, NextGrows DEF Grows, Results
<1>3. chosenFinal \subseteq chosenFinal' /\ manual \subseteq manual'
  BY <1>1, ChoicesStay
<1>4. row'[o] = "final" \/ Results(o, FALSE)' # {}
  <2>1. CASE Results(o, FALSE) # {}
    BY <1>2, <2>1
  <2>2. CASE row[o] = "final"
    <3>1. row'[o] = "final" \/ <<o, FALSE>> \in Decisions
      BY <1>1, <2>2, NextRefines, FinalRowsStay
    <3>2. QED
      BY <1>2, <3>1, DecisionsAreResults
  <2>3. QED
    BY <2>1, <2>2 DEF Ticket
<1>5. HasLine(o, g)'
  BY DEF Ticket, HasLine
<1>6. QED
  BY <1>2, <1>3, <1>4, <1>5 DEF Ticket

\* An order in the pool is a ticket: something put it there, and if its rejection had
\* been announced when the draw began, something has overruled that.
LEMMA PoolHasTickets ==
  ASSUME Known, DrawsBegan, NEW d \in Draws, NEW o \in Orders, InPool(o, Target[d])
  PROVE  Ticket(o, Owner[o], Target[d], told[d])
<1>1. row[o] = "final" /\ HasLine(o, Target[d])
  BY DEF InPool
<1>2. o \in chosenFinal \cup manual \/ Results(o, TRUE) # {}
  BY <1>1 DEF Known, PoolIsJustified
<1>3. ASSUME o \in told[d], o \notin manual, Results(o, TRUE) = {}
      PROVE  FALSE
  <2>1. Statuses(o, FALSE) # {}
    BY <1>3 DEF DrawsBegan
  <2>2. row[o] = "draft"
    BY <1>3, <2>1, AgreedMatches DEF Known, RowMatchesStatus
  <2>3. QED
    BY <1>1, <2>2
<1>4. QED
  BY <1>1, <1>2, <1>3 DEF Ticket

-----------------------------------------------------------------------------
(* The steps.                                                              *)

LEMMA InitFair == RaffleInit => FairDraws
BY DEF RaffleInit, FairDraws, RaffleTyped, DrawsBegan, WinnersAreOf, ChosenHaveTickets,
       WinnersHaveTickets, Requests, Answered

\* Who has a ticket for a draw keeps it.
LEMMA KeptTicket ==
  ASSUME Known, [Next]_vars, added \subseteq added', NEW d \in Draws, told'[d] = told[d],
         NEW user, \E o \in Orders : Ticket(o, user, Target[d], told[d])
  PROVE  (\E o \in Orders : Ticket(o, user, Target[d], told[d]))'
<1>1. PICK o \in Orders : Ticket(o, user, Target[d], told[d])
  OBVIOUS
<1>2. PICK g, rejected : g = Target[d] /\ rejected = told[d]
  OBVIOUS
<1>3. Ticket(o, user, g, rejected)'
  BY <1>1, <1>2, TicketsStay
<1>4. QED
  BY <1>2, <1>3

\* An announced rejection stays announced.
LEMMA KeptRejections ==
  ASSUME Known, [Next]_vars, NEW d \in Draws, DrawsBegan, told'[d] = told[d]
  PROVE  told'[d] \subseteq {o \in Orders : Statuses(o, FALSE)' # {}}
<1>1. log \subseteq log'
  BY NextGrows DEF Known, Outlined, Decided, Grows
<1>2. \A o \in Orders : Statuses(o, FALSE) # {} => Statuses(o, FALSE)' # {}
  BY <1>1 DEF Statuses
<1>3. QED
  BY <1>2 DEF DrawsBegan

\* A recorded winner is untouched by requests that have not recorded one.
LEMMA KeptWinner ==
  ASSUME Known, FairDraws, [Next]_vars, added \subseteq added', NEW w \in winners,
         w.by \in Draws => told'[w.by] = told[w.by], at'[w.by] = at[w.by]
  PROVE  /\ w.by \in Requests /\ at'[w.by] \in {"ok", "failed"} /\ w.gift = Target[w.by]
         /\ w.by \in Draws => (\E o \in Orders : Ticket(o, w.user, w.gift, told[w.by]))'
<1>1. w.by \in Requests /\ at[w.by] \in {"ok", "failed"} /\ w.gift = Target[w.by]
  BY DEF FairDraws, WinnersAreOf
<1>2. ASSUME w.by \in Draws
      PROVE  (\E o \in Orders : Ticket(o, w.user, w.gift, told[w.by]))'
  <2>1. PICK d, user : d \in Draws /\ d = w.by /\ user = w.user
    BY <1>2
  <2>2. \E o \in Orders : Ticket(o, user, Target[d], told[d])
    BY <1>1, <1>2, <2>1 DEF FairDraws, WinnersHaveTickets
  <2>3. (\E o \in Orders : Ticket(o, user, Target[d], told[d]))'
    BY <2>1, <2>2, KeptTicket
  <2>4. QED
    BY <1>1, <2>1, <2>3
<1>3. QED
  BY <1>1, <1>2

\* What a draw has chosen is untouched by other requests.
LEMMA KeptChoice ==
  ASSUME Known, FairDraws, [Next]_vars, added \subseteq added', NEW d \in Draws,
         told'[d] = told[d], chosen'[d] = chosen[d], at[d] = "insert"
  PROVE  (\E o \in Orders : Ticket(o, chosen[d], Target[d], told[d]))'
<1>1. PICK user : user = chosen[d]
  OBVIOUS
<1>2. \E o \in Orders : Ticket(o, user, Target[d], told[d])
  BY <1>1 DEF FairDraws, ChosenHaveTickets
<1>3. (\E o \in Orders : Ticket(o, user, Target[d], told[d]))'
  BY <1>2, KeptTicket
<1>4. QED
  BY <1>1, <1>3

\* A step that records and chooses nobody, and ends no request that has.
LEMMA QuietKeepsFair ==
  ASSUME Known, FairDraws, [Next]_vars, added \subseteq added',
         UNCHANGED <<winners, chosen, told>>, RaffleTyped',
         \A r \in Requests :
           at'[r] = at[r] \/ (at'[r] # "insert" /\ at[r] \notin {"ok", "failed"})
  PROVE  FairDraws'
<1>1. DrawsBegan'
  BY KeptRejections DEF DrawsBegan, FairDraws
<1>2. \A w \in winners : w.by \in Requests /\ at'[w.by] = at[w.by]
  BY DEF FairDraws, WinnersAreOf
<1>3. WinnersAreOf' /\ WinnersHaveTickets'
  BY <1>2, KeptWinner DEF WinnersAreOf, WinnersHaveTickets
<1>4. ChosenHaveTickets'
  BY KeptChoice DEF ChosenHaveTickets, Requests
<1>5. QED
  BY <1>1, <1>3, <1>4 DEF FairDraws

LEMMA SagaKeepsFair ==
  ASSUME Known, FairDraws, SagaStep
  PROVE  FairDraws'
<1>1. RaffleTyped'
  BY DEF FairDraws, RaffleTyped, SagaStep, Answered
<1>2. \A r \in Requests :
        at'[r] = at[r] \/ (at'[r] # "insert" /\ at[r] \notin {"ok", "failed"})
  BY DEF SagaStep, Begun
<1>3. QED
  BY <1>1, <1>2, QuietKeepsFair DEF SagaStep

LEMMA AddItemKeepsFair ==
  ASSUME Known, FairDraws, NEW o \in Orders, NEW g \in Gifts, AddItem(o, g)
  PROVE  FairDraws'
BY QuietKeepsFair DEF AddItem, FairDraws, RaffleTyped

\* The draw notes the rejections that are announced.
LEMMA StartKeepsFair ==
  ASSUME Known, FairDraws, NEW d \in Draws, StartDraw(d)
  PROVE  FairDraws'
<1>1. /\ [Next]_vars /\ added' = added /\ winners' = winners /\ chosen' = chosen /\ vars' = vars
      /\ d \in Requests /\ at[d] = "won" /\ at'[d] \in {"refused", "pool"}
      /\ \A r \in Requests \ {d} : at'[r] = at[r]
      /\ \A e \in Draws \ {d} : told'[e] = told[e]
      /\ told'[d] = {o \in Orders : Statuses(o, FALSE) # {}}
  BY DEF StartDraw, To, FairDraws, RaffleTyped, Requests
<1>2. RaffleTyped'
  BY DEF StartDraw, To, FairDraws, RaffleTyped, Answered
<1>3. log' = log
  BY <1>1 DEF vars, busVars, historyVars
<1>4. DrawsBegan'
  <2>1. ASSUME NEW e \in Draws \ {d}
        PROVE  told'[e] \subseteq {o \in Orders : Statuses(o, FALSE)' # {}}
    BY <1>1, KeptRejections DEF FairDraws
  <2>2. told'[d] \subseteq {o \in Orders : Statuses(o, FALSE)' # {}}
    BY <1>1, <1>3 DEF Statuses
  <2>3. QED
    BY <2>1, <2>2 DEF DrawsBegan
<1>5. ASSUME NEW w \in winners
      PROVE  w.by # d /\ w.by \in Requests
    BY <1>1 DEF FairDraws, WinnersAreOf
<1>6. \A w \in winners : at'[w.by] = at[w.by] /\ (w.by \in Draws => told'[w.by] = told[w.by])
  BY <1>1, <1>5
<1>7. WinnersAreOf' /\ WinnersHaveTickets'
  BY <1>1, <1>6, KeptWinner DEF WinnersAreOf, WinnersHaveTickets
<1>8. \A e \in Draws : at'[e] = "insert" => e # d /\ at[e] = "insert"
  BY <1>1 DEF Requests
<1>9. ChosenHaveTickets'
  BY <1>1, <1>8, KeptChoice DEF ChosenHaveTickets
<1>10. QED
  BY <1>2, <1>4, <1>7, <1>9 DEF FairDraws

\* Who is chosen from the pool has a ticket.
LEMMA ReadKeepsFair ==
  ASSUME Known, FairDraws, NEW d \in Draws, ReadPool(d)
  PROVE  FairDraws'
<1>1. /\ [Next]_vars /\ UNCHANGED <<vars, winners, told, added>>
      /\ d \in Requests /\ at[d] = "pool" /\ at'[d] \in {"none", "insert"}
      /\ \A r \in Requests \ {d} : at'[r] = at[r] /\ chosen'[r] = chosen[r]
  BY DEF ReadPool, To, FairDraws, RaffleTyped, Requests
<1>2. RaffleTyped'
  BY DEF ReadPool, To, FairDraws, RaffleTyped, Answered
<1>3. DrawsBegan'
  BY <1>1, KeptRejections DEF DrawsBegan, FairDraws
<1>4. \A w \in winners : w.by \in Requests /\ w.by # d
  BY <1>1 DEF FairDraws, WinnersAreOf
<1>5. WinnersAreOf' /\ WinnersHaveTickets'
  BY <1>1, <1>4, KeptWinner DEF WinnersAreOf, WinnersHaveTickets
<1>6. ASSUME at'[d] = "insert"
      PROVE  (\E o \in Orders : Ticket(o, chosen[d], Target[d], told[d]))'
  <2>1. PICK user : user = chosen'[d]
    OBVIOUS
  <2>2. \E o \in Orders : Owner[o] = user /\ InPool(o, Target[d])
    BY <1>1, <1>6, <2>1 DEF ReadPool, To, FairDraws, RaffleTyped
  <2>3. \E o \in Orders : Ticket(o, user, Target[d], told[d])
    BY <2>2, PoolHasTickets DEF FairDraws
  <2>4. (\E o \in Orders : Ticket(o, user, Target[d], told[d]))'
    BY <1>1, <2>3, KeptTicket
  <2>5. QED
    BY <2>1, <2>4
<1>7. ChosenHaveTickets'
  <2>1. ASSUME NEW e \in Draws \ {d}, at'[e] = "insert"
        PROVE  (\E o \in Orders : Ticket(o, chosen[e], Target[e], told[e]))'
    BY <1>1, <2>1, KeptChoice DEF Requests
  <2>2. QED
    BY <1>6, <2>1 DEF ChosenHaveTickets
<1>8. QED
  BY <1>2, <1>3, <1>5, <1>7 DEF FairDraws

\* A draw records whom it has chosen, or its insert fails without effect.
LEMMA InsertKeepsFair ==
  ASSUME Known, FairDraws, NEW r \in Requests, InsertWinner(r) \/ InsertWinnerThrows(r)
  PROVE  FairDraws'
<1>1. /\ [Next]_vars /\ UNCHANGED <<vars, chosen, told, added>>
      /\ at[r] = "insert" /\ at'[r] \in {"ok", "failed"}
      /\ \A q \in Requests \ {r} : at'[q] = at[q]
      /\ winners' = winners \/ AddWinner(r)
  BY DEF InsertWinner, InsertWinnerThrows, To, FairDraws, RaffleTyped
<1>2. RaffleTyped'
  BY DEF InsertWinner, InsertWinnerThrows, To, FairDraws, RaffleTyped, Answered
<1>3. DrawsBegan'
  BY <1>1, KeptRejections DEF DrawsBegan, FairDraws
<1>4. ASSUME NEW w \in winners
      PROVE  /\ w.by \in Requests /\ at'[w.by] \in {"ok", "failed"} /\ w.gift = Target[w.by]
             /\ w.by \in Draws => (\E o \in Orders : Ticket(o, w.user, w.gift, told[w.by]))'
  <2>1. w.by \in Requests /\ w.by # r
    BY <1>1 DEF FairDraws, WinnersAreOf
  <2>2. QED
    BY <1>1, <2>1, KeptWinner
<1>5. ASSUME NEW w, w = [by |-> r, gift |-> Target[r], user |-> chosen[r]]
      PROVE  /\ w.by \in Requests /\ at'[w.by] \in {"ok", "failed"} /\ w.gift = Target[w.by]
             /\ w.by \in Draws => (\E o \in Orders : Ticket(o, w.user, w.gift, told[w.by]))'
  <2>1. w.by = r /\ w.gift = Target[r] /\ w.user = chosen[r]
    BY <1>5
  <2>2. ASSUME r \in Draws
        PROVE  (\E o \in Orders : Ticket(o, w.user, w.gift, told[w.by]))'
    <3>1. \E o \in Orders : Ticket(o, w.user, Target[r], told[r])
      BY <1>1, <2>1, <2>2 DEF FairDraws, ChosenHaveTickets
    <3>2. (\E o \in Orders : Ticket(o, w.user, Target[r], told[r]))'
      BY <1>1, <2>2, <3>1, KeptTicket
    <3>3. QED
      BY <2>1, <3>2
  <2>3. QED
    BY <1>1, <2>1, <2>2
<1>6. \A w \in winners' :
        w \in winners \/ w = [by |-> r, gift |-> Target[r], user |-> chosen[r]]
  BY <1>1 DEF AddWinner
<1>7. WinnersAreOf' /\ WinnersHaveTickets'
  BY <1>4, <1>5, <1>6 DEF WinnersAreOf, WinnersHaveTickets
<1>8. \A e \in Draws : at'[e] = "insert" => at[e] = "insert"
  BY <1>1 DEF Requests
<1>9. ChosenHaveTickets'
  BY <1>1, <1>8, KeptChoice DEF ChosenHaveTickets
<1>10. QED
  BY <1>2, <1>3, <1>7, <1>9 DEF FairDraws

LEMMA NextFair == Known /\ FairDraws /\ [RaffleNext]_allVars => FairDraws'
<1> SUFFICES ASSUME Known, FairDraws, [RaffleNext]_allVars
             PROVE  FairDraws'
  OBVIOUS
<1>1. CASE UNCHANGED allVars
  <2>1. [Next]_vars /\ RaffleTyped' /\ UNCHANGED <<winners, at, chosen, told, added>>
    BY <1>1 DEF allVars, raffleVars, FairDraws, RaffleTyped
  <2>2. QED
    BY <2>1, QuietKeepsFair
<1>2. CASE SagaStep
  BY <1>2, SagaKeepsFair
<1>3. ASSUME NEW o \in Orders, NEW g \in Gifts, AddItem(o, g)
      PROVE  FairDraws'
  BY <1>3, AddItemKeepsFair
<1>4. ASSUME NEW d \in Draws, StartDraw(d) \/ ReadPool(d)
      PROVE  FairDraws'
  BY <1>4, StartKeepsFair, ReadKeepsFair
<1>5. ASSUME NEW r \in Requests, InsertWinner(r) \/ InsertWinnerThrows(r)
      PROVE  FairDraws'
  BY <1>5, InsertKeepsFair
<1>6. QED
  BY <1>1, <1>2, <1>3, <1>4, <1>5 DEF RaffleNext

-----------------------------------------------------------------------------
(* The theorem.                                                            *)

\* Whoever a draw of OrderService recorded has an order with that gift which its client,
\* a confirmation by hand or a reservation put into the pool, and which only a rejection
\* that overlaps the draw or follows it has taken out again.
THEOREM WinnersWereInThePool == RaffleSpec => []DrawnWinnersWereInThePool
<1>1. RaffleInit => Known
  BY InitKnown DEF RaffleInit
<1>2. Known /\ [RaffleNext]_allVars => Known'
  BY NextKnown, RaffleRunsTheSaga
<1>3. FairDraws => DrawnWinnersWereInThePool
  BY DEF FairDraws, WinnersHaveTickets, Ticket, DrawnWinnersWereInThePool
<1>4. QED
  BY <1>1, <1>2, <1>3, InitFair, NextFair, PTL DEF RaffleSpec
=============================================================================
