---------------------------- MODULE SalesSummary ----------------------------
(***************************************************************************)
(* The manager's dashboard over the store of TicketStore:                  *)
(* SalesSummaryCacheService.GetSalesSummaryAsync looks the summary up in   *)
(* Redis, else runs four queries one after the other and stores what they  *)
(* gave for 30 s, or 10 s without a reader.  A checkout drops the entry    *)
(* after its commit; confirmations, added items and deletions do not.      *)
(*                                                                         *)
(* Time is counted in ticks, as many of them to the two expiries as the     *)
(* constants say.  Every gift costs 1.                                     *)
(***************************************************************************)
EXTENDS TicketStore

CONSTANTS
  Readers,   \* dashboards, each of which may ask again and again
  NoEntry,   \* stands for "the key is not in Redis"
  MaxAge,    \* AbsoluteExpirationRelativeToNow, 30 s, in ticks
  MaxIdle    \* SlidingExpiration, 10 s, in ticks

ASSUME SalesAssumption == MaxIdle \in Nat /\ MaxAge \in Nat /\ MaxIdle < MaxAge

VARIABLES
  cache,     \* the entry [figures, age, idle] under dashboard:sales_summary
  call,      \* the call a dashboard request makes next: a query 1..4, the store 5; 0 none
  figures    \* what it has read so far

summaryVars == <<cache, call, figures>>
salesVars == <<vars, summaryVars>>

PerGiftFirst == <<"perGift", "revenue", "orders", "tickets">>    \* mutant: reordered
Queries == <<"revenue", "orders", "tickets", "perGift">>

Fields  == {"revenue", "orders", "tickets", "perGift"}
Blank   == [f \in Fields |-> 0]

SalesInit ==
  /\ Init
  /\ cache = NoEntry
  /\ call = [r \in Readers |-> 0]
  /\ figures = [r \in Readers |-> Blank]

\* The four queries, as of now.  An order's amount is fixed by its checkout; the last
\* query joins the gift, whose query filter hides deleted gifts.
Confirmed == {t \in tickets : IsConfirmed(t)}
Now == [revenue |-> Quantity({t \in Confirmed : t.origin = "checkout"}),
        orders  |-> Cardinality({o \in orders : ~o.draft}),
        tickets |-> Quantity(Confirmed),
        perGift |-> Quantity({t \in Confirmed : t.gift \in live})]

Leave(r) == call' = [call EXCEPT ![r] = 0] /\ figures' = [figures EXCEPT ![r] = Blank]
StoreAlone == UNCHANGED <<tables, avail, checkoutVars, crashes, requestVars>>

-----------------------------------------------------------------------------
\* GetStringAsync finds the entry: it is answered, and its sliding expiration renewed.
Hit(r) ==
  /\ call[r] = 0 /\ cache # NoEntry
  /\ cache' = [cache EXCEPT !.idle = 0]
  /\ UNCHANGED <<vars, call, figures>>

Miss(r) ==
  /\ call[r] = 0 /\ cache = NoEntry
  /\ call' = [call EXCEPT ![r] = 1]
  /\ UNCHANGED <<vars, cache, figures>>

\* One of the queries of GetSalesSummaryAsync.
Ask(r) ==
  /\ call[r] \in 1..4
  /\ call' = [call EXCEPT ![r] = @ + 1]
  /\ LET field == Queries[call[r]]
     IN  figures' = [figures EXCEPT ![r][field] = Now[field]]
  /\ UNCHANGED <<vars, cache>>

Filled(r) == [figures |-> figures[r], age |-> 0, idle |-> 0]

\* SetStringAsync, over whatever has happened to the key meanwhile.
Fill(r) ==
  /\ call[r] = 5
  /\ cache' = Filled(r)
  /\ Leave(r)
  /\ UNCHANGED vars

\* A query or the call to Redis throws; the entry may be there all the same.
ReadThrows(r) ==
  /\ call[r] # 0
  /\ IF call[r] = 5 THEN RedisFault /\ cache' \in {cache, Filled(r)}
                     ELSE SqlFault /\ UNCHANGED cache
  /\ Leave(r)
  /\ StoreAlone

SlidingOnly(e) == e.idle >= MaxIdle                    \* mutant: no absolute expiry
Expired(e) == e.age >= MaxAge \/ e.idle >= MaxIdle

\* A tick passes.
Tick ==
  /\ cache # NoEntry
  /\ LET older == [cache EXCEPT !.age = IF @ < MaxAge THEN @ + 1 ELSE @, !.idle = @ + 1]
     IN  cache' = IF Expired(older) THEN NoEntry ELSE older
  /\ UNCHANGED <<vars, call, figures>>

\* What a step of the store does to the cache: InvalidateAsync removes the key; when
\* it throws, the key may be gone or not; a crash takes the dashboard requests along.
Invalidates(b)  == pc[b] = "invalidate" /\ pc'[b] = "ok"
MayInvalidate(b) == pc[b] = "invalidate" /\ pc'[b] = "release"

StoreStep ==
  /\ Next
  /\ cache' \in (IF \E b \in Buyers : Invalidates(b) THEN {NoEntry}
                 ELSE IF \E b \in Buyers : MayInvalidate(b) THEN {cache, NoEntry}
                 ELSE {cache})
  /\ IF crashes' # crashes
       THEN call' = [r \in Readers |-> 0] /\ figures' = [r \in Readers |-> Blank]
       ELSE UNCHANGED <<call, figures>>

SalesNext ==
  \/ StoreStep
  \/ \E r \in Readers : Hit(r) \/ Miss(r) \/ Ask(r) \/ Fill(r) \/ ReadThrows(r)
  \/ Tick

SalesSpec == SalesInit /\ [][SalesNext]_salesVars

\* A dashboard request that has started goes on, and time passes.
SalesFairSpec ==
  /\ SalesSpec
  /\ WF_salesVars(Tick)
  /\ \A r \in Readers : WF_salesVars(Ask(r) \/ Fill(r))

-----------------------------------------------------------------------------
(* Properties.                                                             *)

\* A summary is put together from four queries between which orders are committed,
\* confirmed and edited, so its figures may not belong together.  They err one way only:
\* revenue and orders are never ahead of the store; and as long as no gift is deleted and
\* no confirmed line has a negative quantity, no figure is, and each is at most what a
\* later query found.
SummariesLagBehind ==
  LET Summaries == {figures[r] : r \in {s \in Readers : call[s] = 5}}
                   \cup (IF cache = NoEntry THEN {} ELSE {cache.figures})
      now == Now
  IN  \A F \in Summaries :
        /\ F.revenue <= now.revenue /\ F.orders <= now.orders
        /\ live = Gifts /\ (\A t \in Confirmed : t.qty >= 0) =>
             /\ F.tickets <= now.tickets /\ F.perGift <= now.perGift
             /\ F.orders <= F.tickets /\ F.revenue <= F.tickets /\ F.tickets <= F.perGift

\* Once orders have stopped changing, the entry becomes true or absent for good,
\* although a slow dashboard request may put old figures back after a checkout has
\* dropped them and although dashboards keep asking: the absolute expiry sees to it.
CacheSettles == <>[](cache # NoEntry => cache.figures = Now)

=============================================================================
