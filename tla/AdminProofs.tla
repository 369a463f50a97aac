----------------------------- MODULE AdminProofs -----------------------------
(***************************************************************************)
(* Theorems about GiftAdmin for any managers, any names, any number of     *)
(* requests, dying requests and repeated inserts.                          *)
(*                                                                         *)
(* None of the three properties is inductive.  That a gift is on the list  *)
(* when it is inserted depends on what the request found two transactions  *)
(* before (Followed); that the duplicate check works depends on every      *)
(* request in progress still asking for a name no gift has and no other    *)
(* request asks for (Apart); and both on what the tables look like         *)
(* (RowsOK) and on what a request holds (RequestsOK).                      *)
(***************************************************************************)
EXTENDS GiftAdmin, TLAPS

ParentRows == [id : Nat, kind : Kinds, name : CategoryNames \cup DonorNames, deleted : BOOLEAN]
GiftRows   == [id : Nat, name : GiftNames, category : Nat, donor : Nat,
               deleted : BOOLEAN, by : Managers]

\* A category or donor is there, deleted or not; and is there, live and of that name.
Exists(kind, id)        == \E p \in parents : p.kind = kind /\ p.id = id
Current(kind, id, name) == \E p \in parents : /\ p.kind = kind /\ p.id = id
                                              /\ p.name = name /\ ~p.deleted

\* The tables: ids are fresh, of one row, and a gift's category and donor are there.
RowsOK ==
  /\ nextId \in Nat
  /\ parents \subseteq ParentRows /\ gifts \subseteq GiftRows
  /\ \A p \in parents : p.id < nextId
  /\ \A g \in gifts : g.id < nextId
  /\ \A p, q \in parents : p.id = q.id => p = q
  /\ \A g, h \in gifts : g.id = h.id => g = h
  /\ \A p \in parents, g \in gifts : p.id # g.id
  /\ \A g \in gifts : Exists("category", g.category) /\ Exists("donor", g.donor)

Steps == {"idle", "file", "donor", "insert", "added", "failed", "refused"}

\* The requests: what was asked for, and what was found for it.
RequestsOK ==
  /\ step \in [Managers -> Steps]
  /\ asked \in [Managers -> Asks \cup {NoAsk}]
  /\ category \in [Managers -> Nat] /\ donor \in [Managers -> Nat]
  /\ \A m \in InProgress : asked[m] \in Asks
  /\ \A m \in Managers :
       /\ step[m] \in {"donor", "insert"} => Exists("category", category[m])
       /\ step[m] = "insert" /\ donor[m] # 0 => Exists("donor", donor[m])

CountersOK ==
  /\ overtaken \subseteq Managers /\ meddled \in BOOLEAN
  /\ changes \in 0..MaxChanges /\ faults \in 0..MaxFaults

\* A request nobody overtook holds a live category and a live donor of the names it
\* was asked for.
Followed ==
  \A m \in Managers \ overtaken :
    /\ step[m] \in {"donor", "insert"} => Current("category", category[m], asked[m].category)
    /\ step[m] = "insert" /\ donor[m] # 0 => Current("donor", donor[m], asked[m].donor)

\* Without a cause for twins every row of a parent is live, so that every gift is on the
\* list the check reads, and the names asked for are new and differ.
Apart ==
  ~meddled =>
    /\ \A p \in parents : ~p.deleted
    /\ \A g, h \in gifts : ~Twins(g, h)
    /\ \A m \in InProgress : \A g \in gifts : ~g.deleted => g.name # asked[m].name
    /\ \A m, n \in InProgress : asked[m].name = asked[n].name => m = n

-----------------------------------------------------------------------------
(* The tables.                                                             *)

\* What the steps do to the rows of categories and donors that exist.
ParentsStay == \A kind, id : Exists(kind, id) => Exists(kind, id)'

\* SaveChanges of one new row uses one or two ids that no row has.
LEMMA FreshIds ==
  ASSUME RowsOK, NEW times \in Times, Saves(times)
  PROVE  /\ nextId' \in Nat /\ nextId \in NewIds(times) /\ nextId' - 1 \in NewIds(times)
         /\ \A i \in NewIds(times) : i \in Nat /\ nextId <= i /\ i < nextId'
         /\ times = 1 => NewIds(times) = {nextId}
BY DEF RowsOK, Times, Saves, NewIds

LEMMA NewParentsAreRows ==
  ASSUME RowsOK, NEW times \in Times, Saves(times), gifts' = gifts,
         NEW kind \in Kinds, NEW name \in CategoryNames \cup DonorNames,
         parents' = parents \cup {Parent(i, kind, name) : i \in NewIds(times)}
  PROVE  /\ RowsOK' /\ ParentsStay
         /\ \A i \in NewIds(times) : Current(kind, i, name)'
         /\ \A k, id, n : Current(k, id, n) => Current(k, id, n)'
<1>1. \A i \in NewIds(times) : i \in Nat /\ nextId <= i /\ i < nextId'
  BY FreshIds
<1>2. nextId' \in Nat /\ nextId \in Nat /\ nextId' > nextId
  BY FreshIds DEF RowsOK, Saves, Times
<1>0. ASSUME NEW i \in NewIds(times)
      PROVE  /\ Parent(i, kind, name) \in ParentRows
             /\ Parent(i, kind, name).id = i /\ Parent(i, kind, name).kind = kind
             /\ Parent(i, kind, name).name = name /\ Parent(i, kind, name).deleted = FALSE
  <2>1. i \in Nat
    BY <1>1
  <2> QED
    BY <2>1 DEF Parent, ParentRows
<1>3. \A p \in parents' : \/ p \in parents
                          \/ \E i \in NewIds(times) : p = Parent(i, kind, name) /\ p.id = i
  BY <1>0
<1>4. parents' \subseteq ParentRows
  BY <1>0 DEF RowsOK
<1>5. \A p \in parents : p.id \in Nat /\ p.id < nextId
  BY DEF RowsOK, ParentRows
<1>6. \A g \in gifts : g.id \in Nat /\ g.id < nextId
  BY DEF RowsOK, GiftRows
<1>7. \A p \in parents' : p.id < nextId'
  BY <1>1, <1>2, <1>3, <1>5
<1>8. \A p, q \in parents' : p.id = q.id => p = q
  BY <1>1, <1>2, <1>3, <1>5 DEF RowsOK
<1>9. \A p \in parents', g \in gifts' : p.id # g.id
  BY <1>1, <1>2, <1>3, <1>6 DEF RowsOK
<1>10. ParentsStay
  BY DEF ParentsStay, Exists
<1>11. RowsOK'
  <2>1. \A g \in gifts' : g.id < nextId'
    BY <1>2, <1>6
  <2>2. \A g \in gifts' : Exists("category", g.category)' /\ Exists("donor", g.donor)'
    BY <1>10 DEF RowsOK, ParentsStay
  <2> QED
    BY <1>2, <1>4, <1>7, <1>8, <1>9, <2>1, <2>2 DEF RowsOK
<1>12. \A i \in NewIds(times) : Current(kind, i, name)'
  <2> SUFFICES ASSUME NEW i \in NewIds(times)
               PROVE  \E p \in parents' : /\ p.kind = kind /\ p.id = i
                                          /\ p.name = name /\ ~p.deleted
    BY DEF Current
  <2>1. Parent(i, kind, name) \in parents'
    OBVIOUS
  <2> QED
    BY <1>0, <2>1
<1>13. \A k, id, n : Current(k, id, n) => Current(k, id, n)'
  BY DEF Current
<1> QED
  BY <1>10, <1>11, <1>12, <1>13

LEMMA NewGiftsAreRows ==
  ASSUME RowsOK, RequestsOK, NEW times \in Times, Saves(times), parents' = parents,
         NEW m \in Managers, step[m] = "insert", donor[m] # 0,
         gifts' = gifts \cup {GiftRow(i, m) : i \in NewIds(times)}
  PROVE  RowsOK'
<1>1. \A i \in NewIds(times) : i \in Nat /\ nextId <= i /\ i < nextId'
  BY FreshIds
<1>2. nextId' \in Nat /\ nextId \in Nat /\ nextId' > nextId
  BY FreshIds DEF RowsOK, Saves, Times
<1>3. /\ asked[m] \in Asks /\ category[m] \in Nat /\ donor[m] \in Nat
      /\ Exists("category", category[m]) /\ Exists("donor", donor[m])
  BY DEF RequestsOK, InProgress
<1>4. \A i \in NewIds(times) : /\ GiftRow(i, m) \in GiftRows /\ GiftRow(i, m).id = i
                               /\ GiftRow(i, m).category = category[m]
                               /\ GiftRow(i, m).donor = donor[m]
  BY <1>1, <1>3 DEF GiftRow, GiftRows, Asks
<1>5. \A g \in gifts' : \/ g \in gifts
                        \/ \E i \in NewIds(times) : g = GiftRow(i, m) /\ g.id = i
  BY <1>4
<1>6. \A p \in parents : p.id \in Nat /\ p.id < nextId
  BY DEF RowsOK, ParentRows
<1>7. \A g \in gifts : g.id \in Nat /\ g.id < nextId
  BY DEF RowsOK, GiftRows
<1>8. gifts' \subseteq GiftRows
  BY <1>4 DEF RowsOK
<1>9. \A g \in gifts' : g.id < nextId'
  BY <1>1, <1>2, <1>5, <1>7
<1>10. \A g, h \in gifts' : g.id = h.id => g = h
  BY <1>1, <1>2, <1>5, <1>7 DEF RowsOK
<1>11. \A p \in parents', g \in gifts' : p.id # g.id
  BY <1>1, <1>2, <1>5, <1>6 DEF RowsOK
<1>12. \A g \in gifts' : Exists("category", g.category) /\ Exists("donor", g.donor)
  BY <1>3, <1>4 DEF RowsOK
<1>13. \A kind, id : Exists(kind, id)' <=> Exists(kind, id)
  BY DEF Exists
<1>14. \A p \in parents' : p.id < nextId'
  BY <1>2, <1>6
<1> QED
  BY <1>2, <1>8, <1>9, <1>10, <1>11, <1>12, <1>13, <1>14 DEF RowsOK

LEMMA ChangedParentsAreRows ==
  ASSUME RowsOK, NEW p \in parents, NEW new \in ParentRows, new.id = p.id, new.kind = p.kind,
         parents' = (parents \ {p}) \cup {new}, UNCHANGED <<gifts, nextId>>
  PROVE  RowsOK' /\ ParentsStay
<1>1. ParentsStay
  BY DEF ParentsStay, Exists
<1>2. \A g \in gifts' : Exists("category", g.category)' /\ Exists("donor", g.donor)'
  BY <1>1 DEF RowsOK, ParentsStay
<1>3. \A q \in parents' : q.id < nextId'
  BY DEF RowsOK
<1>4. \A q, r \in parents' : q.id = r.id => q = r
  BY DEF RowsOK
<1>5. \A q \in parents', g \in gifts' : q.id # g.id
  BY DEF RowsOK
<1> QED
  BY <1>1, <1>2, <1>3, <1>4, <1>5 DEF RowsOK

LEMMA ChangedGiftsAreRows ==
  ASSUME RowsOK, NEW g \in gifts, NEW new \in GiftRows, new.id = g.id,
         new.category = g.category, new.donor = g.donor,
         gifts' = (gifts \ {g}) \cup {new}, UNCHANGED <<parents, nextId>>
  PROVE  RowsOK'
<1>1. \A kind, id : Exists(kind, id)' <=> Exists(kind, id)
  BY DEF Exists
<1>2. \A h \in gifts' : Exists("category", h.category)' /\ Exists("donor", h.donor)'
  BY <1>1 DEF RowsOK
<1>3. \A h \in gifts' : h.id < nextId'
  BY DEF RowsOK
<1>4. \A h, i \in gifts' : h.id = i.id => h = i
  BY DEF RowsOK
<1>5. \A q \in parents', h \in gifts' : q.id # h.id
  BY DEF RowsOK
<1> QED
  BY <1>2, <1>3, <1>4, <1>5 DEF RowsOK

-----------------------------------------------------------------------------
(* The requests that add a gift.                                           *)

IInv == RowsOK /\ RequestsOK /\ CountersOK /\ Followed /\ Apart

\* The requests of the others stand where they stood.
OthersWait(m) ==
  \A n \in Managers \ {m} : /\ step'[n] = step[n] /\ asked'[n] = asked[n]
                            /\ category'[n] = category[n] /\ donor'[n] = donor[n]

\* No row of a parent goes or changes its name or its IsDeleted.
ParentsLast ==
  /\ ParentsStay
  /\ \A kind, id, name : Current(kind, id, name) => Current(kind, id, name)'

LEMMA SameRows ==
  ASSUME RowsOK, UNCHANGED rowVars
  PROVE  RowsOK' /\ ParentsLast
BY DEF RowsOK, rowVars, ParentsLast, ParentsStay, Exists, Current

\* What has to be looked at for the request that takes a step.
LEMMA RequestMoves ==
  ASSUME RequestsOK, Followed, ParentsLast, NEW m \in Managers, OthersWait(m),
         step' \in [Managers -> Steps], asked' \in [Managers -> Asks \cup {NoAsk}],
         category' \in [Managers -> Nat], donor' \in [Managers -> Nat],
         overtaken \ {m} \subseteq overtaken',
         NEW ask, asked'[m] = ask, NEW c, category'[m] = c, NEW d, donor'[m] = d,
         step'[m] \in {"file", "donor", "insert"} => ask \in Asks,
         step'[m] \in {"donor", "insert"} =>
           /\ Exists("category", c)'
           /\ m \notin overtaken' => Current("category", c, ask.category)',
         step'[m] = "insert" /\ d # 0 =>
           /\ Exists("donor", d)'
           /\ m \notin overtaken' => Current("donor", d, ask.donor)'
  PROVE  RequestsOK' /\ Followed'
<1>1. \A n \in InProgress' : asked'[n] \in Asks
  BY DEF InProgress, OthersWait, RequestsOK
<1>2. ASSUME NEW n \in Managers
      PROVE  /\ step'[n] \in {"donor", "insert"} =>
                  \E p \in parents' : p.kind = "category" /\ p.id = category'[n]
             /\ step'[n] = "insert" /\ donor'[n] # 0 =>
                  \E p \in parents' : p.kind = "donor" /\ p.id = donor'[n]
  <2>1. CASE n = m
    BY <2>1 DEF Exists
  <2>2. CASE n # m
    <3>1. PICK k, e : k = category[n] /\ e = donor[n]
      OBVIOUS
    <3>2. step'[n] = step[n] /\ category'[n] = k /\ donor'[n] = e
      BY <2>2, <3>1 DEF OthersWait
    <3>3. /\ step[n] \in {"donor", "insert"} => Exists("category", k)
          /\ step[n] = "insert" /\ e # 0 => Exists("donor", e)
      BY <3>1 DEF RequestsOK
    <3>4. (Exists("category", k) => Exists("category", k)') /\ (Exists("donor", e) => Exists("donor", e)')
      BY DEF ParentsLast, ParentsStay
    <3> QED
      BY <3>2, <3>3, <3>4 DEF Exists
  <2> QED
    BY <2>1, <2>2
<1>3. ASSUME NEW n \in Managers \ overtaken'
      PROVE  /\ step'[n] \in {"donor", "insert"} =>
                  \E p \in parents' : /\ p.kind = "category" /\ p.id = category'[n]
                                      /\ p.name = asked'[n].category /\ ~p.deleted
             /\ step'[n] = "insert" /\ donor'[n] # 0 =>
                  \E p \in parents' : /\ p.kind = "donor" /\ p.id = donor'[n]
                                      /\ p.name = asked'[n].donor /\ ~p.deleted
  <2>1. CASE n = m
    BY <2>1 DEF Current
  <2>2. CASE n # m
    <3>1. PICK k, e, a : k = category[n] /\ e = donor[n] /\ a = asked[n]
      OBVIOUS
    <3>2. /\ step'[n] = step[n] /\ category'[n] = k /\ donor'[n] = e /\ asked'[n] = a
          /\ n \notin overtaken
      BY <2>2, <3>1 DEF OthersWait
    <3>3. /\ step[n] \in {"donor", "insert"} => Current("category", k, a.category)
          /\ step[n] = "insert" /\ e # 0 => Current("donor", e, a.donor)
      BY <3>1, <3>2 DEF Followed
    <3>4. /\ Current("category", k, a.category) => Current("category", k, a.category)'
          /\ Current("donor", e, a.donor) => Current("donor", e, a.donor)'
      BY DEF ParentsLast
    <3> QED
      BY <3>2, <3>3, <3>4 DEF Current
  <2> QED
    BY <2>1, <2>2
<1>4. RequestsOK'
  BY <1>1, <1>2 DEF RequestsOK, Exists
<1>5. Followed'
  BY <1>3 DEF Followed, Current
<1> QED
  BY <1>4, <1>5

\* A step after which no gift, no live gift and no request is new keeps names apart.
LEMMA StaysApart ==
  ASSUME Apart, meddled' => TRUE, ~meddled' => ~meddled,
         ~meddled' => /\ \A p \in parents' : ~p.deleted
                      /\ \A g \in gifts' : ~g.deleted => g \in gifts,
         \A n \in InProgress' : n \in InProgress /\ asked'[n] = asked[n]
  PROVE  Apart'
<1> SUFFICES ASSUME ~meddled'
             PROVE  /\ \A p \in parents' : ~p.deleted
                    /\ \A g, h \in gifts' : ~Twins(g, h)
                    /\ \A m \in InProgress' : \A g \in gifts' : ~g.deleted => g.name # asked'[m].name
                    /\ \A m, n \in InProgress' : asked'[m].name = asked'[n].name => m = n
  BY DEF Apart, Twins
<1>1. \A g, h \in gifts' : ~Twins(g, h)
  BY DEF Apart, Twins
<1> QED
  BY <1>1 DEF Apart

LEMMA CheckNameKeeps ==
  ASSUME IInv, NEW m \in Managers, NEW ask \in Asks, CheckName(m, ask)
  PROVE  IInv'
<1> USE DEF IInv
<1>1. /\ step' = [step EXCEPT ![m] = IF IsDuplicate(ask) THEN "refused" ELSE "file"]
      /\ asked' = [asked EXCEPT ![m] = ask]
      /\ category' = [category EXCEPT ![m] = 0] /\ donor' = [donor EXCEPT ![m] = 0]
      /\ overtaken' = overtaken \ {m} /\ UNCHANGED <<rowVars, faults>> /\ m \notin InProgress
      /\ meddled' = (meddled \/ \E n \in InProgress : asked[n].name = ask.name)
      /\ changes' = changes + 1 /\ changes < MaxChanges
  BY DEF CheckName, Goto, Count
<1>2. /\ OthersWait(m) /\ step'[m] \in {"refused", "file"} /\ asked'[m] = ask
      /\ step' \in [Managers -> Steps] /\ asked' \in [Managers -> Asks \cup {NoAsk}]
      /\ category' \in [Managers -> Nat] /\ donor' \in [Managers -> Nat]
  BY <1>1 DEF OthersWait, RequestsOK, Steps
<1>3. RowsOK' /\ ParentsLast
  BY <1>1, SameRows
<1>4. RequestsOK' /\ Followed'
  BY <1>1, <1>2, <1>3, RequestMoves
<1>5. CountersOK'
  BY <1>1, AdminAssumption DEF CountersOK
<1>6. Apart'
  <2> SUFFICES ASSUME ~meddled' PROVE Apart'
    BY DEF Apart
  <2>0. ~meddled /\ \A n \in InProgress : asked[n].name # ask.name
    BY <1>1
  <2>1. UNCHANGED <<gifts, parents>>
    BY <1>1 DEF rowVars
  <2>2. \A n \in InProgress' \ {m} : n \in InProgress /\ asked'[n] = asked[n]
    BY <1>2 DEF InProgress, OthersWait
  <2>3. ASSUME m \in InProgress', NEW g \in gifts, ~g.deleted
        PROVE  g.name # ask.name
    <3>1. ~IsDuplicate(ask)
      BY <1>1, <2>3 DEF InProgress, RequestsOK
    <3>2. IsListed(g)
      <4>1. Exists("category", g.category) /\ Exists("donor", g.donor) /\ \A p \in parents : ~p.deleted
        BY <2>0 DEF RowsOK, Apart
      <4> QED
        BY <2>3, <4>1 DEF IsListed, Live, Exists
    <3> QED
      BY <3>1, <3>2 DEF IsDuplicate, Listed
  <2>4. \A n \in InProgress' : \A g \in gifts' : ~g.deleted => g.name # asked'[n].name
    BY <1>2, <2>0, <2>1, <2>2, <2>3 DEF Apart
  <2>5. \A n, k \in InProgress' : asked'[n].name = asked'[k].name => n = k
    BY <1>2, <2>0, <2>2 DEF Apart
  <2>6. \A g, h \in gifts' : ~Twins(g, h)
    BY <2>0, <2>1 DEF Apart
  <2> QED
    BY <2>0, <2>1, <2>4, <2>5, <2>6 DEF Apart, Twins
<1> QED
  BY <1>3, <1>4, <1>5, <1>6

\* A request that stays in progress, or ends, without touching any row.
LEMMA MovingKeepsApart ==
  ASSUME IInv, NEW m \in Managers, m \in InProgress, OthersWait(m), UNCHANGED <<rowVars, asked, meddled>>
  PROVE  Apart'
<1>1. \A n \in InProgress' : n \in InProgress /\ asked'[n] = asked[n]
  BY DEF InProgress, OthersWait
<1>2. ~meddled => \A p \in parents : ~p.deleted
  BY DEF IInv, Apart
<1> QED
  BY <1>1, <1>2, StaysApart DEF IInv, rowVars

LEMMA FileUnderExistingKeeps ==
  ASSUME IInv, NEW m \in Managers, FileUnderExisting(m)
  PROVE  IInv'
<1> USE DEF IInv
<1>1. PICK p \in CategoriesOf(asked[m].category) : category' = [category EXCEPT ![m] = p.id]
  BY DEF FileUnderExisting
<1>2. /\ p \in parents /\ p.kind = "category" /\ ~p.deleted /\ p.name = asked[m].category
      /\ p.id \in Nat
  BY DEF CategoriesOf, Named, Live, RowsOK, ParentRows
<1>3. /\ step' = [step EXCEPT ![m] = "donor"] /\ step[m] = "file"
      /\ UNCHANGED <<rowVars, asked, donor, historyVars, changes, faults>>
  BY DEF FileUnderExisting, Goto
<1>4. /\ OthersWait(m) /\ step'[m] = "donor" /\ category'[m] = p.id
      /\ step' \in [Managers -> Steps] /\ category' \in [Managers -> Nat]
  BY <1>1, <1>2, <1>3 DEF OthersWait, RequestsOK, Steps
<1>5. RowsOK' /\ ParentsLast
  BY <1>3, SameRows
<1>6. Exists("category", p.id)' /\ Current("category", p.id, asked[m].category)'
  BY <1>2, <1>3 DEF Exists, Current, rowVars
<1>7. m \in InProgress /\ asked[m] \in Asks
  BY <1>3 DEF InProgress, RequestsOK
<1>8. RequestsOK' /\ Followed'
  BY <1>3, <1>4, <1>5, <1>6, <1>7, RequestMoves DEF RequestsOK, historyVars
<1>9. CountersOK'
  BY <1>3 DEF CountersOK, historyVars
<1>10. Apart'
  BY <1>3, <1>4, <1>7, MovingKeepsApart DEF historyVars
<1> QED
  BY <1>5, <1>8, <1>9, <1>10

LEMMA SavesCounts ==
  ASSUME CountersOK, NEW times \in Times, Saves(times), overtaken' \subseteq Managers,
         changes' \in 0..MaxChanges
  PROVE  CountersOK' /\ (~meddled' => ~meddled /\ times = 1)
<1>1. times \in {1, 2} /\ (times = 2 => faults < MaxFaults)
  BY DEF Times
<1>2. faults' \in 0..MaxFaults
  BY <1>1, AdminAssumption DEF CountersOK, Saves
<1> QED
  BY <1>1, <1>2 DEF CountersOK, Saves

LEMMA FileUnderNewKeeps ==
  ASSUME IInv, NEW m \in Managers, FileUnderNew(m)
  PROVE  IInv'
<1> USE DEF IInv
<1>1. PICK times \in Times :
        /\ Saves(times)
        /\ parents' = parents \cup {Parent(i, "category", asked[m].category) : i \in NewIds(times)}
        /\ category' = [category EXCEPT ![m] = nextId' - 1]
  BY DEF FileUnderNew
<1>2. /\ step' = [step EXCEPT ![m] = "donor"] /\ step[m] = "file"
      /\ UNCHANGED <<gifts, asked, donor, overtaken, changes>>
  BY DEF FileUnderNew, Goto
<1>3. m \in InProgress /\ asked[m] \in Asks /\ asked[m].category \in CategoryNames
  BY <1>2 DEF InProgress, RequestsOK, Asks
<1>4. PICK name : name = asked[m].category
  OBVIOUS
<1>5. "category" \in Kinds /\ name \in CategoryNames \cup DonorNames
  BY <1>3, <1>4 DEF Kinds
<1>6. parents' = parents \cup {Parent(i, "category", name) : i \in NewIds(times)}
  BY <1>1, <1>4
<1>7. /\ RowsOK' /\ ParentsStay
      /\ \A i \in NewIds(times) : Current("category", i, name)'
      /\ \A k, id, n : Current(k, id, n) => Current(k, id, n)'
  BY <1>1, <1>2, <1>5, <1>6, NewParentsAreRows
<1>8. ParentsLast
  BY <1>7 DEF ParentsLast
<1>9. PICK c : c = nextId' - 1
  OBVIOUS
<1>10. c \in NewIds(times) /\ c \in Nat
  BY <1>1, <1>9, FreshIds
<1>11. Current("category", c, name)' /\ Exists("category", c)'
  BY <1>7, <1>10 DEF Current, Exists
<1>12. /\ OthersWait(m) /\ step'[m] = "donor" /\ category'[m] = c
       /\ step' \in [Managers -> Steps] /\ category' \in [Managers -> Nat]
  BY <1>1, <1>2, <1>9, <1>10 DEF OthersWait, RequestsOK, Steps
<1>13. RequestsOK' /\ Followed'
  BY <1>2, <1>3, <1>4, <1>8, <1>11, <1>12, RequestMoves DEF RequestsOK
<1>14. CountersOK' /\ (~meddled' => ~meddled)
  BY <1>1, <1>2, SavesCounts DEF CountersOK
<1>15. Apart'
  <2>1. \A n \in InProgress' : n \in InProgress /\ asked'[n] = asked[n]
    BY <1>2, <1>3, <1>12 DEF InProgress, OthersWait
  <2>2. ~meddled => \A p \in parents' : ~p.deleted
    BY <1>6 DEF Apart, Parent
  <2> QED
    BY <1>2, <1>14, <2>1, <2>2, StaysApart
<1> QED
  BY <1>7, <1>13, <1>14, <1>15

LEMMA FindDonorKeeps ==
  ASSUME IInv, NEW m \in Managers, FindDonor(m)
  PROVE  IInv'
<1> USE DEF IInv
<1>1. PICK id : /\ donor' = [donor EXCEPT ![m] = id]
                /\ id = 0 \/ \E p \in Named("donor", asked[m].donor) : id = p.id
  BY DEF FindDonor
<1>2. /\ step' = [step EXCEPT ![m] = "insert"] /\ step[m] = "donor"
      /\ UNCHANGED <<rowVars, asked, category, historyVars, changes, faults>>
  BY DEF FindDonor, Goto
<1>3. PICK name : name = asked[m].donor
  OBVIOUS
<1>4. /\ id \in Nat
      /\ id # 0 => \E p \in parents : p.id = id /\ p.kind = "donor" /\ ~p.deleted /\ p.name = name
  BY <1>1, <1>3 DEF Named, Live, RowsOK, ParentRows
<1>5. id # 0 => Exists("donor", id)' /\ Current("donor", id, name)'
  BY <1>2, <1>4 DEF Exists, Current, rowVars
<1>6. RowsOK' /\ ParentsLast
  BY <1>2, SameRows
<1>7. /\ OthersWait(m) /\ step'[m] = "insert" /\ donor'[m] = id /\ category'[m] = category[m]
      /\ step' \in [Managers -> Steps] /\ donor' \in [Managers -> Nat]
  BY <1>1, <1>2, <1>4 DEF OthersWait, RequestsOK, Steps
<1>8. PICK c, a : c = category[m] /\ a = asked[m]
  OBVIOUS
<1>9. m \in InProgress /\ a \in Asks
  BY <1>2, <1>8 DEF InProgress, RequestsOK
<1>10. Exists("category", c)' /\ (m \notin overtaken => Current("category", c, a.category)')
  BY <1>2, <1>6, <1>8 DEF RequestsOK, Followed, ParentsLast, ParentsStay
<1>11. RequestsOK' /\ Followed'
  BY <1>2, <1>3, <1>5, <1>6, <1>7, <1>8, <1>9, <1>10, RequestMoves DEF RequestsOK, historyVars
<1>12. CountersOK'
  BY <1>2 DEF CountersOK, historyVars
<1>13. Apart'
  BY <1>2, <1>7, <1>9, MovingKeepsApart DEF historyVars
<1> QED
  BY <1>6, <1>11, <1>12, <1>13

\* A request that ends without a gift.
LEMMA EndingKeeps ==
  ASSUME IInv, NEW m \in Managers, DonorUnknown(m) \/ RequestDies(m)
  PROVE  IInv'
<1> USE DEF IInv
<1>1. /\ step' = [step EXCEPT ![m] = "failed"] /\ m \in InProgress
      /\ UNCHANGED <<rowVars, asked, category, donor, historyVars, changes>>
      /\ faults' = faults \/ (faults < MaxFaults /\ faults' = faults + 1)
  BY DEF DonorUnknown, RequestDies, Goto, InProgress
<1>2. RowsOK' /\ ParentsLast
  BY <1>1, SameRows
<1>3. OthersWait(m) /\ step'[m] = "failed" /\ step' \in [Managers -> Steps]
  BY <1>1 DEF OthersWait, RequestsOK, Steps
<1>4. PICK c, d, a : c = category[m] /\ d = donor[m] /\ a = asked[m]
  OBVIOUS
<1>5. RequestsOK' /\ Followed'
  BY <1>1, <1>2, <1>3, <1>4, RequestMoves DEF RequestsOK, historyVars
<1>6. CountersOK'
  BY <1>1, AdminAssumption DEF CountersOK, historyVars
<1>7. Apart'
  BY <1>1, <1>3, MovingKeepsApart DEF historyVars
<1> QED
  BY <1>2, <1>5, <1>6, <1>7

LEMMA InsertGiftKeeps ==
  ASSUME IInv, NEW m \in Managers, InsertGift(m)
  PROVE  IInv'
<1> USE DEF IInv
<1>1. PICK times \in Times :
        Saves(times) /\ gifts' = gifts \cup {GiftRow(i, m) : i \in NewIds(times)}
  BY DEF InsertGift
<1>2. /\ step' = [step EXCEPT ![m] = "added"] /\ step[m] = "insert" /\ donor[m] # 0
      /\ UNCHANGED <<parents, asked, category, donor, overtaken, changes>>
  BY DEF InsertGift, Goto
<1>3. RowsOK'
  BY <1>1, <1>2, NewGiftsAreRows
<1>4. ParentsLast
  BY <1>2 DEF ParentsLast, ParentsStay, Exists, Current
<1>5. OthersWait(m) /\ step'[m] = "added" /\ step' \in [Managers -> Steps]
  BY <1>2 DEF OthersWait, RequestsOK, Steps
<1>6. PICK c, d, a : c = category[m] /\ d = donor[m] /\ a = asked[m]
  OBVIOUS
<1>7. RequestsOK' /\ Followed'
  BY <1>2, <1>4, <1>5, <1>6, RequestMoves DEF RequestsOK
<1>8. CountersOK' /\ (~meddled' => ~meddled /\ times = 1)
  BY <1>1, <1>2, SavesCounts DEF CountersOK
<1>9. Apart'
  <2> SUFFICES ASSUME ~meddled' PROVE Apart'
    BY DEF Apart
  <2>1. PICK i : NewIds(times) = {i}
    BY <1>1, <1>8, FreshIds
  <2>2. PICK r : r = GiftRow(i, m)
    OBVIOUS
  <2>3. gifts' = gifts \cup {r} /\ r.name = asked[m].name
    BY <1>1, <2>1, <2>2 DEF GiftRow
  <2>4. m \in InProgress /\ InProgress' = InProgress \ {m}
    BY <1>2, <1>5 DEF InProgress, OthersWait
  <2>5. \A g \in gifts : ~g.deleted => g.name # r.name
    BY <1>8, <2>3, <2>4 DEF Apart
  <2>6. \A g, h \in gifts' : ~Twins(g, h)
    BY <1>8, <2>3, <2>5 DEF Apart, Twins
  <2>7. \A n \in InProgress' : asked[n].name # r.name
    BY <1>8, <2>3, <2>4 DEF Apart
  <2>8. \A n \in InProgress' : \A g \in gifts' : ~g.deleted => g.name # asked'[n].name
    BY <1>2, <1>8, <2>3, <2>4, <2>7 DEF Apart
  <2> QED
    BY <1>2, <1>8, <2>4, <2>6, <2>8 DEF Apart, Twins
<1> QED
  BY <1>3, <1>7, <1>8, <1>9

-----------------------------------------------------------------------------
(* The other requests.                                                     *)

\* A request of another kind leaves every POST gift where it stands.
LEMMA RequestsWait ==
  ASSUME RequestsOK, UNCHANGED requestVars, ParentsStay
  PROVE  RequestsOK' /\ InProgress' = InProgress
<1>1. InProgress' = InProgress
  BY DEF InProgress, requestVars
<1>2. ASSUME NEW m \in Managers
      PROVE  /\ step[m] \in {"donor", "insert"} => Exists("category", category[m])'
             /\ step[m] = "insert" /\ donor[m] # 0 => Exists("donor", donor[m])'
  <2>1. PICK c, d : c = category[m] /\ d = donor[m]
    OBVIOUS
  <2>2. /\ step[m] \in {"donor", "insert"} => Exists("category", c)'
        /\ step[m] = "insert" /\ d # 0 => Exists("donor", d)'
    BY <2>1 DEF RequestsOK, ParentsStay
  <2>3. category'[m] = c /\ donor'[m] = d
    BY <2>1 DEF requestVars
  <2> QED
    BY <2>1, <2>2, <2>3 DEF Exists
<1> QED
  BY <1>1, <1>2 DEF RequestsOK, requestVars

LEMMA AddParentKeeps ==
  ASSUME IInv, NEW kind \in Kinds, NEW name \in CategoryNames \cup DonorNames, AddParent(kind, name)
  PROVE  IInv'
<1> USE DEF IInv
<1>1. PICK times \in Times :
        /\ Saves(times)
        /\ parents' = parents \cup {Parent(i, kind, name) : i \in NewIds(times)}
  BY DEF AddParent
<1>2. /\ UNCHANGED <<gifts, requestVars, overtaken>>
      /\ changes < MaxChanges /\ changes' = changes + 1
  BY DEF AddParent, Count
<1>3. /\ RowsOK' /\ ParentsStay
      /\ \A k, id, n : Current(k, id, n) => Current(k, id, n)'
  BY <1>1, <1>2, NewParentsAreRows
<1>4. RequestsOK' /\ InProgress' = InProgress
  BY <1>2, <1>3, RequestsWait
<1>5. CountersOK' /\ (~meddled' => ~meddled)
  BY <1>1, <1>2, SavesCounts, AdminAssumption DEF CountersOK
<1>6. Followed'
  <2> SUFFICES ASSUME NEW m \in Managers \ overtaken
               PROVE  /\ step[m] \in {"donor", "insert"} =>
                           Current("category", category[m], asked[m].category)'
                      /\ step[m] = "insert" /\ donor[m] # 0 =>
                           Current("donor", donor[m], asked[m].donor)'
    BY <1>2 DEF Followed, requestVars
  <2>1. PICK c, d, a : c = category[m] /\ d = donor[m] /\ a = asked[m]
    OBVIOUS
  <2>2. /\ step[m] \in {"donor", "insert"} => Current("category", c, a.category)'
        /\ step[m] = "insert" /\ d # 0 => Current("donor", d, a.donor)'
    BY <1>3, <2>1 DEF Followed
  <2>3. category'[m] = c /\ donor'[m] = d /\ asked'[m] = a
    BY <1>2, <2>1 DEF requestVars
  <2> QED
    BY <2>1, <2>2, <2>3 DEF Current
<1>7. Apart'
  <2>1. \A n \in InProgress' : n \in InProgress /\ asked'[n] = asked[n]
    BY <1>2, <1>4 DEF requestVars
  <2>2. ~meddled => \A p \in parents' : ~p.deleted
    BY <1>1 DEF Apart, Parent
  <2> QED
    BY <1>2, <1>5, <2>1, <2>2, StaysApart
<1> QED
  BY <1>3, <1>4, <1>5, <1>6, <1>7

\* A rename or a delete of a category or donor overtakes every request in progress.
LEMMA ChangeParentKeeps ==
  ASSUME IInv, NEW p \in parents, NEW new \in ParentRows, new.id = p.id, new.kind = p.kind,
         ChangeParent(p, new)
  PROVE  IInv'
<1> USE DEF IInv
<1>1. /\ parents' = (parents \ {p}) \cup {new} /\ overtaken' = overtaken \cup InProgress
      /\ meddled' = TRUE /\ UNCHANGED <<gifts, nextId, requestVars, faults>>
      /\ changes < MaxChanges /\ changes' = changes + 1
  BY DEF ChangeParent, Count
<1>2. RowsOK' /\ ParentsStay
  BY <1>1, ChangedParentsAreRows
<1>3. RequestsOK' /\ InProgress' = InProgress
  BY <1>1, <1>2, RequestsWait
<1>4. CountersOK'
  BY <1>1, AdminAssumption DEF CountersOK, InProgress
<1>5. Followed'
  BY <1>1 DEF Followed, InProgress, requestVars
<1>6. Apart'
  BY <1>1 DEF Apart
<1> QED
  BY <1>2, <1>3, <1>4, <1>5, <1>6

\* A rename or a delete of a gift.
LEMMA ChangeGiftKeeps ==
  ASSUME IInv, NEW g \in gifts,
         DeleteGift(g) \/ \E name \in GiftNames : RenameGift(g, name)
  PROVE  IInv'
<1> USE DEF IInv
<1>0. g \in GiftRows
  BY DEF RowsOK
<1>1. /\ UNCHANGED <<parents, nextId, requestVars, overtaken, faults>>
      /\ changes < MaxChanges /\ changes' = changes + 1
      /\ meddled' \in BOOLEAN /\ (~meddled' => ~meddled)
  BY DEF DeleteGift, RenameGift, Count, historyVars, CountersOK
<1>2. PICK new : /\ gifts' = (gifts \ {g}) \cup {new}
                 /\ \/ new = [g EXCEPT !.deleted = TRUE]
                    \/ (\E name \in GiftNames : new = [g EXCEPT !.name = name]) /\ meddled'
  BY DEF DeleteGift, RenameGift
<1>3. /\ new \in GiftRows /\ new.id = g.id /\ new.category = g.category /\ new.donor = g.donor
      /\ new.deleted \/ meddled'
  BY <1>0, <1>2 DEF GiftRows
<1>4. RowsOK'
  BY <1>1, <1>2, <1>3, ChangedGiftsAreRows
<1>5. ParentsStay
  BY <1>1 DEF ParentsStay, Exists
<1>6. RequestsOK' /\ InProgress' = InProgress
  BY <1>1, <1>5, RequestsWait
<1>7. CountersOK'
  BY <1>1, AdminAssumption DEF CountersOK
<1>8. Followed'
  BY <1>1 DEF Followed, Current, requestVars
<1>9. Apart'
  <2>1. \A n \in InProgress' : n \in InProgress /\ asked'[n] = asked[n]
    BY <1>1, <1>6 DEF requestVars
  <2>2. ~meddled' => /\ \A p \in parents' : ~p.deleted
                     /\ \A h \in gifts' : ~h.deleted => h \in gifts
    BY <1>1, <1>2, <1>3 DEF Apart
  <2> QED
    BY <1>1, <2>1, <2>2, StaysApart
<1> QED
  BY <1>4, <1>6, <1>7, <1>8, <1>9

-----------------------------------------------------------------------------
(* The theorems.                                                           *)

LEMMA StartsWell == Init => IInv
<1> SUFFICES ASSUME Init PROVE IInv
  OBVIOUS
<1>1. \A m \in Managers : step[m] = "idle"
  BY DEF Init
<1>2. InProgress = {}
  BY <1>1 DEF InProgress
<1>3. RowsOK /\ Apart
  BY <1>2 DEF Init, RowsOK, Apart
<1>4. RequestsOK
  BY <1>1, <1>2 DEF Init, RequestsOK, Steps
<1>5. Followed
  BY <1>1 DEF Followed
<1>6. CountersOK
  <2>1. 0 \in 0..MaxChanges /\ 0 \in 0..MaxFaults
    BY AdminAssumption
  <2> QED
    BY <2>1, Zenon DEF Init, CountersOK
<1> QED
  BY <1>3, <1>4, <1>5, <1>6 DEF IInv

LEMMA StaysWell == IInv /\ [Next]_vars => IInv'
<1> SUFFICES ASSUME IInv, [Next]_vars PROVE IInv'
  OBVIOUS
<1>1. CASE UNCHANGED vars
  <2>1. UNCHANGED <<gifts, parents, nextId, step, asked, category, donor, overtaken, meddled,
                    changes, faults>>
    BY <1>1 DEF vars, rowVars, requestVars, historyVars
  <2> QED
    BY <2>1 DEF IInv, RowsOK, RequestsOK, CountersOK, Followed, Apart, Exists, Current,
                InProgress, Twins
<1>2. ASSUME NEW m \in Managers, AddGift(m) \/ RequestDies(m)
      PROVE  IInv'
  BY <1>2, CheckNameKeeps, FileUnderExistingKeeps, FileUnderNewKeeps, FindDonorKeeps,
     InsertGiftKeeps, EndingKeeps
  DEF AddGift
<1>3. ASSUME NEW kind \in Kinds, NEW name \in ParentNames[kind]
      PROVE  name \in CategoryNames \cup DonorNames
  BY <1>3 DEF Kinds, ParentNames
<1>4. ASSUME NEW kind \in Kinds, NEW name \in ParentNames[kind], AddParent(kind, name)
      PROVE  IInv'
  BY <1>3, <1>4, AddParentKeeps
<1>5. ASSUME NEW p \in parents, NEW name \in CategoryNames \cup DonorNames, RenameParent(p, name)
      PROVE  IInv'
  <2>1. p \in ParentRows
    BY DEF IInv, RowsOK
  <2>2. PICK new : new = [p EXCEPT !.name = name]
    OBVIOUS
  <2>3. new \in ParentRows /\ new.id = p.id /\ new.kind = p.kind
    BY <2>1, <2>2 DEF ParentRows
  <2>4. ChangeParent(p, new)
    BY <1>5, <2>2 DEF RenameParent
  <2> QED
    BY <2>3, <2>4, ChangeParentKeeps
<1>6. ASSUME NEW p \in parents, DeleteParent(p)
      PROVE  IInv'
  <2>1. p \in ParentRows
    BY DEF IInv, RowsOK
  <2>2. PICK new : new = [p EXCEPT !.deleted = TRUE]
    OBVIOUS
  <2>3. new \in ParentRows /\ new.id = p.id /\ new.kind = p.kind
    BY <2>1, <2>2 DEF ParentRows
  <2>4. ChangeParent(p, new)
    BY <1>6, <2>2 DEF DeleteParent
  <2> QED
    BY <2>3, <2>4, ChangeParentKeeps
<1>7. ASSUME NEW g \in gifts, DeleteGift(g) \/ \E name \in GiftNames : RenameGift(g, name)
      PROVE  IInv'
  BY <1>7, ChangeGiftKeeps
<1> QED
  BY <1>1, <1>2, <1>3, <1>4, <1>5, <1>6, <1>7 DEF Next

\* The tables stay sound: ids name one row, the foreign keys of every gift hold, the
\* requests in progress ask for something, and the bounds are kept.
THEOREM TablesStaySound == Spec => []AdminTypeOK
<1>1. IInv => AdminTypeOK
  <2> SUFFICES ASSUME IInv PROVE AdminTypeOK
    OBVIOUS
  <2>1. ASSUME NEW g \in gifts, NEW kind \in Kinds
        PROVE  \E p \in parents : p.kind = kind /\ p.id = g[kind]
    <3>1. Exists("category", g.category) /\ Exists("donor", g.donor)
      BY DEF IInv, RowsOK
    <3>2. CASE kind = "category"
      BY <3>1, <3>2 DEF Exists
    <3>3. CASE kind = "donor"
      BY <3>1, <3>3 DEF Exists
    <3> QED
      BY <3>2, <3>3 DEF Kinds
  <2>2. \A p, q \in parents \cup gifts : p.id = q.id => p = q
    BY DEF IInv, RowsOK
  <2> QED
    BY <2>1, <2>2 DEF IInv, RequestsOK, CountersOK, AdminTypeOK, Steps
<1> QED
  BY <1>1, StartsWell, StaysWell, PTL DEF Spec

\* AddGiftAsync's check, four transactions before the insert, keeps gift names apart
\* unless requests for one name overlap, a gift is renamed, a category or donor is
\* renamed or hidden, or a retried insert comes twice.
THEOREM TwinsAreNeverAnAccident == Spec => []TwinsHaveACause
<1>1. IInv => TwinsHaveACause
  BY DEF IInv, Apart, TwinsHaveACause
<1> QED
  BY <1>1, StartsWell, StaysWell, PTL DEF Spec

-----------------------------------------------------------------------------
(* New gifts are listed.                                                   *)

\* The step AddedGiftsAreListed asks for.
ListsItsGifts ==
  \A g \in gifts' : (\A h \in gifts : h.id # g.id) /\ g.by \notin overtaken =>
    /\ IsListed(g)'
    /\ \E p \in parents' : p.id = g.category /\ p.name = asked[g.by].category
    /\ \E p \in parents' : p.id = g.donor /\ p.name = asked[g.by].donor

LEMMA NoNewGifts ==
  ASSUME \A g \in gifts' : \E h \in gifts : h.id = g.id
  PROVE  ListsItsGifts
BY DEF ListsItsGifts

LEMMA InsertsAreListed ==
  ASSUME IInv, NEW m \in Managers, InsertGift(m)
  PROVE  ListsItsGifts
<1> SUFFICES ASSUME NEW g \in gifts', \A h \in gifts : h.id # g.id, g.by \notin overtaken
             PROVE  /\ IsListed(g)'
                    /\ \E p \in parents' : p.id = g.category /\ p.name = asked[g.by].category
                    /\ \E p \in parents' : p.id = g.donor /\ p.name = asked[g.by].donor
  BY DEF ListsItsGifts
<1>1. PICK times \in Times :
        Saves(times) /\ gifts' = gifts \cup {GiftRow(i, m) : i \in NewIds(times)}
  BY DEF InsertGift
<1>2. step[m] = "insert" /\ donor[m] # 0 /\ parents' = parents
  BY DEF InsertGift
<1>3. PICK i : g = GiftRow(i, m)
  BY <1>1
<1>4. g.by = m /\ g.category = category[m] /\ g.donor = donor[m] /\ g.deleted = FALSE
  BY <1>3 DEF GiftRow
<1>5. /\ Current("category", category[m], asked[m].category)
      /\ Current("donor", donor[m], asked[m].donor)
  BY <1>2, <1>4 DEF IInv, Followed
<1>6. PICK p \in parents : /\ p.kind = "category" /\ p.id = g.category
                           /\ p.name = asked[m].category /\ ~p.deleted
  BY <1>4, <1>5 DEF Current
<1>7. PICK q \in parents : /\ q.kind = "donor" /\ q.id = g.donor
                           /\ q.name = asked[m].donor /\ ~q.deleted
  BY <1>4, <1>5 DEF Current
<1>8. IsListed(g)'
  BY <1>2, <1>4, <1>6, <1>7 DEF IsListed, Live
<1> QED
  BY <1>2, <1>4, <1>6, <1>7, <1>8

LEMMA StepsListTheirGifts ==
  ASSUME IInv, [Next]_vars
  PROVE  [ListsItsGifts]_vars
<1> SUFFICES ASSUME Next PROVE ListsItsGifts
  OBVIOUS
<1>0. gifts' = gifts => ListsItsGifts
  BY NoNewGifts
<1>1. ASSUME NEW m \in Managers, AddGift(m) \/ RequestDies(m)
      PROVE  ListsItsGifts
  BY <1>0, <1>1, InsertsAreListed
  DEF AddGift, CheckName, FileUnderExisting, FileUnderNew, FindDonor, DonorUnknown, RequestDies,
      rowVars
<1>2. ASSUME NEW kind \in Kinds, NEW name,
             AddParent(kind, name) \/ \E p \in parents : RenameParent(p, name) \/ DeleteParent(p)
      PROVE  ListsItsGifts
  BY <1>0, <1>2 DEF AddParent, RenameParent, DeleteParent, ChangeParent
<1>3. ASSUME NEW p \in parents, DeleteParent(p)
      PROVE  ListsItsGifts
  BY <1>0, <1>3 DEF DeleteParent, ChangeParent
<1>4. ASSUME NEW g \in gifts, DeleteGift(g) \/ \E name \in GiftNames : RenameGift(g, name)
      PROVE  ListsItsGifts
  <2>1. g \in GiftRows
    BY DEF IInv, RowsOK
  <2>2. PICK new : /\ gifts' = (gifts \ {g}) \cup {new}
                   /\ \/ new = [g EXCEPT !.deleted = TRUE]
                      \/ \E name \in GiftNames : new = [g EXCEPT !.name = name]
    BY <1>4 DEF DeleteGift, RenameGift
  <2>3. new.id = g.id
    BY <2>1, <2>2 DEF GiftRows
  <2> QED
    BY <2>2, <2>3, NoNewGifts
<1> QED
  BY <1>1, <1>2, <1>3, <1>4 DEF Next

\* Whatever the other managers add, rename and delete meanwhile, a gift that is inserted
\* is on the list at once, under a category and a donor of the names its request gave,
\* unless one of the two tables was changed under the request.
THEOREM InsertedGiftsAreOnTheList == Spec => AddedGiftsAreListed
<1>1. Spec => [][ListsItsGifts]_vars
  BY StartsWell, StaysWell, StepsListTheirGifts, PTL DEF Spec
<1> QED
  BY <1>1 DEF AddedGiftsAreListed, ListsItsGifts

=============================================================================
