----------------------------- MODULE GiftAdmin -----------------------------
(***************************************************************************)
(* The monolith's managers at work on gifts, categories and donors: POST,  *)
(* PUT and DELETE of GiftController, DonorController and                   *)
(* CategoryController over one SQL database.                               *)
(*                                                                         *)
(* Nothing is ever removed: a delete sets IsDeleted, and global query      *)
(* filters hide the row.  The list of gifts joins category and donor, so a *)
(* gift disappears from it with either of them.  AddGiftAsync makes four   *)
(* calls in transactions of their own: the list, for its duplicate check,  *)
(* the category, which it creates if missing, the donor, and the insert.   *)
(* The data source retries a failed SaveChanges, also when only the answer *)
(* to the commit was lost, and then inserts the row once more.             *)
(***************************************************************************)
EXTENDS Naturals

CONSTANTS
  Managers,       \* each has one request at a time in progress
  GiftNames, CategoryNames, DonorNames,  \* names in lower case and trimmed
  NoAsk,          \* stands for "no gift asked for yet"
  MaxChanges,     \* bound: requests of all kinds
  MaxFaults       \* bound: requests that die and commits whose answer is lost

ASSUME AdminAssumption == MaxChanges \in Nat /\ MaxFaults \in Nat

VARIABLES
  gifts,      \* rows of the gift table, deleted ones included
  parents,    \* rows of the category and donor tables, deleted ones included
  nextId,     \* source of fresh ids, of all tables
  step,       \* where each manager's POST gift stands, or how the last one ended
  asked,      \* the gift each manager asked for: [name, category, donor]
  category,   \* the category id AddGiftAsync has found or made, 0 before
  donor,      \* the donor id it has found, 0 if none
  overtaken,  \* history: requests in progress while a parent was renamed or deleted
  meddled,    \* history: a rename, a hidden parent, a repeated insert or an overlap
  changes, faults

rowVars == <<gifts, parents, nextId>>
requestVars == <<step, asked, category, donor>>
historyVars == <<overtaken, meddled>>
vars == <<rowVars, requestVars, historyVars, changes, faults>>

ParentNames == [category |-> CategoryNames, donor |-> DonorNames]
Kinds == {"category", "donor"}
InProgress == {m \in Managers : step[m] \in {"file", "donor", "insert"}}

\* What the query filter of the table lets through.
Live(kind) == {p \in parents : p.kind = kind /\ ~p.deleted}
Named(kind, name) == {p \in Live(kind) : p.name = name}

\* GetAll: the join hides the gifts of deleted categories and donors.
IsListed(g) ==
  /\ ~g.deleted
  /\ \E p \in Live("category") : p.id = g.category
  /\ \E p \in Live("donor") : p.id = g.donor

Listed == {g \in gifts : IsListed(g)}

Init ==
  /\ gifts = {} /\ parents = {} /\ nextId = 1
  /\ step = [m \in Managers |-> "idle"]
  /\ asked = [m \in Managers |-> NoAsk]
  /\ category = [m \in Managers |-> 0]
  /\ donor = [m \in Managers |-> 0]
  /\ overtaken = {} /\ meddled = FALSE
  /\ changes = 0 /\ faults = 0

Count == changes < MaxChanges /\ changes' = changes + 1
Goto(m, s) == step' = [step EXCEPT ![m] = s]

-----------------------------------------------------------------------------
(* AddGiftAsync.                                                           *)

\* mutant: the same name is a duplicate only in the same category
SameShelf(ask) == \E g \in Listed : g.name = ask.name /\
                    \E p \in Named("category", ask.category) : p.id = g.category
IsDuplicate(ask) == \E g \in Listed : g.name = ask.name

\* The list of gifts and the check against it.
CheckName(m, ask) ==
  /\ m \notin InProgress
  /\ Count
  /\ asked' = [asked EXCEPT ![m] = ask]
  /\ Goto(m, IF IsDuplicate(ask) THEN "refused" ELSE "file")
  /\ category' = [category EXCEPT ![m] = 0]
  /\ donor' = [donor EXCEPT ![m] = 0]
  /\ overtaken' = overtaken \ {m}
  /\ meddled' = (meddled \/ \E n \in InProgress : asked[n].name = ask.name)
  /\ UNCHANGED <<rowVars, faults>>

Parent(id, kind, name) == [id |-> id, kind |-> kind, name |-> name, deleted |-> FALSE]

\* SaveChanges of one new row: it is inserted under the next id or, when the answer to
\* the commit is lost, once more under the id after that.
Times == IF faults < MaxFaults THEN {1, 2} ELSE {1}
NewIds(times) == nextId .. nextId + times - 1

Saves(times) ==
  /\ nextId' = nextId + times
  /\ faults' = faults + times - 1
  /\ meddled' = (meddled \/ times = 2)

FindsDeleted(name) == {p \in parents : p.kind = "category" /\ p.name = name}  \* mutant
CategoriesOf(name) == Named("category", name)

\* The category of that name, any of them, or a new one in a transaction of its own.
FileUnderExisting(m) ==
  /\ step[m] = "file"
  /\ \E p \in CategoriesOf(asked[m].category) : category' = [category EXCEPT ![m] = p.id]
  /\ Goto(m, "donor")
  /\ UNCHANGED <<rowVars, asked, donor, historyVars, changes, faults>>

FileUnderNew(m) ==
  /\ step[m] = "file"
  /\ CategoriesOf(asked[m].category) = {}
  /\ \E times \in Times :
       /\ Saves(times)
       /\ parents' = parents \cup {Parent(i, "category", asked[m].category) : i \in NewIds(times)}
       /\ category' = [category EXCEPT ![m] = nextId' - 1]
  /\ Goto(m, "donor")
  /\ UNCHANGED <<gifts, asked, donor, overtaken, changes>>

\* The donor of that name, any of them; without one DonorId stays 0.
FindDonor(m) ==
  /\ step[m] = "donor"
  /\ LET found == {p.id : p \in Named("donor", asked[m].donor)}
     IN  \E id \in IF found = {} THEN {0} ELSE found : donor' = [donor EXCEPT ![m] = id]
  /\ Goto(m, "insert")
  /\ UNCHANGED <<rowVars, asked, category, historyVars, changes, faults>>

GiftRow(id, m) == [id |-> id, name |-> asked[m].name, category |-> category[m],
                   donor |-> donor[m], deleted |-> FALSE, by |-> m]

\* mutant: no foreign key refuses a gift without donor
InsertAnyway(m) ==
  /\ step[m] = "insert"
  /\ \E times \in Times :
       Saves(times) /\ gifts' = gifts \cup {GiftRow(i, m) : i \in NewIds(times)}
  /\ Goto(m, "added")
  /\ UNCHANGED <<parents, asked, category, donor, overtaken, changes>>

\* The insert, under whatever category and donor were found, deleted since or not.
InsertGift(m) ==
  /\ step[m] = "insert" /\ donor[m] # 0
  /\ \E times \in Times :
       Saves(times) /\ gifts' = gifts \cup {GiftRow(i, m) : i \in NewIds(times)}
  /\ Goto(m, "added")
  /\ UNCHANGED <<parents, asked, category, donor, overtaken, changes>>

\* DonorId 0 violates the foreign key; a category made for the gift stays.
DonorUnknown(m) ==
  /\ step[m] = "insert" /\ donor[m] = 0
  /\ Goto(m, "failed")
  /\ UNCHANGED <<rowVars, asked, category, donor, historyVars, changes, faults>>

\* The request dies between two of its calls; a category made for the gift stays.
RequestDies(m) ==
  /\ m \in InProgress
  /\ faults < MaxFaults
  /\ faults' = faults + 1
  /\ Goto(m, "failed")
  /\ UNCHANGED <<rowVars, asked, category, donor, historyVars, changes>>

-----------------------------------------------------------------------------
(* The other requests, each one call that changes something.               *)

AddParent(kind, name) ==
  /\ Count
  /\ \E times \in Times :
       Saves(times) /\ parents' = parents \cup {Parent(i, kind, name) : i \in NewIds(times)}
  /\ UNCHANGED <<gifts, requestVars, overtaken>>

\* Update and Delete find the row through the query filter and change its Name or its
\* IsDeleted; category and donor of a gift cannot be updated.
ChangeParent(p, new) ==
  /\ Count
  /\ parents' = (parents \ {p}) \cup {new}
  /\ overtaken' = overtaken \cup InProgress
  /\ meddled' = TRUE
  /\ UNCHANGED <<gifts, nextId, requestVars, faults>>

RenameParent(p, name) == ~p.deleted /\ p.name # name /\ ChangeParent(p, [p EXCEPT !.name = name])
DeleteParent(p)       == ~p.deleted /\ ChangeParent(p, [p EXCEPT !.deleted = TRUE])

\* UpdateGiftAsync: no look at the other names.
RenameGift(g, name) ==
  /\ ~g.deleted /\ g.name # name
  /\ Count
  /\ gifts' = (gifts \ {g}) \cup {[g EXCEPT !.name = name]}
  /\ meddled' = TRUE
  /\ UNCHANGED <<parents, nextId, requestVars, overtaken, faults>>

\* DeleteGiftAsync of a gift no order mentions (TicketStore has the check).
DeleteGift(g) ==
  /\ ~g.deleted
  /\ Count
  /\ gifts' = (gifts \ {g}) \cup {[g EXCEPT !.deleted = TRUE]}
  /\ UNCHANGED <<parents, nextId, requestVars, historyVars, faults>>

-----------------------------------------------------------------------------
Asks == [name : GiftNames, category : CategoryNames, donor : DonorNames]

AddGift(m) ==
  \/ \E ask \in Asks : CheckName(m, ask)
  \/ FileUnderExisting(m) \/ FileUnderNew(m)
  \/ FindDonor(m)
  \/ InsertGift(m) \/ DonorUnknown(m)

Next ==
  \/ \E m \in Managers : AddGift(m) \/ RequestDies(m)
  \/ \E kind \in Kinds : \E name \in ParentNames[kind] :
       \/ AddParent(kind, name)
       \/ \E p \in {q \in parents : q.kind = kind} : RenameParent(p, name)
  \/ \E p \in parents : DeleteParent(p)
  \/ \E g \in gifts : DeleteGift(g) \/ \E name \in GiftNames : RenameGift(g, name)

Spec == Init /\ [][Next]_vars

-----------------------------------------------------------------------------
(* Properties.                                                             *)

\* Every variable holds a value of its type, every gift belongs to a category and a
\* donor that are there, deleted or not, and an id names one row.
AdminTypeOK ==
  /\ step \in [Managers -> {"idle", "file", "donor", "insert", "added", "failed", "refused"}]
  /\ asked \in [Managers -> Asks \cup {NoAsk}]
  /\ \A g \in gifts : \A kind \in Kinds :
       \E p \in parents : p.kind = kind /\ p.id = g[kind]
  /\ \A p, q \in parents \cup gifts : p.id = q.id => p = q
  /\ overtaken \subseteq Managers
  /\ changes \in 0..MaxChanges /\ faults \in 0..MaxFaults

Twins(g, h) == g # h /\ ~g.deleted /\ ~h.deleted /\ g.name = h.name

\* The duplicate check works as long as nobody adds the same name at the same time or
\* renames a gift, no category or donor is renamed or deleted, and no insert is repeated;
\* deleting gifts and adding categories and donors do it no harm.
TwinsHaveACause == (\E g, h \in gifts : Twins(g, h)) => meddled

\* A gift is on the list as soon as it is inserted, under a category and a donor of the
\* names that were asked for, unless one was renamed or deleted during the request.
AddedGiftsAreListed ==
  [][\A g \in gifts' : (\A h \in gifts : h.id # g.id) /\ g.by \notin overtaken =>
       /\ IsListed(g)'
       /\ \E p \in parents' : p.id = g.category /\ p.name = asked[g.by].category
       /\ \E p \in parents' : p.id = g.donor /\ p.name = asked[g.by].donor]_vars

=============================================================================
