---------------------------- MODULE CatalogStore ----------------------------
(***************************************************************************)
(* CatalogService's MongoDB collections and the managers' requests on      *)
(* them, as two replicas of the service run them side by side: GiftService *)
(* (whose AddAsync finds or creates the category and the donor first),     *)
(* CategoryService and DonorService over the Mongo*Repository classes.     *)
(* Every repository gives a new document the largest id plus one, deletes  *)
(* by setting IsDeleted, and writes whole documents back; a step is one    *)
(* call to the database.                                                   *)
(***************************************************************************)
EXTENDS Integers, Sequences, FiniteSetsExt

CONSTANTS
  Names,      \* names of categories and e-mails of donors, lower case
  GiftAdds,   \* requests to add a gift
  PlainAdds,  \* requests to add a category or a donor
  Updates, Deletes,  \* requests to change or delete a document
  Place,      \* the collection a plain add, an update or a delete is about
  Wanted,     \* the category, the donor and the own name an add asks for
  Target,     \* the id an update or delete is about
  NewName,    \* the name an update writes
  MaxFailures \* bound: database calls that throw and replicas that die

Collections == {"categories", "donors", "gifts"}
Adds        == GiftAdds \cup PlainAdds
Changes     == Updates \cup Deletes
Requests    == Adds \cup Changes

ASSUME CatalogAssumption ==
  /\ Names # {}
  /\ GiftAdds \cap PlainAdds = {} /\ Adds \cap Changes = {}    \* a request is of one kind
  /\ Updates \cap Deletes = {} /\ "past" \notin Adds
  /\ Place \in [PlainAdds \cup Changes -> Collections]
  /\ \A r \in PlainAdds : Place[r] # "gifts"
  /\ Wanted \in [Adds -> [Collections -> Names]]
  /\ Target \in [Changes -> Nat \ {0}]
  /\ NewName \in [Updates -> Names]
  /\ MaxFailures \in Nat

VARIABLES
  docs,    \* MongoDB: the documents of each collection
  stage,   \* where each request stands
  hop,     \* how far an add has come on its way through the collections
  newId,   \* the id an add has computed
  refs,    \* the category and donor id an add of a gift has found or made
  copy,    \* the document an update or delete has read
  overtaken, \* history: the updates a delete finished in the middle of
  failures

vars == <<docs, stage, hop, newId, refs, copy, overtaken, failures>>

\* by: history, the request that inserted the document.
NoRefs   == [c \in {"categories", "donors"} |-> 0]
Document == [id: Nat, name: Names, deleted: BOOLEAN, refs: [{"categories", "donors"} -> Nat],
             by: Adds \cup {"past"}]

\* What is left of a collection whose only document was deleted.
Remains == [id |-> 1, name |-> CHOOSE n \in Names : TRUE, deleted |-> TRUE, refs |-> NoRefs,
            by |-> "past"]

AtRest == {"ok", "none", "error", "dead"}

\* The collections an add writes to, in order.
Way(r) == IF r \in GiftAdds THEN <<"categories", "donors", "gifts">> ELSE <<Place[r]>>
Here(r) == Way(r)[hop[r]]

\* How a request starts, and what an add does first in a collection: a gift's category
\* and donor are looked up, everything else is simply added.
FirstStage(r, i) ==
  CASE r \in GiftAdds  -> IF i < 3 THEN "find" ELSE "id"
    [] r \in PlainAdds -> "id"
    [] r \in Changes   -> "read"

Init ==
  /\ docs \in [Collections -> {{}, {Remains}}]
  /\ stage = [r \in Requests |-> FirstStage(r, 1)]
  /\ hop = [r \in Adds |-> 1]
  /\ newId = [r \in Adds |-> 0]
  /\ refs = [r \in GiftAdds |-> NoRefs]
  /\ copy = [r \in Changes |-> Remains]
  /\ overtaken = [r \in Deletes |-> {}]
  /\ failures = 0

Live(c) == {d \in docs[c] : ~d.deleted}
Ids(c)  == {d.id : d \in docs[c]}
Go(r, s) == stage' = [stage EXCEPT ![r] = s]
Smoothly == UNCHANGED failures
Fails    == failures < MaxFailures /\ failures' = failures + 1

\* The add is through with a collection.
Onward(r) ==
  IF hop[r] = Len(Way(r)) THEN Go(r, "ok") /\ UNCHANGED hop
  ELSE Go(r, FirstStage(r, hop[r] + 1)) /\ hop' = [hop EXCEPT ![r] = @ + 1]

-----------------------------------------------------------------------------
\* GetByNameAsync, GetByEmailAsync: a live document of that name, whichever comes first.
Find(r) ==
  /\ stage[r] = "find"
  /\ LET matches == {d \in Live(Here(r)) : d.name = Wanted[r][Here(r)]}
     IN  \/ \E d \in matches : refs' = [refs EXCEPT ![r][Here(r)] = d.id] /\ Onward(r)
         \/ matches = {} /\ Go(r, "id") /\ UNCHANGED <<refs, hop>>
  /\ UNCHANGED <<docs, newId, copy, overtaken>> /\ Smoothly

LiveIdOnly(c) == Max({d.id : d \in Live(c)} \cup {0}) + 1    \* mutant: a filter too many

\* GetNextIdAsync: deleted documents count.
NextId(c) == Max(Ids(c) \cup {0}) + 1

ChooseId(r) ==
  /\ stage[r] = "id"
  /\ newId' = [newId EXCEPT ![r] = NextId(Here(r))]
  /\ Go(r, "insert")
  /\ UNCHANGED <<docs, hop, refs, copy, overtaken>> /\ Smoothly

NewDocument(r) ==
  [id |-> newId[r], name |-> Wanted[r][Here(r)], deleted |-> FALSE, by |-> r,
   refs |-> IF Here(r) = "gifts" THEN refs[r] ELSE NoRefs]

With(c, d)  == [docs EXCEPT ![c] = {e \in @ : e.id # d.id} \cup {d}]

NeverTaken(r) == FALSE    \* mutant: an upsert instead of InsertOne
Taken(r)      == newId[r] \in Ids(Here(r))

\* InsertOneAsync: _id is unique, so the second of two equal ids throws.
Insert(r) ==
  /\ stage[r] = "insert"
  /\ IF Taken(r)
       THEN Go(r, "error") /\ UNCHANGED <<docs, hop, refs>>
       ELSE /\ docs' = With(Here(r), NewDocument(r))
            /\ refs' = IF r \in GiftAdds /\ Here(r) # "gifts"
                         THEN [refs EXCEPT ![r][Here(r)] = newId[r]] ELSE refs
            /\ Onward(r)
  /\ UNCHANGED <<newId, copy, overtaken>> /\ Smoothly

-----------------------------------------------------------------------------
\* UpdateAsync, DeleteAsync: read the document; 404 when it is missing or deleted ...
Read(r) ==
  /\ stage[r] = "read"
  /\ LET matches == {d \in Live(Place[r]) : d.id = Target[r]}
     IN  \/ \E d \in matches : copy' = [copy EXCEPT ![r] = d] /\ Go(r, "replace")
         \/ matches = {} /\ Go(r, "none") /\ UNCHANGED copy
  /\ UNCHANGED <<docs, hop, newId, refs, overtaken>> /\ Smoothly

\* ... and write it back with the change.  Its other fields are those that were read.
\* UpdateAsync of a gift keeps the category and donor ids it read.
Changed(r) == IF r \in Deletes THEN [copy[r] EXCEPT !.deleted = TRUE]
                               ELSE [copy[r] EXCEPT !.name = NewName[r]]

HalfDone(r) ==
  {u \in Updates : Place[u] = Place[r] /\ Target[u] = Target[r] /\ stage[u] = "replace"}

Replace(r) ==
  /\ stage[r] = "replace"
  /\ docs' = With(Place[r], Changed(r))
  /\ Go(r, "ok")
  /\ overtaken' = [d \in Deletes |-> IF d = r THEN HalfDone(r) ELSE overtaken[d]]
  /\ UNCHANGED <<hop, newId, refs, copy>> /\ Smoothly

\* A call to the database throws; a write may have happened all the same.
Throws(r) ==
  /\ stage[r] \notin AtRest
  /\ Fails
  /\ Go(r, "error")
  /\ \/ UNCHANGED docs
     \/ stage[r] = "insert" /\ ~Taken(r) /\ docs' = With(Here(r), NewDocument(r))
     \/ stage[r] = "replace" /\ docs' = With(Place[r], Changed(r))
  /\ UNCHANGED <<hop, newId, refs, copy, overtaken>>

\* A replica dies with the requests it was serving, which may be any of them.
Crash ==
  /\ Fails
  /\ \E lost \in SUBSET {r \in Requests : stage[r] \notin AtRest} :
       stage' = [r \in Requests |-> IF r \in lost THEN "dead" ELSE stage[r]]
  /\ UNCHANGED <<docs, hop, newId, refs, copy, overtaken>>

Next ==
  \/ \E r \in GiftAdds : Find(r)
  \/ \E r \in Adds : ChooseId(r) \/ Insert(r)
  \/ \E r \in Changes : Read(r) \/ Replace(r)
  \/ \E r \in Requests : Throws(r)
  \/ Crash

Spec == Init /\ [][Next]_vars

-----------------------------------------------------------------------------
(* Properties.                                                             *)

\* A new gift is filed under the category and the donor that were asked for, and under
\* nobody else's, although the ids are computed one call before they are used and
\* other adds compute the same: unless the category or donor is renamed meanwhile.
GiftsAreFiledAsAsked ==
  \A g \in docs["gifts"] : g.by \in GiftAdds =>
    \A c \in {"categories", "donors"} :
      \/ \E d \in docs[c] : d.id = g.refs[c] /\ d.name = Wanted[g.by][c]
      \/ \E u \in Updates : Place[u] = c /\ Target[u] = g.refs[c] /\ stage[u] \in {"ok", "error"}

\* Two adds that want the same id cannot both fail: when all of them are over and no
\* call threw and no replica died, at least one has succeeded, deleted documents and
\* adds of categories and donors in between notwithstanding.
SomeAddSucceeds ==
  (\A r \in Adds : stage[r] \in AtRest) /\ failures = 0
    => \E r \in Adds : stage[r] = "ok"

\* An add that was answered with success has its gift in the collection, under an id no
\* other document has, whatever else ran beside it.
AddedGiftsExist ==
  \A r \in GiftAdds : stage[r] = "ok" =>
    \E g \in docs["gifts"] : g.by = r /\ \A h \in docs["gifts"] : h.id = g.id => h = g

\* A document whose deletion was answered with success comes back only through an
\* update that had read it before and wrote it after: an add never takes its id again,
\* whatever ids were computed before.
DeletedComesBackOnlyByUpdate ==
  \A r \in Deletes : stage[r] = "ok" =>
    \/ \A d \in Live(Place[r]) : d.id # Target[r]
    \/ \E u \in overtaken[r] : stage[u] \in {"ok", "error"}
=============================================================================
