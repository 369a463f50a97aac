---------------------------- MODULE CatalogProofs ----------------------------
(***************************************************************************)
(* The catalog's documents stay where requests filed them, for any         *)
(* requests, replicas and number of failed calls.                          *)
(*                                                                         *)
(* What stays filed does not depend on how ids are chosen, only on an      *)
(* insert of a taken id throwing.  A write therefore either adds a         *)
(* document or puts one of the same id, category, donor and origin in the  *)
(* place of another, under a new name only if an update ends (Evolves).    *)
(* References and copies that were right stay right along such steps.      *)
(*                                                                         *)
(* That some add succeeds is about the ids (Prospers): the largest plus    *)
(* one is free when it is computed, so an add that finds its id taken has  *)
(* lost to one that got past the collection meanwhile.                     *)
(***************************************************************************)
EXTENDS CatalogStore, TLAPS

References == {"categories", "donors"}

IsDocument(d) == d = [id |-> d.id, name |-> d.name, deleted |-> d.deleted, by |-> d.by,
                      refs |-> d.refs]

Same(d, e) == e.id = d.id /\ e.by = d.by /\ e.refs = d.refs

\* Some update of the document has been answered.
Renamed(c, id) ==
  \E u \in Updates : Place[u] = c /\ Target[u] = id /\ stage[u] \in {"ok", "error"}

\* The document of that id has that name, or had it until an update.
Filed(c, id, name) == \E d \in docs[c] : d.id = id /\ (d.name = name \/ Renamed(c, id))

-----------------------------------------------------------------------------
(* The inductive invariant.                                                *)

Shape ==
  /\ DOMAIN docs = Collections /\ DOMAIN stage = Requests
  /\ DOMAIN hop = Adds /\ DOMAIN newId = Adds /\ DOMAIN refs = GiftAdds
  /\ DOMAIN copy = Changes /\ DOMAIN overtaken = Deletes
  /\ \A c \in Collections : \A d \in docs[c] : IsDocument(d)
  /\ \A r \in Changes : IsDocument(copy[r])
  /\ \A r \in Changes : stage[r] \notin {"find", "id", "insert"}
  /\ \A r \in Adds : stage[r] \notin {"read", "replace"}
  /\ \A r \in PlainAdds : hop[r] = 1
  /\ \A r \in GiftAdds :
       /\ hop[r] \in 1..3 /\ (stage[r] = "find" => hop[r] < 3)
       /\ DOMAIN refs[r] = References

IdsAreUnique == \A c \in Collections : \A d, e \in docs[c] : d.id = e.id => d = e

\* What a change is about to write back is the document it was asked for, its name aside.
CopiesAreOfDocuments ==
  \A r \in Changes : stage[r] = "replace" =>
    /\ copy[r].id = Target[r]
    /\ \E d \in docs[Place[r]] :
         Same(d, copy[r]) /\ (d.name = copy[r].name \/ Renamed(Place[r], Target[r]))

\* What an add of a gift has found or made is what it asked for.
Passed(r, c) == hop[r] = 3 \/ (hop[r] = 2 /\ c = "categories")
ReferencesAreFiled ==
  \A r \in GiftAdds, c \in References :
    Passed(r, c) => Filed(c, refs[r][c], Wanted[r][c])

GiftsAreFiled ==
  \A g \in docs["gifts"] : g.by \in GiftAdds =>
    \A c \in References : Filed(c, g.refs[c], Wanted[g.by][c])

GiftsAreThere ==
  \A r \in GiftAdds : stage[r] = "ok" => \E g \in docs["gifts"] : g.by = r

\* A delete that was answered left a deleted document, and any update that has a copy of
\* it is one the delete overtook; or such an update has brought it back.
Buried(r) ==
  /\ \E d \in docs[Place[r]] : d.id = Target[r]
  /\ \A d \in docs[Place[r]] : d.id = Target[r] => d.deleted
  /\ \A u \in Updates :
       Place[u] = Place[r] /\ Target[u] = Target[r] /\ stage[u] = "replace" => u \in overtaken[r]
Revived(r) == \E u \in overtaken[r] : stage[u] \in {"ok", "error"}
DeletesLast ==
  \A r \in Deletes :
    overtaken[r] \subseteq Updates /\ (stage[r] = "ok" => Buried(r) \/ Revived(r))

Catalogued == /\ Shape /\ IdsAreUnique /\ CopiesAreOfDocuments /\ ReferencesAreFiled
              /\ GiftsAreFiled /\ GiftsAreThere /\ DeletesLast

-----------------------------------------------------------------------------
(* Writes.                                                                 *)

\* What every step does to the documents, and to requests that were answered.
Evolves ==
  \A c \in Collections : \A d \in docs[c] : \E e \in docs'[c] :
    Same(d, e) /\ (e.name = d.name \/ Renamed(c, d.id)')
AnswersStand == \A r \in Requests : stage[r] \in AtRest => stage'[r] = stage[r]

LEMMA WithIs ==
  ASSUME DOMAIN docs = Collections, NEW c \in Collections, NEW x, docs' = With(c, x)
  PROVE  /\ DOMAIN docs' = Collections
         /\ docs'[c] = {e \in docs[c] : e.id # x.id} \cup {x}
         /\ \A k \in Collections \ {c} : docs'[k] = docs[k]
BY DEF With

\* Where an add is.
LEMMA Whereabouts ==
  ASSUME Shape
  PROVE  /\ \A r \in GiftAdds : /\ Len(Way(r)) = 3
                                /\ hop[r] = 1 => Here(r) = "categories"
                                /\ hop[r] = 2 => Here(r) = "donors"
                                /\ hop[r] = 3 => Here(r) = "gifts"
         /\ \A r \in PlainAdds : Len(Way(r)) = 1 /\ Here(r) = Place[r] /\ Here(r) \in References
         /\ \A r \in Adds : Here(r) \in Collections
<1>1. ASSUME NEW r \in GiftAdds
      PROVE  /\ Len(Way(r)) = 3
             /\ hop[r] = 1 => Here(r) = "categories"
             /\ hop[r] = 2 => Here(r) = "donors"
             /\ hop[r] = 3 => Here(r) = "gifts"
             /\ Here(r) \in Collections
  <2>1. Way(r) = <<"categories", "donors", "gifts">>
    BY DEF Way
  <2>2. hop[r] \in 1..3
    BY DEF Shape
  <2>3. QED
    BY <2>1, <2>2 DEF Here, Collections
<1>2. ASSUME NEW r \in PlainAdds
      PROVE  Len(Way(r)) = 1 /\ Here(r) = Place[r] /\ Here(r) \in References
  <2>1. Way(r) = <<Place[r]>>
    BY CatalogAssumption DEF Way
  <2>2. hop[r] = 1 /\ Place[r] \in References
    BY CatalogAssumption DEF Shape, Collections, References
  <2>3. QED
    BY <2>1, <2>2 DEF Here
<1>3. QED
  BY <1>1, <1>2 DEF Adds, References, Collections

\* An insert of a free id adds a document.
LEMMA InsertsEvolve ==
  ASSUME Shape, IdsAreUnique, NEW r \in Adds, ~Taken(r), docs' = With(Here(r), NewDocument(r))
  PROVE  /\ Evolves /\ IdsAreUnique' /\ DOMAIN docs' = Collections
         /\ docs'[Here(r)] = docs[Here(r)] \cup {NewDocument(r)}
         /\ \A k \in Collections \ {Here(r)} : docs'[k] = docs[k]
         /\ \A c \in Collections : \A d \in docs'[c] : IsDocument(d)
<1>1. PICK c, x : c = Here(r) /\ x = NewDocument(r)
  OBVIOUS
<1>2. x.id = newId[r] /\ IsDocument(x) /\ c \in Collections
  BY <1>1, Whereabouts DEF NewDocument, IsDocument
<1>3. \A d \in docs[c] : d.id # x.id
  BY <1>1, <1>2 DEF Taken, Ids
<1>4. /\ DOMAIN docs' = Collections /\ docs'[c] = docs[c] \cup {x}
      /\ \A k \in Collections \ {c} : docs'[k] = docs[k]
  BY <1>1, <1>2, <1>3, WithIs DEF Shape
<1>5. Evolves
  BY <1>4 DEF Evolves, Same
<1>6. IdsAreUnique'
  BY <1>3, <1>4 DEF IdsAreUnique
<1>7. \A k \in Collections : \A d \in docs'[k] : IsDocument(d)
  BY <1>2, <1>4 DEF Shape
<1>8. QED
  BY <1>1, <1>4, <1>5, <1>6, <1>7

\* A change that ends puts its document in the place of the one of that id.
LEMMA ReplacesEvolve ==
  ASSUME Shape, IdsAreUnique, CopiesAreOfDocuments, AnswersStand,
         NEW r \in Changes, stage[r] = "replace", docs' = With(Place[r], Changed(r)),
         stage'[r] \in {"ok", "error"}
  PROVE  /\ Evolves /\ IdsAreUnique' /\ DOMAIN docs' = Collections
         /\ Changed(r).id = Target[r]
         /\ docs'[Place[r]] = {e \in docs[Place[r]] : e.id # Target[r]} \cup {Changed(r)}
         /\ \A k \in Collections \ {Place[r]} : docs'[k] = docs[k]
         /\ \A c \in Collections : \A d \in docs'[c] : IsDocument(d)
<1>1. PICK c, x : c = Place[r] /\ x = Changed(r)
  OBVIOUS
<1>2. c \in Collections
  BY <1>1, CatalogAssumption DEF Changes
<1>3. IsDocument(copy[r])
  BY DEF Shape
<1>4. /\ IsDocument(x) /\ Same(copy[r], x)
      /\ r \in Deletes => x.name = copy[r].name /\ x.deleted
  BY <1>1, <1>3 DEF Changed, IsDocument, Same
<1>5. PICK d \in docs[c] : /\ Same(d, copy[r])
                           /\ d.name = copy[r].name \/ Renamed(c, Target[r])
  BY <1>1 DEF CopiesAreOfDocuments
<1>6. x.id = Target[r] /\ d.id = Target[r] /\ Same(d, x)
  BY <1>4, <1>5 DEF CopiesAreOfDocuments, Same
<1>7. /\ DOMAIN docs' = Collections /\ docs'[c] = {e \in docs[c] : e.id # Target[r]} \cup {x}
      /\ \A k \in Collections \ {c} : docs'[k] = docs[k]
  BY <1>1, <1>2, <1>6, WithIs DEF Shape
<1>8. x.name = d.name \/ Renamed(c, d.id)'
  <2>1. CASE r \in Updates
    BY <1>1, <1>6, <2>1 DEF Renamed
  <2>2. CASE r \in Deletes /\ Renamed(c, Target[r])
    BY <1>6, <2>2 DEF Renamed, AnswersStand, AtRest, Requests, Changes
  <2>3. CASE r \in Deletes /\ d.name = copy[r].name
    BY <1>4, <2>3
  <2>4. QED
    BY <1>5, <2>1, <2>2, <2>3 DEF Changes
<1>9. Evolves
  <2>1. ASSUME NEW k \in Collections, NEW e \in docs[k]
        PROVE  \E f \in docs'[k] : Same(e, f) /\ (f.name = e.name \/ Renamed(k, e.id)')
    <3>1. CASE k # c \/ e.id # Target[r]
      BY <1>7, <3>1 DEF Same
    <3>2. CASE k = c /\ e.id = Target[r]
      <4>1. e = d
        BY <1>2, <1>6, <3>2 DEF IdsAreUnique
      <4>2. x \in docs'[k]
        BY <1>7, <3>2
      <4>3. QED
        BY <1>6, <1>8, <3>2, <4>1, <4>2
    <3>3. QED
      BY <3>1, <3>2
  <2>2. QED
    BY <2>1 DEF Evolves
<1>10. IdsAreUnique'
  BY <1>6, <1>7 DEF IdsAreUnique
<1>11. \A k \in Collections : \A e \in docs'[k] : IsDocument(e)
  BY <1>2, <1>4, <1>7 DEF Shape
<1>12. QED
  BY <1>1, <1>6, <1>7, <1>9, <1>10, <1>11

-----------------------------------------------------------------------------
(* Steps.                                                                  *)

\* What any step may do to the documents.
Inserts(r)  == stage[r] = "insert" /\ ~Taken(r) /\ docs' = With(Here(r), NewDocument(r))
Replaces(r) == /\ stage[r] = "replace" /\ stage'[r] \in {"ok", "error"}
               /\ docs' = With(Place[r], Changed(r))
Writes == \/ UNCHANGED docs
          \/ \E r \in Adds : Inserts(r)
          \/ \E r \in Changes : Replaces(r)

\* What any step may do to a copy.
Copies ==
  \A r \in Changes : stage'[r] = "replace" =>
    \/ stage[r] = "replace" /\ copy'[r] = copy[r]
    \/ UNCHANGED docs /\ copy'[r] \in Live(Place[r]) /\ copy'[r].id = Target[r]

LEMMA StepsWrite ==
  ASSUME Shape, [Next]_vars
  PROVE  Writes /\ AnswersStand /\ Copies /\ DOMAIN stage' = Requests
<1>1. Requests = Adds \cup Changes /\ Adds \cap Changes = {} /\ GiftAdds \subseteq Adds
  BY CatalogAssumption DEF Requests, Adds
<1>2. DOMAIN stage = Requests /\ DOMAIN copy = Changes
  BY DEF Shape
<1>3. CASE UNCHANGED vars
  BY <1>2, <1>3 DEF vars, Writes, AnswersStand, Copies
<1>4. CASE \E r \in GiftAdds : Find(r)
  <2>1. PICK r \in GiftAdds : Find(r)
    BY <1>4
  <2>2. UNCHANGED <<docs, copy>> /\ stage[r] = "find" /\ \E s : Go(r, s)
    BY <2>1 DEF Find, Onward
  <2>3. QED
    BY <1>1, <1>2, <2>2 DEF Go, Writes, AnswersStand, Copies, AtRest
<1>5. CASE \E r \in Adds : ChooseId(r)
  <2>1. PICK r \in Adds : ChooseId(r)
    BY <1>5
  <2>2. QED
    BY <1>1, <1>2, <2>1 DEF ChooseId, Go, Writes, AnswersStand, Copies, AtRest
<1>6. CASE \E r \in Adds : Insert(r)
  <2>1. PICK r \in Adds : Insert(r)
    BY <1>6
  <2>2. UNCHANGED copy /\ stage[r] = "insert" /\ (\E s : Go(r, s)) /\ Writes
    BY <2>1 DEF Insert, Onward, Writes, Inserts
  <2>3. QED
    BY <1>1, <1>2, <2>2 DEF Go, AnswersStand, Copies, AtRest
<1>7. CASE \E r \in Changes : Read(r)
  <2>1. PICK r \in Changes : Read(r)
    BY <1>7
  <2>2. UNCHANGED docs /\ stage[r] = "read"
    BY <2>1 DEF Read
  <2>3. CASE Go(r, "none") /\ UNCHANGED copy
    BY <1>1, <1>2, <2>2, <2>3 DEF Go, Writes, AnswersStand, Copies, AtRest
  <2>4. CASE \E d \in {e \in Live(Place[r]) : e.id = Target[r]} :
               copy' = [copy EXCEPT ![r] = d] /\ Go(r, "replace")
    BY <1>1, <1>2, <2>2, <2>4 DEF Go, Writes, AnswersStand, Copies, AtRest
  <2>5. QED
    BY <2>1, <2>3, <2>4 DEF Read
<1>8. CASE \E r \in Changes : Replace(r)
  <2>1. PICK r \in Changes : Replace(r)
    BY <1>8
  <2>2. QED
    BY <1>1, <1>2, <2>1 DEF Replace, Go, Writes, Replaces, AnswersStand, Copies, AtRest
<1>9. CASE \E r \in Requests : Throws(r)
  <2>1. PICK r \in Requests : Throws(r)
    BY <1>9
  <2>2. /\ UNCHANGED copy /\ stage[r] \notin AtRest
        /\ stage' = [stage EXCEPT ![r] = "error"]
    BY <2>1 DEF Throws, Go
  <2>3. AnswersStand /\ Copies /\ DOMAIN stage' = Requests
    BY <1>2, <2>2, <1>1 DEF AnswersStand, Copies
  <2>4. Writes
    <3>1. stage'[r] = "error"
      BY <1>2, <2>2
    <3>2. (stage[r] = "insert" => r \in Adds) /\ (stage[r] = "replace" => r \in Changes)
      BY <1>1 DEF Shape
    <3>3. QED
      BY <2>1, <3>1, <3>2 DEF Throws, Writes, Inserts, Replaces
  <2>5. QED
    BY <2>3, <2>4
<1>10. CASE Crash
  BY <1>1, <1>2, <1>10 DEF Crash, Writes, AnswersStand, Copies
<1>11. QED
  BY <1>3, <1>4, <1>5, <1>6, <1>7, <1>8, <1>9, <1>10 DEF Next

LEMMA StepsEvolve ==
  ASSUME Shape, IdsAreUnique, CopiesAreOfDocuments, [Next]_vars
  PROVE  /\ Evolves /\ IdsAreUnique' /\ DOMAIN docs' = Collections
         /\ \A c \in Collections : \A d \in docs'[c] : IsDocument(d)
<1>1. Writes /\ AnswersStand
  BY StepsWrite
<1>2. CASE UNCHANGED docs
  BY <1>2 DEF Evolves, Same, IdsAreUnique, Shape
<1>3. CASE \E r \in Adds : Inserts(r)
  <2>1. PICK r \in Adds : Inserts(r)
    BY <1>3
  <2>2. QED
    BY <2>1, InsertsEvolve DEF Inserts
<1>4. CASE \E r \in Changes : Replaces(r)
  <2>1. PICK r \in Changes : Replaces(r)
    BY <1>4
  <2>2. QED
    BY <1>1, <2>1, ReplacesEvolve DEF Replaces
<1>5. QED
  BY <1>1, <1>2, <1>3, <1>4 DEF Writes

\* A document that was filed right is filed right ever after.
LEMMA FiledStays ==
  ASSUME Evolves, AnswersStand
  PROVE  \A c \in Collections : \A id, name : Filed(c, id, name) => Filed(c, id, name)'
<1>1. ASSUME NEW c \in Collections, NEW id, Renamed(c, id)
      PROVE  Renamed(c, id)'
  BY <1>1 DEF Renamed, AnswersStand, AtRest, Requests, Changes
<1>2. ASSUME NEW c \in Collections, NEW id, NEW name, Filed(c, id, name)
      PROVE  Filed(c, id, name)'
  <2>1. PICK d \in docs[c] : d.id = id /\ (d.name = name \/ Renamed(c, id))
    BY <1>2 DEF Filed
  <2>2. PICK e \in docs'[c] : Same(d, e) /\ (e.name = d.name \/ Renamed(c, d.id)')
    BY DEF Evolves
  <2>3. e.id = id /\ (e.name = name \/ Renamed(c, id)')
    BY <1>1, <2>1, <2>2 DEF Same
  <2>4. QED
    BY <2>3 DEF Filed
<1>3. QED
  BY <1>2

\* What an insert leaves.
LEMMA InsertLeaves ==
  ASSUME Shape, IdsAreUnique, NEW r \in Adds, Inserts(r)
  PROVE  \E d \in docs'[Here(r)] : /\ d.id = newId[r] /\ d.name = Wanted[r][Here(r)]
                                  /\ d.by = r
<1>1. NewDocument(r) \in docs'[Here(r)]
  BY InsertsEvolve DEF Inserts
<1>2. QED
  BY <1>1 DEF NewDocument

\* Where adds are on their way, as Shape has it.
OnTheWay ==
  /\ DOMAIN stage = Requests /\ DOMAIN hop = Adds
  /\ \A r \in Changes : stage[r] \notin {"find", "id", "insert"}
  /\ \A r \in Adds : stage[r] \notin {"read", "replace"}
  /\ \A r \in PlainAdds : hop[r] = 1
  /\ \A r \in GiftAdds : hop[r] \in 1..3 /\ (stage[r] = "find" => hop[r] < 3)

LEMMA Kinds ==
  /\ Requests = Adds \cup Changes /\ Adds \cap Changes = {}
  /\ Adds = GiftAdds \cup PlainAdds /\ GiftAdds \cap PlainAdds = {}
  /\ Changes = Updates \cup Deletes /\ Updates \cap Deletes = {}
BY CatalogAssumption DEF Requests, Adds, Changes

LEMMA OnwardStays ==
  ASSUME Shape, NEW r \in Adds, Onward(r)
  PROVE  /\ OnTheWay'
         /\ r \in GiftAdds /\ hop[r] < 3 => hop'[r] = hop[r] + 1 /\ stage'[r] # "ok"
         /\ \A q \in Adds \ {r} : hop'[q] = hop[q] /\ stage'[q] = stage[q]
         /\ r \in GiftAdds /\ hop[r] = 3 => hop'[r] = 3
<1>1. OnTheWay /\ r \in Requests /\ r \notin Changes
  BY Kinds DEF Shape, OnTheWay
<1>2. CASE hop[r] = Len(Way(r))
  <2>1. stage' = [stage EXCEPT ![r] = "ok"] /\ UNCHANGED hop
    BY <1>2 DEF Onward, Go
  <2>2. r \in GiftAdds => hop[r] = 3
    BY <1>2, Whereabouts
  <2>3. QED
    BY <1>1, <2>1, <2>2 DEF OnTheWay
<1>3. CASE hop[r] # Len(Way(r))
  <2>1. r \in GiftAdds /\ hop[r] \in {1, 2} /\ r \notin PlainAdds
    <3>1. r \notin PlainAdds
      BY <1>1, <1>3, Whereabouts DEF OnTheWay
    <3>2. r \in GiftAdds
      BY <3>1, Kinds
    <3>3. hop[r] \in 1..3 /\ hop[r] # 3
      BY <1>1, <1>3, <3>2, Whereabouts DEF OnTheWay
    <3>4. QED
      BY <3>1, <3>2, <3>3
  <2>2. PICK s : s = FirstStage(r, hop[r] + 1)
    OBVIOUS
  <2>3. s = IF hop[r] + 1 < 3 THEN "find" ELSE "id"
    BY <1>1, <2>1, <2>2 DEF FirstStage
  <2>4. stage' = [stage EXCEPT ![r] = s] /\ hop' = [hop EXCEPT ![r] = @ + 1]
    BY <1>3, <2>2 DEF Onward, Go
  <2>5. QED
    BY <1>1, <2>1, <2>3, <2>4 DEF OnTheWay
<1>4. QED
  BY <1>2, <1>3

LEMMA ShapeStays ==
  ASSUME Shape, IdsAreUnique, CopiesAreOfDocuments, [Next]_vars
  PROVE  Shape'
<1>1. /\ DOMAIN docs' = Collections
      /\ \A c \in Collections : \A d \in docs'[c] : IsDocument(d)
  BY StepsEvolve
<1>2. SUFFICES /\ OnTheWay' /\ DOMAIN newId' = Adds /\ DOMAIN refs' = GiftAdds
               /\ DOMAIN copy' = Changes /\ DOMAIN overtaken' = Deletes
               /\ \A r \in Changes : IsDocument(copy'[r])
               /\ \A r \in GiftAdds : DOMAIN refs'[r] = References
  BY <1>1 DEF Shape, OnTheWay, IsDocument
<1>3. OnTheWay
  BY DEF Shape, OnTheWay
<1>4. CASE UNCHANGED vars
  BY <1>3, <1>4 DEF vars, Shape, OnTheWay, IsDocument
<1>5. ASSUME NEW r \in GiftAdds, Find(r)
      PROVE  /\ OnTheWay' /\ UNCHANGED <<newId, copy, overtaken>> /\ DOMAIN refs' = GiftAdds
             /\ \A q \in GiftAdds : DOMAIN refs'[q] = References
  <2>1. UNCHANGED <<newId, copy, overtaken>> /\ stage[r] = "find" /\ r \in Adds
    BY <1>5, Kinds DEF Find
  <2>2. CASE \E d : refs' = [refs EXCEPT ![r][Here(r)] = d.id] /\ Onward(r)
    <3>1. OnTheWay'
      BY <2>1, <2>2, OnwardStays
    <3>2. QED
      BY <2>1, <2>2, <3>1 DEF Shape
  <2>3. CASE Go(r, "id") /\ UNCHANGED <<refs, hop>>
    BY <1>3, <2>1, <2>3, Kinds DEF Go, Shape, OnTheWay
  <2>4. QED
    BY <1>5, <2>1, <2>2, <2>3 DEF Find
<1>6. ASSUME NEW r \in Adds, ChooseId(r)
      PROVE  OnTheWay' /\ UNCHANGED <<refs, copy, overtaken>> /\ DOMAIN newId' = Adds
  BY <1>3, <1>6, Kinds DEF ChooseId, Go, OnTheWay, Shape
<1>7. ASSUME NEW r \in Adds, Insert(r)
      PROVE  /\ OnTheWay' /\ UNCHANGED <<newId, copy, overtaken>> /\ DOMAIN refs' = GiftAdds
             /\ \A q \in GiftAdds : DOMAIN refs'[q] = References
  <2>1. UNCHANGED <<newId, copy, overtaken>>
    BY <1>7 DEF Insert
  <2>2. CASE Taken(r)
    BY <1>3, <1>7, <2>1, <2>2, Kinds DEF Insert, Go, OnTheWay, Shape
  <2>3. CASE ~Taken(r)
    <3>1. Onward(r) /\ (UNCHANGED refs \/ refs' = [refs EXCEPT ![r][Here(r)] = newId[r]])
      BY <1>7, <2>3 DEF Insert
    <3>2. OnTheWay'
      BY <3>1, OnwardStays
    <3>3. QED
      BY <2>1, <3>1, <3>2 DEF Shape
  <2>4. QED
    BY <2>2, <2>3
<1>8. ASSUME NEW r \in Changes, Read(r)
      PROVE  /\ OnTheWay' /\ UNCHANGED <<newId, refs, overtaken>> /\ DOMAIN copy' = Changes
             /\ \A q \in Changes : IsDocument(copy'[q])
  <2>1. UNCHANGED <<hop, newId, refs, overtaken>> /\ stage[r] = "read"
    BY <1>8 DEF Read
  <2>2. CASE Go(r, "none") /\ UNCHANGED copy
    BY <1>3, <2>1, <2>2, Kinds DEF Go, Shape, OnTheWay, IsDocument
  <2>3. CASE \E d \in Live(Place[r]) : copy' = [copy EXCEPT ![r] = d] /\ Go(r, "replace")
    <3>1. PICK d \in Live(Place[r]) : copy' = [copy EXCEPT ![r] = d] /\ Go(r, "replace")
      BY <2>3
    <3>2. IsDocument(d)
      BY CatalogAssumption DEF Changes, Live, Shape
    <3>3. OnTheWay'
      BY <1>3, <2>1, <3>1, Kinds DEF Go, OnTheWay
    <3>4. QED
      BY <2>1, <3>1, <3>2, <3>3 DEF Shape, IsDocument
  <2>4. QED
    BY <1>8, <2>2, <2>3 DEF Read
<1>9. ASSUME NEW r \in Changes, Replace(r)
      PROVE  OnTheWay' /\ UNCHANGED <<newId, refs, copy>> /\ DOMAIN overtaken' = Deletes
  BY <1>3, <1>9, Kinds DEF Replace, Go, OnTheWay
<1>10. ASSUME (\E r \in Requests : Throws(r)) \/ Crash
       PROVE  OnTheWay' /\ UNCHANGED <<newId, refs, copy, overtaken>>
  BY <1>3, <1>10, Kinds DEF Throws, Go, Crash, OnTheWay
<1>11. QED
  BY <1>4, <1>5, <1>6, <1>7, <1>8, <1>9, <1>10 DEF Next, Shape, IsDocument

LEMMA CopiesStay ==
  ASSUME Shape, IdsAreUnique, CopiesAreOfDocuments, [Next]_vars
  PROVE  CopiesAreOfDocuments'
<1>1. Evolves /\ Copies /\ AnswersStand
  BY StepsEvolve, StepsWrite
<1>2. ASSUME NEW r \in Changes, stage'[r] = "replace"
      PROVE  /\ copy'[r].id = Target[r]
             /\ \E d \in docs'[Place[r]] :
                  Same(d, copy'[r]) /\ (d.name = copy'[r].name \/ Renamed(Place[r], Target[r])')
  <2>1. Place[r] \in Collections
    BY CatalogAssumption DEF Changes
  <2>2. CASE UNCHANGED docs /\ copy'[r] \in Live(Place[r]) /\ copy'[r].id = Target[r]
    BY <2>1, <2>2 DEF Live, Same
  <2>3. CASE stage[r] = "replace" /\ copy'[r] = copy[r]
    <3>1. PICK d \in docs[Place[r]] :
            /\ Same(d, copy[r]) /\ copy[r].id = Target[r]
            /\ d.name = copy[r].name \/ Renamed(Place[r], Target[r])
      BY <2>3 DEF CopiesAreOfDocuments
    <3>2. PICK e \in docs'[Place[r]] :
            Same(d, e) /\ (e.name = d.name \/ Renamed(Place[r], d.id)')
      BY <1>1, <2>1 DEF Evolves
    <3>3. Renamed(Place[r], Target[r]) => Renamed(Place[r], Target[r])'
      BY <1>1 DEF Renamed, AnswersStand, AtRest, Requests, Changes
    <3>4. d.id = Target[r] /\ Same(e, copy[r])
      BY <3>1, <3>2 DEF Same
    <3>5. e.name = copy[r].name \/ Renamed(Place[r], Target[r])'
      BY <3>1, <3>2, <3>3, <3>4
    <3>6. QED
      BY <2>3, <3>1, <3>4, <3>5
  <2>4. QED
    BY <1>1, <1>2, <2>2, <2>3 DEF Copies
<1>3. QED
  BY <1>2 DEF CopiesAreOfDocuments, Same

LEMMA ReferencesStay ==
  ASSUME Shape, IdsAreUnique, CopiesAreOfDocuments, ReferencesAreFiled, [Next]_vars
  PROVE  ReferencesAreFiled'
<1>1. Evolves /\ AnswersStand
  BY StepsEvolve, StepsWrite
<1>2. References \subseteq Collections /\ GiftAdds \subseteq Adds
  BY DEF References, Collections, Adds
\* A request that stays where it is keeps what it has.
<1>3. ASSUME NEW q \in GiftAdds, NEW c \in References, Passed(q, c), refs'[q][c] = refs[q][c]
      PROVE  Filed(c, refs[q][c], Wanted[q][c])'
  <2>1. PICK id, name : id = refs[q][c] /\ name = Wanted[q][c]
    OBVIOUS
  <2>2. Filed(c, id, name)'
    <3>1. Filed(c, id, name)
      BY <1>3, <2>1 DEF ReferencesAreFiled
    <3>2. QED
      BY <1>1, <1>2, <3>1, FiledStays
  <2>3. QED
    BY <1>3, <2>1, <2>2 DEF Filed
<1>4. CASE UNCHANGED <<hop, refs>>
  BY <1>3, <1>4 DEF ReferencesAreFiled, Passed
\* One that goes on has just found or made the document its reference names.
<1>5. ASSUME NEW r \in GiftAdds, Onward(r), hop[r] < 3, NEW d \in docs'[Here(r)],
             d.name = Wanted[r][Here(r)], refs' = [refs EXCEPT ![r][Here(r)] = d.id]
      PROVE  ReferencesAreFiled'
  <2>1. ASSUME NEW q \in GiftAdds, NEW c \in References, Passed(q, c)'
        PROVE  Filed(c, refs[q][c], Wanted[q][c])'
    <3>1. DOMAIN refs = GiftAdds /\ DOMAIN refs[r] = References
      BY DEF Shape
    <3>2. CASE q # r
      <4>1. Passed(q, c) /\ refs'[q][c] = refs[q][c]
        BY <1>2, <1>5, <2>1, <3>1, <3>2, OnwardStays DEF Passed
      <4>2. QED
        BY <1>3, <4>1
    <3>3. CASE q = r /\ c # Here(r)
      <4>1. hop'[r] = hop[r] + 1 /\ hop[r] \in {1, 2}
        BY <1>2, <1>5, OnwardStays DEF Shape
      <4>2. Passed(r, c)
        BY <2>1, <3>3, <4>1, Whereabouts DEF Passed, References
      <4>3. refs'[r][c] = refs[r][c]
        BY <1>5, <3>1, <3>3
      <4>4. QED
        BY <1>3, <3>3, <4>2, <4>3
    <3>4. CASE q = r /\ c = Here(r)
      <4>1. refs'[r][c] = d.id
        BY <1>5, <2>1, <3>1, <3>4
      <4>2. QED
        BY <1>5, <3>4, <4>1 DEF Filed
    <3>5. QED
      BY <3>2, <3>3, <3>4
  <2>2. QED
    BY <2>1 DEF ReferencesAreFiled
<1>6. ASSUME NEW r \in GiftAdds, Find(r)
      PROVE  ReferencesAreFiled'
  <2>1. CASE UNCHANGED <<refs, hop>>
    BY <1>4, <2>1
  <2>2. CASE \E d \in Live(Here(r)) : /\ d.name = Wanted[r][Here(r)] /\ Onward(r)
                                      /\ refs' = [refs EXCEPT ![r][Here(r)] = d.id]
    <3>1. UNCHANGED docs /\ hop[r] < 3
      BY <1>6 DEF Find, Shape
    <3>2. QED
      BY <1>5, <2>2, <3>1 DEF Live
  <2>3. QED
    BY <1>6, <2>1, <2>2 DEF Find
<1>7. ASSUME NEW r \in Adds, Insert(r)
      PROVE  ReferencesAreFiled'
  <2>1. CASE Taken(r)
    BY <1>4, <1>7, <2>1 DEF Insert
  <2>2. CASE ~Taken(r) /\ r \in PlainAdds
    <3>1. UNCHANGED refs /\ Onward(r) /\ r \notin GiftAdds
      BY <1>7, <2>2, Kinds DEF Insert
    <3>2. \A q \in GiftAdds : hop'[q] = hop[q]
      BY <1>2, <3>1, OnwardStays
    <3>3. QED
      BY <1>3, <3>1, <3>2 DEF ReferencesAreFiled, Passed
  <2>3. CASE ~Taken(r) /\ r \in GiftAdds
    <3>1. Onward(r) /\ Inserts(r) /\ hop[r] \in 1..3
      BY <1>7, <2>3 DEF Insert, Inserts, Shape
    <3>2. CASE hop[r] = 3
      <4>1. Here(r) = "gifts" /\ UNCHANGED refs
        BY <1>7, <2>3, <3>2, Whereabouts DEF Insert
      <4>2. \A q \in GiftAdds : hop'[q] = hop[q]
        BY <1>2, <2>3, <3>1, <3>2, OnwardStays
      <4>3. QED
        BY <1>3, <4>1, <4>2 DEF ReferencesAreFiled, Passed
    <3>3. CASE hop[r] < 3
      <4>1. Here(r) # "gifts" /\ refs' = [refs EXCEPT ![r][Here(r)] = newId[r]]
        BY <1>7, <2>3, <3>1, <3>3, Whereabouts DEF Insert
      <4>2. PICK d \in docs'[Here(r)] : d.id = newId[r] /\ d.name = Wanted[r][Here(r)]
        BY <3>1, <1>7, InsertLeaves
      <4>3. QED
        BY <1>5, <2>3, <3>1, <3>3, <4>1, <4>2
    <3>4. QED
      BY <3>1, <3>2, <3>3
  <2>4. QED
    BY <2>1, <2>2, <2>3, Kinds
<1>8. CASE UNCHANGED vars
  BY <1>4, <1>8 DEF vars
<1>9. ASSUME NEW r \in Requests,
             \/ r \in Adds /\ ChooseId(r)
             \/ r \in Changes /\ (Read(r) \/ Replace(r))
             \/ Throws(r)
      PROVE  ReferencesAreFiled'
  BY <1>4, <1>9 DEF ChooseId, Read, Replace, Throws
<1>10. CASE Crash
  BY <1>4, <1>10 DEF Crash
<1>11. QED
  BY <1>6, <1>7, <1>8, <1>9, <1>10, Kinds DEF Next

LEMMA GiftsStayFiled ==
  ASSUME Shape, IdsAreUnique, CopiesAreOfDocuments, ReferencesAreFiled, GiftsAreFiled,
         [Next]_vars
  PROVE  GiftsAreFiled'
<1>1. Writes /\ Evolves /\ AnswersStand
  BY StepsEvolve, StepsWrite
<1>2. \A c \in References : \A id, name : Filed(c, id, name) => Filed(c, id, name)'
  BY <1>1, FiledStays DEF References, Collections
<1>3. ASSUME NEW g \in docs["gifts"], NEW h, Same(g, h), h.by \in GiftAdds, NEW c \in References
      PROVE  Filed(c, h.refs[c], Wanted[h.by][c])'
  BY <1>2, <1>3 DEF GiftsAreFiled, Same
<1>4. CASE UNCHANGED docs
  BY <1>3, <1>4 DEF GiftsAreFiled, Same
<1>5. CASE \E r \in Adds : Inserts(r)
  <2>1. PICK r \in Adds : Inserts(r)
    BY <1>5
  <2>2. CASE Here(r) # "gifts"
    <3>1. docs'["gifts"] = docs["gifts"]
      BY <2>1, <2>2, InsertsEvolve DEF Inserts, Collections
    <3>2. QED
      BY <1>3, <3>1 DEF GiftsAreFiled, Same
  <2>3. CASE Here(r) = "gifts"
    <3>1. docs'["gifts"] = docs["gifts"] \cup {NewDocument(r)}
      BY <2>1, <2>3, InsertsEvolve DEF Inserts
    <3>2. PICK x : x = NewDocument(r)
      OBVIOUS
    <3>3. x.by = r /\ x.refs = refs[r]
      BY <2>3, <3>2 DEF NewDocument
    <3>4. r \in GiftAdds /\ hop[r] = 3
      BY <2>3, Whereabouts, Kinds DEF References, Shape
    <3>5. ASSUME NEW c \in References
          PROVE  Filed(c, x.refs[c], Wanted[x.by][c])'
      <4>1. Filed(c, x.refs[c], Wanted[r][c])
        BY <3>3, <3>4 DEF ReferencesAreFiled, Passed
      <4>2. QED
        BY <1>2, <3>3, <4>1
    <3>6. QED
      BY <1>3, <3>1, <3>2, <3>5 DEF GiftsAreFiled, Same
  <2>4. QED
    BY <2>2, <2>3
<1>6. CASE \E r \in Changes : Replaces(r)
  <2>1. PICK r \in Changes : Replaces(r)
    BY <1>6
  <2>2. CASE Place[r] # "gifts"
    <3>1. docs'["gifts"] = docs["gifts"]
      BY <1>1, <2>1, <2>2, ReplacesEvolve DEF Replaces, Collections
    <3>2. QED
      BY <1>3, <3>1 DEF GiftsAreFiled, Same
  <2>3. CASE Place[r] = "gifts"
    <3>1. docs'["gifts"] = {e \in docs["gifts"] : e.id # Target[r]} \cup {Changed(r)}
      BY <1>1, <2>1, <2>3, ReplacesEvolve DEF Replaces
    <3>2. PICK x : x = Changed(r)
      OBVIOUS
    <3>3. Same(copy[r], x)
      BY <3>2 DEF Changed, Same, Shape, IsDocument
    <3>4. PICK d \in docs["gifts"] : Same(d, copy[r])
      BY <2>1, <2>3 DEF CopiesAreOfDocuments, Replaces
    <3>5. Same(d, x)
      BY <3>3, <3>4 DEF Same
    <3>6. QED
      BY <1>3, <3>1, <3>2, <3>5 DEF GiftsAreFiled, Same
  <2>4. QED
    BY <2>2, <2>3
<1>7. QED
  BY <1>1, <1>4, <1>5, <1>6 DEF Writes

LEMMA GiftsStayThere ==
  ASSUME Shape, IdsAreUnique, CopiesAreOfDocuments, GiftsAreThere, [Next]_vars
  PROVE  GiftsAreThere'
<1>1. Evolves
  BY StepsEvolve
<1>2. ASSUME NEW q \in GiftAdds, stage[q] = "ok"
      PROVE  \E g \in docs'["gifts"] : g.by = q
  BY <1>1, <1>2 DEF GiftsAreThere, Evolves, Same, Collections
<1>3. SUFFICES ASSUME NEW q \in GiftAdds, stage'[q] = "ok", stage[q] # "ok"
               PROVE  \E g \in docs'["gifts"] : g.by = q
  BY <1>2 DEF GiftsAreThere
<1>4. DOMAIN stage = Requests /\ q \in Requests /\ q \in Adds /\ q \notin Changes
  BY Kinds DEF Shape
<1>5. ASSUME NEW r \in Adds, Onward(r)
      PROVE  r = q /\ hop[q] = 3
  <2>1. r = q
    BY <1>3, <1>4, <1>5, OnwardStays
  <2>2. QED
    BY <1>3, <1>5, <2>1, OnwardStays DEF Shape
<1>6. ASSUME NEW r \in GiftAdds, Find(r)
      PROVE  FALSE
  <2>1. CASE Onward(r)
    <3>1. r = q /\ hop[q] = 3
      BY <1>5, <2>1, Kinds
    <3>2. QED
      BY <1>6, <3>1 DEF Find, Shape
  <2>2. CASE Go(r, "id")
    BY <1>3, <1>4, <2>2 DEF Go
  <2>3. QED
    BY <1>6, <2>1, <2>2 DEF Find
<1>7. ASSUME NEW r \in Adds, Insert(r)
      PROVE  \E g \in docs'["gifts"] : g.by = q
  <2>1. CASE Taken(r)
    BY <1>3, <1>4, <1>7, <2>1 DEF Insert, Go
  <2>2. CASE ~Taken(r)
    <3>1. Onward(r) /\ Inserts(r)
      BY <1>7, <2>2 DEF Insert, Inserts
    <3>2. r = q /\ Here(r) = "gifts"
      BY <1>5, <3>1, Whereabouts
    <3>3. QED
      BY <3>1, <3>2, InsertLeaves
  <2>3. QED
    BY <2>1, <2>2
<1>8. ASSUME \/ UNCHANGED vars
             \/ \E r \in Adds : ChooseId(r)
             \/ \E r \in Changes : Read(r) \/ Replace(r)
             \/ \E r \in Requests : Throws(r)
             \/ Crash
      PROVE  FALSE
  BY <1>3, <1>4, <1>8 DEF vars, ChooseId, Read, Replace, Throws, Crash, Go
<1>9. QED
  BY <1>6, <1>7, <1>8 DEF Next

\* A buried document stays buried or is revived by an update that was overtaken.
LEMMA BuriedStay ==
  ASSUME Shape, IdsAreUnique, CopiesAreOfDocuments, DeletesLast, [Next]_vars,
         NEW r \in Deletes, Buried(r), overtaken'[r] = overtaken[r]
  PROVE  Buried(r)' \/ Revived(r)'
<1>1. Writes /\ AnswersStand /\ Copies
  BY StepsWrite
<1>2. Place[r] \in Collections /\ r \in Changes
  BY CatalogAssumption, Kinds
\* Nobody reads what is buried.
<1>3. \A u \in Updates : Place[u] = Place[r] /\ Target[u] = Target[r] /\ stage'[u] = "replace"
        => u \in overtaken'[r]
  BY <1>1, Kinds DEF Copies, Buried, Live
<1>4. CASE UNCHANGED docs
  BY <1>3, <1>4 DEF Buried
<1>5. CASE \E q \in Adds : Inserts(q)
  <2>1. PICK q \in Adds : Inserts(q)
    BY <1>5
  <2>2. PICK c, x : c = Here(q) /\ x = NewDocument(q)
    OBVIOUS
  <2>3. /\ docs'[c] = docs[c] \cup {x} /\ x.id \notin Ids(c)
        /\ \A k \in Collections \ {c} : docs'[k] = docs[k]
    BY <2>1, <2>2, InsertsEvolve DEF Inserts, Taken, NewDocument
  <2>4. docs'[Place[r]] = docs[Place[r]] \/ (c = Place[r] /\ x.id # Target[r])
    BY <1>2, <2>3 DEF Buried, Ids
  <2>5. QED
    BY <1>3, <2>3, <2>4 DEF Buried
<1>6. CASE \E q \in Changes : Replaces(q)
  <2>1. PICK q \in Changes : Replaces(q)
    BY <1>6
  <2>2. PICK x : x = Changed(q)
    OBVIOUS
  <2>3. /\ docs'[Place[q]] = {e \in docs[Place[q]] : e.id # Target[q]} \cup {x}
        /\ x.id = Target[q]
        /\ \A k \in Collections \ {Place[q]} : docs'[k] = docs[k]
    BY <1>1, <2>1, <2>2, ReplacesEvolve DEF Replaces
  <2>4. CASE Place[q] # Place[r] \/ Target[q] # Target[r]
    BY <1>2, <1>3, <2>3, <2>4 DEF Buried
  <2>5. CASE Place[q] = Place[r] /\ Target[q] = Target[r] /\ q \in Deletes
    <3>1. x.deleted
      BY <2>2, <2>5 DEF Changed, Shape, IsDocument
    <3>2. QED
      BY <1>3, <2>3, <2>5, <3>1 DEF Buried
  <2>6. CASE Place[q] = Place[r] /\ Target[q] = Target[r] /\ q \in Updates
    <3>1. q \in overtaken'[r] /\ stage'[q] \in {"ok", "error"}
      BY <2>1, <2>6 DEF Buried, Replaces
    <3>2. QED
      BY <3>1 DEF Revived
  <2>7. QED
    BY <2>4, <2>5, <2>6, Kinds
<1>7. QED
  BY <1>1, <1>4, <1>5, <1>6 DEF Writes

LEMMA DeletesStayLast ==
  ASSUME Shape, IdsAreUnique, CopiesAreOfDocuments, DeletesLast, [Next]_vars
  PROVE  DeletesLast'
<1>1. AnswersStand /\ DOMAIN stage = Requests /\ DOMAIN overtaken = Deletes
  BY StepsWrite DEF Shape
\* A delete that was answered before the step.
<1>2. ASSUME NEW r \in Deletes, stage[r] = "ok", overtaken'[r] = overtaken[r]
      PROVE  Buried(r)' \/ Revived(r)'
  <2>1. CASE Buried(r)
    BY <1>2, <2>1, BuriedStay
  <2>2. CASE Revived(r)
    <3>1. overtaken[r] \subseteq Requests
      BY Kinds DEF DeletesLast
    <3>2. QED
      BY <1>1, <1>2, <2>2, <3>1 DEF Revived, AnswersStand, AtRest
  <2>3. QED
    BY <1>2, <2>1, <2>2 DEF DeletesLast
\* The step that answers one.
<1>3. ASSUME NEW q \in Changes, Replace(q)
      PROVE  DeletesLast'
  <2>1. /\ stage[q] = "replace" /\ stage' = [stage EXCEPT ![q] = "ok"]
        /\ docs' = With(Place[q], Changed(q)) /\ q \in Requests
        /\ overtaken' = [d \in Deletes |-> IF d = q THEN HalfDone(q) ELSE overtaken[d]]
    BY <1>3, Kinds DEF Replace, Go
  <2>2. ASSUME NEW r \in Deletes, r # q
        PROVE  /\ overtaken'[r] \subseteq Updates
               /\ stage'[r] = "ok" => Buried(r)' \/ Revived(r)'
    <3>1. overtaken'[r] = overtaken[r] /\ stage'[r] = stage[r]
      BY <1>1, <2>1, <2>2
    <3>2. QED
      BY <1>2, <2>2, <3>1 DEF DeletesLast
  <2>3. ASSUME q \in Deletes
        PROVE  overtaken'[q] \subseteq Updates /\ Buried(q)'
    <3>1. PICK x : x = Changed(q)
      OBVIOUS
    <3>2. x.deleted
      BY <2>3, <3>1 DEF Changed, Shape, IsDocument
    <3>3. /\ docs'[Place[q]] = {e \in docs[Place[q]] : e.id # Target[q]} \cup {x}
          /\ x.id = Target[q]
      BY <1>1, <2>1, <3>1, ReplacesEvolve
    <3>4. overtaken'[q] = HalfDone(q) /\ HalfDone(q) \subseteq Updates
      BY <2>1, <2>3 DEF HalfDone
    <3>5. \A u \in Updates : stage'[u] = "replace" => stage[u] = "replace"
      BY <1>1, <2>1
    <3>6. \A u \in Updates :
            Place[u] = Place[q] /\ Target[u] = Target[q] /\ stage'[u] = "replace"
              => u \in overtaken'[q]
      BY <3>4, <3>5 DEF HalfDone
    <3>7. QED
      BY <3>2, <3>3, <3>4, <3>6 DEF Buried
  <2>4. QED
    BY <2>2, <2>3 DEF DeletesLast
\* No other step answers a delete.
<1>4. ASSUME UNCHANGED overtaken, \A r \in Deletes : stage'[r] = "ok" => stage[r] = "ok"
      PROVE  DeletesLast'
  BY <1>2, <1>4 DEF DeletesLast
<1>5. ASSUME NEW r \in Adds, Find(r) \/ ChooseId(r) \/ Insert(r)
      PROVE  DeletesLast'
  <2>1. UNCHANGED overtaken /\ \E s : Go(r, s)
    BY <1>5 DEF Find, ChooseId, Insert, Onward
  <2>2. QED
    BY <1>1, <1>4, <2>1, Kinds DEF Go
<1>6. ASSUME NEW r \in Changes, Read(r)
      PROVE  DeletesLast'
  BY <1>1, <1>4, <1>6, Kinds DEF Read, Go
<1>7. ASSUME UNCHANGED vars \/ (\E r \in Requests : Throws(r)) \/ Crash
      PROVE  DeletesLast'
  BY <1>1, <1>4, <1>7, Kinds DEF vars, Throws, Crash, Go
<1>8. QED
  BY <1>3, <1>5, <1>6, <1>7, Kinds DEF Next

-----------------------------------------------------------------------------
(* The theorems.                                                           *)

LEMMA CataloguedInitially == Init => Catalogued
<1> SUFFICES ASSUME Init PROVE Catalogued
  OBVIOUS
<1>1. ASSUME NEW c \in Collections, NEW d \in docs[c]
      PROVE  d = Remains
  BY <1>1 DEF Init
<1>2. IsDocument(Remains) /\ Remains.by \notin GiftAdds
  BY CatalogAssumption DEF Remains, IsDocument, Adds
<1>3. \A r \in Requests : /\ stage[r] \in {"find", "id", "read"}
                          /\ r \in Changes => stage[r] = "read"
                          /\ r \in Adds => stage[r] \in {"find", "id"}
  BY Kinds DEF Init, FirstStage
<1>4. Shape
  <2>1. DOMAIN NoRefs = References
    BY DEF NoRefs, References
  <2>2. DOMAIN docs = Collections
    BY DEF Init
  <2>3. /\ DOMAIN stage = Requests /\ DOMAIN hop = Adds /\ DOMAIN newId = Adds
        /\ DOMAIN refs = GiftAdds /\ DOMAIN copy = Changes /\ DOMAIN overtaken = Deletes
        /\ \A r \in Adds : hop[r] = 1
        /\ \A r \in GiftAdds : refs[r] = NoRefs
        /\ \A r \in Changes : copy[r] = Remains
    BY DEF Init
  <2>4. QED
    BY <1>1, <1>2, <1>3, <2>1, <2>2, <2>3, Kinds DEF Shape
<1>5. IdsAreUnique
  BY <1>1 DEF IdsAreUnique
<1>6. CopiesAreOfDocuments /\ GiftsAreThere /\ DeletesLast
  BY <1>3, Kinds DEF Init, CopiesAreOfDocuments, GiftsAreThere, DeletesLast
<1>7. ReferencesAreFiled
  BY Kinds DEF Init, ReferencesAreFiled, Passed
<1>8. GiftsAreFiled
  BY <1>1, <1>2 DEF GiftsAreFiled, Collections
<1>9. QED
  BY <1>4, <1>5, <1>6, <1>7, <1>8 DEF Catalogued

LEMMA CataloguedAlways == Spec => []Catalogued
<1>1. ASSUME Catalogued, [Next]_vars
      PROVE  Catalogued'
  BY <1>1, ShapeStays, StepsEvolve, CopiesStay, ReferencesStay, GiftsStayFiled, GiftsStayThere,
     DeletesStayLast DEF Catalogued
<1>2. QED
  BY <1>1, CataloguedInitially, PTL DEF Spec

\* A gift is filed under the category and donor that were asked for, or an update has
\* renamed them, for any requests: GiftService.AddAsync over GetNextIdAsync.
THEOREM GiftsAreAlwaysFiled == Spec => []GiftsAreFiledAsAsked
<1>1. Catalogued => GiftsAreFiledAsAsked
  BY DEF Catalogued, GiftsAreFiled, GiftsAreFiledAsAsked, References, Filed, Renamed
<1>2. QED
  BY <1>1, CataloguedAlways, PTL

\* An add that was answered with success has its gift in the collection, under an id no
\* other document has: InsertOneAsync refuses the second of two equal ids.
THEOREM AddsAreThere == Spec => []AddedGiftsExist
<1>1. Catalogued => AddedGiftsExist
  BY DEF Catalogued, GiftsAreThere, IdsAreUnique, AddedGiftsExist, Collections
<1>2. QED
  BY <1>1, CataloguedAlways, PTL

\* A deleted document comes back only through an update that had read it before and
\* wrote it after: DeleteAsync and UpdateAsync write whole documents back.
THEOREM DeletesHold == Spec => []DeletedComesBackOnlyByUpdate
<1>1. Catalogued => DeletedComesBackOnlyByUpdate
  BY DEF Catalogued, DeletesLast, Buried, Revived, DeletedComesBackOnlyByUpdate, Live
<1>2. QED
  BY <1>1, CataloguedAlways, PTL
-----------------------------------------------------------------------------
(* Some add succeeds.                                                      *)

\* A request that has put its document into a collection, or found one there: an answer
\* of success counts for every collection on the way.
Through(s, c) ==
  \/ stage[s] = "ok" /\ (s \in PlainAdds => Place[s] = c)
  \/ s \in GiftAdds /\ c # "gifts" /\ Passed(s, c)
Somebody(c) == \E s \in Adds : Through(s, c)

\* A collection has a largest id, so that the next one is free.
HasTop(c) == \E top \in Ids(c) \cup {0} : \A i \in Ids(c) : i <= top

\* As long as nothing has failed, whoever has lost the race for an id, or is about to,
\* has lost it to somebody who got past that collection.
Beaten(r) == stage[r] = "error" \/ (stage[r] = "insert" /\ Taken(r))
Prospers ==
  /\ failures \in Nat
  /\ \A c \in Collections : Ids(c) \subseteq Nat /\ HasTop(c)
  /\ \A r \in Adds : newId[r] \in Nat
  /\ failures = 0 => \A r \in Adds :
       /\ stage[r] \in {"find", "id", "insert", "ok", "error"}
       /\ Beaten(r) => Somebody(Here(r))

\* GetNextIdAsync returns an id that is free when it returns.
LEMMA NextIdIsFree ==
  ASSUME NEW c \in Collections, Ids(c) \subseteq Nat, HasTop(c)
  PROVE  NextId(c) \in Nat /\ NextId(c) \notin Ids(c)
<1>1. PICK S : S = Ids(c) \cup {0}
  OBVIOUS
<1>2. S \subseteq Nat
  BY <1>1
<1>3. \E x \in S : \A y \in S : x >= y
  BY <1>1, <1>2 DEF HasTop
<1>4. Max(S) \in S /\ \A y \in S : Max(S) >= y
  BY <1>3 DEF Max
<1>5. NextId(c) = Max(S) + 1
  BY <1>1 DEF NextId
<1>6. PICK m : m = Max(S)
  OBVIOUS
<1>7. m \in Nat /\ \A y \in S : m >= y
  BY <1>2, <1>4, <1>6
<1>8. NextId(c) = m + 1
  BY <1>5, <1>6
<1>9. m + 1 \notin S
  BY <1>2, <1>7
<1>10. QED
  BY <1>1, <1>7, <1>8, <1>9

\* Taking the next id leaves a collection with a largest one.
LEMMA TopStays ==
  ASSUME NEW c \in Collections, Ids(c) \subseteq Nat, HasTop(c), NEW n \in Nat,
         Ids(c)' = Ids(c) \cup {n}
  PROVE  (Ids(c) \subseteq Nat)' /\ HasTop(c)'
<1>1. PICK S, T : S = Ids(c) /\ T = Ids(c)'
  OBVIOUS
<1>2. PICK top \in S \cup {0} : \A i \in S : i <= top
  BY <1>1 DEF HasTop
<1>3. top \in Nat /\ T = S \cup {n} /\ S \subseteq Nat
  BY <1>1, <1>2
<1>4. \E t \in T \cup {0} : \A i \in T : i <= t
  <2>1. CASE n <= top
    BY <1>2, <1>3, <2>1
  <2>2. CASE ~(n <= top)
    BY <1>2, <1>3, <2>2
  <2>3. QED
    BY <2>1, <2>2
<1>5. QED
  BY <1>1, <1>3, <1>4 DEF HasTop

\* How a step moves an add, failures aside.
Moves(r) ==
  \/ stage'[r] = stage[r] /\ hop'[r] = hop[r] /\ newId'[r] = newId[r]
  \/ stage'[r] \in {"find", "id", "ok"} /\ newId'[r] = newId[r]
  \/ /\ stage'[r] = "insert" /\ newId'[r] = NextId(Here(r)) /\ hop'[r] = hop[r]
     /\ UNCHANGED docs
  \/ /\ stage[r] = "insert" /\ Taken(r) /\ stage'[r] = "error" /\ hop'[r] = hop[r]
     /\ newId'[r] = newId[r]

\* Nobody goes back.
Advances == \A r \in GiftAdds, c \in References : Passed(r, c) => Passed(r, c)'

\* What an insert without a failure means for the one who inserts.
Progress ==
  \A r \in Adds, c \in Collections : Inserts(r) /\ Here(r) = c => Through(r, c)'

\* What Onward does to the add and to the others.
LEMMA OnwardMoves ==
  ASSUME Shape, NEW r \in Adds, Onward(r)
  PROVE  /\ stage'[r] \in {"find", "id", "ok"}
         /\ \A q \in Adds \ {r} : stage'[q] = stage[q] /\ hop'[q] = hop[q]
         /\ hop[r] = Len(Way(r)) => stage'[r] = "ok"
         /\ r \in GiftAdds => hop'[r] \in {hop[r], hop[r] + 1}
         /\ r \in GiftAdds /\ hop[r] < 3 => hop'[r] = hop[r] + 1
<1>1. DOMAIN stage = Requests /\ DOMAIN hop = Adds /\ r \in Requests /\ Adds \subseteq Requests
  BY Kinds DEF Shape
<1>2. CASE hop[r] = Len(Way(r))
  <2>1. stage' = [stage EXCEPT ![r] = "ok"] /\ UNCHANGED hop
    BY <1>2 DEF Onward, Go
  <2>2. r \in GiftAdds => hop[r] = 3
    BY <1>2, Whereabouts
  <2>3. QED
    BY <1>1, <2>1, <2>2
<1>3. CASE hop[r] # Len(Way(r))
  <2>1. PICK s : s = FirstStage(r, hop[r] + 1)
    OBVIOUS
  <2>2. s \in {"find", "id"}
    BY <2>1, Kinds DEF FirstStage
  <2>3. stage' = [stage EXCEPT ![r] = s] /\ hop' = [hop EXCEPT ![r] = @ + 1]
    BY <1>3, <2>1 DEF Onward, Go
  <2>4. QED
    BY <1>1, <1>3, <2>2, <2>3
<1>4. QED
  BY <1>2, <1>3

\* An insert takes a free id, and a change none.
LEMMA InsertsTake ==
  ASSUME Shape, IdsAreUnique, NEW r \in Adds, Inserts(r), NEW c, c = Here(r)
  PROVE  /\ c \in Collections /\ newId[r] \notin Ids(c)
         /\ Ids(c)' = Ids(c) \cup {newId[r]}
         /\ \A k \in Collections \ {c} : Ids(k)' = Ids(k)
         /\ NewDocument(r) \in docs'[c]
<1>1. PICK x : x = NewDocument(r)
  OBVIOUS
<1>2. c \in Collections /\ x.id = newId[r]
  BY <1>1, Whereabouts DEF NewDocument
<1>3. docs'[c] = docs[c] \cup {x} /\ \A k \in Collections \ {c} : docs'[k] = docs[k]
  BY <1>1, InsertsEvolve DEF Inserts
<1>4. {d.id : d \in docs'[c]} = {d.id : d \in docs[c]} \cup {newId[r]}
  BY <1>2, <1>3
<1>5. newId[r] \notin Ids(c)
  BY DEF Inserts, Taken
<1>6. QED
  BY <1>1, <1>2, <1>3, <1>4, <1>5 DEF Ids

LEMMA ReplacesKeep ==
  ASSUME Shape, IdsAreUnique, CopiesAreOfDocuments, AnswersStand,
         NEW r \in Changes, Replaces(r)
  PROVE  \A c \in Collections : Ids(c)' = Ids(c)
<1>1. PICK c, x : c = Place[r] /\ x = Changed(r)
  OBVIOUS
<1>2. /\ x.id = Target[r]
      /\ docs'[c] = {e \in docs[c] : e.id # Target[r]} \cup {x}
      /\ \A k \in Collections \ {c} : docs'[k] = docs[k]
  BY <1>1, ReplacesEvolve DEF Replaces
<1>3. \E d \in docs[c] : d.id = Target[r]
  BY <1>1 DEF CopiesAreOfDocuments, Replaces, Same
<1>4. {d.id : d \in docs'[c]} = {d.id : d \in docs[c]}
  BY <1>2, <1>3
<1>5. QED
  BY <1>2, <1>4 DEF Ids

\* Without a failure every add moves on by its own steps only, and never back.
LEMMA StepsAdvance ==
  ASSUME Shape, IdsAreUnique, CopiesAreOfDocuments, Shape', [Next]_vars, failures \in Nat, failures' = 0
  PROVE  failures = 0 /\ Advances /\ Progress /\ \A r \in Adds : Moves(r)
<1>1. /\ DOMAIN stage = Requests /\ DOMAIN hop = Adds /\ DOMAIN newId = Adds
      /\ \A r \in Adds : stage[r] \notin {"read", "replace"}
  BY DEF Shape
<1>2. ASSUME \A r \in GiftAdds : hop'[r] \in {hop[r], hop[r] + 1}
      PROVE  Advances
  <2>1. \A r \in GiftAdds : hop[r] \in 1..3 /\ hop'[r] \in 1..3
    BY DEF Shape
  <2>2. QED
    BY <1>2, <2>1 DEF Advances, Passed
<1>3. ASSUME \A c \in Collections : Ids(c)' = Ids(c)
      PROVE  Progress
  BY <1>3, InsertsTake DEF Progress
<1>4. ASSUME UNCHANGED docs
      PROVE  Progress
  BY <1>4, <1>3 DEF Ids
<1>5. CASE UNCHANGED vars
  BY <1>2, <1>4, <1>5 DEF vars, Moves
<1>6. CASE \E r \in GiftAdds : Find(r)
  <2>1. PICK r \in GiftAdds : Find(r)
    BY <1>6
  <2>2. /\ r \in Adds /\ UNCHANGED <<docs, newId, failures>>
        /\ Onward(r) \/ (Go(r, "id") /\ UNCHANGED hop)
    BY <2>1, Kinds DEF Find, Smoothly
  <2>3. CASE Onward(r)
    <3>1. /\ stage'[r] \in {"find", "id", "ok"} /\ hop'[r] \in {hop[r], hop[r] + 1}
          /\ \A q \in Adds \ {r} : stage'[q] = stage[q] /\ hop'[q] = hop[q]
      BY <2>1, <2>2, <2>3, OnwardMoves
    <3>2. QED
      BY <1>2, <1>4, <2>2, <3>1, Kinds DEF Moves
  <2>4. CASE Go(r, "id") /\ UNCHANGED hop
    BY <1>1, <1>2, <1>4, <2>2, <2>4, Kinds DEF Moves, Go
  <2>5. QED
    BY <2>2, <2>3, <2>4
<1>7. CASE \E r \in Adds : ChooseId(r)
  <2>1. PICK r \in Adds : ChooseId(r)
    BY <1>7
  <2>2. UNCHANGED <<docs, hop, failures>>
    BY <2>1 DEF ChooseId, Smoothly
  <2>3. \A q \in Adds : Moves(q)
    BY <1>1, <2>1, <2>2, Kinds DEF ChooseId, Go, Moves
  <2>4. QED
    BY <1>2, <1>4, <2>2, <2>3, Kinds
<1>8. CASE \E r \in Adds : Insert(r)
  <2>1. PICK r \in Adds : Insert(r)
    BY <1>8
  <2>2. stage[r] = "insert" /\ UNCHANGED <<newId, failures>>
    BY <2>1 DEF Insert, Smoothly
  <2>3. CASE Taken(r)
    <3>1. Go(r, "error") /\ UNCHANGED <<docs, hop>>
      BY <2>1, <2>3 DEF Insert
    <3>2. \A q \in Adds : Moves(q)
      BY <1>1, <2>2, <2>3, <3>1, Kinds DEF Go, Moves
    <3>3. QED
      BY <1>2, <1>4, <2>2, <3>1, <3>2
  <2>4. CASE ~Taken(r)
    <3>1. Onward(r) /\ docs' = With(Here(r), NewDocument(r))
      BY <2>1, <2>4 DEF Insert
    <3>2. /\ stage'[r] \in {"find", "id", "ok"}
          /\ \A q \in Adds \ {r} : stage'[q] = stage[q] /\ hop'[q] = hop[q]
          /\ hop[r] = Len(Way(r)) => stage'[r] = "ok"
          /\ r \in GiftAdds => hop'[r] \in {hop[r], hop[r] + 1}
          /\ r \in GiftAdds /\ hop[r] < 3 => hop'[r] = hop[r] + 1
      BY <3>1, OnwardMoves
    <3>3. Advances /\ \A q \in Adds : Moves(q)
      BY <1>2, <2>2, <3>2, Kinds DEF Moves
    <3>4. ASSUME NEW q \in Adds, Inserts(q)
          PROVE  \A c \in Collections : Here(q) = c => Through(q, c)'
      <4>1. q = r
        <5>1. Inserts(r)
          BY <2>2, <2>4, <3>1 DEF Inserts
        <5>2. PICK x, y : x = NewDocument(q) /\ y = NewDocument(r)
          OBVIOUS
        <5>3. x.id = newId[q] /\ x.by = q /\ y.by = r
          BY <5>2 DEF NewDocument
        <5>4. /\ Here(q) \in Collections /\ x \in docs'[Here(q)]
              /\ newId[q] \notin {d.id : d \in docs[Here(q)]}
          BY <3>4, <5>2, InsertsTake DEF Ids
        <5>5. \A k \in Collections : docs'[k] \subseteq docs[k] \cup {y}
          BY <5>1, <5>2, InsertsEvolve DEF Inserts
        <5>6. x = y
          BY <5>3, <5>4, <5>5
        <5>7. QED
          BY <5>3, <5>6
      <4>2. SUFFICES ASSUME NEW c \in Collections, c = Here(r)
                     PROVE  Through(r, c)'
        BY <4>1
      <4>3. CASE r \in PlainAdds
        <5>1. stage'[r] = "ok" /\ Place[r] = c
          BY <3>2, <4>2, <4>3, Whereabouts DEF Shape
        <5>2. QED
          BY <4>2, <5>1, Kinds DEF Through
      <4>4. CASE r \in GiftAdds
        <5>1. hop[r] \in 1..3
          BY <4>4 DEF Shape
        <5>2. CASE hop[r] = 3
          BY <3>2, <4>2, <4>4, <5>2, Whereabouts, Kinds DEF Through
        <5>3. CASE hop[r] < 3
          BY <3>2, <4>2, <4>4, <5>1, <5>3, Whereabouts DEF Through, Passed
        <5>4. QED
          BY <5>1, <5>2, <5>3
      <4>5. QED
        BY <4>3, <4>4, Kinds
    <3>5. QED
      BY <2>2, <3>3, <3>4 DEF Progress
  <2>5. QED
    BY <2>3, <2>4
<1>9. CASE \E r \in Changes : Read(r) \/ Replace(r)
  <2>1. PICK r \in Changes : Read(r) \/ Replace(r)
    BY <1>9
  <2>2. UNCHANGED <<hop, newId, failures>> /\ (\E s : Go(r, s))
    BY <2>1 DEF Read, Replace, Smoothly
  <2>3. \A q \in Adds : stage'[q] = stage[q]
    BY <1>1, <2>2, Kinds DEF Go
  <2>4. CASE Read(r)
    BY <1>4, <1>2, <2>2, <2>3, <2>4 DEF Read, Moves
  <2>5. CASE Replace(r)
    <3>1. AnswersStand /\ Replaces(r)
      <4>1. AnswersStand
        BY StepsWrite
      <4>2. stage'[r] = "ok"
        BY <1>1, <2>5, Kinds DEF Replace, Go
      <4>3. QED
        BY <2>5, <4>1, <4>2 DEF Replace, Replaces
    <3>2. Progress
      BY <1>3, <3>1, ReplacesKeep
    <3>3. QED
      BY <1>2, <2>2, <2>3, <3>2 DEF Moves
  <2>6. QED
    BY <2>1, <2>4, <2>5
<1>10. CASE (\E r \in Requests : Throws(r)) \/ Crash
  BY <1>10 DEF Throws, Crash, Fails
<1>11. QED
  BY <1>5, <1>6, <1>7, <1>8, <1>9, <1>10 DEF Next

\* Every step keeps the race for ids fair.
LEMMA ProspersOn ==
  ASSUME Shape, IdsAreUnique, CopiesAreOfDocuments, Shape', Prospers, [Next]_vars
  PROVE  Prospers'
<1>1. Writes /\ AnswersStand
  BY StepsWrite
<1>2. failures' \in Nat
  BY DEF Prospers, Next, vars, Find, ChooseId, Insert, Read, Replace, Throws, Crash, Smoothly,
         Fails
<1>3. ASSUME NEW c \in Collections
      PROVE  (Ids(c) \subseteq Nat)' /\ HasTop(c)'
  <2>1. CASE Ids(c)' = Ids(c)
    BY <2>1 DEF Prospers, HasTop
  <2>2. CASE \E n \in Nat : Ids(c)' = Ids(c) \cup {n}
    BY <2>2, TopStays DEF Prospers
  <2>3. ASSUME NEW r \in Adds, Inserts(r)
        PROVE  \/ Ids(c)' = Ids(c)
               \/ \E n \in Nat : Ids(c)' = Ids(c) \cup {n}
    <3>1. PICK k : k = Here(r)
      OBVIOUS
    <3>2. QED
      BY <2>3, <3>1, InsertsTake DEF Prospers
  <2>4. ASSUME NEW r \in Changes, Replaces(r)
        PROVE  Ids(c)' = Ids(c)
    BY <1>1, <2>4, ReplacesKeep
  <2>5. QED
    BY <1>1, <2>1, <2>2, <2>3, <2>4 DEF Writes, Ids
<1>4. ASSUME NEW q \in Adds
      PROVE  newId'[q] \in Nat
  <2>1. CASE UNCHANGED newId
    BY <2>1 DEF Prospers
  <2>2. ASSUME NEW r \in Adds, ChooseId(r)
        PROVE  newId'[q] \in Nat
    <3>1. PICK n : n = NextId(Here(r))
      OBVIOUS
    <3>2. n \in Nat
      BY <3>1, NextIdIsFree, Whereabouts DEF Prospers
    <3>3. newId' = [newId EXCEPT ![r] = n]
      BY <2>2, <3>1 DEF ChooseId
    <3>4. QED
      BY <3>2, <3>3 DEF Prospers, Shape
  <2>3. QED
    BY <2>1, <2>2 DEF Next, vars, Find, Insert, Read, Replace, Throws, Crash
<1>5. ASSUME failures' = 0
      PROVE  \A r \in Adds : /\ stage'[r] \in {"find", "id", "insert", "ok", "error"}
                             /\ Beaten(r)' => Somebody(Here(r))'
  <2>1. failures = 0 /\ Advances /\ Progress /\ \A r \in Adds : Moves(r)
    BY <1>5, StepsAdvance DEF Prospers
  <2>2. SUFFICES ASSUME NEW q \in Adds
                 PROVE  /\ stage'[q] \in {"find", "id", "insert", "ok", "error"}
                        /\ Beaten(q)' => Somebody(Here(q))'
    OBVIOUS
  <2>3. /\ stage[q] \in {"find", "id", "insert", "ok", "error"}
        /\ Beaten(q) => Somebody(Here(q))
    BY <2>1 DEF Prospers
  <2>4. stage'[q] \in {"find", "id", "insert", "ok", "error"}
    BY <2>1, <2>3 DEF Moves
  <2>5. ASSUME NEW c \in Collections, Somebody(c)
        PROVE  Somebody(c)'
    <3>1. PICK s \in Adds : Through(s, c)
      BY <2>5 DEF Somebody
    <3>2. CASE stage[s] = "ok" /\ (s \in PlainAdds => Place[s] = c)
      BY <1>1, <3>2, Kinds DEF AnswersStand, AtRest, Through, Somebody
    <3>3. CASE s \in GiftAdds /\ c # "gifts" /\ Passed(s, c)
      BY <2>1, <3>1, <3>3 DEF Advances, References, Collections, Through, Somebody
    <3>4. QED
      BY <3>1, <3>2, <3>3 DEF Through
  <2>6. ASSUME Beaten(q)'
        PROVE  Somebody(Here(q))'
    <3>1. PICK c : c = Here(q)
      OBVIOUS
    <3>2. c \in Collections
      BY <3>1, Whereabouts
    <3>3. stage'[q] \in {"insert", "error"}
      BY <2>6 DEF Beaten
    <3>4. CASE stage'[q] = stage[q] /\ hop'[q] = hop[q] /\ newId'[q] = newId[q]
      <4>1. Here(q)' = c
        BY <3>1, <3>4 DEF Here, Way
      <4>2. CASE Beaten(q)
        BY <2>3, <2>5, <3>1, <3>2, <4>1, <4>2 DEF Somebody, Through, Passed
      <4>3. CASE ~Beaten(q)
        <5>1. stage[q] = "insert" /\ newId[q] \notin Ids(c) /\ newId[q] \in Ids(c)'
          BY <2>6, <3>1, <3>4, <4>1, <4>3 DEF Beaten, Taken, Ids
        <5>2. PICK r \in Adds : Inserts(r) /\ Here(r) = c
          <6>1. CASE UNCHANGED docs
            BY <5>1, <6>1 DEF Ids
          <6>2. ASSUME NEW r \in Changes, Replaces(r)
                PROVE  FALSE
            BY <1>1, <3>2, <5>1, <6>2, ReplacesKeep
          <6>3. ASSUME NEW r \in Adds, Inserts(r), Here(r) # c
                PROVE  FALSE
            <7>1. PICK k : k = Here(r)
              OBVIOUS
            <7>2. QED
              BY <3>2, <5>1, <6>3, <7>1, InsertsTake
          <6>4. QED
            BY <1>1, <6>1, <6>2, <6>3 DEF Writes
        <5>3. Through(r, c)'
          BY <2>1, <3>2, <5>2 DEF Progress
        <5>4. Somebody(c)'
          BY <5>3 DEF Somebody
        <5>5. QED
          BY <4>1, <5>4 DEF Somebody, Through, Passed
      <4>4. QED
        BY <4>2, <4>3
    <3>5. CASE /\ stage'[q] = "insert" /\ newId'[q] = NextId(Here(q)) /\ hop'[q] = hop[q]
               /\ UNCHANGED docs
      <4>1. Here(q)' = c
        BY <3>1, <3>5 DEF Here, Way
      <4>2. newId'[q] \notin Ids(c)
        BY <3>1, <3>2, <3>5, NextIdIsFree DEF Prospers
      <4>3. QED
        BY <2>6, <3>5, <4>1, <4>2 DEF Beaten, Taken, Ids
    <3>6. CASE /\ stage[q] = "insert" /\ Taken(q) /\ stage'[q] = "error" /\ hop'[q] = hop[q]
               /\ newId'[q] = newId[q]
      <4>1. Here(q)' = c
        BY <3>1, <3>6 DEF Here, Way
      <4>2. QED
        BY <2>3, <2>5, <3>1, <3>2, <3>6, <4>1 DEF Beaten, Somebody, Through, Passed
    <3>7. QED
      BY <2>1, <3>3, <3>4, <3>5, <3>6 DEF Moves
  <2>7. QED
    BY <2>4, <2>6
<1>6. QED
  BY <1>2, <1>3, <1>4, <1>5 DEF Prospers

LEMMA ProspersInitially == Init => Prospers
<1> SUFFICES ASSUME Init PROVE Prospers
  OBVIOUS
<1>1. \A r \in Adds : stage[r] \in {"find", "id"} /\ newId[r] = 0
  BY Kinds DEF Init, FirstStage
<1>2. ASSUME NEW c \in Collections
      PROVE  Ids(c) \subseteq Nat /\ HasTop(c)
  <2>1. docs[c] = {} \/ docs[c] = {Remains}
    BY DEF Init
  <2>2. Remains.id = 1
    BY DEF Remains
  <2>3. Ids(c) = {} \/ Ids(c) = {1}
    BY <2>1, <2>2 DEF Ids
  <2>4. QED
    BY <2>3 DEF HasTop
<1>3. QED
  BY <1>1, <1>2 DEF Init, Prospers, Beaten

\* When every add is over and nothing has failed, at least one has succeeded, however
\* many wanted the same ids: GetNextIdAsync and InsertOneAsync.  A loser lost to somebody
\* who got past that collection; follow the winners up to the gifts.
THEOREM SomebodyGetsThrough == Adds # {} => (Spec => []SomeAddSucceeds)
<1> SUFFICES ASSUME Adds # {} PROVE Spec => []SomeAddSucceeds
  OBVIOUS
<1>1. ASSUME Shape, Prospers
      PROVE  SomeAddSucceeds
  <2>1. SUFFICES ASSUME \A r \in Adds : stage[r] \in AtRest, failures = 0,
                        \A r \in Adds : stage[r] # "ok"
                 PROVE  FALSE
    BY DEF SomeAddSucceeds
  <2>2. \A r \in Adds : stage[r] = "error" /\ Somebody(Here(r))
    <3>1. ASSUME NEW r \in Adds
          PROVE  stage[r] = "error" /\ Somebody(Here(r))
      <4>1. /\ stage[r] \in {"find", "id", "insert", "ok", "error"}
            /\ Beaten(r) => Somebody(Here(r))
        BY <1>1, <2>1 DEF Prospers
      <4>2. stage[r] = "error"
        BY <2>1, <4>1 DEF AtRest
      <4>3. QED
        BY <4>1, <4>2 DEF Beaten
    <3>2. QED
      BY <3>1
  <2>3. \A c : Somebody(c) => c # "gifts" /\ \E s \in GiftAdds : Passed(s, c)
    BY <2>1 DEF Somebody, Through
  <2>4. ASSUME NEW s \in GiftAdds, hop[s] = 3
        PROVE  FALSE
    <3>1. Somebody(Here(s)) /\ Here(s) = "gifts"
      BY <1>1, <2>2, <2>4, Whereabouts, Kinds
    <3>2. QED
      BY <2>3, <3>1 DEF Somebody, Through
  <2>5. ASSUME NEW s \in GiftAdds, hop[s] = 2
        PROVE  FALSE
    <3>1. Somebody(Here(s)) /\ Here(s) = "donors"
      BY <1>1, <2>2, <2>5, Whereabouts, Kinds
    <3>2. PICK c : c = Here(s)
      OBVIOUS
    <3>3. Somebody(c) /\ c = "donors"
      BY <3>1, <3>2
    <3>4. PICK t \in GiftAdds : Passed(t, c)
      BY <2>3, <3>3
    <3>5. QED
      BY <2>4, <3>3, <3>4 DEF Passed
  <2>6. PICK r \in Adds : Somebody(Here(r))
    BY <2>2
  <2>7. QED
    BY <2>3, <2>4, <2>5, <2>6 DEF Passed
<1>2. ASSUME Catalogued, Catalogued', Prospers, [Next]_vars
      PROVE  Prospers'
  BY <1>2, ProspersOn DEF Catalogued
<1>3. Catalogued => Shape
  BY DEF Catalogued
<1>4. QED
  BY <1>1, <1>2, <1>3, CataloguedAlways, ProspersInitially, PTL DEF Spec
=============================================================================
