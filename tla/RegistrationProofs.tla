------------------------- MODULE RegistrationProofs -------------------------
(***************************************************************************)
(* What holds of Registration for any requests, spellings and addresses,   *)
(* and any number of faults and crashes.                                   *)
(*                                                                         *)
(* Accountable is the inductive invariant.  The unique index keeps one row *)
(* per address (OneRowEach), a request has a row from its save to its      *)
(* answer and none before (OwnRows), and a request still in progress has   *)
(* met no fault (Undisturbed): so an answered success owns the one row     *)
(* that a login reads, and an unexplained error owns none.                 *)
(***************************************************************************)
EXTENDS Registration, TLAPS

OneRowEach == \A u, v \in users : Address[u.by] = Address[v.by] => u = v

OwnRows ==
  \A r \in Requests :
    /\ step[r] \in {"verify", "registered"} => Row(r) \in users
    /\ step[r] \in {"new", "list", "save"} => \A u \in users : u.by # r

Undisturbed ==
  \A r \in Requests :
    /\ step[r] \in {"new"} \cup InProgress => r \notin faulted
    /\ step[r] \in {"save", "verify"} => r \in hashed

Accountable ==
  /\ RegistrationTypeOK
  /\ OneRowEach
  /\ OwnRows
  /\ Undisturbed
  /\ ErrorsAreTrue
  /\ RegistrationGivesNoToken

-----------------------------------------------------------------------------
(* Steps that change no row.                                               *)

LEMMA RowsHaveOwners ==
  ASSUME RegistrationTypeOK
  PROVE  \A u \in users : u.by \in Requests /\ u = Row(u.by)
  BY DEF RegistrationTypeOK, Row

\* A request moves on, and no row, hash or fault comes with it.
LEMMA MovingOnIsSafe ==
  ASSUME Accountable, NEW r \in Requests, NEW s \in {"new"} \cup InProgress \cup Answers,
         Goto(r, s), users' = users, hashed' = hashed, faulted' = faulted,
         faults' = faults, crashes' = crashes,
         s # "token",
         s \in {"new"} \cup InProgress => r \notin faulted,
         s \in {"save", "verify"} => r \in hashed,
         s \in {"verify", "registered"} => Row(r) \in users,
         s \in {"new", "list", "save"} => \A u \in users : u.by # r,
         r \notin faulted =>
           /\ s = "failed" => r \in Unstorable \/ \E u \in AccountsOf(r) : u.by # r
           /\ s = "taken" => \E u \in AccountsOf(r) : u.by # r
           /\ s \in {"failed", "taken", "refused"} => \A u \in users : u.by # r
  PROVE  Accountable'
<1>1. /\ step' \in [Requests -> {"new"} \cup InProgress \cup Answers]
      /\ step'[r] = s
      /\ \A q \in Requests : q # r => step'[q] = step[q]
  BY DEF Accountable, RegistrationTypeOK, Goto
<1>2. \A q : AccountsOf(q)' = AccountsOf(q)
  BY DEF AccountsOf
<1>3. RegistrationTypeOK'
  BY <1>1 DEF Accountable, RegistrationTypeOK, Row
<1>4. OneRowEach'
  BY DEF Accountable, OneRowEach
<1>5. OwnRows'
  BY <1>1 DEF Accountable, OwnRows, Row
<1>6. Undisturbed'
  BY <1>1 DEF Accountable, Undisturbed
<1>7. ErrorsAreTrue'
  BY <1>1, <1>2 DEF Accountable, ErrorsAreTrue
<1>8. RegistrationGivesNoToken'
  BY <1>1 DEF Accountable, RegistrationGivesNoToken
<1> QED
  BY <1>3, <1>4, <1>5, <1>6, <1>7, <1>8 DEF Accountable

-----------------------------------------------------------------------------
(* One registration.                                                       *)

LEMMA ValidateIsSafe ==
  ASSUME Accountable, NEW r \in Requests, Validate(r)
  PROVE  Accountable'
<1>1. r \notin faulted /\ \A u \in users : u.by # r
  BY DEF Accountable, Undisturbed, OwnRows, Validate
<1>2. CASE r \in Malformed
  BY <1>1, <1>2, MovingOnIsSafe DEF Validate, Answers
<1>3. CASE r \notin Malformed
  BY <1>1, <1>3, MovingOnIsSafe DEF Validate, InProgress
<1> QED
  BY <1>2, <1>3

\* Whoever has the same spelling has the same address; and no row is the request's own.
LEMMA ListUsersIsSafe ==
  ASSUME RegistrationAssumption, Accountable, NEW r \in Requests, ListUsers(r)
  PROVE  Accountable'
<1>1. r \notin faulted /\ step[r] = "list" /\ \A u \in users : u.by # r
  BY DEF Accountable, Undisturbed, OwnRows, ListUsers, InProgress
<1>2. CASE \E u \in users : Spelling[u.by] = Spelling[r]
  <2>1. \E u \in AccountsOf(r) : u.by # r
    BY <1>1, <1>2, RowsHaveOwners DEF Accountable, AccountsOf, RegistrationAssumption
  <2> QED
    BY <1>1, <1>2, <2>1, MovingOnIsSafe DEF ListUsers, Answers
<1>3. CASE ~\E u \in users : Spelling[u.by] = Spelling[r]
  <2>1. /\ step' = [step EXCEPT ![r] = "save"] /\ hashed' = hashed \cup {r}
        /\ users' = users /\ faulted' = faulted /\ faults' = faults /\ crashes' = crashes
    BY <1>3 DEF ListUsers, Goto
  <2>2. /\ step' \in [Requests -> {"new"} \cup InProgress \cup Answers]
        /\ step'[r] = "save"
        /\ \A q \in Requests : q # r => step'[q] = step[q]
    BY <2>1 DEF Accountable, RegistrationTypeOK, InProgress
  <2>3. \A q : AccountsOf(q)' = AccountsOf(q)
    BY <2>1 DEF AccountsOf
  <2>4. RegistrationTypeOK'
    BY <2>1, <2>2 DEF Accountable, RegistrationTypeOK, Row
  <2>5. OneRowEach'
    BY <2>1 DEF Accountable, OneRowEach
  <2>6. OwnRows'
    BY <1>1, <2>1, <2>2 DEF Accountable, OwnRows, Row
  <2>7. Undisturbed'
    BY <1>1, <2>1, <2>2 DEF Accountable, Undisturbed
  <2>8. ErrorsAreTrue'
    BY <2>1, <2>2, <2>3 DEF Accountable, ErrorsAreTrue
  <2>9. RegistrationGivesNoToken'
    BY <2>2 DEF Accountable, RegistrationGivesNoToken
  <2> QED
    BY <2>4, <2>5, <2>6, <2>7, <2>8, <2>9 DEF Accountable
<1> QED
  BY <1>2, <1>3

\* The row of a request is added, and the request stands at its verification or, when the
\* answer was lost, at a failure it met a fault for.
LEMMA InsertIsSafe ==
  ASSUME Accountable, NEW r \in Requests, step[r] = "save", Insertable(r),
         NEW s \in {"verify", "failed"}, Goto(r, s),
         users' = users \cup {Row(r)}, hashed' = hashed, crashes' = crashes,
         faults' \in 0..MaxFaults,
         faulted' = IF s = "failed" THEN faulted \cup {r} ELSE faulted
  PROVE  Accountable'
<1>1. /\ step' \in [Requests -> {"new"} \cup InProgress \cup Answers]
      /\ step'[r] = s
      /\ \A q \in Requests : q # r => step'[q] = step[q]
  BY DEF Accountable, RegistrationTypeOK, Goto, InProgress, Answers
<1>2. Row(r).by = r
  BY DEF Row
<1>3. r \notin faulted /\ r \in hashed /\ \A u \in users : u.by # r
  BY DEF Accountable, Undisturbed, OwnRows, InProgress
<1>4. \A u \in users : Address[u.by] # Address[r]
  BY DEF Insertable, AccountsOf
<1>5. \A q : AccountsOf(q) \subseteq AccountsOf(q)'
  BY DEF AccountsOf
<1>6. RegistrationTypeOK'
  BY <1>1, <1>3 DEF Accountable, RegistrationTypeOK
<1>7. OneRowEach'
  BY <1>2, <1>4 DEF Accountable, OneRowEach
<1>8. OwnRows'
  <2>1. ASSUME NEW q \in Requests, q # r
        PROVE  /\ step'[q] \in {"verify", "registered"} => Row(q)' \in users'
               /\ step'[q] \in {"new", "list", "save"} => \A u \in users' : u.by # q
    BY <1>1, <1>2, <2>1 DEF Accountable, OwnRows, Row
  <2>2. Row(r)' \in users'
    BY DEF Row
  <2> QED
    BY <1>1, <2>1, <2>2 DEF OwnRows
<1>9. Undisturbed'
  BY <1>1, <1>3 DEF Accountable, Undisturbed, InProgress
<1>10. ErrorsAreTrue'
  <2>1. ASSUME NEW q \in Requests, q \notin faulted', q # r
        PROVE  /\ step'[q] = "failed" => q \in Unstorable \/ \E u \in AccountsOf(q)' : u.by # q
               /\ step'[q] = "taken" => \E u \in AccountsOf(q)' : u.by # q
               /\ step'[q] \in {"failed", "taken", "refused"} => \A u \in users' : u.by # q
    BY <1>1, <1>2, <1>5, <2>1 DEF Accountable, ErrorsAreTrue
  <2>2. r \notin faulted' => step'[r] \notin {"failed", "taken", "refused"}
    BY <1>1
  <2> QED
    BY <2>1, <2>2 DEF ErrorsAreTrue
<1>11. RegistrationGivesNoToken'
  BY <1>1 DEF Accountable, RegistrationGivesNoToken
<1> QED
  BY <1>6, <1>7, <1>8, <1>9, <1>10, <1>11 DEF Accountable

LEMMA SaveUserIsSafe ==
  ASSUME Accountable, NEW r \in Requests, SaveUser(r)
  PROVE  Accountable'
<1>1. CASE Insertable(r)
  BY <1>1, InsertIsSafe DEF SaveUser, Accountable, RegistrationTypeOK
<1>2. CASE ~Insertable(r)
  <2>1. \A u \in users : u.by # r
    BY DEF Accountable, OwnRows, SaveUser
  <2>2. r \in Unstorable \/ \E u \in AccountsOf(r) : u.by # r
    BY <1>2, <2>1 DEF Insertable, AccountsOf
  <2> QED
    BY <1>2, <2>1, <2>2, MovingOnIsSafe DEF SaveUser, Answers, InProgress
<1> QED
  BY <1>1, <1>2

\* The DTO of a request that verifies carries the hash, so nothing matches.
LEMMA VerifyUserIsSafe ==
  ASSUME Accountable, NEW r \in Requests, VerifyUser(r)
  PROVE  Accountable'
<1>1. r \in hashed /\ Row(r) \in users
  BY DEF Accountable, Undisturbed, OwnRows, VerifyUser
<1>2. Goto(r, "registered")
  BY <1>1 DEF VerifyUser, Matches
<1> QED
  BY <1>1, <1>2, MovingOnIsSafe DEF VerifyUser, Answers, InProgress

-----------------------------------------------------------------------------
(* Faults and crashes.                                                     *)

\* Requests that were in progress end at a fault of theirs.
LEMMA CuttingOffIsSafe ==
  ASSUME Accountable, NEW cut \in SUBSET Requests, NEW s \in {"failed", "none"},
         step' = [q \in Requests |-> IF q \in cut THEN s ELSE step[q]],
         faulted' = faulted \cup cut, users' = users, hashed' = hashed,
         faults' \in 0..MaxFaults, crashes' \in 0..MaxCrashes
  PROVE  Accountable'
<1>1. /\ step' \in [Requests -> {"new"} \cup InProgress \cup Answers]
      /\ \A q \in cut : step'[q] = s
      /\ \A q \in Requests \ cut : step'[q] = step[q]
  BY DEF Accountable, RegistrationTypeOK, Answers
<1>2. \A q : AccountsOf(q)' = AccountsOf(q)
  BY DEF AccountsOf
<1>3. RegistrationTypeOK'
  BY <1>1 DEF Accountable, RegistrationTypeOK, Row
<1>4. OneRowEach'
  BY DEF Accountable, OneRowEach
<1>5. OwnRows'
  BY <1>1 DEF Accountable, OwnRows, Row
<1>6. Undisturbed'
  BY <1>1 DEF Accountable, Undisturbed, InProgress
<1>7. ErrorsAreTrue'
  BY <1>1, <1>2 DEF Accountable, ErrorsAreTrue
<1>8. RegistrationGivesNoToken'
  BY <1>1 DEF Accountable, RegistrationGivesNoToken
<1> QED
  BY <1>3, <1>4, <1>5, <1>6, <1>7, <1>8 DEF Accountable

LEMMA CallFailsIsSafe ==
  ASSUME RegistrationAssumption, Accountable, NEW r \in Requests, CallFails(r)
  PROVE  Accountable'
<1>1. step' = [q \in Requests |-> IF q \in {r} THEN "failed" ELSE step[q]]
  BY DEF CallFails, Goto, Accountable, RegistrationTypeOK
<1>2. faults' \in 0..MaxFaults /\ crashes' \in 0..MaxCrashes
  BY DEF CallFails, Accountable, RegistrationTypeOK, RegistrationAssumption
<1>3. {r} \in SUBSET Requests /\ faulted' = faulted \cup {r} /\ users' = users /\ hashed' = hashed
  BY DEF CallFails
<1> QED
  BY <1>1, <1>2, <1>3, CuttingOffIsSafe

LEMMA CommitUnansweredIsSafe ==
  ASSUME RegistrationAssumption, Accountable, NEW r \in Requests, CommitUnanswered(r)
  PROVE  Accountable'
<1>1. faults' \in 0..MaxFaults
  BY DEF CommitUnanswered, Accountable, RegistrationTypeOK, RegistrationAssumption
<1> QED
  BY <1>1, InsertIsSafe DEF CommitUnanswered

LEMMA CrashIsSafe ==
  ASSUME RegistrationAssumption, Accountable, Crash
  PROVE  Accountable'
<1>1. PICK cut \in SUBSET Requests :
        /\ step' = [q \in Requests |-> IF q \in cut THEN "none" ELSE step[q]]
        /\ faulted' = faulted \cup cut
  BY DEF Crash
<1>2. /\ users' = users /\ hashed' = hashed
      /\ faults' \in 0..MaxFaults /\ crashes' \in 0..MaxCrashes
  BY DEF Crash, Accountable, RegistrationTypeOK, RegistrationAssumption
<1> QED
  BY <1>1, <1>2, CuttingOffIsSafe

-----------------------------------------------------------------------------
LEMMA StartsAccountable ==
  ASSUME RegistrationAssumption, Init
  PROVE  Accountable
<1>1. users = {} /\ \A r \in Requests : step[r] = "new"
  BY DEF Init
<1>2. RegistrationTypeOK
  BY DEF Init, RegistrationTypeOK, RegistrationAssumption
<1> QED
  BY <1>1, <1>2 DEF Init, Accountable, OneRowEach, OwnRows, Undisturbed, ErrorsAreTrue,
                    RegistrationGivesNoToken

LEMMA StaysAccountable ==
  ASSUME RegistrationAssumption, Accountable, [Next]_vars
  PROVE  Accountable'
<1>1. ASSUME NEW r \in Requests, Register(r)
      PROVE  Accountable'
  BY <1>1, ValidateIsSafe, ListUsersIsSafe, SaveUserIsSafe, VerifyUserIsSafe DEF Register
<1>2. ASSUME NEW r \in Requests, CallFails(r) \/ CommitUnanswered(r)
      PROVE  Accountable'
  BY <1>2, CallFailsIsSafe, CommitUnansweredIsSafe
<1>3. CASE Crash
  BY <1>3, CrashIsSafe
<1>4. CASE UNCHANGED vars
  BY <1>4 DEF vars, Accountable, RegistrationTypeOK, OneRowEach, OwnRows, Undisturbed,
              ErrorsAreTrue, RegistrationGivesNoToken, AccountsOf, Row
<1> QED
  BY <1>1, <1>2, <1>3, <1>4 DEF Next

LEMMA AlwaysAccountable == Spec => []Accountable
<1>1. Init => Accountable
  BY StartsAccountable, RegistrationAssumption
<1>2. Accountable /\ [Next]_vars => Accountable'
  BY StaysAccountable, RegistrationAssumption
<1> QED
  BY <1>1, <1>2, PTL DEF Spec

\* Every variable keeps its type, and every row belongs to a request that was hashed.
THEOREM RegistrationTypes == Spec => []RegistrationTypeOK
<1>1. Accountable => RegistrationTypeOK
  BY DEF Accountable
<1> QED
  BY <1>1, AlwaysAccountable, PTL

\* Whoever was told that the registration succeeded owns the one account of the address
\* ever after.
THEOREM SuccessOwnsTheAccount == Spec => []RegisteredOwnsAccount
<1>1. ASSUME Accountable
      PROVE  RegisteredOwnsAccount
  <2> SUFFICES ASSUME NEW r \in Requests, step[r] \in {"registered", "token"}
               PROVE  AccountsOf(r) = {Row(r)}
    BY DEF RegisteredOwnsAccount
  <2>1. Row(r) \in users /\ Row(r).by = r
    BY <1>1 DEF Accountable, OwnRows, RegistrationGivesNoToken, Row
  <2>2. \A u \in AccountsOf(r) : u = Row(r)
    BY <1>1, <2>1 DEF Accountable, OneRowEach, AccountsOf
  <2>3. Row(r) \in AccountsOf(r)
    BY <2>1 DEF AccountsOf
  <2> QED
    BY <2>2, <2>3
<1> QED
  BY <1>1, AlwaysAccountable, PTL

\* An error that no fault explains is an address somebody else has, or a request that
\* could not be accepted, and leaves no account behind.
THEOREM ErrorsAreAlwaysTrue == Spec => []ErrorsAreTrue
<1>1. Accountable => ErrorsAreTrue
  BY DEF Accountable
<1> QED
  BY <1>1, AlwaysAccountable, PTL

\* No registration is ever answered with a token.
THEOREM TokensComeFromLogin == Spec => []RegistrationGivesNoToken
<1>1. Accountable => RegistrationGivesNoToken
  BY DEF Accountable
<1> QED
  BY <1>1, AlwaysAccountable, PTL

=============================================================================
