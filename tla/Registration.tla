---------------------------- MODULE Registration ----------------------------
(***************************************************************************)
(* AuthenticationService: concurrent registrations over one user table.    *)
(*                                                                         *)
(* Two comparisons of e-mails meet here.  AddUser looks for the address    *)
(* with C#'s ==, letter by letter (Spelling); the unique index and the     *)
(* login query compare with the collation of SQL Server, which ignores     *)
(* case by default (Address).  No operation of the service deletes users.  *)
(***************************************************************************)
EXTENDS Naturals

CONSTANTS
  Requests,   \* POST api/account/register requests, a client's retry is one more
  Spelling,   \* the e-mail of each request, letter by letter
  Address,    \* the e-mail of each request, as the database compares it
  Password,   \* the password of each request, in clear
  Malformed,  \* requests that AddUser refuses: e-mail, password or name
  Unstorable, \* requests the save refuses: a role that cannot be parsed, an Id of the
              \* client's own, an e-mail longer than the column
  MaxFaults,  \* bound: database calls that fail or whose answer is lost
  MaxCrashes  \* bound: crashes of the process

ASSUME RegistrationAssumption ==
  /\ \A r, s \in Requests : Spelling[r] = Spelling[s] => Address[r] = Address[s]
  /\ Malformed \subseteq Requests /\ Unstorable \subseteq Requests
  /\ MaxFaults \in Nat /\ MaxCrashes \in Nat

VARIABLES
  users,      \* rows of the user table: [by, password], password kept as its hash
  step,       \* where each request stands, or its answer
  hashed,     \* requests whose DTO carries the hash in place of the password
  faulted,    \* history: requests that met a fault or a crash
  faults, crashes

vars == <<users, step, hashed, faulted, faults, crashes>>

InProgress == {"list", "save", "verify"}
Answers == {"refused", "taken", "failed", "registered", "token", "none"}

Init ==
  /\ users = {} /\ hashed = {} /\ faulted = {}
  /\ step = [r \in Requests |-> "new"]
  /\ faults = 0 /\ crashes = 0

Goto(r, s) == step' = [step EXCEPT ![r] = s]

\* Rows with the address of r, by the collation.
AccountsOf(r) == {u \in users : Address[u.by] = Address[r]}

-----------------------------------------------------------------------------
(* One registration.                                                       *)

\* The checks AddUser makes before it asks the database.
Validate(r) ==
  /\ step[r] = "new"
  /\ Goto(r, IF r \in Malformed THEN "refused" ELSE "list")
  /\ UNCHANGED <<users, hashed, faulted, faults, crashes>>

\* mutant: the password goes to the table as it came
StoresClear(r) ==
  /\ step[r] = "list"
  /\ Goto(r, IF \E u \in users : Spelling[u.by] = Spelling[r] THEN "taken" ELSE "save")
  /\ UNCHANGED <<users, hashed, faulted, faults, crashes>>

\* GetAll, the search for the same spelling, and the hash written over the DTO's password.
ListUsers(r) ==
  /\ step[r] = "list"
  /\ IF \E u \in users : Spelling[u.by] = Spelling[r]
       THEN Goto(r, "taken") /\ UNCHANGED hashed
       ELSE Goto(r, "save") /\ hashed' = hashed \cup {r}
  /\ UNCHANGED <<users, faulted, faults, crashes>>

Row(r) == [by |-> r, password |-> Password[r]]

NoIndex(r) == r \notin Unstorable    \* mutant: the index on the address is not unique
Insertable(r) == r \notin Unstorable /\ AccountsOf(r) = {}

\* mutant: the role is parsed after the row is saved
ParsesLate(r) ==
  /\ step[r] = "save"
  /\ IF AccountsOf(r) = {}
       THEN users' = users \cup {Row(r)} /\ Goto(r, IF r \in Unstorable THEN "failed" ELSE "verify")
       ELSE Goto(r, "failed") /\ UNCHANGED users
  /\ UNCHANGED <<hashed, faulted, faults, crashes>>

\* UserDal.Add: what cannot be stored and a second row of the same address throw, and the
\* controller answers 400.
SaveUser(r) ==
  /\ step[r] = "save"
  /\ IF Insertable(r)
       THEN users' = users \cup {Row(r)} /\ Goto(r, "verify")
       ELSE Goto(r, "failed") /\ UNCHANGED users
  /\ UNCHANGED <<hashed, faulted, faults, crashes>>

\* BCrypt.Verify of what the DTO carries now against the row found.
ClearPassword(r, u) == u.password = Password[r]    \* mutant: AddUser hashes a copy
Matches(r, u) == u.password = Password[r] /\ r \notin hashed

\* ValidateUser of RegisterAsync: with a match the answer carries a token.
VerifyUser(r) ==
  /\ step[r] = "verify"
  /\ \E u \in AccountsOf(r) : Goto(r, IF Matches(r, u) THEN "token" ELSE "registered")
  /\ UNCHANGED <<users, hashed, faulted, faults, crashes>>

\* A database call fails before it takes effect; the controller answers 400.
CallFails(r) ==
  /\ step[r] \in InProgress
  /\ faults < MaxFaults
  /\ faults' = faults + 1
  /\ faulted' = faulted \cup {r}
  /\ Goto(r, "failed")
  /\ UNCHANGED <<users, hashed, crashes>>

\* The row is committed and the answer to the commit is lost: 400 as well, nothing is
\* retried.
CommitUnanswered(r) ==
  /\ step[r] = "save" /\ Insertable(r)
  /\ faults < MaxFaults
  /\ faults' = faults + 1
  /\ faulted' = faulted \cup {r}
  /\ users' = users \cup {Row(r)}
  /\ Goto(r, "failed")
  /\ UNCHANGED <<hashed, crashes>>

\* The process dies: the requests in progress are never answered.
Crash ==
  LET cut == {r \in Requests : step[r] \in InProgress}
  IN  /\ crashes < MaxCrashes /\ cut # {}
      /\ crashes' = crashes + 1
      /\ faulted' = faulted \cup cut
      /\ step' = [r \in Requests |-> IF r \in cut THEN "none" ELSE step[r]]
      /\ UNCHANGED <<users, hashed, faults>>

Register(r) == Validate(r) \/ ListUsers(r) \/ SaveUser(r) \/ VerifyUser(r)

Next ==
  \/ \E r \in Requests : Register(r) \/ CallFails(r) \/ CommitUnanswered(r)
  \/ Crash

Spec == Init /\ [][Next]_vars

-----------------------------------------------------------------------------
(* Properties.                                                             *)

\* Every variable holds a value of its type, and every row belongs to a request whose
\* password was hashed before.
RegistrationTypeOK ==
  /\ users \subseteq {Row(r) : r \in hashed}
  /\ step \in [Requests -> {"new"} \cup InProgress \cup Answers]
  /\ hashed \subseteq Requests /\ faulted \subseteq Requests
  /\ faults \in 0..MaxFaults /\ crashes \in 0..MaxCrashes

\* Whoever was told that the registration succeeded owns the one account of the address
\* ever after, also when two requests for one address, or for two spellings of it, passed
\* AddUser's check together: nobody else's password opens it.
RegisteredOwnsAccount ==
  \A r \in Requests : step[r] \in {"registered", "token"} => AccountsOf(r) = {Row(r)}

\* An error is a fault of that very request, a malformed request or an address that
\* somebody has; an error without a fault leaves no account of its own behind.
ErrorsAreTrue ==
  \A r \in Requests \ faulted :
    /\ step[r] = "failed" => r \in Unstorable \/ \E u \in AccountsOf(r) : u.by # r
    /\ step[r] = "taken" => \E u \in AccountsOf(r) : u.by # r
    /\ step[r] \in {"failed", "taken", "refused"} => \A u \in users : u.by # r

\* AddUser overwrites the password of the DTO that RegisterAsync verifies afterwards, so
\* no registration is ever answered with a token: its branch for that is never taken.
RegistrationGivesNoToken == \A r \in Requests : step[r] # "token"

=============================================================================
