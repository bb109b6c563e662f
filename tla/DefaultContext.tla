--------------------------- MODULE DefaultContext ---------------------------
(***************************************************************************)
(* get_or_create_default_context (backend/app/chat/repository.py): the one *)
(* user and the one project that sessions, documents and facts are hung    *)
(* on are made by the first request that finds them missing.  Every caller *)
(* runs the same transaction: look for the user, insert it if it is not    *)
(* there, look for its project, insert that.                               *)
(*                                                                         *)
(* The database runs at READ COMMITTED: a SELECT sees what is committed    *)
(* and its own inserts.  users.email is unique, so an insert waits for an  *)
(* uncommitted one and raises when there is a committed one; nothing makes *)
(* the project of a user unique.  Any statement may raise.                 *)
(***************************************************************************)
CONSTANTS
  Request,     \* callers; also the ids of the rows they insert
  Earlier,     \* a caller of long ago, whose rows may be there
  None

\* What callers of this module owe it.
RequestAssumption == Earlier \notin Request /\ None \notin Request \cup {Earlier}

VARIABLES
  users,       \* committed users with the default e-mail address
  projects,    \* committed default projects
  at,          \* the statement each transaction is at
  user,        \* its local user: an id
  project      \* its local project: an id

tables == <<users, projects>>
vars == <<tables, at, user, project>>

Id == Request \cup {Earlier}

Project == [id : Id, owner : Id]

TypeOK ==
  /\ users \subseteq Id
  /\ projects \subseteq Project
  /\ at \in [Request -> {"out", "user", "add_user", "project", "add_project", "commit",
                         "given", "raised"}]
  /\ user \in [Request -> Id \cup {None}]
  /\ project \in [Request -> Id \cup {None}]

Init ==
  /\ \/ users = {} /\ projects = {}
     \/ users = {Earlier} /\ projects = {[id |-> Earlier, owner |-> Earlier]}
  /\ at = [r \in Request |-> "out"]
  /\ user = [r \in Request |-> None]
  /\ project = [r \in Request |-> None]

-----------------------------------------------------------------------------

Goto(r, statement) == at' = [at EXCEPT ![r] = statement]

Enter(r) ==
  /\ at[r] = "out"
  /\ Goto(r, "user")
  /\ UNCHANGED <<tables, user, project>>

FindUser(r) ==
  /\ at[r] = "user"
  /\ IF users = {}
     THEN Goto(r, "add_user") /\ UNCHANGED user
     ELSE Goto(r, "project") /\ \E u \in users : user' = [user EXCEPT ![r] = u]
  /\ UNCHANGED <<tables, project>>

\* A transaction that has inserted the user and not ended yet.
HoldsUser(r) == user[r] = r /\ at[r] \in {"project", "add_project", "commit"}

\* Faulty: the user is committed by itself, as other transactions wait for it.
AddUser_Commits(r) ==
  /\ at[r] = "add_user"
  /\ IF users = {}
     THEN /\ users' = {r}
          /\ user' = [user EXCEPT ![r] = r]
          /\ Goto(r, "project")
     ELSE Goto(r, "raised") /\ UNCHANGED <<users, user>>
  /\ UNCHANGED <<projects, project>>

\* The insert waits while another one of the same address is undecided.
AddUser(r) ==
  /\ at[r] = "add_user"
  /\ \A q \in Request : ~HoldsUser(q)
  /\ IF users = {}
     THEN Goto(r, "project") /\ user' = [user EXCEPT ![r] = r]
     ELSE Goto(r, "raised") /\ UNCHANGED user
  /\ UNCHANGED <<tables, project>>

Owned(u) == {p \in projects : p.owner = u}

FindProject(r) ==
  /\ at[r] = "project"
  /\ IF Owned(user[r]) = {}
     THEN Goto(r, "add_project") /\ UNCHANGED project
     ELSE /\ Goto(r, "commit")
          /\ \E p \in Owned(user[r]) : project' = [project EXCEPT ![r] = p.id]
  /\ UNCHANGED <<tables, user>>

AddProject(r) ==
  /\ at[r] = "add_project"
  /\ project' = [project EXCEPT ![r] = r]
  /\ Goto(r, "commit")
  /\ UNCHANGED <<tables, user>>

\* What the transaction has inserted becomes visible.
Save(r) ==
  /\ users' = IF user[r] = r THEN users \cup {r} ELSE users
  /\ projects' = IF project[r] = r THEN projects \cup {[id |-> r, owner |-> user[r]]}
                 ELSE projects

Commit(r) ==
  /\ at[r] = "commit"
  /\ Save(r)
  /\ Goto(r, "given")
  /\ UNCHANGED <<user, project>>

\* A statement raises: the transaction is rolled back, or it has committed and
\* only the answer was lost.
Fail(r) ==
  /\ at[r] \in {"user", "add_user", "project", "add_project", "commit"}
  /\ Goto(r, "raised")
  /\ \/ UNCHANGED tables
     \/ at[r] = "commit" /\ Save(r)
  /\ user' = [user EXCEPT ![r] = None]
  /\ project' = [project EXCEPT ![r] = None]

Proceed(r) == FindUser(r) \/ AddUser(r) \/ FindProject(r) \/ AddProject(r) \/ Commit(r)

Next == \E r \in Request : Enter(r) \/ Proceed(r) \/ Fail(r)

Spec == Init /\ [][Next]_vars

-----------------------------------------------------------------------------

\* get_or_create_default_context: however many first requests race, and
\* although projects have no unique name, there is one default project, and
\* every caller that returns was given that one.
OneProject ==
  /\ \A p, q \in projects : p = q
  /\ \A r \in Request :
       at[r] = "given" => \E p \in projects : p.id = project[r] /\ p.owner = user[r]

\* Why it is inductive: the user row is the lock.  A project is inserted only
\* by the transaction that inserts the user with it, and whoever finds a user
\* finds its project.
Given(r) == \E p \in projects : p.id = project[r] /\ p.owner = user[r]

TablesAgree ==
  /\ \A u \in users : u = Earlier \/ at[u] \in {"given", "raised"}
  /\ \A u \in users : \E p \in projects : p.owner = u
  /\ \A p \in projects : p.owner \in users
  /\ \A p, q \in projects : p = q

RequestInv(r) ==
  /\ HoldsUser(r) =>
       /\ users = {}
       /\ \A q \in Request : HoldsUser(q) => q = r
  /\ at[r] \in {"project", "add_project"} => HoldsUser(r) \/ user[r] \in users
  /\ at[r] = "add_project" => HoldsUser(r)
  /\ at[r] \in {"out", "user", "add_user", "project", "add_project"} => project[r] = None
  /\ at[r] = "commit" => (HoldsUser(r) /\ project[r] = r) \/ (~HoldsUser(r) /\ Given(r))
  /\ at[r] = "given" => Given(r)

ContextInv ==
  /\ TypeOK
  /\ TablesAgree
  /\ \A r \in Request : RequestInv(r)

=============================================================================
