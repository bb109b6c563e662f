---------------------------- MODULE Memory_proofs ---------------------------
(***************************************************************************)
(* For any number of requests, keys and batches: there is one default      *)
(* project, a fact that was deleted does not come back, what is reported   *)
(* as stored was there, and batches are stored whole.                      *)
(***************************************************************************)
EXTENDS Memory, TLAPS

-----------------------------------------------------------------------------
(* Why ForgottenStaysForgotten is inductive: a row under way is locked by    *)
(* the one request that writes it, so nobody deletes it meanwhile, and the   *)
(* ids of rows yet to be inserted are fresh.                                 *)

\* r's transaction has been decided.
Settled(r) == pc[r] \in {"reply", "over"}

WritesInv(r) ==
  \A id \in DOMAIN writes[r] :
    /\ id \notin forgotten
    /\ writes[r][id] # None => writes[r][id].id = id
    /\ \A q \in Request \ {r} : id \notin DOMAIN writes[q] /\ (id.by = q => Settled(q))

FreshInv(r) ==
  ~Settled(r) =>
    /\ \A row \in facts : row.id.by # r
    /\ \A id \in forgotten : id.by # r

MemoryInv ==
  /\ writes = [r \in Request |-> writes[r]]
  /\ pc = [r \in Request |-> pc[r]]
  /\ ForgottenStaysForgotten
  /\ \A r \in Request : WritesInv(r) /\ FreshInv(r)

-----------------------------------------------------------------------------
(* Why StoredWasThere and WholeBatches are inductive: every cell that has    *)
(* been looked up was in the table, is in an uncommitted row, or is about to *)
(* be sent.                                                                  *)

\* Of the entries looked up so far, the last with its key.
Last(r, i) == \A j \in 1 .. next[r] - 1 : batch[r][j].key = batch[r][i].key => j <= i

\* The cell is in a row that r has written.
Sent(r, i, c) ==
  \E id \in DOMAIN writes[r] :
    /\ writes[r][id] # None
    /\ writes[r][id].key = batch[r][i].key /\ writes[r][id][c] = batch[r][i][c]

\* It is among the columns that the ORM has still to send.
Sending(r, i, c) == change[r] # None /\ i = next[r] - 1 /\ c \in DOMAIN change[r].cells

CellsInv(r) ==
  /\ Cells(batch[r], facts) \subseteq held[r]
  /\ next[r] - 1 <= Len(batch[r])
  /\ \A i \in 1 .. next[r] - 1 :
       /\ batch[r][i] # Bad
       /\ Last(r, i) => \A c \in Column : <<i, c>> \in held[r] \/ Sent(r, i, c) \/ Sending(r, i, c)

\* What the ORM has still to send is of the entry looked up last.
ChangeInv(r) ==
  change[r] # None =>
    /\ pc[r] = "facts" /\ next[r] > 1 /\ change[r] \in Change
    /\ change[r].id.key = batch[r][next[r] - 1].key
    /\ \A c \in DOMAIN change[r].cells : change[r].cells[c] = batch[r][next[r] - 1][c]

RowsInv(r) ==
  \A id \in DOMAIN writes[r] : writes[r][id] # None =>
    /\ writes[r][id] \in Fact
    /\ writes[r][id].id = id /\ writes[r][id].key = id.key

BatchInv(r) ==
  /\ batch[r] \in Seq(Content \cup {Bad})
  /\ next[r] \in Nat \ {0}
  /\ pc[r] \in {"facts", "insert"} => CellsInv(r)
  /\ pc[r] = "insert" => next[r] <= Len(batch[r]) /\ Entry(r) # Bad
  /\ pc[r] = "reply" => Told(r) \subseteq held[r]
  /\ pc[r] \notin {"facts", "insert", "reply"} => batch[r] = <<>> /\ next[r] = 1
  /\ pc[r] \notin {"facts", "insert", "commit"} => writes[r] = NoWrites
  /\ pc[r] = "commit" => \A id \in DOMAIN writes[r] : writes[r][id] = None
  /\ ChangeInv(r)
  /\ RowsInv(r)

StoredInv ==
  /\ batch = [r \in Request |-> batch[r]] /\ next = [r \in Request |-> next[r]]
  /\ change = [r \in Request |-> change[r]] /\ held = [r \in Request |-> held[r]]
  /\ writes = [r \in Request |-> writes[r]] /\ pc = [r \in Request |-> pc[r]]
  /\ facts \subseteq Fact /\ \A row \in facts : row.id.key = row.key
  /\ \A r \in Request : BatchInv(r)

-----------------------------------------------------------------------------
(* One default project: the transactions of DefaultContext.                *)

\* An empty database, or one with a user and its project.
LEMMA ContextInvInit == C!RequestAssumption /\ C!Init => C!ContextInv
<1> SUFFICES ASSUME C!RequestAssumption, C!Init PROVE C!ContextInv
  OBVIOUS
<1>1. C!TypeOK
  BY DEF C!RequestAssumption, C!Init, C!TypeOK, C!Id, C!Project
<1>2. C!TablesAgree
  <2>1. CASE users = {} /\ projects = {}
    BY <2>1 DEF C!TablesAgree
  <2>2. CASE users = {Earlier} /\ projects = {[id |-> Earlier, owner |-> Earlier]}
    BY <2>2 DEF C!TablesAgree
  <2>3. QED
    BY <2>1, <2>2 DEF C!Init
<1>3. ASSUME NEW r \in Request PROVE C!RequestInv(r)
  BY DEF C!Init, C!RequestInv, C!HoldsUser
<1>4. QED
  BY <1>1, <1>2, <1>3 DEF C!ContextInv

\* A step of r that changes no table leaves the others as they are, unless it
\* takes hold of the user.
LEMMA OthersKeep ==
  ASSUME NEW r \in Request, NEW q \in Request \ {r}, C!RequestInv(q),
         UNCHANGED <<users, projects>>,
         at'[q] = at[q], user'[q] = user[q], project'[q] = project[q],
         C!HoldsUser(r)' => C!HoldsUser(r) \/ \A p \in Request : ~C!HoldsUser(p),
         \A p \in Request \ {r} : C!HoldsUser(p)' = C!HoldsUser(p)
  PROVE  C!RequestInv(q)'
<1>1. C!HoldsUser(q)' = C!HoldsUser(q) /\ C!Given(q)' = C!Given(q)
  BY DEF C!HoldsUser, C!Given
<1>2. C!HoldsUser(q) => \A p \in Request : C!HoldsUser(p)' => p = q
  BY DEF C!RequestInv
<1>3. QED
  BY <1>1, <1>2 DEF C!RequestInv

\* A transaction that begins holds nothing.
LEMMA EnterKeeps ==
  ASSUME NEW r \in Request, C!RequestAssumption, C!ContextInv, C!Enter(r)
  PROVE  C!ContextInv'
<1>1. C!TypeOK'
  BY DEF C!Enter, C!Goto, C!tables, C!ContextInv, C!TypeOK
<1>2. C!TablesAgree'
  BY DEF C!RequestAssumption, C!Enter, C!Goto, C!tables, C!ContextInv, C!TypeOK,
         C!TablesAgree, C!Id
<1>3. \A q \in Request : C!HoldsUser(q)' = C!HoldsUser(q)
  BY DEF C!Enter, C!Goto, C!tables, C!ContextInv, C!TypeOK, C!HoldsUser
<1>4. ASSUME NEW q \in Request \ {r} PROVE C!RequestInv(q)'
  BY <1>3, OthersKeep DEF C!Enter, C!Goto, C!tables, C!ContextInv, C!TypeOK
<1>5. C!RequestInv(r)'
  BY <1>3 DEF C!Enter, C!Goto, C!tables, C!ContextInv, C!TypeOK, C!RequestInv, C!HoldsUser
<1>6. QED
  BY <1>1, <1>2, <1>4, <1>5 DEF C!ContextInv

\* One that looks for the user finds a committed one, or none.
LEMMA FindUserKeeps ==
  ASSUME NEW r \in Request, C!RequestAssumption, C!ContextInv, C!FindUser(r)
  PROVE  C!ContextInv'
<1>1. C!TypeOK'
  BY DEF C!FindUser, C!Goto, C!tables, C!ContextInv, C!TypeOK
<1>2. C!TablesAgree'
  BY DEF C!RequestAssumption, C!FindUser, C!Goto, C!tables, C!ContextInv, C!TypeOK,
         C!TablesAgree, C!Id
<1>3. \A q \in Request \ {r} :
        /\ at'[q] = at[q] /\ user'[q] = user[q] /\ project'[q] = project[q]
        /\ C!HoldsUser(q)' = C!HoldsUser(q)
  BY DEF C!FindUser, C!Goto, C!tables, C!ContextInv, C!TypeOK, C!HoldsUser
<1>4. C!HoldsUser(r)' => \A p \in Request : ~C!HoldsUser(p)
  BY DEF C!FindUser, C!Goto, C!ContextInv, C!TypeOK, C!RequestInv, C!HoldsUser
<1>5. ASSUME NEW q \in Request \ {r} PROVE C!RequestInv(q)'
  BY <1>3, <1>4, OthersKeep DEF C!FindUser, C!tables, C!ContextInv
<1>6. C!RequestInv(r)'
  <2>1. project'[r] = None
    BY DEF C!FindUser, C!ContextInv, C!TypeOK, C!RequestInv
  <2>2. CASE users = {}
    BY <2>1, <2>2 DEF C!FindUser, C!Goto, C!tables, C!ContextInv, C!TypeOK, C!RequestInv,
                      C!HoldsUser
  <2>3. CASE users # {}
    <3>1. at'[r] = "project" /\ user'[r] \in users'
      BY <2>3 DEF C!FindUser, C!Goto, C!tables, C!ContextInv, C!TypeOK
    <3>2. r \notin users
      BY DEF C!RequestAssumption, C!FindUser, C!ContextInv, C!TablesAgree
    <3>3. ~C!HoldsUser(r)'
      BY <3>1, <3>2 DEF C!HoldsUser, C!FindUser, C!tables
    <3>4. QED
      BY <2>1, <3>1, <3>3 DEF C!RequestInv
  <2>4. QED
    BY <2>2, <2>3
<1>7. QED
  BY <1>1, <1>2, <1>5, <1>6 DEF C!ContextInv

\* The insert of the user succeeds only where there is none, decided or not.
LEMMA AddUserKeeps ==
  ASSUME NEW r \in Request, C!RequestAssumption, C!ContextInv, C!AddUser(r)
  PROVE  C!ContextInv'
<1>1. C!TypeOK'
  BY DEF C!AddUser, C!Goto, C!tables, C!ContextInv, C!TypeOK, C!Id
<1>2. C!TablesAgree'
  BY DEF C!RequestAssumption, C!AddUser, C!Goto, C!tables, C!ContextInv, C!TypeOK,
         C!TablesAgree, C!Id
<1>3. \A q \in Request \ {r} :
        /\ at'[q] = at[q] /\ user'[q] = user[q] /\ project'[q] = project[q]
        /\ C!HoldsUser(q)' = C!HoldsUser(q) /\ ~C!HoldsUser(q)
  BY DEF C!AddUser, C!Goto, C!tables, C!ContextInv, C!TypeOK, C!HoldsUser
<1>4. ASSUME NEW q \in Request \ {r} PROVE C!RequestInv(q)'
  BY <1>3, OthersKeep DEF C!AddUser, C!tables, C!ContextInv
<1>5. project'[r] = None
  BY DEF C!AddUser, C!ContextInv, C!TypeOK, C!RequestInv
<1>6. C!RequestInv(r)'
  <2>1. CASE users = {}
    BY <1>3, <1>5, <2>1 DEF C!AddUser, C!Goto, C!tables, C!ContextInv, C!TypeOK,
                            C!RequestInv, C!HoldsUser
  <2>2. CASE users # {}
    BY <2>2 DEF C!AddUser, C!Goto, C!tables, C!ContextInv, C!TypeOK, C!RequestInv,
                C!HoldsUser
  <2>3. QED
    BY <2>1, <2>2
<1>7. QED
  BY <1>1, <1>2, <1>4, <1>6 DEF C!ContextInv

\* Who finds a user finds its project; only who made the user goes on to make
\* one.
LEMMA FindProjectKeeps ==
  ASSUME NEW r \in Request, C!RequestAssumption, C!ContextInv, C!FindProject(r)
  PROVE  C!ContextInv'
<1>1. C!TypeOK'
  BY DEF C!FindProject, C!Owned, C!Goto, C!tables, C!ContextInv, C!TypeOK, C!Id, C!Project
<1>2. C!TablesAgree'
  BY DEF C!RequestAssumption, C!FindProject, C!Goto, C!tables, C!ContextInv, C!TypeOK,
         C!TablesAgree, C!Id
<1>3. \A q \in Request \ {r} :
        /\ at'[q] = at[q] /\ user'[q] = user[q] /\ project'[q] = project[q]
        /\ C!HoldsUser(q)' = C!HoldsUser(q)
  BY DEF C!FindProject, C!Goto, C!tables, C!ContextInv, C!TypeOK, C!HoldsUser
<1>4. C!HoldsUser(r)' = C!HoldsUser(r)
  BY DEF C!FindProject, C!Goto, C!tables, C!ContextInv, C!TypeOK, C!HoldsUser
<1>5. ASSUME NEW q \in Request \ {r} PROVE C!RequestInv(q)'
  BY <1>3, <1>4, OthersKeep DEF C!FindProject, C!tables, C!ContextInv
<1>6. C!RequestInv(r)'
  <2>1. CASE C!Owned(user[r]) = {}
    <3>1. C!HoldsUser(r) /\ project[r] = None
      BY <2>1 DEF C!FindProject, C!Owned, C!ContextInv, C!TablesAgree, C!RequestInv
    <3>2. at'[r] = "add_project" /\ project' = project /\ UNCHANGED <<users, user>>
      BY <2>1 DEF C!FindProject, C!Goto, C!tables, C!ContextInv, C!TypeOK
    <3>3. \A q \in Request : C!HoldsUser(q)' => q = r
      BY <1>3, <3>1 DEF C!ContextInv, C!RequestInv
    <3>4. users' = {}
      BY <3>1, <3>2 DEF C!ContextInv, C!RequestInv
    <3>5. QED
      BY <1>4, <3>1, <3>2, <3>3, <3>4 DEF C!RequestInv
  <2>2. CASE C!Owned(user[r]) # {}
    <3>1. PICK p \in projects : p.owner = user[r] /\ project'[r] = p.id /\ at'[r] = "commit"
      BY <2>2 DEF C!FindProject, C!Owned, C!Goto, C!ContextInv, C!TypeOK
    <3>2. users # {} /\ ~C!HoldsUser(r)
      BY <3>1 DEF C!ContextInv, C!TablesAgree, C!RequestInv
    <3>3. C!Given(r)' /\ ~C!HoldsUser(r)'
      BY <1>4, <3>1, <3>2 DEF C!FindProject, C!tables, C!Given
    <3>4. QED
      BY <3>1, <3>3 DEF C!RequestInv
  <2>3. QED
    BY <2>1, <2>2
<1>7. QED
  BY <1>1, <1>2, <1>5, <1>6 DEF C!ContextInv

LEMMA AddProjectKeeps ==
  ASSUME NEW r \in Request, C!RequestAssumption, C!ContextInv, C!AddProject(r)
  PROVE  C!ContextInv'
<1>1. C!TypeOK'
  BY DEF C!AddProject, C!Goto, C!tables, C!ContextInv, C!TypeOK, C!Id
<1>2. C!TablesAgree'
  BY DEF C!RequestAssumption, C!AddProject, C!Goto, C!tables, C!ContextInv, C!TypeOK,
         C!TablesAgree, C!Id
<1>3. \A q \in Request \ {r} :
        /\ at'[q] = at[q] /\ user'[q] = user[q] /\ project'[q] = project[q]
        /\ C!HoldsUser(q)' = C!HoldsUser(q)
  BY DEF C!AddProject, C!Goto, C!tables, C!ContextInv, C!TypeOK, C!HoldsUser
<1>4. C!HoldsUser(r)' /\ C!HoldsUser(r)
  BY DEF C!AddProject, C!Goto, C!tables, C!ContextInv, C!TypeOK, C!HoldsUser, C!RequestInv
<1>5. ASSUME NEW q \in Request \ {r} PROVE C!RequestInv(q)'
  BY <1>3, <1>4, OthersKeep DEF C!AddProject, C!tables, C!ContextInv
<1>6. at'[r] = "commit" /\ project'[r] = r /\ users' = users
  BY DEF C!AddProject, C!Goto, C!tables, C!ContextInv, C!TypeOK
<1>7. C!RequestInv(r)'
  BY <1>3, <1>4, <1>6 DEF C!ContextInv, C!RequestInv
<1>8. QED
  BY <1>1, <1>2, <1>5, <1>7 DEF C!ContextInv

\* A transaction that has made the user saves both rows at once; any other
\* one saves nothing.
LEMMA SaveKeeps ==
  ASSUME NEW r \in Request, C!ContextInv, at[r] = "commit", C!Save(r)
  PROVE  \/ C!HoldsUser(r) /\ users' = {r} /\ projects' = {[id |-> r, owner |-> r]}
         \/ ~C!HoldsUser(r) /\ UNCHANGED <<users, projects>>
<1>1. CASE C!HoldsUser(r)
  <2>1. users = {} /\ projects = {} /\ project[r] = r /\ user[r] = r
    BY <1>1 DEF C!ContextInv, C!RequestInv, C!TablesAgree, C!HoldsUser
  <2>2. QED
    BY <1>1, <2>1 DEF C!Save
<1>2. CASE ~C!HoldsUser(r)
  <2>1. user[r] # r /\ C!Given(r)
    BY <1>2 DEF C!ContextInv, C!RequestInv, C!HoldsUser
  <2>2. PICK p \in projects : p.id = project[r] /\ p.owner = user[r]
    BY <2>1 DEF C!Given
  <2>3. p = [id |-> project[r], owner |-> user[r]]
    BY <2>2 DEF C!ContextInv, C!TypeOK, C!Project
  <2>4. QED
    BY <1>2, <2>1, <2>2, <2>3 DEF C!Save
<1>3. QED
  BY <1>1, <1>2

\* What a step that ends the transaction of r leaves behind.
LEMMA EndKeeps ==
  ASSUME NEW r \in Request, C!RequestAssumption, C!ContextInv, C!TypeOK',
         at'[r] \in {"given", "raised"},
         at'[r] = "given" => at[r] = "commit" /\ C!Save(r) /\ UNCHANGED <<user, project>>,
         UNCHANGED <<users, projects>> \/ (at[r] = "commit" /\ C!Save(r)),
         \A q \in Request \ {r} :
           at'[q] = at[q] /\ user'[q] = user[q] /\ project'[q] = project[q]
  PROVE  C!ContextInv'
<1>1. ~C!HoldsUser(r)' /\ \A q \in Request \ {r} : C!HoldsUser(q)' = C!HoldsUser(q)
  BY DEF C!HoldsUser
<1>2. CASE UNCHANGED <<users, projects>>
  <2>1. C!TablesAgree'
    BY <1>2 DEF C!RequestAssumption, C!ContextInv, C!TypeOK, C!TablesAgree, C!Id
  <2>2. ASSUME NEW q \in Request \ {r} PROVE C!RequestInv(q)'
    BY <1>1, <1>2, OthersKeep DEF C!ContextInv
  <2>3. C!RequestInv(r)'
    <3>1. CASE at'[r] = "given"
      <4>1. C!Given(r)
        <5>1. CASE C!HoldsUser(r)
          BY <1>2, <3>1, <5>1, SaveKeeps DEF C!ContextInv, C!RequestInv
        <5>2. CASE ~C!HoldsUser(r)
          BY <3>1, <5>2 DEF C!ContextInv, C!RequestInv
        <5>3. QED
          BY <5>1, <5>2
      <4>2. C!Given(r)'
        BY <1>2, <3>1, <4>1 DEF C!Given
      <4>3. QED
        BY <1>1, <3>1, <4>2 DEF C!RequestInv
    <3>2. CASE at'[r] = "raised"
      BY <1>1, <3>2 DEF C!RequestInv
    <3>3. QED
      BY <3>1, <3>2
  <2>4. QED
    BY <2>1, <2>2, <2>3 DEF C!ContextInv
<1>3. CASE at[r] = "commit" /\ C!Save(r) /\ C!HoldsUser(r)
  <2>1. users' = {r} /\ projects' = {[id |-> r, owner |-> r]} /\ users = {} /\ projects = {}
    BY <1>3, SaveKeeps DEF C!ContextInv, C!RequestInv, C!TablesAgree
  <2>2. C!TablesAgree'
    BY <2>1 DEF C!TablesAgree
  <2>3. ASSUME NEW q \in Request \ {r} PROVE C!RequestInv(q)'
    <3>1. ~C!HoldsUser(q) /\ ~C!HoldsUser(q)'
      BY <1>1, <1>3 DEF C!ContextInv, C!RequestInv
    <3>2. at[q] \notin {"project", "add_project", "commit", "given"}
      BY <2>1, <3>1 DEF C!ContextInv, C!RequestInv, C!Given
    <3>3. C!RequestInv(q)
      BY DEF C!ContextInv
    <3>4. QED
      BY <3>1, <3>2, <3>3 DEF C!RequestInv
  <2>4. at'[r] = "given" => C!Given(r)'
    <3>1. project[r] = r /\ user[r] = r
      BY <1>3 DEF C!ContextInv, C!RequestInv, C!HoldsUser
    <3>2. QED
      BY <2>1, <3>1 DEF C!Given
  <2>5. C!RequestInv(r)'
    BY <1>1, <2>4 DEF C!RequestInv
  <2>6. QED
    BY <2>2, <2>3, <2>5 DEF C!ContextInv
<1>4. QED
  BY <1>2, <1>3, SaveKeeps

\* User and project become visible together.
LEMMA CommitKeeps ==
  ASSUME NEW r \in Request, C!RequestAssumption, C!ContextInv, C!Commit(r)
  PROVE  C!ContextInv'
<1>1. C!TypeOK'
  <2>1. user[r] \in C!Id
    BY DEF C!RequestAssumption, C!Commit, C!ContextInv, C!TypeOK, C!RequestInv,
           C!HoldsUser, C!Given, C!Project, C!Id
  <2>2. QED
    BY <2>1 DEF C!Commit, C!Save, C!Goto, C!ContextInv, C!TypeOK, C!Id, C!Project
<1>2. QED
  BY <1>1, EndKeeps DEF C!Commit, C!Goto, C!ContextInv, C!TypeOK

\* A failure leaves nothing, or all of it.
LEMMA FailKeeps ==
  ASSUME NEW r \in Request, C!RequestAssumption, C!ContextInv, C!Fail(r)
  PROVE  C!ContextInv'
<1>1. C!TypeOK'
  <2>1. at[r] = "commit" => user[r] \in C!Id
    BY DEF C!RequestAssumption, C!ContextInv, C!TypeOK, C!RequestInv, C!HoldsUser,
           C!Given, C!Project, C!Id
  <2>2. QED
    BY <2>1 DEF C!Fail, C!Save, C!Goto, C!tables, C!ContextInv, C!TypeOK, C!Id, C!Project
<1>2. /\ at'[r] = "raised"
      /\ \A q \in Request \ {r} :
           at'[q] = at[q] /\ user'[q] = user[q] /\ project'[q] = project[q]
  BY DEF C!Fail, C!Goto, C!ContextInv, C!TypeOK
<1>3. UNCHANGED <<users, projects>> \/ (at[r] = "commit" /\ C!Save(r))
  BY DEF C!Fail, C!tables
<1>4. QED
  BY <1>1, <1>2, <1>3, EndKeeps

\* Every step keeps the invariant.
LEMMA ContextInvStep ==
  C!RequestAssumption /\ C!ContextInv /\ [C!Next]_(C!vars) => C!ContextInv'
<1> SUFFICES ASSUME C!RequestAssumption, C!ContextInv, [C!Next]_(C!vars) PROVE C!ContextInv'
  OBVIOUS
<1>1. ASSUME NEW r \in Request, C!Enter(r) \/ C!Proceed(r) \/ C!Fail(r) PROVE C!ContextInv'
  BY <1>1, EnterKeeps, FindUserKeeps, AddUserKeeps, FindProjectKeeps, AddProjectKeeps,
     CommitKeeps, FailKeeps DEF C!Proceed
<1>2. CASE UNCHANGED C!vars
  BY <1>2 DEF C!vars, C!tables, C!ContextInv, C!TypeOK, C!TablesAgree, C!RequestInv,
              C!HoldsUser, C!Given
<1>3. QED
  BY <1>1, <1>2 DEF C!Next

\* A request does what its transaction on the context does, or leaves the
\* context alone.
LEMMA StepMapsToContext == [Next]_vars => [C!Next]_(C!vars)
<1> SUFFICES ASSUME [Next]_vars PROVE [C!Next]_(C!vars)
  OBVIOUS
<1> USE DEF context, C!vars, C!tables
<1>1. CASE UNCHANGED vars
  BY <1>1 DEF vars
<1>2. ASSUME NEW r \in Request, OpenContext(r) \/ BootStep(r) \/ BootFails(r)
      PROVE  C!Next
  BY <1>2 DEF OpenContext, BootStep, BootFails, C!Next
<1>3. ASSUME NEW r \in Request, NEW s, Extract(r, s) \/ Forget(r, s)
      PROVE  UNCHANGED context
  BY <1>3 DEF Extract, Forget
<1>4. ASSUME NEW r \in Request,
             \/ WithContext(r) \/ ListFacts(r) \/ CreateSession(r) \/ LoadSession(r)
             \/ ModelAnswers(r) \/ LookUpMisses(r) \/ LookUpFinds(r) \/ Insert(r)
             \/ Flush(r) \/ CommitFacts(r) \/ DeleteFact(r) \/ NothingToDelete(r)
             \/ CommitDelete(r) \/ Reply(r) \/ Refused(r) \/ Fail(r)
      PROVE  UNCHANGED context
  BY <1>4 DEF WithContext, ListFacts, CreateSession, LoadSession, ModelAnswers, LookUpMisses,
              LookUpFinds, Insert, Flush, CommitFacts, DeleteFact, NothingToDelete,
              CommitDelete, Reply, Refused, Fail, Leave
<1>5. QED
  BY <1>1, <1>2, <1>3, <1>4 DEF Next, Proceed

\* Spec => []OneProject: first requests that race make one project, and each
\* of them is given it (get_or_create_default_context).
THEOREM OneProjectHolds == Spec => []OneProject
<1>1. Init => C!ContextInv
  BY BatchAssumption, ContextInvInit DEF Init, C!RequestAssumption
<1>2. C!ContextInv /\ [Next]_vars => C!ContextInv'
  BY StepMapsToContext, BatchAssumption, ContextInvStep DEF C!RequestAssumption
<1>3. C!ContextInv => OneProject
  BY DEF C!ContextInv, C!TablesAgree, C!RequestInv, C!Given, C!OneProject, OneProject
<1>4. QED
  BY <1>1, <1>2, <1>3, PTL DEF Spec

-----------------------------------------------------------------------------
(* Deleted facts.                                                          *)

\* Writes that all belong to somebody's transaction stay as they are when a
\* request leaves: it gives its own up.
LEMMA LeaveKeeps ==
  ASSUME NEW r \in Request, MemoryInv, Leave(r)
  PROVE  MemoryInv'
<1>1. /\ writes' = [q \in Request |-> writes'[q]]
      /\ pc' = [q \in Request |-> pc'[q]]
      /\ UNCHANGED <<facts, forgotten>>
      /\ pc'[r] = "over" /\ writes'[r] = NoWrites /\ DOMAIN writes'[r] = {}
      /\ \A q \in Request \ {r} : pc'[q] = pc[q] /\ writes'[q] = writes[q]
  BY DEF Leave, Goto, MemoryInv, NoWrites
<1>2. ForgottenStaysForgotten'
  BY <1>1 DEF MemoryInv, ForgottenStaysForgotten
<1>3. ASSUME NEW q \in Request PROVE FreshInv(q)'
  BY <1>1, <1>3 DEF MemoryInv, FreshInv, Settled
<1>4. ASSUME NEW q \in Request PROVE WritesInv(q)'
  <2>1. CASE q = r
    BY <1>1, <2>1 DEF WritesInv
  <2>2. CASE q # r
    BY <1>1, <2>2 DEF MemoryInv, WritesInv, Settled
  <2>3. QED
    BY <2>1, <2>2
<1>5. QED
  BY <1>1, <1>2, <1>3, <1>4 DEF MemoryInv

\* A step within r that writes no row.
LEMMA GoKeeps ==
  ASSUME NEW r \in Request, NEW s, MemoryInv, pc' = [pc EXCEPT ![r] = s] \/ UNCHANGED pc,
         s \in {"reply", "over"} \/ ~Settled(r), UNCHANGED <<writes, facts, forgotten>>
  PROVE  MemoryInv'
<1>1. /\ pc' = [q \in Request |-> pc'[q]]
      /\ \A q \in Request : Settled(q) => Settled(q)'
  BY DEF MemoryInv, Settled
<1>2. QED
  BY <1>1 DEF MemoryInv, ForgottenStaysForgotten, FreshInv, WritesInv

\* A transaction that writes a version of a row nobody else has locked, and
\* nobody has deleted or is yet to insert.
LEMMA WriteKeeps ==
  ASSUME NEW r \in Request, NEW id, NEW version, NEW s, MemoryInv,
         ~Settled(r),
         writes' = [writes EXCEPT ![r] = With(r, id, version)],
         pc' = [pc EXCEPT ![r] = s] \/ UNCHANGED pc,
         UNCHANGED <<facts, forgotten>>,
         version = None \/ version.id = id,
         id \notin forgotten,
         \A q \in Request \ {r} : id \notin DOMAIN writes[q] /\ (id.by = q => Settled(q))
  PROVE  MemoryInv'
<1>1. /\ writes' = [q \in Request |-> writes'[q]]
      /\ pc' = [q \in Request |-> pc'[q]]
      /\ writes'[r] = With(r, id, version)
      /\ \A q \in Request \ {r} : pc'[q] = pc[q] /\ writes'[q] = writes[q]
  BY DEF MemoryInv
<1>2. /\ DOMAIN writes'[r] = DOMAIN writes[r] \cup {id}
      /\ \A i \in DOMAIN writes'[r] : writes'[r][i] = IF i = id THEN version ELSE writes[r][i]
  BY <1>1 DEF With
<1>3. \A q \in Request \ {r} : Settled(q)' = Settled(q)
  BY <1>1 DEF Settled
<1>4. ForgottenStaysForgotten'
  BY DEF MemoryInv, ForgottenStaysForgotten
<1>5. ASSUME NEW q \in Request PROVE FreshInv(q)'
  BY <1>1 DEF MemoryInv, FreshInv, Settled
<1>6. WritesInv(r)'
  BY <1>1, <1>2, <1>3 DEF MemoryInv, WritesInv
<1>7. ASSUME NEW q \in Request \ {r} PROVE WritesInv(q)'
  <2>1. \A i \in DOMAIN writes[q] : i # id /\ i \notin DOMAIN writes[r] /\ (i.by = r => Settled(r))
    BY DEF MemoryInv, WritesInv
  <2>2. QED
    BY <1>1, <1>2, <1>3, <2>1 DEF MemoryInv, WritesInv
<1>8. QED
  BY <1>1, <1>4, <1>5, <1>6, <1>7 DEF MemoryInv

\* A commit: what it deletes was locked by it, and by nobody else.
LEMMA SaveFactsKeeps ==
  ASSUME NEW r \in Request, MemoryInv, Save(r),
         writes' = [writes EXCEPT ![r] = NoWrites],
         pc' = [pc EXCEPT ![r] = "reply"]
  PROVE  MemoryInv'
<1>1. /\ writes' = [q \in Request |-> writes'[q]]
      /\ pc' = [q \in Request |-> pc'[q]]
      /\ pc'[r] = "reply" /\ DOMAIN writes'[r] = {}
      /\ \A q \in Request \ {r} : pc'[q] = pc[q] /\ writes'[q] = writes[q]
  BY DEF MemoryInv, NoWrites
<1>2. facts' = Written(r, facts)
  BY DEF Save, Store
<1>3. forgotten' = forgotten \cup {id \in DOMAIN writes[r] : writes[r][id] = None}
  BY DEF Save
<1>4. \A row \in facts' :
        \/ row \in facts /\ row.id \notin DOMAIN writes[r]
        \/ row.id \in DOMAIN writes[r] /\ writes[r][row.id] # None
  BY <1>2 DEF Written, MemoryInv, WritesInv
<1>5. ForgottenStaysForgotten'
  BY <1>3, <1>4 DEF MemoryInv, ForgottenStaysForgotten, WritesInv
<1>6. ASSUME NEW q \in Request PROVE FreshInv(q)'
  <2>1. CASE q = r
    BY <1>1, <2>1 DEF FreshInv, Settled
  <2>2. CASE q # r
    <3>1. Settled(q)' = Settled(q)
      BY <1>1, <2>2 DEF Settled
    <3>2. ~Settled(q) => \A id \in DOMAIN writes[r] : id.by # q
      BY <2>2 DEF MemoryInv, WritesInv
    <3>3. QED
      BY <1>3, <1>4, <3>1, <3>2 DEF MemoryInv, FreshInv
  <2>3. QED
    BY <2>1, <2>2
<1>7. ASSUME NEW q \in Request PROVE WritesInv(q)'
  <2>1. CASE q = r
    BY <1>1, <2>1 DEF WritesInv
  <2>2. CASE q # r
    <3>1. \A p \in Request : Settled(p) => Settled(p)'
      BY <1>1 DEF Settled
    <3>2. \A id \in DOMAIN writes[q] : id \notin DOMAIN writes[r]
      BY <2>2 DEF MemoryInv, WritesInv
    <3>3. QED
      BY <1>1, <1>3, <2>2, <3>1, <3>2 DEF MemoryInv, WritesInv
  <2>3. QED
    BY <2>1, <2>2
<1>8. QED
  BY <1>1, <1>5, <1>6, <1>7 DEF MemoryInv

\* A row that is there, and locked by nobody else, may be written.
LEMMA RowIsFree ==
  ASSUME NEW r \in Request, MemoryInv, NEW row \in Written(r, facts), RowHolders(r, row.id) = {}
  PROVE  /\ row.id \notin forgotten
         /\ \A q \in Request \ {r} :
              row.id \notin DOMAIN writes[q] /\ (row.id.by = q => Settled(q))
<1>1. \A q \in Request \ {r} : row.id \notin DOMAIN writes[q]
  BY DEF RowHolders
<1>2. CASE row \in facts
  BY <1>1, <1>2 DEF MemoryInv, ForgottenStaysForgotten, FreshInv
<1>3. CASE row \notin facts
  <2>1. row.id \in DOMAIN writes[r]
    BY <1>3 DEF Written, MemoryInv, WritesInv
  <2>2. QED
    BY <1>1, <2>1 DEF MemoryInv, WritesInv
<1>4. QED
  BY <1>2, <1>3

\* The three statements that write.
LEMMA InsertKeeps ==
  ASSUME NEW r \in Request, MemoryInv, Insert(r)
  PROVE  MemoryInv'
<1> DEFINE row == NewRow(r)
<1>1. row.id.by = r
  BY DEF NewRow
<1>2. ~Settled(r)
  BY DEF Insert, Settled
<1>3. row.id \notin forgotten
  BY <1>1, <1>2 DEF MemoryInv, FreshInv
<1>4. \A q \in Request \ {r} : row.id \notin DOMAIN writes[q] /\ row.id.by # q
  BY <1>1, <1>2 DEF MemoryInv, WritesInv
<1>5. writes' = [writes EXCEPT ![r] = With(r, row.id, row)]
  BY DEF Insert
<1>6. pc' = [pc EXCEPT ![r] = "facts"] /\ UNCHANGED <<facts, forgotten>>
  BY DEF Insert, Goto, table
<1>7. QED
  BY <1>2, <1>3, <1>4, <1>5, <1>6, WriteKeeps

LEMMA FlushKeeps ==
  ASSUME NEW r \in Request, MemoryInv, Flush(r)
  PROVE  MemoryInv'
<1>1. PICK row \in Written(r, facts) : row.id = change[r].id /\ Update(r, row)
  BY DEF Flush
<1>2. ~Settled(r)
  BY DEF Flush, Settled
<1>3. RowHolders(r, row.id) = {}
  BY <1>1 DEF Flush
<1>4. Merged(row, change[r]).id = row.id
  BY DEF Merged
<1>5. writes' = [writes EXCEPT ![r] = With(r, row.id, Merged(row, change[r]))]
  BY <1>1 DEF Update
<1>6. UNCHANGED <<pc, facts, forgotten>>
  BY DEF Flush, table
<1>7. /\ row.id \notin forgotten
      /\ \A q \in Request \ {r} :
           row.id \notin DOMAIN writes[q] /\ (row.id.by = q => Settled(q))
  BY <1>3, RowIsFree
<1>8. QED
  BY <1>2, <1>4, <1>5, <1>6, <1>7, WriteKeeps

LEMMA DeleteKeeps ==
  ASSUME NEW r \in Request, MemoryInv, DeleteFact(r)
  PROVE  MemoryInv'
<1>1. PICK row \in facts : row.id = target[r]
  BY DEF DeleteFact, Exists
<1>2. ~Settled(r)
  BY DEF DeleteFact, Settled
<1>3. /\ target[r] \notin forgotten
      /\ \A q \in Request \ {r} :
           target[r] \notin DOMAIN writes[q] /\ (target[r].by = q => Settled(q))
  BY <1>1 DEF DeleteFact, RowHolders, MemoryInv, ForgottenStaysForgotten, FreshInv
<1>4. QED
  BY <1>2, <1>3, WriteKeeps DEF DeleteFact, Goto, table

\* Every step keeps the invariant.
LEMMA MemoryInvStep == MemoryInv /\ [Next]_vars => MemoryInv'
<1> SUFFICES ASSUME MemoryInv, [Next]_vars PROVE MemoryInv'
  OBVIOUS
<1>1. CASE UNCHANGED vars
  BY <1>1 DEF vars, table, MemoryInv, ForgottenStaysForgotten, WritesInv, FreshInv, Settled
<1>2. ASSUME NEW r \in Request, NEW s,
             OpenContext(r) \/ Extract(r, s) \/ Forget(r, s) \/ BootStep(r) \/ BootFails(r)
               \/ WithContext(r) \/ ListFacts(r) \/ CreateSession(r) \/ ModelAnswers(r)
               \/ LookUpMisses(r) \/ LookUpFinds(r)
      PROVE  MemoryInv'
  <2>1. ~Settled(r) /\ UNCHANGED <<writes, facts, forgotten>>
    BY <1>2 DEF OpenContext, Extract, Forget, BootStep, BootFails, WithContext, ListFacts,
         CreateSession, ModelAnswers, LookUpMisses, LookUpFinds, AtEntry, Settled, table
  <2>2. UNCHANGED pc \/ \E to : pc' = [pc EXCEPT ![r] = to]
    BY <1>2 DEF OpenContext, Extract, Forget, BootStep, BootFails, WithContext, ListFacts,
         CreateSession, ModelAnswers, LookUpMisses, LookUpFinds, Goto
  <2>3. QED
    BY <2>1, <2>2, GoKeeps
<1>3. ASSUME NEW r \in Request, LoadSession(r) PROVE MemoryInv'
  <2>1. CASE target[r] \in sessions
    BY <1>3, <2>1, GoKeeps DEF LoadSession, Goto, Settled, table
  <2>2. CASE target[r] \notin sessions
    BY <1>3, <2>2, LeaveKeeps DEF LoadSession
  <2>3. QED
    BY <2>1, <2>2
<1>4. ASSUME NEW r \in Request, CommitFacts(r) \/ CommitDelete(r) PROVE MemoryInv'
  BY <1>4, SaveFactsKeeps DEF CommitFacts, CommitDelete, Goto
<1>5. ASSUME NEW r \in Request, NothingToDelete(r) \/ Reply(r) \/ Refused(r) \/ Fail(r)
      PROVE  MemoryInv'
  BY <1>5, LeaveKeeps DEF NothingToDelete, Reply, Refused, Fail
<1>6. QED
  BY <1>1, <1>2, <1>3, <1>4, <1>5, InsertKeeps, FlushKeeps, DeleteKeeps DEF Next, Proceed

\* A new database has deleted nothing.
LEMMA MemoryInvInit == Init => MemoryInv
<1> SUFFICES ASSUME Init PROVE MemoryInv
  OBVIOUS
<1>1. \A row \in facts : row.id.by = Earlier
  BY DEF Init
<1>2. \A r \in Request : DOMAIN writes[r] = {} /\ r # Earlier
  BY BatchAssumption DEF Init, NoWrites
<1>3. QED
  BY <1>1, <1>2 DEF Init, MemoryInv, ForgottenStaysForgotten, WritesInv, FreshInv

\* Spec => []ForgottenStaysForgotten: no update or insert of an extraction
\* brings back a row that was deleted (upsert_fact, delete_fact).
THEOREM ForgottenHolds == Spec => []ForgottenStaysForgotten
<1>1. MemoryInv => ForgottenStaysForgotten
  BY DEF MemoryInv
<1>2. QED
  BY MemoryInvInit, MemoryInvStep, <1>1, PTL DEF Spec

-----------------------------------------------------------------------------
(* What is stored. *)


\* What r's own steps leave alone of another request q.
Stays(q) ==
  /\ batch'[q] = batch[q] /\ next'[q] = next[q] /\ change'[q] = change[q]
  /\ writes'[q] = writes[q] /\ pc'[q] = pc[q]

\* The locals of the requests are still functions.
Shapes ==
  /\ batch = [q \in Request |-> batch[q]] /\ next = [q \in Request |-> next[q]]
  /\ change = [q \in Request |-> change[q]] /\ held = [q \in Request |-> held[q]]
  /\ writes = [q \in Request |-> writes[q]] /\ pc = [q \in Request |-> pc[q]]

\* A request that rests keeps its invariant while the table moves on, as the
\* cells of the new table are noted.
LEMMA RestKeeps ==
  ASSUME NEW q \in Request, BatchInv(q), Stays(q), held[q] \subseteq held'[q],
         UNCHANGED facts \/ Cells(batch[q], facts') \subseteq held'[q]
  PROVE  BatchInv(q)'
<1>1. Told(q)' = Told(q)
  BY DEF Stays, Told
<1>2. \A i, c : /\ Last(q, i)' = Last(q, i)
                /\ Sent(q, i, c)' = Sent(q, i, c)
                /\ Sending(q, i, c)' = Sending(q, i, c)
  BY DEF Stays, Last, Sent, Sending
<1>3. Cells(batch[q], facts)' = Cells(batch[q], facts')
  BY DEF Stays, Cells
<1>4. CellsInv(q) => CellsInv(q)'
  BY <1>2, <1>3 DEF Stays, CellsInv
<1>5. ChangeInv(q)' /\ RowsInv(q)'
  BY DEF Stays, BatchInv, ChangeInv, RowsInv
<1>6. Entry(q)' = Entry(q)
  BY DEF Stays, Entry
<1>7. QED
  BY <1>1, <1>4, <1>5, <1>6 DEF Stays, BatchInv

\* A step of r keeps the invariant if it keeps r's part of it.
LEMMA OneMoves ==
  ASSUME NEW r \in Request, StoredInv, Shapes',
         \A q \in Request \ {r} : Stays(q) /\ held'[q] = held[q],
         UNCHANGED facts,
         BatchInv(r)'
  PROVE  StoredInv'
<1>1. \A q \in Request \ {r} : BatchInv(q)'
  BY RestKeeps DEF StoredInv
<1>2. QED
  BY <1>1 DEF StoredInv, Shapes

LEMMA LeaveKeepsStored ==
  ASSUME NEW r \in Request, StoredInv, Leave(r)
  PROVE  StoredInv'
<1>1. /\ Shapes'
      /\ \A q \in Request \ {r} : Stays(q) /\ held'[q] = held[q]
      /\ pc'[r] = "over" /\ batch'[r] = <<>> /\ next'[r] = 1 /\ change'[r] = None
      /\ writes'[r] = NoWrites /\ UNCHANGED facts
  BY DEF Leave, Goto, StoredInv, Shapes, Stays
<1>2. BatchInv(r)'
  <2>1. DOMAIN writes'[r] = {}
    BY <1>1 DEF NoWrites
  <2>2. QED
    BY <1>1, <2>1 DEF BatchInv, ChangeInv, RowsInv
<1>3. QED
  BY <1>1, <1>2, OneMoves

\* A step that has nothing to do with the facts.
LEMMA AsideKeeps ==
  ASSUME NEW r \in Request, StoredInv,
         UNCHANGED <<batch, next, change, writes, held, facts>>,
         pc[r] \notin {"facts", "insert", "reply", "commit"},
         NEW s \in {"context", "load", "delete", "list", "session", "reply", "model"},
         pc' = [pc EXCEPT ![r] = s] \/ UNCHANGED pc
  PROVE  StoredInv'
<1>1. /\ Shapes'
      /\ \A q \in Request \ {r} : Stays(q) /\ held'[q] = held[q]
  BY DEF StoredInv, Shapes, Stays
<1>2. pc'[r] \notin {"facts", "insert", "commit"} /\ (pc'[r] = "reply" => s = "reply")
  BY DEF StoredInv
<1>3. batch'[r] = <<>> /\ next'[r] = 1 /\ writes'[r] = NoWrites /\ change'[r] = None
  BY DEF StoredInv, BatchInv, ChangeInv
<1>4. BatchInv(r)'
  <2>1. DOMAIN writes'[r] = {} /\ DOMAIN batch'[r] = {}
    BY <1>3 DEF NoWrites
  <2>2. Told(r)' = {}
    BY <2>1 DEF Told
  <2>3. QED
    BY <1>2, <1>3, <2>1, <2>2 DEF BatchInv, ChangeInv, RowsInv
<1>5. QED
  BY <1>1, <1>4, OneMoves

LEMMA ModelAnswersKeeps ==
  ASSUME NEW r \in Request, StoredInv, ModelAnswers(r)
  PROVE  StoredInv'
<1>1. PICK b \in Batch : /\ batch' = [batch EXCEPT ![r] = b]
                         /\ held' = [held EXCEPT ![r] = Cells(b, facts)]
  BY DEF ModelAnswers
<1>2. /\ Shapes'
      /\ \A q \in Request \ {r} : Stays(q) /\ held'[q] = held[q]
      /\ batch'[r] = b /\ held'[r] = Cells(b, facts) /\ pc'[r] = "facts"
      /\ UNCHANGED <<next, change, writes, facts>>
  BY <1>1 DEF ModelAnswers, Goto, StoredInv, Shapes, Stays
<1>3. next[r] = 1 /\ change[r] = None /\ writes[r] = NoWrites
  BY DEF ModelAnswers, StoredInv, BatchInv, ChangeInv
<1>4. b \in Seq(Content \cup {Bad}) /\ Len(b) \in Nat
  BY BatchAssumption
<1>5. Cells(batch[r], facts)' = Cells(b, facts)
  BY <1>2 DEF Cells
<1>6. CellsInv(r)'
  BY <1>2, <1>3, <1>4, <1>5 DEF CellsInv
<1>7. DOMAIN writes'[r] = {}
  BY <1>2, <1>3 DEF NoWrites
<1>8. BatchInv(r)'
  BY <1>2, <1>3, <1>4, <1>6, <1>7 DEF BatchInv, ChangeInv, RowsInv
<1>9. QED
  BY <1>2, <1>8, OneMoves

\* The next entry is one of the batch.
LEMMA AtEntryIs ==
  ASSUME NEW r \in Request, StoredInv, AtEntry(r) \/ pc[r] = "insert"
  PROVE  /\ next[r] \in 1 .. Len(batch[r]) /\ Len(batch[r]) \in Nat
         /\ DOMAIN batch[r] = 1 .. Len(batch[r])
         /\ CellsInv(r) /\ change[r] = None
  BY DEF StoredInv, BatchInv, AtEntry, ChangeInv

LEMMA LookUpMissesKeeps ==
  ASSUME NEW r \in Request, StoredInv, LookUpMisses(r)
  PROVE  StoredInv'
<1>1. /\ Shapes'
      /\ \A q \in Request \ {r} : Stays(q) /\ held'[q] = held[q]
      /\ pc'[r] = "insert" /\ Entry(r) # Bad
      /\ UNCHANGED <<batch, next, change, writes, held, facts>>
  BY DEF LookUpMisses, Goto, StoredInv, Shapes, Stays, extraction, table
<1>2. /\ next[r] \in 1 .. Len(batch[r]) /\ Len(batch[r]) \in Nat
      /\ CellsInv(r) /\ change[r] = None
  BY AtEntryIs DEF LookUpMisses
<1>3. CellsInv(r)' /\ RowsInv(r)'
  <2>1. Cells(batch[r], facts)' = Cells(batch[r], facts)
    BY <1>1 DEF Cells
  <2>2. \A i, c : /\ Last(r, i)' = Last(r, i)
                  /\ Sent(r, i, c)' = Sent(r, i, c)
                  /\ Sending(r, i, c)' = Sending(r, i, c)
    BY <1>1 DEF Last, Sent, Sending
  <2>3. QED
    BY <1>1, <1>2, <2>1, <2>2 DEF CellsInv, StoredInv, BatchInv, RowsInv
<1>4. BatchInv(r)'
  BY <1>1, <1>2, <1>3 DEF StoredInv, BatchInv, ChangeInv, Entry
<1>5. QED
  BY <1>1, <1>4, OneMoves

\* One more entry has been looked up: the cells of the earlier ones are where
\* they were, if they still count.
LEMMA NextEntry ==
  ASSUME NEW r \in Request, NEW n, StoredInv, AtEntry(r) \/ pc[r] = "insert", Entry(r) # Bad,
         n = next[r], next'[r] = next[r] + 1, batch'[r] = batch[r], held'[r] = held[r],
         UNCHANGED facts,
         \A i \in 1 .. next[r] - 1, c \in Column :
           batch[r][i].key # Entry(r).key /\ Sent(r, i, c) => Sent(r, i, c)',
         \A c \in Column : <<n, c>> \in held[r] \/ Sent(r, n, c)' \/ Sending(r, n, c)'
  PROVE  CellsInv(r)'
<1>1. /\ next[r] \in 1 .. Len(batch[r]) /\ Len(batch[r]) \in Nat
      /\ CellsInv(r) /\ change[r] = None
  BY AtEntryIs
<1>2. 1 .. next'[r] - 1 = (1 .. next[r] - 1) \cup {next[r]}
  BY <1>1
<1>3. Cells(batch[r], facts)' \subseteq held'[r]
  <2>1. Cells(batch[r], facts)' = Cells(batch[r], facts)
    BY DEF Cells
  <2>2. QED
    BY <1>1, <2>1 DEF CellsInv
<1>4. ASSUME NEW i \in 1 .. next[r] - 1, Last(r, i)', NEW c \in Column
      PROVE  <<i, c>> \in held[r] \/ Sent(r, i, c)'
  <2>1. batch[r][i].key # Entry(r).key /\ Last(r, i)
    BY <1>1, <1>2, <1>4 DEF Last, Entry
  <2>2. ~Sending(r, i, c)
    BY <1>1 DEF Sending
  <2>3. QED
    BY <1>1, <2>1, <2>2 DEF CellsInv
<1>5. \A i \in 1 .. next'[r] - 1 : batch'[r][i] # Bad
  BY <1>1, <1>2 DEF CellsInv, Entry
<1>6. ASSUME NEW i \in 1 .. next'[r] - 1, Last(r, i)', NEW c \in Column
      PROVE  <<i, c>> \in held'[r] \/ Sent(r, i, c)' \/ Sending(r, i, c)'
  <2>1. CASE i = n
    BY <2>1
  <2>2. CASE i # n
    BY <1>2, <1>4, <1>6, <2>2
  <2>3. QED
    BY <2>1, <2>2
<1>7. next'[r] - 1 <= Len(batch'[r])
  BY <1>1
<1>8. QED
  BY <1>3, <1>5, <1>6, <1>7 DEF CellsInv

LEMMA LookUpFindsKeeps ==
  ASSUME NEW r \in Request, StoredInv, LookUpFinds(r)
  PROVE  StoredInv'
<1> DEFINE e == Entry(r)
           differ(row) == {c \in Column : row[c] # e[c]}
<1>1. PICK n : n = next[r]
  OBVIOUS
<1>2. PICK row \in Written(r, facts) :
        /\ row.key = e.key
        /\ change' = [change EXCEPT ![r] =
             IF differ(row) = {} THEN None
             ELSE [id |-> row.id, cells |-> [c \in differ(row) |-> e[c]]]]
  BY DEF LookUpFinds
<1>3. /\ Shapes'
      /\ \A q \in Request \ {r} : Stays(q) /\ held'[q] = held[q]
      /\ pc'[r] = "facts" /\ e # Bad
      /\ next'[r] = next[r] + 1
      /\ change'[r] = IF differ(row) = {} THEN None
                      ELSE [id |-> row.id, cells |-> [c \in differ(row) |-> e[c]]]
      /\ UNCHANGED <<batch, writes, held, facts>>
  BY <1>2 DEF LookUpFinds, AtEntry, Goto, StoredInv, Shapes, Stays, table
<1>4. /\ next[r] \in 1 .. Len(batch[r]) /\ Len(batch[r]) \in Nat
      /\ DOMAIN batch[r] = 1 .. Len(batch[r])
      /\ CellsInv(r) /\ change[r] = None
  BY AtEntryIs DEF LookUpFinds
<1>5. /\ row \in Fact /\ row.id.key = row.key
      /\ row \in facts \/ \E id \in DOMAIN writes[r] : writes[r][id] = row /\ row # None
  BY DEF Written, StoredInv, BatchInv, RowsInv
<1>6. [id |-> row.id, cells |-> [c \in differ(row) |-> e[c]]] \in Change
  <2>1. e \in Content
    BY <1>3, <1>4 DEF Entry, StoredInv, BatchInv
  <2>2. [c \in differ(row) |-> e[c]] \in [differ(row) -> Value \cup Confidence]
    BY <2>1 DEF Content, Column
  <2>3. row.id \in FactId
    BY <1>5 DEF Fact
  <2>4. QED
    BY <2>2, <2>3 DEF Change
<1>7. ASSUME NEW c \in Column
      PROVE  <<n, c>> \in held[r] \/ Sent(r, n, c)' \/ Sending(r, n, c)'
  <2>1. CASE row[c] # e[c]
    <3>1. c \in differ(row)
      BY <2>1
    <3>2. change'[r] = [id |-> row.id, cells |-> [d \in differ(row) |-> e[d]]]
      BY <1>3, <3>1
    <3>3. change'[r] # None
      BY <1>6, <3>2, NoneAssumption
    <3>4. QED
      BY <1>1, <1>3, <1>4, <3>1, <3>2, <3>3 DEF Sending
  <2>2. CASE row[c] = e[c] /\ row \in facts
    <3>1. <<n, c>> \in Cells(batch[r], facts)
      BY <1>1, <1>2, <1>3, <1>4, <2>2 DEF Cells, Entry
    <3>2. QED
      BY <1>4, <3>1 DEF CellsInv
  <2>3. CASE row[c] = e[c] /\ row \notin facts
    BY <1>1, <1>2, <1>3, <1>5, <2>3 DEF Sent, Entry
  <2>4. QED
    BY <2>1, <2>2, <2>3
<1>8. \A i \in 1 .. next[r] - 1, c \in Column : Sent(r, i, c) => Sent(r, i, c)'
  BY <1>3 DEF Sent
<1>9. CellsInv(r)'
  BY <1>1, <1>3, <1>7, <1>8, NextEntry DEF LookUpFinds
<1>10. ChangeInv(r)'
  <2>1. change'[r] # None => change'[r] \in Change
    BY <1>3, <1>6
  <2>2. next'[r] > 1 /\ next'[r] - 1 = next[r] /\ batch'[r][next[r]] = e
    BY <1>3, <1>4 DEF Entry
  <2>3. QED
    BY <1>2, <1>3, <1>5, <2>1, <2>2 DEF ChangeInv
<1>11. BatchInv(r)'
  BY <1>3, <1>4, <1>9, <1>10 DEF StoredInv, BatchInv, RowsInv
<1>12. QED
  BY <1>3, <1>11, OneMoves

LEMMA InsertKeepsStored ==
  ASSUME NEW r \in Request, StoredInv, Insert(r)
  PROVE  StoredInv'
<1> DEFINE row == NewRow(r)
<1>1. PICK n : n = next[r]
  OBVIOUS
<1>2. /\ Shapes'
      /\ \A q \in Request \ {r} : Stays(q) /\ held'[q] = held[q]
      /\ pc'[r] = "facts" /\ next'[r] = next[r] + 1 /\ writes'[r] = With(r, row.id, row)
      /\ UNCHANGED <<batch, change, held, facts>>
  BY DEF Insert, Goto, StoredInv, Shapes, Stays, table
<1>3. /\ next[r] \in 1 .. Len(batch[r]) /\ Len(batch[r]) \in Nat
      /\ DOMAIN batch[r] = 1 .. Len(batch[r])
      /\ CellsInv(r) /\ change[r] = None
  BY AtEntryIs DEF Insert
<1>4. Entry(r) \in Content /\ Entry(r) # Bad /\ batch[r][n] = Entry(r)
  BY <1>1, <1>3 DEF Insert, Entry, StoredInv, BatchInv
<1>5. row \in Fact /\ row # None /\ row.key = row.id.key
  BY <1>4, NoneAssumption DEF NewRow, Fact, FactId, Content
<1>6. /\ DOMAIN writes'[r] = DOMAIN writes[r] \cup {row.id}
      /\ \A id \in DOMAIN writes'[r] : writes'[r][id] = IF id = row.id THEN row ELSE writes[r][id]
  BY <1>2 DEF With
<1>7. ASSUME NEW i \in 1 .. next[r] - 1, NEW c \in Column,
             batch[r][i].key # Entry(r).key, Sent(r, i, c)
      PROVE  Sent(r, i, c)'
  <2>1. PICK id \in DOMAIN writes[r] :
          /\ writes[r][id] # None
          /\ writes[r][id].key = batch[r][i].key /\ writes[r][id][c] = batch[r][i][c]
    BY <1>7 DEF Sent
  <2>2. id # row.id
    BY <1>7, <2>1 DEF StoredInv, BatchInv, RowsInv, NewRow
  <2>3. QED
    BY <1>2, <1>6, <2>1, <2>2 DEF Sent
<1>8. ASSUME NEW c \in Column PROVE Sent(r, n, c)'
  <2>1. row.key = batch[r][n].key /\ row[c] = batch[r][n][c]
    BY <1>4 DEF NewRow, Column
  <2>2. row.id \in DOMAIN writes'[r] /\ writes'[r][row.id] = row
    BY <1>6
  <2>3. QED
    BY <1>2, <1>5, <2>1, <2>2 DEF Sent
<1>9. CellsInv(r)'
  BY <1>1, <1>2, <1>4, <1>7, <1>8, NextEntry DEF Insert
<1>10. RowsInv(r)'
  BY <1>5, <1>6 DEF StoredInv, BatchInv, RowsInv
<1>11. BatchInv(r)'
  BY <1>2, <1>3, <1>9, <1>10 DEF StoredInv, BatchInv, ChangeInv
<1>12. QED
  BY <1>2, <1>11, OneMoves

LEMMA FlushKeepsStored ==
  ASSUME NEW r \in Request, StoredInv, Flush(r)
  PROVE  StoredInv'
<1>1. PICK row \in Written(r, facts) : row.id = change[r].id /\ Update(r, row)
  BY DEF Flush
<1> DEFINE new == Merged(row, change[r])
           last == batch[r][next[r] - 1]
<1>2. /\ Shapes'
      /\ \A q \in Request \ {r} : Stays(q) /\ held'[q] = held[q]
      /\ pc[r] = "facts" /\ change[r] # None /\ change'[r] = None
      /\ writes'[r] = With(r, row.id, new)
      /\ UNCHANGED <<pc, batch, next, held, facts>>
  BY <1>1 DEF Flush, Update, StoredInv, Shapes, Stays, table
<1>3. /\ batch[r] \in Seq(Content \cup {Bad}) /\ next[r] \in Nat /\ next[r] > 1
      /\ CellsInv(r) /\ RowsInv(r)
      /\ change[r].id.key = last.key
      /\ \A c \in DOMAIN change[r].cells : change[r].cells[c] = last[c]
  BY <1>2 DEF StoredInv, BatchInv, ChangeInv
<1>4. last \in Content
  BY <1>3 DEF CellsInv
<1>5. /\ row \in Fact /\ row.id.key = row.key
      /\ row.id \in DOMAIN writes[r] => writes[r][row.id] = row
  BY <1>3 DEF Written, StoredInv, RowsInv
<1>6. /\ new.id = row.id /\ new.key = row.key
      /\ \A c \in Column : new[c] = IF c \in DOMAIN change[r].cells THEN last[c] ELSE row[c]
  BY <1>3 DEF Merged, Cell, Column
<1>7. new \in Fact /\ new # None
  <2>1. new.value \in Value /\ new.confidence \in Confidence
    BY <1>4, <1>5, <1>6 DEF Column, Content, Fact
  <2>2. QED
    BY <1>5, <2>1, NoneAssumption DEF Merged, Fact
<1>8. /\ DOMAIN writes'[r] = DOMAIN writes[r] \cup {row.id}
      /\ \A id \in DOMAIN writes'[r] : writes'[r][id] = IF id = row.id THEN new ELSE writes[r][id]
  BY <1>2 DEF With
<1>9. ASSUME NEW i \in 1 .. next[r] - 1, Last(r, i), NEW c \in Column
      PROVE  <<i, c>> \in held[r] \/ Sent(r, i, c)'
  <2>1. CASE Sending(r, i, c)
    <3>1. new.key = batch[r][i].key /\ new[c] = batch[r][i][c]
      BY <1>1, <1>3, <1>5, <1>6, <2>1 DEF Sending
    <3>2. QED
      BY <1>2, <1>7, <1>8, <3>1 DEF Sent
  <2>2. CASE Sent(r, i, c)
    <3>1. PICK id \in DOMAIN writes[r] :
            /\ writes[r][id] # None
            /\ writes[r][id].key = batch[r][i].key /\ writes[r][id][c] = batch[r][i][c]
      BY <2>2 DEF Sent
    <3>2. CASE id # row.id
      BY <1>2, <1>8, <3>1, <3>2 DEF Sent
    <3>3. CASE id = row.id
      <4>1. row.key = batch[r][i].key /\ row[c] = batch[r][i][c] /\ last.key = row.key
        BY <1>1, <1>3, <1>5, <3>1, <3>3
      <4>2. i = next[r] - 1
        BY <1>3, <1>9, <4>1 DEF Last
      <4>3. new[c] = batch[r][i][c]
        BY <1>6, <4>1, <4>2
      <4>4. QED
        BY <1>2, <1>6, <1>7, <1>8, <4>1, <4>3 DEF Sent
    <3>4. QED
      BY <3>2, <3>3
  <2>3. QED
    BY <1>3, <1>9, <2>1, <2>2 DEF CellsInv
<1>10. CellsInv(r)'
  <2>1. Cells(batch[r], facts)' = Cells(batch[r], facts)
    BY <1>2 DEF Cells
  <2>2. \A i : Last(r, i)' = Last(r, i)
    BY <1>2 DEF Last
  <2>3. QED
    BY <1>2, <1>3, <1>9, <2>1, <2>2 DEF CellsInv
<1>11. RowsInv(r)'
  BY <1>3, <1>5, <1>6, <1>7, <1>8 DEF RowsInv
<1>12. BatchInv(r)'
  BY <1>2, <1>10, <1>11 DEF StoredInv, BatchInv, ChangeInv
<1>13. QED
  BY <1>2, <1>12, OneMoves

\* What a commit makes visible is noted for everybody.
LEMMA SaveKeepsStored ==
  ASSUME NEW r \in Request, StoredInv, Save(r),
         writes' = [writes EXCEPT ![r] = NoWrites],
         pc' = [pc EXCEPT ![r] = "reply"],
         UNCHANGED <<batch, next, change>>,
         change[r] = None,
         Told(r) \subseteq held'[r]
  PROVE  StoredInv'
<1>1. /\ Shapes'
      /\ \A q \in Request \ {r} : Stays(q)
      /\ pc'[r] = "reply" /\ writes'[r] = NoWrites
      /\ \A q \in Request : held'[q] = held[q] \cup Cells(batch[q], facts')
      /\ facts' = Written(r, facts)
  BY DEF Save, Store, StoredInv, Shapes, Stays
<1>2. facts' \subseteq Fact /\ \A row \in facts' : row.id.key = row.key
  BY <1>1 DEF Written, StoredInv, BatchInv, RowsInv
<1>3. \A q \in Request \ {r} : BatchInv(q)'
  BY <1>1, RestKeeps DEF StoredInv
<1>4. DOMAIN writes'[r] = {}
  BY <1>1 DEF NoWrites
<1>5. Told(r)' = Told(r)
  BY DEF Told
<1>6. BatchInv(r)'
  BY <1>1, <1>4, <1>5 DEF StoredInv, BatchInv, ChangeInv, RowsInv
<1>7. QED
  BY <1>1, <1>2, <1>3, <1>6 DEF StoredInv, Shapes

\* A committed batch is in the table, or was in it.
LEMMA CommittedWasThere ==
  ASSUME NEW r \in Request, StoredInv, CommitFacts(r)
  PROVE  Told(r) \subseteq held'[r]
<1>1. /\ held'[r] = held[r] \cup Cells(batch[r], Written(r, facts))
      /\ pc[r] = "facts" /\ change[r] = None /\ next[r] > Len(batch[r])
  BY DEF CommitFacts, Save, Store, StoredInv
<1>2. /\ CellsInv(r) /\ next[r] \in Nat /\ Len(batch[r]) \in Nat
      /\ DOMAIN batch[r] = 1 .. Len(batch[r])
      /\ DOMAIN batch[r] = 1 .. next[r] - 1
  BY <1>1 DEF StoredInv, BatchInv, CellsInv
<1>3. ASSUME NEW i \in DOMAIN batch[r], NEW c \in Column, <<i, c>> \in Told(r)
      PROVE  <<i, c>> \in held'[r]
  <2>1. \A j \in DOMAIN batch[r] : batch[r][j] # Bad
    BY <1>2 DEF CellsInv
  <2>2. Last(r, i)
    BY <1>2, <1>3, <2>1 DEF Told, Last
  <2>3. CASE Sent(r, i, c)
    <3>1. PICK id \in DOMAIN writes[r] :
            /\ writes[r][id] # None
            /\ writes[r][id].key = batch[r][i].key /\ writes[r][id][c] = batch[r][i][c]
      BY <2>3 DEF Sent
    <3>2. writes[r][id] \in Written(r, facts)
      BY <3>1 DEF Written
    <3>3. <<i, c>> \in Cells(batch[r], Written(r, facts))
      BY <2>1, <3>1, <3>2 DEF Cells
    <3>4. QED
      BY <1>1, <3>3
  <2>4. ~Sending(r, i, c)
    BY <1>1 DEF Sending
  <2>5. QED
    BY <1>1, <1>2, <2>2, <2>3, <2>4 DEF CellsInv
<1>4. Told(r) \subseteq (DOMAIN batch[r]) \X Column
  BY DEF Told
<1>5. QED
  BY <1>3, <1>4

LEMMA DeleteKeepsStored ==
  ASSUME NEW r \in Request, StoredInv, DeleteFact(r)
  PROVE  StoredInv'
<1>1. /\ Shapes'
      /\ \A q \in Request \ {r} : Stays(q) /\ held'[q] = held[q]
      /\ pc[r] = "delete" /\ pc'[r] = "commit"
      /\ writes'[r] = With(r, target[r], None)
      /\ UNCHANGED <<batch, next, change, held, facts>>
  BY DEF DeleteFact, Goto, StoredInv, Shapes, Stays, extraction, table
<1>2. writes[r] = NoWrites /\ batch[r] = <<>> /\ next[r] = 1 /\ change[r] = None
  BY <1>1 DEF StoredInv, BatchInv, ChangeInv
<1>3. \A id \in DOMAIN writes'[r] : writes'[r][id] = None
  BY <1>1, <1>2 DEF With, NoWrites
<1>4. BatchInv(r)'
  BY <1>1, <1>2, <1>3 DEF BatchInv, ChangeInv, RowsInv
<1>5. QED
  BY <1>1, <1>4, OneMoves

LEMMA StoredInvStep == StoredInv /\ [Next]_vars => StoredInv'
<1> SUFFICES ASSUME StoredInv, [Next]_vars PROVE StoredInv'
  OBVIOUS
<1>1. CASE UNCHANGED vars
  <2>1. \A q \in Request : Stays(q) /\ held'[q] = held[q]
    BY <1>1 DEF vars, extraction, table, Stays
  <2>2. \A q \in Request : BatchInv(q)'
    BY <1>1, <2>1, RestKeeps DEF StoredInv, vars, table
  <2>3. QED
    BY <1>1, <2>2 DEF StoredInv, vars, extraction, table
<1>2. ASSUME NEW r \in Request, NEW s,
             OpenContext(r) \/ Extract(r, s) \/ Forget(r, s) \/ BootStep(r) \/ BootFails(r)
               \/ WithContext(r) \/ ListFacts(r) \/ CreateSession(r)
      PROVE  StoredInv'
  <2>1. pc[r] \in {"idle", "context", "list", "session"}
    BY <1>2 DEF OpenContext, Extract, Forget, BootStep, BootFails, WithContext, ListFacts,
         CreateSession
  <2>2. UNCHANGED <<batch, next, change, writes, held, facts>>
    BY <1>2 DEF OpenContext, Extract, Forget, BootStep, BootFails, WithContext, ListFacts,
         CreateSession, extraction, table
  <2>3. \/ UNCHANGED pc
        \/ \E to \in {"context", "load", "delete", "list", "session", "reply", "model"} :
             pc' = [pc EXCEPT ![r] = to]
    BY <1>2 DEF OpenContext, Extract, Forget, BootStep, BootFails, WithContext, ListFacts,
         CreateSession, Goto
  <2>4. QED
    BY <2>1, <2>2, <2>3, AsideKeeps
<1>3. ASSUME NEW r \in Request, LoadSession(r) PROVE StoredInv'
  <2>1. CASE target[r] \in sessions
    BY <1>3, <2>1, AsideKeeps DEF LoadSession, Goto, extraction, table
  <2>2. CASE target[r] \notin sessions
    BY <1>3, <2>2, LeaveKeepsStored DEF LoadSession
  <2>3. QED
    BY <2>1, <2>2
<1>4. ASSUME NEW r \in Request, CommitFacts(r) PROVE StoredInv'
  BY <1>4, CommittedWasThere, SaveKeepsStored DEF CommitFacts, Goto, extraction
<1>5. ASSUME NEW r \in Request, CommitDelete(r) PROVE StoredInv'
  <2>1. batch[r] = <<>> /\ change[r] = None
    BY <1>5 DEF CommitDelete, StoredInv, BatchInv, ChangeInv
  <2>2. Told(r) = {}
    BY <2>1 DEF Told
  <2>3. QED
    BY <1>5, <2>1, <2>2, SaveKeepsStored DEF CommitDelete, Goto, extraction
<1>6. ASSUME NEW r \in Request, NothingToDelete(r) \/ Reply(r) \/ Refused(r) \/ Fail(r)
      PROVE  StoredInv'
  BY <1>6, LeaveKeepsStored DEF NothingToDelete, Reply, Refused, Fail
<1>7. QED
  BY <1>1, <1>2, <1>3, <1>4, <1>5, <1>6, ModelAnswersKeeps, LookUpMissesKeeps,
     LookUpFindsKeeps, InsertKeepsStored, FlushKeepsStored, DeleteKeepsStored DEF Next, Proceed

LEMMA StoredInvInit == Init => StoredInv
<1> SUFFICES ASSUME Init PROVE StoredInv
  OBVIOUS
<1>1. facts \subseteq Fact /\ \A row \in facts : row.id.key = row.key
  BY BatchAssumption DEF Init, Fact, FactId, Content
<1>2. ASSUME NEW r \in Request PROVE BatchInv(r)
  <2>1. /\ pc[r] = "idle" /\ batch[r] = <<>> /\ next[r] = 1 /\ change[r] = None
        /\ writes[r] = NoWrites /\ DOMAIN writes[r] = {}
    BY DEF Init, NoWrites
  <2>2. QED
    BY <2>1 DEF BatchInv, ChangeInv, RowsInv
<1>3. QED
  BY <1>1, <1>2 DEF Init, StoredInv

\* Spec => []StoredWasThere: what an extraction reports as stored was in the
\* table, cell by cell, since its transaction began (memory_step.py).
THEOREM StoredWasThereHolds == Spec => []StoredWasThere
<1>1. StoredInv => StoredWasThere
  BY DEF StoredInv, BatchInv, StoredWasThere
<1>2. QED
  BY StoredInvInit, StoredInvStep, <1>1, PTL DEF Spec

\* Spec => WholeBatches: whatever part of a batch becomes visible, the rest of
\* it is there or was (one transaction per batch, memory_step.py).
THEOREM WholeBatchesHolds == Spec => WholeBatches
<1> DEFINE Whole == facts' = facts \/ facts' \subseteq facts
                      \/ \E r \in Request : pc'[r] # pc[r] /\ Told(r) \subseteq held'[r]
<1>1. ASSUME StoredInv, [Next]_vars PROVE Whole
  <2>1. CASE UNCHANGED vars
    BY <2>1 DEF vars, table
  <2>2. ASSUME NEW r \in Request, CommitFacts(r) PROVE Whole
    <3>1. Told(r) \subseteq held'[r]
      BY <1>1, <2>2, CommittedWasThere
    <3>2. pc'[r] # pc[r]
      BY <1>1, <2>2 DEF CommitFacts, Goto, StoredInv
    <3>3. QED
      BY <3>1, <3>2
  <2>3. ASSUME NEW r \in Request, CommitDelete(r) PROVE Whole
    <3>1. \A id \in DOMAIN writes[r] : writes[r][id] = None
      BY <1>1, <2>3 DEF CommitDelete, StoredInv, BatchInv
    <3>2. facts' \subseteq facts
      BY <2>3, <3>1 DEF CommitDelete, Save, Store, Written
    <3>3. QED
      BY <3>2
  <2>4. ASSUME NEW r \in Request, NEW s,
               \/ OpenContext(r) \/ Extract(r, s) \/ Forget(r, s) \/ BootStep(r) \/ BootFails(r)
               \/ WithContext(r) \/ ListFacts(r) \/ CreateSession(r) \/ LoadSession(r)
               \/ ModelAnswers(r) \/ LookUpMisses(r) \/ LookUpFinds(r) \/ Insert(r) \/ Flush(r)
               \/ DeleteFact(r) \/ NothingToDelete(r) \/ Reply(r) \/ Refused(r) \/ Fail(r)
        PROVE  facts' = facts
    BY <2>4 DEF OpenContext, Extract, Forget, BootStep, BootFails, WithContext, ListFacts,
         CreateSession, LoadSession, ModelAnswers, LookUpMisses, LookUpFinds, Insert, Flush,
         DeleteFact, NothingToDelete, Reply, Refused, Fail, Leave, table
  <2>5. QED
    BY <1>1, <2>1, <2>2, <2>3, <2>4 DEF Next, Proceed
<1>2. QED
  BY <1>1, StoredInvInit, StoredInvStep, PTL DEF Spec, WholeBatches

=============================================================================
