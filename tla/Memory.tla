------------------------------- MODULE Memory -------------------------------
(***************************************************************************)
(* Project memory: the facts remembered about the project (backend/app/    *)
(* memory/facts.py, memory_step.py, routes.py) and the sessions they are   *)
(* extracted from (chat/routes.py).  Requests run concurrently, each on a  *)
(* connection of its own; a step is one SQL statement or one model call.   *)
(*                                                                         *)
(* PostgreSQL at READ COMMITTED: a SELECT sees committed rows under the    *)
(* transaction's own writes; a row written or deleted stays locked, and an *)
(* inserted key reserved, until the transaction ends; of transactions that *)
(* wait for each other in a circle one is rolled back.  The ORM sends only *)
(* the columns that changed, before the next statement or the commit, and  *)
(* raises if the row has gone.  Any statement may raise; a restart of the  *)
(* API process is such a failure of every request.                         *)
(*                                                                         *)
(* There is one default project (OneProject), so project_id is left out.   *)
(* scope goes the way of confidence and is left out as well.               *)
(***************************************************************************)
EXTENDS Naturals, Sequences

CONSTANTS
  Request, Earlier, None,
  Key, Value, Confidence,
  Remembered,  \* the facts that an earlier run of the system may have left
  Batch,       \* answers of the memory model: sequences of facts and Bad
  Bad          \* an entry that raises: not an object, a value too long, ...

Content == [key : Key, value : Value, confidence : Confidence]

ASSUME BatchAssumption ==
  /\ Earlier \notin Request /\ None \notin Request \cup {Earlier}
  /\ Remembered \subseteq Content
  /\ Batch \subseteq Seq(Content \cup {Bad})

VARIABLES
  users, projects, at, user, project,     \* see DefaultContext
  sessions,    \* ids of the committed sessions
  facts,       \* committed rows of project_facts
  pc,          \* the statement a request is at
  target,      \* the session or the fact it is about
  batch,       \* the facts it is to store: weak ones are not listed
  next,        \* how many of them have been looked up, plus one
  change,      \* columns the ORM still has to send: a partial row
  writes,      \* its uncommitted row versions by id, None for a deleted row
  held,        \* history: the cells of its batch that were in the table at
               \* some moment of its transaction
  forgotten    \* history: ids of the rows that were deleted

context == <<users, projects, at, user, project>>
extraction == <<batch, next, change>>
table == <<facts, held, forgotten>>
vars == <<context, sessions, pc, target, extraction, writes, table>>

C == INSTANCE DefaultContext

FactId == [by : Request \cup {Earlier}, key : Key]

Fact == [id : FactId, key : Key, value : Value, confidence : Confidence]

Column == {"value", "confidence"}

\* The columns an UPDATE sends, and the id of its row.
Change ==
  [id : FactId, cells : UNION {[columns -> Value \cup Confidence] : columns \in SUBSET Column}]

ASSUME NoneAssumption == None \notin Fact \cup Change

NoWrites == [id \in {} |-> None]

TypeOK ==
  /\ C!TypeOK
  /\ sessions \subseteq Request \cup {Earlier}
  /\ facts \subseteq Fact
  /\ pc \in [Request -> {"idle", "context", "list", "session", "load", "model", "facts",
                         "insert", "delete", "commit", "reply", "over"}]
  /\ batch \in [Request -> Batch \cup {<<>>}]
  /\ forgotten \subseteq FactId

\* A new database, or one with a session and a fact.
Init ==
  /\ C!Init
  /\ IF users = {} THEN sessions = {} /\ facts = {}
     ELSE /\ sessions = {Earlier}
          /\ facts = {[id |-> [by |-> Earlier, key |-> f.key], key |-> f.key, value |-> f.value,
                       confidence |-> f.confidence] : f \in Remembered}
  /\ pc = [r \in Request |-> "idle"]
  /\ target = [r \in Request |-> None]
  /\ batch = [r \in Request |-> <<>>]
  /\ next = [r \in Request |-> 1]
  /\ change = [r \in Request |-> None]
  /\ writes = [r \in Request |-> NoWrites]
  /\ held = [r \in Request |-> {}]
  /\ forgotten = {}

-----------------------------------------------------------------------------
(* Transactions. *)

Goto(r, statement) == pc' = [pc EXCEPT ![r] = statement]

\* The handler is left, and its locals, its transaction and its locks are gone.
Leave(r) ==
  /\ Goto(r, "over")
  /\ target' = [target EXCEPT ![r] = None]
  /\ batch' = [batch EXCEPT ![r] = <<>>]
  /\ next' = [next EXCEPT ![r] = 1]
  /\ change' = [change EXCEPT ![r] = None]
  /\ writes' = [writes EXCEPT ![r] = NoWrites]
  /\ held' = [held EXCEPT ![r] = {}]
  /\ UNCHANGED <<context, sessions, facts, forgotten>>

\* The next entry, once the change made for the last one has been sent.
AtEntry(r) == pc[r] = "facts" /\ change[r] = None /\ next[r] <= Len(batch[r])

Entry(r) == batch[r][next[r]]

\* The rows that r's statements see.
Written(r, rows) ==
  {row \in rows : row.id \notin DOMAIN writes[r]}
    \cup {writes[r][id] : id \in {i \in DOMAIN writes[r] : writes[r][i] # None}}

Exists(id) == \E row \in facts : row.id = id

\* The transaction's writes, with this version of row `id`.
With(r, id, version) ==
  [i \in DOMAIN writes[r] \cup {id} |-> IF i = id THEN version ELSE writes[r][i]]

\* The request that has the row with this id locked.
RowHolders(r, id) == {q \in Request \ {r} : id \in DOMAIN writes[q]}

\* The requests whose outcome decides if the key is free: they have written a
\* row that has it.
KeyHolders(r, key) == {q \in Request \ {r} : \E id \in DOMAIN writes[q] : id.key = key}

\* Who the next statement of r waits for.
Blockers(r) ==
  CASE pc[r] = "facts" /\ change[r] # None -> RowHolders(r, change[r].id)
    [] pc[r] = "insert" -> KeyHolders(r, Entry(r).key)
    [] pc[r] = "delete" /\ Exists(target[r]) -> RowHolders(r, target[r])
    [] OTHER -> {}

\* The cells of batch b that are in these rows.
Cells(b, rows) ==
  {cell \in (DOMAIN b) \X Column :
     \E row \in rows : b[cell[1]] # Bad /\ b[cell[1]].key = row.key
                         /\ b[cell[1]][cell[2]] = row[cell[2]]}

\* The table becomes `rows`.
Store(rows) ==
  /\ facts' = rows
  /\ held' = [r \in Request |-> held[r] \cup Cells(batch[r], rows)]

\* What r has written becomes visible.
Save(r) ==
  /\ Store(Written(r, facts))
  /\ forgotten' = forgotten \cup {id \in DOMAIN writes[r] : writes[r][id] = None}

-----------------------------------------------------------------------------
(* POST and GET /api/sessions, GET /api/memory: the default context first. *)

\* A request arrives.
OpenContext(r) ==
  /\ pc[r] = "idle"
  /\ C!Enter(r)
  /\ Goto(r, "context")
  /\ UNCHANGED <<sessions, target, extraction, writes, table>>

\* What needs the context: a list of the facts, or a new session.
WithContext(r) ==
  /\ pc[r] = "context"
  /\ at[r] = "given"
  /\ Goto(r, "list") \/ Goto(r, "session")
  /\ UNCHANGED <<context, sessions, target, extraction, writes, table>>

BootStep(r) ==
  /\ pc[r] = "context"
  /\ C!Proceed(r)
  /\ UNCHANGED <<sessions, pc, target, extraction, writes, table>>

BootFails(r) ==
  /\ pc[r] = "context"
  /\ C!Fail(r)
  /\ UNCHANGED <<sessions, pc, target, extraction, writes, table>>

\* list_memory reads; create_session inserts in a transaction of its own.
ListFacts(r) ==
  /\ pc[r] = "list"
  /\ Goto(r, "reply")
  /\ UNCHANGED <<context, sessions, target, extraction, writes, table>>

CreateSession(r) ==
  /\ pc[r] = "session"
  /\ sessions' = sessions \cup {r}
  /\ Goto(r, "reply")
  /\ UNCHANGED <<context, target, extraction, writes, table>>

-----------------------------------------------------------------------------
(* POST /api/memory/extract. *)

Extract(r, session) ==
  /\ pc[r] = "idle"
  /\ target' = [target EXCEPT ![r] = session]
  /\ Goto(r, "load")
  /\ UNCHANGED <<context, sessions, extraction, writes, table>>

\* The session and its messages are read, in a transaction that ends here.
LoadSession(r) ==
  /\ pc[r] = "load"
  /\ IF target[r] \in sessions
     THEN /\ Goto(r, "model")
          /\ UNCHANGED <<context, sessions, target, extraction, writes, table>>
     ELSE Leave(r)

\* The model answers, and the transaction begins; an answer that is no JSON
\* has no facts.
ModelAnswers(r) ==
  /\ pc[r] = "model"
  /\ \E b \in Batch :
       /\ batch' = [batch EXCEPT ![r] = b]
       /\ held' = [held EXCEPT ![r] = Cells(b, facts)]
  /\ Goto(r, "facts")
  /\ UNCHANGED <<context, sessions, target, next, change, writes, facts, forgotten>>

\* upsert_fact: the SELECT finds no such key ...
LookUpMisses(r) ==
  /\ AtEntry(r)
  /\ Entry(r) # Bad
  /\ \A row \in Written(r, facts) : row.key # Entry(r).key
  /\ Goto(r, "insert")
  /\ UNCHANGED <<context, sessions, target, extraction, writes, table>>

\* ... or a row, which is changed in memory: its columns that differ.
LookUpFinds(r) ==
  /\ AtEntry(r)
  /\ Entry(r) # Bad
  /\ \E row \in Written(r, facts) :
       LET differ == {c \in Column : row[c] # Entry(r)[c]} IN
       /\ row.key = Entry(r).key
       /\ change' = [change EXCEPT ![r] =
            IF differ = {} THEN None
            ELSE [id |-> row.id, cells |-> [c \in differ |-> Entry(r)[c]]]]
  /\ next' = [next EXCEPT ![r] = @ + 1]
  /\ UNCHANGED <<context, sessions, pc, target, batch, writes, table>>

\* uq_fact_project_key.
KeyTaken(key) == \E row \in facts : row.key = key

NewRow(r) == [id |-> [by |-> r, key |-> Entry(r).key], key |-> Entry(r).key,
              value |-> Entry(r).value, confidence |-> Entry(r).confidence]

\* Faulty: each fact is stored in a transaction of its own.
Insert_Commits(r) ==
  /\ pc[r] = "insert"
  /\ ~KeyTaken(Entry(r).key)
  /\ Store(facts \cup {NewRow(r)})
  /\ next' = [next EXCEPT ![r] = @ + 1]
  /\ Goto(r, "facts")
  /\ UNCHANGED <<context, sessions, target, batch, change, writes, forgotten>>

\* upsert_fact: the INSERT, flushed at once.
Insert(r) ==
  /\ pc[r] = "insert"
  /\ KeyHolders(r, Entry(r).key) = {} /\ ~KeyTaken(Entry(r).key)
  /\ writes' = [writes EXCEPT ![r] = With(r, NewRow(r).id, NewRow(r))]
  /\ next' = [next EXCEPT ![r] = @ + 1]
  /\ Goto(r, "facts")
  /\ UNCHANGED <<context, sessions, target, batch, change, table>>

\* A row with the cells of change c overwritten.
Cell(row, c, column) == IF column \in DOMAIN c.cells THEN c.cells[column] ELSE row[column]

Merged(row, c) == [id |-> row.id, key |-> row.key, value |-> Cell(row, c, "value"),
                   confidence |-> Cell(row, c, "confidence")]

Update(r, row) ==
  writes' = [writes EXCEPT ![r] = With(r, row.id, Merged(row, change[r]))]

\* Faulty: an UPDATE that matches no row goes unnoticed.
Flush_IgnoresMissing(r) ==
  /\ pc[r] = "facts"
  /\ change[r] # None
  /\ RowHolders(r, change[r].id) = {}
  /\ \/ \E row \in Written(r, facts) : row.id = change[r].id /\ Update(r, row)
     \/ (\A row \in Written(r, facts) : row.id # change[r].id) /\ UNCHANGED writes
  /\ change' = [change EXCEPT ![r] = None]
  /\ UNCHANGED <<context, sessions, pc, target, batch, next, table>>

\* Faulty: a row that has gone is inserted again.
Flush_Restores(r) ==
  /\ pc[r] = "facts"
  /\ change[r] # None
  /\ RowHolders(r, change[r].id) = {}
  /\ LET f == batch[r][next[r] - 1] IN
     Update(r, [id |-> change[r].id, key |-> f.key, value |-> f.value, confidence |-> f.confidence])
  /\ change' = [change EXCEPT ![r] = None]
  /\ UNCHANGED <<context, sessions, pc, target, batch, next, table>>

\* The UPDATE is sent, and locks the row.
Flush(r) ==
  /\ pc[r] = "facts"
  /\ change[r] # None
  /\ RowHolders(r, change[r].id) = {}
  /\ \E row \in Written(r, facts) : row.id = change[r].id /\ Update(r, row)
  /\ change' = [change EXCEPT ![r] = None]
  /\ UNCHANGED <<context, sessions, pc, target, batch, next, table>>

\* All facts are in: the transaction commits.
CommitFacts(r) ==
  /\ pc[r] = "facts"
  /\ change[r] = None
  /\ next[r] > Len(batch[r])
  /\ Save(r)
  /\ writes' = [writes EXCEPT ![r] = NoWrites]
  /\ Goto(r, "reply")
  /\ UNCHANGED <<context, sessions, target, extraction>>

-----------------------------------------------------------------------------
(* DELETE /api/memory/{fact_id}. *)

Forget(r, id) ==
  /\ pc[r] = "idle"
  /\ target' = [target EXCEPT ![r] = id]
  /\ Goto(r, "delete")
  /\ UNCHANGED <<context, sessions, extraction, writes, table>>

DeleteFact(r) ==
  /\ pc[r] = "delete"
  /\ Exists(target[r])
  /\ RowHolders(r, target[r]) = {}
  /\ writes' = [writes EXCEPT ![r] = With(r, target[r], None)]
  /\ Goto(r, "commit")
  /\ UNCHANGED <<context, sessions, target, extraction, table>>

\* rowcount is 0: status 404.
NothingToDelete(r) ==
  /\ pc[r] = "delete"
  /\ ~Exists(target[r])
  /\ Leave(r)

CommitDelete(r) ==
  /\ pc[r] = "commit"
  /\ Save(r)
  /\ writes' = [writes EXCEPT ![r] = NoWrites]
  /\ Goto(r, "reply")
  /\ UNCHANGED <<context, sessions, target, extraction>>

-----------------------------------------------------------------------------

Reply(r) ==
  /\ pc[r] = "reply"
  /\ Leave(r)

\* The next statement can only raise: the first one of the context did, the
\* entry is bad, its key is taken by now, or the row to update has gone.
Doomed(r) ==
  \/ pc[r] = "context" /\ at[r] = "raised"
  \/ AtEntry(r) /\ Entry(r) = Bad
  \/ pc[r] = "insert" /\ KeyHolders(r, Entry(r).key) = {} /\ KeyTaken(Entry(r).key)
  \/ pc[r] = "facts" /\ change[r] # None /\ ~Exists(change[r].id)
       /\ change[r].id \notin DOMAIN writes[r]

\* Each of a circle of waiting transactions is waited for by another one.
Circle(set) == \A q \in set : Blockers(q) \cap set # {} /\ \E p \in set : q \in Blockers(p)

\* A statement that cannot succeed raises; PostgreSQL's deadlock detection
\* rolls back one of a circle.
Refused(r) ==
  /\ \/ Doomed(r)
     \/ Blockers(r) # {} /\ \E set \in SUBSET Request : r \in set /\ Circle(set)
  /\ Leave(r)

\* Faulty: the connection goes back to the pool with its transaction open.
Fail_KeepsLocks(r) ==
  /\ pc[r] \in {"list", "session", "load", "model", "facts", "insert", "delete", "commit", "reply"}
  /\ Goto(r, "over")
  /\ UNCHANGED <<context, sessions, target, extraction, writes, table>>

\* A statement or the model call raises, or the answer to a COMMIT is lost.
Fail(r) ==
  /\ pc[r] \in {"list", "session", "load", "model", "facts", "insert", "delete", "commit", "reply"}
  /\ Leave(r)

Proceed(r) ==
  \/ BootStep(r) \/ WithContext(r) \/ ListFacts(r) \/ CreateSession(r)
  \/ LoadSession(r) \/ ModelAnswers(r) \/ LookUpMisses(r) \/ LookUpFinds(r)
  \/ Insert(r) \/ Flush(r) \/ CommitFacts(r)
  \/ DeleteFact(r) \/ NothingToDelete(r) \/ CommitDelete(r) \/ Reply(r) \/ Refused(r)

\* A page may still list a fact that has gone.
Next ==
  \E r \in Request :
    \/ OpenContext(r)
    \/ \E s \in Request \cup {Earlier} : Extract(r, s)
    \/ \E id \in {row.id : row \in facts} \cup forgotten : Forget(r, id)
    \/ Proceed(r)
    \/ BootFails(r)
    \/ Fail(r)

\* Statements and model calls return or raise.
Fairness == \A r \in Request : WF_vars(Proceed(r))

Spec == Init /\ [][Next]_vars /\ Fairness

-----------------------------------------------------------------------------
(* Properties. *)

\* get_or_create_default_context: first requests that race make one project,
\* and each of them is given it.
OneProject == C!OneProject

\* The cells a caller is told about: of a key that the batch has twice, those
\* of the last entry.  (`stored` lists the earlier one as well.)
Told(r) ==
  {i \in DOMAIN batch[r] : \A j \in DOMAIN batch[r] :
     Bad \notin {batch[r][i], batch[r][j]} /\ batch[r][j].key = batch[r][i].key => j <= i} \X Column

\* memory_step.py: what an extraction reports as stored was in the table, each
\* value and each confidence, at some moment of its transaction: it is not
\* merely what the model said, though others update and delete the same rows.
StoredWasThere ==
  \A r \in Request : pc[r] = "reply" => Told(r) \subseteq held[r]

\* One transaction per batch: a step that stores anything of a batch stores
\* what is missing of it, and a batch with a bad entry stores nothing.
WholeBatches ==
  [][facts' = facts \/ facts' \subseteq facts
       \/ \E r \in Request : pc'[r] # pc[r] /\ Told(r) \subseteq held'[r]]_vars

\* "You stay in control - delete any": a row that was deleted does not come
\* back, though an extraction that had read it is about to update it.
ForgottenStaysForgotten == \A row \in facts : row.id \notin forgotten

\* Every request is answered, though they wait for each other's rows.
RequestsEnd == \A r \in Request : pc[r] # "idle" ~> pc[r] = "over"

=============================================================================
