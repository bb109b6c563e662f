------------------------------ MODULE AuditLog ------------------------------
(***************************************************************************)
(* The hash-chained audit log (backend/app/audit/logger.py).  append()     *)
(* runs in one transaction: it takes a Postgres advisory lock, reads the   *)
(* entry hash of the last committed row, inserts a row that carries that   *)
(* hash and its own, and commits, which releases the lock.  Appends run    *)
(* concurrently, from every model call and every tool call.                *)
(*                                                                         *)
(* Any statement may fail; the transaction is then rolled back, its id is  *)
(* lost and the exception reaches the caller.  The connection may also go  *)
(* after the COMMIT has been carried out.  A crash of the API process or   *)
(* of the database is such a failure of every append in flight.            *)
(*                                                                         *)
(* SHA-256 is taken to be injective: a hash is the sequence of contents it *)
(* was computed from.  Payload stands for everything a row's hash covers.  *)
(***************************************************************************)
EXTENDS Integers, Sequences, FiniteSets

CONSTANTS
  Writer,      \* concurrent append() calls
  Payload,     \* contents of a row
  NoWriter,    \* the holder of a free lock
  MaxId        \* bound on the ids handed out

ASSUME AuditAssumption ==
  /\ NoWriter \notin Writer
  /\ MaxId \in Nat

VARIABLES
  table,       \* committed rows of audit_log
  nextId,      \* its id sequence (not transactional)
  lock,        \* holder of the advisory lock
  pc,          \* the await append() is at
  content,     \* its arguments
  link,        \* its local prev_hash
  draft,       \* the id of its uncommitted row
  acked        \* history: the hashes append() has returned

vars == <<table, nextId, lock, pc, content, link, draft, acked>>

\* compute_entry_hash; the missing predecessor of the first row hashes as "".
Hash(prev, payload) == Append(prev, payload)

NoHash == <<>>

Row == [id : Nat, payload : Payload, prev : Seq(Payload), entry : Seq(Payload)]

TypeOK ==
  /\ table \subseteq Row
  /\ nextId \in Nat
  /\ lock \in Writer \cup {NoWriter}
  /\ pc \in [Writer -> {"idle", "waiting", "locked", "linked", "inserted", "committed"}]
  /\ content \in [Writer -> Payload]
  /\ link \in [Writer -> Seq(Payload)]
  /\ draft \in [Writer -> Nat]
  /\ acked \subseteq Seq(Payload)

Init ==
  /\ table = {}
  /\ nextId = 1
  /\ lock = NoWriter
  /\ pc = [w \in Writer |-> "idle"]
  /\ content \in [Writer -> Payload]
  /\ link = [w \in Writer |-> NoHash]
  /\ draft = [w \in Writer |-> 0]
  /\ acked = {}

-----------------------------------------------------------------------------
(* append(). *)

Goto(w, point) == pc' = [pc EXCEPT ![w] = point]

\* append() is over and its locals are gone.
Leave(w) ==
  /\ Goto(w, "idle")
  /\ link' = [link EXCEPT ![w] = NoHash]
  /\ draft' = [draft EXCEPT ![w] = 0]

InFlight == {w \in Writer : pc[w] # "idle"}

\* append(payload): a transaction begins and asks for the lock.
Call(w, payload) ==
  /\ pc[w] = "idle"
  /\ nextId + Cardinality(InFlight) <= MaxId
  /\ content' = [content EXCEPT ![w] = payload]
  /\ Goto(w, "waiting")
  /\ UNCHANGED <<table, nextId, lock, link, draft, acked>>

\* Faulty: each append takes a lock of its own.
Lock_OwnKey(w) ==
  /\ pc[w] = "waiting"
  /\ lock' = w
  /\ Goto(w, "locked")
  /\ UNCHANGED <<table, nextId, content, link, draft, acked>>

Lock(w) ==
  /\ pc[w] = "waiting"
  /\ lock = NoWriter
  /\ lock' = w
  /\ Goto(w, "locked")
  /\ UNCHANGED <<table, nextId, content, link, draft, acked>>

\* entry_hash of the row with the greatest id, NULL if there is none.
Newest(rows) == CHOOSE r \in rows : \A q \in rows : q.id <= r.id

LastHash(rows) == IF rows = {} THEN NoHash ELSE Newest(rows).entry

\* The link to the newest row is read under the lock.
ReadLast(w) ==
  /\ pc[w] = "locked"
  /\ link' = [link EXCEPT ![w] = LastHash(table)]
  /\ Goto(w, "linked")
  /\ UNCHANGED <<table, nextId, lock, content, draft, acked>>

\* Faulty: a session lock, given back before the commit.
Insert_Unlocks(w) ==
  /\ pc[w] = "linked"
  /\ draft' = [draft EXCEPT ![w] = nextId]
  /\ nextId' = nextId + 1
  /\ lock' = NoWriter
  /\ Goto(w, "inserted")
  /\ UNCHANGED <<table, content, link, acked>>

\* The flush of the commit: the row gets its id.
Insert(w) ==
  /\ pc[w] = "linked"
  /\ draft' = [draft EXCEPT ![w] = nextId]
  /\ nextId' = nextId + 1
  /\ Goto(w, "inserted")
  /\ UNCHANGED <<table, lock, content, link, acked>>

RowOf(w) == [id |-> draft[w], payload |-> content[w], prev |-> link[w],
             entry |-> Hash(link[w], content[w])]

\* The commit makes the row visible, then frees the lock.
Commit(w) ==
  /\ pc[w] = "inserted"
  /\ table' = table \cup {RowOf(w)}
  /\ lock' = NoWriter
  /\ Goto(w, "committed")
  /\ UNCHANGED <<nextId, content, link, draft, acked>>

\* Faulty: the hash is handed out inside the transaction.
Return_BeforeCommit(w) ==
  /\ pc[w] = "inserted"
  /\ acked' = acked \cup {Hash(link[w], content[w])}
  /\ UNCHANGED <<table, nextId, lock, pc, content, link, draft>>

\* append() returns the hash of its row.
Return(w) ==
  /\ pc[w] = "committed"
  /\ acked' = acked \cup {Hash(link[w], content[w])}
  /\ Leave(w)
  /\ UNCHANGED <<table, nextId, lock, content>>

\* Faulty: a session lock, not given back by the rollback.
Fail_KeepsLock(w) ==
  /\ pc[w] # "idle"
  /\ Leave(w)
  /\ UNCHANGED <<table, nextId, lock, content, acked>>

\* A statement, or the answer to the COMMIT, fails: append() raises, and a
\* transaction that has not committed is rolled back.
Fail(w) ==
  /\ pc[w] # "idle"
  /\ lock' = IF lock = w THEN NoWriter ELSE lock
  /\ Leave(w)
  /\ UNCHANGED <<table, nextId, content, acked>>

Proceed(w) == ReadLast(w) \/ Insert(w) \/ Commit(w) \/ Return(w)

Next ==
  \E w \in Writer :
    \/ \E payload \in Payload : Call(w, payload)
    \/ Lock(w)
    \/ Proceed(w)
    \/ Fail(w)

\* Statements end, and Postgres grants a lock in the order it was asked for.
\* No failure has to come to anybody's help.
Fairness == \A w \in Writer : WF_vars(Proceed(w)) /\ SF_vars(Lock(w))

Spec == Init /\ [][Next]_vars /\ Fairness

-----------------------------------------------------------------------------
(* verify_rows(), over rows in ascending order of id. *)

Before(rows, id) == {q \in rows : q.id < id}

\* Faulty: only the links are followed.
Sound_LinkOnly(rows, r) == r.prev = LastHash(Before(rows, r.id))

\* The row carries the hash of the one before it, and its own.
Sound(rows, r) ==
  /\ r.prev = LastHash(Before(rows, r.id))
  /\ r.entry = Hash(r.prev, r.payload)

Broken(rows) == {r.id : r \in {q \in rows : ~Sound(rows, q)}}

FirstBrokenId(rows) == CHOOSE id \in Broken(rows) : \A other \in Broken(rows) : id <= other

-----------------------------------------------------------------------------
(* Changes past the append-only trigger, as the tests make them. *)

Replaced(rows, r, by) == (rows \ {r}) \cup {by}

\* The contents of a row are overwritten.
ContentAltered(rows) ==
  {Replaced(rows, r, [r EXCEPT !.payload = payload]) : r \in rows, payload \in Payload}

\* A row is linked to something else.
LinkAltered(rows) ==
  {Replaced(rows, r, [r EXCEPT !.prev = q.entry]) : r \in rows, q \in rows}

\* Rows with a later one behind them are taken out.
Shortened(rows) == {kept \in SUBSET rows : rows # {} => Newest(rows) \in kept}

Changed(rows) ==
  UNION {{kept} \cup ContentAltered(kept) \cup LinkAltered(kept) : kept \in Shortened(rows)}

Tampered(rows) == Changed(rows) \ {rows}

-----------------------------------------------------------------------------
(* Properties. *)

\* append/verify: however appends interleave and fail, the log verifies.
ChainVerifies == Broken(table) = {}

\* The log only grows, and at its end: a row never appears before one that a
\* reader of the log may already have seen.
GrowsAtTheEnd ==
  [][/\ table \subseteq table'
     /\ \A new \in table' \ table, old \in table : old.id < new.id]_vars

\* append() returns the hash of a row that is in the log for good.
ReturnedIsStored == acked \subseteq {r.entry : r \in table}

\* Every append returns or raises: no failure leaves the lock taken.
AppendsEnd == \A w \in Writer : pc[w] = "waiting" ~> pc[w] = "idle"

\* "Any tampering with an earlier row breaks verification": whatever rows
\* appends have left, a table they were tampered into no longer verifies, and
\* verify() names a row before which nothing was altered.
TamperingShows ==
  \A found \in Tampered(table) :
    /\ Broken(found) # {}
    /\ \A r \in found : r.id < FirstBrokenId(found) => r \in table

-----------------------------------------------------------------------------
(* Why ChainVerifies is inductive: between reading the last hash and the    *)
(* commit, the lock keeps every other row out.                              *)

WriterInv(w) ==
  /\ pc[w] \in {"locked", "linked", "inserted"} => lock = w
  /\ pc[w] \in {"linked", "inserted"} => link[w] = LastHash(table)
  /\ pc[w] = "inserted" => draft[w] < nextId /\ \A r \in table : r.id < draft[w]
  /\ pc[w] = "committed" => \E r \in table : r.entry = Hash(link[w], content[w])

ChainInv ==
  /\ TypeOK
  /\ \A w \in Writer : WriterInv(w)
  /\ \A r \in table : r.id < nextId /\ Sound(table, r)
  /\ \A r, q \in table : r.id = q.id => r = q
  /\ table # {} => \E r \in table : \A q \in table : q.id <= r.id
  /\ ReturnedIsStored

=============================================================================
