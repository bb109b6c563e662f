--------------------------- MODULE AuditLog_proofs ---------------------------
(***************************************************************************)
(* The audit log verifies whatever appends interleave and fail, and does   *)
(* not when it has been tampered with, for any number of writers, contents *)
(* and ids.                                                                *)
(***************************************************************************)
EXTENDS AuditLog, SequenceTheorems, WellFoundedInduction, TLAPS

\* The hash over a link and a content is a hash.
LEMMA HashFacts ==
  ASSUME NEW prev \in Seq(Payload), NEW payload \in Payload
  PROVE  Hash(prev, payload) \in Seq(Payload)
  BY DEF Hash

\* The hash the next row is linked to is a hash.
LEMMA LastHashType ==
  ASSUME ChainInv
  PROVE  LastHash(table) \in Seq(Payload)
<1>1. CASE table = {}
  BY <1>1 DEF LastHash, NoHash
<1>2. CASE table # {}
  <2>1. Newest(table) \in table
    BY <1>2 DEF ChainInv, Newest
  <2>2. QED
    BY <1>2, <2>1 DEF LastHash, ChainInv, TypeOK, Row
<1>3. QED
  BY <1>1, <1>2

\* A step that leaves the rows and their ids alone.
LEMMA RowsRest ==
  ASSUME ChainInv, UNCHANGED <<table, nextId>>
  PROVE  /\ \A r \in table' : r.id < nextId' /\ Sound(table', r)
         /\ \A r, q \in table' : r.id = q.id => r = q
         /\ table' # {} => \E r \in table' : \A q \in table' : q.id <= r.id
         /\ LastHash(table') = LastHash(table)
  BY DEF ChainInv

\* The empty log.
LEMMA InitHolds == AuditAssumption /\ Init => ChainInv
<1> SUFFICES ASSUME AuditAssumption, Init PROVE ChainInv
  OBVIOUS
<1>1. TypeOK
  BY DEF Init, TypeOK, NoHash
<1>2. QED
  BY <1>1 DEF Init, ChainInv, WriterInv, ReturnedIsStored

\* append() is called.
LEMMA CallKeeps ==
  ASSUME ChainInv, NEW w \in Writer, NEW payload \in Payload, Call(w, payload)
  PROVE  ChainInv'
<1>1. /\ UNCHANGED <<table, nextId, lock, link, draft, acked>>
      /\ content' = [content EXCEPT ![w] = payload] /\ pc' = [pc EXCEPT ![w] = "waiting"]
  BY DEF Call, Goto
<1>2. TypeOK'
  BY <1>1 DEF ChainInv, TypeOK
<1>3. ASSUME NEW v \in Writer PROVE WriterInv(v)'
  BY <1>1 DEF ChainInv, TypeOK, WriterInv
<1>4. QED
  BY <1>1, <1>2, <1>3, RowsRest DEF ChainInv, ReturnedIsStored

\* The advisory lock is taken: nobody else is between lock and commit.
LEMMA LockKeeps ==
  ASSUME ChainInv, AuditAssumption, NEW w \in Writer, Lock(w)
  PROVE  ChainInv'
<1>1. /\ UNCHANGED <<table, nextId, content, link, draft, acked>>
      /\ lock = NoWriter /\ lock' = w /\ pc' = [pc EXCEPT ![w] = "locked"]
  BY DEF Lock, Goto
<1>2. TypeOK'
  BY <1>1 DEF ChainInv, TypeOK
<1>3. ASSUME NEW v \in Writer PROVE WriterInv(v)'
  BY <1>1 DEF ChainInv, TypeOK, WriterInv, AuditAssumption
<1>4. QED
  BY <1>1, <1>2, <1>3, RowsRest DEF ChainInv, ReturnedIsStored

\* The newest hash is read under the lock.
LEMMA ReadLastKeeps ==
  ASSUME ChainInv, NEW w \in Writer, ReadLast(w)
  PROVE  ChainInv'
<1>1. /\ UNCHANGED <<table, nextId, lock, content, draft, acked>>
      /\ pc[w] = "locked" /\ pc' = [pc EXCEPT ![w] = "linked"]
      /\ link' = [link EXCEPT ![w] = LastHash(table)]
  BY DEF ReadLast, Goto
<1>2. TypeOK'
  BY <1>1, LastHashType DEF ChainInv, TypeOK
<1>3. ASSUME NEW v \in Writer PROVE WriterInv(v)'
  BY <1>1, RowsRest DEF ChainInv, TypeOK, WriterInv
<1>4. QED
  BY <1>1, <1>2, <1>3, RowsRest DEF ChainInv, ReturnedIsStored

\* The row gets the next id, which is above every id in the table.
LEMMA InsertKeeps ==
  ASSUME ChainInv, NEW w \in Writer, Insert(w)
  PROVE  ChainInv'
<1>1. /\ UNCHANGED <<table, lock, content, link, acked>>
      /\ pc[w] = "linked" /\ pc' = [pc EXCEPT ![w] = "inserted"]
      /\ draft' = [draft EXCEPT ![w] = nextId] /\ nextId' = nextId + 1
  BY DEF Insert, Goto
<1>2. TypeOK'
  BY <1>1 DEF ChainInv, TypeOK
<1>3. \A r \in table : r.id \in Nat /\ r.id < nextId /\ r.id < nextId'
  BY <1>1 DEF ChainInv, TypeOK, Row
<1>4. ASSUME NEW v \in Writer PROVE WriterInv(v)'
  BY <1>1, <1>3 DEF ChainInv, TypeOK, WriterInv
<1>5. QED
  BY <1>1, <1>2, <1>3, <1>4 DEF ChainInv, ReturnedIsStored

\* The heart of it: the committed row is linked to the newest one, because
\* nobody else could commit since it was read.
LEMMA CommitKeeps ==
  ASSUME ChainInv, AuditAssumption, NEW w \in Writer, Commit(w)
  PROVE  ChainInv'
<1> DEFINE new == RowOf(w)
<1>1. /\ UNCHANGED <<nextId, content, link, draft, acked>>
      /\ pc[w] = "inserted" /\ pc' = [pc EXCEPT ![w] = "committed"]
      /\ table' = table \cup {new} /\ lock' = NoWriter
  BY DEF Commit, Goto
<1>2. /\ lock = w /\ link[w] = LastHash(table)
      /\ draft[w] < nextId /\ \A r \in table : r.id < draft[w]
  BY <1>1 DEF ChainInv, WriterInv
<1>3. /\ new \in Row /\ new.id = draft[w] /\ new.prev = link[w] /\ new.payload = content[w]
      /\ new.entry = Hash(link[w], content[w])
  BY HashFacts DEF RowOf, Row, ChainInv, TypeOK
<1>4. \A r \in table : r \in Row /\ r.id \in Nat
  BY DEF ChainInv, TypeOK, Row
<1>5. TypeOK'
  BY <1>1, <1>3 DEF ChainInv, TypeOK
<1>6. ASSUME NEW r \in table PROVE Before(table', r.id) = Before(table, r.id)
  BY <1>1, <1>2, <1>3, <1>4, <1>5 DEF Before, ChainInv, TypeOK
<1>7. Before(table', new.id) = table
  BY <1>1, <1>2, <1>3, <1>4 DEF Before, ChainInv, TypeOK
<1>8. \A r \in table' : r.id < nextId' /\ Sound(table', r)
  <2>1. ASSUME NEW r \in table PROVE r.id < nextId' /\ Sound(table', r)
    BY <1>1, <1>6 DEF ChainInv, Sound
  <2>2. new.id < nextId' /\ Sound(table', new)
    BY <1>1, <1>2, <1>3, <1>7 DEF Sound
  <2>3. QED
    BY <1>1, <2>1, <2>2
<1>9. \E r \in table' : \A q \in table' : q.id <= r.id
  <2>1. new \in table' /\ \A q \in table' : q.id <= new.id
    BY <1>1, <1>2, <1>3, <1>4 DEF ChainInv, TypeOK
  <2>2. QED
    BY <2>1
<1>10. ASSUME NEW v \in Writer PROVE WriterInv(v)'
  <2>1. CASE v = w
    BY <2>1, <1>1, <1>3 DEF ChainInv, TypeOK, WriterInv
  <2>2. CASE v # w
    <3>1. pc[v] \notin {"locked", "linked", "inserted"} /\ pc'[v] = pc[v]
      BY <2>2, <1>1, <1>2 DEF ChainInv, TypeOK, WriterInv
    <3>2. QED
      BY <3>1, <1>1 DEF ChainInv, TypeOK, WriterInv
  <2>3. QED
    BY <2>1, <2>2
<1>11. ReturnedIsStored'
  BY <1>1 DEF ChainInv, ReturnedIsStored
<1>12. \A r, q \in table' : r.id = q.id => r = q
  BY <1>1, <1>2, <1>3, <1>4 DEF ChainInv, TypeOK
<1>13. QED
  BY <1>5, <1>8, <1>9, <1>10, <1>11, <1>12 DEF ChainInv

\* Return and Fail free nothing but what the writer holds.
LEMMA LeaveKeeps ==
  ASSUME ChainInv, AuditAssumption, NEW w \in Writer, Return(w) \/ Fail(w)
  PROVE  ChainInv'
<1>1. /\ UNCHANGED <<table, nextId, content>>
      /\ pc' = [pc EXCEPT ![w] = "idle"]
      /\ link' = [link EXCEPT ![w] = NoHash] /\ draft' = [draft EXCEPT ![w] = 0]
      /\ lock' = lock \/ (lock = w /\ lock' = NoWriter)
      /\ \/ acked' = acked
         \/ /\ pc[w] = "committed" /\ acked' = acked \cup {Hash(link[w], content[w])}
  BY DEF Return, Fail, Leave, Goto
<1>2. acked' \subseteq {r.entry : r \in table}
  BY <1>1 DEF ChainInv, WriterInv, ReturnedIsStored
<1>3. TypeOK'
  <2>1. acked' \subseteq Seq(Payload)
    BY <1>2 DEF ChainInv, TypeOK, Row
  <2>2. QED
    BY <1>1, <2>1 DEF ChainInv, TypeOK, NoHash
<1>4. ASSUME NEW v \in Writer PROVE WriterInv(v)'
  BY <1>1, RowsRest DEF ChainInv, TypeOK, WriterInv
<1>5. QED
  BY <1>1, <1>2, <1>3, <1>4, RowsRest DEF ChainInv, ReturnedIsStored

\* Every step keeps the invariant.
LEMMA StepKeeps == AuditAssumption /\ ChainInv /\ [Next]_vars => ChainInv'
<1> SUFFICES ASSUME AuditAssumption, ChainInv, [Next]_vars PROVE ChainInv'
  OBVIOUS
<1>1. CASE Next
  BY <1>1, CallKeeps, LockKeeps, ReadLastKeeps, InsertKeeps, CommitKeeps, LeaveKeeps
     DEF Next, Proceed
<1>2. CASE UNCHANGED vars
  <2>1. UNCHANGED <<table, nextId, lock, pc, content, link, draft, acked>>
    BY <1>2 DEF vars
  <2>2. TypeOK'
    BY <2>1 DEF ChainInv, TypeOK
  <2>3. ASSUME NEW v \in Writer PROVE WriterInv(v)'
    BY <2>1 DEF ChainInv, WriterInv
  <2>4. QED
    BY <2>1, <2>2, <2>3, RowsRest DEF ChainInv, ReturnedIsStored
<1>3. QED
  BY <1>1, <1>2

\* Spec => []ChainInv.
THEOREM ChainHolds == Spec => []ChainInv
<1>1. QED
  BY AuditAssumption, InitHolds, StepKeeps, PTL DEF Spec

\* Spec => []ChainVerifies: verify() accepts the log at every moment, however
\* appends interleave and fail.
THEOREM LogVerifies == Spec => []ChainVerifies
<1>1. ChainInv => ChainVerifies
  BY DEF ChainInv, ChainVerifies, Broken
<1>2. QED
  BY ChainHolds, <1>1, PTL

\* Spec => []ReturnedIsStored: a hash that append() has returned is in the log.
THEOREM ReturnedStays == Spec => []ReturnedIsStored
<1>1. ChainInv => ReturnedIsStored
  BY DEF ChainInv
<1>2. QED
  BY ChainHolds, <1>1, PTL

\* Spec => GrowsAtTheEnd: rows are only added, each behind all earlier ones.
THEOREM LogGrowsAtTheEnd == Spec => GrowsAtTheEnd
<1> DEFINE Grows == /\ table \subseteq table'
                    /\ \A new \in table' \ table, old \in table : old.id < new.id
<1>1. ChainInv /\ [Next]_vars => [Grows]_vars
  <2> SUFFICES ASSUME ChainInv, Next PROVE Grows
    BY DEF vars
  <2>1. ASSUME NEW w \in Writer, Commit(w) PROVE Grows
    <3>1. /\ table' = table \cup {RowOf(w)} /\ RowOf(w).id = draft[w]
          /\ \A r \in table : r.id < draft[w]
      BY <2>1 DEF Commit, RowOf, ChainInv, WriterInv
    <3>2. QED
      BY <3>1
  <2>2. CASE UNCHANGED table
    BY <2>2
  <2>3. QED
    BY <2>1, <2>2 DEF Next, Proceed, Call, Lock, ReadLast, Insert, Return, Fail
<1>2. QED
  BY ChainHolds, <1>1, PTL DEF Spec, GrowsAtTheEnd

-----------------------------------------------------------------------------
(* Tampering.  Along a chain the hashes grow, so no two rows have the same. *)

\* A set of naturals has a least element.
LEMMA Least ==
  ASSUME NEW S \in SUBSET Nat, S # {}
  PROVE  \E m \in S : \A i \in S : m <= i
<1>1. \E m \in S : \A i \in S : ~ (<<i, m>> \in OpToRel(<, Nat))
  BY NatLessThanWellFounded, WFMin
<1>2. PICK m \in S : \A i \in S : ~ (i < m)
  BY <1>1 DEF OpToRel
<1>3. QED
  BY <1>2

\* A set of naturals below a bound has a greatest element.
LEMMA Greatest ==
  ASSUME NEW S \in SUBSET Nat, S # {}, NEW n \in Nat, \A i \in S : i < n
  PROVE  \E m \in S : \A i \in S : i <= m
<1> DEFINE B == {k \in Nat : \A i \in S : i <= k}
<1>1. n \in B
  OBVIOUS
<1>2. PICK k \in B : \A l \in B : k <= l
  BY <1>1, Least
<1>3. PICK i \in S : TRUE
  OBVIOUS
<1>4. CASE k = 0
  BY <1>2, <1>3, <1>4
<1>5. CASE k # 0
  <2>1. k - 1 \in Nat /\ k - 1 \notin B
    BY <1>2, <1>5
  <2>2. PICK j \in S : ~ (j <= k - 1)
    BY <2>1
  <2>3. j = k
    BY <2>2, <1>2
  <2>4. QED
    BY <2>3, <1>2
<1>6. QED
  BY <1>4, <1>5

\* What is before an id has a newest row.
LEMMA NewestBefore ==
  ASSUME NEW rows \in SUBSET Row, NEW id \in Nat, Before(rows, id) # {}
  PROVE  /\ Newest(Before(rows, id)) \in Before(rows, id)
         /\ \A q \in Before(rows, id) : q.id <= Newest(Before(rows, id)).id
         /\ LastHash(Before(rows, id)) = Newest(Before(rows, id)).entry
<1> DEFINE ids == {q.id : q \in Before(rows, id)}
<1>1. ids \in SUBSET Nat /\ ids # {} /\ \A i \in ids : i < id
  BY DEF Before, Row
<1>2. PICK m \in ids : \A i \in ids : i <= m
  BY <1>1, Greatest
<1>3. PICK r \in Before(rows, id) : r.id = m
  BY <1>2
<1>4. \A q \in Before(rows, id) : q.id <= r.id
  BY <1>2, <1>3
<1>5. QED
  BY <1>4 DEF Newest, LastHash

Chain(rows) ==
  /\ rows \in SUBSET Row
  /\ \A r \in rows : Sound(rows, r)
  /\ \A r, q \in rows : r.id = q.id => r = q

\* The hash of a row is longer than that of any row before it.
LEMMA HashesGrow ==
  ASSUME NEW rows, Chain(rows), NEW r \in rows, NEW q \in rows, q.id < r.id
  PROVE  Len(q.entry) < Len(r.entry)
<1>1. \A x \in rows : x \in Row /\ x.id \in Nat /\ x.entry \in Seq(Payload) /\ Len(x.entry) \in Nat
                      /\ x.payload \in Payload /\ x.prev \in Seq(Payload)
  BY DEF Chain, Row
<1> DEFINE Bad(n) == \E a \in rows, b \in rows : a.id = n /\ b.id < n /\ ~ (Len(b.entry) < Len(a.entry))
           B == {n \in Nat : Bad(n)}
<1> SUFFICES ASSUME B # {} PROVE FALSE
  BY DEF Chain, Row
<1>2. PICK n \in B : \A k \in B : n <= k
  BY Least
<1>3. PICK a \in rows, b \in rows : a.id = n /\ b.id < n /\ ~ (Len(b.entry) < Len(a.entry))
  BY <1>2
<1> DEFINE p == Newest(Before(rows, n))
<1>4. /\ p \in rows /\ p.id < n /\ b.id <= p.id
      /\ LastHash(Before(rows, n)) = p.entry
  <2>1. b \in Before(rows, n) /\ rows \in SUBSET Row
    BY <1>3 DEF Before, Chain
  <2>2. QED
    BY <2>1, <1>2, NewestBefore DEF Before
<1> HIDE DEF p
<1>5. a.prev = p.entry /\ a.entry = Append(a.prev, a.payload)
  BY <1>3, <1>4 DEF Chain, Sound, Hash
<1>6. Len(a.entry) = Len(p.entry) + 1
  BY <1>1, <1>3, <1>4, <1>5
<1>7. CASE b.id = p.id
  BY <1>3, <1>1, <1>4, <1>6, <1>7 DEF Chain
<1>8. CASE b.id < p.id
  <2>1. p.id \notin B
    <3>1. n \in Nat /\ p.id \in Nat /\ ~ (n <= p.id)
      BY <1>1, <1>4
    <3>2. QED
      BY <1>2, <3>1
  <2>2. Len(b.entry) < Len(p.entry)
    BY <2>1, <1>3, <1>1, <1>4, <1>8
  <2>3. QED
    BY <2>2, <1>3, <1>1, <1>4, <1>6
<1>9. QED
  BY <1>3, <1>1, <1>4, <1>7, <1>8

\* Rows taken out from in front of others leave a link that leads nowhere.
LEMMA HolesShow ==
  ASSUME NEW rows, Chain(rows), NEW kept \in SUBSET rows,
         NEW x \in rows \ kept, NEW y \in kept, x.id < y.id
  PROVE  \E r \in kept : ~Sound(kept, r)
<1> SUFFICES ASSUME \A r \in kept : Sound(kept, r) PROVE FALSE
  OBVIOUS
<1>1. \A r \in rows : r \in Row /\ r.id \in Nat /\ r.entry \in Seq(Payload) /\ Len(r.entry) \in Nat
                      /\ r.payload \in Payload /\ r.prev \in Seq(Payload)
  BY DEF Chain, Row
<1> DEFINE B == {n \in Nat : \E r \in kept : r.id = n /\ \E h \in rows \ kept : h.id < n}
<1>2. y.id \in B
  BY <1>1
<1>3. PICK n \in B : \A k \in B : n <= k
  BY <1>2, Least
<1>4. PICK r \in kept : r.id = n /\ \E h \in rows \ kept : h.id < n
  BY <1>3
<1>5. PICK h \in rows \ kept : h.id < n
  BY <1>4
<1> DEFINE p == Newest(Before(rows, n))
<1>6. /\ p \in rows /\ p.id < n /\ h.id <= p.id
      /\ \A q \in rows : q.id < n => q.id <= p.id
      /\ LastHash(Before(rows, n)) = p.entry
  <2>1. h \in Before(rows, n) /\ rows \in SUBSET Row /\ n \in Nat
    BY <1>5, <1>3 DEF Before, Chain
  <2>2. QED
    BY <2>1, NewestBefore DEF Before
<1> HIDE DEF p
<1>7. r.prev = p.entry
  BY <1>4, <1>6 DEF Chain, Sound
<1>8. p \notin kept
  <2>1. SUFFICES ASSUME p \in kept PROVE FALSE
    OBVIOUS
  <2>2. p.id \notin B
    BY <1>1, <1>3, <1>6
  <2>3. h.id = p.id
    BY <1>1, <1>5, <1>6, <2>1, <2>2
  <2>4. QED
    BY <1>5, <1>6, <2>1, <2>3 DEF Chain
<1>9. r.prev = LastHash(Before(kept, n))
  BY <1>4 DEF Sound
<1>10. Len(p.entry) > 0
  <2>1. p.entry = Append(p.prev, p.payload)
    BY <1>6 DEF Chain, Sound, Hash
  <2>2. QED
    BY <1>1, <1>6, <2>1
<1>11. CASE Before(kept, n) = {}
  <2>1. p.entry = <<>>
    BY <1>7, <1>9, <1>11 DEF LastHash, NoHash
  <2>2. QED
    BY <1>10, <2>1
<1>12. CASE Before(kept, n) # {}
  <2> DEFINE s == Newest(Before(kept, n))
  <2>1. s \in kept /\ s.id < n /\ LastHash(Before(kept, n)) = s.entry
    <3>1. kept \in SUBSET Row /\ n \in Nat
      BY <1>3 DEF Chain
    <3>2. QED
      BY <3>1, <1>12, NewestBefore DEF Before
  <2> HIDE DEF s
  <2>2. s.id < p.id
    BY <1>1, <1>6, <1>8, <2>1 DEF Chain
  <2>3. Len(s.entry) < Len(p.entry)
    BY <2>1, <2>2, <1>6, HashesGrow
  <2>4. s.entry = p.entry
    BY <1>7, <1>9, <2>1
  <2>5. QED
    BY <1>1, <1>6, <2>1, <2>3, <2>4
<1>13. QED
  BY <1>11, <1>12

\* A hash tells what it was computed from.
LEMMA HashInjective ==
  ASSUME NEW s \in Seq(Payload), NEW t \in Seq(Payload), NEW a \in Payload, NEW b \in Payload,
         Hash(s, a) = Hash(t, b)
  PROVE  s = t /\ a = b
<1>1. /\ Len(Append(s, a)) = Len(s) + 1 /\ Len(Append(t, b)) = Len(t) + 1
      /\ Len(s) \in Nat /\ Len(t) \in Nat
      /\ \A i \in 1 .. Len(s) : Append(s, a)[i] = s[i]
      /\ \A i \in 1 .. Len(t) : Append(t, b)[i] = t[i]
      /\ Append(s, a)[Len(s) + 1] = a /\ Append(t, b)[Len(t) + 1] = b
  OBVIOUS
<1>2. Len(s) = Len(t)
  BY <1>1 DEF Hash
<1>3. \A i \in 1 .. Len(s) : s[i] = t[i]
  BY <1>1, <1>2 DEF Hash
<1>4. a = b
  BY <1>1, <1>2 DEF Hash
<1>5. s = t
  BY <1>2, <1>3, SeqEqual
<1>6. QED
  BY <1>4, <1>5

\* A row whose content or link has been changed does not carry its own hash.
LEMMA ChangesShow ==
  ASSUME NEW rows, Chain(rows), NEW kept \in SUBSET rows,
         NEW found \in ContentAltered(kept) \cup LinkAltered(kept), found # kept
  PROVE  \E bad \in found : /\ ~Sound(found, bad)
                            /\ found \in SUBSET Row
                            /\ \A r \in found : r.id < bad.id => r \in rows
<1>1. PICK r \in kept, payload \in Payload, prev \in Seq(Payload) :
        /\ r \in Row /\ found = Replaced(kept, r, [r EXCEPT !.payload = payload, !.prev = prev])
  <2>1. \A r \in kept : r \in Row /\ r.payload \in Payload
                        /\ r.prev \in Seq(Payload) /\ r.entry \in Seq(Payload)
    BY DEF Chain, Row
  <2>2. CASE found \in ContentAltered(kept)
    <3>1. PICK r \in kept, payload \in Payload : found = Replaced(kept, r, [r EXCEPT !.payload = payload])
      BY <2>2 DEF ContentAltered
    <3>2. [r EXCEPT !.payload = payload] = [r EXCEPT !.payload = payload, !.prev = r.prev]
      BY <2>1 DEF Row
    <3>3. QED
      BY <2>1, <3>1, <3>2
  <2>3. CASE found \in LinkAltered(kept)
    <3>1. PICK r \in kept, q \in kept : found = Replaced(kept, r, [r EXCEPT !.prev = q.entry])
      BY <2>3 DEF LinkAltered
    <3>2. [r EXCEPT !.prev = q.entry] = [r EXCEPT !.payload = r.payload, !.prev = q.entry]
      BY <2>1 DEF Row
    <3>3. QED
      BY <2>1, <3>1, <3>2
  <2>4. QED
    BY <2>2, <2>3
<1> DEFINE new == [r EXCEPT !.payload = payload, !.prev = prev]
<1>2. /\ new \in Row /\ new.id = r.id /\ new.entry = r.entry
      /\ new.payload = payload /\ new.prev = prev
      /\ r.prev \in Seq(Payload) /\ r.payload \in Payload /\ r.id \in Nat
      /\ r.prev = prev /\ r.payload = payload => new = r
  BY <1>1 DEF Row
<1> HIDE DEF new
<1>3. found = (kept \ {r}) \cup {new}
  BY <1>1 DEF Replaced, new
<1>4. new # r
  BY <1>1, <1>3
<1>5. r.entry = Hash(r.prev, r.payload)
  BY <1>1 DEF Chain, Sound
<1>6. ~Sound(found, new)
  <2>1. SUFFICES ASSUME Sound(found, new) PROVE FALSE
    OBVIOUS
  <2>2. Hash(r.prev, r.payload) = Hash(prev, payload)
    BY <1>2, <1>5, <2>1 DEF Sound
  <2>3. QED
    BY <1>2, <1>4, <2>2, HashInjective
<1>7. found \in SUBSET Row
  BY <1>2, <1>3 DEF Chain
<1>8. \A x \in found : x.id < new.id => x \in rows
  BY <1>2, <1>3
<1>9. QED
  BY <1>3, <1>6, <1>7, <1>8

\* The rows that appends leave are a chain.
LEMMA TableIsChain ==
  ASSUME ChainInv
  PROVE  /\ Chain(table)
         /\ table # {} => Newest(table) \in table /\ \A q \in table : q.id <= Newest(table).id
BY DEF ChainInv, TypeOK, Chain, Newest

\* verify() names the first of the rows that do not verify.
LEMMA FirstIsLeast ==
  ASSUME NEW rows \in SUBSET Row, NEW bad \in rows, ~Sound(rows, bad)
  PROVE  Broken(rows) # {} /\ FirstBrokenId(rows) <= bad.id /\ FirstBrokenId(rows) \in Nat
<1>1. Broken(rows) \in SUBSET Nat /\ bad.id \in Broken(rows)
  BY DEF Broken, Row
<1>2. \E id \in Broken(rows) : \A other \in Broken(rows) : id <= other
  BY <1>1, Least
<1>3. FirstBrokenId(rows) \in Broken(rows) /\ \A other \in Broken(rows) : FirstBrokenId(rows) <= other
  BY <1>2 DEF FirstBrokenId
<1>4. QED
  BY <1>1, <1>3

\* Spec => []TamperingShows: no change to the rows that appends have left, other
\* than cutting rows off the end, passes verify(), and no row before the one it
\* names was changed.
THEOREM TamperingAlwaysShows == Spec => []TamperingShows
<1>1. ASSUME ChainInv, NEW found \in Tampered(table)
      PROVE  /\ Broken(found) # {}
             /\ \A r \in found : r.id < FirstBrokenId(found) => r \in table
  <2>1. PICK kept \in Shortened(table) :
          found \in {kept} \cup ContentAltered(kept) \cup LinkAltered(kept)
    BY <1>1 DEF Tampered, Changed
  <2>2. found # table /\ kept \in SUBSET table /\ Chain(table)
    <3>1. found # table
      BY <1>1 DEF Tampered
    <3>2. kept \in SUBSET table
      BY <2>1 DEF Shortened
    <3>3. QED
      BY <1>1, <3>1, <3>2, TableIsChain
  <2>3. \E bad \in found : /\ ~Sound(found, bad)
                           /\ found \in SUBSET Row
                           /\ \A r \in found : r.id < bad.id => r \in table
    <3>1. CASE found = kept
      <4>1. PICK x \in table \ kept : TRUE
        BY <2>2, <3>1
      <4>2. /\ Newest(table) \in kept /\ Newest(table) \in table
            /\ x.id <= Newest(table).id
        BY <1>1, <2>1, <4>1, TableIsChain DEF Shortened
      <4>3. x.id < Newest(table).id
        BY <2>2, <4>1, <4>2 DEF Chain, Row
      <4>4. \E r \in kept : ~Sound(kept, r)
        BY <2>2, <4>1, <4>2, <4>3, HolesShow
      <4>5. QED
        BY <2>2, <3>1, <4>4 DEF Chain
    <3>2. CASE found # kept
      BY <2>1, <2>2, <3>2, ChangesShow
    <3>3. QED
      BY <3>1, <3>2
  <2>4. PICK bad \in found : /\ ~Sound(found, bad)
                             /\ found \in SUBSET Row
                             /\ \A r \in found : r.id < bad.id => r \in table
    BY <2>3
  <2>5. Broken(found) # {} /\ FirstBrokenId(found) <= bad.id /\ FirstBrokenId(found) \in Nat
    BY <2>4, FirstIsLeast
  <2>6. \A r \in found : r.id \in Nat
    BY <2>4 DEF Row
  <2>7. QED
    BY <2>4, <2>5, <2>6
<1>2. ChainInv => TamperingShows
  BY <1>1 DEF TamperingShows
<1>3. QED
  BY ChainHolds, <1>2, PTL

=============================================================================
