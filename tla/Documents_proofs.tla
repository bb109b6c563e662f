--------------------------- MODULE Documents_proofs --------------------------
(***************************************************************************)
(* For any number of requests, texts of any length and any size and        *)
(* overlap of the chunks: documents are stored whole, a fact that is short *)
(* enough is found, and the page shows what belongs together.              *)
(***************************************************************************)
EXTENDS Documents, FiniteSetTheorems, TLAPS

-----------------------------------------------------------------------------
(* What is inductive. *)

\* A stored document has all the windows of its text, and what the page lists,
\* calls ingested or takes a question to know of has been stored.
StoreInv ==
  /\ IsFiniteSet(chunks)
  /\ \A u \in documents : \A w \in Windows(length[u]) :
       [document |-> u, from |-> w.from, to |-> w.to] \in chunks
  /\ \A c \in chunks : c.document \in documents
  /\ \A u \in Upload : pc[u] \in {"idle", "embed"} => u \notin documents
  /\ \A u \in Upload : pc[u] = "stored" => u \in documents
  /\ \A u \in Upload : view[u] \subseteq documents
  /\ early \subseteq documents
  /\ \A a \in Ask : known[a] \subseteq documents
  /\ listed \subseteq documents /\ told \subseteq documents

\* "Unverified" is the reply to a question that cannot be answered.
ReplyInv ==
  \A a \in Ask : reply[a] = "unverified" => pc[a] # "idle" /\ ~Answerable(a)

\* The last request to end leaves the page idle.
BusyInv == busy => InFlight # {}

\* As long as the user waits, one request is in flight at most; a question in
\* flight is the latest, and a list on its way has all that was ingested; only
\* the page's first one may not have it.
PageInv ==
  ~overlapped =>
    /\ busy <=> InFlight # {}
    /\ \A q, r \in InFlight : q = r
    /\ \A a \in Ask : a \in InFlight => latest = a
    /\ shown # NoAsk => shown = latest
    /\ \A u \in Upload : pc[u] = "listed" => told \subseteq view[u]
    /\ note = "ingested" /\ InFlight \cap Upload = {} /\ ~late => told \subseteq listed

DocumentsInv == TypeOK /\ StoreInv /\ ReplyInv /\ BusyInv /\ PageInv

-----------------------------------------------------------------------------
(* chunk_text. *)

\* The overlap is less than a window, and windows move on.
LEMMA StrideFacts ==
  /\ EffectiveOverlap \in 0 .. Size - 1
  /\ Stride \in 1 .. Size
  /\ Stride + EffectiveOverlap = Size
<1>1. Size \in Nat \ {0} /\ Overlap \in Nat
  BY DocumentsAssumption
<1>2. Size \div 4 \in 0 .. Size - 1
  BY <1>1
<1>3. QED
  BY <1>1, <1>2 DEF EffectiveOverlap, Stride

\* The lesser of two numbers.
LEMMA LesserOfTwo ==
  ASSUME NEW a \in Int, NEW b \in Int
  PROVE  Min({a, b}) = IF a <= b THEN a ELSE b
<1>1. \E x \in {a, b} : \A y \in {a, b} : x <= y
  OBVIOUS
<1>2. Min({a, b}) \in {a, b} /\ \A y \in {a, b} : Min({a, b}) <= y
  BY <1>1 DEF Min
<1>3. QED
  BY <1>2

\* Below every number lies a multiple of d less than d away.
LEMMA MultipleBelow ==
  ASSUME NEW d \in Nat \ {0}, NEW x \in Nat
  PROVE  \E m \in Nat : m % d = 0 /\ m <= x /\ x < m + d
<1> DEFINE m == x - (x % d)
<1>1. x % d \in 0 .. d - 1 /\ x = d * (x \div d) + (x % d) /\ x \div d \in Nat
  OBVIOUS
<1>2. m = d * (x \div d)
  BY <1>1
<1>3. m \in Nat /\ m <= x /\ x < m + d
  BY <1>1
<1>4. m % d = 0
  BY <1>1, <1>2
<1>5. QED
  BY <1>3, <1>4

\* The multiple before a multiple.
LEMMA MultipleBefore ==
  ASSUME NEW d \in Nat \ {0}, NEW m \in Nat, m % d = 0, m >= d
  PROVE  (m - d) % d = 0
<1> DEFINE k == m \div d
<1>1. k \in Nat /\ m = d * k /\ m - d = d * (k - 1) /\ k - 1 \in Int
  OBVIOUS
<1>2. ASSUME NEW j \in Int PROVE (d * j) % d = 0
  OBVIOUS
<1>3. (d * (k - 1)) % d = 0
  BY <1>1, <1>2
<1>4. QED
  BY <1>1, <1>3

\* A set of naturals has a least element.
LEMMA Least ==
  ASSUME NEW S \in SUBSET Nat, S # {}
  PROVE  \E m \in S : \A i \in S : m <= i
<1>1. \E m \in S : \A i \in S : ~ (<<i, m>> \in OpToRel(<, Nat))
  BY NatLessThanWellFounded, WFMin
<1>2. PICK m \in S : \A i \in S : ~ (i < m)
  BY <1>1 DEF OpToRel
<1>3. QED
  BY <1>2

\* Some window holds the words i to j, if they are no more than the overlap
\* and one: the last that starts before i, or the last of all.
THEOREM WindowHolds ==
  ASSUME NEW n \in Nat, NEW i \in 1 .. n, NEW j \in 1 .. n, j - i <= EffectiveOverlap
  PROVE  \E w \in Windows(n) : w.from <= i /\ j <= w.to
<1> DEFINE d == Stride
<1>1. d \in Nat \ {0} /\ d <= Size /\ Size \in Nat \ {0} /\ d + EffectiveOverlap = Size
      /\ EffectiveOverlap \in Nat
  BY StrideFacts, DocumentsAssumption
<1> HIDE DEF d
<1>2. ASSUME NEW s \in Starts(n), s + 1 <= i, j <= s + Size
      PROVE  \E w \in Windows(n) : w.from <= i /\ j <= w.to
  <2>1. s \in Nat
    BY DEF Starts
  <2>2. j <= Min({s + Size, n})
    BY <1>1, <1>2, <2>1, LesserOfTwo
  <2>3. [from |-> s + 1, to |-> Min({s + Size, n})] \in Windows(n)
    BY <1>2 DEF Windows
  <2>4. QED
    BY <1>2, <2>2, <2>3
<1>3. PICK m \in Nat : m % d = 0 /\ m <= i - 1 /\ i - 1 < m + d
  <2>1. i - 1 \in Nat
    OBVIOUS
  <2>2. QED
    BY <1>1, <2>1, MultipleBelow
<1>4. CASE m \in Starts(n)
  <2>1. j <= m + Size
    BY <1>1, <1>3
  <2>2. QED
    BY <1>2, <1>3, <1>4, <2>1
<1>5. CASE m \notin Starts(n)
  <2>1. m > 0 /\ m - d + Size >= n
    BY <1>1, <1>3, <1>5 DEF Starts, d
  <2>2. m >= d
    BY <1>1, <1>3, <2>1
  <2> DEFINE S == {s \in Nat : s % d = 0 /\ s + Size >= n}
  <2>3. m - d \in S
    <3>1. m - d \in Nat /\ (m - d) + Size >= n
      BY <1>1, <2>1, <2>2
    <3>2. (m - d) % d = 0
      BY <1>1, <1>3, <2>2, MultipleBefore
    <3>3. QED
      BY <3>1, <3>2
  <2>4. PICK s \in S : \A x \in S : s <= x
    BY <2>3, Least
  <2>5. s \in Nat /\ s % d = 0 /\ s + Size >= n /\ s + 1 <= i /\ s <= n - 1
    BY <1>1, <1>3, <2>2, <2>3, <2>4
  <2>6. s > 0 => s - d + Size < n
    <3>1. SUFFICES ASSUME s > 0, s - d + Size >= n PROVE FALSE
      BY <1>1, <2>5
    <3>2. CASE s >= d
      <4>1. s - d \in Nat /\ (s - d) + Size >= n
        BY <1>1, <2>5, <3>1, <3>2
      <4>2. (s - d) % d = 0
        BY <1>1, <2>5, <3>2, MultipleBefore
      <4>3. s - d \in S
        BY <4>1, <4>2
      <4>4. s <= s - d
        BY <2>4, <4>3
      <4>5. QED
        BY <1>1, <2>5, <4>4
    <3>3. CASE s < d
      BY <1>1, <2>5, <3>1, <3>3
    <3>4. QED
      BY <1>1, <2>5, <3>2, <3>3
  <2>7. s \in Starts(n)
    BY <2>5, <2>6 DEF Starts, d
  <2>8. QED
    <3>1. j <= s + Size
      BY <1>1, <2>5
    <3>2. QED
      BY <1>2, <2>5, <2>7, <3>1
<1>6. QED
  BY <1>4, <1>5


\* Windows lie in the text and are no longer than the setting says.
LEMMA WindowsFit ==
  ASSUME NEW n \in Nat, NEW w \in Windows(n)
  PROVE  /\ w \in [from : Nat, to : Nat]
         /\ w.from \in 1 .. n /\ w.to \in w.from .. n /\ w.to - w.from < Size
<1>1. PICK s \in Starts(n) : w = [from |-> s + 1, to |-> Min({s + Size, n})]
  BY DEF Windows
<1>2. s \in 0 .. n - 1 /\ Size \in Nat \ {0}
  BY DocumentsAssumption DEF Starts
<1>3. Min({s + Size, n}) = IF s + Size <= n THEN s + Size ELSE n
  BY <1>2, LesserOfTwo
<1>4. QED
  BY <1>1, <1>2, <1>3

\* There are finitely many.
LEMMA WindowsFinite ==
  ASSUME NEW n \in Nat, NEW u
  PROVE  IsFiniteSet({[document |-> u, from |-> w.from, to |-> w.to] : w \in Windows(n)})
<1> DEFINE window(s) == [from |-> s + 1, to |-> Min({s + Size, n})]
           T == {[document |-> u, from |-> w.from, to |-> w.to] : w \in Windows(n)}
           f == [s \in Starts(n) |->
                   [document |-> u, from |-> window(s).from, to |-> window(s).to]]
<1>1. IsFiniteSet(Starts(n))
  <2>1. IsFiniteSet(0 .. n - 1)
    BY FS_Interval
  <2>2. Starts(n) \in SUBSET (0 .. n - 1)
    BY DEF Starts
  <2>3. QED
    BY <2>1, <2>2, FS_Subset
<1>2. f \in [Starts(n) -> T]
  BY DEF Windows
<1>3. ASSUME NEW c \in T PROVE \E s \in Starts(n) : f[s] = c
  BY DEF Windows
<1>4. f \in Surjection(Starts(n), T)
  BY <1>2, <1>3 DEF Surjection
<1>5. QED
  BY <1>1, <1>4, FS_Surjection

\* top_k of a set that is not empty is not empty.
LEMMA SomeAreTaken ==
  ASSUME NEW S, IsFiniteSet(S), S # {}, NEW s \in kSubset(Min({TopK, Cardinality(S)}), S)
  PROVE  s # {}
<1>1. Cardinality(S) \in Nat \ {0}
  BY FS_CardinalityType, FS_EmptySet
<1>2. Min({TopK, Cardinality(S)}) # 0
  BY <1>1, LesserOfTwo, DocumentsAssumption
<1>3. QED
  BY <1>2, FS_EmptySet DEF kSubset

-----------------------------------------------------------------------------
(* The invariant. *)

\* An empty page, empty tables and no request.
LEMMA DocumentsInvInit == Init => DocumentsInv
<1> SUFFICES ASSUME Init PROVE DocumentsInv
  OBVIOUS
<1>1. TypeOK
  BY DocumentsAssumption DEF Init, TypeOK, Request, UploadPoint, AskPoint
<1>2. StoreInv
  BY FS_EmptySet DEF Init, StoreInv, Request
<1>3. ReplyInv
  BY DEF Init, ReplyInv
<1>4. BusyInv /\ PageInv
  BY DEF Init, BusyInv, PageInv, InFlight
<1>5. QED
  BY <1>1, <1>2, <1>3, <1>4 DEF DocumentsInv

\* What the transaction of an upload leaves in the tables.
LEMMA WriteStores ==
  ASSUME NEW u \in Upload, TypeOK, StoreInv, Write(u), UNCHANGED length
  PROVE  /\ documents' = documents \cup {u}
         /\ documents' \subseteq Upload
         /\ chunks' \subseteq Chunk
         /\ IsFiniteSet(chunks')
         /\ \A v \in documents' : \A w \in Windows(length'[v]) :
              [document |-> v, from |-> w.from, to |-> w.to] \in chunks'
         /\ \A c \in chunks' : c.document \in documents'
<1> DEFINE new == {[document |-> u, from |-> w.from, to |-> w.to] : w \in Windows(length[u])}
<1>1. documents' = documents \cup {u} /\ chunks' = chunks \cup new
  BY DEF Write
<1>2. length[u] \in Nat
  <2>1. length[u] \in Length \cup {0}
    BY DEF TypeOK
  <2>2. Length \cup {0} \subseteq Nat
    BY DocumentsAssumption
  <2>3. QED
    BY <2>1, <2>2
<1>3. IsFiniteSet(new)
  BY <1>2, WindowsFinite
<1>4. new \subseteq Chunk
  BY <1>2, WindowsFit DEF Chunk
<1>5. IsFiniteSet(chunks')
  BY <1>1, <1>3, FS_Union DEF StoreInv
<1>6. \A c \in new : c.document = u
  OBVIOUS
<1>7. \A w \in Windows(length[u]) : [document |-> u, from |-> w.from, to |-> w.to] \in new
  OBVIOUS
<1> HIDE DEF new
<1>8. QED
  BY <1>1, <1>4, <1>5, <1>6, <1>7 DEF TypeOK, StoreInv

\* Requests go from await to await of their own kind.
LEMMA GotoTypes ==
  ASSUME TypeOK, NEW r \in Request, NEW point, Goto(r, point),
         r \in Upload => point \in UploadPoint, r \in Ask => point \in AskPoint
  PROVE  /\ pc' \in [Request -> UploadPoint \cup AskPoint]
         /\ \A u \in Upload : pc'[u] \in UploadPoint
         /\ \A a \in Ask : pc'[a] \in AskPoint
         /\ pc'[r] = point
         /\ \A q \in Request \ {r} : pc'[q] = pc[q]
<1>1. point \in UploadPoint \cup AskPoint
  BY DEF Request
<1>2. pc \in [Request -> UploadPoint \cup AskPoint] /\ pc' = [pc EXCEPT ![r] = point]
  BY DEF TypeOK, Goto
<1>3. pc' \in [Request -> UploadPoint \cup AskPoint]
      /\ \A q \in Request : pc'[q] = IF q = r THEN point ELSE pc[q]
  BY <1>1, <1>2
<1>4. QED
  BY <1>3 DEF TypeOK, Request

\* Every step keeps the types.
LEMMA TypeStep ==
  ASSUME DocumentsInv, [Next]_vars
  PROVE  TypeOK'
<1> TypeOK /\ Upload \subseteq Request /\ Ask \subseteq Request /\ Upload \cap Ask = {}
  BY DocumentsAssumption DEF DocumentsInv, Request
<1>1. ASSUME NEW u \in Upload, NEW n \in Length, OnUpload(u, n) PROVE TypeOK'
  BY <1>1, GotoTypes DEF OnUpload, opening, tables, TypeOK, UploadPoint
<1>2. ASSUME NEW a \in Ask, NEW u \in Upload, NEW f \in Fact, OnAsk(a, u, f) PROVE TypeOK'
  BY <1>2, GotoTypes DEF OnAsk, opening, tables, TypeOK, AskPoint
<1>3. ASSUME NEW u \in Upload, Store(u) PROVE TypeOK'
  <2>1. documents' \subseteq Upload /\ chunks' \subseteq Chunk
    BY <1>3, WriteStores DEF Store, DocumentsInv
  <2>2. QED
    BY <1>3, <2>1, GotoTypes DEF Store, opening, page, history, TypeOK, UploadPoint
<1>4. ASSUME NEW u \in Upload, Ingested(u) \/ List(u) \/ Listed(u) PROVE TypeOK'
  <2>1. CASE Ingested(u)
    BY <2>1, GotoTypes DEF Ingested, opening, tables, TypeOK, UploadPoint
  <2>2. CASE List(u)
    BY <2>2, GotoTypes DEF List, opening, tables, page, history, TypeOK, UploadPoint
  <2>3. CASE Listed(u)
    BY <2>3, GotoTypes DEF Listed, opening, tables, TypeOK, UploadPoint
  <2>4. QED
    BY <1>4, <2>1, <2>2, <2>3
<1>5. ASSUME NEW a \in Ask, Retrieve(a) PROVE TypeOK'
  <2>1. \E s \in SUBSET chunks : sources' = [sources EXCEPT ![a] = s]
    BY <1>5 DEF Retrieve, kSubset
  <2>2. sources' \in [Ask -> SUBSET Chunk]
    BY <2>1 DEF TypeOK
  <2>3. reply' \in [Ask -> {"none", "unverified", "ungrounded", "grounded"}]
    BY <1>5 DEF Retrieve, TypeOK
  <2>4. \E point \in AskPoint \ {"idle"} : Goto(a, point)
    BY <1>5 DEF Retrieve, AskPoint
  <2>5. QED
    BY <1>5, <2>2, <2>3, <2>4, GotoTypes DEF Retrieve, opening, tables, page, history, TypeOK
<1>6. ASSUME NEW a \in Ask, Generate(a) \/ Answered(a) PROVE TypeOK'
  <2>1. reply' \in [Ask -> {"none", "unverified", "ungrounded", "grounded"}]
    BY <1>6 DEF Generate, Answered, TypeOK
  <2>2. \E point \in AskPoint \ {"idle"} : Goto(a, point)
    BY <1>6 DEF Generate, Answered, AskPoint
  <2>3. QED
    BY <1>6, <2>1, <2>2, GotoTypes DEF Generate, Answered, opening, tables, page, history, TypeOK
<1>7. ASSUME NEW r \in Request, Embed(r) \/ Failed(r) PROVE TypeOK'
  <2>1. \E point : point # "idle" /\ Goto(r, point) /\ (r \in Upload => point \in UploadPoint)
                   /\ (r \in Ask => point \in AskPoint)
    BY <1>7 DEF Embed, Failed, AskPoint, UploadPoint
  <2>2. QED
    BY <1>7, <2>1, GotoTypes DEF Embed, Failed, opening, tables, page, history, TypeOK
<1>8. ASSUME NEW r \in Request, Raises(r) PROVE TypeOK'
  <2>1. documents' \subseteq Upload /\ chunks' \subseteq Chunk
    <3>1. CASE UNCHANGED tables
      BY <3>1 DEF tables, TypeOK
    <3>2. CASE pc[r] = "store" /\ Write(r)
      BY <1>8, <3>2, WriteStores DEF Raises, DocumentsInv, TypeOK, Request, AskPoint
    <3>3. QED
      BY <1>8, <3>1, <3>2 DEF Raises
  <2>2. QED
    BY <1>8, <2>1, GotoTypes DEF Raises, opening, page, history, TypeOK, UploadPoint, AskPoint
<1>9. CASE UNCHANGED vars
  BY <1>9 DEF vars, request, opening, tables, page, history, TypeOK
<1>10. CASE RefreshLists \/ RefreshShows \/ RefreshFails
  BY <1>10 DEF RefreshLists, RefreshShows, RefreshFails, request, tables, page, history, TypeOK
<1>11. QED
  BY <1>1, <1>2, <1>3, <1>4, <1>5, <1>6, <1>7, <1>8, <1>9, <1>10 DEF Next

\* A step that writes no table leaves the tables whole, if it changes no text
\* that is stored and takes no upload to "stored".
LEMMA StoreRests ==
  ASSUME TypeOK, StoreInv, UNCHANGED tables,
         \A u \in documents : length'[u] = length[u],
         \A u \in Upload : pc'[u] \in {"idle", "embed"} => pc[u] \in {"idle", "embed"},
         \A u \in Upload : pc'[u] = "stored" => pc[u] = "stored",
         \A u \in Upload : view'[u] \subseteq documents, early' \subseteq documents,
         \A a \in Ask : known'[a] \subseteq documents,
         listed' \subseteq documents, told' \subseteq documents
  PROVE  StoreInv'
<1>1. documents' = documents /\ chunks' = chunks
  BY DEF tables
<1>2. \A u \in documents' : \A w \in Windows(length'[u]) :
        [document |-> u, from |-> w.from, to |-> w.to] \in chunks'
  BY <1>1 DEF StoreInv
<1>3. QED
  BY <1>1, <1>2 DEF StoreInv

\* Every step keeps StoreInv.
LEMMA StoreStep ==
  ASSUME DocumentsInv, [Next]_vars
  PROVE  StoreInv'
<1> TypeOK /\ StoreInv /\ Upload \subseteq Request /\ Ask \subseteq Request
    /\ Upload \cap Ask = {} /\ documents \subseteq Upload
  BY DocumentsAssumption DEF DocumentsInv, Request, TypeOK
<1> DEFINE Same == /\ \A u \in Upload : view[u] \subseteq documents
                   /\ early \subseteq documents
                   /\ \A a \in Ask : known[a] \subseteq documents
                   /\ listed \subseteq documents /\ told \subseteq documents
<1> Same
  BY DEF StoreInv
<1>1. ASSUME NEW u \in Upload, NEW n \in Length, OnUpload(u, n) PROVE StoreInv'
  <2>1. pc[u] = "idle" /\ u \notin documents
    BY <1>1 DEF OnUpload, Made, StoreInv
  <2>2. \A v \in documents : length'[v] = length[v]
    BY <1>1, <2>1 DEF OnUpload, TypeOK
  <2>3. /\ \A v \in Upload : pc'[v] \in {"idle", "embed"} => pc[v] \in {"idle", "embed"}
        /\ \A v \in Upload : pc'[v] = "stored" => pc[v] = "stored"
    BY <1>1, <2>1, GotoTypes DEF OnUpload, UploadPoint
  <2>4. QED
    BY <1>1, <2>2, <2>3, StoreRests DEF OnUpload, opening
<1>2. ASSUME NEW a \in Ask, NEW u \in Upload, NEW f \in Fact, OnAsk(a, u, f) PROVE StoreInv'
  <2>1. \A v \in Upload : pc'[v] = pc[v]
    BY <1>2, GotoTypes DEF OnAsk, AskPoint
  <2>2. \A q \in Ask : known'[q] \subseteq documents
    BY <1>2 DEF OnAsk, TypeOK
  <2>3. QED
    BY <1>2, <2>1, <2>2, StoreRests DEF OnAsk, opening
<1>3. ASSUME NEW u \in Upload, Write(u), UNCHANGED <<length, view, early, known, listed, told>>,
             \A v \in Upload \ {u} : pc'[v] = pc[v], pc'[u] \in {"stored", "failed"}
      PROVE  StoreInv'
  <2>1. documents' = documents \cup {u}
    BY <1>3, WriteStores
  <2>2. \A v \in Upload : pc'[v] \in {"idle", "embed"} => v \notin documents'
    BY <1>3, <2>1 DEF StoreInv
  <2>3. \A v \in Upload : pc'[v] = "stored" => v \in documents'
    BY <1>3, <2>1 DEF StoreInv
  <2>4. QED
    BY <1>3, <2>1, <2>2, <2>3, WriteStores DEF StoreInv
<1>4. ASSUME NEW u \in Upload, Store(u) PROVE StoreInv'
  BY <1>3, <1>4, GotoTypes DEF Store, opening, page, history, UploadPoint
<1>5. ASSUME NEW u \in Upload, Ingested(u) PROVE StoreInv'
  <2>1. u \in documents
    BY <1>5 DEF Ingested, StoreInv
  <2>2. pc'[u] = "list" /\ \A v \in Upload \ {u} : pc'[v] = pc[v]
    BY <1>5, GotoTypes DEF Ingested, UploadPoint
  <2>3. QED
    BY <1>5, <2>1, <2>2, StoreRests DEF Ingested, opening
<1>6. ASSUME NEW u \in Upload, List(u) PROVE StoreInv'
  <2>1. pc'[u] = "listed" /\ \A v \in Upload \ {u} : pc'[v] = pc[v]
    BY <1>6, GotoTypes DEF List, UploadPoint
  <2>2. \A v \in Upload : view'[v] \subseteq documents
    BY <1>6 DEF List, TypeOK
  <2>3. QED
    BY <1>6, <2>1, <2>2, StoreRests DEF List, opening, page, history
<1>7. ASSUME NEW u \in Upload, Listed(u) PROVE StoreInv'
  <2>1. pc'[u] = "over" /\ \A v \in Upload \ {u} : pc'[v] = pc[v]
    BY <1>7, GotoTypes DEF Listed, UploadPoint
  <2>2. QED
    BY <1>7, <2>1, StoreRests DEF Listed, opening
<1>8. ASSUME NEW a \in Ask, Retrieve(a) \/ Generate(a) \/ Answered(a) PROVE StoreInv'
  <2>1. \A v \in Upload : pc'[v] = pc[v]
    <3>1. \E point \in AskPoint : Goto(a, point)
      BY <1>8 DEF Retrieve, Generate, Answered, AskPoint
    <3>2. QED
      BY <3>1, GotoTypes
  <2>2. UNCHANGED <<tables, length, view, early, known, listed, told>>
    BY <1>8 DEF Retrieve, Generate, Answered, opening, page, history
  <2>3. QED
    BY <2>1, <2>2, StoreRests
<1>9. ASSUME NEW r \in Request, Embed(r) \/ Failed(r) PROVE StoreInv'
  <2>1. \E point \in {"store", "retrieve", "over"} :
          Goto(r, point) /\ (r \in Upload => point # "retrieve") /\ (r \in Ask => point # "store")
    BY <1>9 DEF Embed, Failed
  <2>2. /\ \A v \in Upload : pc'[v] \in {"idle", "embed"} => pc[v] \in {"idle", "embed"}
        /\ \A v \in Upload : pc'[v] = "stored" => pc[v] = "stored"
    BY <2>1, GotoTypes DEF UploadPoint, AskPoint
  <2>3. UNCHANGED <<tables, length, view, early, known, listed, told>>
    BY <1>9 DEF Embed, Failed, opening, page, history
  <2>4. QED
    BY <2>2, <2>3, StoreRests
<1>10. ASSUME NEW r \in Request, Raises(r) PROVE StoreInv'
  <2>1. pc'[r] = "failed" /\ \A q \in Request \ {r} : pc'[q] = pc[q]
    BY <1>10, GotoTypes DEF Raises, UploadPoint, AskPoint
  <2>2. UNCHANGED <<length, view, early, known, listed, told>>
    BY <1>10 DEF Raises, opening, page, history
  <2>3. CASE UNCHANGED tables
    BY <2>1, <2>2, <2>3, StoreRests
  <2>4. CASE pc[r] = "store" /\ Write(r)
    <3>1. r \in Upload
      BY <2>4 DEF Request, TypeOK, AskPoint
    <3>2. QED
      BY <1>3, <2>1, <2>2, <2>4, <3>1
  <2>5. QED
    BY <1>10, <2>3, <2>4 DEF Raises
<1>11. CASE UNCHANGED vars
  BY <1>11, StoreRests DEF vars, request, opening, page, history
<1>12. CASE RefreshLists \/ RefreshShows \/ RefreshFails
  <2>1. early' \subseteq documents /\ listed' \subseteq documents
    BY <1>12 DEF RefreshLists, RefreshShows, RefreshFails, page
  <2>2. UNCHANGED <<request, tables, known, told>>
    BY <1>12 DEF RefreshLists, RefreshShows, RefreshFails, history
  <2>3. QED
    BY <2>1, <2>2, StoreRests DEF request
<1>13. QED
  BY <1>1, <1>2, <1>4, <1>5, <1>6, <1>7, <1>8, <1>9, <1>10, <1>11, <1>12 DEF Next

\* What can be answered has a chunk that supports the answer.
LEMMA SupportIsStored ==
  ASSUME TypeOK, StoreInv, NEW a \in Ask, pc[a] # "idle", Answerable(a)
  PROVE  \E c \in chunks : Supports(c, a)
<1> DEFINE u == about[a].document
           f == about[a].fact
           i == IF f.from <= f.to THEN f.from ELSE f.to
<1>1. u \in Upload /\ f \in Fact /\ u \in documents
  BY DEF TypeOK, StoreInv, Answerable
<1>2. f.from \in Nat \ {0} /\ f.to \in Nat \ {0}
  BY <1>1, DocumentsAssumption
<1>3. length[u] \in Nat
  <2>1. length[u] \in Length \cup {0}
    BY <1>1 DEF TypeOK
  <2>2. Length \cup {0} \subseteq Nat
    BY DocumentsAssumption
  <2>3. QED
    BY <2>1, <2>2
<1>4. f.to <= length[u] /\ f.to - f.from <= EffectiveOverlap /\ EffectiveOverlap \in Nat
  BY StrideFacts DEF Answerable
<1>5. i \in 1 .. length[u] /\ f.to \in 1 .. length[u] /\ f.to - i <= EffectiveOverlap
      /\ i <= f.from
  <2> HIDE DEF u, f
  <2>1. QED
    BY <1>2, <1>3, <1>4
<1> HIDE DEF u, f, i
<1>6. PICK w \in Windows(length[u]) : w.from <= i /\ f.to <= w.to
  BY <1>3, <1>5, WindowHolds
<1>7. [document |-> u, from |-> w.from, to |-> w.to] \in chunks
  BY <1>1 DEF StoreInv
<1>8. w.from \in Nat /\ w.to \in Nat
  BY <1>3, WindowsFit
<1>9. w.from <= f.from
  BY <1>2, <1>5, <1>6, <1>8 DEF i
<1>10. QED
  BY <1>6, <1>7, <1>9 DEF Supports, u, f

\* Whether a question can be answered is settled when it is asked.
LEMMA AnswerableRests ==
  ASSUME TypeOK, StoreInv, NEW a \in Ask, about'[a] = about[a], known'[a] = known[a],
         \A u \in documents : length'[u] = length[u]
  PROVE  Answerable(a)' => Answerable(a)
<1>1. known[a] \subseteq documents
  BY DEF StoreInv
<1>2. QED
  BY <1>1 DEF Answerable

\* A question that is left alone keeps its reply justified.
LEMMA ReplyRests ==
  ASSUME TypeOK, StoreInv, NEW a \in Ask, reply'[a] = "unverified", reply[a] = "unverified",
         pc[a] # "idle" /\ ~Answerable(a), pc'[a] # "idle",
         about'[a] = about[a], known'[a] = known[a],
         \A u \in documents : length'[u] = length[u]
  PROVE  pc'[a] # "idle" /\ ~Answerable(a)'
  BY AnswerableRests

\* Every step keeps ReplyInv.
LEMMA ReplyStep ==
  ASSUME DocumentsInv, [Next]_vars
  PROVE  ReplyInv'
<1> TypeOK /\ StoreInv /\ ReplyInv /\ Upload \subseteq Request /\ Ask \subseteq Request
    /\ Upload \cap Ask = {} /\ documents \subseteq Upload
  BY DocumentsAssumption DEF DocumentsInv, Request, TypeOK
<1>0. SUFFICES ASSUME NEW b \in Ask, reply'[b] = "unverified"
      PROVE  pc'[b] # "idle" /\ ~Answerable(b)'
  BY DEF ReplyInv
<1>1. ASSUME NEW u \in Upload, NEW n \in Length, OnUpload(u, n)
      PROVE  pc'[b] # "idle" /\ ~Answerable(b)'
  <2>1. pc[u] = "idle" /\ u \notin documents /\ pc'[b] = pc[b]
    BY <1>1, GotoTypes DEF OnUpload, Made, StoreInv, UploadPoint
  <2>2. \A v \in documents : length'[v] = length[v]
    BY <1>1, <2>1 DEF OnUpload, TypeOK
  <2>3. QED
    BY <1>0, <1>1, <2>1, <2>2, ReplyRests DEF OnUpload, ReplyInv
<1>2. ASSUME NEW a \in Ask, NEW u \in Upload, NEW f \in Fact, OnAsk(a, u, f)
      PROVE  pc'[b] # "idle" /\ ~Answerable(b)'
  <2>1. reply[b] = "unverified" /\ pc[b] # "idle" /\ ~Answerable(b) /\ b # a
    BY <1>0, <1>2 DEF OnAsk, Made, ReplyInv
  <2>2. pc'[b] = pc[b] /\ about'[b] = about[b] /\ known'[b] = known[b]
    BY <1>2, <2>1, GotoTypes DEF OnAsk, AskPoint, TypeOK
  <2>3. QED
    BY <1>0, <1>2, <2>1, <2>2, ReplyRests DEF OnAsk
<1>3. ASSUME NEW r \in Request, NEW point, Goto(r, point), point # "idle",
             r \in Upload => point \in UploadPoint, r \in Ask => point \in AskPoint,
             UNCHANGED <<length, about, known>>, reply'[b] = reply[b]
      PROVE  pc'[b] # "idle" /\ ~Answerable(b)'
  <2>1. reply[b] = "unverified" /\ pc[b] # "idle" /\ ~Answerable(b)
    BY <1>0, <1>3 DEF ReplyInv
  <2>2. pc'[b] # "idle"
    BY <1>3, <2>1, GotoTypes
  <2>3. QED
    BY <1>0, <1>3, <2>1, <2>2, ReplyRests
<1>4. ASSUME NEW u \in Upload, Store(u) \/ Ingested(u) \/ List(u) \/ Listed(u)
      PROVE  pc'[b] # "idle" /\ ~Answerable(b)'
  <2>1. PICK point \in UploadPoint \ {"idle"} : Goto(u, point)
    BY <1>4 DEF Store, Ingested, List, Listed, UploadPoint
  <2>2. UNCHANGED <<length, about, reply, known>>
    BY <1>4 DEF Store, Ingested, List, Listed, history
  <2>3. QED
    BY <1>3, <2>1, <2>2
<1>5. ASSUME NEW a \in Ask, Generate(a) \/ Answered(a)
      PROVE  pc'[b] # "idle" /\ ~Answerable(b)'
  <2>1. PICK point \in AskPoint \ {"idle"} : Goto(a, point)
    BY <1>5 DEF Generate, Answered, AskPoint
  <2>2. UNCHANGED <<length, about, known>>
    BY <1>5 DEF Generate, Answered, history
  <2>3. reply'[b] = reply[b]
    BY <1>0, <1>5 DEF Generate, Answered, TypeOK
  <2>4. QED
    BY <1>3, <2>1, <2>2, <2>3
<1>6. ASSUME NEW a \in Ask, Retrieve(a) PROVE pc'[b] # "idle" /\ ~Answerable(b)'
  <2>1. PICK point \in AskPoint \ {"idle"} : Goto(a, point)
    BY <1>6 DEF Retrieve, AskPoint
  <2>2. UNCHANGED <<length, about, known>>
    BY <1>6 DEF Retrieve, history
  <2>3. CASE reply'[b] = reply[b]
    BY <1>3, <2>1, <2>2, <2>3
  <2>4. CASE reply'[b] # reply[b]
    <3>1. b = a /\ sources'[a] = {}
      BY <1>6, <2>4 DEF Retrieve, TypeOK
    <3> DEFINE near == {c \in chunks : Supports(c, a)}
    <3>2. PICK s \in kSubset(Min({TopK, Cardinality(near)}), near) :
            sources' = [sources EXCEPT ![a] = s]
      BY <1>6 DEF Retrieve
    <3>3. s = {}
      BY <3>1, <3>2 DEF TypeOK
    <3>4. IsFiniteSet(near)
      BY FS_Subset DEF StoreInv
    <3>5. near = {}
      <4> HIDE DEF near
      <4>1. QED
        BY <3>2, <3>3, <3>4, SomeAreTaken
    <3>6. pc[a] # "idle" /\ ~Answerable(a)
      BY <1>6, <3>5, SupportIsStored DEF Retrieve
    <3>7. ~Answerable(a)'
      BY <2>2, <3>6, AnswerableRests
    <3>8. QED
      BY <2>1, <3>1, <3>7, GotoTypes DEF AskPoint
  <2>5. QED
    BY <2>3, <2>4
<1>7. ASSUME NEW r \in Request, Embed(r) \/ Failed(r) \/ Raises(r)
      PROVE  pc'[b] # "idle" /\ ~Answerable(b)'
  <2>1. PICK point : /\ Goto(r, point) /\ point # "idle"
                     /\ r \in Upload => point \in UploadPoint
                     /\ r \in Ask => point \in AskPoint
    BY <1>7 DEF Embed, Failed, Raises, UploadPoint, AskPoint
  <2>2. UNCHANGED <<length, about, reply, known>>
    BY <1>7 DEF Embed, Failed, Raises, history
  <2>3. QED
    BY <1>3, <2>1, <2>2
<1>8. CASE UNCHANGED vars
  BY <1>0, <1>8, ReplyRests DEF vars, request, history, ReplyInv
<1>9. CASE RefreshLists \/ RefreshShows \/ RefreshFails
  <2>1. UNCHANGED <<request, known>>
    BY <1>9 DEF RefreshLists, RefreshShows, RefreshFails, history
  <2>2. QED
    BY <1>0, <2>1, ReplyRests DEF request, ReplyInv
<1>10. QED
  BY <1>1, <1>2, <1>4, <1>5, <1>6, <1>7, <1>8, <1>9 DEF Next

\* Every step keeps BusyInv.
LEMMA BusyStep ==
  ASSUME DocumentsInv, [Next]_vars
  PROVE  BusyInv'
<1> TypeOK /\ BusyInv /\ Upload \subseteq Request /\ Ask \subseteq Request
    /\ Upload \cap Ask = {}
  BY DocumentsAssumption DEF DocumentsInv, Request
<1>1. ASSUME NEW r \in Request, NEW point, Goto(r, point), point \notin {"idle", "over"},
             r \in Upload => point \in UploadPoint, r \in Ask => point \in AskPoint
      PROVE  BusyInv'
  BY <1>1, GotoTypes DEF BusyInv, InFlight
<1>2. ASSUME NEW u \in Upload, NEW n \in Length, OnUpload(u, n) PROVE BusyInv'
  BY <1>1, <1>2 DEF OnUpload, UploadPoint
<1>3. ASSUME NEW u \in Upload, Store(u) \/ Ingested(u) \/ List(u) PROVE BusyInv'
  BY <1>1, <1>3 DEF Store, Ingested, List, UploadPoint
<1>4. ASSUME NEW a \in Ask, NEW u \in Upload, NEW f \in Fact, OnAsk(a, u, f) PROVE BusyInv'
  BY <1>1, <1>4 DEF OnAsk, AskPoint
<1>5. ASSUME NEW a \in Ask, Retrieve(a) \/ Generate(a) PROVE BusyInv'
  <2>1. \E point \in {"answered", "generate"} : Goto(a, point)
    BY <1>5 DEF Retrieve, Generate
  <2>2. QED
    BY <1>1, <2>1 DEF AskPoint
<1>6. ASSUME NEW r \in Request, Embed(r) \/ Raises(r) PROVE BusyInv'
  <2>1. \E point \in {"store", "retrieve", "failed"} :
          /\ Goto(r, point)
          /\ (r \in Upload => point # "retrieve") /\ (r \in Ask => point # "store")
    BY <1>6 DEF Embed, Raises
  <2>2. QED
    BY <1>1, <2>1 DEF UploadPoint, AskPoint
<1>7. ASSUME ~busy' PROVE BusyInv'
  BY <1>7 DEF BusyInv
<1>8. ASSUME UNCHANGED <<pc, busy>> PROVE BusyInv'
  BY <1>8 DEF BusyInv, InFlight
<1>9. CASE RefreshLists \/ RefreshShows \/ RefreshFails \/ UNCHANGED vars
  BY <1>8, <1>9 DEF RefreshLists, RefreshShows, RefreshFails, request, page, vars
<1>10. QED
  BY <1>2, <1>3, <1>4, <1>5, <1>6, <1>7, <1>9 DEF Next, Listed, Answered, Failed

\* The request of a user who waits is the only one.
LEMMA AloneInFlight ==
  ASSUME TypeOK, PageInv, ~overlapped, NEW r \in Request, NEW point, Goto(r, point),
         r \in Upload => point \in UploadPoint, r \in Ask => point \in AskPoint,
         point # "idle", pc[r] # "over", pc[r] = "idle" => ~busy
  PROVE  /\ InFlight = IF pc[r] = "idle" THEN {} ELSE {r}
         /\ InFlight' = IF point = "over" THEN {} ELSE {r}
         /\ pc'[r] = point
         /\ \A q \in Request \ {r} : pc'[q] = pc[q] /\ pc[q] \in {"idle", "over"}
<1>1. pc'[r] = point /\ \A q \in Request \ {r} : pc'[q] = pc[q]
  BY GotoTypes
<1>2. \A q \in Request \ {r} : q \notin InFlight
  BY DEF PageInv, InFlight
<1>3. \A q \in Request \ {r} : pc[q] \in {"idle", "over"}
  BY <1>2 DEF InFlight
<1>4. QED
  BY <1>1, <1>3 DEF InFlight

\* Every step keeps PageInv.
LEMMA PageStep ==
  ASSUME DocumentsInv, [Next]_vars
  PROVE  PageInv'
<1> TypeOK /\ StoreInv /\ PageInv /\ Upload \subseteq Request /\ Ask \subseteq Request
    /\ Upload \cap Ask = {}
  BY DocumentsAssumption DEF DocumentsInv, Request
<1>0. SUFFICES ASSUME ~overlapped' PROVE PageInv'
  BY DEF PageInv
<1>1. ASSUME NEW u \in Upload, NEW n \in Length, OnUpload(u, n) PROVE PageInv'
  <2>1. ~overlapped /\ ~busy /\ shown' = shown /\ latest' = latest
    BY <1>0, <1>1 DEF OnUpload
  <2>2. PICK point \in UploadPoint \ {"idle", "listed", "over"} : Goto(u, point)
    BY <1>1 DEF OnUpload, UploadPoint
  <2>3. InFlight' = {u} /\ pc'[u] # "listed"
        /\ \A q \in Request \ {u} : pc'[q] \in {"idle", "over"}
    BY <1>1, <2>1, <2>2, AloneInFlight DEF OnUpload, Made
  <2>4. busy' /\ note' = "uploading"
    BY <1>1 DEF OnUpload
  <2>5. QED
    BY <2>1, <2>3, <2>4 DEF PageInv
<1>2. ASSUME NEW a \in Ask, NEW u \in Upload, NEW f \in Fact, OnAsk(a, u, f) PROVE PageInv'
  <2>1. ~overlapped /\ ~busy /\ busy' /\ shown' = NoAsk /\ latest' = a
    BY <1>0, <1>2 DEF OnAsk
  <2>2. Goto(a, "embed")
    BY <1>2 DEF OnAsk
  <2>3. InFlight = {} /\ InFlight' = {a} /\ \A q \in Request \ {a} : pc'[q] \in {"idle", "over"}
    BY <1>2, <2>1, <2>2, AloneInFlight DEF OnAsk, Made, AskPoint
  <2>4. note' = "ingested" /\ ~late' => told' \subseteq listed'
    BY <1>2, <2>1, <2>3 DEF OnAsk, PageInv
  <2>5. QED
    BY <2>1, <2>3, <2>4 DEF PageInv
<1>3. ASSUME NEW r \in Request, NEW point, Goto(r, point), point \notin {"idle", "listed", "over"},
             r \in Upload => point \in UploadPoint, r \in Ask => point \in AskPoint,
             pc[r] \notin {"idle", "over"},
             UNCHANGED <<busy, shown, listed, overlapped, late, latest>>,
             r \in Upload \/ UNCHANGED <<note, told>>
      PROVE  PageInv'
  <2>1. ~overlapped
    BY <1>0, <1>3
  <2>2. /\ InFlight = {r} /\ InFlight' = {r} /\ pc'[r] = point
        /\ \A q \in Request \ {r} : pc'[q] = pc[q] /\ pc[q] \in {"idle", "over"}
    BY <1>3, <2>1, AloneInFlight
  <2>3. note' = "ingested" /\ InFlight' \cap Upload = {} /\ ~late' => told' \subseteq listed'
    BY <1>3, <2>1, <2>2 DEF PageInv
  <2>4. QED
    BY <1>3, <2>1, <2>2, <2>3 DEF PageInv
<1>4. ASSUME NEW u \in Upload, Store(u) \/ Ingested(u) PROVE PageInv'
  <2>1. \E point \in {"stored", "list"} : Goto(u, point)
    BY <1>4 DEF Store, Ingested
  <2>2. pc[u] \notin {"idle", "over"} /\ UNCHANGED <<busy, shown, listed, overlapped, late, latest>>
    BY <1>4 DEF Store, Ingested, page, history
  <2>3. QED
    BY <1>3, <2>1, <2>2 DEF UploadPoint
<1>5. ASSUME NEW u \in Upload, List(u) PROVE PageInv'
  <2>1. ~overlapped
    BY <1>0, <1>5 DEF List, history
  <2>2. /\ InFlight = {u} /\ InFlight' = {u} /\ pc'[u] = "listed"
        /\ \A q \in Request \ {u} : pc'[q] = pc[q] /\ pc[q] \in {"idle", "over"}
    BY <1>5, <2>1, AloneInFlight DEF List, UploadPoint
  <2>3. told' \subseteq view'[u]
    BY <1>5 DEF List, history, StoreInv, TypeOK
  <2>4. QED
    BY <1>5, <2>1, <2>2, <2>3 DEF List, page, history, PageInv
<1>6. ASSUME NEW r \in Request, Goto(r, "over"), pc[r] \notin {"idle", "over"}, ~busy',
             UNCHANGED <<overlapped, latest>>, shown' # NoAsk => shown' = latest,
             note' = "ingested" /\ ~late' => told' \subseteq listed'
      PROVE  PageInv'
  <2>1. ~overlapped
    BY <1>0, <1>6
  <2>2. InFlight' = {} /\ \A q \in Request : pc'[q] \in {"idle", "over"}
    BY <1>6, <2>1, AloneInFlight DEF UploadPoint, AskPoint
  <2>3. QED
    BY <1>6, <2>2 DEF PageInv
<1>7. ASSUME NEW u \in Upload, Listed(u) PROVE PageInv'
  <2>1. ~overlapped /\ told \subseteq view[u]
    BY <1>0, <1>7 DEF Listed, PageInv
  <2>2. shown' # NoAsk => shown' = latest
    BY <1>7, <2>1 DEF Listed, PageInv
  <2>3. QED
    BY <1>6, <1>7, <2>1, <2>2 DEF Listed
<1>8. ASSUME NEW a \in Ask, Retrieve(a) \/ Generate(a) PROVE PageInv'
  <2>1. \E point \in {"answered", "generate"} : Goto(a, point)
    BY <1>8 DEF Retrieve, Generate
  <2>2. pc[a] \notin {"idle", "over"} /\ UNCHANGED <<page, history>>
    BY <1>8 DEF Retrieve, Generate
  <2>3. QED
    BY <1>3, <2>1, <2>2 DEF AskPoint, page, history
<1>9. ASSUME NEW a \in Ask, Answered(a) PROVE PageInv'
  <2>1. ~overlapped /\ a \in InFlight /\ latest = a
    BY <1>0, <1>9 DEF Answered, history, PageInv, InFlight
  <2>2. InFlight \cap Upload = {}
    BY <2>1 DEF PageInv
  <2>3. note' = "ingested" /\ ~late' => told' \subseteq listed'
    BY <1>9, <2>1, <2>2 DEF Answered, history, PageInv
  <2>4. QED
    BY <1>6, <1>9, <2>1, <2>3 DEF Answered, history
<1>10. ASSUME NEW r \in Request, Embed(r) \/ Raises(r) PROVE PageInv'
  <2>1. \E point \in {"store", "retrieve", "failed"} :
          /\ Goto(r, point)
          /\ (r \in Upload => point # "retrieve") /\ (r \in Ask => point # "store")
    BY <1>10 DEF Embed, Raises
  <2>2. pc[r] \notin {"idle", "over"} /\ UNCHANGED <<page, history>>
    BY <1>10 DEF Embed, Raises
  <2>3. QED
    BY <1>3, <2>1, <2>2 DEF UploadPoint, AskPoint, page, history
<1>11. ASSUME NEW r \in Request, Failed(r) PROVE PageInv'
  <2>1. ~overlapped /\ r \in InFlight
    BY <1>0, <1>11 DEF Failed, history, InFlight
  <2>2. shown' # NoAsk => shown' = latest
    BY <1>11, <2>1 DEF Failed, PageInv
  <2>3. note' = "ingested" /\ ~late' => told' \subseteq listed'
    <3>1. CASE r \in Upload
      BY <1>11, <3>1 DEF Failed
    <3>2. CASE r \notin Upload
      <4>1. InFlight \cap Upload = {}
        BY <2>1, <3>2 DEF PageInv, InFlight
      <4>2. QED
        BY <1>11, <2>1, <3>2, <4>1 DEF Failed, history, PageInv
    <3>3. QED
      BY <3>1, <3>2
  <2>4. QED
    BY <1>6, <1>11, <2>2, <2>3 DEF Failed, history
<1>12. CASE UNCHANGED vars
  BY <1>12 DEF vars, request, page, history, PageInv, InFlight
<1>13. CASE RefreshLists \/ RefreshFails
  BY <1>13 DEF RefreshLists, RefreshFails, request, page, history, PageInv, InFlight
<1>14. CASE RefreshShows
  <2>1. UNCHANGED <<pc, view, busy, shown, note, overlapped, latest, told>>
    BY <1>14 DEF RefreshShows, request
  <2>2. ~late' => told' \subseteq listed'
    BY <1>14 DEF RefreshShows
  <2>3. QED
    BY <2>1, <2>2 DEF PageInv, InFlight
<1>15. QED
  BY <1>1, <1>2, <1>4, <1>5, <1>7, <1>8, <1>9, <1>10, <1>11, <1>12, <1>13, <1>14 DEF Next

\* Spec => []DocumentsInv.
LEMMA DocumentsInvHolds == Spec => []DocumentsInv
<1>1. DocumentsInv /\ [Next]_vars => DocumentsInv'
  BY TypeStep, StoreStep, ReplyStep, BusyStep, PageStep DEF DocumentsInv
<1>2. QED
  BY DocumentsInvInit, <1>1, PTL DEF Spec

-----------------------------------------------------------------------------
(* The properties. *)

\* Spec => []WholeDocuments: whatever fails, every word of a stored document is
\* in one of its chunks, no chunk lacks its document, and the page lists only
\* what is stored (ingest_document).
THEOREM DocumentsAreWhole == Spec => []WholeDocuments
<1>1. ASSUME DocumentsInv PROVE WholeDocuments
  <2>1. ASSUME NEW u \in documents, NEW i \in 1 .. length[u]
        PROVE  \E c \in chunks : c.document = u /\ i \in c.from .. c.to
    <3>1. length[u] \in Length \cup {0} /\ Length \cup {0} \subseteq Nat
      BY <1>1, DocumentsAssumption DEF DocumentsInv, TypeOK
    <3>2. length[u] \in Nat /\ i - i <= EffectiveOverlap
      BY <3>1, StrideFacts
    <3>3. PICK w \in Windows(length[u]) : w.from <= i /\ i <= w.to
      BY <3>2, WindowHolds
    <3>4. w.from \in Nat /\ w.to \in Nat
      BY <3>2, WindowsFit
    <3>5. [document |-> u, from |-> w.from, to |-> w.to] \in chunks
      BY <1>1 DEF DocumentsInv, StoreInv
    <3>6. QED
      BY <3>3, <3>4, <3>5
  <2>2. QED
    BY <1>1, <2>1 DEF DocumentsInv, StoreInv, WholeDocuments
<1>2. QED
  BY DocumentsInvHolds, <1>1, PTL

\* Spec => []StoredIsFound: for every chunk size and overlap, and wherever the
\* borders of the chunks fall, a fact of an ingested document that is no longer
\* than the overlap and one word is found (chunk_text, retrieve).
THEOREM StoredIsAlwaysFound == Spec => []StoredIsFound
<1>1. DocumentsInv => StoredIsFound
  BY DEF DocumentsInv, ReplyInv, StoredIsFound
<1>2. QED
  BY DocumentsInvHolds, <1>1, PTL

\* Spec => []PageAgrees: no page stays busy, and that of a user who waits is busy
\* as long as the request is under way, shows the answer to the latest question
\* and lists all it has called ingested, if the first refresh it made does not
\* come late (documents/page.tsx).
THEOREM PageAlwaysAgrees == Spec => []PageAgrees
<1>1. DocumentsInv => PageAgrees
  BY DocumentsAssumption DEF DocumentsInv, BusyInv, PageInv, PageAgrees
<1>2. QED
  BY DocumentsInvHolds, <1>1, PTL

=============================================================================
