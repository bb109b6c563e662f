------------------------------ MODULE Documents ------------------------------
(***************************************************************************)
(* Documents and grounded answers: the page                                *)
(* (frontend/src/app/documents/page.tsx), the routes (backend/app/rag/     *)
(* routes.py), the ingestion of a text (ingest.py, chunker.py) and the     *)
(* answering of a question (retrieve.py, answer.py).                       *)
(*                                                                         *)
(* A text is its number of words.  A question asks for a fact, a run of    *)
(* words of one document, and a chunk is within max_distance of it when it *)
(* holds the whole run: this is what the embedding is meant to do.  Every  *)
(* await of a request may raise (the provider, the database, the restart   *)
(* of the API or the network fails); a transaction that raises may have    *)
(* committed all the same.                                                 *)
(*                                                                         *)
(* overlapped, late, latest, told and known are history variables.         *)
(***************************************************************************)
EXTENDS Integers, FiniteSets, FiniteSetsExt

CONSTANTS
  Upload,      \* requests that upload a text; each names its Document row
  Ask,         \* requests that ask a question
  NoAsk,       \* no answer is shown
  Length,      \* how many words a text may have
  Fact,        \* where a fact may lie in a text
  Size,        \* settings.chunk_size_tokens
  Overlap,     \* settings.chunk_overlap_tokens
  TopK,        \* settings.rag_top_k
  MaxInFlight  \* bound on the requests made and not yet over

Request == Upload \cup Ask

ASSUME DocumentsAssumption ==
  /\ Upload \cap Ask = {}
  /\ NoAsk \notin Request
  /\ Length \subseteq Nat
  /\ Fact \subseteq [from : Nat \ {0}, to : Nat \ {0}]
  /\ Size \in Nat \ {0} /\ Overlap \in Nat /\ TopK \in Nat \ {0}
  /\ MaxInFlight \in Nat

VARIABLES
  pc,          \* the await a request is at
  length,      \* words of the uploaded text
  about,       \* the document and the fact a question asks for
  sources,     \* the chunks an answer is given from
  reply,       \* what answer_question returns
  documents,   \* rows of documents
  chunks,      \* rows of doc_chunks
  view,        \* the list of documents on its way to the page
  refresh,     \* page: where the refresh() is that it makes when it opens
  early,       \* the list on its way to that one
  busy,        \* page: busy
  shown,       \* page: answer
  listed,      \* page: docs
  note,        \* page: note
  overlapped,  \* history: a request was made while the page was busy
  late,        \* history: the list shown is the opening one, come after an upload
  latest,      \* history: the question asked last
  told,        \* history: uploads the page has called ingested
  known        \* history: what it had called so when the question was asked

request == <<pc, length, about, sources, reply, view>>
opening == <<refresh, early>>
tables == <<documents, chunks>>
page == <<busy, shown, listed, note>>
history == <<overlapped, late, latest, told, known>>
vars == <<request, opening, tables, page, history>>

Chunk == [document : Upload, from : Nat, to : Nat]

UploadPoint == {"idle", "embed", "store", "stored", "list", "listed", "failed", "over"}

AskPoint == {"idle", "embed", "retrieve", "generate", "answered", "failed", "over"}

TypeOK ==
  /\ pc \in [Request -> UploadPoint \cup AskPoint]
  /\ \A u \in Upload : pc[u] \in UploadPoint
  /\ \A a \in Ask : pc[a] \in AskPoint
  /\ length \in [Upload -> Length \cup {0}]
  /\ about \in [Ask -> [document : Upload, fact : Fact] \cup {NoAsk}]
  /\ \A a \in Ask : pc[a] # "idle" => about[a] \in [document : Upload, fact : Fact]
  /\ sources \in [Ask -> SUBSET Chunk]
  /\ reply \in [Ask -> {"none", "unverified", "ungrounded", "grounded"}]
  /\ documents \subseteq Upload
  /\ chunks \subseteq Chunk
  /\ view \in [Upload -> SUBSET Upload]
  /\ refresh \in {"asked", "answered", "over"}
  /\ early \subseteq Upload
  /\ busy \in BOOLEAN
  /\ shown \in Ask \cup {NoAsk}
  /\ listed \subseteq Upload
  /\ note \in {"none", "uploading", "ingested", "failed"}
  /\ overlapped \in BOOLEAN
  /\ late \in BOOLEAN
  /\ latest \in Ask \cup {NoAsk}
  /\ told \subseteq Upload
  /\ known \in [Ask -> SUBSET Upload]

\* The page has just been opened: it has asked for the list of documents, which
\* is empty, and the user need not wait for the answer.
Init ==
  /\ pc = [r \in Request |-> "idle"]
  /\ length = [u \in Upload |-> 0]
  /\ about = [a \in Ask |-> NoAsk]
  /\ sources = [a \in Ask |-> {}]
  /\ reply = [a \in Ask |-> "none"]
  /\ documents = {}
  /\ chunks = {}
  /\ view = [u \in Upload |-> {}]
  /\ refresh = "asked"
  /\ early = {}
  /\ busy = FALSE
  /\ shown = NoAsk
  /\ listed = {}
  /\ note = "none"
  /\ overlapped = FALSE
  /\ late = FALSE
  /\ latest = NoAsk
  /\ told = {}
  /\ known = [a \in Ask |-> {}]

-----------------------------------------------------------------------------
(* chunk_text. *)

EffectiveOverlap == IF Overlap >= Size THEN Size \div 4 ELSE Overlap

Stride == Size - EffectiveOverlap

\* Faulty: windows side by side.
Starts_SideBySide(n) == {s \in 0 .. n - 1 : s % Size = 0}

\* Where a window starts: the loop ends with the first that reaches the end.
Starts(n) == {s \in 0 .. n - 1 : s % Stride = 0 /\ (s > 0 => s - Stride + Size < n)}

\* chunk_text of n words.
Windows(n) == {[from |-> s + 1, to |-> Min({s + Size, n})] : s \in Starts(n)}

-----------------------------------------------------------------------------
(* The requests. *)

InFlight == {r \in Request : pc[r] \notin {"idle", "over"}}

Made(r) == pc[r] = "idle" /\ Cardinality(InFlight) < MaxInFlight

Goto(r, point) == pc' = [pc EXCEPT ![r] = point]

\* onUpload; nothing keeps the page from uploading while it is busy.
OnUpload(u, n) ==
  /\ Made(u)
  /\ length' = [length EXCEPT ![u] = n]
  /\ Goto(u, IF n = 0 THEN "store" ELSE "embed")
  /\ busy' = TRUE
  /\ note' = "uploading"
  /\ overlapped' = (overlapped \/ busy)
  /\ UNCHANGED <<about, sources, reply, view, opening, tables, shown, listed>>
  /\ UNCHANGED <<late, latest, told, known>>

\* Faulty: the last answer stays while the next one is awaited.
OnAsk_KeepsAnswer(a, u, f) ==
  /\ Made(a)
  /\ about' = [about EXCEPT ![a] = [document |-> u, fact |-> f]]
  /\ Goto(a, "embed")
  /\ busy' = TRUE
  /\ overlapped' = (overlapped \/ busy)
  /\ latest' = a
  /\ known' = [known EXCEPT ![a] = told]
  /\ UNCHANGED <<length, sources, reply, view, opening, tables, shown, listed, note, late, told>>

\* ask(): the button is off while the page is busy, the Enter key is not.
OnAsk(a, u, f) ==
  /\ Made(a)
  /\ about' = [about EXCEPT ![a] = [document |-> u, fact |-> f]]
  /\ Goto(a, "embed")
  /\ busy' = TRUE
  /\ shown' = NoAsk
  /\ overlapped' = (overlapped \/ busy)
  /\ latest' = a
  /\ known' = [known EXCEPT ![a] = told]
  /\ UNCHANGED <<length, sources, reply, view, opening, tables, listed, note, late, told>>

\* Faulty: the Document row is there before its chunks are.
Embed_StoresDocument(r) ==
  /\ pc[r] = "embed"
  /\ Goto(r, IF r \in Upload THEN "store" ELSE "retrieve")
  /\ documents' = documents \cup (Upload \cap {r})
  /\ UNCHANGED <<length, about, sources, reply, view, opening, chunks, page, history>>

\* The chunks of the text, or the question, have been embedded.
Embed(r) ==
  /\ pc[r] = "embed"
  /\ Goto(r, IF r \in Upload THEN "store" ELSE "retrieve")
  /\ UNCHANGED <<length, about, sources, reply, view, opening, tables, page, history>>

\* The document and its chunks are written in one transaction.
Write(u) ==
  /\ documents' = documents \cup {u}
  /\ chunks' = chunks \cup {[document |-> u, from |-> w.from, to |-> w.to] :
                              w \in Windows(length[u])}

Store(u) ==
  /\ pc[u] = "store"
  /\ Write(u)
  /\ Goto(u, "stored")
  /\ UNCHANGED <<length, about, sources, reply, view, opening, page, history>>

\* "Ingested": the page asks for the list of documents.
Ingested(u) ==
  /\ pc[u] = "stored"
  /\ Goto(u, "list")
  /\ note' = "ingested"
  /\ told' = told \cup {u}
  /\ UNCHANGED <<length, about, sources, reply, view, opening, tables, busy, shown, listed>>
  /\ UNCHANGED <<overlapped, late, latest, known>>

\* list_documents.
List(u) ==
  /\ pc[u] = "list"
  /\ view' = [view EXCEPT ![u] = documents]
  /\ Goto(u, "listed")
  /\ UNCHANGED <<length, about, sources, reply, opening, tables, page, history>>

Listed(u) ==
  /\ pc[u] = "listed"
  /\ Goto(u, "over")
  /\ listed' = view[u]
  /\ late' = FALSE
  /\ busy' = FALSE
  /\ UNCHANGED <<length, about, sources, reply, view, opening, tables, shown, note>>
  /\ UNCHANGED <<overlapped, latest, told, known>>

\* The distance of a chunk is at most max_distance.
Supports(chunk, a) ==
  /\ chunk.document = about[a].document
  /\ chunk.from <= about[a].fact.from /\ about[a].fact.to <= chunk.to

\* retrieve() finds the nearest chunks; those near enough are the sources, and
\* without any the answer is "Unverified" and the model is not asked.
Retrieve(a) ==
  /\ pc[a] = "retrieve"
  /\ LET near == {c \in chunks : Supports(c, a)}
     IN \E s \in kSubset(Min({TopK, Cardinality(near)}), near) :
          sources' = [sources EXCEPT ![a] = s]
  /\ IF sources'[a] = {}
     THEN Goto(a, "answered") /\ reply' = [reply EXCEPT ![a] = "unverified"]
     ELSE Goto(a, "generate") /\ UNCHANGED reply
  /\ UNCHANGED <<length, about, view, opening, tables, page, history>>

\* The model answers; a text with a bracket in it counts as citing.
Generate(a) ==
  /\ pc[a] = "generate"
  /\ \E result \in {"grounded", "ungrounded"} : reply' = [reply EXCEPT ![a] = result]
  /\ Goto(a, "answered")
  /\ UNCHANGED <<length, about, sources, view, opening, tables, page, history>>

Answered(a) ==
  /\ pc[a] = "answered"
  /\ Goto(a, "over")
  /\ shown' = a
  /\ busy' = FALSE
  /\ UNCHANGED <<length, about, sources, reply, view, opening, tables, listed, note, history>>

\* The request, or its answer, is lost.
Raises(r) ==
  /\ pc[r] \notin {"idle", "failed", "over"}
  /\ \/ UNCHANGED tables
     \/ pc[r] = "store" /\ Write(r)
  /\ Goto(r, "failed")
  /\ UNCHANGED <<length, about, sources, reply, view, opening, page, history>>

\* The page learns of it; a failed list is called a failed upload.
Failed(r) ==
  /\ pc[r] = "failed"
  /\ Goto(r, "over")
  /\ busy' = FALSE
  /\ note' = IF r \in Upload THEN "failed" ELSE note
  /\ UNCHANGED <<length, about, sources, reply, view, opening, tables, shown, listed, history>>

-----------------------------------------------------------------------------
(* The list the page asks for when it opens; a failure is caught silently. *)

RefreshLists ==
  /\ refresh = "asked"
  /\ refresh' = "answered"
  /\ early' = documents
  /\ UNCHANGED <<request, tables, page, history>>

\* It takes the place of whatever is listed by then.
RefreshShows ==
  /\ refresh = "answered"
  /\ refresh' = "over"
  /\ early' = {}
  /\ listed' = early
  /\ late' = (told # {})
  /\ UNCHANGED <<request, tables, busy, shown, note, overlapped, latest, told, known>>

RefreshFails ==
  /\ refresh # "over"
  /\ refresh' = "over"
  /\ early' = {}
  /\ UNCHANGED <<request, tables, page, history>>

Next ==
  \/ RefreshLists \/ RefreshShows \/ RefreshFails
  \/ \E u \in Upload : \/ \E n \in Length : OnUpload(u, n)
                       \/ Store(u) \/ Ingested(u) \/ List(u) \/ Listed(u)
  \/ \E a \in Ask : \/ \E u \in Upload, f \in Fact : OnAsk(a, u, f)
                    \/ Retrieve(a) \/ Generate(a) \/ Answered(a)
  \/ \E r \in Request : Embed(r) \/ Raises(r) \/ Failed(r)

Spec == Init /\ [][Next]_vars

-----------------------------------------------------------------------------
(* Properties. *)

\* ingest_document: whatever fails, no document is found by a query or listed
\* by the page with a part of its text missing: every word of it is in a
\* chunk, and no chunk lacks its document.
WholeDocuments ==
  /\ \A u \in documents : \A i \in 1 .. length[u] :
       \E c \in chunks : c.document = u /\ i \in c.from .. c.to
  /\ \A c \in chunks : c.document \in documents
  /\ listed \subseteq documents

\* The answer to a can be found: the document was called ingested before the
\* question was asked, and contains the fact, which is short enough.
Answerable(a) ==
  /\ about[a].document \in known[a]
  /\ about[a].fact.to <= length[about[a].document]
  /\ about[a].fact.to - about[a].fact.from <= EffectiveOverlap

\* chunker.py, answer.py: a fact that a document called ingested contains is
\* never dismissed as "Unverified" unasked, wherever the borders of the chunks
\* fall, if it is no longer than the overlap and one word more.
StoredIsFound ==
  \A a \in Ask :
    pc[a] \in {"answered", "over"} /\ Answerable(a) => reply[a] # "unverified"

\* page.tsx: the page does not stay busy when every request has ended.  As long
\* as the user makes no request while it is busy, it is so until the request has
\* ended, the answer it shows is the one to the question asked last, and where
\* it says "Ingested" its list has that document and all that it had called
\* ingested before.  One thing takes them off the list again: the answer to the
\* refresh it made when it opened, if that one is shown after an upload.
PageAgrees ==
  /\ busy => InFlight # {}
  /\ ~overlapped =>
       /\ InFlight # {} => busy
       /\ shown # NoAsk => shown = latest
       /\ note = "ingested" /\ ~busy /\ ~late => told \subseteq listed

=============================================================================
