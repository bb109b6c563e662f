-------------------------------- MODULE Chat --------------------------------
(***************************************************************************)
(* One chat: the page (frontend/src/app/chat/page.tsx) and its socket      *)
(* (lib/ws.ts), the WebSocket route (backend/app/chat/routes.py) that      *)
(* handles one turn after the other (chat/service.py, agents/critic.py),   *)
(* and the messages of the session (chat/repository.py).                   *)
(*                                                                         *)
(* A text is the number of deltas it was streamed in; a question is its    *)
(* turn.  Turns in harmful are the ones prescreen_request refuses.  The    *)
(* connection may be refused, and break at any moment; a send on a broken  *)
(* one raises or goes nowhere.  Every transaction may raise, before or     *)
(* after it has committed, and an exception that leaves handle_turn closes *)
(* the socket.  The page never opens a second socket.                      *)
(***************************************************************************)
EXTENDS Integers, Sequences, SequencesExt

CONSTANTS
  MaxTurns,    \* bound on the questions the user asks
  MaxDeltas    \* bound on the deltas of an answer

ASSUME ChatAssumption == MaxTurns \in Nat /\ MaxDeltas \in Nat

Turn == 1 .. MaxTurns

VARIABLES
  harmful,     \* questions the pre-screen refuses
  bubbles,     \* page: messages
  streaming,   \* page: streaming
  socket,      \* page: socketRef; it is shown as connected when "open"
  sent,        \* page: questions asked
  ended,       \* history: turns whose "done" the page has handled
  link,        \* does the connection carry data
  toServer,    \* questions on their way
  toPage,      \* events on their way
  pc,          \* the await the server is at
  turn,        \* the turn it handles
  deltas,      \* its local chunks
  context,     \* its local messages: what the model is given
  final,       \* its local final_text
  card,        \* its local scorecard
  messages     \* the session's rows as get_messages lists them

page == <<bubbles, streaming, socket, sent, ended>>
wire == <<link, toServer, toPage>>
server == <<pc, turn, deltas, context, final, card>>
vars == <<harmful, page, wire, server, messages>>

\* A scorecard, by its field `revised`.
Card == {"none", "kept", "revised"}

\* Content as it was written or streamed, or the Critic's revision of it.
Text == {"written", "revised"}

Bubble == [who : {"user", "answer", "warning"}, parts : Seq(0 .. MaxTurns), pending : BOOLEAN]

Event == [type : {"open", "start", "token", "done", "error", "refusal", "revised", "scorecard",
                  "scorecard_error", "close"},
          turn : 0 .. MaxTurns]

Message == [turn : Turn, role : {"user", "assistant"}, deltas : 0 .. MaxDeltas, text : Text,
            card : Card]

TypeOK ==
  /\ harmful \subseteq Turn
  /\ bubbles \in Seq(Bubble)
  /\ streaming \in BOOLEAN
  /\ socket \in {"none", "connecting", "open", "closed"}
  /\ sent \in 0 .. MaxTurns
  /\ ended \subseteq 1 .. sent
  /\ link \in BOOLEAN
  /\ toServer \in Seq(Turn)
  /\ toPage \in Seq(Event)
  /\ pc \in {"none", "find", "receive", "invalid", "store_refusal", "send_refusal",
             "store_question", "read", "start", "flow", "failed", "store_answer", "evaluate",
             "attach", "send_revised", "send_card", "card_failed", "done", "closed"}
  /\ turn \in 0 .. sent
  /\ deltas \in 0 .. MaxDeltas
  /\ context \in Seq(Message)
  /\ final \in Text
  /\ card \in Card
  /\ messages \in Seq(Message)

Init ==
  /\ harmful \in SUBSET Turn
  /\ bubbles = <<>>
  /\ streaming = FALSE
  /\ socket = "none"
  /\ sent = 0
  /\ ended = {}
  /\ link = FALSE
  /\ toServer = <<>>
  /\ toPage = <<>>
  /\ pc = "none"
  /\ turn = 0
  /\ deltas = 0
  /\ context = <<>>
  /\ final = "written"
  /\ card = "none"
  /\ messages = <<>>

-----------------------------------------------------------------------------
(* The page. *)

\* createSession has returned: the page connects, and may send.
Connect ==
  /\ socket = "none"
  /\ socket' = "connecting"
  /\ UNCHANGED <<harmful, bubbles, streaming, sent, ended, wire, server, messages>>

\* Faulty: a question may be sent while an answer is streaming.
Send_Impatient ==
  /\ sent < MaxTurns
  /\ socket # "none"
  /\ sent' = sent + 1
  /\ bubbles' = Append(bubbles, [who |-> "user", parts |-> <<sent'>>, pending |-> FALSE])
  /\ \/ socket = "connecting" /\ UNCHANGED <<streaming, toServer>>
     \/ /\ socket # "connecting"
        /\ streaming' = TRUE
        /\ toServer' = IF link THEN Append(toServer, sent') ELSE toServer
  /\ UNCHANGED <<harmful, socket, ended, link, toPage, server, messages>>

\* send(): Enter works whether or not the page is connected.  A socket that is
\* still connecting raises, when the bubble is there and streaming is not set;
\* what is written to a closed or broken one is lost.
Send ==
  /\ sent < MaxTurns
  /\ socket # "none"
  /\ ~streaming
  /\ sent' = sent + 1
  /\ bubbles' = Append(bubbles, [who |-> "user", parts |-> <<sent'>>, pending |-> FALSE])
  /\ \/ socket = "connecting" /\ UNCHANGED <<streaming, toServer>>
     \/ /\ socket # "connecting"
        /\ streaming' = TRUE
        /\ toServer' = IF link THEN Append(toServer, sent') ELSE toServer
  /\ UNCHANGED <<harmful, socket, ended, link, toPage, server, messages>>

\* The next event is handed to the page; what it leaves alone but for the
\* bubbles and its flags.
Handle(type) ==
  /\ toPage # <<>>
  /\ Head(toPage).type = type
  /\ toPage' = Tail(toPage)
  /\ UNCHANGED <<harmful, sent, link, toServer, server, messages>>

OnOpen ==
  /\ Handle("open")
  /\ socket' = "open"
  /\ UNCHANGED <<bubbles, streaming, ended>>

OnStart ==
  /\ Handle("start")
  /\ bubbles' = Append(bubbles, [who |-> "answer", parts |-> <<>>, pending |-> TRUE])
  /\ UNCHANGED <<streaming, socket, ended>>

\* A token is added to the last bubble, if that one is pending.
OnToken ==
  /\ Handle("token")
  /\ bubbles' = IF bubbles # <<>> /\ Last(bubbles).pending
                THEN [bubbles EXCEPT ![Len(bubbles)].parts = Append(@, Head(toPage).turn)]
                ELSE bubbles
  /\ UNCHANGED <<streaming, socket, ended>>

OnDone ==
  /\ Handle("done")
  /\ streaming' = FALSE
  /\ bubbles' = [i \in DOMAIN bubbles |-> [bubbles[i] EXCEPT !.pending = FALSE]]
  /\ ended' = ended \cup {Head(toPage).turn}
  /\ UNCHANGED socket

\* The bubble of a broken answer stays pending, behind the warning.
OnError ==
  /\ Handle("error")
  /\ streaming' = FALSE
  /\ bubbles' = Append(bubbles, [who |-> "warning", parts |-> <<>>, pending |-> FALSE])
  /\ UNCHANGED <<socket, ended>>

OnClose ==
  /\ Handle("close")
  /\ socket' = "closed"
  /\ UNCHANGED <<bubbles, streaming, ended>>

\* ChatSocket has no case for these events.
Ignored ==
  /\ \E type \in {"refusal", "revised", "scorecard", "scorecard_error"} : Handle(type)
  /\ UNCHANGED <<bubbles, streaming, socket, ended>>

PageStep == OnOpen \/ OnStart \/ OnToken \/ OnDone \/ OnError \/ OnClose \/ Ignored

-----------------------------------------------------------------------------
(* handle_turn, in the loop of ws_chat. *)

\* send(): the event is on its way; on a broken connection it goes nowhere, or
\* the exception ends the loop (where it is caught, the next send raises).
Emit(type, next) ==
  /\ \/ /\ link
        /\ toPage' = Append(toPage, [type |-> type, turn |-> turn])
        /\ pc' = next
     \/ /\ ~link
        /\ pc' \in {next, "closed"}
        /\ UNCHANGED toPage
  /\ UNCHANGED <<link, toServer>>

\* An exception leaves handle_turn, and the socket is closed.
Raise ==
  /\ pc' = "closed"
  /\ link' = FALSE
  /\ toServer' = <<>>
  /\ toPage' = IF link THEN Append(toPage, [type |-> "close", turn |-> 0]) ELSE toPage

\* A transaction with one outcome from `results` commits, or raises; then it
\* has committed all the same if only the answer to the COMMIT was lost.
Transaction(results, next) ==
  /\ \/ messages' \in results /\ pc' = next /\ UNCHANGED wire
     \/ messages' \in results \cup {messages} /\ Raise
  /\ UNCHANGED <<harmful, page>>

Row(role) == [turn |-> turn, role |-> role, deltas |-> 0, text |-> "written", card |-> "none"]

\* The connection is accepted.
Accept ==
  /\ pc = "none"
  /\ socket = "connecting"
  /\ link' = TRUE
  /\ toPage' = <<[type |-> "open", turn |-> 0]>>
  /\ pc' = "find"
  /\ UNCHANGED <<harmful, page, toServer, turn, deltas, context, final, card, messages>>

\* The session is found or it is not, which the page is told before the socket
\* is closed; or the query raises.
FindSession ==
  /\ pc = "find"
  /\ \/ pc' = "receive" /\ UNCHANGED wire
     \/ /\ pc' = "closed"
        /\ link' = FALSE
        /\ toServer' = <<>>
        /\ toPage' = IF link THEN toPage \o <<[type |-> "error", turn |-> 0],
                                             [type |-> "close", turn |-> 0]>>
                     ELSE toPage
     \/ Raise
  /\ UNCHANGED <<harmful, page, turn, deltas, context, final, card, messages>>

\* The next question is received and screened, or it is not valid (the page
\* sends none such); the loop ends when the client has gone.
Receive ==
  /\ pc = "receive"
  /\ \/ /\ toServer # <<>>
        /\ turn' = Head(toServer)
        /\ toServer' = Tail(toServer)
        /\ deltas' = 0
        /\ context' = <<>>
        /\ final' = "written"
        /\ card' = "none"
        /\ \/ pc' = "invalid"
           \/ turn' \in harmful /\ pc' = "store_refusal"
           \/ turn' \notin harmful /\ pc' = "store_question"
     \/ /\ ~link
        /\ pc' = "closed"
        /\ UNCHANGED <<turn, toServer, deltas, context, final, card>>
  /\ UNCHANGED <<harmful, page, link, toPage, messages>>

\* Both messages of a refused turn are written in one transaction: they have
\* the same created_at, and the random id decides which is listed first.
StoreRefusal ==
  /\ pc = "store_refusal"
  /\ Transaction({messages \o <<Row("user"), Row("assistant")>>,
                  messages \o <<Row("assistant"), Row("user")>>}, "send_refusal")
  /\ UNCHANGED <<turn, deltas, context, final, card>>

StoreQuestion ==
  /\ pc = "store_question"
  /\ Transaction({Append(messages, Row("user"))}, "read")
  /\ UNCHANGED <<turn, deltas, context, final, card>>

\* Faulty: the message just stored is left out.
ReadContext_WithoutQuestion ==
  /\ pc = "read"
  /\ context' = Front(messages)
  /\ pc' = "start"
  /\ UNCHANGED <<harmful, page, wire, turn, deltas, final, card, messages>>

\* History and facts are read.
ReadContext ==
  /\ pc = "read"
  /\ \/ context' = messages /\ pc' = "start" /\ UNCHANGED wire
     \/ Raise /\ UNCHANGED context
  /\ UNCHANGED <<harmful, page, turn, deltas, final, card, messages>>

\* A delta is received and sent on.
Delta ==
  /\ pc = "flow"
  /\ deltas < MaxDeltas
  /\ deltas' = deltas + 1
  /\ Emit("token", "flow")
  /\ UNCHANGED <<harmful, page, turn, context, final, card, messages>>

\* The stream ends, or it raises (whatever has been streamed is dropped).
StreamEnds ==
  /\ pc = "flow"
  /\ pc' \in {"store_answer", "failed"}
  /\ UNCHANGED <<harmful, page, wire, turn, deltas, context, final, card, messages>>

StoreAnswer ==
  /\ pc = "store_answer"
  /\ Transaction({Append(messages, [Row("assistant") EXCEPT !.deltas = deltas])}, "evaluate")
  /\ UNCHANGED <<turn, deltas, context, final, card>>

\* self_evaluate: the draft is kept or revised once, or a model call raises;
\* the Critic's own JSON may call a draft revised that is not.  With
\* CHAT_SELF_EVAL off all of it is skipped.
Evaluate ==
  /\ pc = "evaluate"
  /\ \/ /\ card' \in {"kept", "revised"}
        /\ final' \in IF card' = "revised" THEN Text ELSE {"written"}
        /\ pc' = "attach"
     \/ pc' \in {"card_failed", "done"} /\ UNCHANGED <<final, card>>
  /\ UNCHANGED <<harmful, page, wire, turn, deltas, context, messages>>

\* update_message: the scorecard is attached, and final_text takes the place of
\* the content if the card says so.
Updated(m) == [m EXCEPT !.card = card, !.text = IF card = "revised" THEN final ELSE @]

\* Both in one transaction; a failure is reported and does not harm the answer.
Attach ==
  /\ pc = "attach"
  /\ LET attached == [i \in DOMAIN messages |->
                        IF messages[i].turn = turn /\ messages[i].role = "assistant"
                        THEN Updated(messages[i]) ELSE messages[i]]
     IN \/ /\ messages' = attached
           /\ pc' = IF card = "revised" THEN "send_revised" ELSE "send_card"
        \/ /\ messages' \in {messages, attached}
           /\ pc' = "card_failed"
  /\ UNCHANGED <<harmful, page, wire, turn, deltas, context, final, card>>

\* Faulty: a refused turn ends with the refusal.
SendEvent_RefusalIsLast ==
  /\ \/ pc = "invalid" /\ Emit("error", "receive")
     \/ pc = "send_refusal" /\ Emit("refusal", "receive")
     \/ pc = "start" /\ Emit("start", "flow")
     \/ pc = "failed" /\ Emit("error", "receive")
     \/ pc = "done" /\ Emit("done", "receive")
  /\ UNCHANGED <<harmful, page, turn, deltas, context, final, card, messages>>

\* The events that are sent between two other awaits.
SendEvent ==
  /\ \/ pc = "invalid" /\ Emit("error", "receive")
     \/ pc = "send_refusal" /\ Emit("refusal", "done")
     \/ pc = "start" /\ Emit("start", "flow")
     \/ pc = "failed" /\ Emit("error", "receive")
     \/ pc = "send_revised" /\ Emit("revised", "send_card")
     \/ pc = "send_card" /\ Emit("scorecard", "done")
     \/ pc = "card_failed" /\ Emit("scorecard_error", "done")
     \/ pc = "done" /\ Emit("done", "receive")
  /\ UNCHANGED <<harmful, page, turn, deltas, context, final, card, messages>>

ServerStep ==
  \/ Accept \/ FindSession \/ Receive \/ StoreRefusal \/ StoreQuestion \/ ReadContext
  \/ Delta \/ StreamEnds \/ StoreAnswer \/ Evaluate \/ Attach \/ SendEvent

-----------------------------------------------------------------------------
(* Faults. *)

\* The API is not there to connect to.
Refuse ==
  /\ pc = "none"
  /\ socket = "connecting"
  /\ pc' = "closed"
  /\ toPage' = <<[type |-> "close", turn |-> 0]>>
  /\ UNCHANGED <<harmful, page, link, toServer, turn, deltas, context, final, card, messages>>

\* The connection is gone: of what was on its way to the page a part arrives,
\* of what was on its way to the server nothing does.
Cut ==
  /\ link
  /\ link' = FALSE
  /\ toServer' = <<>>
  /\ \E n \in 0 .. Len(toPage) :
       toPage' = Append(SubSeq(toPage, 1, n), [type |-> "close", turn |-> 0])

Break ==
  /\ Cut
  /\ UNCHANGED <<harmful, page, server, messages>>

\* The API process restarts.
Restart ==
  /\ pc # "closed"
  /\ pc' = "closed"
  /\ Cut
  /\ UNCHANGED <<harmful, page, turn, deltas, context, final, card, messages>>

Next == Connect \/ Send \/ PageStep \/ ServerStep \/ Refuse \/ Break \/ Restart

\* The browser handles what arrives, the event loop runs what is ready, and
\* model calls and transactions return or raise.
Fairness == WF_vars(PageStep) /\ WF_vars(ServerStep)

Spec == Init /\ [][Next]_vars /\ Fairness

-----------------------------------------------------------------------------
(* Properties. *)

Question(t) ==
  [turn |-> t, role |-> "user", deltas |-> 0, text |-> "written", card |-> "none"]

\* page.tsx, service.py: when a turn has ended with "done", the page shows
\* below the question the text that was streamed, whole, of this turn alone,
\* and it is the draft of the answer that is stored.  The content may be the
\* revision instead, which the page never gets to show, but then the stored
\* scorecard says that it was revised.  A refused turn has its refusal stored
\* (and the page shows nothing of it).
ShownIsStored ==
  \A t \in ended :
    \E answer \in Range(messages) :
      /\ answer.turn = t /\ answer.role = "assistant"
      /\ t \notin harmful =>
           /\ answer.text = "revised" => answer.card = "revised"
           /\ \E i \in DOMAIN bubbles :
                /\ bubbles[i].who = "user" /\ bubbles[i].parts = <<t>>
                /\ i < Len(bubbles)
                /\ bubbles[i + 1] = [who |-> "answer", pending |-> FALSE,
                                     parts |-> [k \in 1 .. answer.deltas |-> t]]

\* One turn after the other, and of a turn that was not refused one question
\* and behind it at most one answer.
InOrder(rows) ==
  \A i, j \in DOMAIN rows : i < j =>
    \/ rows[i].turn < rows[j].turn
    \/ /\ rows[i].turn = rows[j].turn
       /\ \/ rows[i].turn \in harmful
          \/ rows[i].role = "user" /\ rows[j].role = "assistant"

\* service.py: what the model is given is the conversation as the user knows
\* it, in order: both messages of every turn that has ended, and last the
\* question to be answered.  (The two of a refused turn come as they may; a
\* turn that broke off leaves its question without an answer.)
ModelSeesConversation ==
  pc \in {"start", "flow"} =>
    /\ context # <<>> /\ Last(context) = Question(turn)
    /\ InOrder(context)
    /\ \A t \in ended, role \in {"user", "assistant"} :
         \E m \in Range(context) : m.turn = t /\ m.role = role

\* page.tsx: the page does not wait for an answer for ever, unless it shows
\* that it has lost its connection.
TurnEnds == streaming ~> ~streaming \/ socket # "open"

=============================================================================
