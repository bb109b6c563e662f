----------------------------- MODULE Chat_proofs -----------------------------
(***************************************************************************)
(* For any number of turns and answers of any length, whatever breaks: a   *)
(* turn that has ended is shown as it was streamed, the draft of the       *)
(* answer that is stored, and the model is given the conversation as the   *)
(* user knows it.                                                          *)
(***************************************************************************)
EXTENDS Chat, TLAPS

-----------------------------------------------------------------------------
(* What is inductive. *)

HasRow(t, role) == \E m \in Range(messages) : m.turn = t /\ m.role = role

\* The draft of the turn is stored as it was streamed, or its refusal is.
HasAnswer ==
  \E m \in Range(messages) :
    m.turn = turn /\ m.role = "assistant" /\ (turn \notin harmful => m.deltas = deltas)

DonePending == \E i \in DOMAIN toPage : toPage[i].type = "done"

NeedsQuestion ==
  \/ DonePending
  \/ pc \notin {"none", "find", "receive", "invalid", "store_refusal", "store_question", "closed"}

NeedsAnswer ==
  \/ DonePending
  \/ pc \in {"send_refusal", "evaluate", "attach", "send_revised", "send_card",
             "card_failed", "done"}

\* Rows of no turn after t.
UpTo(rows, t) == \A i \in DOMAIN rows : rows[i].turn <= t

\* A revised answer has a scorecard that says so.
Carded(rows) == \A i \in DOMAIN rows : rows[i].text = "revised" => rows[i].card = "revised"

\* What is stored of turn t when the server is at p, and what is not yet.
Stored(p, rows, t) ==
  /\ p \in {"store_refusal", "store_question"} => \A i \in DOMAIN rows : rows[i].turn # t
  /\ p \in {"read", "start", "flow", "store_answer"} =>
       \A i \in DOMAIN rows : rows[i].turn = t => rows[i].role = "user"
  /\ p \in {"read", "start", "flow", "store_answer", "evaluate", "attach"} =>
       \A i \in DOMAIN rows : rows[i].turn = t => rows[i].text = "written"
  /\ p = "read" => rows # <<>> /\ Last(rows) = Question(t)

\* Before there is a socket nothing is asked.  A refused turn goes its own way,
\* and an answer starts empty.
ControlInv ==
  /\ socket \in {"none", "connecting"} => ~streaming
  /\ pc \in {"none", "find"} => turn = 0
  /\ pc \notin {"receive", "closed"} => ~DonePending
  /\ pc \notin {"none", "find", "receive", "closed"} => turn \in Turn
  /\ pc \in {"store_refusal", "send_refusal"} => turn \in harmful
  /\ turn \in harmful =>
       pc \in {"receive", "invalid", "store_refusal", "send_refusal", "done", "closed"}
  /\ pc \in {"store_question", "read", "start"} => deltas = 0
  /\ link => pc \notin {"none", "closed"}

\* Rows are listed turn by turn; what the server has got to is stored, and
\* nothing beyond it.
RowsInv ==
  /\ InOrder(messages) /\ UpTo(messages, turn) /\ Carded(messages)
  /\ Stored(pc, messages, turn)
  /\ NeedsQuestion => HasRow(turn, "user")
  /\ NeedsAnswer => HasAnswer
  /\ \A t \in ended : HasRow(t, "user")

\* The question is the last thing on the page, or n deltas of its answer are.
QuestionShown(t) ==
  bubbles # <<>> /\ Last(bubbles) = [who |-> "user", parts |-> <<t>>, pending |-> FALSE]

AnswerShown(t, n) ==
  /\ Len(bubbles) > 1
  /\ bubbles[Len(bubbles) - 1].who = "user" /\ bubbles[Len(bubbles) - 1].parts = <<t>>
  /\ Last(bubbles) = [who |-> "answer", parts |-> [k \in 1 .. n |-> t], pending |-> TRUE]

\* On its way are s "start" events, then n tokens, then neither.
OnItsWay(s, n) ==
  /\ s + n <= Len(toPage)
  /\ \A i \in DOMAIN toPage :
       /\ toPage[i].type = "start" <=> i <= s
       /\ toPage[i].type = "token" <=> s < i /\ i <= s + n

\* Of an answer nothing is lost between the server and the page.
AnswerFlows ==
  \/ pc \in {"store_question", "read", "start"} /\ toPage = <<>> /\ QuestionShown(turn)
  \/ pc \notin {"store_question", "read", "start"} /\
       \/ OnItsWay(1, deltas) /\ QuestionShown(turn)
       \/ \E n \in 0 .. deltas : OnItsWay(0, deltas - n) /\ AnswerShown(turn, n)

\* "done" or "error" is the last event of a turn; after it comes "close" only.
EndsTurn ==
  /\ \A i \in DOMAIN toPage :
       /\ toPage[i].type # "close" => toPage[i].turn = turn
       /\ toPage[i].type \in {"done", "error"} =>
            /\ pc \in {"receive", "closed"}
            /\ i < Len(toPage) => i + 1 = Len(toPage) /\ toPage[i + 1].type = "close"
       /\ toPage[i].type = "close" => i = Len(toPage) /\ ~link
  /\ pc = "flow" => \A i \in DOMAIN toPage : toPage[i].type \in {"start", "token"}
  /\ pc = "receive" => \E i \in DOMAIN toPage : toPage[i].type \in {"done", "error"}

Resting ==
  /\ ~streaming /\ toServer = <<>> /\ pc \in {"find", "receive"}
  /\ \/ toPage = <<>>
     \/ toPage = <<[type |-> "open", turn |-> 0]>> /\ socket = "connecting"

Asked ==
  /\ streaming /\ toServer = <<sent>> /\ pc \in {"find", "receive"} /\ toPage = <<>>
  /\ turn < sent /\ QuestionShown(sent)

\* A question that is not valid gets an error.
Dismissed ==
  /\ pc \in {"invalid", "receive", "closed"}
  /\ \A i \in DOMAIN toPage : toPage[i].type \in {"error", "close"}

Served ==
  /\ streaming /\ toServer = <<>> /\ turn = sent /\ turn \in Turn
  /\ EndsTurn
  /\ \/ Dismissed
     \/ /\ pc # "invalid"
        /\ IF turn \in harmful
           THEN \A i \in DOMAIN toPage : toPage[i].type \notin {"start", "token", "error"}
           ELSE AnswerFlows

\* Page and server are at the same turn, unless what would end it is lost.
StreamInv ==
  /\ link \/ DonePending => Resting \/ Asked \/ Served
  /\ ~link => toServer = <<>>

ChatInv ==
  TypeOK /\ ControlInv /\ RowsInv /\ StreamInv /\ ShownIsStored /\ ModelSeesConversation

-----------------------------------------------------------------------------
(* Sequences. *)

\* A sequence is a function on 1 .. Len.
LEMMA SeqIsFunction ==
  ASSUME NEW S, NEW s \in Seq(S)
  PROVE  /\ Len(s) \in Nat /\ DOMAIN s = 1 .. Len(s)
         /\ \A i \in 1 .. Len(s) : s[i] \in S
         /\ s = <<>> <=> Len(s) = 0
         /\ \A x \in S : Append(s, x) \in Seq(S)
  OBVIOUS

\* A function on 1 .. Len that has its values in S is a sequence.
LEMMA FunctionIsSeq ==
  ASSUME NEW S, NEW T, NEW s \in Seq(S), NEW f \in [DOMAIN s -> T]
  PROVE  f \in Seq(T) /\ Len(f) = Len(s) /\ DOMAIN f = DOMAIN s
<1>1. DOMAIN s = 1 .. Len(s) /\ Len(s) \in Nat
  OBVIOUS
<1>2. f \in Seq(T)
  BY <1>1
<1>3. QED
  BY <1>1, <1>2

\* What is appended comes last.
LEMMA AppendFacts ==
  ASSUME NEW S, NEW s \in Seq(S), NEW x \in S
  PROVE  /\ Append(s, x) \in Seq(S) /\ Append(s, x) # <<>>
         /\ Len(Append(s, x)) = Len(s) + 1 /\ DOMAIN Append(s, x) = 1 .. Len(s) + 1
         /\ \A i \in DOMAIN s : Append(s, x)[i] = s[i]
         /\ Append(s, x)[Len(s) + 1] = x
         /\ Last(Append(s, x)) = x
  BY DEF Last

\* What is left after the head.
LEMMA TailFacts ==
  ASSUME NEW S, NEW s \in Seq(S), s # <<>>
  PROVE  /\ Tail(s) \in Seq(S) /\ Len(s) > 0 /\ Len(Tail(s)) = Len(s) - 1
         /\ DOMAIN Tail(s) = 1 .. Len(s) - 1
         /\ \A i \in DOMAIN Tail(s) : Tail(s)[i] = s[i + 1]
         /\ Head(s) = s[1] /\ Head(s) \in S
  OBVIOUS

\* A sequence cut after n elements, with one more behind them.
LEMMA CutFacts ==
  ASSUME NEW S, NEW s \in Seq(S), NEW n \in 0 .. Len(s), NEW x \in S
  PROVE  LET c == Append(SubSeq(s, 1, n), x)
         IN  /\ c \in Seq(S) /\ Len(c) = n + 1 /\ DOMAIN c = 1 .. n + 1
             /\ \A i \in 1 .. n : c[i] = s[i]
             /\ c[n + 1] = x
  OBVIOUS

\* Two more elements.
LEMMA TwoMore ==
  ASSUME NEW S, NEW s \in Seq(S), NEW x \in S, NEW y \in S
  PROVE  s \o <<x, y>> = Append(Append(s, x), y)
  OBVIOUS

\* The last element of a sequence is replaced.
LEMMA LastReplaced ==
  ASSUME NEW S, NEW s \in Seq(S), NEW x \in S, Len(s) > 1
  PROVE  LET z == [s EXCEPT ![Len(s)] = x]
         IN  Len(z) = Len(s) /\ z[Len(s) - 1] = s[Len(s) - 1] /\ z[Len(s)] = x
  OBVIOUS

\* The same element again and again.
LEMMA Repeated ==
  ASSUME NEW S, NEW t \in S, NEW n \in Nat
  PROVE  /\ [k \in 1 .. n |-> t] \in Seq(S)
         /\ Append([k \in 1 .. n |-> t], t) = [k \in 1 .. n + 1 |-> t]
  OBVIOUS

\* A bubble that gets longer.
LEMMA BubbleGrows ==
  ASSUME NEW old \in Bubble, NEW t \in 0 .. MaxTurns
  PROVE  LET b == [old EXCEPT !.parts = Append(@, t)]
         IN  /\ b \in Bubble /\ b.who = old.who /\ b.pending = old.pending
             /\ b.parts = Append(old.parts, t)
<1>1. old.parts \in Seq(0 .. MaxTurns)
  BY DEF Bubble
<1>2. Append(old.parts, t) \in Seq(0 .. MaxTurns)
  BY <1>1
<1>3. QED
  BY <1>2 DEF Bubble

-----------------------------------------------------------------------------
(* It holds at first, and of every step the types are kept. *)

\* A fresh page without a connection.
LEMMA ChatInvInit == Init => ChatInv
<1> SUFFICES ASSUME Init PROVE ChatInv
  OBVIOUS
<1>1. TypeOK
  <2>1. sent \in 0 .. MaxTurns /\ ended \subseteq 1 .. sent /\ turn \in 0 .. sent
        /\ deltas \in 0 .. MaxDeltas
    BY ChatAssumption DEF Init
  <2>2. bubbles \in Seq(Bubble) /\ toServer \in Seq(Turn)
    BY DEF Init
  <2>3. toPage \in Seq(Event)
    BY DEF Init
  <2>4. context \in Seq(Message) /\ messages \in Seq(Message)
    BY DEF Init
  <2>5. QED
    BY <2>1, <2>2, <2>3, <2>4 DEF Init, TypeOK, Card, Text
<1>2. ~DonePending
  BY DEF Init, DonePending
<1>3. ControlInv /\ RowsInv
  BY <1>2 DEF Init, ControlInv, RowsInv, InOrder, UpTo, Carded, Stored, NeedsQuestion,
              NeedsAnswer, Turn
<1>4. StreamInv
  BY <1>2 DEF Init, StreamInv
<1>5. ShownIsStored /\ ModelSeesConversation
  BY DEF Init, ShownIsStored, ModelSeesConversation
<1>6. QED
  BY <1>1, <1>3, <1>4, <1>5 DEF ChatInv

\* What the server has taken from its queue, and what ends a turn, is of the
\* turn the page waits for.
LEMMA TurnIsSent ==
  ASSUME ChatInv
  PROVE  /\ toServer # <<>> => link /\ Asked
         /\ DonePending => Served
<1>1. toServer # <<>> => link /\ ~Resting /\ ~Served
  BY DEF ChatInv, StreamInv, Resting, Served
<1>2. DonePending => ~Resting /\ ~Asked
  BY DEF DonePending, Resting, Asked
<1>3. QED
  BY <1>1, <1>2 DEF ChatInv, StreamInv

\* The types of what the page's handlers and the server change.
LEMMA EmitTypes ==
  ASSUME TypeOK, NEW type, NEW next, Emit(type, next),
         type \in {"start", "token", "done", "error", "refusal", "revised", "scorecard",
                   "scorecard_error", "close"}
  PROVE  toPage' \in Seq(Event) /\ link' \in BOOLEAN /\ toServer' \in Seq(Turn)
<1>1. [type |-> type, turn |-> turn] \in Event
  <2>1. turn \in 0 .. MaxTurns
    BY ChatAssumption DEF TypeOK
  <2>2. QED
    BY <2>1 DEF Event
<1>2. toPage \in Seq(Event) /\ link \in BOOLEAN /\ toServer \in Seq(Turn)
  BY DEF TypeOK
<1>3. QED
  BY <1>1, <1>2 DEF Emit

LEMMA RaiseTypes ==
  ASSUME TypeOK, Raise
  PROVE  toPage' \in Seq(Event) /\ link' \in BOOLEAN /\ toServer' \in Seq(Turn)
<1>1. [type |-> "close", turn |-> 0] \in Event
  BY ChatAssumption DEF Event
<1>2. toPage \in Seq(Event)
  BY DEF TypeOK
<1>3. toPage' \in Seq(Event)
  BY <1>1, <1>2 DEF Raise
<1>4. link' \in BOOLEAN
  BY DEF Raise
<1>5. toServer' \in Seq(Turn)
  BY DEF Raise
<1>6. QED
  BY <1>3, <1>4, <1>5

LEMMA CutTypes ==
  ASSUME TypeOK, Cut
  PROVE  toPage' \in Seq(Event) /\ link' \in BOOLEAN /\ toServer' \in Seq(Turn)
<1>1. [type |-> "close", turn |-> 0] \in Event
  BY ChatAssumption DEF Event
<1>2. PICK n \in 0 .. Len(toPage) :
        toPage' = Append(SubSeq(toPage, 1, n), [type |-> "close", turn |-> 0])
  BY DEF Cut
<1>3. toPage \in Seq(Event)
  BY DEF TypeOK
<1>4. toPage' \in Seq(Event)
  BY <1>1, <1>2, <1>3
<1>5. link' \in BOOLEAN
  BY DEF Cut
<1>6. toServer' \in Seq(Turn)
  BY DEF Cut
<1>7. QED
  BY <1>4, <1>5, <1>6

\* Rows of the turn are messages.
LEMMA RowTypes ==
  ASSUME TypeOK, turn \in Turn
  PROVE  /\ \A role \in {"user", "assistant"} : Row(role) \in Message
         /\ [Row("assistant") EXCEPT !.deltas = deltas] \in Message
         /\ [Row("assistant") EXCEPT !.deltas = deltas] =
              [turn |-> turn, role |-> "assistant", deltas |-> deltas, text |-> "written",
               card |-> "none"]
<1>1. 0 \in 0 .. MaxDeltas /\ deltas \in 0 .. MaxDeltas /\ "none" \in Card /\ "written" \in Text
  BY ChatAssumption DEF TypeOK, Card, Text
<1>2. QED
  BY <1>1 DEF Row, Message

LEMMA TransactionTypes ==
  ASSUME TypeOK, NEW results, results \subseteq Seq(Message), NEW next, Transaction(results, next)
  PROVE  messages' \in Seq(Message) /\ toPage' \in Seq(Event) /\ link' \in BOOLEAN
         /\ toServer' \in Seq(Turn)
  BY RaiseTypes DEF Transaction, TypeOK, wire

\* update_message changes the content and the scorecard of a row.
LEMMA UpdatedFacts ==
  ASSUME TypeOK, NEW m \in Message
  PROVE  /\ Updated(m) \in Message
         /\ Updated(m).turn = m.turn /\ Updated(m).role = m.role
         /\ Updated(m).deltas = m.deltas /\ Updated(m).card = card
         /\ Updated(m).text = IF card = "revised" THEN final ELSE m.text
  BY DEF Updated, Message, TypeOK

\* The session is not found.
LEMMA NotFoundTypes ==
  ASSUME TypeOK,
         toPage' = toPage \o <<[type |-> "error", turn |-> 0], [type |-> "close", turn |-> 0]>>
  PROVE  toPage' \in Seq(Event)
<1>1. [type |-> "error", turn |-> 0] \in Event /\ [type |-> "close", turn |-> 0] \in Event
  BY ChatAssumption DEF Event
<1>2. toPage \in Seq(Event)
  BY DEF TypeOK
<1>3. QED
  BY <1>1, <1>2

\* Every step keeps the types.
LEMMA TypeStep ==
  ASSUME ChatInv, [Next]_vars
  PROVE  TypeOK'
<1> TypeOK /\ ControlInv
  BY DEF ChatInv
<1> MaxTurns \in Nat /\ MaxDeltas \in Nat /\ Turn = 1 .. MaxTurns
  BY ChatAssumption DEF Turn
<1>1. CASE Send
  <2>1. sent' \in Turn /\ sent' = sent + 1
    BY <1>1 DEF Send, TypeOK
  <2>2. [who |-> "user", parts |-> <<sent'>>, pending |-> FALSE] \in Bubble
    BY <2>1 DEF Bubble
  <2>3. bubbles' \in Seq(Bubble)
    BY <1>1, <2>2, AppendFacts DEF Send, TypeOK
  <2>4. Append(toServer, sent') \in Seq(Turn)
    BY <2>1, AppendFacts DEF TypeOK
  <2>5. toServer' \in Seq(Turn) /\ streaming' \in BOOLEAN
    <3>1. CASE UNCHANGED <<streaming, toServer>>
      BY <3>1 DEF TypeOK
    <3>2. CASE streaming' = TRUE
               /\ toServer' = IF link THEN Append(toServer, sent') ELSE toServer
      BY <2>4, <3>2 DEF TypeOK
    <3>3. QED
      BY <1>1, <3>1, <3>2 DEF Send
  <2>6. UNCHANGED <<harmful, socket, ended, link, toPage, server, messages>>
    BY <1>1 DEF Send
  <2>7. QED
    BY <2>1, <2>3, <2>5, <2>6 DEF server, TypeOK
<1>2. ASSUME NEW type, Handle(type), bubbles' \in Seq(Bubble), streaming' \in BOOLEAN,
             socket' \in {"none", "connecting", "open", "closed"}, ended' \subseteq 1 .. sent
      PROVE  TypeOK'
  BY <1>2, TailFacts DEF Handle, server, TypeOK
<1>3. CASE OnStart
  <2>1. [who |-> "answer", parts |-> <<>>, pending |-> TRUE] \in Bubble
    BY DEF Bubble
  <2>2. bubbles' \in Seq(Bubble)
    BY <1>3, <2>1, AppendFacts DEF OnStart, TypeOK
  <2>3. QED
    BY <1>2, <1>3, <2>2 DEF OnStart, TypeOK
<1>4. CASE OnToken
  <2>1. bubbles' \in Seq(Bubble)
    <3>1. CASE bubbles # <<>> /\ Last(bubbles).pending
      <4> DEFINE l == Len(bubbles)
                 b == [bubbles[l] EXCEPT !.parts = Append(@, Head(toPage).turn)]
      <4>1. l \in DOMAIN bubbles /\ bubbles[l] \in Bubble /\ Head(toPage) \in Event
        BY <1>4, <3>1, SeqIsFunction, TailFacts DEF OnToken, Handle, TypeOK
      <4>2. b \in Bubble
        <5>1. Head(toPage).turn \in 0 .. MaxTurns
          BY <4>1 DEF Event
        <5>2. QED
          BY <4>1, <5>1, BubbleGrows
      <4>3. bubbles' = [bubbles EXCEPT ![l] = b]
        BY <1>4, <3>1 DEF OnToken
      <4>4. QED
        BY <4>1, <4>2, <4>3 DEF TypeOK
    <3>2. CASE ~(bubbles # <<>> /\ Last(bubbles).pending)
      BY <1>4, <3>2 DEF OnToken, TypeOK
    <3>3. QED
      BY <3>1, <3>2
  <2>2. QED
    BY <1>2, <1>4, <2>1 DEF OnToken, TypeOK
<1>5. CASE OnDone
  <2>1. bubbles' \in Seq(Bubble)
    <3>1. bubbles' \in [DOMAIN bubbles -> Bubble]
      <4>1. \A i \in DOMAIN bubbles : bubbles[i] \in Bubble
        BY SeqIsFunction DEF TypeOK
      <4>2. \A b \in Bubble : [b EXCEPT !.pending = FALSE] \in Bubble
        BY DEF Bubble
      <4>3. QED
        BY <1>5, <4>1, <4>2 DEF OnDone
    <3>2. QED
      BY <3>1, FunctionIsSeq DEF TypeOK
  <2>2. Head(toPage).turn \in 1 .. sent
    <3>1. toPage # <<>> /\ toPage[1].type = "done" /\ 1 \in DOMAIN toPage
          /\ Head(toPage) = toPage[1]
      BY <1>5, TailFacts DEF OnDone, Handle, TypeOK
    <3>2. Served
      BY <3>1, TurnIsSent DEF DonePending
    <3>3. QED
      BY <3>1, <3>2 DEF Served, EndsTurn
  <2>3. QED
    BY <1>2, <1>5, <2>1, <2>2 DEF OnDone, TypeOK
<1>6. CASE OnError
  <2>1. [who |-> "warning", parts |-> <<>>, pending |-> FALSE] \in Bubble
    BY DEF Bubble
  <2>2. bubbles' \in Seq(Bubble)
    BY <1>6, <2>1, AppendFacts DEF OnError, TypeOK
  <2>3. QED
    BY <1>2, <1>6, <2>2 DEF OnError, TypeOK
<1>7. CASE OnOpen \/ OnClose \/ Ignored
  BY <1>2, <1>7 DEF OnOpen, OnClose, Ignored, TypeOK
<1>8. CASE Receive
  <2>1. CASE toServer # <<>> /\ turn' = Head(toServer) /\ toServer' = Tail(toServer)
    <3>1. toServer = <<sent>>
      BY <2>1, TurnIsSent DEF Asked
    <3>2. turn' \in 0 .. sent /\ toServer' \in Seq(Turn)
      BY <2>1, <3>1 DEF TypeOK
    <3>3. /\ UNCHANGED <<harmful, page, link, toPage, messages>>
          /\ deltas' = 0 /\ context' = <<>> /\ final' = "written" /\ card' = "none"
          /\ pc' \in {"invalid", "store_refusal", "store_question", "closed"}
      BY <1>8, <2>1 DEF Receive
    <3>4. deltas' \in 0 .. MaxDeltas /\ context' \in Seq(Message)
      BY <3>3
    <3>5. QED
      BY <3>2, <3>3, <3>4 DEF page, Card, Text, TypeOK
  <2>2. CASE UNCHANGED <<turn, toServer, deltas, context, final, card>>
    BY <1>8, <2>2 DEF Receive, page, TypeOK
  <2>3. QED
    BY <1>8, <2>1, <2>2 DEF Receive
<1>9. CASE StoreRefusal
  <2>1. turn \in Turn
    BY <1>9 DEF StoreRefusal, ControlInv
  <2>2. {messages \o <<Row("user"), Row("assistant")>>,
         messages \o <<Row("assistant"), Row("user")>>} \subseteq Seq(Message)
    BY <2>1, RowTypes DEF TypeOK
  <2>3. pc' \in {"send_refusal", "closed"}
    BY <1>9 DEF StoreRefusal, Transaction, Raise
  <2>4. QED
    BY <1>9, <2>2, <2>3, TransactionTypes DEF StoreRefusal, Transaction, page, TypeOK
<1>10. CASE StoreQuestion \/ StoreAnswer
  <2>1. turn \in Turn
    BY <1>10 DEF StoreQuestion, StoreAnswer, ControlInv
  <2>2. {Append(messages, Row("user"))} \subseteq Seq(Message)
        /\ {Append(messages, [Row("assistant") EXCEPT !.deltas = deltas])} \subseteq Seq(Message)
    BY <2>1, RowTypes DEF TypeOK
  <2>3. pc' \in {"read", "evaluate", "closed"}
    BY <1>10 DEF StoreQuestion, StoreAnswer, Transaction, Raise
  <2>4. messages' \in Seq(Message) /\ toPage' \in Seq(Event) /\ link' \in BOOLEAN
         /\ toServer' \in Seq(Turn)
    BY <1>10, <2>2, TransactionTypes DEF StoreQuestion, StoreAnswer
  <2>5. QED
    BY <1>10, <2>3, <2>4 DEF StoreQuestion, StoreAnswer, Transaction, page, TypeOK
<1>11. CASE ReadContext
  BY <1>11, RaiseTypes DEF ReadContext, Raise, wire, page, TypeOK
<1>12. CASE Delta
  <2>1. pc' \in {"flow", "closed"} /\ deltas' \in 0 .. MaxDeltas
    BY <1>12 DEF Delta, Emit, TypeOK
  <2>2. QED
    BY <1>12, <2>1, EmitTypes DEF Delta, page, TypeOK
<1>13. CASE StreamEnds
  BY <1>13 DEF StreamEnds, page, wire, TypeOK
<1>14. CASE Evaluate
  BY <1>14 DEF Evaluate, page, wire, Card, Text, TypeOK
<1>15. CASE Attach
  <2> DEFINE attached == [i \in DOMAIN messages |->
                            IF messages[i].turn = turn /\ messages[i].role = "assistant"
                            THEN Updated(messages[i]) ELSE messages[i]]
  <2>1. attached \in [DOMAIN messages -> Message]
    <3>1. \A i \in DOMAIN messages : messages[i] \in Message
      BY SeqIsFunction DEF TypeOK
    <3>2. QED
      BY <3>1, UpdatedFacts
  <2>2. attached \in Seq(Message)
    BY <2>1, FunctionIsSeq DEF TypeOK
  <2>3. messages' \in {messages, attached}
    BY <1>15 DEF Attach
  <2>4. pc' \in {"send_revised", "send_card", "card_failed"}
    BY <1>15 DEF Attach
  <2>5. QED
    BY <1>15, <2>2, <2>3, <2>4 DEF Attach, page, wire, TypeOK
<1>16. CASE SendEvent
  <2>1. PICK type \in {"refusal", "start", "error", "revised", "scorecard",
                       "scorecard_error", "done"},
             next \in {"done", "flow", "receive", "send_card"} : Emit(type, next)
    BY <1>16 DEF SendEvent
  <2>2. toPage' \in Seq(Event) /\ link' \in BOOLEAN /\ toServer' \in Seq(Turn)
    BY <2>1, EmitTypes
  <2>3. pc' \in {"done", "flow", "receive", "send_card", "closed"}
    BY <2>1 DEF Emit
  <2>4. QED
    BY <1>16, <2>2, <2>3 DEF SendEvent, page, TypeOK
<1>17. CASE Break \/ Restart
  BY <1>17, CutTypes DEF Break, Restart, Cut, page, server, TypeOK
<1>18. CASE Connect
  BY <1>18 DEF Connect, wire, server, TypeOK
<1>19. CASE Accept \/ Refuse
  <2>1. <<[type |-> "open", turn |-> 0]>> \in Seq(Event)
        /\ <<[type |-> "close", turn |-> 0]>> \in Seq(Event)
    BY DEF Event
  <2>2. QED
    BY <1>19, <2>1 DEF Accept, Refuse, page, TypeOK
<1>20. CASE FindSession
  <2>1. toPage' \in Seq(Event) /\ link' \in BOOLEAN /\ toServer' \in Seq(Turn)
        /\ pc' \in {"receive", "closed"}
    <3>1. CASE Raise
      BY <3>1, RaiseTypes DEF Raise
    <3>2. CASE pc' = "receive" /\ UNCHANGED wire
      BY <3>2 DEF wire, TypeOK
    <3>3. CASE /\ pc' = "closed"
               /\ link' = FALSE
               /\ toServer' = <<>>
               /\ toPage' = IF link THEN toPage \o <<[type |-> "error", turn |-> 0],
                                                    [type |-> "close", turn |-> 0]>>
                            ELSE toPage
      <4>1. toPage' \in Seq(Event)
        BY <3>3, NotFoundTypes DEF TypeOK
      <4>2. <<>> \in Seq(Turn)
        OBVIOUS
      <4>3. QED
        BY <3>3, <4>1, <4>2
    <3>4. QED
      BY <1>20, <3>1, <3>2, <3>3 DEF FindSession
  <2>2. QED
    BY <1>20, <2>1 DEF FindSession, page, TypeOK
<1>21. CASE UNCHANGED vars
  BY <1>21 DEF vars, page, wire, server, TypeOK
<1>22. QED
  BY <1>1, <1>3, <1>4, <1>5, <1>6, <1>7, <1>8, <1>9, <1>10, <1>11, <1>12, <1>13, <1>14, <1>15,
     <1>16, <1>17, <1>18, <1>19, <1>20, <1>21 DEF Next, PageStep, ServerStep

\* Where a "done" on its way comes from.
LEMMA DoneMoves ==
  ASSUME TypeOK
  PROVE  /\ \A type : Handle(type) => (DonePending' => DonePending)
         /\ \A type, next : Emit(type, next) /\ type # "done" => (DonePending' => DonePending)
         /\ Raise \/ Cut \/ FindSession => (DonePending' => DonePending)
         /\ Accept \/ Refuse => ~DonePending'
<1> toPage \in Seq(Event)
  BY DEF TypeOK
<1>1. ASSUME NEW type, Handle(type) PROVE DonePending' => DonePending
  BY <1>1, TailFacts DEF Handle, DonePending
<1>2. ASSUME NEW type, NEW next, Emit(type, next), type # "done"
      PROVE  DonePending' => DonePending
  <2>1. CASE UNCHANGED toPage
    BY <2>1 DEF DonePending
  <2>2. CASE toPage' = Append(toPage, [type |-> type, turn |-> turn])
    BY <1>2, <2>2 DEF DonePending
  <2>3. QED
    BY <1>2, <2>1, <2>2 DEF Emit
<1>3. ASSUME Raise PROVE DonePending' => DonePending
  <2>1. CASE UNCHANGED toPage
    BY <2>1 DEF DonePending
  <2>2. CASE toPage' = Append(toPage, [type |-> "close", turn |-> 0])
    BY <2>2 DEF DonePending
  <2>3. QED
    BY <1>3, <2>1, <2>2 DEF Raise
<1>4. ASSUME Cut PROVE DonePending' => DonePending
  <2>1. PICK n \in 0 .. Len(toPage) :
          toPage' = Append(SubSeq(toPage, 1, n), [type |-> "close", turn |-> 0])
    BY <1>4 DEF Cut
  <2>2. QED
    BY <2>1 DEF DonePending
<1>5. ASSUME FindSession PROVE DonePending' => DonePending
  <2> DEFINE error == [type |-> "error", turn |-> 0]
             close == [type |-> "close", turn |-> 0]
  <2>1. CASE Raise
    BY <1>3, <2>1
  <2>2. CASE UNCHANGED toPage
    BY <2>2 DEF DonePending
  <2>3. CASE toPage' = toPage \o <<error, close>>
    <3>1. error \in Event /\ close \in Event /\ error.type = "error" /\ close.type = "close"
      BY ChatAssumption DEF Event
    <3> HIDE DEF error, close
    <3>2. toPage' = Append(Append(toPage, error), close)
      BY <2>3, <3>1, TwoMore
    <3>3. QED
      BY <3>1, <3>2 DEF DonePending
  <2>4. QED
    BY <1>5, <2>1, <2>2, <2>3 DEF FindSession, wire
<1>6. ASSUME Accept \/ Refuse PROVE ~DonePending'
  BY <1>6 DEF Accept, Refuse, DonePending
<1>7. QED
  BY <1>1, <1>2, <1>3, <1>4, <1>5, <1>6

\* What is sent at which await, and the await after it.
Sends(at, type, next) ==
  \/ at = "invalid" /\ type = "error" /\ next = "receive"
  \/ at = "send_refusal" /\ type = "refusal" /\ next = "done"
  \/ at = "start" /\ type = "start" /\ next = "flow"
  \/ at = "failed" /\ type = "error" /\ next = "receive"
  \/ at = "send_revised" /\ type = "revised" /\ next = "send_card"
  \/ at = "send_card" /\ type = "scorecard" /\ next = "done"
  \/ at = "card_failed" /\ type = "scorecard_error" /\ next = "done"
  \/ at = "done" /\ type = "done" /\ next = "receive"

\* SendEvent by its events.
LEMMA SendEventSends ==
  ASSUME SendEvent
  PROVE  \E type, next : Emit(type, next) /\ Sends(pc, type, next)
  BY DEF SendEvent, Sends

\* Every step keeps ControlInv.
LEMMA ControlStep ==
  ASSUME ChatInv, [Next]_vars
  PROVE  ControlInv'
<1> TypeOK /\ ControlInv
  BY DEF ChatInv
<1> turn \in Nat /\ 0 \notin harmful
  BY ChatAssumption DEF TypeOK, Turn
<1> DEFINE Kept == UNCHANGED <<harmful, turn, deltas>> /\ (DonePending' => DonePending)
<1>0. (socket \in {"none", "connecting"} => ~streaming)'
  <2>1. CASE Connect \/ Send
    BY <2>1 DEF Connect, Send, ControlInv
  <2>2. CASE PageStep
    BY <2>2 DEF PageStep, OnOpen, OnStart, OnToken, OnDone, OnError, OnClose, Ignored, ControlInv
  <2>3. CASE UNCHANGED page
    BY <2>3 DEF page, ControlInv
  <2>4. QED
    BY <2>1, <2>2, <2>3
       DEF Next, ServerStep, Accept, FindSession, Receive, StoreRefusal, StoreQuestion, ReadContext,
           Delta, StreamEnds, StoreAnswer, Evaluate, Attach, SendEvent, Transaction, Refuse, Break,
           Restart, vars
<1>1. CASE Connect \/ Send \/ PageStep
  <2>1. Kept /\ UNCHANGED <<pc, link>>
    BY <1>1, DoneMoves DEF Connect, Send, PageStep, OnOpen, OnStart, OnToken, OnDone, OnError,
                           OnClose, Ignored, Handle, wire, server, DonePending
  <2>2. QED
    BY <1>0, <2>1 DEF ControlInv
<1>2. CASE Receive
  <2>1. CASE toServer # <<>> /\ turn' = Head(toServer)
    <3>1. Asked /\ turn' = sent /\ sent \in Turn
      BY <2>1, TurnIsSent DEF Asked, TypeOK
    <3>2. ~DonePending'
      BY <1>2, <3>1 DEF Receive, Asked, DonePending
    <3>3. QED
      BY <1>0, <1>2, <2>1, <3>1, <3>2 DEF Receive, ControlInv, Asked
  <2>2. CASE ~link /\ pc' = "closed" /\ UNCHANGED <<turn, deltas>>
    BY <1>0, <1>2, <2>2 DEF Receive, ControlInv
  <2>3. QED
    BY <1>2, <2>1, <2>2 DEF Receive
<1>3. CASE StoreRefusal \/ StoreQuestion \/ ReadContext \/ StoreAnswer
  <2>1. Kept /\ (link' => pc' # "closed") /\ ~DonePending
    BY <1>3, DoneMoves DEF StoreRefusal, StoreQuestion, ReadContext, StoreAnswer, Transaction,
                           Raise, wire, DonePending, ControlInv
  <2>2. \/ pc' = "closed"
        \/ pc = "store_refusal" /\ pc' = "send_refusal"
        \/ pc = "store_question" /\ pc' = "read"
        \/ pc = "read" /\ pc' = "start"
        \/ pc = "store_answer" /\ pc' = "evaluate"
    BY <1>3 DEF StoreRefusal, StoreQuestion, ReadContext, StoreAnswer, Transaction, Raise
  <2>3. QED
    BY <1>0, <2>1, <2>2 DEF ControlInv
<1>4. CASE StreamEnds \/ Evaluate \/ Attach
  <2>1. Kept /\ UNCHANGED link /\ ~DonePending
    BY <1>4 DEF StreamEnds, Evaluate, Attach, wire, DonePending, ControlInv
  <2>2. pc \in {"flow", "evaluate", "attach"}
        /\ pc' \in {"store_answer", "failed", "attach", "card_failed", "done", "send_revised",
                    "send_card"}
    BY <1>4 DEF StreamEnds, Evaluate, Attach
  <2>3. QED
    BY <1>0, <2>1, <2>2 DEF ControlInv
<1>5. CASE Delta
  <2>1. UNCHANGED <<harmful, turn>> /\ (DonePending' => DonePending) /\ pc = "flow"
        /\ pc' \in {"flow", "closed"} /\ (link' => pc' # "closed")
    BY <1>5, DoneMoves DEF Delta, Emit, ControlInv
  <2>2. QED
    BY <1>0, <2>1 DEF ControlInv
<1>6. CASE SendEvent
  <2>1. PICK type, next : Emit(type, next) /\ Sends(pc, type, next)
    BY <1>6, SendEventSends
  <2>2. type # "done" => (DonePending' => DonePending)
    BY <2>1, DoneMoves
  <2>3. UNCHANGED <<harmful, turn, deltas>> /\ pc' \in {next, "closed"}
        /\ (link' => pc' # "closed")
    BY <1>6, <2>1 DEF SendEvent, Emit
  <2>4. QED
    BY <1>0, <2>1, <2>2, <2>3 DEF ControlInv, Sends
<1>7. CASE Break \/ Restart
  <2>1. Kept /\ ~link' /\ pc' \in {pc, "closed"}
    BY <1>7, DoneMoves DEF Break, Restart, Cut, server
  <2>2. QED
    BY <1>0, <2>1 DEF ControlInv
<1>8. CASE Accept \/ FindSession \/ Refuse
  <2>1. ~DonePending' /\ UNCHANGED <<harmful, turn, deltas>>
        /\ turn \notin harmful /\ turn = 0
    BY <1>8, DoneMoves DEF Accept, FindSession, Refuse, ControlInv
  <2>2. \/ pc' \in {"find", "receive"}
        \/ pc' = "closed" /\ ~link'
    BY <1>8 DEF Accept, FindSession, Refuse, Raise, ControlInv
  <2>3. QED
    BY <1>0, <2>1, <2>2 DEF ControlInv
<1>9. CASE UNCHANGED vars
  BY <1>0, <1>9 DEF vars, wire, server, ControlInv, DonePending
<1>10. QED
  BY <1>1, <1>2, <1>3, <1>4, <1>5, <1>6, <1>7, <1>8, <1>9 DEF Next, ServerStep

\* The turn that ends is the one the server is at.
LEMMA DoneHandled ==
  ASSUME ChatInv, OnDone
  PROVE  /\ DonePending /\ Served /\ ended' = ended \cup {turn}
         /\ toPage # <<>> /\ 1 \in DOMAIN toPage /\ toPage[1].type = "done"
<1>1. toPage # <<>> /\ toPage[1].type = "done" /\ 1 \in DOMAIN toPage /\ Head(toPage) = toPage[1]
  BY TailFacts DEF OnDone, Handle, ChatInv, TypeOK
<1>2. DonePending /\ Served
  BY <1>1, TurnIsSent DEF DonePending
<1>3. toPage[1].turn = turn
  BY <1>1, <1>2 DEF Served, EndsTurn
<1>4. QED
  BY <1>1, <1>2, <1>3 DEF OnDone

\* What a step does to the rows: nothing, or it adds one of the turn behind
\* them, or the two of a refused turn, or it updates an answer.
Follows(rows, row) ==
  /\ row.turn = turn /\ row.text = "written"
  /\ \A i \in DOMAIN rows :
       \/ rows[i].turn # turn
       \/ turn \in harmful
       \/ rows[i].role = "user" /\ row.role = "assistant"

Adds(row) == messages' = Append(messages, row) /\ Follows(messages, row)

AddsTwo(r1, r2) ==
  /\ turn \in harmful
  /\ messages' = Append(Append(messages, r1), r2)
  /\ r1.turn = turn /\ r1.text = "written" /\ r2.turn = turn /\ r2.text = "written"

Rates ==
  /\ DOMAIN messages' = DOMAIN messages
  /\ \A i \in DOMAIN messages : /\ messages'[i].turn = messages[i].turn
                                /\ messages'[i].role = messages[i].role
                                /\ messages'[i].deltas = messages[i].deltas
  /\ Carded(messages')

\* The two rows of a refused turn, in the order they are listed.
LEMMA RefusalAddsTwo ==
  ASSUME TypeOK, turn \in Turn, turn \in harmful,
         NEW r1 \in {"user", "assistant"}, NEW r2 \in {"user", "assistant"},
         messages' = messages \o <<Row(r1), Row(r2)>>
  PROVE  AddsTwo(Row(r1), Row(r2))
<1>1. Row(r1) \in Message /\ Row(r2) \in Message
  BY RowTypes
<1>2. messages' = Append(Append(messages, Row(r1)), Row(r2))
  BY <1>1, TwoMore DEF TypeOK
<1>3. QED
  BY <1>2 DEF AddsTwo, Row

\* Attach leaves turn, role and draft of a row alone, and a revised content
\* comes with a scorecard that says so.
LEMMA AttachRates ==
  ASSUME TypeOK, RowsInv, Attach
  PROVE  Rates
<1> DEFINE attached == [i \in DOMAIN messages |->
                          IF messages[i].turn = turn /\ messages[i].role = "assistant"
                          THEN Updated(messages[i]) ELSE messages[i]]
<1>1. messages' \in {messages, attached}
  BY DEF Attach
<1>2. \A i \in DOMAIN messages : messages[i] \in Message
  BY SeqIsFunction DEF TypeOK
<1>3. \A i \in DOMAIN messages : messages[i].turn = turn => messages[i].text = "written"
  BY DEF Attach, RowsInv, Stored
<1>4. DOMAIN attached = DOMAIN messages
  OBVIOUS
<1>5. \A i \in DOMAIN messages :
        LET n == Updated(messages[i])
        IN  /\ n.turn = messages[i].turn /\ n.role = messages[i].role
            /\ n.deltas = messages[i].deltas
            /\ messages[i].turn = turn => (n.text = "revised" => n.card = "revised")
  BY <1>2, <1>3, UpdatedFacts
<1>6. Carded(attached)
  BY <1>4, <1>5 DEF RowsInv, Carded
<1>7. QED
  BY <1>1, <1>4, <1>5, <1>6 DEF Rates, RowsInv

\* Rows stay, with their turn, role and draft.
Grows ==
  \A m \in Range(messages) : \E n \in Range(messages') :
    n.turn = m.turn /\ n.role = m.role /\ n.deltas = m.deltas

\* They are listed as they should be.
Right(rows) == InOrder(rows) /\ UpTo(rows, turn) /\ Carded(rows)

\* They stay in order.
LEMMA RowsMove ==
  ASSUME TypeOK, Right(messages),
         \/ messages' = messages
         \/ \E row \in Message : Adds(row)
         \/ \E r1, r2 \in Message : AddsTwo(r1, r2)
         \/ Rates
  PROVE  Grows /\ Right(messages')
<1> messages \in Seq(Message) /\ turn \in Nat /\ \A m \in Message : m.turn \in Nat
  BY ChatAssumption DEF TypeOK, Message, Turn
<1>1. CASE messages' = messages
  BY <1>1 DEF Grows
<1>2. ASSUME NEW rows \in Seq(Message), NEW row \in Message, Follows(rows, row), Right(rows)
      PROVE  /\ Append(rows, row) \in Seq(Message)
             /\ Right(Append(rows, row))
             /\ Range(rows) \subseteq Range(Append(rows, row))
  <2> DEFINE new == Append(rows, row)
  <2>1. /\ new \in Seq(Message) /\ DOMAIN rows = 1 .. Len(rows) /\ Len(rows) \in Nat
        /\ DOMAIN new = 1 .. Len(rows) + 1
        /\ \A i \in 1 .. Len(rows) : new[i] = rows[i] /\ rows[i].turn \in Nat
        /\ new[Len(rows) + 1] = row
    OBVIOUS
  <2> HIDE DEF new
  <2>2. UpTo(new, turn) /\ Carded(new)
    <3>1. \A i \in DOMAIN new : i \in 1 .. Len(rows) \/ new[i] = row
      BY <2>1
    <3>2. row.turn = turn /\ turn <= turn /\ row.text = "written"
      BY <1>2 DEF Follows
    <3>3. \A i \in 1 .. Len(rows) : rows[i].turn <= turn
      BY <1>2, <2>1 DEF Right, UpTo
    <3>4. \A i \in 1 .. Len(rows) : rows[i].text = "revised" => rows[i].card = "revised"
      BY <1>2, <2>1 DEF Right, Carded
    <3>5. UpTo(new, turn)
      BY <2>1, <3>1, <3>2, <3>3 DEF UpTo
    <3>6. Carded(new)
      BY <2>1, <3>1, <3>2, <3>4 DEF Carded
    <3>7. QED
      BY <3>5, <3>6
  <2>3. InOrder(new)
    <3> DEFINE Before(m, n) == \/ m.turn < n.turn
                               \/ /\ m.turn = n.turn
                                  /\ \/ m.turn \in harmful
                                     \/ m.role = "user" /\ n.role = "assistant"
    <3>1. ASSUME NEW i \in DOMAIN new, NEW j \in DOMAIN new, i < j
          PROVE  Before(new[i], new[j])
      <4>1. i \in 1 .. Len(rows)
        BY <2>1, <3>1
      <4>2. CASE j \in 1 .. Len(rows)
        BY <1>2, <2>1, <3>1, <4>1, <4>2 DEF Right, InOrder
      <4>3. CASE j = Len(rows) + 1
        <5>1. new[i] = rows[i] /\ new[j] = row /\ rows[i].turn \in Nat /\ rows[i].turn <= turn
          BY <1>2, <2>1, <4>1, <4>3 DEF Right, UpTo
        <5>2. \/ rows[i].turn # turn
              \/ turn \in harmful
              \/ rows[i].role = "user" /\ row.role = "assistant"
          BY <1>2, <2>1, <4>1 DEF Follows
        <5>3. rows[i].turn < turn \/ rows[i].turn = turn
          BY <5>1
        <5>4. QED
          BY <1>2, <5>1, <5>2, <5>3 DEF Follows
      <4>4. QED
        BY <2>1, <4>2, <4>3
    <3>2. QED
      BY <3>1 DEF InOrder
  <2>4. Range(rows) \subseteq Range(new)
    BY <2>1 DEF Range
  <2>5. QED
    BY <2>1, <2>2, <2>3, <2>4 DEF new, Right
<1>3. ASSUME NEW row \in Message, Adds(row)
      PROVE  Grows /\ Right(messages')
  BY <1>2, <1>3 DEF Adds, Grows
<1>4. ASSUME NEW r1 \in Message, NEW r2 \in Message, AddsTwo(r1, r2)
      PROVE  Grows /\ Right(messages')
  <2> DEFINE one == Append(messages, r1)
  <2>1. one \in Seq(Message) /\ Right(one) /\ Range(messages) \subseteq Range(one)
    BY <1>2, <1>4 DEF AddsTwo, Follows
  <2> HIDE DEF one
  <2>2. messages' = Append(one, r2) /\ Follows(one, r2)
    BY <1>4 DEF AddsTwo, one, Follows
  <2>3. QED
    BY <1>2, <2>1, <2>2 DEF Grows
<1>5. CASE Rates
  <2>1. Grows
    BY <1>5 DEF Rates, Grows, Range
  <2>2. Right(messages')
    BY <1>5 DEF Rates, Right, InOrder, UpTo
  <2>3. QED
    BY <2>1, <2>2
<1>6. QED
  BY <1>1, <1>3, <1>4, <1>5

\* What is stored of a turn is kept, and what it lacks is not asked for yet.
LEMMA RowsRest ==
  ASSUME TypeOK, RowsInv, UNCHANGED <<harmful, turn>>,
         Grows, Right(messages'), Stored(pc', messages', turn),
         NeedsQuestion' => NeedsQuestion \/ HasRow(turn, "user")',
         NeedsAnswer' => (NeedsAnswer /\ deltas' = deltas) \/ HasAnswer',
         \A t \in ended' : t \in ended \/ (t = turn /\ NeedsQuestion)
  PROVE  RowsInv'
<1>1. \A t, role : HasRow(t, role) => HasRow(t, role)'
  BY DEF HasRow, Grows
<1>2. HasAnswer /\ deltas' = deltas => HasAnswer'
  BY DEF HasAnswer, Grows
<1>3. HasRow(turn, "user") => HasRow(turn, "user")'
  BY DEF HasRow, Grows
<1>4. InOrder(messages)' /\ UpTo(messages, turn)' /\ Carded(messages)'
  BY DEF Right, InOrder, UpTo, Carded
<1>5. Stored(pc, messages, turn)'
  BY DEF Stored, Last, Question
<1>6. (NeedsQuestion => HasRow(turn, "user"))'
  BY <1>3 DEF RowsInv
<1>7. (NeedsAnswer => HasAnswer)'
  BY <1>2 DEF RowsInv
<1>8. (\A t \in ended : HasRow(t, "user"))'
  BY <1>1 DEF RowsInv
<1>9. QED
  BY <1>4, <1>5, <1>6, <1>7, <1>8 DEF RowsInv

\* The same for a step that leaves the rows alone.
LEMMA RowsIdle ==
  ASSUME TypeOK, RowsInv, UNCHANGED <<harmful, turn, messages>>,
         Stored(pc', messages, turn),
         NeedsQuestion' => NeedsQuestion,
         NeedsAnswer' => NeedsAnswer /\ deltas' = deltas,
         \A t \in ended' : t \in ended \/ (t = turn /\ NeedsQuestion)
  PROVE  RowsInv'
<1>1. Grows /\ Right(messages') /\ Stored(pc', messages', turn)
  BY DEF Grows, RowsInv, Right
<1>2. QED
  BY <1>1, RowsRest

\* Every step keeps RowsInv.
LEMMA RowsStep ==
  ASSUME ChatInv, [Next]_vars
  PROVE  RowsInv'
<1> TypeOK /\ ControlInv /\ RowsInv
  BY DEF ChatInv
<1> Right(messages) /\ Stored(pc, messages, turn)
  BY DEF RowsInv, Right
<1>1. ASSUME UNCHANGED <<harmful, turn, deltas, messages, pc>>, DonePending' => DonePending,
             \A t \in ended' : t \in ended \/ (t = turn /\ NeedsQuestion)
      PROVE  RowsInv'
  <2>1. Stored(pc', messages', turn)
    BY <1>1
  <2>2. Grows /\ Right(messages')
    BY <1>1 DEF Grows
  <2>3. (NeedsQuestion' => NeedsQuestion) /\ (NeedsAnswer' => NeedsAnswer)
    BY <1>1 DEF NeedsQuestion, NeedsAnswer
  <2>4. QED
    BY <1>1, <2>1, <2>2, <2>3, RowsRest
<1>2. CASE Connect \/ Send
  BY <1>1, <1>2 DEF Connect, Send, wire, server, DonePending
<1>3. CASE PageStep
  <2>1. UNCHANGED <<harmful, turn, deltas, messages, pc>> /\ (DonePending' => DonePending)
    BY <1>3, DoneMoves DEF PageStep, OnOpen, OnStart, OnToken, OnDone, OnError, OnClose,
                           Ignored, Handle, server
  <2>2. \A t \in ended' : t \in ended \/ (t = turn /\ NeedsQuestion)
    <3>1. CASE OnDone
      BY <3>1, DoneHandled DEF NeedsQuestion
    <3>2. CASE ~OnDone
      BY <1>3, <3>2 DEF PageStep, OnOpen, OnStart, OnToken, OnError, OnClose, Ignored
    <3>3. QED
      BY <3>1, <3>2
  <2>3. QED
    BY <1>1, <2>1, <2>2
<1>4. CASE Receive
  <2>1. CASE toServer # <<>> /\ turn' = Head(toServer)
    <3>1. link /\ Asked /\ turn' = sent /\ turn < sent /\ turn \in Nat /\ sent \in Nat
      BY <2>1, TurnIsSent DEF Asked, TypeOK
    <3>2. ~DonePending' /\ pc' \in {"invalid", "store_refusal", "store_question"}
      BY <1>4, <3>1 DEF Receive, Asked, DonePending
    <3>3. ~NeedsQuestion' /\ ~NeedsAnswer'
      BY <3>2 DEF NeedsQuestion, NeedsAnswer
    <3>4. messages' = messages /\ ended' = ended /\ harmful' = harmful
      BY <1>4 DEF Receive, page
    <3>5. /\ InOrder(messages)' /\ UpTo(messages, turn)' /\ Carded(messages)'
          /\ Stored(pc, messages, turn)'
      <4>1. \A i \in DOMAIN messages : messages[i].turn \in Nat
        <5>1. \A i \in DOMAIN messages : messages[i] \in Message
          BY SeqIsFunction DEF TypeOK
        <5>2. \A m \in Message : m.turn \in Nat
          BY ChatAssumption DEF Message, Turn
        <5>3. QED
          BY <5>1, <5>2
      <4>2. QED
        BY <3>1, <3>2, <3>4, <4>1 DEF Right, InOrder, UpTo, Carded, Stored
    <3>6. (\A t \in ended : HasRow(t, "user"))'
      BY <3>4 DEF RowsInv, HasRow
    <3>7. QED
      BY <3>2, <3>3, <3>5, <3>6 DEF RowsInv
  <2>2. CASE pc' = "closed" /\ UNCHANGED <<turn, toServer, deltas, context, final, card>>
    <3>1. (NeedsQuestion' => NeedsQuestion) /\ (NeedsAnswer' => NeedsAnswer)
      BY <1>4, <2>2 DEF Receive, NeedsQuestion, NeedsAnswer, DonePending
    <3>2. QED
      BY <1>4, <2>2, <3>1, RowsIdle DEF Receive, page, Stored
  <2>3. QED
    BY <1>4, <2>1, <2>2 DEF Receive
<1>5. ASSUME Raise, ~DonePending, pc' = "closed",
             UNCHANGED <<harmful, turn, page>>,
             Grows, Right(messages')
      PROVE  RowsInv'
  <2>1. ~DonePending'
    BY <1>5, DoneMoves
  <2>2. ~NeedsQuestion' /\ ~NeedsAnswer'
    BY <1>5, <2>1 DEF NeedsQuestion, NeedsAnswer
  <2>3. QED
    BY <1>5, <2>2, RowsRest DEF page, Stored
<1>6. CASE StoreRefusal
  <2>1. turn \in Turn /\ turn \in harmful /\ ~DonePending
    BY <1>6 DEF StoreRefusal, ControlInv
  <2>2. \/ messages' = messages
        \/ AddsTwo(Row("user"), Row("assistant")) \/ AddsTwo(Row("assistant"), Row("user"))
    BY <1>6, <2>1, RefusalAddsTwo DEF StoreRefusal, Transaction
  <2>3. Grows /\ Right(messages')
    BY <2>1, <2>2, RowTypes, RowsMove
  <2>4. CASE Raise
    BY <1>5, <1>6, <2>1, <2>3, <2>4 DEF StoreRefusal, Transaction, Raise
  <2>5. CASE ~Raise
    <3>1. pc' = "send_refusal" /\ UNCHANGED <<wire, harmful, turn, page>>
          /\ messages' \in {messages \o <<Row("user"), Row("assistant")>>,
                            messages \o <<Row("assistant"), Row("user")>>}
      BY <1>6, <2>5 DEF StoreRefusal, Transaction
    <3>2. PICK r1, r2 \in {"user", "assistant"} :
            r1 # r2 /\ messages' = Append(Append(messages, Row(r1)), Row(r2))
      BY <2>1, <3>1, RefusalAddsTwo DEF AddsTwo
    <3>3. Row(r1) \in Range(messages') /\ Row(r2) \in Range(messages')
      <4>1. Row(r1) \in Message /\ Row(r2) \in Message /\ messages \in Seq(Message)
        BY <2>1, RowTypes DEF TypeOK
      <4>2. messages'[Len(messages) + 1] = Row(r1) /\ messages'[Len(messages) + 2] = Row(r2)
            /\ Len(messages) + 1 \in DOMAIN messages' /\ Len(messages) + 2 \in DOMAIN messages'
        BY <3>2, <4>1
      <4>3. QED
        BY <4>2 DEF Range
    <3>4. Row("user") \in Range(messages') /\ Row("assistant") \in Range(messages')
      BY <3>2, <3>3
    <3>5. turn' = turn /\ harmful' = harmful
      BY <3>1
    <3>6. HasRow(turn, "user")'
      BY <3>4, <3>5 DEF HasRow, Row
    <3>7. HasAnswer'
      BY <2>1, <3>4, <3>5 DEF HasAnswer, Row
    <3>8. QED
      BY <2>3, <3>1, <3>6, <3>7, RowsRest DEF page, Stored
  <2>6. QED
    BY <2>4, <2>5
<1>7. ASSUME NEW row \in Message, Follows(messages, row), messages' = Append(messages, row)
      PROVE  /\ Grows /\ Right(messages')
             /\ row \in Range(messages') /\ messages' # <<>> /\ Last(messages') = row
             /\ \A i \in DOMAIN messages' :
                  messages'[i] = row \/ (i \in DOMAIN messages /\ messages'[i] = messages[i])
  <2>1. Adds(row)
    BY <1>7 DEF Adds
  <2>2. messages'[Len(messages) + 1] = row /\ Len(messages) + 1 \in DOMAIN messages'
        /\ messages' # <<>> /\ Last(messages') = row
        /\ \A i \in DOMAIN messages' :
             messages'[i] = row \/ (i \in DOMAIN messages /\ messages'[i] = messages[i])
    <3>1. messages \in Seq(Message)
      BY DEF TypeOK
    <3>2. /\ messages' # <<>> /\ Last(messages') = row
          /\ DOMAIN messages' = 1 .. Len(messages) + 1 /\ messages'[Len(messages) + 1] = row
          /\ \A i \in DOMAIN messages : messages'[i] = messages[i]
          /\ DOMAIN messages = 1 .. Len(messages) /\ Len(messages) \in Nat
      BY <1>7, <3>1, AppendFacts
    <3>3. QED
      BY <3>2
  <2>3. QED
    BY <2>1, <2>2, RowsMove DEF Range
<1>8. CASE StoreQuestion
  <2>1. turn \in Turn /\ ~DonePending /\ Row("user") \in Message /\ Follows(messages, Row("user"))
        /\ Row("user") = Question(turn)
        /\ \A i \in DOMAIN messages : messages[i].turn # turn
    BY <1>8, RowTypes DEF StoreQuestion, ControlInv, Row, Question, Follows, Stored
  <2>2. CASE Raise
    <3>1. Grows /\ Right(messages')
      <4>1. messages' = messages \/ messages' = Append(messages, Row("user"))
        BY <1>8 DEF StoreQuestion, Transaction
      <4>2. QED
        BY <1>7, <2>1, <4>1, RowsMove
    <3>2. QED
      BY <1>5, <1>8, <2>1, <2>2, <3>1 DEF StoreQuestion, Transaction, Raise
  <2>3. CASE ~Raise
    <3>1. pc' = "read" /\ UNCHANGED <<wire, harmful, turn, page>>
          /\ messages' = Append(messages, Row("user"))
      BY <1>8, <2>3 DEF StoreQuestion, Transaction
    <3>2. HasRow(turn, "user")' /\ ~NeedsAnswer'
      BY <1>7, <2>1, <3>1 DEF HasRow, NeedsAnswer, DonePending, wire, Question
    <3>3. Stored(pc', messages', turn)
      BY <1>7, <2>1, <3>1 DEF Stored, Question
    <3>4. QED
      BY <1>7, <2>1, <3>1, <3>2, <3>3, RowsRest DEF page
  <2>4. QED
    BY <2>2, <2>3
<1>9. CASE StoreAnswer
  <2> DEFINE row == [Row("assistant") EXCEPT !.deltas = deltas]
  <2>1. turn \in Turn /\ ~DonePending /\ row \in Message
        /\ row.turn = turn /\ row.role = "assistant" /\ row.deltas = deltas
        /\ row.text = "written"
        /\ \A i \in DOMAIN messages :
             messages[i].turn = turn => messages[i].role = "user" /\ messages[i].text = "written"
    BY <1>9, RowTypes DEF StoreAnswer, ControlInv, Stored
  <2> HIDE DEF row
  <2>2. Follows(messages, row)
    BY <2>1 DEF Follows
  <2>3. CASE Raise
    <3>1. Grows /\ Right(messages')
      <4>1. messages' = messages \/ messages' = Append(messages, row)
        BY <1>9 DEF StoreAnswer, Transaction, row
      <4>2. QED
        BY <1>7, <2>1, <2>2, <4>1, RowsMove
    <3>2. QED
      BY <1>5, <1>9, <2>1, <2>3, <3>1 DEF StoreAnswer, Transaction, Raise
  <2>4. CASE ~Raise
    <3>1. pc' = "evaluate" /\ UNCHANGED <<wire, harmful, turn, deltas, page>>
          /\ messages' = Append(messages, row)
      BY <1>9, <2>4 DEF StoreAnswer, Transaction, row
    <3>2. HasAnswer' /\ NeedsQuestion
      BY <1>7, <1>9, <2>1, <2>2, <3>1 DEF HasAnswer, NeedsQuestion, StoreAnswer
    <3>3. Stored(pc', messages', turn)
      BY <1>7, <2>1, <2>2, <3>1 DEF Stored
    <3>4. QED
      BY <1>7, <2>1, <2>2, <3>1, <3>2, <3>3, RowsRest DEF page
  <2>5. QED
    BY <2>3, <2>4
<1>10. CASE ReadContext
  <2>1. ~DonePending /\ Grows
    BY <1>10 DEF ReadContext, ControlInv, Grows
  <2>2. CASE Raise
    BY <1>5, <1>10, <2>1, <2>2 DEF ReadContext, Raise
  <2>3. CASE ~Raise
    <3>1. NeedsQuestion /\ ~NeedsAnswer'
      BY <1>10, <2>1, <2>3 DEF ReadContext, wire, NeedsQuestion, NeedsAnswer, DonePending
    <3>2. QED
      BY <1>10, <2>3, <3>1, RowsIdle DEF ReadContext, page, Stored
  <2>4. QED
    BY <2>2, <2>3
<1>11. CASE Delta
  <2>1. ~DonePending' /\ NeedsQuestion /\ pc' \in {"flow", "closed"}
    BY <1>11, DoneMoves DEF Delta, Emit, ControlInv, NeedsQuestion
  <2>2. ~NeedsAnswer'
    BY <2>1 DEF NeedsAnswer
  <2>3. QED
    BY <1>11, <2>1, <2>2, RowsIdle DEF Delta, page, Stored
<1>12. CASE StreamEnds
  <2>1. NeedsQuestion /\ ~NeedsAnswer'
    BY <1>12 DEF StreamEnds, wire, DonePending, ControlInv, NeedsQuestion, NeedsAnswer
  <2>2. QED
    BY <1>12, <2>1, RowsIdle DEF StreamEnds, page, Stored
<1>13. CASE Evaluate
  <2>1. NeedsQuestion /\ NeedsAnswer
    BY <1>13 DEF Evaluate, NeedsQuestion, NeedsAnswer
  <2>2. QED
    BY <1>13, <2>1, RowsIdle DEF Evaluate, page, Stored
<1>14. CASE Attach
  <2>1. NeedsQuestion /\ NeedsAnswer
    BY <1>14 DEF Attach, NeedsQuestion, NeedsAnswer
  <2>2. Grows /\ Right(messages')
    BY <1>14, AttachRates, RowsMove
  <2>3. Stored(pc', messages', turn) /\ UNCHANGED <<harmful, page, turn, deltas>>
    BY <1>14 DEF Attach, Stored
  <2>4. QED
    BY <2>1, <2>2, <2>3, RowsRest DEF page
<1>15. CASE SendEvent
  <2>1. PICK type, next : Emit(type, next) /\ Sends(pc, type, next)
    BY <1>15, SendEventSends
  <2>2. type # "done" => ~DonePending'
    BY <2>1, DoneMoves DEF ControlInv, Sends
  <2>3. pc' \in {next, "closed"}
    BY <2>1 DEF Emit
  <2>4. (NeedsQuestion' => NeedsQuestion) /\ (NeedsAnswer' => NeedsAnswer)
    BY <2>1, <2>2, <2>3 DEF Sends, NeedsQuestion, NeedsAnswer
  <2>5. QED
    BY <1>15, <2>1, <2>3, <2>4, RowsIdle DEF Sends, SendEvent, page, Stored
<1>16. CASE Break \/ Restart
  <2>1. UNCHANGED <<harmful, page, turn, deltas, messages>> /\ (DonePending' => DonePending)
        /\ pc' \in {pc, "closed"}
    BY <1>16, DoneMoves DEF Break, Restart, server
  <2>2. CASE pc' = pc
    BY <1>1, <2>1, <2>2 DEF page
  <2>3. CASE pc' = "closed"
    <3>1. (NeedsQuestion' => NeedsQuestion) /\ (NeedsAnswer' => NeedsAnswer)
      BY <2>1, <2>3 DEF NeedsQuestion, NeedsAnswer
    <3>2. QED
      BY <2>1, <2>3, <3>1, RowsIdle DEF page, Stored
  <2>4. QED
    BY <2>1, <2>2, <2>3
<1>17. CASE Accept \/ FindSession \/ Refuse
  <2>1. /\ UNCHANGED <<harmful, page, turn, deltas, messages>> /\ ~DonePending'
        /\ pc' \in {"find", "receive", "closed"}
    BY <1>17, DoneMoves DEF Accept, FindSession, Refuse, Raise, ControlInv
  <2>2. ~NeedsQuestion' /\ ~NeedsAnswer'
    BY <2>1 DEF NeedsQuestion, NeedsAnswer
  <2>3. QED
    BY <2>1, <2>2, RowsIdle DEF page, Stored
<1>18. CASE UNCHANGED vars
  BY <1>1, <1>18 DEF vars, page, wire, server, DonePending
<1>19. QED
  BY <1>2, <1>3, <1>4, <1>6, <1>8, <1>9, <1>10, <1>11, <1>12, <1>13, <1>14, <1>15, <1>16, <1>17, <1>18
     DEF Next, ServerStep

-----------------------------------------------------------------------------
(* What is on its way. *)

\* The head of what is on its way is handled.
LEMMA HeadHandled ==
  ASSUME toPage \in Seq(Event), toPage # <<>>, toPage' = Tail(toPage),
         NEW s \in {0, 1}, NEW n \in Nat, OnItsWay(s, n)
  PROVE  /\ s = 1 => toPage[1].type = "start" /\ OnItsWay(0, n)'
         /\ s = 0 /\ n > 0 => toPage[1].type = "token" /\ OnItsWay(0, n - 1)'
         /\ s = 0 /\ n = 0 => toPage[1].type \notin {"start", "token"} /\ OnItsWay(0, 0)'
<1>1. /\ DOMAIN toPage = 1 .. Len(toPage) /\ Len(toPage) \in Nat /\ Len(toPage) > 0
      /\ Len(toPage') = Len(toPage) - 1 /\ DOMAIN toPage' = 1 .. Len(toPage) - 1
      /\ \A i \in DOMAIN toPage' : toPage'[i] = toPage[i + 1]
  BY TailFacts
<1>2. CASE s = 1
  BY <1>1, <1>2 DEF OnItsWay
<1>3. CASE s = 0 /\ n > 0
  BY <1>1, <1>3 DEF OnItsWay
<1>4. CASE s = 0 /\ n = 0
  BY <1>1, <1>4 DEF OnItsWay
<1>5. QED
  BY <1>2, <1>3, <1>4

\* An event is sent behind what is on its way.
LEMMA EventSent ==
  ASSUME toPage \in Seq(Event), NEW e \in Event, toPage' = Append(toPage, e),
         NEW s \in {0, 1}, NEW n \in Nat, OnItsWay(s, n)
  PROVE  /\ e.type \notin {"start", "token"} => OnItsWay(s, n)'
         /\ e.type = "token" /\ Len(toPage) = s + n => OnItsWay(s, n + 1)'
<1>1. /\ DOMAIN toPage = 1 .. Len(toPage) /\ Len(toPage) \in Nat
      /\ Len(toPage') = Len(toPage) + 1 /\ DOMAIN toPage' = 1 .. Len(toPage) + 1
      /\ \A i \in DOMAIN toPage : toPage'[i] = toPage[i]
      /\ toPage'[Len(toPage) + 1] = e
  BY AppendFacts
<1>2. ASSUME e.type \notin {"start", "token"} PROVE OnItsWay(s, n)'
  BY <1>1, <1>2 DEF OnItsWay
<1>3. ASSUME e.type = "token", Len(toPage) = s + n PROVE OnItsWay(s, n + 1)'
  BY <1>1, <1>3 DEF OnItsWay
<1>4. QED
  BY <1>2, <1>3

\* Where "done" or "error" is handled nothing but "close" is behind it.
LEMMA EndHandled ==
  ASSUME TypeOK, Served, OnDone \/ OnError
  PROVE  ~DonePending' /\ (link => toPage' = <<>> /\ pc \in {"receive", "closed"})
<1>1. /\ toPage # <<>> /\ 1 \in DOMAIN toPage /\ toPage[1].type \in {"done", "error"}
      /\ toPage' = Tail(toPage) /\ toPage \in Seq(Event)
  BY TailFacts DEF OnDone, OnError, Handle, TypeOK
<1>2. /\ DOMAIN toPage = 1 .. Len(toPage) /\ Len(toPage) \in Nat
      /\ toPage' \in Seq(Event)
      /\ Len(toPage') = Len(toPage) - 1 /\ DOMAIN toPage' = 1 .. Len(toPage) - 1
      /\ \A i \in DOMAIN toPage' : toPage'[i] = toPage[i + 1]
  BY <1>1, TailFacts
<1>3. /\ pc \in {"receive", "closed"}
      /\ 1 < Len(toPage) => Len(toPage) = 2 /\ toPage[2].type = "close" /\ ~link
  BY <1>1, <1>2 DEF Served, EndsTurn
<1>4. ~DonePending'
  BY <1>2, <1>3 DEF DonePending
<1>5. link => toPage' = <<>>
  BY <1>1, <1>2, <1>3
<1>6. QED
  BY <1>3, <1>4, <1>5

\* Of any other event the rest is as it was.
LEMMA RestEnds ==
  ASSUME TypeOK, EndsTurn, toPage # <<>>, toPage' = Tail(toPage), UNCHANGED <<pc, turn, link>>,
         toPage[1].type \notin {"done", "error"}
  PROVE  EndsTurn'
<1>1. /\ DOMAIN toPage = 1 .. Len(toPage) /\ Len(toPage) \in Nat
      /\ Len(toPage') = Len(toPage) - 1 /\ DOMAIN toPage' = 1 .. Len(toPage) - 1
      /\ \A i \in DOMAIN toPage' : toPage'[i] = toPage[i + 1] /\ i + 1 \in DOMAIN toPage
  BY TailFacts DEF TypeOK
<1>2. (\A i \in DOMAIN toPage :
         /\ toPage[i].type # "close" => toPage[i].turn = turn
         /\ toPage[i].type \in {"done", "error"} =>
              /\ pc \in {"receive", "closed"}
              /\ i < Len(toPage) => i + 1 = Len(toPage) /\ toPage[i + 1].type = "close"
         /\ toPage[i].type = "close" => i = Len(toPage) /\ ~link)'
  <2>1. ASSUME NEW i \in DOMAIN toPage'
        PROVE  /\ toPage'[i].type # "close" => toPage'[i].turn = turn
               /\ toPage'[i].type \in {"done", "error"} =>
                    /\ pc \in {"receive", "closed"}
                    /\ i < Len(toPage') => i + 1 = Len(toPage') /\ toPage'[i + 1].type = "close"
               /\ toPage'[i].type = "close" => i = Len(toPage') /\ ~link
    <3> DEFINE j == i + 1
    <3>1. j \in DOMAIN toPage /\ toPage'[i] = toPage[j] /\ j \in Nat /\ i \in 1 .. Len(toPage) - 1
      BY <1>1
    <3>2. /\ toPage[j].type # "close" => toPage[j].turn = turn
          /\ toPage[j].type \in {"done", "error"} =>
               /\ pc \in {"receive", "closed"}
               /\ j < Len(toPage) => j + 1 = Len(toPage) /\ toPage[j + 1].type = "close"
          /\ toPage[j].type = "close" => j = Len(toPage) /\ ~link
      BY <3>1 DEF EndsTurn
    <3>3. i < Len(toPage') => i + 1 \in DOMAIN toPage' /\ toPage'[i + 1] = toPage[j + 1]
      BY <1>1, <3>1
    <3>4. QED
      BY <1>1, <3>1, <3>2, <3>3
  <2>2. QED
    BY <2>1
<1>3. (pc = "flow" => \A i \in DOMAIN toPage : toPage[i].type \in {"start", "token"})'
  BY <1>1 DEF EndsTurn
<1>4. (pc = "receive" => \E i \in DOMAIN toPage : toPage[i].type \in {"done", "error"})'
  <2>1. ASSUME pc = "receive" PROVE \E i \in DOMAIN toPage' : toPage'[i].type \in {"done", "error"}
    <3>1. PICK i \in DOMAIN toPage : toPage[i].type \in {"done", "error"}
      BY <2>1 DEF EndsTurn
    <3>2. i # 1 /\ i - 1 \in DOMAIN toPage' /\ toPage'[i - 1] = toPage[i]
      BY <1>1, <3>1
    <3>3. QED
      BY <3>1, <3>2
  <2>2. QED
    BY <2>1
<1>5. QED
  BY <1>2, <1>3, <1>4 DEF EndsTurn

\* An event of the turn is sent on a connection that carries it.
LEMMA NextEnds ==
  ASSUME TypeOK, EndsTurn, link, UNCHANGED <<turn, link>>, pc \notin {"receive", "closed"},
         NEW e \in Event, toPage' = Append(toPage, e), e.turn = turn, e.type # "close",
         e.type \in {"done", "error"} <=> pc' = "receive", pc' # "closed",
         pc' = "flow" => e.type \in {"start", "token"} /\ (pc = "flow" \/ toPage = <<>>)
  PROVE  EndsTurn'
<1>1. /\ DOMAIN toPage = 1 .. Len(toPage) /\ Len(toPage) \in Nat
      /\ Len(toPage') = Len(toPage) + 1 /\ DOMAIN toPage' = 1 .. Len(toPage) + 1
      /\ \A i \in DOMAIN toPage : toPage'[i] = toPage[i]
      /\ toPage'[Len(toPage) + 1] = e
  BY AppendFacts DEF TypeOK
<1>2. \A i \in DOMAIN toPage : /\ toPage[i].type \notin {"done", "error", "close"}
                               /\ toPage[i].turn = turn
  BY DEF EndsTurn
<1>3. \A i \in DOMAIN toPage' :
        \/ i \in DOMAIN toPage
        \/ i = Len(toPage') /\ toPage'[i] = e
  BY <1>1
<1>4. (\A i \in DOMAIN toPage :
         /\ toPage[i].type # "close" => toPage[i].turn = turn
         /\ toPage[i].type \in {"done", "error"} =>
              /\ pc \in {"receive", "closed"}
              /\ i < Len(toPage) => i + 1 = Len(toPage) /\ toPage[i + 1].type = "close"
         /\ toPage[i].type = "close" => i = Len(toPage) /\ ~link)'
  BY <1>1, <1>2, <1>3
<1>5. (pc = "flow" => \A i \in DOMAIN toPage : toPage[i].type \in {"start", "token"})'
  BY <1>1, <1>3 DEF EndsTurn
<1>6. (pc = "receive" => \E i \in DOMAIN toPage : toPage[i].type \in {"done", "error"})'
  BY <1>1
<1>7. QED
  BY <1>4, <1>5, <1>6 DEF EndsTurn

\* A connection that breaks loses the "done", or nothing of the turn.
LEMMA CutKeepsAll ==
  ASSUME ChatInv, Cut, DonePending'
  PROVE  /\ DonePending /\ Served
         /\ toPage' = Append(toPage, [type |-> "close", turn |-> 0])
<1> DEFINE close == [type |-> "close", turn |-> 0]
<1>1. close \in Event /\ toPage \in Seq(Event)
  BY ChatAssumption DEF Event, ChatInv, TypeOK
<1>2. DonePending /\ Served
  BY DoneMoves, TurnIsSent DEF ChatInv
<1>3. PICK n \in 0 .. Len(toPage) : toPage' = Append(SubSeq(toPage, 1, n), close)
  BY DEF Cut
<1>4. /\ DOMAIN toPage' = 1 .. n + 1 /\ \A i \in 1 .. n : toPage'[i] = toPage[i]
      /\ toPage'[n + 1] = close
  BY <1>1, <1>3, CutFacts
<1>5. PICK i \in 1 .. n + 1 : toPage'[i].type = "done"
  BY <1>4 DEF DonePending
<1>6. i \in 1 .. n /\ toPage[i].type = "done" /\ i \in DOMAIN toPage
  BY <1>1, <1>4, <1>5
<1>7. DOMAIN toPage = 1 .. Len(toPage) /\ Len(toPage) \in Nat
  BY <1>1
<1>8. ~(i < Len(toPage))
  <2>1. SUFFICES ASSUME i < Len(toPage) PROVE FALSE
    OBVIOUS
  <2>2. toPage[Len(toPage)].type = "close" /\ Len(toPage) \in DOMAIN toPage
    BY <1>2, <1>6, <1>7, <2>1 DEF Served, EndsTurn
  <2>3. ~link
    BY <1>2, <2>2 DEF Served, EndsTurn
  <2>4. QED
    BY <2>3 DEF Cut
<1>9. n = Len(toPage)
  BY <1>6, <1>7, <1>8
<1>10. SubSeq(toPage, 1, n) = toPage
  BY <1>1, <1>9
<1>11. QED
  BY <1>2, <1>3, <1>10

\* The bubble of an answer is opened below its question.
LEMMA AnswerOpens ==
  ASSUME TypeOK, NEW t, QuestionShown(t),
         bubbles' = Append(bubbles, [who |-> "answer", parts |-> <<>>, pending |-> TRUE])
  PROVE  AnswerShown(t, 0)'
<1>1. [who |-> "answer", parts |-> <<>>, pending |-> TRUE] \in Bubble
  BY DEF Bubble
<1>2. /\ bubbles \in Seq(Bubble) /\ Len(bubbles) \in Nat /\ Len(bubbles) > 0
      /\ Len(bubbles') = Len(bubbles) + 1
      /\ bubbles'[Len(bubbles)] = Last(bubbles)
      /\ Last(bubbles') = [who |-> "answer", parts |-> <<>>, pending |-> TRUE]
  BY <1>1, AppendFacts, SeqIsFunction DEF TypeOK, QuestionShown, Last
<1>3. [k \in 1 .. 0 |-> t] = <<>>
  OBVIOUS
<1>4. QED
  BY <1>2, <1>3 DEF QuestionShown, AnswerShown

\* A token is added to it.
LEMMA AnswerGrows ==
  ASSUME TypeOK, NEW t \in 0 .. MaxTurns, NEW n \in Nat, AnswerShown(t, n),
         NEW b \in Bubble, b.who = "answer", b.pending,
         b.parts = Append(bubbles[Len(bubbles)].parts, t),
         bubbles' = [bubbles EXCEPT ![Len(bubbles)] = b]
  PROVE  AnswerShown(t, n + 1)'
<1>1. bubbles \in Seq(Bubble) /\ Len(bubbles) \in Nat /\ Len(bubbles) > 1
  BY DEF TypeOK, AnswerShown
<1>2. bubbles[Len(bubbles)].parts = [k \in 1 .. n |-> t]
  BY DEF AnswerShown, Last
<1>3. b.parts = [k \in 1 .. n + 1 |-> t]
  BY <1>2, Repeated
<1>4. b = [who |-> "answer", parts |-> [k \in 1 .. n + 1 |-> t], pending |-> TRUE]
  BY <1>3 DEF Bubble
<1>5. /\ Len(bubbles') = Len(bubbles) /\ bubbles'[Len(bubbles) - 1] = bubbles[Len(bubbles) - 1]
      /\ bubbles'[Len(bubbles)] = b
  BY <1>1, LastReplaced
<1>6. QED
  BY <1>1, <1>4, <1>5 DEF AnswerShown, Last

-----------------------------------------------------------------------------
(* Every step keeps StreamInv. *)

\* With the connection broken and "done" not on its way, all is said.
LEMMA Lost ==
  ASSUME ~link', ~DonePending', toServer' = <<>>
  PROVE  StreamInv'
  BY DEF StreamInv

\* The server goes on while the page sees nothing of it.
LEMMA ServedOn ==
  ASSUME TypeOK, Served, link, UNCHANGED <<harmful, page, wire, turn, deltas>>,
         pc \notin {"invalid", "receive", "closed"},
         pc' \notin {"invalid", "receive", "closed", "flow"},
         pc \in {"store_question", "read", "start"} <=> pc' \in {"store_question", "read", "start"}
  PROVE  StreamInv'
<1>1. UNCHANGED <<harmful, bubbles, streaming, sent, link, toServer, toPage, turn, deltas>>
  BY DEF page, wire
<1>2. EndsTurn'
  BY <1>1 DEF Served, EndsTurn
<1>3. AnswerFlows => AnswerFlows'
  <2>1. QuestionShown(turn) => QuestionShown(turn)'
    BY <1>1 DEF QuestionShown
  <2>2. ASSUME NEW n PROVE AnswerShown(turn, n) => AnswerShown(turn, n)'
    BY <1>1 DEF AnswerShown
  <2>3. ASSUME NEW s, NEW n PROVE OnItsWay(s, n) => OnItsWay(s, n)'
    BY <1>1 DEF OnItsWay
  <2>4. CASE pc \in {"store_question", "read", "start"}
    BY <1>1, <2>1, <2>4 DEF AnswerFlows
  <2>5. CASE pc \notin {"store_question", "read", "start"}
    <3>1. OnItsWay(1, deltas) /\ QuestionShown(turn) => AnswerFlows'
      BY <1>1, <2>1, <2>3, <2>5 DEF AnswerFlows
    <3>2. ASSUME NEW n \in 0 .. deltas, OnItsWay(0, deltas - n), AnswerShown(turn, n)
          PROVE  AnswerFlows'
      <4>1. OnItsWay(0, deltas - n)' /\ AnswerShown(turn, n)'
        BY <1>1, <2>2, <2>3, <3>2
      <4>2. QED
        BY <1>1, <2>5, <4>1 DEF AnswerFlows
    <3>3. QED
      BY <2>5, <3>1, <3>2 DEF AnswerFlows
  <2>6. QED
    BY <2>4, <2>5
<1>4. Served'
  BY <1>1, <1>2, <1>3 DEF Served, Dismissed
<1>5. QED
  BY <1>1, <1>4 DEF StreamInv, Served

\* An event that is no part of an answer is sent behind it.
LEMMA FlowsBehind ==
  ASSUME TypeOK, AnswerFlows, UNCHANGED <<bubbles, turn, deltas>>,
         NEW e \in Event, e.type \notin {"start", "token"}, toPage' = Append(toPage, e),
         pc \notin {"store_question", "read", "start"},
         pc' \notin {"store_question", "read", "start"}
  PROVE  AnswerFlows'
<1>1. toPage \in Seq(Event) /\ deltas \in Nat
  BY ChatAssumption DEF TypeOK
<1>2. CASE OnItsWay(1, deltas) /\ QuestionShown(turn)
  <2>1. OnItsWay(1, deltas)' /\ QuestionShown(turn)'
    BY <1>1, <1>2, EventSent DEF QuestionShown
  <2>2. QED
    BY <2>1 DEF AnswerFlows
<1>3. ASSUME NEW n \in 0 .. deltas, OnItsWay(0, deltas - n), AnswerShown(turn, n)
      PROVE  AnswerFlows'
  <2>1. deltas - n \in Nat
    BY <1>1
  <2>2. OnItsWay(0, deltas - n)'
    BY <1>1, <1>3, <2>1, EventSent
  <2>3. AnswerShown(turn, n)'
    BY <1>3 DEF AnswerShown
  <2>4. QED
    BY <2>2, <2>3 DEF AnswerFlows
<1>4. QED
  BY <1>2, <1>3 DEF AnswerFlows

\* The page connects, and its connection is accepted or refused.
LEMMA StreamConnect ==
  ASSUME ChatInv, Connect \/ Accept \/ FindSession \/ Refuse
  PROVE  StreamInv'
<1> TypeOK /\ ControlInv /\ StreamInv
  BY DEF ChatInv
<1>1. CASE Connect
  BY <1>1 DEF Connect, wire, server, StreamInv, DonePending, Resting, Asked, Served, Dismissed,
              EndsTurn, AnswerFlows, OnItsWay, QuestionShown, AnswerShown
<1>2. CASE Accept
  <2>1. ~streaming /\ ~link /\ toServer = <<>>
    BY <1>2 DEF Accept, ControlInv, StreamInv
  <2>2. Resting'
    BY <1>2, <2>1 DEF Accept, page, Resting
  <2>3. QED
    BY <1>2, <2>2 DEF Accept, StreamInv
<1>3. CASE FindSession /\ pc' = "receive"
  <2>1. pc = "find" /\ ~DonePending /\ UNCHANGED <<page, wire, turn>>
    BY <1>3 DEF FindSession, Raise, ControlInv
  <2>2. ~Served
    <3>1. turn = 0
      BY <2>1 DEF ControlInv
    <3>2. QED
      BY <3>1 DEF Served, Turn
  <2>3. link => Resting' \/ Asked'
    BY <1>3, <2>1, <2>2 DEF StreamInv, Resting, Asked, QuestionShown, page, wire
  <2>4. QED
    BY <2>1, <2>3 DEF StreamInv, DonePending, page, wire
<1>4. CASE Refuse \/ (FindSession /\ pc' # "receive")
  <2>1. ~DonePending'
    BY <1>4, DoneMoves DEF FindSession, ControlInv
  <2>2. ~link' /\ toServer' = <<>>
    BY <1>4 DEF Refuse, FindSession, Raise, ControlInv, StreamInv
  <2>3. QED
    BY <2>1, <2>2, Lost
<1>5. QED
  BY <1>1, <1>2, <1>3, <1>4

\* The user asks.
LEMMA StreamSend == ASSUME ChatInv, Send PROVE StreamInv'
<1>1. UNCHANGED <<link, toPage, pc, turn, socket>> /\ ~streaming
  BY DEF Send, server
<1>2. ~Asked /\ ~Served /\ TypeOK
  BY <1>1 DEF Asked, Served, ChatInv
<1>3. CASE link /\ socket = "connecting"
  <2>1. Resting
    BY <1>2, <1>3 DEF ChatInv, StreamInv
  <2>2. Resting'
    BY <1>1, <1>3, <2>1 DEF Send, Resting
  <2>3. QED
    BY <1>1, <1>3, <2>2 DEF StreamInv
<1>4. CASE link /\ socket # "connecting"
  <2>1. Resting /\ toPage = <<>>
    BY <1>2, <1>4 DEF ChatInv, StreamInv, Resting
  <2>2. toServer' = <<sent'>> /\ streaming' /\ turn < sent'
    <3>1. turn \in 0 .. sent /\ sent \in Nat
      BY <1>2, ChatAssumption DEF TypeOK
    <3>2. sent' = sent + 1 /\ toServer' = <<sent'>> /\ streaming'
      BY <1>4, <2>1 DEF Send, Resting
    <3>3. QED
      BY <3>1, <3>2
  <2>3. QuestionShown(sent)'
    <3>1. [who |-> "user", parts |-> <<sent'>>, pending |-> FALSE] \in Bubble
      BY <1>2, ChatAssumption DEF Send, TypeOK, Bubble
    <3>2. QED
      BY <1>2, <3>1, AppendFacts DEF Send, TypeOK, QuestionShown
  <2>4. Asked'
    BY <1>1, <2>1, <2>2, <2>3 DEF Asked, Resting
  <2>5. QED
    BY <1>1, <1>4, <2>4 DEF StreamInv
<1>5. CASE ~link
  <2>1. ~DonePending /\ toServer = <<>>
    BY <1>2, <1>5 DEF ChatInv, StreamInv, Resting, DonePending
  <2>2. QED
    BY <1>1, <1>5, <2>1, Lost DEF Send, DonePending
<1>6. QED
  BY <1>3, <1>4, <1>5

\* The page handles what arrives.
LEMMA StreamPage == ASSUME ChatInv, PageStep PROVE StreamInv'
<1> TypeOK
  BY DEF ChatInv
<1>1. /\ UNCHANGED <<harmful, sent, link, toServer, pc, turn, deltas>>
      /\ toPage # <<>> /\ toPage' = Tail(toPage) /\ toPage \in Seq(Event)
      /\ Head(toPage) = toPage[1] /\ 1 \in DOMAIN toPage
      /\ toPage[1].turn \in 0 .. MaxTurns
  <2>1. /\ UNCHANGED <<harmful, sent, link, toServer, pc, turn, deltas>>
        /\ toPage # <<>> /\ toPage' = Tail(toPage) /\ toPage \in Seq(Event)
    BY DEF PageStep, OnOpen, OnStart, OnToken, OnDone, OnError, OnClose, Ignored, Handle, server, TypeOK
  <2>2. Head(toPage) = toPage[1] /\ 1 \in DOMAIN toPage /\ toPage[1] \in Event
    BY <2>1, TailFacts
  <2>3. QED
    BY <2>1, <2>2 DEF Event
<1>2. ~DonePending => ~DonePending'
  BY DoneMoves DEF PageStep, OnOpen, OnStart, OnToken, OnDone, OnError, OnClose, Ignored
<1>3. CASE ~link /\ ~DonePending
  BY <1>1, <1>2, <1>3, Lost DEF ChatInv, StreamInv
<1>4. CASE link /\ Resting
  <2>1. toPage = <<[type |-> "open", turn |-> 0]>>
    BY <1>1, <1>4 DEF Resting
  <2>2. toPage[1].type = "open" /\ toPage' = <<>>
    BY <1>1, <2>1
  <2>3. OnOpen
    BY <1>1, <2>2 DEF PageStep, OnStart, OnToken, OnDone, OnError, OnClose, Ignored, Handle
  <2>4. Resting'
    BY <1>1, <1>4, <2>2, <2>3 DEF OnOpen, Resting
  <2>5. QED
    BY <1>1, <1>4, <2>4 DEF StreamInv
<1>5. CASE (link /\ ~Resting) \/ DonePending
  <2>1. Served
    BY <1>1, <1>5, TurnIsSent DEF ChatInv, StreamInv, Asked
  <2> turn \in 0 .. MaxTurns /\ deltas \in Nat /\ streaming /\ toServer = <<>> /\ turn = sent
      /\ turn \in Turn /\ EndsTurn
    BY <2>1, ChatAssumption DEF Served, Turn, TypeOK
  <2>2. ASSUME toPage[1].type \notin {"done", "error", "close"}, streaming' = streaming,
               turn \notin harmful => AnswerFlows'
        PROVE  StreamInv'
    <3>1. EndsTurn'
      BY <1>1, <2>2, RestEnds
    <3>2. ~Dismissed
      BY <1>1, <2>2 DEF Dismissed
    <3>3. turn \in harmful =>
            \A i \in DOMAIN toPage' : toPage'[i].type \notin {"start", "token", "error"}
      BY <1>1, <2>1, <3>2, TailFacts DEF Served
    <3>4. Served'
      BY <1>1, <2>1, <2>2, <3>1, <3>2, <3>3 DEF Served
    <3>5. QED
      BY <1>1, <3>4 DEF StreamInv, Served
  <2>3. turn \notin harmful /\ toPage[1].type \notin {"error", "close"} =>
          \/ toPage[1].type = "start" /\ OnItsWay(0, deltas)' /\ QuestionShown(turn)
             /\ pc \notin {"store_question", "read", "start"}
          \/ /\ pc \notin {"store_question", "read", "start"}
             /\ \E n \in 0 .. deltas :
                  /\ AnswerShown(turn, n)
                  /\ \/ n < deltas /\ toPage[1].type = "token" /\ OnItsWay(0, deltas - (n + 1))'
                     \/ n = deltas /\ toPage[1].type \notin {"start", "token"} /\ OnItsWay(0, 0)'
    <3> ~Dismissed \/ toPage[1].type \in {"error", "close"}
      BY <1>1 DEF Dismissed
    <3> SUFFICES ASSUME turn \notin harmful, toPage[1].type \notin {"error", "close"}
                 PROVE  \/ toPage[1].type = "start" /\ OnItsWay(0, deltas)' /\ QuestionShown(turn)
                        \/ \E n \in 0 .. deltas :
                             /\ AnswerShown(turn, n)
                             /\ \/ n < deltas /\ toPage[1].type = "token"
                                   /\ OnItsWay(0, deltas - (n + 1))'
                                \/ n = deltas /\ toPage[1].type \notin {"start", "token"}
                                   /\ OnItsWay(0, 0)'
      BY <1>1, <2>1 DEF Served, AnswerFlows
    <3>1. CASE OnItsWay(1, deltas) /\ QuestionShown(turn)
      BY <1>1, <3>1, HeadHandled
    <3>2. ASSUME NEW n \in 0 .. deltas, OnItsWay(0, deltas - n), AnswerShown(turn, n)
          PROVE  /\ AnswerShown(turn, n)
                 /\ \/ n < deltas /\ toPage[1].type = "token" /\ OnItsWay(0, deltas - (n + 1))'
                    \/ n = deltas /\ toPage[1].type \notin {"start", "token"} /\ OnItsWay(0, 0)'
      <4>1. PICK k \in Nat : /\ k = deltas - n /\ (k > 0 <=> n < deltas)
                             /\ (k = 0 <=> n = deltas) /\ k - 1 = deltas - (n + 1)
        OBVIOUS
      <4>2. OnItsWay(0, k)
        BY <3>2, <4>1
      <4>3. /\ k > 0 => toPage[1].type = "token" /\ OnItsWay(0, k - 1)'
            /\ k = 0 => toPage[1].type \notin {"start", "token"} /\ OnItsWay(0, 0)'
        BY <1>1, <4>1, <4>2, HeadHandled
      <4>4. QED
        BY <1>1, <3>2, <4>1, <4>3
    <3>3. QED
      BY <1>1, <2>1, <3>1, <3>2 DEF Served, AnswerFlows
  <2>4. CASE OnStart
    <3>1. toPage[1].type = "start"
      BY <1>1, <2>4 DEF OnStart, Handle
    <3>2. ASSUME turn \notin harmful PROVE AnswerFlows'
      <4>1. OnItsWay(0, deltas)' /\ QuestionShown(turn) /\ pc \notin {"store_question", "read", "start"}
        BY <2>3, <3>1, <3>2
      <4>2. AnswerShown(turn, 0)'
        BY <1>1, <2>4, <4>1, AnswerOpens DEF OnStart
      <4>3. 0 \in 0 .. deltas /\ deltas - 0 = deltas
        OBVIOUS
      <4>4. QED
        BY <1>1, <4>1, <4>2, <4>3 DEF AnswerFlows
    <3>3. QED
      BY <2>2, <2>4, <3>1, <3>2 DEF OnStart
  <2>5. CASE OnToken
    <3>1. toPage[1].type = "token"
      BY <1>1, <2>5 DEF OnToken, Handle
    <3>2. ASSUME turn \notin harmful PROVE AnswerFlows'
      <4>1. PICK n \in 0 .. deltas : AnswerShown(turn, n) /\ n < deltas
                                     /\ OnItsWay(0, deltas - (n + 1))'
        BY <2>3, <3>1, <3>2
      <4>2. AnswerShown(turn, n + 1)'
        <5> DEFINE b == [Last(bubbles) EXCEPT !.parts = Append(@, turn)]
        <5>1. bubbles \in Seq(Bubble) /\ bubbles # <<>> /\ Last(bubbles) \in Bubble
              /\ Last(bubbles) = bubbles[Len(bubbles)] /\ Last(bubbles).pending
              /\ Last(bubbles).who = "answer"
          BY <4>1, SeqIsFunction DEF TypeOK, AnswerShown, Last
        <5>3. b \in Bubble /\ b.who = "answer" /\ b.pending
              /\ b.parts = Append(bubbles[Len(bubbles)].parts, turn)
          BY <5>1, BubbleGrows
        <5>4. toPage[1].turn = turn
          BY <1>1, <3>1 DEF EndsTurn
        <5>5. bubbles' = [bubbles EXCEPT ![Len(bubbles)] = b]
          BY <1>1, <2>5, <5>1, <5>4 DEF OnToken
        <5> HIDE DEF b
        <5>6. PICK t \in 0 .. MaxTurns, c \in Bubble :
                t = turn /\ c = b /\ AnswerShown(t, n)
          BY <4>1, <5>3
        <5>7. AnswerShown(t, n + 1)'
          <6>1. c.who = "answer" /\ c.pending /\ c.parts = Append(bubbles[Len(bubbles)].parts, t)
                /\ bubbles' = [bubbles EXCEPT ![Len(bubbles)] = c]
            BY <5>3, <5>5, <5>6
          <6>2. n \in Nat
            BY <4>1
          <6>3. QED
            BY <5>6, <6>1, <6>2, AnswerGrows
        <5>8. QED
          BY <1>1, <5>6, <5>7
      <4>3. n + 1 \in 0 .. deltas
        BY <4>1
      <4>4. QED
        BY <1>1, <2>3, <3>1, <3>2, <4>1, <4>2, <4>3 DEF AnswerFlows
    <3>3. QED
      BY <2>2, <2>5, <3>1, <3>2 DEF OnToken
  <2>6. CASE OnDone \/ OnError
    <3>1. ~DonePending' /\ (link => toPage' = <<>> /\ pc \in {"receive", "closed"})
      BY <2>1, <2>6, EndHandled
    <3>2. CASE link
      <4>1. pc = "receive" /\ ~streaming'
        BY <2>6, <3>1, <3>2 DEF OnDone, OnError, ChatInv, ControlInv
      <4>2. QED
        BY <1>1, <3>1, <3>2, <4>1 DEF StreamInv, Resting
    <3>3. CASE ~link
      BY <1>1, <3>1, <3>3, Lost
    <3>4. QED
      BY <3>2, <3>3
  <2>7. CASE OnClose
    <3>1. toPage[1].type = "close"
      BY <1>1, <2>7 DEF OnClose, Handle
    <3>2. 1 = Len(toPage) /\ ~link
      BY <1>1, <3>1 DEF EndsTurn
    <3>3. ~DonePending
      BY <1>1, <3>1, <3>2 DEF DonePending
    <3>4. QED
      BY <1>3, <3>2, <3>3
  <2>8. CASE OnOpen \/ Ignored
    <3>1. toPage[1].type \in {"open", "refusal", "revised", "scorecard", "scorecard_error"}
      BY <1>1, <2>8 DEF OnOpen, Ignored, Handle
    <3>2. ASSUME turn \notin harmful PROVE AnswerFlows'
      <4>1. OnItsWay(0, 0)' /\ AnswerShown(turn, deltas) /\ pc \notin {"store_question", "read", "start"}
        BY <2>3, <3>1, <3>2
      <4>2. AnswerShown(turn, deltas)'
        BY <1>1, <2>8, <4>1 DEF OnOpen, Ignored, AnswerShown
      <4>3. deltas \in 0 .. deltas /\ deltas - deltas = 0
        OBVIOUS
      <4>4. QED
        BY <1>1, <4>1, <4>2, <4>3 DEF AnswerFlows
    <3>3. QED
      BY <2>2, <2>8, <3>1, <3>2 DEF OnOpen, Ignored
  <2>9. QED
    BY <2>4, <2>5, <2>6, <2>7, <2>8 DEF PageStep
<1>6. QED
  BY <1>3, <1>4, <1>5

\* The server takes the next question, or ends its loop.
LEMMA StreamReceive == ASSUME ChatInv, Receive PROVE StreamInv'
<1>1. UNCHANGED <<harmful, bubbles, streaming, sent, link, toPage>> /\ pc = "receive"
  BY DEF Receive, page
<1>2. CASE toServer # <<>> /\ turn' = Head(toServer) /\ toServer' = Tail(toServer)
  <2>1. Asked /\ link /\ turn' = sent /\ toServer' = <<>> /\ sent \in Turn
    <3>1. Asked /\ link /\ toServer = <<sent>> /\ toServer \in Seq(Turn)
      BY <1>2, TurnIsSent DEF Asked, ChatInv, TypeOK
    <3>2. Head(toServer) = sent /\ Tail(toServer) = <<>> /\ sent \in Turn
      BY <3>1
    <3>3. QED
      BY <1>2, <3>1, <3>2
  <2>2. /\ toPage' = <<>>
        /\ \/ pc' = "invalid"
           \/ turn' \in harmful /\ pc' = "store_refusal"
           \/ turn' \notin harmful /\ pc' = "store_question"
    BY <1>1, <2>1 DEF Receive, Asked
  <2>3. EndsTurn'
    BY <2>2 DEF EndsTurn
  <2>4. QuestionShown(turn)'
    BY <1>1, <2>1 DEF Asked, QuestionShown
  <2>5. \/ Dismissed'
        \/ /\ pc' # "invalid"
           /\ IF turn' \in harmful'
              THEN \A i \in DOMAIN toPage' : toPage'[i].type \notin {"start", "token", "error"}
              ELSE AnswerFlows'
    BY <1>1, <2>2, <2>4 DEF AnswerFlows, Dismissed
  <2>6. Served'
    BY <1>1, <2>1, <2>3, <2>5 DEF Served, Asked
  <2>7. QED
    BY <1>1, <2>1, <2>6 DEF StreamInv
<1>3. CASE ~link /\ pc' = "closed" /\ UNCHANGED <<turn, toServer, deltas>>
  <2>1. toServer' = <<>>
    BY <1>3 DEF ChatInv, StreamInv
  <2>2. CASE ~DonePending
    BY <1>1, <1>3, <2>1, <2>2, Lost DEF DonePending
  <2>3. CASE DonePending
    <3>1. Served /\ ~Dismissed
      BY <2>3, TurnIsSent DEF DonePending, Dismissed
    <3>2. EndsTurn'
      BY <1>1, <1>3, <3>1 DEF Served, EndsTurn
    <3>3. AnswerFlows => AnswerFlows'
      BY <1>1, <1>3 DEF AnswerFlows, OnItsWay, QuestionShown, AnswerShown
    <3>4. Served'
      BY <1>1, <1>3, <2>1, <3>1, <3>2, <3>3 DEF Served
    <3>5. QED
      BY <1>1, <1>3, <2>1, <3>4 DEF StreamInv
  <2>4. QED
    BY <2>2, <2>3
<1>4. QED
  BY <1>1, <1>2, <1>3 DEF Receive

\* An exception closes the socket in the middle of a turn.
LEMMA StreamRaise ==
  ASSUME ChatInv, Raise, pc \notin {"receive", "closed"}
  PROVE  StreamInv'
<1>1. ~DonePending'
  BY DoneMoves DEF ChatInv, ControlInv
<1>2. QED
  BY <1>1, Lost DEF Raise

\* What the server does between two sends.
LEMMA StreamQuiet ==
  ASSUME ChatInv,
         StoreRefusal \/ StoreQuestion \/ ReadContext \/ StreamEnds \/ StoreAnswer
           \/ Evaluate \/ Attach
  PROVE  StreamInv'
<1>1. pc \notin {"find", "invalid", "receive", "closed"}
  BY DEF StoreRefusal, StoreQuestion, ReadContext, StreamEnds, StoreAnswer, Evaluate, Attach
<1>2. CASE Raise
  BY <1>1, <1>2, StreamRaise
<1>3. CASE ~Raise
  <2>1. /\ UNCHANGED <<harmful, page, wire, turn, deltas>>
        /\ pc' \notin {"invalid", "receive", "closed", "flow"}
        /\ pc \in {"store_question", "read", "start"} <=> pc' \in {"store_question", "read", "start"}
    BY <1>3 DEF StoreRefusal, StoreQuestion, ReadContext, StreamEnds, StoreAnswer, Evaluate,
                Attach, Transaction
  <2>2. CASE link
    <3>1. Served
      BY <1>1, <2>2 DEF ChatInv, StreamInv, Resting, Asked
    <3>2. QED
      BY <1>1, <2>1, <2>2, <3>1, ServedOn DEF ChatInv
  <2>3. CASE ~link
    <3>1. ~DonePending' /\ toServer' = <<>> /\ ~link'
      BY <1>1, <2>1, <2>3 DEF ChatInv, ControlInv, StreamInv, wire, DonePending
    <3>2. QED
      BY <3>1, Lost
  <2>4. QED
    BY <2>2, <2>3
<1>4. QED
  BY <1>2, <1>3

\* A send on a broken connection.
LEMMA StreamDeaf ==
  ASSUME ChatInv, ~link, pc \notin {"receive", "closed"}, NEW type, NEW next, Emit(type, next)
  PROVE  StreamInv'
<1>1. ~DonePending /\ toServer = <<>>
  BY DEF ChatInv, ControlInv, StreamInv
<1>2. ~DonePending' /\ toServer' = <<>> /\ ~link'
  BY <1>1 DEF Emit, DonePending
<1>3. QED
  BY <1>2, Lost

\* A delta is streamed.
LEMMA StreamDelta == ASSUME ChatInv, Delta PROVE StreamInv'
<1> TypeOK
  BY DEF ChatInv
<1>1. pc = "flow" /\ deltas' = deltas + 1 /\ deltas \in Nat /\ Emit("token", "flow")
      /\ UNCHANGED <<harmful, bubbles, streaming, sent, turn>>
  BY ChatAssumption DEF Delta, page, TypeOK
<1>2. CASE ~link
  BY <1>1, <1>2, StreamDeaf
<1>3. CASE link
  <2> DEFINE e == [type |-> "token", turn |-> turn]
  <2>1. toPage' = Append(toPage, e) /\ pc' = "flow" /\ UNCHANGED <<link, toServer>>
    BY <1>1, <1>3 DEF Emit
  <2>2. Served /\ ~Dismissed /\ turn \notin harmful
    BY <1>1, <1>3 DEF ChatInv, StreamInv, ControlInv, Resting, Asked, Dismissed
  <2>3. e \in Event /\ e.turn = turn /\ e.type = "token"
    BY ChatAssumption DEF Event, TypeOK
  <2>4. toPage \in Seq(Event) /\ \A i \in DOMAIN toPage : toPage[i].type \in {"start", "token"}
    BY <1>1, <2>2 DEF TypeOK, Served, EndsTurn
  <2> HIDE DEF e
  <2>5. EndsTurn'
    BY <1>1, <1>3, <2>1, <2>2, <2>3, NextEnds DEF Served
  <2>6. ASSUME NEW s \in {0, 1}, NEW n \in Nat, OnItsWay(s, n) PROVE OnItsWay(s, n + 1)'
    <3>1. Len(toPage) = s + n
      BY <2>4, <2>6 DEF OnItsWay
    <3>2. QED
      BY <2>1, <2>3, <2>4, <2>6, <3>1, EventSent
  <2>7. CASE OnItsWay(1, deltas) /\ QuestionShown(turn)
    <3>1. PICK d \in Nat : d = deltas
      BY <1>1
    <3>2. OnItsWay(1, d + 1)'
      BY <2>6, <2>7, <3>1
    <3>3. QuestionShown(turn)'
      BY <1>1, <2>7 DEF QuestionShown
    <3>4. AnswerFlows'
      BY <1>1, <2>1, <3>1, <3>2, <3>3 DEF AnswerFlows
    <3>5. QED
      BY <1>1, <1>3, <2>1, <2>2, <2>5, <3>4 DEF StreamInv, Served
  <2>8. ASSUME NEW n \in 0 .. deltas, OnItsWay(0, deltas - n), AnswerShown(turn, n)
        PROVE  StreamInv'
    <3>1. PICK k \in Nat : k = deltas - n
      BY <1>1
    <3>2. OnItsWay(0, k + 1)'
      BY <2>6, <2>8, <3>1
    <3>3. AnswerShown(turn, n)'
      BY <1>1, <2>8 DEF AnswerShown
    <3>4. n \in 0 .. deltas' /\ deltas' - n = k + 1
      BY <1>1, <3>1
    <3>5. AnswerFlows'
      BY <2>1, <3>2, <3>3, <3>4 DEF AnswerFlows
    <3>6. QED
      BY <1>1, <1>3, <2>1, <2>2, <2>5, <3>5 DEF StreamInv, Served
  <2>9. QED
    BY <1>1, <2>2, <2>7, <2>8 DEF Served, AnswerFlows
<1>4. QED
  BY <1>2, <1>3

\* Any other event is sent.
LEMMA StreamEvent == ASSUME ChatInv, SendEvent PROVE StreamInv'
<1> TypeOK
  BY DEF ChatInv
<1>1. PICK type, next : Emit(type, next) /\ Sends(pc, type, next)
  BY SendEventSends
<1>2. pc \notin {"find", "receive", "closed"} /\ UNCHANGED <<harmful, bubbles, streaming, sent, turn, deltas>>
  BY <1>1 DEF Sends, SendEvent, page
<1>3. CASE ~link
  BY <1>1, <1>2, <1>3, StreamDeaf
<1>4. CASE link
  <2> DEFINE e == [type |-> type, turn |-> turn]
  <2>1. toPage' = Append(toPage, e) /\ pc' = next /\ UNCHANGED <<link, toServer>>
    BY <1>1, <1>4 DEF Emit
  <2>2. Served
    BY <1>2, <1>4 DEF ChatInv, StreamInv, Resting, Asked
  <2>3. e \in Event /\ e.turn = turn /\ e.type = type
    BY <1>1, ChatAssumption DEF Event, TypeOK, Sends
  <2>4. toPage \in Seq(Event)
    BY DEF TypeOK
  <2> HIDE DEF e
  <2>5. pc = "start" => toPage = <<>> /\ QuestionShown(turn) /\ deltas = 0 /\ turn \notin harmful
    BY <2>2 DEF Served, Dismissed, AnswerFlows, ChatInv, ControlInv
  <2>6. EndsTurn'
    BY <1>1, <1>2, <1>4, <2>1, <2>2, <2>3, <2>5, NextEnds DEF Served, Sends
  <2>7. ASSUME turn \in harmful, pc # "invalid"
        PROVE  \A i \in DOMAIN toPage' : toPage'[i].type \notin {"start", "token", "error"}
    <3>1. type \notin {"start", "token", "error"}
      BY <1>1, <2>7 DEF Sends, ChatInv, ControlInv
    <3>2. ~Dismissed
      BY <1>2, <2>7 DEF Dismissed
    <3>3. QED
      BY <2>1, <2>2, <2>3, <2>4, <2>7, <3>1, <3>2, AppendFacts DEF Served
  <2>8. ASSUME turn \notin harmful, pc # "invalid" PROVE AnswerFlows'
    <3>1. CASE pc = "start"
      <4>1. toPage' = <<e>> /\ e.type = "start" /\ next = "flow"
        BY <1>1, <2>1, <2>3, <2>5, <3>1 DEF Sends
      <4>2. OnItsWay(1, 0)'
        BY <4>1 DEF OnItsWay
      <4>3. deltas' = 0 /\ pc' = "flow" /\ QuestionShown(turn)'
        BY <1>2, <2>1, <2>5, <3>1, <4>1 DEF QuestionShown
      <4>4. QED
        BY <4>2, <4>3 DEF AnswerFlows
    <3>2. CASE pc # "start"
      <4>1. /\ e.type \notin {"start", "token"}
            /\ pc \notin {"store_question", "read", "start"}
            /\ pc' \notin {"store_question", "read", "start"}
        BY <1>1, <2>1, <2>3, <3>2 DEF Sends
      <4>2. QED
        BY <1>2, <2>1, <2>2, <2>3, <2>8, <4>1, FlowsBehind DEF Served, Dismissed
    <3>3. QED
      BY <3>1, <3>2
  <2>9. pc = "invalid" => Dismissed'
    <3> SUFFICES ASSUME pc = "invalid" PROVE Dismissed'
      OBVIOUS
    <3>1. Dismissed /\ e.type = "error" /\ pc' = "receive"
      BY <1>1, <2>1, <2>2, <2>3 DEF Served, Sends
    <3>2. QED
      BY <2>1, <2>3, <2>4, <3>1, AppendFacts DEF Dismissed
  <2>10. pc' # "invalid"
    BY <1>1, <2>1 DEF Sends
  <2>11. Served'
    BY <1>2, <2>1, <2>2, <2>6, <2>7, <2>8, <2>9, <2>10 DEF Served
  <2>12. QED
    BY <1>4, <2>1, <2>11 DEF StreamInv, Served
<1>5. QED
  BY <1>3, <1>4

\* The connection breaks.
LEMMA StreamCut ==
  ASSUME ChatInv, Break \/ Restart
  PROVE  StreamInv'
<1> TypeOK
  BY DEF ChatInv
<1>1. /\ Cut /\ UNCHANGED <<harmful, bubbles, streaming, sent, turn, deltas>>
      /\ pc' \in {pc, "closed"} /\ ~link' /\ toServer' = <<>>
  BY DEF Break, Restart, Cut, page, server
<1>2. CASE ~DonePending'
  BY <1>1, <1>2, Lost
<1>3. CASE DonePending'
  <2> DEFINE close == [type |-> "close", turn |-> 0]
  <2>1. DonePending /\ Served /\ ~Dismissed /\ toPage' = Append(toPage, close)
    BY <1>1, <1>3, CutKeepsAll DEF DonePending, Dismissed
  <2>2. close \in Event /\ close.type = "close" /\ toPage \in Seq(Event) /\ link
    BY <1>1, ChatAssumption DEF Event, TypeOK, Cut
  <2> HIDE DEF close
  <2>3. pc \in {"receive", "closed"} /\ pc' \in {"receive", "closed"}
    BY <1>1, <2>1 DEF ChatInv, ControlInv
  <2>4. /\ DOMAIN toPage = 1 .. Len(toPage) /\ Len(toPage) \in Nat
        /\ Len(toPage') = Len(toPage) + 1 /\ DOMAIN toPage' = 1 .. Len(toPage) + 1
        /\ \A i \in DOMAIN toPage : toPage'[i] = toPage[i]
        /\ toPage'[Len(toPage) + 1] = close
    BY <2>1, <2>2, AppendFacts
  <2>5. EndsTurn'
    <3>1. \A i \in DOMAIN toPage :
            /\ toPage[i].type # "close" /\ toPage[i].turn = turn
            /\ toPage[i].type \in {"done", "error"} => i = Len(toPage)
      BY <2>1, <2>2, <2>4 DEF Served, EndsTurn
    <3>2. (\A i \in DOMAIN toPage :
             /\ toPage[i].type # "close" => toPage[i].turn = turn
             /\ toPage[i].type \in {"done", "error"} =>
                  /\ pc \in {"receive", "closed"}
                  /\ i < Len(toPage) => i + 1 = Len(toPage) /\ toPage[i + 1].type = "close"
             /\ toPage[i].type = "close" => i = Len(toPage) /\ ~link)'
      BY <1>1, <2>2, <2>3, <2>4, <3>1
    <3>3. \E i \in DOMAIN toPage' : toPage'[i].type \in {"done", "error"}
      BY <1>3 DEF DonePending
    <3>4. QED
      BY <2>3, <3>2, <3>3 DEF EndsTurn
  <2>6. turn \in harmful =>
          \A i \in DOMAIN toPage' : toPage'[i].type \notin {"start", "token", "error"}
    BY <2>1, <2>2, <2>4 DEF Served
  <2>7. turn \notin harmful => AnswerFlows'
    BY <1>1, <2>1, <2>2, <2>3, FlowsBehind DEF Served
  <2>8. Served'
    BY <1>1, <2>1, <2>3, <2>5, <2>6, <2>7 DEF Served
  <2>9. QED
    BY <1>1, <2>8 DEF StreamInv
<1>4. QED
  BY <1>2, <1>3

\* Every step keeps StreamInv.
LEMMA StreamStep ==
  ASSUME ChatInv, [Next]_vars
  PROVE  StreamInv'
<1>1. CASE UNCHANGED vars
  BY <1>1 DEF vars, page, wire, server, ChatInv, StreamInv, DonePending, Resting, Asked, Served,
              Dismissed, EndsTurn, AnswerFlows, OnItsWay, QuestionShown, AnswerShown
<1>2. QED
  BY <1>1, StreamConnect, StreamSend, StreamPage, StreamReceive, StreamQuiet, StreamDelta,
     StreamEvent, StreamCut
     DEF Next, ServerStep

-----------------------------------------------------------------------------
(* What has ended stays shown and stored. *)

\* No step takes a row away.
LEMMA RowsStay ==
  ASSUME ChatInv, [Next]_vars
  PROVE  Grows
<1> TypeOK /\ ControlInv /\ RowsInv /\ Right(messages) /\ Stored(pc, messages, turn)
  BY DEF ChatInv, RowsInv, Right
<1>1. CASE StoreRefusal
  <2>1. turn \in Turn /\ turn \in harmful
    BY <1>1 DEF StoreRefusal, ControlInv
  <2>2. \/ messages' = messages
        \/ AddsTwo(Row("user"), Row("assistant")) \/ AddsTwo(Row("assistant"), Row("user"))
    BY <1>1, <2>1, RefusalAddsTwo DEF StoreRefusal, Transaction
  <2>3. QED
    BY <2>1, <2>2, RowTypes, RowsMove
<1>2. CASE StoreQuestion \/ StoreAnswer
  <2>1. turn \in Turn
    BY <1>2 DEF StoreQuestion, StoreAnswer, ControlInv
  <2> DEFINE answer == [Row("assistant") EXCEPT !.deltas = deltas]
  <2>2. /\ Row("user") \in Message /\ Row("user").turn = turn /\ Row("user").text = "written"
        /\ answer \in Message /\ answer.turn = turn /\ answer.text = "written"
        /\ answer.role = "assistant"
    BY <2>1, RowTypes DEF Row
  <2>3. \/ messages' = messages
        \/ pc = "store_question" /\ messages' = Append(messages, Row("user"))
        \/ pc = "store_answer" /\ messages' = Append(messages, answer)
    BY <1>2 DEF StoreQuestion, StoreAnswer, Transaction
  <2> HIDE DEF answer
  <2>4. messages' = messages \/ Adds(Row("user")) \/ Adds(answer)
    BY <2>2, <2>3 DEF Adds, Follows, Stored
  <2>5. QED
    BY <2>2, <2>4, RowsMove
<1>3. CASE Attach
  BY <1>3, AttachRates, RowsMove
<1>4. CASE messages' = messages
  BY <1>4 DEF Grows
<1>5. QED
  BY <1>1, <1>2, <1>3, <1>4
     DEF Next, ServerStep, Connect, Send, PageStep, OnOpen, OnStart, OnToken, OnDone, OnError,
         OnClose, Ignored, Handle, Accept, FindSession, Receive, ReadContext, Delta, StreamEnds,
         Evaluate, SendEvent, Refuse, Break, Restart, vars

\* A bubble keeps its place and its kind, its text unless it is the last, and
\* everything once it is not pending.
BubblesStay ==
  \A i \in DOMAIN bubbles :
    /\ i \in DOMAIN bubbles'
    /\ bubbles'[i].who = bubbles[i].who
    /\ i < Len(bubbles) => i < Len(bubbles') /\ bubbles'[i].parts = bubbles[i].parts
    /\ i + 1 \in DOMAIN bubbles /\ ~bubbles[i + 1].pending => bubbles'[i + 1] = bubbles[i + 1]

\* "done" settles every bubble.
LEMMA PageSettles ==
  ASSUME TypeOK, OnDone
  PROVE  /\ DOMAIN bubbles' = DOMAIN bubbles /\ Len(bubbles') = Len(bubbles)
         /\ \A i \in DOMAIN bubbles :
              /\ bubbles'[i] \in Bubble /\ ~bubbles'[i].pending
              /\ bubbles'[i].who = bubbles[i].who /\ bubbles'[i].parts = bubbles[i].parts
<1>1. bubbles \in Seq(Bubble) /\ \A i \in DOMAIN bubbles : bubbles[i] \in Bubble
  BY SeqIsFunction DEF TypeOK
<1>2. \A b \in Bubble : LET c == [b EXCEPT !.pending = FALSE]
                        IN  c \in Bubble /\ ~c.pending /\ c.who = b.who /\ c.parts = b.parts
  BY DEF Bubble
<1>3. bubbles' = [i \in DOMAIN bubbles |-> [bubbles[i] EXCEPT !.pending = FALSE]]
  BY DEF OnDone
<1>4. /\ DOMAIN bubbles' = DOMAIN bubbles
      /\ \A i \in DOMAIN bubbles :
           /\ bubbles'[i] \in Bubble /\ ~bubbles'[i].pending
           /\ bubbles'[i].who = bubbles[i].who /\ bubbles'[i].parts = bubbles[i].parts
  BY <1>1, <1>2, <1>3
<1>5. bubbles' \in [DOMAIN bubbles -> Bubble]
  BY <1>3, <1>4
<1>6. Len(bubbles') = Len(bubbles)
  BY <1>1, <1>5, FunctionIsSeq
<1>7. QED
  BY <1>4, <1>6

\* No step takes a bubble away.
LEMMA PageKeeps ==
  ASSUME TypeOK, [Next]_vars
  PROVE  BubblesStay
<1>1. /\ bubbles \in Seq(Bubble) /\ DOMAIN bubbles = 1 .. Len(bubbles) /\ Len(bubbles) \in Nat
      /\ \A i \in DOMAIN bubbles : bubbles[i] \in Bubble
  BY SeqIsFunction DEF TypeOK
<1>2. CASE bubbles' = bubbles
  BY <1>2 DEF BubblesStay
<1>3. ASSUME NEW b \in Bubble, bubbles' = Append(bubbles, b) PROVE BubblesStay
  <2>1. /\ Len(bubbles') = Len(bubbles) + 1 /\ DOMAIN bubbles' = 1 .. Len(bubbles) + 1
        /\ \A i \in DOMAIN bubbles : bubbles'[i] = bubbles[i]
    BY <1>1, <1>3, AppendFacts
  <2>2. QED
    BY <1>1, <2>1 DEF BubblesStay
<1>4. CASE Send
  <2>1. [who |-> "user", parts |-> <<sent'>>, pending |-> FALSE] \in Bubble
    BY <1>4, ChatAssumption DEF Send, TypeOK, Bubble
  <2>2. QED
    BY <1>3, <1>4, <2>1 DEF Send
<1>5. CASE OnStart \/ OnError
  <2>1. /\ [who |-> "answer", parts |-> <<>>, pending |-> TRUE] \in Bubble
        /\ [who |-> "warning", parts |-> <<>>, pending |-> FALSE] \in Bubble
    BY DEF Bubble
  <2>2. QED
    BY <1>3, <1>5, <2>1 DEF OnStart, OnError
<1>6. CASE OnToken /\ bubbles # <<>> /\ Last(bubbles).pending
  <2> DEFINE b == [Last(bubbles) EXCEPT !.parts = Append(@, Head(toPage).turn)]
  <2>1. Head(toPage).turn \in 0 .. MaxTurns
    <3>1. Head(toPage) \in Event
      BY <1>6, TailFacts DEF OnToken, Handle, TypeOK
    <3>2. QED
      BY <3>1 DEF Event
  <2>2. Last(bubbles) \in Bubble /\ Last(bubbles) = bubbles[Len(bubbles)]
    BY <1>1, <1>6 DEF Last
  <2>3. b \in Bubble /\ b.who = Last(bubbles).who
    BY <2>1, <2>2, BubbleGrows
  <2>4. bubbles' = [bubbles EXCEPT ![Len(bubbles)] = b]
    BY <1>6, <2>2 DEF OnToken
  <2> HIDE DEF b
  <2>5. /\ DOMAIN bubbles' = DOMAIN bubbles /\ Len(bubbles') = Len(bubbles)
        /\ \A i \in DOMAIN bubbles : i # Len(bubbles) => bubbles'[i] = bubbles[i]
        /\ Len(bubbles) \in DOMAIN bubbles => bubbles'[Len(bubbles)] = b
    BY <1>1, <2>3, <2>4
  <2>6. QED
    BY <1>1, <1>6, <2>2, <2>3, <2>5 DEF BubblesStay
<1>7. CASE OnDone
  <2>1. /\ DOMAIN bubbles' = DOMAIN bubbles /\ Len(bubbles') = Len(bubbles)
        /\ \A i \in DOMAIN bubbles :
             /\ bubbles'[i] \in Bubble /\ ~bubbles'[i].pending
             /\ bubbles'[i].who = bubbles[i].who /\ bubbles'[i].parts = bubbles[i].parts
    BY <1>7, PageSettles
  <2>2. \A b, c \in Bubble :
          b.who = c.who /\ b.parts = c.parts /\ ~b.pending /\ ~c.pending => b = c
    BY DEF Bubble
  <2>3. QED
    BY <1>1, <2>1, <2>2 DEF BubblesStay
<1>8. QED
  BY <1>2, <1>4, <1>5, <1>6, <1>7
     DEF Next, Connect, PageStep, OnOpen, OnToken, OnClose, Ignored, ServerStep, Accept, FindSession,
         Receive, StoreRefusal, StoreQuestion, ReadContext, Delta, StreamEnds, StoreAnswer, Evaluate,
         Attach, SendEvent, Transaction, Refuse, Break, Restart, vars, page

\* What ShownIsStored asks of one turn.
ShownStored(t) ==
  \E answer \in Range(messages) :
    /\ answer.turn = t /\ answer.role = "assistant"
    /\ t \notin harmful =>
         /\ answer.text = "revised" => answer.card = "revised"
         /\ \E i \in DOMAIN bubbles :
              /\ bubbles[i].who = "user" /\ bubbles[i].parts = <<t>>
              /\ i < Len(bubbles)
              /\ bubbles[i + 1] = [who |-> "answer", pending |-> FALSE,
                                   parts |-> [k \in 1 .. answer.deltas |-> t]]

\* A turn that has ended stays as it was.
LEMMA ShownStays ==
  ASSUME ChatInv, RowsInv', [Next]_vars, NEW t \in ended
  PROVE  ShownStored(t)'
<1>1. Grows /\ BubblesStay /\ harmful' = harmful
  BY RowsStay, PageKeeps
     DEF ChatInv, Next, Connect, PageStep, OnOpen, OnStart, OnToken, OnDone, OnError, OnClose,
     Ignored, Handle, ServerStep, Send, Accept, FindSession, Refuse, Receive, StoreRefusal,
     StoreQuestion, ReadContext, Delta,
     StreamEnds, StoreAnswer, Evaluate, Attach, SendEvent, Transaction, Break, Restart, vars
<1>2. DOMAIN bubbles = 1 .. Len(bubbles) /\ Len(bubbles) \in Nat
  BY SeqIsFunction DEF ChatInv, TypeOK
<1>3. ShownStored(t)
  BY DEF ChatInv, ShownIsStored, ShownStored
<1>4. PICK old \in Range(messages) :
        /\ old.turn = t /\ old.role = "assistant"
        /\ t \notin harmful =>
             \E i \in DOMAIN bubbles :
               /\ bubbles[i].who = "user" /\ bubbles[i].parts = <<t>>
               /\ i < Len(bubbles)
               /\ bubbles[i + 1] = [who |-> "answer", pending |-> FALSE,
                                    parts |-> [k \in 1 .. old.deltas |-> t]]
  BY <1>3 DEF ShownStored
<1>5. PICK new \in Range(messages') :
        /\ new.turn = t /\ new.role = "assistant" /\ new.deltas = old.deltas
        /\ new.text = "revised" => new.card = "revised"
  <2>1. PICK new \in Range(messages') :
          new.turn = t /\ new.role = "assistant" /\ new.deltas = old.deltas
    BY <1>1, <1>4 DEF Grows
  <2>2. new.text = "revised" => new.card = "revised"
    BY DEF RowsInv, Carded, Range
  <2>3. QED
    BY <2>1, <2>2
<1>6. ASSUME t \notin harmful
      PROVE  \E i \in DOMAIN bubbles' :
               /\ bubbles'[i].who = "user" /\ bubbles'[i].parts = <<t>>
               /\ i < Len(bubbles')
               /\ bubbles'[i + 1] = [who |-> "answer", pending |-> FALSE,
                                     parts |-> [k \in 1 .. new.deltas |-> t]]
  <2>1. PICK i \in DOMAIN bubbles :
          /\ bubbles[i].who = "user" /\ bubbles[i].parts = <<t>>
          /\ i < Len(bubbles)
          /\ bubbles[i + 1] = [who |-> "answer", pending |-> FALSE,
                               parts |-> [k \in 1 .. old.deltas |-> t]]
    BY <1>4, <1>6
  <2>2. i + 1 \in DOMAIN bubbles /\ ~bubbles[i + 1].pending
    BY <1>2, <2>1
  <2>3. /\ i \in DOMAIN bubbles' /\ bubbles'[i].who = "user" /\ bubbles'[i].parts = <<t>>
        /\ i < Len(bubbles') /\ bubbles'[i + 1] = bubbles[i + 1]
    BY <1>1, <2>1, <2>2 DEF BubblesStay
  <2>4. QED
    BY <1>5, <2>1, <2>3
<1>7. QED
  BY <1>1, <1>5, <1>6 DEF ShownStored

\* The turn that ends is shown and stored.
LEMMA ShownNow ==
  ASSUME ChatInv, OnDone, NEW t, t = turn
  PROVE  ShownStored(t)'
<1> TypeOK
  BY DEF ChatInv
<1>1. /\ DonePending /\ Served /\ toPage # <<>> /\ 1 \in DOMAIN toPage /\ toPage[1].type = "done"
      /\ UNCHANGED <<harmful, turn, messages>>
  BY DoneHandled DEF OnDone, Handle, server
<1>2. PICK m \in Range(messages) :
        /\ m.turn = t /\ m.role = "assistant" /\ (t \notin harmful => m.deltas = deltas)
        /\ m.text = "revised" => m.card = "revised"
  BY <1>1 DEF ChatInv, RowsInv, NeedsAnswer, HasAnswer, Carded, Range
<1>3. ASSUME t \notin harmful
      PROVE  \E i \in DOMAIN bubbles' :
               /\ bubbles'[i].who = "user" /\ bubbles'[i].parts = <<t>>
               /\ i < Len(bubbles')
               /\ bubbles'[i + 1] = [who |-> "answer", pending |-> FALSE,
                                     parts |-> [k \in 1 .. m.deltas |-> t]]
  <2>1. AnswerShown(t, deltas)
    <3>1. /\ toPage \in Seq(Event) /\ deltas \in Nat /\ pc \in {"receive", "closed"}
          /\ ~Dismissed
      BY <1>1, ChatAssumption DEF TypeOK, Served, EndsTurn, Dismissed
    <3>2. ~OnItsWay(1, deltas)
      BY <1>1, <3>1 DEF OnItsWay
    <3>3. PICK n \in 0 .. deltas : OnItsWay(0, deltas - n) /\ AnswerShown(t, n)
      BY <1>1, <1>3, <3>1, <3>2 DEF Served, AnswerFlows
    <3>4. n = deltas
      BY <1>1, <3>1, <3>3 DEF OnItsWay
    <3>5. QED
      BY <3>3, <3>4
  <2> DEFINE l == Len(bubbles)
             shown == [k \in 1 .. deltas |-> t]
  <2>2. /\ bubbles \in Seq(Bubble) /\ l \in Nat /\ l > 1 /\ DOMAIN bubbles = 1 .. l
        /\ bubbles[l - 1] \in Bubble /\ bubbles[l - 1].who = "user"
        /\ bubbles[l - 1].parts = <<t>>
        /\ bubbles[l] = [who |-> "answer", parts |-> shown, pending |-> TRUE]
    BY <2>1, SeqIsFunction DEF AnswerShown, Last, TypeOK
  <2> HIDE DEF shown
  <2>3. /\ DOMAIN bubbles' = DOMAIN bubbles /\ Len(bubbles') = l
        /\ \A i \in DOMAIN bubbles :
             /\ bubbles'[i] \in Bubble /\ ~bubbles'[i].pending
             /\ bubbles'[i].who = bubbles[i].who /\ bubbles'[i].parts = bubbles[i].parts
    BY PageSettles
  <2>4. bubbles'[l - 1].who = "user" /\ bubbles'[l - 1].parts = <<t>>
    BY <2>2, <2>3
  <2>5. bubbles'[l] = [who |-> "answer", parts |-> shown, pending |-> FALSE]
    <3>1. /\ bubbles'[l] \in Bubble /\ ~bubbles'[l].pending
          /\ bubbles'[l].who = "answer" /\ bubbles'[l].parts = shown
      BY <2>2, <2>3
    <3>2. QED
      BY <3>1 DEF Bubble
  <2>7. l - 1 \in DOMAIN bubbles' /\ l - 1 < Len(bubbles') /\ (l - 1) + 1 = l
    BY <2>2, <2>3
  <2>8. m.deltas = deltas
    BY <1>2, <1>3
  <2>9. QED
    BY <2>4, <2>5, <2>7, <2>8 DEF shown
<1>4. QED
  BY <1>1, <1>2, <1>3 DEF ShownStored

\* Only "done" ends a turn.
LEMMA EndedStays ==
  ASSUME [Next]_vars, ~OnDone
  PROVE  ended' = ended
  BY DEF Next, Connect, PageStep, OnOpen, OnStart, OnToken, OnError, OnClose, Ignored, Handle,
     ServerStep, Send, Accept, FindSession, Refuse, Receive, StoreRefusal, StoreQuestion,
     ReadContext, Delta, StreamEnds, StoreAnswer, Evaluate, Attach, SendEvent, Transaction,
     Break, Restart, vars, page

\* Every step keeps ShownIsStored.
LEMMA ShownStep ==
  ASSUME ChatInv, RowsInv', [Next]_vars
  PROVE  ShownIsStored'
<1>1. \A t \in ended : ShownStored(t)'
  BY ShownStays
<1>2. CASE OnDone
  <2>1. ended' = ended \cup {turn} /\ turn' = turn
    BY <1>2, DoneHandled DEF OnDone, Handle, server
  <2>2. \A t : t = turn => ShownStored(t)'
    BY <1>2, ShownNow
  <2>3. \A t \in ended' : ShownStored(t)'
    BY <1>1, <2>1, <2>2
  <2>4. QED
    BY <2>3 DEF ShownIsStored, ShownStored
<1>3. CASE ~OnDone
  <2>1. ended' = ended
    BY <1>3, EndedStays
  <2>2. QED
    BY <1>1, <2>1 DEF ShownIsStored, ShownStored
<1>4. QED
  BY <1>2, <1>3

-----------------------------------------------------------------------------
(* What the model is given. *)

\* Every step keeps ModelSeesConversation.
LEMMA ContextStep ==
  ASSUME ChatInv, [Next]_vars
  PROVE  ModelSeesConversation'
<1> TypeOK /\ ControlInv /\ RowsInv /\ ShownIsStored /\ ModelSeesConversation
  BY DEF ChatInv
<1>1. CASE ReadContext /\ ~Raise
  <2>1. /\ pc = "read" /\ context' = messages /\ UNCHANGED <<harmful, turn, ended>>
    BY <1>1 DEF ReadContext, page
  <2>2. context' # <<>> /\ Last(context') = Question(turn)
    BY <2>1 DEF RowsInv, Stored
  <2>3. InOrder(context)'
    BY <2>1 DEF RowsInv, InOrder
  <2>4. \A t \in ended, role \in {"user", "assistant"} :
          \E m \in Range(context') : m.turn = t /\ m.role = role
    <3>1. \A t \in ended : \E m \in Range(messages) : m.turn = t /\ m.role = "user"
      BY DEF RowsInv, HasRow
    <3>2. \A t \in ended : \E m \in Range(messages) : m.turn = t /\ m.role = "assistant"
      <4> SUFFICES ASSUME NEW t \in ended
                   PROVE  \E m \in Range(messages) : m.turn = t /\ m.role = "assistant"
        OBVIOUS
      <4>1. ShownStored(t)
        BY DEF ShownIsStored, ShownStored
      <4>2. PICK m \in Range(messages) : m.turn = t /\ m.role = "assistant"
        BY <4>1 DEF ShownStored
      <4>3. QED
        BY <4>2
    <3>3. QED
      BY <2>1, <3>1, <3>2
  <2>5. QED
    BY <2>1, <2>2, <2>3, <2>4 DEF ModelSeesConversation, Question
<1>2. CASE pc' \in {"start", "flow"} /\ ~ReadContext
  <2>1. pc \in {"start", "flow"} /\ UNCHANGED <<harmful, context, turn>>
    BY <1>2 DEF Next, Connect, PageStep, OnOpen, OnStart, OnToken, OnDone, OnError, OnClose, Ignored,
       Handle, ServerStep, Send, Accept, FindSession, Refuse, Receive, StoreRefusal,
       StoreQuestion, Delta, StreamEnds, StoreAnswer, Evaluate, Attach, SendEvent, Emit,
       Transaction, Raise, Break, Restart, vars, server
  <2>2. ended' = ended
    <3>1. ~OnDone
      BY <2>1, DoneHandled DEF ControlInv
    <3>2. QED
      BY <3>1, EndedStays
  <2>3. QED
    BY <2>1, <2>2 DEF ModelSeesConversation, Question, InOrder
<1>3. CASE pc' \notin {"start", "flow"}
  BY <1>3 DEF ModelSeesConversation
<1>4. CASE ReadContext /\ Raise
  BY <1>4 DEF ModelSeesConversation, Raise
<1>5. QED
  BY <1>1, <1>2, <1>3, <1>4

-----------------------------------------------------------------------------
(* The theorems. *)

\* The invariant holds in every state: chat/page.tsx and chat/service.py are
\* at the same turn, whatever is on its way between them.
THEOREM ChatInvHolds == Spec => []ChatInv
<1>1. ChatInv /\ [Next]_vars => ChatInv'
  BY TypeStep, ControlStep, RowsStep, StreamStep, ShownStep, ContextStep DEF ChatInv
<1>2. QED
  BY ChatInvInit, <1>1, PTL DEF Spec

\* page.tsx, service.py: a turn that has ended with "done" is on the page as it
\* was streamed, and its answer is stored, with that text or with the Critic's
\* revision of it and a scorecard that says so.
THEOREM EndedIsShownAndStored == Spec => []ShownIsStored
<1>1. ChatInv => ShownIsStored
  BY DEF ChatInv
<1>2. QED
  BY ChatInvHolds, <1>1, PTL

\* service.py: the model is given both messages of every turn that has ended,
\* turn by turn and, but for a refused turn, the question before its answer; and
\* last the question it is to answer.
THEOREM ModelAlwaysSeesConversation == Spec => []ModelSeesConversation
<1>1. ChatInv => ModelSeesConversation
  BY DEF ChatInv
<1>2. QED
  BY ChatInvHolds, <1>1, PTL

=============================================================================
