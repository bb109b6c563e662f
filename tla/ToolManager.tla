---------------------------- MODULE ToolManager ----------------------------
(***************************************************************************)
(* The single choke point for running a tool: ToolManager.dispatch         *)
(* (backend/app/tools/manager.py), composed with the permission engine,    *)
(* the E-STOP and the approval registry it calls and with the safety API   *)
(* that people use meanwhile.                                              *)
(*                                                                         *)
(* Dispatches run concurrently on one event loop, so a step of this module *)
(* is the code of dispatch between two awaits: what was read before an     *)
(* await may be stale after it.  The audit append may fail (the database   *)
(* is down) and then raises out of dispatch; the tool_results row is       *)
(* written best-effort.  The API process may restart at any point.         *)
(***************************************************************************)
EXTENDS PermissionEngine

CONSTANTS
  Dispatch,     \* dispatch() calls; each one names its approval request
  Operator,     \* concurrent users of the E-STOP routes
  Tool,         \* tool names a plan may contain
  NoTool,       \* not a tool name
  Registered,   \* keys of the registry
  Level,        \* registry: required level of each registered tool
  Implemented,  \* keys of impls
  MaxLevel      \* settings.max_tool_level

ASSUME ConstantsAssumption ==
  /\ Registered \subseteq Tool
  /\ Implemented \subseteq Tool
  /\ NoTool \notin Tool
  /\ Level \in [Registered -> Int]
  /\ MaxLevel \in Int

VARIABLES
  memory, key, redisUp, call, contended, promise, steady,   \* EStop
  status, event, waiter,                                    \* Approvals
  tool,        \* dispatch's argument name
  pc,          \* the await dispatch is at
  seen,        \* its local copy of the E-STOP reading
  outcome,     \* the status of the ToolResult it has made
  trail,       \* audit rows of this call: the decisions they carry
  row,         \* is its tool_results row committed
  ran,         \* history: the implementation was reached
  consented,   \* history: calls a person answered "approved"
  clearSince   \* history: the E-STOP was not in force at some moment since
               \* the call was made, or since the approval it got

S == INSTANCE EStop
A == INSTANCE Approvals WITH Request <- Dispatch

switch == <<memory, key, redisUp, call, contended, promise, steady>>
approvals == <<status, event, waiter>>
control == <<tool, pc, seen, outcome>>
records == <<trail, row>>
history == <<ran, consented, clearSince>>
vars == <<switch, approvals, control, records, history>>

Outcome == {"ok", "error", "timeout", "denied"}

Ended == {"returned", "raised", "lost"}

Point == {"idle", "read", "decide", "log_request", "approval", "reread",
          "recheck", "running", "audit", "persist"} \cup Ended

TypeOK ==
  /\ S!TypeOK
  /\ A!TypeOK
  /\ tool \in [Dispatch -> Tool \cup {NoTool}]
  /\ pc \in [Dispatch -> Point]
  /\ seen \in [Dispatch -> BOOLEAN]
  /\ outcome \in [Dispatch -> Outcome \cup {"none"}]
  /\ trail \in [Dispatch -> SUBSET (Outcome \cup {"needs_approval"})]
  /\ row \in [Dispatch -> BOOLEAN]
  /\ ran \in [Dispatch -> BOOLEAN]
  /\ consented \subseteq Dispatch
  /\ clearSince \in [Dispatch -> BOOLEAN]

Init ==
  /\ S!Init
  /\ A!Init
  /\ tool = [d \in Dispatch |-> NoTool]
  /\ pc = [d \in Dispatch |-> "idle"]
  /\ seen = [d \in Dispatch |-> FALSE]
  /\ outcome = [d \in Dispatch |-> "none"]
  /\ trail = [d \in Dispatch |-> {}]
  /\ row = [d \in Dispatch |-> FALSE]
  /\ ran = [d \in Dispatch |-> FALSE]
  /\ consented = {}
  /\ clearSince = [d \in Dispatch |-> FALSE]

-----------------------------------------------------------------------------
(* Steps of dispatch. *)

Goto(d, point) == pc' = [pc EXCEPT ![d] = point]

\* A ToolResult is made without running the tool; _finish comes next.
Conclude(d, result) ==
  /\ outcome' = [outcome EXCEPT ![d] = result]
  /\ Goto(d, "audit")

\* The implementation is looked up and, if there is one, called.
Execute(d) ==
  IF tool[d] \in Implemented
  THEN /\ ran' = [ran EXCEPT ![d] = TRUE]
       /\ Goto(d, "running")
       /\ UNCHANGED outcome
  ELSE /\ Conclude(d, "error")
       /\ UNCHANGED ran

\* dispatch() is called: an unknown tool is an error, any other call goes on
\* to read the E-STOP.
Called(d, t) ==
  /\ pc[d] = "idle"
  /\ tool' = [tool EXCEPT ![d] = t]
  /\ IF t \in Registered THEN Goto(d, "read") /\ UNCHANGED outcome
                         ELSE Conclude(d, "error")
  /\ clearSince' = [clearSince EXCEPT ![d] = ~S!InForce]
  /\ UNCHANGED <<switch, approvals, seen, records, ran, consented>>

\* The E-STOP reading is taken (Redis answers, or the fallback is used) ...
ReadEStop(d, from, to) ==
  /\ pc[d] = from
  /\ seen' = [seen EXCEPT ![d] = S!IsEngaged]
  /\ Goto(d, to)
  /\ UNCHANGED <<switch, approvals, tool, outcome, records, history>>

\* ... and dispatch acts on it when it resumes.
Decided(d) ==
  /\ pc[d] = "decide"
  /\ LET decision == Decide(Level[tool[d]], MaxLevel, seen[d])
     IN \/ /\ decision = "deny"
           /\ Conclude(d, "denied")
           /\ UNCHANGED <<approvals, ran>>
        \/ /\ decision = "needs_approval"
           /\ A!Register(d)
           /\ Goto(d, "log_request")
           /\ UNCHANGED <<outcome, ran>>
        \/ /\ decision = "allow"
           /\ Execute(d)
           /\ UNCHANGED approvals
  /\ UNCHANGED <<switch, tool, seen, records, consented, clearSince>>

\* Faulty: a failed append of the request is swallowed.
LogRequest_Swallows(d) ==
  /\ pc[d] = "log_request"
  /\ trail' \in {trail, [trail EXCEPT ![d] = @ \cup {"needs_approval"}]}
  /\ A!StartWait(d)
  /\ Goto(d, "approval")
  /\ UNCHANGED <<switch, tool, seen, outcome, row, history>>

\* The request is audited, then awaited.  If the append raises, so does
\* dispatch, and the registered request is left behind; the row is there all
\* the same if only the answer to the commit was lost.
LogRequest(d) ==
  /\ pc[d] = "log_request"
  /\ \/ /\ trail' = [trail EXCEPT ![d] = @ \cup {"needs_approval"}]
        /\ A!StartWait(d)
        /\ Goto(d, "approval")
     \/ /\ trail' \in {trail, [trail EXCEPT ![d] = @ \cup {"needs_approval"}]}
        /\ Goto(d, "raised")
        /\ UNCHANGED approvals
  /\ UNCHANGED <<switch, tool, seen, outcome, row, history>>

\* wait() goes on; when it returns, dispatch does too.
AwaitApproval(d) ==
  /\ pc[d] = "approval"
  /\ A!WaitStep(d)
  /\ CASE waiter'[d] = "granted" -> Goto(d, "reread") /\ UNCHANGED outcome
       [] waiter'[d] = "refused" -> Conclude(d, "denied")
       [] OTHER -> UNCHANGED <<pc, outcome>>
  /\ UNCHANGED <<switch, tool, seen, records, history>>

\* Faulty: the second reading is not looked at.
Recheck_Runs(d) ==
  /\ pc[d] = "recheck"
  /\ Execute(d)
  /\ UNCHANGED <<switch, approvals, tool, seen, records, consented, clearSince>>

\* After an approval the E-STOP has been read once more.
Recheck(d) ==
  /\ pc[d] = "recheck"
  /\ IF seen[d] THEN Conclude(d, "denied") /\ UNCHANGED ran ELSE Execute(d)
  /\ UNCHANGED <<switch, approvals, tool, seen, records, consented, clearSince>>

\* The implementation returns a result or raises (which becomes "error").
ToolEnds(d) ==
  /\ pc[d] = "running"
  /\ \E result \in Outcome \ {"denied"} : Conclude(d, result)
  /\ UNCHANGED <<switch, approvals, tool, seen, records, history>>

\* Faulty: a failed append of the outcome is swallowed.
Audit_Swallows(d) ==
  /\ pc[d] = "audit"
  /\ trail' \in {trail, [trail EXCEPT ![d] = @ \cup {outcome[d]}]}
  /\ Goto(d, "persist")
  /\ UNCHANGED <<switch, approvals, tool, seen, outcome, row, history>>

\* _finish: the audit append; if it raises, the caller gets no result, though
\* the row may have been committed.
Audit(d) ==
  /\ pc[d] = "audit"
  /\ \/ /\ trail' = [trail EXCEPT ![d] = @ \cup {outcome[d]}]
        /\ Goto(d, "persist")
     \/ /\ trail' \in {trail, [trail EXCEPT ![d] = @ \cup {outcome[d]}]}
        /\ Goto(d, "raised")
  /\ UNCHANGED <<switch, approvals, tool, seen, outcome, row, history>>

\* _persist: the row is written or its failure is swallowed.
Persist(d) ==
  /\ pc[d] = "persist"
  /\ row' \in {row, [row EXCEPT ![d] = TRUE]}
  /\ Goto(d, "returned")
  /\ UNCHANGED <<switch, approvals, tool, seen, outcome, trail, history>>

DispatchStep(d) ==
  \/ ReadEStop(d, "read", "decide")
  \/ Decided(d)
  \/ LogRequest(d)
  \/ AwaitApproval(d)
  \/ ReadEStop(d, "reread", "recheck")
  \/ Recheck(d)
  \/ ToolEnds(d)
  \/ Audit(d)
  \/ Persist(d)

-----------------------------------------------------------------------------
(* People, and faults. *)

\* POST /api/safety/approvals/{id}/resolve, answered with 200.
Answer(d, answer) ==
  /\ A!Resolve(d, answer)
  /\ IF answer = "approved"
     THEN /\ consented' = consented \cup {d}
          /\ clearSince' = [clearSince EXCEPT ![d] = ~S!InForce]
     ELSE UNCHANGED <<consented, clearSince>>
  /\ UNCHANGED <<switch, control, records, ran>>

\* The E-STOP is used, or Redis goes or comes back.
SwitchStep ==
  /\ S!OperatorStep \/ S!RedisLost \/ S!RedisBack
  /\ clearSince' = [d \in Dispatch |-> clearSince[d] \/ ~S!InForce']
  /\ UNCHANGED <<approvals, control, records, ran, consented>>

\* The API process restarts: every call in flight is lost with the registry.
Restart ==
  /\ S!ApiRestart
  /\ A!Forget
  /\ pc' = [d \in Dispatch |-> IF pc[d] \in Ended \cup {"idle"} THEN pc[d] ELSE "lost"]
  /\ clearSince' = [d \in Dispatch |-> clearSince[d] \/ ~S!InForce']
  /\ UNCHANGED <<tool, seen, outcome, records, ran, consented>>

Next ==
  \/ \E d \in Dispatch, t \in Tool : Called(d, t)
  \/ \E d \in Dispatch : DispatchStep(d)
  \/ \E d \in Dispatch, answer \in A!Settled : Answer(d, answer)
  \/ SwitchStep
  \/ Restart

\* The event loop runs what is ready, timers fire, appends return or raise,
\* and the built-in tools have timeouts of their own.  No fairness for people.
Fairness == \A d \in Dispatch : WF_vars(DispatchStep(d))

Spec == Init /\ [][Next]_vars /\ Fairness

-----------------------------------------------------------------------------
(* Properties. *)

LevelOf(d) == Level[tool[d]]

\* dispatch steps 1-6: a tool is reached only if it is registered at a level
\* the ceiling admits, never level 5 whatever the configuration, and at level
\* 3 or 4 only after a person approved this very call.
OnlyPermittedRuns ==
  \A d \in Dispatch : ran[d] =>
    /\ tool[d] \in Registered
    /\ LevelOf(d) \in 0 .. 4
    /\ LevelOf(d) <= MaxLevel
    /\ LevelOf(d) >= 3 => d \in consented

\* Steps 2 and 5: an E-STOP in force from before the call was made (before
\* the approval was given, for a gated call) and kept in force stops it.
StopObeyed == \A d \in Dispatch : ran[d] => clearSince[d]

\* Step 4: the request for approval is in the audit log before the tool runs.
GatedRunIsLogged ==
  \A d \in Dispatch :
    ran[d] /\ LevelOf(d) >= ApprovalFloor => "needs_approval" \in trail[d]

\* _finish: a caller gets a result, and tool_results a row, only for what the
\* audit log already says.
ReportedIsAudited ==
  \A d \in Dispatch : pc[d] = "returned" \/ row[d] => outcome[d] \in trail[d]

\* A request for approval is settled by the time its dispatch has returned:
\* no answer given later can be taken for an effective one.
ReturnedIsSettled ==
  \A d \in Dispatch : pc[d] = "returned" => status[d] # "pending"

\* EStop.engage: an engage that met no clear is seen by every later reading
\* of dispatch until a clear starts, whatever the other operators do and
\* although the API restarts, as long as Redis neither goes nor comes back.
EngageHolds == S!EngageHolds

\* resolve(), wait(): the answer a person was told had been taken is changed
\* only by the time-out handler of a wait whose timer had already fired, and
\* then only to denied, or forgotten by a restart.
FirstAnswerStands == A!FirstAnswerStands

\* Every dispatch ends, though nobody answers its request.
CallsEnd == \A d \in Dispatch : pc[d] # "idle" ~> pc[d] \in Ended

-----------------------------------------------------------------------------
(* The abstract specification this module implements. *)

Admitted(decision) == {t \in Registered : Decide(Level[t], MaxLevel, FALSE) = decision}

Stage(d) ==
  IF pc[d] = "idle" THEN "new"
  ELSE IF pc[d] = "running" THEN "running"
  ELSE IF ran[d] \/ pc[d] \in Ended THEN "over"
  ELSE "asked"

stages == [d \in Dispatch |-> Stage(d)]

approved == {d \in Dispatch : status[d] = "approved"}

G == INSTANCE GatedExecution WITH
       Call <- Dispatch,
       Free <- Admitted("allow"),
       Gated <- Admitted("needs_approval"),
       stage <- stages,
       consent <- approved

\* The manager implements GatedExecution: whatever the interleaving of calls,
\* answers, timers, faults and restarts, a tool starts at most once per call,
\* and a gated one only while the approval of this call stands.
Implements == G!Spec

=============================================================================
