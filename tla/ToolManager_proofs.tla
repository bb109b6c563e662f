------------------------- MODULE ToolManager_proofs -------------------------
(***************************************************************************)
(* The gate holds for every registry, ceiling, set of calls and operators: *)
(* IInv is an inductive invariant of ToolManager, the safety properties    *)
(* follow from it, and every step is a step of GatedExecution or a stutter.*)
(***************************************************************************)
EXTENDS ToolManager, TLAPS

-----------------------------------------------------------------------------
(* Why the safety properties are inductive: what is known at each await. *)

\* A call has no request before the decision, and only a gated tool gets one.
RequestInv(d) ==
  /\ pc[d] \in {"idle", "read", "decide"} => status[d] = "absent" /\ waiter[d] = "none"
  /\ pc[d] \in {"log_request", "approval", "reread", "recheck"} => status[d] # "absent"
  /\ pc[d] = "log_request" => waiter[d] = "none"
  /\ pc[d] \in {"reread", "recheck"} => status[d] = "approved" /\ waiter[d] = "granted"
  /\ pc[d] \in {"audit", "persist", "returned"} => status[d] # "pending"
  /\ status[d] # "absent" => tool[d] \in Admitted("needs_approval")
  /\ status[d] = "approved" => d \in consented

ToolInv(d) ==
  /\ pc[d] = "idle" => tool[d] = NoTool
  /\ pc[d] \in {"read", "decide"} => tool[d] \in Registered
  /\ pc[d] \in {"approval", "reread", "recheck"} => "needs_approval" \in trail[d]

\* The permission a tool ran with, which nothing takes back.
RunInv(d) ==
  /\ ran[d] => pc[d] \in {"running", "audit", "persist"} \cup Ended
  /\ pc[d] = "running" => ran[d]
  /\ ran[d] => status[d] # "pending"
  /\ ran[d] => \/ tool[d] \in Admitted("allow")
               \/ /\ tool[d] \in Admitted("needs_approval")
                  /\ d \in consented
                  /\ "needs_approval" \in trail[d]

\* The E-STOP was off at some moment since the permission, or it is in force
\* now; and a reading that says off settles which.
StopInv(d) ==
  /\ pc[d] # "idle" => clearSince[d] \/ S!InForce
  /\ pc[d] \in {"decide", "recheck"} /\ ~seen[d] => clearSince[d]
  /\ ran[d] => clearSince[d]

\* A result leaves _finish only after its audit row.
LogInv(d) ==
  /\ pc[d] = "audit" => outcome[d] \in Outcome
  /\ pc[d] \in {"persist", "returned"} => outcome[d] \in trail[d]
  /\ row[d] => pc[d] = "returned"

CallInv(d) == RequestInv(d) /\ ToolInv(d) /\ RunInv(d) /\ StopInv(d) /\ LogInv(d)

IInv ==
  /\ TypeOK
  /\ S!SwitchInv
  /\ A!EventMeansSettled
  /\ \A d \in Dispatch : CallInv(d)

-----------------------------------------------------------------------------
(* The permission engine. *)

\* Decide: what is let through was let through with the E-STOP off, below the
\* ceiling and below level 5, and without approval only below level 3.
LEMMA DecideFacts ==
  ASSUME NEW level \in Int, NEW configured \in Int, NEW engaged \in BOOLEAN
  PROVE  /\ Decide(level, configured, engaged) \in Decision
         /\ Decide(level, configured, engaged) # "deny" =>
              /\ ~engaged
              /\ Decide(level, configured, FALSE) = Decide(level, configured, engaged)
              /\ level \in 0 .. 4
              /\ level <= configured
         /\ Decide(level, configured, engaged) = "allow" => level < ApprovalFloor
         /\ Decide(level, configured, engaged) = "needs_approval" => level >= ApprovalFloor
  BY DEF Decide, Decision, Refused, Ceiling, AlwaysRefusedLevel, ApprovalFloor

\* The same, for the tools the manager looks up.
LEMMA AdmittedFacts ==
  ASSUME ConstantsAssumption, NEW t \in Registered, NEW engaged \in BOOLEAN
  PROVE  /\ Decide(Level[t], MaxLevel, engaged) = "allow" => t \in Admitted("allow")
         /\ Decide(Level[t], MaxLevel, engaged) = "needs_approval" =>
              t \in Admitted("needs_approval")
<1>1. Level[t] \in Int /\ MaxLevel \in Int
  BY DEF ConstantsAssumption
<1>2. QED
  BY <1>1, DecideFacts DEF Admitted

\* The levels behind the two kinds of admitted tool.
LEMMA AdmittedLevels ==
  ASSUME ConstantsAssumption, NEW t \in Registered
  PROVE  /\ Level[t] \in Int /\ MaxLevel \in Int
         /\ t \in Admitted("allow") => Level[t] \in 0 .. 2 /\ Level[t] <= MaxLevel
         /\ t \in Admitted("needs_approval") => Level[t] \in 3 .. 4 /\ Level[t] <= MaxLevel
<1>1. Level[t] \in Int /\ MaxLevel \in Int
  BY DEF ConstantsAssumption
<1>2. QED
  BY <1>1 DEF Admitted, Decide, Refused, Ceiling, AlwaysRefusedLevel, ApprovalFloor

-----------------------------------------------------------------------------
(* The E-STOP inside the manager. *)

\* A fresh switch: nothing is promised that a read would deny.
LEMMA SwitchInvInit == S!Init => S!SwitchInv
  BY DEF S!Init, S!SwitchInv, S!TypeOK, S!EngageHolds, S!InForce, S!IsEngaged, S!InFlight

\* An engage that starts undoes what a clear had established, and if it meets
\* no clear the flag it raises stays raised.
LEMMA BeginEngageKeeps ==
  ASSUME NEW o \in Operator, S!SwitchInv, S!BeginEngage(o)
  PROVE  S!SwitchInv'
  BY DEF S!BeginEngage, S!Begin, S!SwitchInv, S!TypeOK, S!EngageHolds, S!InForce,
         S!IsEngaged, S!InFlight

\* An engage that returns uncontended is seen wherever the switch is read.
LEMMA FinishEngageKeeps ==
  ASSUME NEW o \in Operator, S!SwitchInv, S!FinishEngage(o)
  PROVE  S!SwitchInv'
  BY DEF S!FinishEngage, S!Return, S!SwitchInv, S!TypeOK, S!EngageHolds, S!InForce,
         S!IsEngaged, S!InFlight

\* A clear that starts spoils the engages in flight and the promise made.
LEMMA BeginClearKeeps ==
  ASSUME NEW o \in Operator, S!SwitchInv, S!BeginClear(o)
  PROVE  S!SwitchInv'
  BY DEF S!BeginClear, S!Begin, S!SwitchInv, S!TypeOK, S!EngageHolds, S!InForce,
         S!IsEngaged, S!InFlight

\* A clear that returns deletes the key only while no engage has its promise.
LEMMA FinishClearKeeps ==
  ASSUME NEW o \in Operator, S!SwitchInv, S!FinishClear(o)
  PROVE  S!SwitchInv'
  BY DEF S!FinishClear, S!Return, S!SwitchInv, S!TypeOK, S!EngageHolds, S!InForce,
         S!IsEngaged, S!InFlight

\* Losing or regaining Redis ends the proviso; a restart ends every call.
LEMMA FaultKeeps ==
  ASSUME S!SwitchInv, S!RedisLost \/ S!RedisBack \/ S!ApiRestart
  PROVE  S!SwitchInv'
  BY DEF S!RedisLost, S!RedisBack, S!ApiRestart,
         S!SwitchInv, S!TypeOK, S!EngageHolds, S!InForce, S!IsEngaged, S!InFlight

\* Every step keeps the invariant.
LEMMA SwitchInvStep == S!SwitchInv /\ [S!Next]_(S!vars) => S!SwitchInv'
<1> SUFFICES ASSUME S!SwitchInv, [S!Next]_(S!vars) PROVE S!SwitchInv'
  OBVIOUS
<1>1. CASE S!OperatorStep
  BY <1>1, BeginEngageKeeps, FinishEngageKeeps, BeginClearKeeps, FinishClearKeeps
     DEF S!OperatorStep
<1>2. CASE S!RedisLost \/ S!RedisBack \/ S!ApiRestart
  BY <1>2, FaultKeeps
<1>3. CASE UNCHANGED S!vars
  BY <1>3 DEF S!vars, S!SwitchInv, S!TypeOK, S!EngageHolds, S!InForce, S!IsEngaged,
              S!InFlight
<1>4. QED
  BY <1>1, <1>2, <1>3 DEF S!Next

\* A step that leaves the switch alone keeps its invariant and its reading.
LEMMA SwitchRests ==
  ASSUME S!SwitchInv, UNCHANGED switch
  PROVE  /\ S!SwitchInv'
         /\ S!InForce' = S!InForce
  BY DEF switch, S!SwitchInv, S!TypeOK, S!EngageHolds, S!InForce, S!IsEngaged, S!InFlight

\* While the E-STOP is in force, a reading of it says engaged.
LEMMA ReadingTells ==
  ASSUME S!SwitchInv
  PROVE  /\ S!IsEngaged \in BOOLEAN
         /\ S!InForce => S!IsEngaged
  BY DEF S!SwitchInv, S!EngageHolds, S!IsEngaged, S!TypeOK

-----------------------------------------------------------------------------
(* One lemma per action: each keeps IInv. *)

\* Nothing of call e changes.
Frozen(e) ==
  /\ tool'[e] = tool[e] /\ pc'[e] = pc[e] /\ seen'[e] = seen[e] /\ outcome'[e] = outcome[e]
  /\ trail'[e] = trail[e] /\ row'[e] = row[e] /\ ran'[e] = ran[e]
  /\ clearSince'[e] = clearSince[e]
  /\ status'[e] = status[e] /\ waiter'[e] = waiter[e]
  /\ e \in consented => e \in consented'

\* ... and one it leaves alone keeps its part of the invariant.
LEMMA FrozenKeeps ==
  ASSUME NEW e \in Dispatch, CallInv(e), Frozen(e), S!InForce' = S!InForce
  PROVE  CallInv(e)'
<1>1. RequestInv(e)' /\ ToolInv(e)'
  BY DEF CallInv, Frozen, RequestInv, ToolInv, Admitted
<1>2. RunInv(e)'
  BY DEF CallInv, Frozen, RunInv, Admitted, Ended
<1>3. StopInv(e)' /\ LogInv(e)'
  BY DEF CallInv, Frozen, StopInv, LogInv
<1>4. QED
  BY <1>1, <1>2, <1>3 DEF CallInv

\* dispatch() is called: nothing is known of the call but its tool.
LEMMA CalledKeeps ==
  ASSUME ConstantsAssumption, IInv, NEW d \in Dispatch, NEW t \in Tool, Called(d, t)
  PROVE  IInv'
<1>1. UNCHANGED <<switch, status, event, waiter, seen, trail, row, ran, consented>>
  BY DEF Called, approvals, records
<1>2. S!SwitchInv' /\ S!InForce' = S!InForce /\ S!InForce \in BOOLEAN
  BY <1>1, SwitchRests DEF IInv, S!InForce, TypeOK, S!TypeOK
<1>3. TypeOK'
  BY <1>1, <1>2 DEF IInv, TypeOK, Called, Conclude, Goto, Point, Outcome, ConstantsAssumption,
     switch, A!TypeOK, S!TypeOK
<1>4. A!EventMeansSettled'
  BY <1>1 DEF IInv, A!EventMeansSettled
<1>5. ASSUME NEW e \in Dispatch, e # d PROVE CallInv(e)'
  BY <1>1, <1>2, <1>5, FrozenKeeps DEF IInv, TypeOK, Called, Conclude, Goto, Frozen
<1>6. CallInv(d)'
  <2>1. /\ pc'[d] \in {"read", "audit"}
        /\ pc'[d] = "read" => tool'[d] \in Registered
        /\ pc'[d] = "audit" => outcome'[d] = "error"
    BY DEF Called, Conclude, Goto, IInv, TypeOK
  <2>2. clearSince'[d] = ~S!InForce
    BY DEF Called, IInv, TypeOK
  <2>3. pc[d] = "idle"
    BY DEF Called
  <2>4. QED
    BY <1>1, <1>2, <2>1, <2>2, <2>3
       DEF IInv, CallInv, RequestInv, ToolInv, RunInv, StopInv, LogInv, Ended,
           Outcome
<1>7. QED
  BY <1>2, <1>3, <1>4, <1>5, <1>6 DEF IInv

\* A reading taken while the E-STOP is in force says engaged.
LEMMA ReadEStopKeeps ==
  ASSUME IInv, NEW d \in Dispatch,
         ReadEStop(d, "read", "decide") \/ ReadEStop(d, "reread", "recheck")
  PROVE  IInv'
<1>1. UNCHANGED <<switch, status, event, waiter, tool, outcome, trail, row,
                  ran, consented, clearSince>>
  BY DEF ReadEStop, approvals, records, history
<1>2. S!SwitchInv' /\ S!InForce' = S!InForce
  BY <1>1, SwitchRests DEF IInv
<1>3. /\ \/ pc[d] = "read" /\ pc'[d] = "decide"
         \/ pc[d] = "reread" /\ pc'[d] = "recheck"
      /\ seen'[d] = S!IsEngaged
  BY DEF IInv, TypeOK, ReadEStop, Goto
<1>4. TypeOK'
  BY <1>1, ReadingTells DEF IInv, TypeOK, ReadEStop, Goto, Point, switch, A!TypeOK, S!TypeOK
<1>5. A!EventMeansSettled'
  BY <1>1 DEF IInv, A!EventMeansSettled
<1>6. ASSUME NEW e \in Dispatch, e # d PROVE CallInv(e)'
  BY <1>1, <1>2, <1>6, FrozenKeeps DEF IInv, TypeOK, ReadEStop, Goto, Frozen
<1>7. StopInv(d)'
  BY <1>1, <1>2, <1>3, ReadingTells DEF IInv, CallInv, StopInv, RunInv, Ended
<1>8. (RequestInv(d) /\ ToolInv(d) /\ RunInv(d) /\ LogInv(d))'
  BY <1>1, <1>3 DEF IInv, CallInv, RequestInv, ToolInv, RunInv, LogInv, Ended, Admitted
<1>9. QED
  BY <1>2, <1>4, <1>5, <1>6, <1>7, <1>8 DEF IInv, CallInv

\* The decision: what runs at once or asks for approval was admitted.
LEMMA DecidedKeeps ==
  ASSUME ConstantsAssumption, IInv, NEW d \in Dispatch, Decided(d)
  PROVE  IInv'
<1> DEFINE decision == Decide(Level[tool[d]], MaxLevel, seen[d])
<1>1. /\ pc[d] = "decide" /\ tool[d] \in Registered /\ seen[d] \in BOOLEAN
      /\ status[d] = "absent" /\ waiter[d] = "none" /\ ~ran[d] /\ ~row[d]
      /\ clearSince[d] \/ S!InForce
      /\ ~seen[d] => clearSince[d]
  BY DEF Decided, IInv, TypeOK, CallInv, RequestInv, ToolInv, RunInv, StopInv, LogInv, Ended
<1>2. /\ UNCHANGED <<switch, tool, seen, trail, row, consented, clearSince>>
      /\ Level[tool[d]] \in Int /\ MaxLevel \in Int
  BY <1>1 DEF Decided, records, ConstantsAssumption
<1>3. /\ decision = "allow" => tool[d] \in Admitted("allow") /\ ~seen[d]
      /\ decision = "needs_approval" => tool[d] \in Admitted("needs_approval")
  BY <1>1, <1>2, DecideFacts, AdmittedFacts
<1>4. S!SwitchInv' /\ S!InForce' = S!InForce
  BY <1>2, SwitchRests DEF IInv
<1>5. CASE decision = "deny" \/ (decision = "allow" /\ tool[d] \notin Implemented)
  <2>1. /\ outcome' \in {[outcome EXCEPT ![d] = "denied"], [outcome EXCEPT ![d] = "error"]}
        /\ pc' = [pc EXCEPT ![d] = "audit"]
        /\ UNCHANGED <<status, event, waiter, ran>>
    BY <1>5 DEF Decided, Conclude, Execute, Goto, approvals
  <2>2. TypeOK' /\ A!EventMeansSettled'
    BY <1>2, <2>1 DEF IInv, TypeOK, Point, Outcome, switch, A!TypeOK, S!TypeOK,
                      A!EventMeansSettled
  <2>3. ASSUME NEW e \in Dispatch, e # d PROVE CallInv(e)'
    BY <1>2, <1>4, <2>1, <2>3, FrozenKeeps DEF IInv, TypeOK, Frozen
  <2>4. CallInv(d)'
    BY <1>1, <1>2, <1>4, <2>1
       DEF IInv, TypeOK, CallInv, RequestInv, ToolInv, RunInv, StopInv, LogInv, Ended,
           Outcome
  <2>5. QED
    BY <1>4, <2>2, <2>3, <2>4 DEF IInv
<1>6. CASE decision = "needs_approval"
  <2>1. /\ status' = [status EXCEPT ![d] = "pending"]
        /\ event' = [event EXCEPT ![d] = FALSE]
        /\ pc' = [pc EXCEPT ![d] = "log_request"]
        /\ UNCHANGED <<waiter, outcome, ran>>
    BY <1>6 DEF Decided, A!Register, Goto
  <2>2. TypeOK' /\ A!EventMeansSettled'
    BY <1>2, <2>1
       DEF IInv, TypeOK, Point, switch, A!TypeOK, A!Settled, S!TypeOK, A!EventMeansSettled
  <2>3. ASSUME NEW e \in Dispatch, e # d PROVE CallInv(e)'
    BY <1>2, <1>4, <2>1, <2>3, FrozenKeeps DEF IInv, TypeOK, A!TypeOK, Frozen
  <2>4. CallInv(d)'
    BY <1>1, <1>2, <1>3, <1>4, <1>6, <2>1
       DEF IInv, TypeOK, A!TypeOK, CallInv, RequestInv, ToolInv, RunInv, StopInv, LogInv,
           Ended, Admitted
  <2>5. QED
    BY <1>4, <2>2, <2>3, <2>4 DEF IInv
<1>7. CASE decision = "allow" /\ tool[d] \in Implemented
  <2>1. /\ ran' = [ran EXCEPT ![d] = TRUE]
        /\ pc' = [pc EXCEPT ![d] = "running"]
        /\ UNCHANGED <<status, event, waiter, outcome>>
    BY <1>7 DEF Decided, Execute, Goto, approvals
  <2>2. TypeOK' /\ A!EventMeansSettled'
    BY <1>2, <2>1 DEF IInv, TypeOK, Point, switch, A!TypeOK, S!TypeOK, A!EventMeansSettled
  <2>3. ASSUME NEW e \in Dispatch, e # d PROVE CallInv(e)'
    BY <1>2, <1>4, <2>1, <2>3, FrozenKeeps DEF IInv, TypeOK, Frozen
  <2>4. CallInv(d)'
    BY <1>1, <1>2, <1>3, <1>4, <1>7, <2>1
       DEF IInv, TypeOK, CallInv, RequestInv, ToolInv, RunInv, StopInv, LogInv, Ended, Admitted
  <2>5. QED
    BY <1>4, <2>2, <2>3, <2>4 DEF IInv
<1>8. QED
  BY <1>1, <1>2, <1>5, <1>6, <1>7, DecideFacts DEF Decision

\* The request is in the audit log before the call waits.
LEMMA LogRequestKeeps ==
  ASSUME IInv, NEW d \in Dispatch, LogRequest(d)
  PROVE  IInv'
<1>0. /\ pc[d] = "log_request" /\ waiter[d] = "none" /\ status[d] # "absent"
      /\ ~ran[d] /\ ~row[d]
  BY DEF LogRequest, IInv, CallInv, RequestInv, RunInv, LogInv, Ended
<1>1. /\ \/ /\ trail' = [trail EXCEPT ![d] = @ \cup {"needs_approval"}]
            /\ waiter' = [waiter EXCEPT ![d] = "waiting"]
            /\ pc' = [pc EXCEPT ![d] = "approval"]
         \/ /\ trail' \in {trail, [trail EXCEPT ![d] = @ \cup {"needs_approval"}]}
            /\ pc' = [pc EXCEPT ![d] = "raised"]
            /\ UNCHANGED waiter
      /\ UNCHANGED <<switch, status, event, tool, seen, outcome, row, ran, consented, clearSince>>
  BY DEF LogRequest, A!StartWait, Goto, approvals, history
<1>2. S!SwitchInv' /\ S!InForce' = S!InForce
  BY <1>1, SwitchRests DEF IInv
<1>3. TypeOK' /\ A!EventMeansSettled'
  BY <1>1 DEF IInv, TypeOK, Point, Ended, switch, A!TypeOK, S!TypeOK, A!EventMeansSettled
<1>4. ASSUME NEW e \in Dispatch, e # d PROVE CallInv(e)'
  BY <1>1, <1>2, <1>4, FrozenKeeps DEF IInv, TypeOK, A!TypeOK, Frozen
<1>5. CallInv(d)'
  <2>1. pc'[d] \in {"approval", "raised"} /\ (pc'[d] = "approval" => "needs_approval" \in trail'[d])
    BY <1>1 DEF IInv, TypeOK, A!TypeOK
  <2>2. RequestInv(d)' /\ ToolInv(d)'
    BY <1>0, <1>1, <2>1 DEF IInv, CallInv, RequestInv, ToolInv, Admitted
  <2>3. (RunInv(d) /\ StopInv(d) /\ LogInv(d))'
    BY <1>0, <1>1, <1>2, <2>1 DEF IInv, CallInv, RunInv, StopInv, LogInv, Ended
  <2>4. QED
    BY <2>2, <2>3 DEF CallInv
<1>6. QED
  BY <1>2, <1>3, <1>4, <1>5 DEF IInv

\* The call waits, is approved, or is turned away with its record closed.
LEMMA AwaitApprovalKeeps ==
  ASSUME IInv, NEW d \in Dispatch, AwaitApproval(d)
  PROVE  IInv'
<1>0. /\ pc[d] = "approval" /\ status[d] # "absent" /\ "needs_approval" \in trail[d]
      /\ ~ran[d] /\ ~row[d] /\ tool[d] \in Admitted("needs_approval")
      /\ event[d] => status[d] \in {"approved", "denied"}
  BY DEF AwaitApproval, IInv, CallInv, RequestInv, ToolInv, RunInv, LogInv, Ended,
         A!EventMeansSettled, A!Settled
<1>1. UNCHANGED <<switch, tool, seen, event, trail, row, ran, consented, clearSince>>
  BY DEF AwaitApproval, A!WaitStep, A!WaitReturns, A!TimerFires, A!TimeoutDenies,
         records, history
<1>2. S!SwitchInv' /\ S!InForce' = S!InForce
  BY <1>1, SwitchRests DEF IInv
<1>3. \/ /\ pc' = [pc EXCEPT ![d] = "reread"] /\ UNCHANGED <<outcome, status>>
         /\ waiter' = [waiter EXCEPT ![d] = "granted"] /\ status[d] = "approved"
      \/ /\ pc' = [pc EXCEPT ![d] = "audit"]
         /\ outcome' = [outcome EXCEPT ![d] = "denied"]
         /\ waiter' = [waiter EXCEPT ![d] = "refused"]
         /\ \/ UNCHANGED status /\ status[d] = "denied"
            \/ status' = [status EXCEPT ![d] = "denied"]
      \/ /\ UNCHANGED <<pc, outcome, status>>
         /\ waiter' = [waiter EXCEPT ![d] = "timing_out"]
  <2>1. waiter \in [Dispatch -> {"none", "waiting", "timing_out", "granted", "refused"}]
    BY DEF IInv, TypeOK, A!TypeOK
  <2>2. CASE A!WaitReturns(d)
    BY <1>0, <2>1, <2>2 DEF AwaitApproval, A!WaitReturns, Conclude, Goto
  <2>3. CASE A!TimerFires(d)
    BY <1>0, <2>1, <2>3 DEF AwaitApproval, A!TimerFires, Conclude, Goto
  <2>4. CASE A!TimeoutDenies(d)
    BY <1>0, <2>1, <2>4 DEF AwaitApproval, A!TimeoutDenies, Conclude, Goto
  <2>5. QED
    BY <2>2, <2>3, <2>4 DEF AwaitApproval, A!WaitStep
<1>4. TypeOK' /\ A!EventMeansSettled'
  BY <1>1, <1>3 DEF IInv, TypeOK, Point, Outcome, switch, A!TypeOK, A!Settled, S!TypeOK,
     A!EventMeansSettled
<1>5. ASSUME NEW e \in Dispatch, e # d PROVE CallInv(e)'
  BY <1>1, <1>2, <1>3, <1>5, FrozenKeeps DEF IInv, TypeOK, A!TypeOK, Frozen
<1>6. CallInv(d)'
  <2>1. /\ pc'[d] \in {"approval", "reread", "audit"}
        /\ pc'[d] = "reread" => status'[d] = "approved" /\ waiter'[d] = "granted"
        /\ pc'[d] = "audit" => status'[d] = "denied" /\ outcome'[d] = "denied"
        /\ status'[d] # "absent" /\ status'[d] \in {status[d], "denied"}
    BY <1>0, <1>3 DEF IInv, TypeOK, A!TypeOK
  <2>2. RequestInv(d)' /\ ToolInv(d)'
    BY <1>0, <1>1, <2>1 DEF IInv, CallInv, RequestInv, ToolInv, Admitted
  <2>3. (RunInv(d) /\ StopInv(d) /\ LogInv(d))'
    BY <1>0, <1>1, <1>2, <2>1 DEF IInv, CallInv, RunInv, StopInv, LogInv, Ended, Outcome
  <2>4. QED
    BY <2>2, <2>3 DEF CallInv
<1>7. QED
  BY <1>2, <1>4, <1>5, <1>6 DEF IInv

\* Behind the second reading: an approved call runs unless it said engaged.
LEMMA RecheckKeeps ==
  ASSUME IInv, NEW d \in Dispatch, Recheck(d)
  PROVE  IInv'
<1>0. /\ pc[d] = "recheck" /\ status[d] = "approved" /\ "needs_approval" \in trail[d]
      /\ ~ran[d] /\ ~row[d] /\ d \in consented
      /\ tool[d] \in Admitted("needs_approval")
      /\ ~seen[d] => clearSince[d]
  BY DEF Recheck, IInv, CallInv, RequestInv, ToolInv, RunInv, StopInv, LogInv, Ended
<1>1. UNCHANGED <<switch, status, event, waiter, tool, seen, trail, row, consented, clearSince>>
  BY DEF Recheck, approvals, records
<1>2. S!SwitchInv' /\ S!InForce' = S!InForce
  BY <1>1, SwitchRests DEF IInv
<1>3. \/ /\ pc' = [pc EXCEPT ![d] = "audit"] /\ UNCHANGED ran
         /\ \E result \in {"denied", "error"} : outcome' = [outcome EXCEPT ![d] = result]
      \/ /\ pc' = [pc EXCEPT ![d] = "running"] /\ UNCHANGED outcome
         /\ ran' = [ran EXCEPT ![d] = TRUE] /\ ~seen[d]
  BY DEF Recheck, Execute, Conclude, Goto
<1>4. TypeOK' /\ A!EventMeansSettled'
  <2>1. /\ pc' \in [Dispatch -> Point] /\ ran' \in [Dispatch -> BOOLEAN]
        /\ outcome' \in [Dispatch -> Outcome \cup {"none"}]
    BY <1>3 DEF IInv, TypeOK, Point, Outcome
  <2>2. QED
    BY <1>1, <2>1 DEF IInv, TypeOK, switch, A!TypeOK, S!TypeOK, A!EventMeansSettled
<1>5. ASSUME NEW e \in Dispatch, e # d PROVE CallInv(e)'
  BY <1>1, <1>2, <1>3, <1>5, FrozenKeeps DEF IInv, TypeOK, Frozen
<1>6. CallInv(d)'
  <2>1. /\ pc'[d] \in {"running", "audit"}
        /\ pc'[d] = "audit" => outcome'[d] \in Outcome
        /\ pc'[d] = "running" <=> ran'[d]
        /\ ran'[d] => clearSince[d]
    BY <1>0, <1>3 DEF IInv, TypeOK, Outcome
  <2>2. RequestInv(d)' /\ ToolInv(d)'
    BY <1>0, <1>1, <2>1 DEF IInv, CallInv, RequestInv, ToolInv, Admitted
  <2>3. (RunInv(d) /\ StopInv(d) /\ LogInv(d))'
    BY <1>0, <1>1, <1>2, <2>1 DEF IInv, CallInv, RunInv, StopInv, LogInv, Admitted
  <2>4. QED
    BY <2>2, <2>3 DEF CallInv
<1>7. QED
  BY <1>2, <1>4, <1>5, <1>6 DEF IInv

\* ToolEnds, Audit and Persist touch only the call's own result and records.
LEMMA FinishKeeps ==
  ASSUME IInv, NEW d \in Dispatch, ToolEnds(d) \/ Audit(d) \/ Persist(d)
  PROVE  IInv'
<1>1. UNCHANGED <<switch, status, event, waiter, tool, seen, ran, consented, clearSince>>
  BY DEF ToolEnds, Audit, Persist, approvals, history
<1>2. S!SwitchInv' /\ S!InForce' = S!InForce
  BY <1>1, SwitchRests DEF IInv
<1>3. \/ /\ pc[d] = "running" /\ pc' = [pc EXCEPT ![d] = "audit"]
         /\ \E result \in Outcome : outcome' = [outcome EXCEPT ![d] = result]
         /\ UNCHANGED <<trail, row>>
      \/ /\ pc[d] = "audit" /\ pc' = [pc EXCEPT ![d] = "persist"]
         /\ trail' = [trail EXCEPT ![d] = @ \cup {outcome[d]}]
         /\ UNCHANGED <<outcome, row>>
      \/ /\ pc[d] = "audit" /\ pc' = [pc EXCEPT ![d] = "raised"]
         /\ trail' \in {trail, [trail EXCEPT ![d] = @ \cup {outcome[d]}]}
         /\ UNCHANGED <<outcome, row>>
      \/ /\ pc[d] = "persist" /\ pc' = [pc EXCEPT ![d] = "returned"]
         /\ row' \in {row, [row EXCEPT ![d] = TRUE]}
         /\ UNCHANGED <<outcome, trail>>
  BY DEF ToolEnds, Audit, Persist, Conclude, Goto, records
<1>4. TypeOK'
  <2>1. pc[d] = "audit" => outcome[d] \in Outcome
    BY DEF IInv, CallInv, LogInv
  <2>2. /\ pc' \in [Dispatch -> Point]
        /\ outcome' \in [Dispatch -> Outcome \cup {"none"}]
        /\ row' \in [Dispatch -> BOOLEAN]
    <3>1. \E point \in Point : pc' = [pc EXCEPT ![d] = point]
      BY <1>3 DEF Point, Ended
    <3>2. \/ UNCHANGED outcome
          \/ \E result \in Outcome : outcome' = [outcome EXCEPT ![d] = result]
      BY <1>3
    <3>3. UNCHANGED row \/ row' = [row EXCEPT ![d] = TRUE]
      BY <1>3
    <3>4. pc' \in [Dispatch -> Point]
      BY <3>1 DEF IInv, TypeOK
    <3>5. outcome' \in [Dispatch -> Outcome \cup {"none"}]
      BY <3>2 DEF IInv, TypeOK
    <3>6. row' \in [Dispatch -> BOOLEAN]
      BY <3>3 DEF IInv, TypeOK
    <3>7. QED
      BY <3>4, <3>5, <3>6
  <2>3. trail' \in [Dispatch -> SUBSET (Outcome \cup {"needs_approval"})]
    <3>1. CASE UNCHANGED trail
      BY <3>1 DEF IInv, TypeOK
    <3>2. CASE pc[d] = "audit" /\ trail' = [trail EXCEPT ![d] = @ \cup {outcome[d]}]
      <4>1. trail[d] \cup {outcome[d]} \in SUBSET (Outcome \cup {"needs_approval"})
        BY <3>2, <2>1 DEF IInv, TypeOK
      <4>2. QED
        BY <3>2, <4>1 DEF IInv, TypeOK
    <3>3. QED
      BY <1>3, <3>1, <3>2
  <2>4. QED
    BY <1>1, <2>2, <2>3 DEF IInv, TypeOK, switch, A!TypeOK, S!TypeOK
<1>5. A!EventMeansSettled'
  BY <1>1 DEF IInv, A!EventMeansSettled
<1>6. ASSUME NEW e \in Dispatch, e # d PROVE CallInv(e)'
  BY <1>1, <1>2, <1>3, <1>6, FrozenKeeps DEF IInv, TypeOK, Frozen
<1>7. CallInv(d)'
  <2>1. /\ pc[d] \in {"running", "audit", "persist"}
        /\ pc'[d] \in {"audit", "persist", "returned", "raised"}
        /\ trail[d] \subseteq trail'[d]
    BY <1>3 DEF IInv, TypeOK
  <2>2. RequestInv(d)' /\ ToolInv(d)'
    BY <1>1, <2>1 DEF IInv, CallInv, RequestInv, ToolInv, RunInv, Admitted
  <2>3. RunInv(d)' /\ StopInv(d)'
    BY <1>1, <1>2, <2>1 DEF IInv, CallInv, RunInv, StopInv, Ended, Admitted
  <2>4. LogInv(d)'
    BY <1>3 DEF IInv, TypeOK, CallInv, LogInv
  <2>5. QED
    BY <2>2, <2>3, <2>4 DEF CallInv
<1>8. QED
  BY <1>2, <1>4, <1>5, <1>6, <1>7 DEF IInv

\* A person answers: what is pending becomes approved or denied, once.
LEMMA AnswerKeeps ==
  ASSUME IInv, NEW d \in Dispatch, NEW answer \in A!Settled, Answer(d, answer)
  PROVE  IInv'
<1>0. status[d] = "pending" /\ ~ran[d] /\ (pc[d] # "idle" => clearSince[d] \/ S!InForce)
  BY DEF Answer, A!Resolve, IInv, CallInv, RunInv, StopInv
<1>1. /\ UNCHANGED <<switch, waiter, tool, pc, seen, outcome, trail, row, ran>>
      /\ status' = [status EXCEPT ![d] = answer]
      /\ event' = [event EXCEPT ![d] = TRUE]
      /\ \/ UNCHANGED <<consented, clearSince>> /\ answer = "denied"
         \/ /\ consented' = consented \cup {d}
            /\ clearSince' = [clearSince EXCEPT ![d] = ~S!InForce]
  BY DEF Answer, A!Resolve, A!Settled, control, records
<1>2. S!SwitchInv' /\ S!InForce' = S!InForce /\ S!InForce \in BOOLEAN
  BY <1>1, SwitchRests DEF IInv, S!InForce, TypeOK, S!TypeOK
<1>3. TypeOK' /\ A!EventMeansSettled'
  BY <1>1, <1>2 DEF IInv, TypeOK, switch, A!TypeOK, A!Settled, S!TypeOK, A!EventMeansSettled
<1>4. ASSUME NEW e \in Dispatch, e # d PROVE CallInv(e)'
  BY <1>1, <1>2, <1>4, FrozenKeeps DEF IInv, TypeOK, A!TypeOK, Frozen
<1>5. CallInv(d)'
  <2>1. /\ status'[d] \in {"approved", "denied"}
        /\ status'[d] = "approved" => d \in consented'
        /\ clearSince'[d] \in {clearSince[d], ~S!InForce}
    BY <1>1 DEF IInv, TypeOK, A!TypeOK, A!Settled
  <2>2. RequestInv(d)' /\ ToolInv(d)'
    BY <1>0, <1>1, <2>1 DEF IInv, CallInv, RequestInv, ToolInv, Admitted
  <2>3. StopInv(d)'
    BY <1>0, <1>1, <1>2, <2>1 DEF IInv, CallInv, StopInv, RequestInv
  <2>4. RunInv(d)' /\ LogInv(d)'
    BY <1>0, <1>1 DEF IInv, CallInv, RunInv, LogInv, Ended
  <2>5. QED
    BY <2>2, <2>3, <2>4 DEF CallInv
<1>6. QED
  BY <1>2, <1>3, <1>4, <1>5 DEF IInv

\* The switch moves: what the calls know of it is of the past.
LEMMA SwitchStepKeeps ==
  ASSUME IInv, SwitchStep
  PROVE  IInv'
<1>1. /\ UNCHANGED <<status, event, waiter, tool, pc, seen, outcome, trail, row, ran, consented>>
      /\ clearSince' = [d \in Dispatch |-> clearSince[d] \/ ~S!InForce']
      /\ S!Next
  BY DEF SwitchStep, S!Next, approvals, control, records
<1>2. S!SwitchInv' /\ S!InForce' \in BOOLEAN
  BY <1>1, SwitchInvStep DEF IInv, S!InForce, S!SwitchInv, S!TypeOK
<1>3. TypeOK' /\ A!EventMeansSettled'
  BY <1>1, <1>2 DEF IInv, TypeOK, A!TypeOK, S!SwitchInv, A!EventMeansSettled
<1>4. ASSUME NEW e \in Dispatch PROVE CallInv(e)'
  <2>1. clearSince'[e] = (clearSince[e] \/ ~S!InForce')
    BY <1>1
  <2>2. RequestInv(e)' /\ ToolInv(e)'
    BY <1>1 DEF IInv, CallInv, RequestInv, ToolInv, Admitted
  <2>3. RunInv(e)' /\ LogInv(e)'
    BY <1>1 DEF IInv, CallInv, RunInv, LogInv, Ended, Admitted
  <2>4. StopInv(e)'
    BY <1>1, <2>1 DEF IInv, CallInv, StopInv
  <2>5. QED
    BY <2>2, <2>3, <2>4 DEF CallInv
<1>5. QED
  BY <1>2, <1>3, <1>4 DEF IInv

\* The process restarts: every call under way is lost, and so is its request.
LEMMA RestartKeeps ==
  ASSUME IInv, Restart
  PROVE  IInv'
<1>1. /\ UNCHANGED <<tool, seen, outcome, trail, row, ran, consented>>
      /\ pc' = [d \in Dispatch |-> IF pc[d] \in Ended \cup {"idle"} THEN pc[d] ELSE "lost"]
      /\ clearSince' = [d \in Dispatch |-> clearSince[d] \/ ~S!InForce']
      /\ status' = [d \in Dispatch |-> "absent"]
      /\ event' = [d \in Dispatch |-> FALSE]
      /\ waiter' = [d \in Dispatch |-> "none"]
      /\ S!Next
  BY DEF Restart, A!Forget, S!Next, records
<1>2. S!SwitchInv' /\ S!InForce' \in BOOLEAN
  BY <1>1, SwitchInvStep DEF IInv, S!InForce, S!SwitchInv, S!TypeOK
<1>3. TypeOK' /\ A!EventMeansSettled'
  BY <1>1, <1>2 DEF IInv, TypeOK, Point, Ended, A!TypeOK, S!SwitchInv, A!EventMeansSettled
<1>4. ASSUME NEW e \in Dispatch PROVE CallInv(e)'
  <2>1. /\ clearSince'[e] = (clearSince[e] \/ ~S!InForce')
        /\ status'[e] = "absent" /\ waiter'[e] = "none"
        /\ pc'[e] \in {"idle", "returned", "raised", "lost"}
        /\ pc[e] \in {"idle", "returned", "raised"} => pc'[e] = pc[e]
        /\ pc'[e] \in {"idle", "returned"} => pc'[e] = pc[e]
    BY <1>1 DEF Ended
  <2>2. RequestInv(e)' /\ ToolInv(e)'
    BY <1>1, <2>1 DEF IInv, CallInv, RequestInv, ToolInv
  <2>3. RunInv(e)' /\ LogInv(e)'
    BY <1>1, <2>1 DEF IInv, CallInv, RunInv, LogInv, Ended, Admitted
  <2>4. StopInv(e)'
    BY <1>1, <2>1 DEF IInv, CallInv, StopInv, RunInv, Ended
  <2>5. QED
    BY <2>2, <2>3, <2>4 DEF CallInv
<1>5. QED
  BY <1>2, <1>3, <1>4 DEF IInv

-----------------------------------------------------------------------------
(* The invariant, and what follows from it. *)

\* Before the first call.
LEMMA IInvInit == ConstantsAssumption /\ Init => IInv
<1> SUFFICES ASSUME ConstantsAssumption, Init PROVE IInv
  OBVIOUS
<1>1. S!SwitchInv
  BY DEF Init, S!Init, S!SwitchInv, S!TypeOK, S!EngageHolds, S!InForce, S!IsEngaged,
         S!InFlight
<1>2. TypeOK /\ A!EventMeansSettled
  BY <1>1 DEF Init, A!Init, TypeOK, Point, A!TypeOK, A!EventMeansSettled, S!SwitchInv
<1>3. ASSUME NEW d \in Dispatch PROVE CallInv(d)
  BY DEF Init, A!Init, CallInv, RequestInv, ToolInv, RunInv, StopInv, LogInv, Ended
<1>4. QED
  BY <1>1, <1>2, <1>3 DEF IInv

\* Every step keeps the invariant.
LEMMA IInvStep == ConstantsAssumption /\ IInv /\ [Next]_vars => IInv'
<1> SUFFICES ASSUME ConstantsAssumption, IInv, [Next]_vars PROVE IInv'
  OBVIOUS
<1>1. ASSUME NEW d \in Dispatch, NEW t \in Tool, Called(d, t) PROVE IInv'
  BY <1>1, CalledKeeps
<1>2. ASSUME NEW d \in Dispatch, DispatchStep(d) PROVE IInv'
  BY <1>2, ReadEStopKeeps, DecidedKeeps, LogRequestKeeps, AwaitApprovalKeeps, RecheckKeeps,
     FinishKeeps DEF DispatchStep
<1>3. ASSUME NEW d \in Dispatch, NEW answer \in A!Settled, Answer(d, answer) PROVE IInv'
  BY <1>3, AnswerKeeps
<1>4. CASE SwitchStep
  BY <1>4, SwitchStepKeeps
<1>5. CASE Restart
  BY <1>5, RestartKeeps
<1>6. CASE UNCHANGED vars
  <2>1. UNCHANGED <<switch, status, event, waiter, tool, pc, seen, outcome, trail, row,
                    ran, consented, clearSince>>
    BY <1>6 DEF vars, approvals, control, records, history
  <2>2. S!SwitchInv' /\ S!InForce' = S!InForce
    BY <2>1, SwitchRests DEF IInv
  <2>3. TypeOK' /\ A!EventMeansSettled'
    BY <2>1 DEF IInv, TypeOK, switch, S!TypeOK, A!TypeOK, A!EventMeansSettled
  <2>4. ASSUME NEW e \in Dispatch PROVE CallInv(e)'
    BY <2>1, <2>2, FrozenKeeps DEF IInv, Frozen
  <2>5. QED
    BY <2>2, <2>3, <2>4 DEF IInv
<1>7. QED
  BY <1>1, <1>2, <1>3, <1>4, <1>5, <1>6 DEF Next

\* Spec => []IInv: at every await the manager knows what IInv says.
THEOREM InvariantHolds == Spec => []IInv
<1>1. QED
  BY ConstantsAssumption, IInvInit, IInvStep, PTL DEF Spec

\* Spec => []TypeOK.
THEOREM TypesHold == Spec => []TypeOK
<1>1. IInv => TypeOK
  BY DEF IInv
<1>2. QED
  BY InvariantHolds, <1>1, PTL

\* Spec => []OnlyPermittedRuns: whatever the registry and the configured
\* ceiling, a tool runs only at a level they admit, never at level 5, and at
\* level 3 or 4 only with a person's approval of this call.
THEOREM GateHolds == Spec => []OnlyPermittedRuns
<1>1. IInv => OnlyPermittedRuns
  <2> SUFFICES ASSUME IInv, NEW d \in Dispatch, ran[d]
               PROVE  /\ tool[d] \in Registered /\ LevelOf(d) \in 0 .. 4
                      /\ LevelOf(d) <= MaxLevel
                      /\ LevelOf(d) >= 3 => d \in consented
    BY DEF OnlyPermittedRuns
  <2>1. tool[d] \in Admitted("allow") \/ (tool[d] \in Admitted("needs_approval") /\ d \in consented)
    BY DEF IInv, CallInv, RunInv
  <2>2. tool[d] \in Registered
    BY <2>1 DEF Admitted
  <2>3. QED
    BY <2>1, <2>2, ConstantsAssumption, AdmittedLevels DEF LevelOf
<1>2. QED
  BY InvariantHolds, <1>1, PTL

\* Spec => []StopObeyed: an E-STOP in force from before the permission on
\* stops the call, for any number of operators and calls.
THEOREM StopHolds == Spec => []StopObeyed
<1>1. IInv => StopObeyed
  BY DEF IInv, CallInv, StopInv, StopObeyed
<1>2. QED
  BY InvariantHolds, <1>1, PTL

\* Spec => []GatedRunIsLogged: the request precedes the gated run in the log.
THEOREM RequestLogged == Spec => []GatedRunIsLogged
<1>1. IInv => GatedRunIsLogged
  <2> SUFFICES ASSUME IInv, NEW d \in Dispatch, ran[d], LevelOf(d) >= ApprovalFloor
               PROVE  "needs_approval" \in trail[d]
    BY DEF GatedRunIsLogged
  <2>1. tool[d] \in Admitted("allow") \/ "needs_approval" \in trail[d]
    BY DEF IInv, CallInv, RunInv
  <2>2. tool[d] \in Admitted("allow") => tool[d] \in Registered
    BY DEF Admitted
  <2>3. tool[d] \in Admitted("allow") => ~(LevelOf(d) >= ApprovalFloor)
    BY <2>2, ConstantsAssumption, AdmittedLevels DEF LevelOf, ApprovalFloor
  <2>4. QED
    BY <2>1, <2>3
<1>2. QED
  BY InvariantHolds, <1>1, PTL

\* Spec => [](ReportedIsAudited /\ ReturnedIsSettled): what a caller is told
\* is in the audit log, and its request for approval is closed.
THEOREM ReportsHold == Spec => [](ReportedIsAudited /\ ReturnedIsSettled)
<1>1. IInv => ReportedIsAudited /\ ReturnedIsSettled
  BY DEF IInv, CallInv, LogInv, RequestInv, ReportedIsAudited, ReturnedIsSettled
<1>2. QED
  BY InvariantHolds, <1>1, PTL

\* Spec => []EngageHolds: an engage that met no clear is seen by every later
\* reading of dispatch until a clear starts, while Redis stays as it is.
THEOREM SwitchHolds == Spec => []EngageHolds
<1>1. IInv => EngageHolds
  BY DEF IInv, S!SwitchInv, EngageHolds
<1>2. QED
  BY InvariantHolds, <1>1, PTL

\* What one step may do to the record of a request that has been settled.
LEMMA SettledMoves ==
  ASSUME IInv, [Next]_vars, NEW r \in Dispatch, status[r] \in A!Settled, status'[r] # status[r]
  PROVE  status'[r] = "absent" \/ (waiter[r] = "timing_out" /\ status'[r] = "denied")
<1>0. status \in [Dispatch -> {"absent", "pending"} \cup A!Settled]
  BY DEF IInv, TypeOK, A!TypeOK
<1>1. ASSUME NEW d \in Dispatch, NEW t \in Tool, Called(d, t) PROVE FALSE
  BY <1>1 DEF Called, approvals
<1>2. ASSUME NEW d \in Dispatch, DispatchStep(d)
      PROVE  waiter[r] = "timing_out" /\ status'[r] = "denied"
  <2>1. CASE Decided(d)
    BY <2>1, <1>0 DEF Decided, A!Register, A!Settled, approvals
  <2>2. CASE AwaitApproval(d)
    BY <2>2, <1>0 DEF AwaitApproval, A!WaitStep, A!WaitReturns, A!TimerFires, A!TimeoutDenies
  <2>3. CASE LogRequest(d)
    BY <2>3 DEF LogRequest, A!StartWait, approvals
  <2>4. CASE \/ ReadEStop(d, "read", "decide") \/ ReadEStop(d, "reread", "recheck")
             \/ Recheck(d) \/ ToolEnds(d) \/ Audit(d) \/ Persist(d)
    BY <2>4 DEF ReadEStop, Recheck, ToolEnds, Audit, Persist, approvals
  <2>5. QED
    BY <1>2, <2>1, <2>2, <2>3, <2>4 DEF DispatchStep
<1>3. ASSUME NEW d \in Dispatch, NEW answer \in A!Settled, Answer(d, answer) PROVE FALSE
  BY <1>3, <1>0 DEF Answer, A!Resolve, A!Settled
<1>4. CASE SwitchStep \/ UNCHANGED vars
  BY <1>4 DEF SwitchStep, vars, approvals
<1>5. CASE Restart
  BY <1>5 DEF Restart, A!Forget
<1>6. QED
  BY <1>1, <1>2, <1>3, <1>4, <1>5 DEF Next

\* Spec => FirstAnswerStands: for any number of requests, an answer that was
\* taken is undone only by a timer that had already fired, or by a restart.
THEOREM FirstAnswerHolds == Spec => FirstAnswerStands
<1>1. IInv /\ [Next]_vars =>
        [\A r \in Dispatch :
           status[r] \in A!Settled /\ status'[r] # status[r] =>
             \/ status'[r] = "absent"
             \/ waiter[r] = "timing_out" /\ status'[r] = "denied"]_(A!vars)
  BY SettledMoves
<1>2. QED
  BY InvariantHolds, <1>1, PTL DEF Spec, FirstAnswerStands, A!FirstAnswerStands

-----------------------------------------------------------------------------
(* The manager implements GatedExecution. *)

\* A step that touches one call moves at most that call's stage.
LEMMA OneStageMoves ==
  ASSUME NEW d \in Dispatch,
         \A e \in Dispatch : e # d => pc'[e] = pc[e] /\ ran'[e] = ran[e]
  PROVE  /\ stages' = [stages EXCEPT ![d] = Stage(d)']
         /\ stages[d] = Stage(d)
  BY DEF stages, Stage, Ended

\* A call of dispatch asks for its tool, and does nothing else that shows.
LEMMA CalledRefines ==
  ASSUME IInv, NEW d \in Dispatch, NEW t \in Tool, Called(d, t)
  PROVE  G!Ask(d, t)
<1>1. /\ pc[d] = "idle" /\ pc'[d] \in {"read", "audit"} /\ ~ran[d]
      /\ \A e \in Dispatch : e # d => pc'[e] = pc[e]
      /\ UNCHANGED <<status, ran>> /\ tool' = [tool EXCEPT ![d] = t]
  BY DEF Called, Conclude, Goto, approvals, IInv, TypeOK, CallInv, RunInv, Ended
<1>2. stages' = [stages EXCEPT ![d] = Stage(d)'] /\ stages[d] = Stage(d)
  BY <1>1, OneStageMoves
<1>3. Stage(d) = "new" /\ Stage(d)' = "asked"
  BY <1>1 DEF Stage, Ended
<1>4. approved' = approved
  BY <1>1 DEF approved
<1>5. QED
  BY <1>1, <1>2, <1>3, <1>4 DEF G!Ask

\* Every step of dispatch starts the tool, ends the call, takes an approval
\* back before the tool has started, or is invisible.
LEMMA DispatchStepRefines ==
  ASSUME ConstantsAssumption, IInv, NEW d \in Dispatch, DispatchStep(d)
  PROVE  G!Start(d) \/ G!End(d) \/ G!Lapse(d) \/ UNCHANGED <<tool, stages, approved>>
<1>1. /\ UNCHANGED tool
      /\ \A e \in Dispatch : e # d => pc'[e] = pc[e] /\ ran'[e] = ran[e] /\ status'[e] = status[e]
  BY DEF DispatchStep, ReadEStop, Decided, LogRequest, AwaitApproval, Recheck, ToolEnds, Audit,
         Persist, Conclude, Execute, Goto, A!Register, A!StartWait, A!WaitStep, A!WaitReturns,
         A!TimerFires, A!TimeoutDenies, approvals, history, control, records, IInv, TypeOK, A!TypeOK
<1>2. stages' = [stages EXCEPT ![d] = Stage(d)'] /\ stages[d] = Stage(d)
  BY <1>1, OneStageMoves
<1>3. ASSUME Stage(d)' = Stage(d), status'[d] = "approved" <=> status[d] = "approved"
      PROVE  UNCHANGED <<tool, stages, approved>>
  BY <1>1, <1>2, <1>3 DEF stages, approved
<1>4. ASSUME Stage(d) \in {"asked", "running"}, Stage(d)' = "over", status'[d] = status[d]
      PROVE  G!End(d)
  BY <1>1, <1>2, <1>4 DEF G!End, approved
<1>5. ASSUME Stage(d) = "asked", Stage(d)' = "running", status'[d] = status[d],
             tool[d] \in Admitted("allow")
               \/ (tool[d] \in Admitted("needs_approval") /\ status[d] = "approved")
      PROVE  G!Start(d)
  BY <1>1, <1>2, <1>5 DEF G!Start, approved
<1>6. CASE ReadEStop(d, "read", "decide") \/ ReadEStop(d, "reread", "recheck")
  <2>1. Stage(d)' = Stage(d) /\ status'[d] = status[d]
    BY <1>6 DEF ReadEStop, Goto, approvals, history, Stage, Ended, IInv, TypeOK
  <2>2. QED
    BY <2>1, <1>3
<1>7. CASE Decided(d)
  <2>1. /\ pc[d] = "decide" /\ tool[d] \in Registered /\ seen[d] \in BOOLEAN
        /\ status[d] = "absent" /\ ~ran[d]
    BY <1>7 DEF Decided, IInv, TypeOK, CallInv, RequestInv, ToolInv, RunInv, Ended
  <2>2. \/ /\ pc'[d] \in {"audit", "log_request"} /\ ran'[d] = ran[d]
           /\ status'[d] # "approved"
        \/ /\ pc'[d] = "running" /\ status'[d] = status[d]
           /\ Decide(Level[tool[d]], MaxLevel, seen[d]) = "allow"
    BY <1>7, <2>1
       DEF Decided, Conclude, Execute, Goto, A!Register, approvals, IInv, TypeOK, A!TypeOK
  <2>3. Decide(Level[tool[d]], MaxLevel, seen[d]) = "allow" => tool[d] \in Admitted("allow")
    BY <2>1, AdmittedFacts
  <2>4. QED
    BY <1>3, <1>5, <2>1, <2>2, <2>3 DEF Stage, Ended
<1>8. CASE LogRequest(d)
  <2>1. /\ pc[d] = "log_request" /\ ~ran[d] /\ ran'[d] = ran[d] /\ status'[d] = status[d]
        /\ pc'[d] \in {"approval", "raised"}
    BY <1>8 DEF LogRequest, A!StartWait, Goto, approvals, history, IInv, TypeOK, CallInv,
                RunInv, Ended
  <2>2. QED
    BY <1>3, <1>4, <2>1 DEF Stage, Ended
<1>9. CASE AwaitApproval(d)
  <2>1. /\ pc[d] = "approval" /\ ~ran[d] /\ ran'[d] = ran[d]
        /\ pc'[d] \in {"approval", "reread", "audit"}
        /\ status'[d] \in {status[d], "denied"}
    BY <1>9 DEF AwaitApproval, A!WaitStep, A!WaitReturns, A!TimerFires, A!TimeoutDenies,
                Conclude, Goto, history, IInv, TypeOK, A!TypeOK, CallInv, RunInv, Ended
  <2>2. Stage(d) = "asked" /\ Stage(d)' = "asked"
    BY <2>1 DEF Stage, Ended
  <2>3. CASE status'[d] = status[d]
    BY <1>3, <2>2, <2>3
  <2>4. CASE status'[d] = "denied"
    <3>1. stages' = stages
      BY <1>2, <2>2 DEF stages
    <3>2. approved' = approved \ {d}
      BY <1>1, <2>4 DEF approved
    <3>3. QED
      BY <1>1, <1>2, <2>2, <3>1, <3>2 DEF G!Lapse
  <2>5. QED
    BY <2>1, <2>3, <2>4
<1>10. CASE Recheck(d)
  <2>1. /\ pc[d] = "recheck" /\ ~ran[d] /\ status'[d] = status[d] /\ status[d] = "approved"
        /\ tool[d] \in Admitted("needs_approval")
        /\ \/ pc'[d] = "audit" /\ ran'[d] = ran[d]
           \/ pc'[d] = "running"
    BY <1>10 DEF Recheck, Execute, Conclude, Goto, approvals, IInv, TypeOK, CallInv,
                 RequestInv, RunInv, Ended
  <2>2. QED
    BY <1>3, <1>5, <2>1 DEF Stage, Ended
<1>11. CASE ToolEnds(d) \/ Audit(d) \/ Persist(d)
  <2>1. /\ status'[d] = status[d] /\ ran'[d] = ran[d]
        /\ \/ pc[d] = "running" /\ pc'[d] = "audit" /\ ran[d]
           \/ pc[d] = "audit" /\ pc'[d] \in {"persist", "raised"}
           \/ pc[d] = "persist" /\ pc'[d] = "returned"
    BY <1>11 DEF ToolEnds, Audit, Persist, Conclude, Goto, approvals, history, IInv, TypeOK,
                 CallInv, RunInv
  <2>2. QED
    BY <1>3, <1>4, <2>1 DEF Stage, Ended
<1>12. QED
  BY <1>6, <1>7, <1>8, <1>9, <1>10, <1>11 DEF DispatchStep

\* An approval is consent; a denial does not show.
LEMMA AnswerRefines ==
  ASSUME IInv, NEW d \in Dispatch, NEW answer \in A!Settled, Answer(d, answer)
  PROVE  G!Consent(d) \/ UNCHANGED <<tool, stages, approved>>
<1>1. /\ status[d] = "pending" /\ status' = [status EXCEPT ![d] = answer]
      /\ UNCHANGED <<tool, pc, ran>>
      /\ answer \in {"approved", "denied"}
      /\ status \in [Dispatch -> {"absent", "pending", "approved", "denied"}]
  BY DEF Answer, A!Resolve, A!Settled, control, IInv, TypeOK, A!TypeOK
<1>2. tool[d] \in Admitted("needs_approval")
  BY <1>1 DEF IInv, CallInv, RequestInv
<1>3. UNCHANGED stages
  BY <1>1 DEF stages, Stage, Ended
<1>4. CASE answer = "approved"
  <2>1. approved' = approved \cup {d}
    BY <1>1, <1>4 DEF approved
  <2>2. QED
    BY <1>1, <1>2, <1>3, <2>1 DEF G!Consent
<1>5. CASE answer = "denied"
  <2>1. approved' = approved
    BY <1>1, <1>5 DEF approved
  <2>2. QED
    BY <1>1, <1>3, <2>1
<1>6. QED
  BY <1>1, <1>4, <1>5

\* A restart of the process is a crash.
LEMMA RestartRefines ==
  ASSUME IInv, Restart
  PROVE  G!Crash
<1>1. /\ UNCHANGED <<tool, ran>>
      /\ pc' = [d \in Dispatch |-> IF pc[d] \in Ended \cup {"idle"} THEN pc[d] ELSE "lost"]
      /\ status' = [d \in Dispatch |-> "absent"]
  BY DEF Restart, A!Forget
<1>2. approved' = {}
  BY <1>1 DEF approved
<1>3. ASSUME NEW d \in Dispatch
      PROVE  Stage(d)' = IF Stage(d) = "new" THEN "new" ELSE "over"
  <2>1. pc'[d] = IF pc[d] \in Ended \cup {"idle"} THEN pc[d] ELSE "lost"
    BY <1>1
  <2>2. QED
    BY <2>1, <1>1 DEF Stage, Ended
<1>4. stages' = [d \in Dispatch |-> IF stages[d] = "new" THEN "new" ELSE "over"]
  BY <1>3 DEF stages
<1>5. QED
  BY <1>1, <1>2, <1>4 DEF G!Crash

\* Every step is a step of GatedExecution or does not show.
LEMMA StepRefines == ConstantsAssumption /\ IInv /\ [Next]_vars => [G!Next]_(G!vars)
<1> SUFFICES ASSUME ConstantsAssumption, IInv, [Next]_vars
             PROVE  G!Next \/ UNCHANGED <<tool, stages, approved>>
  BY DEF G!vars
<1>1. ASSUME NEW d \in Dispatch, NEW t \in Tool, Called(d, t) PROVE G!Next
  BY <1>1, CalledRefines DEF G!Next
<1>2. ASSUME NEW d \in Dispatch, DispatchStep(d)
      PROVE  G!Next \/ UNCHANGED <<tool, stages, approved>>
  BY <1>2, DispatchStepRefines DEF G!Next
<1>3. ASSUME NEW d \in Dispatch, NEW answer \in A!Settled, Answer(d, answer)
      PROVE  G!Next \/ UNCHANGED <<tool, stages, approved>>
  BY <1>3, AnswerRefines DEF G!Next
<1>4. CASE SwitchStep
  <2>1. UNCHANGED <<tool, pc, ran, status>>
    BY <1>4 DEF SwitchStep, approvals, control
  <2>2. QED
    BY <2>1 DEF stages, Stage, Ended, approved
<1>5. CASE Restart
  BY <1>5, RestartRefines DEF G!Next
<1>6. CASE UNCHANGED vars
  BY <1>6 DEF vars, approvals, control, history, stages, Stage, Ended, approved
<1>7. QED
  BY <1>1, <1>2, <1>3, <1>4, <1>5, <1>6 DEF Next

\* Spec => Implements: every run of the manager, seen through Stage and the
\* approvals that stand, is a run of GatedExecution.
THEOREM ManagerImplements == Spec => Implements
<1>1. Init => G!Init
  BY DEF Init, A!Init, G!Init, stages, Stage, approved
<1>2. QED
  BY <1>1, ConstantsAssumption, InvariantHolds, StepRefines, PTL DEF Spec, Implements, G!Spec

=============================================================================
