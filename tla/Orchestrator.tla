---------------------------- MODULE Orchestrator ----------------------------
(***************************************************************************)
(* One orchestrated run: Orchestrator.run (backend/app/orchestrator/       *)
(* orchestrator.py) with its client, the runs and steps rows it writes,    *)
(* its budget (budget.py) and the E-STOP it reads.                         *)
(*                                                                         *)
(* The client polls the RunJob (jobs.py) that the background task of       *)
(* POST /api/runs keeps, or it is the runs page (frontend/src/app/runs/    *)
(* page.tsx) on the connection of ws_run (routes.py).  Both are told by    *)
(* events; the page only of those that arrive, and an emit on a broken     *)
(* connection goes nowhere or raises.  Nothing reconnects.                 *)
(*                                                                         *)
(* The plan comes from a language model and is any plan the schema admits: *)
(* step ids may repeat, dependencies may be missing or circular, a level   *)
(* may be one the database rejects.  Steps of a wave run concurrently; a   *)
(* step here is the code of one task between two awaits.  Every database   *)
(* write may raise, before or after it has committed.                      *)
(*                                                                         *)
(* What a step does inside (a dispatch, a model call) is left out: it ends *)
(* with some status, since _run_step turns every exception into "error".   *)
(* Seconds and dollars are two flags: the limit has been reached or not.   *)
(***************************************************************************)
EXTENDS Integers, Sequences, FiniteSets

CONSTANTS
  Plan,        \* plans the planner may return: sequences of steps
  MaxSteps     \* settings.max_steps

\* planner.py never returns a plan without steps.
ASSUME PlanAssumption ==
  /\ MaxSteps \in Nat
  /\ Plan \subseteq Seq([id : Int, deps : SUBSET Int, level : Int])
  /\ \A p \in Plan : p # <<>>

VARIABLES
  pc,          \* the await run() is at
  plan,        \* its plan
  stage,       \* of each step: how far its task has come
  result,      \* of each step: the status in its output
  wave,        \* the steps gather() is waiting for
  doneIds,     \* its local done_ids
  stepsUsed,   \* budget.steps_used
  overTime,    \* budget.elapsed() has reached max_seconds
  overCost,    \* budget.cost_usd has reached max_cost_usd
  seen,        \* the E-STOP reading run() holds
  verdict,     \* its local status
  row,         \* runs.status, "none" when there is no row
  stepRows,    \* steps.idx of the committed steps of this run
  job,         \* the client: via REST or a socket, whether events reach it,
               \* the status it shows, and that of each step id
  engaged,     \* EStop.is_engaged()
  clear        \* history: the E-STOP was off at some moment since run() last
               \* came to the top of its loop

control == <<pc, plan, wave, doneIds, verdict>>
tasks == <<stage, result>>
budget == <<stepsUsed, overTime, overCost>>
stop == <<seen, engaged, clear>>
rows == <<row, stepRows>>
vars == <<control, tasks, budget, stop, rows, job>>

Status == {"ok", "error", "timeout", "denied"}

Ended == {"returned", "raised", "lost"}

Ids(positions) == {plan[i].id : i \in positions}

\* What a client may show of the steps.
Shown == UNION {[ids -> Status \cup {"running"}] : ids \in SUBSET Ids(DOMAIN plan)}

Client ==
  [via : {"rest", "socket"}, link : BOOLEAN,
   status : {"running", "completed", "stopped", "refused", "error", "gone"},
   steps : Shown]

TypeOK ==
  /\ pc \in {"receive", "start", "refusing", "create", "plan", "save_plan", "wave", "check",
             "gather", "synthesize", "persist", "finish"} \cup Ended
  /\ plan \in Plan \cup {<<>>}
  /\ stage \in [DOMAIN plan -> {"waiting", "running", "saving", "done", "failed", "lost"}]
  /\ result \in [DOMAIN plan -> Status \cup {"none"}]
  /\ wave \subseteq DOMAIN plan
  /\ doneIds \subseteq Ids(DOMAIN plan)
  /\ stepsUsed \in 0 .. MaxSteps
  /\ overTime \in BOOLEAN
  /\ overCost \in BOOLEAN
  /\ seen \in BOOLEAN
  /\ verdict \in {"completed", "stopped"}
  /\ row \in {"none", "running", "completed", "stopped"}
  /\ stepRows \subseteq Ids(DOMAIN plan)
  /\ job \in Client
  /\ engaged \in BOOLEAN
  /\ clear \in BOOLEAN

Init ==
  /\ \E via \in {"rest", "socket"} :
       job = [via |-> via, link |-> TRUE, status |-> "running", steps |-> <<>>]
  /\ pc = IF job.via = "rest" THEN "start" ELSE "receive"
  /\ plan = <<>>
  /\ stage = <<>>
  /\ result = <<>>
  /\ wave = {}
  /\ doneIds = {}
  /\ stepsUsed = 0
  /\ overTime = FALSE
  /\ overCost = FALSE
  /\ seen = FALSE
  /\ verdict = "completed"
  /\ row = "none"
  /\ stepRows = {}
  /\ engaged \in BOOLEAN
  /\ clear = FALSE

-----------------------------------------------------------------------------
(* run(), up to its loop. *)

\* An emit to a broken connection.
MayRaise == ~job.link

\* halted, done and error say how the run does ...
Tell(status) == job' = IF job.link THEN [job EXCEPT !.status = status] ELSE job

\* ... step_start and step_result how the steps of these ids do.
TellSteps(ids, status) ==
  job' = IF job.link
         THEN [job EXCEPT !.steps = [id \in DOMAIN @ \cup ids |->
                                       IF id \in ids THEN status ELSE @[id]]]
         ELSE job

\* An exception leaves run(): _runner marks the job, or ws_run ends and its
\* connection with it.  Tasks that gather() had started go on.
Raise ==
  /\ pc' = "raised"
  /\ job' = IF job.via = "rest" THEN [job EXCEPT !.status = "error"]
            ELSE [job EXCEPT !.link = FALSE]

\* ws_run stores the goal as a message.
Receive ==
  /\ pc = "receive"
  /\ \/ pc' = "start" /\ UNCHANGED job
     \/ Raise
  /\ UNCHANGED <<plan, wave, doneIds, verdict, tasks, budget, stop, rows>>

\* The goal is screened: refused, which the page does not show, or the run
\* begins.
Prescreen ==
  /\ pc = "start"
  /\ \/ /\ pc' = "refusing"
        /\ IF job.via = "rest" THEN Tell("refused") ELSE UNCHANGED job
     \/ MayRaise /\ Raise
     \/ /\ pc' = "create"
        /\ UNCHANGED job
  /\ UNCHANGED <<plan, wave, doneIds, verdict, tasks, budget, stop, rows>>

\* The refusal is stored as a message, and run() returns.
Refuse ==
  /\ pc = "refusing"
  /\ \/ pc' = "returned" /\ UNCHANGED job
     \/ Raise
  /\ UNCHANGED <<plan, wave, doneIds, verdict, tasks, budget, stop, rows>>

CreateRun ==
  /\ pc = "create"
  /\ \/ pc' = "plan" /\ row' = "running" /\ UNCHANGED job
     \/ Raise /\ row' \in {row, "running"}
  /\ UNCHANGED <<plan, wave, doneIds, verdict, tasks, budget, stop, stepRows>>

\* The planner's model call answers (an answer that is no plan becomes a plan
\* of one step) or raises.
MakePlan ==
  /\ pc = "plan"
  /\ \/ /\ plan' \in Plan
        /\ stage' = [i \in DOMAIN plan' |-> "waiting"]
        /\ result' = [i \in DOMAIN plan' |-> "none"]
        /\ pc' = "save_plan"
        /\ UNCHANGED job
     \/ Raise /\ UNCHANGED <<plan, tasks>>
  /\ UNCHANGED <<wave, doneIds, verdict, budget, stop, rows>>

\* _save_plan, then the plan is emitted.
SavePlan ==
  /\ pc = "save_plan"
  /\ \/ pc' = "wave" /\ clear' = ~engaged /\ UNCHANGED job
     \/ Raise /\ UNCHANGED clear
  /\ UNCHANGED <<plan, wave, doneIds, verdict, tasks, budget, seen, engaged, rows>>

-----------------------------------------------------------------------------
(* The loop over waves. *)

\* Faulty: dependencies are not looked at.
Ready_Unordered == {i \in DOMAIN plan : plan[i].id \notin doneIds}

Ready == {i \in DOMAIN plan : plan[i].id \notin doneIds /\ plan[i].deps \subseteq doneIds}

\* Faulty: the E-STOP is read before the first wave only.
TopOfLoop_ReadsOnce ==
  /\ pc = "wave"
  /\ IF Cardinality(doneIds) = Len(plan) \/ Ready = {}
     THEN pc' = "synthesize" /\ UNCHANGED seen
     ELSE pc' = "check" /\ seen' = IF doneIds = {} THEN engaged ELSE seen
  /\ UNCHANGED <<plan, wave, doneIds, verdict, tasks, budget, engaged, clear, rows, job>>

\* Faulty: no way out when nothing is ready.
TopOfLoop_NoBreak ==
  /\ pc = "wave"
  /\ IF Cardinality(doneIds) = Len(plan)
     THEN pc' = "synthesize" /\ UNCHANGED seen
     ELSE pc' = "check" /\ seen' = engaged
  /\ UNCHANGED <<plan, wave, doneIds, verdict, tasks, budget, engaged, clear, rows, job>>

\* The loop ends, or the E-STOP is read.
TopOfLoop ==
  /\ pc = "wave"
  /\ IF Cardinality(doneIds) = Len(plan) \/ Ready = {}
     THEN pc' = "synthesize" /\ UNCHANGED seen
     ELSE pc' = "check" /\ seen' = engaged
  /\ UNCHANGED <<plan, wave, doneIds, verdict, tasks, budget, engaged, clear, rows, job>>

\* Budget.check.
WithinBudget == stepsUsed < MaxSteps /\ ~overTime /\ ~overCost

\* Faulty: everything that is ready starts.
NextWave_AllReady == Ready

\* ready[:remaining].
NextWave == {i \in Ready : Cardinality({j \in Ready : j <= i}) <= MaxSteps - stepsUsed}

\* Faulty: run() keeps its own status.
Halt_KeepsStatus ==
  /\ pc = "check"
  /\ seen \/ ~WithinBudget
  /\ pc' = "finish"
  /\ Tell("stopped")
  /\ UNCHANGED <<plan, wave, doneIds, verdict, tasks, budget, stop, rows>>

\* halted is emitted, and the loop ends.
Halt ==
  /\ pc = "check"
  /\ seen \/ ~WithinBudget
  /\ \/ pc' = "finish" /\ verdict' = "stopped" /\ Tell("stopped")
     \/ MayRaise /\ Raise /\ UNCHANGED verdict
  /\ UNCHANGED <<plan, wave, doneIds, tasks, budget, stop, rows>>

\* The emit before a wave of several steps raises.
StartRaises ==
  /\ pc = "check"
  /\ ~seen /\ WithinBudget
  /\ Cardinality(NextWave) > 1
  /\ MayRaise /\ Raise
  /\ UNCHANGED <<plan, wave, doneIds, verdict, tasks, budget, stop, rows>>

\* The wave is charged to the budget and its tasks start, back to back: each
\* emits step_start, which the page does not note with its steps, and runs into
\* its first await, unless that emit raises.
StartWave ==
  /\ pc = "check"
  /\ ~seen /\ WithinBudget
  /\ wave' = NextWave
  /\ stepsUsed' = stepsUsed + Cardinality(NextWave)
  /\ \E mute \in SUBSET NextWave :
       /\ mute # {} => MayRaise
       /\ stage' = [i \in DOMAIN plan |-> IF i \in mute THEN "failed"
                                         ELSE IF i \in NextWave THEN "running"
                                         ELSE stage[i]]
  /\ IF job.via = "rest" THEN TellSteps(Ids(NextWave), "running")
     ELSE UNCHANGED job
  /\ pc' = "gather"
  /\ UNCHANGED <<plan, doneIds, verdict, result, overTime, overCost, stop, rows>>

\* _run_step of a task returns; what it cost may have reached the limit.
StepEnds(i) ==
  /\ stage[i] = "running"
  /\ stage' = [stage EXCEPT ![i] = "saving"]
  /\ \E s \in Status : result' = [result EXCEPT ![i] = s]
  /\ overCost' \in {overCost, TRUE}
  /\ UNCHANGED <<control, stepsUsed, overTime, stop, rows, job>>

\* ck_step_tool_level and uq_step_run_idx.
Storable(i) == plan[i].level \in 0 .. 5 /\ plan[i].id \notin stepRows

\* _save_step, then step_result; a rejected or failed write, and an emit that
\* fails, raise in the task.
SaveStep(i) ==
  /\ stage[i] = "saving"
  /\ \/ /\ Storable(i)
        /\ stepRows' = stepRows \cup {plan[i].id}
        /\ stage' = [stage EXCEPT ![i] = "done"]
        /\ TellSteps({plan[i].id}, result[i])
     \/ /\ stepRows' \in {stepRows} \cup (IF Storable(i) THEN {stepRows \cup {plan[i].id}} ELSE {})
        /\ stage' = [stage EXCEPT ![i] = "failed"]
        /\ UNCHANGED job
  /\ UNCHANGED <<control, result, budget, stop, row>>

\* Faulty: the loop goes on as soon as one task has returned.
Gather_FirstDone ==
  /\ pc = "gather"
  /\ \/ /\ \E i \in wave : stage[i] = "done"
        /\ doneIds' = doneIds \cup {plan[i].id : i \in {k \in wave : stage[k] = "done"}}
        /\ pc' = "wave"
        /\ clear' = ~engaged
        /\ UNCHANGED job
     \/ /\ \E i \in wave : stage[i] = "failed"
        /\ Raise
        /\ UNCHANGED <<doneIds, clear>>
  /\ UNCHANGED <<plan, wave, verdict, tasks, budget, seen, engaged, rows>>

\* gather() returns when every task has, or raises as soon as one does.
Gather ==
  /\ pc = "gather"
  /\ \/ /\ \A i \in wave : stage[i] = "done"
        /\ doneIds' = doneIds \cup Ids(wave)
        /\ pc' = "wave"
        /\ clear' = ~engaged
        /\ UNCHANGED job
     \/ /\ \E i \in wave : stage[i] = "failed"
        /\ Raise
        /\ UNCHANGED <<doneIds, clear>>
  /\ UNCHANGED <<plan, wave, verdict, tasks, budget, seen, engaged, rows>>

-----------------------------------------------------------------------------
(* run(), after its loop. *)

\* The answer is streamed and scored; failures of either are swallowed, but the
\* first is told: the page shows it as the status, the job beside it.
Synthesize ==
  /\ pc = "synthesize"
  /\ \/ pc' = "persist" /\ UNCHANGED job
     \/ pc' = "persist" /\ job.via = "socket" /\ Tell("error")
     \/ MayRaise /\ Raise
  /\ UNCHANGED <<plan, wave, doneIds, verdict, tasks, budget, stop, rows>>

\* The answer is stored as a message, then "done" is emitted.
PersistFinal ==
  /\ pc = "persist"
  /\ \/ pc' = "finish" /\ Tell("completed")
     \/ Raise
  /\ UNCHANGED <<plan, wave, doneIds, verdict, tasks, budget, stop, rows>>

\* Faulty: the row is not updated; _runner overwrites what the events said.
FinishRun_NoRow ==
  /\ pc = "finish"
  /\ pc' = "returned"
  /\ UNCHANGED <<plan, wave, doneIds, verdict, tasks, budget, stop, rows, job>>

FinishRun_Overwrites ==
  /\ pc = "finish"
  /\ row' = verdict
  /\ pc' = "returned"
  /\ job' = [job EXCEPT !.status = "completed"]
  /\ UNCHANGED <<plan, wave, doneIds, verdict, tasks, budget, stop, stepRows>>

\* _finish_run, and the return to _runner or ws_run.
FinishRun ==
  /\ pc = "finish"
  /\ \/ /\ row' = verdict
        /\ pc' = "returned"
        /\ job' = [job EXCEPT !.status = IF job.via = "rest" /\ @ = "running"
                                         THEN "completed" ELSE @]
     \/ Raise /\ row' \in {row, verdict}
  /\ UNCHANGED <<plan, wave, doneIds, verdict, tasks, budget, stop, stepRows>>

RunStep ==
  \/ Receive \/ Prescreen \/ Refuse \/ CreateRun \/ MakePlan \/ SavePlan
  \/ TopOfLoop \/ Halt \/ StartRaises \/ StartWave \/ Gather
  \/ Synthesize \/ PersistFinal \/ FinishRun

TaskStep(i) == i \in DOMAIN plan /\ (StepEnds(i) \/ SaveStep(i))

-----------------------------------------------------------------------------
(* Around the run. *)

\* The E-STOP is engaged or cleared.
Switch ==
  /\ engaged' = ~engaged
  /\ clear' = (clear \/ ~engaged')
  /\ UNCHANGED <<control, tasks, budget, seen, rows, job>>

TimePasses ==
  /\ ~overTime
  /\ overTime' = TRUE
  /\ UNCHANGED <<control, tasks, stepsUsed, overCost, stop, rows, job>>

\* The connection breaks, or the page is closed.
Cut ==
  /\ job.via = "socket" /\ job.link
  /\ job' = [job EXCEPT !.link = FALSE]
  /\ UNCHANGED <<control, tasks, budget, stop, rows>>

\* The API process restarts: tasks, job and connection are gone, the rows and
\* what the page shows stay.
Restart ==
  /\ pc \notin {"receive", "start", "lost"}
  /\ pc' = "lost"
  /\ stage' = [i \in DOMAIN plan |-> IF stage[i] \in {"running", "saving"} THEN "lost" ELSE stage[i]]
  /\ job' = IF job.via = "rest" THEN [job EXCEPT !.status = "gone", !.steps = <<>>]
            ELSE [job EXCEPT !.link = FALSE]
  /\ UNCHANGED <<plan, wave, doneIds, verdict, result, budget, stop, rows>>

Positions == UNION {DOMAIN p : p \in Plan}

Next ==
  \/ RunStep
  \/ \E i \in Positions : TaskStep(i)
  \/ Switch
  \/ TimePasses
  \/ Cut
  \/ Restart

\* The event loop runs what is ready; statements, dispatches and model calls
\* return or raise (they have timeouts).
Fairness == WF_vars(RunStep) /\ \A i \in Positions : WF_vars(TaskStep(i))

Spec == Init /\ [][Next]_vars /\ Fairness

-----------------------------------------------------------------------------
(* The run as the execution of a plan. *)

\* A step is over when its result is stored, or it has failed or been lost ...
Stage ==
  [i \in DOMAIN plan |-> CASE stage[i] = "waiting" -> "waiting"
                          [] stage[i] \in {"running", "saving"} -> "running"
                          [] OTHER -> "over"]

\* ... and a run that ends without a word in its row is abandoned.
Outcome ==
  IF pc \notin Ended THEN "open"
  ELSE IF row \in {"completed", "stopped"} THEN row
  ELSE "abandoned"

P == INSTANCE PlanExecution WITH
  stage <- Stage, stored <- stepRows, outcome <- Outcome

\* The run implements PlanExecution: whatever the plan, and whatever fails,
\* breaks or is engaged meanwhile, steps run in waves that do not overlap, each
\* at most once, after what it depends on and within the budget; and once the
\* row says how the run ended, or run() is left, no step starts any more.
Implements == P!Spec

-----------------------------------------------------------------------------
(* Properties. *)

Started == {i \in DOMAIN plan : stage[i] # "waiting"}

\* budget.py "step ... limits are hard": waves and all, no more steps than
\* max_steps ever start.
StepsWithinBudget == Cardinality(Started) <= MaxSteps

\* A step starts only after the results of all it depends on are stored.
DependenciesFirst == \A i \in Started : plan[i].deps \subseteq stepRows

\* No step starts twice, whatever ids and dependencies the plan has.
StartsOnce ==
  [][\A i \in DOMAIN plan :
       stage'[i] = "running" => stage[i] \in {"waiting", "running"}]_vars

\* A run is recorded as completed only when every step that could ever run
\* has, and its result is stored.
CompletedMeansDone == row = "completed" => P!Satisfiable \subseteq stepRows

\* When run() has returned, the job a client polls agrees with the runs row and
\* shows no step as running; so does the page, if its connection has held, but
\* for a refusal.
JobAgrees ==
  pc = "returned" =>
    /\ row = "none" /\ job.via = "rest" => job.status = "refused"
    /\ row # "none" /\ job.link => job.status = row
    /\ \A id \in DOMAIN job.steps : job.steps[id] # "running"

\* What a client saw as stopped never turns into completed, nor the reverse: a
\* status that says how the run ended changes only to "error" (or is lost).
JobSettles ==
  [][job.status \in {"completed", "stopped", "refused"} /\ job.status' # job.status =>
       job.status' \in {"error", "gone"}]_vars

\* An E-STOP engaged since before a wave ended lets no further step start.
StopHaltsWaves ==
  [][\A i \in DOMAIN plan : stage[i] = "waiting" /\ stage'[i] = "running" => clear]_vars

\* Every run ends, whatever the plan.
RunEnds == <>(pc \in Ended)

=============================================================================
