------------------------- MODULE Orchestrator_proofs -------------------------
(***************************************************************************)
(* The safety of a run, for any plans, any budget and either client.       *)
(***************************************************************************)
EXTENDS Orchestrator, FiniteSetTheorems, TLAPS

-----------------------------------------------------------------------------
(* What is inductive. *)

Early == {"receive", "start", "refusing", "create", "plan"}

InLoop == {"wave", "check", "gather"}

\* Before the loop nothing has been done.
FreshInv ==
  /\ pc \in Early => plan = <<>>
  /\ pc \in Early \cup {"save_plan"} =>
       /\ doneIds = {} /\ wave = {} /\ stepRows = {} /\ stepsUsed = 0
       /\ \A i \in DOMAIN plan : stage[i] = "waiting"
       /\ DOMAIN job.steps = {}

\* What counts as done is stored, and what has started was charged.
BookInv ==
  /\ doneIds \subseteq stepRows
  /\ \A i \in DOMAIN plan : stage[i] = "saving" => result[i] \in Status
  /\ \A i \in DOMAIN plan : stage[i] = "done" => plan[i].id \in stepRows
  /\ Cardinality(Started) <= stepsUsed

\* Whatever has started is done or in the wave.
WaveInv ==
  /\ pc \in {"wave", "check"} => \A i \in Started : plan[i].id \in doneIds
  /\ pc = "gather" => \A i \in Started : i \in wave \/ plan[i].id \in doneIds

StopInv ==
  /\ pc = "wave" /\ ~engaged => clear
  /\ pc = "check" /\ ~seen => clear

\* The loop ends without a halt only when nothing is left that can be done.
EndInv ==
  /\ pc \notin Ended \cup {"finish"} => verdict = "completed"
  /\ pc \in {"synthesize", "persist", "finish"} /\ verdict = "completed" =>
       P!Satisfiable \subseteq doneIds
  /\ row \in {"completed", "stopped"} => pc \in Ended
  /\ pc \in {"receive", "start", "refusing", "create"} => row = "none"

\* What the client was told so far.
ToldInv ==
  /\ job.via = "rest" => job.link
  /\ pc \in (Early \ {"refusing"}) \cup InLoop \cup {"save_plan", "synthesize"} => job.status = "running"
  /\ pc = "refusing" /\ job.via = "rest" => job.status = "refused"
  /\ pc = "refusing" /\ job.via = "socket" => job.status = "running"
  /\ pc = "persist" => job.status \in {"running", "error"}
  /\ pc = "finish" /\ job.link => job.status = verdict

\* A step shown as running is in the wave and not yet done.
ShownInv ==
  /\ job.via = "socket" => \A id \in DOMAIN job.steps : job.steps[id] # "running"
  /\ pc \in {"wave", "check", "synthesize", "persist", "finish"} =>
       \A id \in DOMAIN job.steps : job.steps[id] # "running"
  /\ pc = "gather" =>
       \A id \in DOMAIN job.steps : job.steps[id] = "running" =>
         /\ id \in Ids(wave)
         /\ \A i \in wave : plan[i].id = id => stage[i] # "done"

\* Outside a wave no task is under way, nor has one failed.
SettledInv ==
  /\ pc \in {"wave", "check", "synthesize", "persist", "finish"} =>
       \A i \in DOMAIN plan : stage[i] \in {"waiting", "done"}
  /\ pc = "gather" => \A i \in DOMAIN plan \ wave : stage[i] \in {"waiting", "done"}

RunInv ==
  /\ TypeOK
  /\ FreshInv
  /\ BookInv
  /\ WaveInv
  /\ StopInv
  /\ EndInv
  /\ ToldInv
  /\ ShownInv
  /\ DependenciesFirst
  /\ CompletedMeansDone
  /\ JobAgrees

-----------------------------------------------------------------------------
\* Everything but the control point and what goes with it is left alone.
Quiet == UNCHANGED <<plan, tasks, wave, doneIds, stepRows, stepsUsed>>

-----------------------------------------------------------------------------
(* The plan, the wave and what can be done. *)

\* A plan is a finite sequence of steps.
LEMMA PlanType ==
  ASSUME TypeOK
  PROVE  /\ Len(plan) \in Nat
         /\ DOMAIN plan = 1 .. Len(plan)
         /\ \A i \in DOMAIN plan : plan[i].id \in Int
         /\ IsFiniteSet(DOMAIN plan)
<1>1. plan \in Seq([id : Int, deps : SUBSET Int, level : Int])
  BY PlanAssumption DEF TypeOK
<1>2. Len(plan) \in Nat /\ DOMAIN plan = 1 .. Len(plan)
  BY <1>1
<1>3. ASSUME NEW i \in DOMAIN plan
      PROVE  plan[i].id \in Int
  <2> DEFINE S == [id : Int, deps : SUBSET Int, level : Int]
  <2>1. plan[i] \in S
    <3>1. plan \in Seq(S) /\ i \in 1 .. Len(plan)
      BY <1>1, <1>2
    <3> HIDE DEF S
    <3>2. QED
      BY <3>1
  <2>2. QED
    BY <2>1
<1>4. IsFiniteSet(1 .. Len(plan))
  BY <1>2, FS_Interval
<1>5. QED
  BY <1>2, <1>3, <1>4

\* The steps that a client shows are steps of the plan, with a status.
LEMMA ShownType ==
  ASSUME NEW f \in Shown
  PROVE  /\ DOMAIN f \in SUBSET Ids(DOMAIN plan)
         /\ \A id \in DOMAIN f : f[id] \in Status \cup {"running"}
  BY DEF Shown

LEMMA ShownIs ==
  ASSUME NEW ids \in SUBSET Ids(DOMAIN plan), NEW f \in [ids -> Status \cup {"running"}]
  PROVE  f \in Shown
  BY DEF Shown

\* There are no more ids than steps.
LEMMA AllDone ==
  ASSUME TypeOK, Cardinality(doneIds) = Len(plan)
  PROVE  doneIds = Ids(DOMAIN plan)
<1> DEFINE f == [i \in 1 .. Len(plan) |-> plan[i].id]
<1>1. /\ Len(plan) \in Nat /\ DOMAIN plan = 1 .. Len(plan)
      /\ IsFiniteSet(DOMAIN plan)
  BY PlanType
<1>2. f \in Surjection(1 .. Len(plan), Ids(DOMAIN plan))
  BY <1>1 DEF Surjection, Ids
<1>3. ExistsSurjection(1 .. Len(plan), Ids(DOMAIN plan))
  BY <1>2 DEF ExistsSurjection
<1>4. Cardinality(Ids(DOMAIN plan)) <= Len(plan)
  BY <1>1, <1>3, FS_SurjCardinalityBound
<1>5. IsFiniteSet(Ids(DOMAIN plan))
  BY <1>1, <1>2, FS_Surjection
<1>6. /\ Cardinality(doneIds) <= Cardinality(Ids(DOMAIN plan))
      /\ Cardinality(Ids(DOMAIN plan)) = Cardinality(doneIds) => Ids(DOMAIN plan) = doneIds
  BY <1>5, FS_Subset DEF TypeOK
<1>7. Cardinality(Ids(DOMAIN plan)) \in Nat
  BY <1>5, FS_CardinalityType
<1>8. QED
  BY <1>1, <1>4, <1>6, <1>7

\* When nothing is ready, what is done is closed under the plan.
LEMMA NothingLeft ==
  ASSUME TypeOK, Cardinality(doneIds) = Len(plan) \/ Ready = {}
  PROVE  P!Satisfiable \subseteq doneIds
<1>1. CASE Cardinality(doneIds) = Len(plan)
  BY <1>1, AllDone DEF P!Satisfiable, P!Ids, Ids
<1>2. CASE Ready = {}
  <2>1. P!Closed(doneIds)
    BY <1>2 DEF Ready, P!Closed
  <2>2. doneIds \in SUBSET Ids(DOMAIN plan)
    BY DEF TypeOK
  <2>3. QED
    BY <2>1, <2>2 DEF P!Satisfiable, P!Ids, Ids
<1>3. QED
  BY <1>1, <1>2

\* A set of naturals has a greatest element below a bound.
LEMMA Greatest ==
  ASSUME NEW S \in SUBSET Nat, S # {}, NEW n \in Nat, \A i \in S : i <= n
  PROVE  \E m \in S : \A i \in S : i <= m
<1> DEFINE B == {k \in Nat : \A i \in S : i <= k}
<1>1. \E k \in B : \A l \in B : ~ (<<l, k>> \in OpToRel(<, Nat))
  BY NatLessThanWellFounded, WFMin, n \in B
<1>2. PICK k \in B : \A l \in B : ~ (l < k)
  BY <1>1 DEF OpToRel
<1>3. CASE k = 0
  <2>1. \A i \in S : i <= 0 /\ i \in Nat
    BY <1>3
  <2>2. PICK i \in S : TRUE
    OBVIOUS
  <2>3. i <= 0 /\ i \in Nat
    BY <2>1
  <2>4. \A l \in S : l <= i
    BY <2>1, <2>3
  <2>5. QED
    BY <2>4
<1>4. CASE k # 0
  <2>1. k - 1 \in Nat /\ k - 1 \notin B
    BY <1>2, <1>4
  <2>2. PICK i \in S : ~ (i <= k - 1)
    BY <2>1
  <2>3. i = k
    BY <2>2
  <2>4. QED
    BY <2>3
<1>5. QED
  BY <1>3, <1>4

\* The slice ready[:remaining] is no longer than what remains.
LEMMA WaveFits ==
  ASSUME TypeOK
  PROVE  /\ IsFiniteSet(NextWave)
         /\ Cardinality(NextWave) <= MaxSteps - stepsUsed
         /\ NextWave \subseteq Ready
         /\ Ready \subseteq DOMAIN plan
<1>1. /\ Len(plan) \in Nat /\ DOMAIN plan = 1 .. Len(plan)
      /\ IsFiniteSet(DOMAIN plan)
  BY PlanType
<1>2. NextWave \subseteq Ready /\ Ready \subseteq DOMAIN plan
  BY DEF NextWave, Ready
<1>3. IsFiniteSet(NextWave) /\ IsFiniteSet(Ready)
  BY <1>1, <1>2, FS_Subset
<1>4. MaxSteps - stepsUsed \in Nat
  BY PlanAssumption DEF TypeOK
<1>5. CASE NextWave = {}
  BY <1>2, <1>3, <1>4, <1>5, FS_EmptySet
<1>6. CASE NextWave # {}
  <2>1. PICK m \in NextWave : \A i \in NextWave : i <= m
    <3>1. NextWave \in SUBSET Nat /\ \A i \in NextWave : i <= Len(plan)
      BY <1>1, <1>2
    <3>2. QED
      BY <3>1, <1>1, <1>6, Greatest
  <2> DEFINE upTo == {j \in Ready : j <= m}
  <2>2. Cardinality(upTo) <= MaxSteps - stepsUsed
    BY <2>1 DEF NextWave
  <2>3. NextWave \in SUBSET upTo
    BY <1>2, <2>1
  <2>4. IsFiniteSet(upTo)
    BY <1>3, FS_Subset
  <2>5. Cardinality(NextWave) <= Cardinality(upTo)
    BY <2>3, <2>4, FS_Subset
  <2>6. Cardinality(NextWave) \in Nat /\ Cardinality(upTo) \in Nat
    BY <1>3, <2>4, FS_CardinalityType
  <2>7. QED
    BY <1>2, <1>3, <1>4, <2>2, <2>5, <2>6
<1>7. QED
  BY <1>5, <1>6

-----------------------------------------------------------------------------
(* run(), outside its tasks. *)

LEMMA SameSatisfiable ==
  ASSUME UNCHANGED plan
  PROVE  P!Satisfiable' = P!Satisfiable
BY DEF P!Satisfiable, P!Closed, P!Ids

\* What run() has booked stays booked.
LEMMA QuietKeeps ==
  ASSUME RunInv, Quiet
  PROVE  BookInv' /\ DependenciesFirst'
BY DEF RunInv, Quiet, tasks, BookInv, DependenciesFirst, Started

\* The parts of the type invariant that quiet actions do not touch.
LEMMA QuietTypes ==
  ASSUME TypeOK, Quiet,
         pc' \in {"receive", "start", "refusing", "create", "plan", "save_plan", "wave", "check",
                  "gather", "synthesize", "persist", "finish"} \cup Ended,
         UNCHANGED <<overTime, overCost, verdict>> \/
           (overTime' \in BOOLEAN /\ overCost' \in BOOLEAN /\ verdict' \in {"completed", "stopped"}),
         UNCHANGED stop \/ (seen' \in BOOLEAN /\ engaged' \in BOOLEAN /\ clear' \in BOOLEAN),
         row' \in {"none", "running", "completed", "stopped"},
         job'.steps = job.steps,
         job' \in Client
  PROVE  TypeOK'
BY DEF TypeOK, Quiet, tasks, stop, Ids, Shown, Client

LEMMA JobType ==
  ASSUME TypeOK
  PROVE  /\ job \in Client
         /\ DOMAIN job.steps \in SUBSET Ids(DOMAIN plan)
         /\ \A id \in DOMAIN job.steps : job.steps[id] \in Status \cup {"running"}
<1>1. job \in Client
  BY DEF TypeOK
<1>2. job.steps \in Shown
  BY <1>1 DEF Client
<1>3. QED
  BY <1>1, <1>2, ShownType

\* An exception ends the run wherever it comes from.
LEMMA RaiseKeeps ==
  ASSUME RunInv, Raise, Quiet, UNCHANGED <<verdict, overTime, overCost, stop>>,
         row' \in {"none", "running", "completed", "stopped"},
         CompletedMeansDone'
  PROVE  RunInv'
<1>1. /\ pc' = "raised"
      /\ job' = [job EXCEPT !.status = "error"] \/ job' = [job EXCEPT !.link = FALSE]
      /\ job.via = "rest" => job' = [job EXCEPT !.status = "error"]
  BY DEF Raise
<1>2. /\ job \in Client
      /\ TypeOK
  BY JobType DEF RunInv
<1>3. /\ job'.steps = job.steps /\ job'.via = job.via
      /\ job.via = "rest" => job'.link = job.link
      /\ job' \in Client
  BY <1>1, <1>2 DEF Client
<1>4. TypeOK'
  BY <1>1, <1>2, <1>3, QuietTypes DEF Ended
<1>5. BookInv' /\ DependenciesFirst'
  BY QuietKeeps
<1>6. FreshInv' /\ WaveInv' /\ StopInv' /\ EndInv'
  BY <1>1 DEF FreshInv, Early, WaveInv, StopInv, EndInv, Ended
<1>7. ToldInv' /\ ShownInv' /\ JobAgrees'
  BY <1>1, <1>3 DEF RunInv, ToldInv, Early, InLoop, ShownInv, JobAgrees
<1>8. QED
  BY <1>4, <1>5, <1>6, <1>7 DEF RunInv

LEMMA TellType ==
  ASSUME job \in Client,
         NEW status \in {"running", "completed", "stopped", "refused", "error", "gone"},
         Tell(status)
  PROVE  /\ job' \in Client
         /\ job'.steps = job.steps /\ job'.via = job.via /\ job'.link = job.link
         /\ job'.status = IF job.link THEN status ELSE job.status
BY DEF Client, Tell

\* The row is not completed before the run has ended.
LEMMA SameRowKeeps ==
  ASSUME RunInv, Quiet, row' = row \/ row' = "running"
  PROVE  CompletedMeansDone'
BY SameSatisfiable DEF RunInv, Quiet, CompletedMeansDone

LEMMA ReceiveKeeps ==
  ASSUME RunInv, Receive
  PROVE  RunInv'
<1>1. /\ pc = "receive" /\ Quiet
      /\ UNCHANGED <<verdict, overTime, overCost, stop, row>>
      /\ (pc' = "start" /\ UNCHANGED job) \/ Raise
  BY DEF Receive, Quiet, budget, rows
<1>2. CASE Raise
  BY <1>1, <1>2, RaiseKeeps, SameRowKeeps DEF RunInv, TypeOK
<1>3. CASE pc' = "start" /\ UNCHANGED job
  <2>1. TypeOK'
    BY <1>1, <1>3, QuietTypes DEF RunInv, TypeOK
  <2>2. BookInv' /\ DependenciesFirst' /\ CompletedMeansDone'
    BY <1>1, QuietKeeps, SameRowKeeps
  <2>3. FreshInv' /\ WaveInv' /\ StopInv'
    BY <1>1, <1>3 DEF RunInv, FreshInv, Early, WaveInv, StopInv, Quiet, tasks
  <2>4. EndInv'
    BY <1>1, <1>3 DEF RunInv, EndInv, Ended
  <2>5. ToldInv' /\ ShownInv' /\ JobAgrees'
    BY <1>1, <1>3 DEF RunInv, ToldInv, Early, InLoop, ShownInv, JobAgrees
  <2>6. QED
    BY <2>1, <2>2, <2>3, <2>4, <2>5 DEF RunInv
<1>4. QED
  BY <1>1, <1>2, <1>3

LEMMA PrescreenKeeps ==
  ASSUME RunInv, Prescreen
  PROVE  RunInv'
<1>1. /\ pc = "start" /\ Quiet
      /\ UNCHANGED <<verdict, overTime, overCost, stop, row>>
      /\ \/ pc' = "refusing" /\ job.via = "rest" /\ Tell("refused")
         \/ pc' = "refusing" /\ job.via # "rest" /\ UNCHANGED job
         \/ Raise
         \/ pc' = "create" /\ UNCHANGED job
  BY DEF Prescreen, Quiet, budget, rows
<1>2. job \in Client /\ TypeOK /\ job.status = "running"
  BY <1>1, JobType DEF RunInv, ToldInv, Early
<1>3. BookInv' /\ DependenciesFirst' /\ CompletedMeansDone'
  BY <1>1, QuietKeeps, SameRowKeeps
<1>4. EndInv /\ row = "none"
  BY <1>1 DEF RunInv, EndInv, TypeOK, Ended
<1>5. CASE Raise
  BY <1>1, <1>3, <1>5, RaiseKeeps DEF RunInv, TypeOK
<1>6. CASE ~Raise
  <2>1. /\ pc' \in {"refusing", "create"}
        /\ job' \in Client /\ job'.steps = job.steps
        /\ job'.via = job.via /\ job'.link = job.link
        /\ pc' = "refusing" /\ job.via = "rest" /\ job.link => job'.status = "refused"
        /\ pc' = "refusing" /\ job.via # "rest" => job'.status = "running"
        /\ pc' = "create" => job'.status = "running"
    BY <1>1, <1>2, <1>6, TellType
  <2>2. TypeOK'
    BY <1>1, <1>2, <2>1, QuietTypes DEF TypeOK
  <2>3. FreshInv' /\ WaveInv' /\ StopInv'
    BY <1>1, <2>1 DEF RunInv, FreshInv, Early, WaveInv, StopInv, Quiet, tasks
  <2>4. EndInv'
    BY <1>1, <1>4, <2>1 DEF EndInv, Ended
  <2>5. ToldInv' /\ ShownInv' /\ JobAgrees'
    BY <1>1, <2>1 DEF RunInv, ToldInv, Early, InLoop, ShownInv, JobAgrees, Client
  <2>6. QED
    BY <1>3, <2>2, <2>3, <2>4, <2>5 DEF RunInv
<1>7. QED
  BY <1>5, <1>6

LEMMA RefuseKeeps ==
  ASSUME RunInv, Refuse
  PROVE  RunInv'
<1>1. /\ pc = "refusing" /\ Quiet
      /\ UNCHANGED <<verdict, overTime, overCost, stop, row>>
      /\ (pc' = "returned" /\ UNCHANGED job) \/ Raise
  BY DEF Refuse, Quiet, budget, rows
<1>2. BookInv' /\ DependenciesFirst' /\ CompletedMeansDone'
  BY <1>1, QuietKeeps, SameRowKeeps
<1>3. CASE Raise
  BY <1>1, <1>2, <1>3, RaiseKeeps DEF RunInv, TypeOK
<1>4. CASE pc' = "returned" /\ UNCHANGED job
  <2>1. TypeOK'
    BY <1>1, <1>4, QuietTypes DEF RunInv, TypeOK, Ended
  <2>2. FreshInv' /\ WaveInv' /\ StopInv' /\ EndInv'
    BY <1>1, <1>4 DEF RunInv, FreshInv, Early, WaveInv, StopInv, EndInv, Ended
  <2>3. ToldInv' /\ ShownInv'
    BY <1>1, <1>4 DEF RunInv, ToldInv, Early, InLoop, ShownInv
  <2>4. \A id \in DOMAIN job.steps : job.steps[id] # "running"
    BY <1>1 DEF RunInv, FreshInv, Early
  <2>5. JobAgrees'
    BY <1>1, <1>4, <2>4 DEF RunInv, ToldInv, EndInv, JobAgrees
  <2>6. QED
    BY <1>2, <2>1, <2>2, <2>3, <2>5 DEF RunInv
<1>5. QED
  BY <1>1, <1>3, <1>4

LEMMA CreateRunKeeps ==
  ASSUME RunInv, CreateRun
  PROVE  RunInv'
<1>1. /\ pc = "create" /\ Quiet
      /\ UNCHANGED <<verdict, overTime, overCost, stop>>
      /\ row' = row \/ row' = "running"
      /\ (pc' = "plan" /\ row' = "running" /\ UNCHANGED job) \/ Raise
  BY DEF CreateRun, Quiet, budget
<1>2. BookInv' /\ DependenciesFirst' /\ CompletedMeansDone'
  BY <1>1, QuietKeeps, SameRowKeeps
<1>3. CASE Raise
  BY <1>1, <1>2, <1>3, RaiseKeeps DEF RunInv, TypeOK
<1>4. CASE pc' = "plan" /\ row' = "running" /\ UNCHANGED job
  <2>1. TypeOK'
    BY <1>1, <1>4, QuietTypes DEF RunInv, TypeOK, Ended
  <2>2. FreshInv' /\ WaveInv' /\ StopInv'
    BY <1>1, <1>4 DEF RunInv, FreshInv, Early, WaveInv, StopInv, Quiet, tasks
  <2>3. EndInv'
    BY <1>1, <1>4 DEF RunInv, EndInv, Ended
  <2>4. ToldInv' /\ ShownInv' /\ JobAgrees'
    BY <1>1, <1>4 DEF RunInv, ToldInv, Early, InLoop, ShownInv, JobAgrees
  <2>5. QED
    BY <1>2, <2>1, <2>2, <2>3, <2>4 DEF RunInv
<1>5. QED
  BY <1>1, <1>3, <1>4

LEMMA SavePlanKeeps ==
  ASSUME RunInv, SavePlan
  PROVE  RunInv'
<1>1. /\ pc = "save_plan" /\ Quiet
      /\ UNCHANGED <<verdict, overTime, overCost, seen, engaged, row>>
      /\ (pc' = "wave" /\ clear' = ~engaged /\ UNCHANGED job) \/ (Raise /\ UNCHANGED clear)
  BY DEF SavePlan, Quiet, budget, rows
<1>2. BookInv' /\ DependenciesFirst' /\ CompletedMeansDone'
  BY <1>1, QuietKeeps, SameRowKeeps
<1>3. CASE Raise /\ UNCHANGED clear
  BY <1>1, <1>2, <1>3, RaiseKeeps DEF RunInv, TypeOK, stop
<1>4. CASE pc' = "wave" /\ clear' = ~engaged /\ UNCHANGED job
  <2>1. TypeOK'
    BY <1>1, <1>4, QuietTypes DEF RunInv, TypeOK, Ended
  <2>2. FreshInv' /\ WaveInv' /\ StopInv'
    BY <1>1, <1>4 DEF RunInv, FreshInv, Early, WaveInv, StopInv, Quiet, tasks, Started
  <2>3. EndInv'
    BY <1>1, <1>4 DEF RunInv, EndInv, Ended
  <2>4. ToldInv' /\ ShownInv' /\ JobAgrees'
    BY <1>1, <1>4 DEF RunInv, FreshInv, ToldInv, Early, InLoop, ShownInv, JobAgrees
  <2>5. QED
    BY <1>2, <2>1, <2>2, <2>3, <2>4 DEF RunInv
<1>5. QED
  BY <1>1, <1>3, <1>4

LEMMA MakePlanKeeps ==
  ASSUME RunInv, MakePlan
  PROVE  RunInv'
<1>1. /\ pc = "plan" /\ UNCHANGED <<wave, doneIds, verdict, stepsUsed, stepRows>>
      /\ UNCHANGED <<overTime, overCost, stop, row>>
  BY DEF MakePlan, budget, rows
<1>2. CASE Raise /\ UNCHANGED <<plan, tasks>>
  <2>1. Quiet
    BY <1>1, <1>2 DEF Quiet
  <2>2. QED
    BY <1>1, <1>2, <2>1, RaiseKeeps, SameRowKeeps DEF RunInv, TypeOK
<1>3. CASE /\ plan' \in Plan
           /\ stage' = [i \in DOMAIN plan' |-> "waiting"]
           /\ result' = [i \in DOMAIN plan' |-> "none"]
           /\ pc' = "save_plan"
           /\ UNCHANGED job
  <2>1. /\ doneIds = {} /\ wave = {} /\ stepRows = {} /\ stepsUsed = 0
        /\ DOMAIN job.steps = {} /\ row # "completed"
        /\ job \in Client /\ TypeOK
    BY <1>1, JobType DEF RunInv, FreshInv, Early, EndInv, Ended
  <2>2. job \in Client'
    <3>1. job.steps \in Shown
      BY <2>1 DEF Client
    <3>2. job.steps \in [{} -> Status \cup {"running"}]
      BY <2>1, <3>1 DEF Shown
    <3>3. {} \in SUBSET Ids(DOMAIN plan)'
      OBVIOUS
    <3>4. job.steps \in Shown'
      BY <3>2, <3>3 DEF Shown
    <3>5. QED
      BY <2>1, <3>4 DEF Client
  <2>3. TypeOK'
    BY <1>1, <1>3, <2>1, <2>2 DEF TypeOK, stop, Status
  <2>4. Started' = {}
    BY <1>3 DEF Started
  <2>5. BookInv'
    BY <1>1, <1>3, <2>1, <2>4, FS_EmptySet DEF BookInv, Status
  <2>6. DependenciesFirst' /\ CompletedMeansDone'
    BY <1>1, <2>1, <2>4 DEF DependenciesFirst, CompletedMeansDone
  <2>7. FreshInv' /\ WaveInv' /\ StopInv'
    BY <1>1, <1>3, <2>1 DEF FreshInv, Early, WaveInv, StopInv
  <2>8. EndInv'
    BY <1>1, <1>3 DEF RunInv, EndInv, Ended
  <2>9. ToldInv' /\ ShownInv' /\ JobAgrees'
    BY <1>1, <1>3, <2>1 DEF RunInv, ToldInv, Early, InLoop, ShownInv, JobAgrees
  <2>10. QED
    BY <2>3, <2>5, <2>6, <2>7, <2>8, <2>9 DEF RunInv
<1>4. QED
  BY <1>2, <1>3 DEF MakePlan

LEMMA TopOfLoopKeeps ==
  ASSUME RunInv, TopOfLoop
  PROVE  RunInv'
<1>1. /\ pc = "wave" /\ Quiet
      /\ UNCHANGED <<verdict, overTime, overCost, engaged, clear, row, job>>
      /\ \/ /\ Cardinality(doneIds) = Len(plan) \/ Ready = {}
            /\ pc' = "synthesize" /\ UNCHANGED seen
         \/ pc' = "check" /\ seen' = engaged
  BY DEF TopOfLoop, Quiet, budget, rows
<1>2. BookInv' /\ DependenciesFirst' /\ CompletedMeansDone'
  BY <1>1, QuietKeeps, SameRowKeeps
<1>3. TypeOK'
  BY <1>1, QuietTypes DEF RunInv, TypeOK
<1>4. FreshInv' /\ WaveInv'
  BY <1>1 DEF RunInv, FreshInv, Early, WaveInv, Quiet, tasks, Started
<1>5. StopInv'
  BY <1>1 DEF RunInv, StopInv
<1>6. EndInv'
  <2>1. pc' = "synthesize" => P!Satisfiable \subseteq doneIds
    BY <1>1, NothingLeft DEF RunInv
  <2>2. P!Satisfiable' = P!Satisfiable /\ doneIds' = doneIds
    BY <1>1, SameSatisfiable DEF Quiet
  <2>3. QED
    BY <1>1, <2>1, <2>2 DEF RunInv, EndInv, Ended
<1>7. ToldInv' /\ ShownInv' /\ JobAgrees'
  BY <1>1 DEF RunInv, ToldInv, Early, InLoop, ShownInv, JobAgrees
<1>8. QED
  BY <1>2, <1>3, <1>4, <1>5, <1>6, <1>7 DEF RunInv

LEMMA HaltKeeps ==
  ASSUME RunInv, Halt
  PROVE  RunInv'
<1>1. /\ pc = "check" /\ Quiet
      /\ UNCHANGED <<overTime, overCost, stop, row>>
      /\ (pc' = "finish" /\ verdict' = "stopped" /\ Tell("stopped")) \/ (Raise /\ UNCHANGED verdict)
  BY DEF Halt, Quiet, budget, rows
<1>2. BookInv' /\ DependenciesFirst' /\ CompletedMeansDone'
  BY <1>1, QuietKeeps, SameRowKeeps
<1>3. CASE Raise /\ UNCHANGED verdict
  BY <1>1, <1>2, <1>3, RaiseKeeps DEF RunInv, TypeOK
<1>4. CASE pc' = "finish" /\ verdict' = "stopped" /\ Tell("stopped")
  <2>1. /\ job' \in Client /\ job'.steps = job.steps /\ job'.via = job.via /\ job'.link = job.link
        /\ job'.status = IF job.link THEN "stopped" ELSE job.status
    BY <1>4, TellType DEF RunInv, TypeOK
  <2>2. TypeOK'
    BY <1>1, <1>4, <2>1, QuietTypes DEF RunInv, TypeOK
  <2>3. FreshInv' /\ WaveInv' /\ StopInv'
    BY <1>4 DEF FreshInv, Early, WaveInv, StopInv
  <2>4. EndInv'
    BY <1>1, <1>4 DEF RunInv, EndInv, Ended
  <2>5. ToldInv' /\ ShownInv' /\ JobAgrees'
    BY <1>1, <1>4, <2>1 DEF RunInv, ToldInv, Early, InLoop, ShownInv, JobAgrees
  <2>6. QED
    BY <1>2, <2>2, <2>3, <2>4, <2>5 DEF RunInv
<1>5. QED
  BY <1>1, <1>3, <1>4

LEMMA StartRaisesKeeps ==
  ASSUME RunInv, StartRaises
  PROVE  RunInv'
<1>1. Quiet /\ Raise /\ UNCHANGED <<verdict, overTime, overCost, stop, row>>
  BY DEF StartRaises, Quiet, budget, rows
<1>2. QED
  BY <1>1, RaiseKeeps, SameRowKeeps DEF RunInv, TypeOK

LEMMA SynthesizeKeeps ==
  ASSUME RunInv, Synthesize
  PROVE  RunInv'
<1>1. /\ pc = "synthesize" /\ Quiet
      /\ UNCHANGED <<verdict, overTime, overCost, stop, row>>
      /\ (pc' = "persist" /\ (UNCHANGED job \/ Tell("error"))) \/ Raise
  BY DEF Synthesize, Quiet, budget, rows
<1>2. BookInv' /\ DependenciesFirst' /\ CompletedMeansDone'
  BY <1>1, QuietKeeps, SameRowKeeps
<1>3. CASE Raise
  BY <1>1, <1>2, <1>3, RaiseKeeps DEF RunInv, TypeOK
<1>4. CASE pc' = "persist" /\ (UNCHANGED job \/ Tell("error"))
  <2>1. /\ job' \in Client /\ job'.steps = job.steps /\ job'.via = job.via /\ job'.link = job.link
        /\ job'.status \in {job.status, "error"}
    BY <1>4, TellType DEF RunInv, TypeOK
  <2>2. TypeOK'
    BY <1>1, <1>4, <2>1, QuietTypes DEF RunInv, TypeOK
  <2>3. FreshInv' /\ WaveInv' /\ StopInv'
    BY <1>4 DEF FreshInv, Early, WaveInv, StopInv
  <2>4. EndInv'
    <3>1. P!Satisfiable' = P!Satisfiable /\ doneIds' = doneIds
      BY <1>1, SameSatisfiable DEF Quiet
    <3>2. QED
      BY <1>1, <1>4, <3>1 DEF RunInv, EndInv, Ended
  <2>5. ToldInv' /\ ShownInv' /\ JobAgrees'
    BY <1>1, <1>4, <2>1 DEF RunInv, ToldInv, Early, InLoop, ShownInv, JobAgrees
  <2>6. QED
    BY <1>2, <2>2, <2>3, <2>4, <2>5 DEF RunInv
<1>5. QED
  BY <1>1, <1>3, <1>4

LEMMA PersistFinalKeeps ==
  ASSUME RunInv, PersistFinal
  PROVE  RunInv'
<1>1. /\ pc = "persist" /\ Quiet
      /\ UNCHANGED <<verdict, overTime, overCost, stop, row>>
      /\ (pc' = "finish" /\ Tell("completed")) \/ Raise
  BY DEF PersistFinal, Quiet, budget, rows
<1>2. BookInv' /\ DependenciesFirst' /\ CompletedMeansDone'
  BY <1>1, QuietKeeps, SameRowKeeps
<1>3. CASE Raise
  BY <1>1, <1>2, <1>3, RaiseKeeps DEF RunInv, TypeOK
<1>4. CASE pc' = "finish" /\ Tell("completed")
  <2>1. /\ job' \in Client /\ job'.steps = job.steps /\ job'.via = job.via /\ job'.link = job.link
        /\ job'.status = IF job.link THEN "completed" ELSE job.status
    BY <1>4, TellType DEF RunInv, TypeOK
  <2>2. TypeOK'
    BY <1>1, <1>4, <2>1, QuietTypes DEF RunInv, TypeOK
  <2>3. FreshInv' /\ WaveInv' /\ StopInv'
    BY <1>4 DEF FreshInv, Early, WaveInv, StopInv
  <2>4. EndInv' /\ verdict = "completed"
    <3>1. P!Satisfiable' = P!Satisfiable /\ doneIds' = doneIds
      BY <1>1, SameSatisfiable DEF Quiet
    <3>2. QED
      BY <1>1, <1>4, <3>1 DEF RunInv, EndInv, Ended
  <2>5. ToldInv' /\ ShownInv' /\ JobAgrees'
    BY <1>1, <1>4, <2>1, <2>4 DEF RunInv, ToldInv, Early, InLoop, ShownInv, JobAgrees
  <2>6. QED
    BY <1>2, <2>2, <2>3, <2>4, <2>5 DEF RunInv
<1>5. QED
  BY <1>1, <1>3, <1>4

LEMMA FinishRunKeeps ==
  ASSUME RunInv, FinishRun
  PROVE  RunInv'
<1>1. /\ pc = "finish" /\ Quiet
      /\ UNCHANGED <<verdict, overTime, overCost, stop>>
      /\ row' \in {row, verdict}
      /\ \/ /\ pc' = "returned" /\ row' = verdict
            /\ job' = [job EXCEPT !.status = IF job.via = "rest" /\ @ = "running"
                                             THEN "completed" ELSE @]
         \/ Raise
  BY DEF FinishRun, Quiet, budget
<1>2. row' \in {"none", "running", "completed", "stopped"}
  BY <1>1 DEF RunInv, TypeOK
<1>3. BookInv' /\ DependenciesFirst'
  BY <1>1, QuietKeeps
<1>4. CompletedMeansDone'
  <2>1. P!Satisfiable' = P!Satisfiable /\ stepRows' = stepRows
    BY <1>1, SameSatisfiable DEF Quiet
  <2>2. row # "completed" /\ (verdict = "completed" => P!Satisfiable \subseteq doneIds)
    BY <1>1 DEF RunInv, EndInv, Ended
  <2>3. doneIds \subseteq stepRows
    BY DEF RunInv, BookInv
  <2>4. QED
    BY <1>1, <2>1, <2>2, <2>3 DEF CompletedMeansDone
<1>5. CASE Raise
  BY <1>1, <1>2, <1>4, <1>5, RaiseKeeps
<1>6. CASE ~Raise
  <2>1. /\ pc' = "returned" /\ row' = verdict
        /\ job' = [job EXCEPT !.status = IF job.via = "rest" /\ @ = "running"
                                             THEN "completed" ELSE @]
    BY <1>1, <1>6
  <2>2. /\ job \in Client /\ verdict \in {"completed", "stopped"}
        /\ job.link => job.status = verdict
        /\ job.via = "rest" => job.link
    BY <1>1 DEF RunInv, TypeOK, ToldInv
  <2>3. job' = job
    BY <2>1, <2>2 DEF Client
  <2>4. TypeOK'
    BY <1>1, <1>2, <2>1, <2>2, <2>3, QuietTypes DEF RunInv, Ended
  <2>5. FreshInv' /\ WaveInv' /\ StopInv' /\ EndInv'
    BY <2>1 DEF FreshInv, Early, WaveInv, StopInv, EndInv, Ended
  <2>6. ToldInv' /\ ShownInv'
    BY <2>1, <2>3 DEF RunInv, ToldInv, Early, InLoop, ShownInv
  <2>7. JobAgrees'
    BY <1>1, <2>1, <2>2, <2>3 DEF RunInv, ShownInv, JobAgrees
  <2>8. QED
    BY <1>3, <1>4, <2>4, <2>5, <2>6, <2>7 DEF RunInv
<1>7. QED
  BY <1>5, <1>6

-----------------------------------------------------------------------------
(* The tasks of a wave. *)

\* What the client shows of some steps is replaced.
LEMMA TellStepsType ==
  ASSUME TypeOK, NEW ids \in SUBSET Ids(DOMAIN plan),
         NEW status \in Status \cup {"running"}, TellSteps(ids, status)
  PROVE  /\ job' \in Client
         /\ job'.via = job.via /\ job'.link = job.link /\ job'.status = job.status
         /\ job.link =>
              /\ DOMAIN job'.steps = DOMAIN job.steps \cup ids
              /\ \A id \in DOMAIN job'.steps :
                   job'.steps[id] = IF id \in ids THEN status ELSE job.steps[id]
         /\ ~job.link => job' = job
<1> DEFINE f == [id \in DOMAIN job.steps \cup ids |-> IF id \in ids THEN status ELSE job.steps[id]]
<1>1. /\ job \in Client /\ DOMAIN job.steps \in SUBSET Ids(DOMAIN plan)
      /\ \A id \in DOMAIN job.steps : job.steps[id] \in Status \cup {"running"}
  BY JobType
<1>2. f \in [DOMAIN job.steps \cup ids -> Status \cup {"running"}]
  BY <1>1
<1>3. f \in Shown
  BY <1>1, <1>2, ShownIs
<1>4. CASE ~job.link
  BY <1>1, <1>4 DEF TellSteps
<1>5. CASE job.link
  <2>1. job' = [job EXCEPT !.steps = f]
    BY <1>5 DEF TellSteps
  <2>2. job'.steps = f
    BY <1>1, <2>1 DEF Client
  <2> HIDE DEF f
  <2>3. /\ job' \in Client
        /\ job'.via = job.via /\ job'.link = job.link /\ job'.status = job.status
    BY <1>1, <1>3, <2>1 DEF Client
  <2> USE DEF f
  <2>4. QED
    BY <1>5, <2>2, <2>3
<1>6. QED
  BY <1>4, <1>5

LEMMA StartWaveKeeps ==
  ASSUME RunInv, StartWave
  PROVE  RunInv'
<1>1. /\ pc = "check" /\ ~seen
      /\ wave' = NextWave /\ pc' = "gather"
      /\ stepsUsed' = stepsUsed + Cardinality(NextWave)
      /\ UNCHANGED <<plan, doneIds, verdict, result, overTime, overCost, stop, row, stepRows>>
      /\ \/ job.via = "rest" /\ TellSteps(Ids(NextWave), "running")
         \/ job.via # "rest" /\ UNCHANGED job
  BY DEF StartWave, rows
<1>2. PICK mute \in SUBSET NextWave :
        stage' = [i \in DOMAIN plan |-> IF i \in mute THEN "failed"
                                        ELSE IF i \in NextWave THEN "running"
                                        ELSE stage[i]]
  BY DEF StartWave
<1>3. /\ IsFiniteSet(NextWave) /\ Cardinality(NextWave) <= MaxSteps - stepsUsed
      /\ NextWave \subseteq Ready /\ Ready \subseteq DOMAIN plan
      /\ IsFiniteSet(DOMAIN plan) /\ Cardinality(NextWave) \in Nat
  BY WaveFits, PlanType, FS_CardinalityType DEF RunInv
<1>4. \A i \in DOMAIN plan : stage'[i] = IF i \in mute THEN "failed"
                                         ELSE IF i \in NextWave THEN "running"
                                         ELSE stage[i]
  BY <1>2
<1>5. Started' = Started \cup NextWave
  BY <1>1, <1>3, <1>4 DEF Started
<1>6. Ids(NextWave) \in SUBSET Ids(DOMAIN plan) /\ Ids(DOMAIN plan)' = Ids(DOMAIN plan)
      /\ Shown' = Shown
  BY <1>1, <1>3 DEF Ids, Shown
<1>7. /\ job' \in Client
      /\ job'.via = job.via /\ job'.link = job.link /\ job'.status = job.status
      /\ \A id \in DOMAIN job'.steps : job'.steps[id] = "running" =>
           \/ job.via = "rest" /\ id \in Ids(NextWave)
           \/ id \in DOMAIN job.steps /\ job.steps[id] = "running"
  BY <1>1, <1>6, JobType, TellStepsType DEF RunInv
<1>8. TypeOK'
  <2>1. stepsUsed' \in 0 .. MaxSteps
    BY <1>1, <1>3, PlanAssumption DEF RunInv, TypeOK
  <2>2. stage' \in [DOMAIN plan -> {"waiting", "running", "saving", "done", "failed", "lost"}]
    BY <1>2 DEF RunInv, TypeOK
  <2>3. job' \in Client'
    BY <1>6, <1>7 DEF Client
  <2>4. QED
    BY <1>1, <1>3, <1>6, <2>1, <2>2, <2>3 DEF RunInv, TypeOK, stop
<1>9. BookInv'
  <2>1. Cardinality(Started') <= stepsUsed'
    <3>1. IsFiniteSet(Started) /\ Cardinality(Started) \in Nat
      BY <1>3, FS_Subset, FS_CardinalityType DEF Started
    <3>2. /\ Cardinality(Started \cup NextWave) =
               Cardinality(Started) + Cardinality(NextWave) - Cardinality(Started \cap NextWave)
      BY <1>3, <3>1, FS_Union
    <3>3. IsFiniteSet(Started \cap NextWave)
      BY <3>1, FS_Subset
    <3>4. Cardinality(Started \cap NextWave) \in Nat
      BY <3>3, FS_CardinalityType
    <3>5. Cardinality(Started) <= stepsUsed /\ stepsUsed \in Nat
      BY DEF RunInv, BookInv, TypeOK
    <3>6. QED
      BY <1>1, <1>3, <1>5, <3>1, <3>2, <3>4, <3>5
  <2>2. QED
    BY <1>1, <1>4, <2>1 DEF RunInv, BookInv
<1>10. DependenciesFirst'
  <2>1. \A i \in NextWave : plan[i].deps \subseteq stepRows
    BY <1>3 DEF Ready, RunInv, BookInv
  <2>2. QED
    BY <1>1, <1>5, <2>1 DEF RunInv, DependenciesFirst
<1>11. FreshInv' /\ StopInv'
  BY <1>1 DEF FreshInv, Early, StopInv
<1>12. WaveInv'
  BY <1>1, <1>5 DEF RunInv, WaveInv
<1>13. EndInv' /\ CompletedMeansDone'
  BY <1>1, SameSatisfiable DEF RunInv, EndInv, Ended, CompletedMeansDone
<1>14. ToldInv' /\ JobAgrees'
  BY <1>1, <1>7 DEF RunInv, ToldInv, Early, InLoop, JobAgrees
<1>15. ShownInv'
  <2>1. \A id \in DOMAIN job.steps : job.steps[id] # "running"
    BY <1>1 DEF RunInv, ShownInv
  <2>2. \A id \in DOMAIN job'.steps : job'.steps[id] = "running" =>
          job.via = "rest" /\ id \in Ids(NextWave)
    BY <1>7, <2>1
  <2>3. Ids(wave)' = Ids(NextWave)
    BY <1>1 DEF Ids
  <2>4. \A i \in wave' : stage'[i] # "done"
    BY <1>1, <1>3, <1>4
  <2>5. job.via = "rest" => job'.via # "socket"
    BY <1>7
  <2>6. QED
    BY <1>1, <2>2, <2>3, <2>4, <2>5 DEF ShownInv
<1>16. QED
  BY <1>8, <1>9, <1>10, <1>11, <1>12, <1>13, <1>14, <1>15 DEF RunInv

LEMMA StepEndsKeeps ==
  ASSUME RunInv, NEW i \in DOMAIN plan, StepEnds(i)
  PROVE  RunInv'
<1>1. /\ stage[i] = "running" /\ stage' = [stage EXCEPT ![i] = "saving"]
      /\ overCost' \in BOOLEAN
      /\ UNCHANGED <<pc, plan, wave, doneIds, verdict, stepsUsed, overTime, stop, row, stepRows, job>>
  BY DEF StepEnds, control, rows, RunInv, TypeOK
<1>2. PICK s \in Status : result' = [result EXCEPT ![i] = s]
  BY DEF StepEnds
<1>3. /\ stage \in [DOMAIN plan -> {"waiting", "running", "saving", "done", "failed", "lost"}]
      /\ result \in [DOMAIN plan -> Status \cup {"none"}]
  BY DEF RunInv, TypeOK
<1>4. /\ stage' \in [DOMAIN plan -> {"waiting", "running", "saving", "done", "failed", "lost"}]
      /\ result' \in [DOMAIN plan -> Status \cup {"none"}]
  BY <1>1, <1>2, <1>3
<1>5. /\ Ids(DOMAIN plan)' = Ids(DOMAIN plan) /\ Shown' = Shown /\ Ids(wave)' = Ids(wave)
  BY <1>1 DEF Ids, Shown
<1>6. TypeOK'
  BY <1>1, <1>4, <1>5 DEF RunInv, TypeOK, Client, stop
<1>7. Started' = Started /\ \A k \in DOMAIN plan : stage'[k] = "done" => stage[k] = "done"
  BY <1>1, <1>3 DEF Started
<1>8. BookInv' /\ DependenciesFirst'
  BY <1>1, <1>2, <1>3, <1>7 DEF RunInv, BookInv, DependenciesFirst
<1>9. FreshInv'
  BY <1>1 DEF RunInv, FreshInv
<1>10. WaveInv' /\ StopInv'
  BY <1>1, <1>7 DEF RunInv, WaveInv, StopInv, stop
<1>11. EndInv' /\ CompletedMeansDone'
  BY <1>1, SameSatisfiable DEF RunInv, EndInv, CompletedMeansDone
<1>12. ToldInv' /\ JobAgrees'
  BY <1>1 DEF RunInv, ToldInv, JobAgrees
<1>13. ShownInv'
  <2>1. wave \subseteq DOMAIN plan
    BY DEF RunInv, TypeOK
  <2>2. QED
    BY <1>1, <1>5, <1>7, <2>1 DEF RunInv, ShownInv
<1>14. QED
  BY <1>6, <1>8, <1>9, <1>10, <1>11, <1>12, <1>13 DEF RunInv

LEMMA SaveStepKeeps ==
  ASSUME RunInv, NEW i \in DOMAIN plan, SaveStep(i)
  PROVE  RunInv'
<1>1. /\ stage[i] = "saving"
      /\ stepRows' = stepRows \/ stepRows' = stepRows \cup {plan[i].id}
      /\ UNCHANGED <<pc, plan, wave, doneIds, verdict, result, stepsUsed, overTime, overCost, stop, row>>
      /\ \/ /\ stepRows' = stepRows \cup {plan[i].id}
            /\ stage' = [stage EXCEPT ![i] = "done"]
            /\ TellSteps({plan[i].id}, result[i])
         \/ /\ stage' = [stage EXCEPT ![i] = "failed"]
            /\ UNCHANGED job
  BY DEF SaveStep, control, budget
<1>2. /\ stage \in [DOMAIN plan -> {"waiting", "running", "saving", "done", "failed", "lost"}]
      /\ stepRows \subseteq Ids(DOMAIN plan) /\ wave \subseteq DOMAIN plan
      /\ result[i] \in Status /\ TypeOK
  BY <1>1 DEF RunInv, TypeOK, BookInv
<1>3. /\ stage' \in [DOMAIN plan -> {"waiting", "running", "saving", "done", "failed", "lost"}]
      /\ \A k \in DOMAIN plan : k # i => stage'[k] = stage[k]
      /\ stage'[i] \in {"done", "failed"}
      /\ stage'[i] = "done" => plan[i].id \in stepRows'
  BY <1>1, <1>2
<1>4. /\ Ids(DOMAIN plan)' = Ids(DOMAIN plan) /\ Shown' = Shown /\ Ids(wave)' = Ids(wave)
      /\ {plan[i].id} \in SUBSET Ids(DOMAIN plan)
  BY <1>1 DEF Ids, Shown
<1>5. /\ job' \in Client
      /\ job'.via = job.via /\ job'.link = job.link /\ job'.status = job.status
      /\ \A id \in DOMAIN job'.steps : job'.steps[id] = "running" =>
           /\ id \in DOMAIN job.steps /\ job.steps[id] = "running"
           /\ id = plan[i].id => stage'[i] # "done" \/ ~job.link
  <2>1. CASE UNCHANGED job /\ stage' = [stage EXCEPT ![i] = "failed"]
    BY <1>2, <2>1, JobType
  <2>2. CASE TellSteps({plan[i].id}, result[i])
    <3>1. result[i] # "running"
      BY <1>2 DEF Status
    <3>2. /\ job' \in Client
          /\ job'.via = job.via /\ job'.link = job.link /\ job'.status = job.status
          /\ job.link =>
               /\ DOMAIN job'.steps = DOMAIN job.steps \cup {plan[i].id}
               /\ \A id \in DOMAIN job'.steps :
                    job'.steps[id] = IF id \in {plan[i].id} THEN result[i] ELSE job.steps[id]
          /\ ~job.link => job' = job
      BY <1>2, <1>4, <2>2, TellStepsType
    <3>3. QED
      BY <3>1, <3>2
  <2>3. QED
    BY <1>1, <2>1, <2>2
<1>6. TypeOK'
  <2>1. job' \in Client'
    BY <1>4, <1>5 DEF Client
  <2>2. stepRows' \subseteq Ids(DOMAIN plan)
    BY <1>1, <1>2, <1>4
  <2>3. QED
    BY <1>1, <1>2, <1>3, <1>4, <2>1, <2>2 DEF TypeOK, stop
<1>7. Started' = Started
  BY <1>1, <1>2, <1>3 DEF Started
<1>8. BookInv' /\ DependenciesFirst'
  BY <1>1, <1>3, <1>7 DEF RunInv, BookInv, DependenciesFirst
<1>9. FreshInv'
  BY <1>1 DEF RunInv, FreshInv
<1>10. WaveInv' /\ StopInv'
  BY <1>1, <1>7 DEF RunInv, WaveInv, StopInv, stop
<1>11. EndInv' /\ CompletedMeansDone'
  BY <1>1, SameSatisfiable DEF RunInv, EndInv, CompletedMeansDone
<1>12. ToldInv' /\ JobAgrees'
  BY <1>1, <1>5 DEF RunInv, ToldInv, JobAgrees
<1>13. ShownInv'
  <2>1. ASSUME pc = "gather", NEW id \in DOMAIN job'.steps, job'.steps[id] = "running"
        PROVE  id \in Ids(wave) /\ \A k \in wave : plan[k].id = id => stage'[k] # "done"
    <3>1. /\ id \in DOMAIN job.steps /\ job.steps[id] = "running"
          /\ id = plan[i].id => stage'[i] # "done" \/ ~job.link
      BY <1>5, <2>1
    <3>2. job.link
      BY <3>1, <1>2, <1>5 DEF RunInv, ShownInv, ToldInv, TypeOK, Client
    <3>3. /\ id \in Ids(wave)
          /\ \A k \in wave : plan[k].id = id => stage[k] # "done"
      BY <2>1, <3>1 DEF RunInv, ShownInv
    <3>4. QED
      BY <1>2, <1>3, <3>1, <3>2, <3>3
  <2>2. QED
    BY <1>1, <1>4, <1>5, <2>1 DEF RunInv, ShownInv
<1>14. QED
  BY <1>6, <1>8, <1>9, <1>10, <1>11, <1>12, <1>13 DEF RunInv

LEMMA GatherKeeps ==
  ASSUME RunInv, Gather
  PROVE  RunInv'
<1>1. /\ pc = "gather"
      /\ UNCHANGED <<plan, wave, verdict, stage, result, stepsUsed, overTime, overCost,
                     seen, engaged, row, stepRows>>
  BY DEF Gather, tasks, budget, rows
<1>2. CASE Raise /\ UNCHANGED <<doneIds, clear>>
  <2>1. Quiet /\ UNCHANGED stop
    BY <1>1, <1>2 DEF Quiet, tasks, stop
  <2>2. QED
    BY <1>1, <1>2, <2>1, RaiseKeeps, SameRowKeeps DEF RunInv, TypeOK
<1>3. CASE /\ \A i \in wave : stage[i] = "done"
           /\ doneIds' = doneIds \cup Ids(wave)
           /\ pc' = "wave" /\ clear' = ~engaged /\ UNCHANGED job
  <2>1. wave \subseteq DOMAIN plan /\ engaged \in BOOLEAN
    BY DEF RunInv, TypeOK
  <2>2. Ids(wave) \subseteq stepRows /\ Ids(wave) \subseteq Ids(DOMAIN plan)
    BY <1>3, <2>1 DEF Ids, RunInv, BookInv
  <2>3. Ids(DOMAIN plan)' = Ids(DOMAIN plan) /\ Shown' = Shown
    BY <1>1 DEF Ids, Shown
  <2>4. TypeOK'
    BY <1>1, <1>3, <2>1, <2>2, <2>3 DEF RunInv, TypeOK, Client
  <2>5. Started' = Started
    BY <1>1 DEF Started
  <2>6. BookInv' /\ DependenciesFirst'
    BY <1>1, <1>3, <2>2, <2>5 DEF RunInv, BookInv, DependenciesFirst
  <2>7. FreshInv' /\ StopInv'
    BY <1>3, <1>1 DEF FreshInv, Early, StopInv
  <2>8. WaveInv'
    BY <1>1, <1>3, <2>5 DEF RunInv, WaveInv, Ids
  <2>9. EndInv' /\ CompletedMeansDone'
    BY <1>1, <1>3, SameSatisfiable DEF RunInv, EndInv, Ended, CompletedMeansDone
  <2>10. ToldInv' /\ JobAgrees'
    BY <1>1, <1>3 DEF RunInv, ToldInv, Early, InLoop, JobAgrees
  <2>11. \A id \in DOMAIN job.steps : job.steps[id] # "running"
    <3>1. \A id \in Ids(wave) : \E k \in wave : plan[k].id = id /\ stage[k] = "done"
      BY <1>3 DEF Ids
    <3>2. QED
      BY <1>1, <3>1 DEF RunInv, ShownInv
  <2>12. ShownInv'
    BY <1>3, <2>11 DEF ShownInv
  <2>13. QED
    BY <2>4, <2>6, <2>7, <2>8, <2>9, <2>10, <2>12 DEF RunInv
<1>4. QED
  BY <1>2, <1>3 DEF Gather

-----------------------------------------------------------------------------
(* Around the run. *)

LEMMA SwitchKeeps ==
  ASSUME RunInv, Switch
  PROVE  RunInv'
<1>1. /\ Quiet /\ UNCHANGED <<pc, verdict, overTime, overCost, seen, row, job>>
      /\ engaged' = ~engaged /\ clear' = (clear \/ ~engaged')
  BY DEF Switch, Quiet, control, tasks, budget, rows
<1>2. BookInv' /\ DependenciesFirst' /\ CompletedMeansDone'
  BY <1>1, QuietKeeps, SameRowKeeps
<1>3. TypeOK'
  <2>1. engaged \in BOOLEAN /\ clear \in BOOLEAN
    BY DEF RunInv, TypeOK
  <2>2. engaged' \in BOOLEAN /\ clear' \in BOOLEAN
    BY <1>1, <2>1
  <2>3. QED
    BY <1>1, <2>2, QuietTypes DEF RunInv, TypeOK
<1>4. FreshInv' /\ WaveInv'
  BY <1>1 DEF RunInv, FreshInv, WaveInv, Started, Quiet, tasks
<1>5. StopInv'
  BY <1>1 DEF RunInv, StopInv
<1>6. EndInv' /\ ToldInv'
  BY <1>1, SameSatisfiable DEF RunInv, EndInv, ToldInv, Quiet
<1>7. ShownInv' /\ JobAgrees'
  BY <1>1 DEF RunInv, ShownInv, JobAgrees, Quiet, tasks, Ids
<1>8. QED
  BY <1>2, <1>3, <1>4, <1>5, <1>6, <1>7 DEF RunInv

LEMMA TimePassesKeeps ==
  ASSUME RunInv, TimePasses
  PROVE  RunInv'
<1>1. /\ Quiet /\ UNCHANGED <<pc, verdict, overCost, stop, row, job>>
      /\ overTime' = TRUE
  BY DEF TimePasses, Quiet, control, tasks, rows
<1>2. BookInv' /\ DependenciesFirst' /\ CompletedMeansDone'
  BY <1>1, QuietKeeps, SameRowKeeps
<1>3. TypeOK'
  BY <1>1, QuietTypes DEF RunInv, TypeOK
<1>4. FreshInv' /\ WaveInv' /\ StopInv'
  BY <1>1 DEF RunInv, FreshInv, WaveInv, StopInv, stop, Started, Quiet, tasks
<1>5. EndInv' /\ ToldInv'
  BY <1>1, SameSatisfiable DEF RunInv, EndInv, ToldInv, Quiet
<1>6. ShownInv' /\ JobAgrees'
  BY <1>1 DEF RunInv, ShownInv, JobAgrees, Quiet, tasks, Ids
<1>7. QED
  BY <1>2, <1>3, <1>4, <1>5, <1>6 DEF RunInv

LEMMA CutKeeps ==
  ASSUME RunInv, Cut
  PROVE  RunInv'
<1>1. /\ Quiet /\ UNCHANGED <<pc, verdict, overTime, overCost, stop, row>>
      /\ job.via = "socket" /\ job' = [job EXCEPT !.link = FALSE]
  BY DEF Cut, Quiet, control, budget, rows
<1>2. /\ job \in Client
      /\ job' \in Client /\ job'.steps = job.steps /\ job'.via = job.via
      /\ job'.status = job.status /\ job'.link = FALSE
  BY <1>1 DEF RunInv, TypeOK, Client
<1>3. BookInv' /\ DependenciesFirst' /\ CompletedMeansDone'
  BY <1>1, QuietKeeps, SameRowKeeps
<1>4. TypeOK'
  BY <1>1, <1>2, QuietTypes DEF RunInv, TypeOK
<1>5. FreshInv' /\ WaveInv' /\ StopInv'
  BY <1>1, <1>2 DEF RunInv, FreshInv, WaveInv, StopInv, stop, Started, Quiet, tasks
<1>6. EndInv' /\ ToldInv'
  BY <1>1, <1>2, SameSatisfiable DEF RunInv, EndInv, ToldInv, Quiet
<1>7. ShownInv' /\ JobAgrees'
  BY <1>1, <1>2 DEF RunInv, ShownInv, JobAgrees, Quiet, tasks, Ids
<1>8. QED
  BY <1>3, <1>4, <1>5, <1>6, <1>7 DEF RunInv

LEMMA RestartKeeps ==
  ASSUME RunInv, Restart
  PROVE  RunInv'
<1>1. /\ pc' = "lost"
      /\ stage' = [i \in DOMAIN plan |->
                     IF stage[i] \in {"running", "saving"} THEN "lost" ELSE stage[i]]
      /\ job' = IF job.via = "rest" THEN [job EXCEPT !.status = "gone", !.steps = <<>>]
                ELSE [job EXCEPT !.link = FALSE]
      /\ UNCHANGED <<plan, wave, doneIds, verdict, result, stepsUsed, overTime, overCost,
                     seen, engaged, clear, row, stepRows>>
  BY DEF Restart, budget, stop, rows
<1>2. /\ stage' \in [DOMAIN plan -> {"waiting", "running", "saving", "done", "failed", "lost"}]
      /\ \A i \in DOMAIN plan :
           /\ stage'[i] = "waiting" <=> stage[i] = "waiting"
           /\ stage'[i] = "done" => stage[i] = "done"
           /\ stage'[i] # "saving"
  BY <1>1 DEF RunInv, TypeOK
<1>3. Started' = Started
  BY <1>1, <1>2 DEF Started
<1>4. <<>> \in Shown
  BY ShownIs, {} \in SUBSET Ids(DOMAIN plan), <<>> \in [{} -> Status \cup {"running"}]
<1>5. /\ job' \in Client /\ job'.via = job.via
      /\ job.via = "rest" => job'.link = job.link
      /\ job.via = "socket" => job'.steps = job.steps
  BY <1>1, <1>4 DEF RunInv, TypeOK, Client
<1>6. TypeOK'
  <2>1. Ids(DOMAIN plan)' = Ids(DOMAIN plan) /\ Shown' = Shown
    BY <1>1 DEF Ids, Shown
  <2>2. job' \in Client'
    BY <1>5, <2>1 DEF Client
  <2>3. QED
    BY <1>1, <1>2, <2>1, <2>2 DEF RunInv, TypeOK, Ended
<1>7. BookInv' /\ DependenciesFirst'
  BY <1>1, <1>2, <1>3 DEF RunInv, BookInv, DependenciesFirst
<1>8. FreshInv' /\ WaveInv' /\ StopInv' /\ EndInv'
  BY <1>1 DEF FreshInv, Early, WaveInv, StopInv, EndInv, Ended
<1>9. CompletedMeansDone'
  BY <1>1, SameSatisfiable DEF RunInv, CompletedMeansDone
<1>10. ToldInv' /\ ShownInv' /\ JobAgrees'
  BY <1>1, <1>5 DEF RunInv, ToldInv, Early, InLoop, ShownInv, JobAgrees
<1>11. QED
  BY <1>6, <1>7, <1>8, <1>9, <1>10 DEF RunInv

-----------------------------------------------------------------------------
(* The theorems. *)

LEMMA InitInv == Init => RunInv
<1> SUFFICES ASSUME Init
             PROVE  RunInv
  OBVIOUS
<1>1. plan = <<>> /\ DOMAIN plan = {} /\ Started = {}
  BY DEF Init, Started
<1>2. <<>> \in Shown
  BY ShownIs, {} \in SUBSET Ids(DOMAIN plan), <<>> \in [{} -> Status \cup {"running"}]
<1>3. PICK via \in {"rest", "socket"} :
        job = [via |-> via, link |-> TRUE, status |-> "running", steps |-> <<>>]
  BY DEF Init
<1>4. job \in Client /\ DOMAIN job.steps = {}
  BY <1>2, <1>3 DEF Client
<1>5. TypeOK
  <2>1. stage \in [DOMAIN plan -> {"waiting", "running", "saving", "done", "failed", "lost"}]
        /\ result \in [DOMAIN plan -> Status \cup {"none"}]
    BY <1>1 DEF Init
  <2>2. pc \in {"start", "receive"} /\ stepsUsed \in 0 .. MaxSteps
    BY PlanAssumption DEF Init
  <2>3. wave = {} /\ doneIds = {} /\ stepRows = {} /\ engaged \in BOOLEAN
    BY DEF Init
  <2>4. QED
    BY <1>1, <1>4, <2>1, <2>2, <2>3 DEF Init, TypeOK
<1>6. FreshInv /\ BookInv /\ DependenciesFirst
  BY <1>1, <1>4, FS_EmptySet DEF Init, FreshInv, Early, BookInv, DependenciesFirst
<1>7. WaveInv /\ StopInv /\ EndInv /\ CompletedMeansDone
  BY DEF Init, WaveInv, StopInv, EndInv, Ended, CompletedMeansDone
<1>8. ToldInv /\ ShownInv /\ JobAgrees
  BY <1>3, <1>4 DEF Init, ToldInv, Early, InLoop, ShownInv, JobAgrees
<1>9. QED
  BY <1>5, <1>6, <1>7, <1>8 DEF RunInv

LEMMA StutterKeeps ==
  ASSUME RunInv, UNCHANGED vars
  PROVE  RunInv'
<1>1. /\ Quiet /\ UNCHANGED <<pc, verdict, overTime, overCost, stop, row, job>>
  BY DEF vars, control, tasks, budget, stop, rows, Quiet
<1>2. BookInv' /\ DependenciesFirst' /\ CompletedMeansDone'
  BY <1>1, QuietKeeps, SameRowKeeps
<1>3. TypeOK'
  BY <1>1, QuietTypes DEF RunInv, TypeOK
<1>4. FreshInv' /\ WaveInv' /\ StopInv'
  BY <1>1 DEF RunInv, FreshInv, WaveInv, StopInv, stop, Started, Quiet, tasks
<1>5. EndInv' /\ ToldInv'
  BY <1>1, SameSatisfiable DEF RunInv, EndInv, ToldInv, Quiet
<1>6. ShownInv' /\ JobAgrees'
  BY <1>1 DEF RunInv, ShownInv, JobAgrees, Quiet, tasks, Ids
<1>7. QED
  BY <1>2, <1>3, <1>4, <1>5, <1>6 DEF RunInv

LEMMA StepKeeps ==
  ASSUME RunInv, [Next]_vars
  PROVE  RunInv'
<1>1. CASE RunStep
  BY <1>1, ReceiveKeeps, PrescreenKeeps, RefuseKeeps, CreateRunKeeps, MakePlanKeeps,
     SavePlanKeeps, TopOfLoopKeeps, HaltKeeps, StartRaisesKeeps, StartWaveKeeps, GatherKeeps,
     SynthesizeKeeps, PersistFinalKeeps, FinishRunKeeps DEF RunStep
<1>2. CASE \E i \in Positions : TaskStep(i)
  BY <1>2, StepEndsKeeps, SaveStepKeeps DEF TaskStep
<1>3. CASE Switch \/ TimePasses \/ Cut \/ Restart
  BY <1>3, SwitchKeeps, TimePassesKeeps, CutKeeps, RestartKeeps
<1>4. CASE UNCHANGED vars
  BY <1>4, StutterKeeps
<1>5. QED
  BY <1>1, <1>2, <1>3, <1>4 DEF Next

\* The inductive invariant of a run.
THEOREM RunInvHolds == Spec => []RunInv
<1>1. Init => RunInv
  BY InitInv
<1>2. RunInv /\ [Next]_vars => RunInv'
  BY StepKeeps
<1>3. QED
  BY <1>1, <1>2, PTL DEF Spec

\* What has started was charged, and no more is charged than there is.
LEMMA Affordable ==
  ASSUME RunInv
  PROVE  Cardinality(Started) <= MaxSteps
<1>1. IsFiniteSet(Started)
  BY PlanType, FS_Subset DEF RunInv, Started
<1>2. Cardinality(Started) \in Nat
  BY <1>1, FS_CardinalityType
<1>3. Cardinality(Started) <= stepsUsed /\ stepsUsed \in 0 .. MaxSteps /\ MaxSteps \in Nat
  BY PlanAssumption DEF RunInv, BookInv, TypeOK
<1>4. QED
  BY <1>2, <1>3

\* budget.py: no more steps than max_steps ever start, whatever the plan.
THEOREM BudgetHolds == Spec => []StepsWithinBudget
<1>1. RunInv => StepsWithinBudget
  BY Affordable DEF StepsWithinBudget
<1>2. QED
  BY <1>1, RunInvHolds, PTL

\* Waves: a step starts only after the results of what it depends on are stored.
THEOREM DependenciesHold == Spec => []DependenciesFirst
<1>1. RunInv => DependenciesFirst
  BY DEF RunInv
<1>2. QED
  BY <1>1, RunInvHolds, PTL

\* The runs row says completed only when all that can be done is done.
THEOREM CompletedHolds == Spec => []CompletedMeansDone
<1>1. RunInv => CompletedMeansDone
  BY DEF RunInv
<1>2. QED
  BY <1>1, RunInvHolds, PTL

\* A polled job, and a page that is still connected, agree with the runs row.
THEOREM ClientAgrees == Spec => []JobAgrees
<1>1. RunInv => JobAgrees
  BY DEF RunInv
<1>2. QED
  BY <1>1, RunInvHolds, PTL

\* What a wave starts was waiting, and since the run's last look at the top of
\* its loop the E-STOP had been off.
LEMMA StartsFresh ==
  ASSUME RunInv, [Next]_vars, NEW i \in DOMAIN plan,
         stage'[i] # stage[i], stage[i] = "waiting" \/ stage'[i] = "running"
  PROVE  stage[i] = "waiting" /\ clear
<1>1. CASE StartWave
  <2>1. pc = "check" /\ ~seen
    BY <1>1 DEF StartWave
  <2>2. clear
    BY <2>1 DEF RunInv, StopInv
  <2>3. PICK mute \in SUBSET NextWave :
          stage' = [k \in DOMAIN plan |-> IF k \in mute THEN "failed"
                                          ELSE IF k \in NextWave THEN "running"
                                          ELSE stage[k]]
    BY <1>1 DEF StartWave
  <2>4. i \in NextWave
    BY <2>3
  <2>5. plan[i].id \notin doneIds
    BY <2>4, WaveFits DEF RunInv, Ready
  <2>6. stage[i] = "waiting"
    BY <2>1, <2>5 DEF RunInv, WaveInv, Started
  <2>7. QED
    BY <2>2, <2>6
<1>2. CASE MakePlan
  BY <1>2 DEF MakePlan, RunInv, FreshInv, Early, tasks
<1>3. CASE \E k \in Positions : TaskStep(k)
  BY <1>3 DEF TaskStep, StepEnds, SaveStep, RunInv, TypeOK
<1>4. CASE Restart
  BY <1>4 DEF Restart, RunInv, TypeOK
<1>5. CASE UNCHANGED stage
  BY <1>5
<1>6. CASE RunStep /\ ~StartWave /\ ~MakePlan
  BY <1>6, <1>5 DEF RunStep, tasks, Receive, Prescreen, Refuse, CreateRun, SavePlan, TopOfLoop,
     Halt, StartRaises, Gather, Synthesize, PersistFinal, FinishRun
<1>7. CASE Switch \/ TimePasses \/ Cut \/ UNCHANGED vars
  BY <1>7, <1>5 DEF Switch, TimePasses, Cut, vars, tasks
<1>8. QED
  BY <1>1, <1>2, <1>3, <1>4, <1>6, <1>7 DEF Next

\* The loop over waves: no step starts twice.
THEOREM StartsOnceHolds == Spec => StartsOnce
<1>1. RunInv /\ [Next]_vars =>
        [\A i \in DOMAIN plan : stage'[i] = "running" => stage[i] \in {"waiting", "running"}]_vars
  BY StartsFresh
<1>2. QED
  BY <1>1, RunInvHolds, PTL DEF Spec, StartsOnce

\* The E-STOP read at the top of the loop: one engaged since before a wave ended
\* lets no further step start.
THEOREM StopHaltsWavesHolds == Spec => StopHaltsWaves
<1>1. RunInv /\ [Next]_vars =>
        [\A i \in DOMAIN plan : stage[i] = "waiting" /\ stage'[i] = "running" => clear]_vars
  BY StartsFresh
<1>2. QED
  BY <1>1, RunInvHolds, PTL DEF Spec, StopHaltsWaves

\* jobs.py, runs/page.tsx: how a run ended is told once.
THEOREM JobSettlesHolds == Spec => JobSettles
<1>1. ASSUME RunInv, [Next]_vars, job.status \in {"completed", "stopped", "refused"},
             job'.status # job.status
      PROVE  job'.status \in {"error", "gone"}
  <2>1. job \in Client
    BY <1>1 DEF RunInv, TypeOK
  <2>2. ASSUME Raise \/ Restart
        PROVE  job'.status \in {"error", "gone"}
    BY <1>1, <2>1, <2>2 DEF Raise, Restart, Client
  <2>3. ASSUME NEW ids, NEW status, TellSteps(ids, status)
        PROVE  FALSE
    BY <1>1, <2>1, <2>3 DEF TellSteps, Client
  <2>4. CASE pc \in (Early \ {"refusing"}) \cup InLoop \cup {"save_plan", "synthesize"}
    BY <1>1, <2>4 DEF RunInv, ToldInv
  <2>5. CASE pc = "persist"
    BY <1>1, <2>5 DEF RunInv, ToldInv
  <2>6. CASE RunStep /\ pc \in {"refusing", "finish"}
    <3>1. Refuse \/ FinishRun
      BY <2>6 DEF RunStep, Receive, Prescreen, CreateRun, MakePlan, SavePlan, TopOfLoop,
         Halt, StartRaises, StartWave, Gather, Synthesize, PersistFinal
    <3>2. QED
      BY <1>1, <2>1, <2>2, <3>1 DEF Refuse, FinishRun, Client
  <2>7. CASE RunStep /\ pc \in Ended
    BY <2>7 DEF Ended, RunStep, Receive, Prescreen, Refuse, CreateRun, MakePlan, SavePlan,
       TopOfLoop, Halt, StartRaises, StartWave, Gather, Synthesize, PersistFinal, FinishRun
  <2>8. CASE \E k \in Positions : TaskStep(k)
    BY <1>1, <2>3, <2>8 DEF TaskStep, StepEnds, SaveStep
  <2>9. CASE Switch \/ TimePasses \/ Cut \/ UNCHANGED vars
    BY <1>1, <2>1, <2>9 DEF Switch, TimePasses, Cut, vars, Client
  <2>10. QED
    BY <1>1, <2>2, <2>4, <2>5, <2>6, <2>7, <2>8, <2>9
       DEF Next, RunInv, TypeOK, Early, InLoop
<1>2. RunInv /\ [Next]_vars =>
        [job.status \in {"completed", "stopped", "refused"} /\ job.status' # job.status =>
           job.status' \in {"error", "gone"}]_vars
  BY <1>1
<1>3. QED
  BY <1>2, RunInvHolds, PTL DEF Spec, JobSettles

-----------------------------------------------------------------------------
(* The run implements PlanExecution. *)

LEMMA SettledStep ==
  ASSUME RunInv, SettledInv, [Next]_vars
  PROVE  SettledInv'
<1>1. CASE StartWave
  <2>1. /\ pc = "check" /\ pc' = "gather" /\ plan' = plan /\ wave' = NextWave
        /\ \E mute \in SUBSET NextWave :
             stage' = [i \in DOMAIN plan |-> IF i \in mute THEN "failed"
                                             ELSE IF i \in NextWave THEN "running"
                                             ELSE stage[i]]
    BY <1>1 DEF StartWave
  <2>2. \A i \in DOMAIN plan \ NextWave : stage'[i] = stage[i]
    BY <2>1
  <2>3. QED
    BY <2>1, <2>2 DEF SettledInv
<1>2. CASE Gather
  BY <1>2 DEF Gather, Raise, tasks, SettledInv
<1>3. CASE SavePlan
  BY <1>3 DEF SavePlan, Raise, tasks, RunInv, FreshInv, SettledInv
<1>4. CASE \E i \in Positions : TaskStep(i)
  <2>1. PICK i \in DOMAIN plan : StepEnds(i) \/ SaveStep(i)
    BY <1>4 DEF TaskStep
  <2>2. /\ stage[i] \in {"running", "saving"}
        /\ \A k \in DOMAIN plan : k # i => stage'[k] = stage[k]
        /\ UNCHANGED <<pc, plan, wave>>
    BY <2>1 DEF StepEnds, SaveStep, control, RunInv, TypeOK
  <2>3. QED
    BY <2>2 DEF SettledInv
<1>5. CASE Restart
  BY <1>5 DEF Restart, SettledInv
<1>6. CASE MakePlan
  BY <1>6 DEF MakePlan, Raise, SettledInv
<1>7. CASE TopOfLoop \/ Halt \/ StartRaises \/ Synthesize \/ PersistFinal \/ FinishRun
  BY <1>7 DEF TopOfLoop, Halt, StartRaises, Synthesize, PersistFinal, FinishRun, Raise, tasks,
     SettledInv
<1>8. CASE Receive \/ Prescreen \/ Refuse \/ CreateRun
  BY <1>8 DEF Receive, Prescreen, Refuse, CreateRun, Raise, SettledInv
<1>9. CASE Switch \/ TimePasses \/ Cut \/ UNCHANGED vars
  BY <1>9 DEF Switch, TimePasses, Cut, vars, control, tasks, SettledInv
<1>10. QED
  BY <1>1, <1>2, <1>3, <1>4, <1>5, <1>6, <1>7, <1>8, <1>9 DEF Next, RunStep

\* How a step stands does not show until it starts or is over.
LEMMA SameStage ==
  ASSUME UNCHANGED <<plan, stage>>
  PROVE  Stage' = Stage
BY DEF Stage

\* A run that goes on is open.
LEMMA GoesOn ==
  ASSUME pc \notin Ended, pc' \notin Ended
  PROVE  Outcome = "open" /\ Outcome' = "open"
BY DEF Outcome

\* An exception abandons the run, if its row does not say how it ended.
LEMMA RaiseRefines ==
  ASSUME RunInv, pc \notin Ended, pc' \in Ended, UNCHANGED <<plan, stage, stepRows>>,
         row' \in {row, "running"}
  PROVE  P!Abandon
<1>1. row \notin {"completed", "stopped"}
  BY DEF RunInv, EndInv
<1>2. Outcome = "open" /\ Outcome' = "abandoned"
  BY <1>1 DEF Outcome
<1>3. QED
  BY <1>2, SameStage DEF P!Abandon

LEMMA MakePlanRefines ==
  ASSUME RunInv, MakePlan
  PROVE  P!Next
<1>1. CASE Raise
  <2>1. P!Abandon
    BY <1>1, RaiseRefines DEF MakePlan, Raise, Ended, tasks, rows
  <2>2. QED
    BY <2>1 DEF P!Next
<1>2. CASE plan' \in Plan /\ stage' = [i \in DOMAIN plan' |-> "waiting"] /\ pc' = "save_plan"
  <2>1. Outcome = "open" /\ Outcome' = "open"
    BY <1>2, GoesOn DEF MakePlan, Ended
  <2>2. plan = <<>>
    BY DEF MakePlan, RunInv, FreshInv, Early
  <2>3. Stage' = [i \in DOMAIN plan' |-> "waiting"]
    BY <1>2 DEF Stage
  <2>4. P!Adopt
    BY <1>2, <2>1, <2>2, <2>3 DEF P!Adopt, MakePlan, rows
  <2>5. QED
    BY <2>4 DEF P!Next
<1>3. QED
  BY <1>1, <1>2 DEF MakePlan

\* A wave starts when nothing runs, with steps that have not started.
LEMMA StartWaveRefines ==
  ASSUME RunInv, SettledInv, StartWave
  PROVE  P!Next
<1>1. /\ pc = "check" /\ pc' = "gather"
      /\ UNCHANGED <<plan, stepRows>>
      /\ stage \in [DOMAIN plan -> {"waiting", "running", "saving", "done", "failed", "lost"}]
  BY DEF StartWave, rows, RunInv, TypeOK
<1>2. PICK mute \in SUBSET NextWave :
        stage' = [i \in DOMAIN plan |-> IF i \in mute THEN "failed"
                                        ELSE IF i \in NextWave THEN "running"
                                        ELSE stage[i]]
  BY DEF StartWave
<1>3. Outcome = "open" /\ Outcome' = "open"
  BY <1>1, GoesOn DEF Ended
<1>4. P!NoneRuns
  BY <1>1 DEF SettledInv, P!NoneRuns, Stage
<1>5. NextWave \in SUBSET DOMAIN plan
  BY WaveFits DEF RunInv
<1>6. \A i \in NextWave : Stage[i] = "waiting" /\ plan[i].deps \subseteq stepRows
  <2>1. \A i \in NextWave : plan[i].id \notin doneIds /\ plan[i].deps \subseteq stepRows
    BY WaveFits DEF RunInv, BookInv, Ready
  <2>2. \A i \in NextWave : stage[i] = "waiting"
    BY <1>1, <1>5, <2>1 DEF RunInv, WaveInv, Started
  <2>3. QED
    BY <1>5, <2>1, <2>2 DEF Stage
<1>7. P!Cardinality(P!Begun \cup NextWave) <= MaxSteps
  <2>1. P!Begun \cup NextWave = Started'
    BY <1>1, <1>2, <1>5 DEF P!Begun, Stage, Started
  <2>2. RunInv'
    BY StartWaveKeeps
  <2>3. Cardinality(Started') <= stepsUsed' /\ stepsUsed' \in 0 .. MaxSteps /\ MaxSteps \in Nat
    BY <2>2, PlanAssumption DEF RunInv, BookInv, TypeOK
  <2>4. Started' \in SUBSET DOMAIN plan /\ IsFiniteSet(DOMAIN plan)
    BY <1>1, PlanType DEF Started, RunInv
  <2>5. IsFiniteSet(Started')
    BY <2>4, FS_Subset
  <2>6. Cardinality(Started') \in Nat
    BY <2>5, FS_CardinalityType
  <2>7. P!Cardinality(Started') = Cardinality(Started')
    BY Zenon DEF P!Cardinality, Cardinality
  <2>8. QED
    BY <2>1, <2>3, <2>6, <2>7
<1>8. Stage' = [i \in DOMAIN plan |-> IF i \in mute THEN "over"
                                      ELSE IF i \in NextWave THEN "running"
                                      ELSE Stage[i]]
  BY <1>1, <1>2 DEF Stage
<1>9. P!Start(NextWave)
  <2>1. \E failed \in SUBSET NextWave :
          Stage' = [i \in DOMAIN plan |-> IF i \in failed THEN "over"
                                          ELSE IF i \in NextWave THEN "running"
                                          ELSE Stage[i]]
    BY <1>8
  <2>2. QED
    BY <1>1, <1>3, <1>4, <1>6, <1>7, <2>1 DEF P!Start
<1>10. QED
  BY <1>5, <1>9 DEF P!Next

\* What a step returned is stored, or it fails.
LEMMA TaskRefines ==
  ASSUME RunInv, NEW i \in DOMAIN plan, StepEnds(i) \/ SaveStep(i)
  PROVE  P!Next \/ UNCHANGED <<plan, Stage, stepRows, Outcome>>
<1>1. /\ stage \in [DOMAIN plan -> {"waiting", "running", "saving", "done", "failed", "lost"}]
      /\ UNCHANGED <<pc, plan, row>>
  BY DEF RunInv, TypeOK, StepEnds, SaveStep, control, rows
<1>2. UNCHANGED Outcome
  BY <1>1 DEF Outcome
<1>3. CASE StepEnds(i)
  <2>1. stage[i] = "running" /\ stage' = [stage EXCEPT ![i] = "saving"] /\ stepRows' = stepRows
    BY <1>3 DEF StepEnds, rows
  <2>2. \A k \in DOMAIN plan :
          \/ stage'[k] = stage[k]
          \/ stage[k] = "running" /\ stage'[k] = "saving"
    BY <1>1, <2>1
  <2>3. Stage' = Stage
    BY <1>1, <2>2 DEF Stage
  <2>4. QED
    BY <1>1, <1>2, <2>1, <2>3
<1>4. CASE SaveStep(i)
  <2>1. /\ stage[i] = "saving"
        /\ stage' = [stage EXCEPT ![i] = "done"] \/ stage' = [stage EXCEPT ![i] = "failed"]
        /\ stepRows' \in {stepRows, stepRows \cup {plan[i].id}}
    BY <1>4 DEF SaveStep
  <2>2. stage'[i] \in {"done", "failed"} /\ \A k \in DOMAIN plan : k # i => stage'[k] = stage[k]
    BY <1>1, <2>1
  <2>3. Stage[i] = "running" /\ Stage' = [Stage EXCEPT ![i] = "over"]
    BY <1>1, <2>1, <2>2 DEF Stage
  <2>4. P!Finish(i)
    BY <1>1, <1>2, <2>1, <2>3 DEF P!Finish
  <2>5. QED
    BY <2>4 DEF P!Next
<1>5. QED
  BY <1>3, <1>4

\* The row says how the run ended, when nothing runs and, if it says completed,
\* all that can be done is stored.
LEMMA FinishRunRefines ==
  ASSUME RunInv, SettledInv, FinishRun
  PROVE  P!Next
<1>1. /\ pc = "finish" /\ pc' \in {"returned", "raised"}
      /\ UNCHANGED <<plan, stage, stepRows>>
      /\ row' \in {row, verdict} /\ verdict \in {"completed", "stopped"}
  BY DEF FinishRun, Raise, tasks, RunInv, TypeOK
<1>2. CASE row' = row
  <2>1. P!Abandon
    BY <1>1, <1>2, RaiseRefines DEF Ended
  <2>2. QED
    BY <2>1 DEF P!Next
<1>3. CASE row' = verdict
  <2>1. Outcome = "open" /\ Outcome' = verdict
    BY <1>1, <1>3 DEF Outcome, Ended
  <2>2. P!NoneRuns
    BY <1>1 DEF SettledInv, P!NoneRuns, Stage
  <2>3. verdict = "completed" => P!Satisfiable \subseteq stepRows
    BY <1>1 DEF RunInv, EndInv, BookInv
  <2>4. P!Conclude
    BY <1>1, <2>1, <2>2, <2>3, SameStage DEF P!Conclude
  <2>5. QED
    BY <2>4 DEF P!Next
<1>4. QED
  BY <1>1, <1>2, <1>3

LEMMA RestartRefines ==
  ASSUME RunInv, Restart
  PROVE  P!Next
<1>1. /\ pc' = "lost" /\ UNCHANGED <<plan, row, stepRows>>
      /\ stage' = [i \in DOMAIN plan |->
                     IF stage[i] \in {"running", "saving"} THEN "lost" ELSE stage[i]]
  BY DEF Restart, rows
<1>2. Outcome' = IF Outcome = "open" THEN "abandoned" ELSE Outcome
  BY <1>1 DEF Outcome, Ended, RunInv, EndInv
<1>3. Stage' = [i \in DOMAIN plan |-> IF Stage[i] = "running" THEN "over" ELSE Stage[i]]
  BY <1>1 DEF Stage
<1>4. P!Crash
  BY <1>1, <1>2, <1>3 DEF P!Crash
<1>5. QED
  BY <1>4 DEF P!Next

\* Every other step of run() goes on, or raises.
LEMMA RunStepRefines ==
  ASSUME RunInv, SettledInv, RunStep
  PROVE  P!Next \/ UNCHANGED <<plan, Stage, stepRows, Outcome>>
<1>1. CASE MakePlan \/ StartWave \/ FinishRun
  BY <1>1, MakePlanRefines, StartWaveRefines, FinishRunRefines
<1>2. CASE Receive \/ Prescreen \/ Refuse \/ CreateRun \/ SavePlan \/ TopOfLoop \/ Halt
           \/ StartRaises \/ Gather \/ Synthesize \/ PersistFinal
  <2>1. /\ pc \notin Ended
        /\ UNCHANGED <<plan, stage, stepRows>> /\ row' \in {row, "running"}
    BY <1>2 DEF Receive, Prescreen, Refuse, CreateRun, SavePlan, TopOfLoop, Halt, StartRaises,
       Gather, Synthesize, PersistFinal, Ended, tasks, rows
  <2>2. CASE pc' \in Ended
    <3>1. P!Abandon
      BY <2>1, <2>2, RaiseRefines
    <3>2. QED
      BY <3>1 DEF P!Next
  <2>3. CASE pc' \notin Ended
    BY <2>1, <2>3, GoesOn, SameStage
  <2>4. QED
    BY <2>2, <2>3
<1>3. QED
  BY <1>1, <1>2 DEF RunStep

\* Every step is a step of PlanExecution or does not show.
LEMMA StepRefines == RunInv /\ SettledInv /\ [Next]_vars => [P!Next]_(P!vars)
<1> SUFFICES ASSUME RunInv, SettledInv, [Next]_vars
             PROVE  P!Next \/ UNCHANGED <<plan, Stage, stepRows, Outcome>>
  BY DEF P!vars
<1>1. CASE RunStep
  BY <1>1, RunStepRefines
<1>2. CASE \E i \in Positions : TaskStep(i)
  BY <1>2, TaskRefines DEF TaskStep
<1>3. CASE Restart
  BY <1>3, RestartRefines
<1>4. CASE Switch \/ TimePasses \/ Cut \/ UNCHANGED vars
  <2>1. UNCHANGED <<pc, plan, stage, row, stepRows>>
    BY <1>4 DEF Switch, TimePasses, Cut, vars, control, tasks, rows
  <2>2. QED
    BY <2>1, SameStage DEF Outcome
<1>5. QED
  BY <1>1, <1>2, <1>3, <1>4 DEF Next

\* Spec => Implements: every run, whatever its plan, its client and what fails,
\* is an execution of a plan as PlanExecution has it (orchestrator.py).
THEOREM RunImplements == Spec => Implements
<1>1. Init => P!Init
  BY DEF Init, P!Init, Stage, Outcome, Ended
<1>2. Init => SettledInv
  BY DEF Init, SettledInv
<1>3. QED
  BY <1>1, <1>2, RunInvHolds, SettledStep, StepRefines, PTL DEF Spec, Implements, P!Spec

=============================================================================
