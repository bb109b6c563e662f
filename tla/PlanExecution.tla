--------------------------- MODULE PlanExecution ----------------------------
(***************************************************************************)
(* What the execution of a plan promises, with nothing of how it keeps it: *)
(* steps run in waves, one wave at a time; each starts once at most, when  *)
(* all it depends on is stored, and no more start than the budget has; a   *)
(* run is called completed only when all that can be done is stored; and   *)
(* once it has an outcome, or has been given up, nothing starts any more.  *)
(* Which of the ready steps start, how a step does and whether the run is  *)
(* given up is open at every moment.                                       *)
(***************************************************************************)
EXTENDS Naturals, FiniteSets

CONSTANTS
  Plan,        \* plans that may be made: sequences of steps
  MaxSteps     \* steps that may start in one run

VARIABLES
  plan,        \* the plan, empty until it is made
  stage,       \* of each step: "waiting", "running" or "over"
  stored,      \* ids of the steps whose result is stored
  outcome      \* "open", how the run ended, or "abandoned"

vars == <<plan, stage, stored, outcome>>

Ids == {plan[i].id : i \in DOMAIN plan}

Begun == {i \in DOMAIN plan : stage[i] # "waiting"}

NoneRuns == \A i \in DOMAIN plan : stage[i] # "running"

\* The ids that can be done at all: the least set closed under the plan.
Closed(ids) ==
  \A i \in DOMAIN plan : plan[i].deps \subseteq ids => plan[i].id \in ids

Satisfiable == {id \in Ids : \A ids \in SUBSET Ids : Closed(ids) => id \in ids}

Init ==
  /\ plan = <<>>
  /\ stage = <<>>
  /\ stored = {}
  /\ outcome = "open"

Adopt ==
  /\ outcome = "open"
  /\ plan = <<>>
  /\ plan' \in Plan
  /\ stage' = [i \in DOMAIN plan' |-> "waiting"]
  /\ UNCHANGED <<stored, outcome>>

\* A wave; a step of it may be over as soon as it has started.
Start(steps) ==
  /\ outcome = "open"
  /\ NoneRuns
  /\ \A i \in steps : stage[i] = "waiting" /\ plan[i].deps \subseteq stored
  /\ Cardinality(Begun \cup steps) <= MaxSteps
  /\ \E failed \in SUBSET steps :
       stage' = [i \in DOMAIN plan |-> IF i \in failed THEN "over"
                                       ELSE IF i \in steps THEN "running"
                                       ELSE stage[i]]
  /\ UNCHANGED <<plan, stored, outcome>>

\* A step is over, and its result stored or lost.
Finish(i) ==
  /\ stage[i] = "running"
  /\ stage' = [stage EXCEPT ![i] = "over"]
  /\ stored' \in {stored, stored \cup {plan[i].id}}
  /\ UNCHANGED <<plan, outcome>>

Conclude ==
  /\ outcome = "open"
  /\ NoneRuns
  /\ outcome' \in {"completed", "stopped"}
  /\ outcome' = "completed" => Satisfiable \subseteq stored
  /\ UNCHANGED <<plan, stage, stored>>

\* The run is refused or fails: what runs goes on.
Abandon ==
  /\ outcome = "open"
  /\ outcome' = "abandoned"
  /\ UNCHANGED <<plan, stage, stored>>

\* The process dies: what runs is over.
Crash ==
  /\ outcome' = IF outcome = "open" THEN "abandoned" ELSE outcome
  /\ stage' = [i \in DOMAIN plan |-> IF stage[i] = "running" THEN "over" ELSE stage[i]]
  /\ UNCHANGED <<plan, stored>>

Next ==
  \/ Adopt
  \/ \E steps \in SUBSET DOMAIN plan : Start(steps)
  \/ \E i \in DOMAIN plan : Finish(i)
  \/ Conclude
  \/ Abandon
  \/ Crash

Spec == Init /\ [][Next]_vars

=============================================================================
