---------------------------- MODULE WorkerQueue ----------------------------
(***************************************************************************)
(* code_exec over Redis: the API pushes a job on a list and blocks on a    *)
(* list of its own for the result, with a timeout (backend/app/tools/impl/ *)
(* code_exec.py, make_redis_code_exec); a tool worker (tool_worker/        *)
(* worker.py) pops jobs, runs them in the sandbox and pushes the results,  *)
(* which expire.                                                           *)
(*                                                                         *)
(* A popped job is in the worker's memory only.  A worker may die and be   *)
(* restarted at any point; the API process may restart; a Redis command    *)
(* may raise, and its effect may have happened all the same.               *)
(*                                                                         *)
(* run_code (tool_worker/executor.py, the same as backend/app/tools/       *)
(* sandbox.py) starts the script in a process group of its own and waits   *)
(* until it has exited and nobody holds its output pipe any more; after    *)
(* the timeout it kills the group and waits once more, without a timeout.  *)
(* What counts of a process the code starts is whether it stays in the     *)
(* group and whether it keeps the pipe; one that does neither is invisible *)
(* to run_code and left out.                                               *)
(***************************************************************************)
EXTENDS Naturals, Sequences

CONSTANTS
  Job,         \* calls of the tool; each one pushes one job with a fresh id
  Worker,      \* tool-worker processes
  NoJob

ASSUME NoJobAssumption == NoJob \notin Job

VARIABLES
  api,         \* how far the call is, in the API process
  queue,       \* apex:tooljobs
  stored,      \* apex:toolresult:<id>: absent, or there with or without a TTL
  hand,        \* the job each worker has popped
  loop,        \* where each worker's loop is
  procs,       \* the processes that the code in hand has running
  timedOut,    \* run_code's local timed_out
  runs,        \* history: how often the code of each job was started
  complete     \* history: jobs whose code ran to its end

sandbox == <<procs, timedOut>>
ledger == <<runs, complete>>
vars == <<api, queue, stored, hand, loop, sandbox, ledger>>

\* The script; a child with its pipe; one whose output goes elsewhere; and one
\* that left the group and kept the pipe.
Process == {"script", "child", "quiet", "stray"}

Group == {"script", "child", "quiet"}

\* What communicate() waits for.
Awaited == {"script", "child", "stray"}

Over == {"result", "timeout", "raised", "lost"}

TypeOK ==
  /\ api \in [Job -> {"idle", "waiting"} \cup Over]
  /\ queue \in Seq(Job)
  /\ stored \in [Job -> {"absent", "kept", "expiring"}]
  /\ hand \in [Worker -> Job \cup {NoJob}]
  /\ loop \in [Worker -> {"polling", "running", "draining", "reporting", "expiring"}]
  /\ procs \in [Worker -> SUBSET Process]
  /\ timedOut \in [Worker -> BOOLEAN]
  /\ runs \in [Job -> Nat]
  /\ complete \subseteq Job

Init ==
  /\ api = [j \in Job |-> "idle"]
  /\ queue = <<>>
  /\ stored = [j \in Job |-> "absent"]
  /\ hand = [w \in Worker |-> NoJob]
  /\ loop = [w \in Worker |-> "polling"]
  /\ procs = [w \in Worker |-> {}]
  /\ timedOut = [w \in Worker |-> FALSE]
  /\ runs = [j \in Job |-> 0]
  /\ complete = {}

-----------------------------------------------------------------------------
(* The call. *)

SetApi(j, point) == api' = [api EXCEPT ![j] = point]

\* rpush of the job; if it raises, the job may be on the list all the same.
Submit(j) ==
  /\ api[j] = "idle"
  /\ \/ SetApi(j, "waiting") /\ queue' = Append(queue, j)
     \/ SetApi(j, "raised") /\ queue' \in {queue, Append(queue, j)}
  /\ UNCHANGED <<stored, hand, loop, sandbox, ledger>>

\* blpop answers with the result, which takes it off the list.
Receive(j) ==
  /\ api[j] = "waiting"
  /\ stored[j] # "absent"
  /\ stored' = [stored EXCEPT ![j] = "absent"]
  /\ SetApi(j, "result")
  /\ UNCHANGED <<queue, hand, loop, sandbox, ledger>>

\* blpop answers nil after its timeout ...
GiveUp(j) ==
  /\ api[j] = "waiting"
  /\ SetApi(j, "timeout")
  /\ UNCHANGED <<queue, stored, hand, loop, sandbox, ledger>>

\* ... or raises, and the result may be off its list all the same.
WaitRaises(j) ==
  /\ api[j] = "waiting"
  /\ SetApi(j, "raised")
  /\ stored' \in {stored, [stored EXCEPT ![j] = "absent"]}
  /\ UNCHANGED <<queue, hand, loop, sandbox, ledger>>

ApiRestart ==
  /\ api' = [j \in Job |-> IF api[j] = "waiting" THEN "lost" ELSE api[j]]
  /\ UNCHANGED <<queue, stored, hand, loop, sandbox, ledger>>

-----------------------------------------------------------------------------
(* The worker. *)

SetLoop(w, point) == loop' = [loop EXCEPT ![w] = point]

\* blpop of the job list; run_code starts the script.
Take(w) ==
  /\ loop[w] = "polling"
  /\ queue # <<>>
  /\ hand' = [hand EXCEPT ![w] = Head(queue)]
  /\ queue' = Tail(queue)
  /\ runs' = [runs EXCEPT ![Head(queue)] = @ + 1]
  /\ procs' = [procs EXCEPT ![w] = {"script"}]
  /\ SetLoop(w, "running")
  /\ UNCHANGED <<api, stored, timedOut, complete>>

\* Faulty: an exception of blpop is not caught.
LosePopped_EndsLoop(w) ==
  /\ loop[w] = "polling"
  /\ queue # <<>>
  /\ queue' \in {queue, Tail(queue)}
  /\ SetLoop(w, "stopped")
  /\ UNCHANGED <<api, stored, hand, sandbox, ledger>>

\* blpop raises although it has popped a job: the loop goes on without it.
LosePopped(w) ==
  /\ loop[w] = "polling"
  /\ queue # <<>>
  /\ queue' = Tail(queue)
  /\ UNCHANGED <<api, stored, hand, loop, sandbox, ledger>>

\* The code starts a process, which has no more than its parent had.
Spawns(w) ==
  /\ loop[w] \in {"running", "draining"}
  /\ {"script", "child"} \cap procs[w] # {}
  /\ \E p \in Process \ {"script"} : procs' = [procs EXCEPT ![w] = @ \cup {p}]
  /\ UNCHANGED <<api, queue, stored, hand, loop, timedOut, ledger>>

Exits(w) ==
  /\ loop[w] \in {"running", "draining"}
  /\ \E p \in procs[w] : procs' = [procs EXCEPT ![w] = @ \ {p}]
  /\ UNCHANGED <<api, queue, stored, hand, loop, timedOut, ledger>>

\* Faulty: only the script is killed.
TimeOut_KillsScript(w) ==
  /\ loop[w] = "running"
  /\ procs' = [procs EXCEPT ![w] = @ \ {"script"}]
  /\ timedOut' = [timedOut EXCEPT ![w] = TRUE]
  /\ SetLoop(w, "draining")
  /\ UNCHANGED <<api, queue, stored, hand, ledger>>

\* communicate(timeout) raises TimeoutExpired, and _kill_group.
TimeOut(w) ==
  /\ loop[w] = "running"
  /\ procs' = [procs EXCEPT ![w] = @ \ Group]
  /\ timedOut' = [timedOut EXCEPT ![w] = TRUE]
  /\ SetLoop(w, "draining")
  /\ UNCHANGED <<api, queue, stored, hand, ledger>>

\* communicate() returns, and run_code with it.
CodeEnds(w) ==
  /\ loop[w] \in {"running", "draining"}
  /\ procs[w] \cap Awaited = {}
  /\ complete' = complete \cup {hand[w]}
  /\ SetLoop(w, "reporting")
  /\ UNCHANGED <<api, queue, stored, hand, sandbox, runs>>

\* Faulty: one key for all results.
Report_SharedKey(w) ==
  /\ loop[w] = "reporting"
  /\ \E j \in Job : stored' = [stored EXCEPT ![j] = "kept"]
  /\ SetLoop(w, "expiring")
  /\ UNCHANGED <<api, queue, hand, sandbox, ledger>>

\* rpush of the result.
Report(w) ==
  /\ loop[w] = "reporting"
  /\ stored' = [stored EXCEPT ![hand[w]] = "kept"]
  /\ SetLoop(w, "expiring")
  /\ UNCHANGED <<api, queue, hand, sandbox, ledger>>

\* What the code may have left running is nobody's any more.
BackToPolling(w) ==
  /\ hand' = [hand EXCEPT ![w] = NoJob]
  /\ procs' = [procs EXCEPT ![w] = {}]
  /\ timedOut' = [timedOut EXCEPT ![w] = FALSE]
  /\ SetLoop(w, "polling")

\* expire: a key that is already gone stays gone.
SetExpiry(w) ==
  /\ loop[w] = "expiring"
  /\ stored' = [stored EXCEPT ![hand[w]] = IF @ = "absent" THEN @ ELSE "expiring"]
  /\ BackToPolling(w)
  /\ UNCHANGED <<api, queue, ledger>>

\* Faulty: the job is put back.
GoesWrong_Requeues(w) ==
  /\ loop[w] # "polling"
  /\ queue' = Append(queue, hand[w])
  /\ BackToPolling(w)
  /\ UNCHANGED <<api, stored, ledger>>

\* An exception is printed and the loop goes on; or the process dies and its
\* container is restarted.  Either way the job in hand is not put back.
GoesWrong(w) ==
  /\ loop[w] # "polling"
  /\ BackToPolling(w)
  /\ UNCHANGED <<api, queue, stored, ledger>>

WorkerStep(w) == Take(w) \/ TimeOut(w) \/ CodeEnds(w) \/ Report(w) \/ SetExpiry(w)

\* The time to live of a result is over.
ResultExpires(j) ==
  /\ stored[j] = "expiring"
  /\ stored' = [stored EXCEPT ![j] = "absent"]
  /\ UNCHANGED <<api, queue, hand, loop, sandbox, ledger>>

Next ==
  \/ \E j \in Job : Submit(j) \/ Receive(j) \/ GiveUp(j) \/ WaitRaises(j) \/ ResultExpires(j)
  \/ \E w \in Worker : WorkerStep(w) \/ Spawns(w) \/ Exits(w) \/ LosePopped(w) \/ GoesWrong(w)
  \/ ApiRestart

\* The timeout of the sandbox passes, and a worker goes on when it can; what
\* the code does is not fair.
Fairness == \A w \in Worker : WF_vars(WorkerStep(w))

Spec == Init /\ [][Next]_vars /\ Fairness

-----------------------------------------------------------------------------
(* Properties. *)

\* The code of a job is started at most once, though its caller gave up, its
\* worker died, or another worker polls the same list.
AtMostOnce == \A j \in Job : runs[j] <= 1

\* A caller that gets a result gets it from a completed run of its own code.
ResultIsOwn == \A j \in Job : api[j] = "result" => j \in complete

\* run_code: a job that is reported as timed out has nothing of its process
\* group running any more, and one that is reported as ended has no script and
\* nobody who could still write to its output.
ReportedIsOver ==
  \A w \in Worker : loop[w] \in {"reporting", "expiring"} =>
    procs[w] \subseteq IF timedOut[w] THEN {} ELSE {"quiet"}

\* run_code has killed the group and waits for a process outside it.
Stuck(w) == loop[w] = "draining" /\ "stray" \in procs[w]

OnList(j) == \E i \in DOMAIN queue : queue[i] = j

\* worker.py main, executor.py: neither exceptions nor crashes nor code that
\* never ends keep a job on the list for ever, as long as some worker is not
\* kept waiting for good by a process that has left its group.
JobsAreTaken ==
  (\E w \in Worker : []<>~Stuck(w)) => \A j \in Job : OnList(j) ~> ~OnList(j)

=============================================================================
