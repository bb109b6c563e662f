------------------------- MODULE WorkerQueue_proofs -------------------------
(***************************************************************************)
(* Code runs at most once, results reach their own callers and a job that  *)
(* timed out is over when it is reported, for any number of jobs and       *)
(* workers.                                                                *)
(***************************************************************************)
EXTENDS WorkerQueue, TLAPS

-----------------------------------------------------------------------------
(* Why they are inductive: a job that is still to be run is in one place.   *)

\* A job is on the list only once submitted, and only until it is taken.
ListInv ==
  /\ \A i \in DOMAIN queue : api[queue[i]] # "idle" /\ runs[queue[i]] = 0
  /\ \A i, k \in DOMAIN queue : queue[i] = queue[k] => i = k
  /\ \A j \in Job : api[j] = "idle" => runs[j] = 0

\* Results are those of completed runs.
ResultInv ==
  /\ \A w \in Worker : loop[w] \in {"reporting", "expiring"} => hand[w] \in complete
  /\ \A j \in Job : stored[j] # "absent" => j \in complete

WorkerInv(w) ==
  /\ loop[w] # "polling" => hand[w] \in Job
  /\ loop[w] \in {"polling", "running"} => ~timedOut[w]
  /\ loop[w] = "draining" => timedOut[w]
  /\ timedOut[w] => procs[w] \subseteq {"stray"}

QueueInv ==
  /\ TypeOK
  /\ ListInv
  /\ ResultInv
  /\ \A w \in Worker : WorkerInv(w)
  /\ AtMostOnce
  /\ ResultIsOwn
  /\ ReportedIsOver

-----------------------------------------------------------------------------
\* The workers and what they have in hand are left alone.
LEMMA CallSideKeeps ==
  ASSUME QueueInv, UNCHANGED <<hand, loop, sandbox, ledger>>,
         api' \in [Job -> {"idle", "waiting"} \cup Over],
         stored' \in [Job -> {"absent", "kept", "expiring"}],
         \A j \in Job : stored'[j] # "absent" => stored[j] # "absent",
         \A j \in Job : api'[j] = "result" => api[j] = "result" \/ stored[j] # "absent",
         \A j \in Job : api'[j] = "idle" => api[j] = "idle",
         queue' \in Seq(Job), ListInv'
  PROVE  QueueInv'
<1>1. UNCHANGED <<hand, loop, procs, timedOut, runs, complete>>
  BY DEF sandbox, ledger
<1>2. TypeOK'
  BY <1>1 DEF QueueInv, TypeOK
<1>3. ResultInv' /\ AtMostOnce' /\ ResultIsOwn' /\ ReportedIsOver'
  BY <1>1 DEF QueueInv, ResultInv, AtMostOnce, ResultIsOwn, ReportedIsOver
<1>4. \A w \in Worker : WorkerInv(w)'
  BY <1>1 DEF QueueInv, WorkerInv
<1>5. QED
  BY <1>2, <1>3, <1>4 DEF QueueInv

\* A job is pushed: it was not on the list, as its call was idle.
LEMMA SubmitKeeps ==
  ASSUME QueueInv, NEW j \in Job, Submit(j)
  PROVE  QueueInv'
<1>1. /\ UNCHANGED <<stored, hand, loop, sandbox, ledger>>
      /\ api[j] = "idle"
      /\ api' = [api EXCEPT ![j] = "waiting"] \/ api' = [api EXCEPT ![j] = "raised"]
      /\ queue' = queue \/ queue' = Append(queue, j)
  BY DEF Submit, SetApi
<1>2. /\ queue \in Seq(Job) /\ api \in [Job -> {"idle", "waiting"} \cup Over]
      /\ runs' = runs /\ stored' = stored
      /\ stored \in [Job -> {"absent", "kept", "expiring"}]
  BY <1>1 DEF QueueInv, TypeOK, ledger
<1>3. /\ queue' \in Seq(Job) /\ api' \in [Job -> {"idle", "waiting"} \cup Over]
      /\ \A i \in Job : api'[i] = "result" => api[i] = "result"
      /\ \A i \in Job : api'[i] = "idle" => api[i] = "idle"
      /\ api'[j] # "idle"
  BY <1>1, <1>2 DEF Over
<1>4. ListInv'
  <2>1. \A i \in DOMAIN queue : queue[i] # j /\ queue[i] \in Job
    BY <1>1, <1>2 DEF QueueInv, ListInv
  <2>2. runs[j] = 0
    BY <1>1 DEF QueueInv, ListInv
  <2>3. ASSUME NEW i \in DOMAIN queue'
        PROVE  (i \in DOMAIN queue /\ queue'[i] = queue[i]) \/ (i = Len(queue) + 1 /\ queue'[i] = j)
    <3>1. CASE queue' = queue
      BY <3>1
    <3>2. CASE queue' = Append(queue, j)
      <4>1. DOMAIN queue' = 1 .. Len(queue) + 1 /\ DOMAIN queue = 1 .. Len(queue) /\ Len(queue) \in Nat
        BY <3>2, <1>2
      <4>2. queue'[i] = IF i <= Len(queue) THEN queue[i] ELSE j
        BY <3>2, <1>2, <4>1
      <4>3. QED
        BY <4>1, <4>2
    <3>3. QED
      BY <3>1, <3>2, <1>1
  <2>4. \A i \in DOMAIN queue' : api'[queue'[i]] # "idle" /\ runs[queue'[i]] = 0
    BY <1>1, <1>2, <1>3, <2>1, <2>2, <2>3 DEF QueueInv, ListInv
  <2>5. \A i, k \in DOMAIN queue' : queue'[i] = queue'[k] => i = k
    BY <2>1, <2>3 DEF QueueInv, ListInv
  <2>6. \A i \in Job : api'[i] = "idle" => runs[i] = 0
    BY <1>3 DEF QueueInv, ListInv
  <2>7. QED
    BY <1>2, <2>4, <2>5, <2>6 DEF ListInv
<1>5. QED
  BY <1>1, <1>2, <1>3, <1>4, CallSideKeeps

\* Answers, time-outs, restarts of the API and expiry leave the list alone.
LEMMA WaitKeeps ==
  ASSUME QueueInv,
         \/ \E j \in Job : Receive(j) \/ GiveUp(j) \/ WaitRaises(j) \/ ResultExpires(j)
         \/ ApiRestart
  PROVE  QueueInv'
<1>1. /\ UNCHANGED <<queue, hand, loop, sandbox, ledger>>
      /\ \/ \E j \in Job : /\ \/ /\ api[j] = "waiting"
                                 /\ \/ api' = [api EXCEPT ![j] = "result"] /\ stored[j] # "absent"
                                    \/ api' = [api EXCEPT ![j] = "timeout"]
                                    \/ api' = [api EXCEPT ![j] = "raised"]
                              \/ api' = api
                           /\ stored' = stored \/ stored' = [stored EXCEPT ![j] = "absent"]
         \/ /\ api' = [j \in Job |-> IF api[j] = "waiting" THEN "lost" ELSE api[j]]
            /\ stored' = stored
  BY DEF Receive, GiveUp, WaitRaises, ResultExpires, ApiRestart, SetApi
<1>2. /\ api \in [Job -> {"idle", "waiting"} \cup Over]
      /\ stored \in [Job -> {"absent", "kept", "expiring"}]
      /\ queue \in Seq(Job) /\ queue' = queue /\ runs' = runs
  BY <1>1 DEF QueueInv, TypeOK, ledger
<1>3. /\ api' \in [Job -> {"idle", "waiting"} \cup Over]
      /\ \A i \in Job : api'[i] = "idle" <=> api[i] = "idle"
      /\ \A i \in Job : api'[i] = "result" => api[i] = "result" \/ stored[i] # "absent"
  <2>1. ASSUME NEW j \in Job, api[j] = "waiting",
               \/ api' = [api EXCEPT ![j] = "result"] /\ stored[j] # "absent"
               \/ api' = [api EXCEPT ![j] = "timeout"]
               \/ api' = [api EXCEPT ![j] = "raised"]
        PROVE  <1>3!:
    BY <2>1, <1>2 DEF Over
  <2>2. CASE api' = [j \in Job |-> IF api[j] = "waiting" THEN "lost" ELSE api[j]]
    BY <2>2, <1>2 DEF Over
  <2>3. CASE api' = api
    BY <2>3, <1>2
  <2>4. QED
    BY <2>1, <2>2, <2>3, <1>1
<1>4. /\ stored' \in [Job -> {"absent", "kept", "expiring"}]
      /\ \A i \in Job : stored'[i] # "absent" => stored[i] # "absent"
  BY <1>1, <1>2
<1>5. ListInv'
  <2>1. \A i \in DOMAIN queue : queue[i] \in Job
    BY <1>2
  <2>2. QED
    BY <1>2, <1>3, <2>1 DEF QueueInv, ListInv
<1>6. QED
  BY <1>1, <1>2, <1>3, <1>4, <1>5, CallSideKeeps

-----------------------------------------------------------------------------

\* The head of the list is taken and started: its other copies would be
\* further down, and there are none.
LEMMA TakeKeeps ==
  ASSUME QueueInv, NEW w \in Worker, Take(w)
  PROVE  QueueInv'
<1> DEFINE j == Head(queue)
<1>1. /\ UNCHANGED <<api, stored, timedOut, complete>>
      /\ queue # <<>> /\ queue' = Tail(queue)
      /\ loop[w] = "polling" /\ loop' = [loop EXCEPT ![w] = "running"]
      /\ hand' = [hand EXCEPT ![w] = j] /\ procs' = [procs EXCEPT ![w] = {"script"}]
      /\ runs' = [runs EXCEPT ![j] = @ + 1]
  BY DEF Take, SetLoop
<1>2. queue \in Seq(Job) /\ j \in Job /\ 1 \in DOMAIN queue /\ queue[1] = j
  BY <1>1 DEF QueueInv, TypeOK
<1>3. \A i \in DOMAIN queue' : i + 1 \in DOMAIN queue /\ queue'[i] = queue[i + 1]
                               /\ i + 1 # 1 /\ queue'[i] \in Job
  BY <1>1, <1>2
<1>4. runs \in [Job -> Nat] /\ runs[j] = 0 /\ api[j] # "idle"
  BY <1>2 DEF QueueInv, TypeOK, ListInv
<1>5. TypeOK'
  BY <1>1, <1>2, <1>4 DEF QueueInv, TypeOK, Process
<1>6. ListInv'
  <2>1. \A i \in DOMAIN queue' : queue'[i] # j
    BY <1>2, <1>3 DEF QueueInv, ListInv
  <2>2. \A i \in DOMAIN queue' : api'[queue'[i]] # "idle" /\ runs'[queue'[i]] = 0
    BY <1>1, <1>3, <1>4, <2>1 DEF QueueInv, ListInv
  <2>3. \A i, k \in DOMAIN queue' : queue'[i] = queue'[k] => i = k
    <3>1. SUFFICES ASSUME NEW i \in DOMAIN queue', NEW k \in DOMAIN queue', queue'[i] = queue'[k]
                   PROVE  i = k
      OBVIOUS
    <3>2. i \in Nat /\ k \in Nat
      BY <1>1, <1>2
    <3>3. i + 1 = k + 1
      BY <1>3, <3>1 DEF QueueInv, ListInv
    <3>4. QED
      BY <3>2, <3>3
  <2>4. \A i \in Job : api'[i] = "idle" => runs'[i] = 0
    BY <1>1, <1>4 DEF QueueInv, ListInv
  <2>5. QED
    BY <2>2, <2>3, <2>4 DEF ListInv
<1>7. AtMostOnce'
  BY <1>1, <1>4 DEF QueueInv, AtMostOnce
<1>8. ASSUME NEW v \in Worker PROVE WorkerInv(v)'
  <2>1. CASE v = w
    <3>1. ~timedOut[w]
      BY <1>1 DEF QueueInv, WorkerInv
    <3>2. QED
      BY <2>1, <3>1, <1>1, <1>2 DEF QueueInv, TypeOK, WorkerInv
  <2>2. CASE v # w
    BY <2>2, <1>1 DEF QueueInv, TypeOK, WorkerInv
  <2>3. QED
    BY <2>1, <2>2
<1>9. ResultInv' /\ ResultIsOwn' /\ ReportedIsOver'
  BY <1>1 DEF QueueInv, TypeOK, ResultInv, ResultIsOwn, ReportedIsOver
<1>10. QED
  BY <1>5, <1>6, <1>7, <1>8, <1>9 DEF QueueInv

\* A popped job is lost: one place less.
LEMMA LosePoppedKeeps ==
  ASSUME QueueInv, NEW w \in Worker, LosePopped(w)
  PROVE  QueueInv'
<1>1. UNCHANGED <<api, stored, hand, loop, sandbox, ledger>> /\ queue # <<>> /\ queue' = Tail(queue)
  BY DEF LosePopped
<1>2. queue \in Seq(Job) /\ runs' = runs
  BY <1>1 DEF QueueInv, TypeOK, ledger
<1>3. \A i \in DOMAIN queue' : i \in Nat /\ i + 1 \in DOMAIN queue /\ queue'[i] = queue[i + 1]
  BY <1>1, <1>2
<1>4. ListInv'
  <2>1. \A i, k \in DOMAIN queue' : queue'[i] = queue'[k] => i = k
    <3>1. \A i, k \in DOMAIN queue' : queue'[i] = queue'[k] => i + 1 = k + 1
      BY <1>3 DEF QueueInv, ListInv
    <3>2. QED
      BY <1>3, <3>1
  <2>2. QED
    BY <1>1, <1>2, <1>3, <2>1 DEF QueueInv, ListInv
<1>5. QED
  BY <1>1, <1>2, <1>4, CallSideKeeps DEF QueueInv, TypeOK

\* The list and the calls are left alone while a worker runs code.
LEMMA SandboxKeeps ==
  ASSUME QueueInv, NEW w \in Worker, Spawns(w) \/ Exits(w) \/ TimeOut(w)
  PROVE  QueueInv'
<1>1. UNCHANGED <<api, queue, stored, hand, runs, complete>>
  BY DEF Spawns, Exits, TimeOut, ledger
<1>2. /\ loop[w] \in {"running", "draining"}
      /\ \E now \in SUBSET Process :
           /\ procs' = [procs EXCEPT ![w] = now]
           /\ \/ UNCHANGED <<loop, timedOut>> /\ (procs[w] \subseteq {"stray"} => now \subseteq {"stray"})
              \/ /\ loop[w] = "running" /\ loop' = [loop EXCEPT ![w] = "draining"]
                 /\ timedOut' = [timedOut EXCEPT ![w] = TRUE] /\ now \subseteq {"stray"}
  <2>1. procs \in [Worker -> SUBSET Process]
    BY DEF QueueInv, TypeOK
  <2>2. CASE Spawns(w)
    <3>1. PICK p \in Process \ {"script"} : procs' = [procs EXCEPT ![w] = procs[w] \cup {p}]
      BY <2>2 DEF Spawns
    <3>2. procs[w] \cup {p} \in SUBSET Process /\ ~(procs[w] \subseteq {"stray"})
      BY <2>1, <2>2, <3>1 DEF Spawns, Process
    <3>3. QED
      BY <2>2, <3>1, <3>2 DEF Spawns
  <2>3. CASE Exits(w)
    <3>1. PICK p \in procs[w] : procs' = [procs EXCEPT ![w] = procs[w] \ {p}]
      BY <2>3 DEF Exits
    <3>2. procs[w] \ {p} \in SUBSET Process
      BY <2>1
    <3>3. procs[w] \subseteq {"stray"} => procs[w] \ {p} \subseteq {"stray"}
      OBVIOUS
    <3>4. QED
      BY <2>3, <3>1, <3>2, <3>3 DEF Exits
  <2>4. CASE TimeOut(w)
    <3>1. procs[w] \ Group \in SUBSET Process /\ procs[w] \ Group \subseteq {"stray"}
      BY <2>1 DEF Group, Process
    <3>2. QED
      BY <2>4, <3>1 DEF TimeOut, SetLoop
  <2>5. QED
    BY <2>2, <2>3, <2>4
<1>3. TypeOK'
  BY <1>1, <1>2 DEF QueueInv, TypeOK
<1>4. ASSUME NEW v \in Worker PROVE WorkerInv(v)'
  BY <1>1, <1>2 DEF QueueInv, TypeOK, WorkerInv
<1>5. ReportedIsOver' /\ ResultInv'
  BY <1>1, <1>2 DEF QueueInv, TypeOK, ReportedIsOver, ResultInv
<1>6. ListInv' /\ AtMostOnce' /\ ResultIsOwn'
  BY <1>1 DEF QueueInv, ListInv, AtMostOnce, ResultIsOwn
<1>7. QED
  BY <1>3, <1>4, <1>5, <1>6 DEF QueueInv

\* communicate() returns with nobody at the pipe, and after a kill with nobody
\* of the group.
LEMMA CodeEndsKeeps ==
  ASSUME QueueInv, NEW w \in Worker, CodeEnds(w)
  PROVE  QueueInv'
<1>1. /\ UNCHANGED <<api, queue, stored, hand, procs, timedOut, runs>>
      /\ loop[w] \in {"running", "draining"} /\ procs[w] \cap Awaited = {}
      /\ complete' = complete \cup {hand[w]} /\ loop' = [loop EXCEPT ![w] = "reporting"]
  BY DEF CodeEnds, SetLoop, sandbox
<1>2. hand[w] \in Job /\ procs[w] \subseteq Process
  BY <1>1 DEF QueueInv, TypeOK, WorkerInv
<1>3. procs[w] \subseteq IF timedOut[w] THEN {} ELSE {"quiet"}
  BY <1>1, <1>2 DEF QueueInv, WorkerInv, Awaited, Process
<1>4. TypeOK'
  BY <1>1, <1>2 DEF QueueInv, TypeOK
<1>5. ReportedIsOver' /\ ResultInv' /\ ResultIsOwn'
  BY <1>1, <1>3 DEF QueueInv, TypeOK, ReportedIsOver, ResultInv, ResultIsOwn
<1>6. ASSUME NEW v \in Worker PROVE WorkerInv(v)'
  BY <1>1, <1>2 DEF QueueInv, TypeOK, WorkerInv
<1>7. ListInv' /\ AtMostOnce'
  BY <1>1 DEF QueueInv, ListInv, AtMostOnce
<1>8. QED
  BY <1>4, <1>5, <1>6, <1>7 DEF QueueInv

\* The result is stored under the key of the job in hand.
LEMMA ReportKeeps ==
  ASSUME QueueInv, NEW w \in Worker, Report(w)
  PROVE  QueueInv'
<1>1. /\ UNCHANGED <<api, queue, hand, procs, timedOut, runs, complete>>
      /\ loop[w] = "reporting" /\ loop' = [loop EXCEPT ![w] = "expiring"]
      /\ stored' = [stored EXCEPT ![hand[w]] = "kept"]
  BY DEF Report, SetLoop, sandbox, ledger
<1>2. hand[w] \in Job /\ hand[w] \in complete
  BY <1>1 DEF QueueInv, WorkerInv, ResultInv
<1>3. TypeOK'
  BY <1>1 DEF QueueInv, TypeOK
<1>4. ResultInv' /\ ReportedIsOver'
  BY <1>1, <1>2 DEF QueueInv, TypeOK, ResultInv, ReportedIsOver
<1>5. ASSUME NEW v \in Worker PROVE WorkerInv(v)'
  BY <1>1, <1>2 DEF QueueInv, TypeOK, WorkerInv
<1>6. ListInv' /\ AtMostOnce' /\ ResultIsOwn'
  BY <1>1 DEF QueueInv, ListInv, AtMostOnce, ResultIsOwn
<1>7. QED
  BY <1>3, <1>4, <1>5, <1>6 DEF QueueInv

\* The loop comes round, with the job done or dropped.
LEMMA RoundKeeps ==
  ASSUME QueueInv, NEW w \in Worker, SetExpiry(w) \/ GoesWrong(w)
  PROVE  QueueInv'
<1>1. /\ UNCHANGED <<api, queue, runs, complete>>
      /\ loop' = [loop EXCEPT ![w] = "polling"] /\ hand' = [hand EXCEPT ![w] = NoJob]
      /\ procs' = [procs EXCEPT ![w] = {}] /\ timedOut' = [timedOut EXCEPT ![w] = FALSE]
      /\ \/ stored' = stored
         \/ stored' = [stored EXCEPT ![hand[w]] = IF @ = "absent" THEN @ ELSE "expiring"]
  BY DEF SetExpiry, GoesWrong, BackToPolling, SetLoop, ledger
<1>2. TypeOK'
  BY <1>1 DEF QueueInv, TypeOK
<1>3. \A j \in Job : stored'[j] # "absent" => stored[j] # "absent"
  BY <1>1 DEF QueueInv, TypeOK
<1>4. ResultInv' /\ ReportedIsOver'
  BY <1>1, <1>3 DEF QueueInv, TypeOK, ResultInv, ReportedIsOver
<1>5. ASSUME NEW v \in Worker PROVE WorkerInv(v)'
  BY <1>1 DEF QueueInv, TypeOK, WorkerInv
<1>6. ListInv' /\ AtMostOnce' /\ ResultIsOwn'
  BY <1>1 DEF QueueInv, ListInv, AtMostOnce, ResultIsOwn
<1>7. QED
  BY <1>2, <1>4, <1>5, <1>6 DEF QueueInv

-----------------------------------------------------------------------------

\* Nothing has been submitted.
LEMMA InitHolds == Init => QueueInv
<1> SUFFICES ASSUME Init PROVE QueueInv
  OBVIOUS
<1>1. TypeOK
  BY DEF Init, TypeOK, Over
<1>2. ListInv /\ ResultInv /\ AtMostOnce /\ ResultIsOwn /\ ReportedIsOver
  BY DEF Init, ListInv, ResultInv, AtMostOnce, ResultIsOwn, ReportedIsOver
<1>3. \A w \in Worker : WorkerInv(w)
  BY DEF Init, WorkerInv
<1>4. QED
  BY <1>1, <1>2, <1>3 DEF QueueInv

\* Every step keeps the invariant.
LEMMA StepKeeps == QueueInv /\ [Next]_vars => QueueInv'
<1> SUFFICES ASSUME QueueInv, [Next]_vars PROVE QueueInv'
  OBVIOUS
<1>1. CASE Next
  BY <1>1, SubmitKeeps, WaitKeeps, TakeKeeps, LosePoppedKeeps, SandboxKeeps, CodeEndsKeeps,
     ReportKeeps, RoundKeeps DEF Next, WorkerStep
<1>2. CASE UNCHANGED vars
  <2>1. UNCHANGED <<api, queue, stored, hand, loop, sandbox, ledger, runs>>
    BY <1>2 DEF vars, ledger
  <2>2. ListInv'
    BY <2>1 DEF QueueInv, ListInv
  <2>3. QED
    BY <2>1, <2>2, CallSideKeeps DEF QueueInv, TypeOK
<1>3. QED
  BY <1>1, <1>2

\* Spec => []QueueInv.
THEOREM QueueInvHolds == Spec => []QueueInv
<1>1. QED
  BY InitHolds, StepKeeps, PTL DEF Spec

\* Spec => []AtMostOnce: no crash, retry or second worker runs code again.
THEOREM AtMostOnceHolds == Spec => []AtMostOnce
<1>1. QueueInv => AtMostOnce
  BY DEF QueueInv
<1>2. QED
  BY <1>1, QueueInvHolds, PTL

\* Spec => []ResultIsOwn: a caller never gets the result of another job.
THEOREM ResultIsOwnHolds == Spec => []ResultIsOwn
<1>1. QueueInv => ResultIsOwn
  BY DEF QueueInv
<1>2. QED
  BY <1>1, QueueInvHolds, PTL

\* Spec => []ReportedIsOver: what was killed is dead when it is reported.
THEOREM ReportedIsOverHolds == Spec => []ReportedIsOver
<1>1. QueueInv => ReportedIsOver
  BY DEF QueueInv
<1>2. QED
  BY <1>1, QueueInvHolds, PTL

=============================================================================
