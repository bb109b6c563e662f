----------------------------- MODULE Approvals -----------------------------
(***************************************************************************)
(* The approval registry (backend/app/safety/approvals.py).  A tool call   *)
(* of level 3 or 4 registers a request and waits for its event, with a     *)
(* timeout; a person resolves the request through the safety API.  All of  *)
(* it lives in the memory of one process and on one event loop: a step is  *)
(* the code between two awaits.                                            *)
(*                                                                         *)
(* wait() is not atomic: the timer of asyncio.wait_for fires first, and    *)
(* the coroutine notices it (and writes "denied") a few turns of the loop  *)
(* later.  A person's answer can land in between.                          *)
(***************************************************************************)
CONSTANT Request        \* approval ids: one fresh uuid4 per request

VARIABLES
  status,      \* ApprovalRecord.status, "absent" when there is no record
  event,       \* is the asyncio.Event set
  waiter       \* how far the wait() for the request has come

vars == <<status, event, waiter>>

Settled == {"approved", "denied"}

TypeOK ==
  /\ status \in [Request -> {"absent", "pending"} \cup Settled]
  /\ event \in [Request -> BOOLEAN]
  /\ waiter \in [Request -> {"none", "waiting", "timing_out", "granted", "refused"}]

Init ==
  /\ status = [r \in Request |-> "absent"]
  /\ event = [r \in Request |-> FALSE]
  /\ waiter = [r \in Request |-> "none"]

\* request(): a pending record with a clear event.
Register(r) ==
  /\ status[r] = "absent"
  /\ status' = [status EXCEPT ![r] = "pending"]
  /\ event' = [event EXCEPT ![r] = FALSE]
  /\ UNCHANGED waiter

\* Faulty: a second answer is taken.
Resolve_Again(r, answer) ==
  /\ status[r] # "absent"
  /\ status' = [status EXCEPT ![r] = answer]
  /\ event' = [event EXCEPT ![r] = TRUE]
  /\ UNCHANGED waiter

\* resolve() where it returns True: the request must still be pending.  In
\* every other case the code returns False and changes nothing.
Resolve(r, answer) ==
  /\ status[r] = "pending"
  /\ status' = [status EXCEPT ![r] = answer]
  /\ event' = [event EXCEPT ![r] = TRUE]
  /\ UNCHANGED waiter

\* wait(), up to the await of wait_for.
StartWait(r) ==
  /\ status[r] # "absent"
  /\ waiter[r] = "none"
  /\ waiter' = [waiter EXCEPT ![r] = "waiting"]
  /\ UNCHANGED <<status, event>>

\* Faulty: being woken up is taken for an approval.
WaitReturns_Woken(r) ==
  /\ waiter[r] = "waiting"
  /\ event[r]
  /\ waiter' = [waiter EXCEPT ![r] = "granted"]
  /\ UNCHANGED <<status, event>>

\* wait() resumes because the event is set: it reads the status.
WaitReturns(r) ==
  /\ waiter[r] = "waiting"
  /\ event[r]
  /\ waiter' = [waiter EXCEPT ![r] = IF status[r] = "approved" THEN "granted" ELSE "refused"]
  /\ UNCHANGED <<status, event>>

\* The timer of wait_for fires.  Python 3.12 and later let it win over an
\* event that is already set; 3.11 takes WaitReturns in that case.
TimerFires(r) ==
  /\ waiter[r] = "waiting"
  /\ waiter' = [waiter EXCEPT ![r] = "timing_out"]
  /\ UNCHANGED <<status, event>>

\* wait() handles the TimeoutError: denied, whatever the status says by now.
TimeoutDenies(r) ==
  /\ waiter[r] = "timing_out"
  /\ status' = [status EXCEPT ![r] = "denied"]
  /\ waiter' = [waiter EXCEPT ![r] = "refused"]
  /\ UNCHANGED event

\* The API process restarts: the registry is empty again, the waits are gone.
Forget ==
  /\ status' = [r \in Request |-> "absent"]
  /\ event' = [r \in Request |-> FALSE]
  /\ waiter' = [r \in Request |-> "none"]

\* Faulty: wait() without a timeout.
WaitStep_NoTimeout(r) == WaitReturns(r)

WaitStep(r) == WaitReturns(r) \/ TimerFires(r) \/ TimeoutDenies(r)

Next ==
  \/ \E r \in Request : Register(r) \/ StartWait(r) \/ WaitStep(r)
  \/ \E r \in Request, answer \in Settled : Resolve(r, answer)
  \/ Forget

Spec == Init /\ [][Next]_vars

-----------------------------------------------------------------------------

\* The event is set only when an answer has been written: a waiter that wakes
\* up never finds the request pending.
EventMeansSettled == \A r \in Request : event[r] => status[r] \in Settled

\* resolve()/wait(): the first answer stands.  A settled request changes only
\* when its timer had already fired, and then only to denied; a restart
\* forgets it.
FirstAnswerStands ==
  [][\A r \in Request :
       status[r] \in Settled /\ status'[r] # status[r] =>
         \/ status'[r] = "absent"
         \/ waiter[r] = "timing_out" /\ status'[r] = "denied"]_vars

=============================================================================
