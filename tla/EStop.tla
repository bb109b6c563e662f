------------------------------- MODULE EStop -------------------------------
(***************************************************************************)
(* The emergency stop (backend/app/safety/estop.py): an in-memory flag of  *)
(* the API process and a key in Redis.  engage() and clear() write the     *)
(* flag, then await a Redis command; is_engaged() reads the key when Redis *)
(* answers and the flag only when it does not.  A failing Redis command is *)
(* logged and swallowed, so the caller cannot tell the two apart.          *)
(*                                                                         *)
(* Redis may become unreachable and come back (its data is on a volume,    *)
(* docker-compose.yml, so the key survives), and the API process may       *)
(* restart, which loses the flag and the calls in flight.                  *)
(*                                                                         *)
(* contended, promise and steady are history variables: they record what   *)
(* the operators were told, and the code does not have them.               *)
(***************************************************************************)
CONSTANT Operator       \* concurrent callers of /api/safety/estop/*

VARIABLES
  memory,      \* EStop._memory_engaged
  key,         \* does the Redis key exist
  redisUp,     \* does Redis answer the API process
  call,        \* the safety call each operator has in flight
  contended,   \* operators whose call overlapped an opposite one
  promise,     \* what the last uncontended call that returned established
  steady       \* the switch has been read from one place since then

vars == <<memory, key, redisUp, call, contended, promise, steady>>

TypeOK ==
  /\ memory \in BOOLEAN
  /\ key \in BOOLEAN
  /\ redisUp \in BOOLEAN
  /\ call \in [Operator -> {"idle", "engaging", "clearing"}]
  /\ contended \subseteq Operator
  /\ promise \in {"none", "engaged", "cleared"}
  /\ steady \in BOOLEAN

Init ==
  /\ memory = FALSE
  /\ key = FALSE
  /\ redisUp = TRUE
  /\ call = [o \in Operator |-> "idle"]
  /\ contended = {}
  /\ promise = "cleared"
  /\ steady = TRUE

(***************************************************************************)
(* The three operations.                                                   *)
(***************************************************************************)

\* Faulty: the flag alone is read.
IsEngaged_FlagOnly == memory

\* is_engaged(): the key if Redis answers, else the flag.
IsEngaged == IF redisUp THEN key ELSE memory

InFlight(kind) == {o \in Operator : call[o] = kind}

\* A call starts: it overlaps the opposite calls in flight, and what such a
\* call had established no longer stands.
Begin(o, kind, opposite, undone) ==
  /\ call[o] = "idle"
  /\ call' = [call EXCEPT ![o] = kind]
  /\ contended' = IF InFlight(opposite) = {} THEN contended \ {o}
                  ELSE contended \cup InFlight(opposite) \cup {o}
  /\ promise' = IF promise = undone THEN "none" ELSE promise

\* A call returns; only one that met no opposite call establishes anything.
Return(o, established) ==
  /\ call' = [call EXCEPT ![o] = "idle"]
  /\ contended' = contended \ {o}
  /\ promise' = IF o \in contended THEN "none" ELSE established
  /\ steady' = TRUE

\* engage(), up to the await: the flag is raised.
BeginEngage(o) ==
  /\ Begin(o, "engaging", "clearing", "cleared")
  /\ memory' = TRUE
  /\ UNCHANGED <<key, redisUp, steady>>

\* engage(), from the await on: the key is set, or the failure is swallowed.
FinishEngage(o) ==
  /\ call[o] = "engaging"
  /\ key' = (key \/ redisUp)
  /\ Return(o, "engaged")
  /\ UNCHANGED <<memory, redisUp>>

\* clear(), up to the await: the flag is lowered.
BeginClear(o) ==
  /\ Begin(o, "clearing", "engaging", "engaged")
  /\ memory' = FALSE
  /\ UNCHANGED <<key, redisUp, steady>>

\* clear(), from the await on: the key is deleted, or the failure swallowed.
FinishClear(o) ==
  /\ call[o] = "clearing"
  /\ key' = (key /\ ~redisUp)
  /\ Return(o, "cleared")
  /\ UNCHANGED <<memory, redisUp>>

(***************************************************************************)
(* Faults.                                                                 *)
(***************************************************************************)

RedisLost ==
  /\ redisUp
  /\ redisUp' = FALSE
  /\ steady' = FALSE
  /\ UNCHANGED <<memory, key, call, contended, promise>>

RedisBack ==
  /\ ~redisUp
  /\ redisUp' = TRUE
  /\ steady' = FALSE
  /\ UNCHANGED <<memory, key, call, contended, promise>>

\* The API process restarts.  A Redis command already sent may or may not
\* have been carried out.
ApiRestart ==
  /\ memory' = FALSE
  /\ key' \in {key} \cup (IF redisUp /\ InFlight("engaging") # {} THEN {TRUE} ELSE {})
                    \cup (IF redisUp /\ InFlight("clearing") # {} THEN {FALSE} ELSE {})
  /\ call' = [o \in Operator |-> "idle"]
  /\ contended' = {}
  /\ steady' = (steady /\ redisUp)
  /\ UNCHANGED <<redisUp, promise>>

OperatorStep ==
  \E o \in Operator :
    BeginEngage(o) \/ FinishEngage(o) \/ BeginClear(o) \/ FinishClear(o)

Next == OperatorStep \/ RedisLost \/ RedisBack \/ ApiRestart

Spec == Init /\ [][Next]_vars

-----------------------------------------------------------------------------

\* An engage the operator was told succeeded, with no clear since and the
\* switch read from one place ever since.
InForce == promise = "engaged" /\ steady

\* EStop.engage / is_engaged: after an engage call has returned, every read
\* says engaged until some clear starts, whatever the other operators do and
\* although the API restarts, as long as Redis neither goes nor comes back.
EngageHolds == InForce => IsEngaged

\* Why EngageHolds is inductive: an engage that met no clear has no clear in
\* flight beside it and finds the flag still raised when it returns, and one
\* that has established its promise has no clear in flight after it.
SwitchInv ==
  /\ TypeOK
  /\ \A o \in Operator : call[o] = "engaging" /\ o \notin contended =>
       memory /\ InFlight("clearing") = {}
  /\ promise = "engaged" => InFlight("clearing") = {}
  /\ EngageHolds

\* What the module comment says without the proviso about Redis ("When
\* engaged, the permission engine denies every tool action"): an engage that
\* has returned is seen by every read until a clear.
EngagedMeansDenied == promise = "engaged" => IsEngaged

=============================================================================
