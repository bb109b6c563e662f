------------------------------- MODULE Router -------------------------------
(***************************************************************************)
(* One model call of the application: LLMInterface.generate, embed or      *)
(* stream (backend/app/router/interface.py), the router's fallback over    *)
(* the candidates of a task type (router.py) and the audited template      *)
(* methods of the provider adapters (adapters/base.py).                    *)
(*                                                                         *)
(* A call keeps all its state to itself: calls run concurrently but share  *)
(* only the audit log, so one is enough.  Every await may fail: an audit   *)
(* append raises when the database does, a provider raises or breaks off.  *)
(* The API process may stop at any of them.                                *)
(*                                                                         *)
(* contacted and given are history variables.                              *)
(***************************************************************************)
EXTENDS Naturals, Sequences, FiniteSets

CONSTANTS
  Provider,    \* keys an adapter can be built for
  NativeStream,\* providers whose adapter has a stream() of its own
  Model,
  Route,       \* candidate lists of routing.yaml; <<>> for an unknown task
  NoPick       \* no model was picked by the user

Candidate == [provider : Provider, model : Model]

ASSUME RouterAssumption ==
  /\ NativeStream \subseteq Provider
  /\ Route \subseteq Seq(Candidate)
  /\ NoPick \notin Candidate

VARIABLES
  enabled,     \* keys of Router.adapters
  pc,          \* the await the call is at
  kind,        \* what was called
  routed,      \* is the call routed, or made to one adapter alone
  cands,       \* the candidates of its task type, or the picked one
  at,          \* the one being tried
  failed,      \* positions in the router's list of errors
  trail,       \* audit rows of this call: position and phase
  contacted,   \* positions whose provider has been sent the request
  given        \* positions whose output has reached the caller

choice == <<enabled, kind, routed, cands>>
vars == <<choice, pc, at, failed, trail, contacted, given>>

Ended == {"returned", "raised", "closed", "lost"}

Phase == {"request", "response", "error"}

TypeOK ==
  /\ enabled \subseteq Provider
  /\ pc \in {"idle", "start", "provider", "log_error", "log_response", "opening", "flowing"} \cup Ended
  /\ kind \in {"generate", "embed", "stream"}
  /\ routed \in BOOLEAN
  /\ cands \in Seq(Candidate)
  /\ at \in Nat
  /\ failed \subseteq DOMAIN cands
  /\ trail \subseteq (DOMAIN cands) \X Phase
  /\ contacted \subseteq DOMAIN cands
  /\ given \subseteq DOMAIN cands

\* build_adapters: a provider is enabled when its key is configured.
Init ==
  /\ enabled \in SUBSET Provider
  /\ pc = "idle"
  /\ kind = "generate"
  /\ routed = TRUE
  /\ cands = <<>>
  /\ at = 0
  /\ failed = {}
  /\ trail = {}
  /\ contacted = {}
  /\ given = {}

-----------------------------------------------------------------------------
(* The choice of candidates. *)

\* available_candidates: those whose provider is enabled, in their order.
Usable(list) == {i \in DOMAIN list : list[i].provider \in enabled}

Available == Usable(cands)

First(positions) == CHOOSE i \in positions : \A j \in positions : i <= j

Try(positions) ==
  IF positions = {} THEN pc' = "raised" /\ UNCHANGED at
                    ELSE pc' = "start" /\ at' = First(positions)

\* A picked model whose provider is enabled is called directly; anything else
\* is routed.  Without a usable candidate the call raises.
Ask(k, route, pick) ==
  /\ pc = "idle"
  /\ k = "embed" => pick = NoPick
  /\ kind' = k
  /\ routed' = (pick = NoPick \/ pick.provider \notin enabled)
  /\ cands' = IF routed' THEN route ELSE <<pick>>
  /\ Try(Usable(cands'))
  /\ UNCHANGED <<enabled, failed, trail, contacted, given>>

\* Faulty: the first of the other candidates is next, tried or not.
FallBack_Restarts ==
  /\ failed' = failed \cup {at}
  /\ Try(Available \ {at})

\* An exception leaves the adapter: the router goes on to the next candidate,
\* and raises after the last; a call past the router has one candidate only.
FallBack ==
  /\ failed' = failed \cup {at}
  /\ Try({i \in Available : i > at})

-----------------------------------------------------------------------------
(* BaseAdapter.generate and embed, and the stream() built on generate. *)

Audited == kind # "stream" \/ cands[at].provider \notin NativeStream

Logged(phase) == trail' = trail \cup {<<at, phase>>}

\* The request is logged, then sent.  If the append raises, nothing is sent,
\* though the row may have been committed.
LogRequest ==
  /\ pc = "start"
  /\ Audited
  /\ \/ /\ Logged("request")
        /\ contacted' = contacted \cup {at}
        /\ pc' = "provider"
        /\ UNCHANGED <<at, failed>>
     \/ /\ FallBack
        /\ Logged("request") \/ UNCHANGED trail
        /\ UNCHANGED contacted
  /\ UNCHANGED <<choice, given>>

\* The provider answers, or its exception is caught.
ProviderEnds ==
  /\ pc = "provider"
  /\ pc' \in {"log_response", "log_error"}
  /\ UNCHANGED <<choice, at, failed, trail, contacted, given>>

\* Faulty: the router does not catch what a failed append raises.
LogError_Escapes ==
  /\ pc = "log_error"
  /\ \/ Logged("error") /\ FallBack
     \/ pc' = "raised" /\ failed' = failed \cup {at} /\ UNCHANGED <<at, trail>>
  /\ UNCHANGED <<choice, contacted, given>>

\* The error is logged and raised again, or the append raises instead.
LogError ==
  /\ pc = "log_error"
  /\ Logged("error") \/ UNCHANGED trail
  /\ FallBack
  /\ UNCHANGED <<choice, contacted, given>>

\* Faulty: a failed append does not keep the response back.
LogResponse_Swallows ==
  /\ pc = "log_response"
  /\ trail' \in {trail, trail \cup {<<at, "response">>}}
  /\ given' = given \cup {at}
  /\ pc' = IF kind = "stream" THEN "flowing" ELSE "returned"
  /\ UNCHANGED <<choice, at, failed, contacted>>

\* The response is logged and handed on (as the only chunk of a stream); if
\* the append raises it is thrown away.
LogResponse ==
  /\ pc = "log_response"
  /\ \/ /\ Logged("response")
        /\ given' = given \cup {at}
        /\ pc' = IF kind = "stream" THEN "flowing" ELSE "returned"
        /\ UNCHANGED <<at, failed>>
     \/ /\ FallBack
        /\ Logged("response") \/ UNCHANGED trail
        /\ UNCHANGED given
  /\ UNCHANGED <<choice, contacted>>

-----------------------------------------------------------------------------
(* stream() of the OpenAI, local and Anthropic adapters. *)

Open ==
  /\ pc = "start"
  /\ ~Audited
  /\ contacted' = contacted \cup {at}
  /\ pc' = "opening"
  /\ UNCHANGED <<choice, at, failed, trail, given>>

\* The first token; a stream without any, which ends the call; or a failure.
FirstToken ==
  /\ pc = "opening"
  /\ \/ given' = given \cup {at} /\ pc' = "flowing" /\ UNCHANGED <<at, failed>>
     \/ pc' = "returned" /\ UNCHANGED <<at, failed, given>>
     \/ FallBack /\ UNCHANGED given
  /\ UNCHANGED <<choice, trail, contacted>>

\* Faulty: the router falls back in the middle of a stream.
FlowEnds_FallsBack ==
  /\ pc = "flowing"
  /\ \/ pc' = "returned" /\ UNCHANGED <<at, failed>>
     \/ ~Audited /\ FallBack
  /\ UNCHANGED <<choice, trail, contacted, given>>

\* The rest of the stream has been handed on, or it breaks off, which raises.
FlowEnds ==
  /\ pc = "flowing"
  /\ pc' = "returned" \/ (~Audited /\ pc' = "raised")
  /\ UNCHANGED <<choice, at, failed, trail, contacted, given>>

\* The consumer does not ask for more: its client has gone.
Abandon ==
  /\ pc = "flowing"
  /\ pc' = "closed"
  /\ UNCHANGED <<choice, at, failed, trail, contacted, given>>

\* The process stops, or the task is cancelled, which no except clause catches.
Cancel ==
  /\ pc \notin Ended \cup {"idle"}
  /\ pc' = "lost"
  /\ UNCHANGED <<choice, at, failed, trail, contacted, given>>

Step ==
  \/ LogRequest \/ ProviderEnds \/ LogError \/ LogResponse
  \/ Open \/ FirstToken \/ FlowEnds

Next ==
  \/ \E k \in {"generate", "embed", "stream"}, route \in Route, pick \in Candidate \cup {NoPick} :
       Ask(k, route, pick)
  \/ Step
  \/ Abandon
  \/ Cancel

\* Appends return or raise, the vendors' clients have timeouts, and a consumer
\* that does not abandon a stream reads it to its end.
Fairness == WF_vars(Step)

Spec == Init /\ [][Next]_vars /\ Fairness

-----------------------------------------------------------------------------
(* Properties. *)

\* base.py: through the template methods a provider is sent nothing before
\* the request is in the audit log, and the caller is given nothing before
\* the response is.
AuditedFirst ==
  \A i \in DOMAIN cands :
    kind # "stream" \/ cands[i].provider \notin NativeStream =>
      /\ i \in contacted => <<i, "request">> \in trail
      /\ i \in given => <<i, "response">> \in trail

\* router.py: what the caller is given comes from one candidate, the first in
\* the routing order that did not fail; a stream never changes its voice.
OneVoice == \A i \in given : failed = {j \in Available : j < i}

\* router.py: a call raises without having given anything only after each
\* candidate that is usable has failed, whatever fails besides the provider.
GivesUpLast == pc = "raised" /\ given = {} => failed = Available

\* Every call ends.
CallEnds == pc # "idle" ~> pc \in Ended

\* base.py:8-11 "every model call is auditable from the first call - there is
\* no code path that reaches a provider without passing through this wrapper".
ContactIsAudited == \A i \in contacted : <<i, "request">> \in trail

-----------------------------------------------------------------------------
(* Why these hold: while a candidate is being tried, the ones before it have *)
(* failed, and neither it nor a later one has given anything.                *)

Earlier == {j \in Available : j < at}

TryInv ==
  /\ pc = "idle" => cands = <<>>
  /\ pc \in {"start", "provider", "log_error", "log_response", "opening", "flowing"} =>
       at \in Available /\ failed = Earlier
  /\ pc \in {"start", "provider", "log_error", "log_response", "opening"} => given = {}
  /\ pc \in {"provider", "log_response"} => Audited /\ <<at, "request">> \in trail
  /\ pc = "opening" => ~Audited
  /\ pc = "flowing" => at \in given
  /\ given \subseteq {at}

RouterInv ==
  /\ TypeOK
  /\ TryInv
  /\ AuditedFirst
  /\ OneVoice
  /\ GivesUpLast

=============================================================================
