---------------------------- MODULE Router_proofs ----------------------------
(***************************************************************************)
(* RouterInv is an invariant of Router for every set of providers and      *)
(* every routing table.  A step that can disturb it either leaves an       *)
(* adapter by an exception (FallBackKeeps) or goes on with the candidate   *)
(* being tried.                                                            *)
(***************************************************************************)
EXTENDS Router, WellFoundedInduction, TLAPS

\* First is the least element of a set of positions that has one.
LEMMA FirstIsLeast ==
  ASSUME NEW S \in SUBSET Nat, S # {}
  PROVE  First(S) \in S /\ \A j \in S : First(S) <= j
<1>1. PICK i \in S : \A j \in S : <<j, i>> \notin OpToRel(<, Nat)
  BY WFMin, NatLessThanWellFounded, Zenon
<1>2. i \in Nat /\ \A j \in S : j \in Nat /\ <<j, i>> \in Nat \X Nat
  OBVIOUS
<1>3. \A j \in S : ~(j < i)
  BY <1>1, <1>2, Zenon DEF OpToRel
<1>4. \A j \in S : i <= j
  BY <1>2, <1>3
<1> QED BY <1>4 DEF First

\* The positions of usable candidates are natural numbers.
LEMMA AvailableFact ==
  ASSUME TypeOK
  PROVE  Available \subseteq DOMAIN cands /\ DOMAIN cands \subseteq Nat
BY DEF TypeOK, Available, Usable

\* FallBack: what leaves the adapter of the candidate being tried keeps the
\* invariant, whether a candidate is left or not.
LEMMA FallBackKeeps ==
  ASSUME RouterInv, at \in Available, failed = Earlier, given = {},
         FallBack, UNCHANGED <<choice, given>>,
         trail' \subseteq (DOMAIN cands) \X Phase, trail \subseteq trail',
         contacted' = contacted
  PROVE  RouterInv'
<1> USE DEF choice
<1> DEFINE Rest == {i \in Available : i > at}
<1>1. TypeOK /\ Available' = Available /\ Available \subseteq Nat /\ DOMAIN cands \subseteq Nat
  BY AvailableFact DEF RouterInv, Available, Usable
<1>2. failed' = Earlier \cup {at} /\ Earlier \subseteq Available
  BY DEF FallBack, Earlier
<1>3. AuditedFirst' /\ OneVoice'
  BY DEF RouterInv, AuditedFirst, OneVoice
<1>4. failed' \subseteq DOMAIN cands
  BY <1>2, AvailableFact, <1>1
<1>5. CASE Rest = {}
  <2>1. pc' = "raised" /\ at' = at
    BY <1>5 DEF FallBack, Try
  <2>2. failed' = Available
    <3>1. \A j \in Available : j < at \/ j = at
      BY <1>1, <1>5
    <3> QED BY <1>2, <3>1 DEF Earlier
  <2>3. TypeOK'
    BY <1>1, <1>4, <2>1 DEF TypeOK, Ended
  <2> QED BY <1>1, <1>3, <2>1, <2>2, <2>3 DEF RouterInv, TryInv, GivesUpLast
<1>6. CASE Rest # {}
  <2>1. pc' = "start" /\ at' = First(Rest)
    BY <1>6 DEF FallBack, Try
  <2>2. at' \in Available /\ at' > at /\ \A j \in Rest : at' <= j
    BY <1>1, <1>6, <2>1, FirstIsLeast
  <2>3. failed' = Earlier'
    <3>1. \A j \in Available : j < at' <=> j < at \/ j = at
      BY <1>1, <2>2
    <3> QED BY <1>1, <1>2, <3>1 DEF Earlier
  <2>4. at' \in Nat
    BY <1>1, <2>2
  <2>5. TypeOK'
    BY <1>1, <1>4, <2>1, <2>4 DEF TypeOK, Ended
  <2> QED BY <1>1, <1>3, <2>1, <2>2, <2>3, <2>5 DEF RouterInv, TryInv, GivesUpLast
<1> QED BY <1>5, <1>6

\* Ask sets out with the first usable candidate.
LEMMA AskKeeps ==
  ASSUME RouterInv, NEW k \in {"generate", "embed", "stream"}, NEW route \in Route,
         NEW pick \in Candidate \cup {NoPick}, Ask(k, route, pick)
  PROVE  RouterInv'
<1>0. routed' \in BOOLEAN /\ (~routed' => pick \in Candidate)
  BY Zenon DEF Ask
<1>1. cands' \in Seq(Candidate)
  <2>1. CASE routed'
    BY <2>1, RouterAssumption DEF Ask
  <2>2. CASE ~routed'
    <3>1. cands' = <<pick>>
      BY <2>2 DEF Ask
    <3> QED BY <1>0, <2>2, <3>1
  <2> QED BY <2>1, <2>2
<1>2. failed = {} /\ trail = {} /\ contacted = {} /\ given = {} /\ at \in Nat
  BY DEF RouterInv, TypeOK, TryInv, Ask
<1>3. UNCHANGED <<enabled, failed, trail, contacted, given>> /\ kind' = k /\ Try(Usable(cands'))
  BY DEF Ask
<1>4. Available' = Usable(cands') /\ Available' \subseteq Nat
  BY <1>1, <1>3 DEF Available, Usable
<1>5. CASE Available' = {}
  <2>1. pc' = "raised" /\ at' = at
    BY <1>3, <1>4, <1>5 DEF Try
  <2> QED
    BY <1>0, <1>1, <1>2, <1>3, <1>5, <2>1
    DEF RouterInv, TypeOK, TryInv, AuditedFirst, OneVoice, GivesUpLast, Ended
<1>6. CASE Available' # {}
  <2>1. pc' = "start" /\ at' = First(Available')
    BY <1>3, <1>4, <1>6 DEF Try
  <2>2. at' \in Available' /\ \A j \in Available' : at' <= j
    BY <1>4, <1>6, <2>1, FirstIsLeast
  <2>3. at' \in Nat /\ Earlier' = {}
    BY <1>4, <2>2 DEF Earlier
  <2> QED
    BY <1>0, <1>1, <1>2, <1>3, <2>1, <2>2, <2>3
    DEF RouterInv, TypeOK, TryInv, AuditedFirst, OneVoice, GivesUpLast, Ended
<1> QED BY <1>5, <1>6

\* A provider's error leaves its adapter, logged or not.
LEMMA LogErrorKeeps ==
  ASSUME RouterInv, LogError
  PROVE  RouterInv'
<1>1. at \in Available /\ failed = Earlier /\ given = {} /\ at \in DOMAIN cands
  BY AvailableFact DEF RouterInv, TryInv, LogError
<1>2. FallBack /\ UNCHANGED <<choice, contacted, given>>
  BY DEF LogError
<1>3. trail \subseteq trail' /\ trail' \subseteq (DOMAIN cands) \X Phase
  BY <1>1 DEF LogError, Logged, RouterInv, TypeOK, Phase
<1> QED BY <1>1, <1>2, <1>3, FallBackKeeps DEF choice

\* The request is sent when it is logged, and not otherwise.
LEMMA LogRequestKeeps ==
  ASSUME RouterInv, LogRequest
  PROVE  RouterInv'
<1>1. at \in Available /\ failed = Earlier /\ given = {} /\ at \in DOMAIN cands
  BY AvailableFact DEF RouterInv, TryInv, LogRequest
<1>2. UNCHANGED <<choice, given>> /\ Audited
  BY DEF LogRequest
<1>3. CASE FallBack /\ (Logged("request") \/ UNCHANGED trail) /\ UNCHANGED contacted
  <2>1. trail' \subseteq (DOMAIN cands) \X Phase /\ trail \subseteq trail'
    BY <1>1, <1>3 DEF RouterInv, TypeOK, Logged, Phase
  <2> QED BY <1>1, <1>2, <1>3, <2>1, FallBackKeeps
<1>4. CASE /\ Logged("request")
           /\ contacted' = contacted \cup {at}
           /\ pc' = "provider"
           /\ UNCHANGED <<at, failed>>
  <2>1. TypeOK'
    BY <1>1, <1>2, <1>4 DEF RouterInv, TypeOK, choice, Logged, Phase
  <2>2. TryInv'
    BY <1>1, <1>2, <1>4
    DEF RouterInv, TryInv, choice, Logged, Available, Usable, Earlier, Audited
  <2>3. AuditedFirst'
    BY <1>1, <1>2, <1>4 DEF RouterInv, AuditedFirst, choice, Logged
  <2> QED
    BY <1>1, <1>2, <1>4, <2>1, <2>2, <2>3
    DEF RouterInv, OneVoice, GivesUpLast, choice
<1> QED BY <1>3, <1>4 DEF LogRequest

\* The response is handed on when it is logged, and not otherwise.
LEMMA LogResponseKeeps ==
  ASSUME RouterInv, LogResponse
  PROVE  RouterInv'
<1>1. /\ at \in Available /\ failed = Earlier /\ given = {} /\ at \in DOMAIN cands
      /\ Audited /\ <<at, "request">> \in trail
  BY AvailableFact DEF RouterInv, TryInv, LogResponse
<1>2. UNCHANGED <<choice, contacted>>
  BY DEF LogResponse
<1>3. CASE FallBack /\ (Logged("response") \/ UNCHANGED trail) /\ UNCHANGED given
  <2>1. trail' \subseteq (DOMAIN cands) \X Phase /\ trail \subseteq trail'
    BY <1>1, <1>3 DEF RouterInv, TypeOK, Logged, Phase
  <2> QED BY <1>1, <1>2, <1>3, <2>1, FallBackKeeps
<1>4. CASE /\ Logged("response")
           /\ given' = given \cup {at}
           /\ pc' = IF kind = "stream" THEN "flowing" ELSE "returned"
           /\ UNCHANGED <<at, failed>>
  <2>1. TypeOK'
    BY <1>1, <1>2, <1>4 DEF RouterInv, TypeOK, choice, Logged, Phase, Ended
  <2>2. TryInv'
    BY <1>1, <1>2, <1>4
    DEF RouterInv, TryInv, choice, Logged, Available, Usable, Earlier
  <2>3. AuditedFirst'
    BY <1>1, <1>2, <1>4 DEF RouterInv, AuditedFirst, choice, Logged
  <2>4. OneVoice'
    BY <1>1, <1>2, <1>4 DEF OneVoice, choice, Available, Usable, Earlier
  <2> QED
    BY <1>1, <1>4, <2>1, <2>2, <2>3, <2>4 DEF RouterInv, GivesUpLast
<1> QED BY <1>3, <1>4 DEF LogResponse

\* A native stream gives its first token, ends without one, or falls back.
LEMMA FirstTokenKeeps ==
  ASSUME RouterInv, FirstToken
  PROVE  RouterInv'
<1>1. at \in Available /\ failed = Earlier /\ given = {} /\ at \in DOMAIN cands
  BY AvailableFact DEF RouterInv, TryInv, FirstToken
<1>2. UNCHANGED <<choice, trail, contacted>>
  BY DEF FirstToken
<1>3. trail' \subseteq (DOMAIN cands) \X Phase
  BY <1>2 DEF RouterInv, TypeOK
<1>4. CASE given' = given \cup {at} /\ pc' = "flowing" /\ UNCHANGED <<at, failed>>
  <2>1. TypeOK'
    BY <1>1, <1>2, <1>4 DEF RouterInv, TypeOK, choice
  <2>2. TryInv'
    BY <1>1, <1>2, <1>4 DEF RouterInv, TryInv, choice, Available, Usable, Earlier
  <2>3. AuditedFirst'
    <3>1. cands[at].provider \in NativeStream /\ kind = "stream"
      BY DEF FirstToken, RouterInv, TryInv, Audited
    <3> QED BY <1>1, <1>2, <1>4, <3>1 DEF RouterInv, AuditedFirst, choice
  <2>4. OneVoice'
    BY <1>1, <1>2, <1>4 DEF OneVoice, choice, Available, Usable, Earlier
  <2> QED
    BY <1>1, <1>4, <2>1, <2>2, <2>3, <2>4 DEF RouterInv, GivesUpLast
<1>5. CASE pc' = "returned" /\ UNCHANGED <<at, failed, given>>
  <2>1. TypeOK'
    BY <1>1, <1>2, <1>5 DEF RouterInv, TypeOK, choice, Ended
  <2> QED
    BY <1>1, <1>2, <1>5, <2>1
    DEF RouterInv, TryInv, AuditedFirst, OneVoice, GivesUpLast, choice, Available, Usable
<1>6. CASE FallBack /\ UNCHANGED given
  BY <1>1, <1>2, <1>3, <1>6, FallBackKeeps
<1> QED BY <1>4, <1>5, <1>6 DEF FirstToken

\* Steps that leave the records alone and only move on or end the call.
LEMMA MovesKeep ==
  ASSUME RouterInv, ProviderEnds \/ FlowEnds \/ Abandon \/ Cancel
  PROVE  RouterInv'
<1>1. UNCHANGED <<choice, at, failed, trail, contacted, given>>
  BY DEF ProviderEnds, FlowEnds, Abandon, Cancel
<1>2. /\ pc # "idle"
      /\ \/ pc' \in {"returned", "closed", "lost"}
         \/ pc' = "raised" /\ pc = "flowing"
         \/ pc' \in {"log_response", "log_error"} /\ pc = "provider"
  BY DEF ProviderEnds, FlowEnds, Abandon, Cancel, Ended
<1>3. TypeOK'
  BY <1>1, <1>2 DEF RouterInv, TypeOK, choice, Ended
<1> QED
  BY <1>1, <1>2, <1>3
  DEF RouterInv, TryInv, AuditedFirst, OneVoice, GivesUpLast, choice,
      Available, Usable, Earlier, Audited

\* A native stream is opened.
LEMMA OpenKeeps ==
  ASSUME RouterInv, Open
  PROVE  RouterInv'
<1>1. at \in Available /\ failed = Earlier /\ given = {} /\ at \in DOMAIN cands
  BY AvailableFact DEF RouterInv, TryInv, Open
<1>2. /\ UNCHANGED <<choice, at, failed, trail, given>>
      /\ contacted' = contacted \cup {at} /\ pc' = "opening"
      /\ cands[at].provider \in NativeStream /\ kind = "stream"
  BY DEF Open, Audited
<1>3. TypeOK'
  BY <1>1, <1>2 DEF RouterInv, TypeOK, choice
<1> QED
  BY <1>1, <1>2, <1>3
  DEF RouterInv, TryInv, AuditedFirst, OneVoice, GivesUpLast, choice,
      Available, Usable, Earlier, Audited

-----------------------------------------------------------------------------

\* Before the call.
LEMMA InitHolds == Init => RouterInv
BY DEF Init, RouterInv, TypeOK, TryInv, AuditedFirst, OneVoice, GivesUpLast, Candidate

\* Every step keeps the invariant.
LEMMA NextKeeps == RouterInv /\ [Next]_vars => RouterInv'
<1> SUFFICES ASSUME RouterInv, [Next]_vars PROVE RouterInv'
  OBVIOUS
<1>1. CASE UNCHANGED vars
  BY <1>1
  DEF vars, choice, RouterInv, TypeOK, TryInv, AuditedFirst, OneVoice, GivesUpLast,
      Available, Usable, Earlier, Audited
<1>2. ASSUME NEW k \in {"generate", "embed", "stream"}, NEW route \in Route,
             NEW pick \in Candidate \cup {NoPick}, Ask(k, route, pick)
      PROVE  RouterInv'
  BY <1>2, AskKeeps
<1>3. CASE Step
  BY <1>3, LogRequestKeeps, MovesKeep, LogErrorKeeps, LogResponseKeeps, OpenKeeps,
     FirstTokenKeeps DEF Step
<1>4. CASE Abandon \/ Cancel
  BY <1>4, MovesKeep
<1> QED BY <1>1, <1>2, <1>3, <1>4 DEF Next

\* LLMInterface, Router and BaseAdapter: the inductive invariant holds in
\* every reachable state, however appends and providers fail.
THEOREM RouterInvHolds == Spec => []RouterInv
BY InitHolds, NextKeeps, PTL DEF Spec

\* base.py: nothing is sent or handed on by the template methods before the
\* audit log says so.
THEOREM AuditComesFirst == Spec => []AuditedFirst
<1>1. RouterInv => AuditedFirst
  BY DEF RouterInv
<1> QED BY <1>1, RouterInvHolds, PTL

\* router.py stream and generate: the first candidate that does not fail, and
\* no other, is heard.
THEOREM OneVoiceHolds == Spec => []OneVoice
<1>1. RouterInv => OneVoice
  BY DEF RouterInv
<1> QED BY <1>1, RouterInvHolds, PTL

\* router.py: AllCandidatesFailed means what it says.
THEOREM GivesUpLastHolds == Spec => []GivesUpLast
<1>1. RouterInv => GivesUpLast
  BY DEF RouterInv
<1> QED BY <1>1, RouterInvHolds, PTL

=============================================================================
