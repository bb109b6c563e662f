--------------------------- MODULE GatedExecution ---------------------------
(***************************************************************************)
(* What the tool manager promises, with nothing of how it keeps it: a call *)
(* names a tool, and the tool runs at most once, never if it is neither    *)
(* free nor gated, and, if it is gated, only while a person's consent to   *)
(* this very call stands.  Consent comes from outside at any moment and    *)
(* may lapse as long as the tool has not started.                          *)
(***************************************************************************)
CONSTANTS
  Call,        \* tool calls
  Tool,        \* names a call may give
  NoTool,      \* the tool of a call that has not been made
  Free,        \* tools that run without consent
  Gated        \* tools that run with consent only

VARIABLES
  tool,        \* the tool each call names
  stage,       \* how far each call is
  consent      \* calls a person has consented to

vars == <<tool, stage, consent>>

Init ==
  /\ tool = [c \in Call |-> NoTool]
  /\ stage = [c \in Call |-> "new"]
  /\ consent = {}

Ask(c, t) ==
  /\ stage[c] = "new"
  /\ tool' = [tool EXCEPT ![c] = t]
  /\ stage' = [stage EXCEPT ![c] = "asked"]
  /\ UNCHANGED consent

Consent(c) ==
  /\ tool[c] \in Gated
  /\ consent' = consent \cup {c}
  /\ UNCHANGED <<tool, stage>>

Lapse(c) ==
  /\ stage[c] = "asked"
  /\ consent' = consent \ {c}
  /\ UNCHANGED <<tool, stage>>

Start(c) ==
  /\ stage[c] = "asked"
  /\ tool[c] \in Free \/ (tool[c] \in Gated /\ c \in consent)
  /\ stage' = [stage EXCEPT ![c] = "running"]
  /\ UNCHANGED <<tool, consent>>

\* The tool has run, or the call is refused without running it.
End(c) ==
  /\ stage[c] \in {"asked", "running"}
  /\ stage' = [stage EXCEPT ![c] = "over"]
  /\ UNCHANGED <<tool, consent>>

\* The process dies: open calls are over, consent is forgotten.
Crash ==
  /\ stage' = [c \in Call |-> IF stage[c] = "new" THEN "new" ELSE "over"]
  /\ consent' = {}
  /\ UNCHANGED tool

Next ==
  \/ \E c \in Call, t \in Tool : Ask(c, t)
  \/ \E c \in Call : Consent(c) \/ Lapse(c) \/ Start(c) \/ End(c)
  \/ Crash

Spec == Init /\ [][Next]_vars

=============================================================================
