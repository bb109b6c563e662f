------------------------- MODULE PermissionEngine -------------------------
(***************************************************************************)
(* The permission engine (backend/app/safety/permission_engine.py): the    *)
(* pure decision every tool call passes through.  A tool's level, the      *)
(* configured ceiling and the E-STOP reading are mapped to one of three    *)
(* decisions; the wording of the reasons is left out.                      *)
(***************************************************************************)
EXTENDS Integers

ApprovalFloor == 3

AlwaysRefusedLevel == 5

Decision == {"allow", "needs_approval", "deny"}

\* PermissionEngine.__init__: no configuration lifts the ceiling above 4.
Ceiling(configured) ==
  IF configured < AlwaysRefusedLevel THEN configured ELSE AlwaysRefusedLevel - 1

\* Faulty: the configured ceiling is not consulted.
Refused_NoCeiling(level, configured) ==
  level \notin 0 .. AlwaysRefusedLevel \/ level >= AlwaysRefusedLevel

\* Levels that no approval can let through.
Refused(level, configured) ==
  \/ level \notin 0 .. AlwaysRefusedLevel
  \/ level >= AlwaysRefusedLevel
  \/ level > Ceiling(configured)

Decide(level, configured, engaged) ==
  IF engaged \/ Refused(level, configured) THEN "deny"
  ELSE IF level >= ApprovalFloor THEN "needs_approval"
  ELSE "allow"

=============================================================================
