--------------------------- MODULE MCOrchestrator ---------------------------
(* One plan of every shape the loop treats differently. *)
EXTENDS Orchestrator, TLC

MCStep(id, deps) == [id |-> id, deps |-> deps, level |-> 0]

MCPlan == {
  \* Plan.single
  <<MCStep(1, {})>>,
  \* two steps at once, then one that needs both
  <<MCStep(1, {}), MCStep(2, {}), MCStep(3, {1, 2})>>,
  \* more ready steps than the budget allows
  <<MCStep(1, {}), MCStep(2, {1}), MCStep(3, {1}), MCStep(4, {1})>>,
  \* a circle behind a step that can run
  <<MCStep(1, {}), MCStep(2, {3}), MCStep(3, {2})>>,
  \* a dependency nobody provides
  <<MCStep(1, {7}), MCStep(2, {})>>,
  \* an id used twice, one the database rejects
  <<MCStep(1, {}), MCStep(1, {}), MCStep(2, {1})>>,
  <<MCStep(1, {}), [id |-> 2, deps |-> {}, level |-> 9]>>
}

=============================================================================
