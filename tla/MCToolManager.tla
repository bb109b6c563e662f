--------------------------- MODULE MCToolManager ---------------------------
(* The registry has a tool of every kind the decision tells apart: free,   *)
(* gated, free by level but without implementation, above the ceiling,     *)
(* always refused; one name is not registered at all.                      *)
EXTENDS ToolManager, TLC

MCLevel == "web_search" :> 1 @@ "write" :> 3 @@ "unimplemented" :> 2
             @@ "admin" :> 4 @@ "root" :> 5

MCRegistered == DOMAIN MCLevel

MCTool == MCRegistered \cup {"unknown"}

MCImplemented == MCTool \ {"unimplemented"}

DispatchSymmetry == Permutations(Dispatch)

=============================================================================
