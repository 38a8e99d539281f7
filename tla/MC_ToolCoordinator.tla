------------------------ MODULE MC_ToolCoordinator ------------------------
(* Instances of ToolCoordinator for TLC.  t1..t3 are tool_ids and Bash,   *)
(* Read tool names, all model values; Bash has a handler, Read has none.  *)
EXTENDS ToolCoordinator, TLC

CONSTANTS t1, t2, t3, Bash, Read

(* Distinct tool_ids, as the session activity sends them: requests 1 and  *)
(* 2 go to the Bash handler, request 3 to an unhandled tool.  Updates 1   *)
(* and 2 both ask for t1 (a retried session activity), update 3 for t2.  *)
UniqueReqId == (1 :> t1) @@ (2 :> t2) @@ (3 :> t3)
UniqueReqTool == (1 :> Bash) @@ (2 :> Bash) @@ (3 :> Read)
UniqueConId == (1 :> t1) @@ (2 :> t1) @@ (3 :> t2)

(* Two requests carrying the same tool_id, each awaited by one update.    *)
DupReqId == (1 :> t1) @@ (2 :> t1)
DupReqTool == (1 :> Bash) @@ (2 :> Bash)
DupConId == (1 :> t1) @@ (2 :> t1)
=============================================================================
