--------------------------- MODULE MC_Receiver ---------------------------
(* Instances of Receiver for TLC.  t1, t2 are tool_ids, Bash and Read     *)
(* tool names (Bash has a handler, Read none), m1 an inbound and o1 an    *)
(* outbound message, all model values.                                   *)
EXTENDS Receiver, TLC

CONSTANTS t1, t2, Bash, Read, m1, m2, o1

(* Request 1 goes to the Bash handler, which may suspend; request 2 to    *)
(* the unhandled Read tool, resolved at once.  Update 3 retries t1.        *)
RecvReqId == (1 :> t1) @@ (2 :> t2)
RecvReqTool == (1 :> Bash) @@ (2 :> Read)
RecvConId == (1 :> t1) @@ (2 :> t2) @@ (3 :> t1)
=============================================================================
