------------------------------ MODULE Receiver ------------------------------
(***************************************************************************)
(* ClaudeMessageReceiver as a whole: the Tool Coordinator and the Message  *)
(* Buffer share one init_claude_receiver (_workflow_helpers.py lines       *)
(* 57-74), which creates the message buffers and the tool dicts together.  *)
(* The run method calls it first; every handler calls it lazily when it    *)
(* finds its own attribute missing.  Before any initialisation the tool    *)
(* dicts do not exist; since every handler that reads them initialises     *)
(* them first, they are modelled as empty.                                 *)
(***************************************************************************)
EXTENDS Naturals

CONSTANTS Ids, Tools, Handled, NReqs, ReqId, ReqTool, NCons, ConId,
          Msgs, OutMsgs, EarlySignals

VARIABLES
  events, setEvts, results, req, con, conEvt, returned, early,
  inited, runStarted, inbound, outbound, evtGen, evtSet, reader, readerEvt,
  readerTmo, delivered, received, sent, fetched

(* The components are instantiated through their proof modules, which    *)
(* extend them with nothing but lemmas, so that what is proved of each     *)
(* component applies here.                                                 *)
TC == INSTANCE ToolCoordinator_proofs
MB == INSTANCE MessageBuffer_proofs

(* The assumptions of both components on their constants.                *)
ASSUME ReceiverAssumption == TC!ConstantsAssumption /\ MB!BufferAssumption

tvars == <<events, setEvts, results, req, con, conEvt, returned, early>>
mvars == <<inited, runStarted, inbound, outbound, evtGen, evtSet, reader,
           readerEvt, readerTmo, delivered, received, sent, fetched>>
vars == <<tvars, mvars>>

TypeOK == TC!TypeOK /\ MB!TypeOK

Init == TC!Init /\ MB!Init

(* The message-side variables a tool handler leaves alone.                *)
MsgFrame == UNCHANGED <<runStarted, inbound, outbound, evtSet, reader,
                        readerEvt, readerTmo, delivered, received, sent,
                        fetched>>

(* The run method's init_claude_receiver: besides the buffers and the     *)
(* message Event (lines 63-65) it replaces _tool_results and               *)
(* _tool_result_events with empty dicts (lines 69-71).  Event objects      *)
(* already handed out keep their flags.                                    *)
RunInit ==
  /\ MB!RunInit
  /\ events' = [i \in Ids |-> TC!NoEvent]
  /\ results' = [i \in Ids |-> TC!NoResult]
  /\ UNCHANGED <<setEvts, req, con, conEvt, returned, early>>

(* request_tool_execution (lines 182-183 first): lazy init, then the      *)
(* coordinator's step up to the handler's await.                           *)
RequestToolExecution(r) ==
  /\ MB!External
  /\ MB!EnsureInit
  /\ TC!RequestToolExecution(r)
  /\ MsgFrame

(* get_tool_result (lines 241-242 first): lazy init, then the update.     *)
GetToolResult(c) ==
  /\ MB!External
  /\ MB!EnsureInit
  /\ TC!GetToolResult(c)
  /\ MsgFrame

Next ==
  \/ RunInit
  \/ \E r \in TC!Reqs : RequestToolExecution(r)
  \/ \E r \in TC!Reqs : TC!HandlerReturns(r) /\ UNCHANGED mvars
  \/ \E c \in TC!Cons : GetToolResult(c)
  \/ \E c \in TC!Cons : TC!ResumeGetToolResult(c) /\ UNCHANGED mvars
  \/ \E m \in Msgs : MB!ReceiveClaudeMessage(m) /\ UNCHANGED tvars
  \/ \E tmo \in BOOLEAN : MB!WaitForClaudeMessages(tmo) /\ UNCHANGED tvars
  \/ (MB!WakeReader \/ MB!ReaderTimeout \/ MB!GetClaudeMessages)
       /\ UNCHANGED tvars
  \/ \E o \in OutMsgs : MB!SendToClaude(o) /\ UNCHANGED tvars
  \/ MB!GetAndConsumeMessages /\ UNCHANGED tvars

Spec == Init /\ [][Next]_vars

-----------------------------------------------------------------------------
(* No request_tool_execution task ever fails with KeyError at line 227,   *)
(* even though one init_claude_receiver serves both components.            *)
NoSignalHandlerCrash == TC!NoSignalHandlerCrash

(* No ToolResult is returned by two get_tool_result updates, even when a   *)
(* retried update races the first and signals precede run(), whose         *)
(* init_claude_receiver() empties _tool_results and _tool_result_events    *)
(* (lines 69-71) under suspended handlers and waiting updates.             *)
AtMostOnce == TC!AtMostOnce
=============================================================================
