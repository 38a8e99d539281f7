-------------------------- MODULE Receiver_proofs ---------------------------
(***************************************************************************)
(* Proofs about the whole ClaudeMessageReceiver, for every instance of    *)
(* the constants, from the lemmas proved of its two components.           *)
(***************************************************************************)
EXTENDS Receiver, TLAPS

USE ReceiverAssumption

(* The components' type invariants, with the bound on the Event objects   *)
(* the message side needs to be inductive.                                 *)
RInv == TC!TypeOK /\ MB!TInv

(* run()'s init_claude_receiver() replaces both tool dicts with empty      *)
(* ones: the tool side stays well typed.                                    *)
LEMMA RunInitTools ==
  ASSUME TC!TypeOK, RunInit
  PROVE  TC!TypeOK'
BY DEF RunInit, TC!TypeOK

(* A tool handler's step: the coordinator's own step, plus the lazy init   *)
(* of the message side.                                                     *)
LEMMA ToolStep ==
  ASSUME RInv, TC!Next, MB!EnsureInit, MsgFrame
  PROVE  RInv'
<1>1. TC!TypeOK'
  BY TC!TypeStep DEF RInv
<1>2. MB!TInv'
  BY MB!LazyInitStep DEF RInv, MsgFrame
<1>3. QED
  BY <1>1, <1>2 DEF RInv

(* Each step of the receiver keeps both components well typed.             *)
LEMMA RInvStep == RInv /\ [Next]_vars => RInv'
<1> SUFFICES ASSUME RInv, [Next]_vars PROVE RInv'
  OBVIOUS
<1>1. CASE RunInit
  <2>1. TC!TypeOK'
    BY <1>1, RunInitTools DEF RInv
  <2>2. MB!TInv'
    BY <1>1, MB!TInvStep DEF RInv, RunInit, MB!Next
  <2>3. QED
    BY <2>1, <2>2 DEF RInv
<1>2. ASSUME NEW r \in TC!Reqs, RequestToolExecution(r) PROVE RInv'
  BY <1>2, ToolStep DEF RequestToolExecution, TC!Next
<1>3. ASSUME NEW c \in TC!Cons, GetToolResult(c) PROVE RInv'
  BY <1>3, ToolStep DEF GetToolResult, TC!Next
<1>4. CASE /\ \/ \E r \in TC!Reqs : TC!HandlerReturns(r)
              \/ \E c \in TC!Cons : TC!ResumeGetToolResult(c)
           /\ UNCHANGED mvars
  <2>1. TC!TypeOK'
    BY <1>4, TC!TypeStep DEF RInv, TC!Next
  <2>2. MB!TInv'
    BY <1>4, MB!TInvStep DEF RInv, mvars, MB!vars
  <2>3. QED
    BY <2>1, <2>2 DEF RInv
<1>5. CASE MB!Next /\ UNCHANGED tvars
  <2>1. TC!TypeOK'
    BY <1>5, TC!TypeStep DEF RInv, tvars, TC!vars
  <2>2. MB!TInv'
    BY <1>5, MB!TInvStep DEF RInv
  <2>3. QED
    BY <2>1, <2>2 DEF RInv
<1>6. CASE UNCHANGED vars
  <2>1. TC!TypeOK'
    BY <1>6, TC!TypeStep DEF RInv, vars, tvars, TC!vars
  <2>2. MB!TInv'
    BY <1>6, MB!TInvStep DEF RInv, vars, mvars, MB!vars
  <2>3. QED
    BY <2>1, <2>2 DEF RInv
<1>7. QED
  BY <1>1, <1>2, <1>3, <1>4, <1>5, <1>6 DEF Next, MB!Next

(* The initial state satisfies RInv.                                      *)
LEMMA InitRInv == Init => RInv
BY TC!InitIInv, MB!InitTInv DEF Init, RInv, TC!IInv

(* Type correctness of the whole receiver: every reachable state keeps    *)
(* the tool dicts and the message buffers in their types, with at most    *)
(* two Event objects for messages, even though the run method, the         *)
(* message signal, the update and both tool handlers may each perform      *)
(* the one lazy init_claude_receiver() and signals may precede run().     *)
THEOREM TypeCorrect == Spec => []TypeOK
<1>1. RInv => TypeOK
  BY DEF RInv, MB!TInv, TypeOK
<1>2. QED
  BY InitRInv, <1>1, RInvStep, PTL DEF Spec

-----------------------------------------------------------------------------
(* The coordinator's delivery invariant, which holds whatever tool_ids    *)
(* the session sends and whether or not its signals precede run().        *)
DRInv == RInv /\ TC!DInv

(* run()'s reset of both tool dicts keeps the delivery invariant: it      *)
(* leaves the returned results alone and stores nothing.                   *)
LEMMA RunInitDInv ==
  ASSUME TC!DInv, RunInit
  PROVE  TC!DInv'
<1>1. TC!TypeOK'
  BY RunInitTools DEF TC!DInv
<1>2. QED
  BY <1>1 DEF RunInit, TC!DInv, TC!DeliveredResolved, TC!StoredUndelivered,
     TC!DeliveredOnce

(* Every step of the receiver keeps the delivery invariant.              *)
LEMMA DRInvStep == ASSUME DRInv, [Next]_vars PROVE DRInv'
<1>1. RInv'
  BY RInvStep DEF DRInv
<1>2. TC!DInv'
  <2>1. CASE RunInit
    BY <2>1, RunInitDInv DEF DRInv
  <2>2. CASE \/ \E r \in TC!Reqs : RequestToolExecution(r)
             \/ \E c \in TC!Cons : GetToolResult(c)
             \/ \E r \in TC!Reqs : TC!HandlerReturns(r) /\ UNCHANGED mvars
             \/ \E c \in TC!Cons : TC!ResumeGetToolResult(c) /\ UNCHANGED mvars
    BY <2>2, TC!DInvStep DEF DRInv, RequestToolExecution, GetToolResult,
       TC!Next
  <2>3. CASE UNCHANGED tvars
    BY <2>3, TC!DInvStep DEF DRInv, tvars, TC!vars
  <2>4. QED
    BY <2>1, <2>2, <2>3 DEF Next, vars
<1>3. QED
  BY <1>1, <1>2 DEF DRInv

(* However the session activity behaves, reusing a tool_id, retrying an   *)
(* update or signalling before run() so that run()'s init_claude_receiver *)
(* empties _tool_results and _tool_result_events under suspended handlers,  *)
(* no ToolResult is returned by two get_tool_result updates.              *)
THEOREM AtMostOnceAlways == Spec => []AtMostOnce
<1>1. Init => DRInv
  BY InitRInv, TC!InitDInv DEF Init, DRInv
<1>2. DRInv => AtMostOnce
  BY TC!DInvAtMostOnce DEF DRInv, AtMostOnce
<1>3. QED
  BY <1>1, <1>2, DRInvStep, PTL DEF Spec

-----------------------------------------------------------------------------
(* When the session's signals and updates come only after run() has       *)
(* started, the message side's invariant LInv holds of the receiver too.  *)
MInv == RInv /\ MB!LInv

(* After run(), a tool handler's "if not hasattr(...)" finds the receiver *)
(* initialised: the lazy init does nothing to the message side.           *)
LEMMA LateToolStepIdle ==
  ASSUME ~EarlySignals, MB!TInv, MB!External, MB!EnsureInit, MsgFrame
  PROVE  UNCHANGED MB!vars
<1>1. runStarted /\ inited
  BY Zenon DEF MB!External, MB!TInv, MB!InitCount
<1>2. inited' = inited /\ evtGen' = evtGen
  BY <1>1, Zenon DEF MB!EnsureInit
<1>3. QED
  BY <1>2, Zenon DEF MsgFrame, MB!vars

(* Every step of the receiver keeps MInv, given no early signals.        *)
LEMMA MInvStep ==
  ASSUME ~EarlySignals, MInv, [Next]_vars
  PROVE  MInv'
<1>1. RInv'
  BY RInvStep DEF MInv
<1>2. MB!LInv'
  <2>1. CASE RunInit
    BY <2>1, MB!LInvStep DEF MInv, RunInit, MB!Next
  <2>2. ASSUME NEW r \in TC!Reqs, RequestToolExecution(r) PROVE MB!LInv'
    <3>1. UNCHANGED MB!vars
      BY <2>2, LateToolStepIdle DEF MInv, MB!LInv, RequestToolExecution
    <3>2. QED
      BY <3>1, MB!LInvStep DEF MInv
  <2>3. ASSUME NEW c \in TC!Cons, GetToolResult(c) PROVE MB!LInv'
    <3>1. UNCHANGED MB!vars
      BY <2>3, LateToolStepIdle DEF MInv, MB!LInv, GetToolResult
    <3>2. QED
      BY <3>1, MB!LInvStep DEF MInv
  <2>4. CASE UNCHANGED mvars
    BY <2>4, MB!LInvStep DEF MInv, mvars, MB!vars
  <2>5. CASE MB!Next
    BY <2>5, MB!LInvStep DEF MInv
  <2>6. QED
    BY <2>1, <2>2, <2>3, <2>4, <2>5 DEF Next, MB!Next, vars
<1>3. QED
  BY <1>1, <1>2 DEF MInv

(* With signals and updates only after run(), no message is lost,         *)
(* duplicated or reordered in either direction in the whole receiver: the *)
(* tool handlers' lazy init_claude_receiver() and run()'s reset of the     *)
(* tool dicts leave the message buffers alone.                             *)
THEOREM NoMessageLostAfterRun == ~EarlySignals => (Spec => []MB!NoMessageLost)
<1> SUFFICES ASSUME ~EarlySignals PROVE Spec => []MB!NoMessageLost
  OBVIOUS
<1>1. Init => MInv
  BY InitRInv, MB!InitLInv DEF Init, MInv
<1>2. MInv /\ [Next]_vars => MInv'
  BY MInvStep
<1>3. MInv => MB!NoMessageLost
  BY DEF MInv, MB!LInv
<1>4. QED
  BY <1>1, <1>2, <1>3, PTL DEF Spec

-----------------------------------------------------------------------------
(* Before run() starts, with signals and updates only after it, no tool   *)
(* handler has run: the coordinator is in its initial state, so run()'s    *)
(* reset of the tool dicts (lines 69-71) replaces empty dicts with empty   *)
(* dicts.                                                                   *)
ToolsBeforeRun == ~runStarted => TC!Init

(* The coordinator's invariants, given unique tool_ids and no early       *)
(* signals.                                                                 *)
SInv == MInv /\ TC!DInv /\ TC!ZInv /\ ToolsBeforeRun

(* run()'s init_claude_receiver(), reached before any tool handler, does   *)
(* not change the coordinator's state.                                      *)
LEMMA RunInitToolsIdle ==
  ASSUME ToolsBeforeRun, RunInit
  PROVE  UNCHANGED TC!vars
<1>1. TC!Init
  BY Zenon DEF ToolsBeforeRun, RunInit, MB!RunInit
<1>2. QED
  BY <1>1 DEF RunInit, TC!Init, TC!vars

(* Before run() no handler is suspended and no update waits.              *)
LEMMA NoResumeBeforeRun ==
  ASSUME ToolsBeforeRun, ~runStarted
  PROVE  /\ \A r \in TC!Reqs : ~TC!HandlerReturns(r)
         /\ \A c \in TC!Cons : ~TC!ResumeGetToolResult(c)
<1>1. TC!Init
  BY DEF ToolsBeforeRun
<1>2. QED
  BY <1>1 DEF TC!Init, TC!HandlerReturns, TC!ResumeGetToolResult

(* The message side never un-starts run().                                *)
LEMMA StartedStays ==
  ASSUME MB!Next
  PROVE  runStarted' = runStarted \/ runStarted' = TRUE
BY Zenon DEF MB!Next, MB!RunInit, MB!ReceiveClaudeMessage,
   MB!WaitForClaudeMessages, MB!TakeMessages, MB!WakeReader,
   MB!ReaderTimeout, MB!GetClaudeMessages, MB!SendToClaude,
   MB!GetAndConsumeMessages

(* Every step keeps ToolsBeforeRun, given no early signals.               *)
LEMMA ToolsBeforeRunStep ==
  ASSUME ~EarlySignals, MInv, ToolsBeforeRun, [Next]_vars
  PROVE  ToolsBeforeRun'
<1>1. CASE RunInit
  BY <1>1, Zenon DEF ToolsBeforeRun, RunInit, MB!RunInit
<1>2. CASE \/ \E r \in TC!Reqs : RequestToolExecution(r)
           \/ \E c \in TC!Cons : GetToolResult(c)
  <2>1. runStarted /\ runStarted' = runStarted
    BY <1>2, Zenon DEF RequestToolExecution, GetToolResult, MsgFrame,
       MB!External
  <2>2. QED
    BY <2>1 DEF ToolsBeforeRun
<1>3. CASE /\ \/ \E r \in TC!Reqs : TC!HandlerReturns(r)
              \/ \E c \in TC!Cons : TC!ResumeGetToolResult(c)
           /\ UNCHANGED mvars
  <2>1. runStarted /\ runStarted' = runStarted
    BY <1>3, NoResumeBeforeRun, Zenon DEF mvars
  <2>2. QED
    BY <2>1 DEF ToolsBeforeRun
<1>4. CASE MB!Next /\ UNCHANGED tvars
  <2>1. SUFFICES ASSUME ~runStarted' PROVE TC!Init'
    BY DEF ToolsBeforeRun
  <2>2. ~runStarted
    BY <1>4, <2>1, StartedStays
  <2>3. TC!Init
    BY <2>2 DEF ToolsBeforeRun
  <2>4. QED
    BY <1>4, <2>3 DEF tvars, TC!Init
<1>5. CASE UNCHANGED vars
  BY <1>5 DEF vars, mvars, tvars, ToolsBeforeRun, TC!Init
<1>6. QED
  BY <1>1, <1>2, <1>3, <1>4, <1>5 DEF Next, MB!Next

(* Every step of the receiver keeps SInv.                                  *)
LEMMA SInvStep ==
  ASSUME TC!UniqueIds, ~EarlySignals, SInv, [Next]_vars
  PROVE  SInv'
<1>1. MInv'
  BY MInvStep DEF SInv
<1>2. TC!DInv'
  BY DRInvStep DEF SInv, DRInv, MInv
<1>3. ToolsBeforeRun'
  BY ToolsBeforeRunStep DEF SInv
<1>4. TC!ZInv'
  <2>1. CASE RunInit
    BY <2>1, RunInitToolsIdle, TC!ZInvStep DEF SInv
  <2>2. CASE \/ \E r \in TC!Reqs : RequestToolExecution(r)
             \/ \E c \in TC!Cons : GetToolResult(c)
             \/ \E r \in TC!Reqs : TC!HandlerReturns(r) /\ UNCHANGED mvars
             \/ \E c \in TC!Cons : TC!ResumeGetToolResult(c) /\ UNCHANGED mvars
    BY <2>2, TC!ZInvStep DEF SInv, RequestToolExecution, GetToolResult,
       TC!Next
  <2>3. CASE UNCHANGED tvars
    BY <2>3, TC!ZInvStep DEF SInv, tvars, TC!vars
  <2>4. QED
    BY <2>1, <2>2, <2>3 DEF Next, vars
<1>5. QED
  BY <1>1, <1>2, <1>3, <1>4 DEF SInv

(* With unique tool_ids and signals only after run(), the coordinator      *)
(* keeps its guarantees inside the whole receiver: no request_tool_execution*)
(* task fails with KeyError at line 227, the result of every finished       *)
(* request is returned exactly once or is still stored, and "Tool result    *)
(* not found" is explained.  It rests on ToolsBeforeRun: run()'s reset of   *)
(* the tool dicts at lines 69-71 is harmless only because no tool handler   *)
(* can have run before it; receiver_early_crash shows the crash when one    *)
(* can.                                                                      *)
THEOREM ToolSafetyAfterRun ==
  TC!UniqueIds /\ ~EarlySignals =>
    (Spec => [](NoSignalHandlerCrash /\ TC!ExactlyOnce /\ TC!ResultNotLost))
<1> SUFFICES ASSUME TC!UniqueIds, ~EarlySignals
             PROVE  Spec => [](NoSignalHandlerCrash /\ TC!ExactlyOnce
                               /\ TC!ResultNotLost)
  OBVIOUS
<1>1. Init => SInv
  <2> SUFFICES ASSUME Init PROVE SInv
    OBVIOUS
  <2>1. MInv
    BY InitRInv, MB!InitLInv DEF Init, MInv
  <2>2. TC!DInv /\ TC!ZInv
    BY TC!InitDInv, TC!InitZInv DEF Init
  <2>3. ToolsBeforeRun
    BY DEF Init, ToolsBeforeRun
  <2>4. QED
    BY <2>1, <2>2, <2>3 DEF SInv
<1>2. SInv /\ [Next]_vars => SInv'
  BY SInvStep
<1>3. SInv => NoSignalHandlerCrash /\ TC!ExactlyOnce /\ TC!ResultNotLost
  <2> SUFFICES ASSUME SInv
               PROVE  NoSignalHandlerCrash /\ TC!ExactlyOnce /\ TC!ResultNotLost
    OBVIOUS
  <2>1. NoSignalHandlerCrash
    BY DEF SInv, TC!ZInv, TC!XInv, TC!IInv, NoSignalHandlerCrash
  <2>2. TC!ExactlyOnce
    BY TC!InvExactlyOnce DEF SInv, TC!ZInv
  <2>3. TC!ResultNotLost
    BY DEF SInv, TC!ZInv
  <2>4. QED
    BY <2>1, <2>2, <2>3
<1>4. QED
  BY <1>1, <1>2, <1>3, PTL DEF Spec

-----------------------------------------------------------------------------
(* With unique tool_ids and signals only after run(), the receiver as a    *)
(* whole implements the abstract rendezvous of Rendezvous.tla (its safety  *)
(* part), under the coordinator's own refinement mapping: a tool handler's *)
(* step is a step of the coordinator, and run()'s init_claude_receiver()   *)
(* and every message step leave the mapped state alone.  With early        *)
(* signals run()'s reset of the tool dicts turns a resolved request back   *)
(* into a dispatching one, which no abstract step does.                    *)
THEOREM RefinesRendezvousAfterRun ==
  TC!UniqueIds /\ ~EarlySignals => (Spec => TC!ImplementsRendezvous)
<1> SUFFICES ASSUME TC!UniqueIds, ~EarlySignals
             PROVE  Spec => TC!RZ!SafetySpec
  BY DEF TC!ImplementsRendezvous
<1>1. Init => TC!RZ!Init /\ SInv
  <2>1. Init => TC!RZ!Init
    BY TC!ConstantsAssumption
    DEF Init, TC!Init, TC!RZ!Init, TC!RzState, TC!OutOf, TC!Stored, TC!NoResult,
        TC!Reqs, TC!Unanswered, TC!RZ!Unanswered, TC!RZ!NoOutcome, TC!RZ!Reqs,
        TC!RZ!Cons, TC!Cons
  <2>2. Init => SInv
    BY InitRInv, MB!InitLInv, TC!InitDInv, TC!InitZInv
    DEF Init, SInv, MInv, ToolsBeforeRun
  <2>3. QED
    BY <2>1, <2>2
<1>2. SInv /\ [Next]_vars => [TC!RZ!Next]_TC!RZ!avars
  <2> SUFFICES ASSUME SInv, [Next]_vars PROVE [TC!RZ!Next]_TC!RZ!avars
    OBVIOUS
  <2>1. TC!IInv
    BY DEF SInv, TC!ZInv, TC!XInv
  <2>2. CASE RunInit
    BY <2>1, <2>2, RunInitToolsIdle, TC!RefineStep DEF SInv
  <2>3. CASE \/ \E r \in TC!Reqs : RequestToolExecution(r)
             \/ \E c \in TC!Cons : GetToolResult(c)
             \/ \E r \in TC!Reqs : TC!HandlerReturns(r) /\ UNCHANGED mvars
             \/ \E c \in TC!Cons : TC!ResumeGetToolResult(c) /\ UNCHANGED mvars
    BY <2>1, <2>3, TC!RefineStep DEF RequestToolExecution, GetToolResult,
       TC!Next
  <2>4. CASE UNCHANGED tvars
    BY <2>1, <2>4, TC!RefineStep DEF tvars, TC!vars
  <2>5. QED
    BY <2>2, <2>3, <2>4 DEF Next, vars
<1>3. QED
  BY <1>1, <1>2, SInvStep, PTL DEF Spec, TC!RZ!SafetySpec
=============================================================================
