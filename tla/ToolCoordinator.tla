-------------------------- MODULE ToolCoordinator --------------------------
(***************************************************************************)
(* The tool-execution rendezvous of ClaudeMessageReceiver                  *)
(* (_workflow_helpers.py): the request_tool_execution signal handler and   *)
(* the get_tool_result update handler, interleaved by the workflow's       *)
(* cooperative asyncio loop.                                               *)
(*                                                                         *)
(* Each signal or update invocation is an asyncio task.  A task runs       *)
(* atomically between its suspension points, so every action below is the *)
(* code of one task from one await to the next.  The two suspension       *)
(* points are "await handler.handler(...)" (line 205) and                  *)
(* "await self._tool_result_events[tool_id].wait()" (line 246).            *)
(*                                                                         *)
(* An asyncio.Event is an object: the dict _tool_result_events maps a      *)
(* tool_id to the Event created by one request, and a waiter holds the     *)
(* Event object it awaits.  Every request creates exactly one Event, so    *)
(* the Event of request r is named r.                                      *)
(***************************************************************************)
EXTENDS Naturals, FiniteSets

CONSTANTS
  Ids,      \* tool_id values the session activity may send
  Tools,    \* tool names
  Handled,  \* tool names with a @claude_tool handler in the registry
  NReqs,    \* number of request_tool_execution signals delivered
  ReqId,    \* ReqId[r]: tool_id carried by signal r
  ReqTool,  \* ReqTool[r]: tool_name carried by signal r
  NCons,    \* number of get_tool_result updates delivered
  ConId     \* ConId[c]: tool_id asked for by update c

Reqs == 1 .. NReqs
Cons == 1 .. NCons

ASSUME ConstantsAssumption ==
  /\ NReqs \in Nat /\ NCons \in Nat
  /\ Handled \subseteq Tools
  /\ ReqId \in [Reqs -> Ids] /\ ReqTool \in [Reqs -> Tools]
  /\ ConId \in [Cons -> Ids]

\* No event in the dict for an id.
NoEvent == 0

(* What a handler invocation can end in (lines 203-223): it returns its   *)
(* output, raises ToolDenied with interrupt False or True, or raises any   *)
(* other exception.                                                        *)
HandlerOutcomes == {"success", "denied", "denied_interrupt", "fault"}
Outcomes == HandlerOutcomes \cup {"no_handler"}

(* A ToolResult, abstracted to the request that produced it and how.  The *)
(* tool_id field always equals the dict key it is stored under.           *)
Results == [req : Reqs, outcome : Outcomes]
NoResult == [req |-> 0, outcome |-> "none"]
NotFound == [req |-> 0, outcome |-> "not_found"]
\* What an update that has not returned yet has answered.
Unanswered == [req |-> 0, outcome |-> "unanswered"]

VARIABLES
  events,    \* _tool_result_events: tool_id -> Event (NoEvent if absent)
  setEvts,   \* the Event objects whose flag is set
  results,   \* _tool_results: tool_id -> ToolResult (NoResult if absent)
  req,       \* req[r]: where signal task r is
  con,       \* con[c]: where update task c is
  conEvt,    \* conEvt[c]: the Event object update c awaits
  returned,  \* returned[c]: the ToolResult update c returned
  early      \* history: no request for ConId[c] was delivered when c began

vars == <<events, setEvts, results, req, con, conEvt, returned, early>>

TypeOK ==
  /\ events \in [Ids -> Reqs \cup {NoEvent}]
  /\ setEvts \subseteq Reqs
  /\ results \in [Ids -> Results \cup {NoResult}]
  /\ req \in [Reqs -> {"pending", "suspended", "done", "crashed"}]
  /\ con \in [Cons -> {"pending", "waiting", "done"}]
  /\ conEvt \in [Cons -> Reqs \cup {NoEvent}]
  /\ returned \in [Cons -> Results \cup {NotFound, Unanswered}]
  /\ early \in [Cons -> BOOLEAN]

(* The state right after init_claude_receiver() (lines 67-71), the first  *)
(* statement of the workflow's run method: the session activity that      *)
(* sends the signals and updates is started only after it.                *)
Init ==
  /\ events = [i \in Ids |-> NoEvent]
  /\ setEvts = {}
  /\ results = [i \in Ids |-> NoResult]
  /\ req = [r \in Reqs |-> "pending"]
  /\ con = [c \in Cons |-> "pending"]
  /\ conEvt = [c \in Cons |-> NoEvent]
  /\ returned = [c \in Cons |-> Unanswered]
  /\ early = [c \in Cons |-> FALSE]

(* registry.get(request.tool_name) is not None (lines 192-195): the      *)
(* registry is filled once by register_tool_handlers and never changes.   *)
HasHandler(t) == t \in Handled

(* Lines 197-226: store the ToolResult for outcome o under the tool_id.  *)
StoreResult(r, o) ==
  results' = [results EXCEPT ![ReqId[r]] = [req |-> r, outcome |-> o]]

(* Without a suspension between line 189 and line 227 the Event set is    *)
(* the one this request has just created.                                 *)
ResolveInline(r, o) ==
  /\ StoreResult(r, o)
  /\ setEvts' = setEvts \cup {r}
  /\ req' = [req EXCEPT ![r] = "done"]

(* request_tool_execution, from its start to its first suspension (lines  *)
(* 182-205): create a fresh Event for the id, overwriting any earlier one, *)
(* and look the tool up.  With no handler the result is synthesised and   *)
(* resolved at once; a handler either completes without suspending or     *)
(* suspends in an activity or timer.                                      *)
RequestToolExecution(r) ==
  /\ req[r] = "pending"
  /\ events' = [events EXCEPT ![ReqId[r]] = r]
  /\ \/ /\ ~HasHandler(ReqTool[r])
        /\ ResolveInline(r, "no_handler")
     \/ /\ HasHandler(ReqTool[r])
        /\ \E o \in HandlerOutcomes : ResolveInline(r, o)
     \/ /\ HasHandler(ReqTool[r])
        /\ req' = [req EXCEPT ![r] = "suspended"]
        /\ UNCHANGED <<results, setEvts>>
  /\ UNCHANGED <<con, conEvt, returned, early>>

(* Mutant: the result is stored but line 227 is left out.                *)
HandlerReturnsNoSet(r) ==
  /\ req[r] = "suspended"
  /\ results' = [results EXCEPT ![ReqId[r]] = [req |-> r, outcome |-> "fault"]]
  /\ req' = [req EXCEPT ![r] = "done"]
  /\ UNCHANGED <<events, setEvts, con, conEvt, returned, early>>

(* The suspended handler of request r returns or raises (lines 205-227): *)
(* the result is stored, then line 227 sets whatever Event the dict holds *)
(* for the id now.  If the entry is gone, the lookup raises KeyError and  *)
(* the signal handler fails.                                              *)
HandlerReturns(r) ==
  /\ req[r] = "suspended"
  /\ \E o \in HandlerOutcomes : StoreResult(r, o)
  /\ \/ /\ events[ReqId[r]] # NoEvent
        /\ setEvts' = setEvts \cup {events[ReqId[r]]}
        /\ req' = [req EXCEPT ![r] = "done"]
     \/ /\ events[ReqId[r]] = NoEvent
        /\ req' = [req EXCEPT ![r] = "crashed"]
        /\ UNCHANGED setEvts
  /\ UNCHANGED <<events, con, conEvt, returned, early>>

(* Mutant: the result is returned without the "is None" check (253-258). *)
ConsumeNoNoneCheck(c) ==
  /\ returned' = [returned EXCEPT ![c] = results[ConId[c]]]
  /\ results' = [results EXCEPT ![ConId[c]] = NoResult]
  /\ events' = [events EXCEPT ![ConId[c]] = NoEvent]
  /\ con' = [con EXCEPT ![c] = "done"]
  /\ UNCHANGED <<req, setEvts, conEvt>>

(* Mutant: the result is read with .get instead of .pop (line 249).       *)
ConsumeNoPop(c) ==
  /\ returned' = [returned EXCEPT ![c] = IF results[ConId[c]] = NoResult
                                        THEN NotFound ELSE results[ConId[c]]]
  /\ events' = [events EXCEPT ![ConId[c]] = NoEvent]
  /\ con' = [con EXCEPT ![c] = "done"]
  /\ UNCHANGED <<results, req, setEvts, conEvt>>

(* Mutant: the whole Event dict is cleared instead of one entry (250-251). *)
ConsumeClearAll(c) ==
  /\ returned' = [returned EXCEPT ![c] = IF results[ConId[c]] = NoResult
                                        THEN NotFound ELSE results[ConId[c]]]
  /\ results' = [results EXCEPT ![ConId[c]] = NoResult]
  /\ events' = [i \in Ids |-> NoEvent]
  /\ con' = [con EXCEPT ![c] = "done"]
  /\ UNCHANGED <<req, setEvts, conEvt>>

(* Lines 249-260: pop the result for the id, delete whatever Event the    *)
(* dict holds for it, and return the result or "Tool result not found".   *)
Consume(c) ==
  LET id == ConId[c] IN
  /\ returned' = [returned EXCEPT ![c] =
                    IF results[id] = NoResult THEN NotFound ELSE results[id]]
  /\ results' = [results EXCEPT ![id] = NoResult]
  /\ events' = [events EXCEPT ![id] = NoEvent]
  /\ con' = [con EXCEPT ![c] = "done"]
  /\ UNCHANGED <<req, setEvts, conEvt>>

(* Mutant: the wait at lines 245-246 is left out.                        *)
GetToolResultNoWait(c) ==
  /\ con[c] = "pending"
  /\ early' = [early EXCEPT ![c] =
                 \A r \in Reqs : ReqId[r] = ConId[c] => req[r] = "pending"]
  /\ Consume(c)

(* get_tool_result, from its start (lines 241-246).  Event.wait() on a set *)
(* Event returns without suspending, so with no Event or a set one the    *)
(* whole update runs in one step; otherwise it suspends on that Event.    *)
GetToolResult(c) ==
  LET id == ConId[c] IN
  /\ con[c] = "pending"
  /\ early' = [early EXCEPT ![c] =
                 \A r \in Reqs : ReqId[r] = id => req[r] = "pending"]
  /\ \/ /\ events[id] # NoEvent
        /\ events[id] \notin setEvts
        /\ con' = [con EXCEPT ![c] = "waiting"]
        /\ conEvt' = [conEvt EXCEPT ![c] = events[id]]
        /\ UNCHANGED <<events, setEvts, results, req, returned>>
     \/ /\ events[id] = NoEvent \/ events[id] \in setEvts
        /\ Consume(c)

(* The Event update c awaits has been set: it resumes at line 249.        *)
ResumeGetToolResult(c) ==
  /\ con[c] = "waiting"
  /\ conEvt[c] \in setEvts
  /\ Consume(c)
  /\ UNCHANGED early

Next ==
  \/ \E r \in Reqs : RequestToolExecution(r) \/ HandlerReturns(r)
  \/ \E c \in Cons : GetToolResult(c) \/ ResumeGetToolResult(c)

(* The activity a handler awaits eventually completes, fails or times out *)
(* (every outcome is caught at lines 211-223), and asyncio runs a task    *)
(* whose awaited Event is set.  Signals and updates themselves are sent   *)
(* by the session activity, so nothing forces them to arrive.             *)
Fairness ==
  /\ \A r \in Reqs : WF_vars(HandlerReturns(r))
  /\ \A c \in Cons : WF_vars(ResumeGetToolResult(c))

Spec == Init /\ [][Next]_vars /\ Fairness

-----------------------------------------------------------------------------
(* The results stored for request r and the updates that returned it.     *)
Stored(r) == results[ReqId[r]].req = r
Deliveries(r) == {c \in Cons : returned[c].req = r}

(* The signal handler never fails: line 227 always finds the Event for    *)
(* its tool_id.  A failed signal handler fails the workflow task, and     *)
(* replay fails the same way, so the workflow would be stuck.             *)
NoSignalHandlerCrash == \A r \in Reqs : req[r] # "crashed"

(* Exactly-once hand-off of the ToolResult of get_tool_result: a result   *)
(* produced by request_tool_execution is either still stored or has been  *)
(* returned by exactly one update; it is never overwritten unread nor     *)
(* returned twice.                                                        *)
ExactlyOnce ==
  \A r \in Reqs : req[r] = "done" =>
    IF Stored(r) THEN Deliveries(r) = {} ELSE Cardinality(Deliveries(r)) = 1

(* Even when the session activity reuses a tool_id, no ToolResult is     *)
(* ever returned by two get_tool_result updates.                          *)
AtMostOnce == \A r \in Reqs : Cardinality(Deliveries(r)) <= 1

(* get_tool_result answers "Tool result not found" only when it began     *)
(* before any request for its id was delivered, or when another update    *)
(* for the same id (a retried activity) took the result.                  *)
ResultNotLost ==
  \A c \in Cons :
    returned[c] = NotFound =>
      \/ early[c]
      \/ \E d \in Cons \ {c} : ConId[d] = ConId[c] /\ returned[d] \in Results

(* Every get_tool_result that suspends on its Event eventually returns.   *)
WaiterReleased == \A c \in Cons : con[c] = "waiting" ~> con[c] = "done"

-----------------------------------------------------------------------------
(* The refinement mapping to the abstract per-id state machine: a pending *)
(* signal is an idle rendezvous, a suspended handler a dispatching one, a *)
(* finished request whose result is still stored a resolved one, and one  *)
(* whose result has been popped a consumed one.                           *)
RzState(r) ==
  IF req[r] = "pending" THEN "idle"
  ELSE IF req[r] = "suspended" THEN "dispatching"
  ELSE IF Stored(r) THEN "resolved"
  ELSE "consumed"

(* The outcome of a resolved request, read from the stored ToolResult.    *)
OutOf(r) ==
  IF RzState(r) = "resolved" THEN results[ReqId[r]].outcome ELSE "none"

RZ == INSTANCE Rendezvous WITH
        rz <- [r \in Reqs |-> RzState(r)],
        out <- [r \in Reqs |-> OutOf(r)],
        caller <- con,
        answer <- returned

(* request_tool_execution and get_tool_result together implement the     *)
(* Rendezvous contract of the spec: every behaviour of the Events-and-    *)
(* dicts coordinator is one the abstract state machine allows.            *)
ImplementsRendezvous == RZ!SafetySpec

(* The same, with the abstract fairness: every dispatched handler is      *)
(* eventually resolved and every waiter whose id is no longer dispatching *)
(* eventually returns.                                                    *)
ImplementsRendezvousFair == RZ!Spec
=============================================================================
