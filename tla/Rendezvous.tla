----------------------------- MODULE Rendezvous -----------------------------
(***************************************************************************)
(* What the Tool Coordinator promises, per correlation id (the spec's     *)
(* section 4.3): a request is Accepted, Dispatched to its handler,         *)
(* Resolved with a ToolResult, and the result is Consumed by exactly one   *)
(* await_result call; an await_result for an id with no rendezvous and no  *)
(* stored result, or for one already consumed, answers "not found" and     *)
(* never suspends; a waiter wakes once its id is resolved.  Nothing here   *)
(* mentions Events, dicts or tasks: those are how the coordinator          *)
(* implements the promise.                                                 *)
(***************************************************************************)
EXTENDS Naturals

CONSTANTS
  Ids,      \* correlation ids
  Tools,    \* capability names
  Handled,  \* capability names with a registered handler
  NReqs,    \* number of tool requests
  ReqId,    \* ReqId[r]: correlation id of request r
  ReqTool,  \* ReqTool[r]: capability name of request r
  NCons,    \* number of await_result calls
  ConId     \* ConId[c]: correlation id await_result call c asks for

Reqs == 1 .. NReqs
Cons == 1 .. NCons

(* Success, explicit denial with or without interrupt, handler fault, and  *)
(* the synthesised failure for a capability with no handler.              *)
HandlerOutcomes == {"success", "denied", "denied_interrupt", "fault"}
Outcomes == HandlerOutcomes \cup {"no_handler"}
Results == [req : Reqs, outcome : Outcomes]
NotFound == [req |-> 0, outcome |-> "not_found"]
Unanswered == [req |-> 0, outcome |-> "unanswered"]
NoOutcome == "none"

VARIABLES
  rz,      \* rz[r]: "idle", "dispatching", "resolved" or "consumed"
  out,     \* out[r]: the outcome of a resolved, unconsumed request
  caller,  \* caller[c]: "pending", "waiting" or "done"
  answer   \* answer[c]: what await_result call c returned

avars == <<rz, out, caller, answer>>

TypeOK ==
  /\ rz \in [Reqs -> {"idle", "dispatching", "resolved", "consumed"}]
  /\ out \in [Reqs -> Outcomes \cup {NoOutcome}]
  /\ caller \in [Cons -> {"pending", "waiting", "done"}]
  /\ answer \in [Cons -> Results \cup {NotFound, Unanswered}]

Init ==
  /\ rz = [r \in Reqs |-> "idle"]
  /\ out = [r \in Reqs |-> NoOutcome]
  /\ caller = [c \in Cons |-> "pending"]
  /\ answer = [c \in Cons |-> Unanswered]

(* The requests for the id await_result call c asks for.                  *)
ReqsFor(c) == {r \in Reqs : ReqId[r] = ConId[c]}

(* Resolve r with outcome o.                                               *)
ResolveAs(r, o) ==
  /\ rz' = [rz EXCEPT ![r] = "resolved"]
  /\ out' = [out EXCEPT ![r] = o]

(* Accept and Dispatch: with no handler the failure is resolved at once;  *)
(* a handler either finishes without suspending or is left dispatching.   *)
Accept(r) ==
  /\ rz[r] = "idle"
  /\ \/ ReqTool[r] \notin Handled /\ ResolveAs(r, "no_handler")
     \/ ReqTool[r] \in Handled /\ \E o \in HandlerOutcomes : ResolveAs(r, o)
     \/ /\ ReqTool[r] \in Handled
        /\ rz' = [rz EXCEPT ![r] = "dispatching"]
        /\ UNCHANGED out
  /\ UNCHANGED <<caller, answer>>

(* The handler of a dispatching request finishes.                          *)
Resolve(r) ==
  /\ rz[r] = "dispatching"
  /\ \E o \in HandlerOutcomes : ResolveAs(r, o)
  /\ UNCHANGED <<caller, answer>>

(* await_result call c completes: it takes a resolved result for its id,  *)
(* which becomes consumed, or answers "not found" if there is none.        *)
Complete(c) ==
  /\ caller' = [caller EXCEPT ![c] = "done"]
  /\ \/ \E r \in ReqsFor(c) :
          /\ rz[r] = "resolved"
          /\ answer' = [answer EXCEPT ![c] = [req |-> r, outcome |-> out[r]]]
          /\ rz' = [rz EXCEPT ![r] = "consumed"]
          /\ out' = [out EXCEPT ![r] = NoOutcome]
     \/ /\ \A r \in ReqsFor(c) : rz[r] # "resolved"
        /\ answer' = [answer EXCEPT ![c] = NotFound]
        /\ UNCHANGED <<rz, out>>

(* await_result: suspend while the id's request is dispatching; otherwise *)
(* complete at once.                                                       *)
AwaitResult(c) ==
  /\ caller[c] = "pending"
  /\ \/ /\ \E r \in ReqsFor(c) : rz[r] = "dispatching"
        /\ caller' = [caller EXCEPT ![c] = "waiting"]
        /\ UNCHANGED <<rz, out, answer>>
     \/ /\ \A r \in ReqsFor(c) : rz[r] # "dispatching"
        /\ Complete(c)

(* A waiter wakes once no request for its id is dispatching.              *)
Wake(c) ==
  /\ caller[c] = "waiting"
  /\ \A r \in ReqsFor(c) : rz[r] # "dispatching"
  /\ Complete(c)

Next ==
  \/ \E r \in Reqs : Accept(r) \/ Resolve(r)
  \/ \E c \in Cons : AwaitResult(c) \/ Wake(c)

SafetySpec == Init /\ [][Next]_avars

(* Every dispatched handler finishes and every woken waiter runs.          *)
Spec ==
  /\ SafetySpec
  /\ \A r \in Reqs : WF_avars(Resolve(r))
  /\ \A c \in Cons : WF_avars(Wake(c))
=============================================================================
