----------------------- MODULE ToolCoordinator_proofs -----------------------
(***************************************************************************)
(* Proofs about ToolCoordinator for every instance of its constants.       *)
(***************************************************************************)
EXTENDS ToolCoordinator, FiniteSetTheorems, TLAPS

(* The session activity sends a fresh tool_id with every request.         *)
UniqueIds == \A r1, r2 \in Reqs : ReqId[r1] = ReqId[r2] => r1 = r2

(* Every Event in the dict belongs to a request for that id that has      *)
(* been delivered.                                                        *)
EventsOwned ==
  \A i \in Ids : events[i] # NoEvent =>
    /\ ReqId[events[i]] = i
    /\ req[events[i]] \in {"suspended", "done"}

(* A request suspended in its handler still owns the unset Event of its   *)
(* id: nothing has deleted or replaced it.                                *)
SuspendedOwnsEvent ==
  \A r \in Reqs : req[r] = "suspended" =>
    /\ events[ReqId[r]] = r
    /\ r \notin setEvts

(* Only the Event of a resolved request is ever set.                      *)
SetMeansDone == \A r \in setEvts : req[r] = "done"

(* A suspended update awaits the Event of a request for its own id.       *)
WaitersOnOwnId ==
  \A c \in Cons : con[c] = "waiting" =>
    conEvt[c] \in Reqs /\ ReqId[conEvt[c]] = ConId[c]

(* A stored result belongs to a resolved request for its key.             *)
ResultsOwned ==
  \A i \in Ids : results[i] # NoResult =>
    /\ results[i].req \in Reqs
    /\ ReqId[results[i].req] = i
    /\ req[results[i].req] = "done"

(* A resolved request has set its Event.                                  *)
DoneIsSet == \A r \in Reqs : req[r] = "done" => r \in setEvts

IInv ==
  /\ TypeOK
  /\ NoSignalHandlerCrash
  /\ EventsOwned
  /\ SuspendedOwnsEvent
  /\ SetMeansDone
  /\ WaitersOnOwnId
  /\ ResultsOwned
  /\ DoneIsSet
(* A result that get_tool_result returned came from a request whose      *)
(* handler has finished (the pop at line 249 only sees stored results).   *)
DeliveredResolved ==
  \A c \in Cons : returned[c] \in Results =>
    req[returned[c].req] \in {"done", "crashed"}

(* A result still stored in _tool_results comes from a finished request   *)
(* for its own key, and no update has returned it yet.                    *)
StoredUndelivered ==
  \A i \in Ids : results[i] # NoResult =>
    /\ results[i].req \in Reqs
    /\ ReqId[results[i].req] = i
    /\ req[results[i].req] \in {"done", "crashed"}
    /\ \A c \in Cons : returned[c].req # results[i].req

(* No two updates returned the result of the same request.                *)
DeliveredOnce ==
  \A c, d \in Cons : c # d /\ returned[c] \in Results =>
    returned[d].req # returned[c].req

(* The delivery invariant: it holds whatever tool_ids the session sends.  *)
DInv ==
  /\ TypeOK
  /\ DeliveredResolved
  /\ StoredUndelivered
  /\ DeliveredOnce

(* An update that has not returned has answered nothing.                   *)
UnansweredUntilDone ==
  \A c \in Cons : con[c] # "done" => returned[c] = Unanswered

(* The result of a resolved request is either still stored or has been    *)
(* returned by some update.                                                *)
ResolvedDelivered ==
  \A r \in Reqs : req[r] = "done" /\ ~Stored(r) =>
    \E c \in Cons : returned[c].req = r

(* An update only ever returns the result of a request for its own id:    *)
(* the pop at line 249 reads the entry under the update's tool_id.        *)
DeliveredOwnId ==
  \A c \in Cons : returned[c] \in Results => ReqId[returned[c].req] = ConId[c]

-----------------------------------------------------------------------------
(* Each step keeps every variable in its type.                           *)
LEMMA TypeStep == TypeOK /\ [Next]_vars => TypeOK'
<1> USE ConstantsAssumption
<1> SUFFICES ASSUME TypeOK, [Next]_vars PROVE TypeOK'
  OBVIOUS
<1>1. ASSUME NEW r \in Reqs, RequestToolExecution(r) PROVE TypeOK'
  BY <1>1 DEF RequestToolExecution, HasHandler, ResolveInline, StoreResult, TypeOK,
             Results, Outcomes, HandlerOutcomes, NoEvent, NoResult
<1>2. ASSUME NEW r \in Reqs, HandlerReturns(r) PROVE TypeOK'
  BY <1>2 DEF HandlerReturns, StoreResult, TypeOK, Results, Outcomes,
             HandlerOutcomes, NoEvent, NoResult
<1>3. ASSUME NEW c \in Cons, GetToolResult(c) PROVE TypeOK'
  BY <1>3 DEF GetToolResult, Consume, TypeOK, Results, NoEvent, NoResult,
             NotFound, Unanswered
<1>4. ASSUME NEW c \in Cons, ResumeGetToolResult(c) PROVE TypeOK'
  BY <1>4 DEF ResumeGetToolResult, Consume, TypeOK, Results, NoEvent,
             NoResult, NotFound, Unanswered
<1>5. CASE UNCHANGED vars
  BY <1>5 DEF vars, TypeOK
<1>6. QED
  BY <1>1, <1>2, <1>3, <1>4, <1>5 DEF Next

(* Type correctness of the rendezvous: every reachable state keeps each   *)
(* variable in its type.                                                  *)
THEOREM TypeCorrect == Spec => []TypeOK
<1>1. Init => TypeOK
  BY ConstantsAssumption
  DEF Init, TypeOK, NoEvent, NoResult, Unanswered, Results
<1>2. QED
  BY <1>1, TypeStep, PTL DEF Spec

-----------------------------------------------------------------------------
(* The state right after init_claude_receiver satisfies IInv.            *)
LEMMA InitIInv == Init => IInv
BY ConstantsAssumption
DEF Init, IInv, TypeOK, NoSignalHandlerCrash, EventsOwned,
    SuspendedOwnsEvent, SetMeansDone, WaitersOnOwnId, ResultsOwned,
    DoneIsSet, NoEvent, NoResult, Unanswered, Results

(* With unique tool_ids every step of the coordinator preserves IInv.     *)
LEMMA IInvStep == ASSUME UniqueIds, IInv, [Next]_vars PROVE IInv'
<1> USE ConstantsAssumption
<1>0. TypeOK'
  BY TypeStep DEF IInv
<1>1. ASSUME NEW r \in Reqs, RequestToolExecution(r) PROVE IInv'
  BY <1>0, <1>1 DEF UniqueIds, RequestToolExecution, ResolveInline,
     StoreResult, IInv, TypeOK, NoSignalHandlerCrash, EventsOwned,
     SuspendedOwnsEvent, SetMeansDone, WaitersOnOwnId, ResultsOwned,
     DoneIsSet, NoEvent, NoResult
<1>2. ASSUME NEW r \in Reqs, HandlerReturns(r) PROVE IInv'
  <2>1. events[ReqId[r]] = r /\ r \notin setEvts
    BY <1>2 DEF HandlerReturns, IInv, SuspendedOwnsEvent
  <2>2. /\ setEvts' = setEvts \cup {r}
        /\ req' = [req EXCEPT ![r] = "done"]
        /\ UNCHANGED <<events, con, conEvt>>
    BY <1>2, <2>1 DEF HandlerReturns, NoEvent, Reqs
  <2>3. NoSignalHandlerCrash' /\ SetMeansDone'
    BY <2>2 DEF IInv, TypeOK, NoSignalHandlerCrash, SetMeansDone
  <2>4. EventsOwned'
    BY <2>2 DEF IInv, TypeOK, EventsOwned
  <2>5. SuspendedOwnsEvent'
    BY <2>2 DEF IInv, TypeOK, SuspendedOwnsEvent
  <2>6. WaitersOnOwnId'
    BY <2>2 DEF IInv, WaitersOnOwnId
  <2>7. ResultsOwned'
    BY <1>2, <2>2 DEF HandlerReturns, StoreResult, IInv, TypeOK,
       ResultsOwned, NoResult
  <2>8. DoneIsSet'
    BY <2>2 DEF IInv, TypeOK, DoneIsSet
  <2>9. QED
    BY <1>0, <2>3, <2>4, <2>5, <2>6, <2>7, <2>8 DEF IInv
<1>3. ASSUME NEW c \in Cons, GetToolResult(c) PROVE IInv'
  BY <1>0, <1>3 DEF UniqueIds, GetToolResult, Consume, IInv, TypeOK,
     NoSignalHandlerCrash, EventsOwned, SuspendedOwnsEvent, SetMeansDone,
     WaitersOnOwnId, ResultsOwned, DoneIsSet, NoEvent, NoResult
<1>4. ASSUME NEW c \in Cons, ResumeGetToolResult(c) PROVE IInv'
  BY <1>0, <1>4 DEF UniqueIds, ResumeGetToolResult, Consume, IInv, TypeOK,
     NoSignalHandlerCrash, EventsOwned, SuspendedOwnsEvent, SetMeansDone,
     WaitersOnOwnId, ResultsOwned, DoneIsSet, NoEvent, NoResult
<1>5. CASE UNCHANGED vars
  BY <1>0, <1>5 DEF vars, IInv, TypeOK, NoSignalHandlerCrash, EventsOwned,
     SuspendedOwnsEvent, SetMeansDone, WaitersOnOwnId, ResultsOwned,
     DoneIsSet
<1>6. QED
  BY <1>1, <1>2, <1>3, <1>4, <1>5 DEF Next

(* With unique tool_ids IInv holds in every reachable state.              *)
LEMMA IInvariant == UniqueIds => (Spec => []IInv)
<1> SUFFICES ASSUME UniqueIds PROVE Spec => []IInv
  OBVIOUS
<1>1. IInv /\ [Next]_vars => IInv'
  BY IInvStep
<1>2. QED
  BY InitIInv, <1>1, PTL DEF Spec

(* With unique tool_ids the request_tool_execution signal handler never   *)
(* fails at line 227: a suspended request's Event is never deleted by     *)
(* get_tool_result nor replaced, so the lookup after the handler's await  *)
(* always finds it.  IInv is needed because NoSignalHandlerCrash alone is *)
(* not inductive: it says nothing about the dict entry a suspended        *)
(* request will look up.                                                  *)
THEOREM NoCrashWithUniqueIds == UniqueIds => (Spec => []NoSignalHandlerCrash)
<1> SUFFICES ASSUME UniqueIds PROVE Spec => []NoSignalHandlerCrash
  OBVIOUS
<1>1. IInv => NoSignalHandlerCrash
  BY DEF IInv
<1>2. QED
  BY IInvariant, <1>1, PTL

(* A step of request_tool_execution's line 226 never replaces a ToolResult *)
(* that is still stored: a stored result only ever stays or is popped.     *)
ResultKept ==
  \A i \in Ids : results[i] # NoResult => results'[i] \in {results[i], NoResult}

(* The request whose handler is still running, or has not started, has    *)
(* no result stored under its id: with unique ids the only stored result  *)
(* for that id would be its own, which needs it to be done.               *)
LEMMA UnfinishedNotStored ==
  ASSUME UniqueIds, IInv, NEW r \in Reqs, req[r] \in {"pending", "suspended"}
  PROVE  results[ReqId[r]] = NoResult
<1> SUFFICES ASSUME results[ReqId[r]] # NoResult PROVE FALSE
  OBVIOUS
<1>1. /\ results[ReqId[r]].req \in Reqs
      /\ ReqId[results[ReqId[r]].req] = ReqId[r]
      /\ req[results[ReqId[r]].req] = "done"
  BY ConstantsAssumption DEF IInv, ResultsOwned
<1>2. results[ReqId[r]].req = r
  BY <1>1 DEF UniqueIds
<1>3. QED
  BY <1>1, <1>2

(* With unique tool_ids the ToolResult stored at line 226 is never        *)
(* overwritten before a get_tool_result pops it at line 249: every step   *)
(* leaves a stored result in place or removes it.                         *)
THEOREM NoOverwriteWithUniqueIds == UniqueIds => (Spec => [][ResultKept]_vars)
<1> SUFFICES ASSUME UniqueIds PROVE Spec => [][ResultKept]_vars
  OBVIOUS
<1> USE ConstantsAssumption
<1>1. IInv /\ [Next]_vars => [ResultKept]_vars
  <2> SUFFICES ASSUME IInv, [Next]_vars PROVE ResultKept \/ UNCHANGED vars
    OBVIOUS
  <2>1. ASSUME NEW r \in Reqs, req[r] \in {"pending", "suspended"},
               \/ results' = results
               \/ \E o \in Outcomes : StoreResult(r, o)
        PROVE  ResultKept
    <3>1. results[ReqId[r]] = NoResult
      BY <2>1, UnfinishedNotStored
    <3>2. QED
      BY <2>1, <3>1 DEF ResultKept, StoreResult, IInv, TypeOK
  <2>2. ASSUME NEW r \in Reqs, RequestToolExecution(r) PROVE ResultKept
    <3>1. \/ results' = results
          \/ \E o \in Outcomes : StoreResult(r, o)
      BY <2>2 DEF RequestToolExecution, ResolveInline, Outcomes
    <3>2. QED
      BY <2>1, <2>2, <3>1 DEF RequestToolExecution
  <2>3. ASSUME NEW r \in Reqs, HandlerReturns(r) PROVE ResultKept
    <3>1. \E o \in Outcomes : StoreResult(r, o)
      BY <2>3 DEF HandlerReturns, Outcomes
    <3>2. QED
      BY <2>1, <2>3, <3>1 DEF HandlerReturns
  <2>4. ASSUME NEW c \in Cons, Consume(c) PROVE ResultKept
    BY <2>4 DEF Consume, ResultKept, IInv, TypeOK
  <2>5. ASSUME NEW c \in Cons, GetToolResult(c) PROVE ResultKept
    <3>1. CASE UNCHANGED results
      BY <3>1 DEF ResultKept
    <3>2. QED
      BY <2>4, <2>5, <3>1 DEF GetToolResult
  <2>6. ASSUME NEW c \in Cons, ResumeGetToolResult(c) PROVE ResultKept
    BY <2>4, <2>6 DEF ResumeGetToolResult
  <2>7. QED
    BY <2>2, <2>3, <2>5, <2>6 DEF Next
<1>2. QED
  BY IInvariant, <1>1, PTL DEF Spec
-----------------------------------------------------------------------------
(* A set whose elements are all equal has at most one element.            *)
LEMMA AtMostOneElement ==
  ASSUME NEW S, \A x, y \in S : x = y
  PROVE  Cardinality(S) <= 1
<1>1. CASE S = {}
  BY <1>1, FS_EmptySet
<1>2. CASE S # {}
  <2>1. PICK x \in S : TRUE
    BY <1>2
  <2>2. S = {x}
    BY <2>1
  <2>3. QED
    BY <2>2, FS_Singleton
<1>3. QED
  BY <1>1, <1>2

(* The state right after init_claude_receiver satisfies DInv.            *)
LEMMA InitDInv == Init => DInv
BY ConstantsAssumption
DEF Init, DInv, TypeOK, DeliveredResolved, StoredUndelivered, DeliveredOnce,
    NoEvent, NoResult, Unanswered, NotFound, Results, Reqs, Cons

(* A request whose handler has not finished has no result returned.       *)
LEMMA UnfinishedUndelivered ==
  ASSUME TypeOK, DeliveredResolved, NEW r \in Reqs,
         req[r] \in {"pending", "suspended"}
  PROVE  \A c \in Cons : returned[c].req # r
<1> SUFFICES ASSUME NEW c \in Cons PROVE returned[c].req # r
  OBVIOUS
<1>1. CASE returned[c] \in Results
  BY <1>1 DEF DeliveredResolved
<1>2. CASE returned[c] \in {NotFound, Unanswered}
  BY <1>2 DEF NotFound, Unanswered, Reqs
<1>3. QED
  BY <1>1, <1>2 DEF TypeOK

(* Lines 197-227: an unfinished request r stores its result under its id  *)
(* and finishes; no update answers in that step.                          *)
LEMMA StoreStep ==
  ASSUME DInv, TypeOK', NEW r \in Reqs, req[r] \in {"pending", "suspended"},
         NEW x \in {"done", "crashed"}, req' = [req EXCEPT ![r] = x],
         NEW o \in Outcomes, StoreResult(r, o), UNCHANGED returned
  PROVE  DInv'
<1> USE ConstantsAssumption
<1>1. \A c \in Cons : returned[c].req # r
  BY UnfinishedUndelivered DEF DInv
<1>2. DeliveredResolved'
  BY DEF DInv, TypeOK, DeliveredResolved
<1>3. StoredUndelivered'
  <2> SUFFICES ASSUME NEW i \in Ids, results'[i] # NoResult
               PROVE  /\ results'[i].req \in Reqs
                      /\ ReqId[results'[i].req] = i
                      /\ req'[results'[i].req] \in {"done", "crashed"}
                      /\ \A c \in Cons : returned'[c].req # results'[i].req
    BY DEF StoredUndelivered
  <2>1. CASE i = ReqId[r]
    BY <1>1, <2>1 DEF StoreResult, DInv, TypeOK
  <2>2. CASE i # ReqId[r]
    BY <2>2 DEF StoreResult, DInv, TypeOK, StoredUndelivered
  <2>3. QED
    BY <2>1, <2>2
<1>4. DeliveredOnce'
  BY DEF DInv, DeliveredOnce
<1>5. QED
  BY <1>2, <1>3, <1>4 DEF DInv

(* Lines 249-260: the pop hands the stored result, if any, to update c    *)
(* and removes it.                                                         *)
LEMMA ConsumeStep ==
  ASSUME DInv, TypeOK', NEW c \in Cons, Consume(c)
  PROVE  DInv'
<1> USE ConstantsAssumption
<1> DEFINE id == ConId[c]
<1>0. /\ id \in Ids
      /\ results' = [results EXCEPT ![id] = NoResult]
      /\ req' = req
      /\ returned' = [returned EXCEPT ![c] =
                        IF results[id] = NoResult THEN NotFound ELSE results[id]]
  BY DEF Consume
<1>a. /\ returned'[c] \in Results => /\ results[id] # NoResult
                                      /\ returned'[c] = results[id]
      /\ \A d \in Cons \ {c} : returned'[d] = returned[d]
  BY <1>0 DEF DInv, TypeOK, Results, NotFound, NoResult, Reqs
<1>1. DeliveredResolved'
  <2> SUFFICES ASSUME NEW d \in Cons, returned'[d] \in Results
               PROVE  req'[returned'[d].req] \in {"done", "crashed"}
    BY DEF DeliveredResolved
  <2>1. CASE d = c
    BY <1>0, <1>a, <2>1 DEF DInv, StoredUndelivered
  <2>2. CASE d # c
    BY <1>0, <1>a, <2>2 DEF DInv, DeliveredResolved
  <2>3. QED
    BY <2>1, <2>2
<1>2. StoredUndelivered'
  <2> SUFFICES ASSUME NEW i \in Ids, results'[i] # NoResult
               PROVE  /\ results'[i].req \in Reqs
                      /\ ReqId[results'[i].req] = i
                      /\ req'[results'[i].req] \in {"done", "crashed"}
                      /\ \A d \in Cons : returned'[d].req # results'[i].req
    BY DEF StoredUndelivered
  <2>1. i # id /\ results'[i] = results[i]
    BY <1>0 DEF DInv, TypeOK
  <2>2. results[id] # NoResult => results[id].req # results[i].req
    BY <2>1 DEF DInv, StoredUndelivered
  <2>3. QED
    BY <1>0, <2>1, <2>2 DEF DInv, TypeOK, StoredUndelivered, NotFound, Reqs
<1>3. DeliveredOnce'
  <2> SUFFICES ASSUME NEW d1 \in Cons, NEW d2 \in Cons, d1 # d2,
                      returned'[d1] \in Results
               PROVE  returned'[d2].req # returned'[d1].req
    BY DEF DeliveredOnce
  <2>1. CASE d1 = c
    BY <1>0, <1>a, <2>1 DEF DInv, StoredUndelivered
  <2>2. CASE d2 = c
    <3>1. returned[d1] \in Results /\ returned'[d1] = returned[d1]
      BY <1>a, <2>2
    <3>2. CASE results[id] = NoResult
      BY <1>0, <2>2, <3>1, <3>2 DEF DInv, TypeOK, NotFound, Results, Reqs
    <3>3. CASE results[id] # NoResult
      BY <1>0, <2>2, <3>1, <3>3 DEF DInv, TypeOK, StoredUndelivered
    <3>4. QED
      BY <3>2, <3>3
  <2>3. CASE d1 # c /\ d2 # c
    BY <1>a, <2>3 DEF DInv, DeliveredOnce
  <2>4. QED
    BY <2>1, <2>2, <2>3
<1>4. QED
  BY <1>1, <1>2, <1>3 DEF DInv

(* Whatever tool_ids the session sends, every step preserves DInv.        *)
LEMMA DInvStep == ASSUME DInv, [Next]_vars PROVE DInv'
<1> USE ConstantsAssumption
<1>0. TypeOK'
  BY TypeStep DEF DInv
<1>1. ASSUME NEW r \in Reqs, RequestToolExecution(r) PROVE DInv'
  <2>1. req[r] \in {"pending", "suspended"} /\ UNCHANGED returned
    BY <1>1 DEF RequestToolExecution
  <2>2. CASE \E o \in Outcomes : ResolveInline(r, o)
    BY <1>0, <2>1, <2>2, StoreStep DEF ResolveInline
  <2>3. CASE req' = [req EXCEPT ![r] = "suspended"] /\ UNCHANGED results
    BY <1>0, <2>1, <2>3 DEF DInv, TypeOK, DeliveredResolved,
       StoredUndelivered, DeliveredOnce
  <2>4. QED
    BY <1>1, <2>2, <2>3 DEF RequestToolExecution, Outcomes
<1>2. ASSUME NEW r \in Reqs, HandlerReturns(r) PROVE DInv'
  <2>1. PICK o \in HandlerOutcomes : StoreResult(r, o)
    BY <1>2 DEF HandlerReturns
  <2>2. \E x \in {"done", "crashed"} : req' = [req EXCEPT ![r] = x]
    BY <1>2 DEF HandlerReturns
  <2>3. QED
    BY <1>0, <1>2, <2>1, <2>2, StoreStep DEF HandlerReturns, Outcomes
<1>4. ASSUME NEW c \in Cons, GetToolResult(c) PROVE DInv'
  <2>1. CASE Consume(c)
    BY <1>0, <2>1, ConsumeStep
  <2>2. CASE UNCHANGED <<req, results, returned>>
    BY <1>0, <2>2 DEF DInv, DeliveredResolved, StoredUndelivered, DeliveredOnce
  <2>3. QED
    BY <1>4, <2>1, <2>2 DEF GetToolResult
<1>5. ASSUME NEW c \in Cons, ResumeGetToolResult(c) PROVE DInv'
  BY <1>0, <1>5, ConsumeStep DEF ResumeGetToolResult
<1>6. CASE UNCHANGED vars
  BY <1>0, <1>6 DEF vars, DInv, DeliveredResolved, StoredUndelivered,
     DeliveredOnce
<1>7. QED
  BY <1>1, <1>2, <1>4, <1>5, <1>6 DEF Next

(* DInv holds in every reachable state, for every choice of tool_ids.     *)
LEMMA DInvariant == Spec => []DInv
<1>1. DInv /\ [Next]_vars => DInv'
  BY DInvStep
<1>2. QED
  BY InitDInv, <1>1, PTL DEF Spec

(* Even when the session activity reuses a tool_id or retries an update,  *)
(* no ToolResult is returned by two get_tool_result updates: the pop at   *)
(* line 249 hands a stored result to one update and removes it, and a      *)
(* request stores its result only once, when its handler finishes.         *)
LEMMA DInvAtMostOnce == DInv => AtMostOnce
<1> SUFFICES ASSUME DInv, NEW r \in Reqs PROVE Cardinality(Deliveries(r)) <= 1
  BY DEF AtMostOnce
<1>1. \A c, d \in Deliveries(r) : c = d
  BY ConstantsAssumption DEF DInv, TypeOK, DeliveredOnce, Deliveries, Results,
     NotFound, Unanswered, Reqs
<1>2. QED
  BY <1>1, AtMostOneElement

THEOREM AtMostOnceAlways == Spec => []AtMostOnce
BY DInvAtMostOnce, DInvariant, PTL

-----------------------------------------------------------------------------
(* The invariant behind exactly-once delivery with unique ids.            *)
XInv == IInv /\ UnansweredUntilDone /\ ResolvedDelivered

(* The pop of update c, which has not returned before, keeps every        *)
(* resolved result either stored or returned: a result it removes is the  *)
(* one it returns.                                                         *)
LEMMA ConsumeDelivers ==
  ASSUME TypeOK, UnansweredUntilDone, ResolvedDelivered, NEW c \in Cons,
         con[c] # "done", Consume(c)
  PROVE  ResolvedDelivered'
<1> USE ConstantsAssumption
<1> DEFINE id == ConId[c]
<1>0. /\ id \in Ids
      /\ results' = [results EXCEPT ![id] = NoResult]
      /\ req' = req
      /\ returned' = [returned EXCEPT ![c] =
                        IF results[id] = NoResult THEN NotFound ELSE results[id]]
  BY DEF Consume
<1> SUFFICES ASSUME NEW q \in Reqs, req'[q] = "done", ~Stored(q)'
             PROVE  \E d \in Cons : returned'[d].req = q
  BY DEF ResolvedDelivered
<1>1. CASE Stored(q) /\ ReqId[q] = id
  <2>1. results[id].req = q /\ results[id] # NoResult
    BY <1>1 DEF Stored, NoResult, Reqs
  <2>2. returned'[c].req = q
    BY <1>0, <2>1 DEF TypeOK
  <2>3. QED
    BY <2>2
<1>2. CASE Stored(q) /\ ReqId[q] # id
  BY <1>0, <1>2 DEF Stored, TypeOK
<1>3. CASE ~Stored(q)
  <2>1. PICK d \in Cons : returned[d].req = q
    BY <1>0, <1>3 DEF ResolvedDelivered
  <2>2. d # c
    BY <2>1 DEF UnansweredUntilDone, Unanswered, Reqs
  <2>3. QED
    BY <1>0, <2>1, <2>2 DEF TypeOK
<1>4. QED
  BY <1>1, <1>2, <1>3

(* With unique ids every step preserves XInv.                             *)
LEMMA XInvStep == ASSUME UniqueIds, XInv, [Next]_vars PROVE XInv'
<1> USE ConstantsAssumption
<1>0. IInv' /\ TypeOK'
  BY IInvStep DEF XInv, IInv
<1>1. ASSUME NEW r \in Reqs, RequestToolExecution(r)
      PROVE  UnansweredUntilDone' /\ ResolvedDelivered'
  <2>1. UNCHANGED <<con, returned>>
    BY <1>1 DEF RequestToolExecution
  <2>2. \A q \in Reqs \ {r} : req'[q] = req[q] /\ results'[ReqId[q]] = results[ReqId[q]]
    BY <1>1 DEF RequestToolExecution, ResolveInline, StoreResult, UniqueIds,
       XInv, IInv, TypeOK
  <2>3. req'[r] = "done" => Stored(r)'
    BY <1>1 DEF RequestToolExecution, ResolveInline, StoreResult, Stored,
       XInv, IInv, TypeOK
  <2>4. QED
    BY <2>1, <2>2, <2>3 DEF XInv, UnansweredUntilDone, ResolvedDelivered, Stored
<1>2. ASSUME NEW r \in Reqs, HandlerReturns(r)
      PROVE  UnansweredUntilDone' /\ ResolvedDelivered'
  <2>1. UNCHANGED <<con, returned>>
    BY <1>2 DEF HandlerReturns
  <2>2. \A q \in Reqs \ {r} : req'[q] = req[q] /\ results'[ReqId[q]] = results[ReqId[q]]
    BY <1>2 DEF HandlerReturns, StoreResult, UniqueIds, XInv, IInv, TypeOK
  <2>3. Stored(r)'
    BY <1>2 DEF HandlerReturns, StoreResult, Stored, XInv, IInv, TypeOK
  <2>4. QED
    BY <2>1, <2>2, <2>3 DEF XInv, UnansweredUntilDone, ResolvedDelivered, Stored
<1>3. ASSUME NEW c \in Cons, Consume(c), con[c] # "done"
      PROVE  UnansweredUntilDone' /\ ResolvedDelivered'
  <2>1. UnansweredUntilDone'
    BY <1>3 DEF Consume, XInv, UnansweredUntilDone, TypeOK, IInv
  <2>2. ResolvedDelivered'
    BY <1>3, ConsumeDelivers DEF XInv, IInv
  <2>3. QED
    BY <2>1, <2>2
<1>4. ASSUME NEW c \in Cons, GetToolResult(c)
      PROVE  UnansweredUntilDone' /\ ResolvedDelivered'
  <2>0. con[c] = "pending"
    BY <1>4 DEF GetToolResult
  <2>1. CASE Consume(c)
    BY <1>3, <2>0, <2>1
  <2>2. CASE con' = [con EXCEPT ![c] = "waiting"]
             /\ UNCHANGED <<req, results, returned>>
    BY <2>0, <2>2 DEF XInv, IInv, TypeOK, UnansweredUntilDone, ResolvedDelivered,
       Stored
  <2>3. QED
    BY <1>4, <2>1, <2>2 DEF GetToolResult
<1>5. ASSUME NEW c \in Cons, ResumeGetToolResult(c)
      PROVE  UnansweredUntilDone' /\ ResolvedDelivered'
  BY <1>3, <1>5 DEF ResumeGetToolResult
<1>6. CASE UNCHANGED vars
  BY <1>0, <1>6 DEF vars, XInv, UnansweredUntilDone, ResolvedDelivered, Stored
<1>7. QED
  BY <1>0, <1>1, <1>2, <1>4, <1>5, <1>6 DEF Next, XInv

(* With unique ids XInv holds in every reachable state.                   *)
LEMMA XInvariant == UniqueIds => (Spec => []XInv)
<1> SUFFICES ASSUME UniqueIds PROVE Spec => []XInv
  OBVIOUS
<1>1. Init => XInv
  BY InitIInv, ConstantsAssumption
  DEF Init, XInv, UnansweredUntilDone, ResolvedDelivered, Stored, NoResult,
      Reqs
<1>2. XInv /\ [Next]_vars => XInv'
  BY XInvStep
<1>3. QED
  BY <1>1, <1>2, PTL DEF Spec

(* DInv and XInv together give exactly-once delivery.                     *)
LEMMA InvExactlyOnce == DInv /\ XInv => ExactlyOnce
<1> SUFFICES ASSUME DInv, XInv, NEW r \in Reqs, req[r] = "done"
             PROVE  IF Stored(r) THEN Deliveries(r) = {}
                    ELSE Cardinality(Deliveries(r)) = 1
  BY DEF ExactlyOnce
<1> USE ConstantsAssumption
<1>1. \A c, d \in Deliveries(r) : c = d
  BY DEF DInv, TypeOK, DeliveredOnce, Deliveries, Results, NotFound,
     Unanswered, Reqs
<1>2. CASE Stored(r)
  <2>1. results[ReqId[r]] # NoResult /\ results[ReqId[r]].req = r
    BY <1>2 DEF Stored, NoResult, Reqs
  <2>2. Deliveries(r) = {}
    BY <2>1 DEF DInv, StoredUndelivered, Deliveries
  <2>3. QED
    BY <1>2, <2>2
<1>3. CASE ~Stored(r)
  <2>1. PICK c \in Cons : returned[c].req = r
    BY <1>3 DEF XInv, ResolvedDelivered
  <2>2. Deliveries(r) = {c}
    BY <1>1, <2>1 DEF Deliveries
  <2>3. QED
    BY <1>3, <2>2, FS_Singleton
<1>4. QED
  BY <1>2, <1>3

(* With unique tool_ids the ToolResult of every finished request is       *)
(* handed off exactly once: it is still stored in _tool_results and no    *)
(* get_tool_result has returned it, or exactly one get_tool_result has     *)
(* returned it and it is gone.  Nothing overwrites it at line 226 and no   *)
(* second update pops it at line 249.                                     *)
THEOREM ExactlyOnceWithUniqueIds == UniqueIds => (Spec => []ExactlyOnce)
<1> SUFFICES ASSUME UniqueIds PROVE Spec => []ExactlyOnce
  OBVIOUS
<1>1. QED
  BY InvExactlyOnce, DInvariant, XInvariant, PTL

-----------------------------------------------------------------------------
(* The invariant behind "Tool result not found" being explained.          *)
ZInv == XInv /\ DeliveredOwnId /\ ResultNotLost

(* The initial state satisfies ZInv.                                      *)
LEMMA InitZInv == Init => ZInv
<1> SUFFICES ASSUME Init PROVE ZInv
  OBVIOUS
<1> USE ConstantsAssumption
<1>1. IInv
  BY InitIInv
<1>2. XInv
  BY <1>1 DEF Init, XInv, UnansweredUntilDone, ResolvedDelivered, Stored,
     NoResult, Reqs
<1>3. DeliveredOwnId /\ ResultNotLost
  BY DEF Init, DeliveredOwnId, ResultNotLost, Unanswered, NotFound, Results,
     Reqs
<1>4. QED
  BY <1>2, <1>3 DEF ZInv

(* An update that has not returned, for an id whose request has resolved  *)
(* and whose result is no longer stored: another update for the same id   *)
(* has returned that result.                                               *)
LEMMA ResolvedAnswered ==
  ASSUME XInv, DeliveredOwnId, NEW c \in Cons, con[c] # "done",
         NEW r \in Reqs, ReqId[r] = ConId[c], req[r] = "done",
         results[ConId[c]] = NoResult
  PROVE  \E d \in Cons \ {c} : ConId[d] = ConId[c] /\ returned[d] \in Results
<1> USE ConstantsAssumption
<1>1. ~Stored(r)
  BY DEF Stored, NoResult, Reqs
<1>2. PICK d \in Cons : returned[d].req = r
  BY <1>1 DEF XInv, ResolvedDelivered
<1>3. returned[d] \in Results
  BY <1>2 DEF XInv, IInv, TypeOK, NotFound, Unanswered, Reqs
<1>4. d # c
  BY <1>2 DEF XInv, UnansweredUntilDone, Unanswered, Reqs
<1>5. ConId[d] = ConId[c]
  BY <1>2, <1>3 DEF DeliveredOwnId
<1>6. QED
  BY <1>3, <1>4, <1>5

(* The pop of an update keeps the answer of every update in its own id.   *)
LEMMA ConsumeOwnId ==
  ASSUME IInv, DeliveredOwnId, NEW c \in Cons, Consume(c)
  PROVE  DeliveredOwnId'
<1> USE ConstantsAssumption
<1>1. returned' = [returned EXCEPT ![c] = IF results[ConId[c]] = NoResult
                                         THEN NotFound ELSE results[ConId[c]]]
  BY DEF Consume
<1>2. CASE results[ConId[c]] = NoResult
  BY <1>1, <1>2 DEF DeliveredOwnId, IInv, TypeOK, NotFound, Results, Reqs
<1>3. CASE results[ConId[c]] # NoResult
  BY <1>1, <1>3 DEF DeliveredOwnId, IInv, ResultsOwned, TypeOK
<1>4. QED
  BY <1>2, <1>3

(* The pop of update c keeps every "Tool result not found" explained,     *)
(* provided the answer it gives itself is explained.                      *)
LEMMA ConsumeNotLost ==
  ASSUME TypeOK, UnansweredUntilDone, ResultNotLost, NEW c \in Cons,
         con[c] # "done", Consume(c),
         \A e \in Cons \ {c} : early'[e] = early[e],
         results[ConId[c]] = NoResult =>
           \/ early'[c]
           \/ \E d \in Cons \ {c} : ConId[d] = ConId[c] /\ returned[d] \in Results
  PROVE  ResultNotLost'
<1> USE ConstantsAssumption
<1>0. returned' = [returned EXCEPT ![c] = IF results[ConId[c]] = NoResult
                                         THEN NotFound ELSE results[ConId[c]]]
  BY DEF Consume
<1>1. \A d \in Cons \ {c} : returned'[d] = returned[d]
  BY <1>0 DEF TypeOK
<1>2. returned[c] \notin Results
  BY DEF UnansweredUntilDone, Unanswered, Results, Reqs
<1> SUFFICES ASSUME NEW e \in Cons, returned'[e] = NotFound
             PROVE  \/ early'[e]
                    \/ \E d \in Cons \ {e} : ConId[d] = ConId[e] /\ returned'[d] \in Results
  BY DEF ResultNotLost
<1>3. CASE e = c
  <2>1. results[ConId[c]] = NoResult
    BY <1>0, <1>3 DEF TypeOK, NotFound, Results, Reqs
  <2>2. QED
    BY <1>1, <1>3, <2>1, Zenon
<1>4. CASE e # c
  <2>1. returned[e] = NotFound
    BY <1>1, <1>4
  <2>2. early[e] \/ \E d \in Cons \ {e} : ConId[d] = ConId[e] /\ returned[d] \in Results
    BY <2>1, Zenon DEF ResultNotLost
  <2>3. QED
    BY <1>1, <1>2, <1>4, <2>2, Zenon
<1>5. QED
  BY <1>3, <1>4

(* With unique ids every step preserves ZInv.                             *)
LEMMA ZInvStep == ASSUME UniqueIds, ZInv, [Next]_vars PROVE ZInv'
<1> USE ConstantsAssumption
<1>0. XInv'
  BY XInvStep DEF ZInv
<1>1. ASSUME NEW r \in Reqs, RequestToolExecution(r) \/ HandlerReturns(r)
      PROVE  DeliveredOwnId' /\ ResultNotLost'
  <2>1. UNCHANGED <<returned, early>>
    BY <1>1 DEF RequestToolExecution, HandlerReturns
  <2>2. QED
    BY <2>1, Zenon DEF ZInv, DeliveredOwnId, ResultNotLost
<1>2. ASSUME NEW c \in Cons, GetToolResult(c)
      PROVE  DeliveredOwnId' /\ ResultNotLost'
  <2> DEFINE id == ConId[c]
  <2>0. /\ con[c] = "pending"
        /\ early' = [early EXCEPT ![c] = \A r \in Reqs : ReqId[r] = id => req[r] = "pending"]
    BY <1>2, Zenon DEF GetToolResult
  <2>1. \A e \in Cons \ {c} : early'[e] = early[e]
    BY <2>0 DEF ZInv, XInv, IInv, TypeOK
  <2>2. returned[c] = Unanswered
    BY <2>0 DEF ZInv, XInv, UnansweredUntilDone
  <2>3. CASE UNCHANGED returned
    <3>1. DeliveredOwnId'
      BY <2>3 DEF ZInv, DeliveredOwnId
    <3>0. Unanswered # NotFound
      BY DEF Unanswered, NotFound
    <3>2. ResultNotLost'
      BY <2>1, <2>2, <2>3, <3>0, Zenon DEF ZInv, ResultNotLost
    <3>3. QED
      BY <3>1, <3>2
  <2>4. CASE (events[id] = NoEvent \/ events[id] \in setEvts) /\ Consume(c)
    <3>1. DeliveredOwnId'
      BY <2>4, ConsumeOwnId DEF ZInv, XInv
    <3>2. results[id] = NoResult =>
            \/ early'[c]
            \/ \E d \in Cons \ {c} : ConId[d] = id /\ returned[d] \in Results
      <4> SUFFICES ASSUME results[id] = NoResult, ~early'[c]
                   PROVE  \E d \in Cons \ {c} : ConId[d] = id /\ returned[d] \in Results
        BY Zenon
      <4>1. early'[c] = \A r \in Reqs : ReqId[r] = id => req[r] = "pending"
        BY <2>0 DEF ZInv, XInv, IInv, TypeOK
      <4>2. PICK r \in Reqs : ReqId[r] = id /\ req[r] # "pending"
        BY <4>1, Zenon
      <4>3. req[r] # "suspended"
        BY <2>4, <4>2 DEF ZInv, XInv, IInv, SuspendedOwnsEvent, NoEvent, Reqs
      <4>4. req[r] = "done"
        BY <4>2, <4>3 DEF ZInv, XInv, IInv, TypeOK, NoSignalHandlerCrash
      <4>5. QED
        BY <2>0, <4>2, <4>4, ResolvedAnswered DEF ZInv
    <3>3. ResultNotLost'
      BY <2>0, <2>1, <2>4, <3>2, ConsumeNotLost DEF ZInv, XInv, IInv
    <3>4. QED
      BY <3>1, <3>3
  <2>5. QED
    BY <1>2, <2>3, <2>4 DEF GetToolResult
<1>3. ASSUME NEW c \in Cons, ResumeGetToolResult(c)
      PROVE  DeliveredOwnId' /\ ResultNotLost'
  <2>0. /\ con[c] = "waiting" /\ conEvt[c] \in setEvts
        /\ Consume(c) /\ early' = early
    BY <1>3 DEF ResumeGetToolResult
  <2>1. DeliveredOwnId'
    BY <2>0, ConsumeOwnId DEF ZInv, XInv
  <2>2. results[ConId[c]] = NoResult =>
          \E d \in Cons \ {c} : ConId[d] = ConId[c] /\ returned[d] \in Results
    <3> SUFFICES ASSUME results[ConId[c]] = NoResult
                 PROVE  \E d \in Cons \ {c} : ConId[d] = ConId[c] /\ returned[d] \in Results
      OBVIOUS
    <3>1. conEvt[c] \in Reqs /\ ReqId[conEvt[c]] = ConId[c] /\ req[conEvt[c]] = "done"
      BY <2>0 DEF ZInv, XInv, IInv, WaitersOnOwnId, SetMeansDone
    <3>2. QED
      BY <2>0, <3>1, ResolvedAnswered DEF ZInv
  <2>3. ResultNotLost'
    BY <2>0, <2>2, ConsumeNotLost DEF ZInv, XInv, IInv
  <2>4. QED
    BY <2>1, <2>3
<1>4. ASSUME UNCHANGED vars PROVE DeliveredOwnId' /\ ResultNotLost'
  BY <1>4, Zenon DEF vars, ZInv, DeliveredOwnId, ResultNotLost
<1>5. QED
  BY <1>0, <1>1, <1>2, <1>3, <1>4 DEF Next, ZInv

(* With unique tool_ids, get_tool_result answers "Tool result not found"  *)
(* (line 259) only when it began before any request for its id was        *)
(* delivered, or when another update for the same id has returned the     *)
(* result: the pop at line 249 never misses a stored result, and          *)
(* deleting the Event at lines 250-251 never strands one.                 *)
THEOREM NotLostWithUniqueIds == UniqueIds => (Spec => []ResultNotLost)
<1> SUFFICES ASSUME UniqueIds PROVE Spec => []ResultNotLost
  OBVIOUS
<1>1. ZInv /\ [Next]_vars => ZInv'
  BY ZInvStep
<1>2. QED
  BY InitZInv, <1>1, PTL DEF Spec, ZInv

-----------------------------------------------------------------------------
(* The abstract rendezvous states and outcomes under the mapping.         *)
AbsRz == [q \in Reqs |-> RzState(q)]
AbsOut == [q \in Reqs |-> OutOf(q)]

(* A request whose task and whose key in _tool_results a step leaves      *)
(* alone keeps its abstract state and outcome.                            *)
LEMMA RzFrame ==
  ASSUME NEW q \in Reqs, req'[q] = req[q], results'[ReqId[q]] = results[ReqId[q]]
  PROVE  RzState(q)' = RzState(q) /\ OutOf(q)' = OutOf(q)
BY DEF RzState, OutOf, Stored

(* With unique ids, a step that changes _tool_results only under the key  *)
(* of request r and the task of no request but r leaves every other       *)
(* request's abstract state and outcome alone.                            *)
LEMMA OthersFrame ==
  ASSUME UniqueIds, TypeOK, NEW r \in Reqs,
         \E v : results' = [results EXCEPT ![ReqId[r]] = v],
         \A q \in Reqs \ {r} : req'[q] = req[q]
  PROVE  \A q \in Reqs \ {r} : RzState(q)' = RzState(q) /\ OutOf(q)' = OutOf(q)
<1> SUFFICES ASSUME NEW q \in Reqs \ {r}
             PROVE  RzState(q)' = RzState(q) /\ OutOf(q)' = OutOf(q)
  OBVIOUS
<1>1. results'[ReqId[q]] = results[ReqId[q]]
  BY ConstantsAssumption DEF UniqueIds, TypeOK
<1>2. QED
  BY <1>1, RzFrame

(* request r is resolved with outcome o by a step that stores its result  *)
(* and marks its task done: abstractly, Resolve or Accept resolving r.    *)
LEMMA ResolveMapped ==
  ASSUME UniqueIds, TypeOK, NEW r \in Reqs, NEW o \in Outcomes,
         results' = [results EXCEPT ![ReqId[r]] = [req |-> r, outcome |-> o]],
         req' = [req EXCEPT ![r] = "done"]
  PROVE  /\ AbsRz' = [AbsRz EXCEPT ![r] = "resolved"]
         /\ AbsOut' = [AbsOut EXCEPT ![r] = o]
<1> USE ConstantsAssumption
<1>1. \A q \in Reqs \ {r} : RzState(q)' = RzState(q) /\ OutOf(q)' = OutOf(q)
  <2>1. \A q \in Reqs \ {r} : req'[q] = req[q]
    BY DEF TypeOK
  <2>2. \E v : results' = [results EXCEPT ![ReqId[r]] = v]
    OBVIOUS
  <2>3. QED
    BY <2>1, <2>2, OthersFrame
<1>2. RzState(r)' = "resolved" /\ OutOf(r)' = o
  <2>1. req'[r] = "done" /\ results'[ReqId[r]] = [req |-> r, outcome |-> o]
    BY DEF TypeOK
  <2>2. QED
    BY <2>1 DEF RzState, OutOf, Stored
<1>3. QED
  BY <1>1, <1>2 DEF AbsRz, AbsOut

(* Lines 249-260 under the mapping: the pop hands over the result of the  *)
(* one resolved request for the id and consumes it, or answers "not       *)
(* found" and changes nothing when no request for the id is resolved.     *)
LEMMA ConsumeMapped ==
  ASSUME UniqueIds, IInv, NEW c \in Cons, Consume(c)
  PROVE  \/ \E r \in Reqs :
              /\ ReqId[r] = ConId[c]
              /\ AbsRz[r] = "resolved"
              /\ returned' = [returned EXCEPT ![c] =
                                [req |-> r, outcome |-> AbsOut[r]]]
              /\ AbsRz' = [AbsRz EXCEPT ![r] = "consumed"]
              /\ AbsOut' = [AbsOut EXCEPT ![r] = "none"]
         \/ /\ \A r \in Reqs : ReqId[r] = ConId[c] => AbsRz[r] # "resolved"
            /\ returned' = [returned EXCEPT ![c] = NotFound]
            /\ AbsRz' = AbsRz
            /\ AbsOut' = AbsOut
<1> USE ConstantsAssumption
<1> DEFINE id == ConId[c]
<1>0. /\ id \in Ids
      /\ results' = [results EXCEPT ![id] = NoResult]
      /\ req' = req
      /\ returned' = [returned EXCEPT ![c] =
                        IF results[id] = NoResult THEN NotFound ELSE results[id]]
  BY DEF Consume
<1>1. CASE results[id] = NoResult
  <2>1. results' = results
    BY <1>0, <1>1 DEF IInv, TypeOK
  <2>2. \A q \in Reqs : RzState(q)' = RzState(q) /\ OutOf(q)' = OutOf(q)
    BY <1>0, <2>1, RzFrame
  <2>3. \A r \in Reqs : ReqId[r] = id => RzState(r) # "resolved"
    BY <1>1 DEF RzState, Stored, NoResult, Reqs
  <2>4. QED
    BY <1>0, <1>1, <2>2, <2>3 DEF AbsRz, AbsOut
<1>2. CASE results[id] # NoResult
  <2>1. PICK r0 \in Reqs : r0 = results[id].req /\ ReqId[r0] = id /\ req[r0] = "done"
    BY <1>0, <1>2 DEF IInv, ResultsOwned
  <2>2. results[id] = [req |-> r0, outcome |-> results[id].outcome]
    <3>1. results[id] \in Results
      BY <1>0, <1>2 DEF IInv, TypeOK
    <3>2. QED
      BY <2>1, <3>1 DEF Results
  <2>3. RzState(r0) = "resolved" /\ OutOf(r0) = results[id].outcome
    BY <2>1 DEF RzState, OutOf, Stored
  <2>4. RzState(r0)' = "consumed" /\ OutOf(r0)' = "none"
    <3>1. results'[id] = NoResult
      BY <1>0 DEF IInv, TypeOK
    <3>2. QED
      BY <1>0, <2>1, <3>1 DEF RzState, OutOf, Stored, NoResult, Reqs
  <2>5. \A q \in Reqs \ {r0} : RzState(q)' = RzState(q) /\ OutOf(q)' = OutOf(q)
    <3>1. \E v : results' = [results EXCEPT ![ReqId[r0]] = v]
      BY <1>0, <2>1
    <3>2. QED
      BY <1>0, <2>1, <3>1, OthersFrame DEF IInv
  <2>6. returned' = [returned EXCEPT ![c] = [req |-> r0, outcome |-> OutOf(r0)]]
    BY <1>0, <1>2, <2>2, <2>3
  <2>7. QED
    BY <2>1, <2>3, <2>4, <2>5, <2>6 DEF AbsRz, AbsOut
<1>3. QED
  BY <1>1, <1>2

(* With unique ids every step of the coordinator is a step of the          *)
(* abstract rendezvous or leaves its variables unchanged.                  *)
LEMMA RefineStep ==
  ASSUME UniqueIds, IInv, [Next]_vars
  PROVE  [RZ!Next]_RZ!avars
<1> USE ConstantsAssumption
<1>1. ASSUME NEW r \in Reqs, RequestToolExecution(r) PROVE RZ!Accept(r)
  <2>1. AbsRz[r] = "idle" /\ UNCHANGED <<con, returned>>
    BY <1>1 DEF RequestToolExecution, AbsRz, RzState
  <2>2. CASE ~HasHandler(ReqTool[r]) /\ ResolveInline(r, "no_handler")
    <3>1. AbsRz' = [AbsRz EXCEPT ![r] = "resolved"]
          /\ AbsOut' = [AbsOut EXCEPT ![r] = "no_handler"]
      BY <2>2, ResolveMapped DEF IInv, ResolveInline, StoreResult, Outcomes
    <3>2. QED
      BY <2>1, <2>2, <3>1 DEF RZ!Accept, RZ!ResolveAs, AbsRz, AbsOut, HasHandler
  <2>3. CASE HasHandler(ReqTool[r]) /\ \E o \in HandlerOutcomes : ResolveInline(r, o)
    <3>1. PICK o \in HandlerOutcomes : ResolveInline(r, o)
      BY <2>3
    <3>2. AbsRz' = [AbsRz EXCEPT ![r] = "resolved"] /\ AbsOut' = [AbsOut EXCEPT ![r] = o]
      BY <3>1, ResolveMapped DEF IInv, ResolveInline, StoreResult, Outcomes
    <3>3. QED
      BY <2>1, <2>3, <3>1, <3>2 DEF RZ!Accept, RZ!ResolveAs, RZ!HandlerOutcomes,
         HandlerOutcomes, AbsRz, AbsOut, HasHandler
  <2>4. CASE HasHandler(ReqTool[r]) /\ req' = [req EXCEPT ![r] = "suspended"]
             /\ UNCHANGED results
    <3>1. \A q \in Reqs : q # r => RzState(q)' = RzState(q) /\ OutOf(q)' = OutOf(q)
      BY <2>4, RzFrame DEF IInv, TypeOK
    <3>2. RzState(r)' = "dispatching" /\ OutOf(r)' = "none" /\ OutOf(r) = "none"
      BY <1>1, <2>4 DEF RequestToolExecution, IInv, TypeOK, RzState, OutOf
    <3>3. AbsRz' = [AbsRz EXCEPT ![r] = "dispatching"] /\ AbsOut' = AbsOut
      BY <3>1, <3>2 DEF AbsRz, AbsOut
    <3>4. QED
      BY <2>1, <2>4, <3>3 DEF RZ!Accept, AbsRz, AbsOut, HasHandler
  <2>5. QED
    BY <1>1, <2>2, <2>3, <2>4 DEF RequestToolExecution
<1>2. ASSUME NEW r \in Reqs, HandlerReturns(r) PROVE RZ!Resolve(r)
  <2>1. events[ReqId[r]] = r /\ AbsRz[r] = "dispatching"
    BY <1>2 DEF HandlerReturns, IInv, SuspendedOwnsEvent, AbsRz, RzState
  <2>2. req' = [req EXCEPT ![r] = "done"] /\ UNCHANGED <<con, returned>>
    BY <1>2, <2>1 DEF HandlerReturns, NoEvent, Reqs
  <2>3. PICK o \in HandlerOutcomes : StoreResult(r, o)
    BY <1>2 DEF HandlerReturns
  <2>4. AbsRz' = [AbsRz EXCEPT ![r] = "resolved"] /\ AbsOut' = [AbsOut EXCEPT ![r] = o]
    BY <2>2, <2>3, ResolveMapped DEF IInv, StoreResult, Outcomes
  <2>5. QED
    BY <2>1, <2>2, <2>4 DEF RZ!Resolve, RZ!ResolveAs, RZ!HandlerOutcomes,
       HandlerOutcomes, AbsRz, AbsOut
<1>3. ASSUME NEW c \in Cons, GetToolResult(c) PROVE RZ!AwaitResult(c)
  <2> DEFINE id == ConId[c]
  <2>1. con[c] = "pending"
    BY <1>3 DEF GetToolResult
  <2>2. CASE events[id] # NoEvent /\ events[id] \notin setEvts
    <3>1. PICK e \in Reqs : e = events[id]
      BY <2>2 DEF IInv, TypeOK
    <3>2. ReqId[e] = id /\ AbsRz[e] = "dispatching"
      BY <2>2, <3>1 DEF IInv, EventsOwned, DoneIsSet, AbsRz, RzState
    <3>3. /\ con' = [con EXCEPT ![c] = "waiting"]
          /\ UNCHANGED <<req, results, returned>>
      BY <1>3, <2>2 DEF GetToolResult, Consume
    <3>4. AbsRz' = AbsRz /\ AbsOut' = AbsOut
      BY <3>3 DEF AbsRz, AbsOut, RzState, OutOf, Stored
    <3>5. QED
      BY <2>1, <3>2, <3>3, <3>4 DEF RZ!AwaitResult, RZ!ReqsFor, RZ!Reqs, Reqs, AbsRz, AbsOut
  <2>3. CASE events[id] = NoEvent \/ events[id] \in setEvts
    <3>1. Consume(c)
      BY <1>3, <2>3 DEF GetToolResult
    <3>2. \A r \in Reqs : ReqId[r] = id => AbsRz[r] # "dispatching"
      BY <2>3 DEF IInv, SuspendedOwnsEvent, AbsRz, RzState, NoEvent, Reqs
    <3>3. con' = [con EXCEPT ![c] = "done"]
      BY <3>1 DEF Consume
    <3>4. QED
      BY <2>1, <3>1, <3>2, <3>3, ConsumeMapped
      DEF RZ!AwaitResult, RZ!Complete, RZ!ReqsFor, RZ!Reqs, Reqs, RZ!NotFound, RZ!NoOutcome,
          NotFound, AbsRz, AbsOut
  <2>4. QED
    BY <2>2, <2>3
<1>4. ASSUME NEW c \in Cons, ResumeGetToolResult(c) PROVE RZ!Wake(c)
  <2>1. con[c] = "waiting" /\ conEvt[c] \in setEvts /\ Consume(c)
    BY <1>4 DEF ResumeGetToolResult
  <2>2. conEvt[c] \in Reqs /\ ReqId[conEvt[c]] = ConId[c] /\ req[conEvt[c]] = "done"
    BY <2>1 DEF IInv, WaitersOnOwnId, SetMeansDone
  <2>3. \A r \in Reqs : ReqId[r] = ConId[c] => AbsRz[r] # "dispatching"
    BY <2>2 DEF UniqueIds, AbsRz, RzState
  <2>4. con' = [con EXCEPT ![c] = "done"]
    BY <2>1 DEF Consume
  <2>5. QED
    BY <2>1, <2>3, <2>4, ConsumeMapped
    DEF RZ!Wake, RZ!Complete, RZ!ReqsFor, RZ!Reqs, Reqs, RZ!NotFound, RZ!NoOutcome,
        NotFound, AbsRz, AbsOut
<1>5. CASE UNCHANGED vars
  <2>1. AbsRz' = AbsRz /\ AbsOut' = AbsOut
    BY <1>5 DEF vars, AbsRz, AbsOut, RzState, OutOf, Stored
  <2>2. QED
    BY <1>5, <2>1 DEF vars, RZ!avars, AbsRz, AbsOut
<1>6. QED
  BY <1>1, <1>2, <1>3, <1>4, <1>5 DEF Next, RZ!Next, RZ!Reqs, RZ!Cons, Reqs, Cons

(* With unique tool_ids, request_tool_execution and get_tool_result       *)
(* implement the abstract Rendezvous of the spec: every behaviour of the   *)
(* coordinator, mapped through RzState and OutOf, is a behaviour of the    *)
(* per-id state machine (its safety part; the fairness part is checked by  *)
(* TLC in the tool_refines run).                                           *)
THEOREM RefinesRendezvous == UniqueIds => (Spec => ImplementsRendezvous)
<1> SUFFICES ASSUME UniqueIds PROVE Spec => RZ!SafetySpec
  BY DEF ImplementsRendezvous
<1>1. Init => RZ!Init
  BY ConstantsAssumption
  DEF Init, RZ!Init, RzState, OutOf, Stored, NoResult, Reqs, Unanswered,
      RZ!Unanswered, RZ!NoOutcome, RZ!Reqs, RZ!Cons, Cons
<1>2. IInv /\ [Next]_vars => [RZ!Next]_RZ!avars
  BY RefineStep
<1>3. QED
  BY <1>1, <1>2, IInvariant, PTL DEF Spec, RZ!SafetySpec
=============================================================================
