------------------------ MODULE MessageBuffer_proofs ------------------------
(***************************************************************************)
(* Proofs about MessageBuffer for every set of messages.                   *)
(***************************************************************************)
EXTENDS MessageBuffer, SequenceTheorems, TLAPS

(* The run method initialises the receiver at most once, and only after   *)
(* a handler may have done so lazily: so at most two Event objects are    *)
(* ever created, and one exists as soon as the receiver is initialised.   *)
InitCount ==
  /\ runStarted => inited
  /\ ~inited => evtGen = 0
  /\ inited => evtGen \in 1 .. 2
  /\ ~runStarted => evtGen <= 1

TInv == TypeOK /\ InitCount

(* Before run() starts, with signals and updates only after it, nothing   *)
(* has been delivered, drained, queued or fetched, and the run task is not *)
(* suspended in wait_for_claude_messages.                                  *)
NothingBeforeRun ==
  ~runStarted =>
    /\ reader = "idle"
    /\ inbound = <<>> /\ outbound = <<>>
    /\ delivered = <<>> /\ received = <<>>
    /\ sent = <<>> /\ fetched = <<>>

LInv == TInv /\ NothingBeforeRun /\ NoMessageLost
-----------------------------------------------------------------------------
(* Appending to the second part of a concatenation appends to the whole.  *)
LEMMA ConcatAppend ==
  ASSUME NEW S, NEW s \in Seq(S), NEW t \in Seq(S), NEW x \in S
  PROVE  s \o Append(t, x) = Append(s \o t, x)
<1>1. Append(t, x) = t \o <<x>> /\ <<x>> \in Seq(S)
  BY AppendIsConcat
<1>2. s \o t \in Seq(S)
  BY ConcatProperties
<1>3. Append(s \o t, x) = (s \o t) \o <<x>>
  BY <1>2, AppendIsConcat
<1>4. QED
  BY <1>1, <1>3, ConcatAssociative

(* The drain at lines 114-118: the list taken is moved, whole and in      *)
(* order, from the buffer to what the run task has received.              *)
LEMMA TakeKeepsStream ==
  ASSUME NEW S, NEW r \in Seq(S), NEW b \in Seq(S)
  PROVE  /\ r \o b \in Seq(S)
         /\ (r \o b) \o <<>> = r \o b
BY ConcatProperties, ConcatEmptySeq
-----------------------------------------------------------------------------
(* TypeOK split into its Boolean-valued variables and the rest, which     *)
(* the provers handle separately (Zenon the first, SMT the second).       *)
BoolsOK == inited \in BOOLEAN /\ runStarted \in BOOLEAN /\ readerTmo \in BOOLEAN
DataOK ==
  /\ inbound \in Seq(Msgs) /\ outbound \in Seq(OutMsgs)
  /\ evtGen \in 0 .. MaxInits /\ evtSet \subseteq 1 .. MaxInits
  /\ reader \in {"idle", "waiting"} /\ readerEvt \in 0 .. MaxInits
  /\ delivered \in Seq(Msgs) /\ received \in Seq(Msgs)
  /\ sent \in Seq(OutMsgs) /\ fetched \in Seq(OutMsgs)

LEMMA TypeOKSplit == TypeOK <=> BoolsOK /\ DataOK
BY Zenon DEF TypeOK, BoolsOK, DataOK

(* No step gives a Boolean variable a non-Boolean value.                  *)
LEMMA BoolsStep == BoolsOK /\ [Next]_vars => BoolsOK'
BY Zenon DEF BoolsOK, Next, vars, RunInit, InitReceiver, EnsureInit,
   ReceiveClaudeMessage, TakeMessages, WaitForClaudeMessages, WakeReader,
   ReaderTimeout, GetClaudeMessages, SendToClaude, GetAndConsumeMessages

(* A handler's lazy init_claude_receiver() keeps the Event count within   *)
(* its bound: it creates an Event only while the receiver is not yet       *)
(* initialised, which is never after run() has started.                    *)
LEMMA EnsureInitCount ==
  ASSUME InitCount, BoolsOK, EnsureInit, UNCHANGED runStarted
  PROVE  InitCount'
<1>1. inited'
  BY Zenon DEF EnsureInit
<1>2. CASE inited
  <2>1. evtGen' = evtGen
    BY <1>2 DEF EnsureInit
  <2>2. QED
    BY <1>1, <1>2, <2>1 DEF InitCount
<1>3. CASE ~inited
  <2>1. evtGen' = evtGen + 1 /\ ~runStarted /\ ~runStarted'
    BY <1>3 DEF EnsureInit, InitCount
  <2>2. QED
    BY <1>1, <1>3, <2>1 DEF InitCount
<1>4. QED
  BY <1>2, <1>3, Zenon DEF BoolsOK

(* Each action keeps the Event count within its bound.  inited' is TRUE   *)
(* after every action that creates an Event.                              *)
LEMMA CountStep == InitCount /\ BoolsOK /\ [Next]_vars => InitCount'
<1> SUFFICES ASSUME InitCount, BoolsOK, [Next]_vars PROVE InitCount'
  OBVIOUS
<1>1. CASE RunInit
  <2>1. ~runStarted /\ runStarted' /\ inited' /\ evtGen' = evtGen + 1
    BY <1>1, Zenon DEF RunInit, InitReceiver
  <2>2. CASE inited
    BY <2>1, <2>2 DEF InitCount
  <2>3. CASE ~inited
    BY <2>1, <2>3 DEF InitCount
  <2>4. QED
    BY <2>2, <2>3, Zenon DEF BoolsOK
<1>2. CASE EnsureInit /\ UNCHANGED runStarted
  BY <1>2, EnsureInitCount
<1>3. CASE UNCHANGED <<inited, runStarted, evtGen>>
  BY <1>3 DEF InitCount
<1>4. QED
  <2>1. \A m \in Msgs : ReceiveClaudeMessage(m) => EnsureInit /\ UNCHANGED runStarted
    BY Zenon DEF ReceiveClaudeMessage
  <2>2. GetAndConsumeMessages => EnsureInit /\ UNCHANGED runStarted
    BY Zenon DEF GetAndConsumeMessages
  <2>3. (\/ \E tmo \in BOOLEAN : WaitForClaudeMessages(tmo)
         \/ WakeReader \/ ReaderTimeout \/ GetClaudeMessages
         \/ \E o \in OutMsgs : SendToClaude(o)
         \/ UNCHANGED vars)
        => UNCHANGED <<inited, runStarted, evtGen>>
    BY Zenon DEF WaitForClaudeMessages, TakeMessages, WakeReader, ReaderTimeout,
       GetClaudeMessages, SendToClaude, vars
  <2>4. QED
    BY <1>1, <1>2, <1>3, <2>1, <2>2, <2>3 DEF Next

(* Every step keeps the sequences, counters and sets in their types.      *)
LEMMA DataStep == DataOK /\ InitCount' /\ [Next]_vars => DataOK'
<1> SUFFICES ASSUME DataOK, InitCount', [Next]_vars PROVE DataOK'
  OBVIOUS
<1> USE DEF DataOK, MaxInits
<1>0. <<>> \in Seq(Msgs) /\ <<>> \in Seq(OutMsgs)
  BY EmptySeq
<1>c. evtGen' \in 0 .. 2
  BY DEF InitCount
<1>1. CASE RunInit
  BY <1>0, <1>c, <1>1 DEF RunInit, InitReceiver
<1>2. ASSUME NEW m \in Msgs, ReceiveClaudeMessage(m) PROVE DataOK'
  <2>1. Append(inbound, m) \in Seq(Msgs) /\ Append(delivered, m) \in Seq(Msgs)
    BY AppendProperties
  <2>2. inited'
    BY <1>2, Zenon DEF ReceiveClaudeMessage, EnsureInit
  <2>3. evtGen' \in 1 .. 2
    BY <2>2 DEF InitCount
  <2>4. QED
    BY <1>2, <1>c, <2>1, <2>3 DEF ReceiveClaudeMessage, EnsureInit
<1>3. CASE TakeMessages /\ UNCHANGED readerEvt
  <2>1. received \o inbound \in Seq(Msgs)
    BY ConcatProperties
  <2>2. /\ received' = received \o inbound /\ inbound' = <<>>
        /\ evtSet' = evtSet \ {evtGen} /\ reader' = "idle"
        /\ UNCHANGED <<outbound, evtGen, readerEvt, delivered, sent, fetched>>
    BY <1>3, Zenon DEF TakeMessages
  <2>3. QED
    BY <1>0, <2>1, <2>2
<1>4. ASSUME NEW tmo \in BOOLEAN, WaitForClaudeMessages(tmo) PROVE DataOK'
  <2>1. CASE evtGen \in evtSet /\ TakeMessages /\ UNCHANGED <<readerEvt, readerTmo>>
    BY <1>3, <2>1, Zenon
  <2>2. CASE /\ reader' = "waiting" /\ readerEvt' = evtGen
             /\ UNCHANGED <<inbound, outbound, evtGen, evtSet, delivered,
                            received, sent, fetched>>
    BY <2>2
  <2>3. QED
    BY <1>4, <2>1, <2>2 DEF WaitForClaudeMessages
<1>5. CASE WakeReader \/ ReaderTimeout \/ GetClaudeMessages
  <2>1. TakeMessages /\ UNCHANGED readerEvt
    BY <1>5, Zenon DEF WakeReader, ReaderTimeout, GetClaudeMessages
  <2>2. QED
    BY <1>3, <2>1
<1>6. ASSUME NEW o \in OutMsgs, SendToClaude(o) PROVE DataOK'
  <2>1. Append(outbound, o) \in Seq(OutMsgs) /\ Append(sent, o) \in Seq(OutMsgs)
    BY AppendProperties
  <2>2. QED
    BY <1>6, <2>1 DEF SendToClaude
<1>7. CASE GetAndConsumeMessages
  <2>1. fetched \o outbound \in Seq(OutMsgs)
    BY ConcatProperties
  <2>2. QED
    BY <1>0, <1>c, <1>7, <2>1 DEF GetAndConsumeMessages, EnsureInit
<1>8. CASE UNCHANGED vars
  BY <1>8 DEF vars
<1>9. QED
  BY <1>1, <1>2, <1>4, <1>5, <1>6, <1>7, <1>8 DEF Next

(* Every step keeps the variables in their types and the count of         *)
(* initialisations within its bound.                                       *)
LEMMA TInvStep == TInv /\ [Next]_vars => TInv'
<1> SUFFICES ASSUME TInv, [Next]_vars PROVE TInv'
  OBVIOUS
<1>1. BoolsOK /\ DataOK /\ InitCount
  BY TypeOKSplit DEF TInv
<1>2. BoolsOK' /\ InitCount'
  BY <1>1, BoolsStep, CountStep
<1>3. DataOK'
  BY <1>1, <1>2, DataStep
<1>4. QED
  BY <1>2, <1>3, Zenon DEF TInv, TypeOK, BoolsOK, DataOK

(* The lazy init_claude_receiver() of a handler that changes nothing      *)
(* else of the buffers (the tool handlers of the receiver) keeps TInv.     *)
LEMMA LazyInitStep ==
  ASSUME TInv, EnsureInit,
         UNCHANGED <<runStarted, inbound, outbound, evtSet, reader, readerEvt,
                     readerTmo, delivered, received, sent, fetched>>
  PROVE  TInv'
<1>1. BoolsOK /\ DataOK /\ InitCount
  BY TypeOKSplit DEF TInv
<1>2. /\ inited' /\ runStarted' = runStarted /\ readerTmo' = readerTmo
      /\ inbound' = inbound /\ outbound' = outbound /\ evtSet' = evtSet
      /\ reader' = reader /\ readerEvt' = readerEvt
      /\ delivered' = delivered /\ received' = received
      /\ sent' = sent /\ fetched' = fetched
  BY Zenon DEF EnsureInit
<1>3. BoolsOK'
  BY <1>1, <1>2, Zenon DEF BoolsOK
<1>4. InitCount'
  BY <1>1, <1>2, EnsureInitCount
<1>5. evtGen' \in 1 .. 2
  BY <1>2, <1>4 DEF InitCount
<1>6. DataOK'
  BY <1>1, <1>2, <1>5 DEF DataOK, MaxInits
<1>7. QED
  BY <1>3, <1>4, <1>6, Zenon DEF TInv, TypeOK, BoolsOK, DataOK

(* The initial state: no receiver yet, no Event, every list empty.       *)
LEMMA InitTInv == Init => TInv
<1> SUFFICES ASSUME Init PROVE TInv
  OBVIOUS
<1>1. <<>> \in Seq(Msgs) /\ <<>> \in Seq(OutMsgs)
  BY EmptySeq
<1>2. BoolsOK
  BY Zenon DEF Init, BoolsOK
<1>3. DataOK
  BY <1>1 DEF Init, DataOK, MaxInits
<1>4. InitCount
  BY DEF Init, InitCount
<1>5. QED
  BY <1>2, <1>3, <1>4, TypeOKSplit DEF TInv

(* Type correctness of the message buffers: every reachable state keeps   *)
(* each variable in its type, in particular at most two Event objects are *)
(* created (one lazily by a handler, one by run()).  InitCount is needed   *)
(* because the bound on evtGen is not inductive by itself.                 *)
THEOREM TypeCorrect == Spec => []TypeOK
<1>1. Init => TInv
  BY InitTInv
<1>2. TInv => TypeOK
  BY DEF TInv
<1>3. QED
  BY <1>1, <1>2, TInvStep, PTL DEF Spec
-----------------------------------------------------------------------------
(* Without early signals every handler and every run-task operation is    *)
(* guarded by runStarted or by reader = "waiting", which only run() can    *)
(* bring about, and none resets runStarted: so nothing happens before      *)
(* run()'s own init_claude_receiver().                                      *)
LEMMA NothingStep ==
  ASSUME ~EarlySignals, NothingBeforeRun, [Next]_vars
  PROVE  NothingBeforeRun'
<1>1. CASE RunInit
  BY <1>1, Zenon DEF RunInit, NothingBeforeRun
<1>2. CASE UNCHANGED vars
  BY <1>2, Zenon DEF vars, NothingBeforeRun
<1>3. CASE \/ \E m \in Msgs : ReceiveClaudeMessage(m)
           \/ \E tmo \in BOOLEAN : WaitForClaudeMessages(tmo)
           \/ GetClaudeMessages
           \/ \E o \in OutMsgs : SendToClaude(o)
           \/ GetAndConsumeMessages
  <2>1. External <=> runStarted
    BY Zenon DEF External
  <2>2. ASSUME NEW m \in Msgs, ReceiveClaudeMessage(m) PROVE runStarted'
    BY <2>1, <2>2, Zenon DEF ReceiveClaudeMessage
  <2>3. ASSUME NEW tmo \in BOOLEAN, WaitForClaudeMessages(tmo) PROVE runStarted'
    BY <2>3, Zenon DEF WaitForClaudeMessages, TakeMessages
  <2>4. ASSUME GetClaudeMessages PROVE runStarted'
    BY <2>4, Zenon DEF GetClaudeMessages, TakeMessages
  <2>5. ASSUME NEW o \in OutMsgs, SendToClaude(o) PROVE runStarted'
    BY <2>5, Zenon DEF SendToClaude
  <2>6. ASSUME GetAndConsumeMessages PROVE runStarted'
    BY <2>1, <2>6, Zenon DEF GetAndConsumeMessages
  <2>7. runStarted'
    BY <1>3, <2>2, <2>3, <2>4, <2>5, <2>6, Zenon
  <2>8. QED
    BY <2>7, Zenon DEF NothingBeforeRun
<1>4. CASE WakeReader \/ ReaderTimeout
  <2>1. reader = "waiting" /\ runStarted' = runStarted
    BY <1>4, Zenon DEF WakeReader, ReaderTimeout, TakeMessages
  <2>2. runStarted
    BY <2>1, Zenon DEF NothingBeforeRun
  <2>3. QED
    BY <2>1, <2>2, Zenon DEF NothingBeforeRun
<1>5. QED
  BY <1>1, <1>2, <1>3, <1>4 DEF Next

(* Each step keeps both message streams intact: the signal and             *)
(* send_to_claude append to a buffer and its history alike, the drains and *)
(* the update move the whole buffer to the end of what was returned, and   *)
(* run()'s init_claude_receiver() only empties buffers that are empty.     *)
LEMMA LostStep ==
  ASSUME DataOK, NothingBeforeRun, NoMessageLost, [Next]_vars
  PROVE  NoMessageLost'
<1> USE DEF DataOK
<1>0. <<>> \o <<>> = <<>>
  BY EmptySeq, ConcatEmptySeq
<1>1. CASE RunInit
  <2>1. /\ ~runStarted /\ inbound' = <<>> /\ outbound' = <<>>
        /\ UNCHANGED <<delivered, received, sent, fetched>>
    BY <1>1, Zenon DEF RunInit, InitReceiver
  <2>2. received' = <<>> /\ delivered' = <<>> /\ sent' = <<>> /\ fetched' = <<>>
    BY <2>1, Zenon DEF NothingBeforeRun
  <2>3. QED
    BY <1>0, <2>1, <2>2 DEF NoMessageLost
<1>2. ASSUME NEW m \in Msgs, ReceiveClaudeMessage(m) PROVE NoMessageLost'
  <2>1. /\ inbound' = Append(inbound, m) /\ delivered' = Append(delivered, m)
        /\ UNCHANGED <<received, outbound, sent, fetched>>
    BY <1>2, Zenon DEF ReceiveClaudeMessage
  <2>2. received \o Append(inbound, m) = Append(received \o inbound, m)
    BY ConcatAppend
  <2>3. QED
    BY <2>1, <2>2 DEF NoMessageLost
<1>3. CASE TakeMessages
  <2>1. /\ received' = received \o inbound /\ inbound' = <<>>
        /\ UNCHANGED <<delivered, outbound, sent, fetched>>
    BY <1>3, Zenon DEF TakeMessages
  <2>2. (received \o inbound) \o <<>> = received \o inbound
    BY TakeKeepsStream
  <2>3. QED
    BY <2>1, <2>2 DEF NoMessageLost
<1>4. CASE \/ \E tmo \in BOOLEAN : WaitForClaudeMessages(tmo)
           \/ WakeReader \/ ReaderTimeout \/ GetClaudeMessages
  <2>1. TakeMessages \/ UNCHANGED <<inbound, outbound, delivered, received,
                                    sent, fetched>>
    BY <1>4, Zenon DEF WaitForClaudeMessages, WakeReader, ReaderTimeout,
       GetClaudeMessages
  <2>2. QED
    BY <1>3, <2>1 DEF NoMessageLost
<1>5. ASSUME NEW o \in OutMsgs, SendToClaude(o) PROVE NoMessageLost'
  <2>1. /\ outbound' = Append(outbound, o) /\ sent' = Append(sent, o)
        /\ UNCHANGED <<inbound, delivered, received, fetched>>
    BY <1>5, Zenon DEF SendToClaude
  <2>2. fetched \o Append(outbound, o) = Append(fetched \o outbound, o)
    BY ConcatAppend
  <2>3. QED
    BY <2>1, <2>2 DEF NoMessageLost
<1>6. CASE GetAndConsumeMessages
  <2>1. /\ fetched' = fetched \o outbound /\ outbound' = <<>>
        /\ UNCHANGED <<inbound, delivered, received, sent>>
    BY <1>6, Zenon DEF GetAndConsumeMessages
  <2>2. (fetched \o outbound) \o <<>> = fetched \o outbound
    BY TakeKeepsStream
  <2>3. QED
    BY <2>1, <2>2 DEF NoMessageLost
<1>7. CASE UNCHANGED vars
  BY <1>7 DEF vars, NoMessageLost
<1>8. QED
  BY <1>1, <1>2, <1>3, <1>4, <1>5, <1>6, <1>7 DEF Next

(* The initial state satisfies LInv.                                      *)
LEMMA InitLInv == Init => LInv
<1> SUFFICES ASSUME Init PROVE LInv
  OBVIOUS
<1>1. TInv
  BY InitTInv
<1>2. NothingBeforeRun
  BY Zenon DEF Init, NothingBeforeRun
<1>3. <<>> \o <<>> = <<>>
  BY EmptySeq, ConcatEmptySeq
<1>4. NoMessageLost
  BY <1>3 DEF Init, NoMessageLost
<1>5. QED
  BY <1>1, <1>2, <1>4 DEF LInv

(* With signals and updates only after run(), every step keeps LInv.     *)
LEMMA LInvStep == ASSUME ~EarlySignals, LInv, [Next]_vars PROVE LInv'
<1>1. DataOK
  BY TypeOKSplit DEF LInv, TInv
<1>2. TInv'
  BY TInvStep DEF LInv
<1>3. NothingBeforeRun'
  BY NothingStep DEF LInv
<1>4. NoMessageLost'
  BY <1>1, LostStep DEF LInv
<1>5. QED
  BY <1>2, <1>3, <1>4 DEF LInv

(* When the session's signals and updates come only after run() has       *)
(* started (EarlySignals = FALSE), no message is lost, duplicated or       *)
(* reordered in either direction: what the run task drained followed by   *)
(* the buffer is what receive_claude_message delivered, and what the      *)
(* get_and_consume_messages update returned followed by the buffer is     *)
(* what send_to_claude queued.  NoMessageLost is not inductive: run()'s   *)
(* init_claude_receiver() discards the buffers, harmless only because     *)
(* NothingBeforeRun says they are then empty.                              *)
THEOREM NoMessageLostAfterRun == ~EarlySignals => (Spec => []NoMessageLost)
<1> SUFFICES ASSUME ~EarlySignals PROVE Spec => []NoMessageLost
  OBVIOUS
<1>1. LInv /\ [Next]_vars => LInv'
  BY LInvStep
<1>2. LInv => NoMessageLost
  BY DEF LInv
<1>3. QED
  BY InitLInv, <1>1, <1>2, PTL DEF Spec
=============================================================================
