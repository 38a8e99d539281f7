--------------------------- MODULE MessageBuffer ---------------------------
(***************************************************************************)
(* The message buffers of ClaudeMessageReceiver (_workflow_helpers.py):    *)
(* inbound messages pushed by the receive_claude_message signal and        *)
(* drained by the workflow's run task with wait_for_claude_messages or     *)
(* get_claude_messages; outbound messages queued by send_to_claude and     *)
(* drained by the get_and_consume_messages update.  init_claude_receiver   *)
(* creates the buffers and a fresh asyncio.Event; it runs as the first     *)
(* statement of the run method and lazily in any handler that finds the    *)
(* buffers missing.  The Event object created by the k-th initialisation   *)
(* is named k.                                                             *)
(***************************************************************************)
EXTENDS Naturals, Sequences, Functions

CONSTANTS
  Msgs,         \* inbound messages (dicts from Claude), each sent once
  OutMsgs,      \* outbound messages (JSON lines), each sent once
  EarlySignals  \* may the session's signals and updates precede run()?

ASSUME BufferAssumption == EarlySignals \in BOOLEAN

VARIABLES
  inited,     \* hasattr(self, "_claude_messages")
  runStarted, \* the run method has executed init_claude_receiver()
  inbound,    \* _claude_messages
  outbound,   \* _claude_outgoing
  evtGen,     \* the Event object _claude_message_event holds
  evtSet,     \* the Event objects whose flag is set
  reader,     \* the run task: "idle" or suspended in "waiting"
  readerEvt,  \* the Event object the run task awaits
  readerTmo,  \* the run task's wait has a timeout
  delivered,  \* history: messages the signal has delivered, in order
  received,   \* history: messages the drains returned, in order
  sent,       \* history: messages send_to_claude queued, in order
  fetched     \* history: messages the update returned, in order

vars == <<inited, runStarted, inbound, outbound, evtGen, evtSet, reader,
          readerEvt, readerTmo, delivered, received, sent, fetched>>

\* At most two initialisations: once lazily by a handler, once by run().
MaxInits == 2

TypeOK ==
  /\ inited \in BOOLEAN /\ runStarted \in BOOLEAN
  /\ inbound \in Seq(Msgs) /\ outbound \in Seq(OutMsgs)
  /\ evtGen \in 0 .. MaxInits /\ evtSet \subseteq 1 .. MaxInits
  /\ reader \in {"idle", "waiting"}
  /\ readerEvt \in 0 .. MaxInits /\ readerTmo \in BOOLEAN
  /\ delivered \in Seq(Msgs) /\ received \in Seq(Msgs)
  /\ sent \in Seq(OutMsgs) /\ fetched \in Seq(OutMsgs)

(* Before the workflow instance has run init_claude_receiver().          *)
Init ==
  /\ inited = FALSE /\ runStarted = FALSE
  /\ inbound = <<>> /\ outbound = <<>>
  /\ evtGen = 0 /\ evtSet = {}
  /\ reader = "idle" /\ readerEvt = 0 /\ readerTmo = FALSE
  /\ delivered = <<>> /\ received = <<>> /\ sent = <<>> /\ fetched = <<>>

(* init_claude_receiver (lines 63-65): fresh empty lists, fresh Event.    *)
InitReceiver ==
  /\ inited' = TRUE
  /\ inbound' = <<>> /\ outbound' = <<>>
  /\ evtGen' = evtGen + 1

(* The "if not hasattr(...): self.init_claude_receiver()" every handler   *)
(* begins with.  Before the first initialisation both lists are empty, so *)
(* a lazy initialisation only replaces the Event.                         *)
EnsureInit ==
  /\ inited' = TRUE
  /\ evtGen' = IF inited THEN evtGen ELSE evtGen + 1

(* Signals and updates come from the session activity, which the run      *)
(* method starts after its init, unless EarlySignals lets them come first *)
(* (signal-with-start, or a session already running for the workflow id). *)
External == runStarted \/ EarlySignals

(* The run method's first statement: self.init_claude_receiver().        *)
RunInit ==
  /\ ~runStarted
  /\ runStarted' = TRUE
  /\ InitReceiver
  /\ UNCHANGED <<evtSet, reader, readerEvt, readerTmo, delivered, received,
                 sent, fetched>>

(* Mutant: the list is replaced instead of appended to (line 91).        *)
ReceiveClaudeMessageReplace(m) ==
  /\ External
  /\ m \notin Range(delivered)
  /\ EnsureInit
  /\ inbound' = <<m>>
  /\ evtSet' = evtSet \cup {evtGen'}
  /\ delivered' = Append(delivered, m)
  /\ UNCHANGED <<runStarted, outbound, reader, readerEvt, readerTmo,
                 received, sent, fetched>>

(* Mutant: the Event is not set (line 92 left out).                       *)
ReceiveClaudeMessageNoSet(m) ==
  /\ External
  /\ m \notin Range(delivered)
  /\ EnsureInit
  /\ inbound' = Append(inbound, m)
  /\ delivered' = Append(delivered, m)
  /\ UNCHANGED <<runStarted, outbound, evtSet, reader, readerEvt, readerTmo,
                 received, sent, fetched>>

(* receive_claude_message (lines 86-92): append and set the Event.        *)
ReceiveClaudeMessage(m) ==
  /\ External
  /\ m \notin Range(delivered)
  /\ EnsureInit
  /\ inbound' = Append(inbound, m)
  /\ evtSet' = evtSet \cup {evtGen'}
  /\ delivered' = Append(delivered, m)
  /\ UNCHANGED <<runStarted, outbound, reader, readerEvt, readerTmo,
                 received, sent, fetched>>

(* Mutant: the drained list is appended as one element, not extended.    *)
TakeMessagesAsOne ==
  /\ received' = Append(received, inbound)
  /\ inbound' = <<>>
  /\ evtSet' = evtSet \ {evtGen}
  /\ reader' = "idle"
  /\ UNCHANGED <<inited, runStarted, outbound, evtGen, delivered, sent,
                 fetched>>

(* Lines 114-118 of wait_for_claude_messages and 129-132 of               *)
(* get_claude_messages: take the whole inbound list, clear the Event the  *)
(* object holds now, and return the list to the run task.                 *)
TakeMessages ==
  /\ received' = received \o inbound
  /\ inbound' = <<>>
  /\ evtSet' = evtSet \ {evtGen}
  /\ reader' = "idle"
  /\ UNCHANGED <<inited, runStarted, outbound, evtGen, delivered, sent,
                 fetched>>

(* wait_for_claude_messages(timeout) called by the run task (lines        *)
(* 103-112): Event.wait() on a set Event returns at once; otherwise the   *)
(* task suspends on the Event object it holds now, with or without a      *)
(* timeout.                                                               *)
WaitForClaudeMessages(tmo) ==
  /\ runStarted /\ reader = "idle"
  /\ \/ /\ evtGen \in evtSet
        /\ TakeMessages
        /\ UNCHANGED <<readerEvt, readerTmo>>
     \/ /\ evtGen \notin evtSet
        /\ reader' = "waiting" /\ readerEvt' = evtGen /\ readerTmo' = tmo
        /\ UNCHANGED <<inited, runStarted, inbound, outbound, evtGen, evtSet,
                       delivered, received, sent, fetched>>

(* The awaited Event is set: the run task resumes at line 115.            *)
WakeReader ==
  /\ reader = "waiting" /\ readerEvt \in evtSet
  /\ TakeMessages
  /\ UNCHANGED <<readerEvt, readerTmo>>

(* The timeout of asyncio.wait_for expires (lines 107-110): the           *)
(* TimeoutError is swallowed and the task goes on to line 115.            *)
ReaderTimeout ==
  /\ reader = "waiting" /\ readerTmo
  /\ TakeMessages
  /\ UNCHANGED <<readerEvt, readerTmo>>

(* get_claude_messages (lines 126-132), called by the run task.           *)
GetClaudeMessages ==
  /\ runStarted /\ reader = "idle"
  /\ TakeMessages
  /\ UNCHANGED <<readerEvt, readerTmo>>

(* send_to_claude (lines 158-161), called by the run task.                *)
SendToClaude(o) ==
  /\ runStarted /\ reader = "idle"
  /\ o \notin Range(sent)
  /\ outbound' = Append(outbound, o)
  /\ sent' = Append(sent, o)
  /\ UNCHANGED <<inited, runStarted, inbound, evtGen, evtSet, reader,
                 readerEvt, readerTmo, delivered, received, fetched>>

(* get_and_consume_messages update (lines 145-150): swap out the list.    *)
GetAndConsumeMessages ==
  /\ External
  /\ EnsureInit
  /\ fetched' = fetched \o outbound
  /\ outbound' = <<>>
  /\ UNCHANGED <<runStarted, inbound, evtSet, reader, readerEvt, readerTmo,
                 delivered, received, sent>>

Next ==
  \/ RunInit
  \/ \E m \in Msgs : ReceiveClaudeMessage(m)
  \/ \E tmo \in BOOLEAN : WaitForClaudeMessages(tmo)
  \/ WakeReader \/ ReaderTimeout \/ GetClaudeMessages
  \/ \E o \in OutMsgs : SendToClaude(o)
  \/ GetAndConsumeMessages

(* asyncio resumes a task whose awaited Event is set.  The workflow code  *)
(* decides when to read or send, and a timeout may be arbitrarily long,   *)
(* so no other step is fair.                                              *)
Spec == Init /\ [][Next]_vars /\ WF_vars(WakeReader)

-----------------------------------------------------------------------------
(* No message is lost, duplicated or reordered in either direction: what  *)
(* the run task has drained followed by what is still buffered is exactly *)
(* what receive_claude_message delivered, and likewise for the messages   *)
(* send_to_claude queued and get_and_consume_messages returned.           *)
NoMessageLost ==
  /\ received \o inbound = delivered
  /\ fetched \o outbound = sent

(* A run task suspended in wait_for_claude_messages while messages are    *)
(* buffered is eventually resumed (no lost wake-up).                      *)
ReaderWakes == (reader = "waiting" /\ inbound # <<>>) ~> reader = "idle"
=============================================================================
