# Verification of the Claude Agent workflow helpers

This directory holds TLA+ models of `temporalio.contrib.claude_agent`: the
`ClaudeMessageReceiver` mixin (`_workflow_helpers.py`) and the tool registry
(`_tool_decorator.py`). It also holds the TLC configurations that check the
models and the TLAPS proofs about them.

## 1. Inventory

### Components

| Component | Source | State | Operations |
|---|---|---|---|
| Tool Coordinator | `_workflow_helpers.py` 175-260 | `_tool_result_events` (tool_id → asyncio.Event), `_tool_results` (tool_id → ToolResult) | signal `request_tool_execution`, update `get_tool_result` |
| Message Buffer | `_workflow_helpers.py` 57-161 | `_claude_messages`, `_claude_outgoing`, `_claude_message_event` | `init_claude_receiver`, signal `receive_claude_message`, `wait_for_claude_messages`, `get_claude_messages`, `send_to_claude`, update `get_and_consume_messages` |
| Handler Registry | `_tool_decorator.py` 37-127 | `ToolRegistry.handlers`; the global `_WORKFLOW_TOOL_REGISTRY` keyed by `id(instance)` | `register`, `get`, `has`, `get_tool_registry`, `clear_tool_registry`, query `get_registered_tools` |
| Capability Discovery | `_tool_decorator.py` 130-210 | attributes tagged `_claude_tool_name` / `_claude_tool_execution` | `claude_tool` decorator, `register_tool_handlers` (a `dir()` scan) |
| `ToolDenied` | `_tool_decorator.py` 11-34 | message, interrupt flag | raised by handlers; turned into a failed ToolResult |

### How the components interact

All of this state belongs to one workflow instance. Temporal runs the
instance's code on a cooperative asyncio loop. Each signal and update
invocation is its own task, and tasks interleave only at `await`.

- The session activity (not in this repository) sends
  `request_tool_execution`. The handler creates an Event for the tool_id,
  looks the tool up in the registry, and awaits the handler, which may run
  activities. It then stores the result and sets the Event.
- The same activity then calls `get_tool_result(tool_id)`. This update waits
  on the Event, pops the result and deletes the Event.
- Messages from Claude arrive by signal and are drained by the run task.
  Messages for Claude are queued by the run task and drained by an update.
- `init_claude_receiver` (re)creates every buffer and Event and runs
  discovery. The run method calls it first. Every handler also calls it
  lazily if it finds the state missing.

### What is hard

- **Interleaving at awaits.** The signal handler re-reads
  `_tool_result_events[tool_id]` after its `await` (line 227). An update waits
  on an Event object it read before suspending (line 246).
- **Ordering.** Signals and updates come from separate RPCs. An update can
  precede its request. A retried activity can ask for the same result twice.
- **Duplicate tool_ids.** These overwrite Events and results (lines 189, 226).
- **Re-initialisation.** A signal handled before `run()` lazily initialises the
  receiver, and `run()` then re-initialises it (lines 63-71), buffers and tool
  dicts alike.
- **Lost wake-ups.** The run task waits on the readiness Event while messages
  are buffered.
- **Liveness.** Every `get_tool_result` must eventually return, and a waiting
  run task must wake.

### What makes each component correct

- Tool Coordinator:
  - no signal handler fails;
  - each result is returned exactly once;
  - "not found" is returned only to an update that came too early, or to one
    whose result another update took;
  - every waiting update returns.
- Message Buffer:
  - drained messages followed by buffered ones equal the delivered messages
    (nothing lost, duplicated or reordered), in both directions;
  - a waiting run task wakes while messages are buffered.
- Registry and Discovery:
  - last writer wins per tool name;
  - discovery never fails;
  - the global table holds only live instances' registries;
  - an instance never dispatches through a registry inherited by `id()`
    reuse.

## 2. Modules, runs and what they show

### `ToolCoordinator.tla` (core)

State:

| Variable | Code |
|---|---|
| `events` | `_tool_result_events` |
| `setEvts` | the flags of Event objects. The Event created by request `r` is named `r`, so a replaced Event stays distinguishable. |
| `results` | `_tool_results` |
| `req`, `con` | where each signal and update task is |
| `conEvt` | the Event object a suspended update holds |
| `returned` | what each update returned (a history variable) |
| `early` | a history variable: the update began before its request |

Actions:

| Action | Code |
|---|---|
| `RequestToolExecution` | lines 182-205, up to the handler's await. A handler may finish without suspending (`ResolveInline`) or suspend. |
| `HandlerReturns` | lines 205-227, including the KeyError branch at line 227 |
| `GetToolResult` | lines 241-246. `Event.wait()` on a set Event does not suspend, so a set or missing Event takes the update to completion in one step. |
| `ResumeGetToolResult` | lines 246-260 |
| `Consume` | the pop and delete (lines 249-260) |

The registry is the constant set `Handled` (`HasHandler`). Init is the state
right after `init_claude_receiver`.

**Fairness.** `HandlerReturns` and `ResumeGetToolResult` are weakly fair:

- every handler await eventually ends, because an activity completes, fails
  or times out, and every exception is caught;
- asyncio runs a task whose Event is set.

Arrivals of signals and updates are not fair: the environment sends them.

Runs (module `MC_ToolCoordinator`):

- **`tool_unique`** (pass): 3 distinct ids, 3 requests and 3 updates.
  - Requests 1-2 go to a suspending handler and request 3 to an unhandled
    tool. Updates 1-2 ask for the same id, as a retried activity would.
  - Checks `TypeOK`, `NoSignalHandlerCrash`, `ExactlyOnce`, `ResultNotLost`
    and `WaiterReleased` (6,450 states).
  - The bounds cover: two handlers resolving in either order, an update before
    or after its request, two updates racing for one result, and the
    no-handler path.
- **`tool_dup`** (pass): two requests and two updates share one id.
  `AtMostOnce` still holds: no result is returned twice. (`TypeOK` is
  checked by `tool_unique` only.)
- **`tool_dup_crash`, `tool_dup_orphan`, `tool_dup_overwrite`** (violations).
  When a tool_id is reused:
  - line 227 raises KeyError;
  - a waiter on the replaced Event never returns;
  - an unread result is overwritten.

  The spec says duplicates should be rejected. The code silently accepts
  them. See the findings in `PROJECT.json`.

### `Registry.tla` (Handler Registry and Capability Discovery)

The registry is modelled with the workflow instances that fill it and the
process they live in.

| Definition | Code |
|---|---|
| `table`, `inTable` | `_WORKFLOW_TOOL_REGISTRY`, keyed by heap address (`id()`) |
| `Register` | `ToolRegistry.register`: insert or replace |
| `RegistryAt` | the module-level `get_tool_registry`: existing entry, or a fresh `ToolRegistry()` |
| `RegisterToolHandlers` | the `dir()` scan, as one atomic step: a recursive function folds `Register` over the attributes in sorted order, skipping untagged and raising ones |
| `RunInit`, `HandlerInit` | `init_claude_receiver` from `run()`, or lazily from a handler |
| `GetRegisteredTools`, `GetToolRegistry` | the query and the lazy scan it can trigger |
| `NewInstance`, `Evict`, `Free` | the environment: the worker creates and drops instances; CPython frees an instance nothing refers to and reuses its address |

A registered handler is a bound method, so it keeps its instance alive.
`Free` is enabled only when no table entry refers to the instance. The
constants `Kind` and `Tag` stand for what the `@claude_tool` decorator put on
each attribute.

- **`registry`** (pass, 3,009 states). Three instances share two addresses.
  One is of a class without handlers, so it is freed and its address (and the
  registry stored under it) is reused. The others are of a class with two
  methods tagged `Bash`, one tagged `Read`, and a raising property in between.
  `RegistryMatchesClass` compares every live instance's registry with
  `RefRegistry`, a reference definition: the last tagged attribute per tool,
  bound to the instance itself. It covers last-writer-wins in `dir()` order,
  tolerance of raising attributes, and no inherited entries after `id()`
  reuse.
- **`registry_leak`** (violation). `TableHoldsOnlyLive` fails after three
  steps: create, init, evict. `clear_tool_registry` is never called, so the
  table (and every evicted instance with handlers) grows without bound.

### `Rendezvous.tla` (abstract Tool Coordinator) and the refinement

`Rendezvous` is the spec's section 4.3 as a state machine over each
request's rendezvous: `idle → dispatching → resolved → consumed`. An
`await_result` call suspends only while its id is dispatching, takes a
resolved result, and otherwise answers "not found". It has no Events, dicts
or tasks. Its fairness: a dispatching handler eventually resolves, and a
woken waiter runs.

`ToolCoordinator` maps onto it via `RZ == INSTANCE Rendezvous WITH ...`:

- `RzState(r)` sends a pending signal to `idle` and a suspended handler to
  `dispatching`;
- a finished request whose result is still stored goes to `resolved`, and one
  whose result has been popped goes to `consumed`;
- `OutOf(r)` reads the outcome from the stored ToolResult;
- the updates' states and answers map one to one.

**`tool_refines`** (pass) checks two properties on the `tool_unique` instance:
`ImplementsRendezvous == RZ!SafetySpec` and `ImplementsRendezvousFair ==
RZ!Spec`, which adds the abstract fairness. With reused ids the refinement does
not hold. That is the same divergence as the three `tool_dup_*` violations.

### `Receiver.tla` (composition through the shared init)

`ClaudeMessageReceiver` is one object: `init_claude_receiver` (lines 57-74)
creates the message buffers and the tool dicts together. `Receiver.tla`
takes `ToolCoordinator` and `MessageBuffer` as `INSTANCE`s (`TC`, `MB`) over
the union of their variables, and changes only what they share. It
instantiates them through `ToolCoordinator_proofs` and
`MessageBuffer_proofs`, which extend them with nothing but definitions for
the proofs and lemmas, so the lemmas proved of each component can be cited
for the composition. `ReceiverAssumption` restates the components'
assumptions on the constants. TLC evaluates it on the receiver runs, and
tlapm needs it before it applies an instantiated lemma:

| Action | Code |
|---|---|
| `RunInit` | `MB!RunInit`, plus `_tool_results` and `_tool_result_events` replaced by empty dicts (lines 69-71); Event objects already handed out keep their flags |
| `RequestToolExecution(r)` | lazy init at lines 182-183 (`MB!EnsureInit`), then `TC!RequestToolExecution` |
| `GetToolResult(c)` | lazy init at lines 241-242, then `TC!GetToolResult` |
| other steps | the component's own action, the other component unchanged |

Before any initialisation the tool dicts do not exist. They are modelled as
empty, because every handler that reads them initialises them first. The
instance has:
- one handled tool, which may suspend;
- one unhandled tool;
- two updates for `t1`, the second a retry, and one for `t2`;
- two inbound messages and one outbound message.

With two inbound messages one can arrive before `run()`'s init and one
after it. No liveness property is checked on the composition, so `Spec`
states no fairness. The run task's wake-up is a property of the message
side alone: the reader only waits after `run()`'s own init, and no later
init replaces the Event. `buffer_after_run` checks it.

- **`receiver`** (pass, 636,232 states): signals and updates may precede
  `run()` (`EarlySignals = TRUE`). Two properties are checked:
  - `TypeOK` is the composed type invariant;
  - `AtMostOnce`: no ToolResult is returned by two updates. This covers
    the retried update racing the first for `t1`, and `run()`'s init
    emptying both tool dicts under a suspended handler or a waiting
    update.

  The mutant that reads with `.get` instead of `.pop` at line 249 breaks
  `AtMostOnce` on this instance.
- **`receiver_early_crash`** (violation, 4 states): a tool request handled
  before `run()` suspends in its handler. `run()`'s init empties
  `_tool_result_events`, and line 227 raises `KeyError` when the handler
  returns. An update waiting on the old Event would never wake. The same
  init also empties `_tool_results`: a result stored before `run()` is lost,
  and TLC finds `ResultNotLost` violated on this instance too.

### `MessageBuffer.tla`

Actions:

| Action | Code |
|---|---|
| `RunInit` | the run method's `init_claude_receiver` |
| `EnsureInit` | the lazy init in handlers |
| `ReceiveClaudeMessage` | signal `receive_claude_message` |
| `WaitForClaudeMessages`, `WakeReader`, `ReaderTimeout` | `wait_for_claude_messages` split at its await, with a timeout racing the Event |
| `GetClaudeMessages` | `get_claude_messages` |
| `SendToClaude` | `send_to_claude` |
| `GetAndConsumeMessages` | update `get_and_consume_messages` |

`evtGen` names the Event object that the current init created. The history
variables `delivered`, `received`, `sent` and `fetched` record the message
streams. Only `WakeReader` is fair: when the run task reads is decided by the
workflow code, and a timeout can be arbitrarily long. The constant
`EarlySignals` says whether signals may precede `run()`, for example with
signal-with-start.

- **`buffer_after_run`** (pass): 3 inbound and 2 outbound messages. Checks
  `TypeOK`, `NoMessageLost` and `ReaderWakes`.
- **`buffer_early_loss`** (violation): `NoMessageLost` fails. A message
  buffered by a lazily initialised receiver is wiped by `run()`'s init.

Every property of a passing run has a mutant in `PROJECT.json`: an operator
defined just before the action, as the code would be with a plausible bug
(e.g. `.get` for `.pop`, the wait left out, the Event not set). Under the
run's own configuration, TLC finds the property violated.

Deadlock checking is off in all runs. Once every signal and update has been
handled, the workflow legitimately idles waiting for the next one. A task
stuck on an Event is caught by the liveness properties instead.

## 3. Proofs

Three modules hold the proofs. Each one EXTENDS the module it is about and
`TLAPS`. Every theorem below is checked by `tlapm` down to its last leaf.

### `ToolCoordinator_proofs.tla`

- **`TypeCorrect`**: `Spec => []TypeOK`, for all constants satisfying
  `ConstantsAssumption`. It rests on the lemma `TypeStep`.
- **`NoCrashWithUniqueIds`**:
  `UniqueIds => (Spec => []NoSignalHandlerCrash)`.
  - `NoSignalHandlerCrash` is not inductive on its own. The inductive
    invariant `IInv` (lemmas `InitIInv`, `IInvStep`, `IInvariant`) adds:
    - `EventsOwned`: every Event in the dict belongs to a delivered request
      for that id;
    - `SuspendedOwnsEvent`: a suspended request still owns its id's unset
      Event;
    - `SetMeansDone` and `DoneIsSet`: exactly the resolved requests' Events
      are set;
    - `WaitersOnOwnId`: a waiting update holds an Event of its own id;
    - `ResultsOwned`: a stored result belongs to a resolved request for its
      key.
  - The argument: `Consume` deletes an id's Event only when that Event is
    absent or set. With unique ids a set Event cannot belong to a suspended
    request. So line 227 always finds its Event.
  - `IInv` was checked with TLC on the `tool_unique` instance before it was
    proved.
- **`RefinesRendezvous`**: `UniqueIds => (Spec => ImplementsRendezvous)`,
  that is `RZ!SafetySpec`.
  - Initial states map to the abstract initial state.
  - Lemma `RefineStep`: under `IInv` every coordinator step is an abstract
    step. The mapping of each action:
    - `RequestToolExecution` is `Accept`;
    - `HandlerReturns` is `Resolve`;
    - `GetToolResult` is `AwaitResult`;
    - `ResumeGetToolResult` is `Wake`.
  - Three lemmas carry the step proof:
    - `RzFrame` and `OthersFrame`: with unique ids, a step that touches one
      request's task and one key of `_tool_results` leaves every other
      request's abstract state alone;
    - `ResolveMapped`: storing a result is an abstract resolution;
    - `ConsumeMapped`: the pop at lines 249-260 either consumes the one
      resolved request of the id or answers "not found" while changing
      nothing.
  - `ResultsOwned` and `DoneIsSet` were added to `IInv` for this proof. A
    popped result has to come from a resolved request of that id, and an
    unset Event has to mean a dispatching request.

- **`AtMostOnceAlways`**: `Spec => []AtMostOnce`, for any tool_ids, reused
  ones included. The inductive invariant `DInv` (lemmas `InitDInv`,
  `DInvStep`, `DInvariant`) adds three facts to `TypeOK`:
  - `DeliveredResolved`: a returned result came from a finished request;
  - `StoredUndelivered`: a stored result belongs to a finished request of
    its key, and no update has returned it yet;
  - `DeliveredOnce`: no two updates returned the same request's result.

  The argument: the pop at line 249 removes the result it returns, so a
  result is returned at most once. A result stored later under the same id
  comes from another request. Lemmas `StoreStep` and `ConsumeStep` take the
  two steps that change `_tool_results`.
- **`ExactlyOnceWithUniqueIds`**: `UniqueIds => (Spec => []ExactlyOnce)`.
  It combines `DInv` with `XInv`, which is `IInv` plus two conjuncts:
  - `UnansweredUntilDone`: an update that has not returned has answered
    nothing;
  - `ResolvedDelivered`: a finished request's result is still stored or
    has been returned by some update. Lemma `ConsumeDelivers` shows the pop
    keeps this.

  With duplicate ids `ResolvedDelivered` fails: line 226 overwrites an
  unread result. The run `tool_dup_overwrite` shows this.
- **`NotLostWithUniqueIds`**: `UniqueIds => (Spec => []ResultNotLost)`.
  Its invariant `ZInv` is `XInv` plus:
  - `DeliveredOwnId`: an update only returns a result of its own id;
  - `ResultNotLost` itself.

  The argument (lemmas `ResolvedAnswered`, `ConsumeOwnId`,
  `ConsumeNotLost`, `ZInvStep`): "not found" at line 259 needs an empty
  slot. If a request for the id was already delivered when the update
  began, it is not suspended, because then its unset Event would still be
  in the dict and the update would wait. It has not crashed, by `IInv`. So
  it is done, and by `ResolvedDelivered` and `DeliveredOwnId` another
  update of the same id returned its result.
- **`NoOverwriteWithUniqueIds`**: `UniqueIds => (Spec => [][ResultKept]_vars)`.
  This is an action property: no step replaces a stored ToolResult, it only
  stays or is popped. It follows from `IInv` through lemma
  `UnfinishedNotStored`: a request that has not finished has nothing stored
  under its id. TLC confirms it on the unique-ids instance and breaks it in
  a few steps with a reused id. No run checks it, because every mutation
  that breaks it needs a reused id, which `tool_dup_overwrite` already
  shows.

### `MessageBuffer_proofs.tla`

- **`TypeCorrect`**: `Spec => []TypeOK`, for any message sets and either
  value of `EarlySignals`.
  - `TypeOK` alone is not inductive: the bound `evtGen <= 2` needs
    `InitCount`. `InitCount` says that `run()` initialises only after the
    receiver is initialised, and that at most one Event is created before
    `run()` and one by it.
  - `TInv == TypeOK /\ InitCount`.
  - The step proof splits `TypeOK` into its Boolean variables (`BoolsOK`,
    by Zenon) and the rest (`DataOK`, by SMT). The SMT backend does not
    prove obligations that mix Boolean-valued variables with arithmetic.
  - Lemma `LazyInitStep` covers a handler whose only effect on the buffers
    is the lazy init. The tool handlers of the receiver take this step.
- **`NoMessageLostAfterRun`**:
  `~EarlySignals => (Spec => []NoMessageLost)`.
  - The invariant `LInv` adds `NothingBeforeRun` to `TInv`: before `run()`
    nothing has been delivered, drained, queued or fetched, and the run task
    is not waiting.
  - `NoMessageLost` is not inductive without it, because `run()`'s
    `init_claude_receiver()` discards both buffers. `NothingBeforeRun` says
    that they are then empty.
  - Lemmas:
    - `ConcatAppend` (`s \o Append(t, x) = Append(s \o t, x)`) covers the
      signal and `send_to_claude`;
    - `TakeKeepsStream` covers the drains and the update;
    - `NothingStep` and `LostStep` give the step.
  - With early signals the theorem's hypothesis fails, and the run
    `buffer_early_loss` shows the loss.

### `Receiver_proofs.tla`

- **`TypeCorrect`**: `Spec => []TypeOK` for the composed receiver, with
  early signals allowed. The invariant is `RInv == TC!TypeOK /\ MB!TInv`.
  - Each composed step is one component's step, which is covered by that
    component's `TypeStep` or `TInvStep` lemma.
  - The exceptions are `RunInit`, which empties the tool dicts (lemma
    `RunInitTools`), and the tool handlers, whose lazy init is
    `MB!LazyInitStep`.
  - The bound of two message Events thus holds even with four handlers
    and `run()` each able to initialise the receiver.
- **`AtMostOnceAlways`**: `Spec => []AtMostOnce` for the composed
  receiver, the property the `receiver` run checks. It needs no
  hypothesis: tool_ids may repeat and signals may precede `run()`. The invariant is `DRInv == RInv /\ TC!DInv`, the
  coordinator's delivery invariant.
  - `run()`'s reset of the tool dicts leaves the returned results and the
    requests' states alone and stores nothing, so it keeps `TC!DInv`
    (lemma `RunInitDInv`).
  - Every other step is a coordinator step (`TC!DInvStep`) or leaves the
    tool variables unchanged.
- **`NoMessageLostAfterRun`**: `~EarlySignals => (Spec => []MB!NoMessageLost)`
  for the composed receiver. The invariant is `MInv == RInv /\ MB!LInv`.
  - After `run()`, a tool handler's lazy init finds the receiver
    initialised and changes nothing on the message side (lemma
    `LateToolStepIdle`). So every composed step is a message-side step or
    a message-side stutter, and `MB!LInvStep` applies.
- **`ToolSafetyAfterRun`**: with unique tool_ids and no early signals,
  `NoSignalHandlerCrash`, `TC!ExactlyOnce` and `TC!ResultNotLost` hold in
  every state of the composed receiver.
  - The invariant is `SInv == MInv /\ TC!DInv /\ TC!ZInv /\ ToolsBeforeRun`.
  - `ToolsBeforeRun` says that before `run()` the coordinator is still in
    its initial state. It is the strengthening this composition needs.
  - With `ToolsBeforeRun`, `run()`'s reset of `_tool_results` and
    `_tool_result_events` (lines 69-71) replaces empty dicts with empty
    dicts, so it leaves the coordinator's state unchanged (lemma
    `RunInitToolsIdle`). The coordinator's `ZInvStep` then applies to
    every step.
  - `ToolsBeforeRun` is itself preserved for two reasons. No tool handler
    runs before `run()` without early signals. A handler cannot return, nor
    an update resume, from the initial state (lemma `NoResumeBeforeRun`).
  - `receiver_early_crash` shows the crash when the hypothesis is dropped.
- **`RefinesRendezvousAfterRun`**: with unique tool_ids and no early
  signals, the composed receiver implements `Rendezvous!SafetySpec` under
  the coordinator's refinement mapping (`TC!ImplementsRendezvous`).
  - Tool-handler steps map through the coordinator's `RefineStep`.
  - `run()`'s init and all message steps are stutters of the abstract
    rendezvous, by `RunInitToolsIdle` and `UNCHANGED tvars`.
  - TLC confirms the refinement on the same instance (93,751 states). It
    finds the refinement broken with early signals: the reset turns a
    resolved request back into a dispatching one, which no abstract step
    does.

The receiver's proofs cite the components' lemmas by name through the
instances. These include `TC!DInvStep`, `TC!ZInvStep`, `TC!RefineStep`,
`TC!InvExactlyOnce`, `TC!DInvAtMostOnce`, `TC!InitZInv`, `MB!LInvStep`
and `MB!InitLInv`. Those lemmas were factored out of the component
theorems for this purpose.

Only model-checked, not proved:

- the liveness properties (`WaiterReleased`, `ReaderWakes`) and
  `ImplementsRendezvousFair`, because TLAPS does not handle fairness or
  ENABLED here;
- `RegistryMatchesClass`. The scan is a recursive function, and what it
  computes for every attribute list would need induction over data, which
  the installed provers cannot instantiate.
  An attempt to use `NatInduction` with a defined predicate confirms this:
  Zenon and Z3 cannot instantiate its `NEW P(_)` parameter. Even the
  defining equation of the recursive `scan` rests on `FiniteNatInductiveDef`,
  which has the same kind of parameter. No property of the registry's
  table can therefore be proved here.

The theorems about `ExactlyOnce`, `ResultNotLost`, `NoSignalHandlerCrash`
and `NoMessageLost` carry a hypothesis: unique tool_ids, or no early
signals. Without it these properties are false, and the violation runs show
the counterexamples.

## 4. Not modelled

- The session activity, the Temporal server and the Claude process. They are
  not in this repository. The models treat them as an environment that
  delivers signals and updates in any order.
- Cancellation of a signal handler task: `CancelledError` escapes
  `except Exception`.
- `clear_tool_registry`: nothing in the package calls it, so no step of the
  system runs it.
- The `execution` mode a handler is registered with: no code of the package
  reads it.
- `_pending_tool_requests` and `_tool_request_event`: `init_claude_receiver`
  creates them and only the lazy-init check at line 182 reads them.

## 5. Plan for later sittings

1. Cancellation of a suspended tool handler (`CancelledError` at line 218).
2. Proofs about the registry's heap model that do not touch the table, for
   example that a live instance's address is unique. Every property of the
   table depends on the scan, and so needs induction.
