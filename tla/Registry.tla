------------------------------ MODULE Registry ------------------------------
(***************************************************************************)
(* The tool handler registry (_tool_decorator.py) and the workflow         *)
(* instances that fill it.  ToolRegistry maps a tool name to the handler   *)
(* registered last for it.  The registries live in the process-wide dict   *)
(* _WORKFLOW_TOOL_REGISTRY keyed by id(instance), which CPython reuses for *)
(* a new object once the old one is freed; nothing in the package calls   *)
(* clear_tool_registry.  register_tool_handlers scans dir(instance), in    *)
(* the sorted order dir() returns, and registers every callable attribute  *)
(* the @claude_tool decorator tagged, skipping attributes whose lookup     *)
(* raises.                                                                 *)
(*                                                                         *)
(* The environment is the Temporal worker and the CPython heap: the worker *)
(* creates a workflow instance at a free address, runs it, and evicts it;  *)
(* the instance's memory is freed once nothing refers to it.  A registered *)
(* handler is a bound method and so refers to its instance.                *)
(***************************************************************************)
EXTENDS Naturals, FiniteSets

CONSTANTS
  Tools,      \* tool names
  NAttrs,     \* attributes of a workflow class, numbered in dir() order
  Classes,    \* workflow classes
  Kind,       \* Kind[c][a]: what getattr(instance, a) gives for class c
  Tag,        \* Tag[c][a]: the _claude_tool_name of a tagged attribute
  Insts,      \* workflow instances the worker creates, each at most once
  InstClass,  \* InstClass[i]: the class of instance i
  NAddrs,     \* heap addresses, i.e. the values id() can return
  NoInst      \* no object at an address; a handler bound to nothing

Attrs == 1 .. NAttrs
Addrs == 1 .. NAddrs
NoAddr == 0

(* "handler": a method carrying _claude_tool_name; "plain": an attribute  *)
(* without it (or not callable); "raising": a property whose getter       *)
(* raises when register_tool_handlers reads it.                           *)
AttrKinds == {"handler", "plain", "raising"}

ASSUME RegistryAssumption ==
  /\ NAttrs \in Nat /\ NAddrs \in Nat
  /\ Kind \in [Classes -> [Attrs -> AttrKinds]]
  /\ Tag \in [Classes -> [Attrs -> Tools]]
  /\ InstClass \in [Insts -> Classes]
  /\ NoInst \notin Insts

(* A ToolHandler: the attribute whose bound method it holds and the       *)
(* instance that method is bound to.  The execution mode it also records  *)
(* is read by no code of the package and is left out.                     *)
Entries == [attr : Attrs, inst : Insts]
NoHandler == [attr |-> 0, inst |-> NoInst]
Registries == [Tools -> Entries \cup {NoHandler}]

(* ToolRegistry(): an empty handlers dict.                                *)
EmptyRegistry == [t \in Tools |-> NoHandler]

(* The @claude_tool decorator (lines 176-182) sets _claude_tool_name and  *)
(* _claude_tool_execution on the function; getattr on the instance gives  *)
(* a bound method that forwards both, so callable(attr) and hasattr(attr, *)
(* "_claude_tool_name") hold exactly for the tagged methods.              *)
IsTagged(c, a) == Kind[c][a] = "handler"

VARIABLES
  inTable,  \* the keys of _WORKFLOW_TOOL_REGISTRY
  table,    \* table[a]: the ToolRegistry stored under key a
  at,       \* at[a]: the object living at address a
  addr,     \* addr[i]: id(i) once instance i exists
  status,   \* status[i]: "unborn", "live", "evicted" or "freed"
  inited,   \* instance i has run init_claude_receiver
  ran,      \* the run method of instance i has started
  hasReg    \* hasattr(i, "_tool_registry")

vars == <<inTable, table, at, addr, status, inited, ran, hasReg>>

TypeOK ==
  /\ inTable \subseteq Addrs
  /\ table \in [Addrs -> Registries]
  /\ at \in [Addrs -> Insts \cup {NoInst}]
  /\ addr \in [Insts -> Addrs \cup {NoAddr}]
  /\ status \in [Insts -> {"unborn", "live", "evicted", "freed"}]
  /\ inited \in [Insts -> BOOLEAN]
  /\ ran \in [Insts -> BOOLEAN]
  /\ hasReg \in [Insts -> BOOLEAN]

(* A fresh worker process: the module-level dict is empty.               *)
Init ==
  /\ inTable = {}
  /\ table = [a \in Addrs |-> EmptyRegistry]
  /\ at = [a \in Addrs |-> NoInst]
  /\ addr = [i \in Insts |-> NoAddr]
  /\ status = [i \in Insts |-> "unborn"]
  /\ inited = [i \in Insts |-> FALSE]
  /\ ran = [i \in Insts |-> FALSE]
  /\ hasReg = [i \in Insts |-> FALSE]

(* Mutant: register keeps the first handler for a name (setdefault).      *)
RegisterFirstWins(reg, t, e) ==
  IF reg[t] = NoHandler THEN [reg EXCEPT ![t] = e] ELSE reg

(* ToolRegistry.register (lines 56-73): insert or replace the entry.      *)
Register(reg, t, e) == [reg EXCEPT ![t] = e]

(* get_tool_registry(instance) (lines 102-114): the registry stored under *)
(* id(instance), a fresh one if the key is absent.                        *)
RegistryAt(a) == IF a \in inTable THEN table[a] ELSE EmptyRegistry

(* register_tool_handlers(i) (lines 185-210): fold register over the      *)
(* attributes in dir() order; a raising getattr is caught and skipped.    *)
RegisterToolHandlers(i) ==
  LET c == InstClass[i]
      scan[k \in 0 .. NAttrs] ==
        IF k = 0 THEN RegistryAt(addr[i])
        ELSE IF IsTagged(c, k)
             THEN Register(scan[k - 1], Tag[c][k], [attr |-> k, inst |-> i])
             ELSE scan[k - 1]
  IN  /\ inTable' = inTable \cup {addr[i]}
      /\ table' = [table EXCEPT ![addr[i]] = scan[NAttrs]]
      /\ hasReg' = [hasReg EXCEPT ![i] = TRUE]

(* init_claude_receiver (lines 57-74), for the registry: line 74 rescans  *)
(* and stores the registry in self._tool_registry.                        *)
InitReceiver(i) ==
  /\ inited' = [inited EXCEPT ![i] = TRUE]
  /\ RegisterToolHandlers(i)

(* The run method's first statement calls init_claude_receiver.          *)
RunInit(i) ==
  /\ status[i] = "live" /\ ~ran[i]
  /\ ran' = [ran EXCEPT ![i] = TRUE]
  /\ InitReceiver(i)
  /\ UNCHANGED <<at, addr, status>>

(* A signal or update handler that finds the receiver uninitialised       *)
(* (lines 86-88, 182-183, ...) initialises it lazily.                     *)
HandlerInit(i) ==
  /\ status[i] = "live" /\ ~inited[i]
  /\ InitReceiver(i)
  /\ UNCHANGED <<at, addr, status, ran>>

(* ClaudeMessageReceiver.get_tool_registry (lines 165-173): scan only if  *)
(* self._tool_registry is missing; otherwise it just returns it.           *)
GetToolRegistry(i) ==
  /\ ~hasReg[i]
  /\ RegisterToolHandlers(i)

(* The get_registered_tools query (lines 262-270).  It only reads, except *)
(* when it reaches an instance whose run method has not initialised the    *)
(* receiver: then get_tool_registry scans and fills the global table.      *)
GetRegisteredTools(i) ==
  /\ status[i] = "live"
  /\ GetToolRegistry(i)
  /\ UNCHANGED <<at, addr, status, inited, ran>>

(* Something still refers to instance i: a handler bound to it is stored  *)
(* in the global table.                                                    *)
Referenced(i) == \E a \in inTable, t \in Tools : table[a][t].inst = i

(* The worker creates a workflow instance at a free address.              *)
NewInstance(i) ==
  /\ status[i] = "unborn"
  /\ \E a \in Addrs :
       /\ at[a] = NoInst
       /\ at' = [at EXCEPT ![a] = i]
       /\ addr' = [addr EXCEPT ![i] = a]
  /\ status' = [status EXCEPT ![i] = "live"]
  /\ UNCHANGED <<inTable, table, inited, ran, hasReg>>

(* The worker drops the instance: the workflow completed or was evicted   *)
(* from the cache.  No code of the package runs.                          *)
Evict(i) ==
  /\ status[i] = "live"
  /\ status' = [status EXCEPT ![i] = "evicted"]
  /\ UNCHANGED <<inTable, table, at, addr, inited, ran, hasReg>>

(* CPython frees an evicted instance nothing refers to; its address may   *)
(* then be handed to a new object.                                         *)
Free(i) ==
  /\ status[i] = "evicted" /\ ~Referenced(i)
  /\ status' = [status EXCEPT ![i] = "freed"]
  /\ at' = [at EXCEPT ![addr[i]] = NoInst]
  /\ UNCHANGED <<inTable, table, addr, inited, ran, hasReg>>

Next ==
  \E i \in Insts :
    \/ NewInstance(i) \/ RunInit(i) \/ HandlerInit(i) \/ GetRegisteredTools(i)
    \/ Evict(i) \/ Free(i)

Spec == Init /\ [][Next]_vars

-----------------------------------------------------------------------------
(* The last attribute in dir() order that the decorator tagged with t.    *)
LastTagged(c, t) ==
  LET S == {a \in Attrs : IsTagged(c, a) /\ Tag[c][a] = t}
  IN  IF S = {} THEN 0 ELSE CHOOSE a \in S : \A b \in S : b <= a

(* The registry the spec asks for (last-writer-wins, raising attributes   *)
(* skipped): each tool maps to its last tagged method, bound to i.        *)
RefRegistry(i) ==
  [t \in Tools |-> IF LastTagged(InstClass[i], t) = 0 THEN NoHandler
                   ELSE [attr |-> LastTagged(InstClass[i], t), inst |-> i]]

(* Every live instance that holds a registry dispatches through exactly   *)
(* the registry its own class calls for: the last tagged method per tool, *)
(* bound to itself, and nothing left over from an earlier object that had *)
(* the same id() and whose registry the global dict kept.                 *)
RegistryMatchesClass ==
  \A i \in Insts :
    status[i] = "live" /\ hasReg[i] => table[addr[i]] = RefRegistry(i)

(* clear_tool_registry is documented as "Called during workflow cleanup": *)
(* every registry in the global dict belongs to a live instance.           *)
TableHoldsOnlyLive ==
  \A a \in inTable : at[a] # NoInst /\ status[at[a]] = "live"
=============================================================================
