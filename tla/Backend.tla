------------------------------- MODULE Backend -------------------------------
(***************************************************************************)
(* The Sogen backend around a Memory and an Executor                       *)
(* (sogen_backend/seven-emulator/seven_x86_64_emulator.cpp): the devices   *)
(* it remembers so that a restored memory finds its callbacks again, and   *)
(* the hook handles it gives to the host.  deserialize_state assigns a     *)
(* fresh Memory: regions come back from the buffer, access hooks do not,   *)
(* and ids are handed out again, while the handles and the executor's      *)
(* hooks stay.  A buffer outlives the backend that wrote it.               *)
(*                                                                         *)
(* Memory is used directly (layer "core", module Mmio) or through the      *)
(* backend.  The host is external: a device stands for a pair of           *)
(* callbacks.  No call is made from inside a callback here; pages are in   *)
(* module Memory, queued hook changes in HookRegistry and AccessHooks.     *)
(***************************************************************************)
EXTENDS Mmio

CONSTANTS
    Devices,      \* callback pairs of the host
    NoDevice,     \* no region answers
    HostRanges,   \* the ranges the host maps devices at
    MaxMade       \* bound on the hooks the host asks for
ASSUME DevicesAssumption == NoDevice \notin Devices /\ HostRanges \subseteq MmioRanges
ASSUME MaxMadeAssumption == MaxMade \in Nat

VARIABLES
    layer,        \* who calls Memory: "core" or "backend"
    device,       \* region id -> the callbacks inside the region
    bindings,     \* mmio_bindings_, a sequence of [range, dev]
    hooks,        \* hooks_: handles [kind, id, maker, stale]
    accessHooks,  \* access_hooks_ of memory_: [id, maker]
    executorHooks,\* the hooks of executor_: [id, maker]
    nextExecutorId, \* next_hook_id_ of executor_
    made,         \* history: hooks asked for so far, the maker of the next
    host,         \* history: range -> the device the host mapped there last
    restored,     \* history: no map_mmio since the last deserialize_state
    lost          \* history: ids removed through handles older than that

backendVars == <<device, bindings, hooks, accessHooks, executorHooks, nextExecutorId, made, host, restored, lost>>
allVars == <<layer, backendVars, mmioVars>>

Ids == 1..MaxHookId
Range(r) == <<r.base, r.size>>

NoDevices == [id \in Ids |-> NoDevice]
NothingMapped == [range \in HostRanges |-> NoDevice]

BackendInit ==
    /\ MmioInit
    /\ layer \in {"core", "backend"}
    /\ device = NoDevices
    /\ bindings = <<>> /\ hooks = {} /\ accessHooks = {} /\ executorHooks = {}
    /\ nextExecutorId = 1 /\ made = 0
    /\ host = NothingMapped /\ restored = FALSE /\ lost = {}

-----------------------------------------------------------------------------
(* Devices.                                                                *)
BindingOf(range) == {b \in DOMAIN bindings : bindings[b].range = range}

(* Mutation: a range that is mapped again gets a second binding.           *)
AlwaysAddBinding(range, dev) == Append(bindings, [range |-> range, dev |-> dev])

replace_or_add_binding(range, dev) ==
    IF BindingOf(range) = {} THEN Append(bindings, [range |-> range, dev |-> dev])
    ELSE [bindings EXCEPT ![Lowest(BindingOf(range))].dev = dev]

map_mmio(range, dev) ==
    /\ bindings' = replace_or_add_binding(range, dev)
    /\ MapMmio(range)
    /\ device' = [device EXCEPT ![nextId] = dev]
    /\ host' = [host EXCEPT ![range] = dev]
    /\ restored' = FALSE
    /\ UNCHANGED <<hooks, accessHooks, executorHooks, nextExecutorId, made, lost>>

(* The callbacks the resolver of deserialize_state finds: those of the     *)
(* first binding of the range.                                             *)
Resolver(range) ==
    IF BindingOf(range) = {} THEN NoDevice
    ELSE bindings[Lowest(BindingOf(range))].dev

serialize_state == SnapshotMmioRegions /\ UNCHANGED backendVars

deserialize_state ==
    LET resolved == {mmioSaved[k].id : k \in {j \in DOMAIN mmioSaved : Resolver(Range(mmioSaved[j])) # NoDevice}}
    IN /\ DeserializeMmioRegions(resolved)
       /\ device' = [id \in Ids |->
              IF id \in resolved THEN Resolver(Range(mmioSaved[CHOOSE k \in DOMAIN mmioSaved : mmioSaved[k].id = id]))
              ELSE NoDevice]
       /\ accessHooks' = {}
       /\ hooks' = {[h EXCEPT !.stale = h.kind = "memory"] : h \in hooks}
       /\ restored' = TRUE /\ lost' = {}
       /\ UNCHANGED <<bindings, executorHooks, nextExecutorId, made, host>>

(* The process ends and a new one creates a backend; the buffer is kept.   *)
restart ==
    /\ mmio' = <<>> /\ mmioMin' = AddrSpace - 1 /\ mmioMax' = 0 /\ nextId' = 1
    /\ device' = NoDevices
    /\ bindings' = <<>> /\ hooks' = {} /\ accessHooks' = {} /\ executorHooks' = {}
    /\ nextExecutorId' = 1 /\ made' = 0
    /\ host' = NothingMapped /\ restored' = FALSE /\ lost' = {}
    /\ UNCHANGED mmioSaved

-----------------------------------------------------------------------------
(* Hooks.                                                                  *)
Handle(kind, id) == [kind |-> kind, id |-> id, maker |-> made, stale |-> FALSE]
Entry(id) == [id |-> id, maker |-> made]

(* hook_memory_read, hook_memory_write.                                    *)
hook_memory ==
    /\ made < MaxMade /\ nextId < MaxHookId
    /\ accessHooks' = accessHooks \cup {Entry(nextId)}
    /\ hooks' = hooks \cup {Handle("memory", nextId)}
    /\ nextId' = nextId + 1 /\ made' = made + 1
    /\ UNCHANGED <<mmio, mmioMin, mmioMax, mmioSaved>>
    /\ UNCHANGED <<device, bindings, executorHooks, nextExecutorId, host, restored, lost>>

(* hook_instruction, hook_basic_block, hook_interrupt, the violation and   *)
(* the execution hooks.                                                    *)
hook_executor ==
    /\ made < MaxMade
    /\ executorHooks' = executorHooks \cup {Entry(nextExecutorId)}
    /\ hooks' = hooks \cup {Handle("executor", nextExecutorId)}
    /\ nextExecutorId' = nextExecutorId + 1 /\ made' = made + 1
    /\ UNCHANGED <<device, bindings, accessHooks, host, restored, lost, mmioVars>>

(* hook_instruction of an instruction no trap stands for.                  *)
make_local_hook ==
    /\ made < MaxMade
    /\ hooks' = hooks \cup {Handle("local", 0)}
    /\ made' = made + 1
    /\ UNCHANGED <<device, bindings, accessHooks, executorHooks, nextExecutorId, host, restored, lost, mmioVars>>

(* Mutation: the wrong one of the handle's two ids, which is 0.            *)
delete_hookByExecutorId(h) ==
    /\ h \in hooks
    /\ executorHooks' = IF h.kind = "executor" THEN {k \in executorHooks : k.id # h.id} ELSE executorHooks
    /\ hooks' = hooks \ {h}
    /\ UNCHANGED <<device, bindings, accessHooks, nextExecutorId, made, host, restored, lost, mmioVars>>

(* A handle that is not in hooks_ changes nothing.                         *)
delete_hook(h) ==
    /\ h \in hooks
    /\ executorHooks' = IF h.kind = "executor" THEN {k \in executorHooks : k.id # h.id} ELSE executorHooks
    /\ accessHooks' = IF h.kind = "memory" THEN {k \in accessHooks : k.id # h.id} ELSE accessHooks
    /\ hooks' = hooks \ {h}
    /\ lost' = IF h.stale THEN lost \cup {h.id} ELSE lost
    /\ UNCHANGED <<device, bindings, nextExecutorId, made, host, restored, mmioVars>>

-----------------------------------------------------------------------------
CoreNext == layer = "core" /\ MmioNext /\ UNCHANGED <<layer, backendVars>>

BackendNext ==
    /\ layer = "backend"
    /\ \/ \E range \in HostRanges, dev \in Devices : map_mmio(range, dev)
       \/ serialize_state
       \/ deserialize_state
       \/ restart
       \/ hook_memory
       \/ hook_executor
       \/ make_local_hook
       \/ \E h \in hooks : delete_hook(h)
    /\ UNCHANGED layer

AnyNext == CoreNext \/ BackendNext

BackendSpec == BackendInit /\ [][AnyNext]_allVars

-----------------------------------------------------------------------------
(* After deserialize_state, in the backend that wrote the buffer or in a   *)
(* later one, an access the saved regions contained is answered exactly    *)
(* when the host has registered a device for such a region, and by the     *)
(* device it registered last, however often it registered others before    *)
(* and whichever devices stood there when the buffer was written.          *)
RestoredDevices ==
    restored => \A addr \in Addr, size \in 1..AddrSpace-1 :
        LET k == FindMmioRegion(addr, size)
        IN /\ k # 0 <=> \E j \in DOMAIN mmioSaved :
                 Contains(mmioSaved[j], addr, size) /\ host[Range(mmioSaved[j])] # NoDevice
           /\ k # 0 => device[mmio[k].id] = host[Range(mmio[k])]

(* A handle stands for the hook it was made for.  The hook of a handle     *)
(* made since the last deserialize_state, and every hook of the executor,  *)
(* is installed until the handle is deleted, unless a handle from before   *)
(* that had got the same id was deleted; it is the only one with its id;   *)
(* and every installed hook has a handle that can delete it.               *)
HandlesOwnHooks ==
    /\ \A h \in hooks : h.kind # "local" /\ ~h.stale =>
          LET installed == IF h.kind = "memory" THEN accessHooks ELSE executorHooks
          IN /\ [id |-> h.id, maker |-> h.maker] \in installed \/ (h.kind = "memory" /\ h.id \in lost)
             /\ \A k \in installed : k.id = h.id => k.maker = h.maker
    /\ \A k \in accessHooks : \E h \in hooks : h.kind = "memory" /\ h.id = k.id /\ h.maker = k.maker
    /\ \A k \in executorHooks : \E h \in hooks : h.kind = "executor" /\ h.id = k.id /\ h.maker = k.maker
=============================================================================
