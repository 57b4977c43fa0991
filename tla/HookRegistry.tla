---------------------------- MODULE HookRegistry ----------------------------
(***************************************************************************)
(* The hook lists of the Executor (seven_core/src/executor.cpp): adding    *)
(* and removing hooks from the host and from running callbacks, the        *)
(* deferral of changes while hooks are being dispatched, and the flags     *)
(* that tell step which lists to look at.                                  *)
(*                                                                         *)
(* A hook is its id.  A dispatch point walks one list, or two for          *)
(* instruction hooks; what the callbacks compute is module Executor.       *)
(***************************************************************************)
EXTENDS Integers, Sequences, SequencesExt

CONSTANTS
    Kinds,     \* lists in use: subset of AllKinds
    Points,    \* dispatch points the execution reaches: subset of AllKinds \ {"code"}
    Mutators,  \* dispatch points whose callbacks change the registry
    MaxHooks,  \* bound: hooks ever added
    MaxPending,\* bound: changes waiting
    Depth,     \* bound: dispatches in progress (2: a callback calls step)
    Throws     \* callbacks may throw

AllKinds == {"instruction", "code", "execution", "trap", "fault", "stop"}

ASSUME KindsAssumption == Kinds \subseteq AllKinds /\ Points \subseteq AllKinds \ {"code"}
ASSUME BoundsAssumption ==
    {MaxHooks, MaxPending, Depth} \subseteq Nat /\ Throws \in BOOLEAN /\ Mutators \subseteq Points

VARIABLES
    hooks,        \* kind -> sequence of ids
    flags,        \* kind -> has_<kind>_hooks_
    dispatching,  \* dispatching_hooks_
    pending,      \* pending_hook_mutations_
    nextId,       \* next_hook_id_
    stack,        \* dispatches in progress: [point, left, busy]
    broken,       \* a list was changed while a dispatch was walking it
    wanted        \* history: the lists as if every call had taken effect at once

vars == <<hooks, flags, dispatching, pending, nextId, stack, broken, wanted>>

None == [k \in AllKinds |-> <<>>]

Init ==
    /\ hooks = None
    /\ flags = [k \in AllKinds |-> FALSE]
    /\ dispatching = FALSE
    /\ pending = <<>>
    /\ nextId = 1
    /\ stack = <<>>
    /\ broken = FALSE
    /\ wanted = None

-----------------------------------------------------------------------------
(* One change of the registry: add_*_hook, remove_hook, clear_hooks.       *)
Change(h, op) ==
    CASE op.op = "add" -> [h EXCEPT ![op.kind] = Append(@, op.id)]
      [] op.op = "remove" -> [k \in AllKinds |-> SelectSeq(h[k], LAMBDA id : id # op.id)]
      [] op.op = "clear" -> None

(* refresh_hook_flags.                                                     *)
RefreshedFlags(h) == [k \in AllKinds |-> h[k] # <<>>]

(* apply_pending_hook_mutations, in the order the calls were made.         *)
AfterOps(h, ops) ==
    LET after[n \in 0..Len(ops)] == IF n = 0 THEN h ELSE Change(after[n-1], ops[n])
    IN after[Len(ops)]

Applied == AfterOps(hooks, pending)

Lists(point) == IF point = "instruction" THEN {"instruction", "code"} ELSE {point}

(* The list of some dispatch in progress changes under it.                 *)
Disturbs(h, frames) ==
    \E n \in DOMAIN frames : \E k \in Lists(frames[n].point) : h[k] # hooks[k]

InCallback == stack # <<>> /\ stack[1].busy
MayMutate == stack = <<>> \/ (InCallback /\ stack[1].point \in Mutators)

(* While a dispatch has dispatching_hooks_ set the change is queued.       *)
Mutate(op) ==
    /\ MayMutate
    /\ wanted' = Change(wanted, op)
    /\ UNCHANGED <<dispatching, stack>>
    /\ IF dispatching
       THEN /\ Len(pending) < MaxPending
            /\ pending' = Append(pending, op)
            /\ UNCHANGED <<hooks, flags, broken>>
       ELSE /\ hooks' = Change(hooks, op)
            /\ flags' = RefreshedFlags(hooks')
            /\ pending' = IF op.op = "clear" THEN <<>> ELSE pending
            /\ broken' = (broken \/ Disturbs(hooks', stack))

AddHook(kind) ==
    /\ nextId <= MaxHooks
    /\ nextId' = nextId + 1
    /\ Mutate([op |-> "add", kind |-> kind, id |-> nextId])

RemoveHook(id) == Mutate([op |-> "remove", id |-> id]) /\ UNCHANGED nextId

ClearHooks == Mutate([op |-> "clear"]) /\ UNCHANGED nextId

-----------------------------------------------------------------------------
(* Dispatch.  Frames are pushed at the front.                              *)
MayDispatch == Len(stack) < Depth /\ (stack = <<>> \/ InCallback)

Push(point, walk) ==
    stack' = <<[point |-> point, left |-> walk, busy |-> FALSE]>> \o stack

(* run_instruction_hooks, called when a flag says that there are hooks;    *)
(* what is pending is applied first.  The code hooks are those for the     *)
(* code of the instruction: it has some or none.                           *)
DispatchInstruction ==
    LET h == Applied
    IN /\ "instruction" \in Points
       /\ MayDispatch
       /\ flags["instruction"] \/ flags["code"]
       /\ hooks' = h
       /\ pending' = <<>>
       /\ flags' = IF pending = <<>> THEN flags ELSE RefreshedFlags(h)
       /\ broken' = (broken \/ Disturbs(h, stack))
       /\ \E walk \in {h["instruction"], h["instruction"] \o h["code"]} :
             IF walk = <<>> THEN UNCHANGED <<dispatching, stack>>
             ELSE dispatching' = TRUE /\ Push("instruction", walk)
       /\ UNCHANGED <<nextId, wanted>>

(* Mutation: dispatching_hooks_ is not set.                                *)
DispatchListedUnguarded(point) ==
    /\ point \in Points
    /\ MayDispatch
    /\ hooks[point] # <<>>
    /\ Push(point, hooks[point])
    /\ UNCHANGED <<hooks, flags, dispatching, pending, nextId, broken, wanted>>

(* run_trap_hooks, run_fault_hooks, notify_stop_hooks: nothing happens     *)
(* when the list is empty.                                                 *)
DispatchListed(point) ==
    /\ point \in Points
    /\ MayDispatch
    /\ hooks[point] # <<>>
    /\ dispatching' = TRUE
    /\ Push(point, hooks[point])
    /\ UNCHANGED <<hooks, flags, pending, nextId, broken, wanted>>

(* run_trap_hooks for a kind whose last hook was removed: the empty entry  *)
(* is still in the map, and what is pending gets applied.                  *)
DispatchNoTrapHook ==
    /\ "trap" \in Points
    /\ MayDispatch
    /\ hooks["trap"] = <<>> /\ nextId > 1
    /\ dispatching' = FALSE
    /\ hooks' = Applied
    /\ pending' = <<>>
    /\ flags' = IF pending = <<>> THEN flags ELSE RefreshedFlags(hooks')
    /\ broken' = (broken \/ Disturbs(hooks', stack))
    /\ UNCHANGED <<nextId, stack, wanted>>

(* step walks the execution hooks itself, without dispatching_hooks_.      *)
DispatchExecution ==
    /\ "execution" \in Points
    /\ MayDispatch
    /\ flags["execution"]
    /\ Push("execution", hooks["execution"])
    /\ UNCHANGED <<hooks, flags, dispatching, pending, nextId, broken, wanted>>

CallHook ==
    /\ stack # <<>>
    /\ ~stack[1].busy
    /\ stack[1].left # <<>>
    /\ stack' = [stack EXCEPT ![1].busy = TRUE, ![1].left = Tail(@)]
    /\ UNCHANGED <<hooks, flags, dispatching, pending, nextId, broken, wanted>>

(* The callback returns; a verdict other than continue ends the walk,      *)
(* where verdicts are looked at.                                           *)
HookReturns ==
    /\ InCallback
    /\ \/ stack' = [stack EXCEPT ![1].busy = FALSE]
       \/ /\ stack[1].point \notin {"execution", "stop"}
          /\ stack' = [stack EXCEPT ![1].busy = FALSE, ![1].left = <<>>]
    /\ UNCHANGED <<hooks, flags, dispatching, pending, nextId, broken, wanted>>

(* Mutation: the flags are not refreshed.                                  *)
EndDispatchStaleFlags ==
    /\ stack # <<>> /\ ~stack[1].busy /\ stack[1].left = <<>>
    /\ stack' = Tail(stack)
    /\ dispatching' = FALSE
    /\ hooks' = Applied
    /\ pending' = <<>>
    /\ UNCHANGED <<nextId, wanted, flags, broken>>

(* The end of a walk: clear dispatching_hooks_, apply what is pending.     *)
EndDispatch ==
    /\ stack # <<>>
    /\ ~stack[1].busy
    /\ stack[1].left = <<>>
    /\ stack' = Tail(stack)
    /\ UNCHANGED <<nextId, wanted>>
    /\ IF stack[1].point = "execution"
       THEN UNCHANGED <<hooks, flags, dispatching, pending, broken>>
       ELSE /\ dispatching' = FALSE
            /\ hooks' = Applied
            /\ pending' = <<>>
            /\ flags' = IF pending = <<>> THEN flags ELSE RefreshedFlags(hooks')
            /\ broken' = (broken \/ Disturbs(hooks', stack'))

(* The callback throws: the exception leaves step, run and the backend's   *)
(* start, which rethrows it.                                               *)
HookThrows ==
    /\ Throws
    /\ InCallback
    /\ stack' = <<>>
    /\ UNCHANGED <<hooks, flags, dispatching, pending, nextId, broken, wanted>>

Next ==
    /\ ~broken
    /\ \/ \E kind \in Kinds : AddHook(kind)
       \/ \E id \in 1..nextId-1 : RemoveHook(id)
       \/ ClearHooks
       \/ DispatchInstruction
       \/ \E point \in {"trap", "fault", "stop"} : DispatchListed(point)
       \/ DispatchNoTrapHook
       \/ DispatchExecution
       \/ CallHook \/ HookReturns \/ EndDispatch \/ HookThrows

Spec == Init /\ [][Next]_vars

-----------------------------------------------------------------------------
(* Type correctness of the registry.                                       *)
RegistryTypeOK ==
    /\ DOMAIN hooks = AllKinds /\ DOMAIN flags = AllKinds
    /\ \A k \in AllKinds : Len(hooks[k]) < nextId
    /\ dispatching \in BOOLEAN
    /\ Len(pending) <= MaxPending
    /\ Len(stack) <= Depth

(* No change is lost: the lists with what is pending applied are the lists *)
(* the calls asked for, hooks in the order of their registration.  Outside *)
(* dispatching_hooks_ nothing is pending and every flag says whether its   *)
(* list is empty, so step skips no list that has a hook.                   *)
MutationsTakeEffect ==
    /\ Applied = wanted
    /\ ~dispatching => pending = <<>> /\ flags = RefreshedFlags(hooks)

(* No list changes while a dispatch walks it (a range-based for over a     *)
(* vector, which a change would invalidate).                               *)
WalkedListsStable == ~broken
=============================================================================
