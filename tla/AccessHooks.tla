----------------------------- MODULE AccessHooks ----------------------------
(***************************************************************************)
(* The access hooks of Memory (seven_core/src/memory.cpp): the list, the   *)
(* two queues that hold additions and removals made while hooks run, the   *)
(* cached summary (has_any_access_hooks_, active_access_hook_kinds_) that  *)
(* lets reads and writes take the fast path and the executor use its       *)
(* decode cache, and the dispatch of an access to the hooks.               *)
(***************************************************************************)
EXTENDS SeqFilter, SequencesExt

CONSTANTS
    AccessKinds,  \* MemoryAccessKind
    Masks,        \* kind sets hooks are registered for
    MaxHooks,     \* bound: hooks ever added
    MaxRemoved,   \* bound: removals waiting
    Depth,        \* bound: accesses in progress (2: a hook accesses memory)
    Throws        \* hooks may throw

ASSUME MasksAssumption == Masks \subseteq SUBSET AccessKinds
ASSUME BoundsAssumption == {MaxHooks, MaxRemoved, Depth} \subseteq Nat /\ Throws \in BOOLEAN

VARIABLES
    hooks,        \* access_hooks_: sequence of [id, kinds]
    added,        \* pending_added_access_hooks_
    removed,      \* pending_removed_access_hooks_: sequence of ids
    dispatching,  \* dispatching_access_hooks_
    any,          \* has_any_access_hooks_
    mask,         \* active_access_hook_kinds_
    nextId,       \* next_hook_id_
    stack,        \* accesses being dispatched: [left, busy]
    broken,       \* access_hooks_ changed while a dispatch was walking it
    wanted        \* history: the hooks as if every call had taken effect at once

vars == <<hooks, added, removed, dispatching, any, mask, nextId, stack, broken, wanted>>

Init ==
    /\ hooks = <<>>
    /\ added = <<>>
    /\ removed = <<>>
    /\ dispatching = FALSE
    /\ any = FALSE
    /\ mask = {}
    /\ nextId = 1
    /\ stack = <<>>
    /\ broken = FALSE
    /\ wanted = <<>>

-----------------------------------------------------------------------------
KindsOf(list) == UNION {h.kinds : h \in ToSet(list)}
Holds(list, id) == \E h \in ToSet(list) : h.id = id

(* Mutation: queued additions are not counted.                             *)
RefreshIgnoresQueue ==
    /\ mask' = KindsOf(hooks')
    /\ any' = (dispatching' \/ hooks' # <<>>)

(* refresh_access_hook_state, on the new lists.                            *)
Refresh ==
    /\ mask' = KindsOf(hooks') \cup KindsOf(added')
    /\ any' = (dispatching' \/ hooks' # <<>> \/ added' # <<>> \/ removed' # <<>>)

(* Mutation: a removal does not reach a queued addition.                   *)
AppliedToListOnly == DropIds(hooks, ToSet(removed)) \o added

(* What apply_pending_access_hook_ops makes of the list.                   *)
Applied == DropIds(hooks \o added, ToSet(removed))

InHook == stack # <<>> /\ stack[1].busy
Outside == stack = <<>> \/ InHook     \* where a caller can be
Walked(frames) == frames # <<>>

AddAccessHook(kinds) ==
    LET h == [id |-> nextId, kinds |-> kinds]
    IN /\ Outside
       /\ nextId <= MaxHooks
       /\ nextId' = nextId + 1
       /\ wanted' = Append(wanted, h)
       /\ IF dispatching THEN added' = Append(added, h) /\ UNCHANGED hooks
          ELSE hooks' = Append(hooks, h) /\ UNCHANGED added
       /\ UNCHANGED <<removed, dispatching, stack>>
       /\ Refresh
       /\ broken' = (broken \/ (~dispatching /\ Walked(stack)))

(* Removing an unknown id changes nothing.                                 *)
RemoveAccessHook(id) ==
    /\ Outside
    /\ Len(removed) < MaxRemoved
    /\ Holds(hooks, id) \/ (dispatching /\ Holds(added, id))
    /\ wanted' = DropIds(wanted, {id})
    /\ IF dispatching THEN removed' = Append(removed, id) /\ UNCHANGED hooks
       ELSE hooks' = DropIds(hooks, {id}) /\ UNCHANGED removed
    /\ UNCHANGED <<added, dispatching, nextId, stack>>
    /\ Refresh
    /\ broken' = (broken \/ (~dispatching /\ Walked(stack)))

-----------------------------------------------------------------------------

(* Mutation: dispatching_access_hooks_ is not set.                         *)
BeginAccessUnguarded(kind) ==
    /\ Len(stack) < Depth
    /\ Outside
    /\ any
    /\ stack' = <<[left |-> SelectSeq(hooks, LAMBDA h : kind \in h.kinds), busy |-> FALSE]>>
                    \o stack
    /\ UNCHANGED <<hooks, added, removed, dispatching, any, mask, nextId, broken, wanted>>

(* access_allowed: skipped when the summary says that there are no hooks.  *)
BeginAccess(kind) ==
    /\ Len(stack) < Depth
    /\ Outside
    /\ any
    /\ dispatching' = TRUE
    /\ stack' = <<[left |-> SelectSeq(hooks, LAMBDA h : kind \in h.kinds), busy |-> FALSE]>>
                    \o stack
    /\ UNCHANGED <<hooks, added, removed, any, mask, nextId, broken, wanted>>

CallHook ==
    /\ stack # <<>>
    /\ ~stack[1].busy
    /\ stack[1].left # <<>>
    /\ stack' = [stack EXCEPT ![1].busy = TRUE, ![1].left = Tail(@)]
    /\ UNCHANGED <<hooks, added, removed, dispatching, any, mask, nextId, broken, wanted>>

(* The hook allows the access, or denies it and ends the walk.             *)
HookReturns ==
    /\ InHook
    /\ \E left \in {stack[1].left, <<>>} :
          stack' = [stack EXCEPT ![1].busy = FALSE, ![1].left = left]
    /\ UNCHANGED <<hooks, added, removed, dispatching, any, mask, nextId, broken, wanted>>

EndAccess ==
    /\ stack # <<>>
    /\ ~stack[1].busy
    /\ stack[1].left = <<>>
    /\ stack' = Tail(stack)
    /\ dispatching' = FALSE
    /\ hooks' = Applied
    /\ added' = <<>>
    /\ removed' = <<>>
    /\ Refresh
    /\ broken' = (broken \/ (hooks' # hooks /\ Walked(stack')))
    /\ UNCHANGED <<nextId, wanted>>

(* The exception leaves access_allowed and every access around it.         *)
HookThrows ==
    /\ Throws
    /\ InHook
    /\ stack' = <<>>
    /\ UNCHANGED <<hooks, added, removed, dispatching, any, mask, nextId, broken, wanted>>

Next ==
    /\ ~broken
    /\ \/ \E kinds \in Masks : AddAccessHook(kinds)
       \/ \E id \in 1..nextId-1 : RemoveAccessHook(id)
       \/ \E kind \in AccessKinds : BeginAccess(kind)
       \/ CallHook \/ HookReturns \/ EndAccess \/ HookThrows

Spec == Init /\ [][Next]_vars

-----------------------------------------------------------------------------
(* Type correctness of the list and the queues.                            *)
AccessHooksTypeOK ==
    /\ mask \subseteq AccessKinds /\ any \in BOOLEAN /\ dispatching \in BOOLEAN
    /\ nextId \in 1..MaxHooks+1
    /\ \A h \in ToSet(hooks \o added) : h.id \in 1..nextId-1 /\ h.kinds \in Masks
    /\ ToSet(removed) \subseteq 1..nextId-1

(* The fast paths skip no hook: as long as a hook is wanted the summary    *)
(* says that there are hooks and covers its kinds, with changes pending    *)
(* and after a hook that threw too (Memory::read, Memory::write and the    *)
(* decode cache's has_fetch_access_hooks rely on it).                      *)
SummaryCoversHooks ==
    \A h \in ToSet(wanted) : any /\ h.kinds \subseteq mask

(* No change is lost: the list with what is pending applied is the one the *)
(* calls asked for, in the order of registration, and outside a dispatch   *)
(* nothing is pending.                                                     *)
AccessChangesTakeEffect ==
    /\ Applied = wanted
    /\ ~dispatching => added = <<>> /\ removed = <<>> /\ any = (hooks # <<>>)

(* access_hooks_ does not change while an access walks it.                 *)
WalkedHooksStable == ~broken
=============================================================================
