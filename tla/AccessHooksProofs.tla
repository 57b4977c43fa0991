-------------------------- MODULE AccessHooksProofs -------------------------
(* The access hooks of Memory keep their promises for any number of hooks, *)
(* kinds and changes made while hooks run, with hooks that throw.          *)
EXTENDS AccessHooks, OperatorProofs

Hook == [id : Nat, kinds : SUBSET AccessKinds]

(* The lists are lists of hooks, and only ids given out are removed.       *)
ListsTyped ==
    /\ hooks \in Seq(Hook) /\ added \in Seq(Hook) /\ wanted \in Seq(Hook)
    /\ nextId \in Nat
    /\ removed \in Seq(Nat) /\ \A id \in ToSet(removed) : id < nextId
    /\ dispatching \in BOOLEAN

(* What the calls asked for, and that queues are for dispatches only.      *)
QueuesExact ==
    /\ Applied = wanted
    /\ ~dispatching => added = <<>> /\ removed = <<>>

(* The summary is the one of the lists as they are.                        *)
SummaryExact ==
    /\ any \in BOOLEAN
    /\ any <=> (dispatching \/ hooks # <<>> \/ added # <<>> \/ removed # <<>>)
    /\ mask = KindsOf(hooks) \cup KindsOf(added)

(* The inductive invariant.                                                *)
HInv == ListsTyped /\ QueuesExact /\ SummaryExact

-----------------------------------------------------------------------------
(* ToSet of the community modules is Elements.                             *)
LEMMA ToSetIsElements ==
    ASSUME NEW S, NEW s \in Seq(S) PROVE ToSet(s) = Elements(s)
BY DEF ToSet, Elements

LEMMA ToSetAppend ==
    ASSUME NEW S, NEW s \in Seq(S), NEW x \in S
    PROVE  ToSet(Append(s, x)) = ToSet(s) \cup {x}
<1>1. Append(s, x) \in Seq(S)
  OBVIOUS
<1>2. ToSet(Append(s, x)) = Elements(Append(s, x))
  BY <1>1, ToSetIsElements
<1>3. ToSet(s) = Elements(s)
  BY ToSetIsElements
<1>4. Elements(Append(s, x)) = Elements(s) \cup {x}
  BY ElementsAppend
<1> QED
  BY <1>2, <1>3, <1>4

LEMMA ToSetEmpty == ToSet(<<>>) = {}
BY DEF ToSet

(* Appending to the second of two joined lists.                            *)
LEMMA JoinAppend ==
    ASSUME NEW S, NEW s \in Seq(S), NEW t \in Seq(S), NEW x \in S
    PROVE  s \o Append(t, x) = Append(s \o t, x) /\ s \o t \in Seq(S)
OBVIOUS

LEMMA EmptyTyped == \A S : <<>> \in Seq(S)
OBVIOUS

LEMMA AppendTyped ==
    ASSUME NEW S, NEW s \in Seq(S), NEW x \in S PROVE Append(s, x) \in Seq(S)
OBVIOUS

LEMMA JoinEmpty == ASSUME NEW S, NEW s \in Seq(S) PROVE s \o <<>> = s
OBVIOUS

(* The initial state.                                                      *)
LEMMA InitHInv == Init => HInv
<1> SUFFICES ASSUME Init PROVE HInv
  OBVIOUS
<1>1. ListsTyped
  BY ToSetEmpty, EmptyTyped DEF Init, ListsTyped
<1>2. QueuesExact
  <2>1. <<>> \o <<>> = <<>>
    OBVIOUS
  <2> QED
    BY <2>1, DropIdsEmpty DEF Init, QueuesExact, Applied
<1>3. SummaryExact
  BY ToSetEmpty DEF Init, SummaryExact, KindsOf
<1> QED
  BY <1>1, <1>2, <1>3 DEF HInv

(* refresh_access_hook_state computes the summary.                         *)
LEMMA RefreshExact == ASSUME Refresh PROVE SummaryExact'
<1>1. any' \in BOOLEAN
  BY DEF Refresh
<1>2. any' <=> (dispatching' \/ hooks' # <<>> \/ added' # <<>> \/ removed' # <<>>)
  BY DEF Refresh
<1>3. mask' = KindsOf(hooks') \cup KindsOf(added')
  BY DEF Refresh
<1>4. KindsOf(hooks)' = KindsOf(hooks') /\ KindsOf(added)' = KindsOf(added')
  BY DEF KindsOf, ToSet
<1> QED
  BY <1>1, <1>2, <1>3, <1>4 DEF SummaryExact

(* add_access_hook: the new hook is after all others, in the list or in    *)
(* the queue, and no removal that waits is about it.                       *)
LEMMA AddKeepsInv ==
    ASSUME HInv, NEW kinds \in Masks, AddAccessHook(kinds) PROVE HInv'
<1> DEFINE h == [id |-> nextId, kinds |-> kinds]
<1>1. h \in Hook
  BY MasksAssumption DEF Hook, HInv, ListsTyped
<1>2. h.id = nextId
  OBVIOUS
<1>3. /\ wanted' = Append(wanted, h) /\ nextId' = nextId + 1
      /\ IF dispatching THEN added' = Append(added, h) /\ hooks' = hooks
         ELSE hooks' = Append(hooks, h) /\ added' = added
      /\ removed' = removed /\ dispatching' = dispatching
      /\ Refresh
  BY DEF AddAccessHook
<1> HIDE DEF h
<1>4. ListsTyped'
  <2>1. \A id \in ToSet(removed) : id \in Nat
    BY ToSetIsElements DEF HInv, ListsTyped, Elements
  <2>2. ToSet(removed') = ToSet(removed)
    BY <1>3
  <2>3. nextId' \in Nat /\ \A id \in ToSet(removed) : id < nextId'
    BY <1>3, <2>1 DEF HInv, ListsTyped
  <2>4. hooks' \in Seq(Hook) /\ added' \in Seq(Hook) /\ wanted' \in Seq(Hook)
    BY <1>1, <1>3, AppendTyped DEF HInv, ListsTyped
  <2> QED
    BY <1>3, <2>2, <2>3, <2>4 DEF HInv, ListsTyped
<1>5. QueuesExact'
  <2> DEFINE R == ToSet(removed)
  <2>1. h.id \notin R
    BY <1>2 DEF HInv, ListsTyped
  <2>2. Applied' = DropIds(hooks' \o added', ToSet(removed'))
    BY DEF Applied
  <2>3. ToSet(removed') = R
    BY <1>3
  <2>4. hooks' \o added' = Append(hooks \o added, h) /\ hooks \o added \in Seq(Hook)
    <3>0. hooks \in Seq(Hook) /\ added \in Seq(Hook)
      BY DEF HInv, ListsTyped
    <3>1. CASE dispatching
      <4>1. hooks' = hooks /\ added' = Append(added, h)
        BY <1>3, <3>1
      <4> QED
        BY <1>1, <3>0, <4>1, JoinAppend
    <3>2. CASE ~dispatching
      <4>1. added = <<>> /\ added' = <<>> /\ hooks' = Append(hooks, h)
        BY <1>3, <3>2 DEF HInv, QueuesExact
      <4>2. hooks' \in Seq(Hook) /\ hooks \in Seq(Hook)
        BY <1>4 DEF HInv, ListsTyped
      <4> QED
        BY <4>1, <4>2, JoinEmpty
    <3> QED
      BY <3>1, <3>2
  <2> HIDE DEF R
  <2> DEFINE all == hooks \o added
  <2>5. Applied' = Append(DropIds(hooks \o added, R), h)
    <3>1. all \in Seq(Hook) /\ Applied' = DropIds(Append(all, h), R)
      BY <2>2, <2>3, <2>4
    <3> HIDE DEF all
    <3>2. DropIds(Append(all, h), R) = Append(DropIds(all, R), h)
      BY <1>1, <2>1, <3>1, DropIdsAppend
    <3> QED
      BY <3>1, <3>2 DEF all
  <2>6. Applied' = wanted'
    BY <1>3, <2>5 DEF R, HInv, QueuesExact, Applied
  <2> QED
    BY <1>3, <2>6 DEF HInv, QueuesExact
<1>6. SummaryExact'
  BY <1>3, RefreshExact
<1> QED
  BY <1>4, <1>5, <1>6 DEF HInv

(* remove_access_hook: dropped from the list, or later together with what  *)
(* else waits.                                                             *)
LEMMA RemoveKeepsInv ==
    ASSUME HInv, NEW id \in 1..nextId-1, RemoveAccessHook(id) PROVE HInv'
<1>1. /\ wanted' = DropIds(wanted, {id}) /\ nextId' = nextId
      /\ IF dispatching THEN removed' = Append(removed, id) /\ hooks' = hooks
         ELSE hooks' = DropIds(hooks, {id}) /\ removed' = removed
      /\ added' = added /\ dispatching' = dispatching
      /\ Refresh
  BY DEF RemoveAccessHook
<1>2. id \in Nat /\ id < nextId
  BY DEF HInv, ListsTyped
<1>3. ToSet(removed') = IF dispatching THEN ToSet(removed) \cup {id} ELSE ToSet(removed)
  <2>1. removed \in Seq(Nat)
    BY DEF HInv, ListsTyped
  <2>2. ToSet(Append(removed, id)) = ToSet(removed) \cup {id}
    BY <1>2, <2>1, ToSetAppend
  <2> QED
    BY <1>1, <2>2
<1>4. ListsTyped'
  <2>1. hooks' \in Seq(Hook) /\ wanted' \in Seq(Hook)
    BY <1>1, DropIdsType DEF HInv, ListsTyped
  <2>2. removed' \in Seq(Nat)
    BY <1>1, <1>2, AppendTyped DEF HInv, ListsTyped
  <2> QED
    BY <1>1, <1>2, <1>3, <2>1, <2>2 DEF HInv, ListsTyped
<1>5. QueuesExact'
  <2>0. hooks \o added \in Seq(Hook) /\ hooks \in Seq(Hook)
    BY DEF HInv, ListsTyped
  <2>1. Applied' = DropIds(hooks' \o added', ToSet(removed'))
    BY DEF Applied
  <2>2. wanted = DropIds(hooks \o added, ToSet(removed))
    BY DEF HInv, QueuesExact, Applied
  <2>3. CASE dispatching
    <3>1. Applied' = DropIds(hooks \o added, ToSet(removed) \cup {id})
      BY <1>1, <1>3, <2>1, <2>3
    <3>2. Applied' = DropIds(DropIds(hooks \o added, ToSet(removed)), {id})
      <4> DEFINE all == hooks \o added
                 R == ToSet(removed)
      <4> HIDE DEF all, R
      <4>1. all \in Seq(Hook)
        BY <2>0 DEF all
      <4>2. DropIds(DropIds(all, R), {id}) = DropIds(all, R \cup {id})
        BY <4>1, DropIdsTwice
      <4> QED
        BY <3>1, <4>2 DEF all, R
    <3> QED
      BY <1>1, <2>2, <2>3, <3>2 DEF QueuesExact
  <2>4. CASE ~dispatching
    <3>1. added = <<>> /\ removed = <<>> /\ added' = <<>> /\ removed' = <<>>
      BY <1>1, <2>4 DEF HInv, QueuesExact
    <3>2. hooks' \in Seq(Hook)
      BY <1>4 DEF ListsTyped
    <3>3. wanted = hooks
      BY <2>0, <2>2, <3>1, ToSetEmpty, JoinEmpty, DropIdsNone
    <3>4. Applied' = hooks'
      BY <2>1, <3>1, <3>2, ToSetEmpty, JoinEmpty, DropIdsNone
    <3> QED
      BY <1>1, <2>4, <3>1, <3>3, <3>4 DEF QueuesExact
  <2> QED
    BY <2>3, <2>4
<1>6. SummaryExact'
  BY <1>1, RefreshExact
<1> QED
  BY <1>4, <1>5, <1>6 DEF HInv

(* apply_pending_access_hook_ops at the end of a dispatch.                 *)
LEMMA EndKeepsInv ==
    ASSUME HInv, EndAccess PROVE HInv'
<1>1. /\ dispatching' = FALSE /\ hooks' = Applied /\ added' = <<>> /\ removed' = <<>>
      /\ nextId' = nextId /\ wanted' = wanted
      /\ Refresh
  BY DEF EndAccess
<1>2. hooks' = wanted /\ hooks' \in Seq(Hook)
  BY <1>1 DEF HInv, QueuesExact, ListsTyped
<1>3. ListsTyped'
  <2>1. ToSet(removed') = {}
    BY <1>1, ToSetEmpty
  <2> QED
    BY <1>1, <1>2, <2>1, EmptyTyped DEF HInv, ListsTyped
<1>4. QueuesExact'
  <2>1. Applied' = DropIds(hooks' \o added', ToSet(removed'))
    BY DEF Applied
  <2>2. Applied' = hooks'
    BY <1>1, <1>2, <2>1, ToSetEmpty, JoinEmpty, DropIdsNone
  <2> QED
    BY <1>1, <1>2, <2>2 DEF QueuesExact
<1>5. SummaryExact'
  BY <1>1, RefreshExact
<1> QED
  BY <1>3, <1>4, <1>5 DEF HInv

(* Steps that leave the lists alone.                                       *)
LEMMA ListsKept ==
    ASSUME HInv, UNCHANGED <<hooks, added, removed, dispatching, any, mask, nextId, wanted>>
    PROVE  HInv'
BY DEF HInv, ListsTyped, QueuesExact, SummaryExact, Applied, KindsOf, ToSet

(* An access that begins finds any set.                                    *)
LEMMA BeginKeepsInv ==
    ASSUME HInv, NEW kind, BeginAccess(kind) PROVE HInv'
<1>1. /\ any /\ dispatching' = TRUE
      /\ UNCHANGED <<hooks, added, removed, any, mask, nextId, wanted>>
  BY DEF BeginAccess
<1>2. ListsTyped'
  BY <1>1 DEF HInv, ListsTyped, ToSet
<1>3. QueuesExact'
  BY <1>1 DEF HInv, QueuesExact, Applied, ToSet
<1>4. SummaryExact'
  BY <1>1 DEF HInv, SummaryExact, KindsOf, ToSet
<1> QED
  BY <1>2, <1>3, <1>4 DEF HInv

LEMMA NextHInv == HInv /\ [Next]_vars => HInv'
<1> SUFFICES ASSUME HInv, [Next]_vars PROVE HInv'
  OBVIOUS
<1>1. CASE \E kinds \in Masks : AddAccessHook(kinds)
  BY <1>1, AddKeepsInv
<1>2. CASE \E id \in 1..nextId-1 : RemoveAccessHook(id)
  BY <1>2, RemoveKeepsInv
<1>3. CASE \E kind \in AccessKinds : BeginAccess(kind)
  BY <1>3, BeginKeepsInv
<1>4. CASE EndAccess
  BY <1>4, EndKeepsInv
<1>5. CASE CallHook \/ HookReturns \/ HookThrows
  BY <1>5, ListsKept DEF CallHook, HookReturns, HookThrows
<1>6. CASE UNCHANGED vars
  BY <1>6, ListsKept DEF vars
<1> QED
  BY <1>1, <1>2, <1>3, <1>4, <1>5, <1>6 DEF Next

-----------------------------------------------------------------------------
(* The fast paths of read and write and the decode cache skip no hook that *)
(* add_access_hook was asked for and remove_access_hook was not, however   *)
(* the calls and the dispatches interleave, nested ones included.          *)
THEOREM SummaryAlwaysCovers == Spec => []SummaryCoversHooks
<1>1. HInv => SummaryCoversHooks
  <2> SUFFICES ASSUME HInv, NEW h \in ToSet(wanted)
               PROVE  any /\ h.kinds \subseteq mask
    BY DEF SummaryCoversHooks
  <2>0. hooks \in Seq(Hook) /\ added \in Seq(Hook) /\ wanted \in Seq(Hook)
    BY DEF HInv, ListsTyped
  <2>1. hooks \o added \in Seq(Hook)
    BY <2>0
  <2>2. h \in Elements(hooks \o added)
    <3>1. h \in Elements(DropIds(hooks \o added, ToSet(removed)))
      BY <2>0, ToSetIsElements DEF HInv, QueuesExact, Applied
    <3> QED
      BY <2>1, <3>1, DropIdsElements
  <2>3. h \in ToSet(hooks) \/ h \in ToSet(added)
    BY <2>0, <2>2 DEF Elements, ToSet
  <2>4. hooks # <<>> \/ added # <<>>
    BY <2>3, ToSetEmpty
  <2>5. any
    BY <2>4 DEF HInv, SummaryExact
  <2>6. h.kinds \subseteq mask
    BY <2>3 DEF HInv, SummaryExact, KindsOf
  <2> QED
    BY <2>5, <2>6
<1> QED
  BY InitHInv, NextHInv, <1>1, PTL DEF Spec

(* No change made while hooks run is lost or reordered, after a hook that  *)
(* threw either.                                                           *)
THEOREM NoAccessChangeLost == Spec => []AccessChangesTakeEffect
<1>1. HInv => AccessChangesTakeEffect
  <2> SUFFICES ASSUME HInv PROVE AccessChangesTakeEffect
    OBVIOUS
  <2>1. Applied = wanted
    BY DEF HInv, QueuesExact
  <2>2. ASSUME ~dispatching PROVE added = <<>> /\ removed = <<>> /\ any = (hooks # <<>>)
    <3>1. added = <<>> /\ removed = <<>>
      BY <2>2 DEF HInv, QueuesExact
    <3>2. any <=> hooks # <<>>
      BY <2>2, <3>1 DEF HInv, SummaryExact
    <3>3. any \in BOOLEAN
      BY DEF HInv, SummaryExact
    <3>4. any = (hooks # <<>>)
      BY <3>2, <3>3, Zenon
    <3> QED
      BY <3>1, <3>4
  <2> QED
    BY <2>1, <2>2 DEF AccessChangesTakeEffect
<1> QED
  BY InitHInv, NextHInv, <1>1, PTL DEF Spec

-----------------------------------------------------------------------------
(* One access at a time: whatever walks the list has                       *)
(* dispatching_access_hooks_ set, and nothing changed the list under it.   *)
WalkInv ==
    /\ ~broken
    /\ stack = <<>> \/ \E f : stack = <<f>>
    /\ stack # <<>> => dispatching

LEMMA OneFrame ==
    ASSUME NEW f
    PROVE  /\ <<f>> # <<>> /\ <<f>>[1] = f /\ Tail(<<f>>) = <<>> /\ <<f>> \o <<>> = <<f>>
           /\ Len(<<f>>) = 1
OBVIOUS

LEMMA NextWalkInv ==
    ASSUME Depth = 1, WalkInv, [Next]_vars PROVE WalkInv'
<1>1. ASSUME NEW kinds \in Masks, AddAccessHook(kinds) PROVE WalkInv'
  BY <1>1 DEF AddAccessHook, WalkInv, Walked
<1>2. ASSUME NEW id \in 1..nextId-1, RemoveAccessHook(id) PROVE WalkInv'
  BY <1>2 DEF RemoveAccessHook, WalkInv, Walked
<1>3. ASSUME NEW kind \in AccessKinds, BeginAccess(kind) PROVE WalkInv'
  <2> DEFINE f == [left |-> SelectSeq(hooks, LAMBDA h : kind \in h.kinds), busy |-> FALSE]
  <2>1. /\ Len(stack) < 1 /\ stack' = <<f>> \o stack
        /\ dispatching' = TRUE /\ broken' = broken
    BY <1>3 DEF BeginAccess
  <2> HIDE DEF f
  <2>2. stack = <<>>
    BY <2>1, OneFrame DEF WalkInv
  <2>3. stack' = <<f>>
    BY <2>1, <2>2, OneFrame
  <2> QED
    BY <2>1, <2>3 DEF WalkInv
<1>4. CASE CallHook
  <2>1. PICK f : stack = <<f>>
    BY <1>4 DEF CallHook, WalkInv
  <2> DEFINE g == [f EXCEPT !.busy = TRUE, !.left = Tail(@)]
  <2>2. stack' = <<g>> /\ dispatching' = dispatching /\ broken' = broken
    BY <1>4, <2>1 DEF CallHook
  <2> HIDE DEF g
  <2> QED
    BY <2>1, <2>2 DEF WalkInv
<1>5. CASE HookReturns
  <2>1. PICK f : stack = <<f>>
    BY <1>5 DEF HookReturns, InHook, WalkInv
  <2>2. PICK left : stack' = [stack EXCEPT ![1].busy = FALSE, ![1].left = left]
    BY <1>5 DEF HookReturns
  <2> DEFINE g == [f EXCEPT !.busy = FALSE, !.left = left]
  <2>3. stack' = <<g>> /\ dispatching' = dispatching /\ broken' = broken
    BY <1>5, <2>1, <2>2 DEF HookReturns
  <2> HIDE DEF g
  <2> QED
    BY <2>1, <2>3 DEF WalkInv
<1>6. CASE EndAccess
  <2>1. PICK f : stack = <<f>>
    BY <1>6 DEF EndAccess, WalkInv
  <2>2. stack' = <<>>
    BY <1>6, <2>1, OneFrame DEF EndAccess
  <2> QED
    BY <1>6, <2>2 DEF EndAccess, Walked, WalkInv
<1>7. CASE HookThrows
  BY <1>7 DEF HookThrows, WalkInv
<1>8. CASE UNCHANGED vars
  BY <1>8 DEF vars, WalkInv
<1> QED
  BY <1>1, <1>2, <1>3, <1>4, <1>5, <1>6, <1>7, <1>8 DEF Next

(* access_hooks_ does not change while an access walks it, as long as no   *)
(* hook accesses memory itself: the flag is one bit, and the inner access  *)
(* would clear it.  A hook that threw leaves the flag set, which only      *)
(* queues the changes of its callers until the next access ends.           *)
THEOREM WalkNeverDisturbed ==
    ASSUME Depth = 1 PROVE Spec => []WalkedHooksStable
<1>1. Init => WalkInv
  BY DEF Init, WalkInv
<1>2. WalkInv /\ [Next]_vars => WalkInv'
  BY NextWalkInv
<1>3. WalkInv => WalkedHooksStable
  BY DEF WalkInv, WalkedHooksStable
<1> QED
  BY <1>1, <1>2, <1>3, PTL DEF Spec
=============================================================================
