-------------------------- MODULE HookRegistryProofs ------------------------
(* The hook lists of the Executor keep their promises for any number of    *)
(* hooks, lists and changes made while hooks run, with callbacks that      *)
(* throw and callbacks that step the executor again.                       *)
EXTENDS HookRegistry, OperatorProofs

(* A change that can wait: add_*_hook, remove_hook, clear_hooks.           *)
Op == [op : {"add"}, kind : Kinds, id : Nat] \cup [op : {"remove"}, id : Nat]
        \cup [op : {"clear"}]

(* The inductive invariant: the flags are never stale, not even while the  *)
(* lists are behind what was asked for.                                    *)
RInv ==
    /\ pending \in Seq(Op) /\ nextId \in Nat
    /\ Applied = wanted
    /\ ~dispatching => pending = <<>>
    /\ flags = RefreshedFlags(hooks)

-----------------------------------------------------------------------------
(* The recursion of AfterOps, for a function after.                        *)
Applies(after, h, ops) ==
    after = [n \in 0..Len(ops) |-> IF n = 0 THEN h ELSE Change(after[n-1], ops[n])]

(* What it says of every step.                                             *)
LEMMA AppliesUnfold ==
    ASSUME NEW f, NEW h, NEW ops, NEW m \in Nat, m = Len(ops), Applies(f, h, ops)
    PROVE  f[0] = h /\ \A n \in 1..m : f[n] = Change(f[n-1], ops[n])
<1> DEFINE g == [n \in 0..m |-> IF n = 0 THEN h ELSE Change(f[n-1], ops[n])]
<1>1. f = g
  BY Zenon DEF Applies
<1>2. g[0] = h /\ \A n \in 1..m : g[n] = Change(f[n-1], ops[n])
  OBVIOUS
<1> HIDE DEF g
<1> QED
  BY <1>1, <1>2

(* There is such a function, whatever the changes.                         *)
LEMMA AppliesExists ==
    ASSUME NEW S, NEW h
    PROVE  \A s \in Seq(S) : \E after : Applies(after, h, s)
<1> DEFINE A == {s \in Seq(S) : \E after : Applies(after, h, s)}
<1>1. <<>> \in A
  <2> DEFINE k == [n \in 0..0 |-> h]
  <2>1. Applies(k, h, <<>>)
    BY DEF Applies
  <2>2. <<>> \in Seq(S)
    OBVIOUS
  <2> QED
    BY <2>1, <2>2
<1>2. ASSUME NEW s \in Seq(S), NEW x \in S, s \in A PROVE Append(s, x) \in A
  <2>1. PICK f : Applies(f, h, s)
    BY <1>2
  <2> DEFINE t == Append(s, x)
             m == Len(s)
             k == [n \in 0..m+1 |-> IF n <= m THEN f[n] ELSE Change(f[m], x)]
  <2>2. t \in Seq(S) /\ Len(t) = m + 1 /\ m \in Nat /\ t[m + 1] = x /\ \A i \in 1..m : t[i] = s[i]
    OBVIOUS
  <2>3. f[0] = h /\ \A n \in 1..m : f[n] = Change(f[n-1], s[n])
    BY <2>1, <2>2, AppliesUnfold
  <2> HIDE DEF t, m
  <2>4. ASSUME NEW n \in 0..m+1
        PROVE  k[n] = IF n = 0 THEN h ELSE Change(k[n-1], t[n])
    <3>1. CASE n = 0
      BY <2>2, <2>3, <3>1
    <3>2. CASE n \in 1..m
      <4>1. k[n] = f[n] /\ k[n-1] = f[n-1] /\ t[n] = s[n] /\ n # 0
        BY <2>2, <3>2
      <4> QED
        BY <2>3, <3>2, <4>1
    <3>3. CASE n = m + 1
      <4>1. k[n-1] = f[m] /\ t[n] = x /\ n # 0
        BY <2>2, <3>3
      <4>2. k[n] = Change(f[m], x)
        BY <2>2, <3>3
      <4> QED
        BY <4>1, <4>2
    <3> QED
      BY <2>2, <3>1, <3>2, <3>3
  <2>5. Applies(k, h, t)
    <3>1. k = [n \in 0..m+1 |-> k[n]]
      OBVIOUS
    <3> HIDE DEF k
    <3> QED
      BY <2>2, <2>4, <3>1 DEF Applies
  <2> QED
    BY <2>2, <2>5 DEF t
<1>3. Seq(S) \subseteq A
  <2> HIDE DEF A
  <2> QED
    BY <1>1, <1>2, SeqsByInduction
<1> QED
  BY <1>3

(* AfterOps is one.                                                        *)
LEMMA AfterOpsApplies ==
    ASSUME NEW S, NEW s \in Seq(S), NEW h
    PROVE  \E after : Applies(after, h, s) /\ AfterOps(h, s) = after[Len(s)]
<1> DEFINE after == CHOOSE f : Applies(f, h, s)
<1>1. Applies(after, h, s)
  BY AppliesExists
<1>2. AfterOps(h, s) = after[Len(s)]
  BY DEF AfterOps, Applies
<1> QED
  BY <1>1, <1>2

(* Two such functions agree as long as the changes do.                     *)
LEMMA AppliesAgree ==
    ASSUME NEW f, NEW g, NEW h, NEW s, NEW t, NEW m \in Nat, NEW n \in Nat,
           m = Len(s), n = Len(t), m <= n, \A i \in 1..m : s[i] = t[i],
           Applies(f, h, s), Applies(g, h, t)
    PROVE  f[m] = g[m]
<1> DEFINE A == {k \in Nat : k <= m => f[k] = g[k]}
<1>1. f[0] = h /\ \A k \in 1..m : f[k] = Change(f[k-1], s[k])
  BY AppliesUnfold
<1>2. g[0] = h /\ \A k \in 1..n : g[k] = Change(g[k-1], t[k])
  BY AppliesUnfold
<1>3. 0 \in A
  BY <1>1, <1>2
<1>4. ASSUME NEW k \in Nat, k \in A PROVE k + 1 \in A
  <2> SUFFICES ASSUME k + 1 <= m PROVE f[k + 1] = g[k + 1]
    OBVIOUS
  <2>1. f[k] = g[k] /\ k + 1 \in 1..m /\ k + 1 \in 1..n /\ (k + 1) - 1 = k
    BY <1>4
  <2>2. s[k + 1] = t[k + 1]
    BY <2>1
  <2>3. f[k + 1] = Change(f[k], s[k + 1])
    BY <1>1, <2>1
  <2>4. g[k + 1] = Change(g[k], t[k + 1])
    BY <1>2, <2>1
  <2> QED
    BY <2>1, <2>2, <2>3, <2>4
<1>5. Nat \subseteq A
  <2> HIDE DEF A
  <2> QED
    BY <1>3, <1>4, NatsByInduction
<1> QED
  BY <1>5

(* So nothing to apply changes nothing, and what is queued last is applied *)
(* last.                                                                   *)
LEMMA AfterNoOps == \A h : AfterOps(h, <<>>) = h
<1> TAKE h
<1>1. <<>> \in Seq({}) /\ Len(<<>>) = 0
  OBVIOUS
<1>2. PICK f : Applies(f, h, <<>>) /\ AfterOps(h, <<>>) = f[0]
  BY <1>1, AfterOpsApplies
<1> QED
  BY <1>1, <1>2, AppliesUnfold

LEMMA AfterAppend ==
    ASSUME NEW S, NEW s \in Seq(S), NEW x \in S, NEW h
    PROVE  AfterOps(h, Append(s, x)) = Change(AfterOps(h, s), x)
<1> DEFINE t == Append(s, x)
           m == Len(s)
           n == m + 1
<1>1. t \in Seq(S) /\ Len(t) = n /\ m \in Nat /\ t[n] = x /\ \A i \in 1..m : t[i] = s[i]
  OBVIOUS
<1>2. n \in Nat /\ m <= n /\ n \in 1..n /\ n - 1 = m
  OBVIOUS
<1> HIDE DEF t, n
<1>3. PICK f : Applies(f, h, s) /\ AfterOps(h, s) = f[m]
  BY AfterOpsApplies
<1>4. PICK g : Applies(g, h, t) /\ AfterOps(h, t) = g[n]
  BY <1>1, AfterOpsApplies
<1>5. m = Len(s)
  OBVIOUS
<1> HIDE DEF m
<1>6. f[m] = g[m]
  BY <1>1, <1>2, <1>3, <1>4, <1>5, AppliesAgree
<1>7. g[n] = Change(g[m], x)
  <2>1. \A k \in 1..n : g[k] = Change(g[k-1], t[k])
    BY <1>1, <1>2, <1>4, AppliesUnfold
  <2> QED
    BY <1>1, <1>2, <2>1
<1> QED
  BY <1>3, <1>4, <1>6, <1>7 DEF t

-----------------------------------------------------------------------------
(* A change, at once or queued.                                            *)
LEMMA MutateKeepsInv ==
    ASSUME RInv, NEW op \in Op, Mutate(op), nextId' \in Nat PROVE RInv'
<1>1. Applied' = AfterOps(hooks', pending')
  BY DEF Applied
<1>2. CASE dispatching
  <2>1. /\ pending' = Append(pending, op) /\ hooks' = hooks /\ flags' = flags
        /\ dispatching' = dispatching /\ wanted' = Change(wanted, op)
    BY <1>2 DEF Mutate
  <2>2. pending' \in Seq(Op)
    BY <2>1 DEF RInv
  <2>3. Applied' = Change(Applied, op)
    <3>1. pending \in Seq(Op)
      BY DEF RInv
    <3>2. AfterOps(hooks, Append(pending, op)) = Change(AfterOps(hooks, pending), op)
      BY <3>1, AfterAppend
    <3> QED
      BY <1>1, <2>1, <3>2 DEF Applied
  <2> QED
    BY <1>2, <2>1, <2>2, <2>3 DEF RInv, RefreshedFlags
<1>3. CASE ~dispatching
  <2>1. /\ hooks' = Change(hooks, op) /\ flags' = RefreshedFlags(hooks')
        /\ pending' = IF op.op = "clear" THEN <<>> ELSE pending
        /\ dispatching' = dispatching /\ wanted' = Change(wanted, op)
    BY <1>3 DEF Mutate
  <2>2. pending = <<>> /\ pending' = <<>>
    BY <1>3, <2>1 DEF RInv
  <2>3. hooks = wanted
    BY <2>2, AfterNoOps DEF RInv, Applied
  <2>4. Applied' = wanted'
    BY <1>1, <2>1, <2>2, <2>3, AfterNoOps
  <2>5. pending' \in Seq(Op)
    BY <2>2 DEF RInv
  <2>6. flags' = RefreshedFlags(hooks)'
    BY <2>1 DEF RefreshedFlags
  <2> QED
    BY <2>2, <2>4, <2>5, <2>6 DEF RInv
<1> QED
  BY <1>2, <1>3

(* Applying what is pending, before or after a dispatch.                   *)
LEMMA ApplyKeepsInv ==
    ASSUME RInv, hooks' = Applied, pending' = <<>>, UNCHANGED <<nextId, wanted>>,
           flags' = IF pending = <<>> THEN flags ELSE RefreshedFlags(hooks')
    PROVE  RInv'
<1>1. Applied' = AfterOps(hooks', <<>>)
  BY DEF Applied
<1>2. Applied' = wanted'
  BY <1>1, AfterNoOps DEF RInv
<1>3. flags' = RefreshedFlags(hooks)'
  <2>1. CASE pending = <<>>
    <3>1. hooks' = hooks
      BY <2>1, AfterNoOps DEF Applied
    <3> QED
      BY <2>1, <3>1 DEF RInv, RefreshedFlags
  <2>2. CASE pending # <<>>
    BY <2>2 DEF RefreshedFlags
  <2> QED
    BY <2>1, <2>2
<1>4. pending' \in Seq(Op)
  OBVIOUS
<1> QED
  BY <1>2, <1>3, <1>4 DEF RInv

(* Steps that leave the lists alone; dispatching_hooks_ may be set.        *)
LEMMA RegistryKept ==
    ASSUME RInv, UNCHANGED <<hooks, flags, pending, nextId, wanted>>,
           dispatching' = dispatching \/ dispatching' = TRUE
    PROVE  RInv'
BY DEF RInv, Applied, RefreshedFlags

LEMMA NextRInv == RInv /\ [Next]_vars => RInv'
<1> SUFFICES ASSUME RInv, [Next]_vars PROVE RInv'
  OBVIOUS
<1>1. ASSUME NEW kind \in Kinds, AddHook(kind) PROVE RInv'
  <2> DEFINE op == [op |-> "add", kind |-> kind, id |-> nextId]
  <2>1. Mutate(op) /\ nextId' = nextId + 1
    BY <1>1 DEF AddHook
  <2>2. op \in Op /\ nextId' \in Nat
    BY <2>1 DEF Op, RInv
  <2> HIDE DEF op
  <2> QED
    BY <2>1, <2>2, MutateKeepsInv
<1>2. ASSUME NEW id \in 1..nextId-1, RemoveHook(id) PROVE RInv'
  <2> DEFINE op == [op |-> "remove", id |-> id]
  <2>1. Mutate(op) /\ nextId' = nextId
    BY <1>2 DEF RemoveHook
  <2>2. op \in Op /\ nextId' \in Nat
    BY <2>1 DEF Op, RInv
  <2> HIDE DEF op
  <2> QED
    BY <2>1, <2>2, MutateKeepsInv
<1>3. CASE ClearHooks
  <2> DEFINE op == [op |-> "clear"]
  <2>1. Mutate(op) /\ nextId' = nextId
    BY <1>3 DEF ClearHooks
  <2>2. op \in Op /\ nextId' \in Nat
    BY <2>1 DEF Op, RInv
  <2> HIDE DEF op
  <2> QED
    BY <2>1, <2>2, MutateKeepsInv
<1>4. CASE DispatchInstruction
  BY <1>4, ApplyKeepsInv DEF DispatchInstruction
<1>5. CASE \E point \in {"trap", "fault", "stop"} : DispatchListed(point)
  BY <1>5, RegistryKept DEF DispatchListed
<1>6. CASE DispatchNoTrapHook
  BY <1>6, ApplyKeepsInv DEF DispatchNoTrapHook
<1>7. CASE DispatchExecution \/ CallHook \/ HookReturns \/ HookThrows
  BY <1>7, RegistryKept DEF DispatchExecution, CallHook, HookReturns, HookThrows
<1>8. CASE EndDispatch
  <2>1. CASE stack[1].point = "execution"
    BY <1>8, <2>1, RegistryKept DEF EndDispatch
  <2>2. CASE stack[1].point # "execution"
    BY <1>8, <2>2, ApplyKeepsInv DEF EndDispatch
  <2> QED
    BY <2>1, <2>2
<1>9. CASE UNCHANGED vars
  BY <1>9, RegistryKept DEF vars
<1> QED
  BY <1>1, <1>2, <1>3, <1>4, <1>5, <1>6, <1>7, <1>8, <1>9 DEF Next

(* No add_*_hook, remove_hook or clear_hooks is lost or reordered, from    *)
(* wherever it is called and however dispatches nest, and step never skips *)
(* a list that has a hook: after a callback that threw the changes wait    *)
(* until the next walk ends.                                               *)
THEOREM NoMutationLost == Spec => []MutationsTakeEffect
<1>1. Init => RInv
  <2> SUFFICES ASSUME Init PROVE RInv
    OBVIOUS
  <2>1. Applied = wanted
    BY AfterNoOps DEF Init, Applied
  <2>2. flags = RefreshedFlags(hooks)
    BY DEF Init, RefreshedFlags, None
  <2> QED
    BY <2>1, <2>2 DEF Init, RInv
<1>2. RInv => MutationsTakeEffect
  BY DEF RInv, MutationsTakeEffect
<1> QED
  BY <1>1, <1>2, NextRInv, PTL DEF Spec

-----------------------------------------------------------------------------
(* One dispatch at a time: every walk but that of the execution hooks has  *)
(* dispatching_hooks_ set, and no list changed under a walk.               *)
WalkInv ==
    /\ ~broken
    /\ stack = <<>> \/ \E f : stack = <<f>>
    /\ stack # <<>> /\ stack[1].point # "execution" => dispatching

LEMMA OneFrame ==
    ASSUME NEW f
    PROVE  /\ <<f>> # <<>> /\ <<f>>[1] = f /\ Tail(<<f>>) = <<>> /\ <<f>> \o <<>> = <<f>>
           /\ Len(<<f>>) = 1
OBVIOUS

(* Nothing is walked, nothing is disturbed.                                *)
LEMMA NoneDisturbed == \A h : ~Disturbs(h, <<>>)
BY DEF Disturbs

(* A change that takes effect at once is made outside of every dispatch:   *)
(* the execution hooks, walked without the flag, change nothing.           *)
LEMMA MutateKeepsWalk ==
    ASSUME "execution" \notin Mutators, WalkInv, NEW op, Mutate(op) PROVE WalkInv'
<1>1. stack' = stack /\ dispatching' = dispatching
  BY DEF Mutate
<1>2. CASE dispatching
  BY <1>1, <1>2 DEF Mutate, WalkInv
<1>3. CASE ~dispatching
  <2>1. stack = <<>>
    BY <1>3 DEF Mutate, MayMutate, InCallback, WalkInv
  <2>2. broken' = (broken \/ Disturbs(hooks', stack))
    BY <1>3 DEF Mutate
  <2>3. ~broken'
    BY <2>1, <2>2, NoneDisturbed DEF WalkInv
  <2> QED
    BY <1>1, <2>1, <2>3 DEF WalkInv
<1> QED
  BY <1>2, <1>3

(* A dispatch starts when none is in progress.                             *)
LEMMA DispatchAlone ==
    ASSUME Depth = 1, WalkInv, MayDispatch PROVE stack = <<>>
BY OneFrame DEF WalkInv, MayDispatch

LEMMA PushKeepsWalk ==
    ASSUME stack = <<>>, NEW point, NEW walk, Push(point, walk), ~broken',
           dispatching' \/ point = "execution"
    PROVE  WalkInv'
<1> DEFINE f == [point |-> point, left |-> walk, busy |-> FALSE]
<1>1. stack' = <<f>> \o <<>> /\ f.point = point
  BY DEF Push
<1> HIDE DEF f
<1>2. stack' = <<f>>
  BY <1>1, OneFrame
<1> QED
  BY <1>1, <1>2, OneFrame DEF WalkInv

LEMMA NextWalkInv ==
    ASSUME Depth = 1, "execution" \notin Mutators, WalkInv, [Next]_vars PROVE WalkInv'
<1>1. CASE (\E kind \in Kinds : AddHook(kind)) \/ (\E id \in 1..nextId-1 : RemoveHook(id)) \/ ClearHooks
  BY <1>1, MutateKeepsWalk DEF AddHook, RemoveHook, ClearHooks
<1>2. CASE DispatchInstruction
  <2>1. stack = <<>>
    BY <1>2, DispatchAlone DEF DispatchInstruction
  <2>2. broken' = (broken \/ Disturbs(Applied, stack))
    BY <1>2 DEF DispatchInstruction
  <2>3. ~broken'
    BY <2>1, <2>2, NoneDisturbed DEF WalkInv
  <2>4. \E walk : \/ stack' = stack /\ dispatching' = dispatching
                  \/ dispatching' = TRUE /\ Push("instruction", walk)
    BY <1>2 DEF DispatchInstruction
  <2>5. CASE stack' = stack /\ dispatching' = dispatching
    BY <2>1, <2>3, <2>5 DEF WalkInv
  <2>6. ASSUME NEW walk, dispatching' = TRUE, Push("instruction", walk) PROVE WalkInv'
    BY <2>1, <2>3, <2>6, PushKeepsWalk
  <2> QED
    BY <2>4, <2>5, <2>6
<1>3. ASSUME NEW point \in {"trap", "fault", "stop"}, DispatchListed(point) PROVE WalkInv'
  <2>1. stack = <<>>
    BY <1>3, DispatchAlone DEF DispatchListed
  <2>2. dispatching' = TRUE /\ broken' = broken /\ Push(point, hooks[point])
    BY <1>3 DEF DispatchListed
  <2> QED
    BY <2>1, <2>2, PushKeepsWalk DEF WalkInv
<1>4. CASE DispatchNoTrapHook
  <2>1. stack = <<>>
    BY <1>4, DispatchAlone DEF DispatchNoTrapHook
  <2>2. broken' = (broken \/ Disturbs(hooks', stack)) /\ stack' = stack
    BY <1>4 DEF DispatchNoTrapHook
  <2>3. ~broken'
    BY <2>1, <2>2, NoneDisturbed DEF WalkInv
  <2> QED
    BY <2>1, <2>2, <2>3 DEF WalkInv
<1>5. CASE DispatchExecution
  <2>1. stack = <<>>
    BY <1>5, DispatchAlone DEF DispatchExecution
  <2>2. broken' = broken /\ Push("execution", hooks["execution"])
    BY <1>5 DEF DispatchExecution
  <2> QED
    BY <2>1, <2>2, PushKeepsWalk DEF WalkInv
<1>6. CASE CallHook
  <2>1. PICK f : stack = <<f>>
    BY <1>6 DEF CallHook, WalkInv
  <2> DEFINE g == [f EXCEPT !.busy = TRUE, !.left = Tail(@)]
  <2>2. stack' = <<g>> /\ dispatching' = dispatching /\ broken' = broken
    BY <1>6, <2>1 DEF CallHook
  <2>3. g.point = f.point
    OBVIOUS
  <2> HIDE DEF g
  <2> QED
    BY <2>1, <2>2, <2>3, OneFrame DEF WalkInv
<1>7. CASE HookReturns
  <2>1. PICK f : stack = <<f>>
    BY <1>7 DEF HookReturns, InCallback, WalkInv
  <2> DEFINE g == [f EXCEPT !.busy = FALSE]
             e == [f EXCEPT !.busy = FALSE, !.left = <<>>]
  <2>2. /\ stack' = <<g>> \/ stack' = <<e>>
        /\ dispatching' = dispatching /\ broken' = broken
    BY <1>7, <2>1 DEF HookReturns
  <2>3. g.point = f.point /\ e.point = f.point
    OBVIOUS
  <2> HIDE DEF g, e
  <2> QED
    BY <2>1, <2>2, <2>3, OneFrame DEF WalkInv
<1>8. CASE EndDispatch
  <2>1. PICK f : stack = <<f>>
    BY <1>8 DEF EndDispatch, WalkInv
  <2>2. stack' = <<>>
    BY <1>8, <2>1, OneFrame DEF EndDispatch
  <2>3. broken' = broken \/ broken' = (broken \/ Disturbs(hooks', stack'))
    BY <1>8 DEF EndDispatch
  <2>4. ~broken'
    BY <2>2, <2>3, NoneDisturbed DEF WalkInv
  <2> QED
    BY <2>2, <2>4 DEF WalkInv
<1>9. CASE HookThrows
  BY <1>9 DEF HookThrows, WalkInv
<1>10. CASE UNCHANGED vars
  BY <1>10 DEF vars, WalkInv
<1> QED
  BY <1>1, <1>2, <1>3, <1>4, <1>5, <1>6, <1>7, <1>8, <1>9, <1>10 DEF Next

(* No list changes while a dispatch walks it, as long as no callback steps *)
(* the executor again and none of the execution hooks, which step walks    *)
(* without dispatching_hooks_, changes the registry.                       *)
THEOREM WalksNeverDisturbed ==
    ASSUME Depth = 1, "execution" \notin Mutators PROVE Spec => []WalkedListsStable
<1>1. Init => WalkInv
  BY DEF Init, WalkInv
<1>2. WalkInv /\ [Next]_vars => WalkInv'
  BY NextWalkInv
<1>3. WalkInv => WalkedListsStable
  BY DEF WalkInv, WalkedListsStable
<1> QED
  BY <1>1, <1>2, <1>3, PTL DEF Spec
=============================================================================
