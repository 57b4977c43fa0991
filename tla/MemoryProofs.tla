---------------------------- MODULE MemoryProofs ----------------------------
(* Theorems about Memory, for every address space, page size, TLB size and *)
(* set of objects.                                                         *)
EXTENDS Memory, OperatorProofs

(* A slot lookup_page would accept holds what pages_ maps its page to, and *)
(* no slot is from a later epoch: without the second part a future epoch   *)
(* could revive an old slot.                                               *)
SlotsCurrent ==
    \A i \in Slots :
        /\ tlb[i].epoch <= tlbEpoch
        /\ tlb[i].entry # Null /\ tlb[i].epoch = tlbEpoch =>
              tlb[i].page \in Pg /\ pages[tlb[i].page] = tlb[i].entry

(* Two pages never have the same PageEntry: pages_ holds its entries by    *)
(* value, and so does every action here that inserts pages.                *)
PagesDisjoint == \A p, q \in Pg : pages[p] # Null /\ pages[p] = pages[q] => p = q

(* The inductive invariant.                                                *)
IInv == TypeOK /\ SlotsCurrent /\ PagesDisjoint

-----------------------------------------------------------------------------
(* A page number is an address divided by the page size, modulo the number *)
(* of pages.                                                               *)
LEMMA PageAtType ==
    ASSUME NEW addr \in Nat, NEW k \in Nat
    PROVE  PageAt(addr, k) \in Pg
<1>1. addr \div PageSize \in Nat
  BY PageAssumption
<1>2. (addr \div PageSize) + k \in Nat
  BY <1>1
<1> DEFINE n == (addr \div PageSize) + k
<1>3. n % PageCount \in 0..PageCount-1
  <2> HIDE DEF n
  <2> QED BY <1>2, PageAssumption DEF n
<1> QED BY <1>3 DEF PageAt, Pg

(* A page has a TLB slot.                                                  *)
LEMMA SlotOfType ==
    ASSUME NEW p \in Pg PROVE SlotOf(p) \in Slots
BY TlbAssumption, PageAssumption DEF SlotOf, Slots, Pg

(* With the invariant, lookup_page returns what pages_ holds.              *)
LEMMA LookupExact ==
    ASSUME TypeOK, SlotsCurrent, NEW p \in Pg
    PROVE  Lookup(p) = pages[p]
BY SlotOfType DEF Lookup, Hit, SlotsCurrent

(* The steps of an access form an initial segment of the naturals.         *)
LEMMA PagesTouchedType ==
    ASSUME NEW addr \in Nat, NEW size \in Nat
    PROVE  PagesTouched(addr, size) \in Nat
<1>1. addr % PageSize \in Nat
  BY PageAssumption
<1> DEFINE m == (addr % PageSize) + size + PageSize - 1
<1>2. m \in Nat
  BY <1>1, PageAssumption
<1>3. m \div PageSize \in Nat
  <2> HIDE DEF m
  <2> QED BY <1>2, PageAssumption
<1> QED BY <1>3 DEF PagesTouched

(* Looking pages up leaves a TLB that is of its type and current.          *)
LEMMA WalkKeepsSlots ==
    ASSUME TypeOK, SlotsCurrent, NEW addr \in Nat, NEW n \in Nat,
           NEW ks \in SUBSET (0..n-1), NEW i \in Slots
    PROVE  /\ TlbAfter(addr, ks)[i] \in TlbSlot
           /\ TlbAfter(addr, ks)[i].epoch <= tlbEpoch
           /\ TlbAfter(addr, ks)[i].entry # Null /\ TlbAfter(addr, ks)[i].epoch = tlbEpoch =>
                 /\ TlbAfter(addr, ks)[i].page \in Pg
                 /\ pages[TlbAfter(addr, ks)[i].page] = TlbAfter(addr, ks)[i].entry
<1> DEFINE mine == {k \in ks : SlotOf(PageAt(addr, k)) = i}
           top == CHOOSE k \in mine : \A j \in mine : j <= k
           s == TlbAfter(addr, ks)[i]
<1>1. s = IF mine = {} THEN tlb[i] ELSE SlotAfter(PageAt(addr, top))
  BY DEF TlbAfter
<1>2. CASE mine = {}
  BY <1>1, <1>2 DEF TypeOK, SlotsCurrent
<1>3. CASE mine # {}
  <2>1. mine \in SUBSET (0..n-1)
    OBVIOUS
  <2>2. \E k \in mine : \A j \in mine : j <= k
    BY <2>1, <1>3, LargestStep
  <2>3. top \in mine
    BY <2>2
  <2>4. PageAt(addr, top) \in Pg
    BY <2>1, <2>3, PageAtType
  <2>5. s = SlotAfter(PageAt(addr, top))
    BY <1>1, <1>3
  <2> DEFINE p == PageAt(addr, top)
  <2>6. SlotOf(p) \in Slots
    BY <2>4, SlotOfType
  <2> HIDE DEF mine, top, p, s
  <2>7. tlb[SlotOf(p)] \in TlbSlot /\ pages[p] \in Objects \cup {Null} /\ tlbEpoch \in Nat
    BY <2>4, <2>6 DEF TypeOK, p
  <2>8. CASE Hit(p)
    BY <2>8, <2>7, <2>6, <2>5 DEF SlotAfter, SlotsCurrent, p, s
  <2>9. CASE ~Hit(p)
    <3>1. s = [page |-> p, epoch |-> tlbEpoch, entry |-> pages[p]]
      BY <2>9, <2>5 DEF SlotAfter, p
    <3>2. p \in Pg
      BY <2>4 DEF p
    <3> QED BY <3>1, <3>2, <2>7 DEF TlbSlot, s
  <2> QED BY <2>8, <2>9
<1> QED BY <1>2, <1>3

(* A step that only looks pages up in the page table keeps the TLB right.  *)
LEMMA WalkStep ==
    ASSUME TypeOK, SlotsCurrent, NEW addr \in Nat, NEW n \in Nat,
           NEW ks \in SUBSET (0..n-1),
           tlb' = TlbAfter(addr, ks), UNCHANGED <<pages, tlbEpoch>>
    PROVE  tlb' \in [Slots -> TlbSlot] /\ SlotsCurrent'
<1>1. DOMAIN tlb' = Slots /\ tlb' = [i \in Slots |-> tlb'[i]]
  BY DEF TlbAfter
<1>2. \A i \in Slots : tlb'[i] \in TlbSlot
  BY WalkKeepsSlots
<1>3. tlb' \in [Slots -> TlbSlot]
  BY <1>1, <1>2
<1>4. SlotsCurrent'
  <2> SUFFICES ASSUME NEW i \in Slots
               PROVE  /\ tlb'[i].epoch <= tlbEpoch
                      /\ tlb'[i].entry # Null /\ tlb'[i].epoch = tlbEpoch =>
                            tlb'[i].page \in Pg /\ pages[tlb'[i].page] = tlb'[i].entry
    BY DEF SlotsCurrent
  <2> QED BY WalkKeepsSlots
<1> QED BY <1>3, <1>4

(* Storing bytes leaves well-formed page entries with their permissions.   *)
LEMMA StoredType ==
    ASSUME TypeOK, NEW addr \in Addr, NEW size \in 1..AddrSpace-1,
           NEW src \in [0..size-1 -> Byte], NEW n \in Nat, NEW ks \in SUBSET (0..n-1)
    PROVE  Stored(addr, size, src, ks) \in [Objects -> PageEntry]
<1> SUFFICES ASSUME NEW o \in Objects
             PROVE  Stored(addr, size, src, ks)[o] \in PageEntry
  BY DEF Stored
<1> DEFINE here == {k \in ks : Lookup(PageAt(addr, k)) = o}
           p == PageAt(addr, CHOOSE k \in here : TRUE)
           at(off) == (p * PageSize + off - addr) % AddrSpace
           d == [off \in 0..PageSize-1 |->
                    IF at(off) < size THEN src[at(off)] ELSE heap[o].data[off]]
<1>1. heap[o] \in PageEntry
  BY DEF TypeOK
<1>2. Stored(addr, size, src, ks)[o] =
        IF here = {} THEN heap[o] ELSE [heap[o] EXCEPT !.data = d]
  BY DEF Stored
<1>3. CASE here = {}
  BY <1>1, <1>2, <1>3
<1>4. CASE here # {}
  <2>0. p \in Pg
    <3>1. (CHOOSE k \in here : TRUE) \in Nat
      <4>1. here \subseteq Nat
        <5>1. ks \subseteq Nat
          OBVIOUS
        <5>2. here \subseteq ks
          BY Zenon
        <5> QED BY <5>1, <5>2, Zenon
      <4> HIDE DEF here
      <4>2. (CHOOSE k \in here : TRUE) \in here
        BY <1>4, Zenon
      <4> QED BY <4>1, <4>2
    <3>2. addr \in Nat
      BY DEF Addr
    <3> QED BY <3>1, <3>2, PageAtType
  <2> HIDE DEF here, p
  <2>1. d \in PageData
    <3> SUFFICES ASSUME NEW off \in 0..PageSize-1 PROVE d[off] \in Byte
      BY DEF PageData
    <3> DEFINE a == at(off)
    <3>1. CASE a < size
      <4>1. a \in Nat
        <5> DEFINE m == p * PageSize + off - addr
        <5>1. m \in Int
          BY <2>0, PageAssumption DEF Addr, Pg
        <5> HIDE DEF m
        <5>2. m % AddrSpace \in 0..AddrSpace-1
          BY <5>1, AddrSpaceAssumption
        <5> QED BY <5>2, AddrSpaceAssumption DEF m
      <4> QED BY <3>1, <4>1
    <3>2. CASE ~(a < size)
      BY <3>2, <1>1 DEF PageEntry, PageData
    <3> QED BY <3>1, <3>2
  <2> HIDE DEF d
  <2> QED BY <1>1, <1>2, <1>4, <2>1 DEF PageEntry
<1> QED BY <1>3, <1>4

(* The steps an access takes are numbered from 0.                          *)
LEMMA StepsType ==
    ASSUME NEW addr \in Nat, NEW size \in Nat
    PROVE  /\ PagesTouched(addr, size) \in Nat
           /\ Steps(addr, size) = 0..PagesTouched(addr, size)-1
BY PagesTouchedType DEF Steps

(* The arguments callers pass.                                             *)
LEMMA AccessType ==
    ASSUME NEW a \in Accesses
    PROVE  /\ a[1] \in Addr /\ a[1] \in Nat
           /\ a[2] \in 1..AddrSpace-1 /\ a[2] \in Nat
BY ArgumentAssumption, AddrSpaceAssumption DEF Addr

(* Every object a mapping step hands out is used for one page only.        *)
LEMMA AllocatedType ==
    ASSUME NEW new \in SUBSET Pg, NEW free \in SUBSET Objects,
           NEW alloc \in Allocations(new, free)
    PROVE  /\ alloc \in [new -> free]
           /\ \A p, q \in new : alloc[p] = alloc[q] => p = q
BY DEF Allocations

-----------------------------------------------------------------------------
(* One lemma per kind of step: each keeps the inductive invariant.         *)

(* A new Memory object satisfies the invariant.                            *)
LEMMA InitInv == Init => IInv
<1> SUFFICES ASSUME Init PROVE IInv
  OBVIOUS
<1>1. FreshPage({}) \in PageEntry
  BY DataAssumption DEF FreshPage, PageEntry, PageData
<1>2. TypeOK
  BY <1>1 DEF Init, TypeOK, TlbSlot
<1>3. SlotsCurrent
  BY DEF Init, SlotsCurrent
<1>4. PagesDisjoint
  BY DEF Init, PagesDisjoint
<1> QED BY <1>2, <1>3, <1>4 DEF IInv

(* The page map creates is a page entry.                                   *)
LEMMA FreshPageType ==
    ASSUME NEW perm \in SUBSET Permission PROVE FreshPage(perm) \in PageEntry
BY DataAssumption DEF FreshPage, PageEntry, PageData

(* When the TLB epoch grows, no slot is accepted any more.                 *)
LEMMA FlushStep ==
    ASSUME TypeOK, SlotsCurrent, tlb' = tlb, tlbEpoch' = tlbEpoch + 1
    PROVE  SlotsCurrent' /\ tlbEpoch' \in Nat
BY DEF TypeOK, SlotsCurrent, TlbSlot

(* map hands every new page its own object and flushes the TLB.            *)
LEMMA MapStep ==
    ASSUME IInv, NEW base, NEW size, NEW perm \in SUBSET Permission, Map(base, size, perm)
    PROVE  IInv'
<1> DEFINE range == RangePages(base, size)
           new == {p \in range : pages[p] = Null}
<1>1. PICK alloc \in Allocations(new, Objects \ Live) :
         /\ pages' = [p \in Pg |-> IF p \in new THEN alloc[p] ELSE pages[p]]
         /\ heap' = [o \in Objects |->
                IF \E p \in new : alloc[p] = o THEN FreshPage(perm)
                ELSE IF \E p \in range : pages[p] = o THEN [heap[o] EXCEPT !.perm = perm]
                ELSE heap[o]]
  BY DEF Map
<1>2. /\ alloc \in [new -> Objects \ Live]
      /\ \A p, q \in new : alloc[p] = alloc[q] => p = q
  BY <1>1 DEF Allocations
<1>3. SlotsCurrent' /\ tlbEpoch' \in Nat
  BY FlushStep DEF IInv, Map
<1> HIDE DEF new, range
<1>4. pages' \in [Pg -> Objects \cup {Null}]
  BY <1>1, <1>2 DEF IInv, TypeOK
<1>5. heap' \in [Objects -> PageEntry]
  <2> SUFFICES ASSUME NEW o \in Objects PROVE heap'[o] \in PageEntry
    BY <1>1
  <2>1. heap[o] \in PageEntry
    BY DEF IInv, TypeOK
  <2>2. [heap[o] EXCEPT !.perm = perm] \in PageEntry
    BY <2>1 DEF PageEntry
  <2> QED BY <1>1, <2>1, <2>2, FreshPageType
<1>6. PagesDisjoint'
  <2> SUFFICES ASSUME NEW p \in Pg, NEW q \in Pg, pages'[p] # Null, pages'[p] = pages'[q]
               PROVE  p = q
    BY DEF PagesDisjoint
  <2>1. \A r \in Pg : r \notin new => pages'[r] = pages[r]
    BY <1>1
  <2>2. \A r \in Pg : r \in new => pages'[r] = alloc[r] /\ alloc[r] \notin Live
    BY <1>1, <1>2
  <2>3. \A r \in Pg : pages[r] # Null => pages[r] \in Live
    BY DEF Live
  <2>4. CASE p \in new /\ q \in new
    BY <2>4, <2>2, <1>2
  <2>5. CASE p \notin new /\ q \notin new
    BY <2>5, <2>1 DEF IInv, PagesDisjoint
  <2>6. CASE ~(p \in new <=> q \in new)
    BY <2>6, <2>1, <2>2, <2>3
  <2> QED BY <2>4, <2>5, <2>6
<1> QED BY <1>3, <1>4, <1>5, <1>6 DEF IInv, TypeOK, Map

(* unmap frees objects and flushes the TLB, so no slot keeps one of them.  *)
LEMMA UnmapStep ==
    ASSUME IInv, NEW base, NEW size, Unmap(base, size)
    PROVE  IInv'
<1> DEFINE range == RangePages(base, size)
<1>1. /\ pages' = [p \in Pg |-> IF p \in range THEN Null ELSE pages[p]]
      /\ heap' = [o \in Objects |->
             IF \E p \in range : pages[p] = o THEN FreshPage({}) ELSE heap[o]]
  BY DEF Unmap
<1>2. SlotsCurrent' /\ tlbEpoch' \in Nat
  BY FlushStep DEF IInv, Unmap
<1> HIDE DEF range
<1>3. pages' \in [Pg -> Objects \cup {Null}]
  BY <1>1 DEF IInv, TypeOK
<1>4. heap' \in [Objects -> PageEntry]
  BY <1>1, FreshPageType DEF IInv, TypeOK
<1>5. PagesDisjoint'
  BY <1>1 DEF IInv, PagesDisjoint
<1> QED BY <1>2, <1>3, <1>4, <1>5 DEF IInv, TypeOK, Unmap

(* reprotect changes the permissions of page entries in place.             *)
LEMMA ReprotectStep ==
    ASSUME IInv, NEW base, NEW size, NEW perm \in SUBSET Permission,
           Reprotect(base, size, perm)
    PROVE  IInv'
<1>1. heap' \in [Objects -> PageEntry]
  <2> SUFFICES ASSUME NEW o \in Objects PROVE heap'[o] \in PageEntry
    BY DEF Reprotect
  <2>1. heap[o] \in PageEntry
    BY DEF IInv, TypeOK
  <2>2. [heap[o] EXCEPT !.perm = perm] \in PageEntry
    BY <2>1 DEF PageEntry
  <2> QED BY <2>1, <2>2 DEF Reprotect
<1>2. SlotsCurrent' /\ PagesDisjoint'
  BY DEF IInv, Reprotect, SlotsCurrent, PagesDisjoint
<1> QED BY <1>1, <1>2 DEF IInv, TypeOK, Reprotect

(* Reads and queries.                                                      *)
LEMMA WalkOnlyStep ==
    ASSUME IInv, NEW addr \in Nat, NEW size \in Nat, NEW ks,
           ks \subseteq Steps(addr, size), tlb' = TlbAfter(addr, ks),
           UNCHANGED <<pages, heap, tlbEpoch, codeEpoch, hooked, passthrough, saved>>
    PROVE  IInv'
<1>0. /\ PagesTouched(addr, size) \in Nat
      /\ ks \in SUBSET (0..PagesTouched(addr, size)-1)
  BY StepsType
<1>1. tlb' \in [Slots -> TlbSlot] /\ SlotsCurrent'
  BY <1>0, WalkStep DEF IInv
<1>2. PagesDisjoint'
  BY DEF IInv, PagesDisjoint
<1> QED BY <1>1, <1>2 DEF IInv, TypeOK

(* Writes: a walk that also stores bytes, and may bump the code epoch.     *)
LEMMA StoreStep ==
    ASSUME IInv, NEW addr \in Addr, NEW size \in 1..AddrSpace-1,
           NEW src \in [0..size-1 -> Byte], NEW ks, NEW ds,
           ks \subseteq Steps(addr, size), ds \subseteq Steps(addr, size),
           tlb' = TlbAfter(addr, ks), heap' = Stored(addr, size, src, ds),
           codeEpoch' \in {codeEpoch, codeEpoch + 1},
           UNCHANGED <<pages, tlbEpoch, hooked, passthrough, saved>>
    PROVE  IInv'
<1>0. addr \in Nat /\ size \in Nat
  BY DEF Addr
<1> DEFINE n == PagesTouched(addr, size)
<1>5. n \in Nat /\ ks \in SUBSET (0..n-1) /\ ds \in SUBSET (0..n-1)
  BY <1>0, StepsType
<1> HIDE DEF n
<1>1. tlb' \in [Slots -> TlbSlot] /\ SlotsCurrent'
  BY <1>0, <1>5, WalkStep DEF IInv
<1>2. heap' \in [Objects -> PageEntry]
  <2>1. Stored(addr, size, src, ds) \in [Objects -> PageEntry]
    BY <1>5, StoredType DEF IInv
  <2> QED BY <2>1
<1>3. PagesDisjoint'
  BY DEF IInv, PagesDisjoint
<1>4. codeEpoch' \in Nat
  BY DEF IInv, TypeOK
<1> QED BY <1>1, <1>2, <1>3, <1>4 DEF IInv, TypeOK

(* Restoring saved pages into fresh objects.                               *)
LEMMA ReplaceStep ==
    ASSUME IInv, saved # Null, ReplacePages
    PROVE  /\ pages' \in [Pg -> Objects \cup {Null}]
           /\ heap' \in [Objects -> PageEntry]
           /\ PagesDisjoint'
<1> DEFINE present == {p \in Pg : saved[p] # Null}
<1>1. PICK alloc \in Allocations(present, Objects) :
          /\ pages' = [p \in Pg |-> IF p \in present THEN alloc[p] ELSE Null]
          /\ heap' = [o \in Objects |->
                 IF \E p \in present : alloc[p] = o
                 THEN saved[CHOOSE p \in present : alloc[p] = o] ELSE FreshPage({})]
  BY DEF ReplacePages
<1>2. /\ alloc \in [present -> Objects]
      /\ \A p, q \in present : alloc[p] = alloc[q] => p = q
  BY <1>1 DEF Allocations
<1>3. \A p \in present : saved[p] \in PageEntry
  BY DEF IInv, TypeOK
<1> HIDE DEF present
<1>4. pages' \in [Pg -> Objects \cup {Null}]
  BY <1>1, <1>2
<1>5. heap' \in [Objects -> PageEntry]
  <2> SUFFICES ASSUME NEW o \in Objects PROVE heap'[o] \in PageEntry
    BY <1>1, Zenon
  <2>1. CASE \E p \in present : alloc[p] = o
    <3>1. (CHOOSE p \in present : alloc[p] = o) \in present
      BY <2>1
    <3> QED BY <2>1, <3>1, <1>1, <1>3
  <2>2. CASE ~\E p \in present : alloc[p] = o
    BY <2>2, <1>1, FreshPageType
  <2> QED BY <2>1, <2>2
<1>6. PagesDisjoint'
  BY <1>1, <1>2 DEF PagesDisjoint
<1> QED BY <1>4, <1>5, <1>6

(* What capture_snapshot saves is a table of page entries.                 *)
LEMMA TableType == ASSUME IInv PROVE Table \in [Pg -> PageEntry \cup {Null}]
BY DEF IInv, TypeOK, Table

(* Saving, restoring and deserializing pages keep the invariant.           *)
LEMMA SnapshotStepInv ==
    ASSUME IInv, SnapshotStep PROVE IInv'
<1>1. CASE CaptureSnapshot
  <2>1. SlotsCurrent' /\ PagesDisjoint'
    BY <1>1 DEF IInv, CaptureSnapshot, SlotsCurrent, PagesDisjoint
  <2> QED BY <1>1, <2>1, TableType DEF IInv, TypeOK, CaptureSnapshot
<1>2. ASSUME NEW resolved, RestoreSnapshot(resolved) PROVE IInv'
  <2>1. SlotsCurrent' /\ tlbEpoch' \in Nat
    BY <1>2, FlushStep DEF IInv, RestoreSnapshot
  <2>2. /\ pages' \in [Pg -> Objects \cup {Null}]
        /\ heap' \in [Objects -> PageEntry]
        /\ PagesDisjoint'
    BY <1>2, ReplaceStep DEF RestoreSnapshot
  <2> QED BY <1>2, <2>1, <2>2 DEF IInv, TypeOK, RestoreSnapshot
<1>3. ASSUME NEW resolved, DeserializeState(resolved) PROVE IInv'
  <2>1. SlotsCurrent' /\ tlbEpoch' \in Nat /\ tlb' \in [Slots -> TlbSlot]
    BY <1>3 DEF DeserializeState, SlotsCurrent, TlbSlot
  <2>2. /\ pages' \in [Pg -> Objects \cup {Null}]
        /\ heap' \in [Objects -> PageEntry]
        /\ PagesDisjoint'
    BY <1>3, ReplaceStep DEF DeserializeState
  <2> QED BY <1>3, <2>1, <2>2 DEF IInv, TypeOK, DeserializeState
<1> QED BY <1>1, <1>2, <1>3 DEF SnapshotStep

(* map, unmap and reprotect keep the invariant.                            *)
LEMMA MappingStepInv ==
    ASSUME IInv, MappingStep PROVE IInv'
BY MapStep, UnmapStep, ReprotectStep, ArgumentAssumption DEF MappingStep

(* Every kind of read, and the queries, keep the invariant.                *)
LEMMA ReadStepInv ==
    ASSUME IInv, ReadStep PROVE IInv'
<1>1. ASSUME NEW addr \in Nat, NEW size \in Nat, NEW kind, WalkOnly(addr, size, kind)
      PROVE  IInv'
  <2>1. LookedUp(addr, size, kind) \subseteq Steps(addr, size)
    BY DEF LookedUp
  <2> QED BY <1>1, <2>1, WalkOnlyStep DEF WalkOnly
<1>2. ASSUME NEW a \in Accesses, NEW required \in PermSets,
             HasPermissions(a[1], a[2], required)
      PROVE  IInv'
  <2> DEFINE ks == {k \in Steps(a[1], a[2]) : \A j \in 0..k-1 : HasAll(a[1], j, required)}
  <2>1. ks \subseteq Steps(a[1], a[2])
    OBVIOUS
  <2>2. tlb' = TlbAfter(a[1], ks)
    BY <1>2 DEF HasPermissions
  <2> HIDE DEF ks
  <2> QED BY <1>2, <2>1, <2>2, AccessType, WalkOnlyStep DEF HasPermissions
<1>3. ASSUME NEW p \in Pg, ReadCodePage(p) PROVE IInv'
  <2>1. p * PageSize \in Nat /\ PageSize \in Nat
    BY PageAssumption DEF Pg
  <2> QED BY <1>1, <1>3, <2>1 DEF ReadCodePage
<1> QED BY <1>1, <1>2, <1>3, AccessType
        DEF ReadStep, IsMapped, ReadFast, ReadSlow, ReadUnchecked

(* Every kind of write keeps the invariant.                                *)
LEMMA WriteStepInv ==
    ASSUME IInv, WriteStep PROVE IInv'
<1> SUFFICES ASSUME NEW a \in Accesses, NEW src \in [0..a[2]-1 -> Byte],
                    \/ WriteFast(a[1], a[2], src)
                    \/ WriteSlow(a[1], a[2], src)
                    \/ WriteUnchecked(a[1], a[2], src)
             PROVE  IInv'
  BY DEF WriteStep
<1>1. \A kind : /\ LookedUp(a[1], a[2], kind) \subseteq Steps(a[1], a[2])
                /\ Copied(a[1], a[2], kind) \subseteq Steps(a[1], a[2])
  BY DEF LookedUp, Copied
<1>2. CASE WriteFast(a[1], a[2], src)
  BY <1>1, <1>2, AccessType, StoreStep DEF WriteFast
<1>3. ASSUME NEW kind, WritePages(a[1], a[2], src, kind) PROVE IInv'
  BY <1>1, <1>3, AccessType, StoreStep DEF WritePages
<1> QED BY <1>2, <1>3 DEF WriteSlow, WriteUnchecked

(* Every step of Memory keeps the invariant.                               *)
LEMMA NextInv == ASSUME IInv, [Next]_vars PROVE IInv'
<1>1. CASE RegionStep
  BY <1>1 DEF RegionStep, pageVars, IInv, TypeOK, SlotsCurrent, PagesDisjoint
<1>2. ASSUME NEW on \in BOOLEAN, SetPassthrough(on) PROVE IInv'
  BY <1>2 DEF SetPassthrough, IInv, TypeOK, SlotsCurrent, PagesDisjoint
<1>3. ASSUME NEW on \in BOOLEAN, SetHooked(on) PROVE IInv'
  BY <1>3 DEF SetHooked, IInv, TypeOK, SlotsCurrent, PagesDisjoint
<1>4. CASE UNCHANGED vars
  BY <1>4 DEF vars, IInv, TypeOK, SlotsCurrent, PagesDisjoint
<1> QED BY <1>1, <1>2, <1>3, <1>4, MappingStepInv, ReadStepInv, WriteStepInv,
           SnapshotStepInv DEF Next

-----------------------------------------------------------------------------
(* The page state of Memory is always well-formed.                         *)
THEOREM TypeCorrect == Spec => []TypeOK
<1>1. IInv => TypeOK
  BY DEF IInv
<1> QED BY InitInv, NextInv, <1>1, PTL DEF Spec

(* lookup_page always answers what pages_.find would answer: the TLB holds *)
(* no pointer that map, unmap, reprotect, restore_pages or a new Memory    *)
(* object has made stale, for every TLB size and every allocation order.   *)
THEOREM TlbIsCoherent == Spec => []TlbCoherent
<1>1. IInv => TlbCoherent
  BY LookupExact DEF IInv, TlbCoherent
<1> QED BY InitInv, NextInv, <1>1, PTL DEF Spec

-----------------------------------------------------------------------------
(* The ranges map, unmap and reprotect run over stop short of the last     *)
(* page: the rounded end is below the end of the address space.            *)
LEMMA RangeBelowLast ==
    ASSUME NEW base \in Addr, NEW size \in Nat
    PROVE  RangePages(base, size) \subseteq 0..PageCount-2
<1> DEFINE x == base + size + PageSize - 1
           w == x % AddrSpace
<1>1. x \in Nat
  BY PageAssumption DEF Addr
<1> HIDE DEF x
<1>2. w \in Nat /\ w < AddrSpace
  BY <1>1, AddrSpaceAssumption
<1> HIDE DEF w
<1>3. w \div PageSize < PageCount /\ w \div PageSize \in Nat
  BY <1>2, PageAssumption, DivBelow
<1>4. base \div PageSize \in Nat
  BY PageAssumption DEF Addr
<1>5. RangePages(base, size) = (base \div PageSize)..((w \div PageSize) - 1)
  BY DEF RangePages, Wrap, w, x
<1> QED
  BY <1>3, <1>4, <1>5, PageAssumption

(* The last page is neither mapped nor in a held snapshot.                 *)
LastFree ==
    /\ pages[PageCount - 1] = Null
    /\ saved # Null => saved[PageCount - 1] = Null

(* A page number of the address space that no mapping range reaches.       *)
LEMMA LastPage == PageCount - 1 \in Pg /\ PageCount - 1 \notin 0..PageCount-2
  BY PageAssumption DEF Pg

(* An access that runs past the end of the address space walks the last    *)
(* page on its way.                                                        *)
LEMMA WrappedAccessMeetsLast ==
    ASSUME NEW addr \in Addr, NEW size \in 1..AddrSpace-1, addr + size > AddrSpace
    PROVE  \E k \in Steps(addr, size) : PageAt(addr, k) = PageCount - 1
<1> DEFINE q == addr \div PageSize
           r == addr % PageSize
           k == PageCount - 1 - q
           m == r + size + PageSize - 1
<1>0. addr \in Nat /\ addr < AddrSpace /\ size \in Nat
  BY AddrSpaceAssumption DEF Addr
<1>1. q \in Nat /\ r \in 0..PageSize-1 /\ addr = PageSize * q + r
  BY <1>0, PageAssumption
<1>2. q < PageCount
  BY <1>0, PageAssumption, DivBelow
<1>3. k \in Nat /\ q + k = PageCount - 1
  BY <1>1, <1>2, PageAssumption
<1>4. PageAt(addr, k) = PageCount - 1
  <2>1. (PageCount - 1) % PageCount = PageCount - 1
    BY PageAssumption
  <2> QED
    BY <1>3, <2>1 DEF PageAt
<1> HIDE DEF q, r
<1>5. m \in Nat
  BY <1>0, <1>1, PageAssumption
<1>6. ~(m < (k + 1) * PageSize)
  <2>1. (k + 1) * PageSize = (PageCount - q) * PageSize
    BY <1>1, <1>3, PageAssumption
  <2>2. (PageCount - q) * PageSize = PageCount * PageSize - PageSize * q
    BY <1>1, PageAssumption
  <2>3. r + size > PageCount * PageSize - PageSize * q
    BY <1>0, <1>1, PageAssumption
  <2> QED
    BY <1>0, <1>1, <2>1, <2>2, <2>3, PageAssumption
<1> HIDE DEF k, m
<1>7. ~(m \div PageSize < k + 1)
  <2> DEFINE n == k + 1
  <2>1. n \in Nat
    BY <1>3
  <2> HIDE DEF n
  <2>2. m \div PageSize < n <=> m < n * PageSize
    BY <1>5, <2>1, PageAssumption, DivBelow
  <2> QED
    BY <1>6, <2>2 DEF n
<1>8. PagesTouched(addr, size) = m \div PageSize /\ m \div PageSize \in Nat
  BY <1>5, PageAssumption DEF PagesTouched, m, r
<1>9. k \in Steps(addr, size)
  BY <1>3, <1>7, <1>8 DEF Steps
<1> QED
  BY <1>4, <1>9

(* So every walk ends before it has copied from there.                     *)
LEMMA LastFreeStopsWalk ==
    ASSUME IInv, LastFree PROVE WalksStopAtEnd
<1> SUFFICES ASSUME NEW addr \in Addr, NEW size \in 1..AddrSpace-1, addr + size > AddrSpace
             PROVE  /\ ~AllOk(addr, size, "unchecked")
                    /\ \A k \in Copied(addr, size, "unchecked") :
                          (addr \div PageSize) + k < PageCount - 1
  BY DEF WalksStopAtEnd
<1>1. ASSUME NEW k, PageAt(addr, k) = PageCount - 1 PROVE ~PageOk(addr, k, "unchecked")
  <2>1. Lookup(PageAt(addr, k)) = Null
    BY <1>1, LastPage, LookupExact DEF IInv, LastFree
  <2> QED
    BY <2>1 DEF PageOk
<1>2. ~AllOk(addr, size, "unchecked")
  BY <1>1, WrappedAccessMeetsLast DEF AllOk
<1>3. ASSUME NEW k \in Copied(addr, size, "unchecked"),
             ~((addr \div PageSize) + k < PageCount - 1)
      PROVE  FALSE
  <2> DEFINE q == addr \div PageSize
             j == PageCount - 1 - q
  <2>1. q \in Nat /\ q < PageCount
    BY PageAssumption, AddrSpaceAssumption, DivBelow DEF Addr
  <2>2. k \in Nat /\ \A i \in 0..k : PageOk(addr, i, "unchecked")
    BY PagesTouchedType DEF Copied, Steps, Addr
  <2>3. PageAt(addr, j) = PageCount - 1
    <3>1. (PageCount - 1) % PageCount = PageCount - 1
      BY PageAssumption
    <3>2. q + j = PageCount - 1
      <4> HIDE DEF q
      <4> QED BY <2>1, PageAssumption
    <3> QED
      BY <3>1, <3>2 DEF PageAt
  <2>4. j \in 0..k
    <3>1. ~(q + k < PageCount - 1)
      BY <1>3
    <3> HIDE DEF q
    <3> QED
      BY <2>1, <2>2, <3>1, PageAssumption
  <2> HIDE DEF j, q
  <2> QED
    BY <1>1, <2>2, <2>3, <2>4
<1> QED
  BY <1>2, <1>3

(* Every step leaves the last page alone.                                  *)
LEMMA NextLastFree ==
    ASSUME IInv, LastFree, [Next]_vars PROVE LastFree'
<1> USE LastPage
<1>1. CASE MappingStep
  <2> SUFFICES ASSUME NEW r \in MapRanges, NEW perm,
                      \/ Map(r[1], r[2], perm)
                      \/ Reprotect(r[1], r[2], perm)
                      \/ Unmap(r[1], r[2])
               PROVE  LastFree'
    BY <1>1 DEF MappingStep
  <2>1. r[1] \in Addr /\ r[2] \in Nat
    BY ArgumentAssumption
  <2>2. PageCount - 1 \notin RangePages(r[1], r[2])
    BY <2>1, RangeBelowLast
  <2> QED
    BY <2>2 DEF Map, Reprotect, Unmap, LastFree
<1>2. CASE ReadStep \/ RegionStep \/ (\E on \in BOOLEAN : SetPassthrough(on) \/ SetHooked(on))
  <2>1. UNCHANGED <<pages, saved>>
    BY <1>2 DEF ReadStep, IsMapped, HasPermissions, ReadFast, ReadSlow, ReadUnchecked,
                ReadCodePage, WalkOnly, RegionStep, pageVars, SetPassthrough, SetHooked
  <2> QED
    BY <2>1 DEF LastFree
<1>3. CASE WriteStep
  BY <1>3 DEF WriteStep, WriteFast, WriteSlow, WriteUnchecked, WritePages, LastFree
<1>4. CASE SnapshotStep
  <2>1. CASE CaptureSnapshot
    BY <2>1 DEF CaptureSnapshot, Table, LastFree
  <2>2. ASSUME saved # Null, ReplacePages PROVE pages'[PageCount - 1] = Null
    BY <2>2 DEF ReplacePages, LastFree
  <2> QED
    BY <1>4, <2>1, <2>2 DEF SnapshotStep, RestoreSnapshot, DeserializeState, LastFree
<1>5. CASE UNCHANGED vars
  BY <1>5 DEF vars, LastFree
<1> QED
  BY <1>1, <1>2, <1>3, <1>4, <1>5 DEF Next

(* No page walk wraps around the address space, for every page size,       *)
(* number of pages and argument of map: the last page can not be mapped,   *)
(* by map or from a snapshot.                                              *)
THEOREM NoWalkWraps == Spec => []WalksStopAtEnd
<1> DEFINE WInv == IInv /\ LastFree
<1>1. Init => WInv
  <2>1. Init => LastFree
    BY LastPage DEF Init, LastFree
  <2> QED
    BY <2>1, InitInv
<1>2. WInv /\ [Next]_vars => WInv'
  BY NextInv, NextLastFree
<1>3. WInv => WalksStopAtEnd
  BY LastFreeStopsWalk
<1> QED
  BY <1>1, <1>2, <1>3, PTL DEF Spec

-----------------------------------------------------------------------------
(* Memory implements PageTable.                                            *)

(* The abstract table: what pages_ and the entries say of a page.          *)
LEMMA TableAt ==
    ASSUME IInv, NEW p \in Pg
    PROVE  /\ Table[p] = Null <=> pages[p] = Null
           /\ pages[p] # Null => /\ pages[p] \in Objects
                                 /\ Table[p] = heap[pages[p]]
                                 /\ Table[p] \in PageEntry
<1>1. pages[p] # Null => heap[pages[p]] \in PageEntry /\ pages[p] \in Objects
  BY DEF IInv, TypeOK
<1> QED
  BY <1>1, NullAssumption DEF Table

(* The page arithmetic of the two modules is the same.                     *)
LEMMA SameArithmetic ==
    /\ PT!AddrCount = AddrSpace
    /\ PT!PageNumbers = Pg
    /\ \A base, size : PT!Range(base, size) = RangePages(base, size)
    /\ \A addr, k : PT!PTPage(addr, k) = PageAt(addr, k)
    /\ \A addr, size : PT!PTSteps(addr, size) = Steps(addr, size)
    /\ \A perm : PT!Fresh(perm) = FreshPage(perm)
<1>1. PT!AddrCount = AddrSpace
  BY PageAssumption DEF PT!AddrCount
<1> QED
  BY <1>1 DEF PT!PageNumbers, Pg, PT!Range, RangePages, Wrap, PT!PTPage, PageAt,
              PT!PTSteps, Steps, PagesTouched, PT!Fresh, FreshPage

(* The ranges of map, unmap and reprotect are ranges of pages.             *)
LEMMA RangeInTable ==
    ASSUME NEW base \in Addr, NEW size \in Nat
    PROVE  RangePages(base, size) \subseteq Pg
BY RangeBelowLast, PageAssumption DEF Pg

(* A range holds the entry of a mapped page only if it holds the page.     *)
LEMMA EntryInRange ==
    ASSUME IInv, NEW range \in SUBSET Pg, NEW p \in Pg, pages[p] # Null
    PROVE  (\E q \in range : pages[q] = pages[p]) <=> p \in range
BY DEF IInv, PagesDisjoint

(* map inserts fresh pages and changes the permissions of the others.      *)
LEMMA MapRefines ==
    ASSUME IInv, NEW base \in Addr, NEW size \in Nat, NEW perm, Map(base, size, perm)
    PROVE  PT!PTMap(base, size, perm)
<1> DEFINE range == RangePages(base, size)
           new == {p \in range : pages[p] = Null}
<1>1. PICK alloc \in Allocations(new, Objects \ Live) :
        /\ pages' = [p \in Pg |-> IF p \in new THEN alloc[p] ELSE pages[p]]
        /\ heap' = [o \in Objects |->
               IF \E p \in new : alloc[p] = o THEN FreshPage(perm)
               ELSE IF \E p \in range : pages[p] = o THEN [heap[o] EXCEPT !.perm = perm]
               ELSE heap[o]]
  BY DEF Map
<1>2. /\ \A p \in new : alloc[p] \in Objects /\ alloc[p] \notin Live
      /\ Null \notin Objects
  BY DataAssumption DEF Allocations
<1> DEFINE X(p) == IF p \notin range THEN Table[p]
                   ELSE IF Table[p] = Null THEN FreshPage(perm)
                   ELSE [Table[p] EXCEPT !.perm = perm]
<1>3. ASSUME NEW p \in Pg PROVE Table'[p] = X(p)
  <2>0. Table'[p] = IF pages'[p] = Null THEN Null ELSE heap'[pages'[p]]
    BY DEF Table
  <2>1. CASE p \in new
    <3>1. pages'[p] = alloc[p] /\ alloc[p] \in Objects /\ alloc[p] # Null
      BY <1>1, <1>2, <2>1
    <3>2. heap'[alloc[p]] = FreshPage(perm)
      BY <1>1, <2>1, <3>1
    <3> QED
      BY <2>0, <2>1, <3>1, <3>2, TableAt
  <2>2. CASE p \notin new /\ pages[p] = Null
    BY <1>1, <2>0, <2>2, TableAt
  <2>3. CASE pages[p] # Null
    <3>1. pages[p] \in Objects /\ Table[p] = heap[pages[p]] /\ Table[p] # Null
      BY <2>3, TableAt
    <3>2. ~\E q \in new : alloc[q] = pages[p]
      BY <1>2, <2>3 DEF Live
    <3>3. pages'[p] = pages[p]
      BY <1>1, <2>3
    <3>4. (\E q \in range : pages[q] = pages[p]) <=> p \in range
      BY <2>3, RangeInTable, EntryInRange
    <3> QED
      BY <1>1, <2>0, <2>3, <3>1, <3>2, <3>3, <3>4
  <2> QED
    BY <2>1, <2>2, <2>3
<1>4. Table' = [p \in Pg |-> X(p)]
  <2> HIDE DEF X
  <2> QED
    BY <1>3 DEF Table
<1> QED
  BY <1>4, SameArithmetic DEF Map, PT!PTMap, PT!BumpEpoch

(* unmap removes the pages of its range and no other.                      *)
LEMMA UnmapRefines ==
    ASSUME IInv, NEW base \in Addr, NEW size \in Nat, Unmap(base, size)
    PROVE  PT!PTUnmap(base, size)
<1> DEFINE range == RangePages(base, size)
           X(p) == IF p \in range THEN Null ELSE Table[p]
<1>1. ASSUME NEW p \in Pg PROVE Table'[p] = X(p)
  <2>1. Table'[p] = IF pages'[p] = Null THEN Null ELSE heap'[pages'[p]]
    BY DEF Table
  <2>2. pages'[p] = IF p \in range THEN Null ELSE pages[p]
    BY DEF Unmap
  <2>3. CASE p \in range \/ pages[p] = Null
    BY <2>1, <2>2, <2>3, TableAt
  <2>4. CASE p \notin range /\ pages[p] # Null
    <3>1. ~\E q \in range : pages[q] = pages[p]
      BY <2>4, RangeInTable, EntryInRange
    <3>2. heap'[pages[p]] = heap[pages[p]]
      BY <2>4, <3>1, TableAt DEF Unmap
    <3> QED
      BY <2>1, <2>2, <2>4, <3>2, TableAt
  <2> QED
    BY <2>3, <2>4
<1>2. Table' = [p \in Pg |-> X(p)]
  <2> HIDE DEF X
  <2> QED
    BY <1>1 DEF Table
<1> QED
  BY <1>2, SameArithmetic DEF Unmap, PT!PTUnmap, PT!BumpEpoch

(* reprotect changes the permissions of the mapped pages of its range.     *)
LEMMA ReprotectRefines ==
    ASSUME IInv, NEW base \in Addr, NEW size \in Nat, NEW perm, Reprotect(base, size, perm)
    PROVE  PT!PTReprotect(base, size, perm)
<1> DEFINE range == RangePages(base, size)
           X(p) == IF p \in range /\ Table[p] # Null
                   THEN [Table[p] EXCEPT !.perm = perm] ELSE Table[p]
<1>1. ASSUME NEW p \in Pg PROVE Table'[p] = X(p)
  <2>1. Table'[p] = IF pages[p] = Null THEN Null ELSE heap'[pages[p]]
    BY DEF Table, Reprotect
  <2>2. CASE pages[p] = Null
    BY <2>1, <2>2, TableAt
  <2>3. CASE pages[p] # Null
    <3>1. (\E q \in range : pages[q] = pages[p]) <=> p \in range
      BY <2>3, RangeInTable, EntryInRange
    <3>2. heap'[pages[p]] = IF p \in range THEN [heap[pages[p]] EXCEPT !.perm = perm]
                            ELSE heap[pages[p]]
      BY <2>3, <3>1, TableAt DEF Reprotect
    <3> QED
      BY <2>1, <2>3, <3>2, TableAt
  <2> QED
    BY <2>2, <2>3
<1>2. Table' = [p \in Pg |-> X(p)]
  <2> HIDE DEF X
  <2> QED
    BY <1>1 DEF Table
<1> QED
  BY <1>2, SameArithmetic DEF Reprotect, PT!PTReprotect, PT!BumpEpoch

(* restore_pages and deserialize_state bring the captured table back.      *)
LEMMA ReplaceRefines ==
    ASSUME IInv, saved # Null, ReplacePages
    PROVE  Table' = saved
<1> DEFINE present == {p \in Pg : saved[p] # Null}
<1>1. PICK alloc \in Allocations(present, Objects) :
        /\ pages' = [p \in Pg |-> IF p \in present THEN alloc[p] ELSE Null]
        /\ heap' = [o \in Objects |->
               IF \E p \in present : alloc[p] = o
               THEN saved[CHOOSE p \in present : alloc[p] = o] ELSE FreshPage({})]
  BY DEF ReplacePages
<1>2. /\ \A p \in present : alloc[p] \in Objects
      /\ \A p, q \in present : alloc[p] = alloc[q] => p = q
      /\ Null \notin Objects
  BY DataAssumption DEF Allocations
<1>3. saved \in [Pg -> PageEntry \cup {Null}]
  BY DEF IInv, TypeOK
<1>4. ASSUME NEW p \in Pg PROVE Table'[p] = saved[p]
  <2>1. Table'[p] = IF pages'[p] = Null THEN Null ELSE heap'[pages'[p]]
    BY DEF Table
  <2>2. CASE p \notin present
    BY <1>1, <2>1, <2>2
  <2>3. CASE p \in present
    <3>1. pages'[p] = alloc[p] /\ alloc[p] \in Objects /\ alloc[p] # Null
      BY <1>1, <1>2, <2>3
    <3>2. (CHOOSE q \in present : alloc[q] = alloc[p]) = p
      BY <1>2, <2>3
    <3>3. heap'[alloc[p]] = saved[p]
      BY <1>1, <2>3, <3>1, <3>2
    <3> QED
      BY <2>1, <3>1, <3>3
  <2> QED
    BY <2>2, <2>3
<1> QED
  BY <1>3, <1>4 DEF Table

(* The walk of a write finds the pages the abstract table calls writable.  *)
LEMMA WritableExact ==
    ASSUME IInv, NEW addr \in Addr, NEW k \in Nat, NEW kind \in {"data_write", "unchecked"}
    PROVE  /\ PageAt(addr, k) \in Pg
           /\ Lookup(PageAt(addr, k)) = pages[PageAt(addr, k)]
           /\ PageOk(addr, k, kind) => pages[PageAt(addr, k)] # Null
           /\ PageOk(addr, k, kind) <=> PT!Writable(PT!PTPage(addr, k), kind = "data_write")
<1>0. addr \in Nat
  BY DEF Addr
<1>1. PageAt(addr, k) \in Pg
  BY <1>0, PageAtType
<1>2. Lookup(PageAt(addr, k)) = pages[PageAt(addr, k)]
  BY <1>1, LookupExact DEF IInv
<1>3. PT!PTPage(addr, k) = PageAt(addr, k)
  BY SameArithmetic
<1>4. PageOk(addr, k, kind) <=>
        /\ pages[PageAt(addr, k)] # Null
        /\ HasPermission(heap[pages[PageAt(addr, k)]].perm, kind)
  BY <1>2 DEF PageOk
<1>5. ASSUME NEW perm PROVE HasPermission(perm, kind) <=> (kind = "data_write" => "write" \in perm)
  BY DEF HasPermission
<1>6. PT!Writable(PageAt(addr, k), kind = "data_write") <=>
        /\ Table[PageAt(addr, k)] # Null
        /\ kind = "data_write" => "write" \in Table[PageAt(addr, k)].perm
  BY DEF PT!Writable
<1>7. CASE pages[PageAt(addr, k)] = Null
  BY <1>1, <1>2, <1>3, <1>4, <1>6, <1>7, TableAt
<1>8. CASE pages[PageAt(addr, k)] # Null
  <2>1. Table[PageAt(addr, k)] # Null /\ Table[PageAt(addr, k)] = heap[pages[PageAt(addr, k)]]
    BY <1>1, <1>8, TableAt
  <2> QED
    BY <1>1, <1>2, <1>3, <1>4, <1>5, <1>6, <1>8, <2>1
<1> QED
  BY <1>7, <1>8

(* The pages a write is stored to are the ones it reaches.                 *)
LEMMA ReachedExact ==
    ASSUME IInv, NEW addr \in Addr, NEW size, NEW kind \in {"data_write", "unchecked"},
           PagesTouched(addr, size) \in Nat
    PROVE  /\ PT!Reached(addr, size, kind = "data_write") =
                 {PageAt(addr, k) : k \in Copied(addr, size, kind)}
           /\ PT!Complete(addr, size, kind = "data_write") <=> AllOk(addr, size, kind)
<1>1. Steps(addr, size) \subseteq Nat
  BY DEF Steps
<1>2. \A k \in Nat : PageOk(addr, k, kind) <=>
                     PT!Writable(PT!PTPage(addr, k), kind = "data_write")
  BY WritableExact
<1>3. PT!PTSteps(addr, size) = Steps(addr, size)
  BY SameArithmetic
<1>4. \A k : PT!PTPage(addr, k) = PageAt(addr, k)
  BY SameArithmetic
<1>5. \A i \in Steps(addr, size) : \A j \in 0..i : j \in Nat
  BY <1>1
<1> DEFINE C == {i \in PT!PTSteps(addr, size) :
                   \A j \in 0..i : PT!Writable(PT!PTPage(addr, j), kind = "data_write")}
<1>6. C = Copied(addr, size, kind)
  BY <1>2, <1>3, <1>5 DEF Copied
<1>7. PT!Reached(addr, size, kind = "data_write") = {PT!PTPage(addr, k) : k \in C}
  BY DEF PT!Reached
<1>8. PT!Reached(addr, size, kind = "data_write") = {PageAt(addr, k) : k \in C}
  <2> HIDE DEF C
  <2> QED
    BY <1>4, <1>7
<1>9. PT!Complete(addr, size, kind = "data_write") <=> AllOk(addr, size, kind)
  BY <1>1, <1>2, <1>3 DEF PT!Complete, AllOk
<1> QED
  BY <1>6, <1>8, <1>9

(* The stores of the page loop, seen through the table.                    *)
LEMMA StoredRefines ==
    ASSUME IInv, NEW addr \in Addr, NEW size, NEW src, NEW kind \in {"data_write", "unchecked"},
           PagesTouched(addr, size) \in Nat,
           pages' = pages, heap' = Stored(addr, size, src, Copied(addr, size, kind))
    PROVE  Table' = [p \in Pg |->
             IF p \notin {PageAt(addr, k) : k \in Copied(addr, size, kind)} THEN Table[p]
             ELSE [Table[p] EXCEPT !.data = [off \in 0..PageSize-1 |->
                     IF (p * PageSize + off - addr) % AddrSpace < size
                     THEN src[(p * PageSize + off - addr) % AddrSpace]
                     ELSE Table[p].data[off]]]]
<1> DEFINE ks == Copied(addr, size, kind)
           at(p, off) == (p * PageSize + off - addr) % AddrSpace
           D(p, e) == [off \in 0..PageSize-1 |->
                         IF at(p, off) < size THEN src[at(p, off)] ELSE e.data[off]]
           X(p) == IF p \notin {PageAt(addr, k) : k \in ks} THEN Table[p]
                   ELSE [Table[p] EXCEPT !.data = D(p, Table[p])]
<1>1. \A k \in ks : k \in Nat /\ PageOk(addr, k, kind)
  BY DEF Copied, Steps
<1>2. \A k \in ks : /\ PageAt(addr, k) \in Pg
                    /\ Lookup(PageAt(addr, k)) = pages[PageAt(addr, k)]
                    /\ pages[PageAt(addr, k)] # Null
  BY <1>1, WritableExact
<1>3. ASSUME NEW p \in Pg PROVE Table'[p] = X(p)
  <2>1. Table'[p] = IF pages[p] = Null THEN Null ELSE heap'[pages[p]]
    BY DEF Table
  <2>2. CASE pages[p] = Null
    BY <1>2, <2>1, <2>2, TableAt
  <2>3. CASE pages[p] # Null
    <3> DEFINE o == pages[p]
               here == {k \in ks : Lookup(PageAt(addr, k)) = o}
    <3>1. o \in Objects /\ Table[p] = heap[o]
      BY <2>3, TableAt
    <3>2. \A k \in ks : k \in here <=> PageAt(addr, k) = p
      BY <1>2, <2>3 DEF IInv, PagesDisjoint
    <3>3. heap'[o] = IF here = {} THEN heap[o]
                     ELSE [heap[o] EXCEPT !.data =
                             D(PageAt(addr, CHOOSE k \in here : TRUE), heap[o])]
      <4> HIDE DEF ks, o
      <4> QED
        BY <3>1 DEF Stored, ks
    <3>4. CASE here = {}
      BY <2>1, <2>3, <3>1, <3>2, <3>3, <3>4
    <3>5. CASE here # {}
      <4>1. (CHOOSE k \in here : TRUE) \in here
        BY <3>5
      <4>2. PageAt(addr, CHOOSE k \in here : TRUE) = p
        BY <3>2, <4>1
      <4>3. p \in {PageAt(addr, k) : k \in ks}
        BY <4>1, <4>2
      <4> HIDE DEF ks, here, D
      <4> QED
        BY <2>1, <2>3, <3>1, <3>3, <3>5, <4>2, <4>3
    <3> QED
      BY <3>4, <3>5
  <2> QED
    BY <2>2, <2>3
<1>4. Table' = [p \in Pg |-> X(p)]
  <2> HIDE DEF X
  <2> QED
    BY <1>3 DEF Table
<1> QED
  BY <1>4

(* A written page is executable in the table when its entry is.            *)
LEMMA ExecutableExact ==
    ASSUME IInv, NEW addr \in Addr, NEW size, NEW kind \in {"data_write", "unchecked"},
           PagesTouched(addr, size) \in Nat
    PROVE  Executable(addr, Copied(addr, size, kind)) <=>
           \E p \in PT!Reached(addr, size, kind = "data_write") : PT!Executable(p)
<1> DEFINE ks == Copied(addr, size, kind)
<1>1. \A k \in ks : k \in Nat /\ PageOk(addr, k, kind)
  BY DEF Copied, Steps
<1>2. \A k \in ks : /\ PageAt(addr, k) \in Pg
                    /\ Lookup(PageAt(addr, k)) = pages[PageAt(addr, k)]
                    /\ pages[PageAt(addr, k)] # Null
  BY <1>1, WritableExact
<1>3. \A k \in ks : PT!Executable(PageAt(addr, k)) <=>
                    "execute" \in heap[Lookup(PageAt(addr, k))].perm
  BY <1>2, TableAt DEF PT!Executable
<1>4. PT!Reached(addr, size, kind = "data_write") = {PageAt(addr, k) : k \in ks}
  BY ReachedExact
<1> HIDE DEF ks
<1> QED
  BY <1>3, <1>4 DEF Executable, ks

(* When every page of a write is there, all of them are stored to.         *)
LEMMA AllCopied ==
    ASSUME NEW addr, NEW size, NEW kind, PagesTouched(addr, size) \in Nat,
           AllOk(addr, size, kind)
    PROVE  Copied(addr, size, kind) = Steps(addr, size)
BY DEF Copied, Steps, AllOk

(* A write is a write of the table when the epoch moves as it should.      *)
LEMMA WriteRefines ==
    ASSUME IInv, NEW addr \in Addr, NEW size, NEW src, NEW kind \in {"data_write", "unchecked"},
           PagesTouched(addr, size) \in Nat,
           pages' = pages, saved' = saved,
           heap' = Stored(addr, size, src, Copied(addr, size, kind)),
           AllOk(addr, size, kind) /\ Executable(addr, Copied(addr, size, kind)) =>
               codeEpoch < MaxEpoch /\ codeEpoch' = codeEpoch + 1,
           ~(AllOk(addr, size, kind) /\ Executable(addr, Copied(addr, size, kind))) =>
               codeEpoch' = codeEpoch
    PROVE  PT!PTWrite(addr, size, src, kind = "data_write")
<1> DEFINE reached == PT!Reached(addr, size, kind = "data_write")
           X == [p \in Pg |->
             IF p \notin reached THEN Table[p]
             ELSE [Table[p] EXCEPT !.data = [off \in 0..PageSize-1 |->
                     IF (p * PageSize + off - addr) % AddrSpace < size
                     THEN src[(p * PageSize + off - addr) % AddrSpace]
                     ELSE Table[p].data[off]]]]
           moved == PT!Complete(addr, size, kind = "data_write") /\ \E p \in reached : PT!Executable(p)
<1>1. reached = {PageAt(addr, k) : k \in Copied(addr, size, kind)}
  BY ReachedExact
<1>2. Table' = X
  BY <1>1, StoredRefines
<1>3. moved <=> AllOk(addr, size, kind) /\ Executable(addr, Copied(addr, size, kind))
  BY ReachedExact, ExecutableExact
<1>4. IF moved THEN PT!BumpEpoch ELSE codeEpoch' = codeEpoch
  BY <1>3 DEF PT!BumpEpoch
<1>5. PT!AddrCount = AddrSpace /\ PT!PageNumbers = Pg
  BY SameArithmetic
<1>6. PT!PTWrite(addr, size, src, kind = "data_write") <=>
        /\ Table' = X
        /\ IF moved THEN PT!BumpEpoch ELSE codeEpoch' = codeEpoch
        /\ saved' = saved
  BY <1>5 DEF PT!PTWrite
<1> QED
  BY <1>2, <1>4, <1>6

(* A write that stays in a page takes one step.                            *)
LEMMA OneStep ==
    ASSUME NEW addr \in Nat, NEW size \in Nat \ {0}, SinglePage(addr, size)
    PROVE  Steps(addr, size) = {0}
<1> DEFINE r == addr % PageSize
           m == r + size + PageSize - 1
<1>1. r \in Nat
  BY PageAssumption
<1>2. r + size <= PageSize
  BY DEF SinglePage
<1> HIDE DEF r
<1>3. m \in Nat /\ ~(m < 1 * PageSize) /\ m < 2 * PageSize
  BY <1>1, <1>2, PageAssumption
<1> HIDE DEF m
<1>4. m \div PageSize \in Nat /\ ~(m \div PageSize < 1) /\ m \div PageSize < 2
  BY <1>3, PageAssumption, DivBelow
<1>5. PagesTouched(addr, size) = 1
  BY <1>4 DEF PagesTouched, m, r
<1> QED
  BY <1>5 DEF Steps

(* Every write path is a write of the table.                               *)
LEMMA WriteStepRefines ==
    ASSUME IInv, NEW addr \in Addr, NEW size \in 1..AddrSpace-1, NEW src,
           \/ WriteFast(addr, size, src)
           \/ WriteSlow(addr, size, src)
           \/ WriteUnchecked(addr, size, src)
    PROVE  \E checked \in BOOLEAN : PT!PTWrite(addr, size, src, checked)
<1>1. addr \in Nat /\ size \in Nat \ {0} /\ PagesTouched(addr, size) \in Nat
  <2>1. addr \in Nat /\ size \in Nat \ {0}
    BY AddrSpaceAssumption DEF Addr
  <2> QED
    BY <2>1, PagesTouchedType
<1>2. ASSUME WriteFast(addr, size, src)
      PROVE  PT!PTWrite(addr, size, src, "data_write" = "data_write")
  <2>1. Steps(addr, size) = {0}
    BY <1>1, <1>2, OneStep DEF WriteFast, FastPath
  <2>2. Copied(addr, size, "data_write") # {} <=> AllOk(addr, size, "data_write")
    BY <2>1 DEF Copied, AllOk
  <2> DEFINE ok == Copied(addr, size, "data_write")
             bump == ok # {} /\ Executable(addr, ok)
  <2>3. /\ bump => codeEpoch < MaxEpoch
        /\ codeEpoch' = IF bump THEN codeEpoch + 1 ELSE codeEpoch
        /\ heap' = Stored(addr, size, src, ok)
        /\ pages' = pages /\ saved' = saved
    BY <1>2 DEF WriteFast
  <2>4. bump <=> AllOk(addr, size, "data_write") /\ Executable(addr, ok)
    BY <2>2
  <2> HIDE DEF bump
  <2> QED
    BY <1>1, <2>3, <2>4, WriteRefines
<1>3. ASSUME NEW kind \in {"data_write", "unchecked"}, WritePages(addr, size, src, kind)
      PROVE  PT!PTWrite(addr, size, src, kind = "data_write")
  <2> DEFINE ok == Copied(addr, size, kind)
             bump == AllOk(addr, size, kind) /\ Executable(addr, Steps(addr, size))
  <2>1. /\ bump => codeEpoch < MaxEpoch
        /\ codeEpoch' = IF bump THEN codeEpoch + 1 ELSE codeEpoch
        /\ heap' = Stored(addr, size, src, ok)
        /\ pages' = pages /\ saved' = saved
    BY <1>3 DEF WritePages
  <2>2. bump <=> AllOk(addr, size, kind) /\ Executable(addr, ok)
    BY <1>1, AllCopied
  <2> HIDE DEF bump
  <2> QED
    BY <1>1, <2>1, <2>2, WriteRefines
<1>4. \A kind : (kind = "data_write") \in BOOLEAN
  OBVIOUS
<1>5. CASE WriteFast(addr, size, src)
  BY <1>2, <1>4, <1>5
<1>6. ASSUME NEW kind \in {"data_write", "unchecked"}, WritePages(addr, size, src, kind)
      PROVE  \E checked \in BOOLEAN : PT!PTWrite(addr, size, src, checked)
  BY <1>3, <1>4, <1>6
<1>7. CASE WriteSlow(addr, size, src)
  BY <1>6, <1>7 DEF WriteSlow
<1>8. CASE WriteUnchecked(addr, size, src)
  BY <1>6, <1>8 DEF WriteUnchecked
<1> QED
  BY <1>5, <1>7, <1>8

(* Steps that leave pages_, the entries, the snapshot and the code epoch   *)
(* alone are invisible in the table.                                       *)
LEMMA StutterRefines ==
    ASSUME UNCHANGED <<pages, heap, saved, codeEpoch>>
    PROVE  UNCHANGED PT!ptVars
BY DEF PT!ptVars, Table

(* Every step is a step of PageTable or leaves it alone.                   *)
LEMMA NextRefines ==
    ASSUME IInv, [Next]_vars PROVE [PT!PTNext]_(PT!ptVars)
<1>1. CASE MappingStep
  <2>1. PICK r \in MapRanges :
          \/ \E perm \in PermSets : Map(r[1], r[2], perm) \/ Reprotect(r[1], r[2], perm)
          \/ Unmap(r[1], r[2])
    BY <1>1 DEF MappingStep
  <2>2. r[1] \in Addr /\ r[2] \in Nat
    BY ArgumentAssumption
  <2>3. ASSUME NEW perm \in PermSets, Map(r[1], r[2], perm) \/ Reprotect(r[1], r[2], perm)
        PROVE  PT!PTMap(r[1], r[2], perm) \/ PT!PTReprotect(r[1], r[2], perm)
    BY <2>2, <2>3, MapRefines, ReprotectRefines
  <2>4. Unmap(r[1], r[2]) => PT!PTUnmap(r[1], r[2])
    BY <2>2, UnmapRefines
  <2>5. PT!PTMapping
    BY <2>1, <2>3, <2>4 DEF PT!PTMapping
  <2> QED
    BY <2>5 DEF PT!PTNext
<1>2. CASE ReadStep \/ RegionStep \/ (\E on \in BOOLEAN : SetPassthrough(on) \/ SetHooked(on))
  <2>1. UNCHANGED <<pages, heap, saved, codeEpoch>>
    BY <1>2 DEF ReadStep, IsMapped, HasPermissions, ReadFast, ReadSlow, ReadUnchecked,
                ReadCodePage, WalkOnly, RegionStep, pageVars, SetPassthrough, SetHooked
  <2> QED
    BY <2>1, StutterRefines
<1>3. CASE WriteStep
  <2>1. PICK a \in Accesses : \E src \in [0..a[2]-1 -> Byte] :
          \/ WriteFast(a[1], a[2], src)
          \/ WriteSlow(a[1], a[2], src)
          \/ WriteUnchecked(a[1], a[2], src)
    BY <1>3 DEF WriteStep
  <2>2. PICK src \in [0..a[2]-1 -> Byte] :
          \/ WriteFast(a[1], a[2], src)
          \/ WriteSlow(a[1], a[2], src)
          \/ WriteUnchecked(a[1], a[2], src)
    BY <2>1
  <2>3. a[1] \in Addr /\ a[2] \in 1..AddrSpace-1
    BY ArgumentAssumption
  <2>4. \E checked \in BOOLEAN : PT!PTWrite(a[1], a[2], src, checked)
    BY <2>2, <2>3, WriteStepRefines
  <2> QED
    BY <2>4 DEF PT!PTNext
<1>4. CASE SnapshotStep
  <2>1. CaptureSnapshot => PT!PTCapture
    BY DEF CaptureSnapshot, PT!PTCapture, Table
  <2>2. ASSUME NEW resolved, RestoreSnapshot(resolved) PROVE PT!PTRestore
    <3>1. Table' = saved
      BY <2>2, ReplaceRefines DEF RestoreSnapshot
    <3> QED
      BY <2>2, <3>1 DEF RestoreSnapshot, PT!PTRestore, PT!BumpEpoch
  <2>3. ASSUME NEW resolved, DeserializeState(resolved) PROVE PT!PTDeserialize
    <3>1. Table' = saved
      BY <2>3, ReplaceRefines DEF DeserializeState
    <3> QED
      BY <2>3, <3>1 DEF DeserializeState, PT!PTDeserialize
  <2> QED
    BY <1>4, <2>1, <2>2, <2>3 DEF SnapshotStep, PT!PTNext
<1>5. CASE UNCHANGED vars
  BY <1>5, StutterRefines DEF vars
<1> QED
  BY <1>1, <1>2, <1>3, <1>4, <1>5 DEF Next

(* Memory implements PageTable, for every address space, page size, TLB    *)
(* size, set of objects and choice of arguments: the TLB, the reuse of     *)
(* entries, the hooks, MMIO and the fast paths of read and write do not    *)
(* show in what the pages hold or in when the code epoch moves.            *)
THEOREM MemoryImplementsPageTable == Spec => ImplementsPageTable
<1>1. Init => PT!PTInit
  BY SameArithmetic DEF Init, PT!PTInit, Table
<1>2. IInv /\ [Next]_vars => [PT!PTNext]_(PT!ptVars)
  BY NextRefines
<1> QED
  BY InitInv, NextInv, <1>1, <1>2, PTL DEF Spec, ImplementsPageTable, PT!PTSpec
=============================================================================
