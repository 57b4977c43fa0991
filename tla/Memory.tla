------------------------------- MODULE Memory -------------------------------
(***************************************************************************)
(* Class Memory of seven_core (include/seven/memory.hpp, src/memory.cpp):  *)
(* the page table, the direct-mapped page lookup cache (TLB) that holds    *)
(* raw PageEntry pointers, the code epoch that the executor's decode cache *)
(* relies on, and the paths of read and write (passthrough, fast path,     *)
(* access hooks, MMIO, page-by-page copy).                                 *)
(*                                                                         *)
(* PageEntry objects live in heap and are named by Objects, so that a      *)
(* pointer into an erased entry dangles and the allocator may reuse the    *)
(* object for another page.  Every call is one action: the class is not    *)
(* thread-safe and no call is entered while another one runs, except from  *)
(* access-hook callbacks, which module AccessHooks is about.  Here a hook  *)
(* is only a verdict: any access may be refused while hooked holds.        *)
(* page_epoch_ is written and never read, and is left out.                 *)
(***************************************************************************)
EXTENDS Mmio

CONSTANTS
    PageCount,    \* pages of the address space
    PageSize,     \* kPageSize
    TlbSize,      \* kTlbSize
    Byte, Zero,   \* byte values, and the value a fresh page is filled with
    Objects,      \* the PageEntry objects the allocator can hand out
    Null,         \* nullptr, and "not in pages_"
    PermSets,     \* permission masks used by callers, subsets of Permission
    MapRanges,    \* <<base, size>> arguments of map, unmap, reprotect
    Accesses,     \* <<address, size>> arguments of reads and writes
    MaxEpoch      \* bound on tlb_epoch_ and code_epoch_

Permission == {"read", "write", "execute"}
Pg == 0..PageCount-1
Slots == 0..TlbSize-1

ASSUME PageAssumption ==
    /\ PageCount \in Nat \ {0}
    /\ PageSize \in Nat \ {0}
    /\ AddrSpace = PageCount * PageSize
ASSUME TlbAssumption == TlbSize \in Nat \ {0}
ASSUME DataAssumption == Zero \in Byte /\ Null \notin Objects
ASSUME ArgumentAssumption ==
    /\ PermSets \subseteq SUBSET Permission
    /\ MapRanges \subseteq Addr \X Nat
    /\ Accesses \subseteq Addr \X (1..AddrSpace-1)
ASSUME MaxEpochAssumption == MaxEpoch \in Nat

VARIABLES
    pages,        \* pages_: page index -> PageEntry object, or Null
    heap,         \* the PageEntry objects: data and permissions
    tlb,          \* tlb_: slot -> [page, epoch, entry]
    tlbEpoch,     \* tlb_epoch_
    codeEpoch,    \* code_epoch_
    hooked,       \* has_any_access_hooks_
    passthrough,  \* a passthrough pair is installed
    saved         \* a held result of snapshot_pages, Null if none

pageVars == <<pages, heap, tlb, tlbEpoch, codeEpoch, hooked, passthrough, saved>>
vars == <<pages, heap, tlb, tlbEpoch, codeEpoch, hooked, passthrough, saved, mmioVars>>

PageData == [0..PageSize-1 -> Byte]
PageEntry == [data : PageData, perm : SUBSET Permission]
ASSUME NullAssumption == Null \notin PageEntry

FreshPage(perm) == [data |-> [o \in 0..PageSize-1 |-> Zero], perm |-> perm]
TlbSlot == [page : Pg \cup {Null}, epoch : Nat, entry : Objects \cup {Null}]

Init ==
    /\ MmioInit
    /\ pages = [p \in Pg |-> Null]
    /\ heap = [o \in Objects |-> FreshPage({})]
    /\ tlb = [i \in Slots |-> [page |-> Null, epoch |-> 0, entry |-> Null]]
    /\ tlbEpoch = 1
    /\ codeEpoch = 1
    /\ hooked = FALSE
    /\ passthrough = FALSE
    /\ saved = Null

-----------------------------------------------------------------------------
(* Page arithmetic.                                                        *)

(* Mutation: the rounding does not wrap.                                   *)
RangePagesUnwrapped(base, size) ==
    (base \div PageSize)..(((base + size + PageSize - 1) \div PageSize) - 1)

(* The pages map, unmap and reprotect run over; base + size + kPageSize - 1 *)
(* wraps, and then the range is empty.                                     *)
RangePages(base, size) ==
    (base \div PageSize)..((Wrap(base + size + PageSize - 1) \div PageSize) - 1)

(* The pages an access walks, in order: number k = 0, 1, ...               *)
PageAt(addr, k) == ((addr \div PageSize) + k) % PageCount
PagesTouched(addr, size) == ((addr % PageSize) + size + PageSize - 1) \div PageSize
Steps(addr, size) == 0..PagesTouched(addr, size)-1
SinglePage(addr, size) == (addr % PageSize) + size <= PageSize

-----------------------------------------------------------------------------
(* lookup_page.                                                            *)
SlotOf(p) == p % TlbSize

(* Mutations: the epoch, or the page, of a slot is not compared.           *)
HitAnyEpoch(p) == tlb[SlotOf(p)].entry # Null /\ tlb[SlotOf(p)].page = p
HitAnyPage(p) == tlb[SlotOf(p)].entry # Null /\ tlb[SlotOf(p)].epoch = tlbEpoch

Hit(p) ==
    /\ tlb[SlotOf(p)].entry # Null
    /\ tlb[SlotOf(p)].page = p
    /\ tlb[SlotOf(p)].epoch = tlbEpoch

(* The pointer lookup_page returns for page p.                             *)
Lookup(p) == IF Hit(p) THEN tlb[SlotOf(p)].entry ELSE pages[p]

(* The slot lookup_page leaves behind: a hit leaves it alone, a miss fills *)
(* it from pages_, with a null entry when the page is not mapped.          *)
SlotAfter(p) ==
    IF Hit(p) THEN tlb[SlotOf(p)]
    ELSE [page |-> p, epoch |-> tlbEpoch, entry |-> pages[p]]

(* The TLB after the pages number k \in ks of an access were looked up in  *)
(* order: a slot keeps what the last page that maps to it left there.      *)
(* (A page that hits in the TLB the access started with may have been      *)
(* evicted by an earlier page of the access and be filled again: the two   *)
(* slots are equal because of TlbCoherent below.)                          *)
TlbAfter(addr, ks) ==
    [i \in Slots |->
        LET mine == {k \in ks : SlotOf(PageAt(addr, k)) = i}
        IN IF mine = {} THEN tlb[i]
           ELSE SlotAfter(PageAt(addr, CHOOSE k \in mine : \A j \in mine : j <= k))]

(* has_permission: anything readable, writable or executable can be read.  *)
HasPermission(perm, kind) ==
    CASE kind = "instruction_fetch" -> "execute" \in perm
      [] kind = "data_read" -> perm # {}
      [] kind = "data_write" -> "write" \in perm
      [] kind = "unchecked" -> TRUE

(* Page number k of an access is there and may be accessed.                *)
PageOk(addr, k, kind) ==
    LET e == Lookup(PageAt(addr, k))
    IN e # Null /\ HasPermission(heap[e].perm, kind)

(* A walk stops at the first page that is not ok: Copied are the pages     *)
(* before it, LookedUp also contains it.                                   *)
Copied(addr, size, kind) ==
    {k \in Steps(addr, size) : \A j \in 0..k : PageOk(addr, j, kind)}
LookedUp(addr, size, kind) ==
    {k \in Steps(addr, size) : \A j \in 0..k-1 : PageOk(addr, j, kind)}
AllOk(addr, size, kind) == \A k \in Steps(addr, size) : PageOk(addr, k, kind)

-----------------------------------------------------------------------------
(* What a page walk delivers: byte k of the buffer, through the TLB.       *)
ByteAt(a) ==
    heap[Lookup(a \div PageSize)].data[a % PageSize]
WalkData(addr, size) == [k \in 0..size-1 |-> ByteAt(Wrap(addr + k))]

(* The heap after src was copied into the pages number k \in ks.           *)
Stored(addr, size, src, ks) ==
    [o \in Objects |->
        LET here == {k \in ks : Lookup(PageAt(addr, k)) = o}
        IN IF here = {} THEN heap[o]
           ELSE LET p == PageAt(addr, CHOOSE k \in here : TRUE)
                    at(off) == (p * PageSize + off - addr) % AddrSpace
                IN [heap[o] EXCEPT !.data = [off \in 0..PageSize-1 |->
                        IF at(off) < size THEN src[at(off)] ELSE heap[o].data[off]]]]

Executable(addr, ks) ==
    \E k \in ks : "execute" \in heap[Lookup(PageAt(addr, k))].perm

(* The fast path of read and write: no hooks, no MMIO, one page.           *)
FastPath(addr, size) == ~hooked /\ mmio = <<>> /\ SinglePage(addr, size)

-----------------------------------------------------------------------------
(* map, unmap, reprotect.                                                  *)

(* Objects for newly inserted pages: pages_ holds its entries by value, so *)
(* they are distinct, and any ones out of free.                            *)
Allocations(new, free) ==
    {f \in [new -> free] : \A p, q \in new : f[p] = f[q] => p = q}

Live == {pages[p] : p \in Pg} \ {Null}

(* A page that is already mapped keeps its data and gets the permissions.  *)
Map(base, size, perm) ==
    LET range == RangePages(base, size)
        new == {p \in range : pages[p] = Null}
    IN /\ tlbEpoch < MaxEpoch /\ codeEpoch < MaxEpoch
       /\ codeEpoch' = codeEpoch + 1
       /\ tlbEpoch' = tlbEpoch + 1
       /\ \E alloc \in Allocations(new, Objects \ Live) :
             /\ pages' = [p \in Pg |-> IF p \in new THEN alloc[p] ELSE pages[p]]
             /\ heap' = [o \in Objects |->
                    IF \E p \in new : alloc[p] = o THEN FreshPage(perm)
                    ELSE IF \E p \in range : pages[p] = o THEN [heap[o] EXCEPT !.perm = perm]
                    ELSE heap[o]]
       /\ UNCHANGED <<tlb, hooked, passthrough, saved, mmioVars>>

(* The contents of an erased object are overwritten with a fixed value:    *)
(* nothing may depend on them.                                             *)
Unmap(base, size) ==
    LET range == RangePages(base, size)
    IN /\ tlbEpoch < MaxEpoch /\ codeEpoch < MaxEpoch
       /\ codeEpoch' = codeEpoch + 1
       /\ tlbEpoch' = tlbEpoch + 1
       /\ pages' = [p \in Pg |-> IF p \in range THEN Null ELSE pages[p]]
       /\ heap' = [o \in Objects |->
              IF \E p \in range : pages[p] = o THEN FreshPage({}) ELSE heap[o]]
       /\ UNCHANGED <<tlb, hooked, passthrough, saved, mmioVars>>

(* reprotect leaves the TLB alone: permissions are read through it.        *)
Reprotect(base, size, perm) ==
    /\ codeEpoch < MaxEpoch
    /\ codeEpoch' = codeEpoch + 1
    /\ heap' = [o \in Objects |->
           IF \E p \in RangePages(base, size) : pages[p] = o
           THEN [heap[o] EXCEPT !.perm = perm] ELSE heap[o]]
    /\ UNCHANGED <<pages, tlb, tlbEpoch, hooked, passthrough, saved, mmioVars>>

-----------------------------------------------------------------------------
(* Reads and queries change nothing but the TLB.                           *)
WalkOnly(addr, size, kind) ==
    /\ tlb' = TlbAfter(addr, LookedUp(addr, size, kind))
    /\ UNCHANGED <<pages, heap, tlbEpoch, codeEpoch, hooked, passthrough, saved, mmioVars>>

IsMapped(addr, size) == WalkOnly(addr, size, "unchecked")

(* has_permissions: executable counts as readable; the walk stops at the   *)
(* first page that lacks a required permission.                            *)
Effective(perm) == IF "execute" \in perm THEN perm \cup {"read"} ELSE perm
HasAll(addr, k, required) ==
    LET e == Lookup(PageAt(addr, k))
    IN e # Null /\ required \subseteq Effective(heap[e].perm)
HasPermissions(addr, size, required) ==
    /\ tlb' = TlbAfter(addr, {k \in Steps(addr, size) :
                                 \A j \in 0..k-1 : HasAll(addr, j, required)})
    /\ UNCHANGED <<pages, heap, tlbEpoch, codeEpoch, hooked, passthrough, saved, mmioVars>>

ReadFast(addr, size, kind) ==
    /\ ~passthrough
    /\ FastPath(addr, size)
    /\ WalkOnly(addr, size, kind)

(* Off the fast path: MMIO answers without touching the pages; otherwise   *)
(* the pages are walked, and hooks see the bytes after the walk.           *)
ReadSlow(addr, size, kind) ==
    /\ ~passthrough
    /\ ~FastPath(addr, size)
    /\ FindMmioRegion(addr, size) = 0
    /\ WalkOnly(addr, size, kind)

ReadUnchecked(addr, size) ==
    /\ FindMmioRegion(addr, size) = 0
    /\ WalkOnly(addr, size, "unchecked")

(* read_code_page: no hooks, no MMIO, one whole page.                      *)
ReadCodePage(p) ==
    /\ ~passthrough
    /\ WalkOnly(p * PageSize, PageSize, "instruction_fetch")

-----------------------------------------------------------------------------
(* write.  A refused or passed-through write, and one that MMIO takes,     *)
(* leave everything here unchanged.                                        *)
WriteFast(addr, size, src) ==
    LET ok == Copied(addr, size, "data_write")
        bump == ok # {} /\ Executable(addr, ok)
    IN /\ ~passthrough
       /\ FastPath(addr, size)
       /\ bump => codeEpoch < MaxEpoch
       /\ tlb' = TlbAfter(addr, LookedUp(addr, size, "data_write"))
       /\ heap' = Stored(addr, size, src, ok)
       /\ codeEpoch' = IF bump THEN codeEpoch + 1 ELSE codeEpoch
       /\ UNCHANGED <<pages, tlbEpoch, hooked, passthrough, saved, mmioVars>>

(* The page loop of write and write_unchecked: a page that is missing or   *)
(* not writable ends it with an early return, after the pages before it    *)
(* were stored and before the code epoch is bumped.                        *)
WritePages(addr, size, src, kind) ==
    LET bump == AllOk(addr, size, kind) /\ Executable(addr, Steps(addr, size))
    IN /\ bump => codeEpoch < MaxEpoch
       /\ tlb' = TlbAfter(addr, LookedUp(addr, size, kind))
       /\ heap' = Stored(addr, size, src, Copied(addr, size, kind))
       /\ codeEpoch' = IF bump THEN codeEpoch + 1 ELSE codeEpoch
       /\ UNCHANGED <<pages, tlbEpoch, hooked, passthrough, saved, mmioVars>>

(* Off the fast path the hooks are asked first, then MMIO.                 *)
WriteSlow(addr, size, src) ==
    /\ ~passthrough
    /\ ~FastPath(addr, size)
    /\ FindMmioRegion(addr, size) = 0
    /\ WritePages(addr, size, src, "data_write")

WriteUnchecked(addr, size, src) ==
    /\ FindMmioRegion(addr, size) = 0
    /\ WritePages(addr, size, src, "unchecked")

-----------------------------------------------------------------------------
(* capture_snapshot, restore_snapshot and the backend's deserialize_state. *)
Table == [p \in Pg |-> IF pages[p] = Null THEN Null ELSE heap[pages[p]]]

CaptureSnapshot ==
    /\ saved' = Table
    /\ SnapshotMmioRegions
    /\ UNCHANGED <<pages, heap, tlb, tlbEpoch, codeEpoch, hooked, passthrough>>

(* pages_.clear() and one emplace per saved page.                          *)
ReplacePages ==
    LET present == {p \in Pg : saved[p] # Null}
    IN \E alloc \in Allocations(present, Objects) :
          /\ pages' = [p \in Pg |-> IF p \in present THEN alloc[p] ELSE Null]
          /\ heap' = [o \in Objects |->
                 IF \E p \in present : alloc[p] = o
                 THEN saved[CHOOSE p \in present : alloc[p] = o] ELSE FreshPage({})]

(* restore_snapshot; resolved = {} is the overload without a resolver.     *)
RestoreSnapshot(resolved) ==
    /\ saved # Null
    /\ tlbEpoch < MaxEpoch /\ codeEpoch < MaxEpoch
    /\ codeEpoch' = codeEpoch + 1
    /\ tlbEpoch' = tlbEpoch + 1
    /\ ReplacePages
    /\ RestoreMmioRegions(resolved)
    /\ UNCHANGED <<tlb, hooked, passthrough, saved>>

(* deserialize_state: memory_ = {} resets every member, epochs and hooks   *)
(* included, then restore_pages bumps the epochs once.                     *)
DeserializeState(resolved) ==
    /\ saved # Null
    /\ codeEpoch' = 2
    /\ tlbEpoch' = 2
    /\ tlb' = [i \in Slots |-> [page |-> Null, epoch |-> 0, entry |-> Null]]
    /\ ReplacePages
    /\ DeserializeMmioRegions(resolved)
    /\ hooked' = FALSE
    /\ passthrough' = FALSE
    /\ UNCHANGED saved

-----------------------------------------------------------------------------
(* Configuration of the access paths.                                      *)
SetPassthrough(on) ==
    /\ passthrough' = on
    /\ UNCHANGED <<pages, heap, tlb, tlbEpoch, codeEpoch, hooked, saved, mmioVars>>

(* add_access_hook and the remove_access_hook of the last hook.            *)
SetHooked(on) ==
    /\ hooked' = on
    /\ on => nextId < MaxHookId
    /\ nextId' = IF on THEN nextId + 1 ELSE nextId
    /\ UNCHANGED <<pages, heap, tlb, tlbEpoch, codeEpoch, passthrough, saved>>
    /\ UNCHANGED <<mmio, mmioMin, mmioMax, mmioSaved>>

RegionStep ==
    /\ \/ \E range \in MmioRanges : MapMmio(range)
       \/ \E id \in 1..MaxHookId : UnmapMmio(id)
       \/ ClearMmioRegions
    /\ UNCHANGED pageVars

SavedIds == {mmioSaved[i].id : i \in DOMAIN mmioSaved}

MappingStep ==
    \E r \in MapRanges :
        \/ \E perm \in PermSets : Map(r[1], r[2], perm) \/ Reprotect(r[1], r[2], perm)
        \/ Unmap(r[1], r[2])

ReadStep ==
    \/ \E a \in Accesses :
          \/ IsMapped(a[1], a[2])
          \/ \E required \in PermSets : HasPermissions(a[1], a[2], required)
          \/ \E kind \in {"data_read", "instruction_fetch"} :
                ReadFast(a[1], a[2], kind) \/ ReadSlow(a[1], a[2], kind)
          \/ ReadUnchecked(a[1], a[2])
    \/ \E p \in Pg : ReadCodePage(p)

WriteStep ==
    \E a \in Accesses : \E src \in [0..a[2]-1 -> Byte] :
        \/ WriteFast(a[1], a[2], src)
        \/ WriteSlow(a[1], a[2], src)
        \/ WriteUnchecked(a[1], a[2], src)

SnapshotStep ==
    \/ CaptureSnapshot
    \/ \E resolved \in SUBSET SavedIds : RestoreSnapshot(resolved) \/ DeserializeState(resolved)

Next ==
    \/ MappingStep
    \/ ReadStep
    \/ WriteStep
    \/ SnapshotStep
    \/ RegionStep
    \/ \E on \in BOOLEAN : SetPassthrough(on) \/ SetHooked(on)

Spec == Init /\ [][Next]_vars

-----------------------------------------------------------------------------
(* Type correctness of the page state.                                     *)
TypeOK ==
    /\ pages \in [Pg -> Objects \cup {Null}]
    /\ heap \in [Objects -> PageEntry]
    /\ tlb \in [Slots -> TlbSlot]
    /\ tlbEpoch \in Nat
    /\ codeEpoch \in Nat
    /\ hooked \in BOOLEAN
    /\ passthrough \in BOOLEAN
    /\ saved \in [Pg -> PageEntry \cup {Null}] \cup {Null}

(* The TLB never lies: a slot lookup_page would accept (current epoch, not *)
(* null) holds the very object pages_ maps its page to, so no erased or    *)
(* replaced PageEntry is ever read or written through a cached pointer,    *)
(* and lookup_page answers what pages_.find would, although reprotect      *)
(* flushes nothing and negative entries are cached too.                    *)
TlbCoherent == \A p \in Pg : Lookup(p) = pages[p]

(* A page walk never gets past the end of the address space: is_mapped and *)
(* has_permissions deny a range that runs on at address 0, and a read or   *)
(* write of one that comes down to the pages fails, having copied nothing  *)
(* of the last page or from address 0 on.  The rounding of map wraps for   *)
(* ranges that reach the last page, which therefore is never mapped.  Only *)
(* walks stop there: a passthrough may complete such an access, and so may *)
(* an MMIO region, whose end find_mmio_region compares with the wrapped    *)
(* end of the access.                                                      *)
WalksStopAtEnd ==
    \A addr \in Addr, size \in 1..AddrSpace-1 :
        addr + size > AddrSpace =>
            /\ ~AllOk(addr, size, "unchecked")
            /\ \A k \in Copied(addr, size, "unchecked") :
                  (addr \div PageSize) + k < PageCount - 1

(* Memory implements the page table with its code epoch: the TLB, object   *)
(* reuse, the hook, MMIO and fast paths of read and write are invisible in *)
(* what the pages hold and in when the epoch moves.                        *)
PT == INSTANCE PageTable WITH Absent <- Null, table <- Table, captured <- saved,
                            epoch <- codeEpoch
ImplementsPageTable == PT!PTSpec

=============================================================================
