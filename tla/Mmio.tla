-------------------------------- MODULE Mmio --------------------------------
(***************************************************************************)
(* The MMIO regions of class Memory (seven_core/src/memory.cpp): a list of *)
(* regions searched in order, and a cached bound [mmioMin, mmioMax) over   *)
(* all of them that find_mmio_region consults before it walks the list.    *)
(*                                                                         *)
(* Addresses are 64-bit in the code; here they wrap at AddrSpace, so that  *)
(* base + size overflows exactly as it does in the code.  The callbacks of *)
(* a region are external: what a device answers is not modelled here.      *)
(***************************************************************************)
EXTENDS SeqFilter

CONSTANTS
    AddrSpace,    \* number of addresses; 2^64 in the code
    MmioRanges,   \* the <<base, size>> pairs callers register
    MaxHookId     \* bound on next_hook_id_, which grows forever in the code

ASSUME AddrSpaceAssumption == AddrSpace \in Nat \ {0}
ASSUME MmioRangesAssumption ==
    MmioRanges \subseteq (0..AddrSpace-1) \X (1..AddrSpace-1)
ASSUME MaxHookIdAssumption == MaxHookId \in Nat

VARIABLES
    mmio,         \* mmio_regions_, a sequence of [id, base, size]
    mmioMin,      \* mmio_min_base_
    mmioMax,      \* mmio_max_end_
    nextId,       \* next_hook_id_, shared with the access hooks
    mmioSaved     \* a held result of snapshot_mmio_regions, <<>> if none

mmioVars == <<mmio, mmioMin, mmioMax, nextId, mmioSaved>>

Addr == 0..AddrSpace-1
Region == [id : Nat, base : Addr, size : Addr]

MmioInit ==
    /\ mmio = <<>>
    /\ mmioMin = AddrSpace - 1
    /\ mmioMax = 0
    /\ nextId = 1
    /\ mmioSaved = <<>>

-----------------------------------------------------------------------------
(* Address arithmetic is std::uint64_t arithmetic: it wraps.               *)
Wrap(a) == a % AddrSpace

End(r) == Wrap(r.base + r.size)

Lesser(a, b) == IF a <= b THEN a ELSE b
Greater(a, b) == IF a >= b THEN a ELSE b

(* The two bounds after a region was appended to regions: the first one    *)
(* replaces the sentinels, a later one widens the bound.                   *)
MinAfterPush(regions, min, r) == IF regions = <<>> THEN r.base ELSE Lesser(min, r.base)

(* Mutation: the bound follows the region registered last.                 *)
MaxOfLastPush(regions, max, r) == End(r)

MaxAfterPush(regions, max, r) == IF regions = <<>> THEN End(r) ELSE Greater(max, End(r))

(* The bounds recomputed from nothing, as unmap_mmio does.                 *)
MinOf(regions) ==
    IF regions = <<>> THEN AddrSpace - 1
    ELSE CHOOSE m \in {regions[i].base : i \in DOMAIN regions} :
            \A i \in DOMAIN regions : m <= regions[i].base
MaxOf(regions) ==
    IF regions = <<>> THEN 0
    ELSE CHOOSE m \in {End(regions[i]) : i \in DOMAIN regions} :
            \A i \in DOMAIN regions : m >= End(regions[i])

IdsOf(regions) == {regions[i].id : i \in DOMAIN regions}

Lowest(S) == CHOOSE i \in S : \A j \in S : i <= j

(* The order snapshot_mmio_regions leaves the regions in: each one goes    *)
(* before the first that follows it.                                       *)
ByBaseThenId(a, b) == a.base < b.base \/ (a.base = b.base /\ a.id < b.id)

Insert(sorted, r) ==
    LET after == {i \in DOMAIN sorted : ByBaseThenId(r, sorted[i])}
        at == IF after = {} THEN Len(sorted) + 1 ELSE Lowest(after)
    IN [i \in 1..Len(sorted)+1 |-> IF i < at THEN sorted[i]
                                   ELSE IF i = at THEN r ELSE sorted[i-1]]

SortedRegions(regions) ==
    LET sorted[n \in 0..Len(regions)] ==
            IF n = 0 THEN <<>> ELSE Insert(sorted[n-1], regions[n])
    IN sorted[Len(regions)]

-----------------------------------------------------------------------------
(* find_mmio_region: the bound check, then the first region that contains  *)
(* the whole access.  0 stands for nullptr, i for &mmio_regions_[i-1].     *)
Contains(r, addr, size) == addr >= r.base /\ Wrap(addr + size) <= End(r)

FirstContaining(regions, addr, size) ==
    LET hits == {i \in DOMAIN regions : Contains(regions[i], addr, size)}
    IN IF hits = {} THEN 0 ELSE Lowest(hits)

OutsideBounds(addr, size) == addr < mmioMin \/ Wrap(addr + size) > mmioMax

FindMmioRegion(addr, size) ==
    IF mmio = <<>> \/ OutsideBounds(addr, size) THEN 0
    ELSE FirstContaining(mmio, addr, size)

-----------------------------------------------------------------------------
MapMmio(range) ==
    LET r == [id |-> nextId, base |-> range[1], size |-> range[2]]
    IN /\ nextId < MaxHookId
       /\ mmio' = Append(mmio, r)
       /\ mmioMin' = MinAfterPush(mmio, mmioMin, r)
       /\ mmioMax' = MaxAfterPush(mmio, mmioMax, r)
       /\ nextId' = nextId + 1
       /\ UNCHANGED mmioSaved

(* unmap_mmio of an id that is not registered returns false.               *)
UnmapMmio(id) ==
    /\ id \in IdsOf(mmio)
    /\ mmio' = DropIds(mmio, {id})
    /\ mmioMin' = MinOf(mmio')
    /\ mmioMax' = MaxOf(mmio')
    /\ UNCHANGED <<nextId, mmioSaved>>

ClearMmioRegions ==
    /\ mmio # <<>>
    /\ mmio' = <<>>
    /\ mmioMin' = AddrSpace - 1
    /\ mmioMax' = 0
    /\ UNCHANGED <<nextId, mmioSaved>>

SnapshotMmioRegions ==
    /\ mmioSaved' = SortedRegions(mmio)
    /\ UNCHANGED <<mmio, mmioMin, mmioMax, nextId>>

(* Mutation: next_hook_id_ stays where it was.                             *)
IdNotMoved(id, back) == id

(* restore_mmio_regions: only the regions whose callbacks the resolver     *)
(* still knows come back (resolved = {} models a missing resolver); ids    *)
(* are kept and next_hook_id_, which stands at id, moves past each.        *)
IdAfterRestore(id, back) ==
    CHOOSE n \in {id} \cup {back[i].id + 1 : i \in DOMAIN back} :
        /\ n >= id
        /\ \A i \in DOMAIN back : n > back[i].id

RestoreRegions(resolved, id) ==
    LET back == DropIds(mmioSaved, IdsOf(mmioSaved) \ resolved)
    IN /\ mmio' = back
       /\ mmioMin' = MinOf(back)
       /\ mmioMax' = MaxOf(back)
       /\ nextId' = IdAfterRestore(id, back)
       /\ UNCHANGED mmioSaved

(* restore_snapshot restores into the live Memory; deserialize_state of    *)
(* the backend first assigns a fresh one, whose next_hook_id_ is 1.        *)
RestoreMmioRegions(resolved) == RestoreRegions(resolved, nextId)
DeserializeMmioRegions(resolved) == RestoreRegions(resolved, 1)

MmioNext ==
    \/ \E range \in MmioRanges : MapMmio(range)
    \/ \E id \in 1..MaxHookId : UnmapMmio(id)
    \/ ClearMmioRegions
    \/ SnapshotMmioRegions
    \/ \E resolved \in SUBSET IdsOf(mmioSaved) :
          RestoreMmioRegions(resolved) \/ DeserializeMmioRegions(resolved)

MmioSpec == MmioInit /\ [][MmioNext]_mmioVars

-----------------------------------------------------------------------------
(* Type correctness of the region list, its bound and the held snapshot.   *)
MmioTypeOK ==
    /\ mmio \in Seq(Region)
    /\ mmioMin \in Addr
    /\ mmioMax \in Addr
    /\ nextId \in Nat \ {0}
    /\ mmioSaved \in Seq(Region)

(* The cached bound of find_mmio_region never hides a region: whatever     *)
(* sequence of map_mmio, unmap_mmio, clear and restore came before, and    *)
(* even where base + size wraps around, an access some region contains is  *)
(* routed to the first such region.                                        *)
BoundsNeverHide ==
    \A addr \in Addr, size \in 1..AddrSpace-1 :
        FindMmioRegion(addr, size) = FirstContaining(mmio, addr, size)

(* Ids identify regions: unmap_mmio(id) erases the one region that carries *)
(* the id, also after a snapshot brought old ids back and next_hook_id_    *)
(* went on from there.                                                     *)
RegionIdsUnique ==
    /\ \A i, j \in DOMAIN mmio : mmio[i].id = mmio[j].id => i = j
    /\ \A i \in DOMAIN mmio : mmio[i].id < nextId
=============================================================================
