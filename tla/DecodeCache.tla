---------------------------- MODULE DecodeCache -----------------------------
(***************************************************************************)
(* The fetch stage of Executor::step (seven_core/src/executor.cpp): the    *)
(* decode cache, the code page cache behind it, and the memory they read   *)
(* from: the abstract page table of module PageTable (module Memory        *)
(* implements it), and before it the passthrough and the MMIO regions.  An *)
(* entry of either cache is used only while the code epoch of the memory   *)
(* is the one it was filled under.                                         *)
(*                                                                         *)
(* What a device or the memory behind a passthrough answers is an image: a *)
(* function on the addresses it answers for.  A read of any other address  *)
(* fails, as with a callback that is null or returns false.  Callbacks do  *)
(* not call back into Memory here (modules AccessHooks, HookRegistry).     *)
(*                                                                         *)
(* An instruction is at most MaxLen bytes (15 in the code); the first byte *)
(* decides its length, the mode and the bytes decide what it is.           *)
(***************************************************************************)
EXTENDS PageTable, FiniteSets, Sequences

CONSTANTS
    MaxLen,            \* _MAX_INSTRUCTION_LENGTH
    DecodeCacheSize,   \* kDecodeCacheSize
    CodePageCacheSize, \* kCodePageCacheSize
    Modes,             \* ExecutionMode values in use
    Rips,              \* instruction addresses the program reaches
    Images,            \* what devices and the memory behind a passthrough answer
    NoHost,            \* no passthrough is installed
    MmioRanges,        \* <<base, size>> of the MMIO regions
    MaxRegions         \* bound on mmio_regions_

ASSUME AddressAssumption == PageCount \in Nat \ {0} /\ PageSize \in Nat \ {0}
ASSUME CacheSizeAssumption ==
    /\ DecodeCacheSize \in Nat \ {0}
    /\ CodePageCacheSize \in Nat \ {0}
ASSUME MaxLenAssumption == MaxLen \in 1..PageSize
ASSUME RipsAssumption == Rips \subseteq 0..AddrCount-1
ASSUME ImagesAssumption == NoHost \notin Images /\ MaxRegions \in Nat

VARIABLES
    dcache,       \* decode_cache_: index -> entry
    pcache,       \* code_page_cache_: index -> entry
    fetchHook,    \* Memory::has_fetch_access_hooks
    host,         \* the image behind the passthrough, NoHost if none is installed
    regions,      \* mmio_regions_: sequence of [base, size, image of the device]
    peak,         \* history: the highest code epoch there has been
    suspect       \* history: code changed behind the epoch's back, and no new epoch since

cacheVars == <<dcache, pcache>>
memoryVars == <<table, captured, epoch, host, regions, peak, suspect>>
dcVars == <<cacheVars, fetchHook, memoryVars>>

DIndex == 0..DecodeCacheSize-1
PIndex == 0..CodePageCacheSize-1
EmptyDecode == [valid |-> FALSE, rip |-> 0, epoch |-> 0, mode |-> CHOOSE m \in Modes : TRUE,
                instr |-> <<>>]
EmptyPage == [valid |-> FALSE, page |-> 0, epoch |-> 0,
              bytes |-> [o \in 0..PageSize-1 |-> Zero]]

DCInit ==
    /\ PTInit
    /\ dcache = [i \in DIndex |-> EmptyDecode]
    /\ pcache = [i \in PIndex |-> EmptyPage]
    /\ fetchHook = FALSE
    /\ host = NoHost
    /\ regions = <<>>
    /\ peak = 1
    /\ suspect = FALSE

-----------------------------------------------------------------------------
(* Decoding.  bytes is a function from 0 to at least MaxLen-1.             *)
InstrLength(b) == IF b = Zero THEN 1 ELSE MaxLen
Decode(bytes, mode) == <<mode, [k \in 0..InstrLength(bytes[0])-1 |-> bytes[k]]>>

(* The pages as an image: what may be fetched from them.                   *)
Addresses == 0..AddrCount-1
PageImage ==
    [a \in {x \in Addresses : Executable(x \div PageSize)} |->
        table[a \div PageSize].data[a % PageSize]]

(* find_mmio_region: the first region that contains the whole access, ends *)
(* compared as they wrapped.  (Module Mmio has the bound it keeps, which   *)
(* hides no region.)                                                       *)
Contains(r, addr, size) == addr >= r.base /\ (addr + size) % AddrCount <= (r.base + r.size) % AddrCount
Containing(addr, size) == {i \in DOMAIN regions : Contains(regions[i], addr, size)}
DeviceImage(addr, size) ==
    LET hits == Containing(addr, size)
    IN {regions[i].image : i \in {n \in hits : \A m \in hits : n <= m}}

The(images) == CHOOSE i \in images : TRUE

(* Memory::read of MaxLen bytes for instruction fetch: the passthrough     *)
(* answers if there is one, else the region that contains the bytes, else  *)
(* the pages.  Fetch hooks may refuse what is not passed through.          *)
ReadImage(rip) ==
    IF host # NoHost THEN host
    ELSE IF DeviceImage(rip, MaxLen) # {} THEN The(DeviceImage(rip, MaxLen))
    ELSE PageImage
Window(rip) == [k \in 0..MaxLen-1 |-> ReadImage(rip)[(rip + k) % AddrCount]]
Fetchable(rip) == \A k \in 0..MaxLen-1 : (rip + k) % AddrCount \in DOMAIN ReadImage(rip)
Verdicts == IF fetchHook /\ host = NoHost THEN BOOLEAN ELSE {TRUE}

(* read_code_page: the passthrough or the page, never a region.            *)
CodeImage == IF host # NoHost THEN host ELSE PageImage
PageReadable(p) == \A o \in 0..PageSize-1 : p * PageSize + o \in DOMAIN CodeImage
PageBytes(p) == [o \in 0..PageSize-1 |-> CodeImage[p * PageSize + o]]

-----------------------------------------------------------------------------
(* Cache lookup.                                                           *)
CanUseCache == ~fetchHook
DSlot(rip) == (rip \div 2) % DecodeCacheSize
PSlot(p) == p % CodePageCacheSize

(* Mutation: the epoch of the entry is not compared.                       *)
DecodeHitAnyEpoch(rip, mode) ==
    LET e == dcache[DSlot(rip)] IN CanUseCache /\ e.valid /\ e.rip = rip /\ e.mode = mode

DecodeHit(rip, mode) ==
    LET e == dcache[DSlot(rip)]
    IN CanUseCache /\ e.valid /\ e.rip = rip /\ e.epoch = epoch /\ e.mode = mode

PageHit(p) ==
    LET e == pcache[PSlot(p)] IN e.valid /\ e.page = p /\ e.epoch = epoch

(* The instruction lies far enough from the end of its page.               *)
InPage(rip) == (rip % PageSize) + MaxLen <= PageSize

(* The code page cache entry after the miss path asked for page p.         *)
PageEntryAfter(p) ==
    IF PageHit(p) THEN pcache[PSlot(p)]
    ELSE IF PageReadable(p)
         THEN [valid |-> TRUE, page |-> p, epoch |-> epoch, bytes |-> PageBytes(p)]
         ELSE EmptyPage

(* The decode cache entry a fetch leaves behind.  What an invalid entry    *)
(* holds is never looked at: it is empty here.                             *)
DecodeEntry(rip, mode, bytes) ==
    IF CanUseCache
    THEN [valid |-> TRUE, rip |-> rip, epoch |-> epoch, mode |-> mode,
          instr |-> Decode(bytes, mode)]
    ELSE EmptyDecode

-----------------------------------------------------------------------------
(* The fetch stage of one attempt of step at rip: a hit changes nothing; a *)
(* miss goes through the code page cache when it may, else through         *)
(* Memory::read, and fills the decode entry; a failed fetch is a page      *)
(* fault and fills nothing.                                                *)
FetchHit(rip, mode) == DecodeHit(rip, mode) /\ UNCHANGED dcVars

FetchThroughPage(rip, mode) ==
    LET p == rip \div PageSize
        off == rip % PageSize
        e == PageEntryAfter(p)
    IN /\ ~DecodeHit(rip, mode)
       /\ CanUseCache /\ InPage(rip)
       /\ e.valid
       /\ pcache' = [pcache EXCEPT ![PSlot(p)] = e]
       /\ dcache' = [dcache EXCEPT ![DSlot(rip)] =
                        DecodeEntry(rip, mode, [k \in 0..MaxLen-1 |-> e.bytes[off + k]])]
       /\ UNCHANGED <<fetchHook, memoryVars>>

FetchThroughRead(rip, mode, allowed) ==
    LET p == rip \div PageSize
        tried == CanUseCache /\ InPage(rip)
        e == PageEntryAfter(p)
    IN /\ ~DecodeHit(rip, mode)
       /\ tried => ~e.valid
       /\ pcache' = IF tried THEN [pcache EXCEPT ![PSlot(p)] = e] ELSE pcache
       /\ dcache' = IF Fetchable(rip) /\ allowed
                    THEN [dcache EXCEPT ![DSlot(rip)] = DecodeEntry(rip, mode, Window(rip))]
                    ELSE dcache
       /\ UNCHANGED <<fetchHook, memoryVars>>

Fetch ==
    \E rip \in Rips, mode \in Modes :
        \/ FetchHit(rip, mode)
        \/ FetchThroughPage(rip, mode)
        \/ \E allowed \in Verdicts : FetchThroughRead(rip, mode, allowed)

-----------------------------------------------------------------------------
(* The memory underneath.  The epoch is the only thing that invalidates    *)
(* the caches.  suspect says that what is fetched changed and the epoch is *)
(* not a new one: a write was cut short after it had stored into an        *)
(* executable page; the Memory was replaced and counts its epochs from the *)
(* beginning; the memory behind a passthrough came, went or changed; or a  *)
(* fetch meets another MMIO region than before, none, one where there was  *)
(* none, or a device that answers otherwise.                               *)
CutShort(addr, size, checked) ==
    /\ ~Complete(addr, size, checked)
    /\ \E p \in Reached(addr, size, checked) : Executable(p)

Suspicion(cause) ==
    /\ peak' = IF epoch' > peak THEN epoch' ELSE peak
    /\ suspect' = (epoch' <= peak /\ (suspect \/ cause))

(* write and write_unchecked where neither a passthrough nor a region      *)
(* takes the bytes (HostChanges and DeviceChanges stand for those that are *)
(* taken); a refused write changes nothing.                                *)
WriteMemory(addr, size, src, checked) ==
    /\ ~(host # NoHost /\ checked)
    /\ Containing(addr, size) = {}
    /\ PTWrite(addr, size, src, checked)
    /\ Suspicion(CutShort(addr, size, checked))
    /\ UNCHANGED regions

(* The lists of regions a restore can bring back: the buffer may come from *)
(* any Memory, and the resolver picks callbacks and leaves regions out.    *)
Regions ==
    {[base |-> r[1], size |-> r[2], image |-> i] : r \in MmioRanges, i \in Images}
RegionLists == UNION {[1..n -> Regions] : n \in 0..MaxRegions}

(* restore_snapshot moves the epoch with the pages, then sets the regions. *)
MemoryStep ==
    /\ \/ PTMapping /\ Suspicion(TRUE) /\ UNCHANGED regions
       \/ PTRestore /\ Suspicion(TRUE) /\ regions' \in RegionLists
       \/ PTCapture /\ UNCHANGED <<peak, suspect, regions>>
       \/ \E a \in Accesses : \E src \in [0..a[2]-1 -> Byte], checked \in BOOLEAN :
             WriteMemory(a[1], a[2], src, checked)
    /\ UNCHANGED <<dcache, pcache, fetchHook, host>>

SetFetchHook(on) ==
    /\ fetchHook' = on
    /\ UNCHANGED <<cacheVars, memoryVars>>

(* deserialize_state of the backend: the Memory is replaced, the Executor  *)
(* with its caches stays.                                                  *)
Deserialize ==
    /\ PTDeserialize
    /\ fetchHook' = FALSE
    /\ host' = NoHost
    /\ regions' \in RegionLists
    /\ Suspicion(TRUE)
    /\ UNCHANGED cacheVars

(* set_passthrough and clear_passthrough.                                  *)
SetPassthrough(image) ==
    /\ host' = image
    /\ UNCHANGED <<table, captured, epoch, regions, fetchHook, cacheVars>>
    /\ Suspicion(TRUE)

(* The memory behind the passthrough changes: the emulated program writes  *)
(* through it, or the process it belongs to runs on.                       *)
HostChanges ==
    /\ host # NoHost
    /\ host' \in Images
    /\ UNCHANGED <<table, captured, epoch, regions, fetchHook, cacheVars>>
    /\ Suspicion(TRUE)

(* map_mmio, unmap_mmio, clear_mmio_regions and restore_mmio_regions.      *)
MapMmio(range, image) ==
    /\ Len(regions) < MaxRegions
    /\ regions' = Append(regions, [base |-> range[1], size |-> range[2], image |-> image])
UnmapMmio(n) == regions' = SubSeq(regions, 1, n - 1) \o SubSeq(regions, n + 1, Len(regions))
ClearMmio == regions' = <<>>
RestoreMmio == regions' \in RegionLists

(* A device changes state: it was written, or read, or time went by.       *)
DeviceChanges(n, image) == regions' = [regions EXCEPT ![n].image = image]

(* None of them moves the epoch, wherever the region lies.                 *)
RegionStep ==
    /\ \/ \E range \in MmioRanges, image \in Images : MapMmio(range, image)
       \/ \E n \in DOMAIN regions : UnmapMmio(n)
       \/ ClearMmio
       \/ RestoreMmio
       \/ \E n \in DOMAIN regions, image \in Images : DeviceChanges(n, image)
    /\ UNCHANGED <<table, captured, epoch, host, fetchHook, cacheVars>>
    /\ Suspicion(\E rip \in Rips : DeviceImage(rip, MaxLen)' # DeviceImage(rip, MaxLen))

DCNext ==
    \/ Fetch
    \/ MemoryStep
    \/ \E on \in BOOLEAN : SetFetchHook(on)
    \/ Deserialize
    \/ \E image \in Images \cup {NoHost} : SetPassthrough(image)
    \/ HostChanges
    \/ RegionStep

DCSpec == DCInit /\ [][DCNext]_dcVars

(* One Memory object that keeps its own pages all the time and has neither *)
(* a passthrough nor devices.                                              *)
OwnPagesSpec ==
    DCInit /\ [][/\ Fetch \/ MemoryStep \/ \E on \in BOOLEAN : SetFetchHook(on)
                /\ UNCHANGED <<host, regions>>]_dcVars

-----------------------------------------------------------------------------
(* Type correctness of the two caches; no entry is from an epoch to come.  *)
DCTypeOK ==
    /\ \A i \in DIndex :
          /\ dcache[i].valid \in BOOLEAN /\ dcache[i].mode \in Modes
          /\ dcache[i].epoch \in 0..peak /\ dcache[i].rip \in 0..AddrCount-1
    /\ \A i \in PIndex :
          /\ pcache[i].valid \in BOOLEAN /\ pcache[i].epoch \in 0..peak
          /\ pcache[i].page \in PageNumbers /\ pcache[i].bytes \in [0..PageSize-1 -> Byte]
    /\ epoch \in 1..peak
    /\ suspect \in BOOLEAN
    /\ host \in Images \cup {NoHost} /\ regions \in RegionLists

(* What the fetch stage would decode at rip now if both caches were empty. *)
FromPage(rip) == InPage(rip) /\ PageReadable(rip \div PageSize)
ColdBytes(rip) ==
    IF FromPage(rip)
    THEN [k \in 0..MaxLen-1 |-> PageBytes(rip \div PageSize)[(rip % PageSize) + k]]
    ELSE Window(rip)

(* "The decode cache stays correct" (memory.cpp): the executor takes from  *)
(* the decode cache only what it would decode there with empty caches, in  *)
(* the mode it is in, and never where such a fetch would fail.             *)
DecodeFresh ==
    \A rip \in Rips, mode \in Modes :
        DecodeHit(rip, mode) =>
            /\ FromPage(rip) \/ Fetchable(rip)
            /\ dcache[DSlot(rip)].instr = Decode(ColdBytes(rip), mode)

(* The same for whole pages: a usable code page cache entry equals what    *)
(* read_code_page would deliver.                                           *)
PageCacheFresh ==
    \A p \in PageNumbers :
        PageHit(p) => PageReadable(p) /\ pcache[PSlot(p)].bytes = PageBytes(p)

(* Over self-modifying code, remapping, reprotection, snapshots, modes,    *)
(* fetch hooks, passthroughs and devices that code runs from, a cached     *)
(* decode and a cached page are what a fetch would deliver, except after   *)
(* one of the four changes the code epoch does not show (a write cut short *)
(* by a missing or protected page; a Memory replaced by deserialize_state; *)
(* a passthrough installed, removed or changed; another device, or another *)
(* answer of it, at an address that is fetched), and then only until a new *)
(* epoch begins.                                                           *)
StaleOnlyWhenSuspect == suspect \/ (DecodeFresh /\ PageCacheFresh)
=============================================================================
