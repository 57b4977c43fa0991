--------------------------- MODULE ExecutorProofs ---------------------------
(***************************************************************************)
(* What holds of Executor::step for every program, every set of            *)
(* breakpoints and every answer of the hooks: no debug exception is lost.  *)
(* And of the two caches it fetches from, in the first part: they are      *)
(* stale only when module DecodeCache says they may be, for every address  *)
(* space, page size, instruction length, cache size, set of permissions    *)
(* and arguments.                                                          *)
(***************************************************************************)
EXTENDS Executor, DecodeCache, OperatorProofs

-----------------------------------------------------------------------------
(* The decode cache and the code page cache.                               *)
(* An entry of the decode cache is what a fetch would decode now.          *)
DecodeMatches(e) ==
    /\ FromPage(e.rip) \/ Fetchable(e.rip)
    /\ e.instr = Decode(ColdBytes(e.rip), e.mode)

(* An entry of the code page cache is what read_code_page delivers now.    *)
PageMatches(e) ==
    /\ e.page \in PageNumbers
    /\ PageReadable(e.page)
    /\ e.bytes = PageBytes(e.page)

(* No epoch and no entry is from an epoch to come.                         *)
EpochsOrdered ==
    /\ epoch \in Nat /\ peak \in Nat /\ epoch <= peak
    /\ suspect \in BOOLEAN
    /\ DOMAIN dcache = DIndex /\ DOMAIN pcache = PIndex
    /\ \A i \in DIndex : dcache[i].epoch \in Nat /\ dcache[i].epoch <= peak
    /\ \A i \in PIndex : pcache[i].epoch \in Nat /\ pcache[i].epoch <= peak

(* Every entry of the current epoch agrees with memory, whether or not     *)
(* the program will ask for it.                                            *)
EntriesMatch ==
    /\ \A i \in DIndex :
          dcache[i].valid /\ dcache[i].epoch = epoch =>
              dcache[i].rip \in Rips /\ DecodeMatches(dcache[i])
    /\ \A i \in PIndex :
          pcache[i].valid /\ pcache[i].epoch = epoch => PageMatches(pcache[i])

(* A page that is mapped, or in the captured table, has data and           *)
(* permissions.                                                            *)
IsPage(t) == t = [data |-> t.data, perm |-> t.perm]
PagesTyped ==
    \A p \in PageNumbers :
        /\ table[p] # Absent => IsPage(table[p])
        /\ captured # Absent /\ captured[p] # Absent => IsPage(captured[p])

(* The inductive invariant, beside PagesTyped.  While nothing is suspect   *)
(* the epoch is the highest there has been, so that the next one is new to every entry.     *)
CInv ==
    /\ EpochsOrdered
    /\ ~suspect => epoch = peak /\ EntriesMatch

-----------------------------------------------------------------------------
(* The address space is not empty.                                         *)
LEMMA AddrCountType == AddrCount \in Nat \ {0}
BY AddressAssumption DEF AddrCount

(* An address of the address space is in one of its pages.                 *)
LEMMA PageOfAddress ==
    ASSUME NEW a \in 0..AddrCount-1 PROVE a \div PageSize \in PageNumbers
<1>1. a \in Nat /\ a < PageCount * PageSize
  BY AddrCountType DEF AddrCount
<1>2. a \div PageSize \in Nat /\ a \div PageSize < PageCount
  BY <1>1, AddressAssumption, DivBelow
<1> QED
  BY <1>2, AddressAssumption DEF PageNumbers

-----------------------------------------------------------------------------
(* A step that changes neither the executable pages, nor the passthrough,  *)
(* nor the devices that code is fetched from keeps the invariant.          *)
LEMMA FrameKeepsInv ==
    ASSUME CInv,
           PageImage' = PageImage,
           \A rip \in Rips : DeviceImage(rip, MaxLen)' = DeviceImage(rip, MaxLen),
           UNCHANGED <<epoch, dcache, pcache, host, peak, suspect>>
    PROVE  CInv'
<1>1. EpochsOrdered'
  BY DEF CInv, EpochsOrdered
<1> SUFFICES ASSUME ~suspect PROVE (epoch = peak)' /\ EntriesMatch'
  BY <1>1 DEF CInv
<1>2. epoch = peak /\ EntriesMatch
  BY DEF CInv
<1>3. CodeImage' = CodeImage
  BY DEF CodeImage
<1>4. ASSUME NEW rip \in Rips
      PROVE  (FromPage(rip) \/ Fetchable(rip))' = (FromPage(rip) \/ Fetchable(rip))
             /\ ColdBytes(rip)' = ColdBytes(rip)
  <2>1. ReadImage(rip)' = ReadImage(rip)
    BY <1>4 DEF ReadImage
  <2>2. FromPage(rip)' = FromPage(rip)
    BY <1>3 DEF FromPage, PageReadable
  <2>3. Fetchable(rip)' = Fetchable(rip) /\ Window(rip)' = Window(rip)
    BY <2>1 DEF Fetchable, Window
  <2>4. ColdBytes(rip)' = ColdBytes(rip)
    BY <1>3, <2>2, <2>3 DEF ColdBytes, PageBytes
  <2> QED
    BY <2>2, <2>3, <2>4
<1>5. ASSUME NEW i \in DIndex, dcache[i].valid, dcache[i].epoch = epoch
      PROVE  DecodeMatches(dcache[i])'
  <2>1. dcache[i].rip \in Rips /\ DecodeMatches(dcache[i])
    BY <1>2, <1>5 DEF EntriesMatch
  <2> QED
    BY <1>4, <2>1 DEF DecodeMatches
<1>6. ASSUME NEW i \in PIndex, pcache[i].valid, pcache[i].epoch = epoch
      PROVE  PageMatches(pcache[i])'
  <2>1. PageMatches(pcache[i])
    BY <1>2, <1>6 DEF EntriesMatch
  <2> QED
    BY <1>3, <2>1 DEF PageMatches, PageReadable, PageBytes
<1> QED
  BY <1>2, <1>5, <1>6 DEF EntriesMatch

(* So does one that changes nothing a fetch sees.                          *)
LEMMA UnchangedKeepsInv ==
    ASSUME CInv, UNCHANGED <<table, epoch, dcache, pcache, host, regions, peak, suspect>>
    PROVE  CInv'
<1>1. PageImage' = PageImage
  BY DEF PageImage, Executable
<1>2. \A rip \in Rips : DeviceImage(rip, MaxLen)' = DeviceImage(rip, MaxLen)
  BY DEF DeviceImage, Containing
<1> QED
  BY <1>1, <1>2, FrameKeepsInv

(* A step that counts as suspicious: either the epoch is a new one and no  *)
(* entry is from it, or suspect holds.                                     *)
LEMMA SuspicionKeepsInv ==
    ASSUME CInv, NEW cause \in BOOLEAN, Suspicion(cause), epoch' \in Nat,
           epoch' <= peak => suspect \/ cause,
           UNCHANGED <<dcache, pcache>>
    PROVE  CInv'
<1>1. CASE epoch' > peak
  <2>0. suspect' \in BOOLEAN
    BY DEF Suspicion
  <2>1. peak' = epoch' /\ ~suspect'
    <3>1. peak' = epoch' /\ ~(epoch' <= peak)
      BY <1>1 DEF Suspicion, CInv, EpochsOrdered
    <3>2. ~suspect'
      BY <3>1, Zenon DEF Suspicion
    <3> QED
      BY <3>1, <3>2
  <2>2. EpochsOrdered'
    BY <1>1, <2>0, <2>1 DEF CInv, EpochsOrdered
  <2>3. EntriesMatch'
    <3>1. \A i \in DIndex : dcache[i].epoch # epoch'
      BY <1>1 DEF CInv, EpochsOrdered
    <3>2. \A i \in PIndex : pcache[i].epoch # epoch'
      BY <1>1 DEF CInv, EpochsOrdered
    <3> QED
      BY <3>1, <3>2 DEF EntriesMatch
  <2> QED
    BY <2>1, <2>2, <2>3 DEF CInv
<1>2. CASE epoch' <= peak
  <2>1. peak' = peak /\ suspect'
    BY <1>2 DEF Suspicion, CInv, EpochsOrdered
  <2>2. suspect' \in BOOLEAN
    BY DEF Suspicion
  <2>3. EpochsOrdered'
    BY <1>2, <2>1, <2>2 DEF CInv, EpochsOrdered
  <2> QED
    BY <2>1, <2>3 DEF CInv
<1> QED
  BY <1>1, <1>2 DEF CInv, EpochsOrdered

(* A write makes no page executable.                                       *)
LEMMA WriteKeepsPermissions ==
    ASSUME PagesTyped, NEW addr, NEW size, NEW src, NEW checked,
           PTWrite(addr, size, src, checked), NEW p \in PageNumbers
    PROVE  /\ Executable(p)' => Executable(p)
           /\ table'[p] # Absent => IsPage(table'[p])
<1>1. CASE p \notin Reached(addr, size, checked)
  <2>1. table'[p] = table[p]
    BY <1>1 DEF PTWrite
  <2> QED
    BY <2>1 DEF Executable, PagesTyped
<1>2. CASE p \in Reached(addr, size, checked)
  <2>1. PICK k \in PTSteps(addr, size) :
           /\ p = PTPage(addr, k)
           /\ \A j \in 0..k : Writable(PTPage(addr, j), checked)
    BY <1>2 DEF Reached
  <2>2. k \in 0..k
    BY DEF PTSteps
  <2>3. table[p] # Absent
    BY <2>1, <2>2 DEF Writable
  <2>4. PICK data : table'[p] = [table[p] EXCEPT !.data = data]
    BY <1>2 DEF PTWrite
  <2>5. table[p] = [data |-> table[p].data, perm |-> table[p].perm]
    BY <2>3 DEF PagesTyped, IsPage
  <2>6. table'[p] = [data |-> data, perm |-> table[p].perm]
    BY <2>4, <2>5
  <2> QED
    BY <2>3, <2>6 DEF Executable, IsPage
<1> QED
  BY <1>1, <1>2

(* A write keeps the invariant: it moves the epoch, was cut short, or      *)
(* touched no executable page.                                             *)
LEMMA WriteKeepsInv ==
    ASSUME CInv, PagesTyped, NEW addr, NEW size, NEW src, NEW checked \in BOOLEAN,
           WriteMemory(addr, size, src, checked),
           UNCHANGED <<dcache, pcache, host>>
    PROVE  CInv'
<1> DEFINE reached == Reached(addr, size, checked)
           full == Complete(addr, size, checked)
           code == \E p \in reached : Executable(p)
           cut == CutShort(addr, size, checked)
<1>1. /\ IF full /\ code THEN BumpEpoch ELSE UNCHANGED epoch
      /\ Suspicion(cut)
      /\ cut <=> ~full /\ code
  BY DEF WriteMemory, PTWrite, CutShort
<1>2. \A p \in PageNumbers : p \notin reached => table'[p] = table[p]
  BY DEF WriteMemory, PTWrite
<1>3. cut \in BOOLEAN
  BY DEF CutShort
<1>4. epoch \in Nat /\ peak \in Nat /\ epoch <= peak /\ suspect \in BOOLEAN /\ (~suspect => epoch = peak)
  BY DEF CInv, EpochsOrdered
<1> HIDE DEF full, code, cut, reached
<1>5. CASE full /\ code
  <2>1. epoch' = epoch + 1
    BY <1>1, <1>5 DEF BumpEpoch
  <2>2. epoch' \in Nat /\ (epoch' <= peak => suspect)
    BY <1>4, <2>1
  <2> QED
    BY <1>1, <1>3, <2>2, SuspicionKeepsInv
<1>6. CASE ~full /\ code
  <2>1. epoch' \in Nat
    BY <1>1, <1>4, <1>6
  <2> QED
    BY <1>1, <1>3, <1>6, <2>1, SuspicionKeepsInv
<1>7. CASE ~code
  <2>1. epoch' = epoch /\ ~cut
    BY <1>1, <1>7
  <2>2. peak' = peak
    BY <1>1, <1>4, <2>1 DEF Suspicion
  <2>3. suspect' <=> suspect
    BY <1>1, <1>4, <2>1 DEF Suspicion
  <2>4. suspect' \in BOOLEAN
    BY <1>1 DEF Suspicion
  <2>5. suspect' = suspect
    BY <1>4, <2>3, <2>4, Zenon
  <2>6. \A p \in PageNumbers : Executable(p) => table'[p] = table[p]
    BY <1>2, <1>7 DEF code
  <2>7. \A p \in PageNumbers : Executable(p)' = Executable(p)
    <3>1. PTWrite(addr, size, src, checked)
      BY DEF WriteMemory
    <3>2. \A p \in PageNumbers : Executable(p) => Executable(p)'
      BY <2>6 DEF Executable
    <3>3. \A p \in PageNumbers : Executable(p)' => Executable(p)
      BY <3>1, WriteKeepsPermissions
    <3> QED
      BY <3>2, <3>3 DEF Executable
  <2>8. PageImage' = PageImage
    BY <2>6, <2>7, PageOfAddress DEF PageImage, Addresses
  <2>9. \A rip \in Rips : DeviceImage(rip, MaxLen)' = DeviceImage(rip, MaxLen)
    BY DEF WriteMemory, DeviceImage, Containing
  <2> QED
    BY <2>1, <2>2, <2>5, <2>8, <2>9, FrameKeepsInv
<1> QED
  BY <1>5, <1>6, <1>7

(* An instruction address has a slot in the decode cache.                  *)
LEMMA DSlotType == ASSUME NEW rip \in Rips PROVE DSlot(rip) \in DIndex
<1>1. rip \in Nat
  BY RipsAssumption, AddrCountType
<1> DEFINE h == rip \div 2
<1>2. h \in Nat
  BY <1>1
<1> HIDE DEF h
<1>3. h % DecodeCacheSize \in 0..DecodeCacheSize-1
  BY <1>2, CacheSizeAssumption
<1> QED
  BY <1>3 DEF DSlot, DIndex, h

(* The fill of a code page cache entry.                                    *)
LEMMA PageEntryKept ==
    ASSUME CInv, NEW p \in PageNumbers
    PROVE  /\ PSlot(p) \in PIndex
           /\ PageEntryAfter(p).epoch \in Nat
           /\ PageEntryAfter(p).epoch <= peak
           /\ PageEntryAfter(p).valid /\ ~suspect =>
                 /\ PageEntryAfter(p).page = p
                 /\ PageReadable(p)
                 /\ PageEntryAfter(p).bytes = PageBytes(p)
<1>1. PSlot(p) \in PIndex
  <2>1. p \in Nat
    BY AddressAssumption DEF PageNumbers
  <2> QED
    BY <2>1, CacheSizeAssumption DEF PSlot, PIndex
<1>2. CASE PageHit(p)
  <2>1. PageEntryAfter(p) = pcache[PSlot(p)]
    BY <1>2 DEF PageEntryAfter
  <2>2. pcache[PSlot(p)].epoch \in Nat /\ pcache[PSlot(p)].epoch <= peak
    BY <1>1 DEF CInv, EpochsOrdered
  <2>3. ASSUME ~suspect PROVE PageMatches(pcache[PSlot(p)]) /\ pcache[PSlot(p)].page = p
    BY <1>1, <1>2, <2>3 DEF CInv, EntriesMatch, PageHit
  <2> QED
    BY <1>1, <2>1, <2>2, <2>3 DEF PageMatches
<1>3. CASE ~PageHit(p) /\ PageReadable(p)
  <2>1. PageEntryAfter(p) =
          [valid |-> TRUE, page |-> p, epoch |-> epoch, bytes |-> PageBytes(p)]
    BY <1>3 DEF PageEntryAfter
  <2> QED
    BY <1>1, <1>3, <2>1 DEF CInv, EpochsOrdered
<1>4. CASE ~PageHit(p) /\ ~PageReadable(p)
  <2>1. PageEntryAfter(p) = EmptyPage
    BY <1>4 DEF PageEntryAfter
  <2>2. EmptyPage.epoch = 0 /\ ~EmptyPage.valid
    BY DEF EmptyPage
  <2> QED
    BY <1>1, <2>1, <2>2 DEF CInv, EpochsOrdered
<1> QED
  BY <1>2, <1>3, <1>4

(* Filling entries that agree with memory keeps the invariant.             *)
LEMMA FillKeepsInv ==
    ASSUME CInv, UNCHANGED <<table, epoch, host, regions, peak, suspect>>,
           NEW i \in DIndex, NEW j \in PIndex, NEW d, NEW e,
           dcache' = dcache \/ dcache' = [dcache EXCEPT ![i] = d],
           pcache' = pcache \/ pcache' = [pcache EXCEPT ![j] = e],
           d.epoch \in Nat, d.epoch <= peak, e.epoch \in Nat, e.epoch <= peak,
           d.valid /\ ~suspect => d.rip \in Rips /\ DecodeMatches(d),
           e.valid /\ ~suspect => PageMatches(e)
    PROVE  CInv'
<1>0. /\ CodeImage' = CodeImage
      /\ \A rip : FromPage(rip)' = FromPage(rip)
      /\ \A rip : Fetchable(rip)' = Fetchable(rip)
      /\ \A rip : ColdBytes(rip)' = ColdBytes(rip)
  <2>1. PageImage' = PageImage
    BY DEF PageImage, Executable
  <2>2. \A rip : DeviceImage(rip, MaxLen)' = DeviceImage(rip, MaxLen)
    BY DEF DeviceImage, Containing
  <2>3. CodeImage' = CodeImage
    BY <2>1 DEF CodeImage
  <2>4. \A rip : ReadImage(rip)' = ReadImage(rip)
    BY <2>1, <2>2 DEF ReadImage
  <2>5. \A rip : FromPage(rip)' = FromPage(rip)
    BY <2>3 DEF FromPage, PageReadable
  <2>6. \A rip : Fetchable(rip)' = Fetchable(rip) /\ Window(rip)' = Window(rip)
    BY <2>4 DEF Fetchable, Window
  <2>7. \A rip : ColdBytes(rip)' = ColdBytes(rip)
    BY <2>3, <2>5, <2>6 DEF ColdBytes, PageBytes
  <2> QED
    BY <2>3, <2>5, <2>6, <2>7
<1>1. \A n \in DIndex : dcache'[n] = dcache[n] \/ dcache'[n] = d
  BY DEF CInv, EpochsOrdered
<1>2. \A n \in PIndex : pcache'[n] = pcache[n] \/ pcache'[n] = e
  BY DEF CInv, EpochsOrdered
<1>3. EpochsOrdered'
  <2>1. DOMAIN dcache' = DIndex /\ DOMAIN pcache' = PIndex
    BY DEF CInv, EpochsOrdered
  <2>2. \A n \in DIndex : dcache'[n].epoch \in Nat /\ dcache'[n].epoch <= peak
    BY <1>1 DEF CInv, EpochsOrdered
  <2>3. \A n \in PIndex : pcache'[n].epoch \in Nat /\ pcache'[n].epoch <= peak
    BY <1>2 DEF CInv, EpochsOrdered
  <2> QED
    BY <2>1, <2>2, <2>3 DEF CInv, EpochsOrdered
<1> SUFFICES ASSUME ~suspect PROVE EntriesMatch'
  BY <1>3 DEF CInv
<1>4. ASSUME NEW n \in DIndex, dcache'[n].valid, dcache'[n].epoch = epoch
      PROVE  dcache'[n].rip \in Rips /\ DecodeMatches(dcache[n])'
  <2>1. dcache'[n].rip \in Rips /\ DecodeMatches(dcache'[n])
    BY <1>1, <1>4 DEF CInv, EntriesMatch
  <2> QED
    BY <1>0, <2>1 DEF DecodeMatches
<1>5. ASSUME NEW n \in PIndex, pcache'[n].valid, pcache'[n].epoch = epoch
      PROVE  PageMatches(pcache[n])'
  <2>1. PageMatches(pcache'[n])
    BY <1>2, <1>5 DEF CInv, EntriesMatch
  <2> QED
    BY <1>0, <2>1 DEF PageMatches, PageReadable, PageBytes
<1> QED
  BY <1>4, <1>5 DEF EntriesMatch

(* The decode entry of an instruction read at rip: it matches when it is   *)
(* decoded from what a fetch with empty caches would deliver.              *)
LEMMA DecodedEntry ==
    ASSUME CInv, NEW rip \in Rips, NEW mode, NEW bytes,
           CanUseCache /\ ~suspect =>
              (FromPage(rip) \/ Fetchable(rip)) /\ bytes = ColdBytes(rip)
    PROVE  /\ DSlot(rip) \in DIndex
           /\ DecodeEntry(rip, mode, bytes).epoch \in Nat
           /\ DecodeEntry(rip, mode, bytes).epoch <= peak
           /\ DecodeEntry(rip, mode, bytes).valid /\ ~suspect =>
                 /\ DecodeEntry(rip, mode, bytes).rip \in Rips
                 /\ DecodeMatches(DecodeEntry(rip, mode, bytes))
<1>1. DSlot(rip) \in DIndex
  BY DSlotType
<1>2. CASE CanUseCache
  <2>1. DecodeEntry(rip, mode, bytes) =
            [valid |-> TRUE, rip |-> rip, epoch |-> epoch, mode |-> mode,
             instr |-> Decode(bytes, mode)]
    BY <1>2 DEF DecodeEntry
  <2>2. ASSUME ~suspect PROVE DecodeMatches(DecodeEntry(rip, mode, bytes))
    BY <1>2, <2>1, <2>2 DEF DecodeMatches
  <2> QED
    BY <1>1, <2>1, <2>2 DEF CInv, EpochsOrdered
<1>3. CASE ~CanUseCache
  <2>1. DecodeEntry(rip, mode, bytes) = EmptyDecode
    BY <1>3 DEF DecodeEntry
  <2>2. EmptyDecode.epoch = 0 /\ ~EmptyDecode.valid
    BY DEF EmptyDecode
  <2> QED
    BY <1>1, <2>1, <2>2 DEF CInv, EpochsOrdered
<1> QED
  BY <1>2, <1>3

(* The fetch stage keeps the invariant.                                    *)
LEMMA FetchKeepsInv ==
    ASSUME CInv, Fetch PROVE CInv'
<1>1. PICK rip \in Rips, mode \in Modes :
        \/ FetchHit(rip, mode)
        \/ FetchThroughPage(rip, mode)
        \/ \E allowed \in Verdicts : FetchThroughRead(rip, mode, allowed)
  BY DEF Fetch
<1>2. rip \in 0..AddrCount-1
  BY RipsAssumption
<1> DEFINE p == rip \div PageSize
           e == PageEntryAfter(p)
<1>3. p \in PageNumbers
  BY <1>2, PageOfAddress
<1>4. PSlot(p) \in PIndex /\ e.epoch \in Nat /\ e.epoch <= peak
  BY <1>3, PageEntryKept
<1>5. e.valid /\ ~suspect => e.page = p /\ PageReadable(p) /\ e.bytes = PageBytes(p)
  BY <1>3, PageEntryKept
<1>6. e.valid /\ ~suspect => PageMatches(e)
  BY <1>3, <1>5 DEF PageMatches
<1>7. ~e.valid /\ ~suspect => ~PageReadable(p)
  BY DEF PageEntryAfter, PageHit
<1> HIDE DEF e
<1>8. CASE FetchHit(rip, mode)
  <2>1. UNCHANGED dcVars
    BY <1>8 DEF FetchHit
  <2> QED
    BY <2>1, UnchangedKeepsInv DEF dcVars, memoryVars, cacheVars
<1>9. CASE FetchThroughPage(rip, mode)
  <2> DEFINE bytes == [k \in 0..MaxLen-1 |-> e.bytes[(rip % PageSize) + k]]
             d == DecodeEntry(rip, mode, bytes)
  <2>1. /\ InPage(rip) /\ e.valid
        /\ pcache' = [pcache EXCEPT ![PSlot(p)] = e]
        /\ dcache' = [dcache EXCEPT ![DSlot(rip)] = d]
        /\ UNCHANGED <<table, epoch, host, regions, peak, suspect>>
    BY <1>9 DEF FetchThroughPage, e, memoryVars
  <2>2. ASSUME ~suspect PROVE FromPage(rip) /\ bytes = ColdBytes(rip)
    <3>1. PageReadable(p) /\ e.bytes = PageBytes(p)
      BY <1>5, <2>1, <2>2
    <3> QED
      BY <2>1, <3>1 DEF FromPage, ColdBytes
  <2> HIDE DEF bytes
  <2>3. /\ DSlot(rip) \in DIndex /\ d.epoch \in Nat /\ d.epoch <= peak
        /\ d.valid /\ ~suspect => d.rip \in Rips /\ DecodeMatches(d)
    BY <2>2, DecodedEntry
  <2> HIDE DEF d, p
  <2> QED
    BY <1>4, <1>6, <2>1, <2>3, FillKeepsInv
<1>10. ASSUME NEW allowed \in Verdicts, FetchThroughRead(rip, mode, allowed) PROVE CInv'
  <2> DEFINE d == DecodeEntry(rip, mode, Window(rip))
             slot == DSlot(rip)
  <2>1. /\ pcache' = pcache \/ pcache' = [pcache EXCEPT ![PSlot(p)] = e]
        /\ UNCHANGED <<table, epoch, host, regions, peak, suspect>>
    BY <1>10 DEF FetchThroughRead, e, memoryVars
  <2>2. dcache' = IF Fetchable(rip) /\ allowed THEN [dcache EXCEPT ![slot] = d] ELSE dcache
    BY <1>10 DEF FetchThroughRead
  <2>3. CASE Fetchable(rip) /\ allowed
    <3>1. ASSUME CanUseCache, ~suspect PROVE Window(rip) = ColdBytes(rip)
      <4>1. InPage(rip) => ~e.valid
        BY <1>10, <3>1 DEF FetchThroughRead, e
      <4>2. ~FromPage(rip)
        BY <1>7, <3>1, <4>1 DEF FromPage
      <4> QED
        BY <4>2 DEF ColdBytes
    <3>2. /\ slot \in DIndex /\ d.epoch \in Nat /\ d.epoch <= peak
          /\ d.valid /\ ~suspect => d.rip \in Rips /\ DecodeMatches(d)
      BY <2>3, <3>1, DecodedEntry
    <3> HIDE DEF d, p, slot
    <3> QED
      BY <1>4, <1>6, <2>1, <2>2, <2>3, <3>2, FillKeepsInv
  <2>4. CASE ~(Fetchable(rip) /\ allowed)
    <3>1. dcache' = dcache
      BY <2>2, <2>4
    <3>2. 0 \in DIndex
      BY CacheSizeAssumption DEF DIndex
    <3>3. EmptyDecode.epoch = 0 /\ ~EmptyDecode.valid
      BY DEF EmptyDecode
    <3>4. EmptyDecode.epoch \in Nat /\ EmptyDecode.epoch <= peak
      BY <3>3 DEF CInv, EpochsOrdered
    <3> HIDE DEF p
    <3> QED
      BY <1>4, <1>6, <2>1, <3>1, <3>2, <3>3, <3>4, FillKeepsInv
  <2> QED
    BY <2>3, <2>4
<1> QED
  BY <1>1, <1>8, <1>9, <1>10

(* Steps that move the epoch, or reset it, are suspicious by definition.   *)
LEMMA MappingMovesEpoch ==
    ASSUME CInv, PTMapping \/ PTRestore PROVE epoch' \in Nat
<1>1. epoch \in Nat
  BY DEF CInv, EpochsOrdered
<1>2. epoch' = epoch + 1
  BY DEF PTMapping, PTMap, PTReprotect, PTUnmap, PTRestore, BumpEpoch
<1> QED
  BY <1>1, <1>2

(* The memory underneath keeps the invariant.                              *)
LEMMA MemoryKeepsInv ==
    ASSUME CInv, PagesTyped, MemoryStep PROVE CInv'
<1>0. UNCHANGED <<dcache, pcache, host>>
  BY DEF MemoryStep
<1>1. CASE (PTMapping \/ PTRestore) /\ Suspicion(TRUE)
  <2>1. epoch' \in Nat
    BY <1>1, MappingMovesEpoch
  <2> QED
    BY <1>0, <1>1, <2>1, SuspicionKeepsInv
<1>2. CASE PTCapture /\ UNCHANGED <<peak, suspect, regions>>
  BY <1>0, <1>2, UnchangedKeepsInv DEF PTCapture
<1>3. CASE \E a \in Accesses : \E src \in [0..a[2]-1 -> Byte], checked \in BOOLEAN :
             WriteMemory(a[1], a[2], src, checked)
  BY <1>0, <1>3, WriteKeepsInv
<1> QED
  BY <1>1, <1>2, <1>3 DEF MemoryStep

(* A change of the regions is suspicious when it reaches an instruction.   *)
LEMMA RegionKeepsInv ==
    ASSUME CInv, RegionStep PROVE CInv'
<1> DEFINE cause == \E rip \in Rips : DeviceImage(rip, MaxLen)' # DeviceImage(rip, MaxLen)
<1>1. /\ Suspicion(cause)
      /\ UNCHANGED <<table, epoch, dcache, pcache, host>>
  BY DEF RegionStep, cacheVars
<1>2. epoch \in Nat /\ peak \in Nat /\ epoch <= peak /\ suspect \in BOOLEAN
  BY DEF CInv, EpochsOrdered
<1>3. cause \in BOOLEAN
  OBVIOUS
<1>4. CASE cause
  <2> HIDE DEF cause
  <2> QED
    BY <1>1, <1>2, <1>3, <1>4, SuspicionKeepsInv
<1>5. CASE ~cause
  <2>1. \A rip \in Rips : DeviceImage(rip, MaxLen)' = DeviceImage(rip, MaxLen)
    BY <1>5
  <2> HIDE DEF cause
  <2>2. peak' = peak
    BY <1>1, <1>2 DEF Suspicion
  <2>3. suspect' <=> suspect
    BY <1>1, <1>2, <1>5 DEF Suspicion
  <2>4. suspect' = suspect
    <3>1. suspect \in BOOLEAN
      BY <1>2
    <3>2. suspect' \in BOOLEAN
      BY <1>1 DEF Suspicion
    <3> QED
      BY <2>3, <3>1, <3>2, Zenon
  <2>5. PageImage' = PageImage
    BY <1>1 DEF PageImage, Executable
  <2> QED
    BY <1>1, <2>1, <2>2, <2>4, <2>5, FrameKeepsInv
<1> QED
  BY <1>4, <1>5

(* The initial caches are empty.                                           *)
LEMMA InitCInv == DCInit => CInv
<1> SUFFICES ASSUME DCInit PROVE CInv
  OBVIOUS
<1>1. \A i \in DIndex : ~dcache[i].valid /\ dcache[i].epoch = 0
  BY DEF DCInit, EmptyDecode
<1>2. \A i \in PIndex : ~pcache[i].valid /\ pcache[i].epoch = 0
  BY DEF DCInit, EmptyPage
<1>3. EntriesMatch
  BY <1>1, <1>2 DEF EntriesMatch
<1>4. epoch = 1 /\ peak = 1 /\ suspect \in BOOLEAN /\ DOMAIN dcache = DIndex /\ DOMAIN pcache = PIndex
  BY DEF DCInit, PTInit
<1> QED
  BY <1>1, <1>2, <1>3, <1>4 DEF CInv, EpochsOrdered

(* Every step keeps the invariant.                                         *)
LEMMA NextCInv == CInv /\ PagesTyped /\ [DCNext]_dcVars => CInv'
<1> SUFFICES ASSUME CInv, PagesTyped, [DCNext]_dcVars PROVE CInv'
  OBVIOUS
<1>0. epoch \in Nat
  BY DEF CInv, EpochsOrdered
<1>1. CASE Fetch
  BY <1>1, FetchKeepsInv
<1>2. CASE MemoryStep
  BY <1>2, MemoryKeepsInv
<1>3. CASE \E on \in BOOLEAN : SetFetchHook(on)
  BY <1>3, UnchangedKeepsInv DEF SetFetchHook, memoryVars, cacheVars
<1>4. CASE Deserialize
  <2>1. epoch' \in Nat /\ Suspicion(TRUE) /\ UNCHANGED <<dcache, pcache>>
    BY <1>4 DEF Deserialize, PTDeserialize, cacheVars
  <2> QED
    BY <2>1, SuspicionKeepsInv
<1>5. CASE (\E image \in Images \cup {NoHost} : SetPassthrough(image)) \/ HostChanges
  <2>1. epoch' = epoch /\ Suspicion(TRUE) /\ UNCHANGED <<dcache, pcache>>
    BY <1>5 DEF SetPassthrough, HostChanges, cacheVars
  <2> QED
    BY <1>0, <2>1, SuspicionKeepsInv
<1>6. CASE RegionStep
  BY <1>6, RegionKeepsInv
<1>7. CASE UNCHANGED dcVars
  BY <1>7, UnchangedKeepsInv DEF dcVars, memoryVars, cacheVars
<1> QED
  BY <1>1, <1>2, <1>3, <1>4, <1>5, <1>6, <1>7 DEF DCNext

(* Pages keep their type.                                                  *)
LEMMA InitPagesTyped == DCInit => PagesTyped
BY DEF DCInit, PTInit, PagesTyped

LEMMA NextPagesTyped == PagesTyped /\ [DCNext]_dcVars => PagesTyped'
<1> SUFFICES ASSUME PagesTyped, [DCNext]_dcVars PROVE PagesTyped'
  OBVIOUS
<1>1. CASE PTMapping
  <2>1. PICK base, size, perm :
           PTMap(base, size, perm) \/ PTReprotect(base, size, perm) \/ PTUnmap(base, size)
    BY <1>1 DEF PTMapping
  <2>2. captured' = captured
    BY <2>1 DEF PTMap, PTReprotect, PTUnmap
  <2>3. ASSUME NEW p \in PageNumbers, table'[p] # Absent PROVE IsPage(table'[p])
    <3>1. \/ table'[p] = table[p]
          \/ table'[p] = Fresh(perm)
          \/ table[p] # Absent /\ table'[p] = [table[p] EXCEPT !.perm = perm]
      BY <2>1, <2>3 DEF PTMap, PTReprotect, PTUnmap
    <3>2. table[p] # Absent => table[p] = [data |-> table[p].data, perm |-> table[p].perm]
      BY DEF PagesTyped, IsPage
    <3>3. CASE table'[p] = table[p]
      BY <2>3, <3>3 DEF PagesTyped
    <3>4. CASE table'[p] = Fresh(perm)
      BY <3>4 DEF Fresh, IsPage
    <3>5. CASE table[p] # Absent /\ table'[p] = [table[p] EXCEPT !.perm = perm]
      <4>1. table'[p] = [data |-> table[p].data, perm |-> perm]
        BY <3>2, <3>5
      <4> QED
        BY <4>1 DEF IsPage
    <3> QED
      BY <3>1, <3>3, <3>4, <3>5
  <2> QED
    BY <2>2, <2>3 DEF PagesTyped
<1>2. CASE PTCapture
  BY <1>2 DEF PTCapture, PagesTyped
<1>3. CASE PTRestore \/ PTDeserialize
  BY <1>3 DEF PTRestore, PTDeserialize, PagesTyped
<1>4. ASSUME NEW addr, NEW size, NEW src, NEW checked, PTWrite(addr, size, src, checked)
      PROVE  PagesTyped'
  <2>1. captured' = captured
    BY <1>4 DEF PTWrite
  <2>2. \A p \in PageNumbers : table'[p] # Absent => IsPage(table'[p])
    BY <1>4, WriteKeepsPermissions
  <2> QED
    BY <2>1, <2>2 DEF PagesTyped
<1>5. CASE UNCHANGED <<table, captured>>
  BY <1>5 DEF PagesTyped
<1>6. CASE Fetch
  BY <1>5, <1>6 DEF Fetch, FetchHit, FetchThroughPage, FetchThroughRead, memoryVars, dcVars
<1>7. CASE MemoryStep
  BY <1>1, <1>2, <1>3, <1>4, <1>7 DEF MemoryStep, WriteMemory
<1>8. CASE (\E on \in BOOLEAN : SetFetchHook(on)) \/ HostChanges \/ RegionStep
           \/ \E image \in Images \cup {NoHost} : SetPassthrough(image)
  BY <1>5, <1>8 DEF SetFetchHook, HostChanges, RegionStep, SetPassthrough, memoryVars
<1>9. CASE Deserialize
  BY <1>3, <1>9 DEF Deserialize
<1>10. CASE UNCHANGED dcVars
  BY <1>5, <1>10 DEF dcVars, memoryVars
<1> QED
  BY <1>6, <1>7, <1>8, <1>9, <1>10 DEF DCNext

(* The entries a program can ask for are among those that match.           *)
LEMMA MatchingIsFresh ==
    ASSUME EntriesMatch PROVE DecodeFresh /\ PageCacheFresh
<1>1. DecodeFresh
  <2> SUFFICES ASSUME NEW rip \in Rips, NEW mode \in Modes, DecodeHit(rip, mode)
               PROVE  /\ FromPage(rip) \/ Fetchable(rip)
                      /\ dcache[DSlot(rip)].instr = Decode(ColdBytes(rip), mode)
    BY DEF DecodeFresh
  <2> DEFINE d == dcache[DSlot(rip)]
  <2>1. d.valid /\ d.epoch = epoch /\ d.rip = rip /\ d.mode = mode
    BY DEF DecodeHit
  <2>2. DecodeMatches(d)
    BY <2>1, DSlotType DEF EntriesMatch
  <2> QED
    BY <2>1, <2>2 DEF DecodeMatches
<1>2. PageCacheFresh
  <2> SUFFICES ASSUME NEW p \in PageNumbers, PageHit(p)
               PROVE  PageReadable(p) /\ pcache[PSlot(p)].bytes = PageBytes(p)
    BY DEF PageCacheFresh
  <2>1. PSlot(p) \in PIndex
    <3>1. p \in Nat
      BY AddressAssumption DEF PageNumbers
    <3> QED
      BY <3>1, CacheSizeAssumption DEF PSlot, PIndex
  <2> QED
    BY <2>1 DEF PageHit, EntriesMatch, PageMatches
<1> QED
  BY <1>1, <1>2

(* A cached decode and a cached page are those of the memory, except after *)
(* a change the code epoch does not show, and then only until a new epoch  *)
(* begins: for every page size, instruction length and size of the two     *)
(* caches.                                                                 *)
THEOREM CachesStaleOnlyWhenSuspect == DCSpec => []StaleOnlyWhenSuspect
<1>1. CInv => StaleOnlyWhenSuspect
  BY MatchingIsFresh DEF CInv, StaleOnlyWhenSuspect
<1> QED
  BY InitCInv, NextCInv, InitPagesTyped, NextPagesTyped, <1>1, PTL DEF DCSpec

-----------------------------------------------------------------------------
(* Debug exceptions and faults. The inductive invariant says inside a step *)
(* what the property says between steps, where the fault hooks may have    *)
(* the instruction tried again, and adds that a single step in the shadow  *)
(* of an SS load is already pending (ShadowSteps): without that the        *)
(* instruction after the load could swallow one.                           *)
Accounted == owed = Reasons(cpu.pss, cpu.pend)
ShadowSteps == cpu.shadow = TRUE /\ cpu.tf = TRUE => cpu.pss = TRUE
ProgramOK == prog \in [Body -> Kinds] /\ watch \in BOOLEAN
DInv == ExTypeOK /\ ProgramOK /\ Accounted /\ ShadowSteps

(* What a new CPU state must satisfy.                                      *)
Good(c, due) ==
    /\ c \in Cpu
    /\ Len(c.frames) <= MaxFrames
    /\ due = Reasons(c.pss, c.pend)
    /\ c.shadow = TRUE /\ c.tf = TRUE => c.pss = TRUE

USE LengthAssumption, KindsAssumption, RetryAssumption

(* The initial state has nothing pending.                                  *)
LEMMA InitDInv == Init => DInv
  BY DEF Init, DInv, ExTypeOK, ProgramOK, Accounted, ShadowSteps, Cpu, Frame, Handler, Body,
         Reasons, NoViolation

(* Every way out of a step keeps the invariant if the CPU state is good.   *)
LEMMA FinishDInv ==
  ASSUME DInv, NEW c, NEW reason, NEW retired, Finish(c, reason, retired),
         Good(c, owed'), event' \in {"none", "execbp", "db", "taken"}
  PROVE  DInv'
  BY DEF Finish, Good, DInv, ExTypeOK, ProgramOK, Accounted, ShadowSteps, stepVars, NotAFault

(* So does a fault, whether or not a hook has the instruction retried.     *)
LEMMA FaultDInv ==
  ASSUME DInv, Trying, NEW c, NEW final, NEW reason, Fault(c, final, reason),
         phase' = "trying" => Good(c, owed'),
         phase' = "ready" => Good(final, owed'),
         event' \in {"none", "execbp", "db", "taken"}
  PROVE  DInv'
<1>1. CASE /\ \E rip \in RetryRips(c) : cpu' = [c EXCEPT !.rip = rip]
           /\ attempt' = attempt + 1
           /\ UNCHANGED <<prog, watch, bps, phase, start, stop, res, viol, suppressed>>
  <2>1. phase' = "trying" /\ Good(c, owed')
    BY <1>1 DEF Trying
  <2>2. PICK rip \in RetryRips(c) : cpu' = [c EXCEPT !.rip = rip]
    BY <1>1
  <2>3. rip \in 0..Handler
    BY <2>1, <2>2 DEF RetryRips, Good, Cpu, DInv, ExTypeOK, Handler
  <2>4. cpu' \in Cpu /\ cpu'.frames = c.frames /\ cpu'.pss = c.pss /\ cpu'.pend = c.pend
        /\ cpu'.shadow = c.shadow /\ cpu'.tf = c.tf
    BY <2>1, <2>2, <2>3 DEF Good, Cpu
  <2>5. attempt' \in 0..MaxFaultRetries
    BY <1>1 DEF Trying, DInv, ExTypeOK
  <2> QED
    BY <1>1, <2>1, <2>4, <2>5 DEF Good, DInv, ExTypeOK, ProgramOK, Accounted, ShadowSteps
<1>2. CASE "stop" \in FaultVerdicts /\ Finish(final, reason, 0)
  <2>1. phase' = "ready"
    BY <1>2 DEF Finish
  <2> QED
    BY <1>2, <2>1, FinishDInv
<1> QED
  BY <1>1, <1>2 DEF Fault

(* The CPU state after RF and the shadow are consumed is good.             *)
LEMMA ConsumedGood ==
  ASSUME DInv
  PROVE  /\ Good(Consumed, owed)
         /\ Consumed.shadow = FALSE /\ Consumed.rf = FALSE
         /\ \A f \in {"rip", "tf", "pss", "pend", "dr6", "frames"} : Consumed[f] = cpu[f]
  BY DEF Consumed, Good, DInv, ExTypeOK, Accounted, ShadowSteps, Cpu

(* An interrupt frame that fits keeps a good state good and clears TF.     *)
LEMMA EnteredGood ==
  ASSUME NEW c, NEW due, Good(c, due), NEW ret \in 0..Handler, NEW rf \in BOOLEAN, Fits(c)
  PROVE  /\ Good(Entered(c, ret, rf), due)
         /\ Entered(c, ret, rf).tf = FALSE
         /\ \A f \in {"shadow", "pss", "pend"} : Entered(c, ret, rf)[f] = c[f]
<1> DEFINE fr == [rip |-> ret, rf |-> c.rf \/ rf, tf |-> c.tf]
           e == [c EXCEPT !.frames = Append(c.frames, fr), !.tf = FALSE, !.rip = Handler]
<1>1. c.frames \in Seq(Frame) /\ fr \in Frame
  BY DEF Good, Cpu, Frame
<1>2. Append(c.frames, fr) \in Seq(Frame) /\ Len(Append(c.frames, fr)) = Len(c.frames) + 1
  BY <1>1
<1>3. Len(c.frames) \in Nat /\ Len(c.frames) < MaxFrames
  BY <1>1 DEF Fits
<1>4. e \in Cpu
  <2>1. c \in Cpu /\ Handler \in 0..Handler
    BY DEF Good, Handler
  <2> QED
    BY <1>2, <2>1 DEF Cpu
<1>5. e.frames = Append(c.frames, fr) /\ e.tf = FALSE /\ e.pss = c.pss /\ e.pend = c.pend
      /\ e.shadow = c.shadow
  BY DEF Good, Cpu
<1> QED
  BY <1>2, <1>3, <1>4, <1>5 DEF Good, Entered

(* An instruction that completed reports or keeps every reason.            *)
LEMMA CompletedDInv ==
  ASSUME DInv, Trying, NEW c \in Cpu, NEW hits \in BOOLEAN, NEW rf \in BOOLEAN,
         Completed(c, hits, rf),
         Len(c.frames) <= MaxFrames, c.pend = cpu.pend,
         c.shadow = FALSE => c.pss = cpu.pss,
         c.shadow = TRUE => c.pss = (cpu.pss \/ cpu.tf) /\ c.tf = cpu.tf
  PROVE  DInv'
<1> DEFINE data == c.pend \/ hits
           tfHit == c.pss \/ (~cpu.shadow /\ cpu.tf)
           shown == Reasons(tfHit, data)
           due == owed \cup Reasons(cpu.tf, hits)
           db == [c EXCEPT !.dr6 = @ \cup shown, !.pss = FALSE, !.pend = FALSE]
<1>0. /\ cpu \in Cpu /\ data \in BOOLEAN /\ tfHit \in BOOLEAN
      /\ c.pss \in BOOLEAN /\ c.shadow \in BOOLEAN /\ c.tf \in BOOLEAN
      /\ cpu.pss \in BOOLEAN /\ cpu.pend \in BOOLEAN /\ cpu.shadow \in BOOLEAN /\ cpu.tf \in BOOLEAN
  BY DEF DInv, ExTypeOK, Cpu
<1>1. CASE c.shadow = TRUE
  <2> DEFINE k == [c EXCEPT !.pend = data]
  <2>1. event' = "none" /\ owed' = due /\ Finish(k, "none", 1)
    BY <1>1 DEF Completed
  <2>2. k \in Cpu /\ k.frames = c.frames /\ k.pss = (cpu.pss \/ cpu.tf) /\ k.pend = data
        /\ k.tf = c.tf /\ k.shadow = c.shadow
    BY <1>0, <1>1 DEF Cpu
  <2>3. due = Reasons(k.pss, k.pend)
    BY <1>0, <2>2 DEF Reasons, DInv, Accounted
  <2> QED
    <3>1. k.shadow = TRUE /\ k.tf = TRUE => k.pss = TRUE
      BY <1>0, <1>1, <2>2
    <3>2. Good(k, owed')
      BY <2>1, <2>2, <2>3, <3>1 DEF Good
    <3> QED
      BY <2>1, <3>2, FinishDInv
<1>2. CASE c.shadow = FALSE
  <2>1. /\ owed' = due \ shown
        /\ \/ shown = {} /\ event' = "none" /\ Finish(c, "none", 1)
           \/ Fits(db) /\ event' = "db" /\ Finish(Entered(db, db.rip, rf), "none", 1)
           \/ event' = "none" /\ Finish(db, "page_fault", 0)
    BY <1>2 DEF Completed
  <2>2. due \ shown = {}
    BY <1>0, <1>2 DEF Reasons, DInv, Accounted, ShadowSteps
  <2>3. CASE shown = {} /\ event' = "none" /\ Finish(c, "none", 1)
    <3>1. c.pss = FALSE /\ c.pend = FALSE
      <4>1. "bs" \notin shown /\ "data" \notin shown
        BY <2>3
      <4>2. tfHit = FALSE /\ data = FALSE
        BY <1>0, <4>1 DEF Reasons
      <4> QED
        BY <1>0, <4>2
    <3>2. Good(c, owed')
      BY <1>2, <2>1, <2>2, <3>1 DEF Good, Reasons
    <3> QED
      BY <2>3, <3>2, FinishDInv
  <2>4. Good(db, owed') /\ db.rip \in 0..Handler
    <3>1. db \in Cpu
      BY DEF Cpu, Reasons
    <3>2. db.pss = FALSE /\ db.pend = FALSE /\ db.frames = c.frames /\ db.shadow = FALSE
      BY <1>2 DEF Cpu
    <3> QED
      BY <2>1, <2>2, <3>1, <3>2 DEF Good, Reasons, Cpu
  <2>5. CASE Fits(db) /\ event' = "db" /\ Finish(Entered(db, db.rip, rf), "none", 1)
    <3> HIDE DEF db
    <3>1. Good(Entered(db, db.rip, rf), owed')
      BY <2>4, <2>5, EnteredGood
    <3> QED
      BY <2>5, <3>1, FinishDInv
  <2>6. CASE event' = "none" /\ Finish(db, "page_fault", 0)
    BY <2>4, <2>6, FinishDInv
  <2> QED
    BY <2>1, <2>3, <2>5, <2>6
<1> QED
  BY <1>0, <1>1, <1>2

(* A handler that fails: the pending reasons survive a retry and are       *)
(* dropped when the fault ends the step in the shadow.                     *)
LEMMA CoreFaultDInv ==
  ASSUME DInv, Trying, NEW reason, CoreFault(reason)
  PROVE  DInv'
<1> DEFINE final == IF cpu.shadow THEN [Consumed EXCEPT !.pss = FALSE, !.pend = FALSE]
                    ELSE Consumed
<1>1. /\ event' = "none" /\ Fault(Consumed, final, reason)
      /\ owed' = IF phase' = "ready" /\ cpu.shadow THEN {} ELSE owed
  BY DEF CoreFault
<1>2. Good(Consumed, owed) /\ Consumed \in Cpu /\ Consumed.shadow = FALSE
  BY ConsumedGood DEF Good
<1>3. phase' = "trying" => Good(Consumed, owed')
  BY <1>1, <1>2
<1>4. phase' = "ready" => Good(final, owed')
  <2>1. cpu.shadow \in BOOLEAN
    BY DEF DInv, ExTypeOK, Cpu
  <2>2. CASE cpu.shadow = FALSE
    BY <1>1, <1>2, <2>2
  <2>3. CASE cpu.shadow = TRUE
    <3>1. /\ final \in Cpu /\ final.frames = Consumed.frames
          /\ final.pss = FALSE /\ final.pend = FALSE /\ final.shadow = FALSE
      BY <1>2, <2>3 DEF Cpu
    <3> QED
      BY <1>1, <1>2, <2>3, <3>1 DEF Good, Reasons
  <2> QED
    BY <2>1, <2>2, <2>3
<1> HIDE DEF final
<1> QED
  BY <1>1, <1>3, <1>4, FaultDInv

(* The facts CompletedDInv needs of the state a handler leaves.            *)
Left(c) ==
    /\ c \in Cpu
    /\ Len(c.frames) <= MaxFrames
    /\ c.pend = cpu.pend
    /\ c.shadow = FALSE => c.pss = cpu.pss
    /\ c.shadow = TRUE => c.pss = (cpu.pss \/ cpu.tf) /\ c.tf = cpu.tf

(* The program counter that follows an instruction is an address.          *)
LEMMA NextRipType ==
  ASSUME DInv, Decoded
  PROVE  NextRip(cpu.rip) \in 0..Handler
<1>1. cpu.rip \in Int
  BY DEF DInv, ExTypeOK, Cpu, Handler
<1>2. NextRip(cpu.rip) \in 0..Length-1
  BY <1>1 DEF NextRip
<1> QED
  BY <1>2 DEF Handler

(* Each handler keeps the invariant.                                       *)
LEMMA CoreDInv == DInv /\ Core => DInv'
<1> SUFFICES ASSUME DInv, Core PROVE DInv'
  OBVIOUS
<1>1. Unbroken /\ Decoded /\ Trying
  BY DEF Core, CorePlain, CoreStore, CoreMovSs, CoreRep, CorePopf, CoreInt, CoreIret, CoreHlt,
         Executes, Unbroken, Decoded
<1>2. /\ Consumed \in Cpu /\ Consumed.shadow = FALSE
      /\ Consumed.tf = cpu.tf /\ Consumed.pss = cpu.pss /\ Consumed.pend = cpu.pend
      /\ Consumed.frames = cpu.frames /\ Len(Consumed.frames) <= MaxFrames
  BY ConsumedGood DEF Good
<1>3. /\ Advanced \in Cpu /\ Advanced.shadow = FALSE
      /\ Advanced.tf = cpu.tf /\ Advanced.pss = cpu.pss /\ Advanced.pend = cpu.pend
      /\ Advanced.frames = cpu.frames
  BY <1>1, <1>2, NextRipType DEF Advanced, Cpu
<1>4. Left(Consumed) /\ Left(Advanced)
  BY <1>2, <1>3 DEF Left
<1>5. ASSUME NEW c, NEW hits \in BOOLEAN, NEW rf \in BOOLEAN, Left(c), Completed(c, hits, rf)
      PROVE  DInv'
  BY <1>1, <1>5, CompletedDInv DEF Left
<1>6. watch \in BOOLEAN /\ cpu \in Cpu /\ cpu.tf \in BOOLEAN /\ cpu.pss \in BOOLEAN
  BY DEF DInv, ProgramOK, ExTypeOK, Cpu
<1>7. CASE CorePlain
  BY <1>4, <1>5, <1>7 DEF CorePlain
<1>8. CASE CoreStore
  BY <1>1, <1>4, <1>5, <1>6, <1>8, CoreFaultDInv DEF CoreStore
<1>9. CASE CoreMovSs
  <2> DEFINE c == [Advanced EXCEPT !.shadow = TRUE, !.pss = @ \/ cpu.tf]
  <2>1. Left(c)
    BY <1>2, <1>3, <1>6 DEF Left, Cpu
  <2> HIDE DEF c
  <2>2. CASE \E hits \in {FALSE, watch} : Completed(c, hits, FALSE)
    BY <1>5, <1>6, <2>1, <2>2
  <2> QED
    BY <1>1, <1>9, <2>2, CoreFaultDInv DEF CoreMovSs, c
<1>10. CASE CoreRep
  BY <1>1, <1>4, <1>5, <1>6, <1>10, CoreFaultDInv DEF CoreRep
<1>11. CASE CorePopf
  <2>1. ASSUME NEW tf \in BOOLEAN, Completed([Advanced EXCEPT !.tf = tf], FALSE, FALSE)
        PROVE  DInv'
    <3> DEFINE c == [Advanced EXCEPT !.tf = tf]
    <3>1. Left(c)
      BY <1>2, <1>3 DEF Left, Cpu
    <3> HIDE DEF c
    <3> QED
      BY <1>5, <2>1, <3>1 DEF c
  <2> QED
    BY <1>1, <1>11, <2>1, CoreFaultDInv DEF CorePopf
<1>12. CASE CoreInt
  <2>1. CASE Fits(Consumed)
    <3> DEFINE c == Entered(Consumed, NextRip(cpu.rip), FALSE)
    <3>1. Good(c, owed) /\ c.tf = FALSE /\ \A f \in {"shadow", "pss", "pend"} : c[f] = Consumed[f]
      BY <1>1, <2>1, ConsumedGood, NextRipType, EnteredGood
    <3> HIDE DEF c
    <3>2. Left(c)
      BY <1>2, <3>1 DEF Left, Good
    <3> QED
      BY <1>5, <1>12, <2>1, <3>2 DEF CoreInt, c
  <2> QED
    BY <1>1, <1>12, <2>1, CoreFaultDInv DEF CoreInt
<1>13. CASE CoreIret
  <2> DEFINE f == cpu.frames[Len(cpu.frames)]
             c == [Consumed EXCEPT !.frames = SubSeq(@, 1, Len(@) - 1),
                                   !.rip = f.rip, !.rf = f.rf, !.tf = f.tf]
  <2>1. CASE cpu.frames # <<>>
    <3>1. cpu.frames \in Seq(Frame) /\ Len(cpu.frames) \in Nat \ {0}
      BY <1>6, <2>1 DEF Cpu
    <3>2. f \in Frame
      BY <3>1
    <3>3. SubSeq(cpu.frames, 1, Len(cpu.frames) - 1) \in Seq(Frame)
          /\ Len(SubSeq(cpu.frames, 1, Len(cpu.frames) - 1)) = Len(cpu.frames) - 1
      BY <3>1
    <3>4. Left(c)
      <4> DEFINE rest == SubSeq(cpu.frames, 1, Len(cpu.frames) - 1)
      <4>1. c = [Consumed EXCEPT !.frames = rest, !.rip = f.rip, !.rf = f.rf, !.tf = f.tf]
        BY <1>2
      <4>2. rest \in Seq(Frame) /\ f.rip \in 0..Handler /\ f.rf \in BOOLEAN /\ f.tf \in BOOLEAN
        BY <3>2, <3>3 DEF Frame
      <4>3. Len(rest) <= MaxFrames
        BY <1>2, <3>1, <3>3
      <4> HIDE DEF c, f, rest
      <4>4. c \in Cpu /\ c.frames = rest /\ c.shadow = FALSE /\ c.pss = cpu.pss /\ c.pend = cpu.pend
        BY <1>2, <4>1, <4>2 DEF Cpu
      <4> QED
        BY <4>3, <4>4 DEF Left
    <3>5. Completed(c, FALSE, FALSE)
      BY <1>13, <2>1 DEF CoreIret
    <3> HIDE DEF c
    <3> QED
      BY <1>5, <3>4, <3>5
  <2> QED
    BY <1>1, <1>13, <2>1, CoreFaultDInv DEF CoreIret
<1>14. CASE CoreHlt
  BY <1>1, <1>14, CoreFaultDInv DEF CoreHlt
<1> QED
  BY <1>7, <1>8, <1>9, <1>10, <1>11, <1>12, <1>13, <1>14 DEF Core

(* The rest of a step: faults before the handler, execute breakpoints and  *)
(* hooks that take the instruction over change no pending reason.          *)
LEMMA AttemptDInv == DInv /\ Attempt => DInv'
<1> SUFFICES ASSUME DInv, Attempt PROVE DInv'
  OBVIOUS
<1>1. Good(cpu, owed) /\ cpu \in Cpu /\ start \in 0..Handler
  BY DEF Good, DInv, ExTypeOK, Accounted, ShadowSteps
<1>2. Good(Consumed, owed)
  BY ConsumedGood
<1>3. CASE EarlyFault
  BY <1>1, <1>3, FaultDInv DEF EarlyFault
<1>4. CASE InvalidOpcode
  <2> DEFINE c == [cpu EXCEPT !.rip = NextRip(cpu.rip)]
  <2>1. NextRip(cpu.rip) \in 0..Handler
    <3>1. cpu.rip \in Int
      BY <1>1 DEF Cpu, Handler
    <3> QED
      BY <3>1 DEF NextRip, Handler
  <2>2. Good(c, owed)
    BY <1>1, <2>1 DEF Good, Cpu
  <2> HIDE DEF c
  <2> QED
    BY <1>1, <1>4, <2>2, FaultDInv, FinishDInv DEF InvalidOpcode, c
<1>5. CASE ExecuteBreakpoint
  <2> DEFINE c == [Consumed EXCEPT !.dr6 = @ \cup {"exec"}]
  <2>1. Good(c, owed)
    BY <1>2 DEF Good, Cpu
  <2>2. UNCHANGED owed /\ Trying
    BY <1>5 DEF ExecuteBreakpoint, Decoded
  <2>3. \/ Fits(c) /\ event' = "execbp" /\ Finish(Entered(c, start, FALSE), "none", 0)
        \/ event' = "none" /\ Fault(c, c, "page_fault")
    BY <1>5 DEF ExecuteBreakpoint
  <2> HIDE DEF c
  <2>4. CASE Fits(c) /\ event' = "execbp" /\ Finish(Entered(c, start, FALSE), "none", 0)
    <3>1. Good(Entered(c, start, FALSE), owed')
      BY <1>1, <2>1, <2>2, <2>4, EnteredGood
    <3> QED
      BY <2>4, <3>1, FinishDInv
  <2>5. CASE event' = "none" /\ Fault(c, c, "page_fault")
    BY <2>1, <2>2, <2>5, FaultDInv
  <2> QED
    BY <2>3, <2>4, <2>5
<1>6. CASE HookHandled
  <2>1. PICK rip \in {cpu.rip, 0} : Finish([Consumed EXCEPT !.rip = TakenOver(rip)], "none", 1)
    BY <1>6 DEF HookHandled
  <2>2. TakenOver(rip) \in 0..Handler
    <3>1. rip \in 0..Handler /\ cpu.rip \in 0..Handler
      BY <1>1 DEF Cpu, Handler
    <3> QED
      BY <3>1 DEF TakenOver, NextRip, Handler
  <2> DEFINE c == [Consumed EXCEPT !.rip = TakenOver(rip)]
  <2>3. Good(c, owed)
    BY <1>2, <2>2 DEF Good, Cpu
  <2>4. event' = "taken" /\ owed' = owed /\ Finish(c, "none", 1)
    BY <1>6, <2>1 DEF HookHandled
  <2> HIDE DEF c
  <2> QED
    BY <2>3, <2>4, FinishDInv
<1>7. CASE HookStopped
  BY <1>2, <1>7, FaultDInv DEF HookStopped, Unbroken, Decoded
<1>8. CASE HookStoppedQuietly
  BY <1>2, <1>8, FinishDInv DEF HookStoppedQuietly
<1> QED
  BY <1>3, <1>4, <1>5, <1>6, <1>7, <1>8, CoreDInv DEF Attempt

(* Every step of the specification keeps the invariant.                    *)
LEMMA NextDInv == DInv /\ [Next]_vars => DInv'
<1> SUFFICES ASSUME DInv, [Next]_vars PROVE DInv'
  OBVIOUS
<1>1. CASE BeginStep
  BY <1>1 DEF BeginStep, DInv, ExTypeOK, ProgramOK, Accounted, ShadowSteps, NoViolation, Cpu, Handler
<1>2. CASE StepStopped
  BY <1>2 DEF StepStopped, stepVars, DInv, ExTypeOK, ProgramOK, Accounted, ShadowSteps,
              NoViolation, Handler
<1>3. CASE GiveUp
  <2>1. Good(cpu, owed)
    BY DEF Good, DInv, ExTypeOK, Accounted, ShadowSteps
  <2> QED
    BY <1>3, <2>1, FinishDInv DEF GiveUp
<1>4. CASE SetRf
  <2>1. cpu' \in Cpu /\ cpu'.frames = cpu.frames /\ cpu'.pss = cpu.pss /\ cpu'.pend = cpu.pend
        /\ cpu'.shadow = cpu.shadow /\ cpu'.tf = cpu.tf
    BY <1>4 DEF SetRf, DInv, ExTypeOK, Cpu
  <2> QED
    BY <1>4, <2>1 DEF SetRf, stepVars, DInv, ExTypeOK, ProgramOK, Accounted, ShadowSteps
<1>5. CASE RequestStop
  BY <1>5 DEF RequestStop, stepVars, DInv, ExTypeOK, ProgramOK, Accounted, ShadowSteps
<1>6. CASE UNCHANGED vars
  BY <1>6 DEF vars, DInv, ExTypeOK, ProgramOK, Accounted, ShadowSteps
<1> QED
  BY <1>1, <1>2, <1>3, <1>4, <1>5, <1>6, AttemptDInv DEF Next

(* Type correctness of the step for every program and every hook.          *)
THEOREM StepTypeCorrect == Spec => []ExTypeOK
<1>1. DInv => ExTypeOK
  BY DEF DInv
<1> QED
  BY <1>1, InitDInv, NextDInv, PTL DEF Spec

(* No debug exception is lost: between two steps of Executor::step every   *)
(* single step and data breakpoint that occurred is in DR6 or pending,     *)
(* however many attempts failed, and whatever the fault, trap and          *)
(* instruction hooks answered.                                             *)
THEOREM NoDebugReasonLost == Spec => []DebugReasonsAccounted
<1>1. DInv => DebugReasonsAccounted
  BY DEF DInv, Accounted, DebugReasonsAccounted
<1> QED
  BY <1>1, InitDInv, NextDInv, PTL DEF Spec

-----------------------------------------------------------------------------
(* What an attempt does to the step it belongs to: a hook has it repeated, *)
(* or it ends the step.                                                    *)
Again == UNCHANGED <<prog, watch, bps, phase, start, stop, res, viol, suppressed>>
Ends == \E c, reason, retired : Finish(c, reason, retired)

(* Every attempt is of one of the two kinds.                               *)
LEMMA AttemptAgainOrEnds ==
  ASSUME Attempt
  PROVE  phase = "trying" /\ (Again \/ Ends)
<1>1. ASSUME NEW c, NEW final, NEW reason, Fault(c, final, reason) PROVE Again \/ Ends
  BY <1>1 DEF Fault, Again, Ends
<1>2. ASSUME NEW c, NEW hits, NEW rf, Completed(c, hits, rf) PROVE Ends
  BY <1>2 DEF Completed, Ends
<1>3. ASSUME NEW reason, CoreFault(reason) PROVE Again \/ Ends
  BY <1>1, <1>3 DEF CoreFault
<1>4. ASSUME Core PROVE phase = "trying" /\ (Again \/ Ends)
  BY <1>2, <1>3, <1>4 DEF Core, CorePlain, CoreStore, CoreMovSs, CoreRep, CorePopf, CoreInt,
     CoreIret, CoreHlt, Executes, Unbroken, Decoded, Trying
<1>5. CASE EarlyFault
  BY <1>1, <1>5 DEF EarlyFault, Trying
<1>6. CASE InvalidOpcode
  BY <1>1, <1>6 DEF InvalidOpcode, Trying, Ends
<1>7. CASE ExecuteBreakpoint
  BY <1>1, <1>7 DEF ExecuteBreakpoint, Decoded, Trying, Ends
<1>8. CASE HookHandled
  BY <1>8 DEF HookHandled, Unbroken, Decoded, Trying, Ends
<1>9. CASE HookStopped
  BY <1>1, <1>9 DEF HookStopped, Unbroken, Decoded, Trying
<1>10. CASE HookStoppedQuietly
  BY <1>10 DEF HookStoppedQuietly, Unbroken, Decoded, Trying, Ends
<1> QED
  BY <1>4, <1>5, <1>6, <1>7, <1>8, <1>9, <1>10 DEF Attempt

(* The violation record is cleared when a step begins and written when it  *)
(* ends.                                                                   *)
VInv == ViolationIsLastStep /\ (phase = "trying" => viol = NoViolation)

(* The violation record of get_violation is that of the last step,         *)
(* whatever the hooks answered and however many attempts the step took.    *)
THEOREM ViolationRecordExact == Spec => []ViolationIsLastStep
<1>1. Init => VInv
  BY DEF Init, VInv, ViolationIsLastStep, NotAFault
<1>2. VInv /\ [Next]_vars => VInv'
  <2> SUFFICES ASSUME VInv, [Next]_vars PROVE VInv'
    OBVIOUS
  <2> USE DEF VInv, ViolationIsLastStep
  <2>1. ASSUME phase = "trying", NEW c, NEW reason, NEW retired, Finish(c, reason, retired)
        PROVE  VInv'
    BY <2>1 DEF Finish, stepVars
  <2>2. CASE Attempt
    BY <2>1, <2>2, AttemptAgainOrEnds DEF Again, Ends
  <2>3. CASE BeginStep \/ StepStopped
    BY <2>3 DEF BeginStep, StepStopped, stepVars, NotAFault
  <2>4. CASE GiveUp
    BY <2>1, <2>4 DEF GiveUp
  <2>5. CASE SetRf \/ RequestStop \/ UNCHANGED vars
    BY <2>5 DEF SetRf, RequestStop, stepVars, vars
  <2> QED
    BY <2>2, <2>3, <2>4, <2>5 DEF Next
<1> QED
  BY <1>1, <1>2, PTL DEF Spec, VInv

-----------------------------------------------------------------------------
(* Without retries a step is one attempt, so that RF and the shadow are    *)
(* those the step began with.  (A retry loses them: the run                *)
(* executor_rf_retry shows it.)                                            *)
FirstAttempt ==
    phase = "trying" =>
        cpu.rip = start /\ suppressed = (cpu.rf = TRUE \/ cpu.shadow = TRUE)
BInv == DInv /\ FirstAttempt /\ BreakpointsExact

(* When nobody has the instruction tried again, a fault ends the step.     *)
LEMMA FaultEnds ==
  ASSUME FaultVerdicts \subseteq {"stop"}, NEW c, NEW final, NEW reason,
         Fault(c, final, reason)
  PROVE  Finish(final, reason, 0)
  BY DEF Fault, RetryRips

(* A step that ends keeps the invariant if it does not report a breakpoint *)
(* that was suppressed and does not retire an instruction unannounced.     *)
LEMMA FinishBInv ==
  ASSUME BInv, DInv', NEW c, NEW reason, NEW retired, Finish(c, reason, retired),
         event' = "execbp" => ~suppressed,
         retired = 1 /\ start \in bps /\ KindAt(start) # "invalid" => suppressed
  PROVE  BInv'
  BY DEF BInv, FirstAttempt, BreakpointsExact, SuppressedStepNoBreakpoint,
         BreakpointAnnounced, Finish, stepVars, KindAt

(* An attempt that got past the breakpoint test had no breakpoint or had   *)
(* it suppressed.                                                          *)
LEMMA UnbrokenSuppressed ==
  ASSUME BInv, Unbroken, start \in bps
  PROVE  suppressed
  BY DEF BInv, FirstAttempt, Unbroken, Decoded, Trying, BreakpointHit, DInv, ExTypeOK, Cpu

(* Each attempt keeps the invariant.                                       *)
LEMMA AttemptBInv ==
  ASSUME BInv, FaultVerdicts \subseteq {"stop"}, Attempt
  PROVE  BInv'
<1>0. DInv' /\ phase = "trying"
  BY AttemptDInv, AttemptAgainOrEnds DEF BInv
<1>1. CASE Core
  <2>1. Unbroken
    BY <1>1 DEF Core, CorePlain, CoreStore, CoreMovSs, CoreRep, CorePopf, CoreInt, CoreIret,
                CoreHlt, Executes
  <2>2. ASSUME NEW c, NEW hits, NEW rf, Completed(c, hits, rf)
        PROVE  event' # "execbp" /\ Ends
    BY <2>2 DEF Completed, Ends
  <2>3. ASSUME NEW reason, CoreFault(reason) PROVE event' # "execbp" /\ Ends
    BY <2>3, FaultEnds DEF CoreFault, Ends
  <2>4. event' # "execbp" /\ Ends
    BY <1>1, <2>2, <2>3 DEF Core, CorePlain, CoreStore, CoreMovSs, CoreRep, CorePopf,
                            CoreInt, CoreIret, CoreHlt
  <2> QED
    BY <1>0, <2>1, <2>4, FinishBInv, UnbrokenSuppressed DEF Ends
<1>2. CASE EarlyFault
  BY <1>0, <1>2, FaultEnds, FinishBInv DEF EarlyFault
<1>3. CASE InvalidOpcode
  <2>1. KindAt(start) = "invalid"
    BY <1>0, <1>3 DEF InvalidOpcode, BInv, FirstAttempt
  <2> QED
    BY <1>0, <1>3, <2>1, FaultEnds, FinishBInv DEF InvalidOpcode
<1>4. CASE ExecuteBreakpoint
  <2>1. ~suppressed
    BY <1>0, <1>4 DEF ExecuteBreakpoint, BreakpointHit, BInv, FirstAttempt, DInv, ExTypeOK, Cpu
  <2> DEFINE c == [Consumed EXCEPT !.dr6 = @ \cup {"exec"}]
  <2>2. \/ event' = "execbp" /\ Finish(Entered(c, start, FALSE), "none", 0)
        \/ event' = "none" /\ Fault(c, c, "page_fault")
    BY <1>4 DEF ExecuteBreakpoint
  <2> HIDE DEF c
  <2>3. CASE event' = "none" /\ Fault(c, c, "page_fault")
    BY <1>0, <2>3, FaultEnds, FinishBInv
  <2>4. CASE event' = "execbp" /\ Finish(Entered(c, start, FALSE), "none", 0)
    <3> DEFINE e == Entered(c, start, FALSE)
    <3>1. Finish(e, "none", 0)
      BY <2>4, Zenon
    <3>2. 0 # 1
      OBVIOUS
    <3> HIDE DEF e
    <3> QED
      BY <1>0, <2>1, <3>1, <3>2, FinishBInv, Zenon
  <2> QED
    BY <2>2, <2>3, <2>4
<1>5. CASE HookHandled
  BY <1>0, <1>5, FinishBInv, UnbrokenSuppressed DEF HookHandled
<1>6. CASE HookStopped
  BY <1>0, <1>6, FaultEnds, FinishBInv DEF HookStopped
<1>7. CASE HookStoppedQuietly
  BY <1>0, <1>7, FinishBInv DEF HookStoppedQuietly
<1> QED
  BY <1>1, <1>2, <1>3, <1>4, <1>5, <1>6, <1>7 DEF Attempt

(* An execute breakpoint is reported before every execution of its         *)
(* instruction that RF or the shadow of an SS load does not exempt, and    *)
(* never in an exempt step, for every program and every answer of the trap *)
(* and instruction hooks, as long as no fault hook asks for a retry.       *)
THEOREM BreakpointsReportedOnce ==
  ASSUME FaultVerdicts \subseteq {"stop"}
  PROVE  Spec => []BreakpointsExact
<1> USE DEF BreakpointsExact, SuppressedStepNoBreakpoint, BreakpointAnnounced
<1>1. Init => BInv
  <2>1. Init => BreakpointsExact /\ FirstAttempt
    BY DEF Init, FirstAttempt
  <2> QED
    BY <2>1, InitDInv DEF BInv
<1>2. BInv /\ [Next]_vars => BInv'
  <2> SUFFICES ASSUME BInv, [Next]_vars PROVE BInv'
    OBVIOUS
  <2>0. DInv'
    BY NextDInv DEF BInv
  <2>1. CASE BeginStep
    BY <2>0, <2>1 DEF BeginStep, BInv, FirstAttempt, DInv, ExTypeOK, Cpu
  <2>2. CASE StepStopped
    BY <2>0, <2>2 DEF StepStopped, stepVars, BInv, FirstAttempt
  <2>3. CASE GiveUp
    BY <2>0, <2>3, FinishBInv DEF GiveUp
  <2>4. CASE SetRf
    BY <2>0, <2>4 DEF SetRf, stepVars, BInv, FirstAttempt, KindAt
  <2>5. CASE RequestStop \/ UNCHANGED vars
    BY <2>0, <2>5 DEF RequestStop, stepVars, vars, BInv, FirstAttempt, KindAt
  <2> QED
    BY <2>1, <2>2, <2>3, <2>4, <2>5, AttemptBInv DEF Next
<1>3. BInv => BreakpointsExact
  BY DEF BInv
<1> QED
  BY <1>1, <1>2, <1>3, PTL DEF Spec

-----------------------------------------------------------------------------
(* With no hooks at all, what is pending is pending in the shadow, inside  *)
(* a step too.                                                             *)
Quiet(c) == c.pss = TRUE \/ c.pend = TRUE => c.shadow = TRUE
PInv == DInv /\ Quiet(cpu)
NoHooks ==
    /\ FaultVerdicts \subseteq {"stop"}
    /\ TrapVerdicts = {"continue"}
    /\ HookVerdicts = {"continue"}

(* A handler that ran: a report empties what is pending, a shadow keeps it.*)
LEMMA CompletedQuiet ==
  ASSUME DInv, NEW c \in Cpu, NEW hits \in BOOLEAN, NEW rf \in BOOLEAN, Completed(c, hits, rf)
  PROVE  Quiet(cpu')
<1> DEFINE data == c.pend \/ hits
           tfHit == c.pss \/ (~cpu.shadow /\ cpu.tf)
           shown == Reasons(tfHit, data)
           db == [c EXCEPT !.dr6 = @ \cup shown, !.pss = FALSE, !.pend = FALSE]
<1>0. /\ c.pss \in BOOLEAN /\ c.pend \in BOOLEAN /\ c.shadow \in BOOLEAN
      /\ cpu.shadow \in BOOLEAN /\ cpu.tf \in BOOLEAN
  BY DEF DInv, ExTypeOK, Cpu
<1>1. CASE c.shadow = TRUE
  <2>1. cpu' = [c EXCEPT !.pend = data]
    BY <1>1 DEF Completed, Finish
  <2> QED
    BY <1>1, <2>1 DEF Quiet, Cpu
<1>2. CASE c.shadow = FALSE
  <2>1. \/ shown = {} /\ cpu' = c
        \/ cpu' = Entered(db, db.rip, rf)
        \/ cpu' = db
    BY <1>2 DEF Completed, Finish
  <2>2. CASE shown = {} /\ cpu' = c
    <3>1. "bs" \notin shown /\ "data" \notin shown
      BY <2>2
    <3>2. c.pss = FALSE /\ c.pend = FALSE
      BY <1>0, <3>1 DEF Reasons
    <3> QED
      BY <2>2, <3>2 DEF Quiet
  <2>3. db \in Cpu /\ db.pss = FALSE /\ db.pend = FALSE
    BY DEF Cpu, Reasons
  <2> HIDE DEF db
  <2>4. Entered(db, db.rip, rf).pss = FALSE /\ Entered(db, db.rip, rf).pend = FALSE
    BY <2>3 DEF Entered, Cpu
  <2> QED
    BY <2>1, <2>2, <2>3, <2>4 DEF Quiet
<1> QED
  BY <1>0, <1>1, <1>2

(* A handler that failed: in the shadow the fault drops what is pending.   *)
LEMMA CoreFaultQuiet ==
  ASSUME PInv, NoHooks, NEW reason, CoreFault(reason)
  PROVE  Quiet(cpu')
<1> DEFINE final == IF cpu.shadow THEN [Consumed EXCEPT !.pss = FALSE, !.pend = FALSE]
                    ELSE Consumed
<1>1. cpu' = final
  BY FaultEnds DEF CoreFault, Finish, NoHooks
<1>2. cpu \in Cpu /\ cpu.shadow \in BOOLEAN /\ Consumed \in Cpu
      /\ Consumed.pss = cpu.pss /\ Consumed.pend = cpu.pend
  BY ConsumedGood DEF PInv, DInv, ExTypeOK, Cpu, Good
<1>3. CASE cpu.shadow = TRUE
  BY <1>1, <1>2, <1>3 DEF Quiet, Cpu
<1>4. CASE cpu.shadow = FALSE
  BY <1>1, <1>2, <1>4 DEF Quiet, PInv
<1> QED
  BY <1>2, <1>3, <1>4

(* Each handler leaves a CPU state of its type.                            *)
LEMMA CoreQuiet ==
  ASSUME PInv, NoHooks, Core
  PROVE  Quiet(cpu')
<1>0. DInv /\ Decoded /\ watch \in BOOLEAN /\ cpu \in Cpu
  BY DEF PInv, DInv, ProgramOK, ExTypeOK, Core, CorePlain, CoreStore, CoreMovSs, CoreRep,
         CorePopf, CoreInt, CoreIret, CoreHlt, Executes, Unbroken
<1>1. Consumed \in Cpu /\ Consumed.frames = cpu.frames /\ Good(Consumed, owed)
  BY <1>0, ConsumedGood DEF Good
<1>2. Advanced \in Cpu
  BY <1>0, <1>1, NextRipType DEF Advanced, Cpu
<1>3. \A tf \in BOOLEAN : [Advanced EXCEPT !.tf = tf] \in Cpu
  BY <1>2 DEF Cpu
<1>4. [Advanced EXCEPT !.shadow = TRUE, !.pss = @ \/ cpu.tf] \in Cpu
  BY <1>2 DEF Cpu
<1>5. CASE CorePlain \/ CoreStore \/ CoreRep \/ CorePopf \/ CoreHlt
  BY <1>0, <1>1, <1>2, <1>3, <1>5, CompletedQuiet, CoreFaultQuiet
     DEF CorePlain, CoreStore, CoreRep, CorePopf, CoreHlt
<1>6. CASE CoreMovSs
  <2> DEFINE c == [Advanced EXCEPT !.shadow = TRUE, !.pss = @ \/ cpu.tf]
  <2>1. c \in Cpu
    BY <1>4
  <2>2. \/ \E hits \in {FALSE, watch} : Completed(c, hits, FALSE)
        \/ CoreFault("page_fault")
    BY <1>6 DEF CoreMovSs
  <2> HIDE DEF c
  <2> QED
    BY <1>0, <2>1, <2>2, CompletedQuiet, CoreFaultQuiet
<1>7. CASE CoreInt
  <2>1. CASE Fits(Consumed)
    <3>1. Entered(Consumed, NextRip(cpu.rip), FALSE) \in Cpu
      BY <1>0, <1>1, <2>1, NextRipType, EnteredGood DEF Good
    <3> QED
      BY <1>0, <1>7, <2>1, <3>1, CompletedQuiet DEF CoreInt
  <2> QED
    BY <1>7, <2>1, CoreFaultQuiet DEF CoreInt
<1>8. CASE CoreIret
  <2> DEFINE f == cpu.frames[Len(cpu.frames)]
             rest == SubSeq(cpu.frames, 1, Len(cpu.frames) - 1)
             c == [Consumed EXCEPT !.frames = SubSeq(@, 1, Len(@) - 1),
                                   !.rip = f.rip, !.rf = f.rf, !.tf = f.tf]
  <2>1. CASE cpu.frames # <<>>
    <3>1. cpu.frames \in Seq(Frame) /\ Len(cpu.frames) \in Nat \ {0}
      BY <1>0, <2>1 DEF Cpu
    <3>2. f \in Frame /\ rest \in Seq(Frame)
      BY <3>1
    <3>3. f.rip \in 0..Handler /\ f.rf \in BOOLEAN /\ f.tf \in BOOLEAN
      BY <3>2 DEF Frame
    <3>4. c = [Consumed EXCEPT !.frames = rest, !.rip = f.rip, !.rf = f.rf, !.tf = f.tf]
      BY <1>1
    <3>5. Completed(c, FALSE, FALSE)
      BY <1>8, <2>1 DEF CoreIret
    <3> HIDE DEF c, f, rest
    <3>6. c \in Cpu
      BY <1>1, <3>2, <3>3, <3>4 DEF Cpu
    <3> QED
      BY <1>0, <3>5, <3>6, CompletedQuiet
  <2> QED
    BY <1>8, <2>1, CoreFaultQuiet DEF CoreIret
<1> QED
  BY <1>5, <1>6, <1>7, <1>8 DEF Core

(* With no hooks installed, a single step or data breakpoint that an SS    *)
(* load deferred is reported or dropped by the very next instruction that  *)
(* ends, so that no later instruction is blamed for it.                    *)
THEOREM NothingPendingOutsideShadow ==
  ASSUME NoHooks
  PROVE  Spec => []PendingOnlyInShadow
<1>1. Init => PInv
  <2>1. Init => Quiet(cpu)
    BY DEF Init, Quiet
  <2> QED
    BY <2>1, InitDInv DEF PInv
<1>2. PInv /\ [Next]_vars => PInv'
  <2> SUFFICES ASSUME PInv, [Next]_vars PROVE Quiet(cpu')
    BY NextDInv DEF PInv, Quiet
  <2>0. cpu \in Cpu /\ Quiet(cpu)
    BY DEF PInv, DInv, ExTypeOK
  <2>1. CASE EarlyFault \/ InvalidOpcode
    <3>1. cpu' = cpu
      BY <2>1, FaultEnds DEF EarlyFault, InvalidOpcode, Finish, NoHooks
    <3> QED
      BY <2>0, <3>1
  <2>2. CASE ExecuteBreakpoint
    <3> DEFINE c == [Consumed EXCEPT !.dr6 = @ \cup {"exec"}]
    <3>1. cpu.pss = FALSE /\ cpu.pend = FALSE
      BY <2>0, <2>2 DEF ExecuteBreakpoint, BreakpointHit, Quiet, Cpu
    <3>2. c \in Cpu /\ c.pss = FALSE /\ c.pend = FALSE
      BY <2>0, <3>1 DEF Consumed, Cpu
    <3>3. \/ Finish(Entered(c, start, FALSE), "none", 0)
          \/ Fault(c, c, "page_fault")
      BY <2>2 DEF ExecuteBreakpoint
    <3> HIDE DEF c
    <3>4. cpu' = Entered(c, start, FALSE) \/ cpu' = c
      BY <3>3, FaultEnds DEF Finish, NoHooks
    <3> QED
      BY <3>2, <3>4 DEF Entered, Cpu, Quiet
  <2>3. CASE HookHandled \/ HookStopped \/ HookStoppedQuietly
    BY <2>3 DEF HookHandled, HookStopped, HookStoppedQuietly, NoHooks
  <2>4. CASE Core
    BY <2>4, CoreQuiet
  <2>5. CASE SetRf
    BY <2>0, <2>5 DEF SetRf, Quiet, Cpu
  <2>6. CASE BeginStep \/ StepStopped \/ GiveUp \/ RequestStop \/ UNCHANGED vars
    BY <2>0, <2>6 DEF BeginStep, StepStopped, GiveUp, Finish, RequestStop, vars
  <2> QED
    BY <2>1, <2>2, <2>3, <2>4, <2>5, <2>6 DEF Next, Attempt
<1>3. PInv => PendingOnlyInShadow
  BY DEF PInv, Quiet, PendingOnlyInShadow, DInv, ExTypeOK, Cpu
<1> QED
  BY <1>1, <1>2, <1>3, PTL DEF Spec
=============================================================================
