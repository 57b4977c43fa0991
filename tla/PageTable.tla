----------------------------- MODULE PageTable ------------------------------
(***************************************************************************)
(* What class Memory promises its users: a page table and a code epoch.    *)
(* No TLB, no objects, no access paths; a page is absent or has bytes and  *)
(* permissions, a write stores a prefix of its pages (all of them, unless  *)
(* a page is missing or protected), a restore brings back a captured       *)
(* table, and the epoch says when previously fetched code may have changed.*)
(* Module Memory is shown to implement this one; DecodeCache is built on   *)
(* it.                                                                     *)
(***************************************************************************)
EXTENDS Integers

CONSTANTS
    PageCount, PageSize,   \* the address space
    Byte, Zero,            \* byte values and the fill of a fresh page
    Absent,                \* a page that is not mapped
    PermSets,              \* permission masks callers use
    MapRanges, Accesses,   \* <<base, size>> and <<address, size>> arguments
    MaxEpoch               \* bound on the code epoch

VARIABLES table, captured, epoch

ptVars == <<table, captured, epoch>>

AddrCount == PageCount * PageSize
PageNumbers == 0..PageCount-1
Fresh(perm) == [data |-> [o \in 0..PageSize-1 |-> Zero], perm |-> perm]

PTInit ==
    /\ table = [p \in PageNumbers |-> Absent]
    /\ captured = Absent
    /\ epoch = 1

BumpEpoch == epoch < MaxEpoch /\ epoch' = epoch + 1

Range(base, size) ==
    (base \div PageSize)..((((base + size + PageSize - 1) % AddrCount) \div PageSize) - 1)

PTMap(base, size, perm) ==
    /\ BumpEpoch
    /\ table' = [p \in PageNumbers |->
          IF p \notin Range(base, size) THEN table[p]
          ELSE IF table[p] = Absent THEN Fresh(perm) ELSE [table[p] EXCEPT !.perm = perm]]
    /\ UNCHANGED captured

PTUnmap(base, size) ==
    /\ BumpEpoch
    /\ table' = [p \in PageNumbers |-> IF p \in Range(base, size) THEN Absent ELSE table[p]]
    /\ UNCHANGED captured

PTReprotect(base, size, perm) ==
    /\ BumpEpoch
    /\ table' = [p \in PageNumbers |->
          IF p \in Range(base, size) /\ table[p] # Absent
          THEN [table[p] EXCEPT !.perm = perm] ELSE table[p]]
    /\ UNCHANGED captured

(* The page number k of an access, and how many pages it takes.            *)
PTPage(addr, k) == ((addr \div PageSize) + k) % PageCount
PTSteps(addr, size) == 0..(((addr % PageSize) + size + PageSize - 1) \div PageSize)-1

Writable(p, checked) ==
    table[p] # Absent /\ (checked => "write" \in table[p].perm)

(* The pages a write reaches: those before the first unwritable one.       *)
Reached(addr, size, checked) ==
    {PTPage(addr, k) : k \in {i \in PTSteps(addr, size) :
                                \A j \in 0..i : Writable(PTPage(addr, j), checked)}}
Complete(addr, size, checked) ==
    \A k \in PTSteps(addr, size) : Writable(PTPage(addr, k), checked)

Executable(p) == table[p] # Absent /\ "execute" \in table[p].perm

(* The epoch moves when a write that reached all its pages touched an      *)
(* executable one; a write cut short returns before it is moved.           *)
PTWrite(addr, size, src, checked) ==
    LET at(p, off) == (p * PageSize + off - addr) % AddrCount
        reached == Reached(addr, size, checked)
    IN /\ table' = [p \in PageNumbers |->
             IF p \notin reached THEN table[p]
             ELSE [table[p] EXCEPT !.data = [off \in 0..PageSize-1 |->
                     IF at(p, off) < size THEN src[at(p, off)] ELSE table[p].data[off]]]]
       /\ IF Complete(addr, size, checked) /\ \E p \in reached : Executable(p)
          THEN BumpEpoch ELSE UNCHANGED epoch
       /\ UNCHANGED captured

PTCapture == captured' = table /\ UNCHANGED <<table, epoch>>

PTRestore ==
    /\ captured # Absent
    /\ BumpEpoch
    /\ table' = captured
    /\ UNCHANGED captured

(* The memory object is replaced by a fresh one before the restore.        *)
PTDeserialize ==
    /\ captured # Absent
    /\ epoch' = 2
    /\ table' = captured
    /\ UNCHANGED captured

PTMapping ==
    \E r \in MapRanges :
        \/ \E perm \in PermSets : PTMap(r[1], r[2], perm) \/ PTReprotect(r[1], r[2], perm)
        \/ PTUnmap(r[1], r[2])

PTNext ==
    \/ PTMapping
    \/ \E a \in Accesses : \E src \in [0..a[2]-1 -> Byte], checked \in BOOLEAN :
          PTWrite(a[1], a[2], src, checked)
    \/ PTCapture
    \/ PTRestore
    \/ PTDeserialize

PTSpec == PTInit /\ [][PTNext]_ptVars
=============================================================================
