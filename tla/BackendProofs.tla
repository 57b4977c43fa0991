---------------------------- MODULE BackendProofs ---------------------------
(* The MMIO regions of Memory and the devices and hook handles of the      *)
(* Sogen backend, for any address space, any ranges and any number of      *)
(* devices, regions, hooks, snapshots and restarts.                        *)
EXTENDS Backend, OperatorProofs

-----------------------------------------------------------------------------
(* Choosing the lowest index.                                              *)
LEMMA LowestExact ==
    ASSUME NEW S \in SUBSET Nat, S # {}
    PROVE  Lowest(S) \in S /\ \A j \in S : Lowest(S) <= j
BY SmallestNat DEF Lowest

(* Inserting a region keeps the others and, with a new id, ids distinct.   *)
LEMMA InsertExact ==
    ASSUME NEW S, NEW s \in Seq(S), NEW r \in S
    PROVE  /\ Insert(s, r) \in Seq(S)
           /\ Elements(Insert(s, r)) = Elements(s) \cup {r}
           /\ DistinctIds(s) /\ (\A y \in Elements(s) : y.id # r.id) => DistinctIds(Insert(s, r))
<1> DEFINE m == Len(s)
           after == {i \in DOMAIN s : ByBaseThenId(r, s[i])}
           at == IF after = {} THEN m + 1 ELSE Lowest(after)
           t == [i \in 1..m+1 |-> IF i < at THEN s[i] ELSE IF i = at THEN r ELSE s[i-1]]
<1>1. Insert(s, r) = t
  BY DEF Insert
<1>2. m \in Nat /\ DOMAIN s = 1..m /\ \A i \in 1..m : s[i] \in S
  OBVIOUS
<1>3. at \in 1..m+1
  <2>1. after \subseteq 1..m /\ after \subseteq Nat
    BY <1>2
  <2> HIDE DEF after
  <2>2. CASE after = {}
    BY <1>2, <2>2
  <2>3. CASE after # {}
    <3>1. Lowest(after) \in 1..m
      BY <2>1, <2>3, LowestExact
    <3> QED
      BY <1>2, <2>3, <3>1
  <2> QED
    BY <2>2, <2>3
<1> HIDE DEF at
<1>4. Len(s) = m
  OBVIOUS
<1> HIDE DEF m
<1>5. \A i \in 1..m+1 : t[i] = IF i < at THEN s[i] ELSE IF i = at THEN r ELSE s[i-1]
  OBVIOUS
<1>6. t \in Seq(S) /\ Len(t) = m + 1
  <2>1. \A i \in 1..m+1 : t[i] \in S
    BY <1>2, <1>3, <1>5
  <2>2. m + 1 \in Nat /\ t = [i \in 1..m+1 |-> t[i]]
    BY <1>2
  <2> HIDE DEF t
  <2> QED
    BY <2>1, <2>2
<1> HIDE DEF t
(* Where the region at each place of t comes from, and where it goes.      *)
<1> DEFINE from(i) == IF i < at THEN i ELSE i - 1
           to(i) == IF i < at THEN i ELSE i + 1
<1>7. \A i \in 1..m+1 : i # at => from(i) \in 1..m /\ t[i] = s[from(i)]
  BY <1>2, <1>3, <1>5
<1>8. t[at] = r
  BY <1>2, <1>3, <1>5
<1>9. \A i \in 1..m : to(i) \in 1..m+1 /\ t[to(i)] = s[i]
  BY <1>2, <1>3, <1>5
<1>10. Elements(t) = Elements(s) \cup {r}
  <2>1. Elements(t) \subseteq Elements(s) \cup {r}
    <3> SUFFICES ASSUME NEW i \in 1..m+1 PROVE t[i] \in Elements(s) \cup {r}
      BY <1>6 DEF Elements
    <3> HIDE DEF from
    <3> QED
      BY <1>4, <1>7, <1>8 DEF Elements
  <2>2. Elements(s) \subseteq Elements(t)
    <3> SUFFICES ASSUME NEW i \in 1..m PROVE s[i] \in Elements(t)
      BY <1>4 DEF Elements
    <3> HIDE DEF to
    <3> QED
      BY <1>6, <1>9 DEF Elements
  <2>3. r \in Elements(t)
    BY <1>3, <1>6, <1>8 DEF Elements
  <2> QED
    BY <2>1, <2>2, <2>3
<1>11. ASSUME DistinctIds(s), \A y \in Elements(s) : y.id # r.id PROVE DistinctIds(t)
  <2> SUFFICES ASSUME NEW i \in 1..m+1, NEW j \in 1..m+1, t[i].id = t[j].id PROVE i = j
    BY <1>6 DEF DistinctIds
  <2>1. \A k \in 1..m : s[k].id # r.id
    BY <1>4, <1>11 DEF Elements
  <2>2. CASE i # at /\ j # at
    <3>1. from(i) = from(j)
      <4>1. from(i) \in 1..m /\ from(j) \in 1..m /\ s[from(i)].id = s[from(j)].id
        BY <1>7, <2>2
      <4> HIDE DEF from
      <4> QED
        BY <1>4, <1>11, <4>1 DEF DistinctIds
    <3> QED
      BY <1>2, <1>3, <2>2, <3>1
  <2>3. CASE i = at /\ j # at
    <3> HIDE DEF from
    <3> QED
      BY <1>7, <1>8, <2>1, <2>3
  <2>4. CASE i # at /\ j = at
    <3> HIDE DEF from
    <3> QED
      BY <1>7, <1>8, <2>1, <2>4
  <2> QED
    BY <2>2, <2>3, <2>4
<1> QED
  BY <1>1, <1>6, <1>10, <1>11

(* The recursion of SortedRegions, for a function sorted.                  *)
Sorts(sorted, list) ==
    sorted = [n \in 0..Len(list) |-> IF n = 0 THEN <<>> ELSE Insert(sorted[n-1], list[n])]

LEMMA SortsUnfold ==
    ASSUME NEW f, NEW list, NEW m \in Nat, m = Len(list), Sorts(f, list)
    PROVE  f[0] = <<>> /\ \A n \in 1..m : f[n] = Insert(f[n-1], list[n])
<1> DEFINE g == [n \in 0..m |-> IF n = 0 THEN <<>> ELSE Insert(f[n-1], list[n])]
<1>1. f = g
  BY Zenon DEF Sorts
<1>2. g[0] = <<>> /\ \A n \in 1..m : g[n] = Insert(f[n-1], list[n])
  OBVIOUS
<1> HIDE DEF g
<1> QED
  BY <1>1, <1>2

LEMMA SortsExists ==
    ASSUME NEW S
    PROVE  \A s \in Seq(S) : \E sorted : Sorts(sorted, s)
<1> DEFINE A == {s \in Seq(S) : \E sorted : Sorts(sorted, s)}
<1>1. <<>> \in A
  <2> DEFINE k == [n \in 0..0 |-> <<>>]
  <2>1. Sorts(k, <<>>)
    BY DEF Sorts
  <2>2. <<>> \in Seq(S)
    OBVIOUS
  <2> QED
    BY <2>1, <2>2
<1>2. ASSUME NEW s \in Seq(S), NEW x \in S, s \in A PROVE Append(s, x) \in A
  <2>1. PICK f : Sorts(f, s)
    BY <1>2
  <2> DEFINE t == Append(s, x)
             m == Len(s)
             k == [n \in 0..m+1 |-> IF n <= m THEN f[n] ELSE Insert(f[m], x)]
  <2>2. t \in Seq(S) /\ Len(t) = m + 1 /\ m \in Nat /\ t[m + 1] = x /\ \A i \in 1..m : t[i] = s[i]
    OBVIOUS
  <2>3. f[0] = <<>> /\ \A n \in 1..m : f[n] = Insert(f[n-1], s[n])
    BY <2>1, <2>2, SortsUnfold
  <2> HIDE DEF t, m
  <2>4. ASSUME NEW n \in 0..m+1
        PROVE  k[n] = IF n = 0 THEN <<>> ELSE Insert(k[n-1], t[n])
    <3>1. CASE n = 0
      BY <2>2, <2>3, <3>1
    <3>2. CASE n \in 1..m
      <4>1. k[n] = f[n] /\ k[n-1] = f[n-1] /\ t[n] = s[n] /\ n # 0
        BY <2>2, <3>2
      <4> QED
        BY <2>3, <3>2, <4>1
    <3>3. CASE n = m + 1
      <4>1. k[n-1] = f[m] /\ t[n] = x /\ n # 0
        BY <2>2, <3>3
      <4>2. k[n] = Insert(f[m], x)
        BY <2>2, <3>3
      <4> QED
        BY <4>1, <4>2
    <3> QED
      BY <2>2, <3>1, <3>2, <3>3
  <2>5. Sorts(k, t)
    <3>1. k = [n \in 0..m+1 |-> k[n]]
      OBVIOUS
    <3> HIDE DEF k
    <3> QED
      BY <2>2, <2>4, <3>1 DEF Sorts
  <2> QED
    BY <2>2, <2>5 DEF t
<1>3. Seq(S) \subseteq A
  <2> HIDE DEF A
  <2> QED
    BY <1>1, <1>2, SeqsByInduction
<1> QED
  BY <1>3

(* Sorting loses, invents and duplicates no region.                        *)
LEMMA SortedExact ==
    ASSUME NEW S, NEW s \in Seq(S)
    PROVE  /\ SortedRegions(s) \in Seq(S)
           /\ Elements(SortedRegions(s)) = Elements(s)
           /\ DistinctIds(s) => DistinctIds(SortedRegions(s))
<1> DEFINE f == CHOOSE k : Sorts(k, s)
           m == Len(s)
<1>1. Sorts(f, s)
  BY SortsExists
<1>2. SortedRegions(s) = f[m]
  BY DEF SortedRegions, Sorts
<1>3. m \in Nat /\ m = Len(s) /\ \A i \in 1..m : s[i] \in S
  OBVIOUS
<1> HIDE DEF f, m
<1>4. f[0] = <<>> /\ \A n \in 1..m : f[n] = Insert(f[n-1], s[n])
  BY <1>1, <1>3, SortsUnfold
<1> DEFINE seen(n) == {s[i] : i \in 1..n}
           A == {n \in Nat : n <= m => /\ f[n] \in Seq(S)
                                       /\ Elements(f[n]) = seen(n)
                                       /\ DistinctIds(s) => DistinctIds(f[n])}
<1>5. 0 \in A
  <2>1. <<>> \in Seq(S) /\ Elements(<<>>) = {} /\ DistinctIds(<<>>)
    BY DEF Elements, DistinctIds
  <2>2. seen(0) = {}
    OBVIOUS
  <2> QED
    BY <1>4, <2>1, <2>2
<1>6. ASSUME NEW n \in Nat, n \in A PROVE n + 1 \in A
  <2> SUFFICES ASSUME n + 1 <= m
               PROVE  /\ f[n+1] \in Seq(S)
                      /\ Elements(f[n+1]) = seen(n+1)
                      /\ DistinctIds(s) => DistinctIds(f[n+1])
    OBVIOUS
  <2>1. n + 1 \in 1..m /\ (n + 1) - 1 = n /\ n <= m
    BY <1>3
  <2>2. f[n] \in Seq(S) /\ Elements(f[n]) = seen(n) /\ (DistinctIds(s) => DistinctIds(f[n]))
    BY <1>6, <2>1
  <2>3. f[n+1] = Insert(f[n], s[n+1]) /\ s[n+1] \in S
    BY <1>3, <1>4, <2>1
  <2>4. seen(n+1) = seen(n) \cup {s[n+1]}
    <3>1. \A i : i \in 1..(n+1) <=> i \in 1..n \/ i = n + 1
      OBVIOUS
    <3> QED
      BY <3>1
  <2>5. ASSUME DistinctIds(s) PROVE \A y \in seen(n) : y.id # s[n+1].id
    <3> SUFFICES ASSUME NEW i \in 1..n PROVE s[i].id # s[n+1].id
      OBVIOUS
    <3>1. i \in 1..m /\ i # n + 1
      BY <2>1, <1>3
    <3> QED
      BY <1>3, <2>1, <2>5, <3>1 DEF DistinctIds
  <2> HIDE DEF seen
  <2> DEFINE g == f[n]
             r == s[n+1]
  <2>6. g \in Seq(S) /\ r \in S
    BY <2>2, <2>3
  <2>7. /\ Insert(g, r) \in Seq(S)
        /\ Elements(Insert(g, r)) = Elements(g) \cup {r}
        /\ DistinctIds(g) /\ (\A y \in Elements(g) : y.id # r.id) => DistinctIds(Insert(g, r))
    <3> HIDE DEF g, r
    <3> QED
      BY <2>6, InsertExact
  <2> QED
    BY <2>2, <2>3, <2>4, <2>5, <2>7
<1>7. Nat \subseteq A
  <2> HIDE DEF A
  <2> QED
    BY <1>5, <1>6, NatsByInduction
<1>8. m \in A
  <2> HIDE DEF A
  <2> QED
    BY <1>3, <1>7
<1>9. seen(m) = Elements(s)
  BY <1>3 DEF Elements
<1> HIDE DEF seen
<1> QED
  BY <1>2, <1>3, <1>8, <1>9

-----------------------------------------------------------------------------
(* The regions: ids are distinct, in the list and in the buffer that may   *)
(* outlive it, next_hook_id_ is past those in the list, and the cached     *)
(* bound covers every region.                                              *)
RegionsInv ==
    /\ mmio \in Seq(Region) /\ mmioSaved \in Seq(Region)
    /\ nextId \in Nat \ {0} /\ mmioMin \in Addr /\ mmioMax \in Addr
    /\ DistinctIds(mmio) /\ DistinctIds(mmioSaved)
    /\ \A r \in Elements(mmio) : r.id < nextId /\ mmioMin <= r.base /\ End(r) <= mmioMax

LEMMA EmptyList == /\ \A S : <<>> \in Seq(S)
                   /\ Elements(<<>>) = {} /\ DistinctIds(<<>>)
BY DEF Elements, DistinctIds

LEMMA ElementsTyped ==
    ASSUME NEW S, NEW s \in Seq(S)
    PROVE  Elements(s) \subseteq S /\ DOMAIN s = 1..Len(s) /\ \A i \in 1..Len(s) : s[i] \in S
BY DEF Elements

LEMMA RegionFields ==
    ASSUME NEW r \in Region PROVE r.id \in Nat /\ r.base \in Addr /\ r.size \in Addr
BY DEF Region

LEMMA AddrFacts == /\ 0 \in Addr /\ AddrSpace - 1 \in Addr
                   /\ \A a \in Nat : Wrap(a) \in Addr
                   /\ \A a \in Addr : a \in Nat /\ a \in Int
BY AddrSpaceAssumption DEF Addr, Wrap

LEMMA EndTyped == \A r \in Region : End(r) \in Addr
<1> TAKE r \in Region
<1>1. r.base + r.size \in Nat
  BY AddrSpaceAssumption DEF Region, Addr
<1> QED
  BY <1>1, AddrFacts DEF End

LEMMA Widened ==
    ASSUME NEW a \in Addr, NEW b \in Addr
    PROVE  /\ Lesser(a, b) \in Addr /\ Lesser(a, b) <= a /\ Lesser(a, b) <= b
           /\ Greater(a, b) \in Addr /\ a <= Greater(a, b) /\ b <= Greater(a, b)
BY AddrFacts DEF Lesser, Greater

(* A non-empty set of addresses has a largest one and a smallest one.      *)
LEMMA AddrExtremes ==
    ASSUME NEW S \in SUBSET Addr, S # {}
    PROVE  (\E a \in S : \A b \in S : a <= b) /\ (\E a \in S : \A b \in S : b <= a)
<1>1. AddrSpace \in Nat /\ S \in SUBSET (0..AddrSpace-1) /\ S \in SUBSET Nat
  BY AddrSpaceAssumption DEF Addr
<1>2. \E a \in S : \A b \in S : a <= b
  BY <1>1, SmallestNat
<1>3. \E a \in S : \A b \in S : b <= a
  BY <1>1, LargestStep
<1> QED
  BY <1>2, <1>3

(* The bound unmap_mmio and restore_mmio_regions compute covers the list.  *)
LEMMA BoundsCover ==
    ASSUME NEW s \in Seq(Region)
    PROVE  /\ MinOf(s) \in Addr /\ MaxOf(s) \in Addr
           /\ \A r \in Elements(s) : MinOf(s) <= r.base /\ End(r) <= MaxOf(s)
<1>1. DOMAIN s = 1..Len(s) /\ Len(s) \in Nat /\ \A i \in 1..Len(s) : s[i] \in Region
  OBVIOUS
<1>2. CASE s = <<>>
  BY <1>2, AddrFacts, EmptyList DEF MinOf, MaxOf
<1>3. CASE s # <<>>
  <2> DEFINE bases == {s[i].base : i \in DOMAIN s}
             ends == {End(s[i]) : i \in DOMAIN s}
  <2>1. 1 \in DOMAIN s
    BY <1>1, <1>3
  <2>2. bases \subseteq Addr /\ bases # {}
    BY <1>1, <2>1 DEF Region
  <2>3. ends \subseteq Addr /\ ends # {}
    BY <1>1, <2>1, EndTyped
  <2>4. \E m \in bases : \A i \in DOMAIN s : m <= s[i].base
    <3>1. \A i \in DOMAIN s : s[i].base \in bases
      OBVIOUS
    <3>2. \E m \in bases : \A b \in bases : m <= b
      <4> HIDE DEF bases
      <4> QED
        BY <2>2, AddrExtremes
    <3> HIDE DEF bases
    <3> QED
      BY <3>1, <3>2
  <2>5. \E m \in ends : \A i \in DOMAIN s : m >= End(s[i])
    <3>1. \A i \in DOMAIN s : End(s[i]) \in ends
      OBVIOUS
    <3>2. \E m \in ends : \A b \in ends : b <= m
      <4> HIDE DEF ends
      <4> QED
        BY <2>3, AddrExtremes
    <3>3. \A a, b \in ends : a <= b <=> b >= a
      BY <2>3, AddrFacts
    <3> HIDE DEF ends
    <3> QED
      BY <3>1, <3>2, <3>3
  <2>6. MinOf(s) = CHOOSE m \in bases : \A i \in DOMAIN s : m <= s[i].base
    BY <1>3 DEF MinOf
  <2>7. MaxOf(s) = CHOOSE m \in ends : \A i \in DOMAIN s : m >= End(s[i])
    BY <1>3 DEF MaxOf
  <2>8. MinOf(s) \in bases /\ \A i \in DOMAIN s : MinOf(s) <= s[i].base
    <3> HIDE DEF bases
    <3> QED
      BY <2>4, <2>6
  <2>9. MaxOf(s) \in ends /\ \A i \in DOMAIN s : MaxOf(s) >= End(s[i])
    <3> HIDE DEF ends
    <3> QED
      BY <2>5, <2>7
  <2>10. MinOf(s) \in Addr /\ MaxOf(s) \in Addr
    BY <2>2, <2>3, <2>8, <2>9
  <2>11. \A i \in 1..Len(s) : MinOf(s) <= s[i].base /\ End(s[i]) <= MaxOf(s)
    <3> TAKE i \in 1..Len(s)
    <3>1. End(s[i]) \in Int /\ MaxOf(s) \in Int
      BY <1>1, <2>10, EndTyped, AddrFacts
    <3>2. MaxOf(s) >= End(s[i]) /\ MinOf(s) <= s[i].base
      BY <1>1, <2>8, <2>9
    <3> QED
      BY <3>1, <3>2
  <2> QED
    BY <2>10, <2>11 DEF Elements
<1> QED
  BY <1>2, <1>3

(* next_hook_id_ after a restore is past every id that came back.          *)
LEMMA RestoreId ==
    ASSUME NEW id \in Nat \ {0}
    PROVE  \A s \in Seq(Region) :
              /\ IdAfterRestore(id, s) \in Nat \ {0}
              /\ id <= IdAfterRestore(id, s)
              /\ \A r \in Elements(s) : r.id < IdAfterRestore(id, s)
<1> DEFINE Next1(s) == {id} \cup {r.id + 1 : r \in Elements(s)}
           Past(n, s) == n >= id /\ \A r \in Elements(s) : n > r.id
           A == {s \in Seq(Region) : \E n \in Next1(s) : n \in Nat /\ Past(n, s)}
<1>1. <<>> \in A
  <2>1. id \in Nat /\ Past(id, <<>>)
    BY EmptyList
  <2> QED
    BY <2>1, EmptyList
<1>2. ASSUME NEW s \in Seq(Region), NEW x \in Region, s \in A PROVE Append(s, x) \in A
  <2>1. PICK n \in Next1(s) : n \in Nat /\ Past(n, s)
    BY <1>2
  <2>2. Elements(Append(s, x)) = Elements(s) \cup {x}
    BY ElementsAppend
  <2>3. x.id \in Nat /\ Append(s, x) \in Seq(Region)
    BY DEF Region
  <2>4. \A r \in Elements(s) : r.id \in Nat
    BY ElementsTyped, RegionFields
  <2>5. CASE n > x.id
    <3>1. Past(n, Append(s, x)) /\ n \in Next1(Append(s, x))
      BY <2>1, <2>2, <2>5
    <3> QED
      BY <2>1, <2>3, <3>1
  <2>6. CASE ~(n > x.id)
    <3>1. x.id + 1 \in Nat /\ x.id + 1 >= n /\ x.id + 1 > x.id
      BY <2>1, <2>3, <2>6
    <3>2. x.id + 1 >= id /\ \A r \in Elements(s) : x.id + 1 > r.id
      BY <2>1, <2>3, <2>4, <3>1
    <3>3. Past(x.id + 1, Append(s, x)) /\ x.id + 1 \in Next1(Append(s, x))
      BY <2>2, <3>1, <3>2
    <3> QED
      BY <2>3, <3>1, <3>3
  <2> QED
    BY <2>5, <2>6
<1>3. Seq(Region) \subseteq A
  <2> HIDE DEF A
  <2> QED
    BY <1>1, <1>2, SeqsByInduction
<1>4. ASSUME NEW s \in Seq(Region)
      PROVE  /\ IdAfterRestore(id, s) \in Nat \ {0}
             /\ id <= IdAfterRestore(id, s)
             /\ \A r \in Elements(s) : r.id < IdAfterRestore(id, s)
  <2> DEFINE N == {id} \cup {s[i].id + 1 : i \in DOMAIN s}
             P(n) == n >= id /\ \A i \in DOMAIN s : n > s[i].id
  <2>1. \A i \in 1..Len(s) : s[i].id \in Nat
    BY ElementsTyped, RegionFields
  <2>2. N = Next1(s) /\ N \subseteq Nat
    BY <2>1 DEF Elements
  <2>3. \A n : P(n) <=> Past(n, s)
    BY DEF Elements
  <2>4. \E n \in N : P(n)
    BY <1>3, <2>2, <2>3
  <2>5. IdAfterRestore(id, s) = CHOOSE n \in N : P(n)
    BY DEF IdAfterRestore
  <2>6. IdAfterRestore(id, s) \in N /\ P(IdAfterRestore(id, s))
    <3> HIDE DEF N, P
    <3> QED
      BY <2>4, <2>5
  <2> QED
    BY <2>1, <2>2, <2>6 DEF Elements
<1> QED
  BY <1>4

-----------------------------------------------------------------------------
(* map_mmio: the new region has an id no other has, and widens the bound.  *)
LEMMA MapKeepsRegions ==
    ASSUME RegionsInv, NEW range \in MmioRanges, MapMmio(range) PROVE RegionsInv'
<1> DEFINE r == [id |-> nextId, base |-> range[1], size |-> range[2]]
<1>1. /\ mmio' = Append(mmio, r) /\ mmioSaved' = mmioSaved /\ nextId' = nextId + 1
      /\ mmioMin' = MinAfterPush(mmio, mmioMin, r)
      /\ mmioMax' = MaxAfterPush(mmio, mmioMax, r)
  BY DEF MapMmio
<1>2. r \in Region /\ r.id = nextId
  BY MmioRangesAssumption DEF RegionsInv, Region, Addr
<1> HIDE DEF r
<1>3. mmio \in Seq(Region) /\ nextId \in Nat \ {0} /\ mmioMin \in Addr /\ mmioMax \in Addr
  BY DEF RegionsInv
<1>4. Elements(mmio') = Elements(mmio) \cup {r} /\ mmio' \in Seq(Region)
  BY <1>1, <1>2, <1>3, ElementsAppend
<1>5. \A q \in Elements(mmio) : q \in Region
  BY <1>3, ElementsTyped
<1>6. \A q \in Elements(mmio) : q.id \in Nat /\ q.id < nextId
  BY <1>5, RegionFields DEF RegionsInv
<1>7. DistinctIds(mmio')
  <2>1. \A q \in Elements(mmio) : q.id # r.id
    BY <1>2, <1>3, <1>6
  <2> QED
    BY <1>1, <1>2, <1>3, <2>1, DistinctAppend DEF RegionsInv
<1>8. \A q \in Elements(mmio') : q.id < nextId'
  BY <1>1, <1>2, <1>3, <1>4, <1>6
<1>9. /\ mmioMin' \in Addr /\ mmioMax' \in Addr
      /\ \A q \in Elements(mmio') : mmioMin' <= q.base /\ End(q) <= mmioMax'
  <2>1. r.base \in Addr /\ End(r) \in Addr
    BY <1>2, RegionFields, EndTyped
  <2>2. \A q \in Elements(mmio) : /\ q.base \in Addr /\ End(q) \in Addr
                                  /\ mmioMin <= q.base /\ End(q) <= mmioMax
    BY <1>5, RegionFields, EndTyped DEF RegionsInv
  <2>3. CASE mmio = <<>>
    <3>1. mmioMin' = r.base /\ mmioMax' = End(r) /\ Elements(mmio') = {r}
      BY <1>1, <1>4, <2>3, EmptyList DEF MinAfterPush, MaxAfterPush
    <3> QED
      BY <2>1, <3>1, AddrFacts
  <2>4. CASE mmio # <<>>
    <3>1. mmioMin' = Lesser(mmioMin, r.base) /\ mmioMax' = Greater(mmioMax, End(r))
      BY <1>1, <2>4 DEF MinAfterPush, MaxAfterPush
    <3>2. /\ mmioMin' \in Addr /\ mmioMax' \in Addr
          /\ mmioMin' <= mmioMin /\ mmioMin' <= r.base
          /\ mmioMax <= mmioMax' /\ End(r) <= mmioMax'
      BY <1>3, <2>1, <3>1, Widened
    <3>3. \A a, b, c \in Addr : a <= b /\ b <= c => a <= c
      BY AddrFacts
    <3> QED
      BY <1>3, <1>4, <2>1, <2>2, <3>2, <3>3
  <2> QED
    BY <2>3, <2>4
<1>10. nextId' \in Nat \ {0}
  BY <1>1, <1>3
<1> QED
  BY <1>1, <1>4, <1>7, <1>8, <1>9, <1>10 DEF RegionsInv

(* A list whose bound is recomputed; next_hook_id_ is past its ids.        *)
LEMMA RebuiltRegions ==
    ASSUME NEW s \in Seq(Region), DistinctIds(s), mmio' = s,
           mmioMin' = MinOf(s), mmioMax' = MaxOf(s),
           nextId' \in Nat \ {0}, \A r \in Elements(s) : r.id < nextId',
           mmioSaved' \in Seq(Region), DistinctIds(mmioSaved')
    PROVE  RegionsInv'
BY BoundsCover DEF RegionsInv

(* unmap_mmio, clear_mmio_regions and a new backend.                       *)
LEMMA UnmapKeepsRegions ==
    ASSUME RegionsInv, NEW id, UnmapMmio(id) PROVE RegionsInv'
<1> DEFINE s == DropIds(mmio, {id})
<1>1. /\ mmio' = s /\ mmioMin' = MinOf(s) /\ mmioMax' = MaxOf(s)
      /\ nextId' = nextId /\ mmioSaved' = mmioSaved
  BY DEF UnmapMmio
<1>2. mmio \in Seq(Region) /\ DistinctIds(mmio)
  BY DEF RegionsInv
<1>3. s \in Seq(Region) /\ DistinctIds(s) /\ Elements(s) \subseteq Elements(mmio)
  BY <1>2, DropIdsType, DropIdsDistinct, DropIdsElements
<1> HIDE DEF s
<1> QED
  BY <1>1, <1>3, RebuiltRegions DEF RegionsInv

LEMMA EmptiedRegions ==
    ASSUME RegionsInv, mmio' = <<>>, mmioMin' = AddrSpace - 1, mmioMax' = 0,
           nextId' \in Nat \ {0}, mmioSaved' = mmioSaved
    PROVE  RegionsInv'
<1>1. /\ <<>> \in Seq(Region) /\ MinOf(<<>>) = AddrSpace - 1 /\ MaxOf(<<>>) = 0
      /\ DistinctIds(<<>>) /\ Elements(<<>>) = {}
  BY EmptyList DEF MinOf, MaxOf
<1>2. mmioSaved' \in Seq(Region) /\ DistinctIds(mmioSaved')
  BY DEF RegionsInv
<1> QED
  BY <1>1, <1>2, RebuiltRegions

LEMMA SnapshotKeepsRegions ==
    ASSUME RegionsInv, SnapshotMmioRegions PROVE RegionsInv'
<1>1. /\ mmioSaved' = SortedRegions(mmio) /\ mmio' = mmio
      /\ mmioMin' = mmioMin /\ mmioMax' = mmioMax /\ nextId' = nextId
  BY DEF SnapshotMmioRegions
<1>2. mmio \in Seq(Region) /\ DistinctIds(mmio)
  BY DEF RegionsInv
<1>3. mmioSaved' \in Seq(Region) /\ DistinctIds(mmioSaved')
  BY <1>1, <1>2, SortedExact
<1> QED
  BY <1>1, <1>3 DEF RegionsInv

LEMMA RestoreKeepsRegions ==
    ASSUME RegionsInv, NEW resolved, NEW id \in Nat \ {0}, RestoreRegions(resolved, id)
    PROVE  RegionsInv'
<1> DEFINE drop == IdsOf(mmioSaved) \ resolved
           s == DropIds(mmioSaved, drop)
<1>1. /\ mmio' = s /\ mmioMin' = MinOf(s) /\ mmioMax' = MaxOf(s)
      /\ nextId' = IdAfterRestore(id, s) /\ mmioSaved' = mmioSaved
  BY DEF RestoreRegions
<1>2. mmioSaved \in Seq(Region) /\ DistinctIds(mmioSaved)
  BY DEF RegionsInv
<1> HIDE DEF drop
<1>3. s \in Seq(Region) /\ DistinctIds(s)
  BY <1>2, DropIdsType, DropIdsDistinct
<1> HIDE DEF s
<1>4. nextId' \in Nat \ {0} /\ \A r \in Elements(s) : r.id < nextId'
  BY <1>1, <1>3, RestoreId
<1> QED
  BY <1>1, <1>2, <1>3, <1>4, RebuiltRegions

(* Other steps only move next_hook_id_ up, or nothing at all.              *)
LEMMA RegionsKept ==
    ASSUME RegionsInv, UNCHANGED <<mmio, mmioMin, mmioMax, mmioSaved>>,
           nextId' \in {nextId, nextId + 1}
    PROVE  RegionsInv'
<1>1. \A r \in Elements(mmio) : r.id \in Nat
  BY ElementsTyped, RegionFields DEF RegionsInv
<1>2. nextId' \in Nat \ {0} /\ \A r \in Elements(mmio) : r.id < nextId'
  BY <1>1 DEF RegionsInv
<1> QED
  BY <1>2 DEF RegionsInv

LEMMA MmioKeepsRegions ==
    ASSUME RegionsInv, MmioNext PROVE RegionsInv'
<1>1. CASE \E range \in MmioRanges : MapMmio(range)
  BY <1>1, MapKeepsRegions
<1>2. CASE \E id \in 1..MaxHookId : UnmapMmio(id)
  BY <1>2, UnmapKeepsRegions
<1>3. CASE ClearMmioRegions
  BY <1>3, EmptiedRegions DEF ClearMmioRegions, RegionsInv
<1>4. CASE SnapshotMmioRegions
  BY <1>4, SnapshotKeepsRegions
<1>5. ASSUME NEW resolved, RestoreMmioRegions(resolved) \/ DeserializeMmioRegions(resolved)
      PROVE  RegionsInv'
  <2>1. nextId \in Nat \ {0} /\ 1 \in Nat \ {0}
    BY DEF RegionsInv
  <2> QED
    BY <1>5, <2>1, RestoreKeepsRegions DEF RestoreMmioRegions, DeserializeMmioRegions
<1> QED
  BY <1>1, <1>2, <1>3, <1>4, <1>5 DEF MmioNext

LEMMA NextRegionsInv == RegionsInv /\ [AnyNext]_allVars => RegionsInv'
<1> SUFFICES ASSUME RegionsInv, [AnyNext]_allVars PROVE RegionsInv'
  OBVIOUS
<1>0. nextId \in Nat \ {0} /\ 1 \in Nat \ {0} /\ mmioSaved = mmioSaved
  BY DEF RegionsInv
<1>1. CASE CoreNext
  BY <1>1, MmioKeepsRegions DEF CoreNext
<1>2. CASE \E range \in HostRanges, dev \in Devices : map_mmio(range, dev)
  BY <1>2, MapKeepsRegions, DevicesAssumption DEF map_mmio
<1>3. CASE serialize_state
  BY <1>3, SnapshotKeepsRegions DEF serialize_state
<1>4. CASE deserialize_state
  BY <1>0, <1>4, RestoreKeepsRegions DEF deserialize_state, DeserializeMmioRegions
<1>5. CASE restart
  BY <1>0, <1>5, EmptiedRegions DEF restart
<1>6. CASE hook_memory
  BY <1>6, RegionsKept DEF hook_memory
<1>7. CASE hook_executor \/ make_local_hook \/ \E h \in hooks : delete_hook(h)
  BY <1>7, RegionsKept DEF hook_executor, make_local_hook, delete_hook, mmioVars
<1>8. CASE UNCHANGED allVars
  BY <1>8, RegionsKept DEF allVars, mmioVars
<1> QED
  BY <1>1, <1>2, <1>3, <1>4, <1>5, <1>6, <1>7, <1>8 DEF AnyNext, BackendNext

LEMMA InitRegionsInv == BackendInit => RegionsInv
BY EmptyList, AddrFacts DEF BackendInit, MmioInit, RegionsInv

(* The first region that contains an access, if any does.                  *)
LEMMA FirstExact ==
    ASSUME NEW s \in Seq(Region), NEW addr, NEW size
    PROVE  LET k == FirstContaining(s, addr, size)
           IN /\ k # 0 <=> \E r \in Elements(s) : Contains(r, addr, size)
              /\ k # 0 => k \in DOMAIN s /\ Contains(s[k], addr, size)
<1> DEFINE hits == {i \in DOMAIN s : Contains(s[i], addr, size)}
<1>1. DOMAIN s = 1..Len(s) /\ Len(s) \in Nat
  OBVIOUS
<1>2. hits \in SUBSET Nat /\ 0 \notin hits /\ hits \subseteq DOMAIN s
  BY <1>1
<1>3. FirstContaining(s, addr, size) = IF hits = {} THEN 0 ELSE Lowest(hits)
  BY DEF FirstContaining
<1>4. hits # {} <=> \E r \in Elements(s) : Contains(r, addr, size)
  BY <1>1 DEF Elements
<1>5. \A i \in hits : Contains(s[i], addr, size)
  OBVIOUS
<1> HIDE DEF hits
<1>6. hits # {} => Lowest(hits) \in hits
  BY <1>2, LowestExact
<1> QED
  BY <1>2, <1>3, <1>4, <1>5, <1>6

(* find_mmio_region: the cached bound hides no region, whatever was        *)
(* mapped, unmapped, cleared and restored before, in an address space of   *)
(* any size and where base + size wraps too.                               *)
THEOREM NoRegionHidden == BackendSpec => []BoundsNeverHide
<1>1. RegionsInv => BoundsNeverHide
  <2> SUFFICES ASSUME RegionsInv, NEW addr \in Addr, NEW size \in 1..AddrSpace-1,
                      mmio = <<>> \/ OutsideBounds(addr, size)
               PROVE  FirstContaining(mmio, addr, size) = 0
    BY DEF BoundsNeverHide, FindMmioRegion
  <2>1. ASSUME NEW r \in Elements(mmio), Contains(r, addr, size) PROVE FALSE
    <3>1. mmio # <<>>
      BY <2>1, EmptyList
    <3>2. addr < mmioMin \/ Wrap(addr + size) > mmioMax
      BY <3>1 DEF OutsideBounds
    <3>3. addr >= r.base /\ Wrap(addr + size) <= End(r)
      BY <2>1 DEF Contains
    <3>4. mmioMin <= r.base /\ End(r) <= mmioMax /\ r \in Region
      BY <2>1, ElementsTyped DEF RegionsInv
    <3>5. r.base \in Int /\ End(r) \in Int /\ mmioMin \in Int /\ mmioMax \in Int /\ addr \in Int
      BY <3>4, RegionFields, EndTyped, AddrFacts DEF RegionsInv
    <3>6. Wrap(addr + size) \in Int
      <4>1. addr + size \in Nat
        BY AddrFacts, AddrSpaceAssumption
      <4> QED
        BY <4>1, AddrFacts
    <3> QED
      BY <3>2, <3>3, <3>4, <3>5, <3>6
  <2>2. mmio \in Seq(Region)
    BY DEF RegionsInv
  <2> QED
    BY <2>1, <2>2, FirstExact
<1> QED
  BY <1>1, InitRegionsInv, NextRegionsInv, PTL DEF BackendSpec

(* unmap_mmio(id) erases the one region map_mmio gave the id to: no id is  *)
(* given out twice, with regions that came back from any snapshot, of an   *)
(* earlier process too.                                                    *)
THEOREM NoIdGivenTwice == BackendSpec => []RegionIdsUnique
<1>1. RegionsInv => RegionIdsUnique
  <2> SUFFICES ASSUME RegionsInv PROVE RegionIdsUnique
    OBVIOUS
  <2>1. DOMAIN mmio = 1..Len(mmio)
    BY ElementsTyped DEF RegionsInv
  <2>2. \A i, j \in DOMAIN mmio : mmio[i].id = mmio[j].id => i = j
    BY <2>1 DEF RegionsInv, DistinctIds
  <2>3. \A i \in DOMAIN mmio : mmio[i].id < nextId
    BY <2>1 DEF RegionsInv, Elements
  <2> QED
    BY <2>2, <2>3 DEF RegionIdsUnique
<1> QED
  BY <1>1, InitRegionsInv, NextRegionsInv, PTL DEF BackendSpec

-----------------------------------------------------------------------------
(* Handles and hooks.                                                      *)
HandleType == [kind : {"memory", "executor", "local"}, id : Nat, maker : Nat, stale : BOOLEAN]
EntryType == [id : Nat, maker : Nat]

(* The handles hs of one kind against the hooks installed of that kind;    *)
(* ids below next are taken, those in gone were removed by old handles.    *)
(* What HandlesOwnHooks leaves out and its proof needs: ids are below the  *)
(* counter that gives out the next, and no two handles in use share one.   *)
Owned(kind, hs, installed, gone, next) ==
    /\ \A h \in hs : h.kind = kind /\ ~h.stale =>
          /\ h.id < next
          /\ [id |-> h.id, maker |-> h.maker] \in installed \/ h.id \in gone
          /\ \A k \in installed : k.id = h.id => k.maker = h.maker
    /\ \A k \in installed :
          /\ k.id < next
          /\ \E h \in hs : h.kind = kind /\ h.id = k.id /\ h.maker = k.maker
    /\ \A g, h \in hs : g.kind = kind /\ h.kind = kind /\ ~g.stale /\ ~h.stale /\ g.id = h.id => g = h

(* The inductive invariant.  Only handles of access hooks go stale; the    *)
(* core layer makes none.                                                  *)
HandlesInv ==
    /\ RegionsInv
    /\ hooks \subseteq HandleType /\ accessHooks \subseteq EntryType /\ executorHooks \subseteq EntryType
    /\ nextExecutorId \in Nat /\ made \in Nat
    /\ layer = "core" => hooks = {} /\ accessHooks = {} /\ executorHooks = {}
    /\ \A h \in hooks : h.stale => h.kind = "memory"
    /\ Owned("memory", hooks, accessHooks, lost, nextId)
    /\ Owned("executor", hooks, executorHooks, {}, nextExecutorId)

LEMMA HandleFields ==
    ASSUME NEW h \in HandleType
    PROVE  /\ h.kind \in {"memory", "executor", "local"} /\ h.id \in Nat /\ h.maker \in Nat
           /\ h.stale \in BOOLEAN
BY DEF HandleType

LEMMA EntryFields == ASSUME NEW k \in EntryType PROVE k.id \in Nat /\ k.maker \in Nat
BY DEF EntryType

(* A new hook gets an id that is in no handle in use and on no hook.       *)
LEMMA OwnedAdd ==
    ASSUME NEW kind, NEW hs \in SUBSET HandleType, NEW installed \in SUBSET EntryType, NEW gone,
           NEW next \in Nat, NEW m \in Nat, NEW new \in HandleType,
           new.kind = kind, new.id = next, new.maker = m,
           Owned(kind, hs, installed, gone, next)
    PROVE  Owned(kind, hs \cup {new}, installed \cup {[id |-> next, maker |-> m]}, gone, next + 1)
<1> DEFINE e == [id |-> next, maker |-> m]
           hs2 == hs \cup {new}
           in2 == installed \cup {e}
<1>1. e.id = next /\ e.maker = m
  OBVIOUS
<1>2. \A h \in hs : h.id \in Nat
  BY HandleFields
<1>3. \A k \in installed : k.id \in Nat /\ k.id < next
  BY EntryFields DEF Owned
<1>4. \A h \in hs : h.kind = kind /\ ~h.stale => h.id < next
  BY DEF Owned
<1>5. ASSUME NEW h \in hs2, h.kind = kind, ~h.stale
      PROVE  /\ h.id < next + 1
             /\ [id |-> h.id, maker |-> h.maker] \in in2 \/ h.id \in gone
             /\ \A k \in in2 : k.id = h.id => k.maker = h.maker
  <2>1. CASE h \in hs
    <3>1. h.id \in Nat /\ h.id < next
      BY <1>2, <1>4, <1>5, <2>1
    <3>2. [id |-> h.id, maker |-> h.maker] \in installed \/ h.id \in gone
      BY <1>5, <2>1 DEF Owned
    <3>3. \A k \in installed : k.id = h.id => k.maker = h.maker
      BY <1>5, <2>1 DEF Owned
    <3> HIDE DEF e
    <3> QED
      BY <1>1, <3>1, <3>2, <3>3
  <2>2. CASE h = new
    <3>1. [id |-> h.id, maker |-> h.maker] = e
      BY <2>2
    <3> HIDE DEF e
    <3> QED
      BY <1>1, <1>3, <2>2, <3>1
  <2> QED
    BY <2>1, <2>2
<1>6. ASSUME NEW k \in in2
      PROVE  k.id < next + 1 /\ \E h \in hs2 : h.kind = kind /\ h.id = k.id /\ h.maker = k.maker
  <2>1. CASE k \in installed
    <3>1. \E h \in hs : h.kind = kind /\ h.id = k.id /\ h.maker = k.maker
      BY <2>1 DEF Owned
    <3> QED
      BY <1>3, <2>1, <3>1
  <2>2. CASE k = e
    <3> HIDE DEF e
    <3> QED
      BY <1>1, <2>2
  <2> QED
    BY <2>1, <2>2
<1>7. ASSUME NEW g \in hs2, NEW h \in hs2, g.kind = kind, h.kind = kind, ~g.stale, ~h.stale, g.id = h.id
      PROVE  g = h
  <2>1. CASE g \in hs /\ h \in hs
    BY <1>7, <2>1 DEF Owned
  <2>2. CASE g = new /\ h = new
    BY <2>2
  <2>3. CASE g = new /\ h \in hs
    BY <1>2, <1>4, <1>7, <2>3
  <2>4. CASE g \in hs /\ h = new
    BY <1>2, <1>4, <1>7, <2>4
  <2> QED
    BY <2>1, <2>2, <2>3, <2>4
<1> HIDE DEF hs2, in2
<1>8. Owned(kind, hs2, in2, gone, next + 1)
  BY <1>5, <1>6, <1>7 DEF Owned
<1> QED
  BY <1>8 DEF hs2, in2

(* A handle of another kind changes nothing, nor does an id that is used   *)
(* for something else.                                                     *)
LEMMA OwnedOther ==
    ASSUME NEW kind, NEW hs \in SUBSET HandleType, NEW hs2 \in SUBSET HandleType,
           NEW installed \in SUBSET EntryType, NEW gone, NEW gone2,
           NEW next \in Nat, NEW next2 \in Nat, next <= next2, gone \subseteq gone2,
           \A h \in HandleType : h.kind = kind => (h \in hs2 <=> h \in hs),
           Owned(kind, hs, installed, gone, next)
    PROVE  Owned(kind, hs2, installed, gone2, next2)
<1>1. ASSUME NEW h \in hs2, h.kind = kind, ~h.stale
      PROVE  /\ h.id < next2
             /\ [id |-> h.id, maker |-> h.maker] \in installed \/ h.id \in gone2
             /\ \A k \in installed : k.id = h.id => k.maker = h.maker
  <2>1. h \in hs
    BY <1>1
  <2>2. h.id \in Nat /\ h.id < next
    BY <1>1, <2>1, HandleFields DEF Owned
  <2>3. [id |-> h.id, maker |-> h.maker] \in installed \/ h.id \in gone
    BY <1>1, <2>1 DEF Owned
  <2>4. \A k \in installed : k.id = h.id => k.maker = h.maker
    BY <1>1, <2>1 DEF Owned
  <2> QED
    BY <2>2, <2>3, <2>4
<1>2. ASSUME NEW k \in installed
      PROVE  k.id < next2 /\ \E h \in hs2 : h.kind = kind /\ h.id = k.id /\ h.maker = k.maker
  <2>1. k.id \in Nat /\ k.id < next
    BY EntryFields DEF Owned
  <2>2. PICK h \in hs : h.kind = kind /\ h.id = k.id /\ h.maker = k.maker
    BY DEF Owned
  <2> QED
    BY <2>1, <2>2
<1>3. ASSUME NEW g \in hs2, NEW h \in hs2, g.kind = kind, h.kind = kind, ~g.stale, ~h.stale, g.id = h.id
      PROVE  g = h
  <2>1. g \in hs /\ h \in hs
    BY <1>3
  <2> QED
    BY <1>3, <2>1 DEF Owned
<1> QED
  BY <1>1, <1>2, <1>3 DEF Owned

(* Deleting a handle in use removes its hook and no other; an old handle   *)
(* may remove the hook that has got its id since.                          *)
LEMMA OwnedDelete ==
    ASSUME NEW kind, NEW hs \in SUBSET HandleType, NEW installed \in SUBSET EntryType,
           NEW gone, NEW next, NEW old \in hs, old.kind = kind,
           Owned(kind, hs, installed, gone, next),
           NEW hs2, hs2 = hs \ {old},
           NEW in2, in2 = {k \in installed : k.id # old.id},
           NEW gone2, gone2 = IF old.stale THEN gone \cup {old.id} ELSE gone
    PROVE  Owned(kind, hs2, in2, gone2, next)
<1>1. ASSUME NEW h \in hs2, h.kind = kind, ~h.stale
      PROVE  /\ h.id < next
             /\ [id |-> h.id, maker |-> h.maker] \in in2 \/ h.id \in gone2
             /\ \A k \in in2 : k.id = h.id => k.maker = h.maker
  <2>1. h.id < next /\ \A k \in installed : k.id = h.id => k.maker = h.maker
    BY <1>1 DEF Owned
  <2>2. [id |-> h.id, maker |-> h.maker] \in installed \/ h.id \in gone
    BY <1>1 DEF Owned
  <2>3. CASE h.id # old.id
    BY <2>1, <2>2, <2>3
  <2>4. CASE h.id = old.id
    <3>1. old.stale
      BY <1>1, <2>4 DEF Owned
    <3> QED
      BY <2>1, <2>4, <3>1
  <2> QED
    BY <2>3, <2>4
<1>2. ASSUME NEW k \in in2
      PROVE  k.id < next /\ \E h \in hs2 : h.kind = kind /\ h.id = k.id /\ h.maker = k.maker
  <2>1. PICK h \in hs : h.kind = kind /\ h.id = k.id /\ h.maker = k.maker
    BY <1>2 DEF Owned
  <2>2. h # old /\ k.id < next
    BY <1>2, <2>1 DEF Owned
  <2> QED
    BY <2>1, <2>2
<1>3. ASSUME NEW g \in hs2, NEW h \in hs2, g.kind = kind, h.kind = kind, ~g.stale, ~h.stale, g.id = h.id
      PROVE  g = h
  BY <1>3 DEF Owned
<1> QED
  BY <1>1, <1>2, <1>3 DEF Owned

(* With no hook installed and no handle in use there is nothing to own.    *)
LEMMA OwnedNone ==
    ASSUME NEW kind, NEW hs, NEW gone, NEW next, \A h \in hs : h.kind = kind => h.stale
    PROVE  Owned(kind, hs, {}, gone, next)
BY DEF Owned

(* deserialize_state: the handles of access hooks, and no others, are old. *)
LEMMA AgedHandles ==
    ASSUME NEW hs \in SUBSET HandleType, \A h \in hs : h.stale => h.kind = "memory"
    PROVE  LET aged == {[h EXCEPT !.stale = h.kind = "memory"] : h \in hs}
           IN /\ aged \in SUBSET HandleType
              /\ \A h \in aged : h.stale <=> h.kind = "memory"
              /\ \A h \in HandleType : h.kind = "executor" => (h \in aged <=> h \in hs)
<1> DEFINE age(h) == [h EXCEPT !.stale = h.kind = "memory"]
           aged == {age(h) : h \in hs}
<1>1. \A h \in HandleType : /\ age(h) \in HandleType /\ age(h).kind = h.kind
                            /\ age(h).stale <=> h.kind = "memory"
  BY DEF HandleType
<1>2. ASSUME NEW h \in HandleType, h.kind = "executor", ~h.stale PROVE age(h) = h
  <2>1. h.stale = FALSE /\ (h.kind = "memory") = FALSE
    <3>1. h.stale \in BOOLEAN
      BY HandleFields
    <3> QED
      BY <1>2, <3>1
  <2> QED
    BY <2>1 DEF HandleType
<1> HIDE DEF age
<1>3. aged \in SUBSET HandleType /\ \A h \in aged : h.stale <=> h.kind = "memory"
  BY <1>1
<1>4. ASSUME NEW h \in HandleType, h.kind = "executor" PROVE h \in aged <=> h \in hs
  <2>1. ASSUME h \in aged PROVE h \in hs
    <3>1. PICK g \in hs : h = age(g)
      BY <2>1
    <3>2. g.kind = "executor" /\ ~g.stale
      BY <1>1, <1>4, <3>1
    <3> QED
      BY <1>2, <3>1, <3>2
  <2>2. ASSUME h \in hs PROVE h \in aged
    <3>1. ~h.stale
      BY <1>4, <2>2
    <3>2. age(h) = h
      BY <1>2, <1>4, <3>1
    <3> QED
      BY <2>2, <3>2
  <2> QED
    BY <2>1, <2>2
<1> QED
  BY <1>3, <1>4 DEF age

(* Steps that leave the hooks alone; next_hook_id_ does not go down.       *)
LEMMA HandlesKept ==
    ASSUME HandlesInv, RegionsInv', nextId <= nextId',
           UNCHANGED <<layer, hooks, accessHooks, executorHooks, nextExecutorId, made, lost>>
    PROVE  HandlesInv'
<1>1. nextId \in Nat /\ nextId' \in Nat
  BY DEF HandlesInv, RegionsInv
<1>2. Owned("memory", hooks, accessHooks, lost, nextId')
  BY <1>1, OwnedOther DEF HandlesInv
<1> QED
  BY <1>2 DEF HandlesInv

LEMMA NextHandlesInv == HandlesInv /\ [AnyNext]_allVars => HandlesInv'
<1> SUFFICES ASSUME HandlesInv, [AnyNext]_allVars PROVE HandlesInv'
  OBVIOUS
<1>1. RegionsInv'
  BY NextRegionsInv DEF HandlesInv
<1>2. /\ nextId \in Nat /\ nextId' \in Nat /\ nextExecutorId \in Nat /\ made \in Nat
      /\ hooks \in SUBSET HandleType /\ accessHooks \in SUBSET EntryType
      /\ executorHooks \in SUBSET EntryType
      /\ Owned("memory", hooks, accessHooks, lost, nextId)
      /\ Owned("executor", hooks, executorHooks, {}, nextExecutorId)
      /\ \A h \in hooks : h.stale => h.kind = "memory"
  BY <1>1 DEF HandlesInv, RegionsInv
<1>3. CASE CoreNext
  <2>1. /\ layer = "core" /\ UNCHANGED <<layer, hooks, accessHooks, executorHooks, nextExecutorId, made, lost>>
    BY <1>3 DEF CoreNext, backendVars
  <2>2. hooks = {} /\ accessHooks = {} /\ executorHooks = {}
    BY <2>1 DEF HandlesInv
  <2>3. Owned("memory", {}, {}, lost, nextId')
    BY OwnedNone
  <2> QED
    BY <1>1, <1>2, <2>1, <2>2, <2>3 DEF HandlesInv
<1>4. ASSUME NEW range \in HostRanges, NEW dev \in Devices, map_mmio(range, dev), layer' = layer
      PROVE  HandlesInv'
  BY <1>1, <1>2, <1>4, HandlesKept DEF map_mmio, MapMmio
<1>5. CASE serialize_state /\ UNCHANGED layer
  BY <1>1, <1>2, <1>5, HandlesKept DEF serialize_state, SnapshotMmioRegions, backendVars
<1>6. CASE deserialize_state /\ UNCHANGED layer /\ layer = "backend"
  <2>1. /\ accessHooks' = {} /\ hooks' = {[h EXCEPT !.stale = h.kind = "memory"] : h \in hooks}
        /\ UNCHANGED <<layer, executorHooks, nextExecutorId, made>>
    BY <1>6 DEF deserialize_state
  <2>2. /\ hooks' \in SUBSET HandleType
        /\ \A h \in hooks' : h.stale <=> h.kind = "memory"
        /\ \A h \in HandleType : h.kind = "executor" => (h \in hooks' <=> h \in hooks)
    BY <1>2, <2>1, AgedHandles
  <2>3. Owned("memory", hooks', {}, lost', nextId')
    BY <2>2, OwnedNone
  <2>4. Owned("executor", hooks', executorHooks, {}, nextExecutorId)
    BY <1>2, <2>2, OwnedOther
  <2> QED
    BY <1>1, <1>2, <1>6, <2>1, <2>2, <2>3, <2>4 DEF HandlesInv
<1>7. CASE restart /\ UNCHANGED layer
  <2>1. /\ hooks' = {} /\ accessHooks' = {} /\ executorHooks' = {} /\ nextExecutorId' = 1 /\ made' = 0
        /\ layer' = layer
    BY <1>7 DEF restart
  <2>2. Owned("memory", {}, {}, lost', nextId') /\ Owned("executor", {}, {}, {}, 1)
    BY OwnedNone
  <2> QED
    BY <1>1, <2>1, <2>2 DEF HandlesInv
<1>8. CASE hook_memory /\ UNCHANGED layer /\ layer = "backend"
  <2> DEFINE new == Handle("memory", nextId)
             e == [id |-> nextId, maker |-> made]
  <2>1. /\ accessHooks' = accessHooks \cup {e} /\ hooks' = hooks \cup {new}
        /\ nextId' = nextId + 1 /\ made' = made + 1 /\ layer' = "backend"
        /\ UNCHANGED <<executorHooks, nextExecutorId, lost>>
    BY <1>8 DEF hook_memory, Entry
  <2>2. new \in HandleType /\ new.kind = "memory" /\ new.id = nextId /\ new.maker = made /\ e \in EntryType
    BY <1>2 DEF Handle, HandleType, EntryType
  <2> HIDE DEF new
  <2>3. Owned("memory", hooks', accessHooks', lost, nextId')
    BY <1>2, <2>1, <2>2, OwnedAdd
  <2>4. Owned("executor", hooks', executorHooks, {}, nextExecutorId)
    BY <1>2, <2>1, <2>2, OwnedOther
  <2>5. hooks' \in SUBSET HandleType /\ accessHooks' \in SUBSET EntryType /\ made' \in Nat
    BY <1>2, <2>1, <2>2
  <2> HIDE DEF e
  <2> QED
    BY <1>1, <1>2, <2>1, <2>2, <2>3, <2>4, <2>5 DEF HandlesInv
<1>9. CASE hook_executor /\ UNCHANGED layer /\ layer = "backend"
  <2> DEFINE new == Handle("executor", nextExecutorId)
             e == [id |-> nextExecutorId, maker |-> made]
  <2>1. /\ executorHooks' = executorHooks \cup {e} /\ hooks' = hooks \cup {new}
        /\ nextExecutorId' = nextExecutorId + 1 /\ made' = made + 1 /\ layer' = "backend"
        /\ UNCHANGED <<accessHooks, nextId, lost>>
    BY <1>9 DEF hook_executor, Entry, mmioVars
  <2>2. /\ new \in HandleType /\ new.kind = "executor" /\ new.id = nextExecutorId /\ new.maker = made
        /\ ~new.stale /\ e \in EntryType
    BY <1>2 DEF Handle, HandleType, EntryType
  <2> HIDE DEF new
  <2>3. Owned("executor", hooks', executorHooks', {}, nextExecutorId')
    BY <1>2, <2>1, <2>2, OwnedAdd
  <2>4. Owned("memory", hooks', accessHooks, lost, nextId)
    BY <1>2, <2>1, <2>2, OwnedOther
  <2>5. /\ hooks' \in SUBSET HandleType /\ executorHooks' \in SUBSET EntryType /\ made' \in Nat
        /\ nextExecutorId' \in Nat
    BY <1>2, <2>1, <2>2
  <2> HIDE DEF e
  <2> QED
    BY <1>1, <1>2, <2>1, <2>2, <2>3, <2>4, <2>5 DEF HandlesInv
<1>10. CASE make_local_hook /\ UNCHANGED layer /\ layer = "backend"
  <2> DEFINE new == Handle("local", 0)
  <2>1. /\ hooks' = hooks \cup {new} /\ made' = made + 1 /\ layer' = "backend"
        /\ UNCHANGED <<accessHooks, executorHooks, nextExecutorId, nextId, lost>>
    BY <1>10 DEF make_local_hook, mmioVars
  <2>2. new \in HandleType /\ new.kind = "local" /\ ~new.stale
    BY <1>2 DEF Handle, HandleType
  <2> HIDE DEF new
  <2>3. Owned("executor", hooks', executorHooks, {}, nextExecutorId)
    BY <1>2, <2>1, <2>2, OwnedOther
  <2>4. Owned("memory", hooks', accessHooks, lost, nextId)
    BY <1>2, <2>1, <2>2, OwnedOther
  <2>5. hooks' \in SUBSET HandleType /\ made' \in Nat
    BY <1>2, <2>1, <2>2
  <2> QED
    BY <1>1, <1>2, <2>1, <2>2, <2>3, <2>4, <2>5 DEF HandlesInv
<1>11. ASSUME NEW h \in hooks, delete_hook(h), UNCHANGED layer, layer = "backend" PROVE HandlesInv'
  <2>1. /\ executorHooks' = IF h.kind = "executor" THEN {k \in executorHooks : k.id # h.id} ELSE executorHooks
        /\ accessHooks' = IF h.kind = "memory" THEN {k \in accessHooks : k.id # h.id} ELSE accessHooks
        /\ hooks' = hooks \ {h}
        /\ lost' = IF h.stale THEN lost \cup {h.id} ELSE lost
        /\ UNCHANGED <<layer, nextId, nextExecutorId, made>>
    BY <1>11 DEF delete_hook, mmioVars
  <2>2. hooks' \in SUBSET HandleType /\ executorHooks' \in SUBSET EntryType /\ accessHooks' \in SUBSET EntryType
    BY <1>2, <2>1
  <2>3. Owned("memory", hooks', accessHooks', lost', nextId)
    <3>1. CASE h.kind = "memory"
      <4>1. accessHooks' = {k \in accessHooks : k.id # h.id}
        BY <2>1, <3>1
      <4> QED
        BY <1>2, <2>1, <3>1, <4>1, OwnedDelete
    <3>2. CASE h.kind # "memory"
      <4>1. lost' = lost /\ accessHooks' = accessHooks
        BY <1>2, <2>1, <3>2
      <4> QED
        BY <1>2, <2>1, <2>2, <3>2, <4>1, OwnedOther
    <3> QED
      BY <3>1, <3>2
  <2>4. Owned("executor", hooks', executorHooks', {}, nextExecutorId)
    <3>1. CASE h.kind = "executor"
      <4>1. ~h.stale
        BY <1>2, <3>1
      <4>2. executorHooks' = {k \in executorHooks : k.id # h.id}
        BY <2>1, <3>1
      <4>3. {} = IF h.stale THEN {} \cup {h.id} ELSE {}
        BY <4>1
      <4> QED
        BY <1>2, <2>1, <3>1, <4>2, <4>3, OwnedDelete
    <3>2. CASE h.kind # "executor"
      <4>1. executorHooks' = executorHooks
        BY <2>1, <3>2
      <4> QED
        BY <1>2, <2>1, <2>2, <3>2, <4>1, OwnedOther
    <3> QED
      BY <3>1, <3>2
  <2> QED
    BY <1>1, <1>2, <1>11, <2>1, <2>2, <2>3, <2>4 DEF HandlesInv
<1>12. CASE UNCHANGED allVars
  <2>1. nextId' = nextId /\ UNCHANGED <<layer, hooks, accessHooks, executorHooks, nextExecutorId, made, lost>>
    BY <1>12 DEF allVars, mmioVars, backendVars
  <2> QED
    BY <1>1, <1>2, <2>1, HandlesKept
<1> QED
  BY <1>3, <1>4, <1>5, <1>6, <1>7, <1>8, <1>9, <1>10, <1>11, <1>12 DEF AnyNext, BackendNext

(* delete_hook removes the hook its handle was made for, and every hook    *)
(* can be deleted, whatever was hooked, deleted, restored and restarted    *)
(* before; the exceptions HandlesOwnHooks names are the only ones.         *)
THEOREM HandlesStayExact == BackendSpec => []HandlesOwnHooks
<1>1. BackendInit => HandlesInv
  <2> SUFFICES ASSUME BackendInit PROVE HandlesInv
    OBVIOUS
  <2>1. Owned("memory", {}, {}, lost, nextId) /\ Owned("executor", {}, {}, {}, nextExecutorId)
    BY OwnedNone
  <2> QED
    BY <2>1, InitRegionsInv DEF BackendInit, HandlesInv
<1>2. HandlesInv => HandlesOwnHooks
  <2> SUFFICES ASSUME HandlesInv PROVE HandlesOwnHooks
    OBVIOUS
  <2>1. ASSUME NEW h \in hooks, h.kind # "local", ~h.stale
        PROVE  LET installed == IF h.kind = "memory" THEN accessHooks ELSE executorHooks
               IN /\ [id |-> h.id, maker |-> h.maker] \in installed \/ (h.kind = "memory" /\ h.id \in lost)
                  /\ \A k \in installed : k.id = h.id => k.maker = h.maker
    <3>1. h.kind = "memory" \/ h.kind = "executor"
      BY <2>1, HandleFields DEF HandlesInv
    <3>2. CASE h.kind = "memory"
      BY <2>1, <3>2 DEF HandlesInv, Owned
    <3>3. CASE h.kind = "executor"
      BY <2>1, <3>3 DEF HandlesInv, Owned
    <3> QED
      BY <3>1, <3>2, <3>3
  <2>2. \A k \in accessHooks : \E h \in hooks : h.kind = "memory" /\ h.id = k.id /\ h.maker = k.maker
    BY DEF HandlesInv, Owned
  <2>3. \A k \in executorHooks : \E h \in hooks : h.kind = "executor" /\ h.id = k.id /\ h.maker = k.maker
    BY DEF HandlesInv, Owned
  <2> QED
    BY <2>1, <2>2, <2>3 DEF HandlesOwnHooks
<1> QED
  BY <1>1, <1>2, NextHandlesInv, PTL DEF BackendSpec

-----------------------------------------------------------------------------
(* Devices and restored regions.                                           *)
Binding == [range : HostRanges, dev : Devices]

(* The bindings are what the host asked for last.  While no device has     *)
(* been mapped since deserialize_state, the regions are those of the       *)
(* buffer that have one, with the device the host knows.                   *)
DevicesInv ==
    /\ RegionsInv
    /\ bindings \in Seq(Binding)
    /\ host \in [HostRanges -> Devices \cup {NoDevice}]
    /\ \A range \in HostRanges : Resolver(range) = host[range]
    /\ device \in [Ids -> Devices \cup {NoDevice}]
    /\ layer = "core" => ~restored
    /\ layer = "backend" => \A r \in Elements(mmio) \cup Elements(mmioSaved) :
                               Range(r) \in HostRanges /\ r.id \in Ids
    /\ restored => /\ Elements(mmio) = {r \in Elements(mmioSaved) : host[Range(r)] # NoDevice}
                   /\ \A r \in Elements(mmio) : device[r.id] = host[Range(r)]

LEMMA BindingFields == ASSUME NEW b \in Binding PROVE b.range \in HostRanges /\ b.dev \in Devices
BY DEF Binding

LEMMA BindingIndices ==
    ASSUME bindings \in Seq(Binding), NEW q
    PROVE  BindingOf(q) \in SUBSET Nat /\ BindingOf(q) \subseteq DOMAIN bindings
BY DEF BindingOf

(* replace_or_add_binding: the resolver finds the new device at the range, *)
(* and at every other range what it found before.                          *)
LEMMA BindingReplaced ==
    ASSUME bindings \in Seq(Binding), NEW range \in HostRanges, NEW dev \in Devices,
           bindings' = replace_or_add_binding(range, dev)
    PROVE  /\ bindings' \in Seq(Binding)
           /\ \A q : Resolver(q)' = IF q = range THEN dev ELSE Resolver(q)
<1> DEFINE m == Len(bindings)
           new == [range |-> range, dev |-> dev]
<1>1. m \in Nat /\ DOMAIN bindings = 1..m /\ \A i \in 1..m : bindings[i] \in Binding
  OBVIOUS
<1>2. new \in Binding /\ new.range = range /\ new.dev = dev
  BY DEF Binding
<1>3. \A q : /\ BindingOf(q) = {b \in DOMAIN bindings : bindings[b].range = q}
             /\ BindingOf(q)' = {b \in DOMAIN bindings' : bindings'[b].range = q}
  BY DEF BindingOf
<1>4. \A q : /\ Resolver(q) = IF BindingOf(q) = {} THEN NoDevice ELSE bindings[Lowest(BindingOf(q))].dev
             /\ Resolver(q)' = IF BindingOf(q)' = {} THEN NoDevice ELSE bindings'[Lowest(BindingOf(q)')].dev
  BY DEF Resolver, Lowest
<1>5. \A q : BindingOf(q) # {} => Lowest(BindingOf(q)) \in BindingOf(q)
  BY BindingIndices, LowestExact
<1> HIDE DEF new
<1>6. CASE BindingOf(range) = {}
  <2>1. bindings' = Append(bindings, new)
    BY <1>6 DEF replace_or_add_binding, new
  <2>2. /\ bindings' \in Seq(Binding) /\ DOMAIN bindings' = 1..m+1 /\ bindings'[m+1] = new
        /\ \A i \in 1..m : bindings'[i] = bindings[i]
    BY <1>2, <2>1
  <2> HIDE DEF m
  <2>3. ASSUME NEW q PROVE Resolver(q)' = IF q = range THEN dev ELSE Resolver(q)
    <3>1. \A i : i \in 1..m+1 <=> i \in 1..m \/ i = m + 1
      BY <1>1
    <3>2. CASE q = range
      <4>1. BindingOf(q)' = {m + 1}
        BY <1>1, <1>2, <1>3, <1>6, <2>2, <3>1, <3>2
      <4>2. Lowest({m + 1}) = m + 1
        BY <1>1, LowestExact
      <4> QED
        BY <1>2, <1>4, <2>2, <3>2, <4>1, <4>2
    <3>3. CASE q # range
      <4>1. BindingOf(q)' = BindingOf(q) /\ BindingOf(q) \subseteq 1..m
        BY <1>1, <1>2, <1>3, <2>2, <3>1, <3>3
      <4> QED
        BY <1>4, <1>5, <2>2, <3>3, <4>1
    <3> QED
      BY <3>2, <3>3
  <2> QED
    BY <2>2, <2>3
<1>7. CASE BindingOf(range) # {}
  <2> DEFINE at == Lowest(BindingOf(range))
  <2>1. at \in DOMAIN bindings /\ bindings[at].range = range
    BY <1>3, <1>5, <1>7
  <2>2. bindings' = [bindings EXCEPT ![at].dev = dev]
    BY <1>7 DEF replace_or_add_binding
  <2> HIDE DEF at
  <2> DEFINE changed == [bindings[at] EXCEPT !.dev = dev]
  <2>3. changed \in Binding /\ changed.range = range /\ changed.dev = dev
    <3>1. bindings[at] \in Binding
      BY <1>1, <2>1
    <3> QED
      BY <2>1, <3>1 DEF Binding
  <2>4. bindings' = [bindings EXCEPT ![at] = changed]
    BY <2>2
  <2> HIDE DEF changed
  <2>5. /\ DOMAIN bindings' = DOMAIN bindings /\ bindings'[at] = changed
        /\ \A i \in DOMAIN bindings : i # at => bindings'[i] = bindings[i]
        /\ bindings' \in Seq(Binding)
    BY <2>1, <2>3, <2>4
  <2>6. ASSUME NEW q PROVE Resolver(q)' = IF q = range THEN dev ELSE Resolver(q)
    <3>1. BindingOf(q)' = BindingOf(q)
      <4>1. \A i \in DOMAIN bindings : bindings'[i].range = bindings[i].range
        BY <2>1, <2>3, <2>5
      <4> QED
        BY <1>3, <2>5, <4>1
    <3>2. CASE q = range
      BY <1>4, <1>7, <2>3, <2>5, <3>1, <3>2 DEF at
    <3>3. CASE q # range
      <4>1. ASSUME BindingOf(q) # {} PROVE bindings'[Lowest(BindingOf(q))] = bindings[Lowest(BindingOf(q))]
        <5>1. Lowest(BindingOf(q)) \in DOMAIN bindings /\ bindings[Lowest(BindingOf(q))].range = q
          BY <1>3, <1>5, <4>1
        <5> QED
          BY <2>1, <2>5, <3>3, <5>1
      <4> QED
        BY <1>4, <3>1, <3>3, <4>1
    <3> QED
      BY <3>2, <3>3
  <2> QED
    BY <2>5, <2>6
<1> QED
  BY <1>6, <1>7

(* map_mmio of the backend.                                                *)
LEMMA MapKeepsDevices ==
    ASSUME DevicesInv, RegionsInv', NEW range \in HostRanges, NEW dev \in Devices,
           map_mmio(range, dev), layer' = layer
    PROVE  DevicesInv'
<1> DEFINE r == [id |-> nextId, base |-> range[1], size |-> range[2]]
<1>1. /\ bindings' = replace_or_add_binding(range, dev)
      /\ mmio' = Append(mmio, r) /\ mmioSaved' = mmioSaved /\ nextId < MaxHookId
      /\ device' = [device EXCEPT ![nextId] = dev]
      /\ host' = [host EXCEPT ![range] = dev]
      /\ restored' = FALSE
  BY DEF map_mmio, MapMmio
<1>2. range \in MmioRanges /\ nextId \in Nat \ {0}
  BY DevicesAssumption DEF DevicesInv, RegionsInv
<1>3. r \in Region /\ Range(r) = range /\ r.id \in Ids
  BY <1>1, <1>2, MmioRangesAssumption, MaxHookIdAssumption DEF Region, Range, Addr, Ids
<1> HIDE DEF r
<1>4. /\ bindings' \in Seq(Binding)
      /\ \A q : Resolver(q)' = IF q = range THEN dev ELSE Resolver(q)
  BY <1>1, BindingReplaced DEF DevicesInv
<1>5. host' \in [HostRanges -> Devices \cup {NoDevice}] /\ device' \in [Ids -> Devices \cup {NoDevice}]
  BY <1>1 DEF DevicesInv
<1>6. \A q \in HostRanges : Resolver(q)' = host'[q]
  BY <1>1, <1>4 DEF DevicesInv
<1>7. Elements(mmio') = Elements(mmio) \cup {r}
  BY <1>1, <1>3, ElementsAppend DEF DevicesInv, RegionsInv
<1>8. layer' = "backend" => \A q \in Elements(mmio') \cup Elements(mmioSaved') :
                               Range(q) \in HostRanges /\ q.id \in Ids
  BY <1>1, <1>3, <1>7 DEF DevicesInv
<1> QED
  BY <1>1, <1>4, <1>5, <1>6, <1>8 DEF DevicesInv, Range

(* serialize_state: the buffer holds the regions as they are.              *)
LEMMA SerializeKeepsDevices ==
    ASSUME DevicesInv, RegionsInv', serialize_state, layer' = layer
    PROVE  DevicesInv'
<1>1. /\ mmioSaved' = SortedRegions(mmio) /\ mmio' = mmio
      /\ UNCHANGED <<bindings, host, device, restored, layer>>
  BY DEF serialize_state, SnapshotMmioRegions, backendVars
<1>2. Elements(mmioSaved') = Elements(mmio) /\ Elements(mmio') = Elements(mmio)
  BY <1>1, SortedExact DEF DevicesInv, RegionsInv
<1>3. \A range : Resolver(range)' = Resolver(range)
  BY <1>1 DEF Resolver, BindingOf, Lowest
<1>4. layer' = "backend" => \A r \in Elements(mmio') \cup Elements(mmioSaved') :
                               Range(r) \in HostRanges /\ r.id \in Ids
  BY <1>1, <1>2 DEF DevicesInv
<1>5. restored' => /\ Elements(mmio') = {r \in Elements(mmioSaved') : host'[Range(r)] # NoDevice}
                   /\ \A r \in Elements(mmio') : device'[r.id] = host'[Range(r)]
  <2> SUFFICES ASSUME restored'
               PROVE  /\ Elements(mmio) = {r \in Elements(mmio) : host[Range(r)] # NoDevice}
                      /\ \A r \in Elements(mmio) : device[r.id] = host[Range(r)]
    BY <1>1, <1>2
  <2>1. /\ Elements(mmio) = {r \in Elements(mmioSaved) : host[Range(r)] # NoDevice}
        /\ \A r \in Elements(mmio) : device[r.id] = host[Range(r)]
    BY <1>1 DEF DevicesInv
  <2> QED
    BY <2>1
<1> QED
  BY <1>1, <1>3, <1>4, <1>5 DEF DevicesInv, Range

(* deserialize_state: a region comes back exactly when the resolver knows  *)
(* its range, with the callbacks the resolver gave.                        *)
LEMMA DeserializeKeepsDevices ==
    ASSUME DevicesInv, RegionsInv', deserialize_state, layer' = layer, layer = "backend"
    PROVE  DevicesInv'
<1> DEFINE saved == mmioSaved
           known == {j \in DOMAIN saved : Resolver(Range(saved[j])) # NoDevice}
           resolved == {saved[k].id : k \in known}
           at(id) == CHOOSE k \in DOMAIN saved : saved[k].id = id
<1>1. /\ mmio' = DropIds(saved, IdsOf(saved) \ resolved)
      /\ mmioSaved' = saved
      /\ device' = [id \in Ids |-> IF id \in resolved THEN Resolver(Range(saved[at(id)])) ELSE NoDevice]
      /\ restored' = TRUE
      /\ UNCHANGED <<bindings, host>>
  BY DEF deserialize_state, DeserializeMmioRegions, RestoreRegions
<1>2. saved \in Seq(Region) /\ DistinctIds(saved) /\ DOMAIN saved = 1..Len(saved)
  BY DEF DevicesInv, RegionsInv
<1>3. \A r \in Elements(saved) : Range(r) \in HostRanges /\ r.id \in Ids
  BY DEF DevicesInv
<1>4. \A r \in Elements(saved) : Resolver(Range(r)) = host[Range(r)]
  BY <1>3 DEF DevicesInv
<1>5. \A r \in Elements(saved) : r.id \in IdsOf(saved)
  BY <1>2 DEF Elements, IdsOf
<1>6. ASSUME NEW i \in DOMAIN saved PROVE at(saved[i].id) = i
  BY <1>2, <1>6 DEF DistinctIds
<1>7. ASSUME NEW i \in DOMAIN saved
      PROVE  saved[i].id \in resolved <=> Resolver(Range(saved[i])) # NoDevice
  <2>1. ASSUME saved[i].id \in resolved PROVE i \in known
    <3>1. PICK k \in known : saved[k].id = saved[i].id
      BY <2>1
    <3>2. k = i
      BY <1>2, <1>7, <3>1 DEF DistinctIds
    <3> QED
      BY <3>1, <3>2
  <2>2. ASSUME i \in known PROVE saved[i].id \in resolved
    BY <2>2
  <2> QED
    BY <1>7, <2>1, <2>2
<1>8. \A r \in Elements(saved) : r.id \in resolved <=> host[Range(r)] # NoDevice
  <2> HIDE DEF resolved, saved
  <2> QED
    BY <1>2, <1>4, <1>7 DEF Elements
<1>9. \A r \in Elements(saved) : r.id \in resolved => device'[r.id] = host[Range(r)]
  <2> SUFFICES ASSUME NEW i \in DOMAIN saved, saved[i].id \in resolved
               PROVE  device'[saved[i].id] = host[Range(saved[i])]
    BY <1>2 DEF Elements
  <2>1. saved[i] \in Elements(saved)
    BY <1>2 DEF Elements
  <2>2. saved[i].id \in Ids /\ Resolver(Range(saved[i])) = host[Range(saved[i])]
    BY <1>3, <1>4, <2>1
  <2>3. at(saved[i].id) = i
    BY <1>6
  <2> HIDE DEF resolved, at, saved
  <2> QED
    BY <1>1, <2>2, <2>3
<1>10. device' \in [Ids -> Devices \cup {NoDevice}]
  <2> SUFFICES ASSUME NEW id \in Ids, id \in resolved
               PROVE  Resolver(Range(saved[at(id)])) \in Devices \cup {NoDevice}
    <3> HIDE DEF resolved, at, saved
    <3> QED
      BY <1>1
  <2>1. PICK k \in known : saved[k].id = id
    OBVIOUS
  <2>2. at(id) = k /\ k \in DOMAIN saved
    BY <1>6, <2>1
  <2>3. saved[k] \in Elements(saved)
    BY <1>2, <2>2 DEF Elements
  <2>4. Resolver(Range(saved[k])) = host[Range(saved[k])] /\ Range(saved[k]) \in HostRanges
    BY <1>3, <1>4, <2>3
  <2> HIDE DEF at, saved, known
  <2> QED
    BY <2>2, <2>4 DEF DevicesInv
<1> DEFINE drop == IdsOf(saved) \ resolved
<1>11. Elements(mmio') = {r \in Elements(saved) : r.id \notin drop}
  <2>1. mmio' = DropIds(saved, drop)
    BY <1>1
  <2> HIDE DEF drop, saved
  <2> QED
    BY <1>2, <2>1, DropIdsElements
<1> HIDE DEF resolved, saved
<1>12. Elements(mmio') = {r \in Elements(saved) : host[Range(r)] # NoDevice}
  BY <1>5, <1>8, <1>11
<1>13. \A r \in Elements(mmio') : device'[r.id] = host[Range(r)]
  BY <1>8, <1>9, <1>12
<1>14. \A range : Resolver(range)' = Resolver(range)
  BY <1>1 DEF Resolver, BindingOf, Lowest
<1>15. Elements(mmioSaved') = Elements(saved) /\ host' = host /\ bindings' = bindings
  BY <1>1
<1>16. \A r \in Elements(mmio') \cup Elements(mmioSaved') : Range(r) \in HostRanges /\ r.id \in Ids
  BY <1>3, <1>12, <1>15
<1>17. Elements(mmio') = {r \in Elements(mmioSaved') : host'[Range(r)] # NoDevice}
  BY <1>12, <1>15
<1>18. \A r \in Elements(mmio') : device'[r.id] = host'[Range(r)]
  BY <1>13, <1>15
<1> QED
  BY <1>10, <1>14, <1>15, <1>16, <1>17, <1>18 DEF DevicesInv, Range

(* The process ends, the buffer stays.                                     *)
LEMMA RestartKeepsDevices ==
    ASSUME DevicesInv, RegionsInv', restart, layer' = layer PROVE DevicesInv'
<1>1. /\ mmio' = <<>> /\ mmioSaved' = mmioSaved /\ device' = NoDevices /\ bindings' = <<>>
      /\ host' = NothingMapped /\ restored' = FALSE
  BY DEF restart
<1>2. bindings' \in Seq(Binding) /\ Elements(mmio') = {}
  BY <1>1, EmptyList
<1>3. host' \in [HostRanges -> Devices \cup {NoDevice}] /\ device' \in [Ids -> Devices \cup {NoDevice}]
  BY <1>1 DEF NoDevices, NothingMapped
<1>4. \A range \in HostRanges : Resolver(range)' = host'[range]
  BY <1>1 DEF Resolver, BindingOf, NothingMapped
<1>5. layer' = "backend" => \A r \in Elements(mmio') \cup Elements(mmioSaved') :
                               Range(r) \in HostRanges /\ r.id \in Ids
  BY <1>1, <1>2 DEF DevicesInv
<1> QED
  BY <1>1, <1>2, <1>3, <1>4, <1>5 DEF DevicesInv, Range

(* Steps that leave devices and regions alone.                             *)
LEMMA DevicesKept ==
    ASSUME DevicesInv, RegionsInv',
           UNCHANGED <<layer, mmio, mmioSaved, device, bindings, host, restored>>
    PROVE  DevicesInv'
<1>1. \A range : Resolver(range)' = Resolver(range)
  BY DEF Resolver, BindingOf, Lowest
<1> QED
  BY <1>1 DEF DevicesInv, Range

LEMMA NextDevicesInv == DevicesInv /\ [AnyNext]_allVars => DevicesInv'
<1> SUFFICES ASSUME DevicesInv, [AnyNext]_allVars PROVE DevicesInv'
  OBVIOUS
<1>1. RegionsInv'
  BY NextRegionsInv DEF DevicesInv
<1>2. CASE CoreNext
  <2>1. /\ layer = "core" /\ layer' = layer /\ UNCHANGED <<device, bindings, host, restored>>
    BY <1>2 DEF CoreNext, backendVars
  <2>2. \A range : Resolver(range)' = Resolver(range)
    BY <2>1 DEF Resolver, BindingOf, Lowest
  <2> QED
    BY <1>1, <2>1, <2>2 DEF DevicesInv
<1>3. CASE layer' = layer /\ \E range \in HostRanges, dev \in Devices : map_mmio(range, dev)
  BY <1>1, <1>3, MapKeepsDevices
<1>4. CASE layer' = layer /\ serialize_state
  BY <1>1, <1>4, SerializeKeepsDevices
<1>5. CASE layer' = layer /\ layer = "backend" /\ deserialize_state
  BY <1>1, <1>5, DeserializeKeepsDevices
<1>6. CASE layer' = layer /\ restart
  BY <1>1, <1>6, RestartKeepsDevices
<1>7. CASE layer' = layer /\ hook_memory
  BY <1>1, <1>7, DevicesKept DEF hook_memory
<1>8. CASE layer' = layer /\ (hook_executor \/ make_local_hook \/ \E h \in hooks : delete_hook(h))
  BY <1>1, <1>8, DevicesKept DEF hook_executor, make_local_hook, delete_hook, mmioVars
<1>9. CASE UNCHANGED allVars
  BY <1>1, <1>9, DevicesKept DEF allVars, mmioVars, backendVars
<1> QED
  BY <1>2, <1>3, <1>4, <1>5, <1>6, <1>7, <1>8, <1>9 DEF AnyNext, BackendNext

(* After deserialize_state every access the saved regions contained is     *)
(* answered by the device the host registered last for a region that       *)
(* contains it, and unanswered only when it registered none, across any    *)
(* number of registrations, snapshots and restarts of the process.         *)
THEOREM RestoredDevicesAnswer == BackendSpec => []RestoredDevices
<1>1. BackendInit => DevicesInv
  <2> SUFFICES ASSUME BackendInit PROVE DevicesInv
    OBVIOUS
  <2>1. /\ mmio = <<>> /\ mmioSaved = <<>> /\ device = NoDevices /\ bindings = <<>>
        /\ host = NothingMapped /\ restored = FALSE
    BY DEF BackendInit, MmioInit
  <2>2. bindings \in Seq(Binding) /\ Elements(mmio) = {} /\ Elements(mmioSaved) = {}
    BY <2>1, EmptyList
  <2>3. host \in [HostRanges -> Devices \cup {NoDevice}] /\ device \in [Ids -> Devices \cup {NoDevice}]
    BY <2>1 DEF NoDevices, NothingMapped
  <2>4. \A range \in HostRanges : Resolver(range) = host[range]
    BY <2>1 DEF Resolver, BindingOf, NothingMapped
  <2> QED
    BY <2>1, <2>2, <2>3, <2>4, InitRegionsInv DEF DevicesInv
<1>2. DevicesInv /\ BoundsNeverHide => RestoredDevices
  <2> SUFFICES ASSUME DevicesInv, BoundsNeverHide, restored,
                      NEW addr \in Addr, NEW size \in 1..AddrSpace-1
               PROVE  LET k == FindMmioRegion(addr, size)
                      IN /\ k # 0 <=> \E j \in DOMAIN mmioSaved :
                               Contains(mmioSaved[j], addr, size) /\ host[Range(mmioSaved[j])] # NoDevice
                         /\ k # 0 => device[mmio[k].id] = host[Range(mmio[k])]
    BY DEF RestoredDevices
  <2> DEFINE k == FindMmioRegion(addr, size)
  <2>1. k = FirstContaining(mmio, addr, size)
    BY DEF BoundsNeverHide
  <2>2. mmio \in Seq(Region) /\ mmioSaved \in Seq(Region)
    BY DEF DevicesInv, RegionsInv
  <2>3. /\ k # 0 <=> \E r \in Elements(mmio) : Contains(r, addr, size)
        /\ k # 0 => k \in DOMAIN mmio
    BY <2>1, <2>2, FirstExact
  <2> HIDE DEF k
  <2>4. /\ Elements(mmio) = {r \in Elements(mmioSaved) : host[Range(r)] # NoDevice}
        /\ \A r \in Elements(mmio) : device[r.id] = host[Range(r)]
    BY DEF DevicesInv
  <2>5. k # 0 <=> \E j \in DOMAIN mmioSaved :
                     Contains(mmioSaved[j], addr, size) /\ host[Range(mmioSaved[j])] # NoDevice
    <3>1. DOMAIN mmioSaved = 1..Len(mmioSaved)
      BY <2>2, ElementsTyped
    <3>2. (\E r \in Elements(mmioSaved) : Contains(r, addr, size) /\ host[Range(r)] # NoDevice) <=>
          \E j \in DOMAIN mmioSaved :
              Contains(mmioSaved[j], addr, size) /\ host[Range(mmioSaved[j])] # NoDevice
      BY <3>1 DEF Elements
    <3> QED
      BY <2>3, <2>4, <3>2
  <2>6. k # 0 => device[mmio[k].id] = host[Range(mmio[k])]
    <3>1. DOMAIN mmio = 1..Len(mmio)
      BY <2>2, ElementsTyped
    <3>2. k # 0 => mmio[k] \in Elements(mmio)
      BY <2>3, <3>1 DEF Elements
    <3> QED
      BY <2>4, <3>2
  <2> QED
    BY <2>5, <2>6 DEF k
<1> QED
  BY <1>1, <1>2, NextDevicesInv, NoRegionHidden, PTL DEF BackendSpec
=============================================================================
