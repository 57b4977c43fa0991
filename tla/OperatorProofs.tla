--------------------------- MODULE OperatorProofs ---------------------------
(* Facts about the pure operators of the models, for every argument:       *)
(* induction over numbers and sequences, division, the erasing of elements *)
(* by id, and the flag helpers of the instruction handlers.                *)
EXTENDS FlagMath, SeqFilter, TLAPS, WellFoundedInduction

(* Induction over the natural numbers, for a set instead of a predicate.   *)
LEMMA NatsByInduction ==
    ASSUME NEW A, 0 \in A, \A n \in Nat : n \in A => n + 1 \in A
    PROVE  Nat \subseteq A
<1> SUFFICES ASSUME ~(Nat \subseteq A) PROVE FALSE
  OBVIOUS
<1> DEFINE T == Nat \ A
<1>1. T \subseteq Nat /\ T # {}
  OBVIOUS
<1>2. \E x \in T : \A y \in T : ~(<<y, x>> \in OpToRel(<, Nat))
  <2> HIDE DEF T
  <2> QED BY <1>1, NatLessThanWellFounded, WFMin, Zenon
<1>3. PICK x \in T : \A y \in T : ~(<<y, x>> \in OpToRel(<, Nat))
  BY <1>2, Zenon
<1>4. \A y \in T : ~(y < x)
  <2> HIDE DEF T
  <2> QED BY <1>1, <1>3, Zenon DEF OpToRel
<1>5. x \in Nat /\ x # 0
  BY <1>3
<1>6. x - 1 \in Nat /\ x - 1 < x /\ (x - 1) + 1 = x
  BY <1>5
<1>7. x - 1 \notin T
  BY <1>4, <1>6
<1>8. x - 1 \in A
  BY <1>6, <1>7
<1>9. (x - 1) + 1 \in A
  BY <1>6, <1>8
<1> QED
  BY <1>3, <1>6, <1>9

(* Induction over sequences, built up with Append.                         *)
LEMMA SeqsByInduction ==
    ASSUME NEW S, NEW A, <<>> \in A,
           \A s \in Seq(S), x \in S : s \in A => Append(s, x) \in A
    PROVE  Seq(S) \subseteq A
<1> DEFINE B == {n \in Nat : \A s \in Seq(S) : Len(s) = n => s \in A}
<1>1. 0 \in B
  <2>1. \A s \in Seq(S) : Len(s) = 0 => s = <<>>
    OBVIOUS
  <2> QED
    BY <2>1
<1>2. ASSUME NEW n \in Nat, n \in B PROVE n + 1 \in B
  <2> SUFFICES ASSUME NEW s \in Seq(S), Len(s) = n + 1 PROVE s \in A
    OBVIOUS
  <2> DEFINE front == [i \in 1..n |-> s[i]]
  <2>1. front \in Seq(S) /\ Len(front) = n
    OBVIOUS
  <2>2. front \in A
    BY <1>2, <2>1
  <2>3. s[n + 1] \in S
    OBVIOUS
  <2>4. s = Append(front, s[n + 1])
    OBVIOUS
  <2> QED
    BY <2>1, <2>2, <2>3, <2>4
<1>3. Nat \subseteq B
  <2> HIDE DEF B
  <2> QED
    BY <1>1, <1>2, NatsByInduction
<1> QED
  BY <1>3

(* A non-empty set of naturals has a smallest element.                     *)
LEMMA SmallestNat ==
    ASSUME NEW S \in SUBSET Nat, S # {}
    PROVE  \E k \in S : \A j \in S : k <= j
<1>1. \E x \in S : \A y \in S : ~(<<y, x>> \in OpToRel(<, Nat))
  BY NatLessThanWellFounded, WFMin, Zenon
<1>2. PICK x \in S : \A y \in S : ~(<<y, x>> \in OpToRel(<, Nat))
  BY <1>1, Zenon
<1>3. \A y \in S : ~(y < x)
  BY <1>2, Zenon DEF OpToRel
<1>4. x \in S
  BY <1>2, Zenon
<1> QED
  BY <1>3, <1>4

(* A non-empty set of step numbers below a bound has a largest element.    *)
LEMMA LargestStep ==
    ASSUME NEW n \in Nat, NEW S \in SUBSET (0..n-1), S # {}
    PROVE  \E k \in S : \A j \in S : j <= k
<1> DEFINE T == {n - 1 - k : k \in S}
<1>1. T \subseteq Nat /\ T # {}
  <2>1. \A k \in S : n - 1 - k \in Nat
    OBVIOUS
  <2> QED BY <2>1
<1>2. \A j \in S : n - 1 - j \in T
  OBVIOUS
<1>3. \E x \in T : \A y \in T : ~(<<y, x>> \in OpToRel(<, Nat))
  <2> HIDE DEF T
  <2> QED BY <1>1, NatLessThanWellFounded, WFMin, Zenon
<1>4. PICK x \in T : \A y \in T : ~(<<y, x>> \in OpToRel(<, Nat))
  BY <1>3, Zenon
<1>5. \A y \in T : ~(y < x)
  <2> HIDE DEF T
  <2> QED BY <1>1, <1>4, Zenon DEF OpToRel
<1>6. \A y \in T : x <= y
  <2> TAKE y \in T
  <2>1. x \in Nat /\ y \in Nat
    BY <1>1, <1>4
  <2>2. ~(y < x)
    BY <1>5
  <2> HIDE DEF T
  <2> QED BY <2>1, <2>2
<1>7. PICK k \in S : x = n - 1 - k
  BY <1>4
<1>8. \A j \in S : j <= k
  BY <1>6, <1>7, <1>2
<1> QED BY <1>8

(* Division: a quotient is below n exactly when the number is below n * b. *)
LEMMA DivBelow ==
    ASSUME NEW a \in Nat, NEW b \in Nat \ {0}, NEW n \in Nat
    PROVE  a \div b < n <=> a < n * b
<1> DEFINE q == a \div b
           r == a % b
<1>1. q \in Nat /\ r \in 0..b-1 /\ a = b * q + r
  OBVIOUS
<1> HIDE DEF q, r
<1>2. CASE q < n
  <2>1. q + 1 <= n
    BY <1>1, <1>2
  <2>2. b * (q + 1) <= b * n
    BY <1>1, <2>1
  <2>3. b * (q + 1) = b * q + b /\ b * n = n * b
    BY <1>1
  <2> QED
    BY <1>1, <1>2, <2>2, <2>3 DEF q
<1>3. CASE ~(q < n)
  <2>1. b * n <= b * q
    BY <1>1, <1>3
  <2>2. b * n = n * b
    OBVIOUS
  <2> QED
    BY <1>1, <1>3, <2>1, <2>2 DEF q
<1> QED
  BY <1>2, <1>3

-----------------------------------------------------------------------------
(* The recursion of DropIds, for a function kept.                          *)
Drops(kept, list, ids) ==
    kept = [n \in 0..Len(list) |->
              IF n = 0 THEN <<>>
              ELSE IF list[n].id \in ids THEN kept[n-1]
              ELSE Append(kept[n-1], list[n])]

(* What it says of every step.                                             *)
LEMMA DropsUnfold ==
    ASSUME NEW f, NEW list, NEW ids, NEW m \in Nat, m = Len(list), Drops(f, list, ids)
    PROVE  /\ DOMAIN f = 0..m
           /\ f[0] = <<>>
           /\ \A n \in 1..m : list[n].id \in ids => f[n] = f[n-1]
           /\ \A n \in 1..m : list[n].id \notin ids => f[n] = Append(f[n-1], list[n])
<1> DEFINE g == [n \in 0..m |-> IF n = 0 THEN <<>>
                               ELSE IF list[n].id \in ids THEN f[n-1]
                               ELSE Append(f[n-1], list[n])]
<1>1. f = g
  BY Zenon DEF Drops
<1>2. /\ DOMAIN g = 0..m
      /\ g[0] = <<>>
      /\ \A n \in 1..m : list[n].id \in ids => g[n] = f[n-1]
      /\ \A n \in 1..m : list[n].id \notin ids => g[n] = Append(f[n-1], list[n])
  OBVIOUS
<1> HIDE DEF g
<1> QED
  BY <1>1, <1>2

(* There is such a function, whatever the list.                            *)
LEMMA DropsExists ==
    ASSUME NEW S, NEW ids
    PROVE  \A s \in Seq(S) : \E kept : Drops(kept, s, ids)
<1> DEFINE A == {s \in Seq(S) : \E kept : Drops(kept, s, ids)}
<1>1. <<>> \in A
  <2> DEFINE k == [n \in 0..0 |-> <<>>]
  <2>1. Drops(k, <<>>, ids)
    BY DEF Drops
  <2>2. <<>> \in Seq(S)
    OBVIOUS
  <2> QED
    BY <2>1, <2>2
<1>2. ASSUME NEW s \in Seq(S), NEW x \in S, s \in A PROVE Append(s, x) \in A
  <2>1. PICK f : Drops(f, s, ids)
    BY <1>2
  <2> DEFINE t == Append(s, x)
             m == Len(s)
             k == [n \in 0..m+1 |-> IF n <= m THEN f[n]
                                    ELSE IF x.id \in ids THEN f[m] ELSE Append(f[m], x)]
  <2>2. t \in Seq(S) /\ Len(t) = m + 1 /\ m \in Nat /\ t[m + 1] = x /\ \A i \in 1..m : t[i] = s[i]
    OBVIOUS
  <2>3. /\ DOMAIN f = 0..m /\ f[0] = <<>>
        /\ \A n \in 1..m : s[n].id \in ids => f[n] = f[n-1]
        /\ \A n \in 1..m : s[n].id \notin ids => f[n] = Append(f[n-1], s[n])
    BY <2>1, <2>2, DropsUnfold
  <2> HIDE DEF t, m
  <2>4. ASSUME NEW n \in 0..m+1
        PROVE  k[n] = IF n = 0 THEN <<>>
                      ELSE IF t[n].id \in ids THEN k[n-1] ELSE Append(k[n-1], t[n])
    <3>1. CASE n = 0
      BY <2>2, <2>3, <3>1
    <3>2. CASE n \in 1..m
      <4>1. k[n] = f[n] /\ k[n-1] = f[n-1] /\ t[n] = s[n]
        BY <2>2, <3>2
      <4> QED
        BY <2>2, <2>3, <3>2, <4>1
    <3>3. CASE n = m + 1
      <4>1. k[n-1] = f[m] /\ t[n] = x /\ n # 0
        BY <2>2, <3>3
      <4>2. k[n] = IF x.id \in ids THEN f[m] ELSE Append(f[m], x)
        BY <2>2, <3>3
      <4> QED
        BY <4>1, <4>2
    <3> QED
      BY <2>2, <3>1, <3>2, <3>3
  <2>5. Drops(k, t, ids)
    <3>1. k = [n \in 0..m+1 |-> k[n]]
      OBVIOUS
    <3> HIDE DEF k
    <3> QED
      BY <2>2, <2>4, <3>1 DEF Drops
  <2> QED
    BY <2>2, <2>5 DEF t
<1>3. Seq(S) \subseteq A
  <2> HIDE DEF A
  <2> QED
    BY <1>1, <1>2, SeqsByInduction
<1> QED
  BY <1>3

(* DropIds is one.                                                         *)
LEMMA DropIdsDrops ==
    ASSUME NEW S, NEW s \in Seq(S), NEW ids
    PROVE  \E kept : Drops(kept, s, ids) /\ DropIds(s, ids) = kept[Len(s)]
<1> DEFINE kept == CHOOSE k : Drops(k, s, ids)
<1>1. Drops(kept, s, ids)
  BY DropsExists
<1>2. DropIds(s, ids) = kept[Len(s)]
  BY DEF DropIds, Drops
<1> QED
  BY <1>1, <1>2

(* Two such functions agree as long as their lists do.                     *)
LEMMA DropsAgree ==
    ASSUME NEW f, NEW g, NEW s, NEW t, NEW ids, NEW m \in Nat, NEW n \in Nat,
           m = Len(s), n = Len(t), m <= n, \A i \in 1..m : s[i] = t[i],
           Drops(f, s, ids), Drops(g, t, ids)
    PROVE  f[m] = g[m]
<1> DEFINE A == {k \in Nat : k <= m => f[k] = g[k]}
<1>1. /\ f[0] = <<>>
      /\ \A k \in 1..m : s[k].id \in ids => f[k] = f[k-1]
      /\ \A k \in 1..m : s[k].id \notin ids => f[k] = Append(f[k-1], s[k])
  BY DropsUnfold
<1>2. /\ g[0] = <<>>
      /\ \A k \in 1..n : t[k].id \in ids => g[k] = g[k-1]
      /\ \A k \in 1..n : t[k].id \notin ids => g[k] = Append(g[k-1], t[k])
  BY DropsUnfold
<1>3. 0 \in A
  BY <1>1, <1>2
<1>4. ASSUME NEW k \in Nat, k \in A PROVE k + 1 \in A
  <2> SUFFICES ASSUME k + 1 <= m PROVE f[k + 1] = g[k + 1]
    OBVIOUS
  <2>1. f[k] = g[k] /\ k + 1 \in 1..m /\ k + 1 \in 1..n /\ (k + 1) - 1 = k
    BY <1>4
  <2>2. s[k + 1] = t[k + 1]
    BY <2>1
  <2>3. CASE s[k + 1].id \in ids
    BY <1>1, <1>2, <2>1, <2>2, <2>3
  <2>4. CASE s[k + 1].id \notin ids
    <3>1. f[k + 1] = Append(f[k], s[k + 1])
      BY <1>1, <2>1, <2>4
    <3>2. g[k + 1] = Append(g[k], t[k + 1])
      BY <1>2, <2>1, <2>2, <2>4
    <3> QED
      BY <2>1, <2>2, <3>1, <3>2
  <2> QED
    BY <2>3, <2>4
<1>5. Nat \subseteq A
  <2> HIDE DEF A
  <2> QED
    BY <1>3, <1>4, NatsByInduction
<1> QED
  BY <1>5

(* So DropIds obeys the equations one expects of it.                       *)
LEMMA DropIdsEmpty == \A ids : DropIds(<<>>, ids) = <<>>
<1> TAKE ids
<1>1. <<>> \in Seq({}) /\ Len(<<>>) = 0
  OBVIOUS
<1>2. PICK f : Drops(f, <<>>, ids) /\ DropIds(<<>>, ids) = f[0]
  BY <1>1, DropIdsDrops
<1> QED
  BY <1>1, <1>2, DropsUnfold

LEMMA DropIdsAppend ==
    ASSUME NEW S, NEW s \in Seq(S), NEW x \in S, NEW ids
    PROVE  /\ x.id \in ids => DropIds(Append(s, x), ids) = DropIds(s, ids)
           /\ x.id \notin ids => DropIds(Append(s, x), ids) = Append(DropIds(s, ids), x)
<1> DEFINE t == Append(s, x)
           m == Len(s)
<1>1. t \in Seq(S) /\ Len(t) = m + 1 /\ m \in Nat /\ t[m + 1] = x /\ \A i \in 1..m : t[i] = s[i]
  OBVIOUS
<1> HIDE DEF t
<1>2. PICK f : Drops(f, s, ids) /\ DropIds(s, ids) = f[m]
  BY DropIdsDrops
<1>3. PICK g : Drops(g, t, ids) /\ DropIds(t, ids) = g[m + 1]
  BY <1>1, DropIdsDrops
<1> HIDE DEF m
<1>4. f[m] = g[m]
  <2>1. m = Len(s)
    BY DEF m
  <2>2. m + 1 \in Nat /\ m <= m + 1
    BY <1>1
  <2> QED
    BY <1>1, <1>2, <1>3, <2>1, <2>2, DropsAgree
<1>5. /\ t[m + 1].id \in ids => g[m + 1] = g[m]
      /\ t[m + 1].id \notin ids => g[m + 1] = Append(g[m], t[m + 1])
  <2>1. m + 1 \in Nat /\ m + 1 \in 1..(m + 1) /\ (m + 1) - 1 = m
    BY <1>1
  <2> DEFINE n == m + 1
  <2>2. /\ \A k \in 1..n : t[k].id \in ids => g[k] = g[k-1]
        /\ \A k \in 1..n : t[k].id \notin ids => g[k] = Append(g[k-1], t[k])
    <3>1. n \in Nat /\ n = Len(t)
      BY <1>1, <2>1
    <3> HIDE DEF n
    <3> QED
      BY <1>3, <3>1, DropsUnfold
  <2> QED
    BY <2>1, <2>2
<1> QED
  BY <1>1, <1>2, <1>3, <1>4, <1>5 DEF t

(* What is left is a list of the same elements,                            *)
LEMMA DropIdsType ==
    ASSUME NEW S, NEW ids PROVE \A s \in Seq(S) : DropIds(s, ids) \in Seq(S)
<1> DEFINE A == {s \in Seq(S) : DropIds(s, ids) \in Seq(S)}
<1>1. <<>> \in A
  <2>1. <<>> \in Seq(S)
    OBVIOUS
  <2>2. DropIds(<<>>, ids) = <<>>
    BY DropIdsEmpty
  <2> QED
    BY <2>1, <2>2
<1>2. ASSUME NEW s \in Seq(S), NEW x \in S, s \in A PROVE Append(s, x) \in A
  <2>1. Append(s, x) \in Seq(S)
    OBVIOUS
  <2>2. DropIds(s, ids) \in Seq(S)
    BY <1>2
  <2>3. Append(DropIds(s, ids), x) \in Seq(S)
    BY <2>2
  <2> QED
    BY <2>1, <2>2, <2>3, DropIdsAppend
<1>3. Seq(S) \subseteq A
  <2> HIDE DEF A
  <2> QED
    BY <1>1, <1>2, SeqsByInduction
<1> QED
  BY <1>3

(* all of them when no id is dropped,                                      *)
LEMMA DropIdsNone ==
    ASSUME NEW S PROVE \A s \in Seq(S) : DropIds(s, {}) = s
<1> DEFINE A == {s \in Seq(S) : DropIds(s, {}) = s}
<1>1. <<>> \in A
  BY DropIdsEmpty
<1>2. ASSUME NEW s \in Seq(S), NEW x \in S, s \in A PROVE Append(s, x) \in A
  <2>1. Append(s, x) \in Seq(S)
    OBVIOUS
  <2>2. DropIds(s, {}) = s
    BY <1>2
  <2>3. DropIds(Append(s, x), {}) = Append(DropIds(s, {}), x)
    BY DropIdsAppend
  <2> QED
    BY <2>1, <2>2, <2>3
<1>3. Seq(S) \subseteq A
  <2> HIDE DEF A
  <2> QED
    BY <1>1, <1>2, SeqsByInduction
<1> QED
  BY <1>3

(* and dropping ids one after another is dropping them together.           *)
LEMMA DropIdsTwice ==
    ASSUME NEW S, NEW I, NEW J
    PROVE  \A s \in Seq(S) : DropIds(DropIds(s, I), J) = DropIds(s, I \cup J)
<1> DEFINE A == {s \in Seq(S) : DropIds(DropIds(s, I), J) = DropIds(s, I \cup J)}
<1>1. <<>> \in A
  BY DropIdsEmpty
<1>2. ASSUME NEW s \in Seq(S), NEW x \in S, s \in A PROVE Append(s, x) \in A
  <2> DEFINE t == Append(s, x)
             d == DropIds(s, I)
  <2>1. t \in Seq(S) /\ d \in Seq(S)
    BY DropIdsType
  <2>2. DropIds(d, J) = DropIds(s, I \cup J)
    BY <1>2
  <2>3. CASE x.id \in I
    <3>1. DropIds(t, I) = d
      BY <2>3, DropIdsAppend
    <3>2. DropIds(t, I \cup J) = DropIds(s, I \cup J)
      BY <2>3, DropIdsAppend
    <3> QED
      BY <2>1, <2>2, <3>1, <3>2
  <2>4. CASE x.id \notin I
    <3>1. DropIds(t, I) = Append(d, x)
      BY <2>4, DropIdsAppend
    <3> HIDE DEF d, t
    <3>2. CASE x.id \in J
      <4>1. DropIds(Append(d, x), J) = DropIds(d, J)
        BY <2>1, <3>2, DropIdsAppend
      <4>2. DropIds(t, I \cup J) = DropIds(s, I \cup J)
        BY <3>2, DropIdsAppend DEF t
      <4> QED
        BY <2>1, <2>2, <3>1, <4>1, <4>2 DEF t
    <3>3. CASE x.id \notin J
      <4>1. DropIds(Append(d, x), J) = Append(DropIds(d, J), x)
        BY <2>1, <3>3, DropIdsAppend
      <4>2. DropIds(t, I \cup J) = Append(DropIds(s, I \cup J), x)
        BY <2>4, <3>3, DropIdsAppend DEF t
      <4> QED
        BY <2>1, <2>2, <3>1, <4>1, <4>2 DEF t
    <3> QED
      BY <3>2, <3>3
  <2> QED
    BY <2>3, <2>4
<1>3. Seq(S) \subseteq A
  <2> HIDE DEF A
  <2> QED
    BY <1>1, <1>2, SeqsByInduction
<1> QED
  BY <1>3

(* The elements of a list after an element was appended.                   *)
Elements(s) == {s[i] : i \in 1..Len(s)}

LEMMA ElementsAppend ==
    ASSUME NEW S, NEW s \in Seq(S), NEW x \in S
    PROVE  Elements(Append(s, x)) = Elements(s) \cup {x}
<1> DEFINE t == Append(s, x)
           m == Len(s)
<1>1. t \in Seq(S) /\ Len(t) = m + 1 /\ m \in Nat /\ t[m + 1] = x /\ \A i \in 1..m : t[i] = s[i]
  OBVIOUS
<1> HIDE DEF t
<1>2. \A i \in 1..(m + 1) : i \in 1..m \/ i = m + 1
  BY <1>1
<1>3. \A i \in 1..m : i \in 1..(m + 1)
  BY <1>1
<1>4. m + 1 \in 1..(m + 1)
  BY <1>1
<1> HIDE DEF m
<1>5. m = Len(s)
  BY DEF m
<1> QED
  BY <1>1, <1>2, <1>3, <1>4, <1>5 DEF Elements, t

(* What is left are the elements whose id is not dropped.                  *)
LEMMA DropIdsElements ==
    ASSUME NEW S, NEW ids
    PROVE  \A s \in Seq(S) : Elements(DropIds(s, ids)) = {x \in Elements(s) : x.id \notin ids}
<1> DEFINE A == {s \in Seq(S) : Elements(DropIds(s, ids)) = {x \in Elements(s) : x.id \notin ids}}
<1>1. <<>> \in A
  BY DropIdsEmpty DEF Elements
<1>2. ASSUME NEW s \in Seq(S), NEW x \in S, s \in A PROVE Append(s, x) \in A
  <2>1. Append(s, x) \in Seq(S) /\ DropIds(s, ids) \in Seq(S)
    BY DropIdsType
  <2>2. Elements(DropIds(s, ids)) = {y \in Elements(s) : y.id \notin ids}
    BY <1>2
  <2>3. Elements(Append(s, x)) = Elements(s) \cup {x}
    BY ElementsAppend
  <2>4. CASE x.id \in ids
    BY <2>1, <2>2, <2>3, <2>4, DropIdsAppend
  <2>5. CASE x.id \notin ids
    <3>1. Elements(Append(DropIds(s, ids), x)) = Elements(DropIds(s, ids)) \cup {x}
      BY <2>1, ElementsAppend
    <3>2. DropIds(Append(s, x), ids) = Append(DropIds(s, ids), x)
      BY <2>5, DropIdsAppend
    <3> QED
      BY <2>1, <2>2, <2>3, <2>5, <3>1, <3>2
  <2> QED
    BY <2>4, <2>5
<1>3. Seq(S) \subseteq A
  <2> HIDE DEF A
  <2> QED
    BY <1>1, <1>2, SeqsByInduction
<1> QED
  BY <1>3

(* No two elements of a list carry the same id.                            *)
DistinctIds(s) == \A i, j \in 1..Len(s) : s[i].id = s[j].id => i = j

LEMMA DistinctAppend ==
    ASSUME NEW S, NEW s \in Seq(S), NEW x \in S
    PROVE  DistinctIds(Append(s, x)) <=>
           DistinctIds(s) /\ \A y \in Elements(s) : y.id # x.id
<1> DEFINE t == Append(s, x)
           m == Len(s)
<1>1. t \in Seq(S) /\ Len(t) = m + 1 /\ m \in Nat /\ t[m + 1] = x /\ \A i \in 1..m : t[i] = s[i]
  OBVIOUS
<1> HIDE DEF t
<1>2. \A i \in 1..(m + 1) : i \in 1..m \/ i = m + 1
  BY <1>1
<1>3. \A i \in 1..m : i \in 1..(m + 1) /\ i # m + 1
  BY <1>1
<1>4. m + 1 \in 1..(m + 1)
  BY <1>1
<1> HIDE DEF m
<1>5. m = Len(s)
  BY DEF m
<1>6. (\A y \in Elements(s) : y.id # x.id) <=> (\A i \in 1..m : s[i].id # x.id)
  BY <1>5 DEF Elements
<1>7. DistinctIds(t) <=> \A i, j \in 1..(m + 1) : t[i].id = t[j].id => i = j
  BY <1>1 DEF DistinctIds
<1>8. DistinctIds(s) <=> \A i, j \in 1..m : t[i].id = t[j].id => i = j
  BY <1>1, <1>5 DEF DistinctIds
<1>9. (\A i, j \in 1..(m + 1) : t[i].id = t[j].id => i = j) <=>
        /\ \A i, j \in 1..m : t[i].id = t[j].id => i = j
        /\ \A i \in 1..m : t[i].id # t[m + 1].id
  BY <1>2, <1>3, <1>4
<1> QED
  BY <1>1, <1>6, <1>7, <1>8, <1>9 DEF t

(* Dropping elements keeps the ids distinct.                               *)
LEMMA DropIdsDistinct ==
    ASSUME NEW S, NEW ids
    PROVE  \A s \in Seq(S) : DistinctIds(s) => DistinctIds(DropIds(s, ids))
<1> DEFINE A == {s \in Seq(S) : DistinctIds(s) => DistinctIds(DropIds(s, ids))}
<1>1. <<>> \in A
  BY DropIdsEmpty
<1>2. ASSUME NEW s \in Seq(S), NEW x \in S, s \in A PROVE Append(s, x) \in A
  <2>1. Append(s, x) \in Seq(S) /\ DropIds(s, ids) \in Seq(S)
    BY DropIdsType
  <2> SUFFICES ASSUME DistinctIds(Append(s, x))
               PROVE  DistinctIds(DropIds(Append(s, x), ids))
    BY <2>1
  <2>2. DistinctIds(s) /\ \A y \in Elements(s) : y.id # x.id
    BY DistinctAppend
  <2>3. DistinctIds(DropIds(s, ids))
    BY <1>2, <2>2
  <2>4. \A y \in Elements(DropIds(s, ids)) : y.id # x.id
    BY <2>2, DropIdsElements
  <2>5. DistinctIds(Append(DropIds(s, ids), x))
    BY <2>1, <2>3, <2>4, DistinctAppend
  <2> QED
    BY <2>3, <2>5, DropIdsAppend
<1>3. Seq(S) \subseteq A
  <2> HIDE DEF A
  <2> QED
    BY <1>1, <1>2, SeqsByInduction
<1> QED
  BY <1>3

-----------------------------------------------------------------------------
(* The flag helpers are exact at every width: for operands of any even     *)
(* modulus m = 2 * h, held in a container of modulus c that either is that *)
(* of the operand (64-bit operands) or has room for one more bit (the      *)
(* narrower ones). TLC checks the handlers that use the helpers on three-  *)
(* bit bytes; the theorems here have no such bound.                        *)

(* The container of an operand: as wide, or at least one bit wider.        *)
FitsContainer(m, c) == c = m \/ 2 * m <= c

(* What the handlers compute: the sum and the difference, wrapped once.    *)
WrappedSum(m, lhs, rhs, carry) == Reduce(m, lhs + rhs + carry)
WrappedDifference(m, lhs, rhs, borrow) ==
    IF lhs - rhs - borrow < 0 THEN lhs - rhs - borrow + m ELSE lhs - rhs - borrow

-----------------------------------------------------------------------------
(* The halves of the signed range, with h for m \div 2.                    *)
LEMMA SignedRange ==
    ASSUME NEW h \in Nat \ {0}, NEW m \in Nat, m = 2 * h, NEW a \in 0 .. m - 1
    PROVE  /\ Sign(m, a) <=> a >= h
           /\ Signed(m, a) = IF a >= h THEN a - m ELSE a
           /\ Signed(m, a) \in -h .. h - 1
           /\ Sign(m, a) <=> Signed(m, a) < 0
<1>1. m \div 2 = h
  OBVIOUS
<1>2. QED
  BY <1>1 DEF Sign, Signed

(* CF after ADD and ADC, set_add_flags: set exactly when the integer sum   *)
(* does not fit, the carry out of the 64-bit container included.           *)
THEOREM AddCarryExact ==
    ASSUME NEW h \in Nat \ {0}, NEW m \in Nat, m = 2 * h, NEW c \in Nat, FitsContainer(m, c),
           NEW lhs \in 0 .. m - 1, NEW rhs \in 0 .. m - 1, NEW carry \in {0, 1}
    PROVE  AddCarry(m, c, lhs, rhs, carry) <=> lhs + rhs + carry >= m
<1>1. CASE c = m
  <2>1. CASE lhs + rhs >= m
    BY <1>1, <2>1 DEF AddCarry, Reduce
  <2>2. CASE lhs + rhs < m
    BY <1>1, <2>2 DEF AddCarry, Reduce
  <2> QED
    BY <2>1, <2>2
<1>2. CASE 2 * m <= c
  BY <1>2 DEF AddCarry, Reduce
<1>3. QED
  BY <1>1, <1>2 DEF FitsContainer

(* CF after SUB, SBB, CMP and NEG, set_sub_flags: set exactly when the     *)
(* subtrahend with its borrow exceeds the minuend, also when adding the    *)
(* borrow overflows the container (subtrahend_overflowed).                 *)
THEOREM SubBorrowExact ==
    ASSUME NEW h \in Nat \ {0}, NEW m \in Nat, m = 2 * h, NEW c \in Nat, FitsContainer(m, c),
           NEW lhs \in 0 .. m - 1, NEW rhs \in 0 .. m - 1, NEW borrow \in {0, 1}
    PROVE  SubBorrow(m, c, lhs, rhs, borrow) <=> lhs - rhs - borrow < 0
BY DEF SubBorrow, Reduce, FitsContainer

(* OF after an addition, read off three sign bits, says that the signed    *)
(* integer sum leaves the range of the operand; otherwise the result read  *)
(* as signed is that sum.                                                  *)
THEOREM AddOverflowExact ==
    ASSUME NEW h \in Nat \ {0}, NEW m \in Nat, m = 2 * h,
           NEW lhs \in 0 .. m - 1, NEW rhs \in 0 .. m - 1, NEW carry \in {0, 1}
    PROVE  LET exact == Signed(m, lhs) + Signed(m, rhs) + carry
               result == WrappedSum(m, lhs, rhs, carry)
           IN /\ AddOverflow(m, lhs, rhs, result) <=> exact \notin -h .. h - 1
              /\ ~AddOverflow(m, lhs, rhs, result) => Signed(m, result) = exact
<1> DEFINE result == WrappedSum(m, lhs, rhs, carry)
<1>1. result \in 0 .. m - 1
  BY DEF WrappedSum, Reduce
<1>2. result = IF lhs + rhs + carry >= m THEN lhs + rhs + carry - m ELSE lhs + rhs + carry
  BY DEF WrappedSum, Reduce
<1>3. /\ Sign(m, lhs) <=> lhs >= h
      /\ Sign(m, rhs) <=> rhs >= h
      /\ Sign(m, result) <=> result >= h
      /\ Signed(m, lhs) = IF lhs >= h THEN lhs - m ELSE lhs
      /\ Signed(m, rhs) = IF rhs >= h THEN rhs - m ELSE rhs
      /\ Signed(m, result) = IF result >= h THEN result - m ELSE result
  BY <1>1, SignedRange
<1>4. AddOverflow(m, lhs, rhs, result) <=> (lhs >= h <=> rhs >= h) /\ ~(lhs >= h <=> result >= h)
  <2>1. m \div 2 = h
    OBVIOUS
  <2> HIDE DEF result
  <2>2. QED
    BY <1>1, <2>1 DEF AddOverflow, Sign
<1> DEFINE exact == Signed(m, lhs) + Signed(m, rhs) + carry
<1> HIDE DEF result
<1>5. /\ AddOverflow(m, lhs, rhs, result) <=> exact \notin -h .. h - 1
      /\ ~AddOverflow(m, lhs, rhs, result) => Signed(m, result) = exact
  BY <1>1, <1>2, <1>3, <1>4
<1>6. QED
  BY <1>5 DEF result

(* OF after a subtraction, in the same sense.                              *)
THEOREM SubOverflowExact ==
    ASSUME NEW h \in Nat \ {0}, NEW m \in Nat, m = 2 * h,
           NEW lhs \in 0 .. m - 1, NEW rhs \in 0 .. m - 1, NEW borrow \in {0, 1}
    PROVE  LET exact == Signed(m, lhs) - Signed(m, rhs) - borrow
               result == WrappedDifference(m, lhs, rhs, borrow)
           IN /\ SubOverflow(m, lhs, rhs, result) <=> exact \notin -h .. h - 1
              /\ ~SubOverflow(m, lhs, rhs, result) => Signed(m, result) = exact
              /\ SubOverflow(m, lhs, rhs, result) => (Signed(m, result) < 0 <=> exact >= 0)
<1> DEFINE result == WrappedDifference(m, lhs, rhs, borrow)
<1>1. result \in 0 .. m - 1
  BY DEF WrappedDifference
<1>2. result = IF lhs - rhs - borrow < 0 THEN lhs - rhs - borrow + m ELSE lhs - rhs - borrow
  BY DEF WrappedDifference
<1>3. /\ Sign(m, lhs) <=> lhs >= h
      /\ Sign(m, rhs) <=> rhs >= h
      /\ Sign(m, result) <=> result >= h
      /\ Signed(m, lhs) = IF lhs >= h THEN lhs - m ELSE lhs
      /\ Signed(m, rhs) = IF rhs >= h THEN rhs - m ELSE rhs
      /\ Signed(m, result) = IF result >= h THEN result - m ELSE result
  BY <1>1, SignedRange
<1>4. SubOverflow(m, lhs, rhs, result) <=> ~(lhs >= h <=> rhs >= h) /\ ~(lhs >= h <=> result >= h)
  <2>1. m \div 2 = h
    OBVIOUS
  <2> HIDE DEF result
  <2>2. QED
    BY <1>1, <2>1 DEF SubOverflow, Sign
<1> DEFINE exact == Signed(m, lhs) - Signed(m, rhs) - borrow
<1> HIDE DEF result
<1>5. /\ SubOverflow(m, lhs, rhs, result) <=> exact \notin -h .. h - 1
      /\ ~SubOverflow(m, lhs, rhs, result) => Signed(m, result) = exact
      /\ SubOverflow(m, lhs, rhs, result) => (Signed(m, result) < 0 <=> exact >= 0)
  <2>1. CASE lhs >= h /\ rhs >= h
    BY <1>1, <1>2, <1>3, <1>4, <2>1
  <2>2. CASE lhs >= h /\ ~(rhs >= h)
    BY <1>1, <1>2, <1>3, <1>4, <2>2
  <2>3. CASE ~(lhs >= h) /\ rhs >= h
    BY <1>1, <1>2, <1>3, <1>4, <2>3
  <2>4. CASE ~(lhs >= h) /\ ~(rhs >= h)
    BY <1>1, <1>2, <1>3, <1>4, <2>4
  <2>5. QED
    BY <2>1, <2>2, <2>3, <2>4
<1>6. QED
  BY <1>5 DEF result

(* CMP followed by a conditional instruction: on the flags set_sub_flags   *)
(* leaves, each condition of eval_cond is the integer relation its name    *)
(* stands for, unsigned for b, ae, be and a, signed for l, ge, le and g.   *)
THEOREM ConditionsMatchComparison ==
    ASSUME NEW h \in Nat \ {0}, NEW m \in Nat, m = 2 * h, NEW c \in Nat, FitsContainer(m, c),
           NEW lhs \in 0 .. m - 1, NEW rhs \in 0 .. m - 1, NEW f \in Flags,
           f.cf = SubBorrow(m, c, lhs, rhs, 0),
           f.zf = (WrappedDifference(m, lhs, rhs, 0) = 0),
           f.sf = Sign(m, WrappedDifference(m, lhs, rhs, 0)),
           f.of = SubOverflow(m, lhs, rhs, WrappedDifference(m, lhs, rhs, 0))
    PROVE  /\ eval_cond(f, "b") <=> lhs < rhs
           /\ eval_cond(f, "ae") <=> lhs >= rhs
           /\ eval_cond(f, "e") <=> lhs = rhs
           /\ eval_cond(f, "ne") <=> lhs # rhs
           /\ eval_cond(f, "be") <=> lhs <= rhs
           /\ eval_cond(f, "a") <=> lhs > rhs
           /\ eval_cond(f, "l") <=> Signed(m, lhs) < Signed(m, rhs)
           /\ eval_cond(f, "ge") <=> Signed(m, lhs) >= Signed(m, rhs)
           /\ eval_cond(f, "le") <=> Signed(m, lhs) <= Signed(m, rhs)
           /\ eval_cond(f, "g") <=> Signed(m, lhs) > Signed(m, rhs)
<1> DEFINE result == WrappedDifference(m, lhs, rhs, 0)
           sl == Signed(m, lhs)
           sr == Signed(m, rhs)
<1>1. result \in 0 .. m - 1 /\ (result = 0 <=> lhs = rhs)
  BY DEF WrappedDifference
<1>2. /\ sl \in -h .. h - 1 /\ sr \in -h .. h - 1
      /\ sl = sr <=> lhs = rhs
      /\ Sign(m, result) <=> Signed(m, result) < 0
  <2>1. /\ Sign(m, result) <=> Signed(m, result) < 0
        /\ sl \in -h .. h - 1 /\ sr \in -h .. h - 1
        /\ sl = IF lhs >= h THEN lhs - m ELSE lhs
        /\ sr = IF rhs >= h THEN rhs - m ELSE rhs
    BY <1>1, SignedRange
  <2> HIDE DEF sl, sr, result
  <2>2. QED
    BY <2>1
<1>3. /\ f.cf <=> lhs < rhs
      /\ f.zf <=> lhs = rhs
  <2>1. SubBorrow(m, c, lhs, rhs, 0) <=> lhs - rhs - 0 < 0
    BY SubBorrowExact
  <2>2. f.cf <=> lhs - rhs - 0 < 0
    BY <2>1
  <2>3. lhs - rhs - 0 < 0 <=> lhs < rhs
    OBVIOUS
  <2>4. f.zf <=> lhs = rhs
    BY <1>1
  <2>5. QED
    BY <2>2, <2>3, <2>4
<1>4. /\ f.of <=> sl - sr \notin -h .. h - 1
      /\ ~f.of => (f.sf <=> sl - sr < 0)
      /\ f.of => (f.sf <=> sl - sr >= 0)
  <2>1. /\ SubOverflow(m, lhs, rhs, result) <=> sl - sr - 0 \notin -h .. h - 1
        /\ ~SubOverflow(m, lhs, rhs, result) => Signed(m, result) = sl - sr - 0
        /\ SubOverflow(m, lhs, rhs, result) => (Signed(m, result) < 0 <=> sl - sr - 0 >= 0)
    BY SubOverflowExact
  <2>2. /\ f.of <=> SubOverflow(m, lhs, rhs, result)
        /\ f.sf <=> Signed(m, result) < 0
    BY <1>2
  <2> HIDE DEF sl, sr, result
  <2>3. QED
    BY <1>2, <2>1, <2>2
<1> HIDE DEF sl, sr, result
<1>5. f.sf # f.of <=> sl < sr
  <2>1. f.sf \in BOOLEAN /\ f.of \in BOOLEAN
    BY DEF Flags
  <2>2. CASE f.of
    BY <1>2, <1>4, <2>1, <2>2
  <2>3. CASE ~f.of
    BY <1>2, <1>4, <2>1, <2>3
  <2>4. QED
    BY <2>1, <2>2, <2>3
<1>6. QED
  <2>1. /\ sl >= sr <=> ~(sl < sr)
        /\ sl <= sr <=> (sl < sr \/ lhs = rhs)
        /\ sl > sr <=> ~(sl < sr) /\ lhs # rhs
        /\ lhs >= rhs <=> ~(lhs < rhs)
        /\ lhs <= rhs <=> (lhs < rhs \/ lhs = rhs)
        /\ lhs > rhs <=> ~(lhs < rhs) /\ lhs # rhs
    BY <1>2
  <2>2. (f.sf = f.of) <=> ~(f.sf # f.of)
    OBVIOUS
  <2>3. /\ eval_cond(f, "b") <=> f.cf
        /\ eval_cond(f, "ae") <=> ~f.cf
        /\ eval_cond(f, "e") <=> f.zf
        /\ eval_cond(f, "ne") <=> ~f.zf
        /\ eval_cond(f, "be") <=> f.cf \/ f.zf
        /\ eval_cond(f, "a") <=> ~f.cf /\ ~f.zf
        /\ eval_cond(f, "l") <=> f.sf # f.of
        /\ eval_cond(f, "ge") <=> f.sf = f.of
        /\ eval_cond(f, "le") <=> f.zf \/ f.sf # f.of
        /\ eval_cond(f, "g") <=> ~f.zf /\ f.sf = f.of
    BY DEF eval_cond
  <2>4. QED
    BY <1>3, <1>5, <2>1, <2>2, <2>3 DEF sl, sr

(* A number is a multiple of the weight and a rest in exactly one way.     *)
LEMMA QuotientUnique ==
    ASSUME NEW b \in Nat \ {0}, NEW q \in Nat, NEW r \in 0 .. b - 1
    PROVE  (b * q + r) \div b = q /\ (b * q + r) % b = r
<1> DEFINE a == b * q + r
           p == a \div b
           s == a % b
<1>1. a \in Nat
  OBVIOUS
<1>2. p \in Nat /\ s \in 0 .. b - 1 /\ a = b * p + s
  <2> HIDE DEF a
  <2> QED BY <1>1
<1> HIDE DEF p, s
<1>3. b * p + s = b * q + r
  BY <1>2
<1> HIDE DEF a
<1>4. p = q
  <2>1. CASE p < q
    <3>1. b * (p + 1) <= b * q
      BY <1>2, <2>1
    <3>2. b * (p + 1) = b * p + b
      BY <1>2
    <3>3. b * p \in Nat /\ b * q \in Nat
      BY <1>2
    <3> QED BY <1>2, <1>3, <3>1, <3>2, <3>3
  <2>2. CASE q < p
    <3>1. b * (q + 1) <= b * p
      BY <1>2, <2>2
    <3>2. b * (q + 1) = b * q + b
      BY <1>2
    <3>3. b * p \in Nat /\ b * q \in Nat
      BY <1>2
    <3> QED BY <1>2, <1>3, <3>1, <3>2, <3>3
  <2> QED BY <1>2, <2>1, <2>2
<1>5. s = r
  BY <1>2, <1>3, <1>4
<1> QED BY <1>4, <1>5 DEF p, s, a

(* The lowest bits of a sum and of its two summands differ by the carry    *)
(* that came in, even after the sum has wrapped at an even number.         *)
LEMMA SumParity ==
    ASSUME NEW x \in Nat, NEW y \in Nat, NEW k \in {0, 1}, NEW n \in Nat, NEW z \in Nat,
           z = x + y + k \/ z + 2 * n = x + y + k
    PROVE  ((x % 2 = 1) # (y % 2 = 1)) # (z % 2 = 1) <=> k = 1
OBVIOUS

(* A multiple and a rest that are not negative together have a quotient    *)
(* that is not negative.                                                   *)
LEMMA MultipleSign ==
    ASSUME NEW b \in Nat \ {0}, NEW z \in Int, NEW r \in 0 .. b - 1, b * z + r >= 0
    PROVE  z \in Nat
<1> SUFFICES ASSUME z <= -1 PROVE FALSE
  OBVIOUS
<1>1. b * z <= b * (-1)
  OBVIOUS
<1>2. b * (-1) = -b /\ b * z \in Int
  OBVIOUS
<1>3. QED
  BY <1>1, <1>2

(* AF of set_add_flags, computed from one bit of the operands and of the   *)
(* wrapped result, is the carry out of the part below that bit, a carry    *)
(* in included. The weight is 16 in the code, and every operand width is a *)
(* multiple of twice that.                                                 *)
THEOREM AuxCarryExact ==
    ASSUME NEW weight \in Nat \ {0}, NEW n \in Nat \ {0}, NEW m \in Nat, m = weight * (2 * n),
           NEW lhs \in 0 .. m - 1, NEW rhs \in 0 .. m - 1, NEW carry \in {0, 1}
    PROVE  AuxCarryAt(weight, lhs, rhs, WrappedSum(m, lhs, rhs, carry))
               <=> (lhs % weight) + (rhs % weight) + carry >= weight
<1> DEFINE x == lhs \div weight
           y == rhs \div weight
           low == (lhs % weight) + (rhs % weight) + carry
           k == IF low >= weight THEN 1 ELSE 0
           rest == IF low >= weight THEN low - weight ELSE low
           result == WrappedSum(m, lhs, rhs, carry)
<1>1. /\ x \in Nat /\ (lhs % weight) \in 0 .. weight - 1 /\ lhs = weight * x + (lhs % weight)
      /\ y \in Nat /\ (rhs % weight) \in 0 .. weight - 1 /\ rhs = weight * y + (rhs % weight)
  OBVIOUS
<1>2. /\ result \in Nat
      /\ result = lhs + rhs + carry \/ result = lhs + rhs + carry - m
  BY DEF WrappedSum, Reduce
<1> HIDE DEF x, y, result
<1>3. /\ k \in {0, 1} /\ (k = 1 <=> low >= weight)
      /\ rest \in 0 .. weight - 1 /\ low = weight * k + rest
  BY <1>1
<1>4. lhs + rhs + carry = weight * x + weight * y + weight * k + rest
  <2> HIDE DEF k, rest
  <2>1. weight * x \in Nat /\ weight * y \in Nat /\ weight * k \in Nat
    BY <1>1, <1>3
  <2>2. QED
    BY <1>1, <1>3, <2>1
<1> HIDE DEF k, rest
<1>5. PICK z \in Nat : /\ z = x + y + k \/ z + 2 * n = x + y + k
                       /\ result = weight * z + rest
  <2>1. weight * x + weight * y + weight * k = weight * (x + y + k)
    BY <1>1, <1>3
  <2>2. CASE result = lhs + rhs + carry
    <3>1. x + y + k \in Nat /\ result = weight * (x + y + k) + rest
      BY <1>1, <1>3, <1>4, <2>1, <2>2
    <3>2. QED
      BY <3>1
  <2>3. CASE result = lhs + rhs + carry - m
    <3> DEFINE z == x + y + k - 2 * n
    <3>1. z \in Int /\ weight * z = weight * (x + y + k) - weight * (2 * n)
      BY <1>1, <1>3
    <3>2. z + 2 * n = x + y + k
      BY <1>1, <1>3
    <3> HIDE DEF z
    <3>3. result = weight * z + rest
      <4>1. weight * (x + y + k) \in Nat /\ weight * (2 * n) \in Nat
        BY <1>1, <1>3
      <4>2. QED
        BY <1>3, <1>4, <2>1, <2>3, <3>1, <4>1
    <3>4. z \in Nat
      BY <1>2, <1>3, <3>1, <3>3, MultipleSign
    <3>5. QED
      BY <3>2, <3>3, <3>4
  <2>4. QED
    BY <1>2, <2>2, <2>3
<1>6. result \div weight = z
  BY <1>3, <1>5, QuotientUnique
<1>7. ((x % 2 = 1) # (y % 2 = 1)) # (z % 2 = 1) <=> k = 1
  BY <1>1, <1>3, <1>5, SumParity
<1>8. AuxCarryAt(weight, lhs, rhs, result) <=> ((x % 2 = 1) # (y % 2 = 1)) # (z % 2 = 1)
  BY <1>6 DEF AuxCarryAt, Bit, x, y
<1>9. QED
  BY <1>3, <1>7, <1>8 DEF result

(* AF of set_sub_flags, by the same three bits, is the borrow out of the   *)
(* part below, a borrow in included.                                       *)
THEOREM AuxBorrowExact ==
    ASSUME NEW weight \in Nat \ {0}, NEW n \in Nat \ {0}, NEW m \in Nat, m = weight * (2 * n),
           NEW lhs \in 0 .. m - 1, NEW rhs \in 0 .. m - 1, NEW borrow \in {0, 1}
    PROVE  AuxCarryAt(weight, lhs, rhs, WrappedDifference(m, lhs, rhs, borrow))
               <=> (lhs % weight) - (rhs % weight) - borrow < 0
<1> DEFINE x == lhs \div weight
           y == rhs \div weight
           low == (lhs % weight) - (rhs % weight) - borrow
           k == IF low < 0 THEN 1 ELSE 0
           rest == IF low < 0 THEN low + weight ELSE low
           result == WrappedDifference(m, lhs, rhs, borrow)
<1>1. /\ x \in Nat /\ (lhs % weight) \in 0 .. weight - 1 /\ lhs = weight * x + (lhs % weight)
      /\ y \in Nat /\ (rhs % weight) \in 0 .. weight - 1 /\ rhs = weight * y + (rhs % weight)
  OBVIOUS
<1>2. /\ result \in Nat
      /\ result = lhs - rhs - borrow \/ result = lhs - rhs - borrow + m
  BY DEF WrappedDifference
<1> HIDE DEF x, y, result
<1>3. /\ k \in {0, 1} /\ (k = 1 <=> low < 0)
      /\ rest \in 0 .. weight - 1 /\ low = rest - weight * k
  BY <1>1
<1>4. lhs - rhs - borrow = weight * x - weight * y - weight * k + rest
  <2> HIDE DEF k, rest
  <2>1. weight * x \in Nat /\ weight * y \in Nat /\ weight * k \in Nat
    BY <1>1, <1>3
  <2>2. QED
    BY <1>1, <1>3, <2>1
<1> HIDE DEF k, rest
<1>5. PICK z \in Nat : /\ x = z + y + k \/ x + 2 * n = z + y + k
                       /\ result = weight * z + rest
  <2>1. weight * x - weight * y - weight * k = weight * (x - y - k)
    BY <1>1, <1>3
  <2>2. CASE result = lhs - rhs - borrow
    <3> DEFINE z == x - y - k
    <3>1. z \in Int /\ x = z + y + k
      BY <1>1, <1>3
    <3>2. result = weight * z + rest
      BY <1>4, <2>1, <2>2
    <3> HIDE DEF z
    <3>3. z \in Nat
      BY <1>2, <1>3, <3>1, <3>2, MultipleSign
    <3>4. QED
      BY <3>1, <3>2, <3>3
  <2>3. CASE result = lhs - rhs - borrow + m
    <3> DEFINE z == x - y - k + 2 * n
    <3>1. z \in Int /\ weight * z = weight * (x - y - k) + weight * (2 * n)
      BY <1>1, <1>3
    <3>2. x + 2 * n = z + y + k
      BY <1>1, <1>3
    <3> HIDE DEF z
    <3>3. result = weight * z + rest
      <4>1. weight * (x - y - k) \in Int /\ weight * (2 * n) \in Nat
        BY <1>1, <1>3
      <4>2. QED
        BY <1>3, <1>4, <2>1, <2>3, <3>1, <4>1
    <3>4. z \in Nat
      BY <1>2, <1>3, <3>1, <3>3, MultipleSign
    <3>5. QED
      BY <3>2, <3>3, <3>4
  <2>4. QED
    BY <1>2, <2>2, <2>3
<1>6. result \div weight = z
  BY <1>3, <1>5, QuotientUnique
<1>7. ((z % 2 = 1) # (y % 2 = 1)) # (x % 2 = 1) <=> k = 1
  BY <1>1, <1>3, <1>5, SumParity
<1>8. AuxCarryAt(weight, lhs, rhs, result) <=> ((x % 2 = 1) # (y % 2 = 1)) # (z % 2 = 1)
  BY <1>6 DEF AuxCarryAt, Bit, x, y
<1>9. QED
  BY <1>3, <1>7, <1>8 DEF result

-----------------------------------------------------------------------------
(* Division and residues of signed numbers.                               *)
(* Quotient and remainder by a positive number, of any integer.            *)
LEMMA FloorParts ==
    ASSUME NEW b \in Nat \ {0}, NEW a \in Int
    PROVE  a \div b \in Int /\ a % b \in 0 .. b - 1 /\ a = b * (a \div b) + (a % b)
OBVIOUS

(* They are determined by their sum.                                       *)
LEMMA FloorUnique ==
    ASSUME NEW b \in Nat \ {0}, NEW q \in Int, NEW r \in 0 .. b - 1, NEW a \in Int, a = b * q + r
    PROVE  a \div b = q /\ a % b = r
<1> DEFINE p == a \div b
           s == a % b
<1>1. p \in Int /\ s \in 0 .. b - 1 /\ a = b * p + s
  BY FloorParts
<1> HIDE DEF p, s
<1>2. b * (p - q) = r - s
  BY <1>1
<1>3. CASE p - q >= 1
  <2>1. b * (p - q) >= b
    BY <1>1, <1>3
  <2> QED BY <1>1, <1>2, <2>1
<1>4. CASE p - q <= -1
  <2>1. b * (p - q) <= -b
    BY <1>1, <1>4
  <2> QED BY <1>1, <1>2, <2>1
<1>5. CASE p = q
  BY <1>1, <1>2, <1>5 DEF p, s
<1> QED
  BY <1>1, <1>3, <1>4, <1>5

(* A number splits into quotient and remainder in one way.                 *)
LEMMA SplitUnique ==
    ASSUME NEW b \in Nat \ {0}, NEW q \in Int, NEW r \in 0 .. b - 1, NEW p \in Int, NEW s \in 0 .. b - 1,
           q * b + r = p * b + s
    PROVE  q = p /\ r = s
<1> DEFINE a == q * b + r
<1>1. a \in Int /\ a = b * q + r /\ a = b * p + s
  OBVIOUS
<1> HIDE DEF a
<1>2. a \div b = q /\ a % b = r
  BY <1>1, FloorUnique
<1>3. a \div b = p /\ a % b = s
  BY <1>1, FloorUnique
<1> QED
  BY <1>2, <1>3

(* A residue taken as signed is the number itself exactly when it fits.    *)
LEMMA SignedResidue ==
    ASSUME NEW h \in Nat \ {0}, NEW m \in Nat, m = 2 * h, NEW x \in Int
    PROVE  Signed(m, x % m) = x <=> x \in -h .. h - 1
<1> DEFINE y == x % m
<1>1. y \in 0 .. m - 1 /\ y \in Int
  BY FloorParts
<1>2. Signed(m, y) \in -h .. h - 1 /\ Signed(m, y) = IF y >= h THEN y - m ELSE y
  BY <1>1, SignedRange
<1>3. CASE x \in 0 .. h - 1
  <2>1. y = x
    BY <1>3, FloorUnique, x = m * 0 + x
  <2> QED BY <1>2, <1>3, <2>1
<1>4. CASE x \in -h .. -1
  <2>1. y = x + m
    BY <1>4, FloorUnique, x = m * (-1) + (x + m), -1 \in Int, x + m \in 0 .. m - 1, m \in Nat \ {0}
  <2> QED BY <1>2, <1>4, <2>1
<1>5. CASE x \notin -h .. h - 1
  BY <1>2, <1>5
<1> QED
  BY <1>3, <1>4, <1>5

(* The two halves of a number, each reduced, are the halves of its residue *)
(* modulo the square.                                                      *)
LEMMA HalvesJoin ==
    ASSUME NEW m \in Nat \ {0}, NEW p \in Int
    PROVE  /\ (p \div m) % m \in 0 .. m - 1 /\ p % m \in 0 .. m - 1
           /\ ((p \div m) % m) * m + (p % m) = p % (m * m)
<1> DEFINE q == p \div m
           lo == p % m
           hi == q % m
           u == q \div m
<1>1. q \in Int /\ lo \in 0 .. m - 1 /\ p = m * q + lo
  BY FloorParts
<1> HIDE DEF q, lo
<1>2. u \in Int /\ hi \in 0 .. m - 1 /\ q = m * u + hi
  BY <1>1, FloorParts
<1> HIDE DEF u, hi
<1>3. p = (m * m) * u + (hi * m + lo) /\ m * m \in Nat \ {0} /\ hi * m + lo \in Int
  BY <1>1, <1>2
<1>4. hi * m + lo \in 0 .. m * m - 1
  <2>1. hi * m <= (m - 1) * m /\ hi * m >= 0 /\ (m - 1) * m = m * m - m
    BY <1>2
  <2> QED BY <1>1, <1>2, <1>3, <2>1
<1> DEFINE M == m * m
           z == hi * m + lo
<1>5. M \in Nat \ {0} /\ z \in 0 .. M - 1 /\ p = M * u + z
  BY <1>3, <1>4
<1> HIDE DEF M, z
<1>6. p % M = z
  BY <1>2, <1>5, FloorUnique
<1> QED
  BY <1>1, <1>2, <1>6 DEF q, lo, hi, u, M, z

(* Products of residues and of signed numbers.                             *)
LEMMA ProductBounds ==
    /\ \A m \in Nat \ {0} : \A a, b \in 0 .. m - 1 : a * b \in 0 .. m * m - 1
    /\ \A h \in Nat \ {0} : \A a, b \in -h .. h - 1 : a * b \in -(2 * h * h) .. 2 * h * h - 1
<1>1. ASSUME NEW m \in Nat \ {0}, NEW a \in 0 .. m - 1, NEW b \in 0 .. m - 1
      PROVE  a * b \in 0 .. m * m - 1
  <2>1. a * b >= 0 /\ a * b <= (m - 1) * b /\ (m - 1) * b <= (m - 1) * (m - 1)
    OBVIOUS
  <2>2. (m - 1) * (m - 1) = m * m - 2 * m + 1
    OBVIOUS
  <2> QED BY <2>1, <2>2
<1>2. ASSUME NEW h \in Nat \ {0}, NEW a \in -h .. h - 1, NEW b \in -h .. h - 1
      PROVE  a * b \in -(2 * h * h) .. 2 * h * h - 1
  <2>1. (h - a) * (h + b) >= 0 /\ (h + a) * (h - b) >= 0 /\ (h + a) * (h + b) >= 0 /\ (h - a) * (h - b) >= 0
    OBVIOUS
  <2>2. (h - a) * (h + b) = h * h + h * b - a * h - a * b
    OBVIOUS
  <2>3. (h + a) * (h - b) = h * h - h * b + a * h - a * b
    OBVIOUS
  <2>4. (h + a) * (h + b) = h * h + h * b + a * h + a * b
    OBVIOUS
  <2>5. (h - a) * (h - b) = h * h - h * b - a * h + a * b
    OBVIOUS
  <2>6. h * h >= 1 /\ h * h \in Int /\ a * b \in Int /\ h * b \in Int /\ a * h \in Int
    OBVIOUS
  <2>7. 2 * h * h = 2 * (h * h)
    OBVIOUS
  <2> QED BY <2>1, <2>2, <2>3, <2>4, <2>5, <2>6, <2>7
<1> QED
  BY <1>1, <1>2

(* The magnitude.                                                          *)
Magnitude(x) == IF x < 0 THEN -x ELSE x

(* Division that truncates towards zero: the remainder is smaller than the *)
(* divisor and on the side of the dividend, and the quotient reaches x, or *)
(* -x where the signs differ, exactly when the dividend is x divisors long.*)
Truncated(n, d, q, r) ==
    /\ q \in Int /\ r \in -Magnitude(d) + 1 .. Magnitude(d) - 1 /\ n = q * d + r
    /\ r = 0 \/ (r < 0) = (n < 0)
    /\ \A x \in Nat : /\ (n < 0) = (d < 0) => (q >= x <=> Magnitude(n) >= x * Magnitude(d))
                      /\ (n < 0) # (d < 0) => (q <= -x <=> Magnitude(n) >= x * Magnitude(d))

(* Dividing the magnitudes and setting the sign does it.                   *)
LEMMA TruncatedDivision ==
    ASSUME NEW n \in Int, NEW d \in Int \ {0}, NEW q, NEW r,
           q = (IF (n < 0) = (d < 0) THEN Magnitude(n) \div Magnitude(d) ELSE -(Magnitude(n) \div Magnitude(d))),
           r = n - q * d
    PROVE  Truncated(n, d, q, r)
<1> DEFINE N == Magnitude(n)
           e == Magnitude(d)
           Q == N \div e
           R == N % e
<1>1. N \in Nat /\ e \in Nat \ {0} /\ (n = N \/ (n = -N /\ n < 0)) /\ (n < 0 <=> n # N) /\ (d < 0 => d = -e) /\ (~(d < 0) => d = e)
  BY DEF Magnitude
<1>2. N < 0 <=> FALSE
  BY <1>1
<1> HIDE DEF N, e
<1>3. Q \in Nat /\ R \in 0 .. e - 1 /\ N = e * Q + R
  BY <1>1
<1>4. \A x \in Nat : Q >= x <=> N >= x * e
  <2> SUFFICES ASSUME NEW x \in Nat PROVE Q >= x <=> N >= x * e
    OBVIOUS
  <2>1. Q < x <=> N < x * e
    BY <1>1, DivBelow
  <2>2. x * e \in Int
    BY <1>1
  <2> HIDE DEF Q
  <2> QED BY <1>1, <1>3, <2>1, <2>2
<1>5. q = (IF (n < 0) = (d < 0) THEN Q ELSE -Q)
  BY DEF N, e
<1> HIDE DEF Q, R
<1>6. q * d = IF n < 0 THEN -(e * Q) ELSE e * Q
  <2>1. (-Q) * (-e) = e * Q /\ Q * (-e) = -(e * Q) /\ (-Q) * e = -(e * Q) /\ Q * e = e * Q
    BY <1>1, <1>3
  <2>2. CASE n < 0 /\ d < 0
    BY <1>1, <1>5, <2>1, <2>2
  <2>3. CASE n < 0 /\ ~(d < 0)
    BY <1>1, <1>5, <2>1, <2>3
  <2>4. CASE ~(n < 0) /\ d < 0
    BY <1>1, <1>5, <2>1, <2>4
  <2>5. CASE ~(n < 0) /\ ~(d < 0)
    BY <1>1, <1>5, <2>1, <2>5
  <2> QED BY <2>2, <2>3, <2>4, <2>5
<1>7. n - q * d = IF n < 0 THEN -R ELSE R
  <2> DEFINE c == e * Q
             b == q * d
  <2>1. c \in Int /\ N = c + R /\ b = (IF n < 0 THEN -c ELSE c)
    BY <1>1, <1>3, <1>6
  <2> HIDE DEF b, c
  <2>2. n - b = (IF n < 0 THEN -R ELSE R)
    BY <1>1, <1>3, <2>1
  <2> QED BY <2>2 DEF b
<1>8. q \in Int
  BY <1>3, <1>5
<1>9. ASSUME NEW x \in Nat
      PROVE  /\ (n < 0) = (d < 0) => (q >= x <=> N >= x * e)
             /\ (n < 0) # (d < 0) => (q <= -x <=> N >= x * e)
  <2>1. Q >= x <=> N >= x * e
    BY <1>4
  <2>2. -Q <= -x <=> Q >= x
    BY <1>3
  <2>3. CASE (n < 0) = (d < 0)
    <3>1. q = Q
      BY <1>5, <2>3
    <3> QED BY <2>1, <2>3, <3>1
  <2>4. CASE (n < 0) # (d < 0)
    <3>1. q = -Q
      BY <1>5, <2>4
    <3> QED BY <2>1, <2>2, <2>4, <3>1
  <2> QED BY <2>3, <2>4
<1>10. n = q * d + (n - q * d) /\ n - q * d \in -e + 1 .. e - 1
  <2>1. q * d \in Int
    BY <1>8
  <2> QED BY <1>1, <1>3, <1>7, <2>1
<1>11. n - q * d = 0 \/ (n - q * d < 0) = (n < 0)
  BY <1>3, <1>7
<1> QED
  BY <1>8, <1>9, <1>10, <1>11 DEF N, e, Truncated

=============================================================================
