---------------------------- MODULE HandlerProofs ----------------------------
(* What the integer handlers compute, for every width of a byte, every     *)
(* program and machine the scenarios contain and every sequence of faults  *)
(* and retries.                                                            *)
EXTENDS Programs, OperatorProofs

(* Sums of exponents, as far as the container reaches.                     *)
LEMMA PowerSum ==
    \A a, b \in Nat : a + b <= Bits(8) => 2 ^ a \in Nat \ {0} /\ 2 ^ (a + b) = 2 ^ a * 2 ^ b
<1>0. Bits(8) \in Nat
  BY ByteBitsAssumption DEF Bits
<1> DEFINE P(n) == 2 ^ n
<1>1. P(0) = 1 /\ \A n \in 0 .. Bits(8) : P(n) \in Nat /\ P(n + 1) = 2 * P(n)
  BY PowersAssumption
<1> SUFFICES \A a, b \in Nat : a + b <= Bits(8) => P(a) \in Nat \ {0} /\ P(a + b) = P(a) * P(b)
  OBVIOUS
<1> HIDE DEF P
<1> DEFINE A == {n \in Nat : n <= Bits(8) => P(n) \in Nat \ {0}}
<1>2. 0 \in A
  BY <1>1
<1>3. ASSUME NEW n \in Nat, n \in A PROVE n + 1 \in A
  BY <1>0, <1>1, <1>3
<1>4. Nat \subseteq A
  <2> HIDE DEF A
  <2> QED BY <1>2, <1>3, NatsByInduction
<1> DEFINE C == {n \in Nat : \A a \in Nat : a + n <= Bits(8) => P(a + n) = P(a) * P(n)}
<1>5. 0 \in C
  BY <1>0, <1>1
<1>6. ASSUME NEW n \in Nat, n \in C PROVE n + 1 \in C
  <2> SUFFICES ASSUME NEW a \in Nat, a + (n + 1) <= Bits(8) PROVE P(a + (n + 1)) = P(a) * P(n + 1)
    OBVIOUS
  <2>1. P(a + n) = P(a) * P(n)
    BY <1>0, <1>6
  <2>2. a + n \in 0 .. Bits(8) /\ n \in 0 .. Bits(8) /\ a \in 0 .. Bits(8) /\ a + (n + 1) = (a + n) + 1
    BY <1>0
  <2>3. P(a + (n + 1)) = 2 * P(a + n) /\ P(n + 1) = 2 * P(n)
    BY <1>1, <2>2
  <2>4. P(a) \in Nat /\ P(n) \in Nat
    BY <1>1, <2>2
  <2>5. 2 * (P(a) * P(n)) = P(a) * (2 * P(n))
    BY <2>4
  <2> QED
    BY <2>1, <2>3, <2>5
<1>7. Nat \subseteq C
  <2> HIDE DEF C
  <2> QED BY <1>5, <1>6, NatsByInduction
<1> QED
  BY <1>0, <1>4, <1>7

(* The moduli of the operand widths: even, each the square of the one      *)
(* before, dividing the container, which has room for twice a narrower one.*)
LEMMA Moduli ==
    /\ \A w \in Widths : /\ Modulus(w) \in Nat \ {0, 1}
                         /\ \E h \in Nat \ {0} : Modulus(w) = 2 * h
                         /\ \E k \in Nat \ {0} : Container = Modulus(w) * k
                         /\ FitsContainer(Modulus(w), Container)
    /\ Modulus(2) = Modulus(1) * Modulus(1)
    /\ Modulus(4) = Modulus(2) * Modulus(2)
    /\ Modulus(8) = Modulus(4) * Modulus(4)
<1> DEFINE P(n) == 2 ^ n
           N == ByteBits
<1>0. N \in Nat /\ N >= 2 /\ Bits(8) = 8 * N
  BY ByteBitsAssumption DEF Bits
<1>1. \A a, b \in Nat : a + b <= 8 * N => P(a) \in Nat \ {0} /\ P(a + b) = P(a) * P(b)
  BY PowerSum, <1>0
<1>2. P(0) = 1 /\ P(1) = 2
  <2>1. P(0) = 1 /\ P(0 + 1) = 2 * P(0)
    BY PowersAssumption, <1>0
  <2> QED BY <2>1
<1>3. Modulus(1) = P(N) /\ Modulus(2) = P(2 * N) /\ Modulus(4) = P(4 * N) /\ Modulus(8) = P(8 * N)
  BY <1>0 DEF Modulus, Bits
<1> HIDE DEF P
<1>4. P(N) \in Nat \ {0} /\ P(2 * N) \in Nat \ {0} /\ P(4 * N) \in Nat \ {0} /\ P(8 * N) \in Nat \ {0}
  <2>1. ASSUME NEW n \in Nat, n <= 8 * N PROVE P(n) \in Nat \ {0}
    <3>1. n + 0 <= 8 * N
      BY <1>0, <2>1
    <3> QED BY <1>0, <1>1, <3>1
  <2> QED BY <1>0, <2>1
<1>5. P(2 * N) = P(N) * P(N) /\ P(4 * N) = P(2 * N) * P(2 * N) /\ P(8 * N) = P(4 * N) * P(4 * N)
  <2>1. P(N + N) = P(N) * P(N) /\ P(2 * N + 2 * N) = P(2 * N) * P(2 * N) /\ P(4 * N + 4 * N) = P(4 * N) * P(4 * N)
    BY <1>0, <1>1
  <2>2. N + N = 2 * N /\ 2 * N + 2 * N = 4 * N /\ 4 * N + 4 * N = 8 * N
    BY <1>0
  <2> QED BY <2>1, <2>2
<1>6. PICK h \in Nat \ {0} : P(N) = 2 * h
  <2>1. P(1 + (N - 1)) = P(1) * P(N - 1) /\ P(N - 1) \in Nat \ {0}
    <3>1. N - 1 \in Nat /\ 1 + (N - 1) <= 8 * N /\ (N - 1) + 1 <= 8 * N
      BY <1>0
    <3> QED BY <1>1, <3>1
  <2>2. 1 + (N - 1) = N
    BY <1>0
  <2> QED BY <2>1, <2>2, <1>2
<1> DEFINE m1 == P(N)
           m2 == P(2 * N)
           m4 == P(4 * N)
           m8 == P(8 * N)
<1>7. m2 = 2 * (h * m1) /\ m4 = 2 * (h * m1 * m2) /\ m8 = 2 * (h * m1 * m2 * m4)
  <2> HIDE DEF m1, m2, m4, m8
  <2>1. m1 \in Nat /\ m2 \in Nat /\ m4 \in Nat /\ m1 = 2 * h /\ m2 = m1 * m1 /\ m4 = m2 * m2 /\ m8 = m4 * m4
    BY <1>4, <1>5, <1>6 DEF m1, m2, m4, m8
  <2>2. m2 = 2 * (h * m1)
    BY <2>1
  <2>3. m4 = 2 * (h * m1 * m2)
    BY <2>1, <2>2
  <2>4. m8 = 2 * (h * m1 * m2 * m4)
    BY <2>1, <2>3
  <2> QED BY <2>2, <2>3, <2>4
<1>8. m8 = m1 * (m1 * m2 * m4) /\ m8 = m2 * (m2 * m4) /\ m8 = m4 * m4 /\ m8 = m8 * 1
  <2>1. m1 \in Nat /\ m2 \in Nat /\ m4 \in Nat /\ m8 \in Nat /\ m2 = m1 * m1 /\ m4 = m2 * m2 /\ m8 = m4 * m4
    BY <1>4, <1>5
  <2> HIDE DEF m1, m2, m4, m8
  <2> QED BY <2>1
<1>9. \A a, b \in Nat \ {0} : a * b \in Nat \ {0} /\ a * b >= a
  OBVIOUS
<1>10. m1 \in Nat \ {0} /\ m2 \in Nat \ {0} /\ m4 \in Nat \ {0} /\ m8 \in Nat \ {0}
  BY <1>4
<1>11. m1 >= 2 /\ m2 >= 2 * m1 /\ m4 >= 2 * m2 /\ m8 >= 2 * m4
  <2> HIDE DEF m1, m2, m4, m8
  <2>1. m2 = m1 * m1 /\ m4 = m2 * m2 /\ m8 = m4 * m4 /\ m1 = 2 * h
    BY <1>5, <1>6 DEF m1, m2, m4, m8
  <2>2. \A a \in Nat \ {0} : a >= 2 => a * a >= 2 * a
    OBVIOUS
  <2> QED BY <2>1, <2>2, <1>10
<1>12. h * m1 \in Nat \ {0} /\ h * m1 * m2 \in Nat \ {0} /\ h * m1 * m2 * m4 \in Nat \ {0}
  BY <1>9, <1>10
<1>13. m1 * m2 * m4 \in Nat \ {0} /\ m2 * m4 \in Nat \ {0}
  BY <1>9, <1>10
<1> DEFINE Even(m) == \E x \in Nat \ {0} : m = 2 * x
           Divides(m) == \E k \in Nat \ {0} : m8 = m * k
<1> HIDE DEF m1, m2, m4, m8
<1>14. Modulus(1) = m1 /\ Modulus(2) = m2 /\ Modulus(4) = m4 /\ Modulus(8) = m8
  BY <1>3 DEF m1, m2, m4, m8
<1>15. Even(m1) /\ Even(m2) /\ Even(m4) /\ Even(m8)
  <2>1. Even(m1)
    BY <1>6 DEF m1
  <2>2. Even(m2)
    BY <1>7, <1>12
  <2>3. Even(m4)
    BY <1>7, <1>12
  <2>4. Even(m8)
    BY <1>7, <1>12
  <2> QED BY <2>1, <2>2, <2>3, <2>4
<1>17. Divides(m1) /\ Divides(m2) /\ Divides(m4) /\ Divides(m8)
  <2>1. Divides(m1)
    BY <1>8, <1>13
  <2>2. Divides(m2)
    BY <1>8, <1>13
  <2>3. Divides(m4)
    BY <1>8, <1>10
  <2>4. Divides(m8)
    BY <1>8, <1>10
  <2> QED BY <2>1, <2>2, <2>3, <2>4
<1>18. \A w \in Widths : Modulus(w) \in {m1, m2, m4, m8}
  BY <1>14 DEF Widths
<1>19. \A m \in {m1, m2, m4, m8} : m \in Nat \ {0, 1} /\ FitsContainer(m, m8) /\ Even(m) /\ Divides(m)
  <2> HIDE DEF Even, Divides
  <2> QED BY <1>10, <1>11, <1>15, <1>17 DEF FitsContainer
<1>16. m2 = m1 * m1 /\ m4 = m2 * m2 /\ m8 = m4 * m4
  BY <1>5 DEF m1, m2, m4, m8
<1>20. Container = m8
  BY <1>14 DEF Container
<1> QED
  BY <1>14, <1>16, <1>18, <1>19, <1>20

-----------------------------------------------------------------------------
(* Residues: what % and \div give on numbers that wrapped at most once.    *)
LEMMA WrapOnce ==
    ASSUME NEW m \in Nat \ {0}, NEW x \in Int
    PROVE  /\ x \in 0 .. m - 1 => x % m = x
           /\ x \in m .. 2 * m - 1 => x % m = x - m
           /\ x \in -m .. -1 => x % m = x + m
           /\ x % m \in 0 .. m - 1
<1>1. x % m \in 0 .. m - 1
  OBVIOUS
<1>2. ASSUME x \in 0 .. m - 1 PROVE x % m = x
  <2>1. x = m * 0 + x
    OBVIOUS
  <2>2. (m * 0 + x) % m = x
    BY <1>2, QuotientUnique
  <2> QED BY <2>1, <2>2
<1>3. ASSUME x \in m .. 2 * m - 1 PROVE x % m = x - m
  <2>1. x = m * 1 + (x - m) /\ x - m \in 0 .. m - 1
    BY <1>3
  <2>2. (m * 1 + (x - m)) % m = x - m
    BY <2>1, QuotientUnique
  <2> QED BY <2>1, <2>2
<1>4. ASSUME x \in -m .. -1 PROVE x % m = x + m
  BY <1>4
<1> QED
  BY <1>1, <1>2, <1>3, <1>4

(* Merging a residue into the low part of a number, as a partial register  *)
(* write does.                                                             *)
LEMMA MergeLow ==
    ASSUME NEW m \in Nat \ {0}, NEW k \in Nat \ {0}, NEW a \in 0 .. m * k - 1, NEW v \in 0 .. m - 1
    PROVE  LET g == a - (a % m) + v
           IN g \in 0 .. m * k - 1 /\ g % m = v /\ g \div m = a \div m
<1> DEFINE q == a \div m
           r == a % m
           g == a - (a % m) + v
<1>1. a \in Nat /\ q \in Nat /\ r \in 0 .. m - 1 /\ a = m * q + r
  OBVIOUS
<1>2. q < k
  BY <1>1, DivBelow
<1>3. g = m * q + v
  BY <1>1
<1>4. g \div m = q /\ g % m = v
  <2> HIDE DEF q, r, g
  <2> QED BY <1>1, <1>3, QuotientUnique
<1>5. m * q + m <= m * k
  <2> HIDE DEF q, r, g
  <2>1. q + 1 <= k
    BY <1>1, <1>2
  <2>2. m * (q + 1) <= m * k
    BY <1>1, <2>1
  <2> QED BY <1>1, <2>2
<1>6. g \in 0 .. m * k - 1
  <2> HIDE DEF q, r, g
  <2> QED BY <1>1, <1>3, <1>5
<1> QED
  BY <1>4, <1>6

-----------------------------------------------------------------------------
(* Operands. The value of operand o at width w, as ValueAt at the width of *)
(* the instruction.                                                        *)
OperandAt(s, i, o, w, a) ==
    Truncate(w, CASE o \in Gprs -> s.gpr[o]
                  [] o \in HighBytes -> HighByte(s.gpr[Holder(o)])
                  [] o = "mem"  -> s.mem[a]
                  [] o = "imm"  -> sign_extend(i.iw, i.imm))
OperandValue(s, i, o, w) == OperandAt(s, i, o, w, memory_address(s, i))

(* Every modulus divides into the container.                               *)
LEMMA ModulusType ==
    /\ Container \in Nat \ {0, 1}
    /\ \A w \in Widths : Modulus(w) \in Nat \ {0, 1} /\ Modulus(w) <= Container /\ FitsContainer(Modulus(w), Container)
<1>1. \A w \in Widths : Modulus(w) \in Nat \ {0, 1} /\ FitsContainer(Modulus(w), Container)
  BY Moduli, Zenon
<1>2. Container \in Nat \ {0, 1}
  BY <1>1 DEF Container, Widths
<1> QED
  BY <1>1, <1>2 DEF FitsContainer

(* Truncation to a width gives a value of the width and changes nothing    *)
(* twice.                                                                  *)
LEMMA Residue ==
    ASSUME NEW w \in Widths, NEW x \in Int
    PROVE  Truncate(w, x) \in 0 .. Modulus(w) - 1 /\ Truncate(w, x) \in Values /\ Truncate(w, Truncate(w, x)) = Truncate(w, x)
<1>1. Modulus(w) \in Nat \ {0} /\ Container \in Nat \ {0} /\ Modulus(w) <= Container
  BY ModulusType
<1> DEFINE m == Modulus(w)
           y == x % m
<1> HIDE DEF m
<1>2. m \in Nat \ {0} /\ m <= Container
  BY <1>1 DEF m
<1>3. x % m \in 0 .. m - 1
  BY <1>2
<1>4. y % m = y
  <2>1. y \in 0 .. m - 1 /\ y \in Int
    BY <1>2, <1>3
  <2> HIDE DEF y
  <2> QED BY <1>2, <2>1, WrapOnce
<1> QED
  BY <1>1, <1>2, <1>3, <1>4 DEF Truncate, m, Values

(* Register and memory values are natural numbers.                         *)
LEMMA ValuesAreNats == Values \subseteq Nat /\ Container \in Nat \ {0, 1}
BY ModulusType DEF Values

(* Effective addresses and extended immediates are natural numbers.        *)
LEMMA AddressTypes ==
    ASSUME NEW s \in CpuStates, NEW i \in Instructions
    PROVE  memory_address(s, i) \in Nat /\ sign_extend(i.iw, i.imm) \in Nat
<1>1. s.gpr \in [Gprs -> Values] /\ i.base \in Gprs \cup {"none"} /\ i.disp \in Int /\ i.iw \in Widths /\ i.imm \in Nat
  BY DEF CpuStates, Instructions
<1> DEFINE b == IF i.base = "none" THEN 0 ELSE s.gpr[i.base]
<1>2. b \in Int
  <2>1. CASE i.base = "none"
    BY <2>1
  <2>2. CASE i.base # "none"
    <3>1. i.base \in Gprs
      BY <1>1, <2>2
    <3>2. s.gpr[i.base] \in Values
      BY <1>1, <3>1
    <3>3. s.gpr[i.base] \in Int
      <4>1. Values \subseteq Int
        BY ValuesAreNats
      <4> QED BY <3>2, <4>1, Zenon
    <3>4. b = s.gpr[i.base]
      BY <2>2
    <3> HIDE DEF b
    <3> QED BY <3>3, <3>4
  <2> QED BY <2>1, <2>2
<1>3. (b + i.disp) % Container \in Nat
  <2> HIDE DEF b
  <2>1. b + i.disp \in Int
    BY <1>1, <1>2
  <2> QED BY <2>1, ValuesAreNats
<1>4. memory_address(s, i) \in Nat
  BY <1>3 DEF memory_address
<1>5. Modulus(i.iw) \in Int /\ Truncate(i.iw, i.imm) \in Int
  BY <1>1, ModulusType, Residue
<1>6. Signed(Modulus(i.iw), Truncate(i.iw, i.imm)) \in Int
  BY <1>5 DEF Signed
<1>7. sign_extend(i.iw, i.imm) \in Nat
  BY <1>6, ValuesAreNats DEF sign_extend
<1> QED
  BY <1>4, <1>7

(* read_operand: a value of the operand's width, or a page fault at the    *)
(* address of a memory operand.                                            *)
Loaded(s, i, o, w, r) ==
    /\ r.reason = "none" /\ r.v \in 0 .. Modulus(w) - 1 /\ r.v = OperandValue(s, i, o, w)
    /\ o = "mem" => memory_address(s, i) \in Addresses
Unreadable(s, i, o, r) ==
    /\ r.reason = "page_fault" /\ o = "mem" /\ r.addr = memory_address(s, i)
    /\ PermAt(s, memory_address(s, i)) # "rw"

(* One of the two, for every operand that can be read.                     *)
LEMMA ReadOperand ==
    ASSUME NEW s \in CpuStates, NEW i \in Instructions, NEW w \in Widths, NEW o \in Readable(w),
           NEW r, r = read_operand(s, i, o, w)
    PROVE  Loaded(s, i, o, w, r) \/ Unreadable(s, i, o, r)
<1>0. s.gpr \in [Gprs -> Values] /\ s.mem \in [Addresses -> Values] /\ Values \subseteq Int
  BY ValuesAreNats DEF CpuStates
<1>1. o \in Gprs \/ (o \in HighBytes /\ w = 1) \/ o = "mem" \/ o = "imm"
  BY DEF Readable, RegisterOperands
<1>2. CASE o \in Gprs
  <2>1. r = Got(Truncate(w, s.gpr[o])) /\ OperandValue(s, i, o, w) = Truncate(w, s.gpr[o])
    BY <1>2 DEF read_operand, read_register, OperandValue, OperandAt, Gprs, HighBytes
  <2>2. s.gpr[o] \in Int /\ o # "mem"
    BY <1>0, <1>2 DEF Gprs
  <2> QED BY <2>1, <2>2, Residue DEF Got, Loaded
<1>3. CASE o \in HighBytes /\ w = 1
  <2>1. r = Got(HighByte(s.gpr[Holder(o)])) /\ OperandValue(s, i, o, w) = Truncate(1, HighByte(s.gpr[Holder(o)]))
    BY <1>3 DEF read_operand, read_register, OperandValue, OperandAt, Gprs, HighBytes
  <2>2. Holder(o) \in Gprs /\ o # "mem"
    BY <1>3 DEF Holder, Gprs, HighBytes
  <2>3. s.gpr[Holder(o)] \in Int /\ Modulus(1) \in Nat \ {0} /\ 1 \in Widths
    BY <1>0, <2>2, ModulusType DEF Widths
  <2>4. s.gpr[Holder(o)] \div Modulus(1) \in Int
    BY <2>3
  <2> QED BY <1>3, <2>1, <2>2, <2>3, <2>4, Residue DEF Got, Loaded, HighByte
<1>4. CASE o = "mem"
  <2> DEFINE a == memory_address(s, i)
  <2>1. r = read_memory_checked(s, a, w) /\ OperandValue(s, i, o, w) = Truncate(w, s.mem[a])
    BY <1>4 DEF read_operand, OperandValue, OperandAt, Gprs, HighBytes
  <2>2. CASE CanLoad(s, a, w)
    <3>1. a \in Addresses
      BY <2>2 DEF CanLoad, PermAt
    <3>2. r = Got(Truncate(w, s.mem[a])) /\ s.mem[a] \in Int
      BY <1>0, <2>1, <2>2, <3>1 DEF read_memory_checked
    <3> QED BY <1>4, <2>1, <3>1, <3>2, Residue DEF Got, Loaded
  <2>3. CASE ~CanLoad(s, a, w)
    BY <1>4, <2>1, <2>3 DEF read_memory_checked, CanLoad, Unreadable
  <2> QED BY <2>2, <2>3
<1>5. CASE o = "imm"
  <2>1. r = Got(Truncate(w, sign_extend(i.iw, i.imm))) /\ OperandValue(s, i, o, w) = Truncate(w, sign_extend(i.iw, i.imm))
    BY <1>5 DEF read_operand, OperandValue, OperandAt, Gprs, HighBytes
  <2>2. sign_extend(i.iw, i.imm) \in Int
    BY AddressTypes
  <2> QED BY <1>5, <2>1, <2>2, Residue DEF Got, Loaded
<1> QED
  BY <1>1, <1>2, <1>3, <1>4, <1>5

(* A machine with its parts at hand.                                       *)
LEMMA Parts ==
    ASSUME NEW s \in CpuStates
    PROVE  /\ s.gpr \in [Gprs -> Values] /\ s.mem \in [Addresses -> Values] /\ s.perm \in [Addresses -> Perms]
           /\ s.flags \in Flags /\ s.rip \in Nat /\ s.cs \in Nat
           /\ \A r \in Gprs : s.gpr[r] \in Values /\ s.gpr[r] \in 0 .. Container - 1 /\ s.gpr[r] \in Int
           /\ \A a \in Addresses : s.mem[a] \in Values /\ s.mem[a] \in Int
<1>1. Values \subseteq Int
  BY ValuesAreNats
<1>2. s.gpr \in [Gprs -> Values] /\ s.mem \in [Addresses -> Values]
  BY DEF CpuStates
<1>3. \A r \in Gprs : s.gpr[r] \in Values
  BY <1>2
<1>4. \A a \in Addresses : s.mem[a] \in Values
  BY <1>2
<1>5. \A r \in Gprs : s.gpr[r] \in Int
  BY <1>1, <1>3, Zenon
<1>6. \A a \in Addresses : s.mem[a] \in Int
  BY <1>1, <1>4, Zenon
<1>7. \A r \in Gprs : s.gpr[r] \in 0 .. Container - 1
  BY <1>3, Zenon DEF Values
<1> QED
  BY <1>2, <1>3, <1>4, <1>5, <1>6, <1>7 DEF CpuStates

(* What write_register puts into a register that held a: the rule for      *)
(* partial registers, AH to DH included.                                   *)
Merged(r, a, v, w) ==
    CASE r \in HighBytes -> a + (Truncate(1, v) - HighByte(a)) * Modulus(1)
      [] r \in Gprs /\ w \in {1, 2} -> a - Truncate(w, a) + Truncate(w, v)
      [] OTHER -> Truncate(w, v)

(* The merged value is a register value with the operand in its place.     *)
LEMMA MergedValue ==
    ASSUME NEW w \in Widths, NEW r \in RegisterOperands(w), NEW a \in 0 .. Container - 1, NEW v \in Int
    PROVE  LET g == Merged(r, a, v, w)
           IN /\ g \in Values
              /\ r \in Gprs => g % Modulus(w) = v % Modulus(w)
              /\ r \in Gprs /\ w \in {1, 2} => g \div Modulus(w) = a \div Modulus(w)
              /\ r \in Gprs /\ w = 4 => g < Modulus(4)
              /\ r \in Gprs /\ w = 8 => g = v % Container
              /\ r \in HighBytes => /\ HighByte(g) = v % Modulus(1) /\ g % Modulus(1) = a % Modulus(1)
                                   /\ g = a + (HighByte(g) - HighByte(a)) * Modulus(1)
<1> DEFINE g == Merged(r, a, v, w)
           m == Modulus(w)
           x == v % m
<1>0. m \in Nat \ {0, 1} /\ Container \in Nat \ {0} /\ m <= Container
  BY ModulusType
<1>1. x \in 0 .. m - 1 /\ x \in Int
  BY <1>0
<1>2. r \in Gprs \/ (r \in HighBytes /\ w = 1 /\ r \notin Gprs)
  BY DEF RegisterOperands, HighBytes, Gprs
<1>3. CASE r \in Gprs /\ w \in {1, 2}
  <2>1. PICK k \in Nat \ {0} : Container = m * k
    BY Moduli, Zenon
  <2>2. g = a - (a % m) + x
    BY <1>3 DEF Merged, HighBytes, Gprs, Truncate
  <2> HIDE DEF g, m, x
  <2>3. a \in 0 .. m * k - 1
    BY <2>1
  <2>4. g \in 0 .. m * k - 1 /\ g % m = x /\ g \div m = a \div m
    BY <1>0, <1>1, <2>2, <2>3, MergeLow
  <2>5. r \notin HighBytes
    BY <1>3 DEF Gprs, HighBytes
  <2> QED
    BY <1>3, <2>1, <2>4, <2>5 DEF Values, g, m, x
<1>4. CASE r \in Gprs /\ w \in {4, 8}
  <2>1. g = x
    BY <1>4 DEF Merged, HighBytes, Gprs, Truncate
  <2>2. r \notin HighBytes /\ w \notin {1, 2}
    BY <1>4 DEF Gprs, HighBytes
  <2>3. x % m = x /\ x \in Values
    <3> HIDE DEF x, m
    <3> QED BY <1>0, <1>1, WrapOnce DEF Values
  <2>4. w = 4 => x < Modulus(4)
    BY <1>0, <1>1
  <2>5. w = 8 => x = v % Container
    BY DEF Container
  <2> HIDE DEF x, m
  <2> QED
    BY <1>4, <2>1, <2>2, <2>3, <2>4, <2>5 DEF x, m
<1>5. CASE r \in HighBytes /\ w = 1 /\ r \notin Gprs
  <2>1. \E k \in Nat \ {0} : Container = m * m * k
    <3>1. Modulus(2) = m * m
      BY Moduli, <1>5
    <3>2. \E k \in Nat \ {0} : Container = Modulus(2) * k
      BY Moduli, Zenon DEF Widths
    <3> QED BY <3>1, <3>2
  <2>2. PICK k \in Nat \ {0} : Container = m * m * k
    BY <2>1
  <2>3. g = a + (x - ((a \div m) % m)) * m
    BY <1>5 DEF Merged, HighByte, Truncate
  <2> HIDE DEF g, x
  <2>4. m \in Nat \ {0} /\ a \in 0 .. m * m * k - 1
    BY <1>0, <2>2
  <2> HIDE DEF m
  <2> DEFINE q == a \div m
             z == a % m
             e == q % m
             d == q - e + x
  <2>11. a \in Nat /\ q \in Nat /\ z \in 0 .. m - 1 /\ a = m * q + z
    BY <2>4
  <2>12. q < m * k
    <3>1. a < (m * k) * m /\ m * k \in Nat
      BY <2>4
    <3> QED BY <2>4, <2>11, <3>1, DivBelow
  <2>13. q \in 0 .. m * k - 1 /\ e \in Int
    <3> HIDE DEF q
    <3> QED BY <2>4, <2>11, <2>12
  <2>14. d \in 0 .. m * k - 1 /\ d % m = x
    <3> HIDE DEF q
    <3> QED BY <1>1, <2>4, <2>13, MergeLow
  <2>15. g = a + (x - e) * m
    BY <2>3
  <2>16. g = m * d + z
    <3> HIDE DEF q, z, e
    <3>1. m * (q - e + x) = m * q + (x - e) * m
      BY <1>1, <2>4, <2>11, <2>13
    <3> QED BY <1>1, <2>4, <2>11, <2>13, <2>15, <3>1
  <2>17. g \div m = d /\ g % m = z
    <3> HIDE DEF q, z, d
    <3>1. d \in Nat
      BY <2>4, <2>14
    <3> QED BY <2>4, <2>11, <2>16, <3>1, QuotientUnique
  <2>5. g \in 0 .. m * m * k - 1 /\ (g \div m) % m = x
    <3> HIDE DEF q, z, d
    <3>1. m * (d + 1) <= m * (m * k)
      BY <2>4, <2>14
    <3>2. m * (d + 1) = m * d + m /\ m * (m * k) = m * m * k
      BY <2>4, <2>14
    <3> QED BY <2>4, <2>11, <2>14, <2>16, <2>17, <3>1, <3>2
  <2>6. HighByte(g) = (g \div m) % m /\ HighByte(a) = (a \div m) % m /\ m = Modulus(1)
    BY <1>5 DEF HighByte, Truncate, m
  <2>7. HighByte(g) = v % Modulus(1)
    BY <2>5, <2>6 DEF x
  <2>8. g = a + (HighByte(g) - HighByte(a)) * Modulus(1)
    BY <2>3, <2>5, <2>6
  <2>9. g % m = a % m
    BY <2>17 DEF z
  <2> QED
    BY <1>5, <2>2, <2>5, <2>6, <2>7, <2>8, <2>9 DEF Values, g
<1> QED
  BY <1>2, <1>3, <1>4, <1>5 DEF Widths

(* A value of the width is its own truncation.                             *)
LEMMA ResidueSmall ==
    ASSUME NEW w \in Widths, NEW v \in 0 .. Modulus(w) - 1
    PROVE  v \in Nat /\ v \in Int /\ v \in Values /\ Truncate(w, v) = v
<1> DEFINE m == Modulus(w)
<1>1. m \in Nat \ {0} /\ m <= Container /\ Container \in Nat /\ v \in 0 .. m - 1
  BY ModulusType
<1> HIDE DEF m
<1>2. v \in Nat /\ v \in Values /\ v \in Int
  BY <1>1 DEF Values
<1>3. v % m = v
  BY <1>1, <1>2, WrapOnce
<1> QED
  BY <1>2, <1>3 DEF Truncate, m

(* write_register changes one register, and that to the merged value.      *)
LEMMA WriteRegister ==
    ASSUME NEW s \in CpuStates, NEW w \in Widths, NEW r \in RegisterOperands(w), NEW v \in Int
    PROVE  LET h == Holder(r)
               g == Merged(r, s.gpr[h], v, w)
               t == write_register(s, r, v, w)
           IN /\ h \in Gprs /\ g \in Values /\ t = [s EXCEPT !.gpr[h] = g] /\ t \in CpuStates
              /\ t.gpr = [s.gpr EXCEPT ![h] = g]
<1> DEFINE h == Holder(r)
           g == Merged(r, s.gpr[h], v, w)
<1>1. h \in Gprs
  BY DEF Holder, RegisterOperands, Gprs, HighBytes
<1>2. s.gpr[h] \in 0 .. Container - 1
  BY <1>1, Parts
<1>3. g \in Values
  BY <1>2, MergedValue
<1>4. write_register(s, r, v, w) = [s EXCEPT !.gpr[h] = g]
  BY <1>1 DEF write_register, Merged, CpuStates
<1> HIDE DEF g, h
<1>5. [s EXCEPT !.gpr[h] = g] \in CpuStates /\ [s EXCEPT !.gpr[h] = g].gpr = [s.gpr EXCEPT ![h] = g]
  BY <1>1, <1>3 DEF CpuStates
<1> QED
  BY <1>1, <1>3, <1>4, <1>5 DEF g, h

(* What a write leaves alone.                                              *)
SameControl(s, t) ==
    /\ t.flags = s.flags /\ t.reason = s.reason /\ t.addr = s.addr /\ t.taken = s.taken
    /\ t.rip = s.rip /\ t.cs = s.cs /\ t.perm = s.perm /\ t.df = s.df /\ t.vec = s.vec
    /\ t.opmask = s.opmask /\ t.fpu = s.fpu /\ t.watch = s.watch

(* The memory a refused store leaves: as it was, but for a part of an      *)
(* operand across two pages.                                               *)
PartlyStored(s, a, m) ==
    /\ m \in [Addresses -> Values] /\ \A x \in Addresses \ {a} : m[x] = s.mem[x]
    /\ PermAt(s, a) \notin Crossing => m = s.mem

(* write_operand: a page fault, or the operand reads back as what was      *)
(* written and nothing but its register or its address changes.            *)
RefusedAt(s, a, t) ==
    /\ PermAt(s, a) # "rw"
    /\ \E m : PartlyStored(s, a, m) /\ t = [s EXCEPT !.mem = m, !.reason = "page_fault", !.addr = a]
Refused(s, i, o, t) == o = "mem" /\ RefusedAt(s, memory_address(s, i), t)
Wrote(s, i, o, w, v, t) ==
    LET a == memory_address(s, i)
        h == Holder(o)
    IN /\ t \in CpuStates /\ SameControl(s, t) /\ OperandAt(t, i, o, w, a) = v
       /\ o = "mem" => a \in Addresses /\ t.gpr = s.gpr /\ t.mem = [s.mem EXCEPT ![a] = v]
       /\ o # "mem" => t.mem = s.mem /\ h \in Gprs /\ t.gpr = [s.gpr EXCEPT ![h] = Merged(o, s.gpr[h], v, w)]

(* A part of a value over a part of another is a value.                    *)
LEMMA TornValue ==
    ASSUME NEW a \in Values, NEW v \in Int
    PROVE  (a - (a % Modulus(FirstBytes))) + (v % Modulus(FirstBytes)) \in Values
<1> DEFINE m == Modulus(FirstBytes)
           x == FirstBytes * ByteBits
           y == (8 - FirstBytes) * ByteBits
           k == 2 ^ y
           e == v % m
<1>1. x \in Nat /\ y \in Nat /\ x + y = Bits(8) /\ x = Bits(FirstBytes) /\ y + x = Bits(8) /\ y <= Bits(8)
  <2>1. FirstBytes \in {1, 2, 3, 4, 5, 6, 7} /\ ByteBits \in Nat
    BY FirstBytesAssumption, ByteBitsAssumption
  <2> QED BY <2>1 DEF Bits
<1> HIDE DEF x, y
<1>2. 2 ^ x \in Nat \ {0} /\ 2 ^ (x + y) = 2 ^ x * 2 ^ y /\ 2 ^ (y + x) = 2 ^ y * 2 ^ x /\ 2 ^ y \in Nat \ {0}
  BY <1>1, PowerSum
<1>3. m \in Nat \ {0} /\ k \in Nat \ {0} /\ Container = m * k
  BY <1>1, <1>2 DEF Modulus, Container
<1> HIDE DEF m, k
<1>4. a \in 0 .. m * k - 1
  BY <1>3 DEF Values
<1>5. e \in 0 .. m - 1
  BY <1>3
<1> HIDE DEF e
<1>6. a - (a % m) + e \in 0 .. m * k - 1
  BY <1>3, <1>4, <1>5, MergeLow
<1> QED
  BY <1>3, <1>6 DEF Values, e, m

(* What a refused store of a value leaves.                                 *)
LEMMA RefusedStore ==
    ASSUME NEW s \in CpuStates, NEW a, NEW v \in Int, NEW w, ~CanStore(s, a, w),
           NEW t, t = write_memory_checked(s, a, v, w)
    PROVE  RefusedAt(s, a, t)
<1>0. PermAt(s, a) # "rw" /\ s.mem \in [Addresses -> Values]
  BY DEF CanStore, CpuStates
<1>1. CASE PermAt(s, a) \in Crossing
  <2> DEFINE x == (s.mem[a] - (s.mem[a] % Modulus(FirstBytes))) + (v % Modulus(FirstBytes))
             m == [s.mem EXCEPT ![a] = x]
             u == [s EXCEPT !.mem = m]
  <2>1. a \in Addresses
    BY <1>1 DEF PermAt, Crossing
  <2>2. x \in Values
    BY <1>0, <2>1, TornValue
  <2>3. t = memory_fault(u, a)
    BY <1>1 DEF write_memory_checked, Torn
  <2> HIDE DEF x
  <2>4. PartlyStored(s, a, m)
    BY <1>0, <1>1, <2>1, <2>2 DEF PartlyStored
  <2> HIDE DEF m
  <2>5. memory_fault(u, a) = [s EXCEPT !.mem = m, !.reason = "page_fault", !.addr = a]
    BY DEF memory_fault, CpuStates
  <2> HIDE DEF u
  <2> QED BY <1>0, <2>3, <2>4, <2>5 DEF RefusedAt
<1>2. CASE PermAt(s, a) \notin Crossing
  <2>1. t = [s EXCEPT !.mem = s.mem, !.reason = "page_fault", !.addr = a]
    BY <1>2 DEF write_memory_checked, memory_fault, CpuStates
  <2>2. PartlyStored(s, a, s.mem)
    BY <1>0 DEF PartlyStored
  <2> QED BY <1>0, <2>1, <2>2 DEF RefusedAt
<1> QED
  BY <1>1, <1>2

(* One of the two, for every operand that can be written.                  *)
LEMMA WriteOperand ==
    ASSUME NEW s \in CpuStates, NEW i \in Instructions, NEW w \in Widths,
           NEW o \in RegisterOperands(w) \cup {"mem"}, NEW v \in 0 .. Modulus(w) - 1
    PROVE  LET t == write_operand(s, i, o, v, w) IN Refused(s, i, o, t) \/ Wrote(s, i, o, w, v, t)
<1> DEFINE a == memory_address(s, i)
           t == write_operand(s, i, o, v, w)
<1>0. v \in Int /\ v \in Values /\ Truncate(w, v) = v
  BY ResidueSmall
<1>1. CASE o = "mem" /\ ~CanStore(s, a, w)
  <2>1. t = write_memory_checked(s, a, v, w)
    BY <1>1 DEF write_operand
  <2>2. RefusedAt(s, a, t)
    <3> HIDE DEF t
    <3> QED BY <1>0, <1>1, <2>1, RefusedStore
  <2> QED BY <1>1, <2>2 DEF Refused
<1>2. CASE o = "mem" /\ CanStore(s, a, w)
  <2>1. a \in Addresses
    BY <1>2 DEF CanStore, Crossing, PermAt
  <2>2. t = [s EXCEPT !.mem[a] = v]
    BY <1>0, <1>2 DEF write_operand, write_memory_checked
  <2>3. t \in CpuStates /\ SameControl(s, t) /\ t.gpr = s.gpr /\ t.mem = [s.mem EXCEPT ![a] = v] /\ t.mem[a] = v
    <3> HIDE DEF a, t
    <3> QED BY <1>0, <2>1, <2>2 DEF CpuStates, SameControl
  <2>4. OperandAt(t, i, o, w, a) = v
    <3> HIDE DEF a, t
    <3>1. OperandAt(t, i, o, w, a) = Truncate(w, t.mem[a])
      BY <1>2 DEF OperandAt, Gprs, HighBytes
    <3> QED BY <1>0, <2>3, <3>1
  <2> QED BY <1>2, <2>1, <2>3, <2>4 DEF Wrote
<1>3. CASE o # "mem"
  <2> DEFINE h == Holder(o)
             g == Merged(o, s.gpr[h], v, w)
  <2>0. o \in RegisterOperands(w)
    BY <1>3
  <2>1. h \in Gprs /\ g \in Values /\ t = [s EXCEPT !.gpr[h] = g] /\ t \in CpuStates /\ t.gpr = [s.gpr EXCEPT ![h] = g]
    <3>1. t = write_register(s, o, v, w)
      BY <1>3 DEF write_operand
    <3> QED BY <1>0, <2>0, <3>1, WriteRegister
  <2>2. SameControl(s, t) /\ t.mem = s.mem /\ t.gpr[h] = g
    <3> HIDE DEF h, g, t
    <3>1. s.gpr \in [Gprs -> Values]
      BY DEF CpuStates
    <3> QED BY <2>1, <3>1 DEF SameControl, CpuStates
  <2>3. s.gpr[h] \in 0 .. Container - 1
    BY <2>1, Parts
  <2>4. OperandAt(t, i, o, w, a) = v
    <3>1. CASE o \in Gprs
      <4>1. h = o
        BY <3>1 DEF Holder, Gprs
      <4>2. OperandAt(t, i, o, w, a) = Truncate(w, t.gpr[o])
        BY <3>1 DEF OperandAt, Gprs, HighBytes
      <4>3. g % Modulus(w) = v % Modulus(w)
        BY <1>0, <2>0, <2>3, <3>1, MergedValue
      <4> HIDE DEF h, g, t, a
      <4> QED BY <1>0, <2>2, <4>1, <4>2, <4>3 DEF Truncate
    <3>2. CASE o \in HighBytes /\ w = 1
      <4>1. OperandAt(t, i, o, w, a) = Truncate(1, HighByte(t.gpr[h]))
        BY <3>2 DEF OperandAt, Gprs, HighBytes
      <4>2. HighByte(g) = v % Modulus(1)
        BY <1>0, <2>0, <2>3, <3>2, MergedValue
      <4> HIDE DEF h, g, t, a
      <4> QED BY <1>0, <2>2, <3>2, <4>1, <4>2 DEF Truncate
    <3> QED BY <2>0, <3>1, <3>2 DEF RegisterOperands
  <2> QED BY <1>3, <2>1, <2>2, <2>4 DEF Wrote
<1> QED
  BY <1>1, <1>2, <1>3

-----------------------------------------------------------------------------
(* The flag helpers at the widths of the machine.                          *)
LEMMA HalfWeight ==
    ASSUME NEW w \in Widths
    PROVE  /\ 2 ^ (ByteBits \div 2) \in Nat \ {0}
           /\ \E n \in Nat \ {0} : Modulus(w) = 2 ^ (ByteBits \div 2) * (2 * n)
<1> DEFINE P(n) == 2 ^ n
           d == ByteBits \div 2
           x == Bits(w) - (d + 1)
<1>1. d \in Nat /\ d + 1 <= ByteBits /\ ByteBits \in Nat
  BY ByteBitsAssumption
<1>2. Bits(w) \in Nat /\ Bits(8) \in Nat /\ ByteBits <= Bits(w) /\ Bits(w) <= Bits(8)
  BY ByteBitsAssumption DEF Bits, Widths
<1> HIDE DEF d
<1>3. x \in Nat /\ (d + 1) + x = Bits(w) /\ x + 0 <= Bits(8) /\ d + 0 <= Bits(8) /\ d + 1 <= Bits(8) /\ 1 + 0 <= Bits(8)
  BY <1>1, <1>2
<1> HIDE DEF x
<1>4. P(d) \in Nat \ {0} /\ P(x) \in Nat \ {0} /\ P(d + 1) = P(d) * P(1) /\ P((d + 1) + x) = P(d + 1) * P(x)
  <2>0. \A a, b \in Nat : a + b <= Bits(8) => P(a) \in Nat \ {0} /\ P(a + b) = P(a) * P(b)
    BY PowerSum
  <2> HIDE DEF P
  <2>1. P(d) \in Nat \ {0} /\ P(d + 1) = P(d) * P(1)
    BY <1>1, <1>3, <2>0
  <2>2. P(x) \in Nat \ {0}
    BY <1>3, <2>0
  <2>3. P((d + 1) + x) = P(d + 1) * P(x)
    <3>1. d + 1 \in Nat /\ (d + 1) + x <= Bits(8)
      BY <1>1, <1>2, <1>3
    <3> QED BY <1>3, <2>0, <3>1
  <2> QED BY <2>1, <2>2, <2>3
<1>5. P(1) = 2
  <2>1. 2 ^ (0 + 1) = 2 * 2 ^ 0 /\ 2 ^ 0 = 1
    BY PowersAssumption, <1>2
  <2> QED BY <2>1
<1>6. Modulus(w) = P(Bits(w))
  BY DEF Modulus
<1> HIDE DEF P
<1>7. Modulus(w) = P(d) * (2 * P(x))
  BY <1>3, <1>4, <1>5, <1>6
<1> QED
  BY <1>4, <1>7 DEF P, d

AddedFlags(w, l, r, c, v) ==
    LET half == 2 ^ (ByteBits \div 2)
    IN [cf |-> l + r + c \notin 0 .. Modulus(w) - 1,
        of |-> ~FitsSigned(w, AsInt(w, l) + AsInt(w, r) + c),
        af |-> (l % half) + (r % half) + c \notin 0 .. half - 1,
        zf |-> v = 0, sf |-> AsInt(w, v) < 0, pf |-> even_parity(v)]

(* set_add_flags on wrapped numbers says what the integers say.            *)
LEMMA AddFlags ==
    ASSUME NEW w \in Widths, NEW l \in 0 .. Modulus(w) - 1, NEW r \in 0 .. Modulus(w) - 1, NEW c \in {0, 1},
           NEW v, v = (l + r + c) % Modulus(w)
    PROVE  set_add_flags(w, l, r, v, c) = AddedFlags(w, l, r, c, v)
<1> DEFINE m == Modulus(w)
           half == 2 ^ (ByteBits \div 2)
<1>1. PICK h \in Nat \ {0} : m = 2 * h
  BY Moduli, Zenon
<1>2. PICK n \in Nat \ {0} : m = half * (2 * n)
  BY HalfWeight
<1>3. half \in Nat \ {0} /\ m \in Nat \ {0} /\ Container \in Nat /\ FitsContainer(m, Container)
  BY HalfWeight, ModulusType
<1>4. l \in 0 .. m - 1 /\ r \in 0 .. m - 1 /\ v = (l + r + c) % m
  OBVIOUS
<1> HIDE DEF m, half
<1>5. l + r + c \in 0 .. 2 * m - 1 /\ l \in Nat /\ r \in Nat
  BY <1>3, <1>4
<1>6. v = WrappedSum(m, l, r, c) /\ v \in 0 .. m - 1
  <2> DEFINE y == l + r + c
  <2>1. (y \in 0 .. m - 1 \/ y \in m .. 2 * m - 1) /\ y \in Int
    BY <1>3, <1>5
  <2>2. v = y % m /\ WrappedSum(m, l, r, c) = Reduce(m, y)
    BY <1>4 DEF WrappedSum
  <2> HIDE DEF y
  <2>3. CASE y \in 0 .. m - 1
    <3>1. y % m = y
      BY <1>3, <2>1, <2>3, WrapOnce
    <3> QED BY <1>3, <2>1, <2>2, <2>3, <3>1 DEF Reduce
  <2>4. CASE y \in m .. 2 * m - 1
    <3>1. y % m = y - m
      BY <1>3, <2>1, <2>4, WrapOnce
    <3> QED BY <1>3, <2>1, <2>2, <2>4, <3>1 DEF Reduce
  <2> QED BY <2>1, <2>3, <2>4
<1>7. AddCarry(m, Container, l, r, c) = (l + r + c \notin 0 .. m - 1)
  <2>1. AddCarry(m, Container, l, r, c) <=> l + r + c >= m
    BY <1>1, <1>3, <1>4, AddCarryExact
  <2>2. AddCarry(m, Container, l, r, c) \in BOOLEAN
    BY DEF AddCarry
  <2> QED BY <1>3, <1>5, <2>1, <2>2
<1>8. AddOverflow(m, l, r, v) = (Signed(m, l) + Signed(m, r) + c \notin -h .. h - 1)
  <2>1. AddOverflow(m, l, r, v) <=> Signed(m, l) + Signed(m, r) + c \notin -h .. h - 1
    BY <1>1, <1>3, <1>4, <1>6, AddOverflowExact
  <2>2. AddOverflow(m, l, r, v) \in BOOLEAN
    BY DEF AddOverflow
  <2> QED BY <2>1, <2>2
<1>9. AuxCarryAt(half, l, r, v) = ((l % half) + (r % half) + c \notin 0 .. half - 1)
  <2>1. AuxCarryAt(half, l, r, v) <=> (l % half) + (r % half) + c >= half
    BY <1>2, <1>3, <1>4, <1>6, AuxCarryExact
  <2>2. AuxCarryAt(half, l, r, v) \in BOOLEAN
    BY DEF AuxCarryAt
  <2>3. l % half \in Nat /\ r % half \in Nat
    BY <1>3, <1>5
  <2> QED BY <1>3, <2>1, <2>2, <2>3
<1>10. Sign(m, v) = (Signed(m, v) < 0) /\ m \div 2 = h
  <2>1. Sign(m, v) <=> Signed(m, v) < 0
    BY <1>1, <1>3, <1>6, SignedRange
  <2> QED BY <1>1, <2>1 DEF Sign
<1> QED
  BY <1>7, <1>8, <1>9, <1>10
     DEF set_add_flags, AddedFlags, ResultFlags, AuxCarry, FitsSigned, AsInt, m, half

SubtractedFlags(w, l, r, c, v) ==
    LET half == 2 ^ (ByteBits \div 2)
    IN [cf |-> l - r - c \notin 0 .. Modulus(w) - 1,
        of |-> ~FitsSigned(w, AsInt(w, l) - AsInt(w, r) - c),
        af |-> (l % half) - (r % half) - c \notin 0 .. half - 1,
        zf |-> v = 0, sf |-> AsInt(w, v) < 0, pf |-> even_parity(v)]

(* So does set_sub_flags.                                                  *)
LEMMA SubFlags ==
    ASSUME NEW w \in Widths, NEW l \in 0 .. Modulus(w) - 1, NEW r \in 0 .. Modulus(w) - 1, NEW c \in {0, 1},
           NEW v, v = (l - r - c) % Modulus(w)
    PROVE  set_sub_flags(w, l, r, v, c) = SubtractedFlags(w, l, r, c, v)
<1> DEFINE m == Modulus(w)
           half == 2 ^ (ByteBits \div 2)
<1>1. PICK h \in Nat \ {0} : m = 2 * h
  BY Moduli, Zenon
<1>2. PICK n \in Nat \ {0} : m = half * (2 * n)
  BY HalfWeight
<1>3. half \in Nat \ {0} /\ m \in Nat \ {0} /\ Container \in Nat /\ FitsContainer(m, Container)
  BY HalfWeight, ModulusType
<1>4. l \in 0 .. m - 1 /\ r \in 0 .. m - 1 /\ v = (l - r - c) % m
  OBVIOUS
<1> HIDE DEF m, half
<1>5. l - r - c \in -m .. m - 1 /\ l \in Nat /\ r \in Nat
  BY <1>3, <1>4
<1>6. v = WrappedDifference(m, l, r, c) /\ v \in 0 .. m - 1
  <2> DEFINE y == l - r - c
  <2>1. (y \in 0 .. m - 1 \/ y \in -m .. -1) /\ y \in Int
    BY <1>3, <1>5
  <2>2. v = y % m /\ WrappedDifference(m, l, r, c) = IF y < 0 THEN y + m ELSE y
    BY <1>4 DEF WrappedDifference
  <2> HIDE DEF y
  <2>3. CASE y \in 0 .. m - 1
    <3>1. y % m = y
      BY <1>3, <2>1, <2>3, WrapOnce
    <3> QED BY <1>3, <2>1, <2>2, <2>3, <3>1
  <2>4. CASE y \in -m .. -1
    <3>1. y % m = y + m
      BY <1>3, <2>1, <2>4, WrapOnce
    <3> QED BY <1>3, <2>1, <2>2, <2>4, <3>1
  <2> QED BY <2>1, <2>3, <2>4
<1>7. SubBorrow(m, Container, l, r, c) = (l - r - c \notin 0 .. m - 1)
  <2>1. SubBorrow(m, Container, l, r, c) <=> l - r - c < 0
    BY <1>1, <1>3, <1>4, SubBorrowExact
  <2>2. SubBorrow(m, Container, l, r, c) \in BOOLEAN
    BY DEF SubBorrow
  <2> QED BY <1>3, <1>5, <2>1, <2>2
<1>8. SubOverflow(m, l, r, v) = (Signed(m, l) - Signed(m, r) - c \notin -h .. h - 1)
  <2>1. SubOverflow(m, l, r, v) <=> Signed(m, l) - Signed(m, r) - c \notin -h .. h - 1
    BY <1>1, <1>3, <1>4, <1>6, SubOverflowExact
  <2>2. SubOverflow(m, l, r, v) \in BOOLEAN
    BY DEF SubOverflow
  <2> QED BY <2>1, <2>2
<1>9. AuxCarryAt(half, l, r, v) = ((l % half) - (r % half) - c \notin 0 .. half - 1)
  <2>1. AuxCarryAt(half, l, r, v) <=> (l % half) - (r % half) - c < 0
    BY <1>2, <1>3, <1>4, <1>6, AuxBorrowExact
  <2>2. AuxCarryAt(half, l, r, v) \in BOOLEAN
    BY DEF AuxCarryAt
  <2>3. l % half \in Nat /\ r % half \in Nat
    BY <1>3, <1>5
  <2> QED BY <1>3, <2>1, <2>2, <2>3
<1>10. Sign(m, v) = (Signed(m, v) < 0) /\ m \div 2 = h
  <2>1. Sign(m, v) <=> Signed(m, v) < 0
    BY <1>1, <1>3, <1>6, SignedRange
  <2> QED BY <1>1, <2>1 DEF Sign
<1> QED
  BY <1>7, <1>8, <1>9, <1>10
     DEF set_sub_flags, SubtractedFlags, ResultFlags, AuxCarry, FitsSigned, AsInt, m, half

-----------------------------------------------------------------------------
(* Addition and subtraction.                                               *)
LEMMA ValueIsOperand ==
    ASSUME NEW s, NEW i, NEW o, NEW a
    PROVE  ValueAt(s, i, o, a) = OperandAt(s, i, o, i.w, a) /\ ValueOf(s, i, o) = OperandValue(s, i, o, i.w)
BY DEF ValueAt, ValueOf, OperandAt, OperandValue

(* Values of operands are residues, wherever the operand is.               *)
LEMMA OperandRange ==
    ASSUME NEW s \in CpuStates, NEW i \in Instructions, NEW w \in Widths, NEW o \in Readable(w),
           o = "mem" => memory_address(s, i) \in Addresses
    PROVE  OperandValue(s, i, o, w) \in 0 .. Modulus(w) - 1
<1> DEFINE a == memory_address(s, i)
           x == CASE o \in Gprs -> s.gpr[o]
                  [] o \in HighBytes -> HighByte(s.gpr[Holder(o)])
                  [] o = "mem"  -> s.mem[a]
                  [] o = "imm"  -> sign_extend(i.iw, i.imm)
<1>1. x \in Int
  <2>1. CASE o \in Gprs
    <3>1. s.gpr[o] \in Int
      BY <2>1, Parts
    <3>2. x = s.gpr[o]
      BY <2>1 DEF Gprs, HighBytes
    <3> HIDE DEF x
    <3> QED BY <3>1, <3>2
  <2>2. CASE o \in HighBytes
    <3>1. Holder(o) \in Gprs
      BY <2>2 DEF Holder, Gprs, HighBytes
    <3>2. s.gpr[Holder(o)] \in Int /\ Modulus(1) \in Nat \ {0}
      BY <3>1, Parts, ModulusType DEF Widths
    <3>3. HighByte(s.gpr[Holder(o)]) \in Int
      BY <3>2 DEF HighByte, Truncate
    <3>4. x = HighByte(s.gpr[Holder(o)])
      BY <2>2 DEF Gprs, HighBytes
    <3> HIDE DEF x
    <3> QED BY <3>3, <3>4
  <2>3. CASE o = "mem"
    <3>1. s.mem[a] \in Int
      BY <2>3, Parts
    <3>2. x = s.mem[a]
      BY <2>3 DEF Gprs, HighBytes
    <3> HIDE DEF x
    <3> QED BY <3>1, <3>2
  <2>4. CASE o = "imm"
    <3>1. sign_extend(i.iw, i.imm) \in Int
      BY AddressTypes
    <3>2. x = sign_extend(i.iw, i.imm)
      BY <2>4 DEF Gprs, HighBytes
    <3> HIDE DEF x
    <3> QED BY <3>1, <3>2
  <2> QED BY <2>1, <2>2, <2>3, <2>4 DEF Readable, RegisterOperands
<1>2. OperandValue(s, i, o, w) = Truncate(w, x)
  BY DEF OperandValue, OperandAt
<1> HIDE DEF x
<1> QED
  BY <1>1, <1>2, Residue

(* An attempt that failed has changed the flags and a part of an operand   *)
(* across two pages at most, and these only when the destination is in     *)
(* memory, the flags not for a shift by nothing; INC and DEC keep the      *)
(* carry. Some instructions only read such an operand.                     *)
Unshifted(i, s) == i.op \in ShiftRotateOps /\ ShiftCount(i, s) = 0
LoadOnlyOps == IntegerReaders \cup MulDivOps
Storing(i) == i.dst = "mem" /\ i.op \notin LoadOnlyOps
Failed(s, i, t) ==
    \E f \in Flags, a \in Nat, m \in [Addresses -> Values] :
        /\ t = [s EXCEPT !.flags = f, !.mem = m, !.reason = "page_fault", !.addr = a]
        /\ PermAt(s, a) # "rw"
        /\ i.dst # "mem" \/ Unshifted(i, s) => f = s.flags
        /\ i.op \in {"inc", "dec"} => f.cf = s.flags.cf
        /\ PartlyStored(s, memory_address(s, i), m) /\ (~Storing(i) => m = s.mem)

(* A read that failed has changed nothing.                                 *)
LEMMA FaultedRead ==
    ASSUME NEW s \in CpuStates, NEW i, NEW a \in Nat, PermAt(s, a) # "rw",
           NEW t, t = [s EXCEPT !.reason = "page_fault", !.addr = a]
    PROVE  Failed(s, i, t)
<1>1. s.flags \in Flags /\ s.mem \in [Addresses -> Values]
  BY DEF CpuStates
<1>2. t = [s EXCEPT !.flags = s.flags, !.mem = s.mem, !.reason = "page_fault", !.addr = a]
  BY DEF CpuStates
<1>3. PartlyStored(s, memory_address(s, i), s.mem)
  BY <1>1 DEF PartlyStored
<1> QED
  BY <1>1, <1>2, <1>3 DEF Failed

(* A refused store, after a change of flags.                               *)
LEMMA RefusedCommit ==
    ASSUME NEW s \in CpuStates, NEW i \in Instructions, NEW f \in Flags, NEW u, u = [s EXCEPT !.flags = f],
           NEW t, Refused(u, i, i.dst, t), Unshifted(i, s) => f = s.flags,
           i.op \in {"inc", "dec"} => f.cf = s.flags.cf, i.op \notin LoadOnlyOps
    PROVE  Failed(s, i, t)
<1> DEFINE a == memory_address(s, i)
<1>1. u.gpr = s.gpr /\ u.perm = s.perm /\ u.mem = s.mem
  BY DEF CpuStates
<1>2. a \in Nat /\ memory_address(u, i) = a /\ PermAt(u, a) = PermAt(s, a)
  BY <1>1, AddressTypes DEF memory_address, PermAt
<1> HIDE DEF a
<1>3. PICK m : PartlyStored(u, a, m) /\ t = [u EXCEPT !.mem = m, !.reason = "page_fault", !.addr = a]
  BY <1>2 DEF Refused, RefusedAt
<1>4. PermAt(s, a) # "rw" /\ i.dst = "mem"
  BY <1>2 DEF Refused, RefusedAt
<1>5. PartlyStored(s, a, m) /\ m \in [Addresses -> Values]
  BY <1>1, <1>2, <1>3 DEF PartlyStored
<1>6. t = [s EXCEPT !.flags = f, !.mem = m, !.reason = "page_fault", !.addr = a]
  BY <1>3 DEF CpuStates
<1>7. Storing(i)
  BY <1>4 DEF Storing
<1> QED
  BY <1>2, <1>4, <1>5, <1>6, <1>7 DEF Failed, a

(* The handler wrote the register rule's value to a register destination.  *)
RegisterWritten(s, i, t) ==
    \E v \in Int :
        /\ i.dst \in Gprs /\ (i.op \in {"xchg", "xadd"} => Holder(i.src) # i.dst)
              => t.gpr[i.dst] = Merged(i.dst, s.gpr[i.dst], v, i.w)
        /\ i.dst \in HighBytes /\ i.op \notin {"xchg", "xadd"}
              => t.gpr = [s.gpr EXCEPT ![Holder(i.dst)] = Merged(i.dst, s.gpr[Holder(i.dst)], v, i.w)]

(* What every handler returns that got through.                            *)
Completed(s, t) ==
    /\ t \in CpuStates /\ t.reason = "none" /\ t.taken = s.taken /\ t.rip = s.rip /\ t.cs = s.cs /\ t.perm = s.perm

(* A read that failed is a failed attempt that changed nothing.            *)
LEMMA ReadFailed ==
    ASSUME NEW s \in CpuStates, NEW i \in Instructions, NEW w \in Widths, NEW o \in Readable(w),
           NEW r, r = read_operand(s, i, o, w), r.reason # "none"
    PROVE  Failed(s, i, [s EXCEPT !.reason = r.reason, !.addr = r.addr])
<1>1. /\ r.reason = "page_fault" /\ r.addr = memory_address(s, i)
      /\ PermAt(s, memory_address(s, i)) # "rw" /\ memory_address(s, i) \in Nat
  BY ReadOperand, AddressTypes DEF Loaded, Unreadable
<1>2. [s EXCEPT !.reason = r.reason, !.addr = r.addr] = [s EXCEPT !.reason = "page_fault", !.addr = memory_address(s, i)]
  BY <1>1
<1> QED
  BY <1>1, <1>2, FaultedRead

(* How a commit ends: refused, or with the flags and the operand.          *)
CommitEnds(s, i, v, f, t) ==
    \/ Failed(s, i, t)
    \/ /\ Completed(s, t) /\ t.flags = f /\ ValueAt(t, i, i.dst, memory_address(s, i)) = v
       /\ i.dst = "mem" => t.gpr = s.gpr
       /\ i.dst # "mem" => /\ t.gpr = [s.gpr EXCEPT ![Holder(i.dst)] = Merged(i.dst, s.gpr[Holder(i.dst)], v, i.w)]
                           /\ t.mem = s.mem

(* Commit: the flags first, then the operand.                              *)
LEMMA CommitEndsSo ==
    ASSUME NEW s \in CpuStates, s.reason = "none", NEW i \in Instructions, i.dst \in RegisterOperands(i.w) \cup {"mem"},
           i.op \notin LoadOnlyOps, NEW v \in 0 .. Modulus(i.w) - 1, NEW f \in Flags, i.op \in {"inc", "dec"} => f.cf = s.flags.cf,
           Unshifted(i, s) => f = s.flags, NEW t, t = Commit(s, i, v, f)
    PROVE  CommitEnds(s, i, v, f, t)
<1> DEFINE u == [s EXCEPT !.flags = f]
           a == memory_address(s, i)
<1>0. i.w \in Widths
  BY DEF Instructions
<1>1. u \in CpuStates /\ u.gpr = s.gpr /\ u.mem = s.mem /\ u.flags = f /\ u.reason = "none" /\ u.taken = s.taken
      /\ u.rip = s.rip /\ u.cs = s.cs /\ u.perm = s.perm
  BY DEF CpuStates
<1>2. t = write_operand(u, i, i.dst, v, i.w)
  BY DEF Commit
<1>3. memory_address(u, i) = a /\ a \in Nat /\ PermAt(u, a) = PermAt(s, a)
  BY <1>1, AddressTypes DEF memory_address, PermAt
<1> HIDE DEF u, a
<1>4. Refused(u, i, i.dst, t) \/ Wrote(u, i, i.dst, i.w, v, t)
  BY <1>0, <1>1, <1>2, WriteOperand
<1>5. CASE Refused(u, i, i.dst, t)
  <2>1. u = [s EXCEPT !.flags = f]
    BY DEF u
  <2>2. Failed(s, i, t)
    BY <1>5, <2>1, RefusedCommit
  <2> QED BY <2>2 DEF CommitEnds
<1>6. CASE Wrote(u, i, i.dst, i.w, v, t)
  <2>1. ValueAt(t, i, i.dst, a) = v
    BY <1>3, <1>6, ValueIsOperand DEF Wrote
  <2> QED BY <1>1, <1>6, <2>1 DEF SameControl, Completed, Wrote, a, CommitEnds
<1> QED
  BY <1>4, <1>5, <1>6 DEF CommitEnds

(* The same, spelled out.                                                  *)
LEMMA CommitOutcome ==
    ASSUME NEW s \in CpuStates, s.reason = "none", NEW i \in Instructions, i.dst \in RegisterOperands(i.w) \cup {"mem"},
           i.op \notin LoadOnlyOps, NEW v \in 0 .. Modulus(i.w) - 1, NEW f \in Flags, i.op \in {"inc", "dec"} => f.cf = s.flags.cf,
           Unshifted(i, s) => f = s.flags, NEW t, t = Commit(s, i, v, f)
    PROVE  \/ Failed(s, i, t)
           \/ /\ Completed(s, t) /\ t.flags = f /\ ValueAt(t, i, i.dst, memory_address(s, i)) = v
              /\ i.dst = "mem" => t.gpr = s.gpr
              /\ i.dst # "mem" => /\ t.gpr = [s.gpr EXCEPT ![Holder(i.dst)] = Merged(i.dst, s.gpr[Holder(i.dst)], v, i.w)]
                                  /\ t.mem = s.mem
<1>1. CommitEnds(s, i, v, f, t)
  BY CommitEndsSo
<1> QED
  BY <1>1 DEF CommitEnds

(* The flags the handlers compute are the ones the integers give.          *)
LEMMA SumComputed ==
    ASSUME NEW s \in CpuStates, NEW i \in Instructions, i.op \in AdditionOps \ {"not"},
           NEW l \in 0 .. Modulus(i.w) - 1, NEW r \in 0 .. Modulus(i.w) - 1, NEW c, NEW v,
           l = Left(i, s), r = Right(i, s), c = CarryIn(i, s), v = SumValue(i, s)
    PROVE  /\ c \in {0, 1} /\ v \in 0 .. Modulus(i.w) - 1 /\ SumFlags(i, s) \in Flags
           /\ i.op \in {"add", "adc", "xadd"} => set_add_flags(i.w, l, r, v, c) = SumFlags(i, s)
           /\ i.op \in {"sub", "sbb", "cmp", "neg"} => set_sub_flags(i.w, l, r, v, c) = SumFlags(i, s)
           /\ i.op = "inc" => [set_add_flags(i.w, l, r, v, c) EXCEPT !.cf = s.flags.cf] = SumFlags(i, s)
           /\ i.op = "dec" => [set_sub_flags(i.w, l, r, v, c) EXCEPT !.cf = s.flags.cf] = SumFlags(i, s)
           /\ i.op \in {"inc", "dec"} => SumFlags(i, s).cf = s.flags.cf
<1> DEFINE w == i.w
           m == Modulus(w)
<1>0. w \in Widths /\ m \in Nat \ {0} /\ s.flags.cf \in BOOLEAN
  BY ModulusType, Parts DEF Instructions, Flags
<1>1. c \in {0, 1}
  BY <1>0 DEF CarryIn, CF, B
<1>2. l \in Int /\ r \in Int /\ c \in Int
  BY <1>0, <1>1
<1>3. v = Sum(i, l, r, c) % m
  BY DEF SumValue
<1>4. Sum(i, l, r, c) \in Int
  BY <1>2 DEF Sum
<1>5. v \in 0 .. m - 1
  <2> HIDE DEF m
  <2> QED BY <1>0, <1>3, <1>4
<1>6. SumFlags(i, s) \in Flags /\ (i.op \in {"inc", "dec"} => SumFlags(i, s).cf = s.flags.cf)
  <2> DEFINE half == 2 ^ (ByteBits \div 2)
             x1 == IF i.op \in {"inc", "dec"} THEN s.flags.cf ELSE Sum(i, l, r, c) \notin 0 .. m - 1
             x2 == ~FitsSigned(w, Sum(i, AsInt(w, l), AsInt(w, r), c))
             x3 == Sum(i, l % half, r % half, c) \notin 0 .. half - 1
             x4 == v = 0
             x5 == AsInt(w, v) < 0
             x6 == even_parity(v)
  <2>1. SumFlags(i, s) = [cf |-> x1, of |-> x2, af |-> x3, zf |-> x4, sf |-> x5, pf |-> x6]
    BY DEF SumFlags
  <2>2. x1 \in BOOLEAN
    <3>1. CASE i.op \in {"inc", "dec"}
      BY <1>0, <3>1, Zenon
    <3>2. CASE ~(i.op \in {"inc", "dec"})
      BY <3>2, Zenon
    <3> QED BY <3>1, <3>2
  <2>3. x2 \in BOOLEAN /\ x3 \in BOOLEAN /\ x4 \in BOOLEAN /\ x5 \in BOOLEAN
    <3>1. x2 \in BOOLEAN
      BY Zenon
    <3>2. x3 \in BOOLEAN
      BY Zenon
    <3>3. x4 \in BOOLEAN /\ x5 \in BOOLEAN
      OBVIOUS
    <3> QED BY <3>1, <3>2, <3>3
  <2>4. x6 \in BOOLEAN
    BY Zenon DEF even_parity
  <2>5. i.op \in {"inc", "dec"} => x1 = s.flags.cf
    BY Zenon
  <2> HIDE DEF x1, x2, x3, x4, x5, x6
  <2> QED BY <2>1, <2>2, <2>3, <2>4, <2>5 DEF Flags
<1>7. CASE i.op \in {"add", "adc", "xadd", "inc"}
  <2>1. v = (l + r + c) % m
    BY <1>3, <1>7 DEF Sum
  <2>2. set_add_flags(w, l, r, v, c) = AddedFlags(w, l, r, c, v)
    BY <1>0, <1>1, <2>1, AddFlags
  <2>3. CASE i.op \in {"add", "adc", "xadd"}
    BY <1>1, <1>5, <1>6, <2>2, <2>3 DEF SumFlags, Sum, AddedFlags
  <2>4. CASE i.op = "inc"
    BY <1>1, <1>5, <1>6, <2>2, <2>4 DEF SumFlags, Sum, AddedFlags
  <2> QED BY <1>7, <2>3, <2>4
<1>8. CASE i.op \in {"sub", "sbb", "cmp", "neg", "dec"}
  <2>1. v = (l - r - c) % m
    BY <1>3, <1>8 DEF Sum
  <2>2. set_sub_flags(w, l, r, v, c) = SubtractedFlags(w, l, r, c, v)
    BY <1>0, <1>1, <2>1, SubFlags
  <2>3. CASE i.op \in {"sub", "sbb", "cmp", "neg"}
    BY <1>1, <1>5, <1>6, <2>2, <2>3 DEF SumFlags, Sum, SubtractedFlags
  <2>4. CASE i.op = "dec"
    BY <1>1, <1>5, <1>6, <2>2, <2>4 DEF SumFlags, Sum, SubtractedFlags
  <2> QED BY <1>8, <2>3, <2>4
<1> QED
  BY <1>7, <1>8 DEF AdditionOps

(* One attempt of an addition or subtraction on a machine with no fault    *)
(* pending: it fails, or it ends as the integers say.                      *)
LEMMA AdditionOutcome ==
    ASSUME NEW s \in CpuStates, s.reason = "none", NEW i, Decoded(i), i.op \in AdditionOps \ {"not"},
           NEW t, t = AdditionHandler(s, i)
    PROVE  \/ Failed(s, i, t)
           \/ /\ Completed(s, t) /\ (i.op = "xadd" => i.dst # i.src) => SumExact(i, s, t)
              /\ Completed(s, t)
              /\ i.op # "cmp" => RegisterWritten(s, i, t)
              /\ i.op = "cmp" => t.gpr = s.gpr /\ t.mem = s.mem
<1> DEFINE w == i.w
           a == memory_address(s, i)
           dr == read_operand(s, i, i.dst, w)
           sr == read_operand(s, i, i.src, w)
           unary == i.op \in {"inc", "dec", "neg"}
           v == SumValue(i, s)
           f == SumFlags(i, s)
           l == Left(i, s)
           r == Right(i, s)
           c == CarryIn(i, s)
<1>0. /\ i \in Instructions /\ w \in Widths /\ i.dst \in RegisterOperands(w) \cup {"mem"} /\ i.dst \in Readable(w)
      /\ ~unary => i.src \in Readable(w)
      /\ i.op = "xadd" => i.src \in RegisterOperands(w)
      /\ i.op \in {"add", "adc", "sub", "sbb", "cmp", "inc", "dec", "neg", "xadd"}
  BY DEF Decoded, Instructions, AdditionOps, LoopOps, Readable
<1>11. ~Unshifted(i, s)
  BY <1>0 DEF Unshifted, ShiftRotateOps, DoubleShifts
<1>12. i.op # "cmp" => i.op \notin LoadOnlyOps
  BY <1>0 DEF LoadOnlyOps, IntegerReaders, MulDivOps
<1>9. /\ dr.reason # "none" => Failed(s, i, [s EXCEPT !.reason = dr.reason, !.addr = dr.addr])
      /\ dr.reason = "none" => dr.v \in 0 .. Modulus(w) - 1 /\ dr.v = ValueOf(s, i, i.dst)
  <2>1. dr = read_operand(s, i, i.dst, w)
    OBVIOUS
  <2> HIDE DEF dr, w
  <2>2. Loaded(s, i, i.dst, w, dr) \/ Unreadable(s, i, i.dst, dr)
    BY <1>0, <2>1, ReadOperand
  <2>3. dr.reason # "none" => Failed(s, i, [s EXCEPT !.reason = dr.reason, !.addr = dr.addr])
    BY <1>0, <2>1, ReadFailed
  <2> QED BY <2>2, <2>3, ValueIsOperand DEF Loaded, Unreadable, w
<1>10. ~unary => /\ sr.reason # "none" => Failed(s, i, [s EXCEPT !.reason = sr.reason, !.addr = sr.addr])
                 /\ sr.reason = "none" => sr.v \in 0 .. Modulus(w) - 1 /\ sr.v = ValueOf(s, i, i.src)
  <2> SUFFICES ASSUME ~unary
               PROVE  /\ sr.reason # "none" => Failed(s, i, [s EXCEPT !.reason = sr.reason, !.addr = sr.addr])
                      /\ sr.reason = "none" => sr.v \in 0 .. Modulus(w) - 1 /\ sr.v = ValueOf(s, i, i.src)
    OBVIOUS
  <2>1. sr = read_operand(s, i, i.src, w) /\ i.src \in Readable(w)
    BY <1>0
  <2> HIDE DEF sr, w
  <2>2. Loaded(s, i, i.src, w, sr) \/ Unreadable(s, i, i.src, sr)
    BY <1>0, <2>1, ReadOperand
  <2>3. sr.reason # "none" => Failed(s, i, [s EXCEPT !.reason = sr.reason, !.addr = sr.addr])
    BY <1>0, <2>1, ReadFailed
  <2> QED BY <2>2, <2>3, ValueIsOperand DEF Loaded, Unreadable, w
<1>1. CASE dr.reason # "none"
  <2>1. t = [s EXCEPT !.reason = dr.reason, !.addr = dr.addr]
    BY <1>0, <1>1 DEF AdditionHandler, ADD, ADC, SUB, SBB, CMP, INC, DEC, NEG, XADD, Operands, With
  <2> HIDE DEF dr
  <2> QED BY <1>1, <1>9, <2>1
<1>2. CASE dr.reason = "none" /\ ~unary /\ sr.reason # "none"
  <2>1. t = [s EXCEPT !.reason = sr.reason, !.addr = sr.addr]
    BY <1>0, <1>2 DEF AdditionHandler, ADD, ADC, SUB, SBB, CMP, XADD, Operands, With
  <2> HIDE DEF sr, dr, unary
  <2> QED BY <1>2, <1>10, <2>1
<1>3. CASE dr.reason = "none" /\ (unary \/ sr.reason = "none")
  <2>1. dr.v \in 0 .. Modulus(w) - 1 /\ dr.v = ValueOf(s, i, i.dst)
    BY <1>3, <1>9
  <2>2. ~unary => sr.v \in 0 .. Modulus(w) - 1 /\ sr.v = ValueOf(s, i, i.src)
    BY <1>3, <1>10
  <2>3. 0 \in 0 .. Modulus(w) - 1 /\ 1 \in 0 .. Modulus(w) - 1
    BY <1>0, ModulusType
  <2>4. l = (IF i.op = "neg" THEN 0 ELSE dr.v) /\ l \in 0 .. Modulus(w) - 1
    BY <2>1, <2>3 DEF Left
  <2>5. r = (IF i.op \in {"inc", "dec"} THEN 1 ELSE IF i.op = "neg" THEN dr.v ELSE sr.v) /\ r \in 0 .. Modulus(w) - 1
    BY <1>0, <2>1, <2>2, <2>3 DEF Right
  <2>6. /\ c \in {0, 1} /\ v \in 0 .. Modulus(w) - 1 /\ f \in Flags
        /\ i.op \in {"add", "adc", "xadd"} => set_add_flags(w, l, r, v, c) = f
        /\ i.op \in {"sub", "sbb", "cmp", "neg"} => set_sub_flags(w, l, r, v, c) = f
        /\ i.op = "inc" => [set_add_flags(w, l, r, v, c) EXCEPT !.cf = s.flags.cf] = f
        /\ i.op = "dec" => [set_sub_flags(w, l, r, v, c) EXCEPT !.cf = s.flags.cf] = f
        /\ i.op \in {"inc", "dec"} => f.cf = s.flags.cf
    BY <1>0, <2>4, <2>5, SumComputed
  <2>7. c = (IF i.op \in {"adc", "sbb"} THEN CF(s) ELSE 0) /\ CF(s) \in Int
    BY DEF CarryIn, CF, B
  <2>8. v = Truncate(w, Sum(i, l, r, c))
    BY DEF SumValue, Truncate
  <2>9. l \in Int /\ r \in Int
    BY <1>0, <2>4, <2>5, ResidueSmall
  <2> HIDE DEF v, f, l, r, c, dr, sr, w, a
  <2>10. CASE i.op \in {"add", "adc", "sub", "sbb", "inc", "dec", "neg"}
    <3>1. t = Commit(s, i, v, f)
      <4>1. CASE i.op = "add"
        <5>1. v = Truncate(w, dr.v + sr.v) /\ f = set_add_flags(w, dr.v, sr.v, v, 0)
          BY <2>4, <2>5, <2>6, <2>7, <2>8, <2>9, <4>1 DEF Sum
        <5> QED BY <1>3, <4>1, <5>1 DEF AdditionHandler, ADD, Operands, With, dr, sr, w
      <4>2. CASE i.op = "adc"
        <5>1. v = Truncate(w, dr.v + sr.v + CF(s)) /\ f = set_add_flags(w, dr.v, sr.v, v, CF(s))
          BY <2>4, <2>5, <2>6, <2>7, <2>8, <2>9, <4>2 DEF Sum
        <5> QED BY <1>3, <4>2, <5>1 DEF AdditionHandler, ADC, Operands, With, dr, sr, w
      <4>3. CASE i.op = "sub"
        <5>1. v = Truncate(w, dr.v - sr.v) /\ f = set_sub_flags(w, dr.v, sr.v, v, 0)
          BY <2>4, <2>5, <2>6, <2>7, <2>8, <2>9, <4>3 DEF Sum
        <5> QED BY <1>3, <4>3, <5>1 DEF AdditionHandler, SUB, Operands, With, dr, sr, w
      <4>4. CASE i.op = "sbb"
        <5>1. v = Truncate(w, dr.v - sr.v - CF(s)) /\ f = set_sub_flags(w, dr.v, sr.v, v, CF(s))
          BY <2>4, <2>5, <2>6, <2>7, <2>8, <2>9, <4>4 DEF Sum
        <5> QED BY <1>3, <4>4, <5>1 DEF AdditionHandler, SBB, Operands, With, dr, sr, w
      <4>5. CASE i.op = "inc"
        <5>1. v = Truncate(w, dr.v + 1) /\ f = [set_add_flags(w, dr.v, 1, v, 0) EXCEPT !.cf = s.flags.cf]
          BY <2>4, <2>5, <2>6, <2>7, <2>8, <2>9, <4>5 DEF Sum
        <5> QED BY <1>3, <4>5, <5>1 DEF AdditionHandler, INC, With, dr, w
      <4>6. CASE i.op = "dec"
        <5>1. v = Truncate(w, dr.v - 1) /\ f = [set_sub_flags(w, dr.v, 1, v, 0) EXCEPT !.cf = s.flags.cf]
          BY <2>4, <2>5, <2>6, <2>7, <2>8, <2>9, <4>6 DEF Sum
        <5> QED BY <1>3, <4>6, <5>1 DEF AdditionHandler, DEC, With, dr, w
      <4>7. CASE i.op = "neg"
        <5>1. v = Truncate(w, -dr.v) /\ f = set_sub_flags(w, 0, dr.v, v, 0)
          BY <2>4, <2>5, <2>6, <2>7, <2>8, <2>9, <4>7 DEF Sum
        <5> QED BY <1>3, <4>7, <5>1 DEF AdditionHandler, NEG, With, dr, w
      <4> QED BY <2>10, <4>1, <4>2, <4>3, <4>4, <4>5, <4>6, <4>7
    <3>2. \/ Failed(s, i, t)
          \/ /\ Completed(s, t) /\ t.flags = f /\ ValueAt(t, i, i.dst, a) = v
             /\ i.dst # "mem" => t.gpr = [s.gpr EXCEPT ![Holder(i.dst)] = Merged(i.dst, s.gpr[Holder(i.dst)], v, i.w)]
      BY <1>0, <1>11, <1>12, <2>6, <2>10, <3>1, CommitOutcome DEF w, a
    <3>3. ASSUME i.dst # "mem" => t.gpr = [s.gpr EXCEPT ![Holder(i.dst)] = Merged(i.dst, s.gpr[Holder(i.dst)], v, i.w)]
          PROVE  RegisterWritten(s, i, t)
      <4>1. v \in Int /\ s.gpr \in [Gprs -> Values]
        BY <1>0, <2>6, ResidueSmall, Parts
      <4>2. i.dst \in Gprs => Holder(i.dst) = i.dst
        BY DEF Holder, Gprs
      <4>3. "mem" \notin Gprs /\ "mem" \notin HighBytes
        BY DEF Gprs, HighBytes
      <4> QED BY <3>3, <4>1, <4>2, <4>3 DEF RegisterWritten
    <3> QED BY <2>10, <3>2, <3>3 DEF SumExact, v, f, a
  <2>11. CASE i.op = "cmp"
    <3>1. t = [s EXCEPT !.flags = f]
      <4>1. v = Truncate(w, dr.v - sr.v) /\ f = set_sub_flags(w, dr.v, sr.v, v, 0)
        BY <2>4, <2>5, <2>6, <2>7, <2>8, <2>9, <2>11 DEF Sum
      <4> QED BY <1>3, <2>11, <4>1 DEF AdditionHandler, CMP, Operands, With, dr, sr, w
    <3>2. Completed(s, t) /\ t.flags = f /\ t.gpr = s.gpr /\ t.mem = s.mem
      BY <2>6, <3>1 DEF Completed, CpuStates
    <3>3. ValueAt(t, i, i.dst, a) = l
      BY <2>1, <2>4, <2>11, <3>2 DEF ValueAt, ValueOf, a
    <3> QED BY <2>11, <3>2, <3>3 DEF SumExact, f, l, a
  <2>12. CASE i.op = "xadd"
    <3> DEFINE u == Commit(s, i, v, f)
    <3>1. t = IF u.reason = "none" THEN write_operand(u, i, i.src, l, w) ELSE u
      <4>1. v = Truncate(w, dr.v + sr.v) /\ f = set_add_flags(w, dr.v, sr.v, v, 0) /\ l = dr.v
        BY <2>4, <2>5, <2>6, <2>7, <2>8, <2>9, <2>12 DEF Sum
      <4> QED BY <1>3, <2>12, <4>1 DEF AdditionHandler, XADD, Operands, With, Then, dr, sr, w
    <3> HIDE DEF u
    <3>2. \/ Failed(s, i, u)
          \/ /\ Completed(s, u) /\ u.flags = f /\ ValueAt(u, i, i.dst, a) = v
             /\ i.dst # "mem" => u.gpr = [s.gpr EXCEPT ![Holder(i.dst)] = Merged(i.dst, s.gpr[Holder(i.dst)], v, i.w)]
      BY <1>0, <1>11, <1>12, <2>6, <2>12, CommitOutcome DEF w, a, u
    <3>3. CASE Failed(s, i, u)
      <4>1. u.reason # "none"
        BY <3>3 DEF Failed, CpuStates
      <4> QED BY <3>1, <3>3, <4>1
    <3>4. CASE /\ Completed(s, u) /\ u.flags = f /\ ValueAt(u, i, i.dst, a) = v
               /\ i.dst # "mem" => u.gpr = [s.gpr EXCEPT ![Holder(i.dst)] = Merged(i.dst, s.gpr[Holder(i.dst)], v, i.w)]
      <4>1. u \in CpuStates /\ u.reason = "none"
        BY <3>4 DEF Completed
      <4>2. i.src \in RegisterOperands(w) /\ i.src # "mem" /\ l \in 0 .. Modulus(w) - 1
        BY <1>0, <2>4, <2>12 DEF RegisterOperands, Gprs, HighBytes
      <4>3. t = write_operand(u, i, i.src, l, w)
        BY <3>1, <4>1
      <4>4. Wrote(u, i, i.src, w, l, t)
        BY <1>0, <4>1, <4>2, <4>3, WriteOperand DEF Refused
      <4> DEFINE hs == Holder(i.src)
                 g == Merged(i.src, u.gpr[hs], l, w)
      <4>5. /\ t \in CpuStates /\ SameControl(u, t) /\ t.mem = u.mem /\ hs \in Gprs
            /\ t.gpr = [u.gpr EXCEPT ![hs] = g]
        BY <4>2, <4>4 DEF Wrote
      <4>6. Completed(s, t) /\ t.flags = f
        BY <3>4, <4>5 DEF Completed, SameControl
      <4>7. RegisterWritten(s, i, t)
        <5>1. v \in Int /\ s.gpr \in [Gprs -> Values] /\ u.gpr \in [Gprs -> Values]
          BY <1>0, <2>6, <4>1, ResidueSmall, Parts
        <5>2. i.dst \in Gprs => Holder(i.dst) = i.dst /\ i.dst # "mem"
          BY DEF Holder, Gprs
        <5>3. i.dst \in Gprs /\ hs # i.dst => t.gpr[i.dst] = Merged(i.dst, s.gpr[i.dst], v, i.w)
          <6> HIDE DEF g, hs
          <6> QED BY <3>4, <4>5, <5>1, <5>2
        <5> QED BY <2>12, <5>1, <5>3 DEF RegisterWritten
      <4>8. ASSUME i.dst # i.src PROVE ValueAt(t, i, i.dst, a) = v
        <5>1. ValueAt(t, i, i.dst, a) = ValueAt(u, i, i.dst, a)
          <6>0. u.gpr \in [Gprs -> Values] /\ u.gpr[hs] \in 0 .. Container - 1 /\ l \in Int
            BY <2>9, <4>1, <4>5, Parts
          <6>1. CASE i.dst = "mem"
            BY <4>5, <6>1 DEF ValueAt, Gprs, HighBytes
          <6>2. CASE i.dst # "mem" /\ Holder(i.dst) # hs
            <7>1. Holder(i.dst) \in Gprs /\ (i.dst \in Gprs => Holder(i.dst) = i.dst) /\ i.dst \in Gprs \cup HighBytes
              BY <1>0, <6>2 DEF Holder, RegisterOperands, Gprs, HighBytes
            <7>2. t.gpr[Holder(i.dst)] = u.gpr[Holder(i.dst)]
              <8> HIDE DEF g, hs
              <8> QED BY <4>5, <6>0, <6>2, <7>1
            <7> QED BY <7>1, <7>2 DEF ValueAt, Gprs, HighBytes
          <6>3. CASE i.dst # "mem" /\ Holder(i.dst) = hs
            <7>1. /\ w = 1
                  /\ (i.dst \in Gprs /\ i.src \in HighBytes /\ i.dst = hs) \/ (i.dst \in HighBytes /\ i.src \in Gprs)
              BY <1>0, <4>2, <4>8, <6>3 DEF Holder, RegisterOperands, Gprs, HighBytes
            <7>2. t.gpr[hs] = g
              <8> HIDE DEF g, hs
              <8> QED BY <4>5, <6>0
            <7>3. CASE i.dst \in Gprs /\ i.src \in HighBytes /\ i.dst = hs
              <8>1. g % Modulus(1) = u.gpr[hs] % Modulus(1)
                BY <1>0, <4>2, <6>0, <7>1, <7>3, MergedValue
              <8> QED BY <7>1, <7>2, <7>3, <8>1 DEF ValueAt, Truncate, Gprs, HighBytes, w
            <7>4. CASE i.dst \in HighBytes /\ i.src \in Gprs
              <8>1. g \div Modulus(1) = u.gpr[hs] \div Modulus(1)
                <9>1. 1 \in {1, 2} /\ 1 \in Widths /\ i.src \in RegisterOperands(1) /\ g = Merged(i.src, u.gpr[hs], l, 1)
                  BY <4>2, <7>1 DEF Widths
                <9> QED BY <6>0, <7>4, <9>1, MergedValue
              <8> QED BY <6>3, <7>1, <7>2, <7>4, <8>1 DEF ValueAt, HighByte, Gprs, HighBytes
            <7> QED BY <7>1, <7>3, <7>4
          <6> QED BY <6>1, <6>2, <6>3
        <5> QED BY <3>4, <5>1
      <4> QED BY <2>12, <4>6, <4>7, <4>8 DEF SumExact, v, f, a
    <3> QED BY <3>2, <3>3, <3>4
  <2> QED
    BY <1>0, <2>10, <2>11, <2>12
<1> QED
  BY <1>1, <1>2, <1>3

-----------------------------------------------------------------------------
(* The rule for partial registers. What any value does that is written to  *)
(* a register operand, whether it fits the operand or not.                 *)
Stored(s, o, w, v, t) ==
    LET h == Holder(o)
    IN /\ t \in CpuStates /\ SameControl(s, t)
       /\ o = "mem" => t.gpr = s.gpr
       /\ o # "mem" => t.mem = s.mem /\ h \in Gprs /\ t.gpr = [s.gpr EXCEPT ![h] = Merged(o, s.gpr[h], v, w)]

(* write_operand with a value of any size: it is truncated into place.     *)
LEMMA WriteAny ==
    ASSUME NEW s \in CpuStates, NEW i \in Instructions, NEW w \in Widths,
           NEW o \in RegisterOperands(w) \cup {"mem"}, NEW v \in Int, NEW t, t = write_operand(s, i, o, v, w)
    PROVE  Refused(s, i, o, t) \/ Stored(s, o, w, v, t)
<1> DEFINE a == memory_address(s, i)
<1>1. CASE o = "mem" /\ ~CanStore(s, a, w)
  <2>1. t = write_memory_checked(s, a, v, w)
    BY <1>1 DEF write_operand
  <2>2. RefusedAt(s, a, t)
    BY <1>1, <2>1, RefusedStore
  <2> QED BY <1>1, <2>2 DEF Refused
<1>2. CASE o = "mem" /\ CanStore(s, a, w)
  <2> DEFINE x == Truncate(w, v)
  <2>1. a \in Addresses /\ x \in Values
    BY <1>2, Residue DEF CanStore, Crossing, PermAt
  <2>2. t = [s EXCEPT !.mem[a] = x]
    BY <1>2 DEF write_operand, write_memory_checked
  <2> HIDE DEF a, x
  <2>3. t \in CpuStates /\ SameControl(s, t) /\ t.gpr = s.gpr
    BY <2>1, <2>2 DEF CpuStates, SameControl
  <2> QED BY <1>2, <2>3 DEF Stored
<1>3. CASE o # "mem"
  <2> DEFINE h == Holder(o)
             g == Merged(o, s.gpr[h], v, w)
  <2>1. h \in Gprs /\ g \in Values /\ t = [s EXCEPT !.gpr[h] = g] /\ t \in CpuStates /\ t.gpr = [s.gpr EXCEPT ![h] = g]
    <3>1. t = write_register(s, o, v, w) /\ o \in RegisterOperands(w)
      BY <1>3 DEF write_operand
    <3> QED BY <3>1, WriteRegister
  <2>2. SameControl(s, t) /\ t.mem = s.mem
    <3> HIDE DEF h, g
    <3> QED BY <2>1 DEF SameControl, CpuStates
  <2> QED BY <1>3, <2>1, <2>2 DEF Stored
<1> QED
  BY <1>1, <1>2, <1>3

(* Commit with a value of any size.                                        *)
LEMMA CommitAny ==
    ASSUME NEW s \in CpuStates, s.reason = "none", NEW i \in Instructions, i.dst \in RegisterOperands(i.w) \cup {"mem"},
           i.op \notin LoadOnlyOps,
           NEW v \in Int, NEW f \in Flags, i.op \in {"inc", "dec"} => f.cf = s.flags.cf,
           Unshifted(i, s) => f = s.flags, NEW t, t = Commit(s, i, v, f)
    PROVE  Failed(s, i, t) \/ (Completed(s, t) /\ RegisterWritten(s, i, t))
<1> DEFINE u == [s EXCEPT !.flags = f]
           a == memory_address(s, i)
<1>0. i.w \in Widths
  BY DEF Instructions
<1>1. u \in CpuStates /\ u.gpr = s.gpr /\ u.flags = f /\ u.reason = "none" /\ u.taken = s.taken
      /\ u.rip = s.rip /\ u.cs = s.cs /\ u.perm = s.perm
  BY DEF CpuStates
<1>2. t = write_operand(u, i, i.dst, v, i.w)
  BY DEF Commit
<1>3. memory_address(u, i) = a /\ a \in Nat /\ PermAt(u, a) = PermAt(s, a)
  BY <1>1, AddressTypes DEF memory_address, PermAt
<1> HIDE DEF u, a
<1>4. Refused(u, i, i.dst, t) \/ Stored(u, i.dst, i.w, v, t)
  BY <1>0, <1>1, <1>2, WriteAny
<1>5. CASE Refused(u, i, i.dst, t)
  <2>1. u = [s EXCEPT !.flags = f]
    BY DEF u
  <2> QED BY <1>5, <2>1, RefusedCommit
<1>6. CASE Stored(u, i.dst, i.w, v, t)
  <2>1. Completed(s, t)
    BY <1>1, <1>6 DEF Stored, SameControl, Completed
  <2>2. i.dst \in Gprs \cup HighBytes => i.dst # "mem" /\ (i.dst \in Gprs => Holder(i.dst) = i.dst)
    BY DEF Gprs, HighBytes, Holder
  <2>3. s.gpr \in [Gprs -> Values]
    BY DEF CpuStates
  <2>4. i.dst \in Gprs => t.gpr[i.dst] = Merged(i.dst, s.gpr[i.dst], v, i.w)
    BY <1>1, <1>6, <2>2, <2>3 DEF Stored
  <2>5. i.dst \in HighBytes => t.gpr = [s.gpr EXCEPT ![Holder(i.dst)] = Merged(i.dst, s.gpr[Holder(i.dst)], v, i.w)]
    BY <1>1, <1>6, <2>2 DEF Stored
  <2> QED BY <2>1, <2>4, <2>5 DEF RegisterWritten
<1> QED
  BY <1>4, <1>5, <1>6

(* A handler that writes without touching the flags.                       *)
LEMMA CommitPlain ==
    ASSUME NEW s \in CpuStates, s.reason = "none", NEW i \in Instructions, i.dst \in RegisterOperands(i.w) \cup {"mem"},
           i.op \notin LoadOnlyOps, NEW v \in Int, NEW t, t = write_operand(s, i, i.dst, v, i.w)
    PROVE  Failed(s, i, t) \/ (Completed(s, t) /\ RegisterWritten(s, i, t))
<1>1. s = [s EXCEPT !.flags = s.flags] /\ s.flags \in Flags
  BY DEF CpuStates
<1>2. t = Commit(s, i, v, s.flags)
  BY <1>1 DEF Commit
<1> QED
  BY <1>1, <1>2, CommitAny

(* A register written with any value obeys the partial-register rule.      *)
LEMMA WrittenIsExact ==
    ASSUME NEW s \in CpuStates, NEW i \in Instructions, i.dst \in RegisterOperands(i.w) \cup {"mem"},
           NEW t, RegisterWritten(s, i, t)
    PROVE  RegisterExact(i, s, t)
<1> DEFINE d == i.dst
           w == i.w
<1>0. w \in Widths /\ s.gpr \in [Gprs -> Values] /\ (d \in Gprs \cup HighBytes => d # "mem" /\ d \in RegisterOperands(w))
  BY DEF Instructions, CpuStates, Gprs, HighBytes
<1>1. PICK v \in Int :
        /\ d \in Gprs /\ (i.op \in {"xchg", "xadd"} => Holder(i.src) # d)
              => t.gpr[d] = Merged(d, s.gpr[d], v, w)
        /\ d \in HighBytes /\ i.op \notin {"xchg", "xadd"}
              => t.gpr = [s.gpr EXCEPT ![Holder(d)] = Merged(d, s.gpr[Holder(d)], v, w)]
  BY DEF RegisterWritten
<1>2. ASSUME d \in Gprs, i.op \in {"xchg", "xadd"} => Holder(i.src) # d
      PROVE  CASE w \in {1, 2} -> t.gpr[d] \div Modulus(w) = s.gpr[d] \div Modulus(w)
               [] w = 4 -> t.gpr[d] < Modulus(4)
               [] OTHER -> TRUE
  <2> DEFINE x == s.gpr[d]
             g == t.gpr[d]
  <2>1. x \in 0 .. Container - 1 /\ g = Merged(d, x, v, w)
    BY <1>1, <1>2, Parts
  <2> HIDE DEF x, g, d, w
  <2>2. (w \in {1, 2} => g \div Modulus(w) = x \div Modulus(w)) /\ (w = 4 => g < Modulus(4))
    BY <1>0, <1>2, <2>1, MergedValue
  <2> QED BY <2>2 DEF x, g
<1>3. ASSUME d \in HighBytes, i.op \notin {"xchg", "xadd"}
      PROVE  LET h == Holder(d)
             IN t.gpr = [s.gpr EXCEPT ![h] = @ + (HighByte(t.gpr[h]) - HighByte(@)) * Modulus(1)]
  <2> DEFINE h == Holder(d)
             x == s.gpr[h]
             g == Merged(d, x, v, w)
  <2>1. h \in Gprs
    BY <1>3 DEF Holder, Gprs, HighBytes
  <2>2. x \in 0 .. Container - 1
    BY <2>1, Parts
  <2>3. t.gpr = [s.gpr EXCEPT ![h] = g]
    BY <1>1, <1>3
  <2>4. g = x + (HighByte(g) - HighByte(x)) * Modulus(1)
    BY <1>0, <1>3, <2>2, MergedValue
  <2> HIDE DEF h, g, d, w
  <2>5. t.gpr[h] = g
    BY <1>0, <2>1, <2>3
  <2> QED BY <2>3, <2>4, <2>5 DEF h
<1> QED
  BY <1>2, <1>3 DEF RegisterExact

(* What one attempt of an instruction does to the registers.               *)
RegisterOutcome(s, i, t) ==
    \/ Failed(s, i, t)
    \/ /\ t \in CpuStates /\ t.reason = "none"
       /\ i.op \in IntegerWriters => RegisterExact(i, s, t)
       /\ i.op \in IntegerReaders => t.gpr = s.gpr

(* The two ends of a writing handler, as the rule sees them.               *)
LEMMA WriterOutcome ==
    ASSUME NEW s \in CpuStates, NEW i \in Instructions, i.dst \in RegisterOperands(i.w) \cup {"mem"},
           i.op \notin IntegerReaders, NEW t, Failed(s, i, t) \/ (Completed(s, t) /\ RegisterWritten(s, i, t))
    PROVE  RegisterOutcome(s, i, t)
BY WrittenIsExact DEF RegisterOutcome, Completed

(* A read operand is a natural number, or the attempt fails.               *)
LEMMA ReadAny ==
    ASSUME NEW s \in CpuStates, NEW i \in Instructions, NEW w \in Widths, NEW o \in Readable(w),
           NEW r, r = read_operand(s, i, o, w)
    PROVE  \/ r.reason = "none" /\ r.v \in Nat /\ r.v \in 0 .. Modulus(w) - 1
           \/ r.reason # "none" /\ Failed(s, i, [s EXCEPT !.reason = r.reason, !.addr = r.addr])
<1>1. Loaded(s, i, o, w, r) \/ Unreadable(s, i, o, r)
  BY ReadOperand
<1>2. CASE Loaded(s, i, o, w, r)
  <2>1. r.reason = "none" /\ r.v \in 0 .. Modulus(w) - 1
    BY <1>2 DEF Loaded
  <2> QED BY <2>1, ResidueSmall
<1>3. CASE Unreadable(s, i, o, r)
  <2>1. r.reason # "none"
    BY <1>3 DEF Unreadable
  <2> QED BY <2>1, ReadFailed
<1> QED
  BY <1>1, <1>2, <1>3

(* ResultFlags makes flags.                                                *)
LEMMA ResultFlagsType ==
    ASSUME NEW w, NEW v, NEW c \in BOOLEAN, NEW o \in BOOLEAN
    PROVE  ResultFlags(w, v, c, o, FALSE) \in Flags
<1> DEFINE x1 == even_parity(v)
           x2 == v = 0
           x3 == Sign(Modulus(w), v)
           x4 == FALSE
<1>1. x1 \in BOOLEAN /\ x4 \in BOOLEAN
  BY Zenon DEF even_parity
<1>3. x2 \in BOOLEAN /\ x3 \in BOOLEAN
  BY DEF Sign
<1>2. ResultFlags(w, v, c, o, FALSE) = [cf |-> c, of |-> o, af |-> x4, pf |-> x1, zf |-> x2, sf |-> x3]
  BY DEF ResultFlags
<1> HIDE DEF x1, x2, x3, x4
<1>4. [cf |-> c, of |-> o, af |-> x4, pf |-> x1, zf |-> x2, sf |-> x3] \in Flags
  BY <1>1, <1>3, Zenon DEF Flags
<1> QED
  BY <1>2, <1>4, Zenon

(* The powers of two a shift multiplies and divides by.                    *)
LEMMA PowerType ==
    ASSUME NEW n \in Nat, n <= Bits(8)
    PROVE  2 ^ n \in Nat \ {0}
<1>1. 0 \in Nat /\ n + 0 <= Bits(8)
  BY ByteBitsAssumption DEF Bits
<1> QED
  BY <1>1, PowerSum

(* Operand widths in bits.                                                 *)
LEMMA BitsType == \A w \in Widths : Bits(w) \in Nat \ {0, 1} /\ Bits(w) <= Bits(8)
BY ByteBitsAssumption DEF Bits, Widths

(* Shifts of natural numbers are natural numbers.                          *)
LEMMA ShiftTypes ==
    ASSUME NEW w \in Widths, NEW a \in Nat, NEW k \in Nat
    PROVE  ShiftLeft(w, a, k) \in Nat /\ ShiftRight(w, a, k) \in Nat
<1>1. CASE k >= Bits(w)
  BY <1>1 DEF ShiftLeft, ShiftRight
<1>2. CASE ~(k >= Bits(w))
  <2> DEFINE n == Bits(w) - k
             p == 2 ^ k
             q == 2 ^ n
  <2>0. Bits(w) \in Nat /\ Bits(w) <= Bits(8) /\ Bits(8) \in Nat
    BY BitsType DEF Widths
  <2>1. n \in Nat /\ n <= Bits(8) /\ k <= Bits(8)
    BY <1>2, <2>0
  <2> HIDE DEF n
  <2>2. p \in Nat \ {0} /\ q \in Nat \ {0}
    BY <2>1, PowerType
  <2>3. ShiftLeft(w, a, k) = (a % q) * p /\ ShiftRight(w, a, k) = a \div p
    BY <1>2 DEF ShiftLeft, ShiftRight, n
  <2> HIDE DEF p, q
  <2>4. a % q \in Nat /\ a \div p \in Nat
    BY <2>2
  <2>5. (a % q) * p \in Nat
    BY <2>2, <2>4
  <2> QED BY <2>3, <2>4, <2>5
<1> QED
  BY <1>1, <1>2

(* Shift counts are natural numbers.                                       *)
LEMMA CountType ==
    ASSUME NEW s \in CpuStates, NEW i, i.src \in {"one", "cx", "imm"}, i.imm \in Nat
    PROVE  read_shift_count(s, i) \in Nat
<1> DEFINE m == shift_count_mask(i.w)
<1>1. m \in Nat \ {0}
  BY BitsType DEF shift_count_mask, Widths
<1>2. s.gpr["cx"] \in Nat
  <2>1. "cx" \in Gprs
    BY DEF Gprs
  <2>2. s.gpr["cx"] \in Values
    BY <2>1 DEF CpuStates
  <2> QED BY <2>2, ValuesAreNats, Zenon
<1> HIDE DEF m
<1>3. s.gpr["cx"] % m \in Nat /\ i.imm % m \in Nat
  BY <1>1, <1>2
<1>4. i.src = "one" => read_shift_count(s, i) = 1
  BY DEF read_shift_count
<1>5. i.src = "cx" => read_shift_count(s, i) = s.gpr["cx"] % m
  BY DEF read_shift_count, m
<1>6. i.src = "imm" => read_shift_count(s, i) = i.imm % m
  BY DEF read_shift_count, m
<1> QED
  BY <1>3, <1>4, <1>5, <1>6

(* RCL and RCR one turn at a time: the recursive function exists.          *)
LEMMA CarryTurns ==
    ASSUME NEW w, NEW left, NEW a, NEW c, NEW k \in Nat
    PROVE  \E f : /\ carry_turns(w, left, k, a, c) = f[k] /\ f[0] = [v |-> a, c |-> c]
                  /\ \A n \in 0 .. k : n # 0 => f[n] = carry_turn(w, left, f[n - 1])
<1> DEFINE z == [v |-> a, c |-> c]
           T(x) == carry_turn(w, left, x)
           R(m, f) == f = [n \in 0 .. m |-> IF n = 0 THEN z ELSE T(f[n - 1])]
           E == {m \in Nat : \E f : R(m, f)}
<1>1. 0 \in E
  <2>1. R(0, [n \in 0 .. 0 |-> z])
    <3> HIDE DEF z, T
    <3> QED OBVIOUS
  <2> HIDE DEF R
  <2> QED BY <2>1
<1>2. ASSUME NEW m \in Nat, m \in E PROVE m + 1 \in E
  <2>1. PICK f : R(m, f)
    BY <1>2
  <2> DEFINE g == [n \in 0 .. m + 1 |-> IF n = m + 1 THEN T(f[m]) ELSE f[n]]
  <2>2. R(m + 1, g)
    <3> HIDE DEF z, T
    <3>1. \A n \in 0 .. m + 1 : g[n] = IF n = 0 THEN z ELSE T(g[n - 1])
      <4> SUFFICES ASSUME NEW n \in 0 .. m + 1 PROVE g[n] = IF n = 0 THEN z ELSE T(g[n - 1])
        OBVIOUS
      <4>1. CASE n = m + 1
        BY <4>1
      <4>2. CASE n = 0
        BY <2>1, <4>2
      <4>3. CASE n # 0 /\ n # m + 1
        <5>1. n \in 0 .. m /\ n - 1 \in 0 .. m + 1 /\ n - 1 # m + 1
          BY <4>3
        <5>2. g[n] = f[n] /\ g[n - 1] = f[n - 1]
          BY <4>3, <5>1
        <5>3. f[n] = T(f[n - 1])
          BY <2>1, <4>3, <5>1
        <5> QED BY <4>3, <5>2, <5>3
      <4> QED BY <4>1, <4>2, <4>3
    <3> QED BY <3>1
  <2> HIDE DEF R
  <2> QED BY <2>2
<1>3. k \in E
  <2> HIDE DEF E
  <2> QED BY <1>1, <1>2, NatsByInduction
<1> DEFINE h == CHOOSE f : R(k, f)
<1>4. R(k, h)
  <2> HIDE DEF R
  <2> QED BY <1>3
<1>5. carry_turns(w, left, k, a, c) = h[k]
  BY DEF carry_turns
<1>6. h[0] = z /\ \A n \in 0 .. k : n # 0 => h[n] = T(h[n - 1])
  <2> HIDE DEF h, z, T
  <2> QED BY <1>4
<1> QED
  BY <1>5, <1>6

(* Tests of single bits are Boolean.                                       *)
LEMMA BooleanBits ==
    \A w, a, p : Msb(w, a) \in BOOLEAN /\ NextMsb(w, a) \in BOOLEAN /\ Bit(p, a) \in BOOLEAN
BY DEF Msb, NextMsb, Bit, Sign

(* One turn through the carry keeps a number and a carry.                  *)
LEMMA CarryTurnType ==
    ASSUME NEW w \in Widths, NEW left, NEW p, p.v \in Nat
    PROVE  carry_turn(w, left, p).v \in Nat /\ carry_turn(w, left, p).c \in BOOLEAN
<1> DEFINE n == Bits(w) - 1
           q == 2 ^ n
           b == B(p.c)
<1>0. Bits(w) \in Nat \ {0, 1} /\ Bits(w) <= Bits(8) /\ Bits(8) \in Nat
  BY BitsType DEF Widths
<1>1. n \in Nat /\ n <= Bits(8)
  BY <1>0
<1> HIDE DEF n
<1>2. q \in Nat /\ b \in Nat
  BY <1>1, PowerType DEF B
<1>3. ShiftLeft(w, p.v, 1) \in Nat /\ ShiftRight(w, p.v, 1) \in Nat
  BY ShiftTypes
<1>4. Msb(w, p.v) \in BOOLEAN /\ Bit(1, p.v) \in BOOLEAN
  BY BooleanBits
<1> HIDE DEF q, b
<1>5. b * q \in Nat
  BY <1>2
<1>6. CASE left
  <2>1. carry_turn(w, left, p) = [v |-> ShiftLeft(w, p.v, 1) + b, c |-> Msb(w, p.v)]
    BY <1>6 DEF carry_turn, b
  <2> QED BY <1>2, <1>3, <1>4, <2>1
<1>7. CASE ~left
  <2>1. carry_turn(w, left, p) = [v |-> ShiftRight(w, p.v, 1) + b * q, c |-> Bit(1, p.v)]
    BY <1>7 DEF carry_turn, b, q, n
  <2> QED BY <1>3, <1>4, <1>5, <2>1
<1> QED
  BY <1>6, <1>7

(* So do any number of turns, by induction on their number.                *)
LEMMA CarryTurnsType ==
    ASSUME NEW w \in Widths, NEW left, NEW a \in Nat, NEW c \in BOOLEAN, NEW k \in Nat
    PROVE  carry_turns(w, left, k, a, c).v \in Nat /\ carry_turns(w, left, k, a, c).c \in BOOLEAN
<1>1. PICK f : /\ carry_turns(w, left, k, a, c) = f[k] /\ f[0] = [v |-> a, c |-> c]
               /\ \A n \in 0 .. k : n # 0 => f[n] = carry_turn(w, left, f[n - 1])
  BY CarryTurns
<1> DEFINE E == {n \in Nat : n <= k => f[n].v \in Nat /\ f[n].c \in BOOLEAN}
<1>2. 0 \in E
  BY <1>1
<1>3. ASSUME NEW n \in Nat, n \in E PROVE n + 1 \in E
  <2> SUFFICES ASSUME n + 1 <= k PROVE f[n + 1].v \in Nat /\ f[n + 1].c \in BOOLEAN
    OBVIOUS
  <2>1. f[n].v \in Nat
    BY <1>3
  <2>2. f[n + 1] = carry_turn(w, left, f[n])
    BY <1>1
  <2> QED BY <2>1, <2>2, CarryTurnType
<1>4. k \in E
  <2> HIDE DEF E
  <2> QED BY <1>2, <1>3, NatsByInduction
<1> QED
  BY <1>1, <1>4

(* A shift or rotate by nothing writes the operand back, another one       *)
(* commits; both end as the rule for registers says.                       *)
LEMMA ShiftCommit ==
    ASSUME NEW s \in CpuStates, s.reason = "none", NEW i \in Instructions, i.dst \in RegisterOperands(i.w) \cup {"mem"},
           i.op \in ShiftRotateOps, NEW n, ShiftCount(i, s) = 0 => n = 0,
           NEW a \in Nat, NEW v \in Int, NEW f \in Flags,
           NEW t, t = IF n = 0 THEN WriteBack(s, i, a) ELSE Commit(s, i, v, f)
    PROVE  RegisterOutcome(s, i, t)
<1>1. i.op \notin {"inc", "dec"} /\ i.op \notin IntegerReaders /\ i.op \notin LoadOnlyOps
  BY DEF ShiftRotateOps, DoubleShifts, LoadOnlyOps, IntegerReaders, MulDivOps
<1>2. CASE n = 0
  BY <1>1, <1>2, CommitPlain, WriterOutcome DEF WriteBack
<1>3. CASE n # 0
  <2>1. ~Unshifted(i, s)
    BY <1>3 DEF Unshifted
  <2> QED BY <1>1, <1>3, <2>1, CommitAny, WriterOutcome
<1> QED
  BY <1>2, <1>3

(* What the decoder says about shifts, and their counts.                   *)
LEMMA CountParts ==
    ASSUME NEW s \in CpuStates, NEW i, Decoded(i), i.op \in ShiftRotateOps
    PROVE  /\ i \in Instructions /\ i.w \in Widths /\ i.dst \in RegisterOperands(i.w) \cup {"mem"} /\ i.dst \in Readable(i.w)
           /\ ShiftCount(i, s) \in Nat
           /\ i.op \notin DoubleShifts => ShiftCount(i, s) = read_shift_count(s, i)
           /\ i.op \in DoubleShifts => /\ ShiftCount(i, s) = read_shift_count(s, [i EXCEPT !.src = i.count]) % Bits(i.w)
                                       /\ ShiftCount(i, s) < Bits(i.w)
<1>1. /\ i \in Instructions /\ i.w \in Widths /\ i.dst \in RegisterOperands(i.w) \cup {"mem"} /\ i.dst \in Readable(i.w)
      /\ i.imm \in Nat
  BY DEF Decoded, Instructions, ShiftRotateOps, DoubleShifts, LoopOps, Readable
<1>2. CASE i.op \notin DoubleShifts
  <2>1. i.src \in {"one", "cx", "imm"}
    BY <1>2 DEF Decoded
  <2> QED BY <1>1, <1>2, <2>1, CountType DEF ShiftCount
<1>3. CASE i.op \in DoubleShifts
  <2> DEFINE j == [i EXCEPT !.src = i.count]
             r == read_shift_count(s, j)
  <2>1. j.src \in {"cx", "imm"} /\ j.imm = i.imm /\ j.w = i.w
    BY <1>1, <1>3 DEF Decoded, Instructions
  <2> HIDE DEF j
  <2>2. r \in Nat
    BY <1>1, <2>1, CountType
  <2>3. ShiftCount(i, s) = r % Bits(i.w)
    BY <1>3 DEF ShiftCount, j
  <2> HIDE DEF r
  <2>4. r % Bits(i.w) \in Nat /\ r % Bits(i.w) < Bits(i.w)
    BY <1>1, <2>2, BitsType
  <2> QED BY <1>1, <1>3, <2>3, <2>4 DEF r, j
<1> QED
  BY <1>2, <1>3

(* Every shift and rotate, at every width and count, by its handler.       *)
LEMMA ShiftHandlers ==
    ASSUME NEW s \in CpuStates, s.reason = "none", NEW i, Decoded(i), i.op \in ShiftRotateOps,
           NEW t, t = ShiftRotateHandler(s, i)
    PROVE  RegisterOutcome(s, i, t)
<1> DEFINE w == i.w
           r == read_operand(s, i, i.dst, w)
           a == r.v
<1>1. /\ i \in Instructions /\ w \in Widths /\ i.dst \in RegisterOperands(w) \cup {"mem"} /\ i.dst \in Readable(w)
      /\ ShiftCount(i, s) \in Nat
      /\ i.op \notin DoubleShifts => ShiftCount(i, s) = read_shift_count(s, i)
      /\ i.op \in DoubleShifts => /\ ShiftCount(i, s) = read_shift_count(s, [i EXCEPT !.src = i.count]) % Bits(w)
                                  /\ ShiftCount(i, s) < Bits(w)
  BY CountParts
<1>2. CASE r.reason # "none"
  <2>1. t = [s EXCEPT !.reason = r.reason, !.addr = r.addr]
    BY <1>2 DEF ShiftRotateHandler, ShiftRotateOps, DoubleShifts, shift_rm, rotate, rotate_carry, double_shift, With
  <2>2. r = read_operand(s, i, i.dst, w)
    OBVIOUS
  <2> HIDE DEF r, w
  <2>3. Failed(s, i, [s EXCEPT !.reason = r.reason, !.addr = r.addr])
    BY <1>1, <1>2, <2>2, ReadAny
  <2> QED BY <2>1, <2>3 DEF RegisterOutcome
<1>3. CASE r.reason = "none"
  <2>1. a \in Nat /\ a \in 0 .. Modulus(w) - 1
    <3>1. r = read_operand(s, i, i.dst, w)
      OBVIOUS
    <3> HIDE DEF r, w
    <3> QED BY <1>1, <1>3, <3>1, ReadAny
  <2>2. s.flags \in Flags /\ s.flags.of \in BOOLEAN /\ s.flags.cf \in BOOLEAN
    <3>1. s.flags \in Flags
      BY DEF CpuStates
    <3> QED BY <3>1 DEF Flags
  <2>3. Bits(w) \in Nat \ {0, 1} /\ Bits(w) <= Bits(8) /\ Bits(8) \in Nat /\ Modulus(w) \in Nat \ {0, 1}
    BY <1>1, BitsType, ModulusType DEF Widths
  <2>4. CASE i.op \in {"shl", "shr", "sar"}
    <3> DEFINE k == read_shift_count(s, i)
               sar == i.op = "sar" /\ k >= Bits(w)
               v == CASE i.op = "shl" -> ShiftLeft(w, a, k)
                      [] i.op = "shr" -> ShiftRight(w, a, k)
                      [] i.op = "sar" -> IF sar THEN B(Msb(w, a)) * (Modulus(w) - 1)
                                         ELSE Truncate(w, Signed(Modulus(w), a) \div 2 ^ k)
               cf == IF sar THEN Msb(w, a)
                     ELSE k <= Bits(w) /\ Bit(2 ^ (IF i.op = "shl" THEN Bits(w) - k ELSE k - 1), a)
               of == CASE i.op = "shl" -> Msb(w, a) # NextMsb(w, a)
                       [] i.op = "shr" -> Msb(w, a)
                       [] i.op = "sar" -> FALSE
               f == ResultFlags(w, v, cf, of, FALSE)
    <3>0. k \in Nat /\ k = ShiftCount(i, s)
      BY <1>1, <2>4 DEF DoubleShifts
    <3>1. t = IF k = 0 THEN WriteBack(s, i, a) ELSE Commit(s, i, v, f)
      BY <1>3, <2>4 DEF ShiftRotateHandler, DoubleShifts, shift_rm, With
    <3>2. v \in Int
      <4>1. CASE i.op = "shl"
        BY <1>1, <2>1, <3>0, <4>1, ShiftTypes
      <4>2. CASE i.op = "shr"
        BY <1>1, <2>1, <3>0, <4>2, ShiftTypes
      <4>3. CASE i.op = "sar" /\ sar
        <5>1. v = B(Msb(w, a)) * (Modulus(w) - 1)
          BY <4>3
        <5> HIDE DEF v, k
        <5> QED BY <2>3, <5>1 DEF B
      <4>4. CASE i.op = "sar" /\ ~sar
        <5> DEFINE x == Signed(Modulus(w), a)
                   y == 2 ^ k
                   m == Modulus(w)
        <5>1. v = Truncate(w, x \div y)
          BY <4>4
        <5>2. x \in Int
          BY <2>1, <2>3 DEF Signed
        <5>3. y \in Nat \ {0}
          <6>1. k <= Bits(8)
            <7> HIDE DEF k
            <7> QED BY <2>3, <3>0, <4>4
          <6> HIDE DEF k
          <6> QED BY <3>0, <6>1, PowerType
        <5> HIDE DEF x, y, v
        <5>4. v = (x \div y) % m
          BY <5>1 DEF Truncate
        <5>5. m \in Nat \ {0}
          BY <2>3
        <5> HIDE DEF m
        <5>6. x \div y \in Int
          BY <5>2, <5>3
        <5> QED BY <5>4, <5>5, <5>6
      <4> QED BY <2>4, <4>1, <4>2, <4>3, <4>4
    <3>3. cf \in BOOLEAN /\ of \in BOOLEAN
      <4>1. Msb(w, a) \in BOOLEAN /\ NextMsb(w, a) \in BOOLEAN
            /\ Bit(2 ^ (IF i.op = "shl" THEN Bits(w) - k ELSE k - 1), a) \in BOOLEAN
        BY BooleanBits
      <4>2. of \in BOOLEAN
        BY <2>4, <4>1
      <4>3. cf \in BOOLEAN
        BY <4>1
      <4> QED BY <4>2, <4>3
    <3>4. f \in Flags
      <4> HIDE DEF cf, of, v
      <4> QED BY <3>3, ResultFlagsType
    <3>5. i.op \in ShiftRotateOps
      OBVIOUS
    <3> HIDE DEF k, v, f, a, w, cf, of
    <3> QED BY <1>1, <2>1, <3>0, <3>1, <3>2, <3>4, <3>5, ShiftCommit DEF w
  <2>5. CASE i.op \in {"rol", "ror"}
    <3> DEFINE n == read_shift_count(s, i)
               k == n % Bits(w)
               v == IF i.op = "rol" THEN ShiftLeft(w, a, k) + ShiftRight(w, a, Bits(w) - k)
                                    ELSE ShiftRight(w, a, k) + ShiftLeft(w, a, Bits(w) - k)
               cf == IF i.op = "rol" THEN Bit(1, v) ELSE Msb(w, v)
               of == IF n = 1 \/ i.src = "cx" \/ i.dst = "mem"
                     THEN IF i.op = "rol" THEN Msb(w, a) # NextMsb(w, a) ELSE Bit(1, a) # Msb(w, a)
                     ELSE s.flags.of
               f == [s.flags EXCEPT !.cf = cf, !.of = of]
    <3>0. n \in Nat /\ n = ShiftCount(i, s)
      BY <1>1, <2>5 DEF DoubleShifts
    <3>1. t = IF n = 0 THEN WriteBack(s, i, a) ELSE Commit(s, i, v, f)
      BY <1>3, <2>5 DEF ShiftRotateHandler, DoubleShifts, rotate, With
    <3>2. v \in Int
      <4>1. k \in Nat /\ Bits(w) - k \in Nat
        <5> HIDE DEF n
        <5> QED BY <2>3, <3>0
      <4> HIDE DEF k
      <4>2. /\ ShiftLeft(w, a, k) \in Nat /\ ShiftRight(w, a, k) \in Nat
            /\ ShiftLeft(w, a, Bits(w) - k) \in Nat /\ ShiftRight(w, a, Bits(w) - k) \in Nat
        BY <1>1, <2>1, <4>1, ShiftTypes
      <4> QED BY <4>2
    <3>3. cf \in BOOLEAN /\ of \in BOOLEAN
      <4>1. Msb(w, a) \in BOOLEAN /\ NextMsb(w, a) \in BOOLEAN /\ Bit(1, a) \in BOOLEAN
            /\ Bit(1, v) \in BOOLEAN /\ Msb(w, v) \in BOOLEAN
        BY BooleanBits
      <4> HIDE DEF v
      <4> QED BY <2>2, <4>1
    <3>4. f \in Flags
      <4> HIDE DEF cf, of
      <4> QED BY <2>2, <3>3 DEF Flags
    <3>5. i.op \in ShiftRotateOps
      OBVIOUS
    <3> HIDE DEF n, v, f, a, w, cf, of
    <3> QED BY <1>1, <2>1, <3>0, <3>1, <3>2, <3>4, <3>5, ShiftCommit DEF w
  <2>6. CASE i.op \in {"rcl", "rcr"}
    <3> DEFINE n == read_shift_count(s, i)
               k == n % (Bits(w) + 1)
               x == carry_turns(w, i.op = "rcl", k, a, s.flags.cf)
               v == x.v
               of == Msb(w, a) # (IF i.op = "rcl" THEN NextMsb(w, a) ELSE s.flags.cf)
               f == [s.flags EXCEPT !.cf = x.c, !.of = of]
    <3>0. n \in Nat /\ n = ShiftCount(i, s)
      BY <1>1, <2>6 DEF DoubleShifts
    <3>1. t = IF k = 0 THEN WriteBack(s, i, a) ELSE Commit(s, i, v, f)
      BY <1>3, <2>6 DEF ShiftRotateHandler, DoubleShifts, rotate_carry, With
    <3>2. k \in Nat /\ (n = 0 => k = 0)
      <4> HIDE DEF n
      <4> QED BY <2>3, <3>0
    <3>3. v \in Nat /\ x.c \in BOOLEAN
      <4> HIDE DEF k
      <4> QED BY <1>1, <2>1, <2>2, <3>2, CarryTurnsType
    <3>4. of \in BOOLEAN
      BY <2>2, BooleanBits
    <3>5. f \in Flags
      <4> HIDE DEF x, of
      <4> QED BY <2>2, <3>3, <3>4 DEF Flags
    <3>6. i.op \in ShiftRotateOps /\ v \in Int
      BY <3>3
    <3> HIDE DEF k, n, v, f, a, w, of, x
    <3> QED BY <1>1, <2>1, <3>0, <3>1, <3>2, <3>5, <3>6, ShiftCommit DEF w
  <2>7. CASE i.op \in DoubleShifts
    <3> DEFINE k == read_shift_count(s, [i EXCEPT !.src = i.count]) % Bits(w)
               src == read_register(s, i.src, w)
               left == i.op = "shld"
               v == IF left THEN ShiftLeft(w, a, k) + ShiftRight(w, src, Bits(w) - k)
                            ELSE ShiftRight(w, a, k) + ShiftLeft(w, src, Bits(w) - k)
               cf == Bit(2 ^ (IF left THEN Bits(w) - k ELSE k - 1), a)
               of == k = 1 /\ Msb(w, v) # (IF left THEN cf ELSE Msb(w, a))
               f == ResultFlags(w, v, cf, of, FALSE)
    <3>0. k \in Nat /\ k = ShiftCount(i, s) /\ Bits(w) - k \in Nat
      <4>1. k = ShiftCount(i, s)
        BY <1>1, <2>7
      <4> HIDE DEF k
      <4> QED BY <1>1, <2>3, <2>7, <4>1
    <3>1. t = IF k = 0 THEN WriteBack(s, i, a) ELSE Commit(s, i, v, f)
      BY <1>3, <2>7 DEF ShiftRotateHandler, DoubleShifts, double_shift, With
    <3>2. src \in Nat
      <4>1. i.src \in Gprs /\ i.src \notin HighBytes
        BY <2>7 DEF Decoded, Gprs, HighBytes
      <4>2. s.gpr[i.src] \in Int
        BY <4>1, Parts
      <4>3. src = Truncate(w, s.gpr[i.src])
        BY <4>1 DEF read_register
      <4>4. src \in 0 .. Modulus(w) - 1
        <5> HIDE DEF src, w
        <5> QED BY <1>1, <4>2, <4>3, Residue
      <4> HIDE DEF src
      <4> QED BY <1>1, <4>4, ResidueSmall
    <3>3. v \in Int
      <4> HIDE DEF k, src
      <4>1. /\ ShiftLeft(w, a, k) \in Nat /\ ShiftRight(w, a, k) \in Nat
            /\ ShiftLeft(w, src, Bits(w) - k) \in Nat /\ ShiftRight(w, src, Bits(w) - k) \in Nat
        BY <1>1, <2>1, <3>0, <3>2, ShiftTypes
      <4> QED BY <4>1
    <3>4. cf \in BOOLEAN /\ of \in BOOLEAN
      <4>1. cf \in BOOLEAN
        BY BooleanBits
      <4>2. of \in BOOLEAN
        BY Zenon
      <4> QED BY <4>1, <4>2
    <3>5. f \in Flags
      <4> HIDE DEF cf, of, v
      <4> QED BY <3>4, ResultFlagsType
    <3>6. i.op \in ShiftRotateOps
      OBVIOUS
    <3> HIDE DEF k, v, f, a, w, cf, of
    <3> QED BY <1>1, <2>1, <3>0, <3>1, <3>3, <3>5, <3>6, ShiftCommit DEF w
  <2> QED BY <2>4, <2>5, <2>6, <2>7 DEF ShiftRotateOps
<1> QED
  BY <1>2, <1>3

(* NOT, the moves, XCHG, CMOVcc, POP to a register and the readers.        *)
LEMMA NotOutcome ==
    ASSUME NEW s \in CpuStates, s.reason = "none", NEW i, Decoded(i), i.op = "not", NEW t, t = AdditionHandler(s, i)
    PROVE  RegisterOutcome(s, i, t)
<1> DEFINE w == i.w
           r == read_operand(s, i, i.dst, w)
           v == Modulus(w) - 1 - r.v
<1>1. i \in Instructions /\ w \in Widths /\ i.dst \in RegisterOperands(w) \cup {"mem"} /\ i.dst \in Readable(w)
  BY DEF Decoded, Instructions, LoopOps, Readable
<1>2. t = IF r.reason = "none" THEN write_operand(s, i, i.dst, v, i.w)
          ELSE [s EXCEPT !.reason = r.reason, !.addr = r.addr]
  BY DEF AdditionHandler, NOT, With
<1>3. r = read_operand(s, i, i.dst, w)
  OBVIOUS
<1> HIDE DEF r, w
<1>4. \/ r.reason = "none" /\ r.v \in Nat
      \/ r.reason # "none" /\ Failed(s, i, [s EXCEPT !.reason = r.reason, !.addr = r.addr])
  BY <1>1, <1>3, ReadAny
<1>5. CASE r.reason = "none"
  <2>1. v \in Int
    BY <1>1, <1>4, <1>5, ModulusType
  <2>2. i.op \notin LoadOnlyOps /\ i.op \notin IntegerReaders
    BY DEF LoadOnlyOps, IntegerReaders, MulDivOps
  <2> HIDE DEF v
  <2>3. Failed(s, i, t) \/ (Completed(s, t) /\ RegisterWritten(s, i, t))
    BY <1>1, <1>2, <1>5, <2>1, <2>2, CommitPlain DEF w
  <2> QED BY <1>1, <2>2, <2>3, WriterOutcome DEF w
<1>6. CASE r.reason # "none"
  BY <1>2, <1>4, <1>6 DEF RegisterOutcome
<1> QED
  BY <1>5, <1>6

(* A move of any value that was read to operand 0.                         *)
LEMMA MoveOutcome ==
    ASSUME NEW s \in CpuStates, s.reason = "none", NEW i \in Instructions, i.dst \in RegisterOperands(i.w) \cup {"mem"},
           i.op \notin LoadOnlyOps, NEW w \in Widths, NEW o \in Readable(w),
           NEW r, r = read_operand(s, i, o, w), NEW v, r.reason = "none" => v \in Int,
           NEW t, t = IF r.reason = "none" THEN write_operand(s, i, i.dst, v, i.w)
                      ELSE [s EXCEPT !.reason = r.reason, !.addr = r.addr]
    PROVE  RegisterOutcome(s, i, t)
<1>1. CASE r.reason = "none"
  <2>1. Failed(s, i, t) \/ (Completed(s, t) /\ RegisterWritten(s, i, t))
    BY <1>1, CommitPlain
  <2> QED BY <2>1, WriterOutcome DEF LoadOnlyOps
<1>2. CASE r.reason # "none"
  <2>1. Failed(s, i, [s EXCEPT !.reason = r.reason, !.addr = r.addr])
    BY <1>2, ReadAny
  <2> QED BY <1>2, <2>1 DEF RegisterOutcome
<1> QED
  BY <1>1, <1>2

(* Sign extension gives natural numbers.                                   *)
LEMMA SignExtendType ==
    ASSUME NEW w \in Widths, NEW v \in Nat
    PROVE  sign_extend(w, v) \in Nat
<1>1. Truncate(w, v) \in Int /\ Modulus(w) \in Int
  BY Residue, ModulusType
<1>2. Signed(Modulus(w), Truncate(w, v)) \in Int
  BY <1>1 DEF Signed
<1> QED
  BY <1>2, ValuesAreNats DEF sign_extend

PlainMoves == {"mov", "mov8", "movzx", "movsx", "movsxd"}
(* MOV and the extending moves.                                            *)
LEMMA TransferOutcome ==
    ASSUME NEW s \in CpuStates, s.reason = "none", NEW i, Decoded(i), i.op \in PlainMoves, NEW t, t = TransferHandler(s, i)
    PROVE  RegisterOutcome(s, i, t)
<1>1. /\ i \in Instructions /\ i.w \in Widths /\ i.iw \in Widths /\ i.dst \in RegisterOperands(i.w) \cup {"mem"}
      /\ i.dst \in Readable(i.w) /\ i.op \notin LoadOnlyOps
  BY DEF Decoded, Instructions, LoopOps, Readable, PlainMoves, LoadOnlyOps, IntegerReaders, MulDivOps
<1>2. CASE i.op \in {"mov", "mov8"}
  <2> DEFINE w == i.w
             d == read_operand(s, i, i.dst, w)
             r == read_operand(s, i, i.src, w)
             u == IF r.reason = "none" THEN write_operand(s, i, i.dst, r.v, i.w)
                  ELSE [s EXCEPT !.reason = r.reason, !.addr = r.addr]
  <2>1. i.src \in Readable(w) /\ (i.op = "mov8" => w = 1)
    BY <1>2 DEF Decoded
  <2>2. d = read_operand(s, i, i.dst, w) /\ r = read_operand(s, i, i.src, w)
    OBVIOUS
  <2>3. i.op = "mov" => t = u
    BY DEF TransferHandler, MOV, With
  <2>4. i.op = "mov8" => t = IF d.reason = "none" THEN u ELSE [s EXCEPT !.reason = d.reason, !.addr = d.addr]
    BY <2>1 DEF TransferHandler, MOV_RM8_R8, Operands, With
  <2> HIDE DEF d, r, w
  <2>5. RegisterOutcome(s, i, u)
    <3> DEFINE v == r.v
    <3>0. w \in Widths
      BY <1>1 DEF w
    <3>1. r.reason = "none" => v \in Int
      <4>1. r.reason = "none" => r.v \in Nat
        BY <1>1, <2>1, <2>2, <3>0, ReadAny
      <4> QED BY <4>1
    <3>2. u = IF r.reason = "none" THEN write_operand(s, i, i.dst, v, i.w)
              ELSE [s EXCEPT !.reason = r.reason, !.addr = r.addr]
      OBVIOUS
    <3> HIDE DEF u, v
    <3> QED BY <1>1, <2>1, <2>2, <3>1, <3>2, MoveOutcome DEF w
  <2>6. d.reason # "none" => RegisterOutcome(s, i, [s EXCEPT !.reason = d.reason, !.addr = d.addr])
    <3> SUFFICES ASSUME d.reason # "none" PROVE RegisterOutcome(s, i, [s EXCEPT !.reason = d.reason, !.addr = d.addr])
      OBVIOUS
    <3>1. Failed(s, i, [s EXCEPT !.reason = d.reason, !.addr = d.addr])
      BY <1>1, <2>2, ReadAny DEF w
    <3> QED BY <3>1 DEF RegisterOutcome
  <2> HIDE DEF u
  <2> QED BY <1>2, <2>3, <2>4, <2>5, <2>6
<1>3. CASE i.op \in {"movzx", "movsx", "movsxd"}
  <2> DEFINE r == read_operand(s, i, i.src, i.iw)
             v == IF i.op = "movzx" THEN r.v ELSE sign_extend(i.iw, r.v)
  <2>1. i.src \in Readable(i.iw) /\ i.dst # "mem"
    BY <1>3 DEF Decoded, Readable, Gprs
  <2>2. r = read_operand(s, i, i.src, i.iw)
    OBVIOUS
  <2>3. t = IF r.reason = "none" THEN write_operand(s, i, i.dst, v, i.w)
            ELSE [s EXCEPT !.reason = r.reason, !.addr = r.addr]
    BY <1>3, <2>1 DEF TransferHandler, MOVZX, MOVSX, MOVSXD, With, write_operand
  <2> HIDE DEF r
  <2>4. r.reason = "none" => v \in Int
    <3>1. r.reason = "none" => r.v \in Nat
      BY <1>1, <2>1, <2>2, ReadAny
    <3> QED BY <1>1, <3>1, SignExtendType
  <2> HIDE DEF v
  <2> QED BY <1>1, <2>1, <2>2, <2>3, <2>4, MoveOutcome
<1> QED
  BY <1>2, <1>3 DEF PlainMoves

(* Jumps change no register.                                               *)
LEMMA ReaderOutcome ==
    ASSUME NEW s \in CpuStates, s.reason = "none", NEW i, Decoded(i), i.op \in {"jcc", "jmp", "jcxz"},
           NEW t, t = BranchHandler(s, i)
    PROVE  RegisterOutcome(s, i, t)
<1>1. i \in Instructions /\ i.w \in Widths /\ i.dst \in Readable(i.w) /\ i.target \in Nat
  BY DEF Decoded, Instructions
<1>2. i.op \notin IntegerWriters
  BY DEF IntegerWriters, AdditionOps, ShiftRotateOps, DoubleShifts
<1>3. \A x \in Nat : Jump(s, x) \in CpuStates /\ Jump(s, x).reason = "none" /\ Jump(s, x).gpr = s.gpr
  BY DEF Jump, CpuStates
<1>4. ASSUME t = s \/ \E x \in Nat : t = Jump(s, x) PROVE RegisterOutcome(s, i, t)
  BY <1>2, <1>3, <1>4 DEF RegisterOutcome
<1>5. CASE i.op = "jcc"
  BY <1>1, <1>4, <1>5 DEF BranchHandler, Jcc, LoopOps
<1>6. CASE i.op = "jcxz"
  BY <1>1, <1>4, <1>6 DEF BranchHandler, jcxz_common, LoopOps
<1>7. CASE i.op = "jmp"
  <2>1. CASE i.dst = "imm"
    BY <1>1, <1>4, <1>7, <2>1 DEF BranchHandler, LoopOps, JMP
  <2>2. CASE i.dst # "imm"
    <3> DEFINE r == read_operand(s, i, i.dst, i.w)
    <3>1. t = IF r.reason = "none" THEN Jump(s, r.v) ELSE [s EXCEPT !.reason = r.reason, !.addr = r.addr]
      BY <1>7, <2>2 DEF BranchHandler, LoopOps, JMP, With
    <3>2. r = read_operand(s, i, i.dst, i.w)
      OBVIOUS
    <3> HIDE DEF r
    <3>3. \/ r.reason = "none" /\ r.v \in Nat
          \/ r.reason # "none" /\ Failed(s, i, [s EXCEPT !.reason = r.reason, !.addr = r.addr])
      BY <1>1, <3>2, ReadAny
    <3>4. CASE r.reason = "none"
      BY <1>4, <3>1, <3>3, <3>4
    <3>5. CASE r.reason # "none"
      BY <3>1, <3>3, <3>5 DEF RegisterOutcome
    <3> QED BY <3>4, <3>5
  <2> QED BY <2>1, <2>2
<1> QED
  BY <1>5, <1>6, <1>7

(* XCHG, whose second write is to another register or to the same value.   *)
LEMMA ExchangeOutcome ==
    ASSUME NEW s \in CpuStates, s.reason = "none", NEW i, Decoded(i), i.op = "xchg", NEW t, t = TransferHandler(s, i)
    PROVE  RegisterOutcome(s, i, t)
<1> DEFINE w == i.w
           l == read_operand(s, i, i.dst, w)
           r == read_operand(s, i, i.src, w)
           u == write_operand(s, i, i.dst, r.v, w)
           hs == Holder(i.src)
<1>1. /\ i \in Instructions /\ w \in Widths /\ i.dst \in RegisterOperands(w) \cup {"mem"} /\ i.dst \in Readable(w)
      /\ i.src \in RegisterOperands(w) /\ i.src \in Readable(w) /\ i.src # "mem" /\ hs \in Gprs
      /\ i.op \notin LoadOnlyOps
  BY DEF Decoded, Instructions, LoopOps, Readable, LoadOnlyOps, IntegerReaders, MulDivOps, RegisterOperands, Gprs,
         HighBytes, Holder
<1>2. l = read_operand(s, i, i.dst, w) /\ r = read_operand(s, i, i.src, w) /\ u = write_operand(s, i, i.dst, r.v, w)
  OBVIOUS
<1>3. /\ l.reason # "none" => t = [s EXCEPT !.reason = l.reason, !.addr = l.addr]
      /\ l.reason = "none" /\ r.reason = "none" /\ u.reason # "none" => t = u
      /\ l.reason = "none" /\ r.reason = "none" /\ u.reason = "none" => t = write_operand(u, i, i.src, l.v, w)
  BY DEF TransferHandler, XCHG, Operands, With, Then
<1> HIDE DEF l, r, u, w
<1>4. /\ l.reason = "none" => l.v \in Nat
      /\ l.reason # "none" => Failed(s, i, [s EXCEPT !.reason = l.reason, !.addr = l.addr])
  BY <1>1, <1>2, ReadAny
<1>5. r.reason = "none" /\ r.v \in Nat
  <2>1. Loaded(s, i, i.src, w, r) \/ Unreadable(s, i, i.src, r)
    BY <1>1, <1>2, ReadOperand
  <2>2. r.reason = "none"
    BY <1>1, <2>1 DEF Loaded, Unreadable
  <2> QED BY <1>1, <1>2, <2>2, ReadAny
<1>6. CASE l.reason # "none"
  BY <1>3, <1>4, <1>6 DEF RegisterOutcome
<1>7. CASE l.reason = "none"
  <2>0. r.v \in Int /\ l.v \in Int
    BY <1>4, <1>5, <1>7
  <2>1. Refused(s, i, i.dst, u) \/ Stored(s, i.dst, w, r.v, u)
    BY <1>1, <1>2, <2>0, WriteAny
  <2>2. CASE Refused(s, i, i.dst, u)
    <3>1. Failed(s, i, u) \/ (Completed(s, u) /\ RegisterWritten(s, i, u))
      BY <1>1, <1>2, <2>0, CommitPlain DEF w
    <3>2. u.reason = "page_fault"
      BY <2>2 DEF Refused, RefusedAt, CpuStates
    <3>3. u.reason # "none"
      BY <3>2
    <3> QED BY <1>3, <1>5, <1>7, <3>1, <3>3 DEF RegisterOutcome, Completed
  <2>3. CASE Stored(s, i.dst, w, r.v, u)
    <3>1. u \in CpuStates /\ u.reason = "none"
      BY <2>3 DEF Stored, SameControl
    <3>2. t = write_operand(u, i, i.src, l.v, w)
      BY <1>3, <1>5, <1>7, <3>1
    <3>3. Refused(u, i, i.src, t) \/ Stored(u, i.src, w, l.v, t)
      BY <1>1, <2>0, <3>1, <3>2, WriteAny
    <3>4. Stored(u, i.src, w, l.v, t)
      BY <1>1, <3>3 DEF Refused
    <3>5. t \in CpuStates /\ t.reason = "none" /\ t.gpr = [u.gpr EXCEPT ![hs] = Merged(i.src, u.gpr[hs], l.v, w)]
      BY <1>1, <3>1, <3>4 DEF Stored, SameControl
    <3>6. RegisterWritten(s, i, t)
      <4>1. ASSUME i.dst \in Gprs, hs # i.dst PROVE t.gpr[i.dst] = Merged(i.dst, s.gpr[i.dst], r.v, i.w)
        <5>1. u.gpr = [s.gpr EXCEPT ![i.dst] = Merged(i.dst, s.gpr[i.dst], r.v, w)]
          BY <2>3, <4>1 DEF Stored, Holder, Gprs
        <5>2. s.gpr \in [Gprs -> Values] /\ u.gpr \in [Gprs -> Values]
          BY <3>1 DEF CpuStates
        <5> HIDE DEF hs
        <5> QED BY <3>5, <4>1, <5>1, <5>2 DEF w
      <4> QED BY <2>0, <4>1 DEF RegisterWritten
    <3>7. RegisterExact(i, s, t)
      BY <1>1, <3>6, WrittenIsExact DEF w
    <3> QED BY <1>1, <3>5, <3>7 DEF RegisterOutcome, LoadOnlyOps
  <2> QED BY <2>1, <2>2, <2>3
<1> QED
  BY <1>6, <1>7

(* CMOVcc, taken or not; a 32-bit one clears the upper half either way.    *)
LEMMA MoveIfOutcome ==
    ASSUME NEW s \in CpuStates, s.reason = "none", NEW i, Decoded(i), i.op = "cmov", NEW t, t = BranchHandler(s, i)
    PROVE  RegisterOutcome(s, i, t)
<1> DEFINE w == i.w
           r == read_operand(s, i, i.src, w)
           holds == eval_cond(s.flags, i.cond)
           v == IF holds THEN r.v ELSE read_register(s, i.dst, 4)
<1>1. /\ i \in Instructions /\ w \in Widths /\ i.dst \in Gprs /\ i.dst \in RegisterOperands(w) \cup {"mem"}
      /\ i.src \in Readable(w) /\ i.dst # "mem" /\ i.dst \notin HighBytes /\ i.op \notin LoadOnlyOps
      /\ i.op \notin IntegerReaders
  BY DEF Decoded, Instructions, Readable, LoadOnlyOps, IntegerReaders, MulDivOps, RegisterOperands, Gprs, HighBytes
<1>2. r = read_operand(s, i, i.src, w)
  OBVIOUS
<1>3. /\ r.reason # "none" => t = [s EXCEPT !.reason = r.reason, !.addr = r.addr]
      /\ r.reason = "none" /\ ~holds /\ w # 4 => t = s
      /\ r.reason = "none" /\ (holds \/ w = 4) => t = write_operand(s, i, i.dst, v, w)
  BY <1>1 DEF BranchHandler, LoopOps, CMOVcc, CMOVcc_R32, With, write_operand
<1> HIDE DEF r, w
<1>4. \/ r.reason = "none" /\ r.v \in Nat
      \/ r.reason # "none" /\ Failed(s, i, [s EXCEPT !.reason = r.reason, !.addr = r.addr])
  BY <1>1, <1>2, ReadAny
<1>5. CASE r.reason # "none"
  BY <1>3, <1>4, <1>5 DEF RegisterOutcome
<1>6. CASE r.reason = "none" /\ ~holds /\ w # 4
  <2>1. t = s
    BY <1>3, <1>6
  <2>2. RegisterExact(i, s, s)
    BY <1>1, <1>6 DEF RegisterExact, w
  <2> QED BY <1>1, <2>1, <2>2 DEF RegisterOutcome
<1>7. CASE r.reason = "none" /\ (holds \/ w = 4)
  <2>1. v \in Int
    <3>1. s.gpr[i.dst] \in Int
      BY <1>1, Parts
    <3>2. read_register(s, i.dst, 4) \in Int
      BY <1>1, <3>1, Residue DEF read_register, Widths
    <3> QED BY <1>4, <1>7, <3>2
  <2>2. t = write_operand(s, i, i.dst, v, w)
    BY <1>3, <1>7
  <2> HIDE DEF v
  <2>3. Failed(s, i, t) \/ (Completed(s, t) /\ RegisterWritten(s, i, t))
    BY <1>1, <2>1, <2>2, CommitPlain DEF w
  <2> QED BY <1>1, <2>3, WriterOutcome DEF w
<1> QED
  BY <1>5, <1>6, <1>7

(* POP to a register.                                                      *)
LEMMA PopOutcome ==
    ASSUME NEW s \in CpuStates, s.reason = "none", NEW i, Decoded(i), i.op = "pop", i.dst # "mem",
           NEW t, t = StackHandler(s, i)
    PROVE  RegisterOutcome(s, i, t)
<1> DEFINE w == i.w
           sp == s.gpr["sp"]
           q == (sp + w) % Container
           u == Popped(s, w)
           v == Truncate(w, s.mem[sp])
<1>1. /\ i \in Instructions /\ w \in Widths /\ i.dst \in Gprs /\ i.dst \in RegisterOperands(w)
      /\ i.dst \notin HighBytes /\ i.op \notin IntegerReaders
  BY DEF Decoded, Instructions, Readable, IntegerReaders, RegisterOperands, Gprs, HighBytes, LoopOps, StackOps
<1>2. sp \in Nat /\ sp \in Int
  <2>1. "sp" \in Gprs
    BY DEF Gprs
  <2> QED BY <2>1, Parts
<1>3. CASE CanLoad(s, sp, w)
  <2>1. t = write_operand(u, i, i.dst, v, w)
    BY <1>3 DEF StackHandler, pop_operand_width, pop_width, read_memory_checked, With, Got
  <2>2. v \in Int
    <3>1. sp \in Addresses
      BY <1>3 DEF CanLoad, PermAt
    <3>2. s.mem[sp] \in Int
      BY <3>1, Parts
    <3> HIDE DEF sp
    <3>3. v \in 0 .. Modulus(w) - 1
      BY <1>1, <3>2, Residue
    <3> HIDE DEF v, w
    <3> QED BY <1>1, <3>3, ResidueSmall
  <2>3. q \in Values
    <3>1. w \in Nat
      BY <1>1 DEF Widths
    <3>2. sp + w \in Nat
      BY <1>2, <3>1
    <3>3. Container \in Nat \ {0, 1}
      BY ValuesAreNats
    <3> QED BY <3>2, <3>3 DEF Values
  <2>4. u \in CpuStates /\ u.reason = "none" /\ u.gpr = [s.gpr EXCEPT !["sp"] = q]
    <3>1. u = [s EXCEPT !.gpr["sp"] = q]
      BY DEF Popped, CpuStates, Gprs
    <3> HIDE DEF u, q
    <3> QED BY <2>3, <3>1 DEF CpuStates, Gprs
  <2> HIDE DEF u, v, sp, q, w
  <2>5. Refused(u, i, i.dst, t) \/ Stored(u, i.dst, w, v, t)
    BY <1>1, <2>1, <2>2, <2>4, WriteAny
  <2>6. t \in CpuStates /\ t.reason = "none" /\ t.gpr = [u.gpr EXCEPT ![i.dst] = Merged(i.dst, u.gpr[i.dst], v, w)]
    BY <1>1, <2>4, <2>5 DEF Stored, Refused, SameControl, Holder, Gprs
  <2>7. RegisterExact(i, s, t)
    <3>1. CASE i.dst = "sp"
      BY <1>1, <3>1 DEF RegisterExact
    <3>2. CASE i.dst # "sp"
      <4>1. s.gpr \in [Gprs -> Values] /\ u.gpr \in [Gprs -> Values]
        BY <2>4 DEF CpuStates
      <4>2. t.gpr[i.dst] = Merged(i.dst, s.gpr[i.dst], v, w)
        BY <1>1, <2>4, <2>6, <3>2, <4>1
      <4>3. RegisterWritten(s, i, t)
        BY <1>1, <2>2, <4>2 DEF RegisterWritten, w
      <4>4. i.dst \in RegisterOperands(i.w) \cup {"mem"}
        BY <1>1 DEF w
      <4> QED BY <1>1, <4>3, <4>4, WrittenIsExact
    <3> QED BY <3>1, <3>2
  <2> QED BY <1>1, <2>6, <2>7 DEF RegisterOutcome
<1>4. CASE ~CanLoad(s, sp, w)
  <2>1. t = [s EXCEPT !.reason = "page_fault", !.addr = sp]
    BY <1>4 DEF StackHandler, pop_operand_width, pop_width, read_memory_checked, With
  <2>2. PermAt(s, sp) # "rw"
    BY <1>4 DEF CanLoad
  <2> HIDE DEF sp
  <2>3. Failed(s, i, t)
    BY <1>2, <2>1, <2>2, FaultedRead
  <2> QED BY <2>3 DEF RegisterOutcome
<1> QED
  BY <1>3, <1>4

-----------------------------------------------------------------------------
(* Multiplication and division.                                            *)

(* The two halves of the accumulator: AH:AL, or DX:AX of the width.        *)
WideLow(s, w) == Truncate(w, s.gpr["ax"])
WideHigh(s, w) == IF w = 1 THEN HighByte(s.gpr["ax"]) ELSE Truncate(w, s.gpr["dx"])

(* The dividend is the two halves.                                         *)
LEMMA WideRead ==
    ASSUME NEW s \in CpuStates, NEW w \in Widths
    PROVE  /\ WideLow(s, w) \in 0 .. Modulus(w) - 1 /\ WideHigh(s, w) \in 0 .. Modulus(w) - 1
           /\ Dividend(s, w) = WideHigh(s, w) * Modulus(w) + WideLow(s, w)
           /\ read_register(s, "ax", w) = WideLow(s, w)
<1>1. s.gpr["ax"] \in Int /\ s.gpr["dx"] \in Int
  BY Parts DEF Gprs
<1>2. read_register(s, "ax", w) = WideLow(s, w) /\ read_register(s, "dx", w) = Truncate(w, s.gpr["dx"])
      /\ read_register(s, "ax", 2) = Truncate(2, s.gpr["ax"])
  BY DEF read_register, WideLow, HighBytes
<1>3. WideLow(s, w) \in 0 .. Modulus(w) - 1
  BY <1>1, Residue DEF WideLow
<1>4. CASE w = 1
  <2> DEFINE m == Modulus(1)
             a == s.gpr["ax"]
  <2>1. m \in Nat \ {0} /\ Modulus(2) = m * m /\ 1 \in Widths
    BY Moduli, ModulusType DEF Widths
  <2>2. WideHigh(s, w) = (a \div m) % m /\ WideLow(s, w) = a % m /\ Dividend(s, w) = a % (m * m)
    BY <1>2, <1>4, <2>1 DEF WideHigh, WideLow, HighByte, Truncate, Dividend
  <2> HIDE DEF m, a
  <2>3. a \in Int
    BY <1>1 DEF a
  <2>4. (a \div m) % m \in 0 .. m - 1 /\ ((a \div m) % m) * m + (a % m) = a % (m * m)
    BY <2>1, <2>3, HalvesJoin
  <2> QED BY <1>2, <1>3, <1>4, <2>2, <2>4 DEF m
<1>5. CASE w # 1
  <2>1. WideHigh(s, w) = Truncate(w, s.gpr["dx"])
    BY <1>5 DEF WideHigh
  <2>2. Truncate(w, s.gpr["dx"]) \in 0 .. Modulus(w) - 1
    BY <1>1, Residue
  <2> QED BY <1>2, <1>3, <1>5, <2>1, <2>2 DEF Dividend
<1> QED
  BY <1>4, <1>5

(* WriteWide stores the halves and nothing else.                           *)
LEMMA WideWritten ==
    ASSUME NEW s \in CpuStates, NEW w \in Widths, NEW hi \in 0 .. Modulus(w) - 1, NEW lo \in 0 .. Modulus(w) - 1,
           NEW t, t = WriteWide(s, w, hi, lo)
    PROVE  /\ t \in CpuStates /\ t.mem = s.mem /\ t.flags = s.flags /\ t.reason = s.reason /\ t.taken = s.taken
           /\ t.rip = s.rip /\ t.cs = s.cs /\ t.perm = s.perm
           /\ WideLow(t, w) = lo /\ WideHigh(t, w) = hi
<1>0. s.gpr \in [Gprs -> Values] /\ "ax" \in Gprs /\ "dx" \in Gprs /\ Holder("ax") = "ax" /\ Holder("dx") = "dx"
  BY DEF CpuStates, Gprs, Holder
<1>1. CASE w = 1
  <2> DEFINE m == Modulus(1)
             v == hi * m + lo
             g == Merged("ax", s.gpr["ax"], v, 2)
  <2>1. m \in Nat \ {0} /\ Modulus(2) = m * m /\ 1 \in Widths /\ 2 \in Widths
    BY Moduli, ModulusType DEF Widths
  <2>2. hi \in 0 .. m - 1 /\ lo \in 0 .. m - 1
    BY <1>1
  <2>3. t = write_register(s, "ax", v, 2)
    BY <1>1 DEF WriteWide
  <2>4. v \in Int /\ "ax" \in RegisterOperands(2) /\ s.gpr["ax"] \in 0 .. Container - 1
    BY <1>0, <2>1, <2>2, Parts DEF RegisterOperands
  <2> HIDE DEF v
  <2>5. g \in Values /\ t = [s EXCEPT !.gpr["ax"] = g] /\ t \in CpuStates /\ t.gpr = [s.gpr EXCEPT !["ax"] = g]
    BY <1>0, <2>1, <2>3, <2>4, WriteRegister
  <2>6. g % (m * m) = v % (m * m)
    BY <1>0, <2>1, <2>4, MergedValue
  <2> HIDE DEF g, m
  <2>7. t.mem = s.mem /\ t.flags = s.flags /\ t.reason = s.reason /\ t.taken = s.taken
        /\ t.rip = s.rip /\ t.cs = s.cs /\ t.perm = s.perm /\ t.gpr["ax"] = g
    BY <1>0, <2>5 DEF CpuStates
  <2>8. WideLow(t, w) = g % m /\ WideHigh(t, w) = (g \div m) % m
    BY <1>1, <2>7 DEF WideLow, WideHigh, HighByte, Truncate, m
  <2>9. g \in Int
    BY <2>5, ValuesAreNats
  <2>10. /\ (g \div m) % m \in 0 .. m - 1 /\ g % m \in 0 .. m - 1
         /\ ((g \div m) % m) * m + (g % m) = v % (m * m)
    BY <2>1, <2>6, <2>9, HalvesJoin
  <2>11. v % (m * m) = v
    <3> DEFINE M == m * m
    <3>1. M \in Nat \ {0}
      BY <2>1
    <3>2. v \in 0 .. M - 1
      <4>1. hi * m <= (m - 1) * m /\ hi * m >= 0 /\ (m - 1) * m = m * m - m
        BY <2>1, <2>2
      <4> QED BY <2>1, <2>2, <3>1, <4>1 DEF v
    <3> HIDE DEF M
    <3>3. v = M * 0 + v /\ 0 \in Int /\ v \in Int
      BY <3>1, <3>2
    <3>4. v % M = v
      BY <3>1, <3>2, <3>3, FloorUnique
    <3> QED BY <3>4 DEF M
  <2> DEFINE h1 == (g \div m) % m
             l1 == g % m
  <2>12. h1 = hi /\ l1 = lo
    <3>1. h1 \in Int /\ l1 \in 0 .. m - 1 /\ h1 * m + l1 = v
      BY <2>10, <2>11
    <3> HIDE DEF h1, l1
    <3>2. h1 * m + l1 = hi * m + lo /\ hi \in Int /\ m \in Nat \ {0}
      BY <2>1, <2>2, <3>1 DEF v
    <3> QED BY <2>2, <3>1, <3>2, SplitUnique
  <2> QED BY <2>5, <2>7, <2>8, <2>12
<1>2. CASE w # 1
  <2> DEFINE u == write_register(s, "ax", lo, w)
             g1 == Merged("ax", s.gpr["ax"], lo, w)
  <2>1. "ax" \in RegisterOperands(w) /\ "dx" \in RegisterOperands(w) /\ lo \in Int /\ hi \in Int
        /\ Truncate(w, lo) = lo /\ Truncate(w, hi) = hi
    BY <1>0, ResidueSmall DEF RegisterOperands
  <2>2. t = write_register(u, "dx", hi, w)
    BY <1>2 DEF WriteWide
  <2>3. g1 \in Values /\ u = [s EXCEPT !.gpr["ax"] = g1] /\ u \in CpuStates /\ u.gpr = [s.gpr EXCEPT !["ax"] = g1]
    BY <1>0, <2>1, WriteRegister
  <2>4. s.gpr["ax"] \in 0 .. Container - 1
    BY <1>0, Parts
  <2>5. g1 % Modulus(w) = lo % Modulus(w)
    BY <1>0, <2>1, <2>4, MergedValue
  <2> HIDE DEF u, g1
  <2> DEFINE g2 == Merged("dx", u.gpr["dx"], hi, w)
  <2>6. g2 \in Values /\ t = [u EXCEPT !.gpr["dx"] = g2] /\ t \in CpuStates /\ t.gpr = [u.gpr EXCEPT !["dx"] = g2]
    <3>1. u \in CpuStates /\ u.gpr[Holder("dx")] = u.gpr["dx"]
      BY <1>0, <2>3
    <3> QED BY <1>0, <2>1, <2>2, <3>1, WriteRegister
  <2>7. u.gpr["dx"] \in 0 .. Container - 1
    BY <1>0, <2>3, Parts
  <2>8. g2 % Modulus(w) = hi % Modulus(w)
    BY <1>0, <2>1, <2>7, MergedValue
  <2> HIDE DEF g2
  <2>9. u.mem = s.mem /\ u.flags = s.flags /\ u.reason = s.reason /\ u.taken = s.taken
        /\ u.rip = s.rip /\ u.cs = s.cs /\ u.perm = s.perm /\ u.gpr["ax"] = g1 /\ u.gpr \in [Gprs -> Values]
    BY <1>0, <2>3 DEF CpuStates
  <2>10. t.mem = u.mem /\ t.flags = u.flags /\ t.reason = u.reason /\ t.taken = u.taken
        /\ t.rip = u.rip /\ t.cs = u.cs /\ t.perm = u.perm /\ t.gpr["ax"] = u.gpr["ax"] /\ t.gpr["dx"] = g2
    BY <1>0, <2>6, <2>9, "ax" # "dx" DEF CpuStates
  <2>11. WideLow(t, w) = lo /\ WideHigh(t, w) = hi
    BY <1>2, <2>1, <2>5, <2>8, <2>9, <2>10 DEF WideLow, WideHigh, Truncate
  <2> QED BY <2>6, <2>9, <2>10, <2>11
<1> QED
  BY <1>1, <1>2

(* The flags of a product: CF and OF alike.                                *)
LEMMA MultiplyFlags ==
    ASSUME NEW w, NEW v, NEW ov \in BOOLEAN, NEW f, f = set_multiply_flags(w, v, ov)
    PROVE  f \in Flags /\ f.cf = ov /\ f.of = ov
<1> DEFINE g == ResultFlags(w, v, ov, ov, FALSE)
<1>1. g \in Flags
  BY ResultFlagsType
<1>2. g.cf = ov /\ g.of = ov
  BY DEF ResultFlags
<1>3. f = [g EXCEPT !.zf = FALSE]
  BY DEF set_multiply_flags
<1> HIDE DEF g
<1>4. g.cf \in BOOLEAN /\ g.of \in BOOLEAN /\ g.af \in BOOLEAN /\ g.pf \in BOOLEAN /\ g.sf \in BOOLEAN
      /\ g = [cf |-> g.cf, pf |-> g.pf, af |-> g.af, zf |-> g.zf, sf |-> g.sf, of |-> g.of]
  BY <1>1 DEF Flags
<1>5. f \in Flags /\ f.cf = g.cf /\ f.of = g.of
  BY <1>1, <1>3 DEF Flags
<1> QED
  BY <1>2, <1>5

(* A machine with other flags.                                             *)
LEMMA Flagged ==
    ASSUME NEW s \in CpuStates, NEW f \in Flags, NEW t, t = [s EXCEPT !.flags = f]
    PROVE  t \in CpuStates /\ t.flags = f /\ t.gpr = s.gpr /\ t.mem = s.mem /\ t.reason = s.reason
           /\ t.taken = s.taken /\ t.rip = s.rip /\ t.cs = s.cs /\ t.perm = s.perm
BY DEF CpuStates

(* The numbers the properties speak of, in terms of the two halves.        *)
LEMMA WideNumbers ==
    ASSUME NEW s \in CpuStates, NEW i \in Instructions, NEW m, m = Modulus(i.w), NEW d, d = Dividend(s, i.w)
    PROVE  /\ Low(i, s) = Num(i, WideLow(s, i.w)) /\ High(i, s) = Num(i, WideHigh(s, i.w))
           /\ Wide(i, s) = (IF SignedOp(i) THEN Signed(m * m, d) ELSE d)
           /\ d \in 0 .. m * m - 1
<1>0. i.w \in Widths
  BY DEF Instructions
<1>1. ValueOf(s, i, "ax") = WideLow(s, i.w) /\ ValueOf(s, i, "dx") = Truncate(i.w, s.gpr["dx"])
  BY DEF ValueOf, ValueAt, Gprs, HighBytes, WideLow
<1>2. Low(i, s) = Num(i, WideLow(s, i.w)) /\ High(i, s) = Num(i, WideHigh(s, i.w))
  <2>1. CASE i.w = 1
    BY <1>1, <2>1 DEF Low, High, WideHigh
  <2>2. CASE i.w # 1
    BY <1>1, <2>2 DEF Low, High, WideHigh
  <2> QED BY <2>1, <2>2
<1>3. Wide(i, s) = (IF SignedOp(i) THEN Signed(m * m, d) ELSE d)
  BY DEF Wide
<1> DEFINE hi == WideHigh(s, i.w)
           lo == WideLow(s, i.w)
<1>4. d = hi * m + lo /\ hi \in 0 .. m - 1 /\ lo \in 0 .. m - 1 /\ m \in Nat \ {0}
  BY <1>0, WideRead, ModulusType
<1> HIDE DEF hi, lo
<1>5. d \in 0 .. m * m - 1
  <2>1. hi * m <= (m - 1) * m /\ hi * m >= 0 /\ (m - 1) * m = m * m - m /\ m * m \in Int /\ hi * m \in Int
    BY <1>4
  <2> QED BY <1>4, <2>1
<1> QED
  BY <1>2, <1>3, <1>5

(* A whole product, stored in two halves, is the product again.            *)
LEMMA ProductStored ==
    ASSUME NEW s \in CpuStates, s.reason = "none", NEW i \in Instructions, i.src = "none",
           NEW m, m = Modulus(i.w), NEW h \in Nat \ {0}, m = 2 * h, NEW p \in Int, NEW ov \in BOOLEAN,
           p = Low(i, s) * Num(i, ValueOf(s, i, i.dst)),
           SignedOp(i) => p \in -(2 * h * h) .. 2 * h * h - 1, ~SignedOp(i) => p \in 0 .. m * m - 1,
           ov = (IF SignedOp(i) THEN ~FitsSigned(i.w, p) ELSE p >= m),
           NEW t, t = WriteProduct(s, i.w, p, ov)
    PROVE  Completed(s, t) /\ ProductExact(i, s, t)
<1> DEFINE w == i.w
           hi == (p \div m) % m
           lo == p % m
           u == WriteWide(s, w, hi, lo)
           f == set_multiply_flags(w, lo, ov)
           M == m * m
<1>0. w \in Widths /\ m \in Nat \ {0}
  BY ModulusType DEF Instructions
<1>1. t = [u EXCEPT !.flags = f]
  BY DEF WriteProduct, Truncate
<1>2. hi \in 0 .. m - 1 /\ lo \in 0 .. m - 1 /\ hi * m + lo = p % M
  BY <1>0, HalvesJoin
<1> HIDE DEF hi, lo
<1>3. /\ u \in CpuStates /\ u.mem = s.mem /\ u.flags = s.flags /\ u.reason = s.reason /\ u.taken = s.taken
      /\ u.rip = s.rip /\ u.cs = s.cs /\ u.perm = s.perm
      /\ WideLow(u, w) = lo /\ WideHigh(u, w) = hi
  <2>1. hi \in 0 .. Modulus(w) - 1 /\ lo \in 0 .. Modulus(w) - 1
    BY <1>2
  <2>2. u = WriteWide(s, w, hi, lo)
    OBVIOUS
  <2> HIDE DEF u, w
  <2> QED BY <1>0, <2>1, <2>2, WideWritten
<1> HIDE DEF u
<1>4. f \in Flags /\ f.cf = ov /\ f.of = ov
  BY MultiplyFlags
<1> HIDE DEF f
<1>5. t \in CpuStates /\ t.flags = f /\ t.gpr = u.gpr /\ t.mem = u.mem /\ t.reason = u.reason
      /\ t.taken = u.taken /\ t.rip = u.rip /\ t.cs = u.cs /\ t.perm = u.perm
  BY <1>1, <1>3, <1>4, Flagged
<1>6. WideLow(t, w) = lo /\ WideHigh(t, w) = hi
  BY <1>3, <1>5 DEF WideLow, WideHigh
<1>7. Dividend(t, w) = p % M
  <2>1. Dividend(t, w) = WideHigh(t, w) * Modulus(w) + WideLow(t, w)
    BY <1>0, <1>5, WideRead
  <2> QED BY <1>2, <1>6, <2>1
<1>8. Wide(i, t) = (IF SignedOp(i) THEN Signed(M, p % M) ELSE p % M)
  BY <1>7 DEF Wide
<1>9. Wide(i, t) = p
  <2>1. CASE SignedOp(i)
    <3> DEFINE H == 2 * h * h
    <3>1. M = 2 * H /\ H \in Nat \ {0} /\ M \in Nat
      BY <1>0
    <3>2. p \in -H .. H - 1
      BY <2>1
    <3> HIDE DEF H, M
    <3>3. Signed(M, p % M) = p
      BY <3>1, <3>2, SignedResidue
    <3> QED BY <1>8, <2>1, <3>3
  <2>2. CASE ~SignedOp(i)
    <3>1. M \in Nat \ {0} /\ p \in 0 .. M - 1
      BY <1>0, <2>2
    <3> HIDE DEF M
    <3>2. p = M * 0 + p /\ 0 \in Int
      BY <3>1
    <3>3. p % M = p
      BY <3>1, <3>2, FloorUnique
    <3> QED BY <1>8, <2>2, <3>3
  <2> QED BY <2>1, <2>2
<1>10. ProductExact(i, s, t)
  BY <1>4, <1>5, <1>9 DEF ProductExact
<1> QED
  BY <1>3, <1>5, <1>10 DEF Completed

(* The overflow test of IMUL: the product is not its low half.             *)
LEMMA OverflowExact ==
    ASSUME NEW w \in Widths, NEW p \in Int
    PROVE  imul_overflow(w, p) = ~FitsSigned(w, p)
<1>1. PICK h \in Nat \ {0} : Modulus(w) = 2 * h
  BY Moduli
<1> DEFINE m == Modulus(w)
<1>2. m \in Nat /\ m = 2 * h /\ m \div 2 = h
  BY <1>1
<1> HIDE DEF m
<1>3. Signed(m, p % m) = p <=> p \in -h .. h - 1
  BY <1>2, SignedResidue
<1>4. imul_overflow(w, p) <=> ~(Signed(m, p % m) = p)
  BY DEF imul_overflow, AsInt, Truncate, m
<1>5. FitsSigned(w, p) <=> p \in -h .. h - 1
  BY <1>2 DEF FitsSigned, m
<1>6. imul_overflow(w, p) \in BOOLEAN /\ FitsSigned(w, p) \in BOOLEAN
  BY DEF imul_overflow, FitsSigned
<1> QED
  BY <1>3, <1>4, <1>5, <1>6

(* Factors and divisors of a signed instruction.                           *)
LEMMA SignedFactor ==
    ASSUME NEW w \in Widths, NEW h \in Nat \ {0}, Modulus(w) = 2 * h, NEW a \in 0 .. Modulus(w) - 1
    PROVE  AsInt(w, a) \in -h .. h - 1 /\ (AsInt(w, a) = 0 <=> a = 0)
<1> DEFINE m == Modulus(w)
<1>1. m \in Nat /\ m = 2 * h /\ a \in 0 .. m - 1
  BY ModulusType
<1>2. AsInt(w, a) = Signed(m, a)
  BY DEF AsInt
<1> HIDE DEF m
<1>3. Signed(m, a) \in -h .. h - 1 /\ Signed(m, a) = IF a >= h THEN a - m ELSE a
  BY <1>1, SignedRange
<1> QED
  BY <1>1, <1>2, <1>3

(* One attempt of a multiplication or division.                            *)
MulDivOutcome(s, i, t) ==
    \/ Failed(s, i, t)
    \/ t.reason = "divide_error" /\ i.op \in {"div", "idiv"} /\ NoQuotient(i, s)
    \/ /\ Completed(s, t)
       /\ i.op \in {"mul", "imul"} => ProductExact(i, s, t)
       /\ i.op \in {"div", "idiv"} => QuotientExact(i, s, t)

(* MUL, and IMUL with one operand.                                         *)
LEMMA WideProductOutcome ==
    ASSUME NEW s \in CpuStates, s.reason = "none", NEW i, Decoded(i), i.op \in {"mul", "imul"}, i.src = "none",
           NEW t, t = MulDivHandler(s, i)
    PROVE  MulDivOutcome(s, i, t)
<1> DEFINE r == read_operand(s, i, i.dst, i.w)
           m == Modulus(i.w)
<1>0. i \in Instructions /\ i.w \in Widths /\ i.dst \in Readable(i.w)
  BY DEF Decoded, Instructions
<1>1. Loaded(s, i, i.dst, i.w, r) \/ Unreadable(s, i, i.dst, r)
  BY <1>0, ReadOperand
<1>2. CASE r.reason # "none"
  <2>1. t = [s EXCEPT !.reason = r.reason, !.addr = r.addr]
    <3>1. CASE i.op = "mul"
      BY <1>2, <3>1 DEF MulDivHandler, MUL, With
    <3>2. CASE i.op = "imul"
      BY <1>2, <3>2 DEF MulDivHandler, IMUL, With
    <3> QED BY <3>1, <3>2
  <2>2. r = read_operand(s, i, i.dst, i.w)
    OBVIOUS
  <2> HIDE DEF r
  <2>3. Failed(s, i, [s EXCEPT !.reason = r.reason, !.addr = r.addr])
    BY <1>0, <1>2, <2>2, ReadFailed
  <2> QED BY <2>1, <2>3 DEF MulDivOutcome
<1>3. CASE r.reason = "none"
  <2> DEFINE a == WideLow(s, i.w)
             b == r.v
             p == Num(i, a) * Num(i, b)
             ov == IF SignedOp(i) THEN ~FitsSigned(i.w, p) ELSE p >= m
  <2>1. b \in 0 .. m - 1 /\ b = ValueOf(s, i, i.dst)
    BY <1>1, <1>3, ValueIsOperand DEF Loaded, Unreadable
  <2>2. a \in 0 .. m - 1 /\ read_register(s, "ax", i.w) = a
    BY <1>0, WideRead
  <2>3. PICK h \in Nat \ {0} : m = 2 * h
    BY <1>0, Moduli
  <2>4. p \in Int /\ (SignedOp(i) => p \in -(2 * h * h) .. 2 * h * h - 1) /\ (~SignedOp(i) => p \in 0 .. m * m - 1)
    <3>1. CASE SignedOp(i)
      <4>1. Num(i, a) = AsInt(i.w, a) /\ Num(i, b) = AsInt(i.w, b)
        BY <3>1 DEF Num
      <4>2. Num(i, a) \in -h .. h - 1 /\ Num(i, b) \in -h .. h - 1
        BY <1>0, <2>1, <2>2, <2>3, <4>1, SignedFactor
      <4> DEFINE x == Num(i, a)
                 y == Num(i, b)
      <4> HIDE DEF x, y
      <4>3. x \in -h .. h - 1 /\ y \in -h .. h - 1
        BY <4>2 DEF x, y
      <4>4. x * y \in -(2 * h * h) .. 2 * h * h - 1
        BY <4>3, ProductBounds
      <4> QED BY <3>1, <4>4 DEF x, y
    <3>2. CASE ~SignedOp(i)
      <4>1. Num(i, a) = a /\ Num(i, b) = b
        BY <3>2 DEF Num
      <4> HIDE DEF a, b, m
      <4>2. m \in Nat \ {0}
        BY <2>3
      <4>3. a * b \in 0 .. m * m - 1
        BY <2>1, <2>2, <4>2, ProductBounds
      <4> QED BY <3>2, <4>1, <4>3
    <3> QED BY <3>1, <3>2
  <2>5. p = Low(i, s) * Num(i, ValueOf(s, i, i.dst))
    BY <1>0, <2>1, WideNumbers
  <2>6. t = WriteProduct(s, i.w, p, ov)
    <3>1. CASE i.op = "mul"
      <4>1. p = a * b /\ ov = (p >= m)
        BY <3>1 DEF Num, SignedOp
      <4>2. t = WriteProduct(s, i.w, read_register(s, "ax", i.w) * b, read_register(s, "ax", i.w) * b >= m)
        BY <1>3, <3>1 DEF MulDivHandler, MUL, With
      <4> HIDE DEF p, ov, a, b, m
      <4> QED BY <2>2, <4>1, <4>2
    <3>2. CASE i.op = "imul"
      <4>1. p = AsInt(i.w, a) * AsInt(i.w, b) /\ ov = ~FitsSigned(i.w, p)
        BY <3>2 DEF Num, SignedOp
      <4> DEFINE z == AsInt(i.w, read_register(s, "ax", i.w)) * AsInt(i.w, b)
      <4>2. t = WriteProduct(s, i.w, z, imul_overflow(i.w, z))
        BY <1>3, <3>2 DEF MulDivHandler, IMUL, With
      <4> HIDE DEF ov, a, b, m
      <4>3. z = p
        BY <2>2, <4>1
      <4> HIDE DEF z, p
      <4>4. imul_overflow(i.w, p) = ~FitsSigned(i.w, p)
        BY <1>0, <2>4, OverflowExact
      <4> QED BY <4>1, <4>2, <4>3, <4>4
    <3> QED BY <3>1, <3>2
  <2>7. ov \in BOOLEAN /\ ov = (IF SignedOp(i) THEN ~FitsSigned(i.w, p) ELSE p >= m) /\ m = Modulus(i.w)
    <3>1. FitsSigned(i.w, p) \in BOOLEAN
      BY DEF FitsSigned
    <3>2. ov = (IF SignedOp(i) THEN ~FitsSigned(i.w, p) ELSE p >= m) /\ m = Modulus(i.w)
      BY Zenon
    <3>3. ov \in BOOLEAN
      <4>1. CASE SignedOp(i)
        BY <3>1, <4>1
      <4>2. CASE ~SignedOp(i)
        BY <4>2
      <4> QED BY <4>1, <4>2
    <3> HIDE DEF ov, p
    <3> QED BY <3>2, <3>3
  <2> HIDE DEF p, ov, m
  <2>8. Completed(s, t) /\ ProductExact(i, s, t)
    BY <1>0, <2>3, <2>4, <2>5, <2>6, <2>7, ProductStored
  <2> QED BY <2>8 DEF MulDivOutcome
<1> QED
  BY <1>2, <1>3

(* IMUL with two or three operands: the low half, in a register.           *)
LEMMA ShortProductOutcome ==
    ASSUME NEW s \in CpuStates, s.reason = "none", NEW i, Decoded(i), i.op = "imul", i.src # "none",
           NEW t, t = MulDivHandler(s, i)
    PROVE  MulDivOutcome(s, i, t)
<1> DEFINE r == read_operand(s, i, i.src, i.w)
           m == Modulus(i.w)
           o == IF i.count = "imm" THEN "imm" ELSE i.dst
           c == ValueOf(s, i, o)
<1>0. i \in Instructions /\ i.w \in Widths /\ i.src \in Readable(i.w) /\ i.dst \in Gprs /\ i.dst \in RegisterOperands(i.w)
      /\ i.dst # "mem" /\ i.dst \notin HighBytes /\ o \in Readable(i.w) /\ o # "mem"
  BY DEF Decoded, Instructions, MulDivOps, Readable, RegisterOperands, Gprs, HighBytes
<1>1. Loaded(s, i, i.src, i.w, r) \/ Unreadable(s, i, i.src, r)
  BY <1>0, ReadOperand
<1>2. c = (IF i.count = "imm" THEN Truncate(i.w, sign_extend(i.iw, i.imm)) ELSE read_register(s, i.dst, i.w))
  <2>1. ValueOf(s, i, "imm") = Truncate(i.w, sign_extend(i.iw, i.imm))
    BY DEF ValueOf, ValueAt, Gprs, HighBytes
  <2>2. ValueOf(s, i, i.dst) = read_register(s, i.dst, i.w)
    <3> DEFINE x == i.dst
    <3>1. x \in Gprs /\ x \notin HighBytes /\ x # "mem" /\ x # "imm"
      BY <1>0 DEF Gprs
    <3> HIDE DEF x
    <3>2. ValueOf(s, i, x) = Truncate(i.w, s.gpr[x])
      BY <3>1 DEF ValueOf, ValueAt
    <3>3. read_register(s, x, i.w) = Truncate(i.w, s.gpr[x])
      BY <3>1 DEF read_register
    <3> QED BY <3>2, <3>3 DEF x
  <2> QED BY <2>1, <2>2
<1>3. c \in 0 .. m - 1
  <2>1. OperandValue(s, i, o, i.w) \in 0 .. Modulus(i.w) - 1
    BY <1>0, OperandRange
  <2> QED BY <2>1, ValueIsOperand
<1> HIDE DEF c
<1>4. CASE r.reason # "none"
  <2>1. t = [s EXCEPT !.reason = r.reason, !.addr = r.addr]
    BY <1>4 DEF MulDivHandler, IMUL, With
  <2>2. r = read_operand(s, i, i.src, i.w)
    OBVIOUS
  <2> HIDE DEF r
  <2>3. Failed(s, i, [s EXCEPT !.reason = r.reason, !.addr = r.addr])
    BY <1>0, <1>4, <2>2, ReadFailed
  <2> QED BY <2>1, <2>3 DEF MulDivOutcome
<1>5. CASE r.reason = "none"
  <2> DEFINE b == r.v
             p == AsInt(i.w, b) * AsInt(i.w, c)
             v == Truncate(i.w, p)
             ov == imul_overflow(i.w, p)
             u == write_register(s, i.dst, v, i.w)
             f == set_multiply_flags(i.w, v, ov)
  <2>1. b \in 0 .. m - 1 /\ b = ValueOf(s, i, i.src)
    BY <1>1, <1>5, ValueIsOperand DEF Loaded, Unreadable
  <2>2. PICK h \in Nat \ {0} : m = 2 * h
    BY <1>0, Moduli
  <2>3. p \in Int
    <3> DEFINE x == AsInt(i.w, b)
               y == AsInt(i.w, c)
    <3>1. x \in -h .. h - 1 /\ y \in -h .. h - 1
      BY <1>0, <1>3, <2>1, <2>2, SignedFactor
    <3> HIDE DEF x, y
    <3>2. x * y \in Int
      BY <3>1
    <3> QED BY <3>2 DEF x, y
  <2>4. t = [u EXCEPT !.flags = f]
    BY <1>2, <1>5 DEF MulDivHandler, IMUL, With
  <2> HIDE DEF p
  <2>5. v \in 0 .. Modulus(i.w) - 1 /\ v = p % m
    BY <1>0, <2>3, Residue DEF Truncate
  <2>6. ov = ~FitsSigned(i.w, p) /\ ov \in BOOLEAN
    <3>1. FitsSigned(i.w, p) \in BOOLEAN
      BY DEF FitsSigned
    <3> QED BY <1>0, <2>3, <3>1, OverflowExact
  <2> HIDE DEF v, ov
  <2>7. f \in Flags /\ f.cf = ov /\ f.of = ov
    BY <2>6, MultiplyFlags
  <2> HIDE DEF f
  <2>8. u = write_operand(s, i, i.dst, v, i.w)
    BY <1>0 DEF write_operand
  <2> HIDE DEF u
  <2>9. Wrote(s, i, i.dst, i.w, v, u)
    <3>1. Refused(s, i, i.dst, u) \/ Wrote(s, i, i.dst, i.w, v, u)
      BY <1>0, <2>5, <2>8, WriteOperand
    <3> QED BY <1>0, <3>1 DEF Refused
  <2>10. u \in CpuStates /\ u.reason = s.reason /\ u.taken = s.taken /\ u.rip = s.rip /\ u.cs = s.cs /\ u.perm = s.perm
         /\ OperandAt(u, i, i.dst, i.w, memory_address(s, i)) = v
    BY <2>9 DEF Wrote, SameControl
  <2>11. t \in CpuStates /\ t.flags = f /\ t.gpr = u.gpr /\ t.mem = u.mem /\ t.reason = u.reason
      /\ t.taken = u.taken /\ t.rip = u.rip /\ t.cs = u.cs /\ t.perm = u.perm
    BY <2>4, <2>7, <2>10, Flagged
  <2>12. ValueOf(t, i, i.dst) = v
    BY <1>0, <2>10, <2>11 DEF ValueOf, ValueAt, OperandAt
  <2>13. Completed(s, t)
    BY <2>10, <2>11 DEF Completed
  <2>14. ProductExact(i, s, t)
    <3>1. p = Num(i, ValueOf(s, i, i.src)) * Num(i, ValueOf(s, i, IF i.count = "imm" THEN "imm" ELSE i.dst))
      BY <2>1 DEF Num, SignedOp, p, c
    <3> HIDE DEF m
    <3>2. ValueOf(t, i, i.dst) = p % Modulus(i.w)
      BY <2>5, <2>12 DEF m
    <3>3. t.flags.cf = (IF SignedOp(i) THEN ~FitsSigned(i.w, p) ELSE p >= Modulus(i.w)) /\ t.flags.of = t.flags.cf
      BY <2>6, <2>7, <2>11 DEF SignedOp
    <3> QED BY <3>1, <3>2, <3>3 DEF ProductExact
  <2> QED BY <2>13, <2>14 DEF MulDivOutcome
<1> QED
  BY <1>4, <1>5

(* Quotient and remainder in the two halves.                               *)
LEMMA QuotientStored ==
    ASSUME NEW s \in CpuStates, s.reason = "none", NEW i \in Instructions, i.op \in {"div", "idiv"},
           NEW hi \in 0 .. Modulus(i.w) - 1, NEW lo \in 0 .. Modulus(i.w) - 1, NEW d, NEW q, NEW r,
           q = Num(i, lo), r = Num(i, hi), d = Num(i, ValueOf(s, i, i.dst)),
           Wide(i, s) = q * d + r, Abs(r) < Abs(d), r = 0 \/ (r < 0) = (Wide(i, s) < 0),
           NEW t, t = WriteWide(s, i.w, hi, lo)
    PROVE  MulDivOutcome(s, i, t)
<1>1. i.w \in Widths
  BY DEF Instructions
<1>2. /\ t \in CpuStates /\ t.mem = s.mem /\ t.flags = s.flags /\ t.reason = s.reason /\ t.taken = s.taken
      /\ t.rip = s.rip /\ t.cs = s.cs /\ t.perm = s.perm
      /\ WideLow(t, i.w) = lo /\ WideHigh(t, i.w) = hi
  BY <1>1, WideWritten
<1>3. Low(i, t) = q /\ High(i, t) = r
  BY <1>2, WideNumbers
<1>4. Completed(s, t)
  BY <1>2 DEF Completed
<1>5. QuotientExact(i, s, t)
  BY <1>3 DEF QuotientExact
<1> QED
  BY <1>4, <1>5 DEF MulDivOutcome

(* The two ways a division ends before it divides, and the divisor if it   *)
(* goes on.                                                                *)
Divisor(s, i, r, z) ==
    \/ z.reason # "none" /\ MulDivOutcome(s, i, [s EXCEPT !.reason = z.reason, !.addr = z.addr])
    \/ z = r /\ r.reason = "none" /\ r.v \in 1 .. Modulus(i.w) - 1 /\ r.v = ValueOf(s, i, i.dst)

(* read_divisor_checked gives one of them.                                 *)
LEMMA DivisorOutcome ==
    ASSUME NEW s \in CpuStates, s.reason = "none", NEW i, Decoded(i), i.op \in {"div", "idiv"},
           NEW r, r = read_operand(s, i, i.dst, i.w), NEW z, z = read_divisor_checked(s, i)
    PROVE  Divisor(s, i, r, z)
<1> DEFINE t == [s EXCEPT !.reason = z.reason, !.addr = z.addr]
<1>0. i \in Instructions /\ i.w \in Widths /\ i.dst \in Readable(i.w)
  BY DEF Decoded, Instructions
<1>1. Loaded(s, i, i.dst, i.w, r) \/ Unreadable(s, i, i.dst, r)
  BY <1>0, ReadOperand
<1>2. z = IF r.reason = "none" /\ r.v = 0 THEN [r EXCEPT !.reason = "divide_error", !.addr = s.rip] ELSE r
  BY DEF read_divisor_checked
<1>3. CASE r.reason # "none"
  <2>1. z = r
    BY <1>2, <1>3
  <2>2. Failed(s, i, t)
    BY <1>0, <1>3, <2>1, ReadFailed
  <2> QED BY <1>3, <2>1, <2>2 DEF MulDivOutcome, Divisor
<1>4. CASE r.reason = "none" /\ r.v = 0
  <2>1. r = [reason |-> r.reason, addr |-> r.addr, v |-> r.v]
    BY <1>0 DEF read_operand, read_memory_checked, Got, Readable, RegisterOperands
  <2>2. z.reason = "divide_error"
    BY <1>2, <1>4, <2>1
  <2>3. t.reason = "divide_error"
    BY <2>2 DEF CpuStates
  <2>4. ValueOf(s, i, i.dst) = 0
    BY <1>1, <1>4, ValueIsOperand DEF Loaded, Unreadable
  <2>5. Num(i, 0) = 0
    <3>1. PICK h \in Nat \ {0} : Modulus(i.w) = 2 * h
      BY <1>0, Moduli
    <3>2. 0 \in 0 .. Modulus(i.w) - 1
      BY <1>0, ModulusType
    <3>3. AsInt(i.w, 0) = 0
      BY <1>0, <3>1, <3>2, SignedFactor
    <3> QED BY <3>3 DEF Num
  <2>6. NoQuotient(i, s)
    BY <2>4, <2>5 DEF NoQuotient
  <2> QED BY <2>2, <2>3, <2>6 DEF MulDivOutcome, Divisor
<1>5. CASE r.reason = "none" /\ r.v # 0
  <2>1. z = r
    BY <1>2, <1>5
  <2>2. r.v \in 0 .. Modulus(i.w) - 1 /\ r.v = ValueOf(s, i, i.dst)
    BY <1>1, <1>5, ValueIsOperand DEF Loaded, Unreadable
  <2> QED BY <1>5, <2>1, <2>2 DEF Divisor
<1> QED
  BY <1>3, <1>4, <1>5

(* DIV.                                                                    *)
LEMMA DivOutcome ==
    ASSUME NEW s \in CpuStates, s.reason = "none", NEW i, Decoded(i), i.op = "div",
           NEW t, t = MulDivHandler(s, i)
    PROVE  MulDivOutcome(s, i, t)
<1> DEFINE r == read_operand(s, i, i.dst, i.w)
           z == read_divisor_checked(s, i)
           m == Modulus(i.w)
           n == Dividend(s, i.w)
           d == r.v
<1>0. i \in Instructions /\ i.w \in Widths /\ ~SignedOp(i)
  BY DEF Decoded, Instructions, SignedOp
<1>1. \/ z.reason # "none" /\ MulDivOutcome(s, i, [s EXCEPT !.reason = z.reason, !.addr = z.addr])
      \/ z = r /\ r.reason = "none" /\ r.v \in 1 .. Modulus(i.w) - 1 /\ r.v = ValueOf(s, i, i.dst)
  <2>1. i.op \in {"div", "idiv"} /\ r = read_operand(s, i, i.dst, i.w) /\ z = read_divisor_checked(s, i)
    OBVIOUS
  <2> HIDE DEF r, z
  <2>2. Divisor(s, i, r, z)
    BY <2>1, DivisorOutcome
  <2> QED BY <2>2 DEF Divisor
<1>2. CASE z.reason # "none"
  <2>1. t = [s EXCEPT !.reason = z.reason, !.addr = z.addr]
    BY <1>2 DEF MulDivHandler, DIV, With
  <2> HIDE DEF z, r
  <2>2. z.reason # "none" /\ MulDivOutcome(s, i, [s EXCEPT !.reason = z.reason, !.addr = z.addr])
    BY <1>1, <1>2
  <2> QED BY <2>1, <2>2
<1>3. CASE z.reason = "none"
  <2>1. z = r /\ d \in 1 .. m - 1 /\ d = ValueOf(s, i, i.dst)
    BY <1>1, <1>3
  <2> DEFINE q == n \div d
             e == n % d
  <2>2. t = IF q >= m THEN divide_fault(s) ELSE WriteWide(s, i.w, e, q)
    BY <1>3, <2>1 DEF MulDivHandler, DIV, With
  <2>3. n \in 0 .. m * m - 1 /\ Wide(i, s) = n /\ m \in Nat \ {0}
    BY <1>0, WideNumbers, ModulusType
  <2>4. m = Modulus(i.w)
    OBVIOUS
  <2> HIDE DEF m, n, r, z
  <2>5. d \in Nat \ {0} /\ n \in Nat /\ q \in Nat /\ e \in 0 .. d - 1 /\ n = d * q + e
    <3>1. n \in Nat
      <4>1. m * m \in Int
        BY <2>3
      <4> QED BY <2>3, <4>1
    <3>2. d \in Nat \ {0}
      <4> HIDE DEF d
      <4> QED BY <2>1, <2>3
    <3> HIDE DEF d
    <3>3. q \in Int /\ e \in 0 .. d - 1 /\ n = d * q + e
      BY <3>1, <3>2, FloorParts
    <3> HIDE DEF q, e
    <3>4. q \in Nat
      BY <3>1, <3>2, <3>3, MultipleSign
    <3> QED BY <3>1, <3>2, <3>3, <3>4
  <2>6. q < m <=> n < m * d
    BY <2>3, <2>5, DivBelow
  <2>7. Num(i, ValueOf(s, i, i.dst)) = d
    BY <1>0, <2>1 DEF Num
  <2> HIDE DEF d, q, e
  <2>8. CASE q >= m
    <3>1. t.reason = "divide_error"
      BY <2>2, <2>8 DEF divide_fault, CpuStates
    <3>2. Abs(n) = n /\ Abs(d) = d
      BY <2>5 DEF Abs
    <3>3. n >= m * d
      <4>1. m * d \in Int
        BY <2>3, <2>5
      <4> QED BY <2>3, <2>5, <2>6, <2>8, <4>1
    <3>4. NoQuotient(i, s)
      BY <1>0, <2>3, <2>4, <2>7, <3>2, <3>3 DEF NoQuotient
    <3> QED BY <3>1, <3>4 DEF MulDivOutcome
  <2>9. CASE ~(q >= m)
    <3>1. t = WriteWide(s, i.w, e, q)
      BY <2>2, <2>9
    <3>2. e \in 0 .. Modulus(i.w) - 1 /\ q \in 0 .. Modulus(i.w) - 1
      BY <2>1, <2>3, <2>4, <2>5, <2>9
    <3>3. q = Num(i, q) /\ e = Num(i, e)
      BY <1>0 DEF Num
    <3>4. Wide(i, s) = q * d + e
      BY <2>3, <2>5
    <3>5. Abs(e) < Abs(d) /\ (e = 0 \/ (e < 0) = (Wide(i, s) < 0))
      BY <2>3, <2>5 DEF Abs
    <3> QED BY <1>0, <2>7, <3>1, <3>2, <3>3, <3>4, <3>5, QuotientStored
  <2> QED BY <2>8, <2>9
<1> QED
  BY <1>2, <1>3

(* IDIV: C++ division, with the remainder on the side of the dividend.     *)
LEMMA IdivOutcome ==
    ASSUME NEW s \in CpuStates, s.reason = "none", NEW i, Decoded(i), i.op = "idiv",
           NEW t, t = MulDivHandler(s, i)
    PROVE  MulDivOutcome(s, i, t)
<1> DEFINE r == read_operand(s, i, i.dst, i.w)
           z == read_divisor_checked(s, i)
           m == Modulus(i.w)
           n == Signed(m * m, Dividend(s, i.w))
           d == AsInt(i.w, r.v)
<1>0. i \in Instructions /\ i.w \in Widths /\ SignedOp(i)
  BY DEF Decoded, Instructions, SignedOp
<1>1. \/ z.reason # "none" /\ MulDivOutcome(s, i, [s EXCEPT !.reason = z.reason, !.addr = z.addr])
      \/ z = r /\ r.reason = "none" /\ r.v \in 1 .. Modulus(i.w) - 1 /\ r.v = ValueOf(s, i, i.dst)
  <2>1. i.op \in {"div", "idiv"} /\ r = read_operand(s, i, i.dst, i.w) /\ z = read_divisor_checked(s, i)
    OBVIOUS
  <2> HIDE DEF r, z
  <2>2. Divisor(s, i, r, z)
    BY <2>1, DivisorOutcome
  <2> QED BY <2>2 DEF Divisor
<1>2. CASE z.reason # "none"
  <2>1. t = [s EXCEPT !.reason = z.reason, !.addr = z.addr]
    BY <1>2 DEF MulDivHandler, IDIV, With
  <2> HIDE DEF z, r
  <2>2. z.reason # "none" /\ MulDivOutcome(s, i, [s EXCEPT !.reason = z.reason, !.addr = z.addr])
    BY <1>1, <1>2
  <2> QED BY <2>1, <2>2
<1>3. CASE z.reason = "none"
  <2>1. z = r /\ r.v \in 1 .. m - 1 /\ r.v = ValueOf(s, i, i.dst)
    BY <1>1, <1>3
  <2>2. PICK h \in Nat \ {0} : m = 2 * h
    BY <1>0, Moduli
  <2>3. d \in -h .. h - 1 /\ d # 0
    <3>1. r.v \in 0 .. Modulus(i.w) - 1 /\ r.v # 0 /\ Modulus(i.w) = 2 * h
      BY <2>1, <2>2
    <3> HIDE DEF r
    <3> QED BY <1>0, <3>1, SignedFactor
  <2> DEFINE q == Quotient(n, d)
             e == n - q * d
  <2>4. t = IF ~FitsSigned(i.w, q) THEN divide_fault(s) ELSE WriteWide(s, i.w, Truncate(i.w, e), Truncate(i.w, q))
    BY <1>3, <2>1 DEF MulDivHandler, IDIV, With
  <2>5. Wide(i, s) = n /\ m = Modulus(i.w) /\ Num(i, ValueOf(s, i, i.dst)) = d
    BY <1>0, <2>1 DEF Wide, Num
  <2>6. n \in Int
    <3>1. Dividend(s, i.w) \in 0 .. m * m - 1 /\ m \in Nat
      BY <1>0, WideNumbers, ModulusType
    <3> HIDE DEF m
    <3>2. Dividend(s, i.w) \in Int /\ m * m \in Int
      BY <3>1
    <3> DEFINE M == m * m
    <3> HIDE DEF M
    <3>3. Signed(M, Dividend(s, i.w)) \in Int
      BY <3>2 DEF Signed, M
    <3> QED BY <3>3 DEF M
  <2> HIDE DEF n, d, r, z
  <2>7. q = (IF (n < 0) = (d < 0) THEN Magnitude(n) \div Magnitude(d) ELSE -(Magnitude(n) \div Magnitude(d)))
    BY DEF Quotient, Magnitude
  <2> HIDE DEF q
  <2>8. /\ q \in Int /\ e \in -Magnitude(d) + 1 .. Magnitude(d) - 1 /\ n = q * d + e
        /\ e = 0 \/ (e < 0) = (n < 0)
        /\ \A x \in Nat : /\ (n < 0) = (d < 0) => (q >= x <=> Magnitude(n) >= x * Magnitude(d))
                          /\ (n < 0) # (d < 0) => (q <= -x <=> Magnitude(n) >= x * Magnitude(d))
    <3>1. n \in Int /\ d \in Int \ {0} /\ e = n - q * d
      BY <2>3, <2>6
    <3> HIDE DEF e
    <3>2. Truncated(n, d, q, e)
      BY <2>7, <3>1, TruncatedDivision
    <3> QED BY <3>2 DEF Truncated
  <2> HIDE DEF m, e
  <2>9. Abs(n) = Magnitude(n) /\ Abs(d) = Magnitude(d) /\ Abs(e) = Magnitude(e)
    BY DEF Abs, Magnitude
  <2>10. m \div 2 = h
    BY <2>2
  <2>11. FitsSigned(i.w, q) <=> q \in -h .. h - 1
    BY <2>5, <2>10 DEF FitsSigned
  <2>12. CASE ~FitsSigned(i.w, q)
    <3>1. t.reason = "divide_error"
      BY <2>4, <2>12 DEF divide_fault, CpuStates
    <3> DEFINE limit == Modulus(i.w) \div 2 + (IF (Wide(i, s) < 0) = (d < 0) THEN 0 ELSE 1)
    <3>2. Magnitude(n) >= limit * Magnitude(d)
      <4>1. CASE (n < 0) = (d < 0)
        <5>1. limit = h + 0
          BY <2>5, <2>10, <4>1
        <5>2. q >= h <=> Magnitude(n) >= h * Magnitude(d)
          BY <2>8, <4>1
        <5>3. q >= 0
          <6>1. 0 \in Nat /\ (q >= 0 <=> Magnitude(n) >= 0 * Magnitude(d))
            BY <2>8, <4>1
          <6>2. Magnitude(n) \in Nat /\ Magnitude(d) \in Nat
            BY <2>3, <2>6 DEF Magnitude
          <6> QED BY <6>1, <6>2
        <5>4. q >= h
          BY <2>8, <2>11, <2>12, <5>3
        <5> HIDE DEF limit
        <5> QED BY <5>1, <5>2, <5>4
      <4>2. CASE (n < 0) # (d < 0)
        <5>1. limit = h + 1
          BY <2>5, <2>10, <4>2
        <5>2. h + 1 \in Nat /\ (q <= -(h + 1) <=> Magnitude(n) >= (h + 1) * Magnitude(d))
          BY <2>8, <4>2
        <5>3. q <= 0
          <6>1. 0 \in Nat /\ (q <= -0 <=> Magnitude(n) >= 0 * Magnitude(d))
            BY <2>8, <4>2
          <6>2. Magnitude(n) \in Nat /\ Magnitude(d) \in Nat
            BY <2>3, <2>6 DEF Magnitude
          <6> QED BY <2>8, <6>1, <6>2
        <5>4. q <= -(h + 1)
          BY <2>8, <2>11, <2>12, <5>3
        <5> HIDE DEF limit
        <5> QED BY <5>1, <5>2, <5>4
      <4> QED BY <4>1, <4>2
    <3>3. NoQuotient(i, s)
      BY <1>0, <2>5, <2>9, <3>2 DEF NoQuotient
    <3> QED BY <3>1, <3>3 DEF MulDivOutcome
  <2>13. CASE FitsSigned(i.w, q)
    <3> DEFINE hi == Truncate(i.w, e)
               lo == Truncate(i.w, q)
    <3>1. t = WriteWide(s, i.w, hi, lo)
      BY <2>4, <2>13
    <3>2. e \in -h .. h - 1 /\ q \in -h .. h - 1 /\ e \in Int /\ q \in Int
      BY <2>3, <2>8, <2>11, <2>13 DEF Magnitude
    <3>3. hi \in 0 .. Modulus(i.w) - 1 /\ lo \in 0 .. Modulus(i.w) - 1
      BY <1>0, <3>2, Residue
    <3>4. Signed(m, e % m) = e /\ Signed(m, q % m) = q
      <4>1. m \in Nat /\ m = 2 * h
        BY <2>2
      <4> QED BY <3>2, <4>1, SignedResidue
    <3>5. Num(i, hi) = e /\ Num(i, lo) = q
      BY <1>0, <2>5, <3>4 DEF Num, AsInt, Truncate
    <3> HIDE DEF hi, lo
    <3>6. Abs(e) < Abs(d)
      <4>1. Magnitude(e) < Magnitude(d)
        BY <2>3, <2>8 DEF Magnitude
      <4> QED BY <2>9, <4>1
    <3>7. Wide(i, s) = q * d + e /\ (e = 0 \/ (e < 0) = (Wide(i, s) < 0))
      BY <2>5, <2>8
    <3> QED BY <1>0, <2>5, <3>1, <3>3, <3>5, <3>6, <3>7, QuotientStored
  <2> QED BY <2>12, <2>13
<1> QED
  BY <1>2, <1>3

(* Every multiplication and division.                                      *)
LEMMA MulDivAttempt ==
    ASSUME NEW s \in CpuStates, s.reason = "none", NEW i, Decoded(i), i.op \in MulDivOps,
           NEW t, t = MulDivHandler(s, i)
    PROVE  MulDivOutcome(s, i, t)
<1>1. i.op # "imul" => i.src = "none"
  BY DEF Decoded
<1>2. CASE i.op \in {"mul", "imul"} /\ i.src = "none"
  BY <1>2, WideProductOutcome
<1>3. CASE i.op = "imul" /\ i.src # "none"
  BY <1>3, ShortProductOutcome
<1>4. CASE i.op = "div"
  BY <1>4, DivOutcome
<1>5. CASE i.op = "idiv"
  BY <1>5, IdivOutcome
<1> QED
  BY <1>1, <1>2, <1>3, <1>4, <1>5 DEF MulDivOps

-----------------------------------------------------------------------------
(* Programs of one instruction. SteadyOps are the instructions a fault     *)
(* leaves with registers as they were, and memory too but for a part of a  *)
(* destination across two pages.                                           *)
SteadyOps == IntegerWriters \cup IntegerReaders \cup MulDivOps

Steady(i) == i.op \in SteadyOps /\ (i.op = "pop" => i.dst # "mem")

(* Memory as it was, or an earlier attempt stored the first part of a      *)
(* destination across two pages; no other operand comes to be across two.  *)
MemoryResembles(i, s, c) ==
    /\ \A x : PermAt(c, x) \in Crossing => PermAt(s, x) \in Crossing
    /\ \A x \in Addresses \ {memory_address(s, i)} : c.mem[x] = s.mem[x]
    /\ c.mem = s.mem \/ (Storing(i) /\ PermAt(s, memory_address(s, i)) \in Crossing)

(* The machine before an attempt, seen from the start: the same registers, *)
(* memory as far as earlier attempts left it alone, and the same flags     *)
(* unless they changed them.                                               *)
Resembles(i, n, s, c) ==
    /\ c \in CpuStates /\ c.gpr = s.gpr /\ c.rip = s.rip /\ c.cs = s.cs
    /\ MemoryResembles(i, s, c)
    /\ i.dst # "mem" \/ Unshifted(i, s) => c.flags = s.flags
    /\ n = 0 /\ c.reason = "none" => c.flags = s.flags /\ c.mem = s.mem
    /\ i.op \in {"inc", "dec"} => c.flags.cf = s.flags.cf

(* The machine is what one attempt made of such a machine.                 *)
Attempted(i, n, s, t) ==
    \E c : Resembles(i, n, s, c) /\ c.reason = "none" /\ t = Step(c, i)

ProgramInv ==
    /\ start \in CpuStates /\ start.reason = "none"
    /\ Len(prog) \in Nat \ {0} /\ DOMAIN prog = 1 .. Len(prog)
    /\ \A n \in DOMAIN prog : prog[n].op \in IntegerOps => Decoded(prog[n])
    /\ repairs \in Nat

(* The first instruction of a program, and a program of nothing else.      *)
FirstInv ==
    /\ pc \in Nat \ {0}
    /\ pc = 1 /\ Steady(prog[1]) =>
        \/ cpu.reason \in {"none", "page_fault"} /\ Resembles(prog[1], repairs, start, cpu)
        \/ cpu.reason = "divide_error" /\ Attempted(prog[1], repairs, start, cpu)

SingleInv ==
    Len(prog) = 1 /\ Steady(prog[1]) /\ pc # 1 =>
        pc = 2 /\ cpu.reason = "none" /\ Attempted(prog[1], repairs, start, cpu)

(* Programs and their starting machines never change, and the decoder made *)
(* their instructions.                                                     *)
THEOREM ProgramsWellFormed == Spec => []ProgramInv
<1>1. Init => ProgramInv
  BY ScenariosAssumption DEF Init, ProgramInv
<1>2. ProgramInv /\ [Next]_mvars => ProgramInv'
  <2> SUFFICES ASSUME ProgramInv, [Next]_mvars PROVE ProgramInv'
    OBVIOUS
  <2>1. prog' = prog /\ start' = start /\ (repairs' = repairs \/ repairs' = repairs + 1)
    BY DEF Next, Execute, Repair, mvars
  <2> QED BY <2>1 DEF ProgramInv
<1> QED
  BY <1>1, <1>2, PTL DEF Spec

(* What Step hands to the handler.                                         *)
Ready(s) == [s EXCEPT !.reason = "none", !.addr = NoAddress, !.taken = FALSE]

(* It differs from the machine in the reason, the address and the jump     *)
(* only.                                                                   *)
LEMMA ReadyParts ==
    ASSUME NEW s \in CpuStates
    PROVE  /\ Ready(s) \in CpuStates /\ Ready(s).reason = "none" /\ Ready(s).taken = FALSE
           /\ Ready(s).gpr = s.gpr /\ Ready(s).mem = s.mem /\ Ready(s).flags = s.flags /\ Ready(s).perm = s.perm
           /\ Ready(s).rip = s.rip /\ Ready(s).cs = s.cs
<1> DEFINE s1 == [s EXCEPT !.reason = "none"]
           s2 == [s1 EXCEPT !.addr = NoAddress]
           s3 == [s2 EXCEPT !.taken = FALSE]
<1>1. s1 \in CpuStates /\ s1.reason = "none" /\ s1.gpr = s.gpr /\ s1.mem = s.mem /\ s1.flags = s.flags
      /\ s1.perm = s.perm /\ s1.rip = s.rip /\ s1.cs = s.cs
  BY DEF CpuStates
<1>2. Ready(s) = s3
  BY DEF Ready
<1>3. NoAddress \in Int
  BY DEF NoAddress
<1> HIDE DEF s1
<1>4. s2 \in CpuStates /\ s2.reason = "none" /\ s2.gpr = s.gpr /\ s2.mem = s.mem /\ s2.flags = s.flags
      /\ s2.perm = s.perm /\ s2.rip = s.rip /\ s2.cs = s.cs
  BY <1>1, <1>3 DEF CpuStates
<1> HIDE DEF s2
<1>5. s3 \in CpuStates /\ s3.reason = "none" /\ s3.taken = FALSE /\ s3.gpr = s.gpr /\ s3.mem = s.mem
      /\ s3.flags = s.flags /\ s3.perm = s.perm /\ s3.rip = s.rip /\ s3.cs = s.cs
  BY <1>4 DEF CpuStates
<1> QED
  BY <1>2, <1>5

(* So it resembles whatever the machine resembles.                         *)
LEMMA ReadyResembles ==
    ASSUME NEW i, NEW n, NEW s, NEW c, Resembles(i, n, s, c), c.reason = "none"
    PROVE  Resembles(i, n, s, Ready(c))
BY ReadyParts DEF Resembles, MemoryResembles, PermAt

(* The families of instructions do not overlap.                            *)
LEMMA OpTables ==
    /\ \A op \in AdditionOps : op \notin ShiftRotateOps \cup MulDivOps \cup TransferOps \cup BranchOps \cup StackOps
    /\ \A op \in ShiftRotateOps : op \notin MulDivOps \cup TransferOps \cup BranchOps \cup StackOps
    /\ \A op \in MulDivOps : op \notin TransferOps \cup BranchOps \cup StackOps
    /\ \A op \in TransferOps : op \notin BranchOps \cup StackOps
    /\ \A op \in BranchOps : op \notin StackOps
    /\ AdditionOps \cup ShiftRotateOps \cup MulDivOps \cup TransferOps \cup BranchOps \cup StackOps \subseteq IntegerOps
BY DEF AdditionOps, ShiftRotateOps, DoubleShifts, MulDivOps, TransferOps, BranchOps, LoopOps, StackOps, IntegerOps

(* One attempt of a steady instruction other than these: it fails or gets  *)
(* through.                                                                *)
LEMMA SteadyOutcome ==
    ASSUME NEW s \in CpuStates, s.reason = "none", NEW i, Decoded(i), Steady(i), i.op \notin MulDivOps, NEW t, t = Handler(s, i)
    PROVE  RegisterOutcome(s, i, t)
<1>1. CASE i.op \in AdditionOps \ {"not"}
  <2>1. t = AdditionHandler(s, i)
    BY <1>1, OpTables DEF Handler, IntegerHandler
  <2>2. i \in Instructions /\ i.dst \in RegisterOperands(i.w) \cup {"mem"}
    BY <1>1 DEF Decoded, AdditionOps, LoopOps, Readable
  <2>3. \/ Failed(s, i, t)
        \/ /\ Completed(s, t)
           /\ i.op # "cmp" => RegisterWritten(s, i, t)
           /\ i.op = "cmp" => t.gpr = s.gpr
    BY <1>1, <2>1, AdditionOutcome
  <2>4. /\ i.op \in IntegerWriters => i.op # "cmp"
        /\ i.op \in IntegerReaders => i.op = "cmp"
    BY <1>1 DEF IntegerWriters, IntegerReaders, AdditionOps, ShiftRotateOps, DoubleShifts
  <2> QED BY <2>2, <2>3, <2>4, WrittenIsExact DEF RegisterOutcome, Completed
<1>2. CASE i.op = "not"
  <2>1. t = AdditionHandler(s, i)
    BY <1>2, OpTables DEF Handler, IntegerHandler, AdditionOps
  <2> QED BY <1>2, <2>1, NotOutcome
<1>3. CASE i.op \in ShiftRotateOps
  <2>1. t = ShiftRotateHandler(s, i)
    BY <1>3, OpTables DEF Handler, IntegerHandler
  <2> QED BY <1>3, <2>1, ShiftHandlers
<1>4. CASE i.op \in PlainMoves \cup {"xchg"}
  <2>1. t = TransferHandler(s, i)
    BY <1>4, OpTables DEF Handler, IntegerHandler, TransferOps, PlainMoves
  <2> QED BY <1>4, <2>1, TransferOutcome, ExchangeOutcome
<1>5. CASE i.op \in {"cmov", "jcc", "jmp", "jcxz"}
  <2>1. t = BranchHandler(s, i)
    BY <1>5, OpTables DEF Handler, IntegerHandler, BranchOps
  <2> QED BY <1>5, <2>1, MoveIfOutcome, ReaderOutcome
<1>6. CASE i.op = "pop"
  <2>1. t = StackHandler(s, i)
    BY <1>6, OpTables DEF Handler, IntegerHandler, StackOps
  <2> QED BY <1>6, <2>1, PopOutcome DEF Steady
<1>7. \/ i.op \in AdditionOps \ {"not"} \/ i.op = "not" \/ i.op \in ShiftRotateOps \/ i.op \in PlainMoves \cup {"xchg"}
      \/ i.op \in {"cmov", "jcc", "jmp", "jcxz"} \/ i.op = "pop"
  BY DEF Steady, SteadyOps, IntegerWriters, IntegerReaders, PlainMoves, AdditionOps
<1> QED
  BY <1>1, <1>2, <1>3, <1>4, <1>5, <1>6, <1>7

(* A failed attempt leaves a machine that still resembles the start.       *)
LEMMA FailedResembles ==
    ASSUME NEW i, NEW n \in Nat, NEW s, NEW c, Resembles(i, n, s, c), c.reason = "none",
           NEW t, Failed(Ready(c), i, t)
    PROVE  Resembles(i, n, s, t) /\ t.reason = "page_fault"
<1> DEFINE u == Ready(c)
<1>1. Resembles(i, n, s, u) /\ u \in CpuStates
  BY ReadyResembles, ReadyParts DEF Resembles
<1>2. u.flags = c.flags /\ u.gpr = c.gpr
  BY ReadyParts DEF Resembles
<1> HIDE DEF u
<1>3. PICK f \in Flags, a \in Nat, m \in [Addresses -> Values] :
        /\ t = [u EXCEPT !.flags = f, !.mem = m, !.reason = "page_fault", !.addr = a]
        /\ i.dst # "mem" \/ Unshifted(i, u) => f = u.flags
        /\ i.op \in {"inc", "dec"} => f.cf = u.flags.cf
        /\ PartlyStored(u, memory_address(u, i), m) /\ (~Storing(i) => m = u.mem)
  BY DEF Failed, u
<1>4. t \in CpuStates /\ t.gpr = u.gpr /\ t.mem = m /\ t.rip = u.rip /\ t.cs = u.cs /\ t.flags = f
      /\ t.reason = "page_fault" /\ t.perm = u.perm
  <2> DEFINE u0 == [u EXCEPT !.flags = f]
             u1 == [u0 EXCEPT !.mem = m]
             u2 == [u1 EXCEPT !.reason = "page_fault"]
             u3 == [u2 EXCEPT !.addr = a]
  <2>0. u0 \in CpuStates /\ u0.gpr = u.gpr /\ u0.flags = f /\ u0.rip = u.rip /\ u0.cs = u.cs /\ u0.perm = u.perm
    BY <1>1 DEF CpuStates
  <2>2. t = u3 /\ a \in Int
    BY <1>3
  <2> HIDE DEF u0
  <2>1. u1 \in CpuStates /\ u1.gpr = u.gpr /\ u1.mem = m /\ u1.rip = u.rip /\ u1.cs = u.cs /\ u1.perm = u.perm
        /\ u1.flags = f
    BY <2>0 DEF CpuStates
  <2> HIDE DEF u1
  <2>3. u2 \in CpuStates /\ u2.gpr = u.gpr /\ u2.mem = m /\ u2.rip = u.rip /\ u2.cs = u.cs /\ u2.perm = u.perm
        /\ u2.flags = f /\ u2.reason = "page_fault"
    BY <2>1 DEF CpuStates
  <2> HIDE DEF u2
  <2> QED BY <2>2, <2>3 DEF CpuStates
<1>5. Unshifted(i, s) => Unshifted(i, u)
  BY <1>1 DEF Resembles, Unshifted, ShiftCount, read_shift_count
<1>6. MemoryResembles(i, s, t)
  <2>1. memory_address(u, i) = memory_address(s, i)
    BY <1>1 DEF Resembles, memory_address
  <2>2. \A x : PermAt(t, x) = PermAt(u, x)
    BY <1>4 DEF PermAt
  <2> QED BY <1>1, <1>3, <1>4, <2>1, <2>2 DEF Resembles, MemoryResembles, PartlyStored
<1> QED
  BY <1>1, <1>3, <1>4, <1>5, <1>6 DEF Resembles

(* Step after the handler: only RIP can still change.                      *)
LEMMA StepIsHandler ==
    ASSUME NEW c \in CpuStates, NEW i, NEW t, t = Handler(Ready(c), i)
    PROVE  /\ t.reason # "none" => Step(c, i) = t
           /\ t.reason = "none" /\ t \in CpuStates =>
                  /\ Step(c, i) \in CpuStates /\ Step(c, i).reason = "none"
                  /\ Step(c, i).gpr = t.gpr /\ Step(c, i).mem = t.mem /\ Step(c, i).flags = t.flags
                  /\ Step(c, i).cs = t.cs /\ Step(c, i).perm = t.perm /\ Step(c, i).taken = t.taken
                  /\ Step(c, i).rip = IF t.taken THEN t.rip ELSE t.rip + 1
<1>1. Step(c, i) = Advanced(t)
  BY DEF Step, Ready
<1>2. t.reason # "none" => Advanced(t) = t
  BY DEF Advanced
<1>3. ASSUME t.reason = "none", t \in CpuStates
      PROVE  /\ Advanced(t) \in CpuStates /\ Advanced(t).reason = "none"
             /\ Advanced(t).gpr = t.gpr /\ Advanced(t).mem = t.mem /\ Advanced(t).flags = t.flags
             /\ Advanced(t).cs = t.cs /\ Advanced(t).perm = t.perm /\ Advanced(t).taken = t.taken
             /\ Advanced(t).rip = IF t.taken THEN t.rip ELSE t.rip + 1
  <2>1. CASE t.taken
    BY <1>3, <2>1 DEF Advanced
  <2>2. CASE ~t.taken
    <3>1. Advanced(t) = [t EXCEPT !.rip = t.rip + 1]
      BY <1>3, <2>2 DEF Advanced
    <3>2. t.rip + 1 \in Nat
      BY <1>3, Parts
    <3> QED BY <1>3, <2>2, <3>1, <3>2 DEF CpuStates
  <2> QED BY <2>1, <2>2
<1> QED
  BY <1>1, <1>2, <1>3

(* No integer instruction is a string instruction.                         *)
LEMMA StringMovesApart == \A op \in IntegerOps : op \notin StringMoves
BY DEF AdditionOps, ShiftRotateOps, DoubleShifts, MulDivOps, TransferOps, BranchOps, LoopOps, StackOps, IntegerOps, StringMoves

(* The first instruction, if steady, is one the decoder can make.          *)
LEMMA SteadyDecoded ==
    ASSUME ProgramInv, Steady(prog[1])
    PROVE  Decoded(prog[1]) /\ prog[1].op \in IntegerOps
<1>1. 1 \in DOMAIN prog
  BY DEF ProgramInv
<1>2. prog[1].op \in IntegerOps
  BY DEF Steady, SteadyOps, IntegerWriters, IntegerReaders, IntegerOps, TransferOps, BranchOps, StackOps, AdditionOps, MulDivOps
<1> QED
  BY <1>1, <1>2 DEF ProgramInv

(* What an attempt may run into, seen from the start.                      *)
LEMMA AttemptCases ==
    ASSUME NEW i, Decoded(i), Steady(i), NEW n \in Nat, NEW s, NEW c, Resembles(i, n, s, c), c.reason = "none",
           NEW t, t = Step(c, i)
    PROVE  \/ t.reason = "page_fault" /\ Resembles(i, n, s, t)
           \/ t.reason \in {"none", "divide_error"} /\ Attempted(i, n, s, t)
<1>1. c \in CpuStates
  BY DEF Resembles
<1> DEFINE u == Handler(Ready(c), i)
<1>2. Failed(Ready(c), i, u) \/ u.reason = "divide_error" \/ u.reason = "none"
  <2> DEFINE r == Ready(c)
  <2>1. r \in CpuStates /\ r.reason = "none" /\ u = Handler(r, i)
    BY <1>1, ReadyParts
  <2> HIDE DEF r, u
  <2>2. CASE i.op \in MulDivOps
    <3>1. u = MulDivHandler(r, i)
      BY <2>1, <2>2, OpTables DEF Handler, IntegerHandler
    <3>2. MulDivOutcome(r, i, u)
      BY <2>1, <2>2, <3>1, MulDivAttempt
    <3> QED BY <3>2 DEF MulDivOutcome, Completed, r
  <2>3. CASE i.op \notin MulDivOps
    <3>1. RegisterOutcome(r, i, u)
      BY <2>1, <2>3, SteadyOutcome
    <3> QED BY <3>1 DEF RegisterOutcome, r
  <2> QED BY <2>2, <2>3
<1>3. CASE u.reason = "none"
  <2>1. Advanced(u).reason = "none"
    BY <1>3 DEF Advanced
  <2>2. t = Advanced(u)
    BY DEF Step, Ready
  <2> QED BY <2>1, <2>2 DEF Attempted
<1>4. CASE u.reason # "none"
  <2>1. t = u
    BY <1>1, <1>4, StepIsHandler
  <2>2. CASE Failed(Ready(c), i, u)
    <3> HIDE DEF u
    <3> QED BY <2>1, <2>2, FailedResembles
  <2>3. CASE u.reason = "divide_error"
    BY <2>1, <2>3 DEF Attempted
  <2> QED BY <1>2, <1>4, <2>2, <2>3
<1> QED
  BY <1>3, <1>4

(* The first instruction of a program, if it is steady, runs on registers  *)
(* and memory as the program found them, however often it is retried, but  *)
(* for the part of a destination across two pages that it stored before it *)
(* was refused.                                                            *)
THEOREM FailedAttemptsHarmless == Spec => []FirstInv
<1>1. Init /\ ProgramInv => FirstInv
  <2> SUFFICES ASSUME Init, ProgramInv PROVE FirstInv
    OBVIOUS
  <2>1. pc = 1 /\ cpu = start /\ cpu.reason = "none" /\ cpu \in CpuStates
    BY DEF Init, ProgramInv
  <2>2. Resembles(prog[1], repairs, start, cpu)
    BY <2>1 DEF Resembles, MemoryResembles
  <2> QED BY <2>1, <2>2 DEF FirstInv
<1>2. FirstInv /\ ProgramInv /\ [Next]_mvars => FirstInv'
  <2> SUFFICES ASSUME FirstInv, ProgramInv, [Next]_mvars PROVE FirstInv'
    OBVIOUS
  <2>0. prog' = prog /\ start' = start
    BY DEF Next, Execute, Repair, mvars
  <2>1. pc' \in Nat \ {0} /\ (pc' = 1 => pc = 1)
    <3>1. pc' = pc \/ pc' = pc + 1
      BY DEF Next, Execute, Repair, mvars
    <3> QED BY <3>1 DEF FirstInv
  <2> DEFINE i == prog[1]
  <2>2. SUFFICES ASSUME pc' = 1, Steady(i)
                 PROVE  \/ cpu'.reason \in {"none", "page_fault"} /\ Resembles(i, repairs', start, cpu')
                        \/ cpu'.reason = "divide_error" /\ Attempted(i, repairs', start, cpu')
    BY <2>0, <2>1 DEF FirstInv
  <2>3. Decoded(i) /\ i.op \in IntegerOps /\ repairs \in Nat /\ pc = 1
    BY <2>1, <2>2, SteadyDecoded DEF ProgramInv
  <2>4. CASE Execute
    <3>1. cpu.reason = "none" /\ Resembles(i, repairs, start, cpu)
      BY <2>2, <2>3, <2>4 DEF Execute, FirstInv
    <3>2. cpu' = Step(cpu, i) /\ repairs' = repairs
      BY <2>3, <2>4 DEF Execute
    <3> HIDE DEF i
    <3>3. \/ cpu'.reason = "page_fault" /\ Resembles(i, repairs, start, cpu')
          \/ cpu'.reason \in {"none", "divide_error"} /\ Attempted(i, repairs, start, cpu')
      BY <2>2, <2>3, <3>1, <3>2, AttemptCases
    <3>4. cpu'.reason # "none"
      <4>1. Finished(cpu, i, cpu') => pc' = 2
        BY <2>3, <2>4 DEF Execute, i
      <4>2. cpu'.reason = "none" => Finished(cpu, i, cpu')
        BY <2>3, StringMovesApart DEF Finished
      <4> QED BY <2>2, <4>1, <4>2
    <3> QED BY <3>2, <3>3, <3>4
  <2>5. ASSUME NEW p \in {"ro", "rw"}, Repair(p)
        PROVE  cpu'.reason = "none" /\ Resembles(i, repairs', start, cpu')
    <3>1. cpu.reason = "page_fault" /\ repairs' = repairs + 1 /\ cpu.addr \in Addresses
          /\ cpu' = [cpu EXCEPT !.perm[cpu.addr] = p, !.reason = "none"]
      BY <2>5 DEF Repair
    <3>2. Resembles(i, repairs, start, cpu)
      BY <2>2, <2>3, <3>1 DEF FirstInv
    <3>3. cpu'.reason = "none" /\ cpu' \in CpuStates /\ cpu'.gpr = cpu.gpr /\ cpu'.mem = cpu.mem
          /\ cpu'.flags = cpu.flags /\ cpu'.rip = cpu.rip /\ cpu'.cs = cpu.cs
          /\ cpu'.perm = [cpu.perm EXCEPT ![cpu.addr] = p] /\ cpu.perm \in [Addresses -> Perms]
      <4>1. cpu \in CpuStates
        BY <3>2 DEF Resembles
      <4> DEFINE q == [cpu EXCEPT !.perm[cpu.addr] = p]
      <4>2. q \in CpuStates /\ q.gpr = cpu.gpr /\ q.mem = cpu.mem
            /\ q.flags = cpu.flags /\ q.rip = cpu.rip /\ q.cs = cpu.cs
            /\ q.perm = [cpu.perm EXCEPT ![cpu.addr] = p]
        BY <3>1, <4>1 DEF CpuStates, Perms, WholePerms
      <4>3. cpu' = [q EXCEPT !.reason = "none"]
        BY <3>1
      <4> HIDE DEF q
      <4> QED BY <4>1, <4>2, <4>3 DEF CpuStates
    <3>4. \A x : PermAt(cpu', x) \in Crossing => PermAt(cpu, x) \in Crossing
      BY <3>3 DEF PermAt, Crossing
    <3>5. MemoryResembles(i, start, cpu')
      BY <3>2, <3>3, <3>4 DEF Resembles, MemoryResembles
    <3>6. repairs' # 0
      BY <2>3, <3>1
    <3> QED BY <3>2, <3>3, <3>5, <3>6 DEF Resembles
  <2>6. CASE UNCHANGED mvars
    BY <2>2, <2>6 DEF FirstInv, mvars
  <2> QED BY <2>4, <2>5, <2>6 DEF Next
<1> QED
  BY <1>1, <1>2, ProgramsWellFormed, PTL DEF Spec

(* A program of one steady instruction ends with one attempt of it on the  *)
(* registers it started with and on the memory, but for the part of a      *)
(* destination across two pages that a refused attempt stored.             *)
THEOREM OneCompleteAttempt == Spec => []SingleInv
<1>1. Init => SingleInv
  BY DEF Init, SingleInv
<1>2. SingleInv /\ FirstInv /\ ProgramInv /\ [Next]_mvars => SingleInv'
  <2> SUFFICES ASSUME SingleInv, FirstInv, ProgramInv, [Next]_mvars, Len(prog') = 1, Steady(prog'[1]), pc' # 1
               PROVE  SingleInv'
    BY DEF SingleInv
  <2>0. prog' = prog /\ start' = start
    BY DEF Next, Execute, Repair, mvars
  <2> DEFINE i == prog[1]
  <2>1. Decoded(i) /\ i.op \in IntegerOps /\ Steady(i) /\ Len(prog) = 1 /\ repairs \in Nat
    BY <2>0, SteadyDecoded DEF ProgramInv
  <2>2. CASE Execute
    <3>1. pc = 1 /\ cpu.reason = "none" /\ Resembles(i, repairs, start, cpu)
      BY <2>1, <2>2 DEF Execute, FirstInv
    <3>2. cpu' = Step(cpu, i) /\ repairs' = repairs /\ pc' = IF Finished(cpu, i, cpu') THEN pc + 1 ELSE pc
      BY <2>2, <3>1 DEF Execute
    <3>3. pc' = 2 /\ cpu'.reason = "none"
      BY <2>0, <3>1, <3>2 DEF Finished
    <3> HIDE DEF i
    <3>4. Attempted(i, repairs, start, cpu')
      BY <3>1, <3>2 DEF Attempted
    <3> QED BY <2>0, <3>2, <3>3, <3>4 DEF SingleInv, i
  <2>3. ASSUME NEW p \in {"ro", "rw"}, Repair(p) PROVE SingleInv'
    <3>1. cpu.reason = "page_fault" /\ pc' = pc
      BY <2>3 DEF Repair
    <3> QED BY <2>1, <3>1 DEF SingleInv
  <2>4. CASE UNCHANGED mvars
    BY <2>4 DEF SingleInv, mvars
  <2> QED BY <2>2, <2>3, <2>4 DEF Next
<1> QED
  BY <1>1, <1>2, ProgramsWellFormed, FailedAttemptsHarmless, PTL DEF Spec

(* What the attempt computed from the resembling machine is what it would  *)
(* have computed from the start, if no destination was left half stored.   *)
LEMMA ResemblingValues ==
    ASSUME NEW i, NEW n, NEW s, NEW c, Resembles(i, n, s, c)
    PROVE  /\ memory_address(c, i) = memory_address(s, i)
           /\ c.mem = s.mem => \A o : ValueOf(c, i, o) = ValueOf(s, i, o)
           /\ c.reason = "none" /\ (n = 0 \/ (Restartable(i, s) /\ i.op \in {"adc", "sbb"})) => c.flags = s.flags
<1>1. memory_address(c, i) = memory_address(s, i)
  BY DEF Resembles, memory_address
<1>2. c.mem = s.mem => \A o : ValueOf(c, i, o) = ValueOf(s, i, o)
  BY <1>1 DEF Resembles, ValueAt, ValueOf
<1>3. c.reason = "none" /\ (n = 0 \/ (Restartable(i, s) /\ i.op \in {"adc", "sbb"})) => c.flags = s.flags
  BY DEF Resembles, Restartable
<1> QED
  BY <1>1, <1>2, <1>3

(* It was not, if this is the first attempt, if the instruction does not   *)
(* store what it reads, or if no operand is across two pages.              *)
LEMMA ResemblingMemory ==
    ASSUME NEW i, NEW n, NEW s, NEW c, Resembles(i, n, s, c), c.reason = "none",
           n = 0 \/ ~Storing(i) \/ (i.op \in Rereads /\ Restartable(i, s))
    PROVE  c.mem = s.mem
<1>1. CASE n = 0
  BY <1>1 DEF Resembles
<1>2. CASE ~Storing(i)
  BY <1>2 DEF Resembles, MemoryResembles
<1>3. CASE Storing(i) /\ i.op \in Rereads /\ Restartable(i, s)
  <2>1. \A a \in Addresses : s.perm[a] \notin Crossing
    BY <1>3 DEF Storing, Restartable, Whole
  <2>2. PermAt(s, memory_address(s, i)) \notin Crossing
    BY <2>1 DEF PermAt, Crossing
  <2> QED BY <2>2 DEF Resembles, MemoryResembles
<1> QED
  BY <1>1, <1>2, <1>3

(* What is exact seen from the machine of the attempt is exact seen from   *)
(* the start.                                                              *)
LEMMA SumExactCarries ==
    ASSUME NEW i, NEW s, NEW u, NEW t, NEW v,
           memory_address(u, i) = memory_address(s, i), \A o : ValueOf(u, i, o) = ValueOf(s, i, o),
           i.op \in {"adc", "sbb"} => u.flags = s.flags, i.op \in {"inc", "dec"} => u.flags.cf = s.flags.cf,
           v.gpr = t.gpr, v.mem = t.mem, v.flags = t.flags, SumExact(i, u, t)
    PROVE  SumExact(i, s, v)
<1>1. Left(i, u) = Left(i, s) /\ Right(i, u) = Right(i, s)
  BY DEF Left, Right
<1>2. CarryIn(i, u) = CarryIn(i, s)
  BY DEF CarryIn, CF
<1>3. SumValue(i, u) = SumValue(i, s)
  BY <1>1, <1>2 DEF SumValue
<1>4. SumFlags(i, u) = SumFlags(i, s)
  <2>1. CASE i.op \in {"inc", "dec"}
    BY <1>1, <1>2, <1>3, <2>1 DEF SumFlags
  <2>2. CASE i.op \notin {"inc", "dec"}
    BY <1>1, <1>2, <1>3, <2>2 DEF SumFlags
  <2> QED BY <2>1, <2>2
<1>5. ValueAt(v, i, i.dst, memory_address(s, i)) = ValueAt(t, i, i.dst, memory_address(u, i))
  BY DEF ValueAt
<1> QED
  BY <1>1, <1>3, <1>4, <1>5 DEF SumExact

(* A program of one addition or subtraction ends with the integer result   *)
(* and its flags, whatever faulted and was retried before (add.cpp to      *)
(* xadd.cpp, flags.hpp).                                                   *)
THEOREM ArithmeticIsExact == Spec => []ArithmeticExact
<1>1. ProgramInv /\ FirstInv /\ SingleInv => ArithmeticExact
  <2> SUFFICES ASSUME ProgramInv, FirstInv, SingleInv, Single(AdditionOps \ {"not"}), repairs = 0 \/ Restartable(prog[1], start),
                      prog[1].op = "xadd" => prog[1].dst # prog[1].src
               PROVE  SumExact(prog[1], start, cpu)
    BY DEF ArithmeticExact
  <2> DEFINE i == prog[1]
  <2>1. i.op \in AdditionOps \ {"not"} /\ Len(prog) = 1 /\ pc > 1
    BY DEF Single, Done
  <2>2. Steady(i)
    BY <2>1 DEF Steady, SteadyOps, IntegerWriters, IntegerReaders, AdditionOps
  <2>3. Decoded(i) /\ i.op \in IntegerOps /\ cpu.reason = "none" /\ Attempted(i, repairs, start, cpu)
    BY <2>1, <2>2, SteadyDecoded DEF SingleInv
  <2> HIDE DEF i
  <2>4. PICK c : Resembles(i, repairs, start, c) /\ c.reason = "none" /\ cpu = Step(c, i)
    BY <2>3 DEF Attempted
  <2> DEFINE u == Ready(c)
             t == Handler(u, i)
  <2>5. c \in CpuStates
    BY <2>4 DEF Resembles
  <2>6. u \in CpuStates /\ u.reason = "none" /\ Resembles(i, repairs, start, u)
    BY <2>4, <2>5, ReadyParts, ReadyResembles
  <2>7. t = AdditionHandler(u, i)
    BY <2>1, <2>3, OpTables DEF Handler, IntegerHandler
  <2>8. t.reason = "none"
    <3>1. t.reason # "none" => cpu = t
      BY <2>4, <2>5, StepIsHandler
    <3> QED BY <2>3, <3>1
  <2> HIDE DEF u, t
  <2>9. Completed(u, t) /\ SumExact(i, u, t)
    <3>1. ~Failed(u, i, t)
      BY <2>6, <2>8 DEF Failed, CpuStates
    <3> QED BY <2>1, <2>3, <2>6, <2>7, <3>1, AdditionOutcome DEF i
  <2>10. cpu.gpr = t.gpr /\ cpu.mem = t.mem /\ cpu.flags = t.flags
    BY <2>4, <2>5, <2>8, <2>9, StepIsHandler DEF u, t, Completed
  <2>11. /\ memory_address(u, i) = memory_address(start, i) /\ \A o : ValueOf(u, i, o) = ValueOf(start, i, o)
         /\ i.op \in {"adc", "sbb"} => u.flags = start.flags
         /\ i.op \in {"inc", "dec"} => u.flags.cf = start.flags.cf
    <3>1. i.op \in {"adc", "sbb"} => repairs = 0 \/ (Restartable(i, start) /\ i.op \in {"adc", "sbb"})
      BY DEF i
    <3>2. repairs = 0 \/ ~Storing(i) \/ (i.op \in Rereads /\ Restartable(i, start))
      <4>1. i.op = "cmp" \/ i.op \in Rereads
        BY <2>1 DEF Rereads
      <4>2. i.op = "cmp" => ~Storing(i)
        BY DEF Storing, LoadOnlyOps, IntegerReaders
      <4> QED BY <4>1, <4>2 DEF i
    <3>3. u.mem = start.mem
      BY <2>6, <3>2, ResemblingMemory
    <3> QED BY <2>6, <3>1, <3>3, ResemblingValues DEF Resembles
  <2>12. SumExact(i, start, cpu)
    BY <2>9, <2>10, <2>11, SumExactCarries
  <2> QED BY <2>12 DEF i
<1> QED
  BY <1>1, ProgramsWellFormed, FailedAttemptsHarmless, OneCompleteAttempt, PTL

(* What MulDivOutcome says of results depends on registers and flags.      *)
LEMMA ProductCarries ==
    ASSUME NEW i, NEW s, NEW u, NEW t, NEW v, u.gpr = s.gpr, v.gpr = t.gpr, v.flags = t.flags,
           \A o : ValueOf(u, i, o) = ValueOf(s, i, o)
    PROVE  /\ i.src = "none" \/ i.dst \in Gprs => (ProductExact(i, u, t) => ProductExact(i, s, v))
           /\ QuotientExact(i, u, t) => QuotientExact(i, s, v)
           /\ NoQuotient(i, u) => NoQuotient(i, s)
<1>1. \A a, b, w : a.gpr = b.gpr => Dividend(a, w) = Dividend(b, w)
  BY DEF Dividend, read_register
<1>2. Wide(i, u) = Wide(i, s) /\ Wide(i, v) = Wide(i, t)
  BY <1>1 DEF Wide
<1>3. Low(i, u) = Low(i, s) /\ High(i, u) = High(i, s)
  BY DEF Low, High
<1>4. ValueOf(v, i, "ax") = ValueOf(t, i, "ax") /\ ValueOf(v, i, "dx") = ValueOf(t, i, "dx")
  BY DEF ValueOf, ValueAt, Gprs, HighBytes
<1>5. Low(i, v) = Low(i, t) /\ High(i, v) = High(i, t)
  BY <1>4 DEF Low, High
<1>6. i.dst \in Gprs => ValueOf(v, i, i.dst) = ValueOf(t, i, i.dst)
  BY DEF ValueOf, ValueAt, Gprs, HighBytes
<1>7. NoQuotient(i, u) => NoQuotient(i, s)
  BY <1>2 DEF NoQuotient
<1>8. QuotientExact(i, u, t) => QuotientExact(i, s, v)
  BY <1>2, <1>5 DEF QuotientExact
<1>9. i.src = "none" \/ i.dst \in Gprs => (ProductExact(i, u, t) => ProductExact(i, s, v))
  BY <1>2, <1>3, <1>6 DEF ProductExact
<1> QED
  BY <1>7, <1>8, <1>9

(* A program of one multiplication or division ends with the product, or   *)
(* with quotient and remainder, or with a divide error because there is    *)
(* none, whatever faulted and was retried before (mul.cpp, imul.cpp,       *)
(* div.cpp, idiv.cpp).                                                     *)
THEOREM MulDivIsExact == Spec => []MulDivExact
<1>1. ProgramInv /\ FirstInv /\ SingleInv => MulDivExact
  <2> SUFFICES ASSUME ProgramInv, FirstInv, SingleInv PROVE MulDivExact
    OBVIOUS
  <2> DEFINE i == prog[1]
  <2>1. ASSUME i.op \in MulDivOps, Len(prog) = 1, Done \/ cpu.reason = "divide_error"
        PROVE  /\ Done /\ i.op \in {"mul", "imul"} => ProductExact(i, start, cpu)
               /\ Done /\ i.op \in {"div", "idiv"} => QuotientExact(i, start, cpu)
               /\ cpu.reason = "divide_error" /\ i.op \in {"div", "idiv"} => NoQuotient(i, start)
    <3>1. Steady(i)
      BY <2>1 DEF Steady, SteadyOps, MulDivOps
    <3>2. Decoded(i) /\ i.op \in IntegerOps
      BY <3>1, SteadyDecoded
    <3>3. Attempted(i, repairs, start, cpu) /\ cpu.reason \in {"none", "divide_error"} /\ (Done => cpu.reason = "none")
      <4>1. CASE pc = 1
        <5>1. ~Done /\ cpu.reason = "divide_error"
          BY <2>1, <4>1 DEF Done
        <5> QED BY <3>1, <4>1, <5>1 DEF FirstInv
      <4>2. CASE pc # 1
        BY <2>1, <3>1, <4>2 DEF SingleInv
      <4> QED BY <4>1, <4>2
    <3> HIDE DEF i
    <3>4. PICK c : Resembles(i, repairs, start, c) /\ c.reason = "none" /\ cpu = Step(c, i)
      BY <3>3 DEF Attempted
    <3> DEFINE u == Ready(c)
               t == Handler(u, i)
    <3>5. c \in CpuStates
      BY <3>4 DEF Resembles
    <3>6. u \in CpuStates /\ u.reason = "none" /\ Resembles(i, repairs, start, u)
      BY <3>4, <3>5, ReadyParts, ReadyResembles
    <3>7. t = MulDivHandler(u, i)
      BY <2>1, <3>2, OpTables DEF Handler, IntegerHandler
    <3>8. t.reason # "none" => cpu = t
      BY <3>4, <3>5, StepIsHandler
    <3>9. t = Handler(Ready(c), i)
      OBVIOUS
    <3> HIDE DEF u, t
    <3>10. MulDivOutcome(u, i, t)
      BY <2>1, <3>2, <3>6, <3>7, MulDivAttempt
    <3>11. \A o : ValueOf(u, i, o) = ValueOf(start, i, o)
      <4>1. ~Storing(i)
        BY <2>1 DEF Storing, LoadOnlyOps, i
      <4>2. u.mem = start.mem
        BY <3>6, <4>1, ResemblingMemory
      <4> QED BY <3>6, <4>2, ResemblingValues
    <3>12. u.gpr = start.gpr
      BY <3>6 DEF Resembles
    <3>13. CASE t.reason = "none"
      <4>1. t \in CpuStates /\ (i.op \in {"mul", "imul"} => ProductExact(i, u, t))
            /\ (i.op \in {"div", "idiv"} => QuotientExact(i, u, t))
        <5>1. ~Failed(u, i, t)
          BY <3>6, <3>13 DEF Failed, CpuStates
        <5> QED BY <3>10, <3>13, <5>1 DEF MulDivOutcome, Completed
      <4>2. cpu.gpr = t.gpr /\ cpu.flags = t.flags /\ cpu.reason = "none"
        BY <3>4, <3>5, <3>9, <3>13, <4>1, StepIsHandler
      <4>3. i.src = "none" \/ i.dst \in Gprs
        BY <2>1, <3>2 DEF Decoded
      <4>4. /\ ProductExact(i, u, t) => ProductExact(i, start, cpu)
            /\ QuotientExact(i, u, t) => QuotientExact(i, start, cpu)
        BY <3>11, <3>12, <4>2, <4>3, ProductCarries
      <4> QED BY <4>1, <4>2, <4>4
    <3>14. CASE t.reason # "none"
      <4>1. cpu.reason = "divide_error" /\ ~Done /\ t.reason = "divide_error"
        BY <3>3, <3>8, <3>14
      <4>2. ~Failed(u, i, t)
        BY <3>6, <4>1 DEF Failed, CpuStates
      <4>3. NoQuotient(i, u)
        BY <3>10, <4>1, <4>2 DEF MulDivOutcome, Completed
      <4>4. NoQuotient(i, start)
        BY <3>11, <3>12, <4>3, ProductCarries
      <4> QED BY <4>1, <4>4
    <3> QED BY <3>13, <3>14
  <2> QED BY <2>1 DEF MulDivExact, Single, MulDivOps
<1> QED
  BY <1>1, ProgramsWellFormed, FailedAttemptsHarmless, OneCompleteAttempt, PTL

(* What RegisterExact says depends on the registers alone.                 *)
LEMMA RegisterExactCarries ==
    ASSUME NEW i, NEW s, NEW u, NEW t, NEW v, u.gpr = s.gpr, v.gpr = t.gpr, RegisterExact(i, u, t)
    PROVE  RegisterExact(i, s, v)
BY DEF RegisterExact

(* One integer instruction changes of its registers what the rule for      *)
(* partial registers says, whatever faulted and was retried before         *)
(* (write_register in handler_helpers.cpp and every handler that uses it). *)
THEOREM PartialRegistersKept == Spec => []IntegerRegisterRule
<1>1. ProgramInv /\ FirstInv /\ SingleInv => IntegerRegisterRule
  <2> SUFFICES ASSUME ProgramInv, FirstInv, SingleInv, NEW i, i = prog[1], Done, Len(prog) = 1
               PROVE  /\ i.op \in IntegerWriters => RegisterExact(i, start, cpu)
                      /\ i.op \in IntegerReaders => cpu.gpr = start.gpr
    BY DEF IntegerRegisterRule, RegisterRule, Single
  <2>1. CASE ~Steady(i)
    <3>1. i.op \in IntegerWriters \cup IntegerReaders => i.op = "pop" /\ i.dst = "mem"
      BY <2>1 DEF Steady, SteadyOps
    <3>2. i.dst = "mem" => RegisterExact(i, start, cpu)
      BY DEF RegisterExact, Gprs, HighBytes
    <3>3. "pop" \notin IntegerReaders
      BY DEF IntegerReaders
    <3> QED BY <3>1, <3>2, <3>3
  <2>3. CASE i.op \in MulDivOps
    BY <2>3 DEF MulDivOps, IntegerWriters, IntegerReaders, AdditionOps, ShiftRotateOps, DoubleShifts
  <2>2. CASE Steady(i) /\ i.op \notin MulDivOps
    <3>1. Decoded(i) /\ i.op \in IntegerOps /\ cpu.reason = "none" /\ Attempted(i, repairs, start, cpu)
      BY <2>2, SteadyDecoded DEF SingleInv, Done
    <3>2. PICK c : Resembles(i, repairs, start, c) /\ c.reason = "none" /\ cpu = Step(c, i)
      BY <3>1 DEF Attempted
    <3> DEFINE u == Ready(c)
               t == Handler(u, i)
    <3>3. c \in CpuStates
      BY <3>2 DEF Resembles
    <3>4. u \in CpuStates /\ u.reason = "none" /\ u.gpr = start.gpr
      BY <3>2, <3>3, ReadyParts DEF Resembles
    <3>5. t.reason = "none"
      <4>1. t.reason # "none" => cpu = t
        BY <3>2, <3>3, StepIsHandler
      <4> QED BY <3>1, <4>1
    <3>6. t = Handler(u, i)
      OBVIOUS
    <3> HIDE DEF u, t
    <3>7. /\ t \in CpuStates /\ t.reason = "none"
          /\ i.op \in IntegerWriters => RegisterExact(i, u, t)
          /\ i.op \in IntegerReaders => t.gpr = u.gpr
      <4>1. ~Failed(u, i, t)
        BY <3>4, <3>5 DEF Failed, CpuStates
      <4>2. RegisterOutcome(u, i, t)
        BY <2>2, <3>1, <3>4, <3>6, SteadyOutcome
      <4> QED BY <4>1, <4>2 DEF RegisterOutcome
    <3>8. cpu.gpr = t.gpr
      BY <3>2, <3>3, <3>7, StepIsHandler DEF u, t
    <3> QED BY <3>4, <3>7, <3>8, RegisterExactCarries
  <2> QED BY <2>1, <2>2, <2>3
<1> QED
  BY <1>1, ProgramsWellFormed, FailedAttemptsHarmless, OneCompleteAttempt, PTL

-----------------------------------------------------------------------------
(* Comparisons and what looks at their flags. The conditions, spelled out  *)
(* by the jumps or evaluated by eval_cond, are the relations of the        *)
(* numbers compared.                                                       *)
LEMMA DifferenceSign ==
    ASSUME NEW w \in Widths, NEW l \in 0 .. Modulus(w) - 1, NEW r \in 0 .. Modulus(w) - 1,
           NEW v, v = (l - r) % Modulus(w)
    PROVE  /\ v = 0 <=> l = r
           /\ Msb(w, v) <=> AsInt(w, v) < 0
           /\ FitsSigned(w, AsInt(w, l) - AsInt(w, r)) => AsInt(w, v) = AsInt(w, l) - AsInt(w, r)
           /\ ~FitsSigned(w, AsInt(w, l) - AsInt(w, r)) =>
                  (AsInt(w, v) < 0 <=> AsInt(w, l) >= AsInt(w, r))
           /\ AsInt(w, l) = AsInt(w, r) <=> l = r
<1> DEFINE m == Modulus(w)
<1>1. PICK h \in Nat \ {0} : m = 2 * h
  BY Moduli, Zenon
<1>2. m \in Nat \ {0} /\ l \in 0 .. m - 1 /\ r \in 0 .. m - 1
  BY ModulusType
<1> HIDE DEF m
<1>3. m \div 2 = h
  BY <1>1
<1>4. v = IF l >= r THEN l - r ELSE l - r + m
  <2> DEFINE x == l - r
  <2>1. v = x % m /\ x \in Int
    BY <1>2 DEF m
  <2>2. (l >= r => x \in 0 .. m - 1) /\ (~(l >= r) => x \in -m .. -1)
    BY <1>2
  <2>3. (x \in 0 .. m - 1 => x % m = x) /\ (x \in -m .. -1 => x % m = x + m)
    <3> HIDE DEF x
    <3> QED BY <1>2, <2>1, WrapOnce
  <2> QED BY <2>1, <2>2, <2>3
<1>5. \A x : Msb(w, x) <=> x >= h
  BY <1>3 DEF Msb, Sign, m
<1>6. \A x : AsInt(w, x) = IF x >= h THEN x - m ELSE x
  BY <1>3 DEF AsInt, Signed, Sign, m
<1>7. \A x : FitsSigned(w, x) <=> x \in -h .. h - 1
  BY <1>3 DEF FitsSigned, m
<1> QED
  BY <1>1, <1>2, <1>4, <1>5, <1>6, <1>7

(* On flags that say what a subtraction did, each condition is its         *)
(* relation.                                                               *)
LEMMA CompareConditions ==
    ASSUME NEW w \in Widths, NEW l \in 0 .. Modulus(w) - 1, NEW r \in 0 .. Modulus(w) - 1,
           NEW v, v = (l - r) % Modulus(w), NEW f \in Flags,
           f.cf = (l - r \notin 0 .. Modulus(w) - 1), f.of = ~FitsSigned(w, AsInt(w, l) - AsInt(w, r)),
           f.zf = (v = 0), f.sf = (AsInt(w, v) < 0), f.pf = even_parity(v), NEW cond \in Conditions
    PROVE  /\ Taken(f, cond) <=> Relation(w, cond, l, r)
           /\ eval_cond(f, cond) <=> Relation(w, cond, l, r)
<1> DEFINE sl == AsInt(w, l)
           sr == AsInt(w, r)
           fits == FitsSigned(w, sl - sr)
           neg == AsInt(w, v) < 0
           even == even_parity(v)
<1>1. sl \in Int /\ sr \in Int /\ AsInt(w, v) \in Int /\ l \in Int /\ r \in Int
  <2>1. Modulus(w) \in Int
    BY ModulusType
  <2>2. v \in Int
    BY <2>1, ModulusType
  <2> QED BY <2>1, <2>2 DEF AsInt, Signed
<1>2. f.cf <=> l < r
  <2>1. Modulus(w) \in Nat
    BY ModulusType
  <2>2. f.cf <=> l - r \notin 0 .. Modulus(w) - 1
    BY Zenon
  <2>3. l - r \notin 0 .. Modulus(w) - 1 <=> l < r
    BY <1>1, <2>1
  <2> QED BY <2>2, <2>3, Zenon
<1>3. /\ v = 0 <=> l = r
      /\ Msb(w, v) <=> neg
      /\ fits => AsInt(w, v) = sl - sr
      /\ ~fits => (neg <=> sl >= sr)
      /\ sl = sr <=> l = r
  BY DifferenceSign
<1> HIDE DEF sl, sr
<1>4. (neg # ~fits) <=> sl < sr
  <2>1. CASE fits
    BY <1>1, <1>3, <2>1
  <2>2. CASE ~fits
    BY <1>1, <1>3, <2>2
  <2> QED BY <2>1, <2>2
<1>5. /\ f.zf <=> l = r
      /\ f.sf <=> neg
      /\ f.of <=> ~fits
      /\ f.pf <=> even
      /\ f.sf # f.of <=> sl < sr
  BY <1>3, <1>4 DEF Flags, sl, sr
<1>6. v = (l - r) % Modulus(w)
  OBVIOUS
<1>7. /\ l >= r <=> ~(l < r)
      /\ l <= r <=> l < r \/ l = r
      /\ l > r <=> ~(l < r) /\ ~(l = r)
      /\ sl >= sr <=> ~(sl < sr)
      /\ sl <= sr <=> sl < sr \/ l = r
      /\ sl > sr <=> ~(sl < sr) /\ ~(l = r)
  BY <1>1, <1>3
<1>8. Relation(w, cond, l, r) <=>
        CASE cond = "b" -> f.cf      [] cond = "ae" -> ~f.cf
          [] cond = "be" -> f.cf \/ f.zf    [] cond = "a" -> ~f.cf /\ ~f.zf
          [] cond = "e" -> f.zf      [] cond = "ne" -> ~f.zf
          [] cond = "l" -> f.sf # f.of    [] cond = "ge" -> ~(f.sf # f.of)
          [] cond = "le" -> f.sf # f.of \/ f.zf   [] cond = "g"  -> ~(f.sf # f.of) /\ ~f.zf
          [] cond = "o" -> f.of      [] cond = "no" -> ~f.of
          [] cond = "s" -> f.sf      [] cond = "ns" -> ~f.sf
          [] cond = "p" -> f.pf      [] cond = "np" -> ~f.pf
  <2> HIDE DEF neg, fits, even
  <2>1. CASE cond = "b"
    BY <1>2, <2>1 DEF Relation
  <2>2. CASE cond = "ae"
    BY <1>2, <1>7, <2>2 DEF Relation
  <2>3. CASE cond = "be"
    BY <1>2, <1>5, <1>7, <2>3 DEF Relation
  <2>4. CASE cond = "a"
    BY <1>2, <1>5, <1>7, <2>4 DEF Relation
  <2>5. CASE cond \in {"e", "ne"}
    BY <1>5, <2>5 DEF Relation
  <2>6. CASE cond \in {"l", "ge"}
    BY <1>5, <1>7, <2>6 DEF Relation, sl, sr
  <2>7. CASE cond \in {"le", "g"}
    BY <1>5, <1>7, <2>7 DEF Relation, sl, sr
  <2>8. CASE cond \in {"o", "no"}
    BY <1>5, <2>8 DEF Relation, sl, sr, fits
  <2>9. CASE cond \in {"s", "ns"}
    BY <1>3, <1>5, <1>6, <2>9 DEF Relation
  <2>10. CASE cond \in {"p", "np"}
    BY <1>5, <1>6, <2>10 DEF Relation, even
  <2> QED BY <2>1, <2>2, <2>3, <2>4, <2>5, <2>6, <2>7, <2>8, <2>9, <2>10 DEF Conditions
<1> DEFINE C == CASE cond = "b" -> f.cf      [] cond = "ae" -> ~f.cf
                  [] cond = "be" -> f.cf \/ f.zf    [] cond = "a" -> ~f.cf /\ ~f.zf
                  [] cond = "e" -> f.zf      [] cond = "ne" -> ~f.zf
                  [] cond = "l" -> f.sf # f.of    [] cond = "ge" -> ~(f.sf # f.of)
                  [] cond = "le" -> f.sf # f.of \/ f.zf   [] cond = "g"  -> ~(f.sf # f.of) /\ ~f.zf
                  [] cond = "o" -> f.of      [] cond = "no" -> ~f.of
                  [] cond = "s" -> f.sf      [] cond = "ns" -> ~f.sf
                  [] cond = "p" -> f.pf      [] cond = "np" -> ~f.pf
<1>9. f.cf \in BOOLEAN /\ f.zf \in BOOLEAN /\ f.sf \in BOOLEAN /\ f.of \in BOOLEAN /\ f.pf \in BOOLEAN
  BY DEF Flags
<1>10. (Taken(f, cond) <=> C) /\ (eval_cond(f, cond) <=> C)
  <2>1. CASE cond \in {"b", "ae"}
    BY <1>9, <2>1 DEF Taken, eval_cond, JB, JAE
  <2>2. CASE cond \in {"be", "a"}
    BY <1>9, <2>2 DEF Taken, eval_cond, JBE, JA
  <2>3. CASE cond \in {"e", "ne"}
    BY <1>9, <2>3 DEF Taken, eval_cond, JE, JNE
  <2>4. CASE cond \in {"l", "ge"}
    BY <1>9, <2>4 DEF Taken, eval_cond, JL, JGE
  <2>5. CASE cond \in {"le", "g"}
    BY <1>9, <2>5 DEF Taken, eval_cond, JLE, JG
  <2>6. CASE cond \in {"o", "no"}
    BY <1>9, <2>6 DEF Taken, eval_cond, JO, JNO
  <2>7. CASE cond \in {"s", "ns"}
    BY <1>9, <2>7 DEF Taken, eval_cond, JS, JNS
  <2>8. CASE cond \in {"p", "np"}
    BY <1>9, <2>8 DEF Taken, eval_cond, JP, JNP
  <2> QED BY <2>1, <2>2, <2>3, <2>4, <2>5, <2>6, <2>7, <2>8 DEF Conditions
<1>11. Relation(w, cond, l, r) <=> C
  BY <1>8
<1> HIDE DEF C
<1> QED
  BY <1>10, <1>11

(* The machine t behind comparison i of the operands of machine s.         *)
Compared(i, s, t) ==
    /\ t \in CpuStates /\ t.gpr = s.gpr /\ t.mem = s.mem /\ t.rip = s.rip + 1 /\ t.flags = SumFlags(i, s)
    /\ ValueOf(s, i, i.dst) \in 0 .. Modulus(i.w) - 1 /\ ValueOf(s, i, i.src) \in 0 .. Modulus(i.w) - 1

(* So it is after CMP.                                                     *)
LEMMA ComparedConditions ==
    ASSUME NEW i, Decoded(i), i.op = "cmp", NEW s, NEW t, Compared(i, s, t), NEW cond \in Conditions
    PROVE  LET holds == Relation(i.w, cond, ValueOf(s, i, i.dst), ValueOf(s, i, i.src))
           IN (Taken(t.flags, cond) <=> holds) /\ (eval_cond(t.flags, cond) <=> holds)
<1> DEFINE w == i.w
           l == ValueOf(s, i, i.dst)
           r == ValueOf(s, i, i.src)
           v == (l - r) % Modulus(w)
           f == t.flags
<1>1. w \in Widths
  BY DEF Decoded, Instructions
<1>2. l \in 0 .. Modulus(w) - 1 /\ r \in 0 .. Modulus(w) - 1 /\ f = SumFlags(i, s) /\ f \in Flags
  BY DEF Compared, CpuStates
<1>3. Left(i, s) = l /\ Right(i, s) = r /\ CarryIn(i, s) = 0
  BY DEF Left, Right, CarryIn
<1>4. \A a, b : Sum(i, a, b, 0) = a - b - 0
  BY DEF Sum
<1>5. l - r - 0 = l - r /\ AsInt(w, l) - AsInt(w, r) - 0 = AsInt(w, l) - AsInt(w, r)
  <2>1. Modulus(w) \in Int /\ l \in Int /\ r \in Int
    BY <1>1, <1>2, ModulusType
  <2> HIDE DEF l, r, w
  <2>2. AsInt(w, l) \in Int /\ AsInt(w, r) \in Int
    BY <2>1 DEF AsInt, Signed
  <2> QED BY <2>1, <2>2
<1> HIDE DEF l, r, f
<1>6. SumValue(i, s) = v
  BY <1>3, <1>4, <1>5 DEF SumValue
<1>7. /\ f.cf = (l - r \notin 0 .. Modulus(w) - 1) /\ f.of = ~FitsSigned(w, AsInt(w, l) - AsInt(w, r))
      /\ f.zf = (v = 0) /\ f.sf = (AsInt(w, v) < 0) /\ f.pf = even_parity(v)
  <2> HIDE DEF v
  <2> QED BY <1>2, <1>3, <1>4, <1>5, <1>6 DEF SumFlags
<1>8. v = (l - r) % Modulus(w)
  OBVIOUS
<1> HIDE DEF v, w
<1>9. (Taken(f, cond) <=> Relation(w, cond, l, r)) /\ (eval_cond(f, cond) <=> Relation(w, cond, l, r))
  BY <1>1, <1>2, <1>7, <1>8, CompareConditions
<1> QED
  BY <1>9 DEF f, l, r, w

(* A CMP that completes leaves such a machine.                             *)
LEMMA CompareOutcome ==
    ASSUME NEW c \in CpuStates, NEW i, Decoded(i), i.op = "cmp", NEW t, t = Step(c, i), t.reason = "none"
    PROVE  Compared(i, c, t)
<1> DEFINE s == Ready(c)
           u == Handler(s, i)
           w == i.w
           dr == read_operand(s, i, i.dst, w)
           sr == read_operand(s, i, i.src, w)
<1>1. s \in CpuStates /\ s.reason = "none" /\ s.gpr = c.gpr /\ s.mem = c.mem /\ s.rip = c.rip /\ s.taken = FALSE
  BY ReadyParts
<1>2. u = AdditionHandler(s, i)
  BY OpTables DEF Handler, IntegerHandler, AdditionOps
<1>3. u.reason = "none"
  BY StepIsHandler
<1>4. u = CMP(s, i)
  BY <1>2 DEF AdditionHandler
<1>5. dr.reason = "none" /\ sr.reason = "none"
  <2>1. dr.reason # "none" => u = [s EXCEPT !.reason = dr.reason, !.addr = dr.addr]
    BY <1>4 DEF CMP, Operands, With
  <2>2. dr.reason = "none" /\ sr.reason # "none" => u = [s EXCEPT !.reason = sr.reason, !.addr = sr.addr]
    BY <1>4 DEF CMP, Operands, With
  <2> HIDE DEF s, u, dr, sr
  <2>3. [s EXCEPT !.reason = dr.reason, !.addr = dr.addr].reason = dr.reason
    BY <1>1 DEF CpuStates
  <2>4. [s EXCEPT !.reason = sr.reason, !.addr = sr.addr].reason = sr.reason
    BY <1>1 DEF CpuStates
  <2>5. dr.reason = "none"
    BY <1>3, <2>1, <2>3
  <2>6. sr.reason = "none"
    BY <1>3, <2>2, <2>4, <2>5
  <2> QED BY <2>5, <2>6
<1>6. i \in Instructions /\ w \in Widths /\ i.dst \in Readable(w) /\ i.src \in Readable(w)
  BY DEF Decoded, Instructions
<1>7. dr = read_operand(s, i, i.dst, w) /\ sr = read_operand(s, i, i.src, w) /\ u = Handler(s, i)
  OBVIOUS
<1> HIDE DEF s, u, w, dr, sr
<1>8. ValueOf(s, i, i.dst) \in 0 .. Modulus(w) - 1 /\ ValueOf(s, i, i.src) \in 0 .. Modulus(w) - 1
  <2>1. Loaded(s, i, i.dst, w, dr) \/ Unreadable(s, i, i.dst, dr)
    BY <1>1, <1>6, <1>7, ReadOperand
  <2>2. Loaded(s, i, i.src, w, sr) \/ Unreadable(s, i, i.src, sr)
    BY <1>1, <1>6, <1>7, ReadOperand
  <2> QED BY <1>5, <2>1, <2>2, ValueIsOperand DEF Loaded, Unreadable, w
<1>9. Completed(s, u) /\ SumExact(i, s, u) /\ u.gpr = s.gpr /\ u.mem = s.mem
  <2>1. ~Failed(s, i, u)
    BY <1>1, <1>3 DEF Failed, CpuStates
  <2>2. i.op \in AdditionOps \ {"not"} /\ i.op # "xadd"
    BY DEF AdditionOps
  <2> QED BY <1>1, <1>2, <2>1, <2>2, AdditionOutcome
<1>10. t \in CpuStates /\ t.gpr = u.gpr /\ t.mem = u.mem /\ t.flags = u.flags /\ t.rip = c.rip + 1
  BY <1>1, <1>3, <1>7, <1>9, StepIsHandler DEF Completed, s
<1>11. /\ memory_address(s, i) = memory_address(c, i) /\ \A o : ValueOf(s, i, o) = ValueOf(c, i, o)
  BY <1>1 DEF memory_address, ValueOf, ValueAt
<1>12. SumExact(i, c, t)
  <2>1. i.op \notin {"adc", "sbb", "inc", "dec"}
    OBVIOUS
  <2> QED BY <1>9, <1>10, <1>11, <2>1, SumExactCarries
<1> QED
  BY <1>1, <1>8, <1>9, <1>10, <1>11, <1>12 DEF Compared, SumExact, w

(* What JCC, SETCC and CMOVCC do when the condition holds, or does not.    *)
Consumed(i, s, holds, t) ==
    CASE i.op = "jcc"   -> t.rip = IF holds THEN i.target ELSE s.rip + 1
      [] i.op = "setcc" -> ValueOf(t, [i EXCEPT !.w = 1], i.dst) = B(holds)
      [] i.op = "cmov"  -> ValueOf(t, i, i.dst) = ValueOf(s, i, IF holds THEN i.src ELSE i.dst)
Consumers == {"jcc", "setcc", "cmov"}
Holding(i, s) == IF i.op = "jcc" THEN Taken(s.flags, i.cond) ELSE eval_cond(s.flags, i.cond)
Untouched(s, t) ==
    t \in CpuStates /\ t.reason = "page_fault" /\ t.gpr = s.gpr /\ t.mem = s.mem /\ t.flags = s.flags /\ t.rip = s.rip

(* Jcc never fails.                                                        *)
LEMMA JumpConsumes ==
    ASSUME NEW c \in CpuStates, NEW i, Decoded(i), i.op = "jcc", NEW t, t = Step(c, i)
    PROVE  t.reason = "none" /\ Consumed(i, c, Holding(i, c), t)
<1> DEFINE s == Ready(c)
           u == Handler(s, i)
<1>1. s \in CpuStates /\ s.reason = "none" /\ s.flags = c.flags /\ s.rip = c.rip /\ s.taken = FALSE
  BY ReadyParts
<1>2. i.target \in Nat
  BY DEF Decoded
<1>3. u = IF Taken(s.flags, i.cond) THEN Jump(s, i.target) ELSE s
  <2>1. u = BranchHandler(s, i)
    BY OpTables DEF Handler, IntegerHandler, BranchOps
  <2> QED BY <2>1 DEF BranchHandler, Jcc, LoopOps
<1> HIDE DEF s
<1>4. Jump(s, i.target) \in CpuStates /\ Jump(s, i.target).reason = "none" /\ Jump(s, i.target).taken = TRUE
      /\ Jump(s, i.target).rip = i.target
  BY <1>1, <1>2 DEF Jump, CpuStates
<1>5. u \in CpuStates /\ u.reason = "none" /\ u.taken = (IF Taken(s.flags, i.cond) THEN TRUE ELSE FALSE)
      /\ u.rip = (IF Taken(s.flags, i.cond) THEN i.target ELSE c.rip)
  BY <1>1, <1>3, <1>4
<1>6. u = Handler(Ready(c), i)
  BY DEF s
<1> HIDE DEF u
<1>7. t.reason = "none" /\ t.rip = IF u.taken THEN u.rip ELSE u.rip + 1
  <2>1. u.reason = "none" /\ u \in CpuStates
    BY <1>5
  <2>2. Step(c, i).reason = "none" /\ Step(c, i).rip = IF u.taken THEN u.rip ELSE u.rip + 1
    BY <1>6, <2>1, StepIsHandler
  <2> QED BY <2>2
<1> QED
  BY <1>1, <1>5, <1>7 DEF Consumed, Holding


(* A memory fault changes the reason and the address.                      *)
LEMMA FaultKeeps ==
    ASSUME NEW s \in CpuStates, NEW a \in Nat, NEW t, t = memory_fault(s, a)
    PROVE  /\ t \in CpuStates /\ t.reason = "page_fault" /\ t.addr = a
           /\ t.gpr = s.gpr /\ t.mem = s.mem /\ t.flags = s.flags /\ t.rip = s.rip /\ t.cs = s.cs /\ t.perm = s.perm
<1> DEFINE q == [s EXCEPT !.reason = "page_fault"]
<1>1. /\ q \in CpuStates /\ q.reason = "page_fault" /\ q.gpr = s.gpr /\ q.mem = s.mem /\ q.flags = s.flags
      /\ q.rip = s.rip /\ q.cs = s.cs /\ q.perm = s.perm
  BY DEF CpuStates
<1>2. t = [q EXCEPT !.addr = a] /\ a \in Int
  BY DEF memory_fault
<1> HIDE DEF q
<1> QED
  BY <1>1, <1>2 DEF CpuStates

(* SETcc writes a byte, in memory or in a register.                        *)
LEMMA SetConsumes ==
    ASSUME NEW c \in CpuStates, NEW i, Decoded(i), i.op = "setcc", NEW t, t = Step(c, i)
    PROVE  (t.reason = "none" /\ Consumed(i, c, Holding(i, c), t)) \/ Untouched(c, t)
<1> DEFINE s == Ready(c)
           u == Handler(s, i)
           v == B(eval_cond(s.flags, i.cond))
<1>1. /\ s \in CpuStates /\ s.reason = "none" /\ s.flags = c.flags /\ s.rip = c.rip /\ s.taken = FALSE
      /\ s.gpr = c.gpr /\ s.mem = c.mem
  BY ReadyParts
<1>2. u = write_operand(s, i, i.dst, v, 1)
  <2>1. u = BranchHandler(s, i)
    BY OpTables DEF Handler, IntegerHandler, BranchOps
  <2> QED BY <2>1 DEF BranchHandler, SETcc, LoopOps
<1>3. i \in Instructions /\ i.dst \in RegisterOperands(1) \cup {"mem"} /\ 1 \in Widths
  BY DEF Decoded, Instructions, LoopOps, Readable, RegisterOperands, Widths
<1>4. v \in 0 .. Modulus(1) - 1
  BY <1>3, ModulusType DEF B
<1>5. u = Handler(Ready(c), i) /\ v = B(Holding(i, c))
  BY <1>1 DEF Holding
<1> HIDE DEF s, u, v
<1>6. Refused(s, i, i.dst, u) \/ Wrote(s, i, i.dst, 1, v, u)
  BY <1>1, <1>2, <1>3, <1>4, WriteOperand
<1>7. CASE Refused(s, i, i.dst, u)
  <2>0. i.dst = "mem" /\ u.reason = "page_fault"
    BY <1>1, <1>7 DEF Refused, RefusedAt, CpuStates
  <2>2. u = write_memory_checked(s, memory_address(s, i), v, 1)
    BY <1>2, <2>0 DEF write_operand
  <2>3. ~CanStore(s, memory_address(s, i), 1)
    <3>1. CanStore(s, memory_address(s, i), 1) => u.reason = "none"
      BY <1>1, <2>2 DEF write_memory_checked, CpuStates
    <3> QED BY <2>0, <3>1
  <2>5. PermAt(s, memory_address(s, i)) \notin Crossing
    <3>1. 1 <= FirstBytes
      BY FirstBytesAssumption
    <3> QED BY <2>3, <3>1 DEF CanStore
  <2>1. u = memory_fault(s, memory_address(s, i)) /\ memory_address(s, i) \in Nat
    BY <1>1, <1>3, <2>2, <2>3, <2>5, AddressTypes DEF write_memory_checked
  <2>4. u \in CpuStates /\ u.reason = "page_fault" /\ u.gpr = s.gpr /\ u.mem = s.mem /\ u.flags = s.flags /\ u.rip = s.rip
    BY <1>1, <2>1, FaultKeeps
  <2>6. t = u
    BY <1>5, <2>4, StepIsHandler
  <2> QED BY <1>1, <2>4, <2>6 DEF Untouched
<1>8. CASE Wrote(s, i, i.dst, 1, v, u)
  <2>1. u \in CpuStates /\ u.reason = "none" /\ OperandAt(u, i, i.dst, 1, memory_address(s, i)) = v
    BY <1>1, <1>8 DEF Wrote, SameControl
  <2>2. t.reason = "none" /\ t.gpr = u.gpr /\ t.mem = u.mem
    <3>1. Step(c, i).reason = "none" /\ Step(c, i).gpr = u.gpr /\ Step(c, i).mem = u.mem
      BY <1>5, <2>1, StepIsHandler
    <3> QED BY <3>1
  <2> DEFINE j == [i EXCEPT !.w = 1]
  <2>3. j.w = 1 /\ j.iw = i.iw /\ j.imm = i.imm /\ j.base = i.base /\ j.disp = i.disp
    BY <1>3 DEF Instructions
  <2> HIDE DEF j
  <2>4. memory_address(t, j) = IF i.dst = "mem" THEN memory_address(s, i) ELSE memory_address(t, i)
    BY <1>8, <2>2, <2>3 DEF Wrote, memory_address
  <2>5. ValueOf(t, j, i.dst) = OperandAt(u, i, i.dst, 1, memory_address(s, i))
    <3>1. i.dst # "mem" => i.dst \in Gprs \cup HighBytes
      BY <1>3 DEF RegisterOperands
    <3>2. CASE i.dst = "mem"
      BY <2>2, <2>3, <2>4, <3>2 DEF ValueOf, ValueAt, OperandAt
    <3>3. CASE i.dst \in Gprs
      BY <2>2, <2>3, <3>3 DEF ValueOf, ValueAt, OperandAt
    <3>4. CASE i.dst \notin Gprs /\ i.dst \in HighBytes
      BY <2>2, <2>3, <3>4 DEF ValueOf, ValueAt, OperandAt
    <3> QED BY <3>1, <3>2, <3>3, <3>4
  <2>6. ValueOf(t, [i EXCEPT !.w = 1], i.dst) = B(Holding(i, c))
    BY <1>5, <2>1, <2>5 DEF j
  <2> QED BY <2>2, <2>6 DEF Consumed
<1> QED
  BY <1>6, <1>7, <1>8


(* The value of a general register as an operand.                          *)
LEMMA RegisterValue ==
    ASSUME NEW s, NEW i, NEW o \in Gprs
    PROVE  /\ ValueOf(s, i, o) = s.gpr[o] % Modulus(i.w)
           /\ \A w, a : OperandAt(s, i, o, w, a) = s.gpr[o] % Modulus(w)
<1>1. ASSUME NEW w, NEW a
      PROVE  OperandAt(s, i, o, w, a) = s.gpr[o] % Modulus(w)
  <2>1. o \notin HighBytes /\ o # "mem" /\ o # "imm"
    BY DEF Gprs, HighBytes
  <2> DEFINE x == CASE o \in Gprs -> s.gpr[o]
                    [] o \in HighBytes -> HighByte(s.gpr[Holder(o)])
                    [] o = "mem"  -> s.mem[a]
                    [] o = "imm"  -> sign_extend(i.iw, i.imm)
  <2>2. x = s.gpr[o]
    BY <2>1
  <2>3. OperandAt(s, i, o, w, a) = x % Modulus(w)
    BY DEF OperandAt, Truncate
  <2> QED BY <2>2, <2>3
<1>2. ValueOf(s, i, o) = OperandAt(s, i, o, i.w, memory_address(s, i))
  BY ValueIsOperand DEF OperandValue
<1> QED
  BY <1>1, <1>2

(* CMOVcc reads its source whatever the condition says.                    *)
LEMMA MoveConsumes ==
    ASSUME NEW c \in CpuStates, NEW i, Decoded(i), i.op = "cmov", NEW t, t = Step(c, i)
    PROVE  (t.reason = "none" /\ Consumed(i, c, Holding(i, c), t)) \/ Untouched(c, t)
<1> DEFINE s == Ready(c)
           u == Handler(s, i)
           w == i.w
           r == read_operand(s, i, i.src, w)
           holds == Holding(i, c)
           v == IF holds THEN r.v ELSE read_register(s, i.dst, 4)
<1>1. /\ s \in CpuStates /\ s.reason = "none" /\ s.flags = c.flags /\ s.rip = c.rip /\ s.taken = FALSE
      /\ s.gpr = c.gpr /\ s.mem = c.mem
  BY ReadyParts
<1>2. /\ i \in Instructions /\ w \in Widths /\ i.dst \in Gprs /\ i.dst \in RegisterOperands(w) \cup {"mem"}
      /\ i.src \in Readable(w) /\ i.dst # "mem" /\ i.dst \notin HighBytes
  BY DEF Decoded, Instructions, Readable, RegisterOperands, Gprs, HighBytes
<1>3. holds = eval_cond(s.flags, i.cond)
  BY <1>1 DEF Holding
<1>4. u = BranchHandler(s, i)
  BY OpTables DEF Handler, IntegerHandler, BranchOps
<1>5. u = Handler(Ready(c), i) /\ r = read_operand(s, i, i.src, w)
  OBVIOUS
<1>6. /\ r.reason # "none" => u = [s EXCEPT !.reason = r.reason, !.addr = r.addr]
      /\ r.reason = "none" /\ ~holds /\ w # 4 => u = s
      /\ r.reason = "none" /\ (holds \/ w = 4) => u = write_operand(s, i, i.dst, v, w)
  <2> HIDE DEF holds, s, u
  <2> QED BY <1>2, <1>3, <1>4 DEF BranchHandler, LoopOps, CMOVcc, CMOVcc_R32, With, write_operand
<1> HIDE DEF s, u, w, r, holds
<1>7. Loaded(s, i, i.src, w, r) \/ Unreadable(s, i, i.src, r)
  BY <1>1, <1>2, <1>5, ReadOperand
<1>8. \A o : ValueOf(s, i, o) = ValueOf(c, i, o)
  BY <1>1 DEF memory_address, ValueOf, ValueAt
<1>9. CASE r.reason # "none"
  <2>1. r.reason = "page_fault" /\ r.addr = memory_address(s, i) /\ memory_address(s, i) \in Nat
    BY <1>1, <1>2, <1>7, <1>9, AddressTypes DEF Loaded, Unreadable
  <2>2. u = memory_fault(s, memory_address(s, i))
    BY <1>6, <1>9, <2>1 DEF memory_fault
  <2>3. u \in CpuStates /\ u.reason = "page_fault" /\ u.gpr = s.gpr /\ u.mem = s.mem /\ u.flags = s.flags /\ u.rip = s.rip
    BY <1>1, <2>1, <2>2, FaultKeeps
  <2>4. t = u
    BY <1>5, <2>3, StepIsHandler
  <2> QED BY <1>1, <2>3, <2>4 DEF Untouched
<1>10. CASE r.reason = "none"
  <2>1. /\ u \in CpuStates /\ u.reason = "none"
        /\ u.gpr[i.dst] % Modulus(w) = ValueOf(s, i, IF holds THEN i.src ELSE i.dst)
    <3>1. s.gpr[i.dst] \in Int /\ ValueOf(s, i, i.dst) = s.gpr[i.dst] % Modulus(w)
      <4>1. s.gpr[i.dst] \in Int
        BY <1>1, <1>2, Parts
      <4> QED BY <1>2, <4>1, RegisterValue DEF w
    <3>2. CASE ~holds /\ w # 4
      BY <1>1, <1>6, <1>10, <3>1, <3>2
    <3>3. CASE holds \/ w = 4
      <4>1. v \in 0 .. Modulus(w) - 1 /\ v = ValueOf(s, i, IF holds THEN i.src ELSE i.dst)
        <5>1. CASE holds
          <6>1. r.v \in 0 .. Modulus(w) - 1 /\ r.v = ValueOf(s, i, i.src)
            BY <1>7, <1>10, ValueIsOperand DEF Loaded, Unreadable, w
          <6> QED BY <5>1, <6>1
        <5>2. CASE ~holds
          <6>1. v = Truncate(4, s.gpr[i.dst]) /\ w = 4
            BY <1>2, <3>3, <5>2 DEF read_register
          <6> HIDE DEF v
          <6>2. v \in 0 .. Modulus(w) - 1
            BY <1>2, <3>1, <6>1, Residue
          <6> QED BY <3>1, <5>2, <6>1, <6>2 DEF Truncate
        <5> QED BY <5>1, <5>2
      <4>2. u = write_operand(s, i, i.dst, v, w)
        BY <1>6, <1>10, <3>3
      <4> HIDE DEF v
      <4>3. Wrote(s, i, i.dst, w, v, u)
        <5>1. Refused(s, i, i.dst, u) \/ Wrote(s, i, i.dst, w, v, u)
          BY <1>1, <1>2, <4>1, <4>2, WriteOperand
        <5> QED BY <1>2, <5>1 DEF Refused
      <4>4. u \in CpuStates /\ u.reason = "none" /\ OperandAt(u, i, i.dst, w, memory_address(s, i)) = v
        BY <1>1, <4>3 DEF Wrote, SameControl
      <4>5. u.gpr[i.dst] % Modulus(w) = v
        <5>1. OperandAt(u, i, i.dst, w, memory_address(s, i)) = u.gpr[i.dst] % Modulus(w)
          <6> DEFINE o == i.dst
                     m == memory_address(s, i)
          <6>1. o \in Gprs
            BY <1>2
          <6> HIDE DEF o, m
          <6>2. \A x, a : OperandAt(u, i, o, x, a) = u.gpr[o] % Modulus(x)
            BY <6>1, RegisterValue, Zenon
          <6>3. OperandAt(u, i, o, w, m) = u.gpr[o] % Modulus(w)
            BY <6>2
          <6> QED BY <6>3 DEF o, m
        <5> QED BY <4>4, <5>1
      <4> QED BY <4>1, <4>4, <4>5
    <3> QED BY <3>2, <3>3
  <2>2. t.reason = "none" /\ t.gpr = u.gpr
    <3>1. Step(c, i).reason = "none" /\ Step(c, i).gpr = u.gpr
      BY <1>5, <2>1, StepIsHandler
    <3> QED BY <3>1
  <2>3. ValueOf(t, i, i.dst) = u.gpr[i.dst] % Modulus(w)
    BY <1>2, <2>2, RegisterValue DEF w
  <2>4. ValueOf(t, i, i.dst) = ValueOf(c, i, IF holds THEN i.src ELSE i.dst)
    BY <1>8, <2>1, <2>3
  <2> QED BY <2>2, <2>4 DEF Consumed, holds
<1> QED
  BY <1>9, <1>10

(* The second instruction of the pair: it fails and leaves registers,      *)
(* memory, flags and RIP alone, or does as the condition says.             *)
LEMMA ConsumerOutcome ==
    ASSUME NEW c \in CpuStates, NEW i, Decoded(i), i.op \in Consumers, NEW t, t = Step(c, i)
    PROVE  (t.reason = "none" /\ Consumed(i, c, Holding(i, c), t)) \/ Untouched(c, t)
BY JumpConsumes, SetConsumes, MoveConsumes DEF Consumers

(* A comparison and what consumes it.                                      *)
ComparePair == Len(prog) = 2 /\ prog[1].op = "cmp" /\ prog[2].op \in Consumers
CompareInv ==
    ComparePair /\ pc # 1 =>
        \/ pc = 2 /\ cpu.reason \in {"none", "page_fault"} /\ Compared(prog[1], start, cpu)
        \/ pc = 3 /\ cpu.reason = "none" /\
           \E c : Compared(prog[1], start, c) /\ Consumed(prog[2], c, Holding(prog[2], c), cpu)

(* Behind a comparison that was retried, seen from the start.              *)
LEMMA ComparedFromStart ==
    ASSUME NEW i, i.op = "cmp", NEW n, NEW s, NEW c, Resembles(i, n, s, c), c.reason = "none",
           NEW t, Compared(i, c, t)
    PROVE  Compared(i, s, t)
<1>0. c.mem = s.mem
  <2>1. ~Storing(i)
    BY DEF Storing, LoadOnlyOps, IntegerReaders
  <2> QED BY <2>1, ResemblingMemory
<1>1. \A o : ValueOf(c, i, o) = ValueOf(s, i, o)
  BY <1>0, ResemblingValues
<1>2. SumFlags(i, c) = SumFlags(i, s)
  BY <1>1 DEF SumFlags, SumValue, Left, Right, CarryIn
<1> QED
  BY <1>0, <1>1, <1>2 DEF Compared, Resembles

(* It is enough that the same registers, memory, flags and RIP are there.  *)
LEMMA ComparedSame ==
    ASSUME NEW i, NEW s, NEW t, Compared(i, s, t), NEW u, u \in CpuStates,
           u.gpr = t.gpr, u.mem = t.mem, u.flags = t.flags, u.rip = t.rip
    PROVE  Compared(i, s, u)
BY DEF Compared


(* Between the two instructions the machine is the one the comparison      *)
(* left, and at the end the second has consumed exactly its flags.         *)
THEOREM ComparisonReachesConsumer == Spec => []CompareInv
<1>1. Init => CompareInv
  BY DEF Init, CompareInv
<1>2. CompareInv /\ FirstInv /\ ProgramInv /\ [Next]_mvars => CompareInv'
  <2> SUFFICES ASSUME CompareInv, FirstInv, ProgramInv, [Next]_mvars, ComparePair', pc' # 1
               PROVE  \/ pc' = 2 /\ cpu'.reason \in {"none", "page_fault"} /\ Compared(prog'[1], start', cpu')
                      \/ /\ pc' = 3 /\ cpu'.reason = "none"
                         /\ \E c : Compared(prog'[1], start', c) /\ Consumed(prog'[2], c, Holding(prog'[2], c), cpu')
    BY DEF CompareInv
  <2>0. prog' = prog /\ start' = start
    BY DEF Next, Execute, Repair, mvars
  <2> DEFINE i == prog[1]
             j == prog[2]
  <2>1. Len(prog) = 2 /\ i.op = "cmp" /\ j.op \in Consumers /\ ComparePair
    BY <2>0 DEF ComparePair
  <2>2. Decoded(i) /\ Decoded(j) /\ Steady(i) /\ i.op \in IntegerOps /\ j.op \in IntegerOps
    <3>1. i.op \in IntegerOps /\ j.op \in IntegerOps /\ Steady(i)
      BY <2>1 DEF IntegerOps, AdditionOps, BranchOps, Consumers, Steady, SteadyOps, IntegerReaders
    <3>2. 1 \in DOMAIN prog /\ 2 \in DOMAIN prog
      BY <2>1 DEF ProgramInv
    <3> QED BY <3>1, <3>2 DEF ProgramInv
  <2>3. CASE Execute /\ pc = 1
    <3>1. cpu.reason = "none" /\ cpu' = Step(cpu, i) /\ pc' = 2 /\ cpu'.reason = "none"
      <4>1. Finished(cpu, i, cpu') /\ pc' = 2
        BY <2>3 DEF Execute
      <4> QED BY <2>3, <4>1 DEF Execute, Finished
    <3>2. Resembles(i, repairs, start, cpu)
      BY <2>2, <2>3, <3>1 DEF FirstInv
    <3>3. cpu \in CpuStates
      BY <3>2 DEF Resembles
    <3> HIDE DEF i
    <3>4. Compared(i, cpu, cpu')
      BY <2>1, <2>2, <3>1, <3>3, CompareOutcome
    <3>5. Compared(i, start, cpu')
      BY <2>1, <3>1, <3>2, <3>4, ComparedFromStart
    <3> QED BY <2>0, <3>1, <3>5 DEF i
  <2>4. CASE Execute /\ pc = 2
    <3>1. cpu.reason = "none" /\ cpu' = Step(cpu, j) /\ Compared(i, start, cpu)
          /\ pc' = IF Finished(cpu, j, cpu') THEN 3 ELSE 2
      BY <2>1, <2>4 DEF Execute, CompareInv
    <3>2. cpu \in CpuStates
      BY <3>1 DEF Compared
    <3>3. Finished(cpu, j, cpu') <=> cpu'.reason = "none"
      BY <2>2, StringMovesApart DEF Finished
    <3> HIDE DEF i, j
    <3>4. (cpu'.reason = "none" /\ Consumed(j, cpu, Holding(j, cpu), cpu')) \/ Untouched(cpu, cpu')
      BY <2>1, <2>2, <3>1, <3>2, ConsumerOutcome
    <3>5. CASE cpu'.reason = "none" /\ Consumed(j, cpu, Holding(j, cpu), cpu')
      BY <2>0, <3>1, <3>3, <3>5 DEF i, j
    <3>6. CASE Untouched(cpu, cpu')
      <4>1. Compared(i, start, cpu') /\ cpu'.reason = "page_fault"
        BY <3>1, <3>6, ComparedSame DEF Untouched
      <4>2. pc' = 2
        BY <3>1, <3>3, <4>1
      <4> QED BY <2>0, <4>1, <4>2 DEF i
    <3> QED BY <3>4, <3>5, <3>6
  <2>5. CASE Execute /\ pc # 1 /\ pc # 2
    BY <2>1, <2>5 DEF Execute, CompareInv
  <2>6. ASSUME NEW p \in {"ro", "rw"}, Repair(p)
        PROVE  pc' = 2 /\ cpu'.reason = "none" /\ Compared(i, start, cpu')
    <3>1. cpu.reason = "page_fault" /\ cpu.addr \in Addresses /\ pc' = pc
          /\ cpu' = [cpu EXCEPT !.perm[cpu.addr] = p, !.reason = "none"]
      BY <2>6 DEF Repair
    <3>2. pc = 2 /\ Compared(i, start, cpu)
      BY <2>1, <3>1 DEF CompareInv
    <3>3. cpu \in CpuStates
      BY <3>2 DEF Compared
    <3> DEFINE q == [cpu EXCEPT !.perm[cpu.addr] = p]
    <3>4. q \in CpuStates /\ q.gpr = cpu.gpr /\ q.mem = cpu.mem /\ q.flags = cpu.flags /\ q.rip = cpu.rip
      BY <3>1, <3>3 DEF CpuStates, Perms, WholePerms
    <3>5. cpu' = [q EXCEPT !.reason = "none"]
      BY <3>1
    <3> HIDE DEF q, i
    <3>6. cpu' \in CpuStates /\ cpu'.gpr = cpu.gpr /\ cpu'.mem = cpu.mem /\ cpu'.flags = cpu.flags
          /\ cpu'.rip = cpu.rip /\ cpu'.reason = "none"
      BY <3>4, <3>5 DEF CpuStates
    <3>7. Compared(i, start, cpu')
      BY <3>2, <3>6, ComparedSame
    <3> QED BY <3>1, <3>2, <3>6, <3>7
  <2>7. CASE UNCHANGED mvars
    BY <2>1, <2>7 DEF CompareInv, mvars
  <2> QED BY <2>0, <2>3, <2>4, <2>5, <2>6, <2>7 DEF Next
<1> QED
  BY <1>1, <1>2, ProgramsWellFormed, FailedAttemptsHarmless, PTL DEF Spec

(* CMP followed by Jcc, SETcc or CMOVcc looks at the numbers compared:     *)
(* the conditional jumps' own conditions and eval_cond, on the flags the   *)
(* subtraction leaves, are the relations of the operands, at every width,  *)
(* also when a fault makes one of the two start over.                      *)
THEOREM BranchesFollowComparison == Spec => []BranchMatchesComparison
<1>1. ProgramInv /\ FirstInv /\ CompareInv => BranchMatchesComparison
  <2> SUFFICES ASSUME ProgramInv, FirstInv, CompareInv, Done, Len(prog) = 2, prog[1].op = "cmp", prog[2].op \in Consumers,
                      NEW i, i = prog[1], NEW j, j = prog[2]
               PROVE  ConditionExact(i, j, start, cpu)
    BY DEF BranchMatchesComparison, Consumers
  <2>1. PICK c : Compared(i, start, c) /\ Consumed(j, c, Holding(j, c), cpu)
    BY DEF CompareInv, ComparePair, Done
  <2>2. Decoded(i) /\ Decoded(j) /\ j.cond \in Conditions
    <3>1. i.op \in IntegerOps /\ j.op \in IntegerOps
      BY DEF IntegerOps, AdditionOps, BranchOps, Consumers
    <3>2. 1 \in DOMAIN prog /\ 2 \in DOMAIN prog
      BY DEF ProgramInv
    <3> QED BY <3>1, <3>2 DEF ProgramInv, Decoded, Instructions
  <2> DEFINE holds == Relation(i.w, j.cond, ValueOf(start, i, i.dst), ValueOf(start, i, i.src))
  <2>3. (Taken(c.flags, j.cond) <=> holds) /\ (eval_cond(c.flags, j.cond) <=> holds)
    BY <2>1, <2>2, ComparedConditions
  <2> HIDE DEF holds
  <2>4. Holding(j, c) <=> holds
    BY <2>3 DEF Holding
  <2>5. \A o : ValueOf(c, j, o) = ValueOf(start, j, o)
    BY <2>1 DEF Compared, memory_address, ValueOf, ValueAt
  <2>6. c.rip + 1 = start.rip + 2
    <3>1. start.rip \in Nat
      BY Parts DEF ProgramInv
    <3> QED BY <2>1, <3>1 DEF Compared
  <2>7. CASE j.op = "jcc"
    BY <2>1, <2>4, <2>6, <2>7 DEF Consumed, ConditionExact, holds
  <2>8. CASE j.op = "setcc"
    BY <2>1, <2>4, <2>8 DEF Consumed, ConditionExact, holds, B
  <2>9. CASE j.op = "cmov"
    BY <2>1, <2>4, <2>5, <2>9 DEF Consumed, ConditionExact, holds
  <2> QED BY <2>7, <2>8, <2>9 DEF Consumers
<1> QED
  BY <1>1, ProgramsWellFormed, FailedAttemptsHarmless, ComparisonReachesConsumer, PTL

-----------------------------------------------------------------------------
(* Stack instructions that undo each other.                                *)

(* A stack pointer that went down comes back up.                           *)
LEMMA PointerBack ==
    ASSUME NEW c \in Nat \ {0}, NEW sp \in Int, NEW d \in Nat, NEW e \in Nat
    PROVE  (((sp - d) % c) + (d + e)) % c = (sp + e) % c
<1> DEFINE q == (sp - d) % c
           p == (sp - d) \div c
           x == q + (d + e)
           r == x % c
           k == x \div c
<1>1. p \in Int /\ q \in 0 .. c - 1 /\ sp - d = c * p + q
  <2> DEFINE y == sp - d
  <2>1. y \in Int
    OBVIOUS
  <2> HIDE DEF y
  <2>2. y \div c \in Int /\ y % c \in 0 .. c - 1 /\ y = c * (y \div c) + (y % c)
    BY <2>1, FloorParts
  <2> QED BY <2>2 DEF y
<1> HIDE DEF p, q
<1>2. x \in Int
  BY <1>1
<1>3. k \in Int /\ r \in 0 .. c - 1 /\ x = c * k + r
  BY <1>2, FloorParts
<1>4. x = q + (d + e)
  OBVIOUS
<1> HIDE DEF x, k, r
<1>5. c * (p + k) = c * p + c * k
  BY <1>1, <1>3
<1>6. sp + e = c * (p + k) + r /\ sp + e \in Int /\ p + k \in Int
  BY <1>1, <1>3, <1>4, <1>5
<1>7. (sp + e) % c = r
  BY <1>3, <1>6, FloorUnique
<1> QED
  BY <1>7 DEF r, x, q

(* The flags come back from the number the stack holds.                    *)
LEMMA SixBits ==
    ASSUME NEW a \in 0 .. 1, NEW b \in 0 .. 1, NEW c \in 0 .. 1, NEW d \in 0 .. 1, NEW e \in 0 .. 1, NEW f \in 0 .. 1,
           NEW v, v = a + 2 * b + 4 * c + 8 * d + 16 * e + 32 * f
    PROVE  /\ v \in 0 .. 63
           /\ (v \div 1) % 2 = a /\ (v \div 2) % 2 = b /\ (v \div 4) % 2 = c
           /\ (v \div 8) % 2 = d /\ (v \div 16) % 2 = e /\ (v \div 32) % 2 = f
OBVIOUS

LEMMA FlagsRoundTrip == \A f \in Flags : Rflags(f) \in 0 .. 63 /\ FromRflags(Rflags(f)) = f
<1> TAKE f \in Flags
<1> DEFINE v == Rflags(f)
<1>1. \A b \in BOOLEAN : B(b) \in 0 .. 1 /\ ((B(b) = 1) <=> b)
  BY DEF B
<1>2. f.cf \in BOOLEAN /\ f.pf \in BOOLEAN /\ f.af \in BOOLEAN /\ f.zf \in BOOLEAN /\ f.sf \in BOOLEAN /\ f.of \in BOOLEAN
  BY DEF Flags
<1>3. v = B(f.cf) + 2 * B(f.pf) + 4 * B(f.af) + 8 * B(f.zf) + 16 * B(f.sf) + 32 * B(f.of)
  BY DEF Rflags
<1>4. B(f.cf) \in 0 .. 1 /\ B(f.pf) \in 0 .. 1 /\ B(f.af) \in 0 .. 1 /\ B(f.zf) \in 0 .. 1 /\ B(f.sf) \in 0 .. 1 /\ B(f.of) \in 0 .. 1
  BY <1>1, <1>2
<1> HIDE DEF v
<1>5. /\ v \in 0 .. 63
      /\ (v \div 1) % 2 = B(f.cf) /\ (v \div 2) % 2 = B(f.pf) /\ (v \div 4) % 2 = B(f.af)
      /\ (v \div 8) % 2 = B(f.zf) /\ (v \div 16) % 2 = B(f.sf) /\ (v \div 32) % 2 = B(f.of)
  BY <1>3, <1>4, SixBits
<1>6. Bit(1, v) = f.cf /\ Bit(2, v) = f.pf /\ Bit(4, v) = f.af /\ Bit(8, v) = f.zf /\ Bit(16, v) = f.sf /\ Bit(32, v) = f.of
  <2>1. (Bit(1, v) <=> f.cf) /\ (Bit(2, v) <=> f.pf) /\ (Bit(4, v) <=> f.af)
        /\ (Bit(8, v) <=> f.zf) /\ (Bit(16, v) <=> f.sf) /\ (Bit(32, v) <=> f.of)
    BY <1>1, <1>2, <1>5 DEF Bit
  <2>2. \A k : Bit(k, v) \in BOOLEAN
    BY Zenon DEF Bit
  <2> QED BY <1>2, <2>1, <2>2, Zenon
<1>7. FromRflags(v) = [cf |-> f.cf, pf |-> f.pf, af |-> f.af, zf |-> f.zf, sf |-> f.sf, of |-> f.of]
  BY <1>6, Zenon DEF FromRflags
<1>8. f = [cf |-> f.cf, pf |-> f.pf, af |-> f.af, zf |-> f.zf, sf |-> f.sf, of |-> f.of]
  BY DEF Flags
<1> QED
  BY <1>5, <1>7, <1>8 DEF v

(* A store that succeeded stored the operand.                              *)
LEMMA StoreOutcome ==
    ASSUME NEW s \in CpuStates, NEW a, NEW v \in Int, NEW w,
           NEW t, t = write_memory_checked(s, a, v, w), t.reason = "none"
    PROVE  a \in Addresses /\ t = [s EXCEPT !.mem[a] = Truncate(w, v)]
<1>1. CanStore(s, a, w)
  <2>1. RefusedAt(s, a, t) => t.reason = "page_fault"
    BY DEF RefusedAt, CpuStates
  <2> QED BY <2>1, RefusedStore
<1> QED
  BY <1>1 DEF CanStore, PermAt, Crossing, write_memory_checked

(* A value on the stack, below what was there.                             *)
Below(s, w) == (s.gpr["sp"] - w) % Container
OnStack(s, w, v, t) ==
    /\ t \in CpuStates /\ Below(s, w) \in Addresses
    /\ t.gpr = [s.gpr EXCEPT !["sp"] = Below(s, w)]
    /\ t.mem = [s.mem EXCEPT ![Below(s, w)] = Truncate(w, v)]

LEMMA PushOutcome ==
    ASSUME NEW s \in CpuStates, s.reason = "none", NEW w \in Widths, NEW v \in Int,
           NEW t, t = push_width(s, v, w), t.reason = "none"
    PROVE  OnStack(s, w, v, t) /\ SameControl(s, t)
<1> DEFINE q == Below(s, w)
           x == [s EXCEPT !.gpr["sp"] = q]
           y == Truncate(w, v)
<1>1. t = write_memory_checked(x, q, v, w)
  BY DEF push_width, Below
<1>2. q \in Values /\ y \in Values
  <2>1. s.gpr["sp"] \in Int
    BY Parts DEF Gprs
  <2>2. w \in Int
    BY DEF Widths
  <2> DEFINE z == s.gpr["sp"] - w
  <2>3. z \in Int
    BY <2>1, <2>2
  <2> HIDE DEF z
  <2>4. z % Container \in 0 .. Container - 1
    BY <2>3, ValuesAreNats
  <2> QED BY <2>4, Residue DEF Values, Below, z
<1> HIDE DEF q, y
<1>3. x \in CpuStates /\ SameControl(s, x) /\ x.gpr = [s.gpr EXCEPT !["sp"] = q] /\ x.mem = s.mem
  BY <1>2 DEF CpuStates, SameControl, Gprs
<1> HIDE DEF x
<1>4. q \in Addresses /\ t = [x EXCEPT !.mem[q] = Truncate(w, v)]
  BY <1>1, <1>3, StoreOutcome
<1>5. q \in Addresses
  BY <1>4
<1>6. t = [x EXCEPT !.mem[q] = y]
  BY <1>4 DEF y
<1>7. t \in CpuStates /\ SameControl(s, t) /\ t.gpr = x.gpr /\ t.mem = [x.mem EXCEPT ![q] = y]
  BY <1>2, <1>3, <1>5, <1>6 DEF CpuStates, SameControl
<1> QED
  BY <1>3, <1>5, <1>7 DEF OnStack, q, y

(* A machine whose stack pointer moved up.                                 *)
LEMMA PoppedParts ==
    ASSUME NEW s \in CpuStates, NEW n \in Nat, NEW t, t = Popped(s, n)
    PROVE  /\ t \in CpuStates /\ SameControl(s, t) /\ t.mem = s.mem
           /\ t.gpr = [s.gpr EXCEPT !["sp"] = (s.gpr["sp"] + n) % Container]
<1> DEFINE z == s.gpr["sp"] + n
           q == z % Container
<1>1. s.gpr["sp"] \in Int
  BY Parts DEF Gprs
<1>2. z \in Int
  BY <1>1
<1>3. t = [s EXCEPT !.gpr["sp"] = q]
  BY DEF Popped, CpuStates, Gprs
<1> HIDE DEF z
<1>4. q \in 0 .. Container - 1
  BY <1>2, ValuesAreNats
<1>5. q \in Values
  BY <1>4 DEF Values
<1> HIDE DEF q
<1>6. t \in CpuStates /\ SameControl(s, t) /\ t.mem = s.mem /\ t.gpr = [s.gpr EXCEPT !["sp"] = q]
  BY <1>3, <1>5 DEF CpuStates, SameControl, Gprs
<1> QED
  BY <1>6 DEF q, z

(* A load from the top of the stack.                                       *)
LEMMA TopRead ==
    ASSUME NEW s \in CpuStates, NEW w \in Widths, NEW r, r = pop_width(s, w)
    PROVE  \/ r.reason = "none" /\ r.v = Truncate(w, s.mem[s.gpr["sp"]]) /\ r.v \in 0 .. Modulus(w) - 1
           \/ r.reason = "page_fault"
<1> DEFINE sp == s.gpr["sp"]
<1>1. r = read_memory_checked(s, sp, w)
  BY DEF pop_width
<1> HIDE DEF sp
<1>2. CASE CanLoad(s, sp, w)
  <2>1. sp \in Addresses
    BY <1>2 DEF CanLoad, PermAt
  <2>2. Truncate(w, s.mem[sp]) \in 0 .. Modulus(w) - 1
    BY <2>1, Parts, Residue
  <2> QED BY <1>1, <1>2, <2>2 DEF read_memory_checked, Got, sp
<1>3. CASE ~CanLoad(s, sp, w)
  BY <1>1, <1>3 DEF read_memory_checked
<1> QED
  BY <1>2, <1>3

(* What a step adds to a handler that got through: RIP moves on unless the *)
(* handler moved it.                                                       *)
Stepped(r, t) ==
    /\ t \in CpuStates /\ t.gpr = r.gpr /\ t.mem = r.mem /\ t.flags = r.flags /\ t.cs = r.cs /\ t.perm = r.perm
    /\ t.rip = IF r.taken THEN r.rip ELSE r.rip + 1
LEMMA StackStep ==
    ASSUME NEW s \in CpuStates, NEW i, i.op \in StackOps, NEW t, t = Step(s, i), t.reason = "none",
           NEW r, r = StackHandler(Ready(s), i)
    PROVE  r.reason = "none" /\ (r \in CpuStates => Stepped(r, t))
<1>1. Handler(Ready(s), i) = r
  BY OpTables DEF Handler, IntegerHandler, IntegerOps
<1>2. r.reason = "none"
  BY <1>1, StepIsHandler
<1> QED
  BY <1>1, <1>2, StepIsHandler DEF Stepped

(* Two instructions of the stack, one after the other, that both got       *)
(* through.                                                                *)
StackPair(s, i, j, u, t) ==
    /\ s \in CpuStates /\ Decoded(i) /\ Decoded(j) /\ i.w = j.w
    /\ i.op \in StackOps /\ j.op \in StackOps
    /\ u = Step(s, i) /\ u.reason = "none" /\ t = Step(u, j) /\ t.reason = "none"

(* So it is when the second instruction sees the machine.                  *)
Holds(s, w, v, x) == OnStack(s, w, v, x) /\ x.reason = "none"

LEMMA HoldsPushed ==
    ASSUME NEW s \in CpuStates, NEW w, NEW v, NEW r, OnStack(Ready(s), w, v, r), NEW u, Stepped(r, u)
    PROVE  Holds(s, w, v, Ready(u))
<1>1. Ready(s).gpr = s.gpr /\ Ready(s).mem = s.mem
  BY ReadyParts
<1>2. Below(Ready(s), w) = Below(s, w)
  BY <1>1 DEF Below
<1>3. u \in CpuStates /\ u.gpr = r.gpr /\ u.mem = r.mem
  BY DEF Stepped
<1>4. Ready(u) \in CpuStates /\ Ready(u).reason = "none" /\ Ready(u).gpr = u.gpr /\ Ready(u).mem = u.mem
  BY <1>3, ReadyParts
<1> QED
  BY <1>1, <1>2, <1>3, <1>4 DEF OnStack, Holds

(* Moving the stack pointer up brings it back to where it was, or beyond   *)
(* by what the instruction drops.                                          *)
LEMMA PointerUp ==
    ASSUME NEW s \in CpuStates, NEW w \in Widths, NEW x \in CpuStates,
           x.gpr = [s.gpr EXCEPT !["sp"] = Below(s, w)], NEW e \in Nat, NEW y, y = Popped(x, w + e)
    PROVE  /\ y \in CpuStates /\ SameControl(x, y) /\ y.mem = x.mem
           /\ y.gpr = [s.gpr EXCEPT !["sp"] = (s.gpr["sp"] + e) % Container]
<1> DEFINE sp == s.gpr["sp"]
           q == Below(s, w)
<1>1. sp \in Int /\ s.gpr \in [Gprs -> Values] /\ "sp" \in Gprs /\ w \in Nat
  BY Parts DEF Gprs, Widths
<1>2. x.gpr["sp"] = q
  BY <1>1
<1>3. /\ y \in CpuStates /\ SameControl(x, y) /\ y.mem = x.mem
      /\ y.gpr = [x.gpr EXCEPT !["sp"] = (x.gpr["sp"] + (w + e)) % Container]
  <2>1. w + e \in Nat
    BY <1>1
  <2> QED BY <2>1, PoppedParts
<1>4. (q + (w + e)) % Container = (sp + e) % Container
  <2>1. Container \in Nat \ {0}
    BY ValuesAreNats
  <2> HIDE DEF sp
  <2>2. (((sp - w) % Container) + (w + e)) % Container = (sp + e) % Container
    BY <1>1, <2>1, PointerBack
  <2> QED BY <2>2 DEF Below, q, sp
<1>5. y.gpr = [s.gpr EXCEPT !["sp"] = (sp + e) % Container]
  BY <1>1, <1>2, <1>3, <1>4
<1> QED
  BY <1>3, <1>5

(* What is popped is what was pushed.                                      *)
LEMMA PoppedPushed ==
    ASSUME NEW s \in CpuStates, NEW w \in Widths, NEW v \in Int, NEW x, Holds(s, w, v, x), NEW e \in Nat,
           NEW y, y = Popped(x, w + e)
    PROVE  /\ Truncate(w, x.mem[x.gpr["sp"]]) = Truncate(w, v)
           /\ y \in CpuStates /\ y.reason = "none" /\ y.mem = x.mem
           /\ y.gpr = [s.gpr EXCEPT !["sp"] = (s.gpr["sp"] + e) % Container]
<1> DEFINE q == Below(s, w)
<1>1. s.gpr \in [Gprs -> Values] /\ s.mem \in [Addresses -> Values] /\ "sp" \in Gprs
  BY Parts DEF Gprs
<1>2. x.gpr["sp"] = q /\ x.mem[q] = Truncate(w, v)
  BY <1>1 DEF Holds, OnStack
<1>3. Truncate(w, x.mem[x.gpr["sp"]]) = Truncate(w, v)
  BY <1>2, Residue
<1> QED
  BY <1>3, PointerUp DEF Holds, OnStack, SameControl

(* A stack pointer that did not move.                                      *)
LEMMA PointerKept ==
    ASSUME NEW s \in CpuStates
    PROVE  (s.gpr["sp"] + 0) % Container = s.gpr["sp"] /\ [s.gpr EXCEPT !["sp"] = (s.gpr["sp"] + 0) % Container] = s.gpr
<1> DEFINE sp == s.gpr["sp"]
<1>1. sp \in 0 .. Container - 1 /\ sp \in Int /\ s.gpr \in [Gprs -> Values]
  BY Parts DEF Gprs
<1> HIDE DEF sp
<1>2. sp + 0 = sp
  BY <1>1
<1>3. sp % Container = sp
  <2>1. Container \in Nat \ {0}
    BY ValuesAreNats
  <2> QED BY <1>1, <2>1, WrapOnce
<1> QED
  BY <1>1, <1>2, <1>3 DEF sp

(* Without more to drop, all registers are back.                           *)
LEMMA PointerRestored ==
    ASSUME NEW s \in CpuStates, NEW w \in Widths, NEW x \in CpuStates,
           x.gpr = [s.gpr EXCEPT !["sp"] = Below(s, w)], NEW y, y = Popped(x, w)
    PROVE  y \in CpuStates /\ SameControl(x, y) /\ y.mem = x.mem /\ y.gpr = s.gpr
<1> DEFINE e == 0
<1>1. y = Popped(x, w + e) /\ e \in Nat
  BY DEF Widths
<1>2. (s.gpr["sp"] + e) % Container = s.gpr["sp"] /\ [s.gpr EXCEPT !["sp"] = (s.gpr["sp"] + e) % Container] = s.gpr
  BY PointerKept
<1> HIDE DEF e
<1> QED
  BY <1>1, <1>2, PointerUp

(* PUSH and POP move a value.                                              *)
LEMMA PushPop ==
    ASSUME NEW s, NEW i, NEW j, NEW u, NEW t, StackPair(s, i, j, u, t), i.op = "push", j.op = "pop"
    PROVE  Undone(i, j, s, t)
<1> DEFINE w == i.w
           S == Ready(s)
           r == StackHandler(S, i)
           x == Ready(u)
           h == StackHandler(x, j)
           y == Popped(x, w)
           o == read_operand(S, i, i.dst, w)
           v == ValueOf(s, i, i.dst)
<1>1. /\ s \in CpuStates /\ S \in CpuStates /\ S.reason = "none" /\ S.gpr = s.gpr /\ S.mem = s.mem
      /\ i \in Instructions /\ w \in Widths /\ j.w = w /\ j \in Instructions
  BY ReadyParts DEF StackPair, Decoded, Instructions
<1>2. i.dst \in Readable(w) /\ j.dst \in Gprs \cup {"mem"} /\ j.dst \notin HighBytes
  BY DEF StackPair, Decoded, Readable, RegisterOperands, StackOps, Gprs, HighBytes, LoopOps
<1>3. r.reason = "none" /\ (r \in CpuStates => Stepped(r, u))
  BY StackStep DEF StackPair
<1>4. o.reason = "none" /\ o.v \in 0 .. Modulus(w) - 1 /\ o.v = v
  <2>1. Loaded(S, i, i.dst, w, o) \/ Unreadable(S, i, i.dst, o)
    BY <1>1, <1>2, ReadOperand
  <2>2. r = With(S, o, LAMBDA a : push_width(S, a, w))
    BY DEF StackHandler, push_operand_width
  <2> HIDE DEF r, o
  <2>3. o.reason = "none"
    BY <1>1, <1>3, <2>2 DEF With, CpuStates
  <2>4. o.v \in 0 .. Modulus(w) - 1 /\ o.v = OperandValue(S, i, i.dst, w)
    BY <2>1, <2>3 DEF Loaded, Unreadable
  <2>5. OperandValue(S, i, i.dst, w) = v
    BY <1>1 DEF OperandValue, OperandAt, ValueOf, ValueAt, memory_address
  <2> QED BY <2>3, <2>4, <2>5
<1>5. r = push_width(S, v, w)
  <2>1. r = With(S, o, LAMBDA a : push_width(S, a, w))
    BY DEF StackHandler, push_operand_width
  <2> HIDE DEF r, o
  <2> QED BY <1>4, <2>1 DEF With
<1> HIDE DEF v, r, o
<1>6. v \in Int /\ Truncate(w, v) = v /\ v \in 0 .. Modulus(w) - 1
  BY <1>1, <1>4, ResidueSmall
<1>7. OnStack(S, w, v, r)
  BY <1>1, <1>3, <1>5, <1>6, PushOutcome
<1>8. Holds(s, w, v, x) /\ u \in CpuStates /\ x.gpr = u.gpr
  BY <1>1, <1>3, <1>7, HoldsPushed, ReadyParts DEF OnStack, Stepped
<1>9. h.reason = "none" /\ (h \in CpuStates => Stepped(h, t))
  BY <1>8, StackStep DEF StackPair
<1>10. /\ Truncate(w, x.mem[x.gpr["sp"]]) = v
       /\ y \in CpuStates /\ y.reason = "none" /\ y.mem = x.mem
       /\ y.gpr = [s.gpr EXCEPT !["sp"] = (s.gpr["sp"] + 0) % Container]
  <2>1. w + 0 = w
    BY <1>1 DEF Widths
  <2> HIDE DEF x, w
  <2> QED BY <1>1, <1>6, <1>8, <2>1, PoppedPushed
<1>11. y.gpr = s.gpr
  BY <1>1, <1>10, PointerKept
<1>12. h = write_operand(y, j, j.dst, v, w)
  <2> DEFINE p == pop_width(x, w)
  <2>1. h = With(x, p, LAMBDA a : write_operand(y, j, j.dst, a, w))
    BY <1>1 DEF StackHandler, pop_operand_width, StackPair
  <2> HIDE DEF h, x, y, w
  <2>2. (p.reason = "none" /\ p.v = Truncate(w, x.mem[x.gpr["sp"]])) \/ p.reason = "page_fault"
    <3>1. x \in CpuStates
      BY <1>8 DEF Holds, OnStack
    <3> QED BY <1>1, <3>1, TopRead
  <2> HIDE DEF p
  <2>3. p.reason = "none"
    BY <1>8, <1>9, <2>1, <2>2 DEF With, Holds, OnStack, CpuStates
  <2> QED BY <1>10, <2>1, <2>2, <2>3 DEF With
<1> HIDE DEF h, x, y
<1>13. Wrote(y, j, j.dst, w, v, h)
  <2>1. Refused(y, j, j.dst, h) \/ Wrote(y, j, j.dst, w, v, h)
    BY <1>1, <1>2, <1>6, <1>10, <1>12, WriteOperand DEF RegisterOperands
  <2>2. Refused(y, j, j.dst, h) => h.reason = "page_fault"
    BY <1>10 DEF Refused, RefusedAt, CpuStates
  <2> QED BY <1>9, <2>1, <2>2
<1>14. t.gpr = h.gpr /\ t.mem = h.mem
  BY <1>9, <1>13 DEF Wrote, Stepped
<1>15. ValueOf(t, j, j.dst) = v
  <2>1. OperandAt(h, j, j.dst, w, memory_address(y, j)) = v
    BY <1>13 DEF Wrote
  <2>2. j.dst = "mem" => memory_address(t, j) = memory_address(y, j)
    BY <1>13, <1>14 DEF Wrote, memory_address
  <2>3. CASE j.dst = "mem"
    BY <1>1, <1>14, <2>1, <2>2, <2>3 DEF OperandAt, ValueOf, ValueAt
  <2>4. CASE j.dst # "mem"
    BY <1>1, <1>2, <1>14, <2>1, <2>4 DEF OperandAt, ValueOf, ValueAt, Gprs
  <2> QED BY <2>3, <2>4
<1>16. ASSUME j.dst # "sp" PROVE t.gpr["sp"] = s.gpr["sp"]
  <2>1. Holder(j.dst) # "sp" \/ j.dst = "mem"
    BY <1>2, <1>16 DEF Holder, Gprs
  <2>2. s.gpr \in [Gprs -> Values] /\ "sp" \in Gprs
    BY <1>1, Parts DEF Gprs
  <2> QED BY <1>11, <1>13, <1>14, <2>1, <2>2 DEF Wrote
<1> QED
  BY <1>15, <1>16 DEF Undone, v

(* PUSHF and POPF give the flags back.                                     *)
LEMMA PushfPopf ==
    ASSUME NEW s, NEW i, NEW j, NEW u, NEW t, StackPair(s, i, j, u, t), i.op = "pushf", j.op = "popf"
    PROVE  Undone(i, j, s, t)
<1> SUFFICES ASSUME Rflags(s.flags) < Modulus(i.w) PROVE t.flags = s.flags /\ t.gpr = s.gpr
  BY DEF Undone
<1> DEFINE w == i.w
           S == Ready(s)
           r == StackHandler(S, i)
           x == Ready(u)
           h == StackHandler(x, j)
           y == Popped(x, w)
           v == Rflags(s.flags)
           p == pop_width(x, w)
<1>1. /\ s \in CpuStates /\ S \in CpuStates /\ S.reason = "none" /\ S.flags = s.flags
      /\ w \in Widths /\ j.w = w
  BY ReadyParts DEF StackPair, Decoded, Instructions
<1>2. v \in Nat /\ v \in Int /\ Truncate(w, v) = v /\ FromRflags(v) = s.flags
  <2>1. s.flags \in Flags
    BY <1>1, Parts
  <2>2. v \in 0 .. 63 /\ FromRflags(v) = s.flags
    BY <2>1, FlagsRoundTrip
  <2> HIDE DEF v, w
  <2>3. v \in 0 .. Modulus(w) - 1
    BY <1>1, <2>2, ModulusType DEF v, w
  <2> QED BY <1>1, <2>2, <2>3, ResidueSmall
<1>3. r.reason = "none" /\ (r \in CpuStates => Stepped(r, u))
  BY StackStep DEF StackPair
<1>4. r = push_width(S, v, w)
  BY <1>1 DEF StackHandler, push_flags_width
<1> HIDE DEF v, r
<1>5. OnStack(S, w, v, r)
  BY <1>1, <1>2, <1>3, <1>4, PushOutcome
<1>6. Holds(s, w, v, x) /\ u \in CpuStates
  BY <1>1, <1>3, <1>5, HoldsPushed DEF OnStack, Stepped
<1>7. h.reason = "none" /\ (h \in CpuStates => Stepped(h, t))
  BY <1>6, StackStep DEF StackPair
<1>8. h = With(x, p, LAMBDA a : [y EXCEPT !.flags = FromRflags(a)])
  BY <1>1 DEF StackHandler, POPF
<1>9. /\ Truncate(w, x.mem[x.gpr["sp"]]) = v
      /\ y \in CpuStates /\ y.reason = "none"
      /\ y.gpr = [s.gpr EXCEPT !["sp"] = (s.gpr["sp"] + 0) % Container]
  <2>1. w + 0 = w
    BY <1>1 DEF Widths
  <2> HIDE DEF x, w
  <2> QED BY <1>1, <1>2, <1>6, <2>1, PoppedPushed
<1>10. y.gpr = s.gpr
  BY <1>1, <1>9, PointerKept
<1>11. (p.reason = "none" /\ p.v = v) \/ p.reason = "page_fault"
  <2>1. x \in CpuStates
    BY <1>6 DEF Holds, OnStack
  <2> QED BY <1>1, <1>9, <2>1, TopRead
<1> HIDE DEF h, x, y, w, p
<1>12. p.reason = "none"
  BY <1>6, <1>7, <1>8, <1>11 DEF With, Holds, OnStack, CpuStates
<1>13. h = [y EXCEPT !.flags = FromRflags(v)]
  BY <1>8, <1>11, <1>12 DEF With
<1>14. h \in CpuStates /\ h.flags = s.flags /\ h.gpr = y.gpr
  BY <1>1, <1>2, <1>9, <1>13, Parts DEF CpuStates
<1> QED
  BY <1>7, <1>10, <1>14 DEF Stepped

(* CALL and RET come back.                                                 *)
LEMMA CallRet ==
    ASSUME NEW s, NEW i, NEW j, NEW u, NEW t, StackPair(s, i, j, u, t), i.op = "call", j.op = "ret"
    PROVE  Undone(i, j, s, t)
<1> SUFFICES ASSUME s.rip + 1 < Modulus(i.w)
             PROVE  t.rip = s.rip + 1 /\ t.gpr["sp"] = (s.gpr["sp"] + j.imm) % Container
  BY DEF Undone
<1> DEFINE w == i.w
           S == Ready(s)
           r == StackHandler(S, i)
           x == Ready(u)
           h == StackHandler(x, j)
           y == Popped(x, w + j.imm)
           v == s.rip + 1
           p == pop_width(x, w)
           g == push_width(S, v, w)
<1>1. /\ s \in CpuStates /\ S \in CpuStates /\ S.reason = "none" /\ S.rip = s.rip
      /\ w \in Widths /\ j.w = w /\ j.imm \in Nat /\ i \in Instructions /\ i.dst \in Readable(w) /\ i.target \in Nat
  BY ReadyParts DEF StackPair, Decoded, Instructions
<1>2. v \in Nat /\ v \in Int /\ Truncate(w, v) = v
  <2>1. v \in Nat
    BY <1>1, Parts
  <2>2. v < Modulus(w)
    OBVIOUS
  <2> HIDE DEF v, w
  <2>3. v \in 0 .. Modulus(w) - 1
    BY <1>1, <2>1, <2>2, ModulusType
  <2> QED BY <1>1, <2>1, <2>3, ResidueSmall
<1>3. r.reason = "none" /\ (r \in CpuStates => Stepped(r, u))
  BY StackStep DEF StackPair
<1>4. g.reason = "none" /\ \E n \in Nat : r = Jump(g, n)
  <2> DEFINE o == read_operand(S, i, i.dst, w)
  <2>1. CASE i.dst = "imm"
    <3>1. r = Then(g, LAMBDA q : Jump(q, i.target))
      BY <1>1, <2>1 DEF StackHandler, CALL
    <3> HIDE DEF r, g
    <3> QED BY <1>1, <1>3, <3>1 DEF Then
  <2>2. CASE i.dst # "imm"
    <3>1. r = With(S, o, LAMBDA n : Then(g, LAMBDA q : Jump(q, n)))
      BY <1>1, <2>2 DEF StackHandler, CALL
    <3>2. Loaded(S, i, i.dst, w, o) \/ Unreadable(S, i, i.dst, o)
      BY <1>1, ReadOperand
    <3> HIDE DEF r, g, o
    <3>3. o.reason = "none"
      BY <1>1, <1>3, <3>1 DEF With, CpuStates
    <3>4. r = Then(g, LAMBDA q : Jump(q, o.v))
      BY <3>1, <3>3 DEF With
    <3>5. o.v \in Nat
      <4>1. o.v \in 0 .. Modulus(w) - 1
        BY <3>2, <3>3 DEF Loaded, Unreadable
      <4> HIDE DEF w
      <4> QED BY <1>1, <4>1, ResidueSmall
    <3> QED BY <1>3, <3>4, <3>5 DEF Then
  <2> QED BY <2>1, <2>2
<1> HIDE DEF v
<1>5. OnStack(S, w, v, g) /\ SameControl(S, g)
  BY <1>1, <1>2, <1>4, PushOutcome
<1> HIDE DEF g, r
<1>6. OnStack(S, w, v, r)
  BY <1>4, <1>5 DEF OnStack, Jump, CpuStates
<1>7. Holds(s, w, v, x) /\ u \in CpuStates
  BY <1>1, <1>3, <1>6, HoldsPushed DEF OnStack, Stepped
<1>8. h.reason = "none" /\ (h \in CpuStates => Stepped(h, t))
  BY <1>7, StackStep DEF StackPair
<1>9. h = With(x, p, LAMBDA a : Jump(y, a))
  BY <1>1 DEF StackHandler, ret_width
<1>10. /\ Truncate(w, x.mem[x.gpr["sp"]]) = v
       /\ y \in CpuStates /\ y.reason = "none"
       /\ y.gpr = [s.gpr EXCEPT !["sp"] = (s.gpr["sp"] + j.imm) % Container]
  <2> HIDE DEF x, w
  <2> QED BY <1>1, <1>2, <1>7, PoppedPushed
<1>11. (p.reason = "none" /\ p.v = v) \/ p.reason = "page_fault"
  <2>1. x \in CpuStates
    BY <1>7 DEF Holds, OnStack
  <2> QED BY <1>1, <1>10, <2>1, TopRead
<1> HIDE DEF h, x, y, w, p
<1>12. p.reason = "none"
  BY <1>7, <1>8, <1>9, <1>11 DEF With, Holds, OnStack, CpuStates
<1>13. h = Jump(y, v)
  BY <1>9, <1>11, <1>12 DEF With
<1>14. h \in CpuStates /\ h.rip = v /\ h.taken = TRUE /\ h.gpr = y.gpr
  BY <1>2, <1>10, <1>13 DEF CpuStates, Jump
<1>15. t.rip = v /\ t.gpr["sp"] = y.gpr["sp"]
  BY <1>8, <1>14 DEF Stepped
<1>16. y.gpr["sp"] = (s.gpr["sp"] + j.imm) % Container
  BY <1>1, <1>10, Parts DEF Gprs
<1> QED
  BY <1>15, <1>16 DEF v

(* ENTER and LEAVE restore RSP and RBP.                                    *)
LEMMA EnterLeave ==
    ASSUME NEW s, NEW i, NEW j, NEW u, NEW t, StackPair(s, i, j, u, t), i.op = "enter", j.op = "leave"
    PROVE  Undone(i, j, s, t)
<1> SUFFICES ASSUME i.w = 8 PROVE t.gpr = s.gpr
  BY DEF Undone
<1> DEFINE S == Ready(s)
           r == StackHandler(S, i)
           x == Ready(u)
           h == StackHandler(x, j)
           bp == s.gpr["bp"]
           q == Below(s, 8)
           e == Truncate(8, q - i.imm)
           g == write_memory_checked(S, q, bp, 8)
           p == read_memory_checked(x, q, 8)
<1>1. /\ s \in CpuStates /\ S \in CpuStates /\ S.reason = "none" /\ S.gpr = s.gpr
      /\ 8 \in Widths /\ j.w = 8 /\ i.imm \in Nat
  BY ReadyParts DEF StackPair, Decoded, Instructions, Widths
<1>2. /\ bp \in Values /\ bp \in Int /\ s.gpr["sp"] \in Int /\ s.gpr \in [Gprs -> Values]
      /\ \A o \in Gprs : s.gpr[o] \in 0 .. Container - 1
  BY <1>1, Parts DEF Gprs
<1>3. \A n \in Int : Truncate(8, n) = n % Container /\ Truncate(8, n) \in Values
  BY <1>1, Residue DEF Truncate, Container
<1>4. q \in Values /\ q = Truncate(8, s.gpr["sp"] - 8) /\ q \in Int
  <2> DEFINE z == s.gpr["sp"] - 8
  <2>1. z \in Int
    BY <1>2
  <2> HIDE DEF z
  <2>2. Truncate(8, z) = z % Container /\ Truncate(8, z) \in Values
    BY <1>3, <2>1
  <2>3. q = z % Container
    BY DEF Below, z
  <2>4. q \in Values /\ q = Truncate(8, z)
    BY <2>2, <2>3, Zenon
  <2>5. Values \subseteq Int
    BY ValuesAreNats
  <2>6. q \in Int
    BY <2>4, <2>5, Zenon
  <2> QED BY <2>4, <2>6 DEF z
<1>5. e \in Values
  BY <1>1, <1>3, <1>4
<1>6. \A n \in 0 .. Container - 1 : Truncate(8, n) = n
  BY <1>1, ResidueSmall DEF Container
<1>7. bp \in 0 .. Container - 1 /\ q \in 0 .. Container - 1 /\ s.gpr["sp"] \in 0 .. Container - 1
  BY <1>2, <1>4 DEF Values, Gprs
<1>8. r = IF g.reason = "none" THEN write_register(write_register(g, "bp", q, 8), "sp", q - i.imm, 8) ELSE g
  <2>1. Truncate(8, read_register(S, "sp", 8) - 8) = q
    BY <1>1, <1>4, <1>6, <1>7 DEF read_register, HighBytes
  <2> HIDE DEF q
  <2>2. r = ENTER(S, i)
    BY DEF StackHandler
  <2> HIDE DEF q, r
  <2> QED BY <1>1, <2>1, <2>2 DEF ENTER, Then
<1>9. r.reason = "none" /\ (r \in CpuStates => Stepped(r, u))
  BY StackStep DEF StackPair
<1> HIDE DEF r
<1>10. g.reason = "none"
  BY <1>8, <1>9
<1>11. q \in Addresses /\ g = [S EXCEPT !.mem[q] = bp]
  <2>1. Truncate(8, bp) = bp
    BY <1>6, <1>7
  <2>2. S \in CpuStates /\ bp \in Int
    BY <1>1, <1>2
  <2>3. q \in Addresses /\ g = [S EXCEPT !.mem[q] = Truncate(8, bp)]
    <3> DEFINE k == write_memory_checked(S, q, bp, 8)
    <3>1. k = write_memory_checked(S, q, bp, 8)
      OBVIOUS
    <3>2. g = k /\ k.reason = "none"
      BY <1>10
    <3> HIDE DEF q, bp, g, S, k
    <3>3. q \in Addresses /\ k = [S EXCEPT !.mem[q] = Truncate(8, bp)]
      BY <2>2, <3>1, <3>2, StoreOutcome
    <3> QED BY <3>2, <3>3
  <2> QED BY <2>1, <2>3
<1> HIDE DEF q, e, bp
<1>12. g \in CpuStates /\ g.gpr = s.gpr /\ g.mem = [s.mem EXCEPT ![q] = bp] /\ g.taken = S.taken
  <2>1. S.mem = s.mem
    BY <1>1, ReadyParts
  <2> QED BY <1>1, <1>2, <1>11, <2>1 DEF CpuStates
<1> HIDE DEF g
<1>13. r = [[g EXCEPT !.gpr["bp"] = q] EXCEPT !.gpr["sp"] = e]
  <2> DEFINE a == write_register(g, "bp", q, 8)
  <2>1. r = write_register(a, "sp", q - i.imm, 8)
    BY <1>8, <1>10
  <2>2. a = [g EXCEPT !.gpr["bp"] = q]
    <3>1. Truncate(8, q) = q
      BY <1>6, <1>7
    <3> QED BY <3>1 DEF write_register, Holder, HighBytes
  <2> HIDE DEF a
  <2>3. r = [a EXCEPT !.gpr["sp"] = e]
    BY <2>1 DEF write_register, Holder, HighBytes, e
  <2> QED BY <2>2, <2>3
<1>14. /\ r \in CpuStates /\ r.mem = g.mem
       /\ r.gpr = [s.gpr EXCEPT !["bp"] = q, !["sp"] = e]
  BY <1>4, <1>5, <1>12, <1>13 DEF CpuStates, Gprs
<1>15. u \in CpuStates /\ x \in CpuStates /\ x.reason = "none" /\ x.gpr = r.gpr /\ x.mem = g.mem
  <2>1. u \in CpuStates /\ u.gpr = r.gpr /\ u.mem = r.mem
    BY <1>9, <1>14 DEF Stepped
  <2> QED BY <1>14, <2>1, ReadyParts
<1>16. h.reason = "none" /\ (h \in CpuStates => Stepped(h, t))
  BY <1>15, StackStep DEF StackPair
<1>17. x.gpr["bp"] = q /\ x.mem[q] = bp
  <2>1. s.mem \in [Addresses -> Values]
    BY <1>1, Parts
  <2> QED BY <1>2, <1>11, <1>12, <1>14, <1>15, <2>1 DEF Gprs
<1>18. h = IF p.reason = "none" THEN write_register(write_register(x, "sp", q + 8, 8), "bp", p.v, 8)
           ELSE [x EXCEPT !.reason = p.reason, !.addr = p.addr]
  <2>1. read_register(x, "bp", 8) = q
    BY <1>6, <1>7, <1>17 DEF read_register, HighBytes
  <2>2. h = LEAVE(x, j)
    BY DEF StackHandler
  <2> HIDE DEF h, x
  <2> QED BY <1>1, <2>1, <2>2 DEF LEAVE, With
<1>19. p.reason = "none" => p.v = bp
  BY <1>6, <1>7, <1>17 DEF read_memory_checked, Got
<1> HIDE DEF h, x, p
<1>20. p.reason = "none"
  BY <1>15, <1>16, <1>18 DEF CpuStates
<1>21. h = [[x EXCEPT !.gpr["sp"] = s.gpr["sp"]] EXCEPT !.gpr["bp"] = bp]
  <2> DEFINE a == write_register(x, "sp", q + 8, 8)
  <2>1. h = write_register(a, "bp", bp, 8)
    BY <1>18, <1>19, <1>20
  <2>2. a = [x EXCEPT !.gpr["sp"] = Truncate(8, q + 8)]
    BY DEF write_register, Holder, HighBytes
  <2> HIDE DEF a
  <2>3. h = [a EXCEPT !.gpr["bp"] = bp]
    <3>1. Truncate(8, bp) = bp
      BY <1>6, <1>7
    <3> QED BY <2>1, <3>1 DEF write_register, Holder, HighBytes
  <2>5. Truncate(8, q + 8) = s.gpr["sp"]
    <3> DEFINE sp == s.gpr["sp"]
    <3>1. sp \in Int /\ sp \in 0 .. Container - 1 /\ q = (sp - 8) % Container
      BY <1>2, <1>7 DEF q, Below
    <3>2. Container \in Nat \ {0}
      BY ValuesAreNats
    <3> HIDE DEF sp
    <3>3. (((sp - 8) % Container) + (8 + 0)) % Container = (sp + 0) % Container
      BY <3>1, <3>2, PointerBack
    <3>4. (sp + 0) % Container = sp
      BY <1>1, PointerKept DEF sp
    <3>5. (q + 8) % Container = sp
      BY <3>1, <3>3, <3>4
    <3>6. q + 8 \in Int
      BY <1>4
    <3> QED BY <1>3, <3>5, <3>6 DEF sp
  <2> QED BY <2>2, <2>3, <2>5
<1>22. h \in CpuStates /\ h.gpr = [x.gpr EXCEPT !["sp"] = s.gpr["sp"], !["bp"] = bp]
  <2>1. s.gpr["sp"] \in Values
    BY <1>2 DEF Gprs
  <2> QED BY <1>2, <1>15, <1>21, <2>1 DEF CpuStates, Gprs
<1>23. h.gpr = s.gpr
  <2>1. h.gpr = [[s.gpr EXCEPT !["bp"] = q, !["sp"] = e] EXCEPT !["sp"] = s.gpr["sp"], !["bp"] = bp]
    BY <1>14, <1>15, <1>22
  <2> QED BY <1>2, <2>1 DEF bp, Gprs
<1> QED
  BY <1>16, <1>22, <1>23 DEF Stepped

(* The three slots of an interrupt frame are apart.                        *)
LEMMA SlotsApart ==
    ASSUME NEW c \in Nat, c > 18, NEW a \in Int, NEW q \in 0 .. c - 1, q = a % c,
           NEW q2, q2 = (q - 2) % c, NEW q3, q3 = (q2 - 8) % c
    PROVE  q # q2 /\ q # q3 /\ q2 # q3
<1>1. c \in Nat \ {0}
  OBVIOUS
<1>2. q2 \in 0 .. c - 1 /\ (q2 = q - 2 \/ q2 = q - 2 + c)
  <2> DEFINE z == q - 2
  <2>1. z \in Int /\ (z \in 0 .. c - 1 \/ z \in -c .. -1)
    OBVIOUS
  <2> HIDE DEF z
  <2>2. z % c \in 0 .. c - 1 /\ (z % c = z \/ z % c = z + c)
    BY <1>1, <2>1, WrapOnce
  <2> QED BY <2>2 DEF z
<1>3. q3 \in 0 .. c - 1 /\ (q3 = q2 - 8 \/ q3 = q2 - 8 + c)
  <2> DEFINE z == q2 - 8
  <2>1. z \in Int /\ (z \in 0 .. c - 1 \/ z \in -c .. -1)
    BY <1>2
  <2> HIDE DEF z
  <2>2. z % c \in 0 .. c - 1 /\ (z % c = z \/ z % c = z + c)
    BY <1>1, <2>1, WrapOnce
  <2> QED BY <2>2 DEF z
<1> QED
  BY <1>2, <1>3

(* The container is large enough for the flags and for a frame.            *)
LEMMA ContainerLarge == Container > 63
<1>1. Modulus(1) \in Nat \ {0, 1} /\ Modulus(2) = Modulus(1) * Modulus(1) /\ Modulus(4) = Modulus(2) * Modulus(2)
      /\ Modulus(8) = Modulus(4) * Modulus(4)
  BY Moduli DEF Widths
<1> DEFINE a == Modulus(1)
           b == Modulus(2)
           c == Modulus(4)
           d == Modulus(8)
<1>2. \A x, y \in Nat : x >= y => x * x \in Nat /\ x * x >= y * y
  <2> TAKE x \in Nat, y \in Nat
  <2> HAVE x >= y
  <2>1. x * x >= x * y /\ x * y >= y * y /\ x * x \in Nat /\ x * y \in Nat /\ y * y \in Nat
    OBVIOUS
  <2> QED BY <2>1
<1>3. a \in Nat /\ a >= 2 /\ b = a * a /\ c = b * b /\ d = c * c
  BY <1>1
<1> HIDE DEF a, b, c, d
<1>4. b \in Nat /\ b >= 4
  <2>1. a * a \in Nat /\ a * a >= 2 * 2
    BY <1>2, <1>3
  <2> QED BY <1>3, <2>1
<1>5. c \in Nat /\ c >= 16
  <2>1. b * b \in Nat /\ b * b >= 4 * 4
    BY <1>2, <1>4
  <2> QED BY <1>3, <2>1
<1>6. d \in Nat /\ d >= 256
  <2>1. c * c \in Nat /\ c * c >= 16 * 16
    BY <1>2, <1>5
  <2> QED BY <1>3, <2>1
<1> QED
  BY <1>6 DEF Container, d

(* INT and IRET restore the whole interrupted context.                     *)
LEMMA IntIret ==
    ASSUME NEW s, NEW i, NEW j, NEW u, NEW t, StackPair(s, i, j, u, t), i.op = "int", j.op = "iret"
    PROVE  Undone(i, j, s, t)
<1> SUFFICES ASSUME s.rip + 1 < Container, s.cs < Modulus(2)
             PROVE  t.rip = s.rip + 1 /\ t.cs = s.cs /\ t.flags = s.flags /\ t.gpr = s.gpr
  BY DEF Undone
<1> DEFINE S == Ready(s)
           r == StackHandler(S, i)
           f == Rflags(s.flags)
           n == s.rip + 1
           a == push_width(S, f, 8)
           b == push_width(a, s.cs, 2)
           g == push_width(b, n, 8)
           x == Ready(u)
           h == StackHandler(x, j)
           y == Popped(x, 8)
           z == Popped(y, 2)
           e == Popped(z, 8)
<1>1. /\ s \in CpuStates /\ S \in CpuStates /\ S.reason = "none" /\ S.rip = s.rip /\ S.cs = s.cs /\ S.flags = s.flags
      /\ S.gpr = s.gpr /\ S.mem = s.mem
      /\ 8 \in Widths /\ 2 \in Widths /\ i.imm \in Nat /\ (i.target \in Nat \/ i.target = NoAddress)
  BY ReadyParts DEF StackPair, Decoded, Instructions, Widths
<1>2. f \in Int /\ Truncate(8, f) = f /\ FromRflags(f) = s.flags
  <2>1. s.flags \in Flags
    BY <1>1, Parts
  <2>2. f \in 0 .. 63 /\ FromRflags(f) = s.flags
    BY <2>1, FlagsRoundTrip
  <2> HIDE DEF f
  <2>3. f \in 0 .. Modulus(8) - 1
    BY <2>2, ContainerLarge, ValuesAreNats DEF Container
  <2> QED BY <1>1, <2>2, <2>3, ResidueSmall
<1>3. n \in Nat /\ n \in Int /\ Truncate(8, n) = n
  <2>1. n \in Nat
    BY <1>1, Parts
  <2>2. n < Modulus(8)
    BY DEF Container
  <2> HIDE DEF n
  <2>3. n \in 0 .. Modulus(8) - 1
    BY <1>1, <2>1, <2>2, ModulusType
  <2> QED BY <1>1, <2>1, <2>3, ResidueSmall
<1>4. s.cs \in Nat /\ s.cs \in Int /\ Truncate(2, s.cs) = s.cs
  <2>1. s.cs \in Nat
    BY <1>1, Parts
  <2>2. s.cs \in 0 .. Modulus(2) - 1
    BY <1>1, <2>1, ModulusType
  <2> QED BY <1>1, <2>1, <2>2, ResidueSmall
<1>5. r.reason = "none" /\ (r \in CpuStates => Stepped(r, u))
  BY StackStep DEF StackPair
<1>6. /\ a.reason = "none" /\ b.reason = "none" /\ g.reason = "none" /\ i.target \in Nat
      /\ r = Jump([g EXCEPT !.cs = i.imm], i.target)
  <2>1. r = dispatch_interrupt(S, i)
    BY DEF StackHandler
  <2>2. i.target # NoAddress
    BY <1>1, <1>5, <2>1 DEF dispatch_interrupt, CpuStates
  <2> HIDE DEF r
  <2>3. r = IF a.reason = "none"
            THEN IF b.reason = "none" THEN IF g.reason = "none" THEN Jump([g EXCEPT !.cs = i.imm], i.target) ELSE g ELSE b
            ELSE a
    <3>1. a = push_width(S, Rflags(S.flags), 8) /\ b = push_width(a, S.cs, 2) /\ g = push_width(b, S.rip + 1, 8)
      BY <1>1
    <3> HIDE DEF S, a, b, g
    <3> QED BY <2>1, <2>2, <3>1 DEF dispatch_interrupt, Then
  <2> HIDE DEF a, b, g
  <2> QED BY <1>1, <1>5, <2>2, <2>3
<1> HIDE DEF f, n
<1>7. OnStack(S, 8, f, a) /\ SameControl(S, a)
  BY <1>1, <1>2, <1>6, PushOutcome
<1> HIDE DEF a
<1>8. OnStack(a, 2, s.cs, b) /\ SameControl(a, b)
  BY <1>1, <1>4, <1>6, <1>7, PushOutcome DEF OnStack
<1> HIDE DEF b
<1>9. OnStack(b, 8, n, g) /\ SameControl(b, g)
  BY <1>1, <1>3, <1>6, <1>8, PushOutcome DEF OnStack
<1> HIDE DEF g, r
<1>10. r \in CpuStates /\ r.gpr = g.gpr /\ r.mem = g.mem
  BY <1>1, <1>6, <1>9 DEF OnStack, Jump, CpuStates
<1>11. u \in CpuStates /\ x \in CpuStates /\ x.reason = "none" /\ x.gpr = g.gpr /\ x.mem = g.mem
  BY <1>5, <1>10, ReadyParts DEF Stepped
<1>12. h.reason = "none" /\ (h \in CpuStates => Stepped(h, t))
  BY <1>11, StackStep DEF StackPair
<1> DEFINE q1 == Below(S, 8)
           q2 == Below(a, 2)
           q3 == Below(b, 8)
<1>13. /\ a.gpr["sp"] = q1 /\ b.gpr["sp"] = q2 /\ x.gpr["sp"] = q3
       /\ a.gpr \in [Gprs -> Values] /\ b.gpr \in [Gprs -> Values] /\ S.gpr \in [Gprs -> Values]
       /\ q1 \in Addresses /\ q2 \in Addresses /\ q3 \in Addresses
       /\ S.mem \in [Addresses -> Values]
       /\ x.mem = [S.mem EXCEPT ![q1] = f, ![q2] = s.cs, ![q3] = n]
  <2>1. /\ S.gpr \in [Gprs -> Values] /\ a.gpr \in [Gprs -> Values] /\ b.gpr \in [Gprs -> Values]
        /\ S.mem \in [Addresses -> Values] /\ "sp" \in Gprs
    BY <1>1, <1>7, <1>8, Parts DEF OnStack, Gprs
  <2> QED BY <1>2, <1>3, <1>4, <1>7, <1>8, <1>9, <1>11, <2>1 DEF OnStack
<1>14. q1 # q2 /\ q1 # q3 /\ q2 # q3
  <2>1. S.gpr["sp"] \in Int
    BY <1>1, Parts DEF Gprs
  <2> DEFINE k == S.gpr["sp"] - 8
  <2>2. k \in Int
    BY <2>1
  <2>3. q1 = k % Container /\ q2 = (q1 - 2) % Container /\ q3 = (q2 - 8) % Container
    BY <1>13 DEF Below
  <2> HIDE DEF q1, q2, q3, k
  <2>4. Container \in Nat /\ Container > 18 /\ q1 \in 0 .. Container - 1
    BY <2>2, <2>3, ContainerLarge, ValuesAreNats
  <2> QED BY <2>2, <2>3, <2>4, SlotsApart
<1> HIDE DEF q1, q2, q3
<1>15. x.mem[q3] = n /\ x.mem[q2] = s.cs /\ x.mem[q1] = f
  BY <1>13, <1>14
<1>16. y \in CpuStates /\ y.mem = x.mem /\ y.gpr = b.gpr
  <2>1. b \in CpuStates /\ x.gpr = [b.gpr EXCEPT !["sp"] = Below(b, 8)]
    BY <1>8, <1>9, <1>11 DEF OnStack
  <2>2. y = Popped(x, 8)
    OBVIOUS
  <2> HIDE DEF x, y
  <2>3. y \in CpuStates /\ y.mem = x.mem /\ y.gpr = b.gpr
    BY <1>1, <1>11, <2>1, <2>2, PointerRestored
  <2> QED BY <2>1, <2>3
<1>17. z \in CpuStates /\ z.mem = x.mem /\ z.gpr = a.gpr
  <2>1. a \in CpuStates /\ y.gpr = [a.gpr EXCEPT !["sp"] = Below(a, 2)]
    BY <1>7, <1>8, <1>16 DEF OnStack
  <2>2. z = Popped(y, 2)
    OBVIOUS
  <2> HIDE DEF y, z
  <2>3. z \in CpuStates /\ z.mem = y.mem /\ z.gpr = a.gpr
    BY <1>1, <1>16, <2>1, <2>2, PointerRestored
  <2> QED BY <1>16, <2>1, <2>3
<1>18. e \in CpuStates /\ e.gpr = S.gpr /\ e.reason = "none"
  <2>1. z.gpr = [S.gpr EXCEPT !["sp"] = Below(S, 8)]
    BY <1>7, <1>17 DEF OnStack
  <2>2. e = Popped(z, 8)
    OBVIOUS
  <2>3. e.reason = "none"
    BY <1>11 DEF Popped, CpuStates
  <2> HIDE DEF z, e, S
  <2>4. e \in CpuStates /\ e.mem = z.mem /\ e.gpr = S.gpr
    BY <1>1, <1>17, <2>1, <2>2, PointerRestored
  <2> QED BY <1>1, <2>3, <2>4
<1> DEFINE p1 == pop_width(x, 8)
           p2 == pop_width(y, 2)
           p3 == pop_width(z, 8)
<1>19. p1.reason = "none" => p1.v = n
  <2> HIDE DEF p1, x
  <2>1. Truncate(8, x.mem[x.gpr["sp"]]) = n
    BY <1>3, <1>13, <1>15
  <2> QED BY <1>1, <1>11, <2>1, TopRead DEF p1
<1>20. p2.reason = "none" => p2.v = s.cs
  <2>1. Truncate(2, y.mem[y.gpr["sp"]]) = s.cs
    BY <1>4, <1>13, <1>15, <1>16
  <2> HIDE DEF p2, y
  <2> QED BY <1>1, <1>16, <2>1, TopRead DEF p2
<1>21. p3.reason = "none" => p3.v = f
  <2>1. Truncate(8, z.mem[z.gpr["sp"]]) = f
    BY <1>2, <1>13, <1>15, <1>17
  <2> HIDE DEF p3, z
  <2> QED BY <1>1, <1>17, <2>1, TopRead DEF p3
<1>22. h = IF p1.reason = "none"
           THEN IF p2.reason = "none"
                THEN IF p3.reason = "none" THEN Jump([e EXCEPT !.cs = p2.v, !.flags = FromRflags(p3.v)], p1.v)
                     ELSE [z EXCEPT !.reason = p3.reason, !.addr = p3.addr]
                ELSE [y EXCEPT !.reason = p2.reason, !.addr = p2.addr]
           ELSE [x EXCEPT !.reason = p1.reason, !.addr = p1.addr]
  <2>1. h = iret_width(x, j)
    BY DEF StackHandler, StackPair
  <2> HIDE DEF h, x
  <2>2. h = With(x, p1, LAMBDA k : With(y, p2, LAMBDA l : With(z, p3, LAMBDA m :
                Jump([e EXCEPT !.cs = l, !.flags = FromRflags(m)], k))))
    BY <2>1 DEF iret_width
  <2> HIDE DEF p1, p2, p3, y, z, e
  <2> QED BY <2>2 DEF With
<1> HIDE DEF h, x, y, z, e, p1, p2, p3
<1>23. p1.reason = "none" /\ p2.reason = "none" /\ p3.reason = "none"
  BY <1>11, <1>12, <1>16, <1>17, <1>22 DEF CpuStates
<1>24. h = Jump([e EXCEPT !.cs = s.cs, !.flags = s.flags], n)
  BY <1>2, <1>19, <1>20, <1>21, <1>22, <1>23
<1>25. h \in CpuStates /\ h.rip = n /\ h.taken = TRUE /\ h.gpr = s.gpr /\ h.cs = s.cs /\ h.flags = s.flags
  <2>1. s.flags \in Flags
    BY <1>1, Parts
  <2> QED BY <1>1, <1>3, <1>4, <1>18, <1>24, <2>1 DEF CpuStates, Jump
<1> QED
  BY <1>12, <1>25 DEF Stepped, n

(* A program of two stack instructions that no hook repaired has executed  *)
(* each of them once.                                                      *)
StackProgram == Len(prog) = 2 /\ repairs = 0 /\ prog[1].op \in StackOps /\ prog[2].op \in StackOps
StackInv ==
    StackProgram =>
        /\ pc \in 1 .. 3
        /\ pc = 1 /\ cpu.reason = "none" => cpu = start
        /\ pc = 2 /\ cpu.reason = "none" => cpu = Step(start, prog[1])
        /\ pc = 3 /\ prog[1].w = prog[2].w => \E u : StackPair(start, prog[1], prog[2], u, cpu)

(* So it is at every point of such a program: a step that failed is not    *)
(* executed again without a repair.                                        *)
THEOREM StackStepsOnce == Spec => []StackInv
<1>1. Init => StackInv
  BY DEF Init, StackInv
<1>2. StackInv /\ ProgramInv /\ [Next]_mvars => StackInv'
  <2> SUFFICES ASSUME StackInv, ProgramInv, [Next]_mvars, StackProgram'
               PROVE  StackInv'
    BY DEF StackInv
  <2> DEFINE i == prog[1]
             j == prog[2]
  <2>1. prog' = prog /\ start' = start
    BY DEF Next, Execute, Repair, mvars
  <2>2. ASSUME NEW p \in {"ro", "rw"}, Repair(p) PROVE FALSE
    <3>1. repairs' = repairs + 1 /\ repairs' = 0
      BY <2>2 DEF Repair, StackProgram
    <3> QED BY <3>1 DEF ProgramInv
  <2>3. CASE UNCHANGED mvars
    BY <2>3 DEF StackInv, StackProgram, mvars
  <2>4. CASE Execute
    <3>1. /\ pc <= 2 /\ cpu.reason = "none" /\ cpu' = Step(cpu, prog[pc]) /\ repairs' = repairs
          /\ pc' = IF Finished(cpu, prog[pc], cpu') THEN pc + 1 ELSE pc
      BY <2>1, <2>4 DEF Execute, StackProgram
    <3>2. StackProgram /\ i.op \in StackOps /\ j.op \in StackOps
      BY <2>1, <3>1 DEF StackProgram
    <3>3. /\ pc \in 1 .. 2
          /\ pc = 1 => cpu = start
          /\ pc = 2 => cpu = Step(start, i)
      BY <3>1, <3>2 DEF StackInv
    <3>4. prog[pc].op \in StackOps /\ prog[pc].op \notin StringMoves
      BY <3>2, <3>3 DEF StackOps, StringMoves
    <3>5. pc' = IF cpu'.reason = "none" THEN pc + 1 ELSE pc
      BY <3>1, <3>4 DEF Finished
    <3>6. CASE pc = 1
      BY <2>1, <3>1, <3>3, <3>5, <3>6 DEF StackInv
    <3>7. CASE pc = 2
      <4>1. pc' = 3 /\ i.w = j.w => StackPair(start, i, j, cpu, cpu')
        <5>1. Decoded(i) /\ Decoded(j) /\ start \in CpuStates
          <6>1. 1 \in DOMAIN prog /\ 2 \in DOMAIN prog
            BY <3>2 DEF ProgramInv, StackProgram
          <6>2. i.op \in IntegerOps /\ j.op \in IntegerOps
            BY <3>2 DEF IntegerOps
          <6> QED BY <6>1, <6>2 DEF ProgramInv
        <5>2. cpu' = Step(cpu, j) /\ cpu = Step(start, i) /\ cpu.reason = "none"
          BY <3>1, <3>3, <3>7
        <5>3. pc' = 3 => cpu'.reason = "none"
          BY <3>5, <3>7
        <5> HIDE DEF i, j
        <5> QED BY <3>2, <5>1, <5>2, <5>3 DEF StackPair
      <4>2. pc' \in 2 .. 3 /\ (pc' = 2 => cpu'.reason # "none")
        BY <3>5, <3>7
      <4> QED BY <2>1, <4>1, <4>2 DEF StackInv
    <3> QED BY <3>3, <3>6, <3>7
  <2> QED BY <2>2, <2>3, <2>4 DEF Next
<1> QED
  BY <1>1, <1>2, ProgramsWellFormed, PTL DEF Spec

(* Stack instructions undo each other: PUSH and POP, PUSHF and POPF, CALL  *)
(* and RET, ENTER and LEAVE, INT and IRET, at every width, wherever the    *)
(* stack pointer is, also where it wraps.                                  *)
THEOREM StackPairsUndo == Spec => []StackRoundTrip
<1>1. StackInv => StackRoundTrip
  <2> SUFFICES ASSUME StackInv, Done, Len(prog) = 2, repairs = 0, prog[1].w = prog[2].w,
                      NEW i, i = prog[1], NEW j, j = prog[2]
               PROVE  Undone(i, j, start, cpu)
    BY DEF StackRoundTrip
  <2>1. CASE i.op \in StackOps /\ j.op \in StackOps
    <3>1. StackProgram
      BY <2>1 DEF StackProgram
    <3>2. pc = 3
      BY <3>1 DEF StackInv, Done
    <3>3. PICK u : StackPair(start, i, j, u, cpu)
      BY <3>1, <3>2 DEF StackInv
    <3>4. CASE <<i.op, j.op>> \in {<<"push", "pop">>, <<"pushf", "popf">>, <<"call", "ret">>, <<"enter", "leave">>,
                                   <<"int", "iret">>}
      BY <3>3, <3>4, PushPop, PushfPopf, CallRet, EnterLeave, IntIret
    <3>5. CASE <<i.op, j.op>> \notin {<<"push", "pop">>, <<"pushf", "popf">>, <<"call", "ret">>, <<"enter", "leave">>,
                                      <<"int", "iret">>}
      BY <3>5 DEF Undone
    <3> QED BY <3>4, <3>5
  <2>2. CASE ~(i.op \in StackOps /\ j.op \in StackOps)
    <3>1. <<i.op, j.op>> \notin {<<"push", "pop">>, <<"pushf", "popf">>, <<"call", "ret">>, <<"enter", "leave">>,
                                 <<"int", "iret">>}
      BY <2>2 DEF StackOps
    <3> QED BY <3>1 DEF Undone
  <2> QED BY <2>1, <2>2
<1> QED
  BY <1>1, StackStepsOnce, PTL

-----------------------------------------------------------------------------
(* Shifts and rotates, bit by bit.                                         *)

(* Bit j of a number, for the numbers the shifts make.                     *)
At(j, x) == Bit(2 ^ j, x)

(* Bit j of x is bit i of y.                                               *)
SameBit(j, x, i, y) == At(j, x) <=> At(i, y)

(* Bits are truth values.                                                  *)
LEMMA AtType == \A j, x : At(j, x) \in BOOLEAN
BY Zenon DEF At, Bit

(* A number put above k low bits: its bits move up by k.                   *)
LEMMA AtHigh ==
    ASSUME NEW j \in Nat, NEW k \in Nat, j <= Bits(8), k <= j, NEW h \in Int, NEW l \in 0 .. 2 ^ k - 1,
           NEW x, x = h * 2 ^ k + l
    PROVE  SameBit(j, x, j - k, h)
<1> DEFINE p == 2 ^ k
           e == 2 ^ (j - k)
           d == 2 ^ j
           q == h \div e
           r == h % e
<1>1. j - k \in Nat /\ (j - k) + k <= Bits(8) /\ (j - k) + k = j /\ k + 0 <= Bits(8) /\ (j - k) + 0 <= Bits(8)
  BY BitsType DEF Widths
<1>2. p \in Nat \ {0} /\ e \in Nat \ {0} /\ d = e * p
  <2>1. 2 ^ k \in Nat \ {0}
    BY <1>1, PowerSum
  <2>2. 2 ^ (j - k) \in Nat \ {0} /\ 2 ^ ((j - k) + k) = 2 ^ (j - k) * 2 ^ k
    BY <1>1, PowerSum
  <2> QED BY <1>1, <2>1, <2>2
<1>3. l \in 0 .. p - 1 /\ x = h * p + l
  OBVIOUS
<1>4. At(j, x) = ((x \div d) % 2 = 1) /\ At(j - k, h) = (q % 2 = 1)
  BY DEF At, Bit
<1> HIDE DEF p, e, d
<1>5. q \in Int /\ r \in 0 .. e - 1 /\ h = e * q + r
  BY <1>2, FloorParts
<1> HIDE DEF q, r
<1>6. h * p = e * p * q + r * p
  BY <1>2, <1>5
<1> DEFINE z == r * p + l
<1>7. z \in 0 .. d - 1
  <2>1. r <= e - 1 /\ r \in Nat /\ r * p \in Nat
    BY <1>2, <1>5
  <2>2. r * p <= (e - 1) * p
    BY <1>2, <2>1
  <2>3. (e - 1) * p = e * p - p
    BY <1>2
  <2> QED BY <1>2, <1>3, <2>1, <2>2, <2>3
<1>8. x = d * q + z
  BY <1>2, <1>3, <1>5, <1>6, <1>7
<1>9. d \in Nat \ {0}
  BY <1>2
<1> HIDE DEF z
<1>10. x \in Int
  BY <1>5, <1>7, <1>8, <1>9
<1>11. x \div d = q
  BY <1>5, <1>7, <1>8, <1>9, <1>10, FloorUnique
<1> QED
  BY <1>4, <1>11 DEF SameBit

(* The low bits are the ones put there.                                    *)
LEMMA AtLow ==
    ASSUME NEW j \in Nat, NEW k \in Nat, k <= Bits(8), j < k, NEW h \in Int, NEW l \in Int,
           NEW x, x = h * 2 ^ k + l
    PROVE  SameBit(j, x, j, l)
<1> DEFINE c == k - j - 1
           p == 2 ^ k
           e == 2 ^ c
           d == 2 ^ j
           q == l \div d
           r == l % d
<1>1. c \in Nat /\ j + 1 \in Nat /\ (j + 1) + c = k /\ j \in 0 .. Bits(8) /\ j + 0 <= Bits(8) /\ c + 0 <= Bits(8)
  BY BitsType DEF Widths
<1>2. d \in Nat \ {0} /\ e \in Nat \ {0} /\ p = (2 * d) * e
  <2> HIDE DEF c
  <2>1. 2 ^ j \in Nat \ {0} /\ 2 ^ c \in Nat \ {0}
    BY <1>1, PowerSum
  <2>2. 2 ^ (j + 1) = 2 * 2 ^ j
    BY <1>1, PowersAssumption
  <2>3. 2 ^ ((j + 1) + c) = 2 ^ (j + 1) * 2 ^ c
    BY <1>1, PowerSum
  <2> QED BY <1>1, <2>1, <2>2, <2>3
<1>3. x = h * p + l
  OBVIOUS
<1>4. At(j, x) = ((x \div d) % 2 = 1) /\ At(j, l) = (q % 2 = 1)
  BY DEF At, Bit
<1> HIDE DEF p, e, d, c
<1>5. q \in Int /\ r \in 0 .. d - 1 /\ l = d * q + r
  BY <1>2, FloorParts
<1> HIDE DEF q, r
<1> DEFINE g == h * e
           z == 2 * g + q
<1>6. g \in Int
  BY <1>2
<1>7. h * p = d * (2 * g)
  BY <1>2
<1> HIDE DEF g
<1>8. x = d * z + r /\ z \in Int
  <2>1. d * z = d * (2 * g) + d * q
    BY <1>2, <1>5, <1>6
  <2>0. z = 2 * g + q
    OBVIOUS
  <2> HIDE DEF z
  <2>2. z \in Int
    BY <1>5, <1>6, <2>0
  <2>3. x = d * (2 * g) + (d * q + r)
    BY <1>3, <1>5, <1>7
  <2>4. d * (2 * g) \in Int /\ d * q \in Int /\ r \in Int
    BY <1>2, <1>5, <1>6
  <2> QED BY <2>1, <2>2, <2>3, <2>4
<1>9. z % 2 = q % 2
  BY <1>5, <1>6
<1> HIDE DEF z
<1>10. x \in Int
  BY <1>2, <1>5, <1>8
<1>11. x \div d = z
  BY <1>2, <1>5, <1>8, <1>10, FloorUnique
<1> QED
  BY <1>4, <1>9, <1>11 DEF SameBit

(* Nothing but zeros above the bits of a natural number, nothing but ones  *)
(* in -1.                                                                  *)
LEMMA AtZero == \A j \in Nat : j <= Bits(8) => ~At(j, 0) /\ At(j, -1)
<1> SUFFICES ASSUME NEW j \in Nat, j <= Bits(8) PROVE ~At(j, 0) /\ At(j, -1)
  OBVIOUS
<1> DEFINE p == 2 ^ j
<1>1. p \in Nat \ {0}
  BY PowerType
<1>2. (At(j, 0) <=> (0 \div p) % 2 = 1) /\ (At(j, -1) <=> ((-1) \div p) % 2 = 1)
  BY DEF At, Bit
<1> HIDE DEF p
<1>3. 0 \div p = 0
  <2>1. 0 = p * 0 + 0 /\ 0 \in 0 .. p - 1
    BY <1>1
  <2> QED BY <1>1, <2>1, FloorUnique
<1>4. (-1) \div p = -1
  <2>1. -1 = p * (-1) + (p - 1) /\ p - 1 \in 0 .. p - 1 /\ -1 \in Int
    BY <1>1
  <2> QED BY <1>1, <2>1, FloorUnique
<1> QED
  BY <1>2, <1>3, <1>4

(* Numbers below 2 ^ k have no bit at k or above.                          *)
LEMMA AtAbove ==
    ASSUME NEW k \in Nat, NEW j \in Nat, k <= j, j <= Bits(8), NEW x \in 0 .. 2 ^ k - 1
    PROVE  ~At(j, x)
<1>1. k <= Bits(8) /\ j - k \in Nat /\ j - k <= Bits(8)
  BY BitsType DEF Widths
<1>2. 2 ^ k \in Nat
  BY <1>1, PowerType
<1>3. \A h \in Int : \A y : y = h * 2 ^ k + x => SameBit(j, y, j - k, h)
  BY AtHigh
<1>4. x = 0 * 2 ^ k + x
  BY <1>2
<1>5. SameBit(j, x, j - k, 0)
  BY <1>3, <1>4
<1> QED
  BY <1>1, <1>5, AtZero DEF SameBit

(* The modulus of a width, split at bit k.                                 *)
LEMMA SplitModulus ==
    ASSUME NEW w \in Widths, NEW k \in Nat, k <= Bits(w)
    PROVE  /\ Bits(w) \in Nat \ {0, 1} /\ Bits(w) <= Bits(8) /\ Bits(w) - k \in Nat
           /\ 2 ^ k \in Nat \ {0} /\ 2 ^ (Bits(w) - k) \in Nat \ {0}
           /\ Modulus(w) = 2 ^ (Bits(w) - k) * 2 ^ k /\ Modulus(w) \in Nat \ {0, 1}
<1> DEFINE n == Bits(w)
           c == n - k
<1>1. n \in Nat \ {0, 1} /\ n <= Bits(8) /\ Bits(8) \in Nat
  BY BitsType DEF Widths
<1>2. c \in Nat /\ c + k = n /\ c + k <= Bits(8) /\ k + 0 <= Bits(8)
  BY <1>1
<1>3. Modulus(w) = 2 ^ n /\ Modulus(w) \in Nat \ {0, 1}
  BY ModulusType DEF Modulus
<1> HIDE DEF c
<1>4. 2 ^ k \in Nat \ {0} /\ 2 ^ c \in Nat \ {0} /\ 2 ^ (c + k) = 2 ^ c * 2 ^ k
  BY <1>2, PowerSum
<1> QED
  BY <1>1, <1>2, <1>3, <1>4 DEF c

(* A left shift, with l put in the bits that became free.                  *)
LEMMA LeftBits ==
    ASSUME NEW w \in Widths, NEW k \in Nat, k <= Bits(w), NEW a \in 0 .. Modulus(w) - 1, NEW l \in 0 .. 2 ^ k - 1,
           NEW v, v = ShiftLeft(w, a, k) + l
    PROVE  /\ v \in 0 .. Modulus(w) - 1
           /\ \A j \in 0 .. Bits(w) - 1 : IF j >= k THEN SameBit(j, v, j - k, a) ELSE SameBit(j, v, j, l)
<1> DEFINE n == Bits(w)
           c == n - k
           p == 2 ^ k
           q == 2 ^ c
           m == Modulus(w)
<1>1. /\ n \in Nat \ {0, 1} /\ n <= Bits(8) /\ c \in Nat /\ c <= Bits(8) /\ k <= Bits(8) /\ Bits(8) \in Nat /\ c = n - k
      /\ p \in Nat \ {0} /\ q \in Nat \ {0} /\ m = q * p /\ m \in Nat
  <2>1. Bits(8) \in Nat
    BY BitsType DEF Widths
  <2> QED BY <2>1, SplitModulus
<1>2. \E h \in 0 .. q - 1 : ShiftLeft(w, a, k) = h * p /\ \A i \in 0 .. c - 1 : SameBit(i, a, i, h)
  <2>1. CASE k < n
    <3> DEFINE h == a % q
               g == a \div q
    <3>1. ShiftLeft(w, a, k) = h * p
      BY <1>1, <2>1 DEF ShiftLeft
    <3> HIDE DEF q, c, m
    <3>0. a \in Int
      OBVIOUS
    <3>2. g \in Int /\ h \in 0 .. q - 1 /\ a = q * g + h
      BY <1>1, <3>0, FloorParts
    <3> HIDE DEF g, h
    <3>3. a = g * 2 ^ c + h /\ h \in Int
      BY <1>1, <3>2 DEF q
    <3>4. ASSUME NEW i \in 0 .. c - 1 PROVE SameBit(i, a, i, h)
      <4>1. i \in Nat /\ i < c
        BY <1>1
      <4> QED BY <1>1, <3>2, <3>3, <4>1, AtLow
    <3> QED BY <3>1, <3>2, <3>4
  <2>2. CASE k = n
    <3>1. ShiftLeft(w, a, k) = 0 /\ c = 0
      BY <1>1, <2>2 DEF ShiftLeft
    <3> HIDE DEF c, q, p
    <3>2. 0 \in 0 .. q - 1 /\ ShiftLeft(w, a, k) = 0 * p /\ \A i \in 0 .. c - 1 : SameBit(i, a, i, 0)
      BY <1>1, <3>1
    <3> QED BY <3>2
  <2>3. k < n \/ k = n
    BY <1>1
  <2> QED BY <2>1, <2>2, <2>3, Zenon
<1>3. PICK h \in 0 .. q - 1 : ShiftLeft(w, a, k) = h * p /\ \A i \in 0 .. c - 1 : SameBit(i, a, i, h)
  BY <1>2
<1>4. v = h * p + l /\ l \in 0 .. p - 1
  BY <1>3
<1>5. v = h * 2 ^ k + l /\ h \in Int /\ l \in Int
  BY <1>1, <1>4
<1> HIDE DEF n, c, p, q, m
<1>6. v \in 0 .. m - 1
  <2>1. h * p <= (q - 1) * p /\ h * p \in Nat
    BY <1>1
  <2>2. (q - 1) * p = q * p - p
    BY <1>1
  <2> QED BY <1>1, <1>4, <2>1, <2>2
<1>7. ASSUME NEW j \in 0 .. n - 1, j >= k PROVE SameBit(j, v, j - k, a)
  <2>1. j \in Nat /\ j <= Bits(8) /\ j - k \in 0 .. c - 1 /\ k <= j
    BY <1>1, <1>7
  <2>2. SameBit(j, v, j - k, h)
    BY <1>5, <2>1, AtHigh
  <2>3. SameBit(j - k, a, j - k, h)
    BY <1>3, <2>1
  <2> QED BY <2>2, <2>3 DEF SameBit
<1>8. ASSUME NEW j \in 0 .. n - 1, ~(j >= k) PROVE SameBit(j, v, j, l)
  <2>1. j \in Nat /\ j < k
    BY <1>1, <1>8
  <2> QED BY <1>1, <1>5, <2>1, AtLow
<1> QED
  BY <1>6, <1>7, <1>8 DEF m, n

(* A right shift.                                                          *)
LEMMA RightBits ==
    ASSUME NEW w \in Widths, NEW k \in Nat, k <= Bits(w), NEW a \in 0 .. Modulus(w) - 1,
           NEW v, v = ShiftRight(w, a, k)
    PROVE  /\ v \in 0 .. 2 ^ (Bits(w) - k) - 1 /\ v \in 0 .. Modulus(w) - 1
           /\ \A j \in 0 .. Bits(w) - 1 : IF j + k < Bits(w) THEN SameBit(j, v, j + k, a) ELSE ~At(j, v)
<1> DEFINE n == Bits(w)
           c == n - k
           p == 2 ^ k
           q == 2 ^ c
           m == Modulus(w)
<1>1. /\ n \in Nat \ {0, 1} /\ n <= Bits(8) /\ c \in Nat /\ c <= Bits(8) /\ k <= Bits(8) /\ Bits(8) \in Nat /\ c = n - k
      /\ p \in Nat \ {0} /\ q \in Nat \ {0} /\ m = q * p /\ m \in Nat
  <2>1. Bits(8) \in Nat
    BY BitsType DEF Widths
  <2> QED BY <2>1, SplitModulus
<1>2. v \in 0 .. q - 1 /\ \A j \in 0 .. c - 1 : SameBit(j + k, a, j, v)
  <2>1. CASE k < n
    <3> DEFINE r == a % p
    <3>1. v = a \div p
      BY <1>1, <2>1 DEF ShiftRight
    <3> HIDE DEF p, q, c, m
    <3>0. a \in Int
      OBVIOUS
    <3>2. v \in Int /\ r \in 0 .. p - 1 /\ a = p * v + r
      BY <1>1, <3>0, <3>1, FloorParts
    <3>3. v \in Nat /\ v < q
      <4>1. a \in Nat /\ a < q * p
        BY <1>1 DEF m
      <4>2. v < q
        BY <1>1, <3>1, <4>1, DivBelow
      <4>3. p * v + r >= 0
        BY <3>2, <4>1
      <4> QED BY <1>1, <3>2, <4>2, <4>3, MultipleSign
    <3> HIDE DEF r
    <3>4. a = v * p + r
      BY <1>1, <3>2
    <3>5. a = v * 2 ^ k + r /\ r \in 0 .. 2 ^ k - 1
      BY <3>2, <3>4 DEF p
    <3>6. ASSUME NEW j \in 0 .. c - 1 PROVE SameBit(j + k, a, j, v)
      <4>1. j + k \in Nat /\ j + k <= Bits(8) /\ k <= j + k /\ (j + k) - k = j
        BY <1>1
      <4>2. SameBit(j + k, a, (j + k) - k, v)
        BY <3>2, <3>5, <4>1, AtHigh
      <4> QED BY <4>1, <4>2
    <3> QED BY <1>1, <3>3, <3>6
  <2>2. CASE k = n
    <3>1. v = 0 /\ c = 0
      BY <1>1, <2>2 DEF ShiftRight
    <3> HIDE DEF c, q, p
    <3>2. 0 \in 0 .. q - 1 /\ 0 .. c - 1 = {}
      BY <1>1, <3>1
    <3> QED BY <3>1, <3>2
  <2> QED BY <1>1, <2>1, <2>2
<1>3. ASSUME NEW j \in 0 .. n - 1 PROVE IF j + k < n THEN SameBit(j, v, j + k, a) ELSE ~At(j, v)
  <2>1. CASE j + k < n
    <3>1. j \in 0 .. c - 1
      BY <1>1, <2>1
    <3>2. SameBit(j + k, a, j, v)
      BY <1>2, <3>1
    <3> QED BY <2>1, <3>2 DEF SameBit
  <2>2. CASE ~(j + k < n)
    <3>1. j \in Nat /\ c <= j /\ j <= Bits(8)
      BY <1>1, <2>2
    <3>2. v \in 0 .. 2 ^ c - 1
      BY <1>2
    <3> HIDE DEF c, n
    <3>3. ~At(j, v)
      BY <1>1, <3>1, <3>2, AtAbove
    <3> QED BY <2>2, <3>3
  <2> QED BY <2>1, <2>2
<1>4. v \in 0 .. m - 1
  <2> HIDE DEF q, m, p
  <2>1. q * p >= q * 1
    BY <1>1
  <2> QED BY <1>1, <1>2, <2>1
<1> QED
  BY <1>2, <1>3, <1>4

(* Two operands joined: the high bits of the result come from the low bits *)
(* of one, the low bits from the high bits of the other.                   *)
LEMMA DoubleBits ==
    ASSUME NEW w \in Widths, NEW k \in Nat, k <= Bits(w), NEW a \in 0 .. Modulus(w) - 1, NEW b \in 0 .. Modulus(w) - 1,
           NEW d, d = Bits(w) - k, NEW v, v = ShiftLeft(w, a, k) + ShiftRight(w, b, d)
    PROVE  /\ v \in 0 .. Modulus(w) - 1
           /\ \A j \in 0 .. Bits(w) - 1 : IF j >= k THEN SameBit(j, v, j - k, a) ELSE SameBit(j, v, j + d, b)
<1> DEFINE n == Bits(w)
           l == ShiftRight(w, b, d)
<1>1. n \in Nat /\ d \in Nat /\ d <= n /\ n - d = k /\ d = n - k
  BY BitsType
<1>2. /\ l \in 0 .. 2 ^ (n - d) - 1
      /\ \A j \in 0 .. n - 1 : IF j + d < n THEN SameBit(j, l, j + d, b) ELSE ~At(j, l)
  BY <1>1, RightBits
<1>3. v = ShiftLeft(w, a, k) + l
  OBVIOUS
<1>4. l \in 0 .. 2 ^ k - 1
  BY <1>1, <1>2
<1> HIDE DEF l
<1>5. /\ v \in 0 .. Modulus(w) - 1
      /\ \A j \in 0 .. Bits(w) - 1 : IF j >= k THEN SameBit(j, v, j - k, a) ELSE SameBit(j, v, j, l)
  BY <1>3, <1>4, LeftBits
<1>6. ASSUME NEW j \in 0 .. Bits(w) - 1, ~(j >= k) PROVE SameBit(j, v, j + d, b)
  <2>1. j + d < n
    BY <1>1, <1>6
  <2>2. SameBit(j, l, j + d, b) /\ SameBit(j, v, j, l)
    BY <1>2, <1>5, <1>6, <2>1
  <2> QED BY <2>2 DEF SameBit
<1> QED
  BY <1>5, <1>6

(* The sign bit is the top bit.                                            *)
LEMMA HalfModulus ==
    ASSUME NEW w \in Widths, NEW e, e = Bits(w) - 1
    PROVE  /\ e \in Nat /\ e <= Bits(8) /\ Bits(w) = e + 1 /\ 2 ^ e \in Nat \ {0}
           /\ Modulus(w) = 2 * 2 ^ e /\ Modulus(w) \div 2 = 2 ^ e
<1>1. Bits(w) \in Nat \ {0, 1} /\ Bits(w) <= Bits(8) /\ Bits(8) \in Nat
  BY BitsType DEF Widths
<1>2. e \in Nat /\ e <= Bits(8) /\ Bits(w) = e + 1 /\ e \in 0 .. Bits(8)
  BY <1>1
<1>3. 2 ^ e \in Nat \ {0}
  BY <1>2, PowerType
<1>4. 2 ^ (e + 1) = 2 * 2 ^ e
  BY <1>2, PowersAssumption
<1>5. Modulus(w) = 2 * 2 ^ e
  BY <1>2, <1>4 DEF Modulus
<1> DEFINE p == 2 ^ e
<1>6. \A x \in Nat : (2 * x) \div 2 = x
  OBVIOUS
<1> QED
  BY <1>2, <1>3, <1>5, <1>6

(* The ends of an operand.                                                 *)
LEMMA LowestBit == 2 ^ 0 = 1 /\ \A x : At(0, x) <=> Bit(1, x)
<1>1. 2 ^ 0 = 1
  BY PowersAssumption
<1> QED
  BY <1>1 DEF At

(* The sign of an operand is its top bit.                                  *)
LEMMA TopBit ==
    ASSUME NEW w \in Widths, NEW a \in 0 .. Modulus(w) - 1, NEW e, e = Bits(w) - 1
    PROVE  Msb(w, a) <=> At(e, a)
<1> DEFINE p == 2 ^ e
           m == Modulus(w)
<1>1. p \in Nat \ {0} /\ m = 2 * p /\ m \div 2 = p
  BY HalfModulus
<1>2. (Msb(w, a) <=> a >= m \div 2) /\ (At(e, a) <=> (a \div p) % 2 = 1) /\ a \in 0 .. m - 1
  BY DEF Msb, Sign, At, Bit
<1> HIDE DEF p, m
<1>3. CASE a >= p
  <2>1. a = p * 1 + (a - p) /\ a - p \in 0 .. p - 1
    BY <1>1, <1>2, <1>3
  <2>2. a \div p = 1
    BY <1>1, <2>1, FloorUnique
  <2> QED BY <1>1, <1>2, <1>3, <2>2
<1>4. CASE ~(a >= p)
  <2>1. a = p * 0 + a /\ a \in 0 .. p - 1
    BY <1>1, <1>2, <1>4
  <2>2. a \div p = 0
    BY <1>1, <2>1, FloorUnique
  <2> QED BY <1>1, <1>2, <1>4, <2>2
<1> QED
  BY <1>3, <1>4

(* The bit that a carry puts there.                                        *)
LEMMA CarryBit == \A c \in BOOLEAN : B(c) \in 0 .. 1 /\ (At(0, B(c)) <=> c)
<1> SUFFICES ASSUME NEW c \in BOOLEAN PROVE B(c) \in 0 .. 1 /\ (At(0, B(c)) <=> c)
  OBVIOUS
<1> DEFINE b == B(c)
<1>1. b \in 0 .. 1 /\ (b = 1 <=> c)
  BY DEF B
<1>2. At(0, b) <=> (b \div 1) % 2 = 1
  BY LowestBit DEF Bit
<1> HIDE DEF b
<1>3. At(0, b) <=> b = 1
  BY <1>1, <1>2
<1> QED
  BY <1>1, <1>3 DEF b

(* All bits set, or none: SAR by the width or more.                        *)
LEMMA OnesBits ==
    ASSUME NEW w \in Widths, NEW a \in 0 .. Modulus(w) - 1, NEW v, v = B(Msb(w, a)) * (Modulus(w) - 1)
    PROVE  /\ v \in 0 .. Modulus(w) - 1
           /\ \A j \in 0 .. Bits(w) - 1 : SameBit(j, v, Bits(w) - 1, a)
<1> DEFINE n == Bits(w)
           m == Modulus(w)
           e == n - 1
<1>1. n \in Nat \ {0, 1} /\ n <= Bits(8) /\ m \in Nat \ {0, 1} /\ Bits(8) \in Nat /\ m = 2 ^ n
  BY BitsType, ModulusType DEF Widths, Modulus
<1>2. Msb(w, a) <=> At(e, a)
  BY TopBit
<1>3. CASE Msb(w, a)
  <2>1. v = m - 1
    BY <1>1, <1>3 DEF B
  <2> DEFINE x == 0 - 1
  <2>2. x = (0 - 1) * 2 ^ n + v /\ v \in Int /\ 0 - 1 \in Int
    BY <1>1, <2>1
  <2>3. ASSUME NEW j \in 0 .. n - 1 PROVE SameBit(j, v, e, a)
    <3>1. j \in Nat /\ j < n /\ j <= Bits(8)
      BY <1>1
    <3>2. \A h \in Int : \A y : y = h * 2 ^ n + v => SameBit(j, y, j, v)
      BY <1>1, <2>2, <3>1, AtLow
    <3>3. SameBit(j, x, j, v)
      BY <2>2, <3>2
    <3>4. At(j, x)
      BY <3>1, AtZero
    <3> QED BY <1>2, <1>3, <3>3, <3>4 DEF SameBit
  <2> QED BY <1>1, <2>1, <2>3
<1>4. CASE ~Msb(w, a)
  <2>1. v = 0
    BY <1>1, <1>4 DEF B
  <2>2. ASSUME NEW j \in 0 .. n - 1 PROVE SameBit(j, v, e, a)
    <3>1. j \in Nat /\ j <= Bits(8)
      BY <1>1
    <3> QED BY <1>2, <1>4, <2>1, <3>1, AtZero DEF SameBit
  <2> QED BY <1>1, <2>1, <2>2
<1> QED
  BY <1>3, <1>4

(* SAR by less than the width: the quotient of the signed operand.         *)
SarQuotient(m, a, d, f, h, l) ==
    l \div d \in 0 .. f - 1 /\ Signed(m, a) \div d = (0 - h) * f + (l \div d)

(* The quotient SAR takes, from the two parts of the operand.              *)
LEMMA SignedQuotient ==
    ASSUME NEW p \in Nat \ {0}, NEW f \in Nat \ {0}, NEW d \in Nat \ {0}, p = f * d,
           NEW h \in 0 .. 1, NEW l \in 0 .. p - 1, NEW m, m = 2 * p, NEW a, a = h * p + l
    PROVE  SarQuotient(m, a, d, f, h, l)
<1> DEFINE s == Signed(m, a)
           u == l \div d
           r == l % d
<1>1. m \div 2 = p
  OBVIOUS
<1>2. s = (0 - h) * p + l
  <2>1. CASE h = 0
    <3>1. a = l /\ ~(a >= p)
      BY <2>1
    <3> QED BY <1>1, <2>1, <3>1 DEF Signed, Sign
  <2>2. CASE h = 1
    <3>1. a = p + l /\ a >= p
      BY <2>2
    <3> QED BY <1>1, <2>2, <3>1 DEF Signed, Sign
  <2> QED BY <2>1, <2>2
<1>3. l \in Int /\ l \in Nat /\ l < f * d
  OBVIOUS
<1> HIDE DEF s
<1>4. u \in Int /\ r \in 0 .. d - 1 /\ l = d * u + r
  BY <1>3, FloorParts
<1>5. u < f
  BY <1>3, DivBelow
<1>6. u \in Nat
  <2>1. d * u + r >= 0
    BY <1>3, <1>4
  <2> HIDE DEF u, r
  <2> QED BY <1>4, <2>1, MultipleSign
<1> DEFINE z == (0 - h) * f + u
<1> HIDE DEF u, r
<1>7. z \in Int /\ s \in Int
  BY <1>2, <1>4
<1>8. s = d * z + r
  <2>1. d * z = (0 - h) * (f * d) + d * u
    BY <1>4
  <2> HIDE DEF z
  <2> QED BY <1>2, <1>4, <1>7, <2>1
<1> HIDE DEF z
<1>9. s \div d = z
  BY <1>4, <1>7, <1>8, FloorUnique
<1> QED
  BY <1>5, <1>6, <1>9 DEF s, u, z, SarQuotient

(* SAR below the operand's size: the sign fills from the top.              *)
LEMMA SignedBits ==
    ASSUME NEW w \in Widths, NEW k \in Nat, k < Bits(w), NEW a \in 0 .. Modulus(w) - 1,
           NEW v, v = Truncate(w, Signed(Modulus(w), a) \div 2 ^ k)
    PROVE  /\ v \in 0 .. Modulus(w) - 1
           /\ \A j \in 0 .. Bits(w) - 1 : SameBit(j, v, Least(j + k, Bits(w) - 1), a)
<1> DEFINE n == Bits(w)
           e == n - 1
           g == e - k
           p == 2 ^ e
           f == 2 ^ g
           d == 2 ^ k
           m == Modulus(w)
           h == a \div p
           l == a % p
           u == l \div d
           r == l % d
           x == Signed(m, a) \div d
<1>1. /\ n \in Nat \ {0, 1} /\ n <= Bits(8) /\ Bits(8) \in Nat /\ e \in Nat /\ e <= Bits(8) /\ n = e + 1 /\ e = n - 1
      /\ g \in Nat /\ g <= Bits(8) /\ g + k = e /\ g = e - k /\ k <= Bits(8) /\ k <= e
  BY BitsType DEF Widths
<1>2. p \in Nat \ {0} /\ m = 2 * p
  BY HalfModulus
<1>3. m \in Nat \ {0} /\ m = 2 ^ n /\ a \in 0 .. m - 1 /\ a \in Int
  BY ModulusType DEF Modulus
<1> HIDE DEF g, m
<1>4. d \in Nat \ {0} /\ f \in Nat \ {0} /\ p = f * d
  <2>1. g + k <= Bits(8) /\ k + 0 <= Bits(8)
    BY <1>1
  <2>2. 2 ^ k \in Nat \ {0}
    BY <1>1, PowerType
  <2>3. 2 ^ g \in Nat \ {0} /\ 2 ^ (g + k) = 2 ^ g * 2 ^ k
    BY <1>1, <2>1, PowerSum
  <2> HIDE DEF e
  <2> QED BY <1>1, <2>2, <2>3
<1>5. h \in 0 .. 1 /\ l \in 0 .. p - 1 /\ a = h * p + l
  <2> HIDE DEF p
  <2>1. h \in Int /\ l \in 0 .. p - 1 /\ a = p * h + l
    BY <1>2, <1>3, FloorParts
  <2>2. a \in Nat /\ a < 2 * p
    BY <1>2, <1>3
  <2>3. h < 2
    BY <1>2, <2>2, DivBelow
  <2> HIDE DEF h, l
  <2>4. p * h + l >= 0
    BY <2>1, <2>2
  <2>5. h \in Nat
    BY <1>2, <2>1, <2>4, MultipleSign
  <2> QED BY <1>2, <2>1, <2>3, <2>5
<1> HIDE DEF p, f, d
<1> HIDE DEF h, l
<1>6. u \in 0 .. f - 1 /\ x = (0 - h) * f + u
  <2> HIDE DEF x, u
  <2>1. SarQuotient(m, a, d, f, h, l)
    BY <1>2, <1>4, <1>5, SignedQuotient
  <2> QED BY <2>1 DEF SarQuotient, x, u
<1>7. l \in Int /\ l = d * u + r /\ r \in 0 .. d - 1
  <2>1. l \in Int
    BY <1>5
  <2> QED BY <1>4, <2>1, FloorParts
<1>8. v = x % m
  BY DEF Truncate, d, m
<1> HIDE DEF x, u, r
<1>9. x \in Int
  BY <1>4, <1>6
<1> DEFINE y == x \div m
<1>10. y \in Int /\ v \in 0 .. m - 1 /\ x = m * y + v
  BY <1>3, <1>8, <1>9, FloorParts
<1> HIDE DEF y
<1>11. x = y * 2 ^ n + v /\ v \in Int
  BY <1>3, <1>10
<1>12. x = (0 - h) * 2 ^ g + u /\ 0 - h \in Int /\ u \in 0 .. 2 ^ g - 1 /\ u \in Int
  BY <1>5, <1>6 DEF f
<1>13. a = h * 2 ^ e + l /\ l \in 0 .. 2 ^ e - 1 /\ l \in Int /\ h \in Int
  BY <1>5 DEF p
<1>14. l = u * 2 ^ k + r /\ r \in 0 .. 2 ^ k - 1
  <2>1. l = u * d + r
    BY <1>4, <1>7, <1>12
  <2> QED BY <1>7, <2>1 DEF d
<1> HIDE DEF n, e
<1>15. ASSUME NEW j \in 0 .. n - 1 PROVE SameBit(j, v, Least(j + k, e), a)
  <2>1. j \in Nat /\ j <= Bits(8) /\ j < n
    BY <1>1
  <2>2. SameBit(j, x, j, v)
    BY <1>1, <1>10, <1>11, <2>1, AtLow
  <2>3. CASE j + k >= e
    <3>1. Least(j + k, e) = e
      BY <1>1, <2>1, <2>3 DEF Least
    <3>2. g <= j /\ j - g \in Nat /\ j - g <= Bits(8)
      BY <1>1, <2>1, <2>3
    <3>3. SameBit(j, x, j - g, 0 - h)
      BY <1>1, <1>12, <2>1, <3>2, AtHigh
    <3>4. SameBit(e, a, e - e, h)
      BY <1>1, <1>13, AtHigh
    <3>5. At(0, h) <=> h = 1
      <4>1. At(0, h) <=> (h \div 1) % 2 = 1
        BY LowestBit DEF Bit
      <4> QED BY <1>5, <4>1
    <3>6. At(j - g, 0 - h) <=> h = 1
      <4>1. CASE h = 0
        <5>1. 0 - h = 0
          BY <4>1
        <5> QED BY <3>2, <4>1, <5>1, AtZero
      <4>2. CASE h = 1
        <5>1. 0 - h = -1
          BY <4>2
        <5> QED BY <3>2, <4>2, <5>1, AtZero
      <4> QED BY <1>5, <4>1, <4>2
    <3>7. e - e = 0
      BY <1>1
    <3> QED BY <2>2, <3>1, <3>3, <3>4, <3>5, <3>6, <3>7 DEF SameBit
  <2>4. CASE ~(j + k >= e)
    <3>1. Least(j + k, e) = j + k
      BY <1>1, <2>1, <2>4 DEF Least
    <3>2. j < g /\ j + k \in Nat /\ j + k < e /\ j + k <= Bits(8) /\ k <= j + k /\ (j + k) - k = j
      BY <1>1, <2>1, <2>4
    <3>3. SameBit(j, x, j, u)
      BY <1>1, <1>12, <2>1, <3>2, AtLow
    <3>4. SameBit(j + k, l, (j + k) - k, u)
      BY <1>1, <1>12, <1>14, <3>2, AtHigh
    <3>5. SameBit(j + k, a, j + k, l)
      BY <1>1, <1>13, <3>2, AtLow
    <3> QED BY <2>2, <3>1, <3>2, <3>3, <3>4, <3>5 DEF SameBit
  <2> QED BY <2>3, <2>4
<1> QED
  BY <1>10, <1>15 DEF m, n, e

(* RCL and RCR turn the ring of the operand and, above its top bit, the    *)
(* carry.                                                                  *)
Ring(w, p, j) == IF j = Bits(w) THEN p.c ELSE At(j, p.v)
SameRing(w, p, j, q, i) == Ring(w, p, j) <=> Ring(w, q, i)
Turned(w, left, k, j) == (IF left THEN j - k ELSE j + k) % (Bits(w) + 1)
OnRing(w, p) == p.v \in 0 .. Modulus(w) - 1 /\ p.c \in BOOLEAN

(* Turning by one and then by k is turning by k + 1.                       *)
LEMMA ResidueAdds ==
    ASSUME NEW m \in Nat \ {0}, NEW x \in Int, NEW y \in Int
    PROVE  ((x % m) + y) % m = (x + y) % m
<1> DEFINE q == x \div m
           r == x % m
           z == r + y
           g == z \div m
           s == z % m
<1>1. q \in Int /\ r \in 0 .. m - 1 /\ x = m * q + r
  BY FloorParts
<1> HIDE DEF q, r
<1>2. z \in Int
  BY <1>1
<1>3. g \in Int /\ s \in 0 .. m - 1 /\ z = m * g + s
  BY <1>2, FloorParts
<1>4. z = r + y
  OBVIOUS
<1> HIDE DEF z, g, s
<1> DEFINE a == x + y
           b == q + g
<1>5. b \in Int /\ a \in Int /\ a = m * b + s
  <2>1. m * b = m * q + m * g
    BY <1>1, <1>3
  <2> QED BY <1>1, <1>3, <1>4, <2>1
<1> HIDE DEF a, b
<1>6. a % m = s
  BY <1>3, <1>5, FloorUnique
<1> QED
  BY <1>6 DEF a, s, z, r

(* One turn and then k are k + 1 turns.                                    *)
LEMMA TurnedOnce ==
    ASSUME NEW w \in Widths, NEW left \in BOOLEAN, NEW k \in Nat, NEW j \in Nat, NEW i, i = Turned(w, left, 1, j)
    PROVE  i \in 0 .. Bits(w) /\ Turned(w, left, k, i) = Turned(w, left, k + 1, j)
<1> DEFINE m == Bits(w) + 1
<1>1. m \in Nat \ {0}
  BY BitsType
<1>2. Bits(w) = m - 1
  BY BitsType
<1>3. CASE left
  <2> DEFINE x == j - 1
             y == 0 - k
  <2>1. i = x % m /\ Turned(w, left, k, i) = (i - k) % m /\ Turned(w, left, k + 1, j) = (j - (k + 1)) % m
    BY <1>3 DEF Turned
  <2> HIDE DEF m
  <2>2. x \in Int /\ y \in Int /\ x + y = j - (k + 1)
    OBVIOUS
  <2> HIDE DEF x
  <2>3. i \in 0 .. m - 1
    BY <1>1, <2>1, <2>2, FloorParts
  <2>4. i + y = i - k
    BY <2>3
  <2> HIDE DEF y
  <2>5. ((x % m) + y) % m = (x + y) % m
    BY <1>1, <2>2, ResidueAdds
  <2> QED BY <1>2, <2>1, <2>2, <2>3, <2>4, <2>5
<1>4. CASE ~left
  <2> DEFINE x == j + 1
             y == k
  <2>1. i = x % m /\ Turned(w, left, k, i) = (i + k) % m /\ Turned(w, left, k + 1, j) = (j + (k + 1)) % m
    BY <1>4 DEF Turned
  <2> HIDE DEF m
  <2>2. x \in Int /\ y \in Int /\ x + y = j + (k + 1)
    OBVIOUS
  <2> HIDE DEF x
  <2>3. i \in 0 .. m - 1
    BY <1>1, <2>1, <2>2, FloorParts
  <2>5. ((x % m) + y) % m = (x + y) % m
    BY <1>1, <2>2, ResidueAdds
  <2> QED BY <1>2, <2>1, <2>2, <2>3, <2>5
<1> QED
  BY <1>3, <1>4

(* Where one turn takes a bit from.                                        *)
LEMMA TurnedFrom ==
    ASSUME NEW w \in Widths, NEW j \in 0 .. Bits(w)
    PROVE  /\ Turned(w, TRUE, 1, j) = IF j = 0 THEN Bits(w) ELSE j - 1
           /\ Turned(w, FALSE, 1, j) = IF j = Bits(w) THEN 0 ELSE j + 1
           /\ \A left \in BOOLEAN : Turned(w, left, 0, j) = j
<1> DEFINE m == Bits(w) + 1
<1>1. m \in Nat \ {0, 1} /\ Bits(w) = m - 1 /\ j \in 0 .. m - 1
  BY BitsType
<1>2. Turned(w, TRUE, 1, j) = (j - 1) % m /\ Turned(w, FALSE, 1, j) = (j + 1) % m
  BY DEF Turned
<1>3. \A left \in BOOLEAN : Turned(w, left, 0, j) = (IF left THEN j - 0 ELSE j + 0) % m
  BY DEF Turned
<1> HIDE DEF m
<1>4. \A left \in BOOLEAN : (IF left THEN j - 0 ELSE j + 0) = j
  OBVIOUS
<1>5. j % m = j
  <2>1. j \in Int /\ m \in Nat \ {0}
    BY <1>1
  <2> QED BY <1>1, <2>1, WrapOnce
<1>6. (j - 1) % m = IF j = 0 THEN m - 1 ELSE j - 1
  <2> DEFINE x == j - 1
  <2>1. x \in Int /\ (j = 0 => x \in -m .. -1 /\ x + m = m - 1) /\ (j # 0 => x \in 0 .. m - 1)
    BY <1>1
  <2> HIDE DEF x
  <2>2. x % m = IF j = 0 THEN m - 1 ELSE x
    BY <1>1, <2>1, WrapOnce
  <2> QED BY <2>2 DEF x
<1>7. (j + 1) % m = IF j = m - 1 THEN 0 ELSE j + 1
  <2> DEFINE x == j + 1
  <2>1. x \in Int /\ (j = m - 1 => x \in m .. 2 * m - 1 /\ x - m = 0) /\ (j # m - 1 => x \in 0 .. m - 1)
    BY <1>1
  <2> HIDE DEF x
  <2>2. x % m = IF j = m - 1 THEN 0 ELSE x
    BY <1>1, <2>1, WrapOnce
  <2> QED BY <2>2 DEF x
<1> QED
  BY <1>1, <1>2, <1>3, <1>4, <1>5, <1>6, <1>7

(* One turn.                                                               *)
LEMMA TurnBits ==
    ASSUME NEW w \in Widths, NEW left \in BOOLEAN, NEW p, OnRing(w, p), NEW q, q = carry_turn(w, left, p)
    PROVE  OnRing(w, q) /\ \A j \in 0 .. Bits(w) : SameRing(w, q, j, p, Turned(w, left, 1, j))
<1> DEFINE n == Bits(w)
           e == n - 1
           a == p.v
           b == B(p.c)
           m == Modulus(w)
<1>1. n \in Nat \ {0, 1} /\ n <= Bits(8) /\ Bits(8) \in Nat /\ e \in Nat /\ e <= Bits(8) /\ e = n - 1 /\ 1 <= n
  BY BitsType DEF Widths
<1>2. a \in 0 .. m - 1 /\ p.c \in BOOLEAN
  BY DEF OnRing
<1>3. b \in 0 .. 1 /\ (At(0, b) <=> p.c)
  BY <1>2, CarryBit
<1>4. Msb(w, a) <=> At(e, a)
  BY <1>2, TopBit
<1>5. Bit(1, a) <=> At(0, a)
  BY LowestBit
<1>6. 2 ^ 0 = 1 /\ 2 ^ 1 = 2
  <2>1. 2 ^ (0 + 1) = 2 * 2 ^ 0
    BY <1>1, PowersAssumption
  <2> QED BY <2>1, LowestBit
<1>7. Msb(w, a) \in BOOLEAN /\ Bit(1, a) \in BOOLEAN
  BY BooleanBits
<1>8. CASE left
  <2>1. q.v = ShiftLeft(w, a, 1) + b /\ q.c = Msb(w, a)
    BY <1>8 DEF carry_turn
  <2> DEFINE v == q.v
  <2> HIDE DEF b, a
  <2>2. /\ v \in 0 .. m - 1
        /\ \A j \in 0 .. n - 1 : IF j >= 1 THEN SameBit(j, v, j - 1, a) ELSE SameBit(j, v, j, b)
    <3>1. b \in 0 .. 2 ^ 1 - 1 /\ 1 \in Nat
      BY <1>3, <1>6
    <3>2. v = ShiftLeft(w, a, 1) + b
      BY <2>1
    <3> HIDE DEF v
    <3> QED BY <1>1, <1>2, <3>1, <3>2, LeftBits
  <2> HIDE DEF v
  <2>3. ASSUME NEW j \in 0 .. n PROVE SameRing(w, q, j, p, Turned(w, left, 1, j))
    <3>1. Turned(w, left, 1, j) = IF j = 0 THEN n ELSE j - 1
      BY <1>8, TurnedFrom
    <3>2. CASE j = 0
      <4>1. SameBit(0, v, 0, b)
        BY <1>1, <2>2, <3>2
      <4>2. Ring(w, p, n) <=> p.c
        BY DEF Ring
      <4>3. Ring(w, q, 0) <=> At(0, v)
        BY <1>1 DEF Ring, v
      <4> QED BY <1>3, <3>1, <3>2, <4>1, <4>2, <4>3 DEF SameBit, SameRing
    <3>3. CASE j # 0 /\ j # n
      <4>1. j \in 0 .. n - 1 /\ j >= 1 /\ j - 1 # n
        BY <1>1, <3>3
      <4>2. SameBit(j, v, j - 1, a)
        BY <2>2, <4>1
      <4>3. Ring(w, p, j - 1) <=> At(j - 1, a)
        BY <4>1 DEF Ring, a
      <4>4. Ring(w, q, j) <=> At(j, v)
        BY <3>3 DEF Ring, v
      <4> QED BY <3>1, <3>3, <4>2, <4>3, <4>4 DEF SameBit, SameRing
    <3>4. CASE j = n
      <4>1. j # 0 /\ j - 1 = e /\ e # n
        BY <1>1, <3>4
      <4>2. Ring(w, p, e) <=> At(e, a)
        BY <4>1 DEF Ring, a
      <4>3. Ring(w, q, j) <=> Msb(w, a)
        BY <2>1, <3>4 DEF Ring
      <4> QED BY <1>4, <3>1, <4>1, <4>2, <4>3 DEF SameRing
    <3> QED BY <3>2, <3>3, <3>4
  <2>4. OnRing(w, q)
    BY <1>7, <2>1, <2>2 DEF OnRing, v, m
  <2> QED BY <2>3, <2>4 DEF n
<1>9. CASE ~left
  <2>0. left = FALSE
    BY <1>9
  <2>1. q.v = ShiftRight(w, a, 1) + b * 2 ^ e /\ q.c = Bit(1, a)
    BY <1>9 DEF carry_turn
  <2> DEFINE v == q.v
             l == ShiftRight(w, a, 1)
             d == 2 ^ e
  <2> HIDE DEF b, a
  <2>2. /\ l \in 0 .. 2 ^ (n - 1) - 1
        /\ \A j \in 0 .. n - 1 : IF j + 1 < n THEN SameBit(j, l, j + 1, a) ELSE ~At(j, l)
    BY <1>1, <1>2, RightBits
  <2>3. d \in Nat \ {0} /\ m = 2 * d
    BY HalfModulus
  <2>4. l \in 0 .. d - 1 /\ v = b * d + l
    <3>1. l \in 0 .. d - 1
      BY <2>2
    <3>2. b * d \in Int
      BY <1>3, <2>3
    <3> HIDE DEF d, l
    <3> QED BY <2>1, <3>1, <3>2 DEF d, l
  <2> HIDE DEF v, l
  <2>5. v = b * 2 ^ e + l /\ l \in 0 .. 2 ^ e - 1 /\ b \in Int /\ l \in Int
    BY <1>3, <2>4
  <2>6. v \in 0 .. m - 1
    <3> HIDE DEF d, m
    <3>1. b = 0 \/ b = 1
      BY <1>3
    <3> QED BY <2>3, <2>4, <3>1
  <2> HIDE DEF d
  <2>7. ASSUME NEW j \in 0 .. n PROVE SameRing(w, q, j, p, Turned(w, left, 1, j))
    <3>1. Turned(w, left, 1, j) = IF j = n THEN 0 ELSE j + 1
      BY <2>0, TurnedFrom
    <3>2. CASE j = n
      <4>1. Ring(w, p, 0) <=> At(0, a)
        BY <1>1 DEF Ring, a
      <4>2. Ring(w, q, j) <=> Bit(1, a)
        BY <2>1, <3>2 DEF Ring
      <4> QED BY <1>5, <3>1, <3>2, <4>1, <4>2 DEF SameRing
    <3>3. CASE j = e
      <4>1. j # n /\ j + 1 = n /\ e - e = 0
        BY <1>1, <3>3
      <4>2. SameBit(e, v, e - e, b)
        BY <1>1, <2>5, AtHigh
      <4>3. Ring(w, p, n) <=> p.c
        BY DEF Ring
      <4>4. Ring(w, q, j) <=> At(j, v)
        BY <4>1 DEF Ring, v
      <4> QED BY <1>3, <3>1, <3>3, <4>1, <4>2, <4>3, <4>4 DEF SameBit, SameRing
    <3>4. CASE j # n /\ j # e
      <4>1. j \in 0 .. n - 1 /\ j \in Nat /\ j < e /\ j + 1 < n /\ j + 1 # n
        BY <1>1, <3>4
      <4>2. SameBit(j, l, j + 1, a)
        BY <2>2, <4>1
      <4>3. SameBit(j, v, j, l)
        BY <1>1, <2>5, <4>1, AtLow
      <4>4. Ring(w, p, j + 1) <=> At(j + 1, a)
        BY <4>1 DEF Ring, a
      <4>5. Ring(w, q, j) <=> At(j, v)
        BY <3>4 DEF Ring, v
      <4> QED BY <3>1, <3>4, <4>2, <4>3, <4>4, <4>5 DEF SameBit, SameRing
    <3> QED BY <3>2, <3>3, <3>4
  <2>8. OnRing(w, q)
    BY <1>7, <2>1, <2>6 DEF OnRing, v, m
  <2> QED BY <2>7, <2>8 DEF n
<1> QED
  BY <1>8, <1>9

(* Any number of turns, by induction on their number.                      *)
LEMMA TurnsBits ==
    ASSUME NEW w \in Widths, NEW left \in BOOLEAN, NEW k \in Nat, NEW a \in 0 .. Modulus(w) - 1, NEW c \in BOOLEAN,
           NEW p, p = [v |-> a, c |-> c], NEW q, q = carry_turns(w, left, k, a, c)
    PROVE  OnRing(w, q) /\ \A j \in 0 .. Bits(w) : SameRing(w, q, j, p, Turned(w, left, k, j))
<1>1. PICK f : /\ q = f[k] /\ f[0] = p
               /\ \A n \in 0 .. k : n # 0 => f[n] = carry_turn(w, left, f[n - 1])
  BY CarryTurns
<1> DEFINE T(n) == OnRing(w, f[n]) /\ \A j \in 0 .. Bits(w) : SameRing(w, f[n], j, p, Turned(w, left, n, j))
           E == {n \in Nat : n <= k => T(n)}
<1>2. 0 \in E
  <2>1. OnRing(w, p)
    BY DEF OnRing
  <2>2. ASSUME NEW j \in 0 .. Bits(w) PROVE SameRing(w, p, j, p, Turned(w, left, 0, j))
    BY TurnedFrom DEF SameRing
  <2> QED BY <1>1, <2>1, <2>2
<1>3. ASSUME NEW n \in Nat, n \in E PROVE n + 1 \in E
  <2> SUFFICES ASSUME n + 1 <= k PROVE T(n + 1)
    OBVIOUS
  <2>1. T(n)
    BY <1>3
  <2>2. f[n + 1] = carry_turn(w, left, f[n])
    BY <1>1
  <2>3. OnRing(w, f[n + 1]) /\ \A j \in 0 .. Bits(w) : SameRing(w, f[n + 1], j, f[n], Turned(w, left, 1, j))
    BY <2>1, <2>2, TurnBits
  <2>4. ASSUME NEW j \in 0 .. Bits(w) PROVE SameRing(w, f[n + 1], j, p, Turned(w, left, n + 1, j))
    <3> DEFINE i == Turned(w, left, 1, j)
    <3>1. j \in Nat
      BY BitsType
    <3>2. i \in 0 .. Bits(w) /\ Turned(w, left, n, i) = Turned(w, left, n + 1, j)
      BY <3>1, TurnedOnce
    <3>3. SameRing(w, f[n + 1], j, f[n], i)
      BY <2>3
    <3> HIDE DEF i
    <3>4. SameRing(w, f[n], i, p, Turned(w, left, n, i))
      BY <2>1, <3>2
    <3> QED BY <3>2, <3>3, <3>4 DEF SameRing
  <2> QED BY <2>3, <2>4
<1>4. k \in E
  <2> HIDE DEF E
  <2> QED BY <1>2, <1>3, NatsByInduction
<1> QED
  BY <1>1, <1>4

(* What a handler is to make of its operand: every bit where it belongs.   *)
Shiftable(s, i, a) == i.w \in Widths /\ a \in 0 .. Modulus(i.w) - 1 /\ ValueOf(s, i, i.dst) = a
BitsMoved(i, s, x) == x \in 0 .. Modulus(i.w) - 1 /\ \A j \in 0 .. Bits(i.w) - 1 : At(j, x) = ShiftedBit(i, s, j)

(* The bits of the destination are those of its value.                     *)
LEMMA DstAt ==
    ASSUME NEW s, NEW i, NEW a, Shiftable(s, i, a)
    PROVE  \A j : DstBit(i, s, j) = At(j, a)
BY DEF Shiftable, DstBit, At

(* A count of zero moves nothing.                                          *)
LEMMA ZeroMoved ==
    ASSUME NEW s, NEW i, NEW a, Shiftable(s, i, a), ShiftCount(i, s) = 0, i.op \in ShiftRotateOps \ {"rcl", "rcr"}
    PROVE  BitsMoved(i, s, a) /\ s.flags.cf = ShiftedOut(i, s)
<1>1. s.flags.cf = ShiftedOut(i, s)
  BY DEF ShiftedOut
<1>2. Bits(i.w) \in Nat \ {0, 1}
  BY BitsType DEF Shiftable
<1>3. ASSUME NEW j \in 0 .. Bits(i.w) - 1 PROVE At(j, a) = ShiftedBit(i, s, j)
  <2> DEFINE n == Bits(i.w)
  <2>1. n \in Nat \ {0} /\ j \in 0 .. n - 1 /\ j \in Int
    BY <1>2
  <2>2. j >= 0 /\ j - 0 = j /\ j + 0 = j /\ j + 0 < n /\ Least(j + 0, n - 1) = j
    BY <2>1 DEF Least
  <2>3. j % n = j
    <3> HIDE DEF n
    <3> QED BY <2>1, WrapOnce
  <2>4. (j - 0) % n = j /\ (j + 0) % n = j
    BY <2>2, <2>3
  <2>5. DstBit(i, s, j) = At(j, a) /\ At(j, a) \in BOOLEAN
    BY DstAt, AtType
  <2>6. CASE i.op = "shl"
    <3>1. ShiftedBit(i, s, j) = (j >= 0 /\ DstBit(i, s, j - 0))
      BY <2>6 DEF ShiftedBit
    <3> QED BY <2>2, <2>5, <3>1
  <2>7. CASE i.op = "shr"
    <3>1. ShiftedBit(i, s, j) = (j + 0 < n /\ DstBit(i, s, j + 0))
      BY <2>7 DEF ShiftedBit
    <3> QED BY <2>2, <2>5, <3>1
  <2>8. CASE i.op = "sar"
    <3>1. ShiftedBit(i, s, j) = DstBit(i, s, Least(j + 0, n - 1))
      BY <2>8 DEF ShiftedBit
    <3> QED BY <2>2, <2>5, <3>1
  <2>9. CASE i.op \in {"rol", "ror"}
    <3>1. ShiftedBit(i, s, j) = DstBit(i, s, (j - 0) % n) \/ ShiftedBit(i, s, j) = DstBit(i, s, (j + 0) % n)
      BY <2>9 DEF ShiftedBit
    <3> QED BY <2>4, <2>5, <3>1
  <2>10. CASE i.op = "shld"
    <3>1. ShiftedBit(i, s, j) = IF j >= 0 THEN DstBit(i, s, j - 0) ELSE SrcBit(i, s, n - 0 + j)
      BY <2>10 DEF ShiftedBit
    <3> QED BY <2>2, <2>5, <3>1
  <2>11. CASE i.op = "shrd"
    <3>1. ShiftedBit(i, s, j) = IF j + 0 < n THEN DstBit(i, s, j + 0) ELSE SrcBit(i, s, j + 0 - n)
      BY <2>11 DEF ShiftedBit
    <3> QED BY <2>2, <2>5, <3>1
  <2> QED BY <2>6, <2>7, <2>8, <2>9, <2>10, <2>11 DEF ShiftRotateOps, DoubleShifts
<1> QED
  BY <1>1, <1>3 DEF BitsMoved, Shiftable

(* SHL: nothing is left of an operand shifted by its width or more.        *)
LEMMA ShlMoved ==
    ASSUME NEW s, NEW i, NEW a, Shiftable(s, i, a), i.op = "shl", NEW k \in Nat \ {0}, k = ShiftCount(i, s),
           NEW v, v = ShiftLeft(i.w, a, k),
           NEW cf \in BOOLEAN, k > Bits(i.w) => ~cf, k <= Bits(i.w) => cf = At(Bits(i.w) - k, a)
    PROVE  BitsMoved(i, s, v) /\ cf = ShiftedOut(i, s)
<1> DEFINE n == Bits(i.w)
           w == i.w
<1>1. n \in Nat \ {0, 1} /\ n <= Bits(8) /\ Bits(8) \in Nat /\ w \in Widths /\ a \in 0 .. Modulus(w) - 1
  BY BitsType DEF Shiftable, Widths
<1>2. cf = ShiftedOut(i, s)
  <2>1. ShiftedOut(i, s) = (k <= n /\ DstBit(i, s, n - k))
    BY DEF ShiftedOut
  <2>2. DstBit(i, s, n - k) = At(n - k, a)
    BY DstAt
  <2> QED BY <1>1, <2>1, <2>2
<1>3. ASSUME NEW j \in 0 .. n - 1 PROVE ShiftedBit(i, s, j) = (j >= k /\ At(j - k, a))
  <2>1. ShiftedBit(i, s, j) = (j >= k /\ DstBit(i, s, j - k))
    BY DEF ShiftedBit
  <2>2. DstBit(i, s, j - k) = At(j - k, a)
    BY DstAt
  <2> QED BY <2>1, <2>2
<1> HIDE DEF n
<1>4. CASE k <= n
  <2>1. 2 ^ k \in Nat \ {0}
    BY <1>1, <1>4, PowerType
  <2> DEFINE l == 0
  <2>2. l \in 0 .. 2 ^ k - 1
    BY <2>1
  <2>3. v = ShiftLeft(w, a, k) + l
    <3>1. ShiftLeft(w, a, k) \in Nat
      BY <1>1, ShiftTypes
    <3> QED BY <3>1
  <2> HIDE DEF l, w
  <2>4. /\ v \in 0 .. Modulus(w) - 1
        /\ \A j \in 0 .. n - 1 : IF j >= k THEN SameBit(j, v, j - k, a) ELSE SameBit(j, v, j, l)
    BY <1>1, <1>4, <2>2, <2>3, LeftBits DEF n, w
  <2>5. ASSUME NEW j \in 0 .. n - 1 PROVE At(j, v) = ShiftedBit(i, s, j)
    <3>1. j \in Nat /\ j <= Bits(8)
      BY <1>1
    <3>2. ~At(j, l) /\ At(j, v) \in BOOLEAN
      BY <3>1, AtZero, AtType DEF l
    <3> QED BY <1>3, <2>4, <3>2 DEF SameBit
  <2> QED BY <1>2, <2>4, <2>5 DEF BitsMoved, n, w
<1>5. CASE ~(k <= n)
  <2>1. v = 0
    BY <1>1, <1>5 DEF ShiftLeft, n
  <2>2. v \in 0 .. Modulus(w) - 1
    <3>1. Modulus(w) \in Nat \ {0, 1}
      BY <1>1, ModulusType
    <3> QED BY <2>1, <3>1
  <2>3. ASSUME NEW j \in 0 .. n - 1 PROVE At(j, v) = ShiftedBit(i, s, j)
    <3>1. j \in Nat /\ j <= Bits(8) /\ ~(j >= k)
      BY <1>1, <1>5
    <3>2. ~At(j, v) /\ At(j, v) \in BOOLEAN
      BY <2>1, <3>1, AtZero, AtType
    <3> QED BY <1>3, <3>1, <3>2
  <2> QED BY <1>2, <2>2, <2>3 DEF BitsMoved, n, w
<1> QED
  BY <1>4, <1>5

(* SHR.                                                                    *)
LEMMA ShrMoved ==
    ASSUME NEW s, NEW i, NEW a, Shiftable(s, i, a), i.op = "shr", NEW k \in Nat \ {0}, k = ShiftCount(i, s),
           NEW v, v = ShiftRight(i.w, a, k),
           NEW cf \in BOOLEAN, k > Bits(i.w) => ~cf, k <= Bits(i.w) => cf = At(k - 1, a)
    PROVE  BitsMoved(i, s, v) /\ cf = ShiftedOut(i, s)
<1> DEFINE n == Bits(i.w)
           w == i.w
<1>1. n \in Nat \ {0, 1} /\ n <= Bits(8) /\ Bits(8) \in Nat /\ w \in Widths /\ a \in 0 .. Modulus(w) - 1
  BY BitsType DEF Shiftable, Widths
<1>2. cf = ShiftedOut(i, s)
  <2>1. ShiftedOut(i, s) = (k <= n /\ DstBit(i, s, k - 1))
    BY DEF ShiftedOut
  <2>2. DstBit(i, s, k - 1) = At(k - 1, a)
    BY DstAt
  <2> QED BY <1>1, <2>1, <2>2
<1>3. ASSUME NEW j \in 0 .. n - 1 PROVE ShiftedBit(i, s, j) = (j + k < n /\ At(j + k, a))
  <2>1. ShiftedBit(i, s, j) = (j + k < n /\ DstBit(i, s, j + k))
    BY DEF ShiftedBit
  <2>2. DstBit(i, s, j + k) = At(j + k, a)
    BY DstAt
  <2> QED BY <2>1, <2>2
<1> HIDE DEF n
<1>4. CASE k <= n
  <2>1. /\ v \in 0 .. Modulus(w) - 1
        /\ \A j \in 0 .. n - 1 : IF j + k < n THEN SameBit(j, v, j + k, a) ELSE ~At(j, v)
    BY <1>1, <1>4, RightBits DEF n
  <2>2. ASSUME NEW j \in 0 .. n - 1 PROVE At(j, v) = ShiftedBit(i, s, j)
    <3>1. At(j, v) \in BOOLEAN
      BY AtType
    <3> QED BY <1>3, <2>1, <3>1 DEF SameBit
  <2> QED BY <1>2, <2>1, <2>2 DEF BitsMoved, n, w
<1>5. CASE ~(k <= n)
  <2>1. v = 0
    BY <1>1, <1>5 DEF ShiftRight, n
  <2>2. v \in 0 .. Modulus(w) - 1
    <3>1. Modulus(w) \in Nat \ {0, 1}
      BY <1>1, ModulusType
    <3> QED BY <2>1, <3>1
  <2>3. ASSUME NEW j \in 0 .. n - 1 PROVE At(j, v) = ShiftedBit(i, s, j)
    <3>1. j \in Nat /\ j <= Bits(8) /\ ~(j + k < n)
      BY <1>1, <1>5
    <3>2. ~At(j, v) /\ At(j, v) \in BOOLEAN
      BY <2>1, <3>1, AtZero, AtType
    <3> QED BY <1>3, <3>1, <3>2
  <2> QED BY <1>2, <2>2, <2>3 DEF BitsMoved, n, w
<1> QED
  BY <1>4, <1>5

(* SAR: the sign bit comes down from above.                                *)
LEMMA SarMoved ==
    ASSUME NEW s, NEW i, NEW a, Shiftable(s, i, a), i.op = "sar", NEW k \in Nat \ {0}, k = ShiftCount(i, s),
           NEW v, v = IF k >= Bits(i.w) THEN B(Msb(i.w, a)) * (Modulus(i.w) - 1)
                      ELSE Truncate(i.w, Signed(Modulus(i.w), a) \div 2 ^ k),
           NEW cf, cf = IF k >= Bits(i.w) THEN Msb(i.w, a) ELSE At(k - 1, a)
    PROVE  BitsMoved(i, s, v) /\ cf = ShiftedOut(i, s)
<1> DEFINE n == Bits(i.w)
           w == i.w
<1>1. n \in Nat \ {0, 1} /\ n <= Bits(8) /\ Bits(8) \in Nat /\ w \in Widths /\ a \in 0 .. Modulus(w) - 1
  BY BitsType DEF Shiftable, Widths
<1>2. ShiftedOut(i, s) = At(Least(k - 1, n - 1), a)
  <2>1. ShiftedOut(i, s) = DstBit(i, s, Least(k - 1, n - 1))
    BY DEF ShiftedOut
  <2> QED BY <2>1, DstAt
<1>3. ASSUME NEW j \in 0 .. n - 1 PROVE ShiftedBit(i, s, j) = At(Least(j + k, n - 1), a)
  <2>1. ShiftedBit(i, s, j) = DstBit(i, s, Least(j + k, n - 1))
    BY DEF ShiftedBit
  <2> QED BY <2>1, DstAt
<1>4. CASE k >= n
  <2>1. v = B(Msb(w, a)) * (Modulus(w) - 1) /\ cf = Msb(w, a)
    BY <1>4
  <2>2. /\ v \in 0 .. Modulus(w) - 1
        /\ \A j \in 0 .. n - 1 : SameBit(j, v, n - 1, a)
    BY <1>1, <2>1, OnesBits
  <2>3. ASSUME NEW j \in 0 .. n - 1 PROVE At(j, v) = ShiftedBit(i, s, j)
    <3>1. Least(j + k, n - 1) = n - 1
      BY <1>1, <1>4 DEF Least
    <3>2. At(j, v) \in BOOLEAN /\ At(n - 1, a) \in BOOLEAN
      BY AtType
    <3>3. SameBit(j, v, n - 1, a)
      BY <2>2
    <3> QED BY <1>3, <3>1, <3>2, <3>3 DEF SameBit
  <2>4. cf = ShiftedOut(i, s)
    <3>1. Least(k - 1, n - 1) = n - 1
      BY <1>1, <1>4 DEF Least
    <3>2. At(n - 1, a) \in BOOLEAN /\ Msb(w, a) \in BOOLEAN
      BY AtType, BooleanBits
    <3>3. Msb(w, a) <=> At(n - 1, a)
      BY <1>1, TopBit
    <3> QED BY <1>2, <2>1, <3>1, <3>2, <3>3
  <2> QED BY <2>2, <2>3, <2>4 DEF BitsMoved
<1>5. CASE ~(k >= n)
  <2>1. v = Truncate(w, Signed(Modulus(w), a) \div 2 ^ k) /\ cf = At(k - 1, a)
    BY <1>5
  <2>2. k < n
    BY <1>1, <1>5
  <2>3. /\ v \in 0 .. Modulus(w) - 1
        /\ \A j \in 0 .. n - 1 : SameBit(j, v, Least(j + k, n - 1), a)
    BY <1>1, <2>1, <2>2, SignedBits
  <2>4. ASSUME NEW j \in 0 .. n - 1 PROVE At(j, v) = ShiftedBit(i, s, j)
    <3>1. At(j, v) \in BOOLEAN /\ At(Least(j + k, n - 1), a) \in BOOLEAN
      BY AtType
    <3>2. SameBit(j, v, Least(j + k, n - 1), a)
      BY <2>3
    <3> QED BY <1>3, <3>1, <3>2 DEF SameBit
  <2>5. cf = ShiftedOut(i, s)
    <3>1. Least(k - 1, n - 1) = k - 1
      BY <1>1, <2>2 DEF Least
    <3> QED BY <1>2, <2>1, <3>1
  <2> QED BY <2>3, <2>4, <2>5 DEF BitsMoved
<1> QED
  BY <1>4, <1>5

(* A count and its remainder turn alike.                                   *)
LEMMA ResidueShift ==
    ASSUME NEW m \in Nat \ {0}, NEW c \in Nat, NEW k, k = c % m, NEW x \in Int
    PROVE  (x - c) % m = (x - k) % m /\ (x + c) % m = (x + k) % m /\ k \in 0 .. m - 1
<1> DEFINE g == c \div m
           y == x - k
           z == x + k
<1>1. g \in Int /\ k \in 0 .. m - 1 /\ c = m * g + k
  BY FloorParts
<1> HIDE DEF g
<1>2. y \in Int /\ z \in Int
  BY <1>1
<1> DEFINE p == y \div m
           r == y % m
           q == z \div m
           s == z % m
<1>3. p \in Int /\ r \in 0 .. m - 1 /\ y = m * p + r /\ q \in Int /\ s \in 0 .. m - 1 /\ z = m * q + s
  <2> HIDE DEF y, z
  <2> QED BY <1>2, FloorParts
<1>4. y = x - k /\ z = x + k
  OBVIOUS
<1> HIDE DEF p, r, q, s
<1> HIDE DEF y, z
<1> DEFINE b == p - g
           d == q + g
           e == x - c
           f == x + c
<1>5. b \in Int /\ d \in Int /\ e \in Int /\ f \in Int /\ e = m * b + r /\ f = m * d + s
  <2>1. m * b = m * p - m * g /\ m * d = m * q + m * g
    BY <1>1, <1>3
  <2> QED BY <1>1, <1>3, <1>4, <2>1
<1> HIDE DEF b, d, e, f
<1>6. e % m = r /\ f % m = s
  BY <1>3, <1>5, FloorUnique
<1> QED
  BY <1>1, <1>6 DEF e, f, r, s, y, z

(* The same, for every place that turns.                                   *)
LEMMA ResidueShifts ==
    \A m \in Nat \ {0}, c \in Nat :
        /\ c % m \in 0 .. m - 1
        /\ \A x \in Int : (x - c) % m = (x - (c % m)) % m /\ (x + c) % m = (x + (c % m)) % m
<1> SUFFICES ASSUME NEW m \in Nat \ {0}, NEW c \in Nat, NEW k, k = c % m
             PROVE  k \in 0 .. m - 1 /\ \A x \in Int : (x - c) % m = (x - k) % m /\ (x + c) % m = (x + k) % m
  OBVIOUS
<1>1. ASSUME NEW x \in Int PROVE k \in 0 .. m - 1 /\ (x - c) % m = (x - k) % m /\ (x + c) % m = (x + k) % m
  BY ResidueShift
<1>2. 0 \in Int
  OBVIOUS
<1> QED
  BY <1>1, <1>2

(* ROL and ROR.                                                            *)
LEMMA RotateMoved ==
    ASSUME NEW s, NEW i, NEW a, Shiftable(s, i, a), i.op \in {"rol", "ror"}, NEW c \in Nat \ {0}, c = ShiftCount(i, s),
           NEW k, k = c % Bits(i.w),
           NEW v, v = IF i.op = "rol" THEN ShiftLeft(i.w, a, k) + ShiftRight(i.w, a, Bits(i.w) - k)
                                      ELSE ShiftRight(i.w, a, k) + ShiftLeft(i.w, a, Bits(i.w) - k),
           NEW cf, cf = IF i.op = "rol" THEN Bit(1, v) ELSE Msb(i.w, v)
    PROVE  BitsMoved(i, s, v) /\ cf = ShiftedOut(i, s)
<1> DEFINE n == Bits(i.w)
           w == i.w
           d == n - k
<1>1. n \in Nat \ {0, 1} /\ n <= Bits(8) /\ Bits(8) \in Nat /\ w \in Widths /\ a \in 0 .. Modulus(w) - 1
  BY BitsType DEF Shiftable, Widths
<1>2. k \in 0 .. n - 1 /\ \A x \in Int : (x - c) % n = (x - k) % n /\ (x + c) % n = (x + k) % n
  <2>1. k = c % n /\ n \in Nat \ {0} /\ c \in Nat
    BY <1>1
  <2> HIDE DEF n
  <2> QED BY ONLY <2>1, ResidueShifts
<1>3. k \in Nat /\ k <= n /\ d \in Nat /\ d <= n /\ n - d = k /\ d = n - k
  <2>1. k \in 0 .. n - 1 /\ n \in Nat /\ d = n - k
    BY <1>1, <1>2
  <2> HIDE DEF n, d
  <2> QED BY <2>1
<1>4. ASSUME NEW x \in Int PROVE DstBit(i, s, x) = At(x, a)
  BY DstAt
<1>5. CASE i.op = "rol"
  <2>1. v = ShiftLeft(w, a, k) + ShiftRight(w, a, d) /\ cf = Bit(1, v)
    BY <1>5
  <2> HIDE DEF w
  <2>2. /\ v \in 0 .. Modulus(w) - 1
        /\ \A j \in 0 .. n - 1 : IF j >= k THEN SameBit(j, v, j - k, a) ELSE SameBit(j, v, j + d, a)
    <3>1. d = Bits(w) - k
      BY DEF w
    <3> HIDE DEF d
    <3> QED BY <1>1, <1>3, <2>1, <3>1, DoubleBits DEF w
  <2>3. ASSUME NEW j \in 0 .. n - 1 PROVE At(j, v) = At((j - c) % n, a)
    <3>1. At(j, v) \in BOOLEAN /\ At((j - c) % n, a) \in BOOLEAN
      BY AtType
    <3>2. (j - c) % n = IF j >= k THEN j - k ELSE j + d
      <4> DEFINE x == j - k
      <4>1. (j - c) % n = x % n
        <5>1. j \in Int
          OBVIOUS
        <5> QED BY <1>2, <5>1
      <4>2. x \in Int /\ (j >= k => x \in 0 .. n - 1) /\ (~(j >= k) => x \in -n .. -1 /\ x + n = j + d)
        <5>1. n \in Nat /\ k \in 0 .. n - 1 /\ d = n - k /\ x = j - k /\ j \in 0 .. n - 1
          BY <1>1, <1>2
        <5> HIDE DEF x, n, d
        <5> QED BY <5>1
      <4> HIDE DEF x, n, d
      <4>3. (j >= k => x % n = x) /\ (~(j >= k) => x % n = x + n)
        BY <1>1, <4>2, WrapOnce
      <4> QED BY <4>1, <4>2, <4>3 DEF x
    <3>3. IF j >= k THEN SameBit(j, v, j - k, a) ELSE SameBit(j, v, j + d, a)
      BY <2>2
    <3> QED BY <3>1, <3>2, <3>3 DEF SameBit
  <2>4. ASSUME NEW j \in 0 .. n - 1 PROVE At(j, v) = ShiftedBit(i, s, j)
    <3>1. ShiftedBit(i, s, j) = DstBit(i, s, (j - c) % n)
      BY <1>5 DEF ShiftedBit
    <3> QED BY <2>3, <3>1, DstAt
  <2>5. cf = ShiftedOut(i, s)
    <3>1. ShiftedOut(i, s) = DstBit(i, s, (0 - c) % n)
      BY <1>5 DEF ShiftedOut
    <3>2. At(0, v) = At((0 - c) % n, a)
      BY <1>1, <2>3
    <3>3. At(0, v) <=> Bit(1, v)
      BY LowestBit
    <3>4. At(0, v) \in BOOLEAN /\ Bit(1, v) \in BOOLEAN
      BY AtType, BooleanBits
    <3> QED BY <2>1, <3>1, <3>2, <3>3, <3>4, DstAt
  <2> QED BY <2>2, <2>4, <2>5 DEF BitsMoved, w
<1>6. CASE i.op = "ror"
  <2>1. v = ShiftLeft(w, a, d) + ShiftRight(w, a, k) /\ cf = Msb(w, v)
    <3>1. ShiftLeft(w, a, d) \in Nat /\ ShiftRight(w, a, k) \in Nat
      BY <1>1, <1>3, ShiftTypes
    <3>2. v = ShiftRight(w, a, k) + ShiftLeft(w, a, d) /\ cf = Msb(w, v)
      BY <1>6
    <3> QED BY <3>1, <3>2
  <2> HIDE DEF w
  <2>2. /\ v \in 0 .. Modulus(w) - 1
        /\ \A j \in 0 .. n - 1 : IF j >= d THEN SameBit(j, v, j - d, a) ELSE SameBit(j, v, j + k, a)
    <3>1. k = Bits(w) - d
      BY <1>3 DEF w
    <3> HIDE DEF d
    <3> QED BY <1>1, <1>3, <2>1, <3>1, DoubleBits DEF w
  <2>3. ASSUME NEW j \in 0 .. n - 1 PROVE At(j, v) = At((j + c) % n, a)
    <3>1. At(j, v) \in BOOLEAN /\ At((j + c) % n, a) \in BOOLEAN
      BY AtType
    <3>2. (j + c) % n = IF j >= d THEN j - d ELSE j + k
      <4> DEFINE x == j + k
      <4>1. (j + c) % n = x % n
        <5>1. j \in Int
          OBVIOUS
        <5> QED BY <1>2, <5>1
      <4>2. x \in Int /\ (j >= d => x \in n .. 2 * n - 1 /\ x - n = j - d) /\ (~(j >= d) => x \in 0 .. n - 1)
        <5>1. n \in Nat /\ k \in 0 .. n - 1 /\ d = n - k /\ x = j + k /\ j \in 0 .. n - 1
          BY <1>1, <1>2
        <5> HIDE DEF x, n, d
        <5> QED BY <5>1
      <4> HIDE DEF x, n, d
      <4>3. (j >= d => x % n = x - n) /\ (~(j >= d) => x % n = x)
        BY <1>1, <4>2, WrapOnce
      <4> QED BY <4>1, <4>2, <4>3 DEF x
    <3>3. IF j >= d THEN SameBit(j, v, j - d, a) ELSE SameBit(j, v, j + k, a)
      BY <2>2
    <3> QED BY <3>1, <3>2, <3>3 DEF SameBit
  <2>4. ASSUME NEW j \in 0 .. n - 1 PROVE At(j, v) = ShiftedBit(i, s, j)
    <3>1. ShiftedBit(i, s, j) = DstBit(i, s, (j + c) % n)
      BY <1>6 DEF ShiftedBit
    <3> QED BY <2>3, <3>1, DstAt
  <2>5. cf = ShiftedOut(i, s)
    <3>1. ShiftedOut(i, s) = DstBit(i, s, (n - 1 + c) % n)
      BY <1>6 DEF ShiftedOut
    <3>2. At(n - 1, v) = At((n - 1 + c) % n, a)
      <4>1. n - 1 \in 0 .. n - 1
        BY <1>1
      <4> QED BY <2>3, <4>1
    <3>3. Msb(w, v) <=> At(n - 1, v)
      BY <1>1, <2>2, TopBit DEF w
    <3>4. At(n - 1, v) \in BOOLEAN /\ Msb(w, v) \in BOOLEAN
      BY AtType, BooleanBits
    <3> QED BY <2>1, <3>1, <3>2, <3>3, <3>4, DstAt
  <2> QED BY <2>2, <2>4, <2>5 DEF BitsMoved, w
<1> QED
  BY <1>5, <1>6

(* RCL and RCR; a count that is a multiple of the ring leaves everything.  *)
LEMMA RingMoved ==
    ASSUME NEW s, NEW i, NEW a, Shiftable(s, i, a), s.flags.cf \in BOOLEAN, i.op \in {"rcl", "rcr"},
           NEW c \in Nat, c = ShiftCount(i, s), NEW k, k = c % (Bits(i.w) + 1),
           NEW q, q = carry_turns(i.w, i.op = "rcl", k, a, s.flags.cf)
    PROVE  BitsMoved(i, s, q.v) /\ q.c = ShiftedOut(i, s) /\ (k = 0 => q.v = a /\ q.c = s.flags.cf)
<1> DEFINE n == Bits(i.w)
           w == i.w
           m == n + 1
           left == i.op = "rcl"
           p == [v |-> a, c |-> s.flags.cf]
<1>1. n \in Nat \ {0, 1} /\ w \in Widths /\ a \in 0 .. Modulus(w) - 1 /\ m \in Nat \ {0}
  BY BitsType DEF Shiftable
<1>2. k \in 0 .. m - 1 /\ \A x \in Int : (x - c) % m = (x - k) % m /\ (x + c) % m = (x + k) % m
  <2>1. k = c % m /\ m \in Nat \ {0} /\ c \in Nat
    BY <1>1
  <2> HIDE DEF m, n
  <2> QED BY ONLY <2>1, ResidueShifts
<1>3. k \in Nat /\ left \in BOOLEAN
  BY <1>1, <1>2
<1>4. OnRing(w, q) /\ \A j \in 0 .. n : SameRing(w, q, j, p, Turned(w, left, k, j))
  <2>1. p = [v |-> a, c |-> s.flags.cf] /\ q = carry_turns(w, left, k, a, s.flags.cf)
    OBVIOUS
  <2> HIDE DEF p, w, left
  <2> QED BY <1>1, <1>3, <2>1, TurnsBits DEF w
<1>5. k = 0 => q.v = a /\ q.c = s.flags.cf
  <2>1. \E f : q = f[k] /\ f[0] = p
    BY <1>3, CarryTurns
  <2> QED BY <2>1
<1>6. ASSUME NEW j \in 0 .. n PROVE Ring(w, q, j) = ShiftedBit(i, s, j)
  <2> DEFINE x == Turned(w, left, k, j)
  <2>1. ShiftedBit(i, s, j) = RingBit(i, s, x)
    <3>0. j \in Int
      OBVIOUS
    <3>1. CASE left
      <4>1. ShiftedBit(i, s, j) = RingBit(i, s, (j - c) % m) /\ x = (j - k) % m
        BY <3>1 DEF ShiftedBit, Turned
      <4> QED BY <1>2, <3>0, <4>1
    <3>2. CASE ~left
      <4>0. i.op = "rcr"
        BY <3>2
      <4>1. ShiftedBit(i, s, j) = RingBit(i, s, (j + c) % m) /\ x = (j + k) % m
        BY <3>2, <4>0 DEF ShiftedBit, Turned
      <4> QED BY <1>2, <3>0, <4>1
    <3> QED BY <3>1, <3>2
  <2>2. SameRing(w, q, j, p, x)
    BY <1>4
  <2> HIDE DEF x
  <2>3. RingBit(i, s, x) = Ring(w, p, x)
    BY DstAt DEF RingBit, Ring
  <2>4. Ring(w, q, j) \in BOOLEAN /\ Ring(w, p, x) \in BOOLEAN
    BY <1>4, AtType DEF Ring, OnRing
  <2> QED BY <2>1, <2>2, <2>3, <2>4 DEF SameRing
<1>7. q.c = ShiftedOut(i, s)
  <2>1. Ring(w, q, n) = q.c
    BY DEF Ring
  <2>2. Ring(w, q, n) = ShiftedBit(i, s, n)
    BY <1>1, <1>6
  <2>3. CASE c = 0
    <3>1. ShiftedOut(i, s) = s.flags.cf
      BY <2>3 DEF ShiftedOut
    <3>2. k = 0
      <4> HIDE DEF n
      <4>1. k = c % m
        BY DEF n
      <4> HIDE DEF m
      <4> QED BY <1>1, <2>3, <4>1
    <3> QED BY <1>5, <3>1, <3>2
  <2>4. CASE c # 0
    <3>1. ShiftedOut(i, s) = ShiftedBit(i, s, n)
      BY <2>4 DEF ShiftedOut
    <3> QED BY <2>1, <2>2, <3>1
  <2> QED BY <2>3, <2>4
<1>8. ASSUME NEW j \in 0 .. n - 1 PROVE At(j, q.v) = ShiftedBit(i, s, j)
  <2>1. j \in 0 .. n /\ j # n
    BY <1>1
  <2>2. Ring(w, q, j) = At(j, q.v)
    BY <2>1 DEF Ring
  <2> QED BY <1>6, <2>1, <2>2
<1> QED
  BY <1>4, <1>5, <1>7, <1>8 DEF BitsMoved, OnRing

(* SHLD and SHRD by a count that is not zero.                              *)
LEMMA DoubleMoved ==
    ASSUME NEW s, NEW i, NEW a, Shiftable(s, i, a), i.op \in DoubleShifts, NEW k \in Nat \ {0}, k = ShiftCount(i, s), k < Bits(i.w),
           NEW b \in 0 .. Modulus(i.w) - 1, b = ValueOf(s, i, i.src),
           NEW v, v = IF i.op = "shld" THEN ShiftLeft(i.w, a, k) + ShiftRight(i.w, b, Bits(i.w) - k)
                                       ELSE ShiftRight(i.w, a, k) + ShiftLeft(i.w, b, Bits(i.w) - k),
           NEW cf, cf = At(IF i.op = "shld" THEN Bits(i.w) - k ELSE k - 1, a)
    PROVE  BitsMoved(i, s, v) /\ cf = ShiftedOut(i, s)
<1> DEFINE n == Bits(i.w)
           w == i.w
           d == n - k
<1>1. n \in Nat \ {0, 1} /\ w \in Widths /\ a \in 0 .. Modulus(w) - 1 /\ b \in 0 .. Modulus(w) - 1
  BY BitsType DEF Shiftable
<1>2. k <= n /\ d \in Nat /\ d <= n /\ n - d = k /\ d = n - k
  BY <1>1
<1>3. \A j : SrcBit(i, s, j) = At(j, b)
  BY DEF SrcBit, At
<1>4. CASE i.op = "shld"
  <2>1. v = ShiftLeft(w, a, k) + ShiftRight(w, b, d) /\ cf = At(d, a)
    BY <1>4
  <2> HIDE DEF w
  <2>2. /\ v \in 0 .. Modulus(w) - 1
        /\ \A j \in 0 .. n - 1 : IF j >= k THEN SameBit(j, v, j - k, a) ELSE SameBit(j, v, j + d, b)
    <3>1. d = Bits(w) - k
      BY DEF w
    <3> HIDE DEF d
    <3> QED BY <1>1, <1>2, <2>1, <3>1, DoubleBits DEF w
  <2>3. ASSUME NEW j \in 0 .. n - 1 PROVE At(j, v) = ShiftedBit(i, s, j)
    <3>1. ShiftedBit(i, s, j) = IF j >= k THEN DstBit(i, s, j - k) ELSE SrcBit(i, s, n - k + j)
      BY <1>4 DEF ShiftedBit
    <3>2. n - k + j = j + d
      BY <1>1
    <3>3. At(j, v) \in BOOLEAN /\ At(j - k, a) \in BOOLEAN /\ At(j + d, b) \in BOOLEAN
      BY AtType
    <3>4. DstBit(i, s, j - k) = At(j - k, a) /\ SrcBit(i, s, j + d) = At(j + d, b)
      BY <1>3, DstAt
    <3>5. IF j >= k THEN SameBit(j, v, j - k, a) ELSE SameBit(j, v, j + d, b)
      BY <2>2
    <3> HIDE DEF d
    <3> QED BY <3>1, <3>2, <3>3, <3>4, <3>5 DEF SameBit
  <2>4. cf = ShiftedOut(i, s)
    <3>1. ShiftedOut(i, s) = (k <= n /\ DstBit(i, s, d))
      BY <1>4 DEF ShiftedOut
    <3>2. DstBit(i, s, d) = At(d, a) /\ At(d, a) \in BOOLEAN
      BY DstAt, AtType
    <3> QED BY <1>2, <2>1, <3>1, <3>2
  <2> QED BY <2>2, <2>3, <2>4 DEF BitsMoved, w
<1>5. CASE i.op = "shrd"
  <2>1. v = ShiftLeft(w, b, d) + ShiftRight(w, a, k) /\ cf = At(k - 1, a)
    <3>1. ShiftLeft(w, b, d) \in Nat /\ ShiftRight(w, a, k) \in Nat
      BY <1>1, <1>2, ShiftTypes
    <3>2. v = ShiftRight(w, a, k) + ShiftLeft(w, b, d) /\ cf = At(k - 1, a)
      BY <1>5
    <3> QED BY <3>1, <3>2
  <2> HIDE DEF w
  <2>2. /\ v \in 0 .. Modulus(w) - 1
        /\ \A j \in 0 .. n - 1 : IF j >= d THEN SameBit(j, v, j - d, b) ELSE SameBit(j, v, j + k, a)
    <3>1. k = Bits(w) - d
      BY <1>2 DEF w
    <3> HIDE DEF d
    <3> QED BY <1>1, <1>2, <2>1, <3>1, DoubleBits DEF w
  <2>3. ASSUME NEW j \in 0 .. n - 1 PROVE At(j, v) = ShiftedBit(i, s, j)
    <3>1. ShiftedBit(i, s, j) = IF j + k < n THEN DstBit(i, s, j + k) ELSE SrcBit(i, s, j + k - n)
      BY <1>5 DEF ShiftedBit
    <3>2. j + k - n = j - d /\ (j + k < n <=> ~(j >= d))
      BY <1>1
    <3>3. At(j, v) \in BOOLEAN /\ At(j + k, a) \in BOOLEAN /\ At(j - d, b) \in BOOLEAN
      BY AtType
    <3>4. DstBit(i, s, j + k) = At(j + k, a) /\ SrcBit(i, s, j - d) = At(j - d, b)
      BY <1>3, DstAt
    <3>5. IF j >= d THEN SameBit(j, v, j - d, b) ELSE SameBit(j, v, j + k, a)
      BY <2>2
    <3> HIDE DEF d
    <3> QED BY <3>1, <3>2, <3>3, <3>4, <3>5 DEF SameBit
  <2>4. cf = ShiftedOut(i, s)
    <3>1. ShiftedOut(i, s) = (k <= n /\ DstBit(i, s, k - 1))
      BY <1>5 DEF ShiftedOut
    <3>2. DstBit(i, s, k - 1) = At(k - 1, a) /\ At(k - 1, a) \in BOOLEAN
      BY DstAt, AtType
    <3> QED BY <1>2, <2>1, <3>1, <3>2
  <2> QED BY <2>2, <2>3, <2>4 DEF BitsMoved, w
<1> QED
  BY <1>4, <1>5 DEF DoubleShifts

(* What a shift commits is read back from its destination.                 *)
LEMMA CommitShown ==
    ASSUME NEW s \in CpuStates, s.reason = "none", NEW i \in Instructions, i.dst \in RegisterOperands(i.w) \cup {"mem"},
           i.op \in ShiftRotateOps, NEW v \in 0 .. Modulus(i.w) - 1, NEW f \in Flags,
           Unshifted(i, s) => f = s.flags, NEW t, t = Commit(s, i, v, f)
    PROVE  Failed(s, i, t) \/ (Completed(s, t) /\ t.flags = f /\ ValueOf(t, i, i.dst) = v)
<1>1. i.op \notin {"inc", "dec"} /\ i.op \notin LoadOnlyOps
  BY DEF ShiftRotateOps, DoubleShifts, LoadOnlyOps, IntegerReaders, MulDivOps
<1>2. \/ Failed(s, i, t)
      \/ /\ Completed(s, t) /\ t.flags = f /\ ValueAt(t, i, i.dst, memory_address(s, i)) = v
         /\ i.dst = "mem" => t.gpr = s.gpr
         /\ i.dst # "mem" => /\ t.gpr = [s.gpr EXCEPT ![Holder(i.dst)] = Merged(i.dst, s.gpr[Holder(i.dst)], v, i.w)]
                             /\ t.mem = s.mem
  <2>1. CommitEnds(s, i, v, f, t)
    BY <1>1, CommitEndsSo
  <2> QED BY <2>1 DEF CommitEnds
<1>3. i.dst = "mem" /\ t.gpr = s.gpr => memory_address(t, i) = memory_address(s, i)
  BY DEF memory_address
<1>4. i.dst # "mem" => ValueAt(t, i, i.dst, memory_address(s, i)) = ValueAt(t, i, i.dst, memory_address(t, i))
  BY DEF ValueAt
<1> QED
  BY <1>2, <1>3, <1>4 DEF ValueOf

(* The operand and the carry of an attempt that got through.               *)
LEMMA ShiftDone ==
    ASSUME NEW s \in CpuStates, s.reason = "none", NEW i \in Instructions, i.dst \in RegisterOperands(i.w) \cup {"mem"},
           i.op \in ShiftRotateOps, NEW n, ShiftCount(i, s) = 0 => n = 0, NEW a, NEW v, NEW f \in Flags,
           n = 0 => BitsMoved(i, s, a) /\ s.flags.cf = ShiftedOut(i, s),
           n # 0 => BitsMoved(i, s, v) /\ f.cf = ShiftedOut(i, s),
           NEW t, t = IF n = 0 THEN WriteBack(s, i, a) ELSE Commit(s, i, v, f)
    PROVE  Failed(s, i, t) \/ (Completed(s, t) /\ ShiftExact(i, s, t))
<1> DEFINE x == IF n = 0 THEN a ELSE v
           g == IF n = 0 THEN s.flags ELSE f
<1>1. BitsMoved(i, s, x) /\ g.cf = ShiftedOut(i, s)
  OBVIOUS
<1>2. g \in Flags /\ (Unshifted(i, s) => g = s.flags)
  BY DEF CpuStates, Unshifted
<1>3. t = Commit(s, i, x, g)
  <2>1. CASE n = 0
    <3>1. s = [s EXCEPT !.flags = s.flags]
      BY DEF CpuStates
    <3> QED BY <2>1, <3>1 DEF WriteBack, Commit
  <2>2. CASE n # 0
    BY <2>2
  <2> QED BY <2>1, <2>2
<1>4. x \in 0 .. Modulus(i.w) - 1
  BY <1>1 DEF BitsMoved
<1> HIDE DEF x, g
<1>5. Failed(s, i, t) \/ (Completed(s, t) /\ t.flags = g /\ ValueOf(t, i, i.dst) = x)
  BY ONLY s \in CpuStates, s.reason = "none", i \in Instructions, i.dst \in RegisterOperands(i.w) \cup {"mem"},
          i.op \in ShiftRotateOps, <1>2, <1>3, <1>4, CommitShown
<1>6. ASSUME ValueOf(t, i, i.dst) = x, t.flags = g PROVE ShiftExact(i, s, t)
  BY <1>1, <1>6 DEF ShiftExact, BitsMoved, At
<1> QED
  BY <1>5, <1>6

(* Every shift and rotate, at every width and count, by its handler.       *)
LEMMA ShiftAttempt ==
    ASSUME NEW s \in CpuStates, s.reason = "none", NEW i, Decoded(i), i.op \in ShiftRotateOps,
           NEW t, t = ShiftRotateHandler(s, i)
    PROVE  Failed(s, i, t) \/ (Completed(s, t) /\ ShiftExact(i, s, t))
<1> DEFINE w == i.w
           r == read_operand(s, i, i.dst, w)
           a == r.v
           c == ShiftCount(i, s)
<1>1. /\ i \in Instructions /\ w \in Widths /\ i.dst \in RegisterOperands(w) \cup {"mem"} /\ i.dst \in Readable(w)
      /\ c \in Nat
      /\ i.op \notin DoubleShifts => c = read_shift_count(s, i)
      /\ i.op \in DoubleShifts => c = read_shift_count(s, [i EXCEPT !.src = i.count]) % Bits(w) /\ c < Bits(w)
  BY CountParts
<1>2. \/ r.reason = "none" /\ Shiftable(s, i, a)
      \/ r.reason # "none" /\ Failed(s, i, [s EXCEPT !.reason = r.reason, !.addr = r.addr])
  <2>1. r = read_operand(s, i, i.dst, w)
    OBVIOUS
  <2> HIDE DEF r
  <2>2. Loaded(s, i, i.dst, w, r) \/ Unreadable(s, i, i.dst, r)
    BY <1>1, <2>1, ReadOperand
  <2>3. ValueOf(s, i, i.dst) = OperandValue(s, i, i.dst, w)
    BY ValueIsOperand
  <2>4. Loaded(s, i, i.dst, w, r) => r.reason = "none" /\ Shiftable(s, i, a)
    BY <1>1, <2>3 DEF Loaded, Shiftable
  <2>5. Unreadable(s, i, i.dst, r) => r.reason # "none" /\ Failed(s, i, [s EXCEPT !.reason = r.reason, !.addr = r.addr])
    <3>1. Unreadable(s, i, i.dst, r) => r.reason # "none"
      BY DEF Unreadable
    <3> QED BY <1>1, <2>1, <3>1, ReadFailed
  <2> QED BY <2>2, <2>4, <2>5
<1>3. CASE r.reason # "none"
  <2>1. t = [s EXCEPT !.reason = r.reason, !.addr = r.addr]
    BY <1>3 DEF ShiftRotateHandler, ShiftRotateOps, DoubleShifts, shift_rm, rotate, rotate_carry, double_shift, With
  <2> QED BY <1>2, <1>3, <2>1
<1>4. CASE r.reason = "none"
  <2>1. Shiftable(s, i, a)
    BY <1>2, <1>4
  <2>2. s.flags \in Flags /\ s.flags.of \in BOOLEAN /\ s.flags.cf \in BOOLEAN
    <3>1. s.flags \in Flags
      BY DEF CpuStates
    <3> QED BY <3>1 DEF Flags
  <2>3. Bits(w) \in Nat \ {0, 1} /\ Bits(w) <= Bits(8) /\ Bits(8) \in Nat /\ a \in 0 .. Modulus(w) - 1 /\ a \in Nat
    <3> HIDE DEF a
    <3> QED BY <1>1, <2>1, BitsType, ResidueSmall DEF Widths, Shiftable
  <2>4. c = 0 /\ i.op \notin {"rcl", "rcr"} => BitsMoved(i, s, a) /\ s.flags.cf = ShiftedOut(i, s)
    <3> HIDE DEF a
    <3> QED BY <2>1, ZeroMoved
  <2>5. CASE i.op \in {"shl", "shr", "sar"}
    <3> DEFINE k == read_shift_count(s, i)
               sar == i.op = "sar" /\ k >= Bits(w)
               v == CASE i.op = "shl" -> ShiftLeft(w, a, k)
                      [] i.op = "shr" -> ShiftRight(w, a, k)
                      [] i.op = "sar" -> IF sar THEN B(Msb(w, a)) * (Modulus(w) - 1)
                                         ELSE Truncate(w, Signed(Modulus(w), a) \div 2 ^ k)
               cf == IF sar THEN Msb(w, a)
                     ELSE k <= Bits(w) /\ Bit(2 ^ (IF i.op = "shl" THEN Bits(w) - k ELSE k - 1), a)
               of == CASE i.op = "shl" -> Msb(w, a) # NextMsb(w, a)
                       [] i.op = "shr" -> Msb(w, a)
                       [] i.op = "sar" -> FALSE
               f == ResultFlags(w, v, cf, of, FALSE)
    <3>0. k = ShiftCount(i, s) /\ k = c /\ k \in Nat
      BY <1>1, <2>5 DEF DoubleShifts
    <3>1. t = IF k = 0 THEN WriteBack(s, i, a) ELSE Commit(s, i, v, f)
      BY <1>4, <2>5 DEF ShiftRotateHandler, DoubleShifts, shift_rm, With
    <3> HIDE DEF k
    <3>2. cf \in BOOLEAN /\ of \in BOOLEAN
      <4>1. Msb(w, a) \in BOOLEAN /\ NextMsb(w, a) \in BOOLEAN
            /\ Bit(2 ^ (IF i.op = "shl" THEN Bits(w) - k ELSE k - 1), a) \in BOOLEAN
        BY BooleanBits
      <4>2. of \in BOOLEAN
        BY <2>5, <4>1
      <4>3. cf \in BOOLEAN
        BY <4>1
      <4> QED BY <4>2, <4>3
    <3>3. f \in Flags /\ f.cf = cf
      <4>1. f.cf = cf
        BY DEF ResultFlags
      <4> HIDE DEF cf, of, v
      <4> QED BY <3>2, <4>1, ResultFlagsType
    <3>4. k # 0 => BitsMoved(i, s, v) /\ cf = ShiftedOut(i, s)
      <4> SUFFICES ASSUME k # 0 PROVE BitsMoved(i, s, v) /\ cf = ShiftedOut(i, s)
        OBVIOUS
      <4>0. k \in Nat \ {0} /\ k = ShiftCount(i, s)
        BY <3>0
      <4>1. CASE i.op = "shl"
        <5>1. v = ShiftLeft(w, a, k) /\ (k > Bits(w) => ~cf) /\ (k <= Bits(w) => cf = At(Bits(w) - k, a))
          <6>1. v = ShiftLeft(w, a, k) /\ cf = (k <= Bits(w) /\ Bit(2 ^ (Bits(w) - k), a))
            BY <4>1
          <6>2. (k > Bits(w) => ~(k <= Bits(w))) /\ At(Bits(w) - k, a) \in BOOLEAN
            BY <2>3, <4>0, AtType
          <6>3. cf = (k <= Bits(w) /\ At(Bits(w) - k, a))
            BY <6>1 DEF At
          <6> HIDE DEF v, cf, a
          <6> QED BY <6>1, <6>2, <6>3
        <5> HIDE DEF v, cf, a
        <5> QED BY <2>1, <3>2, <4>0, <4>1, <5>1, ShlMoved
      <4>2. CASE i.op = "shr"
        <5>1. v = ShiftRight(w, a, k) /\ (k > Bits(w) => ~cf) /\ (k <= Bits(w) => cf = At(k - 1, a))
          <6>1. v = ShiftRight(w, a, k) /\ cf = (k <= Bits(w) /\ Bit(2 ^ (k - 1), a))
            BY <4>2
          <6>2. (k > Bits(w) => ~(k <= Bits(w))) /\ At(k - 1, a) \in BOOLEAN
            BY <2>3, <4>0, AtType
          <6>3. cf = (k <= Bits(w) /\ At(k - 1, a))
            BY <6>1 DEF At
          <6> HIDE DEF v, cf, a
          <6> QED BY <6>1, <6>2, <6>3
        <5> HIDE DEF v, cf, a
        <5> QED BY <2>1, <3>2, <4>0, <4>2, <5>1, ShrMoved
      <4>3. CASE i.op = "sar"
        <5>1. /\ v = IF k >= Bits(w) THEN B(Msb(w, a)) * (Modulus(w) - 1)
                     ELSE Truncate(w, Signed(Modulus(w), a) \div 2 ^ k)
              /\ cf = IF k >= Bits(w) THEN Msb(w, a) ELSE At(k - 1, a)
          <6>1. CASE k >= Bits(w)
            <7>1. sar
              BY <4>3, <6>1
            <7>2. v = B(Msb(w, a)) * (Modulus(w) - 1)
              BY <4>3, <7>1
            <7>3. cf = Msb(w, a)
              BY <7>1
            <7> HIDE DEF v, cf, a, sar
            <7> QED BY <6>1, <7>2, <7>3
          <6>2. CASE ~(k >= Bits(w))
            <7>1. k <= Bits(w) /\ ~sar
              BY <2>3, <4>0, <6>2
            <7>2. v = Truncate(w, Signed(Modulus(w), a) \div 2 ^ k)
              BY <4>3, <7>1
            <7>3. cf = At(k - 1, a)
              <8>1. cf = (k <= Bits(w) /\ Bit(2 ^ (k - 1), a))
                BY <4>3, <7>1
              <8> HIDE DEF cf, a
              <8> QED BY <7>1, <8>1, AtType DEF At
            <7> HIDE DEF v, cf, a, sar
            <7> QED BY <6>2, <7>2, <7>3
          <6> QED BY <6>1, <6>2
        <5> HIDE DEF v, cf, a
        <5> QED BY <2>1, <4>0, <4>3, <5>1, SarMoved
      <4> QED BY <2>5, <4>1, <4>2, <4>3
    <3>5. ShiftCount(i, s) = 0 => k = 0
      BY <3>0
    <3>6. (k = 0 => BitsMoved(i, s, a) /\ s.flags.cf = ShiftedOut(i, s)) /\ (k # 0 => BitsMoved(i, s, v) /\ f.cf = ShiftedOut(i, s))
      <4>0. k = 0 => BitsMoved(i, s, a) /\ s.flags.cf = ShiftedOut(i, s)
        BY <2>4, <2>5, <3>0
      <4>1. i.op \notin {"rcl", "rcr"}
        BY <2>5
      <4> HIDE DEF v, f, a, cf
      <4> QED BY <3>3, <3>4, <4>0
    <3> HIDE DEF v, f, a
    <3> QED BY <1>1, <3>1, <3>3, <3>5, <3>6, ShiftDone
  <2>6. CASE i.op \in {"rol", "ror"}
    <3> DEFINE k == c % Bits(w)
               v == IF i.op = "rol" THEN ShiftLeft(w, a, k) + ShiftRight(w, a, Bits(w) - k)
                                    ELSE ShiftRight(w, a, k) + ShiftLeft(w, a, Bits(w) - k)
               cf == IF i.op = "rol" THEN Bit(1, v) ELSE Msb(w, v)
               of == IF c = 1 \/ i.src = "cx" \/ i.dst = "mem"
                     THEN IF i.op = "rol" THEN Msb(w, a) # NextMsb(w, a) ELSE Bit(1, a) # Msb(w, a)
                     ELSE s.flags.of
               f == [s.flags EXCEPT !.cf = cf, !.of = of]
    <3>0. c = read_shift_count(s, i) /\ i.op \notin DoubleShifts
      BY <1>1, <2>6 DEF DoubleShifts
    <3> HIDE DEF c
    <3>1. t = IF c = 0 THEN WriteBack(s, i, a) ELSE Commit(s, i, v, f)
      BY <1>4, <2>6, <3>0 DEF ShiftRotateHandler, DoubleShifts, rotate, With
    <3>2. cf \in BOOLEAN /\ of \in BOOLEAN
      <4>1. Msb(w, a) \in BOOLEAN /\ NextMsb(w, a) \in BOOLEAN /\ Bit(1, a) \in BOOLEAN
            /\ Bit(1, v) \in BOOLEAN /\ Msb(w, v) \in BOOLEAN
        BY BooleanBits
      <4> HIDE DEF v
      <4> QED BY <2>2, <4>1
    <3>3. f \in Flags /\ f.cf = cf
      <4> HIDE DEF cf, of
      <4> QED BY <2>2, <3>2 DEF Flags
    <3>4. c # 0 => BitsMoved(i, s, v) /\ cf = ShiftedOut(i, s)
      <4> SUFFICES ASSUME c # 0 PROVE BitsMoved(i, s, v) /\ cf = ShiftedOut(i, s)
        OBVIOUS
      <4>0. c \in Nat \ {0} /\ c = ShiftCount(i, s)
        BY <1>1 DEF c
      <4>1. /\ k = c % Bits(i.w)
            /\ v = IF i.op = "rol" THEN ShiftLeft(i.w, a, k) + ShiftRight(i.w, a, Bits(i.w) - k)
                                   ELSE ShiftRight(i.w, a, k) + ShiftLeft(i.w, a, Bits(i.w) - k)
            /\ cf = IF i.op = "rol" THEN Bit(1, v) ELSE Msb(i.w, v)
        OBVIOUS
      <4> HIDE DEF v, cf, a, k, w
      <4> QED BY <2>1, <2>6, <4>0, <4>1, RotateMoved
    <3>5. ShiftCount(i, s) = 0 => c = 0
      BY DEF c
    <3>6. (c = 0 => BitsMoved(i, s, a) /\ s.flags.cf = ShiftedOut(i, s)) /\ (c # 0 => BitsMoved(i, s, v) /\ f.cf = ShiftedOut(i, s))
      <4>1. i.op \notin {"rcl", "rcr"}
        BY <2>6
      <4> HIDE DEF v, f, a, cf
      <4> QED BY <2>4, <3>3, <3>4, <4>1
    <3> HIDE DEF v, f, a
    <3> QED BY <1>1, <3>1, <3>3, <3>5, <3>6, ShiftDone
  <2>7. CASE i.op \in {"rcl", "rcr"}
    <3> DEFINE k == c % (Bits(w) + 1)
               q == carry_turns(w, i.op = "rcl", k, a, s.flags.cf)
               v == q.v
               of == Msb(w, a) # (IF i.op = "rcl" THEN NextMsb(w, a) ELSE s.flags.cf)
               f == [s.flags EXCEPT !.cf = q.c, !.of = of]
    <3>0. c = read_shift_count(s, i) /\ i.op \notin DoubleShifts
      BY <1>1, <2>7 DEF DoubleShifts
    <3> HIDE DEF c
    <3>1. t = IF k = 0 THEN WriteBack(s, i, a) ELSE Commit(s, i, v, f)
      BY <1>4, <2>7, <3>0 DEF ShiftRotateHandler, DoubleShifts, rotate_carry, With
    <3>2. k \in Nat /\ (c = 0 => k = 0)
      BY <1>1, <2>3
    <3>3. q.c \in BOOLEAN
      <4> HIDE DEF k, a
      <4> QED BY <1>1, <2>2, <2>3, <3>2, CarryTurnsType
    <3>4. of \in BOOLEAN
      BY <2>2, BooleanBits
    <3>5. f \in Flags /\ f.cf = q.c
      <4> HIDE DEF q, of
      <4> QED BY <2>2, <3>3, <3>4 DEF Flags
    <3>6. BitsMoved(i, s, v) /\ q.c = ShiftedOut(i, s) /\ (k = 0 => v = a /\ q.c = s.flags.cf)
      <4>0. c \in Nat /\ c = ShiftCount(i, s)
        BY <1>1 DEF c
      <4>1. k = c % (Bits(i.w) + 1) /\ q = carry_turns(i.w, i.op = "rcl", k, a, s.flags.cf)
        OBVIOUS
      <4> HIDE DEF q, a, k, w
      <4> QED BY <2>1, <2>2, <2>7, <4>0, <4>1, RingMoved
    <3>7. ShiftCount(i, s) = 0 => k = 0
      BY <3>2 DEF c
    <3>8. (k = 0 => BitsMoved(i, s, a) /\ s.flags.cf = ShiftedOut(i, s)) /\ (k # 0 => BitsMoved(i, s, v) /\ f.cf = ShiftedOut(i, s))
      <4> HIDE DEF v, f, a, q, k
      <4> QED BY <3>5, <3>6
    <3> HIDE DEF k, v, f, a, q
    <3> QED BY <1>1, <3>1, <3>5, <3>7, <3>8, ShiftDone
  <2>8. CASE i.op \in DoubleShifts
    <3> DEFINE b == read_register(s, i.src, w)
               left == i.op = "shld"
               v == IF left THEN ShiftLeft(w, a, c) + ShiftRight(w, b, Bits(w) - c)
                            ELSE ShiftRight(w, a, c) + ShiftLeft(w, b, Bits(w) - c)
               cf == Bit(2 ^ (IF left THEN Bits(w) - c ELSE c - 1), a)
               of == c = 1 /\ Msb(w, v) # (IF left THEN cf ELSE Msb(w, a))
               f == ResultFlags(w, v, cf, of, FALSE)
    <3>0. c = read_shift_count(s, [i EXCEPT !.src = i.count]) % Bits(w) /\ c < Bits(w)
      BY <1>1, <2>8
    <3> HIDE DEF c
    <3>1. t = IF c = 0 THEN WriteBack(s, i, a) ELSE Commit(s, i, v, f)
      BY <1>4, <2>8, <3>0 DEF ShiftRotateHandler, DoubleShifts, double_shift, With
    <3>2. b \in 0 .. Modulus(w) - 1 /\ b = ValueOf(s, i, i.src)
      <4>1. i.src \in Gprs /\ i.src \notin HighBytes
        BY <2>8 DEF Decoded, Gprs, HighBytes
      <4>2. s.gpr[i.src] \in Int
        BY <4>1, Parts
      <4>3. b = Truncate(w, s.gpr[i.src])
        BY <4>1 DEF read_register
      <4>4. b = ValueOf(s, i, i.src)
        BY <4>1, <4>3 DEF ValueOf, ValueAt, Gprs, HighBytes
      <4> HIDE DEF b, w
      <4> QED BY <1>1, <4>2, <4>3, <4>4, Residue
    <3>3. cf \in BOOLEAN /\ of \in BOOLEAN
      <4>1. cf \in BOOLEAN
        BY BooleanBits
      <4>2. of \in BOOLEAN
        BY Zenon
      <4> QED BY <4>1, <4>2
    <3>4. f \in Flags /\ f.cf = cf
      <4>1. f.cf = cf
        BY DEF ResultFlags
      <4> HIDE DEF cf, of, v
      <4> QED BY <3>3, <4>1, ResultFlagsType
    <3>5. c # 0 => BitsMoved(i, s, v) /\ cf = ShiftedOut(i, s)
      <4> SUFFICES ASSUME c # 0 PROVE BitsMoved(i, s, v) /\ cf = ShiftedOut(i, s)
        OBVIOUS
      <4>0. c \in Nat \ {0} /\ c = ShiftCount(i, s) /\ c < Bits(i.w)
        BY <1>1, <3>0 DEF c
      <4>1. /\ v = IF i.op = "shld" THEN ShiftLeft(i.w, a, c) + ShiftRight(i.w, b, Bits(i.w) - c)
                                    ELSE ShiftRight(i.w, a, c) + ShiftLeft(i.w, b, Bits(i.w) - c)
            /\ cf = At(IF i.op = "shld" THEN Bits(i.w) - c ELSE c - 1, a)
        BY DEF At
      <4>2. b \in 0 .. Modulus(i.w) - 1 /\ b = ValueOf(s, i, i.src)
        BY <3>2
      <4> HIDE DEF v, cf, a, b, w
      <4> QED BY <2>1, <2>8, <4>0, <4>1, <4>2, DoubleMoved
    <3>6. ShiftCount(i, s) = 0 => c = 0
      BY DEF c
    <3>7. (c = 0 => BitsMoved(i, s, a) /\ s.flags.cf = ShiftedOut(i, s)) /\ (c # 0 => BitsMoved(i, s, v) /\ f.cf = ShiftedOut(i, s))
      <4>1. i.op \notin {"rcl", "rcr"}
        BY <2>8 DEF DoubleShifts
      <4> HIDE DEF v, f, a, cf
      <4> QED BY <2>4, <3>4, <3>5, <4>1
    <3> HIDE DEF v, f, a
    <3> QED BY <1>1, <3>1, <3>4, <3>6, <3>7, ShiftDone
  <2> QED BY <2>5, <2>6, <2>7, <2>8 DEF ShiftRotateOps
<1> QED
  BY <1>3, <1>4

(* What is exact seen from the machine of the attempt is exact seen from   *)
(* the start: the count, the operands and the flags that are read agree.   *)
LEMMA ShiftExactCarries ==
    ASSUME NEW i, NEW s, NEW u, NEW t, NEW v, i.op \in ShiftRotateOps, u.gpr = s.gpr,
           \A o : ValueOf(u, i, o) = ValueOf(s, i, o),
           i.op \in {"rcl", "rcr"} \/ ShiftCount(i, s) = 0 => u.flags = s.flags,
           v.gpr = t.gpr, v.mem = t.mem, v.flags = t.flags, ShiftExact(i, u, t)
    PROVE  ShiftExact(i, s, v)
<1>1. ShiftCount(i, u) = ShiftCount(i, s)
  BY DEF ShiftCount, read_shift_count
<1>2. \A j : DstBit(i, u, j) = DstBit(i, s, j) /\ SrcBit(i, u, j) = SrcBit(i, s, j)
  BY DEF DstBit, SrcBit
<1>3. i.op \in {"rcl", "rcr"} => \A j : RingBit(i, u, j) = RingBit(i, s, j)
  BY <1>2 DEF RingBit
<1>4. ASSUME NEW j PROVE ShiftedBit(i, u, j) = ShiftedBit(i, s, j)
  <2>1. CASE i.op \in {"rcl", "rcr"}
    BY <1>1, <1>3, <2>1 DEF ShiftedBit
  <2>2. CASE i.op \in {"shl", "shr", "sar"}
    BY <1>1, <1>2, <2>2 DEF ShiftedBit
  <2>3. CASE i.op \in {"rol", "ror"}
    BY <1>1, <1>2, <2>3 DEF ShiftedBit
  <2>4. CASE i.op \in DoubleShifts
    BY <1>1, <1>2, <2>4 DEF ShiftedBit, DoubleShifts
  <2> QED BY <2>1, <2>2, <2>3, <2>4 DEF ShiftRotateOps
<1>5. ShiftedOut(i, u) = ShiftedOut(i, s)
  <2>1. CASE ShiftCount(i, s) = 0
    BY <1>1, <2>1 DEF ShiftedOut
  <2>2. CASE ShiftCount(i, s) # 0 /\ i.op \in {"rcl", "rcr"}
    BY <1>1, <1>4, <2>2 DEF ShiftedOut
  <2>3. CASE ShiftCount(i, s) # 0 /\ i.op \in {"shl", "shr", "sar", "shld", "shrd"}
    BY <1>1, <1>2, <2>3 DEF ShiftedOut
  <2>4. CASE ShiftCount(i, s) # 0 /\ i.op \in {"rol", "ror"}
    BY <1>1, <1>2, <2>4 DEF ShiftedOut
  <2> QED BY <2>1, <2>2, <2>3, <2>4 DEF ShiftRotateOps, DoubleShifts
<1>6. ValueOf(v, i, i.dst) = ValueOf(t, i, i.dst)
  BY DEF ValueOf, ValueAt, memory_address
<1> QED
  BY <1>4, <1>5, <1>6 DEF ShiftExact

(* A program of one shift or rotate ends with every bit where it belongs   *)
(* and the right one in CF, for every count the mask lets through and      *)
(* whatever faulted and was retried before (shift.cpp, the handlers of     *)
(* SHL, SHR, SAR, ROL, ROR, RCL, RCR, SHLD and SHRD).                      *)
THEOREM ShiftsAreExact == Spec => []ShiftsExact
<1>1. ProgramInv /\ FirstInv /\ SingleInv => ShiftsExact
  <2> SUFFICES ASSUME ProgramInv, FirstInv, SingleInv, Single(ShiftRotateOps), repairs = 0 \/ Restartable(prog[1], start)
               PROVE  ShiftExact(prog[1], start, cpu)
    BY DEF ShiftsExact
  <2> DEFINE i == prog[1]
  <2>1. i.op \in ShiftRotateOps /\ Len(prog) = 1 /\ pc > 1
    BY DEF Single, Done
  <2>2. Steady(i)
    BY <2>1 DEF Steady, SteadyOps, IntegerWriters, IntegerReaders, ShiftRotateOps, DoubleShifts
  <2>3. Decoded(i) /\ i.op \in IntegerOps /\ cpu.reason = "none" /\ Attempted(i, repairs, start, cpu)
    BY <2>1, <2>2, SteadyDecoded DEF SingleInv
  <2> HIDE DEF i
  <2>4. PICK c : Resembles(i, repairs, start, c) /\ c.reason = "none" /\ cpu = Step(c, i)
    BY <2>3 DEF Attempted
  <2> DEFINE u == Ready(c)
             t == Handler(u, i)
  <2>5. c \in CpuStates
    BY <2>4 DEF Resembles
  <2>6. u \in CpuStates /\ u.reason = "none" /\ Resembles(i, repairs, start, u)
    BY <2>4, <2>5, ReadyParts, ReadyResembles
  <2>7. t = ShiftRotateHandler(u, i)
    BY <2>1, <2>3, OpTables DEF Handler, IntegerHandler
  <2>8. t.reason = "none"
    <3>1. t.reason # "none" => cpu = t
      BY <2>4, <2>5, StepIsHandler
    <3> QED BY <2>3, <3>1
  <2> HIDE DEF u, t
  <2>9. Completed(u, t) /\ ShiftExact(i, u, t)
    <3>1. ~Failed(u, i, t)
      BY <2>6, <2>8 DEF Failed, CpuStates
    <3> QED BY <2>1, <2>3, <2>6, <2>7, <3>1, ShiftAttempt
  <2>10. cpu.gpr = t.gpr /\ cpu.mem = t.mem /\ cpu.flags = t.flags
    BY <2>4, <2>5, <2>8, <2>9, StepIsHandler DEF u, t, Completed
  <2>11. /\ u.gpr = start.gpr /\ \A o : ValueOf(u, i, o) = ValueOf(start, i, o)
         /\ i.op \in {"rcl", "rcr"} \/ ShiftCount(i, start) = 0 => u.flags = start.flags
    <3>1. i.op \in {"rcl", "rcr"} => repairs = 0 \/ i.dst # "mem"
      BY DEF i, Restartable
    <3>2. ShiftCount(i, start) = 0 => Unshifted(i, start)
      BY <2>1 DEF Unshifted
    <3>3. u.mem = start.mem
      <4>1. repairs = 0 \/ (i.op \in Rereads /\ Restartable(i, start))
        BY <2>1 DEF i, Rereads
      <4> QED BY <2>6, <4>1, ResemblingMemory
    <3> QED BY <2>6, <3>1, <3>2, <3>3, ResemblingValues DEF Resembles
  <2>12. ShiftExact(i, start, cpu)
    BY <2>1, <2>9, <2>10, <2>11, ShiftExactCarries
  <2> QED BY <2>12 DEF i
<1> QED
  BY <1>1, ProgramsWellFormed, FailedAttemptsHarmless, OneCompleteAttempt, PTL

=============================================================================
