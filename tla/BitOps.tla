-------------------------------- MODULE BitOps ------------------------------
(* Bit manipulation (handlers/bmi.cpp, bit_count.cpp, bt.cpp, btc.cpp,     *)
(* btr.cpp, bts.cpp, bsf.cpp, bsr.cpp, bswap.cpp, data/movbe.cpp) and the  *)
(* small integer handlers beside it. Operand 2, where there is one, is     *)
(* i.count. The loops over bits are recursive functions of the bit index.  *)
EXTENDS Alu, Bitwise

CONSTANTS
    FieldBits,   \* bits of the start, length and index fields: 8 in the code
    CrcPoly      \* the reflected CRC-32C polynomial: 0x82F63B78 in the code

ASSUME FieldBitsAssumption == FieldBits \in Nat \ {0}
ASSUME CrcPolyAssumption == CrcPoly \in 0 .. Modulus(4) - 1

Field(k, a) == (a \div 2 ^ (k * FieldBits)) % 2 ^ FieldBits
BitsOf(w, a) == {k \in 0 .. Bits(w) - 1 : Bit(2 ^ k, a)}
Negate(w, a) == Truncate(w, -a)
Complement(w, a) == Modulus(w) - 1 - a

-----------------------------------------------------------------------------
(* Logic. CF and OF are cleared.                                           *)
AND(s, i) == Operands(s, i, LAMBDA l, r : Commit(s, i, l & r, set_logic_flags(i.w, l & r)))
OR(s, i) == Operands(s, i, LAMBDA l, r : Commit(s, i, l | r, set_logic_flags(i.w, l | r)))
XOR(s, i) == Operands(s, i, LAMBDA l, r : Commit(s, i, l ^^ r, set_logic_flags(i.w, l ^^ r)))
TEST(s, i) == Operands(s, i, LAMBDA l, r : [s EXCEPT !.flags = set_logic_flags(i.w, l & r)])

-----------------------------------------------------------------------------
(* Operand 1, then operand 2.                                              *)
Sources(s, i, Use(_, _)) ==
    With(s, read_operand(s, i, i.src, i.w), LAMBDA a :
        With(s, read_operand(s, i, i.count, i.w), LAMBDA b : Use(a, b)))

(* BMI. SF and ZF follow the result, OF, AF and PF are cleared.            *)
BmiFlags(w, v, carry) ==
    [cf |-> carry, of |-> FALSE, af |-> FALSE, pf |-> FALSE, zf |-> v = 0, sf |-> Msb(w, v)]

blsi(s, i) == With(s, read_operand(s, i, i.src, i.w), LAMBDA a :
    LET v == a & Negate(i.w, a) IN Commit(s, i, v, BmiFlags(i.w, v, a # 0)))
blsr(s, i) == With(s, read_operand(s, i, i.src, i.w), LAMBDA a :
    LET v == a & Truncate(i.w, a - 1) IN Commit(s, i, v, BmiFlags(i.w, v, a = 0)))
blsmsk(s, i) == With(s, read_operand(s, i, i.src, i.w), LAMBDA a :
    LET v == a ^^ Truncate(i.w, a - 1)
    IN Commit(s, i, v, [BmiFlags(i.w, v, a = 0) EXCEPT !.zf = FALSE]))
andn(s, i) == Sources(s, i, LAMBDA a, b :
    LET v == Complement(i.w, a) & b IN Commit(s, i, v, set_logic_flags(i.w, v)))

bzhi(s, i) == Sources(s, i, LAMBDA a, b :
    LET index == Field(0, b)
        v == IF index < Bits(i.w) THEN a % 2 ^ index ELSE a
    IN Commit(s, i, v, BmiFlags(i.w, v, index >= Bits(i.w))))

bextr_field(w, source, control) ==
    LET first == Field(0, control)
        len == Field(1, control)
        extract_len == IF first + len >= Bits(w) THEN Bits(w) - first ELSE len
    IN IF first >= Bits(w) THEN 0 ELSE (source \div 2 ^ first) % 2 ^ extract_len

bextr(s, i) == Sources(s, i, LAMBDA a, b :
    LET v == bextr_field(i.w, a, b)
    IN Commit(s, i, v, [BmiFlags(i.w, v, FALSE) EXCEPT !.sf = FALSE]))

(* gathered[k] and scattered[k]: the result and the next bit of the dense  *)
(* side after the k lowest bits of the mask.                               *)
pext_bits(w, source, mask) ==
    LET gathered[k \in 0 .. Bits(w)] ==
            IF k = 0 THEN [v |-> 0, n |-> 0]
            ELSE LET p == gathered[k - 1]
                 IN IF ~Bit(2 ^ (k - 1), mask) THEN p
                    ELSE [v |-> p.v + B(Bit(2 ^ (k - 1), source)) * 2 ^ p.n, n |-> p.n + 1]
    IN gathered[Bits(w)].v

pdep_bits(w, source, mask) ==
    LET scattered[k \in 0 .. Bits(w)] ==
            IF k = 0 THEN [v |-> 0, n |-> 0]
            ELSE LET p == scattered[k - 1]
                 IN IF ~Bit(2 ^ (k - 1), mask) THEN p
                    ELSE [v |-> p.v + B(Bit(2 ^ p.n, source)) * 2 ^ (k - 1), n |-> p.n + 1]
    IN scattered[Bits(w)].v

pext(s, i) == Sources(s, i, LAMBDA a, b : write_operand(s, i, i.dst, pext_bits(i.w, a, b), i.w))
pdep(s, i) == Sources(s, i, LAMBDA a, b : write_operand(s, i, i.dst, pdep_bits(i.w, a, b), i.w))

(* The halves of the product with EDX or RDX: the low half goes to operand *)
(* 1 first, so that operand 0 wins when both are one register.             *)
mulx_low(w, a, b) == Truncate(w, a * b)
mulx_high(w, a, b) == (a * b) \div Modulus(w)

mulx(s, i) == With(s, read_operand(s, i, i.count, i.w), LAMBDA b :
    LET a == read_register(s, "dx", i.w)
    IN Then(write_operand(s, i, i.src, mulx_low(i.w, a, b), i.w),
            LAMBDA t : write_operand(t, i, i.dst, mulx_high(i.w, a, b), i.w)))

rotate_right(w, a, count) ==
    LET k == count % Bits(w) IN ShiftRight(w, a, k) + ShiftLeft(w, a, Bits(w) - k)
arithmetic_shift_right(w, a, count) == Truncate(w, AsInt(w, a) \div 2 ^ (count % Bits(w)))
shift_left(w, a, count) == ShiftLeft(w, a, count % Bits(w))
shift_right(w, a, count) == ShiftRight(w, a, count % Bits(w))

rorx(s, i) == With(s, read_operand(s, i, i.src, i.w), LAMBDA a :
    write_operand(s, i, i.dst, rotate_right(i.w, a, i.imm), i.w))
sarx(s, i) == Sources(s, i, LAMBDA a, k :
    write_operand(s, i, i.dst, arithmetic_shift_right(i.w, a, k), i.w))
shlx(s, i) == Sources(s, i, LAMBDA a, k : write_operand(s, i, i.dst, shift_left(i.w, a, k), i.w))
shrx(s, i) == Sources(s, i, LAMBDA a, k : write_operand(s, i, i.dst, shift_right(i.w, a, k), i.w))

-----------------------------------------------------------------------------
(* Counting. The register is written before the flags are cleared and set. *)
clear_count_flags(f) ==
    [f EXCEPT !.cf = FALSE, !.of = FALSE, !.sf = FALSE, !.af = FALSE, !.pf = FALSE]
Lowest(set) == CHOOSE k \in set : \A j \in set : k <= j
Highest(set) == CHOOSE k \in set : \A j \in set : k >= j

Count(s, i, n, carry, zero) ==
    [write_register(s, i.dst, n, i.w) EXCEPT !.flags = [clear_count_flags(@) EXCEPT !.cf = carry, !.zf = zero]]

popcnt(s, i) == With(s, read_operand(s, i, i.src, i.w), LAMBDA a :
    Count(s, i, Cardinality(BitsOf(i.w, a)), FALSE, a = 0))

(* A source of zero counts the width of the operand.                       *)
tzcnt(s, i) == With(s, read_operand(s, i, i.src, i.w), LAMBDA a :
    LET n == IF a = 0 THEN Bits(i.w) ELSE Lowest(BitsOf(i.w, a)) IN Count(s, i, n, a = 0, n = 0))
lzcnt(s, i) == With(s, read_operand(s, i, i.src, i.w), LAMBDA a :
    LET n == IF a = 0 THEN Bits(i.w) ELSE Bits(i.w) - 1 - Highest(BitsOf(i.w, a))
    IN Count(s, i, n, a = 0, n = 0))

(* A source of zero leaves the destination alone, upper half included.     *)
BSF(s, i) == With(s, read_operand(s, i, i.src, i.w), LAMBDA a :
    IF a = 0 THEN [s EXCEPT !.flags.zf = TRUE]
    ELSE write_register([s EXCEPT !.flags.zf = FALSE], i.dst, Lowest(BitsOf(i.w, a)), i.w))
BSR(s, i) == With(s, read_operand(s, i, i.src, i.w), LAMBDA a :
    IF a = 0 THEN [s EXCEPT !.flags.zf = TRUE]
    ELSE write_register([s EXCEPT !.flags.zf = FALSE], i.dst, Highest(BitsOf(i.w, a)), i.w))

(* CRC32: a byte is added to the low end of the remainder, then shifted    *)
(* out bit by bit. The source has iw bytes, the destination w.             *)
crc32c_update(crc, value, width) ==
    LET Byte(n) == (value \div Modulus(1) ^ n) % Modulus(1)
        Shifted(c) == IF c % 2 = 1 THEN (c \div 2) ^^ CrcPoly ELSE c \div 2
        after[k \in 0 .. Bits(width)] ==
            IF k = 0 THEN crc
            ELSE LET c == after[k - 1]
                     n == k - 1
                 IN Shifted(IF n % ByteBits = 0 THEN c ^^ Byte(n \div ByteBits) ELSE c)
    IN after[Bits(width)]

(* The register of the destination is named at 8 bytes or at 4.            *)
crc32_dest_width(i) == IF i.w = 8 THEN 8 ELSE 4

crc32_impl(s, i) == With(s, read_operand(s, i, i.src, i.iw), LAMBDA a :
    write_register(s, i.dst, crc32c_update(read_register(s, i.dst, 4), a, i.iw), crc32_dest_width(i)))

-----------------------------------------------------------------------------
(* BT and its variants. A bit index from a register is signed and, with a  *)
(* memory operand, names a bit of any element around the address.          *)
read_bit_index(s, i) ==
    IF i.src = "imm" THEN i.imm % Bits(i.w) ELSE AsInt(i.w, read_register(s, i.src, i.w))

(* Mutation: the element is found by a division that truncates.            *)
BitAddressTruncating(s, i) ==
    LET index == read_bit_index(s, i)
        elem_index == IF index < 0 THEN -((-index) \div Bits(i.w)) ELSE index \div Bits(i.w)
    IN (memory_address(s, i) + elem_index * i.w) % Container

BitAddress(s, i) ==
    (memory_address(s, i) + (read_bit_index(s, i) \div Bits(i.w)) * i.w) % Container

read_bt_base_value(s, i) ==
    IF i.dst = "mem" THEN read_memory_checked(s, BitAddress(s, i), i.w)
                     ELSE read_operand(s, i, i.dst, i.w)

BitWeight(s, i) == 2 ^ (read_bit_index(s, i) % Bits(i.w))

BT(s, i) == With(s, read_bt_base_value(s, i), LAMBDA a :
    [s EXCEPT !.flags.cf = Bit(BitWeight(s, i), a)])

(* The element is written back before CF is set.                           *)
WriteBit(s, i, old, v) ==
    Then(IF i.dst = "mem" THEN write_memory_checked(s, BitAddress(s, i), v, i.w)
                          ELSE write_operand(s, i, i.dst, v, i.w),
         LAMBDA t : [t EXCEPT !.flags.cf = Bit(BitWeight(s, i), old)])

btc_rmw(s, i) == With(s, read_bt_base_value(s, i), LAMBDA a :
    WriteBit(s, i, a, a ^^ BitWeight(s, i)))
btr_rmw(s, i) == With(s, read_bt_base_value(s, i), LAMBDA a :
    WriteBit(s, i, a, a & Complement(i.w, BitWeight(s, i))))
bts_rmw(s, i) == With(s, read_bt_base_value(s, i), LAMBDA a :
    WriteBit(s, i, a, a | BitWeight(s, i)))

-----------------------------------------------------------------------------
(* Byte order.                                                             *)
byteswap(w, a) ==
    LET swapped[k \in 0 .. w] ==
            IF k = 0 THEN 0
            ELSE swapped[k - 1] * Modulus(1) + ((a \div Modulus(1) ^ (k - 1)) % Modulus(1))
    IN swapped[w]

BSWAP(s, i) == write_register(s, i.dst, byteswap(i.w, read_register(s, i.dst, i.w)), i.w)
MOVBE(s, i) == With(s, read_operand(s, i, i.src, i.w), LAMBDA a :
    write_operand(s, i, i.dst, byteswap(i.w, a), i.w))

-----------------------------------------------------------------------------
(* Sign extension in the accumulator, and of the accumulator into DX.      *)
ExtendAx(s, w) == write_register(s, "ax", sign_extend(w \div 2, read_register(s, "ax", w \div 2)), w)
ExtendIntoDx(s, w) ==
    write_register(s, "dx", B(Msb(w, read_register(s, "ax", w))) * (Modulus(w) - 1), w)
CBW(s)  == ExtendAx(s, 2)
CWDE(s) == ExtendAx(s, 4)
CDQE(s) == ExtendAx(s, 8)
CWD(s) == ExtendIntoDx(s, 2)
CDQ(s) == ExtendIntoDx(s, 4)
CQO(s) == ExtendIntoDx(s, 8)

XLAT(s) == With(s, read_memory_checked(s, (s.gpr["bx"] + read_register(s, "ax", 1)) % Container, 1),
    LAMBDA v : write_register(s, "ax", v, 1))

(* Direct stores. The 64 bytes MOVDIR64B moves count as one operand here.  *)
MOVNTI(s, i) == With(s, read_operand(s, i, i.src, i.w), LAMBDA v : write_operand(s, i, i.dst, v, i.w))
movdir64b_impl(s, i) == With(s, read_memory_checked(s, memory_address(s, i), 8), LAMBDA v :
    write_memory_checked(s, read_register(s, i.dst, i.w), v, 8))

gp_fault(s, a) == [s EXCEPT !.reason = "general_protection", !.addr = a]

(* AADD: an aligned addition to memory that sets no flag.                  *)
AADD(s, i) ==
    IF memory_address(s, i) % i.w # 0 THEN gp_fault(s, memory_address(s, i))
    ELSE With(s, read_operand(s, i, "mem", i.w), LAMBDA a :
        write_operand(s, i, "mem", Truncate(i.w, a + read_register(s, i.src, i.w)), i.w))

(* BOUND: two elements from the address on; a fault of either names it.    *)
BOUND(s, i) ==
    LET a == memory_address(s, i)
        lower == read_memory_checked(s, a, i.w)
        upper == read_memory_checked(s, a + i.w, i.w)
        v == AsInt(i.w, read_register(s, i.dst, i.w))
    IN IF lower.reason # "none" \/ upper.reason # "none" THEN memory_fault(s, a)
       ELSE IF v < AsInt(i.w, lower.v) \/ v > AsInt(i.w, upper.v) THEN gp_fault(s, s.rip)
       ELSE s

(* ARPL: the low two bits are raised to the source's; always written.      *)
ARPL(s, i) == With(s, read_operand(s, i, i.dst, 2), LAMBDA a :
    LET rpl == read_register(s, i.src, 2) % 4
        v == IF rpl > a % 4 THEN a - (a % 4) + rpl ELSE a
    IN Then(write_operand(s, i, i.dst, v, 2), LAMBDA t : [t EXCEPT !.flags.zf = v # a]))
=============================================================================
