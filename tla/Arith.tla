-------------------------------- MODULE Arith --------------------------------
(* The integer helpers the instruction handlers share                      *)
(* (seven_core/src/handler_helpers.cpp): operands are residues modulo 2^8, *)
(* 2^16, 2^32 or 2^64 held in a 64-bit container, and the flag helpers     *)
(* derive CF, OF and AF from them with wrapping additions and bit tests.   *)
(* The operators that decide a flag take the modulus m of the operand and  *)
(* the modulus c of the container as arguments; a test of one bit is       *)
(* written as arithmetic on it.                                            *)
EXTENDS FlagMath, FiniteSets

CONSTANT ByteBits    \* bits per byte: 8 in the code, fewer for TLC

ASSUME ByteBitsAssumption == ByteBits \in Nat \ {0, 1}

Widths == {1, 2, 4, 8}
Bits(w) == w * ByteBits
Modulus(w) == 2 ^ Bits(w)
Container == Modulus(8)

(* The powers of two the widths are made of. This is what ^ means; it is   *)
(* stated because the provers know no exponentiation.                      *)
ASSUME PowersAssumption == 2 ^ 0 = 1 /\ \A n \in 0 .. Bits(8) : 2 ^ n \in Nat /\ 2 ^ (n + 1) = 2 * 2 ^ n

-----------------------------------------------------------------------------
(* The flag helpers.                                                       *)
Truncate(w, a) == a % Modulus(w)
sign_extend(w, a) == Signed(Modulus(w), Truncate(w, a)) % Container

(* Bit 4, the carry out of the low half of a byte.                         *)
AuxCarry(lhs, rhs, result) == AuxCarryAt(2 ^ (ByteBits \div 2), lhs, rhs, result)

even_parity(a) == Cardinality({k \in 0..ByteBits-1 : Bit(2 ^ k, a)}) % 2 = 0

ResultFlags(w, v, carry, overflow, aux) ==
    [cf |-> carry, of |-> overflow, af |-> aux,
     pf |-> even_parity(v), zf |-> v = 0, sf |-> Sign(Modulus(w), v)]

set_add_flags(w, lhs, rhs, result, carry) ==
    ResultFlags(w, result, AddCarry(Modulus(w), Container, lhs, rhs, carry),
                AddOverflow(Modulus(w), lhs, rhs, result), AuxCarry(lhs, rhs, result))

set_sub_flags(w, lhs, rhs, result, borrow) ==
    ResultFlags(w, result, SubBorrow(Modulus(w), Container, lhs, rhs, borrow),
                SubOverflow(Modulus(w), lhs, rhs, result), AuxCarry(lhs, rhs, result))

set_logic_flags(w, v) == ResultFlags(w, v, FALSE, FALSE, FALSE)

set_multiply_flags(w, v, overflow) ==
    [ResultFlags(w, v, overflow, overflow, FALSE) EXCEPT !.zf = FALSE]
=============================================================================
