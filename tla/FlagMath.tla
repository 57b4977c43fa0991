------------------------------ MODULE FlagMath ------------------------------
(* The part of the flag helpers (seven_core/src/handler_helpers.cpp) and   *)
(* of the condition codes that does not depend on the width of a byte: the *)
(* operators take the modulus m of the operand and the modulus c of the    *)
(* 64-bit container as arguments.                                          *)
EXTENDS Integers

(* One bit, given by its weight; the sign bit; static_cast to intN_t.      *)
Bit(weight, a) == (a \div weight) % 2 = 1
Sign(m, a) == a >= m \div 2
Signed(m, a) == IF Sign(m, a) THEN a - m ELSE a

(* The sum of two residues, or of one and a carry, wraps at most once.     *)
Reduce(c, x) == IF x >= c THEN x - c ELSE x

(* Mutation: a carry into the container's last bit gets lost.              *)
AddCarryNoContainer(m, c, lhs, rhs, carry) ==
    LET partial == Reduce(c, lhs + rhs)
        final == Reduce(c, partial + carry)
    IN partial < lhs \/ (m < c /\ final >= m)

AddCarry(m, c, lhs, rhs, carry) ==
    LET partial == Reduce(c, lhs + rhs)
        final == Reduce(c, partial + carry)
    IN \/ partial < lhs
       \/ carry = 1 /\ final = 0
       \/ m < c /\ final >= m

SubBorrow(m, c, lhs, rhs, borrow) ==
    \/ m = c /\ borrow = 1 /\ rhs = m - 1      \* subtrahend_overflowed
    \/ lhs < Reduce(c, rhs + borrow)

AddOverflow(m, lhs, rhs, result) ==
    Sign(m, lhs) = Sign(m, rhs) /\ Sign(m, lhs) # Sign(m, result)

(* Mutation: the rule for additions.                                       *)
SubOverflowAsAdd(m, lhs, rhs, result) == AddOverflow(m, lhs, rhs, result)

SubOverflow(m, lhs, rhs, result) ==
    Sign(m, lhs) # Sign(m, rhs) /\ Sign(m, lhs) # Sign(m, result)

(* AF: the three bits of that weight, exclusive or.                        *)
AuxCarryAt(weight, lhs, rhs, result) ==
    (Bit(weight, lhs) # Bit(weight, rhs)) # Bit(weight, result)

-----------------------------------------------------------------------------
(* The conditions of Jcc, SETcc and CMOVcc.                                *)
Conditions == {"o", "no", "b", "ae", "e", "ne", "be", "a",
               "s", "ns", "p", "np", "l", "ge", "le", "g"}

(* Mutation: signed "less" looks at SF only.                               *)
eval_condSignOnly(f, cond) ==
    CASE cond = "o"  -> f.of            [] cond = "no" -> ~f.of
      [] cond = "b"  -> f.cf            [] cond = "ae" -> ~f.cf
      [] cond = "e"  -> f.zf            [] cond = "ne" -> ~f.zf
      [] cond = "be" -> f.cf \/ f.zf    [] cond = "a"  -> ~f.cf /\ ~f.zf
      [] cond = "s"  -> f.sf            [] cond = "ns" -> ~f.sf
      [] cond = "p"  -> f.pf            [] cond = "np" -> ~f.pf
      [] cond = "l"  -> f.sf            [] cond = "ge" -> ~f.sf
      [] cond = "le" -> f.zf \/ f.sf    [] cond = "g"  -> ~f.zf /\ ~f.sf

eval_cond(f, cond) ==
    CASE cond = "o"  -> f.of                  [] cond = "no" -> ~f.of
      [] cond = "b"  -> f.cf                  [] cond = "ae" -> ~f.cf
      [] cond = "e"  -> f.zf                  [] cond = "ne" -> ~f.zf
      [] cond = "be" -> f.cf \/ f.zf          [] cond = "a"  -> ~f.cf /\ ~f.zf
      [] cond = "s"  -> f.sf                  [] cond = "ns" -> ~f.sf
      [] cond = "p"  -> f.pf                  [] cond = "np" -> ~f.pf
      [] cond = "l"  -> f.sf # f.of           [] cond = "ge" -> f.sf = f.of
      [] cond = "le" -> f.zf \/ f.sf # f.of   [] cond = "g"  -> ~f.zf /\ f.sf = f.of

-----------------------------------------------------------------------------
(* The status flags.                                                       *)
Flags == [cf : BOOLEAN, pf : BOOLEAN, af : BOOLEAN, zf : BOOLEAN, sf : BOOLEAN, of : BOOLEAN]
=============================================================================
