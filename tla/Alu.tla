--------------------------------- MODULE Alu ---------------------------------
(* The integer handlers of seven_core/src/handlers: one operator for all   *)
(* the encodings of an instruction. i.w is the operand width in bytes,     *)
(* i.dst and i.src name operands 0 and 1.                                  *)
EXTENDS Cpu

B(bool) == IF bool THEN 1 ELSE 0
CF(s) == B(s.flags.cf)

(* Operand 0 is read first, then operand 1.                                *)
Operands(s, i, Use(_, _)) ==
    With(s, read_operand(s, i, i.dst, i.w), LAMBDA lhs :
        With(s, read_operand(s, i, i.src, i.w), LAMBDA rhs : Use(lhs, rhs)))

(* The flags are set before the result is written, and stay set when the   *)
(* write faults.                                                           *)
Commit(s, i, v, flags) == write_operand([s EXCEPT !.flags = flags], i, i.dst, v, i.w)

ADD(s, i) == Operands(s, i, LAMBDA l, r :
    LET v == Truncate(i.w, l + r) IN Commit(s, i, v, set_add_flags(i.w, l, r, v, 0)))
ADC(s, i) == Operands(s, i, LAMBDA l, r :
    LET v == Truncate(i.w, l + r + CF(s)) IN Commit(s, i, v, set_add_flags(i.w, l, r, v, CF(s))))
SUB(s, i) == Operands(s, i, LAMBDA l, r :
    LET v == Truncate(i.w, l - r) IN Commit(s, i, v, set_sub_flags(i.w, l, r, v, 0)))
SBB(s, i) == Operands(s, i, LAMBDA l, r :
    LET v == Truncate(i.w, l - r - CF(s)) IN Commit(s, i, v, set_sub_flags(i.w, l, r, v, CF(s))))
CMP(s, i) == Operands(s, i, LAMBDA l, r :
    [s EXCEPT !.flags = set_sub_flags(i.w, l, r, Truncate(i.w, l - r), 0)])

(* INC and DEC put the old carry back.                                     *)
INC(s, i) == With(s, read_operand(s, i, i.dst, i.w), LAMBDA a :
    LET v == Truncate(i.w, a + 1)
    IN Commit(s, i, v, [set_add_flags(i.w, a, 1, v, 0) EXCEPT !.cf = s.flags.cf]))
DEC(s, i) == With(s, read_operand(s, i, i.dst, i.w), LAMBDA a :
    LET v == Truncate(i.w, a - 1)
    IN Commit(s, i, v, [set_sub_flags(i.w, a, 1, v, 0) EXCEPT !.cf = s.flags.cf]))
NEG(s, i) == With(s, read_operand(s, i, i.dst, i.w), LAMBDA a :
    LET v == Truncate(i.w, -a) IN Commit(s, i, v, set_sub_flags(i.w, 0, a, v, 0)))
NOT(s, i) == With(s, read_operand(s, i, i.dst, i.w), LAMBDA a :
    write_operand(s, i, i.dst, Modulus(i.w) - 1 - a, i.w))

-----------------------------------------------------------------------------
(* Shifts and rotates. The count is 1, CL or an immediate (i.src).         *)
shift_count_mask(w) == IF w = 8 THEN Bits(8) ELSE Bits(4)

read_shift_count(s, i) ==
    CASE i.src = "one" -> 1
      [] i.src = "cx"  -> s.gpr["cx"] % shift_count_mask(i.w)
      [] i.src = "imm" -> i.imm % shift_count_mask(i.w)

ShiftLeft(w, a, k) == IF k >= Bits(w) THEN 0 ELSE (a % 2 ^ (Bits(w) - k)) * 2 ^ k
ShiftRight(w, a, k) == IF k >= Bits(w) THEN 0 ELSE a \div 2 ^ k
Msb(w, a) == Sign(Modulus(w), a)
NextMsb(w, a) == Bit(2 ^ (Bits(w) - 2), a)

(* Mutation: a masked count of zero leaves the destination alone.          *)
WriteBackNothing(s, i, a) == s

(* A masked count of zero still writes the operand back.                   *)
WriteBack(s, i, a) == write_operand(s, i, i.dst, a, i.w)

shift_rm(s, i) == With(s, read_operand(s, i, i.dst, i.w), LAMBDA a :
    LET w == i.w
        k == read_shift_count(s, i)
        sar == i.op = "sar" /\ k >= Bits(w)
        v == CASE i.op = "shl" -> ShiftLeft(w, a, k)
               [] i.op = "shr" -> ShiftRight(w, a, k)
               [] i.op = "sar" -> IF sar THEN B(Msb(w, a)) * (Modulus(w) - 1)
                                  ELSE Truncate(w, Signed(Modulus(w), a) \div 2 ^ k)
        cf == IF sar THEN Msb(w, a)
              ELSE k <= Bits(w) /\ Bit(2 ^ (IF i.op = "shl" THEN Bits(w) - k ELSE k - 1), a)
        of == CASE i.op = "shl" -> Msb(w, a) # NextMsb(w, a)
                [] i.op = "shr" -> Msb(w, a)
                [] i.op = "sar" -> FALSE
    IN IF k = 0 THEN WriteBack(s, i, a)
       ELSE Commit(s, i, v, ResultFlags(w, v, cf, of, FALSE)))

(* Mutation: the count is reduced with the operand's own width.            *)
rotateNarrowMask(s, i) == With(s, read_operand(s, i, i.dst, i.w), LAMBDA a :
    LET w == i.w
        k == read_shift_count(s, i) % Bits(w)
        v == IF i.op = "rol" THEN ShiftLeft(w, a, k) + ShiftRight(w, a, Bits(w) - k)
                             ELSE ShiftRight(w, a, k) + ShiftLeft(w, a, Bits(w) - k)
        cf == IF i.op = "rol" THEN Bit(1, v) ELSE Msb(w, v)
    IN IF k = 0 THEN WriteBack(s, i, a) ELSE Commit(s, i, v, [s.flags EXCEPT !.cf = cf]))

(* ROL, ROR: CF depends on the masked count, the rotation on it modulo the *)
(* width; OF is written for a count of one, a CL count or a memory operand.*)
rotate(s, i) == With(s, read_operand(s, i, i.dst, i.w), LAMBDA a :
    LET w == i.w
        masked == read_shift_count(s, i)
        k == masked % Bits(w)
        v == IF i.op = "rol" THEN ShiftLeft(w, a, k) + ShiftRight(w, a, Bits(w) - k)
                             ELSE ShiftRight(w, a, k) + ShiftLeft(w, a, Bits(w) - k)
        cf == IF i.op = "rol" THEN Bit(1, v) ELSE Msb(w, v)
        of == IF masked = 1 \/ i.src = "cx" \/ i.dst = "mem"
              THEN IF i.op = "rol" THEN Msb(w, a) # NextMsb(w, a) ELSE Bit(1, a) # Msb(w, a)
              ELSE s.flags.of
    IN IF masked = 0 THEN WriteBack(s, i, a)
       ELSE Commit(s, i, v, [s.flags EXCEPT !.cf = cf, !.of = of]))

(* RCL, RCR: k times one bit through the carry, from value a and carry c.  *)
carry_turn(w, left, p) ==
    IF left THEN [v |-> ShiftLeft(w, p.v, 1) + B(p.c), c |-> Msb(w, p.v)]
    ELSE [v |-> ShiftRight(w, p.v, 1) + B(p.c) * 2 ^ (Bits(w) - 1), c |-> Bit(1, p.v)]
carry_turns(w, left, k, a, c) ==
    LET turn[n \in 0..k] == IF n = 0 THEN [v |-> a, c |-> c] ELSE carry_turn(w, left, turn[n - 1])
    IN turn[k]

rotate_carry(s, i) == With(s, read_operand(s, i, i.dst, i.w), LAMBDA a :
    LET w == i.w
        k == read_shift_count(s, i) % (Bits(w) + 1)
        r == carry_turns(w, i.op = "rcl", k, a, s.flags.cf)
        of == Msb(w, a) # (IF i.op = "rcl" THEN NextMsb(w, a) ELSE s.flags.cf)
    IN IF k = 0 THEN WriteBack(s, i, a)
       ELSE Commit(s, i, r.v, [s.flags EXCEPT !.cf = r.c, !.of = of]))

(* SHLD, SHRD: operand 1 is a register, its bits enter the destination.    *)
double_shift(s, i) == With(s, read_operand(s, i, i.dst, i.w), LAMBDA a :
    LET w == i.w
        k == read_shift_count(s, [i EXCEPT !.src = i.count]) % Bits(w)
        src == read_register(s, i.src, w)
        left == i.op = "shld"
        v == IF left THEN ShiftLeft(w, a, k) + ShiftRight(w, src, Bits(w) - k)
                     ELSE ShiftRight(w, a, k) + ShiftLeft(w, src, Bits(w) - k)
        cf == Bit(2 ^ (IF left THEN Bits(w) - k ELSE k - 1), a)
        of == k = 1 /\ Msb(w, v) # (IF left THEN cf ELSE Msb(w, a))
    IN IF k = 0 THEN WriteBack(s, i, a)
       ELSE Commit(s, i, v, ResultFlags(w, v, cf, of, FALSE)))
-----------------------------------------------------------------------------
(* Multiplication and division. The accumulator is AX, or DX:AX from the   *)
(* 16-bit forms on; the 8-bit forms keep both halves in AX.                *)
AsInt(w, a) == Signed(Modulus(w), a)
FitsSigned(w, x) == x \in -(Modulus(w) \div 2) .. Modulus(w) \div 2 - 1

WriteWide(s, w, high, low) ==
    IF w = 1 THEN write_register(s, "ax", high * Modulus(1) + low, 2)
    ELSE write_register(write_register(s, "ax", low, w), "dx", high, w)

WriteProduct(s, w, p, overflow) ==
    [WriteWide(s, w, Truncate(w, p \div Modulus(w)), Truncate(w, p))
        EXCEPT !.flags = set_multiply_flags(w, Truncate(w, p), overflow)]

MUL(s, i) == With(s, read_operand(s, i, i.dst, i.w), LAMBDA b :
    LET p == read_register(s, "ax", i.w) * b
    IN WriteProduct(s, i.w, p, p >= Modulus(i.w)))

(* Mutation: overflow is the unsigned test on the high half.               *)
imul_overflowHighHalf(w, p) == p \div Modulus(w) # 0

imul_overflow(w, p) == p # AsInt(w, Truncate(w, p))

(* One operand: the wide product; two or three: the low half to a register.*)
IMUL(s, i) ==
    IF i.src = "none"
    THEN With(s, read_operand(s, i, i.dst, i.w), LAMBDA b :
        LET p == AsInt(i.w, read_register(s, "ax", i.w)) * AsInt(i.w, b)
        IN WriteProduct(s, i.w, p, imul_overflow(i.w, p)))
    ELSE With(s, read_operand(s, i, i.src, i.w), LAMBDA b :
        LET p == AsInt(i.w, b) * AsInt(i.w, IF i.count = "imm"
                                        THEN Truncate(i.w, sign_extend(i.iw, i.imm))
                                        ELSE read_register(s, i.dst, i.w))
        IN [write_register(s, i.dst, Truncate(i.w, p), i.w)
               EXCEPT !.flags = set_multiply_flags(i.w, Truncate(i.w, p), imul_overflow(i.w, p))])

Dividend(s, w) ==
    IF w = 1 THEN read_register(s, "ax", 2)
    ELSE read_register(s, "dx", w) * Modulus(w) + read_register(s, "ax", w)

read_divisor_checked(s, i) ==
    LET r == read_operand(s, i, i.dst, i.w)
    IN IF r.reason = "none" /\ r.v = 0 THEN [r EXCEPT !.reason = "divide_error", !.addr = s.rip] ELSE r

DIV(s, i) == With(s, read_divisor_checked(s, i), LAMBDA d :
    LET q == Dividend(s, i.w) \div d
    IN IF q >= Modulus(i.w) THEN divide_fault(s)
       ELSE WriteWide(s, i.w, Dividend(s, i.w) % d, q))

(* C++ division truncates towards zero.                                    *)
Quotient(a, b) == LET q == (IF a < 0 THEN -a ELSE a) \div (IF b < 0 THEN -b ELSE b)
                  IN IF (a < 0) = (b < 0) THEN q ELSE -q

IDIV(s, i) == With(s, read_divisor_checked(s, i), LAMBDA b :
    LET d == AsInt(i.w, b)
        n == Signed(Modulus(i.w) * Modulus(i.w), Dividend(s, i.w))
        q == Quotient(n, d)
    IN IF ~FitsSigned(i.w, q) THEN divide_fault(s)
       ELSE WriteWide(s, i.w, Truncate(i.w, n - q * d), Truncate(i.w, q)))

-----------------------------------------------------------------------------
(* Moves and exchanges.                                                    *)
MOV(s, i) == With(s, read_operand(s, i, i.src, i.w), LAMBDA v : write_operand(s, i, i.dst, v, i.w))

(* MOV r/m8, r8 also reads its destination, before the source.             *)
MOV_RM8_R8(s, i) == Operands(s, i, LAMBDA l, r : write_operand(s, i, i.dst, r, 1))

(* MOV moffs, accumulator as written: reads operand 0, writes operand 1.   *)
MOV_MOFFS_ACC(s, i) == With(s, read_operand(s, i, i.dst, i.w), LAMBDA v :
    write_operand(s, i, i.src, v, i.w))

(* MOVZX, MOVSX and MOVSXD: a source of iw bytes to a register of w bytes. *)
MOVZX(s, i) == With(s, read_operand(s, i, i.src, i.iw), LAMBDA v : write_register(s, i.dst, v, i.w))
MOVSX(s, i) == With(s, read_operand(s, i, i.src, i.iw), LAMBDA v :
    write_register(s, i.dst, sign_extend(i.iw, v), i.w))
MOVSXD(s, i) == With(s, read_operand(s, i, i.src, i.iw), LAMBDA v :
    write_register(s, i.dst, sign_extend(i.iw, v), i.w))

(* Mutation: the register side is written before the memory side.          *)
XCHGRegisterFirst(s, i) == Operands(s, i, LAMBDA l, r :
    Then(write_operand(s, i, i.src, l, i.w), LAMBDA t : write_operand(t, i, i.dst, r, i.w)))

XCHG(s, i) == Operands(s, i, LAMBDA l, r :
    Then(write_operand(s, i, i.dst, r, i.w), LAMBDA t : write_operand(t, i, i.src, l, i.w)))

XADD(s, i) == Operands(s, i, LAMBDA l, r :
    LET v == Truncate(i.w, l + r)
    IN Then(Commit(s, i, v, set_add_flags(i.w, l, r, v, 0)),
            LAMBDA t : write_operand(t, i, i.src, l, i.w)))

(* CMPXCHG: the flags come last; CMPXCHG486 sets ZF only.                  *)
Exchange(s, i, l, r, flags) ==
    Then(IF l = read_register(s, "ax", i.w) THEN write_operand(s, i, i.dst, r, i.w)
                                            ELSE write_register(s, "ax", l, i.w),
         LAMBDA t : [t EXCEPT !.flags = flags])
CMPXCHG(s, i) == Operands(s, i, LAMBDA l, r :
    LET acc == read_register(s, "ax", i.w)
    IN Exchange(s, i, l, r, set_sub_flags(i.w, acc, l, Truncate(i.w, acc - l), 0)))
CMPXCHG486(s, i) == Operands(s, i, LAMBDA l, r :
    Exchange(s, i, l, r, [s.flags EXCEPT !.zf = l = read_register(s, "ax", i.w)]))

(* CMPXCHG8B: EDX:EAX against eight aligned bytes; only ZF.                *)
CMPXCHG8B(s, i) ==
    LET Pair(high, low) == read_register(s, high, 4) * Modulus(4) + read_register(s, low, 4)
    IN IF memory_address(s, i) % 8 # 0
       THEN [s EXCEPT !.reason = "general_protection", !.addr = memory_address(s, i)]
       ELSE With(s, read_operand(s, i, "mem", 8), LAMBDA l :
            IF l = Pair("dx", "ax")
            THEN Then(write_operand(s, i, "mem", Pair("cx", "bx"), 8),
                      LAMBDA t : [t EXCEPT !.flags.zf = TRUE])
            ELSE [WriteWide(s, 4, l \div Modulus(4), Truncate(4, l)) EXCEPT !.flags.zf = FALSE])

-----------------------------------------------------------------------------
(* The handlers of this module by the name of the instruction.             *)
AdditionOps == {"add", "adc", "sub", "sbb", "cmp", "inc", "dec", "neg", "not", "xadd"}
AdditionHandler(s, i) ==
    CASE i.op = "add" -> ADD(s, i)   [] i.op = "adc" -> ADC(s, i)
      [] i.op = "sub" -> SUB(s, i)   [] i.op = "sbb" -> SBB(s, i)
      [] i.op = "cmp" -> CMP(s, i)   [] i.op = "inc" -> INC(s, i)
      [] i.op = "dec" -> DEC(s, i)   [] i.op = "neg" -> NEG(s, i)
      [] i.op = "not" -> NOT(s, i)   [] i.op = "xadd" -> XADD(s, i)

DoubleShifts == {"shld", "shrd"}
ShiftRotateOps == {"shl", "shr", "sar", "rol", "ror", "rcl", "rcr"} \cup DoubleShifts
ShiftRotateHandler(s, i) ==
    CASE i.op \in {"shl", "shr", "sar"} -> shift_rm(s, i)
      [] i.op \in {"rol", "ror"} -> rotate(s, i)
      [] i.op \in {"rcl", "rcr"} -> rotate_carry(s, i)
      [] i.op \in DoubleShifts -> double_shift(s, i)

MulDivOps == {"mul", "imul", "div", "idiv"}
MulDivHandler(s, i) ==
    CASE i.op = "mul" -> MUL(s, i)   [] i.op = "imul" -> IMUL(s, i)
      [] i.op = "div" -> DIV(s, i)   [] i.op = "idiv" -> IDIV(s, i)

TransferOps == {"mov", "mov8", "moffs", "movzx", "movsx", "movsxd", "xchg", "cmpxchg", "cmpxchg486", "cmpxchg8b"}
TransferHandler(s, i) ==
    CASE i.op = "mov" -> MOV(s, i)       [] i.op = "mov8" -> MOV_RM8_R8(s, i)
      [] i.op = "moffs" -> MOV_MOFFS_ACC(s, i)
      [] i.op = "movzx" -> MOVZX(s, i)   [] i.op = "movsx" -> MOVSX(s, i)
      [] i.op = "movsxd" -> MOVSXD(s, i) [] i.op = "xchg" -> XCHG(s, i)
      [] i.op = "cmpxchg" -> CMPXCHG(s, i)
      [] i.op = "cmpxchg486" -> CMPXCHG486(s, i)
      [] i.op = "cmpxchg8b" -> CMPXCHG8B(s, i)
=============================================================================
