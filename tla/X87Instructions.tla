--------------------------- MODULE X87Instructions ---------------------------
(* The x87 and MMX instructions (handlers/mmx_x87.cpp, x87_arithmetic.cpp, *)
(* x87_compare.cpp, x87_special.cpp and the bodies they share in           *)
(* seven/x87_helpers.hpp). Whether an instruction pops, sets EFLAGS or is  *)
(* quiet about NaN are fields of the instruction.                          *)
EXTENDS X87
LOCAL INSTANCE FiniteSetsExt

(* Loads. i.ops are the stack indexes the decoder gives for the operands,  *)
(* i.w the width of one in memory.                                         *)
FloatAt(s, a, w) ==
    LET r == read_memory_checked(s, a, 8)
        e == read_memory_checked(s, a + 1, 8)
    IN IF r.reason # "none" THEN r
       ELSE IF w # 10 THEN Got(Signed(Container, r.v))
       ELSE IF e.reason # "none" THEN [e EXCEPT !.addr = a]
       ELSE Got(IF e.v = 0 THEN r.v ELSE -r.v)

FLDconst(s, i) == Push(s, i.value)
x87_push_from_memory(s, i) ==
    With(s, FloatAt(s, memory_address(s, i), i.w),
         LAMBDA v : IF CanPush(s.fpu) THEN InFpu(s, x87_push(s.fpu, v)) ELSE x87_exception(s, Invalid))
x87_load_integer(s, i) ==
    With(s, read_memory_checked(s, memory_address(s, i), i.w), LAMBDA v : Push(s, 2 * AsInt(i.w, v)))
FLD_STI(s, i) ==
    IF CanPush(s.fpu) THEN InFpu(s, x87_push(s.fpu, ST(s, i.ops[1]))) ELSE memory_fault(s, memory_address(s, i))

-----------------------------------------------------------------------------
(* Stores. The pop comes last. An 80-bit number is stored in two parts,    *)
(* the second of which may fail when the first is written.                 *)
PopIf(s, pop) == Then(s, LAMBDA r : IF pop THEN Pop(r) ELSE r)
Store(s, a, v) == write_memory_checked(s, a, v % Container, 8)
StoreFloat(s, a, v, w) ==
    IF w # 10 THEN Store(s, a, v)
    ELSE Then(Store(s, a, Magnitude(v)), LAMBDA r : Store(r, a + 1, IF v < 0 THEN 1 ELSE 0))

x87_store_mem(s, i) ==
    IF x87_is_empty(s.fpu, 0) THEN x87_stack_underflow(s)
    ELSE PopIf(StoreFloat(s, memory_address(s, i), ST(s, 0), i.w), i.pop)

(* The integer is in memory before the exception it causes is reported.    *)
x87_store_integer(s, i) ==
    LET v == ST(s, 0)
        n == IF i.op = "fisttp" THEN trunc(v) ELSE x87_round_to_control(s.fpu, v)
        fits == Finite(n) /\ FitsSigned(i.w, n \div 2)
        e == (IF Equal(n, v) THEN 0 ELSE Precision) | (IF fits THEN 0 ELSE Invalid)
        out == IF fits THEN n \div 2 ELSE -(Modulus(i.w) \div 2)
    IN IF x87_is_empty(s.fpu, 0) THEN x87_stack_underflow(s)
       ELSE PopIf(Then(write_memory_checked(s, memory_address(s, i), out % Modulus(i.w), i.w),
                       LAMBDA r : Raised(r, e)), i.pop)

(* Two decimal digits to a byte, then the sign: nine bytes and one in the  *)
(* code, BcdBytes and one here.                                            *)
BcdBytes == 2
x87_load_bcd(s, i) ==
    LET a == memory_address(s, i)
        bad == {n \in 0..BcdBytes : ~CanLoad(s, a + n, 1)}
        Digits(n) == ((s.mem[a + n] % 16) + 10 * ((s.mem[a + n] \div 16) % 16)) * 100 ^ n
        magnitude == 2 * (Digits(0) + Digits(1))
    IN IF bad # {} THEN memory_fault(s, a + Min(bad))
       ELSE Push(s, IF s.mem[a + BcdBytes] >= 128 THEN -magnitude ELSE magnitude)

x87_store_bcd(s, i) ==
    LET a == memory_address(s, i)
        v == Magnitude(ST(s, 0)) \div 2
        Byte(n) == ((v \div 100 ^ n) % 10) + 16 * ((v \div (10 * 100 ^ n)) % 10)
    IN IF x87_is_empty(s.fpu, 0) THEN x87_stack_underflow(s)
       ELSE Then(Store(s, a, Byte(0)),
            LAMBDA r : Then(Store(r, a + 1, Byte(1)),
            LAMBDA q : Store(q, a + 2, IF ST(s, 0) < 0 THEN 128 ELSE 0)))
FBSTP(s, i) == PopIf(x87_store_bcd(s, i), TRUE)

-----------------------------------------------------------------------------
(* Arithmetic. A masked exception still writes the result.                 *)
Combine(s, i, d, l, r) ==
    LET a == Apply(i.fn, l, r)
        e == a[2] | x87_classify_result(a[1]) | x87_precision_from_binary(l, r, a[1])
    IN Then(Raised(s, e), LAMBDA t : Put(t, d, a[1]))

x87_binary_mem_st0(s, i) ==
    With(s, FloatAt(s, memory_address(s, i), i.w),
         LAMBDA r : IF x87_is_empty(s.fpu, 0) THEN x87_stack_underflow(s) ELSE Combine(s, i, 0, ST(s, 0), r))
x87_binary_mem_int_st0(s, i) ==
    With(s, read_memory_checked(s, memory_address(s, i), i.w),
         LAMBDA r : IF x87_is_empty(s.fpu, 0) THEN x87_stack_underflow(s)
                    ELSE Combine(s, i, 0, ST(s, 0), 2 * AsInt(i.w, r)))
x87_binary_st_regs(s, i) ==
    PopIf(IF AnyEmpty(s, {i.ops[1], i.ops[2]}) THEN x87_stack_underflow(s)
          ELSE Combine(s, i, i.ops[1], ST(s, i.ops[1]), ST(s, i.ops[2])), i.pop)

(* The functions of ST(0) raise what their result is, before they write    *)
(* it, and before that that it vanished.                                   *)
Vanished(x, v) == IF x # 0 /\ v = 0 THEN Underflow + Precision ELSE 0
Judged(s, x, v) == Then(Raised(s, Vanished(x, v)), LAMBDA r : Raised(r, x87_classify_result(v)))
Result(s, v) == Then(Judged(s, ST(s, 0), v), LAMBDA r : Put(r, 0, v))
x87_unary_st0(s, i) ==
    LET v == ST(s, 0) IN
    IF x87_is_empty(s.fpu, 0) THEN x87_stack_underflow(s) ELSE
    CASE i.op = "fchs" -> Result(s, Opposite(v))
      [] i.op = "fabs" -> Result(s, Magnitude(v))
      [] i.op = "fsin" -> Result(s, Libm("sin", v, 0))
      [] i.op = "fcos" -> Result(s, Libm("cos", v, 0))
      [] i.op = "f2xm1" -> IF v < -2 \/ (v > 2 /\ v # NaN) THEN x87_exception(s, Invalid)
                           ELSE Result(s, Plus(Libm("exp2", v, 0), -2))

(* Any root other than the number itself counts as inexact.                *)
FSQRT(s, i) ==
    LET v == ST(s, 0)
        r == Libm("sqrt", v, 0)
    IN IF x87_is_empty(s.fpu, 0) THEN x87_stack_underflow(s)
       ELSE IF v < 0 THEN x87_exception(s, Invalid)
       ELSE Then(Judged(s, v, r),
                 LAMBDA t : Then(Raised(t, IF Equal(r, v) THEN 0 ELSE Precision), LAMBDA q : Put(q, 0, r)))
FRNDINT(s, i) ==
    LET r == x87_round_to_control(s.fpu, ST(s, 0))
    IN IF x87_is_empty(s.fpu, 0) THEN x87_stack_underflow(s)
       ELSE Then(Raised(s, IF Equal(r, ST(s, 0)) THEN 0 ELSE Precision), LAMBDA t : Put(t, 0, r))
(* ST(0) is replaced before the push that may find the stack full.         *)
FSINCOS(s, i) ==
    LET x == ST(s, 0)
        c == Libm("cos", x, 0)
        v == Libm("sin", x, 0)
    IN IF x87_is_empty(s.fpu, 0) THEN x87_stack_underflow(s)
       ELSE Then(Then(Raised(s, Vanished(x, c) | Vanished(x, v)),
                      LAMBDA r : Raised(r, x87_classify_result(c) | x87_classify_result(v))),
                 LAMBDA r : Push(Put(r, 0, c), v))
FPTAN(s, i) ==
    LET v == Libm("tan", ST(s, 0), 0)
    IN IF x87_is_empty(s.fpu, 0) THEN x87_stack_underflow(s)
       ELSE Then(Judged(s, ST(s, 0), v), LAMBDA r : Push(Put(r, 0, v), 2))

(* Functions of ST(0) and ST(1): FPATAN raises nothing, the logarithms     *)
(* check their range; the result takes the place of both.                  *)
FPATAN(s, i) ==
    IF AnyEmpty(s, {0, 1}) THEN x87_stack_underflow(s)
    ELSE Pop(Put(s, 1, Libm("atan2", ST(s, 1), ST(s, 0))))
FYL2X(s, i) ==
    LET x == IF i.op = "fyl2xp1" THEN Plus(ST(s, 0), 2) ELSE ST(s, 0)
        l == Libm("log2", x, 0)
        y == ST(s, 1)
        v == IF 0 \in {l, y} \/ ~Finite(l) \/ ~Finite(y) THEN Times(y, l) ELSE Opaque("log2", x, y)
    IN IF AnyEmpty(s, {0, 1}) THEN x87_stack_underflow(s)
       ELSE IF x <= 0 THEN x87_exception(s, Invalid)
       ELSE Then(Judged(s, y, v), LAMBDA r : Pop(Put(r, 1, v)))
FSCALE(s, i) ==
    LET a == ST(s, 0)
        n == trunc(ST(s, 1)) \div 2
        v == IF ~Finite(a) THEN a ELSE IF n >= 0 THEN a * 2 ^ n ELSE a \div 2 ^ (-n)
    IN IF AnyEmpty(s, {0, 1}) THEN x87_stack_underflow(s) ELSE Result(s, v)

-----------------------------------------------------------------------------
(* Moves within the stack. FST and FSTP take the destination from          *)
(* different operands.                                                     *)
x87_fxch(s, i) ==
    IF AnyEmpty(s, {0, i.ops[2]}) THEN x87_stack_underflow(s) ELSE InFpu(s, x87_swap(s.fpu, i.ops[2]))
x87_reg_move(s, i) ==
    IF x87_is_empty(s.fpu, i.ops[2]) THEN x87_stack_underflow(s) ELSE Put(s, i.ops[1], ST(s, i.ops[2]))
x87_store_st0_to_sti(s, i) ==
    IF x87_is_empty(s.fpu, 0) THEN x87_stack_underflow(s) ELSE Pop(Put(s, i.ops[2], ST(s, 0)))
x87_move_if(s, i) ==
    IF ~eval_cond(s.flags, i.cond) THEN s
    ELSE IF AnyEmpty(s, {0, i.ops[2]}) THEN x87_stack_underflow(s)
    ELSE Put(s, 0, ST(s, i.ops[2]))
x87_free_sti(s, i) == PopIf(InFpu(s, x87_mark_empty(s.fpu, i.ops[1])), i.pop)
FDECSTP(s, i) == InFpu(s, set_x87_top(s.fpu, s.fpu.top + 7))
FINCSTP(s, i) == InFpu(s, set_x87_top(s.fpu, s.fpu.top + 1))

-----------------------------------------------------------------------------
(* Comparisons. With an empty register and the exception masked the        *)
(* comparison goes on, with whatever the register still holds.             *)
Unordered == -2
x87_cmp(a, b) == IF NaN \in {a, b} THEN Unordered ELSE IF a < b THEN -1 ELSE IF a > b THEN 1 ELSE 0
x87_set_cmp_flags(s, rel) ==
    WithStatus(s, Clear(s.fpu.sw, \h4700) + (CASE rel = Unordered -> \h4500 [] rel = -1 -> \h100
                                              [] rel = 0 -> \h4000 [] rel = 1 -> 0))
x87_set_eflags_cmp(s, rel) ==
    [WithStatus(s, Clear(s.fpu.sw, C1)) EXCEPT
        !.flags.cf = rel < 0, !.flags.pf = rel = Unordered, !.flags.zf = rel \in {Unordered, 0}]
SetRelation(s, i, rel) == IF i.eflags THEN x87_set_eflags_cmp(s, rel) ELSE x87_set_cmp_flags(s, rel)

Relate(s, i, empty, l, r) ==
    LET rel == x87_cmp(l, r)
        e == IF empty \/ (rel = Unordered /\ ~i.quiet) THEN Invalid ELSE 0
        begun == IF empty THEN x87_exception(SetRelation(s, i, Unordered), Invalid) ELSE s
    IN Then(begun, LAMBDA t : Raised(SetRelation(t, i, rel), e))

x87_compare_mem(s, i) ==
    With(s, FloatAt(s, memory_address(s, i), i.w),
         LAMBDA r : PopIf(Relate(s, i, x87_is_empty(s.fpu, 0), ST(s, 0), r), i.pop))
x87_compare_st0_sti(s, i) ==
    PopIf(Relate(s, i, AnyEmpty(s, {0, i.ops[2]}), ST(s, 0), ST(s, i.ops[2])), i.pop)
x87_compare_regs(s, i) ==
    PopIf(PopIf(Relate(s, i, AnyEmpty(s, {i.ops[1], i.ops[2]}), ST(s, i.ops[1]), ST(s, i.ops[2])), TRUE), TRUE)
FTST(s, i) ==
    IF x87_is_empty(s.fpu, 0) THEN x87_stack_underflow(x87_set_cmp_flags(s, Unordered))
    ELSE Raised(x87_set_cmp_flags(s, x87_cmp(ST(s, 0), 0)), IF ST(s, 0) = NaN THEN Invalid ELSE 0)
x87_fxam_class_bits(v, empty) ==
    IF empty THEN \h4100 ELSE IF v = NaN THEN \h100 ELSE IF ~Finite(v) THEN \h500 ELSE IF v = 0 THEN \h4000 ELSE \h400
FXAM(s, i) ==
    LET empty == x87_is_empty(s.fpu, 0)
        v == IF empty THEN 0 ELSE ST(s, 0)
    IN WithStatus(s, Clear(s.fpu.sw, \h4700) + x87_fxam_class_bits(v, empty) + (IF v < 0 THEN C1 ELSE 0))
-----------------------------------------------------------------------------
(* Control and status words. FLDCW refuses reserved bits, one of which the *)
(* word after a reset has.                                                 *)
ReservedControl == \hE0C0
FINIT(s, i) == InFpu(s, x87_reset(s.fpu))
FNCLEX(s, i) == [s EXCEPT !.fpu.sw = Clear(@, \hBF)]
emms(s, i) == [s EXCEPT !.fpu.tags = [p \in Registers |-> Empty]]
FLDCW(s, i) ==
    LET a == memory_address(s, i)
    IN With(s, read_memory_checked(s, a, 8),
            LAMBDA v : IF v & ReservedControl # 0 THEN memory_fault(s, a) ELSE [s EXCEPT !.fpu.cw = v])
FNSTCW(s, i) == Store(s, memory_address(s, i), s.fpu.cw)
(* AX takes the whole word, which is wider than two of the model's bytes.  *)
FNSTSW(s, i) ==
    IF i.dst = "mem" THEN Store(s, memory_address(s, i), s.fpu.sw) ELSE [s EXCEPT !.gpr["ax"] = s.fpu.sw]

(* The images in memory: the control, status and tag words, the words      *)
(* nothing is kept in, the registers, and for FXSAVE the XMM registers,    *)
(* four bytes to an address. MXCSR is not modelled.                        *)
(* Mutation: a register that holds zero counts as empty.                   *)
x87_ftwNonzero(f) == MapThenSumSet(LAMBDA p : 2 ^ p, {p \in Registers : f.tags[p] = 0})
x87_ftw(f) == MapThenSumSet(LAMBDA p : 2 ^ p, {p \in Registers : f.tags[p] # Empty})
FtwBit(word, n) == (word \div 2 ^ n) % 2 = 1
EnvCells == 4
StackCells == EnvCells .. EnvCells + 7
XmmCells == 12 .. 23
Xmm(n) == <<"x0", "x1", "x2">>[((n - 12) \div 4) + 1]
XmmWord(s, n) ==
    LET b == 4 * ((n - 12) % 4)
        v == s.vec[Xmm(n)]
    IN v[b] + v[b + 1] * Modulus(1) + v[b + 2] * Modulus(2) + v[b + 3] * Modulus(3)
EnvWord(f, n) == CASE n = 0 -> f.cw [] n = 1 -> f.sw [] n = 2 -> x87_ftw(f) [] n = 3 -> 0

(* Writes whose failure nobody looks at; no cell of an image straddles two *)
(* pages.                                                                  *)
WriteAll(s, a, cells, Word(_)) ==
    [s EXCEPT !.mem = [x \in DOMAIN @ |->
        IF x - a \in cells /\ PermAt(s, x) = "rw" THEN Word(x - a) % Container ELSE @[x]]]

store_x87_env(s, i) == WriteAll(s, memory_address(s, i), 0 .. EnvCells - 1, LAMBDA n : EnvWord(s.fpu, n))

(* The three words of an image, read one after the other.                  *)
Header(s, a) ==
    LET bad == {n \in 0..2 : PermAt(s, a + n) = "none"}
    IN IF bad = {} THEN Got([cw |-> s.mem[a], sw |-> s.mem[a + 1], ftw |-> s.mem[a + 2]])
       ELSE [reason |-> "page_fault", addr |-> a + Min(bad), v |-> 0]
WithWords(s, cw, sw) == InFpu(s, [set_x87_status_word(s.fpu, sw) EXCEPT !.cw = cw])

(* Tag bit n of the image belongs to ST(n).                                *)
load_x87_env(s, i) ==
    LET a == memory_address(s, i)
        Load(h) == IF h.cw & ReservedControl # 0 THEN memory_fault(s, a)
                   ELSE LET r == WithWords(s, h.cw, h.sw)
                        IN [r EXCEPT !.fpu.tags = [p \in Registers |->
                                IF FtwBit(h.ftw, (p - r.fpu.top) % 8) THEN 0 ELSE Empty]]
    IN With(s, Header(s, a), Load)

(* FSAVE stores the registers by their place in the stack and the tags by  *)
(* their place in the file; FRSTOR takes both by the place in the stack.   *)
fsave(s, i) ==
    LET a == memory_address(s, i)
        Word(n) == IF n \in StackCells THEN ST(s, n - EnvCells) ELSE EnvWord(s.fpu, n)
    IN IF a % 8 # 0 THEN memory_fault(s, a)
       ELSE FINIT(WriteAll(s, a, 0 .. EnvCells + 7, Word), i)

RegisterAt(s, a, n) ==
    IF PermAt(s, a + EnvCells + n) = "none" THEN 0 ELSE Signed(Container, s.mem[a + EnvCells + n])
frstor(s, i) ==
    LET a == memory_address(s, i)
        Load(h) == LET r == WithWords(s, h.cw, h.sw)
                       Place(p) == (p - r.fpu.top) % 8
                       used == {p \in Registers : FtwBit(h.ftw, Place(p))}
                       st == [p \in Registers |-> IF p \in used THEN RegisterAt(s, a, Place(p)) ELSE r.fpu.st[p]]
                   IN [r EXCEPT !.fpu.st = st,
                                !.fpu.tags = [p \in Registers |-> IF p \in used THEN Tag(st[p]) ELSE Empty]]
    IN IF a % 8 # 0 THEN memory_fault(s, a) ELSE With(s, Header(s, a), Load)

(* FXSAVE and FXRSTOR check the whole image first, and keep registers and  *)
(* tags by their place in the file.                                        *)
ImageCells(s) == 0 .. (IF s.vec = <<>> THEN 11 ELSE 23)
validate_memory_span(s, a, perms) ==
    LET bad == {n \in ImageCells(s) : PermAt(s, a + n) \notin perms}
    IN IF bad = {} THEN s ELSE memory_fault(s, a + Min(bad))

fxsave(s, i) ==
    LET a == memory_address(s, i)
        Word(n) == CASE n \in StackCells -> s.fpu.st[n - EnvCells]
                     [] n \in XmmCells -> XmmWord(s, n)
                     [] OTHER -> EnvWord(s.fpu, n)
    IN IF a % 16 # 0 THEN memory_fault(s, a)
       ELSE Then(validate_memory_span(s, a, {"rw"}), LAMBDA r : WriteAll(r, a, ImageCells(s), Word))

fxrstor(s, i) ==
    LET a == memory_address(s, i)
        Byte(r, b) == LET n == CHOOSE n \in XmmCells : Xmm(n) = r /\ (n - 12) % 4 = b \div 4
                      IN (s.mem[a + n] \div Modulus(b % 4)) % Modulus(1)
        st == [p \in Registers |-> IF FtwBit(s.mem[a + 2], p) THEN RegisterAt(s, a, p) ELSE s.fpu.st[p]]
        Load(t) == [WithWords(t, Clear(s.mem[a], ReservedControl), s.mem[a + 1]) EXCEPT
                       !.fpu.st = st,
                       !.fpu.tags = [p \in Registers |-> IF FtwBit(s.mem[a + 2], p) THEN Tag(st[p]) ELSE Empty],
                       !.vec = [r \in DOMAIN @ |-> [b \in VectorBytes |-> IF b < 16 THEN Byte(r, b) ELSE 0]]]
    IN IF a % 16 # 0 THEN memory_fault(s, a)
       ELSE Then(validate_memory_span(s, a, {"ro", "rw"}), LAMBDA r : Load(r))

-----------------------------------------------------------------------------
(* MMX registers are kept apart from the stack; writing one marks the x87  *)
(* register of the same number as used. i.ops[1] is the MMX register.      *)
mmx_move(s, i) ==
    IF i.dst = "mm" THEN With(s, read_operand(s, i, i.src, i.w), LAMBDA v : InFpu(s, mmx_set(s.fpu, i.ops[1], v)))
    ELSE write_operand(s, i, i.dst, Truncate(i.w, s.fpu.mmx[i.ops[1]]), i.w)

MmxByte(v, b) == (v \div Modulus(b)) % Modulus(1)
MOVQ2DQ(s, i) ==
    [s EXCEPT !.vec[i.dst] = [b \in VectorBytes |->
        IF b < 8 THEN MmxByte(s.fpu.mmx[i.ops[1]], b) ELSE IF b < 16 THEN 0 ELSE @[b]]]
MOVDQ2Q(s, i) ==
    InFpu(s, mmx_set(s.fpu, i.ops[1], MapThenSumSet(LAMBDA b : s.vec[i.src][b] * Modulus(b), 0..7)))

(* MASKMOVQ and MASKMOVDQU store the selected bytes at RDI one by one: the *)
(* ones before a byte that cannot be stored are in memory at the fault.    *)
store_masked_bytes(s, i) ==
    LET dest == s.gpr["di"]
        Byte(r, m, b) == IF i.w = 8 THEN MmxByte(s.fpu.mmx[m], b) ELSE s.vec[r][b]
        selected == {b \in 0 .. i.w - 1 : Msb(1, Byte(i.src, i.ops[2], b))}
        bad == {b \in selected : ~CanStore(s, dest + b, 1)}
        stored == {b \in selected : \A c \in bad : b < c}
        r == [s EXCEPT !.mem = [a \in DOMAIN @ |->
                IF a - dest \in stored THEN Byte(i.dst, i.ops[1], a - dest) ELSE @[a]]]
    IN IF bad = {} THEN r ELSE memory_fault(r, dest + Min(bad))

X87Ops ==
    {"fldconst", "fld", "fild", "fldsti", "fst", "fist", "fisttp", "fbld", "fbstp", "fmem", "fmemint", "fregs",
     "fchs", "fabs", "fsin", "fcos", "f2xm1", "fsqrt", "frndint", "fsincos", "fptan", "fpatan", "fyl2x", "fyl2xp1",
     "fscale", "fxch", "fststi", "fstpsti", "fcmov", "ffree", "fdecstp", "fincstp", "fcommem", "fcom", "fcompp",
     "ftst", "fxam", "finit", "fnclex", "emms", "fldcw", "fnstcw", "fnstsw", "fnstenv", "fldenv", "fsave",
     "frstor", "fxsave", "fxrstor", "mmx", "movq2dq", "movdq2q", "maskmov"}

X87Handler(s, i) ==
    CASE i.op = "fldconst" -> FLDconst(s, i)         [] i.op = "fld" -> x87_push_from_memory(s, i)
      [] i.op = "fild" -> x87_load_integer(s, i)     [] i.op = "fldsti" -> FLD_STI(s, i)
      [] i.op = "fst" -> x87_store_mem(s, i)         [] i.op \in {"fist", "fisttp"} -> x87_store_integer(s, i)
      [] i.op = "fbld" -> x87_load_bcd(s, i)         [] i.op = "fbstp" -> FBSTP(s, i)
      [] i.op = "fmem" -> x87_binary_mem_st0(s, i)   [] i.op = "fmemint" -> x87_binary_mem_int_st0(s, i)
      [] i.op = "fregs" -> x87_binary_st_regs(s, i)
      [] i.op \in {"fchs", "fabs", "fsin", "fcos", "f2xm1"} -> x87_unary_st0(s, i)
      [] i.op = "fsqrt" -> FSQRT(s, i)               [] i.op = "frndint" -> FRNDINT(s, i)
      [] i.op = "fsincos" -> FSINCOS(s, i)           [] i.op = "fptan" -> FPTAN(s, i)
      [] i.op = "fpatan" -> FPATAN(s, i)             [] i.op \in {"fyl2x", "fyl2xp1"} -> FYL2X(s, i)
      [] i.op = "fscale" -> FSCALE(s, i)             [] i.op = "fxch" -> x87_fxch(s, i)
      [] i.op = "fststi" -> x87_reg_move(s, i)       [] i.op = "fstpsti" -> x87_store_st0_to_sti(s, i)
      [] i.op = "fcmov" -> x87_move_if(s, i)         [] i.op = "ffree" -> x87_free_sti(s, i)
      [] i.op = "fdecstp" -> FDECSTP(s, i)           [] i.op = "fincstp" -> FINCSTP(s, i)
      [] i.op = "fcommem" -> x87_compare_mem(s, i)   [] i.op = "fcom" -> x87_compare_st0_sti(s, i)
      [] i.op = "fcompp" -> x87_compare_regs(s, i)   [] i.op = "ftst" -> FTST(s, i)
      [] i.op = "fxam" -> FXAM(s, i)                 [] i.op = "finit" -> FINIT(s, i)
      [] i.op = "fnclex" -> FNCLEX(s, i)             [] i.op = "emms" -> emms(s, i)
      [] i.op = "fldcw" -> FLDCW(s, i)               [] i.op = "fnstcw" -> FNSTCW(s, i)
      [] i.op = "fnstsw" -> FNSTSW(s, i)             [] i.op = "fnstenv" -> store_x87_env(s, i)
      [] i.op = "fldenv" -> load_x87_env(s, i)       [] i.op = "fsave" -> fsave(s, i)
      [] i.op = "frstor" -> frstor(s, i)             [] i.op = "fxsave" -> fxsave(s, i)
      [] i.op = "fxrstor" -> fxrstor(s, i)           [] i.op = "mmx" -> mmx_move(s, i)
      [] i.op = "movq2dq" -> MOVQ2DQ(s, i)           [] i.op = "movdq2q" -> MOVDQ2Q(s, i)
      [] i.op = "maskmov" -> store_masked_bytes(s, i)
=============================================================================
