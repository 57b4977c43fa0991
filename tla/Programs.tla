------------------------------ MODULE Programs ------------------------------
(* Short programs run on the instruction handlers. A page fault reaches    *)
(* the fault hook, which may map the address and ask for a retry; the      *)
(* executor then calls the same handler again on whatever the failed       *)
(* attempt left behind (executor.cpp, try_recover_fault). The handlers of  *)
(* integer instructions are those of Alu and Flow; the others are a        *)
(* parameter, so that what is proved about the first holds beside any      *)
(* others.                                                                 *)
EXTENDS Flow

CONSTANTS
    OtherHandler(_, _),   \* the handlers of the instructions outside IntegerOps
    Scenarios             \* families of groups of records [prog, cpu]: a program and the machine it starts on

IntegerOps == AdditionOps \cup ShiftRotateOps \cup MulDivOps \cup TransferOps \cup BranchOps \cup StackOps
StringMoves == {"movs", "cmps", "scas", "stos", "lods"}

(* What the decoder makes of an integer instruction: AH to DH are operands *)
(* of one byte, an immediate is never a destination, a count is 1, CL or   *)
(* an immediate, only one operand is in memory where two are written.      *)
RegisterOperands(w) == IF w = 1 THEN Gprs \cup HighBytes ELSE Gprs
Readable(w) == RegisterOperands(w) \cup {"mem", "imm"}
Instructions ==
    [op : IntegerOps, w : Widths, iw : Widths, imm : Nat, base : Gprs \cup {"none"}, disp : Int,
     dst : Readable(1), src : Readable(1) \cup {"none", "one"}, count : {"none", "cx", "imm"},
     cond : Conditions, target : Int, rep : {"none", "rep", "repne"}]
Decoded(i) ==
    /\ i \in Instructions /\ i.dst \in Readable(i.w)
    /\ i.dst = "imm" => i.op \in {"push", "jmp", "call", "jcxz"} \cup LoopOps
    /\ i.op \in {"add", "adc", "sub", "sbb", "cmp", "mov", "mov8"} => i.src \in Readable(i.w)
    /\ i.op \in {"xadd", "xchg", "cmpxchg", "cmpxchg486"} => i.src \in RegisterOperands(i.w)
    /\ i.op \in ShiftRotateOps \ DoubleShifts => i.src \in {"one", "cx", "imm"}
    /\ i.op \in DoubleShifts => i.src \in Gprs /\ i.count \in {"cx", "imm"} /\ i.w # 1
    /\ i.op \in {"movzx", "movsx", "movsxd"} => i.dst \in Gprs /\ i.w # 1 /\ i.src \in RegisterOperands(i.iw) \cup {"mem"}
    /\ i.op \in MulDivOps =>
           \/ i.src = "none" /\ i.dst # "imm"
           \/ i.op = "imul" /\ i.dst \in Gprs /\ i.w # 1 /\ i.src \in Gprs \cup {"mem"} /\ i.count \in {"imm", "none"}
    /\ i.op = "cmov" => i.dst \in Gprs /\ i.w # 1 /\ i.src \in Gprs \cup {"mem"}
    /\ i.op = "mov8" => i.w = 1
    /\ i.op \in StackOps \cup {"jmp"} \cup LoopOps => i.w # 1
    /\ i.target \in Nat \/ (i.op = "int" /\ i.target = NoAddress)

ASSUME ScenariosAssumption ==
    \A f \in DOMAIN Scenarios : \A group \in Scenarios[f] : \A sc \in group :
        /\ sc.cpu \in CpuStates /\ sc.cpu.reason = "none"
        /\ Len(sc.prog) \in Nat \ {0} /\ DOMAIN sc.prog = 1 .. Len(sc.prog)
        /\ \A n \in DOMAIN sc.prog : sc.prog[n].op \in IntegerOps => Decoded(sc.prog[n])

VARIABLES
    prog,      \* the program, a sequence of instructions
    pc,        \* the instruction to execute next, Len(prog) + 1 at the end
    cpu,       \* the machine
    start,     \* the machine the program started on
    repairs    \* retries asked for so far

mvars == <<prog, pc, cpu, start, repairs>>

-----------------------------------------------------------------------------
(* The table of handlers.                                                  *)
IntegerHandler(s, i) ==
    CASE i.op \in AdditionOps -> AdditionHandler(s, i)
      [] i.op \in ShiftRotateOps -> ShiftRotateHandler(s, i)
      [] i.op \in MulDivOps -> MulDivHandler(s, i)
      [] i.op \in TransferOps -> TransferHandler(s, i)
      [] i.op \in BranchOps -> BranchHandler(s, i)
      [] i.op \in StackOps -> StackHandler(s, i)

Handler(s, i) == IF i.op \in IntegerOps THEN IntegerHandler(s, i) ELSE OtherHandler(s, i)

(* One pass of step_impl: RIP moves on unless the handler failed or took   *)
(* the control flow.                                                       *)
Advanced(r) == IF r.reason = "none" /\ ~r.taken THEN [r EXCEPT !.rip = @ + 1] ELSE r
Step(s, i) == Advanced(Handler([s EXCEPT !.reason = "none", !.addr = NoAddress, !.taken = FALSE], i))

(* A REP loop broken by a watchpoint leaves RIP on the instruction.        *)
Finished(s, i, r) ==
    r.reason = "none" /\ ~(i.op \in StringMoves /\ r.taken)

Init ==
    \E f \in DOMAIN Scenarios : \E group \in Scenarios[f] : \E sc \in group :
        /\ prog = sc.prog /\ cpu = sc.cpu /\ start = sc.cpu
        /\ pc = 1 /\ repairs = 0

Execute ==
    /\ pc <= Len(prog) /\ cpu.reason = "none"
    /\ cpu' = Step(cpu, prog[pc])
    /\ pc' = IF Finished(cpu, prog[pc], cpu') THEN pc + 1 ELSE pc
    /\ UNCHANGED <<prog, start, repairs>>

(* The hook grants the address more than it had and answers retry; it maps *)
(* the pages of an operand that straddles two alike.                       *)
Repair(p) ==
    /\ cpu.reason = "page_fault" /\ cpu.addr \in Addresses
    /\ p \in {"ro", "rw"} /\ p # PermAt(cpu, cpu.addr)
    /\ p = "ro" => PermAt(cpu, cpu.addr) = "none"
    /\ cpu' = [cpu EXCEPT !.perm[cpu.addr] = p, !.reason = "none"]
    /\ repairs' = repairs + 1
    /\ UNCHANGED <<prog, pc, start>>

Next == Execute \/ \E p \in {"ro", "rw"} : Repair(p)

Spec == Init /\ [][Next]_mvars
-----------------------------------------------------------------------------
(* What the handlers should compute, said with integers and bit positions. *)
Done == pc > Len(prog)
Single(ops) == Done /\ Len(prog) = 1 /\ prog[1].op \in ops

(* The value of operand o, whatever its permission; a is the address of    *)
(* the memory operand.                                                     *)
ValueAt(s, i, o, a) == Truncate(i.w, CASE o \in Gprs -> s.gpr[o]
                                       [] o \in HighBytes -> HighByte(s.gpr[Holder(o)])
                                       [] o = "mem"  -> s.mem[a]
                                       [] o = "imm"  -> sign_extend(i.iw, i.imm))
ValueOf(s, i, o) == ValueAt(s, i, o, memory_address(s, i))

(* Instructions that read the memory they store to.                        *)
Rereads == (AdditionOps \ {"cmp"}) \cup ShiftRotateOps \cup
           {"xchg", "cmpxchg", "cmpxchg486", "cmpxchg8b", "and", "or", "xor", "btc", "btr", "bts", "aadd", "arpl"}

(* Instructions that cannot be run twice: they read a flag, a register or  *)
(* the part of an operand across two pages that the failed attempt has     *)
(* already changed, or do not say that one of their accesses failed.       *)
Whole(s) == \A a \in Addresses : s.perm[a] \notin Crossing
Restartable(i, s) ==
    /\ i.op \in Rereads /\ i.dst = "mem" => Whole(s)
    /\ i.op \notin {"push", "pusha", "pushf", "call", "int", "iret", "fsave", "frstor", "fnstenv"}
    /\ i.op \in {"adc", "sbb", "rcl", "rcr", "pop"} => i.dst # "mem"

(* Addition and subtraction with flags: the value is the integer result    *)
(* modulo the width, CF and OF say that the unsigned or the signed integer *)
(* result does not fit, AF that the low half of a byte overflowed.         *)
Left(i, s) == IF i.op = "neg" THEN 0 ELSE ValueOf(s, i, i.dst)
Right(i, s) == CASE i.op \in {"inc", "dec"} -> 1
                 [] i.op = "neg" -> ValueOf(s, i, i.dst)
                 [] OTHER -> ValueOf(s, i, i.src)
CarryIn(i, s) == IF i.op \in {"adc", "sbb"} THEN CF(s) ELSE 0
Sum(i, a, b, c) == IF i.op \in {"add", "adc", "inc", "xadd"} THEN a + b + c ELSE a - b - c
SumValue(i, s) == Sum(i, Left(i, s), Right(i, s), CarryIn(i, s)) % Modulus(i.w)
SumFlags(i, s) ==
    LET l == Left(i, s)
        r == Right(i, s)
        c == CarryIn(i, s)
        v == SumValue(i, s)
        half == 2 ^ (ByteBits \div 2)
    IN [cf |-> IF i.op \in {"inc", "dec"} THEN s.flags.cf ELSE Sum(i, l, r, c) \notin 0 .. Modulus(i.w) - 1,
        of |-> ~FitsSigned(i.w, Sum(i, AsInt(i.w, l), AsInt(i.w, r), c)),
        af |-> Sum(i, l % half, r % half, c) \notin 0 .. half - 1,
        zf |-> v = 0, sf |-> AsInt(i.w, v) < 0, pf |-> even_parity(v)]
SumExact(i, s, t) ==
    /\ ValueAt(t, i, i.dst, memory_address(s, i)) = IF i.op = "cmp" THEN Left(i, s) ELSE SumValue(i, s)
    /\ t.flags = SumFlags(i, s)

(* A program of one addition or subtraction ends as the integers say, also *)
(* after faults and retries that did not change what it reads. XADD of a register with itself is not judged: *)
(* its handler puts the old value back over the sum.                       *)
ArithmeticExact ==
    /\ Single(AdditionOps \ {"not"}) /\ (repairs = 0 \/ Restartable(prog[1], start))
    /\ prog[1].op = "xadd" => prog[1].dst # prog[1].src
    => SumExact(prog[1], start, cpu)

(* Shifts and rotates: which bit of which operand each bit of the result   *)
(* is, and which bit went to CF, for every count the mask lets through.    *)
ShiftCount(i, s) ==
    IF i.op \in DoubleShifts THEN read_shift_count(s, [i EXCEPT !.src = i.count]) % Bits(i.w) ELSE read_shift_count(s, i)
Least(x, y) == IF x < y THEN x ELSE y
DstBit(i, s, j) == Bit(2 ^ j, ValueOf(s, i, i.dst))
SrcBit(i, s, j) == Bit(2 ^ j, ValueOf(s, i, i.src))
RingBit(i, s, j) == IF j = Bits(i.w) THEN s.flags.cf ELSE DstBit(i, s, j)     \* CF above the top bit
ShiftedBit(i, s, j) ==
    LET n == Bits(i.w)
        k == ShiftCount(i, s)
    IN CASE i.op = "shl" -> j >= k /\ DstBit(i, s, j - k)
         [] i.op = "shr" -> j + k < n /\ DstBit(i, s, j + k)
         [] i.op = "sar" -> DstBit(i, s, Least(j + k, n - 1))
         [] i.op = "rol" -> DstBit(i, s, (j - k) % n)
         [] i.op = "ror" -> DstBit(i, s, (j + k) % n)
         [] i.op = "rcl" -> RingBit(i, s, (j - k) % (n + 1))
         [] i.op = "rcr" -> RingBit(i, s, (j + k) % (n + 1))
         [] i.op = "shld" -> IF j >= k THEN DstBit(i, s, j - k) ELSE SrcBit(i, s, n - k + j)
         [] i.op = "shrd" -> IF j + k < n THEN DstBit(i, s, j + k) ELSE SrcBit(i, s, j + k - n)
ShiftedOut(i, s) ==
    LET n == Bits(i.w)
        k == ShiftCount(i, s)
    IN IF k = 0 THEN s.flags.cf ELSE
       CASE i.op \in {"shl", "shld"} -> k <= n /\ DstBit(i, s, n - k)
         [] i.op \in {"shr", "shrd"} -> k <= n /\ DstBit(i, s, k - 1)
         [] i.op = "sar" -> DstBit(i, s, Least(k - 1, n - 1))
         [] i.op = "rol" -> DstBit(i, s, (0 - k) % n)
         [] i.op = "ror" -> DstBit(i, s, (n - 1 + k) % n)
         [] i.op \in {"rcl", "rcr"} -> ShiftedBit(i, s, n)
ShiftExact(i, s, t) ==
    /\ \A j \in 0 .. Bits(i.w) - 1 : Bit(2 ^ j, ValueOf(t, i, i.dst)) = ShiftedBit(i, s, j)
    /\ t.flags.cf = ShiftedOut(i, s)

(* A program of one shift or rotate ends with every bit where it belongs,  *)
(* also after faults and retries that did not change an operand it reads.  *)
ShiftsExact ==
    Single(ShiftRotateOps) /\ (repairs = 0 \/ Restartable(prog[1], start)) => ShiftExact(prog[1], start, cpu)

-----------------------------------------------------------------------------
(* Multiplication and division over the integers, signed for IMUL, IDIV.   *)
SignedOp(i) == i.op \in {"imul", "idiv"}
Num(i, a) == IF SignedOp(i) THEN AsInt(i.w, a) ELSE a
Wide(i, s) == IF SignedOp(i) THEN Signed(Modulus(i.w) * Modulus(i.w), Dividend(s, i.w)) ELSE Dividend(s, i.w)
Low(i, s) == Num(i, ValueOf(s, i, "ax"))
High(i, s) == Num(i, IF i.w = 1 THEN HighByte(s.gpr["ax"]) ELSE ValueOf(s, i, "dx"))
Abs(x) == IF x < 0 THEN -x ELSE x

(* The whole product is kept, or its low half where there is one register  *)
(* for it, and CF and OF say that it does not fit the operand.             *)
ProductExact(i, s, t) ==
    LET p == IF i.src = "none" THEN Low(i, s) * Num(i, ValueOf(s, i, i.dst))
             ELSE Num(i, ValueOf(s, i, i.src)) * Num(i, ValueOf(s, i, IF i.count = "imm" THEN "imm" ELSE i.dst))
    IN /\ IF i.src = "none" THEN Wide(i, t) = p ELSE ValueOf(t, i, i.dst) = p % Modulus(i.w)
       /\ t.flags.cf = (IF SignedOp(i) THEN ~FitsSigned(i.w, p) ELSE p >= Modulus(i.w))
       /\ t.flags.of = t.flags.cf

(* Dividend, quotient and remainder: n = q * d + r, with r smaller than d  *)
(* and on the side of n.                                                   *)
QuotientExact(i, s, t) ==
    LET d == Num(i, ValueOf(s, i, i.dst))
    IN /\ Wide(i, s) = Low(i, t) * d + High(i, t) /\ Abs(High(i, t)) < Abs(d)
       /\ High(i, t) = 0 \/ (High(i, t) < 0) = (Wide(i, s) < 0)

(* The divisor is zero, or no quotient fits.                               *)
NoQuotient(i, s) ==
    LET d == Num(i, ValueOf(s, i, i.dst))
        limit == IF ~SignedOp(i) THEN Modulus(i.w)
                 ELSE Modulus(i.w) \div 2 + (IF (Wide(i, s) < 0) = (d < 0) THEN 0 ELSE 1)
    IN d = 0 \/ Abs(Wide(i, s)) >= limit * Abs(d)

(* A program of one multiplication or division ends with the product, or   *)
(* with quotient and remainder, or with a divide error when there is none. *)
MulDivExact ==
    /\ Single({"mul", "imul"}) => ProductExact(prog[1], start, cpu)
    /\ Single({"div", "idiv"}) => QuotientExact(prog[1], start, cpu)
    /\ cpu.reason = "divide_error" /\ Len(prog) = 1 /\ prog[1].op \in {"div", "idiv"} => NoQuotient(prog[1], start)

-----------------------------------------------------------------------------
(* The relation a condition stands for after CMP l, r.                     *)
Relation(w, cond, l, r) ==
    LET sl == AsInt(w, l)
        sr == AsInt(w, r)
    IN CASE cond = "b" -> l < r      [] cond = "ae" -> l >= r
         [] cond = "be" -> l <= r    [] cond = "a" -> l > r
         [] cond = "e" -> l = r      [] cond = "ne" -> l # r
         [] cond = "l" -> sl < sr    [] cond = "ge" -> sl >= sr
         [] cond = "le" -> sl <= sr  [] cond = "g" -> sl > sr
         [] cond = "o" -> ~FitsSigned(w, sl - sr)  [] cond = "no" -> FitsSigned(w, sl - sr)
         [] cond = "s" -> Msb(w, (l - r) % Modulus(w))
         [] cond = "ns" -> ~Msb(w, (l - r) % Modulus(w))
         [] cond = "p" -> even_parity((l - r) % Modulus(w))
         [] cond = "np" -> ~even_parity((l - r) % Modulus(w))

(* The branch is taken, the byte is one, the value is moved exactly when   *)
(* the relation holds between the operands of c.                           *)
ConditionExact(c, i, s, t) ==
    LET holds == Relation(c.w, i.cond, ValueOf(s, c, c.dst), ValueOf(s, c, c.src))
    IN CASE i.op = "jcc"   -> t.rip = IF holds THEN i.target ELSE s.rip + 2
         [] i.op = "setcc" -> ValueOf(t, [i EXCEPT !.w = 1], i.dst) = B(holds)
         [] i.op = "cmov"  -> ValueOf(t, i, i.dst) = ValueOf(s, i, IF holds THEN i.src ELSE i.dst)

(* CMP followed by Jcc, SETcc or CMOVcc looks at the numbers compared.     *)
BranchMatchesComparison ==
    Done /\ Len(prog) = 2 /\ prog[1].op = "cmp" /\ prog[2].op \in {"jcc", "setcc", "cmov"} =>
        ConditionExact(prog[1], prog[2], start, cpu)

(* Undoing pairs: PUSH/POP moves a value and restores RSP (unless RSP is   *)
(* the destination), CALL/RET comes back and drops the arguments,          *)
(* ENTER/LEAVE restores the frame, INT/IRET the whole interrupted context. *)
(* What is pushed has to fit the operand.                                  *)
Undone(i, j, s, t) ==
    LET sp == s.gpr["sp"]
    IN CASE <<i.op, j.op>> = <<"push", "pop">> ->
                /\ ValueOf(t, j, j.dst) = ValueOf(s, i, i.dst)
                /\ j.dst # "sp" => t.gpr["sp"] = sp
         [] <<i.op, j.op>> = <<"pushf", "popf">> /\ Rflags(s.flags) < Modulus(i.w) ->
                t.flags = s.flags /\ t.gpr = s.gpr
         [] <<i.op, j.op>> = <<"call", "ret">> /\ s.rip + 1 < Modulus(i.w) ->
                t.rip = s.rip + 1 /\ t.gpr["sp"] = (sp + j.imm) % Container
         [] <<i.op, j.op>> = <<"enter", "leave">> /\ i.w = 8 ->
                t.gpr = s.gpr
         [] <<i.op, j.op>> = <<"int", "iret">> /\ s.rip + 1 < Container /\ s.cs < Modulus(2) ->
                t.rip = s.rip + 1 /\ t.cs = s.cs /\ t.flags = s.flags /\ t.gpr = s.gpr
         [] OTHER -> TRUE

(* A program of such a pair on operands of one width, without a fault.     *)
StackRoundTrip ==
    Done /\ Len(prog) = 2 /\ repairs = 0 /\ prog[1].w = prog[2].w => Undone(prog[1], prog[2], start, cpu)

(* The x86-64 rule for partial registers: an 8- or 16-bit result, AH to DH *)
(* included, leaves the rest of the register alone, a 32-bit one clears    *)
(* it, also when a shift count is masked to zero or a CMOV is not taken.   *)
(* A second destination, RSP of POP included, is another register.         *)
RegisterExact(i, s, t) ==
    /\ i.dst \in Gprs /\ (i.op \in {"xchg", "xadd"} => Holder(i.src) # i.dst) /\ (i.op = "pop" => i.dst # "sp")
       => CASE i.w \in {1, 2} -> t.gpr[i.dst] \div Modulus(i.w) = s.gpr[i.dst] \div Modulus(i.w)
            [] i.w = 4 -> t.gpr[i.dst] < Modulus(4)
            [] OTHER -> TRUE
    /\ i.dst \in HighBytes /\ i.op \notin {"xchg", "xadd"}
       => LET h == Holder(i.dst)
          IN t.gpr = [s.gpr EXCEPT ![h] = @ + (HighByte(t.gpr[h]) - HighByte(@)) * Modulus(1)]

RegisterRule(writers, readers) ==
    /\ Single(writers) => RegisterExact(prog[1], start, cpu)
    /\ Single(readers) => cpu.gpr = start.gpr

IntegerWriters == (AdditionOps \ {"cmp"}) \cup ShiftRotateOps \cup
                  {"mov", "mov8", "movzx", "movsx", "movsxd", "xchg", "cmov", "pop"}
IntegerReaders == {"cmp", "jcc", "jmp", "jcxz"}

(* One integer instruction changes of its registers what the rule says.    *)
IntegerRegisterRule == RegisterRule(IntegerWriters, IntegerReaders)
=============================================================================
