------------------------------- MODULE Machine -------------------------------
(* All the instruction handlers under one table, and what programs on them *)
(* should do beyond what Programs says of the integer instructions.        *)
EXTENDS Programs, StringOps, Decimal, Vectors, Traps, X87Instructions
Seqs == INSTANCE SequencesExt

-----------------------------------------------------------------------------
(* The table of handlers outside IntegerOps.                               *)
BitInstructions ==
    {"blsi", "blsr", "blsmsk", "andn", "bzhi", "bextr", "pext", "pdep", "mulx", "rorx", "sarx", "shlx", "shrx",
     "popcnt", "tzcnt", "lzcnt", "bsf", "bsr", "crc32", "bt", "btc", "btr", "bts", "bswap", "movbe"}

BitHandler(s, i) ==
    CASE i.op = "blsi" -> blsi(s, i)      [] i.op = "blsr" -> blsr(s, i)
      [] i.op = "blsmsk" -> blsmsk(s, i)  [] i.op = "andn" -> andn(s, i)
      [] i.op = "bzhi" -> bzhi(s, i)      [] i.op = "bextr" -> bextr(s, i)
      [] i.op = "pext" -> pext(s, i)      [] i.op = "pdep" -> pdep(s, i)
      [] i.op = "mulx" -> mulx(s, i)      [] i.op = "rorx" -> rorx(s, i)
      [] i.op = "sarx" -> sarx(s, i)      [] i.op = "shlx" -> shlx(s, i)
      [] i.op = "shrx" -> shrx(s, i)      [] i.op = "popcnt" -> popcnt(s, i)
      [] i.op = "tzcnt" -> tzcnt(s, i)    [] i.op = "lzcnt" -> lzcnt(s, i)
      [] i.op = "bsf" -> BSF(s, i)        [] i.op = "bsr" -> BSR(s, i)
      [] i.op = "crc32" -> crc32_impl(s, i)
      [] i.op = "bt" -> BT(s, i)          [] i.op = "btc" -> btc_rmw(s, i)
      [] i.op = "btr" -> btr_rmw(s, i)    [] i.op = "bts" -> bts_rmw(s, i)
      [] i.op = "bswap" -> BSWAP(s, i)    [] i.op = "movbe" -> MOVBE(s, i)

OtherHandlers(s, i) ==
    CASE i.op = "and" -> AND(s, i)     [] i.op = "or" -> OR(s, i)
      [] i.op = "xor" -> XOR(s, i)     [] i.op = "test" -> TEST(s, i)
      [] i.op \in StringMoves -> string_impl(s, i)
      [] i.op \in BitInstructions -> BitHandler(s, i)
      [] i.op = "cbw" -> CBW(s)   [] i.op = "cwde" -> CWDE(s)   [] i.op = "cdqe" -> CDQE(s)
      [] i.op = "cwd" -> CWD(s)   [] i.op = "cdq" -> CDQ(s)     [] i.op = "cqo" -> CQO(s)
      [] i.op = "xlat" -> XLAT(s) [] i.op = "movnti" -> MOVNTI(s, i)
      [] i.op = "movdir64b" -> movdir64b_impl(s, i)
      [] i.op = "aadd" -> AADD(s, i)   [] i.op = "bound" -> BOUND(s, i)
      [] i.op = "arpl" -> ARPL(s, i)
      [] i.op = "aaa" -> AAA(s)      [] i.op = "aas" -> AAS(s)
      [] i.op = "aam" -> AAM(s, i)   [] i.op = "aad" -> AAD(s, i)
      [] i.op = "daa" -> DAA(s)      [] i.op = "das" -> DAS(s)
      [] i.op \in VectorOps -> VectorHandler(s, i)
      [] i.op \in X87Ops -> X87Handler(s, i)
      [] i.op \in {"syscall", "int3"} -> TrapStage(s, i)

(* Bit manipulation: which positions of the sources make up the result,    *)
(* counts and scans as sets of positions, CRC32 as a division of the       *)
(* message bit by bit, BT and its variants on memory as one string of bits *)
(* around the address, whatever the sign of the index; also after retries  *)
(* that did not find part of the operand changed.                          *)
BitsExact ==
    Single(BitInstructions) /\ (repairs = 0 \/ Restartable(prog[1], start)) =>
        LET i == prog[1]
            w == i.w
            n == Bits(w)
            a == IF i.op = "bswap" THEN ValueOf(start, i, i.dst) ELSE ValueOf(start, i, i.src)
            b == IF i.count = "none" THEN 0 ELSE ValueOf(start, i, i.count)
            v == ValueOf(cpu, i, i.dst)
            A == BitsOf(w, a)
            M == BitsOf(w, b)
            V == BitsOf(w, v)
            rank(k) == Cardinality({j \in M : j < k})
            k == (IF i.op = "rorx" THEN i.imm ELSE b) % n
            byte(x, j) == (x \div Modulus(1) ^ j) % Modulus(1)
            serial[j \in 0 .. Bits(i.iw)] ==
                IF j = 0 THEN start.gpr[i.dst] % Modulus(4)
                ELSE LET c == serial[j - 1]
                     IN (c \div 2) ^^ (IF Bit(1, c) # Bit(2 ^ (j - 1), start.gpr[i.src]) THEN CrcPoly ELSE 0)
            index == IF i.src = "imm" THEN i.imm % n ELSE AsInt(w, a)
            element == CHOOSE e \in -Bits(8) .. Bits(8) : index - e * n \in 0 .. n - 1
            place == (memory_address(start, i) + element * w) % Container
            was == BitsOf(w, IF i.dst = "mem" THEN start.mem[place] ELSE ValueOf(start, i, i.dst))
            is == BitsOf(w, IF i.dst = "mem" THEN cpu.mem[place] ELSE v)
            bit == index - element * n
        IN CASE i.op = "blsi" -> V = {j \in A : \A x \in A : j <= x} /\ cpu.flags.cf = (A # {})
             [] i.op = "blsr" -> V = {j \in A : \E x \in A : x < j} /\ cpu.flags.cf = (A = {})
             [] i.op = "blsmsk" -> V = {j \in 0 .. n - 1 : \A x \in A : j <= x} /\ cpu.flags.cf = (A = {})
             [] i.op = "andn" -> V = M \ A /\ ~cpu.flags.cf
             [] i.op = "bzhi" -> V = {j \in A : j < Field(0, b)} /\ cpu.flags.cf = (Field(0, b) >= n)
             [] i.op = "bextr" -> V = {j \in 0 .. n - 1 : j < Field(1, b) /\ j + Field(0, b) \in A}
             [] i.op = "pext" -> V = {rank(j) : j \in A \cap M}
             [] i.op = "pdep" -> V = {j \in M : rank(j) \in A}
             [] i.op = "mulx" ->
                    LET p == ValueOf(start, i, "dx") * b
                    IN v = p \div Modulus(w) /\ (i.dst # i.src => ValueOf(cpu, i, i.src) = p % Modulus(w))
             [] i.op = "rorx" -> V = {(j - k) % n : j \in A}
             [] i.op = "shlx" -> V = {j \in 0 .. n - 1 : j - k \in A}
             [] i.op = "shrx" -> V = {j \in 0 .. n - 1 : j + k \in A}
             [] i.op = "sarx" -> V = {j \in 0 .. n - 1 : IF j + k < n THEN j + k \in A ELSE n - 1 \in A}
             [] i.op = "popcnt" -> v = Cardinality(A) /\ cpu.flags.zf = (A = {})
             [] i.op = "tzcnt" -> /\ \A j \in 0 .. n - 1 : j < v => j \notin A
                                  /\ IF A = {} THEN v = n ELSE v \in A
                                  /\ cpu.flags.cf = (A = {}) /\ cpu.flags.zf = (0 \in A)
             [] i.op = "lzcnt" -> /\ \A j \in A : j < n - v
                                  /\ IF A = {} THEN v = n ELSE n - 1 - v \in A
                                  /\ cpu.flags.cf = (A = {}) /\ cpu.flags.zf = (n - 1 \in A)
             [] i.op = "bsf" -> IF A = {} THEN cpu.gpr = start.gpr ELSE v \in A /\ \A j \in A : v <= j
             [] i.op = "bsr" -> IF A = {} THEN cpu.gpr = start.gpr ELSE v \in A /\ \A j \in A : v >= j
             [] i.op = "crc32" -> cpu.gpr[i.dst] = serial[Bits(i.iw)]
             [] i.op \in {"bswap", "movbe"} -> \A j \in 0 .. w - 1 : byte(v, j) = byte(a, w - 1 - j)
             [] i.op \in {"bt", "btc", "btr", "bts"} ->
                    /\ cpu.flags.cf = (bit \in was)
                    /\ is = CASE i.op = "bt" -> was
                              [] i.op = "btr" -> was \ {bit}
                              [] i.op = "bts" -> was \cup {bit}
                              [] i.op = "btc" -> IF bit \in was THEN was \ {bit} ELSE was \cup {bit}
                    /\ \A x \in Addresses \ {place} : cpu.mem[x] = start.mem[x]

(* Decimal arithmetic: the machine starts where an addition or subtraction *)
(* of the decimal numbers in BX and CX left it; the adjusted digits and    *)
(* the carry are the decimal sum or difference, and AAM and AAD undo each  *)
(* other.                                                                  *)
DecimalDigitsExact ==
    LET i == prog[1]
        x == start.gpr["bx"]
        y == start.gpr["cx"]
        packed == 10 * (ByteAl(cpu) \div 16) + (ByteAl(cpu) % 16)
        carry == CF(cpu)
    IN /\ Single({"daa", "das"}) => ByteAl(cpu) \div 16 <= 9 /\ ByteAl(cpu) % 16 <= 9
       /\ Single({"daa"}) => packed + 100 * carry = x + y
       /\ Single({"das"}) => packed - 100 * carry = x - y
       /\ Single({"aaa"}) => ByteAl(cpu) + 10 * carry = x + y /\ ByteAh(cpu) = ByteAh(start) + carry
       /\ Single({"aas"}) => ByteAl(cpu) - 10 * carry = x - y /\ ByteAh(cpu) = (ByteAh(start) - carry) % 256
       /\ Done /\ i.op = "aam" => ByteAl(cpu) = ByteAl(start) /\ ByteAh(cpu) = 0

(* The rule for partial registers, for the handlers outside IntegerOps.    *)
OtherRegisterRule ==
    RegisterRule({"and", "or", "xor", "popcnt", "tzcnt", "lzcnt", "andn", "bextr", "pdep", "sarx", "bts", "bswap", "arpl"},
                 {"test"})

(* Bits, decimal digits and the registers around them.                     *)
BitsAndDigitsExact == BitsExact /\ DecimalDigitsExact /\ OtherRegisterRule

(* A hooked SYSCALL that is skipped goes on one instruction behind the     *)
(* address the callback left in RIP, as the callbacks shared with another  *)
(* emulator expect, and a hooked INT exactly at that address. One address  *)
(* cannot be asked for: the instruction itself, which is taken for a       *)
(* callback that left RIP alone. A SYSCALL that is not skipped keeps what  *)
(* SYSRET needs: the return address and the flags before SFMASK.           *)
TrapResumes ==
    Single({"syscall", "int3"}) =>
        LET i == prog[1]
            here == start.rip
            left == IF i.hook.rip # NoAddress THEN i.hook.rip ELSE IF i.op = "int3" THEN here + 1 ELSE here
            asked == IF i.op = "int3" THEN left ELSE left + 1
        IN IF i.op = "int3" \/ i.hook.action = "skip"
           THEN cpu.rip = (IF asked = here THEN here + 1 ELSE asked) /\ cpu.gpr = start.gpr
           ELSE /\ cpu.rip = i.target /\ cpu.gpr["cx"] = here + 1
                /\ FromRflags(cpu.gpr["r11"]) = start.flags /\ ~cpu.flags.zf /\ cpu.flags.cf

(* Retrying is invisible: a program that ran into page faults or data      *)
(* breakpoints and was resumed ends exactly as on a machine where every    *)
(* access was allowed and nothing watched, unless an instruction reads     *)
(* what its failed attempt has changed: an operand across two pages, whose *)
(* first part is stored when the second page refuses, may be stored again, *)
(* but not read, changed and stored again; a divide error or a general     *)
(* protection fault leaves the registers, flags and memory as they were.   *)
Visible(s) == [s EXCEPT !.perm = <<>>, !.watch = {}, !.taken = FALSE, !.reason = "none", !.addr = NoAddress]

RetryIsTransparent ==
    LET free == [start EXCEPT !.perm = [a \in Addresses |-> "rw"], !.watch = {}]
    IN /\ Done /\ (\A n \in 1..Len(prog) : Restartable(prog[n], start))
             => Visible(cpu) = Visible(Seqs!FoldLeft(Step, free, prog))
       /\ cpu.reason \in {"divide_error", "general_protection"} => Visible(cpu) = Visible(start)

(* What an attempt that faulted has already done when the fault hook sees  *)
(* it: pushes have moved RSP down and POP has moved it up, arithmetic on   *)
(* memory has set the flags, string instructions and multiple pushes have  *)
(* finished some elements, a vector store some of its bytes, a store of an *)
(* operand across two pages the bytes on the first one. Nothing else has   *)
(* changed, and some page of the operand that begins at the address named  *)
(* cannot take the access; some x87 instructions report a misaligned or    *)
(* refused operand and a full stack in the same way.                       *)
FaultFootprint ==
    cpu.reason = "page_fault" /\ pc = 1 /\ repairs = 0 =>
        LET i == prog[1]
            bytes == CASE i.op = "bound" -> 2 * i.w
                       [] i.op \in MoveOps -> i.w
                       [] i.op \in VectorOps \ MoveOps -> i.vl
                       [] i.op = "maskmov" -> 1
                       [] i.op \in X87Ops -> IF i.op \in {"fld", "fst"} THEN 2 ELSE BcdBytes + 1
                       [] OTHER -> 1
            moved == {r \in Gprs : cpu.gpr[r] # start.gpr[r]}
            changed == {a \in Addresses : cpu.mem[a] # start.mem[a]}
            upper(s) == s.mem[cpu.addr] \div Modulus(FirstBytes)
            torn == {a \in changed : a = cpu.addr /\ cpu.perm[a] \in Crossing /\ upper(cpu) = upper(start)}
            stored == changed \ torn
        IN /\ moved \subseteq CASE i.op \in {"push", "pusha", "pushf", "call", "int", "pop", "iret"} -> {"sp"}
                               [] i.op \in StringMoves -> {"cx", "si", "di", "ax"}
                               [] OTHER -> {}
           /\ cpu.flags # start.flags => i.dst = "mem" \/ i.op \in {"cmps", "scas"}
           /\ CASE i.op \in {"pusha", "int"} -> \A a \in stored : a \in cpu.gpr["sp"] .. start.gpr["sp"]
                [] i.op \in {"movs", "stos"} -> Cardinality(stored) <= start.gpr["cx"] - cpu.gpr["cx"]
                [] i.op = "maskmov" -> stored \subseteq start.gpr["di"] .. cpu.addr - 1
                [] i.op \in MoveOps \cup X87Ops -> stored \subseteq {memory_address(start, i) + b : b \in 0 .. bytes - 1}
                [] OTHER -> stored = {}
           /\ cpu.vec = start.vec /\ cpu.fpu = start.fpu /\ cpu.rip = start.rip /\ cpu.cs = start.cs
           /\ \/ \E b \in 0 .. bytes - 1 : PermAt(cpu, cpu.addr + b) # "rw"
              \/ i.op \in {"fldcw", "fldenv", "fsave", "frstor", "fxsave", "fxrstor", "fldsti"}

(* String instructions: CMPS and SCAS stop at the first element whose      *)
(* equality contradicts the prefix, MOVS and STOS transfer every element;  *)
(* RCX, RSI and RDI end where the last element says, also after faults and *)
(* breakpoints in between.                                                 *)
StringOpsExact ==
    Single(StringMoves) =>
        LET i == prog[1]
            total == IF i.rep = "none" THEN 1 ELSE start.gpr["cx"]
            n == IF i.rep = "none" THEN 1 ELSE start.gpr["cx"] - cpu.gpr["cx"]
            At(r, k) == start.gpr[r] + (IF start.df THEN -k ELSE k) * i.w
            Same(k) == start.mem[At("di", k)] =
                       IF i.op = "cmps" THEN start.mem[At("si", k)] ELSE ValueOf(start, i, "ax")
            wanted == i.rep = "rep"
        IN /\ UsesSi(i) => cpu.gpr["si"] = At("si", n)
           /\ UsesDi(i) => cpu.gpr["di"] = At("di", n)
           /\ i.op \in {"cmps", "scas"} /\ total > 0 =>
                 /\ n > 0 /\ cpu.flags.zf = Same(n - 1)
                 /\ \A k \in 0 .. n - 2 : Same(k) = wanted
                 /\ n < total => Same(n - 1) # wanted
           /\ i.op \notin {"cmps", "scas"} => n = total
           /\ i.op = "stos" => \A k \in 0 .. n - 1 : cpu.mem[At("di", k)] = ValueOf(start, i, "ax")
           /\ i.op = "movs" => \A k \in 0 .. n - 1 : cpu.mem[At("di", k)] = start.mem[At("si", k)]
           /\ i.op = "lods" /\ n > 0 => ValueOf(cpu, i, "ax") = start.mem[At("si", n - 1)]
=============================================================================
