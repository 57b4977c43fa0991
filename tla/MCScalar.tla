------------------------------- MODULE MCScalar -------------------------------
(* Programs for the instruction handlers: operands of three-bit bytes,     *)
(* every value of a byte and the boundary values of the wider operands.    *)
EXTENDS VectorPrograms

MCAddresses == 0..31

Sample(w) ==
    LET m == Modulus(w) IN
    IF w = 1 THEN 0 .. m - 1
    ELSE {0, 1, 2, m \div 2 - 1, m \div 2, m \div 2 + 1, m - 2, m - 1}
Few(w) == {0, 1, Modulus(w) \div 2 - 1, Modulus(w) \div 2, Modulus(w) - 1}

(* Registers carry a bit above the operand, so that merging shows.         *)
Dirty(w, v) == IF w = 8 THEN v ELSE v + Modulus(w)

NoFlags == [cf |-> FALSE, pf |-> FALSE, af |-> FALSE, zf |-> FALSE, sf |-> FALSE, of |-> FALSE]
Blank == [gpr |-> [r \in Gprs |-> 0], flags |-> NoFlags, df |-> FALSE,
          mem |-> [a \in MCAddresses |-> 0], perm |-> [a \in MCAddresses |-> "rw"],
          vec |-> <<>>, opmask |-> {}, fpu |-> <<>>, watch |-> {}, rip |-> 1, cs |-> 3, taken |-> FALSE, reason |-> "none", addr |-> NoAddress]
Regs(w, a, b, c, d) ==
    [Blank EXCEPT !.gpr["ax"] = Dirty(w, a), !.gpr["bx"] = Dirty(w, b),
                  !.gpr["cx"] = c, !.gpr["dx"] = Dirty(w, d)]
Nop == [op |-> "", w |-> 8, dst |-> "ax", src |-> "bx", imm |-> 0, iw |-> 1, count |-> "none",
        base |-> "none", disp |-> 0, cond |-> "e", target |-> 9, rep |-> "none"]
I(op, w, dst, src) == [Nop EXCEPT !.op = op, !.w = w, !.dst = dst, !.src = src]
One(i, s) == [prog |-> <<i>>, cpu |-> s]
Carry(s, c) == [s EXCEPT !.flags.cf = c]

Arithmetic ==
    UNION {{{One(I(op, w, "ax", "bx"), Carry(Regs(w, a, b, 0, 0), c)) :
                op \in {"adc", "sbb"}, a \in Sample(w), b \in Sample(w), c \in BOOLEAN},
            {One(I(op, w, "ax", "bx"), Carry(Regs(w, a, b, 0, 0), TRUE)) :
                op \in {"add", "sub", "cmp", "and", "or", "xor", "test", "xadd"}, a \in Sample(w), b \in Sample(w)},
            {One([I(op, w, "ax", "imm") EXCEPT !.imm = v], Carry(Regs(w, a, 0, 0, 0), c)) :
                op \in {"inc", "dec", "neg", "not", "add"}, a \in Sample(w), c \in BOOLEAN, v \in {3, 4}}} : w \in Widths}
    \cup {{One(I(op, 1, "ah", src), Carry(Regs(2, a, b, 0, 0), TRUE)) :
            op \in {"add", "sbb", "not", "mov"}, src \in {"ax", "bx", "ah", "bh"}, a \in Few(2), b \in Few(2)}}

Counts(w) == IF w = 8 THEN {0, 1, 2, 11, 12, 23, 24, 25} ELSE 0..13

Shifts ==
    UNION {{{One([I(op, w, "ax", src) EXCEPT !.imm = k], Carry(Regs(w, a, 0, k, 0), c)) :
                op \in {"shl", "shr", "sar", "rol", "ror"}, src \in {"imm", "cx"},
                a \in Few(w), k \in Counts(w), c \in {TRUE}},
            {One([I(op, w, "ax", "cx") EXCEPT !.imm = k], Carry(Regs(w, a, 0, k, 0), c)) :
                op \in {"rcl", "rcr"}, a \in Few(w), k \in Counts(w), c \in BOOLEAN},
            {One(I(op, w, "ax", "one"), Carry(Regs(w, a, 0, 0, 0), c)) :
                op \in {"shl", "sar", "rol", "rcr"}, a \in Few(w), c \in BOOLEAN}} : w \in Widths}
    \cup UNION {{{One([I(op, w, "ax", "bx") EXCEPT !.imm = k, !.count = src], Regs(w, a, b, k, 0)) :
                op \in {"shld", "shrd"}, src \in {"imm", "cx"},
                a \in Few(w), b \in Few(w), k \in Counts(w)}} : w \in {2, 8}}

MulDiv ==
    UNION {{{One(I(op, w, "bx", "none"), Regs(w, a, b, 0, d)) :
        op \in {"mul", "imul", "div", "idiv"}, a \in Few(w), b \in Few(w), d \in Few(w)}} : w \in {2, 4}}
    \cup UNION {{{One([I("imul", w, "ax", "bx") EXCEPT !.imm = v, !.count = n], Regs(w, a, b, 0, 0)) :
        a \in Few(w), b \in Few(w), v \in {3, 7}, n \in {"imm", "none"}}} : w \in {2, 4}}
    \cup {{One(I(op, 1, "bx", "none"), Regs(1, a, b, 0, 0)) :
        op \in {"mul", "imul", "div", "idiv"}, a \in 0 .. Modulus(2) - 1, b \in Sample(1)}}

Branches ==
    UNION {{{[prog |-> <<I("cmp", w, "ax", "bx"), [I(op, w, "dx", "cx") EXCEPT !.cond = c]>>,
             cpu |-> Regs(w, a, b, 5, 2)] :
                op \in {"jcc", "setcc"} \cup (IF w = 1 THEN {} ELSE {"cmov"}), c \in Conditions,
                a \in Few(w), b \in Few(w)}} : w \in {1, 4}}
    \cup {{One([I(op, w, "imm", "bx") EXCEPT !.target = 7], [Regs(w, 1, 1, k, 1) EXCEPT !.flags.zf = z]) :
            op \in {"loop", "loope", "loopne", "jcxz", "jmp"}, w \in {2, 4, 8}, k \in {0, 1, 2}, z \in BOOLEAN},
     {One([I("cmov", w, "ax", "mem") EXCEPT !.cond = c], Regs(w, 1, 1, 0, 0)) :
            w \in {2, 4, 8}, c \in {"e", "ne"}}}

(* Operands in memory: the address is unmapped, read-only or writable.     *)
Memory1(w, a, b, p, c) ==
    Carry([Regs(w, b, b, 1, 0) EXCEPT !.mem[0] = a, !.perm[0] = p], c)

MemoryForms ==
    UNION {{{One([I(op, w, "mem", "bx") EXCEPT !.imm = 1, !.count = "imm"], Memory1(w, a, b, p, c)) :
                op \in {"add", "adc", "sbb", "cmp", "xor", "inc", "neg", "not", "shld", "mov",
                        "xchg", "xadd", "cmpxchg", "cmpxchg486", "setcc"},
                a \in {1, Modulus(w) - 1}, b \in {1, Modulus(w) - 1}, p \in Perms, c \in BOOLEAN},
            {One([I(op, w, "mem", "cx") EXCEPT !.imm = 1], Memory1(w, a, 1, p, c)) :
                op \in {"shl", "rol", "rcl", "rcr"}, a \in {1, Modulus(w) - 1}, p \in Perms, c \in BOOLEAN},
            {One(I(op, w, "mem", "none"), Memory1(w, a, b, p, TRUE)) :
                op \in {"mul", "div", "idiv"}, a \in {0, 1}, b \in {1, 3}, p \in Perms},
            {One(I(op, w, "bx", "mem"), Memory1(w, a, 1, p, TRUE)) :
                op \in {"sub", "or", "test", "mov", "movzx", "movsx", "cmov"}, a \in {3, 5}, p \in Perms}} : w \in {2, 4}}
    \cup {{One(I("moffs", 8, "mem", "ax"), Memory1(8, 5, 1, p, TRUE)) : p \in Perms},
     {One(I("mov8", 1, dst, "bh"), Memory1(1, 5, b, p, TRUE)) : dst \in {"mem", "ax", "dh"}, b \in {1, 6}, p \in Perms},
     {One([I("movsxd", 8, "bx", "mem") EXCEPT !.iw = 4], Memory1(8, a, 1, p, TRUE)) :
            a \in {3, Modulus(4) - 3}, p \in Perms},
     {One([I("cmpxchg8b", 8, "mem", "bx") EXCEPT !.disp = d], Memory1(8, a, 0, p, TRUE)) :
            d \in {0, 4}, a \in {0, Modulus(4) + 2}, p \in Perms}}

(* The stack lies at the addresses below sp.                               *)
Stack(sp) == [Regs(8, 16, 5, 6, 7) EXCEPT !.gpr["sp"] = sp, !.gpr["bp"] = 21, !.mem[16] = 4]
Two(i, j, s) == [prog |-> <<i, j>>, cpu |-> s]

Stacks ==
    {{Two(I("push", w, x, "none"), I("pop", w, y, "none"), Stack(sp)) :
        w \in {2, 8}, x \in {"ax", "sp"}, y \in {"bx", "sp", "ax"}, sp \in {0, 8, 16}},
     {Two(I("push", 8, "ax", "none"), [I("pop", 8, "mem", "none") EXCEPT !.base = "sp", !.disp = 0],
              [Stack(16) EXCEPT !.perm[a] = p]) : a \in {8, 16}, p \in Perms},
     {Two(I("call", 8, t, "none"), [I("ret", 8, "ax", "none") EXCEPT !.imm = n],
              [Stack(16) EXCEPT !.perm[8] = p]) : t \in {"imm", "cx"}, n \in {0, 4}, p \in Perms},
     {Two([I("enter", 8, "ax", "none") EXCEPT !.imm = n], I("leave", 8, "ax", "none"),
              [Stack(16) EXCEPT !.perm[8] = p]) : n \in {0, 4}, p \in Perms},
     {Two(I("pushf", 8, "ax", "none"), I("popf", 8, "ax", "none"),
              [Stack(16) EXCEPT !.flags = f]) : f \in {[NoFlags EXCEPT !.cf = TRUE], [NoFlags EXCEPT !.of = TRUE]}},
     {Two([I("int", 8, "ax", "none") EXCEPT !.imm = 5], I("iret", 8, "ax", "none"),
              Carry([Stack(20) EXCEPT !.perm[a] = p], TRUE)) : a \in {12, 10, 2}, p \in Perms},
     {One([I("int", 8, "ax", "none") EXCEPT !.target = NoAddress], Stack(20))},
     {One(I("pusha", 2, "ax", "none"), [Stack(20) EXCEPT !.perm[12] = p]) : p \in Perms}}

(* Elements of one byte, the source at 1..4, the destination at 9..12; and *)
(* elements of two, of which any but the first may straddle two pages.     *)
Strings ==
    {{One([I(op, 2, "ax", "none") EXCEPT !.rep = "rep"],
         [Blank EXCEPT !.gpr = [Blank.gpr EXCEPT !["ax"] = 13, !["cx"] = n, !["si"] = 1, !["di"] = 9],
                       !.mem = [a \in MCAddresses |-> IF a \in diff THEN 20 ELSE 11],
                       !.perm[3] = p, !.perm[11] = q]) :
        op \in {"movs", "cmps", "scas", "stos", "lods"}, n \in {1, 2, 3}, diff \in {9..13, {3, 9, 13}},
        p \in Perms, q \in Perms},
     {One([I(op, 1, "ax", "none") EXCEPT !.rep = rep],
         [Blank EXCEPT !.gpr = [Blank.gpr EXCEPT !["ax"] = 2, !["cx"] = n,
                                    !["si"] = IF df THEN 4 ELSE 1, !["di"] = IF df THEN 12 ELSE 9],
                       !.df = df, !.watch = watch,
                       !.mem = [a \in MCAddresses |-> IF a \in diff THEN 1 ELSE 2],
                       !.perm[3] = p, !.perm[10] = q]) :
        op \in {"movs", "cmps", "scas", "stos", "lods"}, rep \in {"none", "rep", "repne"}, n \in {0, 1, 4},
        df \in BOOLEAN, watch \in {{}, {2}, {10, 11}}, diff \in {{}, {10}, {2, 11}, 9..12},
        p \in {"none", "rw"}, q \in {"ro", "rw"}}}

(* Two or three sources; a field of a control operand has five bits, so    *)
(* that starts, lengths and indices pass both ends of an operand.          *)
Patterns(w) == Few(w) \cup {6, Modulus(w) \div 4 + 5, Modulus(w) - 8}
Controls(w) == {0, 1, 2 + 32 * 3, Bits(w) - 1 + 32, Bits(w) - 2 + 32 * 9, Bits(w), Bits(w) + 32 * 2}
Counted(w, a, b) == [Regs(w, 5, a, 0, 0) EXCEPT !.gpr["cx"] = Dirty(w, b)]

BitManipulation ==
    UNION {{{One([I(op, w, "ax", "bx") EXCEPT !.count = "cx"], Carry(Counted(w, a, b % Modulus(w)), TRUE)) :
                op \in {"andn", "bzhi", "bextr", "pext", "pdep", "sarx", "shlx", "shrx"},
                a \in Patterns(w), b \in Controls(w) \cup Patterns(w)},
            {One([I(op, w, "ax", "bx") EXCEPT !.imm = k], Carry(Regs(w, 5, a, 0, 0), c)) :
                op \in {"blsi", "blsr", "blsmsk", "rorx"}, a \in Patterns(w), k \in {0, 1, 13}, c \in BOOLEAN}} : w \in {4, 8}}
    \cup UNION {{{One(I(op, w, "ax", "bx"), Carry(Regs(w, 5, a, 0, 0), TRUE)) :
                op \in {"popcnt", "tzcnt", "lzcnt", "bsf", "bsr", "bswap"}, a \in Patterns(w)},
            {One([I(op, w, "ax", src) EXCEPT !.imm = k], Regs(w, a, x, 0, 0)) :
                op \in {"bt", "btc", "btr", "bts"}, src \in {"imm", "bx"}, k \in {0, 25}, a \in Patterns(w),
                x \in {0, Bits(w) - 1, Modulus(w) - 1}},
            {One([I(op, w, "mem", src) EXCEPT !.imm = k, !.disp = 8],
                     [Regs(w, 0, x % Modulus(w), 0, 0) EXCEPT !.mem = [z \in MCAddresses |-> z % 8],
                                                              !.perm[8 + e] = p]) :
                op \in {"bt", "btc", "btr", "bts"}, src \in {"imm", "bx"}, k \in {1, 9},
                x \in {0, Bits(w) - 1, Bits(w), -1, -Bits(w)}, e \in {-w, 0, w}, p \in Perms},
            {One(I("movbe", w, dst, IF dst = "mem" THEN "bx" ELSE "mem"), Memory1(w, a, a, p, TRUE)) :
                dst \in {"mem", "ax"}, a \in Patterns(w), p \in Perms},
            {One(I(op, w, "bx", "mem"), Memory1(w, a, 1, p, TRUE)) :
                op \in {"popcnt", "bsf", "blsr"}, a \in {0, 6}, p \in Perms}} : w \in {2, 4, 8}}
    \cup {{One([I("mulx", 4, dst, "bx") EXCEPT !.count = "cx"], [Counted(4, 1, b) EXCEPT !.gpr["dx"] = a]) :
            dst \in {"ax", "bx"}, a \in Patterns(4), b \in Patterns(4)},
     {One([I("crc32", w, "ax", "bx") EXCEPT !.iw = iw], [Regs(8, a, b, 0, 0) EXCEPT !.gpr["ax"] = a]) :
            w \in {4, 8}, iw \in {1, 2, 4}, a \in Patterns(4) \cup {Modulus(4) + 3}, b \in Patterns(4)}}

(* Sign extension, table lookup, direct stores, checks of two operands.    *)
Small ==
    {{One(I(op, 8, "ax", "none"), Regs(w, a, 1, 0, 3)) :
        op \in {"cbw", "cwde", "cdqe", "cwd", "cdq", "cqo"}, w \in {1, 2, 4}, a \in Few(4)},
     {One([I(op, w, dst, src) EXCEPT !.disp = d],
              [Regs(8, 8, 3, 0, 0) EXCEPT !.mem[0] = 5, !.mem[4] = 2, !.perm[x] = p]) :
            <<op, dst, src>> \in {<<"aadd", "mem", "bx">>, <<"movnti", "mem", "bx">>, <<"arpl", "mem", "bx">>,
                <<"arpl", "ax", "bx">>, <<"bound", "bx", "mem">>, <<"movdir64b", "ax", "mem">>, <<"xlat", "ax", "none">>},
            w \in {2, 4}, d \in {0, 1, 4}, x \in {0, 4, 8}, p \in Perms}}

Digits == {0, 1, 5, 9, 10, 19, 45, 50, 54, 55, 90, 91, 99}
Bcd(x) == 16 * (x \div 10) + (x % 10)
Adjusted(x, y, v, low) ==
    [Regs(8, (v % 256) + 512, x, y, 0) EXCEPT !.flags.cf = v \notin 0..255, !.flags.af = low \notin 0..15]
Decimals ==
    {{One(I("daa", 1, "ax", "none"), Adjusted(x, y, Bcd(x) + Bcd(y), (x % 10) + (y % 10))) : x \in Digits, y \in Digits},
     {One(I("das", 1, "ax", "none"), Adjusted(x, y, Bcd(x) - Bcd(y), (x % 10) - (y % 10))) : x \in Digits, y \in Digits},
     {One(I("aaa", 1, "ax", "none"), Adjusted(x, y, x + y, x + y)) : x \in 0..9, y \in 0..9},
     {One(I("aas", 1, "ax", "none"), Adjusted(x, y, x - y, x - y)) : x \in 0..9, y \in 0..9},
     {[prog |-> <<[I("aam", 1, "ax", "none") EXCEPT !.imm = d], [I("aad", 1, "ax", "none") EXCEPT !.imm = d]>>,
           cpu |-> Regs(8, v, 0, 0, 0)] : d \in {0, 3, 10}, v \in {0, 9, 10, 99, 255}}}

(* Callbacks that leave RIP before, at, behind and far from the instruction.*)
TrapPrograms ==
    {{One(I(op, 8, "ax", "none") @@ [hook |-> [action |-> a, rip |-> r], sfmask |-> {"zf", "sf"}],
          [Blank EXCEPT !.rip = 5, !.flags.cf = TRUE, !.flags.zf = TRUE]) :
        op \in {"syscall", "int3"}, a \in {"skip", "run"}, r \in {NoAddress, 3, 4, 5, 6, 7, 20}}}

ScalarPrograms == <<Arithmetic, Shifts, MulDiv, Branches, MemoryForms, Stacks, Strings,
                    BitManipulation, Small, Decimals, TrapPrograms>>
=============================================================================
