------------------------------ MODULE MCMachine ------------------------------
(* Every program the instruction handlers are checked on: those of         *)
(* MCScalar and MCVectors, and the x87 ones below.                         *)
(* Programs of x87 instructions: TOP at both ends of the file and inside,  *)
(* an empty, a nearly empty, a nearly full and a full stack, exceptions    *)
(* masked and not.                                                         *)
EXTENDS MCVectors, X87Programs

F(op) == [Nop EXCEPT !.op = op, !.disp = 8]
         @@ [ops |-> <<0, 0>>, value |-> 0, fn |-> "add", pop |-> FALSE, eflags |-> FALSE, quiet |-> FALSE]
Regs2(op, d, r) == [F(op) EXCEPT !.ops = <<d, r>>]
Fn(i, fn) == [i EXCEPT !.fn = fn]
P(i, pop) == [i EXCEPT !.pop = pop]
W(i, w) == [i EXCEPT !.w = w]
At(i, a) == [i EXCEPT !.disp = a]

AllMasked == \h37F
NoneMasked == \h340
Words == {AllMasked, NoneMasked}

(* n registers in use from TOP on, x and y on top; the others hold what    *)
(* was there before.                                                       *)
Fpu(top, n, x, y, cw) ==
    LET used(p) == (p - top) % 8 < n
        st == [p \in Registers |-> CASE p = top -> x [] p = (top + 1) % 8 -> y [] OTHER -> 10 + 2 * p]
    IN [cw |-> cw, sw |-> top * 2 ^ 11, top |-> top, st |-> st, mmx |-> [p \in Registers |-> p],
        tags |-> [p \in Registers |-> IF used(p) THEN Tag(st[p]) ELSE Empty]]
OnFpu(f) == [Blank EXCEPT !.fpu = f, !.mem = [a \in MCAddresses |-> a % 4], !.flags.zf = TRUE]
Cell(s, v) == [s EXCEPT !.mem[8] = v % Container]
Program(p, s) == [prog |-> p, cpu |-> s]

(* Arithmetic and functions, on numbers, infinities and NaN.               *)
X87Arithmetic ==
    {{One(Fn(P(Regs2("fregs", d, 1 - d), pop), fn), OnFpu(Fpu(7, n, x, y, cw))) :
        fn \in {"add", "mul", "sub", "subr", "div", "divr", "prem", "prem1"}, d \in {0, 1}, pop \in BOOLEAN,
        n \in {1, 2}, x \in {0, 6, -12, NaN, Inf}, y \in {0, 4, 6, -Inf}, cw \in Words},
     {One(W(Fn(F(op), fn), w), [Cell(OnFpu(Fpu(0, n, x, 0, AllMasked)), v) EXCEPT !.perm[8] = p]) :
        op \in {"fmem", "fmemint"}, fn \in {"add", "subr", "div"}, w \in {2, 4}, n \in {0, 1}, x \in {0, 12},
        v \in {0, 6, -6}, p \in WholePerms},
     {One(F(op), OnFpu(Fpu(0, n, x, y, cw))) :
        op \in {"fchs", "fabs", "fsin", "fcos", "f2xm1", "fsqrt", "frndint", "fsincos", "fptan", "fpatan", "fyl2x",
                "fyl2xp1", "ftst", "fxam"},
        n \in {0, 1, 2, 8}, x \in {0, 1, 2, 4, -3, NaN, Inf, -Inf}, y \in {0, 6}, cw \in Words},
     {One(F("fscale"), OnFpu(Fpu(3, n, x, y, AllMasked))) : n \in {1, 2}, x \in {0, 6, Inf}, y \in {-2, 0, 5}}}

(* Integers: every rounding mode, ties, and both ends of the range.        *)
Modes == {AllMasked + m * 1024 : m \in 0..3} \cup {NoneMasked, \h35F, \h37E}
X87Integers ==
    {{One(W(P(F(op), op = "fisttp"), w), [OnFpu(Fpu(3, n, x, 0, cw)) EXCEPT !.perm[8] = p]) :
        op \in {"fist", "fisttp"}, w \in {2, 4}, n \in {0, 1}, cw \in Modes, p \in {"ro", "rw", "rw-ro"},
        x \in {0, 1, 2, 3, 5, -1, -3, -5, 62, 63, 64, -63, -64, -65, -66, 4000, NaN, Inf, -Inf}},
     {One(F("frndint"), OnFpu(Fpu(3, 1, x, 0, cw))) : cw \in Modes, x \in {1, 3, 5, -1, -3, -5, 4, NaN, Inf}}}

X87Compares ==
    {{One([P(Regs2("fcom", 0, k), pop) EXCEPT !.eflags = e, !.quiet = q], OnFpu(Fpu(7, n, x, y, cw))) :
        k \in {0, 1}, pop \in BOOLEAN, e \in BOOLEAN, q \in BOOLEAN, n \in {0, 1, 2},
        x \in {-2, 4, NaN}, y \in {4, NaN}, cw \in Words},
     {One(P(F("fcommem"), pop), [Cell(OnFpu(Fpu(7, n, x, 0, cw)), v) EXCEPT !.perm[8] = p]) :
        pop \in BOOLEAN, n \in {0, 1}, x \in {-2, 4, NaN}, v \in {-2, 4}, cw \in Words, p \in {"none", "ro"}},
     {One([Regs2("fcompp", 0, 1) EXCEPT !.quiet = q], OnFpu(Fpu(6, n, x, 4, cw))) :
        n \in {0, 1, 2, 8}, x \in {4, NaN}, q \in BOOLEAN, cw \in Words},
     {One([Regs2("fcmov", 0, k) EXCEPT !.cond = c], OnFpu(Fpu(6, n, 2, 4, cw))) :
        k \in {1, 2}, n \in {0, 2, 3}, c \in {"e", "ne", "b", "p"}, cw \in Words}}

(* Three instructions that move the stack, from every height.              *)
Movers ==
    {[F("fldconst") EXCEPT !.value = 0], [F("fldconst") EXCEPT !.value = 6], Regs2("fldsti", 1, 0), P(F("fst"), TRUE),
     Regs2("fxch", 0, 2), P(Regs2("fregs", 1, 0), TRUE), F("fincstp"), F("fdecstp"), P(Regs2("ffree", 1, 0), FALSE),
     P(Regs2("ffree", 0, 0), TRUE), Regs2("fststi", 2, 0), Regs2("fstpsti", 0, 1), F("emms"), F("fnclex")}
X87Stacks ==
    {{Program(<<i, j, k>>, OnFpu(Fpu(top, n, 4, 0, AllMasked))) : i \in Movers, j \in Movers, k \in Movers} :
        top \in {1}, n \in {2, 7}}
    \cup {{Program(<<i, j>>, OnFpu(Fpu(top, n, 4, 0, cw))) : i \in Movers, j \in Movers, top \in {0, 7}, n \in {0, 1, 8}, cw \in Words}}

Stripe(k) == [b \in VectorBytes |-> (b + k) % 8]
Vectors3 == ("x0" :> Stripe(0)) @@ ("x1" :> Stripe(1)) @@ ("x2" :> Stripe(2))

(* MMX registers, alone and together with vector registers.                *)
OnBoth(top, n) == [OnFpu(Fpu(top, n, 4, 0, AllMasked)) EXCEPT !.vec = Vectors3]
MmxFilled(s) == [s EXCEPT !.fpu.mmx = [p \in Registers |-> IF p = 2 THEN 11259375 ELSE 4793490]]
X87Mmx ==
    {{Program(<<[F(o[1]) EXCEPT !.ops = <<m, 0>>, !.dst = "x0", !.src = "x0"],
                [F(o[2]) EXCEPT !.ops = <<m, 0>>, !.dst = "x0", !.src = "x0"]>>, MmxFilled(OnBoth(top, n))) :
        o \in {<<"movq2dq", "movdq2q">>, <<"movdq2q", "movq2dq">>}, m \in {2, 5}, top \in {0, 6}, n \in {0, 1}},
     {One(W([Regs2("maskmov", 2, 5) EXCEPT !.dst = "x1", !.src = "x2"], w),
          [MmxFilled(OnBoth(3, 1)) EXCEPT !.gpr["di"] = d, !.perm[x] = p]) :
        w \in {8, 16}, d \in {0, 3, 12}, x \in 1..10, p \in WholePerms},
     {One(W([Regs2("mmx", m, 0) EXCEPT !.dst = d, !.src = r], w), [Cell(OnFpu(Fpu(5, 2, 4, 0, AllMasked)), 300) EXCEPT !.perm[8] = p]) :
        m \in {2, 5}, <<d, r>> \in {<<"mm", "ax">>, <<"mm", "mem">>, <<"mem", "mm">>, <<"bx", "mm">>}, w \in {4, 8}, p \in Perms}}

(* Loads and stores, with either address of the operand missing.           *)
Loaded(op, w) == W(F(op), w)
X87Transfers ==
    {{Program(<<Loaded(l[1], l[2]), At(P(Loaded(l[3], l[2]), TRUE), 12)>>,
              [OnFpu(Fpu(top, n, 4, 0, AllMasked)) EXCEPT !.mem[8] = v, !.mem[9] = v % 2, !.mem[10] = 0, !.perm[x] = p]) :
        l \in {<<"fld", 4, "fst">>, <<"fld", 10, "fst">>, <<"fild", 2, "fist">>, <<"fild", 4, "fist">>, <<"fbld", 4, "fbstp">>},
        top \in {0, 3}, n \in {0, 7, 8}, v \in {0, 1, 3, 18}, x \in {8, 9, 10, 12, 13, 14}, p \in WholePerms},
     {Program(<<Regs2("fxch", 0, k), Regs2("fxch", 0, k)>>, OnFpu(Fpu(6, n, 4, 0, cw))) :
        k \in 0..3, n \in {0, 1, 3, 8}, cw \in Words},
     {One(i, [Cell(OnFpu(Fpu(5, 2, 4, 0, AllMasked)), v) EXCEPT !.perm[8] = p]) :
        i \in {F("fldcw"), F("fnstcw"), [F("fnstsw") EXCEPT !.dst = "mem"], F("fnstsw"), F("finit")},
        v \in {\h37F, \h33F, 5}, p \in WholePerms}}

(* Images of the whole unit.                                               *)
X87Images ==
    {{Program(<<At(F("fxsave"), a), F("finit"), At(F("fxrstor"), a)>>,
              [OnFpu(Fpu(top, n, 4, 0, cw)) EXCEPT !.vec = v, !.perm[x] = p]) :
        a \in {0, 8}, top \in {0, 3, 7}, n \in {0, 1, 3, 8}, cw \in {AllMasked, \h33F}, v \in {<<>>, Vectors3},
        x \in {0, 5, 20}, p \in WholePerms},
     {Program(<<At(F("fsave"), a), At(F("frstor"), a)>>, OnFpu(Fpu(top, n, 4, -Inf, AllMasked))) :
        a \in {0, 4, 16}, top \in {0, 3, 7}, n \in {0, 1, 3, 8}},
     {Program(<<F("fnstenv"), F("finit"), F("fldenv")>>, OnFpu(Fpu(top, n, 4, 0, cw))) :
        top \in {0, 3, 7}, n \in {0, 1, 3, 8}, cw \in {AllMasked, \h33F}},
     {One(F(op), [OnFpu(Fpu(3, n, 4, 0, AllMasked)) EXCEPT !.mem[8] = \h33F, !.mem[9] = 2048, !.mem[10] = 6, !.perm[x] = p]) :
        op \in {"fsave", "frstor", "fnstenv", "fldenv"}, n \in {0, 3}, x \in {8, 9, 10, 13}, p \in WholePerms}}

X87ProgramFamilies == <<X87Arithmetic, X87Integers, X87Compares, X87Stacks, X87Mmx, X87Transfers, X87Images>>

MCScenarios == ScalarPrograms \o VectorProgramFamilies \o X87ProgramFamilies
=============================================================================
