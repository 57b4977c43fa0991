----------------------------- MODULE X87Programs -----------------------------
(* What programs of x87 instructions should do, said of a stack without    *)
(* TOP, tags or physical registers.                                        *)
EXTENDS Machine

(* ST(0) to ST(7): nothing, or the one value it holds.                     *)
View(f) == [k \in Registers |-> IF x87_is_empty(f, k) THEN <<>> ELSE <<x87_get(f, k)>>]

Prepended(v, x) == IF v[7] = <<>> THEN [k \in Registers |-> IF k = 0 THEN <<x>> ELSE v[k - 1]] ELSE v
Dropped(v) == IF v[0] = <<>> THEN v ELSE [k \in Registers |-> IF k = 7 THEN <<>> ELSE v[k + 1]]
Replaced(v, k, x) == [v EXCEPT ![k] = <<x>>]
Top(v) == v[0][1]

(* What is at the address of a memory operand, whatever its permission.    *)
Pointed(i) ==
    LET a == memory_address(cpu, i)
        c == cpu.mem[a]
        Byte(x) == (x % 16) + 10 * (x \div 16)
    IN CASE i.op \in {"fild", "fmemint"} -> 2 * AsInt(i.w, c % Modulus(i.w))
         [] i.op = "fbld" -> (IF cpu.mem[a + 2] = 0 THEN 2 ELSE -2) * (Byte(c) + 100 * Byte(cpu.mem[a + 1]))
         [] i.w = 10 -> IF cpu.mem[a + 1] = 0 THEN c ELSE -c
         [] OTHER -> Signed(Container, c)

(* The stack after i, exceptions masked. An operand that is missing leaves *)
(* the stack as it is; the popping forms pop all the same.                 *)
StackAfter(v, i) ==
    LET here == v[0] # <<>>
        both == \A n \in 1..2 : v[i.ops[n]] # <<>>
        pop(u) == IF i.pop THEN Dropped(u) ELSE u
    IN CASE i.op = "fldconst" -> Prepended(v, i.value)
         [] i.op \in {"fld", "fild", "fbld"} -> Prepended(v, Pointed(i))
         [] i.op = "fldsti" -> Prepended(v, v[i.ops[1]][1])
         [] i.op \in {"fst", "fist", "fisttp", "fbstp"} -> pop(v)
         [] i.op \in {"fmem", "fmemint"} /\ here -> Replaced(v, 0, Apply(i.fn, Top(v), Pointed(i))[1])
         [] i.op = "fregs" ->
                pop(IF both THEN Replaced(v, i.ops[1], Apply(i.fn, v[i.ops[1]][1], v[i.ops[2]][1])[1]) ELSE v)
         [] i.op = "fchs" /\ here -> Replaced(v, 0, Opposite(Top(v)))
         [] i.op = "fabs" /\ here -> Replaced(v, 0, Magnitude(Top(v)))
         [] i.op \in {"fsin", "fcos", "f2xm1", "fscale"} /\ here -> Replaced(v, 0, x87_get(cpu.fpu, 0))
         [] i.op = "fsqrt" /\ here /\ Top(v) >= 0 -> Replaced(v, 0, Libm("sqrt", Top(v), 0))
         [] i.op = "frndint" /\ here -> Replaced(v, 0, x87_round_to_control(start.fpu, Top(v)))
         [] i.op = "fsincos" /\ here -> Prepended(Replaced(v, 0, Libm("cos", Top(v), 0)), Libm("sin", Top(v), 0))
         [] i.op = "fptan" /\ here -> Prepended(Replaced(v, 0, Libm("tan", Top(v), 0)), 2)
         [] i.op = "fpatan" /\ here /\ v[1] # <<>> -> Dropped(Replaced(v, 1, Libm("atan2", v[1][1], Top(v))))
         [] i.op = "fxch" /\ both -> [v EXCEPT ![0] = v[i.ops[2]], ![i.ops[2]] = v[0]]
         [] i.op = "fststi" /\ here -> Replaced(v, i.ops[1], Top(v))
         [] i.op = "fstpsti" /\ here -> Dropped(Replaced(v, i.ops[2], Top(v)))
         [] i.op = "fcmov" /\ both /\ eval_cond(start.flags, i.cond) -> Replaced(v, 0, v[i.ops[2]][1])
         [] i.op = "ffree" -> pop([v EXCEPT ![i.ops[1]] = <<>>])
         [] i.op \in {"fcom", "fcommem"} -> pop(v)
         [] i.op = "fcompp" -> Dropped(Dropped(v))
         [] i.op = "fincstp" -> [k \in Registers |-> v[(k + 1) % 8]]
         [] i.op = "fdecstp" -> [k \in Registers |-> v[(k + 7) % 8]]
         [] i.op \in {"finit", "fsave", "emms"} -> [k \in Registers |-> <<>>]
         [] OTHER -> v

(* Not judged: the instructions that load an image, FYL2X, which pops or   *)
(* not as its range check decides, FLD ST(i) of an empty register.         *)
Said(i, v) ==
    /\ i.op \notin {"fldenv", "frstor", "fxrstor", "mmx", "movdq2q", "fyl2x", "fyl2xp1"}
    /\ (i.op = "fldsti" => v[i.ops[1]] # <<>>)

(* After every instruction, and also at the fault or exception that stops  *)
(* the next one half-way, the eight registers seen from TOP are the stack  *)
(* of the reference; the TOP in the status word is the one in use. Only    *)
(* FSINCOS and FPTAN have replaced ST(0) before they find the stack full,  *)
(* and FFREEP ST(0) has freed the register it then cannot pop.             *)
X87StackExact ==
    start.fpu # <<>> =>
        LET before(n) == Seqs!FoldLeft(StackAfter, View(start.fpu), SubSeq(prog, 1, n))
        IN /\ (cpu.fpu.sw \div 2 ^ 11) % 8 = cpu.fpu.top
           /\ (\A n \in 1 .. pc - 1 : Said(prog[n], before(n - 1))) =>
                 \/ View(cpu.fpu) = before(pc - 1)
                 \/ /\ cpu.reason = "floating_point_exception" /\ prog[pc].op \in {"fsincos", "fptan", "ffree"}
                    /\ View(cpu.fpu) = StackAfter(before(pc - 1), prog[pc])
(* n is v rounded to an integer: to nearest, down, up, or towards zero.    *)
Rounds(mode, n, v) ==
    CASE mode = 0 -> 2 * n - v \in -1..1 /\ (2 * n = v \/ n % 2 = 0)
      [] mode = 1 -> v - 2 * n \in 0..1
      [] mode = 2 -> 2 * n - v \in 0..1
      [] mode = 3 -> Magnitude(v) - 2 * Magnitude(n) \in 0..1 /\ n * v >= 0

(* Single instructions: FIST stores the integer the rounding mode asks     *)
(* for, or the most negative one with the invalid flag when there is none; *)
(* comparisons tell the four relations apart; an exception that stops the  *)
(* program is one the control word does not mask, and shows in the summary *)
(* bit.                                                                    *)
X87ResultsExact ==
    /\ Single({"fist", "fisttp"}) /\ ~x87_is_empty(start.fpu, 0) =>
          LET i == prog[1]
              v == x87_get(start.fpu, 0)
              n == AsInt(i.w, cpu.mem[memory_address(start, i)])
              mode == IF i.op = "fisttp" THEN 3 ELSE (start.fpu.cw \div 2 ^ 10) % 4
              limit == Modulus(i.w) \div 2
              fit == Finite(v) /\ \E m \in -limit .. limit - 1 : Rounds(mode, m, v)
          IN /\ IF fit THEN Rounds(mode, n, v) ELSE n = -limit
             /\ (cpu.fpu.sw % 2 = 1) = ~fit
    /\ Single({"fcom", "fcommem"}) =>
          LET i == prog[1]
              l == View(start.fpu)[0]
              r == IF i.op = "fcommem" THEN <<Pointed(i)>> ELSE View(start.fpu)[i.ops[2]]
              unordered == NaN \in {l[1], r[1]}
              c == <<FtwBit(cpu.fpu.sw, 8), FtwBit(cpu.fpu.sw, 10), FtwBit(cpu.fpu.sw, 14)>>
              e == <<cpu.flags.cf, cpu.flags.pf, cpu.flags.zf>>
          IN <<>> \notin {l, r} =>
               (IF i.eflags THEN e ELSE c) =
                  <<unordered \/ l[1] < r[1], unordered, unordered \/ l[1] = r[1]>>
    /\ cpu.reason = "floating_point_exception" =>
          FtwBit(cpu.fpu.sw, 7) /\ \E b \in 0..5 : FtwBit(cpu.fpu.sw, b) /\ ~FtwBit(cpu.fpu.cw, b)
X87Exact == X87StackExact /\ X87ResultsExact

(* Programs that undo themselves give back the registers, the tags and the *)
(* words: a load and a store of a number, an integer or decimal digits,    *)
(* two exchanges, FXSAVE and FXRSTOR, whatever ran in between, a move of   *)
(* an MMX register to a vector register and back. FSAVE and FRSTOR, and    *)
(* FNSTENV and FLDENV, do so only if TOP is 0 or all registers are alike;  *)
(* FLDENV refuses the control word a reset leaves.                         *)
X87RoundTrip ==
    Done /\ start.fpu # <<>> =>
        LET ops == [n \in DOMAIN prog |-> prog[n].op]
            first == prog[1]
            used == {p \in Registers : start.fpu.tags[p] # Empty}
            aligned == start.fpu.top = 0 \/ used \in {{}, Registers}
            same == cpu.fpu.top = start.fpu.top /\ View(cpu.fpu) = View(start.fpu)
            a == memory_address(start, first)
            last == CASE first.op = "fbld" -> BcdBytes [] first.w = 10 -> 1 [] OTHER -> 0
            words == <<cpu.fpu.cw, cpu.fpu.sw>> = <<start.fpu.cw, start.fpu.sw>>
        IN /\ ops \in {<<"fld", "fst">>, <<"fild", "fist">>, <<"fbld", "fbstp">>} /\ CanPush(start.fpu) =>
                 /\ same
                 /\ \A n \in 0..last : cpu.mem[memory_address(start, prog[2]) + n] = start.mem[a + n]
           /\ ops = <<"fxch", "fxch">> => same
           /\ ops = <<"movq2dq", "movdq2q">> => cpu.fpu.mmx = start.fpu.mmx /\ cpu.fpu.st = start.fpu.st
           /\ ops = <<"movdq2q", "movq2dq">> => \A b \in VectorBytes :
                 cpu.vec[first.src][b] = IF b \in 8..15 THEN 0 ELSE start.vec[first.src][b]
           /\ ops = <<"fxsave", "finit", "fxrstor">> =>
                 /\ same /\ cpu.fpu.tags = start.fpu.tags /\ cpu.fpu.sw = start.fpu.sw
                 /\ cpu.fpu.cw = Clear(start.fpu.cw, ReservedControl)
           /\ ops = <<"fsave", "frstor">> /\ aligned => same /\ words
           /\ ops = <<"fnstenv", "finit", "fldenv">> /\ aligned =>
                 /\ words /\ \A p \in Registers : (cpu.fpu.tags[p] = Empty) = (start.fpu.tags[p] = Empty)
=============================================================================
