--------------------------------- MODULE X87 ---------------------------------
(* The x87 register stack and the MMX registers (seven/types.hpp,          *)
(* seven/x87_helpers.hpp, handlers/mmx_x87.cpp and handlers/x87_*.cpp):    *)
(* TOP, the tags, the status and control words, the exceptions, and what   *)
(* every instruction does to them. The words keep the bits they have.      *)
(*                                                                         *)
(* Values: a Float80 is the number of halves it is worth, or NaN, or an    *)
(* infinity. Zero has no sign, there are no denormals, and the functions   *)
(* computed with libm are opaque. In memory each part the code stores by   *)
(* itself (a number, a word, the significand and the exponent of an 80-bit *)
(* number, two decimal digits) fills one address.                          *)
EXTENDS Alu, Bitwise

NaN == 2 ^ 14
Inf == 2 ^ 14 + 1
Finite(v) == v \notin {NaN, Inf, -Inf}
Magnitude(v) == IF v < 0 THEN -v ELSE v
Equal(a, b) == a = b /\ a # NaN

(* A number known only by the function and the arguments it comes from.    *)
Opaque(f, x, y) ==
    2 ^ 13 + ((32 * Magnitude(x) + Magnitude(y)) % (2 ^ 10))
           + 2 ^ 10 * (CASE f = "sin" -> 0 [] f = "cos" -> 1 [] f = "tan" -> 2 [] f = "atan2" -> 3
                         [] f = "exp2" -> 4 [] f = "log2" -> 5 [] f = "sqrt" -> 6 [] f = "quotient" -> 7)

Empty == 3

-----------------------------------------------------------------------------
(* CpuState: ST(i) is the register i places above TOP, which the status    *)
(* word repeats.                                                           *)
x87_phys_index(f, i) == (f.top + i) % 8
x87_is_empty(f, i) == f.tags[x87_phys_index(f, i)] = Empty
x87_get(f, i) == f.st[x87_phys_index(f, i)]
Tag(v) == IF v = 0 THEN 1 ELSE 0
x87_set(f, i, v) ==
    LET p == x87_phys_index(f, i) IN [f EXCEPT !.st[p] = v, !.tags[p] = Tag(v)]
x87_mark_empty(f, i) == [f EXCEPT !.tags[x87_phys_index(f, i)] = Empty]

x87_reset(f) ==
    [f EXCEPT !.st = [p \in Registers |-> 0], !.tags = [p \in Registers |-> Empty],
              !.top = 0, !.sw = 0, !.cw = \h37F]

Clear(word, bits) == word & (\hFFFF - bits)
set_x87_status_word(f, v) == [f EXCEPT !.sw = v, !.top = (v \div 2 ^ 11) % 8]
set_x87_top(f, t) == [f EXCEPT !.top = t % 8, !.sw = Clear(@, \h3800) + (t % 8) * 2 ^ 11]

CanPush(f) == f.tags[(f.top + 7) % 8] = Empty
x87_push(f, v) ==
    LET p == (f.top + 7) % 8 IN set_x87_top([f EXCEPT !.st[p] = v, !.tags[p] = Tag(v)], p)
(* Mutation: TOP moves, its copy in the status word does not.              *)
x87_popUnsynced(f) == [f EXCEPT !.tags[f.top] = Empty, !.top = (@ + 1) % 8]
x87_pop(f) == set_x87_top([f EXCEPT !.tags[f.top] = Empty], f.top + 1)
x87_swap(f, i) ==
    LET p == x87_phys_index(f, 0)
        q == x87_phys_index(f, i)
    IN [f EXCEPT !.st[p] = f.st[q], !.st[q] = f.st[p], !.tags[p] = f.tags[q], !.tags[q] = f.tags[p]]

mmx_set(f, m, v) == [f EXCEPT !.mmx[m % 8] = v, !.tags[m % 8] = 0]

-----------------------------------------------------------------------------
(* Exceptions: the flag is set, and the summary bit when it is not masked; *)
(* only then does the instruction fail.                                    *)
Invalid == \h1
ZeroDiv == \h4
Overflow == \h8
Underflow == \h10
Precision == \h20
StackFault == \h40
C1 == \h200

InFpu(s, f) == [s EXCEPT !.fpu = f]
WithStatus(s, v) == InFpu(s, set_x87_status_word(s.fpu, v))

x87_exceptions_masked(f, e) == Clear(e, f.cw) & \h3F = 0
x87_exception(s, e) ==
    LET masked == x87_exceptions_masked(s.fpu, e)
        r == WithStatus(s, s.fpu.sw | (e & \h7F) | (IF masked THEN 0 ELSE \h80))
    IN IF masked THEN r ELSE [r EXCEPT !.reason = "floating_point_exception", !.addr = s.rip]
Raised(s, e) == IF e = 0 THEN s ELSE x87_exception(s, e)

x87_stack_underflow(s) == x87_exception(WithStatus(s, Clear(s.fpu.sw, C1)), Invalid + StackFault)
x87_stack_overflow(s) == x87_exception(WithStatus(s, s.fpu.sw | C1), Invalid + StackFault)

Push(s, v) == IF CanPush(s.fpu) THEN InFpu(s, x87_push(s.fpu, v)) ELSE x87_stack_overflow(s)
Pop(s) == IF x87_is_empty(s.fpu, 0) THEN x87_stack_underflow(s) ELSE InFpu(s, x87_pop(s.fpu))
Put(s, k, v) == InFpu(s, x87_set(s.fpu, k, v))
ST(s, k) == x87_get(s.fpu, k)
AnyEmpty(s, ks) == \E k \in ks : x87_is_empty(s.fpu, k)

x87_classify_result(v) == IF v = NaN THEN Invalid ELSE IF Finite(v) THEN 0 ELSE Overflow

(* A result is exact when it is the sum, the difference, the product or    *)
(* the quotient of the operands, whichever was asked for.                  *)
x87_precision_from_binary(l, r, v) ==
    CASE \/ ~Finite(v) \/ 0 \in {l, r}
         \/ Finite(l) /\ Finite(r) /\ (v \in {l + r, l - r} \/ 2 * v = l * r \/ v * r = 2 * l \/ v * l = 2 * r) -> 0
      [] OTHER -> IF v = 0 THEN Underflow + Precision ELSE Precision

-----------------------------------------------------------------------------
(* Arithmetic on halves: exact, as long as products are whole halves and   *)
(* quotients whole halves or endless.                                      *)
Plus(a, b) ==
    CASE NaN \in {a, b} \/ (~Finite(a) /\ a = -b) -> NaN
      [] Finite(a) /\ Finite(b) -> a + b
      [] OTHER -> IF Finite(a) THEN b ELSE a
Opposite(a) == IF a = NaN THEN NaN ELSE -a
SignOf(a, b, m) == IF (a < 0) = (b < 0) THEN m ELSE -m
Times(a, b) ==
    CASE NaN \in {a, b} \/ (0 \in {a, b} /\ ~(Finite(a) /\ Finite(b))) -> NaN
      [] Finite(a) /\ Finite(b) -> SignOf(a, b, (Magnitude(a) * Magnitude(b)) \div 2)
      [] OTHER -> SignOf(a, b, Inf)
Over(a, b) ==
    CASE NaN \in {a, b} \/ ~(Finite(a) \/ Finite(b)) -> NaN
      [] Finite(a) /\ Finite(b) ->
            SignOf(a, b, IF (2 * Magnitude(a)) % Magnitude(b) = 0 THEN (2 * Magnitude(a)) \div Magnitude(b)
                         ELSE Opaque("quotient", a, b))
      [] OTHER -> IF Finite(a) THEN 0 ELSE SignOf(a, b, Inf)

floor(v) == IF Finite(v) THEN (v \div 2) * 2 ELSE v
ceil(v) == Opposite(floor(Opposite(v)))
trunc(v) == IF v < 0 THEN ceil(v) ELSE floor(v)
x87_round_half_even(v) == IF floor(v) = v \/ (floor(v) \div 2) % 2 = 0 THEN floor(v) ELSE floor(v) + 2

x87_round_to_control(f, v) ==
    LET rc == (f.cw \div 2 ^ 10) % 4
    IN CASE rc = 0 -> x87_round_half_even(v) [] rc = 1 -> floor(v) [] rc = 2 -> ceil(v) [] rc = 3 -> trunc(v)

fmod(a, b) ==
    IF ~Finite(a) \/ ~Finite(b) \/ b = 0 THEN NaN
    ELSE IF a < 0 THEN -(-a % Magnitude(b)) ELSE a % Magnitude(b)
remainder(a, b) ==
    IF NaN \in {a, b} \/ ~Finite(a) \/ b = 0 THEN NaN
    ELSE IF ~Finite(b) THEN a
    ELSE LET m == Magnitude(b)
             r == Magnitude(a) % m
             up == 2 * r > m \/ (2 * r = m /\ (Magnitude(a) \div m) % 2 = 1)
             rest == IF up THEN r - m ELSE r
         IN IF a < 0 THEN -rest ELSE rest

(* x87_div_pair: the quotient and the exceptions it reports itself.        *)
x87_div_pair(a, b) ==
    CASE b = 0 /\ a = 0 -> <<NaN, Invalid>>
      [] b = 0 /\ a # 0 -> <<IF a < 0 THEN -Inf ELSE Inf, ZeroDiv>>
      [] OTHER -> LET q == Over(a, b)
                  IN <<q, (IF q = 0 /\ a # 0 THEN Underflow ELSE 0)
                          | (IF Equal(Times(q, b), a) THEN 0 ELSE Precision)>>
Apply(fn, a, b) ==
    CASE fn = "add" -> <<Plus(a, b), 0>>            [] fn = "mul" -> <<Times(a, b), 0>>
      [] fn = "sub" -> <<Plus(a, Opposite(b)), 0>>    [] fn = "subr" -> <<Plus(b, Opposite(a)), 0>>
      [] fn = "div" -> x87_div_pair(a, b)           [] fn = "divr" -> x87_div_pair(b, a)
      [] fn = "prem" -> <<fmod(a, b), 0>>           [] fn = "prem1" -> <<remainder(a, b), 0>>

(* libm, exact where the result is a number of halves.                     *)
Root(v) == IF \E r \in 0..v : r * r = 2 * v THEN CHOOSE r \in 0..v : r * r = 2 * v ELSE Opaque("sqrt", v, 0)
Libm(f, x, y) ==
    IF NaN \in {x, y} THEN NaN ELSE
    CASE f \in {"sin", "cos", "tan"} /\ ~Finite(x) -> NaN
      [] f \in {"sqrt", "log2"} /\ x = Inf -> Inf
      [] f \in {"sin", "tan"} /\ x = 0 -> 0
      [] f = "cos" /\ x = 0 -> 2
      [] f = "exp2" /\ x = 0 -> 2
      [] f = "log2" /\ x = 2 -> 0
      [] f = "atan2" /\ x = 0 /\ y > 0 -> 0
      [] f = "sqrt" /\ x # Inf -> Root(x)
      [] OTHER -> Opaque(f, x, y)
=============================================================================
