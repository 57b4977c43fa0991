--------------------------------- MODULE Simd --------------------------------
(* The packed integer instructions (handlers/arithmetic/simd_int.cpp). A   *)
(* register is 64 bytes, of which an instruction names the first i.vl: 16, *)
(* 32 or 64. i.w is the width of a lane. A legacy instruction takes its    *)
(* first source from the destination (i.dst) and its second from i.src,    *)
(* and keeps the bytes past i.vl; a VEX or EVEX instruction takes i.src    *)
(* and i.count and clears them. Memory keeps one byte of a vector at each  *)
(* address.                                                                *)
EXTENDS BitOps

XmmBytes == 16

(* Big-endian order would show here: byte k of a lane has weight 256^k.    *)
lane_load(v, offset, w) ==
    LET sum[k \in 0..w] == IF k = 0 THEN 0 ELSE sum[k - 1] + v[offset + k - 1] * Modulus(k - 1)
    IN sum[w]

(* lane_store of lanes[0], lanes[1], ... into an empty vector of n bytes.  *)
lane_store(n, w, lanes) ==
    [b \in 0..n-1 |-> (lanes[b \div w] \div Modulus(b % w)) % Modulus(1)]

LaneIndexes(n, w) == 0 .. (n \div w) - 1

-----------------------------------------------------------------------------
(* Registers and operands.                                                 *)
read_vec(s, r, n) == [b \in 0..n-1 |-> s.vec[r][b]]

write_vec(s, r, v, n, zero_upper) ==
    [s EXCEPT !.vec[r] = [b \in VectorBytes |-> IF b < n THEN v[b] ELSE IF zero_upper THEN 0 ELSE @[b]]]

(* A failed access reports the first byte of the operand, whichever byte   *)
(* is missing.                                                             *)
read_mem(s, a, n) ==
    IF \A b \in 0..n-1 : CanLoad(s, a + b, 1) THEN Got([b \in 0..n-1 |-> s.mem[a + b]])
    ELSE [reason |-> "page_fault", addr |-> a, v |-> 0]

(* With a broadcast, one lane is read and repeated.                        *)
simd_operand(s, i, o, n) ==
    CASE o \in VectorRegs -> Got(read_vec(s, o, n))
      [] o = "mem" /\ i.broadcast ->
            LET element == read_mem(s, memory_address(s, i), i.w)
            IN IF element.reason # "none" THEN element ELSE Got([b \in 0..n-1 |-> element.v[b % i.w]])
      [] o = "mem" /\ ~i.broadcast -> read_mem(s, memory_address(s, i), n)

(* i.mask is "none" (also K0) or "k1"; s.opmask holds the active lanes.    *)
(* Mutation: inactive lanes are cleared whether the instruction asks for   *)
(* it or not.                                                              *)
apply_masked_lanesZeroing(s, i, computed) ==
    IF i.mask = "none" THEN computed
    ELSE [b \in 0..i.vl-1 |-> IF b \div i.w \in s.opmask THEN computed[b] ELSE 0]

apply_masked_lanes(s, i, computed) ==
    IF i.mask = "none" THEN computed
    ELSE [b \in 0..i.vl-1 |-> CASE b \div i.w \in s.opmask -> computed[b]
                                [] b \div i.w \notin s.opmask /\ i.zeroing -> 0
                                [] OTHER -> s.vec[i.dst][b]]

-----------------------------------------------------------------------------
(* One lane. Signed operands are static_cast to intN_t by the caller.      *)
MaxSigned(w) == Modulus(w) \div 2 - 1
MinSigned(w) == -(Modulus(w) \div 2)
all_ones(w) == Modulus(w) - 1

sat_add_unsigned(w, lhs, rhs) ==
    IF all_ones(w) - lhs < rhs THEN all_ones(w) ELSE lhs + rhs
sat_sub_unsigned(w, lhs, rhs) == IF lhs < rhs THEN 0 ELSE lhs - rhs

sat_add_signed(w, lhs, rhs) ==
    CASE rhs > 0 /\ lhs > MaxSigned(w) - rhs -> MaxSigned(w)
      [] rhs < 0 /\ lhs < MinSigned(w) - rhs -> MinSigned(w)
      [] OTHER -> lhs + rhs
sat_sub_signed(w, lhs, rhs) ==
    CASE rhs > 0 /\ lhs < MinSigned(w) + rhs -> MinSigned(w)
      [] rhs < 0 /\ lhs > MaxSigned(w) + rhs -> MaxSigned(w)
      [] OTHER -> lhs - rhs

avg_unsigned(lhs, rhs) == (lhs + rhs + 1) \div 2
AllOnesIf(w, bool) == IF bool THEN all_ones(w) ELSE 0

(* The functions handed to legacy_binary, vex_binary and the compare forms.*)
LaneFunction(op, w, a, b) ==
    LET x == Signed(Modulus(w), a)
        y == Signed(Modulus(w), b)
    IN Truncate(w, CASE op = "padd" -> a + b
                     [] op = "psub" -> a - b
                     [] op = "paddus" -> sat_add_unsigned(w, a, b)
                     [] op = "psubus" -> sat_sub_unsigned(w, a, b)
                     [] op = "padds" -> sat_add_signed(w, x, y)
                     [] op = "psubs" -> sat_sub_signed(w, x, y)
                     [] op = "pavg" -> avg_unsigned(a, b)
                     [] op = "pmull" -> x * y
                     [] op = "pmulh" -> (x * y) \div Modulus(w)
                     [] op = "pmulhu" -> (a * b) \div Modulus(w)
                     [] op = "pmaxu" -> IF a < b THEN b ELSE a
                     [] op = "pmins" -> IF y < x THEN b ELSE a
                     [] op = "pcmpeq" -> AllOnesIf(w, a = b)
                     [] op = "pcmpgt" -> AllOnesIf(w, x > y))

LaneWise(i, lhs, rhs) ==
    lane_store(i.vl, i.w, [l \in LaneIndexes(i.vl, i.w) |->
        LaneFunction(i.op, i.w, lane_load(lhs, l * i.w, i.w), lane_load(rhs, l * i.w, i.w))])

-----------------------------------------------------------------------------
(* The shapes of an instruction: where the sources come from and what      *)
(* happens to the rest of the destination.                                 *)
Legacy(s, i, Compute(_, _)) ==
    With(s, simd_operand(s, i, i.src, i.vl), LAMBDA rhs :
        write_vec(s, i.dst, Compute(read_vec(s, i.dst, i.vl), rhs), i.vl, FALSE))
Vex(s, i, Compute(_, _)) ==
    With(s, simd_operand(s, i, i.src, i.vl), LAMBDA lhs :
        With(s, simd_operand(s, i, i.count, i.vl), LAMBDA rhs :
            write_vec(s, i.dst, apply_masked_lanes(s, i, Compute(lhs, rhs)), i.vl, TRUE)))

legacy_binary(s, i) == Legacy(s, i, LAMBDA l, r : LaneWise(i, l, r))
legacy_compare(s, i) == Legacy(s, i, LAMBDA l, r : LaneWise(i, l, r))
vex_binary(s, i) == Vex(s, i, LAMBDA l, r : LaneWise(i, l, r))
vex_compare(s, i) == Vex(s, i, LAMBDA l, r : LaneWise(i, l, r))

(* PMULUDQ multiplies the low half of every 8-byte lane, PMADDWD adds the  *)
(* products of neighbouring words, PSADBW sums differences of bytes.       *)
PMULUDQ(n, l, r) == lane_store(n, 8, [k \in LaneIndexes(n, 8) |->
    lane_load(l, 8 * k, 4) * lane_load(r, 8 * k, 4)])
PMADDWD(n, l, r) ==
    LET word(v, offset) == Signed(Modulus(2), lane_load(v, offset, 2))
    IN lane_store(n, 4, [k \in LaneIndexes(n, 4) |->
        Truncate(4, word(l, 4 * k) * word(r, 4 * k) + word(l, 4 * k + 2) * word(r, 4 * k + 2))])
PSADBW(n, l, r) ==
    LET gap(b) == IF l[b] > r[b] THEN l[b] - r[b] ELSE r[b] - l[b]
        sum(k) == LET upto[j \in 0..8] == IF j = 0 THEN 0 ELSE upto[j - 1] + gap(8 * k + j - 1) IN upto[8]
    IN lane_store(n, 8, [k \in LaneIndexes(n, 8) |-> sum(k)])
legacy_custom_binary(s, i) == Legacy(s, i, LAMBDA l, r :
    CASE i.op = "pmuludq" -> PMULUDQ(i.vl, l, r)
      [] i.op = "pmaddwd" -> PMADDWD(i.vl, l, r)
      [] i.op = "psadbw" -> PSADBW(i.vl, l, r))

BitwiseBytes(op, l, r) ==
    [b \in DOMAIN l |-> CASE op = "pand" -> l[b] & r[b]
                          [] op = "pandn" -> (all_ones(1) - l[b]) & r[b]
                          [] op = "por" -> l[b] | r[b]
                          [] op = "pxor" -> l[b] ^^ r[b]]
legacy_bitwise(s, i) == Legacy(s, i, LAMBDA l, r : BitwiseBytes(i.op, l, r))
vex_bitwise(s, i) == Vex(s, i, LAMBDA l, r : BitwiseBytes(i.op, l, r))

-----------------------------------------------------------------------------
(* Shifts. The count is a whole 8-byte lane, or an immediate.              *)
(* Mutation: the count is cut to its low byte before it is compared.       *)
shift_left_laneByteCount(w, value, count) ==
    IF count % Modulus(1) >= Bits(w) THEN 0 ELSE Truncate(w, value * 2 ^ (count % Modulus(1)))

shift_left_lane(w, value, count) ==
    IF count >= Bits(w) THEN 0 ELSE (value % 2 ^ (Bits(w) - count)) * 2 ^ count
shift_right_logical_lane(w, value, count) ==
    IF count >= Bits(w) THEN 0 ELSE value \div 2 ^ count
shift_right_arithmetic_lane(w, value, count) ==
    IF count >= Bits(w) THEN (IF value < 0 THEN -1 ELSE 0) ELSE value \div 2 ^ count

ShiftLanes(i, v, count) ==
    lane_store(i.vl, i.w, [l \in LaneIndexes(i.vl, i.w) |->
        LET a == lane_load(v, l * i.w, i.w)
        IN CASE i.op = "psll" -> shift_left_lane(i.w, a, count)
             [] i.op = "psrl" -> shift_right_logical_lane(i.w, a, count)
             [] i.op = "psra" -> Truncate(i.w, shift_right_arithmetic_lane(i.w, Signed(Modulus(i.w), a), count))])

legacy_shift_reg(s, i) ==
    With(s, simd_operand(s, i, i.src, i.vl), LAMBDA count :
        write_vec(s, i.dst, ShiftLanes(i, read_vec(s, i.dst, i.vl), lane_load(count, 0, 8)), i.vl, FALSE))
legacy_shift_imm(s, i) ==
    write_vec(s, i.dst, ShiftLanes(i, read_vec(s, i.dst, i.vl), i.imm), i.vl, FALSE)
vex_shift_imm(s, i) ==
    With(s, simd_operand(s, i, i.src, i.vl), LAMBDA v :
        write_vec(s, i.dst, apply_masked_lanes(s, i, ShiftLanes(i, v, i.imm)), i.vl, TRUE))
vex_shift_reg(s, i) ==
    With(s, simd_operand(s, i, i.count, 8), LAMBDA count :
        LET v == ShiftLanes(i, read_vec(s, i.src, i.vl), lane_load(count, 0, 8))
        IN write_vec(s, i.dst, apply_masked_lanes(s, i, v), i.vl, TRUE))

(* Whole bytes move within each 16-byte block.                             *)
ShiftBlocks(i, v) ==
    [b \in 0..i.vl-1 |->
        LET from == IF i.op = "psrldq" THEN (b % XmmBytes) + i.imm ELSE (b % XmmBytes) - i.imm
        IN IF i.imm < XmmBytes /\ from \in 0..XmmBytes-1 THEN v[b - (b % XmmBytes) + from] ELSE 0]
legacy_shift_dq_imm(s, i) == write_vec(s, i.dst, ShiftBlocks(i, read_vec(s, i.dst, i.vl)), i.vl, FALSE)
vex_shift_dq_imm(s, i) ==
    With(s, simd_operand(s, i, i.src, i.vl), LAMBDA v : write_vec(s, i.dst, ShiftBlocks(i, v), i.vl, TRUE))
=============================================================================
