----------------------------- MODULE SimdShuffle -----------------------------
(* The instructions that move lanes about: packing and interleaving        *)
(* (handlers/arithmetic/simd_pack.cpp), shuffles (simd_shuffle.cpp), moves *)
(* between vector registers, general registers and memory                  *)
(* (handlers/simd_mov.cpp), and the string comparisons of SSE4.2. None of  *)
(* them looks at the opmask.                                               *)
EXTENDS Simd
LOCAL INSTANCE FiniteSetsExt

(* Both sources, and a result for each 16-byte block of them.              *)
LegacyBlocks(s, i, Compute(_, _)) ==
    With(s, simd_operand(s, i, i.src, i.vl), LAMBDA rhs :
        write_vec(s, i.dst, Compute(read_vec(s, i.dst, i.vl), rhs), i.vl, FALSE))
VexBlocks(s, i, Compute(_, _)) ==
    With(s, simd_operand(s, i, i.src, i.vl), LAMBDA lhs :
        With(s, simd_operand(s, i, i.count, i.vl), LAMBDA rhs :
            write_vec(s, i.dst, Compute(lhs, rhs), i.vl, TRUE)))
Block(b) == b - (b % XmmBytes)

-----------------------------------------------------------------------------
(* Packing: lanes of i.w bytes saturated to half their width, the first    *)
(* source's in the lower half of a block.                                  *)
sat_pack_signed(w, v) ==
    CASE v > MaxSigned(w) -> MaxSigned(w) [] v < MinSigned(w) -> MinSigned(w) [] OTHER -> v
sat_pack_unsigned(w, v) ==
    CASE v < 0 -> 0 [] v > all_ones(w) -> all_ones(w) [] OTHER -> v

(* Mutation: the sources follow each other over the whole register.        *)
pack_lane_pairFlat(i, lhs, rhs) ==
    LET h == i.w \div 2
        n == i.vl \div 2
        from(l) == IF l * h < n THEN lane_load(lhs, l * i.w, i.w) ELSE lane_load(rhs, (l * h - n) * 2, i.w)
    IN lane_store(i.vl, h, [l \in LaneIndexes(i.vl, h) |->
        LET v == Signed(Modulus(i.w), from(l))
        IN Truncate(h, IF i.op = "packss" THEN sat_pack_signed(h, v) ELSE sat_pack_unsigned(h, v))])

pack_lane_pair(i, lhs, rhs) ==
    LET h == i.w \div 2
        from(l) == LET offset == (l * h) % XmmBytes
                       half == XmmBytes \div 2
                   IN IF offset < half THEN lane_load(lhs, Block(l * h) + 2 * offset, i.w)
                                       ELSE lane_load(rhs, Block(l * h) + 2 * (offset - half), i.w)
    IN lane_store(i.vl, h, [l \in LaneIndexes(i.vl, h) |->
        LET v == Signed(Modulus(i.w), from(l))
        IN Truncate(h, IF i.op = "packss" THEN sat_pack_signed(h, v) ELSE sat_pack_unsigned(h, v))])
legacy_pack(s, i) == LegacyBlocks(s, i, LAMBDA l, r : pack_lane_pair(i, l, r))
vex_pack(s, i) == VexBlocks(s, i, LAMBDA l, r : pack_lane_pair(i, l, r))

(* Interleaving the lower or the upper halves of the blocks.               *)
Interleave(i, lhs, rhs) ==
    [b \in 0..i.vl-1 |->
        LET lane == (b % XmmBytes) \div i.w
            half == IF i.op = "punpckh" THEN XmmBytes \div 2 ELSE 0
            from == Block(b) + half + (lane \div 2) * i.w + (b % i.w)
        IN IF lane % 2 = 0 THEN lhs[from] ELSE rhs[from]]
legacy_unpack(s, i) == LegacyBlocks(s, i, LAMBDA l, r : Interleave(i, l, r))
vex_unpack(s, i) == VexBlocks(s, i, LAMBDA l, r : Interleave(i, l, r))

-----------------------------------------------------------------------------
(* Shuffles. Field k of the immediate has two bits, or one for SHUFPD,     *)
(* which gives every block the same two bits.                              *)
ImmField(imm, bits, k) == (imm \div 2 ^ (bits * k)) % 2 ^ bits

(* <<source, lane>> that lane l of a block comes from.                     *)
Binary2(i, l) ==
    CASE i.op = "unpckl" -> <<l % 2, l \div 2>>
      [] i.op = "unpckh" -> <<l % 2, (XmmBytes \div i.w) \div 2 + l \div 2>>
      [] i.op = "shufps" -> <<l \div 2, ImmField(i.imm, 2, l)>>
      [] i.op = "shufpd" -> <<l, ImmField(i.imm, 1, l)>>
Unary1(i, l) ==
    CASE i.op = "pshufd" -> ImmField(i.imm, 2, l)
      [] i.op = "pshuflw" -> IF l < 4 THEN ImmField(i.imm, 2, l) ELSE l
      [] i.op = "pshufhw" -> IF l < 4 THEN l ELSE 4 + ImmField(i.imm, 2, l - 4)
      [] i.op = "movsldup" -> 2 * (l \div 2)
      [] i.op = "movshdup" -> 2 * (l \div 2) + 1
      [] i.op = "movddup" -> 0

LaneOf(b, w) == (b % XmmBytes) \div w
binary_lanewise(i, lhs, rhs) ==
    [b \in 0..i.vl-1 |->
        LET p == Binary2(i, LaneOf(b, i.w))
            from == Block(b) + p[2] * i.w + (b % i.w)
        IN IF p[1] = 0 THEN lhs[from] ELSE rhs[from]]
unary_lanewise(i, v) ==
    [b \in 0..i.vl-1 |-> v[Block(b) + Unary1(i, LaneOf(b, i.w)) * i.w + (b % i.w)]]

legacy_binary_lanewise(s, i) == LegacyBlocks(s, i, LAMBDA l, r : binary_lanewise(i, l, r))
vex_binary_lanewise(s, i) == VexBlocks(s, i, LAMBDA l, r : binary_lanewise(i, l, r))
legacy_unary_lanewise(s, i) ==
    With(s, simd_operand(s, i, i.src, i.vl), LAMBDA v : write_vec(s, i.dst, unary_lanewise(i, v), i.vl, FALSE))
vex_unary_lanewise(s, i) ==
    With(s, simd_operand(s, i, i.src, i.vl), LAMBDA v : write_vec(s, i.dst, unary_lanewise(i, v), i.vl, TRUE))
duplicate_low_double(s, i) ==
    With(s, simd_operand(s, i, i.src, 8), LAMBDA v :
        write_vec(s, i.dst, [b \in 0..i.vl-1 |-> v[b % 8]], i.vl, i.enc # "legacy"))

-----------------------------------------------------------------------------
(* Moves. A store goes page by page: the bytes before the first one that   *)
(* may not be written are in memory when it fails.                         *)
write_mem(s, a, v, n) ==
    LET ok(b) == CanStore(s, a + b, 1)
        done == {b \in 0..n-1 : \A c \in 0..b : ok(c)}
        stored == [s EXCEPT !.mem = [x \in Addresses |-> IF x - a \in done THEN v[x - a] ELSE @[x]]]
    IN IF done = 0..n-1 THEN stored ELSE memory_fault(stored, a)

read_any(s, i, o, n) ==
    CASE o \in VectorRegs -> Got(read_vec(s, o, n))
      [] o \in Gprs -> Got([b \in 0..n-1 |-> (s.gpr[o] \div Modulus(b)) % Modulus(1)])
      [] o = "mem" -> read_mem(s, memory_address(s, i), n)
write_any(s, i, o, v, n, zero_upper) ==
    CASE o \in VectorRegs -> write_vec(s, o, v, n, zero_upper)
      [] o \in Gprs -> write_register(s, o, lane_load(v, 0, n), n)
      [] o = "mem" -> write_mem(s, memory_address(s, i), v, n)

Move(s, i, n, zero_upper) ==
    With(s, read_any(s, i, i.src, n), LAMBDA v : write_any(s, i, i.dst, v, n, zero_upper))

(* MOVAPS, MOVDQU and their kin; MOVLPS, MOVQ; MOVSS and MOVSD, which      *)
(* clear the register only when they load; MOVD and MOVQ to and from       *)
(* general registers.                                                      *)
full_move(s, i) == Move(s, i, i.vl, i.enc # "legacy")
low_move(s, i) == Move(s, i, i.w, i.op = "movq" \/ i.enc # "legacy")
low_move_legacy_scalar_load(s, i) == Move(s, i, i.w, i.src = "mem")
gpr_to_xmm(s, i) == Move(s, i, i.w, TRUE)
xmm_to_gpr(s, i) == Move(s, i, i.w, FALSE)

(* The rest of the destination comes from the first source (i.src).        *)
merge_low_move(s, i) ==
    With(s, read_any(s, i, i.count, i.w), LAMBDA v :
        write_vec(s, i.dst, [b \in 0..i.vl-1 |-> IF b < i.w THEN v[b] ELSE s.vec[i.src][b]], i.vl, TRUE))
merge_high_move(s, i) ==
    With(s, read_any(s, i, i.count, i.w), LAMBDA v :
        write_vec(s, i.dst, [b \in 0..i.vl-1 |-> IF b \in i.w .. 2*i.w-1 THEN v[b - i.w] ELSE s.vec[i.src][b]],
                  i.vl, TRUE))

(* Two halves of eight bytes.                                              *)
Halves(low, high) == [b \in 0..XmmBytes-1 |-> IF b < 8 THEN low[b] ELSE high[b - 8]]
Half(s, r, k) == [b \in 0..7 |-> s.vec[r][8 * k + b]]
high_lane_to_gpr(s, i) == write_any(s, i, i.dst, Half(s, i.src, 1), 8, FALSE)
movlhps_legacy(s, i) == write_vec(s, i.dst, Halves(Half(s, i.dst, 0), Half(s, i.src, 0)), XmmBytes, FALSE)
movhlps_legacy(s, i) == write_vec(s, i.dst, Halves(Half(s, i.src, 1), Half(s, i.dst, 1)), XmmBytes, FALSE)
vmovlhps(s, i) == write_vec(s, i.dst, Halves(Half(s, i.src, 0), Half(s, i.count, 0)), XmmBytes, TRUE)
vmovhlps(s, i) == write_vec(s, i.dst, Halves(Half(s, i.count, 1), Half(s, i.src, 1)), XmmBytes, TRUE)

pextrw_to_gpr_or_mem(s, i) ==
    LET word == [b \in 0..1 |-> s.vec[i.src][2 * (i.imm % 8) + b]]
    IN IF i.dst = "mem" THEN write_mem(s, memory_address(s, i), word, 2)
       ELSE write_register(s, i.dst, lane_load(word, 0, 2), i.w)

-----------------------------------------------------------------------------
(* PCMPISTRI, PCMPISTRM, PCMPESTRI, PCMPESTRM. The bits of the immediate:  *)
(* words instead of bytes, signed, aggregation (2), polarity (2), last     *)
(* instead of first (or a mask of lanes instead of bits). A result is the  *)
(* set of its positions.                                                   *)
pcmp_element_width(imm) == IF Bit(1, imm) THEN 2 ELSE 1
pcmp_element_count(imm) == XmmBytes \div pcmp_element_width(imm)
pcmp_extract_source(v, imm) ==
    LET w == pcmp_element_width(imm)
    IN [k \in 0..pcmp_element_count(imm)-1 |->
            LET raw == lane_load(v, k * w, w) IN IF Bit(2, imm) THEN Signed(Modulus(w), raw) ELSE raw]

(* Mutation: a negative length counts as none.                             *)
pcmp_explicit_lengthNoSign(raw, count) ==
    LET l == Signed(Modulus(4), Truncate(4, raw)) IN IF l < 0 THEN 0 ELSE IF l < count THEN l ELSE count

pcmp_explicit_length(raw, count) ==
    LET l == Signed(Modulus(4), Truncate(4, raw))
        magnitude == IF l < 0 THEN -l ELSE l
    IN IF magnitude < count THEN magnitude ELSE count
pcmp_implicit_length(v, count) ==
    CHOOSE n \in 0..count : (n = count \/ v[n] = 0) /\ \A k \in 0..n-1 : v[k] # 0

pcmp_equal_any(lhs, rhs, len1, len2) ==
    {j \in 0..len2-1 : \E k \in 0..len1-1 : lhs[k] = rhs[j]}
pcmp_ranges(lhs, rhs, len1, len2) ==
    {j \in 0..len2-1 : \E k \in 0..len1-2 : k % 2 = 0 /\ lhs[k] <= rhs[j] /\ rhs[j] <= lhs[k + 1]}
pcmp_equal_each(lhs, rhs, len1, len2, count) ==
    {k \in 0..count-1 : IF k < len1 /\ k < len2 THEN lhs[k] = rhs[k] ELSE k >= len1 /\ k >= len2}
pcmp_equal_ordered(lhs, rhs, len1, len2, count) ==
    {j \in 0..count-1 : \A k \in 0..len1-1 : j + k < len2 /\ lhs[k] = rhs[j + k]}

pcmp_apply_polarity(imm, res, len2, count) ==
    CASE ImmField(imm, 2, 2) \in {0, 2} -> res
      [] ImmField(imm, 2, 2) = 1 -> (0..count-1) \ res
      [] ImmField(imm, 2, 2) = 3 -> ((0..len2-1) \ res) \cup (res \ (0..len2-1))

set_pcmpstr_flags(s, res, len1, len2, count) ==
    [s EXCEPT !.flags = [cf |-> res # {}, pf |-> FALSE, af |-> FALSE,
                         zf |-> len2 < count, sf |-> len1 < count, of |-> 0 \in res]]

(* The first string is register i.dst, the second operand i.src.           *)
pcmpstr(s, i) ==
    With(s, simd_operand(s, i, i.src, XmmBytes), LAMBDA bytes :
        LET count == pcmp_element_count(i.imm)
            w == pcmp_element_width(i.imm)
            lhs == pcmp_extract_source(s.vec[i.dst], i.imm)
            rhs == pcmp_extract_source(bytes, i.imm)
            explicit == i.op \in {"pcmpestri", "pcmpestrm"}
            len1 == IF explicit THEN pcmp_explicit_length(s.gpr["ax"], count) ELSE pcmp_implicit_length(lhs, count)
            len2 == IF explicit THEN pcmp_explicit_length(s.gpr["dx"], count) ELSE pcmp_implicit_length(rhs, count)
            intres1 == CASE ImmField(i.imm, 2, 1) = 0 -> pcmp_equal_any(lhs, rhs, len1, len2)
                         [] ImmField(i.imm, 2, 1) = 1 -> pcmp_ranges(lhs, rhs, len1, len2)
                         [] ImmField(i.imm, 2, 1) = 2 -> pcmp_equal_each(lhs, rhs, len1, len2, count)
                         [] ImmField(i.imm, 2, 1) = 3 -> pcmp_equal_ordered(lhs, rhs, len1, len2, count)
            res == pcmp_apply_polarity(i.imm, intres1, len2, count)
            t == set_pcmpstr_flags(s, res, len1, len2, count)
            lanes == [k \in 0..count-1 |-> IF k \in res THEN all_ones(w) ELSE 0]
            bits == [b \in 0..XmmBytes-1 |->
                        MapThenSumSet(LAMBDA k : 2 ^ k, {k \in 0..ByteBits-1 : b * ByteBits + k \in res})]
            last == Bit(64, i.imm)
        IN CASE i.op \in {"pcmpistrm", "pcmpestrm"} ->
                    write_vec(t, "x0", IF last THEN lane_store(XmmBytes, w, lanes) ELSE bits, XmmBytes, FALSE)
             [] OTHER -> write_register(t, "cx", IF res = {} THEN count
                                                 ELSE IF last THEN Max(res) ELSE Min(res), 4))
=============================================================================
