------------------------------- MODULE Vectors -------------------------------
(* Which vector instructions there are: the encodings that have a handler  *)
(* (the KUBERA_ macros and handle_code_ functions of the SIMD sources) and *)
(* are listed in handled_codes.def, and the lane results said with         *)
(* integers and bits.                                                      *)
EXTENDS SimdShuffle

CompareOps == {"pcmpeq", "pcmpgt"}
LaneOps == {"padd", "psub", "paddus", "psubus", "padds", "psubs", "pavg", "pmull", "pmulh", "pmulhu", "pmaxu", "pmins"}
WideOps == {"pmuludq", "pmaddwd", "psadbw"}
BitwiseOps == {"pand", "pandn", "por", "pxor"}
ShiftOps == {"psll", "psrl", "psra"}
BlockShiftOps == {"pslldq", "psrldq"}
PackOps == {"packss", "packus"}
UnpackOps == {"punpckl", "punpckh"}
PairShuffles == {"unpckl", "unpckh", "shufps", "shufpd"}
LaneShuffles == {"pshufd", "pshuflw", "pshufhw", "movsldup", "movshdup"}
StringCompares == {"pcmpistri", "pcmpistrm", "pcmpestri", "pcmpestrm"}
MoveOps == {"movdqu", "movss", "movq", "movlps", "movd", "movd_store", "movlhps", "movhlps", "movhps_store",
            "vmovss_reg", "vmovhps", "pextrw"}
VectorOps == CompareOps \cup LaneOps \cup WideOps \cup BitwiseOps \cup ShiftOps \cup BlockShiftOps \cup PackOps
             \cup UnpackOps \cup PairShuffles \cup LaneShuffles \cup {"movddup"} \cup StringCompares \cup MoveOps

-----------------------------------------------------------------------------
(* Packed integers: all of them in the legacy encoding; VEX and EVEX have  *)
(* no PMULH, PMAX, PMIN and no sums of products.                           *)
LegacyInteger(s, i) ==
    CASE i.op \in LaneOps -> legacy_binary(s, i)
      [] i.op \in CompareOps -> legacy_compare(s, i)
      [] i.op \in WideOps -> legacy_custom_binary(s, i)
      [] i.op \in BitwiseOps -> legacy_bitwise(s, i)
      [] i.op \in ShiftOps /\ i.src # "imm" -> legacy_shift_reg(s, i)
      [] i.op \in ShiftOps /\ i.src = "imm" -> legacy_shift_imm(s, i)
      [] i.op \in BlockShiftOps -> legacy_shift_dq_imm(s, i)
VexInteger(s, i) ==
    CASE i.op \in LaneOps -> vex_binary(s, i)
      [] i.op \in CompareOps -> vex_compare(s, i)
      [] i.op \in BitwiseOps -> vex_bitwise(s, i)
      [] i.op \in ShiftOps /\ i.count # "imm" -> vex_shift_reg(s, i)
      [] i.op \in ShiftOps /\ i.count = "imm" -> vex_shift_imm(s, i)
      [] i.op \in BlockShiftOps -> vex_shift_dq_imm(s, i)

(* The EVEX comparisons of the source are not listed: no code reaches them.*)
EvexInteger(s, i) ==
    CASE i.op \in LaneOps -> vex_binary(s, i)
      [] i.op \in BitwiseOps -> vex_bitwise(s, i)
      [] i.op \in ShiftOps /\ i.count # "imm" -> vex_shift_reg(s, i)
      [] i.op \in ShiftOps /\ i.count = "imm" -> vex_shift_imm(s, i)

LegacyPack(s, i) == IF i.op \in PackOps THEN legacy_pack(s, i) ELSE legacy_unpack(s, i)
VexPack(s, i) == IF i.op \in PackOps THEN vex_pack(s, i) ELSE vex_unpack(s, i)

(* EVEX lists no VPACKSSDW and no interleaving of four bytes. The opmask   *)
(* of the instruction is not looked at.                                    *)
EvexPack(s, i) ==
    CASE i.op \in PackOps /\ i.w = 2 -> vex_pack(s, i)
      [] i.op \in UnpackOps /\ i.w \in {1, 2} -> vex_unpack(s, i)

LegacyShuffle(s, i) ==
    CASE i.op \in PairShuffles -> legacy_binary_lanewise(s, i)
      [] i.op \in LaneShuffles -> legacy_unary_lanewise(s, i)
      [] i.op = "movddup" -> duplicate_low_double(s, i)

(* The VEX and EVEX forms of SHUFPS and SHUFPD and the EVEX shuffles are   *)
(* not listed either, and there is no VPSHUF.                              *)
VexShuffle(s, i) ==
    CASE i.op \in {"unpckl", "unpckh"} -> vex_binary_lanewise(s, i)
      [] i.op \in {"movsldup", "movshdup"} -> vex_unary_lanewise(s, i)
      [] i.op = "movddup" -> IF i.vl = XmmBytes THEN duplicate_low_double(s, i) ELSE vex_unary_lanewise(s, i)

MoveHandler(s, i) ==
    CASE i.op = "movdqu" -> full_move(s, i)
      [] i.op = "movss" -> IF i.enc = "legacy" /\ i.dst # "mem" THEN low_move_legacy_scalar_load(s, i)
                                                                ELSE low_move(s, i)
      [] i.op \in {"movq", "movlps"} -> low_move(s, i)
      [] i.op = "movd" -> gpr_to_xmm(s, i)
      [] i.op = "movd_store" -> xmm_to_gpr(s, i)
      [] i.op = "movlhps" -> IF i.enc = "legacy" THEN movlhps_legacy(s, i) ELSE vmovlhps(s, i)
      [] i.op = "movhlps" -> IF i.enc = "legacy" THEN movhlps_legacy(s, i) ELSE vmovhlps(s, i)
      [] i.op = "movhps_store" -> high_lane_to_gpr(s, i)
      [] i.op = "vmovss_reg" -> merge_low_move(s, i)
      [] i.op = "vmovhps" -> merge_high_move(s, i)
      [] i.op = "pextrw" -> pextrw_to_gpr_or_mem(s, i)

VectorHandler(s, i) ==
    CASE i.op \in CompareOps \cup LaneOps \cup WideOps \cup BitwiseOps \cup ShiftOps \cup BlockShiftOps ->
            (CASE i.enc = "legacy" -> LegacyInteger(s, i)
               [] i.enc = "vex" -> VexInteger(s, i)
               [] i.enc = "evex" -> EvexInteger(s, i))
      [] i.op \in PackOps \cup UnpackOps ->
            (CASE i.enc = "legacy" -> LegacyPack(s, i)
               [] i.enc = "vex" -> VexPack(s, i)
               [] i.enc = "evex" -> EvexPack(s, i))
      [] i.op \in PairShuffles \cup LaneShuffles \cup {"movddup"} ->
            IF i.enc = "legacy" THEN LegacyShuffle(s, i) ELSE VexShuffle(s, i)
      [] i.op \in StringCompares -> pcmpstr(s, i)
      [] i.op \in MoveOps -> MoveHandler(s, i)

-----------------------------------------------------------------------------
(* What a lane should hold: the integer result, wrapped or clamped to the  *)
(* range of the lane, or a rounding of it.                                 *)
Clamp(lo, hi, x) == IF x < lo THEN lo ELSE IF x > hi THEN hi ELSE x

ExactLane(op, w, a, b) ==
    LET m == Modulus(w)
        x == IF Bit(m \div 2, a) THEN a - m ELSE a
        y == IF Bit(m \div 2, b) THEN b - m ELSE b
    IN (CASE op = "padd" -> a + b
          [] op = "psub" -> a - b
          [] op = "paddus" -> Clamp(0, m - 1, a + b)
          [] op = "psubus" -> Clamp(0, m - 1, a - b)
          [] op = "padds" -> Clamp(-(m \div 2), m \div 2 - 1, x + y)
          [] op = "psubs" -> Clamp(-(m \div 2), m \div 2 - 1, x - y)
          [] op = "pavg" -> a + b - ((a + b) \div 2)
          [] op = "pmull" -> a * b
          [] op = "pmulhu" -> ((a * b) - ((a * b) % m)) \div m
          [] op = "pmulh" -> ((x * y) - ((a * b) % m)) \div m
          [] op = "pmaxu" -> Clamp(a, m - 1, b)
          [] op = "pmins" -> Clamp(-(m \div 2), x, y)
          [] op = "pcmpeq" -> IF a - b = 0 THEN -1 ELSE 0
          [] op = "pcmpgt" -> IF x - y > 0 THEN -1 ELSE 0) % m

(* Bit j of a lane shifted by count places.                                *)
ExactShiftBit(op, w, a, count, j) ==
    LET n == Bits(w)
        from == IF op = "psll" THEN j - count ELSE j + count
    IN IF from \in 0..n-1 THEN Bit(2 ^ from, a) ELSE op = "psra" /\ Bit(2 ^ (n - 1), a)
=============================================================================
