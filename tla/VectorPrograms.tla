---------------------------- MODULE VectorPrograms ----------------------------
(* What programs of vector instructions should compute, said lane by lane, *)
(* for whole registers, and for idioms of several instructions.            *)
EXTENDS Machine
LOCAL INSTANCE FiniteSetsExt

First(i) == IF i.enc = "legacy" THEN i.dst ELSE i.src
Second(i) == IF i.enc = "legacy" THEN i.src ELSE i.count
Active(i, l) == i.mask = "none" \/ l \in start.opmask

(* The bytes of operand o, whatever the permissions.                       *)
BytesOf(i, o) ==
    IF o \in VectorRegs THEN start.vec[o]
    ELSE [b \in VectorBytes |-> LET a == memory_address(start, i) + (IF i.broadcast THEN b % i.w ELSE b)
                                IN IF a \in Addresses THEN start.mem[a] ELSE 0]
LaneAt(v, w, l) == MapThenSumSet(LAMBDA k : v[l * w + k] * Modulus(k), 0..w-1)

(* Packed integer instructions: every active lane is the integer result of *)
(* the same lanes of both sources, wrapped, clamped or rounded as the      *)
(* instruction says; a shift moves each bit the whole count, counts beyond *)
(* the lane included; a pack clamps, keeping to its 16-byte block.         *)
VectorsExact ==
    Single(VectorOps \ (MoveOps \cup StringCompares)) =>
        LET i == prog[1]
            w == i.w
            h == w \div 2
            x == BytesOf(i, First(i))
            y == BytesOf(i, Second(i))
            v == cpu.vec[i.dst]
            count == IF Second(i) = "imm" THEN i.imm ELSE LaneAt(y, 8, 0)
            packed(l) == LET k == l % (XmmBytes \div h)
                             n == XmmBytes \div w
                             from == ((l * h) \div XmmBytes) * n + (k % n)
                         IN AsInt(w, LaneAt(IF k < n THEN x ELSE y, w, from))
            word(z, k) == AsInt(2, LaneAt(z, 2, k))
        IN \A l \in LaneIndexes(i.vl, w) : Active(i, l) =>
             CASE i.op \in LaneOps \cup CompareOps ->
                    LaneAt(v, w, l) = ExactLane(i.op, w, LaneAt(x, w, l), LaneAt(y, w, l))
               [] i.op \in ShiftOps ->
                    \A j \in 0 .. Bits(w) - 1 :
                        Bit(2 ^ j, LaneAt(v, w, l)) = ExactShiftBit(i.op, w, LaneAt(x, w, l), count, j)
               [] i.op = "packss" -> \A k \in {2 * l, 2 * l + 1} :
                    AsInt(h, LaneAt(v, h, k)) = Clamp(MinSigned(h), MaxSigned(h), packed(k))
               [] i.op = "packus" -> \A k \in {2 * l, 2 * l + 1} :
                    LaneAt(v, h, k) = Clamp(0, Modulus(h) - 1, packed(k))
               [] i.op = "pmuludq" -> LaneAt(v, 8, l) = LaneAt(x, 4, 2 * l) * LaneAt(y, 4, 2 * l)
               [] i.op = "pmaddwd" ->
                    LaneAt(v, 4, l) = (word(x, 2 * l) * word(y, 2 * l) + word(x, 2 * l + 1) * word(y, 2 * l + 1)) % Modulus(4)
               [] i.op = "psadbw" -> LaneAt(v, 8, l) =
                    MapThenSumSet(LAMBDA b : IF x[b] > y[b] THEN x[b] - y[b] ELSE y[b] - x[b], 8*l .. 8*l+7)
               [] OTHER -> TRUE

(* The rest of the register file: bytes past the instruction's width stay  *)
(* in a legacy instruction and are cleared by VEX and EVEX; a lane whose   *)
(* opmask bit is clear keeps the destination's old value, or is cleared    *)
(* with zeroing, also when the destination is a source; no other register, *)
(* flag or byte of memory changes, except those a string comparison names. *)
VectorDestinationRule ==
    Single(VectorOps) =>
        LET i == prog[1]
            v == cpu.vec[i.dst]
            was == start.vec[i.dst]
            n == IF i.op \in MoveOps /\ i.enc = "legacy" THEN i.w ELSE i.vl
            clears == i.enc # "legacy" \/ i.op = "movq" \/ (i.op \in {"movss", "movd"} /\ i.src \notin VectorRegs)
        IN /\ i.dst \in VectorRegs /\ i.op \notin StringCompares =>
                 /\ cpu = [start EXCEPT !.vec[i.dst] = v, !.rip = @ + 1, !.perm = cpu.perm, !.addr = cpu.addr]
                 /\ i.op \notin {"movlhps", "movhlps"} =>
                        \A b \in VectorBytes : b >= n => v[b] = IF clears THEN 0 ELSE was[b]
                 /\ \A b \in 0..i.vl-1 : ~Active(i, b \div i.w) => v[b] = IF i.zeroing THEN 0 ELSE was[b]
           /\ i.dst \notin VectorRegs => cpu.vec = start.vec
           /\ i.op \in {"pcmpistri", "pcmpestri"} => cpu.vec = start.vec
           /\ i.op \in {"pcmpistrm", "pcmpestrm"} =>
                 /\ cpu.gpr = start.gpr
                 /\ \A r \in VectorRegs, b \in VectorBytes : r # "x0" \/ b >= XmmBytes => cpu.vec[r][b] = start.vec[r][b]

(* Idioms that give back the vector in X1: widening with zeros or with the *)
(* sign and packing again, a shuffle and its inverse, rotating by byte     *)
(* shifts both ways, storing and loading in any mix of pieces.             *)
VectorRoundTrip ==
    Done /\ Len(prog) > 1 /\ prog[1].op \in VectorOps =>
        LET last == prog[Len(prog)]
        IN \A b \in 0..last.vl-1 : cpu.vec[last.dst][b] = start.vec["x1"][b]

(* The SSE4.2 string comparisons, with strings as sequences of characters: *)
(* the positions of s2 (of the n of a register) that match s1.             *)
Matches(mode, n, s1, s2) ==
    CASE mode = 0 -> {k \in 1..Len(s2) : s2[k] \in {s1[j] : j \in 1..Len(s1)}}
      [] mode = 1 -> {k \in 1..Len(s2) : \E j \in 1 .. Len(s1) \div 2 : s2[k] \in s1[2*j - 1] .. s1[2*j]}
      [] mode = 2 -> {k \in 1..n : (k > Len(s1) /\ k > Len(s2))
                                   \/ (k <= Len(s1) /\ k <= Len(s2) /\ s1[k] = s2[k])}
      [] mode = 3 -> {k \in 1..n : Len(s1) = 0
                                   \/ (k + Len(s1) - 1 <= Len(s2) /\ SubSeq(s2, k, k + Len(s1) - 1) = s1)}

(* All of them, the other ones, or the other ones inside s2.               *)
Polarity(mode, n, s2, matches) ==
    CASE mode = 1 -> (1..n) \ matches
      [] mode = 3 -> {k \in 1..n : (k \in matches) # (k <= Len(s2))}
      [] OTHER -> matches

(* The string in the bytes z: as long as a register says, or up to a zero. *)
StringIn(i, w, z, r) ==
    LET Char(k) == LET c == LaneAt(z, w, k) IN IF (i.imm \div 2) % 2 = 1 THEN AsInt(w, c) ELSE c
        n == XmmBytes \div w
        said == AsInt(4, start.gpr[r] % Modulus(4))
        len == IF i.op \in {"pcmpestri", "pcmpestrm"} THEN Min({n, Max({said, -said})})
               ELSE Min({n} \cup {k \in 0..n-1 : Char(k) = 0})
    IN [k \in 1..len |-> Char(k - 1)]

(* What the index, the mask and the flags say of the wanted positions.     *)
Reported(i, w, s1, s2, wanted) ==
    LET n == XmmBytes \div w
        top == (i.imm \div 64) % 2 = 1
    IN /\ cpu.flags = [cf |-> wanted # {}, zf |-> Len(s2) < n, sf |-> Len(s1) < n,
                       of |-> 1 \in wanted, af |-> FALSE, pf |-> FALSE]
       /\ i.op \in {"pcmpistri", "pcmpestri"} =>
             cpu.gpr["cx"] = IF wanted = {} THEN n ELSE (IF top THEN Max(wanted) ELSE Min(wanted)) - 1
       /\ i.op \in {"pcmpistrm", "pcmpestrm"} =>
             \A k \in 1..n : (k \in wanted) =
                 IF top THEN LaneAt(cpu.vec["x0"], w, k - 1) = Modulus(w) - 1
                 ELSE Bit(2 ^ ((k - 1) % ByteBits), cpu.vec["x0"][(k - 1) \div ByteBits])

(* PCMPxSTRx: the matches are those of the strings as sequences, where a   *)
(* character is in the set or in a range, where the strings agree, or      *)
(* where the first occurs in the second; the index is the first or last of *)
(* the wanted ones, the flags say whether there is one and which string    *)
(* ends inside its register.                                               *)
StringCompareExact ==
    Single(StringCompares) =>
        LET i == prog[1]
            w == IF i.imm % 2 = 1 THEN 2 ELSE 1
            n == XmmBytes \div w
            s1 == StringIn(i, w, BytesOf(i, i.dst), "ax")
            s2 == StringIn(i, w, BytesOf(i, i.src), "dx")
        IN Reported(i, w, s1, s2,
                    Polarity((i.imm \div 16) % 4, n, s2, Matches((i.imm \div 4) % 4, n, s1, s2)))
=============================================================================
