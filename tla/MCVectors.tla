------------------------------ MODULE MCVectors ------------------------------
(* Programs of vector instructions.                                        *)
EXTENDS MCScalar

(* Vectors: a lane of width w holds one of eight values at the boundaries  *)
(* (all values of a byte); j and k turn the values of both sources against *)
(* each other, so that every pair meets in some lane.                      *)
Edge(w) == <<0, 1, 2, Modulus(w) \div 2 - 1, Modulus(w) \div 2, Modulus(w) \div 2 + 1, Modulus(w) - 2, Modulus(w) - 1>>
Edges(w, j, turn) ==
    lane_store(64, w, [l \in 0..63 |-> IF w = 1 THEN (l + j + turn * (l \div 8)) % 8
                                       ELSE Edge(w)[((l + j + turn * (l \div 8)) % 8) + 1]])
Stale == [b \in VectorBytes |-> (3 * b + 1) % 8]
Zeros == [b \in VectorBytes |-> 0]
Vecs(a, b, c) == [Blank EXCEPT !.vec = ("x0" :> a) @@ ("x1" :> b) @@ ("x2" :> c),
                               !.mem = [x \in MCAddresses |-> (5 * x + 3) % 8]]
SourceVecs(w, j, k) == Vecs(Stale, Edges(w, j, 0), Edges(w, j + k, 1))

V(op, w, vl, enc, dst, src, other) ==
    [Nop EXCEPT !.op = op, !.w = w, !.dst = dst, !.src = src, !.count = other]
    @@ [vl |-> vl, enc |-> enc, mask |-> "none", zeroing |-> FALSE, broadcast |-> FALSE]
L(op, w) == V(op, w, 16, "legacy", "x1", "x2", "none")
Imm(i, n) == [i EXCEPT !.imm = n]
Masked(i, z) == [i EXCEPT !.mask = "k1", !.zeroing = z]

LaneWidths(op) ==
    CASE op \in {"padd", "psub", "pcmpeq", "pcmpgt"} -> {1, 2, 4, 8}
      [] op \in {"paddus", "psubus", "padds", "psubs", "pavg"} -> {1, 2}
      [] op \in {"pmull", "pmulh", "pmulhu", "pmins"} -> {2}
      [] op = "pmaxu" -> {1}
      [] op = "pmaddwd" -> {4}
      [] op \in {"pmuludq", "psadbw"} -> {8}
      [] op \in {"psll", "psrl"} -> {2, 4, 8}
      [] op = "psra" -> {2, 4}
      [] op = "packss" -> {2, 4}
      [] op = "packus" -> {2}
Turns(vl, w) == IF vl \div w < 8 THEN {x \in 0..7 : x % (vl \div w) = 0} ELSE {0}
VexLengths == {<<"vex", 16>>, <<"vex", 32>>}
EvexLengths == {<<"evex", 16>>, <<"evex", 64>>}
VexLanes == {"padd", "psub", "paddus", "psubus", "padds", "psubs", "pavg", "pmull"}

Lanes ==
    UNION {{{One(L(op, w), SourceVecs(w, j, k)) : j \in Turns(16, w), k \in 0..7}} : <<op, w>> \in
                {<<o, n>> \in (LaneOps \cup CompareOps \cup WideOps) \X {1, 2, 4, 8} : n \in LaneWidths(o)}}
    \cup UNION {{{One(V(op, w, e[2], e[1], dst, "x1", "x2"), SourceVecs(w, j, k)) : j \in Turns(e[2], w), k \in 0..7}} :
            <<op, w, e, dst>> \in {<<o, n, f, d>> \in VexLanes \X {1, 2, 4, 8} \X (VexLengths \cup EvexLengths) \X {"x0", "x2"} :
                                        n \in LaneWidths(o) /\ (d = "x0" \/ f[2] = 64)}}
    \cup UNION {{{One(V(op, w, e[2], e[1], "x0", "x1", "x2"), SourceVecs(w, 0, k)) : k \in 0..7}} :
            <<op, w, e>> \in CompareOps \X {1, 2, 4, 8} \X VexLengths}
    \cup {{One([V(op, w, 16, IF op = "pcmpgt" THEN "vex" ELSE "evex", "x0", "x1", "mem") EXCEPT !.disp = 7, !.broadcast = b],
              [SourceVecs(w, 0, 1) EXCEPT !.perm[7] = p, !.perm[9] = q]) :
            op \in {"padd", "psubs", "pcmpgt"}, w \in {2, 4}, b \in BOOLEAN, p \in WholePerms, q \in {"none", "rw"}},
     {One([L(op, w) EXCEPT !.src = "mem", !.disp = 7], [SourceVecs(w, 0, 1) EXCEPT !.perm[7] = p]) :
            op \in {"psub", "pand", "packss"}, w \in {2, 4}, p \in WholePerms}}

(* Opmasks: none, one, every other and all lanes active.                   *)
Masks ==
    {{One(Masked(V(op, w, vl, "evex", dst, "x1", IF op = "psll" THEN "imm" ELSE "x2"), z),
         [SourceVecs(w, 0, 3) EXCEPT !.opmask = k]) :
        op \in {"padd", "psubus", "pandn", "psll"}, w \in {2, 4, 8}, vl \in {16, 64}, dst \in VectorRegs,
        z \in BOOLEAN, k \in {{}, {0}, {1, 3, 5, 7, 63}, VectorBytes}}}

VectorShifts ==
    UNION {{{One([V(op, w, e[2], e[1], "x0", "x1", "x2") EXCEPT !.imm = 0],
                [SourceVecs(w, 0, 0) EXCEPT !.vec["x2"] = lane_store(64, 8, [l \in 0..7 |-> c + l])]) :
                e \in {<<"vex", 16>>, <<"evex", 64>>}, c \in {0, 1, 8, Bits(w) - 1, Bits(w), Bits(w) + 9, 64, 512}},
            {One(Imm(V(op, w, e[2], e[1], "x0", "x1", "imm"), c), SourceVecs(w, 0, 0)) :
                e \in VexLengths \cup EvexLengths, c \in {0, 1, Bits(w) - 1, Bits(w), 255}},
            {One(Imm([L(op, w) EXCEPT !.src = s], c),
                     [SourceVecs(w, 0, 0) EXCEPT !.vec["x2"] = lane_store(64, 8, [l \in 0..7 |-> c + l])]) :
                s \in {"imm", "x2"}, c \in {0, 1, 8, Bits(w) - 1, Bits(w), 255}}} : <<op, w>> \in {<<o, n>> \in ShiftOps \X {2, 4, 8} : n \in LaneWidths(o)}}

Packs ==
    UNION {{{One(L(op, w), SourceVecs(w, j, k)) : j \in Turns(16, w), k \in {0, 3, 5}},
            {One(V(op, w, vl, "vex", "x0", "x1", "x2"), SourceVecs(w, j, k)) :
                vl \in {16, 32}, j \in Turns(16, w), k \in {0, 3, 5}}} : <<op, w>> \in {<<"packss", 2>>, <<"packss", 4>>, <<"packus", 2>>}}
    \cup {{One(V(op, 2, vl, "evex", "x0", "x1", "x2"), SourceVecs(2, 0, k)) : op \in PackOps, vl \in {16, 32, 64}, k \in {0, 3, 5}}}

(* Single instructions that only move lanes or bytes.                      *)
Moves ==
    {{One(Imm(L(op, w), n), SourceVecs(1, 0, 1)) :
        <<op, w>> \in {<<"shufps", 4>>, <<"shufpd", 8>>, <<"pshufd", 4>>, <<"pshuflw", 2>>, <<"pshufhw", 2>>,
                       <<"unpckl", 4>>, <<"unpckh", 8>>, <<"movsldup", 4>>, <<"movddup", 8>>, <<"pslldq", 1>>,
                       <<"punpckl", 8>>, <<"por", 1>>, <<"pxor", 1>>}, n \in {0, 27, 228}},
     {One([V(op, w, 16, enc, dst, src, "none") EXCEPT !.disp = 3], [SourceVecs(1, 0, 1) EXCEPT !.perm[3] = p, !.perm[5] = q]) :
        <<op, w>> \in {<<"movdqu", 16>>, <<"movss", 4>>, <<"movss", 8>>, <<"movq", 8>>, <<"movlps", 8>>},
        enc \in {"legacy", "vex"}, <<dst, src>> \in {<<"x1", "mem">>, <<"mem", "x1">>}, p \in WholePerms, q \in {"none", "rw"}},
     {One(V(op, w, 16, "legacy", "x1", "x2", "none"), SourceVecs(1, 0, 1)) :
        <<op, w>> \in {<<"movdqu", 16>>, <<"movss", 4>>, <<"movq", 8>>}},
     {One(V("movd", w, 16, "vex", "x1", "bx", "none"), [SourceVecs(1, 0, 1) EXCEPT !.gpr["bx"] = Container - 3]) : w \in {4, 8}}}

(* Programs that give back X1.                                             *)
Ops(is, s) == [prog |-> is, cpu |-> s]
Shuffled(op, w, imm) == Imm(V(op, w, 16, "legacy", "x1", "x1", "none"), imm)
ImmOf(p) == p[1] + 4 * p[2] + 16 * p[3] + 64 * p[4]
Permutations4 == {p \in [1..4 -> 0..3] : \A a, b \in 1..4 : a # b => p[a] # p[b]}
Undo(p) == [k \in 1..4 |-> (CHOOSE j \in 1..4 : p[j] = k - 1) - 1]

Idioms ==
    LET s(w, k) == Vecs(Stale, Edges(w, k, 1), Zeros)
        X(op, w, e, dst, src, other) == V(op, w, e[2], e[1], dst, src, other)
    IN {{Ops(<<X("punpckl", 1, e, "x0", "x1", "x2"), X("punpckh", 1, e, "x1", "x1", "x2"),
              X("packus", 2, e, "x0", "x0", "x1")>>, s(w, k)) : e \in VexLengths \cup EvexLengths, w \in {1, 2}, k \in {0, 5}},
     {Ops(<<X("pcmpgt", 1, e, "x0", "x2", "x1"), X("punpckl", 1, e, "x2", "x1", "x0"),
                   X("punpckh", 1, e, "x0", "x1", "x0"), X("packss", 2, e, "x2", "x2", "x0")>>, s(w, k)) :
                e \in VexLengths, w \in {1, 2}, k \in {0, 5}},
     {Ops(<<Imm(X("psra", 2, e, "x0", "x1", "imm"), 5), X("punpckl", 2, e, "x2", "x1", "x0"),
                   X("punpckh", 2, e, "x0", "x1", "x0"), X("packss", 4, e, "x2", "x2", "x0")>>, s(w, k)) :
                e \in VexLengths, w \in {1, 2}, k \in {0, 5}},
     {Ops(<<Shuffled(op, w, ImmOf(p)), Shuffled(op, w, ImmOf(Undo(p)))>>, s(1, 0)) :
                <<op, w>> \in {<<"pshufd", 4>>, <<"pshuflw", 2>>, <<"pshufhw", 2>>, <<"shufps", 4>>}, p \in Permutations4},
     {Ops(<<Shuffled("shufpd", 8, n), Shuffled("shufpd", 8, n)>>, s(1, 0)) : n \in {1, 2}},
     {Ops(<<X("movsldup", 4, e, "x0", "x1", "none"), X("movshdup", 4, e, "x2", "x1", "none"),
                   X("unpckl", 4, e, "x1", "x0", "x2"), X("unpckh", 4, e, "x0", "x0", "x2"),
                   X("unpckl", 8, e, "x0", "x1", "x0")>>, s(1, 0)) : e \in VexLengths},
     {Ops(<<X("movddup", 8, e, "x0", "x1", "none"), X("unpckh", 8, e, "x2", "x1", "x1"),
                   X("unpckl", 8, e, "x0", "x0", "x2")>>, s(1, 0)) : e \in VexLengths},
     {Ops(<<Imm(X("pslldq", 1, e, "x0", "x1", "imm"), k), Imm(X("psrldq", 1, e, "x2", "x1", "imm"), 16 - k),
                   X("por", 1, e, "x1", "x0", "x2"),
                   Imm(X("psrldq", 1, e, "x0", "x1", "imm"), k), Imm(X("pslldq", 1, e, "x2", "x1", "imm"), 16 - k),
                   X("por", 1, e, "x0", "x0", "x2")>>, s(1, 0)) : e \in VexLengths, k \in {0, 1, 8, 15, 16}}}

Piecewise ==
    LET M(op, w, dst, src, other, at) == [V(op, w, 16, "vex", dst, src, other) EXCEPT !.disp = at]
        Load == M("movdqu", 16, "x0", "mem", "none", 3)
    IN {{Ops(is, [Vecs(Stale, Edges(1, 0, 1), Edges(1, 5, 1)) EXCEPT !.perm[3] = p, !.perm[a] = q]) :
            is \in {<<M("movdqu", 16, "mem", "x1", "none", 3), Load>>,
                    <<M("movlps", 8, "mem", "x1", "none", 3), M("movhps_store", 8, "mem", "x1", "none", 11), Load>>,
                    [k \in 1..9 |-> IF k = 9 THEN Load ELSE Imm(M("pextrw", 4, "mem", "x1", "none", 1 + 2 * k), k - 1)],
                    <<M("movhps_store", 8, "mem", "x1", "none", 3), M("movq", 8, "x0", "x1", "none", 0),
                      M("vmovhps", 8, "x0", "x0", "mem", 3)>>},
            p \in WholePerms, a \in {7, 11}, q \in {"none", "rw"}},
     {Ops(is, Vecs(Stale, Edges(1, 0, 1), Edges(1, 5, 1))) :
            is \in {<<M("movd_store", 8, "ax", "x1", "none", 0), V("movhlps", 8, 16, "legacy", "x2", "x1", "none"),
                      M("movd", 8, "x0", "ax", "none", 0), V("movlhps", 8, 16, "legacy", "x0", "x2", "none")>>,
                    <<M("movhlps", 8, "x0", "x2", "x1", 0), M("movlhps", 8, "x0", "x1", "x0", 0)>>,
                    <<M("vmovss_reg", 4, "x0", "x2", "x1", 0), M("vmovss_reg", 4, "x0", "x1", "x0", 0)>>}}}

(* Strings: a set, a word, ranges; matched, unmatched, ended by a zero.    *)
StringPairs ==
    {<<<<3, 5>>, <<1, 3, 5, 2, 3, 5, 3>>>>, <<<<2, 4, 6, 7>>, <<1, 2, 3, 4, 5, 6, 7, 1, 2, 3, 4, 5, 6, 7, 1, 2>>>>,
     <<<<>>, <<1, 2>>>>, <<<<5, 3>>, <<3, 5, 5, 5, 5, 5, 3>>>>, <<<<1, 2, 3>>, <<1, 2, 4>>>>}
AsVector(w, q) == lane_store(64, w, [l \in 0..63 |-> IF l + 1 \in DOMAIN q THEN q[l + 1] ELSE 0])
StringCompare ==
    {{One(Imm(V(op, 1, 16, "legacy", "x1", "x2", "none"), n),
         LET w == IF n % 2 = 1 THEN 2 ELSE 1
         IN [Vecs(Stale, AsVector(w, q[1]), AsVector(w, q[2])) EXCEPT !.gpr["ax"] = l[1] % Modulus(4), !.gpr["dx"] = l[2]]) :
        op \in {"pcmpistri", "pcmpestrm"}, n \in 0..127, q \in StringPairs, l \in {<<2, 7>>, <<-3, 40>>}},
     {One(Imm(V(op, 1, 16, "legacy", "x1", "mem", "none"), n),
              [Vecs(Stale, AsVector(1, <<6, 3>>), Zeros) EXCEPT !.perm[0] = p, !.gpr["ax"] = 2, !.gpr["dx"] = 9]) :
        op \in {"pcmpistrm", "pcmpestri"}, n \in {0, 12, 68, 76}, p \in WholePerms}}

VectorProgramFamilies == <<Lanes, Masks, VectorShifts, Packs, Moves, Idioms, Piecewise, StringCompare>>
=============================================================================
