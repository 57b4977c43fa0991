------------------------------ MODULE StringOps ------------------------------
(* MOVS, CMPS, SCAS, STOS and LODS with their REP loops                    *)
(* (handlers/data/movs.cpp, string_ops.cpp). The loop runs inside one      *)
(* handler call and leaves RCX, RSI and RDI where a fault or a data        *)
(* breakpoint stopped it, so that the next call continues. i.rep is "none",*)
(* "rep" or "repne"; s.watch holds the addresses of data breakpoints.      *)
EXTENDS Flow

UsesSi(i) == i.op \in {"movs", "cmps", "lods"}
UsesDi(i) == i.op \in {"movs", "cmps", "scas", "stos"}

(* One element: its reads and writes, in the order of the code.            *)
movs_element(s, i) == With(s, read_memory_checked(s, s.gpr["si"], i.w), LAMBDA v :
    write_memory_checked(s, s.gpr["di"], v, i.w))

cmps_element(s, i) ==
    With(s, read_memory_checked(s, s.gpr["si"], i.w), LAMBDA l :
        With(s, read_memory_checked(s, s.gpr["di"], i.w), LAMBDA r :
            [s EXCEPT !.flags = set_sub_flags(i.w, l, r, Truncate(i.w, l - r), 0)]))

scas_element(s, i) == With(s, read_memory_checked(s, s.gpr["di"], i.w), LAMBDA r :
    LET l == read_register(s, "ax", i.w)
    IN [s EXCEPT !.flags = set_sub_flags(i.w, l, r, Truncate(i.w, l - r), 0)])

stos_element(s, i) == write_memory_checked(s, s.gpr["di"], s.gpr["ax"], i.w)

lods_element(s, i) == With(s, read_memory_checked(s, s.gpr["si"], i.w), LAMBDA v :
    write_register(s, "ax", v, i.w))

Element(s, i) ==
    CASE i.op = "movs" -> movs_element(s, i)
      [] i.op = "cmps" -> cmps_element(s, i)
      [] i.op = "scas" -> scas_element(s, i)
      [] i.op = "stos" -> stos_element(s, i)
      [] i.op = "lods" -> lods_element(s, i)

Advance(s, i, uses, r) ==
    IF uses THEN [s EXCEPT !.gpr[r] = (IF s.df THEN @ - i.w ELSE @ + i.w) % Container] ELSE s

Watched(s, i) == \/ UsesSi(i) /\ s.gpr["si"] \in s.watch
                 \/ UsesDi(i) /\ s.gpr["di"] \in s.watch

(* Mutation: REPNE is treated as REP.                                      *)
ContinuesWhileEqual(s, i, remaining) ==
    /\ i.rep # "none" /\ remaining > 0
    /\ i.op \in {"cmps", "scas"} => s.flags.zf

(* CMPS and SCAS go on while ZF agrees with the prefix.                    *)
Continues(s, i, remaining) ==
    /\ i.rep # "none" /\ remaining > 0
    /\ i.op \in {"cmps", "scas"} => (s.flags.zf = (i.rep = "rep"))

SetCount(s, i, n) == IF i.rep = "none" THEN s ELSE [s EXCEPT !.gpr["cx"] = n]

(* Mutation: the break is taken with the count of the element just done.   *)
RECURSIVE RepLoopCountAgain(_, _, _)
RepLoopCountAgain(s, i, remaining) ==
    Then(SetCount(Element(s, i), i, remaining), LAMBDA t :
        LET u == Advance(Advance(t, i, UsesSi(i), "si"), i, UsesDi(i), "di")
            more == Continues(u, i, remaining - 1)
        IN IF Watched(s, i) /\ more THEN [u EXCEPT !.taken = TRUE]
           ELSE IF more THEN RepLoopCountAgain(u, i, remaining - 1)
           ELSE SetCount(u, i, remaining - 1))

(* note_debug_break: a watched element ends the call; control_flow_taken   *)
(* keeps RIP on the instruction exactly when elements remain.              *)
RECURSIVE RepLoop(_, _, _)
RepLoop(s, i, remaining) ==
    Then(SetCount(Element(s, i), i, remaining), LAMBDA t :
        LET u == SetCount(Advance(Advance(t, i, UsesSi(i), "si"), i, UsesDi(i), "di"), i, remaining - 1)
            more == Continues(u, i, remaining - 1)
        IN IF Watched(s, i) THEN [u EXCEPT !.taken = more]
           ELSE IF more THEN RepLoop(u, i, remaining - 1) ELSE u)

string_impl(s, i) ==
    LET count == IF i.rep = "none" THEN 1 ELSE s.gpr["cx"]
    IN IF count = 0 THEN s ELSE RepLoop(s, i, count)
=============================================================================
