-------------------------------- MODULE Flow ---------------------------------
(* Branches, conditional moves and the stack (handlers/control_flow,       *)
(* enter.cpp, leave.cpp, misc/system.cpp). i.target is the branch target,  *)
(* or for INT the handler the IDT names; s.rip + 1 is next_rip.            *)
EXTENDS Alu

Jump(s, target) == [s EXCEPT !.rip = target, !.taken = TRUE]

(* The conditional jumps spell their conditions out, apart from eval_cond. *)
JO(f)  == f.of
JNO(f) == ~f.of
JB(f)  == f.cf
JAE(f) == ~f.cf
JE(f)  == f.zf
JNE(f) == ~f.zf
JBE(f) == f.cf \/ f.zf
JA(f)  == ~f.cf /\ ~f.zf
JS(f)  == f.sf
JNS(f) == ~f.sf
JP(f)  == f.pf
JNP(f) == ~f.pf
JL(f)  == f.sf # f.of
JGE(f) == f.sf = f.of
JLE(f) == f.zf \/ f.sf # f.of
JG(f)  == ~f.zf /\ f.sf = f.of

Taken(f, cond) ==
    CASE cond = "o"  -> JO(f)   [] cond = "no" -> JNO(f)
      [] cond = "b"  -> JB(f)   [] cond = "ae" -> JAE(f)
      [] cond = "e"  -> JE(f)   [] cond = "ne" -> JNE(f)
      [] cond = "be" -> JBE(f)  [] cond = "a"  -> JA(f)
      [] cond = "s"  -> JS(f)   [] cond = "ns" -> JNS(f)
      [] cond = "p"  -> JP(f)   [] cond = "np" -> JNP(f)
      [] cond = "l"  -> JL(f)   [] cond = "ge" -> JGE(f)
      [] cond = "le" -> JLE(f)  [] cond = "g"  -> JG(f)

Jcc(s, i) == IF Taken(s.flags, i.cond) THEN Jump(s, i.target) ELSE s

(* The source is read whatever the condition; a 32-bit move that is not    *)
(* taken still clears the upper half.                                      *)
CMOVcc_R32(s, i) == With(s, read_operand(s, i, i.src, 4), LAMBDA v :
    write_register(s, i.dst, IF eval_cond(s.flags, i.cond) THEN v ELSE read_register(s, i.dst, 4), 4))

CMOVcc(s, i) == With(s, read_operand(s, i, i.src, i.w), LAMBDA v :
    IF eval_cond(s.flags, i.cond) THEN write_register(s, i.dst, v, i.w) ELSE s)

SETcc(s, i) == write_operand(s, i, i.dst, B(eval_cond(s.flags, i.cond)), 1)

JMP(s, i) == IF i.dst = "imm" THEN Jump(s, i.target)
             ELSE With(s, read_operand(s, i, i.dst, i.w), LAMBDA t : Jump(s, t))

(* LOOP, LOOPE, LOOPNE.                                                    *)
loop_common(s, i) ==
    LET next == Truncate(i.w, read_register(s, "cx", i.w) - 1)
        t == write_register(s, "cx", next, i.w)
    IN IF \/ next = 0
          \/ i.op = "loope" /\ ~s.flags.zf
          \/ i.op = "loopne" /\ s.flags.zf
       THEN t ELSE Jump(t, i.target)

jcxz_common(s, i) == IF read_register(s, "cx", i.w) = 0 THEN Jump(s, i.target) ELSE s

-----------------------------------------------------------------------------
(* RSP moves before the store, so a store that faults leaves it moved; a   *)
(* load that faults does not move it.                                      *)
push_width(s, v, w) ==
    LET sp == (s.gpr["sp"] - w) % Container
    IN write_memory_checked([s EXCEPT !.gpr["sp"] = sp], sp, v, w)

pop_width(s, w) == read_memory_checked(s, s.gpr["sp"], w)
Popped(s, w) == [s EXCEPT !.gpr["sp"] = (@ + w) % Container]

push_operand_width(s, i) == With(s, read_operand(s, i, i.dst, i.w), LAMBDA v : push_width(s, v, i.w))

(* Mutation: the destination is written before RSP moves.                  *)
pop_operand_widthLateSp(s, i) == With(s, read_memory_checked(s, s.gpr["sp"], i.w), LAMBDA v :
    Then(write_operand(s, i, i.dst, v, i.w),
         LAMBDA t : [t EXCEPT !.gpr["sp"] = (@ + i.w) % Container]))

pop_operand_width(s, i) == With(s, pop_width(s, i.w), LAMBDA v :
    write_operand(Popped(s, i.w), i, i.dst, v, i.w))

(* PUSHA: eight registers, RSP as it was, stopping at the first fault.     *)
push_all_width(s, i) ==
    LET order == <<"ax", "cx", "dx", "bx", "sp", "bp", "si", "di">>
        push[n \in 0..8] == IF n = 0 THEN s
                            ELSE Then(push[n - 1], LAMBDA t : push_width(t, s.gpr[order[n]], i.w))
    IN push[8]

(* RFLAGS as the number the stack holds: the six modelled bits.            *)
Rflags(f) == B(f.cf) + 2 * B(f.pf) + 4 * B(f.af) + 8 * B(f.zf) + 16 * B(f.sf) + 32 * B(f.of)
FromRflags(v) == [cf |-> Bit(1, v), pf |-> Bit(2, v), af |-> Bit(4, v),
                  zf |-> Bit(8, v), sf |-> Bit(16, v), of |-> Bit(32, v)]

push_flags_width(s, i) == push_width(s, Rflags(s.flags), i.w)
POPF(s, i) == With(s, pop_width(s, i.w), LAMBDA v :
    [Popped(s, i.w) EXCEPT !.flags = FromRflags(v)])

CALL(s, i) ==
    IF i.dst = "imm" THEN Then(push_width(s, s.rip + 1, i.w), LAMBDA t : Jump(t, i.target))
    ELSE With(s, read_operand(s, i, i.dst, i.w), LAMBDA target :
             Then(push_width(s, s.rip + 1, i.w), LAMBDA t : Jump(t, target)))

ret_width(s, i) == With(s, pop_width(s, i.w), LAMBDA v : Jump(Popped(s, i.w + i.imm), v))

(* ENTER writes the old RBP first and moves the registers afterwards.      *)
ENTER(s, i) ==
    LET sp == Truncate(i.w, read_register(s, "sp", i.w) - i.w)
    IN Then(write_memory_checked(s, sp, s.gpr["bp"], i.w), LAMBDA t :
            write_register(write_register(t, "bp", sp, i.w), "sp", sp - i.imm, i.w))

LEAVE(s, i) ==
    LET sp == read_register(s, "bp", i.w)
    IN With(s, read_memory_checked(s, sp, i.w), LAMBDA v :
           write_register(write_register(s, "sp", sp + i.w, i.w), "bp", v, i.w))

(* dispatch_interrupt in long mode and IRETQ: the frame is RFLAGS, a two-  *)
(* byte CS and RIP. i.target is NoAddress when the IDT is too short or the *)
(* gate is absent or of the wrong type.                                    *)
dispatch_interrupt(s, i) ==
    IF i.target = NoAddress
    THEN [s EXCEPT !.reason = "general_protection", !.addr = s.rip]
    ELSE Then(push_width(s, Rflags(s.flags), 8), LAMBDA t :
         Then(push_width(t, s.cs, 2), LAMBDA u :
         Then(push_width(u, s.rip + 1, 8), LAMBDA v :
              Jump([v EXCEPT !.cs = i.imm], i.target))))

iret_width(s, i) ==
    LET t == Popped(s, 8)
        u == Popped(t, 2)
    IN With(s, pop_width(s, 8), LAMBDA rip :
       With(t, pop_width(t, 2), LAMBDA cs :
       With(u, pop_width(u, 8), LAMBDA f :
           Jump([Popped(u, 8) EXCEPT !.cs = cs, !.flags = FromRflags(f)], rip))))

-----------------------------------------------------------------------------
(* The handlers of this module by the name of the instruction.             *)
LoopOps == {"loop", "loope", "loopne"}
BranchOps == {"jcc", "cmov", "setcc", "jmp", "jcxz"} \cup LoopOps
BranchHandler(s, i) ==
    CASE i.op = "jcc" -> Jcc(s, i)     [] i.op = "cmov" -> IF i.w = 4 THEN CMOVcc_R32(s, i) ELSE CMOVcc(s, i)
      [] i.op = "setcc" -> SETcc(s, i) [] i.op = "jmp" -> JMP(s, i)
      [] i.op = "jcxz" -> jcxz_common(s, i)
      [] i.op \in LoopOps -> loop_common(s, i)

StackOps == {"push", "pop", "pusha", "pushf", "popf", "call", "ret", "enter", "leave", "int", "iret"}
StackHandler(s, i) ==
    CASE i.op = "push" -> push_operand_width(s, i)
      [] i.op = "pop" -> pop_operand_width(s, i)
      [] i.op = "pusha" -> push_all_width(s, i)
      [] i.op = "pushf" -> push_flags_width(s, i)
      [] i.op = "popf" -> POPF(s, i)
      [] i.op = "call" -> CALL(s, i)   [] i.op = "ret" -> ret_width(s, i)
      [] i.op = "enter" -> ENTER(s, i) [] i.op = "leave" -> LEAVE(s, i)
      [] i.op = "int" -> dispatch_interrupt(s, i)
      [] i.op = "iret" -> iret_width(s, i)
=============================================================================
