-------------------------------- MODULE Traps --------------------------------
(* Trapping instructions with a hook of the Sogen backend: the adapters    *)
(* around the host's callback (hook_instruction and hook_interrupt of      *)
(* seven_x86_64_emulator.cpp) inside the trap stage of step_impl           *)
(* (executor.cpp). i.hook says what the callback does: the address it      *)
(* leaves in RIP, or NoAddress, and whether it asks to skip the            *)
(* instruction. Instructions have length one.                              *)
EXTENDS Flow

next_rip(s) == s.rip + 1
CallbackRip(i, rip) == IF i.hook.rip = NoAddress THEN rip ELSE i.hook.rip

(* Mutation: no advance past the instruction.                              *)
hook_instructionNoAdvance(s, i) ==
    [rip |-> CallbackRip(i, s.rip), handled |-> i.hook.action = "skip"]

(* For SYSCALL. The callback of the shared helpers expects the advance.    *)
hook_instruction(s, i) ==
    LET rip == CallbackRip(i, s.rip)
        skip == i.hook.action = "skip"
    IN [rip |-> IF skip /\ rip # s.rip THEN rip + 1 ELSE rip, handled |-> skip]

(* The callback finds RIP behind the instruction.                          *)
hook_interrupt(s, i) ==
    LET rip == CallbackRip(i, next_rip(s))
    IN [rip |-> IF rip = s.rip THEN next_rip(s) ELSE rip, handled |-> TRUE]

(* LSTAR is i.target; SFMASK is the set of flags it clears.                *)
SYSCALL(s, i) ==
    Jump([s EXCEPT !.gpr["cx"] = next_rip(s), !.gpr["r11"] = Rflags(s.flags),
                   !.flags = [f \in DOMAIN @ |-> @[f] /\ f \notin i.sfmask]], i.target)

(* A handled trap goes on where the hook left RIP, or behind the           *)
(* instruction if it is still there; otherwise the core executes it.       *)
TrapStage(s, i) ==
    LET r == IF i.op = "syscall" THEN hook_instruction(s, i) ELSE hook_interrupt(s, i)
    IN IF r.handled THEN Jump(s, IF r.rip = s.rip THEN next_rip(s) ELSE r.rip) ELSE SYSCALL(s, i)
=============================================================================
