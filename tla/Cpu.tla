--------------------------------- MODULE Cpu ---------------------------------
(* The machine one instruction handler works on (seven/types.hpp CpuState, *)
(* seven_core/src/handler_helpers.cpp): registers, flags, memory with the  *)
(* permission of each address, and the operand helpers every handler uses. *)
(* A handler is an operator from a machine and an instruction to a         *)
(* machine. Memory keeps a whole operand at its first address; an operand  *)
(* may straddle two pages, and then the permission of its address is that  *)
(* of both.                                                                *)
EXTENDS Arith, Sequences, TLC

CONSTANTS
    Addresses,      \* the addresses a program may name, 0..n
    FirstBytes      \* bytes on the first page of an operand that straddles two
ASSUME AddressesAssumption == Addresses \subseteq Nat /\ Addresses # {}
ASSUME FirstBytesAssumption == FirstBytes \in 1..7

Gprs == {"ax", "bx", "cx", "dx", "sp", "bp", "si", "di", "r11"}
HighBytes == {"ah", "bh", "ch", "dh"}
Values == 0 .. Container - 1

(* What an address may be used for. At a crossing one the page of the      *)
(* first byte is writable, and the next page is read-only or missing; with *)
(* any other pair of pages no byte of an operand is stored unless all are. *)
WholePerms == {"none", "ro", "rw"}
Crossing == {"rw-ro", "rw-none"}
Perms == WholePerms \cup Crossing
NoAddress == -1
VectorRegs == {"x0", "x1", "x2"}
VectorBytes == 0..63

(* The vector registers; a program without vectors leaves them out.        *)
VectorFiles == [VectorRegs -> [VectorBytes -> 0 .. Modulus(1) - 1]] \cup {<<>>}

(* The x87 registers, the tag of each, TOP and the control and status      *)
(* words, and the MMX registers; a program without them leaves them out.   *)
Registers == 0..7
FpuStates == [cw : 0 .. \hFFFF, sw : 0 .. \hFFFF, top : Registers, st : [Registers -> Int],
              tags : [Registers -> 0..3], mmx : [Registers -> Values]] \cup {<<>>}

(* reason and addr are the ExecutionResult; taken is control_flow_taken.   *)
CpuStates ==
    [gpr : [Gprs -> Values], flags : Flags, df : BOOLEAN,
     mem : [Addresses -> Values], perm : [Addresses -> Perms],
     vec : VectorFiles, opmask : SUBSET VectorBytes, fpu : FpuStates,
     watch : SUBSET Addresses,
     rip : Nat, cs : Nat, taken : BOOLEAN,
     reason : {"none", "page_fault", "divide_error", "general_protection", "floating_point_exception"},
     addr : Int]

-----------------------------------------------------------------------------
(* Results. A read gives a value or the reason and address of its failure. *)
(* Then, after a write, and With, after a read, are the early return every *)
(* handler makes after a failure.                                          *)
memory_fault(s, a) == [s EXCEPT !.reason = "page_fault", !.addr = a]
divide_fault(s) == [s EXCEPT !.reason = "divide_error", !.addr = s.rip]
Got(v) == [reason |-> "none", addr |-> NoAddress, v |-> v]

Then(r, Continue(_)) == IF r.reason = "none" THEN Continue(r) ELSE r
With(s, r, Use(_)) ==
    IF r.reason = "none" THEN Use(r.v) ELSE [s EXCEPT !.reason = r.reason, !.addr = r.addr]

PermAt(s, a) == IF a \in Addresses THEN s.perm[a] ELSE "none"

(* An operand of w bytes can be read or stored whole; a short one stays on *)
(* the first page.                                                         *)
CanLoad(s, a, w) == PermAt(s, a) \in {"ro", "rw", "rw-ro"} \/ (PermAt(s, a) = "rw-none" /\ w <= FirstBytes)
CanStore(s, a, w) == PermAt(s, a) = "rw" \/ (PermAt(s, a) \in Crossing /\ w <= FirstBytes)

read_memory_checked(s, a, w) ==
    IF CanLoad(s, a, w) THEN Got(Truncate(w, s.mem[a]))
    ELSE [reason |-> "page_fault", addr |-> a, v |-> 0]

(* A store goes page by page: what belongs on the first page is in memory  *)
(* when the second one refuses.                                            *)
Torn(s, a, v) ==
    [s EXCEPT !.mem[a] = (@ - (@ % Modulus(FirstBytes))) + (v % Modulus(FirstBytes))]
write_memory_checked(s, a, v, w) ==
    IF CanStore(s, a, w) THEN [s EXCEPT !.mem[a] = Truncate(w, v)]
    ELSE memory_fault(IF PermAt(s, a) \in Crossing THEN Torn(s, a, v) ELSE s, a)

(* AH, BH, CH and DH are the second byte of a register.                    *)
Holder(r) == CASE r = "ah" -> "ax" [] r = "bh" -> "bx" [] r = "ch" -> "cx" [] r = "dh" -> "dx"
                [] OTHER -> r
HighByte(a) == Truncate(1, a \div Modulus(1))

read_register(s, r, w) ==
    IF r \in HighBytes THEN HighByte(s.gpr[Holder(r)]) ELSE Truncate(w, s.gpr[r])

(* 8- and 16-bit writes merge, 32-bit writes clear the upper half.         *)
write_register(s, r, v, w) ==
    [s EXCEPT !.gpr[Holder(r)] =
        CASE r \in HighBytes -> @ + (Truncate(1, v) - HighByte(@)) * Modulus(1)
          [] r \in Gprs /\ w \in {1, 2} -> @ - Truncate(w, @) + Truncate(w, v)
          [] OTHER -> Truncate(w, v)]

(* base + displacement; index and segment base are further addends.        *)
memory_address(s, i) ==
    ((IF i.base = "none" THEN 0 ELSE s.gpr[i.base]) + i.disp) % Container

(* Operands: a register, "mem", or "imm", an immediate of iw bytes that    *)
(* the decoder sign-extends to the operand's width.                        *)
read_operand(s, i, o, w) ==
    CASE o \in Gprs \cup HighBytes -> Got(read_register(s, o, w))
      [] o = "mem"  -> read_memory_checked(s, memory_address(s, i), w)
      [] o = "imm"  -> Got(Truncate(w, sign_extend(i.iw, i.imm)))

write_operand(s, i, o, v, w) ==
    IF o = "mem" THEN write_memory_checked(s, memory_address(s, i), v, w)
                 ELSE write_register(s, o, v, w)
=============================================================================
