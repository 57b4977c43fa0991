------------------------------ MODULE Executor ------------------------------
(***************************************************************************)
(* Executor::step (seven_core/src/executor.cpp): the loop of attempts at   *)
(* one instruction, with the fault hooks that may have it tried again, the *)
(* trap and instruction hooks that may take the instruction over, and the  *)
(* debug facilities (execute and data breakpoints, single step, RF, the    *)
(* shadow of MOV SS / POP SS).                                             *)
(*                                                                         *)
(* An instruction is its kind.  An interrupt frame is what a later IRET    *)
(* brings back: RIP, RF and TF.  Fetch and decode are module DecodeCache;  *)
(* the callbacks are external and answer from the verdict sets.            *)
(***************************************************************************)
EXTENDS Integers, Sequences

CONSTANTS
    Length,           \* the program is at 0..Length-1, one address per instruction
    Kinds,            \* instruction kinds the programs are made of
    Watches,          \* BOOLEAN values: does a data breakpoint cover the data
    Breakpoints,      \* sets of addresses with an enabled execute breakpoint
    MaxFaultRetries,  \* kMaxFaultRetries
    MaxFrames,        \* interrupt frames that fit on the stack
    FaultVerdicts,    \* subset of {"stop", "retry", "restart", "redirect"}
    TrapVerdicts,     \* subset of {"continue", "handled", "stop"}
    HookVerdicts      \* subset of {"continue", "skip", "stop", "stop_none"}

AllKinds == {"plain", "store", "movss", "rep", "popf", "int", "trap", "hlt",
             "nofetch", "undecodable", "nosimd", "invalid"}

ASSUME LengthAssumption == Length \in Nat \ {0}
ASSUME KindsAssumption == Kinds \subseteq AllKinds /\ Watches \subseteq BOOLEAN
ASSUME RetryAssumption == MaxFaultRetries \in Nat \ {0} /\ MaxFrames \in Nat
ASSUME VerdictAssumption ==
    /\ FaultVerdicts \subseteq {"stop", "retry", "restart", "redirect"}
    /\ {"continue"} \subseteq TrapVerdicts /\ TrapVerdicts \subseteq {"continue", "handled", "stop"}
    /\ {"continue"} \subseteq HookVerdicts
    /\ HookVerdicts \subseteq {"continue", "skip", "stop", "stop_none"}

Handler == Length           \* where every vector leads; an IRET is there
Body == 0..Length-1

VARIABLES
    prog,       \* address -> kind
    watch,      \* a data breakpoint covers the data of store, movss and rep
    bps,        \* addresses with an enabled execute breakpoint
    cpu,        \* [rip, rf, tf, shadow, pss, pend, dr6, frames]
    phase,      \* "ready" between steps, "trying" inside one
    attempt,    \* the attempt counter of step
    start,      \* instruction_start_rip
    stop,       \* stop_requested_
    res,        \* reason and retired count of the last step
    viol,       \* has_violation_, violation_reason_, violation_ip_
    event,      \* what the last attempt delivered: "none", "execbp", "db", "taken"
    suppressed, \* history: RF or the shadow was set when the step began
    owed        \* history: debug reasons ("bs", "data") that occurred and DR6 does not show yet

stepVars == <<attempt, start, suppressed>>
vars == <<prog, watch, bps, cpu, phase, attempt, start, stop, res, viol, event,
          suppressed, owed>>

NoViolation == [reason |-> "none", ip |-> 0]

Init ==
    /\ prog \in [Body -> Kinds]
    /\ watch \in Watches
    /\ bps \in Breakpoints
    /\ \E tf \in BOOLEAN :
          cpu = [rip |-> 0, rf |-> FALSE, tf |-> tf, shadow |-> FALSE, pss |-> FALSE,
                 pend |-> FALSE, dr6 |-> {}, frames |-> <<>>]
    /\ phase = "ready"
    /\ attempt = 0
    /\ start = 0
    /\ stop = FALSE
    /\ res = [reason |-> "none", retired |-> 0]
    /\ viol = NoViolation
    /\ event = "none"
    /\ suppressed = FALSE
    /\ owed = {}

(* The part of CpuState the debug facilities use.                          *)
Frame == [rip : 0..Handler, rf : BOOLEAN, tf : BOOLEAN]
Cpu == [rip : 0..Handler, rf : BOOLEAN, tf : BOOLEAN, shadow : BOOLEAN, pss : BOOLEAN,
        pend : BOOLEAN, dr6 : SUBSET {"exec", "bs", "data"}, frames : Seq(Frame)]

KindAt(a) == IF a = Handler THEN "iret" ELSE prog[a]
NextRip(a) == (a + 1) % Length

-----------------------------------------------------------------------------
(* The ways a step ends.                                                   *)

(* record_violation keeps only faults.                                     *)
NotAFault == {"none", "halted", "execution_limit", "stop_requested"}

(* Every exit: the result and the violation record.                        *)
Finish(c, reason, retired) ==
    /\ cpu' = c
    /\ phase' = "ready"
    /\ res' = [reason |-> reason, retired |-> retired]
    /\ viol' = IF reason \in NotAFault THEN viol ELSE [reason |-> reason, ip |-> start]
    /\ UNCHANGED <<prog, watch, bps, stop>>
    /\ UNCHANGED stepVars

(* try_recover_fault: the fault hooks may have the instruction tried again *)
(* with the CPU as the failed attempt left it (c), where the hook has      *)
(* moved RIP to, or from its start; otherwise the step ends with the CPU   *)
(* state final.                                                            *)
RetryRips(c) ==
    (IF "retry" \in FaultVerdicts THEN {c.rip} ELSE {})
        \cup (IF "redirect" \in FaultVerdicts THEN {Handler} ELSE {})
        \cup (IF "restart" \in FaultVerdicts THEN {start} ELSE {})

(* Mutation: a retry is not counted.                                       *)
FaultUncounted(c, final, reason) ==
    \/ /\ \E rip \in RetryRips(c) : cpu' = [c EXCEPT !.rip = rip]
       /\ UNCHANGED <<prog, watch, bps, phase, attempt, start, stop, res, viol, suppressed>>
    \/ "stop" \in FaultVerdicts /\ Finish(final, reason, 0)

Fault(c, final, reason) ==
    \/ /\ \E rip \in RetryRips(c) : cpu' = [c EXCEPT !.rip = rip]
       /\ attempt' = attempt + 1
       /\ UNCHANGED <<prog, watch, bps, phase, start, stop, res, viol, suppressed>>
    \/ "stop" \in FaultVerdicts /\ Finish(final, reason, 0)

(* dispatch_interrupt: the frame takes the flags (RF on demand) and the    *)
(* return address; TF is cleared.  It fails when the frame does not fit.   *)
Fits(c) == Len(c.frames) < MaxFrames
Entered(c, ret, pushRf) ==
    [c EXCEPT !.frames = Append(c.frames, [rip |-> ret, rf |-> c.rf \/ pushRf, tf |-> c.tf]),
              !.tf = FALSE, !.rip = Handler]

-----------------------------------------------------------------------------
(* The start of a step.                                                    *)
BeginStep ==
    /\ phase = "ready"
    /\ ~stop
    /\ phase' = "trying"
    /\ attempt' = 0
    /\ start' = cpu.rip
    /\ suppressed' = (cpu.rf \/ cpu.shadow)
    /\ viol' = NoViolation
    /\ event' = "none"
    /\ UNCHANGED <<prog, watch, bps, cpu, stop, res, owed>>

(* Mutation: the violation of the step before is not cleared.              *)
StepStoppedKeepsViolation ==
    /\ phase = "ready"
    /\ stop
    /\ res' = [reason |-> "stop_requested", retired |-> 0]
    /\ event' = "none"
    /\ UNCHANGED <<prog, watch, bps, cpu, phase, viol, stop, owed>>
    /\ UNCHANGED stepVars

(* A stop request found at the start of a step ends it at once.            *)
StepStopped ==
    /\ phase = "ready"
    /\ stop
    /\ res' = [reason |-> "stop_requested", retired |-> 0]
    /\ viol' = NoViolation
    /\ event' = "none"
    /\ UNCHANGED <<prog, watch, bps, cpu, phase, stop, owed>>
    /\ UNCHANGED stepVars

Trying == phase = "trying" /\ attempt < MaxFaultRetries

GiveUp ==
    /\ phase = "trying"
    /\ attempt = MaxFaultRetries
    /\ event' = "none"
    /\ UNCHANGED owed
    /\ Finish(cpu, "execution_limit", 0)

-----------------------------------------------------------------------------
(* Faults before RF and the shadow are consumed: the fetch fails, the      *)
(* bytes do not decode, the SIMD profile forbids the instruction.          *)
EarlyReason(kind) ==
    CASE kind = "nofetch" -> "page_fault"
      [] kind = "undecodable" -> "decode_error"
      [] kind = "nosimd" -> "unsupported_instruction"

EarlyFault ==
    /\ Trying
    /\ KindAt(cpu.rip) \in {"nofetch", "undecodable", "nosimd"}
    /\ event' = "none"
    /\ UNCHANGED owed
    /\ Fault(cpu, cpu, EarlyReason(KindAt(cpu.rip)))

(* Code::INVALID: the invalid-opcode trap hooks may skip it.               *)
InvalidOpcode ==
    /\ Trying
    /\ KindAt(cpu.rip) = "invalid"
    /\ event' = "none"
    /\ UNCHANGED owed
    /\ \/ "handled" \in TrapVerdicts /\ Finish([cpu EXCEPT !.rip = NextRip(cpu.rip)], "none", 1)
       \/ Fault(cpu, cpu, "invalid_opcode")

-----------------------------------------------------------------------------
(* From here on the attempt has consumed RF and the shadow.                *)
Consumed == [cpu EXCEPT !.rf = FALSE, !.shadow = FALSE]

Decoded ==
    Trying /\ KindAt(cpu.rip) \notin {"nofetch", "undecodable", "nosimd", "invalid"}

(* Mutations: the shadow is not looked at; the wrong address is compared.  *)
BreakpointHitInShadow == ~cpu.rf /\ start \in bps
BreakpointHitNext == ~cpu.rf /\ ~cpu.shadow /\ start + 1 \in bps

BreakpointHit == ~cpu.rf /\ ~cpu.shadow /\ start \in bps

(* An execute breakpoint is delivered before the instruction; the frame    *)
(* returns to it.                                                          *)
ExecuteBreakpoint ==
    LET c == [Consumed EXCEPT !.dr6 = @ \cup {"exec"}]
    IN /\ Decoded
       /\ BreakpointHit
       /\ UNCHANGED owed
       /\ IF Fits(c)
          THEN event' = "execbp" /\ Finish(Entered(c, start, FALSE), "none", 0)
          ELSE event' = "none" /\ Fault(c, c, "page_fault")

Unbroken == Decoded /\ ~BreakpointHit

(* A trap hook for a SYSCALL, CPUID, INT... or an instruction hook handles *)
(* the instruction: RIP advances unless the hook moved it.                 *)
TakenOver(rip) == IF rip = start THEN NextRip(cpu.rip) ELSE rip

HookHandled ==
    /\ Unbroken
    /\ \/ "handled" \in TrapVerdicts /\ KindAt(cpu.rip) \in {"trap", "int"}
       \/ "skip" \in HookVerdicts
    /\ event' = "taken"
    /\ UNCHANGED owed
    /\ \E rip \in {cpu.rip, 0} : Finish([Consumed EXCEPT !.rip = TakenOver(rip)], "none", 1)

(* A hook stops the step with a fault of its own.                          *)
HookStopped ==
    /\ Unbroken
    /\ \/ "stop" \in TrapVerdicts /\ KindAt(cpu.rip) \in {"trap", "int"}
       \/ "stop" \in HookVerdicts
    /\ event' = "none"
    /\ UNCHANGED owed
    /\ Fault(Consumed, Consumed, "general_protection")

(* An instruction hook that stops without a reason: nothing is counted and *)
(* no stop hook runs.                                                      *)
HookStoppedQuietly ==
    /\ Unbroken
    /\ "stop_none" \in HookVerdicts
    /\ event' = "none"
    /\ UNCHANGED owed
    /\ Finish(Consumed, "none", 0)

-----------------------------------------------------------------------------
(* The core: the handler of the instruction ran.                           *)

(* The DR6 bits for a single step and for data breakpoints.                *)
Reasons(step, data) ==
    {r \in {"bs", "data"} : IF r = "bs" THEN step ELSE data}

(* It completed in state c; hits is a data breakpoint hit and pushRf what  *)
(* note_debug_break asks for.  A shadow set by this instruction defers the *)
(* report; otherwise pending and new reasons are reported together.        *)
Completed(c, hits, pushRf) ==
    LET data == c.pend \/ hits
        tfHit == c.pss \/ (~cpu.shadow /\ cpu.tf)
        shown == Reasons(tfHit, data)
        due == owed \cup Reasons(cpu.tf, hits)
        db == [c EXCEPT !.dr6 = @ \cup shown, !.pss = FALSE, !.pend = FALSE]
    IN IF c.shadow
       THEN event' = "none" /\ owed' = due /\ Finish([c EXCEPT !.pend = data], "none", 1)
       ELSE /\ owed' = due \ shown
            /\ IF shown = {} THEN event' = "none" /\ Finish(c, "none", 1)
               ELSE IF Fits(db)
               THEN event' = "db" /\ Finish(Entered(db, db.rip, pushRf), "none", 1)
               ELSE event' = "none" /\ Finish(db, "page_fault", 0)

(* Mutation: a fault in the shadow drops nothing.                          *)
CoreFaultKeepsPending(reason) ==
    event' = "none" /\ Fault(Consumed, Consumed, reason) /\ UNCHANGED owed

(* It failed: a fault in the shadow drops what was pending.                *)
CoreFault(reason) ==
    /\ event' = "none"
    /\ Fault(Consumed, IF cpu.shadow THEN [Consumed EXCEPT !.pss = FALSE, !.pend = FALSE]
                       ELSE Consumed, reason)
    /\ owed' = IF phase' = "ready" /\ cpu.shadow THEN {} ELSE owed

Executes(kind) ==
    /\ Unbroken
    /\ KindAt(cpu.rip) = kind

Advanced == [Consumed EXCEPT !.rip = NextRip(cpu.rip)]

CorePlain ==
    \E kind \in {"plain", "trap"} : Executes(kind) /\ Completed(Advanced, FALSE, FALSE)

CoreStore ==
    /\ Executes("store")
    /\ Completed(Advanced, watch, FALSE) \/ CoreFault("page_fault")

(* Mutation: the single step of the SS load is not remembered.             *)
CoreMovSsForgets ==
    /\ Executes("movss")
    /\ \/ \E hits \in {FALSE, watch} : Completed([Advanced EXCEPT !.shadow = TRUE], hits, FALSE)
       \/ CoreFault("page_fault")

(* MOV SS / POP SS, from a register or from watched memory.                *)
CoreMovSs ==
    /\ Executes("movss")
    /\ \/ \E hits \in {FALSE, watch} :
             Completed([Advanced EXCEPT !.shadow = TRUE, !.pss = @ \/ cpu.tf], hits, FALSE)
       \/ CoreFault("page_fault")

(* A repeated string instruction stops at a watched element with RIP on    *)
(* itself and RF in the frame, or runs to its end.                         *)
CoreRep ==
    /\ Executes("rep")
    /\ \/ Completed(Advanced, watch, FALSE)
       \/ watch /\ Completed(Consumed, TRUE, TRUE)
       \/ CoreFault("page_fault")

(* POPFQ loads TF and never RF.                                            *)
CorePopf ==
    /\ Executes("popf")
    /\ \/ \E tf \in BOOLEAN : Completed([Advanced EXCEPT !.tf = tf], FALSE, FALSE)
       \/ CoreFault("page_fault")

CoreInt ==
    /\ Executes("int")
    /\ IF Fits(Consumed)
       THEN Completed(Entered(Consumed, NextRip(cpu.rip), FALSE), FALSE, FALSE)
       ELSE CoreFault("page_fault")

CoreIret ==
    /\ Executes("iret")
    /\ IF cpu.frames = <<>> THEN CoreFault("page_fault")
       ELSE LET f == cpu.frames[Len(cpu.frames)]
            IN Completed([Consumed EXCEPT !.frames = SubSeq(@, 1, Len(@) - 1),
                             !.rip = f.rip, !.rf = f.rf, !.tf = f.tf], FALSE, FALSE)

CoreHlt == Executes("hlt") /\ CoreFault("halted")

Core ==
    \/ CorePlain \/ CoreStore \/ CoreMovSs \/ CoreRep \/ CorePopf
    \/ CoreInt \/ CoreIret \/ CoreHlt

-----------------------------------------------------------------------------
(* Between steps: the debugger resumes over a breakpoint by setting RF,    *)
(* the host requests or clears a stop.                                     *)
SetRf ==
    /\ phase = "ready"
    /\ ~cpu.rf
    /\ cpu' = [cpu EXCEPT !.rf = TRUE]
    /\ UNCHANGED <<prog, watch, bps, phase, stop, res, viol, event, owed>>
    /\ UNCHANGED stepVars

RequestStop ==
    /\ stop' = ~stop
    /\ UNCHANGED <<prog, watch, bps, cpu, phase, res, viol, event, owed>>
    /\ UNCHANGED stepVars

Attempt ==
    \/ EarlyFault \/ InvalidOpcode \/ ExecuteBreakpoint
    \/ HookHandled \/ HookStopped \/ HookStoppedQuietly \/ Core

Next == BeginStep \/ StepStopped \/ GiveUp \/ Attempt \/ SetRf \/ RequestStop

Spec == Init /\ [][Next]_vars
(* The thread inside step keeps running.                                   *)
FairSpec == Spec /\ WF_vars(GiveUp \/ Attempt)

-----------------------------------------------------------------------------
(* Type correctness of the CPU and of the step in progress.                *)
ExTypeOK ==
    /\ cpu \in Cpu
    /\ Len(cpu.frames) <= MaxFrames
    /\ attempt \in 0..MaxFaultRetries
    /\ start \in 0..Handler
    /\ phase \in {"ready", "trying"}
    /\ event \in {"none", "execbp", "db", "taken"}
    /\ viol.ip \in 0..Handler

(* No debug exception gets lost: a single step or a data breakpoint that   *)
(* occurred is in DR6, or is one of the two pending reasons that the end   *)
(* of step reports with the next completed instruction (executor.cpp,      *)
(* pending_single_step and pending_debug_hit_bits).  Only a fault in the   *)
(* shadow of an SS load drops it.                                          *)
DebugReasonsAccounted ==
    phase = "ready" =>
        owed = Reasons(cpu.pss, cpu.pend)

(* Between two steps something is pending only in the shadow of an SS      *)
(* load: the instruction after it either reports or, when it faults,       *)
(* drops what was pending ("DelayedSsLoadDataBreakpointIsLostOnFault",     *)
(* tests/kubera_debug_tests.cpp), so that no later instruction is blamed.  *)
PendingOnlyInShadow ==
    phase = "ready" /\ (cpu.pss \/ cpu.pend) => cpu.shadow

(* A step that began with RF set or in the shadow of an SS load does not   *)
(* report an execute breakpoint ("ExecuteBreakpointAndRfSuppression",      *)
(* tests/kubera_debug_tests.cpp).                                          *)
SuppressedStepNoBreakpoint == event = "execbp" => ~suppressed

(* An instruction with an execute breakpoint retires only in a step that   *)
(* began with RF or the shadow: every other execution of it is preceded by *)
(* the report.                                                             *)
BreakpointAnnounced ==
    phase = "ready" /\ res.retired = 1 /\ start \in bps /\ KindAt(start) # "invalid" => suppressed

(* An execute breakpoint is reported once before its instruction runs: not *)
(* in a step that began with RF or the shadow, and in every other one.     *)
BreakpointsExact == SuppressedStepNoBreakpoint /\ BreakpointAnnounced

(* The violation record describes the step that has just returned: its     *)
(* fault at the address the step began at, and nothing when it ended       *)
(* without one, however many attempts failed on the way.                   *)
ViolationIsLastStep ==
    phase = "ready" =>
        viol = IF res.reason \in NotAFault THEN NoViolation
               ELSE [reason |-> res.reason, ip |-> start]

(* Every step returns, whatever the fault hooks answer: the number of      *)
(* attempts is bounded.                                                    *)
StepReturns == phase = "trying" ~> phase = "ready"
=============================================================================
