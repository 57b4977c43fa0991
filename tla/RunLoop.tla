------------------------------ MODULE RunLoop -------------------------------
(***************************************************************************)
(* Executor::run (seven_core/src/executor.cpp) and the backend's start and *)
(* stop around it (sogen_backend): one thread runs instructions, another   *)
(* one asks it to stop through the plain bool stop_requested_, which each  *)
(* iteration reads twice, in run and again in step.  The reads and writes  *)
(* of the flag are single steps here: opaque calls separate them, so the   *)
(* build reads the byte from memory each time.                             *)
(*                                                                         *)
(* What one instruction does is module Executor; here it ends in one of    *)
(* Outcomes; an instruction that completed and whose debug exception could *)
(* not be delivered is executed, and retired is 0.                         *)
(***************************************************************************)
EXTENDS Integers

CONSTANTS
    Slice,     \* kInstructionSlice
    Counts,    \* instruction counts the host passes to run and start
    Outcomes   \* ways the body of a step ends: <<reason, retired, executed>>

ASSUME CountsAssumption == Slice \in Nat \ {0} /\ Counts \subseteq Nat
ASSUME OutcomesAssumption ==
    \A o \in Outcomes : \/ o \in {<<"none", 0, 0>>, <<"none", 1, 1>>}
                        \/ o[1] \in {"fault", "halted", "execution_limit"} /\ o[2] = 0 /\ o[3] = 0
                        \/ o = <<"fault", 0, 1>>

VARIABLES
    pc,        \* where the running thread is
    caller,    \* "run": the host called Executor::run; "start": the backend's start
    count,     \* the count passed in
    max,       \* max_instructions of the run in progress
    i,         \* its loop counter
    stop,      \* stop_requested_
    res,       \* result of the last run: reason and retired
    ran,       \* history: instructions executed in this run
    notified,  \* history: stop-hook notifications in this run
    late,      \* history: instructions executed since stop was last set
    asked      \* history: a stop was requested during this call and has not ended it

vars == <<pc, caller, count, max, i, stop, res, ran, notified, late, asked>>

Init ==
    /\ pc = "idle"
    /\ caller = "run"
    /\ count = 0
    /\ max = 0
    /\ i = 0
    /\ stop = FALSE
    /\ res = [reason |-> "none", retired |-> 0]
    /\ ran = 0
    /\ notified = 0
    /\ late = 0
    /\ asked = FALSE

-----------------------------------------------------------------------------
(* The host enters run directly, or start.                                 *)
CallRun ==
    /\ pc = "idle"
    /\ \E n \in Counts : count' = n /\ max' = n
    /\ pc' = "loop"
    /\ caller' = "run"
    /\ i' = 0
    /\ ran' = 0
    /\ notified' = 0
    /\ asked' = FALSE
    /\ UNCHANGED <<stop, res, late>>

CallStart ==
    /\ pc = "idle"
    /\ \E n \in Counts : count' = n
    /\ pc' = "entered"
    /\ caller' = "start"
    /\ asked' = FALSE
    /\ UNCHANGED <<max, i, stop, res, ran, notified, late>>

(* start clears the stop flag, then runs count instructions or the first   *)
(* slice.                                                                  *)
EnterStart ==
    /\ pc = "entered"
    /\ stop' = FALSE
    /\ late' = 0
    /\ max' = IF count = 0 THEN Slice ELSE count
    /\ i' = 0
    /\ ran' = 0
    /\ notified' = 0
    /\ pc' = "loop"
    /\ UNCHANGED <<caller, count, res, asked>>

-----------------------------------------------------------------------------

(* Mutation: the end of a run at its limit is not announced.               *)
ReturnSilentLimit(reason, retired) ==
    /\ pc' = "returned"
    /\ res' = [reason |-> reason, retired |-> retired]
    /\ notified' = IF reason = "execution_limit" THEN notified ELSE notified + 1
    /\ UNCHANGED <<caller, count, max, i, stop, asked>>

(* Executor::run.                                                          *)
Return(reason, retired) ==
    /\ pc' = "returned"
    /\ res' = [reason |-> reason, retired |-> retired]
    /\ notified' = notified + 1
    /\ UNCHANGED <<caller, count, max, i, stop, asked>>

(* Mutations: the limit is off by one; run does not look at the flag.      *)
IterateOneMore ==
    /\ pc = "loop"
    /\ i <= max
    /\ UNCHANGED <<ran, late>>
    /\ IF stop THEN Return("stop_requested", i)
       ELSE pc' = "step" /\ UNCHANGED <<caller, count, max, i, stop, res, notified, asked>>

IterateOnce ==
    /\ pc = "loop"
    /\ i < max
    /\ UNCHANGED <<ran, late>>
    /\ IF stop /\ i = 0 THEN Return("stop_requested", i)
       ELSE pc' = "body" /\ UNCHANGED <<caller, count, max, i, stop, res, notified, asked>>

(* The check at the top of an iteration.                                   *)
Iterate ==
    /\ pc = "loop"
    /\ i < max
    /\ UNCHANGED <<ran, late>>
    /\ IF stop THEN Return("stop_requested", i)
       ELSE pc' = "step" /\ UNCHANGED <<caller, count, max, i, stop, res, notified, asked>>

LimitReached ==
    /\ pc = "loop"
    /\ i = max
    /\ UNCHANGED <<ran, late>>
    /\ Return("execution_limit", max)

(* The check at the start of step.                                         *)
EnterStep ==
    /\ pc = "step"
    /\ UNCHANGED <<ran, late>>
    /\ IF stop THEN Return("stop_requested", i)
       ELSE pc' = "body" /\ UNCHANGED <<caller, count, max, i, stop, res, notified, asked>>

(* The rest of step.                                                       *)
Instruction ==
    /\ pc = "body"
    /\ \E o \in Outcomes :
          /\ ran' = ran + o[3]
          /\ late' = IF stop THEN late + o[3] ELSE late
          /\ IF o[1] = "none"
             THEN /\ pc' = "loop"
                  /\ i' = i + 1
                  /\ UNCHANGED <<caller, count, max, stop, res, notified, asked>>
             ELSE Return(o[1], i + o[2])

-----------------------------------------------------------------------------

(* Mutation: every slice clears the stop request.                          *)
NextSliceClears ==
    /\ pc = "returned"
    /\ caller = "start" /\ count = 0 /\ res.reason = "execution_limit"
    /\ pc' = "loop"
    /\ i' = 0
    /\ ran' = 0
    /\ notified' = 0
    /\ stop' = FALSE
    /\ UNCHANGED <<caller, count, max, res, late, asked>>

(* Back in the caller: start(0) runs the next slice as long as the reason  *)
(* is execution_limit, every other call returns.                           *)
NextSlice ==
    /\ pc = "returned"
    /\ caller = "start" /\ count = 0 /\ res.reason = "execution_limit"
    /\ pc' = "loop"
    /\ i' = 0
    /\ ran' = 0
    /\ notified' = 0
    /\ UNCHANGED <<caller, count, max, stop, res, late, asked>>

CallReturns ==
    /\ pc = "returned"
    /\ ~(caller = "start" /\ count = 0 /\ res.reason = "execution_limit")
    /\ pc' = "idle"
    /\ asked' = FALSE
    /\ UNCHANGED <<caller, count, max, i, stop, res, ran, notified, late>>

(* request_stop, from another thread or from a hook; clear_stop_request,   *)
(* by a host that wants to run again.                                      *)
RequestStop ==
    /\ stop' = TRUE
    /\ late' = IF stop THEN late ELSE 0
    /\ asked' = (pc # "idle")
    /\ UNCHANGED <<pc, caller, count, max, i, res, ran, notified>>

ClearStopRequest ==
    /\ pc = "idle"
    /\ stop' = FALSE
    /\ late' = 0
    /\ UNCHANGED <<pc, caller, count, max, i, res, ran, notified, asked>>

Running ==
    \/ EnterStart \/ Iterate \/ LimitReached \/ EnterStep \/ Instruction
    \/ NextSlice \/ CallReturns

Next == CallRun \/ CallStart \/ Running \/ RequestStop \/ ClearStopRequest

(* The running thread is scheduled; nobody has to call or to stop.         *)
Spec == Init /\ [][Next]_vars /\ WF_vars(Running)

-----------------------------------------------------------------------------
(* Type correctness of the loop's state.                                   *)
RunTypeOK ==
    /\ pc \in {"idle", "entered", "loop", "step", "body", "returned"}
    /\ max \in Nat /\ i \in 0..max
    /\ res.retired \in Nat

(* run tells the stop hooks once how it ended, whether step or run itself  *)
(* saw the end.                                                            *)
RunNotifiesOnce == pc = "returned" => notified = 1

(* "Up to N instructions" (README.md): run executes at most N and reports  *)
(* at least what it executed and at most N as retired (steps that retire   *)
(* nothing, a reported breakpoint or a hook that stops quietly, count      *)
(* too); only a fault may hide the one instruction it came after.          *)
RetiredWithinLimit ==
    pc = "returned" =>
        /\ ran <= max /\ res.retired <= max
        /\ ran <= res.retired + (IF res.reason = "fault" THEN 1 ELSE 0)

(* After a stop request at most the instruction in flight is executed, as  *)
(* long as nobody clears the request.                                      *)
StopWithinOneInstruction == late <= 1

(* A stop request that is not cleared ends the call, a start(0) that goes  *)
(* from slice to slice included.                                           *)
StopEndsCall == (stop /\ pc \in {"loop", "step", "body", "returned"}) ~> pc = "idle"

(* "Run unbounded execution in slices so request_stop() can preempt thread *)
(* spins" (seven_x86_64_emulator.cpp): a stop requested while start is     *)
(* running ends it.                                                        *)
StopPreemptsStart == asked ~> ~asked
=============================================================================
