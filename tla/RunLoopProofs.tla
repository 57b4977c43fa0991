--------------------------- MODULE RunLoopProofs ----------------------------
(***************************************************************************)
(* What holds of Executor::run and the backend's start for every count,    *)
(* every slice length and every way an instruction may end: the bounds on  *)
(* what is executed and reported, one notification per run, and at most    *)
(* one instruction after a stop request.                                   *)
(*                                                                         *)
(* The inductive invariant follows the loop: before an instruction the     *)
(* counter is below the limit and bounds what was executed (Counting), and *)
(* an instruction in flight started before the request (InFlight).         *)
(***************************************************************************)
EXTENDS RunLoop, TLAPS

Counters == ran \in Nat /\ late \in Nat /\ notified \in Nat /\ count \in Nat
Counting ==
    /\ pc \in {"loop", "step", "body"} => ran <= i /\ notified = 0
    /\ pc \in {"step", "body"} => i < max
InFlight == late <= 1 /\ (stop = TRUE /\ pc = "body" => late = 0)
RInv == /\ RunTypeOK /\ Counters /\ Counting /\ InFlight
        /\ RunNotifiesOnce /\ RetiredWithinLimit

USE CountsAssumption

(* A run that ends keeps the invariant if what it reports is in bounds.    *)
LEMMA ReturnRInv ==
  ASSUME RInv, NEW reason, NEW retired \in Nat, Return(reason, retired),
         notified = 0, ran' \in Nat, late' \in Nat, late' <= 1,
         ran' <= max, retired <= max,
         ran' <= retired + (IF reason = "fault" THEN 1 ELSE 0)
  PROVE  RInv'
  BY DEF Return, RInv, RunTypeOK, Counters, Counting, InFlight, RunNotifiesOnce, RetiredWithinLimit

(* Every step of the loop, the host and the stopping thread keeps it.      *)
LEMMA NextRInv == RInv /\ [Next]_vars => RInv'
<1> SUFFICES ASSUME RInv, [Next]_vars PROVE RInv'
  OBVIOUS
<1>0. /\ i \in Nat /\ max \in Nat /\ i <= max /\ ran \in Nat /\ late \in Nat /\ late <= 1
      /\ pc \in {"loop", "step", "body"} => ran <= i /\ notified = 0
  BY DEF RInv, RunTypeOK, Counters, Counting, InFlight
<1>a. ASSUME NEW reason, NEW n \in Nat, reason # "fault", Return(reason, n), ran' = ran,
             late' = late, pc \in {"loop", "step"}, n <= max, i <= n
      PROVE  RInv'
  <2>1. ran <= n /\ n + 0 = n /\ ran <= max
    BY <1>0, <1>a
  <2>2. ran' <= n + (IF reason = "fault" THEN 1 ELSE 0)
    BY <1>a, <2>1
  <2> QED
    BY <1>0, <1>a, <2>1, <2>2, ReturnRInv
<1>b. ASSUME Iterate \/ EnterStep, stop PROVE RInv'
  <2>1. Return("stop_requested", i) /\ ran' = ran /\ late' = late /\ pc \in {"loop", "step"}
    BY <1>b DEF Iterate, EnterStep
  <2> QED
    BY <1>0, <1>a, <2>1
<1>c. ASSUME LimitReached PROVE RInv'
  <2>1. Return("execution_limit", max) /\ ran' = ran /\ late' = late /\ pc = "loop" /\ i = max
    BY <1>c DEF LimitReached
  <2> QED
    BY <1>0, <1>a, <2>1
<1> USE DEF RInv, RunTypeOK, Counters, Counting, InFlight, RunNotifiesOnce, RetiredWithinLimit
<1>1. CASE CallRun
  BY <1>1 DEF CallRun
<1>2. CASE CallStart
  BY <1>2 DEF CallStart
<1>3. CASE EnterStart
  BY <1>3 DEF EnterStart
<1>4. CASE Iterate
  <2>1. CASE stop
    BY <1>b, <1>4, <2>1
  <2>2. CASE ~stop
    BY <1>4, <2>2 DEF Iterate
  <2> QED
    BY <2>1, <2>2
<1>5. CASE LimitReached
  BY <1>c, <1>5
<1>6. CASE EnterStep
  <2>1. CASE stop
    BY <1>b, <1>6, <2>1
  <2>2. CASE ~stop
    BY <1>6, <2>2 DEF EnterStep
  <2> QED
    BY <2>1, <2>2
<1>7. CASE Instruction
  <2>1. PICK o \in Outcomes :
          /\ ran' = ran + o[3]
          /\ late' = IF stop THEN late + o[3] ELSE late
          /\ IF o[1] = "none"
             THEN /\ pc' = "loop"
                  /\ i' = i + 1
                  /\ UNCHANGED <<caller, count, max, stop, res, notified, asked>>
             ELSE Return(o[1], i + o[2])
    BY <1>7 DEF Instruction
  <2>2. o[2] \in {0, 1} /\ o[3] \in {0, 1} /\ (o[3] <= o[2] \/ o[1] = "fault") /\ (o[2] = 1 => o[1] = "none")
    BY OutcomesAssumption
  <2>3. pc = "body" /\ ran <= i /\ i < max /\ notified = 0
    BY <1>7 DEF Instruction
  <2>4. ran' \in Nat /\ late' \in Nat /\ late' <= 1 /\ ran' <= i + o[3]
    BY <2>1, <2>2, <2>3
  <2>5. CASE o[1] = "none"
    BY <2>1, <2>2, <2>3, <2>4, <2>5
  <2>6. CASE o[1] # "none"
    <3>1. Return(o[1], i + o[2]) /\ o[2] = 0
      BY <2>1, <2>2, <2>6
    <3>2. i + o[2] \in Nat /\ i + o[2] <= max /\ ran' <= max
          /\ ran' <= (i + o[2]) + (IF o[1] = "fault" THEN 1 ELSE 0)
      BY <2>2, <2>3, <2>4, <3>1
    <3> QED
      BY <2>3, <2>4, <3>1, <3>2, ReturnRInv
  <2> QED
    BY <2>5, <2>6
<1>8. CASE NextSlice
  BY <1>8 DEF NextSlice
<1>9. CASE CallReturns
  BY <1>9 DEF CallReturns
<1>10. CASE RequestStop
  BY <1>10 DEF RequestStop
<1>11. CASE ClearStopRequest
  BY <1>11 DEF ClearStopRequest
<1>12. CASE UNCHANGED vars
  BY <1>12 DEF vars
<1> QED
  BY <1>1, <1>2, <1>3, <1>4, <1>5, <1>6, <1>7, <1>8, <1>9, <1>10, <1>11, <1>12 DEF Next, Running

(* The initial state, where nothing has run.                               *)
LEMMA InitRInv == Init => RInv
  BY DEF Init, RInv, RunTypeOK, Counters, Counting, InFlight, RunNotifiesOnce, RetiredWithinLimit

(* "Up to N instructions": a run of Executor::run executes at most N       *)
(* instructions and what it reports is between that number and N.          *)
THEOREM RunIsBounded == Spec => []RetiredWithinLimit
<1>1. RInv => RetiredWithinLimit
  BY DEF RInv
<1> QED
  BY <1>1, InitRInv, NextRInv, PTL DEF Spec

(* A run notifies the stop hooks exactly once.                             *)
THEOREM OneNotificationPerRun == Spec => []RunNotifiesOnce
<1>1. RInv => RunNotifiesOnce
  BY DEF RInv
<1> QED
  BY <1>1, InitRInv, NextRInv, PTL DEF Spec

(* A stop request that is not cleared lets at most the instruction in      *)
(* flight execute, wherever between the two checks it arrives.             *)
THEOREM StopIsPrompt == Spec => []StopWithinOneInstruction
<1>1. RInv => StopWithinOneInstruction
  BY DEF RInv, InFlight, StopWithinOneInstruction
<1> QED
  BY <1>1, InitRInv, NextRInv, PTL DEF Spec
=============================================================================
