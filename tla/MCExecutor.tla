----------------------------- MODULE MCExecutor -----------------------------
(* Executor on small programs: values for the cfg files.                   *)
EXTENDS Executor
MCDebugKinds == {"plain", "store", "movss", "rep", "popf", "int", "invalid", "nofetch", "hlt"}
MCFaultKinds == {"plain", "store", "movss", "nofetch"}
MCHookKinds == {"store", "movss", "trap", "invalid", "undecodable", "nosimd"}
MCOneBreakpoint == {{1}}
(* A breakpoint in the program, or on the handler (address 3): entering it *)
(* raises the next exception until the stack is used up.                    *)
MCBreakpoints == {{}, {1}, {3}}
=============================================================================
