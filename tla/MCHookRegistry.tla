--------------------------- MODULE MCHookRegistry ---------------------------
(* HookRegistry with a few hooks; the cfg files choose the lists in use.   *)
EXTENDS HookRegistry
=============================================================================
