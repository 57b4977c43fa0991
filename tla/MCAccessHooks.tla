---------------------------- MODULE MCAccessHooks ---------------------------
(* AccessHooks with a few hooks: values for the cfg file.                  *)
EXTENDS AccessHooks
MCMasks == {{"fetch"}, {"read", "write"}}
=============================================================================
