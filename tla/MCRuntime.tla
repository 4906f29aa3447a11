------------------------------- MODULE MCRuntime -------------------------------
(***************************************************************************)
(* Runtime with the code's own durations, in ticks of ten seconds.         *)
(***************************************************************************)
EXTENDS Runtime
==============================================================================
