---------------------------- MODULE MCConnection ----------------------------
(* Model-checking instances of Connection. *)
EXTENDS Connection

MCHandles == 1 .. 2
MCCompiled == 1 .. 2
MCMaps == 1 .. 2
=============================================================================
