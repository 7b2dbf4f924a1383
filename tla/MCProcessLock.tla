---------------------------- MODULE MCProcessLock ----------------------------
(* Two or three process slots, started twice each; any may crash at any   *)
(* step.                                                                   *)
EXTENDS ProcessLock
=============================================================================
