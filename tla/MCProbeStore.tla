---------------------------- MODULE MCProbeStore ----------------------------
(***************************************************************************)
(* ProbeStore for TLC.  Three sessions over a cap of two, so that opening  *)
(* the third evicts; a lifetime of two ticks on a clock of four, so that   *)
(* sessions expire, are appended to after that, and are opened again; two  *)
(* observations kept of any number added.                                  *)
(***************************************************************************)
EXTENDS ProbeStore
=============================================================================
