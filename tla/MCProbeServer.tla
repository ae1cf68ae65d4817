--------------------------- MODULE MCProbeServer ---------------------------
(***************************************************************************)
(* ProbeServer for TLC: one extra port, one connection, one HTTP request, *)
(* two goroutines that may call Shutdown.                                  *)
(***************************************************************************)
EXTENDS ProbeServer

MCExtraPorts == <<"extra">>
=============================================================================
