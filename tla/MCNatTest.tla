------------------------------ MODULE MCNatTest ------------------------------
(***************************************************************************)
(* NatTest for TLC: every NAT of three mappings by three filters, calm or  *)
(* not; one datagram more than the test sends may be recorded.             *)
(***************************************************************************)
EXTENDS NatTest
=============================================================================
