------------------------------- MODULE MCPmtu -------------------------------
(***************************************************************************)
(* Pmtu for TLC: three to five rounds of search, over every path and every *)
(* first link up to MaxLink, so that both lie below, inside and above the  *)
(* sizes the search tries.                                                 *)
(***************************************************************************)
EXTENDS Pmtu

CONSTANT MaxLink   \* bound: the widest link

MCInit == iface \in 0..MaxLink /\ path \in 0..MaxLink /\ Init

MCSpec == MCInit /\ [][Next]_vars
MCFairSpec == MCSpec /\ WF_vars(Client) /\ WF_vars(calm /\ Network)
=============================================================================
