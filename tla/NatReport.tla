------------------------------ MODULE NatReport ------------------------------
(***************************************************************************)
(* What RunNAT of internal/client/nat.go promises the rest of the client:  *)
(* what a test may come to, given what the network does to the probe's two *)
(* UDP ports.  NatTest sends the datagrams one by one and keeps to it;     *)
(* ClientRun takes the whole test for one step.                            *)
(***************************************************************************)
EXTENDS FiniteSets

UdpPorts == {"udp", "nat"}

(* arriving: the ports the client's datagrams reach.  open: those from which  *)
(* answers come back too.  A report says whether RunNAT returned a result,    *)
(* what the session holds by then, and which of EchoReceived (the UDP port)   *)
(* and NATReplyReceived (the NAT port) are set.                               *)
Reports(calm, arriving, open) ==
  {r \in [completed : BOOLEAN, recorded : SUBSET UdpPorts, answered : SUBSET UdpPorts] :
     /\ r.recorded \subseteq arriving
     /\ "nat" \in r.recorded => "udp" \in r.recorded
     /\ IF r.completed THEN r.recorded = UdpPorts ELSE r.answered = {}
     \* the first read returns nothing but the first answer, the fourth any that is late
     /\ "udp" \in r.answered => "udp" \in open
     /\ "nat" \in r.answered => open # {}
     /\ calm => IF arriving = UdpPorts THEN r.completed /\ r.answered = open
                ELSE r.recorded = arriving \cap {"udp"}}
=============================================================================
