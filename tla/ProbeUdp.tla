------------------------------ MODULE ProbeUdp ------------------------------
(***************************************************************************)
(* How the probe answers one UDP datagram: internal/probe/udp.go,          *)
(* parseUDPPayload and handleUDPArrival.  The modules that put a network   *)
(* and a client around the probe share it.                                 *)
(*                                                                         *)
(* A datagram is a record of what the handler looks at: whether its JSON   *)
(* and session identifier are valid, its kind and its length.              *)
(***************************************************************************)
EXTENDS Naturals

CONSTANTS SecondIP,    \* Config.SecondIP is set
          MaxUDP,      \* Config.MaxUDP
          MaxUDPPMTU   \* Config.MaxUDPPMTU

ASSUME UdpAssumption == SecondIP \in BOOLEAN /\ MaxUDP \in Nat /\ MaxUDPPMTU \in Nat

Ports == {"udp", "nat"}   \* the two UDP sockets, named for their ports

(* Mutants: every datagram answered from the NAT socket; the "other-port" *)
(* case forgotten, which leaves the field empty; the NAT socket always on *)
(* the second IP.                                                         *)
MutantAnswerFromNat(port, kind) == "nat"

MutantNoOtherPort(port, kind) ==
  IF kind # "nat" THEN "same" ELSE IF SecondIP THEN "other-ip" ELSE ""

MutantNatElsewhere(port) == IF port = "nat" THEN "ip2" ELSE "ip1"

(* The socket a datagram of a kind that arrived at port is answered from. *)
ReplySocket(port, kind) == IF kind = "nat" THEN "nat" ELSE port

(* What the observation says of the reply, relative to the arrival port. *)
ReplyFrom(port, kind) ==
  IF kind # "nat" THEN "same"
  ELSE IF SecondIP THEN "other-ip"
  ELSE IF port # "nat" THEN "other-port" ELSE "same"

(* The address a socket is bound to: natLn moves to the second IP. *)
BoundIP(port) == IF port = "nat" /\ SecondIP THEN "ip2" ELSE "ip1"

(* Mutant: one limit for every kind. *)
MutantOneLimit(kind) == MaxUDP

SizeLimit(kind) == IF kind = "pmtu" THEN MaxUDPPMTU ELSE MaxUDP

(* The datagrams that are recorded and answered; all others leave no trace. *)
Accepted(d) ==
  /\ d.valid
  /\ d.len <= SizeLimit(d.kind)
  /\ d.kind \in {"echo", "reach", "pmtu", "nat"}
=============================================================================
