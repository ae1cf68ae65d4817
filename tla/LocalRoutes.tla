----------------------------- MODULE LocalRoutes -----------------------------
(***************************************************************************)
(* What the client makes of the routing tables of Linux: local_linux.go    *)
(* and detectTUN of attribution.go, next to what the kernel does with the  *)
(* same table.  A table is the sequence of lines of /proc/net/route or of  *)
(* /proc/net/ipv6_route that matter here.                                  *)
(***************************************************************************)
EXTENDS Integers, Sequences, SequencesExt

(* "any" is 0.0.0.0/0, "half" 0.0.0.0/1, "host" the address of the probe, which *)
(* lies in that half.  A route that rejects what it matches has the interface   *)
(* "*", or "lo" in the table of IPv6.                                           *)
Prefix == [host |-> 32, half |-> 1, any |-> 0]

Entry == [dest : DOMAIN Prefix, iface : {"eth0", "wlan0", "tun0", "lo", "*"}, metric : Nat,
          by : {"system", "netsee"}]

(* Of several routes the one with the longest prefix, and of these the one *)
(* with the lowest metric.                                                 *)
Via(table) ==
  (CHOOSE e \in ToSet(table) : \A f \in ToSet(table) :
     \/ Prefix[e.dest] > Prefix[f.dest]
     \/ e.dest = f.dest /\ e.metric <= f.metric).iface

-----------------------------------------------------------------------------
(* A prefix of the name decides: tun, utun, wg. *)
isTUNInterface(iface) == iface = "tun0"

(* The files give the destination and the mask in columns of their own; the    *)
(* mask of /proc/net/route is not looked at, so "half" is a default route too.  *)
Default(e) == e.dest \in {"any", "half"}

(* The interface of the first line of a table with the lowest metric among *)
(* the lines that count; "" stands for the error.                          *)
Lowest(table, lines) ==
  IF lines = {} THEN ""
  ELSE table[CHOOSE i \in lines : \A j \in lines :
               \/ table[i].metric < table[j].metric
               \/ table[i].metric = table[j].metric /\ i <= j].iface

(* Mutant: the mask is looked at. *)
MutantWhole(table) == Lowest(table, {i \in DOMAIN table : table[i].dest = "any"})

parseRouteV4(table) == Lowest(table, {i \in DOMAIN table : Default(table[i])})

PhysicalLines(table) ==
  {i \in DOMAIN table : Default(table[i]) /\ ~isTUNInterface(table[i].iface)}

parsePhysicalV4(table) == Lowest(table, PhysicalLines(table))

(* Here the length of the prefix has to be 0. *)
parseRouteV6(table) == Lowest(table, {i \in DOMAIN table : table[i].dest = "any"})

detectTUN(routes) ==
  isTUNInterface(parseRouteV4(routes.v4)) \/ isTUNInterface(parseRouteV6(routes.v6))
=============================================================================
