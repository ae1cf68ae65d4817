----------------------------- MODULE MCClientRun -----------------------------
(***************************************************************************)
(* ClientRun for TLC: five ports with numbers of their own, and the routes *)
(* of three hosts.                                                         *)
(***************************************************************************)
EXTENDS ClientRun

MCNumber == [http |-> 8080, tls |-> 8443, udp |-> 8444, nat |-> 8445, extra |-> 9000]

Line(dest, iface, metric) == [dest |-> dest, iface |-> iface, metric |-> metric, by |-> "system"]

\* the largest number TLC has stands for the metric 0xffffffff of that line
NoV6 == <<Line("any", "lo", 2147483647)>>

(* A TUN that takes both halves of the addresses; a TUN before two physical    *)
(* default routes, with a route to the probe around it; a TUN whose physical   *)
(* route is withdrawn in favour of one that rejects everything.                *)
MCTables ==
  { [v4 |-> <<Line("half", "tun0", 0), Line("any", "eth0", 100)>>, v6 |-> NoV6],
    [v4 |-> <<Line("any", "tun0", 50), Line("any", "eth0", 100), Line("any", "wlan0", 600),
              Line("host", "eth0", 0)>>,
     v6 |-> NoV6],
    [v4 |-> <<Line("any", "tun0", 0), Line("any", "*", 1000)>>, v6 |-> <<Line("any", "tun0", 1024)>>] }
=============================================================================
