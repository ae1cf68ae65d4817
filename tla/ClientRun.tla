------------------------------ MODULE ClientRun ------------------------------
(***************************************************************************)
(* One run of the client, internal/client/run.go with session.go and       *)
(* dns.go: the sections in their order, the probe's handlers that record   *)
(* what reaches them while the client goes on, the pull, the connectivity  *)
(* checks, the attribution, and the second measurement of --direct with    *)
(* its host route.  RunNAT and RunPMTU are one step each here; NatTest and *)
(* Pmtu look inside them.                                                  *)
(*                                                                         *)
(* What the network does to each of the probe's ports is fixed for a       *)
(* measurement.  On a calm run no call of the client fails for any other   *)
(* reason, and the probe does not lose the session.                        *)
(***************************************************************************)
EXTENDS LocalRoutes, NatReport, Bags

CONSTANTS
  Number,     \* port numbers: a function on Service
  Tables,     \* the routing tables the client may find
  MaxFaults   \* bound on the ports of one measurement that are not "open"

Service == {"http", "tls", "udp", "nat", "extra"}

ASSUME RunAssumption ==
  /\ Number \in [Service -> Nat] /\ MaxFaults \in Nat
  /\ Tables \subseteq [v4 : Seq(Entry), v6 : Seq(Entry)]
  /\ \A t \in Tables : \A e \in ToSet(t.v4) \cup ToSet(t.v6) : e.by = "system"

VARIABLES
  calm,
  path,     \* service |-> what the network does to it
  pc,       \* the section Run is at
  level,    \* 1, or 2 inside runDirect
  routes,   \* the kernel's routes
  killed,   \* "ip route add" was killed after it had taken effect
  tun,      \* res.Attribution.TUN
  ok,       \* services whose client-side outcome is success
  natDone,  \* res.NAT # nil
  dns,      \* res.DNS: the judgment, "" for no res.DNS, and whether the system's
            \* answers were forged; dropped after pc = "pull", nothing but the
            \* report looks at it later
  held,     \* the probe holds the session
  seen,     \* services with an observation in it
  conn,     \* the probe's handlers: "none", "open", "closed"
  pulled    \* services with an observation Pull returned

probe == <<held, seen, conn>>
vars == <<calm, path, pc, level, routes, killed, tun, ok, natDone, dns, held, seen, conn, pulled>>

-----------------------------------------------------------------------------
(* "oneway": what the client sends arrives, no answer comes back.           *)
(* "intercepted": somebody else completes the TCP connection or answers.    *)
(* "reset": the ClientHello arrives, and the client is reset meanwhile.     *)
(* What answers HTTP in the probe's place is a cache: it keeps /echo to     *)
(* itself and lets /api/info and /api/session through.                      *)
Faults ==
  [http  |-> {"oneway", "blocked", "intercepted"},
   tls   |-> {"blocked", "intercepted", "reset"},
   udp   |-> {"oneway", "blocked"},
   nat   |-> {"oneway", "blocked"},
   extra |-> {"blocked", "intercepted"}]

Paths ==
  {p \in [Service -> UNION {Faults[s] : s \in Service} \cup {"open"}] :
     /\ \A s \in Service : p[s] \in Faults[s] \cup {"open"}
     /\ Cardinality({s \in Service : p[s] # "open"}) <= MaxFaults}

Truth == {"a"}   \* the addresses of the name; "x" is a forged one, "fake" is in 198.18.0.0/15
NoDNS == [judgment |-> "", forged |-> FALSE]

Init ==
  /\ calm \in BOOLEAN
  /\ path \in Paths
  /\ pc = "discover" /\ level = 1
  /\ routes \in Tables /\ killed = FALSE /\ tun = FALSE
  /\ ok = {} /\ natDone = FALSE /\ dns = NoDNS
  /\ held = FALSE /\ seen = {} /\ conn = [c \in {"http", "tls", "extra"} |-> "none"]
  /\ pulled = {}

-----------------------------------------------------------------------------
(* The probe. *)

(* Store.Append: the first observation of a session creates it.  One for a *)
(* session that has expired is lost.                                       *)
Recorded(S) ==
  \/ held' = (held \/ S # {}) /\ seen' = seen \cup S
  \/ ~calm /\ UNCHANGED <<held, seen>>

(* handleEcho and handleTLSConn record, then answer or close; handleExtraConn *)
(* answers first, but nobody reads that answer.                               *)
Handle(c) ==
  /\ conn[c] = "open"
  /\ Recorded({c})
  /\ conn' = [conn EXCEPT ![c] = "closed"]
  /\ UNCHANGED <<calm, path, pc, level, routes, killed, tun, ok, natDone, dns, pulled>>

(* The session expires or is evicted. *)
Lose ==
  /\ ~calm /\ held
  /\ held' = FALSE /\ seen' = {}
  /\ UNCHANGED <<calm, path, pc, level, routes, killed, tun, ok, natDone, dns, conn, pulled>>

-----------------------------------------------------------------------------
(* The sections of Run.  Goto(l) ends one; what it leaves alone is added. *)
Goto(l) == pc' = l /\ UNCHANGED <<calm, path, level, routes, killed, tun>>

(* NewSession asks on the HTTP port; unless the run is calm what disturbs    *)
(* that port may come and go between this request, the echo and the pull.    *)
(* Then CollectLocal reads the routes.                                       *)
Discover ==
  /\ pc = "discover"
  /\ path["http"] \in {"open", "intercepted"} \/ ~calm
  /\ tun' = detectTUN(routes)
  /\ pc' = "echo"
  /\ UNCHANGED <<calm, path, level, routes, killed, ok, natDone, dns, probe, pulled>>

(* Probe discovery is the only section whose failure ends the run. *)
DiscoverFails ==
  /\ pc = "discover"
  /\ path["http"] \in {"oneway", "blocked"} \/ ~calm
  /\ Goto(IF level = 1 THEN "returned" ELSE "restore")
  /\ UNCHANGED <<ok, natDone, dns, probe, pulled>>

(* HTTPEcho sends its request, TLSSniff and TCPReach dial: a service the      *)
(* network leaves to the probe gets a handler there.                          *)
Request(c) == conn' = [conn EXCEPT ![c] =
                IF path[c] \in {"open", "oneway", "reset"} THEN "open" ELSE @]

Echo ==
  /\ pc = "echo"
  /\ Request("http")
  /\ Goto("echoing")
  /\ UNCHANGED <<ok, natDone, dns, held, seen, pulled>>

EchoAnswered ==
  /\ pc = "echoing"
  /\ path["http"] = "intercepted" \/ (path["http"] = "open" /\ conn["http"] = "closed")
  /\ ok' = ok \cup {"http"}
  /\ Goto("sniff")
  /\ UNCHANGED <<natDone, dns, probe, pulled>>

EchoFails ==
  /\ pc = "echoing"
  /\ path["http"] \in {"oneway", "blocked"} \/ ~calm
  /\ Goto("sniff")
  /\ UNCHANGED <<ok, natDone, dns, probe, pulled>>

(* Only the dial decides the outcome of TLSSniff. *)
Sniff ==
  /\ pc = "sniff" /\ path["tls"] # "blocked"
  /\ ok' = ok \cup {"tls"}
  /\ Request("tls")
  /\ Goto("handshake")
  /\ UNCHANGED <<natDone, dns, held, seen, pulled>>

SniffFails ==
  /\ pc = "sniff"
  /\ path["tls"] = "blocked" \/ ~calm
  /\ Goto("nat")
  /\ UNCHANGED <<ok, natDone, dns, probe, pulled>>

(* Mutant: the client does not wait for the other end to close. *)
MutantNoHandshake ==
  /\ pc = "handshake"
  /\ Goto("nat")
  /\ UNCHANGED <<ok, natDone, dns, probe, pulled>>

(* conn.Handshake has no deadline and takes no context: it returns when the    *)
(* other end closes or resets, which the probe's handler does.                 *)
Handshake ==
  /\ pc = "handshake"
  /\ path["tls"] # "open" \/ conn["tls"] = "closed"
  /\ Goto("nat")
  /\ UNCHANGED <<ok, natDone, dns, probe, pulled>>

(* RunNAT, by what it promises. *)
Arrives(s) == path[s] \in {"open", "oneway"}

NAT ==
  /\ pc = "nat"
  /\ \E r \in Reports(calm, {s \in UdpPorts : Arrives(s)}, {s \in UdpPorts : path[s] = "open"}) :
       /\ natDone' = r.completed
       /\ ok' = ok \cup r.answered
       /\ Recorded(r.recorded)
  /\ Goto("pmtu")
  /\ UNCHANGED <<dns, conn, pulled>>

(* RunPMTU: its datagrams are observations of the UDP port too. *)
PMTU ==
  /\ pc = "pmtu"
  /\ \/ Arrives("udp") /\ Recorded({"udp"})
     \/ UNCHANGED <<held, seen>>
  /\ Goto("dns")
  /\ UNCHANGED <<ok, natDone, dns, conn, pulled>>

(* queryDoH keeps the data of every record of the A and the AAAA answer: if *)
(* the name is an alias its target too.  The request is cancelled before    *)
(* the body is read, and may fail for that; DoHURL may be empty.            *)
DoHAnswers(alias) ==
  SetToBag(Truth) (+) (IF alias THEN [r \in {"target"} |-> 2] ELSE EmptyBag)

(* Mutant: answers of the system that DoH did not give do not matter. *)
MutantSubset(system, doh) == doh \sqsubseteq system

setsEqual(system, doh) == system = doh

judgeDNS(system, usable, doh) ==
  CASE "fake" \in DOMAIN system -> "taken over"
    [] "fake" \notin DOMAIN system /\ ~usable -> "system only"
    [] "fake" \notin DOMAIN system /\ usable /\ setsEqual(system, doh) -> "same"
    [] OTHER -> "suspect"

DNS ==
  /\ pc = "dns"
  /\ \E answers \in {Truth, {"x"}, Truth \cup {"x"}, {"fake"}}, alias, usable \in BOOLEAN :
       dns' = [judgment |-> judgeDNS(SetToBag(answers), usable, DoHAnswers(alias)),
               forged |-> answers # Truth]
  /\ Goto("pull")
  /\ UNCHANGED <<ok, natDone, probe, pulled>>

(* The system resolver fails: no res.DNS. *)
DNSFails ==
  /\ pc = "dns" /\ ~calm
  /\ Goto("pull")
  /\ UNCHANGED <<ok, natDone, dns, probe, pulled>>

Pull ==
  /\ pc = "pull" /\ held
  /\ pulled' = seen /\ dns' = NoDNS
  /\ Goto("reach")
  /\ UNCHANGED <<ok, natDone, probe>>

(* Mutant: a failed Pull is tried again for ever. *)
MutantPullRetries ==
  /\ pc = "pull" /\ ~held
  /\ UNCHANGED vars

(* Three seconds of "session not found", or a request that fails. *)
PullFails ==
  /\ pc = "pull" /\ (~held \/ ~calm)
  /\ dns' = NoDNS
  /\ Goto("reach")
  /\ UNCHANGED <<ok, natDone, probe, pulled>>

(* TCPReach does not read the answer. *)
Reach ==
  /\ pc = "reach" /\ path["extra"] # "blocked"
  /\ ok' = ok \cup {"extra"}
  /\ Request("extra")
  /\ Goto("report")
  /\ UNCHANGED <<natDone, dns, held, seen, pulled>>

ReachFails ==
  /\ pc = "reach" /\ (path["extra"] = "blocked" \/ ~calm)
  /\ Goto("report")
  /\ UNCHANGED <<ok, natDone, dns, probe, pulled>>

(* The result of a measurement is complete at "report"; then it is the caller's. *)
Return ==
  /\ pc = "report"
  /\ Goto(IF level = 1 THEN "returned" ELSE "restore")
  /\ ok' = {} /\ natDone' = FALSE /\ pulled' = {}
  /\ UNCHANGED <<dns, probe>>

-----------------------------------------------------------------------------
(* runDirect. *)
Again ==
  /\ pc' = "discover" /\ level' = level + 1
  /\ ok' = {} /\ natDone' = FALSE /\ pulled' = {} /\ tun' = FALSE
  \* a session of its own; a handler still at work for the first one is of no more interest
  /\ held' = FALSE /\ seen' = {} /\ conn' = [c \in DOMAIN conn |-> "none"]

(* PhysicalDefaultV4 and the guard after it; "ip route add" fails on an        *)
(* interface that is none, and if the table has the same route already.        *)
Addable ==
  /\ ~isTUNInterface(parsePhysicalV4(routes.v4)) /\ parsePhysicalV4(routes.v4) \notin {"", "*"}
  /\ \A e \in ToSet(routes.v4) : ~(e.dest = "host" /\ e.metric = 0)

Added(iface) ==
  routes' = [routes EXCEPT !.v4 =
               <<[dest |-> "host", iface |-> iface, metric |-> 0, by |-> "netsee"]>> \o @]

(* Mutant: sub.Direct stays set, and a route that exists is no error. *)
MutantDirectAgain ==
  /\ pc = "report" /\ level < 3 /\ parsePhysicalV4(routes.v4) \notin {"", "*"}
  /\ Added(parsePhysicalV4(routes.v4))
  /\ Again
  /\ UNCHANGED <<calm, path, killed, dns>>

(* Mutant: the way around the proxy is the default route of the report. *)
MutantDirectDefault ==
  /\ pc = "report" /\ level = 1 /\ Addable
  /\ Added(parseRouteV4(routes.v4))
  /\ Again
  /\ UNCHANGED <<calm, path, killed, dns>>

(* Mutant: "ip route replace". *)
MutantDirectReplace ==
  /\ pc = "report" /\ level = 1 /\ parsePhysicalV4(routes.v4) \notin {"", "*"}
  /\ routes' = [routes EXCEPT !.v4 =
       <<[dest |-> "host", iface |-> parsePhysicalV4(@), metric |-> 0, by |-> "netsee"]>>
         \o SelectSeq(@, LAMBDA e : e.dest # "host")]
  /\ Again
  /\ UNCHANGED <<calm, path, killed, dns>>

(* The route is added and the measurement repeated.  The guards before it, *)
(* and an "ip" that fails, leave everything to Return.                     *)
Direct ==
  /\ pc = "report" /\ level = 1 /\ Addable
  /\ Added(parsePhysicalV4(routes.v4))
  /\ Again
  /\ UNCHANGED <<calm, path, killed, dns>>

(* The second measurement goes another way, where the network may treat the *)
(* ports differently.                                                       *)
Reroute ==
  /\ pc = "discover" /\ level = 2
  /\ path' \in Paths
  /\ UNCHANGED <<calm, pc, level, routes, killed, tun, ok, natDone, dns, probe, pulled>>

(* The context ends between the kernel's change and the exit of "ip". *)
AddKilled ==
  /\ pc = "report" /\ level = 1 /\ Addable /\ ~calm
  /\ Added(parsePhysicalV4(routes.v4)) /\ killed' = TRUE
  /\ pc' = "returned"
  /\ ok' = {} /\ natDone' = FALSE /\ pulled' = {}
  /\ UNCHANGED <<calm, path, level, tun, dns, probe>>

(* "ip route del" removes the first route that fits; a new one of metric 0   *)
(* comes before the others of its prefix.                                    *)
FirstHost(table) ==
  CHOOSE i \in DOMAIN table :
    table[i].dest = "host" /\ \A j \in DOMAIN table : table[j].dest = "host" => i <= j

Deleted == routes' = [routes EXCEPT !.v4 = RemoveAt(@, FirstHost(@))]

(* Mutant: the deletion is lost when the second measurement ended early. *)
MutantRestore ==
  /\ pc = "restore"
  /\ IF conn["http"] = "none" THEN UNCHANGED routes ELSE Deleted
  /\ pc' = "returned"
  /\ UNCHANGED <<calm, path, level, killed, tun, ok, natDone, dns, probe, pulled>>

(* The deferred "ip route del" runs with no context. *)
Restore ==
  /\ pc = "restore"
  /\ Deleted
  /\ pc' = "returned"
  /\ UNCHANGED <<calm, path, level, killed, tun, ok, natDone, dns, probe, pulled>>

Run ==
  \/ Discover \/ DiscoverFails
  \/ Echo \/ EchoAnswered \/ EchoFails
  \/ Sniff \/ SniffFails \/ Handshake
  \/ NAT \/ PMTU \/ DNS \/ DNSFails
  \/ Pull \/ PullFails \/ Reach \/ ReachFails
  \/ Return \/ Direct \/ AddKilled \/ Restore

Returned == pc = "returned" /\ UNCHANGED vars

Next == Run \/ Reroute \/ Lose \/ (\E c \in DOMAIN conn : Handle(c)) \/ Returned

Spec == Init /\ [][Next]_vars

(* Nothing obliges a stranger who has accepted the connection to close it; as  *)
(* long as his kernel answers keep-alives the handshake goes on.               *)
Hung == pc = "handshake" /\ path["tls"] = "intercepted"

(* Every other call of the client returns, by its timeout or because the probe *)
(* closes; a handler ends by its read deadline.                                *)
Timely == (Run /\ ~Hung) \/ \E c \in DOMAIN conn : Handle(c)

(* As long as one of them has a step to take, one takes it. *)
FairSpec == Spec /\ WF_vars(Timely)

-----------------------------------------------------------------------------
(* What the report says, once pc = "report". *)

(* The map of outcomes is keyed by port number; a later entry wins. *)
Order == [http |-> 1, tls |-> 2, udp |-> 3, nat |-> 4, extra |-> 5]

Outcome(s) ==
  LET same == {t \in Service : Number[t] = Number[s]}
  IN  \E t \in same : t \in ok /\ \A u \in same : Order[u] <= Order[t]

(* Mutant: an observation of any port counts. *)
MutantSawAny(s) == pulled # {}

ProbeSaw(s) == Number[s] \in {Number[t] : t \in pulled}

Consistent(s) == Outcome(s) = ProbeSaw(s)

(* finalizeAttribution: a.UDP = "tun-blocked". *)
TunBlocked ==
  tun /\ natDone /\ "udp" \notin ok /\ \E s \in {"http", "tls", "extra"} : Outcome(s)

-----------------------------------------------------------------------------
TypeOK ==
  /\ calm \in BOOLEAN
  /\ path \in Paths
  /\ pc \in {"discover", "echo", "echoing", "sniff", "handshake", "nat", "pmtu", "dns",
             "pull", "reach", "report", "restore", "returned"}
  /\ level \in 1..2
  /\ routes \in [v4 : Seq(Entry), v6 : Seq(Entry)]
  /\ killed \in BOOLEAN /\ tun \in BOOLEAN
  /\ ok \subseteq Service /\ natDone \in BOOLEAN
  /\ dns \in [judgment : {"", "taken over", "system only", "same", "suspect"}, forged : BOOLEAN]
  /\ held \in BOOLEAN /\ seen \subseteq Service /\ (seen # {} => held)
  /\ conn \in [{"http", "tls", "extra"} -> {"none", "open", "closed"}]
  /\ pulled \subseteq Service

(* A port of the four the probe always has, that nothing on the way         *)
(* disturbs, is reported as reached and as seen by the probe: the probe has *)
(* recorded before the client learns that its attempt is over, so the pull  *)
(* does not come too early.  Of the two UDP ports this holds as long as     *)
(* datagrams arrive at both: RunNAT drops what it knows of one when the     *)
(* other leaves no observation.                                             *)
CalmVerdict ==
  pc = "report" /\ calm =>
    \A s \in Service \ {"extra"} :
      /\ path[s] = "open"
      /\ s \in {"udp", "nat"} => Arrives("udp") /\ Arrives("nat")
      => Outcome(s) /\ Consistent(s)

(* A port on which somebody else answers in the probe's place is never      *)
(* reported as consistent and reached, whatever was lost or late.           *)
InterceptedIsExposed ==
  pc = "report" => \A s \in Service : path[s] = "intercepted" => ~(Outcome(s) /\ Consistent(s))

(* A system resolver whose answers were forged is not judged clean. *)
ForgeryIsNotSame ==
  pc = "pull" /\ dns.judgment = "same" => ~dns.forged

(* However the run and the second measurement end, the route runDirect added *)
(* is gone when Run returns; unless "ip route add" was killed halfway.       *)
RouteRestored ==
  pc = "returned" /\ (\E e \in ToSet(routes.v4) : e.by = "netsee") => killed

(* attribution.go: a proxy exit must not be reported as the local environment. *)
(* If what is sent to the probe leaves through a TUN, the report says so.      *)
ProxyExitAttributed ==
  pc = "report" /\ isTUNInterface(Via(routes.v4)) => tun

(* docs/requirements/acceptance.md, ACC-P2-005: the second column is the       *)
(* physical path, throughout the second measurement.                           *)
DirectIsPhysical ==
  level = 2 /\ pc # "returned" => Via(routes.v4) \notin {"tun0", "*"}

(* A route to the probe that was there before, such as the one a proxy keeps   *)
(* for its own server, is neither changed nor removed: what a step adds to the *)
(* table or takes from it is one route of the client's own.                    *)
OneMore(t, u) == \E i \in DOMAIN u : u[i].by = "netsee" /\ t = RemoveAt(u, i)

RoutesOfOthersKept ==
  [][/\ routes'.v6 = routes.v6
     /\ \/ routes'.v4 = routes.v4
        \/ OneMore(routes.v4, routes'.v4) \/ OneMore(routes'.v4, routes.v4)]_vars

(* The run returns, whatever is lost on the way, unless it stays for ever in a *)
(* handshake with somebody who has taken the probe's TLS port: that is the     *)
(* only call nothing bounds (session.go:117).                                  *)
ReturnsUnlessHung == <>(pc = "returned") \/ <>[]Hung

(* docs/requirements/acceptance.md, ACC-P2-006: what the check says of a     *)
(* reachable port agrees with what the probe reports, extra ports included.  *)
ExtraConsistent ==
  pc = "report" /\ calm /\ path["extra"] = "open" => Consistent("extra")

(* ACC-P2-008: behind a TUN, with TCP through and UDP not, the loss of UDP   *)
(* is put down to the proxy.                                                 *)
UdpLossAttributed ==
  pc = "report" /\ calm /\ level = 1 /\ isTUNInterface(Via(routes.v4))
    /\ path["udp"] = "blocked" /\ path["nat"] = "blocked" /\ Outcome("http") => TunBlocked
=============================================================================
