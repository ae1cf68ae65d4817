------------------------------- MODULE NatTest -------------------------------
(***************************************************************************)
(* The NAT classification: the client's RunNAT (internal/client/nat.go)    *)
(* sending one datagram after the other from one socket, a NAT on the way, *)
(* the probe's two UDP sockets, and the observations the client pulls back *)
(* after every datagram.                                                   *)
(*                                                                         *)
(* The NAT, whether the client could learn its own address, and whether    *)
(* the network is calm are chosen once, in Init.  On a calm network no     *)
(* datagram is lost, duplicated or later than the read timeout and no call *)
(* of the client fails; otherwise all of that may happen.                  *)
(***************************************************************************)
EXTENDS ProbeUdp, NatReport, Sequences

CONSTANT Repeatable   \* bound: the datagrams (by their step) the network may deliver twice

VARIABLES
  nat,         \* the NAT: how it maps and how it filters
  localKnown,  \* RunNAT learned its source address (localIP # "")
  calm,
  pc,          \* the client: about to "send", "read" or "pull"; "done", "failed"
  step,        \* the index of the datagram of Script it is at
  opened,      \* the NAT's bindings: external address used towards a destination
  flight,      \* datagrams in the network
  inbox,       \* answers in the client's socket buffer
  log,         \* the session's observations
  facts,       \* res.Facts, with (history) the answer the read returned
  label        \* res.Label

env == <<nat, localKnown, calm>>
vars == <<nat, localKnown, calm, pc, step, opened, flight, inbox, log, facts, label>>

-----------------------------------------------------------------------------
(* Addresses.  A client addresses both ports at the probe's first IP. *)
Target(port) == <<"ip1", port>>
SocketAt(port) == <<BoundIP(port), port>>

Mappings == {"none", "one", "perDest"}
Filters  == {"open", "address", "port"}

(* The source address the probe sees of a datagram sent to dst. *)
External(dst) ==
  CASE nat.mapping = "none" -> [ip |-> "local", port |-> 1]
    [] nat.mapping = "one"  -> [ip |-> "public", port |-> 1]
    [] OTHER -> [ip |-> "public", port |-> IF dst = Target("udp") THEN 1 ELSE 2]

(* Whether the NAT lets a datagram from src in through the external address. *)
LetsIn(src, ext) ==
  \E b \in opened :
    /\ b.ext = ext
    /\ CASE nat.filter = "open"    -> TRUE
         [] nat.filter = "address" -> b.dst[1] = src[1]
         [] OTHER                  -> b.dst = src

(* The calls of send, in order; the last needs the probe's second IP. *)
Script ==
  << [port |-> "udp", kind |-> "echo"], [port |-> "udp", kind |-> "echo"],
     [port |-> "nat", kind |-> "echo"], [port |-> "udp", kind |-> "nat"] >>
  \o IF SecondIP THEN << [port |-> "udp", kind |-> "nat"] >> ELSE <<>>

(* Mutants: the comparison of the ports reversed; the result of the port *)
(* filter test lost to a variable of an inner block.                     *)
MutantReversed(known, ip, p1, p2, r3, secondIP, r4) ==
  CASE known /\ ip = "local" -> "direct"
    [] ~(known /\ ip = "local") /\ p1 = p2 -> "symmetric"
    [] OTHER -> IF r3 THEN "open" ELSE "portRestricted"

MutantShadowed(known, ip, p1, p2, r3, secondIP, r4) ==
  CASE known /\ ip = "local" -> "direct"
    [] ~(known /\ ip = "local") /\ p1 # p2 -> "symmetric"
    [] OTHER -> IF r4 THEN "open" ELSE "portRestricted"

natJudgment(known, ip, p1, p2, r3, secondIP, r4) ==
  CASE known /\ ip = "local" -> "direct"
    [] ~(known /\ ip = "local") /\ p1 # p2 -> "symmetric"
    [] ~(known /\ ip = "local") /\ p1 = p2 /\ r3 ->
         IF secondIP /\ ~r4 THEN "addressRestricted" ELSE "open"
    [] OTHER -> "portRestricted"

(* The observations send accepts for a step. *)
Matching(s) == {i \in DOMAIN log : log[i].port = s.port /\ log[i].kind = s.kind}

-----------------------------------------------------------------------------
Init ==
  /\ nat \in [mapping : Mappings, filter : Filters]
  \* behind a translating NAT the probe never sees the local address anyway
  /\ localKnown \in IF nat.mapping = "none" THEN BOOLEAN ELSE {TRUE}
  /\ calm \in BOOLEAN
  /\ pc = "send" /\ step = 1
  /\ opened = {} /\ flight = {} /\ inbox = <<>>
  /\ log = <<>> /\ facts = <<>> /\ label = "none"

(* conn.WriteToUDP: the datagram crosses the NAT on its way out. *)
Send ==
  /\ pc = "send"
  /\ LET s == Script[step]
         dst == Target(s.port)
     IN  /\ opened' = opened \cup {[ext |-> External(dst), dst |-> dst]}
         /\ flight' = flight \cup
              {[leg |-> "out", step |-> step, src |-> External(dst), dst |-> dst,
                kind |-> s.kind, valid |-> TRUE, len |-> 1]}
  /\ pc' = "read"
  /\ UNCHANGED <<env, step, inbox, log, facts, label>>

(* One answer is read, whichever comes first: read does not look at it. *)
Read ==
  /\ pc = "read" /\ inbox # <<>>
  /\ facts' = Append(facts, [received |-> TRUE, answer |-> {Head(inbox)},
                             src |-> [ip |-> "", port |-> 0], replyFrom |-> ""])
  /\ inbox' = Tail(inbox)
  /\ pc' = "pull"
  /\ UNCHANGED <<env, step, opened, flight, log, label>>

(* Mutant: a read without a deadline. *)
MutantNoDeadline == pc = "read" /\ inbox # <<>> /\ UNCHANGED vars

(* The read deadline passes.  On a calm network it is long enough. *)
ReadTimeout ==
  /\ pc = "read" /\ inbox = <<>>
  /\ calm => flight = {}
  /\ facts' = Append(facts, [received |-> FALSE, answer |-> {},
                             src |-> [ip |-> "", port |-> 0], replyFrom |-> ""])
  /\ pc' = "pull"
  /\ UNCHANGED <<env, step, opened, flight, inbox, log, label>>

(* Pull, and the last observation of this port and kind. *)
Pull ==
  /\ pc = "pull"
  /\ LET found == Matching(Script[step])
         last == CHOOSE i \in found : \A j \in found : j <= i
         f == [facts EXCEPT ![step].src = log[last].src,
                            ![step].replyFrom = log[last].replyFrom]
     IN  /\ found # {}
         /\ facts' = f
         /\ IF step < Len(Script)
              THEN pc' = "send" /\ step' = step + 1 /\ UNCHANGED label
              ELSE /\ pc' = "done" /\ UNCHANGED step
                   \* r4 of line 119 is a variable of the if block: the outer one stays false
                   /\ label' = natJudgment(localKnown, f[1].src.ip, f[1].src.port,
                                           f[3].src.port, f[4].received, SecondIP, FALSE)
  /\ UNCHANGED <<env, opened, flight, inbox, log>>

(* Mutant: a datagram without an observation is skipped. *)
MutantGoesOn ==
  /\ pc = "pull" /\ Matching(Script[step]) = {} /\ step < Len(Script)
  /\ pc' = "send" /\ step' = step + 1
  /\ UNCHANGED <<env, opened, flight, inbox, log, facts, label>>

(* "no probe observation for ..." *)
PullFindsNothing ==
  /\ pc = "pull" /\ Matching(Script[step]) = {}
  /\ pc' = "failed"
  /\ UNCHANGED <<env, step, opened, flight, inbox, log, facts, label>>

(* A failed write, or a Pull whose request fails or whose session is gone. *)
CallFails ==
  /\ ~calm /\ pc \in {"send", "pull"}
  /\ pc' = "failed"
  /\ UNCHANGED <<env, step, opened, flight, inbox, log, facts, label>>

Client == Send \/ Read \/ ReadTimeout \/ Pull \/ PullFindsNothing \/ CallFails

-----------------------------------------------------------------------------
Observation(d, port) ==
  [port |-> port, kind |-> d.kind, src |-> d.src,
   replyFrom |-> ReplyFrom(port, d.kind), step |-> d.step]

AnswerTo(d, port) ==
  [leg |-> "back", step |-> d.step, src |-> SocketAt(ReplySocket(port, d.kind)), dst |-> d.src]

(* Mutant: the datagram is answered and not recorded. *)
MutantAnswerUnrecorded(d) ==
  /\ d.leg = "out" /\ Accepted(d)
  /\ \E port \in Ports :
       d.dst = SocketAt(port) /\ flight' = (flight \ {d}) \cup {AnswerTo(d, port)}
  /\ UNCHANGED <<env, pc, step, opened, inbox, log, facts, label>>

(* handleUDPArrival: the observation is recorded, then the answer written. *)
(* Nobody but Pull can tell the two apart, and a Pull between them is one  *)
(* that comes before the answer leaves the network.                        *)
Arrive(d) ==
  /\ d.leg = "out" /\ Accepted(d)
  /\ \E port \in Ports :
       /\ d.dst = SocketAt(port)
       /\ log' = Append(log, Observation(d, port))
       /\ flight' = (flight \ {d}) \cup {AnswerTo(d, port)}
  /\ UNCHANGED <<env, pc, step, opened, inbox, facts, label>>

(* The first arrival of a datagram the network delivers twice. *)
ArriveAgain(d) ==
  /\ ~calm /\ d.leg = "out" /\ Accepted(d)
  /\ d.step \in Repeatable /\ \A i \in DOMAIN log : log[i].step # d.step
  /\ \E port \in Ports :
       /\ d.dst = SocketAt(port)
       /\ log' = Append(log, Observation(d, port))
       /\ flight' = flight \cup {AnswerTo(d, port)}
  /\ UNCHANGED <<env, pc, step, opened, inbox, facts, label>>

(* No socket of the probe is bound to the destination, or it drops the datagram. *)
ArriveNowhere(d) ==
  /\ d.leg = "out"
  /\ ~Accepted(d) \/ \A port \in Ports : d.dst # SocketAt(port)
  /\ flight' = flight \ {d}
  /\ UNCHANGED <<env, pc, step, opened, inbox, log, facts, label>>

Answer(d) ==
  /\ d.leg = "back"
  /\ flight' = flight \ {d}
  /\ inbox' = IF LetsIn(d.src, d.dst) THEN Append(inbox, d) ELSE inbox
  /\ UNCHANGED <<env, pc, step, opened, log, facts, label>>

(* A lost datagram is one that stays in flight for ever.  What arrives once *)
(* the test has ended changes nothing it reports.                           *)
Network ==
  /\ pc \notin {"done", "failed"}
  /\ \E d \in flight : Arrive(d) \/ ArriveAgain(d) \/ ArriveNowhere(d) \/ Answer(d)

Terminated == pc \in {"done", "failed"} /\ UNCHANGED vars

Next == Client \/ Network \/ Terminated

(* The client's calls return, by their timeouts at the latest; a calm       *)
(* network delivers.                                                        *)
Delivery ==
  /\ calm /\ pc \notin {"done", "failed"}
  /\ \E d \in flight : Arrive(d) \/ ArriveNowhere(d) \/ Answer(d)
Spec == Init /\ [][Next]_vars
FairSpec == Spec /\ WF_vars(Client) /\ WF_vars(Delivery)

-----------------------------------------------------------------------------
Addresses == [ip : {"", "local", "public"}, port : 0..2]
Datagrams ==
  [leg : {"out"}, step : DOMAIN Script, src : Addresses, dst : {Target(p) : p \in Ports},
   kind : {"echo", "nat"}, valid : BOOLEAN, len : Nat]
Answers ==
  [leg : {"back"}, step : DOMAIN Script, src : {SocketAt(p) : p \in Ports}, dst : Addresses]

TypeOK ==
  /\ nat \in [mapping : Mappings, filter : Filters]
  /\ localKnown \in BOOLEAN /\ calm \in BOOLEAN
  /\ pc \in {"send", "read", "pull", "done", "failed"}
  /\ step \in DOMAIN Script
  /\ opened \subseteq [ext : Addresses, dst : {Target(p) : p \in Ports}]
  /\ flight \subseteq Datagrams \cup Answers
  /\ inbox \in Seq(Answers)
  /\ log \in Seq([port : Ports, kind : {"echo", "nat"}, src : Addresses,
                  replyFrom : {"same", "other-port", "other-ip"}, step : DOMAIN Script])
  /\ facts \in Seq([received : BOOLEAN, answer : SUBSET Answers, src : Addresses,
                    replyFrom : {"", "same", "other-port", "other-ip"}])
  /\ label \in {"none", "direct", "symmetric", "open", "addressRestricted", "portRestricted"}

(* What the label says of the NAT's mapping is right whatever the network   *)
(* lost, repeated or delayed: a stale observation is of the same port and   *)
(* so of the same binding.                                                  *)
MappingSound ==
  pc = "done" =>
    /\ label = "symmetric" <=> nat.mapping = "perDest"
    /\ label = "direct" <=> (nat.mapping = "none" /\ localKnown)

(* An answer that exists, in the network, in the socket or read, is the     *)
(* answer to a datagram whose observation the session holds already: a      *)
(* client that saw a reply finds the observation when it pulls.             *)
AnsweredIsRecorded ==
  \A a \in {d \in flight : d.leg = "back"} \cup {inbox[i] : i \in DOMAIN inbox}
           \cup UNION {facts[i].answer : i \in DOMAIN facts} :
    \E i \in DOMAIN log : log[i].step = a.step

(* EchoReceived, which the connectivity check compares with what the probe  *)
(* saw at its UDP port: the first read cannot return anything but the       *)
(* answer to the first datagram.                                            *)
EchoReceivedIsSeen ==
  facts # <<>> /\ facts[1].received =>
    /\ \A a \in facts[1].answer : a.step = 1 /\ a.src = SocketAt("udp")
    /\ \E i \in DOMAIN log : log[i].port = "udp"

(* On a calm network the test never ends in an error. *)
CalmCompletes == calm => pc # "failed"

(* On a calm network a NAT that lets answers from any port in is not taken  *)
(* for one that filters ports.                                              *)
NoFalseFilter ==
  pc = "done" /\ calm /\ nat.mapping = "one" /\ nat.filter # "port" => label = "open"

(* What the test came to, for the rest of the client: EchoReceived is the     *)
(* outcome of the first read, NATReplyReceived that of the fourth.            *)
Report ==
  [completed |-> pc = "done",
   recorded  |-> {log[i].port : i \in DOMAIN log},
   answered  |-> {p \in UdpPorts : pc = "done" /\ facts[IF p = "udp" THEN 1 ELSE 4].received}]

(* The ports the datagrams reach, and those an answer from which passes the   *)
(* NAT although it was provoked at the other one.                             *)
Arriving == {p \in Ports : Target(p) = SocketAt(p) /\ MaxUDP >= 1}
Open == {p \in Ports : p = "udp" \/ nat.mapping # "perDest" \/ nat.filter # "port"}

(* However the test ends, and whatever was lost, late or repeated, the rest   *)
(* of the client may rely on what it says: a test that completed has left an  *)
(* observation at both ports, one that failed on a calm network has done so   *)
(* for a port that nothing reaches, and a port counts as answering on a calm  *)
(* network if and only if its answers come back.                              *)
AsPromised == pc \in {"done", "failed"} => Report \in Reports(calm, Arriving, Open)

(* The test ends, however many of its datagrams are lost. *)
Termination == <>(pc \in {"done", "failed"})

(* docs/requirements/README.md: a single-IP probe tells direct,            *)
(* port-restricted cone, cone without port filter and symmetric apart.      *)
SingleIpDistinguishes ==
  pc = "done" /\ calm /\ localKnown =>
    label = CASE nat.mapping = "none" -> "direct"
              [] nat.mapping = "perDest" -> "symmetric"
              [] nat.filter = "port" -> "portRestricted"
              [] OTHER -> "open"
=============================================================================
