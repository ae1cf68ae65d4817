--------------------------- MODULE ClientRunProofs ---------------------------
(***************************************************************************)
(* One run of the client, for every routing table the host may have, every *)
(* assignment of port numbers and any number of disturbed ports: what      *)
(* --direct does to the routes is undone and stays on the physical path,   *)
(* and, for ports whose numbers differ, what the connectivity checks say.  *)
(***************************************************************************)
EXTENDS ClientRun, Minimum, TLAPS

(* runDirect's route, at the head of a table that has no other like it. *)
Physical == {"eth0", "wlan0", "lo"}

DirectRoute(t) ==
  /\ t # <<>>
  /\ t[1].dest = "host" /\ t[1].metric = 0 /\ t[1].by = "netsee" /\ t[1].iface \in Physical
  /\ \A i \in DOMAIN t : i # 1 => t[i].by = "system" /\ ~(t[i].dest = "host" /\ t[i].metric = 0)

OnlySystem(t) == \A i \in DOMAIN t : t[i].by = "system"

(* The table holds a route of the client throughout the second measurement, *)
(* and at no other time unless "ip route add" was killed.                    *)
DirectOnly ==
  /\ level = 1 /\ ~killed => OnlySystem(routes.v4)
  /\ level = 2 /\ pc # "returned" => DirectRoute(routes.v4)
  /\ level = 2 /\ pc = "returned" => OnlySystem(routes.v4)
  /\ killed => pc = "returned"
  /\ pc = "restore" => level = 2

(* Only "same" is a verdict on the answers the system gave. *)
Clean == dns.judgment = "same" => ~dns.forged

IInv == TypeOK /\ DirectOnly /\ Clean

(* What somebody else answers never reaches the probe. *)
Unseen ==
  /\ \A c \in DOMAIN conn : conn[c] # "none" => path[c] # "intercepted"
  /\ \A s \in seen \cup pulled : path[s] # "intercepted"
  \* a measurement begins with nothing seen, whatever path it takes
  /\ pc = "discover" => seen = {} /\ pulled = {} /\ \A c \in DOMAIN conn : conn[c] = "none"

(* On a calm run the service of a section that is over is reached and its    *)
(* observation there, in the session first and then among what was pulled.   *)
Undisturbed ==
  {s \in Service \ {"extra"} :
     path[s] = "open" /\ (s \in {"udp", "nat"} => Arrives("udp") /\ Arrives("nat"))}

After == [http |-> {"sniff", "handshake", "nat", "pmtu", "dns", "pull"},
          tls  |-> {"nat", "pmtu", "dns", "pull"},
          udp  |-> {"pmtu", "dns", "pull"},
          nat  |-> {"pmtu", "dns", "pull"}]

Progress ==
  calm =>
    /\ \A c \in DOMAIN conn : conn[c] = "closed" => c \in seen
    /\ pc = "handshake" => "tls" \in ok
    /\ \A s \in Undisturbed : pc \in After[s] => s \in ok /\ s \in seen
    /\ \A s \in Undisturbed : pc \in {"reach", "report"} => s \in ok /\ s \in pulled

-----------------------------------------------------------------------------
(* Of a set of lines that is not empty one has the lowest metric, and the   *)
(* first such is the one Lowest finds.                                      *)
LEMMA LowestFound ==
  ASSUME NEW table \in Seq(Entry), NEW lines \in SUBSET DOMAIN table
  PROVE  IF lines = {} THEN Lowest(table, lines) = ""
         ELSE \E i \in lines : /\ Lowest(table, lines) = table[i].iface
                              /\ \A j \in lines : table[i].metric <= table[j].metric
<1>1. SUFFICES ASSUME lines # {}
               PROVE  \E i \in lines : /\ Lowest(table, lines) = table[i].iface
                                      /\ \A j \in lines : table[i].metric <= table[j].metric
  BY DEF Lowest
<1>2. \A i \in lines : i \in Nat /\ table[i].metric \in Nat
  <2>1. \A i \in DOMAIN table : i \in Nat /\ table[i] \in Entry
    OBVIOUS
  <2> QED
    BY <2>1 DEF Entry
<1> DEFINE metrics == {table[i].metric : i \in lines}
<1>3. PICK m \in metrics : \A y \in metrics : m <= y
  <2>1. metrics \in SUBSET Nat /\ metrics # {}
    BY <1>1, <1>2
  <2> HIDE DEF metrics
  <2> QED
    BY <2>1, NatMinimum
<1> DEFINE first == {i \in lines : table[i].metric = m}
<1>4. PICK i \in first : \A j \in first : i <= j
  <2>1. first \in SUBSET Nat /\ first # {}
    BY <1>2, <1>3
  <2> HIDE DEF first
  <2> QED
    BY <2>1, NatMinimum
<1> DEFINE Best(k) == \A j \in lines : \/ table[k].metric < table[j].metric
                                       \/ table[k].metric = table[j].metric /\ k <= j
<1>5. i \in lines /\ Best(i)
  <2>1. ASSUME NEW j \in lines
        PROVE  table[i].metric < table[j].metric \/ (table[i].metric = table[j].metric /\ i <= j)
    <3>1. table[i].metric = m /\ table[j].metric \in metrics /\ table[j].metric \in Nat /\ m \in Nat
      BY <1>2, <1>3
    <3>2. m <= table[j].metric
      BY <1>3, <3>1
    <3>3. table[j].metric = m => i <= j
      BY <1>4
    <3> QED
      BY <3>1, <3>2, <3>3
  <2> QED
    BY <2>1
<1> DEFINE chosen == CHOOSE k \in lines : Best(k)
<1>6. chosen \in lines /\ Best(chosen)
  <2> HIDE DEF Best
  <2> QED
    BY <1>5
<1>7. Lowest(table, lines) = table[chosen].iface
  BY <1>1, Zenon DEF Lowest
<1>8. \A j \in lines : table[chosen].metric <= table[j].metric
  <2> HIDE DEF chosen
  <2> QED
    BY <1>2, <1>6
<1> QED
  BY <1>6, <1>7, <1>8

(* The interface runDirect routes the probe over is a physical one. *)
LEMMA AddedIsPhysical ==
  ASSUME routes \in [v4 : Seq(Entry), v6 : Seq(Entry)], Addable
  PROVE  parsePhysicalV4(routes.v4) \in Physical
<1>1. PICK i \in PhysicalLines(routes.v4) : parsePhysicalV4(routes.v4) = routes.v4[i].iface
  <2>1. PhysicalLines(routes.v4) \in SUBSET DOMAIN routes.v4
    BY DEF PhysicalLines
  <2>2. routes.v4 \in Seq(Entry) /\ Lowest(routes.v4, PhysicalLines(routes.v4)) # ""
    BY DEF Addable, parsePhysicalV4
  <2>3. \E i \in PhysicalLines(routes.v4) : Lowest(routes.v4, PhysicalLines(routes.v4)) = routes.v4[i].iface
    <3>1. ASSUME NEW table \in Seq(Entry), NEW lines \in SUBSET DOMAIN table, Lowest(table, lines) # ""
          PROVE  \E i \in lines : Lowest(table, lines) = table[i].iface
      BY <3>1, LowestFound
    <3> QED
      BY <2>1, <2>2, <3>1
  <2> QED
    BY <2>3 DEF parsePhysicalV4
<1>2. routes.v4[i] \in Entry
  BY <1>1 DEF PhysicalLines
<1> QED
  BY <1>1, <1>2 DEF Entry, Addable, isTUNInterface, Physical

(* One route is put before a table, and taken from there again. *)
LEMMA PrependFacts ==
  ASSUME NEW S, NEW t \in Seq(S), NEW e \in S
  PROVE  /\ <<e>> \o t \in Seq(S) /\ <<e>> \o t # <<>> /\ (<<e>> \o t)[1] = e
         /\ \A i \in DOMAIN (<<e>> \o t) : i # 1 => i - 1 \in DOMAIN t /\ (<<e>> \o t)[i] = t[i - 1]
         /\ 1 \in DOMAIN (<<e>> \o t) /\ RemoveAt(<<e>> \o t, 1) = t
BY DEF RemoveAt

LEMMA RemoveFirstFacts ==
  ASSUME NEW S, NEW t \in Seq(S), t # <<>>
  PROVE  /\ RemoveAt(t, 1) \in Seq(S) /\ 1 \in DOMAIN t
         /\ \A i \in DOMAIN RemoveAt(t, 1) : i + 1 \in DOMAIN t /\ i + 1 # 1 /\ RemoveAt(t, 1)[i] = t[i + 1]
BY DEF RemoveAt
-----------------------------------------------------------------------------
(* The bags of answers: the data of an honest answer is the truth.           *)
LEMMA SameIsHonest ==
  ASSUME NEW answers \in {Truth, {"x"}, Truth \cup {"x"}, {"fake"}},
         NEW alias \in BOOLEAN, NEW usable \in BOOLEAN,
         judgeDNS(SetToBag(answers), usable, DoHAnswers(alias)) = "same"
  PROVE  answers = Truth
<1>1. SetToBag(answers) = DoHAnswers(alias)
  BY DEF judgeDNS, setsEqual
<1>2. DOMAIN SetToBag(answers) = answers
  BY DEF SetToBag
<1>3. DOMAIN DoHAnswers(alias) \subseteq {"a", "target"}
  BY DEF DoHAnswers, SetToBag, EmptyBag, (+), Truth
<1> QED
  BY <1>1, <1>2, <1>3 DEF Truth

LEMMA JudgmentType ==
  ASSUME NEW system, NEW usable, NEW doh
  PROVE  judgeDNS(system, usable, doh) \in {"taken over", "system only", "same", "suspect"}
BY DEF judgeDNS

(* Types are kept.  First the actions of the probe, then the sections. *)
LEMMA RecordedType ==
  ASSUME TypeOK, NEW S \in SUBSET Service, Recorded(S)
  PROVE  held' \in BOOLEAN /\ seen' \subseteq Service /\ (seen' # {} => held')
BY DEF TypeOK, Recorded

LEMMA RequestType ==
  ASSUME TypeOK, NEW c \in {"http", "tls", "extra"}, Request(c)
  PROVE  conn' \in [{"http", "tls", "extra"} -> {"none", "open", "closed"}]
BY DEF TypeOK, Request

LEMMA InitHolds ==
  ASSUME Init PROVE IInv
<1>1. TypeOK
  <2>1. routes \in [v4 : Seq(Entry), v6 : Seq(Entry)]
    BY RunAssumption DEF Init
  <2>2. conn \in [{"http", "tls", "extra"} -> {"none", "open", "closed"}]
    BY DEF Init
  <2>3. dns \in [judgment : {"", "taken over", "system only", "same", "suspect"}, forged : BOOLEAN]
    BY DEF Init, NoDNS
  <2>4. calm \in BOOLEAN /\ path \in Paths /\ pc = "discover" /\ level = 1 /\ killed = FALSE /\ tun = FALSE
        /\ ok = {} /\ natDone = FALSE /\ held = FALSE /\ seen = {} /\ pulled = {}
    BY DEF Init
  <2>5. level \in 1..2
    BY <2>4
  <2>7. /\ killed \in BOOLEAN /\ tun \in BOOLEAN /\ natDone \in BOOLEAN /\ held \in BOOLEAN
        /\ (seen # {} => held) /\ ok \subseteq Service /\ seen \subseteq Service /\ pulled \subseteq Service
    BY <2>4, Zenon
  <2>6. pc \in {"discover", "echo", "echoing", "sniff", "handshake", "nat", "pmtu", "dns",
                "pull", "reach", "report", "restore", "returned"}
    BY <2>4
  <2> QED
    BY <2>1, <2>2, <2>3, <2>4, <2>5, <2>6, <2>7, Zenon DEF TypeOK
<1>2. DirectOnly
  <2>1. \A i \in DOMAIN routes.v4 : routes.v4[i] \in ToSet(routes.v4)
    BY DEF ToSet
  <2> QED
    BY <2>1, RunAssumption DEF Init, DirectOnly, OnlySystem
<1>3. Clean
  BY DEF Init, Clean, NoDNS
<1> QED
  BY <1>1, <1>2, <1>3 DEF IInv
(* Sections that leave the routes, the level and the path as they are. *)
Kept == UNCHANGED <<calm, path, level, routes, killed>>

LEMMA SectionType ==
  ASSUME TypeOK, Kept, pc' \in {"discover", "echo", "echoing", "sniff", "handshake", "nat", "pmtu",
                                "dns", "pull", "reach", "report", "restore", "returned"},
         tun' \in BOOLEAN, ok' \subseteq Service, natDone' \in BOOLEAN,
         dns' \in [judgment : {"", "taken over", "system only", "same", "suspect"}, forged : BOOLEAN],
         held' \in BOOLEAN /\ seen' \subseteq Service /\ (seen' # {} => held'),
         conn' \in [{"http", "tls", "extra"} -> {"none", "open", "closed"}],
         pulled' \subseteq Service
  PROVE  TypeOK'
BY DEF TypeOK, Kept

(* The probe's steps. *)
LEMMA ProbeStep ==
  ASSUME IInv, Lose \/ (\E c \in DOMAIN conn : Handle(c))
  PROVE  IInv' /\ routes' = routes /\ level' = level /\ killed' = killed /\ pc' = pc
<1>1. Kept /\ UNCHANGED <<pc, tun, ok, natDone, dns, pulled>>
  BY DEF Lose, Handle, Kept
<1>2. held' \in BOOLEAN /\ seen' \subseteq Service /\ (seen' # {} => held')
  <2>1. CASE Lose
    BY <2>1 DEF Lose
  <2>2. ASSUME NEW c \in DOMAIN conn, Handle(c) PROVE c \in Service /\ Recorded({c})
    <3>1. c \in {"http", "tls", "extra"}
      BY DEF IInv, TypeOK
    <3> QED
      BY <2>2, <3>1 DEF Handle, Service
  <2> QED
    BY <2>1, <2>2, RecordedType DEF IInv
<1>3. conn' \in [{"http", "tls", "extra"} -> {"none", "open", "closed"}]
  BY DEF Lose, Handle, IInv, TypeOK
<1>4. TypeOK'
  <2>1. /\ pc' = pc /\ tun' = tun /\ ok' = ok /\ natDone' = natDone /\ dns' = dns /\ pulled' = pulled
    BY <1>1
  <2> QED
    BY <1>1, <1>2, <1>3, <2>1, SectionType DEF IInv, TypeOK
<1>5. DirectOnly' /\ Clean'
  BY <1>1 DEF IInv, DirectOnly, Clean, Kept
<1> QED
  BY <1>1, <1>4, <1>5 DEF IInv, Kept

(* What RunNAT leaves: a report that is one of those it promises. *)
LEMMA NATStep ==
  ASSUME NAT
  PROVE  /\ \E S \in SUBSET Service : (\A s \in S : Arrives(s)) /\ Recorded(S)
         /\ ok \subseteq ok' /\ ok' \subseteq ok \cup UdpPorts /\ natDone' \in BOOLEAN
         /\ calm /\ Arrives("udp") /\ Arrives("nat") =>
              /\ Recorded(UdpPorts)
              /\ \A s \in UdpPorts : path[s] = "open" => s \in ok'
<1> DEFINE arriving == {s \in UdpPorts : Arrives(s)}
           open == {s \in UdpPorts : path[s] = "open"}
<1>1. PICK r \in Reports(calm, arriving, open) :
         natDone' = r.completed /\ ok' = ok \cup r.answered /\ Recorded(r.recorded)
  BY DEF NAT
<1>2. r.completed \in BOOLEAN /\ r.recorded \in SUBSET UdpPorts /\ r.answered \in SUBSET UdpPorts
  BY DEF Reports
<1>3. r.recorded \subseteq arriving
  BY DEF Reports
<1>4. calm /\ arriving = UdpPorts => r.recorded = UdpPorts /\ r.answered = open
  BY DEF Reports
<1>5. r.recorded \in SUBSET Service /\ \A s \in r.recorded : Arrives(s)
  BY <1>3 DEF UdpPorts, Service
<1>6. Arrives("udp") /\ Arrives("nat") => arriving = UdpPorts
  BY DEF UdpPorts
<1> HIDE DEF arriving
<1>7. ASSUME calm, Arrives("udp"), Arrives("nat")
      PROVE  Recorded(UdpPorts) /\ \A s \in UdpPorts : path[s] = "open" => s \in ok'
  <2>1. r.recorded = UdpPorts /\ r.answered = open
    BY <1>4, <1>6, <1>7
  <2> QED
    BY <1>1, <2>1
<1> QED
  BY <1>1, <1>2, <1>5, <1>7

(* The sections of a measurement. *)
Sections ==
  \/ Discover \/ DiscoverFails \/ Echo \/ EchoAnswered \/ EchoFails \/ Sniff \/ SniffFails \/ Handshake
  \/ NAT \/ PMTU \/ DNS \/ DNSFails \/ Pull \/ PullFails \/ Reach \/ ReachFails \/ Return

LEMMA SectionFrame ==
  ASSUME TypeOK, Sections
  PROVE  /\ Kept /\ tun' \in BOOLEAN
         /\ pc \in {"discover", "echo", "echoing", "sniff", "handshake", "nat", "pmtu",
                    "dns", "pull", "reach", "report"}
         /\ \/ pc' \in {"echo", "echoing", "sniff", "handshake", "nat", "pmtu", "dns", "pull", "reach", "report"}
            \/ pc' = "returned" /\ level = 1
            \/ pc' = "restore" /\ level = 2
<1>1. CASE Discover
  BY <1>1 DEF Discover, Kept, detectTUN, isTUNInterface
<1>2. CASE Sections /\ ~Discover
  <2>1. Kept /\ tun' = tun
    BY <1>2 DEF Sections, Kept, Goto, DiscoverFails, Echo, EchoAnswered, EchoFails, Sniff, SniffFails,
                Handshake, NAT, PMTU, DNS, DNSFails, Pull, PullFails, Reach, ReachFails, Return
  <2>2. pc \in {"discover", "echo", "echoing", "sniff", "handshake", "nat", "pmtu",
                "dns", "pull", "reach", "report"}
    BY <1>2 DEF Sections, DiscoverFails, Echo, EchoAnswered, EchoFails, Sniff, SniffFails,
                Handshake, NAT, PMTU, DNS, DNSFails, Pull, PullFails, Reach, ReachFails, Return
  <2>3. CASE DiscoverFails \/ Return
    <3>1. pc' = IF level = 1 THEN "returned" ELSE "restore"
      BY <2>3 DEF DiscoverFails, Return, Goto
    <3>2. level = 1 \/ level = 2
      <4>1. level \in 1..2
        BY Zenon DEF TypeOK
      <4> QED
        BY <4>1
    <3>3. (pc' = "returned" /\ level = 1) \/ (pc' = "restore" /\ level = 2)
      BY <3>1, <3>2
    <3>4. tun' \in BOOLEAN
      BY <2>1 DEF TypeOK
    <3> QED
      BY <2>1, <2>2, <3>3, <3>4
  <2>4. CASE ~(DiscoverFails \/ Return)
    <3>1. pc' \in {"echo", "echoing", "sniff", "handshake", "nat", "pmtu", "dns", "pull", "reach", "report"}
      BY <1>2, <2>4 DEF Sections, Goto, Echo, EchoAnswered, EchoFails, Sniff, SniffFails,
                  Handshake, NAT, PMTU, DNS, DNSFails, Pull, PullFails, Reach, ReachFails
    <3> QED
      BY <2>1, <2>2, <3>1 DEF TypeOK
  <2> QED
    BY <2>3, <2>4
<1> QED
  BY <1>1, <1>2

LEMMA SectionResults ==
  ASSUME IInv, Sections
  PROVE  /\ ok' \subseteq Service /\ natDone' \in BOOLEAN /\ pulled' \subseteq Service
         /\ held' \in BOOLEAN /\ seen' \subseteq Service /\ (seen' # {} => held')
         /\ conn' \in [{"http", "tls", "extra"} -> {"none", "open", "closed"}]
<1>1. ok' \subseteq Service
  <2>1. CASE NAT
    BY <2>1, NATStep DEF IInv, TypeOK, Service, UdpPorts
  <2>2. CASE ~NAT
    BY <2>2 DEF IInv, TypeOK, Service, Sections, Discover, DiscoverFails, Echo, EchoAnswered, EchoFails,
         Sniff, SniffFails, Handshake, PMTU, DNS, DNSFails, Pull, PullFails, Reach, ReachFails, Return
  <2> QED
    BY <2>1, <2>2
<1>2. natDone' \in BOOLEAN
  <2>1. CASE NAT
    BY <2>1, NATStep
  <2>2. CASE ~NAT
    BY <2>2 DEF IInv, TypeOK, Sections, Discover, DiscoverFails, Echo, EchoAnswered, EchoFails,
         Sniff, SniffFails, Handshake, PMTU, DNS, DNSFails, Pull, PullFails, Reach, ReachFails, Return
  <2> QED
    BY <2>1, <2>2
<1>3. pulled' \subseteq Service
  BY DEF IInv, TypeOK, Sections, Discover, DiscoverFails, Echo, EchoAnswered, EchoFails, Sniff, SniffFails,
         Handshake, NAT, PMTU, DNS, DNSFails, Pull, PullFails, Reach, ReachFails, Return
<1>4. held' \in BOOLEAN /\ seen' \subseteq Service /\ (seen' # {} => held')
  <2>1. (held' = held /\ seen' = seen) \/ \E S \in SUBSET Service : Recorded(S)
    <3>1. CASE NAT
      BY <3>1, NATStep
    <3>3. CASE PMTU
      <4>1. {"udp"} \in SUBSET Service
        BY DEF Service
      <4> QED
        BY <3>3, <4>1 DEF PMTU
    <3>4. CASE ~(NAT \/ PMTU)
      BY <3>4 DEF Sections, probe, Discover, DiscoverFails, Echo, EchoAnswered, EchoFails, Sniff, SniffFails,
             Handshake, DNS, DNSFails, Pull, PullFails, Reach, ReachFails, Return
    <3> QED
      BY <3>1, <3>3, <3>4
  <2> QED
    BY <2>1, RecordedType DEF IInv, TypeOK
<1>5. conn' \in [{"http", "tls", "extra"} -> {"none", "open", "closed"}]
  <2>1. conn' = conn \/ \E c \in {"http", "tls", "extra"} : Request(c)
    BY DEF Sections, probe, Discover, DiscoverFails, Echo, EchoAnswered, EchoFails, Sniff, SniffFails,
           Handshake, NAT, PMTU, DNS, DNSFails, Pull, PullFails, Reach, ReachFails, Return
  <2> QED
    BY <2>1, RequestType DEF IInv, TypeOK
<1> QED
  BY <1>1, <1>2, <1>3, <1>4, <1>5

LEMMA SectionDNS ==
  ASSUME IInv, Sections
  PROVE  /\ dns' \in [judgment : {"", "taken over", "system only", "same", "suspect"}, forged : BOOLEAN]
         /\ Clean'
<1>1. CASE DNS
  <2>1. PICK answers \in {Truth, {"x"}, Truth \cup {"x"}, {"fake"}}, alias \in BOOLEAN, usable \in BOOLEAN :
          dns' = [judgment |-> judgeDNS(SetToBag(answers), usable, DoHAnswers(alias)),
                  forged |-> answers # Truth]
    BY <1>1 DEF DNS
  <2> DEFINE j == judgeDNS(SetToBag(answers), usable, DoHAnswers(alias))
  <2>2. j = "same" => answers = Truth
    BY SameIsHonest
  <2>3. j \in {"taken over", "system only", "same", "suspect"}
    BY JudgmentType
  <2>4. dns' = [judgment |-> j, forged |-> answers # Truth]
    BY <2>1
  <2> HIDE DEF j
  <2>5. dns'.judgment = j /\ dns'.forged = (answers # Truth)
    BY <2>4
  <2>6. (answers # Truth) \in BOOLEAN
    OBVIOUS
  <2>7. dns' \in [judgment : {"", "taken over", "system only", "same", "suspect"}, forged : BOOLEAN]
    BY <2>3, <2>4, <2>6
  <2>8. Clean'
    BY <2>2, <2>5, Zenon DEF Clean
  <2> QED
    BY <2>7, <2>8
<1>2. CASE ~DNS
  <2>1. dns' = dns \/ dns' = NoDNS
    BY <1>2 DEF Sections, Discover, DiscoverFails, Echo, EchoAnswered, EchoFails, Sniff, SniffFails,
           Handshake, NAT, PMTU, DNSFails, Pull, PullFails, Reach, ReachFails, Return
  <2>2. CASE dns' = dns
    BY <2>2, Zenon DEF IInv, TypeOK, Clean
  <2>3. CASE dns' = NoDNS
    <3>1. dns'.judgment = "" /\ NoDNS \in [judgment : {"", "taken over", "system only", "same", "suspect"}, forged : BOOLEAN]
      BY <2>3 DEF NoDNS
    <3> QED
      BY <2>3, <3>1 DEF Clean
  <2> QED
    BY <2>1, <2>2, <2>3
<1> QED
  BY <1>1, <1>2

LEMMA SectionStep ==
  ASSUME IInv, Sections
  PROVE  IInv' /\ routes' = routes
         /\ level' = level /\ killed' = killed /\ (pc' = "returned" => level = 1) /\ pc # "returned"
<1>1. TypeOK'
  BY SectionFrame, SectionResults, SectionDNS, SectionType DEF IInv
<1>2. DirectOnly'
  BY SectionFrame DEF IInv, DirectOnly, Kept
<1> QED
  BY <1>1, <1>2, SectionFrame, SectionDNS DEF IInv, Kept
-----------------------------------------------------------------------------
(* runDirect: the route goes to the head of the table, whatever the outcome *)
(* of "ip".                                                                 *)
LEMMA AddStep ==
  ASSUME IInv, Direct \/ AddKilled
  PROVE  /\ routes' \in [v4 : Seq(Entry), v6 : Seq(Entry)] /\ routes'.v6 = routes.v6
         /\ DirectRoute(routes'.v4) /\ OneMore(routes.v4, routes'.v4)
         /\ RemoveAt(routes'.v4, 1) = routes.v4
<1> DEFINE iface == parsePhysicalV4(routes.v4)
           e == [dest |-> "host", iface |-> iface, metric |-> 0, by |-> "netsee"]
           t == routes.v4
<1>1. pc = "report" /\ level = 1 /\ Addable /\ routes' = [routes EXCEPT !.v4 = <<e>> \o t]
  BY DEF Direct, AddKilled, Added
<1>2. routes \in [v4 : Seq(Entry), v6 : Seq(Entry)]
  BY DEF IInv, TypeOK
<1>3. iface \in Physical
  BY <1>1, <1>2, AddedIsPhysical
<1>4. /\ \A i \in DOMAIN t : t[i].by = "system"
      /\ \A i \in DOMAIN t : ~(t[i].dest = "host" /\ t[i].metric = 0)
  <2>1. ~killed
    BY <1>1 DEF IInv, DirectOnly
  <2>2. \A i \in DOMAIN t : t[i].by = "system"
    BY <1>1, <2>1 DEF IInv, DirectOnly, OnlySystem
  <2>3. \A i \in DOMAIN t : t[i] \in ToSet(t)
    BY DEF ToSet
  <2> QED
    BY <1>1, <2>2, <2>3 DEF Addable
<1>5. routes'.v4 = <<e>> \o t /\ routes'.v6 = routes.v6 /\ t \in Seq(Entry)
  BY <1>1, <1>2
<1> HIDE DEF iface
<1>6. e \in Entry
  BY <1>3 DEF Entry, Physical, Prefix
<1>7. e.dest = "host" /\ e.metric = 0 /\ e.by = "netsee" /\ e.iface \in Physical
  BY <1>3
<1> HIDE DEF e, t
<1> DEFINE u == <<e>> \o t
<1>8. /\ u \in Seq(Entry) /\ u # <<>> /\ u[1] = e /\ 1 \in DOMAIN u /\ RemoveAt(u, 1) = t
      /\ \A i \in DOMAIN u : i # 1 => i - 1 \in DOMAIN t /\ u[i] = t[i - 1]
  BY <1>5, <1>6, PrependFacts
<1> HIDE DEF u
<1>9. DirectRoute(u)
  BY <1>4, <1>7, <1>8 DEF DirectRoute
<1>10. OneMore(t, u)
  BY <1>7, <1>8 DEF OneMore
<1>11. routes' \in [v4 : Seq(Entry), v6 : Seq(Entry)]
  <2>1. routes' = [v4 |-> u, v6 |-> routes.v6]
    BY <1>1, <1>2 DEF u, t
  <2> QED
    BY <1>2, <1>8, <2>1
<1> QED
  BY <1>5, <1>8, <1>9, <1>10, <1>11 DEF u, t

(* The deferred deletion takes it from there. *)
LEMMA RestoreStep ==
  ASSUME IInv, Restore
  PROVE  /\ routes' \in [v4 : Seq(Entry), v6 : Seq(Entry)] /\ routes'.v6 = routes.v6
         /\ OnlySystem(routes'.v4) /\ OneMore(routes'.v4, routes.v4)
         /\ routes' = [v4 |-> RemoveAt(routes.v4, 1), v6 |-> routes.v6]
<1> DEFINE t == routes.v4
<1>1. pc = "restore" /\ routes' = [routes EXCEPT !.v4 = RemoveAt(t, FirstHost(t))]
  BY DEF Restore, Deleted
<1>2. routes \in [v4 : Seq(Entry), v6 : Seq(Entry)] /\ t \in Seq(Entry)
  BY DEF IInv, TypeOK
<1>3. DirectRoute(t)
  BY <1>1 DEF IInv, DirectOnly
<1>4. routes'.v4 = RemoveAt(t, FirstHost(t)) /\ routes'.v6 = routes.v6
      /\ routes' = [v4 |-> RemoveAt(t, FirstHost(t)), v6 |-> routes.v6]
  BY <1>1, <1>2
<1> HIDE DEF t
<1>5. t # <<>> /\ 1 \in DOMAIN t /\ DOMAIN t \subseteq Nat \ {0} /\ t[1].dest = "host"
  <2>1. t # <<>> /\ t[1].dest = "host"
    BY <1>3 DEF DirectRoute
  <2> QED
    BY <1>2, <2>1
<1>6. FirstHost(t) = 1
  <2> DEFINE First(i) == t[i].dest = "host" /\ \A j \in DOMAIN t : t[j].dest = "host" => i <= j
  <2>1. First(1)
    BY <1>5
  <2>2. \A i \in DOMAIN t : First(i) => i = 1
    <3>1. ASSUME NEW i \in DOMAIN t, First(i) PROVE i <= 1
      BY <1>5, <3>1
    <3> QED
      BY <1>5, <3>1
  <2>3. FirstHost(t) = CHOOSE i \in DOMAIN t : First(i)
    BY DEF FirstHost
  <2> HIDE DEF First
  <2> QED
    BY <1>5, <2>1, <2>2, <2>3
<1> DEFINE u == RemoveAt(t, 1)
<1>7. /\ u \in Seq(Entry)
      /\ \A i \in DOMAIN u : i + 1 \in DOMAIN t /\ i + 1 # 1 /\ u[i] = t[i + 1]
  BY <1>2, <1>5, RemoveFirstFacts
<1>8. OnlySystem(u)
  <2> HIDE DEF u
  <2> QED
    BY <1>3, <1>7 DEF OnlySystem, DirectRoute
<1>9. OneMore(u, t)
  BY <1>3, <1>5 DEF OneMore, DirectRoute
<1>10. routes' = [v4 |-> u, v6 |-> routes.v6]
  BY <1>4, <1>6
<1> HIDE DEF u
<1> QED
  BY <1>2, <1>4, <1>6, <1>7, <1>8, <1>9, <1>10 DEF u, t

LEMMA DirectStep ==
  ASSUME IInv, Direct \/ AddKilled \/ Restore PROVE IInv'
<1>1. CASE Direct
  <2>1. /\ pc = "report" /\ level = 1 /\ pc' = "discover" /\ level' = 2 /\ path' = path /\ ok' = {}
        /\ natDone' = FALSE /\ pulled' = {} /\ tun' = FALSE /\ held' = FALSE /\ seen' = {}
        /\ conn' = [c \in DOMAIN conn |-> "none"] /\ calm' = calm /\ killed' = killed /\ dns' = dns
    BY <1>1 DEF Direct, Again
  <2>2. TypeOK'
    <3>1. conn' \in [{"http", "tls", "extra"} -> {"none", "open", "closed"}]
      BY <2>1 DEF IInv, TypeOK
    <3>2. level' \in 1..2
      BY <2>1
    <3>3. pc' \in {"discover", "echo", "echoing", "sniff", "handshake", "nat", "pmtu", "dns",
                   "pull", "reach", "report", "restore", "returned"}
      BY <2>1
    <3>4. /\ killed' \in BOOLEAN /\ tun' \in BOOLEAN /\ natDone' \in BOOLEAN /\ held' \in BOOLEAN
          /\ (seen' # {} => held') /\ ok' \subseteq Service /\ seen' \subseteq Service /\ pulled' \subseteq Service
          /\ calm' \in BOOLEAN /\ path' \in Paths
          /\ dns' \in [judgment : {"", "taken over", "system only", "same", "suspect"}, forged : BOOLEAN]
      BY <2>1, Zenon DEF IInv, TypeOK
    <3> QED
      BY <1>1, <2>1, <3>1, <3>2, <3>3, <3>4, AddStep, Zenon DEF TypeOK
  <2>3. ~killed
    BY <2>1 DEF IInv, DirectOnly
  <2> QED
    BY <1>1, <2>1, <2>2, <2>3, AddStep DEF IInv, DirectOnly, Clean
<1>2. CASE AddKilled
  <2>1. /\ pc = "report" /\ level = 1 /\ pc' = "returned" /\ ok' = {} /\ killed' = TRUE
        /\ natDone' = FALSE /\ pulled' = {}
        /\ UNCHANGED <<calm, path, level, tun, dns, held, seen, conn>>
    BY <1>2 DEF AddKilled, probe
  <2>2. TypeOK'
    <3>1. pc' \in {"discover", "echo", "echoing", "sniff", "handshake", "nat", "pmtu", "dns",
                   "pull", "reach", "report", "restore", "returned"}
      BY <2>1
    <3>2. calm' = calm /\ path' = path /\ level' = level /\ tun' = tun /\ dns' = dns /\ held' = held
          /\ seen' = seen /\ conn' = conn
      BY <2>1
    <3>3. killed' \in BOOLEAN /\ natDone' \in BOOLEAN /\ ok' \subseteq Service /\ pulled' \subseteq Service
      BY <2>1, Zenon
    <3> QED
      BY <1>2, <3>1, <3>2, <3>3, AddStep, Zenon DEF IInv, TypeOK
  <2> QED
    BY <2>1, <2>2 DEF IInv, DirectOnly, Clean
<1>3. CASE Restore
  <2>1. /\ pc = "restore" /\ pc' = "returned"
        /\ UNCHANGED <<calm, path, level, killed, tun, ok, natDone, dns, held, seen, conn, pulled>>
    BY <1>3 DEF Restore, probe
  <2>2. TypeOK'
    <3>1. pc' \in {"discover", "echo", "echoing", "sniff", "handshake", "nat", "pmtu", "dns",
                   "pull", "reach", "report", "restore", "returned"}
      BY <2>1
    <3>2. calm' = calm /\ path' = path /\ level' = level /\ killed' = killed /\ tun' = tun /\ ok' = ok
          /\ natDone' = natDone /\ dns' = dns /\ held' = held /\ seen' = seen /\ conn' = conn /\ pulled' = pulled
      BY <2>1
    <3> QED
      BY <1>3, <3>1, <3>2, RestoreStep, Zenon DEF IInv, TypeOK
  <2>3. level = 2 /\ ~killed
    BY <2>1 DEF IInv, DirectOnly
  <2> QED
    BY <1>3, <2>1, <2>2, <2>3, RestoreStep DEF IInv, DirectOnly, Clean
<1> QED
  BY <1>1, <1>2, <1>3

(* Another path disturbs nothing but the path. *)
LEMMA RerouteStep ==
  ASSUME IInv, Reroute PROVE IInv'
<1>1. /\ path' \in Paths /\ calm' = calm /\ pc' = pc /\ level' = level /\ routes' = routes /\ killed' = killed
      /\ tun' = tun /\ ok' = ok /\ natDone' = natDone /\ dns' = dns /\ held' = held /\ seen' = seen
      /\ conn' = conn /\ pulled' = pulled
  BY DEF Reroute, probe
<1>2. TypeOK'
  <2>1. pc' \in {"discover", "echo", "echoing", "sniff", "handshake", "nat", "pmtu", "dns",
                 "pull", "reach", "report", "restore", "returned"}
    BY DEF Reroute
  <2>2. /\ calm' = calm /\ path' \in Paths /\ level' = level /\ routes' = routes /\ killed' = killed
        /\ tun' = tun /\ ok' = ok /\ natDone' = natDone /\ dns' = dns /\ held' = held /\ seen' = seen
        /\ conn' = conn /\ pulled' = pulled
    BY <1>1
  <2> QED
    BY <2>1, <2>2, Zenon DEF IInv, TypeOK
<1> QED
  BY <1>1, <1>2 DEF IInv, DirectOnly, Clean

(* The kinds of step, by what they may disturb. *)
LEMMA Steps == Next => \/ Sections \/ Direct \/ Reroute \/ AddKilled \/ Restore
                       \/ Lose \/ (\E c \in DOMAIN conn : Handle(c)) \/ UNCHANGED vars
BY DEF Next, Run, Sections, Returned

LEMMA Inductive ==
  ASSUME IInv, [Next]_vars PROVE IInv'
<1>1. CASE UNCHANGED vars
  <2>1. calm' = calm /\ path' = path /\ pc' = pc /\ level' = level /\ routes' = routes /\ killed' = killed
        /\ tun' = tun /\ ok' = ok /\ natDone' = natDone /\ dns' = dns /\ held' = held /\ seen' = seen
        /\ conn' = conn /\ pulled' = pulled
    BY <1>1 DEF vars
  <2>2. TypeOK'
    <3>1. TypeOK' <=> TypeOK
      BY <2>1 DEF TypeOK
    <3> QED
      BY <3>1 DEF IInv
  <2> QED
    BY <2>1, <2>2 DEF IInv, DirectOnly, Clean
<1> QED
  BY <1>1, Steps, SectionStep, DirectStep, RerouteStep, ProbeStep

(* The inductive invariant holds throughout a run, whatever the network does to *)
(* its ports and wherever it fails.                                             *)
THEOREM Invariance == Spec => []IInv
<1>1. Init => IInv
  BY InitHolds
<1>2. IInv /\ [Next]_vars => IInv'
  BY Inductive
<1> QED
  BY <1>1, <1>2, PTL DEF Spec

(* TypeOK: no section, handler or change of the routes leads out of the      *)
(* types; in particular the second measurement starts no third.              *)
THEOREM TypeCorrect == Spec => []TypeOK
<1>1. IInv => TypeOK
  BY DEF IInv
<1> QED
  BY <1>1, Invariance, PTL

(* ForgeryIsNotSame: the DNS comparison says "same" of honest answers only,  *)
(* with and without an alias.                                                *)
THEOREM ForgeryIsNotCalledSame == Spec => []ForgeryIsNotSame
<1>1. IInv => ForgeryIsNotSame
  BY DEF IInv, Clean, ForgeryIsNotSame
<1> QED
  BY <1>1, Invariance, PTL

(* RouteRestored: whatever the table was, and however the measurements end,  *)
(* no route of the client is left when Run returns, unless "ip route add"    *)
(* was killed.                                                               *)
THEOREM RoutesAreRestored == Spec => []RouteRestored
<1>1. ASSUME IInv, pc = "returned", ~killed, NEW e \in ToSet(routes.v4) PROVE e.by # "netsee"
  <2>1. level = 1 \/ level = 2
    <3>1. level \in 1..2
      BY <1>1, Zenon DEF IInv, TypeOK
    <3> QED
      BY <3>1
  <2>2. OnlySystem(routes.v4)
    BY <1>1, <2>1 DEF IInv, DirectOnly
  <2>3. PICK i \in DOMAIN routes.v4 : e = routes.v4[i]
    BY DEF ToSet
  <2> QED
    BY <2>2, <2>3 DEF OnlySystem
<1>2. IInv => RouteRestored
  BY <1>1 DEF RouteRestored
<1> QED
  BY <1>2, Invariance, PTL

(* The routes as the run found them, whatever it was that it found, are what *)
(* it leaves behind; while the second measurement is on they are the ones     *)
(* after the first.                                                           *)
AsFound(t) ==
  /\ level = 1 /\ ~killed => routes = t
  /\ level = 2 /\ pc = "returned" => routes = t
  /\ level = 2 /\ pc # "returned" => RemoveAt(routes.v4, 1) = t.v4 /\ routes.v6 = t.v6

(* Direct adds one route in front, Restore takes that one away, and nothing else *)
(* touches the table.                                                            *)
LEMMA AsFoundKept ==
  ASSUME NEW t \in [v4 : Seq(Entry), v6 : Seq(Entry)], IInv, AsFound(t), [Next]_vars
  PROVE  AsFound(t)'
<1>1. CASE Sections
  BY <1>1, SectionStep DEF AsFound
<1>2. CASE Lose \/ (\E c \in DOMAIN conn : Handle(c))
  BY <1>2, ProbeStep DEF AsFound
<1>3. CASE Direct
  <2>1. /\ pc = "report" /\ level = 1 /\ pc' = "discover" /\ level' = 2 /\ killed' = killed
    BY <1>3 DEF Direct, Again
  <2>2. ~killed /\ routes = t
    BY <2>1 DEF IInv, DirectOnly, AsFound
  <2> QED
    BY <1>3, <2>1, <2>2, AddStep DEF AsFound
<1>4. CASE AddKilled
  <2>1. level' = 1 /\ killed'
    BY <1>4 DEF AddKilled
  <2> QED
    BY <2>1 DEF AsFound
<1>5. CASE Restore
  <2>1. pc = "restore" /\ pc' = "returned" /\ level' = level
    BY <1>5 DEF Restore
  <2>2. level = 2
    BY <2>1 DEF IInv, DirectOnly
  <2>3. RemoveAt(routes.v4, 1) = t.v4 /\ routes.v6 = t.v6
    BY <2>1, <2>2 DEF AsFound
  <2>4. routes' = [v4 |-> t.v4, v6 |-> t.v6]
    BY <1>5, <2>3, RestoreStep
  <2>5. routes' = t
    BY <2>4
  <2> QED
    BY <2>1, <2>2, <2>5 DEF AsFound
<1>6. CASE UNCHANGED vars
  BY <1>6 DEF vars, AsFound
<1>7. CASE Reroute
  BY <1>7 DEF Reroute, AsFound
<1> QED
  BY <1>1, <1>2, <1>3, <1>4, <1>5, <1>6, <1>7, Steps

(* However the measurements end, Run leaves the routes exactly as it found    *)
(* them: every route, in its place, and no other, unless "ip route add" was   *)
(* killed.  The table t is any that the run may start with.                   *)
THEOREM RoutesAreAsFound ==
  ASSUME NEW t \in Tables
  PROVE  Spec /\ routes = t => [](pc = "returned" /\ ~killed => routes = t)
<1>1. t \in [v4 : Seq(Entry), v6 : Seq(Entry)]
  BY RunAssumption
<1>2. Init /\ routes = t => AsFound(t)
  BY DEF Init, AsFound
<1>3. IInv /\ AsFound(t) /\ [Next]_vars => AsFound(t)'
  BY <1>1, AsFoundKept
<1>4. IInv /\ AsFound(t) => (pc = "returned" /\ ~killed => routes = t)
  <2>1. IInv => level = 1 \/ level = 2
    <3>1. IInv => level \in 1..2
      BY Zenon DEF IInv, TypeOK
    <3> QED
      BY <3>1
  <2> QED
    BY <2>1 DEF AsFound
<1> QED
  BY <1>2, <1>3, <1>4, Invariance, PTL DEF Spec

(* DirectIsPhysical: throughout the second measurement the kernel sends what *)
(* goes to the probe out of a physical interface.                            *)
THEOREM SecondColumnIsPhysical == Spec => []DirectIsPhysical
<1>1. ASSUME NEW t \in Seq(Entry), DirectRoute(t) PROVE Via(t) \in Physical
  <2>1. 1 \in DOMAIN t /\ t[1] \in ToSet(t) /\ t[1].dest = "host" /\ t[1].metric = 0
    <3>1. 1 \in DOMAIN t
      BY <1>1 DEF DirectRoute
    <3> QED
      BY <1>1, <3>1 DEF DirectRoute, ToSet
  <2>2. \A e \in ToSet(t) : e \in Entry /\ (e # t[1] => ~(e.dest = "host" /\ e.metric = 0))
    BY <1>1 DEF ToSet, DirectRoute
  <2>3. Prefix["host"] = 32 /\ Prefix["half"] = 1 /\ Prefix["any"] = 0
        /\ \A e \in Entry : e.dest \in {"host", "half", "any"} /\ e.metric \in Nat
    BY DEF Prefix, Entry
  <2> DEFINE Best(e) ==
             \A f \in ToSet(t) : \/ Prefix[e.dest] > Prefix[f.dest]
                                 \/ e.dest = f.dest /\ e.metric <= f.metric
  <2>4. Best(t[1])
    <3>1. ASSUME NEW f \in ToSet(t)
          PROVE  32 > Prefix[f.dest] \/ (f.dest = "host" /\ 0 <= f.metric)
      <4>1. f.dest \in {"host", "half", "any"} /\ f.metric \in Nat
        BY <2>2, <2>3
      <4> QED
        BY <2>3, <4>1
    <3> HIDE DEF Prefix
    <3>2. ASSUME NEW f \in ToSet(t)
          PROVE  Prefix[t[1].dest] > Prefix[f.dest] \/ (t[1].dest = f.dest /\ t[1].metric <= f.metric)
      BY <2>1, <2>3, <3>1
    <3> QED
      BY <3>2
  <2>5. ASSUME NEW e \in ToSet(t), Best(e) PROVE e = t[1]
    <3>1. Prefix[e.dest] > 32 \/ (e.dest = "host" /\ e.metric <= 0)
      BY <2>1, <2>3, <2>5
    <3>2. e.dest = "host" /\ e.metric = 0
      BY <2>2, <2>3, <3>1
    <3> QED
      BY <2>2, <3>2
  <2>6. Via(t) = (CHOOSE e \in ToSet(t) : Best(e)).iface
    BY Zenon DEF Via
  <2>7. (CHOOSE e \in ToSet(t) : Best(e)) = t[1]
    <3> HIDE DEF Best
    <3> QED
      BY <2>1, <2>4, <2>5
  <2> QED
    BY <1>1, <2>6, <2>7 DEF DirectRoute
<1>2. ASSUME IInv, level = 2, pc # "returned" PROVE Via(routes.v4) \notin {"tun0", "*"}
  <2>1. routes.v4 \in Seq(Entry) /\ DirectRoute(routes.v4)
    BY <1>2 DEF IInv, TypeOK, DirectOnly
  <2> QED
    BY <1>1, <2>1 DEF Physical
<1>3. IInv => DirectIsPhysical
  BY <1>2 DEF DirectIsPhysical
<1> QED
  BY <1>3, Invariance, PTL

(* RoutesOfOthersKept: a step puts one route of the client's own into the    *)
(* table or takes one out; every other route stays, in its place.            *)
THEOREM OthersRoutesAreKept == Spec => RoutesOfOthersKept
<1> DEFINE A == /\ routes'.v6 = routes.v6
                /\ \/ routes'.v4 = routes.v4
                   \/ OneMore(routes.v4, routes'.v4) \/ OneMore(routes'.v4, routes.v4)
<1>1. IInv /\ [Next]_vars => [A]_vars
  <2>1. CASE UNCHANGED vars
    BY <2>1
  <2>2. ASSUME IInv, Next PROVE A \/ UNCHANGED vars
    <3>1. CASE Direct \/ AddKilled
      BY <2>2, <3>1, AddStep
    <3>2. CASE Restore
      BY <2>2, <3>2, RestoreStep
    <3>3. CASE routes' = routes
      BY <3>3
    <3>4. Reroute => routes' = routes
      BY DEF Reroute
    <3> QED
      BY <2>2, <3>1, <3>2, <3>3, <3>4, Steps, SectionStep, ProbeStep
  <2> QED
    BY <2>1, <2>2
<1> QED
  BY <1>1, Invariance, PTL DEF RoutesOfOthersKept, Spec
-----------------------------------------------------------------------------
(* The attribution of the first measurement.  What the kernel prefers is    *)
(* what parseRouteV4 finds, for tables like those proxies leave: a route    *)
(* through a TUN is a default route of some kind, half of the addresses     *)
(* never have a worse metric than all of them, and routes that differ in    *)
(* the interface alone do not exist.                                        *)
ProxyTable(t) ==
  /\ t # <<>>
  /\ \A e \in ToSet(t) : e.dest = "host" => ~isTUNInterface(e.iface)
  /\ \A e, f \in ToSet(t) :
       /\ e.dest = "half" /\ f.dest = "any" => e.metric < f.metric
       /\ e.dest = f.dest /\ e.metric = f.metric => e.iface = f.iface

(* tun is what detectTUN made of the routes the kernel still has. *)
FirstColumn ==
  level = 1 /\ ~killed =>
    /\ routes \in Tables
    /\ pc \notin {"discover", "returned"} => tun = detectTUN(routes)

(* A table that is not empty has a route the kernel prefers. *)
Preferred(t, e) ==
  \A f \in ToSet(t) : Prefix[e.dest] > Prefix[f.dest] \/ (e.dest = f.dest /\ e.metric <= f.metric)

LEMMA EntryFacts ==
  ASSUME NEW t \in Seq(Entry)
  PROVE  /\ \A e \in ToSet(t) : e.dest \in {"host", "half", "any"} /\ e.metric \in Nat
         /\ Prefix["host"] = 32 /\ Prefix["half"] = 1 /\ Prefix["any"] = 0
<1>1. \A e \in ToSet(t) : e \in Entry
  BY DEF ToSet
<1> QED
  BY <1>1 DEF Entry, Prefix

(* On any table the kernel takes a route to which it prefers no other. *)
LEMMA ViaIsPreferred ==
  ASSUME NEW t \in Seq(Entry), t # <<>>
  PROVE  \E e \in ToSet(t) : Preferred(t, e) /\ Via(t) = e.iface
<1> DEFINE Of(d) == {e \in ToSet(t) : e.dest = d}
<1>1. ASSUME NEW d \in {"host", "half", "any"}, Of(d) # {}
      PROVE  \E e \in Of(d) : \A f \in Of(d) : e.metric <= f.metric
  <2> DEFINE metrics == {e.metric : e \in Of(d)}
  <2>1. metrics \in SUBSET Nat /\ metrics # {}
    BY <1>1, EntryFacts
  <2>2. PICK m \in metrics : \A y \in metrics : m <= y
    <3> HIDE DEF metrics
    <3> QED
      BY <2>1, NatMinimum
  <2> QED
    BY <2>2
<1>2. \E e \in ToSet(t) : Preferred(t, e)
  <2>1. \E d \in {"host", "half", "any"} :
           Of(d) # {} /\ \A c \in {"host", "half", "any"} : Of(c) # {} => c = d \/ Prefix[d] > Prefix[c]
    <3>1. t[1] \in ToSet(t)
      BY DEF ToSet
    <3>2. Of("host") # {} \/ Of("half") # {} \/ Of("any") # {}
      BY <3>1, EntryFacts
    <3> HIDE DEF Of
    <3> QED
      BY <3>2, EntryFacts
  <2>2. PICK d \in {"host", "half", "any"} :
           Of(d) # {} /\ \A c \in {"host", "half", "any"} : Of(c) # {} => c = d \/ Prefix[d] > Prefix[c]
    BY <2>1
  <2>3. PICK e \in Of(d) : \A f \in Of(d) : e.metric <= f.metric
    BY <1>1, <2>2
  <2>4. ASSUME NEW f \in ToSet(t) PROVE Prefix[e.dest] > Prefix[f.dest] \/ (e.dest = f.dest /\ e.metric <= f.metric)
    <3>1. f \in Of(f.dest) /\ f.dest \in {"host", "half", "any"} /\ e.dest = d
      BY EntryFacts
    <3>2. f.dest = d \/ Prefix[d] > Prefix[f.dest]
      BY <2>2, <3>1
    <3> QED
      BY <2>3, <3>1, <3>2
  <2> QED
    BY <2>4 DEF Preferred
<1>3. Via(t) = (CHOOSE e \in ToSet(t) : Preferred(t, e)).iface
  BY Zenon DEF Via, Preferred
<1> QED
  BY <1>2, <1>3

(* On a table like those a proxy leaves, the interface the parser finds is the *)
(* TUN the kernel prefers.                                                     *)
LEMMA TunIsFound ==
  ASSUME NEW t \in Seq(Entry), ProxyTable(t), isTUNInterface(Via(t))
  PROVE  isTUNInterface(parseRouteV4(t))
<1>1. PICK e \in ToSet(t) : Preferred(t, e) /\ Via(t) = e.iface
  BY ViaIsPreferred DEF ProxyTable
<1>2. e.dest # "host"
  BY <1>1 DEF ProxyTable
<1>3. \A f \in ToSet(t) : f.dest # "host" /\ (e.dest = "any" => f.dest = "any")
  <2>1. \A f \in ToSet(t) : Prefix[e.dest] > Prefix[f.dest] \/ (e.dest = f.dest /\ e.metric <= f.metric)
    BY <1>1, Zenon DEF Preferred
  <2> QED
    BY <1>2, <2>1, EntryFacts
<1> DEFINE lines == {i \in DOMAIN t : Default(t[i])}
<1>4. \A i \in DOMAIN t : t[i] \in ToSet(t)
  BY DEF ToSet
<1>5. PICK k \in DOMAIN t : e = t[k]
  BY DEF ToSet
<1>6. lines = DOMAIN t
  BY <1>3, <1>4, EntryFacts DEF Default
<1>7. PICK i \in lines : Lowest(t, lines) = t[i].iface /\ \A j \in lines : t[i].metric <= t[j].metric
  BY <1>5, <1>6, LowestFound
<1>8. t[i].metric <= e.metric /\ t[i] \in ToSet(t)
  BY <1>4, <1>5, <1>6, <1>7
<1>9. t[i].dest = e.dest
  <2>1. CASE e.dest = "any"
    BY <1>3, <1>8, <2>1
  <2>2. CASE e.dest = "half"
    <3>1. t[i].dest = "any" => e.metric < t[i].metric
      BY <1>8, <2>2 DEF ProxyTable
    <3> QED
      BY <1>3, <1>8, <2>2, <3>1, EntryFacts
  <2> QED
    BY <1>2, <2>1, <2>2, EntryFacts
<1>10. t[i].metric = e.metric
  <2>1. e.metric <= t[i].metric
    BY <1>1, <1>8, <1>9, EntryFacts DEF Preferred
  <2> QED
    BY <1>8, <2>1, EntryFacts
<1>11. t[i].iface = e.iface
  BY <1>8, <1>9, <1>10 DEF ProxyTable
<1> QED
  BY <1>1, <1>7, <1>11 DEF parseRouteV4

LEMMA FirstColumnKept ==
  ASSUME IInv, FirstColumn, [Next]_vars PROVE FirstColumn'
<1>1. CASE Sections
  <2>1. Kept
    BY <1>1, SectionFrame DEF IInv
  <2>2. CASE Discover
    BY <2>1, <2>2 DEF FirstColumn, Kept, Discover
  <2>3. CASE ~Discover
    <3>1. tun' = tun /\ pc # "returned"
      BY <1>1, <2>3 DEF Sections, Goto, DiscoverFails, Echo, EchoAnswered, EchoFails, Sniff, SniffFails,
              Handshake, NAT, PMTU, DNS, DNSFails, Pull, PullFails, Reach, ReachFails, Return
    <3>2. pc = "discover" /\ level = 1 => pc' = "returned"
      BY <1>1, <2>3 DEF Sections, Goto, DiscoverFails, Echo, EchoAnswered, EchoFails, Sniff, SniffFails,
              Handshake, NAT, PMTU, DNS, DNSFails, Pull, PullFails, Reach, ReachFails, Return
    <3> QED
      BY <2>1, <3>1, <3>2 DEF FirstColumn, Kept
  <2> QED
    BY <2>2, <2>3
<1>2. CASE Direct \/ AddKilled
  <2>1. level' = 2 \/ killed'
    BY <1>2 DEF Direct, AddKilled, Again
  <2> QED
    BY <2>1 DEF FirstColumn
<1>3. CASE Restore
  <2>1. level' = 2
    BY <1>3 DEF Restore, IInv, DirectOnly
  <2> QED
    BY <2>1 DEF FirstColumn
<1>4. CASE Reroute \/ Lose \/ (\E c \in DOMAIN conn : Handle(c)) \/ UNCHANGED vars
  <2>1. level' = level /\ killed' = killed /\ routes' = routes /\ tun' = tun /\ pc' = pc
    BY <1>4 DEF Reroute, Lose, Handle, vars
  <2> QED
    BY <2>1 DEF FirstColumn
<1> QED
  BY <1>1, <1>2, <1>3, <1>4, Steps

(* ProxyExitAttributed: on hosts with such tables, when what is sent to the   *)
(* probe leaves through a TUN the report says so: in the first column because *)
(* detectTUN finds the route the kernel prefers, in the second because there  *)
(* the route of --direct is preferred to every other.                         *)
THEOREM ProxyIsAttributed ==
  ASSUME \A t \in Tables : ProxyTable(t.v4)
  PROVE  Spec => []ProxyExitAttributed
<1>1. Init => FirstColumn
  BY DEF Init, FirstColumn
<1>2. IInv /\ FirstColumn /\ [Next]_vars => FirstColumn'
  BY FirstColumnKept
<1>3. ASSUME IInv, FirstColumn, pc = "report", level = 1, isTUNInterface(Via(routes.v4)) PROVE tun
  <2>1. ~killed /\ routes.v4 \in Seq(Entry)
    BY <1>3 DEF IInv, DirectOnly, TypeOK
  <2>2. ProxyTable(routes.v4) /\ tun = detectTUN(routes)
    BY <1>3, <2>1 DEF FirstColumn
  <2> QED
    BY <1>3, <2>1, <2>2, TunIsFound DEF detectTUN
<1>4. IInv /\ FirstColumn /\ DirectIsPhysical => ProxyExitAttributed
  <2>1. IInv => level = 1 \/ level = 2
    <3>1. IInv => level \in 1..2
      BY Zenon DEF IInv, TypeOK
    <3> QED
      BY <3>1
  <2>2. level = 2 /\ pc = "report" /\ DirectIsPhysical => ~isTUNInterface(Via(routes.v4))
    BY DEF DirectIsPhysical, isTUNInterface
  <2> QED
    BY <1>3, <2>1, <2>2 DEF ProxyExitAttributed
<1> QED
  BY <1>1, <1>2, <1>4, Invariance, SecondColumnIsPhysical, PTL DEF Spec
-----------------------------------------------------------------------------
(* What the probe comes to see. *)
LEMMA SectionEffects ==
  ASSUME IInv, Sections
  PROVE  /\ conn' = conn \/ \E c \in {"http", "tls", "extra"} : Request(c)
         /\ seen' = seen \/ \E S \in SUBSET Service : (\A s \in S : Arrives(s)) /\ seen' = seen \cup S
         /\ pulled' \in {pulled, seen, {}}
<1>1. conn' = conn \/ \E c \in {"http", "tls", "extra"} : Request(c)
  BY DEF Sections, probe, Discover, DiscoverFails, Echo, EchoAnswered, EchoFails, Sniff, SniffFails,
         Handshake, NAT, PMTU, DNS, DNSFails, Pull, PullFails, Reach, ReachFails, Return
<1>2. pulled' \in {pulled, seen, {}}
  BY DEF Sections, Discover, DiscoverFails, Echo, EchoAnswered, EchoFails, Sniff, SniffFails,
         Handshake, NAT, PMTU, DNS, DNSFails, Pull, PullFails, Reach, ReachFails, Return
<1>3. seen' = seen \/ \E S \in SUBSET Service : (\A s \in S : Arrives(s)) /\ seen' = seen \cup S
  <2>1. CASE NAT
    BY <2>1, NATStep DEF Recorded
  <2>3. CASE PMTU
    <3>1. {"udp"} \in SUBSET Service
      BY DEF Service
    <3>2. seen' = seen \/ (Arrives("udp") /\ seen' = seen \cup {"udp"})
      BY <2>3 DEF PMTU, Recorded
    <3> QED
      BY <3>1, <3>2
  <2>4. CASE ~(NAT \/ PMTU)
    BY <2>4 DEF Sections, probe, Discover, DiscoverFails, Echo, EchoAnswered, EchoFails, Sniff, SniffFails,
           Handshake, DNS, DNSFails, Pull, PullFails, Reach, ReachFails, Return
  <2> QED
    BY <2>1, <2>3, <2>4
<1> QED
  BY <1>1, <1>2, <1>3

(* No step makes an observation of what somebody else answered. *)
LEMMA UnseenKept ==
  ASSUME IInv, Unseen, [Next]_vars PROVE Unseen'
<1>0. conn \in [{"http", "tls", "extra"} -> {"none", "open", "closed"}]
  BY DEF IInv, TypeOK
<1>1. CASE Sections
  <2>1. path' = path
    BY <1>1, SectionFrame DEF IInv, Kept
  <2>2. \A c \in DOMAIN conn' : conn'[c] # "none" => path[c] # "intercepted"
    <3>1. CASE conn' = conn
      BY <3>1 DEF Unseen
    <3>2. ASSUME NEW c \in {"http", "tls", "extra"}, Request(c)
          PROVE  \A k \in DOMAIN conn' : conn'[k] # "none" => path[k] # "intercepted"
      BY <1>0, <3>2 DEF Unseen, Request
    <3> QED
      BY <1>1, <3>1, <3>2, SectionEffects
  <2>3. \A s \in seen' \cup pulled' : path[s] # "intercepted"
    <3>1. \A s : Arrives(s) => path[s] # "intercepted"
      BY DEF Arrives
    <3>2. \A s \in seen' : path[s] # "intercepted"
      BY <1>1, <3>1, SectionEffects DEF Unseen
    <3>3. \A s \in pulled' : path[s] # "intercepted"
      BY <1>1, SectionEffects DEF Unseen
    <3> QED
      BY <3>2, <3>3
  <2>4. pc' # "discover"
    BY <1>1 DEF Sections, Goto, Discover, DiscoverFails, Echo, EchoAnswered, EchoFails, Sniff, SniffFails,
           Handshake, NAT, PMTU, DNS, DNSFails, Pull, PullFails, Reach, ReachFails, Return
  <2> QED
    BY <2>1, <2>2, <2>3, <2>4 DEF Unseen
<1>2. CASE \E c \in DOMAIN conn : Handle(c)
  <2>1. PICK c \in DOMAIN conn : Handle(c)
    BY <1>2
  <2>2. /\ conn[c] = "open" /\ conn' = [conn EXCEPT ![c] = "closed"]
        /\ path' = path /\ pulled' = pulled /\ (seen' = seen \/ seen' = seen \cup {c})
        /\ pc' = pc
    BY <2>1 DEF Handle, Recorded
  <2> QED
    BY <1>0, <2>2 DEF Unseen
<1>3. CASE Lose
  BY <1>3 DEF Lose, Unseen
<1>4. CASE Direct
  <2>1. conn' = [c \in DOMAIN conn |-> "none"] /\ seen' = {} /\ pulled' = {}
    BY <1>4 DEF Direct, Again
  <2> QED
    BY <2>1 DEF Unseen
<1>5. CASE AddKilled
  <2>1. conn' = conn /\ seen' = seen /\ pulled' = {} /\ path' = path /\ pc' = "returned"
    BY <1>5 DEF AddKilled, probe
  <2> QED
    BY <2>1 DEF Unseen
<1>6. CASE Restore \/ UNCHANGED vars
  <2>1. conn' = conn /\ seen' = seen /\ pulled' = pulled /\ path' = path /\ (pc' = pc \/ pc' = "returned")
    BY <1>6 DEF Restore, probe, vars
  <2> QED
    BY <2>1 DEF Unseen
<1>7. CASE Reroute
  <2>1. pc = "discover" /\ pc' = pc /\ conn' = conn /\ seen' = seen /\ pulled' = pulled
    BY <1>7 DEF Reroute, probe
  <2> QED
    BY <2>1 DEF Unseen
<1> QED
  BY <1>1, <1>2, <1>3, <1>4, <1>5, <1>6, <1>7, Steps

(* No two of the probe's ports have the same number. *)
DistinctPorts == \A s, t \in Service : Number[s] = Number[t] => s = t

(* With numbers of their own, the report says of a port what the outcomes and *)
(* the pulled observations say of its service.                                *)
LEMMA PortByPort ==
  ASSUME DistinctPorts, IInv, NEW s \in Service
  PROVE  /\ Outcome(s) <=> s \in ok
         /\ ProbeSaw(s) <=> s \in pulled
<1>1. pulled \subseteq Service
  BY Zenon DEF IInv, TypeOK
<1>2. {t \in Service : Number[t] = Number[s]} = {s}
  BY DEF DistinctPorts
<1>3. Order[s] <= Order[s]
  BY DEF Order, Service
<1>4. Outcome(s) <=> s \in ok
  BY <1>2, <1>3 DEF Outcome
<1>5. ProbeSaw(s) <=> s \in pulled
  BY <1>1 DEF ProbeSaw, DistinctPorts
<1> QED
  BY <1>4, <1>5

(* InterceptedIsExposed: whatever is lost or late, a port where somebody else *)
(* answers is never reported both as reached and as seen by the probe.        *)
THEOREM InterceptionIsExposed ==
  ASSUME DistinctPorts
  PROVE  Spec => []InterceptedIsExposed
<1>1. Init => Unseen
  BY DEF Init, Unseen
<1>2. IInv /\ Unseen /\ [Next]_vars => Unseen'
  BY UnseenKept
<1>3. ASSUME IInv, Unseen, NEW s \in Service, path[s] = "intercepted"
      PROVE  ~(Outcome(s) /\ Consistent(s))
  <2>1. s \notin pulled
    BY <1>3 DEF Unseen
  <2> QED
    BY <1>3, <2>1, PortByPort DEF Consistent
<1>4. IInv /\ Unseen => InterceptedIsExposed
  BY <1>3 DEF InterceptedIsExposed
<1> QED
  BY <1>1, <1>2, <1>4, Invariance, PTL DEF Spec
-----------------------------------------------------------------------------
(* The sections of a calm run, one by one: what each leaves behind it. *)
LEMMA UndisturbedFacts ==
  /\ \A s \in Undisturbed : s \in {"http", "tls", "udp", "nat"} /\ path[s] = "open"
  /\ \A s \in Undisturbed : s \in {"udp", "nat"} => Arrives("udp") /\ Arrives("nat")
  /\ path' = path => Undisturbed' = Undisturbed
BY DEF Undisturbed, Service, Arrives

LEMMA RequestCloses ==
  ASSUME IInv, NEW c \in {"http", "tls", "extra"}, Request(c)
  PROVE  \A k \in DOMAIN conn' : conn'[k] = "closed" => k \in DOMAIN conn /\ conn[k] = "closed"
<1>1. conn \in [{"http", "tls", "extra"} -> {"none", "open", "closed"}]
  BY DEF IInv, TypeOK
<1> QED
  BY <1>1 DEF Request

(* A section that is not the last of any service's. *)
LEMMA ProgressSame ==
  ASSUME Progress, calm' = calm, path' = path, ok \subseteq ok', seen \subseteq seen', pulled' = pulled,
         \A k \in DOMAIN conn' : conn'[k] = "closed" => k \in seen',
         pc' = "handshake" => "tls" \in ok',
         \A s \in Undisturbed : pc' \in After[s] => pc \in After[s] \/ (s \in ok' /\ s \in seen'),
         pc' \in {"reach", "report"} => pc \in {"reach", "report"}
  PROVE  Progress'
<1>1. Undisturbed' = Undisturbed
  BY UndisturbedFacts
<1> QED
  BY <1>1 DEF Progress, After

LEMMA EchoProgress ==
  ASSUME IInv, Progress, calm, Echo \/ EchoAnswered \/ EchoFails PROVE Progress'
<1>1. calm' = calm /\ path' = path /\ seen' = seen /\ pulled' = pulled /\ ok \subseteq ok'
  BY DEF Echo, EchoAnswered, EchoFails, Goto, probe
<1>2. \A k \in DOMAIN conn' : conn'[k] = "closed" => k \in seen
  <2>1. conn' = conn \/ Request("http")
    BY DEF Echo, EchoAnswered, EchoFails, probe
  <2> QED
    BY <2>1, RequestCloses DEF Progress
<1>3. CASE Echo
  <2>1. pc' = "echoing"
    BY <1>3 DEF Echo, Goto
  <2>2. \A s \in Undisturbed : pc' \notin After[s]
    BY <2>1, UndisturbedFacts DEF After
  <2> QED
    BY <1>1, <1>2, <2>1, <2>2, ProgressSame
<1>4. CASE EchoAnswered \/ EchoFails
  <2>1. pc' = "sniff"
    BY <1>4 DEF EchoAnswered, EchoFails, Goto
  <2>2. "http" \in Undisturbed => "http" \in ok' /\ "http" \in seen
    <3>1. SUFFICES ASSUME path["http"] = "open" PROVE "http" \in ok' /\ "http" \in seen
      BY UndisturbedFacts
    <3>2. EchoAnswered /\ conn["http"] = "closed"
      BY <1>4, <3>1 DEF EchoAnswered, EchoFails
    <3>3. "http" \in DOMAIN conn
      BY DEF IInv, TypeOK
    <3> QED
      BY <3>2, <3>3 DEF EchoAnswered, Progress
  <2>3. \A s \in Undisturbed : pc' \in After[s] => s \in ok' /\ s \in seen
    BY <2>1, <2>2, UndisturbedFacts DEF After
  <2> QED
    BY <1>1, <1>2, <2>1, <2>3, ProgressSame
<1> QED
  BY <1>3, <1>4

LEMMA SniffProgress ==
  ASSUME IInv, Progress, calm, Sniff \/ SniffFails \/ Handshake PROVE Progress'
<1>1. calm' = calm /\ path' = path /\ seen' = seen /\ pulled' = pulled /\ ok \subseteq ok'
      /\ pc \in {"sniff", "handshake"}
  BY DEF Sniff, SniffFails, Handshake, Goto, probe
<1>2. \A k \in DOMAIN conn' : conn'[k] = "closed" => k \in seen
  <2>1. conn' = conn \/ Request("tls")
    BY DEF Sniff, SniffFails, Handshake, probe
  <2> QED
    BY <2>1, RequestCloses DEF Progress
<1>3. "http" \in Undisturbed => "http" \in ok /\ "http" \in seen
  BY <1>1 DEF Progress, After
<1>4. CASE Sniff
  <2>1. pc' = "handshake" /\ "tls" \in ok'
    BY <1>4 DEF Sniff, Goto
  <2>2. \A s \in Undisturbed : pc' \in After[s] => s \in ok' /\ s \in seen
    BY <1>1, <1>3, <2>1, UndisturbedFacts DEF After
  <2> QED
    BY <1>1, <1>2, <2>1, <2>2, ProgressSame
<1>5. CASE SniffFails \/ Handshake
  <2>1. pc' = "nat"
    BY <1>5 DEF SniffFails, Handshake, Goto
  <2>2. "tls" \in Undisturbed => "tls" \in ok' /\ "tls" \in seen
    <3>1. SUFFICES ASSUME path["tls"] = "open" PROVE "tls" \in ok' /\ "tls" \in seen
      BY UndisturbedFacts
    <3>2. pc = "handshake" /\ conn["tls"] = "closed"
      BY <1>5, <3>1 DEF SniffFails, Handshake
    <3>3. "tls" \in DOMAIN conn
      BY DEF IInv, TypeOK
    <3> QED
      BY <1>1, <3>2, <3>3 DEF Progress
  <2>3. \A s \in Undisturbed : pc' \in After[s] => s \in ok' /\ s \in seen
    BY <1>1, <1>3, <2>1, <2>2, UndisturbedFacts DEF After
  <2> QED
    BY <1>1, <1>2, <2>1, <2>3, ProgressSame
<1> QED
  BY <1>4, <1>5

LEMMA UdpProgress ==
  ASSUME IInv, Progress, calm, NAT \/ PMTU \/ DNS \/ DNSFails PROVE Progress'
<1>1. calm' = calm /\ path' = path /\ pulled' = pulled /\ ok \subseteq ok' /\ conn' = conn
  BY DEF NAT, PMTU, DNS, DNSFails, Goto, probe
<1>2. seen \subseteq seen'
  BY DEF NAT, PMTU, DNS, DNSFails, Recorded, probe
<1>3. \A k \in DOMAIN conn' : conn'[k] = "closed" => k \in seen'
  BY <1>1, <1>2 DEF Progress
<1>4. CASE NAT
  <2>1. pc = "nat" /\ pc' = "pmtu"
    BY <1>4 DEF NAT, Goto
  <2>2. ASSUME NEW s \in {"udp", "nat"}, s \in Undisturbed PROVE s \in ok' /\ s \in seen'
    <3>1. Arrives("udp") /\ Arrives("nat") /\ path[s] = "open"
      BY <2>2, UndisturbedFacts
    <3> QED
      BY <1>4, <3>1, NATStep DEF Recorded, UdpPorts
  <2>3. ASSUME NEW s \in {"http", "tls"}, s \in Undisturbed PROVE s \in ok' /\ s \in seen'
    <3>1. pc \in After[s]
      BY <2>1, <2>3 DEF After
    <3> QED
      BY <1>1, <1>2, <2>3, <3>1 DEF Progress
  <2>4. \A s \in Undisturbed : s \in ok' /\ s \in seen'
    BY <2>2, <2>3, UndisturbedFacts
  <2> QED
    BY <1>1, <1>2, <1>3, <2>1, <2>4, ProgressSame
<1>5. CASE PMTU \/ DNS \/ DNSFails
  <2>1. pc \in {"pmtu", "dns"} /\ pc' \in {"dns", "pull"}
    BY <1>5 DEF PMTU, DNS, DNSFails, Goto
  <2>2. \A s \in Undisturbed : pc \in After[s]
    BY <2>1, UndisturbedFacts DEF After
  <2> QED
    BY <1>1, <1>2, <1>3, <2>1, <2>2, ProgressSame
<1> QED
  BY <1>4, <1>5

(* What the session holds is what the pull returns. *)
LEMMA PullProgress ==
  ASSUME IInv, Progress, calm, Pull \/ PullFails PROVE Progress'
<1>1. calm' = calm /\ path' = path /\ ok' = ok /\ conn' = conn /\ seen' = seen /\ pc = "pull" /\ pc' = "reach"
  BY DEF Pull, PullFails, Goto, probe
<1>2. \A s \in Undisturbed : s \in ok /\ s \in seen
  <2>1. \A s \in Undisturbed : pc \in After[s]
    BY <1>1, UndisturbedFacts DEF After
  <2> QED
    BY <2>1 DEF Progress
<1>3. \A s \in Undisturbed : s \in ok /\ s \in pulled'
  <2>1. CASE Pull
    BY <1>2, <2>1 DEF Pull
  <2>2. CASE PullFails
    <3>1. ~held
      BY <2>2 DEF PullFails
    <3>2. seen = {}
      BY <3>1, Zenon DEF IInv, TypeOK
    <3> QED
      BY <1>2, <3>2
  <2> QED
    BY <2>1, <2>2
<1>4. Undisturbed' = Undisturbed
  BY <1>1, UndisturbedFacts
<1>5. \A s \in Undisturbed : pc' \notin After[s]
  BY <1>1, UndisturbedFacts DEF After
<1>6. \A c \in DOMAIN conn : conn[c] = "closed" => c \in seen
  BY DEF Progress
<1>7. After' = After
  BY DEF After
<1> QED
  BY <1>1, <1>3, <1>4, <1>5, <1>6, <1>7 DEF Progress

LEMMA ReachProgress ==
  ASSUME IInv, Progress, calm, Reach \/ ReachFails PROVE Progress'
<1>1. /\ calm' = calm /\ path' = path /\ ok \subseteq ok' /\ seen' = seen /\ pulled' = pulled
      /\ pc = "reach" /\ pc' = "report"
  BY DEF Reach, ReachFails, Goto, probe
<1>2. \A k \in DOMAIN conn' : conn'[k] = "closed" => k \in seen
  <2>1. conn' = conn \/ Request("extra")
    BY DEF Reach, ReachFails, probe
  <2> QED
    BY <2>1, RequestCloses DEF Progress
<1>3. \A s \in Undisturbed : pc' \notin After[s]
  BY <1>1, UndisturbedFacts DEF After
<1> QED
  BY <1>1, <1>2, <1>3, ProgressSame

(* Every step of a calm run keeps Progress. *)
LEMMA ProgressKept ==
  ASSUME IInv, Progress, [Next]_vars PROVE Progress'
<1>1. calm' = calm
  BY SectionFrame, Steps DEF IInv, Kept, Direct, Reroute, AddKilled, Restore, Lose, Handle, vars
<1>2. SUFFICES ASSUME calm PROVE Progress'
  BY <1>1 DEF Progress
<1>3. CASE Discover \/ DiscoverFails \/ Return
  <2>1. pc' \in {"echo", "returned", "restore"} /\ conn' = conn /\ seen' = seen
    BY <1>3 DEF Discover, DiscoverFails, Return, Goto, probe
  <2>2. path' = path
    BY <1>3 DEF Discover, DiscoverFails, Return, Goto
  <2>3. \A s \in Undisturbed' : pc' \notin After[s]
    BY <2>1, <2>2, UndisturbedFacts DEF After
  <2>4. After' = After
    BY DEF After
  <2> QED
    BY <1>2, <2>1, <2>3, <2>4 DEF Progress
<1>4. CASE \E c \in DOMAIN conn : Handle(c)
  <2>1. PICK c \in DOMAIN conn : Handle(c)
    BY <1>4
  <2>2. /\ conn' = [conn EXCEPT ![c] = "closed"] /\ seen' = seen \cup {c}
        /\ path' = path /\ pulled' = pulled /\ ok' = ok /\ pc' = pc
    BY <1>2, <2>1 DEF Handle, Recorded
  <2>3. \A k \in DOMAIN conn' : conn'[k] = "closed" => k \in seen'
    BY <1>2, <2>2 DEF Progress
  <2>4. pc' = "handshake" => "tls" \in ok'
    BY <1>2, <2>2 DEF Progress
  <2> QED
    BY <1>1, <2>2, <2>3, <2>4, ProgressSame
<1>5. CASE Direct \/ Reroute
  <2>1. pc' = "discover" /\ \A c \in DOMAIN conn' : conn'[c] = "closed" => c \in seen'
    BY <1>2, <1>5 DEF Direct, Reroute, Again, probe, Progress
  <2>2. \A s \in Undisturbed' : s \in {"http", "tls", "udp", "nat"}
    BY DEF Undisturbed, Service
  <2>3. \A s \in Undisturbed' : pc' \notin After[s]
    BY <2>1, <2>2 DEF After
  <2>4. After' = After
    BY DEF After
  <2> QED
    BY <2>1, <2>3, <2>4 DEF Progress
<1>6. CASE Restore
  <2>1. conn' = conn /\ seen' = seen /\ pc' = "returned" /\ path' = path
    BY <1>6 DEF Restore, probe
  <2>2. \A s \in Undisturbed' : pc' \notin After[s]
    BY <2>1, UndisturbedFacts DEF After
  <2>3. After' = After
    BY DEF After
  <2> QED
    BY <1>2, <2>1, <2>2, <2>3 DEF Progress
<1>7. CASE UNCHANGED vars
  <2>1. calm' = calm /\ path' = path /\ pc' = pc /\ ok' = ok /\ seen' = seen /\ conn' = conn /\ pulled' = pulled
    BY <1>7 DEF vars
  <2>2. /\ \A k \in DOMAIN conn' : conn'[k] = "closed" => k \in seen'
        /\ pc' = "handshake" => "tls" \in ok'
    BY <1>2, <2>1 DEF Progress
  <2> QED
    BY <2>1, <2>2, ProgressSame
<1>8. CASE AddKilled \/ Lose
  BY <1>2, <1>8 DEF AddKilled, Lose
<1>9. Sections => \/ Discover \/ DiscoverFails \/ Return
                  \/ Echo \/ EchoAnswered \/ EchoFails \/ Sniff \/ SniffFails \/ Handshake
                  \/ NAT \/ PMTU \/ DNS \/ DNSFails \/ Pull \/ PullFails \/ Reach \/ ReachFails
  BY DEF Sections
<1> QED
  BY <1>2, <1>3, <1>4, <1>5, <1>6, <1>7, <1>8, <1>9, Steps, EchoProgress, SniffProgress, UdpProgress,
     PullProgress, ReachProgress

(* CalmVerdict: where nothing fails but what the network does to the ports,  *)
(* an undisturbed port is reported as reached and as seen by the probe: the  *)
(* observation is in the session before the pull, whichever handler is slow. *)
THEOREM CalmVerdictIsRight ==
  ASSUME DistinctPorts
  PROVE  Spec => []CalmVerdict
<1>1. Init => Progress
  BY UndisturbedFacts DEF Init, Progress, After
<1>2. IInv /\ Progress /\ [Next]_vars => Progress'
  BY ProgressKept
<1>3. ASSUME IInv, Progress, pc = "report", calm, NEW s \in Undisturbed PROVE Outcome(s) /\ Consistent(s)
  <2>1. s \in ok /\ s \in pulled
    BY <1>3 DEF Progress
  <2>2. s \in Service
    BY DEF Undisturbed
  <2>3. Outcome(s) /\ ProbeSaw(s)
    BY <1>3, <2>1, <2>2, PortByPort
  <2> QED
    BY <2>3 DEF Consistent, Outcome, ProbeSaw
<1>4. IInv /\ Progress => CalmVerdict
  BY <1>3 DEF CalmVerdict, Undisturbed
<1> QED
  BY <1>1, <1>2, <1>4, Invariance, PTL DEF Spec
=============================================================================
