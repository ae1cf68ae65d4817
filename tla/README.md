# A TLA+ model of NetSee

NetSee measures what the network between a client and a probe does and sees.
The probe (`cmd/probe`, `internal/probe`, `internal/proto`) listens on an HTTP,
a TLS, two UDP and some extra TCP ports and records every arrival under the
session identifier the client sends along. The client (`cmd/netsee`,
`internal/client`) contacts those ports one after the other, pulls the
observations back and compares: a NAT classification, a path MTU, a DNS
comparison, a connectivity check for each port, an attribution to a TUN proxy.
Everything hard in it is about who knows what when: handlers record while the
client goes on, datagrams are late, lost or repeated, sessions expire, two
shutdowns meet.

These modules model that core. TLC checks the models on small instances; TLAPS
proves every safety property that the passing runs check, for every value of the
constants, see [Proofs](#proofs).

## Inventory

| Component | State | Operations | Hard behaviour | Model |
|---|---|---|---|---|
| Session store, `proto/store.go` | map of sessions, clock | `Append`, `Get`, `GC` | three ways to expire, two caps, eviction | `ProbeStore`, `SessionRegistry` |
| UDP responder, `probe/udp.go` | two sockets | one datagram: check, record, answer | answer socket depends on kind and `-second-ip` | `ProbeUdp` |
| NAT test, `client/nat.go` | socket, facts | five sends, each with a read and a pull | loss, delay, duplication, reordering, the NAT's own state | `NatTest` |
| PMTU test, `client/pmtu.go` | search interval, socket | search, blackhole check | ICMP at any time, unread echoes | `Pmtu` |
| Probe process, `probe/server.go`, `tls.go`, `cmd/probe` | sockets, `done`, WaitGroup | `Start`, loops, handlers, `Shutdown` | goroutines against a shutdown, a failed bind, two callers | `ProbeServer` |
| Client run, `client/run.go`, `session.go`, `dns.go` | result, session, kernel's routes | the sections, `Pull`, `runDirect` | handlers record meanwhile, calls fail at any point | `ClientRun` |
| ClientHello parser, `probe/ja3.go`, `tls.go` | buffer | `Feed`, the fields of the hello, JA3, JA4 | any cut of the stream, lengths the peer chooses, silence | `HelloParser`, `HelloFingerprint` |
| Attribution, `client/attribution.go` | none | `detectTUN`, UDP, lookups | TUN in the second measurement | `LocalRoutes`, `ClientRun` |
| Local collection, `client/local_linux.go` | none | default routes, physical route | metrics, masks, routes of others | `LocalRoutes` |
| Reputation, report, version, commands' flags | none | look up, format | none a model would show | not modelled |

How they interact: the probe's handlers call `Store.Append`, its HTTP API calls
`Store.Get`, `gcLoop` calls `Store.GC`. The client reaches them over HTTP, TLS
and UDP only. `RunNAT` pulls after every datagram, `Run` once near its end.
`--direct` runs the whole measurement again behind a host route.

## Modules

**`SessionRegistry`** is the abstract registry: only living sessions exist; a
session lives for `TTL` from its first observation, or until `MaxSessions`
living ones crowd it out as the oldest. It says nothing about memory.

**`ProbeStore`** is `store.go`. `Store.mu` is held from the first read of the
clock to the return, so a method is one action, split by its outcome:
`AppendKnown`/`AppendNew`, `GetMissing`/`GetExpired`/`GetLive`, `GC`, and
`RejectId` for an identifier `ValidSessionID` refuses. `MadeRoom` is the
eviction at the cap, with map iteration order as a choice between sessions of
the same age. `ret` holds the last answer; `rivals` is a history variable. The
refinement maps `live` to the unexpired part of the map.

**`ProbeUdp`** holds the decisions of `handleUDPArrival` as operators: what is
accepted, which socket answers, what `reply_from` says, where the sockets are
bound. `NatTest` and `Pmtu` extend it.

**`NatTest`** puts the client's `send` (`Send`, `Read`/`ReadTimeout`, `Pull`),
a NAT (three mappings by three filters, with the bindings it has opened) and the
probe's sockets together. `calm` is chosen once: a calm network delivers
everything within the read deadline; on any other one datagrams are lost, late
or repeated and calls fail. The NAT and the network are external.

**`NatReport`** is what a whole NAT test promises its caller: whether `RunNAT`
returned a result, which ports have an observation by then, which of
`EchoReceived` and `NATReplyReceived` are set, given the ports the datagrams reach
and those from which answers come back. `NatTest` keeps the promise (`AsPromised`)
and `ClientRun` lives on it.

**`Pmtu`** has the search (`TryAccepted`, `TryTooBig`), the check
(`StartCheck`, `ReadEcho`, `ReadTimeout`, `SkipCheck`), the probe's echo, and the
kernel's path MTU, which ICMP messages lower at any moment of the search and of
the check.

**`ProbeServer`** has one action per step of `Start`, of the accept loops
(`Accept` returns a connection, `Spawn` counts and launches its handler), of the
UDP loops, of `gcLoop`, of the handlers and of `Shutdown`. A negative WaitGroup
or a second `close(done)` sets `panicked`.

**`HelloParser`** is one connection to the TLS port. `Feed(n)` takes the next `n`
bytes the client sends and is split by what it decides; `parseClientHelloBody`
is one action per field, per extension and per nested list, in the code's order.
Bytes are not modelled: what a length field says is chosen when it is read, as no
byte of the body is read twice. `stream` is what the client sends (what the
record and the hello declare, how much of them comes); `overread` is a history
variable that notes whether an index or a slice left its block. `Record` looks
at the server name for the session. **`HelloFingerprint`** computes JA3 and JA4 as
the tuples that are hashed, on the real 16-bit code points. `NonGREASE` is the
loop that skips GREASE, as a recursive function; `InOrder` says which value a
sorted list has at each position by counting. `LoopAndSort` in `MCHelloParser`
makes TLC compare the two with `SelectSeq` and `SortSeq` on all short lists.

**`LocalRoutes`** has the parsers of `/proc/net/route` and `/proc/net/ipv6_route`,
each the first line of the lowest metric among the lines it counts (what the
code's loop over the lines returns), and `detectTUN`; beside them `Via`, the
route the kernel takes to the probe. `ClientRun` extends it.

**`ClientRun`** has one or two actions per section of `Run` (its success and its
failure; `NAT` takes any report `NatReport` allows, and a NAT that maps by
destination and filters ports makes the NAT port "oneway" there), the probe's
handlers as actions of their own, the DNS comparison, the verdicts of
`buildProbeResult` and `finalizeAttribution` as operators on the state at
`pc = "report"`, and `runDirect`, which starts the same sections again at level 2.
What the network does to each port is fixed for a measurement; `Reroute` lets it be
something else in the second one. The kernel's routes are a variable: `Discover` reads them for the attribution,
`runDirect` adds a route and deletes it.

**`Minimum`** and the modules named `...Proofs` hold the theorems.

The `MC*` modules and `.cfg` files instantiate these. Definitions named
`Mutant...` are faulty variants of the definition that follows them. Nothing
uses them; substituted for it, one by one, they show that the properties notice.

## Runs

| Run | Bounds | Shows |
|---|---|---|
| `store` | 3 sessions, cap 2, TTL 2, 2 observations, clock to 4 | caps; nobody is evicted alive before `MaxSessions` others came; the dead are collected; the store implements the registry |
| `nat` | 9 NATs, one repeated datagram | the mapping part of the label is right on any network; an answer implies a record; a calm test completes; what it comes to is a report of `NatReport`; it always ends |
| `pmtu` | sizes 3 to 16, every path and first link to 17 | the search brackets; the estimate is never too low; exact and silent on a controlled path; what fits is never called a blackhole, nor a link ICMP has told of before the check is written |
| `server` | 1 extra port, 1 connection, 1 request, 2 callers of `Shutdown` | a `Start` that fails leaves no socket open; the WaitGroup counts; `Shutdown` returns, and into silence; every connection is closed |
| `client` | 2 disturbed ports in each measurement, the routes of 3 hosts | verdicts right on a calm run; an intercepted port is never called good; a forged resolver never clean; what leaves through a TUN is attributed to it; the second measurement takes the physical path; its route is removed and nobody else's; the run ends, or hangs in a TLS handshake with a stranger |
| `hello` | cap 32, reads of 4 bytes, bodies to 24, 8 extension types, 3 ciphers | no read outside a block; the outcome does not depend on the cuts; no waiting for bytes that are not needed; the buffer is bounded; shuffling and GREASE do not change a fingerprint; every connection ends |

The bounds are the smallest at which the interesting cases occur: one session
more than the cap; a clock that outlives two generations of sessions; three to
five rounds of binary search with the path below, inside and above the interval;
one connection, because handlers do not interact except through the counter; two
callers, because the third meets the same closed `done`. The lengths of `hello`
lie around the boundaries: records that end before, with and after their hello,
bytes after the record, a record that fills the buffer, bodies too short for each
of the fields, and one that holds two extensions; the fixed part of the body (34
bytes) is 1 byte there. The hosts of `client` have a TUN that takes both halves of
the addresses, a TUN beside a bypass route to the probe, and a TUN whose physical
route was replaced by one that rejects everything.

Six more runs each refute a sentence of the documents or of a comment:

- `nat_filter`: a single-IP probe is said to tell a cone with a port filter from
  one without (requirements/README.md, section 7). The client has itself opened
  the NAT port two datagrams before, so the filter test always passes.
- `nat_second_ip`: with `-second-ip` the third datagram goes to an address where
  nobody listens, and the test fails on a network that loses nothing.
- `pmtu_blackhole`: the check takes an unread echo of a smaller payload for the
  echo of the largest one, and misses the blackhole it looks for.
- `extra_ports`: extra ports are tried after the pull (ACC-P2-006).
- `tun_udp`: where no UDP passes, `RunNAT` fails, `res.NAT` is nil and the
  attribution to the proxy is not made (ACC-P2-008).
- `pmtu_told`: the search does not wait for routers to answer, so what they report
  usually comes after the check is written. The client then reports a blackhole
  although the kernel knows the path by the time of the verdict (ACC-P2-003).

No run shows three more, which the models make plain:

- The outcome of the NAT port (run.go:101) is the answer to a datagram sent to the
  UDP port. Behind a NAT that maps by destination and filters ports that answer is
  kept out (`Open`), and the port is reported as not connected although its own
  echo came back and the probe saw it, against ACC-P2-006 as well.
- CNAME records in a DoH answer count as addresses (`DoHAnswers`, dns.go:110-114),
  so the comparison alarms for every alias, against ACC-P2-004.
- The TLS handshake of `TLSSniff` (session.go:117) has no deadline and takes no
  context. If somebody else has taken the port, accepts and stays silent, the run
  never returns, not even on SIGINT, against ACC-P4-003 (30 s for a measurement).
  `ReturnsUnlessHung` allows exactly this one case; without the second half of the
  property TLC reports it.

## Fairness

- `store`: weak fairness of `GC`: `gcLoop`'s ticker runs as long as the server.
- `nat`, `pmtu`: weak fairness of the client, whose reads have deadlines, and of
  delivery on a calm network. Nothing is assumed of a network that is not calm.
- `server`: goroutines are scheduled and handlers' reads have deadlines (weak);
  a `select` that finds a tick and a closed `done` picks at random, so `gcLoop`
  sees `done` in the end (strong). No fairness for arrivals, ticks, binds or the
  call of `Shutdown`.
- `hello`: weak fairness of the failing read, since the deadline is set once for
  the whole connection, and of parsing, which nothing interrupts. Nothing is
  assumed of the client.
- `client`: weak fairness of the run and the probe's handlers taken together
  (`Timely`): a call of the run returns by a timeout or because the probe closes,
  a handler ends by its read deadline. Nothing is assumed of the TLS handshake
  while somebody else holds the port (`Hung`), because no deadline bounds it: the
  other end may close, or never. With the probe at the other end the handshake
  ends, since the handler closes by its own deadline; if the network swallows
  everything in the middle, the kernel gives the connection up in the end, though
  not within the 30 seconds of ACC-P4-003.

## Proofs

`ProbeStoreProofs` proves, for any sets of sessions and observations, any `TTL`
and any caps (0 for none), from `StoreAssumption`:

- `TypeCorrect`, `CapacityHolds`: `Spec => []TypeOK`, `Spec => []Capacity`;
- `RetentionHolds`: `Spec => Retention`;
- `Implements`: `Spec => ImplementsRegistry`, each action mapped to an action of
  `SessionRegistry` or to a stutter.

`Capacity` is not inductive by itself: opening a session adds one to a set whose
size means something only if it is finite. `Retention` needs more: when a living
session is evicted it is the oldest of a full map, so the others, none of them
older, must already have been counted. The invariant `IInv` therefore adds
finiteness, that no session was created in the future, and `RivalsCounted`: the
history counts at least the sessions stored beside one that are not older than
it. `RestrictStore`, `FewerRivals` and `RoomIsMade` say what the locked helpers
return; `RemovalStep`, `OpeningStep` and `ExtensionStep` preserve `IInv` for the
three kinds of change; `Inductive` puts them together. For the refinement,
`SeenFacts` and `SeenNext` describe the unexpired part of the map now and after a
step, `CrowdedIffFull` identifies the two notions of a full registry, and
`OpenImplemented` and `ExtendOrSwallow` handle the two cases of `Append`.

`HelloParserProofs` proves, for any cap, read size and lengths, from
`HelloAssumption`: `TypeCorrect`, `NeverOutOfBounds` (`InBounds`),
`CutsDoNotMatter` (`CutIndependent`), `NoByteTooMany` (`Prompt`) and
`BufferBounded` (`Bounded`). The five together with `Cursor` (every block is
parsed from its first byte) are inductive: that a hello is not refused for the
cap needs that the parser does not wait for bytes it has (`Prompt`), that an
extension lies in the body needs the bounds of its block (in `TypeOK`), and
that what is parsed was sent whole is kept because no step of the parser touches
the stream (`ParsingStep`). `FeedStep` is the argument about the cuts; `FieldInside`
reduces every bounds check to arithmetic, and one lemma per field does it.

It also proves `FingerprintsStable` (`FingerprintStable`), from what
`HelloFingerprintProofs` says of lists of any length. Sorting and filtering are
inductions over a list, and no installed prover can use an induction theorem whose
hypothesis is a formula. The proofs take a least counterexample instead: `Minimum`
has the two lemmas for it. `KeptExists` shows that the loop of `NonGREASE` has a
value after every number of rounds, `NonGREASECounts` that it keeps every value
that is no GREASE as often as the list has it. A sorted list is determined by how
often each value occurs, so two lists that agree in that have the same `Sorted`
(`SameCountsInOrder`), and a rearrangement agrees (`RearrangedCounts`).
`SortedSorts` shows that `Sorted` is a sort at all, which stability by itself would
not need: it ascends and has the values of the list. `ShuffledJA4` states the
result for any rearrangement of ciphers and extensions; `FingerprintStable`, which
swaps neighbours, is an instance of it.

`PmtuProofs` proves, for any sizes, cap and path, from `PmtuAssumption`:
`TypeCorrect`, `BracketHolds` (`Bracket`), `EveryWriteHalves` (`SearchHalves`) and
`NeverTooLow` (`NeverUnderestimates`). `EveryWriteHalves`, which no run checks, is the
safety half of the search's termination: the search writes at most logarithmically
many datagrams, whatever ICMP says meanwhile. `Bracket` relies on the ICMP messages
on their way: the kernel refuses only what the path does not carry because every
such message names the path (`IcmpTellsPath`), and the lower end stays at least at
the smallest size. The estimate is about an interval that has become empty, which
`Settled` keeps through the check that follows the search. `Middle` is the one fact
about the binary search; the rest is a step for each action.

The check that follows the search needs the history of every echo. `EInv` adds
`Sound` (what was accepted last lies between the smallest size and the cap, and a
path no narrower than the first link carries it), `UnderWay` (while the check waits, the payload it
waits for is on its way, in one direction or in the inbox) and `Verdict`. From it
follow, for `MaxUDPPMTU # 0`, `ToldInTimeIsNoBlackhole` (`BlackholeIsUntold`) and
`ExactOnControlledPath` (`ControlledPath`): a probe that announces 0 answers no
echo of that kind, and the check reports a blackhole on every path.
`BlackholeIsUntold` has two halves. That a blackhole on a calm network is a size
that does not fit is `Verdict`. That none is reported once ICMP has told the kernel
of the path before the check is written needs `Told`, which such a moment
establishes and every later step keeps (`ToldStays`): the kernel refuses a check
that does not fit, and one that fits has its echo under way. It says nothing of a
message that comes after the check's write; there the code is wrong, see
`pmtu_told`.

`ProbeServerProofs` proves, for any extra ports, connections, requests and callers
of `Shutdown`, from `ServerAssumption` (the extra ports, repeated or not, are none
of the four others; connections are finitely many): `TypeCorrect`,
`WaitGroupIsExact` (`WaitGroupCounts`) and `ReturnsIntoSilence` (`Quiet`). `Counted` is stronger than what the run checks: the
counter equals the loops and handlers alive even after a panic. To keep it while
`Accept` and `Spawn` are two steps one needs `LoopHoldsConn`: an accepted
connection keeps its loop busy, so the counter is above 0 whenever a handler is
added and `Wait` cannot have returned. `ShutdownOrder` records, for each of several
callers, what it has behind it: the sockets are closed before it waits, the HTTP
server is down before it drains.

`NatTestProofs` proves, for every NAT, one IP or two, any limits and a network that
loses, delays and repeats whatever it likes: `TypeCorrect`, `LabelsMappingRight`
(`MappingSound`), `AnswersAreRecorded` (`AnsweredIsRecorded`) and
`FirstReadIsTheFirstEcho` (`EchoReceivedIsSeen`). Whatever is in flight, in the
inbox, in the log or among the answers comes from one of the steps so far (`FromScript`): a late answer can be
taken for that of another step, but none comes before its datagram; the facts are
those of the steps done (`FactsOfSteps`), and the label is the judgment
on the first, third and fourth (`Judged`). `ReceivedAnswers` ties the flag
"received" to an answer that was read.

The second invariant, `CInv`, is about what arrives, again for every configuration.
`Opened` says which bindings the NAT has, `LogArrived` that records are of ports
that are reached (`Reaches`), `StepsSeen` that every step that is over has left one,
and `OneAtATime` that on a calm network one datagram is under way, where it can be,
and that an answer is read exactly if its step reaches the probe and the answer
passes the NAT (`Passes`). `ComesThrough` is the argument about the filter: an echo
comes back from where it was sent to; the answer of the fourth step comes from the
port of the third, so it passes unless the NAT maps by destination and filters
ports. From `CInv` follow

- `TestIsAsPromised` (`AsPromised`), for every NAT, with and without a second IP, for
  any limit: the test ends in one of the reports of `NatReport`. This is what allows
  `ClientRun` to take it as one step;
- `CalmTestsComplete` (`CalmCompletes`) and `OpenIsCalledOpen` (`NoFalseFilter`) under
  `~SecondIP` and `MaxUDP >= 1`, the default configuration. With a second address
  the first is false, which `nat_second_ip` shows; with no UDP datagram of any size
  allowed, nothing is answered.

`ClientRunProofs` proves, for any routing tables whose lines come from the system,
any port numbers and any number of disturbed ports, from `RunAssumption`:

- `TypeCorrect` and `ForgeryIsNotCalledSame` (`ForgeryIsNotSame`), which compares the
  bags of answers;
- `RoutesAreRestored` (`RouteRestored`), `SecondColumnIsPhysical`
  (`DirectIsPhysical`) and `OthersRoutesAreKept` (`RoutesOfOthersKept`), all from
  `DirectOnly`: in the second measurement the route of `--direct` is the first of
  the table and the only host route of metric 0; at other times the table has no
  route of the client, unless "ip route add" was killed.
  `LowestFound` says what the parsers return, `PrependFacts` and
  `RemoveFirstFacts` what becomes of the table;
- `RoutesAreAsFound`: whatever table the run starts with, it returns with that very
  table, each route in its place, unless "ip route add" was killed. `RouteRestored`,
  which the run checks, says only that no route of the client is left. `AsFound` adds to `DirectOnly` that
  the table without its first route is the one the run began with;
- `InterceptionIsExposed` (`InterceptedIsExposed`) from `Unseen`: what somebody else
  answers reaches neither a handler nor the session nor the pull, and a measurement
  begins with all three empty, whichever way it goes (`Reroute`); and
  `CalmVerdictIsRight` (`CalmVerdict`) from `Progress`: after each section the
  service it tried is among the successes and in the session, and a closed
  handler has recorded. Both assume `DistinctPorts`, as the default ports are:
  the report is keyed by number, and an extra port with the number of another
  overwrites its outcome;
- `ProxyIsAttributed` (`ProxyExitAttributed`) from `FirstColumn`, for hosts whose
  tables are like those a proxy leaves (`ProxyTable`): `TunIsFound` shows that the
  interface `parseRouteV4` finds is then the one the kernel prefers. The
  hypothesis cannot be dropped. The code compares the metrics of routes with
  different masks, so it misses a TUN that takes half of the addresses with a worse
  metric than the physical default route, and it does not look at host routes.

Only model-checked: the liveness properties (`Collected`, `Termination`,
`ReturnsUnlessHung`, `ShutdownReturns`, `ConnectionsEnd`, `Ends`), since fairness is
out of the provers' reach. That `ClientRun`'s single step for `RunPMTU` is what `Pmtu` does as a whole is
not stated: the run uses nothing of it but that its datagrams may be recorded.

## Not modelled, and what is left out of the models

- The platform files (single system calls), `reputation.go`, `report/`,
  `version`, the commands' flags and the scripts. They keep no state, and nothing
  in the run depends on what they compute.
- `HelloParser`: the text of a fingerprint (hexadecimal, hashes, ja4ALPN's two
  characters); what the observation says besides the fingerprint.
- `LocalRoutes`: names are classed as TUN or not as `isTUNInterface` does; a TUN
  of another name (mihomo's `Meta`, `tailscale0`) is invisible to the code and to
  the model. Tables of policy routing are not in the files the code reads, and
  not in the model. Interfaces, MTU, resolv.conf and fake-ip resolvers are copied
  for the report.
- What answers that the documents ask for and the code does not give: the
  protocol version is never compared (session.go:42, against
  docs/protocol/probe.md:45), and an echo with an invalid session is answered
  `ok:true` (server.go:331, against probe.md:26). There is no behaviour to check.
- `NatTest`: datagrams that other clients send under the same session; a session
  lost in the middle appears as a pull that fails.
- `Pmtu`: the failure of `setsockopt`, which yields a note and no measurement.
- `ProbeServer`: connections in the accept backlog when a listener closes; calls
  of `Shutdown` before `Start` has returned (the command makes none).
- `ClientRun`: what intercepts HTTP keeps `/echo` and lets the probe's API through
  (it invents no observations); `RunNAT` is one step, which the
  report proved of `NatTest` justifies; `RunPMTU` is one step too, and only its
  observations matter there; a handler of the first
  measurement still at work in the second is dropped, it writes to another
  session. SIGINT is a sequence of calls that fail; SIGKILL is not modelled and
  leaves the route of `--direct` behind.

## Plan

1. A composition of `ProbeStore` with several clients that measure and flood, to
   see `Retention` from the client's side.
2. Fake-ip and the proxy stack in the attribution: which notes the second column
   carries.
3. Proofs: which of the findings' claims hold in a corrected variant of the code.

Done along the plan: the store and its registry, the NAT and PMTU tests, the probe
process, the client run with `--direct`, the parser and its fingerprints, and their
proofs, the summary of the NAT test that the client run relies on among them.
