--------------------------------- MODULE Pmtu ---------------------------------
(***************************************************************************)
(* The path-MTU measurement, internal/client/pmtu.go: the binary search    *)
(* for the largest payload that leaves with the DF bit set, the blackhole  *)
(* check that follows it on the same socket, the probe that echoes every   *)
(* payload, and the kernel's idea of the path, which the routers' ICMP     *)
(* messages correct while the search runs.                                 *)
(*                                                                         *)
(* Sizes are payload sizes; the 28 bytes of headers are added at the end.  *)
(***************************************************************************)
EXTENDS ProbeUdp, Sequences

CONSTANTS MinSize,  \* minSize: the JSON around the padding
          Largest   \* 9000

ASSUME PmtuAssumption ==
  /\ MinSize \in Nat \ {0} /\ Largest \in Nat /\ MaxUDPPMTU \in Nat

VARIABLES
  iface,      \* what the first link carries: the kernel's limit until it learns of the path
  path,       \* what the narrowest link carries
  reported,   \* its router sends "fragmentation needed", and it gets through
  calm,       \* nothing is lost or later than the read timeout, no write fails
  kernel,     \* the largest payload sendto accepts now
  pc, lo, hi, lastOK,
  flight,     \* payloads on their way out or back, and ICMP messages
  inbox,      \* echoes in the socket buffer
  failedMin,  \* history: the smallest payload refused with EMSGSIZE, 0 if none
  pathMTU, blackhole

net == <<iface, path, reported, calm>>
vars == <<iface, path, reported, calm, kernel, pc, lo, hi, lastOK, flight, inbox,
          failedMin, pathMTU, blackhole>>

Lesser(m, n) == IF m < n THEN m ELSE n

(* The search never tries more than the probe says it echoes. *)
Cap == IF MaxUDPPMTU = 0 \/ MaxUDPPMTU > Largest THEN Largest ELSE MaxUDPPMTU

Payload(size) == [leg |-> "out", valid |-> TRUE, kind |-> "pmtu", len |-> size]
Echo(size) == [leg |-> "back", valid |-> TRUE, kind |-> "pmtu", len |-> size]
TooBig == [leg |-> "icmp", valid |-> TRUE, kind |-> "pmtu", len |-> path]

-----------------------------------------------------------------------------
Init ==
  /\ iface \in Nat /\ path \in Nat /\ path <= iface
  /\ reported \in BOOLEAN /\ calm \in BOOLEAN
  /\ kernel \in {iface, path}   \* the kernel may know the path from earlier traffic
  /\ pc = "search" /\ lo = MinSize /\ hi = Cap /\ lastOK = 0
  /\ flight = {} /\ inbox = <<>>
  /\ failedMin = 0
  /\ pathMTU = 0 /\ blackhole = FALSE

(* Mutants: the middle not excluded from the next round; a refused size      *)
(* excluded together with the one below it.                                   *)
MutantKeepsMiddle(mid) == lo' = mid /\ lastOK' = mid
MutantSkipsTwo(mid) == hi' = mid - 2

Raise(mid) == lo' = mid + 1 /\ lastOK' = mid
Lower(mid) == hi' = mid - 1

(* One round: a payload the kernel accepts raises lo, EMSGSIZE lowers hi. *)
TryAccepted ==
  /\ pc = "search" /\ lo <= hi
  /\ LET mid == (lo + hi) \div 2
     IN  /\ mid <= kernel
         /\ flight' = flight \cup {Payload(mid)}
         /\ Raise(mid)
  /\ UNCHANGED <<net, kernel, pc, hi, inbox, failedMin, pathMTU, blackhole>>

TryTooBig ==
  /\ pc = "search" /\ lo <= hi
  /\ LET mid == (lo + hi) \div 2
     IN  /\ mid > kernel
         /\ Lower(mid)
         /\ failedMin' = mid
  /\ UNCHANGED <<net, kernel, pc, lo, lastOK, flight, inbox, pathMTU, blackhole>>

(* Any other error of a search write ends the measurement. *)
WriteFails ==
  /\ pc = "search" /\ lo <= hi /\ ~calm
  /\ pc' = "failed"
  /\ UNCHANGED <<net, kernel, lo, hi, lastOK, flight, inbox, failedMin, pathMTU, blackhole>>

(* lines 96 to 101: the estimate, whatever the check said. *)
Estimate == IF lastOK > 0 THEN lastOK + 28 ELSE 0

(* Mutant: a check that cannot be written is taken for one without answer. *)
MutantRefusedIsBlackhole ==
  /\ pc = "search" /\ lo > hi
  /\ lastOK = 0 \/ lastOK > kernel \/ ~calm
  /\ blackhole' = (lastOK > 0)
  /\ pc' = "done" /\ pathMTU' = Estimate
  /\ UNCHANGED <<net, kernel, lo, hi, lastOK, flight, inbox, failedMin>>

(* No size was accepted, or the check's own write fails: no check. *)
SkipCheck ==
  /\ pc = "search" /\ lo > hi
  /\ lastOK = 0 \/ lastOK > kernel \/ ~calm
  /\ pc' = "done" /\ pathMTU' = Estimate
  /\ UNCHANGED <<net, kernel, lo, hi, lastOK, flight, inbox, failedMin, blackhole>>

StartCheck ==
  /\ pc = "search" /\ lo > hi
  /\ lastOK > 0 /\ lastOK <= kernel
  /\ flight' = flight \cup {Payload(lastOK)}
  /\ pc' = "read"
  /\ UNCHANGED <<net, kernel, lo, hi, lastOK, inbox, failedMin, pathMTU, blackhole>>

(* The check reads one datagram, whichever echo comes first. *)
ReadEcho ==
  /\ pc = "read" /\ inbox # <<>>
  /\ inbox' = Tail(inbox)
  /\ pc' = "done" /\ pathMTU' = Estimate
  /\ UNCHANGED <<net, kernel, lo, hi, lastOK, flight, failedMin, blackhole>>

ReadTimeout ==
  /\ pc = "read" /\ inbox = <<>>
  /\ calm => \A d \in flight : d.leg = "icmp"
  /\ blackhole' = TRUE
  /\ pc' = "done" /\ pathMTU' = Estimate
  /\ UNCHANGED <<net, kernel, lo, hi, lastOK, flight, inbox, failedMin>>

Client ==
  \/ TryAccepted \/ TryTooBig \/ WriteFails
  \/ SkipCheck \/ StartCheck \/ ReadEcho \/ ReadTimeout

-----------------------------------------------------------------------------
client == <<pc, lo, hi, lastOK, failedMin, pathMTU, blackhole>>

(* handleUDPArrival echoes the payload from the arrival socket. *)
Arrive(d) ==
  /\ d.leg = "out" /\ d.len <= path
  /\ flight' = (flight \ {d}) \cup (IF Accepted(d) THEN {Echo(d.len)} ELSE {})
  /\ UNCHANGED <<net, kernel, inbox, client>>

(* DF is set: a router drops what its next link does not carry. *)
Drop(d) ==
  /\ d.leg = "out" /\ d.len > path
  /\ flight' = (flight \ {d}) \cup (IF reported THEN {TooBig} ELSE {})
  /\ UNCHANGED <<net, kernel, inbox, client>>

Report(d) ==
  /\ d.leg = "icmp"
  /\ flight' = flight \ {d}
  /\ kernel' = Lesser(kernel, d.len)
  /\ UNCHANGED <<net, inbox, client>>

Return(d) ==
  /\ d.leg = "back"
  /\ flight' = flight \ {d}
  /\ inbox' = Append(inbox, d.len)
  /\ UNCHANGED <<net, kernel, client>>

(* A lost datagram is one that stays in flight for ever. *)
Network ==
  /\ pc \notin {"done", "failed"}
  /\ \E d \in flight : Arrive(d) \/ Drop(d) \/ Report(d) \/ Return(d)

Terminated == pc \in {"done", "failed"} /\ UNCHANGED vars

Next == Client \/ Network \/ Terminated

Spec == Init /\ [][Next]_vars
FairSpec == Spec /\ WF_vars(Client) /\ WF_vars(calm /\ Network)

-----------------------------------------------------------------------------
TypeOK ==
  /\ iface \in Nat /\ path \in Nat /\ kernel \in Nat
  /\ reported \in BOOLEAN /\ calm \in BOOLEAN /\ blackhole \in BOOLEAN
  /\ pc \in {"search", "read", "done", "failed"}
  /\ lo \in Nat /\ hi \in Nat /\ lastOK \in Nat
  /\ MinSize <= Cap => hi >= MinSize - 1
  /\ failedMin \in Nat /\ pathMTU \in Nat
  /\ \A d \in flight : d.leg \in {"out", "back", "icmp"} /\ d.len \in Nat
  /\ inbox \in Seq(Nat)

(* What the search has settled: everything up to lastOK was accepted, what   *)
(* was refused lies above hi, and the kernel only ever refuses what the      *)
(* path does not carry.                                                      *)
Bracket ==
  /\ lastOK # 0 => lo = lastOK + 1
  /\ lastOK = 0 => lo = MinSize
  /\ failedMin # 0 => hi = failedMin - 1 /\ failedMin > path
  /\ failedMin = 0 => hi = Cap
  /\ lo <= hi + 1 \/ Cap < MinSize
  /\ path <= kernel

(* The estimate is never below what the path carries and the probe echoes,   *)
(* whenever the ICMP messages arrive and whatever is lost.                    *)
NeverUnderestimates ==
  pc = "done" /\ MinSize <= Lesser(Cap, path) => pathMTU >= Lesser(Cap, path) + 28

(* On a path without a narrower link the estimate is exact and no blackhole  *)
(* is reported (docs/requirements/acceptance.md, ACC-P2-003).                 *)
ControlledPath ==
  pc = "done" /\ calm /\ path = iface =>
    /\ pathMTU = IF MinSize <= Lesser(Cap, path) THEN Lesser(Cap, path) + 28 ELSE 0
    /\ ~blackhole

(* Nothing that fits is called a blackhole: the size that got no answer on a *)
(* calm network is more than the path carries.  And no link is called one    *)
(* that ICMP has told the kernel of before the check is written, be it after *)
(* the last size was tried.  Of a message that comes later nothing is        *)
(* promised, see NoBlackholeOnceTold.                                        *)
BlackholeIsUntold ==
  /\ [](calm /\ blackhole => lastOK > path)
  /\ [](calm /\ pc = "search" /\ kernel = path => []~blackhole)

(* The measurement ends. *)
Termination == <>(pc \in {"done", "failed"})

(* internal/client/pmtu.go: "detect a silent PMTU blackhole (send succeeds, *)
(* no reply)", by the rule that "the largest OK size must be echoed back".   *)
BlackholeDetected ==
  pc = "done" /\ calm /\ ~reported /\ lastOK > path => blackhole

(* docs/requirements/acceptance.md, ACC-P2-003: on a path of known MTU no      *)
(* blackhole is reported.  When the client gives its verdict the kernel knows  *)
(* the MTU, and payloads of that size are echoed.                              *)
NoBlackholeOnceTold ==
  pc = "done" /\ calm /\ MinSize <= path /\ kernel = path => ~blackhole
=============================================================================
