------------------------------- MODULE PmtuProofs -------------------------------
(***************************************************************************)
(* The path-MTU search of Pmtu, for every size of the payload, every cap,  *)
(* every path and every moment at which an ICMP message arrives: the       *)
(* search brackets the path, and its estimate is never too low.            *)
(***************************************************************************)
EXTENDS Pmtu, TLAPS

(* Routers tell the truth about the path. *)
IcmpTellsPath == \A d \in flight : d.leg = "icmp" => d.len = path

(* The lower end only rises, and the check follows a search that has come to  *)
(* its end.                                                                    *)
Settled ==
  /\ lo >= MinSize
  /\ pc \in {"read", "done"} => lo > hi
  /\ pc = "done" => pathMTU = Estimate

IInv == TypeOK /\ Bracket /\ IcmpTellsPath /\ Settled

-----------------------------------------------------------------------------
(* The constants are sizes. *)
LEMMA Sizes == MinSize \in Nat \ {0} /\ Cap \in Nat
BY PmtuAssumption DEF PmtuAssumption, Cap

(* The search starts with everything open. *)
LEMMA InitHolds ==
  ASSUME Init PROVE IInv
<1>1. MinSize \in Nat \ {0} /\ Cap \in Nat
  BY Sizes
<1>2. TypeOK
  <2>1. iface \in Nat /\ path \in Nat /\ kernel \in Nat
    BY DEF Init
  <2>2. inbox \in Seq(Nat) /\ flight = {}
    BY DEF Init
  <2>3. /\ reported \in BOOLEAN /\ calm \in BOOLEAN /\ blackhole \in BOOLEAN
        /\ pc = "search" /\ lo = MinSize /\ hi = Cap /\ lastOK = 0 /\ failedMin = 0 /\ pathMTU = 0
    BY DEF Init
  <2> QED
    BY <1>1, <2>1, <2>2, <2>3 DEF TypeOK
<1>3. Bracket
  BY <1>1 DEF Init, Bracket
<1>4. IcmpTellsPath /\ Settled
  BY <1>1 DEF Init, IcmpTellsPath, Settled
<1> QED
  BY <1>2, <1>3, <1>4 DEF IInv

(* The middle of an interval that is not empty lies in it. *)
LEMMA Middle ==
  ASSUME NEW a \in Nat, NEW b \in Nat, a <= b
  PROVE  (a + b) \div 2 \in Nat /\ a <= (a + b) \div 2 /\ (a + b) \div 2 <= b
OBVIOUS

(* An accepted payload moves the lower end above itself. *)
LEMMA AcceptedStep ==
  ASSUME IInv, TryAccepted PROVE IInv'
<1> DEFINE mid == (lo + hi) \div 2
<1>1. MinSize \in Nat \ {0} /\ Cap \in Nat /\ lo \in Nat /\ hi \in Nat /\ lo <= hi /\ pc = "search"
  BY Sizes DEF IInv, TypeOK, TryAccepted
<1>2. mid \in Nat /\ lo <= mid /\ mid <= hi
  BY <1>1, Middle
<1>3. /\ lo' = mid + 1 /\ lastOK' = mid /\ flight' = flight \cup {Payload(mid)}
      /\ UNCHANGED <<net, kernel, pc, hi, inbox, failedMin, pathMTU, blackhole>>
  BY DEF TryAccepted, Raise
<1> HIDE DEF mid
<1>4. lo >= MinSize
  BY DEF IInv, Settled
<1>5. TypeOK'
  BY <1>1, <1>2, <1>3 DEF IInv, TypeOK, Payload, net
<1>6. Bracket'
  BY <1>1, <1>2, <1>3, <1>4 DEF IInv, TypeOK, Bracket, net
<1>7. IcmpTellsPath' /\ Settled'
  BY <1>1, <1>2, <1>3, <1>4 DEF IInv, IcmpTellsPath, Settled, Payload, net
<1> QED
  BY <1>5, <1>6, <1>7 DEF IInv

(* A refused one moves the upper end below itself; the kernel refuses only   *)
(* what it believes the path does not carry, and it never believes too little. *)
LEMMA TooBigStep ==
  ASSUME IInv, TryTooBig PROVE IInv'
<1> DEFINE mid == (lo + hi) \div 2
<1>1. MinSize \in Nat \ {0} /\ Cap \in Nat /\ lo \in Nat /\ hi \in Nat /\ lo <= hi /\ pc = "search"
  BY Sizes DEF IInv, TypeOK, TryTooBig
<1>2. mid \in Nat /\ lo <= mid /\ mid <= hi
  BY <1>1, Middle
<1>3. /\ hi' = mid - 1 /\ failedMin' = mid /\ mid > kernel
      /\ UNCHANGED <<net, kernel, pc, lo, lastOK, flight, inbox, pathMTU, blackhole>>
  BY DEF TryTooBig, Lower
<1> HIDE DEF mid
<1>4. lo >= MinSize
  BY DEF IInv, Settled
<1>5. TypeOK'
  BY <1>1, <1>2, <1>3, <1>4 DEF IInv, TypeOK, net
<1>6. Bracket'
  BY <1>1, <1>2, <1>3, <1>4 DEF IInv, TypeOK, Bracket, net
<1>7. IcmpTellsPath' /\ Settled'
  BY <1>1, <1>2, <1>3, <1>4 DEF IInv, IcmpTellsPath, Settled, net
<1> QED
  BY <1>5, <1>6, <1>7 DEF IInv

(* The search comes to its end, or fails; the estimate is made from it. *)
LEMMA EndStep ==
  ASSUME IInv, WriteFails \/ SkipCheck \/ StartCheck PROVE IInv'
<1>1. lastOK \in Nat /\ Estimate \in Nat
  BY DEF IInv, TypeOK, Estimate
<1>2. CASE WriteFails
  BY <1>2 DEF WriteFails, IInv, TypeOK, Bracket, IcmpTellsPath, Settled, net
<1>3. CASE SkipCheck
  BY <1>1, <1>3 DEF SkipCheck, IInv, TypeOK, Bracket, IcmpTellsPath, Settled, Estimate, net
<1>4. CASE StartCheck
  BY <1>1, <1>4 DEF StartCheck, Payload, IInv, TypeOK, Bracket, IcmpTellsPath, Settled, net
<1> QED
  BY <1>2, <1>3, <1>4

(* The check changes nothing that the search has settled. *)
LEMMA CheckStep ==
  ASSUME IInv, ReadEcho \/ ReadTimeout PROVE IInv'
<1>1. lastOK \in Nat /\ Estimate \in Nat /\ Estimate' = Estimate
  BY DEF IInv, TypeOK, Estimate, ReadEcho, ReadTimeout
<1>2. inbox' \in Seq(Nat)
  BY DEF IInv, TypeOK, ReadEcho, ReadTimeout
<1>3. TypeOK' /\ Bracket'
  BY <1>1, <1>2 DEF IInv, TypeOK, Bracket, ReadEcho, ReadTimeout, net
<1>4. IcmpTellsPath' /\ Settled'
  BY <1>1 DEF IInv, IcmpTellsPath, Settled, ReadEcho, ReadTimeout, net
<1> QED
  BY <1>3, <1>4 DEF IInv

(* Whatever the network does, the kernel's idea stays above the path. *)
LEMMA NetworkStep ==
  ASSUME IInv, Network PROVE IInv'
<1>1. PICK d \in flight : Arrive(d) \/ Drop(d) \/ Report(d) \/ Return(d)
  BY DEF Network
<1>2. d.len \in Nat /\ (d.leg = "icmp" => d.len = path) /\ path \in Nat /\ kernel \in Nat
  BY DEF IInv, TypeOK, IcmpTellsPath
<1>3. UNCHANGED <<iface, path, reported, calm, pc, lo, hi, lastOK, failedMin, pathMTU, blackhole>>
  BY <1>1 DEF Arrive, Drop, Report, Return, net, client
<1>4. \A e \in flight' : e \in flight \/ e = Echo(d.len) \/ e = TooBig
  BY <1>1 DEF Arrive, Drop, Report, Return
<1>5. kernel' \in Nat /\ path <= kernel'
  BY <1>1, <1>2 DEF IInv, Bracket, Arrive, Drop, Report, Return, Lesser
<1>6. inbox' \in Seq(Nat)
  BY <1>1, <1>2 DEF IInv, TypeOK, Arrive, Drop, Report, Return
<1>7. \A e \in flight' : e.leg \in {"out", "back", "icmp"} /\ e.len \in Nat
                        /\ (e.leg = "icmp" => e.len = path)
  BY <1>2, <1>4 DEF IInv, TypeOK, IcmpTellsPath, Echo, TooBig
<1>8. TypeOK' /\ IcmpTellsPath'
  BY <1>3, <1>5, <1>6, <1>7 DEF IInv, TypeOK, IcmpTellsPath
<1>9. Bracket' /\ Settled'
  BY <1>3, <1>5 DEF IInv, Bracket, Settled, Estimate
<1> QED
  BY <1>8, <1>9 DEF IInv

(* Every step keeps the invariant. *)
LEMMA Inductive ==
  ASSUME IInv, [Next]_vars PROVE IInv'
<1>1. CASE UNCHANGED vars
  BY <1>1 DEF vars, net, IInv, TypeOK, Bracket, IcmpTellsPath, Settled, Estimate
<1>2. CASE Client
  BY <1>2, AcceptedStep, TooBigStep, EndStep, CheckStep DEF Client
<1>3. CASE Network
  BY <1>3, NetworkStep
<1> QED
  BY <1>1, <1>2, <1>3 DEF Next, Terminated

(* The invariant of every reachable state. *)
THEOREM Invariance == Spec => []IInv
<1>1. Init => IInv
  BY InitHolds
<1>2. IInv /\ [Next]_vars => IInv'
  BY Inductive
<1> QED
  BY <1>1, <1>2, PTL DEF Spec

(* The variables of the search keep their types: no bound falls below zero. *)
THEOREM TypeCorrect == Spec => []TypeOK
<1>1. IInv => TypeOK
  BY DEF IInv
<1> QED
  BY <1>1, Invariance, PTL

(* What was accepted lies below the interval, what was refused above it, and   *)
(* the path is never above what the kernel believes.                           *)
THEOREM BracketHolds == Spec => []Bracket
<1>1. IInv => Bracket
  BY DEF IInv
<1> QED
  BY <1>1, Invariance, PTL

(* How many sizes the search has left. *)
Width == IF lo <= hi THEN hi - lo + 1 ELSE 0

(* Every write of the search settles half of the sizes that were open, so    *)
(* their number bounds how many datagrams it may send, whatever the kernel   *)
(* learns meanwhile.                                                         *)
SearchHalves == [][TryAccepted \/ TryTooBig => 2 * Width' <= Width]_vars

(* SearchHalves: a write that is accepted leaves the sizes above the middle,  *)
(* one that is refused those below it, and neither is more than half.         *)
THEOREM EveryWriteHalves == Spec => SearchHalves
<1>1. ASSUME IInv, TryAccepted \/ TryTooBig PROVE 2 * Width' <= Width
  <2> DEFINE mid == (lo + hi) \div 2
  <2>1. lo \in Nat /\ hi \in Nat /\ lo <= hi
    BY <1>1 DEF IInv, TypeOK, TryAccepted, TryTooBig
  <2>2. mid \in Nat /\ lo <= mid /\ mid <= hi /\ 2 * mid <= lo + hi /\ lo + hi <= 2 * mid + 1
    BY <2>1
  <2>3. (lo' = mid + 1 /\ hi' = hi) \/ (lo' = lo /\ hi' = mid - 1)
    BY <1>1 DEF TryAccepted, TryTooBig, Raise, Lower
  <2> HIDE DEF mid
  <2> QED
    BY <2>1, <2>2, <2>3 DEF Width
<1>2. IInv /\ [Next]_vars => [TryAccepted \/ TryTooBig => 2 * Width' <= Width]_vars
  BY <1>1
<1> QED
  BY <1>2, Invariance, PTL DEF SearchHalves, Spec

(* The reported path MTU is at least what the path carries, up to the cap. *)
THEOREM NeverTooLow == Spec => []NeverUnderestimates
<1>1. ASSUME IInv PROVE NeverUnderestimates
  <2>1. SUFFICES ASSUME pc = "done", MinSize <= Lesser(Cap, path)
                 PROVE  pathMTU >= Lesser(Cap, path) + 28
    BY DEF NeverUnderestimates
  <2>2. /\ MinSize \in Nat \ {0} /\ Cap \in Nat /\ path \in Nat
        /\ lo \in Nat /\ hi \in Nat /\ lastOK \in Nat /\ failedMin \in Nat
    BY <1>1, Sizes DEF IInv, TypeOK
  <2>3. MinSize <= Cap /\ MinSize <= path /\ Lesser(Cap, path) \in Nat
        /\ Lesser(Cap, path) <= Cap /\ Lesser(Cap, path) <= path
    BY <2>1, <2>2 DEF Lesser
  <2>4. hi >= Lesser(Cap, path)
    BY <1>1, <2>2, <2>3 DEF IInv, Bracket
  <2>5. lastOK # 0 /\ lastOK = hi
    BY <1>1, <2>1, <2>2, <2>3, <2>4 DEF IInv, Bracket, Settled
  <2> QED
    BY <1>1, <2>1, <2>2, <2>3, <2>4, <2>5 DEF IInv, Settled, Estimate
<1> QED
  BY <1>1, Invariance, PTL
-----------------------------------------------------------------------------
(* The check.  What was accepted lies between the smallest size and the cap, *)
(* and within the first link; a payload of a size the path carries has an    *)
(* echo under way until one is read, and so only one that does not fit can   *)
(* make the read time out on a calm network.                                 *)
Sound ==
  /\ kernel <= iface /\ hi <= Cap /\ lastOK <= Cap
  /\ lastOK # 0 => lastOK >= MinSize
  /\ path = iface => lastOK <= path

UnderWay ==
  pc = "read" /\ lastOK <= path =>
    Payload(lastOK) \in flight \/ Echo(lastOK) \in flight \/ inbox # <<>>

Verdict == blackhole => pc = "done" /\ (calm => lastOK > path)

EInv == IInv /\ Sound /\ UnderWay /\ Verdict

(* The search. *)
LEMMA SearchSound ==
  ASSUME EInv, TryAccepted \/ TryTooBig PROVE EInv'
<1> DEFINE mid == (lo + hi) \div 2
<1>1. /\ MinSize \in Nat \ {0} /\ Cap \in Nat /\ lo \in Nat /\ hi \in Nat /\ lo <= hi /\ pc = "search"
      /\ kernel \in Nat /\ iface \in Nat /\ path \in Nat /\ lastOK \in Nat
  BY Sizes DEF EInv, IInv, TypeOK, TryAccepted, TryTooBig
<1>2. mid \in Nat /\ lo <= mid /\ mid <= hi
  BY <1>1, Middle
<1>3. /\ pc' = pc /\ blackhole' = blackhole /\ UNCHANGED <<iface, path, calm, kernel>>
      /\ \/ lastOK' = mid /\ mid <= kernel /\ hi' = hi
         \/ lastOK' = lastOK /\ hi' = mid - 1
  BY DEF TryAccepted, TryTooBig, Raise, Lower, net
<1> HIDE DEF mid
<1>4. lo >= MinSize
  BY DEF EInv, IInv, Settled
<1>5. Cap' = Cap
  BY DEF Cap
<1>6. Sound'
  BY <1>1, <1>2, <1>3, <1>4, <1>5 DEF EInv, Sound
<1>7. UnderWay' /\ Verdict'
  BY <1>1, <1>3 DEF EInv, UnderWay, Verdict
<1>8. IInv'
  BY AcceptedStep, TooBigStep DEF EInv
<1> QED
  BY <1>6, <1>7, <1>8 DEF EInv

(* The check's payload is sent, its echo is read, or the deadline passes. *)
LEMMA CheckSound ==
  ASSUME EInv, WriteFails \/ SkipCheck \/ StartCheck \/ ReadEcho \/ ReadTimeout PROVE EInv'
<1>1. /\ pc \in {"search", "read"} /\ UNCHANGED <<iface, path, calm, kernel, hi, lastOK>>
  BY DEF WriteFails, SkipCheck, StartCheck, ReadEcho, ReadTimeout, net
<1>2. Sound'
  BY <1>1 DEF EInv, Sound, Cap
<1>3. UnderWay'
  <2>1. pc' = "read" => Payload(lastOK) \in flight'
    BY DEF WriteFails, SkipCheck, StartCheck, ReadEcho, ReadTimeout
  <2> QED
    BY <1>1, <2>1 DEF UnderWay, Payload
<1>4. Verdict'
  <2>1. CASE ReadTimeout
    <3>1. pc = "read" /\ inbox = <<>> /\ pc' = "done" /\ (calm => \A d \in flight : d.leg = "icmp")
      BY <2>1 DEF ReadTimeout
    <3>2. Payload(lastOK).leg # "icmp" /\ Echo(lastOK).leg # "icmp"
      BY DEF Payload, Echo
    <3>3. calm => ~(lastOK <= path)
      BY <3>1, <3>2 DEF EInv, UnderWay
    <3>4. lastOK \in Nat /\ path \in Nat
      BY DEF EInv, IInv, TypeOK
    <3> QED
      BY <1>1, <3>1, <3>3, <3>4 DEF Verdict
  <2>2. CASE ~ReadTimeout
    <3>1. blackhole' = blackhole
      BY <2>2 DEF WriteFails, SkipCheck, StartCheck, ReadEcho
    <3> QED
      BY <1>1, <3>1 DEF EInv, Verdict
  <2> QED
    BY <2>1, <2>2
<1>5. IInv'
  BY EndStep, CheckStep DEF EInv
<1> QED
  BY <1>2, <1>3, <1>4, <1>5 DEF EInv

(* What the probe announces it echoes: a payload becomes its echo and the   *)
(* echo a datagram in the socket.                                           *)
LEMMA NetworkSound ==
  ASSUME MaxUDPPMTU # 0, EInv, Network PROVE EInv'
<1>1. PICK d \in flight : Arrive(d) \/ Drop(d) \/ Report(d) \/ Return(d)
  BY DEF Network
<1>2. d.len \in Nat /\ path \in Nat /\ kernel \in Nat /\ iface \in Nat /\ lastOK \in Nat
      /\ Cap \in Nat /\ inbox \in Seq(Nat) /\ MaxUDPPMTU \in Nat /\ Largest \in Nat
  BY Sizes, PmtuAssumption DEF EInv, IInv, TypeOK
<1>3. UNCHANGED <<iface, path, reported, calm, pc, lo, hi, lastOK, failedMin, pathMTU, blackhole>>
  BY <1>1 DEF Arrive, Drop, Report, Return, net, client
<1>4. kernel' <= iface
  BY <1>1, <1>2 DEF EInv, Sound, Arrive, Drop, Report, Return, Lesser
<1>5. Sound' /\ Verdict'
  BY <1>3, <1>4 DEF EInv, Sound, Verdict, Cap
<1>6. UnderWay'
  <2>1. SUFFICES ASSUME pc = "read", lastOK <= path
                 PROVE  Payload(lastOK) \in flight' \/ Echo(lastOK) \in flight' \/ inbox' # <<>>
    BY <1>3 DEF UnderWay, Payload, Echo
  <2>2. Payload(lastOK) \in flight \/ Echo(lastOK) \in flight \/ inbox # <<>>
    BY <2>1 DEF EInv, UnderWay
  <2>3. inbox # <<>> => inbox' # <<>>
    BY <1>1, <1>2 DEF Arrive, Drop, Report, Return
  <2>4. CASE Payload(lastOK) \in flight
    <3>1. CASE d = Payload(lastOK)
      <4>1. d.leg = "out" /\ d.len = lastOK /\ d.valid /\ d.kind = "pmtu"
        BY <3>1 DEF Payload
      <4>2. Arrive(d)
        BY <1>1, <1>2, <2>1, <4>1 DEF Drop, Report, Return
      <4>3. lastOK <= MaxUDPPMTU
        BY <1>2 DEF EInv, Sound, Cap
      <4>4. Accepted(d)
        BY <4>1, <4>3 DEF Accepted, SizeLimit
      <4> QED
        BY <4>1, <4>2, <4>4 DEF Arrive
    <3>2. CASE d # Payload(lastOK)
      BY <1>1, <2>4, <3>2 DEF Arrive, Drop, Report, Return
    <3> QED
      BY <3>1, <3>2
  <2>5. CASE Echo(lastOK) \in flight
    <3>1. CASE d = Echo(lastOK)
      <4>1. Return(d)
        BY <1>1, <3>1 DEF Echo, Arrive, Drop, Report
      <4> QED
        BY <1>2, <4>1 DEF Return
    <3>2. CASE d # Echo(lastOK)
      BY <1>1, <2>5, <3>2 DEF Arrive, Drop, Report, Return
    <3> QED
      BY <3>1, <3>2
  <2> QED
    BY <2>2, <2>3, <2>4, <2>5
<1>7. IInv'
  BY NetworkStep DEF EInv
<1> QED
  BY <1>5, <1>6, <1>7 DEF EInv

(* The invariant of the check, for a probe that announces what it echoes. *)
THEOREM CheckInvariance ==
  ASSUME MaxUDPPMTU # 0
  PROVE  Spec => []EInv
<1>1. Init => EInv
  <2>1. ASSUME Init PROVE Sound
    BY <2>1, Sizes DEF Init, Sound
  <2>2. ASSUME Init PROVE UnderWay /\ Verdict
    BY <2>2 DEF Init, UnderWay, Verdict
  <2> QED
    BY <2>1, <2>2, InitHolds DEF EInv
<1>2. EInv /\ [Next]_vars => EInv'
  <2>1. ASSUME EInv, UNCHANGED vars PROVE EInv'
    <3>1. IInv'
      BY <2>1, Inductive DEF EInv
    <3>2. Sound' /\ UnderWay' /\ Verdict'
      BY <2>1 DEF EInv, Sound, UnderWay, Verdict, vars, net, Cap, Payload, Echo
    <3> QED
      BY <3>1, <3>2 DEF EInv
  <2>2. ASSUME EInv, Client PROVE EInv'
    BY <2>2, SearchSound, CheckSound DEF Client
  <2>3. ASSUME EInv, Network PROVE EInv'
    BY <2>3, NetworkSound
  <2> QED
    BY <2>1, <2>2, <2>3 DEF Next, Terminated
<1> QED
  BY <1>1, <1>2, PTL DEF Spec

(* What a message that came in time settles: the kernel keeps to the path, and *)
(* a check that is under way is one of a size that fits.                       *)
Told ==
  /\ calm /\ kernel = path /\ ~blackhole
  /\ pc = "read" => lastOK <= path

(* It stays so: what is read is an echo, since one is under way, and further   *)
(* messages name the same path.                                                *)
LEMMA ToldStays ==
  ASSUME EInv, EInv', Told, [Next]_vars PROVE Told'
<1>1. CASE UNCHANGED vars
  BY <1>1 DEF vars, net, Told
<1>2. CASE TryAccepted \/ TryTooBig
  <2>1. pc = "search" /\ UNCHANGED <<path, calm, kernel, pc, blackhole>>
    BY <1>2 DEF TryAccepted, TryTooBig, net
  <2> QED
    BY <2>1 DEF Told
<1>3. CASE WriteFails \/ SkipCheck \/ StartCheck \/ ReadEcho
  <2>1. UNCHANGED <<path, calm, kernel, blackhole, lastOK>>
    BY <1>3 DEF WriteFails, SkipCheck, StartCheck, ReadEcho, net
  <2>2. pc' = "read" => lastOK <= kernel
    BY <1>3 DEF WriteFails, SkipCheck, StartCheck, ReadEcho
  <2> QED
    BY <2>1, <2>2 DEF Told
<1>4. CASE ReadTimeout
  <2>1. pc = "read" /\ inbox = <<>> /\ \A d \in flight : d.leg = "icmp"
    BY <1>4 DEF ReadTimeout, Told
  <2>2. Payload(lastOK).leg # "icmp" /\ Echo(lastOK).leg # "icmp"
    BY DEF Payload, Echo
  <2> QED
    BY <2>1, <2>2 DEF EInv, UnderWay, Told
<1>5. CASE Network
  <2>1. PICK d \in flight : Arrive(d) \/ Drop(d) \/ Report(d) \/ Return(d)
    BY <1>5 DEF Network
  <2>2. UNCHANGED <<path, calm, pc, lastOK, blackhole>>
    BY <2>1 DEF Arrive, Drop, Report, Return, net, client
  <2>3. kernel' = kernel
    BY <2>1 DEF Arrive, Drop, Report, Return, Lesser, EInv, IInv, IcmpTellsPath, Told
  <2> QED
    BY <2>2, <2>3 DEF Told
<1> QED
  BY <1>1, <1>2, <1>3, <1>4, <1>5 DEF Next, Client, Terminated

(* BlackholeIsUntold: what a calm network makes the client call a blackhole    *)
(* does not fit the path, and the kernel had not been told so when the check   *)
(* was written.                                                                *)
THEOREM ToldInTimeIsNoBlackhole ==
  ASSUME MaxUDPPMTU # 0
  PROVE  Spec => BlackholeIsUntold
<1> DEFINE InTime == calm /\ pc = "search" /\ kernel = path
           Fits == calm /\ blackhole => lastOK > path
<1>1. EInv => Fits
  BY DEF EInv, Verdict
<1>2. EInv /\ InTime => Told
  BY DEF EInv, Verdict, Told
<1>3. EInv /\ EInv' /\ Told /\ [Next]_vars => Told'
  BY ToldStays
<1>4. Told => ~blackhole
  BY DEF Told
<1>5. Spec => []EInv
  BY CheckInvariance
<1> HIDE DEF InTime, Fits
<1>6. Spec => [](InTime => []~blackhole)
  BY <1>2, <1>3, <1>4, <1>5, PTL DEF Spec
<1>7. Spec => []Fits
  BY <1>1, <1>5, PTL
<1> QED
  BY <1>6, <1>7, PTL DEF BlackholeIsUntold, InTime, Fits

(* ControlledPath: where no link is narrower than the first, the estimate is *)
(* exact, up to the cap, and no blackhole is reported.                       *)
THEOREM ExactOnControlledPath ==
  ASSUME MaxUDPPMTU # 0
  PROVE  Spec => []ControlledPath
<1>1. ASSUME EInv, pc = "done", calm, path = iface
      PROVE  /\ pathMTU = IF MinSize <= Lesser(Cap, path) THEN Lesser(Cap, path) + 28 ELSE 0
             /\ ~blackhole
  <2>1. /\ MinSize \in Nat \ {0} /\ Cap \in Nat /\ path \in Nat
        /\ lo \in Nat /\ hi \in Nat /\ lastOK \in Nat /\ failedMin \in Nat
    BY <1>1, Sizes DEF EInv, IInv, TypeOK
  <2>2. lastOK <= Cap /\ lastOK <= path /\ (lastOK # 0 => lastOK >= MinSize)
    BY <1>1 DEF EInv, Sound
  <2>3. ~blackhole
    BY <1>1, <2>1, <2>2 DEF EInv, Verdict
  <2>4. pathMTU = Estimate
    BY <1>1 DEF EInv, IInv, Settled
  <2>5. CASE MinSize <= Lesser(Cap, path)
    <3>1. MinSize <= Cap /\ Lesser(Cap, path) \in Nat
          /\ (Lesser(Cap, path) = Cap \/ Lesser(Cap, path) = path)
          /\ Lesser(Cap, path) <= Cap /\ Lesser(Cap, path) <= path
      BY <2>1, <2>5 DEF Lesser
    <3>2. hi >= Lesser(Cap, path)
      BY <1>1, <2>1, <3>1 DEF EInv, IInv, Bracket
    <3>3. lastOK # 0 /\ lastOK = hi
      BY <1>1, <2>1, <2>5, <3>1, <3>2 DEF EInv, IInv, Bracket, Settled
    <3>4. lastOK = Lesser(Cap, path)
      BY <2>1, <2>2, <3>1, <3>2, <3>3
    <3> QED
      BY <2>1, <2>3, <2>4, <2>5, <3>3, <3>4 DEF Estimate
  <2>6. CASE ~(MinSize <= Lesser(Cap, path))
    <3>1. lastOK = 0
      BY <2>1, <2>2, <2>6 DEF Lesser
    <3> QED
      BY <2>3, <2>4, <2>6, <3>1 DEF Estimate
  <2> QED
    BY <2>5, <2>6
<1>2. EInv => ControlledPath
  BY <1>1 DEF ControlledPath
<1> QED
  BY <1>2, CheckInvariance, PTL
=============================================================================
