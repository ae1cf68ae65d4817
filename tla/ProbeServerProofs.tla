--------------------------- MODULE ProbeServerProofs ---------------------------
(***************************************************************************)
(* The life of the probe process, for any extra ports, connections,        *)
(* requests and callers of Shutdown: the WaitGroup counts the goroutines   *)
(* it is there for, and a Shutdown that returns leaves nothing at work.    *)
(***************************************************************************)
EXTENDS ProbeServer, FiniteSetTheorems, TLAPS

(* Before Start has launched the goroutines nothing runs and nobody stops it. *)
NotYetRunning ==
  start # "running" =>
    /\ loop = [l \in Loops |-> "off"]
    /\ conn = [c \in Conn |-> "new"]
    /\ stop = [k \in Stopper |-> "idle"]
    /\ wg = 0

(* The counter, without the exception of WaitGroupCounts: not even a panic   *)
(* makes it wrong.                                                            *)
Counted == wg = Cardinality(LiveLoops) + Cardinality(Handlers)

(* A connection that is accepted and not yet counted keeps the loop that      *)
(* accepted it busy, and that loop has no other.                              *)
LoopHoldsConn ==
  /\ \A c \in Conn : conn[c] = "accepted" => port[c] \in Acceptors /\ loop[port[c]] = "busy"
  /\ \A c, d \in Conn :
       conn[c] = "accepted" /\ conn[d] = "accepted" /\ port[c] = port[d] => c = d

(* What a caller of Shutdown has behind it stays so. *)
ShutdownOrder ==
  \A k \in Stopper :
    /\ stop[k] \in {"drain", "wait", "returned"} => httpDown
    /\ stop[k] \in {"wait", "returned"} => open = {} /\ (InHandler # {} => expired)

IInv == TypeOK /\ NotYetRunning /\ Counted /\ LoopHoldsConn /\ ShutdownOrder /\ Quiet

-----------------------------------------------------------------------------
(* The listeners are the bindings, no more than there are of them. *)
LEMMA ListenerFacts ==
  /\ Len(Bindings) = 4 + Len(ExtraPorts) /\ Len(ExtraPorts) \in Nat
  /\ \A i \in 1..Len(Bindings) : Bindings[i] \in Listeners
  /\ IsFiniteSet(Listeners) /\ Cardinality(Listeners) <= Len(Bindings)
  /\ "gc" \notin Listeners /\ Acceptors \subseteq Listeners /\ Readers \subseteq Listeners
  /\ Readers \cap Acceptors = {}
<1> DEFINE N == {"http", "tls", "udp", "nat"} \cup ToSet(ExtraPorts)
<1>1. ExtraPorts \in Seq(ToSet(ExtraPorts)) /\ ExtraPorts \in Seq(N) /\ Len(ExtraPorts) \in Nat
  BY ServerAssumption
<1>2. Bindings \in Seq(N) /\ Len(Bindings) = 4 + Len(ExtraPorts)
  <2>1. <<"http", "tls", "udp", "nat">> \in Seq(N) /\ Len(<<"http", "tls", "udp", "nat">>) = 4
    OBVIOUS
  <2> QED
    BY <1>1, <2>1 DEF Bindings
<1> HIDE DEF N
<1>3. /\ DOMAIN Bindings = 1..Len(Bindings)
      /\ \A i \in 1..Len(ExtraPorts) : Bindings[4 + i] = ExtraPorts[i] /\ 4 + i \in DOMAIN Bindings
      /\ Bindings[1] = "http" /\ Bindings[2] = "tls" /\ Bindings[3] = "udp" /\ Bindings[4] = "nat"
      /\ {1, 2, 3, 4} \subseteq DOMAIN Bindings
  BY <1>1, <1>2 DEF Bindings
<1>4. Listeners = {Bindings[i] : i \in 1..Len(Bindings)}
  BY <1>3 DEF Listeners, ToSet
<1>5. Acceptors \subseteq Listeners /\ Readers \subseteq Listeners
  <2>1. DOMAIN ExtraPorts = 1..Len(ExtraPorts)
    BY <1>1
  <2>2. ASSUME NEW e \in ToSet(ExtraPorts) PROVE e \in Listeners
    <3>1. PICK i \in 1..Len(ExtraPorts) : e = ExtraPorts[i]
      BY <2>1 DEF ToSet
    <3> QED
      BY <1>3, <1>4, <3>1
  <2>3. {"http", "tls", "udp", "nat"} \subseteq Listeners
    BY <1>3, <1>4
  <2> QED
    BY <2>2, <2>3 DEF Acceptors, Readers
<1>6. Bindings \in Surjection(1..Len(Bindings), Listeners)
  BY <1>2, <1>3, <1>4 DEF Surjection
<1>7. IsFiniteSet(Listeners) /\ Cardinality(Listeners) <= Cardinality(1..Len(Bindings))
  BY <1>1, <1>2, <1>6, FS_Surjection, FS_Interval
<1>8. Cardinality(1..Len(Bindings)) = Len(Bindings)
  BY <1>1, <1>2, FS_Interval
<1>9. "gc" \notin Listeners
  <2>1. ASSUME NEW i \in 1..Len(Bindings) PROVE Bindings[i] # "gc"
    <3>1. CASE i \in 1..4
      BY <1>3, <3>1
    <3>2. CASE i \notin 1..4
      <4>1. i - 4 \in 1..Len(ExtraPorts) /\ 4 + (i - 4) = i
        BY <1>1, <1>2, <3>2
      <4>2. ExtraPorts[i - 4] \in ToSet(ExtraPorts)
        BY <1>1, <4>1 DEF ToSet
      <4>3. Bindings[i] = ExtraPorts[i - 4]
        BY <1>3, <4>1
      <4> QED
        BY <4>2, <4>3, ServerAssumption
    <3> QED
      BY <3>1, <3>2
  <2> QED
    BY <1>4, <2>1
<1>10. Readers \cap Acceptors = {}
  BY ServerAssumption DEF Readers, Acceptors
<1> QED
  BY <1>1, <1>2, <1>4, <1>5, <1>7, <1>8, <1>9, <1>10

(* What the counter counts is finite. *)
LEMMA CountsAreFinite ==
  /\ IsFiniteSet(Loops) /\ Cardinality(Loops) = Cardinality(Listeners) + 1
  /\ \A S \in SUBSET Loops : IsFiniteSet(S) /\ Cardinality(S) \in Nat
  /\ \A S \in SUBSET Conn : IsFiniteSet(S) /\ Cardinality(S) \in Nat
  /\ LiveLoops \subseteq Loops /\ Handlers \subseteq Conn
<1>1. IsFiniteSet(Loops) /\ Cardinality(Loops) = Cardinality(Listeners) + 1
  BY ListenerFacts, FS_AddElement DEF Loops
<1>2. \A S \in SUBSET Loops : IsFiniteSet(S) /\ Cardinality(S) \in Nat
  BY <1>1, FS_Subset, FS_CardinalityType
<1>3. \A S \in SUBSET Conn : IsFiniteSet(S) /\ Cardinality(S) \in Nat
  BY ServerAssumption, FS_Subset, FS_CardinalityType
<1> QED
  BY <1>1, <1>2, <1>3 DEF LiveLoops, Handlers

(* A step that starts and ends no goroutine of the WaitGroup. *)
LEMMA CountKept ==
  ASSUME Counted, LiveLoops' = LiveLoops, Handlers' = Handlers, wg' = wg
  PROVE  Counted'
BY DEF Counted

(* wg.Done by something that is counted does not panic. *)
LEMMA DoneCounts ==
  ASSUME TypeOK, Counted, Done, LiveLoops' \subseteq Loops, Handlers' \subseteq Conn,
         \/ \E l \in LiveLoops : LiveLoops' = LiveLoops \ {l} /\ Handlers' = Handlers
         \/ \E c \in Handlers : Handlers' = Handlers \ {c} /\ LiveLoops' = LiveLoops
  PROVE  Counted' /\ wg' \in Nat /\ panicked' = FALSE
<1>1. /\ IsFiniteSet(LiveLoops) /\ IsFiniteSet(Handlers)
      /\ Cardinality(LiveLoops) \in Nat /\ Cardinality(Handlers) \in Nat
      /\ Cardinality(LiveLoops') \in Nat /\ Cardinality(Handlers') \in Nat
  BY CountsAreFinite
<1>2. ASSUME \E l \in LiveLoops : LiveLoops' = LiveLoops \ {l} /\ Handlers' = Handlers
      PROVE  Cardinality(LiveLoops') + Cardinality(Handlers')
               = Cardinality(LiveLoops) + Cardinality(Handlers) - 1
  <2>1. PICK l \in LiveLoops : LiveLoops' = LiveLoops \ {l} /\ Handlers' = Handlers
    BY <1>2
  <2>2. Cardinality(LiveLoops \ {l}) = Cardinality(LiveLoops) - 1
    BY <1>1, FS_RemoveElement
  <2> QED
    BY <1>1, <2>1, <2>2
<1>3. ASSUME \E c \in Handlers : Handlers' = Handlers \ {c} /\ LiveLoops' = LiveLoops
      PROVE  Cardinality(LiveLoops') + Cardinality(Handlers')
               = Cardinality(LiveLoops) + Cardinality(Handlers) - 1
  <2>1. PICK c \in Handlers : Handlers' = Handlers \ {c} /\ LiveLoops' = LiveLoops
    BY <1>3
  <2>2. Cardinality(Handlers \ {c}) = Cardinality(Handlers) - 1
    BY <1>1, FS_RemoveElement
  <2> QED
    BY <1>1, <2>1, <2>2
<1>4. Cardinality(LiveLoops') + Cardinality(Handlers')
        = Cardinality(LiveLoops) + Cardinality(Handlers) - 1
  BY <1>2, <1>3
<1>5. wg' = wg - 1 /\ wg = Cardinality(LiveLoops) + Cardinality(Handlers)
  BY DEF Counted, Done
<1>6. Counted' /\ wg' \in Nat
  BY <1>1, <1>4, <1>5 DEF Counted
<1>7. ~(wg < 1)
  BY <1>1, <1>4, <1>5
<1>8. panicked' = FALSE
  <2>1. (wg < 1) = FALSE
    BY <1>7
  <2>2. panicked' = (wg < 1)
    BY Zenon DEF Done
  <2> QED
    BY <2>1, <2>2, Zenon
<1> QED
  BY <1>6, <1>8

-----------------------------------------------------------------------------
(* The initial state: nothing to count. *)
LEMMA InitHolds ==
  ASSUME Init PROVE IInv
<1>1. LiveLoops = {} /\ Handlers = {} /\ InHandler = {}
  BY DEF Init, LiveLoops, Handlers, InHandler
<1>2. TypeOK
  BY DEF Init, TypeOK
<1>3. Counted
  BY <1>1, FS_EmptySet DEF Init, Counted
<1>4. NotYetRunning /\ LoopHoldsConn /\ ShutdownOrder /\ Quiet
  BY DEF Init, NotYetRunning, LoopHoldsConn, ShutdownOrder, Quiet
<1> QED
  BY <1>2, <1>3, <1>4 DEF IInv

(* Binding a socket, or giving up, runs nothing yet. *)
LEMMA BindStep ==
  ASSUME IInv, Bind \/ BindFails PROVE IInv'
<1>1. start = "binding" /\ start' \in {"binding", "failed"}
      /\ UNCHANGED <<loop, conn, port, request, done, wg, httpDown, expired, stop, panicked>>
  BY DEF Bind, BindFails
<1>2. open' \subseteq Listeners
  <2>1. CASE Bind
    <3>1. open \subseteq Listeners
      BY DEF IInv, TypeOK
    <3>2. Bound \in Nat
      BY <3>1, ListenerFacts, FS_Subset, FS_CardinalityType DEF Bound
    <3>3. Bindings[Bound + 1] \in Listeners
      BY <2>1, <3>2, ListenerFacts DEF Bind
    <3> QED
      BY <2>1, <3>1, <3>3 DEF Bind
  <2>2. CASE BindFails
    BY <2>2 DEF BindFails, closeAll, IInv, TypeOK
  <2> QED
    BY <2>1, <2>2
<1>3. TypeOK'
  BY <1>1, <1>2 DEF IInv, TypeOK
<1>4. Counted'
  BY <1>1, CountKept DEF IInv, LiveLoops, Handlers
<1>5. NotYetRunning' /\ LoopHoldsConn'
  BY <1>1 DEF IInv, NotYetRunning, LoopHoldsConn
<1>6. ShutdownOrder'
  BY <1>1 DEF IInv, NotYetRunning, ShutdownOrder
<1>7. Quiet'
  <2>1. start' = "failed" => open' = {}
    BY <1>1 DEF Bind, BindFails, closeAll, IInv, TypeOK
  <2>2. \A k \in Stopper : stop'[k] # "returned"
    BY <1>1 DEF IInv, NotYetRunning
  <2> QED
    BY <2>1, <2>2 DEF Quiet
<1> QED
  BY <1>3, <1>4, <1>5, <1>6, <1>7 DEF IInv

(* Start counts every loop it launches: all the bindings are listeners of    *)
(* their own by then, or Start would still be binding.                        *)
LEMMA LaunchStep ==
  ASSUME IInv, Launch PROVE IInv'
<1>1. /\ start = "binding" /\ start' = "running" /\ wg' = wg + InitialCount
      /\ loop' = [l \in Loops |-> "idle"] /\ Bound = Len(Bindings)
      /\ UNCHANGED <<open, conn, port, request, done, httpDown, expired, stop, panicked>>
  BY DEF Launch
<1>2. wg = 0 /\ conn = [c \in Conn |-> "new"] /\ stop = [k \in Stopper |-> "idle"]
  BY <1>1 DEF IInv, NotYetRunning
<1>3. Cardinality(Listeners) = Len(Bindings)
  <2>1. open \subseteq Listeners
    BY DEF IInv, TypeOK
  <2>2. Cardinality(open) <= Cardinality(Listeners) /\ Cardinality(Listeners) \in Nat
    BY <2>1, ListenerFacts, FS_Subset, FS_CardinalityType
  <2> QED
    BY <1>1, <2>2, ListenerFacts DEF Bound
<1>4. LiveLoops' = Loops /\ Handlers' = {}
  BY <1>1, <1>2 DEF LiveLoops, Handlers
<1>5. wg' = 5 + Len(ExtraPorts)
  BY <1>1, <1>2, ListenerFacts DEF InitialCount
<1>6. Counted'
  <2>1. Cardinality(LiveLoops') = 5 + Len(ExtraPorts) /\ Cardinality(Handlers') = 0
    BY <1>3, <1>4, ListenerFacts, CountsAreFinite, FS_EmptySet
  <2> QED
    BY <1>5, <2>1, ListenerFacts DEF Counted
<1>7. TypeOK'
  BY <1>1, <1>5, ListenerFacts DEF IInv, TypeOK
<1>8. NotYetRunning' /\ LoopHoldsConn' /\ ShutdownOrder' /\ Quiet'
  BY <1>1, <1>2 DEF NotYetRunning, LoopHoldsConn, ShutdownOrder, Quiet
<1> QED
  BY <1>6, <1>7, <1>8 DEF IInv

-----------------------------------------------------------------------------
(* A loop that accepts, or reads, is counted before and after. *)
LEMMA AcceptStep ==
  ASSUME IInv, NEW l \in Listeners, NEW c \in Conn, Accept(l, c) PROVE IInv'
<1>1. /\ start = "running" /\ l \in Acceptors /\ l \in open /\ loop[l] = "idle" /\ conn[c] = "new"
      /\ loop' = [loop EXCEPT ![l] = "busy"] /\ conn' = [conn EXCEPT ![c] = "accepted"]
      /\ port' = [port EXCEPT ![c] = l]
      /\ UNCHANGED <<server, request, done, wg, stop, panicked>>
  BY DEF Accept, Running
<1>2. TypeOK'
  BY <1>1 DEF IInv, TypeOK, server
<1>3. l \in Loops /\ loop \in [Loops -> {"off", "idle", "busy", "ended"}]
      /\ conn \in [Conn -> {"new", "accepted", "reading", "parsed", "closed"}]
      /\ port \in [Conn -> Acceptors \cup {"none"}]
  BY DEF IInv, TypeOK, Loops
<1>4. LiveLoops' = LiveLoops /\ Handlers' = Handlers
  BY <1>1, <1>3 DEF LiveLoops, Handlers
<1>5. Counted'
  BY <1>1, <1>4, CountKept DEF IInv
<1>6. LoopHoldsConn'
  BY <1>1, <1>3 DEF IInv, LoopHoldsConn
<1>7. NotYetRunning' /\ ShutdownOrder'
  BY <1>1 DEF IInv, NotYetRunning, ShutdownOrder, InHandler, server
<1>8. Quiet'
  BY <1>1 DEF IInv, ShutdownOrder, Quiet, InHandler, server
<1> QED
  BY <1>2, <1>5, <1>6, <1>7, <1>8 DEF IInv

(* So is one that reads datagrams or sweeps. *)
LEMMA ReadStep ==
  ASSUME IInv, NEW l \in Readers \cup {"gc"}, start = "running", loop[l] \in {"idle", "busy"},
         loop' = [loop EXCEPT ![l] = IF @ = "idle" THEN "busy" ELSE "idle"],
         l \in Readers /\ loop[l] = "idle" => l \in open,
         UNCHANGED <<server, conn, port, request, done, wg, stop, panicked>>
  PROVE  IInv'
<1>1. l \in Loops /\ l \notin Acceptors /\ Acceptors \subseteq Loops
      /\ loop \in [Loops -> {"off", "idle", "busy", "ended"}]
      /\ port \in [Conn -> Acceptors \cup {"none"}]
  BY ListenerFacts DEF IInv, TypeOK, Loops
<1>2. TypeOK'
  BY <1>1 DEF IInv, TypeOK, server
<1>3. LiveLoops' = LiveLoops /\ Handlers' = Handlers
  BY <1>1 DEF LiveLoops, Handlers
<1>4. Counted'
  BY <1>3, CountKept DEF IInv
<1>5. LoopHoldsConn'
  BY <1>1 DEF IInv, LoopHoldsConn
<1>6. NotYetRunning' /\ ShutdownOrder'
  BY DEF IInv, NotYetRunning, ShutdownOrder, InHandler, server
<1>7. Quiet'
  BY <1>3 DEF IInv, Quiet, InHandler, server
<1> QED
  BY <1>2, <1>4, <1>5, <1>6, <1>7 DEF IInv

(* A loop that returns was counted until now. *)
LEMMA EndLoopStep ==
  ASSUME IInv, NEW l \in Loops, EndLoop(l) PROVE IInv'
<1>1. /\ start = "running" /\ loop[l] = "idle" /\ loop' = [loop EXCEPT ![l] = "ended"]
      /\ Done /\ UNCHANGED <<server, conn, port, request, done, stop>>
  BY DEF EndLoop, Running
<1>2. loop \in [Loops -> {"off", "idle", "busy", "ended"}]
  BY DEF IInv, TypeOK
<1>3. l \in LiveLoops /\ LiveLoops' = LiveLoops \ {l} /\ Handlers' = Handlers
  BY <1>1, <1>2 DEF LiveLoops, Handlers
<1>4. Counted' /\ wg' \in Nat /\ panicked' = FALSE
  <2>1. LiveLoops' \subseteq Loops /\ Handlers' \subseteq Conn
    BY <1>3, CountsAreFinite
  <2> QED
    BY <1>1, <1>3, <2>1, DoneCounts DEF IInv
<1>5. TypeOK'
  BY <1>1, <1>2, <1>4 DEF IInv, TypeOK, server
<1>6. LoopHoldsConn'
  BY <1>1, <1>2 DEF IInv, LoopHoldsConn
<1>7. NotYetRunning' /\ ShutdownOrder'
  BY <1>1 DEF IInv, NotYetRunning, ShutdownOrder, InHandler, server
<1>8. Quiet'
  BY <1>1, <1>3 DEF IInv, Quiet, InHandler, server
<1> QED
  BY <1>4, <1>5, <1>6, <1>7, <1>8 DEF IInv

-----------------------------------------------------------------------------
(* The handler is counted before the loop goes on, and the loop after it is   *)
(* free for another connection.                                               *)
LEMMA SpawnStep ==
  ASSUME IInv, NEW c \in Conn, Spawn(c) PROVE IInv'
<1>1. /\ start = "running" /\ conn[c] = "accepted" /\ wg' = wg + 1
      /\ conn' = [conn EXCEPT ![c] = "reading"] /\ loop' = [loop EXCEPT ![port[c]] = "idle"]
      /\ UNCHANGED <<server, port, request, done, stop, panicked>>
  BY DEF Spawn, Running
<1>2. /\ loop \in [Loops -> {"off", "idle", "busy", "ended"}]
      /\ conn \in [Conn -> {"new", "accepted", "reading", "parsed", "closed"}]
      /\ port[c] \in Loops /\ loop[port[c]] = "busy"
  BY <1>1, ListenerFacts DEF IInv, TypeOK, LoopHoldsConn, Loops
<1>3. LiveLoops' = LiveLoops /\ Handlers' = Handlers \cup {c} /\ c \notin Handlers
  BY <1>1, <1>2 DEF LiveLoops, Handlers
<1>4. Counted' /\ wg' \in Nat
  <2>1. Cardinality(Handlers \cup {c}) = Cardinality(Handlers) + 1
    BY <1>3, CountsAreFinite, FS_AddElement
  <2>2. Cardinality(LiveLoops) \in Nat /\ Cardinality(Handlers) \in Nat
    BY CountsAreFinite
  <2> QED
    BY <1>1, <1>3, <2>1, <2>2 DEF IInv, Counted
<1>5. TypeOK'
  BY <1>1, <1>2, <1>4 DEF IInv, TypeOK, server
<1>6. LoopHoldsConn'
  BY <1>1, <1>2 DEF IInv, LoopHoldsConn
<1>7. NotYetRunning' /\ ShutdownOrder'
  BY <1>1 DEF IInv, NotYetRunning, ShutdownOrder, InHandler, server
<1>8. Quiet'
  BY <1>1, <1>2 DEF IInv, Quiet, InHandler, server
<1> QED
  BY <1>4, <1>5, <1>6, <1>7, <1>8 DEF IInv

LEMMA HandlerStep ==
  ASSUME IInv, NEW c \in Conn, Parse(c) \/ HandlerEnds(c) PROVE IInv'
<1>1. /\ start = "running" /\ c \in Handlers
      /\ UNCHANGED <<server, loop, port, request, done, stop>>
  BY DEF Parse, HandlerEnds, Running, Handlers
<1>2. conn \in [Conn -> {"new", "accepted", "reading", "parsed", "closed"}]
  BY DEF IInv, TypeOK
<1>3. /\ conn' \in [Conn -> {"new", "accepted", "reading", "parsed", "closed"}]
      /\ \A d \in Conn : d # c => conn'[d] = conn[d]
      /\ conn'[c] \in {"parsed", "closed"} /\ conn[c] \in {"reading", "parsed"}
  BY <1>2 DEF Parse, HandlerEnds
<1>4. LiveLoops' = LiveLoops
  BY <1>1 DEF LiveLoops
<1>5. Counted' /\ wg' \in Nat /\ panicked' \in BOOLEAN
  <2>1. CASE Parse(c)
    <3>1. Handlers' = Handlers
      BY <1>2, <1>3, <2>1 DEF Parse, Handlers
    <3> QED
      BY <1>4, <2>1, <3>1, CountKept DEF Parse, IInv, TypeOK
  <2>2. CASE HandlerEnds(c)
    <3>1. Handlers' = Handlers \ {c}
      BY <1>2, <1>3, <2>2 DEF HandlerEnds, Handlers
    <3>2. Done
      BY <2>2 DEF HandlerEnds
    <3>3. LiveLoops' \subseteq Loops /\ Handlers' \subseteq Conn
      BY <1>4, <3>1, CountsAreFinite
    <3> QED
      BY <1>1, <1>4, <3>1, <3>2, <3>3, DoneCounts DEF IInv
  <2> QED
    BY <2>1, <2>2
<1>6. TypeOK'
  BY <1>1, <1>3, <1>5 DEF IInv, TypeOK, server
<1>7. LoopHoldsConn'
  BY <1>1, <1>3 DEF IInv, LoopHoldsConn
<1>8. NotYetRunning' /\ ShutdownOrder'
  BY <1>1 DEF IInv, NotYetRunning, ShutdownOrder, InHandler, server
<1>9. Quiet'
  BY <1>1, <1>3, <1>4 DEF IInv, Quiet, InHandler, server
<1> QED
  BY <1>5, <1>6, <1>7, <1>8, <1>9 DEF IInv

(* An HTTP request is not counted; none begins once the listener is closed. *)
LEMMA RequestStep ==
  ASSUME IInv, NEW r \in Request, Receive(r) \/ Proceed(r) PROVE IInv'
<1>1. /\ start = "running"
      /\ UNCHANGED <<server, loop, conn, port, done, wg, stop, panicked>>
  BY DEF Receive, Proceed, Running
<1>2. TypeOK'
  BY <1>1 DEF IInv, TypeOK, server, Receive, Proceed
<1>3. LiveLoops' = LiveLoops /\ Handlers' = Handlers
  BY <1>1 DEF LiveLoops, Handlers
<1>4. Counted'
  BY <1>1, <1>3, CountKept DEF IInv
<1>5. InHandler' # {} => InHandler # {} \/ ~httpDown
  BY DEF IInv, TypeOK, InHandler, Receive, Proceed
<1>6. LoopHoldsConn' /\ NotYetRunning'
  BY <1>1 DEF IInv, LoopHoldsConn, NotYetRunning, server
<1>7. ShutdownOrder'
  BY <1>1, <1>5 DEF IInv, ShutdownOrder, server
<1>8. Quiet'
  BY <1>1, <1>3, <1>5 DEF IInv, ShutdownOrder, Quiet, server
<1> QED
  BY <1>2, <1>4, <1>6, <1>7, <1>8 DEF IInv

-----------------------------------------------------------------------------
(* Shutdown up to wg.Wait. *)
LEMMA StoppingStep ==
  ASSUME IInv,
         Expire \/ \E k \in Stopper : Call(k) \/ CloseDone(k) \/ ShutdownHTTP(k) \/ Drained(k)
  PROVE  IInv'
<1>1. /\ start = "running" /\ start' = start
      /\ UNCHANGED <<loop, conn, port, request, wg>>
  BY DEF Expire, Call, CloseDone, ShutdownHTTP, Drained, Running, server
<1>2. open' \subseteq open /\ (httpDown => httpDown') /\ (expired => expired')
  BY DEF Expire, Call, CloseDone, ShutdownHTTP, Drained, closeAll, server, IInv, TypeOK
<1>3. \A k \in Stopper :
        \/ stop'[k] = stop[k]
        \/ /\ stop'[k] \in {"left", "close", "http", "drain", "wait"}
           /\ stop'[k] = "drain" => httpDown'
           /\ stop'[k] = "wait" => stop[k] = "drain" /\ open' = {} /\ (InHandler # {} => expired')
  BY DEF Expire, Call, CloseDone, ShutdownHTTP, Drained, closeAll, server, IInv, TypeOK
<1>4. TypeOK'
  BY <1>1, <1>2 DEF Expire, Call, CloseDone, ShutdownHTTP, Drained, server, IInv, TypeOK
<1>5. LiveLoops' = LiveLoops /\ Handlers' = Handlers /\ InHandler' = InHandler
  BY <1>1 DEF LiveLoops, Handlers, InHandler
<1>6. Counted'
  BY <1>1, <1>5, CountKept DEF IInv
<1>7. LoopHoldsConn' /\ NotYetRunning'
  BY <1>1 DEF IInv, LoopHoldsConn, NotYetRunning
<1>8. ShutdownOrder'
  BY <1>2, <1>3, <1>5 DEF IInv, ShutdownOrder
<1>9. Quiet'
  BY <1>1, <1>2, <1>3, <1>5 DEF IInv, Quiet
<1> QED
  BY <1>4, <1>6, <1>7, <1>8, <1>9 DEF IInv

(* A counter at zero means that no loop and no handler is left. *)
LEMMA WaitStep ==
  ASSUME IInv, NEW k \in Stopper, Wait(k) PROVE IInv'
<1>1. /\ start = "running" /\ stop[k] = "wait" /\ wg = 0
      /\ stop' = [stop EXCEPT ![k] = "returned"]
      /\ UNCHANGED <<server, loop, conn, port, request, done, wg, panicked>>
  BY DEF Wait, Running
<1>2. LiveLoops = {} /\ Handlers = {}
  <2>1. Cardinality(LiveLoops) = 0 /\ Cardinality(Handlers) = 0
    BY <1>1, CountsAreFinite DEF IInv, Counted
  <2> QED
    BY <2>1, CountsAreFinite, FS_EmptySet
<1>3. \A c \in Conn : conn[c] \in {"new", "closed"}
  <2>1. \A c \in Conn : conn[c] # "accepted"
    BY <1>2, ListenerFacts DEF IInv, LoopHoldsConn, LiveLoops, Loops
  <2> QED
    BY <1>2, <2>1 DEF IInv, TypeOK, Handlers
<1>4. open = {} /\ (InHandler # {} => expired)
  BY <1>1 DEF IInv, ShutdownOrder
<1>5. LiveLoops' = LiveLoops /\ Handlers' = Handlers /\ InHandler' = InHandler
  BY <1>1 DEF LiveLoops, Handlers, InHandler
<1>6. TypeOK' /\ Counted'
  BY <1>1, <1>5, CountKept DEF IInv, TypeOK, server
<1>7. LoopHoldsConn' /\ NotYetRunning' /\ ShutdownOrder'
  BY <1>1, <1>5 DEF IInv, TypeOK, LoopHoldsConn, NotYetRunning, ShutdownOrder, server
<1>8. Quiet'
  BY <1>1, <1>2, <1>3, <1>4, <1>5 DEF Quiet, server
<1> QED
  BY <1>6, <1>7, <1>8 DEF IInv

(* Every step keeps the invariant. *)
LEMMA Inductive ==
  ASSUME IInv, [Next]_vars PROVE IInv'
<1>1. CASE UNCHANGED vars
  BY <1>1 DEF vars, IInv, TypeOK, NotYetRunning, Counted, LoopHoldsConn, ShutdownOrder, Quiet,
              LiveLoops, Handlers, InHandler
<1>2. CASE Bind \/ BindFails \/ Launch
  BY <1>2, BindStep, LaunchStep
<1>3. CASE \E l \in Listeners, c \in Conn : Accept(l, c)
  BY <1>3, AcceptStep
<1>4. CASE \E c \in Conn : Spawn(c) \/ Parse(c) \/ HandlerEnds(c)
  BY <1>4, SpawnStep, HandlerStep
<1>5. CASE \E l \in Listeners : ReadDatagram(l) \/ HandleDatagram(l)
  BY <1>5, ReadStep DEF ReadDatagram, HandleDatagram, Running
<1>6. CASE Sweep
  BY <1>6, ReadStep, ListenerFacts DEF Sweep, Running
<1>7. CASE \E l \in Loops : EndLoop(l)
  BY <1>7, EndLoopStep
<1>8. CASE \E r \in Request : Receive(r) \/ Proceed(r)
  BY <1>8, RequestStep
<1>9. CASE Expire \/ \E k \in Stopper : Call(k) \/ ShutdownStep(k)
  BY <1>9, StoppingStep, WaitStep DEF ShutdownStep
<1> QED
  BY <1>1, <1>2, <1>3, <1>4, <1>5, <1>6, <1>7, <1>8, <1>9 DEF Next, Over

(* The invariant of every reachable state. *)
THEOREM Invariance == Spec => []IInv
<1>1. Init => IInv
  BY InitHolds
<1>2. IInv /\ [Next]_vars => IInv'
  BY Inductive
<1> QED
  BY <1>1, <1>2, PTL DEF Spec

(* The variables keep their types: the counter never falls below zero. *)
THEOREM TypeCorrect == Spec => []TypeOK
<1>1. IInv => TypeOK
  BY DEF IInv
<1> QED
  BY <1>1, Invariance, PTL

(* The WaitGroup counts the loops and the connection handlers that run; while *)
(* a handler is about to be counted it is not zero, so wg.Add never races with *)
(* the end of wg.Wait.                                                        *)
THEOREM WaitGroupIsExact == Spec => []WaitGroupCounts
<1>1. ASSUME IInv PROVE WaitGroupCounts
  <2>1. wg = Cardinality(LiveLoops) + Cardinality(Handlers)
    BY <1>1 DEF IInv, Counted
  <2>2. ASSUME NEW c \in Conn, conn[c] = "accepted" PROVE wg > 0
    <3>1. port[c] \in LiveLoops
      BY <1>1, <2>2, ListenerFacts DEF IInv, LoopHoldsConn, LiveLoops, Loops
    <3>2. Cardinality(LiveLoops) # 0
      BY <3>1, CountsAreFinite, FS_EmptySet
    <3> QED
      BY <2>1, <3>2, CountsAreFinite
  <2> QED
    BY <2>1, <2>2 DEF WaitGroupCounts
<1> QED
  BY <1>1, Invariance, PTL

(* A Start that fails closes what it has bound.  When Shutdown returns to the *)
(* caller that closed done, every listener is closed, every loop and every    *)
(* connection handler has ended, and an HTTP handler is at work only if the   *)
(* context ran out.                                                           *)
THEOREM ReturnsIntoSilence == Spec => []Quiet
<1>1. IInv => Quiet
  BY DEF IInv
<1> QED
  BY <1>1, Invariance, PTL
=============================================================================
