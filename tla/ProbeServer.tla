----------------------------- MODULE ProbeServer -----------------------------
(***************************************************************************)
(* The life of a probe process, internal/probe/server.go with the loops of *)
(* tls.go and udp.go: Start binds the sockets and launches the goroutines, *)
(* the loops and the handlers run, Shutdown stops them.  What the handlers *)
(* record is another module's subject (ProbeStore, NatTest); here it only  *)
(* matters when they do it.                                                *)
(***************************************************************************)
EXTENDS Integers, Sequences, FiniteSets, SequencesExt

CONSTANTS
  ExtraPorts,  \* Config.ExtraPorts, a sequence
  Conn,        \* TCP connections to the TLS port and the extra ports
  Request,     \* HTTP requests
  Stopper      \* goroutines that call Shutdown

ASSUME ServerAssumption ==
  /\ ExtraPorts \in Seq(ToSet(ExtraPorts))
  /\ ToSet(ExtraPorts) \cap {"http", "tls", "udp", "nat", "gc"} = {}
  /\ IsFiniteSet(Conn)

VARIABLES
  start,     \* Start: "binding", "running", "failed"
  open,      \* listeners that are open
  loop,      \* serve loops and gcLoop: "off", "idle", "busy", "ended"
  conn,      \* connections: "new", "accepted", "reading", "parsed", "closed"
  port,      \* the listener that accepted a connection
  request,   \* HTTP requests: "new", "received", "recorded", "answered"
  done,      \* Server.done is closed
  wg,        \* Server.wg
  httpDown,  \* httpSrv.Shutdown was called
  expired,   \* the context given to Shutdown is done
  stop,      \* callers of Shutdown
  panicked   \* close of closed channel, or a negative WaitGroup: the process is gone

server == <<start, open, httpDown, expired>>
vars == <<start, open, loop, conn, port, request, done, wg, httpDown, expired, stop, panicked>>

Bindings == <<"http", "tls", "udp", "nat">> \o ExtraPorts   \* in the order of Start
Listeners == ToSet(Bindings)
Acceptors == {"tls"} \cup ToSet(ExtraPorts)
Readers == {"udp", "nat"}
Loops == Listeners \cup {"gc"}

Running == start = "running" /\ ~panicked

Init ==
  /\ start = "binding" /\ open = {}
  /\ loop = [l \in Loops |-> "off"]
  /\ conn = [c \in Conn |-> "new"] /\ port = [c \in Conn |-> "none"]
  /\ request = [r \in Request |-> "new"]
  /\ done = FALSE /\ wg = 0 /\ httpDown = FALSE /\ expired = FALSE
  /\ stop = [k \in Stopper |-> "idle"]
  /\ panicked = FALSE

-----------------------------------------------------------------------------
(* Start: the sockets are bound one by one, in the order of Bindings. *)
Bound == Cardinality(open)

Bind ==
  /\ start = "binding" /\ Bound < Len(Bindings)
  /\ open' = open \cup {Bindings[Bound + 1]}
  /\ UNCHANGED <<start, loop, conn, port, request, done, wg, httpDown, expired, stop, panicked>>

(* Mutant: the NAT socket forgotten. *)
MutantCloseAll == open \ ({"http", "tls", "udp"} \cup ToSet(ExtraPorts))

(* The same list of Close calls ends a Start that fails and a Shutdown. *)
closeAll == open \ Listeners

BindFails ==
  /\ start = "binding" /\ Bound < Len(Bindings)
  /\ start' = "failed"
  /\ open' = closeAll
  /\ UNCHANGED <<loop, conn, port, request, done, wg, httpDown, expired, stop, panicked>>

(* Mutant: gcLoop not counted. *)
MutantInitialCount == 4 + Len(ExtraPorts)

InitialCount == 5 + Len(ExtraPorts)

Launch ==
  /\ start = "binding" /\ Bound = Len(Bindings)
  /\ start' = "running"
  /\ wg' = wg + InitialCount
  /\ loop' = [l \in Loops |-> "idle"]
  /\ UNCHANGED <<open, conn, port, request, done, httpDown, expired, stop, panicked>>

-----------------------------------------------------------------------------
(* The serve loops.  wg.Done takes the counter below zero only by a bug. *)
Done == wg' = wg - 1 /\ panicked' = (wg < 1)

(* Accept returns a connection; the loop is about to count its handler. *)
Accept(l, c) ==
  /\ Running /\ l \in Acceptors \cap open /\ loop[l] = "idle" /\ conn[c] = "new"
  /\ loop' = [loop EXCEPT ![l] = "busy"]
  /\ conn' = [conn EXCEPT ![c] = "accepted"] /\ port' = [port EXCEPT ![c] = l]
  /\ UNCHANGED <<server, request, done, wg, stop, panicked>>

(* Mutant: the handler counts itself, once it runs. *)
MutantSpawn(c) ==
  /\ Running /\ conn[c] = "accepted"
  /\ conn' = [conn EXCEPT ![c] = "reading"]
  /\ loop' = [loop EXCEPT ![port[c]] = "idle"]
  /\ UNCHANGED <<server, port, request, done, wg, stop, panicked>>

Spawn(c) ==
  /\ Running /\ conn[c] = "accepted"
  /\ wg' = wg + 1
  /\ conn' = [conn EXCEPT ![c] = "reading"]
  /\ loop' = [loop EXCEPT ![port[c]] = "idle"]
  /\ UNCHANGED <<server, port, request, done, stop, panicked>>

(* A datagram is read; it is recorded and answered before the next read. *)
ReadDatagram(l) ==
  /\ Running /\ l \in Readers \cap open /\ loop[l] = "idle"
  /\ loop' = [loop EXCEPT ![l] = "busy"]
  /\ UNCHANGED <<server, conn, port, request, done, wg, stop, panicked>>

HandleDatagram(l) ==
  /\ Running /\ l \in Readers /\ loop[l] = "busy"
  /\ loop' = [loop EXCEPT ![l] = "idle"]
  /\ UNCHANGED <<server, conn, port, request, done, wg, stop, panicked>>

(* A sweep of the store, on a tick. *)
Sweep ==
  /\ Running /\ loop["gc"] \in {"idle", "busy"}
  /\ loop' = [loop EXCEPT !["gc"] = IF @ = "idle" THEN "busy" ELSE "idle"]
  /\ UNCHANGED <<server, conn, port, request, done, wg, stop, panicked>>

(* Why a loop returns: Accept and Serve fail for good once their listener is  *)
(* closed; a failed read ends a UDP loop only when done is closed.            *)
Ends(l) ==
  CASE l = "gc"        -> done
    [] l = "http"      -> httpDown \/ l \notin open
    [] l \in Readers   -> l \notin open /\ done
    [] OTHER           -> l \notin open

EndLoop(l) ==
  /\ Running /\ loop[l] = "idle" /\ Ends(l)
  /\ loop' = [loop EXCEPT ![l] = "ended"]
  /\ Done
  /\ UNCHANGED <<server, conn, port, request, done, stop>>

-----------------------------------------------------------------------------
(* handleTLSConn and handleExtraConn. *)

(* The first payload, or the whole ClientHello, is there and valid.  On an   *)
(* extra port {"ok":true} is written now, before the observation is recorded. *)
Parse(c) ==
  /\ Running /\ conn[c] = "reading"
  /\ conn' = [conn EXCEPT ![c] = "parsed"]
  /\ UNCHANGED <<server, loop, port, request, done, wg, stop, panicked>>

(* Mutant: no return without a record. *)
MutantHandlerEnds(c) ==
  /\ Running /\ conn[c] = "parsed"
  /\ conn' = [conn EXCEPT ![c] = "closed"]
  /\ Done
  /\ UNCHANGED <<server, loop, port, request, done, stop>>

(* The observation is recorded; or nothing came before the read deadline, or *)
(* what came was invalid or cut short.                                       *)
HandlerEnds(c) ==
  /\ Running /\ conn[c] \in {"reading", "parsed"}
  /\ conn' = [conn EXCEPT ![c] = "closed"]
  /\ Done
  /\ UNCHANGED <<server, loop, port, request, done, stop>>

(* handleEcho, in a goroutine of net/http that wg does not count: a request  *)
(* is "received" from the moment net/http accepts its connection.            *)
Receive(r) ==
  /\ Running /\ "http" \in open /\ ~httpDown /\ loop["http"] = "idle" /\ request[r] = "new"
  /\ request' = [request EXCEPT ![r] = "received"]
  /\ UNCHANGED <<server, loop, conn, port, done, wg, stop, panicked>>

Proceed(r) ==
  /\ Running /\ request[r] \in {"received", "recorded"}
  /\ request' = [request EXCEPT ![r] = IF @ = "received" THEN "recorded" ELSE "answered"]
  /\ UNCHANGED <<server, loop, conn, port, done, wg, stop, panicked>>

-----------------------------------------------------------------------------
(* Shutdown. *)
InHandler == {r \in Request : request[r] \in {"received", "recorded"}}

(* select on done: a second caller leaves at once. *)
Call(k) ==
  /\ Running /\ stop[k] = "idle"
  /\ stop' = [stop EXCEPT ![k] = IF done THEN "left" ELSE "close"]
  /\ UNCHANGED <<server, loop, conn, port, request, done, wg, panicked>>

(* close(s.done): nothing holds off another caller since the select. *)
CloseDone(k) ==
  /\ Running /\ stop[k] = "close"
  /\ panicked' = done /\ done' = TRUE
  /\ stop' = [stop EXCEPT ![k] = "http"]
  /\ UNCHANGED <<server, loop, conn, port, request, wg>>

ShutdownHTTP(k) ==
  /\ Running /\ stop[k] = "http"
  /\ httpDown' = TRUE /\ open' = open \ {"http"}
  /\ stop' = [stop EXCEPT ![k] = "drain"]
  /\ UNCHANGED <<start, expired, loop, conn, port, request, done, wg, panicked>>

(* httpSrv.Shutdown returns when no request is active, or its context is done. *)
Drained(k) ==
  /\ Running /\ stop[k] = "drain"
  /\ InHandler = {} \/ expired
  /\ open' = closeAll
  /\ stop' = [stop EXCEPT ![k] = "wait"]
  /\ UNCHANGED <<start, httpDown, expired, loop, conn, port, request, done, wg, panicked>>

Expire ==
  /\ Running /\ ~expired /\ \E k \in Stopper : stop[k] \in {"close", "http", "drain"}
  /\ expired' = TRUE
  /\ UNCHANGED <<start, open, httpDown, loop, conn, port, request, done, wg, stop, panicked>>

(* Mutant: no wg.Wait. *)
MutantNoWait(k) ==
  /\ Running /\ stop[k] = "wait"
  /\ stop' = [stop EXCEPT ![k] = "returned"]
  /\ UNCHANGED <<server, loop, conn, port, request, done, wg, panicked>>

(* wg.Wait: no deadline. *)
Wait(k) ==
  /\ Running /\ stop[k] = "wait" /\ wg = 0
  /\ stop' = [stop EXCEPT ![k] = "returned"]
  /\ UNCHANGED <<server, loop, conn, port, request, done, wg, panicked>>

ShutdownStep(k) == CloseDone(k) \/ ShutdownHTTP(k) \/ Drained(k) \/ Wait(k)

(* The process is gone, or Shutdown has returned and main returns. *)
Over ==
  /\ panicked \/ start = "failed" \/ \E k \in Stopper : stop[k] = "returned"
  /\ UNCHANGED vars

Next ==
  \/ Bind \/ BindFails \/ Launch
  \/ \E l \in Listeners, c \in Conn : Accept(l, c)
  \/ \E c \in Conn : Spawn(c) \/ Parse(c) \/ HandlerEnds(c)
  \/ \E l \in Listeners : ReadDatagram(l) \/ HandleDatagram(l)
  \/ \E l \in Loops : EndLoop(l)
  \/ \E r \in Request : Receive(r) \/ Proceed(r)
  \/ \E k \in Stopper : Call(k) \/ ShutdownStep(k)
  \/ Sweep \/ Expire \/ Over

Spec == Init /\ [][Next]_vars

(* Goroutines are scheduled, and a handler's read ends by its deadline.  Of a *)
(* tick and a closed done, select picks at random: gcLoop does not see the    *)
(* tick for ever (strong fairness).  The other loops find their socket closed *)
(* on the next call.                                                          *)
FairSpec ==
  /\ Spec
  /\ SF_vars(EndLoop("gc"))
  /\ \A l \in Listeners : WF_vars(EndLoop(l))
  /\ \A l \in Listeners : WF_vars(HandleDatagram(l))
  /\ WF_vars(loop["gc"] = "busy" /\ Sweep)
  /\ \A c \in Conn : WF_vars(Spawn(c)) /\ WF_vars(HandlerEnds(c))
  /\ \A r \in Request : WF_vars(Proceed(r))
  /\ \A k \in Stopper : WF_vars(ShutdownStep(k))

-----------------------------------------------------------------------------
Handlers == {c \in Conn : conn[c] \in {"reading", "parsed"}}
LiveLoops == {l \in Loops : loop[l] \in {"idle", "busy"}}

TypeOK ==
  /\ start \in {"binding", "running", "failed"}
  /\ open \subseteq Listeners
  /\ loop \in [Loops -> {"off", "idle", "busy", "ended"}]
  /\ conn \in [Conn -> {"new", "accepted", "reading", "parsed", "closed"}]
  /\ port \in [Conn -> Acceptors \cup {"none"}]
  /\ request \in [Request -> {"new", "received", "recorded", "answered"}]
  /\ wg \in Nat
  /\ done \in BOOLEAN /\ httpDown \in BOOLEAN /\ expired \in BOOLEAN /\ panicked \in BOOLEAN
  /\ stop \in [Stopper -> {"idle", "left", "close", "http", "drain", "wait", "returned"}]

(* The WaitGroup counts the goroutines it is there for, so Done never takes  *)
(* it below zero and an Add never finds it at zero while Shutdown waits.     *)
WaitGroupCounts ==
  ~panicked =>
    /\ wg = Cardinality(LiveLoops) + Cardinality(Handlers)
    /\ \A c \in Conn : conn[c] = "accepted" => wg > 0

(* A Start that fails halfway leaves no socket open.  When the Shutdown that *)
(* closed done returns, no loop and no connection handler is left to record  *)
(* anything, no listener is open, and an HTTP handler is still at work only  *)
(* if the context ran out.                                                   *)
Quiet ==
  /\ start = "failed" => open = {}
  /\ \A k \in Stopper : stop[k] = "returned" =>
       /\ open = {}
       /\ LiveLoops = {} /\ \A c \in Conn : conn[c] \in {"new", "closed"}
       /\ InHandler # {} => expired

(* A Shutdown that got past the select returns, unless two of them met there. *)
ShutdownReturns ==
  \A k \in Stopper : stop[k] = "close" ~> (stop[k] = "returned" \/ panicked)

(* Every connection the probe accepted is closed by it, even in a shutdown. *)
ConnectionsEnd ==
  \A c \in Conn : conn[c] = "accepted" ~> (conn[c] = "closed" \/ panicked)
=============================================================================
