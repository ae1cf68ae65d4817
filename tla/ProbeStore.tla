----------------------------- MODULE ProbeStore -----------------------------
(***************************************************************************)
(* The in-memory session store of the probe, internal/proto/store.go: the  *)
(* map from session identifiers to sessions, its lazy and its periodic     *)
(* expiry, its cap on sessions and its cap on observations.  Every method  *)
(* holds Store.mu from its first read of the clock or of the map to its    *)
(* return, so a method is one action.                                      *)
(***************************************************************************)
EXTENDS Naturals, Sequences, FiniteSets, Functions

CONSTANTS Session,      \* identifiers ValidSessionID accepts
          BadId,        \* identifiers it rejects
          Obs,          \* observations
          TTL,          \* Store.ttl, 0 standing for any value <= 0
          MaxSessions,  \* Store.max, 0 standing for any value <= 0
          MaxObs,       \* maxObsPerSession
          MaxTime       \* bound on the clock (TLC only: nothing depends on it)

ASSUME StoreAssumption ==
  /\ TTL \in Nat /\ MaxSessions \in Nat /\ MaxObs \in Nat \ {0} /\ MaxTime \in Nat
  /\ Session \cap BadId = {}

VARIABLES
  sessions,  \* Store.sessions: session |-> its Created and its Obs
  now,       \* what Store.now() returns
  ret,       \* the answer of the last Append or Get
  rivals     \* history: how many other sessions were opened no earlier than
             \* a stored one, counted up to MaxSessions

vars == <<sessions, now, ret, rivals>>

Record == [created : Nat, obs : Seq(Obs)]

Answer(op, id, ok, obs) == [op |-> op, id |-> id, ok |-> ok, obs |-> obs]

-----------------------------------------------------------------------------
(* The locked helpers, as operators on a store S at time t. *)

(* Mutants: a collector that removes nothing; eviction of the newest session; *)
(* a full map that keeps growing when nothing has expired; an Append that     *)
(* renews the session; an Append that takes an identifier unchecked.          *)
MutantEvictNothing(S, t) == S

MutantNewest(S) == {s \in DOMAIN S : \A r \in DOMAIN S : S[s].created >= S[r].created}

MutantEvictExpiredOnly(S, t) ==
  {IF MaxSessions = 0 \/ Cardinality(DOMAIN S) < MaxSessions THEN S
   ELSE Restrict(S, {s \in DOMAIN S : TTL = 0 \/ t <= S[s].created + TTL})}

MutantRenew(S, s, o) ==
  [S EXCEPT ![s] = [created |-> now,
                    obs |-> IF Len(@.obs) < MaxObs THEN Append(@.obs, o) ELSE @.obs]]

MutantAcceptId(s) ==
  /\ sessions' = [r \in DOMAIN sessions \cup {s} |->
                    IF r = s THEN [created |-> now, obs |-> <<>>] ELSE sessions[r]]
  /\ rivals' = [r \in DOMAIN sessions' |-> 0]
  /\ ret' = Answer("append", s, TRUE, <<>>)
  /\ UNCHANGED now

Expired(S, t, s) == TTL > 0 /\ t > S[s].created + TTL

evictExpired(S, t) == Restrict(S, {s \in DOMAIN S : ~Expired(S, t, s)})

Full(S) == MaxSessions > 0 /\ Cardinality(DOMAIN S) >= MaxSessions

Oldest(S) == {s \in DOMAIN S : \A r \in DOMAIN S : S[s].created <= S[r].created}

(* Map iteration order decides between sessions created at the same instant. *)
evictOldest(S) == {Restrict(S, DOMAIN S \ {s}) : s \in Oldest(S)}

(* The stores Append may be left with before it opens a session. *)
MadeRoom(S, t) ==
  LET E == evictExpired(S, t)
  IN  IF ~Full(S) THEN {S} ELSE IF ~Full(E) THEN {E} ELSE evictOldest(E)

Opened(S, t, s, o) ==
  [r \in DOMAIN S \cup {s} |->
     IF r = s THEN [created |-> t, obs |-> <<o>>] ELSE S[r]]

Added(S, s, o) ==
  IF Len(S[s].obs) < MaxObs THEN [S EXCEPT ![s].obs = Append(@, o)] ELSE S

-----------------------------------------------------------------------------
(* History: the sessions of S other than s created no earlier than it. *)
NoOlder(S, s) ==
  {r \in DOMAIN S \ {s} : S[r].created >= S[s].created}

CapAt(n, m) == IF n < m THEN n ELSE m

RivalsAfterOpening(s) ==
  [r \in DOMAIN sessions' |->
     IF r = s THEN CapAt(Cardinality(NoOlder(sessions', s)), MaxSessions)
              ELSE CapAt(rivals[r] + 1, MaxSessions)]

-----------------------------------------------------------------------------
Init ==
  /\ sessions = <<>> /\ rivals = <<>>
  /\ now = 0
  /\ ret = Answer("none", "none", FALSE, <<>>)

(* Append and Get with an identifier ValidSessionID rejects. *)
RejectId(s) ==
  /\ \E op \in {"append", "get"} : ret' = Answer(op, s, FALSE, <<>>)
  /\ UNCHANGED <<sessions, now, rivals>>

(* Append to a session the map holds: nobody asks whether it has expired. *)
AppendKnown(s, o) ==
  /\ s \in DOMAIN sessions
  /\ sessions' = Added(sessions, s, o)
  /\ ret' = Answer("append", s, TRUE, <<>>)
  /\ UNCHANGED <<now, rivals>>

AppendNew(s, o) ==
  /\ s \notin DOMAIN sessions
  /\ \E S \in MadeRoom(sessions, now) : sessions' = Opened(S, now, s, o)
  /\ ret' = Answer("append", s, TRUE, <<>>)
  /\ rivals' = RivalsAfterOpening(s)
  /\ UNCHANGED now

GetMissing(s) ==
  /\ s \notin DOMAIN sessions
  /\ ret' = Answer("get", s, FALSE, <<>>)
  /\ UNCHANGED <<sessions, now, rivals>>

GetExpired(s) ==
  /\ s \in DOMAIN sessions /\ Expired(sessions, now, s)
  /\ sessions' = Restrict(sessions, DOMAIN sessions \ {s})
  /\ ret' = Answer("get", s, FALSE, <<>>)
  /\ rivals' = Restrict(rivals, DOMAIN sessions \ {s})
  /\ UNCHANGED now

GetLive(s) ==
  /\ s \in DOMAIN sessions /\ ~Expired(sessions, now, s)
  /\ ret' = Answer("get", s, TRUE, sessions[s].obs)
  /\ UNCHANGED <<sessions, now, rivals>>

GC ==
  /\ sessions' = evictExpired(sessions, now)
  /\ rivals' = Restrict(rivals, DOMAIN sessions')
  /\ UNCHANGED <<now, ret>>

Tick ==
  /\ now < MaxTime
  /\ now' = now + 1
  /\ UNCHANGED <<sessions, ret, rivals>>

Next ==
  \/ \E s \in BadId : RejectId(s)
  \/ \E s \in Session, o \in Obs : AppendKnown(s, o) \/ AppendNew(s, o)
  \/ \E s \in Session : GetMissing(s) \/ GetExpired(s) \/ GetLive(s)
  \/ GC
  \/ Tick

Spec == Init /\ [][Next]_vars

(* gcLoop's ticker calls GC for as long as the server runs. *)
FairSpec == Spec /\ WF_vars(GC)

-----------------------------------------------------------------------------
TypeOK ==
  /\ DOMAIN sessions \subseteq Session
  /\ sessions \in [DOMAIN sessions -> Record]
  /\ rivals \in [DOMAIN sessions -> Nat]
  /\ now \in Nat

(* The cap Append enforces holds in every state, whatever mix of expired and *)
(* living sessions the map held when a session was opened.                   *)
Capacity == MaxSessions > 0 => Cardinality(DOMAIN sessions) <= MaxSessions

(* The history of a stored session counts at least the sessions stored beside *)
(* it that are not older: what makes Retention hold.                          *)
RivalsCounted ==
  \A s \in DOMAIN sessions :
     CapAt(Cardinality(NoOlder(sessions, s)), MaxSessions) <= rivals[s]

(* A session that leaves the map has expired, or else the map is full of      *)
(* living sessions, a new one is being opened, and with it at least           *)
(* MaxSessions others were opened no earlier than the one that leaves: a      *)
(* client that reads its session within TTL loses it only to that many newer. *)
RetentionStep ==
  \A s \in DOMAIN sessions \ DOMAIN sessions' :
    \/ Expired(sessions, now, s)
    \/ /\ MaxSessions > 0
       /\ rivals[s] + 1 >= MaxSessions
       /\ \E r \in DOMAIN sessions' \ DOMAIN sessions : sessions'[r].created = now

Retention == [][RetentionStep]_vars

(* An expired session does not stay in memory, even if handlers go on adding *)
(* to it: Append does not renew a session, and the collector gets to it.     *)
Collected ==
  \A s \in Session :
    (s \in DOMAIN sessions /\ Expired(sessions, now, s)) ~>
      ~(s \in DOMAIN sessions /\ Expired(sessions, now, s))

(* What the store lets its callers see: the unexpired part of the map.  Seen *)
(* through it the store is the abstract registry: collecting, lazily in Get, *)
(* in Append or from gcLoop, is invisible, and no answer depends on when it  *)
(* happened, but for an observation swallowed by an expired session.         *)
Registry == INSTANCE SessionRegistry WITH live <- evictExpired(sessions, now)

ImplementsRegistry == Registry!Spec
=============================================================================
