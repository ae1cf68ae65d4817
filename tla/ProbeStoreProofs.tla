-------------------------- MODULE ProbeStoreProofs --------------------------
(***************************************************************************)
(* Proofs about ProbeStore, for any sets of sessions and observations and  *)
(* any TTL and caps: its types, the cap on sessions, the retention         *)
(* guarantee, and that it implements SessionRegistry.                      *)
(***************************************************************************)
EXTENDS ProbeStore, FiniteSetTheorems, TLAPS

Store(S) == /\ S \in [DOMAIN S -> Record]
            /\ DOMAIN S \subseteq Session
            /\ IsFiniteSet(DOMAIN S)

(* The inductive invariant: the checked invariants, that the map is finite *)
(* (Cardinality means nothing otherwise) and that no session was created   *)
(* in the future.                                                          *)
IInv ==
  /\ TypeOK
  /\ IsFiniteSet(DOMAIN sessions)
  /\ \A s \in DOMAIN sessions : sessions[s].created <= now
  /\ Capacity
  /\ RivalsCounted

-----------------------------------------------------------------------------
(* Removing sessions from a store leaves a store, with the others unchanged. *)
LEMMA RestrictStore ==
  ASSUME NEW S, Store(S), NEW D, D \subseteq DOMAIN S
  PROVE  /\ Store(Restrict(S, D))
         /\ DOMAIN Restrict(S, D) = D
         /\ \A s \in D : Restrict(S, D)[s] = S[s]
<1>1. DOMAIN Restrict(S, D) = D /\ \A s \in D : Restrict(S, D)[s] = S[s]
  BY DEF Restrict
<1>2. Restrict(S, D) \in [D -> Record]
  BY DEF Restrict, Store
<1>3. IsFiniteSet(D)
  BY FS_Subset DEF Store
<1> QED
  BY <1>1, <1>2, <1>3 DEF Store

(* Removing sessions takes no rival away that is not counted. *)
LEMMA FewerRivals ==
  ASSUME NEW S, Store(S), NEW E, Store(E), DOMAIN E \subseteq DOMAIN S,
         \A s \in DOMAIN E : E[s] = S[s], NEW s \in DOMAIN E
  PROVE  /\ Cardinality(NoOlder(E, s)) \in Nat
         /\ Cardinality(NoOlder(S, s)) \in Nat
         /\ Cardinality(NoOlder(E, s)) <= Cardinality(NoOlder(S, s))
<1>1. NoOlder(E, s) \subseteq NoOlder(S, s)
  BY DEF NoOlder
<1>2. IsFiniteSet(NoOlder(S, s)) /\ IsFiniteSet(NoOlder(E, s))
  BY FS_Subset DEF NoOlder, Store
<1> QED
  BY <1>1, <1>2, FS_Subset, FS_CardinalityType

(* What Append may be left with before it opens a session: part of the map,  *)
(* with room for one more; what it dropped had expired, or is one of the     *)
(* oldest of a full map of living sessions.                                  *)
LEMMA RoomIsMade ==
  ASSUME NEW S, Store(S), NEW t \in Nat,
         MaxSessions > 0 => Cardinality(DOMAIN S) <= MaxSessions,
         NEW E \in MadeRoom(S, t)
  PROVE  /\ Store(E)
         /\ DOMAIN E \subseteq DOMAIN S
         /\ \A s \in DOMAIN E : E[s] = S[s]
         /\ MaxSessions > 0 => Cardinality(DOMAIN E) < MaxSessions
         /\ \A s \in DOMAIN S \ DOMAIN E :
              \/ Expired(S, t, s)
              \/ /\ Full(evictExpired(S, t))
                 /\ s \in Oldest(evictExpired(S, t))
<1> DEFINE X == evictExpired(S, t)
<1>1. /\ Store(X) /\ DOMAIN X \subseteq DOMAIN S
      /\ \A s \in DOMAIN X : X[s] = S[s]
      /\ \A s \in DOMAIN S \ DOMAIN X : Expired(S, t, s)
  BY RestrictStore DEF evictExpired
<1>2. Cardinality(DOMAIN S) \in Nat /\ Cardinality(DOMAIN X) \in Nat
      /\ Cardinality(DOMAIN X) <= Cardinality(DOMAIN S)
  BY <1>1, FS_CardinalityType, FS_Subset DEF Store
<1>3. CASE ~Full(S)
  <2>1. E = S
    BY <1>3 DEF MadeRoom
  <2> QED
    BY <2>1, <1>2, <1>3, StoreAssumption DEF Full
<1>4. CASE Full(S) /\ ~Full(X)
  <2>1. E = X
    BY <1>4 DEF MadeRoom
  <2>2. MaxSessions > 0 => Cardinality(DOMAIN E) < MaxSessions
    BY <2>1, <1>2, <1>4, StoreAssumption DEF Full
  <2> QED
    BY <2>1, <2>2, <1>1
<1>5. CASE Full(S) /\ Full(X)
  <2>1. PICK x \in Oldest(X) : E = Restrict(X, DOMAIN X \ {x})
    BY <1>5 DEF MadeRoom, evictOldest
  <2>2. x \in DOMAIN X
    BY DEF Oldest
  <2>3. /\ Store(E) /\ DOMAIN E = DOMAIN X \ {x}
        /\ \A s \in DOMAIN E : E[s] = X[s]
    BY <2>1, <1>1, RestrictStore
  <2>4. Cardinality(DOMAIN E) = Cardinality(DOMAIN X) - 1
    BY <2>2, <2>3, <1>1, FS_RemoveElement DEF Store
  <2>5. MaxSessions > 0 => Cardinality(DOMAIN E) < MaxSessions
    BY <2>4, <1>2, StoreAssumption
  <2> QED
    BY <2>1, <2>3, <2>5, <1>1, <1>5
<1> QED
  BY <1>3, <1>4, <1>5

-----------------------------------------------------------------------------
(* The invariant holds of the empty store NewStore makes. *)
THEOREM Initial == Init => IInv
<1> SUFFICES ASSUME Init PROVE IInv
  OBVIOUS
<1>1. DOMAIN sessions = {} /\ DOMAIN rivals = {}
  BY DEF Init
<1>2. Cardinality(DOMAIN sessions) = 0 /\ IsFiniteSet(DOMAIN sessions)
  BY <1>1, FS_EmptySet
<1> QED
  BY <1>1, <1>2, StoreAssumption DEF Init, IInv, TypeOK, Capacity, RivalsCounted

(* The steps that only take sessions out of the map keep the invariant. *)
LEMMA RemovalStep ==
  ASSUME IInv, NEW D, D \subseteq DOMAIN sessions,
         sessions' = Restrict(sessions, D), rivals' = Restrict(rivals, D), now' = now
  PROVE  IInv'
<1>1. Store(sessions) /\ TypeOK
  BY DEF IInv, TypeOK, Store
<1>2. /\ Store(sessions') /\ DOMAIN sessions' = D
      /\ \A s \in D : sessions'[s] = sessions[s]
  BY <1>1, RestrictStore
<1>3. rivals' \in [D -> Nat] /\ \A s \in D : rivals'[s] = rivals[s]
  BY <1>1 DEF TypeOK, Restrict
<1>4. TypeOK' /\ IsFiniteSet(DOMAIN sessions')
  BY <1>1, <1>2, <1>3 DEF TypeOK, Store
<1>5. \A s \in DOMAIN sessions' : sessions'[s].created <= now'
  BY <1>2 DEF IInv
<1>6. Capacity'
  <2>1. /\ Cardinality(D) <= Cardinality(DOMAIN sessions)
        /\ Cardinality(D) \in Nat /\ Cardinality(DOMAIN sessions) \in Nat
    BY <1>1, FS_Subset, FS_CardinalityType DEF Store
  <2> QED
    BY <2>1, <1>2, StoreAssumption DEF IInv, Capacity
<1>7. RivalsCounted'
  <2> SUFFICES ASSUME NEW s \in D
               PROVE  CapAt(Cardinality(NoOlder(sessions', s)), MaxSessions) <= rivals'[s]
    BY <1>2 DEF RivalsCounted
  <2>1. /\ Cardinality(NoOlder(sessions', s)) \in Nat
        /\ Cardinality(NoOlder(sessions, s)) \in Nat
        /\ Cardinality(NoOlder(sessions', s)) <= Cardinality(NoOlder(sessions, s))
    BY <1>1, <1>2, FewerRivals
  <2>2. CapAt(Cardinality(NoOlder(sessions, s)), MaxSessions) <= rivals[s]
    BY DEF IInv, RivalsCounted
  <2> QED
    BY <2>1, <2>2, <1>3, <1>1, StoreAssumption DEF CapAt, TypeOK
<1> QED
  BY <1>4, <1>5, <1>6, <1>7 DEF IInv

(* Opening a session: the one action that adds to the map. *)
LEMMA OpeningStep ==
  ASSUME IInv, NEW s \in Session, NEW o \in Obs, AppendNew(s, o)
  PROVE  IInv'
<1>1. Store(sessions) /\ TypeOK /\ now \in Nat /\ now' = now
  BY DEF IInv, TypeOK, Store, AppendNew
<1>2. PICK E \in MadeRoom(sessions, now) : sessions' = Opened(E, now, s, o)
  BY DEF AppendNew
<1>3. /\ Store(E) /\ DOMAIN E \subseteq DOMAIN sessions
      /\ \A r \in DOMAIN E : E[r] = sessions[r]
      /\ MaxSessions > 0 => Cardinality(DOMAIN E) < MaxSessions
  BY <1>1, RoomIsMade DEF IInv, Capacity
<1>4. s \notin DOMAIN E
  BY <1>3 DEF AppendNew
<1>5. /\ DOMAIN sessions' = DOMAIN E \cup {s}
      /\ sessions'[s] = [created |-> now, obs |-> <<o>>]
      /\ \A r \in DOMAIN E : sessions'[r] = sessions[r]
  BY <1>2, <1>3, <1>4 DEF Opened
<1>6. Store(sessions')
  <2>1. [created |-> now, obs |-> <<o>>] \in Record
    BY <1>1 DEF Record
  <2>2. sessions' \in [DOMAIN sessions' -> Record]
    BY <1>2, <1>3, <2>1 DEF Opened, Store
  <2>3. IsFiniteSet(DOMAIN E \cup {s})
    BY <1>3, FS_AddElement DEF Store
  <2> QED
    BY <2>2, <2>3, <1>3, <1>5 DEF Store
<1>7. rivals' \in [DOMAIN sessions' -> Nat]
  <2>1. \A r \in DOMAIN sessions' : IsFiniteSet(NoOlder(sessions', r))
    BY <1>6, FS_Subset DEF NoOlder, Store
  <2>2. Cardinality(NoOlder(sessions', s)) \in Nat
    BY <2>1, <1>5, FS_CardinalityType
  <2>3. \A r \in DOMAIN E : rivals[r] \in Nat
    BY <1>1, <1>3 DEF TypeOK
  <2> QED
    BY <2>2, <2>3, <1>5, StoreAssumption DEF AppendNew, RivalsAfterOpening, CapAt
<1>8. TypeOK' /\ IsFiniteSet(DOMAIN sessions')
  BY <1>1, <1>6, <1>7 DEF TypeOK, Store
<1>9. \A r \in DOMAIN sessions' : sessions'[r].created <= now'
  BY <1>1, <1>3, <1>5 DEF IInv
<1>10. Capacity'
  <2>1. Cardinality(DOMAIN sessions') = Cardinality(DOMAIN E) + 1
    BY <1>3, <1>4, <1>5, FS_AddElement DEF Store
  <2>2. Cardinality(DOMAIN E) \in Nat
    BY <1>3, FS_CardinalityType DEF Store
  <2> QED
    BY <2>1, <2>2, <1>3, StoreAssumption DEF Capacity
<1>11. RivalsCounted'
  <2> SUFFICES ASSUME NEW r \in DOMAIN sessions'
               PROVE  CapAt(Cardinality(NoOlder(sessions', r)), MaxSessions) <= rivals'[r]
    BY DEF RivalsCounted
  <2>1. CASE r = s
    <3>1. rivals'[r] = CapAt(Cardinality(NoOlder(sessions', r)), MaxSessions)
      BY <2>1, <1>5 DEF AppendNew, RivalsAfterOpening
    <3>2. Cardinality(NoOlder(sessions', r)) \in Nat
      BY <1>6, FS_Subset, FS_CardinalityType DEF NoOlder, Store
    <3> QED
      BY <3>1, <3>2, StoreAssumption DEF CapAt
  <2>2. CASE r # s
    <3>1. r \in DOMAIN E
      BY <2>2, <1>5
    <3>2. rivals'[r] = CapAt(rivals[r] + 1, MaxSessions) /\ rivals[r] \in Nat
      BY <3>1, <2>2, <1>1, <1>3, <1>5 DEF AppendNew, RivalsAfterOpening, TypeOK
    <3>3. NoOlder(sessions', r) \subseteq NoOlder(E, r) \cup {s}
      BY <3>1, <1>3, <1>5 DEF NoOlder
    <3>4. IsFiniteSet(NoOlder(E, r)) /\ Cardinality(NoOlder(E, r)) \in Nat
      BY <1>3, FS_Subset, FS_CardinalityType DEF NoOlder, Store
    <3>5. s \notin NoOlder(E, r)
      BY <1>4 DEF NoOlder
    <3>6. /\ IsFiniteSet(NoOlder(E, r) \cup {s})
          /\ Cardinality(NoOlder(E, r) \cup {s}) = Cardinality(NoOlder(E, r)) + 1
      BY <3>4, <3>5, FS_AddElement
    <3>7. /\ Cardinality(NoOlder(sessions', r)) \in Nat
          /\ Cardinality(NoOlder(sessions', r)) <= Cardinality(NoOlder(E, r)) + 1
      BY <3>3, <3>6, FS_Subset, FS_CardinalityType
    <3>8. /\ Cardinality(NoOlder(E, r)) <= Cardinality(NoOlder(sessions, r))
          /\ Cardinality(NoOlder(sessions, r)) \in Nat
      BY <3>1, <1>1, <1>3, FewerRivals
    <3>9. CapAt(Cardinality(NoOlder(sessions, r)), MaxSessions) <= rivals[r]
      BY <3>1, <1>3 DEF IInv, RivalsCounted
    <3> QED
      BY <3>2, <3>4, <3>7, <3>8, <3>9, StoreAssumption DEF CapAt
  <2> QED
    BY <2>1, <2>2
<1> QED
  BY <1>8, <1>9, <1>10, <1>11 DEF IInv

(* Adding to a stored session disturbs nothing but its observations. *)
LEMMA ExtensionStep ==
  ASSUME IInv, NEW s \in Session, NEW o \in Obs, AppendKnown(s, o)
  PROVE  IInv'
<1>1. /\ s \in DOMAIN sessions /\ sessions \in [DOMAIN sessions -> Record]
      /\ now' = now /\ rivals' = rivals
  BY DEF IInv, TypeOK, AppendKnown
<1>2. /\ sessions' \in [DOMAIN sessions -> Record]
      /\ \A r \in DOMAIN sessions : sessions'[r].created = sessions[r].created
  <2>1. CASE Len(sessions[s].obs) < MaxObs
    <3>1. sessions' = [sessions EXCEPT ![s].obs = Append(@, o)]
      BY <2>1 DEF AppendKnown, Added
    <3>2. sessions[s] \in Record
      BY <1>1
    <3>3. Append(sessions[s].obs, o) \in Seq(Obs)
      BY <3>2 DEF Record
    <3> QED
      BY <3>1, <3>2, <3>3, <1>1 DEF Record
  <2>2. CASE ~(Len(sessions[s].obs) < MaxObs)
    BY <2>2, <1>1 DEF AppendKnown, Added
  <2> QED
    BY <2>1, <2>2
<1>3. DOMAIN sessions' = DOMAIN sessions
  BY <1>2
<1>4. \A r \in DOMAIN sessions : NoOlder(sessions', r) = NoOlder(sessions, r)
  BY <1>2, <1>3 DEF NoOlder
<1>5. TypeOK'
  BY <1>1, <1>2, <1>3 DEF IInv, TypeOK
<1>6. IsFiniteSet(DOMAIN sessions') /\ Capacity'
  BY <1>3 DEF IInv, Capacity
<1>7. \A r \in DOMAIN sessions' : sessions'[r].created <= now'
  BY <1>1, <1>2, <1>3 DEF IInv
<1>8. RivalsCounted'
  BY <1>1, <1>3, <1>4 DEF IInv, RivalsCounted
<1> QED
  BY <1>5, <1>6, <1>7, <1>8 DEF IInv

-----------------------------------------------------------------------------
(* Every method of the store, and the clock, preserves the invariant. *)
THEOREM Inductive == IInv /\ [Next]_vars => IInv'
<1> SUFFICES ASSUME IInv, [Next]_vars PROVE IInv'
  OBVIOUS
<1>1. ASSUME UNCHANGED <<sessions, now, rivals>> PROVE IInv'
  BY <1>1 DEF IInv, TypeOK, Capacity, RivalsCounted, NoOlder
<1>2. ASSUME NEW s \in BadId, RejectId(s) PROVE IInv'
  BY <1>1, <1>2 DEF RejectId
<1>3. ASSUME NEW s \in Session, NEW o \in Obs, AppendKnown(s, o) PROVE IInv'
  BY <1>3, ExtensionStep
<1>4. ASSUME NEW s \in Session, NEW o \in Obs, AppendNew(s, o) PROVE IInv'
  BY <1>4, OpeningStep
<1>5. ASSUME NEW s \in Session, GetMissing(s) PROVE IInv'
  BY <1>1, <1>5 DEF GetMissing
<1>6. ASSUME NEW s \in Session, GetExpired(s) PROVE IInv'
  BY <1>6, RemovalStep DEF GetExpired
<1>7. ASSUME NEW s \in Session, GetLive(s) PROVE IInv'
  BY <1>1, <1>7 DEF GetLive
<1>8. ASSUME GC PROVE IInv'
  <2>1. PICK D \in SUBSET DOMAIN sessions : sessions' = Restrict(sessions, D)
    BY <1>8 DEF GC, evictExpired
  <2>2. DOMAIN sessions' = D
    BY <2>1 DEF Restrict
  <2> QED
    BY <1>8, <2>1, <2>2, RemovalStep DEF GC
<1>9. ASSUME Tick PROVE IInv'
  <2>1. /\ now' = now + 1 /\ now \in Nat /\ sessions' = sessions /\ rivals' = rivals
    BY <1>9 DEF Tick, IInv, TypeOK
  <2>2. \A s \in DOMAIN sessions : sessions[s].created \in Nat
    BY DEF IInv, TypeOK, Record
  <2> QED
    BY <2>1, <2>2 DEF IInv, TypeOK, Capacity, RivalsCounted, NoOlder
<1> QED
  BY <1>1, <1>2, <1>3, <1>4, <1>5, <1>6, <1>7, <1>8, <1>9 DEF Next, vars

(* So it holds in every state the store reaches. *)
THEOREM Invariance == Spec => []IInv
BY Initial, Inductive, PTL DEF Spec

(* TypeOK for every value of the constants. *)
THEOREM TypeCorrect == Spec => []TypeOK
<1>1. IInv => TypeOK
  BY DEF IInv
<1> QED
  BY <1>1, Invariance, PTL

(* The cap on sessions for every value of the constants. *)
THEOREM CapacityHolds == Spec => []Capacity
<1>1. IInv => Capacity
  BY DEF IInv
<1> QED
  BY <1>1, Invariance, PTL

-----------------------------------------------------------------------------
(* The session AppendNew evicts alive is one of the oldest of a full map of   *)
(* living sessions, so all the others there, and the new one, count as rivals. *)
LEMMA EvictedAlive ==
  ASSUME IInv, NEW s \in Session, NEW o \in Obs, AppendNew(s, o)
  PROVE  RetentionStep
<1> SUFFICES ASSUME NEW v \in DOMAIN sessions \ DOMAIN sessions', ~Expired(sessions, now, v)
             PROVE  /\ MaxSessions > 0
                    /\ rivals[v] + 1 >= MaxSessions
                    /\ \E r \in DOMAIN sessions' \ DOMAIN sessions : sessions'[r].created = now
  BY DEF RetentionStep
<1> DEFINE X == evictExpired(sessions, now)
<1>1. Store(sessions) /\ now \in Nat /\ rivals[v] \in Nat
  BY DEF IInv, TypeOK, Store
<1>2. PICK E \in MadeRoom(sessions, now) : sessions' = Opened(E, now, s, o)
  BY DEF AppendNew
<1>3. /\ Store(E) /\ DOMAIN sessions' = DOMAIN E \cup {s}
      /\ sessions'[s] = [created |-> now, obs |-> <<o>>]
  BY <1>1, <1>2, RoomIsMade DEF IInv, Capacity, Opened
<1>4. Full(X) /\ v \in Oldest(X)
  BY <1>1, <1>2, <1>3, RoomIsMade DEF IInv, Capacity
<1>5. /\ Store(X) /\ DOMAIN X \subseteq DOMAIN sessions
      /\ \A r \in DOMAIN X : X[r] = sessions[r]
  BY <1>1, RestrictStore DEF evictExpired
<1>6. v \in DOMAIN X /\ DOMAIN X \ {v} \subseteq NoOlder(sessions, v)
  <2>1. v \in DOMAIN X /\ \A r \in DOMAIN X : X[v].created <= X[r].created
    BY <1>4 DEF Oldest
  <2>2. \A r \in DOMAIN X : sessions[r].created \in Nat
    BY <1>1, <1>5 DEF Store, Record
  <2> QED
    BY <2>1, <2>2, <1>5 DEF NoOlder
<1>7. /\ Cardinality(DOMAIN X \ {v}) = Cardinality(DOMAIN X) - 1
      /\ Cardinality(DOMAIN X) \in Nat
  BY <1>5, <1>6, FS_RemoveElement, FS_CardinalityType DEF Store
<1>8. /\ Cardinality(DOMAIN X \ {v}) <= Cardinality(NoOlder(sessions, v))
      /\ Cardinality(NoOlder(sessions, v)) \in Nat
  BY <1>1, <1>6, FS_Subset, FS_CardinalityType DEF NoOlder, Store
<1>9. CapAt(Cardinality(NoOlder(sessions, v)), MaxSessions) <= rivals[v]
  BY DEF IInv, RivalsCounted
<1>10. MaxSessions > 0 /\ rivals[v] + 1 >= MaxSessions
  BY <1>1, <1>4, <1>7, <1>8, <1>9, StoreAssumption DEF Full, CapAt
<1>11. s \in DOMAIN sessions' \ DOMAIN sessions /\ sessions'[s].created = now
  BY <1>3 DEF AppendNew
<1> QED
  BY <1>10, <1>11

(* Retention for every value of the constants. *)
THEOREM RetentionHolds == Spec => Retention
<1>1. ASSUME IInv, [Next]_vars PROVE [RetentionStep]_vars
  <2>1. ASSUME DOMAIN sessions \subseteq DOMAIN sessions' PROVE RetentionStep
    BY <2>1 DEF RetentionStep
  <2>2. CASE UNCHANGED sessions
    BY <2>1, <2>2
  <2>3. ASSUME NEW s \in Session, NEW o \in Obs, AppendKnown(s, o) PROVE RetentionStep
    BY <2>1, <2>3 DEF AppendKnown, Added
  <2>4. ASSUME NEW s \in Session, NEW o \in Obs, AppendNew(s, o) PROVE RetentionStep
    BY <1>1, <2>4, EvictedAlive
  <2>5. ASSUME NEW s \in Session, GetExpired(s) PROVE RetentionStep
    BY <2>5 DEF GetExpired, Restrict, RetentionStep
  <2>6. CASE GC
    BY <2>6 DEF GC, evictExpired, Restrict, RetentionStep
  <2> QED
    BY <1>1, <2>2, <2>3, <2>4, <2>5, <2>6
    DEF Next, vars, RejectId, GetMissing, GetLive, Tick
<1> QED
  BY <1>1, Invariance, PTL DEF Spec, Retention

-----------------------------------------------------------------------------
(* The refinement.  What callers see of the map. *)
Seen == evictExpired(sessions, now)

LEMMA SeenFacts ==
  ASSUME IInv
  PROVE  /\ Seen = [s \in DOMAIN Seen |-> sessions[s]]
         /\ DOMAIN Seen = {s \in DOMAIN sessions : ~Expired(sessions, now, s)}
         /\ Store(Seen) /\ Store(sessions) /\ now \in Nat
         /\ Cardinality(DOMAIN Seen) \in Nat /\ Cardinality(DOMAIN sessions) \in Nat
         /\ Cardinality(DOMAIN Seen) <= Cardinality(DOMAIN sessions)
<1>1. Store(sessions) /\ now \in Nat
  BY DEF IInv, TypeOK, Store
<1>2. /\ Seen = [s \in DOMAIN Seen |-> sessions[s]]
      /\ DOMAIN Seen = {s \in DOMAIN sessions : ~Expired(sessions, now, s)}
  BY DEF Seen, evictExpired, Restrict
<1>3. Store(Seen)
  BY <1>1, <1>2, RestrictStore DEF Seen, evictExpired
<1> QED
  BY <1>1, <1>2, <1>3, FS_Subset, FS_CardinalityType DEF Store

(* The next map, seen at the next instant. *)
LEMMA SeenNext ==
  /\ Seen' = [s \in DOMAIN Seen' |-> sessions'[s]]
  /\ DOMAIN Seen' = {s \in DOMAIN sessions' : ~Expired(sessions', now', s)}
BY DEF Seen, evictExpired, Restrict

(* The registry's cardinalities are ours: one definition, instantiated. *)
LEMMA CrowdedIffFull == Registry!Crowded <=> Full(Seen)
<1>1. Registry!Cardinality(DOMAIN Seen) = Cardinality(DOMAIN Seen)
  BY DEF Registry!Cardinality, Cardinality
<1> QED
  BY <1>1 DEF Registry!Crowded, Full, Seen

(* Append to a stored session extends a living session of the registry, or   *)
(* adds to one that has expired, which the registry calls swallowed.         *)
LEMMA ExtendOrSwallow ==
  ASSUME IInv, NEW s \in Session, NEW o \in Obs, AppendKnown(s, o)
  PROVE  Registry!Extend(s, o) \/ Registry!Swallow(s)
<1>1. /\ s \in DOMAIN sessions /\ now' = now /\ sessions' = Added(sessions, s, o)
      /\ ret' = Registry!Answer("append", s, TRUE, <<>>)
  BY DEF AppendKnown, Answer, Registry!Answer
<1>2. /\ sessions \in [DOMAIN sessions -> Record] /\ sessions[s] \in Record
  BY <1>1, SeenFacts DEF Store
<1>3. sessions' = [sessions EXCEPT ![s] =
                     [created |-> @.created, obs |-> Registry!Appended(@.obs, o)]]
  <2>1. CASE Len(sessions[s].obs) < MaxObs
    <3>1. sessions' = [sessions EXCEPT ![s].obs = Append(@, o)]
      BY <2>1, <1>1 DEF Added
    <3>2. Registry!Appended(sessions[s].obs, o) = Append(sessions[s].obs, o)
      BY <2>1 DEF Registry!Appended
    <3>3. ASSUME NEW q
          PROVE  [sessions[s] EXCEPT !.obs = q] = [created |-> sessions[s].created, obs |-> q]
      BY <1>2 DEF Record
    <3>4. sessions' = [sessions EXCEPT ![s] =
                         [created |-> @.created, obs |-> Append(@.obs, o)]]
      BY <3>1, <3>3, Zenon
    <3> QED
      BY <3>2, <3>4
  <2>2. CASE ~(Len(sessions[s].obs) < MaxObs)
    <3>1. sessions' = sessions
      BY <2>2, <1>1 DEF Added
    <3>2. Registry!Appended(sessions[s].obs, o) = sessions[s].obs
      BY <2>2 DEF Registry!Appended
    <3>3. sessions[s] = [created |-> sessions[s].created, obs |-> sessions[s].obs]
      BY <1>2 DEF Record
    <3> QED
      BY <3>1, <3>2, <3>3, <1>2
  <2> QED
    BY <2>1, <2>2
<1>4. /\ DOMAIN sessions' = DOMAIN sessions
      /\ \A r \in DOMAIN sessions : sessions'[r].created = sessions[r].created
  BY <1>2, <1>3
<1>5. DOMAIN Seen' = DOMAIN Seen
  BY <1>1, <1>4, SeenFacts, SeenNext DEF Expired
<1>6. CASE s \in DOMAIN Seen
  <2>1. Seen' = [Seen EXCEPT ![s].obs = Registry!Appended(@, o)]
    <3>1. \A r \in DOMAIN Seen : r # s => sessions'[r] = sessions[r]
      BY <1>2, <1>3, SeenFacts
    <3>2. sessions'[s] = [sessions[s] EXCEPT !.obs = Registry!Appended(@, o)]
      BY <1>1, <1>2, <1>3 DEF Record
    <3> QED
      BY <3>1, <3>2, <1>5, <1>6, SeenFacts, SeenNext
  <2> QED
    BY <2>1, <1>1, <1>6 DEF Registry!Extend, Seen
<1>7. CASE s \notin DOMAIN Seen
  <2>1. Seen' = Seen
    <3>1. \A r \in DOMAIN Seen : sessions'[r] = sessions[r]
      BY <1>2, <1>3, <1>7, SeenFacts
    <3> QED
      BY <3>1, <1>5, SeenFacts, SeenNext
  <2> QED
    BY <2>1, <1>1, <1>7 DEF Registry!Swallow, Seen
<1> QED
  BY <1>6, <1>7

(* Append to a session the map does not hold opens it in the registry, and    *)
(* displaces what the registry allows it to displace.                         *)
LEMMA OpenImplemented ==
  ASSUME IInv, NEW s \in Session, NEW o \in Obs, AppendNew(s, o)
  PROVE  Registry!Open(s, o)
<1>1. /\ s \notin DOMAIN sessions /\ now' = now
      /\ ret' = Registry!Answer("append", s, TRUE, <<>>)
  BY DEF AppendNew, Answer, Registry!Answer
<1>2. PICK E \in MadeRoom(sessions, now) : sessions' = Opened(E, now, s, o)
  BY DEF AppendNew
<1>3. PICK D \in Registry!Displaced :
        /\ DOMAIN E \subseteq DOMAIN sessions
        /\ \A r \in DOMAIN E : E[r] = sessions[r]
        /\ {r \in DOMAIN E : ~Expired(sessions, now, r)} = DOMAIN Seen \ D
  <2>1. CASE ~Full(sessions)
    <3>1. E = sessions
      BY <1>2, <2>1 DEF MadeRoom
    <3>2. Registry!Displaced = {{}}
      BY <2>1, SeenFacts, CrowdedIffFull, StoreAssumption DEF Full, Registry!Displaced
    <3> QED
      BY <3>1, <3>2, SeenFacts
  <2>2. CASE Full(sessions) /\ ~Full(Seen)
    <3>1. E = Seen
      BY <1>2, <2>2 DEF MadeRoom, Seen
    <3>2. Registry!Displaced = {{}}
      BY <2>2, CrowdedIffFull DEF Registry!Displaced
    <3> QED
      BY <3>1, <3>2, SeenFacts
  <2>3. CASE Full(sessions) /\ Full(Seen)
    <3>1. PICK x \in Oldest(Seen) : E = Restrict(Seen, DOMAIN Seen \ {x})
      BY <1>2, <2>3 DEF MadeRoom, evictOldest, Seen
    <3>2. {x} \in Registry!Displaced
      BY <2>3, <3>1, CrowdedIffFull DEF Oldest, Registry!Displaced, Registry!Oldest, Seen
    <3>3. DOMAIN E = DOMAIN Seen \ {x} /\ \A r \in DOMAIN E : E[r] = Seen[r]
      BY <3>1 DEF Restrict
    <3> QED
      BY <3>2, <3>3, SeenFacts
  <2> QED
    BY <2>1, <2>2, <2>3
<1>4. /\ DOMAIN sessions' = DOMAIN E \cup {s}
      /\ sessions'[s] = [created |-> now, obs |-> <<o>>]
      /\ \A r \in DOMAIN E : sessions'[r] = sessions[r]
  BY <1>1, <1>2, <1>3 DEF Opened
<1>5. DOMAIN Seen' = (DOMAIN Seen \ D) \cup {s}
  <2>1. ~Expired(sessions', now', s)
    BY <1>1, <1>4, SeenFacts, StoreAssumption DEF Expired
  <2>2. \A r \in DOMAIN E : Expired(sessions', now', r) <=> Expired(sessions, now, r)
    BY <1>1, <1>4 DEF Expired
  <2> QED
    BY <2>1, <2>2, <1>3, <1>4, SeenNext
<1>6. Seen' = [r \in (DOMAIN Seen \ D) \cup {s} |->
                 IF r = s THEN [created |-> now, obs |-> <<o>>] ELSE Seen[r]]
  <2>1. \A r \in DOMAIN Seen \ D : sessions'[r] = Seen[r] /\ r # s
    BY <1>1, <1>3, <1>4, SeenFacts
  <2> QED
    BY <2>1, <1>4, <1>5, SeenNext
<1>7. s \notin DOMAIN Seen
  BY <1>1, SeenFacts
<1> QED
  BY <1>1, <1>6, <1>7 DEF Registry!Open, Seen

(* The store implements the registry, for every value of the constants. *)
THEOREM Implements == Spec => ImplementsRegistry
<1>1. Init => Registry!Init
  <2> SUFFICES ASSUME Init PROVE Registry!Init
    OBVIOUS
  <2>1. evictExpired(sessions, now) = <<>>
    BY DEF Init, evictExpired, Restrict
  <2> QED
    BY <2>1 DEF Init, Answer, Registry!Init, Registry!Answer
<1>2. ASSUME IInv, [Next]_vars PROVE [Registry!Next]_(Registry!vars)
  <2>1. ASSUME sessions' = sessions, now' = now PROVE Seen' = Seen
    BY <2>1 DEF Seen, evictExpired, Restrict, Expired
  <2>2. ASSUME NEW s \in BadId, RejectId(s) PROVE Registry!Refuse(s)
    BY <2>1, <2>2 DEF RejectId, Answer, Registry!Refuse, Registry!Answer, Seen
  <2>3. ASSUME NEW s \in Session, NEW o \in Obs, AppendKnown(s, o)
        PROVE  Registry!Extend(s, o) \/ Registry!Swallow(s)
    BY <1>2, <2>3, ExtendOrSwallow
  <2>4. ASSUME NEW s \in Session, NEW o \in Obs, AppendNew(s, o) PROVE Registry!Open(s, o)
    BY <1>2, <2>4, OpenImplemented
  <2>5. ASSUME NEW s \in Session, GetMissing(s) PROVE Registry!Read(s)
    BY <1>2, <2>1, <2>5, SeenFacts DEF GetMissing, Answer, Registry!Read, Registry!Answer, Seen
  <2>6. ASSUME NEW s \in Session, GetExpired(s) PROVE Registry!Read(s)
    <3>1. now' = now /\ sessions' = [r \in DOMAIN sessions \ {s} |-> sessions[r]]
      BY <2>6 DEF GetExpired, Restrict
    <3>2. s \notin DOMAIN Seen
      BY <1>2, <2>6, SeenFacts DEF GetExpired
    <3>3. \A r \in DOMAIN sessions \ {s} :
            Expired(sessions', now', r) <=> Expired(sessions, now, r)
      BY <3>1 DEF Expired
    <3>4. DOMAIN Seen' = DOMAIN Seen
      BY <1>2, <3>1, <3>2, <3>3, SeenFacts, SeenNext
    <3>5. Seen' = Seen
      BY <1>2, <3>1, <3>2, <3>4, SeenFacts, SeenNext
    <3> QED
      BY <1>2, <2>6, <3>1, <3>2, <3>5
      DEF GetExpired, Answer, Registry!Read, Registry!Answer, Seen
  <2>7. ASSUME NEW s \in Session, GetLive(s) PROVE Registry!Read(s)
    BY <1>2, <2>1, <2>7, SeenFacts DEF GetLive, Answer, Registry!Read, Registry!Answer, Seen
  <2>8. ASSUME GC PROVE UNCHANGED Registry!vars
    <3>1. /\ now' = now /\ ret' = ret
          /\ sessions' = [r \in DOMAIN Seen |-> sessions[r]]
      BY <1>2, <2>8, SeenFacts DEF GC, Seen
    <3>2. Seen' = Seen
      BY <1>2, <3>1, SeenFacts, SeenNext DEF Expired
    <3> QED
      BY <3>1, <3>2 DEF Registry!vars, Seen
  <2>9. ASSUME Tick PROVE Registry!Pass
    <3>1. /\ now' = now + 1 /\ now \in Nat /\ sessions' = sessions /\ ret' = ret
      BY <1>2, <2>9, SeenFacts DEF Tick
    <3>2. \A s \in DOMAIN sessions : sessions[s].created \in Nat
      BY <1>2, SeenFacts DEF Store, Record
    <3>3. DOMAIN Seen' = {s \in DOMAIN Seen : Registry!Young(s, now + 1)}
      <4>1. \A s \in DOMAIN Seen : Seen[s] = sessions[s]
        BY <1>2, SeenFacts
      <4>2. \A s \in DOMAIN Seen :
              Registry!Young(s, now + 1) <=> ~Expired(sessions', now', s)
        BY <1>2, <3>1, <3>2, <4>1, SeenFacts, StoreAssumption
        DEF Expired, Registry!Young, Seen
      <4>3. \A s \in DOMAIN sessions :
              Expired(sessions, now, s) => Expired(sessions', now', s)
        BY <3>1, <3>2, StoreAssumption DEF Expired
      <4> QED
        BY <1>2, <3>1, <4>2, <4>3, SeenFacts, SeenNext
    <3>4. Seen' = [s \in {r \in DOMAIN Seen : Registry!Young(r, now + 1)} |-> Seen[s]]
      BY <1>2, <3>1, <3>3, SeenFacts, SeenNext
    <3> QED
      BY <3>1, <3>4 DEF Registry!Pass, Seen
  <2>10. CASE UNCHANGED vars
    BY <2>1, <2>10 DEF vars, Registry!vars, Seen
  <2> QED
    BY <1>2, <2>2, <2>3, <2>4, <2>5, <2>6, <2>7, <2>8, <2>9, <2>10 DEF Next, Registry!Next
<1> QED
  BY <1>1, <1>2, Invariance, PTL DEF Spec, ImplementsRegistry, Registry!Spec
=============================================================================
