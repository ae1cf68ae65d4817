--------------------------- MODULE SessionRegistry ---------------------------
(***************************************************************************)
(* What the probe's session store promises to the handlers and to the      *)
(* client (internal/proto/store.go), with no mention of when the memory of *)
(* a dead session is given back.                                           *)
(*                                                                         *)
(* Only sessions younger than TTL exist here.  A session comes to life     *)
(* with its first observation, lives for TTL whatever is added to it, and  *)
(* is cut short in one case only: the registry holds MaxSessions living    *)
(* sessions, one more is opened, and it is among the oldest of them.       *)
(***************************************************************************)
EXTENDS Naturals, Sequences, FiniteSets

CONSTANTS Session,      \* identifiers ValidSessionID accepts
          BadId,        \* identifiers it rejects
          Obs,          \* observations
          TTL,          \* lifetime of a session, 0 for no limit
          MaxSessions,  \* cap on sessions, 0 for none
          MaxObs        \* cap on the observations of one session

VARIABLES live,  \* living session |-> its creation time and observations
          now,
          ret    \* the answer of the last operation

vars == <<live, now, ret>>

Appended(seq, o) == IF Len(seq) < MaxObs THEN Append(seq, o) ELSE seq

Answer(op, id, ok, obs) == [op |-> op, id |-> id, ok |-> ok, obs |-> obs]

Crowded == MaxSessions > 0 /\ Cardinality(DOMAIN live) >= MaxSessions

Oldest == {s \in DOMAIN live :
             \A r \in DOMAIN live : live[s].created <= live[r].created}

(* The sets of sessions that opening one more may cut short. *)
Displaced == IF Crowded THEN {{s} : s \in Oldest} ELSE {{}}

Young(s, t) == TTL > 0 => t <= live[s].created + TTL

-----------------------------------------------------------------------------
Init == live = <<>> /\ now = 0 /\ ret = Answer("none", "none", FALSE, <<>>)

Refuse(s) ==
  /\ s \in BadId
  /\ \E op \in {"append", "get"} : ret' = Answer(op, s, FALSE, <<>>)
  /\ UNCHANGED <<live, now>>

Extend(s, o) ==
  /\ s \in DOMAIN live
  /\ live' = [live EXCEPT ![s].obs = Appended(@, o)]
  /\ ret' = Answer("append", s, TRUE, <<>>)
  /\ UNCHANGED now

Open(s, o) ==
  /\ s \notin DOMAIN live
  /\ \E D \in Displaced :
       live' = [r \in (DOMAIN live \ D) \cup {s} |->
                  IF r = s THEN [created |-> now, obs |-> <<o>>] ELSE live[r]]
  /\ ret' = Answer("append", s, TRUE, <<>>)
  /\ UNCHANGED now

(* An observation for a session that is no longer alive may be lost although *)
(* the answer says it was taken: the store may still hold the dead session.  *)
Swallow(s) ==
  /\ s \in Session \ DOMAIN live
  /\ ret' = Answer("append", s, TRUE, <<>>)
  /\ UNCHANGED <<live, now>>

Read(s) ==
  /\ s \in Session
  /\ ret' = IF s \in DOMAIN live THEN Answer("get", s, TRUE, live[s].obs)
                                 ELSE Answer("get", s, FALSE, <<>>)
  /\ UNCHANGED <<live, now>>

Pass ==
  /\ now' = now + 1
  /\ live' = [s \in {r \in DOMAIN live : Young(r, now + 1)} |-> live[s]]
  /\ UNCHANGED ret

Next ==
  \/ \E s \in BadId : Refuse(s)
  \/ \E s \in Session, o \in Obs : Extend(s, o) \/ Open(s, o)
  \/ \E s \in Session : Swallow(s) \/ Read(s)
  \/ Pass

Spec == Init /\ [][Next]_vars
=============================================================================
