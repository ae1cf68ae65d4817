------------------------------ MODULE NatTestProofs ------------------------------
(***************************************************************************)
(* The NAT classification, for every NAT, every limit of the probe, with   *)
(* and without a second IP, and any network: what the label says of the    *)
(* mapping is right, an answer implies a record, and what the test comes   *)
(* to is what the rest of the client takes it for; and on a calm network,  *)
(* against a probe with one IP, the test completes with the right label.   *)
(***************************************************************************)
EXTENDS NatTest, Minimum, TLAPS

(* The datagram of a step, the probe's answer to it and its record. *)
Dest(i) == Target(Script[i].port)

Sent(i) ==
  [leg |-> "out", step |-> i, src |-> External(Dest(i)), dst |-> Dest(i),
   kind |-> Script[i].kind, valid |-> TRUE, len |-> 1]

Reply(i) ==
  [leg |-> "back", step |-> i, dst |-> External(Dest(i)),
   src |-> SocketAt(ReplySocket(Script[i].port, Script[i].kind))]

Record(i) ==
  [port |-> Script[i].port, kind |-> Script[i].kind, src |-> External(Dest(i)), step |-> i,
   replyFrom |-> ReplyFrom(Script[i].port, Script[i].kind)]

(* There is nothing anywhere but these, and nothing of a later step; what the *)
(* n-th read returned is no answer to a later datagram than the n-th.         *)
FromScript ==
  /\ \A d \in flight : \E i \in 1..step : d = Sent(i) \/ d = Reply(i)
  /\ \A n \in DOMAIN inbox : \E i \in 1..step : inbox[n] = Reply(i)
  /\ \A n \in DOMAIN log : \E i \in 1..step : log[n] = Record(i)
  /\ \A n \in DOMAIN facts : \A a \in facts[n].answer : \E i \in 1..n : a = Reply(i)

(* The facts are those of the steps so far, each with the source address the  *)
(* NAT uses towards the port of its step.                                     *)
FactsOfSteps ==
  /\ pc \in {"send", "read"} => Len(facts) = step - 1
  /\ pc \in {"pull", "done"} => Len(facts) = step
  /\ Len(facts) <= step
  /\ \A n \in DOMAIN facts : n < step \/ pc = "done" => facts[n].src = External(Dest(n))

(* The label is the judgment of facts 1, 3 and 4. *)
Judged ==
  pc = "done" =>
    /\ step = Len(Script)
    /\ label = natJudgment(localKnown, External(Dest(1)).ip, External(Dest(1)).port,
                           External(Dest(3)).port, facts[4].received, SecondIP, FALSE)

IInv == TypeOK /\ FromScript /\ FactsOfSteps /\ AnsweredIsRecorded /\ Judged

(* The bindings are those of the steps so far. *)
Binding(i) == [ext |-> External(Dest(i)), dst |-> Dest(i)]

Opened ==
  /\ \A i \in 1..step : i < step \/ pc \in {"read", "pull"} => Binding(i) \in opened
  /\ \A b \in opened : \E i \in 1..step : b = Binding(i)

(* A record is of a port that is reached, and there is one of the port of     *)
(* every step that is over.                                                   *)
LogArrived == \A n \in DOMAIN log : log[n].port \in Arriving

StepsSeen ==
  \A i \in 1..step : i < step \/ pc = "done" => \E n \in DOMAIN log : log[n].port = Script[i].port

(* On a calm network one datagram is under way at a time, from its sending to *)
(* the read of its answer, if its port is reached and the answer passes the   *)
(* NAT: an echo comes back from where it was sent to, the answer that is not  *)
(* one from the port the third datagram was sent to.                          *)
Recorded == \E n \in DOMAIN log : log[n] = Record(step)
Reaches(i) == Script[i].port \in Arriving
Passes(i) == Script[i].kind = "echo" \/ nat.mapping # "perDest" \/ nat.filter # "port"

OneAtATime ==
  calm =>
    /\ pc = "failed" => ~Reaches(step)
    /\ pc = "send" => flight = {} /\ inbox = <<>>
    /\ pc = "read" =>
         \/ flight = {Sent(step)} /\ inbox = <<>>
         \/ flight = {Reply(step)} /\ inbox = <<>> /\ Recorded
         \/ flight = {} /\ inbox = <<Reply(step)>> /\ Recorded /\ Reaches(step) /\ Passes(step)
         \/ flight = {} /\ inbox = <<>> /\ (Reaches(step) => Recorded /\ ~Passes(step))
    /\ pc = "pull" => flight = {} /\ inbox = <<>> /\ (Reaches(step) => Recorded)
    /\ \A n \in DOMAIN facts : facts[n].received <=> Reaches(n) /\ Passes(n)

-----------------------------------------------------------------------------
(* A set of positions that is not empty has a last one. *)
LEMMA LastExists ==
  ASSUME NEW k \in Nat, NEW S \in SUBSET (1..k), S # {}
  PROVE  \E i \in S : \A j \in S : j <= i
<1> DEFINE T == {k - i : i \in S}
<1>1. T \subseteq Nat /\ T # {}
  <2>1. \A i \in S : k - i \in Nat
    OBVIOUS
  <2>2. PICK i \in S : TRUE
    OBVIOUS
  <2>3. k - i \in T
    OBVIOUS
  <2> QED
    BY <2>1, <2>3
<1>2. \E x \in T : \A y \in T : x <= y
  <2> HIDE DEF T
  <2> QED
    BY <1>1, NatMinimum
<1>3. PICK x \in T : \A y \in T : x <= y
  BY <1>2
<1>4. PICK i \in S : x = k - i
  BY <1>3
<1>5. ASSUME NEW j \in S PROVE j <= i
  <2>1. k - i <= k - j
    BY <1>3, <1>4
  <2> QED
    BY <2>1
<1> QED
  BY <1>5

(* The script, entry by entry. *)
LEMMA ScriptFacts ==
  /\ Len(Script) \in {4, 5} /\ DOMAIN Script = 1..Len(Script)
  /\ DOMAIN Script \subseteq 1..5 /\ {1, 2, 3, 4} \subseteq DOMAIN Script
  /\ ~SecondIP => Len(Script) = 4
  /\ \A i \in DOMAIN Script : Script[i].port \in Ports /\ Script[i].kind \in {"echo", "nat"}
  /\ Script[1].port = "udp" /\ Script[1].kind = "echo"
  /\ Script[2].port = "udp" /\ Script[2].kind = "echo"
  /\ Script[3].port = "nat" /\ Script[3].kind = "echo"
  /\ Script[4].port = "udp" /\ Script[4].kind = "nat"
  /\ \A i \in DOMAIN Script : Script[i].kind = "nat" => i \in {4, 5}
  /\ \A i \in DOMAIN Script : Script[i].port = "nat" => i = 3
<1>1. CASE SecondIP
  BY <1>1 DEF Script, Ports
<1>2. CASE ~SecondIP
  BY <1>2 DEF Script, Ports
<1> QED
  BY <1>1, <1>2

(* The steps up to one of the script are steps of the script. *)
LEMMA StepFacts ==
  ASSUME NEW s \in DOMAIN Script
  PROVE  s \in Nat /\ s \in 1..s /\ s >= 1 /\ \A i \in 1..s : i \in DOMAIN Script
<1>1. Len(Script) \in Nat /\ DOMAIN Script = 1..Len(Script)
  BY ScriptFacts
<1> QED
  BY <1>1

(* Addresses: a datagram to a port's address reaches at most the socket of    *)
(* that port, and the NAT gives every destination an address.                 *)
LEMMA AddressFacts ==
  ASSUME nat \in [mapping : Mappings, filter : Filters]
  PROVE  /\ \A p, q \in Ports : Target(p) = SocketAt(q) => p = q
         /\ \A i \in DOMAIN Script : External(Dest(i)) \in Addresses
         /\ \A i \in DOMAIN Script : Dest(i) \in {Target(p) : p \in Ports}
         /\ External(Dest(1)).ip = "local" <=> nat.mapping = "none"
         /\ External(Dest(1)).port # External(Dest(3)).port <=> nat.mapping = "perDest"
<1>1. \A p, q \in Ports : Target(p) = SocketAt(q) => p = q
  BY DEF Target, SocketAt
<1>2. \A i \in DOMAIN Script : External(Dest(i)) \in Addresses
  BY DEF External, Addresses
<1>3. \A i \in DOMAIN Script : Dest(i) \in {Target(p) : p \in Ports}
  BY ScriptFacts DEF Dest
<1>4. Dest(1) = Target("udp") /\ Dest(3) # Target("udp")
  BY ScriptFacts DEF Dest, Target
<1>5. nat.mapping \in {"none", "one", "perDest"}
  BY DEF Mappings
<1> QED
  BY <1>1, <1>2, <1>3, <1>4, <1>5 DEF External

(* What the script sends, and what comes of it, is of the right kind. *)
LEMMA MessageTypes ==
  ASSUME nat \in [mapping : Mappings, filter : Filters], NEW i \in DOMAIN Script
  PROVE  /\ Sent(i) \in Datagrams /\ Reply(i) \in Answers
         /\ Record(i) \in [port : Ports, kind : {"echo", "nat"}, src : Addresses,
                           replyFrom : {"same", "other-port", "other-ip"}, step : DOMAIN Script]
         /\ Sent(i).leg = "out" /\ Reply(i).leg = "back"
<1>1. Script[i].port \in Ports /\ Script[i].kind \in {"echo", "nat"}
  BY ScriptFacts
<1>2. External(Dest(i)) \in Addresses /\ Dest(i) \in {Target(p) : p \in Ports}
  BY AddressFacts
<1>3. ReplySocket(Script[i].port, Script[i].kind) \in Ports
  BY <1>1 DEF ReplySocket, Ports
<1>4. ReplyFrom(Script[i].port, Script[i].kind) \in {"same", "other-port", "other-ip"}
  BY DEF ReplyFrom
<1> QED
  BY <1>1, <1>2, <1>3, <1>4 DEF Sent, Reply, Record, Datagrams, Answers

(* They depend on the NAT only. *)
LEMMA MessagesKept ==
  ASSUME nat' = nat
  PROVE  \A i : /\ Sent(i)' = Sent(i) /\ Reply(i)' = Reply(i) /\ Record(i)' = Record(i)
                /\ External(Dest(i))' = External(Dest(i))
BY DEF Sent, Reply, Record, External, Dest

-----------------------------------------------------------------------------
(* What can be taken from the front of a sequence that is not empty. *)
LEMMA FrontFacts ==
  ASSUME NEW S, NEW q \in Seq(S), q # <<>>
  PROVE  /\ Head(q) \in S /\ 1 \in DOMAIN q /\ Head(q) = q[1]
         /\ Tail(q) \in Seq(S)
         /\ \A n \in DOMAIN Tail(q) : n + 1 \in DOMAIN q /\ Tail(q)[n] = q[n + 1]
OBVIOUS

LEMMA InitHolds ==
  ASSUME Init PROVE IInv /\ Opened
<1>1. TypeOK
  <2>1. localKnown \in BOOLEAN /\ step = 1 /\ 1 \in DOMAIN Script
    <3>1. localKnown \in BOOLEAN
      BY DEF Init
    <3> QED
      BY <3>1, ScriptFacts DEF Init
  <2>2. inbox = <<>> /\ log = <<>> /\ facts = <<>> /\ flight = {} /\ opened = {}
    BY DEF Init
  <2> QED
    BY <2>1, <2>2 DEF Init, TypeOK
<1>2. FromScript /\ FactsOfSteps /\ AnsweredIsRecorded /\ Judged
  BY DEF Init, FromScript, FactsOfSteps, AnsweredIsRecorded, Judged
<1>3. Opened
  BY DEF Init, Opened
<1> QED
  BY <1>1, <1>2, <1>3 DEF IInv

(* The datagram that is sent is the one of this step. *)
LEMMA SendStep ==
  ASSUME IInv, Send PROVE IInv'
<1>1. /\ pc = "send" /\ pc' = "read" /\ flight' = flight \cup {Sent(step)}
      /\ opened' = opened \cup {[ext |-> External(Dest(step)), dst |-> Dest(step)]}
      /\ UNCHANGED <<nat, localKnown, calm, step, inbox, log, facts, label>>
  BY DEF Send, Sent, Dest, env
<1>2. nat \in [mapping : Mappings, filter : Filters] /\ step \in DOMAIN Script /\ step \in 1..step
  BY StepFacts DEF IInv, TypeOK
<1>3. TypeOK'
  <2>1. Sent(step) \in Datagrams /\ External(Dest(step)) \in Addresses
        /\ Dest(step) \in {Target(p) : p \in Ports}
    BY <1>2, MessageTypes, AddressFacts
  <2>2. opened' \subseteq [ext : Addresses, dst : {Target(p) : p \in Ports}]
    <3>1. [ext |-> External(Dest(step)), dst |-> Dest(step)]
            \in [ext : Addresses, dst : {Target(p) : p \in Ports}]
      BY <2>1
    <3> QED
      BY <1>1, <3>1 DEF IInv, TypeOK
  <2>3. flight' \subseteq Datagrams \cup Answers
    BY <1>1, <2>1 DEF IInv, TypeOK
  <2> QED
    BY <1>1, <2>2, <2>3 DEF IInv, TypeOK
<1>4. FromScript'
  BY <1>1, <1>2, MessagesKept DEF IInv, FromScript
<1>5. FactsOfSteps' /\ Judged'
  BY <1>1, MessagesKept DEF IInv, FactsOfSteps, Judged
<1>6. AnsweredIsRecorded'
  <2>1. {d \in flight' : d.leg = "back"} = {d \in flight : d.leg = "back"}
    BY <1>1, <1>2, MessageTypes
  <2> QED
    BY <1>1, <2>1 DEF IInv, AnsweredIsRecorded
<1> QED
  BY <1>3, <1>4, <1>5, <1>6 DEF IInv

(* A read, with an answer or without, adds the fact of this step. *)
LEMMA ReadStep ==
  ASSUME IInv, Read \/ ReadTimeout PROVE IInv'
<1>1. /\ pc = "read" /\ pc' = "pull"
      /\ UNCHANGED <<nat, localKnown, calm, step, opened, flight, log, label>>
  BY DEF Read, ReadTimeout, env
<1>2. step \in Nat /\ step \in DOMAIN Script /\ inbox \in Seq(Answers)
      /\ Len(facts) = step - 1
  BY <1>1, StepFacts DEF IInv, TypeOK, FactsOfSteps
<1> DEFINE Fact == [received : BOOLEAN, answer : SUBSET Answers, src : Addresses,
                    replyFrom : {"", "same", "other-port", "other-ip"}]
<1>3. PICK f \in Fact :
        /\ facts' = Append(facts, f)
        /\ \A a \in f.answer : \E n \in DOMAIN inbox : a = inbox[n]
  <2>1. CASE Read
    <3>0. inbox # <<>>
      BY <2>1 DEF Read
    <3>1. Head(inbox) \in Answers /\ 1 \in DOMAIN inbox /\ Head(inbox) = inbox[1]
      BY <1>2, <3>0, FrontFacts
    <3> DEFINE f == [received |-> TRUE, answer |-> {Head(inbox)},
                     src |-> [ip |-> "", port |-> 0], replyFrom |-> ""]
    <3>2. f \in Fact
      BY <3>1 DEF Addresses
    <3>3. facts' = Append(facts, f)
      BY <2>1 DEF Read
    <3>4. \A a \in f.answer : \E n \in DOMAIN inbox : a = inbox[n]
      BY <3>1
    <3> HIDE DEF f
    <3> QED
      BY <3>2, <3>3, <3>4
  <2>2. CASE ReadTimeout
    <3> DEFINE f == [received |-> FALSE, answer |-> {},
                     src |-> [ip |-> "", port |-> 0], replyFrom |-> ""]
    <3>1. f \in Fact
      BY DEF Addresses
    <3>2. facts' = Append(facts, f)
      BY <2>2 DEF ReadTimeout
    <3>3. \A a \in f.answer : \E n \in DOMAIN inbox : a = inbox[n]
      OBVIOUS
    <3> HIDE DEF f
    <3> QED
      BY <3>1, <3>2, <3>3
  <2> QED
    BY <2>1, <2>2
<1>4. facts \in Seq(Fact)
  BY DEF IInv, TypeOK
<1> HIDE DEF Fact
<1>5. /\ facts' \in Seq(Fact) /\ Len(facts') = step /\ DOMAIN facts' = 1..step
      /\ DOMAIN facts = 1..(step - 1) /\ facts'[step] = f
      /\ \A n \in DOMAIN facts : facts'[n] = facts[n]
  BY <1>2, <1>3, <1>4
<1>6. inbox' \in Seq(Answers) /\ \A n \in DOMAIN inbox' : \E m \in DOMAIN inbox : inbox'[n] = inbox[m]
  <2>1. CASE Read
    <3>1. inbox # <<>> /\ inbox' = Tail(inbox)
      BY <2>1 DEF Read
    <3> QED
      BY <1>2, <3>1, FrontFacts
  <2>2. CASE ReadTimeout
    <3>1. inbox' = inbox
      BY <2>2 DEF ReadTimeout
    <3> QED
      BY <1>2, <3>1
  <2> QED
    BY <2>1, <2>2
<1>7. TypeOK'
  BY <1>1, <1>5, <1>6 DEF IInv, TypeOK, Fact
<1>8. FromScript'
  <2>1. ASSUME NEW n \in DOMAIN facts', NEW a \in facts'[n].answer
        PROVE  \E i \in 1..n : a = Reply(i)
    <3>1. CASE n = step
      BY <1>3, <1>5, <2>1, <3>1 DEF IInv, FromScript
    <3>2. CASE n # step
      <4>1. n \in DOMAIN facts
        BY <1>2, <1>5, <3>2
      <4> QED
        BY <1>5, <2>1, <4>1 DEF IInv, FromScript
    <3> QED
      BY <3>1, <3>2
  <2>2. \A n \in DOMAIN inbox' : \E i \in 1..step : inbox'[n] = Reply(i)
    BY <1>6 DEF IInv, FromScript
  <2> QED
    BY <1>1, <2>1, <2>2, MessagesKept DEF IInv, FromScript
<1>9. FactsOfSteps' /\ Judged'
  BY <1>1, <1>2, <1>5, MessagesKept DEF IInv, FactsOfSteps, Judged
<1>10. AnsweredIsRecorded'
  <2>1. \A n \in DOMAIN facts' : \A a \in facts'[n].answer :
          (\E m \in DOMAIN inbox : a = inbox[m]) \/ (\E m \in DOMAIN facts : a \in facts[m].answer)
    <3>1. ASSUME NEW n \in DOMAIN facts', n # step PROVE n \in DOMAIN facts
      BY <1>2, <1>5, <3>1
    <3> QED
      BY <1>3, <1>5, <3>1
  <2> QED
    BY <1>1, <1>6, <2>1 DEF IInv, AnsweredIsRecorded
<1> QED
  BY <1>7, <1>8, <1>9, <1>10 DEF IInv

(* The observation Pull takes for the fact is the record of some step with the *)
(* same port and kind: its source address is the one of this step.             *)
LEMMA LastObservation ==
  ASSUME IInv, Matching(Script[step]) # {}
  PROVE  LET last == CHOOSE i \in Matching(Script[step]) : \A j \in Matching(Script[step]) : j <= i
         IN  /\ last \in DOMAIN log
             /\ log[last].src = External(Dest(step)) /\ log[last].src \in Addresses
             /\ log[last].replyFrom \in {"", "same", "other-port", "other-ip"}
<1> DEFINE found == Matching(Script[step])
           last == CHOOSE i \in found : \A j \in found : j <= i
<1>1. Len(log) \in Nat /\ DOMAIN log = 1..Len(log)
  <2>1. \E S : log \in Seq(S)
    BY DEF IInv, TypeOK
  <2> QED
    BY <2>1
<1>2. found \in SUBSET (1..Len(log)) /\ found # {}
  BY <1>1 DEF Matching
<1>3. \E i \in found : \A j \in found : j <= i
  <2> HIDE DEF found
  <2> QED
    BY <1>1, <1>2, LastExists
<1>4. last \in found
  BY <1>3
<1>5. last \in DOMAIN log /\ log[last].port = Script[step].port
  BY <1>4 DEF Matching
<1>6. PICK i \in 1..step : log[last] = Record(i)
  BY <1>5 DEF IInv, FromScript
<1>7. Script[i].port = Script[step].port /\ log[last].src = External(Dest(i))
      /\ log[last].replyFrom = ReplyFrom(Script[i].port, Script[i].kind)
  BY <1>5, <1>6 DEF Record
<1>8. External(Dest(i)) = External(Dest(step))
  BY <1>7 DEF Dest
<1>9. External(Dest(step)) \in Addresses
  BY AddressFacts DEF IInv, TypeOK
<1>10. ReplyFrom(Script[i].port, Script[i].kind) \in {"", "same", "other-port", "other-ip"}
  BY DEF ReplyFrom
<1> QED
  BY <1>5, <1>7, <1>8, <1>9, <1>10

(* An entry of a sequence is replaced. *)
LEMMA EntryReplaced ==
  ASSUME NEW T, NEW q \in Seq(T), NEW n \in DOMAIN q, NEW r \in T
  PROVE  /\ [q EXCEPT ![n] = r] \in Seq(T) /\ DOMAIN [q EXCEPT ![n] = r] = DOMAIN q
         /\ Len([q EXCEPT ![n] = r]) = Len(q)
         /\ [q EXCEPT ![n] = r][n] = r
         /\ \A m \in DOMAIN q : m # n => [q EXCEPT ![n] = r][m] = q[m]
OBVIOUS

(* The pull completes the fact of this step, and the last one gives the label. *)
LEMMA PullStep ==
  ASSUME IInv, Pull PROVE IInv'
<1> DEFINE found == Matching(Script[step])
           last == CHOOSE i \in found : \A j \in found : j <= i
           src == log[last].src
           from == log[last].replyFrom
           f == [facts EXCEPT ![step].src = src, ![step].replyFrom = from]
           verdict == natJudgment(localKnown, f[1].src.ip, f[1].src.port,
                                  f[3].src.port, f[4].received, SecondIP, FALSE)
           r == [facts[step] EXCEPT !.src = src, !.replyFrom = from]
           Fact == [received : BOOLEAN, answer : SUBSET Answers, src : Addresses,
                    replyFrom : {"", "same", "other-port", "other-ip"}]
<1>1. /\ pc = "pull" /\ found # {} /\ facts' = f
      /\ UNCHANGED <<nat, localKnown, calm, opened, flight, inbox, log>>
      /\ \/ step < Len(Script) /\ pc' = "send" /\ step' = step + 1 /\ label' = label
         \/ ~(step < Len(Script)) /\ pc' = "done" /\ step' = step /\ label' = verdict
  BY DEF Pull, env
<1>2. src = External(Dest(step)) /\ src \in Addresses
      /\ from \in {"", "same", "other-port", "other-ip"}
  BY <1>1, LastObservation
<1>3. facts \in Seq(Fact) /\ Len(facts) = step /\ step \in DOMAIN Script
  BY <1>1 DEF IInv, TypeOK, FactsOfSteps
<1>4. /\ Len(Script) \in Nat /\ DOMAIN Script = 1..Len(Script) /\ Len(Script) >= 4
      /\ step \in Nat /\ step \in 1..step /\ step <= Len(Script) /\ \A i \in 1..step : i \in DOMAIN Script
  <2>1. Len(Script) \in Nat /\ DOMAIN Script = 1..Len(Script) /\ Len(Script) >= 4
    BY ScriptFacts
  <2> HIDE DEF Fact, found, src, from, f, verdict
  <2> QED
    BY <1>3, <2>1, StepFacts
<1>5. DOMAIN facts = 1..step /\ step \in DOMAIN facts /\ facts[step] \in Fact
  <2> HIDE DEF Fact, found, src, from, f, verdict
  <2> QED
    BY <1>3, <1>4
<1>6. f = [facts EXCEPT ![step] = r]
  <2> HIDE DEF Fact, src, from, verdict
  <2> QED
    BY <1>5
<1>7. r \in Fact /\ r.src = src /\ r.answer = facts[step].answer /\ r.received = facts[step].received
  <2> HIDE DEF src, from, f, verdict
  <2> QED
    BY <1>2, <1>5
<1> HIDE DEF found, last, src, from, f, verdict, r, Fact
<1>8. /\ f \in Seq(Fact) /\ Len(f) = step /\ DOMAIN f = 1..step /\ f[step] = r
      /\ \A n \in 1..step : n # step => f[n] = facts[n]
  BY <1>3, <1>5, <1>6, <1>7, EntryReplaced
<1>9. /\ \A n \in 1..step : f[n].answer = facts[n].answer /\ f[n].received = facts[n].received
      /\ \A n \in 1..step : n # step => f[n].src = facts[n].src
      /\ f[step].src = src
  BY <1>7, <1>8
<1>10. step' \in DOMAIN Script /\ step' \in Nat /\ step <= step' /\ pc' \in {"send", "done"}
  BY <1>1, <1>4
<1>11. verdict \in {"none", "direct", "symmetric", "open", "addressRestricted", "portRestricted"}
  BY DEF natJudgment, verdict
<1>12. label' \in {"none", "direct", "symmetric", "open", "addressRestricted", "portRestricted"}
  BY <1>1, <1>11 DEF IInv, TypeOK
<1>13. \A n \in 1..step : f[n].src = External(Dest(n))
  <2>1. ASSUME NEW n \in 1..step, n # step PROVE facts[n].src = External(Dest(n))
    <3>1. n < step /\ n \in DOMAIN facts
      BY <1>4, <1>5, <2>1
    <3> QED
      BY <3>1 DEF IInv, FactsOfSteps
  <2> QED
    BY <1>2, <1>9, <2>1
<1>14. TypeOK'
  BY <1>1, <1>8, <1>10, <1>12 DEF IInv, TypeOK, Fact
<1>15. FromScript'
  <2>1. \A i \in 1..step : i \in 1..step'
    BY <1>4, <1>10
  <2>2. ASSUME NEW n \in DOMAIN facts', NEW a \in facts'[n].answer
        PROVE  \E i \in 1..n : a = Reply(i)
    <3>1. n \in DOMAIN facts /\ a \in facts[n].answer
      BY <1>1, <1>5, <1>8, <1>9, <2>2
    <3> QED
      BY <3>1 DEF IInv, FromScript
  <2> QED
    BY <1>1, <2>1, <2>2, MessagesKept DEF IInv, FromScript
<1>16. FactsOfSteps'
  <2>1. Len(facts') = step /\ DOMAIN facts' = 1..step
    BY <1>1, <1>8
  <2>2. \A n \in DOMAIN facts' : facts'[n].src = External(Dest(n))
    BY <1>1, <1>8, <1>13
  <2>3. \A n \in DOMAIN facts' : facts'[n].src = External(Dest(n))'
    BY <1>1, <2>2, MessagesKept
  <2>4. /\ pc' \in {"send", "read"} => Len(facts') = step' - 1
        /\ pc' \in {"pull", "done"} => Len(facts') = step'
        /\ Len(facts') <= step'
    BY <1>1, <1>4, <2>1
  <2> QED
    BY <2>3, <2>4 DEF FactsOfSteps
<1>17. AnsweredIsRecorded'
  <2>1. \A n \in DOMAIN facts' : n \in DOMAIN facts /\ facts'[n].answer = facts[n].answer
    BY <1>1, <1>5, <1>8, <1>9
  <2>2. UNION {facts'[n].answer : n \in DOMAIN facts'} \subseteq UNION {facts[n].answer : n \in DOMAIN facts}
    BY <2>1
  <2>3. flight' = flight /\ inbox' = inbox /\ log' = log
    BY <1>1
  <2> QED
    BY <2>2, <2>3 DEF IInv, AnsweredIsRecorded
<1>18. Judged'
  <2>1. SUFFICES ASSUME pc' = "done" PROVE Judged'
    BY DEF Judged
  <2>2. step = Len(Script) /\ step' = step /\ label' = verdict
    <3>1. ~(step < Len(Script)) /\ pc' = "done" /\ step' = step /\ label' = verdict
      BY <1>1, <2>1, Zenon
    <3>2. step \in Nat /\ Len(Script) \in Nat /\ step <= Len(Script)
      BY <1>4
    <3>3. ~(step < Len(Script)) => step = Len(Script)
      BY <3>2
    <3> QED
      BY <3>1, <3>3, Zenon
  <2>3. 1 \in 1..step /\ 3 \in 1..step
    BY <1>4, <2>2
  <2>4. f[1].src = External(Dest(1)) /\ f[3].src = External(Dest(3))
    BY <1>13, <2>3
  <2>5. verdict = natJudgment(localKnown, External(Dest(1)).ip, External(Dest(1)).port,
                              External(Dest(3)).port, f[4].received, SecondIP, FALSE)
    BY <2>4 DEF verdict
  <2>6. External(Dest(1))' = External(Dest(1)) /\ External(Dest(3))' = External(Dest(3))
        /\ facts'[4].received = f[4].received /\ localKnown' = localKnown
    BY <1>1, MessagesKept
  <2>7. label' = natJudgment(localKnown', External(Dest(1))'.ip, External(Dest(1))'.port,
                             External(Dest(3))'.port, facts'[4].received, SecondIP, FALSE)
    BY <2>2, <2>5, <2>6
  <2>8. step' = Len(Script)
    BY <2>2
  <2> QED
    BY <2>7, <2>8 DEF Judged, natJudgment
<1> QED
  BY <1>14, <1>15, <1>16, <1>17, <1>18 DEF IInv

(* The test gives up: everything stays where it is. *)
LEMMA FailStep ==
  ASSUME IInv, PullFindsNothing \/ CallFails PROVE IInv'
<1>1. /\ pc' = "failed"
      /\ UNCHANGED <<nat, localKnown, calm, step, opened, flight, inbox, log, facts, label>>
  BY DEF PullFindsNothing, CallFails, env
<1>2. TypeOK'
  BY <1>1 DEF IInv, TypeOK
<1>3. AnsweredIsRecorded' /\ Judged'
  BY <1>1 DEF IInv, AnsweredIsRecorded, Judged
<1>4. FromScript' /\ FactsOfSteps'
  BY <1>1, MessagesKept DEF IInv, FromScript, FactsOfSteps
<1> QED
  BY <1>2, <1>3, <1>4 DEF IInv

-----------------------------------------------------------------------------
(* What the probe makes of a datagram that arrives at one of its sockets. *)
LEMMA ProbeAnswers ==
  ASSUME IInv, NEW d \in flight, d.leg = "out", NEW port \in Ports, d.dst = SocketAt(port)
  PROVE  \E i \in 1..step : /\ d = Sent(i) /\ AnswerTo(d, port) = Reply(i)
                            /\ Observation(d, port) = Record(i)
<1>1. step \in DOMAIN Script /\ nat \in [mapping : Mappings, filter : Filters]
  BY DEF IInv, TypeOK
<1>2. PICK i \in 1..step : d = Sent(i) \/ d = Reply(i)
  BY DEF IInv, FromScript
<1>3. i \in DOMAIN Script /\ Script[i].port \in Ports
  BY <1>1, StepFacts, ScriptFacts
<1>4. d = Sent(i)
  BY <1>1, <1>2, <1>3, MessageTypes
<1>5. Target(Script[i].port) = SocketAt(port)
  BY <1>4 DEF Sent, Dest
<1>6. Script[i].port = port
  BY <1>1, <1>3, <1>5, AddressFacts
<1>7. AnswerTo(d, port) = Reply(i) /\ Observation(d, port) = Record(i)
  BY <1>4, <1>6 DEF Sent, AnswerTo, Reply, Observation, Record
<1> QED
  BY <1>4, <1>7

(* The record is made before the answer, whether or not the datagram comes    *)
(* again.                                                                      *)
LEMMA ArriveStep ==
  ASSUME IInv, NEW d \in flight, Arrive(d) \/ ArriveAgain(d) PROVE IInv'
<1>1. PICK port \in Ports :
        /\ d.leg = "out" /\ d.dst = SocketAt(port)
        /\ log' = Append(log, Observation(d, port))
        /\ flight' \subseteq flight \cup {AnswerTo(d, port)}
        /\ UNCHANGED <<nat, localKnown, calm, pc, step, opened, inbox, facts, label>>
  BY DEF Arrive, ArriveAgain, env
<1>2. PICK i \in 1..step : /\ AnswerTo(d, port) = Reply(i) /\ Observation(d, port) = Record(i)
  BY <1>1, ProbeAnswers
<1> DEFINE Entry == [port : Ports, kind : {"echo", "nat"}, src : Addresses,
                     replyFrom : {"same", "other-port", "other-ip"}, step : DOMAIN Script]
<1>3. Reply(i) \in Answers /\ Record(i) \in Entry /\ Record(i).step = i /\ Reply(i).step = i
  BY StepFacts, MessageTypes DEF IInv, TypeOK, Record, Reply
<1>4. log \in Seq(Entry)
  BY DEF IInv, TypeOK
<1>5. /\ log' \in Seq(Entry) /\ Len(log') = Len(log) + 1 /\ log'[Len(log) + 1] = Record(i)
      /\ \A n \in DOMAIN log : n \in DOMAIN log' /\ log'[n] = log[n]
      /\ \A n \in DOMAIN log' : n \in DOMAIN log \/ n = Len(log) + 1
      /\ Len(log) + 1 \in DOMAIN log'
  <2> HIDE DEF Entry
  <2> QED
    BY <1>1, <1>2, <1>3, <1>4
<1>6. TypeOK'
  BY <1>1, <1>2, <1>3, <1>5 DEF IInv, TypeOK
<1>7. FromScript'
  <2>1. \A n \in DOMAIN log' : \E j \in 1..step : log'[n] = Record(j)
    BY <1>5 DEF IInv, FromScript
  <2>2. \A e \in flight' : \E j \in 1..step : e = Sent(j) \/ e = Reply(j)
    BY <1>1, <1>2 DEF IInv, FromScript
  <2> QED
    BY <1>1, <2>1, <2>2, MessagesKept DEF IInv, FromScript
<1>8. FactsOfSteps' /\ Judged'
  BY <1>1, MessagesKept DEF IInv, FactsOfSteps, Judged
<1>9. AnsweredIsRecorded'
  <2>1. \E n \in DOMAIN log' : log'[n].step = Reply(i).step
    BY <1>3, <1>5
  <2>2. \A e \in {e \in flight' : e.leg = "back"} : e \in {x \in flight : x.leg = "back"} \/ e = Reply(i)
    BY <1>1, <1>2
  <2>3. \A m \in DOMAIN log : \E n \in DOMAIN log' : log'[n].step = log[m].step
    BY <1>5
  <2> QED
    BY <1>1, <2>1, <2>2, <2>3 DEF IInv, AnsweredIsRecorded
<1> QED
  BY <1>6, <1>7, <1>8, <1>9 DEF IInv

(* A datagram nobody takes, and an answer on its way back through the NAT. *)
LEMMA LeaveStep ==
  ASSUME IInv, NEW d \in flight, ArriveNowhere(d) \/ Answer(d) PROVE IInv'
<1>1. /\ flight' = flight \ {d}
      /\ inbox' = inbox \/ (d.leg = "back" /\ inbox' = Append(inbox, d))
      /\ UNCHANGED <<nat, localKnown, calm, pc, step, opened, log, facts, label>>
  BY DEF ArriveNowhere, Answer, env
<1>2. PICK i \in 1..step : d = Sent(i) \/ d = Reply(i)
  BY DEF IInv, FromScript
<1>3. i \in DOMAIN Script /\ inbox \in Seq(Answers) /\ nat \in [mapping : Mappings, filter : Filters]
  BY StepFacts DEF IInv, TypeOK
<1>4. d.leg = "back" => d = Reply(i) /\ d \in Answers
  BY <1>2, <1>3, MessageTypes
<1>5. inbox' \in Seq(Answers)
      /\ \A n \in DOMAIN inbox' : (n \in DOMAIN inbox /\ inbox'[n] = inbox[n])
                                  \/ (inbox'[n] = d /\ d.leg = "back")
  BY <1>1, <1>3, <1>4
<1>6. TypeOK'
  BY <1>1, <1>5 DEF IInv, TypeOK
<1>7. FromScript'
  <2>1. \A n \in DOMAIN inbox' : \E j \in 1..step : inbox'[n] = Reply(j)
    BY <1>4, <1>5 DEF IInv, FromScript
  <2> QED
    BY <1>1, <2>1, MessagesKept DEF IInv, FromScript
<1>8. FactsOfSteps' /\ Judged'
  BY <1>1, MessagesKept DEF IInv, FactsOfSteps, Judged
<1>9. AnsweredIsRecorded'
  BY <1>1, <1>5 DEF IInv, AnsweredIsRecorded
<1> QED
  BY <1>6, <1>7, <1>8, <1>9 DEF IInv

(* Every step keeps the invariant. *)
LEMMA Inductive ==
  ASSUME IInv, [Next]_vars PROVE IInv'
<1>1. CASE UNCHANGED vars
  <2>1. UNCHANGED <<nat, localKnown, calm, pc, step, opened, flight, inbox, log, facts, label>>
    BY <1>1 DEF vars, env
  <2>2. TypeOK'
    BY <2>1 DEF IInv, TypeOK
  <2>3. AnsweredIsRecorded'
    BY <2>1 DEF IInv, AnsweredIsRecorded
  <2>5. Judged'
    <3>1. External(Dest(1))' = External(Dest(1)) /\ External(Dest(3))' = External(Dest(3))
      BY <2>1, MessagesKept
    <3> QED
      BY <2>1, <3>1 DEF IInv, Judged, natJudgment
  <2>4. FromScript' /\ FactsOfSteps'
    BY <2>1, MessagesKept DEF IInv, FromScript, FactsOfSteps
  <2> QED
    BY <2>2, <2>3, <2>4, <2>5 DEF IInv
<1>2. CASE Client
  BY <1>2, SendStep, ReadStep, PullStep, FailStep DEF Client
<1>3. CASE Network
  BY <1>3, ArriveStep, LeaveStep DEF Network
<1> QED
  BY <1>1, <1>2, <1>3 DEF Next, Terminated
(* The invariant in every reachable state. *)
THEOREM Invariance == Spec => []IInv
<1>1. Init => IInv
  BY InitHolds
<1>2. IInv /\ [Next]_vars => IInv'
  BY Inductive
<1> QED
  BY <1>1, <1>2, PTL DEF Spec

(* TypeOK: every variable of the client, the NAT, the network and the probe *)
(* keeps its type, for any session script, limit and duplication bound.     *)
THEOREM TypeCorrect == Spec => []TypeOK
<1>1. IInv => TypeOK
  BY DEF IInv
<1> QED
  BY <1>1, Invariance, PTL

(* MappingSound: whatever datagrams the network loses, repeats or delays, a *)
(* test that ends says "symmetric" of the NATs that map by destination and  *)
(* of no other, and "direct" only where there is none.                      *)
THEOREM LabelsMappingRight == Spec => []MappingSound
<1>1. ASSUME IInv, pc = "done"
      PROVE  /\ label = "symmetric" <=> nat.mapping = "perDest"
             /\ label = "direct" <=> (nat.mapping = "none" /\ localKnown)
  <2> DEFINE ip == External(Dest(1)).ip
             p1 == External(Dest(1)).port
             p2 == External(Dest(3)).port
             r3 == facts[4].received
  <2>1. label = natJudgment(localKnown, ip, p1, p2, r3, SecondIP, FALSE)
    BY <1>1 DEF IInv, Judged
  <2>2. ip = "local" <=> nat.mapping = "none"
    BY <1>1, AddressFacts DEF IInv, TypeOK
  <2>3. p1 # p2 <=> nat.mapping = "perDest"
    BY <1>1, AddressFacts DEF IInv, TypeOK
  <2> HIDE DEF ip, p1, p2, r3
  <2>4. CASE localKnown /\ ip = "local"
    <3>1. label = "direct"
      BY <2>1, <2>4 DEF natJudgment
    <3> QED
      BY <2>2, <2>4, <3>1
  <2>5. CASE ~(localKnown /\ ip = "local") /\ p1 # p2
    <3>1. label = "symmetric"
      BY <2>1, <2>5 DEF natJudgment
    <3> QED
      BY <2>3, <2>5, <3>1
  <2>6. CASE ~(localKnown /\ ip = "local") /\ p1 = p2
    <3>1. label \in {"open", "addressRestricted", "portRestricted"}
      BY <2>1, <2>6 DEF natJudgment
    <3> QED
      BY <2>2, <2>3, <2>6, <3>1
  <2> QED
    BY <2>4, <2>5, <2>6
<1>2. IInv => MappingSound
  BY <1>1 DEF MappingSound
<1> QED
  BY <1>2, Invariance, PTL

(* AnsweredIsRecorded: the probe appends the observation before it writes   *)
(* the answer, so an answer anywhere stands for a record in the session.    *)
THEOREM AnswersAreRecorded == Spec => []AnsweredIsRecorded
<1>1. IInv => AnsweredIsRecorded
  BY DEF IInv
<1> QED
  BY <1>1, Invariance, PTL

-----------------------------------------------------------------------------
(* A fact that counts as received holds the answer that was read. *)
ReceivedAnswers == \A n \in DOMAIN facts : facts[n].received => facts[n].answer # {}

(* What a read and a pull make of the facts. *)
LEMMA FactsRead ==
  ASSUME IInv, Read \/ ReadTimeout
  PROVE  /\ DOMAIN facts' = 1..step /\ DOMAIN facts = 1..(step - 1) /\ step \in Nat
         /\ \A n \in DOMAIN facts : facts'[n] = facts[n]
         /\ Read => facts'[step].received /\ facts'[step].answer # {}
         /\ ReadTimeout => ~facts'[step].received
<1>1. pc = "read" /\ Len(facts) = step - 1 /\ step \in Nat /\ \E T : facts \in Seq(T)
  BY StepFacts DEF Read, ReadTimeout, IInv, FactsOfSteps, TypeOK
<1>2. PICK r : /\ facts' = Append(facts, r)
               /\ Read => r.received /\ r.answer # {}
               /\ ReadTimeout => ~r.received
  <2>1. CASE Read
    <3> DEFINE r == [received |-> TRUE, answer |-> {Head(inbox)},
                     src |-> [ip |-> "", port |-> 0], replyFrom |-> ""]
    <3>1. ~ReadTimeout /\ facts' = Append(facts, r)
      BY <2>1 DEF Read, ReadTimeout
    <3>2. r.received /\ r.answer # {}
      OBVIOUS
    <3> HIDE DEF r
    <3> QED
      BY <3>1, <3>2
  <2>2. CASE ReadTimeout
    <3> DEFINE r == [received |-> FALSE, answer |-> {},
                     src |-> [ip |-> "", port |-> 0], replyFrom |-> ""]
    <3>1. ~Read /\ facts' = Append(facts, r)
      BY <2>2 DEF Read, ReadTimeout
    <3>2. ~r.received
      OBVIOUS
    <3> HIDE DEF r
    <3> QED
      BY <3>1, <3>2
  <2> QED
    BY <1>1, <2>1, <2>2
<1>3. /\ DOMAIN facts' = 1..step /\ DOMAIN facts = 1..(step - 1) /\ facts'[step] = r
      /\ \A n \in DOMAIN facts : facts'[n] = facts[n]
  <2>1. PICK T : facts \in Seq(T)
    BY <1>1
  <2>2. DOMAIN facts = 1..(step - 1) /\ Len(facts) + 1 = step
    BY <1>1, <2>1
  <2>3. DOMAIN facts' = 1..step /\ facts'[Len(facts) + 1] = r
        /\ \A n \in DOMAIN facts : facts'[n] = facts[n]
    BY <1>1, <1>2, <2>1
  <2> QED
    BY <2>2, <2>3
<1> QED
  BY <1>1, <1>2, <1>3

LEMMA FactsPulled ==
  ASSUME IInv, Pull
  PROVE  /\ DOMAIN facts' = DOMAIN facts
         /\ \A n \in DOMAIN facts : /\ facts'[n].received = facts[n].received
                                    /\ facts'[n].answer = facts[n].answer
<1>1. \E a, b : facts' = [facts EXCEPT ![step].src = a, ![step].replyFrom = b]
  BY DEF Pull
<1>2. PICK a, b : facts' = [facts EXCEPT ![step].src = a, ![step].replyFrom = b]
  BY <1>1
<1> DEFINE r == [facts[step] EXCEPT !.src = a, !.replyFrom = b]
           Fact == [received : BOOLEAN, answer : SUBSET Answers, src : Addresses,
                    replyFrom : {"", "same", "other-port", "other-ip"}]
<1>3. \A n \in DOMAIN facts : facts[n] \in Fact
  <2>1. facts \in Seq(Fact)
    BY DEF IInv, TypeOK
  <2> HIDE DEF Fact
  <2> QED
    BY <2>1
<1>4. DOMAIN facts' = DOMAIN facts
      /\ \A n \in DOMAIN facts : n # step => facts'[n] = facts[n]
  <2> HIDE DEF r, Fact
  <2> QED
    BY <1>2
<1>5. ASSUME step \in DOMAIN facts
      PROVE  facts'[step].received = facts[step].received /\ facts'[step].answer = facts[step].answer
  <2>1. facts'[step] = r
    BY <1>2, <1>5
  <2>2. r.received = facts[step].received /\ r.answer = facts[step].answer
    BY <1>3, <1>5
  <2> QED
    BY <2>1, <2>2
<1> QED
  BY <1>4, <1>5

LEMMA ReceivedAnswersKept ==
  ASSUME IInv, ReceivedAnswers, [Next]_vars PROVE ReceivedAnswers'
<1>1. CASE Read \/ ReadTimeout
  <2>1. ASSUME NEW n \in DOMAIN facts', facts'[n].received PROVE facts'[n].answer # {}
    <3>1. CASE n = step
      BY <1>1, <2>1, <3>1, FactsRead
    <3>2. CASE n # step
      <4>1. n \in DOMAIN facts /\ facts'[n] = facts[n]
        BY <1>1, <2>1, <3>2, FactsRead
      <4> QED
        BY <2>1, <4>1 DEF ReceivedAnswers
    <3> QED
      BY <3>1, <3>2
  <2> QED
    BY <2>1 DEF ReceivedAnswers
<1>2. CASE Pull
  BY <1>2, FactsPulled DEF ReceivedAnswers
<1>3. CASE UNCHANGED facts
  BY <1>3 DEF ReceivedAnswers
<1>4. [Next]_vars => Read \/ ReadTimeout \/ Pull \/ UNCHANGED facts
  BY DEF Next, vars, Client, Send, PullFindsNothing, CallFails, Network, Arrive, ArriveAgain,
         ArriveNowhere, Answer, Terminated
<1> QED
  BY <1>1, <1>2, <1>3, <1>4

(* EchoReceivedIsSeen: what the first read returned answers the first       *)
(* datagram, and the session holds its observation at the UDP port.         *)
THEOREM FirstReadIsTheFirstEcho == Spec => []EchoReceivedIsSeen
<1>1. Init => ReceivedAnswers
  BY DEF Init, ReceivedAnswers
<1>2. IInv /\ ReceivedAnswers /\ [Next]_vars => ReceivedAnswers'
  BY ReceivedAnswersKept
<1>3. ASSUME IInv, ReceivedAnswers, facts # <<>>, facts[1].received
      PROVE  /\ \A a \in facts[1].answer : a.step = 1 /\ a.src = SocketAt("udp")
             /\ \E i \in DOMAIN log : log[i].port = "udp"
  <2>1. 1 \in DOMAIN facts
    <3>1. \E T : facts \in Seq(T)
      BY <1>3 DEF IInv, TypeOK
    <3> QED
      BY <1>3, <3>1
  <2>2. \A a \in facts[1].answer : a = Reply(1)
    BY <1>3, <2>1 DEF IInv, FromScript
  <2>3. Reply(1).step = 1 /\ Reply(1).src = SocketAt("udp")
    BY ScriptFacts DEF Reply, ReplySocket
  <2>4. Reply(1) \in facts[1].answer
    BY <1>3, <2>1, <2>2 DEF ReceivedAnswers
  <2>5. PICK i \in DOMAIN log : log[i].step = 1
    BY <1>3, <2>1, <2>3, <2>4 DEF IInv, AnsweredIsRecorded
  <2>6. PICK j \in 1..step : log[i] = Record(j)
    BY <1>3 DEF IInv, FromScript
  <2>7. log[i].port = "udp"
    <3>1. j = 1
      BY <2>5, <2>6 DEF Record
    <3> QED
      BY <2>6, <3>1, ScriptFacts DEF Record
  <2> QED
    BY <2>2, <2>3, <2>7
<1>4. IInv /\ ReceivedAnswers => EchoReceivedIsSeen
  BY <1>3 DEF EchoReceivedIsSeen
<1> QED
  BY <1>1, <1>2, <1>4, Invariance, PTL DEF Spec

-----------------------------------------------------------------------------
(* What arrives at a socket of the probe was sent to that port, and the port *)
(* is reached.                                                               *)
LEMMA ReachesFacts ==
  ASSUME NEW i \in DOMAIN Script
  PROVE  /\ Reaches(i) <=> Dest(i) = SocketAt(Script[i].port) /\ Accepted(Sent(i))
         /\ Arriving \subseteq Ports
<1>1. Script[i].kind \in {"echo", "nat"} /\ Script[i].port \in Ports
  BY ScriptFacts
<1>2. Accepted(Sent(i)) <=> MaxUDP >= 1
  <2>1. Sent(i).valid /\ Sent(i).len = 1 /\ Sent(i).kind = Script[i].kind
    BY DEF Sent
  <2>2. SizeLimit(Script[i].kind) = MaxUDP
    BY <1>1 DEF SizeLimit
  <2> QED
    BY <1>1, <2>1, <2>2, UdpAssumption DEF Accepted
<1>3. Dest(i) = Target(Script[i].port)
  BY DEF Dest
<1> QED
  BY <1>1, <1>2, <1>3 DEF Reaches, Arriving

LEMMA ArrivedFacts ==
  ASSUME IInv, NEW d \in flight, d.leg = "out", Accepted(d), NEW port \in Ports, d.dst = SocketAt(port)
  PROVE  \E i \in 1..step : /\ d = Sent(i) /\ AnswerTo(d, port) = Reply(i)
                            /\ Observation(d, port) = Record(i) /\ Script[i].port \in Arriving
<1>1. PICK i \in 1..step : d = Sent(i) /\ AnswerTo(d, port) = Reply(i) /\ Observation(d, port) = Record(i)
  BY ProbeAnswers
<1>2. i \in DOMAIN Script /\ nat \in [mapping : Mappings, filter : Filters]
  BY StepFacts DEF IInv, TypeOK
<1>3. Script[i].port = port /\ Dest(i) = SocketAt(port)
  BY <1>1 DEF Observation, Record, Sent
<1>4. Reaches(i)
  BY <1>1, <1>2, <1>3, ReachesFacts
<1> QED
  BY <1>1, <1>4 DEF Reaches

(* The ports that are reached, and the script, do not change. *)
LEMMA ConstantFacts ==
  /\ Arriving' = Arriving /\ \A i : Reaches(i)' <=> Reaches(i)
  /\ nat' = nat => \A i : (Passes(i)' <=> Passes(i)) /\ Binding(i)' = Binding(i)
BY MessagesKept DEF Arriving, Target, SocketAt, BoundIP, Reaches, Passes, Script, Binding, Dest

(* The log grows, by arrivals only. *)
LEMMA LogGrows ==
  ASSUME IInv, [Next]_vars
  PROVE  \/ log' = log
         \/ \E i \in 1..step : /\ Script[i].port \in Arriving /\ log' = Append(log, Record(i))
                               /\ step' = step /\ pc' = pc
<1>1. ASSUME NEW d \in flight, Arrive(d) \/ ArriveAgain(d)
      PROVE  \E i \in 1..step : Script[i].port \in Arriving /\ log' = Append(log, Record(i))
                                /\ step' = step /\ pc' = pc
  <2>1. PICK port \in Ports : /\ d.leg = "out" /\ Accepted(d) /\ d.dst = SocketAt(port)
                              /\ log' = Append(log, Observation(d, port)) /\ step' = step /\ pc' = pc
    BY <1>1 DEF Arrive, ArriveAgain
  <2> QED
    BY <2>1, ArrivedFacts
<1>2. [Next]_vars => log' = log \/ \E d \in flight : Arrive(d) \/ ArriveAgain(d)
  BY DEF Next, vars, Client, Send, Read, ReadTimeout, Pull, PullFindsNothing, CallFails, Network,
         ArriveNowhere, Answer, Terminated
<1> QED
  BY <1>1, <1>2

LEMMA Appended ==
  ASSUME NEW T, NEW q \in Seq(T), NEW r
  PROVE  /\ DOMAIN Append(q, r) = DOMAIN q \cup {Len(q) + 1} /\ Append(q, r)[Len(q) + 1] = r
         /\ \A n \in DOMAIN q : Append(q, r)[n] = q[n]
OBVIOUS

LEMMA LogArrivedKept ==
  ASSUME IInv, LogArrived, [Next]_vars PROVE LogArrived'
<1>1. CASE log' = log
  BY <1>1, ConstantFacts DEF LogArrived
<1>2. ASSUME NEW i \in 1..step, Script[i].port \in Arriving, log' = Append(log, Record(i))
      PROVE  LogArrived'
  <2>1. Record(i).port \in Arriving
    BY <1>2 DEF Record
  <2>2. PICK T : log \in Seq(T)
    BY DEF IInv, TypeOK
  <2> QED
    BY <1>2, <2>1, <2>2, Appended, ConstantFacts DEF LogArrived
<1> QED
  BY <1>1, <1>2, LogGrows

LEMMA StepsSeenKept ==
  ASSUME IInv, StepsSeen, [Next]_vars PROVE StepsSeen'
<1>1. PICK T : log \in Seq(T)
  BY DEF IInv, TypeOK
<1>2. \A n \in DOMAIN log : n \in DOMAIN log' /\ log'[n] = log[n]
  <2>1. CASE log' = log
    BY <2>1
  <2>2. ASSUME NEW r, log' = Append(log, r) PROVE \A n \in DOMAIN log : n \in DOMAIN log' /\ log'[n] = log[n]
    BY <1>1, <2>2, Appended
  <2> QED
    BY <2>1, <2>2, LogGrows
<1>3. step \in DOMAIN Script /\ step \in Nat /\ Script' = Script
  BY StepFacts DEF IInv, TypeOK, Script
<1>4. CASE Pull
  <2>1. \/ pc' = "send" /\ step' = step + 1
        \/ pc' = "done" /\ step' = step
    BY <1>4 DEF Pull
  <2>2. \E n \in DOMAIN log : log[n].port = Script[step].port
    BY <1>4 DEF Pull, Matching
  <2>3. ASSUME NEW i \in 1..step', i < step' \/ pc' = "done"
        PROVE  \E n \in DOMAIN log : log[n].port = Script[i].port
    <3>1. i \in 1..step /\ (i < step \/ i = step)
      BY <1>3, <2>1, <2>3
    <3> QED
      BY <2>2, <3>1 DEF StepsSeen
  <2> QED
    BY <1>2, <1>3, <2>3 DEF StepsSeen
<1>5. CASE step' = step /\ (pc' = "done" => pc = "done")
  BY <1>2, <1>3, <1>5 DEF StepsSeen
<1>6. [Next]_vars => Pull \/ (step' = step /\ (pc' = "done" => pc = "done"))
  BY DEF Next, vars, Client, Send, Read, ReadTimeout, PullFindsNothing, CallFails, Network,
         Arrive, ArriveAgain, ArriveNowhere, Answer, Terminated
<1> QED
  BY <1>4, <1>5, <1>6

(* The bindings are kept for the whole test. *)
LEMMA OpenedKept ==
  ASSUME IInv, Opened, [Next]_vars PROVE Opened'
<1>1. step \in DOMAIN Script /\ step \in Nat /\ step \in 1..step
  BY StepFacts DEF IInv, TypeOK
<1>2. CASE Send
  <2>1. pc = "send" /\ nat' = nat /\ step' = step /\ opened' = opened \cup {Binding(step)}
    BY <1>2 DEF Send, Dest, Binding, env
  <2>2. ASSUME NEW i \in 1..step PROVE Binding(i) \in opened'
    <3>1. CASE i < step
      BY <2>1, <3>1 DEF Opened
    <3>2. CASE i = step
      BY <2>1, <3>2
    <3> QED
      BY <1>1, <3>1, <3>2
  <2>3. \A b \in opened' : \E i \in 1..step : b = Binding(i)
    BY <1>1, <2>1 DEF Opened
  <2> QED
    BY <2>1, <2>2, <2>3, ConstantFacts DEF Opened
<1>3. CASE Pull
  <2>1. pc = "pull" /\ nat' = nat /\ opened' = opened
        /\ (step' = step \/ step' = step + 1)  /\ pc' \in {"send", "done"}
        /\ (pc' = "done" => step' = step)
    BY <1>3 DEF Pull, env
  <2>2. \A i \in 1..step : Binding(i) \in opened
    BY <2>1 DEF Opened
  <2>3. ASSUME NEW i \in 1..step', i < step' \/ pc' \in {"read", "pull"} PROVE i \in 1..step
    BY <1>1, <2>1, <2>3
  <2>4. \A i \in 1..step : i \in 1..step'
    BY <1>1, <2>1
  <2>5. \A b \in opened' : \E i \in 1..step' : b = Binding(i)
    BY <2>1, <2>4 DEF Opened
  <2> QED
    BY <2>1, <2>2, <2>3, <2>5, ConstantFacts DEF Opened
<1>4. CASE Read \/ ReadTimeout
  <2>1. nat' = nat /\ opened' = opened /\ step' = step /\ pc = "read"
    BY <1>4 DEF Read, ReadTimeout, env
  <2> QED
    BY <2>1, ConstantFacts DEF Opened
<1>5. CASE nat' = nat /\ opened' = opened /\ step' = step /\ (pc' = pc \/ pc' = "failed")
  BY <1>5, ConstantFacts DEF Opened
<1>6. [Next]_vars => \/ Send \/ Pull \/ Read \/ ReadTimeout
                     \/ nat' = nat /\ opened' = opened /\ step' = step /\ (pc' = pc \/ pc' = "failed")
  BY DEF Next, vars, env, Client, PullFindsNothing, CallFails, Network, Arrive, ArriveAgain,
         ArriveNowhere, Answer, Terminated
<1> QED
  BY <1>2, <1>3, <1>4, <1>5, <1>6

-----------------------------------------------------------------------------
(* The calm network, for every configuration of the probe. *)
CInv == IInv /\ Opened /\ LogArrived /\ StepsSeen /\ OneAtATime

(* The answer to the datagram under way passes the NAT unless it comes from  *)
(* the other port, which the NAT that maps by destination and filters ports  *)
(* does not let in at this address: the bindings are those of the script.    *)
LEMMA ComesThrough ==
  ASSUME CInv, pc = "read", Reaches(step)
  PROVE  LetsIn(Reply(step).src, Reply(step).dst) <=> Passes(step)
<1>1. step \in DOMAIN Script /\ nat \in [mapping : Mappings, filter : Filters] /\ step \in 1..step
      /\ \A i \in 1..step : i \in DOMAIN Script
  BY StepFacts DEF CInv, IInv, TypeOK
<1>2. Binding(step) \in opened /\ Reply(step).dst = External(Dest(step))
      /\ Binding(step).ext = External(Dest(step)) /\ Binding(step).dst = Dest(step)
  BY <1>1 DEF CInv, Opened, Binding, Reply
<1>3. nat.filter \in {"open", "address", "port"}
  BY <1>1 DEF Filters
<1>4. CASE Script[step].kind = "echo"
  <2>1. Reply(step).src = Dest(step)
    BY <1>1, <1>4, ReachesFacts DEF Reply, ReplySocket
  <2> DEFINE b == Binding(step)
  <2>2. b \in opened /\ b.ext = Reply(step).dst /\ b.dst = Reply(step).src
    BY <1>2, <2>1
  <2> HIDE DEF b
  <2>3. LetsIn(Reply(step).src, Reply(step).dst)
    BY <1>3, <2>2 DEF LetsIn
  <2> QED
    BY <1>4, <2>3 DEF Passes
<1>5. CASE Script[step].kind = "nat"
  <2>1. step \in {4, 5} /\ 3 \in 1..step /\ 3 < step /\ Script[step].port = "udp"
    <3>1. step \in {4, 5}
      BY <1>1, <1>5, ScriptFacts
    <3>2. Script[step].port \in {"udp", "nat"} /\ Script[step].port # "nat"
      BY <1>1, <3>1, ScriptFacts DEF Ports
    <3> QED
      BY <3>1, <3>2
  <2>2. "nat" \in Arriving
    <3>1. \E n \in DOMAIN log : log[n].port = Script[3].port
      BY <2>1 DEF CInv, StepsSeen
    <3> QED
      BY <3>1, ScriptFacts DEF CInv, LogArrived
  <2>3. Reply(step).src = Target("nat") /\ Dest(3) = Target("nat") /\ Dest(step) = Target("udp")
    BY <1>5, <2>1, <2>2, ScriptFacts DEF Reply, ReplySocket, Dest, Arriving
  <2>4. Target("nat")[1] = Target("udp")[1] /\ Target("nat") # Target("udp")
    BY DEF Target
  <2>5. Binding(3) \in opened /\ Binding(3).ext = External(Dest(3)) /\ Binding(3).dst = Dest(3)
    BY <2>1 DEF CInv, Opened, Binding
  <2>6. CASE nat.filter # "port"
    <3> DEFINE b == Binding(step)
    <3>1. b \in opened /\ b.ext = Reply(step).dst /\ b.dst[1] = Reply(step).src[1]
      BY <1>2, <2>3, <2>4
    <3> HIDE DEF b
    <3>2. LetsIn(Reply(step).src, Reply(step).dst)
      BY <1>3, <2>6, <3>1 DEF LetsIn
    <3> QED
      BY <2>6, <3>2 DEF Passes
  <2>7. CASE nat.filter = "port" /\ nat.mapping # "perDest"
    <3> DEFINE b == Binding(3)
    <3>1. External(Dest(3)) = External(Dest(step))
      BY <1>1, <2>7 DEF External, Mappings
    <3>2. b \in opened /\ b.ext = Reply(step).dst /\ b.dst = Reply(step).src
      BY <1>2, <2>3, <2>5, <3>1
    <3> HIDE DEF b
    <3>3. LetsIn(Reply(step).src, Reply(step).dst)
      BY <2>7, <3>2 DEF LetsIn
    <3> QED
      BY <2>7, <3>3 DEF Passes
  <2>8. CASE nat.filter = "port" /\ nat.mapping = "perDest"
    <3>1. ASSUME NEW b \in opened, b.ext = Reply(step).dst, b.dst = Reply(step).src PROVE FALSE
      <4>1. PICK i \in 1..step : b = Binding(i)
        BY DEF CInv, Opened
      <4>2. b.ext = External(Target("nat"))
        BY <2>3, <3>1, <4>1 DEF Binding
      <4>3. External(Target("nat")) = External(Target("udp"))
        BY <1>2, <2>3, <3>1, <4>2
      <4> QED
        BY <2>4, <2>8, <4>3 DEF External
    <3>2. ~LetsIn(Reply(step).src, Reply(step).dst)
      BY <2>8, <3>1 DEF LetsIn
    <3> QED
      BY <1>5, <2>8, <3>2 DEF Passes
  <2> QED
    BY <2>6, <2>7, <2>8
<1> QED
  BY <1>1, <1>4, <1>5, ScriptFacts

(* On a calm network the actions keep one datagram under way. *)
LEMMA CalmSend ==
  ASSUME CInv, Send PROVE OneAtATime'
<1>1. /\ pc = "send" /\ pc' = "read" /\ flight' = flight \cup {Sent(step)}
      /\ UNCHANGED <<nat, calm, step, inbox, facts>>
  BY DEF Send, Sent, Dest, env
<1>2. Sent(step)' = Sent(step)
  BY <1>1, MessagesKept DEF Sent, External, Dest
<1> QED
  BY <1>1, <1>2, ConstantFacts DEF CInv, OneAtATime

(* A calm read returns the answer of its own step, or there is none to come. *)
LEMMA CalmRead ==
  ASSUME CInv, Read \/ ReadTimeout PROVE OneAtATime'
<1>1. /\ pc = "read" /\ pc' = "pull" /\ UNCHANGED <<nat, calm, step, flight, log>>
      /\ Read => inbox # <<>> /\ inbox' = Tail(inbox)
      /\ ReadTimeout => inbox = <<>> /\ inbox' = <<>> /\ (calm => flight = {})
  BY DEF Read, ReadTimeout, env
<1>2. SUFFICES ASSUME calm PROVE OneAtATime'
  BY <1>1 DEF OneAtATime
<1>3. Record(step)' = Record(step)
  BY <1>1 DEF Record, External, Dest
<1>4. /\ flight = {} /\ inbox' = <<>> /\ (Reaches(step) => Recorded)
      /\ Read <=> Reaches(step) /\ Passes(step)
  <2>1. CASE Read
    <3>1. inbox # <<>>
      BY <1>1, <2>1
    <3>2. flight = {} /\ inbox = <<Reply(step)>> /\ Recorded /\ Reaches(step) /\ Passes(step)
      BY <1>1, <1>2, <3>1 DEF CInv, OneAtATime
    <3> QED
      BY <1>1, <2>1, <3>2
  <2>2. CASE ~Read
    <3>1. ReadTimeout
      BY <2>2
    <3>2. inbox = <<>> /\ inbox' = <<>> /\ flight = {}
      BY <1>1, <1>2, <3>1
    <3>3. Reaches(step) => Recorded /\ ~Passes(step)
      BY <1>1, <1>2, <3>2 DEF CInv, OneAtATime
    <3> QED
      BY <2>2, <3>2, <3>3
  <2> QED
    BY <2>1, <2>2
<1>5. ASSUME NEW n \in DOMAIN facts' PROVE facts'[n].received <=> Reaches(n) /\ Passes(n)
  <2>1. CASE n = step
    <3>1. Read <=> ~ReadTimeout
      BY DEF Read, ReadTimeout
    <3>2. facts'[step].received <=> Read
      BY <3>1, FactsRead DEF CInv
    <3> QED
      BY <1>4, <2>1, <3>2
  <2>2. CASE n # step
    <3>1. n \in DOMAIN facts /\ facts'[n] = facts[n]
      BY <1>5, <2>2, FactsRead DEF CInv
    <3> QED
      BY <1>2, <3>1 DEF CInv, OneAtATime
  <2> QED
    BY <2>1, <2>2
<1>6. Recorded' <=> Recorded
  BY <1>1, <1>3 DEF Recorded
<1> QED
  BY <1>1, <1>4, <1>5, <1>6, ConstantFacts DEF OneAtATime

(* A pull changes neither what is under way nor which reads were answered. *)
LEMMA CalmPull ==
  ASSUME CInv, Pull PROVE OneAtATime'
<1>1. /\ pc = "pull" /\ pc' \in {"send", "done"} /\ UNCHANGED <<nat, calm, flight, inbox>>
  BY DEF Pull, env
<1>2. calm => /\ flight = {} /\ inbox = <<>>
              /\ \A n \in DOMAIN facts : facts[n].received <=> Reaches(n) /\ Passes(n)
  BY <1>1 DEF CInv, OneAtATime
<1>3. /\ DOMAIN facts' = DOMAIN facts
      /\ \A n \in DOMAIN facts : facts'[n].received = facts[n].received
  BY FactsPulled DEF CInv
<1> QED
  BY <1>1, <1>2, <1>3, ConstantFacts DEF OneAtATime

(* If the port is reached the observation is there when it is pulled. *)
LEMMA CalmFail ==
  ASSUME CInv, PullFindsNothing \/ CallFails PROVE OneAtATime'
<1>1. calm' = calm /\ pc' = "failed" /\ step' = step /\ facts' = facts /\ nat' = nat
  BY DEF PullFindsNothing, CallFails, env
<1>2. SUFFICES ASSUME calm PROVE OneAtATime'
  BY <1>1 DEF OneAtATime
<1>3. pc = "pull" /\ Matching(Script[step]) = {}
  BY <1>2 DEF PullFindsNothing, CallFails
<1>4. ~Reaches(step)
  <2>1. ASSUME NEW n \in DOMAIN log, log[n] = Record(step) PROVE n \in Matching(Script[step])
    BY <2>1 DEF Matching, Record
  <2> QED
    BY <1>2, <1>3, <2>1 DEF CInv, OneAtATime, Recorded
<1> QED
  BY <1>1, <1>2, <1>4, ConstantFacts DEF CInv, OneAtATime

(* The datagram under way is recorded at its port, and its answer is under way. *)
LEMMA CalmArrive ==
  ASSUME CInv, calm, pc \notin {"done", "failed"}, NEW d \in flight, Arrive(d) PROVE OneAtATime'
<1>1. PICK port \in Ports :
        /\ d.leg = "out" /\ d.dst = SocketAt(port)
        /\ log' = Append(log, Observation(d, port))
        /\ flight' = (flight \ {d}) \cup {AnswerTo(d, port)}
        /\ UNCHANGED <<nat, localKnown, calm, pc, step, opened, inbox, facts, label>>
  BY DEF Arrive, env
<1>2. step \in DOMAIN Script /\ nat \in [mapping : Mappings, filter : Filters] /\ \E T : log \in Seq(T)
  BY DEF CInv, IInv, TypeOK
<1>3. Reply(step).leg = "back"
  BY <1>2, MessageTypes
<1>4. pc = "read" /\ flight = {Sent(step)} /\ inbox = <<>> /\ d = Sent(step)
  <2>1. pc = "read"
    BY DEF CInv, OneAtATime, IInv, TypeOK
  <2> QED
    BY <1>1, <1>3, <2>1 DEF CInv, OneAtATime
<1>5. PICK i \in 1..step : d = Sent(i) /\ AnswerTo(d, port) = Reply(i) /\ Observation(d, port) = Record(i)
  BY <1>1, ProbeAnswers DEF CInv
<1>6. i = step
  BY <1>4, <1>5 DEF Sent
<1>7. flight' = {Reply(step)}
  BY <1>1, <1>4, <1>5, <1>6
<1>8. \E n \in DOMAIN log' : log'[n] = Record(step)
  <2>1. log' = Append(log, Record(step))
    BY <1>1, <1>5, <1>6
  <2>2. Len(log) + 1 \in DOMAIN log' /\ log'[Len(log) + 1] = Record(step)
    BY <1>2, <2>1
  <2> QED
    BY <2>2
<1>9. Record(step)' = Record(step) /\ Reply(step)' = Reply(step)
  BY <1>1 DEF Record, Reply, External, Dest
<1>10. \A n \in DOMAIN facts : facts[n].received <=> Reaches(n) /\ Passes(n)
  BY DEF CInv, OneAtATime
<1> QED
  BY <1>1, <1>4, <1>7, <1>8, <1>9, <1>10, ConstantFacts DEF OneAtATime, Recorded

(* A datagram that no socket takes leaves nothing to be read, nor does an answer *)
(* that does not pass the NAT; one that passes can be read.                      *)
LEMMA CalmAnswer ==
  ASSUME CInv, calm, pc \notin {"done", "failed"}, NEW d \in flight, ArriveNowhere(d) \/ Answer(d)
  PROVE  OneAtATime'
<1>1. step \in DOMAIN Script /\ nat \in [mapping : Mappings, filter : Filters]
  BY DEF CInv, IInv, TypeOK
<1>2. pc = "read" /\ inbox = <<>> /\ flight = {d}
      /\ (d = Sent(step) \/ (d = Reply(step) /\ Recorded))
  <2>1. pc = "read"
    BY DEF CInv, OneAtATime, IInv, TypeOK
  <2> QED
    BY <2>1 DEF CInv, OneAtATime
<1>3. /\ flight' = {} /\ UNCHANGED <<nat, calm, pc, step, log, facts>>
  BY <1>2 DEF ArriveNowhere, Answer, env
<1>4. \/ inbox' = <<Reply(step)>> /\ Recorded /\ Reaches(step) /\ Passes(step)
      \/ inbox' = <<>> /\ (Reaches(step) => Recorded /\ ~Passes(step))
  <2>1. CASE d = Sent(step)
    <3>1. d.leg = "out" /\ d.dst = Dest(step) /\ Script[step].port \in Ports
      BY <1>1, <2>1, MessageTypes, ScriptFacts DEF Sent
    <3>2. ArriveNowhere(d) /\ inbox' = inbox
      BY <3>1 DEF ArriveNowhere, Answer
    <3>3. ~Reaches(step)
      BY <1>1, <2>1, <3>1, <3>2, ReachesFacts DEF ArriveNowhere
    <3> QED
      BY <1>2, <3>2, <3>3
  <2>2. CASE d = Reply(step) /\ Recorded
    <3>1. Answer(d)
      BY <1>1, <2>2, MessageTypes DEF ArriveNowhere
    <3>2. Reaches(step)
      BY <2>2 DEF Recorded, CInv, LogArrived, Record, Reaches
    <3>3. LetsIn(d.src, d.dst) <=> Passes(step)
      BY <1>2, <2>2, <3>2, ComesThrough
    <3>4. Append(inbox, d) = <<Reply(step)>>
      BY <1>2, <2>2
    <3> QED
      BY <1>2, <2>2, <3>1, <3>2, <3>3, <3>4 DEF Answer
  <2> QED
    BY <1>2, <2>1, <2>2
<1>5. Record(step)' = Record(step) /\ Reply(step)' = Reply(step) /\ (Recorded' <=> Recorded)
  BY <1>3 DEF Record, Reply, External, Dest, Recorded
<1>6. \A n \in DOMAIN facts : facts[n].received <=> Reaches(n) /\ Passes(n)
  BY DEF CInv, OneAtATime
<1> QED
  BY <1>2, <1>3, <1>4, <1>5, <1>6, ConstantFacts DEF OneAtATime

LEMMA CalmInductive ==
  ASSUME CInv, [Next]_vars PROVE CInv'
<1>1. IInv' /\ Opened' /\ LogArrived' /\ StepsSeen'
  BY Inductive, OpenedKept, LogArrivedKept, StepsSeenKept DEF CInv
<1>2. OneAtATime'
  <2>1. CASE UNCHANGED vars
    <3>1. UNCHANGED <<nat, localKnown, calm, pc, step, opened, flight, inbox, log, facts, label>>
      BY <2>1 DEF vars, env
    <3>2. Record(step)' = Record(step) /\ Reply(step)' = Reply(step) /\ Sent(step)' = Sent(step)
      BY <3>1 DEF Record, Reply, Sent, External, Dest
    <3>3. Recorded' <=> Recorded
      BY <3>1, <3>2 DEF Recorded
    <3> QED
      BY <3>1, <3>2, <3>3, ConstantFacts DEF CInv, OneAtATime
  <2>2. CASE Client
    BY <2>2, CalmSend, CalmRead, CalmPull, CalmFail DEF Client
  <2>3. CASE Network
    <3>1. PICK d \in flight : Arrive(d) \/ ArriveAgain(d) \/ ArriveNowhere(d) \/ Answer(d)
      BY <2>3 DEF Network
    <3>2. pc \notin {"done", "failed"} /\ calm' = calm
      BY <2>3, <3>1 DEF Network, Arrive, ArriveAgain, ArriveNowhere, Answer, env
    <3>3. CASE ~calm
      BY <3>2, <3>3 DEF OneAtATime
    <3>4. CASE calm
      <4>1. ~ArriveAgain(d)
        BY <3>4 DEF ArriveAgain
      <4> QED
        BY <3>1, <3>2, <3>4, <4>1, CalmArrive, CalmAnswer
    <3> QED
      BY <3>3, <3>4
  <2> QED
    BY <2>1, <2>2, <2>3 DEF Next, Terminated
<1> QED
  BY <1>1, <1>2 DEF CInv

(* The invariant about what arrives, for every configuration of the probe. *)
THEOREM CalmInvariance == Spec => []CInv
<1>1. Init => CInv
  <2>1. Init => OneAtATime
    BY DEF Init, OneAtATime
  <2>2. Init => LogArrived /\ StepsSeen
    BY DEF Init, LogArrived, StepsSeen
  <2> QED
    BY <2>1, <2>2, InitHolds DEF CInv
<1>2. CInv /\ [Next]_vars => CInv'
  BY CalmInductive
<1> QED
  BY <1>1, <1>2, PTL DEF Spec

(* With one IP and a limit that admits the script's datagrams, the default    *)
(* configuration, every port is reached.                                      *)
LEMMA AllReached ==
  ASSUME ~SecondIP, MaxUDP >= 1
  PROVE  Arriving = Ports /\ \A i \in DOMAIN Script : Reaches(i)
BY ScriptFacts DEF Arriving, Target, SocketAt, BoundIP, Reaches

(* CalmCompletes: where nothing is lost, late or repeated, every pull finds *)
(* the observation of its step and no test ends in an error.                *)
THEOREM CalmTestsComplete ==
  ASSUME ~SecondIP, MaxUDP >= 1
  PROVE  Spec => []CalmCompletes
<1>1. CInv => step \in DOMAIN Script
  BY DEF CInv, IInv, TypeOK
<1>2. CInv => CalmCompletes
  BY <1>1, AllReached DEF CInv, OneAtATime, CalmCompletes
<1> QED
  BY <1>2, CalmInvariance, PTL

(* Facts 1 and 4 of a test that is over. *)
LEMMA DoneFacts ==
  ASSUME CInv, pc = "done"
  PROVE  /\ step = Len(Script) /\ {1, 3, 4} \subseteq 1..step /\ {1, 4} \subseteq DOMAIN facts
         /\ calm => /\ facts[1].received <=> Reaches(1)
                    /\ facts[4].received <=> /\ Reaches(4)
                                             /\ nat.mapping # "perDest" \/ nat.filter # "port"
<1>1. step = Len(Script) /\ Len(facts) = step /\ Len(Script) \in {4, 5}
  BY ScriptFacts DEF CInv, IInv, Judged, FactsOfSteps
<1>2. \E T : facts \in Seq(T)
  BY DEF CInv, IInv, TypeOK
<1>3. {1, 3, 4} \subseteq 1..step /\ {1, 4} \subseteq DOMAIN facts
  BY <1>1, <1>2
<1>4. calm => \A n \in DOMAIN facts : facts[n].received <=> Reaches(n) /\ Passes(n)
  BY DEF CInv, OneAtATime
<1>5. Passes(1) /\ (Passes(4) <=> nat.mapping # "perDest" \/ nat.filter # "port")
  BY ScriptFacts DEF Passes
<1> QED
  BY <1>1, <1>3, <1>4, <1>5

(* NoFalseFilter: on a calm network the answer to the fourth datagram comes *)
(* through a NAT that maps alike towards every destination, and the label   *)
(* is "open".                                                               *)
THEOREM OpenIsCalledOpen ==
  ASSUME ~SecondIP, MaxUDP >= 1
  PROVE  Spec => []NoFalseFilter
<1>1. ASSUME CInv, pc = "done", calm, nat.mapping = "one" PROVE label = "open"
  <2> DEFINE ip == External(Dest(1)).ip
             p1 == External(Dest(1)).port
             p2 == External(Dest(3)).port
             r3 == facts[4].received
  <2>1. label = natJudgment(localKnown, ip, p1, p2, r3, SecondIP, FALSE)
    BY <1>1 DEF CInv, IInv, Judged
  <2>2. ip # "local" /\ p1 = p2
    BY <1>1, AddressFacts DEF CInv, IInv, TypeOK
  <2>3. r3
    BY <1>1, DoneFacts, AllReached, ScriptFacts
  <2> HIDE DEF ip, p1, p2, r3
  <2> QED
    BY <2>1, <2>2, <2>3 DEF natJudgment
<1>2. CInv => NoFalseFilter
  BY <1>1 DEF NoFalseFilter
<1> QED
  BY <1>2, CalmInvariance, PTL

(* AsPromised: however the test ends, whatever the network did and whatever   *)
(* the probe's configuration, what it came to is one of the reports the rest  *)
(* of the client takes the whole test for.                                    *)
THEOREM TestIsAsPromised == Spec => []AsPromised
<1>1. ASSUME CInv, pc \in {"done", "failed"} PROVE Report \in Reports(calm, Arriving, Open)
  <2> DEFINE completed == pc = "done"
             recorded == {log[n].port : n \in DOMAIN log}
             answered == {p \in UdpPorts : pc = "done" /\ facts[IF p = "udp" THEN 1 ELSE 4].received}
  <2>1. step \in DOMAIN Script /\ step \in Nat /\ step >= 1 /\ Arriving \subseteq Ports /\ Ports = UdpPorts
        /\ \A i \in 1..step : i \in DOMAIN Script
    BY <1>1, StepFacts, ReachesFacts DEF CInv, IInv, TypeOK, Ports, UdpPorts
  <2>2. recorded \subseteq Arriving
    BY <1>1 DEF CInv, LogArrived
  <2>3. ASSUME NEW i \in 1..step, i < step \/ pc = "done" PROVE Script[i].port \in recorded
    BY <1>1, <2>3 DEF CInv, StepsSeen
  <2>4. "nat" \in recorded => "udp" \in recorded
    <3>1. SUFFICES ASSUME NEW n \in DOMAIN log, log[n].port = "nat" PROVE "udp" \in recorded
      OBVIOUS
    <3>2. PICK i \in 1..step : log[n] = Record(i)
      BY <1>1 DEF CInv, IInv, FromScript
    <3>3. i = 3
      BY <2>1, <3>1, <3>2, ScriptFacts DEF Record
    <3>4. 1 \in 1..step /\ 1 < step
      BY <2>1, <3>3
    <3> QED
      BY <2>3, <3>4, ScriptFacts
  <2>5. completed => recorded = UdpPorts
    <3>1. SUFFICES ASSUME pc = "done" PROVE "udp" \in recorded /\ "nat" \in recorded
      BY <2>1, <2>2 DEF UdpPorts
    <3>2. 1 \in 1..step /\ 3 \in 1..step
      BY <1>1, <3>1, DoneFacts
    <3> QED
      BY <2>3, <3>1, <3>2, ScriptFacts
  <2>6. "udp" \in Open /\ Open \subseteq UdpPorts
        /\ ("nat" \in Open <=> nat.mapping # "perDest" \/ nat.filter # "port")
    BY DEF Open, Ports, UdpPorts
  <2>7. calm /\ Arriving = UdpPorts => completed /\ answered = Open
    <3>1. SUFFICES ASSUME calm, Arriving = UdpPorts PROVE completed /\ answered = Open
      OBVIOUS
    <3>2. \A i \in DOMAIN Script : Reaches(i)
      BY <2>1, <3>1, ScriptFacts DEF Reaches
    <3>3. pc = "done"
      BY <1>1, <2>1, <3>1, <3>2 DEF CInv, OneAtATime
    <3>4. facts[1].received /\ (facts[4].received <=> nat.mapping # "perDest" \/ nat.filter # "port")
      BY <1>1, <3>1, <3>2, <3>3, DoneFacts, ScriptFacts
    <3>5. \A p \in UdpPorts : p \in answered <=> p \in Open
      BY <2>6, <3>3, <3>4 DEF UdpPorts
    <3> QED
      BY <2>6, <3>3, <3>5
  <2>8. calm /\ Arriving # UdpPorts => recorded = Arriving \cap {"udp"}
    <3>1. SUFFICES ASSUME calm, Arriving # UdpPorts PROVE recorded = Arriving \cap {"udp"}
      OBVIOUS
    <3>2. "nat" \notin recorded /\ pc = "failed"
      BY <1>1, <2>1, <2>2, <2>4, <2>5, <3>1 DEF UdpPorts
    <3>3. ASSUME "udp" \in Arriving PROVE "udp" \in recorded
      <4>1. ~Reaches(step)
        BY <1>1, <3>1, <3>2 DEF CInv, OneAtATime
      <4>2. step # 1
        BY <3>3, <4>1, ScriptFacts DEF Reaches
      <4>3. 1 \in 1..step /\ 1 < step
        BY <2>1, <4>2
      <4> QED
        BY <2>3, <4>3, ScriptFacts
    <3> QED
      BY <2>1, <2>2, <3>2, <3>3 DEF UdpPorts
  <2>9. Report = [completed |-> completed, recorded |-> recorded, answered |-> answered]
    BY DEF Report
  <2>10. answered \subseteq UdpPorts /\ (~completed => answered = {}) /\ recorded \subseteq UdpPorts
         /\ completed \in BOOLEAN
    BY <2>1, <2>2
  <2> HIDE DEF completed, recorded, answered
  <2>11. Report \in [completed : BOOLEAN, recorded : SUBSET UdpPorts, answered : SUBSET UdpPorts]
         /\ Report.completed = completed /\ Report.recorded = recorded /\ Report.answered = answered
    BY <2>9, <2>10
  <2> QED
    BY <2>2, <2>4, <2>5, <2>6, <2>7, <2>8, <2>10, <2>11, Zenon DEF Reports
<1>2. CInv => AsPromised
  BY <1>1 DEF AsPromised
<1> QED
  BY <1>2, CalmInvariance, PTL
=============================================================================
