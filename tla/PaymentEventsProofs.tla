------------------------ MODULE PaymentEventsProofs ------------------------
(***************************************************************************)
(* Theorems about PaymentEvents, for every set of servers and events.      *)
(***************************************************************************)
EXTENDS PaymentEvents, TLAPS

Items == {Report} \cup Messages

\* What the proofs use of the two queue operations: a received item is one of
\* the queue, and what is left or added are items.
LEMMA QueueOps ==
    ASSUME NEW q \in Seq(Items), NEW i \in Items
    PROVE  /\ Append(q, i) \in Seq(Items) /\ Len(Append(q, i)) = Len(q) + 1
           /\ q # <<>> => /\ Head(q) \in Items /\ Tail(q) \in Seq(Items)
                          /\ Len(Tail(q)) = Len(q) - 1 /\ Len(q) > 0
OBVIOUS

----------------------------------------------------------------------------
\* The type invariant holds initially.
LEMMA TypeInit == Init => TypeOK
<1> SUFFICES ASSUME Init PROVE TypeOK
  OBVIOUS
<1>1. <<>> \in Seq(Events) /\ <<>> \in Seq({Report} \cup Messages) /\ Len(<<>>) = 0
  OBVIOUS
<1>2. consumer \in [Servers -> Consumers]
  BY DEF Init, Consumers
<1>3. \A s \in Servers : Len(eventChan[s]) <= ChanCap
  <2>1. 0 <= ChanCap
    BY PaymentEventsAssumptions
  <2>2. ASSUME NEW s \in Servers PROVE Len(eventChan[s]) = 0
    <3>1. eventChan[s] = <<>>
      BY DEF Init
    <3>. QED  BY <3>1
  <2>. QED  BY <2>1, <2>2
<1>4. stream = <<>> /\ cursor = 0 /\ pel = {} /\ group = FALSE /\ up = {} /\ done = {}
  BY DEF Init
<1>5. Len(stream) <= MaxSend /\ cursor \in 0..Len(stream)
  BY <1>1, <1>4, PaymentEventsAssumptions
<1>6. /\ eventChan \in [Servers -> Seq({Report} \cup Messages)]
      /\ handling \in [Servers -> SUBSET ({Report} \cup Messages)]
      /\ rows \in [Events -> Nat]
  BY <1>1 DEF Init
<1>. QED  BY <1>1, <1>2, <1>3, <1>4, <1>5, <1>6 DEF TypeOK

\* Type correctness, one step per action of Next.
LEMMA TypeStep == TypeOK /\ [Next]_vars => TypeOK'
<1> SUFFICES ASSUME TypeOK, [Next]_vars PROVE TypeOK'
  OBVIOUS
<1> USE PaymentEventsAssumptions DEF TypeOK, Items
<1>1. ASSUME NEW e \in Events, Publish(e) PROVE TypeOK'
  BY <1>1 DEF Publish
<1>2. ASSUME NEW s \in Servers, Start(s) PROVE TypeOK'
  BY <1>2 DEF Start
<1>3. ASSUME NEW s \in Servers, Read(s) PROVE TypeOK'
  <2>1. cursor + 1 \in Messages /\ cursor' \in 0..Len(stream')
    BY <1>3 DEF Read, Messages
  <2>2. consumer' \in [Servers -> Consumers]
    <3>1. [at |-> "process", msg |-> cursor + 1] \in Consumers
      BY <2>1 DEF Consumers
    <3>. QED  BY <1>3, <3>1 DEF Read
  <2>. QED  BY <1>3, <2>1, <2>2 DEF Read
<1>4. ASSUME NEW s \in Servers, ProcessMessage(s) PROVE TypeOK'
  <2>1. consumer[s].msg \in Messages
    BY <1>4 DEF ProcessMessage, Consumers, Idle
  <2>2. consumer' \in [Servers -> Consumers]
    <3>1. [consumer[s] EXCEPT !.at = "ack"] \in Consumers
      <4>1. consumer[s] \in [at : {"process", "ack"}, msg : Messages]
        BY <1>4 DEF ProcessMessage, Consumers, Idle
      <4>. QED  BY <4>1 DEF Consumers
    <3>2. Idle \in Consumers
      BY DEF Consumers
    <3>. QED  BY <1>4, <3>1, <3>2 DEF ProcessMessage
  <2>3. done' \subseteq Messages
    BY <1>4, <2>1 DEF ProcessMessage
  <2>4. /\ eventChan' \in [Servers -> Seq(Items)]
        /\ \A r \in Servers : Len(eventChan'[r]) <= ChanCap
    <3>1. /\ Append(eventChan[s], consumer[s].msg) \in Seq(Items)
          /\ Len(Append(eventChan[s], consumer[s].msg)) = Len(eventChan[s]) + 1
      BY <2>1, QueueOps
    <3>2. \/ eventChan' = eventChan
          \/ /\ eventChan' = [eventChan EXCEPT ![s] = Append(@, consumer[s].msg)]
             /\ Len(eventChan[s]) < ChanCap
      BY <1>4 DEF ProcessMessage
    <3>3. CASE eventChan' = eventChan
      BY <3>3
    <3>4. CASE /\ eventChan' = [eventChan EXCEPT ![s] = Append(@, consumer[s].msg)]
               /\ Len(eventChan[s]) < ChanCap
      <4>1. eventChan' \in [Servers -> Seq(Items)]
        BY <3>1, <3>4
      <4>2. \A r \in Servers : Len(eventChan'[r]) <= ChanCap
        <5>1. \A r \in Servers : r # s => eventChan'[r] = eventChan[r]
          BY <3>4
        <5>2. eventChan'[s] = Append(eventChan[s], consumer[s].msg)
          BY <3>4
        <5>3. Len(eventChan'[s]) = Len(eventChan[s]) + 1
          BY <3>1, <5>2
        <5>4. Len(eventChan[s]) \in Nat
          OBVIOUS
        <5>. QED  BY <3>4, <5>1, <5>3, <5>4
      <4>. QED  BY <4>1, <4>2
    <3>. QED  BY <3>2, <3>3, <3>4
  <2>. QED  BY <1>4, <2>2, <2>3, <2>4 DEF ProcessMessage
<1>5. ASSUME NEW s \in Servers, Ack(s) PROVE TypeOK'
  <2>1. consumer' \in [Servers -> Consumers]
    BY <1>5 DEF Ack, Consumers
  <2>. QED  BY <1>5, <2>1 DEF Ack
<1>6. ASSUME NEW s \in Servers, Take(s) PROVE TypeOK'
  BY <1>6, QueueOps DEF Take
<1>7. ASSUME NEW s \in Servers, HandleEvent(s) PROVE TypeOK'
  <2>1. PICK i \in handling[s] :
          /\ handling' = [handling EXCEPT ![s] = @ \ {i}]
          /\ IF i = Report THEN UNCHANGED done ELSE done' = done \cup {i}
          /\ UNCHANGED rows \/ AddCredits(stream[i])
          /\ UNCHANGED <<stream, group, cursor, pel, up, consumer, eventChan>>
    BY <1>7 DEF HandleEvent
  <2>2. i \in Items
    OBVIOUS
  <2>3. rows' \in [Events -> Nat]
    <3>1. rows' = rows \/ rows' = [rows EXCEPT ![stream[i]] = 1]
      BY <2>1 DEF AddCredits
    <3>. QED  BY <3>1
  <2>. QED  BY <2>1, <2>2, <2>3
<1>8. ASSUME NEW s \in Servers, ReportEvent(s) PROVE TypeOK'
  BY <1>8, QueueOps DEF ReportEvent
<1>9. ASSUME NEW s \in Servers, Crash(s) PROVE TypeOK'
  BY <1>9 DEF Crash, Consumers
<1>10. CASE UNCHANGED vars
  BY <1>10 DEF vars
<1>. QED
  BY <1>1, <1>2, <1>3, <1>4, <1>5, <1>6, <1>7, <1>8, <1>9, <1>10 DEF Next, Server

\* Every variable keeps its type; in particular no channel exceeds its capacity.
THEOREM PaymentTypes == Spec => []TypeOK
BY TypeInit, TypeStep, PTL DEF Spec

----------------------------------------------------------------------------
(***************************************************************************)
(* PaymentEvents implements CreditGrants.  A row is inserted for the event *)
(* of a message some server holds, so the proof needs that servers hold    *)
(* only messages the group has delivered.                                  *)
(***************************************************************************)

Held(s) ==
    /\ consumer[s].msg \in 0..cursor
    /\ eventChan[s] \in Seq(0..cursor)
    /\ handling[s] \subseteq 0..cursor
HeldInv == \A s \in Servers : Held(s)

\* The queue operations on a queue of delivered messages, and a queue of
\* messages delivered by now is one of messages delivered later.
LEMMA HeldQueue ==
    ASSUME NEW n \in Nat, NEW q \in Seq(0..n), NEW i \in 0..n
    PROVE  /\ Append(q, i) \in Seq(0..n)
           /\ q # <<>> => Head(q) \in 0..n /\ Tail(q) \in Seq(0..n)
           /\ q \in Seq(0..(n + 1))
OBVIOUS

\* Servers hold nothing at first.
LEMMA HeldInit == Init => HeldInv
<1> SUFFICES ASSUME Init, NEW s \in Servers PROVE Held(s)
  BY DEF HeldInv
<1>1. consumer[s] = Idle /\ eventChan[s] = <<>> /\ handling[s] = {} /\ cursor = 0
  BY DEF Init
<1>2. <<>> \in Seq(0..cursor)
  OBVIOUS
<1>3. consumer[s].msg = 0
  BY <1>1 DEF Idle
<1>. QED  BY <1>1, <1>2, <1>3 DEF Held

\* Servers hold delivered messages only.
LEMMA HeldStep == TypeOK /\ HeldInv /\ [Next]_vars => HeldInv'
<1> SUFFICES ASSUME TypeOK, HeldInv, [Next]_vars, NEW r \in Servers PROVE Held(r)'
  BY DEF HeldInv
<1>0. /\ Held(r) /\ cursor \in Nat /\ 0 \in 0..cursor
      /\ consumer \in [Servers -> Consumers]
      /\ eventChan \in [Servers -> Seq({Report} \cup Messages)]
      /\ handling \in [Servers -> SUBSET ({Report} \cup Messages)]
  BY DEF HeldInv, TypeOK
<1>1. ASSUME NEW e \in Events, Publish(e) PROVE Held(r)'
  BY <1>0, <1>1 DEF Publish, Held
<1>2. ASSUME NEW s \in Servers, Start(s) PROVE Held(r)'
  BY <1>0, <1>2 DEF Start, Held
<1>3. ASSUME NEW s \in Servers, Read(s) PROVE Held(r)'
  <2>1. cursor' = cursor + 1 /\ eventChan' = eventChan /\ handling' = handling
    BY <1>3 DEF Read
  <2>2. eventChan[r] \in Seq(0..cursor')
    BY <1>0, <2>1, HeldQueue DEF Held
  <2>3. \/ consumer'[r] = consumer[r]
        \/ consumer'[r] = [at |-> "process", msg |-> cursor + 1]
    BY <1>0, <1>3 DEF Read
  <2>4. consumer'[r].msg \in 0..cursor'
    BY <1>0, <2>1, <2>3 DEF Held
  <2>. QED  BY <1>0, <2>1, <2>2, <2>4 DEF Held
<1>4. ASSUME NEW s \in Servers, ProcessMessage(s) PROVE Held(r)'
  <2>1. cursor' = cursor /\ handling' = handling
    BY <1>4 DEF ProcessMessage
  <2>2. consumer'[r].msg \in 0..cursor
    <3>1. consumer[s] \in [at : {"process", "ack"}, msg : Messages]
      BY <1>0, <1>4 DEF ProcessMessage, Idle, Consumers
    <3>2. [consumer[s] EXCEPT !.at = "ack"].msg = consumer[s].msg /\ Idle.msg = 0
      BY <3>1 DEF Idle
    <3>3. \/ consumer' = [consumer EXCEPT ![s] = [@ EXCEPT !.at = "ack"]]
          \/ consumer' = [consumer EXCEPT ![s] = Idle]
      BY <1>4 DEF ProcessMessage
    <3>4. r # s => consumer'[r] = consumer[r]
      BY <1>0, <3>3
    <3>5. r = s => consumer'[r] \in {[consumer[s] EXCEPT !.at = "ack"], Idle}
      BY <1>0, <3>3
    <3>. QED  BY <1>0, <3>2, <3>4, <3>5 DEF Held
  <2>3. eventChan'[r] = eventChan[r] \/ eventChan'[r] = Append(eventChan[r], consumer[r].msg)
    BY <1>0, <1>4 DEF ProcessMessage
  <2>4. eventChan'[r] \in Seq(0..cursor)
    <3>1. eventChan[r] \in Seq(0..cursor) /\ consumer[r].msg \in 0..cursor
      BY <1>0 DEF Held
    <3>2. Append(eventChan[r], consumer[r].msg) \in Seq(0..cursor)
      BY <1>0, <3>1, HeldQueue
    <3>. QED  BY <2>3, <3>1, <3>2
  <2>. QED  BY <1>0, <2>1, <2>2, <2>4 DEF Held
<1>5. ASSUME NEW s \in Servers, Ack(s) PROVE Held(r)'
  BY <1>0, <1>5 DEF Ack, Held, Idle
<1>6. ASSUME NEW s \in Servers, Take(s) PROVE Held(r)'
  <2>1. cursor' = cursor /\ consumer' = consumer
    BY <1>6 DEF Take
  <2>2. CASE r = s
    <3>1. /\ handling'[r] = {Head(eventChan[r])}
          /\ eventChan'[r] = Tail(eventChan[r]) /\ eventChan[r] # <<>>
      BY <1>0, <1>6, <2>2 DEF Take
    <3>2. Head(eventChan[r]) \in 0..cursor /\ Tail(eventChan[r]) \in Seq(0..cursor)
      BY <1>0, <3>1, HeldQueue DEF Held
    <3>. QED  BY <1>0, <2>1, <3>1, <3>2 DEF Held
  <2>3. CASE r # s
    BY <1>0, <1>6, <2>3 DEF Take, Held
  <2>. QED  BY <2>2, <2>3
<1>7. ASSUME NEW s \in Servers, HandleEvent(s) PROVE Held(r)'
  <2>1. \E i : handling' = [handling EXCEPT ![s] = @ \ {i}]
    BY <1>7 DEF HandleEvent
  <2>2. UNCHANGED <<cursor, consumer, eventChan>>
    BY <1>7 DEF HandleEvent
  <2>. QED  BY <1>0, <2>1, <2>2 DEF Held
<1>8. ASSUME NEW s \in Servers, ReportEvent(s) PROVE Held(r)'
  <2>1. /\ UNCHANGED <<cursor, consumer, handling>>
        /\ eventChan'[r] = eventChan[r] \/ eventChan'[r] = Append(eventChan[r], 0)
    BY <1>0, <1>8 DEF ReportEvent, Report
  <2>2. eventChan'[r] \in Seq(0..cursor)
    <3>1. eventChan[r] \in Seq(0..cursor)
      BY <1>0 DEF Held
    <3>2. Append(eventChan[r], 0) \in Seq(0..cursor)
      BY <1>0, <3>1, HeldQueue
    <3>. QED  BY <2>1, <3>1, <3>2
  <2>. QED  BY <1>0, <2>1, <2>2 DEF Held
<1>9. ASSUME NEW s \in Servers, Crash(s) PROVE Held(r)'
  <2>1. <<>> \in Seq(0..cursor)
    OBVIOUS
  <2>. QED  BY <1>0, <1>9, <2>1 DEF Crash, Held, Idle
<1>10. CASE UNCHANGED vars
  BY <1>0, <1>10 DEF vars, Held
<1>. QED
  BY <1>1, <1>2, <1>3, <1>4, <1>5, <1>6, <1>7, <1>8, <1>9, <1>10 DEF Next, Server

\* Writing a message announces its event and takes back none.
LEMMA AnnouncedGrows ==
    ASSUME NEW E, NEW q \in Seq(E), NEW e \in E
    PROVE  {Append(q, e)[i] : i \in 1..Len(Append(q, e))}
              = {q[i] : i \in 1..Len(q)} \cup {e}
<1>1. Len(Append(q, e)) = Len(q) + 1 /\ Len(q) \in Nat
  OBVIOUS
<1>2. \A i \in 1..Len(q) : Append(q, e)[i] = q[i]
  OBVIOUS
<1>3. Append(q, e)[Len(q) + 1] = e
  OBVIOUS
<1>4. 1..(Len(q) + 1) = 1..Len(q) \cup {Len(q) + 1}
  BY <1>1
<1>. QED  BY <1>1, <1>2, <1>3, <1>4

\* Every step is an Announce or a Grant of CreditGrants, or leaves it alone.
LEMMA GrantStep ==
    TypeOK /\ HeldInv /\ [Next]_vars => [Grants!Next]_<<Announced, rows>>
<1> SUFFICES ASSUME TypeOK, HeldInv, [Next]_vars
             PROVE  [Grants!Next]_<<Announced, rows>>
  OBVIOUS
<1>0. stream' = stream => Announced' = Announced
  BY DEF Announced
<1>1. ASSUME NEW e \in Events, Publish(e) PROVE Grants!Announce(e)
  <2>1. stream' = Append(stream, e) /\ rows' = rows /\ stream \in Seq(Events)
    BY <1>1 DEF Publish, TypeOK
  <2>2. Announced' = Announced \cup {e}
    BY <2>1, AnnouncedGrows DEF Announced
  <2>. QED  BY <2>1, <2>2 DEF Grants!Announce
<1>2. ASSUME NEW s \in Servers, HandleEvent(s), rows' # rows
      PROVE  \E e \in Events : Grants!Grant(e)
  <2>1. PICK i \in handling[s] : Granting(i) /\ AddCredits(stream[i]) /\ stream' = stream
    BY <1>2 DEF HandleEvent
  <2>2. i \in 1..Len(stream) /\ stream[i] \in Announced
    <3>1. i \in 0..cursor /\ i # 0 /\ cursor \in 0..Len(stream) /\ Len(stream) \in Nat
      BY <2>1 DEF HeldInv, Held, TypeOK, Granting, Report
    <3>. QED  BY <3>1 DEF Announced
  <2>3. stream[i] \in Events
    BY <2>1 DEF Granting, Events
  <2>4. rows[stream[i]] = 0 /\ rows' = [rows EXCEPT ![stream[i]] = 1]
    BY <1>2, <2>1 DEF AddCredits
  <2>5. Announced' = Announced
    BY <1>0, <2>1
  <2>. QED  BY <2>2, <2>3, <2>4, <2>5 DEF Grants!Grant
<1>3. CASE \E e \in Events : Publish(e)
  BY <1>1, <1>3 DEF Grants!Next
<1>4. CASE \E s \in Servers : HandleEvent(s)
  <2>1. stream' = stream
    BY <1>4 DEF HandleEvent
  <2>. QED  BY <1>0, <1>2, <1>4, <2>1 DEF Grants!Next
<1>5. ASSUME NEW s \in Servers,
             Start(s) \/ Read(s) \/ ProcessMessage(s) \/ Ack(s) \/ Take(s)
                \/ ReportEvent(s) \/ Crash(s)
      PROVE  stream' = stream /\ rows' = rows
  BY <1>5 DEF Start, Read, ProcessMessage, Ack, Take, ReportEvent, Crash
<1>6. CASE UNCHANGED vars
  BY <1>0, <1>6 DEF vars
<1>. QED
  BY <1>0, <1>3, <1>4, <1>5, <1>6 DEF Next, Server

\* Every announced event is credited at most once and no other is, whatever
\* the payment service repeats, the servers lose or the database refuses.
THEOREM CreditedAtMostOnce == Spec => GrantsCredits
<1>1. Init => HeldInv
  BY HeldInit
<1>2. Init => Grants!Init
  <2>1. stream = <<>> => Announced = {}
    BY DEF Announced
  <2>. QED  BY <2>1 DEF Init, Grants!Init
<1>. QED
  BY <1>1, <1>2, TypeInit, TypeStep, HeldStep, GrantStep, PTL
     DEF Spec, GrantsCredits, Grants!Spec

----------------------------------------------------------------------------
(***************************************************************************)
(* OnlyStopLoses.  A message is acknowledged only after its server refused *)
(* or queued it (AckInv), and what a server queued leaves it only through  *)
(* the handler, or with the server.                                        *)
(***************************************************************************)

Elems(q) == {q[k] : k \in 1..Len(q)}

\* Sending adds an element to a queue, receiving takes out its head.
LEMMA ElemsOps ==
    ASSUME NEW S, NEW q \in Seq(S), NEW i \in S
    PROVE  /\ Elems(Append(q, i)) = Elems(q) \cup {i}
           /\ q # <<>> => Elems(q) = {Head(q)} \cup Elems(Tail(q))
<1>1. Elems(Append(q, i)) = Elems(q) \cup {i}
  BY AnnouncedGrows DEF Elems
<1>2. ASSUME q # <<>> PROVE Elems(q) = {Head(q)} \cup Elems(Tail(q))
  <2>1. Len(q) \in Nat \ {0} /\ Len(Tail(q)) = Len(q) - 1 /\ Head(q) = q[1]
    BY <1>2
  <2>2. \A k \in 1..Len(Tail(q)) : Tail(q)[k] = q[k + 1]
    BY <1>2, <2>1
  <2>3. Elems(q) \subseteq {Head(q)} \cup Elems(Tail(q))
    <3>1. SUFFICES ASSUME NEW k \in 1..Len(q)
                   PROVE  q[k] \in {Head(q)} \cup Elems(Tail(q))
      BY DEF Elems
    <3>2. k # 1 => k - 1 \in 1..Len(Tail(q)) /\ Tail(q)[k - 1] = q[k]
      BY <2>1, <2>2
    <3>. QED  BY <2>1, <3>2 DEF Elems
  <2>4. {Head(q)} \cup Elems(Tail(q)) \subseteq Elems(q)
    <3>1. \A k \in 1..Len(Tail(q)) : k + 1 \in 1..Len(q)
      BY <2>1
    <3>. QED  BY <2>1, <2>2, <3>1 DEF Elems
  <2>. QED  BY <2>3, <2>4
<1>. QED  BY <1>1, <1>2

\* Message i is finished, or server s still has it queued.
Safe(i, s) == i \in done \/ i \in Queued(s)

AckInv == \A s \in Servers : consumer[s].at = "ack" => Safe(consumer[s].msg, s)

\* What a server has queued, or anybody has finished, stays so until it stops.
LEMMA SafeStays ==
    ASSUME TypeOK, [Next]_vars, NEW i \in Messages, NEW s \in Servers, Safe(i, s),
           s \notin up \ up'
    PROVE  Safe(i, s)'
<1>0. /\ eventChan \in [Servers -> Seq({Report} \cup Messages)]
      /\ handling \in [Servers -> SUBSET ({Report} \cup Messages)]
      /\ i # Report
  BY PaymentEventsAssumptions DEF TypeOK, Messages, Report
<1>1. CASE i \in done
  BY <1>1 DEF Safe, Next, Server, vars, Publish, Start, Read, ProcessMessage, Ack,
              Take, HandleEvent, ReportEvent, Crash
<1>2. CASE i \in Queued(s)
  <2>1. ASSUME UNCHANGED <<eventChan, handling>> PROVE Safe(i, s)'
    BY <1>2, <2>1 DEF Safe, Queued
  <2>2. ASSUME NEW r \in Servers, NEW j \in {Report} \cup Messages,
               eventChan' = [eventChan EXCEPT ![r] = Append(@, j)], handling' = handling
        PROVE  Safe(i, s)'
    <3>1. eventChan'[s] = eventChan[s] \/ eventChan'[s] = Append(eventChan[s], j)
      BY <1>0, <2>2
    <3>2. Elems(Append(eventChan[s], j)) = Elems(eventChan[s]) \cup {j}
      BY <1>0, <2>2, ElemsOps
    <3>3. Elems(eventChan[s]) \subseteq Elems(eventChan'[s])
      BY <3>1, <3>2
    <3>. QED  BY <1>2, <2>2, <3>3 DEF Safe, Queued, Elems
  <2>3. ASSUME NEW r \in Servers, ProcessMessage(r) PROVE Safe(i, s)'
    <3>1. consumer[r].msg \in {Report} \cup Messages
      BY <2>3 DEF ProcessMessage, TypeOK, Consumers, Idle
    <3>. QED  BY <2>1, <2>2, <2>3, <3>1 DEF ProcessMessage
  <2>4. ASSUME NEW r \in Servers, ReportEvent(r) PROVE Safe(i, s)'
    BY <2>2, <2>4 DEF ReportEvent
  <2>5. ASSUME NEW r \in Servers, Take(r) PROVE Safe(i, s)'
    <3>1. CASE r = s
      <4>1. /\ handling[s] = {} /\ handling'[s] = {Head(eventChan[s])}
            /\ eventChan'[s] = Tail(eventChan[s]) /\ eventChan[s] # <<>>
        BY <1>0, <2>5, <3>1 DEF Take
      <4>2. Elems(eventChan[s]) = {Head(eventChan[s])} \cup Elems(Tail(eventChan[s]))
        BY <1>0, <4>1, ElemsOps
      <4>. QED  BY <1>2, <4>1, <4>2 DEF Safe, Queued, Elems
    <3>2. CASE r # s
      BY <1>0, <1>2, <2>5, <3>2 DEF Take, Safe, Queued
    <3>. QED  BY <3>1, <3>2
  <2>6. ASSUME NEW r \in Servers, HandleEvent(r) PROVE Safe(i, s)'
    <3>1. PICK j \in handling[r] :
            /\ handling' = [handling EXCEPT ![r] = @ \ {j}] /\ eventChan' = eventChan
            /\ IF j = Report THEN UNCHANGED done ELSE done' = done \cup {j}
      BY <2>6 DEF HandleEvent
    <3>. QED  BY <1>0, <1>2, <3>1 DEF Safe, Queued
  <2>7. ASSUME NEW r \in Servers, Crash(r) PROVE Safe(i, s)'
    <3>1. r # s
      BY <2>7 DEF Crash
    <3>. QED  BY <1>0, <1>2, <2>7, <3>1 DEF Crash, Safe, Queued
  <2>8. CASE UNCHANGED vars
    BY <2>1, <2>8 DEF vars
  <2>. QED
    BY <2>1, <2>3, <2>4, <2>5, <2>6, <2>7, <2>8 DEF Next, Server, Publish, Start, Read, Ack
<1>. QED  BY <1>1, <1>2 DEF Safe

\* Nothing is about to be acknowledged at first.
LEMMA AckInit == Init => AckInv
BY DEF Init, AckInv, Idle

\* The strengthened invariant is inductive.
LEMMA AckStep == TypeOK /\ AckInv /\ [Next]_vars => AckInv'
<1> SUFFICES ASSUME TypeOK, AckInv, [Next]_vars,
                    NEW s \in Servers, consumer'[s].at = "ack",
                    NEW i, i = consumer'[s].msg
             PROVE  Safe(i, s)'
  BY DEF AckInv, Safe, Queued
<1>0. consumer \in [Servers -> Consumers]
  BY DEF TypeOK
<1>1. CASE consumer'[s] = consumer[s]
  <2>1. i \in Messages /\ i = consumer[s].msg
    BY <1>0, <1>1 DEF Consumers, Idle
  <2>2. Safe(i, s)
    BY <1>1, <2>1 DEF AckInv
  <2>3. ASSUME s \in up \ up' PROVE FALSE
    <3>1. Crash(s)
      <4>1. ASSUME NEW r \in Servers, Crash(r) PROVE r = s
        BY <2>3, <4>1 DEF Crash
      <4>. QED
        BY <2>3, <4>1 DEF Next, Server, vars, Publish, Start, Read, ProcessMessage, Ack,
                          Take, HandleEvent, ReportEvent
    <3>2. consumer'[s] = Idle
      BY <1>0, <3>1 DEF Crash
    <3>. QED  BY <3>2 DEF Idle
  <2>. QED  BY <2>1, <2>2, <2>3, SafeStays
<1>2. CASE ProcessMessage(s)
  <2>1. consumer[s] \in [at : {"process", "ack"}, msg : Messages]
    BY <1>0, <1>2 DEF ProcessMessage, Consumers, Idle
  <2>2. consumer'[s].msg = consumer[s].msg /\ consumer' # [consumer EXCEPT ![s] = Idle]
    <3>1. consumer' # [consumer EXCEPT ![s] = Idle]
      BY <1>0 DEF Idle
    <3>2. consumer'[s] = [consumer[s] EXCEPT !.at = "ack"]
      BY <1>0, <1>2, <3>1 DEF ProcessMessage
    <3>. QED  BY <2>1, <3>1, <3>2
  <2>3. CASE done' = done \cup {consumer[s].msg}
    BY <2>2, <2>3 DEF Safe
  <2>4. CASE eventChan' = [eventChan EXCEPT ![s] = Append(@, consumer[s].msg)]
    <3>1. eventChan \in [Servers -> Seq({Report} \cup Messages)]
      BY DEF TypeOK
    <3>2. consumer[s].msg \in Elems(eventChan'[s])
      BY <2>1, <2>4, <3>1, ElemsOps
    <3>. QED  BY <2>2, <3>2 DEF Safe, Queued, Elems
  <2>. QED  BY <1>2, <2>2, <2>3, <2>4 DEF ProcessMessage
<1>3. CASE ~ProcessMessage(s) /\ consumer'[s] # consumer[s]
  <2>1. ASSUME NEW r \in Servers, ProcessMessage(r), r # s PROVE FALSE
    BY <1>0, <1>3, <2>1 DEF ProcessMessage
  <2>2. ASSUME NEW r \in Servers, Read(r) PROVE FALSE
    <3>1. consumer'[s] = [at |-> "process", msg |-> cursor + 1]
      BY <1>0, <1>3, <2>2 DEF Read
    <3>. QED  BY <3>1
  <2>3. ASSUME NEW r \in Servers, Ack(r) \/ Crash(r) PROVE FALSE
    <3>1. consumer'[s] = Idle
      BY <1>0, <1>3, <2>3 DEF Ack, Crash
    <3>. QED  BY <3>1 DEF Idle
  <2>4. consumer' # consumer
    BY <1>3
  <2>. QED
    BY <1>3, <2>1, <2>2, <2>3, <2>4
       DEF Next, Server, vars, Publish, Start, Take, HandleEvent, ReportEvent
<1>. QED  BY <1>1, <1>2, <1>3

\* A step that does not stop the server whose channel a message is in keeps it.
LEMMA KeepStep ==
    ASSUME TypeOK, AckInv, [Next]_vars, NEW i \in 1..cursor', i > cursor \/ Kept(i),
           \A s \in up \ up' : i \notin Queued(s)
    PROVE  Kept(i)'
<1>0. /\ consumer \in [Servers -> Consumers] /\ cursor \in Nat /\ pel \subseteq 1..cursor
      /\ up \subseteq Servers
  BY DEF TypeOK
<1>1. CASE \E s \in Servers : Read(s)
  <2>1. cursor' = cursor + 1 /\ pel' = pel \cup {cursor + 1}
    BY <1>1 DEF Read
  <2>2. i > cursor => i \in pel'
    BY <1>0, <2>1
  <2>3. UNCHANGED <<done, eventChan, handling>>
    BY <1>1 DEF Read
  <2>. QED  BY <2>1, <2>2, <2>3 DEF Kept, Queued
<1>2. CASE ~\E s \in Servers : Read(s)
  <2>1. cursor' = cursor
    BY <1>2 DEF Next, Server, vars, Publish, Start, ProcessMessage, Ack, Take, HandleEvent,
                ReportEvent, Crash
  <2>2. i \in 1..cursor /\ i \in Messages /\ Kept(i)
    BY <1>0, <2>1, PaymentEventsAssumptions DEF TypeOK, Messages
  <2>3. ASSUME NEW s \in Servers, Safe(i, s) PROVE Kept(i)'
    <3>1. CASE s \notin up \ up'
      <4>1. Safe(i, s)'
        BY <2>2, <2>3, <3>1, SafeStays
      <4>. QED  BY <4>1 DEF Safe, Kept
    <3>2. CASE s \in up \ up'
      <4>1. i \in done
        BY <2>3, <3>2 DEF Safe
      <4>2. i \in done'
        BY <4>1 DEF Next, Server, vars, Publish, Start, Read, ProcessMessage, Ack,
                    Take, HandleEvent, ReportEvent, Crash
      <4>. QED  BY <4>2 DEF Kept
    <3>. QED  BY <3>1, <3>2
  <2>4. CASE i \in done
    <3>1. i \in done'
      BY <2>4 DEF Next, Server, vars, Publish, Start, Read, ProcessMessage, Ack,
                  Take, HandleEvent, ReportEvent, Crash
    <3>. QED  BY <3>1 DEF Kept
  <2>5. CASE i \in pel
    <3>1. ASSUME NEW s \in Servers, Ack(s) PROVE Kept(i)'
      <4>1. CASE i = consumer[s].msg
        BY <2>3, <3>1, <4>1 DEF Ack, AckInv
      <4>2. CASE i # consumer[s].msg
        BY <2>5, <3>1, <4>2 DEF Ack, Kept
      <4>. QED  BY <4>1, <4>2
    <3>2. CASE pel' = pel
      BY <2>5, <3>2 DEF Kept
    <3>. QED
      BY <1>2, <3>1, <3>2 DEF Next, Server, vars, Publish, Start, ProcessMessage, Take,
                              HandleEvent, ReportEvent, Crash
  <2>. QED  BY <2>2, <2>3, <2>4, <2>5 DEF Kept, Safe
<1>. QED  BY <1>1, <1>2

\* No delivered message vanishes unless a server stops with it in its channel,
\* for any number of servers and messages and any channel capacity.
THEOREM NothingElseLoses == Spec => OnlyStopLoses
<1>1. TypeOK /\ AckInv /\ [Next]_vars =>
        [\A i \in 1..cursor' : (i > cursor \/ Kept(i)) =>
            Kept(i)' \/ \E s \in up \ up' : i \in Queued(s)]_vars
  BY KeepStep
<1>. QED  BY <1>1, AckInit, AckStep, TypeInit, TypeStep, PTL DEF Spec, OnlyStopLoses
=============================================================================
