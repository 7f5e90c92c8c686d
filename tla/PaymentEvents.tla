--------------------------- MODULE PaymentEvents ---------------------------
(***************************************************************************)
(* Payment events on their way to credits: the stream the payment service  *)
(* writes, the consumer group all servers share, each server's consumer    *)
(* loop and its event channel, and the goroutine that handles the events.  *)
(*                                                                         *)
(* A message is its position in the stream.  Reports of the clients share  *)
(* the channel with the payment events: position 0 stands for one of them. *)
(***************************************************************************)
EXTENDS Naturals, Sequences

CONSTANTS Servers,     \* server processes, all of the same consumer group
          Purchases,   \* event ids whose payload grants credits
          Notices,     \* events HandleEvent ignores (expired, canceled, amount 0, ...)
          Malformed,   \* messages processMessage cannot use
          ChanCap,     \* capacity of eventChan (1000)
          MaxSend,     \* bound: messages written to the stream
          Faults       \* which of AllFaults can happen in this instance

AllFaults == {"crash", "dberror", "report", "lostreply"}
Events == Purchases \cup Notices \cup Malformed
Messages == 1..MaxSend
Report == 0

ASSUME PaymentEventsAssumptions ==
    /\ Malformed \cap (Purchases \cup Notices) = {}
    /\ Purchases \cap Notices = {}
    /\ ChanCap \in Nat \ {0}
    /\ MaxSend \in Nat
    /\ Faults \subseteq AllFaults

VARIABLES stream,     \* events in the order the payment service wrote them
          group,      \* whether the consumer group exists
          cursor,     \* last message the group delivered
          pel,        \* delivered and not acknowledged
          up,         \* servers whose consumer has been started
          consumer,   \* what each consumer loop is doing, with which message
          eventChan,  \* each server's event channel
          handling,   \* what the server's processEvents goroutine has taken
          rows,       \* rows of va_user_amount per event id
          done        \* history: messages refused, or whose handler returned

vars == <<stream, group, cursor, pel, up, consumer, eventChan, handling, rows, done>>

Idle == [at |-> "loop", msg |-> 0]
Consumers == {Idle} \cup [at : {"process", "ack"}, msg : Messages]

TypeOK ==
    /\ stream \in Seq(Events) /\ Len(stream) <= MaxSend
    /\ group \in BOOLEAN
    /\ cursor \in 0..Len(stream)
    /\ pel \subseteq 1..cursor
    /\ up \subseteq Servers
    /\ consumer \in [Servers -> Consumers]
    /\ eventChan \in [Servers -> Seq({Report} \cup Messages)]
    /\ \A s \in Servers : Len(eventChan[s]) <= ChanCap
    /\ handling \in [Servers -> SUBSET ({Report} \cup Messages)]
    /\ rows \in [Events -> Nat]
    /\ done \subseteq Messages

Init ==
    /\ stream = <<>>
    /\ group = FALSE
    /\ cursor = 0
    /\ pel = {}
    /\ up = {}
    /\ consumer = [s \in Servers |-> Idle]
    /\ eventChan = [s \in Servers |-> <<>>]
    /\ handling = [s \in Servers |-> {}]
    /\ rows = [e \in Events |-> 0]
    /\ done = {}

----------------------------------------------------------------------------
\* The payment service writes a message; it may write an event again.
Publish(e) ==
    /\ Len(stream) < MaxSend
    /\ stream' = Append(stream, e)
    /\ UNCHANGED <<group, cursor, pel, up, consumer, eventChan, handling, rows, done>>

\* Mutant: the group starts at "$", behind what is already in the stream.
StartAtTail(s) ==
    /\ s \notin up
    /\ up' = up \cup {s}
    /\ group' = (group \/ stream # <<>>)
    /\ cursor' = IF group THEN cursor ELSE Len(stream)
    /\ UNCHANGED <<stream, pel, consumer, eventChan, handling, rows, done>>

\* Start: XGROUP CREATE without MKSTREAM, from "0-0", its error ignored.
Start(s) ==
    /\ s \notin up
    /\ up' = up \cup {s}
    /\ group' = (group \/ stream # <<>>)
    /\ UNCHANGED <<stream, cursor, pel, consumer, eventChan, handling, rows, done>>

\* run: XREADGROUP ... ">" COUNT 1 delivers what was never delivered.
Read(s) ==
    /\ s \in up /\ consumer[s] = Idle
    /\ group /\ cursor < Len(stream)
    /\ cursor' = cursor + 1
    /\ pel' = pel \cup {cursor + 1}
    /\ \/ consumer' = [consumer EXCEPT ![s] = [at |-> "process", msg |-> cursor + 1]]
       \/ "lostreply" \in Faults /\ UNCHANGED consumer
    /\ UNCHANGED <<stream, group, up, eventChan, handling, rows, done>>

\* Mutant: the message is acknowledged whether or not the channel took it.
ProcessMessageAcksAlways(s) ==
    /\ consumer[s].at = "process"
    /\ LET i == consumer[s].msg IN
         /\ consumer' = [consumer EXCEPT ![s].at = "ack"]
         /\ IF stream[i] \in Malformed
            THEN done' = done \cup {i} /\ UNCHANGED eventChan
            ELSE /\ eventChan' = IF Len(eventChan[s]) < ChanCap
                                 THEN [eventChan EXCEPT ![s] = Append(@, i)] ELSE eventChan
                 /\ UNCHANGED done
    /\ UNCHANGED <<stream, group, cursor, pel, up, handling, rows>>

\* processMessage: refuse, hand to the channel (both acknowledge afterwards),
\* or give up on a full channel.
ProcessMessage(s) ==
    /\ consumer[s].at = "process"
    /\ LET i == consumer[s].msg IN
         \/ /\ stream[i] \in Malformed
            /\ done' = done \cup {i}
            /\ consumer' = [consumer EXCEPT ![s].at = "ack"]
            /\ UNCHANGED eventChan
         \/ /\ stream[i] \notin Malformed
            /\ Len(eventChan[s]) < ChanCap
            /\ eventChan' = [eventChan EXCEPT ![s] = Append(@, i)]
            /\ consumer' = [consumer EXCEPT ![s].at = "ack"]
            /\ UNCHANGED done
         \/ /\ stream[i] \notin Malformed
            /\ Len(eventChan[s]) >= ChanCap
            /\ consumer' = [consumer EXCEPT ![s] = Idle]
            /\ UNCHANGED <<eventChan, done>>
    /\ UNCHANGED <<stream, group, cursor, pel, up, handling, rows>>

\* XACK; when it fails the loop goes on all the same.
Ack(s) ==
    /\ consumer[s].at = "ack"
    /\ pel' \in {pel \ {consumer[s].msg}, pel}
    /\ consumer' = [consumer EXCEPT ![s] = Idle]
    /\ UNCHANGED <<stream, group, cursor, up, eventChan, handling, rows, done>>

\* Mutant: the queue is not bounded.
ReportEventUnbounded(s) ==
    /\ "report" \in Faults
    /\ s \in up /\ Len(eventChan[s]) <= ChanCap
    /\ eventChan' = [eventChan EXCEPT ![s] = Append(@, Report)]
    /\ UNCHANGED <<stream, group, cursor, pel, up, consumer, handling, rows, done>>

\* ReportEvent puts a client's event into the channel, or drops it.
ReportEvent(s) ==
    /\ "report" \in Faults
    /\ s \in up /\ Len(eventChan[s]) < ChanCap
    /\ eventChan' = [eventChan EXCEPT ![s] = Append(@, Report)]
    /\ UNCHANGED <<stream, group, cursor, pel, up, consumer, handling, rows, done>>

\* processEvents takes the next event ...
Take(s) ==
    /\ eventChan[s] # <<>> /\ handling[s] = {}
    /\ handling' = [handling EXCEPT ![s] = {Head(eventChan[s])}]
    /\ eventChan' = [eventChan EXCEPT ![s] = Tail(@)]
    /\ UNCHANGED <<stream, group, cursor, pel, up, consumer, rows, done>>

\* Mutant: source_id has no unique index.
AddCreditsAgain(e) == rows' = [rows EXCEPT ![e] = @ + 1]

\* AddCredits inserts a row under the event's id; source_id is unique, so a
\* second insert fails and the transaction is rolled back.
AddCredits(e) ==
    IF rows[e] = 0 THEN rows' = [rows EXCEPT ![e] = 1] ELSE UNCHANGED rows

Granting(i) == i # Report /\ stream[i] \in Purchases

\* ... and handles it.  An error of the handler is only logged.
HandleEvent(s) ==
    \E i \in handling[s] :
        /\ handling' = [handling EXCEPT ![s] = @ \ {i}]
        /\ IF i = Report THEN UNCHANGED done ELSE done' = done \cup {i}
        /\ \/ Granting(i) /\ AddCredits(stream[i])
           \/ (Granting(i) => "dberror" \in Faults) /\ UNCHANGED rows
        /\ UNCHANGED <<stream, group, cursor, pel, up, consumer, eventChan>>

\* The process ends, by a crash or a deployment: StopAll drains nothing.
Crash(s) ==
    /\ "crash" \in Faults
    /\ s \in up
    /\ up' = up \ {s}
    /\ consumer' = [consumer EXCEPT ![s] = Idle]
    /\ eventChan' = [eventChan EXCEPT ![s] = <<>>]
    /\ handling' = [handling EXCEPT ![s] = {}]
    /\ UNCHANGED <<stream, group, cursor, pel, rows, done>>

Server(s) ==
    \/ Start(s) \/ Read(s) \/ ProcessMessage(s) \/ Ack(s)
    \/ Take(s) \/ HandleEvent(s)

Next ==
    \/ \E e \in Events : Publish(e)
    \/ \E s \in Servers : Server(s) \/ ReportEvent(s) \/ Crash(s)

Spec == Init /\ [][Next]_vars

----------------------------------------------------------------------------
Announced == {stream[i] : i \in 1..Len(stream)}

Grants == INSTANCE CreditGrants WITH announced <- Announced

\* Credits are granted once per announced event: neither a message written
\* twice, nor a crash, nor two servers can grant an event twice.
GrantsCredits == Grants!Spec

Queued(s) == {eventChan[s][k] : k \in 1..Len(eventChan[s])} \cup handling[s]

\* A message is kept while it is unacknowledged, queued in a server, or finished.
Kept(i) == i \in pel \cup done \/ \E s \in Servers : i \in Queued(s)

\* Safety, as the design document promises it: no delivered message vanishes.
Accounted == \A i \in 1..cursor : Kept(i)

\* Action property: a delivered message is kept, and only the stop of the server
\* whose channel it is in ends that: not a full channel, a lost reply, a failed
\* acknowledgement, a failed handler, or the stop of another server.
OnlyStopLoses ==
    [][\A i \in 1..cursor' : (i > cursor \/ Kept(i)) =>
          Kept(i)' \/ \E s \in up \ up' : i \in Queued(s)]_vars

----------------------------------------------------------------------------
\* Servers are started, and their two goroutines are scheduled.
FairSpec == Spec /\ \A s \in Servers :
    /\ WF_vars(Start(s))
    /\ WF_vars(Read(s))
    /\ WF_vars(ProcessMessage(s))
    /\ WF_vars(Ack(s))
    /\ WF_vars(Take(s))
    /\ WF_vars(HandleEvent(s))

\* A purchase in the stream of an existing group is credited in the end.
PurchaseCredited ==
    \A e \in Purchases : (group /\ e \in Announced) ~> rows[e] = 1
=============================================================================
