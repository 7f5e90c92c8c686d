--------------------------- MODULE EventReporter ---------------------------
(***************************************************************************)
(* The analytics reporter of one server: handlers put events into a        *)
(* bounded queue without waiting, one worker collects them into batches    *)
(* and sends these, by size, by time, on request, and once more when the   *)
(* server shuts down.                                                      *)
(*                                                                         *)
(* An event is <<producer, n>>, the n-th of its producer.  Go's select     *)
(* takes any of the cases that are ready.                                  *)
(***************************************************************************)
EXTENDS Naturals, Sequences, FiniteSets

CONSTANTS Producers,   \* goroutines that track events
          MaxEvents,   \* bound: events of each producer
          QueueSize,   \* capacity of eventCh (10000)
          BatchSize    \* events of a full batch (100)

ASSUME EventReporterAssumptions ==
    MaxEvents \in Nat /\ QueueSize \in Nat \ {0} /\ BatchSize \in Nat \ {0}

VARIABLES tracked,    \* events each producer has queued
          inTrack,    \* producers between Track's check and its send
          queue,      \* eventCh
          batch,      \* what the worker has collected
          worker,     \* what the worker does
          shutdown,   \* the flag; doneCh is closed with it
          stopper,    \* what the caller of Shutdown does
          flusher,    \* what a caller of Flush does
          sent,       \* events of batches the sink confirmed, in this order
          lost,       \* events of batches whose send failed, or was not confirmed
          late        \* history: events queued after the shutdown began

reporterVars == <<tracked, inTrack, queue, batch, worker, shutdown, stopper, flusher, sent, lost, late>>

TrackedEvents == Producers \X (1..MaxEvents)

\* "replying" sends a batch for Flush, "last" the batch of a shutdown.
Sending == {"sending", "replying", "last"}

ReporterTypeOK ==
    /\ tracked \in [Producers -> 0..MaxEvents]
    /\ inTrack \subseteq Producers
    /\ queue \in Seq(TrackedEvents) /\ Len(queue) <= QueueSize
    /\ batch \in Seq(TrackedEvents)
    /\ worker \in {"waiting", "draining", "exited"} \cup Sending
    /\ shutdown \in BOOLEAN
    /\ stopper \in {"idle", "waiting", "closed", "timedOut"}
    /\ flusher \in {"idle", "asking", "asked"}
    /\ sent \in Seq(TrackedEvents)
    /\ lost \subseteq TrackedEvents /\ late \subseteq TrackedEvents

ReporterInit ==
    /\ tracked = [p \in Producers |-> 0]
    /\ inTrack = {}
    /\ queue = <<>> /\ batch = <<>>
    /\ worker = "waiting"
    /\ shutdown = FALSE
    /\ stopper = "idle" /\ flusher = "idle"
    /\ sent = <<>>
    /\ lost = {} /\ late = {}

----------------------------------------------------------------------------
\* Track: the flag is looked at, the interceptor works, the event is queued
\* unless the queue is full.
TrackCheck(p) ==
    /\ p \notin inTrack /\ tracked[p] < MaxEvents /\ ~shutdown
    /\ inTrack' = inTrack \cup {p}
    /\ UNCHANGED <<tracked, queue, batch, worker, shutdown, stopper, flusher, sent, lost, late>>

\* Mutant of TrackSend: a full queue makes room.
TrackSendEvicting(p) ==
    /\ p \in inTrack
    /\ inTrack' = inTrack \ {p}
    /\ tracked' = [tracked EXCEPT ![p] = @ + 1]
    /\ LET e == <<p, tracked[p] + 1>> IN
         /\ queue' = Append(IF Len(queue) < QueueSize THEN queue ELSE Tail(queue), e)
         /\ late' = IF shutdown THEN late \cup {e} ELSE late
    /\ UNCHANGED <<batch, worker, shutdown, stopper, flusher, sent, lost>>

\* Mutant of TrackSend: the capacity is not looked at.
TrackSendUnbounded(p) ==
    /\ p \in inTrack
    /\ inTrack' = inTrack \ {p}
    /\ tracked' = [tracked EXCEPT ![p] = @ + 1]
    /\ queue' = Append(queue, <<p, tracked[p] + 1>>)
    /\ UNCHANGED <<batch, worker, shutdown, stopper, flusher, sent, lost, late>>

TrackSend(p) ==
    /\ p \in inTrack
    /\ inTrack' = inTrack \ {p}
    /\ LET e == <<p, tracked[p] + 1>> IN
         \/ /\ Len(queue) < QueueSize
            /\ tracked' = [tracked EXCEPT ![p] = @ + 1]
            /\ queue' = Append(queue, e)
            /\ late' = IF shutdown THEN late \cup {e} ELSE late
         \/ Len(queue) = QueueSize /\ UNCHANGED <<tracked, queue, late>>
    /\ UNCHANGED <<batch, worker, shutdown, stopper, flusher, sent, lost>>

----------------------------------------------------------------------------
\* flushWorker: an event comes, and a full batch is sent.
WorkerTake ==
    /\ worker = "waiting" /\ queue # <<>>
    /\ batch' = Append(batch, Head(queue)) /\ queue' = Tail(queue)
    /\ worker' = IF Len(batch') >= BatchSize THEN "sending" ELSE "waiting"
    /\ UNCHANGED <<tracked, inTrack, shutdown, stopper, flusher, sent, lost, late>>

\* Mutant of WorkerTick: the ticker sends full batches only.
WorkerTickFull ==
    /\ worker = "waiting" /\ Len(batch) >= BatchSize
    /\ worker' = "sending"
    /\ UNCHANGED <<tracked, inTrack, queue, batch, shutdown, stopper, flusher, sent, lost, late>>

WorkerTick ==
    /\ worker = "waiting" /\ batch # <<>>
    /\ worker' = "sending"
    /\ UNCHANGED <<tracked, inTrack, queue, batch, shutdown, stopper, flusher, sent, lost, late>>

\* A request to flush is taken: the batch is sent, if there is one.
WorkerFlush ==
    /\ worker = "waiting" /\ flusher = "asking"
    /\ IF batch = <<>> THEN flusher' = "idle" /\ UNCHANGED worker
                       ELSE flusher' = "asked" /\ worker' = "replying"
    /\ UNCHANGED <<tracked, inTrack, queue, batch, shutdown, stopper, sent, lost, late>>

WorkerStop ==
    /\ worker = "waiting" /\ shutdown
    /\ worker' = "draining"
    /\ UNCHANGED <<tracked, inTrack, queue, batch, shutdown, stopper, flusher, sent, lost, late>>

\* Mutant of WorkerDrain: the queue is left as it is.
WorkerDrainNothing ==
    /\ worker = "draining"
    /\ worker' = IF batch = <<>> THEN "exited" ELSE "last"
    /\ UNCHANGED <<tracked, inTrack, queue, batch, shutdown, stopper, flusher, sent, lost, late>>

\* The queue is emptied into the batch, event by event; then the batch is sent.
WorkerDrain ==
    /\ worker = "draining"
    /\ \/ queue # <<>> /\ batch' = Append(batch, Head(queue)) /\ queue' = Tail(queue) /\ UNCHANGED worker
       \/ queue = <<>> /\ worker' = (IF batch = <<>> THEN "exited" ELSE "last") /\ UNCHANGED <<queue, batch>>
    /\ UNCHANGED <<tracked, inTrack, shutdown, stopper, flusher, sent, lost, late>>

\* Mutant of WorkerSent: a batch that could not be sent is sent again with the next.
WorkerSentAgain ==
    /\ worker \in Sending
    /\ \/ sent' = sent \o batch /\ batch' = <<>> /\ UNCHANGED lost
       \/ sent' = sent \o batch /\ UNCHANGED <<batch, lost>>
    /\ worker' = IF worker = "last" THEN "exited" ELSE "waiting"
    /\ flusher' = IF worker = "replying" /\ flusher = "asked" THEN "idle" ELSE flusher
    /\ UNCHANGED <<tracked, inTrack, queue, shutdown, stopper, late>>

\* sendBatch returns: the sink confirmed the batch, or it counts as lost, for a batch
\* is not sent again.  (The sink may have it all the same, when only the answer was
\* late.)  Flush gets its answer.
WorkerSent ==
    /\ worker \in Sending
    /\ \/ sent' = sent \o batch /\ UNCHANGED lost
       \/ lost' = lost \cup {batch[i] : i \in DOMAIN batch} /\ UNCHANGED sent
    /\ batch' = <<>>
    /\ worker' = IF worker = "last" THEN "exited" ELSE "waiting"
    /\ flusher' = IF worker = "replying" /\ flusher = "asked" THEN "idle" ELSE flusher
    /\ UNCHANGED <<tracked, inTrack, queue, shutdown, stopper, late>>

FlushWorker == \/ WorkerTake \/ WorkerTick \/ WorkerFlush \/ WorkerStop \/ WorkerDrain \/ WorkerSent

----------------------------------------------------------------------------
\* Flush asks the worker and waits for its answer, until the context is over.
FlushAsk ==
    /\ flusher = "idle"
    /\ flusher' = "asking"
    /\ UNCHANGED <<tracked, inTrack, queue, batch, worker, shutdown, stopper, sent, lost, late>>

FlushGivesUp ==
    /\ flusher # "idle"
    /\ flusher' = "idle"
    /\ UNCHANGED <<tracked, inTrack, queue, batch, worker, shutdown, stopper, sent, lost, late>>

\* Shutdown sets the flag and closes doneCh.
Shutdown ==
    /\ ~shutdown
    /\ shutdown' = TRUE /\ stopper' = "waiting"
    /\ UNCHANGED <<tracked, inTrack, queue, batch, worker, flusher, sent, lost, late>>

\* It waits for the worker, and closes the connection, or for its context.
ShutdownEnds ==
    /\ stopper = "waiting"
    /\ stopper' \in {"closed", "timedOut"}
    /\ stopper' = "closed" => worker = "exited"
    /\ UNCHANGED <<tracked, inTrack, queue, batch, worker, shutdown, flusher, sent, lost, late>>

ReporterNext ==
    \/ \E p \in Producers : TrackCheck(p) \/ TrackSend(p)
    \/ FlushWorker
    \/ FlushAsk \/ FlushGivesUp
    \/ Shutdown \/ ShutdownEnds

ReporterSpec == ReporterInit /\ [][ReporterNext]_reporterVars

\* The worker runs, a send returns within its ten seconds, and its ticker ticks.
WorkerRuns == WorkerTake \/ WorkerDrain \/ WorkerSent
ReporterFairness == WF_reporterVars(WorkerRuns) /\ WF_reporterVars(WorkerTick)

----------------------------------------------------------------------------
\* Everything that was queued, in the order in which it is, or was, or would be sent.
Pipeline == sent \o batch \o queue

\* Safety: the events of a producer leave in the order it tracked them, none of
\* them twice, through whatever of the four reasons their batch was sent.
InOrder ==
    \A i, j \in DOMAIN Pipeline :
        i < j /\ Pipeline[i][1] = Pipeline[j][1] => Pipeline[i][2] < Pipeline[j][2]

\* Safety: an event that was queued is in the queue, in the batch or sent, or its
\* batch counts as lost; never two of them.
NoneVanishes ==
    \A p \in Producers, n \in 1..MaxEvents :
        LET there == \E i \in DOMAIN Pipeline : Pipeline[i] = <<p, n>> IN
        IF n <= tracked[p] THEN there <=> <<p, n>> \notin lost ELSE ~there /\ <<p, n>> \notin lost

\* Safety: once Shutdown has closed the connection nothing is left behind but
\* events whose Track had passed the flag before it was set.
ShutdownDrains ==
    stopper = "closed" => batch = <<>> /\ \A i \in DOMAIN queue : queue[i] \in late

\* Liveness: what is queued leaves the queue and the batch, unless it came too late.
QueueMoves ==
    \A p \in Producers, n \in 1..MaxEvents :
        <<p, n>> \in {queue[i] : i \in DOMAIN queue} ~>
            <<p, n>> \in {sent[i] : i \in DOMAIN sent} \cup lost \cup late
=============================================================================
