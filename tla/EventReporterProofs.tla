------------------------ MODULE EventReporterProofs ------------------------
(***************************************************************************)
(* Theorems about EventReporter, for any number of producers and events    *)
(* and any sizes of the queue and the batch.                               *)
(***************************************************************************)
EXTENDS EventReporter, TLAPS, SequenceTheorems

\* A producer in Track has an event left.
HasEvent == \A p \in inTrack : tracked[p] < MaxEvents

\* What Shutdown rests on: the worker stops because of it, leaves nothing in the
\* queue, and sends the last batch before it is gone.
Drained ==
    /\ worker \in {"draining", "last", "exited"} => shutdown
    /\ worker \in {"last", "exited"} => \A i \in DOMAIN queue : queue[i] \in late
    /\ worker = "exited" => batch = <<>>
    /\ stopper = "closed" => worker = "exited"

ReporterInv == ReporterTypeOK /\ HasEvent /\ Drained

----------------------------------------------------------------------------
\* The queue and the batch.
LEMMA PutTypes ==
    ASSUME ReporterTypeOK, NEW e \in TrackedEvents
    PROVE  /\ Append(queue, e) \in Seq(TrackedEvents) /\ Len(Append(queue, e)) = Len(queue) + 1
           /\ Len(queue) \in Nat
           /\ \A i \in DOMAIN Append(queue, e) :
                \/ i \in DOMAIN queue /\ Append(queue, e)[i] = queue[i]
                \/ Append(queue, e)[i] = e
BY DEF ReporterTypeOK

LEMMA TakeTypes ==
    ASSUME ReporterTypeOK, queue # <<>>
    PROVE  /\ Tail(queue) \in Seq(TrackedEvents) /\ Len(Tail(queue)) <= QueueSize
           /\ Append(batch, Head(queue)) \in Seq(TrackedEvents)
<1>1. Head(queue) \in TrackedEvents /\ Tail(queue) \in Seq(TrackedEvents) /\ Len(Tail(queue)) = Len(queue) - 1
  BY DEF ReporterTypeOK
<1>2. Len(queue) \in Nat /\ Len(queue) <= QueueSize /\ QueueSize \in Nat
  BY EventReporterAssumptions DEF ReporterTypeOK
<1>. QED
  BY <1>1, <1>2 DEF ReporterTypeOK

----------------------------------------------------------------------------
\* Each action keeps the invariant.
LEMMA TrackCheckKeeps ==
    ASSUME ReporterInv, NEW p \in Producers, TrackCheck(p)
    PROVE  ReporterInv'
BY DEF TrackCheck, ReporterInv, ReporterTypeOK, HasEvent, Drained

LEMMA TrackSendKeeps ==
    ASSUME ReporterInv, NEW p \in Producers, TrackSend(p)
    PROVE  ReporterInv'
<1>. DEFINE e == <<p, tracked[p] + 1>>
<1>1. CASE UNCHANGED <<tracked, queue, late>>
  BY <1>1 DEF TrackSend, ReporterInv, ReporterTypeOK, HasEvent, Drained
<1>2. CASE /\ Len(queue) < QueueSize
           /\ tracked' = [tracked EXCEPT ![p] = @ + 1]
           /\ queue' = Append(queue, e)
           /\ late' = IF shutdown THEN late \cup {e} ELSE late
  <2>1. p \in inTrack /\ inTrack' = inTrack \ {p}
        /\ UNCHANGED <<batch, worker, shutdown, stopper, flusher, sent, lost>>
    BY DEF TrackSend
  <2>2. tracked[p] + 1 \in 1..MaxEvents /\ tracked[p] + 1 \in 0..MaxEvents
    BY <2>1, EventReporterAssumptions DEF ReporterInv, ReporterTypeOK, HasEvent
  <2>3. e \in TrackedEvents
    BY <2>2 DEF TrackedEvents
  <2>. HIDE DEF e
  <2>4. queue' \in Seq(TrackedEvents) /\ Len(queue') = Len(queue) + 1 /\ Len(queue) \in Nat
    BY <1>2, <2>3, PutTypes DEF ReporterInv
  <2>5. Len(queue') <= QueueSize
    BY <1>2, <2>4, EventReporterAssumptions
  <2>6. tracked' \in [Producers -> 0..MaxEvents] /\ \A q \in Producers \ {p} : tracked'[q] = tracked[q]
    BY <1>2, <2>2 DEF ReporterInv, ReporterTypeOK
  <2>7. ReporterTypeOK'
    BY <1>2, <2>1, <2>3, <2>4, <2>5, <2>6 DEF ReporterInv, ReporterTypeOK
  <2>8. HasEvent'
    BY <2>1, <2>6 DEF ReporterInv, ReporterTypeOK, HasEvent
  <2>9. Drained'
    <3>1. \A i \in DOMAIN queue' : (i \in DOMAIN queue /\ queue'[i] = queue[i]) \/ queue'[i] = e
      BY <1>2, <2>3, PutTypes DEF ReporterInv
    <3>. QED
      BY <1>2, <2>1, <3>1 DEF ReporterInv, Drained
  <2>. QED
    BY <2>7, <2>8, <2>9 DEF ReporterInv
<1>. QED
  BY <1>1, <1>2 DEF TrackSend

LEMMA WorkerTakeKeeps == ASSUME ReporterInv, WorkerTake PROVE ReporterInv'
<1>1. batch' \in Seq(TrackedEvents) /\ queue' \in Seq(TrackedEvents) /\ Len(queue') <= QueueSize
  BY TakeTypes DEF WorkerTake, ReporterInv
<1>2. worker = "waiting" /\ worker' \in {"sending", "waiting"}
  BY DEF WorkerTake
<1>3. UNCHANGED <<tracked, inTrack, shutdown, stopper, flusher, sent, lost, late>>
  BY DEF WorkerTake
<1>. QED
  BY <1>1, <1>2, <1>3 DEF ReporterInv, ReporterTypeOK, HasEvent, Drained, Sending

LEMMA WorkerDrainKeeps == ASSUME ReporterInv, WorkerDrain PROVE ReporterInv'
<1>1. worker = "draining" /\ UNCHANGED <<tracked, inTrack, shutdown, stopper, flusher, sent, lost, late>>
  BY DEF WorkerDrain
<1>2. CASE queue # <<>> /\ batch' = Append(batch, Head(queue)) /\ queue' = Tail(queue) /\ UNCHANGED worker
  <2>1. batch' \in Seq(TrackedEvents) /\ queue' \in Seq(TrackedEvents) /\ Len(queue') <= QueueSize
    BY <1>2, TakeTypes DEF ReporterInv
  <2>. QED
    BY <1>1, <1>2, <2>1 DEF ReporterInv, ReporterTypeOK, HasEvent, Drained, Sending
<1>3. CASE queue = <<>> /\ worker' = (IF batch = <<>> THEN "exited" ELSE "last") /\ UNCHANGED <<queue, batch>>
  BY <1>1, <1>3 DEF ReporterInv, ReporterTypeOK, HasEvent, Drained, Sending
<1>. QED
  BY <1>2, <1>3 DEF WorkerDrain

LEMMA WorkerSentKeeps == ASSUME ReporterInv, WorkerSent PROVE ReporterInv'
<1>1. sent' \in Seq(TrackedEvents) /\ lost' \subseteq TrackedEvents
  <2>1. CASE sent' = sent \o batch /\ UNCHANGED lost
    BY <2>1 DEF ReporterInv, ReporterTypeOK
  <2>2. CASE lost' = lost \cup {batch[i] : i \in DOMAIN batch} /\ UNCHANGED sent
    BY <2>2 DEF ReporterInv, ReporterTypeOK
  <2>. QED
    BY <2>1, <2>2 DEF WorkerSent
<1>2. /\ worker \in Sending /\ batch' = <<>>
      /\ worker' = IF worker = "last" THEN "exited" ELSE "waiting"
      /\ UNCHANGED <<tracked, inTrack, queue, shutdown, stopper, late>>
  BY DEF WorkerSent
<1>3. flusher' \in {"idle", "asking", "asked"}
  BY DEF WorkerSent, ReporterInv, ReporterTypeOK
<1>4. batch' \in Seq(TrackedEvents)
  BY <1>2
<1>5. ReporterTypeOK'
  BY <1>1, <1>2, <1>3, <1>4 DEF ReporterInv, ReporterTypeOK, Sending
<1>6. HasEvent' /\ Drained'
  BY <1>2 DEF ReporterInv, HasEvent, Drained, Sending
<1>. QED
  BY <1>5, <1>6 DEF ReporterInv

LEMMA OtherWorkerKeeps ==
    ASSUME ReporterInv, WorkerTick \/ WorkerFlush \/ WorkerStop
    PROVE  ReporterInv'
BY DEF WorkerTick, WorkerFlush, WorkerStop, ReporterInv, ReporterTypeOK, HasEvent, Drained, Sending

LEMMA CallerKeeps ==
    ASSUME ReporterInv, FlushAsk \/ FlushGivesUp \/ Shutdown \/ ShutdownEnds \/ UNCHANGED reporterVars
    PROVE  ReporterInv'
BY DEF FlushAsk, FlushGivesUp, Shutdown, ShutdownEnds, reporterVars, ReporterInv, ReporterTypeOK, HasEvent, Drained,
       Sending

\* One case per action of ReporterNext.
THEOREM ReporterInvariant == ReporterSpec => []ReporterInv
<1>1. ReporterInit => ReporterInv
  <2>1. <<>> \in Seq(TrackedEvents) /\ Len(<<>>) <= QueueSize /\ 0 \in 0..MaxEvents
    BY EventReporterAssumptions
  <2>. QED
    BY <2>1 DEF ReporterInit, ReporterInv, ReporterTypeOK, HasEvent, Drained
<1>2. ReporterInv /\ [ReporterNext]_reporterVars => ReporterInv'
  BY TrackCheckKeeps, TrackSendKeeps, WorkerTakeKeeps, WorkerDrainKeeps, WorkerSentKeeps, OtherWorkerKeeps, CallerKeeps
     DEF ReporterNext, FlushWorker
<1>. QED
  BY <1>1, <1>2, PTL DEF ReporterSpec

\* Nothing but tracked events is ever queued or sent, and the queue keeps its bound.
THEOREM ReporterTypeCorrect == ReporterSpec => []ReporterTypeOK
<1>1. ReporterInv => ReporterTypeOK
  BY DEF ReporterInv
<1>. QED
  BY <1>1, ReporterInvariant, PTL

\* ShutdownDrains: the connection is closed on nothing but events that were queued
\* after the shutdown began.
THEOREM ShutdownDrainsHolds == ReporterSpec => []ShutdownDrains
<1>1. ReporterInv => ShutdownDrains
  BY DEF ReporterInv, Drained, ShutdownDrains
<1>. QED
  BY <1>1, ReporterInvariant, PTL

----------------------------------------------------------------------------
\* Order and completeness.  The worker moves events along the pipeline; only a batch
\* that is lost leaves it, and only TrackSend adds to it.
There(e) == \E i \in DOMAIN Pipeline : Pipeline[i] = e
Batched(e) == \E i \in DOMAIN batch : batch[i] = e

LEMMA PipelineType ==
    ASSUME ReporterTypeOK
    PROVE  /\ sent \o batch \in Seq(TrackedEvents) /\ Pipeline \in Seq(TrackedEvents)
           /\ sent \in Seq(TrackedEvents) /\ batch \in Seq(TrackedEvents) /\ queue \in Seq(TrackedEvents)
BY ConcatProperties DEF ReporterTypeOK, Pipeline

\* The head of one sequence goes to the end of the one before it.
LEMMA HeadMoves ==
    ASSUME NEW S, NEW b \in Seq(S), NEW c \in Seq(S), c # <<>>
    PROVE  Append(b, Head(c)) \o Tail(c) = b \o c
<1>. DEFINE h == Head(c)
            t == Tail(c)
<1>1. h \in S /\ t \in Seq(S) /\ <<h>> \in Seq(S)
  BY HeadTailProperties
<1>2. <<h>> \o t = c
  <2>1. Len(<<h>>) = 1 /\ <<h>>[1] = c[1] /\ Len(c) \in Nat /\ Len(t) = Len(c) - 1
    BY HeadTailProperties, LenProperties
  <2>2. <<h>> \o t \in Seq(S) /\ Len(<<h>> \o t) = Len(c)
    BY <1>1, <2>1, ConcatProperties
  <2>3. \A i \in 1..Len(c) : (<<h>> \o t)[i] = c[i]
    <3>. SUFFICES ASSUME NEW i \in 1..Len(c) PROVE (<<h>> \o t)[i] = c[i]
      OBVIOUS
    <3>1. (<<h>> \o t)[i] = IF i <= 1 THEN <<h>>[i] ELSE t[i - 1]
      BY <1>1, <2>1, ConcatProperties
    <3>2. i > 1 => t[i - 1] = c[(i - 1) + 1]
      BY <2>1, HeadTailProperties
    <3>. QED
      BY <2>1, <3>1, <3>2
  <2>. QED
    BY <2>2, <2>3, SeqEqual
<1>3. Append(b, h) = b \o <<h>>
  BY <1>1, AppendIsConcat
<1>4. (b \o <<h>>) \o t = b \o (<<h>> \o t)
  <2>. HIDE DEF h, t
  <2>. QED
    BY <1>1, ConcatAssociative
<1>. QED
  BY <1>2, <1>3, <1>4

\* An element appended to the second of two sequences is appended to both.
LEMMA AppendsBehind ==
    ASSUME NEW S, NEW b \in Seq(S), NEW c \in Seq(S), NEW v \in S
    PROVE  b \o Append(c, v) = Append(b \o c, v)
<1>. DEFINE e == <<v>>
<1>1. /\ e \in Seq(S) /\ b \o c \in Seq(S)
      /\ Append(c, v) = c \o e /\ Append(b \o c, v) = (b \o c) \o e
  BY AppendIsConcat, ConcatProperties
<1>2. e \in Seq(S)
  BY <1>1
<1>. HIDE DEF e
<1>3. (b \o c) \o e = b \o (c \o e)
  BY <1>2, ConcatAssociative
<1>. QED
  BY <1>1, <1>3

LEMMA TakeMoves ==
    ASSUME ReporterTypeOK, queue # <<>>, batch' = Append(batch, Head(queue)), queue' = Tail(queue), sent' = sent
    PROVE  Pipeline' = Pipeline
<1>1. batch' \o queue' = batch \o queue
  BY HeadMoves, PipelineType
<1>2. batch' \in Seq(TrackedEvents) /\ queue' \in Seq(TrackedEvents)
  BY PipelineType, HeadTailProperties, AppendProperties
<1>3. (sent \o batch) \o queue = sent \o (batch \o queue)
  <2>1. sent \in Seq(TrackedEvents) /\ batch \in Seq(TrackedEvents) /\ queue \in Seq(TrackedEvents)
    BY PipelineType
  <2>. QED
    BY <2>1, ConcatAssociative
<1>4. (sent \o batch') \o queue' = sent \o (batch' \o queue')
  <2>. DEFINE b == batch' q == queue'
  <2>1. b \in Seq(TrackedEvents) /\ q \in Seq(TrackedEvents) /\ sent \in Seq(TrackedEvents)
    BY <1>2, PipelineType
  <2>. HIDE DEF b, q
  <2>2. (sent \o b) \o q = sent \o (b \o q)
    BY <2>1, ConcatAssociative
  <2>. QED
    BY <2>2 DEF b, q
<1>. QED
  BY <1>1, <1>3, <1>4 DEF Pipeline

LEMMA SendMoves ==
    ASSUME ReporterTypeOK, sent' = sent \o batch, batch' = <<>>, queue' = queue
    PROVE  Pipeline' = Pipeline
BY PipelineType, ConcatEmptySeq DEF Pipeline

LEMMA PutAppends ==
    ASSUME ReporterTypeOK, NEW e \in TrackedEvents, queue' = Append(queue, e), batch' = batch, sent' = sent
    PROVE  Pipeline' = Append(Pipeline, e)
<1>. DEFINE front == sent \o batch
<1>1. front \in Seq(TrackedEvents) /\ queue \in Seq(TrackedEvents)
  BY PipelineType
<1>. HIDE DEF front
<1>2. front \o Append(queue, e) = Append(front \o queue, e)
  BY <1>1, AppendsBehind
<1>. QED
  BY <1>2 DEF Pipeline, front

\* Where the pipeline's events are before and after a batch is lost.
LEMMA LossCuts ==
    ASSUME ReporterTypeOK, sent' = sent, batch' = <<>>, queue' = queue
    PROVE  /\ \A i, j \in DOMAIN Pipeline' : i < j =>
                \E k, l \in DOMAIN Pipeline : k < l /\ Pipeline'[i] = Pipeline[k] /\ Pipeline'[j] = Pipeline[l]
           /\ \A e : There(e)' => There(e)
           /\ \A e : Batched(e) => There(e)
           /\ \A e : There(e) /\ ~Batched(e) => There(e)'
           /\ \A e : InOrder /\ Batched(e) /\ There(e)' => FALSE
<1>. DEFINE S == Len(sent)
            B == Len(batch)
            Q == Len(queue)
            f == [i \in 1..(S + Q) |-> IF i <= S THEN i ELSE i + B]
<1>1. S \in Nat /\ B \in Nat /\ Q \in Nat
  BY PipelineType, LenProperties
<1>2. /\ Len(sent \o batch) = S + B
      /\ \A i \in 1..(S + B) : (sent \o batch)[i] = IF i <= S THEN sent[i] ELSE batch[i - S]
  BY PipelineType, ConcatProperties
<1>3. /\ DOMAIN Pipeline = 1..(S + B + Q)
      /\ \A i \in 1..(S + B + Q) : Pipeline[i] = IF i <= S + B THEN (sent \o batch)[i] ELSE queue[i - (S + B)]
  BY <1>2, PipelineType, ConcatProperties, LenProperties DEF Pipeline
<1>4. Pipeline' = sent \o queue
  BY PipelineType, ConcatEmptySeq DEF Pipeline
<1>5. /\ DOMAIN Pipeline' = 1..(S + Q)
      /\ \A i \in 1..(S + Q) : Pipeline'[i] = IF i <= S THEN sent[i] ELSE queue[i - S]
  BY <1>4, PipelineType, ConcatProperties, LenProperties
<1>. HIDE DEF S, B, Q
<1>6. \A i \in 1..(S + Q) : f[i] \in DOMAIN Pipeline /\ Pipeline'[i] = Pipeline[f[i]]
  <2>. SUFFICES ASSUME NEW i \in 1..(S + Q) PROVE f[i] \in DOMAIN Pipeline /\ Pipeline'[i] = Pipeline[f[i]]
    OBVIOUS
  <2>1. CASE i <= S
    <3>1. f[i] = i /\ i \in 1..(S + B + Q) /\ i \in 1..(S + B)
      BY <1>1, <2>1
    <3>. QED
      <4>1. i <= S + B
        BY <1>1, <2>1
      <4>2. Pipeline[i] = (sent \o batch)[i] /\ (sent \o batch)[i] = sent[i]
        BY <1>2, <1>3, <2>1, <3>1, <4>1
      <4>. QED
        BY <1>3, <1>5, <2>1, <3>1, <4>2
  <2>2. CASE i > S
    <3>1. f[i] = i + B /\ i + B \in 1..(S + B + Q) /\ ~(i + B <= S + B) /\ (i + B) - (S + B) = i - S
      BY <1>1, <2>2
    <3>. QED
      BY <1>3, <1>5, <2>2, <3>1, <1>1
  <2>. QED
    BY <2>1, <2>2, <1>1
<1>7. \A i, j \in 1..(S + Q) : i < j => f[i] < f[j]
  BY <1>1
<1>8. \A i \in 1..(S + Q) : f[i] <= S \/ f[i] > S + B
  BY <1>1
<1>9. \A j \in DOMAIN Pipeline : S < j /\ j <= S + B => Batched(Pipeline[j])
  <2>. SUFFICES ASSUME NEW j \in DOMAIN Pipeline, S < j, j <= S + B PROVE Batched(Pipeline[j])
    OBVIOUS
  <2>1. j - S \in 1..B /\ j \in 1..(S + B) /\ Pipeline[j] = batch[j - S]
    BY <1>1, <1>2, <1>3
  <2>2. DOMAIN batch = 1..B
    BY PipelineType, LenProperties DEF B
  <2>. QED
    BY <2>1, <2>2 DEF Batched
<1>10. \A e : Batched(e) => \E j \in DOMAIN Pipeline : S < j /\ j <= S + B /\ Pipeline[j] = e
  <2>. SUFFICES ASSUME NEW e, Batched(e)
                PROVE  \E j \in DOMAIN Pipeline : S < j /\ j <= S + B /\ Pipeline[j] = e
    OBVIOUS
  <2>1. PICK i \in 1..B : batch[i] = e
    BY PipelineType, LenProperties DEF Batched, B
  <2>2. /\ S + i \in 1..(S + B + Q) /\ S + i \in 1..(S + B) /\ S < S + i /\ S + i <= S + B
        /\ (S + i) - S = i /\ ~(S + i <= S)
    BY <1>1
  <2>3. Pipeline[S + i] = e
    <3>1. Pipeline[S + i] = (sent \o batch)[S + i]
      BY <1>3, <2>2
    <3>2. (sent \o batch)[S + i] = batch[(S + i) - S]
      BY <1>1, <1>2, <2>2
    <3>. QED
      BY <2>1, <2>2, <3>1, <3>2
  <2>. QED
    BY <1>3, <2>2, <2>3
<1>. HIDE DEF f
<1>11. \A i, j \in DOMAIN Pipeline' : i < j =>
         \E k, l \in DOMAIN Pipeline : k < l /\ Pipeline'[i] = Pipeline[k] /\ Pipeline'[j] = Pipeline[l]
  BY <1>5, <1>6, <1>7
<1>12. \A e : There(e)' => There(e)
  BY <1>5, <1>6 DEF There
<1>13. \A e : Batched(e) => There(e)
  BY <1>10 DEF There
<1>14. \A e : There(e) /\ ~Batched(e) => There(e)'
  <2>. SUFFICES ASSUME NEW e, ~Batched(e), NEW j \in DOMAIN Pipeline, Pipeline[j] = e PROVE There(e)'
    BY DEF There
  <2>1. CASE j <= S
    <3>1. j \in 1..(S + Q) /\ f[j] = j
      BY <1>1, <1>3, <2>1 DEF f
    <3>. QED
      BY <1>5, <1>6, <3>1 DEF There
  <2>2. CASE j > S + B
    <3>1. j - B \in 1..(S + Q) /\ f[j - B] = j
      BY <1>1, <1>3, <2>2 DEF f
    <3>. QED
      BY <1>5, <1>6, <3>1 DEF There
  <2>. QED
    BY <1>1, <1>3, <1>9, <2>1, <2>2
<1>15. \A e : InOrder /\ Batched(e) /\ There(e)' => FALSE
  <2>. SUFFICES ASSUME NEW e, InOrder, Batched(e), There(e)' PROVE FALSE
    OBVIOUS
  <2>1. PICK j \in DOMAIN Pipeline : S < j /\ j <= S + B /\ Pipeline[j] = e
    BY <1>10
  <2>2. PICK i \in 1..(S + Q) : Pipeline'[i] = e
    BY <1>5 DEF There
  <2>3. f[i] \in DOMAIN Pipeline /\ Pipeline[f[i]] = e /\ (f[i] <= S \/ f[i] > S + B)
    BY <1>6, <1>8, <2>2
  <2>4. f[i] < j \/ j < f[i]
    BY <1>1, <1>3, <2>1, <2>3
  <2>5. e \in TrackedEvents
    BY <2>1, PipelineType, ElementOfSeq, LenProperties
  <2>6. e[2] \in Nat /\ ~(e[2] < e[2])
    BY <2>5, EventReporterAssumptions DEF TrackedEvents
  <2>. QED
    BY <2>1, <2>3, <2>4, <2>6 DEF InOrder
<1>. QED
  BY <1>11, <1>12, <1>13, <1>14, <1>15


\* NoneVanishes, with what is in the pipeline as a predicate.
Accounted(e) ==
    /\ e[2] <= tracked[e[1]] => There(e) \/ e \in lost
    /\ There(e) => e[2] <= tracked[e[1]] /\ e \notin lost
    /\ e \in lost => e[2] <= tracked[e[1]]

LEMMA VanishesIsThere ==
    NoneVanishes <=> \A p \in Producers, n \in 1..MaxEvents : Accounted(<<p, n>>)
BY DEF NoneVanishes, Accounted, There

LEMMA VanishesWillBeThere ==
    NoneVanishes' <=> \A p \in Producers, n \in 1..MaxEvents : Accounted(<<p, n>>)'
BY DEF NoneVanishes, Accounted, There

\* Nothing moves in or out.
LEMMA SamePipeline ==
    ASSUME InOrder, NoneVanishes, Pipeline' = Pipeline, UNCHANGED <<tracked, lost>>
    PROVE  InOrder' /\ NoneVanishes'
BY DEF InOrder, NoneVanishes

LEMMA PutOrder ==
    ASSUME ReporterInv, InOrder, NoneVanishes, NEW p \in Producers, TrackSend(p)
    PROVE  InOrder' /\ NoneVanishes'
<1>. DEFINE m == tracked[p] + 1
            e == <<p, m>>
<1>1. CASE UNCHANGED <<tracked, queue, late>>
  <2>1. Pipeline' = Pipeline /\ UNCHANGED <<tracked, lost>>
    BY <1>1 DEF TrackSend, Pipeline
  <2>. QED
    BY <2>1, SamePipeline
<1>2. CASE tracked' = [tracked EXCEPT ![p] = @ + 1] /\ queue' = Append(queue, e)
  <2>1. p \in inTrack /\ UNCHANGED <<batch, sent, lost>>
    BY DEF TrackSend
  <2>2. tracked[p] \in Nat /\ m \in 1..MaxEvents /\ e \in TrackedEvents /\ ~(m <= tracked[p])
    BY <2>1, EventReporterAssumptions DEF ReporterInv, ReporterTypeOK, HasEvent, TrackedEvents
  <2>3. Pipeline' = Append(Pipeline, e)
    BY <1>2, <2>1, <2>2, PutAppends DEF ReporterInv
  <2>. DEFINE L == Len(Pipeline)
  <2>4. /\ L \in Nat /\ DOMAIN Pipeline = 1..L /\ DOMAIN Pipeline' = 1..(L + 1)
        /\ \A i \in 1..L : Pipeline'[i] = Pipeline[i]
        /\ Pipeline'[L + 1] = e
    BY <2>2, <2>3, PipelineType, AppendProperties, LenProperties DEF ReporterInv
  <2>5. \A i \in 1..L : Pipeline[i] \in TrackedEvents
    BY PipelineType, ElementOfSeq DEF ReporterInv
  <2>6. \A i \in 1..L : Pipeline[i][1] = p => Pipeline[i][2] < m
    <3>. SUFFICES ASSUME NEW i \in 1..L, Pipeline[i][1] = p PROVE Pipeline[i][2] < m
      OBVIOUS
    <3>1. PICK n \in 1..MaxEvents : Pipeline[i] = <<p, n>>
      BY <2>5 DEF TrackedEvents
    <3>2. There(<<p, n>>)
      BY <2>4, <3>1 DEF There
    <3>3. n <= tracked[p]
      BY <3>2, VanishesIsThere DEF Accounted
    <3>. QED
      BY <2>2, <3>1, <3>3
  <2>. HIDE DEF L, m, e
  <2>7. \A x : There(x)' <=> There(x) \/ x = e
    <3>1. L + 1 \in 1..(L + 1) /\ \A i \in 1..(L + 1) : i \in 1..L \/ i = L + 1
      BY <2>4
    <3>. QED
      BY <2>4, <3>1 DEF There
  <2>8. InOrder'
    <3>. SUFFICES ASSUME NEW i \in 1..(L + 1), NEW j \in 1..(L + 1), i < j, Pipeline'[i][1] = Pipeline'[j][1]
                  PROVE  Pipeline'[i][2] < Pipeline'[j][2]
      BY <2>4 DEF InOrder
    <3>1. i \in 1..L /\ Pipeline'[i] = Pipeline[i]
      BY <2>4
    <3>2. CASE j \in 1..L
      BY <2>4, <3>1, <3>2 DEF InOrder
    <3>3. CASE j = L + 1
      BY <2>4, <2>6, <3>1, <3>3 DEF e
    <3>. QED
      BY <2>4, <3>2, <3>3
  <2>9. NoneVanishes'
    <3>. SUFFICES ASSUME NEW q \in Producers, NEW n \in 1..MaxEvents
                  PROVE  Accounted(<<q, n>>)'
      BY VanishesWillBeThere
    <3>1. /\ n <= tracked[q] => There(<<q, n>>) \/ <<q, n>> \in lost
          /\ There(<<q, n>>) => n <= tracked[q] /\ <<q, n>> \notin lost
          /\ <<q, n>> \in lost => n <= tracked[q]
      BY VanishesIsThere DEF Accounted
    <3>. SUFFICES /\ n <= tracked'[q] => There(<<q, n>>)' \/ <<q, n>> \in lost
                  /\ There(<<q, n>>)' => n <= tracked'[q] /\ <<q, n>> \notin lost
                  /\ <<q, n>> \in lost => n <= tracked'[q]
      BY <2>1 DEF Accounted
    <3>2. CASE q # p
      <4>1. <<q, n>> # e /\ tracked'[q] = tracked[q]
        BY <1>2, <3>2 DEF ReporterInv, ReporterTypeOK, e
      <4>. QED
        BY <2>7, <3>1, <4>1
    <3>3. CASE q = p /\ n = m
      <4>1. <<q, n>> = e /\ n <= tracked'[q] /\ ~(n <= tracked[q])
        BY <1>2, <2>2, <3>3 DEF ReporterInv, ReporterTypeOK, e, m
      <4>2. There(<<q, n>>)' /\ <<q, n>> \notin lost
        BY <2>7, <3>1, <4>1
      <4>. QED
        BY <4>1, <4>2
    <3>4. CASE q = p /\ n # m
      <4>1. <<q, n>> # e /\ (n <= tracked'[q] <=> n <= tracked[q])
        BY <1>2, <2>2, <3>4 DEF ReporterInv, ReporterTypeOK, e, m
      <4>. QED
        BY <2>7, <3>1, <4>1
    <3>. QED
      BY <3>2, <3>3, <3>4
  <2>. QED
    BY <2>8, <2>9
<1>. QED
  BY <1>1, <1>2 DEF TrackSend

LEMMA LossOrder ==
    ASSUME ReporterInv, InOrder, NoneVanishes, WorkerSent, sent' = sent,
           lost' = lost \cup {batch[i] : i \in DOMAIN batch}
    PROVE  InOrder' /\ NoneVanishes'
<1>1. batch' = <<>> /\ queue' = queue /\ tracked' = tracked
  BY DEF WorkerSent
<1>2. /\ \A i, j \in DOMAIN Pipeline' : i < j =>
           \E k, l \in DOMAIN Pipeline : k < l /\ Pipeline'[i] = Pipeline[k] /\ Pipeline'[j] = Pipeline[l]
      /\ \A e : There(e)' => There(e)
      /\ \A e : Batched(e) => There(e)
      /\ \A e : There(e) /\ ~Batched(e) => There(e)'
      /\ \A e : InOrder /\ Batched(e) /\ There(e)' => FALSE
  BY <1>1, LossCuts DEF ReporterInv
<1>3. \A e : e \in lost' <=> e \in lost \/ Batched(e)
  BY DEF Batched
<1>4. InOrder'
  BY <1>2 DEF InOrder
<1>5. NoneVanishes'
  <2>. SUFFICES ASSUME NEW p \in Producers, NEW n \in 1..MaxEvents
                PROVE  Accounted(<<p, n>>)'
    BY VanishesWillBeThere
  <2>1. Accounted(<<p, n>>)
    BY VanishesIsThere
  <2>. QED
    BY <1>1, <1>2, <1>3, <2>1 DEF Accounted
<1>. QED
  BY <1>4, <1>5

LEMMA WorkerOrder ==
    ASSUME ReporterInv, InOrder, NoneVanishes, FlushWorker
    PROVE  InOrder' /\ NoneVanishes'
<1>1. CASE WorkerTake
  BY <1>1, TakeMoves, SamePipeline DEF WorkerTake, ReporterInv
<1>2. CASE WorkerDrain
  <2>1. CASE queue # <<>> /\ batch' = Append(batch, Head(queue)) /\ queue' = Tail(queue)
    BY <1>2, <2>1, TakeMoves, SamePipeline DEF WorkerDrain, ReporterInv
  <2>2. CASE UNCHANGED <<queue, batch>>
    <3>1. Pipeline' = Pipeline /\ UNCHANGED <<tracked, lost>>
      BY <1>2, <2>2 DEF WorkerDrain, Pipeline
    <3>. QED
      BY <3>1, SamePipeline
  <2>. QED
    BY <1>2, <2>1, <2>2 DEF WorkerDrain
<1>3. CASE WorkerSent
  <2>1. CASE sent' = sent \o batch /\ UNCHANGED lost
    BY <1>3, <2>1, SendMoves, SamePipeline DEF WorkerSent, ReporterInv
  <2>2. CASE lost' = lost \cup {batch[i] : i \in DOMAIN batch} /\ UNCHANGED sent
    BY <1>3, <2>2, LossOrder
  <2>. QED
    BY <1>3, <2>1, <2>2 DEF WorkerSent
<1>4. CASE WorkerTick \/ WorkerFlush \/ WorkerStop
  <2>1. Pipeline' = Pipeline /\ UNCHANGED <<tracked, lost>>
    BY <1>4 DEF WorkerTick, WorkerFlush, WorkerStop, Pipeline
  <2>. QED
    BY <2>1, SamePipeline
<1>. QED
  BY <1>1, <1>2, <1>3, <1>4 DEF FlushWorker

LEMMA ReporterOrderInvariant == ReporterSpec => [](InOrder /\ NoneVanishes)
<1>1. ReporterInit => InOrder /\ NoneVanishes
  <2>. SUFFICES ASSUME ReporterInit PROVE InOrder /\ NoneVanishes
    OBVIOUS
  <2>1. Pipeline = <<>> /\ DOMAIN Pipeline = {}
    <3>1. <<>> \o <<>> = <<>> /\ DOMAIN <<>> = {}
      BY ConcatEmptySeq, EmptySeq, LenProperties
    <3>. QED
      BY <3>1 DEF ReporterInit, Pipeline
  <2>2. InOrder
    BY <2>1 DEF InOrder
  <2>3. NoneVanishes
    <3>1. \A p \in Producers, n \in 1..MaxEvents : tracked[p] = 0 /\ lost = {} /\ ~(n <= 0)
      BY EventReporterAssumptions DEF ReporterInit
    <3>2. \A e : ~There(e)
      BY <2>1 DEF There
    <3>. QED
      BY <3>1, <3>2, VanishesIsThere DEF Accounted
  <2>. QED
    BY <2>2, <2>3
<1>2. ReporterInv /\ InOrder /\ NoneVanishes /\ [ReporterNext]_reporterVars => (InOrder /\ NoneVanishes)'
  <2>. SUFFICES ASSUME ReporterInv, InOrder, NoneVanishes, [ReporterNext]_reporterVars PROVE InOrder' /\ NoneVanishes'
    OBVIOUS
  <2>1. ASSUME NEW p \in Producers, TrackSend(p) PROVE InOrder' /\ NoneVanishes'
    BY <2>1, PutOrder
  <2>2. CASE FlushWorker
    BY <2>2, WorkerOrder
  <2>3. ASSUME \/ \E p \in Producers : TrackCheck(p)
               \/ FlushAsk \/ FlushGivesUp \/ Shutdown \/ ShutdownEnds \/ UNCHANGED reporterVars
        PROVE  InOrder' /\ NoneVanishes'
    <3>1. Pipeline' = Pipeline /\ UNCHANGED <<tracked, lost>>
      BY <2>3 DEF TrackCheck, FlushAsk, FlushGivesUp, Shutdown, ShutdownEnds, reporterVars, Pipeline
    <3>. QED
      BY <3>1, SamePipeline
  <2>. QED
    BY <2>1, <2>2, <2>3 DEF ReporterNext
<1>. QED
  BY <1>1, <1>2, ReporterInvariant, PTL DEF ReporterSpec

\* InOrder: the events of a producer leave in their order, none twice.
THEOREM InOrderHolds == ReporterSpec => []InOrder
BY ReporterOrderInvariant, PTL

\* NoneVanishes: every event that was queued is in the pipeline or in a batch that
\* failed, and not in both.
THEOREM NoneVanishesHolds == ReporterSpec => []NoneVanishes
BY ReporterOrderInvariant, PTL
=============================================================================
