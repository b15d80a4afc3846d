-------------------------- MODULE PipelineProofs --------------------------
(***************************************************************************)
(* Theorems about Pipeline, for every size of the ring and the channels,   *)
(* every number of events and of lines per event: the accounting, the      *)
(* order of the shutdown, and that the pipeline implements LossyStream.    *)
(***************************************************************************)
EXTENDS Pipeline, SequenceTheorems, TLAPS

(***************************************************************************)
(* Queues                                                                  *)
(***************************************************************************)

(* A queue that is not empty is its first item and the rest. *)
LEMMA HeadAndTail ==
  ASSUME NEW S, NEW s \in Seq(S), s # <<>>
  PROVE  /\ Head(s) \in S /\ Tail(s) \in Seq(S)
         /\ s = <<Head(s)>> \o Tail(s)
         /\ Len(s) \in Nat /\ Len(Tail(s)) = Len(s) - 1
<1>1. Head(s) \in S /\ Tail(s) \in Seq(S) /\ Len(Tail(s)) = Len(s) - 1
  BY HeadTailProperties
<1>2. Len(s) \in Nat \ {0} /\ <<Head(s)>> \in Seq(S)
  BY <1>1, EmptySeq
<1>3. s = <<Head(s)>> \o Tail(s)
  BY <1>1, <1>2
<1> QED
  BY <1>1, <1>2, <1>3

(* Concatenation regroups. *)
LEMMA Regroup ==
  ASSUME NEW S, NEW a \in Seq(S), NEW b \in Seq(S), NEW c \in Seq(S)
  PROVE  (a \o b) \o c = a \o (b \o c)
  BY ConcatAssociative

(* What is handed on from the front of one queue to the end of the queue   *)
(* before it keeps its place.                                              *)
LEMMA HandOver ==
  ASSUME NEW S, NEW s \in Seq(S), NEW t \in Seq(S), t # <<>>
  PROVE  Append(s, Head(t)) \o Tail(t) = s \o t
<1>1. /\ Head(t) \in S /\ Tail(t) \in Seq(S) /\ <<Head(t)>> \in Seq(S)
      /\ t = <<Head(t)>> \o Tail(t)
  BY HeadAndTail
<1>2. Append(s, Head(t)) = s \o <<Head(t)>>
  BY <1>1, AppendIsConcat
<1>3. (s \o <<Head(t)>>) \o Tail(t) = s \o (<<Head(t)>> \o Tail(t))
  BY <1>1, ConcatAssociative
<1> QED
  BY <1>1, <1>2, <1>3

(* An item behind a queue is behind what the queue is part of. *)
LEMMA AppendBehind ==
  ASSUME NEW S, NEW s \in Seq(S), NEW t \in Seq(S), NEW e \in S
  PROVE  s \o Append(t, e) = Append(s \o t, e)
<1>1. <<e>> \in Seq(S) /\ s \o t \in Seq(S)
  BY ConcatProperties
<1>2. Append(t, e) = t \o <<e>> /\ Append(s \o t, e) = (s \o t) \o <<e>>
  BY <1>1, AppendIsConcat
<1> QED
  BY <1>1, <1>2, ConcatAssociative

(* The parts around an item. *)
LEMMA AroundItem ==
  ASSUME NEW S, NEW a \in Seq(S), NEW e \in S, NEW b \in Seq(S)
  PROVE  LET t == a \o (<<e>> \o b)
             i == Len(a) + 1
         IN  /\ i \in DOMAIN t
             /\ t[i] = e
             /\ SubSeq(t, 1, i - 1) = a
             /\ SubSeq(t, i + 1, Len(t)) = b
<1> DEFINE c == <<e>> \o b
           t == a \o c
           i == Len(a) + 1
<1>1. /\ <<e>> \in Seq(S) /\ Len(<<e>>) = 1 /\ <<e>>[1] = e
      /\ Len(a) \in Nat /\ Len(b) \in Nat
  OBVIOUS
<1>2. /\ c \in Seq(S) /\ Len(c) = Len(b) + 1 /\ c[1] = e
      /\ \A j \in 1 .. Len(b) : c[j + 1] = b[j]
  BY <1>1, ConcatProperties
<1> HIDE DEF c
<1>3. /\ t \in Seq(S) /\ Len(t) = Len(a) + Len(c)
      /\ \A j \in 1 .. Len(a) + Len(c) : t[j] = IF j <= Len(a) THEN a[j] ELSE c[j - Len(a)]
  BY <1>2, ConcatProperties
<1> HIDE DEF t
<1>4. i \in 1 .. Len(t) /\ i \in DOMAIN t /\ t[i] = e
  <2>1. i \in 1 .. Len(a) + Len(c) /\ ~(i <= Len(a)) /\ i - Len(a) = 1
    BY <1>1, <1>2
  <2>2. t[i] = e
    BY <1>2, <1>3, <2>1
  <2> QED
    BY <1>3, <2>1, <2>2, LenProperties
<1>5. \A j \in 1 .. Len(a) : t[j] = a[j]
  BY <1>1, <1>2, <1>3
<1>6. \A j \in 1 .. Len(b) : t[Len(a) + 1 + j] = b[j]
  <2> TAKE j \in 1 .. Len(b)
  <2>1. /\ Len(a) + 1 + j \in 1 .. Len(a) + Len(c)
        /\ ~(Len(a) + 1 + j <= Len(a)) /\ Len(a) + 1 + j - Len(a) = j + 1
    BY <1>1, <1>2
  <2> QED
    BY <1>2, <1>3, <2>1
<1>7. SubSeq(t, 1, i - 1) = a
  <2>1. \A j \in 1 .. i - 1 : t[j] \in S
    BY <1>1, <1>5, ElementOfSeq
  <2>2. /\ SubSeq(t, 1, i - 1) \in Seq(S)
        /\ Len(SubSeq(t, 1, i - 1)) = Len(a)
        /\ \A j \in 1 .. Len(a) : SubSeq(t, 1, i - 1)[j] = t[j]
    BY <1>1, <2>1, SubSeqProperties
  <2> QED
    BY <1>5, <2>2, SeqEqual
<1>8. SubSeq(t, i + 1, Len(t)) = b
  <2>1. Len(t) = Len(a) + 1 + Len(b) /\ i + 1 = Len(a) + 2
    BY <1>1, <1>2, <1>3
  <2>2. \A j \in i + 1 .. Len(t) : t[j] \in S
    BY <1>1, <1>3, <2>1, ElementOfSeq
  <2>3. /\ SubSeq(t, i + 1, Len(t)) \in Seq(S)
        /\ Len(SubSeq(t, i + 1, Len(t))) = Len(b)
        /\ \A j \in 1 .. Len(b) : SubSeq(t, i + 1, Len(t))[j] = t[i + j]
    BY <1>1, <2>1, <2>2, SubSeqProperties
  <2> QED
    BY <1>1, <1>6, <2>3, SeqEqual
<1> QED
  BY <1>4, <1>7, <1>8 DEF t, c

(***************************************************************************)
(* Types                                                                   *)
(***************************************************************************)

LEMMA InitTypeOK == Init => TypeOK
  BY PipelineAssumption DEF Init, TypeOK, Events

(* Queues stay queues of events, within their capacities. *)
LEMMA AppendType ==
  ASSUME NEW q \in Seq(Events), NEW e \in Events, NEW cap \in Nat, Len(q) < cap
  PROVE  Append(q, e) \in Seq(Events) /\ Len(Append(q, e)) <= cap
  BY AppendProperties, LenProperties

LEMMA TailType ==
  ASSUME NEW q \in Seq(Events), q # <<>>, NEW cap \in Nat, Len(q) <= cap
  PROVE  Tail(q) \in Seq(Events) /\ Len(Tail(q)) <= cap /\ Head(q) \in Events
  BY HeadAndTail

LEMMA NextTypeOK == TypeOK /\ [Next]_vars => TypeOK'
<1> SUFFICES ASSUME TypeOK, [Next]_vars PROVE TypeOK'
  OBVIOUS
<1> USE PipelineAssumption
<1>1. CASE Produce
  <2>1. offered + 1 \in Events /\ offered' \in 0 .. MaxEvents
    BY <1>1 DEF Produce, TypeOK, Events
  <2>2. CASE Len(ring) < RingSize
    <3>1. ring' \in Seq(Events) /\ Len(ring') <= RingSize
      BY <1>1, <2>1, <2>2, AppendType DEF Produce, TypeOK
    <3> QED
      BY <1>1, <2>1, <2>2, <3>1
      DEF Produce, TypeOK, drainVars, workerVars, writerVars, controlVars
  <2>3. CASE ~(Len(ring) < RingSize)
    BY <1>1, <2>1, <2>3
    DEF Produce, TypeOK, drainVars, workerVars, writerVars, controlVars
  <2> QED
    BY <2>2, <2>3
<1>2. CASE DrainNext
  <2>1. /\ ring' \in Seq(Events) /\ Len(ring') <= RingSize /\ Head(ring) \in Events
    BY <1>2, TailType DEF DrainNext, TypeOK
  <2>2. CASE Len(captures) < CaptureCap
    <3>1. captures' \in Seq(Events) /\ Len(captures') <= CaptureCap
      BY <1>2, <2>1, <2>2, AppendType DEF DrainNext, TypeOK
    <3> QED
      BY <1>2, <2>1, <2>2, <3>1 DEF DrainNext, TypeOK, workerVars, writerVars, controlVars
  <2>3. CASE ~(Len(captures) < CaptureCap)
    BY <1>2, <2>1, <2>3 DEF DrainNext, TypeOK, workerVars, writerVars, controlVars
  <2> QED
    BY <2>2, <2>3
<1>3. CASE DrainCheck \/ DrainWake \/ DrainEmpty \/ DrainAborted
  BY <1>3 DEF DrainCheck, DrainWake, DrainEmpty, DrainAborted, TypeOK,
              kernelVars, workerVars, writerVars, controlVars
<1>4. CASE LoaderFails \/ LoaderStops \/ GraceTimeout \/ LoaderEnds
  BY <1>4 DEF LoaderFails, LoaderStops, GraceTimeout, LoaderEnds, TypeOK,
              kernelVars, drainVars, workerVars, writerVars
<1>5. ASSUME NEW n \in 0 .. MaxCopies, WorkerTakes(n) PROVE TypeOK'
  <2>1. /\ captures' \in Seq(Events) /\ Len(captures') <= CaptureCap
        /\ Head(captures) \in Events
    BY <1>5, TailType DEF WorkerTakes, TypeOK
  <2>2. outbox' \in Seq(Events) /\ Len(outbox') <= MaxCopies
    BY <1>5, <2>1 DEF WorkerTakes
  <2> QED
    BY <1>5, <2>1, <2>2 DEF WorkerTakes, TypeOK, kernelVars, writerVars, controlVars
<1>6. CASE WorkerSends
  <2>1. /\ outbox' \in Seq(Events) /\ Len(outbox') <= MaxCopies
        /\ Head(outbox) \in Events
    BY <1>6, TailType DEF WorkerSends, TypeOK
  <2>2. lines' \in Seq(Events) /\ Len(lines') <= WriterCap
    BY <1>6, <2>1, AppendType DEF WorkerSends, TypeOK
  <2> QED
    BY <1>6, <2>1, <2>2 DEF WorkerSends, TypeOK, kernelVars, drainVars, controlVars
<1>7. CASE WorkerEnds
  BY <1>7 DEF WorkerEnds, TypeOK, kernelVars, drainVars, writerVars, controlVars
<1>8. CASE WriterWrites
  <2>1. /\ lines' \in Seq(Events) /\ Len(lines') <= WriterCap
        /\ Head(lines) \in Events
    BY <1>8, TailType DEF WriterWrites, TypeOK
  <2>2. written' \in Seq(Events)
    BY <1>8, <2>1, AppendProperties DEF WriterWrites, TypeOK
  <2> QED
    BY <1>8, <2>1, <2>2
    DEF WriterWrites, TypeOK, kernelVars, drainVars, workerVars, controlVars
<1>9. CASE WriterEnds
  BY <1>9 DEF WriterEnds, TypeOK, kernelVars, drainVars, workerVars, controlVars
<1>10. CASE Signal \/ MainStops \/ MainJoins
  BY <1>10, ZenonT(60) DEF Signal, MainStops, MainJoins, TypeOK,
               kernelVars, drainVars, workerVars, writerVars
<1>11. CASE UNCHANGED vars
  BY <1>11 DEF vars, TypeOK, kernelVars, drainVars, workerVars, writerVars, controlVars
<1> QED
  BY <1>1, <1>2, <1>3, <1>4, <1>5, <1>6, <1>7, <1>8, <1>9, <1>10, <1>11
  DEF Next, Drain, Worker, Writer

(* Queues never exceed their capacities, and hold events that were         *)
(* offered (the channel capacities of capture.rs, the ring of main.rs).    *)
THEOREM TypeCorrect == Spec => []TypeOK
  BY InitTypeOK, NextTypeOK, PTL DEF Spec

(***************************************************************************)
(* The shutdown                                                            *)
(***************************************************************************)

(* Each stage ends after the one before it, with nothing left of what that *)
(* one has sent; main returns after the last.                              *)
ShutdownInv ==
  /\ worker = "ended" => drain = "ended" /\ captures = <<>> /\ outbox = <<>>
  /\ writer = "ended" => worker = "ended" /\ lines = <<>>
  /\ main = "exited" => writer = "ended"

LEMMA InitShutdownInv == Init => ShutdownInv
  BY DEF Init, ShutdownInv

(* One case per action; a step that touches none of the queues or states   *)
(* of the pipeline's end keeps the invariant at once.                      *)
LEMMA NextShutdownInv == ShutdownInv /\ [Next]_vars => ShutdownInv'
<1> SUFFICES ASSUME ShutdownInv, [Next]_vars PROVE ShutdownInv'
  OBVIOUS
<1> USE DEF ShutdownInv, kernelVars, drainVars, workerVars, writerVars, controlVars
<1>1. CASE Produce
  BY <1>1 DEF Produce
<1>2. CASE Drain
  BY <1>2 DEF Drain, DrainCheck, DrainWake, DrainNext, DrainEmpty, DrainAborted
<1>3. CASE LoaderFails \/ LoaderStops \/ GraceTimeout \/ LoaderEnds
  BY <1>3 DEF LoaderFails, LoaderStops, GraceTimeout, LoaderEnds
<1>4. CASE Worker
  BY <1>4 DEF Worker, WorkerTakes, WorkerSends, WorkerEnds
<1>5. CASE Writer
  BY <1>5 DEF Writer, WriterWrites, WriterEnds
<1>6. CASE Signal \/ MainStops \/ MainJoins
  BY <1>6 DEF Signal, MainStops, MainJoins
<1>7. CASE UNCHANGED vars
  BY <1>7 DEF vars
<1> QED
  BY <1>1, <1>2, <1>3, <1>4, <1>5, <1>6, <1>7 DEF Next

LEMMA ShutdownInvHolds == Spec => []ShutdownInv
  BY InitShutdownInv, NextShutdownInv, PTL DEF Spec

(* A receiver outlives its senders, with the grace period, the abort and   *)
(* the failure of the loader in any order: neither try_send in the drain   *)
(* task (loader.rs) nor send in the worker (capture.rs) ever finds its     *)
(* channel closed.                                                         *)
THEOREM ReceiversOutlive == Spec => []ShutdownOrder
<1>1. ShutdownInv => ShutdownOrder
  BY DEF ShutdownInv, ShutdownOrder
<1> QED
  BY <1>1, ShutdownInvHolds, PTL

(* When run() (capture.rs) returns, both channels and the worker's outbox  *)
(* are empty, whatever their capacities.                                   *)
THEOREM ExitsEmpty == Spec => []NothingLeftBehind
<1>1. ShutdownInv => NothingLeftBehind
  BY DEF ShutdownInv, NothingLeftBehind
<1> QED
  BY <1>1, ShutdownInvHolds, PTL

(***************************************************************************)
(* Accounting                                                              *)
(***************************************************************************)

LEMMA InitAccounted == Init => EventsAccounted
  BY DEF Init, EventsAccounted

(* Only the kernel, the drain task and the worker's recv() move events. *)
LEMMA NextAccounted == TypeOK /\ EventsAccounted /\ [Next]_vars => EventsAccounted'
<1> SUFFICES ASSUME TypeOK, EventsAccounted, [Next]_vars PROVE EventsAccounted'
  OBVIOUS
<1> USE DEF EventsAccounted
<1>a. /\ offered \in Nat /\ kernel_lost \in Nat /\ events_dropped \in Nat /\ taken \in Nat
      /\ Len(ring) \in Nat /\ Len(captures) \in Nat
      /\ ring \in Seq(Events) /\ captures \in Seq(Events)
  BY PipelineAssumption, LenProperties DEF TypeOK
<1>1. CASE Produce
  <2>1. CASE Len(ring) < RingSize
    <3>1. offered + 1 \in Events
      BY <1>1, <1>a, PipelineAssumption DEF Produce, Events
    <3>2. Len(ring') = Len(ring) + 1
      BY <1>1, <1>a, <2>1, <3>1, AppendProperties DEF Produce
    <3> QED
      BY <1>1, <1>a, <2>1, <3>2 DEF Produce, drainVars, workerVars
  <2>2. CASE ~(Len(ring) < RingSize)
    BY <1>1, <1>a, <2>2 DEF Produce, drainVars, workerVars
  <2> QED
    BY <2>1, <2>2
<1>2. CASE DrainNext
  <2>1. Len(ring') = Len(ring) - 1 /\ Head(ring) \in Events
    BY <1>2, <1>a, HeadAndTail DEF DrainNext
  <2>2. CASE Len(captures) < CaptureCap
    <3>1. Len(captures') = Len(captures) + 1
      BY <1>2, <1>a, <2>1, <2>2, AppendProperties DEF DrainNext
    <3> QED
      BY <1>2, <1>a, <2>1, <2>2, <3>1 DEF DrainNext, workerVars
  <2>3. CASE ~(Len(captures) < CaptureCap)
    BY <1>2, <1>a, <2>1, <2>3 DEF DrainNext, workerVars
  <2> QED
    BY <2>2, <2>3
<1>3. ASSUME NEW n \in 0 .. MaxCopies, WorkerTakes(n) PROVE EventsAccounted'
  <2>1. Len(captures') = Len(captures) - 1
    BY <1>3, <1>a, HeadAndTail DEF WorkerTakes
  <2> QED
    BY <1>3, <1>a, <2>1 DEF WorkerTakes, kernelVars
<1>4. CASE UNCHANGED <<offered, kernel_lost, ring, events_dropped, captures, taken>>
  BY <1>4
<1> QED
  BY <1>1, <1>2, <1>3, <1>4
  DEF Next, Drain, DrainCheck, DrainWake, DrainEmpty, DrainAborted,
      LoaderFails, LoaderStops, GraceTimeout, LoaderEnds,
      Worker, WorkerSends, WorkerEnds, Writer, WriterWrites, WriterEnds,
      Signal, MainStops, MainJoins,
      vars, kernelVars, drainVars, workerVars, writerVars, controlVars

(* Every event the kernel offers is counted as lost, in a queue or taken   *)
(* by the worker: the counters of loader.rs and the eBPF program miss      *)
(* none, whatever the capacities.                                          *)
THEOREM AccountsForEvents == Spec => []EventsAccounted
  BY TypeCorrect, InitAccounted, NextAccounted, PTL DEF Spec

(***************************************************************************)
(* The refinement                                                          *)
(***************************************************************************)

Transit == lines \o outbox \o captures \o ring

LEMMA InitStream == Init => Stream!StreamInit
  BY DEF Init, Stream!StreamInit

(* The event at the front of queue b, behind all of a, is lost or becomes  *)
(* n lines: a step of the abstract stream.                                 *)
LEMMA RewriteStep ==
  ASSUME NEW a \in Seq(Events), NEW e \in Events, NEW b \in Seq(Events),
         NEW n \in 0 .. MaxCopies,
         Transit = a \o (<<e>> \o b),
         Transit' = a \o [j \in 1 .. n |-> e] \o b,
         UNCHANGED <<offered, written>>
  PROVE  Stream!StreamNext
<1> DEFINE i == Len(a) + 1
<1>1. /\ i \in DOMAIN Transit /\ Transit[i] = e
      /\ SubSeq(Transit, 1, i - 1) = a
      /\ SubSeq(Transit, i + 1, Len(Transit)) = b
  BY AroundItem
<1>2. Transit' = SubSeq(Transit, 1, i - 1) \o [j \in 1 .. n |-> Transit[i]]
                   \o SubSeq(Transit, i + 1, Len(Transit))
  BY <1>1
<1>3. Stream!Rewrite(i, n)
  BY <1>2 DEF Stream!Rewrite, Transit
<1> QED
  BY <1>1, <1>3 DEF Stream!StreamNext, Transit

LEMMA NextStream ==
  TypeOK /\ [Next]_vars => [Stream!StreamNext]_(Stream!streamVars)
<1> SUFFICES ASSUME TypeOK, [Next]_vars
             PROVE  Stream!StreamNext \/ UNCHANGED <<offered, Transit, written>>
  BY DEF Stream!streamVars, Transit
<1> DEFINE S == Seq(Events)
<1>a. ring \in S /\ captures \in S /\ outbox \in S /\ lines \in S /\ written \in S
  BY DEF TypeOK
<1>b. lines \o outbox \in S /\ lines \o outbox \o captures \in S
  BY <1>a, ConcatProperties
<1>1. CASE Produce
  <2>1. offered + 1 \in Events
    BY <1>1, PipelineAssumption DEF Produce, TypeOK, Events
  <2>2. Transit' \in {Transit, Append(Transit, offered + 1)}
    <3>1. CASE Len(ring) < RingSize
      <4>1. ring' = Append(ring, offered + 1) /\ UNCHANGED <<lines, outbox, captures>>
        BY <1>1, <3>1 DEF Produce, drainVars, workerVars, writerVars
      <4> QED
        BY <1>a, <1>b, <2>1, <4>1, AppendBehind, SMTT(60) DEF Transit
    <3>2. CASE ~(Len(ring) < RingSize)
      BY <1>1, <3>2 DEF Produce, drainVars, workerVars, writerVars, Transit
    <3> QED
      BY <3>1, <3>2
  <2>3. Stream!Offer
    BY <1>1, <2>2 DEF Produce, Stream!Offer, Transit, writerVars
  <2> QED
    BY <2>3 DEF Stream!StreamNext
<1>2. CASE DrainNext
  <2>1. /\ Head(ring) \in Events /\ Tail(ring) \in S
        /\ ring = <<Head(ring)>> \o Tail(ring)
    BY <1>2, <1>a, HeadAndTail DEF DrainNext
  <2>2. UNCHANGED <<offered, lines, outbox, written>> /\ ring' = Tail(ring) /\ ring # <<>>
    BY <1>2 DEF DrainNext, workerVars, writerVars
  <2>3. CASE Len(captures) < CaptureCap
    <3>1. captures' = Append(captures, Head(ring))
      BY <1>2, <2>3 DEF DrainNext
    <3>2. Transit' = Append(lines \o outbox \o captures, Head(ring)) \o Tail(ring)
      <4>1. (lines \o outbox) \o Append(captures, Head(ring))
              = Append(lines \o outbox \o captures, Head(ring))
        BY <1>a, <1>b, <2>1, AppendBehind
      <4> QED
        BY <2>2, <3>1, <4>1 DEF Transit
    <3>3. Transit' = Transit
      BY <1>a, <1>b, <2>2, <3>2, HandOver DEF Transit
    <3> QED
      BY <2>2, <3>3
  <2>4. CASE ~(Len(captures) < CaptureCap)
    <3> DEFINE none == [j \in 1 .. 0 |-> Head(ring)]
    <3>1. captures' = captures
      BY <1>2, <2>4 DEF DrainNext
    <3>2. none = <<>> /\ 0 \in 0 .. MaxCopies
      BY PipelineAssumption
    <3>3. Transit' = (lines \o outbox \o captures) \o none \o Tail(ring)
      BY <1>b, <2>2, <3>1, <3>2, ConcatEmptySeq DEF Transit
    <3>4. Transit = (lines \o outbox \o captures) \o (<<Head(ring)>> \o Tail(ring))
      BY <2>1 DEF Transit
    <3> QED
      BY <1>b, <2>1, <2>2, <3>2, <3>3, <3>4, RewriteStep
  <2> QED
    BY <2>3, <2>4
<1>3. ASSUME NEW n \in 0 .. MaxCopies, WorkerTakes(n) PROVE Stream!StreamNext
  <2> DEFINE e == Head(captures)
             copies == [j \in 1 .. n |-> e]
             rest == Tail(captures) \o ring
  <2>1. /\ e \in Events /\ Tail(captures) \in S /\ <<e>> \in S
        /\ captures = <<e>> \o Tail(captures)
    BY <1>3, <1>a, HeadAndTail DEF WorkerTakes
  <2>2. copies \in S
    BY <2>1
  <2>3. rest \in S
    BY <1>a, <2>1, ConcatProperties
  <2>4. /\ outbox = <<>> /\ outbox' = copies /\ captures' = Tail(captures)
        /\ UNCHANGED <<offered, ring, lines, written>>
    BY <1>3 DEF WorkerTakes, kernelVars, writerVars
  <2> HIDE DEF copies
  <2>5. Transit = lines \o (<<e>> \o rest)
    <3>1. lines \o outbox = lines
      BY <1>a, <2>4, ConcatEmptySeq
    <3>2. Transit = lines \o captures \o ring
      BY <3>1 DEF Transit
    <3>3. lines \o captures \o ring = lines \o (captures \o ring)
      BY <1>a, ConcatAssociative, SMTT(60)
    <3>4. captures \o ring = (<<e>> \o Tail(captures)) \o ring
      BY <2>1
    <3>5. (<<e>> \o Tail(captures)) \o ring = <<e>> \o rest
      BY <1>a, <2>1, ConcatAssociative
    <3> QED
      BY <3>2, <3>3, <3>4, <3>5
  <2>6. Transit' = lines \o copies \o rest
    <3>1. lines \o copies \in S
      BY <1>a, <2>2, ConcatProperties
    <3>2. Transit' = ((lines \o copies) \o Tail(captures)) \o ring
      BY <2>4 DEF Transit
    <3>3. \A front, tail \in S : (front \o tail) \o ring = front \o (tail \o ring)
      BY <1>a, Regroup, SMTT(60)
    <3>4. Tail(captures) \in S
      BY <2>1
    <3>5. ((lines \o copies) \o Tail(captures)) \o ring
            = (lines \o copies) \o (Tail(captures) \o ring)
      BY <3>1, <3>3, <3>4, Zenon
    <3> QED
      BY <3>2, <3>5
  <2> QED
    BY <1>a, <2>1, <2>3, <2>4, <2>5, <2>6, RewriteStep DEF copies
<1>4. CASE WorkerSends
  <2>1. /\ outbox # <<>> /\ lines' = Append(lines, Head(outbox)) /\ outbox' = Tail(outbox)
        /\ UNCHANGED <<offered, ring, captures, written>>
    BY <1>4 DEF WorkerSends, kernelVars, drainVars
  <2>2. lines' \o outbox' = lines \o outbox
    BY <1>a, <2>1, HandOver
  <2> QED
    BY <2>1, <2>2 DEF Transit
<1>5. CASE WriterWrites
  <2> DEFINE e == Head(lines)
             rest == Tail(lines) \o outbox \o captures \o ring
  <2>1. /\ lines # <<>> /\ lines' = Tail(lines) /\ written' = Append(written, e)
        /\ UNCHANGED <<offered, ring, captures, outbox>>
    BY <1>5 DEF WriterWrites, kernelVars, drainVars, workerVars
  <2>2. /\ e \in Events /\ Tail(lines) \in S /\ <<e>> \in S
        /\ lines = <<e>> \o Tail(lines)
    BY <1>a, <2>1, HeadAndTail
  <2>3. /\ Tail(lines) \o outbox \in S /\ Tail(lines) \o outbox \o captures \in S
        /\ rest \in S
    BY <1>a, <2>2, ConcatProperties
  <2>4. Transit = <<e>> \o rest
    <3>1. lines \o outbox = <<e>> \o (Tail(lines) \o outbox)
      BY <1>a, <2>2, ConcatAssociative
    <3>2. lines \o outbox \o captures = <<e>> \o (Tail(lines) \o outbox \o captures)
      BY <1>a, <2>2, <2>3, <3>1, ConcatAssociative, SMTT(60)
    <3>3. (<<e>> \o (Tail(lines) \o outbox \o captures)) \o ring = <<e>> \o rest
      BY <1>a, <2>2, <2>3, ConcatAssociative, SMTT(60)
    <3> QED
      BY <3>2, <3>3 DEF Transit
  <2>5. Transit # <<>> /\ Head(Transit) = e /\ Tail(Transit) = rest
    <3> HIDE DEF rest
    <3>1. <<e>> \o rest # <<>> /\ Head(<<e>> \o rest) = e /\ Tail(<<e>> \o rest) = rest
      BY <2>2, <2>3
    <3> QED
      BY <2>4, <3>1
  <2>6. Transit' = rest
    BY <2>1 DEF Transit
  <2>7. Stream!Deliver
    BY <2>1, <2>5, <2>6 DEF Stream!Deliver, Transit
  <2> QED
    BY <2>7 DEF Stream!StreamNext
<1>6. CASE UNCHANGED <<offered, ring, captures, outbox, lines, written>>
  BY <1>6 DEF Transit
<1> QED
  BY <1>1, <1>2, <1>3, <1>4, <1>5, <1>6
  DEF Next, Drain, DrainCheck, DrainWake, DrainEmpty, DrainAborted,
      LoaderFails, LoaderStops, GraceTimeout, LoaderEnds,
      Worker, WorkerEnds, Writer, WriterEnds, Signal, MainStops, MainJoins,
      vars, kernelVars, drainVars, workerVars, writerVars, controlVars

(* The pipeline of loader.rs, capture.rs and pipeline.rs implements a      *)
(* lossy stream: what reaches the output is in the order of the ring       *)
(* buffer, nothing is made up, and one event becomes at most MaxCopies     *)
(* lines, for any capacities.                                              *)
THEOREM ImplementsLossyStream == Spec => IsLossyStream
  BY TypeCorrect, InitStream, NextStream, PTL DEF Spec, IsLossyStream, Stream!StreamSpec

=============================================================================
