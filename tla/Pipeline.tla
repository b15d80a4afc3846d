------------------------------ MODULE Pipeline ------------------------------
(***************************************************************************)
(* The tasks and channels between the kernel's ring buffer and the output  *)
(* (crates/tls-probe-cli/src/loader.rs: TlsProbeLoader::run;               *)
(* commands/capture.rs: run; pipeline.rs: run_writer_thread), with the     *)
(* shutdown that takes them down one after the other.                      *)
(*                                                                         *)
(*   ring -> drain task -> captures -> worker task -> lines -> writer      *)
(*                                                                         *)
(* A channel is closed for its receiver once every sender is dropped: the  *)
(* capture channel by the end of the drain task, the line channel by the   *)
(* end of the worker and main's own drop.  Events are numbered in the      *)
(* order the kernel offers them; a line bears the number of its event.     *)
(***************************************************************************)
EXTENDS Naturals, Sequences

CONSTANTS
  RingSize,     (* events the ring buffer holds                             *)
  CaptureCap,   (* EVENT_CHANNEL_CAPACITY (1000)                            *)
  WriterCap,    (* WRITE_CHANNEL_CAPACITY (256)                             *)
  MaxCopies,    (* most lines one capture is turned into                    *)
  MaxEvents     (* bound: events the kernel offers                          *)

ASSUME PipelineAssumption ==
  /\ RingSize \in Nat /\ MaxEvents \in Nat
  /\ CaptureCap \in Nat \ {0} /\ WriterCap \in Nat \ {0}
  /\ MaxCopies \in Nat \ {0}

VARIABLES
  offered,         (* events offered by the classifier                       *)
  ring,            (* TLS_EVENTS                                             *)
  kernel_lost,     (* RINGBUF_DROPS                                          *)
  drain,           (* the drain task                                         *)
  captures,        (* the capture channel                                    *)
  events_dropped,  (* the counter                                            *)
  taken,           (* ghost: captures the worker received                    *)
  worker,          (* the worker task                                        *)
  outbox,          (* lines the worker has yet to send for its capture       *)
  lines,           (* the line channel                                       *)
  writer,          (* the writer thread                                      *)
  written,         (* lines written; events_emitted is its length            *)
  running,         (* the AtomicBool                                         *)
  loader,          (* the loader task                                        *)
  main             (* run() itself                                           *)

kernelVars == <<offered, ring, kernel_lost>>
drainVars == <<drain, captures, events_dropped>>
workerVars == <<taken, worker, outbox>>
writerVars == <<lines, writer, written>>
controlVars == <<running, loader, main>>
vars == <<kernelVars, drainVars, workerVars, writerVars, controlVars>>

Events == 1 .. MaxEvents

(* Queues hold events within their capacities; tasks are in known states.  *)
TypeOK ==
  /\ offered \in 0 .. MaxEvents
  /\ ring \in Seq(Events) /\ Len(ring) <= RingSize
  /\ kernel_lost \in Nat /\ events_dropped \in Nat /\ taken \in Nat
  /\ drain \in {"checking", "parked", "draining", "ended"}
  /\ captures \in Seq(Events) /\ Len(captures) <= CaptureCap
  /\ worker \in {"running", "ended"}
  /\ outbox \in Seq(Events) /\ Len(outbox) <= MaxCopies
  /\ lines \in Seq(Events) /\ Len(lines) <= WriterCap
  /\ writer \in {"running", "ended"}
  /\ written \in Seq(Events)
  /\ running \in BOOLEAN
  /\ loader \in {"polling", "grace", "aborting", "done"}
  /\ main \in {"polling", "loader", "worker", "writer", "exited"}

Init ==
  /\ offered = 0 /\ ring = <<>> /\ kernel_lost = 0
  /\ drain = "checking" /\ captures = <<>> /\ events_dropped = 0
  /\ taken = 0 /\ worker = "running" /\ outbox = <<>>
  /\ lines = <<>> /\ writer = "running" /\ written = <<>>
  /\ running = TRUE /\ loader = "polling" /\ main = "polling"

(***************************************************************************)
(* The kernel                                                              *)
(***************************************************************************)

Produce ==
  /\ offered < MaxEvents
  /\ offered' = offered + 1
  /\ IF Len(ring) < RingSize
     THEN ring' = Append(ring, offered + 1) /\ UNCHANGED kernel_lost
     ELSE kernel_lost' = kernel_lost + 1 /\ UNCHANGED ring
  /\ UNCHANGED <<drainVars, workerVars, writerVars, controlVars>>

(***************************************************************************)
(* The drain task: checks running, parks until the ring is readable,       *)
(* empties it, and checks again.  Its end drops the capture sender.        *)
(***************************************************************************)

DrainCheck ==
  /\ drain = "checking"
  /\ drain' = IF running THEN "parked" ELSE "ended"
  /\ UNCHANGED <<kernelVars, captures, events_dropped, workerVars, writerVars,
                 controlVars>>

DrainWake ==
  /\ drain = "parked"
  /\ ring # <<>>
  /\ drain' = "draining"
  /\ UNCHANGED <<kernelVars, captures, events_dropped, workerVars, writerVars,
                 controlVars>>

(* Mutant: an event that finds the channel full is lost uncounted. *)
DrainNext_Uncounted ==
  /\ drain = "draining"
  /\ ring # <<>>
  /\ ring' = Tail(ring)
  /\ captures' = IF Len(captures) < CaptureCap THEN Append(captures, Head(ring))
                 ELSE captures
  /\ UNCHANGED <<offered, kernel_lost, drain, events_dropped, workerVars,
                 writerVars, controlVars>>

(* Mutant: an event that finds the channel full is put off, not dropped. *)
DrainNext_PutsOff ==
  /\ drain = "draining"
  /\ ring # <<>>
  /\ IF Len(captures) < CaptureCap
     THEN captures' = Append(captures, Head(ring)) /\ ring' = Tail(ring)
     ELSE ring' = Append(Tail(ring), Head(ring)) /\ UNCHANGED captures
  /\ UNCHANGED <<offered, kernel_lost, drain, events_dropped, workerVars,
                 writerVars, controlVars>>

(* try_send of the next event: a full channel drops it and counts.  (The   *)
(* closed channel, where the task returns, is ruled out by ShutdownOrder.) *)
DrainNext ==
  /\ drain = "draining"
  /\ ring # <<>>
  /\ ring' = Tail(ring)
  /\ IF Len(captures) < CaptureCap
     THEN captures' = Append(captures, Head(ring)) /\ UNCHANGED events_dropped
     ELSE events_dropped' = events_dropped + 1 /\ UNCHANGED captures
  /\ UNCHANGED <<offered, kernel_lost, drain, workerVars, writerVars, controlVars>>

DrainEmpty ==
  /\ drain = "draining"
  /\ ring = <<>>
  /\ drain' = "checking"
  /\ UNCHANGED <<kernelVars, captures, events_dropped, workerVars, writerVars,
                 controlVars>>

(* abort() takes effect where the task awaits, not while it drains. *)
DrainAborted ==
  /\ loader = "aborting"
  /\ drain = "parked"
  /\ drain' = "ended"
  /\ UNCHANGED <<kernelVars, captures, events_dropped, workerVars, writerVars,
                 controlVars>>

Drain == DrainCheck \/ DrainWake \/ DrainNext \/ DrainEmpty \/ DrainAborted

(***************************************************************************)
(* The loader task                                                         *)
(***************************************************************************)

(* run() fails before the drain task is spawned: the sender is dropped. *)
LoaderFails ==
  /\ loader = "polling"
  /\ drain = "checking" /\ offered = 0
  /\ loader' = "done"
  /\ drain' = "ended"
  /\ UNCHANGED <<kernelVars, captures, events_dropped, workerVars, writerVars,
                 running, main>>

LoaderStops ==
  /\ loader = "polling"
  /\ ~running
  /\ loader' = "grace"
  /\ UNCHANGED <<kernelVars, drainVars, workerVars, writerVars, running, main>>

(* Mutant: the drain task is awaited without a limit. *)
GraceTimeout_Never ==
  /\ FALSE
  /\ UNCHANGED vars

(* Two seconds without the drain task's end. *)
GraceTimeout ==
  /\ loader = "grace"
  /\ drain # "ended"
  /\ loader' = "aborting"
  /\ UNCHANGED <<kernelVars, drainVars, workerVars, writerVars, running, main>>

LoaderEnds ==
  /\ loader \in {"grace", "aborting"}
  /\ drain = "ended"
  /\ loader' = "done"
  /\ UNCHANGED <<kernelVars, drainVars, workerVars, writerVars, running, main>>

(***************************************************************************)
(* The worker task                                                         *)
(***************************************************************************)

(* A capture becomes n lines: none while a record is being reassembled,    *)
(* one as a rule, more with synthesized and swept events.                  *)
WorkerTakes(n) ==
  /\ worker = "running"
  /\ outbox = <<>>
  /\ captures # <<>>
  /\ outbox' = [i \in 1 .. n |-> Head(captures)]
  /\ captures' = Tail(captures)
  /\ taken' = taken + 1
  /\ UNCHANGED <<kernelVars, drain, events_dropped, worker, writerVars, controlVars>>

(* send().await: waits while the line channel is full. *)
WorkerSends ==
  /\ worker = "running"
  /\ outbox # <<>>
  /\ Len(lines) < WriterCap
  /\ lines' = Append(lines, Head(outbox))
  /\ outbox' = Tail(outbox)
  /\ UNCHANGED <<kernelVars, drainVars, taken, worker, writer, written, controlVars>>

(* Mutant: the worker stops when running is cleared. *)
WorkerEnds_OnStop ==
  /\ worker = "running"
  /\ ~running
  /\ outbox = <<>>
  /\ worker' = "ended"
  /\ UNCHANGED <<kernelVars, drainVars, taken, outbox, writerVars, controlVars>>

(* recv() yields None: the channel is empty and its sender is gone. *)
WorkerEnds ==
  /\ worker = "running"
  /\ outbox = <<>>
  /\ captures = <<>>
  /\ drain = "ended"
  /\ worker' = "ended"
  /\ UNCHANGED <<kernelVars, drainVars, taken, outbox, writerVars, controlVars>>

Worker == (\E n \in 0 .. MaxCopies : WorkerTakes(n)) \/ WorkerSends \/ WorkerEnds

(***************************************************************************)
(* The writer thread                                                       *)
(***************************************************************************)

WriterWrites ==
  /\ writer = "running"
  /\ lines # <<>>
  /\ written' = Append(written, Head(lines))
  /\ lines' = Tail(lines)
  /\ UNCHANGED <<kernelVars, drainVars, workerVars, writer, controlVars>>

(* Mutant: the worker's clone of the sender is forgotten. *)
WriterEnds_OneSender ==
  /\ writer = "running"
  /\ lines = <<>>
  /\ main \in {"worker", "writer"}
  /\ writer' = "ended"
  /\ UNCHANGED <<kernelVars, drainVars, workerVars, lines, written, controlVars>>

(* try_recv() is Disconnected: empty, and both senders are gone.  The      *)
(* backend is finalized.                                                   *)
WriterEnds ==
  /\ writer = "running"
  /\ lines = <<>>
  /\ worker = "ended"
  /\ main \in {"worker", "writer"}
  /\ writer' = "ended"
  /\ UNCHANGED <<kernelVars, drainVars, workerVars, lines, written, controlVars>>

Writer == WriterWrites \/ WriterEnds

(***************************************************************************)
(* Main                                                                    *)
(***************************************************************************)

(* Ctrl+C or SIGTERM. *)
Signal ==
  /\ running
  /\ running' = FALSE
  /\ UNCHANGED <<kernelVars, drainVars, workerVars, writerVars, loader, main>>

(* The duration is over, or the signal was seen. *)
MainStops ==
  /\ main = "polling"
  /\ running' = FALSE
  /\ main' = "loader"
  /\ UNCHANGED <<kernelVars, drainVars, workerVars, writerVars, loader>>

(* Mutant: the writer thread is not joined. *)
MainJoins_NoWriter ==
  /\ \/ main = "loader" /\ loader = "done" /\ main' = "worker"
     \/ main = "worker" /\ worker = "ended" /\ main' = "writer"
     \/ main = "writer" /\ main' = "exited"
  /\ UNCHANGED <<kernelVars, drainVars, workerVars, writerVars, running, loader>>

(* The tasks are awaited one after the other; main's line sender is        *)
(* dropped after the loader's end.                                         *)
MainJoins ==
  /\ \/ main = "loader" /\ loader = "done" /\ main' = "worker"
     \/ main = "worker" /\ worker = "ended" /\ main' = "writer"
     \/ main = "writer" /\ writer = "ended" /\ main' = "exited"
  /\ UNCHANGED <<kernelVars, drainVars, workerVars, writerVars, running, loader>>

Next ==
  \/ Produce
  \/ Drain
  \/ LoaderFails
  \/ LoaderStops
  \/ GraceTimeout
  \/ LoaderEnds
  \/ Worker
  \/ Writer
  \/ Signal
  \/ MainStops
  \/ MainJoins

Spec == Init /\ [][Next]_vars

(* Each task that can run is scheduled, timers fire, and main polls the    *)
(* flag; nothing is assumed of the kernel, of signals or of the duration.  *)
FairSpec ==
  /\ Spec
  /\ WF_vars(Drain)
  /\ WF_vars(LoaderStops) /\ WF_vars(GraceTimeout) /\ WF_vars(LoaderEnds)
  /\ WF_vars(Worker)
  /\ WF_vars(Writer)
  /\ WF_vars(~running /\ MainStops)
  /\ WF_vars(MainJoins)

(***************************************************************************)
(* Properties                                                              *)
(***************************************************************************)

(* Every event the kernel offered is counted as lost, still in a queue, or *)
(* in the worker's hands: no step of drain, worker or shutdown loses one   *)
(* that no counter shows.                                                  *)
EventsAccounted ==
  offered = kernel_lost + Len(ring) + events_dropped + Len(captures) + taken

(* Receivers outlive their senders: the drain task never finds the capture *)
(* channel closed, and the worker never finds the line channel closed, so  *)
(* their error paths, which drop what they hold, are never taken.          *)
ShutdownOrder ==
  /\ drain # "ended" => worker # "ended"
  /\ worker # "ended" => writer # "ended"

(* When run() returns, every capture that entered the channel was handled  *)
(* and all of its lines are written: the last counters line is final.      *)
NothingLeftBehind ==
  main = "exited" => captures = <<>> /\ outbox = <<>> /\ lines = <<>>

(* What is in transit and what is delivered, for the abstract stream.      *)
Stream == INSTANCE LossyStream WITH
  transit <- lines \o outbox \o captures \o ring,
  delivered <- written

(* The pipeline implements a lossy stream: the ring, the capture channel,  *)
(* the worker's outbox and the line channel drop events but never reorder, *)
(* repeat or make up one.                                                  *)
IsLossyStream == Stream!StreamSpec

(* Once running is cleared, run() returns, however full the queues are and *)
(* however quiet the ring is ("not worth hanging SIGTERM for").            *)
ShutdownCompletes == ~running ~> main = "exited"

=============================================================================
