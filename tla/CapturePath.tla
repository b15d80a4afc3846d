---------------------------- MODULE CapturePath ----------------------------
(***************************************************************************)
(* From the wire to the assembled record: the TCP segments of one or more  *)
(* flows pass the classifier's hook, its events cross the ring buffer, and *)
(* the worker hands them to the reassembler.                               *)
(*                                                                         *)
(* The wire carries the segments of each flow in order; a segment may be   *)
(* seen late or again (reordering and retransmission) and an event may be  *)
(* lost between the ring and the worker (the capture channel is full).     *)
(* Each of these costs one unit of a fault budget.                         *)
(*                                                                         *)
(* The worker (crates/tls-probe-cli/src/commands/capture.rs) sweeps the    *)
(* reassembler after every so many captures, not on a timer.               *)
(***************************************************************************)
EXTENDS Classifier, FragmentRun

CONSTANTS
  Wire,        (* the segments, as a sequence of Packets in stream order   *)
  MaxFlows,    (* Reassembler::max_flows                                   *)
  MaxSegments, (* the cap of Reassembler::insert                           *)
  Timeout,     (* Reassembler::timeout, in ticks                           *)
  SweepEvery,  (* captures between two sweeps (500)                        *)
  Traffic,     (* environment: captures of other connections keep coming   *)
  MaxFaults,   (* bound: reordered, repeated and lost segments             *)
  TimePasses   (* whether the clock runs; without it, all is done in time  *)

VARIABLES
  flows, out,  (* the reassembler's                                        *)
  unsent,      (* indices of the segments that have not passed the hook    *)
  handled,     (* timeout_counter, modulo SweepEvery                       *)
  faults,      (* faults so far                                            *)
  emitted      (* ghost: records the reassembler has returned              *)

pathVars == <<vars, flows, out, unsent, handled, faults, emitted>>

(* Everything the classifier can make of the wire's segments. *)
WireCaptures ==
  {Capture(p, kind) : p \in Packets, kind \in {"whole", "fragment", "continuation"}}

R == INSTANCE Reassembler WITH Keys <- Flows, Captures <- WireCaptures

ASSUME PathAssumption ==
  /\ Packets = {Wire[i] : i \in DOMAIN Wire}
  /\ Flows \subseteq Nat
  /\ WireCaptures \subseteq R!Capture
  /\ MaxFlows \in Nat \ {0} /\ MaxSegments \in Nat \ {0} /\ Timeout \in Nat \ {0}
  /\ None \notin Nat /\ None \notin R!Capture
  /\ SweepEvery \in Nat \ {0}
  /\ Traffic \in BOOLEAN
  /\ MaxFaults \in Nat
  /\ TimePasses \in BOOLEAN

PathInit ==
  /\ Init
  /\ R!Init
  /\ unsent = DOMAIN Wire
  /\ handled = 0
  /\ faults = 0
  /\ emitted = {}

(* The hook sees packet p on CPU c. *)
Hook(c, p) ==
  /\ Ignore(c, p) \/ Classify(c, p)
  /\ UNCHANGED <<flows, out, handled, emitted>>

(* The next segment of a flow in order, or a later one first. *)
Pass(c, i) ==
  /\ i \in unsent
  /\ LET first == Min({j \in unsent : Wire[j].key = Wire[i].key})
     IN  faults' = IF i = first THEN faults ELSE faults + 1
  /\ faults' <= MaxFaults
  /\ unsent' = unsent \ {i}
  /\ Hook(c, Wire[i])

(* A segment that passed before passes again. *)
Retransmit(c, i) ==
  /\ i \in DOMAIN Wire \ unsent
  /\ faults < MaxFaults
  /\ faults' = faults + 1
  /\ Hook(c, Wire[i])
  /\ UNCHANGED unsent

(* The rest of an invocation of the classifier. *)
KernelStep(c) ==
  /\ ReadState(c) \/ EmitContinuation(c) \/ EmitUnflagged(c) \/ EmitFirst(c)
  /\ UNCHANGED <<flows, out, unsent, handled, faults, emitted>>

(* What insert() makes of a capture: one that is no part of a fragmented   *)
(* record goes past the reassembler, a repeated continuation is ignored.   *)
InsertResult(m, c) ==
  IF c.kind = "fragment" THEN R!FragmentResult(m, c)
  ELSE IF c.kind = "continuation" /\ ~R!IsDuplicate(m, c)
       THEN R!ContinuationResult(m, c)
       ELSE [flows |-> m, out |-> {}]

(* Mutant: the counter is reset without sweeping. *)
CountAndSweep_NeverSweeps(r) ==
  /\ handled' = (handled + 1) % SweepEvery
  /\ flows' = r.flows
  /\ out' = r.out
  /\ emitted' = emitted \cup r.out

(* The end of the worker's loop: every SweepEvery captures the table that  *)
(* is left is swept, and what had expired is emitted, too.                 *)
CountAndSweep(r) ==
  LET due == IF handled + 1 = SweepEvery THEN R!Expired(r.flows) ELSE {}
  IN  \E s \in {R!FinalizeEntries(r.flows, due)} :
        /\ handled' = (handled + 1) % SweepEvery
        /\ flows' = s.flows
        /\ out' = r.out \cup s.out
        /\ emitted' = emitted \cup r.out \cup s.out

(* The worker takes the oldest event of the ring. *)
Insert ==
  /\ Consume
  /\ \E r \in {InsertResult(flows, Head(ring))} : CountAndSweep(r)
  /\ UNCHANGED <<unsent, faults>>

(* The worker takes a capture of some other connection, not fragmented. *)
OtherCapture ==
  /\ Traffic
  /\ CountAndSweep([flows |-> flows, out |-> {}])
  /\ UNCHANGED <<vars, unsent, faults>>

(* The capture channel is full: the event is dropped. *)
LoseEvent ==
  /\ faults < MaxFaults
  /\ Consume
  /\ faults' = faults + 1
  /\ UNCHANGED <<flows, out, unsent, handled, emitted>>

PassTime ==
  /\ TimePasses
  /\ R!Tick
  /\ UNCHANGED <<vars, unsent, handled, faults, emitted>>

KernelEvict ==
  /\ faults < MaxFaults
  /\ faults' = faults + 1
  /\ \E k \in Flows : LruEvict(k)
  /\ UNCHANGED <<flows, out, unsent, handled, emitted>>

PathNext ==
  \/ \E c \in Cpus :
       \/ \E i \in DOMAIN Wire : Pass(c, i) \/ Retransmit(c, i)
       \/ KernelStep(c)
  \/ Insert
  \/ OtherCapture
  \/ LoseEvent
  \/ PassTime
  \/ KernelEvict

PathSpec == PathInit /\ [][PathNext]_pathVars

(* The segments of the wire arrive in the end, a classifier invocation     *)
(* runs to its end (the verifier admits no endless loop), and the worker   *)
(* takes what the ring holds.  Time passes; with Traffic, other captures   *)
(* keep coming.                                                            *)
FairPathSpec ==
  /\ PathSpec
  /\ \A c \in Cpus : WF_pathVars(KernelStep(c))
  /\ WF_pathVars(\E c \in Cpus, i \in DOMAIN Wire : Pass(c, i))
  /\ WF_pathVars(Insert)
  /\ WF_pathVars(OtherCapture)
  /\ WF_pathVars(PassTime)

(***************************************************************************)
(* Properties                                                              *)
(***************************************************************************)

(* The segments of the record that starts at segment i: those of the same  *)
(* flow within the length its header announces.                            *)
RecordSegments(i) ==
  {j \in DOMAIN Wire :
     /\ Wire[j].key = Wire[i].key
     /\ Wire[i].seq <= Wire[j].seq
     /\ Wire[j].seq < Wire[i].seq + Wire[i].record_len + RecordHeader}

(* Records that start a segment and, by their header, go on past it. *)
SegmentedRecords ==
  {i \in DOMAIN Wire : Wire[i].lead # "other" /\ IsFragment(Wire[i])}

(* r is the record that starts at segment i. *)
IsRecord(r, i) ==
  /\ r.key = Wire[i].key
  /\ r.head.seq = Wire[i].seq
  /\ r.cut = Wire[i].record_len + RecordHeader

(* A reported record was on the wire: it starts where a segmented record   *)
(* of its flow starts and is a stretch of its stream, and one reported     *)
(* whole has that record's length and all of its bytes, with any mixture   *)
(* of reordering, retransmission, loss, eviction and timeout between the   *)
(* wire and the worker.                                                    *)
RecordsAreReal ==
  \A r \in emitted :
    /\ R!Tiled(r)
    /\ \E i \in SegmentedRecords :
         /\ Wire[i].key = r.key
         /\ Wire[i].seq = r.head.seq
         /\ ~r.truncated => IsRecord(r, i)
    /\ ~r.truncated =>
         \E p \in DOMAIN r.pieces : p + r.pieces[p] - r.head.seq >= r.cut

(* Segments fit to be captured: a header's worth and one byte, no more     *)
(* than the scratch buffer.                                                *)
Capturable(i) ==
  \A j \in RecordSegments(i) :
    Wire[j].len > RecordHeader /\ Wire[j].len <= RawPayloadSize

(* An entry has reached its timeout while segments were under way. *)
Late ==
  /\ \E k \in DOMAIN flows : flows[k].age = Timeout
  /\ unsent # {} \/ Busy # {} \/ ring # <<>>

(* Nothing was reordered, repeated, lost, handled on two CPUs at once or   *)
(* too late for the timeout.                                               *)
Undisturbed == faults = 0 /\ drops = 0 /\ raced = {} /\ ~Late

(* Undisturbed, every record of fewer segments than the cap is reported    *)
(* whole in the end, also when another record precedes it on its flow.     *)
ShortRecordsComplete ==
  []Undisturbed =>
    \A i \in SegmentedRecords :
      (Capturable(i) /\ Cardinality(RecordSegments(i)) \in 2 .. MaxSegments - 1) =>
        <>(\E r \in emitted : IsRecord(r, i) /\ ~r.truncated)

(* Nothing waits for ever: every entry of the reassembler, with its head   *)
(* or an orphan, is completed, cut off or swept in the end, as long as     *)
(* captures keep coming, whatever was lost or repeated.                    *)
NothingWaitsForever ==
  \A k \in Flows : (k \in DOMAIN flows) ~> (k \notin DOMAIN flows)

(***************************************************************************)
(* What the documentation says and the code does not keep.                 *)
(***************************************************************************)

(* README: segmented hellos are "parsed whole" unless "past 4 segments":   *)
(* without faults, every record of at most four segments is reported       *)
(* whole.                                                                  *)
SegmentedRecordsComplete ==
  \A i \in SegmentedRecords :
    (Cardinality(RecordSegments(i)) \in 2 .. MaxReasmSegments) =>
      <>(\E r \in emitted : IsRecord(r, i) /\ ~r.truncated)

(* docs/limitations.md: "Cap or timeout hit -> the available prefix is     *)
(* parsed and the event is emitted": an entry whose timeout has passed     *)
(* does not stay.                                                          *)
TimeoutEmits ==
  \A k \in Flows :
    (k \in DOMAIN flows /\ flows[k].age = Timeout) ~> (k \notin DOMAIN flows)

=============================================================================
