----------------------------- MODULE Classifier -----------------------------
(***************************************************************************)
(* The TC classifier of the eBPF program: try_capture_tls                  *)
(* (crates/tls-probe-ebpf/src/tls.rs) with its maps REASM_MAP, TLS_EVENTS  *)
(* and RINGBUF_DROPS (crates/tls-probe-ebpf/src/main.rs).                  *)
(*                                                                         *)
(* The program runs once per packet, on the CPU that handles it, and holds *)
(* no lock: it asks REASM_MAP whether the flow has a record in progress,   *)
(* asks again for its state, and writes the updated state back, each a     *)
(* separate map operation that other CPUs' invocations interleave with.    *)
(*                                                                         *)
(* A packet is its flow (ReasmKey: connection and direction), the sequence *)
(* number and length of its TCP payload, and what the first six payload    *)
(* bytes say: a handshake or alert record header the filters accept, with  *)
(* its record_len, or anything else.                                       *)
(***************************************************************************)
EXTENDS Integers, FiniteSets, FiniteSetsExt, Functions, Sequences

CONSTANTS
  Flows,             (* ReasmKeys                                          *)
  Packets,           (* packets that may pass the hook                     *)
  Cpus,              (* CPUs that run the classifier                       *)
  MaxReasmSegments,  (* MAX_REASM_SEGMENTS (4)                             *)
  RawPayloadSize,    (* RAW_PAYLOAD_SIZE (4096)                            *)
  RingSize,          (* events the ring buffer holds                       *)
  MaxPackets,        (* bound: packets captured                            *)
  None

RecordHeader == 5  \* TLS_RECORD_HDR_LEN

Packet == [key: Flows, seq: Nat, len: Nat \ {0}, record_len: Nat,
           lead: {"handshake", "alert", "other"}]

ReasmState == [remaining: Nat, segments_left: 0 .. MaxReasmSegments]

CaptureEvent == [key: Flows, kind: {"whole", "fragment", "continuation"},
                 seq: Nat, len: Nat \ {0}, record_len: Nat]

(* Lookup result held while an invocation runs. *)
Invocation == [pkt: Packets, continuation: BOOLEAN,
               state: ReasmState \cup {None}, stage: {"classified", "read"}]

ASSUME ClassifierAssumption ==
  /\ Packets \subseteq Packet
  /\ MaxReasmSegments \in Nat \ {0}
  /\ RawPayloadSize \in Nat \ {0}
  /\ RingSize \in Nat
  /\ MaxPackets \in Nat
  /\ IsFiniteSet(Cpus)
  /\ None \notin Packet \cup ReasmState \cup Invocation

VARIABLES
  reasm,    (* REASM_MAP: a function on the flows with a record in progress *)
  cpu,      (* per CPU: the invocation in progress, or None                 *)
  ring,     (* TLS_EVENTS: captures not yet consumed by userspace           *)
  drops,    (* RINGBUF_DROPS                                                *)
  seen,     (* ghost: packets that passed the filters                       *)
  taken,    (* ghost: captures userspace consumed                           *)
  segs,     (* ghost: captures of each flow since its last head             *)
  owed,     (* ghost: bytes of that head's record not captured so far       *)
  raced     (* ghost: the flows two CPUs handled at once, until a head that  *)
            (* one CPU handles alone starts the flow's state afresh          *)

vars == <<reasm, cpu, ring, drops, seen, taken, segs, owed, raced>>

(* Maps, invocations and events are well formed: no counter underflows.    *)
TypeOK ==
  /\ reasm \in [DOMAIN reasm -> ReasmState] /\ DOMAIN reasm \subseteq Flows
  /\ cpu \in [Cpus -> Invocation \cup {None}]
  /\ ring \in Seq(CaptureEvent)
  /\ drops \in Nat /\ seen \in Nat /\ taken \in Nat
  /\ segs \in [Flows -> Nat] /\ owed \in [Flows -> Int] /\ raced \subseteq Flows

(***************************************************************************)
(* Operations                                                              *)
(***************************************************************************)

With(m, k, v) == [x \in DOMAIN m \cup {k} |-> IF x = k THEN v ELSE m[x]]
Without(m, k) == Restrict(m, DOMAIN m \ {k})

(* u32 saturating_sub *)
SaturatingSub(a, b) == IF a > b THEN a - b ELSE 0

(* The program needs a record header and one more byte, also of a          *)
(* continuation; a packet that continues nothing must start with a         *)
(* handshake or alert record of an accepted version and type.              *)
Accepts(p, continuation) ==
  /\ p.len >= RecordHeader + 1
  /\ continuation \/ p.lead # "other"

(* The exact-length copy stops at the scratch buffer's size. *)
CopyLen(p) == Min({p.len, RawPayloadSize})

Capture(p, kind) ==
  [key |-> p.key, kind |-> kind, seq |-> p.seq, len |-> CopyLen(p),
   record_len |-> p.record_len]

(* Mutant: a full ring loses the event without counting it. *)
Output_Uncounted(e) ==
  /\ ring' = IF Len(ring) < RingSize THEN Append(ring, e) ELSE ring
  /\ UNCHANGED drops

(* bpf_ringbuf_output: an event that finds no room is counted and lost. *)
Output(e) ==
  IF Len(ring) < RingSize
  THEN ring' = Append(ring, e) /\ UNCHANGED drops
  ELSE drops' = drops + 1 /\ UNCHANGED ring

IsFragment(p) == p.record_len + RecordHeader > p.len

(* Mutant: the state of a finished record is kept. *)
ContinuedMap_KeepsFinished(m, p, st) ==
  IF st.segments_left = 0
  THEN Without(m, p.key)
  ELSE With(m, p.key, [remaining |-> SaturatingSub(st.remaining, p.len),
                       segments_left |-> st.segments_left - 1])

(* Mutant: the segment budget is not spent. *)
ContinuedMap_BudgetUnspent(m, p, st) ==
  IF SaturatingSub(st.remaining, p.len) = 0 \/ st.segments_left = 0
  THEN Without(m, p.key)
  ELSE With(m, p.key, [remaining |-> SaturatingSub(st.remaining, p.len),
                       segments_left |-> st.segments_left])

(* REASM_MAP after a continuation that found the state st: the entry goes  *)
(* when the record is complete or the segment budget is spent.             *)
ContinuedMap(m, p, st) ==
  IF SaturatingSub(st.remaining, p.len) = 0 \/ st.segments_left = 0
  THEN Without(m, p.key)
  ELSE With(m, p.key, [remaining |-> SaturatingSub(st.remaining, p.len),
                       segments_left |-> SaturatingSub(st.segments_left, 1)])

(***************************************************************************)
(* Actions                                                                 *)
(***************************************************************************)

Init ==
  /\ reasm = [k \in {} |-> None]
  /\ cpu = [c \in Cpus |-> None]
  /\ ring = <<>>
  /\ drops = 0
  /\ seen = 0
  /\ taken = 0
  /\ segs = [k \in Flows |-> 0]
  /\ owed = [k \in Flows |-> 0]
  /\ raced = {}

(* CPU c is handling a packet of flow k. *)
On(c, k) == cpu[c] # None /\ cpu[c].pkt.key = k

(* The flows that two CPUs have handled at once, with packet p coming in. *)
Raced(p) == IF \E c \in Cpus : On(c, p.key) THEN raced \cup {p.key} ELSE raced

(* The same, when CPU c has written the state of flow k from a head alone. *)
Restarted(c, k) == IF \E d \in Cpus \ {c} : On(d, k) THEN raced ELSE raced \ {k}

(* The invocation returns early: nothing is captured. *)
Ignore(c, p) ==
  /\ cpu[c] = None
  /\ ~Accepts(p, p.key \in DOMAIN reasm)
  /\ raced' = Raced(p)
  /\ UNCHANGED <<reasm, cpu, ring, drops, seen, taken, segs, owed>>

(* First look at REASM_MAP, and the filters that depend on it. *)
Classify(c, p) ==
  /\ cpu[c] = None
  /\ seen < MaxPackets
  /\ Accepts(p, p.key \in DOMAIN reasm)
  /\ cpu' = [cpu EXCEPT ![c] = [pkt |-> p, continuation |-> p.key \in DOMAIN reasm,
                                state |-> None, stage |-> "classified"]]
  /\ seen' = seen + 1
  /\ raced' = Raced(p)
  /\ UNCHANGED <<reasm, ring, drops, taken, segs, owed>>

(* Second look at REASM_MAP: the entry may have gone or changed since. *)
ReadState(c) ==
  /\ cpu[c] # None
  /\ cpu[c].continuation
  /\ cpu[c].stage = "classified"
  /\ LET k == cpu[c].pkt.key
     IN  cpu' = [cpu EXCEPT ![c].stage = "read",
                            ![c].state = IF k \in DOMAIN reasm THEN reasm[k] ELSE None]
  /\ UNCHANGED <<reasm, ring, drops, seen, taken, segs, owed, raced>>

(* Write back the state read before, and emit the continuation. *)
EmitContinuation(c) ==
  /\ cpu[c] # None
  /\ cpu[c].stage = "read"
  /\ cpu[c].state # None
  /\ LET p == cpu[c].pkt
     IN  /\ reasm' = ContinuedMap(reasm, p, cpu[c].state)
         /\ Output(Capture(p, "continuation"))
         /\ segs' = [segs EXCEPT ![p.key] = @ + 1]
         /\ owed' = [owed EXCEPT ![p.key] = @ - p.len]
  /\ cpu' = [cpu EXCEPT ![c] = None]
  /\ UNCHANGED <<seen, taken, raced>>

(* The entry went between the two looks: the packet passed the filters as  *)
(* a continuation and is emitted without any flag.                         *)
EmitUnflagged(c) ==
  /\ cpu[c] # None
  /\ cpu[c].stage = "read"
  /\ cpu[c].state = None
  /\ Output(Capture(cpu[c].pkt, "whole"))
  /\ cpu' = [cpu EXCEPT ![c] = None]
  /\ UNCHANGED <<reasm, seen, taken, segs, owed, raced>>

(* A packet that starts a record: tracked when the record goes on. *)
EmitFirst(c) ==
  /\ cpu[c] # None
  /\ ~cpu[c].continuation
  /\ LET p == cpu[c].pkt
     IN  IF IsFragment(p)
         THEN /\ reasm' = With(reasm, p.key,
                               [remaining |-> p.record_len + RecordHeader - p.len,
                                segments_left |-> MaxReasmSegments - 1])
              /\ Output(Capture(p, "fragment"))
              /\ segs' = [segs EXCEPT ![p.key] = 1]
              /\ owed' = [owed EXCEPT ![p.key] = p.record_len + RecordHeader - p.len]
              /\ raced' = Restarted(c, p.key)
         ELSE /\ Output(Capture(p, "whole"))
              /\ UNCHANGED <<reasm, segs, owed, raced>>
  /\ cpu' = [cpu EXCEPT ![c] = None]
  /\ UNCHANGED <<seen, taken>>

(* REASM_MAP is an LRU map: other flows may push an entry out. *)
LruEvict(k) ==
  /\ k \in DOMAIN reasm
  /\ reasm' = Without(reasm, k)
  /\ UNCHANGED <<cpu, ring, drops, seen, taken, segs, owed, raced>>

(* Userspace consumes the oldest event. *)
Consume ==
  /\ ring # <<>>
  /\ ring' = Tail(ring)
  /\ taken' = taken + 1
  /\ UNCHANGED <<reasm, cpu, drops, seen, segs, owed, raced>>

Next ==
  \/ \E c \in Cpus :
       \/ \E p \in Packets : Ignore(c, p) \/ Classify(c, p)
       \/ ReadState(c)
       \/ EmitContinuation(c)
       \/ EmitUnflagged(c)
       \/ EmitFirst(c)
  \/ \E k \in Flows : LruEvict(k)
  \/ Consume

Spec == Init /\ [][Next]_vars

(***************************************************************************)
(* Properties                                                              *)
(***************************************************************************)

Busy == {c \in Cpus : cpu[c] # None}

(* Every packet that passed the filters is in flight on a CPU, in the      *)
(* ring, consumed, or counted in RINGBUF_DROPS: the classifier loses no    *)
(* event without counting it, on any number of CPUs.                       *)
EventsAccounted ==
  seen = Cardinality(Busy) + Len(ring) + taken + drops

(* An entry of REASM_MAP does not outlive its record: as long as no two    *)
(* CPUs have been in the program for a flow at once since its last head, a *)
(* flow is tracked only while bytes of that head's record are still to be  *)
(* captured, and the entry says how many, with evictions between the       *)
(* lookups and the write back, overlong segments, and a head that comes in *)
(* the place of a continuation.  (A segment below the size guard is not    *)
(* captured, so that a record that ends in one stays tracked.)             *)
FinishedIsUntracked ==
  \A k \in DOMAIN reasm \ raced :
    owed[k] > 0 /\ reasm[k].remaining = owed[k]

(* As long as no two CPUs have been in the program for a flow at once      *)
(* since its last head, the segments emitted since and the budget left add *)
(* up, so a record costs at most one event more than the budget.  (A stale *)
(* state that is written back gives a segment away.)                       *)
BudgetAccounted ==
  \A k \in DOMAIN reasm \ raced :
    segs[k] + reasm[k].segments_left = MaxReasmSegments

(***************************************************************************)
(* What the documentation says and the code does not keep.                 *)
(***************************************************************************)

(* "limits to MAX_REASM_SEGMENTS segments per flow": a record is emitted   *)
(* in at most that many segments, its head included.                       *)
SegmentsPerRecord == \A k \in Flows : segs[k] <= MaxReasmSegments

(* "if we've received all segments ... delete the entry": a flow is not     *)
(* tracked once its last head's record was captured to its end.  Two       *)
(* CPUs break it: the one deletes the entry with the last segment, the     *)
(* other writes back a state that it read before.                          *)
CompleteIsDeleted == \A k \in DOMAIN reasm : owed[k] > 0

=============================================================================
