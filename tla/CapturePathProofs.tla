-------------------------- MODULE CapturePathProofs --------------------------
(***************************************************************************)
(* From the wire to the assembled record, for any flows, packets, number of *)
(* CPUs, segment budget, ring and table sizes.                             *)
(*                                                                         *)
(* Part 1, the classifier: invocations on different CPUs read and write    *)
(* REASM_MAP in any order.                                                 *)
(*                                                                         *)
(* Part 2, the capture path: the classifier and the reassembler composed,  *)
(* with segments and events late, repeated and lost between them.          *)
(*                                                                         *)
(* Part 3, the loop of check_completion and finalize_entry, which computes *)
(* the run of fragments that the reassembler is written with.              *)
(***************************************************************************)
EXTENDS CapturePath, FragmentWalk, FiniteSetTheorems, SequenceTheorems, WellFoundedInduction, TLAPS

(***************************************************************************)
(* Part 1, the classifier                                                  *)
(***************************************************************************)

(* The state st of a flow agrees with the segments emitted of it and the   *)
(* bytes it waits for.                                                     *)
Agrees(st, emittedSegs, owedBytes) ==
  /\ emittedSegs + st.segments_left = MaxReasmSegments
  /\ owedBytes > 0 /\ st.remaining = owedBytes

(* What makes entries right on a flow that did not race: at most one CPU   *)
(* is on it, so the state that CPU has read still agrees with what was     *)
(* captured when it is written back, whether or not the LRU map has        *)
(* evicted the entry in between.                                           *)
Exclusive ==
  \A k \in Flows \ raced : \A c, d \in Cpus : On(c, k) /\ On(d, k) => c = d

ReadIsCurrent ==
  \A c \in Cpus :
    /\ cpu[c] # None
    /\ cpu[c].state # None
    /\ cpu[c].pkt.key \notin raced
    => Agrees(cpu[c].state, segs[cpu[c].pkt.key], owed[cpu[c].pkt.key])

TrackedIsCurrent ==
  \A k \in DOMAIN reasm \ raced : Agrees(reasm[k], segs[k], owed[k])

BudgetInv == Exclusive /\ ReadIsCurrent /\ TrackedIsCurrent

(***************************************************************************)
(* Types                                                                   *)
(***************************************************************************)

(* What is copied of a packet is at least a byte. *)
LEMMA CopyLenType ==
  ASSUME NEW p \in Packet
  PROVE  CopyLen(p) \in Nat \ {0}
<1> DEFINE S == {p.len, RawPayloadSize}
<1>1. S \subseteq Nat \ {0}
  BY ClassifierAssumption DEF Packet
<1>2. \E x \in S : \A y \in S : x <= y
  BY <1>1
<1>3. Min(S) \in S
  BY <1>2 DEF Min
<1> QED BY <1>1, <1>3 DEF CopyLen

LEMMA CaptureType ==
  ASSUME NEW p \in Packets, NEW kind \in {"whole", "fragment", "continuation"}
  PROVE  Capture(p, kind) \in CaptureEvent
<1>1. p \in Packet /\ CopyLen(p) \in Nat \ {0}
  BY CopyLenType, ClassifierAssumption
<1> QED BY <1>1 DEF Capture, CaptureEvent, Packet

(* bpf_ringbuf_output keeps or counts the event. *)
LEMMA OutputCounts ==
  ASSUME TypeOK, NEW e \in CaptureEvent, Output(e)
  PROVE  /\ ring' \in Seq(CaptureEvent) /\ drops' \in Nat
         /\ Len(ring') + drops' = Len(ring) + drops + 1
         /\ Len(ring) \in Nat /\ Len(ring') \in Nat
<1>1. ring \in Seq(CaptureEvent) /\ drops \in Nat /\ Len(ring) \in Nat
  BY DEF TypeOK
<1>2. CASE Len(ring) < RingSize
  <2>1. ring' = Append(ring, e) /\ drops' = drops
    BY <1>2 DEF Output
  <2>2. ring' \in Seq(CaptureEvent) /\ Len(ring') = Len(ring) + 1
    BY <1>1, <2>1, AppendProperties
  <2> QED BY <1>1, <2>1, <2>2
<1>3. CASE ~(Len(ring) < RingSize)
  BY <1>1, <1>3 DEF Output
<1> QED BY <1>2, <1>3

LEMMA WithoutType ==
  ASSUME NEW m, m \in [DOMAIN m -> ReasmState], DOMAIN m \subseteq Flows, NEW k
  PROVE  /\ Without(m, k) \in [DOMAIN Without(m, k) -> ReasmState]
         /\ DOMAIN Without(m, k) = DOMAIN m \ {k}
         /\ \A j \in DOMAIN m \ {k} : Without(m, k)[j] = m[j]
  BY DEF Without, Restrict

(* The state a continuation writes back. *)
LEMMA ContinuedState ==
  ASSUME NEW p \in Packets, NEW st \in ReasmState,
         SaturatingSub(st.remaining, p.len) # 0, st.segments_left # 0
  PROVE  LET v == [remaining |-> SaturatingSub(st.remaining, p.len),
                   segments_left |-> SaturatingSub(st.segments_left, 1)]
         IN  /\ v \in ReasmState /\ v.remaining > 0
             /\ v.remaining = st.remaining - p.len
             /\ v.segments_left = st.segments_left - 1
<1>1. /\ p.len \in Nat /\ st.remaining \in Nat /\ st.segments_left \in 0 .. MaxReasmSegments
      /\ MaxReasmSegments \in Nat
  BY ClassifierAssumption DEF Packet, ReasmState
<1>2. /\ SaturatingSub(st.remaining, p.len) \in Nat \ {0}
      /\ SaturatingSub(st.remaining, p.len) = st.remaining - p.len
  BY <1>1 DEF SaturatingSub
<1>3. /\ SaturatingSub(st.segments_left, 1) = st.segments_left - 1
      /\ st.segments_left - 1 \in 0 .. MaxReasmSegments
  BY <1>1 DEF SaturatingSub
<1> QED BY <1>2, <1>3 DEF ReasmState

(* The map after a continuation: the other flows' entries are untouched,   *)
(* and the flow's own is gone or one segment poorer and not complete.      *)
LEMMA ContinuedMapType ==
  ASSUME NEW m, m \in [DOMAIN m -> ReasmState], DOMAIN m \subseteq Flows,
         NEW p \in Packets, NEW st \in ReasmState
  PROVE  LET c == ContinuedMap(m, p, st)
         IN  /\ c \in [DOMAIN c -> ReasmState] /\ DOMAIN c \subseteq Flows
             /\ \A k \in DOMAIN c \ {p.key} : k \in DOMAIN m /\ c[k] = m[k]
             /\ p.key \in DOMAIN c =>
                  /\ c[p.key].remaining > 0
                  /\ c[p.key].remaining = st.remaining - p.len
                  /\ c[p.key].segments_left = st.segments_left - 1
<1>1. p.key \in Flows
  BY ClassifierAssumption DEF Packet
<1>2. CASE SaturatingSub(st.remaining, p.len) = 0 \/ st.segments_left = 0
  <2>1. ContinuedMap(m, p, st) = Without(m, p.key)
    BY <1>2 DEF ContinuedMap
  <2> DEFINE w == Without(m, p.key)
  <2>2. /\ w \in [DOMAIN w -> ReasmState] /\ DOMAIN w = DOMAIN m \ {p.key}
        /\ \A j \in DOMAIN m \ {p.key} : w[j] = m[j]
    BY WithoutType
  <2> HIDE DEF w
  <2>3. ContinuedMap(m, p, st) = w
    BY <2>1 DEF w
  <2> QED BY <2>2, <2>3
<1>3. CASE ~(SaturatingSub(st.remaining, p.len) = 0 \/ st.segments_left = 0)
  <2> DEFINE v == [remaining |-> SaturatingSub(st.remaining, p.len),
                   segments_left |-> SaturatingSub(st.segments_left, 1)]
  <2>1. ContinuedMap(m, p, st) = With(m, p.key, v)
    BY <1>3 DEF ContinuedMap
  <2>2. /\ v \in ReasmState /\ v.remaining > 0
        /\ v.remaining = st.remaining - p.len /\ v.segments_left = st.segments_left - 1
    BY <1>3, ContinuedState
  <2> HIDE DEF v
  <2> DEFINE w == With(m, p.key, v)
  <2>3. /\ w \in [DOMAIN w -> ReasmState] /\ DOMAIN w = DOMAIN m \cup {p.key}
        /\ w[p.key] = v /\ \A j \in DOMAIN m \ {p.key} : w[j] = m[j]
    BY <1>1, <2>2 DEF With
  <2> HIDE DEF w
  <2>4. ContinuedMap(m, p, st) = w
    BY <2>1 DEF w
  <2> QED BY <1>1, <2>2, <2>3, <2>4
<1> QED BY <1>2, <1>3

(* The state that the head of a fragmented record leaves. *)
FirstState(p) == [remaining |-> p.record_len + RecordHeader - p.len,
                  segments_left |-> MaxReasmSegments - 1]

LEMMA FirstStateType ==
  ASSUME NEW p \in Packets, IsFragment(p)
  PROVE  /\ FirstState(p) \in ReasmState /\ FirstState(p).remaining > 0
         /\ FirstState(p).remaining = p.record_len + RecordHeader - p.len
         /\ FirstState(p).segments_left = MaxReasmSegments - 1
<1>1. p.record_len \in Nat /\ p.len \in Nat /\ MaxReasmSegments \in Nat \ {0}
  BY ClassifierAssumption DEF Packet
<1>2. p.record_len + RecordHeader - p.len \in Nat \ {0}
  BY <1>1 DEF IsFragment, RecordHeader
<1> QED BY <1>1, <1>2 DEF FirstState, ReasmState

(* The invocation a busy CPU runs. *)
LEMMA InvocationType ==
  ASSUME TypeOK, NEW c \in Cpus, cpu[c] # None
  PROVE  /\ cpu[c] \in Invocation /\ cpu[c].pkt \in Packets
         /\ cpu[c].pkt.key \in Flows /\ cpu[c].state \in ReasmState \cup {None}
<1>1. cpu[c] \in Invocation
  BY DEF TypeOK
<1>2. cpu[c].pkt \in Packets /\ cpu[c].state \in ReasmState \cup {None}
  BY <1>1 DEF Invocation
<1> QED BY <1>1, <1>2, ClassifierAssumption DEF Packet

LEMMA InitTypeOK == Init => TypeOK
<1> SUFFICES ASSUME Init PROVE TypeOK
  OBVIOUS
<1>1. <<>> \in Seq(CaptureEvent)
  OBVIOUS
<1> QED BY <1>1 DEF Init, TypeOK

(* The step that ends an invocation: what it did to the map and the ring.  *)
LEMMA EmitTypeOK ==
  ASSUME TypeOK, NEW c \in Cpus, cpu[c] # None, cpu' = [cpu EXCEPT ![c] = None],
         reasm' \in [DOMAIN reasm' -> ReasmState], DOMAIN reasm' \subseteq Flows,
         NEW e \in CaptureEvent, Output(e), segs' \in [Flows -> Nat],
         owed' \in [Flows -> Int], raced' \subseteq raced,
         UNCHANGED <<seen, taken>>
  PROVE  TypeOK'
<1>1. ring' \in Seq(CaptureEvent) /\ drops' \in Nat
  BY OutputCounts
<1>2. cpu' \in [Cpus -> Invocation \cup {None}]
  BY DEF TypeOK
<1> QED BY <1>1, <1>2 DEF TypeOK

LEMMA NextTypeOK == TypeOK /\ [Next]_vars => TypeOK'
<1> SUFFICES ASSUME TypeOK, [Next]_vars PROVE TypeOK'
  OBVIOUS
<1>1. ASSUME NEW p \in Packets PROVE Raced(p) \subseteq Flows
  BY ClassifierAssumption DEF TypeOK, Raced, Packet
<1>2. ASSUME NEW c \in Cpus, NEW p \in Packets, Ignore(c, p) PROVE TypeOK'
  BY <1>1, <1>2 DEF Ignore, TypeOK
<1>3. ASSUME NEW c \in Cpus, NEW p \in Packets, Classify(c, p) PROVE TypeOK'
  <2> DEFINE v == [pkt |-> p, continuation |-> p.key \in DOMAIN reasm,
                   state |-> None, stage |-> "classified"]
  <2>1. v \in Invocation
    BY DEF Invocation
  <2>2. cpu' = [cpu EXCEPT ![c] = v]
    BY <1>3 DEF Classify
  <2> HIDE DEF v
  <2>3. cpu' \in [Cpus -> Invocation \cup {None}]
    BY <2>1, <2>2 DEF TypeOK
  <2> QED BY <1>1, <1>3, <2>3 DEF Classify, TypeOK
<1>4. ASSUME NEW c \in Cpus, ReadState(c) PROVE TypeOK'
  <2> DEFINE k == cpu[c].pkt.key
             st == IF k \in DOMAIN reasm THEN reasm[k] ELSE None
             v == [cpu[c] EXCEPT !.stage = "read", !.state = st]
  <2>1. cpu[c] \in Invocation /\ st \in ReasmState \cup {None}
    BY <1>4, InvocationType DEF ReadState, TypeOK
  <2>2. cpu' = [cpu EXCEPT ![c] = v]
    BY <1>4, <2>1 DEF ReadState, Invocation, TypeOK
  <2> HIDE DEF st
  <2>3. v \in Invocation
    BY <2>1 DEF Invocation
  <2> HIDE DEF v
  <2>4. cpu' \in [Cpus -> Invocation \cup {None}]
    BY <2>2, <2>3 DEF TypeOK
  <2> QED BY <1>4, <2>4 DEF ReadState, TypeOK
<1>5. ASSUME NEW c \in Cpus, EmitContinuation(c) PROVE TypeOK'
  <2> DEFINE p == cpu[c].pkt
             st == cpu[c].state
  <2>1. p \in Packets /\ st \in ReasmState /\ p.key \in Flows
    BY <1>5, InvocationType DEF EmitContinuation
  <2>2. reasm' = ContinuedMap(reasm, p, st) /\ Output(Capture(p, "continuation"))
    BY <1>5 DEF EmitContinuation
  <2>3. Capture(p, "continuation") \in CaptureEvent
    BY <2>1, CaptureType
  <2>4. reasm' \in [DOMAIN reasm' -> ReasmState] /\ DOMAIN reasm' \subseteq Flows
    BY <2>1, <2>2, ContinuedMapType DEF TypeOK
  <2>5. segs' \in [Flows -> Nat] /\ owed' \in [Flows -> Int]
    <3>1. p.len \in Nat
      BY <2>1, ClassifierAssumption DEF Packet
    <3> QED BY <1>5, <2>1, <3>1 DEF EmitContinuation, TypeOK
  <2> QED BY <1>5, <2>2, <2>3, <2>4, <2>5, EmitTypeOK DEF EmitContinuation
<1>6. ASSUME NEW c \in Cpus, EmitUnflagged(c) PROVE TypeOK'
  <2>1. Capture(cpu[c].pkt, "whole") \in CaptureEvent
    BY <1>6, InvocationType, CaptureType DEF EmitUnflagged
  <2>2. reasm' \in [DOMAIN reasm' -> ReasmState] /\ DOMAIN reasm' \subseteq Flows
    BY <1>6 DEF EmitUnflagged, TypeOK
  <2> QED BY <1>6, <2>1, <2>2, EmitTypeOK DEF EmitUnflagged, TypeOK
<1>7. ASSUME NEW c \in Cpus, EmitFirst(c) PROVE TypeOK'
  <2> DEFINE p == cpu[c].pkt
  <2>1. p \in Packets /\ p.key \in Flows
    BY <1>7, InvocationType DEF EmitFirst
  <2>2. Capture(p, "fragment") \in CaptureEvent /\ Capture(p, "whole") \in CaptureEvent
    BY <2>1, CaptureType
  <2>3. CASE IsFragment(p)
    <3>1. /\ reasm' = With(reasm, p.key, FirstState(p))
          /\ Output(Capture(p, "fragment")) /\ segs' = [segs EXCEPT ![p.key] = 1]
          /\ owed' = [owed EXCEPT ![p.key] = p.record_len + RecordHeader - p.len]
          /\ raced' \subseteq raced
      BY <1>7, <2>3 DEF EmitFirst, FirstState, Restarted
    <3>2. reasm' \in [DOMAIN reasm' -> ReasmState] /\ DOMAIN reasm' \subseteq Flows
      <4>1. FirstState(p) \in ReasmState
        BY <2>1, <2>3, FirstStateType
      <4> QED BY <2>1, <3>1, <4>1 DEF With, TypeOK
    <3>3. segs' \in [Flows -> Nat] /\ owed' \in [Flows -> Int]
      <4>1. p.record_len + RecordHeader - p.len \in Int
        BY <2>1, ClassifierAssumption DEF Packet, RecordHeader
      <4> QED BY <3>1, <2>1, <4>1 DEF TypeOK
    <3> QED BY <1>7, <2>2, <3>1, <3>2, <3>3, EmitTypeOK DEF EmitFirst
  <2>4. CASE ~IsFragment(p)
    <3>1. UNCHANGED <<reasm, segs, owed, raced>> /\ Output(Capture(p, "whole"))
      BY <1>7, <2>4 DEF EmitFirst
    <3> QED BY <1>7, <2>2, <3>1, EmitTypeOK DEF EmitFirst, TypeOK
  <2> QED BY <2>3, <2>4
<1>8. ASSUME NEW k \in Flows, LruEvict(k) PROVE TypeOK'
  <2>1. reasm' \in [DOMAIN reasm' -> ReasmState] /\ DOMAIN reasm' \subseteq Flows
    <3>1. reasm \in [DOMAIN reasm -> ReasmState] /\ DOMAIN reasm \subseteq Flows
      BY DEF TypeOK
    <3> DEFINE w == Without(reasm, k)
    <3>2. w \in [DOMAIN w -> ReasmState] /\ DOMAIN w = DOMAIN reasm \ {k}
      BY <3>1, WithoutType
    <3>3. reasm' = w
      BY <1>8 DEF LruEvict
    <3> HIDE DEF w
    <3> QED BY <3>1, <3>2, <3>3
  <2> QED BY <1>8, <2>1 DEF LruEvict, TypeOK
<1>9. CASE Consume
  <2>1. ring' \in Seq(CaptureEvent)
    BY <1>9, HeadTailProperties DEF Consume, TypeOK
  <2> QED BY <1>9, <2>1 DEF Consume, TypeOK
<1>10. CASE UNCHANGED vars
  BY <1>10 DEF vars, TypeOK
<1> QED BY <1>2, <1>3, <1>4, <1>5, <1>6, <1>7, <1>8, <1>9, <1>10 DEF Next

(* Maps, invocations and events stay well formed, and no counter of        *)
(* REASM_MAP underflows, on any number of CPUs.                            *)
THEOREM TypeCorrect == Spec => []TypeOK
  BY InitTypeOK, NextTypeOK, PTL DEF Spec

(***************************************************************************)
(* Every event is accounted for                                            *)
(***************************************************************************)

LEMMA BusyFinite == IsFiniteSet(Busy) /\ Cardinality(Busy) \in Nat
<1>1. IsFiniteSet(Busy)
  BY FS_Subset, ClassifierAssumption DEF Busy
<1> QED BY <1>1, FS_CardinalityType

(* An invocation starts, and ends. *)
LEMMA BusyStarts ==
  ASSUME TypeOK, NEW c \in Cpus, cpu[c] = None, NEW v \in Invocation,
         cpu' = [cpu EXCEPT ![c] = v]
  PROVE  Cardinality(Busy') = Cardinality(Busy) + 1
<1>1. v # None
  BY ClassifierAssumption
<1>2. Busy' = Busy \cup {c} /\ c \notin Busy
  BY <1>1 DEF Busy, TypeOK
<1> QED BY <1>2, BusyFinite, FS_AddElement

LEMMA BusyEnds ==
  ASSUME TypeOK, NEW c \in Cpus, cpu[c] # None, cpu' = [cpu EXCEPT ![c] = None]
  PROVE  Cardinality(Busy') = Cardinality(Busy) - 1
<1>1. Busy' = Busy \ {c} /\ c \in Busy
  BY DEF Busy, TypeOK
<1> QED BY <1>1, BusyFinite, FS_RemoveElement

LEMMA NextAccounted ==
  TypeOK /\ EventsAccounted /\ [Next]_vars => EventsAccounted'
<1> SUFFICES ASSUME TypeOK, EventsAccounted, [Next]_vars PROVE EventsAccounted'
  OBVIOUS
<1>a. /\ Cardinality(Busy) \in Nat /\ Len(ring) \in Nat
      /\ drops \in Nat /\ seen \in Nat /\ taken \in Nat
  BY BusyFinite DEF TypeOK
<1>1. ASSUME NEW c \in Cpus, NEW p \in Packets, Classify(c, p) PROVE EventsAccounted'
  <2> DEFINE v == [pkt |-> p, continuation |-> p.key \in DOMAIN reasm,
                   state |-> None, stage |-> "classified"]
  <2>1. v \in Invocation
    BY DEF Invocation
  <2>2. Cardinality(Busy') = Cardinality(Busy) + 1
    BY <1>1, <2>1, BusyStarts DEF Classify
  <2> QED BY <1>a, <1>1, <2>2 DEF Classify, EventsAccounted
<1>2. ASSUME NEW c \in Cpus, ReadState(c) PROVE EventsAccounted'
  <2> DEFINE k == cpu[c].pkt.key
             st == IF k \in DOMAIN reasm THEN reasm[k] ELSE None
             v == [cpu[c] EXCEPT !.stage = "read", !.state = st]
  <2>1. cpu[c] \in Invocation /\ st \in ReasmState \cup {None}
    BY <1>2, InvocationType DEF ReadState, TypeOK
  <2>2. cpu' = [cpu EXCEPT ![c] = v]
    BY <1>2, <2>1 DEF ReadState, Invocation, TypeOK
  <2> HIDE DEF st
  <2>3. v \in Invocation
    BY <2>1 DEF Invocation
  <2>4. v # None
    BY <2>3, ClassifierAssumption
  <2> HIDE DEF v
  <2>5. Busy' = Busy
    BY <1>2, <2>2, <2>4 DEF Busy, ReadState, TypeOK
  <2> QED BY <1>2, <2>5 DEF ReadState, EventsAccounted
<1>3. ASSUME NEW c \in Cpus, NEW e \in CaptureEvent, Output(e), cpu[c] # None,
             cpu' = [cpu EXCEPT ![c] = None], UNCHANGED <<seen, taken>>
      PROVE  EventsAccounted'
  <2>1. /\ Len(ring') + drops' = Len(ring) + drops + 1
        /\ drops' \in Nat /\ Len(ring') \in Nat
    BY <1>3, OutputCounts
  <2>2. Cardinality(Busy') = Cardinality(Busy) - 1
    BY <1>3, BusyEnds
  <2>3. seen' = seen /\ taken' = taken
    BY <1>3
  <2>4. seen = Cardinality(Busy) + Len(ring) + taken + drops
    BY DEF EventsAccounted
  <2>5. seen' = Cardinality(Busy') + Len(ring') + taken' + drops'
    BY <1>a, <2>1, <2>2, <2>3, <2>4, SMTT(60)
  <2> QED BY <2>5 DEF EventsAccounted
<1>4. ASSUME NEW c \in Cpus, EmitContinuation(c) PROVE EventsAccounted'
  BY <1>3, <1>4, InvocationType, CaptureType DEF EmitContinuation
<1>5. ASSUME NEW c \in Cpus, EmitUnflagged(c) PROVE EventsAccounted'
  BY <1>3, <1>5, InvocationType, CaptureType DEF EmitUnflagged
<1>6. ASSUME NEW c \in Cpus, EmitFirst(c) PROVE EventsAccounted'
  <2>1. \/ Output(Capture(cpu[c].pkt, "fragment"))
        \/ Output(Capture(cpu[c].pkt, "whole"))
    BY <1>6 DEF EmitFirst
  <2> QED BY <1>3, <1>6, <2>1, InvocationType, CaptureType DEF EmitFirst
<1>7. CASE Consume
  <2>1. Len(ring') = Len(ring) - 1
    BY <1>7, HeadTailProperties DEF Consume, TypeOK
  <2>2. Busy' = Busy
    BY <1>7 DEF Consume, Busy
  <2> QED BY <1>a, <1>7, <2>1, <2>2 DEF Consume, EventsAccounted
<1>8. CASE UNCHANGED <<cpu, ring, drops, seen, taken>>
  BY <1>8 DEF EventsAccounted, Busy
<1> QED BY <1>1, <1>2, <1>4, <1>5, <1>6, <1>7, <1>8 DEF Next, Ignore, LruEvict, vars

(* Every packet that passed the filters is in flight, in the ring,         *)
(* consumed, or counted in RINGBUF_DROPS, on any number of CPUs.           *)
THEOREM AccountsForEvents == Spec => []EventsAccounted
<1>1. Init => EventsAccounted
  <2> SUFFICES ASSUME Init PROVE EventsAccounted
    OBVIOUS
  <2>1. Busy = {}
    BY DEF Init, Busy
  <2>2. Cardinality(Busy) = 0
    BY <2>1, FS_EmptySet
  <2> QED BY <2>2 DEF Init, EventsAccounted
<1> QED BY <1>1, TypeCorrect, NextAccounted, PTL DEF Spec

(***************************************************************************)
(* What REASM_MAP says of a record                                         *)
(***************************************************************************)

LEMMA InitBudgetInv == Init => BudgetInv
  BY DEF Init, BudgetInv, Exclusive, On, ReadIsCurrent, TrackedIsCurrent

(* The end of an invocation, with what it wrote: the flow's own entry      *)
(* agrees again, or is gone; the other flows are untouched.  A flow is     *)
(* taken off the raced ones only when no other CPU is on it.               *)
LEMMA EmitBudgetInv ==
  ASSUME TypeOK, BudgetInv, NEW c \in Cpus, cpu[c] # None,
         cpu' = [cpu EXCEPT ![c] = None],
         NEW k \in Flows, k = cpu[c].pkt.key,
         raced' = raced \/ raced' = Restarted(c, k),
         \A j \in Flows \ {k} : segs'[j] = segs[j] /\ owed'[j] = owed[j],
         \A j \in DOMAIN reasm' \ {k} : j \in DOMAIN reasm /\ reasm'[j] = reasm[j],
         k \in DOMAIN reasm' /\ k \notin raced' => Agrees(reasm'[k], segs'[k], owed'[k]),
         DOMAIN reasm \subseteq Flows
  PROVE  BudgetInv'
<1>1. /\ \A d \in Cpus \ {c} : cpu'[d] = cpu[d]
      /\ cpu'[c] = None
  BY DEF TypeOK
<1>r. /\ \A j \in Flows \ {k} : j \in raced' <=> j \in raced
      /\ k \notin raced' /\ k \in raced => \A d \in Cpus \ {c} : ~On(d, k)
  BY DEF Restarted
<1>2. Exclusive'
  <2> SUFFICES ASSUME NEW j \in Flows \ raced', NEW d \in Cpus, NEW e \in Cpus,
                      On(d, j)', On(e, j)'
               PROVE  d = e
    BY DEF Exclusive
  <2>1. d # c /\ e # c /\ On(d, j) /\ On(e, j)
    BY <1>1 DEF On
  <2>2. CASE j \notin raced
    BY <2>1, <2>2 DEF BudgetInv, Exclusive
  <2>3. CASE j \in raced
    BY <1>r, <2>1, <2>3
  <2> QED BY <2>2, <2>3
<1>3. ReadIsCurrent'
  <2> SUFFICES ASSUME NEW d \in Cpus, cpu'[d] # None, cpu'[d].state # None,
                      cpu'[d].pkt.key \notin raced'
               PROVE  Agrees(cpu'[d].state, segs'[cpu'[d].pkt.key], owed'[cpu'[d].pkt.key])
    BY DEF ReadIsCurrent, Agrees
  <2>1. d # c /\ cpu'[d] = cpu[d]
    BY <1>1
  <2> DEFINE j == cpu[d].pkt.key
  <2>2. j \in Flows /\ On(d, j)
    BY <2>1, InvocationType DEF On
  <2>3. j # k
    <3>1. CASE k \notin raced
      BY <2>1, <2>2, <3>1 DEF BudgetInv, Exclusive, On
    <3>2. CASE k \in raced
      BY <1>r, <2>1, <2>2, <3>2
    <3> QED BY <3>1, <3>2
  <2>4. j \notin raced
    BY <1>r, <2>1, <2>2, <2>3
  <2>5. Agrees(cpu[d].state, segs[j], owed[j])
    BY <2>1, <2>4 DEF BudgetInv, ReadIsCurrent
  <2>6. segs'[j] = segs[j] /\ owed'[j] = owed[j]
    BY <2>2, <2>3
  <2> QED BY <2>1, <2>5, <2>6
<1>4. TrackedIsCurrent'
  <2> SUFFICES ASSUME NEW j \in DOMAIN reasm', j \notin raced'
               PROVE  Agrees(reasm'[j], segs'[j], owed'[j])
    BY DEF TrackedIsCurrent, Agrees
  <2>1. CASE j # k
    <3>1. j \in DOMAIN reasm /\ j \in Flows /\ reasm'[j] = reasm[j] /\ j \notin raced
      BY <1>r, <2>1
    <3>2. segs'[j] = segs[j] /\ owed'[j] = owed[j]
      BY <2>1, <3>1
    <3> QED BY <3>1, <3>2 DEF BudgetInv, TrackedIsCurrent
  <2> QED BY <2>1
<1> QED BY <1>2, <1>3, <1>4 DEF BudgetInv

LEMMA NextBudgetInv == TypeOK /\ BudgetInv /\ [Next]_vars => BudgetInv'
<1> SUFFICES ASSUME TypeOK, BudgetInv, [Next]_vars PROVE BudgetInv'
  OBVIOUS
<1>a. /\ DOMAIN reasm \subseteq Flows /\ segs \in [Flows -> Nat]
      /\ owed \in [Flows -> Int] /\ MaxReasmSegments \in Nat \ {0}
  BY ClassifierAssumption DEF TypeOK
<1>1. ASSUME NEW c \in Cpus, NEW p \in Packets, Ignore(c, p) PROVE BudgetInv'
  BY <1>1 DEF Ignore, Raced, BudgetInv, Exclusive, On, ReadIsCurrent, TrackedIsCurrent, Agrees
<1>2. ASSUME NEW c \in Cpus, NEW p \in Packets, Classify(c, p) PROVE BudgetInv'
  <2> DEFINE v == [pkt |-> p, continuation |-> p.key \in DOMAIN reasm,
                   state |-> None, stage |-> "classified"]
  <2>1. v.pkt = p /\ v.state = None
    OBVIOUS
  <2>2. cpu' = [cpu EXCEPT ![c] = v] /\ raced' = Raced(p) /\ UNCHANGED <<reasm, segs, owed>>
    BY <1>2 DEF Classify
  <2> HIDE DEF v
  <2>3. cpu'[c] = v /\ \A d \in Cpus \ {c} : cpu'[d] = cpu[d]
    BY <2>2 DEF TypeOK
  <2>4. /\ raced \subseteq raced'
        /\ p.key \notin raced' => \A d \in Cpus : ~On(d, p.key)
    BY <2>2 DEF Raced, On
  <2>5. Exclusive'
    <3> SUFFICES ASSUME NEW k \in Flows, k \notin raced', NEW d \in Cpus, NEW e \in Cpus,
                        On(d, k)', On(e, k)'
                 PROVE  d = e
      BY DEF Exclusive
    <3>1. CASE k = p.key
      BY <2>3, <2>4, <3>1 DEF On
    <3>2. CASE k # p.key
      BY <2>1, <2>3, <2>4, <3>2 DEF On, BudgetInv, Exclusive
    <3> QED BY <3>1, <3>2
  <2>6. ReadIsCurrent'
    BY <2>1, <2>2, <2>3, <2>4 DEF BudgetInv, ReadIsCurrent, Agrees
  <2>7. TrackedIsCurrent'
    BY <2>2, <2>4 DEF BudgetInv, TrackedIsCurrent, Agrees
  <2> QED BY <2>5, <2>6, <2>7 DEF BudgetInv
<1>3. ASSUME NEW c \in Cpus, ReadState(c) PROVE BudgetInv'
  <2> DEFINE k == cpu[c].pkt.key
             st == IF k \in DOMAIN reasm THEN reasm[k] ELSE None
             v == [cpu[c] EXCEPT !.stage = "read", !.state = st]
  <2>1. cpu[c] \in Invocation /\ cpu[c] # None /\ k \in Flows
    BY <1>3, InvocationType DEF ReadState
  <2>2. cpu' = [cpu EXCEPT ![c] = v] /\ UNCHANGED <<reasm, segs, owed, raced>>
    BY <1>3, <2>1 DEF ReadState, Invocation, TypeOK
  <2>3. v.pkt = cpu[c].pkt /\ v.state = st
    BY <2>1 DEF Invocation
  <2> HIDE DEF v
  <2>4. cpu'[c] = v /\ \A d \in Cpus \ {c} : cpu'[d] = cpu[d]
    BY <2>2 DEF TypeOK
  <2>5. Exclusive'
    BY <2>1, <2>2, <2>3, <2>4 DEF BudgetInv, Exclusive, On
  <2>6. ReadIsCurrent'
    <3> SUFFICES ASSUME NEW d \in Cpus, cpu'[d] # None, cpu'[d].state # None,
                        cpu'[d].pkt.key \notin raced'
                 PROVE  Agrees(cpu'[d].state, segs[cpu'[d].pkt.key], owed[cpu'[d].pkt.key])
      BY <2>2 DEF ReadIsCurrent, Agrees
    <3>1. CASE d = c
      BY <2>2, <2>3, <2>4, <3>1 DEF BudgetInv, TrackedIsCurrent
    <3>2. CASE d # c
      BY <2>2, <2>4, <3>2 DEF BudgetInv, ReadIsCurrent
    <3> QED BY <3>1, <3>2
  <2>7. TrackedIsCurrent'
    BY <2>2 DEF BudgetInv, TrackedIsCurrent, Agrees
  <2> QED BY <2>5, <2>6, <2>7 DEF BudgetInv
<1>4. ASSUME NEW c \in Cpus, EmitContinuation(c) PROVE BudgetInv'
  <2> DEFINE p == cpu[c].pkt
             st == cpu[c].state
  <2>1. p \in Packets /\ st \in ReasmState /\ p.key \in Flows
    BY <1>4, InvocationType DEF EmitContinuation
  <2>2. /\ reasm' = ContinuedMap(reasm, p, st) /\ segs' = [segs EXCEPT ![p.key] = @ + 1]
        /\ owed' = [owed EXCEPT ![p.key] = @ - p.len]
    BY <1>4 DEF EmitContinuation
  <2>3. /\ \A k \in DOMAIN reasm' \ {p.key} : k \in DOMAIN reasm /\ reasm'[k] = reasm[k]
        /\ p.key \in DOMAIN reasm' =>
             /\ reasm'[p.key].remaining > 0
             /\ reasm'[p.key].remaining = st.remaining - p.len
             /\ reasm'[p.key].segments_left = st.segments_left - 1
    <3>1. reasm \in [DOMAIN reasm -> ReasmState] /\ DOMAIN reasm \subseteq Flows
      BY DEF TypeOK
    <3>2. reasm' = ContinuedMap(reasm, p, st)
      BY <2>2
    <3> QED BY <2>1, <3>1, <3>2, ContinuedMapType
  <2>4. /\ segs'[p.key] = segs[p.key] + 1 /\ owed'[p.key] = owed[p.key] - p.len
        /\ \A j \in Flows \ {p.key} : segs'[j] = segs[j] /\ owed'[j] = owed[j]
    BY <1>a, <2>1, <2>2
  <2>5. p.key \notin raced => Agrees(st, segs[p.key], owed[p.key])
    BY <1>4 DEF EmitContinuation, BudgetInv, ReadIsCurrent
  <2>6. /\ st.segments_left \in Nat /\ segs[p.key] \in Nat /\ st.remaining \in Nat
        /\ p.len \in Nat /\ owed[p.key] \in Int
    BY <1>a, <2>1, ClassifierAssumption DEF ReasmState, Packet
  <2>7. p.key \in DOMAIN reasm' /\ p.key \notin raced =>
          Agrees(reasm'[p.key], segs'[p.key], owed'[p.key])
    BY <1>a, <2>3, <2>4, <2>5, <2>6 DEF Agrees
  <2>8. cpu[c] # None /\ cpu' = [cpu EXCEPT ![c] = None] /\ raced' = raced
    BY <1>4 DEF EmitContinuation
  <2> QED BY <1>a, <2>1, <2>3, <2>4, <2>7, <2>8, EmitBudgetInv
<1>5. ASSUME NEW c \in Cpus, cpu[c] # None, cpu' = [cpu EXCEPT ![c] = None],
             UNCHANGED <<reasm, segs, owed, raced>>
      PROVE  BudgetInv'
  <2> DEFINE k == cpu[c].pkt.key
  <2>1. k \in Flows
    BY <1>5, InvocationType
  <2>2. k \in DOMAIN reasm' /\ k \notin raced => Agrees(reasm'[k], segs'[k], owed'[k])
    BY <1>5 DEF BudgetInv, TrackedIsCurrent, Agrees
  <2> QED BY <1>a, <1>5, <2>1, <2>2, EmitBudgetInv
<1>6. ASSUME NEW c \in Cpus, EmitFirst(c) PROVE BudgetInv'
  <2> DEFINE p == cpu[c].pkt
  <2>1. p \in Packets /\ p.key \in Flows
    BY <1>6, InvocationType DEF EmitFirst
  <2>2. cpu[c] # None /\ cpu' = [cpu EXCEPT ![c] = None]
    BY <1>6 DEF EmitFirst
  <2>3. CASE IsFragment(p)
    <3>1. /\ reasm' = With(reasm, p.key, FirstState(p))
          /\ segs' = [segs EXCEPT ![p.key] = 1]
          /\ owed' = [owed EXCEPT ![p.key] = p.record_len + RecordHeader - p.len]
          /\ raced' = Restarted(c, p.key)
      BY <1>6, <2>3 DEF EmitFirst, FirstState
    <3>2. /\ FirstState(p).segments_left = MaxReasmSegments - 1
          /\ FirstState(p).remaining > 0
          /\ FirstState(p).remaining = p.record_len + RecordHeader - p.len
      BY <2>1, <2>3, FirstStateType
    <3>3. /\ \A k \in DOMAIN reasm' \ {p.key} : k \in DOMAIN reasm /\ reasm'[k] = reasm[k]
          /\ reasm'[p.key] = FirstState(p)
      BY <3>1 DEF With
    <3>4. /\ segs'[p.key] = 1 /\ owed'[p.key] = FirstState(p).remaining
          /\ \A j \in Flows \ {p.key} : segs'[j] = segs[j] /\ owed'[j] = owed[j]
      BY <1>a, <2>1, <3>1, <3>2
    <3>5. Agrees(reasm'[p.key], segs'[p.key], owed'[p.key])
      BY <1>a, <3>2, <3>3, <3>4 DEF Agrees
    <3> QED BY <1>a, <2>1, <2>2, <3>1, <3>3, <3>4, <3>5, EmitBudgetInv
  <2>4. CASE ~IsFragment(p)
    BY <1>5, <1>6, <2>4 DEF EmitFirst
  <2> QED BY <2>3, <2>4
<1>7. ASSUME NEW k \in Flows, LruEvict(k) PROVE BudgetInv'
  BY <1>7 DEF LruEvict, Without, Restrict, BudgetInv, Exclusive, On, ReadIsCurrent,
              TrackedIsCurrent, Agrees
<1>8. CASE UNCHANGED <<reasm, cpu, segs, owed, raced>>
  BY <1>8 DEF BudgetInv, Exclusive, On, ReadIsCurrent, TrackedIsCurrent, Agrees
<1> QED BY <1>1, <1>2, <1>3, <1>4, <1>5, <1>6, <1>7, <1>8
        DEF Next, EmitUnflagged, Consume, vars

(* Whatever the CPUs do and the LRU map evicts. *)
LEMMA BudgetInvHolds == Spec => []BudgetInv
  BY TypeCorrect, InitBudgetInv, NextBudgetInv, PTL DEF Spec

(* On a flow that no two CPUs handled at once since its last head, the     *)
(* segments emitted since and the budget left in REASM_MAP add up,         *)
(* whatever the LRU map evicts: a record costs at most one event more than *)
(* the budget.                                                             *)
THEOREM BudgetAddsUp == Spec => []BudgetAccounted
<1>1. BudgetInv => BudgetAccounted
  BY DEF BudgetInv, TrackedIsCurrent, Agrees, BudgetAccounted
<1> QED BY <1>1, BudgetInvHolds, PTL

(* On such a flow an entry of REASM_MAP counts the bytes of the last       *)
(* head's record that are still to be captured, and there are some: the    *)
(* entry of a record that was captured to its end is gone.                 *)
THEOREM FinishedNotTracked == Spec => []FinishedIsUntracked
<1>1. BudgetInv => FinishedIsUntracked
  BY DEF BudgetInv, TrackedIsCurrent, Agrees, FinishedIsUntracked
<1> QED BY <1>1, BudgetInvHolds, PTL

(***************************************************************************)
(* Part 2, the capture path                                                *)
(*                                                                         *)
(* What ReassemblerProofs shows of the reassembler's operations holds of   *)
(* the captures of the wire.  The inductive invariant adds where heads     *)
(* come from: every FLAG_FRAGMENT event in the ring, every head in the     *)
(* table and every record returned goes back to a segment that starts a    *)
(* segmented record.                                                       *)
(***************************************************************************)

RP == INSTANCE ReassemblerProofs WITH Keys <- Flows, Captures <- WireCaptures

(* c is the capture of a segment that starts a segmented record. *)
IsStart(c) == \E i \in SegmentedRecords : c = Capture(Wire[i], "fragment")

(* The events the classifier may put into the ring. *)
RingEvents == {e \in WireCaptures : e.kind = "fragment" => IsStart(e)}

(* A packet that continues nothing starts a record. *)
CpuInv ==
  \A c \in Cpus :
    cpu[c] # None /\ ~cpu[c].continuation => cpu[c].pkt.lead # "other"

(* Every head of the table is filed under its own flow and starts a record. *)
HeadsReal(m) ==
  \A k \in DOMAIN m : m[k].head # None => m[k].head.key = k /\ IsStart(m[k].head)

(* r is well formed, and goes back to a segment of its flow. *)
RecordReal(r) == RP!RecordOK(r) /\ r.head.key = r.key /\ IsStart(r.head)

ResultReal(res) ==
  /\ RP!TableOK(res.flows) /\ HeadsReal(res.flows)
  /\ \A r \in res.out : RecordReal(r)

PathInv ==
  /\ TypeOK /\ CpuInv
  /\ ring \in Seq(RingEvents)
  /\ RP!TableOK(flows) /\ HeadsReal(flows)
  /\ \A r \in emitted : RecordReal(r)

(* The wire keeps what the reassembler assumes of captures. *)
LEMMA PathMeetsReassembler == RP!SeqModAssumption /\ RP!ReassemblerAssumption
<1>1. R!Capture = RP!Capture
  BY DEF R!Capture, RP!Capture, R!CaptureKinds, RP!CaptureKinds, R!Seqs, RP!Seqs, R!Lens, RP!Lens
<1> QED BY <1>1, SeqModAssumption, PathAssumption DEF RP!SeqModAssumption, RP!ReassemblerAssumption

(***************************************************************************)
(* The reassembler's operations keep where heads come from                 *)
(***************************************************************************)

(* A head is filed under its own flow. *)
LEMMA HeadsFiled ==
  ASSUME NEW m, RP!TableOK(m), NEW k \in DOMAIN m
  PROVE  RP!Formed(k, m[k]) /\ RP!EntryOK(k, m[k])
  BY DEF RP!TableOK, RP!EntryOK

(* check_completion *)
LEMMA CheckCompletionReal ==
  ASSUME NEW m, HeadsReal(m), NEW k \in DOMAIN m,
         RP!ResultOK(RP!CheckCompletion(m, k))
  PROVE  ResultReal(RP!CheckCompletion(m, k))
<1> DEFINE res == RP!CheckCompletion(m, k)
<1>1. HeadsReal(res.flows)
  BY DEF HeadsReal, RP!CheckCompletion, RP!Without, Restrict, RP!Restrict
<1>2. \A r \in res.out : r.key = k /\ r.head = m[k].head /\ r.head # None
  BY DEF RP!CheckCompletion
<1>3. \A r \in res.out : r.head.key = r.key /\ IsStart(r.head)
  BY <1>2 DEF HeadsReal
<1> HIDE DEF res
<1>4. RP!ResultOK(res)
  BY DEF res
<1>5. ResultReal(res)
  BY <1>1, <1>3, <1>4 DEF ResultReal, RecordReal, RP!ResultOK
<1> QED BY <1>5 DEF res

(* finalize_entry, of any entries of the table *)
LEMMA FinalizeReal ==
  ASSUME NEW m, RP!IsTable(m), HeadsReal(m), NEW K \in SUBSET DOMAIN m,
         \A j \in DOMAIN m \ K : RP!EntryOK(j, m[j]),
         \A j \in K : RP!Formed(j, m[j])
  PROVE  ResultReal(RP!FinalizeEntries(m, K))
<1> DEFINE res == RP!FinalizeEntries(m, K)
<1>1. RP!ResultOK(res)
  BY PathMeetsReassembler, RP!FinalizeEntriesOK
<1>2. HeadsReal(res.flows)
  BY DEF HeadsReal, RP!FinalizeEntries, RP!Without, RP!Restrict
<1>3. ASSUME NEW r \in res.out PROVE r.head.key = r.key /\ IsStart(r.head)
  <2>1. PICK k \in K : /\ m[k].head # None
                       /\ r = [key |-> k, head |-> m[k].head, pieces |-> RP!Pieces(m[k]),
                               cut |-> None, truncated |-> TRUE]
    BY <1>3 DEF RP!FinalizeEntries, RP!Finalized
  <2> QED BY <2>1 DEF HeadsReal
<1> HIDE DEF res
<1>4. ResultReal(res)
  BY <1>1, <1>2, <1>3 DEF ResultReal, RecordReal, RP!ResultOK
<1> QED BY <1>4 DEF res

(* insert of a FLAG_FRAGMENT capture *)
LEMMA FragmentReal ==
  ASSUME NEW m, RP!TableOK(m), HeadsReal(m), NEW c \in WireCaptures, IsStart(c)
  PROVE  ResultReal(RP!FragmentResult(m, c))
<1> DEFINE kept == RP!CleanupIfOverLimit(m)
           n == RP!With(kept, c.key, RP!HeadEntry(kept, c))
<1>1. RP!ResultOK(RP!FragmentResult(m, c))
  BY PathMeetsReassembler, RP!FragmentResultOK
<1>2. RP!FragmentResult(m, c) = RP!CheckCompletion(n, c.key)
  BY DEF RP!FragmentResult
<1>3. HeadsReal(kept)
  BY DEF HeadsReal, RP!CleanupIfOverLimit, RP!Without, RP!Restrict
<1>4. RP!HeadEntry(kept, c).head = c
  BY DEF RP!HeadEntry
<1> HIDE DEF kept
<1>5. HeadsReal(n) /\ c.key \in DOMAIN n
  BY <1>3, <1>4 DEF HeadsReal, RP!With
<1> HIDE DEF n
<1> QED BY <1>1, <1>2, <1>5, CheckCompletionReal

(* insert of a FLAG_CONTINUATION capture: a head that is there stays. *)
LEMMA ContinuationReal ==
  ASSUME NEW m, RP!TableOK(m), HeadsReal(m), NEW c \in WireCaptures
  PROVE  ResultReal(RP!ContinuationResult(m, c))
<1> DEFINE e == RP!ContinuationEntry(m, c)
           n == RP!With(m, c.key, e)
           Over == \/ RP!Cardinality(DOMAIN e.fragments) >= MaxSegments
                   \/ e.age >= Timeout
<1>1. RP!ResultOK(RP!ContinuationResult(m, c))
  BY PathMeetsReassembler, RP!ContinuationResultOK
<1>2. RP!ContinuationResult(m, c) = IF Over THEN RP!FinalizeEntries(n, {c.key})
                                    ELSE RP!CheckCompletion(n, c.key)
  BY DEF RP!ContinuationResult
<1>3. RP!Formed(c.key, e)
  BY PathMeetsReassembler, RP!ContinuationEntryFormed
<1>4. e.head = IF c.key \in DOMAIN m THEN m[c.key].head ELSE None
  <2>1. CASE c.key \in DOMAIN m
    <3>1. RP!IsEntry(m[c.key])
      BY <2>1 DEF RP!TableOK, RP!EntryOK, RP!Formed
    <3> QED BY <2>1, <3>1 DEF RP!ContinuationEntry, RP!IsEntry
  <2>2. CASE c.key \notin DOMAIN m
    BY <2>2 DEF RP!ContinuationEntry
  <2> QED BY <2>1, <2>2
<1>5. c.key \in Flows
  BY PathAssumption DEF R!Capture
<1> HIDE DEF e, Over
<1>6. HeadsReal(n) /\ c.key \in DOMAIN n /\ n[c.key] = e
  BY <1>4 DEF HeadsReal, RP!With
<1>7. RP!IsTable(n) /\ \A j \in DOMAIN n \ {c.key} : RP!EntryOK(j, n[j])
  BY <1>5 DEF RP!TableOK, RP!IsTable, RP!With
<1> HIDE DEF n
<1>8. CASE Over
  BY <1>2, <1>3, <1>6, <1>7, <1>8, FinalizeReal
<1>9. CASE ~Over
  BY <1>1, <1>2, <1>6, <1>9, CheckCompletionReal
<1> QED BY <1>8, <1>9

(***************************************************************************)
(* R, the instance CapturePath is written with, and RP, the one that is    *)
(* proved about, are the same module                                       *)
(***************************************************************************)

(* The helpers on maps and sets. *)
LEMMA SameHelpers ==
  /\ \A m, k, v : R!With(m, k, v) = RP!With(m, k, v)
  /\ \A m, K : R!Without(m, K) = RP!Without(m, K)
  /\ \A S : R!Cardinality(S) = RP!Cardinality(S)
  /\ \A S : R!Min(S) = RP!Min(S)
<1>1. \A m, k, v : R!With(m, k, v) = RP!With(m, k, v)
  BY DEF R!With, RP!With
<1>2. \A m, K : R!Without(m, K) = RP!Without(m, K)
  BY DEF R!Without, RP!Without, R!Restrict, RP!Restrict
<1>3. ASSUME NEW S PROVE R!Cardinality(S) = RP!Cardinality(S)
  BY DEF R!Cardinality, RP!Cardinality
<1>4. ASSUME NEW S PROVE R!Min(S) = RP!Min(S)
  BY DEF R!Min, RP!Min
<1> QED BY <1>1, <1>2, <1>3, <1>4

LEMMA SameRun ==
  ASSUME NEW f, NEW s
  PROVE  R!ContiguousRun(f, s) = RP!ContiguousRun(f, s)
  BY DEF R!ContiguousRun, RP!ContiguousRun, R!ClosedWalk, RP!ClosedWalk, R!NextSeq, RP!NextSeq

LEMMA SamePieces ==
  ASSUME NEW e
  PROVE  R!Pieces(e) = RP!Pieces(e)
  BY SameRun DEF R!Pieces, RP!Pieces, R!Restrict, RP!Restrict

LEMMA SameReaches ==
  ASSUME NEW f, NEW s, NEW n
  PROVE  R!Reaches(f, s, n) <=> RP!Reaches(f, s, n)
  BY SameRun DEF R!Reaches, RP!Reaches

LEMMA SameCheck ==
  ASSUME NEW m, NEW k
  PROVE  R!CheckCompletion(m, k) = RP!CheckCompletion(m, k)
<1>1. R!Pieces(m[k]) = RP!Pieces(m[k]) /\ R!Without(m, {k}) = RP!Without(m, {k})
  BY SamePieces, SameHelpers
<1>2. R!Reaches(m[k].fragments, m[k].head.seq, m[k].expected_total)
        <=> RP!Reaches(m[k].fragments, m[k].head.seq, m[k].expected_total)
  BY SameReaches
<1> QED BY <1>1, <1>2 DEF R!CheckCompletion, RP!CheckCompletion

LEMMA SameFinalize ==
  ASSUME NEW m, NEW K
  PROVE  R!FinalizeEntries(m, K) = RP!FinalizeEntries(m, K)
<1>1. R!Without(m, K) = RP!Without(m, K)
  BY SameHelpers
<1>2. R!Finalized(m, K) = RP!Finalized(m, K)
  BY SamePieces DEF R!Finalized, RP!Finalized
<1> QED BY <1>1, <1>2 DEF R!FinalizeEntries, RP!FinalizeEntries

LEMMA SameFragmentResult ==
  ASSUME NEW m, NEW c
  PROVE  R!FragmentResult(m, c) = RP!FragmentResult(m, c)
<1>1. R!CleanupIfOverLimit(m) = RP!CleanupIfOverLimit(m)
  BY SameHelpers DEF R!CleanupIfOverLimit, RP!CleanupIfOverLimit
<1>2. \A k : R!HeadEntry(k, c) = RP!HeadEntry(k, c)
  BY SameHelpers DEF R!HeadEntry, RP!HeadEntry, R!ExpectedTotal, RP!ExpectedTotal,
                     R!RecordHeader, RP!RecordHeader
<1> QED BY <1>1, <1>2, SameHelpers, SameCheck DEF R!FragmentResult, RP!FragmentResult

LEMMA SameContinuationResult ==
  ASSUME NEW m, NEW c
  PROVE  R!ContinuationResult(m, c) = RP!ContinuationResult(m, c)
<1>1. R!ContinuationEntry(m, c) = RP!ContinuationEntry(m, c)
  BY SameHelpers DEF R!ContinuationEntry, RP!ContinuationEntry
<1> QED BY <1>1, SameHelpers, SameCheck, SameFinalize
        DEF R!ContinuationResult, RP!ContinuationResult

(***************************************************************************)
(* The worker's end of the path                                            *)
(***************************************************************************)

(* What insert() makes of any event of the ring. *)
LEMMA InsertReal ==
  ASSUME NEW m, RP!TableOK(m), HeadsReal(m), NEW c \in RingEvents
  PROVE  ResultReal(InsertResult(m, c))
<1>1. c \in WireCaptures /\ (c.kind = "fragment" => IsStart(c))
  BY DEF RingEvents
<1>2. CASE c.kind = "fragment"
  BY <1>1, <1>2, FragmentReal, SameFragmentResult DEF InsertResult
<1>3. CASE c.kind = "continuation" /\ ~R!IsDuplicate(m, c)
  BY <1>1, <1>3, ContinuationReal, SameContinuationResult DEF InsertResult
<1>4. CASE c.kind # "fragment" /\ ~(c.kind = "continuation" /\ ~R!IsDuplicate(m, c))
  BY <1>4 DEF InsertResult, ResultReal
<1> QED BY <1>2, <1>3, <1>4

(* The sweep after a call, if one is due. *)
LEMMA SweepReal ==
  ASSUME NEW r, ResultReal(r), \A q \in emitted : RecordReal(q), CountAndSweep(r)
  PROVE  RP!TableOK(flows') /\ HeadsReal(flows') /\ \A q \in emitted' : RecordReal(q)
<1> DEFINE due == IF handled + 1 = SweepEvery THEN R!Expired(r.flows) ELSE {}
           s == R!FinalizeEntries(r.flows, due)
<1>1. flows' = s.flows /\ emitted' = emitted \cup r.out \cup s.out
  BY DEF CountAndSweep
<1>2. due \in SUBSET DOMAIN r.flows
  BY DEF R!Expired
<1>3. /\ RP!IsTable(r.flows) /\ HeadsReal(r.flows)
      /\ \A j \in DOMAIN r.flows : RP!EntryOK(j, r.flows[j]) /\ RP!Formed(j, r.flows[j])
  BY HeadsFiled DEF ResultReal, RP!TableOK
<1> HIDE DEF due
<1>4. ResultReal(s)
  BY <1>2, <1>3, FinalizeReal, SameFinalize
<1> HIDE DEF s
<1> QED BY <1>1, <1>4 DEF ResultReal

(* Time passes over the table. *)
LEMMA TickReal ==
  ASSUME RP!TableOK(flows), HeadsReal(flows), R!Tick
  PROVE  RP!TableOK(flows') /\ HeadsReal(flows')
<1>1. flows' = [k \in DOMAIN flows |-> RP!Older(flows[k])]
  BY DEF R!Tick, R!Older, RP!Older
<1>2. ASSUME NEW k \in DOMAIN flows
      PROVE  RP!EntryOK(k, RP!Older(flows[k])) /\ RP!Older(flows[k]).head = flows[k].head
  <2>1. RP!EntryOK(k, flows[k]) /\ RP!IsEntry(flows[k])
    BY HeadsFiled DEF RP!Formed
  <2>2. RP!EntryOK(k, RP!Older(flows[k]))
    BY <2>1, PathMeetsReassembler, RP!OlderOK
  <2>3. RP!Older(flows[k]).head = flows[k].head
    BY <2>1 DEF RP!Older, RP!IsEntry
  <2> QED BY <2>2, <2>3
<1>3. RP!TableOK(flows')
  BY <1>1, <1>2 DEF RP!TableOK, RP!IsTable
<1>4. HeadsReal(flows')
  BY <1>1, <1>2 DEF HeadsReal
<1> QED BY <1>3, <1>4

(***************************************************************************)
(* The kernel's end of the path                                            *)
(***************************************************************************)

(* The packets of the wire pass the hook one at a time, and whatever else  *)
(* happens to the classifier's state is a step of the classifier.          *)
LEMMA PathStep == [PathNext]_pathVars => [Next]_vars
<1> SUFFICES ASSUME [PathNext]_pathVars PROVE [Next]_vars
  OBVIOUS
<1>1. ASSUME NEW c \in Cpus, NEW i \in DOMAIN Wire, Pass(c, i) \/ Retransmit(c, i) PROVE Next
  <2>1. Wire[i] \in Packets
    BY PathAssumption
  <2>2. Ignore(c, Wire[i]) \/ Classify(c, Wire[i])
    BY <1>1 DEF Pass, Retransmit, Hook
  <2> QED BY <2>1, <2>2 DEF Next
<1>2. ASSUME NEW c \in Cpus, KernelStep(c) PROVE Next
  BY <1>2 DEF KernelStep, Next
<1>3. ASSUME Insert \/ LoseEvent PROVE Next
  BY <1>3 DEF Insert, LoseEvent, Next
<1>4. ASSUME OtherCapture \/ PassTime PROVE UNCHANGED vars
  BY <1>4 DEF OtherCapture, PassTime
<1>5. ASSUME KernelEvict PROVE Next
  BY <1>5 DEF KernelEvict, Next
<1>6. ASSUME UNCHANGED pathVars PROVE UNCHANGED vars
  BY <1>6 DEF pathVars
<1> QED BY <1>1, <1>2, <1>3, <1>4, <1>5, <1>6 DEF PathNext

(* Every packet is in the wire, and is captured as one of WireCaptures. *)
LEMMA EventsOfWire ==
  ASSUME NEW p \in Packets
  PROVE  /\ Capture(p, "whole") \in RingEvents
         /\ Capture(p, "continuation") \in RingEvents
         /\ p.lead # "other" /\ IsFragment(p) => Capture(p, "fragment") \in RingEvents
<1>1. \A kind \in {"whole", "fragment", "continuation"} :
        Capture(p, kind) \in WireCaptures /\ Capture(p, kind).kind = kind
  <2>1. \A kind \in {"whole", "fragment", "continuation"} : Capture(p, kind) \in WireCaptures
    BY DEF WireCaptures
  <2> QED BY <2>1 DEF Capture
<1>2. PICK i \in DOMAIN Wire : p = Wire[i]
  BY PathAssumption
<1>3. p.lead # "other" /\ IsFragment(p) => IsStart(Capture(p, "fragment"))
  BY <1>2 DEF IsStart, SegmentedRecords
<1> QED BY <1>1, <1>3 DEF RingEvents

(* bpf_ringbuf_output *)
LEMMA OutputReal ==
  ASSUME NEW e \in RingEvents, ring \in Seq(RingEvents), Output(e)
  PROVE  ring' \in Seq(RingEvents)
  BY DEF Output

(* A step of the classifier keeps what its invocations and events are. *)
LEMMA KernelReal ==
  ASSUME TypeOK, CpuInv, ring \in Seq(RingEvents), [Next]_vars
  PROVE  CpuInv' /\ ring' \in Seq(RingEvents)
<1> USE DEF TypeOK
<1>1. ASSUME NEW c \in Cpus, cpu[c] # None
      PROVE  cpu[c] \in Invocation /\ cpu[c].pkt \in Packets
  BY <1>1 DEF Invocation
<1>2. ASSUME NEW c \in Cpus, cpu' = [cpu EXCEPT ![c] = None] PROVE CpuInv'
  BY <1>2 DEF CpuInv
<1>3. ASSUME NEW c \in Cpus, NEW p \in Packets, Ignore(c, p) PROVE CpuInv' /\ ring' \in Seq(RingEvents)
  BY <1>3 DEF Ignore, CpuInv
<1>4. ASSUME NEW c \in Cpus, NEW p \in Packets, Classify(c, p) PROVE CpuInv' /\ ring' \in Seq(RingEvents)
  <2>1. /\ cpu' = [cpu EXCEPT ![c] = [pkt |-> p, continuation |-> p.key \in DOMAIN reasm,
                                      state |-> None, stage |-> "classified"]]
        /\ p.key \in DOMAIN reasm \/ p.lead # "other"
        /\ ring' = ring
    BY <1>4 DEF Classify, Accepts
  <2> QED BY <2>1 DEF CpuInv
<1>5. ASSUME NEW c \in Cpus, ReadState(c) PROVE CpuInv' /\ ring' \in Seq(RingEvents)
  <2>1. /\ cpu[c] # None /\ cpu[c].continuation /\ ring' = ring
        /\ \E st : cpu' = [cpu EXCEPT ![c].stage = "read", ![c].state = st]
    BY <1>5 DEF ReadState
  <2>2. \A d \in Cpus \ {c} : cpu'[d] = cpu[d]
    BY <2>1
  <2>3. cpu'[c].continuation = cpu[c].continuation
    <3>1. PICK st : cpu' = [cpu EXCEPT ![c].stage = "read", ![c].state = st]
      BY <2>1
    <3>2. cpu'[c] = [cpu[c] EXCEPT !.stage = "read", !.state = st]
      BY <3>1
    <3>3. cpu[c] \in Invocation
      BY <1>1, <2>1
    <3> QED BY <3>2, <3>3 DEF Invocation
  <2> QED BY <2>1, <2>2, <2>3 DEF CpuInv
<1>6. ASSUME NEW c \in Cpus, EmitContinuation(c) PROVE CpuInv' /\ ring' \in Seq(RingEvents)
  <2>1. /\ cpu[c] # None /\ cpu' = [cpu EXCEPT ![c] = None]
        /\ Output(Capture(cpu[c].pkt, "continuation"))
    BY <1>6 DEF EmitContinuation
  <2> QED BY <1>1, <1>2, <2>1, EventsOfWire, OutputReal
<1>7. ASSUME NEW c \in Cpus, EmitUnflagged(c) PROVE CpuInv' /\ ring' \in Seq(RingEvents)
  <2>1. /\ cpu[c] # None /\ cpu' = [cpu EXCEPT ![c] = None]
        /\ Output(Capture(cpu[c].pkt, "whole"))
    BY <1>7 DEF EmitUnflagged
  <2> QED BY <1>1, <1>2, <2>1, EventsOfWire, OutputReal
<1>8. ASSUME NEW c \in Cpus, EmitFirst(c) PROVE CpuInv' /\ ring' \in Seq(RingEvents)
  <2>1. /\ cpu[c] # None /\ ~cpu[c].continuation /\ cpu' = [cpu EXCEPT ![c] = None]
        /\ \/ IsFragment(cpu[c].pkt) /\ Output(Capture(cpu[c].pkt, "fragment"))
           \/ Output(Capture(cpu[c].pkt, "whole"))
    BY <1>8 DEF EmitFirst
  <2>2. cpu[c].pkt.lead # "other"
    BY <2>1 DEF CpuInv
  <2> QED BY <1>1, <1>2, <2>1, <2>2, EventsOfWire, OutputReal
<1>9. ASSUME NEW k \in Flows, LruEvict(k) PROVE CpuInv' /\ ring' \in Seq(RingEvents)
  BY <1>9 DEF LruEvict, CpuInv
<1>10. ASSUME Consume PROVE CpuInv' /\ ring' \in Seq(RingEvents)
  BY <1>10 DEF Consume, CpuInv
<1>11. ASSUME UNCHANGED vars PROVE CpuInv' /\ ring' \in Seq(RingEvents)
  BY <1>11 DEF vars, CpuInv
<1> QED BY <1>3, <1>4, <1>5, <1>6, <1>7, <1>8, <1>9, <1>10, <1>11 DEF Next

(***************************************************************************)
(* The theorems                                                            *)
(***************************************************************************)

(* Nothing is under way at first. *)
LEMMA InitPathInv == PathInit => PathInv
<1> SUFFICES ASSUME PathInit PROVE PathInv
  OBVIOUS
<1>1. TypeOK /\ CpuInv /\ ring \in Seq(RingEvents)
  BY InitTypeOK DEF PathInit, Init, CpuInv
<1>2. RP!TableOK(flows) /\ HeadsReal(flows)
  BY DEF PathInit, R!Init, RP!TableOK, RP!IsTable, HeadsReal
<1> QED BY <1>1, <1>2 DEF PathInit, PathInv

(* Every step of the path preserves the invariant. *)
LEMMA NextPathInv == PathInv /\ [PathNext]_pathVars => PathInv'
<1> SUFFICES ASSUME PathInv, [PathNext]_pathVars PROVE PathInv'
  OBVIOUS
<1> DEFINE UserInv == /\ RP!TableOK(flows) /\ HeadsReal(flows)
                      /\ \A r \in emitted : RecordReal(r)
<1>1. [Next]_vars
  BY PathStep
<1>2. TypeOK' /\ CpuInv' /\ ring' \in Seq(RingEvents)
  BY <1>1, NextTypeOK, KernelReal DEF PathInv
<1>3. ASSUME flows' = flows, emitted' = emitted PROVE UserInv'
  BY <1>3 DEF PathInv
<1>4. ASSUME Insert PROVE UserInv'
  <2>1. ring # <<>> /\ CountAndSweep(InsertResult(flows, Head(ring)))
    BY <1>4 DEF Insert, Consume
  <2>2. Head(ring) \in RingEvents
    BY <2>1 DEF PathInv
  <2>3. ResultReal(InsertResult(flows, Head(ring)))
    BY <2>2, InsertReal DEF PathInv
  <2> QED BY <2>1, <2>3, SweepReal DEF PathInv
<1>5. ASSUME OtherCapture PROVE UserInv'
  <2> DEFINE r == [flows |-> flows, out |-> {}]
  <2>1. CountAndSweep(r)
    BY <1>5 DEF OtherCapture
  <2>2. ResultReal(r)
    BY DEF PathInv, ResultReal
  <2> HIDE DEF r
  <2> QED BY <2>1, <2>2, SweepReal DEF PathInv
<1>6. ASSUME PassTime PROVE UserInv'
  <2>1. R!Tick /\ emitted' = emitted
    BY <1>6 DEF PassTime
  <2> QED BY <2>1, TickReal DEF PathInv
<1>7. ASSUME NEW c \in Cpus, NEW i \in DOMAIN Wire, Pass(c, i) \/ Retransmit(c, i) PROVE UserInv'
  BY <1>3, <1>7 DEF Pass, Retransmit, Hook
<1>8. ASSUME NEW c \in Cpus, KernelStep(c) PROVE UserInv'
  BY <1>3, <1>8 DEF KernelStep
<1>9. ASSUME LoseEvent \/ KernelEvict PROVE UserInv'
  BY <1>3, <1>9 DEF LoseEvent, KernelEvict
<1>10. ASSUME UNCHANGED pathVars PROVE UserInv'
  BY <1>3, <1>10 DEF pathVars
<1> HIDE DEF UserInv
<1>11. UserInv'
  BY <1>4, <1>5, <1>6, <1>7, <1>8, <1>9, <1>10 DEF PathNext
<1> QED BY <1>2, <1>11 DEF PathInv, UserInv

(* A real record is one of the wire. *)
LEMMA PathInvReal == PathInv => RecordsAreReal
<1> SUFFICES ASSUME PathInv, NEW r \in emitted
             PROVE  /\ R!Tiled(r)
                    /\ \E i \in SegmentedRecords :
                         /\ Wire[i].key = r.key
                         /\ Wire[i].seq = r.head.seq
                         /\ ~r.truncated => IsRecord(r, i)
                    /\ ~r.truncated =>
                         \E p \in DOMAIN r.pieces : p + r.pieces[p] - r.head.seq >= r.cut
  BY DEF RecordsAreReal
<1>1. RP!RecordOK(r) /\ r.head.key = r.key /\ IsStart(r.head)
  BY DEF PathInv, RecordReal
<1>2. R!Tiled(r)
  BY <1>1 DEF RP!RecordOK, RP!Tiled, R!Tiled
<1>3. ~r.truncated => /\ r.cut = r.head.record_len + RecordHeader
                      /\ \E p \in DOMAIN r.pieces : p + r.pieces[p] - r.head.seq >= r.cut
  BY <1>1 DEF RP!RecordOK, RP!Whole, RP!RecordHeader, RecordHeader
<1>4. PICK i \in SegmentedRecords : r.head = Capture(Wire[i], "fragment")
  BY <1>1 DEF IsStart
<1>5. /\ r.head.key = Wire[i].key /\ r.head.seq = Wire[i].seq
      /\ r.head.record_len = Wire[i].record_len
  BY <1>4 DEF Capture
<1>6. ~r.truncated => IsRecord(r, i)
  BY <1>1, <1>3, <1>5 DEF IsRecord
<1> QED BY <1>1, <1>2, <1>3, <1>5, <1>6

(* Heads come from the wire, all along the path. *)
THEOREM PathInvHolds == PathSpec => []PathInv
  BY InitPathInv, NextPathInv, PTL DEF PathSpec

(* Whatever is reordered, repeated, lost, evicted or timed out between the *)
(* wire and the worker, a record the reassembler returns was on the wire:  *)
(* it starts where a segmented record of its flow starts, and one returned *)
(* whole has that record's length and all of its bytes.                    *)
THEOREM RecordsReal == PathSpec => []RecordsAreReal
  BY PathInvHolds, PathInvReal, PTL

(* The classifier on the path is the classifier of part 1: with the wire's *)
(* packets, the ring emptied by the worker and every fault, its steps are  *)
(* those of try_capture_tls, so that every theorem of part 1 holds there.  *)
THEOREM ImplementsClassifier == PathSpec => Spec
<1>1. PathInit => Init
  BY DEF PathInit
<1> QED BY <1>1, PathStep, PTL DEF PathSpec, Spec

(***************************************************************************)
(* Part 3, the loop of check_completion and finalize_entry                 *)
(*                                                                         *)
(* FragmentWalk has the loop branch by branch; here it has a state of its  *)
(* own.  The invariant says which fragment was appended last, that those   *)
(* before it lead to it, and that whatever the iterator has passed since is *)
(* too low to follow it.                                                   *)
(***************************************************************************)

(* The keys of the payloads appended so far. *)
Appended == {buffer[i] : i \in DOMAIN buffer}

(* The iterator has not reached the head's own fragment. *)
NotBegun ==
  /\ head_seq \in todo /\ buffer = <<>>
  /\ next_seq = head_seq /\ contiguous_bytes = 0

(* The fragment at `last' was appended last: the others lie before it and  *)
(* lead to it, and what the iterator has passed since was too low.         *)
Reached(last) ==
  /\ next_seq = NextSeq(fragments, last)
  /\ contiguous_bytes = last + fragments[last] - head_seq
  /\ \A p \in Appended :
       /\ p <= last /\ p + fragments[p] <= last + fragments[last]
       /\ p # last => NextSeq(fragments, p) \in Appended
  /\ \A x \in DOMAIN fragments \ todo : x <= last \/ x < next_seq

WalkInv ==
  /\ IsFragments(fragments) /\ head_seq \in DOMAIN fragments
  /\ todo \subseteq DOMAIN fragments
  /\ buffer \in Seq(DOMAIN fragments)
  /\ Appended \subseteq ContiguousRun(fragments, head_seq) \ todo
  /\ \A x \in DOMAIN fragments \ todo : \A y \in todo : x < y
  /\ NotBegun \/ (head_seq \in Appended /\ \E last \in Appended : Reached(last))
  /\ done => \A y \in todo : next_seq < y

(* A set of naturals that is not empty has a least element. *)
LEMMA LeastNatural ==
  ASSUME NEW S \in SUBSET Nat, S # {}
  PROVE  Min(S) \in S /\ \A y \in S : Min(S) <= y
<1> DEFINE Less == OpToRel(<, Nat)
<1>1. IsWellFoundedOn(Less, Nat)
  BY NatLessThanWellFounded
<1>2. \A x, y \in Nat : x < y => <<x, y>> \in Less
  BY DEF OpToRel
<1> HIDE DEF Less
<1>3. \E x \in S : \A y \in S : ~(<<y, x>> \in Less)
  BY <1>1, WFMin
<1>4. \E x \in S : \A y \in S : x <= y
  <2>1. PICK x \in S : \A y \in S : ~(<<y, x>> \in Less)
    BY <1>3
  <2>2. ASSUME NEW y \in S PROVE x <= y
    <3>1. ~(y < x)
      BY <1>2, <2>1, Zenon
    <3>2. x \in Nat /\ y \in Nat
      OBVIOUS
    <3> QED BY <3>1, <3>2
  <2> QED BY <2>2
<1> QED BY <1>4 DEF Min

(* Sequence numbers and lengths are numbers below SeqMod. *)
LEMMA FragmentNumbers ==
  ASSUME NEW f, IsFragments(f)
  PROVE  /\ SeqMod \in Nat \ {0} /\ DOMAIN f \subseteq Nat
         /\ \A p \in DOMAIN f : p < SeqMod /\ f[p] \in Nat \ {0} /\ f[p] < SeqMod
  BY SeqModAssumption DEF IsFragments, IsMap, Seqs, Lens

(* A step that goes up does not wrap. *)
LEMMA UpwardStep ==
  ASSUME NEW f, IsFragments(f), NEW p \in DOMAIN f, NextSeq(f, p) > p
  PROVE  NextSeq(f, p) = p + f[p]
<1>1. SeqMod \in Nat \ {0} /\ p \in Nat /\ p < SeqMod /\ f[p] \in Nat \ {0} /\ f[p] < SeqMod
  BY FragmentNumbers
<1>2. ASSUME p + f[p] >= SeqMod PROVE FALSE
  <2>1. (p + f[p]) % SeqMod = p + f[p] - SeqMod
    BY <1>1, <1>2
  <2> QED BY <1>1, <2>1 DEF NextSeq
<1>3. (p + f[p]) % SeqMod = p + f[p]
  BY <1>1, <1>2
<1> QED BY <1>3 DEF NextSeq

(* The next number in sequence is one. *)
LEMMA NextSeqType ==
  ASSUME NEW f, IsFragments(f), NEW p \in DOMAIN f
  PROVE  NextSeq(f, p) \in Nat
<1>1. SeqMod \in Nat \ {0} /\ p \in Nat /\ f[p] \in Nat
  BY FragmentNumbers
<1> QED BY <1>1 DEF NextSeq

(* The run is the least set with the head that the loop cannot leave. *)
LEMMA RunIsLeast ==
  ASSUME NEW f, NEW s \in DOMAIN f
  PROVE  /\ ContiguousRun(f, s) \subseteq DOMAIN f
         /\ s \in ContiguousRun(f, s)
         /\ ClosedWalk(f, ContiguousRun(f, s))
         /\ \A T \in SUBSET DOMAIN f :
              (s \in T /\ ClosedWalk(f, T)) => ContiguousRun(f, s) \subseteq T
  BY DEF ContiguousRun, ClosedWalk

(* The loop begins before the head's fragment. *)
LEMMA WalkInvInit == WalkInit => WalkInv
<1> SUFFICES ASSUME WalkInit PROVE WalkInv
  OBVIOUS
<1>1. IsFragments(fragments)
  BY WalkAssumption, SeqModAssumption DEF WalkInit, FragmentMaps, IsFragments, IsMap, Lens
<1>2. Appended = {} /\ buffer \in Seq(DOMAIN fragments)
  BY DEF WalkInit, Appended
<1>3. NotBegun
  BY DEF WalkInit, NotBegun
<1> QED BY <1>1, <1>2, <1>3 DEF WalkInit, WalkInv

(* The keys in the buffer once f is appended. *)
LEMMA AppendedGrows ==
  ASSUME NEW S, buffer \in Seq(S), NEW f \in S, buffer' = Append(buffer, f)
  PROVE  buffer' \in Seq(S) /\ Appended' = Appended \cup {f}
  BY DEF Appended

(* The fragment at next_seq is appended: it is the last one now. *)
LEMMA AppendKeeps ==
  ASSUME WalkInv, NEW f \in todo, \A y \in todo : f <= y,
         AppendFragment(f), ~done
  PROVE  WalkInv'
<1> DEFINE D == DOMAIN fragments
           Run == ContiguousRun(fragments, head_seq)
<1>1. /\ IsFragments(fragments) /\ head_seq \in D /\ f \in D /\ todo \subseteq D
      /\ buffer \in Seq(D) /\ Appended \subseteq Run \ todo
      /\ \A x \in D \ todo : \A y \in todo : x < y
  BY DEF WalkInv
<1>2. /\ f = next_seq /\ buffer' = Append(buffer, f)
      /\ contiguous_bytes' = contiguous_bytes + fragments[f]
      /\ next_seq' = NextSeq(fragments, f)
      /\ todo' = todo \ {f}
      /\ fragments' = fragments /\ head_seq' = head_seq /\ done' = done
  BY DEF AppendFragment, NextSeq
<1>3. buffer' \in Seq(D) /\ Appended' = Appended \cup {f}
  BY <1>1, <1>2, AppendedGrows
<1>4. /\ D \subseteq Nat /\ \A p \in D : fragments[p] \in Nat
      /\ Run \subseteq D /\ head_seq \in Run /\ ClosedWalk(fragments, Run)
  BY <1>1, FragmentNumbers, RunIsLeast
<1>5. /\ f \in Run /\ head_seq \in Appended'
      /\ contiguous_bytes' = f + fragments[f] - head_seq
      /\ \A p \in Appended' : /\ p <= f /\ p + fragments[p] <= f + fragments[f]
                              /\ p # f => NextSeq(fragments, p) \in Appended'
  <2>1. CASE NotBegun
    <3>1. f = head_seq /\ Appended = {} /\ contiguous_bytes = 0
      BY <1>2, <2>1 DEF NotBegun, Appended
    <3> QED BY <1>1, <1>2, <1>3, <1>4, <3>1
  <2>2. CASE head_seq \in Appended /\ \E last \in Appended : Reached(last)
    <3>1. PICK last \in Appended : Reached(last)
      BY <2>2
    <3>2. last \in Run /\ last \in D \ todo /\ last < f
      BY <1>1, <1>4
    <3>3. f = NextSeq(fragments, last) /\ f > last
      BY <1>2, <1>4, <3>1, <3>2 DEF Reached
    <3>4. f \in Run
      BY <1>1, <1>4, <3>2, <3>3 DEF ClosedWalk
    <3>5. f = last + fragments[last]
      BY <1>1, <3>2, <3>3, UpwardStep
    <3>6. contiguous_bytes' = f + fragments[f] - head_seq
      BY <1>1, <1>2, <1>4, <3>1, <3>2, <3>5, SMTT(60) DEF Reached
    <3>7. ASSUME NEW p \in Appended
          PROVE  /\ p <= f /\ p + fragments[p] <= f + fragments[f]
                 /\ p # f => NextSeq(fragments, p) \in Appended'
      <4>1. /\ p <= last /\ p + fragments[p] <= last + fragments[last]
            /\ p # last => NextSeq(fragments, p) \in Appended
        BY <3>1 DEF Reached
      <4>2. p \in Nat /\ fragments[p] \in Nat /\ last \in Nat /\ f \in Nat
            /\ fragments[last] \in Nat /\ fragments[f] \in Nat
        BY <1>1, <1>4, <3>2
      <4>3. p <= f /\ p + fragments[p] <= f + fragments[f]
        BY <3>5, <4>1, <4>2
      <4>4. NextSeq(fragments, p) \in Appended'
        BY <1>3, <3>3, <4>1
      <4> QED BY <4>3, <4>4
    <3> QED BY <1>1, <1>3, <1>4, <2>2, <3>4, <3>6, <3>7, SMTT(60)
  <2> QED BY <2>1, <2>2 DEF WalkInv
<1>6. \A x \in D \ todo' : x <= f
  BY <1>1, <1>2, <1>4
<1>7. Reached(f)'
  BY <1>2, <1>5, <1>6 DEF Reached
<1>8. \A x \in D \ todo' : \A y \in todo' : x < y
  BY <1>1, <1>2, <1>4
<1>9. Appended' \subseteq Run \ todo'
  BY <1>1, <1>2, <1>3, <1>5
<1>10. f \in Appended'
  BY <1>3
<1> HIDE DEF Run
<1>11. (NotBegun \/ (head_seq \in Appended /\ \E last \in Appended : Reached(last)))'
  BY <1>2, <1>5, <1>7, <1>10
<1>12. Appended' \subseteq ContiguousRun(fragments', head_seq') \ todo'
  BY <1>2, <1>9 DEF Run
<1> QED BY <1>1, <1>2, <1>3, <1>8, <1>11, <1>12 DEF WalkInv

(* An earlier fragment is passed. *)
LEMMA SkipKeeps ==
  ASSUME WalkInv, NEW f \in todo, \A y \in todo : f <= y,
         SkipFragment(f), ~done
  PROVE  WalkInv'
<1> DEFINE D == DOMAIN fragments
<1>1. /\ f < next_seq /\ todo' = todo \ {f}
      /\ fragments' = fragments /\ head_seq' = head_seq /\ next_seq' = next_seq
      /\ contiguous_bytes' = contiguous_bytes /\ buffer' = buffer /\ done' = done
  BY DEF SkipFragment
<1>2. Appended' = Appended
  BY <1>1 DEF Appended
<1>3. D \subseteq Nat /\ todo \subseteq D /\ \A x \in D \ todo : \A y \in todo : x < y
  BY FragmentNumbers DEF WalkInv
<1>4. \A x \in D \ todo' : \A y \in todo' : x < y
  BY <1>1, <1>3
<1>5. NotBegun => NotBegun'
  BY <1>1, <1>3 DEF NotBegun
<1>6. ASSUME NEW last \in Appended, Reached(last) PROVE Reached(last)'
  BY <1>1, <1>2, <1>6 DEF Reached
<1>7. (NotBegun \/ (head_seq \in Appended /\ \E last \in Appended : Reached(last)))'
  BY <1>1, <1>2, <1>5, <1>6 DEF WalkInv
<1> QED BY <1>1, <1>2, <1>4, <1>7 DEF WalkInv

(* Behind a gap, and after the last fragment, nothing can follow. *)
LEMMA StopKeeps ==
  ASSUME WalkInv, \A y \in todo : next_seq < y,
         done' = TRUE, UNCHANGED <<fragments, head_seq, todo, next_seq, contiguous_bytes, buffer>>
  PROVE  WalkInv'
  BY DEF WalkInv, NotBegun, Reached, Appended

(* Every turn of the loop preserves the invariant. *)
LEMMA WalkInvNext == WalkInv /\ [WalkNext]_walkVars => WalkInv'
<1> SUFFICES ASSUME WalkInv, [WalkNext]_walkVars PROVE WalkInv'
  OBVIOUS
<1>1. ASSUME UNCHANGED walkVars PROVE WalkInv'
  BY <1>1 DEF walkVars, WalkInv, NotBegun, Reached, Appended
<1>2. ASSUME Exhausted PROVE WalkInv'
  BY <1>2, StopKeeps DEF Exhausted
<1>3. ASSUME ~done, Iterate PROVE WalkInv'
  <2>1. todo # {} /\ todo \in SUBSET Nat
    BY <1>3, FragmentNumbers DEF Iterate, WalkInv
  <2>2. PICK f \in todo : /\ \A y \in todo : f <= y
                          /\ AppendFragment(f) \/ GapStops(f) \/ SkipFragment(f)
    <3>1. Min(todo) = Min(todo)
      BY DEF Min, Min
    <3>2. Min(todo) \in todo /\ \A y \in todo : Min(todo) <= y
      BY <2>1, LeastNatural
    <3> QED BY <1>3, <3>1, <3>2 DEF Iterate
  <2>3. CASE AppendFragment(f)
    BY <1>3, <2>2, <2>3, AppendKeeps
  <2>4. CASE SkipFragment(f)
    BY <1>3, <2>2, <2>4, SkipKeeps
  <2>5. CASE GapStops(f)
    <3>1. \A y \in todo : next_seq < y
      <4>1. next_seq \in Nat
        BY FragmentNumbers, NextSeqType, RunIsLeast DEF WalkInv, NotBegun, Reached
      <4> QED BY <2>1, <2>2, <2>5, <4>1 DEF GapStops
    <3> QED BY <2>5, <3>1, StopKeeps DEF GapStops
  <2> QED BY <2>2, <2>3, <2>4, <2>5
<1> QED BY <1>1, <1>2, <1>3 DEF WalkNext

(* At the end, the appended fragments are closed, so the run is among them. *)
LEMMA WalkInvComputes == WalkInv => ComputesRun
<1> SUFFICES ASSUME WalkInv, done PROVE ComputesRun
  BY DEF ComputesRun
<1> DEFINE D == DOMAIN fragments
           Run == ContiguousRun(fragments, head_seq)
<1>1. /\ IsFragments(fragments) /\ head_seq \in D /\ todo \subseteq D
      /\ Appended \subseteq Run \ todo /\ \A y \in todo : next_seq < y
  BY DEF WalkInv
<1>2. /\ D \subseteq Nat /\ \A p \in D : fragments[p] \in Nat
      /\ Run \subseteq D
      /\ \A T \in SUBSET D : (head_seq \in T /\ ClosedWalk(fragments, T)) => Run \subseteq T
  BY <1>1, FragmentNumbers, RunIsLeast
<1>3. ~NotBegun
  <2>1. head_seq \in Nat
    BY <1>1, <1>2
  <2> QED BY <1>1, <2>1 DEF NotBegun
<1>4. head_seq \in Appended /\ \E last \in Appended : Reached(last)
  BY <1>3 DEF WalkInv
<1>5. PICK last \in Appended : Reached(last)
  BY <1>4
<1>6. ClosedWalk(fragments, Appended)
  <2> SUFFICES ASSUME NEW p \in Appended,
                      NextSeq(fragments, p) \in D, NextSeq(fragments, p) > p
               PROVE  NextSeq(fragments, p) \in Appended
    BY DEF ClosedWalk
  <2>1. ASSUME p = last PROVE FALSE
    <3>1. next_seq \in D /\ next_seq > last /\ next_seq \in Nat /\ last \in Nat
      BY <1>1, <1>2, <1>5, <2>1 DEF Reached
    <3>2. next_seq \in D \ todo
      BY <1>1, <3>1
    <3> QED BY <1>5, <3>1, <3>2 DEF Reached
  <2> QED BY <1>5, <2>1 DEF Reached
<1>7. Run = Appended
  BY <1>1, <1>2, <1>4, <1>6
<1>8. ASSUME NEW total \in Nat
      PROVE  (contiguous_bytes >= total) <=> Reaches(fragments, head_seq, total)
  <2>1. /\ contiguous_bytes = last + fragments[last] - head_seq /\ last \in Run
        /\ \A p \in Run : p + fragments[p] <= last + fragments[last]
    BY <1>5, <1>7 DEF Reached
  <2>2. head_seq \in Nat /\ last \in Nat /\ fragments[last] \in Nat
        /\ \A p \in Run : p \in Nat /\ fragments[p] \in Nat
    BY <1>1, <1>2, <2>1
  <2> HIDE DEF Run
  <2>3. \A p \in Run : p + fragments[p] - head_seq >= total => contiguous_bytes >= total
    BY <2>1, <2>2
  <2> QED BY <2>1, <2>3 DEF Reaches, Run
<1>9. \A total \in 0 .. MaxLen * MaxFragments + 1 : total \in Nat
  OBVIOUS
<1> QED BY <1>7, <1>8, <1>9 DEF ComputesRun, Appended

(* For every map of fragments, overlapping, repeated, out of order and     *)
(* wrapping ones included, the loop of check_completion and finalize_entry *)
(* appends exactly the contiguous run that the reassembler is written      *)
(* with, and its count of bytes reaches a total exactly when the run does. *)
THEOREM LoopComputesRun == WalkSpec => []ComputesRun
<1> QED BY WalkInvInit, WalkInvNext, WalkInvComputes, PTL DEF WalkSpec
=============================================================================
