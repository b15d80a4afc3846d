---------------------------- MODULE Reassembler ----------------------------
(***************************************************************************)
(* The userspace record reassembler (crates/tls-probe-cli/src/reasm.rs).   *)
(*                                                                         *)
(* A TLS record larger than one TCP segment reaches the worker as one      *)
(* FLAG_FRAGMENT capture (the head, which carries the record header) and   *)
(* several FLAG_CONTINUATION captures, in any order, possibly repeated and *)
(* possibly missing.  The reassembler buffers them per flow and returns    *)
(* the record when the bytes from the head on are contiguous, or the       *)
(* prefix it has when the segment cap or the timeout is hit.               *)
(*                                                                         *)
(* A payload is abstracted to its length: within one flow the byte at a    *)
(* sequence number is the byte of the TCP stream at that position.  Ages   *)
(* replace Instants and saturate at Timeout (elapsed() is only ever        *)
(* compared with the timeout).                                             *)
(***************************************************************************)
EXTENDS FragmentRun, FiniteSets, FiniteSetsExt, Functions

CONSTANTS
  Keys,         (* FlowKeys; numbers, since the BTreeMap orders them          *)
  Captures,     (* the captures that may be handed to insert()                *)
  MaxFlows,     (* Reassembler::max_flows (1024)                              *)
  MaxSegments,  (* the literal 4 of insert()                                  *)
  Timeout,      (* Reassembler::timeout, in ticks of the model's clock        *)
  None          (* Option::None                                               *)

RecordHeader == 5  \* bytes of a TLS record header

CaptureKinds == {"whole", "fragment", "continuation"}

Capture ==
  [key: Keys, kind: CaptureKinds, seq: Seqs, len: Lens, record_len: Nat]

ASSUME ReassemblerAssumption ==
  /\ Keys \subseteq Nat
  /\ Captures \subseteq Capture
  /\ MaxFlows \in Nat \ {0}
  /\ MaxSegments \in Nat \ {0}
  /\ Timeout \in Nat \ {0}
  /\ None \notin Nat
  /\ None \notin Capture

VARIABLES
  flows,  (* Reassembler::flows: a function on the keys present            *)
  out     (* the AssembledRecords returned by the last call                *)

vars == <<flows, out>>

(* The fields of a ReassemblyEntry. *)
IsEntry(e) ==
  /\ e \in [fragments      : {e.fragments},
            age            : 0 .. Timeout,
            head           : Captures \cup {None},
            expected_total : Nat \cup {None}]
  /\ IsFragments(e.fragments)

(* An AssembledRecord: the head's metadata, the payloads that were         *)
(* appended (by sequence number), and the length the buffer is cut to      *)
(* (None: not cut).                                                        *)
IsAssembledRecord(r) ==
  /\ r \in [key       : Keys,
            head      : Captures,
            pieces    : {r.pieces},
            cut       : Nat \cup {None},
            truncated : BOOLEAN]
  /\ IsFragments(r.pieces)

(* Every entry and every returned record is well formed, whatever was      *)
(* merged, evicted or finalized before.                                    *)
TypeOK ==
  /\ flows \in [DOMAIN flows -> {flows[k] : k \in DOMAIN flows}]
  /\ DOMAIN flows \subseteq Keys
  /\ \A k \in DOMAIN flows : IsEntry(flows[k])
  /\ \A r \in out : IsAssembledRecord(r)

(***************************************************************************)
(* Helpers                                                                 *)
(***************************************************************************)

(* m with k mapped to v, and m without the keys of K. *)
With(m, k, v) == [x \in DOMAIN m \cup {k} |-> IF x = k THEN v ELSE m[x]]
Without(m, K) == Restrict(m, DOMAIN m \ K)

(* The payloads the walk appends to the buffer. *)
Pieces(e) == Restrict(e.fragments, ContiguousRun(e.fragments, e.head.seq))

(***************************************************************************)
(* Operations.  Each returns the new table and the records it emits.       *)
(***************************************************************************)

(* Mutant: the bytes buffered are counted, contiguous or not.              *)
CheckCompletion_CountsFragments(m, k) ==
  LET e == m[k]
  IN  IF /\ e.head # None
         /\ e.expected_total # None
         /\ MapThenSumSet(LAMBDA p : e.fragments[p], DOMAIN e.fragments)
              >= e.expected_total
      THEN [flows |-> Without(m, {k}),
            out   |-> {[key |-> k, head |-> e.head, pieces |-> Pieces(e),
                        cut |-> e.expected_total, truncated |-> FALSE]}]
      ELSE [flows |-> m, out |-> {}]

CheckCompletion(m, k) ==
  LET e == m[k]
  IN  IF /\ e.head # None
         /\ e.expected_total # None
         /\ Reaches(e.fragments, e.head.seq, e.expected_total)
      THEN [flows |-> Without(m, {k}),
            out   |-> {[key |-> k, head |-> e.head, pieces |-> Pieces(e),
                        cut |-> e.expected_total, truncated |-> FALSE]}]
      ELSE [flows |-> m, out |-> {}]

(* The records finalize_entry(key, true) yields for the keys K: an entry   *)
(* without a head is dropped silently.                                     *)
Finalized(m, K) ==
  {[key |-> k, head |-> m[k].head, pieces |-> Pieces(m[k]),
    cut |-> None, truncated |-> TRUE] : k \in {j \in K : m[j].head # None}}

FinalizeEntries(m, K) == [flows |-> Without(m, K), out |-> Finalized(m, K)]

(* Mutant: room is made before the table is full.                          *)
CleanupIfOverLimit_OneEarly(m) ==
  IF DOMAIN m # {} /\ Cardinality(DOMAIN m) >= MaxFlows - 1
  THEN Without(m, {Min(DOMAIN m)}) ELSE m

(* The first key of the BTreeMap goes, whichever flow that is. *)
CleanupIfOverLimit(m) ==
  IF Cardinality(DOMAIN m) >= MaxFlows THEN Without(m, {Min(DOMAIN m)}) ELSE m

(* record_len of the header plus the header, if the payload holds one. *)
ExpectedTotal(c) ==
  IF c.len >= RecordHeader THEN c.record_len + RecordHeader ELSE None

(* The entry of the key after a FLAG_FRAGMENT capture: an entry that is    *)
(* already there keeps its fragments and its age.                          *)
HeadEntry(m, c) ==
  [fragments      |-> With(IF c.key \in DOMAIN m THEN m[c.key].fragments
                                                 ELSE [s \in {} |-> 0],
                           c.seq, c.len),
   age            |-> IF c.key \in DOMAIN m THEN m[c.key].age ELSE 0,
   head           |-> c,
   expected_total |-> ExpectedTotal(c)]

(* Mutant: a head that merges into an orphan entry is not checked for      *)
(* completion (the continuations came first).                              *)
FragmentResult_MergeUnchecked(m, c) ==
  LET kept == CleanupIfOverLimit(m)
      n    == With(kept, c.key, HeadEntry(kept, c))
  IN  IF c.key \in DOMAIN kept THEN [flows |-> n, out |-> {}]
      ELSE CheckCompletion(n, c.key)

FragmentResult(m, c) ==
  LET kept == CleanupIfOverLimit(m)
  IN  CheckCompletion(With(kept, c.key, HeadEntry(kept, c)), c.key)

IsDuplicate(m, c) == c.key \in DOMAIN m /\ c.seq \in DOMAIN m[c.key].fragments

(* The entry of the key after a FLAG_CONTINUATION capture: an orphan entry *)
(* is made when there is none.                                             *)
ContinuationEntry(m, c) ==
  IF c.key \in DOMAIN m
  THEN [m[c.key] EXCEPT !.fragments = With(@, c.seq, c.len)]
  ELSE [fragments |-> [s \in {c.seq} |-> c.len], age |-> 0,
        head |-> None, expected_total |-> None]

ContinuationResult(m, c) ==
  LET e == ContinuationEntry(m, c)
      n == With(m, c.key, e)
  IN  IF \/ Cardinality(DOMAIN e.fragments) >= MaxSegments
         \/ e.age >= Timeout
      THEN FinalizeEntries(n, {c.key})
      ELSE CheckCompletion(n, c.key)

Returns(r) == flows' = r.flows /\ out' = r.out

(***************************************************************************)
(* Actions                                                                 *)
(***************************************************************************)

Init ==
  /\ flows = [k \in {} |-> None]
  /\ out = {}

(* insert() of a capture that is a record of its own: not for us. *)
InsertWhole(c) ==
  /\ c.kind = "whole"
  /\ out' = {}
  /\ UNCHANGED flows

InsertFragment(c) ==
  /\ c.kind = "fragment"
  /\ Returns(FragmentResult(flows, c))

(* A continuation whose tcp_seq is buffered already is a retransmission. *)
InsertDuplicate(c) ==
  /\ c.kind = "continuation"
  /\ IsDuplicate(flows, c)
  /\ out' = {}
  /\ UNCHANGED flows

InsertContinuation(c) ==
  /\ c.kind = "continuation"
  /\ ~IsDuplicate(flows, c)
  /\ Returns(ContinuationResult(flows, c))

Expired(m) == {k \in DOMAIN m : m[k].age >= Timeout}

SweepExpired == Returns(FinalizeEntries(flows, Expired(flows)))

(* Time passes: Instant is monotonic. *)
Older(e) == [e EXCEPT !.age = IF @ < Timeout THEN @ + 1 ELSE @]

Tick ==
  /\ flows' = [k \in DOMAIN flows |-> Older(flows[k])]
  /\ out' = {}

Next ==
  \/ \E c \in Captures :
       \/ InsertWhole(c)
       \/ InsertFragment(c)
       \/ InsertDuplicate(c)
       \/ InsertContinuation(c)
  \/ SweepExpired
  \/ Tick

Spec == Init /\ [][Next]_vars

(***************************************************************************)
(* Properties                                                              *)
(***************************************************************************)

(* The pieces of r start at its head and follow each other edge to edge.   *)
Tiled(r) ==
  LET P == DOMAIN r.pieces
  IN  /\ r.head.seq \in P
      /\ \A p, q \in P : p < q => p + r.pieces[p] <= q
      /\ \A q \in P \ {r.head.seq} :
           r.head.seq < q /\ \E p \in P : p + r.pieces[p] = q

(* The pieces of an emitted buffer are a stretch of the TCP stream without *)
(* gap, overlap or stray byte: they start at the head's sequence number,   *)
(* no two overlap, and each later one begins where another one ends        *)
(* (check_completion and finalize_entry append "strictly contiguous        *)
(* bytes").                                                                *)
EmittedIsContiguous == \A r \in out : Tiled(r)

(* A record emitted with truncated = false holds every byte its header     *)
(* announces and is cut to exactly that length, whatever was buffered,     *)
(* merged or retransmitted before.                                         *)
UntruncatedIsWhole ==
  \A r \in out : ~r.truncated =>
    /\ r.cut = r.head.record_len + RecordHeader
    /\ \E p \in DOMAIN r.pieces : p + r.pieces[p] - r.head.seq >= r.cut

(* No entry stays in the table once the bytes from its head on make up the *)
(* record: every path that adds a fragment (new head, head merged into an  *)
(* orphan, continuation) notices completion in the same call.              *)
NoCompleteEntryPending ==
  \A k \in DOMAIN flows :
    LET e == flows[k]
    IN  (e.head # None /\ e.expected_total # None) =>
          ~Reaches(e.fragments, e.head.seq, e.expected_total)

(* An entry that never saw its head holds fewer fragments than the cap, so *)
(* continuations alone cannot grow an entry without bound.                 *)
OrphanBelowCap ==
  \A k \in DOMAIN flows :
    flows[k].head = None =>
      Cardinality(DOMAIN flows[k].fragments) < MaxSegments

(* The head of an entry is one of its fragments, it is filed under the     *)
(* key of its own flow, and the expected length is the one its header      *)
(* announces, however heads and continuations were merged.                 *)
HeadConsistent ==
  \A k \in DOMAIN flows :
    LET e == flows[k]
    IN  IF e.head = None THEN e.expected_total = None
        ELSE /\ e.head.key = k
             /\ e.head.seq \in DOMAIN e.fragments
             /\ e.expected_total = ExpectedTotal(e.head)

(* Every flow whose head was seen keeps its fragments, or its record is    *)
(* returned, or the table was full.                                        *)
KeepsHeads ==
  \A k \in DOMAIN flows :
    \/ flows[k].head = None
    \/ Cardinality(DOMAIN flows) >= MaxFlows
    \/ \E r \in out' : r.key = k
    \/ /\ k \in DOMAIN flows'
       /\ DOMAIN flows[k].fragments \subseteq DOMAIN flows'[k].fragments

(* A flow whose head was seen loses a buffered fragment only when its      *)
(* record is emitted in that very step or when the table is full and makes *)
(* room: no other path drops a headed reassembly silently.                 *)
NoSilentLoss == [][KeepsHeads]_vars

(***************************************************************************)
(* What the documentation says and the code does not keep.                 *)
(***************************************************************************)

(* "Bounded LRU: 1024 flows max": the table never outgrows max_flows.      *)
FlowLimit == Cardinality(DOMAIN flows) <= MaxFlows

(* "Remove least-recently-created flow if over limit": the flow that makes *)
(* room for a head is the oldest one.                                      *)
EvictsOldest ==
  [][\A c \in Captures : \A k \in DOMAIN flows :
       (InsertFragment(c) /\ k # c.key /\ k \notin DOMAIN flows') =>
         \A j \in DOMAIN flows : flows[j].age <= flows[k].age]_vars

(* "True if incomplete (gap, timeout, or segment cap); false if fully      *)
(* contiguous": a truncated record does not hold all of its bytes.         *)
TruncatedIsIncomplete ==
  \A r \in out : r.truncated =>
    \A p \in DOMAIN r.pieces :
      p + r.pieces[p] - r.head.seq < r.head.record_len + RecordHeader

(* The run from start in sequence space, where 0 follows 2^32 - 1.         *)
ContiguousModulo(fragments, start) ==
  {p \in DOMAIN fragments :
     \A T \in SUBSET DOMAIN fragments :
       (/\ start \in T
        /\ \A q \in T : NextSeq(fragments, q) \in DOMAIN fragments =>
             NextSeq(fragments, q) \in T) => p \in T}

(* "Walk fragments from head.seq, accumulating strictly contiguous bytes": *)
(* an entry whose contiguous bytes, counted across the wrap of the         *)
(* sequence numbers, make up its record has been completed by              *)
(* check_completion.                                                       *)
CompletesAcrossWrap ==
  \A k \in DOMAIN flows :
    LET e == flows[k]
    IN  (e.head # None /\ e.expected_total # None) =>
          MapThenSumSet(LAMBDA p : e.fragments[p],
                        ContiguousModulo(e.fragments, e.head.seq))
            < e.expected_total

(* "If there's an orphan entry (no head), merge into it; else create new": *)
(* a head that finds a headed entry starts over with its own fragment.     *)
HeadStartsFresh ==
  [][\A c \in Captures :
       (/\ InsertFragment(c)
        /\ c.key \in DOMAIN flows \cap DOMAIN flows'
        /\ flows[c.key].head # None) =>
         DOMAIN flows'[c.key].fragments = {c.seq}]_vars

(* "Per-entry cap of 4 x 4096 = 16 KB": no entry buffers more segments.    *)
SegmentCap ==
  \A k \in DOMAIN flows : Cardinality(DOMAIN flows[k].fragments) <= MaxSegments

=============================================================================
