------------------------- MODULE ReassemblerProofs -------------------------
(***************************************************************************)
(* The safety properties of Reassembler, for any sequence space, any set   *)
(* of captures and any limits.  The inductive invariant says of each entry *)
(* that it is well formed, not yet complete and within the orphan cap, and *)
(* of each returned record that it is a stretch of the stream.             *)
(***************************************************************************)
EXTENDS Reassembler, FiniteSetTheorems, TLAPS

(***************************************************************************)
(* What the reassembler's loop appends, for every fragment map: the run    *)
(* starts at the head, has no gap and no overlap.  ContiguousRun is the    *)
(* least set closed under the loop's step, so each fact is shown by        *)
(* exhibiting a closed set that has it.                                    *)
(***************************************************************************)

(* The run from a head that is buffered: it holds the head, the loop       *)
(* cannot leave it, and it lies in every other set with these properties.  *)
LEMMA RunIsLeastClosed ==
  ASSUME NEW f, NEW s \in DOMAIN f
  PROVE  /\ ContiguousRun(f, s) \subseteq DOMAIN f
         /\ s \in ContiguousRun(f, s)
         /\ ClosedWalk(f, ContiguousRun(f, s))
         /\ \A T \in SUBSET DOMAIN f :
              (s \in T /\ ClosedWalk(f, T)) => ContiguousRun(f, s) \subseteq T
  BY DEF ContiguousRun, ClosedWalk

(* A step that goes up does not wrap: the next fragment starts exactly     *)
(* where the payload ends.                                                 *)
LEMMA UpwardStep ==
  ASSUME NEW f, IsFragments(f), NEW p \in DOMAIN f, NextSeq(f, p) > p
  PROVE  NextSeq(f, p) = p + f[p]
<1>1. SeqMod \in Nat \ {0} /\ p \in 0 .. SeqMod - 1 /\ f[p] \in 1 .. SeqMod - 1
  BY SeqModAssumption DEF IsFragments, IsMap, Seqs, Lens
<1>2. ASSUME p + f[p] >= SeqMod PROVE FALSE
  <2>1. (p + f[p]) % SeqMod = p + f[p] - SeqMod
    BY <1>1, <1>2
  <2> QED BY <1>1, <2>1 DEF NextSeq
<1>3. (p + f[p]) % SeqMod = p + f[p]
  BY <1>1, <1>2
<1> QED BY <1>3 DEF NextSeq

(* No fragment before the head is appended. *)
LEMMA RunStartsAtHead ==
  ASSUME NEW f, IsFragments(f), NEW s \in DOMAIN f
  PROVE  \A p \in ContiguousRun(f, s) : s <= p
<1> DEFINE T == {p \in DOMAIN f : s <= p}
<1>1. DOMAIN f \subseteq Nat
  BY SeqModAssumption DEF IsFragments, IsMap, Seqs
<1>2. s \in T
  BY <1>1
<1>3. ClosedWalk(f, T)
  <2> SUFFICES ASSUME NEW p \in T, NextSeq(f, p) \in DOMAIN f, NextSeq(f, p) > p
               PROVE  NextSeq(f, p) \in T
    BY DEF ClosedWalk
  <2> QED BY <1>1
<1>4. T \in SUBSET DOMAIN f
  OBVIOUS
<1>5. ContiguousRun(f, s) \subseteq T
  BY <1>2, <1>3, <1>4, RunIsLeastClosed
<1> QED BY <1>5

(* Every appended fragment but the head begins where another one ends. *)
LEMMA RunHasNoGap ==
  ASSUME NEW f, IsFragments(f), NEW s \in DOMAIN f,
         NEW q \in ContiguousRun(f, s) \ {s}
  PROVE  \E p \in ContiguousRun(f, s) : p + f[p] = q
<1> DEFINE C == ContiguousRun(f, s)
           T == C \ {q}
<1>1. SUFFICES ASSUME \A p \in C : p + f[p] # q PROVE FALSE
  OBVIOUS
<1>2. C \subseteq DOMAIN f /\ ClosedWalk(f, C) /\ s \in C
  BY RunIsLeastClosed
<1>3. ClosedWalk(f, T)
  <2> SUFFICES ASSUME NEW p \in T, NextSeq(f, p) \in DOMAIN f, NextSeq(f, p) > p
               PROVE  NextSeq(f, p) \in T
    BY DEF ClosedWalk
  <2>1. NextSeq(f, p) \in C
    BY <1>2 DEF ClosedWalk
  <2>2. NextSeq(f, p) = p + f[p]
    BY <1>2, UpwardStep
  <2> QED BY <1>1, <2>1, <2>2
<1>4. C \subseteq T
  BY <1>2, <1>3, RunIsLeastClosed
<1> QED BY <1>4

(* No two appended fragments overlap.  A fragment is normal when those     *)
(* appended before it end at or before its start; around a normal fragment *)
(* the run leaves out the inside of its payload, so the next one is normal *)
(* as well.                                                                *)
LEMMA RunHasNoOverlap ==
  ASSUME NEW f, IsFragments(f), NEW s \in DOMAIN f
  PROVE  \A p, q \in ContiguousRun(f, s) : p < q => p + f[p] <= q
<1> DEFINE C == ContiguousRun(f, s)
           Normal == {q \in C : \A p \in C : p < q => p + f[p] <= q}
           Around(q) == {p \in C : p <= q \/ p >= q + f[q]}
<1>1. DOMAIN f \subseteq Nat /\ \A p \in DOMAIN f : f[p] \in Nat
  BY SeqModAssumption DEF IsFragments, IsMap, Seqs, Lens
<1>2. C \subseteq DOMAIN f /\ ClosedWalk(f, C) /\ s \in C
  BY RunIsLeastClosed
<1>3. \A p \in C : s <= p
  BY RunStartsAtHead
<1>4. \A p \in C : NextSeq(f, p) \in DOMAIN f /\ NextSeq(f, p) > p =>
        NextSeq(f, p) \in C /\ NextSeq(f, p) = p + f[p]
  BY <1>2, UpwardStep DEF ClosedWalk
<1>5. ASSUME NEW q \in Normal PROVE C \subseteq Around(q)
  <2>1. s \in Around(q)
    BY <1>2, <1>3
  <2>2. ClosedWalk(f, Around(q))
    <3> SUFFICES ASSUME NEW p \in Around(q), NextSeq(f, p) \in DOMAIN f,
                        NextSeq(f, p) > p
                 PROVE  NextSeq(f, p) \in Around(q)
      BY DEF ClosedWalk
    <3>1. NextSeq(f, p) \in C /\ NextSeq(f, p) = p + f[p]
      BY <1>4
    <3>2. p \in Nat /\ q \in Nat /\ f[p] \in Nat /\ f[q] \in Nat
      BY <1>1, <1>2
    <3>3. CASE p < q
      BY <3>1, <3>2, <3>3
    <3>4. CASE p = q
      BY <3>1, <3>2, <3>4
    <3>5. CASE p >= q + f[q]
      BY <3>1, <3>2, <3>5
    <3> QED BY <3>2, <3>3, <3>4, <3>5
  <2>3. Around(q) \in SUBSET DOMAIN f
    BY <1>2
  <2> QED BY <2>1, <2>2, <2>3, RunIsLeastClosed
<1>6. ClosedWalk(f, Normal)
  <2> SUFFICES ASSUME NEW q \in Normal, NextSeq(f, q) \in DOMAIN f,
                      NextSeq(f, q) > q
               PROVE  NextSeq(f, q) \in Normal
    BY DEF ClosedWalk
  <2>1. NextSeq(f, q) \in C /\ NextSeq(f, q) = q + f[q]
    BY <1>4
  <2>2. ASSUME NEW p \in C, p < q + f[q] PROVE p + f[p] <= q + f[q]
    <3>1. p \in Nat /\ q \in Nat /\ f[p] \in Nat /\ f[q] \in Nat
      BY <1>1, <1>2
    <3>2. p <= q
      BY <1>5, <2>2, <3>1
    <3>3. p < q => p + f[p] <= q
      OBVIOUS
    <3> QED BY <3>1, <3>2, <3>3
  <2> QED BY <2>1, <2>2
<1>7. s \in Normal
  BY <1>1, <1>2, <1>3
<1>8. Normal \in SUBSET DOMAIN f
  BY <1>2
<1>9. C \subseteq Normal
  BY <1>6, <1>7, <1>8, RunIsLeastClosed
<1> QED BY <1>9

(***************************************************************************)
(* The inductive invariant, entry by entry and record by record            *)
(***************************************************************************)

HeadOK(k, e) ==
  IF e.head = None THEN e.expected_total = None
  ELSE /\ e.head.key = k
       /\ e.head.seq \in DOMAIN e.fragments
       /\ e.expected_total = ExpectedTotal(e.head)

(* An entry as insert() leaves it before it looks at completion and caps. *)
Formed(k, e) == IsEntry(e) /\ HeadOK(k, e)

Incomplete(e) ==
  (e.head # None /\ e.expected_total # None) =>
    ~Reaches(e.fragments, e.head.seq, e.expected_total)

Capped(e) == e.head = None => Cardinality(DOMAIN e.fragments) < MaxSegments

EntryOK(k, e) == Formed(k, e) /\ Incomplete(e) /\ Capped(e)

IsTable(m) == m = [k \in DOMAIN m |-> m[k]] /\ DOMAIN m \subseteq Keys

TableOK(m) == IsTable(m) /\ \A k \in DOMAIN m : EntryOK(k, m[k])

Whole(r) ==
  ~r.truncated =>
    /\ r.cut = r.head.record_len + RecordHeader
    /\ \E p \in DOMAIN r.pieces : p + r.pieces[p] - r.head.seq >= r.cut

RecordOK(r) == IsAssembledRecord(r) /\ Tiled(r) /\ Whole(r)

Inv == TableOK(flows) /\ \A r \in out : RecordOK(r)

ResultOK(res) == TableOK(res.flows) /\ \A r \in res.out : RecordOK(r)

(***************************************************************************)
(* Lemmas about the operators                                              *)
(***************************************************************************)

(* The invariant is the conjunction of the checked properties. *)
LEMMA InvImplies ==
  Inv => /\ TypeOK /\ HeadConsistent /\ NoCompleteEntryPending
         /\ OrphanBelowCap /\ EmittedIsContiguous /\ UntruncatedIsWhole
<1> SUFFICES ASSUME Inv
             PROVE  /\ TypeOK /\ HeadConsistent /\ NoCompleteEntryPending
                    /\ OrphanBelowCap /\ EmittedIsContiguous /\ UntruncatedIsWhole
  OBVIOUS
<1>1. TypeOK
  BY DEF Inv, TableOK, IsTable, EntryOK, Formed, RecordOK, TypeOK
<1>2. HeadConsistent
  BY DEF Inv, TableOK, EntryOK, Formed, HeadOK, HeadConsistent
<1>3. NoCompleteEntryPending
  BY DEF Inv, TableOK, EntryOK, Incomplete, NoCompleteEntryPending
<1>4. OrphanBelowCap
  BY DEF Inv, TableOK, EntryOK, Capped, OrphanBelowCap
<1>5. EmittedIsContiguous
  BY DEF Inv, RecordOK, EmittedIsContiguous
<1>6. UntruncatedIsWhole
  BY DEF Inv, RecordOK, Whole, UntruncatedIsWhole
<1> QED BY <1>1, <1>2, <1>3, <1>4, <1>5, <1>6

(* A fragment map with one more fragment is a fragment map. *)
LEMMA WithIsFragments ==
  ASSUME NEW f, IsFragments(f), NEW s \in Seqs, NEW n \in Lens
  PROVE  IsFragments(With(f, s, n))
  BY DEF IsFragments, IsMap, With

(* A map of a single fragment is a fragment map. *)
LEMMA SingletonIsFragments ==
  ASSUME NEW s \in Seqs, NEW n \in Lens
  PROVE  IsFragments([x \in {s} |-> n])
  BY DEF IsFragments, IsMap

(* An entry's fragments are finitely many. *)
LEMMA FragmentsFinite ==
  ASSUME NEW f, IsFragments(f)
  PROVE  IsFiniteSet(DOMAIN f) /\ Cardinality(DOMAIN f) \in Nat
<1>1. IsFiniteSet(Seqs)
  BY SeqModAssumption, FS_Interval DEF Seqs
<1>2. DOMAIN f \subseteq Seqs
  BY DEF IsFragments, IsMap
<1> QED BY <1>1, <1>2, FS_Subset, FS_CardinalityType

(* The payloads appended for a well-formed entry tile a stretch of the     *)
(* stream that starts at the head.                                         *)
LEMMA PiecesAreTiled ==
  ASSUME NEW k, NEW e, Formed(k, e), e.head # None
  PROVE  /\ IsFragments(Pieces(e))
         /\ e.head \in Captures
         /\ \A r : (r.pieces = Pieces(e) /\ r.head = e.head) => Tiled(r)
         /\ DOMAIN Pieces(e) = ContiguousRun(e.fragments, e.head.seq)
         /\ \A p \in DOMAIN Pieces(e) : Pieces(e)[p] = e.fragments[p]
<1> DEFINE f == e.fragments
           s == e.head.seq
           C == ContiguousRun(f, s)
<1>1. IsFragments(f) /\ s \in DOMAIN f /\ e.head \in Captures
  BY DEF Formed, HeadOK, IsEntry
<1>2. /\ DOMAIN Pieces(e) = C
      /\ \A p \in C : Pieces(e)[p] = f[p]
      /\ Pieces(e) = [p \in C |-> f[p]]
  BY DEF Pieces, Restrict
<1>3. C \subseteq DOMAIN f /\ s \in C
  BY <1>1, RunIsLeastClosed
<1>4. IsFragments(Pieces(e))
  BY <1>1, <1>2, <1>3 DEF IsFragments, IsMap
<1>5. \A p, q \in C : p < q => p + f[p] <= q
  BY <1>1, RunHasNoOverlap
<1>6. \A q \in C \ {s} : s < q /\ \E p \in C : p + f[p] = q
  <2>1. DOMAIN f \subseteq Nat
    BY <1>1, SeqModAssumption DEF IsFragments, IsMap, Seqs
  <2>2. \A q \in C : s <= q
    BY <1>1, RunStartsAtHead
  <2>3. \A q \in C \ {s} : \E p \in C : p + f[p] = q
    BY <1>1, RunHasNoGap
  <2> QED BY <1>3, <2>1, <2>2, <2>3
<1>7. ASSUME NEW r, r.pieces = Pieces(e), r.head = e.head PROVE Tiled(r)
  BY <1>2, <1>3, <1>5, <1>6, <1>7 DEF Tiled
<1> QED BY <1>1, <1>2, <1>4, <1>7

(* Looking for completion after one entry changed: either that entry is    *)
(* returned whole, or it is incomplete and stays.                          *)
LEMMA CheckCompletionOK ==
  ASSUME NEW m, IsTable(m), NEW k \in DOMAIN m,
         \A j \in DOMAIN m \ {k} : EntryOK(j, m[j]),
         Formed(k, m[k]), Capped(m[k])
  PROVE  ResultOK(CheckCompletion(m, k))
<1> DEFINE e == m[k]
           rec == [key |-> k, head |-> e.head, pieces |-> Pieces(e),
                   cut |-> e.expected_total, truncated |-> FALSE]
           Done == /\ e.head # None
                   /\ e.expected_total # None
                   /\ Reaches(e.fragments, e.head.seq, e.expected_total)
<1>1. CASE Done
  <2>1. CheckCompletion(m, k) = [flows |-> Without(m, {k}), out |-> {rec}]
    BY <1>1 DEF CheckCompletion
  <2>2. TableOK(Without(m, {k}))
    BY DEF TableOK, IsTable, Without, Restrict
  <2>3. /\ IsFragments(Pieces(e)) /\ e.head \in Captures /\ Tiled(rec)
        /\ DOMAIN Pieces(e) = ContiguousRun(e.fragments, e.head.seq)
        /\ \A p \in DOMAIN Pieces(e) : Pieces(e)[p] = e.fragments[p]
    BY <1>1, PiecesAreTiled
  <2>4. e.expected_total = e.head.record_len + RecordHeader
    BY <1>1 DEF Formed, HeadOK, ExpectedTotal
  <2>5. e.expected_total \in Nat
    BY <1>1 DEF Formed, IsEntry
  <2>6. IsAssembledRecord(rec)
    BY <2>3, <2>5 DEF IsAssembledRecord, IsTable
  <2>7. Whole(rec)
    BY <1>1, <2>3, <2>4 DEF Whole, Reaches
  <2>8. RecordOK(rec)
    BY <2>3, <2>6, <2>7 DEF RecordOK
  <2> HIDE DEF rec
  <2> QED BY <2>1, <2>2, <2>8 DEF ResultOK
<1>2. CASE ~Done
  <2>1. CheckCompletion(m, k) = [flows |-> m, out |-> {}]
    BY <1>2 DEF CheckCompletion
  <2>2. EntryOK(k, e)
    BY <1>2 DEF EntryOK, Incomplete
  <2> QED BY <2>1, <2>2 DEF ResultOK, TableOK
<1> QED BY <1>1, <1>2

(* Finalizing the entries of K: each one with a head is returned as a      *)
(* truncated record.                                                       *)
LEMMA FinalizeEntriesOK ==
  ASSUME NEW m, IsTable(m), NEW K \in SUBSET DOMAIN m,
         \A j \in DOMAIN m \ K : EntryOK(j, m[j]),
         \A j \in K : Formed(j, m[j])
  PROVE  ResultOK(FinalizeEntries(m, K))
<1>1. TableOK(Without(m, K))
  BY DEF TableOK, IsTable, Without, Restrict
<1>2. ASSUME NEW r \in Finalized(m, K) PROVE RecordOK(r)
  <2>1. PICK k \in K :
          /\ m[k].head # None
          /\ r = [key |-> k, head |-> m[k].head, pieces |-> Pieces(m[k]),
                  cut |-> None, truncated |-> TRUE]
    BY <1>2 DEF Finalized
  <2>2. IsFragments(Pieces(m[k])) /\ m[k].head \in Captures /\ Tiled(r)
    BY <2>1, PiecesAreTiled
  <2>3. IsAssembledRecord(r)
    BY <2>1, <2>2 DEF IsAssembledRecord, IsTable
  <2>4. Whole(r)
    BY <2>1 DEF Whole
  <2> QED BY <2>2, <2>3, <2>4 DEF RecordOK
<1> QED BY <1>1, <1>2 DEF ResultOK, FinalizeEntries

(* Making room only removes entries. *)
LEMMA CleanupOK ==
  ASSUME NEW m, TableOK(m)
  PROVE  TableOK(CleanupIfOverLimit(m))
  BY DEF CleanupIfOverLimit, TableOK, IsTable, Without, Restrict

(* The entry a head makes or merges into. *)
LEMMA HeadEntryFormed ==
  ASSUME NEW m, TableOK(m), NEW c \in Captures
  PROVE  Formed(c.key, HeadEntry(m, c)) /\ Capped(HeadEntry(m, c))
<1> DEFINE e == HeadEntry(m, c)
           f == IF c.key \in DOMAIN m THEN m[c.key].fragments ELSE [s \in {} |-> 0]
<1>1. /\ c \in Capture /\ c.key \in Keys /\ c.seq \in Seqs /\ c.len \in Lens
      /\ c.record_len \in Nat /\ c # None
  BY ReassemblerAssumption DEF Capture
<1>2. IsFragments(f)
  BY DEF TableOK, EntryOK, Formed, IsEntry, IsFragments, IsMap
<1>3. IsFragments(With(f, c.seq, c.len)) /\ c.seq \in DOMAIN With(f, c.seq, c.len)
  <2>1. IsFragments(With(f, c.seq, c.len))
    BY <1>1, <1>2, WithIsFragments
  <2>2. c.seq \in DOMAIN With(f, c.seq, c.len)
    BY DEF With
  <2> QED BY <2>1, <2>2
<1>4. c.len \in Nat /\ ExpectedTotal(c) \in Nat \cup {None}
  BY <1>1, SeqModAssumption DEF ExpectedTotal, RecordHeader, Lens
<1>5. (IF c.key \in DOMAIN m THEN m[c.key].age ELSE 0) \in 0 .. Timeout
  <2>1. c.key \in DOMAIN m => m[c.key].age \in 0 .. Timeout
    BY DEF TableOK, EntryOK, Formed, IsEntry
  <2> QED BY <2>1, ReassemblerAssumption
<1>6. IsEntry(e)
  BY <1>3, <1>4, <1>5 DEF IsEntry, HeadEntry
<1>7. HeadOK(c.key, e)
  BY <1>1, <1>3 DEF HeadOK, HeadEntry
<1> QED BY <1>1, <1>6, <1>7 DEF Formed, Capped, HeadEntry

(* The entry a continuation makes or extends. *)
LEMMA ContinuationEntryFormed ==
  ASSUME NEW m, TableOK(m), NEW c \in Captures
  PROVE  Formed(c.key, ContinuationEntry(m, c))
<1> DEFINE e == ContinuationEntry(m, c)
<1>1. c \in Capture /\ c.key \in Keys /\ c.seq \in Seqs /\ c.len \in Lens
  BY ReassemblerAssumption DEF Capture
<1>2. CASE c.key \in DOMAIN m
  <2> DEFINE o == m[c.key]
  <2>1. Formed(c.key, o) /\ IsEntry(o) /\ HeadOK(c.key, o)
    BY <1>2 DEF TableOK, EntryOK, Formed
  <2>2. e = [o EXCEPT !.fragments = With(o.fragments, c.seq, c.len)]
    BY <1>2 DEF ContinuationEntry
  <2>3. /\ IsFragments(With(o.fragments, c.seq, c.len))
        /\ DOMAIN o.fragments \subseteq DOMAIN With(o.fragments, c.seq, c.len)
    BY <1>1, <2>1, WithIsFragments DEF IsEntry, With
  <2>4. /\ e.fragments = With(o.fragments, c.seq, c.len)
        /\ e.head = o.head /\ e.age = o.age /\ e.expected_total = o.expected_total
        /\ e = [fragments |-> e.fragments, age |-> e.age, head |-> e.head,
                expected_total |-> e.expected_total]
    BY <2>1, <2>2 DEF IsEntry
  <2>5. IsEntry(e)
    BY <2>1, <2>3, <2>4 DEF IsEntry
  <2>6. HeadOK(c.key, e)
    BY <2>1, <2>3, <2>4 DEF HeadOK
  <2> QED BY <2>5, <2>6 DEF Formed
<1>3. CASE c.key \notin DOMAIN m
  <2>1. e = [fragments |-> [s \in {c.seq} |-> c.len], age |-> 0,
             head |-> None, expected_total |-> None]
    BY <1>3 DEF ContinuationEntry
  <2>2. 0 \in 0 .. Timeout
    BY ReassemblerAssumption
  <2>3. IsFragments(e.fragments)
    <3>1. IsFragments([s \in {c.seq} |-> c.len])
      BY <1>1, SingletonIsFragments
    <3>2. e.fragments = [s \in {c.seq} |-> c.len]
      BY <2>1
    <3> QED BY <3>1, <3>2
  <2>4. IsEntry(e)
    BY <2>1, <2>2, <2>3 DEF IsEntry
  <2> QED BY <2>1, <2>4 DEF Formed, HeadOK
<1> QED BY <1>2, <1>3

(* A head leaves the table and the returned records in order. *)
LEMMA FragmentResultOK ==
  ASSUME NEW m, TableOK(m), NEW c \in Captures
  PROVE  ResultOK(FragmentResult(m, c))
<1> DEFINE kept == CleanupIfOverLimit(m)
           n == With(kept, c.key, HeadEntry(kept, c))
<1>1. TableOK(kept)
  BY CleanupOK
<1>2. Formed(c.key, HeadEntry(kept, c)) /\ Capped(HeadEntry(kept, c))
  BY <1>1, HeadEntryFormed
<1>3. c.key \in Keys
  BY ReassemblerAssumption DEF Capture
<1>4. IsTable(n) /\ c.key \in DOMAIN n /\ n[c.key] = HeadEntry(kept, c)
  BY <1>1, <1>3 DEF TableOK, IsTable, With
<1>5. \A j \in DOMAIN n \ {c.key} : EntryOK(j, n[j])
  BY <1>1 DEF TableOK, With
<1>6. ResultOK(CheckCompletion(n, c.key))
  BY <1>2, <1>4, <1>5, CheckCompletionOK
<1> QED BY <1>6 DEF FragmentResult

(* A continuation leaves the table and the returned records in order. *)
LEMMA ContinuationResultOK ==
  ASSUME NEW m, TableOK(m), NEW c \in Captures
  PROVE  ResultOK(ContinuationResult(m, c))
<1> DEFINE e == ContinuationEntry(m, c)
           n == With(m, c.key, e)
           Over == \/ Cardinality(DOMAIN e.fragments) >= MaxSegments
                   \/ e.age >= Timeout
<1>1. Formed(c.key, e)
  BY ContinuationEntryFormed
<1>2. c.key \in Keys
  BY ReassemblerAssumption DEF Capture
<1>3. IsTable(n) /\ c.key \in DOMAIN n /\ n[c.key] = e
  BY <1>2 DEF TableOK, IsTable, With
<1>4. \A j \in DOMAIN n \ {c.key} : EntryOK(j, n[j])
  BY DEF TableOK, With
<1>5. CASE Over
  <2>1. {c.key} \in SUBSET DOMAIN n
    BY <1>3
  <2>2. \A j \in {c.key} : Formed(j, n[j])
    BY <1>1, <1>3
  <2>3. ResultOK(FinalizeEntries(n, {c.key}))
    BY <1>3, <1>4, <2>1, <2>2, FinalizeEntriesOK
  <2> QED BY <1>5, <2>3 DEF ContinuationResult
<1>6. CASE ~Over
  <2>1. Cardinality(DOMAIN e.fragments) \in Nat
    BY <1>1, FragmentsFinite DEF Formed, IsEntry
  <2>2. Capped(n[c.key])
    BY <1>3, <1>6, <2>1, ReassemblerAssumption DEF Capped
  <2>3. ResultOK(CheckCompletion(n, c.key))
    BY <1>1, <1>3, <1>4, <2>2, CheckCompletionOK
  <2> QED BY <1>6, <2>3 DEF ContinuationResult
<1> QED BY <1>5, <1>6

(* Growing older changes nothing but the age. *)
LEMMA OlderOK ==
  ASSUME NEW k, NEW e, EntryOK(k, e)
  PROVE  EntryOK(k, Older(e))
<1> DEFINE o == Older(e)
<1>1. IsEntry(e)
  BY DEF EntryOK, Formed
<1>2. /\ o.fragments = e.fragments /\ o.head = e.head
      /\ o.expected_total = e.expected_total
      /\ o.age = (IF e.age < Timeout THEN e.age + 1 ELSE e.age)
      /\ o = [fragments |-> o.fragments, age |-> o.age, head |-> o.head,
              expected_total |-> o.expected_total]
  BY <1>1 DEF IsEntry, Older
<1>3. o.age \in 0 .. Timeout
  BY <1>1, <1>2, ReassemblerAssumption DEF IsEntry
<1>4. IsEntry(o)
  BY <1>1, <1>2, <1>3 DEF IsEntry
<1> QED BY <1>2, <1>4 DEF EntryOK, Formed, HeadOK, Incomplete, Capped

(***************************************************************************)
(* The invariant                                                           *)
(***************************************************************************)

(* The empty table and no record. *)
LEMMA InitInv == Init => Inv
  BY DEF Init, Inv, TableOK, IsTable

(* Every call to the reassembler preserves the invariant. *)
LEMMA NextInv == Inv /\ [Next]_vars => Inv'
<1> SUFFICES ASSUME Inv, [Next]_vars PROVE Inv'
  OBVIOUS
<1>1. ASSUME NEW res, Returns(res), ResultOK(res) PROVE Inv'
  BY <1>1 DEF Returns, ResultOK, Inv
<1>2. TableOK(flows)
  BY DEF Inv
<1>3. ASSUME NEW c \in Captures, InsertWhole(c) PROVE Inv'
  BY <1>2, <1>3 DEF InsertWhole, Inv
<1>4. ASSUME NEW c \in Captures, InsertFragment(c) PROVE Inv'
  BY <1>1, <1>2, <1>4, FragmentResultOK DEF InsertFragment
<1>5. ASSUME NEW c \in Captures, InsertDuplicate(c) PROVE Inv'
  BY <1>2, <1>5 DEF InsertDuplicate, Inv
<1>6. ASSUME NEW c \in Captures, InsertContinuation(c) PROVE Inv'
  BY <1>1, <1>2, <1>6, ContinuationResultOK DEF InsertContinuation
<1>7. CASE SweepExpired
  <2>1. Expired(flows) \in SUBSET DOMAIN flows
    BY DEF Expired
  <2>2. ResultOK(FinalizeEntries(flows, Expired(flows)))
    BY <1>2, <2>1, FinalizeEntriesOK DEF TableOK, EntryOK
  <2> QED BY <1>1, <1>7, <2>2 DEF SweepExpired
<1>8. CASE Tick
  <2>1. TableOK(flows')
    BY <1>2, <1>8, OlderOK DEF Tick, TableOK, IsTable
  <2> QED BY <1>8, <2>1 DEF Tick, Inv
<1>9. CASE UNCHANGED vars
  BY <1>9 DEF Inv, vars
<1> QED BY <1>3, <1>4, <1>5, <1>6, <1>7, <1>8, <1>9 DEF Next

(* The inductive invariant holds however the calls to insert and           *)
(* sweep_expired are ordered.                                              *)
THEOREM InvHolds == Spec => []Inv
  BY InitInv, NextInv, PTL DEF Spec

(* Every entry and every returned record is well formed. *)
THEOREM TypeCorrect == Spec => []TypeOK
  BY InvHolds, InvImplies, PTL

(* Whatever check_completion and finalize_entry return is a stretch of the *)
(* TCP stream that starts at the head, without gap or overlap.             *)
THEOREM EmittedContiguous == Spec => []EmittedIsContiguous
  BY InvHolds, InvImplies, PTL

(* A record returned as not truncated has all the bytes of its header's    *)
(* length.                                                                 *)
THEOREM UntruncatedWhole == Spec => []UntruncatedIsWhole
  BY InvHolds, InvImplies, PTL

(* No complete record stays in the table. *)
THEOREM NoCompletePending == Spec => []NoCompleteEntryPending
  BY InvHolds, InvImplies, PTL

(* Entries without a head stay below the segment cap. *)
THEOREM OrphansCapped == Spec => []OrphanBelowCap
  BY InvHolds, InvImplies, PTL

(* The head of an entry is one of its own fragments. *)
THEOREM HeadsConsistent == Spec => []HeadConsistent
  BY InvHolds, InvImplies, PTL

(***************************************************************************)
(* No silent loss                                                          *)
(***************************************************************************)

(* check_completion removes no entry but the one whose record it returns. *)
LEMMA CheckCompletionKeeps ==
  ASSUME NEW m, NEW k \in DOMAIN m, NEW j \in DOMAIN m
  PROVE  LET res == CheckCompletion(m, k)
         IN  \/ \E r \in res.out : r.key = j
             \/ j \in DOMAIN res.flows /\ res.flows[j] = m[j]
  BY DEF CheckCompletion, Without, Restrict

(* finalize_entry returns a record for each entry with a head. *)
LEMMA FinalizeKeeps ==
  ASSUME NEW m, NEW K \in SUBSET DOMAIN m, NEW j \in DOMAIN m
  PROVE  LET res == FinalizeEntries(m, K)
         IN  \/ m[j].head = None
             \/ \E r \in res.out : r.key = j
             \/ j \in DOMAIN res.flows /\ res.flows[j] = m[j]
<1> DEFINE rec(k) == [key |-> k, head |-> m[k].head, pieces |-> Pieces(m[k]),
                      cut |-> None, truncated |-> TRUE]
<1>1. FinalizeEntries(m, K).out = {rec(k) : k \in {i \in K : m[i].head # None}}
  BY DEF FinalizeEntries, Finalized
<1>2. CASE j \in K /\ m[j].head # None
  <2>1. rec(j) \in FinalizeEntries(m, K).out
    BY <1>1, <1>2
  <2>2. rec(j).key = j
    OBVIOUS
  <2> QED BY <2>1, <2>2
<1>3. CASE j \notin K
  BY <1>3 DEF FinalizeEntries, Without, Restrict
<1> QED BY <1>2, <1>3

(* No call drops the fragments of a headed entry unless the table is full. *)
LEMMA StepKeepsHeads == Inv /\ [Next]_vars => [KeepsHeads]_vars
<1> SUFFICES ASSUME Inv, Next, NEW k \in DOMAIN flows, flows[k].head # None,
                    ~(Cardinality(DOMAIN flows) >= MaxFlows)
             PROVE  \/ \E r \in out' : r.key = k
                    \/ /\ k \in DOMAIN flows'
                       /\ DOMAIN flows[k].fragments \subseteq DOMAIN flows'[k].fragments
  BY DEF KeepsHeads
<1>1. IsEntry(flows[k]) /\ TableOK(flows)
  BY DEF Inv, TableOK, EntryOK, Formed
<1>2. ASSUME NEW c \in Captures, InsertWhole(c) \/ InsertDuplicate(c)
      PROVE  flows' = flows
  BY <1>2 DEF InsertWhole, InsertDuplicate
<1>3. ASSUME NEW c \in Captures, InsertFragment(c)
      PROVE  \/ \E r \in out' : r.key = k
             \/ /\ k \in DOMAIN flows'
                /\ DOMAIN flows[k].fragments \subseteq DOMAIN flows'[k].fragments
  <2> DEFINE n == With(flows, c.key, HeadEntry(flows, c))
  <2>1. CleanupIfOverLimit(flows) = flows
    BY DEF CleanupIfOverLimit
  <2>2. flows' = CheckCompletion(n, c.key).flows /\ out' = CheckCompletion(n, c.key).out
    BY <1>3, <2>1 DEF InsertFragment, FragmentResult, Returns
  <2>3. k \in DOMAIN n /\ c.key \in DOMAIN n
    BY DEF With
  <2>4. DOMAIN flows[k].fragments \subseteq DOMAIN n[k].fragments
    BY DEF With, HeadEntry
  <2> HIDE DEF n
  <2> QED BY <2>2, <2>3, <2>4, CheckCompletionKeeps
<1>4. ASSUME NEW c \in Captures, InsertContinuation(c)
      PROVE  \/ \E r \in out' : r.key = k
             \/ /\ k \in DOMAIN flows'
                /\ DOMAIN flows[k].fragments \subseteq DOMAIN flows'[k].fragments
  <2> DEFINE n == With(flows, c.key, ContinuationEntry(flows, c))
  <2>1. k \in DOMAIN n /\ c.key \in DOMAIN n
    BY DEF With
  <2>2. /\ DOMAIN flows[k].fragments \subseteq DOMAIN n[k].fragments
        /\ n[k].head # None
    <3>1. CASE k = c.key
      <4>1. n[k] = [flows[k] EXCEPT !.fragments = With(flows[k].fragments, c.seq, c.len)]
        BY <3>1 DEF With, ContinuationEntry
      <4>2. /\ n[k].fragments = With(flows[k].fragments, c.seq, c.len)
            /\ n[k].head = flows[k].head
        BY <1>1, <4>1 DEF IsEntry
      <4> QED BY <4>2 DEF With
    <3>2. CASE k # c.key
      BY <3>2 DEF With
    <3> QED BY <3>1, <3>2
  <2>3. CASE /\ flows' = FinalizeEntries(n, {c.key}).flows
             /\ out' = FinalizeEntries(n, {c.key}).out
    <3> HIDE DEF n
    <3>1. {c.key} \in SUBSET DOMAIN n
      BY <2>1
    <3>2. \/ n[k].head = None
          \/ \E r \in FinalizeEntries(n, {c.key}).out : r.key = k
          \/ /\ k \in DOMAIN FinalizeEntries(n, {c.key}).flows
             /\ FinalizeEntries(n, {c.key}).flows[k] = n[k]
      BY <2>1, <3>1, FinalizeKeeps
    <3> QED BY <2>2, <2>3, <3>2, ZenonT(60)
  <2>4. CASE /\ flows' = CheckCompletion(n, c.key).flows
             /\ out' = CheckCompletion(n, c.key).out
    <3> HIDE DEF n
    <3> QED BY <2>1, <2>2, <2>4, CheckCompletionKeeps
  <2>5. Returns(FinalizeEntries(n, {c.key})) \/ Returns(CheckCompletion(n, c.key))
    BY <1>4 DEF InsertContinuation, ContinuationResult
  <2> QED BY <2>3, <2>4, <2>5 DEF Returns
<1>5. CASE SweepExpired
  <2>1. Expired(flows) \in SUBSET DOMAIN flows
    BY DEF Expired
  <2> QED BY <1>5, <2>1, FinalizeKeeps DEF SweepExpired, Returns
<1>6. CASE Tick
  <2>1. flows'[k] = Older(flows[k]) /\ k \in DOMAIN flows'
    BY <1>6 DEF Tick
  <2>2. Older(flows[k]).fragments = flows[k].fragments
    BY <1>1 DEF IsEntry, Older
  <2> QED BY <2>1, <2>2
<1> QED BY <1>2, <1>3, <1>4, <1>5, <1>6 DEF Next

(* A headed entry loses fragments only when its record is returned or the  *)
(* table is full.                                                          *)
THEOREM LosesNothingSilently == Spec => NoSilentLoss
  BY InvHolds, StepKeepsHeads, PTL DEF Spec, NoSilentLoss

=============================================================================
