---------------------------- MODULE FragmentRun ----------------------------
(***************************************************************************)
(* The run of fragments that the reassembler appends to its buffer: what   *)
(* the loop shared by check_completion and finalize_entry                  *)
(* (crates/tls-probe-cli/src/reasm.rs) computes.  FragmentWalk models the  *)
(* loop itself, step by step, and shows that it computes this.             *)
(*                                                                         *)
(* A fragment map takes the TCP sequence number of a segment to the length *)
(* of its payload.                                                         *)
(***************************************************************************)
EXTENDS Naturals

CONSTANT SeqMod  \* size of the TCP sequence space (2^32)

ASSUME SeqModAssumption == SeqMod \in Nat \ {0}

Seqs == 0 .. SeqMod - 1

(* m is a map with keys in S and values in T. *)
IsMap(m, S, T) == m \in [DOMAIN m -> T] /\ DOMAIN m \subseteq S

(* Payload lengths: not empty, and shorter than the sequence space. *)
Lens == 1 .. SeqMod - 1

(* tcp_seq -> payload, as the length of the payload. *)
IsFragments(f) == IsMap(f, Seqs, Lens)

(* next_seq after the fragment at p: u32 addition wraps. *)
NextSeq(fragments, p) == (p + fragments[p]) % SeqMod

(* Mutant: a gap does not stop the loop, the next fragment is appended.    *)
ClosedWalk_IgnoresGap(fragments, T) ==
  \A p \in T : \A n \in DOMAIN fragments : n > p => n \in T

(* A set of fragments the loop cannot leave: with each fragment it holds   *)
(* the one that starts at next_seq, when that comes later in the map's     *)
(* iteration order.  (Lower keys have been passed, a higher one is a gap.) *)
ClosedWalk(fragments, T) ==
  \A p \in T :
    LET n == NextSeq(fragments, p)
    IN  (n \in DOMAIN fragments /\ n > p) => n \in T

(* The fragments the loop appends, starting from the head: the smallest    *)
(* set with the head that the loop cannot leave.                           *)
ContiguousRun(fragments, start) ==
  {p \in DOMAIN fragments :
     \A T \in SUBSET DOMAIN fragments :
       (start \in T /\ ClosedWalk(fragments, T)) => p \in T}

(* contiguous_bytes >= expected_total: the run reaches the record's end. *)
Reaches(fragments, start, total) ==
  \E p \in ContiguousRun(fragments, start) :
    p + fragments[p] - start >= total

=============================================================================
