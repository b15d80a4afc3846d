---------------------------- MODULE FragmentWalk ----------------------------
(***************************************************************************)
(* The loop of check_completion and finalize_entry                         *)
(* (crates/tls-probe-cli/src/reasm.rs) over the BTreeMap of fragments, one *)
(* action per branch of its body, for every fragment map of a small        *)
(* sequence space: overlapping, duplicated, out of order and wrapping      *)
(* fragments included.                                                     *)
(***************************************************************************)
EXTENDS FragmentRun, FiniteSets, FiniteSetsExt, Sequences, Functions

CONSTANTS
  MaxFragments,  (* bound: fragments of an entry                        *)
  MaxLen         (* bound: length of a payload, below the sequence space *)

ASSUME WalkAssumption == MaxFragments \in Nat /\ MaxLen \in Nat /\ MaxLen < SeqMod

VARIABLES
  fragments,        (* entry.fragments                                  *)
  head_seq,         (* entry.head.seq                                   *)
  todo,             (* keys the iterator has not reached                *)
  next_seq,         (* where the next contiguous byte is                *)
  contiguous_bytes, (* length of the buffer                             *)
  buffer,           (* keys of the payloads appended, in order          *)
  done              (* the loop has ended                               *)

walkVars == <<fragments, head_seq, todo, next_seq, contiguous_bytes, buffer, done>>

FragmentMaps ==
  UNION {[D -> 1 .. MaxLen] : D \in {S \in SUBSET Seqs :
                                       Cardinality(S) \in 1 .. MaxFragments}}

(* The head's own fragment is always in the map (Reassembler's             *)
(* HeadConsistent).                                                        *)
WalkInit ==
  /\ fragments \in FragmentMaps
  /\ head_seq \in DOMAIN fragments
  /\ todo = DOMAIN fragments
  /\ next_seq = head_seq
  /\ contiguous_bytes = 0
  /\ buffer = <<>>
  /\ done = FALSE

AppendFragment(f) ==
  /\ f = next_seq
  /\ buffer' = Append(buffer, f)
  /\ contiguous_bytes' = contiguous_bytes + fragments[f]
  /\ next_seq' = (next_seq + fragments[f]) % SeqMod
  /\ todo' = todo \ {f}
  /\ UNCHANGED <<fragments, head_seq, done>>

GapStops(f) ==
  /\ f > next_seq
  /\ done' = TRUE
  /\ UNCHANGED <<fragments, head_seq, todo, next_seq, contiguous_bytes, buffer>>

(* Mutant: an earlier fragment ends the loop like a gap. *)
SkipFragment_Stops(f) ==
  /\ f < next_seq
  /\ done' = TRUE
  /\ UNCHANGED <<fragments, head_seq, todo, next_seq, contiguous_bytes, buffer>>

SkipFragment(f) ==
  /\ f < next_seq
  /\ todo' = todo \ {f}
  /\ UNCHANGED <<fragments, head_seq, next_seq, contiguous_bytes, buffer, done>>

Exhausted ==
  /\ todo = {}
  /\ done' = TRUE
  /\ UNCHANGED <<fragments, head_seq, todo, next_seq, contiguous_bytes, buffer>>

Iterate ==
  /\ todo # {}
  /\ LET f == Min(todo)
     IN  AppendFragment(f) \/ GapStops(f) \/ SkipFragment(f)

WalkNext == ~done /\ (Iterate \/ Exhausted)

WalkSpec == WalkInit /\ [][WalkNext]_walkVars

(***************************************************************************)
(* Properties                                                              *)
(***************************************************************************)

(* When the loop ends, the payloads appended are exactly the contiguous    *)
(* run that Reassembler is written with, and the byte count that the loop  *)
(* compares with expected_total reaches a total exactly when Reaches says  *)
(* so.                                                                     *)
ComputesRun ==
  done =>
    /\ {buffer[i] : i \in DOMAIN buffer} = ContiguousRun(fragments, head_seq)
    /\ \A total \in 0 .. MaxLen * MaxFragments + 1 :
         (contiguous_bytes >= total) <=> Reaches(fragments, head_seq, total)

=============================================================================
