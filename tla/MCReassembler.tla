--------------------------- MODULE MCReassembler ---------------------------
(* Instances of Reassembler: the captures of a few segmented records.      *)
EXTENDS Reassembler

Fragment(k, s, n, total) ==
  [key |-> k, kind |-> "fragment", seq |-> s, len |-> n,
   record_len |-> total - RecordHeader]

Continuation(k, s, n) ==
  [key |-> k, kind |-> "continuation", seq |-> s, len |-> n, record_len |-> 0]

Whole(k, s) == [key |-> k, kind |-> "whole", seq |-> s, len |-> 9, record_len |-> 4]

(* Flow 1: a record of 3 segments whose last one runs into the next        *)
(* record, a retransmission of the middle with another length, a segment   *)
(* beyond it and the head of a later record.  Flow 2: a record of two      *)
(* segments.  Flow 3: a head whose rest never comes.                       *)
McCaptures ==
  {Fragment(1, 0, 8, 20), Continuation(1, 8, 6), Continuation(1, 14, 8),
   Continuation(1, 22, 6), Fragment(1, 28, 6, 12), Continuation(1, 8, 12),
   Fragment(2, 0, 6, 9), Continuation(2, 6, 6), Fragment(3, 0, 7, 14),
   Whole(2, 9)}

(* A record of two segments across the end of the sequence space. *)
WrapCaptures == {Fragment(1, SeqMod - 6, 6, 12), Continuation(1, 0, 6)}

(* Heads of successive records of one flow. *)
SuccessiveHeads == {Fragment(1, 12 * i, 8, 20) : i \in 0 .. MaxSegments}

=============================================================================
