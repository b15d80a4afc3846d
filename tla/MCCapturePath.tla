--------------------------- MODULE MCCapturePath ---------------------------
(* Instances of CapturePath.                                               *)
EXTENDS CapturePath, TLC

Start(k, s, n, total) == [key |-> k, seq |-> s, len |-> n, lead |-> "handshake",
                          record_len |-> total - RecordHeader]

Body(k, s, n) == [key |-> k, seq |-> s, len |-> n, lead |-> "other", record_len |-> 0]

(* Two segmented records in a row on one flow. *)
TwoRecords == <<Start(1, 0, 8, 14), Body(1, 8, 6), Start(1, 14, 8, 15), Body(1, 22, 7)>>

(* A record whose last segment carries three bytes, then another record. *)
ShortTail == <<Start(1, 0, 8, 11), Body(1, 8, 3), Start(1, 11, 8, 15), Body(1, 19, 7)>>

PacketsOf(w) == {w[i] : i \in DOMAIN w}
TwoRecordsPackets == PacketsOf(TwoRecords)
ShortTailPackets == PacketsOf(ShortTail)

=============================================================================
