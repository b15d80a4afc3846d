---------------------------- MODULE MCClassifier ----------------------------
(* Instances of Classifier: the segments of a few records.                 *)
EXTENDS Classifier, TLC

HeadPkt(k, s, n, total) == [key |-> k, seq |-> s, len |-> n, lead |-> "handshake",
                         record_len |-> total - RecordHeader]

Body(k, s, n) == [key |-> k, seq |-> s, len |-> n, lead |-> "other", record_len |-> 0]

Alert(k, s) == [key |-> k, seq |-> s, len |-> 7, lead |-> "alert", record_len |-> 2]

(* Each flow: the head of a record of 35 bytes, body segments that carry   *)
(* part of it, one that runs past its end and is cut by the scratch        *)
(* buffer, one too short to be captured, and an alert.                     *)
McPackets ==
  {HeadPkt(k, 0, 8, 35) : k \in Flows}
    \cup {Body(k, s, 6) : k \in Flows, s \in {8, 14}}
    \cup {Body(k, 32, 3) : k \in Flows}
    \cup {Body(k, 32, 30) : k \in Flows}
    \cup {Alert(k, 40) : k \in Flows}

CpuSymmetry == Permutations(Cpus)

=============================================================================
