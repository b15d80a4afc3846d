---------------------------- MODULE MCCorrelator ----------------------------
(* Instances of Correlator: connections are interchangeable.               *)
EXTENDS Correlator, TLC

ConnSymmetry == Permutations(Conns)

=============================================================================
