---------------------------- MODULE MCServerMeter ----------------------------
(* Instances of ServerMeter for TLC. *)
EXTENDS ServerMeter, TLC

RequestSymmetry == Permutations(Requests)

=============================================================================
