------------------------------ MODULE MCNdjson ------------------------------
(* Instance of Ndjson for TLC. *)
EXTENDS Ndjson

=============================================================================
