--------------------------- MODULE MCSqliteStore ---------------------------
(* Instances of SqliteStore for TLC. *)
EXTENDS SqliteStore, TLC

\* Series are sampled once a unit of time and keep two points, the least that
\* loadCollector (main.go) accepts.
OneUnit == [id \in Series |-> 1]
TwoPoints == [id \in Series |-> 2]

CallerSymmetry == Permutations(Callers)

=============================================================================
