--------------------------- MODULE MCSensorIngest ---------------------------
(***************************************************************************)
(* SensorIngest on small instances, and what TLC alone needs.              *)
(***************************************************************************)
EXTENDS SensorIngest, FiniteSets, TLC

\* Connections and encodings are interchangeable; runs of safety properties
\* only.
Symmetry == Permutations(Conns) \cup Permutations(Payloads)

=============================================================================
