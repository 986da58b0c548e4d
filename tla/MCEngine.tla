------------------------------- MODULE MCEngine -------------------------------
(* Instances of the engine for TLC. *)
EXTENDS EngineProperties, TLC

\* Runner ids and clients are only ever compared for equality.
Symmetry == Permutations(Runners) \cup Permutations(Clients)

=============================================================================
