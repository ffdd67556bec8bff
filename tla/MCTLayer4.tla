------------------------------ MODULE MCTLayer4 ------------------------------
(* Model checking the transport layer against arbitrary remote devices. *)
EXTENDS TLayer4, TLC

\* Neither devices nor requests are told apart: safety only.
Symmetry == Permutations(Remotes) \cup Permutations(Apdus)

=============================================================================
