--------------------------- MODULE MCEventStream ---------------------------
(* Instances of EventStream for TLC.                                       *)
EXTENDS EventStream, TLC

CONSTANTS w1, w2

\* Publishers are interchangeable: no operator tells one from another.
Symmetry == Permutations(Writers)

=============================================================================
