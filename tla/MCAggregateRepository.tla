----------------------- MODULE MCAggregateRepository -----------------------
(* Instances of AggregateRepository for TLC.                               *)
EXTENDS AggregateRepository, TLC

CONSTANTS a, b

\* The writers do the same things.
MCSymmetry == Permutations(Writers)
=============================================================================
