---------------------------- MODULE MCProjector ----------------------------
(* Instances of Projector for TLC.                                         *)
EXTENDS Projector

\* Events of one read model and of two, and one that nobody handles between
\* two that are handled.
MCKinds ==
  <<{"wallet"}, {"wallet", "payment", "other"}, {"wallet", "payment"}>>
=============================================================================
