--------------------------- MODULE MCCompensation ---------------------------
(* Instances of Compensation for TLC.                                      *)
EXTENDS Compensation

CONSTANTS p1, p2, e1, e2

\* Both payments were debited; one of them has gone on to the gateway.
MCCompleted ==
  [p \in Payments |-> IF p = p1
                        THEN <<"funds_deducted", "external_processing">>
                        ELSE <<"other", "funds_deducted">>]
=============================================================================
