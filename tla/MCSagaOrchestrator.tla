------------------------- MODULE MCSagaOrchestrator -------------------------
(* Instances of SagaOrchestrator for TLC.                                  *)
EXTENDS SagaOrchestrator

\* One retry of the debit; the code allows three, and two for the gateway.
MCOneRetry == [s \in Steps |-> IF s = Deduct THEN 1 ELSE 0]
MCNoRetry  == [s \in Steps |-> 0]
=============================================================================
