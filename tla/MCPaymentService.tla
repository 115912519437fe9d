-------------------------- MODULE MCPaymentService --------------------------
(* Instances of PaymentService for TLC.                                    *)
EXTENDS PaymentService, TLC

CONSTANTS p1, p2, p3, w1

\* Payments of one user.
MCOwner == [p \in Payments |-> w1]
MCPrice == [p \in Payments |-> IF p = p2 THEN 2 ELSE 1]

\* Enough for p2 and one other, or for the others without p2.
MCBalance == [w \in Wallets |-> 3]
=============================================================================
