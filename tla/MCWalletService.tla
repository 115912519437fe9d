-------------------------- MODULE MCWalletService --------------------------
(* Instances of WalletService for TLC.                                     *)
EXTENDS WalletService, TLC

CONSTANTS w1, w2, v1, d1, d2, d3, r1, r2

\* On w1: a validation, two debits that cannot both succeed at first, and a
\* credit that makes room for the second.  On w2: one debit and one credit.
MCKind == [c \in Calls |->
             CASE c = v1 -> "validate"
               [] c \in {d1, d2, d3} -> "debit"
               [] c \in {r1, r2} -> "credit"]
MCWalletOf == [c \in Calls |-> IF c \in {d3, r2} THEN w2 ELSE w1]
MCAmount == [c \in Calls |->
               CASE c \in {v1, d1, r1} -> 2
                 [] c = d2 -> 3
                 [] c \in {d3, r2} -> 1]
MCInitialBalance == [w \in Wallets |-> IF w = w1 THEN 3 ELSE 1]
=============================================================================
