------------------------- MODULE MCConcurrentWallet -------------------------
(* Instances of ConcurrentWallet and PartitionedEvents for TLC.  The two    *)
(* share nothing, so that interleaving them would show nothing: the first  *)
(* state says which of them moves.                                         *)
EXTENDS ConcurrentWallet, PartitionedEvents, TLC

CONSTANTS d1, d2, d3, r1, k1

\* Deductions of which one does not find enough before the refund, and a check.
MCKind == [c \in Calls |-> CASE c \in {d1, d2, d3} -> "deduct"
                             [] c = r1 -> "refund"
                             [] c = k1 -> "check"]
MCAmount == [c \in Calls |-> IF c = d2 THEN 2 ELSE 1]

\* Three events of one user, one of another who has the other partition, one of
\* a user for whom there is no partition, and one of nobody.
MCCausedBy == <<"u", "u", "u", "v", "x", "none">>
MCHash == [u \in Users |-> CASE u = "u" -> -6 [] u = "v" -> 3 [] u = "x" -> -5]

VARIABLE moving

MCInit ==
  /\ moving \in {"wallet", "events"}
  /\ Init /\ InitEvents
  /\ moving = "events" => strategy = "pessimistic"

MCNext ==
  \/ moving = "wallet" /\ Next /\ UNCHANGED <<moving, eventVars>>
  \/ moving = "events" /\ NextEvents /\ UNCHANGED <<moving, vars>>

MCSpec ==
  /\ MCInit /\ [][MCNext]_<<moving, vars, eventVars>>
  /\ FairCalls
=============================================================================
