\* Two payments from one wallet, every fault of the database, crashes.
CONSTANTS
  p1 = p1  p2 = p2  p3 = p3  w1 = w1
  Owner <- MCOwner
  Payments = {p1, p2}
  Wallets = {w1}
  Price <- MCPrice
  InitialBalance <- MCBalance
  Faults = {"err", "lost"}
  MayCrash = TRUE
SPECIFICATION Spec
INVARIANTS
  ChargedMeansPaid
  StatusTellsOutcome
  BalanceAccountsForPayments
PROPERTY StatusMovesForward
\* Each payment is requested once; the system stops when all have ended.
CHECK_DEADLOCK FALSE
