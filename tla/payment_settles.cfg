\* Three payments from one wallet, a database that answers and a process that keeps running.
CONSTANTS
  p1 = p1  p2 = p2  p3 = p3  w1 = w1
  Owner <- MCOwner
  Payments = {p1, p2, p3}
  Wallets = {w1}
  Price <- MCPrice
  InitialBalance <- MCBalance
  Faults = {}
  MayCrash = FALSE
SPECIFICATION FairSpec
INVARIANTS
  LostRefundHasCompetitor
  ErrorMeansNotDebited
PROPERTY EveryPaymentSettles
CHECK_DEADLOCK FALSE
