\* Three deductions, a refund and a check, with each strategy; events of
\* three users and one of nobody.
CONSTANTS
  d1 = d1  d2 = d2  d3 = d3  r1 = r1  k1 = k1
  Calls = {d1, d2, d3, r1, k1}
  Kind <- MCKind
  Amount <- MCAmount
  InitialBalance = 2
  MaxRetries = 2
  Events = {1, 2, 3, 4, 5, 6}
  CausedBy <- MCCausedBy
  NoUser = "none"
  Hash <- MCHash
  NumPartitions = 2
  Capacity = 1
SPECIFICATION MCSpec
INVARIANTS
  LockIsExclusive
  ConflictsHaveWinners
  UsersInOrder
PROPERTIES
  ImplementsAtomicWallet
  CallsEnd
\* Each call and each event is made once.
CHECK_DEADLOCK FALSE
