\* Two wallets, one of them contended, every fault of a statement, stops of the process.
CONSTANTS
  w1 = w1  w2 = w2  v1 = v1  d1 = d1  d2 = d2  d3 = d3  r1 = r1  r2 = r2
  Kind <- MCKind
  WalletOf <- MCWalletOf
  Amount <- MCAmount
  InitialBalance <- MCInitialBalance
  Wallets = {w1, w2}
  Calls = {v1, d1, d2, r1, d3}
  Faults = {"err", "lost"}
SPECIFICATION Spec
INVARIANTS
  NoLostUpdate
  NeverOverdrawn
  AppliedOnceAndRecorded
PROPERTY ImplementsAtomicWallet
\* Calls are invoked once each, so that the system stops when all have ended.
CHECK_DEADLOCK FALSE
