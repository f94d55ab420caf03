CONSTANTS
  c1 = c1
  c2 = c2
  food = food
  meds = meds
  Camp = {c1, c2}
  Resource = {food, meds}
  MaxQty = 1
  MaxItems = 2
  Opening <- MCOpening
  Workload <- MCWorkload
  Tx = {t1, t2, t3}
  NoTx = NoTx
SPECIFICATION FairSpec
INVARIANTS
  IndInv
  NonNegative
  LedgerMatches
PROPERTIES
  LedgerSpec
  EveryTransactionEnds
