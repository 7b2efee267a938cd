\* Safety of the committed tables under every overlap of two transactions.
SPECIFICATION Spec
CONSTANTS
  t1 = t1  t2 = t2  t3 = t3
  s1 = s1  s2 = s2  l1 = l1  l2 = l2  b1 = b1  b2 = b2  e1 = e1  e2 = e2
  Txn = {t1, t2}
  Sku = {s1}
  Location = {l1, l2}
  Batch = {b1}
  Expiry = {e1, e2}
  NoExpiry = NoExpiry
  NoLocation = NoLocation
  NoLimit = NoLimit
  Qty = {1}
  Weight <- UnitWeight
  Capacity <- ShelfOf2
  Open = {l1, l2}
  KeyRank <- MCKeyRank
  Commands <- AllCommands
  MaxRounds = 2
  MaxLines = 2
SYMMETRY ExpirySymmetry
INVARIANTS BalanceIsFold BatchExpiryAgrees QuantitiesInBounds CirclesNeedSeveralLines
PROPERTIES RebuildChangesNothing ImplementsBook
CHECK_DEADLOCK FALSE
