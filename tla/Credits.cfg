SPECIFICATION OpenedFairSpec
CONSTANTS
  c1 = c1
  c2 = c2
  c3 = c3
  c4 = c4
  k1 = k1
  k2 = k2
  k3 = k3
  p1 = p1
  Pair = {p1, p2}
  Key = {k1, k2, k3}
  Note = {n1}
  Amount <- Amounts
  MaxBalance = 2
  NoEntry = NoEntry
  Client = {c1, c2, c3, c4}
  KeyOf <- Keys
  Txn = {t1, t2}
  NoClient = NoClient
INVARIANTS TypeOK BalanceIsSum
PROPERTIES ImplementsLedger RetryNeverConflicts RequestsEnd
CHECK_DEADLOCK FALSE
