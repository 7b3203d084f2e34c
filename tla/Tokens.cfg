SPECIFICATION FairTokenSpec
CONSTANTS
  t1 = t1
  t2 = t2
  e1 = e1
  e2 = e2
  c1 = c1
  c2 = c2
  c3 = c3
  a1 = a1
  a2 = a2
  r1 = r1
  r2 = r2
  None = None
  Ids = {t1, t2}
  TokenAddresses = {e1, e2}
  Ranks = {1}
  Decimals = {6}
  Currencies = {c1, c2, c3}
  Listed = {c1, c2}
  Admins = {a1, a2}
  Runs = {r1}
  MaxEdits = 3
  MaxFailures = 1
INVARIANT AddressesAreUnique
PROPERTY PricesArrive
CHECK_DEADLOCK FALSE
