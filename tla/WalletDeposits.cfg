SPECIFICATION FairSpec
CONSTANTS
  g1 = g1
  g2 = g2
  w1 = w1
  w2 = w2
  r1 = r1
  r2 = r2
  Null = Null
  NaN = NaN
  Wallets = {g1, w1, w2}
  Givers = {g1}
  Runs = {r1, r2}
  MinBalance = 10
  Stock = {8}
  Funds = {12}
  Tokens = {}
  Gas = 6
  MaxPending = 2
  MaxEvents = 1
INVARIANT RaisedToTheMinimum
PROPERTY WalletsAreRaised
CHECK_DEADLOCK FALSE
