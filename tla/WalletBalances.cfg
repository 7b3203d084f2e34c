SPECIFICATION FairSpec
CONSTANTS
  s1 = s1
  s2 = s2
  w1 = w1
  w2 = w2
  r1 = r1
  r2 = r2
  a1 = a1
  a2 = a2
  Null = Null
  NaN = NaN
  NoWallet = NoWallet
  Wallets = {w1}
  Swaps = {s1, s2}
  Runs = {r1}
  Admins = {a1, a2}
  Stock = {0}
  Amount = 3
  EthDebits <- Fee
  TonDebits <- Burn
  Dtos <- Bodies
  MaxTries = 1
  MaxEvents = 1
INVARIANT ExactUnlessOvertaken
INVARIANT SwapsKeepTheirWallet
PROPERTY TablesHeal
CHECK_DEADLOCK FALSE
