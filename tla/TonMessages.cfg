SPECIFICATION FairSpec
CONSTANTS
  minter = minter
  giver = giver
  c1 = c1
  c2 = c2
  c3 = c3
  Wallets = {minter, giver}
  Callers = {c1, c2, c3}
  WalletOf <- Own
  Deploys = {c3}
  Deployed = {minter}
  Attempts = 2
  MaxFaults = 2
 
INVARIANT AloneIsCarried
PROPERTY AloneIsCarriedOut
CHECK_DEADLOCK FALSE
