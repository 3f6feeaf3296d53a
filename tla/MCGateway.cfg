\* An asset of the BTC kind or of the ETH kind: two withdrawals, of which one needs the
\* deposit first, in at most two batches.
SPECIFICATION Spec
CONSTANTS
  a1 = a1  a2 = a2  w1 = w1  w2 = w2  d1 = d1
  g1 = g1  g2 = g2  g3 = g3  g4 = g4
  Accounts = {a1, a2}
  Withdraws = {w1, w2}
  Deposits = {d1}
  Wallfacers = {g1, g2, g3, g4}
  Owner <- MCOwner
  Amount <- MCAmount
  InitialBalance <- MCBalance
  FeePool = 2
  NetFee = 1
  MaxTargets = 2
  MaxBatches = 2
  MaxFinals = 2
INVARIANTS TypeOK SupplyBacked BatchAgrees OneInProgress 
PROPERTIES  Reported
