SPECIFICATION Spec
CONSTANTS
  p = p
  q = q
  e = e
  x = x
  y = y
  Permanent = {p, q}
  External = {e}
  Candidates = {x, y}
  Assets = {btc, eth}
  EthAssets = {eth}
  Miners = {1, 2}
  Weights <- MCWeights
  Elections <- MCElections
  Referenda <- MCReferenda
  Packing = 1
  Voting = 1
  Lifetime = 1
  MinWallfacers = 1
  MaxElections = 2
  MaxPledge = 2
  MaxPairs = 1
  MaxResigns = 1
INVARIANTS CommitteeSize 
PROPERTY Reopens
