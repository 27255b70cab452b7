SPECIFICATION Spec
CONSTANTS
  w1 = w1 w2 = w2 d1 = d1 d2 = d2 p1 = p1 v1 = v1 r1 = r1
  main = main other = other admin = admin Nobody = Nobody
  Genesis <- MCGenesis
  Hash <- MCHash
  Process = {main, other, admin}
  Home <- Spread
  Writer = {w1, w2}
  Drainer = {d1}
  Purger = {}
  Verifier = {v1}
  Repairer = {r1}
  Kinds = {"request", "settings", "background"}
  DrainBatch = 2
  PurgeBatch = 1
  InitLog <- ThreeRows
  Cuts = {{}, {1}, {2}}
  MaxEntry = 5
  MaxFaults = 1
PROPERTY RepairHeals StaysVerified
