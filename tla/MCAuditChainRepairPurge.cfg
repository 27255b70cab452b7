SPECIFICATION Spec
CONSTANTS
  w1 = w1 w2 = w2 d1 = d1 d2 = d2 p1 = p1 v1 = v1 r1 = r1
  main = main other = other admin = admin Nobody = Nobody
  Genesis <- MCGenesis
  Hash <- MCHash
  Process = {main, other, admin}
  Home <- Spread
  Writer = {}
  Drainer = {}
  Purger = {p1}
  Verifier = {}
  Repairer = {r1}
  Kinds = {"request", "settings", "background"}
  DrainBatch = 2
  PurgeBatch = 1
  InitLog <- ThreeRows
  Cuts = {{1}}
  MaxEntry = 4
  MaxFaults = 0
PROPERTY RepairHeals
