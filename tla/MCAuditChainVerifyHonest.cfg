SPECIFICATION Spec
CONSTANTS
  w1 = w1 w2 = w2 d1 = d1 d2 = d2 p1 = p1 v1 = v1 r1 = r1
  main = main other = other admin = admin Nobody = Nobody
  Genesis <- MCGenesis
  Hash <- MCHash
  Process = {main, other, admin}
  Home <- Spread
  Writer = {}
  Drainer = {}
  Purger = {p1}
  Verifier = {v1}
  Repairer = {}
  Kinds = {"request", "settings", "background"}
  DrainBatch = 2
  PurgeBatch = 1
  InitLog <- TwoRows
  Cuts = {{}}
  MaxEntry = 3
  MaxFaults = 0
INVARIANT VerifyHonest
