SPECIFICATION Spec
CONSTANTS
  w1 = w1 w2 = w2 d1 = d1 d2 = d2 p1 = p1 v1 = v1 r1 = r1
  main = main other = other admin = admin Nobody = Nobody
  Genesis <- MCGenesis
  Hash <- MCHash
  Process = {main, other, admin}
  Home <- Spread
  Writer = {w1, w2}
  Drainer = {d1}
  Purger = {p1}
  Verifier = {}
  Repairer = {}
  Kinds = {"settings", "background"}
  DrainBatch = 2
  PurgeBatch = 1
  InitLog <- OneRow
  Cuts = {{}}
  MaxEntry = 4
  MaxFaults = 1
INVARIANT ChainVerifies ChainedOnce NothingDropped RetainsYoung
