SPECIFICATION FairSpec
CONSTANTS
  w1 = w1 w2 = w2 d1 = d1 d2 = d2 p1 = p1 v1 = v1 r1 = r1
  main = main other = other admin = admin Nobody = Nobody
  Genesis <- MCGenesis
  Hash <- MCHash
  Process = {main}
  Home <- OneProcess
  Writer = {w1, w2}
  Drainer = {}
  Purger = {}
  Verifier = {v1}
  Repairer = {r1}
  Kinds = {"request", "background"}
  DrainBatch = 2
  PurgeBatch = 1
  InitLog <- TwoRows
  Cuts = {{1}}
  MaxEntry = 5
  MaxFaults = 0
PROPERTY BackgroundEnds
