SPECIFICATION FairSpec
CONSTANTS
  o1 = o1
  o2 = o2
  r1 = r1
  r2 = r2
  r3 = r3
  collection = collection
  analysis = analysis
  Owners = {o1, o2}
  Runs = {r1, r2}
  Loops = {collection, analysis}
  EagerLoops = {collection}
  NoRun = NoRun
INVARIANTS
  NoOrphans
  StopIsSafe
PROPERTY
  LoopsEnd
