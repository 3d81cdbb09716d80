\* A pool of up to two threads and two calls; rings of four to eight entries
\* and more examples than entries; two nodes and two callers; two predictors
\* and two new models.
SPECIFICATION WorkersSpec
CONSTANTS
  PoolSizes = {0, 1, 2}
  BlockSizes = {0, 2}
  RowCounts = {1, 4, 5}
  MaxCalls = 2
  CreateMayFail = TRUE
  Limits = {4, 5, 6, 8}
  NumExamples = 12
  Word = 256
  DaemonMayDie = TRUE
  NumNodes = 2
  Callers = {c1, c2}
  ExampleCountPerRun = 2
  QueueLength = 1
  MaxPosts = 3
  SaveIds = {s1}
  FlushIds = {f1}
  Predictors = {t1, t2}
  MaxUpdates = 2
INVARIANTS WorkSafe PoolSafe
PROPERTIES WorkEnds
CHECK_DEADLOCK FALSE
