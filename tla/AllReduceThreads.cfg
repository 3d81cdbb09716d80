\* Three nodes, two calls, buffers shorter and longer than the number of nodes.
SPECIFICATION AllReduceSpec
CONSTANTS
  Threads = {0, 1, 2}
  Nodes = 3
  MaxVisits = 4
  MaxCalls = 2
  Sizes = {2, 4}
INVARIANTS NobodyEarly Inductive CallsCorrect
PROPERTIES RefinesRendezvous AllReturn
CHECK_DEADLOCK FALSE
