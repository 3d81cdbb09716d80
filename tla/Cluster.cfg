\* Registrations, rejections, deaths, two jobs on one host, and sums over small trees.
SPECIFICATION ClusterSpec
CONSTANTS
  Node <- Processes
  Scenarios <- Clusters
  SizeofT = 2
  NumValues = 2
  AR_BUF_SIZE = 3
  SocketBuffer = 3
INVARIANTS ClusterSafe
PROPERTIES Served
CHECK_DEADLOCK FALSE
