CONSTANTS
  Procs = {c1, c2, c3}
  Requests <- AgreeingRequests
  Free = Free
SPECIFICATION FairSpec
PROPERTY
  EveryRequestEnds
