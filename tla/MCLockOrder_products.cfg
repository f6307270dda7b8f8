CONSTANTS
  Procs = {c1, c2}
  Requests <- ProductRequests
  Free = Free
SPECIFICATION Spec
INVARIANT
  NoDeadlock
