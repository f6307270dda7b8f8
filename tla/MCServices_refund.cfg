SPECIFICATION ServicesSpec
CONSTANTS
  Procs = {a, b}
  None = None
  MaxBills = 2
  MaxStamp = 3
  Scenes <- MCScenes
  Buyers = {b1, b2}
  Handlers = {h1, h2}
  Requesters = {r1, r2}
  Payments = {x, y}
  Pack = 2
  FreeUnits = 1
  Cost = 2
  Nobody = Nobody
  CreditScenes <- MCCreditScenes
INVARIANTS
  RefundStands
CHECK_DEADLOCK FALSE
