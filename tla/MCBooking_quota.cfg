CONSTANTS
  Appts = {1, 2, 3}
  Entries = {1}
  Props = {}
  Slots <- PairSlots
  Keys = {k1, k2}
  Txs = {t1, t2}
  Free = Free
  Buffer = 1
  MinLead = 1
  Cutoff = 1
  FreePlan = TRUE
  MonthlyLimit = 2
  BillingVaries = TRUE
  MaxNow = 1
  MaxVersion = 3
  Operations = {"create", "elsewhere", "join", "leave", "cancel"}
  InitialTables <- OneBooked
SPECIFICATION Spec
SYMMETRY Symmetry
CHECK_DEADLOCK FALSE
INVARIANTS
  WithinQuota
  OneBookingPerKey
