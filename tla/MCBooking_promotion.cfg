CONSTANTS
  Appts = {1, 2, 3}
  Entries = {1}
  Props = {}
  Slots <- NextSlots
  Keys = {k1}
  Txs = {t1, t2}
  Free = Free
  Buffer = 1
  MinLead = 1
  Cutoff = 1
  FreePlan = FALSE
  MonthlyLimit = 2
  BillingVaries = FALSE
  MaxNow = 0
  MaxVersion = 3
  Operations = {"create", "cancel", "join", "promote"}
  InitialTables <- QueueTables
SPECIFICATION Spec
SYMMETRY Symmetry
CHECK_DEADLOCK FALSE
PROPERTIES
  ManualPromotionKeepsBuffer
