CONSTANTS
  Appts = {1, 2, 3}
  Entries = {1, 2}
  Props = {}
  Slots <- QueueSlots
  Keys = {k1}
  Txs = {t1, t2}
  Free = Free
  Buffer = 1
  MinLead = 1
  Cutoff = 1
  FreePlan = FALSE
  MonthlyLimit = 2
  BillingVaries = FALSE
  MaxNow = 0
  MaxVersion = 2
  Operations = {"move", "cancel", "join", "leave", "promote", "handover"}
  InitialTables <- QueueTables
SPECIFICATION Spec
SYMMETRY Symmetry
CHECK_DEADLOCK FALSE
INVARIANTS
  QueueFollowsSlot
  NoDoubleBooking
PROPERTIES
  PromotionOrder
  ImplementsCalendar
