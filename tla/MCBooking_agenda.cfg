CONSTANTS
  Appts = {1, 2, 3}
  Entries = {}
  Props = {}
  Slots <- AgendaSlots
  Keys = {k1}
  Txs = {t1, t2}
  Free = Free
  Buffer = 1
  MinLead = 1
  Cutoff = 1
  FreePlan = FALSE
  MonthlyLimit = 2
  BillingVaries = FALSE
  MaxNow = 1
  MaxVersion = 2
  Operations = {"create", "move", "cancel", "status"}
  InitialTables <- AgendaTables
SPECIFICATION Spec
SYMMETRY Symmetry
CHECK_DEADLOCK FALSE
INVARIANTS
  BufferKept
  ReadsStayCurrent
  NoEarlyAttendance
