CONSTANTS
  Appts = {1, 2}
  Entries = {}
  Props = {1, 2}
  Slots <- AgendaSlots
  Keys = {k1}
  Txs = {t1, t2}
  Free = Free
  Buffer = 1
  MinLead = 1
  Cutoff = 1
  FreePlan = FALSE
  MonthlyLimit = 2
  BillingVaries = FALSE
  MaxNow = 2
  MaxVersion = 4
  Operations = {"move", "propose", "answer", "cancel", "status"}
  InitialTables <- OneBooked
SPECIFICATION Spec
SYMMETRY Symmetry
CHECK_DEADLOCK FALSE
INVARIANTS
  PendingProposalIsCurrent
PROPERTIES
  AnswersMatch
