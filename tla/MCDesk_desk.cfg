SPECIFICATION DeskSpec
CONSTANTS
  d1 = d1
  d2 = d2
  x1 = x1
  x2 = x2
  w1 = w1
  w2 = w2
  People = {ann, bob}
  Owner = ann
  Invites = {w1, w2}
  Desks = {d1, d2}
  Guests = {x1, x2}
  Legacy = 1
  Contracts = {2}
  MaxTokens = 2
  MaxAsks = 4
  Free = Free
  Requests = {1, 2}
  Slots = {x1, x2}
  Actors = {d1, d2}
  Unheld = Unheld
  Prices = {1, 2}
  MaxChanges = 1
  MaxCalls = 5
  Workers = {w1, w2}
  Calls = {1, 2, 3, 4}
  Absent = Absent
  MaxDrafts = 2
  MaxRevisions = 2
  MaxCrashes = 2
  eva = eva
  leo = leo
  dryer = dryer
  trio = trio
  exception = exception
  Stylists = {eva, leo}
  DayEnd = 4
  Gap = 1
  Services <- DeskServices
  Parallel <- DeskParallel
  NoRoom = NoRoom
  Anyone = Anyone
  Nobody = Nobody
  VisitKeys = {trio, exception}
  Orders <- DeskOrders
  Starts = {0}
  Singles <- DeskSingles
  Weeks = {{0, 1}, {}}
  Spans <- DeskSpans
  Clerks = {d1, d2}
  MaxEdits = 2
  Devices = {x1, x2}
  Mail = Mail
  Senders = {d1, d2}
  NoRow = NoRow
  Times = {1}
  Elsewhere = 0
  MaxAttempts = 2
  MaxLapses = 1
INVARIANTS
  PlanHolds
  ActiveWithinPlan
  OneOpenInvite
  SentIsCurrent
  HeldForOne
  TermsStand
  FulfilledOnce
  EmailOnlyWithoutPush
  CarriedOutOnce
  DoneIsFinal
PROPERTIES
  JoinsByValidLink
  SettledStays
  SavedTurnsStand
CHECK_DEADLOCK FALSE
SYMMETRY Pairs
