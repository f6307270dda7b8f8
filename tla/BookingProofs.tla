--------------------------- MODULE BookingProofs ---------------------------
(***************************************************************************)
(* Proofs about Booking, for every number of appointments, queue entries,  *)
(* proposals, slots and concurrent transactions.                           *)
(*                                                                         *)
(* The inductive invariant is IInv.  Shape is the types, with what an open *)
(* transaction has filled in.  Sound(t) is what transaction t knows: the   *)
(* locks it holds (Locked), that the rows it read are as it read them      *)
(* (Fresh), and that the slot it writes without overbooking is clear of    *)
(* the bookings that keep the buffer (Cleared).  A step of another         *)
(* transaction writes existing rows only under their lock and new slots    *)
(* only under the professional's (StepOf), so it leaves Sound(t) alone.    *)
(***************************************************************************)
EXTENDS Booking, TLAPS

-----------------------------------------------------------------------------
(* The types, with what a transaction that is under way has filled in.     *)

RowWrites == {"move", "propose", "cancel", "handover", "status"}
OnRow == RowWrites \cup {"answer"}
OnSlot == {"create", "elsewhere", "move", "propose"}

Filled(r) ==
  r.pc # "idle" =>
    /\ r.pc = "entry" => r.op = "elsewhere"
    /\ r.op = "elsewhere" => r.who \in Entries
    /\ r.op \in OnRow => r.ap \in Appts
    /\ r.op = "status" => r.st \in Statuses \ {"CANCELLED"}
    /\ r.op = "answer" => r.id \in Props /\ r.st \in Decisions

TablesOK ==
  /\ appt \in [Appts -> Row]
  /\ entry \in [Entries -> Entry]
  /\ prop \in [Props -> Prop]
  /\ now \in 0..MaxNow
  /\ billing \in BOOLEAN
  /\ \A i \in Props : prop[i].status # "ABSENT" => prop[i].ap \in Appts

LocksOK == lock \in [Locks -> Txs \cup {Free}]

TxsOK == tx \in [Txs -> Tx] /\ \A t \in Txs : Filled(tx[t])

Shape == TablesOK /\ LocksOK /\ TxsOK

LEMMA ShapeImpliesTypeOK == Shape => TypeOK
BY DEF Shape, TablesOK, LocksOK, TxsOK, TypeOK

LEMMA AcquireLocks ==
  ASSUME NEW t \in Txs, NEW ls, LocksOK, Acquire(t, ls)
  PROVE  LocksOK'
BY DEF Acquire, LocksOK

LEMMA IdleType == Idle \in Tx /\ Idle.pc = "idle"
BY SlotsAssumption DEF Idle, Tx, Steps, OperationNames, Statuses, ClosedStatuses, ActiveStatuses, AnySlot

(* A step that only changes its own transaction, to a well-formed one.     *)
LEMMA OneTransaction ==
  ASSUME Shape, NEW t \in Txs, NEW r \in Tx, Filled(r), tx' = [tx EXCEPT ![t] = r]
  PROVE  TxsOK'
BY DEF Shape, TxsOK, Filled

LEMMA EndShape ==
  ASSUME Shape, NEW t \in Txs, End(t)
  PROVE  LocksOK' /\ TxsOK'
<1>1. LocksOK'
  BY DEF End, Shape, LocksOK
<1>2. TxsOK'
  BY IdleType, OneTransaction DEF End, Filled
<1> QED BY <1>1, <1>2

LEMMA ReadsTables ==
  ASSUME Shape, Reads
  PROVE  TablesOK'
BY DEF Reads, Shape, TablesOK

LEMMA BeginShape ==
  ASSUME Shape, NEW t \in Txs, NEW r \in Tx, Filled(r), Begin(t, r), Reads, LocksOK'
  PROVE  Shape'
BY OneTransaction, ReadsTables DEF Begin, Shape

LEMMA RequestType ==
  ASSUME NEW op \in OperationNames, NEW a \in Appts \cup {None}
  PROVE  Request(op, a) \in Tx /\ Request(op, a).op = op /\ Request(op, a).ap = a
<1> DEFINE i == Idle
           q == Request(op, a)
<1>1. i \in Tx /\ q = [i EXCEPT !.op = op, !.ap = a]
  BY IdleType DEF Request
<1> HIDE DEF i, q
<1>2. q \in Tx /\ q.op = op /\ q.ap = a
  BY <1>1 DEF Tx
<1> QED BY <1>2 DEF q

-----------------------------------------------------------------------------
(* What an open transaction knows, and what a step of it may change.       *)

Locked(t) ==
  /\ tx[t].op \in OnRow => lock[ApptLock(tx[t].ap)] = t
  /\ tx[t].op \in OnSlot => lock[ProLock(tx[t].slot.pro)] = t

Fresh(t) ==
  LET row == appt[tx[t].ap]
      p == prop[tx[t].id] IN
  /\ tx[t].op \in OnRow => row.status \in Statuses
  /\ tx[t].op \in RowWrites => row.ver = tx[t].ver
  /\ tx[t].op = "status" => /\ tx[t].st \in Transitions[row.status]
                            /\ OperationalTimeOk(tx[t].st, row.slot.from, now)
  /\ tx[t].op = "answer" => /\ p.status = "PENDING" /\ p.ap = tx[t].ap
                            /\ p.ver = row.ver /\ p.slot = row.slot
                            /\ row.status \in ReschedulableStatuses

Own(r) == IF r.op \in {"move", "propose"} THEN {r.ap} ELSE {}
ClearOf(r) == \A b \in Appts \ Own(r) : Plain(appt[b]) => ~Clash(appt[b].slot, r.slot, Buffer)
Cleared(t) == tx[t].op \in OnSlot /\ ~tx[t].over => ClearOf(tx[t])

Sound(t) == tx[t].pc # "idle" => Locked(t) /\ Fresh(t) /\ Cleared(t)

LEMMA LockNames ==
  /\ \A a \in Appts : ApptLock(a) \in Locks
  /\ \A s \in Slots : ProLock(s.pro) \in Locks
BY DEF Locks, Pros

LEMMA Acquired ==
  ASSUME NEW t \in Txs, NEW ls, LocksOK, Acquire(t, ls)
  PROVE  /\ \A l \in ls \cap Locks : lock'[l] = t
         /\ \A l \in Locks, u \in Txs : lock[l] = u => lock'[l] = u
BY IdsAssumption DEF Acquire, LocksOK

LEMMA ScopeAcquired ==
  ASSUME Shape, NEW t \in Txs, NEW a \in Appts, NEW targets, NEW more,
         Acquire(t, ScopeLocks(a, targets) \cup more)
  PROVE  /\ LocksOK'
         /\ lock'[ApptLock(a)] = t
         /\ \A s \in Slots : s.pro \in targets => lock'[ProLock(s.pro)] = t
BY Acquired, AcquireLocks, LockNames DEF ScopeLocks, Shape

LEMMA CheckCreateOK ==
  ASSUME Shape, NEW t \in Txs, CheckCreate(t)
  PROVE  Shape' /\ Sound(t)'
<1> PICK k \in Keys, s \in Slots, client \in BOOLEAN, who \in Entries \cup {None} :
           CheckCreate(t)!(k, s, client, who)
  BY DEF CheckCreate
<1> DEFINE op == IF who = None THEN "create" ELSE "elsewhere"
           over == ~Available(s, {})
           pc == IF who = None THEN "ready" ELSE "entry"
           b == Request(op, None)
           r == [b EXCEPT !.pc = pc, !.key = k, !.slot = s, !.over = over, !.who = who]
<1>1. op \in OperationNames /\ over \in BOOLEAN /\ pc \in Steps
  BY DEF OperationNames, Available, Steps
<1>2. b \in Tx /\ b.op = op
  BY <1>1, RequestType
<1>3. /\ pc = "entry" => op = "elsewhere"
      /\ op = "elsewhere" => who \in Entries
      /\ op \in {"create", "elsewhere"}
  OBVIOUS
<1>4. Begin(t, r) /\ Reads /\ LocksOK' /\ lock'[ProLock(s.pro)] = t
  BY AcquireLocks, Acquired, LockNames DEF Shape
<1>5. ~over => \A c \in Appts : IsActive(appt[c]) => ~Clash(appt[c].slot, s, Buffer)
  BY DEF Available
<1> HIDE DEF b, op, over, pc
<1>6. r \in Tx /\ r.pc = pc /\ r.op = op /\ r.who = who /\ r.slot = s /\ r.over = over
  BY <1>1, <1>2 DEF Tx
<1> HIDE DEF r
<1>7. Filled(r) /\ r.op \notin OnRow
  BY <1>3, <1>6 DEF Filled, OnRow, RowWrites
<1>8. tx'[t] = r /\ appt' = appt
  BY <1>4 DEF Begin, Reads, Shape, TxsOK
<1>9. Sound(t)'
  BY <1>3, <1>4, <1>5, <1>6, <1>7, <1>8
  DEF Sound, Locked, Fresh, Cleared, ClearOf, Own, Plain, IsExclusive, OnRow, RowWrites
<1> QED BY <1>4, <1>6, <1>7, <1>9, BeginShape

(* A request that neither changes a row nor asks for a slot.               *)
LEMMA PlainRequestOK ==
  ASSUME Shape, NEW t \in Txs, NEW r \in Tx, Begin(t, r), Reads, LocksOK',
         r.pc # "entry", r.op \in {"join", "leave", "promote"}
  PROVE  Shape' /\ Sound(t)'
<1>1. Shape'
  BY BeginShape DEF Filled, OnRow, RowWrites
<1>2. tx'[t] = r
  BY DEF Begin, Shape, TxsOK
<1>3. Sound(t)'
  BY <1>2 DEF Sound, Locked, Fresh, Cleared, OnRow, RowWrites, OnSlot
<1> QED BY <1>1, <1>3

LEMMA CheckJoinOK ==
  ASSUME Shape, NEW t \in Txs, CheckJoin(t)
  PROVE  Shape' /\ Sound(t)'
<1> PICK a \in Appts, s \in Slots : CheckJoin(t)!(a, s)
  BY DEF CheckJoin
<1> DEFINE b == Request("join", a)
           r == [b EXCEPT !.pc = "ready", !.slot = s]
<1>1. b \in Tx /\ b.op = "join"
  BY RequestType DEF OperationNames
<1>2. Begin(t, r) /\ Reads /\ LocksOK'
  BY AcquireLocks DEF Shape
<1> HIDE DEF b
<1>3. r \in Tx /\ r.pc = "ready" /\ r.op = "join"
  BY <1>1 DEF Tx, Steps
<1> QED BY <1>2, <1>3, PlainRequestOK

LEMMA ReadLeaveOK ==
  ASSUME Shape, NEW t \in Txs, ReadLeave(t)
  PROVE  Shape' /\ Sound(t)'
<1> PICK e \in Entries : ReadLeave(t)!(e)
  BY DEF ReadLeave
<1> DEFINE b == Request("leave", entry[e].ap)
           r == [b EXCEPT !.pc = "queue", !.who = e]
<1>0. entry[e].ap \in Appts \cup {None}
  BY DEF Shape, TablesOK, Entry
<1>1. b \in Tx /\ b.op = "leave"
  BY <1>0, RequestType DEF OperationNames
<1>2. Begin(t, r) /\ Reads /\ LocksOK'
  BY DEF Shape, LocksOK
<1> HIDE DEF b
<1>3. r \in Tx /\ r.pc = "queue" /\ r.op = "leave"
  BY <1>1 DEF Tx, Steps
<1> QED BY <1>2, <1>3, PlainRequestOK

LEMMA CheckPromoteOK ==
  ASSUME Shape, NEW t \in Txs, CheckPromote(t)
  PROVE  Shape' /\ Sound(t)'
<1> PICK a \in Appts, e \in Entries : CheckPromote(t)!(a, e)
  BY DEF CheckPromote
<1> DEFINE b == Request("promote", a)
           r == [b EXCEPT !.pc = "queue", !.who = e]
<1>1. b \in Tx /\ b.op = "promote"
  BY RequestType DEF OperationNames
<1>2. Begin(t, r) /\ Reads /\ LocksOK'
  BY AcquireLocks DEF Shape
<1> HIDE DEF b
<1>3. r \in Tx /\ r.pc = "queue" /\ r.op = "promote"
  BY <1>1 DEF Tx, Steps
<1> QED BY <1>2, <1>3, PlainRequestOK

LEMMA CheckMoveOK ==
  ASSUME Shape, NEW t \in Txs, CheckMove(t)
  PROVE  Shape' /\ Sound(t)'
<1> PICK a \in Appts, s \in Slots, client \in BOOLEAN, op \in {"move", "propose"} :
           CheckMove(t)!(a, s, client, op)
  BY DEF CheckMove
<1> DEFINE over == ~Available(s, {a})
           pc == IF s = appt[a].slot THEN "ready" ELSE "queue"
           ver == appt[a].ver
           b == Request(op, a)
           r == [b EXCEPT !.pc = pc, !.slot = s, !.over = over, !.ver = ver]
<1>1. over \in BOOLEAN /\ pc \in {"ready", "queue"} /\ ver \in Nat
  BY DEF Available, Shape, TablesOK, Row
<1>2. b \in Tx /\ b.op = op /\ b.ap = a
  BY RequestType DEF OperationNames
<1>3. Begin(t, r) /\ Reads
  OBVIOUS
<1>4. LocksOK' /\ lock'[ApptLock(a)] = t /\ lock'[ProLock(s.pro)] = t
  <2>1. Acquire(t, ScopeLocks(a, {s.pro}) \cup {})
    OBVIOUS
  <2> QED BY <2>1, ScopeAcquired
<1>5. ~over => \A c \in Appts \ {a} : IsActive(appt[c]) => ~Clash(appt[c].slot, s, Buffer)
  BY DEF Available
<1>6. appt[a].status \in Statuses /\ appt[a].ver = ver
  BY DEF Statuses, ActiveStatuses, ReschedulableStatuses
<1> HIDE DEF b, over, pc, ver
<1>7. r \in Tx /\ r.pc = pc /\ r.op = op /\ r.ap = a /\ r.slot = s /\ r.over = over /\ r.ver = ver
  BY <1>1, <1>2 DEF Tx, Steps
<1> HIDE DEF r
<1>8. Filled(r)
  BY <1>1, <1>7 DEF Filled
<1>9. tx'[t] = r /\ appt' = appt
  BY <1>3, <1>7 DEF Begin, Reads, Shape, TxsOK
<1>10. Sound(t)'
  BY <1>4, <1>5, <1>6, <1>7, <1>9
  DEF Sound, Locked, Fresh, Cleared, ClearOf, Own, Plain, IsExclusive
<1> QED BY <1>3, <1>4, <1>7, <1>8, <1>10, BeginShape

LEMMA CheckAnswerOK ==
  ASSUME Shape, NEW t \in Txs, CheckAnswer(t)
  PROVE  Shape' /\ Sound(t)'
<1> PICK i \in Props, d \in Decisions : CheckAnswer(t)!(i, d)
  BY DEF CheckAnswer
<1> DEFINE a == prop[i].ap
           b == Request("answer", a)
           r == [b EXCEPT !.pc = "ready", !.id = i, !.st = d]
<1>1. a \in Appts
  BY DEF Shape, TablesOK
<1>2. b \in Tx /\ b.op = "answer" /\ b.ap = a
  BY <1>1, RequestType DEF OperationNames
<1>3. Begin(t, r) /\ Reads
  OBVIOUS
<1>4. LocksOK' /\ lock'[ApptLock(a)] = t
  <2>1. Acquire(t, ScopeLocks(a, {}) \cup {})
    OBVIOUS
  <2> QED BY <1>1, <2>1, ScopeAcquired
<1>5. /\ prop[i].status = "PENDING" /\ prop[i].ver = appt[a].ver /\ prop[i].slot = appt[a].slot
      /\ appt[a].status \in Statuses /\ appt[a].status \in ReschedulableStatuses
  BY DEF Statuses, ActiveStatuses, ReschedulableStatuses
<1>6. prop[i].ap = a
  OBVIOUS
<1> HIDE DEF a, b
<1>7. r \in Tx /\ r.pc = "ready" /\ r.op = "answer" /\ r.ap = a /\ r.id = i /\ r.st = d
  BY <1>2 DEF Tx, Steps
<1> HIDE DEF r
<1>8. Filled(r)
  BY <1>1, <1>7 DEF Filled
<1>9. tx'[t] = r /\ appt' = appt /\ prop' = prop
  BY <1>3, <1>7 DEF Begin, Reads, Shape, TxsOK
<1>10. Sound(t)'
  BY <1>4, <1>5, <1>6, <1>7, <1>9 DEF Sound, Locked, Fresh, Cleared, OnSlot, RowWrites
<1> QED BY <1>3, <1>4, <1>7, <1>8, <1>10, BeginShape

LEMMA CheckCancelOK ==
  ASSUME Shape, NEW t \in Txs, CheckCancel(t)
  PROVE  Shape' /\ Sound(t)'
<1> PICK a \in Appts, client \in BOOLEAN : CheckCancel(t)!(a, client)
  BY DEF CheckCancel
<1> DEFINE pc == IF client THEN "queue" ELSE "ready"
           ver == appt[a].ver
           b == Request("cancel", a)
           r == [b EXCEPT !.pc = pc, !.ver = ver]
<1>1. pc \in {"ready", "queue"} /\ ver \in Nat
  BY DEF Shape, TablesOK, Row
<1>2. b \in Tx /\ b.op = "cancel" /\ b.ap = a
  BY RequestType DEF OperationNames
<1>3. Begin(t, r) /\ Reads
  OBVIOUS
<1>4. LocksOK' /\ lock'[ApptLock(a)] = t
  <2>1. Acquire(t, ScopeLocks(a, {}) \cup {})
    OBVIOUS
  <2> QED BY <2>1, ScopeAcquired
<1>5. appt[a].status \in Statuses /\ appt[a].ver = ver
  BY DEF IsActive, Statuses
<1> HIDE DEF b, pc, ver
<1>6. r \in Tx /\ r.pc = pc /\ r.op = "cancel" /\ r.ap = a /\ r.ver = ver
  BY <1>1, <1>2 DEF Tx, Steps
<1> HIDE DEF r
<1>7. Filled(r)
  BY <1>1, <1>6 DEF Filled
<1>8. tx'[t] = r /\ appt' = appt
  BY <1>3, <1>6 DEF Begin, Reads, Shape, TxsOK
<1>9. Sound(t)'
  BY <1>4, <1>5, <1>6, <1>8 DEF Sound, Locked, Fresh, Cleared, OnSlot
<1> QED BY <1>3, <1>4, <1>6, <1>7, <1>9, BeginShape

LEMMA CheckHandoverOK ==
  ASSUME Shape, NEW t \in Txs, CheckHandover(t)
  PROVE  Shape' /\ Sound(t)'
<1> PICK a \in Appts, e \in Entries : CheckHandover(t)!(a, e)
  BY DEF CheckHandover
<1> DEFINE ver == appt[a].ver
           b == Request("handover", a)
           r == [b EXCEPT !.pc = "queue", !.who = e, !.ver = ver]
<1>1. ver \in Nat
  BY DEF Shape, TablesOK, Row
<1>2. b \in Tx /\ b.op = "handover" /\ b.ap = a
  BY RequestType DEF OperationNames
<1>3. Begin(t, r) /\ Reads
  OBVIOUS
<1>4. LocksOK' /\ lock'[ApptLock(a)] = t
  BY ScopeAcquired
<1>5. appt[a].status \in Statuses /\ appt[a].ver = ver
  BY DEF IsActive, Statuses
<1> HIDE DEF b, ver
<1>6. r \in Tx /\ r.pc = "queue" /\ r.op = "handover" /\ r.ap = a /\ r.ver = ver
  BY <1>1, <1>2 DEF Tx, Steps
<1> HIDE DEF r
<1>7. Filled(r)
  BY <1>6 DEF Filled
<1>8. tx'[t] = r /\ appt' = appt
  BY <1>3, <1>6 DEF Begin, Reads, Shape, TxsOK
<1>9. Sound(t)'
  BY <1>4, <1>5, <1>6, <1>8 DEF Sound, Locked, Fresh, Cleared, OnSlot
<1> QED BY <1>3, <1>4, <1>6, <1>7, <1>9, BeginShape

LEMMA CheckStatusOK ==
  ASSUME Shape, NEW t \in Txs, CheckStatus(t)
  PROVE  Shape' /\ Sound(t)'
<1> PICK a \in Appts, st \in Statuses \ {"CANCELLED"} : CheckStatus(t)!(a, st)
  BY DEF CheckStatus
<1> DEFINE ver == appt[a].ver
           b == Request("status", a)
           r == [b EXCEPT !.pc = "ready", !.st = st, !.ver = ver]
<1>1. ver \in Nat
  BY DEF Shape, TablesOK, Row
<1>2. b \in Tx /\ b.op = "status" /\ b.ap = a
  BY RequestType DEF OperationNames
<1>3. Begin(t, r) /\ Reads
  OBVIOUS
<1>4. LocksOK' /\ lock'[ApptLock(a)] = t
  <2>1. Acquire(t, ScopeLocks(a, {}) \cup {})
    OBVIOUS
  <2> QED BY <2>1, ScopeAcquired
<1>5. /\ appt[a].status \in Statuses /\ appt[a].ver = ver
      /\ st \in Transitions[appt[a].status] /\ OperationalTimeOk(st, appt[a].slot.from, now)
  OBVIOUS
<1> HIDE DEF b, ver
<1>6. r \in Tx /\ r.pc = "ready" /\ r.op = "status" /\ r.ap = a /\ r.st = st /\ r.ver = ver
  BY <1>1, <1>2 DEF Tx, Steps
<1> HIDE DEF r
<1>7. Filled(r)
  BY <1>6 DEF Filled
<1>8. tx'[t] = r /\ appt' = appt /\ now' = now
  BY <1>3, <1>6 DEF Begin, Reads, Shape, TxsOK
<1>9. Sound(t)'
  BY <1>4, <1>5, <1>6, <1>8 DEF Sound, Locked, Fresh, Cleared, OnSlot
<1> QED BY <1>3, <1>4, <1>6, <1>7, <1>9, BeginShape

-----------------------------------------------------------------------------
(* What a step of transaction t may change.                                *)

OthersKept(t) ==
  \A u \in Txs \ {t} : tx'[u] = tx[u] /\ \A l \in Locks : lock[l] = u => lock'[l] = u

Left(a) == \/ appt'[a] = appt[a]
           \/ /\ appt[a].status = "ABSENT"
              /\ appt'[a].origin = "WAITLIST" /\ appt'[a].status = "CONFIRMED"
Placed(t, a) ==
  /\ tx[t].pc # "idle" /\ tx[t].op \in OnSlot /\ Own(tx[t]) \subseteq {a}
  /\ appt[a].status = "ABSENT" \/ lock[ApptLock(a)] = t
  /\ appt'[a].slot = tx[t].slot /\ appt'[a].over = tx[t].over /\ appt'[a].status = "CONFIRMED"
Restated(t, a) ==
  /\ lock[ApptLock(a)] = t
  /\ appt'[a].slot = appt[a].slot /\ appt'[a].over = appt[a].over /\ appt'[a].origin = appt[a].origin
  /\ IsActive(appt'[a]) => IsActive(appt[a])
  /\ appt'[a].status \in AttendanceStatuses => appt[a].slot.from <= now

ApptWrites(t) ==
  \/ \A a \in Appts : Left(a)
  \/ \E w \in Appts : /\ Placed(t, w) \/ Restated(t, w)
                      /\ \A a \in Appts \ {w} : Left(a)

PropWrites(t) ==
  \A i \in Props : \/ prop'[i] = prop[i] \/ prop[i].status = "ABSENT"
                   \/ prop[i].ap \in Appts /\ lock[ApptLock(prop[i].ap)] = t

StepOf(t) == OthersKept(t) /\ ApptWrites(t) /\ PropWrites(t) /\ now' = now

LEMMA EndKeepsOthers ==
  ASSUME Shape, NEW t \in Txs, End(t)
  PROVE  OthersKept(t) /\ Sound(t)'
BY IdleType DEF OthersKept, End, Shape, TxsOK, Sound

LEMMA AcquireKeepsOthers ==
  ASSUME Shape, NEW t \in Txs, NEW ls, NEW r, Acquire(t, ls), tx' = [tx EXCEPT ![t] = r]
  PROVE  OthersKept(t)
BY Acquired DEF OthersKept, Shape, TxsOK

LEMMA ReadsStep ==
  ASSUME Shape, NEW t \in Txs, OthersKept(t), Reads
  PROVE  StepOf(t)
BY DEF Reads, StepOf, ApptWrites, Left, PropWrites

(* Every step that only locks and reads.                                   *)
Checks(t) ==
  \/ CheckCreate(t) \/ CheckJoin(t) \/ ReadLeave(t) \/ ReadElsewhere(t)
  \/ CheckMove(t) \/ QueueMove(t) \/ CheckAnswer(t) \/ CheckCancel(t) \/ QueueCancel(t)
  \/ CheckPromote(t) \/ CheckHandover(t) \/ QueuePromote(t) \/ CheckStatus(t)

LEMMA ChecksStep ==
  ASSUME Shape, NEW t \in Txs, Checks(t)
  PROVE  StepOf(t)
<1>1. Reads
  BY DEF Checks, CheckCreate, CheckJoin, ReadLeave, ReadElsewhere, CheckMove, QueueMove, CheckAnswer,
         CheckCancel, QueueCancel, CheckPromote, CheckHandover, QueuePromote, CheckStatus
<1>2. OthersKept(t)
  <2>1. CASE CheckCreate(t)  BY <2>1, AcquireKeepsOthers DEF CheckCreate, Begin
  <2>2. CASE CheckJoin(t)  BY <2>2, AcquireKeepsOthers DEF CheckJoin, Begin
  <2>3. CASE CheckMove(t)
    <3>1. PICK a \in Appts, s \in Slots, client \in BOOLEAN, op \in {"move", "propose"} :
                 CheckMove(t)!(a, s, client, op)
      BY <2>3 DEF CheckMove
    <3> QED BY <3>1, AcquireKeepsOthers DEF Begin
  <2>4. CASE QueueMove(t)  BY <2>4, AcquireKeepsOthers DEF QueueMove
  <2>5. CASE CheckAnswer(t)  BY <2>5, AcquireKeepsOthers DEF CheckAnswer, Begin
  <2>6. CASE CheckCancel(t)  BY <2>6, AcquireKeepsOthers DEF CheckCancel, Begin
  <2>7. CASE QueueCancel(t)  BY <2>7, AcquireKeepsOthers DEF QueueCancel
  <2>8. CASE CheckPromote(t)  BY <2>8, AcquireKeepsOthers DEF CheckPromote, Begin
  <2>9. CASE CheckHandover(t)  BY <2>9, AcquireKeepsOthers DEF CheckHandover, Begin
  <2>10. CASE QueuePromote(t)  BY <2>10, AcquireKeepsOthers DEF QueuePromote
  <2>11. CASE CheckStatus(t)  BY <2>11, AcquireKeepsOthers DEF CheckStatus, Begin
  <2>12. CASE ReadLeave(t) \/ ReadElsewhere(t)
    BY <2>12 DEF ReadLeave, ReadElsewhere, Begin, OthersKept, Shape, TxsOK
  <2> QED BY <2>1, <2>2, <2>3, <2>4, <2>5, <2>6, <2>7, <2>8, <2>9, <2>10, <2>11, <2>12 DEF Checks
<1> QED BY <1>1, <1>2, ReadsStep

(* Going on with a transaction: what it knows stays as it was.             *)
LEMMA ContinueOK ==
  ASSUME Shape, NEW t \in Txs, Sound(t), tx[t].pc # "idle",
         NEW r \in Tx, tx' = [tx EXCEPT ![t] = r], Filled(r),
         r.op = tx[t].op, r.slot = tx[t].slot, r.over = tx[t].over, r.ver = tx[t].ver,
         r.st = tx[t].st, r.id = tx[t].id, r.op = "elsewhere" \/ r.ap = tx[t].ap,
         LocksOK', \A l \in Locks : lock[l] = t => lock'[l] = t, Reads
  PROVE  Shape' /\ Sound(t)'
<1>1. Shape'
  BY OneTransaction, ReadsTables DEF Shape
<1>2. tx'[t] = r /\ appt' = appt /\ prop' = prop /\ now' = now
  BY DEF Reads, Shape, TxsOK
<1>3. tx[t].op \in OnRow => tx[t].ap \in Appts
  BY DEF Shape, TxsOK, Filled
<1>4. tx[t].slot \in Slots
  BY DEF Shape, TxsOK, Tx
<1>5. Locked(t)' /\ Fresh(t)'
  BY <1>2, <1>3, <1>4, LockNames DEF Sound, Locked, Fresh, OnRow, RowWrites
<1>6. Cleared(t)'
  BY <1>2 DEF Sound, Cleared, ClearOf, Own, Plain, IsExclusive
<1> QED BY <1>1, <1>5, <1>6 DEF Sound

LEMMA ReadElsewhereOK ==
  ASSUME Shape, NEW t \in Txs, Sound(t), ReadElsewhere(t)
  PROVE  Shape' /\ Sound(t)'
<1> DEFINE x == tx[t]
           ap == entry[x.who].ap
           r == [x EXCEPT !.pc = "queue", !.ap = ap]
<1>1. x \in Tx /\ Filled(x) /\ x.pc = "entry" /\ x.op = "elsewhere" /\ x.who \in Entries
  BY DEF ReadElsewhere, Shape, TxsOK, Filled
<1>2. ap \in Appts \cup {None}
  BY <1>1 DEF Shape, TablesOK, Entry
<1>3. tx' = [tx EXCEPT ![t] = r] /\ Reads /\ lock' = lock
  BY DEF ReadElsewhere
<1> HIDE DEF x, ap
<1>4. /\ r \in Tx /\ r.pc = "queue" /\ r.op = x.op /\ r.slot = x.slot /\ r.over = x.over
      /\ r.ver = x.ver /\ r.st = x.st /\ r.id = x.id /\ r.who = x.who
  BY <1>1, <1>2 DEF Tx, Steps
<1>5. Filled(r)
  BY <1>1, <1>4 DEF Filled, OnRow, RowWrites
<1>6. LocksOK'
  BY <1>3 DEF Shape, LocksOK
<1> HIDE DEF r
<1> QED BY <1>1, <1>3, <1>4, <1>5, <1>6, ContinueOK DEF x

(* Reading the queue under its lock: an entry to promote is found or none. *)
LEMMA QueueOK ==
  ASSUME Shape, NEW t \in Txs, Sound(t), tx[t].pc = "queue", NEW e \in Entries \cup {None},
         NEW ls, Acquire(t, ls), Reads,
         tx' = [tx EXCEPT ![t] = [@ EXCEPT !.pc = "ready", !.promo = e]]
  PROVE  Shape' /\ Sound(t)'
<1> DEFINE x == tx[t]
           r == [x EXCEPT !.pc = "ready", !.promo = e]
<1>1. x \in Tx /\ Filled(x) /\ x.pc = "queue"
  BY DEF Shape, TxsOK
<1>2. tx' = [tx EXCEPT ![t] = r]
  OBVIOUS
<1>3. LocksOK' /\ \A l \in Locks : lock[l] = t => lock'[l] = t
  BY AcquireLocks, Acquired DEF Shape
<1> HIDE DEF x
<1>4. /\ r \in Tx /\ r.pc = "ready" /\ r.op = x.op /\ r.slot = x.slot /\ r.over = x.over
      /\ r.ver = x.ver /\ r.st = x.st /\ r.id = x.id /\ r.who = x.who /\ r.ap = x.ap
  BY <1>1 DEF Tx, Steps
<1>5. Filled(r)
  BY <1>1, <1>4 DEF Filled
<1> HIDE DEF r
<1> QED BY <1>1, <1>2, <1>3, <1>4, <1>5, ContinueOK DEF x

LEMMA QueueEmptyOK ==
  ASSUME Shape, NEW t \in Txs, Sound(t), tx[t].pc = "queue",
         NEW ls, Acquire(t, ls), Reads, tx' = [tx EXCEPT ![t] = [@ EXCEPT !.pc = "ready"]]
  PROVE  Shape' /\ Sound(t)'
<1> DEFINE x == tx[t]
           r == [x EXCEPT !.pc = "ready"]
<1>1. x \in Tx /\ Filled(x) /\ x.pc = "queue"
  BY DEF Shape, TxsOK
<1>2. tx' = [tx EXCEPT ![t] = r]
  OBVIOUS
<1>3. LocksOK' /\ \A l \in Locks : lock[l] = t => lock'[l] = t
  BY AcquireLocks, Acquired DEF Shape
<1> HIDE DEF x
<1>4. /\ r \in Tx /\ r.pc = "ready" /\ r.op = x.op /\ r.slot = x.slot /\ r.over = x.over
      /\ r.ver = x.ver /\ r.st = x.st /\ r.id = x.id /\ r.who = x.who /\ r.ap = x.ap
  BY <1>1 DEF Tx, Steps
<1>5. Filled(r)
  BY <1>1, <1>4 DEF Filled
<1> HIDE DEF r
<1> QED BY <1>1, <1>2, <1>3, <1>4, <1>5, ContinueOK DEF x

LEMMA ChecksOK ==
  ASSUME Shape, NEW t \in Txs, Sound(t), Checks(t)
  PROVE  Shape' /\ Sound(t)'
<1>1. CASE QueueMove(t)
  BY <1>1, QueueOK, QueueEmptyOK DEF QueueMove
<1>2. CASE QueueCancel(t)
  BY <1>2, QueueOK, QueueEmptyOK DEF QueueCancel
<1>3. CASE QueuePromote(t)
  <2>1. tx[t].who \in Entries \cup {None}
    BY DEF Shape, TxsOK, Tx
  <2> QED BY <1>3, <2>1, QueueOK DEF QueuePromote
<1> QED
  BY <1>1, <1>2, <1>3, CheckCreateOK, CheckJoinOK, ReadLeaveOK, ReadElsewhereOK, CheckMoveOK,
     CheckAnswerOK, CheckCancelOK, CheckPromoteOK, CheckHandoverOK, CheckStatusOK DEF Checks

-----------------------------------------------------------------------------
(* The steps that write.                                                   *)

LEMMA InsertWrites ==
  ASSUME Shape, NEW t \in Txs, tx[t].pc # "idle", tx[t].op \in {"create", "elsewhere"},
         NEW a \in Appts, Insert(t, a)
  PROVE  /\ appt' \in [Appts -> Row]
         /\ ApptWrites(t)
<1> DEFINE new == [status |-> "CONFIRMED", slot |-> tx[t].slot, ver |-> 1,
                   over |-> tx[t].over, key |-> tx[t].key, origin |-> "DIRECT"]
<1>1. new \in Row
  BY DEF Row, Shape, TxsOK, Tx, Statuses, ActiveStatuses
<1>2. appt' = [appt EXCEPT ![a] = new] /\ appt[a].status = "ABSENT"
  BY DEF Insert, IsFresh
<1>3. new.slot = tx[t].slot /\ new.over = tx[t].over /\ new.status = "CONFIRMED"
  OBVIOUS
<1> HIDE DEF new
<1>4. appt' \in [Appts -> Row] /\ appt'[a] = new /\ \A b \in Appts \ {a} : appt'[b] = appt[b]
  BY <1>1, <1>2 DEF Shape, TablesOK
<1>5. Placed(t, a)
  BY <1>2, <1>3, <1>4 DEF Placed, Own, OnSlot
<1> QED BY <1>4, <1>5 DEF ApptWrites, Left

LEMMA PromotingWrites ==
  ASSUME Shape, NEW t \in Txs, NEW tab \in [Appts -> Row], Promoting(t, tab)
  PROVE  /\ appt' \in [Appts -> Row]
         /\ entry' \in [Entries -> Entry]
         /\ \A a \in Appts : \/ appt'[a] = tab[a]
                             \/ /\ appt[a].status = "ABSENT"
                                /\ appt'[a].origin = "WAITLIST" /\ appt'[a].status = "CONFIRMED"
<1>1. CASE tx[t].promo = None
  BY <1>1 DEF Promoting, Shape, TablesOK
<1>2. CASE tx[t].promo # None
  <2> DEFINE e == tx[t].promo
             new == PromotedRow(e)
  <2>1. e \in Entries
    BY <1>2 DEF Shape, TxsOK, Tx
  <2>2. PICK b \in Appts : /\ appt[b].status = "ABSENT" /\ appt' = [tab EXCEPT ![b] = new]
                           /\ entry' = Chain(e, tx[t].ap, b)
    BY <1>2 DEF Promoting, IsFresh
  <2>3. new \in Row /\ new.origin = "WAITLIST" /\ new.status = "CONFIRMED"
    BY <2>1 DEF PromotedRow, Row, Shape, TablesOK, Entry, Statuses, ActiveStatuses
  <2>4. entry' \in [Entries -> Entry]
    BY <2>1, <2>2 DEF Chain, Shape, TablesOK, Entry
  <2> HIDE DEF new
  <2> QED BY <2>2, <2>3, <2>4
<1> QED BY <1>1, <1>2

(* Superseded only closes proposals of the one appointment.                *)
LEMMA SupersededTypes ==
  ASSUME Shape, NEW a
  PROVE  /\ Superseded(a) \in [Props -> Prop]
         /\ \A i \in Props : /\ Superseded(a)[i].ap = prop[i].ap
                             /\ Superseded(a)[i] = prop[i] \/ prop[i].ap = a
                             /\ prop[i].status = "ABSENT" => Superseded(a)[i].status = "ABSENT"
                             /\ prop[i].status # "ABSENT" => prop[i].ap \in Appts
BY DEF Superseded, Shape, TablesOK, Prop

(* A transaction that rewrites one existing row under its lock, and may    *)
(* promote an entry.                                                       *)
LEMMA RewriteWrites ==
  ASSUME Shape, NEW t \in Txs, NEW a \in Appts, NEW new \in Row,
         appt[a].status # "ABSENT", Promoting(t, [appt EXCEPT ![a] = new])
  PROVE  /\ appt' \in [Appts -> Row] /\ entry' \in [Entries -> Entry]
         /\ appt'[a] = new /\ \A b \in Appts \ {a} : Left(b)
<1> DEFINE tab == [appt EXCEPT ![a] = new]
<1>1. tab \in [Appts -> Row] /\ tab[a] = new /\ \A b \in Appts \ {a} : tab[b] = appt[b]
  BY DEF Shape, TablesOK
<1> HIDE DEF tab
<1>2. /\ appt' \in [Appts -> Row] /\ entry' \in [Entries -> Entry]
      /\ \A b \in Appts : \/ appt'[b] = tab[b]
                          \/ /\ appt[b].status = "ABSENT"
                             /\ appt'[b].origin = "WAITLIST" /\ appt'[b].status = "CONFIRMED"
  BY <1>1, PromotingWrites DEF tab
<1> QED BY <1>1, <1>2 DEF Left

LEMMA TransitionsStart ==
  \A s \in Statuses : \A st \in Transitions[s] : s \in ActiveStatuses /\ st \in Statuses
BY DEF Transitions, Statuses, ActiveStatuses, ClosedStatuses

(* What the commits that rewrite a row leave in it.                        *)
LEMMA MoveRewrites ==
  ASSUME Shape, NEW t \in Txs, Sound(t), CommitMove(t)
  PROVE  LET a == tx[t].ap IN
         /\ a \in Appts /\ lock[ApptLock(a)] = t /\ IsActive(appt[a])
         /\ appt'[a].slot = tx[t].slot /\ appt'[a].over = tx[t].over
         /\ appt'[a].status = "CONFIRMED" /\ appt'[a].ver = tx[t].ver + 1 /\ appt'[a].origin = appt[a].origin
         /\ appt' \in [Appts -> Row] /\ entry' \in [Entries -> Entry]
         /\ \A b \in Appts \ {a} : Left(b)
<1> DEFINE a == tx[t].ap
           old == appt[a]
           ver == old.ver + 1
           s == tx[t].slot
           over == tx[t].over
           new == [old EXCEPT !.slot = s, !.over = over, !.status = "CONFIRMED", !.ver = ver]
<1>1. a \in Appts /\ s \in Slots /\ over \in BOOLEAN /\ lock[ApptLock(a)] = t /\ ver = tx[t].ver + 1
  BY DEF CommitMove, Current, Shape, TxsOK, Tx, Filled, OnRow, RowWrites, Sound, Locked
<1>2. old \in Row /\ old.status # "ABSENT" /\ IsActive(appt[a])
  BY <1>1 DEF CommitMove, Current, IsActive, ActiveStatuses, Shape, TablesOK
<1>3. Promoting(t, [appt EXCEPT ![a] = new])
  BY DEF CommitMove
<1>4. /\ new \in Row /\ new.slot = s /\ new.over = over
      /\ new.status = "CONFIRMED" /\ new.ver = ver /\ new.origin = old.origin
  <2>1. ver \in Nat
    BY <1>2 DEF Row
  <2> HIDE DEF old, s, over, ver
  <2> QED BY <1>1, <1>2, <2>1 DEF Row, Statuses, ActiveStatuses
<1> HIDE DEF new
<1>5. /\ appt' \in [Appts -> Row] /\ entry' \in [Entries -> Entry]
      /\ appt'[a] = new /\ \A b \in Appts \ {a} : Left(b)
  BY <1>1, <1>2, <1>3, <1>4, RewriteWrites
<1> QED BY <1>1, <1>2, <1>4, <1>5

LEMMA CancelRewrites ==
  ASSUME Shape, NEW t \in Txs, Sound(t), CommitCancel(t)
  PROVE  LET a == tx[t].ap IN
         /\ a \in Appts /\ lock[ApptLock(a)] = t /\ IsActive(appt[a])
         /\ appt'[a].slot = appt[a].slot /\ appt'[a].over = appt[a].over
         /\ appt'[a].origin = appt[a].origin /\ appt'[a].status = "CANCELLED"
         /\ appt' \in [Appts -> Row] /\ entry' \in [Entries -> Entry]
         /\ \A b \in Appts \ {a} : Left(b)
<1> DEFINE a == tx[t].ap
           old == appt[a]
           ver == old.ver + 1
           new == [old EXCEPT !.status = "CANCELLED", !.ver = ver]
<1>1. a \in Appts /\ lock[ApptLock(a)] = t
  BY DEF CommitCancel, Shape, TxsOK, Filled, OnRow, RowWrites, Sound, Locked
<1>2. old \in Row /\ old.status # "ABSENT" /\ IsActive(appt[a])
  BY <1>1 DEF CommitCancel, Current, IsActive, ActiveStatuses, Shape, TablesOK
<1>3. Promoting(t, [appt EXCEPT ![a] = new])
  BY DEF CommitCancel
<1>4. /\ new \in Row /\ new.slot = old.slot /\ new.over = old.over
      /\ new.status = "CANCELLED" /\ new.origin = old.origin
  <2>1. ver \in Nat
    BY <1>2 DEF Row
  <2> HIDE DEF old, ver
  <2> QED BY <1>1, <1>2, <2>1 DEF Row, Statuses, ClosedStatuses
<1> HIDE DEF new
<1>5. /\ appt' \in [Appts -> Row] /\ entry' \in [Entries -> Entry]
      /\ appt'[a] = new /\ \A b \in Appts \ {a} : Left(b)
  BY <1>1, <1>2, <1>3, <1>4, RewriteWrites
<1> QED BY <1>1, <1>2, <1>4, <1>5

LEMMA StatusRewrites ==
  ASSUME Shape, NEW t \in Txs, Sound(t), CommitStatus(t)
  PROVE  LET a == tx[t].ap IN
         /\ a \in Appts /\ lock[ApptLock(a)] = t /\ IsActive(appt[a])
         /\ tx[t].st \in Transitions[appt[a].status] \ {"CANCELLED"}
         /\ OperationalTimeOk(tx[t].st, appt[a].slot.from, now)
         /\ appt'[a].slot = appt[a].slot /\ appt'[a].over = appt[a].over
         /\ appt'[a].origin = appt[a].origin /\ appt'[a].status = tx[t].st
         /\ appt' \in [Appts -> Row]
         /\ \A b \in Appts \ {a} : appt'[b] = appt[b]
<1> DEFINE a == tx[t].ap
           old == appt[a]
           ver == old.ver + 1
           st == tx[t].st
           new == [old EXCEPT !.status = st, !.ver = ver]
<1>1. a \in Appts /\ lock[ApptLock(a)] = t /\ old.status \in Statuses /\ st \in Transitions[old.status]
      /\ st # "CANCELLED" /\ OperationalTimeOk(st, old.slot.from, now)
  BY DEF CommitStatus, Shape, TxsOK, Filled, OnRow, RowWrites, Sound, Locked, Fresh
<1>2. old \in Row /\ IsActive(old) /\ st \in Statuses
  BY <1>1, TransitionsStart DEF IsActive, Shape, TablesOK
<1>3. appt' = [appt EXCEPT ![a] = new]
  BY DEF CommitStatus
<1>4. /\ new \in Row /\ new.slot = old.slot /\ new.over = old.over
      /\ new.status = st /\ new.origin = old.origin
  <2>1. ver \in Nat
    BY <1>2 DEF Row
  <2> HIDE DEF old, st, ver
  <2> QED BY <1>1, <1>2, <2>1 DEF Row
<1> HIDE DEF new
<1>5. appt' \in [Appts -> Row] /\ appt'[a] = new /\ \A b \in Appts \ {a} : appt'[b] = appt[b]
  BY <1>1, <1>3, <1>4 DEF Shape, TablesOK
<1> QED BY <1>1, <1>2, <1>4, <1>5

Commits(t) ==
  \/ CommitCreate(t) \/ CommitJoin(t) \/ CommitLeave(t) \/ CommitElsewhere(t) \/ CommitMove(t)
  \/ CommitAnswer(t) \/ CommitCancel(t) \/ CommitPromote(t) \/ CommitStatus(t) \/ Rollback(t)

LEMMA CommitCreateOK ==
  ASSUME Shape, NEW t \in Txs, Sound(t), CommitCreate(t)
  PROVE  TablesOK' /\ StepOf(t)
<1>1. appt' \in [Appts -> Row] /\ ApptWrites(t)
  BY InsertWrites DEF CommitCreate
<1> QED BY <1>1, EndKeepsOthers DEF CommitCreate, Shape, TablesOK, StepOf, PropWrites

LEMMA CommitJoinOK ==
  ASSUME Shape, NEW t \in Txs, Sound(t), CommitJoin(t)
  PROVE  TablesOK' /\ StepOf(t)
<1>1. PICK e \in Entries :
        entry' = [entry EXCEPT ![e] = [state |-> "WAITING", ap |-> tx[t].ap,
                                       slot |-> tx[t].slot, booking |-> None]]
  BY DEF CommitJoin
<1>2. [state |-> "WAITING", ap |-> tx[t].ap, slot |-> tx[t].slot, booking |-> None] \in Entry
  BY DEF Entry, Shape, TxsOK, Tx
<1>3. entry' \in [Entries -> Entry]
  BY <1>1, <1>2 DEF Shape, TablesOK
<1> QED BY <1>3, EndKeepsOthers DEF CommitJoin, Shape, TablesOK, StepOf, ApptWrites, Left, PropWrites

LEMMA CommitLeaveOK ==
  ASSUME Shape, NEW t \in Txs, Sound(t), CommitLeave(t)
  PROVE  TablesOK' /\ StepOf(t)
<1>1. entry' \in [Entries -> Entry]
  BY DEF CommitLeave, Shape, TablesOK, Entry
<1> QED BY <1>1, EndKeepsOthers DEF CommitLeave, Shape, TablesOK, StepOf, ApptWrites, Left, PropWrites

LEMMA CommitElsewhereOK ==
  ASSUME Shape, NEW t \in Txs, Sound(t), CommitElsewhere(t)
  PROVE  TablesOK' /\ StepOf(t)
<1> DEFINE e == tx[t].who
<1>1. PICK a \in Appts : Insert(t, a) /\ entry' = [entry EXCEPT ![e] = [@ EXCEPT !.state = "FULFILLED", !.booking = a]]
  BY DEF CommitElsewhere
<1>2. appt' \in [Appts -> Row] /\ ApptWrites(t)
  BY <1>1, InsertWrites DEF CommitElsewhere
<1>3. entry' \in [Entries -> Entry]
  BY <1>1 DEF Shape, TablesOK, Entry
<1> QED BY <1>2, <1>3, EndKeepsOthers DEF CommitElsewhere, Shape, TablesOK, StepOf, PropWrites

LEMMA CommitMoveOK ==
  ASSUME Shape, NEW t \in Txs, Sound(t), CommitMove(t)
  PROVE  TablesOK' /\ StepOf(t)
<1> DEFINE a == tx[t].ap
           s == tx[t].slot
<1>1. /\ a \in Appts /\ lock[ApptLock(a)] = t /\ \A b \in Appts \ {a} : Left(b)
      /\ appt' \in [Appts -> Row] /\ entry' \in [Entries -> Entry]
      /\ appt'[a].slot = s /\ appt'[a].over = tx[t].over /\ appt'[a].status = "CONFIRMED"
  BY MoveRewrites
<1>2. s \in Slots /\ tx[t].pc # "idle" /\ tx[t].op \in {"move", "propose"}
  BY DEF CommitMove, Shape, TxsOK, Tx
<1>3. Placed(t, a)
  BY <1>1, <1>2 DEF Placed, Own, OnSlot
<1>4. /\ prop' \in [Props -> Prop] /\ PropWrites(t)
      /\ \A i \in Props : prop'[i].status # "ABSENT" => prop'[i].ap \in Appts
  <2>1. CASE prop' = Superseded(a)
    BY <1>1, <2>1, SupersededTypes DEF PropWrites
  <2>2. CASE \E i \in Props :
               /\ prop[i].status = "ABSENT"
               /\ prop' = [Superseded(a) EXCEPT ![i] = [status |-> "PENDING", ap |-> a, slot |-> s,
                                                        ver |-> tx[t].ver + 1]]
    <3> DEFINE p == [status |-> "PENDING", ap |-> a, slot |-> s, ver |-> tx[t].ver + 1]
    <3>1. p \in Prop /\ p.ap \in Appts
      BY <1>1, <1>2 DEF Prop, Shape, TxsOK, Tx
    <3>2. PICK i \in Props : prop[i].status = "ABSENT" /\ prop' = [Superseded(a) EXCEPT ![i] = p]
      BY <2>2
    <3> HIDE DEF p
    <3> QED BY <1>1, <3>1, <3>2, SupersededTypes DEF PropWrites
  <2> QED BY <2>1, <2>2 DEF CommitMove, Propose
<1> HIDE DEF a, s
<1> QED BY <1>1, <1>3, <1>4, EndKeepsOthers DEF CommitMove, Shape, TablesOK, StepOf, ApptWrites

LEMMA CommitAnswerOK ==
  ASSUME Shape, NEW t \in Txs, Sound(t), CommitAnswer(t)
  PROVE  TablesOK' /\ StepOf(t)
<1> DEFINE i == tx[t].id
           d == tx[t].st
<1>1. /\ i \in Props /\ d \in Decisions
      /\ prop[i].ap \in Appts /\ lock[ApptLock(prop[i].ap)] = t
  BY DEF CommitAnswer, Shape, TxsOK, Filled, OnRow, Sound, Locked, Fresh
<1>2. prop' = [prop EXCEPT ![i] = [@ EXCEPT !.status = d]]
  BY DEF CommitAnswer
<1> HIDE DEF i, d
<1>3. prop' \in [Props -> Prop] /\ \A j \in Props : prop'[j].ap = prop[j].ap /\ (j # i => prop'[j] = prop[j])
  BY <1>1, <1>2 DEF Shape, TablesOK, Prop
<1>4. PropWrites(t) /\ \A j \in Props : prop'[j].status # "ABSENT" => prop'[j].ap \in Appts
  BY <1>1, <1>3 DEF PropWrites, Shape, TablesOK
<1> QED BY <1>3, <1>4, EndKeepsOthers DEF CommitAnswer, Shape, TablesOK, StepOf, ApptWrites, Left

LEMMA CommitCancelOK ==
  ASSUME Shape, NEW t \in Txs, Sound(t), CommitCancel(t)
  PROVE  TablesOK' /\ StepOf(t)
<1> DEFINE a == tx[t].ap
<1>1. /\ a \in Appts /\ lock[ApptLock(a)] = t /\ \A b \in Appts \ {a} : Left(b)
      /\ appt' \in [Appts -> Row] /\ entry' \in [Entries -> Entry] /\ appt'[a].status = "CANCELLED"
      /\ appt'[a].slot = appt[a].slot /\ appt'[a].over = appt[a].over /\ appt'[a].origin = appt[a].origin
  BY CancelRewrites
<1>2. Restated(t, a)
  BY <1>1 DEF Restated, IsActive, ActiveStatuses, AttendanceStatuses
<1>3. /\ prop' \in [Props -> Prop] /\ PropWrites(t)
      /\ \A i \in Props : prop'[i].status # "ABSENT" => prop'[i].ap \in Appts
  BY <1>1, SupersededTypes DEF PropWrites, CommitCancel
<1> HIDE DEF a
<1> QED BY <1>1, <1>2, <1>3, EndKeepsOthers DEF CommitCancel, Shape, TablesOK, StepOf, ApptWrites

LEMMA CommitPromoteOK ==
  ASSUME Shape, NEW t \in Txs, Sound(t), CommitPromote(t)
  PROVE  TablesOK' /\ StepOf(t)
<1>1. /\ appt' \in [Appts -> Row] /\ entry' \in [Entries -> Entry]
      /\ \A a \in Appts : \/ appt'[a] = appt[a]
                          \/ /\ appt[a].status = "ABSENT"
                             /\ appt'[a].origin = "WAITLIST" /\ appt'[a].status = "CONFIRMED"
  BY PromotingWrites DEF CommitPromote, Shape, TablesOK
<1>2. ApptWrites(t)
  BY <1>1 DEF ApptWrites, Left
<1> QED BY <1>1, <1>2, EndKeepsOthers DEF CommitPromote, Shape, TablesOK, StepOf, PropWrites

LEMMA CommitStatusOK ==
  ASSUME Shape, NEW t \in Txs, Sound(t), CommitStatus(t)
  PROVE  TablesOK' /\ StepOf(t)
<1> DEFINE a == tx[t].ap
<1>1. /\ a \in Appts /\ lock[ApptLock(a)] = t /\ IsActive(appt[a])
      /\ OperationalTimeOk(tx[t].st, appt[a].slot.from, now)
      /\ appt'[a].slot = appt[a].slot /\ appt'[a].over = appt[a].over
      /\ appt'[a].origin = appt[a].origin /\ appt'[a].status = tx[t].st
      /\ appt' \in [Appts -> Row] /\ \A b \in Appts \ {a} : appt'[b] = appt[b]
  BY StatusRewrites
<1>2. Restated(t, a)
  BY <1>1 DEF Restated, OperationalTimeOk
<1>3. /\ prop' \in [Props -> Prop] /\ PropWrites(t)
      /\ \A i \in Props : prop'[i].status # "ABSENT" => prop'[i].ap \in Appts
  <2>1. prop' = Superseded(a) \/ prop' = prop
    BY DEF CommitStatus
  <2> QED BY <1>1, <2>1, SupersededTypes DEF PropWrites, Shape, TablesOK
<1> HIDE DEF a
<1> QED BY <1>1, <1>2, <1>3, EndKeepsOthers DEF CommitStatus, Shape, TablesOK, StepOf, ApptWrites, Left

-----------------------------------------------------------------------------
(* A step of one transaction and what the others know.                     *)

LEMMA RowKept ==
  ASSUME Shape, NEW t \in Txs, NEW a \in Appts, ApptWrites(t),
         appt[a].status # "ABSENT", lock[ApptLock(a)] # t
  PROVE  appt'[a] = appt[a]
BY DEF ApptWrites, Left, Placed, Restated

LEMMA ClashSymmetric == \A r, s, gap : Clash(r, s, gap) <=> Clash(s, r, gap)
BY DEF Clash

(* A row that keeps the buffer after the step did so before it, in the     *)
(* same slot, unless the step placed it.                                   *)
LEMMA PlainBefore ==
  ASSUME Shape, NEW t \in Txs, NEW a \in Appts, ApptWrites(t), Plain(appt'[a]), ~Placed(t, a)
  PROVE  Plain(appt[a]) /\ appt'[a].slot = appt[a].slot
BY DEF ApptWrites, Left, Restated, Plain, IsExclusive

LEMMA SoundOther ==
  ASSUME Shape, NEW t \in Txs, NEW u \in Txs \ {t}, Sound(t), Sound(u), StepOf(t)
  PROVE  Sound(u)'
<1> SUFFICES ASSUME tx[u].pc # "idle"
             PROVE  Locked(u)' /\ Fresh(u)' /\ Cleared(u)'
  BY DEF Sound, StepOf, OthersKept
<1>1. tx'[u] = tx[u] /\ \A l \in Locks : lock[l] = u => lock'[l] = u
  BY DEF StepOf, OthersKept
<1>2. tx[u].slot \in Slots /\ (tx[u].op \in OnRow => tx[u].ap \in Appts) /\ Locked(u) /\ Fresh(u) /\ Cleared(u)
  BY DEF Shape, TxsOK, Tx, Filled, Sound
<1>3. Locked(u)'
  BY <1>1, <1>2, LockNames DEF Locked
<1>4. tx[u].op \in OnRow => appt'[tx[u].ap] = appt[tx[u].ap]
  <2> SUFFICES ASSUME tx[u].op \in OnRow PROVE appt'[tx[u].ap] = appt[tx[u].ap]
    OBVIOUS
  <2>1. lock[ApptLock(tx[u].ap)] # t /\ appt[tx[u].ap].status # "ABSENT" /\ tx[u].ap \in Appts
    BY <1>2 DEF Locked, Fresh, Statuses, ActiveStatuses, ClosedStatuses
  <2> QED BY <2>1, RowKept DEF StepOf
<1>5. tx[u].op = "answer" => prop'[tx[u].id] = prop[tx[u].id]
  <2> SUFFICES ASSUME tx[u].op = "answer" PROVE prop'[tx[u].id] = prop[tx[u].id]
    OBVIOUS
  <2>1. tx[u].id \in Props
    BY DEF Shape, TxsOK, Filled
  <2>2. prop[tx[u].id].status = "PENDING" /\ lock[ApptLock(prop[tx[u].id].ap)] = u
    BY <1>2 DEF Locked, Fresh, OnRow
  <2> QED BY <2>1, <2>2 DEF StepOf, PropWrites
<1>6. Fresh(u)'
  <2>1. now' = now
    BY DEF StepOf
  <2>2. "answer" \in OnRow /\ "status" \in OnRow /\ RowWrites \subseteq OnRow
    BY DEF OnRow, RowWrites
  <2> QED BY <1>1, <1>2, <1>4, <1>5, <2>1, <2>2 DEF Fresh
<1>7. Cleared(u)'
  <2> SUFFICES ASSUME tx[u].op \in OnSlot, ~tx[u].over,
                      NEW b \in Appts \ Own(tx[u]), Plain(appt'[b])
               PROVE  ~Clash(appt'[b].slot, tx[u].slot, Buffer)
    BY <1>1 DEF Cleared, ClearOf, Own, Plain, IsExclusive, IsActive
  <2>1. CASE Placed(t, b)
    <3>1. lock[ProLock(tx[t].slot.pro)] = t /\ lock[ProLock(tx[u].slot.pro)] = u
      BY <1>2, <2>1 DEF Placed, Sound, Locked
    <3> QED BY <2>1, <3>1 DEF Placed, Clash
  <2>2. CASE ~Placed(t, b)
    BY <1>2, <2>2, PlainBefore DEF StepOf, Cleared, ClearOf
  <2> QED BY <2>1, <2>2
<1> QED BY <1>3, <1>6, <1>7

LEMMA BufferStep ==
  ASSUME Shape, NEW t \in Txs, Sound(t), StepOf(t), BufferKept
  PROVE  BufferKept'
<1> SUFFICES ASSUME NEW a \in Appts, NEW b \in Appts, a # b, Plain(appt'[a]), Plain(appt'[b])
             PROVE  ~Clash(appt'[a].slot, appt'[b].slot, Buffer)
  BY DEF BufferKept, Plain, IsExclusive, IsActive
<1> DEFINE Kept(p) == Plain(appt[p]) /\ appt'[p].slot = appt[p].slot
<1>1. \A p \in Appts : Plain(appt'[p]) /\ (Left(p) \/ Restated(t, p)) => Kept(p)
  BY DEF Left, Restated, Plain, IsExclusive
<1>2. ASSUME NEW p \in Appts, NEW q \in Appts, p # q, Plain(appt'[p]), Kept(q), Placed(t, p)
      PROVE  ~Clash(appt'[q].slot, appt'[p].slot, Buffer)
  <2>1. ~tx[t].over /\ tx[t].op \in OnSlot /\ q \in Appts \ Own(tx[t]) /\ appt'[p].slot = tx[t].slot
    BY <1>2 DEF Placed, Plain, IsExclusive
  <2>2. ClearOf(tx[t])
    BY <1>2, <2>1 DEF Placed, Sound, Cleared
  <2> QED BY <1>2, <2>1, <2>2 DEF ClearOf
<1> HIDE DEF Kept
<1>3. \/ Kept(a) /\ Kept(b)
      \/ Kept(a) /\ Placed(t, b)
      \/ Placed(t, a) /\ Kept(b)
  BY <1>1 DEF StepOf, ApptWrites
<1> QED BY <1>2, <1>3, ClashSymmetric DEF BufferKept, Kept

LEMMA AttendanceStep ==
  ASSUME Shape, NEW t \in Txs, StepOf(t), NoEarlyAttendance
  PROVE  NoEarlyAttendance'
BY DEF StepOf, ApptWrites, Left, Placed, Restated, NoEarlyAttendance, AttendanceStatuses

-----------------------------------------------------------------------------
(* The inductive invariant.                                                *)

IInv == Shape /\ (\A t \in Txs : Sound(t)) /\ BufferKept /\ NoEarlyAttendance

LEMMA InitIInv == Init => IInv
<1> SUFFICES ASSUME Init PROVE IInv
  OBVIOUS
<1>1. AnySlot \in Slots
  BY SlotsAssumption DEF AnySlot
<1>2. TablesOK
  BY <1>1, InitialAssumption, PolicyAssumption DEF Init, TablesOK, NoEntry, NoProp, Entry, Prop
<1>3. LocksOK
  BY DEF Init, LocksOK
<1>4. TxsOK /\ \A t \in Txs : Sound(t)
  BY IdleType DEF Init, TxsOK, Filled, Sound
<1>5. BufferKept
  BY InitialAssumption DEF Init, BufferKept, Plain, IsExclusive
<1>6. NoEarlyAttendance
  BY InitialAssumption DEF Init, NoEarlyAttendance
<1> QED BY <1>2, <1>3, <1>4, <1>5, <1>6 DEF IInv, Shape

LEMMA RollbackOK ==
  ASSUME Shape, NEW t \in Txs, Rollback(t)
  PROVE  TablesOK' /\ StepOf(t)
BY EndKeepsOthers, ReadsTables, ReadsStep DEF Rollback

LEMMA CommitsEnd ==
  ASSUME NEW t \in Txs, Commits(t)
  PROVE  End(t)
BY DEF Commits, CommitCreate, CommitJoin, CommitLeave, CommitElsewhere, CommitMove, CommitAnswer,
       CommitCancel, CommitPromote, CommitStatus, Rollback

LEMMA CommitsOK ==
  ASSUME Shape, NEW t \in Txs, Sound(t), Commits(t)
  PROVE  Shape' /\ Sound(t)' /\ StepOf(t)
<1>1. TablesOK' /\ StepOf(t)
  BY CommitCreateOK, CommitJoinOK, CommitLeaveOK, CommitElsewhereOK, CommitMoveOK, CommitAnswerOK,
     CommitCancelOK, CommitPromoteOK, CommitStatusOK, RollbackOK DEF Commits
<1> QED BY <1>1, CommitsEnd, EndShape, EndKeepsOthers DEF Shape

LEMMA TxNextIInv ==
  ASSUME IInv, NEW t \in Txs, TxNext(t)
  PROVE  IInv'
<1>1. Checks(t) \/ Commits(t)
  BY DEF TxNext, Checks, Commits
<1>2. Shape' /\ Sound(t)' /\ StepOf(t)
  BY <1>1, ChecksOK, ChecksStep, CommitsOK DEF IInv
<1>3. \A u \in Txs \ {t} : Sound(u)'
  BY <1>2, SoundOther DEF IInv
<1>4. BufferKept' /\ NoEarlyAttendance'
  BY <1>2, BufferStep, AttendanceStep DEF IInv
<1> QED BY <1>2, <1>3, <1>4 DEF IInv

(* Time only lets more statuses pass.                                      *)
LEMMA TickIInv ==
  ASSUME IInv, Tick
  PROVE  IInv'
<1>1. now \in Nat /\ now' = now + 1 /\ UNCHANGED <<appt, entry, prop, lock, tx, billing>>
  BY PolicyAssumption DEF Tick, IInv, Shape, TablesOK
<1>2. Shape'
  BY <1>1, PolicyAssumption DEF Tick, IInv, Shape, TablesOK, LocksOK, TxsOK, Filled
<1>3. \A a \in Appts : appt[a].slot.from \in Nat
  BY SlotsAssumption DEF IInv, Shape, TablesOK, Row
<1>4. ASSUME NEW t \in Txs PROVE Sound(t)'
  <2>1. Sound(t) /\ (tx[t].pc # "idle" /\ tx[t].op = "status" => tx[t].ap \in Appts)
    BY DEF IInv, Shape, TxsOK, Filled, OnRow, RowWrites
  <2> QED BY <1>1, <1>3, <2>1
      DEF Sound, Locked, Fresh, OperationalTimeOk, Cleared, ClearOf, Own, Plain, IsExclusive, IsActive
<1>5. BufferKept' /\ NoEarlyAttendance'
  BY <1>1, <1>3 DEF IInv, BufferKept, NoEarlyAttendance, Plain, IsExclusive, IsActive
<1> QED BY <1>2, <1>4, <1>5 DEF IInv

(* Nothing in the invariant depends on the subscription.                   *)
LEMMA SameTables ==
  ASSUME IInv, UNCHANGED <<appt, entry, prop, lock, tx, now>>, billing' \in BOOLEAN
  PROVE  IInv'
<1>1. Shape'
  BY DEF IInv, Shape, TablesOK, LocksOK, TxsOK, Filled
<1>2. \A t \in Txs : Sound(t)'
  BY DEF IInv, Sound, Locked, Fresh, OperationalTimeOk, Cleared, ClearOf, Own, Plain, IsExclusive, IsActive
<1>3. BufferKept' /\ NoEarlyAttendance'
  BY DEF IInv, BufferKept, NoEarlyAttendance, Plain, IsExclusive, IsActive
<1> QED BY <1>1, <1>2, <1>3 DEF IInv

LEMMA NextIInv == IInv /\ [Next]_vars => IInv'
<1> SUFFICES ASSUME IInv, [Next]_vars PROVE IInv'
  OBVIOUS
<1>0. billing \in BOOLEAN
  BY DEF IInv, Shape, TablesOK
<1>1. CASE \E t \in Txs : TxNext(t)  BY <1>1, TxNextIInv
<1>2. CASE Tick  BY <1>2, TickIInv
<1>3. CASE BillingChange  BY <1>0, <1>3, SameTables DEF BillingChange
<1>4. CASE UNCHANGED vars  BY <1>0, <1>4, SameTables DEF vars
<1> QED BY <1>1, <1>2, <1>3, <1>4 DEF Next

LEMMA IInvHolds == Spec => []IInv
<1>1. Init => IInv  BY InitIInv
<1>2. IInv /\ [Next]_vars => IInv'  BY NextIInv
<1> QED BY <1>1, <1>2, PTL DEF Spec

-----------------------------------------------------------------------------
(* Double bookings: what the exclusion constraint does at every write.     *)

NoOverlap(tab) ==
  \A a, b \in Appts :
    a # b /\ IsExclusive(tab[a]) /\ IsExclusive(tab[b]) => ~Clash(tab[a].slot, tab[b].slot, 0)

(* Rewriting one row keeps a table free of overlaps if the constraint      *)
(* admits the new row, or if the row only closes or stays as it was.       *)
LEMMA OneRowNoOverlap ==
  ASSUME NEW tab, NEW tab2, NEW a \in Appts, NoOverlap(tab),
         \A b \in Appts \ {a} : tab2[b] = tab[b],
         \/ Fits(tab2, a)
         \/ IsExclusive(tab2[a]) => IsExclusive(tab[a]) /\ tab2[a].slot = tab[a].slot
  PROVE  NoOverlap(tab2)
<1> SUFFICES ASSUME NEW b \in Appts \ {a}, IsExclusive(tab2[a]), IsExclusive(tab2[b])
             PROVE  ~Clash(tab2[a].slot, tab2[b].slot, 0)
  BY ClashSymmetric DEF NoOverlap
<1>1. CASE Fits(tab2, a)
  BY <1>1, ClashSymmetric DEF Fits
<1>2. CASE IsExclusive(tab2[a]) => IsExclusive(tab[a]) /\ tab2[a].slot = tab[a].slot
  BY <1>2 DEF NoOverlap
<1> QED BY <1>1, <1>2

LEMMA PromotingNoOverlap ==
  ASSUME NEW t \in Txs, NEW tab \in [Appts -> Row], Promoting(t, tab), NoOverlap(tab)
  PROVE  NoOverlap(appt')
<1>1. CASE appt' = tab
  BY <1>1
<1>2. CASE \E b \in Appts : appt' = [tab EXCEPT ![b] = PromotedRow(tx[t].promo)] /\ Fits(appt', b)
  <2>1. PICK b \in Appts : appt' = [tab EXCEPT ![b] = PromotedRow(tx[t].promo)] /\ Fits(appt', b)
    BY <1>2
  <2>2. \A c \in Appts \ {b} : appt'[c] = tab[c]
    BY <2>1
  <2> QED BY <2>1, <2>2, OneRowNoOverlap
<1> QED BY <1>1, <1>2 DEF Promoting

LEMMA InsertNoOverlap ==
  ASSUME Shape, NEW t \in Txs, NEW a \in Appts, Insert(t, a), NoOverlap(appt)
  PROVE  NoOverlap(appt')
<1>1. Fits(appt', a) /\ \A b \in Appts \ {a} : appt'[b] = appt[b]
  BY DEF Insert, Shape, TablesOK
<1> QED BY <1>1, OneRowNoOverlap

LEMMA CommitMoveNoOverlap ==
  ASSUME Shape, NEW t \in Txs, Sound(t), CommitMove(t), NoOverlap(appt)
  PROVE  NoOverlap(appt')
<1> DEFINE a == tx[t].ap
           old == appt[a]
           s == tx[t].slot
           over == tx[t].over
           ver == old.ver + 1
           new == [old EXCEPT !.slot = s, !.over = over, !.status = "CONFIRMED", !.ver = ver]
           tab == [appt EXCEPT ![a] = new]
<1>1. Promoting(t, tab) /\ Fits(tab, a)
  BY DEF CommitMove
<1>2. a \in Appts /\ s \in Slots /\ over \in BOOLEAN
  BY DEF CommitMove, Shape, TxsOK, Tx, Filled, OnRow, RowWrites
<1>3. new \in Row
  <2>1. ver \in Nat /\ old \in Row
    BY <1>2 DEF Shape, TablesOK, Row
  <2> HIDE DEF old, s, over, ver
  <2> QED BY <1>2, <2>1 DEF Row, Statuses, ActiveStatuses
<1> HIDE DEF new
<1>4. tab \in [Appts -> Row] /\ \A b \in Appts \ {a} : tab[b] = appt[b]
  BY <1>2, <1>3 DEF Shape, TablesOK
<1> HIDE DEF tab, a
<1>5. NoOverlap(tab)
  BY <1>1, <1>2, <1>4, OneRowNoOverlap
<1> QED BY <1>1, <1>4, <1>5, PromotingNoOverlap

LEMMA CommitCancelNoOverlap ==
  ASSUME Shape, NEW t \in Txs, Sound(t), CommitCancel(t), NoOverlap(appt)
  PROVE  NoOverlap(appt')
<1> DEFINE a == tx[t].ap
           old == appt[a]
           ver == old.ver + 1
           new == [old EXCEPT !.status = "CANCELLED", !.ver = ver]
           tab == [appt EXCEPT ![a] = new]
<1>1. Promoting(t, tab)
  BY DEF CommitCancel
<1>2. a \in Appts
  BY DEF CommitCancel, Shape, TxsOK, Filled, OnRow, RowWrites
<1>3. new \in Row /\ ~IsExclusive(new)
  <2>1. ver \in Nat /\ old \in Row
    BY <1>2 DEF Shape, TablesOK, Row
  <2> HIDE DEF old, ver
  <2>2. new \in Row /\ new.status = "CANCELLED"
    BY <2>1 DEF Row, Statuses, ClosedStatuses
  <2> QED BY <2>2 DEF IsExclusive, IsActive, ActiveStatuses
<1> HIDE DEF new
<1>4. tab \in [Appts -> Row] /\ tab[a] = new /\ \A b \in Appts \ {a} : tab[b] = appt[b]
  BY <1>2, <1>3 DEF Shape, TablesOK
<1> HIDE DEF tab, a
<1>5. NoOverlap(tab)
  BY <1>2, <1>3, <1>4, OneRowNoOverlap
<1> QED BY <1>1, <1>4, <1>5, PromotingNoOverlap

LEMMA CommitStatusNoOverlap ==
  ASSUME Shape, NEW t \in Txs, Sound(t), CommitStatus(t), NoOverlap(appt)
  PROVE  NoOverlap(appt')
<1>1. StepOf(t) /\ tx[t].op = "status"
  BY CommitStatusOK DEF CommitStatus
<1>2. \A a \in Appts : Left(a) => appt'[a] = appt[a]
  <2>1. tx[t].ap \in Appts /\ appt[tx[t].ap].status # "ABSENT"
    BY DEF CommitStatus, Shape, TxsOK, Filled, OnRow, RowWrites, Sound, Fresh, Statuses,
           ActiveStatuses, ClosedStatuses
  <2>2. \A a \in Appts \ {tx[t].ap} : appt'[a] = appt[a]
    BY DEF CommitStatus, Shape, TablesOK
  <2> QED BY <2>1, <2>2 DEF Left
<1>3. \A a \in Appts : ~Placed(t, a)
  BY <1>1 DEF Placed, OnSlot
<1>4. CASE \A a \in Appts : Left(a)
  BY <1>2, <1>4 DEF NoOverlap
<1>5. CASE \E w \in Appts : Restated(t, w) /\ \A a \in Appts \ {w} : Left(a)
  <2>1. PICK w \in Appts : Restated(t, w) /\ \A a \in Appts \ {w} : Left(a)
    BY <1>5
  <2>2. IsExclusive(appt'[w]) => IsExclusive(appt[w]) /\ appt'[w].slot = appt[w].slot
    BY <2>1 DEF Restated, IsExclusive
  <2> QED BY <1>2, <2>1, <2>2, OneRowNoOverlap
<1> QED BY <1>1, <1>3, <1>4, <1>5 DEF StepOf, ApptWrites

LEMMA TxNextNoOverlap ==
  ASSUME IInv, NEW t \in Txs, TxNext(t), NoOverlap(appt)
  PROVE  NoOverlap(appt')
<1>0. Shape /\ Sound(t)
  BY DEF IInv
<1>1. CASE CommitCreate(t) \/ CommitElsewhere(t)
  BY <1>0, <1>1, InsertNoOverlap DEF CommitCreate, CommitElsewhere
<1>2. CASE CommitMove(t)  BY <1>0, <1>2, CommitMoveNoOverlap
<1>3. CASE CommitCancel(t)  BY <1>0, <1>3, CommitCancelNoOverlap
<1>4. CASE CommitStatus(t)  BY <1>0, <1>4, CommitStatusNoOverlap
<1>5. CASE CommitPromote(t)
  BY <1>0, <1>5, PromotingNoOverlap DEF CommitPromote, Shape, TablesOK
<1>6. CASE CommitJoin(t) \/ CommitLeave(t) \/ CommitAnswer(t) \/ Rollback(t)
  BY <1>6 DEF CommitJoin, CommitLeave, CommitAnswer, Rollback, Reads
<1>7. CASE Checks(t)
  BY <1>7 DEF Checks, CheckCreate, CheckJoin, ReadLeave, ReadElsewhere, CheckMove, QueueMove, CheckAnswer,
         CheckCancel, QueueCancel, CheckPromote, CheckHandover, QueuePromote, CheckStatus, Reads
<1> QED BY <1>1, <1>2, <1>3, <1>4, <1>5, <1>6, <1>7 DEF TxNext, Checks

LEMMA NextNoOverlap == IInv /\ NoDoubleBooking /\ [Next]_vars => NoDoubleBooking'
<1>1. NoDoubleBooking <=> NoOverlap(appt)
  BY DEF NoDoubleBooking, NoOverlap
<1>2. NoDoubleBooking' <=> NoOverlap(appt')
  BY DEF NoDoubleBooking, NoOverlap, IsExclusive, IsActive
<1>3. ASSUME IInv, Next, NoOverlap(appt) PROVE NoOverlap(appt')
  BY <1>3, TxNextNoOverlap DEF Next, Tick, BillingChange
<1> QED BY <1>1, <1>2, <1>3 DEF vars

-----------------------------------------------------------------------------
(* Answers to proposals.                                                   *)

AnswersAreMatching ==
  \A i \in Props :
    prop[i].status = "PENDING" /\ prop'[i].status \in Decisions
      => LET row == appt[prop[i].ap] IN
         row.slot = prop[i].slot /\ row.status \in ReschedulableStatuses

LEMMA NextAnswers == IInv /\ [Next]_vars => AnswersAreMatching
<1> SUFFICES ASSUME IInv, [Next]_vars PROVE AnswersAreMatching
  OBVIOUS
<1>1. ASSUME NEW t \in Txs, CommitAnswer(t) PROVE AnswersAreMatching
  <2>1. Fresh(t) /\ tx[t].op = "answer" /\ tx[t].id \in Props
    BY <1>1 DEF IInv, Sound, CommitAnswer, Shape, TxsOK, Filled
  <2>2. \A i \in Props : prop'[i] = prop[i] \/ i = tx[t].id
    BY <1>1 DEF CommitAnswer, IInv, Shape, TablesOK
  <2> QED BY <2>1, <2>2 DEF Fresh, AnswersAreMatching, Decisions
<1>2. ASSUME NEW a, prop' = Superseded(a) PROVE AnswersAreMatching
  BY <1>2 DEF Superseded, AnswersAreMatching, Decisions, IInv, Shape, TablesOK, Prop
<1>3. CASE prop' = prop
  BY <1>3 DEF AnswersAreMatching, Decisions
<1>4. ASSUME NEW t \in Txs, CommitMove(t) PROVE AnswersAreMatching
  <2> DEFINE a == tx[t].ap
  <2>1. CASE \E i \in Props : /\ prop[i].status = "ABSENT"
                              /\ \E p : prop' = [Superseded(a) EXCEPT ![i] = p]
    <3>1. PICK i \in Props : /\ prop[i].status = "ABSENT"
                            /\ \E p : prop' = [Superseded(a) EXCEPT ![i] = p]
      BY <2>1
    <3>2. \A j \in Props : j # i => prop'[j] = Superseded(a)[j]
      BY <3>1, SupersededTypes DEF IInv
    <3> HIDE DEF a
    <3>3. \A j \in Props : prop[j].status = "PENDING" => Superseded(a)[j].status \notin Decisions
      BY DEF Superseded, Decisions, IInv, Shape, TablesOK, Prop
    <3>4. \A j \in Props : prop[j].status = "PENDING" => prop'[j].status \notin Decisions
      <4> SUFFICES ASSUME NEW j \in Props, prop[j].status = "PENDING"
                   PROVE  prop'[j].status \notin Decisions
        OBVIOUS
      <4>1. j # i  BY <3>1
      <4> QED BY <4>1, <3>2, <3>3
    <3> QED BY <3>4 DEF AnswersAreMatching
  <2> QED BY <1>2, <1>4, <2>1 DEF CommitMove, Propose
<1>5. ASSUME NEW t \in Txs, CommitCancel(t) \/ CommitStatus(t) PROVE AnswersAreMatching
  BY <1>2, <1>3, <1>5 DEF CommitCancel, CommitStatus
<1>6. ASSUME NEW t \in Txs, TxNext(t),
             ~CommitAnswer(t), ~CommitMove(t), ~CommitCancel(t), ~CommitStatus(t)
      PROVE  prop' = prop
  BY <1>6, ZenonT(60) DEF TxNext, CheckCreate, CheckJoin, ReadLeave, ReadElsewhere, CheckMove, QueueMove,
         CheckAnswer, CheckCancel, QueueCancel, CheckPromote, CheckHandover, QueuePromote, CheckStatus,
         CommitCreate, CommitJoin, CommitLeave, CommitElsewhere, CommitPromote, Rollback, Reads
<1> QED BY <1>1, <1>3, <1>4, <1>5, <1>6 DEF Next, Tick, BillingChange, vars

-----------------------------------------------------------------------------
(* Pending proposals.  A proposal is pending only about a confirmed        *)
(* booking, in the version the proposal was recorded about, or about one   *)
(* the visit of which has begun.                                           *)

Describes(p, row) ==
  /\ row.slot = p.slot
  /\ \/ row.status = "CONFIRMED" /\ row.ver = p.ver
     \/ row.status = "IN_PROGRESS"
ProposalsDescribe == \A i \in Props : prop[i].status = "PENDING" => Describes(prop[i], appt[prop[i].ap])

LEMMA DescribesPresent ==
  ASSUME Shape, ProposalsDescribe
  PROVE  \A i \in Props : prop[i].status = "PENDING" =>
           prop[i].ap \in Appts /\ appt[prop[i].ap].status # "ABSENT"
BY DEF ProposalsDescribe, Describes, Shape, TablesOK

(* A step that rewrites no booking a pending proposal is about.            *)
LEMMA DescribesElsewhere ==
  ASSUME Shape, ProposalsDescribe, NEW a, \A b \in Appts \ {a} : Left(b), prop' = Superseded(a)
  PROVE  ProposalsDescribe'
<1> SUFFICES ASSUME NEW i \in Props, prop'[i].status = "PENDING"
             PROVE  Describes(prop'[i], appt'[prop'[i].ap])
  BY DEF ProposalsDescribe, Describes
<1>1. prop'[i] = prop[i] /\ prop[i].ap # a
  BY DEF Superseded, Shape, TablesOK, Prop
<1> QED BY <1>1, DescribesPresent DEF ProposalsDescribe, Left

LEMMA DescribesLeft ==
  ASSUME Shape, ProposalsDescribe, \A b \in Appts : Left(b), prop' = prop
  PROVE  ProposalsDescribe'
BY DescribesPresent DEF ProposalsDescribe, Describes, Left

LEMMA MoveDescribes ==
  ASSUME Shape, NEW t \in Txs, Sound(t), CommitMove(t), ProposalsDescribe
  PROVE  ProposalsDescribe'
<1> DEFINE a == tx[t].ap
           p == [status |-> "PENDING", ap |-> a, slot |-> tx[t].slot, ver |-> tx[t].ver + 1]
<1>1. Describes(p, appt'[a]) /\ \A b \in Appts \ {a} : Left(b)
  BY MoveRewrites DEF Describes
<1>2. CASE prop' = Superseded(a)
  BY <1>1, <1>2, DescribesElsewhere
<1>3. CASE \E i \in Props : prop' = [Superseded(a) EXCEPT ![i] = p]
  <2>1. PICK i \in Props : prop' = [Superseded(a) EXCEPT ![i] = p]
    BY <1>3
  <2>2. p.ap = a
    OBVIOUS
  <2> HIDE DEF p, a
  <2>3. prop'[i] = p /\ \A j \in Props \ {i} : prop'[j] = Superseded(a)[j]
    BY <2>1, SupersededTypes
  <2> SUFFICES ASSUME NEW j \in Props \ {i}, prop'[j].status = "PENDING"
               PROVE  Describes(prop'[j], appt'[prop'[j].ap])
    BY <1>1, <2>2, <2>3 DEF ProposalsDescribe, Describes
  <2>4. prop'[j] = prop[j] /\ prop[j].ap # a
    BY <2>3 DEF Superseded, Shape, TablesOK, Prop
  <2> QED BY <1>1, <2>4, DescribesPresent DEF ProposalsDescribe, Left
<1> QED BY <1>2, <1>3 DEF CommitMove, Propose

LEMMA StatusDescribes ==
  ASSUME Shape, NEW t \in Txs, Sound(t), CommitStatus(t), ProposalsDescribe
  PROVE  ProposalsDescribe'
<1> DEFINE a == tx[t].ap
<1>1. /\ tx[t].st \in Transitions[appt[a].status] \ {"CANCELLED"} /\ IsActive(appt[a]) /\ a \in Appts
      /\ appt'[a].slot = appt[a].slot /\ appt'[a].status = tx[t].st
      /\ \A b \in Appts \ {a} : appt'[b] = appt[b]
  BY StatusRewrites
<1> HIDE DEF a
<1>2. CASE prop' = Superseded(a)
  BY <1>1, <1>2, DescribesElsewhere DEF Left
<1>3. CASE prop' = prop /\ tx[t].st \notin {"COMPLETED", "NO_SHOW"}
  <2>1. appt[a].status \in {"CONFIRMED", "IN_PROGRESS"} => tx[t].st = "IN_PROGRESS"
    BY <1>1, <1>3 DEF Transitions
  <2> QED BY <1>1, <1>3, <2>1, DescribesPresent DEF ProposalsDescribe, Describes
<1> QED BY <1>2, <1>3 DEF CommitStatus, a

LEMMA AnswerDescribes ==
  ASSUME Shape, NEW t \in Txs, CommitAnswer(t), ProposalsDescribe
  PROVE  ProposalsDescribe'
<1>1. \A i \in Props : prop'[i] = prop[i] \/ prop'[i].status # "PENDING"
  BY DEF CommitAnswer, Shape, TxsOK, Filled, TablesOK, Prop, Decisions
<1>2. appt' = appt
  BY DEF CommitAnswer
<1> QED BY <1>1, <1>2 DEF ProposalsDescribe, Describes

LEMMA NextDescribes == IInv /\ ProposalsDescribe /\ [Next]_vars => ProposalsDescribe'
<1> SUFFICES ASSUME IInv, ProposalsDescribe, [Next]_vars PROVE ProposalsDescribe'
  OBVIOUS
<1>1. ASSUME NEW t \in Txs, TxNext(t) PROVE ProposalsDescribe'
  <2>1. Shape /\ Sound(t)
    BY DEF IInv
  <2>2. CASE CommitMove(t)  BY <2>1, <2>2, MoveDescribes
  <2>3. CASE CommitStatus(t)  BY <2>1, <2>3, StatusDescribes
  <2>4. CASE CommitAnswer(t)  BY <2>1, <2>4, AnswerDescribes
  <2>5. CASE CommitCancel(t)
    BY <2>1, <2>5, CancelRewrites, DescribesElsewhere DEF CommitCancel
  <2>6. CASE CommitCreate(t) \/ CommitElsewhere(t)
    <3>1. PICK a \in Appts : Insert(t, a)
      BY <2>6 DEF CommitCreate, CommitElsewhere
    <3>2. appt[a].status = "ABSENT" /\ \A b \in Appts \ {a} : appt'[b] = appt[b]
      BY <2>1, <3>1 DEF Insert, IsFresh, Shape, TablesOK
    <3>3. prop' = prop
      BY <2>6 DEF CommitCreate, CommitElsewhere
    <3> QED BY <2>1, <3>2, <3>3, DescribesPresent DEF ProposalsDescribe, Describes
  <2>7. CASE CommitPromote(t)
    <3>1. \A b \in Appts : Left(b)
      BY <2>1, <2>7, PromotingWrites DEF CommitPromote, Shape, TablesOK, Left
    <3> QED BY <2>1, <2>7, <3>1, DescribesLeft DEF CommitPromote
  <2>8. CASE Checks(t) \/ CommitJoin(t) \/ CommitLeave(t) \/ Rollback(t)
    <3>1. appt' = appt /\ prop' = prop
      BY <2>8, ZenonT(60) DEF Checks, CheckCreate, CheckJoin, ReadLeave, ReadElsewhere, CheckMove, QueueMove,
             CheckAnswer, CheckCancel, QueueCancel, CheckPromote, CheckHandover, QueuePromote, CheckStatus,
             CommitJoin, CommitLeave, Rollback, Reads
    <3> QED BY <3>1 DEF ProposalsDescribe, Describes
  <2> QED BY <1>1, <2>2, <2>3, <2>4, <2>5, <2>6, <2>7, <2>8 DEF TxNext, Checks
<1>2. CASE appt' = appt /\ prop' = prop
  BY <1>2 DEF ProposalsDescribe, Describes
<1> QED BY <1>1, <1>2 DEF Next, Tick, BillingChange, vars

-----------------------------------------------------------------------------
(* The theorems.                                                           *)

(* Every table, lock and transaction has its type.                         *)
THEOREM TypeCorrect == Spec => []TypeOK
<1>1. IInv => TypeOK  BY ShapeImpliesTypeOK DEF IInv
<1> QED BY <1>1, IInvHolds, PTL

(* The locks of appointments and professionals alone keep the salon's      *)
(* buffer between any two bookings that were neither overbooked nor        *)
(* promoted, however many requests run at once.                            *)
THEOREM BufferIsKept == Spec => []BufferKept
<1>1. IInv => BufferKept  BY DEF IInv
<1> QED BY <1>1, IInvHolds, PTL

(* Attendance is never recorded before the booked time.                    *)
THEOREM AttendanceIsPast == Spec => []NoEarlyAttendance
<1>1. IInv => NoEarlyAttendance  BY DEF IInv
<1> QED BY <1>1, IInvHolds, PTL

(* What a transaction read of an appointment, or of a proposal, stays true *)
(* until it writes.                                                        *)
THEOREM ReadsAreCurrent == Spec => []ReadsStayCurrent
<1>1. IInv => ReadsStayCurrent
  BY DEF IInv, Sound, Fresh, ReadsStayCurrent, RowWrites
<1> QED BY <1>1, IInvHolds, PTL


(* No two active appointments of a professional overlap unless staff       *)
(* overbooked one of them, whatever mix of creations, moves, promotions    *)
(* and status changes wrote them.                                          *)
THEOREM NeverDoubleBooked == Spec => []NoDoubleBooking
<1>1. Init => NoDoubleBooking
  <2> SUFFICES ASSUME Init, NEW a \in Appts, NEW b \in Appts, a # b,
                      IsExclusive(appt[a]), IsExclusive(appt[b]),
                      Clash(appt[a].slot, appt[b].slot, 0)
               PROVE  FALSE
    BY DEF NoDoubleBooking
  <2>1. appt[a].slot \in Slots /\ appt[b].slot \in Slots
    BY InitialAssumption DEF Init, Row
  <2>2. Clash(appt[a].slot, appt[b].slot, Buffer)
    BY <2>1, SlotsAssumption, PolicyAssumption DEF Clash
  <2> QED BY <2>2, InitialAssumption DEF Init, IsExclusive
<1>2. IInv /\ NoDoubleBooking /\ [Next]_vars => NoDoubleBooking'
  BY NextNoOverlap
<1> QED BY <1>1, <1>2, IInvHolds, PTL DEF Spec

(* A client's answer is recorded only about the booking it was shown.      *)
THEOREM AnswersAreMatched == Spec => AnswersMatch
<1>1. IInv /\ [Next]_vars => AnswersAreMatching
  BY NextAnswers
<1>2. AnswersAreMatching <=>
        \A i \in Props :
          prop[i].status = "PENDING" /\ prop'[i].status \in Decisions
            => LET row == appt[prop[i].ap] IN
               row.slot = prop[i].slot /\ row.status \in ReschedulableStatuses
  BY DEF AnswersAreMatching
<1> QED BY <1>1, <1>2, IInvHolds, PTL DEF Spec, AnswersMatch

(* An open proposal always describes the booking as it is: every operation *)
(* that moves, cancels or ends the booking closes it in the same commit.   *)
THEOREM ProposalsAreCurrent == Spec => []PendingProposalIsCurrent
<1>1. Init => ProposalsDescribe
  BY DEF Init, NoProp, ProposalsDescribe
<1>2. ProposalsDescribe => PendingProposalIsCurrent
  BY DEF ProposalsDescribe, Describes, PendingProposalIsCurrent, ReschedulableStatuses
<1> QED BY <1>1, <1>2, NextDescribes, IInvHolds, PTL DEF Spec
=============================================================================
