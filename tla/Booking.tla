------------------------------ MODULE Booking ------------------------------
(***************************************************************************)
(* The transactional core of one salon: its appointments, the queue behind *)
(* each of them and the rescheduling proposals, as written by concurrent   *)
(* database transactions.                                                  *)
(*                                                                         *)
(* A transaction locks, reads and decides (Check...), in some operations   *)
(* reads the queue under its own lock (Queue...), and commits (Commit...); *)
(* each is a step of its own, so everything another transaction can commit *)
(* in between is explored.  Isolation is READ COMMITTED: a read sees the   *)
(* committed tables at that step, and the writes of a transaction appear   *)
(* together at its commit, where conditional updates are evaluated again   *)
(* and the exclusion and unique constraints are checked.  A lock is taken  *)
(* in the step that first reads under it and kept to the end of the        *)
(* transaction; LockOrder treats the order of the locks.  Every throw,     *)
(* every idempotent repetition and every timeout or lost connection ends a *)
(* transaction without a write: Rollback.                                  *)
(*                                                                         *)
(* Left out here: prices, services, audit and notification rows, working   *)
(* hours, closures and blocks (each only makes a slot unavailable), the    *)
(* product stock (Comanda) and proposals recorded before the immediate     *)
(* mode existed.                                                           *)
(***************************************************************************)
EXTENDS BookingRules, FiniteSets

CONSTANTS
  Appts,         \* identifiers of appointment rows, in creation order
  Entries,       \* identifiers of waitlist rows, in creation order
  Props,         \* identifiers of proposal rows
  Slots,         \* the [pro, from, to] slots that are ever asked for
  Keys,          \* idempotency keys of creation requests
  Txs,           \* transactions that may be open at the same time
  Free,          \* owner of a lock nobody holds
  Buffer,        \* salon.bufferMinutes
  MinLead,       \* salon.minBookingLeadMinutes
  Cutoff,        \* salon.cancelPolicyHours
  FreePlan,      \* whether the salon's plan has a monthly limit
  MonthlyLimit,  \* that limit
  BillingVaries, \* whether the subscription may lapse and recover
  MaxNow,        \* bound of the clock
  MaxVersion,    \* bound of a row's version
  Operations,    \* operations the requests may call
  InitialTables  \* appointment tables the system may start from

VARIABLES
  appt,     \* Appointment rows
  entry,    \* WaitlistEntry rows
  prop,     \* RescheduleProposal rows
  lock,     \* owner of every advisory lock
  tx,       \* the open transactions
  now,      \* wall clock
  billing   \* whether the subscription allows new reservations

vars == <<appt, entry, prop, lock, tx, now, billing>>

None == 0

OperationNames == {"create", "elsewhere", "move", "propose", "answer", "cancel",
                   "handover", "status", "join", "leave", "promote"}

Row == [status : Statuses \cup {"ABSENT"}, slot : Slots, ver : Nat, over : BOOLEAN,
        key : Keys \cup Entries \cup {None}, origin : {"DIRECT", "WAITLIST"}]

ASSUME IdsAssumption ==
  /\ Appts \subseteq Nat \ {None} /\ Entries \subseteq Nat \ {None}
  /\ Props \subseteq Nat \ {None}
  /\ Keys \cap (Entries \cup {None}) = {}
  /\ IsFiniteSet(Appts) /\ Free \notin Txs
  /\ Operations \subseteq OperationNames

ASSUME SlotsAssumption ==
  /\ Slots # {}
  /\ \A s \in Slots : /\ s.from \in Nat /\ s.to \in Nat /\ s.from < s.to
                      /\ DOMAIN s = {"pro", "from", "to"}

ASSUME PolicyAssumption ==
  /\ Buffer \in Nat /\ MinLead \in Nat /\ Cutoff \in Nat /\ MonthlyLimit \in Nat
  /\ MaxNow \in Nat /\ MaxVersion \in Nat
  /\ FreePlan \in BOOLEAN /\ BillingVaries \in BOOLEAN

Pros == {s.pro : s \in Slots}
AnySlot == CHOOSE s \in Slots : TRUE

-----------------------------------------------------------------------------
(* The tables.                                                             *)

IsActive(r) == r.status \in ActiveStatuses
(* The rows the exclusion constraint appointment_no_overlap covers.        *)
IsExclusive(r) == IsActive(r) /\ ~r.over

AbsentRow == [status |-> "ABSENT", slot |-> AnySlot, ver |-> 0, over |-> FALSE,
              key |-> None, origin |-> "DIRECT"]
NoEntry == [state |-> "ABSENT", ap |-> None, slot |-> AnySlot, booking |-> None]
NoProp == [status |-> "ABSENT", ap |-> None, slot |-> AnySlot, ver |-> 0]

ASSUME InitialAssumption ==
  \A tab \in InitialTables :
    /\ tab \in [Appts -> Row]
    /\ \A a \in Appts : /\ tab[a].origin = "DIRECT" /\ tab[a].key \notin Entries
                        /\ tab[a].status \in AttendanceStatuses => tab[a].slot.from = 0
    /\ \A a, b \in Appts : a # b /\ IsActive(tab[a]) /\ IsActive(tab[b])
                             => ~Clash(tab[a].slot, tab[b].slot, Buffer)
    /\ \A a, b \in Appts : a # b /\ tab[a].key # None => tab[a].key # tab[b].key

(* availabilityViolation: no active appointment of the professional within *)
(* the buffered window, the one being changed aside.                       *)
Available(s, except) ==
  \A b \in Appts \ except : IsActive(appt[b]) => ~Clash(appt[b].slot, s, Buffer)

(* As Fits, as a unique index on the professional and the start would be.  *)
Fits_SameStart(tab, a) ==
  IsExclusive(tab[a]) =>
    \A b \in Appts \ {a} : IsExclusive(tab[b]) =>
      ~(tab[b].slot.pro = tab[a].slot.pro /\ tab[b].slot.from = tab[a].slot.from)

(* The exclusion constraint for the written row a of a new table.          *)
Fits(tab, a) ==
  IsExclusive(tab[a]) =>
    \A b \in Appts \ {a} : IsExclusive(tab[b]) => ~Clash(tab[b].slot, tab[a].slot, 0)

(* As KeyUnused, with the index limited to rows that are not cancelled.    *)
KeyUnused_Partial(k) == \A b \in Appts : appt[b].key # k \/ appt[b].status = "CANCELLED"

(* The unique index on (salonId, idempotencyKey).                          *)
KeyUnused(k) == \A b \in Appts : appt[b].key # k

(* A primary key that no row has; rows are numbered in creation order.     *)
IsFresh(a) == /\ appt[a].status = "ABSENT"
              /\ \A b \in Appts : b < a => appt[b].status # "ABSENT"

MonthlyCount == Cardinality({a \in Appts : appt[a].status \notin {"ABSENT", "CANCELLED"}})

Waiting(e, a) == entry[e].state = "WAITING" /\ entry[e].ap = a
(* As IsFirst, with the queue in no order.                                 *)
IsFirst_Unordered(e, a) == Waiting(e, a)
IsFirst(e, a) == Waiting(e, a) /\ \A f \in Entries : Waiting(f, a) => e <= f
QueueEmpty(a) == \A e \in Entries : ~Waiting(e, a)

-----------------------------------------------------------------------------
(* Locks and transactions.                                                 *)

ApptLock(a) == <<"appointment", a>>
ProLock(p) == <<"professional", p>>
KeyLock(k) == <<"idempotency", k>>
QueueLock(a) == <<"waitlist", a>>
QuotaLock == <<"quota">>
Locks == {ApptLock(a) : a \in Appts} \cup {ProLock(p) : p \in Pros}
           \cup {KeyLock(k) : k \in Keys} \cup {QueueLock(a) : a \in Appts} \cup {QuotaLock}

(* A transaction: what was asked (op, ap, key, slot, over, who, id, st),    *)
(* the version it read (ver), the entry it will promote (promo) and how    *)
(* far it is (pc): "queue" when the next step takes a queue's lock,        *)
(* "entry" when a waitlist row is to be read before that, "ready" when     *)
(* only the writes are left.                                               *)
Steps == {"idle", "entry", "queue", "ready"}
Decisions == {"ACCEPTED", "REJECTED"}
Idle == [pc |-> "idle", op |-> "create", ap |-> None, key |-> None, slot |-> AnySlot,
         over |-> FALSE, who |-> None, id |-> None, st |-> "CANCELLED", ver |-> 0,
         promo |-> None]
Request(op, ap) == [Idle EXCEPT !.op = op, !.ap = ap]

(* pg_advisory_xact_lock: granted when nobody else holds it.               *)
Acquire(t, ls) ==
  /\ \A l \in ls : lock[l] \in {Free, t}
  /\ lock' = [l \in Locks |-> IF l \in ls THEN t ELSE lock[l]]

Begin(t, request) ==
  /\ tx[t].pc = "idle" /\ request.op \in Operations
  /\ tx' = [tx EXCEPT ![t] = request]

End(t) ==
  /\ lock' = [l \in Locks |-> IF lock[l] = t THEN Free ELSE lock[l]]
  /\ tx' = [tx EXCEPT ![t] = Idle]

Reads == UNCHANGED <<appt, entry, prop, now, billing>>

(* A throw, an answer without a write, a timeout or a lost connection.     *)
Rollback(t) == tx[t].pc # "idle" /\ End(t) /\ Reads

(* As ScopeLocks, without the professional a move goes to, and without     *)
(* what the appointment has now.                                           *)
ScopeLocks_CurrentOnly(a, targets) == {ApptLock(a), ProLock(appt[a].slot.pro)}
ScopeLocks_TargetOnly(a, targets) == {ProLock(p) : p \in targets}
(* lockAppointmentOperationalScope: the appointment, then its current and  *)
(* target professionals.                                                   *)
ScopeLocks(a, targets) == {ApptLock(a)} \cup {ProLock(p) : p \in {appt[a].slot.pro} \cup targets}

-----------------------------------------------------------------------------
(* Creation.                                                               *)

(* As PlanLocks, counting without serialising.                             *)
PlanLocks_None == {}
(* enforceAppointmentPlanLimit serialises the bookings of a limited plan.  *)
PlanLocks == IF FreePlan THEN {QuotaLock} ELSE {}

(* createAppointment up to its insert.  A client keeps to the booking      *)
(* window and to free slots; staff with a reason may overlap.              *)
CheckCreate(t) ==
  \E k \in Keys, s \in Slots, client \in BOOLEAN, who \in Entries \cup {None} :
    LET over == ~Available(s, {})
        op == IF who = None THEN "create" ELSE "elsewhere" IN
    /\ Acquire(t, {KeyLock(k), ProLock(s.pro)} \cup PlanLocks)
    /\ KeyUnused(k) /\ billing
    /\ FreePlan => MonthlyCount < MonthlyLimit
    /\ client => who = None /\ s.from >= now + MinLead /\ ~over
    /\ Begin(t, [Request(op, None) EXCEPT !.pc = IF who = None THEN "ready" ELSE "entry",
                    !.key = k, !.slot = s, !.over = over, !.who = who])
    /\ Reads

(* The insert, with the exclusion constraint and the unique key.           *)
Insert(t, a) ==
  /\ IsFresh(a) /\ KeyUnused(tx[t].key)
  /\ appt' = [appt EXCEPT ![a] = [status |-> "CONFIRMED", slot |-> tx[t].slot, ver |-> 1,
                                  over |-> tx[t].over, key |-> tx[t].key, origin |-> "DIRECT"]]
  /\ Fits(appt', a)

CommitCreate(t) ==
  /\ tx[t].pc = "ready" /\ tx[t].op = "create"
  /\ \E a \in Appts : Insert(t, a)
  /\ End(t)
  /\ UNCHANGED <<entry, prop, now, billing>>

-----------------------------------------------------------------------------
(* The queue of an appointment.                                            *)

(* joinWaitlist: the entry asks for the appointment's professional and     *)
(* start, for as long as its own services take.                            *)
CheckJoin(t) ==
  \E a \in Appts, s \in Slots :
    /\ Acquire(t, {QueueLock(a)})
    /\ IsActive(appt[a]) /\ appt[a].slot.from > now
    /\ s.pro = appt[a].slot.pro /\ s.from = appt[a].slot.from
    /\ Begin(t, [Request("join", a) EXCEPT !.pc = "ready", !.slot = s])
    /\ Reads

CommitJoin(t) ==
  /\ tx[t].pc = "ready" /\ tx[t].op = "join"
  /\ \E e \in Entries :
       /\ entry[e].state = "ABSENT"
       /\ \A f \in Entries : f < e => entry[f].state # "ABSENT"
       /\ entry' = [entry EXCEPT ![e] = [state |-> "WAITING", ap |-> tx[t].ap,
                                        slot |-> tx[t].slot, booking |-> None]]
  /\ End(t)
  /\ UNCHANGED <<appt, prop, now, billing>>

(* cancelWaitlistEntry and fulfillWaitlistEntryElsewhere find the queue to *)
(* lock by reading the entry before they hold any lock on it.              *)
ReadLeave(t) ==
  \E e \in Entries :
    /\ entry[e].state # "ABSENT"
    /\ Begin(t, [Request("leave", entry[e].ap) EXCEPT !.pc = "queue", !.who = e])
    /\ UNCHANGED lock /\ Reads

ReadElsewhere(t) ==
  /\ tx[t].pc = "entry" /\ entry[tx[t].who].state # "ABSENT"
  /\ tx' = [tx EXCEPT ![t] = [@ EXCEPT !.pc = "queue", !.ap = entry[tx[t].who].ap]]
  /\ UNCHANGED lock /\ Reads

(* The second read under the lock of that queue, and the conditional        *)
(* update; it commits whatever else the transaction wrote.                 *)
CommitLeave(t) ==
  LET e == tx[t].who IN
  /\ tx[t].pc = "queue" /\ tx[t].op = "leave"
  /\ lock[QueueLock(tx[t].ap)] \in {Free, t}
  /\ entry[e].state = "WAITING"
  /\ entry' = [entry EXCEPT ![e].state = "CANCELLED"]
  /\ End(t)
  /\ UNCHANGED <<appt, prop, now, billing>>

CommitElsewhere(t) ==
  LET e == tx[t].who IN
  /\ tx[t].pc = "queue" /\ tx[t].op = "elsewhere"
  /\ lock[QueueLock(tx[t].ap)] \in {Free, t}
  /\ entry[e].state = "WAITING"
  /\ \E a \in Appts :
       /\ Insert(t, a)
       /\ entry' = [entry EXCEPT ![e] = [@ EXCEPT !.state = "FULFILLED", !.booking = a]]
  /\ End(t)
  /\ UNCHANGED <<prop, now, billing>>

(* The booking of a promoted entry.                                        *)
PromotedRow(e) == [status |-> "CONFIRMED", slot |-> entry[e].slot, ver |-> 1, over |-> FALSE,
                   key |-> e, origin |-> "WAITLIST"]

(* As Chain, leaving the others behind on the released appointment.        *)
Chain_LeftBehind(e, a, b) ==
  [entry EXCEPT ![e].state = IF Waiting(e, a) THEN "FULFILLED" ELSE @,
                ![e].booking = IF Waiting(e, a) THEN b ELSE @]

(* The entry is marked with its booking and everybody else waits for that. *)
(* The update that marks it does not look at how many rows it changed.     *)
Chain(e, a, b) ==
  [f \in Entries |->
    IF ~Waiting(f, a) THEN entry[f]
    ELSE IF f = e THEN [entry[f] EXCEPT !.state = "FULFILLED", !.booking = b]
    ELSE [entry[f] EXCEPT !.ap = b]]

(* fulfillWaitlistOnCancel's writes, on top of the table tab.              *)
Promoting(t, tab) ==
  \/ /\ tx[t].promo = None
     /\ appt' = tab /\ UNCHANGED entry
  \/ /\ tx[t].promo # None
     /\ KeyUnused(tx[t].promo)
     /\ \E b \in Appts :
          /\ IsFresh(b)
          /\ appt' = [tab EXCEPT ![b] = PromotedRow(tx[t].promo)]
          /\ Fits(appt', b)
          /\ entry' = Chain(tx[t].promo, tx[t].ap, b)

-----------------------------------------------------------------------------
(* Rescheduling, by staff or by the client, and as a proposal.             *)

(* rescheduleAppointment up to its update, alone or from                   *)
(* requestStaffReschedule, which changes the slot.                         *)
CheckMove(t) ==
  \E a \in Appts, s \in Slots, client \in BOOLEAN, op \in {"move", "propose"} :
    LET row == appt[a]
        over == ~Available(s, {a}) IN
    /\ row.status \in ReschedulableStatuses /\ row.slot.from > now
    /\ row.ver < MaxVersion
    /\ Acquire(t, ScopeLocks(a, {s.pro}))
    /\ op = "propose" => ~client
    /\ client => /\ ClientMayChange(row.status, row.slot.from, now, Cutoff)
                 /\ s.from >= now + MinLead /\ ~over
    /\ Begin(t, [Request(op, a) EXCEPT !.pc = IF s = row.slot THEN "ready" ELSE "queue",
                   !.slot = s, !.over = over, !.ver = row.ver])
    /\ Reads

(* nextWaitlistSlot: the released slot has to suit the first in the queue, *)
(* or nothing is moved (WAITLIST_BLOCKED).  Without a paid subscription    *)
(* nobody is promoted.                                                     *)
QueueMove(t) ==
  LET a == tx[t].ap IN
  /\ tx[t].pc = "queue" /\ tx[t].op \in {"move", "propose"}
  /\ Acquire(t, {QueueLock(a)})
  /\ \/ /\ QueueEmpty(a)
        /\ tx' = [tx EXCEPT ![t] = [@ EXCEPT !.pc = "ready"]]
     \/ \E e \in Entries :
          /\ IsFirst(e, a) /\ Available(entry[e].slot, {a})
          /\ tx' = [tx EXCEPT ![t] = [@ EXCEPT !.pc = "ready",
                                              !.promo = IF billing THEN e ELSE None]]
  /\ Reads

(* As Superseded, with the open proposals forgotten.                       *)
Superseded_Forgotten(a) == [i \in Props |-> prop[i]]

(* cancelPendingRescheduleProposals.                                       *)
Superseded(a) ==
  [i \in Props |-> IF prop[i].ap = a /\ prop[i].status = "PENDING"
                   THEN [prop[i] EXCEPT !.status = "CANCELLED"] ELSE prop[i]]

Current(t) == LET row == appt[tx[t].ap] IN IsActive(row) /\ row.ver = tx[t].ver

(* requestStaffReschedule records the proposal about the version it wrote. *)
Propose(t) ==
  \E i \in Props :
    /\ prop[i].status = "ABSENT"
    /\ \A j \in Props : j < i => prop[j].status # "ABSENT"
    /\ prop' = [Superseded(tx[t].ap) EXCEPT
                  ![i] = [status |-> "PENDING", ap |-> tx[t].ap, slot |-> tx[t].slot,
                          ver |-> tx[t].ver + 1]]

(* The rest of rescheduleAppointment: update, promotion and proposals.     *)
CommitMove(t) ==
  LET a == tx[t].ap
      moved == [appt EXCEPT ![a] = [@ EXCEPT !.slot = tx[t].slot, !.over = tx[t].over,
                                             !.status = "CONFIRMED", !.ver = appt[a].ver + 1]] IN
  /\ tx[t].pc = "ready" /\ tx[t].op \in {"move", "propose"}
  /\ Current(t)
  /\ Fits(moved, a)
  /\ Promoting(t, moved)
  /\ \/ tx[t].op = "move" /\ prop' = Superseded(a)
     \/ tx[t].op = "propose" /\ Propose(t)
  /\ End(t)
  /\ UNCHANGED <<now, billing>>

(* respondToRescheduleProposal: the appointment still is as proposed.      *)
CheckAnswer(t) ==
  \E i \in Props, d \in Decisions :
    LET a == prop[i].ap IN
    /\ prop[i].status = "PENDING"
    /\ Acquire(t, ScopeLocks(a, {}))
    /\ appt[a].ver = prop[i].ver /\ appt[a].slot = prop[i].slot
    /\ appt[a].status \in ReschedulableStatuses
    /\ Begin(t, [Request("answer", a) EXCEPT !.pc = "ready", !.id = i, !.st = d])
    /\ Reads

CommitAnswer(t) ==
  /\ tx[t].pc = "ready" /\ tx[t].op = "answer"
  /\ prop[tx[t].id].status = "PENDING"
  /\ prop' = [prop EXCEPT ![tx[t].id] = [@ EXCEPT !.status = tx[t].st]]
  /\ End(t)
  /\ UNCHANGED <<appt, entry, now, billing>>

-----------------------------------------------------------------------------
(* Cancellation and promotion.                                             *)

(* cancelAppointmentReliably up to its update.  Only a client's            *)
(* cancellation goes on to the queue.                                      *)
CheckCancel(t) ==
  \E a \in Appts, client \in BOOLEAN :
    LET row == appt[a] IN
    /\ IsActive(row) /\ row.slot.from > now
    /\ Acquire(t, ScopeLocks(a, {}))
    /\ client => ClientMayChange(row.status, row.slot.from, now, Cutoff)
    /\ Begin(t, [Request("cancel", a) EXCEPT !.pc = IF client THEN "queue" ELSE "ready",
                                             !.ver = row.ver])
    /\ Reads

(* The first in the queue is promoted if the slot suits; if not, the queue *)
(* stays as it is and the appointment is cancelled all the same.           *)
QueueCancel(t) ==
  LET a == tx[t].ap
      suits(e) == billing /\ IsFirst(e, a) /\ Available(entry[e].slot, {a}) IN
  /\ tx[t].pc = "queue" /\ tx[t].op = "cancel"
  /\ Acquire(t, {QueueLock(a)})
  /\ \/ \E e \in Entries :
          suits(e) /\ tx' = [tx EXCEPT ![t] = [@ EXCEPT !.pc = "ready", !.promo = e]]
     \/ /\ \A e \in Entries : ~suits(e)
        /\ tx' = [tx EXCEPT ![t] = [@ EXCEPT !.pc = "ready"]]
  /\ Reads

(* The professionals of everybody in the queue, read before its lock.      *)
SeatLocks(a) == {ProLock(entry[e].slot.pro) : e \in {f \in Entries : Waiting(f, a)}}

(* promoteWaitlistEntry, and cancelAndPromoteWaitlist, which cancels in    *)
(* the same transaction first.                                             *)
CheckPromote(t) ==
  \E a \in Appts, e \in Entries :
    /\ appt[a].status = "CANCELLED"
    /\ Acquire(t, {ApptLock(a)} \cup SeatLocks(a))
    /\ Begin(t, [Request("promote", a) EXCEPT !.pc = "queue", !.who = e])
    /\ Reads

CheckHandover(t) ==
  \E a \in Appts, e \in Entries :
    /\ IsActive(appt[a]) /\ appt[a].slot.from > now
    /\ Acquire(t, ScopeLocks(a, {}) \cup SeatLocks(a))
    /\ Begin(t, [Request("handover", a) EXCEPT !.pc = "queue", !.who = e, !.ver = appt[a].ver])
    /\ Reads

(* Only the first may be promoted, and only where no active appointment    *)
(* overlaps; unlike Available, this query does not widen by the buffer.    *)
QueuePromote(t) ==
  LET a == tx[t].ap
      e == tx[t].who IN
  /\ tx[t].pc = "queue" /\ tx[t].op \in {"promote", "handover"}
  /\ Acquire(t, {QueueLock(a)})
  /\ IsFirst(e, a) /\ billing
  /\ \A b \in Appts \ {a} : IsActive(appt[b]) => ~Clash(appt[b].slot, entry[e].slot, 0)
  /\ tx' = [tx EXCEPT ![t] = [@ EXCEPT !.pc = "ready", !.promo = e]]
  /\ Reads

CommitCancel(t) ==
  LET a == tx[t].ap IN
  /\ tx[t].pc = "ready" /\ tx[t].op \in {"cancel", "handover"}
  /\ Current(t)
  /\ Promoting(t, [appt EXCEPT ![a] = [@ EXCEPT !.status = "CANCELLED", !.ver = appt[a].ver + 1]])
  /\ prop' = Superseded(a)
  /\ End(t)
  /\ UNCHANGED <<now, billing>>

CommitPromote(t) ==
  /\ tx[t].pc = "ready" /\ tx[t].op = "promote"
  /\ Promoting(t, appt)
  /\ End(t)
  /\ UNCHANGED <<prop, now, billing>>

-----------------------------------------------------------------------------
(* updateAppointmentStatusReliably for every status but CANCELLED.         *)

CheckStatus(t) ==
  \E a \in Appts, st \in Statuses \ {"CANCELLED"} :
    LET row == appt[a] IN
    /\ row.status \in Statuses /\ st \in Transitions[row.status]
    /\ OperationalTimeOk(st, row.slot.from, now)
    /\ Acquire(t, ScopeLocks(a, {}))
    /\ Begin(t, [Request("status", a) EXCEPT !.pc = "ready", !.st = st, !.ver = row.ver])
    /\ Reads

CommitStatus(t) ==
  LET a == tx[t].ap IN
  /\ tx[t].pc = "ready" /\ tx[t].op = "status"
  /\ appt[a].ver = tx[t].ver      \* a version has one status
  /\ appt' = [appt EXCEPT ![a] = [@ EXCEPT !.status = tx[t].st, !.ver = appt[a].ver + 1]]
  /\ prop' = IF tx[t].st \in {"COMPLETED", "NO_SHOW"} THEN Superseded(a) ELSE prop
  /\ End(t)
  /\ UNCHANGED <<entry, now, billing>>

-----------------------------------------------------------------------------
Tick ==
  /\ now < MaxNow /\ now' = now + 1
  /\ UNCHANGED <<appt, entry, prop, lock, tx, billing>>

(* The subscription lapses or is paid again (assertBillingReservation).    *)
BillingChange ==
  /\ BillingVaries /\ billing' = ~billing
  /\ UNCHANGED <<appt, entry, prop, lock, tx, now>>

Init ==
  /\ appt \in InitialTables
  /\ entry = [e \in Entries |-> NoEntry]
  /\ prop = [i \in Props |-> NoProp]
  /\ lock = [l \in Locks |-> Free]
  /\ tx = [t \in Txs |-> Idle]
  /\ now = 0
  /\ billing = TRUE

TxNext(t) ==
  \/ CheckCreate(t) \/ CommitCreate(t)
  \/ CheckJoin(t) \/ CommitJoin(t)
  \/ ReadLeave(t) \/ CommitLeave(t) \/ ReadElsewhere(t) \/ CommitElsewhere(t)
  \/ CheckMove(t) \/ QueueMove(t) \/ CommitMove(t)
  \/ CheckAnswer(t) \/ CommitAnswer(t)
  \/ CheckCancel(t) \/ QueueCancel(t) \/ CommitCancel(t)
  \/ CheckPromote(t) \/ CheckHandover(t) \/ QueuePromote(t) \/ CommitPromote(t)
  \/ CheckStatus(t) \/ CommitStatus(t)
  \/ Rollback(t)

Next == (\E t \in Txs : TxNext(t)) \/ Tick \/ BillingChange

Spec == Init /\ [][Next]_vars

-----------------------------------------------------------------------------
(* Properties.                                                             *)

(* Every table and every transaction has its type; a transaction that      *)
(* works on an existing appointment or queue names one.                    *)
Entry == [state : {"ABSENT", "WAITING", "FULFILLED", "CANCELLED"}, ap : Appts \cup {None},
          slot : Slots, booking : Appts \cup {None}]
Prop == [status : {"ABSENT", "PENDING", "CANCELLED"} \cup Decisions, ap : Appts \cup {None},
         slot : Slots, ver : Nat]
Tx == [pc : Steps, op : OperationNames, ap : Appts \cup {None}, key : Keys \cup {None},
       slot : Slots, over : BOOLEAN, who : Entries \cup {None}, id : Props \cup {None},
       st : Statuses \cup Decisions, ver : Nat, promo : Entries \cup {None}]

TypeOK ==
  /\ appt \in [Appts -> Row]
  /\ entry \in [Entries -> Entry]
  /\ prop \in [Props -> Prop]
  /\ lock \in [Locks -> Txs \cup {Free}]
  /\ tx \in [Txs -> Tx]
  /\ now \in 0..MaxNow
  /\ billing \in BOOLEAN

(* A professional never has two active appointments at once unless staff   *)
(* overbooked one of them, whichever of create, move or promotion wrote.   *)
NoDoubleBooking ==
  \A a, b \in Appts :
    a # b /\ IsExclusive(appt[a]) /\ IsExclusive(appt[b]) => ~Clash(appt[a].slot, appt[b].slot, 0)

(* Between two bookings that were neither overbooked nor promoted from a   *)
(* queue there is always the salon's buffer.  The database does not check  *)
(* this: it rests on the professional lock being held from the             *)
(* availability query to the write, for the current professional and for   *)
(* the one a move goes to.                                                 *)
Plain(r) == IsExclusive(r) /\ r.origin = "DIRECT"
BufferKept ==
  \A a, b \in Appts :
    a # b /\ Plain(appt[a]) /\ Plain(appt[b]) => ~Clash(appt[a].slot, appt[b].slot, Buffer)

(* A transaction that is about to change an appointment, or to record an   *)
(* answer about it, still sees it as it read it: the appointment lock      *)
(* makes the version test of the update a second line of defence.          *)
ReadsStayCurrent ==
  \A t \in Txs :
    /\ tx[t].pc # "idle" /\ tx[t].op \in {"move", "propose", "cancel", "handover", "status"}
         => appt[tx[t].ap].ver = tx[t].ver
    /\ tx[t].pc # "idle" /\ tx[t].op = "answer"
         => /\ prop[tx[t].id].status = "PENDING"
            /\ prop[tx[t].id].ver = appt[tx[t].ap].ver

(* Attendance is never recorded ahead of the booked time, also when the    *)
(* appointment is moved while the status is being changed.                 *)
NoEarlyAttendance ==
  \A a \in Appts : appt[a].status \in AttendanceStatuses => appt[a].slot.from <= now

(* One idempotency key, or one waitlist entry, books at most once.         *)
OneBookingPerKey ==
  \A a, b \in Appts : a # b /\ appt[a].key # None => appt[a].key # appt[b].key

(* On a limited plan concurrent creations do not share the last place.     *)
WithinQuota == FreePlan => MonthlyCount <= MonthlyLimit

(* Whoever waits, waits for the professional and start its appointment     *)
(* has, through moves, promotions and chains.                              *)
QueueFollowsSlot ==
  \A e \in Entries :
    entry[e].state = "WAITING" => /\ entry[e].slot.pro = appt[entry[e].ap].slot.pro
                                 /\ entry[e].slot.from = appt[entry[e].ap].slot.from

(* A booking from a queue goes to the one who waited there longest.        *)
PromotionOrder ==
  [][\A e \in Entries, b \in Appts :
       appt[b].status = "ABSENT" /\ appt'[b].key = e
         => \A f \in Entries : f < e => ~Waiting(f, entry[e].ap)]_vars

(* A proposal that waits for an answer describes the booking as it is, up  *)
(* to the start of the visit.                                              *)
PendingProposalIsCurrent ==
  \A i \in Props :
    LET row == appt[prop[i].ap] IN
    prop[i].status = "PENDING" =>
      /\ row.slot = prop[i].slot
      /\ \/ row.status \in ReschedulableStatuses /\ row.ver = prop[i].ver
         \/ row.status = "IN_PROGRESS"

(* The client's answer is recorded about the booking it was shown, never   *)
(* about one already begun, moved or cancelled.                            *)
AnswersMatch ==
  [][\A i \in Props :
       prop[i].status = "PENDING" /\ prop'[i].status \in Decisions
         => LET row == appt[prop[i].ap] IN
            row.slot = prop[i].slot /\ row.status \in ReschedulableStatuses]_vars

(* promoteWaitlistEntry and fulfillWaitlistEntryElsewhere: an entry that   *)
(* left the queue, by cancelling or with a booking elsewhere, while a      *)
(* promotion looks at the queue is not promoted by mistake: the booking of *)
(* an entry is the one the entry itself names.                             *)
LeftEntryNotPromoted ==
  \A e \in Entries, a \in Appts :
    appt[a].key = e => entry[e].state = "FULFILLED" /\ entry[e].booking = a

(* The decision record: a manual promotion validates the buffer again.     *)
ManualPromotionKeepsBuffer ==
  [][\A t \in Txs : CommitPromote(t)
       => \A b \in Appts : appt[b].status = "ABSENT" /\ appt'[b].status = "CONFIRMED"
            => Available(appt'[b].slot, {b})]_vars

(* What the agenda shows of an appointment row, and the promise kept to    *)
(* everybody who reads it: creations, moves, cancellations, attendance and *)
(* promotions, with all their steps and locks, implement a calendar whose  *)
(* bookings are taken, moved, released and handed over one step at a time, *)
(* consistent after each.                                                  *)
OnCalendar(r) ==
  [state |-> IF r.status = "ABSENT" THEN "unused" ELSE IF IsActive(r) THEN "held" ELSE "past",
   slot |-> r.slot, over |-> r.over, queued |-> r.origin = "WAITLIST", key |-> r.key]
TheCalendar == INSTANCE Calendar WITH agenda <- [a \in Appts |-> OnCalendar(appt[a])],
                                      Requests <- Keys \cup Entries, NoRequest <- None
ImplementsCalendar == TheCalendar!Spec
=============================================================================
