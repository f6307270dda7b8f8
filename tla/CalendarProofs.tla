--------------------------- MODULE CalendarProofs ---------------------------
(***************************************************************************)
(* What the bookings promise together, for every number of appointments,   *)
(* entries, slots and transactions.  The middle of the argument is         *)
(* TableStep: whatever transaction takes a step, at most one appointment   *)
(* is rewritten and at most one is added, under a request nobody has       *)
(* booked for.  Booking implements Calendar: what the calendar promises of *)
(* the whole table after the step is the invariants of BookingProofs.  The *)
(* queues and the plan limit follow, by what each open transaction knows   *)
(* under the locks it holds.                                               *)
(***************************************************************************)
EXTENDS BookingProofs, FiniteSetTheorems

-----------------------------------------------------------------------------
(* What a step does to the table of appointments.                          *)

AddedRow(b) ==
  /\ appt[b].status = "ABSENT" /\ IsActive(appt'[b])
  /\ \A c \in Appts : appt[c].key # appt'[b].key
KeepsRequest(a) == appt'[a].key = appt[a].key /\ appt'[a].origin = appt[a].origin
MovedRow(a) == IsActive(appt[a]) /\ IsActive(appt'[a]) /\ KeepsRequest(a)
ClosedRow(a) ==
  /\ IsActive(appt[a]) /\ appt'[a].status \in ClosedStatuses /\ KeepsRequest(a)
  /\ appt'[a].slot = appt[a].slot /\ appt'[a].over = appt[a].over

Rest(ids) == \A c \in Appts \ ids : appt'[c] = appt[c]
TableStep ==
  \/ appt' = appt
  \/ \E a \in Appts : (AddedRow(a) \/ MovedRow(a) \/ ClosedRow(a)) /\ Rest({a})
  \/ \E a, b \in Appts : /\ a # b /\ (MovedRow(a) \/ ClosedRow(a)) /\ AddedRow(b)
                         /\ appt'[b].origin = "WAITLIST" /\ Rest({a, b})

LEMMA InsertTable ==
  ASSUME Shape, NEW t \in Txs, NEW a \in Appts, Insert(t, a)
  PROVE  TableStep
<1> DEFINE new == [status |-> "CONFIRMED", slot |-> tx[t].slot, ver |-> 1,
                   over |-> tx[t].over, key |-> tx[t].key, origin |-> "DIRECT"]
<1>1. new.key = tx[t].key /\ new.status = "CONFIRMED"
  OBVIOUS
<1>2. appt[a].status = "ABSENT" /\ appt' = [appt EXCEPT ![a] = new]
      /\ \A c \in Appts : appt[c].key # tx[t].key
  BY DEF Insert, IsFresh, KeyUnused
<1> HIDE DEF new
<1>3. appt'[a] = new /\ Rest({a})
  BY <1>2 DEF Shape, TablesOK, Rest
<1>4. AddedRow(a)
  BY <1>1, <1>2, <1>3 DEF AddedRow, IsActive, ActiveStatuses
<1> QED BY <1>3, <1>4 DEF TableStep

(* The promotion adds a row to whatever table the operation wrote.         *)
LEMMA PromotingTable ==
  ASSUME Shape, NEW t \in Txs, NEW tab \in [Appts -> Row], Promoting(t, tab)
  PROVE  \/ appt' = tab
         \/ \E b \in Appts : /\ AddedRow(b) /\ appt'[b].origin = "WAITLIST"
                            /\ \A c \in Appts \ {b} : appt'[c] = tab[c]
<1>1. CASE tx[t].promo = None
  BY <1>1 DEF Promoting
<1>2. CASE tx[t].promo # None
  <2> DEFINE new == PromotedRow(tx[t].promo)
  <2>1. new.key = tx[t].promo /\ new.status = "CONFIRMED" /\ new.origin = "WAITLIST"
    BY DEF PromotedRow
  <2>2. PICK b \in Appts : /\ appt[b].status = "ABSENT" /\ appt' = [tab EXCEPT ![b] = new]
                           /\ \A c \in Appts : appt[c].key # tx[t].promo
    BY <1>2 DEF Promoting, IsFresh, KeyUnused
  <2> HIDE DEF new
  <2>3. appt'[b] = new /\ \A c \in Appts \ {b} : appt'[c] = tab[c]
    BY <2>2
  <2>4. AddedRow(b)
    BY <2>1, <2>2, <2>3 DEF AddedRow, IsActive, ActiveStatuses
  <2> QED BY <2>1, <2>3, <2>4
<1> QED BY <1>1, <1>2

(* An operation that rewrites row a and may promote.                       *)
LEMMA RewriteTable ==
  ASSUME Shape, NEW t \in Txs, NEW a \in Appts, NEW new \in Row, IsActive(appt[a]),
         Promoting(t, [appt EXCEPT ![a] = new]),
         new.key = appt[a].key, new.origin = appt[a].origin,
         \/ IsActive(new)
         \/ new.status \in ClosedStatuses /\ new.slot = appt[a].slot /\ new.over = appt[a].over
  PROVE  TableStep
<1> DEFINE tab == [appt EXCEPT ![a] = new]
<1>1. tab \in [Appts -> Row] /\ tab[a] = new /\ \A c \in Appts \ {a} : tab[c] = appt[c]
  BY DEF Shape, TablesOK
<1> HIDE DEF tab
<1>2. appt'[a] = new => MovedRow(a) \/ ClosedRow(a)
  BY DEF MovedRow, ClosedRow, KeepsRequest
<1>3. CASE appt' = tab
  BY <1>1, <1>2, <1>3 DEF TableStep, Rest
<1>4. CASE \E b \in Appts : /\ AddedRow(b) /\ appt'[b].origin = "WAITLIST"
                            /\ \A c \in Appts \ {b} : appt'[c] = tab[c]
  <2>1. PICK b \in Appts : /\ AddedRow(b) /\ appt'[b].origin = "WAITLIST"
                          /\ \A c \in Appts \ {b} : appt'[c] = tab[c]
    BY <1>4
  <2>2. a # b
    BY <2>1 DEF AddedRow, IsActive, ActiveStatuses
  <2> QED BY <1>1, <1>2, <2>1, <2>2 DEF TableStep, Rest
<1> QED BY <1>1, <1>3, <1>4, PromotingTable DEF tab

LEMMA CommitMoveTable ==
  ASSUME Shape, NEW t \in Txs, CommitMove(t)
  PROVE  TableStep
<1> DEFINE a == tx[t].ap
           old == appt[a]
           s == tx[t].slot
           over == tx[t].over
           ver == old.ver + 1
           new == [old EXCEPT !.slot = s, !.over = over, !.status = "CONFIRMED", !.ver = ver]
<1>1. a \in Appts /\ s \in Slots /\ over \in BOOLEAN
  BY DEF CommitMove, Shape, TxsOK, Tx, Filled, OnRow, RowWrites
<1>2. Promoting(t, [appt EXCEPT ![a] = new]) /\ IsActive(appt[a])
  BY DEF CommitMove, Current
<1>3. new \in Row /\ new.status = "CONFIRMED" /\ new.key = old.key /\ new.origin = old.origin
  <2>1. ver \in Nat /\ old \in Row
    BY <1>1 DEF Shape, TablesOK, Row
  <2> HIDE DEF old, s, over, ver
  <2> QED BY <1>1, <2>1 DEF Row, Statuses, ActiveStatuses
<1> HIDE DEF new, a
<1>4. IsActive(new)
  BY <1>3 DEF IsActive, ActiveStatuses
<1> QED BY <1>1, <1>2, <1>3, <1>4, RewriteTable

LEMMA CommitCancelTable ==
  ASSUME Shape, NEW t \in Txs, CommitCancel(t)
  PROVE  TableStep
<1> DEFINE a == tx[t].ap
           old == appt[a]
           ver == old.ver + 1
           new == [old EXCEPT !.status = "CANCELLED", !.ver = ver]
<1>1. a \in Appts
  BY DEF CommitCancel, Shape, TxsOK, Filled, OnRow, RowWrites
<1>2. Promoting(t, [appt EXCEPT ![a] = new]) /\ IsActive(appt[a])
  BY DEF CommitCancel, Current
<1>3. /\ new \in Row /\ new.status = "CANCELLED" /\ new.key = old.key /\ new.origin = old.origin
      /\ new.slot = old.slot /\ new.over = old.over
  <2>1. ver \in Nat /\ old \in Row
    BY <1>1 DEF Shape, TablesOK, Row
  <2> HIDE DEF old, ver
  <2> QED BY <2>1 DEF Row, Statuses, ClosedStatuses
<1> HIDE DEF new, a
<1>4. new.status \in ClosedStatuses
  BY <1>3 DEF ClosedStatuses
<1> QED BY <1>1, <1>2, <1>3, <1>4, RewriteTable

LEMMA CommitStatusTable ==
  ASSUME Shape, NEW t \in Txs, Sound(t), CommitStatus(t)
  PROVE  TableStep
<1> DEFINE a == tx[t].ap
           old == appt[a]
           ver == old.ver + 1
           st == tx[t].st
           new == [old EXCEPT !.status = st, !.ver = ver]
<1>1. a \in Appts /\ old.status \in Statuses /\ st \in Transitions[old.status]
  BY DEF CommitStatus, Shape, TxsOK, Filled, OnRow, RowWrites, Sound, Fresh
<1>2. old \in Row /\ IsActive(old) /\ st \in Statuses
  BY <1>1, TransitionsStart DEF IsActive, Shape, TablesOK
<1>3. appt' = [appt EXCEPT ![a] = new]
  BY DEF CommitStatus
<1>4. /\ new.slot = old.slot /\ new.over = old.over
      /\ new.status = st /\ new.origin = old.origin /\ new.key = old.key
  <2> HIDE DEF old, st, ver
  <2> QED BY <1>2 DEF Row
<1> HIDE DEF new
<1>5. appt'[a] = new /\ \A b \in Appts \ {a} : appt'[b] = appt[b]
  BY <1>1, <1>3 DEF Shape, TablesOK
<1>6. MovedRow(a) \/ ClosedRow(a)
  BY <1>2, <1>4, <1>5 DEF MovedRow, ClosedRow, KeepsRequest, IsActive, Statuses
<1> HIDE DEF a
<1> QED BY <1>1, <1>5, <1>6 DEF TableStep, Rest

LEMMA TxNextTable ==
  ASSUME IInv, NEW t \in Txs, TxNext(t)
  PROVE  TableStep
<1>0. Shape /\ Sound(t)
  BY DEF IInv
<1>1. CASE CommitCreate(t) \/ CommitElsewhere(t)
  BY <1>0, <1>1, InsertTable DEF CommitCreate, CommitElsewhere
<1>2. CASE CommitMove(t)  BY <1>0, <1>2, CommitMoveTable
<1>3. CASE CommitCancel(t)  BY <1>0, <1>3, CommitCancelTable
<1>4. CASE CommitStatus(t)  BY <1>0, <1>4, CommitStatusTable
<1>5. CASE CommitPromote(t)
  BY <1>0, <1>5, PromotingTable DEF CommitPromote, Shape, TablesOK, TableStep, Rest
<1>6. CASE CommitJoin(t) \/ CommitLeave(t) \/ CommitAnswer(t) \/ Rollback(t)
  BY <1>6 DEF CommitJoin, CommitLeave, CommitAnswer, Rollback, Reads, TableStep
<1>7. CASE Checks(t)
  BY <1>7 DEF Checks, CheckCreate, CheckJoin, ReadLeave, ReadElsewhere, CheckMove, QueueMove, CheckAnswer,
         CheckCancel, QueueCancel, CheckPromote, CheckHandover, QueuePromote, CheckStatus, Reads, TableStep
<1> QED BY <1>1, <1>2, <1>3, <1>4, <1>5, <1>6, <1>7 DEF TxNext, Checks

LEMMA NextTable == IInv /\ [Next]_vars => TableStep
BY TxNextTable DEF Next, Tick, BillingChange, vars, TableStep

-----------------------------------------------------------------------------
(* One booking per request.                                                *)

LEMMA NextOnce == OneBookingPerKey /\ TableStep => OneBookingPerKey'
<1> SUFFICES ASSUME OneBookingPerKey, TableStep, NEW a \in Appts, NEW b \in Appts, a # b,
                    appt'[a].key # None, appt'[a].key = appt'[b].key
             PROVE  FALSE
  BY DEF OneBookingPerKey
<1>1. \A c \in Appts : appt'[c].key = appt[c].key \/ AddedRow(c)
  BY DEF TableStep, MovedRow, ClosedRow, KeepsRequest, Rest
<1>2. \A c, d \in Appts : AddedRow(c) /\ AddedRow(d) => c = d
  <2>1. \A c \in Appts : AddedRow(c) => ~MovedRow(c) /\ ~ClosedRow(c) /\ appt'[c] # appt[c]
    BY DEF AddedRow, MovedRow, ClosedRow, IsActive, ActiveStatuses
  <2> QED BY <2>1 DEF TableStep, Rest
<1> QED BY <1>1, <1>2 DEF OneBookingPerKey, AddedRow

(* A request, or a place in a queue, has one booking at most: retries,     *)
(* concurrent repetitions and cancelled bookings included.                 *)
THEOREM RequestsBookOnce == Spec => []OneBookingPerKey
<1>1. Init => OneBookingPerKey
  BY InitialAssumption DEF Init, OneBookingPerKey
<1>2. IInv /\ OneBookingPerKey /\ [Next]_vars => OneBookingPerKey'
  BY NextTable, NextOnce
<1> QED BY <1>1, <1>2, IInvHolds, PTL DEF Spec

-----------------------------------------------------------------------------
(* The refinement.                                                         *)

LEMMA CalendarCells ==
  ASSUME Shape
  PROVE  [a \in Appts |-> OnCalendar(appt[a])] \in [Appts -> TheCalendar!Booking]
<1> SUFFICES ASSUME NEW a \in Appts PROVE OnCalendar(appt[a]) \in TheCalendar!Booking
  OBVIOUS
<1>1. appt[a] \in Row
  BY DEF Shape, TablesOK
<1> QED BY <1>1 DEF OnCalendar, TheCalendar!Booking, Row

LEMMA CalendarPromises ==
  ASSUME NoDoubleBooking, BufferKept, OneBookingPerKey, Shape
  PROVE  /\ TheCalendar!Consistent([a \in Appts |-> OnCalendar(appt[a])])
         /\ TheCalendar!BookedOnce([a \in Appts |-> OnCalendar(appt[a])])
<1> DEFINE tab == [a \in Appts |-> OnCalendar(appt[a])]
<1>1. \A a \in Appts : /\ tab[a].slot = appt[a].slot /\ tab[a].key = appt[a].key
                       /\ TheCalendar!IsFixed(tab[a]) => IsExclusive(appt[a])
                       /\ TheCalendar!IsPlain(tab[a]) => Plain(appt[a])
  <2> SUFFICES ASSUME NEW a \in Appts
               PROVE /\ OnCalendar(appt[a]).slot = appt[a].slot /\ OnCalendar(appt[a]).key = appt[a].key
                     /\ TheCalendar!IsFixed(OnCalendar(appt[a])) => IsExclusive(appt[a])
                     /\ TheCalendar!IsPlain(OnCalendar(appt[a])) => Plain(appt[a])
    OBVIOUS
  <2>1. appt[a].origin \in {"DIRECT", "WAITLIST"}
    BY DEF Shape, TablesOK, Row
  <2> QED BY <2>1 DEF OnCalendar, IsExclusive, Plain, TheCalendar!IsFixed, TheCalendar!IsPlain, TheCalendar!IsHeld
<1> HIDE DEF tab
<1>2. TheCalendar!Consistent(tab)
  <2>1. \A a, b \in Appts : a # b /\ TheCalendar!IsFixed(tab[a]) /\ TheCalendar!IsFixed(tab[b])
                              => ~TheCalendar!Clash(tab[a].slot, tab[b].slot, 0)
    BY <1>1 DEF NoDoubleBooking, Clash, TheCalendar!Clash
  <2>2. \A a, b \in Appts : a # b /\ TheCalendar!IsPlain(tab[a]) /\ TheCalendar!IsPlain(tab[b])
                              => ~TheCalendar!Clash(tab[a].slot, tab[b].slot, Buffer)
    BY <1>1 DEF BufferKept, Clash, TheCalendar!Clash
  <2> QED BY <2>1, <2>2 DEF TheCalendar!Consistent
<1>3. TheCalendar!BookedOnce(tab)
  BY <1>1 DEF OneBookingPerKey, TheCalendar!BookedOnce
<1> QED BY <1>2, <1>3 DEF tab
(* A step of the tables is a step of the calendar, or shows nothing on it. *)
LEMMA TableStepOnCalendar ==
  ASSUME Shape, Shape', TableStep
  PROVE  \/ UNCHANGED [a \in Appts |-> OnCalendar(appt[a])]
         \/ \E a \in Appts : TheCalendar!ChangeOne(a) \/ \E b \in Appts : TheCalendar!HandOver(a, b)
<1> DEFINE tab == [a \in Appts |-> OnCalendar(appt[a])]
           new == [a \in Appts |-> OnCalendar(appt'[a])]
<1>1. /\ new = tab'
      /\ \A a \in Appts : tab[a] = OnCalendar(appt[a]) /\ new[a] = OnCalendar(appt'[a])
  BY DEF OnCalendar, IsActive
<1>2. \A a \in Appts : AddedRow(a) => TheCalendar!Taken(tab[a], new[a])
  BY <1>1 DEF AddedRow, OnCalendar, TheCalendar!Taken, TheCalendar!IsHeld, IsActive, ActiveStatuses
<1>3. \A a \in Appts : MovedRow(a) => TheCalendar!Moved(tab[a], new[a])
  BY <1>1 DEF MovedRow, KeepsRequest, OnCalendar, TheCalendar!Moved, TheCalendar!IsHeld, IsActive, ActiveStatuses
<1>4. \A a \in Appts : ClosedRow(a) => TheCalendar!Released(tab[a], new[a])
  BY <1>1 DEF ClosedRow, KeepsRequest, OnCalendar, TheCalendar!Released, TheCalendar!IsHeld, IsActive,
              ActiveStatuses, ClosedStatuses
<1>5. \A ids : Rest(ids) => \A c \in Appts \ ids : new[c] = tab[c]
  BY <1>1 DEF Rest
<1>6. CASE appt' = appt
  BY <1>6
<1>7. CASE \E a \in Appts : (AddedRow(a) \/ MovedRow(a) \/ ClosedRow(a)) /\ Rest({a})
  <2>1. PICK a \in Appts : (AddedRow(a) \/ MovedRow(a) \/ ClosedRow(a)) /\ Rest({a})
    BY <1>7
  <2>2. \A c \in Appts \ {a} : new[c] = tab[c]
    BY <1>5, <2>1
  <2>3. TheCalendar!Taken(tab[a], new[a]) \/ TheCalendar!Moved(tab[a], new[a]) \/ TheCalendar!Released(tab[a], new[a])
    BY <1>2, <1>3, <1>4, <2>1
  <2> HIDE DEF new, tab
  <2>4. TheCalendar!ChangeOne(a)
    BY <1>1, <2>2, <2>3 DEF TheCalendar!ChangeOne, TheCalendar!OnlyChanges, tab
  <2> QED BY <2>4
<1>8. CASE \E a, b \in Appts : /\ a # b /\ (MovedRow(a) \/ ClosedRow(a)) /\ AddedRow(b)
                               /\ appt'[b].origin = "WAITLIST" /\ Rest({a, b})
  <2>1. PICK a \in Appts, b \in Appts : /\ a # b /\ (MovedRow(a) \/ ClosedRow(a)) /\ AddedRow(b)
                                        /\ appt'[b].origin = "WAITLIST" /\ Rest({a, b})
    BY <1>8
  <2>2. \A c \in Appts \ {a, b} : new[c] = tab[c]
    BY <1>5, <2>1
  <2>3. TheCalendar!Taken(tab[b], new[b]) /\ (TheCalendar!Moved(tab[a], new[a]) \/ TheCalendar!Released(tab[a], new[a]))
    BY <1>2, <1>3, <1>4, <2>1
  <2>4. new[b].queued
    BY <1>1, <2>1 DEF OnCalendar
  <2> QED BY <1>1, <2>1, <2>2, <2>3, <2>4 DEF TheCalendar!HandOver, TheCalendar!OnlyChanges
<1> QED BY <1>6, <1>7, <1>8 DEF TableStep

CalendarGood ==
  LET tab == [a \in Appts |-> OnCalendar(appt[a])] IN
  /\ tab \in [Appts -> TheCalendar!Booking]
  /\ TheCalendar!Consistent(tab) /\ TheCalendar!BookedOnce(tab)

(* The detailed transactions implement the calendar: whoever looks at the  *)
(* agenda sees bookings taken, moved, released and handed over one step at *)
(* a time, never two in conflict and never a request booked twice.         *)
THEOREM CalendarImplemented == Spec => ImplementsCalendar
<1> DEFINE Good == IInv /\ NoDoubleBooking /\ OneBookingPerKey
           tab == [a \in Appts |-> OnCalendar(appt[a])]
<1>1. Good => CalendarGood
  BY CalendarCells, CalendarPromises DEF IInv, CalendarGood
<1>2. Good' => CalendarGood'
  BY <1>1, PTL
<1>3. Init /\ Good => TheCalendar!Init
  BY <1>1 DEF TheCalendar!Init, CalendarGood
<1>4. Good /\ Good' /\ [Next]_vars => [TheCalendar!Next]_tab
  <2> SUFFICES ASSUME Good, Good', [Next]_vars PROVE [TheCalendar!Next]_tab
    OBVIOUS
  <2>1. \/ UNCHANGED tab
        \/ \E a \in Appts : TheCalendar!ChangeOne(a) \/ \E b \in Appts : TheCalendar!HandOver(a, b)
    BY NextTable, TableStepOnCalendar DEF IInv
  <2> QED BY <1>2, <2>1 DEF TheCalendar!Next, CalendarGood
<1> HIDE DEF Good
<1>5. Spec => []Good
  BY IInvHolds, NeverDoubleBooked, RequestsBookOnce, PTL DEF Good
<1> QED BY <1>3, <1>4, <1>5, PTL DEF Spec, ImplementsCalendar, TheCalendar!Spec

-----------------------------------------------------------------------------
(* The queue.  Known(t) is what transaction t knows of the queue it joins  *)
(* or promotes from.  It rests on the lock of the queue: only under it is  *)
(* an entry added to the queue of a booking, or sent on to another one.    *)

HoldsRow(t) ==
  tx[t].pc # "idle" /\ tx[t].op \in {"join", "promote"} =>
    /\ tx[t].ap \in Appts /\ appt[tx[t].ap].status # "ABSENT"
    /\ tx[t].op = "promote" => lock[ApptLock(tx[t].ap)] = t
    /\ tx[t].op = "join" => lock[QueueLock(tx[t].ap)] = t

Promoters == {"move", "propose", "cancel", "handover", "promote"}
Promised(t) ==
  tx[t].promo # None =>
    /\ tx[t].pc # "idle" /\ tx[t].op \in Promoters
    /\ lock[QueueLock(tx[t].ap)] = t
    /\ entry[tx[t].promo].state # "ABSENT" /\ entry[tx[t].promo].ap = tx[t].ap
    /\ \A f \in Entries : Waiting(f, tx[t].ap) => tx[t].promo <= f

Known(t) == HoldsRow(t) /\ Promised(t)

(* Whoever is or was in a queue has an existing booking there, and no free *)
(* row is booked for an entry.                                             *)
Registered ==
  /\ \A e \in Entries : entry[e].state # "ABSENT" =>
       entry[e].ap \in Appts /\ appt[entry[e].ap].status # "ABSENT"
  /\ \A a \in Appts : appt[a].status = "ABSENT" => appt[a].key \notin Entries

QueueInv == IInv /\ Registered /\ \A t \in Txs : Known(t)

(* What a step of t does to an entry: nothing, it leaves its queue, it is  *)
(* sent on to a booking made in the same step, or it is new.               *)
KeptEntry(e) == entry'[e] = entry[e]
LeftQueue(e) ==
  /\ entry[e].state = "WAITING" /\ entry'[e].state \in {"FULFILLED", "CANCELLED"}
  /\ entry'[e].ap = entry[e].ap /\ entry'[e].slot = entry[e].slot
SentOn(t, e, b) ==
  /\ lock[QueueLock(tx[t].ap)] = t /\ Waiting(e, tx[t].ap)
  /\ appt[b].status = "ABSENT" /\ appt'[b].status # "ABSENT"
  /\ appt'[b].slot = entry[tx[t].promo].slot /\ tx[t].promo # None
  /\ entry'[e].state = "WAITING" /\ entry'[e].ap = b /\ entry'[e].slot = entry[e].slot
Joined(t, e) ==
  /\ tx[t].pc # "idle" /\ tx[t].op = "join"
  /\ entry[e].state = "ABSENT" /\ entry'[e].state = "WAITING"
  /\ entry'[e].ap = tx[t].ap /\ entry'[e].slot = tx[t].slot

EntryStep(t) ==
  \A e \in Entries :
    KeptEntry(e) \/ LeftQueue(e) \/ (\E b \in Appts : SentOn(t, e, b)) \/ Joined(t, e)

(* No row is ever deleted.                                                 *)
RowsStay == \A a \in Appts : appt'[a] = appt[a] \/ appt'[a].status # "ABSENT"

LEMMA QueueLockNames == \A a \in Appts : QueueLock(a) \in Locks
BY DEF Locks

(* The booking a transaction works on exists.                              *)
LEMMA OnExisting ==
  ASSUME Shape, NEW t \in Txs, Sound(t), Known(t), tx[t].pc # "idle",
         tx[t].op \in OnRow \cup {"promote"}
  PROVE  /\ tx[t].ap \in Appts /\ appt[tx[t].ap].status # "ABSENT"
         /\ lock[ApptLock(tx[t].ap)] = t
<1>1. CASE tx[t].op = "promote"
  BY <1>1 DEF Known, HoldsRow
<1>2. CASE tx[t].op \in OnRow
  BY <1>2 DEF Sound, Locked, Fresh, Shape, TxsOK, Filled, Statuses, ActiveStatuses, ClosedStatuses
<1> QED BY <1>1, <1>2

-----------------------------------------------------------------------------
(* What a step keeps of the knowledge of another transaction.              *)

LEMMA KnownOther ==
  ASSUME Shape, Registered, NEW t \in Txs, NEW u \in Txs \ {t}, Sound(t), Known(t), Sound(u), Known(u),
         StepOf(t), EntryStep(t), RowsStay
  PROVE  Known(u)'
<1>1. tx'[u] = tx[u] /\ \A l \in Locks : lock[l] = u => lock'[l] = u
  BY DEF StepOf, OthersKept
<1>2. HoldsRow(u)'
  BY <1>1, LockNames, QueueLockNames DEF Known, HoldsRow, RowsStay
<1>3. Promised(u)'
  <2> SUFFICES ASSUME tx[u].promo # None PROVE Promised(u)'
    BY <1>1 DEF Promised
  <2> DEFINE a == tx[u].ap
             e == tx[u].promo
  <2>1. /\ tx[u].pc # "idle" /\ tx[u].op \in Promoters /\ lock[QueueLock(a)] = u
        /\ entry[e].state # "ABSENT" /\ entry[e].ap = a
        /\ \A f \in Entries : Waiting(f, a) => e <= f
        /\ e \in Entries
    BY DEF Known, Promised, Shape, TxsOK, Tx
  <2>2. a \in Appts /\ appt[a].status # "ABSENT"
    BY <2>1 DEF Registered
  <2>3. lock'[QueueLock(a)] = u /\ lock[QueueLock(a)] # t
    BY <1>1, <2>1, <2>2, QueueLockNames
  <2>4. ~(Waiting(e, tx[t].ap) /\ lock[QueueLock(tx[t].ap)] = t)
    BY <2>1, <2>3 DEF Waiting
  <2>5. entry'[e].state # "ABSENT" /\ entry'[e].ap = a
    BY <2>1, <2>4 DEF EntryStep, KeptEntry, LeftQueue, SentOn, Joined
  <2>6. ASSUME NEW f \in Entries, entry'[f].state = "WAITING", entry'[f].ap = a PROVE e <= f
    <3>1. CASE KeptEntry(f)  BY <2>1, <2>6, <3>1 DEF KeptEntry, Waiting
    <3>2. CASE LeftQueue(f)  BY <2>6, <3>2 DEF LeftQueue
    <3>3. CASE \E b \in Appts : SentOn(t, f, b)  BY <2>2, <2>6, <3>3 DEF SentOn
    <3>4. CASE Joined(t, f)  BY <2>3, <2>6, <3>4 DEF Joined, Known, HoldsRow
    <3> QED BY <3>1, <3>2, <3>3, <3>4 DEF EntryStep
  <2> QED BY <1>1, <2>1, <2>3, <2>5, <2>6 DEF Promised, Waiting
<1> QED BY <1>2, <1>3 DEF Known

LEMMA RegisteredStep ==
  ASSUME Shape, Registered, NEW t \in Txs, Known(t), EntryStep(t), RowsStay
  PROVE  Registered'
<1>1. ASSUME NEW e \in Entries, entry'[e].state # "ABSENT"
      PROVE  entry'[e].ap \in Appts /\ appt'[entry'[e].ap].status # "ABSENT"
  <2>1. CASE KeptEntry(e)  BY <1>1, <2>1 DEF KeptEntry, Registered, RowsStay
  <2>2. CASE LeftQueue(e)  BY <2>2 DEF LeftQueue, Registered, RowsStay
  <2>3. CASE \E b \in Appts : SentOn(t, e, b)  BY <2>3 DEF SentOn
  <2>4. CASE Joined(t, e)  BY <2>4 DEF Joined, Known, HoldsRow, RowsStay
  <2> QED BY <2>1, <2>2, <2>3, <2>4 DEF EntryStep
<1>2. \A a \in Appts : appt'[a].status = "ABSENT" => appt'[a].key \notin Entries
  BY DEF Registered, RowsStay
<1> QED BY <1>1, <1>2 DEF Registered

-----------------------------------------------------------------------------
(* The steps that lock and read.                                           *)

LEMMA RequestPromisesNobody ==
  ASSUME NEW op, NEW a
  PROVE  Request(op, a).promo = None /\ Request(op, a).op = op
BY DEF Request, Idle

LEMMA AsksPlainly ==
  ASSUME Shape, NEW t \in Txs,
         \/ CheckCreate(t) \/ ReadLeave(t) \/ CheckMove(t) \/ CheckAnswer(t)
         \/ CheckCancel(t) \/ CheckHandover(t) \/ CheckStatus(t)
  PROVE  /\ tx'[t].promo = None /\ tx'[t].op \notin {"join", "promote"}
         /\ tx'[t].op \in {"move", "propose"} => CheckMove(t)
         /\ tx'[t].op \in {"create", "elsewhere"} => CheckCreate(t)
<1>0. \A r : Begin(t, r) => tx'[t] = r
  BY DEF Begin, Shape, TxsOK
<1>1. CASE CheckCreate(t)
  <2> PICK k \in Keys, s \in Slots, client \in BOOLEAN, who \in Entries \cup {None} :
             CheckCreate(t)!(k, s, client, who)
    BY <1>1 DEF CheckCreate
  <2> DEFINE over == ~Available(s, {})
             pc == IF who = None THEN "ready" ELSE "entry"
             op == IF who = None THEN "create" ELSE "elsewhere"
             b == Request(op, None)
             r == [b EXCEPT !.pc = pc, !.key = k, !.slot = s, !.over = over, !.who = who]
  <2>1. tx'[t] = r /\ op \in {"create", "elsewhere"}
    BY <1>0
  <2>2. b \in Tx /\ b.op = op /\ b.promo = None
    BY <2>1, RequestType, RequestPromisesNobody DEF OperationNames
  <2> HIDE DEF b, over, pc, op
  <2> QED BY <1>1, <2>1, <2>2 DEF Tx
<1>2. CASE ReadLeave(t)
  <2> PICK e \in Entries : ReadLeave(t)!(e)
    BY <1>2 DEF ReadLeave
  <2> DEFINE a == entry[e].ap
             b == Request("leave", a)
  <2>1. tx'[t] = [b EXCEPT !.pc = "queue", !.who = e] /\ a \in Appts \cup {None}
    BY <1>0 DEF Shape, TablesOK, Entry
  <2>2. b \in Tx /\ b.op = "leave" /\ b.promo = None
    BY <2>1, RequestType, RequestPromisesNobody DEF OperationNames
  <2> HIDE DEF b
  <2> QED BY <2>1, <2>2 DEF Tx
<1>3. CASE CheckMove(t)
  <2> PICK a \in Appts, s \in Slots, client \in BOOLEAN, op \in {"move", "propose"} :
             CheckMove(t)!(a, s, client, op)
    BY <1>3 DEF CheckMove
  <2> DEFINE over == ~Available(s, {a})
             pc == IF s = appt[a].slot THEN "ready" ELSE "queue"
             ver == appt[a].ver
             b == Request(op, a)
             r == [b EXCEPT !.pc = pc, !.slot = s, !.over = over, !.ver = ver]
  <2>1. tx'[t] = r
    BY <1>0
  <2>2. b \in Tx /\ b.op = op /\ b.promo = None
    BY RequestType, RequestPromisesNobody DEF OperationNames
  <2> HIDE DEF b, over, pc, ver
  <2> QED BY <1>3, <2>1, <2>2 DEF Tx
<1>4. CASE CheckAnswer(t)
  <2> PICK i \in Props, d \in Decisions : CheckAnswer(t)!(i, d)
    BY <1>4 DEF CheckAnswer
  <2> DEFINE a == prop[i].ap
             b == Request("answer", a)
  <2>1. tx'[t] = [b EXCEPT !.pc = "ready", !.id = i, !.st = d] /\ a \in Appts
    BY <1>0 DEF Shape, TablesOK
  <2>2. b \in Tx /\ b.op = "answer" /\ b.promo = None
    BY <2>1, RequestType, RequestPromisesNobody DEF OperationNames
  <2> HIDE DEF b
  <2> QED BY <2>1, <2>2 DEF Tx
<1>5. CASE CheckCancel(t)
  <2> PICK a \in Appts, client \in BOOLEAN : CheckCancel(t)!(a, client)
    BY <1>5 DEF CheckCancel
  <2> DEFINE pc == IF client THEN "queue" ELSE "ready"
             ver == appt[a].ver
             b == Request("cancel", a)
  <2>1. tx'[t] = [b EXCEPT !.pc = pc, !.ver = ver]
    BY <1>0
  <2>2. b \in Tx /\ b.op = "cancel" /\ b.promo = None
    BY RequestType, RequestPromisesNobody DEF OperationNames
  <2> HIDE DEF b, pc, ver
  <2> QED BY <2>1, <2>2 DEF Tx
<1>6. CASE CheckHandover(t)
  <2> PICK a \in Appts, e \in Entries : CheckHandover(t)!(a, e)
    BY <1>6 DEF CheckHandover
  <2> DEFINE ver == appt[a].ver
             b == Request("handover", a)
  <2>1. tx'[t] = [b EXCEPT !.pc = "queue", !.who = e, !.ver = ver]
    BY <1>0
  <2>2. b \in Tx /\ b.op = "handover" /\ b.promo = None
    BY RequestType, RequestPromisesNobody DEF OperationNames
  <2> HIDE DEF b, ver
  <2> QED BY <2>1, <2>2 DEF Tx
<1>7. CASE CheckStatus(t)
  <2> PICK a \in Appts, st \in Statuses \ {"CANCELLED"} : CheckStatus(t)!(a, st)
    BY <1>7 DEF CheckStatus
  <2> DEFINE ver == appt[a].ver
             b == Request("status", a)
  <2>1. tx'[t] = [b EXCEPT !.pc = "ready", !.st = st, !.ver = ver]
    BY <1>0
  <2>2. b \in Tx /\ b.op = "status" /\ b.promo = None
    BY RequestType, RequestPromisesNobody DEF OperationNames
  <2> HIDE DEF b, ver
  <2> QED BY <2>1, <2>2 DEF Tx
<1> QED BY <1>1, <1>2, <1>3, <1>4, <1>5, <1>6, <1>7

LEMMA JoinAsks ==
  ASSUME Shape, NEW t \in Txs, CheckJoin(t)
  PROVE  Known(t)'
<1> PICK a \in Appts, s \in Slots : CheckJoin(t)!(a, s)
  BY DEF CheckJoin
<1>1. tx'[t].promo = None /\ tx'[t].op = "join" /\ tx'[t].ap = a
  BY DEF Begin, Request, Idle, Shape, TxsOK
<1>2. lock'[QueueLock(a)] = t
  BY Acquired, QueueLockNames DEF Shape
<1>3. appt'[a].status # "ABSENT"
  BY DEF IsActive, ActiveStatuses, Reads
<1> QED BY <1>1, <1>2, <1>3 DEF Known, HoldsRow, Promised

LEMMA PromoteAsks ==
  ASSUME Shape, NEW t \in Txs, CheckPromote(t)
  PROVE  Known(t)'
<1> PICK a \in Appts, e \in Entries : CheckPromote(t)!(a, e)
  BY DEF CheckPromote
<1>1. tx'[t].promo = None /\ tx'[t].op = "promote" /\ tx'[t].ap = a
  BY DEF Begin, Request, Idle, Shape, TxsOK
<1>2. lock'[ApptLock(a)] = t
  BY Acquired, LockNames DEF Shape
<1>3. appt'[a].status # "ABSENT"
  BY DEF Reads
<1> QED BY <1>1, <1>2, <1>3 DEF Known, HoldsRow, Promised

(* Reading the queue: nobody is promised a place but the first of it.      *)
LEMMA QueueReads ==
  ASSUME Shape, Registered, NEW t \in Txs, Sound(t), Known(t), tx[t].pc = "queue", tx[t].op \in Promoters,
         Acquire(t, {QueueLock(tx[t].ap)}), Reads, NEW e \in Entries \cup {None},
         tx' = [tx EXCEPT ![t] = [@ EXCEPT !.pc = "ready", !.promo = e]],
         e # None => IsFirst(e, tx[t].ap)
  PROVE  Known(t)'
<1> DEFINE a == tx[t].ap
           x == tx[t]
           r == [x EXCEPT !.pc = "ready", !.promo = e]
<1>1. a \in Appts /\ appt[a].status # "ABSENT"
  BY OnExisting DEF Promoters, OnRow, RowWrites
<1>2. lock'[QueueLock(a)] = t /\ \A l \in Locks : lock[l] = t => lock'[l] = t
  BY <1>1, Acquired, QueueLockNames DEF Shape
<1>3. x \in Tx /\ tx'[t] = r
  BY DEF Shape, TxsOK
<1> HIDE DEF x, a
<1>4. tx'[t].pc = "ready" /\ tx'[t].promo = e /\ tx'[t].ap = x.ap /\ tx'[t].op = x.op
  <2>1. r.pc = "ready" /\ r.promo = e /\ r.ap = x.ap /\ r.op = x.op
    BY <1>3 DEF Tx
  <2> HIDE DEF r
  <2> QED BY <1>3, <2>1
<1>5. HoldsRow(t)'
  BY <1>1, <1>2, <1>4, LockNames DEF Known, HoldsRow, Reads, Promoters, x, a
<1>6. e # None => e \in Entries /\ Waiting(e, a) /\ \A f \in Entries : Waiting(f, a) => e <= f
  BY DEF IsFirst, a
<1>7. Promised(t)'
  BY <1>1, <1>2, <1>4, <1>6 DEF Promised, Reads, Waiting, x, a
<1> QED BY <1>5, <1>7 DEF Known

LEMMA QueueStays ==
  ASSUME Shape, Registered, NEW t \in Txs, Sound(t), Known(t), tx[t].pc = "queue", tx[t].op \in Promoters,
         Acquire(t, {QueueLock(tx[t].ap)}), Reads,
         tx' = [tx EXCEPT ![t] = [@ EXCEPT !.pc = "ready"]]
  PROVE  Known(t)'
<1> DEFINE a == tx[t].ap
           x == tx[t]
<1>1. a \in Appts /\ appt[a].status # "ABSENT"
  BY OnExisting DEF Promoters, OnRow, RowWrites
<1>2. lock'[QueueLock(a)] = t /\ \A l \in Locks : lock[l] = t => lock'[l] = t
  BY <1>1, Acquired, QueueLockNames DEF Shape
<1>3. x \in Tx /\ tx'[t] = [x EXCEPT !.pc = "ready"]
  BY DEF Shape, TxsOK
<1> HIDE DEF x
<1>4. tx'[t].pc = "ready" /\ tx'[t].promo = x.promo /\ tx'[t].ap = x.ap /\ tx'[t].op = x.op
  BY <1>3 DEF Tx
<1>5. HoldsRow(t)'
  BY <1>1, <1>2, <1>4, LockNames DEF Known, HoldsRow, Reads, Promoters, x
<1>7. Promised(t)'
  BY <1>1, <1>2, <1>4 DEF Promised, Known, Reads, Waiting, x
<1> QED BY <1>5, <1>7 DEF Known

LEMMA ReadElsewhereKnown ==
  ASSUME Shape, NEW t \in Txs, Known(t), ReadElsewhere(t)
  PROVE  Known(t)'
<1> DEFINE x == tx[t]
           ap == entry[x.who].ap
<1>1. x \in Tx /\ x.op = "elsewhere" /\ x.promo = None
  BY DEF ReadElsewhere, Shape, TxsOK, Filled, Known, Promised, Promoters
<1>2. tx'[t] = [x EXCEPT !.pc = "queue", !.ap = ap]
  BY DEF ReadElsewhere, Shape, TxsOK
<1> HIDE DEF x, ap
<1>3. tx'[t].op = "elsewhere" /\ tx'[t].promo = None
  BY <1>1, <1>2 DEF Tx
<1> QED BY <1>3 DEF Known, HoldsRow, Promised

LEMMA ChecksKnown ==
  ASSUME Shape, Registered, NEW t \in Txs, Sound(t), Known(t), Checks(t)
  PROVE  Known(t)'
<1>1. CASE CheckJoin(t)  BY <1>1, JoinAsks
<1>2. CASE CheckPromote(t)  BY <1>2, PromoteAsks
<1>3. CASE ReadElsewhere(t)  BY <1>3, ReadElsewhereKnown
<1>4. CASE QueueMove(t)
  <2>1. tx[t].pc = "queue" /\ tx[t].op \in Promoters /\ Acquire(t, {QueueLock(tx[t].ap)}) /\ Reads
    BY <1>4 DEF QueueMove, Promoters
  <2>2. CASE tx' = [tx EXCEPT ![t] = [@ EXCEPT !.pc = "ready"]]
    BY <2>1, <2>2, QueueStays
  <2>3. CASE \E e \in Entries : /\ IsFirst(e, tx[t].ap)
                                /\ tx' = [tx EXCEPT ![t] = [@ EXCEPT !.pc = "ready",
                                                                    !.promo = IF billing THEN e ELSE None]]
    <3>1. PICK e \in Entries : /\ IsFirst(e, tx[t].ap)
                               /\ tx' = [tx EXCEPT ![t] = [@ EXCEPT !.pc = "ready",
                                                                    !.promo = IF billing THEN e ELSE None]]
      BY <2>3
    <3> DEFINE p == IF billing THEN e ELSE None
    <3>2. p \in Entries \cup {None} /\ (p # None => IsFirst(p, tx[t].ap))
      BY <3>1
    <3>3. tx' = [tx EXCEPT ![t] = [@ EXCEPT !.pc = "ready", !.promo = p]]
      BY <3>1
    <3> HIDE DEF p
    <3> QED BY <2>1, <3>2, <3>3, QueueReads
  <2> QED BY <1>4, <2>2, <2>3 DEF QueueMove
<1>5. CASE QueueCancel(t)
  <2>1. tx[t].pc = "queue" /\ tx[t].op \in Promoters /\ Acquire(t, {QueueLock(tx[t].ap)}) /\ Reads
    BY <1>5 DEF QueueCancel, Promoters
  <2>2. CASE tx' = [tx EXCEPT ![t] = [@ EXCEPT !.pc = "ready"]]
    BY <2>1, <2>2, QueueStays
  <2>3. CASE \E e \in Entries : /\ IsFirst(e, tx[t].ap)
                                /\ tx' = [tx EXCEPT ![t] = [@ EXCEPT !.pc = "ready", !.promo = e]]
    BY <2>1, <2>3, QueueReads
  <2> QED BY <1>5, <2>2, <2>3 DEF QueueCancel
<1>6. CASE QueuePromote(t)
  <2>1. tx[t].pc = "queue" /\ tx[t].op \in Promoters /\ Acquire(t, {QueueLock(tx[t].ap)}) /\ Reads
    BY <1>6 DEF QueuePromote, Promoters
  <2>2. /\ IsFirst(tx[t].who, tx[t].ap) /\ tx[t].who \in Entries \cup {None}
        /\ tx' = [tx EXCEPT ![t] = [@ EXCEPT !.pc = "ready", !.promo = tx[t].who]]
    BY <1>6 DEF QueuePromote, Shape, TxsOK, Tx
  <2> QED BY <2>1, <2>2, QueueReads
<1>7. CASE tx'[t].promo = None /\ tx'[t].op \notin {"join", "promote"}
  BY <1>7 DEF Known, HoldsRow, Promised
<1> QED BY <1>1, <1>2, <1>3, <1>4, <1>5, <1>6, <1>7, AsksPlainly DEF Checks

-----------------------------------------------------------------------------
(* What the commits do to the queue.                                       *)

LEMMA PromotingEntries ==
  ASSUME Shape, NEW t \in Txs, Known(t), NEW tab, DOMAIN tab = Appts, Promoting(t, tab)
  PROVE  EntryStep(t)
<1>1. CASE tx[t].promo = None
  BY <1>1 DEF Promoting, EntryStep, KeptEntry
<1>2. CASE tx[t].promo # None
  <2> DEFINE e == tx[t].promo
             a == tx[t].ap
             new == PromotedRow(e)
  <2>1. e \in Entries /\ lock[QueueLock(a)] = t
    BY <1>2 DEF Shape, TxsOK, Tx, Known, Promised
  <2>2. PICK b \in Appts : /\ appt[b].status = "ABSENT" /\ appt' = [tab EXCEPT ![b] = new]
                           /\ entry' = Chain(e, a, b)
    BY <1>2 DEF Promoting, IsFresh
  <2>3. new.slot = entry[e].slot /\ new.status = "CONFIRMED"
    BY DEF PromotedRow
  <2> HIDE DEF new
  <2>4. appt'[b].slot = entry[e].slot /\ appt'[b].status # "ABSENT"
    BY <2>2, <2>3
  <2> SUFFICES ASSUME NEW f \in Entries
               PROVE  KeptEntry(f) \/ LeftQueue(f) \/ SentOn(t, f, b)
    BY DEF EntryStep
  <2> DEFINE x == entry[f]
  <2>5. x \in Entry
    BY DEF Shape, TablesOK
  <2>6. entry'[f] = IF ~Waiting(f, a) THEN x
                    ELSE IF f = e THEN [x EXCEPT !.state = "FULFILLED", !.booking = b]
                    ELSE [x EXCEPT !.ap = b]
    BY <2>2 DEF Chain
  <2> HIDE DEF x
  <2>7. CASE ~Waiting(f, a)
    BY <2>6, <2>7 DEF KeptEntry, x
  <2>8. CASE Waiting(f, a) /\ f = e
    <3>1. entry'[f].state = "FULFILLED" /\ entry'[f].ap = x.ap /\ entry'[f].slot = x.slot
      BY <2>5, <2>6, <2>8 DEF Entry
    <3> QED BY <2>8, <3>1 DEF LeftQueue, Waiting, x
  <2>9. CASE Waiting(f, a) /\ f # e
    <3>1. entry'[f].state = x.state /\ entry'[f].ap = b /\ entry'[f].slot = x.slot
      BY <2>5, <2>6, <2>9 DEF Entry
    <3> QED BY <1>2, <2>1, <2>2, <2>4, <2>9, <3>1 DEF SentOn, Waiting, x
  <2> QED BY <2>7, <2>8, <2>9
<1> QED BY <1>1, <1>2

LEMMA JoinEntries ==
  ASSUME Shape, NEW t \in Txs, CommitJoin(t)
  PROVE  EntryStep(t)
<1> DEFINE a == tx[t].ap
           s == tx[t].slot
           new == [state |-> "WAITING", ap |-> a, slot |-> s, booking |-> None]
<1>1. new.state = "WAITING" /\ new.ap = a /\ new.slot = s
  OBVIOUS
<1>2. PICK e \in Entries : entry[e].state = "ABSENT" /\ entry' = [entry EXCEPT ![e] = new]
  BY DEF CommitJoin
<1> HIDE DEF new
<1>3. entry'[e] = new /\ \A f \in Entries \ {e} : entry'[f] = entry[f]
  BY <1>2 DEF Shape, TablesOK
<1>4. Joined(t, e)
  BY <1>1, <1>2, <1>3 DEF Joined, CommitJoin
<1> QED BY <1>3, <1>4 DEF EntryStep, KeptEntry

(* An entry that leaves the queue by itself.                               *)
LEMMA LeaveEntries ==
  ASSUME Shape, NEW t \in Txs, CommitLeave(t) \/ CommitElsewhere(t)
  PROVE  EntryStep(t)
<1> DEFINE e == tx[t].who
           x == entry[e]
<1>1. e \in Entries \/ \A f \in Entries : entry'[f] = entry[f]
  BY DEF CommitLeave, CommitElsewhere, Shape, TxsOK, Tx, TablesOK
<1>2. CASE \A f \in Entries : entry'[f] = entry[f]
  BY <1>2 DEF EntryStep, KeptEntry
<1>3. CASE e \in Entries
  <2>1. x \in Entry /\ x.state = "WAITING"
    BY <1>3 DEF Shape, TablesOK, CommitLeave, CommitElsewhere
  <2>2. \E new \in Entry : /\ new.state \in {"CANCELLED", "FULFILLED"} /\ new.ap = x.ap /\ new.slot = x.slot
                           /\ entry' = [entry EXCEPT ![e] = new]
    <3>1. CASE CommitLeave(t)
      <4> DEFINE new == [x EXCEPT !.state = "CANCELLED"]
      <4>1. entry' = [entry EXCEPT ![e] = new]
        BY <3>1 DEF CommitLeave
      <4>2. new \in Entry /\ new.state = "CANCELLED" /\ new.ap = x.ap /\ new.slot = x.slot
        <5> HIDE DEF x
        <5> QED BY <2>1 DEF Entry
      <4> HIDE DEF new
      <4> QED BY <4>1, <4>2
    <3>2. CASE CommitElsewhere(t)
      <4> PICK a \in Appts : entry' = [entry EXCEPT ![e] = [@ EXCEPT !.state = "FULFILLED", !.booking = a]]
        BY <3>2 DEF CommitElsewhere
      <4> DEFINE new == [x EXCEPT !.state = "FULFILLED", !.booking = a]
      <4>1. entry' = [entry EXCEPT ![e] = new]
        OBVIOUS
      <4>2. new \in Entry /\ new.state = "FULFILLED" /\ new.ap = x.ap /\ new.slot = x.slot
        <5> HIDE DEF x
        <5> QED BY <2>1 DEF Entry
      <4> HIDE DEF new
      <4> QED BY <4>1, <4>2
    <3> QED BY <3>1, <3>2
  <2>3. PICK new \in Entry : /\ new.state \in {"CANCELLED", "FULFILLED"} /\ new.ap = x.ap /\ new.slot = x.slot
                             /\ entry' = [entry EXCEPT ![e] = new]
    BY <2>2
  <2>4. entry'[e] = new /\ \A f \in Entries \ {e} : entry'[f] = entry[f]
    BY <1>3, <2>3 DEF Shape, TablesOK
  <2>5. LeftQueue(e)
    BY <2>1, <2>3, <2>4 DEF LeftQueue
  <2> QED BY <2>4, <2>5 DEF EntryStep, KeptEntry
<1> QED BY <1>1, <1>2, <1>3

LEMMA TxNextEntries ==
  ASSUME Shape, NEW t \in Txs, Sound(t), Known(t), TxNext(t)
  PROVE  EntryStep(t)
<1>1. CASE entry' = entry
  BY <1>1 DEF EntryStep, KeptEntry
<1>2. CASE CommitJoin(t)  BY <1>2, JoinEntries
<1>3. CASE CommitLeave(t) \/ CommitElsewhere(t)  BY <1>3, LeaveEntries
<1>4. CASE CommitMove(t) \/ CommitCancel(t) \/ CommitPromote(t)
  <2>1. \A a, new : DOMAIN [appt EXCEPT ![a] = new] = Appts
    BY DEF Shape, TablesOK
  <2>2. (\E a, new : Promoting(t, [appt EXCEPT ![a] = new])) \/ Promoting(t, appt)
    BY <1>4 DEF CommitMove, CommitCancel, CommitPromote
  <2> QED BY <2>1, <2>2, PromotingEntries DEF Shape, TablesOK
<1>5. CASE Checks(t)
  BY <1>1, <1>5 DEF Checks, CheckCreate, CheckJoin, ReadLeave, ReadElsewhere, CheckMove, QueueMove, CheckAnswer,
         CheckCancel, QueueCancel, CheckPromote, CheckHandover, QueuePromote, CheckStatus, Reads
<1>6. CASE CommitCreate(t) \/ CommitAnswer(t) \/ CommitStatus(t) \/ Rollback(t)
  BY <1>1, <1>6 DEF CommitCreate, CommitAnswer, CommitStatus, Rollback, Reads
<1> QED BY <1>2, <1>3, <1>4, <1>5, <1>6 DEF TxNext, Checks

LEMMA RowsStayNext == IInv /\ [Next]_vars => RowsStay
BY NextTable DEF TableStep, RowsStay, AddedRow, MovedRow, ClosedRow, Rest, IsActive, ActiveStatuses, ClosedStatuses

LEMMA QueueInit == Init => QueueInv
<1> SUFFICES ASSUME Init PROVE QueueInv
  OBVIOUS
<1>1. Registered
  BY InitialAssumption DEF Init, Registered, NoEntry
<1>2. \A t \in Txs : Known(t)
  BY DEF Init, Idle, Known, HoldsRow, Promised
<1> QED BY <1>1, <1>2, InitIInv DEF QueueInv

LEMMA QueueTxNext ==
  ASSUME QueueInv, NEW t \in Txs, TxNext(t), RowsStay
  PROVE  Registered' /\ \A u \in Txs : Known(u)'
<1>1. Shape /\ Registered /\ Sound(t) /\ Known(t)
  BY DEF QueueInv, IInv
<1>2. Checks(t) \/ Commits(t)
  BY DEF TxNext, Checks, Commits
<1>3. EntryStep(t) /\ StepOf(t)
  BY <1>1, <1>2, TxNextEntries, ChecksStep, CommitsOK
<1>4. Registered'
  BY <1>1, <1>3, RegisteredStep
<1>5. Known(t)'
  <2>1. CASE Commits(t)
    <3>1. tx'[t] = Idle
      BY <1>1, <2>1, CommitsEnd DEF End, Shape, TxsOK
    <3> QED BY <3>1 DEF Idle, Known, HoldsRow, Promised
  <2> QED BY <1>1, <1>2, <2>1, ChecksKnown
<1>6. \A u \in Txs \ {t} : Known(u)'
  BY <1>1, <1>3, KnownOther DEF QueueInv, IInv
<1> QED BY <1>4, <1>5, <1>6

LEMMA QueueNext == QueueInv /\ [Next]_vars => QueueInv'
<1> SUFFICES ASSUME QueueInv, [Next]_vars PROVE QueueInv'
  OBVIOUS
<1>1. IInv' /\ RowsStay
  BY NextIInv, RowsStayNext DEF QueueInv
<1>2. CASE \E t \in Txs : TxNext(t)
  BY <1>1, <1>2, QueueTxNext DEF QueueInv
<1>3. CASE UNCHANGED <<appt, entry, lock, tx>>
  BY <1>1, <1>3 DEF QueueInv, Registered, Known, HoldsRow, Promised, Waiting
<1> QED BY <1>2, <1>3 DEF Next, Tick, BillingChange, vars

LEMMA QueueInvHolds == Spec => []QueueInv
BY QueueInit, QueueNext, PTL DEF Spec

-----------------------------------------------------------------------------
(* Who is promoted.                                                        *)

NewKey(t, b) ==
  \/ appt'[b].key = appt[b].key
  \/ appt'[b].key \in Keys \cup {None}
  \/ tx[t].promo # None /\ appt'[b].key = tx[t].promo

LEMMA TxNextKeys ==
  ASSUME Shape, NEW t \in Txs, TxNext(t), NEW b \in Appts, appt[b].status = "ABSENT"
  PROVE  NewKey(t, b)
<1>1. CASE appt' = appt
  BY <1>1 DEF NewKey
<1>2. CASE \E a \in Appts : Insert(t, a)
  <2> PICK a \in Appts : Insert(t, a)
    BY <1>2
  <2> DEFINE new == [status |-> "CONFIRMED", slot |-> tx[t].slot, ver |-> 1,
                     over |-> tx[t].over, key |-> tx[t].key, origin |-> "DIRECT"]
  <2>1. appt' = [appt EXCEPT ![a] = new]
    BY DEF Insert
  <2>2. new.key \in Keys \cup {None}
    BY DEF Shape, TxsOK, Tx
  <2> HIDE DEF new
  <2> QED BY <2>1, <2>2 DEF NewKey, Shape, TablesOK
<1>3. ASSUME NEW tab, Promoting(t, tab), DOMAIN tab = Appts, tab[b].key = appt[b].key
      PROVE  NewKey(t, b)
  <2>1. CASE tx[t].promo = None
    BY <1>3, <2>1 DEF Promoting, NewKey
  <2>2. CASE tx[t].promo # None
    <3> DEFINE new == PromotedRow(tx[t].promo)
    <3>1. new.key = tx[t].promo
      BY DEF PromotedRow
    <3>2. PICK c \in Appts : appt' = [tab EXCEPT ![c] = new]
      BY <1>3, <2>2 DEF Promoting
    <3> HIDE DEF new
    <3> QED BY <1>3, <2>2, <3>1, <3>2 DEF NewKey
  <2> QED BY <2>1, <2>2
<1>4. CASE CommitMove(t) \/ CommitCancel(t)
  <2>1. PICK new : Promoting(t, [appt EXCEPT ![tx[t].ap] = new])
    BY <1>4 DEF CommitMove, CommitCancel
  <2>2. tx[t].ap # b
    BY <1>4 DEF CommitMove, CommitCancel, Current, IsActive, ActiveStatuses
  <2> DEFINE tab == [appt EXCEPT ![tx[t].ap] = new]
  <2>3. DOMAIN tab = Appts /\ tab[b].key = appt[b].key
    BY <2>2 DEF Shape, TablesOK
  <2> QED BY <1>3, <2>1, <2>3
<1>5. CASE CommitPromote(t)
  BY <1>3, <1>5 DEF CommitPromote, Shape, TablesOK
<1>6. CASE CommitStatus(t)
  <2>1. PICK new : appt' = [appt EXCEPT ![tx[t].ap] = new]
    BY <1>6 DEF CommitStatus
  <2>2. CASE tx[t].ap = b
    <3> DEFINE x == appt[b]
    <3>1. x \in Row
      BY DEF Shape, TablesOK
    <3>2. appt'[b] = [x EXCEPT !.status = tx[t].st, !.ver = x.ver + 1]
      BY <1>6, <2>2 DEF CommitStatus, Shape, TablesOK
    <3> HIDE DEF x
    <3>3. appt'[b].key = x.key
      BY <3>1, <3>2 DEF Row
    <3> QED BY <3>3 DEF NewKey, x
  <2>3. CASE tx[t].ap # b
    BY <2>1, <2>3 DEF Shape, TablesOK, NewKey
  <2> QED BY <2>2, <2>3
<1>7. CASE Checks(t) \/ CommitJoin(t) \/ CommitLeave(t) \/ CommitAnswer(t) \/ Rollback(t)
  BY <1>1, <1>7 DEF Checks, CheckCreate, CheckJoin, ReadLeave, ReadElsewhere, CheckMove, QueueMove, CheckAnswer,
         CheckCancel, QueueCancel, CheckPromote, CheckHandover, QueuePromote, CheckStatus, Reads,
         CommitJoin, CommitLeave, CommitAnswer, Rollback
<1>8. CASE CommitCreate(t) \/ CommitElsewhere(t)
  BY <1>2, <1>8 DEF CommitCreate, CommitElsewhere
<1> QED BY <1>4, <1>5, <1>6, <1>7, <1>8 DEF TxNext, Checks

LEMMA NextPromotes ==
  QueueInv /\ [Next]_vars =>
    \A e \in Entries, b \in Appts :
      appt[b].status = "ABSENT" /\ appt'[b].key = e
        => \A f \in Entries : f < e => ~Waiting(f, entry[e].ap)
<1> SUFFICES ASSUME QueueInv, [Next]_vars, NEW e \in Entries, NEW b \in Appts,
                    appt[b].status = "ABSENT", appt'[b].key = e,
                    NEW f \in Entries, f < e, Waiting(f, entry[e].ap)
             PROVE  FALSE
  OBVIOUS
<1>1. appt[b].key \notin Entries
  BY DEF QueueInv, Registered
<1>2. CASE \E t \in Txs : TxNext(t)
  <2> PICK t \in Txs : TxNext(t)
    BY <1>2
  <2>1. NewKey(t, b) /\ Known(t)
    BY TxNextKeys DEF QueueInv, IInv
  <2>2. e \notin Keys \cup {None} /\ e \in Nat /\ f \in Nat
    BY IdsAssumption
  <2>3. tx[t].promo = e /\ tx[t].promo # None
    BY <1>1, <2>1, <2>2 DEF NewKey
  <2>4. Waiting(f, tx[t].ap) /\ e <= f
    BY <2>1, <2>3 DEF Known, Promised
  <2> QED BY <2>2, <2>4
<1>3. CASE appt' = appt
  BY <1>1, <1>3
<1> QED BY <1>2, <1>3 DEF Next, Tick, BillingChange, vars

(* A booking from a queue, whichever operation made it, goes to the one    *)
(* who waited there longest.                                               *)
THEOREM PromotionsInOrder == Spec => PromotionOrder
BY QueueInvHolds, NextPromotes, PTL DEF PromotionOrder, Spec

-----------------------------------------------------------------------------
(* The place a queue waits for.                                            *)

SameStart(s, r) == s.pro = r.pro /\ s.from = r.from

Follows(t) ==
  tx[t].pc # "idle" =>
    /\ tx[t].op = "join" => SameStart(tx[t].slot, appt[tx[t].ap].slot)
    /\ tx[t].promo # None => SameStart(entry[tx[t].promo].slot, appt[tx[t].ap].slot)
    /\ tx[t].pc = "ready" /\ tx[t].op \in {"move", "propose"} /\ tx[t].slot # appt[tx[t].ap].slot =>
         /\ lock[QueueLock(tx[t].ap)] = t
         /\ tx[t].promo = None => QueueEmpty(tx[t].ap)

FollowInv == QueueInv /\ billing /\ QueueFollowsSlot /\ \A t \in Txs : Follows(t)

(* Only a move changes the slot of an existing row, under the lock of its  *)
(* queue.                                                                  *)
SlotStep(t) ==
  \A b \in Appts : appt[b].status # "ABSENT" =>
    \/ appt'[b].slot = appt[b].slot
    \/ b = tx[t].ap /\ CommitMove(t) /\ lock[ApptLock(b)] = t /\ appt'[b].slot = tx[t].slot

LEMMA TxNextSlots ==
  ASSUME Shape, NEW t \in Txs, Sound(t), TxNext(t)
  PROVE  SlotStep(t)
<1>1. CASE appt' = appt
  BY <1>1 DEF SlotStep
<1>2. CASE \E a \in Appts : Insert(t, a)
  BY <1>2 DEF Insert, IsFresh, SlotStep, Shape, TablesOK
<1>3. CASE CommitMove(t)
  BY <1>3, MoveRewrites DEF SlotStep, Left
<1>4. CASE CommitCancel(t)
  BY <1>4, CancelRewrites DEF SlotStep, Left
<1>5. CASE CommitStatus(t)
  BY <1>5, StatusRewrites DEF SlotStep
<1>6. CASE CommitPromote(t)
  BY <1>6, PromotingWrites DEF CommitPromote, SlotStep, Shape, TablesOK
<1>7. CASE Checks(t) \/ CommitJoin(t) \/ CommitLeave(t) \/ CommitAnswer(t) \/ Rollback(t)
  BY <1>1, <1>7 DEF Checks, CheckCreate, CheckJoin, ReadLeave, ReadElsewhere, CheckMove, QueueMove, CheckAnswer,
         CheckCancel, QueueCancel, CheckPromote, CheckHandover, QueuePromote, CheckStatus, Reads,
         CommitJoin, CommitLeave, CommitAnswer, Rollback
<1>8. CASE CommitCreate(t) \/ CommitElsewhere(t)
  BY <1>2, <1>8 DEF CommitCreate, CommitElsewhere
<1> QED BY <1>3, <1>4, <1>5, <1>6, <1>7, <1>8 DEF TxNext, Checks

(* Whoever holds the queue or the row keeps its slot.                      *)
LEMMA SlotHeld ==
  ASSUME NEW t \in Txs, NEW u \in Txs \ {t}, Follows(t), SlotStep(t), NEW b \in Appts,
         appt[b].status # "ABSENT", lock[QueueLock(b)] = u \/ lock[ApptLock(b)] = u
  PROVE  appt'[b].slot = appt[b].slot
BY DEF SlotStep, CommitMove, Follows

LEMMA FollowsOther ==
  ASSUME Shape, NEW t \in Txs, NEW u \in Txs \ {t}, Sound(u), Known(t), Known(u),
         Follows(t), Follows(u), StepOf(t), EntryStep(t), SlotStep(t), RowsStay, Registered
  PROVE  Follows(u)'
<1> DEFINE a == tx[u].ap
<1> SUFFICES ASSUME tx[u].pc # "idle" PROVE Follows(u)'
  BY DEF Follows, StepOf, OthersKept
<1>1. tx'[u] = tx[u] /\ \A l \in Locks : lock[l] = u => lock'[l] = u
  BY DEF StepOf, OthersKept
<1>2. ASSUME tx[u].op = "join" PROVE SameStart(tx[u].slot, appt'[a].slot)
  <2>1. a \in Appts /\ appt[a].status # "ABSENT" /\ lock[QueueLock(a)] = u
    BY <1>2 DEF Known, HoldsRow
  <2> QED BY <1>2, <2>1, SlotHeld DEF Follows
<1>3. ASSUME tx[u].promo # None PROVE SameStart(entry'[tx[u].promo].slot, appt'[a].slot)
  <2> DEFINE e == tx[u].promo
  <2>1. e \in Entries /\ entry[e].state # "ABSENT" /\ entry[e].ap = a /\ lock[QueueLock(a)] = u
    BY <1>3 DEF Shape, TxsOK, Tx, Known, Promised
  <2>2. a \in Appts /\ appt[a].status # "ABSENT"
    BY <2>1 DEF Registered
  <2>3. entry'[e].slot = entry[e].slot
    BY <2>1 DEF EntryStep, KeptEntry, LeftQueue, SentOn, Joined
  <2>4. appt'[a].slot = appt[a].slot
    BY <2>1, <2>2, SlotHeld
  <2> QED BY <1>3, <2>3, <2>4 DEF Follows
<1>4. ASSUME tx[u].pc = "ready", tx[u].op \in {"move", "propose"}, tx[u].slot # appt'[a].slot
      PROVE  lock'[QueueLock(a)] = u /\ (tx[u].promo = None => QueueEmpty(a)')
  <2>1. a \in Appts /\ appt[a].status # "ABSENT" /\ lock[ApptLock(a)] = u
    BY <1>4, OnExisting DEF OnRow, RowWrites
  <2>2. appt'[a].slot = appt[a].slot
    BY <2>1, SlotHeld
  <2>3. lock[QueueLock(a)] = u /\ (tx[u].promo = None => QueueEmpty(a))
    BY <1>4, <2>2 DEF Follows
  <2>4. ASSUME QueueEmpty(a), NEW f \in Entries, entry'[f].state = "WAITING", entry'[f].ap = a PROVE FALSE
    <3>1. ~KeptEntry(f) /\ ~LeftQueue(f)
      BY <2>4 DEF KeptEntry, LeftQueue, QueueEmpty, Waiting
    <3>2. ~\E b \in Appts : SentOn(t, f, b)
      BY <2>1, <2>4 DEF SentOn
    <3>3. ~Joined(t, f)
      BY <2>3, <2>4 DEF Joined, Known, HoldsRow
    <3> QED BY <3>1, <3>2, <3>3 DEF EntryStep
  <2> QED BY <1>1, <2>1, <2>3, <2>4, QueueLockNames DEF QueueEmpty, Waiting
<1> QED BY <1>1, <1>2, <1>3, <1>4 DEF Follows

-----------------------------------------------------------------------------
(* What the transaction that steps knows afterwards.                       *)

LEMMA JoinFollows ==
  ASSUME Shape, NEW t \in Txs, CheckJoin(t)
  PROVE  Follows(t)'
<1> PICK a \in Appts, s \in Slots : CheckJoin(t)!(a, s)
  BY DEF CheckJoin
<1>1. tx'[t].promo = None /\ tx'[t].op = "join" /\ tx'[t].ap = a /\ tx'[t].slot = s
  BY DEF Begin, Request, Idle, Shape, TxsOK
<1> QED BY <1>1 DEF Follows, SameStart, Reads

LEMMA MoveFollows ==
  ASSUME Shape, NEW t \in Txs, CheckMove(t)
  PROVE  Follows(t)'
<1> PICK a \in Appts, s \in Slots, client \in BOOLEAN, op \in {"move", "propose"} :
           CheckMove(t)!(a, s, client, op)
  BY DEF CheckMove
<1>1. /\ tx'[t].promo = None /\ tx'[t].op = op /\ tx'[t].ap = a /\ tx'[t].slot = s
      /\ tx'[t].pc = "ready" => s = appt[a].slot
  BY DEF Begin, Request, Idle, Shape, TxsOK
<1> QED BY <1>1 DEF Follows, Reads

(* A promise is made to somebody who waits, and a slot is left with nobody *)
(* promised only if nobody waits.                                          *)
LEMMA QueueFollows ==
  ASSUME Shape, Registered, QueueFollowsSlot, NEW t \in Txs, Sound(t), Known(t),
         tx[t].pc = "queue", tx[t].op \in Promoters,
         Acquire(t, {QueueLock(tx[t].ap)}), Reads, NEW e \in Entries \cup {None},
         tx' = [tx EXCEPT ![t] = [@ EXCEPT !.pc = "ready", !.promo = e]],
         e # None => IsFirst(e, tx[t].ap),
         e = None /\ tx[t].op \in {"move", "propose"} => QueueEmpty(tx[t].ap)
  PROVE  Follows(t)'
<1> DEFINE a == tx[t].ap
           x == tx[t]
           r == [x EXCEPT !.pc = "ready", !.promo = e]
<1>1. a \in Appts
  BY OnExisting DEF Promoters, OnRow, RowWrites
<1>2. lock'[QueueLock(a)] = t
  BY <1>1, Acquired, QueueLockNames DEF Shape
<1>3. x \in Tx /\ tx'[t] = r
  BY DEF Shape, TxsOK
<1>4. e # None => SameStart(entry[e].slot, appt[a].slot)
  BY DEF IsFirst, Waiting, QueueFollowsSlot, SameStart
<1>5. e = None /\ x.op \in {"move", "propose"} => QueueEmpty(a)
  OBVIOUS
<1>6. x.op # "join"
  BY DEF Promoters
<1> HIDE DEF x, a
<1>7. tx'[t].pc = "ready" /\ tx'[t].promo = e /\ tx'[t].ap = x.ap /\ tx'[t].op = x.op
  <2>1. r.pc = "ready" /\ r.promo = e /\ r.ap = x.ap /\ r.op = x.op
    BY <1>3 DEF Tx
  <2> HIDE DEF r
  <2> QED BY <1>3, <2>1
<1>8. x.ap = a
  BY DEF x, a
<1> QED BY <1>2, <1>4, <1>5, <1>6, <1>7, <1>8 DEF Follows, Reads, QueueEmpty, Waiting

LEMMA QueueLeftFollows ==
  ASSUME Shape, Registered, NEW t \in Txs, Sound(t), Known(t), Follows(t),
         tx[t].pc = "queue", tx[t].op \in Promoters,
         Acquire(t, {QueueLock(tx[t].ap)}), Reads,
         tx' = [tx EXCEPT ![t] = [@ EXCEPT !.pc = "ready"]],
         tx[t].op \in {"move", "propose"} => QueueEmpty(tx[t].ap)
  PROVE  Follows(t)'
<1> DEFINE a == tx[t].ap
           x == tx[t]
           r == [x EXCEPT !.pc = "ready"]
<1>1. a \in Appts
  BY OnExisting DEF Promoters, OnRow, RowWrites
<1>2. lock'[QueueLock(a)] = t
  BY <1>1, Acquired, QueueLockNames DEF Shape
<1>3. x \in Tx /\ tx'[t] = r
  BY DEF Shape, TxsOK
<1>4. x.promo # None => SameStart(entry[x.promo].slot, appt[a].slot)
  BY DEF Follows
<1>5. x.op \in {"move", "propose"} => QueueEmpty(a)
  OBVIOUS
<1>6. x.op # "join"
  BY DEF Promoters
<1> HIDE DEF x, a
<1>7. tx'[t].pc = "ready" /\ tx'[t].promo = x.promo /\ tx'[t].ap = x.ap /\ tx'[t].op = x.op
  <2>1. r.pc = "ready" /\ r.promo = x.promo /\ r.ap = x.ap /\ r.op = x.op
    BY <1>3 DEF Tx
  <2> HIDE DEF r
  <2> QED BY <1>3, <2>1
<1>8. x.ap = a
  BY DEF x, a
<1> QED BY <1>2, <1>4, <1>5, <1>6, <1>7, <1>8 DEF Follows, Reads, QueueEmpty, Waiting

LEMMA ChecksFollow ==
  ASSUME Shape, Registered, QueueFollowsSlot, billing, NEW t \in Txs, Sound(t), Known(t), Follows(t), Checks(t)
  PROVE  Follows(t)'
<1>1. CASE CheckJoin(t)  BY <1>1, JoinFollows
<1>2. CASE CheckMove(t)  BY <1>2, MoveFollows
<1>3. CASE ReadElsewhere(t)
  <2> DEFINE x == tx[t]
             ap == entry[x.who].ap
  <2>1. x \in Tx /\ x.op = "elsewhere" /\ x.promo = None
    BY <1>3 DEF ReadElsewhere, Shape, TxsOK, Filled, Known, Promised, Promoters
  <2>2. tx'[t] = [x EXCEPT !.pc = "queue", !.ap = ap]
    BY <1>3 DEF ReadElsewhere, Shape, TxsOK
  <2> HIDE DEF x, ap
  <2>3. tx'[t].op = "elsewhere" /\ tx'[t].promo = None
    BY <2>1, <2>2 DEF Tx
  <2> QED BY <2>3 DEF Follows
<1>4. CASE QueueMove(t)
  <2>1. tx[t].pc = "queue" /\ tx[t].op \in Promoters /\ Acquire(t, {QueueLock(tx[t].ap)}) /\ Reads
    BY <1>4 DEF QueueMove, Promoters
  <2>2. CASE QueueEmpty(tx[t].ap) /\ tx' = [tx EXCEPT ![t] = [@ EXCEPT !.pc = "ready"]]
    BY <2>1, <2>2, QueueLeftFollows
  <2>3. CASE \E e \in Entries : /\ IsFirst(e, tx[t].ap)
                                /\ tx' = [tx EXCEPT ![t] = [@ EXCEPT !.pc = "ready",
                                                                    !.promo = IF billing THEN e ELSE None]]
    <3>1. PICK e \in Entries : /\ IsFirst(e, tx[t].ap)
                               /\ tx' = [tx EXCEPT ![t] = [@ EXCEPT !.pc = "ready", !.promo = e]]
      BY <2>3
    <3>2. e # None
      BY IdsAssumption
    <3> QED BY <2>1, <3>1, <3>2, QueueFollows
  <2> QED BY <1>4, <2>2, <2>3 DEF QueueMove
<1>5. CASE QueueCancel(t)
  <2>1. tx[t].pc = "queue" /\ tx[t].op = "cancel" /\ Acquire(t, {QueueLock(tx[t].ap)}) /\ Reads
        /\ tx[t].op \in Promoters
    BY <1>5 DEF QueueCancel, Promoters
  <2>2. CASE tx' = [tx EXCEPT ![t] = [@ EXCEPT !.pc = "ready"]]
    BY <2>1, <2>2, QueueLeftFollows
  <2>3. CASE \E e \in Entries : /\ IsFirst(e, tx[t].ap)
                                /\ tx' = [tx EXCEPT ![t] = [@ EXCEPT !.pc = "ready", !.promo = e]]
    BY <2>1, <2>3, QueueFollows
  <2> QED BY <1>5, <2>2, <2>3 DEF QueueCancel
<1>6. CASE QueuePromote(t)
  <2>1. tx[t].pc = "queue" /\ tx[t].op \in {"promote", "handover"} /\ Acquire(t, {QueueLock(tx[t].ap)}) /\ Reads
        /\ tx[t].op \in Promoters
    BY <1>6 DEF QueuePromote, Promoters
  <2>2. /\ IsFirst(tx[t].who, tx[t].ap) /\ tx[t].who \in Entries \cup {None}
        /\ tx' = [tx EXCEPT ![t] = [@ EXCEPT !.pc = "ready", !.promo = tx[t].who]]
    BY <1>6 DEF QueuePromote, Shape, TxsOK, Tx
  <2> QED BY <2>1, <2>2, QueueFollows
<1>7. CASE \/ CheckCreate(t) \/ ReadLeave(t) \/ CheckAnswer(t)
           \/ CheckCancel(t) \/ CheckHandover(t) \/ CheckStatus(t)
  BY <1>2, <1>7, AsksPlainly DEF Follows
<1>8. CASE CheckPromote(t)
  <2> PICK a \in Appts, e \in Entries : CheckPromote(t)!(a, e)
    BY <1>8 DEF CheckPromote
  <2>1. tx'[t].promo = None /\ tx'[t].op = "promote"
    BY DEF Begin, Request, Idle, Shape, TxsOK
  <2> QED BY <2>1 DEF Follows
<1> QED BY <1>1, <1>2, <1>3, <1>4, <1>5, <1>6, <1>7, <1>8 DEF Checks

-----------------------------------------------------------------------------
(* What a commit does to the queues.                                       *)

(* A move to another slot leaves nobody in the queue of the row it moves.  *)
LEMMA MoveEmpties ==
  ASSUME Shape, NEW t \in Txs, Known(t), Follows(t), CommitMove(t),
         tx[t].slot # appt[tx[t].ap].slot, NEW f \in Entries
  PROVE  ~(entry'[f].state = "WAITING" /\ entry'[f].ap = tx[t].ap)
<1> DEFINE a == tx[t].ap
<1>1. IsActive(appt[a]) /\ (tx[t].promo = None => QueueEmpty(a))
  BY DEF CommitMove, Current, Follows
<1>2. CASE tx[t].promo = None
  BY <1>1, <1>2 DEF CommitMove, Promoting, QueueEmpty, Waiting
<1>3. CASE tx[t].promo # None
  <2> DEFINE e == tx[t].promo
             x == entry[f]
  <2>1. PICK b \in Appts : appt[b].status = "ABSENT" /\ entry' = Chain(e, a, b)
    BY <1>3 DEF CommitMove, Promoting, IsFresh
  <2>2. b # a
    BY <1>1, <2>1 DEF IsActive, ActiveStatuses
  <2>3. x \in Entry
    BY DEF Shape, TablesOK
  <2>4. entry'[f] = IF ~Waiting(f, a) THEN x
                    ELSE IF f = e THEN [x EXCEPT !.state = "FULFILLED", !.booking = b]
                    ELSE [x EXCEPT !.ap = b]
    BY <2>1 DEF Chain
  <2>5. Waiting(f, a) <=> x.state = "WAITING" /\ x.ap = a
    BY DEF Waiting
  <2> HIDE DEF x, a, e
  <2>6. ~(entry'[f].state = "WAITING" /\ entry'[f].ap = a)
    BY <2>2, <2>3, <2>4, <2>5 DEF Entry
  <2> QED BY <2>6 DEF a
<1> QED BY <1>2, <1>3

LEMMA EntriesFollow ==
  ASSUME Shape, Registered, QueueFollowsSlot, NEW t \in Txs, Known(t), Follows(t),
         EntryStep(t), SlotStep(t)
  PROVE  QueueFollowsSlot'
<1> SUFFICES ASSUME NEW e \in Entries, entry'[e].state = "WAITING"
             PROVE  SameStart(entry'[e].slot, appt'[entry'[e].ap].slot)
  BY DEF QueueFollowsSlot, SameStart
<1>1. CASE KeptEntry(e)
  <2> DEFINE a == entry[e].ap
  <2>1. entry[e].state = "WAITING" /\ entry'[e].ap = a /\ a \in Appts /\ appt[a].status # "ABSENT"
    BY <1>1 DEF KeptEntry, Registered
  <2>2. SameStart(entry[e].slot, appt[a].slot)
    BY <2>1 DEF QueueFollowsSlot, SameStart, Waiting
  <2>3. appt'[a].slot = appt[a].slot
    BY <1>1, <2>1, MoveEmpties DEF SlotStep, KeptEntry
  <2> QED BY <1>1, <2>2, <2>3 DEF KeptEntry
<1>2. CASE LeftQueue(e)  BY <1>2 DEF LeftQueue
<1>3. CASE \E b \in Appts : SentOn(t, e, b)
  <2> PICK b \in Appts : SentOn(t, e, b)
    BY <1>3
  <2> DEFINE a == tx[t].ap
  <2>1. SameStart(entry[e].slot, appt[a].slot)
    BY DEF SentOn, Waiting, QueueFollowsSlot, SameStart
  <2>2. SameStart(entry[tx[t].promo].slot, appt[a].slot)
    BY DEF SentOn, Known, Promised, Follows
  <2> QED BY <2>1, <2>2 DEF SentOn, SameStart
<1>4. CASE Joined(t, e)
  <2> DEFINE a == tx[t].ap
  <2>1. a \in Appts /\ appt[a].status # "ABSENT" /\ SameStart(tx[t].slot, appt[a].slot)
    BY <1>4 DEF Joined, Known, HoldsRow, Follows
  <2>2. appt'[a].slot = appt[a].slot
    BY <1>4, <2>1 DEF SlotStep, CommitMove, Joined
  <2> QED BY <1>4, <2>1, <2>2 DEF Joined
<1> QED BY <1>1, <1>2, <1>3, <1>4 DEF EntryStep

-----------------------------------------------------------------------------
LEMMA FollowInit == Init => FollowInv
<1> SUFFICES ASSUME Init PROVE FollowInv
  OBVIOUS
<1>1. \A t \in Txs : Follows(t)
  BY DEF Init, Idle, Follows
<1>2. QueueFollowsSlot /\ billing
  BY DEF Init, QueueFollowsSlot, NoEntry
<1> QED BY <1>1, <1>2, QueueInit DEF FollowInv

LEMMA TxNextBilling ==
  ASSUME NEW t \in Txs, TxNext(t)
  PROVE  billing' = billing
<1>1. Checks(t) \/ Commits(t)
  BY DEF TxNext, Checks, Commits
<1>2. CASE Checks(t)
  BY <1>2 DEF Checks, CheckCreate, CheckJoin, ReadLeave, ReadElsewhere, CheckMove, QueueMove, CheckAnswer,
         CheckCancel, QueueCancel, CheckPromote, CheckHandover, QueuePromote, CheckStatus, Reads
<1>3. CASE Commits(t)
  BY <1>3 DEF Commits, CommitCreate, CommitJoin, CommitLeave, CommitElsewhere, CommitMove, CommitAnswer,
         CommitCancel, CommitPromote, CommitStatus, Rollback, Reads
<1> QED BY <1>1, <1>2, <1>3

LEMMA FollowTxNext ==
  ASSUME FollowInv, NEW t \in Txs, TxNext(t), RowsStay
  PROVE  QueueFollowsSlot' /\ billing' /\ \A u \in Txs : Follows(u)'
<1>1. Shape /\ Registered /\ Sound(t) /\ Known(t) /\ Follows(t) /\ QueueFollowsSlot /\ billing
  BY DEF FollowInv, QueueInv, IInv
<1>2. Checks(t) \/ Commits(t)
  BY DEF TxNext, Checks, Commits
<1>3. EntryStep(t) /\ StepOf(t) /\ SlotStep(t)
  BY <1>1, <1>2, TxNextEntries, TxNextSlots, ChecksStep, CommitsOK
<1>4. QueueFollowsSlot' /\ billing'
  BY <1>1, <1>3, EntriesFollow, TxNextBilling
<1>5. Follows(t)'
  <2>1. CASE Commits(t)
    <3>1. tx'[t] = Idle
      BY <1>1, <2>1, CommitsEnd DEF End, Shape, TxsOK
    <3> QED BY <3>1 DEF Idle, Follows
  <2> QED BY <1>1, <1>2, <2>1, ChecksFollow
<1>6. \A u \in Txs \ {t} : Follows(u)'
  BY <1>1, <1>3, FollowsOther DEF FollowInv, QueueInv, IInv
<1> QED BY <1>4, <1>5, <1>6

LEMMA FollowNext ==
  ASSUME ~BillingVaries
  PROVE  FollowInv /\ [Next]_vars => FollowInv'
<1> SUFFICES ASSUME FollowInv, [Next]_vars PROVE FollowInv'
  OBVIOUS
<1>1. QueueInv' /\ RowsStay
  BY QueueNext, RowsStayNext DEF FollowInv, QueueInv
<1>2. CASE \E t \in Txs : TxNext(t)
  BY <1>1, <1>2, FollowTxNext DEF FollowInv
<1>3. CASE UNCHANGED <<appt, entry, lock, tx, billing>>
  BY <1>1, <1>3 DEF FollowInv, QueueFollowsSlot, Follows, QueueEmpty, Waiting
<1> QED BY <1>2, <1>3 DEF Next, Tick, BillingChange, vars

(* While the subscription does not lapse, whoever waits, waits for the     *)
(* professional and the start its appointment has, whatever is moved,      *)
(* promoted or chained on.                                                 *)
THEOREM QueuesFollowSlots ==
  ASSUME ~BillingVaries
  PROVE  Spec => []QueueFollowsSlot
<1>1. Init => FollowInv  BY FollowInit
<1>2. FollowInv /\ [Next]_vars => FollowInv'  BY FollowNext
<1>3. FollowInv => QueueFollowsSlot  BY DEF FollowInv
<1> QED BY <1>1, <1>2, <1>3, PTL DEF Spec

-----------------------------------------------------------------------------
(* The plan limit.                                                         *)

Counted == {a \in Appts : appt[a].status \notin {"ABSENT", "CANCELLED"}}
Direct == {a \in Counted : appt[a].origin = "DIRECT"}
DirectCount == Cardinality(Direct)

Creating(t) == tx[t].pc # "idle" /\ tx[t].op \in {"create", "elsewhere"}

(* Room for one more is kept by the one creation under way.                *)
Room(n) ==
  FreePlan => /\ n <= MonthlyLimit
              /\ \A t \in Txs : Creating(t) => lock[QuotaLock] = t /\ n < MonthlyLimit

(* What a step does to a count.                                            *)
CountStep(t, m, n) == n <= m \/ (n <= m + 1 /\ Creating(t) /\ Commits(t))

LEMMA QuotaLockName == QuotaLock \in Locks
BY DEF Locks

LEMMA Counts ==
  ASSUME Shape
  PROVE  /\ IsFiniteSet(Counted) /\ IsFiniteSet(Direct)
         /\ MonthlyCount = Cardinality(Counted) /\ MonthlyCount \in Nat
         /\ DirectCount \in Nat /\ DirectCount <= MonthlyCount
<1>1. Counted \in SUBSET Appts /\ Direct \in SUBSET Counted
  BY DEF Counted, Direct
<1>2. IsFiniteSet(Counted)
  BY <1>1, IdsAssumption, FS_Subset
<1> QED BY <1>1, <1>2, FS_Subset, FS_CardinalityType DEF MonthlyCount, Counted, DirectCount

(* Whoever is creating after a step that reads has just counted, or was    *)
(* creating before.                                                        *)
LEMMA ChecksCreating ==
  ASSUME Shape, NEW t \in Txs, Sound(t), Checks(t), Creating(t)'
  PROVE  CheckCreate(t) \/ (Creating(t) /\ lock' = lock)
<1>1. CASE ReadElsewhere(t)
  BY <1>1 DEF ReadElsewhere, Creating, Shape, TxsOK, Filled
<1>2. CASE CheckJoin(t)
  <2> PICK a \in Appts, s \in Slots : CheckJoin(t)!(a, s)
    BY <1>2 DEF CheckJoin
  <2>1. tx'[t].op = "join"
    BY DEF Begin, Request, Idle, Shape, TxsOK
  <2> QED BY <2>1 DEF Creating
<1>3. CASE CheckPromote(t)
  <2> PICK a \in Appts, e \in Entries : CheckPromote(t)!(a, e)
    BY <1>3 DEF CheckPromote
  <2>1. tx'[t].op = "promote"
    BY DEF Begin, Request, Idle, Shape, TxsOK
  <2> QED BY <2>1 DEF Creating
<1>4. CASE QueueMove(t) \/ QueueCancel(t) \/ QueuePromote(t)
  <2> DEFINE x == tx[t]
  <2>1. x.op \in Promoters /\ x \in Tx
    BY <1>4 DEF QueueMove, QueueCancel, QueuePromote, Promoters, Shape, TxsOK
  <2>2. \/ tx'[t] = [x EXCEPT !.pc = "ready"]
        \/ \E e : tx'[t] = [x EXCEPT !.pc = "ready", !.promo = e]
    BY <1>4 DEF QueueMove, QueueCancel, QueuePromote, Shape, TxsOK
  <2> HIDE DEF x
  <2>3. tx'[t].op = x.op
    BY <2>1, <2>2 DEF Tx
  <2> QED BY <2>1, <2>3 DEF Creating, Promoters
<1>5. CASE \/ CheckCreate(t) \/ ReadLeave(t) \/ CheckMove(t) \/ CheckAnswer(t)
           \/ CheckCancel(t) \/ CheckHandover(t) \/ CheckStatus(t)
  BY <1>5, AsksPlainly DEF Creating
<1> QED BY <1>1, <1>2, <1>3, <1>4, <1>5 DEF Checks

LEMMA RoomStep ==
  ASSUME Shape, NEW t \in Txs, Sound(t), TxNext(t), StepOf(t), NEW m \in Nat, NEW n \in Nat,
         Room(m), CountStep(t, m, n), m <= MonthlyCount
  PROVE  Room(n)'
<1> SUFFICES ASSUME FreePlan
             PROVE  /\ n <= MonthlyLimit
                    /\ \A u \in Txs : Creating(u)' => lock'[QuotaLock] = u /\ n < MonthlyLimit
  BY DEF Room
<1>1. Checks(t) \/ Commits(t)
  BY DEF TxNext, Checks, Commits
<1>2. n <= MonthlyLimit
  BY PolicyAssumption DEF Room, CountStep
<1>3. ASSUME NEW u \in Txs \ {t}, Creating(u)' PROVE lock'[QuotaLock] = u /\ n < MonthlyLimit
  <2>1. Creating(u) /\ lock[QuotaLock] = u
    BY <1>3 DEF StepOf, OthersKept, Creating, Room
  <2>2. ~Creating(t) /\ lock'[QuotaLock] = u
    BY <2>1, QuotaLockName DEF StepOf, OthersKept, Room
  <2> QED BY <2>1, <2>2, PolicyAssumption DEF Room, CountStep
<1>4. ASSUME Creating(t)' PROVE lock'[QuotaLock] = t /\ n < MonthlyLimit
  <2>1. Checks(t) /\ ~Commits(t)
    <3>1. Commits(t) => tx'[t] = Idle
      BY CommitsEnd DEF End, Shape, TxsOK
    <3> QED BY <1>1, <1>4, <3>1 DEF Creating, Idle
  <2>2. n <= m
    BY <2>1 DEF CountStep
  <2>3. CASE CheckCreate(t)
    <3> PICK k \in Keys, s \in Slots, client \in BOOLEAN, who \in Entries \cup {None} :
               CheckCreate(t)!(k, s, client, who)
      BY <2>3 DEF CheckCreate
    <3>1. m < MonthlyLimit /\ lock'[QuotaLock] = t
      <4>1. MonthlyCount < MonthlyLimit /\ MonthlyCount \in Nat
        BY Counts
      <4>2. QuotaLock \in {KeyLock(k), ProLock(s.pro)} \cup PlanLocks
        BY DEF PlanLocks
      <4>3. lock'[QuotaLock] = t
        BY <4>2, Acquired, QuotaLockName DEF Shape
      <4> QED BY <4>1, <4>3, PolicyAssumption
    <3> QED BY <2>2, <3>1, PolicyAssumption
  <2>4. CASE Creating(t) /\ lock' = lock
    BY <2>2, <2>4, PolicyAssumption DEF Room
  <2> QED BY <1>4, <2>1, <2>3, <2>4, ChecksCreating
<1> QED BY <1>2, <1>3, <1>4

LEMMA InsertCounts ==
  ASSUME Shape, NEW t \in Txs, NEW a \in Appts, Insert(t, a)
  PROVE  Counted' \subseteq Counted \cup {a} /\ Direct' \subseteq Direct \cup {a}
<1>1. \A b \in Appts \ {a} : appt'[b] = appt[b]
  BY DEF Insert, Shape, TablesOK
<1> QED BY <1>1 DEF Counted, Direct

(* Only a creation adds a direct booking.                                  *)
LEMMA DirectKept ==
  ASSUME Shape, NEW t \in Txs, Sound(t), TxNext(t)
  PROVE  \/ Direct' \subseteq Direct
         \/ Creating(t) /\ Commits(t) /\ \E a \in Appts : Insert(t, a)
<1>1. CASE appt' = appt
  BY <1>1 DEF Direct, Counted
<1>2. CASE CommitCreate(t) \/ CommitElsewhere(t)
  BY <1>2 DEF CommitCreate, CommitElsewhere, Creating, Commits
<1>3. CASE CommitMove(t)
  BY <1>3, MoveRewrites DEF Direct, Counted, Left, IsActive, ActiveStatuses
<1>4. CASE CommitCancel(t)
  BY <1>4, CancelRewrites DEF Direct, Counted, Left
<1>5. CASE CommitStatus(t)
  BY <1>5, StatusRewrites DEF Direct, Counted, IsActive, ActiveStatuses
<1>6. CASE CommitPromote(t)
  BY <1>6, PromotingWrites DEF CommitPromote, Direct, Counted, Shape, TablesOK
<1>7. CASE Checks(t) \/ CommitJoin(t) \/ CommitLeave(t) \/ CommitAnswer(t) \/ Rollback(t)
  BY <1>1, <1>7 DEF Checks, CheckCreate, CheckJoin, ReadLeave, ReadElsewhere, CheckMove, QueueMove, CheckAnswer,
         CheckCancel, QueueCancel, CheckPromote, CheckHandover, QueuePromote, CheckStatus, Reads,
         CommitJoin, CommitLeave, CommitAnswer, Rollback
<1> QED BY <1>2, <1>3, <1>4, <1>5, <1>6, <1>7 DEF TxNext, Checks

LEMMA DirectStep ==
  ASSUME Shape, NEW t \in Txs, Sound(t), TxNext(t)
  PROVE  CountStep(t, DirectCount, DirectCount')
<1>1. IsFiniteSet(Direct) /\ DirectCount \in Nat /\ DirectCount = Cardinality(Direct)
  BY Counts DEF DirectCount
<1>2. DirectCount' \in Nat /\ DirectCount' = Cardinality(Direct')
  <2>1. Direct' \in SUBSET Appts
    BY DEF Direct, Counted
  <2> QED BY <2>1, IdsAssumption, FS_Subset, FS_CardinalityType DEF DirectCount
<1>3. CASE Direct' \subseteq Direct
  <2>1. DirectCount' <= DirectCount
    BY <1>1, <1>2, <1>3, FS_Subset
  <2> QED BY <2>1 DEF CountStep
<1>4. CASE Creating(t) /\ Commits(t) /\ \E a \in Appts : Insert(t, a)
  <2> PICK a \in Appts : Insert(t, a)
    BY <1>4
  <2>1. Direct' \subseteq Direct \cup {a}
    BY InsertCounts
  <2>2. /\ IsFiniteSet(Direct \cup {a})
        /\ Cardinality(Direct \cup {a}) \in {DirectCount, DirectCount + 1}
    BY <1>1, FS_AddElement
  <2>3. DirectCount' <= Cardinality(Direct \cup {a})
    BY <1>2, <2>1, <2>2, FS_Subset
  <2> QED BY <1>1, <1>2, <1>4, <2>2, <2>3 DEF CountStep
<1> QED BY <1>3, <1>4, DirectKept

(* A cancellation that promotes gives one place for another.               *)
LEMMA CancelSwaps ==
  ASSUME Shape, NEW t \in Txs, Sound(t), CommitCancel(t)
  PROVE  \E a \in Counted, b \in Appts : Counted' \subseteq (Counted \ {a}) \cup {b}
<1> DEFINE a == tx[t].ap
<1>1. a \in Appts /\ IsActive(appt[a]) /\ appt'[a].status = "CANCELLED"
  BY CancelRewrites
<1>2. TableStep
  BY CommitCancelTable
<1>3. \E b \in Appts : \A c \in Appts \ {a, b} : appt'[c] = appt[c]
  BY <1>1, <1>2 DEF TableStep, Rest, AddedRow, IsActive, ActiveStatuses
<1>4. PICK b \in Appts : \A c \in Appts \ {a, b} : appt'[c] = appt[c]
  BY <1>3
<1>5. a \in Counted
  BY <1>1 DEF Counted, IsActive, ActiveStatuses
<1>6. Counted' \subseteq (Counted \ {a}) \cup {b}
  BY <1>1, <1>4 DEF Counted
<1> QED BY <1>5, <1>6

(* The operations that promote without giving a place back, and what they  *)
(* would have to be without for the whole month to stay within the limit.  *)
Unlimited == {"move", "propose", "promote"}

OpsAsked == \A t \in Txs : tx[t].pc # "idle" => tx[t].op \in Operations

LEMMA CountedKept ==
  ASSUME Shape, NEW t \in Txs, Sound(t), TxNext(t),
         tx[t].pc # "idle" => tx[t].op \notin Unlimited
  PROVE  \/ Counted' \subseteq Counted
         \/ \E a \in Counted, b \in Appts : Counted' \subseteq (Counted \ {a}) \cup {b}
         \/ Creating(t) /\ Commits(t) /\ \E a \in Appts : Insert(t, a)
<1>1. CASE appt' = appt
  BY <1>1 DEF Counted
<1>2. CASE CommitCreate(t) \/ CommitElsewhere(t)
  BY <1>2 DEF CommitCreate, CommitElsewhere, Creating, Commits
<1>3. CASE CommitMove(t) \/ CommitPromote(t)
  BY <1>3 DEF CommitMove, CommitPromote, Unlimited
<1>4. CASE CommitCancel(t)
  BY <1>4, CancelSwaps
<1>5. CASE CommitStatus(t)
  BY <1>5, StatusRewrites DEF Counted, IsActive, ActiveStatuses
<1>7. CASE Checks(t) \/ CommitJoin(t) \/ CommitLeave(t) \/ CommitAnswer(t) \/ Rollback(t)
  BY <1>1, <1>7 DEF Checks, CheckCreate, CheckJoin, ReadLeave, ReadElsewhere, CheckMove, QueueMove, CheckAnswer,
         CheckCancel, QueueCancel, CheckPromote, CheckHandover, QueuePromote, CheckStatus, Reads,
         CommitJoin, CommitLeave, CommitAnswer, Rollback
<1> QED BY <1>2, <1>3, <1>4, <1>5, <1>7 DEF TxNext, Checks

LEMMA MonthlyStep ==
  ASSUME Shape, NEW t \in Txs, Sound(t), TxNext(t),
         tx[t].pc # "idle" => tx[t].op \notin Unlimited
  PROVE  CountStep(t, MonthlyCount, MonthlyCount')
<1>1. IsFiniteSet(Counted) /\ MonthlyCount \in Nat /\ MonthlyCount = Cardinality(Counted)
  BY Counts
<1>2. MonthlyCount' \in Nat /\ MonthlyCount' = Cardinality(Counted')
  <2>1. Counted' \in SUBSET Appts
    BY DEF Counted
  <2> QED BY <2>1, IdsAssumption, FS_Subset, FS_CardinalityType DEF Counted, MonthlyCount
<1>3. CASE Counted' \subseteq Counted
  <2>1. MonthlyCount' <= MonthlyCount
    BY <1>1, <1>2, <1>3, FS_Subset
  <2> QED BY <2>1 DEF CountStep
<1>4. CASE \E a \in Counted, b \in Appts : Counted' \subseteq (Counted \ {a}) \cup {b}
  <2> PICK a \in Counted, b \in Appts : Counted' \subseteq (Counted \ {a}) \cup {b}
    BY <1>4
  <2>1. IsFiniteSet(Counted \ {a}) /\ Cardinality(Counted \ {a}) = MonthlyCount - 1
    BY <1>1, FS_RemoveElement
  <2>2. /\ IsFiniteSet((Counted \ {a}) \cup {b})
        /\ Cardinality((Counted \ {a}) \cup {b}) \in {MonthlyCount - 1, MonthlyCount}
    BY <1>1, <2>1, FS_AddElement
  <2>3. MonthlyCount' <= Cardinality((Counted \ {a}) \cup {b})
    BY <1>2, <2>2, FS_Subset
  <2>4. MonthlyCount' <= MonthlyCount
    BY <1>1, <1>2, <2>2, <2>3
  <2> QED BY <2>4 DEF CountStep
<1>5. CASE Creating(t) /\ Commits(t) /\ \E a \in Appts : Insert(t, a)
  <2> PICK a \in Appts : Insert(t, a)
    BY <1>5
  <2>1. Counted' \subseteq Counted \cup {a}
    BY InsertCounts
  <2>2. /\ IsFiniteSet(Counted \cup {a})
        /\ Cardinality(Counted \cup {a}) \in {MonthlyCount, MonthlyCount + 1}
    BY <1>1, FS_AddElement
  <2>3. MonthlyCount' <= Cardinality(Counted \cup {a})
    BY <1>2, <2>1, <2>2, FS_Subset
  <2> QED BY <1>1, <1>2, <1>5, <2>2, <2>3 DEF CountStep
<1> QED BY <1>3, <1>4, <1>5, CountedKept

LEMMA RoomOther ==
  ASSUME NEW n, Room(n), UNCHANGED <<appt, tx, lock>>
  PROVE  Room(n)'
BY DEF Room, Creating

LEMMA DirectNext ==
  ASSUME IInv, Room(DirectCount), [Next]_vars
  PROVE  Room(DirectCount)'
<1>1. DirectCount \in Nat /\ DirectCount <= MonthlyCount
  BY Counts DEF IInv
<1>2. CASE \E t \in Txs : TxNext(t)
  <2> PICK t \in Txs : TxNext(t)
    BY <1>2
  <2>1. Shape /\ Sound(t)
    BY DEF IInv
  <2>2. StepOf(t)
    <3>1. Checks(t) \/ Commits(t)
      BY DEF TxNext, Checks, Commits
    <3> QED BY <2>1, <3>1, ChecksStep, CommitsOK
  <2>3. CountStep(t, DirectCount, DirectCount')
    BY <2>1, DirectStep
  <2>4. DirectCount' \in Nat
    <3>1. Direct' \in SUBSET Appts
      BY DEF Direct, Counted
    <3> QED BY <3>1, IdsAssumption, FS_Subset, FS_CardinalityType DEF DirectCount
  <2> DEFINE m == DirectCount
  <2>5. \A k, n \in Nat : Room(k) /\ CountStep(t, k, n) /\ k <= MonthlyCount => Room(n)'
    BY <2>1, <2>2, RoomStep
  <2> QED BY <1>1, <2>3, <2>4, <2>5
<1>3. CASE UNCHANGED <<appt, tx, lock>>
  <2>1. DirectCount' = DirectCount
    BY <1>3 DEF DirectCount, Direct, Counted
  <2> QED BY <1>3, <2>1 DEF Room, Creating
<1> QED BY <1>2, <1>3 DEF Next, Tick, BillingChange, vars

LEMMA MonthlyNext ==
  ASSUME IInv, OpsAsked, Operations \cap Unlimited = {}, Room(MonthlyCount), [Next]_vars
  PROVE  Room(MonthlyCount)'
<1>1. MonthlyCount \in Nat
  BY Counts DEF IInv
<1>2. CASE \E t \in Txs : TxNext(t)
  <2> PICK t \in Txs : TxNext(t)
    BY <1>2
  <2>1. Shape /\ Sound(t)
    BY DEF IInv
  <2>2. StepOf(t)
    <3>1. Checks(t) \/ Commits(t)
      BY DEF TxNext, Checks, Commits
    <3> QED BY <2>1, <3>1, ChecksStep, CommitsOK
  <2>3. CountStep(t, MonthlyCount, MonthlyCount')
    BY <2>1, MonthlyStep DEF OpsAsked
  <2>4. MonthlyCount' \in Nat
    <3>1. Counted' \in SUBSET Appts
      BY DEF Counted
    <3> QED BY <3>1, IdsAssumption, FS_Subset, FS_CardinalityType DEF Counted, MonthlyCount
  <2>5. \A k, n \in Nat : Room(k) /\ CountStep(t, k, n) /\ k <= MonthlyCount => Room(n)'
    BY <2>1, <2>2, RoomStep
  <2> QED BY <1>1, <2>3, <2>4, <2>5
<1>3. CASE UNCHANGED <<appt, tx, lock>>
  <2>1. MonthlyCount' = MonthlyCount
    BY <1>3 DEF MonthlyCount
  <2> QED BY <1>3, <2>1 DEF Room, Creating
<1> QED BY <1>2, <1>3 DEF Next, Tick, BillingChange, vars

(* Whatever runs was asked for.                                            *)
GoesOn(t) ==
  /\ tx[t].pc # "idle"
  /\ \/ \E ap : tx' = [tx EXCEPT ![t] = [@ EXCEPT !.pc = "queue", !.ap = ap]]
     \/ \E e : tx' = [tx EXCEPT ![t] = [@ EXCEPT !.pc = "ready", !.promo = e]]
     \/ tx' = [tx EXCEPT ![t] = [@ EXCEPT !.pc = "ready"]]

LEMMA OpsNext ==
  ASSUME Shape, OpsAsked, [Next]_vars
  PROVE  OpsAsked'
<1>1. CASE \E t \in Txs : TxNext(t)
  <2> PICK t \in Txs : TxNext(t)
    BY <1>1
  <2> DEFINE x == tx[t]
  <2>0. x \in Tx /\ (x.pc # "idle" => x.op \in Operations)
    BY DEF Shape, TxsOK, OpsAsked
  <2>1. \/ \E r : Begin(t, r)
        \/ End(t)
        \/ GoesOn(t)
    <3>1. CASE CheckCreate(t)  BY <3>1 DEF CheckCreate
    <3>2. CASE CheckJoin(t)  BY <3>2 DEF CheckJoin
    <3>3. CASE ReadLeave(t)  BY <3>3 DEF ReadLeave
    <3>4. CASE CheckMove(t)  BY <3>4 DEF CheckMove
    <3>5. CASE CheckAnswer(t)  BY <3>5 DEF CheckAnswer
    <3>6. CASE CheckCancel(t)  BY <3>6 DEF CheckCancel
    <3>7. CASE CheckPromote(t)  BY <3>7 DEF CheckPromote
    <3>8. CASE CheckHandover(t)  BY <3>8 DEF CheckHandover
    <3>9. CASE CheckStatus(t)  BY <3>9 DEF CheckStatus
    <3>10. CASE ReadElsewhere(t)  BY <3>10 DEF ReadElsewhere, GoesOn
    <3>11. CASE QueueMove(t)  BY <3>11 DEF QueueMove, GoesOn
    <3>12. CASE QueueCancel(t)  BY <3>12 DEF QueueCancel, GoesOn
    <3>13. CASE QueuePromote(t)  BY <3>13 DEF QueuePromote, GoesOn
    <3>14. CASE Commits(t)  BY <3>14, CommitsEnd
    <3> QED BY <3>1, <3>2, <3>3, <3>4, <3>5, <3>6, <3>7, <3>8, <3>9, <3>10, <3>11, <3>12, <3>13, <3>14
            DEF TxNext, Commits
  <2>2. tx'[t].pc # "idle" => tx'[t].op \in Operations
    <3>1. CASE \E r : Begin(t, r)
      BY <3>1 DEF Begin, Shape, TxsOK
    <3>2. CASE End(t)
      BY <3>2 DEF End, Idle, Shape, TxsOK
    <3>3. CASE GoesOn(t)
      <4>1. \/ \E ap : tx'[t] = [x EXCEPT !.pc = "queue", !.ap = ap]
            \/ \E e : tx'[t] = [x EXCEPT !.pc = "ready", !.promo = e]
            \/ tx'[t] = [x EXCEPT !.pc = "ready"]
        BY <3>3 DEF GoesOn, Shape, TxsOK
      <4>2. x.pc # "idle"
        BY <3>3 DEF GoesOn
      <4> HIDE DEF x
      <4>3. tx'[t].op = x.op
        BY <2>0, <4>1 DEF Tx
      <4> QED BY <2>0, <4>2, <4>3
    <3> QED BY <2>1, <3>1, <3>2, <3>3
  <2>3. \A u \in Txs \ {t} : tx'[u] = tx[u]
    BY <2>1 DEF Begin, End, GoesOn, Shape, TxsOK
  <2> QED BY <2>2, <2>3 DEF OpsAsked
<1>2. CASE tx' = tx
  BY <1>2 DEF OpsAsked
<1> QED BY <1>1, <1>2 DEF Next, Tick, BillingChange, vars

(* The salon does not start the month beyond its limit.                    *)
StartsWithin ==
  \A tab \in InitialTables :
    FreePlan => Cardinality({a \in Appts : tab[a].status \notin {"ABSENT", "CANCELLED"}}) <= MonthlyLimit

DirectWithinQuota == FreePlan => DirectCount <= MonthlyLimit

LEMMA RoomInit ==
  ASSUME StartsWithin, Init
  PROVE  Room(MonthlyCount) /\ Room(DirectCount)
<1>1. \A t \in Txs : ~Creating(t)
  BY DEF Init, Idle, Creating
<1>2. FreePlan => MonthlyCount <= MonthlyLimit
  BY DEF Init, StartsWithin, MonthlyCount
<1>3. DirectCount <= MonthlyCount /\ DirectCount \in Nat /\ MonthlyCount \in Nat
  BY Counts, InitIInv DEF IInv
<1> QED BY <1>1, <1>2, <1>3, PolicyAssumption DEF Room

(* On a limited plan, the bookings made directly, by whatever concurrent   *)
(* creations, never pass the limit, whatever else the salon does.          *)
THEOREM CreationsWithinQuota ==
  ASSUME StartsWithin
  PROVE  Spec => []DirectWithinQuota
<1>1. Init => Room(DirectCount)  BY RoomInit
<1>2. IInv /\ Room(DirectCount) /\ [Next]_vars => Room(DirectCount)'  BY DirectNext
<1>3. Room(DirectCount) => DirectWithinQuota  BY DEF Room, DirectWithinQuota
<1> QED BY <1>1, <1>2, <1>3, IInvHolds, PTL DEF Spec

(* All bookings of the month together stay within it unless somebody is    *)
(* promoted into a slot that gave no place back: by a move, whose row      *)
(* counts on, or by hand after the cancellation.                           *)
THEOREM MonthWithinQuota ==
  ASSUME StartsWithin, Operations \cap {"move", "propose", "promote"} = {}
  PROVE  Spec => []WithinQuota
<1>1. Init => OpsAsked /\ Room(MonthlyCount)
  BY RoomInit DEF Init, Idle, OpsAsked
<1>2. IInv /\ OpsAsked /\ Room(MonthlyCount) /\ [Next]_vars => OpsAsked' /\ Room(MonthlyCount)'
  BY OpsNext, MonthlyNext DEF IInv, Unlimited
<1>3. Room(MonthlyCount) => WithinQuota  BY DEF Room, WithinQuota
<1> QED BY <1>1, <1>2, <1>3, IInvHolds, PTL DEF Spec

===============================================================================
