------------------------------- MODULE Visits -------------------------------
(* A visit: several services of one client on one day, with one or several     *)
(* professionals, planned (findVisitPlan) and booked (createVisit) by          *)
(* src/src/lib/visit-scheduling.ts in one transaction, against bookings from   *)
(* the public page, promotions from a queue, cancellations and everything that *)
(* opens or closes the day: working hours, extra openings, time off, closures. *)
(*                                                                             *)
(* Left out: prices, the booking window, the plan's limit and the products of  *)
(* the visit (each can only end a transaction, as RollbackVisit does), offers  *)
(* (Offers), and edits of services, whose durations and rooms are constants.   *)
EXTENDS Integers, Sequences, FiniteSets, FiniteSetsExt, Functions

CONSTANTS Stylists,      \* professionals
          DayEnd,        \* the day is 0 .. DayEnd
          Gap,           \* salon.bufferMinutes
          Services,      \* [length, room, staff]: a service's row; staff is a sequence
          Parallel,      \* pairs of services a client may have at the same time
          NoRoom, Anyone, Nobody,
          VisitKeys,     \* idempotency keys of visits
          Orders,        \* what is asked for under a key: choices, manual, override
          Starts,        \* times asked for
          Singles,       \* bookings of one service, on the public page
          Weeks,         \* units of the day that a week's hours may give
          Spans,         \* [from, to]: intervals that staff enter
          Clerks,        \* open transactions
          MaxEdits       \* bound on edits of the day, cancellations and promotions

VARIABLES weekly,        \* rows WorkingHours, as the units of the day each professional works
          extra,         \* rows ProfessionalOpening
          timeOff,       \* rows TimeOff
          closure,       \* rows SalonClosure
          diary,         \* active appointments with their rooms
          freed,         \* slots of cancelled appointments, which may have a queue
          ledger,        \* plan recorded under a key (VISIT_CREATED)
          shown,         \* plan a client or the staff was shown and confirms
          latch,         \* holders of the visits', the professionals' and the offer-salon lock
          clerk,         \* open transactions
          edits

dayVars == <<weekly, extra, timeOff, closure>>
visitVars == <<dayVars, diary, freed, ledger, shown, latch, clerk, edits>>

Units == 0..(DayEnd - 1)
Rooms == {Services[s].room : s \in DOMAIN Services} \ {NoRoom}
\* Whatever takes a professional's time: an item of a plan, or an appointment.
Slot == {a \in [pro : Stylists, from : 0..DayEnd, to : 1..DayEnd, rooms : SUBSET Rooms] : a.from < a.to}
NoPlan == <<>>
Off == [pc |-> "off", key |-> Nobody, parts |-> NoPlan, done |-> 0]

ASSUME VisitsAssumption ==
    /\ DayEnd \in Nat \ {0} /\ Gap \in Nat /\ MaxEdits \in Nat /\ IsFiniteSet(Stylists)
    /\ \A s \in DOMAIN Services : /\ Services[s].length \in 1..DayEnd
                                  /\ Services[s].staff \in Seq(Stylists)
    /\ \A k \in VisitKeys :
           /\ Orders[k].choices \in Seq([service : DOMAIN Services, pro : Stylists \cup {Anyone},
                                         offset : -1..DayEnd])
           /\ Orders[k].override => Orders[k].manual
    /\ Singles \subseteq Slot /\ Weeks \subseteq SUBSET Units
    /\ \A span \in Spans : span \in [from : 0..DayEnd, to : 1..DayEnd] /\ span.from < span.to
    /\ Nobody \notin Clerks \cup VisitKeys

VisitsTypeOK ==
    /\ weekly \in [Stylists -> SUBSET Units]
    /\ \A row \in extra \cup timeOff : row.pro \in Stylists /\ row.span \in Spans
    /\ closure \subseteq Spans /\ diary \cup freed \subseteq Slot
    /\ \A k \in VisitKeys : ledger[k] \in Seq(Slot) /\ shown[k] \in Seq(Slot)
    /\ \A l \in DOMAIN latch : latch[l] \in Clerks \cup {Nobody}
    /\ \A t \in Clerks : /\ clerk[t].pc \in {"off", "plan", "check", "insert"}
                         /\ clerk[t].parts \in Seq(Slot) /\ clerk[t].done \in 0..Len(clerk[t].parts)
    /\ edits \in 0..MaxEdits

-----------------------------------------------------------------------------
(* The day.                                                                    *)

Meets(a, b) == a.from < b.to /\ a.to > b.from
MeetsWithin(gap, a, b) == a.from < b.to + gap /\ a.to > b.from - gap
Covered(span) == span.from..(span.to - 1)

\* workingHoursForDate: the week's shifts and the date's openings, merged; a
\* slot lies within one merged interval when every unit of it is worked.
Worked(p) == weekly[p] \cup UNION {Covered(row.span) : row \in {x \in extra : x.pro = p}}
SalonOpen(a) == \A span \in closure : ~Meets(a, span)
OnDuty(a) ==
    /\ Covered(a) \subseteq Worked(a.pro)
    /\ \A row \in timeOff : row.pro = a.pro => ~Meets(a, row.span)

\* The appointments of the professional within the buffered window.
Beside(a, rows) == {b \in rows : b.pro = a.pro /\ MeetsWithin(Gap, a, b)}

\* availabilityViolation finds none; override is skipSchedule.
Admits(a, rows, override) == SalonOpen(a) /\ (override \/ OnDuty(a)) /\ Beside(a, rows) = {}

\* The constraints appointment_no_overlap and resource_no_overlap.
Inserts(a, rows) ==
    \A b \in rows : Meets(a, b) => a.pro # b.pro /\ a.rooms \cap b.rooms = {}

-----------------------------------------------------------------------------
(* findVisitPlan.                                                              *)

\* Every item's start follows from the durations alone; -1 is no offset.
Begins(order, start) ==
    LET begin[i \in DOMAIN order.choices] ==
            IF order.choices[i].offset # -1 THEN start + order.choices[i].offset
            ELSE IF i = 1 THEN start
            ELSE begin[i - 1] + Services[order.choices[i - 1].service].length
    IN  begin

Candidates(choice) ==
    LET staff == Services[choice.service].staff
    IN  {n \in DOMAIN staff : choice.pro \in {staff[n], Anyone}}

\* The items for one candidate of each choice, f naming its place in the staff.
Items(order, start, f) ==
    [i \in DOMAIN order.choices |->
        LET service == Services[order.choices[i].service]
            begin == Begins(order, start)[i]
        IN  [pro |-> service.staff[f[i]], from |-> begin, to |-> begin + service.length,
             rooms |-> {service.room} \ {NoRoom}]]

\* As Continuous, whatever was planned between the two items.
Continuous_Anywhere(items, j, i) ==
    items[j].pro = items[i].pro /\ \E n \in j..(i - 1) : items[n].to = items[i].from

\* Item j belongs to the unbroken run of one professional that item i goes on.
Continuous(items, j, i) ==
    \A n \in j..(i - 1) : items[n].pro = items[i].pro /\ items[n].to = items[n + 1].from

\* Item i goes together with the earlier item j of the visit.
GoesWith(order, items, j, i) ==
    LET a == items[i]
        b == items[j]
    IN  /\ a.pro = b.pro => /\ ~Meets(a, b)
                            /\ Continuous(items, j, i) \/ ~MeetsWithin(Gap, a, b)
        /\ Meets(a, b) => /\ a.rooms \cap b.rooms = {}
                          /\ \/ order.manual
                             \/ {order.choices[i].service, order.choices[j].service} \in Parallel

ItemFits(order, items, i) ==
    /\ items[i] \in Slot
    /\ Admits(items[i], diary, order.override)
    /\ \A b \in diary : Meets(items[i], b) => items[i].rooms \cap b.rooms = {}
    /\ \A j \in 1..(i - 1) : GoesWith(order, items, j, i)

Feasible(order, items) == \A i \in DOMAIN items : ItemFits(order, items, i)

\* The search tries the staff of each choice in order and goes back when an
\* item fits with nobody: it ends with the first of the feasible plans.
Plans(order, start) ==
    LET n == Len(order.choices)
        chosen == {f \in [1..n -> 1..Cardinality(Stylists)] :
                      \A i \in 1..n : f[i] \in Candidates(order.choices[i])}
        before(f, g) == \E i \in 1..n : f[i] < g[i] /\ \A j \in 1..(i - 1) : f[j] = g[j]
        fits == {f \in chosen : Feasible(order, Items(order, start, f))}
    IN  {Items(order, start, f) : f \in {g \in fits : \A h \in fits : ~before(h, g)}}

\* groupVisitItems: an unbroken run of one professional is one appointment,
\* which takes all the rooms of its services for the whole of its time.
GoesOn(items, i) == i > 1 /\ items[i - 1].pro = items[i].pro /\ items[i - 1].to = items[i].from
PartOf(items, i) == Cardinality({h \in 1..i : ~GoesOn(items, h)})
Members(items, n) == {i \in DOMAIN items : PartOf(items, i) = n}
Parts(items) ==
    [n \in 1..PartOf(items, Len(items)) |->
        LET run == Members(items, n)
        IN  [pro |-> items[Min(run)].pro, from |-> items[Min(run)].from, to |-> items[Max(run)].to,
             rooms |-> UNION {items[i].rooms : i \in run}]]

-----------------------------------------------------------------------------
(* Transactions.                                                               *)

OfferLock == "offers"
Unlatched(t, locks) == \A l \in locks : latch[l] \in {Nobody, t}
Latched(t, locks) == [l \in DOMAIN latch |-> IF l \in locks THEN t ELSE latch[l]]
Released(t) == [l \in DOMAIN latch |-> IF latch[l] = t THEN Nobody ELSE latch[l]]
ProsOf(slots) == {a.pro : a \in Range(slots)}

NextPart(t) == clerk[t].parts[clerk[t].done + 1]
Own(t) == {clerk[t].parts[n] : n \in 1..clerk[t].done}
Overrides(t) == clerk[t].key # Nobody /\ Orders[clerk[t].key].override
Advance(t, pc, parts, done) ==
    clerk' = [clerk EXCEPT ![t] = [pc |-> pc, key |-> clerk[t].key, parts |-> parts, done |-> done]]

\* A plan is shown without a lock; the client or the staff confirms it.
ShowPlan(k) ==
    /\ shown[k] = NoPlan
    /\ \E start \in Starts : \E items \in Plans(Orders[k], start) :
           shown' = [shown EXCEPT ![k] = items]
    /\ UNCHANGED <<dayVars, diary, freed, ledger, latch, clerk, edits>>

\* createVisit up to the recorded key, which a repeated request answers with.
BeginVisit(t, k) ==
    /\ clerk[t].pc = "off" /\ shown[k] # NoPlan /\ Unlatched(t, {k}) /\ ledger[k] = NoPlan
    /\ latch' = Latched(t, {k})
    /\ clerk' = [clerk EXCEPT ![t] = [pc |-> "plan", key |-> k, parts |-> shown[k], done |-> 0]]
    /\ UNCHANGED <<dayVars, diary, freed, ledger, shown, edits>>

\* The locks of all the professionals, then the plan again with those confirmed.
PlanVisit(t) ==
    /\ clerk[t].pc = "plan" /\ Unlatched(t, ProsOf(clerk[t].parts))
    /\ Feasible(Orders[clerk[t].key], clerk[t].parts)
    /\ latch' = Latched(t, ProsOf(clerk[t].parts))
    /\ Advance(t, "check", Parts(clerk[t].parts), clerk[t].done)
    /\ UNCHANGED <<dayVars, diary, freed, ledger, shown, edits>>

\* createAppointment for a booking of its own takes its professional's lock.
BeginSingle(t, a) ==
    /\ clerk[t].pc = "off" /\ Unlatched(t, {a.pro})
    /\ latch' = Latched(t, {a.pro})
    /\ clerk' = [clerk EXCEPT ![t] = [pc |-> "check", key |-> Nobody, parts |-> <<a>>, done |-> 0]]
    /\ UNCHANGED <<dayVars, diary, freed, ledger, shown, edits>>

\* createAppointment looks at the rows committed by now and at its transaction's.
CheckPart(t) ==
    /\ clerk[t].pc = "check" /\ clerk[t].done < Len(clerk[t].parts)
    /\ Admits(NextPart(t), diary \cup Own(t), Overrides(t))
    /\ Advance(t, "insert", clerk[t].parts, clerk[t].done)
    /\ UNCHANGED <<dayVars, diary, freed, ledger, shown, latch, edits>>

\* Its insert fires the offers' trigger, which keeps the salon's lock to the end.
InsertPart(t) ==
    /\ clerk[t].pc = "insert" /\ Unlatched(t, {OfferLock})
    /\ Inserts(NextPart(t), diary \cup Own(t))
    /\ latch' = Latched(t, {OfferLock})
    /\ Advance(t, "check", clerk[t].parts, clerk[t].done + 1)
    /\ UNCHANGED <<dayVars, diary, freed, ledger, shown, edits>>

CommitVisit(t) ==
    /\ clerk[t].pc = "check" /\ clerk[t].done = Len(clerk[t].parts)
    /\ diary' = diary \cup Own(t)
    /\ ledger' = [k \in VisitKeys |-> IF k = clerk[t].key THEN clerk[t].parts ELSE ledger[k]]
    /\ latch' = Released(t) /\ clerk' = [clerk EXCEPT ![t] = Off]
    /\ UNCHANGED <<dayVars, freed, shown, edits>>

\* Whatever is refused, and a connection that is lost.
RollbackVisit(t) ==
    /\ clerk[t].pc # "off"
    /\ latch' = Released(t) /\ clerk' = [clerk EXCEPT ![t] = Off]
    /\ UNCHANGED <<dayVars, diary, freed, ledger, shown, edits>>

-----------------------------------------------------------------------------
(* Everything else that changes the day, each a short transaction.             *)

\* As CanEdit, without the lock.
CanEdit_Unlocked(pros) == edits < MaxEdits

\* The professionals' locks are free for the time of an edit.
CanEdit(pros) == edits < MaxEdits /\ \A p \in pros : latch[p] = Nobody

Edit == /\ edits' = edits + 1
        /\ UNCHANGED <<ledger, shown, latch, clerk>>

CancelSlot(a) ==
    /\ CanEdit({a.pro, OfferLock}) /\ Edit /\ a \in diary
    /\ diary' = diary \ {a} /\ freed' = freed \cup {a}
    /\ UNCHANGED dayVars

\* promoteWaitlistEntry looks at no buffer and at no hours.
PromoteInto(a) ==
    /\ CanEdit({a.pro, OfferLock}) /\ Edit /\ a \in freed
    /\ SalonOpen(a) /\ Inserts(a, diary)
    /\ \A row \in timeOff : row.pro = a.pro => ~Meets(a, row.span)
    /\ diary' = diary \cup {a} /\ freed' = freed \ {a}
    /\ UNCHANGED dayVars

SetWorkingHours(p, hours) ==
    /\ CanEdit({p}) /\ Edit
    /\ weekly' = [weekly EXCEPT ![p] = hours]
    /\ UNCHANGED <<extra, timeOff, closure, diary, freed>>

\* One shift, perhaps with a pause, for everybody selected; days off stay off.
SaveTeamHours(pros, hours) ==
    /\ CanEdit(pros) /\ Edit /\ hours # {}
    /\ weekly' = [p \in Stylists |-> IF p \in pros /\ weekly[p] # {} THEN hours ELSE weekly[p]]
    /\ UNCHANGED <<extra, timeOff, closure, diary, freed>>

\* A pause is only taken out of the hours there are, and has to change some.
SaveWeeklyPause(pros, span) ==
    /\ CanEdit(pros) /\ Edit /\ \E p \in pros : weekly[p] \cap Covered(span) # {}
    /\ weekly' = [p \in Stylists |-> IF p \in pros THEN weekly[p] \ Covered(span) ELSE weekly[p]]
    /\ UNCHANGED <<extra, timeOff, closure, diary, freed>>

Rows(pros, span) == {[pro |-> p, span |-> span] : p \in pros}

AddOpening(p, span) ==
    /\ CanEdit({p}) /\ Edit
    /\ extra' = extra \cup Rows({p}, span)
    /\ UNCHANGED <<weekly, timeOff, closure, diary, freed>>

RemoveOpening(row) ==
    /\ CanEdit({row.pro}) /\ Edit /\ extra' = extra \ {row}
    /\ UNCHANGED <<weekly, timeOff, closure, diary, freed>>

\* executeAvailabilityBlock leaves the appointments it meets where they are.
AddTimeOff(pros, span) ==
    /\ CanEdit(pros) /\ Edit
    /\ timeOff' = timeOff \cup Rows(pros, span)
    /\ UNCHANGED <<weekly, extra, closure, diary, freed>>

RemoveTimeOff(row) ==
    /\ CanEdit({row.pro}) /\ Edit /\ timeOff' = timeOff \ {row}
    /\ UNCHANGED <<weekly, extra, closure, diary, freed>>

UpdateTimeOff(row, span) ==
    /\ CanEdit({row.pro}) /\ Edit
    /\ timeOff' = (timeOff \ {row}) \cup Rows({row.pro}, span)
    /\ UNCHANGED <<weekly, extra, closure, diary, freed>>

\* createSalonClosure and deleteSalonClosure take no lock.
AddClosure(span) ==
    /\ CanEdit({}) /\ Edit /\ closure' = closure \cup {span}
    /\ UNCHANGED <<weekly, extra, timeOff, diary, freed>>

RemoveClosure(span) ==
    /\ CanEdit({}) /\ Edit /\ span \in closure /\ closure' = closure \ {span}
    /\ UNCHANGED <<weekly, extra, timeOff, diary, freed>>

VisitsInit ==
    /\ weekly = [p \in Stylists |-> Units]
    /\ extra = {} /\ timeOff = {} /\ closure = {} /\ diary = {} /\ freed = {}
    /\ ledger = [k \in VisitKeys |-> NoPlan] /\ shown = ledger
    /\ latch = [l \in VisitKeys \cup Stylists \cup {OfferLock} |-> Nobody]
    /\ clerk = [t \in Clerks |-> Off] /\ edits = 0

VisitsNext ==
    \/ \E k \in VisitKeys : ShowPlan(k)
    \/ \E t \in Clerks, k \in VisitKeys : BeginVisit(t, k)
    \/ \E t \in Clerks, a \in Singles : BeginSingle(t, a)
    \/ \E t \in Clerks : \/ PlanVisit(t) \/ CheckPart(t) \/ InsertPart(t)
                         \/ CommitVisit(t) \/ RollbackVisit(t)
    \/ \E a \in diary \cup freed : CancelSlot(a) \/ PromoteInto(a)
    \/ \E pros \in SUBSET Stylists \ {{}} :
           \/ \E hours \in Weeks : SaveTeamHours(pros, hours)
           \/ \E span \in Spans : SaveWeeklyPause(pros, span) \/ AddTimeOff(pros, span)
    \/ \E p \in Stylists, hours \in Weeks : SetWorkingHours(p, hours)
    \/ \E p \in Stylists, span \in Spans : AddOpening(p, span)
    \/ \E row \in extra : RemoveOpening(row)
    \/ \E row \in timeOff : RemoveTimeOff(row) \/ \E span \in Spans : UpdateTimeOff(row, span)
    \/ \E span \in Spans : AddClosure(span) \/ RemoveClosure(span)

VisitsSpec == VisitsInit /\ [][VisitsNext]_visitVars

-----------------------------------------------------------------------------
\* Once a visit is planned under its professionals' locks, every appointment of
\* it that is still to be written stays within working hours, outside time off
\* and a buffer away from whatever is booked and from the rest of the visit; so
\* no later part is refused for them, only for a closure or a room. A booking of
\* its own stays so from its check to its insert.
PlanHolds ==
    \A t \in Clerks :
        LET parts == clerk[t].parts IN
        (clerk[t].pc = "insert" \/ (clerk[t].pc = "check" /\ clerk[t].key # Nobody)) =>
            \A n \in (clerk[t].done + 1)..Len(parts) :
                /\ Overrides(t) \/ OnDuty(parts[n])
                /\ Beside(parts[n], (diary \cup Range(parts)) \ {parts[n]}) = {}

=============================================================================
