---------------------------- MODULE BookingRules ----------------------------
(***************************************************************************)
(* The pure rules of the appointment domain: statuses, the status machine, *)
(* the client's change policy and the overlap of two time slots.  They are *)
(* total functions over their inputs and keep no state.                    *)
(***************************************************************************)
EXTENDS Integers

ActiveStatuses == {"PENDING", "CONFIRMED", "IN_PROGRESS"}
ClosedStatuses == {"COMPLETED", "CANCELLED", "NO_SHOW"}
ReschedulableStatuses == {"PENDING", "CONFIRMED"}
Statuses == ActiveStatuses \cup ClosedStatuses

Transitions ==
  [PENDING     |-> {"CONFIRMED", "IN_PROGRESS", "COMPLETED", "CANCELLED", "NO_SHOW"},
   CONFIRMED   |-> {"IN_PROGRESS", "COMPLETED", "CANCELLED", "NO_SHOW"},
   IN_PROGRESS |-> {"COMPLETED", "CANCELLED"},
   COMPLETED   |-> {},
   CANCELLED   |-> {},
   NO_SHOW     |-> {}]

(* Statuses that state that the client came, or did not: they may only be  *)
(* written once the booked time has begun.                                 *)
AttendanceStatuses == {"IN_PROGRESS", "COMPLETED", "NO_SHOW"}

(* As OperationalTimeOk, with the start of the visit forgotten.            *)
OperationalTimeOk_NotStart(status, start, now) == status \in {"COMPLETED", "NO_SHOW"} => start <= now
OperationalTimeOk(status, start, now) == status \in AttendanceStatuses => start <= now

ClientMayChange(status, start, now, cutoff) ==
  /\ status \in ReschedulableStatuses
  /\ start > now
  /\ start - now >= cutoff

(* A slot is a record [pro, from, to]: a professional and the half-open    *)
(* interval [from, to).  Clash widens one of the two by `gap` on each side *)
(* (the salon's buffer); with gap = 0 it is the database's own test.       *)
Clash(s, r, gap) ==
  /\ s.pro = r.pro
  /\ s.from < r.to + gap
  /\ r.from < s.to + gap
=============================================================================
