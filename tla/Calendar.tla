------------------------------ MODULE Calendar ------------------------------
(***************************************************************************)
(* What a salon's agenda promises, whatever transactions, locks, versions  *)
(* and queues stand behind it: every booking is taken, moved and released  *)
(* in one step, a request books once, and at no time do two bookings share *)
(* a professional's time unless staff asked for it.  Booking implements    *)
(* this specification (ImplementsCalendar there).                          *)
(***************************************************************************)
EXTENDS BookingRules

CONSTANTS
  Appts,     \* identifiers of bookings
  Slots,     \* the [pro, from, to] slots that are ever asked for
  Requests,  \* what a booking may be made for: a request, or a place in a queue
  NoRequest, \* what stands for no request
  Buffer     \* pause the salon keeps between two bookings

VARIABLE agenda  \* the booking of every identifier

Booking == [state : {"unused", "held", "past"}, slot : Slots, over : BOOLEAN,
            queued : BOOLEAN, key : Requests \cup {NoRequest}]

IsHeld(r) == r.state = "held"
IsFixed(r) == IsHeld(r) /\ ~r.over       \* staff did not ask for an overlap
IsPlain(r) == IsFixed(r) /\ ~r.queued    \* and it was not taken over from a queue

(* No two fixed bookings take the same time, and the salon's pause lies    *)
(* between any two plain ones.                                             *)
Consistent(tab) ==
  \A a, b \in Appts : a # b =>
    /\ IsFixed(tab[a]) /\ IsFixed(tab[b]) => ~Clash(tab[a].slot, tab[b].slot, 0)
    /\ IsPlain(tab[a]) /\ IsPlain(tab[b]) => ~Clash(tab[a].slot, tab[b].slot, Buffer)

(* A request has at most one booking, released ones included.              *)
BookedOnce(tab) ==
  \A a, b \in Appts : a # b /\ tab[a].key # NoRequest => tab[a].key # tab[b].key

(* What may become of one booking, r before and q after the step.          *)
Taken(r, q) == r.state = "unused" /\ IsHeld(q)
Moved(r, q) == IsHeld(r) /\ IsHeld(q) /\ q.key = r.key /\ q.queued = r.queued
Released(r, q) == IsHeld(r) /\ q = [r EXCEPT !.state = "past"]

OnlyChanges(ids) == \A c \in Appts \ ids : agenda'[c] = agenda[c]

(* One booking is taken, moved or released.                                *)
ChangeOne(a) ==
  /\ OnlyChanges({a})
  /\ \/ Taken(agenda[a], agenda'[a])
     \/ Moved(agenda[a], agenda'[a])
     \/ Released(agenda[a], agenda'[a])

(* Somebody who waited for the time of a gets it, as booking b, in the     *)
(* same step that frees it.                                                *)
HandOver(a, b) ==
  /\ a # b /\ OnlyChanges({a, b})
  /\ Moved(agenda[a], agenda'[a]) \/ Released(agenda[a], agenda'[a])
  /\ Taken(agenda[b], agenda'[b]) /\ agenda'[b].queued

Init == agenda \in [Appts -> Booking] /\ Consistent(agenda) /\ BookedOnce(agenda)

Next ==
  /\ \E a \in Appts : ChangeOne(a) \/ \E b \in Appts : HandOver(a, b)
  /\ agenda' \in [Appts -> Booking] /\ Consistent(agenda') /\ BookedOnce(agenda')

Spec == Init /\ [][Next]_agenda
=============================================================================
