------------------------------- MODULE Offers -------------------------------
(* Requests for any time of one professional and the offers made to them:      *)
(* promoteFlexible (src/src/lib/flexible-waitlist.ts), respondToOffer          *)
(* (src/src/lib/waitlist-offers.ts), the withdrawal of an offer and the        *)
(* cancellation of a request, against bookings from the public page and the    *)
(* trigger booking_offer_guard (src/prisma/sql/manual/023_receipts_booking.sql)*)
(* Every service needs the salon's one room, so that a slot is held by one     *)
(* booking or offer at a time, whichever professional it is with.              *)
EXTENDS Integers, FiniteSets

CONSTANTS Requests,    \* places in the queue, numbered in the order of joining
          Slots,       \* times that do not touch
          Actors,      \* staff and clients with an open transaction
          Unheld,      \* nobody
          Prices,      \* prices the catalogue may show
          MaxChanges,  \* bound on the changes of the price
          MaxCalls     \* bound on the transactions

VARIABLES request,     \* the rows FlexibleWaitlist
          offer,       \* the latest row WaitlistOffer of a request at a slot
          taken,       \* the active bookings
          price,       \* the catalogue's price
          holder,      \* holders of the two professionals' locks and of offer-salon
          actor,       \* open transactions
          spent        \* transactions and price changes so far

offerVars == <<request, offer, taken, price, holder, actor, spent>>

ASSUME OffersAssumption ==
    /\ Requests \subseteq Nat /\ IsFiniteSet(Requests) /\ 0 \notin Requests
    /\ Prices \subseteq Nat /\ 0 \notin Prices
    /\ MaxChanges \in Nat /\ MaxCalls \in Nat /\ Unheld \notin Actors

OfferStates == {"none", "OFFERED", "ACCEPTED", "DECLINED", "EXPIRED", "WITHDRAWN"}
\* cents is the price staff confirmed, terms the snapshot of the services.
OfferRow == [status : OfferStates, open : BOOLEAN, cents : Prices \cup {0}, terms : Prices \cup {0}]
NoOffer == [status |-> "none", open |-> FALSE, cents |-> 0, terms |-> 0]
\* by is the request a booking came from, 0 for the public page.
BookingRow == [slot : Slots, by : Requests \cup {0}, paid : Prices, agreed : Prices \cup {0}]
AtRest == [pc |-> "rest", by |-> 0, slot |-> Unheld, with |-> "mine", direct |-> FALSE, cents |-> 0]

OffersTypeOK ==
    /\ request \in [Requests -> {"none", "WAITING", "FULFILLED", "CANCELLED"}]
    /\ offer \in [Requests -> [Slots -> OfferRow]]
    /\ taken \subseteq BookingRow /\ price \in Prices
    /\ holder \in [{"mine", "other", "offers"} -> Actors \cup {Unheld}]
    /\ actor \in [Actors -> [pc : {"rest", "select", "offer", "book", "respond", "create", "public", "commit"},
                             by : Requests \cup {0}, slot : Slots \cup {Unheld}, with : {"mine", "other"},
                             direct : BOOLEAN, cents : Prices \cup {0}]]
    /\ spent \in [calls : 0..MaxCalls, changes : 0..MaxChanges]

-----------------------------------------------------------------------------
IsLive(r, s) == offer[r][s].status = "OFFERED" /\ offer[r][s].open
Holding(s) == {r \in Requests : IsLive(r, s)}
Booked(s) == {b \in taken : b.slot = s}

\* inspectAppointmentAvailability, as far as bookings and offers go.
Fits(s) == Booked(s) = {} /\ Holding(s) = {}

Call == spent.calls < MaxCalls /\ spent' = [spent EXCEPT !.calls = @ + 1]
Do(a, local) == actor' = [actor EXCEPT ![a] = local]
Step(a, pc) == Do(a, [actor[a] EXCEPT !.pc = pc])

\* The end of a transaction gives its locks back.
Unlock(a) == holder' = [l \in DOMAIN holder |-> IF holder[l] = a THEN Unheld ELSE holder[l]]
Leave(a) == Unlock(a) /\ Do(a, AtRest)
Abort(a) == Leave(a) /\ UNCHANGED <<request, offer, taken, price, spent>>

Join(r) ==
    /\ request[r] = "none" /\ \A q \in Requests : q < r => request[q] # "none"
    /\ Call
    /\ request' = [request EXCEPT ![r] = "WAITING"]
    /\ UNCHANGED <<offer, taken, price, holder, actor>>

\* A transaction that begins with the lock of a professional.
Begin(a, pc, r, s, with, direct) ==
    /\ actor[a].pc = "rest" /\ Call /\ holder[with] = Unheld
    /\ holder' = [holder EXCEPT ![with] = a]
    /\ Do(a, [AtRest EXCEPT !.pc = pc, !.by = r, !.slot = s, !.with = with, !.direct = direct])
    /\ UNCHANGED <<request, offer, taken, price>>

-----------------------------------------------------------------------------
(* promoteFlexible: an offer, or a booking at once (direct).                   *)

Promote(a, r, s, direct) == request[r] # "none" /\ request[r] # "FULFILLED" /\ Begin(a, "select", r, s, "mine", direct)

\* An earlier request that was asked about the slot, and let it pass, is skipped.
Passed(r, s) ==
    \/ offer[r][s].status \in {"DECLINED", "EXPIRED"}
    \/ offer[r][s].status = "OFFERED" /\ ~offer[r][s].open

Select(a) ==
    /\ actor[a].pc = "select"
    /\ LET r == actor[a].by
           s == actor[a].slot
           isFirst == \A q \in Requests : q < r /\ request[q] = "WAITING" => Passed(q, s)
       IN  IF request[r] = "WAITING" /\ ~Passed(r, s) /\ ~IsLive(r, s) /\ Fits(s) /\ isFirst
           THEN /\ Do(a, [actor[a] EXCEPT !.pc = IF actor[a].direct THEN "book" ELSE "offer", !.cents = price])
                /\ UNCHANGED <<request, offer, taken, price, holder, spent>>
           ELSE Abort(a)

\* booking_offer_guard on an offer, under the salon's offer lock.
GuardsOffer(r, s) ==
    /\ request[r] = "WAITING"
    /\ Holding(s) = {} /\ \A t \in Slots : ~IsLive(r, t)
    /\ Booked(s) = {}

\* The services are inspected a second time; the insert waits for the lock.
InsertOffer(a) ==
    /\ actor[a].pc = "offer" /\ holder["offers"] = Unheld
    /\ LET r == actor[a].by
           s == actor[a].slot
       IN  IF GuardsOffer(r, s)
           THEN /\ offer' = [offer EXCEPT ![r][s] = [status |-> "OFFERED", open |-> TRUE,
                                                     cents |-> actor[a].cents, terms |-> price]]
                /\ Leave(a) /\ UNCHANGED <<request, taken, price, spent>>
           ELSE Abort(a)

\* createAppointment reads the price itself.
BookDirectly(a) ==
    /\ actor[a].pc = "book" /\ holder["offers"] = Unheld
    /\ LET r == actor[a].by
           s == actor[a].slot
       IN  IF Fits(s)
           THEN /\ taken' = taken \cup {[slot |-> s, by |-> r, paid |-> price, agreed |-> 0]}
                /\ request' = [request EXCEPT ![r] = IF @ = "WAITING" THEN "FULFILLED" ELSE @]
                /\ Leave(a) /\ UNCHANGED <<offer, price, spent>>
           ELSE Abort(a)

-----------------------------------------------------------------------------
(* respondToOffer, with both locks from its first check to its commit.         *)

Respond(a, r, s) == offer[r][s].status # "none" /\ Begin(a, "respond", r, s, "mine", FALSE)

Closes(a, r, s, status) ==
    /\ offer' = [offer EXCEPT ![r][s].status = status]
    /\ Leave(a) /\ UNCHANGED <<request, taken, price, spent>>

\* As StillWaiting, relying on the offer being open.
StillWaiting_Unchecked(r) == TRUE

\* The request is still in the queue.
StillWaiting(r) == request[r] = "WAITING"

Inspect(a) ==
    /\ actor[a].pc = "respond" /\ holder["offers"] = Unheld
    /\ LET r == actor[a].by
           s == actor[a].slot
           row == offer[r][s]
           agrees == row.terms = price /\ row.cents = price
       IN  \/ row.status # "OFFERED" /\ Abort(a)
           \/ row.status = "OFFERED" /\ ~row.open /\ Closes(a, r, s, "EXPIRED")
           \/ IsLive(r, s) /\ Closes(a, r, s, "DECLINED")
           \/ /\ IsLive(r, s)
              /\ IF StillWaiting(r) /\ agrees /\ Booked(s) = {}
                 THEN /\ holder' = [holder EXCEPT !["offers"] = a]
                      /\ Step(a, "create")
                      /\ UNCHANGED <<request, offer, taken, price, spent>>
                 ELSE Abort(a)

\* As Verified, relying on the inspection.
Verified_Never(row) == TRUE

\* The terms the booking really got are compared with the offer's once more.
Verified(row) == row.terms = price

CreateAccepted(a) ==
    /\ actor[a].pc = "create"
    /\ LET r == actor[a].by
           s == actor[a].slot
       IN  IF Verified(offer[r][s])
           THEN /\ taken' = taken \cup {[slot |-> s, by |-> r, paid |-> price, agreed |-> offer[r][s].cents]}
                /\ offer' = [offer EXCEPT ![r][s].status = "ACCEPTED"]
                /\ request' = [request EXCEPT ![r] = IF @ = "WAITING" THEN "FULFILLED" ELSE @]
                /\ Leave(a) /\ UNCHANGED <<price, spent>>
           ELSE Abort(a)

-----------------------------------------------------------------------------
\* withdrawFlexibleOffer takes no lock but the trigger's.
Withdraw(r, s) ==
    /\ offer[r][s].status = "OFFERED" /\ Call /\ holder["offers"] = Unheld
    /\ offer' = [offer EXCEPT ![r][s].status = "WITHDRAWN"]
    /\ UNCHANGED <<request, taken, price, holder, actor>>

\* cancelFlexibleRequest
CancelRequest(r) ==
    /\ request[r] # "none" /\ Call /\ holder["mine"] = Unheld
    /\ (\E s \in Slots : offer[r][s].status = "OFFERED") => holder["offers"] = Unheld
    /\ offer' = [offer EXCEPT ![r] = [s \in Slots |->
            IF offer[r][s].status = "OFFERED" THEN [offer[r][s] EXCEPT !.status = "WITHDRAWN"] ELSE offer[r][s]]]
    /\ request' = [request EXCEPT ![r] = IF @ = "WAITING" THEN "CANCELLED" ELSE @]
    /\ UNCHANGED <<taken, price, holder, actor>>

-----------------------------------------------------------------------------
(* A booking from the public page, with this professional or with another one  *)
(* in the same room; the trigger keeps the offer lock until the commit.        *)

BookPublicly(a, s, with) == Begin(a, "public", 0, s, with, FALSE)

\* As WithOfferLock, without the trigger's lock.
WithOfferLock_None(a) == UNCHANGED holder

\* booking_offer_guard on a booking: the offer lock until the commit.
WithOfferLock(a) == holder["offers"] = Unheld /\ holder' = [holder EXCEPT !["offers"] = a]

InsertBooking(a) ==
    /\ actor[a].pc = "public"
    /\ \/ /\ Fits(actor[a].slot) /\ WithOfferLock(a)
          /\ Do(a, [actor[a] EXCEPT !.pc = "commit", !.cents = price])
          /\ UNCHANGED <<request, offer, taken, price, spent>>
       \/ ~Fits(actor[a].slot) /\ Abort(a)

\* The room's own constraint refuses a second booking, never an offer.
CommitBooking(a) ==
    /\ actor[a].pc = "commit"
    /\ IF Booked(actor[a].slot) = {}
       THEN /\ taken' = taken \cup {[slot |-> actor[a].slot, by |-> 0, paid |-> actor[a].cents, agreed |-> 0]}
            /\ Leave(a) /\ UNCHANGED <<request, offer, price, spent>>
       ELSE Abort(a)

\* The offer's minutes run out, staff change the catalogue, a transaction dies.
OfferExpires(r, s) ==
    /\ IsLive(r, s)
    /\ offer' = [offer EXCEPT ![r][s].open = FALSE]
    /\ UNCHANGED <<request, taken, price, holder, actor, spent>>

ChangePrice(p) ==
    /\ p # price /\ spent.changes < MaxChanges /\ spent.calls > 0
    /\ price' = p /\ spent' = [spent EXCEPT !.changes = @ + 1]
    /\ UNCHANGED <<request, offer, taken, holder, actor>>

Dies(a) == actor[a].pc # "rest" /\ Abort(a)

OffersInit ==
    /\ request = [r \in Requests |-> "none"]
    /\ offer = [r \in Requests |-> [s \in Slots |-> NoOffer]]
    /\ taken = {} /\ price \in Prices
    /\ holder = [l \in {"mine", "other", "offers"} |-> Unheld]
    /\ actor = [a \in Actors |-> AtRest]
    /\ spent \in {[calls |-> 0, changes |-> 0], [calls |-> MaxCalls, changes |-> MaxChanges]}

OffersNext ==
    \/ \E r \in Requests : Join(r) \/ CancelRequest(r)
    \/ \E r \in Requests, s \in Slots : Withdraw(r, s) \/ OfferExpires(r, s)
    \/ \E a \in Actors, s \in Slots, with \in {"mine", "other"} : BookPublicly(a, s, with)
    \/ \E a \in Actors, r \in Requests, s \in Slots :
          Respond(a, r, s) \/ (\E direct \in BOOLEAN : Promote(a, r, s, direct))
    \/ \E a \in Actors : \/ Select(a) \/ InsertOffer(a) \/ BookDirectly(a) \/ Inspect(a) \/ CreateAccepted(a)
                         \/ InsertBooking(a) \/ CommitBooking(a) \/ Dies(a)
    \/ \E p \in Prices : ChangePrice(p)

OffersSpec == OffersInit /\ [][OffersNext]_offerVars

-----------------------------------------------------------------------------
\* An open offer holds its slot against everybody: neither a booking, with any
\* professional in the room, nor a second offer shares it (booking_offer_guard).
HeldForOne == \A s \in Slots : Cardinality(Booked(s)) + Cardinality(Holding(s)) <= 1

\* A client who accepts books at the price that was offered, even if the
\* catalogue changes while the acceptance is under way.
TermsStand == \A b \in taken : b.agreed # 0 => b.paid = b.agreed

\* A request is fulfilled exactly when it has a booking, and has only one, with
\* an offer accepted while staff book it directly at another time.
FulfilledOnce ==
    \A r \in Requests : Cardinality({b \in taken : b.by = r}) = IF request[r] = "FULFILLED" THEN 1 ELSE 0
=============================================================================
