---------------------------- MODULE OffersProofs ----------------------------
(* Requests for any time and their offers, for any number of requests, times,  *)
(* prices and transactions.                                                    *)
EXTENDS Offers, FiniteSetTheorems, TLAPS

-----------------------------------------------------------------------------
(* The types, with what a transaction has filled in.                           *)

LockNames == {"mine", "other", "offers"}
ActorRow == [pc : {"rest", "select", "offer", "book", "respond", "create", "public", "commit"},
             by : Requests \cup {0}, slot : Slots \cup {Unheld}, with : {"mine", "other"},
             direct : BOOLEAN, cents : Prices \cup {0}]

\* Transactions about a request, all of them on this professional's lock.
OnRequest == {"select", "offer", "book", "respond", "create"}
Filled(l) ==
    /\ l.pc # "rest" => l.slot \in Slots
    /\ l.pc \in OnRequest => l.by \in Requests /\ l.with = "mine"
    /\ l.pc \in {"offer", "commit"} => l.cents \in Prices

QueueOK == /\ request \in [Requests -> {"none", "WAITING", "FULFILLED", "CANCELLED"}]
           /\ taken \subseteq BookingRow /\ price \in Prices
           /\ spent \in [calls : 0..MaxCalls, changes : 0..MaxChanges]
OfferOK == offer \in [Requests -> [Slots -> OfferRow]]
LocksOK == holder \in [LockNames -> Actors \cup {Unheld}]
ActorsOK == actor \in [Actors -> ActorRow] /\ \A a \in Actors : Filled(actor[a])
Typed == QueueOK /\ OfferOK /\ LocksOK /\ ActorsOK

\* A transaction keeps the locks it took to its end.
Held == \A a \in Actors :
            /\ actor[a].pc # "rest" => holder[actor[a].with] = a
            /\ actor[a].pc \in {"create", "commit"} => holder["offers"] = a

-----------------------------------------------------------------------------
(* What is promised about a slot, and what a transaction relies on.            *)

Apart ==
    \A s \in Slots :
        /\ \A b, c \in taken : b.slot = s /\ c.slot = s => b = c
        /\ \A q, r \in Requests : IsLive(q, s) /\ IsLive(r, s) => q = r
        /\ \A b \in taken, r \in Requests : b.slot = s => ~IsLive(r, s)

Promise(a) ==
    LET l == actor[a] IN
    /\ l.pc = "book" => request[l.by] = "WAITING"
    /\ l.pc = "create" => /\ request[l.by] = "WAITING" /\ \A b \in taken : b.slot # l.slot
                          /\ \A r \in Requests : IsLive(r, l.slot) => r = l.by
                          /\ offer[l.by][l.slot].cents = offer[l.by][l.slot].terms
    /\ l.pc = "commit" => \A r \in Requests : ~IsLive(r, l.slot)
Promises == \A a \in Actors : Promise(a)

\* A request that is fulfilled has one booking, and no other has one.
OneEach ==
    /\ \A r \in Requests : request[r] = "FULFILLED" => \E b \in taken : b.by = r
    /\ \A b \in taken : b.by \in Requests => request[b.by] = "FULFILLED"
    /\ \A b, c \in taken : b.by = c.by /\ b.by \in Requests => b = c

OffersInv == Typed /\ Held /\ Apart /\ Promises /\ TermsStand /\ OneEach

LEMMA TypedTypeOK == Typed => OffersTypeOK
BY DEF Typed, QueueOK, OfferOK, LocksOK, ActorsOK, OffersTypeOK, LockNames, ActorRow

LEMMA AtRestOK == AtRest \in ActorRow /\ AtRest.pc = "rest" /\ Filled(AtRest)
BY DEF AtRest, ActorRow, Filled, OnRequest

LEMMA ActorStep ==
  ASSUME ActorsOK, NEW a \in Actors, NEW l \in ActorRow, Filled(l), Do(a, l)
  PROVE  ActorsOK' /\ actor'[a] = l /\ \A e \in Actors \ {a} : actor'[e] = actor[e]
BY DEF ActorsOK, Do, Filled

LEMMA OfferStep ==
  ASSUME OfferOK, NEW r \in Requests, NEW s \in Slots, NEW row \in OfferRow,
         offer' = [offer EXCEPT ![r][s] = row]
  PROVE  /\ OfferOK' /\ offer'[r][s] = row
         /\ \A q \in Requests, t \in Slots : q # r \/ t # s => offer'[q][t] = offer[q][t]
BY DEF OfferOK

LEMMA LeaveStep ==
  ASSUME Typed, Held, NEW a \in Actors, Leave(a)
  PROVE  /\ ActorsOK' /\ LocksOK' /\ Held'
         /\ actor'[a].pc = "rest" /\ \A e \in Actors \ {a} : actor'[e] = actor[e]
<1>1. ActorsOK' /\ actor'[a] = AtRest /\ \A e \in Actors \ {a} : actor'[e] = actor[e]
  BY AtRestOK, ActorStep DEF Typed, Leave
<1>2. /\ LocksOK' /\ \A l \in LockNames : holder[l] # a => holder'[l] = holder[l]
  BY DEF Leave, Unlock, Typed, LocksOK
<1>3. Held'
  <2> SUFFICES ASSUME NEW e \in Actors, actor'[e].pc # "rest"
               PROVE  /\ holder'[actor'[e].with] = e
                      /\ actor'[e].pc \in {"create", "commit"} => holder'["offers"] = e
    BY DEF Held
  <2>1. e # a /\ actor'[e] = actor[e] /\ actor[e].with \in LockNames
    BY <1>1, AtRestOK DEF Typed, ActorsOK, ActorRow, LockNames
  <2> QED BY <1>2, <2>1 DEF Held, LockNames
<1> QED BY <1>1, <1>2, <1>3, AtRestOK

-----------------------------------------------------------------------------
(* Steps that book nothing and offer nothing new.                              *)

\* Offers only end, with their price and terms; nobody becomes fulfilled.
Fades ==
    /\ \A r \in Requests, s \in Slots :
          /\ IsLive(r, s)' => IsLive(r, s)
          /\ offer'[r][s].cents = offer[r][s].cents /\ offer'[r][s].terms = offer[r][s].terms
    /\ \A r \in Requests : request'[r] = "FULFILLED" <=> request[r] = "FULFILLED"
    /\ taken' = taken

\* Everybody else still finds the request as it was.
Stays(e) == actor'[e] = actor[e] /\ (actor[e].pc \in {"create", "book"} => request'[actor[e].by] = request[actor[e].by])

LEMMA FadingKeeps ==
  ASSUME OffersInv, Fades, \A e \in Actors : Stays(e) \/ Promise(e)'
  PROVE  Apart' /\ Promises' /\ TermsStand' /\ OneEach'
<1>1. Apart'
  BY DEF OffersInv, Apart, Fades
<1>2. TermsStand' /\ OneEach'
  BY DEF OffersInv, TermsStand, OneEach, Fades
<1>3. ASSUME NEW e \in Actors, Stays(e) PROVE Promise(e)'
  <2>1. Promise(e) /\ Filled(actor[e])
    BY DEF OffersInv, Promises, Typed, ActorsOK
  <2> DEFINE l == actor[e]
  <2>2. actor'[e] = l
    BY <1>3 DEF Stays
  <2>3. CASE l.pc = "book"
    BY <1>3, <2>1, <2>2, <2>3 DEF Promise, Stays
  <2>4. CASE l.pc = "create"
    <3>1. l.slot \in Slots /\ l.by \in Requests
      BY <2>1, <2>4 DEF Filled, OnRequest
    <3>2. /\ request'[l.by] = "WAITING" /\ \A b \in taken : b.slot # l.slot
          /\ \A r \in Requests : IsLive(r, l.slot) => r = l.by
          /\ offer[l.by][l.slot].cents = offer[l.by][l.slot].terms
      BY <1>3, <2>1, <2>4 DEF Promise, Stays
    <3> HIDE DEF l
    <3> QED BY <2>2, <2>4, <3>1, <3>2 DEF Promise, Fades
  <2>5. CASE l.pc = "commit"
    <3>1. l.slot \in Slots /\ \A r \in Requests : ~IsLive(r, l.slot)
      BY <2>1, <2>5 DEF Filled, OnRequest, Promise
    <3> HIDE DEF l
    <3> QED BY <2>2, <2>5, <3>1 DEF Promise, Fades
  <2>6. CASE l.pc \notin {"book", "create", "commit"}
    BY <2>2, <2>6 DEF Promise
  <2> QED BY <2>3, <2>4, <2>5, <2>6
<1> QED BY <1>1, <1>2, <1>3 DEF Promises

LEMMA SpentOK == ASSUME QueueOK, Call PROVE spent' \in [calls : 0..MaxCalls, changes : 0..MaxChanges]
<1>1. spent \in [calls : 0..MaxCalls, changes : 0..MaxChanges]
  BY DEF QueueOK
<1>2. spent.calls \in 0..MaxCalls /\ spent.calls < MaxCalls /\ spent' = [spent EXCEPT !.calls = spent.calls + 1]
  BY <1>1 DEF Call
<1>3. spent.calls + 1 \in 0..MaxCalls
  BY <1>2, OffersAssumption
<1> QED BY <1>1, <1>2, <1>3

LEMMA SameFades == ASSUME UNCHANGED <<request, offer, taken>> PROVE Fades
BY DEF Fades, IsLive

LEMMA AbortKeeps ==
  ASSUME OffersInv, NEW a \in Actors, Abort(a)
  PROVE  OffersInv'
<1> USE DEF OffersInv, Typed
<1>1. /\ ActorsOK' /\ LocksOK' /\ Held' /\ UNCHANGED <<request, offer, taken, price, spent>>
      /\ actor'[a].pc = "rest" /\ \A e \in Actors \ {a} : actor'[e] = actor[e]
  BY LeaveStep DEF Abort
<1>2. \A e \in Actors : Stays(e) \/ Promise(e)'
  BY <1>1 DEF Stays, Promise
<1>3. Apart' /\ Promises' /\ TermsStand' /\ OneEach'
  BY <1>1, <1>2, SameFades, FadingKeeps
<1> QED BY <1>1, <1>3 DEF QueueOK, OfferOK

LEMMA BeginKeeps ==
  ASSUME OffersInv, NEW a \in Actors, NEW s \in Slots, NEW with \in {"mine", "other"}, NEW direct \in BOOLEAN,
         NEW r \in Requests \cup {0}, NEW pc \in {"select", "respond", "public"},
         pc # "public" => r \in Requests /\ with = "mine", Begin(a, pc, r, s, with, direct)
  PROVE  OffersInv'
<1> USE DEF OffersInv, Typed
<1> DEFINE i == AtRest
           l == [i EXCEPT !.pc = pc, !.by = r, !.slot = s, !.with = with, !.direct = direct]
<1>1. /\ actor[a].pc = "rest" /\ holder[with] = Unheld /\ holder' = [holder EXCEPT ![with] = a] /\ Do(a, l)
      /\ UNCHANGED <<request, offer, taken, price>> /\ Call
  BY DEF Begin
<1>2. i \in ActorRow
  BY AtRestOK
<1> HIDE DEF i
<1>3. l \in ActorRow /\ l.pc = pc /\ l.by = r /\ l.slot = s /\ l.with = with
  BY <1>2 DEF ActorRow
<1> HIDE DEF l
<1>4. Filled(l)
  BY <1>3 DEF Filled, OnRequest
<1>5. ActorsOK' /\ actor'[a] = l /\ \A e \in Actors \ {a} : actor'[e] = actor[e]
  BY <1>1, <1>3, <1>4, ActorStep
<1>6. LocksOK' /\ holder'[with] = a /\ \A k \in LockNames : k # with => holder'[k] = holder[k]
  BY <1>1 DEF LocksOK, LockNames
<1>7. Held'
  <2> SUFFICES ASSUME NEW e \in Actors, actor'[e].pc # "rest"
               PROVE  /\ holder'[actor'[e].with] = e
                      /\ actor'[e].pc \in {"create", "commit"} => holder'["offers"] = e
    BY DEF Held
  <2>1. CASE e = a
    BY <1>3, <1>5, <1>6, <2>1
  <2>2. CASE e # a
    <3>1. actor'[e] = actor[e] /\ actor[e].with \in {"mine", "other"} /\ holder[actor[e].with] = e
      BY <1>5, <2>2 DEF ActorsOK, ActorRow, Held
    <3>2. actor[e].with # with
      BY <1>1, <3>1, OffersAssumption
    <3> QED BY <1>6, <3>1, <3>2 DEF Held, LockNames
  <2> QED BY <2>1, <2>2
<1>8. \A e \in Actors : Stays(e) \/ Promise(e)'
  BY <1>1, <1>3, <1>5 DEF Stays, Promise
<1>9. Apart' /\ Promises' /\ TermsStand' /\ OneEach'
  BY <1>1, <1>8, SameFades, FadingKeeps
<1> QED BY <1>1, <1>5, <1>6, <1>7, <1>9, SpentOK DEF QueueOK, OfferOK

\* An offer ends, or its minutes do.
LEMMA EndOffer ==
  ASSUME OfferOK, NEW r \in Requests, NEW s \in Slots, UNCHANGED <<request, taken>>,
         \/ \E status \in OfferStates \ {"OFFERED"} : offer' = [offer EXCEPT ![r][s].status = status]
         \/ offer' = [offer EXCEPT ![r][s].open = FALSE]
  PROVE  OfferOK' /\ Fades
<1> DEFINE o == offer[r][s]
<1>1. o \in OfferRow
  BY DEF OfferOK
<1>2. \E row \in OfferRow : /\ offer' = [offer EXCEPT ![r][s] = row]
                            /\ row.cents = o.cents /\ row.terms = o.terms
                            /\ row.status # "OFFERED" \/ ~row.open
  <2>1. CASE offer' = [offer EXCEPT ![r][s].open = FALSE]
    <3>1. offer' = [offer EXCEPT ![r][s] = [o EXCEPT !.open = FALSE]]
      BY <2>1
    <3> HIDE DEF o
    <3>2. /\ [o EXCEPT !.open = FALSE] \in OfferRow /\ ~[o EXCEPT !.open = FALSE].open
          /\ [o EXCEPT !.open = FALSE].cents = o.cents /\ [o EXCEPT !.open = FALSE].terms = o.terms
      BY <1>1 DEF OfferRow
    <3> QED BY <3>1, <3>2
  <2>2. ASSUME NEW status \in OfferStates \ {"OFFERED"}, offer' = [offer EXCEPT ![r][s].status = status]
        PROVE  \E row \in OfferRow : /\ offer' = [offer EXCEPT ![r][s] = row]
                                     /\ row.cents = o.cents /\ row.terms = o.terms
                                     /\ row.status # "OFFERED" \/ ~row.open
    <3>1. offer' = [offer EXCEPT ![r][s] = [o EXCEPT !.status = status]]
      BY <2>2
    <3> HIDE DEF o
    <3>2. /\ [o EXCEPT !.status = status] \in OfferRow /\ [o EXCEPT !.status = status].status = status
          /\ [o EXCEPT !.status = status].cents = o.cents /\ [o EXCEPT !.status = status].terms = o.terms
      BY <1>1 DEF OfferRow
    <3> QED BY <3>1, <3>2
  <2> QED BY <2>1, <2>2
<1>3. PICK row \in OfferRow : /\ offer' = [offer EXCEPT ![r][s] = row]
                              /\ row.cents = o.cents /\ row.terms = o.terms
                              /\ row.status # "OFFERED" \/ ~row.open
  BY <1>2
<1>4. /\ OfferOK' /\ offer'[r][s] = row
      /\ \A q \in Requests, t \in Slots : q # r \/ t # s => offer'[q][t] = offer[q][t]
  BY <1>3, OfferStep
<1>5. Fades
  <2>1. ASSUME NEW q \in Requests, NEW t \in Slots
        PROVE  /\ IsLive(q, t)' => IsLive(q, t)
               /\ offer'[q][t].cents = offer[q][t].cents /\ offer'[q][t].terms = offer[q][t].terms
    <3>1. CASE q = r /\ t = s
      BY <1>3, <1>4, <3>1 DEF IsLive
    <3>2. CASE ~(q = r /\ t = s)
      BY <1>4, <3>2 DEF IsLive
    <3> QED BY <3>1, <3>2
  <2> QED BY <2>1 DEF Fades
<1> QED BY <1>4, <1>5

LEMMA CloseKeeps ==
  ASSUME OffersInv, NEW a \in Actors, NEW r \in Requests, NEW s \in Slots,
         NEW status \in OfferStates \ {"OFFERED"}, Closes(a, r, s, status)
  PROVE  OffersInv'
<1> USE DEF OffersInv, Typed
<1>1. /\ offer' = [offer EXCEPT ![r][s].status = status] /\ Leave(a)
      /\ UNCHANGED <<request, taken, price, spent>>
  BY DEF Closes
<1>2. OfferOK' /\ Fades
  BY <1>1, EndOffer
<1>3. /\ ActorsOK' /\ LocksOK' /\ Held'
      /\ actor'[a].pc = "rest" /\ \A e \in Actors \ {a} : actor'[e] = actor[e]
  BY <1>1, LeaveStep
<1>4. \A e \in Actors : Stays(e) \/ Promise(e)'
  BY <1>1, <1>3 DEF Stays, Promise
<1>5. Apart' /\ Promises' /\ TermsStand' /\ OneEach'
  BY <1>2, <1>4, FadingKeeps
<1> QED BY <1>1, <1>2, <1>3, <1>5 DEF QueueOK

\* What takes no lock of its own: a request joins or leaves the queue, an offer
\* is withdrawn or runs out, the catalogue changes.
LEMMA OutsideKeeps ==
  ASSUME OffersInv, UNCHANGED <<holder, actor>>,
         \/ \E r \in Requests : Join(r) \/ CancelRequest(r)
         \/ \E r \in Requests, s \in Slots : Withdraw(r, s) \/ OfferExpires(r, s)
         \/ \E p \in Prices : ChangePrice(p)
  PROVE  OffersInv'
<1> USE DEF OffersInv, Typed
<1>1. LocksOK' /\ ActorsOK' /\ Held'
  BY DEF LocksOK, ActorsOK, Held
<1>2. \A e \in Actors : actor[e].pc \in {"create", "book"} => holder["mine"] = e /\ actor[e].by \in Requests
  BY DEF Held, ActorsOK, Filled, OnRequest
<1>3. QueueOK' /\ OfferOK' /\ Fades
      /\ \A e \in Actors : actor[e].pc \in {"create", "book"} => request'[actor[e].by] = request[actor[e].by]
  <2>1. ASSUME NEW r \in Requests, Join(r)
        PROVE  QueueOK' /\ OfferOK' /\ Fades
               /\ \A e \in Actors : actor[e].pc \in {"create", "book"} => request'[actor[e].by] = request[actor[e].by]
    <3>1. /\ request[r] = "none" /\ request' = [request EXCEPT ![r] = "WAITING"]
          /\ UNCHANGED <<offer, taken, price>> /\ Call
      BY <2>1 DEF Join
    <3>2. QueueOK' /\ \A q \in Requests : q # r => request'[q] = request[q]
      BY <3>1, SpentOK DEF QueueOK
    <3>3. Fades
      BY <3>1 DEF Fades, IsLive, QueueOK
    <3>4. \A e \in Actors : actor[e].pc \in {"create", "book"} => actor[e].by # r
      BY <3>1 DEF Promises, Promise
    <3> QED BY <1>2, <3>1, <3>2, <3>3, <3>4 DEF OfferOK
  <2>2. ASSUME NEW r \in Requests, CancelRequest(r)
        PROVE  QueueOK' /\ OfferOK' /\ Fades
               /\ \A e \in Actors : actor[e].pc \in {"create", "book"} => request'[actor[e].by] = request[actor[e].by]
    <3> DEFINE gone == [s \in Slots |-> IF offer[r][s].status = "OFFERED"
                                        THEN [offer[r][s] EXCEPT !.status = "WITHDRAWN"] ELSE offer[r][s]]
               state == IF request[r] = "WAITING" THEN "CANCELLED" ELSE request[r]
    <3>1. /\ holder["mine"] = Unheld /\ offer' = [offer EXCEPT ![r] = gone] /\ Call
          /\ request' = [request EXCEPT ![r] = state]
          /\ UNCHANGED <<taken, price>>
      BY <2>2 DEF CancelRequest
    <3>2. /\ state \in {"none", "FULFILLED", "CANCELLED"} /\ (state = "FULFILLED" <=> request[r] = "FULFILLED")
      BY DEF QueueOK
    <3>3. gone \in [Slots -> OfferRow] /\ \A s \in Slots :
              /\ gone[s].status # "OFFERED" /\ gone[s].cents = offer[r][s].cents /\ gone[s].terms = offer[r][s].terms
      <4> SUFFICES ASSUME NEW s \in Slots
                   PROVE  gone[s] \in OfferRow /\ gone[s].status # "OFFERED"
                          /\ gone[s].cents = offer[r][s].cents /\ gone[s].terms = offer[r][s].terms
        OBVIOUS
      <4> DEFINE o == offer[r][s]
      <4>1. o \in OfferRow
        BY DEF OfferOK
      <4>2. gone[s] = IF o.status = "OFFERED" THEN [o EXCEPT !.status = "WITHDRAWN"] ELSE o
        OBVIOUS
      <4> HIDE DEF o, gone
      <4>3. gone[s] \in OfferRow /\ gone[s].status # "OFFERED" /\ gone[s].cents = o.cents /\ gone[s].terms = o.terms
        BY <4>1, <4>2 DEF OfferRow, OfferStates
      <4> QED BY <4>3 DEF o
    <3> HIDE DEF gone, state
    <3>4. OfferOK' /\ offer'[r] = gone /\ \A q \in Requests : q # r => offer'[q] = offer[q]
      BY <3>1, <3>3 DEF OfferOK
    <3>5. QueueOK' /\ request'[r] = state /\ \A q \in Requests : q # r => request'[q] = request[q]
      BY <3>1, <3>2, SpentOK DEF QueueOK
    <3>6. Fades
      BY <3>1, <3>2, <3>3, <3>4, <3>5 DEF Fades, IsLive
    <3> QED BY <1>2, <3>1, <3>4, <3>5, <3>6, OffersAssumption
  <2>3. ASSUME NEW r \in Requests, NEW s \in Slots, Withdraw(r, s) \/ OfferExpires(r, s)
        PROVE  QueueOK' /\ OfferOK' /\ Fades /\ UNCHANGED request
    <3>1. UNCHANGED <<request, taken, price>> /\ (Call \/ UNCHANGED spent)
      BY <2>3 DEF Withdraw, OfferExpires
    <3>2. \/ offer' = [offer EXCEPT ![r][s].status = "WITHDRAWN"]
          \/ offer' = [offer EXCEPT ![r][s].open = FALSE]
      BY <2>3 DEF Withdraw, OfferExpires
    <3>3. OfferOK' /\ Fades
      BY <3>1, <3>2, EndOffer DEF OfferStates
    <3> QED BY <3>1, <3>3, SpentOK DEF QueueOK
  <2>4. ASSUME NEW p \in Prices, ChangePrice(p)
        PROVE  QueueOK' /\ OfferOK' /\ Fades /\ UNCHANGED request
    <3>1. /\ UNCHANGED <<request, offer, taken>> /\ price' = p
          /\ spent' = [spent EXCEPT !.changes = spent.changes + 1] /\ spent.changes < MaxChanges
      BY <2>4 DEF ChangePrice
    <3>2. spent \in [calls : 0..MaxCalls, changes : 0..MaxChanges]
      BY DEF QueueOK
    <3>3. spent.changes + 1 \in 0..MaxChanges
      <4>1. spent.changes \in 0..MaxChanges
        BY <3>2
      <4> QED BY <3>1, <4>1, OffersAssumption
    <3>4. spent' \in [calls : 0..MaxCalls, changes : 0..MaxChanges]
      BY <3>1, <3>2, <3>3
    <3> QED BY <3>1, <3>4, SameFades DEF QueueOK, OfferOK
  <2> QED BY <2>1, <2>2, <2>3, <2>4
<1>4. Apart' /\ Promises' /\ TermsStand' /\ OneEach'
  BY <1>3, FadingKeeps DEF Stays
<1> QED BY <1>1, <1>3, <1>4

-----------------------------------------------------------------------------
(* The other steps of a transaction.                                           *)

\* A transaction goes on, and may take the salon's offer lock.
LEMMA ProceedKeeps ==
  ASSUME OffersInv, NEW a \in Actors, NEW l \in ActorRow, Filled(l), l.with = actor[a].with,
         actor[a].pc # "rest", Do(a, l), UNCHANGED <<request, offer, taken, price, spent>>, Promise(a)',
         \/ UNCHANGED holder /\ l.pc \notin {"create", "commit"}
         \/ holder["offers"] = Unheld /\ holder' = [holder EXCEPT !["offers"] = a]
  PROVE  OffersInv'
<1> USE DEF OffersInv, Typed
<1>1. ActorsOK' /\ actor'[a] = l /\ \A e \in Actors \ {a} : actor'[e] = actor[e]
  BY ActorStep
<1>2. /\ LocksOK' /\ \A k \in {"mine", "other"} : holder'[k] = holder[k]
      /\ \/ holder' = holder /\ l.pc \notin {"create", "commit"}
         \/ holder'["offers"] = a /\ holder["offers"] = Unheld
  BY DEF LocksOK, LockNames
<1>3. Held'
  <2> SUFFICES ASSUME NEW e \in Actors, actor'[e].pc # "rest"
               PROVE  /\ holder'[actor'[e].with] = e
                      /\ actor'[e].pc \in {"create", "commit"} => holder'["offers"] = e
    BY DEF Held
  <2>1. actor'[e].with = actor[e].with /\ actor[e].with \in {"mine", "other"} /\ holder[actor[e].with] = e
    BY <1>1 DEF ActorsOK, ActorRow, Held
  <2>2. CASE e = a
    BY <1>1, <1>2, <2>1, <2>2 DEF Held
  <2>3. CASE e # a
    <3>1. actor'[e].pc \in {"create", "commit"} => holder["offers"] = e
      BY <1>1, <2>3 DEF Held
    <3> QED BY <1>2, <2>1, <3>1, OffersAssumption
  <2> QED BY <2>2, <2>3
<1>4. \A e \in Actors : Stays(e) \/ Promise(e)'
  BY <1>1 DEF Stays
<1>5. Apart' /\ Promises' /\ TermsStand' /\ OneEach'
  BY <1>4, SameFades, FadingKeeps
<1> QED BY <1>1, <1>2, <1>3, <1>5 DEF QueueOK, OfferOK

LEMMA SelectKeeps == ASSUME OffersInv, NEW a \in Actors, Select(a) PROVE OffersInv'
<1> DEFINE o == actor[a]
           pc == IF o.direct THEN "book" ELSE "offer"
           l == [o EXCEPT !.pc = pc, !.cents = price]
<1>1. CASE Abort(a)
  BY <1>1, AbortKeeps
<1>2. CASE /\ request[o.by] = "WAITING" /\ Do(a, [actor[a] EXCEPT !.pc = IF actor[a].direct THEN "book" ELSE "offer", !.cents = price])
           /\ UNCHANGED <<request, offer, taken, price, holder, spent>>
  <2>1. Do(a, l) /\ UNCHANGED <<request, offer, taken, price, holder, spent>> /\ o.pc = "select"
    BY <1>2 DEF Select
  <2>2. o \in ActorRow /\ Filled(o) /\ price \in Prices /\ pc \in {"offer", "book"} /\ ActorsOK
    BY DEF OffersInv, Typed, ActorsOK, QueueOK
  <2>3. request[o.by] = "WAITING" /\ o.pc = actor[a].pc /\ o.with = actor[a].with
    BY <1>2
  <2> HIDE DEF o, pc
  <2>4. l \in ActorRow /\ l.pc = pc /\ l.by = o.by /\ l.slot = o.slot /\ l.with = o.with /\ l.cents = price
    BY <2>2 DEF ActorRow
  <2> HIDE DEF l
  <2>5. Filled(l)
    BY <2>1, <2>2, <2>4 DEF Filled, OnRequest
  <2>6. actor'[a] = l
    BY <2>1, <2>2, <2>4, <2>5, ActorStep
  <2>7. Promise(a)'
    BY <2>1, <2>2, <2>3, <2>4, <2>6 DEF Promise
  <2> QED BY <2>1, <2>2, <2>3, <2>4, <2>5, <2>7, ProceedKeeps
<1> QED BY <1>1, <1>2 DEF Select

LEMMA InspectKeeps == ASSUME OffersInv, NEW a \in Actors, Inspect(a) PROVE OffersInv'
<1> DEFINE o == actor[a]
           l == [o EXCEPT !.pc = "create"]
<1>1. o \in ActorRow /\ Filled(o) /\ ActorsOK /\ o.pc = "respond" /\ o.by \in Requests /\ o.slot \in Slots
  BY DEF Inspect, OffersInv, Typed, ActorsOK, Filled, OnRequest
<1>2. CASE Abort(a)
  BY <1>2, AbortKeeps
<1>3. CASE \E status \in {"EXPIRED", "DECLINED"} : Closes(a, o.by, o.slot, status)
  BY <1>1, <1>3, CloseKeeps DEF OfferStates
<1>4. CASE /\ IsLive(o.by, o.slot) /\ holder["offers"] = Unheld
           /\ StillWaiting(o.by) /\ Booked(o.slot) = {}
           /\ offer[o.by][o.slot].terms = price /\ offer[o.by][o.slot].cents = price
           /\ holder' = [holder EXCEPT !["offers"] = a] /\ Step(a, "create")
           /\ UNCHANGED <<request, offer, taken, price, spent>>
  <2>1. Do(a, l)
    BY <1>4 DEF Step
  <2>2. o.with = actor[a].with /\ actor[a].pc # "rest"
    BY <1>1
  <2> HIDE DEF o
  <2>3. l \in ActorRow /\ l.pc = "create" /\ l.by = o.by /\ l.slot = o.slot /\ l.with = o.with
    BY <1>1 DEF ActorRow
  <2> HIDE DEF l
  <2>4. Filled(l) /\ o.with = "mine"
    BY <1>1, <2>3 DEF Filled, OnRequest
  <2>5. actor'[a] = l
    BY <1>1, <2>1, <2>3, <2>4, ActorStep
  <2>6. \A r \in Requests : IsLive(r, o.slot) => r = o.by
    BY <1>1, <1>4 DEF OffersInv, Apart
  <2>7. Promise(a)'
    BY <1>1, <1>4, <2>3, <2>5, <2>6 DEF Promise, StillWaiting, Booked, IsLive
  <2> QED BY <1>4, <2>1, <2>2, <2>3, <2>4, <2>7, ProceedKeeps
<1>5. \/ Abort(a)
      \/ \E status \in {"EXPIRED", "DECLINED"} : Closes(a, o.by, o.slot, status)
      \/ /\ IsLive(o.by, o.slot) /\ holder["offers"] = Unheld
         /\ StillWaiting(o.by) /\ Booked(o.slot) = {}
         /\ offer[o.by][o.slot].terms = price /\ offer[o.by][o.slot].cents = price
         /\ holder' = [holder EXCEPT !["offers"] = a] /\ Step(a, "create")
         /\ UNCHANGED <<request, offer, taken, price, spent>>
  BY Zenon DEF Inspect
<1> QED BY <1>2, <1>3, <1>4, <1>5

LEMMA InsertBookingKeeps == ASSUME OffersInv, NEW a \in Actors, InsertBooking(a) PROVE OffersInv'
<1> DEFINE o == actor[a]
           l == [o EXCEPT !.pc = "commit", !.cents = price]
<1>1. CASE Abort(a)
  BY <1>1, AbortKeeps
<1>2. CASE Fits(o.slot) /\ WithOfferLock(a) /\ Do(a, l) /\ UNCHANGED <<request, offer, taken, price, spent>>
  <2>1. o \in ActorRow /\ Filled(o) /\ ActorsOK /\ o.pc = "public" /\ price \in Prices
        /\ o.with = actor[a].with /\ actor[a].pc # "rest"
    BY DEF InsertBooking, OffersInv, Typed, ActorsOK, QueueOK
  <2>2. Do(a, l) /\ Holding(o.slot) = {} /\ UNCHANGED <<request, offer, taken, price, spent>>
        /\ holder["offers"] = Unheld /\ holder' = [holder EXCEPT !["offers"] = a]
    BY <1>2 DEF Fits, WithOfferLock
  <2> HIDE DEF o
  <2>3. l \in ActorRow /\ l.pc = "commit" /\ l.by = o.by /\ l.slot = o.slot /\ l.with = o.with /\ l.cents = price
    BY <2>1 DEF ActorRow
  <2> HIDE DEF l
  <2>4. Filled(l)
    BY <2>1, <2>3 DEF Filled, OnRequest
  <2>5. actor'[a] = l
    BY <2>1, <2>2, <2>3, <2>4, ActorStep
  <2>6. Promise(a)'
    BY <2>2, <2>3, <2>5 DEF Promise, Holding, IsLive
  <2> QED BY <2>1, <2>2, <2>3, <2>4, <2>6, ProceedKeeps
<1> QED BY <1>1, <1>2 DEF InsertBooking

\* A new offer, with the salon's offer lock free.
LEMMA AddOffer ==
  ASSUME OffersInv, NEW a \in Actors, NEW r \in Requests, NEW s \in Slots, NEW row \in OfferRow,
         GuardsOffer(r, s), offer' = [offer EXCEPT ![r][s] = row], Leave(a),
         UNCHANGED <<request, taken, price, spent>>, holder["offers"] = Unheld
  PROVE  OffersInv'
<1> USE DEF OffersInv, Typed
<1>1. /\ OfferOK' /\ offer'[r][s] = row
      /\ \A q \in Requests, t \in Slots : q # r \/ t # s => offer'[q][t] = offer[q][t]
  BY DEF OfferOK
<1>2. /\ ActorsOK' /\ LocksOK' /\ Held'
      /\ actor'[a].pc = "rest" /\ \A e \in Actors \ {a} : actor'[e] = actor[e]
  BY LeaveStep
<1>3. /\ \A q \in Requests : ~IsLive(q, s)
      /\ \A b \in taken : b.slot # s
  BY DEF GuardsOffer, Holding, Booked
<1>4. \A q \in Requests, t \in Slots : q # r \/ t # s => (IsLive(q, t)' <=> IsLive(q, t))
  BY <1>1 DEF IsLive
<1>5. Apart'
  <2> SUFFICES ASSUME NEW t \in Slots
               PROVE  /\ \A b, c \in taken : b.slot = t /\ c.slot = t => b = c
                      /\ \A p, q \in Requests : IsLive(p, t)' /\ IsLive(q, t)' => p = q
                      /\ \A b \in taken, q \in Requests : b.slot = t => ~IsLive(q, t)'
    BY DEF Apart
  <2>1. CASE t = s
    BY <1>3, <1>4, <2>1 DEF Apart
  <2>2. CASE t # s
    BY <1>4, <2>2 DEF Apart
  <2> QED BY <2>1, <2>2
<1>6. Promises'
  <2> SUFFICES ASSUME NEW e \in Actors PROVE Promise(e)'
    BY DEF Promises
  <2>1. CASE e = a
    BY <1>2, <2>1 DEF Promise
  <2>2. CASE e # a
    <3>1. actor'[e] = actor[e] /\ actor[e].pc \notin {"create", "commit"} /\ Promise(e)
      BY <1>2, <2>2, OffersAssumption DEF Held, Promises
    <3> QED BY <3>1 DEF Promise
  <2> QED BY <2>1, <2>2
<1> QED BY <1>1, <1>2, <1>5, <1>6 DEF QueueOK, TermsStand, OneEach

LEMMA InsertOfferKeeps == ASSUME OffersInv, NEW a \in Actors, InsertOffer(a) PROVE OffersInv'
<1>1. CASE Abort(a)
  BY <1>1, AbortKeeps
<1>2. ASSUME NEW r, NEW s, r = actor[a].by, s = actor[a].slot, GuardsOffer(r, s), Leave(a),
             offer' = [offer EXCEPT ![r][s] = [status |-> "OFFERED", open |-> TRUE,
                                               cents |-> actor[a].cents, terms |-> price]],
             UNCHANGED <<request, taken, price, spent>>
      PROVE  OffersInv'
  <2>1. r \in Requests /\ s \in Slots /\ actor[a].cents \in Prices /\ price \in Prices /\ holder["offers"] = Unheld
    BY <1>2 DEF OffersInv, Typed, InsertOffer, ActorsOK, Filled, OnRequest, QueueOK
  <2>2. PICK row \in OfferRow : offer' = [offer EXCEPT ![r][s] = row]
    BY <1>2, <2>1 DEF OfferRow, OfferStates
  <2> QED BY <1>2, <2>1, <2>2, AddOffer
<1> QED BY <1>1, <1>2 DEF InsertOffer

\* A booking of a slot nobody has, by a transaction that no other one can
\* overtake: the offers only end, one request at most becomes fulfilled.
LEMMA AddBooking ==
  ASSUME OffersInv, NEW a \in Actors, NEW b \in BookingRow, Leave(a), UNCHANGED <<price, spent>>,
         taken' = taken \cup {b}, OfferOK', holder["offers"] \in {a, Unheld},
         \A c \in taken : c.slot # b.slot,
         \A q \in Requests, t \in Slots :
            /\ IsLive(q, t)' => IsLive(q, t) /\ t # b.slot
            /\ offer'[q][t].cents = offer[q][t].cents /\ offer'[q][t].terms = offer[q][t].terms,
         b.agreed # 0 => b.paid = b.agreed,
         \/ b.by = 0 /\ UNCHANGED request
         \/ /\ b.by \in Requests /\ request[b.by] = "WAITING" /\ holder["mine"] = a
            /\ request' = [request EXCEPT ![b.by] = "FULFILLED"]
  PROVE  OffersInv'
<1> USE DEF OffersInv, Typed
<1>1. /\ ActorsOK' /\ LocksOK' /\ Held'
      /\ actor'[a].pc = "rest" /\ \A e \in Actors \ {a} : actor'[e] = actor[e]
  BY LeaveStep
<1>2. QueueOK'
  BY DEF QueueOK
<1>3. Apart'
  <2> SUFFICES ASSUME NEW t \in Slots
               PROVE  /\ \A c, d \in taken \cup {b} : c.slot = t /\ d.slot = t => c = d
                      /\ \A p, q \in Requests : IsLive(p, t)' /\ IsLive(q, t)' => p = q
                      /\ \A c \in taken \cup {b}, q \in Requests : c.slot = t => ~IsLive(q, t)'
    BY DEF Apart
  <2>1. \A c, d \in taken \cup {b} : c.slot = t /\ d.slot = t => c = d
    BY DEF Apart
  <2>2. \A p, q \in Requests : IsLive(p, t)' /\ IsLive(q, t)' => p = q
    BY DEF Apart
  <2>3. \A c \in taken \cup {b}, q \in Requests : c.slot = t => ~IsLive(q, t)'
    BY DEF Apart
  <2> QED BY <2>1, <2>2, <2>3
<1>4. Promises'
  <2> SUFFICES ASSUME NEW e \in Actors PROVE Promise(e)'
    BY DEF Promises
  <2>1. CASE e = a
    BY <1>1, <2>1 DEF Promise
  <2>2. CASE e # a
    <3>1. actor'[e] = actor[e] /\ actor[e].pc \notin {"create", "commit"} /\ Promise(e)
      BY <1>1, <2>2, OffersAssumption DEF Held, Promises
    <3>2. actor[e].pc = "book" => request'[actor[e].by] = "WAITING"
      <4> SUFFICES ASSUME actor[e].pc = "book" PROVE request'[actor[e].by] = "WAITING"
        OBVIOUS
      <4>1. holder["mine"] = e /\ request[actor[e].by] = "WAITING"
        BY <3>1 DEF Held, ActorsOK, Filled, OnRequest, Promise
      <4>2. UNCHANGED request
        BY <2>2, <4>1
      <4> QED BY <4>1, <4>2
    <3> QED BY <3>1, <3>2 DEF Promise
  <2> QED BY <2>1, <2>2
<1>5. TermsStand'
  BY DEF TermsStand
<1>6. OneEach'
  <2>1. CASE b.by = 0 /\ UNCHANGED request
    BY <2>1, OffersAssumption DEF OneEach
  <2>2. CASE /\ b.by \in Requests /\ request[b.by] = "WAITING"
             /\ request' = [request EXCEPT ![b.by] = "FULFILLED"]
    <3>1. request'[b.by] = "FULFILLED" /\ \A q \in Requests : q # b.by => request'[q] = request[q]
      BY <2>2 DEF QueueOK
    <3>2. \A c \in taken : c.by # b.by
      BY <2>2 DEF OneEach
    <3>3. \A r \in Requests : request'[r] = "FULFILLED" => \E c \in taken \cup {b} : c.by = r
      BY <3>1 DEF OneEach
    <3>4. \A c \in taken \cup {b} : c.by \in Requests => request'[c.by] = "FULFILLED"
      BY <3>1 DEF OneEach
    <3>5. \A c, d \in taken \cup {b} : c.by = d.by /\ c.by \in Requests => c = d
      BY <3>2 DEF OneEach
    <3> QED BY <3>3, <3>4, <3>5 DEF OneEach
  <2> QED BY <2>1, <2>2
<1> QED BY <1>1, <1>2, <1>3, <1>4, <1>5, <1>6

LEMMA BookDirectlyKeeps == ASSUME OffersInv, NEW a \in Actors, BookDirectly(a) PROVE OffersInv'
<1>1. CASE Abort(a)
  BY <1>1, AbortKeeps
<1>2. ASSUME NEW r, NEW s, r = actor[a].by, s = actor[a].slot, Fits(s), Leave(a), UNCHANGED <<offer, price, spent>>,
             taken' = taken \cup {[slot |-> s, by |-> r, paid |-> price, agreed |-> 0]},
             request' = [request EXCEPT ![r] = IF request[r] = "WAITING" THEN "FULFILLED" ELSE request[r]]
      PROVE  OffersInv'
  <2>1. r \in Requests /\ s \in Slots /\ price \in Prices /\ holder["offers"] = Unheld
        /\ holder["mine"] = a /\ request[r] = "WAITING" /\ OfferOK
    <3>1. actor[a].pc = "book" /\ Filled(actor[a]) /\ Promise(a) /\ OfferOK /\ price \in Prices /\ holder["offers"] = Unheld
      BY DEF OffersInv, Typed, QueueOK, BookDirectly, ActorsOK, Promises
    <3>2. r \in Requests /\ s \in Slots /\ holder["mine"] = a
      BY <1>2, <3>1 DEF OffersInv, Held, Filled, OnRequest
    <3>3. request[actor[a].by] = "WAITING"
      BY <3>1 DEF Promise
    <3> QED BY <1>2, <3>1, <3>2, <3>3
  <2> DEFINE b == [slot |-> s, by |-> r, paid |-> price, agreed |-> 0]
  <2>2. b \in BookingRow /\ taken' = taken \cup {b} /\ b.slot = s /\ b.by = r /\ b.agreed = 0
    BY <1>2, <2>1 DEF BookingRow
  <2> HIDE DEF b
  <2>3. /\ \A c \in taken : c.slot # s
        /\ \A q \in Requests : ~IsLive(q, s)
    BY <1>2 DEF Fits, Booked, Holding
  <2>4. \A q \in Requests, t \in Slots :
            /\ IsLive(q, t)' => IsLive(q, t) /\ t # b.slot
            /\ offer'[q][t].cents = offer[q][t].cents /\ offer'[q][t].terms = offer[q][t].terms
    BY <1>2, <2>2, <2>3 DEF IsLive
  <2>5. request' = [request EXCEPT ![b.by] = "FULFILLED"] /\ OfferOK'
    BY <1>2, <2>1, <2>2 DEF OfferOK
  <2>6. /\ b.by \in Requests /\ request[b.by] = "WAITING" /\ holder["mine"] = a
        /\ holder["offers"] \in {a, Unheld} /\ \A c \in taken : c.slot # b.slot
    BY <2>1, <2>2, <2>3
  <2> QED BY <1>2, <2>2, <2>4, <2>5, <2>6, AddBooking
<1> QED BY <1>1, <1>2 DEF BookDirectly

LEMMA CreateAcceptedKeeps == ASSUME OffersInv, NEW a \in Actors, CreateAccepted(a) PROVE OffersInv'
<1>1. CASE Abort(a)
  BY <1>1, AbortKeeps
<1>2. ASSUME NEW r, NEW s, r = actor[a].by, s = actor[a].slot, Verified(offer[r][s]), Leave(a), UNCHANGED <<price, spent>>,
             taken' = taken \cup {[slot |-> s, by |-> r, paid |-> price, agreed |-> offer[r][s].cents]},
             offer' = [offer EXCEPT ![r][s].status = "ACCEPTED"],
             request' = [request EXCEPT ![r] = IF request[r] = "WAITING" THEN "FULFILLED" ELSE request[r]]
      PROVE  OffersInv'
  <2>1. r \in Requests /\ s \in Slots /\ price \in Prices /\ holder["offers"] = a
        /\ holder["mine"] = a /\ request[r] = "WAITING" /\ OfferOK
    <3>1. actor[a].pc = "create" /\ Filled(actor[a]) /\ Promise(a) /\ OfferOK /\ price \in Prices
      BY DEF OffersInv, Typed, QueueOK, CreateAccepted, ActorsOK, Promises
    <3>2. r \in Requests /\ s \in Slots /\ holder["mine"] = a /\ holder["offers"] = a
      BY <1>2, <3>1 DEF OffersInv, Held, Filled, OnRequest
    <3>3. request[actor[a].by] = "WAITING"
      BY <3>1 DEF Promise
    <3> QED BY <1>2, <3>1, <3>2, <3>3
  <2>2. /\ \A c \in taken : c.slot # s
        /\ \A q \in Requests : IsLive(q, s) => q = r
        /\ offer[r][s].cents = price
    <3>1. actor[a].pc = "create" /\ Promise(a)
      BY DEF OffersInv, CreateAccepted, Promises
    <3>2. /\ \A c \in taken : c.slot # actor[a].slot
          /\ \A q \in Requests : IsLive(q, actor[a].slot) => q = actor[a].by
          /\ offer[actor[a].by][actor[a].slot].cents = offer[actor[a].by][actor[a].slot].terms
      BY <3>1 DEF Promise
    <3> QED BY <1>2, <3>2 DEF Verified
  <2> DEFINE b == [slot |-> s, by |-> r, paid |-> price, agreed |-> offer[r][s].cents]
  <2>3. b \in BookingRow /\ taken' = taken \cup {b} /\ b.slot = s /\ b.by = r /\ b.paid = b.agreed
    BY <1>2, <2>1, <2>2 DEF BookingRow
  <2> HIDE DEF b
  <2> DEFINE o == offer[r][s]
             row == [o EXCEPT !.status = "ACCEPTED"]
  <2>4. offer' = [offer EXCEPT ![r][s] = row] /\ o \in OfferRow /\ o = offer[r][s]
    BY <1>2, <2>1 DEF OfferOK
  <2> HIDE DEF o
  <2>5. row \in OfferRow /\ row.status = "ACCEPTED" /\ row.cents = o.cents /\ row.terms = o.terms
    BY <2>4 DEF OfferRow, OfferStates
  <2> HIDE DEF row
  <2>6. /\ OfferOK' /\ offer'[r][s] = row
        /\ \A q \in Requests, t \in Slots : q # r \/ t # s => offer'[q][t] = offer[q][t]
    BY <2>1, <2>4, <2>5 DEF OfferOK
  <2>7. ASSUME NEW q \in Requests, NEW t \in Slots
        PROVE  /\ IsLive(q, t)' => IsLive(q, t) /\ t # b.slot
               /\ offer'[q][t].cents = offer[q][t].cents /\ offer'[q][t].terms = offer[q][t].terms
    <3>1. CASE q = r /\ t = s
      BY <2>4, <2>5, <2>6, <3>1 DEF IsLive
    <3>2. CASE ~(q = r /\ t = s)
      BY <2>2, <2>3, <2>6, <3>2 DEF IsLive
    <3> QED BY <3>1, <3>2
  <2>8. request' = [request EXCEPT ![b.by] = "FULFILLED"]
    BY <1>2, <2>1, <2>3
  <2>9. /\ b.by \in Requests /\ request[b.by] = "WAITING" /\ holder["mine"] = a
        /\ holder["offers"] \in {a, Unheld} /\ \A c \in taken : c.slot # b.slot
    BY <2>1, <2>2, <2>3
  <2> QED BY <1>2, <2>3, <2>6, <2>7, <2>8, <2>9, AddBooking
<1> QED BY <1>1, <1>2 DEF CreateAccepted

LEMMA CommitBookingKeeps == ASSUME OffersInv, NEW a \in Actors, CommitBooking(a) PROVE OffersInv'
<1>1. CASE Abort(a)
  BY <1>1, AbortKeeps
<1>2. ASSUME NEW s, s = actor[a].slot, Booked(s) = {}, Leave(a), UNCHANGED <<request, offer, price, spent>>,
             taken' = taken \cup {[slot |-> s, by |-> 0, paid |-> actor[a].cents, agreed |-> 0]}
      PROVE  OffersInv'
  <2>1. s \in Slots /\ actor[a].cents \in Prices /\ holder["offers"] = a /\ OfferOK
        /\ \A q \in Requests : ~IsLive(q, s)
    <3>1. actor[a].pc = "commit" /\ Filled(actor[a]) /\ Promise(a) /\ OfferOK
      BY DEF OffersInv, Typed, CommitBooking, ActorsOK, Promises
    <3>2. s \in Slots /\ actor[a].cents \in Prices /\ holder["offers"] = a
      BY <1>2, <3>1 DEF OffersInv, Held, Filled
    <3>3. \A q \in Requests : ~IsLive(q, actor[a].slot)
      BY <3>1 DEF Promise
    <3> QED BY <1>2, <3>1, <3>2, <3>3
  <2> DEFINE b == [slot |-> s, by |-> 0, paid |-> actor[a].cents, agreed |-> 0]
  <2>2. b \in BookingRow /\ taken' = taken \cup {b} /\ b.slot = s /\ b.by = 0 /\ b.agreed = 0
    BY <1>2, <2>1 DEF BookingRow
  <2> HIDE DEF b
  <2>3. \A c \in taken : c.slot # b.slot
    BY <1>2, <2>2 DEF Booked
  <2>4. \A q \in Requests, t \in Slots :
            /\ IsLive(q, t)' => IsLive(q, t) /\ t # b.slot
            /\ offer'[q][t].cents = offer[q][t].cents /\ offer'[q][t].terms = offer[q][t].terms
    BY <1>2, <2>1, <2>2 DEF IsLive
  <2>5. OfferOK'
    BY <1>2, <2>1 DEF OfferOK
  <2> QED BY <1>2, <2>1, <2>2, <2>3, <2>4, <2>5, AddBooking
<1> QED BY <1>1, <1>2 DEF CommitBooking

-----------------------------------------------------------------------------
LEMMA InitOffersInv == OffersInit => OffersInv
<1> SUFFICES ASSUME OffersInit PROVE OffersInv
  OBVIOUS
<1> DEFINE none == NoOffer
           rest == AtRest
<1>1. none \in OfferRow /\ none.status # "OFFERED"
  BY DEF NoOffer, OfferRow, OfferStates
<1>2. rest \in ActorRow /\ rest.pc = "rest" /\ Filled(rest)
  BY AtRestOK
<1>3. /\ offer = [r \in Requests |-> [s \in Slots |-> none]] /\ actor = [a \in Actors |-> rest]
      /\ taken = {} /\ request = [r \in Requests |-> "none"] /\ price \in Prices
      /\ holder = [l \in LockNames |-> Unheld]
  BY DEF OffersInit, LockNames
<1> HIDE DEF none, rest
<1>4. spent \in [calls : 0..MaxCalls, changes : 0..MaxChanges]
  BY OffersAssumption DEF OffersInit
<1>5. Typed
  BY <1>1, <1>2, <1>3, <1>4 DEF Typed, QueueOK, OfferOK, LocksOK, ActorsOK
<1>6. Held /\ Promises
  BY <1>2, <1>3 DEF Held, Promises, Promise
<1>7. Apart /\ TermsStand /\ OneEach
  BY <1>1, <1>3 DEF Apart, TermsStand, OneEach, IsLive
<1> QED BY <1>5, <1>6, <1>7 DEF OffersInv

LEMMA NextOffersInv == OffersInv /\ [OffersNext]_offerVars => OffersInv'
<1> SUFFICES ASSUME OffersInv, [OffersNext]_offerVars PROVE OffersInv'
  OBVIOUS
<1>1. ASSUME NEW r \in Requests, Join(r) \/ CancelRequest(r) PROVE OffersInv'
  BY <1>1, OutsideKeeps DEF Join, CancelRequest
<1>2. ASSUME NEW r \in Requests, NEW s \in Slots, Withdraw(r, s) \/ OfferExpires(r, s) PROVE OffersInv'
  BY <1>2, OutsideKeeps DEF Withdraw, OfferExpires
<1>3. ASSUME NEW p \in Prices, ChangePrice(p) PROVE OffersInv'
  BY <1>3, OutsideKeeps DEF ChangePrice
<1>4. ASSUME NEW a \in Actors, NEW s \in Slots, NEW with \in {"mine", "other"}, BookPublicly(a, s, with)
      PROVE  OffersInv'
  BY <1>4, BeginKeeps DEF BookPublicly
<1>5. ASSUME NEW a \in Actors, NEW r \in Requests, NEW s \in Slots, Respond(a, r, s) PROVE OffersInv'
  BY <1>5, BeginKeeps DEF Respond
<1>6. ASSUME NEW a \in Actors, NEW r \in Requests, NEW s \in Slots, NEW direct \in BOOLEAN, Promote(a, r, s, direct)
      PROVE  OffersInv'
  BY <1>6, BeginKeeps DEF Promote
<1>7. ASSUME NEW a \in Actors,
             \/ Select(a) \/ InsertOffer(a) \/ BookDirectly(a) \/ Inspect(a) \/ CreateAccepted(a)
             \/ InsertBooking(a) \/ CommitBooking(a) \/ Dies(a)
      PROVE  OffersInv'
  BY <1>7, SelectKeeps, InsertOfferKeeps, BookDirectlyKeeps, InspectKeeps, CreateAcceptedKeeps,
     InsertBookingKeeps, CommitBookingKeeps, AbortKeeps DEF Dies
<1>8. CASE UNCHANGED offerVars
  BY <1>8 DEF offerVars, OffersInv, Typed, QueueOK, OfferOK, LocksOK, ActorsOK, Held, Apart, IsLive, Promises, Promise,
              TermsStand, OneEach
<1> QED BY <1>1, <1>2, <1>3, <1>4, <1>5, <1>6, <1>7, <1>8 DEF OffersNext

LEMMA OffersInvariant == OffersSpec => []OffersInv
BY InitOffersInv, NextOffersInv, PTL DEF OffersSpec

-----------------------------------------------------------------------------
\* The rows, the locks and the open transactions keep their types.
THEOREM OffersTypeCorrect == OffersSpec => []OffersTypeOK
<1>1. OffersInv => OffersTypeOK
  BY TypedTypeOK DEF OffersInv
<1> QED BY <1>1, OffersInvariant, PTL

LEMMA AtMostOne ==
  ASSUME NEW S, \A x, y \in S : x = y
  PROVE  IsFiniteSet(S) /\ Cardinality(S) = IF S = {} THEN 0 ELSE 1
<1>1. CASE S = {}
  BY <1>1, FS_EmptySet
<1>2. ASSUME NEW x \in S PROVE IsFiniteSet(S) /\ Cardinality(S) = 1
  <2>1. S = {x}
    OBVIOUS
  <2> QED BY <2>1, FS_Singleton
<1> QED BY <1>1, <1>2

\* A slot is held by one booking or one open offer, whatever the professional:
\* booking_offer_guard refuses the rest while it keeps the salon's offer lock.
THEOREM SlotHeldForOne == OffersSpec => []HeldForOne
<1>1. OffersInv => HeldForOne
  <2> SUFFICES ASSUME OffersInv, NEW s \in Slots
               PROVE  Cardinality(Booked(s)) + Cardinality(Holding(s)) <= 1
    BY DEF HeldForOne
  <2>1. \A b, c \in Booked(s) : b = c
    BY DEF OffersInv, Apart, Booked
  <2>2. \A q, r \in Holding(s) : q = r
    BY DEF OffersInv, Apart, Holding
  <2>3. Booked(s) = {} \/ Holding(s) = {}
    BY DEF OffersInv, Apart, Booked, Holding
  <2>4. Cardinality(Booked(s)) = IF Booked(s) = {} THEN 0 ELSE 1
    BY <2>1, AtMostOne
  <2>5. Cardinality(Holding(s)) = IF Holding(s) = {} THEN 0 ELSE 1
    BY <2>2, AtMostOne
  <2> QED BY <2>3, <2>4, <2>5
<1> QED BY <1>1, OffersInvariant, PTL

\* The price of an accepted offer is the price that is paid: the terms are
\* compared again once the booking has been written (respondToOffer).
THEOREM AcceptedTermsStand == OffersSpec => []TermsStand
<1>1. OffersInv => TermsStand
  BY DEF OffersInv
<1> QED BY <1>1, OffersInvariant, PTL

\* A request is fulfilled by one booking, made directly or from an offer: the
\* professional's lock lets one of them at a time find it waiting.
THEOREM RequestFulfilledOnce == OffersSpec => []FulfilledOnce
<1>1. OffersInv => FulfilledOnce
  <2> SUFFICES ASSUME OffersInv, NEW r \in Requests
               PROVE  Cardinality({b \in taken : b.by = r}) = IF request[r] = "FULFILLED" THEN 1 ELSE 0
    BY DEF FulfilledOnce
  <2> DEFINE mine == {b \in taken : b.by = r}
  <2>1. \A b, c \in mine : b = c
    BY DEF OffersInv, OneEach
  <2>2. mine = {} <=> request[r] # "FULFILLED"
    BY DEF OffersInv, OneEach
  <2> HIDE DEF mine
  <2>3. Cardinality(mine) = IF mine = {} THEN 0 ELSE 1
    BY <2>1, AtMostOne
  <2>4. Cardinality(mine) = IF request[r] = "FULFILLED" THEN 1 ELSE 0
    BY <2>2, <2>3
  <2> QED BY <2>4 DEF mine
<1> QED BY <1>1, OffersInvariant, PTL
=============================================================================
