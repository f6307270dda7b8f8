------------------------------ MODULE Credits -------------------------------
(* The prepaid credit of the Secretary: one pack bought through a checkout     *)
(* (src/src/lib/billing/credits-provider.ts), the ledger its payments and the  *)
(* requests move (src/src/lib/secretary-credits.ts), the decision of a payment *)
(* (src/src/lib/secretary-credits-rules.ts). The price of the pack is counted  *)
(* in units, so that a partial refund is its share of the pack.                *)
EXTENDS Integers, FiniteSets, FiniteSetsExt

CONSTANTS Buyers,        \* clicks and retries that prepare the checkout
          Handlers,      \* webhook calls and reconciliations
          Requesters,    \* conversations that use the credit at the same time
          Payments,      \* payments made through the one checkout
          Pack,          \* units of the pack
          FreeUnits,     \* the month's free allowance
          Cost,          \* units one model call takes
          Nobody,        \* no payment
          CreditScenes   \* bounds on what happens

VARIABLES purchase,      \* the row SecretaryCreditPurchase
          ledger,        \* sums over SecretaryCreditLedger
          calls,         \* finished model calls the ledger has not charged
          buyer, handler, requester,
          prefs,         \* preferences the provider holds or is about to
          payment,       \* the payments as the provider has them
          notices,       \* payments whose last change is not acknowledged yet
          expired,       \* the checkout's time and its hour of grace are over
          budget         \* what the scene still allows

creditVars == <<purchase, ledger, calls, buyer, handler, requester, prefs, payment, notices, expired, budget>>

PurchaseStates == {"CREATED", "AWAITING_PAYMENT", "PAID", "EXPIRED", "REFUNDED", "REVIEW"}
PaymentStates == {"none", "pending", "approved", "refunded", "charged_back"}
\* What validateCreditPayment makes of a payment; back is the share refunded.
Paying == [status : PaymentStates, back : 0..Pack, odd : BOOLEAN]
NotPaid == [status |-> "none", back |-> 0, odd |-> FALSE]
CreditScene == [open : BOOLEAN, clicks : Nat, pays : Nat, looks : Nat, requests : Nat, grants : Nat, faults : Nat]

ASSUME CreditsAssumption ==
    /\ Pack \in Nat \ {0} /\ FreeUnits \in Nat /\ Cost \in Nat \ {0}
    /\ IsFiniteSet(Payments) /\ Nobody \notin Payments
    /\ IsFiniteSet(Requesters)
    /\ CreditScenes \subseteq CreditScene

CreditsTypeOK ==
    /\ purchase \in [exists : BOOLEAN, state : PurchaseStates, started : BOOLEAN,
                     open : BOOLEAN, own : Payments \cup {Nobody}]
    /\ ledger \in [balance : Int, free : 0..FreeUnits, credited : [Payments -> 0..Pack],
                   reversed : [Payments -> 0..Pack]]
    /\ calls \in Nat
    /\ buyer \in [Buyers -> {"idle", "reserve", "post", "search", "record"}]
    /\ handler \in [Handlers -> [pc : {"idle", "apply", "close"}, seen : [Payments -> Paying],
                                 todo : SUBSET Payments, closes : BOOLEAN, hook : BOOLEAN]]
    /\ requester \in [Requesters -> {"idle", "charge", "check", "call", "finished"}]
    /\ prefs \in Nat /\ payment \in [Payments -> Paying] /\ notices \in SUBSET Payments
    /\ expired \in BOOLEAN /\ budget \in CreditScene

\* Idle processes are interchangeable: one of them takes what comes next.
IsFirst(p, idle) == p = CHOOSE q \in idle : TRUE

Allow(what) == budget[what] > 0 /\ budget' = [budget EXCEPT ![what] = @ - 1]

-----------------------------------------------------------------------------
(* The rules (secretary-credits-rules.ts).                                     *)

\* reversedUnits
ReversedUnits(pay) ==
    IF pay.status = "charged_back" \/ (pay.status = "refunded" /\ pay.back = 0) THEN Pack ELSE pay.back

Net(x) == ledger.credited[x] - ledger.reversed[x]
Moves(pay) == pay.status \in {"approved", "refunded", "charged_back"}

\* As IsDuplicate, for a purchase that is paid now.
IsDuplicate_WhilePaid(x) == purchase.own \notin {Nobody, x} /\ purchase.state = "PAID"

\* decideCreditPayment: another payment than the purchase's own goes to review.
IsDuplicate(x) == purchase.own \notin {Nobody, x}

\* As ToCredit, refusing a purchase that expired.
ToCredit_BeforeExpiry(x, pay) ==
    IF ledger.credited[x] = 0 /\ purchase.state # "EXPIRED" THEN Pack - ReversedUnits(pay) ELSE 0

\* decideCreditPayment: what is still to be credited or reversed of payment x.
ToCredit(x, pay) ==
    IF ledger.credited[x] = 0 THEN Pack - ReversedUnits(pay) ELSE 0

ToReverse(x, pay) ==
    IF ledger.credited[x] > 0 THEN Max({0, Net(x) - (Pack - ReversedUnits(pay))}) ELSE 0

\* As StateAfter, leaving an expired purchase expired.
StateAfter_Expired(pay) ==
    IF purchase.state \in {"REVIEW", "EXPIRED"} THEN purchase.state
    ELSE IF ReversedUnits(pay) = Pack \/ purchase.state = "REFUNDED" THEN "REFUNDED" ELSE "PAID"

\* A purchase in review stays so; one refunded never becomes paid.
StateAfter(pay) ==
    IF purchase.state = "REVIEW" THEN "REVIEW"
    ELSE IF ReversedUnits(pay) = Pack \/ purchase.state = "REFUNDED" THEN "REFUNDED" ELSE "PAID"

\* splitCost and freeLeft
FreeLeft == FreeUnits - ledger.free
Spent(total) == LET free == Min({total, FreeLeft})
                IN  [ledger EXCEPT !.free = @ + free, !.balance = @ - (total - free)]

\* canStartRequest
CanStart == ledger.balance + FreeLeft > 0

-----------------------------------------------------------------------------
(* Buying: one purchase for each key, one checkout for each purchase.          *)

ToBuyer(b, pc) == buyer' = [buyer EXCEPT ![b] = pc]

\* createCreditPurchase, and prepareCreditCheckout up to its first transaction.
Buy(b) ==
    /\ buyer[b] = "idle" /\ IsFirst(b, {c \in Buyers : buyer[c] = "idle"}) /\ Allow("clicks")
    /\ purchase' = [purchase EXCEPT !.exists = TRUE]
    /\ ToBuyer(b, IF purchase.open \/ expired THEN "idle" ELSE "reserve")
    /\ UNCHANGED <<ledger, calls, handler, requester, prefs, payment, notices, expired>>

\* As Reservable, trusting the recorded checkout.
Reservable_Unopened == ~purchase.open

\* One checkout is ever asked for.
Reservable == ~purchase.started

ReserveCheckout(b) ==
    /\ buyer[b] = "reserve"
    /\ \/ /\ purchase.state # "CREATED" \/ purchase.open
          /\ ToBuyer(b, "idle") /\ UNCHANGED purchase
       \/ /\ purchase.state = "CREATED" /\ ~purchase.open /\ Reservable
          /\ ToBuyer(b, "post") /\ purchase' = [purchase EXCEPT !.started = TRUE]
       \/ /\ purchase.state = "CREATED" /\ ~purchase.open /\ ~Reservable
          /\ ToBuyer(b, "search") /\ UNCHANGED purchase
    /\ UNCHANGED <<ledger, calls, handler, requester, prefs, payment, notices, expired, budget>>

\* The provider makes the preference whether or not its answer comes back.
CreatePreference(b) ==
    /\ buyer[b] = "post"
    /\ prefs' = prefs + 1
    /\ ToBuyer(b, "record")
    /\ UNCHANGED <<purchase, ledger, calls, handler, requester, payment, notices, expired, budget>>

FindPreference(b) ==
    /\ buyer[b] = "search"
    /\ ToBuyer(b, IF prefs = 1 THEN "record" ELSE "idle")
    /\ UNCHANGED <<purchase, ledger, calls, handler, requester, prefs, payment, notices, expired, budget>>

RecordCheckout(b) ==
    /\ buyer[b] = "record"
    /\ purchase' = IF purchase.state = "CREATED"
                   THEN [purchase EXCEPT !.open = TRUE, !.state = "AWAITING_PAYMENT"] ELSE purchase
    /\ ToBuyer(b, "idle")
    /\ UNCHANGED <<ledger, calls, handler, requester, prefs, payment, notices, expired, budget>>

-----------------------------------------------------------------------------
(* Payments, as the provider has them and as the app reads them.               *)

\* The provider moves a payment and owes a notification of it.
Pay(x, pay) ==
    /\ Allow("pays")
    /\ payment' = [payment EXCEPT ![x] = pay]
    /\ notices' = notices \cup {x}
    /\ UNCHANGED <<purchase, ledger, calls, buyer, handler, requester, prefs, expired>>

\* The checkout expires by the provider's clock, which is not the app's.
\* A payment of another amount is a fault the scene has to allow.
StartPayment(x, odd) ==
    /\ odd => budget.faults > 0
    /\ purchase.open /\ payment[x] = NotPaid
    /\ \E status \in {"pending", "approved"} : Pay(x, [status |-> status, back |-> 0, odd |-> odd])

ApprovePayment(x) ==
    payment[x].status = "pending" /\ Pay(x, [payment[x] EXCEPT !.status = "approved"])

\* A refund grows; one of the whole price, or a chargeback, is the last change.
RefundPayment(x, back) ==
    /\ payment[x].status \in {"approved", "refunded"} /\ back > payment[x].back
    /\ Pay(x, [payment[x] EXCEPT !.status = "refunded", !.back = back])

ChargeBack(x) ==
    payment[x].status = "approved" /\ Pay(x, [payment[x] EXCEPT !.status = "charged_back"])

Reading(h, todo, hook) ==
    handler' = [handler EXCEPT ![h] =
        [pc |-> IF todo = {} THEN "close" ELSE "apply", seen |-> payment, todo |-> todo, hook |-> hook,
         closes |-> ~hook /\ expired /\ \A x \in Payments : payment[x].status \notin {"approved", "pending"}]]
NoHandler == [pc |-> "idle", seen |-> [x \in Payments |-> NotPaid], todo |-> {}, closes |-> FALSE, hook |-> FALSE]

IsFree(h) == handler[h].pc = "idle" /\ IsFirst(h, {g \in Handlers : handler[g].pc = "idle"})

\* receiveCreditPayment: the payment is read again, then applied.
ReceivePayment(h, x) ==
    /\ IsFree(h) /\ x \in notices
    /\ Reading(h, {x}, TRUE)
    /\ UNCHANGED <<purchase, ledger, calls, buyer, requester, prefs, payment, notices, expired, budget>>

\* reconcileCreditPurchase: every payment of the purchase is read at once.
Reconcile(h) ==
    /\ IsFree(h) /\ purchase.open /\ Allow("looks")
    /\ Reading(h, {x \in Payments : payment[x].status # "none"}, FALSE)
    /\ UNCHANGED <<purchase, ledger, calls, buyer, requester, prefs, payment, notices, expired>>

\* applyOrReview: a payment that does not match sends an unsettled purchase to review.
Applied(x, pay) ==
    CASE pay.odd ->
            /\ purchase' = IF purchase.state \in {"PAID", "REFUNDED"} THEN purchase
                           ELSE [purchase EXCEPT !.state = "REVIEW"]
            /\ UNCHANGED ledger
      [] ~pay.odd /\ ~Moves(pay) -> UNCHANGED <<purchase, ledger>>
      [] ~pay.odd /\ Moves(pay) /\ IsDuplicate(x) ->
            purchase' = [purchase EXCEPT !.state = "REVIEW"] /\ UNCHANGED ledger
      [] OTHER ->
            /\ purchase' = [purchase EXCEPT !.state = StateAfter(pay), !.own = x]
            /\ ledger' = [ledger EXCEPT !.credited[x] = @ + ToCredit(x, pay),
                                        !.reversed[x] = @ + ToReverse(x, pay),
                                        !.balance = @ + ToCredit(x, pay) - ToReverse(x, pay)]

\* A handler goes on with the payments it has left, then with what has expired.
AfterPayment(k, x) ==
    IF k.todo # {x} THEN [k EXCEPT !.todo = @ \ {x}]
    ELSE IF k.closes THEN [k EXCEPT !.todo = {}, !.pc = "close"] ELSE NoHandler

\* One payment, the approved ones first; a webhook then acknowledges what it read.
ApplyPayment(h, x) ==
    /\ handler[h].pc = "apply" /\ x \in handler[h].todo
    /\ LET seen == handler[h].seen IN
       /\ seen[x].status # "approved" => \A y \in handler[h].todo : seen[y].status # "approved"
       /\ Applied(x, seen[x])
       /\ notices' = IF handler[h].hook /\ seen[x] = payment[x] THEN notices \ {x} ELSE notices
    /\ handler' = [handler EXCEPT ![h] = AfterPayment(@, x)]
    /\ UNCHANGED <<calls, buyer, requester, prefs, payment, expired, budget>>

\* An unpaid purchase past its expiry is closed.
CloseExpired(h) ==
    /\ handler[h].pc = "close"
    /\ purchase' = IF handler[h].closes /\ purchase.state \in {"CREATED", "AWAITING_PAYMENT"}
                   THEN [purchase EXCEPT !.state = "EXPIRED"] ELSE purchase
    /\ handler' = [handler EXCEPT ![h] = NoHandler]
    /\ UNCHANGED <<ledger, calls, buyer, requester, prefs, payment, notices, expired, budget>>

-----------------------------------------------------------------------------
(* Using the credit: pending calls are charged, the balance is checked, the    *)
(* request runs to its end and is charged after it.                            *)

ToRequester(r, pc) == requester' = [requester EXCEPT ![r] = pc]

\* As BeforeRequest, leaving calls of earlier requests uncharged.
BeforeRequest_NoSweep == "check"

\* What a request does first.
BeforeRequest == "charge"

StartRequest(r) ==
    /\ requester[r] = "idle" /\ IsFirst(r, {q \in Requesters : requester[q] = "idle"}) /\ Allow("requests")
    /\ ToRequester(r, BeforeRequest)
    /\ UNCHANGED <<purchase, ledger, calls, buyer, handler, prefs, payment, notices, expired>>

\* chargePendingCalls, before the check and after the request.
ChargeCalls(r) ==
    /\ requester[r] \in {"charge", "finished"}
    /\ ledger' = Spent(calls * Cost) /\ calls' = 0
    /\ ToRequester(r, IF requester[r] = "charge" THEN "check" ELSE "idle")
    /\ UNCHANGED <<purchase, buyer, handler, prefs, payment, notices, expired, budget>>

CheckCredit(r) ==
    /\ requester[r] = "check"
    /\ ToRequester(r, IF CanStart THEN "call" ELSE "idle")
    /\ UNCHANGED <<purchase, ledger, calls, buyer, handler, prefs, payment, notices, expired, budget>>

FinishCall(r) ==
    /\ requester[r] = "call"
    /\ calls' = calls + 1
    /\ ToRequester(r, "finished")
    /\ UNCHANGED <<purchase, ledger, buyer, handler, prefs, payment, notices, expired, budget>>

\* grantCredits of the platform.
Grant ==
    /\ Allow("grants")
    /\ ledger' = [ledger EXCEPT !.balance = @ + 1]
    /\ UNCHANGED <<purchase, calls, buyer, handler, requester, prefs, payment, notices, expired>>

-----------------------------------------------------------------------------
(* Time, calls that fail and processes that die.                               *)

Expire == purchase.exists /\ ~expired /\ expired' = TRUE
          /\ UNCHANGED <<purchase, ledger, calls, buyer, handler, requester, prefs, payment, notices, budget>>

\* A POST that fails may still have reached the provider.
BuyerStops(b) ==
    /\ buyer[b] # "idle" /\ Allow("faults")
    /\ prefs' \in IF buyer[b] = "post" THEN {prefs, prefs + 1} ELSE {prefs}
    /\ ToBuyer(b, "idle")
    /\ UNCHANGED <<purchase, ledger, calls, handler, requester, payment, notices, expired>>

HandlerStops(h) ==
    /\ handler[h].pc # "idle" /\ Allow("faults")
    /\ handler' = [handler EXCEPT ![h] = NoHandler]
    /\ UNCHANGED <<purchase, ledger, calls, buyer, requester, prefs, payment, notices, expired>>

RequesterStops(r) ==
    /\ requester[r] # "idle" /\ Allow("faults")
    /\ ToRequester(r, "idle")
    /\ UNCHANGED <<purchase, ledger, calls, buyer, handler, prefs, payment, notices, expired>>

-----------------------------------------------------------------------------
CreditsInit ==
    /\ budget \in CreditScenes
    /\ purchase = [exists |-> budget.open, state |-> IF budget.open THEN "AWAITING_PAYMENT" ELSE "CREATED",
                   started |-> budget.open, open |-> budget.open, own |-> Nobody]
    /\ ledger = [balance |-> 0, free |-> 0, credited |-> [x \in Payments |-> 0], reversed |-> [x \in Payments |-> 0]]
    /\ calls = 0 /\ expired = FALSE /\ notices = {}
    /\ prefs = IF budget.open THEN 1 ELSE 0
    /\ buyer = [b \in Buyers |-> "idle"] /\ handler = [h \in Handlers |-> NoHandler]
    /\ requester = [r \in Requesters |-> "idle"]
    /\ payment = [x \in Payments |-> NotPaid]

BuyerStep(b) == ReserveCheckout(b) \/ CreatePreference(b) \/ FindPreference(b) \/ RecordCheckout(b)
HandlerStep(h) == (\E x \in Payments : ApplyPayment(h, x)) \/ CloseExpired(h)
RequesterStep(r) == ChargeCalls(r) \/ CheckCredit(r) \/ FinishCall(r)

CreditsNext ==
    \/ \E b \in Buyers : Buy(b) \/ BuyerStep(b) \/ BuyerStops(b)
    \/ \E x \in Payments : \/ \E odd \in BOOLEAN : StartPayment(x, odd)
                           \/ ApprovePayment(x) \/ ChargeBack(x)
                           \/ \E back \in 1..Pack : RefundPayment(x, back)
    \/ \E h \in Handlers, x \in Payments : ReceivePayment(h, x)
    \/ \E h \in Handlers : Reconcile(h) \/ HandlerStep(h) \/ HandlerStops(h)
    \/ \E r \in Requesters : StartRequest(r) \/ RequesterStep(r) \/ RequesterStops(r)
    \/ Grant \/ Expire

\* The provider repeats a notification until it is acknowledged.
CreditsFairness ==
    /\ \A h \in Handlers : WF_creditVars(HandlerStep(h))
    /\ \A x \in Payments : SF_creditVars(\E h \in Handlers : ReceivePayment(h, x))

CreditsSpec == CreditsInit /\ [][CreditsNext]_creditVars /\ CreditsFairness

-----------------------------------------------------------------------------
\* A repeated click, a lost answer or a crash never opens a second checkout of
\* one purchase, which could be paid twice (prepareCreditCheckout).
OneCheckout == prefs <= 1

\* Only one payment of a purchase ever gives credit, and what it gave is never
\* taken back twice, however often and in whatever order its changes are read.
CreditedOnce ==
    /\ \A x, y \in Payments : ledger.credited[x] > 0 /\ ledger.credited[y] > 0 => x = y
    /\ \A x \in Payments : ledger.reversed[x] <= ledger.credited[x]

\* What the purchase shows and what the ledger holds agree: a paid purchase has
\* credit left of its own payment, an unpaid or expired one never gave any.
PurchaseMatchesLedger ==
    /\ purchase.state = "PAID" => purchase.own # Nobody /\ Net(purchase.own) > 0
    /\ purchase.state \in {"CREATED", "AWAITING_PAYMENT", "EXPIRED"} => \A x \in Payments : ledger.credited[x] = 0

\* What refunds took back: only the purchase's own payment ever gave credit.
TakenBack == IF purchase.own = Nobody THEN 0 ELSE ledger.reversed[purchase.own]

\* Parallel requests pass the check together, and requests die before they are
\* charged; even so the balance ends at most one request for each conversation
\* below zero, plus what refunds took back (assertCanStartRequest).
OverdraftBounded ==
    ledger.balance + FreeLeft + TakenBack >= 1 - Cardinality(Requesters) * Cost

\* Money received is never kept without its credit: an approved payment is
\* credited, also after the purchase expired, unless the purchase goes to review
\* or the payment is taken back first.
MoneyGetsCredit ==
    \A x \in Payments : payment[x].status = "approved"
        ~> ledger.credited[x] > 0 \/ purchase.state = "REVIEW" \/ payment[x].status # "approved" \/ payment[x].odd

\* The comment of decideCreditPayment (secretary-credits-rules.ts): "a refund is
\* never undone by a later notice".
RefundStands == purchase.state = "REFUNDED" => \A x \in Payments : Net(x) = 0
=============================================================================
