---------------------------- MODULE CreditsProofs -----------------------------
(* The credit ledger, for any number of conversations, buyers, payments and    *)
(* handlers of them: the types, then what the ledger and the purchase say of   *)
(* each other, the one checkout, and last what a balance can fall to.          *)
EXTENDS Credits, FiniteSetTheorems, TLAPS

-----------------------------------------------------------------------------
(* The rules.                                                                  *)

LEMMA MaxOfZero ==
  ASSUME NEW n \in Int
  PROVE  /\ Max({0, n}) \in Nat /\ Max({0, n}) >= n
         /\ Max({0, n}) = 0 \/ Max({0, n}) = n
<1> DEFINE m == IF n > 0 THEN n ELSE 0
<1>1. m \in {0, n} /\ \A y \in {0, n} : m >= y
  OBVIOUS
<1>2. PICK k \in {0, n} : k = Max({0, n}) /\ \A y \in {0, n} : k >= y
  BY <1>1 DEF Max
<1> QED BY <1>2

LEMMA MinOfTwo ==
  ASSUME NEW m \in Nat, NEW n \in Nat
  PROVE  Min({m, n}) \in 0..n /\ Min({m, n}) <= m
<1> DEFINE k == IF m < n THEN m ELSE n
<1>1. k \in {m, n} /\ \A y \in {m, n} : k <= y
  OBVIOUS
<1>2. PICK j \in {m, n} : j = Min({m, n}) /\ \A y \in {m, n} : j <= y
  BY <1>1 DEF Min
<1> QED BY <1>2

LedgerType == [balance : Int, free : 0..FreeUnits, credited : [Payments -> 0..Pack],
               reversed : [Payments -> 0..Pack]]
PurchaseType == [exists : BOOLEAN, state : PurchaseStates, started : BOOLEAN,
                 open : BOOLEAN, own : Payments \cup {Nobody}]
HandlerType == [pc : {"idle", "apply", "close"}, seen : [Payments -> Paying],
                todo : SUBSET Payments, closes : BOOLEAN, hook : BOOLEAN]

ReversedWithin == \A x \in Payments : ledger.reversed[x] <= ledger.credited[x]

(* What one payment moves.                                                     *)
LEMMA Moved ==
  ASSUME ledger \in LedgerType, ReversedWithin, NEW x \in Payments, NEW pay \in Paying
  PROVE  /\ ReversedUnits(pay) \in 0..Pack
         /\ ToCredit(x, pay) \in Nat /\ ToReverse(x, pay) \in Nat
         /\ ledger.credited[x] + ToCredit(x, pay) \in 0..Pack
         /\ ledger.reversed[x] + ToReverse(x, pay) \in 0..Pack
         /\ ledger.reversed[x] + ToReverse(x, pay) <= ledger.credited[x] + ToCredit(x, pay)
         /\ ledger.credited[x] = 0 => /\ ToReverse(x, pay) = 0
                                      /\ ToCredit(x, pay) = Pack - ReversedUnits(pay)
         /\ ledger.credited[x] > 0 => ToCredit(x, pay) = 0
         /\ Net(x) > 0 /\ ReversedUnits(pay) < Pack => Net(x) - ToReverse(x, pay) > 0
<1> DEFINE c == ledger.credited[x]
           r == ledger.reversed[x]
           u == ReversedUnits(pay)
<1>1. c \in 0..Pack /\ r \in 0..Pack /\ r <= c /\ Pack \in Nat
  BY CreditsAssumption DEF LedgerType, ReversedWithin
<1>2. u \in 0..Pack
  BY <1>1 DEF Paying, ReversedUnits
<1>3. Net(x) = c - r
  BY DEF Net
<1>4. ToCredit(x, pay) = IF c = 0 THEN Pack - u ELSE 0
  BY DEF ToCredit
<1>5. ToReverse(x, pay) = IF c > 0 THEN Max({0, (c - r) - (Pack - u)}) ELSE 0
  BY <1>3 DEF ToReverse
<1> HIDE DEF c, r, u
<1>6. (c - r) - (Pack - u) \in Int
  BY <1>1, <1>2
<1> DEFINE m == Max({0, (c - r) - (Pack - u)})
<1>7. m \in Nat /\ m >= (c - r) - (Pack - u) /\ (m = 0 \/ m = (c - r) - (Pack - u))
  BY <1>6, MaxOfZero
<1> HIDE DEF m
<1>8. ToReverse(x, pay) = IF c > 0 THEN m ELSE 0
  BY <1>5 DEF m
<1>9. /\ ToCredit(x, pay) \in Nat /\ ToReverse(x, pay) \in Nat
      /\ c + ToCredit(x, pay) \in 0..Pack /\ r + ToReverse(x, pay) \in 0..Pack
      /\ r + ToReverse(x, pay) <= c + ToCredit(x, pay)
      /\ c = 0 => ToReverse(x, pay) = 0 /\ ToCredit(x, pay) = Pack - u
      /\ c > 0 => ToCredit(x, pay) = 0
      /\ c - r > 0 /\ u < Pack => (c - r) - ToReverse(x, pay) > 0
  BY <1>1, <1>2, <1>4, <1>7, <1>8
<1> QED BY <1>2, <1>3, <1>9 DEF c, r, u

(* Charging the calls of a total: the month's free units first.                *)
LEMMA SpentLedger ==
  ASSUME ledger \in LedgerType, NEW total \in Nat
  PROVE  /\ Spent(total) \in LedgerType
         /\ Spent(total).credited = ledger.credited /\ Spent(total).reversed = ledger.reversed
         /\ Spent(total).balance - Spent(total).free = ledger.balance - ledger.free - total
<1> DEFINE l == ledger
           free == Min({total, FreeLeft})
           f == l.free + free
           b == l.balance - (total - free)
           s == [l EXCEPT !.free = f, !.balance = b]
<1>1. FreeLeft \in Nat /\ FreeLeft = FreeUnits - l.free /\ FreeUnits \in Nat
  BY CreditsAssumption DEF LedgerType, FreeLeft
<1>2. free \in 0..FreeLeft
  BY <1>1, MinOfTwo
<1>3. Spent(total) = s
  BY DEF Spent
<1>4. l \in LedgerType
  OBVIOUS
<1>5. l.free \in Int /\ l.balance \in Int /\ free \in Int
  BY <1>2, <1>4, <1>1 DEF LedgerType
<1>6. f \in 0..FreeUnits /\ b \in Int /\ b - f = l.balance - l.free - total
  BY <1>1, <1>2, <1>4, <1>5 DEF LedgerType
<1> HIDE DEF free, l, f, b
<1>7. /\ s \in LedgerType /\ s.credited = l.credited /\ s.reversed = l.reversed
      /\ s.free = f /\ s.balance = b
  BY <1>4, <1>6 DEF LedgerType
<1> HIDE DEF s
<1> QED BY <1>3, <1>6, <1>7 DEF l

-----------------------------------------------------------------------------
(* Types.                                                                      *)

ProcessTypes ==
    /\ buyer \in [Buyers -> {"idle", "reserve", "post", "search", "record"}]
    /\ handler \in [Handlers -> HandlerType]
    /\ requester \in [Requesters -> {"idle", "charge", "check", "call", "finished"}]
ProviderTypes ==
    /\ prefs \in Nat /\ payment \in [Payments -> Paying] /\ notices \in SUBSET Payments
    /\ expired \in BOOLEAN /\ budget \in CreditScene
BookTypes == purchase \in PurchaseType /\ ledger \in LedgerType /\ calls \in Nat

LEMMA CreditTypeParts == CreditsTypeOK <=> BookTypes /\ ProcessTypes /\ ProviderTypes
BY DEF CreditsTypeOK, BookTypes, ProcessTypes, ProviderTypes, PurchaseType, LedgerType, HandlerType

LEMMA CreditTypePartsPrimed ==
  CreditsTypeOK' <=> BookTypes' /\ ProcessTypes' /\ ProviderTypes'
BY DEF CreditsTypeOK, BookTypes, ProcessTypes, ProviderTypes, PurchaseType, LedgerType, HandlerType

LEMMA AllowType ==
  ASSUME budget \in CreditScene, NEW what \in {"clicks", "pays", "looks", "requests", "grants", "faults"},
         Allow(what)
  PROVE  budget' \in CreditScene
<1> DEFINE b == budget
           n == b[what] - 1
           r == [b EXCEPT ![what] = n]
<1>1. b \in CreditScene /\ budget' = r /\ b[what] > 0
  BY DEF Allow
<1>2. n \in Nat
  BY <1>1 DEF CreditScene
<1> HIDE DEF b, n
<1>3. r \in CreditScene
  <2>1. CASE what = "clicks"
    BY <2>1, <1>1, <1>2 DEF CreditScene
  <2>2. CASE what = "pays"
    BY <2>2, <1>1, <1>2 DEF CreditScene
  <2>3. CASE what = "looks"
    BY <2>3, <1>1, <1>2 DEF CreditScene
  <2>4. CASE what = "requests"
    BY <2>4, <1>1, <1>2 DEF CreditScene
  <2>5. CASE what = "grants"
    BY <2>5, <1>1, <1>2 DEF CreditScene
  <2>6. CASE what = "faults"
    BY <2>6, <1>1, <1>2 DEF CreditScene
  <2> QED BY <2>1, <2>2, <2>3, <2>4, <2>5, <2>6
<1> QED BY <1>1, <1>3

LEMMA PurchaseTyped ==
  ASSUME purchase \in PurchaseType
  PROVE  /\ [purchase EXCEPT !.exists = TRUE] \in PurchaseType
         /\ [purchase EXCEPT !.started = TRUE] \in PurchaseType
         /\ [purchase EXCEPT !.open = TRUE, !.state = "AWAITING_PAYMENT"] \in PurchaseType
         /\ \A s \in PurchaseStates : [purchase EXCEPT !.state = s] \in PurchaseType
         /\ \A s \in PurchaseStates, x \in Payments :
                [purchase EXCEPT !.state = s, !.own = x] \in PurchaseType
<1> DEFINE p == purchase
<1>1. p \in PurchaseType
  OBVIOUS
<1> HIDE DEF p
<1>2. /\ [p EXCEPT !.exists = TRUE] \in PurchaseType
      /\ [p EXCEPT !.started = TRUE] \in PurchaseType
  BY <1>1 DEF PurchaseType
<1>3. "AWAITING_PAYMENT" \in PurchaseStates
  BY DEF PurchaseStates
<1>4. [p EXCEPT !.open = TRUE, !.state = "AWAITING_PAYMENT"] \in PurchaseType
  BY <1>1, <1>3 DEF PurchaseType
<1>5. ASSUME NEW s \in PurchaseStates
      PROVE  [p EXCEPT !.state = s] \in PurchaseType
  BY <1>1 DEF PurchaseType
<1>6. ASSUME NEW s \in PurchaseStates, NEW x \in Payments
      PROVE  [p EXCEPT !.state = s, !.own = x] \in PurchaseType
  BY <1>1 DEF PurchaseType
<1> QED BY <1>2, <1>4, <1>5, <1>6 DEF p

LEMMA StateAfterTyped ==
  ASSUME NEW pay
  PROVE  StateAfter(pay) \in PurchaseStates
BY DEF StateAfter, PurchaseStates

\* The ledger after payment x moved c to credit and r back.
MovedLedger(x, c, r) ==
    [ledger EXCEPT !.credited[x] = @ + c, !.reversed[x] = @ + r, !.balance = @ + c - r]

LEMMA LedgerMoved ==
  ASSUME ledger \in LedgerType, NEW x \in Payments, NEW c \in Nat, NEW r \in Nat,
         ledger.credited[x] + c \in 0..Pack, ledger.reversed[x] + r \in 0..Pack
  PROVE  /\ MovedLedger(x, c, r) \in LedgerType
         /\ MovedLedger(x, c, r).free = ledger.free
         /\ MovedLedger(x, c, r).balance = ledger.balance + c - r
         /\ MovedLedger(x, c, r).credited = [ledger.credited EXCEPT ![x] = ledger.credited[x] + c]
         /\ MovedLedger(x, c, r).reversed = [ledger.reversed EXCEPT ![x] = ledger.reversed[x] + r]
<1> DEFINE d == ledger
           l == MovedLedger(x, c, r)
           cs == [d.credited EXCEPT ![x] = d.credited[x] + c]
           rs == [d.reversed EXCEPT ![x] = d.reversed[x] + r]
           b == d.balance + c - r
           e == [d EXCEPT !.credited = cs, !.reversed = rs, !.balance = b]
<1>1. d \in LedgerType
  OBVIOUS
<1>2. b \in Int
  BY <1>1 DEF LedgerType
<1>3. cs \in [Payments -> 0..Pack] /\ rs \in [Payments -> 0..Pack]
  BY <1>1 DEF LedgerType
<1>4. l = e
  BY <1>1 DEF LedgerType, MovedLedger
<1> HIDE DEF l, d, cs, rs, b
<1>5. /\ e \in LedgerType /\ e.free = d.free /\ e.balance = b
      /\ e.credited = cs /\ e.reversed = rs
  BY <1>1, <1>2, <1>3 DEF LedgerType
<1> HIDE DEF e
<1> QED BY <1>4, <1>5 DEF d, cs, rs, b, l

LEMMA GrantTyped ==
  ASSUME ledger \in LedgerType, NEW l, l = [ledger EXCEPT !.balance = @ + 1]
  PROVE  /\ l \in LedgerType /\ l.balance = ledger.balance + 1 /\ l.free = ledger.free
         /\ l.credited = ledger.credited /\ l.reversed = ledger.reversed
<1> DEFINE d == ledger
           b == d.balance + 1
           e == [d EXCEPT !.balance = b]
<1>1. d \in LedgerType /\ l = e
  OBVIOUS
<1>2. b \in Int
  BY <1>1 DEF LedgerType
<1> HIDE DEF d, b
<1>3. /\ e \in LedgerType /\ e.balance = b /\ e.free = d.free
      /\ e.credited = d.credited /\ e.reversed = d.reversed
  BY <1>1, <1>2 DEF LedgerType
<1> QED BY <1>1, <1>3 DEF b, d

LEMMA NoHandlerTyped == NoHandler \in HandlerType
<1>1. NotPaid \in Paying
  BY CreditsAssumption DEF NotPaid, Paying, PaymentStates
<1> QED BY <1>1 DEF NoHandler, HandlerType

LEMMA HandlerTyped ==
  ASSUME NEW k \in HandlerType, NEW x \in Payments
  PROVE  /\ [k EXCEPT !.todo = @ \ {x}] \in HandlerType
         /\ [k EXCEPT !.todo = {}, !.pc = "close"] \in HandlerType
BY DEF HandlerType

LEMMA AppliedBooks ==
  ASSUME BookTypes, ReversedWithin, NEW x \in Payments, NEW pay \in Paying, Applied(x, pay)
  PROVE  purchase' \in PurchaseType /\ ledger' \in LedgerType /\ ReversedWithin'
<1> USE DEF BookTypes
<1>0. "REVIEW" \in PurchaseStates /\ StateAfter(pay) \in PurchaseStates
  BY StateAfterTyped DEF PurchaseStates
<1>1. CASE pay.odd
  BY <1>1, <1>0, PurchaseTyped DEF Applied, ReversedWithin
<1>2. CASE ~pay.odd /\ ~Moves(pay)
  BY <1>2 DEF Applied, ReversedWithin
<1>3. CASE ~pay.odd /\ Moves(pay) /\ IsDuplicate(x)
  BY <1>3, <1>0, PurchaseTyped DEF Applied, ReversedWithin
<1>4. CASE ~pay.odd /\ Moves(pay) /\ ~IsDuplicate(x)
  <2> DEFINE c == ToCredit(x, pay)
             r == ToReverse(x, pay)
  <2>1. /\ purchase' = [purchase EXCEPT !.state = StateAfter(pay), !.own = x]
        /\ ledger' = MovedLedger(x, c, r)
    BY <1>4 DEF Applied, MovedLedger
  <2>2. /\ c \in Nat /\ r \in Nat
        /\ ledger.credited[x] + c \in 0..Pack /\ ledger.reversed[x] + r \in 0..Pack
        /\ ledger.reversed[x] + r <= ledger.credited[x] + c
    BY Moved
  <2> HIDE DEF c, r
  <2>3. /\ ledger' \in LedgerType
        /\ ledger'.credited = [ledger.credited EXCEPT ![x] = ledger.credited[x] + c]
        /\ ledger'.reversed = [ledger.reversed EXCEPT ![x] = ledger.reversed[x] + r]
    BY <2>1, <2>2, LedgerMoved
  <2>4. ledger.credited \in [Payments -> 0..Pack] /\ ledger.reversed \in [Payments -> 0..Pack]
    BY DEF LedgerType
  <2>5. ReversedWithin'
    <3>1. ASSUME NEW y \in Payments PROVE ledger'.reversed[y] <= ledger'.credited[y]
      BY <2>2, <2>3, <2>4 DEF ReversedWithin
    <3> QED BY <3>1 DEF ReversedWithin
  <2>6. purchase' \in PurchaseType
    BY <2>1, <1>0, PurchaseTyped
  <2> QED BY <2>3, <2>5, <2>6
<1> QED BY <1>1, <1>2, <1>3, <1>4


LEMMA CreditsInitTyped ==
  ASSUME CreditsInit
  PROVE  CreditsTypeOK /\ ReversedWithin
<1>1. NotPaid \in Paying
  BY CreditsAssumption DEF NotPaid, Paying, PaymentStates
<1>2. budget \in CreditScene
  BY CreditsAssumption DEF CreditsInit
<1>3. budget.open \in BOOLEAN
  BY <1>2 DEF CreditScene
<1>4. purchase \in PurchaseType
  BY <1>3 DEF CreditsInit, PurchaseType, PurchaseStates
<1>5. ledger \in LedgerType /\ ReversedWithin
  BY CreditsAssumption DEF CreditsInit, LedgerType, ReversedWithin
<1>6. BookTypes
  BY <1>4, <1>5 DEF BookTypes, CreditsInit
<1>7. ProcessTypes
  BY NoHandlerTyped DEF ProcessTypes, CreditsInit
<1>8. ProviderTypes
  BY <1>1, <1>2 DEF ProviderTypes, CreditsInit
<1> QED BY <1>5, <1>6, <1>7, <1>8, CreditTypeParts

LEMMA BuyersTyped ==
  ASSUME BookTypes, ProcessTypes, ProviderTypes, NEW b \in Buyers,
         Buy(b) \/ BuyerStep(b) \/ BuyerStops(b)
  PROVE  BookTypes' /\ ProcessTypes' /\ ProviderTypes'
<1> USE DEF BookTypes, ProcessTypes, ToBuyer
<1>1. CASE Buy(b)
  <2>1. budget' \in CreditScene
    BY <1>1, AllowType DEF Buy, ProviderTypes
  <2> QED BY <1>1, <2>1, PurchaseTyped DEF Buy, ProviderTypes
<1>2. CASE ReserveCheckout(b)
  BY <1>2, PurchaseTyped DEF ReserveCheckout, ProviderTypes
<1>3. CASE CreatePreference(b)
  BY <1>3 DEF CreatePreference, ProviderTypes
<1>4. CASE FindPreference(b)
  BY <1>4 DEF FindPreference, ProviderTypes
<1>5. CASE RecordCheckout(b)
  BY <1>5, PurchaseTyped DEF RecordCheckout, ProviderTypes
<1>6. CASE BuyerStops(b)
  <2>1. budget' \in CreditScene
    BY <1>6, AllowType DEF BuyerStops, ProviderTypes
  <2> QED BY <1>6, <2>1 DEF BuyerStops, ProviderTypes
<1> QED BY <1>1, <1>2, <1>3, <1>4, <1>5, <1>6 DEF BuyerStep

LEMMA PaymentsTyped ==
  ASSUME BookTypes, ProcessTypes, ProviderTypes, NEW x \in Payments, NEW pay \in Paying, Pay(x, pay)
  PROVE  BookTypes' /\ ProcessTypes' /\ ProviderTypes'
<1>1. budget' \in CreditScene
  BY AllowType DEF Pay, ProviderTypes
<1>2. payment' \in [Payments -> Paying] /\ notices' \in SUBSET Payments
  BY DEF Pay, ProviderTypes
<1> QED BY <1>1, <1>2 DEF Pay, BookTypes, ProcessTypes, ProviderTypes

LEMMA Payings ==
  ASSUME NEW pay \in Paying, NEW n \in 1..Pack, NEW odd \in BOOLEAN
  PROVE  /\ \A s \in {"pending", "approved"} : [status |-> s, back |-> 0, odd |-> odd] \in Paying
         /\ [pay EXCEPT !.status = "approved"] \in Paying
         /\ [pay EXCEPT !.status = "refunded", !.back = n] \in Paying
         /\ [pay EXCEPT !.status = "charged_back"] \in Paying
<1>1. n \in 0..Pack /\ 0 \in 0..Pack
  BY CreditsAssumption
<1>2. \A s \in {"pending", "approved"} : [status |-> s, back |-> 0, odd |-> odd] \in Paying
  BY <1>1 DEF Paying, PaymentStates
<1>3. /\ [pay EXCEPT !.status = "approved"] \in Paying
      /\ [pay EXCEPT !.status = "charged_back"] \in Paying
  BY DEF Paying, PaymentStates
<1>4. [pay EXCEPT !.status = "refunded", !.back = n] \in Paying
  BY <1>1 DEF Paying, PaymentStates
<1> QED BY <1>2, <1>3, <1>4

LEMMA ProviderTyped ==
  ASSUME BookTypes, ProcessTypes, ProviderTypes, NEW x \in Payments,
         \/ \E odd \in BOOLEAN : StartPayment(x, odd)
         \/ ApprovePayment(x) \/ ChargeBack(x)
         \/ \E back \in 1..Pack : RefundPayment(x, back)
  PROVE  BookTypes' /\ ProcessTypes' /\ ProviderTypes'
<1>0. payment[x] \in Paying /\ 1 \in 1..Pack
  BY CreditsAssumption DEF ProviderTypes
<1>1. ASSUME NEW odd \in BOOLEAN, StartPayment(x, odd)
      PROVE  BookTypes' /\ ProcessTypes' /\ ProviderTypes'
  <2>1. PICK s \in {"pending", "approved"} : Pay(x, [status |-> s, back |-> 0, odd |-> odd])
    BY <1>1 DEF StartPayment
  <2> QED BY <1>0, <2>1, Payings, PaymentsTyped
<1>2. CASE ApprovePayment(x)
  BY <1>2, <1>0, Payings, PaymentsTyped DEF ApprovePayment
<1>3. CASE ChargeBack(x)
  BY <1>3, <1>0, Payings, PaymentsTyped DEF ChargeBack
<1>4. ASSUME NEW n \in 1..Pack, RefundPayment(x, n)
      PROVE  BookTypes' /\ ProcessTypes' /\ ProviderTypes'
  BY <1>4, <1>0, Payings, PaymentsTyped DEF RefundPayment
<1> QED BY <1>1, <1>2, <1>3, <1>4

LEMMA ReadingTyped ==
  ASSUME ProviderTypes, NEW h \in Handlers, NEW todo \in SUBSET Payments, NEW hook \in BOOLEAN,
         handler \in [Handlers -> HandlerType], Reading(h, todo, hook)
  PROVE  handler' \in [Handlers -> HandlerType]
<1> DEFINE pc == IF todo = {} THEN "close" ELSE "apply"
           closes == ~hook /\ expired /\ \A x \in Payments : payment[x].status \notin {"approved", "pending"}
           k == [pc |-> pc, seen |-> payment, todo |-> todo, hook |-> hook, closes |-> closes]
<1>1. pc \in {"idle", "apply", "close"} /\ closes \in BOOLEAN /\ payment \in [Payments -> Paying]
  BY DEF ProviderTypes
<1>2. handler' = [handler EXCEPT ![h] = k]
  BY DEF Reading
<1> HIDE DEF pc, closes
<1>3. k \in HandlerType
  BY <1>1 DEF HandlerType
<1> QED BY <1>2, <1>3

LEMMA HandlersTyped ==
  ASSUME BookTypes, ReversedWithin, ProcessTypes, ProviderTypes, NEW h \in Handlers,
         \/ \E x \in Payments : ReceivePayment(h, x) \/ ApplyPayment(h, x)
         \/ Reconcile(h) \/ CloseExpired(h) \/ HandlerStops(h)
  PROVE  BookTypes' /\ ProcessTypes' /\ ProviderTypes'
<1>0. handler \in [Handlers -> HandlerType] /\ handler[h] \in HandlerType
  BY DEF ProcessTypes
<1>1. ASSUME NEW x \in Payments, ReceivePayment(h, x)
      PROVE  BookTypes' /\ ProcessTypes' /\ ProviderTypes'
  <2>1. handler' \in [Handlers -> HandlerType]
    BY <1>0, <1>1, ReadingTyped DEF ReceivePayment
  <2> QED BY <1>1, <2>1 DEF ReceivePayment, BookTypes, ProcessTypes, ProviderTypes
<1>2. ASSUME NEW x \in Payments, ApplyPayment(h, x)
      PROVE  BookTypes' /\ ProcessTypes' /\ ProviderTypes'
  <2> DEFINE k == handler[h]
             n == AfterPayment(k, x)
  <2>1. n \in HandlerType
    BY <1>0, HandlerTyped, NoHandlerTyped DEF AfterPayment
  <2>2. handler' = [handler EXCEPT ![h] = n]
    BY <1>2 DEF ApplyPayment
  <2> HIDE DEF n
  <2>3. handler' \in [Handlers -> HandlerType]
    BY <1>0, <2>1, <2>2
  <2>4. k.seen[x] \in Paying
    BY <1>0 DEF HandlerType
  <2>5. Applied(x, k.seen[x])
    BY <1>2 DEF ApplyPayment
  <2> HIDE DEF k
  <2>6. purchase' \in PurchaseType /\ ledger' \in LedgerType
    BY <2>4, <2>5, AppliedBooks
  <2>7. notices' \in SUBSET Payments
    BY <1>2 DEF ApplyPayment, ProviderTypes
  <2> QED BY <1>2, <2>3, <2>6, <2>7 DEF ApplyPayment, BookTypes, ProcessTypes, ProviderTypes
<1>3. CASE Reconcile(h)
  <2>1. budget' \in CreditScene
    BY <1>3, AllowType DEF Reconcile, ProviderTypes
  <2>2. handler' \in [Handlers -> HandlerType]
    BY <1>0, <1>3, ReadingTyped DEF Reconcile
  <2> QED BY <1>3, <2>1, <2>2 DEF Reconcile, BookTypes, ProcessTypes, ProviderTypes
<1>4. CASE CloseExpired(h)
  <2>1. purchase' \in PurchaseType
    BY <1>4, PurchaseTyped DEF CloseExpired, BookTypes, PurchaseStates
  <2> QED BY <1>4, <2>1, <1>0, NoHandlerTyped DEF CloseExpired, BookTypes, ProcessTypes, ProviderTypes
<1>5. CASE HandlerStops(h)
  <2>1. budget' \in CreditScene
    BY <1>5, AllowType DEF HandlerStops, ProviderTypes
  <2> QED BY <1>5, <2>1, <1>0, NoHandlerTyped DEF HandlerStops, BookTypes, ProcessTypes, ProviderTypes
<1> QED BY <1>1, <1>2, <1>3, <1>4, <1>5

LEMMA RequestersTyped ==
  ASSUME BookTypes, ProcessTypes, ProviderTypes, NEW r \in Requesters,
         StartRequest(r) \/ RequesterStep(r) \/ RequesterStops(r)
  PROVE  BookTypes' /\ ProcessTypes' /\ ProviderTypes'
<1> USE DEF BookTypes, ProcessTypes, ToRequester
<1>1. CASE StartRequest(r)
  <2>1. budget' \in CreditScene
    BY <1>1, AllowType DEF StartRequest, ProviderTypes
  <2> QED BY <1>1, <2>1 DEF StartRequest, ProviderTypes, BeforeRequest
<1>2. CASE ChargeCalls(r)
  <2>1. calls * Cost \in Nat
    BY CreditsAssumption
  <2>2. Spent(calls * Cost) \in LedgerType
    BY <2>1, SpentLedger
  <2> QED BY <1>2, <2>2 DEF ChargeCalls, ProviderTypes
<1>3. CASE CheckCredit(r)
  BY <1>3 DEF CheckCredit, ProviderTypes
<1>4. CASE FinishCall(r)
  BY <1>4 DEF FinishCall, ProviderTypes
<1>5. CASE RequesterStops(r)
  <2>1. budget' \in CreditScene
    BY <1>5, AllowType DEF RequesterStops, ProviderTypes
  <2> QED BY <1>5, <2>1 DEF RequesterStops, ProviderTypes
<1> QED BY <1>1, <1>2, <1>3, <1>4, <1>5 DEF RequesterStep

LEMMA GrantExpireTyped ==
  ASSUME BookTypes, ProcessTypes, ProviderTypes, Grant \/ Expire
  PROVE  BookTypes' /\ ProcessTypes' /\ ProviderTypes'
<1>1. CASE Grant
  <2>1. budget' \in CreditScene
    BY <1>1, AllowType DEF Grant, ProviderTypes
  <2>2. ledger' \in LedgerType
    BY <1>1, GrantTyped DEF Grant, BookTypes
  <2> QED BY <1>1, <2>1, <2>2 DEF Grant, BookTypes, ProcessTypes, ProviderTypes
<1>2. CASE Expire
  BY <1>2 DEF Expire, BookTypes, ProcessTypes, ProviderTypes
<1> QED BY <1>1, <1>2

-----------------------------------------------------------------------------
(* The purchase and the ledger.                                                *)

OwnOnly == \A x \in Payments : ledger.credited[x] > 0 => purchase.own = x
BooksInv == ReversedWithin /\ OwnOnly /\ PurchaseMatchesLedger

Unpaid == {"CREATED", "AWAITING_PAYMENT", "EXPIRED"}

\* A step that moves no payment leaves what each of them gave and lost; the
\* purchase may go to review, or from one unpaid state to another.
MovesNothing ==
    /\ ledger'.credited = ledger.credited /\ ledger'.reversed = ledger.reversed
    /\ purchase'.own = purchase.own
    /\ \/ purchase'.state \in {purchase.state, "REVIEW"}
       \/ {purchase.state, purchase'.state} \subseteq Unpaid

LEMMA BooksStay ==
  ASSUME BooksInv, MovesNothing
  PROVE  BooksInv'
<1>1. ReversedWithin'
  BY DEF MovesNothing, BooksInv, ReversedWithin
<1>2. OwnOnly'
  BY DEF MovesNothing, BooksInv, OwnOnly
<1>3. PurchaseMatchesLedger'
  BY DEF MovesNothing, BooksInv, PurchaseMatchesLedger, Net, Unpaid
<1> QED BY <1>1, <1>2, <1>3 DEF BooksInv

LEMMA AppliedBooksInv ==
  ASSUME BookTypes, BooksInv, NEW x \in Payments, NEW pay \in Paying, Applied(x, pay)
  PROVE  BooksInv'
<1> USE DEF BookTypes
<1>0. purchase \in PurchaseType /\ "REVIEW" \in PurchaseStates
  BY DEF PurchaseStates
<1>1. CASE pay.odd
  <2>1. ledger' = ledger /\ purchase'.own = purchase.own /\ purchase'.state \in {purchase.state, "REVIEW"}
    BY <1>1, <1>0 DEF Applied, PurchaseType
  <2> QED BY <2>1, BooksStay DEF MovesNothing
<1>2. CASE ~pay.odd /\ ~Moves(pay)
  BY <1>2, BooksStay DEF Applied, MovesNothing
<1>3. CASE ~pay.odd /\ Moves(pay) /\ IsDuplicate(x)
  <2>1. ledger' = ledger /\ purchase'.own = purchase.own /\ purchase'.state \in {purchase.state, "REVIEW"}
    BY <1>3, <1>0 DEF Applied, PurchaseType
  <2> QED BY <2>1, BooksStay DEF MovesNothing
<1>4. CASE ~pay.odd /\ Moves(pay) /\ ~IsDuplicate(x)
  <2> DEFINE c == ToCredit(x, pay)
             r == ToReverse(x, pay)
             u == ReversedUnits(pay)
             s == StateAfter(pay)
             given == ledger.credited
             taken == ledger.reversed
  <2>1. /\ purchase' = [purchase EXCEPT !.state = s, !.own = x]
        /\ ledger' = MovedLedger(x, c, r)
    BY <1>4 DEF Applied, MovedLedger
  <2>2. purchase.own \in {Nobody, x}
    BY <1>4 DEF IsDuplicate
  <2>3. given \in [Payments -> 0..Pack] /\ taken \in [Payments -> 0..Pack] /\ Pack \in Nat
    BY CreditsAssumption DEF LedgerType
  <2>4. /\ u \in 0..Pack /\ c \in Nat /\ r \in Nat
        /\ given[x] + c \in 0..Pack /\ taken[x] + r \in 0..Pack
        /\ taken[x] + r <= given[x] + c
        /\ given[x] = 0 => r = 0 /\ c = Pack - u
        /\ given[x] > 0 => c = 0
        /\ given[x] - taken[x] > 0 /\ u < Pack => (given[x] - taken[x]) - r > 0
    BY Moved DEF BooksInv, Net
  <2>5. /\ s \in {"REVIEW", "REFUNDED", "PAID"}
        /\ s = "PAID" => u # Pack /\ purchase.state \notin {"REVIEW", "REFUNDED"}
    BY DEF StateAfter
  <2>6. purchase'.state = s /\ purchase'.own = x
    BY <2>1, <1>0 DEF PurchaseType
  <2>7. /\ \A y \in Payments : taken[y] <= given[y]
        /\ \A y \in Payments : given[y] > 0 => purchase.own = y
        /\ purchase.state = "PAID" => purchase.own # Nobody /\ given[purchase.own] - taken[purchase.own] > 0
        /\ purchase.state \in Unpaid => \A y \in Payments : given[y] = 0
    BY DEF BooksInv, ReversedWithin, OwnOnly, PurchaseMatchesLedger, Net, Unpaid
  <2> HIDE DEF c, r, u, s
  <2>8. /\ ledger'.credited = [given EXCEPT ![x] = given[x] + c]
        /\ ledger'.reversed = [taken EXCEPT ![x] = taken[x] + r]
    <3>1. /\ c \in Nat /\ r \in Nat /\ ledger \in LedgerType
          /\ ledger.credited[x] + c \in 0..Pack /\ ledger.reversed[x] + r \in 0..Pack
      BY <2>4
    <3>2. /\ MovedLedger(x, c, r).credited = [ledger.credited EXCEPT ![x] = ledger.credited[x] + c]
          /\ MovedLedger(x, c, r).reversed = [ledger.reversed EXCEPT ![x] = ledger.reversed[x] + r]
      BY <3>1, LedgerMoved
    <3> QED BY <2>1, <3>2
  <2> HIDE DEF given, taken
  <2>9. /\ ledger'.credited[x] = given[x] + c /\ ledger'.reversed[x] = taken[x] + r
        /\ \A y \in Payments \ {x} : ledger'.credited[y] = given[y] /\ ledger'.reversed[y] = taken[y]
    BY <2>3, <2>8
  <2>10. ReversedWithin'
    BY <2>4, <2>7, <2>9 DEF ReversedWithin
  <2>11. OwnOnly'
    <3>1. ASSUME NEW y \in Payments, ledger'.credited[y] > 0 PROVE y = x
      <4>1. CASE y # x
        BY <4>1, <3>1, <2>9, <2>7, <2>2, CreditsAssumption
      <4> QED BY <4>1
    <3> QED BY <3>1, <2>6 DEF OwnOnly
  <2>12. s = "PAID" => ledger'.credited[x] - ledger'.reversed[x] > 0
    <3> SUFFICES ASSUME s = "PAID" PROVE (given[x] + c) - (taken[x] + r) > 0
      BY <2>9
    <3>1. given[x] \in Int /\ taken[x] \in Int /\ taken[x] >= 0 /\ u # Pack
      BY <2>3, <2>5
    <3>2. CASE purchase.state = "PAID"
      BY <3>1, <3>2, <2>2, <2>4, <2>7, <2>3
    <3>3. CASE purchase.state # "PAID"
      <4>1. purchase.state \in Unpaid
        BY <3>3, <2>5, <1>0 DEF Unpaid, PurchaseType, PurchaseStates
      <4> QED BY <4>1, <3>1, <2>3, <2>4, <2>7
    <3> QED BY <3>2, <3>3
  <2>13. PurchaseMatchesLedger'
    BY <2>5, <2>6, <2>12, CreditsAssumption DEF PurchaseMatchesLedger, Net
  <2> QED BY <2>10, <2>11, <2>13 DEF BooksInv
<1> QED BY <1>1, <1>2, <1>3, <1>4

LEMMA CreditsInitBooks ==
  ASSUME CreditsInit, CreditsTypeOK
  PROVE  BooksInv
<1>1. purchase.state \in Unpaid /\ purchase.own = Nobody
  BY DEF CreditsInit, Unpaid
<1>2. \A x \in Payments : ledger.credited[x] = 0 /\ ledger.reversed[x] = 0
  BY DEF CreditsInit
<1> QED BY <1>1, <1>2 DEF BooksInv, ReversedWithin, OwnOnly, PurchaseMatchesLedger, Unpaid

LEMMA CreditsNextBooks ==
  ASSUME BookTypes, ProcessTypes, BooksInv, [CreditsNext]_creditVars
  PROVE  BooksInv'
<1> USE DEF BookTypes
<1>0. purchase \in PurchaseType /\ ledger \in LedgerType
  OBVIOUS
<1>1. ASSUME NEW b \in Buyers, Buy(b) \/ BuyerStep(b) \/ BuyerStops(b)
      PROVE  BooksInv'
  <2>1. ledger' = ledger
    BY <1>1 DEF Buy, BuyerStep, BuyerStops, ReserveCheckout, CreatePreference, FindPreference, RecordCheckout
  <2>2. \/ purchase' = purchase
        \/ purchase' = [purchase EXCEPT !.exists = TRUE]
        \/ purchase' = [purchase EXCEPT !.started = TRUE]
        \/ /\ purchase.state = "CREATED"
           /\ purchase' = [purchase EXCEPT !.open = TRUE, !.state = "AWAITING_PAYMENT"]
    BY <1>1 DEF Buy, BuyerStep, BuyerStops, ReserveCheckout, CreatePreference, FindPreference, RecordCheckout
  <2>3. /\ purchase'.own = purchase.own
        /\ \/ purchase'.state = purchase.state
           \/ purchase.state = "CREATED" /\ purchase'.state = "AWAITING_PAYMENT"
    BY <2>2, <1>0 DEF PurchaseType
  <2> QED BY <2>1, <2>3, BooksStay DEF MovesNothing, Unpaid
<1>2. ASSUME NEW x \in Payments,
             \/ \E odd \in BOOLEAN : StartPayment(x, odd)
             \/ ApprovePayment(x) \/ ChargeBack(x)
             \/ \E back \in 1..Pack : RefundPayment(x, back)
      PROVE  BooksInv'
  BY <1>2, BooksStay DEF MovesNothing, StartPayment, ApprovePayment, ChargeBack, RefundPayment, Pay
<1>3. ASSUME NEW h \in Handlers, NEW x \in Payments, ReceivePayment(h, x)
      PROVE  BooksInv'
  BY <1>3, BooksStay DEF MovesNothing, ReceivePayment
<1>4. ASSUME NEW h \in Handlers, NEW x \in Payments, ApplyPayment(h, x)
      PROVE  BooksInv'
  <2>1. handler[h].seen[x] \in Paying
    BY DEF ProcessTypes, HandlerType
  <2>2. Applied(x, handler[h].seen[x])
    BY <1>4 DEF ApplyPayment
  <2> QED BY <2>1, <2>2, AppliedBooksInv
<1>5. ASSUME NEW h \in Handlers, Reconcile(h) \/ HandlerStops(h)
      PROVE  BooksInv'
  BY <1>5, BooksStay DEF MovesNothing, Reconcile, HandlerStops
<1>6. ASSUME NEW h \in Handlers, CloseExpired(h)
      PROVE  BooksInv'
  <2>1. ledger' = ledger /\ \/ purchase' = purchase
                            \/ /\ purchase.state \in Unpaid
                               /\ purchase' = [purchase EXCEPT !.state = "EXPIRED"]
    BY <1>6 DEF CloseExpired, Unpaid
  <2>2. /\ purchase'.own = purchase.own
        /\ \/ purchase'.state = purchase.state
           \/ purchase.state \in Unpaid /\ purchase'.state = "EXPIRED"
    BY <2>1, <1>0 DEF PurchaseType
  <2> QED BY <2>1, <2>2, BooksStay DEF MovesNothing, Unpaid
<1>7. ASSUME NEW r \in Requesters, ChargeCalls(r)
      PROVE  BooksInv'
  <2>1. calls * Cost \in Nat
    BY CreditsAssumption
  <2> QED BY <1>7, <2>1, SpentLedger, BooksStay DEF MovesNothing, ChargeCalls
<1>8. ASSUME NEW r \in Requesters, StartRequest(r) \/ CheckCredit(r) \/ FinishCall(r) \/ RequesterStops(r)
      PROVE  BooksInv'
  BY <1>8, BooksStay DEF MovesNothing, StartRequest, CheckCredit, FinishCall, RequesterStops
<1>9. CASE Grant
  <2>1. ledger'.credited = ledger.credited /\ ledger'.reversed = ledger.reversed /\ purchase' = purchase
    BY <1>9, GrantTyped DEF Grant
  <2> QED BY <2>1, BooksStay DEF MovesNothing
<1>10. CASE Expire
  BY <1>10, BooksStay DEF MovesNothing, Expire
<1>11. CASE UNCHANGED creditVars
  BY <1>11, BooksStay DEF MovesNothing, creditVars
<1> QED BY <1>1, <1>2, <1>3, <1>4, <1>5, <1>6, <1>7, <1>8, <1>9, <1>10, <1>11
        DEF CreditsNext, HandlerStep, RequesterStep

-----------------------------------------------------------------------------
(* Types and books together are inductive.                                     *)

LedgerInv == CreditsTypeOK /\ BooksInv

LEMMA CreditsNextTyped ==
  ASSUME CreditsTypeOK, ReversedWithin, [CreditsNext]_creditVars
  PROVE  CreditsTypeOK'
<1>0. BookTypes /\ ProcessTypes /\ ProviderTypes
  BY CreditTypeParts
<1> SUFFICES BookTypes' /\ ProcessTypes' /\ ProviderTypes'
  BY CreditTypePartsPrimed
<1>1. CASE UNCHANGED creditVars
  BY <1>0, <1>1 DEF creditVars, BookTypes, ProcessTypes, ProviderTypes
<1>2. ASSUME NEW b \in Buyers, Buy(b) \/ BuyerStep(b) \/ BuyerStops(b)
      PROVE  BookTypes' /\ ProcessTypes' /\ ProviderTypes'
  BY <1>0, <1>2, BuyersTyped
<1>3. ASSUME NEW x \in Payments,
             \/ \E odd \in BOOLEAN : StartPayment(x, odd)
             \/ ApprovePayment(x) \/ ChargeBack(x)
             \/ \E back \in 1..Pack : RefundPayment(x, back)
      PROVE  BookTypes' /\ ProcessTypes' /\ ProviderTypes'
  BY <1>0, <1>3, ProviderTyped
<1>4. ASSUME NEW h \in Handlers,
             \/ \E x \in Payments : ReceivePayment(h, x) \/ ApplyPayment(h, x)
             \/ Reconcile(h) \/ CloseExpired(h) \/ HandlerStops(h)
      PROVE  BookTypes' /\ ProcessTypes' /\ ProviderTypes'
  BY <1>0, <1>4, HandlersTyped
<1>5. ASSUME NEW r \in Requesters, StartRequest(r) \/ RequesterStep(r) \/ RequesterStops(r)
      PROVE  BookTypes' /\ ProcessTypes' /\ ProviderTypes'
  BY <1>0, <1>5, RequestersTyped
<1>6. CASE Grant \/ Expire
  BY <1>0, <1>6, GrantExpireTyped
<1> QED BY <1>1, <1>2, <1>3, <1>4, <1>5, <1>6 DEF CreditsNext, HandlerStep

LEMMA LedgerInvHolds == CreditsSpec => []LedgerInv
<1>1. CreditsInit => LedgerInv
  BY CreditsInitTyped, CreditsInitBooks DEF LedgerInv
<1>2. LedgerInv /\ [CreditsNext]_creditVars => LedgerInv'
  <2> SUFFICES ASSUME LedgerInv, [CreditsNext]_creditVars PROVE LedgerInv'
    OBVIOUS
  <2>1. BookTypes /\ ProcessTypes /\ ReversedWithin
    BY CreditTypeParts DEF LedgerInv, BooksInv
  <2> QED BY <2>1, CreditsNextTyped, CreditsNextBooks DEF LedgerInv
<1> QED BY <1>1, <1>2, PTL DEF CreditsSpec

\* The types of the ledger, the purchase and the payments hold for every instance.
THEOREM CreditsTypeCorrect == CreditsSpec => []CreditsTypeOK
<1>1. LedgerInv => CreditsTypeOK
  BY DEF LedgerInv
<1> QED BY <1>1, LedgerInvHolds, PTL

\* Of the payments of a purchase only one ever gives credit, and no more is taken
\* back than it gave, however notifications, reconciliations and handlers that
\* die repeat and cross (decideCreditPayment, the ledger's unique keys).
THEOREM CreditGivenOnce == CreditsSpec => []CreditedOnce
<1>1. LedgerInv => CreditedOnce
  BY DEF LedgerInv, BooksInv, OwnOnly, ReversedWithin, CreditedOnce
<1> QED BY <1>1, LedgerInvHolds, PTL

\* A purchase that says PAID has credit left of its own payment, and one that is
\* unpaid or expired gave none, in every order of payments, refunds and disputes.
THEOREM PurchaseAgreesWithLedger == CreditsSpec => []PurchaseMatchesLedger
<1>1. LedgerInv => PurchaseMatchesLedger
  BY DEF LedgerInv, BooksInv
<1> QED BY <1>1, LedgerInvHolds, PTL

-----------------------------------------------------------------------------
(* One checkout.                                                               *)

\* Before the checkout is reserved nobody asks the provider for it, and the one
\* who reserved it is the only one to do so, while there is none.
CheckoutInv ==
    /\ ~purchase.started => prefs = 0 /\ \A b \in Buyers : buyer[b] \in {"idle", "reserve"}
    /\ \A b \in Buyers : buyer[b] = "post" => prefs = 0 /\ \A c \in Buyers : buyer[c] = "post" => c = b
    /\ prefs <= 1

\* A buyer who stops asking, or never asked, disturbs nobody.
LEMMA CheckoutStays ==
  ASSUME CheckoutInv, ProcessTypes, NEW b \in Buyers, NEW pc \in {"idle", "reserve", "search", "record"}, ToBuyer(b, pc),
         prefs' = prefs, purchase'.started = purchase.started,
         purchase.started \/ pc \in {"idle", "reserve"}
  PROVE  CheckoutInv'
BY DEF CheckoutInv, ProcessTypes, ToBuyer

LEMMA BuyersKeepCheckout ==
  ASSUME CheckoutInv, purchase \in PurchaseType, prefs \in Nat, ProcessTypes, NEW b \in Buyers,
         Buy(b) \/ BuyerStep(b) \/ BuyerStops(b)
  PROVE  CheckoutInv'
<1>0. buyer[b] \in {"post", "search", "record"} => purchase.started
  BY DEF CheckoutInv
<1>1. CASE Buy(b)
  <2> DEFINE pc == IF purchase.open \/ expired THEN "idle" ELSE "reserve"
  <2>1. purchase'.started = purchase.started /\ ToBuyer(b, pc) /\ prefs' = prefs
    BY <1>1 DEF Buy, PurchaseType
  <2>2. pc \in {"idle", "reserve"}
    OBVIOUS
  <2> HIDE DEF pc
  <2> QED BY <2>1, <2>2, CheckoutStays
<1>2. CASE ReserveCheckout(b)
  <2>1. CASE purchase.state # "CREATED" \/ purchase.open
    BY <1>2, <2>1, CheckoutStays DEF ReserveCheckout
  <2>2. CASE purchase.state = "CREATED" /\ ~purchase.open /\ purchase.started
    BY <1>2, <2>2, CheckoutStays DEF ReserveCheckout, Reservable
  <2>3. CASE purchase.state = "CREATED" /\ ~purchase.open /\ ~purchase.started
    <3>1. purchase'.started /\ ToBuyer(b, "post") /\ prefs' = prefs
      BY <1>2, <2>3 DEF ReserveCheckout, Reservable, PurchaseType
    <3>2. prefs = 0 /\ \A c \in Buyers : buyer[c] # "post"
      BY <2>3 DEF CheckoutInv
    <3>3. \A c \in Buyers : buyer'[c] = "post" => c = b
      BY <3>1, <3>2 DEF ToBuyer, ProcessTypes
    <3> QED BY <3>1, <3>2, <3>3 DEF CheckoutInv
  <2> QED BY <2>1, <2>2, <2>3
<1>3. CASE CreatePreference(b)
  <2>1. /\ purchase.started /\ purchase' = purchase /\ prefs = 0 /\ prefs' = 1
        /\ \A c \in Buyers : buyer[c] = "post" => c = b
    BY <1>0, <1>3 DEF CreatePreference, CheckoutInv
  <2>2. \A c \in Buyers : buyer'[c] # "post"
    BY <1>3, <2>1 DEF CreatePreference, ToBuyer, ProcessTypes
  <2> QED BY <2>1, <2>2 DEF CheckoutInv
<1>4. CASE FindPreference(b)
  BY <1>0, <1>4, CheckoutStays DEF FindPreference
<1>5. CASE RecordCheckout(b)
  <2>1. purchase'.started = purchase.started
    BY <1>5 DEF RecordCheckout, PurchaseType
  <2> QED BY <1>5, <2>1, CheckoutStays DEF RecordCheckout
<1>6. CASE BuyerStops(b)
  <2>1. CASE prefs' = prefs
    BY <1>6, <2>1, CheckoutStays DEF BuyerStops
  <2>2. CASE prefs' # prefs
    <3>1. buyer[b] = "post" /\ prefs' = prefs + 1 /\ purchase' = purchase /\ ToBuyer(b, "idle")
      BY <1>6, <2>2 DEF BuyerStops
    <3>2. /\ purchase.started /\ prefs = 0
          /\ \A c \in Buyers : buyer[c] = "post" => c = b
      BY <1>0, <3>1 DEF CheckoutInv
    <3>3. \A c \in Buyers : buyer'[c] # "post"
      BY <3>1, <3>2 DEF ToBuyer, ProcessTypes
    <3> QED BY <3>1, <3>2, <3>3 DEF CheckoutInv
  <2> QED BY <2>1, <2>2
<1> QED BY <1>1, <1>2, <1>3, <1>4, <1>5, <1>6 DEF BuyerStep

LEMMA OthersKeepCheckout ==
  ASSUME CheckoutInv, buyer' = buyer, prefs' = prefs, purchase'.started = purchase.started
  PROVE  CheckoutInv'
BY DEF CheckoutInv

LEMMA NextKeepsCheckout ==
  ASSUME LedgerInv, CheckoutInv, [CreditsNext]_creditVars
  PROVE  CheckoutInv'
<1>0. BookTypes /\ ProcessTypes /\ ProviderTypes /\ purchase \in PurchaseType /\ prefs \in Nat
  BY CreditTypeParts DEF LedgerInv, BookTypes, ProviderTypes
<1>1. ASSUME NEW b \in Buyers, Buy(b) \/ BuyerStep(b) \/ BuyerStops(b)
      PROVE  CheckoutInv'
  BY <1>0, <1>1, BuyersKeepCheckout
<1>2. ASSUME NEW h \in Handlers, NEW x \in Payments, ApplyPayment(h, x)
      PROVE  CheckoutInv'
  <2>1. \/ purchase' = purchase
        \/ \E s : purchase' = [purchase EXCEPT !.state = s]
        \/ \E s : purchase' = [purchase EXCEPT !.state = s, !.own = x]
    BY <1>2 DEF ApplyPayment, Applied
  <2>2. purchase'.started = purchase.started
    BY <2>1, <1>0 DEF PurchaseType
  <2> QED BY <1>2, <2>2, OthersKeepCheckout DEF ApplyPayment
<1>3. ASSUME NEW h \in Handlers, CloseExpired(h)
      PROVE  CheckoutInv'
  <2>1. purchase'.started = purchase.started
    BY <1>3, <1>0 DEF CloseExpired, PurchaseType
  <2> QED BY <1>3, <2>1, OthersKeepCheckout DEF CloseExpired
<1>4. CASE \/ \E x \in Payments : \/ \E odd \in BOOLEAN : StartPayment(x, odd)
                                  \/ ApprovePayment(x) \/ ChargeBack(x)
                                  \/ \E back \in 1..Pack : RefundPayment(x, back)
           \/ \E h \in Handlers, x \in Payments : ReceivePayment(h, x)
           \/ \E h \in Handlers : Reconcile(h) \/ HandlerStops(h)
           \/ \E r \in Requesters : StartRequest(r) \/ RequesterStep(r) \/ RequesterStops(r)
           \/ Grant \/ Expire \/ UNCHANGED creditVars
  <2>1. buyer' = buyer /\ prefs' = prefs /\ purchase' = purchase
    BY <1>4 DEF StartPayment, ApprovePayment, ChargeBack, RefundPayment, Pay, ReceivePayment, Reconcile,
                HandlerStops, StartRequest, RequesterStep, RequesterStops, ChargeCalls, CheckCredit,
                FinishCall, Grant, Expire, creditVars
  <2> QED BY <2>1, OthersKeepCheckout
<1> QED BY <1>1, <1>2, <1>3, <1>4 DEF CreditsNext, HandlerStep

\* Buyers who pay at the same time, and a checkout retried after a lost answer,
\* leave the purchase with one preference of the provider.
THEOREM CheckoutIsOne == CreditsSpec => []OneCheckout
<1>1. CreditsInit => CheckoutInv
  <2> SUFFICES ASSUME CreditsInit PROVE CheckoutInv
    OBVIOUS
  <2>1. \A b \in Buyers : buyer[b] = "idle"
    BY DEF CreditsInit
  <2>2. prefs <= 1 /\ (~purchase.started => prefs = 0)
    BY DEF CreditsInit
  <2> QED BY <2>1, <2>2 DEF CheckoutInv
<1>2. LedgerInv /\ CheckoutInv /\ [CreditsNext]_creditVars => CheckoutInv'
  BY NextKeepsCheckout
<1>3. CheckoutInv => OneCheckout
  BY DEF CheckoutInv, OneCheckout
<1>4. CreditsSpec => CreditsInit /\ [][CreditsNext]_creditVars
  BY DEF CreditsSpec
<1> QED BY <1>1, <1>2, <1>3, <1>4, LedgerInvHolds, PTL

-----------------------------------------------------------------------------
(* The overdraft.                                                              *)

Asking(pcs) == {q \in Requesters : requester[q] \in pcs}

\* What the conversations may still take: each of them has at most one call that
\* is not charged, and takes part in the check only once the earlier ones are.
Allowance == ledger.balance + FreeLeft + TakenBack
Conversations == Cardinality(Requesters)
Spare == Conversations - (calls + Cardinality(Asking({"call"})))
CallsFit == calls + Cardinality(Asking({"check", "call"})) <= Conversations
Costs(n) == n * Cost
CreditFits == Allowance + Costs(Spare) >= 1
OverdraftInv == CallsFit /\ CreditFits

LEMMA CountAsking ==
  ASSUME NEW pcs
  PROVE  IsFiniteSet(Asking(pcs)) /\ Cardinality(Asking(pcs)) \in Nat /\ Conversations \in Nat
<1>1. Asking(pcs) \in SUBSET Requesters /\ IsFiniteSet(Requesters)
  BY CreditsAssumption DEF Asking
<1> QED BY <1>1, FS_Subset, FS_CardinalityType DEF Conversations

LEMMA CountMoves ==
  ASSUME ProcessTypes, NEW r \in Requesters, NEW pc, ToRequester(r, pc), NEW pcs
  PROVE  Cardinality(Asking(pcs)') = Cardinality(Asking(pcs))
             + (IF pc \in pcs THEN 1 ELSE 0) - (IF requester[r] \in pcs THEN 1 ELSE 0)
<1> DEFINE before == Asking(pcs)
           after == {q \in Requesters : requester'[q] \in pcs}
           n == Cardinality(before)
<1>1. IsFiniteSet(before) /\ n \in Nat
  BY CountAsking
<1>2. /\ r \in before <=> requester[r] \in pcs
      /\ after = IF pc \in pcs THEN before \cup {r} ELSE before \ {r}
  BY DEF Asking, ToRequester, ProcessTypes
<1>3. Asking(pcs)' = after
  BY DEF Asking
<1> HIDE DEF before, after
<1>4. /\ Cardinality(before \cup {r}) = IF r \in before THEN n ELSE n + 1
      /\ Cardinality(before \ {r}) = IF r \in before THEN n - 1 ELSE n
  BY <1>1, FS_AddElement, FS_RemoveElement
<1> HIDE DEF n
<1> DEFINE m == Cardinality(after)
           more == Cardinality(before \cup {r})
           less == Cardinality(before \ {r})
<1>6. m = IF pc \in pcs THEN more ELSE less
  BY <1>2
<1>7. /\ more = IF requester[r] \in pcs THEN n ELSE n + 1
      /\ less = IF requester[r] \in pcs THEN n - 1 ELSE n
  BY <1>2, <1>4
<1> HIDE DEF m, more, less
<1>5. m = n + (IF pc \in pcs THEN 1 ELSE 0) - (IF requester[r] \in pcs THEN 1 ELSE 0)
  BY <1>1, <1>6, <1>7
<1> QED BY <1>3, <1>5 DEF m, n, before

LEMMA CostsAdd ==
  ASSUME NEW a \in Int, NEW b \in Int
  PROVE  /\ Costs(a) \in Int /\ Costs(b) \in Int /\ Costs(a + b) = Costs(a) + Costs(b)
         /\ a <= b => Costs(a) <= Costs(b)
         /\ a >= 0 => Costs(a) >= 0
<1>1. Cost \in Nat
  BY CreditsAssumption
<1>2. \A n \in Nat, m \in Nat : n * m \in Nat
  OBVIOUS
<1>3. a * Cost \in Int /\ b * Cost \in Int /\ (a + b) * Cost = a * Cost + b * Cost
  BY <1>1, SMTT(30)
<1>4. a <= b => a * Cost <= b * Cost
  <2> SUFFICES ASSUME a <= b PROVE a * Cost <= b * Cost
    OBVIOUS
  <2>1. b - a \in Nat
    OBVIOUS
  <2>2. (b - a) * Cost \in Nat
    BY <1>1, <1>2, <2>1
  <2>3. b * Cost - a * Cost = (b - a) * Cost
    BY <1>1, SMTT(30)
  <2> QED BY <1>3, <2>2, <2>3
<1>5. a >= 0 => a * Cost >= 0
  BY <1>1, <1>2
<1> QED BY <1>3, <1>4, <1>5 DEF Costs

LEMMA AllowanceTyped ==
  ASSUME BookTypes
  PROVE  /\ Allowance \in Int /\ FreeLeft \in Nat /\ TakenBack \in Nat /\ ledger.balance \in Int
         /\ FreeLeft = FreeUnits - ledger.free
<1>1. ledger.free \in 0..FreeUnits /\ FreeUnits \in Nat /\ ledger.balance \in Int
  BY CreditsAssumption DEF BookTypes, LedgerType
<1>2. FreeLeft \in Nat /\ FreeLeft = FreeUnits - ledger.free
  BY <1>1 DEF FreeLeft
<1>3. TakenBack \in Nat
  BY CreditsAssumption DEF TakenBack, BookTypes, LedgerType, PurchaseType
<1> QED BY <1>1, <1>2, <1>3 DEF Allowance

\* Nothing is spent: nobody asks for more and the allowance does not shrink.
LEMMA NothingSpent ==
  ASSUME BookTypes, OverdraftInv, Allowance' \in Int, Allowance' >= Allowance,
         requester' = requester, calls' = calls
  PROVE  OverdraftInv'
<1>1. CallsFit' /\ Spare' = Spare
  BY DEF OverdraftInv, CallsFit, Spare, Asking, Conversations
<1>2. Costs(Spare) \in Int /\ Allowance \in Int
  <2>1. Spare \in Int
    BY CountAsking DEF Spare, BookTypes
  <2> QED BY <2>1, CostsAdd, AllowanceTyped
<1>3. Allowance + Costs(Spare) >= 1
  BY DEF OverdraftInv, CreditFits
<1>4. Allowance' + Costs(Spare) >= 1
  BY <1>2, <1>3
<1> QED BY <1>1, <1>4 DEF OverdraftInv, CreditFits

LEMMA RequestsFit ==
  ASSUME BookTypes, BookTypes', ProcessTypes, OverdraftInv, NEW r \in Requesters,
         StartRequest(r) \/ RequesterStep(r) \/ RequesterStops(r)
  PROVE  OverdraftInv'
<1> DEFINE n == Conversations
           k == Cardinality(Asking({"check", "call"}))
           j == Cardinality(Asking({"call"}))
           k1 == Cardinality(Asking({"check", "call"})')
           j1 == Cardinality(Asking({"call"})')
           a == Allowance
           a1 == Allowance'
<1>1. /\ n \in Nat /\ k \in Nat /\ j \in Nat /\ j <= k /\ calls \in Nat
      /\ calls' \in Nat
  <2>1. Asking({"call"}) \in SUBSET Asking({"check", "call"})
    BY DEF Asking
  <2> QED BY <2>1, CountAsking, FS_Subset DEF BookTypes
<1>2. a \in Int /\ ledger.balance \in Int /\ FreeLeft \in Nat /\ TakenBack \in Nat
      /\ a = ledger.balance + FreeLeft + TakenBack
  BY AllowanceTyped DEF Allowance
<1>4. calls + k <= n /\ a + Costs(n - (calls + j)) >= 1
  BY DEF OverdraftInv, CallsFit, CreditFits, Spare
<1>5. SUFFICES calls' + k1 <= n /\ a1 + Costs(n - (calls' + j1)) >= 1
  <2>1. CallsFit' <=> calls' + k1 <= n
    BY DEF CallsFit, Conversations
  <2>2. CreditFits' <=> a1 + Costs(n - (calls' + j1)) >= 1
    BY DEF CreditFits, Spare, Conversations
  <2> QED BY <1>5, <2>1, <2>2 DEF OverdraftInv
<1>6. ASSUME NEW pc, ToRequester(r, pc)
      PROVE  /\ k1 = k + (IF pc \in {"check", "call"} THEN 1 ELSE 0)
                       - (IF requester[r] \in {"check", "call"} THEN 1 ELSE 0)
             /\ j1 = j + (IF pc = "call" THEN 1 ELSE 0) - (IF requester[r] = "call" THEN 1 ELSE 0)
  <2>1. k1 = k + (IF pc \in {"check", "call"} THEN 1 ELSE 0)
               - (IF requester[r] \in {"check", "call"} THEN 1 ELSE 0)
    BY <1>6, CountMoves
  <2>2. j1 = j + (IF pc \in {"call"} THEN 1 ELSE 0) - (IF requester[r] \in {"call"} THEN 1 ELSE 0)
    BY <1>6, CountMoves
  <2> QED BY <2>1, <2>2
<1>7. ledger' = ledger /\ purchase' = purchase => a1 = a
  BY DEF Allowance, FreeLeft, TakenBack
<1> HIDE DEF n, k, j, k1, j1, a, a1
\* A step that only moves r, with the charge and the allowance as they were.
<1>8. CASE StartRequest(r) \/ RequesterStops(r)
  <2>1. a1 = a /\ calls' = calls
    BY <1>7, <1>8 DEF StartRequest, RequesterStops
  <2>2. PICK pc \in {"charge", "idle"} : ToRequester(r, pc)
    BY <1>8 DEF StartRequest, RequesterStops, BeforeRequest
  <2>3. k1 \in {k, k - 1} /\ j1 \in {j, j - 1}
    <3>1. pc \notin {"check", "call"}
      BY <2>2
    <3> QED BY <1>1, <1>6, <2>2, <3>1
  <2> DEFINE s == n - (calls + j)
             s1 == n - (calls + j1)
  <2>4. s <= s1 /\ s \in Int /\ s1 \in Int
    BY <1>1, <2>3
  <2> HIDE DEF s, s1
  <2>5. Costs(s) <= Costs(s1) /\ Costs(s) \in Int /\ Costs(s1) \in Int
    BY <2>4, CostsAdd
  <2>6. calls + k1 <= n
    BY <1>1, <1>4, <2>3
  <2>7. a + Costs(s) >= 1
    BY <1>4 DEF s
  <2>8. a + Costs(s1) >= 1
    BY <2>5, <2>7, <1>2
  <2> QED BY <2>1, <2>6, <2>8 DEF s1
<1>9. CASE ChargeCalls(r)
  <2> DEFINE total == calls * Cost
  <2>1. total \in Nat /\ ledger \in LedgerType
    BY <1>1, CreditsAssumption DEF BookTypes
  <2>2. /\ ledger' = Spent(total) /\ calls' = 0 /\ purchase' = purchase
        /\ requester[r] \in {"charge", "finished"}
        /\ ToRequester(r, IF requester[r] = "charge" THEN "check" ELSE "idle")
    BY <1>9 DEF ChargeCalls
  <2> HIDE DEF total
  <2>3. /\ ledger'.reversed = ledger.reversed
        /\ ledger'.balance - ledger'.free = ledger.balance - ledger.free - total
        /\ ledger' \in LedgerType
    BY <2>1, <2>2, SpentLedger
  <2>4. a1 = a - total
    <3>1. TakenBack' = TakenBack
      BY <2>2, <2>3 DEF TakenBack
    <3>2. /\ ledger.free \in Int /\ ledger'.free \in Int /\ ledger'.balance \in Int /\ FreeUnits \in Nat
          /\ FreeLeft = FreeUnits - ledger.free /\ FreeLeft' = FreeUnits - ledger'.free
      BY <2>1, <2>3, CreditsAssumption DEF LedgerType, FreeLeft
    <3>3. a1 = ledger'.balance + FreeLeft' + TakenBack'
      BY DEF a1, Allowance
    <3> QED BY <1>2, <2>1, <2>3, <3>1, <3>2, <3>3
  <2>5. k1 \in {k, k + 1} /\ j1 = j
    <3>1. CASE requester[r] = "charge"
      BY <3>1, <2>2, <1>6, <1>1
    <3>2. CASE requester[r] = "finished"
      BY <3>2, <2>2, <1>6, <1>1
    <3> QED BY <2>2, <3>1, <3>2
  <2>6. k1 <= n
    <3>1. Asking({"check", "call"})' \in SUBSET Requesters /\ IsFiniteSet(Requesters)
      BY CreditsAssumption DEF Asking
    <3> QED BY <3>1, FS_Subset DEF k1, n, Conversations
  <2>7. Costs(n - (0 + j)) = Costs(n - (calls + j)) + total /\ Costs(n - (calls + j)) \in Int
    <3> DEFINE s == n - (calls + j)
    <3>1. s \in Int /\ s + calls = n - (0 + j)
      BY <1>1
    <3> HIDE DEF s
    <3>2. Costs(s + calls) = Costs(s) + Costs(calls) /\ Costs(s) \in Int
      <4>1. s \in Int /\ calls \in Int
        BY <1>1, <3>1
      <4> QED BY <4>1, CostsAdd
    <3>3. Costs(calls) = total
      BY DEF Costs, total
    <3> QED BY <3>1, <3>2, <3>3 DEF s
  <2>8. k1 \in Int
    BY <2>5, <1>1
  <2>9. a1 + Costs(n - (0 + j)) >= 1
    BY <2>1, <2>4, <2>7, <1>2, <1>4
  <2> QED BY <2>2, <2>5, <2>6, <2>8, <2>9
<1>10. CASE CheckCredit(r)
  <2>1. a1 = a /\ calls' = calls /\ requester[r] = "check"
    BY <1>7, <1>10 DEF CheckCredit
  <2>2. CASE CanStart
    <3>1. ToRequester(r, "call")
      BY <1>10, <2>2 DEF CheckCredit
    <3>2. k1 = k /\ j1 = j + 1
      BY <1>1, <1>6, <2>1, <3>1
    <3>3. k >= j + 1
      <4>1. Asking({"call"})' \in SUBSET Asking({"check", "call"})'
        BY DEF Asking
      <4>2. Asking({"check", "call"})' \in SUBSET Requesters /\ IsFiniteSet(Requesters)
        BY CreditsAssumption DEF Asking
      <4>3. IsFiniteSet(Asking({"check", "call"})')
        BY <4>2, FS_Subset
      <4>4. j1 <= k1
        BY <4>1, <4>3, FS_Subset DEF j1, k1
      <4> QED BY <4>4, <3>2, <1>1
    <3>4. n - (calls + j1) >= 0 /\ n - (calls + j1) \in Int
      BY <1>1, <1>4, <3>2, <3>3
    <3>5. Costs(n - (calls + j1)) >= 0 /\ Costs(n - (calls + j1)) \in Int
      BY <3>4, CostsAdd
    <3>6. a >= 1
      BY <1>2, <2>2 DEF CanStart
    <3>7. a1 + Costs(n - (calls' + j1)) >= 1
      BY <1>2, <2>1, <3>5, <3>6
    <3> QED BY <1>4, <2>1, <3>2, <3>7
  <2>3. CASE ~CanStart
    <3>1. ToRequester(r, "idle")
      BY <1>10, <2>3 DEF CheckCredit
    <3>2. k1 = k - 1 /\ j1 = j
      BY <1>1, <1>6, <2>1, <3>1
    <3> QED BY <1>1, <1>4, <2>1, <3>2
  <2> QED BY <2>2, <2>3
<1>11. CASE FinishCall(r)
  <2>1. a1 = a /\ calls' = calls + 1 /\ requester[r] = "call" /\ ToRequester(r, "finished")
    BY <1>7, <1>11 DEF FinishCall
  <2>2. k1 = k - 1 /\ j1 = j - 1
    BY <1>1, <1>6, <2>1
  <2>3. n - (calls' + j1) = n - (calls + j) /\ calls' + k1 = calls + k
    BY <1>1, <2>1, <2>2
  <2> QED BY <1>4, <2>1, <2>3
<1> QED BY <1>8, <1>9, <1>10, <1>11 DEF RequesterStep

LEMMA MovedPayment ==
  ASSUME ledger \in LedgerType, ReversedWithin, NEW x \in Payments, NEW pay \in Paying
  PROVE  LET c == ToCredit(x, pay)
             r == ToReverse(x, pay)
         IN  /\ MovedLedger(x, c, r).free = ledger.free
             /\ MovedLedger(x, c, r).balance = ledger.balance + c - r
             /\ MovedLedger(x, c, r).reversed = [ledger.reversed EXCEPT ![x] = ledger.reversed[x] + r]
<1> DEFINE c == ToCredit(x, pay)
           r == ToReverse(x, pay)
<1>1. /\ c \in Nat /\ r \in Nat
      /\ ledger.credited[x] + c \in 0..Pack /\ ledger.reversed[x] + r \in 0..Pack
  BY Moved
<1> HIDE DEF c, r
<1>2. /\ MovedLedger(x, c, r) \in LedgerType
      /\ MovedLedger(x, c, r).free = ledger.free
      /\ MovedLedger(x, c, r).balance = ledger.balance + c - r
      /\ MovedLedger(x, c, r).credited = [ledger.credited EXCEPT ![x] = ledger.credited[x] + c]
      /\ MovedLedger(x, c, r).reversed = [ledger.reversed EXCEPT ![x] = ledger.reversed[x] + r]
  BY <1>1, LedgerMoved
<1> QED BY <1>2 DEF c, r

LEMMA PaymentFits ==
  ASSUME BookTypes, BookTypes', BooksInv, NEW x \in Payments, NEW pay \in Paying, Applied(x, pay)
  PROVE  Allowance' >= Allowance
<1> USE DEF BookTypes
<1>0. /\ Allowance \in Int /\ FreeLeft \in Nat /\ TakenBack \in Nat /\ ledger.balance \in Int
      /\ Allowance = ledger.balance + FreeLeft + TakenBack
  BY AllowanceTyped DEF Allowance
<1>1. CASE ledger' = ledger /\ purchase'.own = purchase.own
  <2>1. Allowance' = Allowance
    BY <1>1 DEF Allowance, FreeLeft, TakenBack
  <2> QED BY <2>1, <1>0
<1>2. CASE ~pay.odd /\ Moves(pay) /\ ~IsDuplicate(x)
  <2> DEFINE c == ToCredit(x, pay)
             r == ToReverse(x, pay)
             taken == ledger.reversed
  <2> HIDE DEF taken
  <2>1. /\ purchase' = [purchase EXCEPT !.state = StateAfter(pay), !.own = x]
        /\ ledger' = MovedLedger(x, c, r)
    BY <1>2 DEF Applied, MovedLedger
  <2>2. purchase.own \in {Nobody, x} /\ purchase'.own = x /\ x # Nobody
    BY <1>2, <2>1, CreditsAssumption DEF IsDuplicate, PurchaseType
  <2>3. /\ c \in Nat /\ r \in Nat /\ ledger \in LedgerType
        /\ ledger.credited[x] + c \in 0..Pack /\ ledger.reversed[x] + r \in 0..Pack
    BY Moved DEF BooksInv
  <2>9. ReversedWithin
    BY DEF BooksInv
  <2>4. taken[x] \in Nat /\ TakenBack = taken[x]
    <3>1. ledger.credited[x] \in 0..Pack /\ ledger.reversed[x] \in 0..Pack /\ Pack \in Nat
      BY CreditsAssumption DEF LedgerType
    <3>2. purchase.own = Nobody => ledger.reversed[x] = 0
      BY <2>2, <3>1 DEF BooksInv, OwnOnly, ReversedWithin
    <3> QED BY <2>2, <3>1, <3>2 DEF TakenBack, taken
  <2> HIDE DEF c, r
  <2>5. /\ ledger'.free = ledger.free /\ ledger'.balance = ledger.balance + c - r
        /\ ledger'.reversed = [ledger.reversed EXCEPT ![x] = ledger.reversed[x] + r]
    <3>1. /\ MovedLedger(x, c, r).free = ledger.free
          /\ MovedLedger(x, c, r).balance = ledger.balance + c - r
          /\ MovedLedger(x, c, r).reversed = [ledger.reversed EXCEPT ![x] = ledger.reversed[x] + r]
      BY <2>3, <2>9, MovedPayment DEF c, r
    <3> QED BY <2>1, <3>1
  <2>6. TakenBack' = taken[x] + r
    <3>1. ledger.reversed \in [Payments -> 0..Pack]
      BY DEF LedgerType
    <3> QED BY <2>2, <2>5, <3>1 DEF TakenBack, taken
  <2>7. FreeLeft' = FreeLeft
    BY <2>5 DEF FreeLeft
  <2>8. Allowance' = (ledger.balance + c - r) + FreeLeft + (taken[x] + r)
    BY <2>5, <2>6, <2>7 DEF Allowance
  <2> QED BY <1>0, <2>3, <2>4, <2>8
<1>3. CASE ~(~pay.odd /\ Moves(pay) /\ ~IsDuplicate(x))
  <2>1. ledger' = ledger /\ (purchase' = purchase \/ purchase' = [purchase EXCEPT !.state = "REVIEW"])
    BY <1>3 DEF Applied
  <2>2. purchase'.own = purchase.own
    BY <2>1 DEF PurchaseType
  <2> QED BY <1>1, <2>1, <2>2
<1> QED BY <1>2, <1>3

LEMMA NextFits ==
  ASSUME LedgerInv, LedgerInv', OverdraftInv, [CreditsNext]_creditVars
  PROVE  OverdraftInv'
<1>0. /\ BookTypes /\ ProcessTypes /\ BooksInv /\ purchase \in PurchaseType /\ ledger \in LedgerType
  BY CreditTypeParts DEF LedgerInv, BookTypes
<1>1. BookTypes'
  BY CreditTypePartsPrimed DEF LedgerInv
<1>2. Allowance \in Int /\ Allowance' \in Int
  <2>1. purchase' \in PurchaseType /\ ledger' \in LedgerType
    BY <1>1 DEF BookTypes
  <2>2. ledger'.balance \in Int /\ FreeLeft' \in Int
    BY <2>1, CreditsAssumption DEF LedgerType, FreeLeft
  <2>3. TakenBack' \in Int
    BY <2>1, CreditsAssumption DEF TakenBack, LedgerType, PurchaseType
  <2> QED BY <1>0, <2>2, <2>3, AllowanceTyped DEF Allowance
<1>3. ASSUME ledger' = ledger, purchase'.own = purchase.own, requester' = requester, calls' = calls
      PROVE  OverdraftInv'
  <2>1. Allowance' = Allowance
    BY <1>3 DEF Allowance, FreeLeft, TakenBack
  <2>2. Allowance' >= Allowance
    BY <2>1, <1>2
  <2> QED BY <1>0, <1>2, <1>3, <2>2, NothingSpent
<1>4. ASSUME NEW b \in Buyers, Buy(b) \/ BuyerStep(b) \/ BuyerStops(b)
      PROVE  OverdraftInv'
  <2>1. purchase'.own = purchase.own
    BY <1>4, <1>0 DEF Buy, BuyerStep, BuyerStops, ReserveCheckout, CreatePreference, FindPreference,
                      RecordCheckout, PurchaseType
  <2>2. ledger' = ledger /\ requester' = requester /\ calls' = calls
    BY <1>4 DEF Buy, BuyerStep, BuyerStops, ReserveCheckout, CreatePreference, FindPreference, RecordCheckout
  <2> QED BY <2>1, <2>2, <1>3
<1>5. ASSUME NEW h \in Handlers, NEW x \in Payments, ApplyPayment(h, x)
      PROVE  OverdraftInv'
  <2>1. handler[h].seen[x] \in Paying
    BY <1>0 DEF ProcessTypes, HandlerType
  <2>2. Applied(x, handler[h].seen[x])
    BY <1>5 DEF ApplyPayment
  <2>3. Allowance' >= Allowance
    BY <1>0, <1>1, <2>1, <2>2, PaymentFits
  <2> QED BY <1>0, <1>2, <1>5, <2>3, NothingSpent DEF ApplyPayment
<1>6. ASSUME NEW h \in Handlers, CloseExpired(h)
      PROVE  OverdraftInv'
  <2>1. purchase'.own = purchase.own
    BY <1>6, <1>0 DEF CloseExpired, PurchaseType
  <2> QED BY <1>6, <2>1, <1>3 DEF CloseExpired
<1>7. ASSUME NEW r \in Requesters, StartRequest(r) \/ RequesterStep(r) \/ RequesterStops(r)
      PROVE  OverdraftInv'
  BY <1>0, <1>1, <1>7, RequestsFit
<1>8. CASE Grant
  <2>1. /\ purchase' = purchase /\ ledger'.balance = ledger.balance + 1 /\ ledger'.free = ledger.free
        /\ ledger'.reversed = ledger.reversed /\ requester' = requester /\ calls' = calls
    BY <1>0, <1>8, GrantTyped DEF Grant
  <2>2. FreeLeft' = FreeLeft /\ TakenBack' = TakenBack
    BY <2>1 DEF FreeLeft, TakenBack
  <2>3. Allowance' >= Allowance
    BY <1>0, <2>1, <2>2, AllowanceTyped DEF Allowance
  <2> QED BY <1>0, <1>2, <2>1, <2>3, NothingSpent
<1>9. CASE \/ \E x \in Payments : \/ \E odd \in BOOLEAN : StartPayment(x, odd)
                                  \/ ApprovePayment(x) \/ ChargeBack(x)
                                  \/ \E back \in 1..Pack : RefundPayment(x, back)
           \/ \E h \in Handlers, x \in Payments : ReceivePayment(h, x)
           \/ \E h \in Handlers : Reconcile(h) \/ HandlerStops(h)
           \/ Expire \/ UNCHANGED creditVars
  <2>1. ledger' = ledger /\ purchase' = purchase /\ requester' = requester /\ calls' = calls
    BY <1>9 DEF StartPayment, ApprovePayment, ChargeBack, RefundPayment, Pay, ReceivePayment, Reconcile,
                HandlerStops, Expire, creditVars
  <2> QED BY <2>1, <1>3
<1> QED BY <1>4, <1>5, <1>6, <1>7, <1>8, <1>9 DEF CreditsNext, HandlerStep

LEMMA InitFits ==
  ASSUME CreditsInit, LedgerInv, Requesters # {}
  PROVE  OverdraftInv
<1>0. BookTypes
  BY CreditTypeParts DEF LedgerInv
<1>1. Asking({"check", "call"}) = {} /\ Asking({"call"}) = {} /\ calls = 0
  BY DEF Asking, CreditsInit
<1>2. Cardinality(Asking({"check", "call"})) = 0 /\ Cardinality(Asking({"call"})) = 0
  BY <1>1, FS_EmptySet
<1>3. Conversations \in Nat /\ Conversations # 0
  BY CreditsAssumption, FS_EmptySet, CountAsking DEF Conversations
<1>4. Allowance \in Nat
  BY <1>0, AllowanceTyped DEF Allowance, CreditsInit
<1>5. Spare = Conversations
  BY <1>1, <1>2, <1>3 DEF Spare
<1>6. Costs(Conversations) >= 1 /\ Costs(Conversations) \in Int
  <2>1. Costs(1) <= Costs(Conversations) /\ Costs(1) \in Int /\ Costs(Conversations) \in Int
    BY <1>3, CostsAdd
  <2>2. Costs(1) >= 1
    BY CreditsAssumption DEF Costs
  <2> QED BY <2>1, <2>2
<1>7. CreditFits
  BY <1>4, <1>5, <1>6 DEF CreditFits
<1>8. CallsFit
  BY <1>1, <1>2, <1>3 DEF CallsFit
<1> QED BY <1>7, <1>8 DEF OverdraftInv

LEMMA FitsBound ==
  ASSUME LedgerInv, OverdraftInv
  PROVE  OverdraftBounded
<1> DEFINE j == Cardinality(Asking({"call"}))
           n == Conversations
<1>0. BookTypes
  BY CreditTypeParts DEF LedgerInv
<1>1. Allowance \in Int /\ calls \in Nat /\ j \in Nat /\ n \in Nat
  BY <1>0, AllowanceTyped, CountAsking DEF BookTypes
<1>2. Allowance + Costs(n - (calls + j)) >= 1
  BY DEF OverdraftInv, CreditFits, Spare
<1> HIDE DEF j, n
<1>3. Costs(n - (calls + j)) <= Costs(n) /\ Costs(n - (calls + j)) \in Int /\ Costs(n) \in Int
  <2>1. n - (calls + j) <= n /\ n - (calls + j) \in Int
    BY <1>1
  <2> QED BY <1>1, <2>1, CostsAdd
<1>4. Allowance >= 1 - Costs(n)
  BY <1>1, <1>2, <1>3
<1> QED BY <1>4 DEF n, Costs, Conversations, Allowance, OverdraftBounded

\* However many conversations there are, and whatever a call costs, the balance
\* ends at most one call for each of them below zero, plus what refunds took
\* back: calls that died uncharged are charged before the next check.
THEOREM OverdraftIsBounded ==
  ASSUME Requesters # {}
  PROVE  CreditsSpec => []OverdraftBounded
<1>1. CreditsInit /\ LedgerInv => OverdraftInv
  BY InitFits
<1>2. LedgerInv /\ LedgerInv' /\ OverdraftInv /\ [CreditsNext]_creditVars => OverdraftInv'
  BY NextFits
<1>3. LedgerInv /\ OverdraftInv => OverdraftBounded
  BY FitsBound
<1>4. CreditsSpec => CreditsInit /\ [][CreditsNext]_creditVars
  BY DEF CreditsSpec
<1> QED BY <1>1, <1>2, <1>3, <1>4, LedgerInvHolds, PTL

===============================================================================
