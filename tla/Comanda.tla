------------------------------ MODULE Comanda ------------------------------
(***************************************************************************)
(* The products of a salon's appointments: reserved with a booking, given  *)
(* back by its cancellation, settled when the comanda is closed and paid,  *)
(* and adjusted by hand.                                                   *)
(*                                                                         *)
(* As in Booking, a transaction locks and reads (Check...), locks its      *)
(* products and reads their stock (ReadStock) and writes everything at its *)
(* commit, where the updates conditional on the status and on the stock    *)
(* read are evaluated; a throw, a repetition or a timeout is a Rollback.   *)
(*                                                                         *)
(* Left out: prices, discounts and extra services, professionals, the      *)
(* audit rows and versions (within one appointment's lock the status       *)
(* stands for the version).  CONFIRMED stands for every active status.     *)
(***************************************************************************)
EXTENDS Integers, FiniteSets

CONSTANTS Appts, Products, Txs,
          Free,          \* owner of a lock nobody holds
          InitialStock,  \* stock of every product at the start
          MaxQuantity,   \* bound of a line's quantity
          MaxAdjust      \* bound of the manual movements, up and down

ASSUME BoundsAssumption ==
  /\ Free \notin Txs /\ IsFiniteSet(Appts) /\ IsFiniteSet(Products)
  /\ InitialStock \in Nat /\ MaxQuantity \in Nat \ {0} /\ MaxAdjust \in Nat

VARIABLES
  status,    \* status of every appointment
  begun,     \* appointments whose start has passed
  line,      \* AppointmentProduct: quantity of a product in an appointment
  payments,  \* number of payments of an appointment
  stock, active,   \* Product rows
  moved,     \* net manual movement of a product (its audited adjustments)
  lock,      \* owners of the advisory locks
  tx         \* the open transactions

rows == <<status, begun, line, payments, stock, active, moved>>
vars == <<status, begun, line, payments, stock, active, moved, lock, tx>>

None == 0
Lines == [Products -> 0..MaxQuantity]
NoLines == [p \in Products |-> 0]
In(ls) == {p \in Products : ls[p] > 0}

ApptLock(a) == <<"appointment", a>>
ProductLock(p) == <<"product", p>>
Locks == {ApptLock(a) : a \in Appts} \cup {ProductLock(p) : p \in Products}

(* A transaction: the appointment, the lines and the status it read, the   *)
(* lines it wants, a manual movement, and the stock it read.               *)
Idle == [pc |-> "idle", op |-> "close", ap |-> None, read |-> NoLines, wish |-> NoLines,
         st |-> "CONFIRMED", delta |-> 0, seen |-> NoLines]

Acquire(t, ls) ==
  /\ \A l \in ls : lock[l] \in {Free, t}
  /\ lock' = [l \in Locks |-> IF l \in ls THEN t ELSE lock[l]]

End(t) ==
  /\ lock' = [l \in Locks |-> IF lock[l] = t THEN Free ELSE lock[l]]
  /\ tx' = [tx EXCEPT ![t] = Idle]

Rollback(t) == tx[t].pc # "idle" /\ End(t) /\ UNCHANGED rows

AppointmentScope(a) == {ApptLock(a)}
ProductScope(ps) == {ProductLock(p) : p \in ps}

-----------------------------------------------------------------------------
(* createAppointmentWithProductReservation and reserveAppointmentProducts: *)
(* a new appointment with products, at one of the free identifiers.        *)
CheckCreate(t) ==
  \E a \in Appts, want \in Lines :
    /\ tx[t].pc = "idle" /\ status[a] = "ABSENT" /\ want # NoLines
    /\ tx' = [tx EXCEPT ![t] = [Idle EXCEPT !.pc = "stock", !.op = "create", !.ap = a,
                                            !.st = "ABSENT", !.wish = want]]
    /\ UNCHANGED <<rows, lock>>

(* As Unpaid, without looking for a payment.                               *)
Unpaid_Unchecked(a) == payments[a] \in Nat
(* The query for a payment, and the unique index on Payment.appointmentId. *)
Unpaid(a) == payments[a] = 0

(* closeComandaReliably up to its product locks: an appointment that is    *)
(* neither cancelled nor missed, whose start has passed, not yet paid.     *)
CheckClose(t) ==
  \E a \in Appts, want \in Lines :
    /\ tx[t].pc = "idle" /\ begun[a]
    /\ status[a] \in {"CONFIRMED", "COMPLETED"} /\ Unpaid(a)
    /\ Acquire(t, AppointmentScope(a))
    /\ tx' = [tx EXCEPT ![t] = [Idle EXCEPT !.pc = "stock", !.op = "close", !.ap = a,
                                            !.st = status[a], !.read = line[a], !.wish = want]]
    /\ UNCHANGED rows

CheckCancel(t) ==
  \E a \in Appts :
    /\ tx[t].pc = "idle" /\ ~begun[a] /\ status[a] = "CONFIRMED"
    /\ Acquire(t, AppointmentScope(a))
    /\ tx' = [tx EXCEPT ![t] = [Idle EXCEPT !.pc = "stock", !.op = "cancel", !.ap = a,
                                            !.st = status[a], !.read = line[a]]]
    /\ UNCHANGED rows

(* updateAppointmentStatusReliably: the visit took place, or nobody came.  *)
CheckStatus(t) ==
  \E a \in Appts, op \in {"COMPLETED", "NO_SHOW"} :
    /\ tx[t].pc = "idle" /\ begun[a] /\ status[a] = "CONFIRMED"
    /\ Acquire(t, AppointmentScope(a))
    /\ tx' = [tx EXCEPT ![t] = [Idle EXCEPT !.pc = "ready", !.op = op, !.ap = a,
                                            !.st = status[a]]]
    /\ UNCHANGED rows

CheckAdjust(t) ==
  \E p \in Products, d \in {-1, 1} :
    /\ tx[t].pc = "idle" /\ moved[p] + d \in -MaxAdjust..MaxAdjust
    /\ Acquire(t, ProductScope({p}))
    /\ stock[p] + d >= 0                         \* validateStockAdjustment
    /\ tx' = [tx EXCEPT ![t] = [Idle EXCEPT !.pc = "ready", !.op = "adjust",
                                            !.wish = [NoLines EXCEPT ![p] = 1],
                                            !.delta = d, !.seen = stock]]
    /\ UNCHANGED rows

(* As StockDelta, taking what is added and never giving back.              *)
StockDelta_NoReturn(t, p) ==
  IF tx[t].wish[p] > tx[t].read[p] THEN tx[t].read[p] - tx[t].wish[p] ELSE 0
(* reconcileReservedProduct: what the comanda gives back, or takes.        *)
StockDelta(t, p) == tx[t].read[p] - tx[t].wish[p]

(* The products' locks and stocks: an inactive product is not added to,    *)
(* and no more is taken than there is.                                     *)
ReadStock(t) ==
  /\ tx[t].pc = "stock"
  /\ Acquire(t, ProductScope(In(tx[t].read) \cup In(tx[t].wish)))
  /\ \A p \in Products : StockDelta(t, p) < 0 => active[p] /\ -StockDelta(t, p) <= stock[p]
  /\ tx' = [tx EXCEPT ![t].pc = "ready", ![t].seen = stock]
  /\ UNCHANGED rows

StockAsRead(t, ps) == \A p \in ps : stock[p] = tx[t].seen[p]
StatusAsRead(t) == status[tx[t].ap] = tx[t].st

(* The settlement of the lines of one transaction.                         *)
Settle(t) ==
  LET a == tx[t].ap
      touched == {p \in Products : StockDelta(t, p) # 0} IN
  /\ StatusAsRead(t) /\ StockAsRead(t, touched)
  /\ stock' = [p \in Products |-> stock[p] + StockDelta(t, p)]

CommitCreate(t) ==
  LET a == tx[t].ap IN
  /\ tx[t].pc = "ready" /\ tx[t].op = "create"
  /\ Settle(t)
  /\ status' = [status EXCEPT ![a] = "CONFIRMED"]
  /\ line' = [line EXCEPT ![a] = tx[t].wish]
  /\ End(t)
  /\ UNCHANGED <<begun, payments, active, moved>>

CommitClose(t) ==
  LET a == tx[t].ap IN
  /\ tx[t].pc = "ready" /\ tx[t].op = "close"
  /\ Settle(t) /\ Unpaid(a)
  /\ status' = [status EXCEPT ![a] = "COMPLETED"]
  /\ line' = [line EXCEPT ![a] = tx[t].wish]
  /\ payments' = [payments EXCEPT ![a] = @ + 1]
  /\ End(t)
  /\ UNCHANGED <<begun, active, moved>>

(* cancelAppointmentReliably keeps the lines of what it gave back.         *)
CommitCancel(t) ==
  /\ tx[t].pc = "ready" /\ tx[t].op = "cancel"
  /\ Settle(t)
  /\ status' = [status EXCEPT ![tx[t].ap] = "CANCELLED"]
  /\ End(t)
  /\ UNCHANGED <<begun, line, payments, active, moved>>

CommitStatus(t) ==
  /\ tx[t].pc = "ready" /\ tx[t].op \in {"COMPLETED", "NO_SHOW"}
  /\ StatusAsRead(t)
  /\ status' = [status EXCEPT ![tx[t].ap] = tx[t].op]
  /\ End(t)
  /\ UNCHANGED <<begun, line, payments, stock, active, moved>>

CommitAdjust(t) ==
  \E p \in In(tx[t].wish) :
    /\ tx[t].pc = "ready" /\ tx[t].op = "adjust"
    /\ StockAsRead(t, {p})
    /\ stock' = [stock EXCEPT ![p] = tx[t].seen[p] + tx[t].delta]
    /\ moved' = [moved EXCEPT ![p] = @ + tx[t].delta]
    /\ End(t)
    /\ UNCHANGED <<status, begun, line, payments, active>>

(* toggleProductActive, in one step: it holds only the product's lock.     *)
ToggleActive(p) ==
  /\ lock[ProductLock(p)] = Free
  /\ active' = [active EXCEPT ![p] = ~@]
  /\ UNCHANGED <<status, begun, line, payments, stock, moved, lock, tx>>

(* The start of an appointment passes.                                     *)
Arrive(a) ==
  /\ status[a] # "ABSENT" /\ ~begun[a]
  /\ begun' = [begun EXCEPT ![a] = TRUE]
  /\ UNCHANGED <<status, line, payments, stock, active, moved, lock, tx>>

Init ==
  /\ status = [a \in Appts |-> "ABSENT"]
  /\ begun = [a \in Appts |-> FALSE]
  /\ line = [a \in Appts |-> NoLines]
  /\ payments = [a \in Appts |-> 0]
  /\ stock = [p \in Products |-> InitialStock]
  /\ active = [p \in Products |-> TRUE]
  /\ moved = [p \in Products |-> 0]
  /\ lock = [l \in Locks |-> Free]
  /\ tx = [t \in Txs |-> Idle]

TxNext(t) ==
  \/ CheckCreate(t) \/ CheckClose(t) \/ CheckCancel(t) \/ CheckStatus(t) \/ CheckAdjust(t)
  \/ ReadStock(t)
  \/ CommitCreate(t) \/ CommitClose(t) \/ CommitCancel(t) \/ CommitStatus(t) \/ CommitAdjust(t)
  \/ Rollback(t)

Next ==
  \/ \E t \in Txs : TxNext(t)
  \/ \E p \in Products : ToggleActive(p)
  \/ \E a \in Appts : Arrive(a)

Spec == Init /\ [][Next]_vars

-----------------------------------------------------------------------------
(* Every table, lock and transaction has its type; no stock is negative.   *)
Operations == {"create", "close", "cancel", "adjust", "COMPLETED", "NO_SHOW"}
TypeOK ==
  /\ status \in [Appts -> {"ABSENT", "CONFIRMED", "COMPLETED", "CANCELLED", "NO_SHOW"}]
  /\ begun \in [Appts -> BOOLEAN] /\ line \in [Appts -> Lines]
  /\ payments \in [Appts -> Nat]
  /\ stock \in [Products -> Nat] /\ active \in [Products -> BOOLEAN]
  /\ moved \in [Products -> -MaxAdjust..MaxAdjust]
  /\ lock \in [Locks -> Txs \cup {Free}]
  /\ tx \in [Txs -> [pc : {"idle", "stock", "ready"}, op : Operations,
                     ap : Appts \cup {None}, read : Lines, wish : Lines,
                     st : {"ABSENT", "CONFIRMED", "COMPLETED"}, delta : {-1, 0, 1},
                     seen : [Products -> Nat]]]

(* Nothing is lost and nothing is returned twice: what is on the shelf and *)
(* in appointments that were not cancelled is what was there at the start  *)
(* and was moved by hand.                                                  *)
Holders == {a \in Appts : status[a] \notin {"ABSENT", "CANCELLED"}}
Held(p) == {u \in Holders \X (1..MaxQuantity) : u[2] <= line[u[1]][p]}
StockConserved ==
  \A p \in Products : stock[p] + Cardinality(Held(p)) = InitialStock + moved[p]

(* A visit is paid at most once, and only as a completed one.              *)
PaidOnce ==
  \A a \in Appts : payments[a] > 0 => payments[a] = 1 /\ status[a] = "COMPLETED"

(* What was paid for stays what was handed over.                           *)
PaidLinesStay == [][\A a \in Appts : payments[a] > 0 => line'[a] = line[a]]_vars
=============================================================================
