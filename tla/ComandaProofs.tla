---------------------------- MODULE ComandaProofs ----------------------------
(* The comanda and the stock, for any number of appointments, products and     *)
(* transactions, any stock and any quantities.                                 *)
EXTENDS Comanda, FiniteSetTheorems, TLAPS

-----------------------------------------------------------------------------
(* What an open transaction has read and wants.                                *)

TxRow == [pc : {"idle", "stock", "ready"}, op : Operations,
          ap : Appts \cup {None}, read : Lines, wish : Lines,
          st : {"ABSENT", "CONFIRMED", "COMPLETED"}, delta : {-1, 0, 1},
          seen : [Products -> Nat]]

\* The operations that settle the lines of an appointment.
Settling == {"create", "close", "cancel"}
Filled(x) ==
    /\ x.pc = "stock" => x.op \in Settling
    /\ x.pc # "idle" /\ x.op # "adjust" => x.ap \in Appts
    /\ x.pc # "idle" /\ x.op = "create" => x.st = "ABSENT"
    /\ x.pc # "idle" /\ x.op \in {"cancel", "COMPLETED", "NO_SHOW"} => x.st = "CONFIRMED"
    /\ x.pc = "ready" /\ x.op \in Settling => \A p \in Products : x.seen[p] + (x.read[p] - x.wish[p]) >= 0

\* A manual movement keeps the lock of its product, and fits what it read.
Adjusting(t) ==
    tx[t].pc = "ready" /\ tx[t].op = "adjust" =>
        \A p \in Products : tx[t].wish[p] > 0 =>
            /\ lock[ProductLock(p)] = t
            /\ tx[t].seen[p] + tx[t].delta >= 0
            /\ moved[p] + tx[t].delta \in -MaxAdjust..MaxAdjust

RowsOK == /\ status \in [Appts -> {"ABSENT", "CONFIRMED", "COMPLETED", "CANCELLED", "NO_SHOW"}]
          /\ begun \in [Appts -> BOOLEAN] /\ line \in [Appts -> Lines]
          /\ payments \in [Appts -> Nat]
          /\ stock \in [Products -> Nat] /\ active \in [Products -> BOOLEAN]
          /\ moved \in [Products -> -MaxAdjust..MaxAdjust]
LocksOK == lock \in [Locks -> Txs \cup {Free}]
TxsOK == tx \in [Txs -> TxRow] /\ \A t \in Txs : Filled(tx[t])

ComandaInv == RowsOK /\ LocksOK /\ TxsOK /\ (\A t \in Txs : Adjusting(t)) /\ PaidOnce

LEMMA IdleOK == Idle \in TxRow /\ Idle.pc = "idle" /\ Idle.read \in Lines /\ Idle.delta = 0 /\ Filled(Idle) /\ NoLines \in Lines
BY BoundsAssumption DEF Idle, TxRow, Filled, NoLines, Lines, None, Operations

LEMMA LockNames == \A p \in Products : ProductLock(p) \in Locks
BY DEF Locks

LEMMA AcquireStep ==
  ASSUME LocksOK, NEW t \in Txs, NEW ls, Acquire(t, ls)
  PROVE  /\ LocksOK' /\ \A l \in Locks \cap ls : lock'[l] = t
         /\ \A l \in Locks, e \in Txs : lock[l] = e => lock'[l] = e
BY BoundsAssumption DEF LocksOK, Acquire

\* A transaction goes on: it read something and may have taken locks.
LEMMA BeginKeeps ==
  ASSUME ComandaInv, NEW t \in Txs, NEW x \in TxRow, Filled(x), tx' = [tx EXCEPT ![t] = x], UNCHANGED rows,
         UNCHANGED lock \/ \E ls : Acquire(t, ls), x.op = "adjust" => Adjusting(t)'
  PROVE  ComandaInv'
<1> USE DEF ComandaInv
<1>1. TxsOK' /\ tx'[t] = x /\ \A e \in Txs : e # t => tx'[e] = tx[e]
  BY DEF TxsOK
<1>2. LocksOK' /\ \A l \in Locks, e \in Txs : lock[l] = e => lock'[l] = e
  <2>1. ASSUME NEW ls, Acquire(t, ls) PROVE LocksOK' /\ \A l \in Locks, e \in Txs : lock[l] = e => lock'[l] = e
    BY <2>1, AcquireStep
  <2> QED BY <2>1 DEF LocksOK
<1>3. RowsOK' /\ PaidOnce' /\ UNCHANGED moved
  BY DEF RowsOK, PaidOnce, rows
<1>4. ASSUME NEW e \in Txs PROVE Adjusting(e)'
  <2>1. CASE e = t
    BY <1>1, <2>1 DEF Adjusting
  <2>2. CASE e # t
    BY <1>1, <1>2, <1>3, <2>2, LockNames DEF Adjusting
  <2> QED BY <2>1, <2>2
<1> QED BY <1>1, <1>2, <1>3, <1>4

LEMMA EndStep ==
  ASSUME ComandaInv, NEW t \in Txs, End(t)
  PROVE  /\ LocksOK' /\ TxsOK' /\ tx'[t].pc = "idle"
         /\ \A e \in Txs : e # t => tx'[e] = tx[e] /\ \A l \in Locks : lock[l] = e => lock'[l] = e
<1> USE DEF ComandaInv
<1> DEFINE i == Idle
<1>1. i \in TxRow /\ i.pc = "idle" /\ Filled(i) /\ tx' = [tx EXCEPT ![t] = i]
  BY IdleOK DEF End
<1> HIDE DEF i
<1>2. TxsOK' /\ tx'[t].pc = "idle" /\ \A e \in Txs : e # t => tx'[e] = tx[e]
  BY <1>1 DEF TxsOK
<1>3. LocksOK' /\ \A e \in Txs : e # t => \A l \in Locks : lock[l] = e => lock'[l] = e
  BY DEF End, LocksOK
<1> QED BY <1>2, <1>3

\* The end of a transaction that moved nothing by hand.
LEMMA EndKeeps ==
  ASSUME ComandaInv, NEW t \in Txs, End(t), RowsOK', PaidOnce', UNCHANGED moved
  PROVE  ComandaInv'
<1>1. /\ LocksOK' /\ TxsOK' /\ tx'[t].pc = "idle"
      /\ \A e \in Txs : e # t => tx'[e] = tx[e] /\ \A l \in Locks : lock[l] = e => lock'[l] = e
  BY EndStep
<1>2. ASSUME NEW e \in Txs PROVE Adjusting(e)'
  <2>1. CASE e = t
    BY <1>1, <2>1 DEF Adjusting
  <2>2. CASE e # t
    BY <1>1, <2>2, LockNames DEF Adjusting, ComandaInv
  <2> QED BY <2>1, <2>2
<1> QED BY <1>1, <1>2 DEF ComandaInv

-----------------------------------------------------------------------------
(* The transactions begin.                                                     *)

LEMMA CheckCreateKeeps == ASSUME ComandaInv, NEW t \in Txs, CheckCreate(t) PROVE ComandaInv'
<1> PICK a \in Appts, want \in Lines :
       /\ tx' = [tx EXCEPT ![t] = [Idle EXCEPT !.pc = "stock", !.op = "create", !.ap = a, !.st = "ABSENT", !.wish = want]]
       /\ UNCHANGED <<rows, lock>>
  BY DEF CheckCreate
<1> DEFINE i == Idle
           x == [i EXCEPT !.pc = "stock", !.op = "create", !.ap = a, !.st = "ABSENT", !.wish = want]
<1>1. tx' = [tx EXCEPT ![t] = x] /\ i \in TxRow
  BY IdleOK
<1> HIDE DEF i
<1>2. x \in TxRow /\ x.pc = "stock" /\ x.op = "create" /\ x.ap = a /\ x.st = "ABSENT"
  BY <1>1 DEF TxRow, Operations
<1> HIDE DEF x
<1>3. Filled(x)
  BY <1>2 DEF Filled, Settling
<1> QED BY <1>1, <1>2, <1>3, BeginKeeps

LEMMA CheckCloseKeeps == ASSUME ComandaInv, NEW t \in Txs, CheckClose(t) PROVE ComandaInv'
<1> PICK a \in Appts, want \in Lines :
       /\ status[a] \in {"CONFIRMED", "COMPLETED"} /\ Acquire(t, AppointmentScope(a)) /\ UNCHANGED rows
       /\ tx' = [tx EXCEPT ![t] = [Idle EXCEPT !.pc = "stock", !.op = "close", !.ap = a,
                                               !.st = status[a], !.read = line[a], !.wish = want]]
  BY DEF CheckClose
<1> DEFINE i == Idle
           x == [i EXCEPT !.pc = "stock", !.op = "close", !.ap = a, !.st = status[a], !.read = line[a], !.wish = want]
<1>1. tx' = [tx EXCEPT ![t] = x] /\ i \in TxRow /\ line[a] \in Lines
  BY IdleOK DEF ComandaInv, RowsOK
<1> HIDE DEF i
<1>2. x \in TxRow /\ x.pc = "stock" /\ x.op = "close" /\ x.ap = a
  BY <1>1 DEF TxRow, Operations
<1> HIDE DEF x
<1>3. Filled(x)
  BY <1>2 DEF Filled, Settling
<1> QED BY <1>1, <1>2, <1>3, BeginKeeps

LEMMA CheckCancelKeeps == ASSUME ComandaInv, NEW t \in Txs, CheckCancel(t) PROVE ComandaInv'
<1> PICK a \in Appts :
       /\ status[a] = "CONFIRMED" /\ Acquire(t, AppointmentScope(a)) /\ UNCHANGED rows
       /\ tx' = [tx EXCEPT ![t] = [Idle EXCEPT !.pc = "stock", !.op = "cancel", !.ap = a,
                                               !.st = status[a], !.read = line[a]]]
  BY DEF CheckCancel
<1> DEFINE i == Idle
           x == [i EXCEPT !.pc = "stock", !.op = "cancel", !.ap = a, !.st = status[a], !.read = line[a]]
<1>1. tx' = [tx EXCEPT ![t] = x] /\ i \in TxRow /\ line[a] \in Lines
  BY IdleOK DEF ComandaInv, RowsOK
<1> HIDE DEF i
<1>2. x \in TxRow /\ x.pc = "stock" /\ x.op = "cancel" /\ x.ap = a /\ x.st = "CONFIRMED"
  BY <1>1 DEF TxRow, Operations
<1> HIDE DEF x
<1>3. Filled(x)
  BY <1>2 DEF Filled, Settling
<1> QED BY <1>1, <1>2, <1>3, BeginKeeps

LEMMA CheckStatusKeeps == ASSUME ComandaInv, NEW t \in Txs, CheckStatus(t) PROVE ComandaInv'
<1> PICK a \in Appts, op \in {"COMPLETED", "NO_SHOW"} :
       /\ status[a] = "CONFIRMED" /\ Acquire(t, AppointmentScope(a)) /\ UNCHANGED rows
       /\ tx' = [tx EXCEPT ![t] = [Idle EXCEPT !.pc = "ready", !.op = op, !.ap = a, !.st = status[a]]]
  BY DEF CheckStatus
<1> DEFINE i == Idle
           x == [i EXCEPT !.pc = "ready", !.op = op, !.ap = a, !.st = status[a]]
<1>1. tx' = [tx EXCEPT ![t] = x] /\ i \in TxRow
  BY IdleOK
<1> HIDE DEF i
<1>2. x \in TxRow /\ x.pc = "ready" /\ x.op = op /\ x.ap = a /\ x.st = "CONFIRMED"
  BY <1>1 DEF TxRow, Operations
<1> HIDE DEF x
<1>3. Filled(x)
  BY <1>2 DEF Filled, Settling
<1> QED BY <1>1, <1>2, <1>3, BeginKeeps

LEMMA CheckAdjustKeeps == ASSUME ComandaInv, NEW t \in Txs, CheckAdjust(t) PROVE ComandaInv'
<1> PICK p \in Products, d \in {-1, 1} :
       /\ moved[p] + d \in -MaxAdjust..MaxAdjust /\ Acquire(t, ProductScope({p})) /\ stock[p] + d >= 0
       /\ tx' = [tx EXCEPT ![t] = [Idle EXCEPT !.pc = "ready", !.op = "adjust", !.wish = [NoLines EXCEPT ![p] = 1],
                                               !.delta = d, !.seen = stock]]
       /\ UNCHANGED rows
  BY DEF CheckAdjust
<1> DEFINE i == Idle
           one == [NoLines EXCEPT ![p] = 1]
           x == [i EXCEPT !.pc = "ready", !.op = "adjust", !.wish = one, !.delta = d, !.seen = stock]
<1>1. tx' = [tx EXCEPT ![t] = x] /\ i \in TxRow /\ stock \in [Products -> Nat] /\ moved' = moved
      /\ tx \in [Txs -> TxRow] /\ LocksOK
  BY IdleOK DEF ComandaInv, RowsOK, TxsOK, rows
<1>2. one \in Lines /\ \A q \in Products : one[q] > 0 => q = p
  BY BoundsAssumption DEF NoLines, Lines
<1> HIDE DEF i, one
<1>3. x \in TxRow /\ x.pc = "ready" /\ x.op = "adjust" /\ x.wish = one /\ x.delta = d /\ x.seen = stock
  BY <1>1, <1>2 DEF TxRow, Operations
<1> HIDE DEF x
<1>4. Filled(x) /\ tx'[t] = x
  BY <1>1, <1>3 DEF Filled, Settling
<1>5. lock'[ProductLock(p)] = t
  BY <1>1, AcquireStep, LockNames DEF ProductScope
<1>6. Adjusting(t)'
  BY <1>1, <1>2, <1>3, <1>4, <1>5 DEF Adjusting
<1> QED BY <1>1, <1>3, <1>4, <1>6, BeginKeeps

LEMMA ReadStockKeeps == ASSUME ComandaInv, NEW t \in Txs, ReadStock(t) PROVE ComandaInv'
<1> DEFINE o == tx[t]
           y == [o EXCEPT !.pc = "ready"]
           x == [y EXCEPT !.seen = stock]
<1>1. /\ tx' = [tx EXCEPT ![t] = x] /\ o \in TxRow /\ Filled(o) /\ o.pc = "stock" /\ stock \in [Products -> Nat]
      /\ \A p \in Products : o.read[p] - o.wish[p] < 0 => -(o.read[p] - o.wish[p]) <= stock[p]
  BY DEF ReadStock, ComandaInv, RowsOK, TxsOK, StockDelta
<1>2. UNCHANGED rows /\ \E ls : Acquire(t, ls)
  BY DEF ReadStock
<1> HIDE DEF o
<1>3. y \in TxRow /\ y.pc = "ready" /\ y.op = o.op /\ y.ap = o.ap /\ y.read = o.read /\ y.wish = o.wish /\ y.st = o.st
  BY <1>1 DEF TxRow
<1> HIDE DEF y
<1>4. /\ x \in TxRow /\ x.pc = "ready" /\ x.op = o.op /\ x.ap = o.ap /\ x.read = o.read /\ x.wish = o.wish
      /\ x.st = o.st /\ x.seen = stock
  BY <1>1, <1>3 DEF TxRow
<1> HIDE DEF x
<1>5. o.read \in Lines /\ o.wish \in Lines /\ o.op \in Settling
  BY <1>1 DEF TxRow, Filled
<1>6. \A p \in Products : stock[p] + (o.read[p] - o.wish[p]) >= 0
  <2> SUFFICES ASSUME NEW p \in Products PROVE stock[p] + (o.read[p] - o.wish[p]) >= 0
    OBVIOUS
  <2>1. stock[p] \in Nat /\ o.read[p] \in Int /\ o.wish[p] \in Int
    BY <1>1, <1>5, BoundsAssumption DEF Lines
  <2> QED BY <1>1, <2>1
<1>7. Filled(x)
  BY <1>1, <1>4, <1>5, <1>6 DEF Filled, Settling
<1>8. x.op # "adjust"
  BY <1>4, <1>5 DEF Settling
<1> QED BY <1>1, <1>2, <1>4, <1>7, <1>8, BeginKeeps

-----------------------------------------------------------------------------
(* The transactions commit.                                                    *)

\* A settlement takes no more than there is: the stock is the one that was read.
LEMMA SettleOK ==
  ASSUME ComandaInv, NEW t \in Txs, tx[t].pc = "ready", tx[t].op \in Settling, Settle(t)
  PROVE  stock' \in [Products -> Nat]
<1> SUFFICES ASSUME NEW p \in Products PROVE stock[p] + StockDelta(t, p) \in Nat
  BY DEF Settle
<1> DEFINE o == tx[t]
<1>1. o \in TxRow /\ Filled(o) /\ stock[p] \in Nat
  BY DEF ComandaInv, RowsOK, TxsOK
<1>2. o.read[p] \in Int /\ o.wish[p] \in Int /\ StockDelta(t, p) = o.read[p] - o.wish[p]
  BY <1>1, BoundsAssumption DEF TxRow, Lines, StockDelta
<1>3. o.seen[p] + (o.read[p] - o.wish[p]) >= 0
  BY <1>1 DEF Filled
<1>4. StockDelta(t, p) # 0 => stock[p] = o.seen[p]
  BY DEF Settle, StockAsRead
<1> QED BY <1>1, <1>2, <1>3, <1>4

\* What the row of a settling transaction says when it commits.
LEMMA ReadyRow ==
  ASSUME ComandaInv, NEW t \in Txs, tx[t].pc = "ready", tx[t].op # "adjust"
  PROVE  tx[t] \in TxRow /\ tx[t].ap \in Appts /\ Filled(tx[t]) /\ tx[t].wish \in Lines
BY DEF ComandaInv, TxsOK, Filled, TxRow

LEMMA CommitCreateKeeps == ASSUME ComandaInv, NEW t \in Txs, CommitCreate(t) PROVE ComandaInv'
<1> DEFINE a == tx[t].ap
<1>1. /\ tx[t].pc = "ready" /\ tx[t].op = "create" /\ Settle(t) /\ End(t)
      /\ status' = [status EXCEPT ![a] = "CONFIRMED"] /\ line' = [line EXCEPT ![a] = tx[t].wish]
      /\ UNCHANGED <<begun, payments, active, moved>>
  BY DEF CommitCreate
<1>2. a \in Appts /\ Filled(tx[t]) /\ tx[t].wish \in Lines /\ stock' \in [Products -> Nat]
  BY <1>1, ReadyRow, SettleOK DEF Settling
<1>3. status[a] = "ABSENT"
  BY <1>1, <1>2 DEF Settle, StatusAsRead, Filled
<1>4. RowsOK'
  BY <1>1, <1>2 DEF ComandaInv, RowsOK
<1>5. PaidOnce'
  BY <1>1, <1>2, <1>3 DEF ComandaInv, PaidOnce, RowsOK
<1> QED BY <1>1, <1>4, <1>5, EndKeeps

LEMMA CommitCloseKeeps == ASSUME ComandaInv, NEW t \in Txs, CommitClose(t) PROVE ComandaInv'
<1> DEFINE a == tx[t].ap
<1>1. /\ tx[t].pc = "ready" /\ tx[t].op = "close" /\ Settle(t) /\ End(t) /\ payments[a] = 0
      /\ status' = [status EXCEPT ![a] = "COMPLETED"] /\ line' = [line EXCEPT ![a] = tx[t].wish]
      /\ payments' = [payments EXCEPT ![a] = payments[a] + 1]
      /\ UNCHANGED <<begun, active, moved>>
  BY DEF CommitClose, Unpaid
<1>2. a \in Appts /\ tx[t].wish \in Lines /\ stock' \in [Products -> Nat]
  BY <1>1, ReadyRow, SettleOK DEF Settling
<1>3. payments' = [payments EXCEPT ![a] = 1]
  BY <1>1
<1>4. RowsOK'
  BY <1>1, <1>2, <1>3 DEF ComandaInv, RowsOK
<1>5. PaidOnce'
  BY <1>1, <1>2, <1>3 DEF ComandaInv, PaidOnce, RowsOK
<1> QED BY <1>1, <1>4, <1>5, EndKeeps

LEMMA CommitCancelKeeps == ASSUME ComandaInv, NEW t \in Txs, CommitCancel(t) PROVE ComandaInv'
<1> DEFINE a == tx[t].ap
<1>1. /\ tx[t].pc = "ready" /\ tx[t].op = "cancel" /\ Settle(t) /\ End(t)
      /\ status' = [status EXCEPT ![a] = "CANCELLED"]
      /\ UNCHANGED <<begun, line, payments, active, moved>>
  BY DEF CommitCancel
<1>2. a \in Appts /\ Filled(tx[t]) /\ stock' \in [Products -> Nat]
  BY <1>1, ReadyRow, SettleOK DEF Settling
<1>3. status[a] = "CONFIRMED"
  BY <1>1, <1>2 DEF Settle, StatusAsRead, Filled
<1>4. RowsOK'
  BY <1>1, <1>2 DEF ComandaInv, RowsOK
<1>5. PaidOnce'
  BY <1>1, <1>2, <1>3 DEF ComandaInv, PaidOnce, RowsOK
<1> QED BY <1>1, <1>4, <1>5, EndKeeps

LEMMA CommitStatusKeeps == ASSUME ComandaInv, NEW t \in Txs, CommitStatus(t) PROVE ComandaInv'
<1> DEFINE a == tx[t].ap
           op == tx[t].op
<1>1. /\ tx[t].pc = "ready" /\ op \in {"COMPLETED", "NO_SHOW"} /\ StatusAsRead(t) /\ End(t)
      /\ status' = [status EXCEPT ![a] = op]
      /\ UNCHANGED <<begun, line, payments, stock, active, moved>>
  BY DEF CommitStatus
<1>2. a \in Appts /\ Filled(tx[t])
  BY <1>1, ReadyRow
<1>3. status[a] = "CONFIRMED"
  BY <1>1, <1>2 DEF StatusAsRead, Filled
<1>4. RowsOK'
  BY <1>1, <1>2 DEF ComandaInv, RowsOK
<1>5. PaidOnce'
  BY <1>1, <1>2, <1>3 DEF ComandaInv, PaidOnce, RowsOK
<1> QED BY <1>1, <1>4, <1>5, EndKeeps

LEMMA CommitAdjustKeeps == ASSUME ComandaInv, NEW t \in Txs, CommitAdjust(t) PROVE ComandaInv'
<1> USE DEF ComandaInv
<1>1. PICK p \in In(tx[t].wish) :
       /\ tx[t].pc = "ready" /\ tx[t].op = "adjust" /\ StockAsRead(t, {p}) /\ End(t)
       /\ stock' = [stock EXCEPT ![p] = tx[t].seen[p] + tx[t].delta]
       /\ moved' = [moved EXCEPT ![p] = moved[p] + tx[t].delta]
       /\ UNCHANGED <<status, begun, line, payments, active>>
  BY DEF CommitAdjust
<1>2. /\ p \in Products /\ tx[t] \in TxRow
      /\ lock[ProductLock(p)] = t
      /\ tx[t].seen[p] + tx[t].delta >= 0
      /\ moved[p] + tx[t].delta \in -MaxAdjust..MaxAdjust
  BY <1>1 DEF In, Adjusting, TxsOK
<1>3. tx[t].seen[p] + tx[t].delta \in Nat
  <2>1. tx[t].seen[p] \in Nat /\ tx[t].delta \in Int
    BY <1>2 DEF TxRow
  <2> QED BY <1>2, <2>1
<1>4. RowsOK'
  BY <1>1, <1>2, <1>3 DEF RowsOK
<1>5. PaidOnce'
  BY <1>1 DEF PaidOnce
<1>6. /\ LocksOK' /\ TxsOK' /\ tx'[t].pc = "idle"
      /\ \A e \in Txs : e # t => tx'[e] = tx[e] /\ \A l \in Locks : lock[l] = e => lock'[l] = e
  BY <1>1, EndStep
<1>7. ASSUME NEW e \in Txs PROVE Adjusting(e)'
  <2>1. CASE e = t
    BY <1>6, <2>1 DEF Adjusting
  <2>2. CASE e # t
    <3>1. SUFFICES ASSUME tx[e].pc = "ready", tx[e].op = "adjust", NEW q \in Products, tx[e].wish[q] > 0
                   PROVE  /\ lock'[ProductLock(q)] = e /\ tx[e].seen[q] + tx[e].delta >= 0
                          /\ moved'[q] + tx[e].delta \in -MaxAdjust..MaxAdjust
      BY <1>6, <2>2 DEF Adjusting
    <3>2. /\ lock[ProductLock(q)] = e /\ tx[e].seen[q] + tx[e].delta >= 0
          /\ moved[q] + tx[e].delta \in -MaxAdjust..MaxAdjust
      BY <3>1 DEF Adjusting
    <3>3. q # p /\ lock'[ProductLock(q)] = e
      BY <1>2, <1>6, <2>2, <3>2, LockNames
    <3>4. moved'[q] = moved[q]
      BY <1>1, <3>3 DEF RowsOK
    <3> QED BY <3>2, <3>3, <3>4
  <2> QED BY <2>1, <2>2
<1> QED BY <1>4, <1>5, <1>6, <1>7

-----------------------------------------------------------------------------
LEMMA InitComandaInv == Init => ComandaInv
<1> SUFFICES ASSUME Init PROVE ComandaInv
  OBVIOUS
<1> DEFINE i == Idle
           n == NoLines
<1>1. i \in TxRow /\ i.pc = "idle" /\ Filled(i) /\ n \in Lines
  BY IdleOK
<1>2. /\ tx = [t \in Txs |-> i] /\ line = [a \in Appts |-> n]
      /\ status = [a \in Appts |-> "ABSENT"] /\ begun = [a \in Appts |-> FALSE]
      /\ payments = [a \in Appts |-> 0] /\ stock = [p \in Products |-> InitialStock]
      /\ active = [p \in Products |-> TRUE] /\ moved = [p \in Products |-> 0] /\ lock = [l \in Locks |-> Free]
  BY DEF Init
<1> HIDE DEF i, n
<1>3. RowsOK
  BY <1>1, <1>2, BoundsAssumption DEF RowsOK
<1>4. LocksOK /\ TxsOK
  BY <1>1, <1>2 DEF LocksOK, TxsOK
<1>5. (\A t \in Txs : Adjusting(t)) /\ PaidOnce
  BY <1>1, <1>2 DEF Adjusting, PaidOnce
<1> QED BY <1>3, <1>4, <1>5 DEF ComandaInv

LEMMA NextComandaInv == ComandaInv /\ [Next]_vars => ComandaInv'
<1> SUFFICES ASSUME ComandaInv, [Next]_vars PROVE ComandaInv'
  OBVIOUS
<1>1. ASSUME NEW t \in Txs, CheckCreate(t) \/ CheckClose(t) \/ CheckCancel(t) \/ CheckStatus(t) \/ CheckAdjust(t) \/ ReadStock(t)
      PROVE  ComandaInv'
  BY <1>1, CheckCreateKeeps, CheckCloseKeeps, CheckCancelKeeps, CheckStatusKeeps, CheckAdjustKeeps, ReadStockKeeps
<1>2. ASSUME NEW t \in Txs, CommitCreate(t) \/ CommitClose(t) \/ CommitCancel(t) \/ CommitStatus(t) \/ CommitAdjust(t)
      PROVE  ComandaInv'
  BY <1>2, CommitCreateKeeps, CommitCloseKeeps, CommitCancelKeeps, CommitStatusKeeps, CommitAdjustKeeps
<1>3. ASSUME NEW t \in Txs, Rollback(t) PROVE ComandaInv'
  <2>1. End(t) /\ RowsOK' /\ PaidOnce' /\ UNCHANGED moved
    BY <1>3 DEF Rollback, rows, ComandaInv, RowsOK, PaidOnce
  <2> QED BY <2>1, EndKeeps
<1>4. ASSUME NEW p \in Products, ToggleActive(p) PROVE ComandaInv'
  BY <1>4 DEF ToggleActive, ComandaInv, RowsOK, LocksOK, TxsOK, Adjusting, PaidOnce
<1>5. ASSUME NEW a \in Appts, Arrive(a) PROVE ComandaInv'
  BY <1>5 DEF Arrive, ComandaInv, RowsOK, LocksOK, TxsOK, Adjusting, PaidOnce
<1>6. CASE UNCHANGED vars
  BY <1>6 DEF vars, ComandaInv, RowsOK, LocksOK, TxsOK, Adjusting, PaidOnce
<1> QED BY <1>1, <1>2, <1>3, <1>4, <1>5, <1>6 DEF Next, TxNext

LEMMA ComandaInvariant == Spec => []ComandaInv
BY InitComandaInv, NextComandaInv, PTL DEF Spec

-----------------------------------------------------------------------------
\* The tables, the locks and the transactions keep their types; the stock of a
\* product, a natural number, never becomes negative (reconcileReservedProduct).
THEOREM StockNeverNegative == Spec => []TypeOK
<1>1. ComandaInv => TypeOK
  BY DEF ComandaInv, RowsOK, LocksOK, TxsOK, TxRow, TypeOK
<1> QED BY <1>1, ComandaInvariant, PTL

\* A visit is paid once, as a completed one, however often and by however many
\* people its comanda is closed, cancelled or marked (closeComandaReliably).
THEOREM ComandaPaidOnce == Spec => []PaidOnce
<1>1. ComandaInv => PaidOnce
  BY DEF ComandaInv
<1> QED BY <1>1, ComandaInvariant, PTL

\* The lines of a paid visit never change: the transactions that write lines
\* find it neither absent nor unpaid.
THEOREM PaidLinesAreKept == Spec => PaidLinesStay
<1>1. ComandaInv /\ [Next]_vars => [\A a \in Appts : payments[a] > 0 => line'[a] = line[a]]_vars
  <2> SUFFICES ASSUME ComandaInv, Next, NEW a \in Appts, payments[a] > 0
               PROVE  line'[a] = line[a]
    OBVIOUS
  <2>1. status[a] = "COMPLETED" /\ payments[a] = 1 /\ line \in [Appts -> Lines]
    BY DEF ComandaInv, PaidOnce, RowsOK
  <2>2. ASSUME NEW t \in Txs, CommitCreate(t) PROVE line'[a] = line[a]
    <3>1. /\ line' = [line EXCEPT ![tx[t].ap] = tx[t].wish] /\ status[tx[t].ap] = tx[t].st
          /\ tx[t].pc = "ready" /\ tx[t].op = "create"
      BY <2>2 DEF CommitCreate, Settle, StatusAsRead
    <3>2. tx[t].st = "ABSENT"
      BY <3>1 DEF ComandaInv, TxsOK, Filled
    <3> QED BY <2>1, <3>1, <3>2
  <2>3. ASSUME NEW t \in Txs, CommitClose(t) PROVE line'[a] = line[a]
    BY <2>1, <2>3 DEF CommitClose, Unpaid
  <2>4. CASE UNCHANGED line
    BY <2>4
  <2>5. \/ \E t \in Txs : CommitCreate(t) \/ CommitClose(t)
        \/ UNCHANGED line
    BY DEF Next, TxNext, CheckCreate, CheckClose, CheckCancel, CheckStatus, CheckAdjust, ReadStock, rows,
           CommitCancel, CommitStatus, CommitAdjust, Rollback, ToggleActive, Arrive
  <2> QED BY <2>2, <2>3, <2>4, <2>5
<1> QED BY <1>1, ComandaInvariant, PTL DEF PaidLinesStay, Spec

-----------------------------------------------------------------------------
(* What is on the shelf and what is held.                                      *)

HeldOf(h, l, p) == {u \in h \X (1..MaxQuantity) : u[2] <= l[u[1]][p]}

LEMMA Interval ==
  ASSUME NEW n \in Nat
  PROVE  IsFiniteSet(1..n) /\ Cardinality(1..n) = n
<1>1. n \in Int /\ 1 \in Int
  OBVIOUS
<1>2. IsFiniteSet(1..n) /\ Cardinality(1..n) = IF 1 > n THEN 0 ELSE n - 1 + 1
  BY <1>1, FS_Interval
<1> QED BY <1>2

\* One appointment holds as many units as its line says.
LEMMA HeldByOne ==
  ASSUME NEW h \in SUBSET Appts, NEW a \in h, NEW l, l[a] \in Lines, NEW p \in Products
  PROVE  /\ IsFiniteSet(HeldOf(h, l, p)) /\ Cardinality(HeldOf(h \ {a}, l, p)) \in Nat
         /\ Cardinality(HeldOf(h, l, p)) = Cardinality(HeldOf(h \ {a}, l, p)) + l[a][p]
<1> DEFINE n == l[a][p]
           mine == {a} \X (1..n)
           rest == HeldOf(h \ {a}, l, p)
           all == HeldOf(h, l, p)
<1>1. n \in 0..MaxQuantity /\ MaxQuantity \in Nat
  BY BoundsAssumption DEF Lines
<1>2. IsFiniteSet(mine) /\ Cardinality(mine) = n
  <2>1. IsFiniteSet({a}) /\ Cardinality({a}) = 1
    BY FS_Singleton
  <2>2. IsFiniteSet(1..n) /\ Cardinality(1..n) = n
    BY <1>1, Interval
  <2>3. Cardinality(mine) = 1 * n /\ IsFiniteSet(mine)
    BY <2>1, <2>2, FS_Product
  <2> QED BY <1>1, <2>3
<1>3. IsFiniteSet(all) /\ IsFiniteSet(rest)
  <2>1. IsFiniteSet(h)
    BY BoundsAssumption, FS_Subset
  <2>2. IsFiniteSet(1..MaxQuantity)
    BY <1>1, FS_Interval
  <2>3. IsFiniteSet(h \X (1..MaxQuantity))
    BY <2>1, <2>2, FS_Product
  <2>4. all \in SUBSET (h \X (1..MaxQuantity)) /\ rest \in SUBSET (h \X (1..MaxQuantity))
    BY DEF HeldOf
  <2> QED BY <2>3, <2>4, FS_Subset
<1>4. all = rest \cup mine /\ rest \cap mine = {}
  <2>1. ASSUME NEW u PROVE u \in all <=> u \in rest \/ u \in mine
    <3>1. CASE u \in all \/ u \in rest
      BY <3>1, <1>1 DEF HeldOf
    <3>2. CASE u \in mine
      BY <3>2, <1>1 DEF HeldOf
    <3> QED BY <3>1, <3>2
  <2>2. ASSUME NEW u \in rest PROVE u \notin mine
    BY <2>2 DEF HeldOf
  <2> QED BY <2>1, <2>2
<1>5. Cardinality(all) = Cardinality(rest) + Cardinality(mine) - Cardinality(rest \cap mine)
  BY <1>2, <1>3, <1>4, FS_Union
<1>6. Cardinality(rest \cap mine) = 0 /\ Cardinality(rest) \in Nat
  BY <1>3, <1>4, FS_EmptySet, FS_CardinalityType
<1> HIDE DEF n, mine, rest, all
<1>7. Cardinality(all) = Cardinality(rest) + n
  BY <1>1, <1>2, <1>5, <1>6
<1> QED BY <1>3, <1>6, <1>7 DEF all, rest, n

\* A step that changes one appointment only changes the units it holds.
Holding(h, l, a, p) == IF a \in h THEN l[a][p] ELSE 0

LEMMA HeldChanges ==
  ASSUME NEW h \in SUBSET Appts, NEW k \in SUBSET Appts, NEW l \in [Appts -> Lines], NEW m \in [Appts -> Lines],
         NEW a \in Appts, h \ {a} = k \ {a}, \A b \in Appts \ {a} : m[b] = l[b], NEW p \in Products
  PROVE  /\ Cardinality(HeldOf(h, l, p)) \in Nat /\ Holding(h, l, a, p) \in Nat /\ Holding(k, m, a, p) \in Nat
         /\ Cardinality(HeldOf(k, m, p)) =
               Cardinality(HeldOf(h, l, p)) - Holding(h, l, a, p) + Holding(k, m, a, p)
<1> DEFINE before == HeldOf(h \ {a}, l, p)
           after == HeldOf(k \ {a}, m, p)
<1>1. before = after
  <2>1. ASSUME NEW u \in (h \ {a}) \X (1..MaxQuantity) PROVE u[2] <= l[u[1]][p] <=> u[2] <= m[u[1]][p]
    BY <2>1
  <2> QED BY <2>1 DEF HeldOf
<1>2. l[a] \in Lines /\ m[a] \in Lines /\ l[a][p] \in Nat /\ m[a][p] \in Nat
  BY BoundsAssumption DEF Lines
<1>3. /\ Cardinality(HeldOf(h, l, p)) = Cardinality(before) + Holding(h, l, a, p)
      /\ Cardinality(before) \in Nat
  <2>1. CASE a \in h
    <3>1. /\ Cardinality(HeldOf(h \ {a}, l, p)) \in Nat
          /\ Cardinality(HeldOf(h, l, p)) = Cardinality(HeldOf(h \ {a}, l, p)) + l[a][p]
      BY <1>2, <2>1, HeldByOne
    <3> QED BY <2>1, <3>1 DEF Holding
  <2>2. CASE a \notin h
    <3>1. h \ {a} = h /\ h \in SUBSET Appts
      BY <2>2
    <3>2. IsFiniteSet(HeldOf(h, l, p))
      <4>1. IsFiniteSet(h) /\ IsFiniteSet(1..MaxQuantity)
        BY BoundsAssumption, FS_Subset, FS_Interval
      <4>2. IsFiniteSet(h \X (1..MaxQuantity))
        BY <4>1, FS_Product
      <4>3. HeldOf(h, l, p) \in SUBSET (h \X (1..MaxQuantity))
        BY DEF HeldOf
      <4> QED BY <4>2, <4>3, FS_Subset
    <3>3. Cardinality(HeldOf(h, l, p)) \in Nat
      BY <3>2, FS_CardinalityType
    <3> QED BY <2>2, <3>1, <3>3 DEF Holding
  <2> QED BY <2>1, <2>2
<1>4. Cardinality(HeldOf(k, m, p)) = Cardinality(after) + Holding(k, m, a, p)
  <2>1. CASE a \in k
    <3>1. Cardinality(HeldOf(k, m, p)) = Cardinality(HeldOf(k \ {a}, m, p)) + m[a][p]
      BY <1>2, <2>1, HeldByOne
    <3> QED BY <2>1, <3>1 DEF Holding
  <2>2. CASE a \notin k
    <3>1. k \ {a} = k
      BY <2>2
    <3> QED BY <1>1, <1>3, <2>2, <3>1 DEF Holding
  <2> QED BY <2>1, <2>2
<1>5. Holding(h, l, a, p) \in Nat /\ Holding(k, m, a, p) \in Nat
  BY <1>2 DEF Holding
<1> HIDE DEF before, after
<1> QED BY <1>1, <1>3, <1>4, <1>5

\* What a transaction read of its appointment still stands: a new appointment
\* had no line, one being closed or cancelled is locked; a cancellation wants none.
Knowing(x, t, lk, ln, st) ==
    x.pc # "idle" =>
        /\ x.op = "create" => x.read = NoLines
        /\ x.op = "cancel" => x.wish = NoLines
        /\ x.op \in {"close", "cancel"} =>
              lk[ApptLock(x.ap)] = t /\ ln[x.ap] = x.read /\ st[x.ap] # "ABSENT"
KnowInv == \A t \in Txs : Knowing(tx[t], t, lock, line, status)

ConservedInv == ComandaInv /\ KnowInv /\ StockConserved

LEMMA ApptLockNames == \A a \in Appts : ApptLock(a) \in Locks
BY DEF Locks

\* A transaction that goes on knows what it reads; the others lose nothing.
LEMMA BeginKnows ==
  ASSUME ComandaInv, KnowInv, NEW t \in Txs, NEW x, tx' = [tx EXCEPT ![t] = x], UNCHANGED rows,
         UNCHANGED lock \/ \E ls : Acquire(t, ls), Knowing(x, t, lock', line', status')
  PROVE  KnowInv'
<1>1. tx'[t] = x /\ \A e \in Txs : e # t => tx'[e] = tx[e]
  BY DEF ComandaInv, TxsOK
<1>2. \A l \in Locks, e \in Txs : lock[l] = e => lock'[l] = e
  <2>1. ASSUME NEW ls, Acquire(t, ls) PROVE \A l \in Locks, e \in Txs : lock[l] = e => lock'[l] = e
    BY <2>1, AcquireStep DEF ComandaInv
  <2> QED BY <2>1
<1>3. UNCHANGED <<line, status>>
  BY DEF rows
<1>4. ASSUME NEW e \in Txs, e # t PROVE Knowing(tx'[e], e, lock', line', status')
  <2>1. Knowing(tx[e], e, lock, line, status) /\ tx[e] \in TxRow /\ Filled(tx[e])
    BY DEF KnowInv, ComandaInv, TxsOK
  <2>2. SUFFICES ASSUME tx[e].pc # "idle", tx[e].op \in {"close", "cancel"}
                 PROVE  lock'[ApptLock(tx[e].ap)] = e
    BY <1>1, <1>3, <1>4, <2>1 DEF Knowing
  <2>3. tx[e].ap \in Appts /\ lock[ApptLock(tx[e].ap)] = e
    BY <2>1, <2>2 DEF Knowing, Filled
  <2> QED BY <1>2, <2>3, ApptLockNames
<1> QED BY <1>1, <1>4 DEF KnowInv

\* The end of a transaction that wrote no line the others have read.
LEMMA EndKnows ==
  ASSUME ComandaInv, KnowInv, NEW t \in Txs, End(t),
         \A e \in Txs : e # t /\ tx[e].pc # "idle" /\ tx[e].op \in {"close", "cancel"} =>
             line'[tx[e].ap] = line[tx[e].ap] /\ status'[tx[e].ap] # "ABSENT"
  PROVE  KnowInv'
<1>1. /\ tx'[t].pc = "idle"
      /\ \A e \in Txs : e # t => tx'[e] = tx[e] /\ \A l \in Locks : lock[l] = e => lock'[l] = e
  BY EndStep
<1>2. ASSUME NEW e \in Txs, e # t PROVE Knowing(tx'[e], e, lock', line', status')
  <2>1. Knowing(tx[e], e, lock, line, status) /\ Filled(tx[e]) /\ tx'[e] = tx[e]
    BY <1>1, <1>2 DEF KnowInv, ComandaInv, TxsOK
  <2>2. SUFFICES ASSUME tx[e].pc # "idle", tx[e].op \in {"close", "cancel"}
                 PROVE  /\ lock'[ApptLock(tx[e].ap)] = e /\ line'[tx[e].ap] = tx[e].read
                        /\ status'[tx[e].ap] # "ABSENT"
    BY <2>1 DEF Knowing
  <2>3. tx[e].ap \in Appts /\ lock[ApptLock(tx[e].ap)] = e /\ line[tx[e].ap] = tx[e].read
    BY <2>1, <2>2 DEF Knowing, Filled
  <2> QED BY <1>1, <1>2, <2>2, <2>3, ApptLockNames
<1>3. Knowing(tx'[t], t, lock', line', status')
  BY <1>1 DEF Knowing
<1> QED BY <1>2, <1>3 DEF KnowInv

LEMMA BeginsKnow ==
  ASSUME ComandaInv, KnowInv, NEW t \in Txs,
         CheckCreate(t) \/ CheckClose(t) \/ CheckCancel(t) \/ CheckStatus(t) \/ CheckAdjust(t) \/ ReadStock(t)
  PROVE  KnowInv' /\ UNCHANGED rows
<1> DEFINE i == Idle
<1>0. i \in TxRow /\ i.read = NoLines /\ i.wish = NoLines
  BY IdleOK DEF Idle
<1>1. CASE CheckCreate(t)
  <2>1. PICK a \in Appts, want \in Lines :
          /\ tx' = [tx EXCEPT ![t] = [i EXCEPT !.pc = "stock", !.op = "create", !.ap = a, !.st = "ABSENT", !.wish = want]]
          /\ UNCHANGED <<rows, lock>>
    BY <1>1 DEF CheckCreate
  <2> HIDE DEF i
  <2> DEFINE x == [i EXCEPT !.pc = "stock", !.op = "create", !.ap = a, !.st = "ABSENT", !.wish = want]
  <2>2. x.op = "create" /\ x.read = NoLines
    BY <1>0 DEF TxRow
  <2> HIDE DEF x
  <2>3. Knowing(x, t, lock', line', status')
    BY <2>2 DEF Knowing
  <2>4. tx' = [tx EXCEPT ![t] = x]
    BY <2>1 DEF x
  <2> QED BY <2>1, <2>3, <2>4, BeginKnows
<1>2. CASE CheckClose(t)
  <2>1. PICK a \in Appts, want \in Lines :
          /\ status[a] \in {"CONFIRMED", "COMPLETED"} /\ Acquire(t, AppointmentScope(a)) /\ UNCHANGED rows
          /\ tx' = [tx EXCEPT ![t] = [i EXCEPT !.pc = "stock", !.op = "close", !.ap = a,
                                               !.st = status[a], !.read = line[a], !.wish = want]]
    BY <1>2 DEF CheckClose
  <2> HIDE DEF i
  <2> DEFINE x == [i EXCEPT !.pc = "stock", !.op = "close", !.ap = a, !.st = status[a], !.read = line[a], !.wish = want]
  <2>2. x.op = "close" /\ x.read = line[a] /\ x.ap = a
    BY <1>0 DEF TxRow
  <2> HIDE DEF x
  <2>3. lock'[ApptLock(a)] = t /\ status' = status /\ line' = line
    BY <2>1, AcquireStep, ApptLockNames DEF ComandaInv, AppointmentScope, rows
  <2>4. Knowing(x, t, lock', line', status')
    BY <2>1, <2>2, <2>3 DEF Knowing
  <2>5. tx' = [tx EXCEPT ![t] = x]
    BY <2>1 DEF x
  <2> QED BY <2>1, <2>4, <2>5, BeginKnows
<1>3. CASE CheckCancel(t)
  <2>1. PICK a \in Appts :
          /\ status[a] = "CONFIRMED" /\ Acquire(t, AppointmentScope(a)) /\ UNCHANGED rows
          /\ tx' = [tx EXCEPT ![t] = [i EXCEPT !.pc = "stock", !.op = "cancel", !.ap = a,
                                               !.st = status[a], !.read = line[a]]]
    BY <1>3 DEF CheckCancel
  <2> HIDE DEF i
  <2> DEFINE x == [i EXCEPT !.pc = "stock", !.op = "cancel", !.ap = a, !.st = status[a], !.read = line[a]]
  <2>2. x.op = "cancel" /\ x.read = line[a] /\ x.ap = a /\ x.wish = NoLines
    BY <1>0 DEF TxRow
  <2> HIDE DEF x
  <2>3. lock'[ApptLock(a)] = t /\ status' = status /\ line' = line
    BY <2>1, AcquireStep, ApptLockNames DEF ComandaInv, AppointmentScope, rows
  <2>4. Knowing(x, t, lock', line', status')
    BY <2>1, <2>2, <2>3 DEF Knowing
  <2>5. tx' = [tx EXCEPT ![t] = x]
    BY <2>1 DEF x
  <2> QED BY <2>1, <2>4, <2>5, BeginKnows
<1>4. CASE CheckStatus(t)
  <2>1. PICK a \in Appts, op \in {"COMPLETED", "NO_SHOW"} :
          /\ Acquire(t, AppointmentScope(a)) /\ UNCHANGED rows
          /\ tx' = [tx EXCEPT ![t] = [i EXCEPT !.pc = "ready", !.op = op, !.ap = a, !.st = status[a]]]
    BY <1>4 DEF CheckStatus
  <2> HIDE DEF i
  <2> DEFINE x == [i EXCEPT !.pc = "ready", !.op = op, !.ap = a, !.st = status[a]]
  <2>2. x.op \notin {"create", "close", "cancel"}
    BY <1>0 DEF TxRow
  <2> HIDE DEF x
  <2>3. Knowing(x, t, lock', line', status')
    BY <2>2 DEF Knowing
  <2>4. tx' = [tx EXCEPT ![t] = x]
    BY <2>1 DEF x
  <2> QED BY <2>1, <2>3, <2>4, BeginKnows
<1>5. CASE CheckAdjust(t)
  <2>1. PICK p \in Products, d \in {-1, 1} :
          /\ Acquire(t, ProductScope({p})) /\ UNCHANGED rows
          /\ tx' = [tx EXCEPT ![t] = [i EXCEPT !.pc = "ready", !.op = "adjust", !.wish = [NoLines EXCEPT ![p] = 1],
                                               !.delta = d, !.seen = stock]]
    BY <1>5 DEF CheckAdjust
  <2> DEFINE one == [NoLines EXCEPT ![p] = 1]
  <2> HIDE DEF i, one
  <2> DEFINE x == [i EXCEPT !.pc = "ready", !.op = "adjust", !.wish = one, !.delta = d, !.seen = stock]
  <2>2. x.op \notin {"create", "close", "cancel"}
    BY <1>0 DEF TxRow
  <2>4. tx' = [tx EXCEPT ![t] = x]
    BY <2>1 DEF one
  <2> HIDE DEF x
  <2>3. Knowing(x, t, lock', line', status')
    BY <2>2 DEF Knowing
  <2> QED BY <2>1, <2>3, <2>4, BeginKnows
<1>6. CASE ReadStock(t)
  <2> DEFINE o == tx[t]
             y == [o EXCEPT !.pc = "ready"]
             x == [y EXCEPT !.seen = stock]
  <2>1. tx' = [tx EXCEPT ![t] = x] /\ o \in TxRow /\ o.pc = "stock" /\ Filled(o) /\ Knowing(o, t, lock, line, status)
    BY <1>6 DEF ReadStock, ComandaInv, TxsOK, KnowInv
  <2>2. UNCHANGED rows /\ \E ls : Acquire(t, ls)
    BY <1>6 DEF ReadStock
  <2> HIDE DEF o
  <2>3. y \in TxRow /\ y.op = o.op /\ y.ap = o.ap /\ y.read = o.read /\ y.wish = o.wish
    BY <2>1 DEF TxRow
  <2> HIDE DEF y
  <2>4. x.op = o.op /\ x.ap = o.ap /\ x.read = o.read /\ x.wish = o.wish
    BY <2>3 DEF TxRow
  <2> HIDE DEF x
  <2>5. o.op \in {"close", "cancel"} => lock'[ApptLock(o.ap)] = t
    <3>1. \A l \in Locks : lock[l] = t => lock'[l] = t
      BY <2>2, AcquireStep DEF ComandaInv
    <3> QED BY <2>1, <3>1, ApptLockNames DEF Knowing, Filled
  <2>6. Knowing(x, t, lock', line', status')
    BY <2>1, <2>2, <2>4, <2>5 DEF Knowing, rows
  <2> QED BY <2>1, <2>2, <2>6, BeginKnows
<1>7. UNCHANGED rows
  BY DEF CheckCreate, CheckClose, CheckCancel, CheckStatus, CheckAdjust, ReadStock
<1> QED BY <1>1, <1>2, <1>3, <1>4, <1>5, <1>6, <1>7

-----------------------------------------------------------------------------
(* The commits keep the account.                                               *)

\* A settlement takes from the shelf what its appointment comes to hold.
LEMMA SettleConserves ==
  ASSUME ConservedInv, ComandaInv', NEW t \in Txs, tx[t] \in TxRow, Settle(t), NEW a \in Appts,
         Holders' \ {a} = Holders \ {a}, \A b \in Appts \ {a} : line'[b] = line[b], moved' = moved,
         \A p \in Products : /\ Holding(Holders, line, a, p) = tx[t].read[p]
                             /\ Holding(Holders', line', a, p) = tx[t].wish[p]
  PROVE  StockConserved'
<1> SUFFICES ASSUME NEW p \in Products
             PROVE  stock'[p] + Cardinality(HeldOf(Holders', line', p)) = InitialStock + moved'[p]
  BY DEF StockConserved, Held, HeldOf
<1> DEFINE x == tx[t]
           before == Cardinality(HeldOf(Holders, line, p))
           after == Cardinality(HeldOf(Holders', line', p))
<1>1. /\ Holders \in SUBSET Appts /\ Holders' \in SUBSET Appts
      /\ line \in [Appts -> Lines] /\ line' \in [Appts -> Lines]
  BY DEF Holders, ConservedInv, ComandaInv, RowsOK
<1>2. /\ before \in Nat
      /\ after = before - Holding(Holders, line, a, p) + Holding(Holders', line', a, p)
  BY <1>1, HeldChanges
<1>3. after = before - x.read[p] + x.wish[p]
  BY <1>2
<1>4. stock[p] + before = InitialStock + moved[p]
  BY DEF ConservedInv, StockConserved, Held, HeldOf
<1>5. stock'[p] = stock[p] + (x.read[p] - x.wish[p])
  BY DEF Settle, StockDelta
<1>6. stock[p] \in Int /\ moved[p] \in Int /\ InitialStock \in Int /\ x.read[p] \in Int /\ x.wish[p] \in Int
  BY BoundsAssumption DEF ConservedInv, ComandaInv, RowsOK, TxRow, Lines
<1> HIDE DEF x, before, after
<1>7. stock'[p] + after = InitialStock + moved'[p]
  BY <1>2, <1>3, <1>4, <1>5, <1>6
<1> QED BY <1>7 DEF after

LEMMA NothingMoves ==
  ASSUME StockConserved, UNCHANGED <<status, line, stock, moved>>
  PROVE  StockConserved'
BY DEF StockConserved, Held, Holders

LEMMA HoldersOf ==
  ASSUME ComandaInv, NEW a \in Appts, NEW s, status' = [status EXCEPT ![a] = s]
  PROVE  Holders' \ {a} = Holders \ {a} /\ status'[a] = s
BY DEF Holders, ComandaInv, RowsOK

LEMMA CommitCreateConserves ==
  ASSUME ConservedInv, ComandaInv', NEW t \in Txs, CommitCreate(t)
  PROVE  KnowInv' /\ StockConserved'
<1> USE DEF ConservedInv
<1> DEFINE a == tx[t].ap
<1>1. /\ tx[t].pc = "ready" /\ tx[t].op = "create" /\ Settle(t) /\ End(t)
      /\ status' = [status EXCEPT ![a] = "CONFIRMED"] /\ line' = [line EXCEPT ![a] = tx[t].wish]
      /\ UNCHANGED <<begun, payments, active, moved>>
  BY DEF CommitCreate
<1>2. a \in Appts /\ Filled(tx[t]) /\ tx[t].wish \in Lines /\ tx[t] \in TxRow
  BY <1>1, ReadyRow
<1>3. status[a] = "ABSENT" /\ tx[t].read = NoLines
  BY <1>1, <1>2 DEF Settle, StatusAsRead, Filled, KnowInv, Knowing
<1>4. Holders' \ {a} = Holders \ {a} /\ status'[a] = "CONFIRMED"
  BY <1>1, <1>2, HoldersOf
<1>5. line'[a] = tx[t].wish /\ \A b \in Appts \ {a} : line'[b] = line[b]
  BY <1>1, <1>2 DEF ComandaInv, RowsOK
<1>6. ASSUME NEW e \in Txs, e # t, tx[e].pc # "idle", tx[e].op \in {"close", "cancel"}
      PROVE  line'[tx[e].ap] = line[tx[e].ap] /\ status'[tx[e].ap] # "ABSENT"
  <2>1. tx[e].ap \in Appts /\ status[tx[e].ap] # "ABSENT"
    BY <1>6 DEF KnowInv, Knowing, ComandaInv, TxsOK, Filled
  <2>2. tx[e].ap # a
    BY <1>3, <2>1
  <2> QED BY <1>1, <1>5, <2>1, <2>2 DEF ComandaInv, RowsOK
<1>7. KnowInv'
  BY <1>1, <1>6, EndKnows
<1>8. \A p \in Products : /\ Holding(Holders, line, a, p) = tx[t].read[p]
                          /\ Holding(Holders', line', a, p) = tx[t].wish[p]
  <2>1. a \notin Holders /\ a \in Holders'
    BY <1>2, <1>3, <1>4 DEF Holders
  <2> QED BY <1>3, <1>5, <2>1 DEF Holding, NoLines
<1> QED BY <1>1, <1>2, <1>4, <1>5, <1>7, <1>8, SettleConserves

LEMMA CommitCloseConserves ==
  ASSUME ConservedInv, ComandaInv', NEW t \in Txs, CommitClose(t)
  PROVE  KnowInv' /\ StockConserved'
<1> USE DEF ConservedInv
<1> DEFINE a == tx[t].ap
<1>1. /\ tx[t].pc = "ready" /\ tx[t].op = "close" /\ Settle(t) /\ End(t)
      /\ status' = [status EXCEPT ![a] = "COMPLETED"] /\ line' = [line EXCEPT ![a] = tx[t].wish]
      /\ UNCHANGED <<begun, active, moved>>
  BY DEF CommitClose
<1>2. a \in Appts /\ tx[t].wish \in Lines /\ tx[t] \in TxRow
  BY <1>1, ReadyRow
<1>3. lock[ApptLock(a)] = t /\ line[a] = tx[t].read /\ status[a] # "ABSENT"
  BY <1>1 DEF KnowInv, Knowing
<1>4. Holders' \ {a} = Holders \ {a} /\ status'[a] = "COMPLETED"
  BY <1>1, <1>2, HoldersOf
<1>5. line'[a] = tx[t].wish /\ \A b \in Appts \ {a} : line'[b] = line[b]
  BY <1>1, <1>2 DEF ComandaInv, RowsOK
<1>6. ASSUME NEW e \in Txs, e # t, tx[e].pc # "idle", tx[e].op \in {"close", "cancel"}
      PROVE  line'[tx[e].ap] = line[tx[e].ap] /\ status'[tx[e].ap] # "ABSENT"
  <2>1. /\ tx[e].ap \in Appts /\ status[tx[e].ap] # "ABSENT"
        /\ lock[ApptLock(tx[e].ap)] = e
    BY <1>6 DEF KnowInv, Knowing, ComandaInv, TxsOK, Filled
  <2>2. tx[e].ap # a
    BY <1>3, <1>6, <2>1
  <2> QED BY <1>1, <1>5, <2>1, <2>2 DEF ComandaInv, RowsOK
<1>7. KnowInv'
  BY <1>1, <1>6, EndKnows
<1>8. \A p \in Products : /\ Holding(Holders, line, a, p) = tx[t].read[p]
                          /\ Holding(Holders', line', a, p) = tx[t].wish[p]
  <2>1. status[a] \in {"CONFIRMED", "COMPLETED"}
    BY <1>1, <1>2, <1>3 DEF Settle, StatusAsRead, TxRow
  <2>2. a \in Holders /\ a \in Holders'
    BY <1>2, <1>4, <2>1 DEF Holders
  <2> QED BY <1>3, <1>5, <2>2 DEF Holding
<1> QED BY <1>1, <1>2, <1>4, <1>5, <1>7, <1>8, SettleConserves

LEMMA CommitCancelConserves ==
  ASSUME ConservedInv, ComandaInv', NEW t \in Txs, CommitCancel(t)
  PROVE  KnowInv' /\ StockConserved'
<1> USE DEF ConservedInv
<1> DEFINE a == tx[t].ap
<1>1. /\ tx[t].pc = "ready" /\ tx[t].op = "cancel" /\ Settle(t) /\ End(t)
      /\ status' = [status EXCEPT ![a] = "CANCELLED"]
      /\ UNCHANGED <<begun, line, payments, active, moved>>
  BY DEF CommitCancel
<1>2. a \in Appts /\ Filled(tx[t]) /\ tx[t] \in TxRow
  BY <1>1, ReadyRow
<1>3. line[a] = tx[t].read /\ tx[t].wish = NoLines
  BY <1>1 DEF KnowInv, Knowing
<1>4. Holders' \ {a} = Holders \ {a} /\ status'[a] = "CANCELLED"
  BY <1>1, <1>2, HoldersOf
<1>5. ASSUME NEW e \in Txs, e # t, tx[e].pc # "idle", tx[e].op \in {"close", "cancel"}
      PROVE  line'[tx[e].ap] = line[tx[e].ap] /\ status'[tx[e].ap] # "ABSENT"
  <2>1. tx[e].ap \in Appts /\ status[tx[e].ap] # "ABSENT"
    BY <1>5 DEF KnowInv, Knowing, ComandaInv, TxsOK, Filled
  <2> QED BY <1>1, <2>1 DEF ComandaInv, RowsOK
<1>6. KnowInv'
  BY <1>1, <1>5, EndKnows
<1>7. \A p \in Products : /\ Holding(Holders, line, a, p) = tx[t].read[p]
                          /\ Holding(Holders', line', a, p) = tx[t].wish[p]
  <2>1. status[a] = "CONFIRMED"
    BY <1>1, <1>2 DEF Settle, StatusAsRead, Filled
  <2>2. a \in Holders /\ a \notin Holders'
    BY <1>2, <1>4, <2>1 DEF Holders
  <2> QED BY <1>3, <2>2 DEF Holding, NoLines
<1> QED BY <1>1, <1>2, <1>4, <1>6, <1>7, SettleConserves

LEMMA CommitStatusConserves ==
  ASSUME ConservedInv, NEW t \in Txs, CommitStatus(t)
  PROVE  KnowInv' /\ StockConserved'
<1> USE DEF ConservedInv
<1> DEFINE a == tx[t].ap
<1>1. /\ tx[t].pc = "ready" /\ tx[t].op \in {"COMPLETED", "NO_SHOW"} /\ StatusAsRead(t) /\ End(t)
      /\ status' = [status EXCEPT ![a] = tx[t].op]
      /\ UNCHANGED <<begun, line, payments, stock, active, moved>>
  BY DEF CommitStatus
<1>2. a \in Appts /\ status[a] = "CONFIRMED"
  BY <1>1, ReadyRow DEF StatusAsRead, Filled
<1>3. Holders' = Holders
  BY <1>1, <1>2 DEF Holders, ComandaInv, RowsOK
<1>4. StockConserved'
  BY <1>1, <1>3 DEF StockConserved, Held
<1>5. ASSUME NEW e \in Txs, e # t, tx[e].pc # "idle", tx[e].op \in {"close", "cancel"}
      PROVE  line'[tx[e].ap] = line[tx[e].ap] /\ status'[tx[e].ap] # "ABSENT"
  <2>1. tx[e].ap \in Appts /\ status[tx[e].ap] # "ABSENT"
    BY <1>5 DEF KnowInv, Knowing, ComandaInv, TxsOK, Filled
  <2> QED BY <1>1, <2>1 DEF ComandaInv, RowsOK
<1> QED BY <1>1, <1>4, <1>5, EndKnows

LEMMA RowsUntouched ==
  ASSUME ConservedInv, NEW t \in Txs, End(t), UNCHANGED <<status, line>>
  PROVE  KnowInv'
<1>1. ASSUME NEW e \in Txs, tx[e].pc # "idle", tx[e].op \in {"close", "cancel"}
      PROVE  status[tx[e].ap] # "ABSENT"
  BY <1>1 DEF ConservedInv, KnowInv, Knowing
<1> QED BY <1>1, EndKnows DEF ConservedInv

LEMMA CommitAdjustConserves ==
  ASSUME ConservedInv, NEW t \in Txs, CommitAdjust(t)
  PROVE  KnowInv' /\ StockConserved'
<1> USE DEF ConservedInv
<1>1. PICK p \in In(tx[t].wish) :
       /\ StockAsRead(t, {p}) /\ End(t)
       /\ stock' = [stock EXCEPT ![p] = tx[t].seen[p] + tx[t].delta]
       /\ moved' = [moved EXCEPT ![p] = moved[p] + tx[t].delta]
       /\ UNCHANGED <<status, begun, line, payments, active>>
  BY DEF CommitAdjust
<1>2. /\ p \in Products /\ stock[p] = tx[t].seen[p] /\ tx[t] \in TxRow
      /\ stock \in [Products -> Nat] /\ moved \in [Products -> -MaxAdjust..MaxAdjust]
  BY <1>1 DEF In, StockAsRead, ComandaInv, RowsOK, TxsOK
<1>3. KnowInv'
  BY <1>1, RowsUntouched
<1>4. \A q \in Products : Held(q)' = Held(q)
  BY <1>1 DEF Held, Holders
<1>5. ASSUME NEW q \in Products PROVE stock'[q] + Cardinality(Held(q)) = InitialStock + moved'[q]
  <2> DEFINE n == Cardinality(Held(q))
             d == tx[t].delta
  <2>1. stock[q] + n = InitialStock + moved[q]
    BY DEF StockConserved
  <2>2. n \in Nat
    <3>1. IsFiniteSet(Holders \X (1..MaxQuantity))
      <4>1. Holders \in SUBSET Appts /\ MaxQuantity \in Nat /\ IsFiniteSet(Appts)
        BY BoundsAssumption DEF Holders
      <4>2. IsFiniteSet(Holders) /\ IsFiniteSet(1..MaxQuantity)
        BY <4>1, FS_Subset, Interval
      <4> QED BY <4>2, FS_Product
    <3>2. Held(q) \in SUBSET (Holders \X (1..MaxQuantity))
      BY DEF Held
    <3>3. IsFiniteSet(Held(q))
      BY <3>1, <3>2, FS_Subset
    <3> QED BY <3>3, FS_CardinalityType
  <2>3. stock[q] \in Int /\ moved[q] \in Int /\ InitialStock \in Int /\ d \in Int
    BY <1>2, BoundsAssumption DEF TxRow
  <2>4. \/ q # p /\ stock'[q] = stock[q] /\ moved'[q] = moved[q]
        \/ q = p /\ stock'[q] = stock[q] + d /\ moved'[q] = moved[q] + d
    BY <1>1, <1>2
  <2> HIDE DEF n, d
  <2>5. stock'[q] + n = InitialStock + moved'[q]
    BY <2>1, <2>2, <2>3, <2>4
  <2> QED BY <2>5 DEF n
<1>6. StockConserved'
  BY <1>4, <1>5 DEF StockConserved
<1> QED BY <1>3, <1>6

LEMMA InitConserved == Init => ConservedInv
<1> SUFFICES ASSUME Init PROVE KnowInv /\ StockConserved
  BY InitComandaInv DEF ConservedInv
<1>1. \A t \in Txs : tx[t].pc = "idle"
  BY IdleOK DEF Init
<1>2. KnowInv
  BY <1>1 DEF KnowInv, Knowing
<1>3. ASSUME NEW p \in Products PROVE stock[p] + Cardinality(Held(p)) = InitialStock + moved[p]
  <2>1. Held(p) = {}
    BY DEF Held, Holders, Init
  <2>2. Cardinality(Held(p)) = 0
    BY <2>1, FS_EmptySet
  <2> QED BY <2>2, BoundsAssumption DEF Init
<1> QED BY <1>2, <1>3 DEF StockConserved

LEMMA NextConserved == ConservedInv /\ [Next]_vars => ConservedInv'
<1> SUFFICES ASSUME ConservedInv, [Next]_vars PROVE ConservedInv'
  OBVIOUS
<1> USE DEF ConservedInv
<1>0. ComandaInv'
  BY NextComandaInv
<1> SUFFICES KnowInv' /\ StockConserved'
  BY <1>0
<1>1. ASSUME NEW t \in Txs, CheckCreate(t) \/ CheckClose(t) \/ CheckCancel(t) \/ CheckStatus(t) \/ CheckAdjust(t) \/ ReadStock(t)
      PROVE  KnowInv' /\ StockConserved'
  <2>1. KnowInv' /\ UNCHANGED rows
    BY <1>1, BeginsKnow
  <2> QED BY <2>1, NothingMoves DEF rows
<1>2. ASSUME NEW t \in Txs, CommitCreate(t) \/ CommitClose(t) \/ CommitCancel(t) \/ CommitStatus(t) \/ CommitAdjust(t)
      PROVE  KnowInv' /\ StockConserved'
  BY <1>0, <1>2, CommitCreateConserves, CommitCloseConserves, CommitCancelConserves, CommitStatusConserves,
     CommitAdjustConserves
<1>3. ASSUME NEW t \in Txs, Rollback(t)
      PROVE  KnowInv' /\ StockConserved'
  BY <1>3, RowsUntouched, NothingMoves DEF Rollback, rows
<1>4. ASSUME UNCHANGED <<status, line, stock, moved, lock, tx>>
      PROVE  KnowInv' /\ StockConserved'
  BY <1>4, NothingMoves DEF KnowInv
<1>5. CASE \/ \E p \in Products : ToggleActive(p)
           \/ \E a \in Appts : Arrive(a)
           \/ UNCHANGED vars
  BY <1>4, <1>5 DEF ToggleActive, Arrive, vars
<1> QED BY <1>1, <1>2, <1>3, <1>5 DEF Next, TxNext

\* Nothing is lost and nothing is returned twice, however bookings, closings,
\* cancellations and manual movements interleave: every settlement writes what
\* it read under its locks (reconcileReservedProduct, adjustProductStock).
THEOREM StockIsConserved == Spec => []StockConserved
<1>1. ConservedInv => StockConserved
  BY DEF ConservedInv
<1> QED BY <1>1, InitConserved, NextConserved, PTL DEF Spec

===============================================================================
