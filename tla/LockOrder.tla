----------------------------- MODULE LockOrder -----------------------------
(***************************************************************************)
(* The order in which one salon's operations take their transaction-level  *)
(* advisory locks, and whether concurrent requests can block each other    *)
(* for ever.  A request is the sequence of the locks its operation takes,  *)
(* written down from the code; it takes them one by one, waits for a lock  *)
(* that another request holds and frees all of them when its transaction   *)
(* ends.  The lock that the trigger booking_offer_guard takes at every     *)
(* write of an appointment's slot or status is one of the sequence.        *)
(*                                                                         *)
(* Left out: row locks (each row written here is covered by one of the     *)
(* advisory locks) and the locks of a single event's key, taken by one     *)
(* appointment's operations under that appointment's lock.                 *)
(***************************************************************************)
EXTENDS Naturals, SequencesExt

CONSTANTS Procs,      \* database connections
          Requests,   \* lock sequences of the requests that may arrive
          Free        \* owner of a lock nobody holds

ASSUME FreeAssumption == Free \notin Procs

VARIABLES todo,    \* locks a connection's request has still to take
          busy,    \* whether its transaction is open
          owner    \* who holds a lock

vars == <<todo, busy, owner>>

-----------------------------------------------------------------------------
(* The sequences.                                                          *)

(* As LockKeys, in the order the caller names the ids.                     *)
LockKeys_AsGiven(kind, ids) == [i \in DOMAIN ids |-> <<kind, ids[i]>>]
(* lockKeys: each group without repetition and sorted.                     *)
LockKeys(kind, ids) ==
  LET sorted == SetToSortSeq(ToSet(ids), <) IN [i \in DOMAIN sorted |-> <<kind, sorted[i]>>]

OfferSalon == <<<<"offer-salon", 0>>>>      \* trigger booking_offer_guard
CashRegister == <<<<"cash-register", 0>>>>
Quota == <<<<"quota", 0>>>>
Queue(a) == <<<<"waitlist", a>>>>
Products(ps) == LockKeys("product", ps)
Pros(ps) == LockKeys("professional", ps)
Scope(a, pros) == LockKeys("appointment", <<a>>) \o Pros(pros)

(* createAppointment, with the products reserved in the same transaction,  *)
(* and with a waitlist entry of appointment a attended elsewhere.          *)
Create(k, p, limited, products) ==
  <<<<"idempotency", k>>>> \o Pros(<<p>>) \o (IF limited THEN Quota ELSE <<>>)
    \o OfferSalon \o Products(products)
Elsewhere(k, p, a) == Create(k, p, FALSE, <<>>) \o Queue(a)
Reserve(a, p, products) == Scope(a, <<p>>) \o Products(products)
Move(a, p, q) == Scope(a, <<p, q>>) \o OfferSalon \o Queue(a)
Cancel(a, p, products, client) ==
  Scope(a, <<p>>) \o OfferSalon \o Products(products) \o (IF client THEN Queue(a) ELSE <<>>)
Promote(a, p) == Scope(a, <<p>>) \o Queue(a) \o OfferSalon
Handover(a, p, products) == Cancel(a, p, products, FALSE) \o Pros(<<p>>) \o Queue(a)
UpdateStatus(a, p) == Scope(a, <<p>>) \o OfferSalon
CloseComanda(a, p, products) ==
  Scope(a, <<p>>) \o Products(products) \o OfferSalon \o CashRegister
AdjustStock(product) == Products(<<product>>)
JoinOrLeave(a) == Queue(a)
(* A visit takes all its professionals, then creates part after part.      *)
Visit(k, ps, limited, products) ==
  <<<<"visit", k>>>> \o Pros(ps)
    \o FlattenSeq([i \in DOMAIN ps |-> Create(k + i, ps[i], limited, <<>>)]) \o Products(products)
(* An accepted offer takes the salon's offer lock before it creates.       *)
AcceptOffer(k, p, limited) == Pros(<<p>>) \o OfferSalon \o Create(k, p, limited, <<>>)

-----------------------------------------------------------------------------
Locks == UNION {ToSet(r) : r \in Requests}

Waits(p) == busy[p] /\ todo[p] # <<>> /\ owner[Head(todo[p])] \notin {Free, p}

Start(p) ==
  /\ ~busy[p]
  /\ \E r \in Requests : todo' = [todo EXCEPT ![p] = r]
  /\ busy' = [busy EXCEPT ![p] = TRUE]
  /\ UNCHANGED owner

Take(p) ==
  /\ busy[p] /\ todo[p] # <<>> /\ ~Waits(p)
  /\ owner' = [owner EXCEPT ![Head(todo[p])] = p]
  /\ todo' = [todo EXCEPT ![p] = Tail(@)]
  /\ UNCHANGED busy

Finish(p) ==
  /\ busy[p] /\ todo[p] = <<>>
  /\ busy' = [busy EXCEPT ![p] = FALSE]
  /\ owner' = [l \in Locks |-> IF owner[l] = p THEN Free ELSE owner[l]]
  /\ UNCHANGED todo

Init ==
  /\ todo = [p \in Procs |-> <<>>]
  /\ busy = [p \in Procs |-> FALSE]
  /\ owner = [l \in Locks |-> Free]

Next == \E p \in Procs : Start(p) \/ Take(p) \/ Finish(p)

(* A transaction runs on to its end, and PostgreSQL grants a lock in the   *)
(* order of the waiting, so no request is passed over for ever.            *)
Fairness == \A p \in Procs : SF_vars(Take(p)) /\ WF_vars(Finish(p))

Spec == Init /\ [][Next]_vars
FairSpec == Spec /\ Fairness

-----------------------------------------------------------------------------
(* inventory-lock: mutations of the same products are serialised without a *)
(* risk of deadlock; so no group of requests waits only for each other.    *)
NoDeadlock ==
  \A group \in SUBSET Procs \ {{}} :
    \E p \in group : ~(Waits(p) /\ owner[Head(todo[p])] \in group)

(* Whatever else arrives, a request gets its locks and ends.               *)
EveryRequestEnds == \A p \in Procs : busy[p] ~> ~busy[p]
=============================================================================
