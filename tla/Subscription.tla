---------------------------- MODULE Subscription ----------------------------
(* The recurring contract of one salon at Mercado Pago: the row                *)
(* BillingSubscription, its charges, the leased work queue and the inbox of    *)
(* notifications (src/src/lib/billing/service.ts and worker.ts), against a     *)
(* provider that answers late, twice, out of order or not at all.              *)
(* Plan changes and replacements are switched off, as changesEnabled allows.   *)
EXTENDS Integers, Sequences, FiniteSets

CONSTANTS Procs,      \* requests, webhook calls and scheduled runs of the app
          None,       \* no process, no notification
          MaxBills,   \* invoices the recurrence may issue
          MaxStamp,   \* bound on the provider's timestamps
          Scenes      \* starting points, each with a bound on what happens

VARIABLES sub,        \* the row BillingSubscription
          charge,     \* the rows BillingCharge, one for each invoice
          queue,      \* the row BillingQueue
          inbox,      \* the unprocessed rows BillingInbox, oldest first
          proc,       \* what every process is doing
          pre,        \* the preapproval as the provider has it
          flight,     \* a POST of a preapproval is on its way
          bills,      \* the invoices as the provider has them
          left        \* what the scene still allows

subscriptionVars == <<sub, charge, queue, inbox, proc, pre, flight, bills, left>>

Bills == 1..MaxBills
RemoteStatuses == {"none", "pending", "authorized", "cancelled"}
Snapshot == [status : RemoteStatuses, stamp : 0..MaxStamp]
NoSnapshot == [status |-> "none", stamp |-> 0]

\* An invoice with the payment it was settled by; attempt 0 has no payment yet.
Bill == [status : {"none", "pending", "rejected", "approved", "refunded"},
         stamp : 0..MaxStamp, attempt : 0..2]
NoBill == [status |-> "none", stamp |-> 0, attempt |-> 0]
Item == [topic : {"preapproval", "invoice", "payment"}, bill : 0..MaxBills, attempt : 0..2]

\* paid and delinquent count periods: invoice i covers the period from i-1 to i.
Row == [exists : BOOLEAN, reserved : BOOLEAN, cancelReq : BOOLEAN, cancelled : BOOLEAN,
        linked : BOOLEAN, status : RemoteStatuses, seen : 0..MaxStamp,
        paid : 0..MaxBills, delinquent : 0..MaxBills, review : BOOLEAN, offset : 0..MaxBills]
NewRow == [exists |-> FALSE, reserved |-> FALSE, cancelReq |-> FALSE, cancelled |-> FALSE,
           linked |-> FALSE, status |-> "none", seen |-> 0,
           paid |-> 0, delinquent |-> 0, review |-> FALSE, offset |-> 0]
Queue == [due : BOOLEAN, lease : Procs \cup {None}, old : BOOLEAN]

Scene == [running : BOOLEAN, clicks : Nat, cancels : Nat, hooks : Nat, faults : Nat, bills : Nat]

ASSUME SubscriptionAssumption ==
    /\ MaxBills \in Nat /\ MaxStamp \in Nat \ {0}
    /\ None \notin Procs /\ None \notin Item
    /\ Scenes \subseteq Scene

\* next is where a process goes once the provider's snapshot is applied.
Process == [pc : {"idle", "ensure", "post", "answer", "search", "apply", "note", "read", "get",
                  "put", "confirm", "pick", "applyBill", "mark", "save", "release", "write"},
            next : {"idle", "note", "pick", "release"}, snap : Snapshot, asked : BOOLEAN,
            off : 0..MaxBills, bill : 0..MaxBills, found : Bill, item : Item \cup {None},
            job : BOOLEAN, heard : BOOLEAN]
Idle == [pc |-> "idle", next |-> "idle", snap |-> NoSnapshot, asked |-> FALSE,
         off |-> 0, bill |-> 0, found |-> NoBill, item |-> None,
         job |-> FALSE, heard |-> FALSE]

SubscriptionTypeOK ==
    /\ sub \in Row /\ queue \in Queue /\ inbox \in Seq(Item)
    /\ charge \in [Bills -> Bill] /\ bills \in [Bills -> Bill]
    /\ proc \in [Procs -> Process]
    /\ pre \in [status : RemoteStatuses, stamp : 0..MaxStamp, posts : Nat]
    /\ flight \in BOOLEAN /\ left \in Scene

-----------------------------------------------------------------------------
(* What a transaction under the subscription lock makes of the row.            *)

\* As IsStale, letting a snapshot of the same timestamp through.
IsStale_OlderOnly(snap) == sub.seen > snap.stamp

\* applyRemoteSubscription: an older snapshot is ignored, and so is one of the
\* same timestamp unless it brings the cancellation.
IsStale(snap) ==
    \/ sub.seen > snap.stamp
    \/ sub.seen = snap.stamp /\ (snap.status # "cancelled" \/ sub.cancelled)

WithRemote(snap) ==
    IF IsStale(snap) THEN sub
    ELSE [sub EXCEPT !.linked = TRUE, !.status = snap.status, !.seen = snap.stamp,
                     !.cancelled = @ \/ snap.status = "cancelled"]

\* As Outdated, by the timestamps alone.
Outdated_ByStamp(prior, now) ==
    /\ prior.status # "none"
    /\ prior.stamp >= now.stamp
    /\ ~(now.status = "approved" /\ prior.status \in {"pending", "rejected"})

\* applyInvoice: when a charge stays as it is.
Outdated(prior, now) ==
    /\ prior.status # "none"
    /\ \/ prior.stamp >= now.stamp /\ ~(now.status = "approved" /\ prior.status \in {"pending", "rejected"})
       \/ prior.status = "approved" /\ now.status \notin {"approved", "refunded"}

\* As WithCharge, ending a delinquency only with its own invoice.
WithCharge_LatestFailure(i, now) ==
    CASE now.status = "refunded" -> [sub EXCEPT !.review = TRUE]
      [] now.status = "approved" ->
            [sub EXCEPT !.paid = IF i > @ THEN i ELSE @, !.delinquent = IF i = @ THEN 0 ELSE @]
      [] now.status = "rejected" /\ sub.paid # 0 ->
            [sub EXCEPT !.delinquent = i]
      [] OTHER -> sub

\* applyInvoice: what the new state of invoice i does to the contract.
WithCharge(i, now) ==
    CASE now.status = "refunded" -> [sub EXCEPT !.review = TRUE]
      [] now.status = "approved" ->
            LET through == IF i > sub.paid THEN i ELSE sub.paid
            IN  [sub EXCEPT !.paid = through,
                            !.delinquent = IF through >= @ THEN 0 ELSE @]
      [] now.status = "rejected" /\ sub.paid # 0 /\ i > sub.paid ->
            [sub EXCEPT !.delinquent = IF @ # 0 /\ @ < i THEN @ ELSE i]
      [] OTHER -> sub

\* As MayCreate, trusting the link instead of the reservation.
MayCreate_Again == ~sub.linked

\* ensureCreated: one creation attempt is ever reserved.
MayCreate == ~sub.reserved

\* As EndsUncreated, while an attempt may still succeed.
EndsUncreated_Unlinked == sub.cancelReq /\ ~sub.linked

\* ensureCreated: a cancellation before any attempt ends the contract at once.
EndsUncreated == sub.cancelReq /\ ~sub.reserved

\* As MustStop, forgetting a recurrence not yet authorised.
MustStop_Authorized(status) == status = "authorized"

\* stopRenewal: which recurrences are still to be stopped.
MustStop(status) == status # "cancelled"

-----------------------------------------------------------------------------
Spend(what) == left[what] > 0 /\ left' = [left EXCEPT ![what] = @ - 1]
Become(p, local) == proc' = [proc EXCEPT ![p] = local]
Goto(p, pc) == Become(p, [proc[p] EXCEPT !.pc = pc])

\* Idle processes are interchangeable: one of them takes what comes next.
IsNext(p) == p = CHOOSE q \in Procs : proc[q].pc = "idle"

\* A failed job is released all the same; any other caller sees the error.
Ended(p) == IF proc[p].job THEN [Idle EXCEPT !.pc = "release", !.job = TRUE, !.heard = proc[p].heard]
            ELSE Idle

\* enqueue: the work is due now, also for a job that is running.
Enqueued(procs) == [q \in Procs |-> IF procs[q].job /\ procs[q].pc # "write"
                                    THEN [procs[q] EXCEPT !.heard = TRUE] ELSE procs[q]]
DueNow == [queue EXCEPT !.due = TRUE]

\* contract: the durable intent, or the row an earlier click with the key made.
Contract(p) ==
    /\ proc[p].pc = "idle" /\ IsNext(p) /\ Spend("clicks")
    /\ sub' = [sub EXCEPT !.exists = TRUE]
    /\ queue' = IF sub.exists THEN queue ELSE DueNow
    /\ proc' = LET click == [proc EXCEPT ![p].pc = IF sub.linked \/ sub.cancelled THEN "idle" ELSE "ensure"]
               IN  IF sub.exists THEN click ELSE Enqueued(click)
    /\ UNCHANGED <<charge, inbox, pre, flight, bills>>

Reserve(p) ==
    /\ proc[p].pc = "ensure"
    /\ \/ /\ EndsUncreated
          /\ sub' = [sub EXCEPT !.cancelled = TRUE, !.status = "cancelled"]
          /\ Goto(p, proc[p].next)
       \/ /\ ~EndsUncreated /\ MayCreate
          /\ sub' = [sub EXCEPT !.reserved = TRUE]
          /\ Goto(p, "post")
       \/ /\ ~EndsUncreated /\ ~MayCreate
          /\ sub' = sub
          /\ Goto(p, "search")
    /\ UNCHANGED <<charge, queue, inbox, pre, flight, bills, left>>

Post(p) ==
    /\ proc[p].pc = "post"
    /\ flight' = TRUE
    /\ Goto(p, "answer")
    /\ UNCHANGED <<sub, charge, queue, inbox, pre, bills, left>>

Answer(p) ==
    /\ proc[p].pc = "answer" /\ ~flight
    /\ Become(p, [proc[p] EXCEPT !.pc = "apply", !.snap = [status |-> pre.status, stamp |-> pre.stamp]])
    /\ UNCHANGED <<sub, charge, queue, inbox, pre, flight, bills, left>>

\* An uncertain attempt is found by its reference, or left for later.
Recover(p) ==
    /\ proc[p].pc = "search"
    /\ Become(p, IF pre.posts = 1
                 THEN [proc[p] EXCEPT !.pc = "apply", !.snap = [status |-> pre.status, stamp |-> pre.stamp]]
                 ELSE Ended(p))
    /\ UNCHANGED <<sub, charge, queue, inbox, pre, flight, bills, left>>

ApplyRemote(p) ==
    /\ proc[p].pc = "apply"
    /\ sub' = WithRemote(proc[p].snap)
    /\ Become(p, IF proc[p].next = "idle" THEN Idle
                 ELSE [proc[p] EXCEPT !.pc = proc[p].next, !.snap = NoSnapshot])
    /\ UNCHANGED <<charge, queue, inbox, pre, flight, bills, left>>

\* requestCancellation and requestBillingSync of the owner.
RequestCancellation ==
    /\ sub.exists /\ Spend("cancels")
    /\ sub' = [sub EXCEPT !.cancelReq = TRUE]
    /\ queue' = DueNow /\ proc' = Enqueued(proc)
    /\ UNCHANGED <<charge, inbox, pre, flight, bills>>

-----------------------------------------------------------------------------
(* Notifications: any number may be lost; one may come late or twice.          *)

Notified == [topic : {"preapproval"}, bill : {0}, attempt : {0}]
    \cup {n \in [topic : {"invoice"}, bill : Bills, attempt : {0}] : bills[n.bill].status # "none"}
    \cup {n \in [topic : {"payment"}, bill : Bills, attempt : 1..2] : n.attempt <= bills[n.bill].attempt}

\* receiveWebhook: the preapproval is read again before anything is recorded.
Webhook(p, note) ==
    /\ proc[p].pc = "idle" /\ IsNext(p) /\ pre.posts > 0 /\ Spend("hooks")
    /\ note.topic = "payment" => sub.linked
    /\ Become(p, [Idle EXCEPT !.pc = "apply", !.next = "note", !.item = note,
                              !.snap = [status |-> pre.status, stamp |-> pre.stamp]])
    /\ UNCHANGED <<sub, charge, queue, inbox, pre, flight, bills>>

Note(p) ==
    /\ proc[p].pc = "note"
    /\ inbox' = Append(inbox, proc[p].item)
    /\ queue' = DueNow
    /\ proc' = Enqueued([proc EXCEPT ![p] = Idle])
    /\ UNCHANGED <<sub, charge, pre, flight, bills, left>>

-----------------------------------------------------------------------------
(* One job of the work queue: syncSubscription between lease and release.      *)

\* runBillingWorker and drainBillingSubscription; that the latter does not wait
\* for the second between two steps is a TimePasses right before.
Lease(p) ==
    /\ proc[p].pc = "idle" /\ IsNext(p) /\ sub.exists
    /\ queue.due
    /\ queue.lease = None \/ queue.old
    /\ queue' = [queue EXCEPT !.lease = p, !.old = FALSE]
    /\ Become(p, [Idle EXCEPT !.pc = "read", !.job = TRUE, !.next = "release"])
    /\ UNCHANGED <<sub, charge, inbox, pre, flight, bills, left>>

Read(p) ==
    /\ proc[p].pc = "read"
    /\ Become(p, CASE sub.linked -> [proc[p] EXCEPT !.pc = "get", !.asked = sub.cancelReq, !.off = sub.offset]
                   [] ~sub.linked /\ sub.cancelled -> [proc[p] EXCEPT !.pc = "release"]
                   [] OTHER -> [proc[p] EXCEPT !.pc = "ensure"])
    /\ UNCHANGED <<sub, charge, queue, inbox, pre, flight, bills, left>>

\* Stopping charges takes priority over everything else of the job.
Get(p) ==
    /\ proc[p].pc = "get"
    /\ Become(p, IF proc[p].asked /\ MustStop(pre.status) THEN [proc[p] EXCEPT !.pc = "put"]
                 ELSE [proc[p] EXCEPT !.pc = "apply", !.next = "pick",
                                      !.snap = [status |-> pre.status, stamp |-> pre.stamp]])
    /\ UNCHANGED <<sub, charge, queue, inbox, pre, flight, bills, left>>

\* The provider's timestamp of the cancellation may equal the one before it.
Stopped(stamp) == pre' = [pre EXCEPT !.status = "cancelled", !.stamp = stamp]
SameOrLater == {pre.stamp, pre.stamp + 1} \cap 1..MaxStamp

Put(p) ==
    /\ proc[p].pc = "put"
    /\ IF pre.status = "cancelled" THEN pre' = pre ELSE \E stamp \in SameOrLater : Stopped(stamp)
    /\ Goto(p, "confirm")
    /\ UNCHANGED <<sub, charge, queue, inbox, flight, bills, left>>

Confirm(p) ==
    /\ proc[p].pc = "confirm"
    /\ Become(p, [proc[p] EXCEPT !.pc = "apply", !.snap = [status |-> pre.status, stamp |-> pre.stamp]])
    /\ UNCHANGED <<sub, charge, queue, inbox, pre, flight, bills, left>>

Issued == Cardinality({i \in Bills : bills[i].status # "none"})

\* As NextOffset, always starting the search again.
NextOffset_Stays(off) == 0

\* The cursor of the periodic search after the invoice at offset off.
NextOffset(off) == IF off + 1 < Issued THEN off + 1 ELSE 0

\* The oldest notification, unless it is of a payment no charge has; then the
\* next invoice of the periodic search.
Known(note) == note.topic = "invoice" \/ (note.topic = "payment" /\ charge[note.bill].attempt = note.attempt)
Fetched(local, i) == [local EXCEPT !.pc = "applyBill", !.bill = i, !.found = bills[i]]

Pick(p) ==
    /\ proc[p].pc = "pick"
    /\ \/ /\ inbox # <<>> /\ Head(inbox).topic = "preapproval"
          /\ Become(p, [proc[p] EXCEPT !.pc = "mark", !.item = Head(inbox)])
       \/ /\ inbox # <<>> /\ Known(Head(inbox))
          /\ Become(p, Fetched([proc[p] EXCEPT !.item = Head(inbox)], Head(inbox).bill))
       \/ /\ inbox # <<>> => Head(inbox).topic = "payment" /\ ~Known(Head(inbox))
          /\ Become(p, IF proc[p].off < Issued
                       THEN Fetched([proc[p] EXCEPT !.off = NextOffset(@)], proc[p].off + 1)
                       ELSE [proc[p] EXCEPT !.pc = "save", !.off = 0])
    /\ UNCHANGED <<sub, charge, queue, inbox, pre, flight, bills, left>>

ApplyBill(p) ==
    /\ proc[p].pc = "applyBill"
    /\ LET i == proc[p].bill
           now == proc[p].found
       IN  IF Outdated(charge[i], now)
           THEN UNCHANGED <<charge, sub>>
           ELSE charge' = [charge EXCEPT ![i] = now] /\ sub' = WithCharge(i, now)
    /\ Become(p, [proc[p] EXCEPT !.pc = IF proc[p].item = None THEN "save" ELSE "mark", !.bill = 0, !.found = NoBill])
    /\ UNCHANGED <<queue, inbox, pre, flight, bills, left>>

\* The row stays the oldest one until it is processed, here or by a later job.
Mark(p) ==
    /\ proc[p].pc = "mark"
    /\ inbox' = IF inbox # <<>> /\ Head(inbox) = proc[p].item THEN Tail(inbox) ELSE inbox
    /\ Become(p, [proc[p] EXCEPT !.pc = "release", !.item = None])
    /\ UNCHANGED <<sub, charge, queue, pre, flight, bills, left>>

Save(p) ==
    /\ proc[p].pc = "save"
    /\ sub' = [sub EXCEPT !.offset = proc[p].off]
    /\ Goto(p, "release")
    /\ UNCHANGED <<charge, queue, inbox, pre, flight, bills, left>>

\* processJob reads whether work came in during the run and then writes, in two
\* statements; the write only counts if the lease is still this job's.
Release(p) ==
    /\ proc[p].pc = "release"
    /\ Become(p, [Idle EXCEPT !.pc = "write", !.job = TRUE, !.heard = proc[p].heard])
    /\ UNCHANGED <<sub, charge, queue, inbox, pre, flight, bills, left>>

Write(p) ==
    /\ proc[p].pc = "write"
    /\ queue' = IF queue.lease = p
                THEN [due |-> proc[p].heard, lease |-> None, old |-> FALSE]
                ELSE queue
    /\ Become(p, Idle)
    /\ UNCHANGED <<sub, charge, inbox, pre, flight, bills, left>>

-----------------------------------------------------------------------------
(* Time and faults: a call that fails or is never answered, a process that     *)
(* dies at any step, a lease that runs out, the time of the next attempt.      *)

Remote == {"post", "answer", "search", "get", "put", "confirm", "pick"}

CallFails(p) ==
    /\ proc[p].pc \in Remote /\ Spend("faults")
    /\ Become(p, Ended(p))
    /\ UNCHANGED <<sub, charge, queue, inbox, pre, flight, bills>>

Crash(p) ==
    /\ proc[p].pc # "idle" /\ Spend("faults")
    /\ Become(p, Idle)
    /\ UNCHANGED <<sub, charge, queue, inbox, pre, flight, bills>>

\* The lease of a dead process runs out, or that of a job slower than it.
LeaseExpires ==
    /\ queue.lease # None /\ ~queue.old
    /\ IF proc[queue.lease].job THEN Spend("faults") ELSE UNCHANGED left
    /\ queue' = [queue EXCEPT !.old = TRUE]
    /\ UNCHANGED <<sub, charge, inbox, proc, pre, flight, bills>>

TimePasses ==
    /\ ~queue.due /\ (queue.lease = None \/ queue.old)
    /\ queue' = DueNow
    /\ UNCHANGED <<sub, charge, inbox, proc, pre, flight, bills, left>>

-----------------------------------------------------------------------------
(* The provider and the payer.                                                 *)

Arrives ==
    /\ flight /\ flight' = FALSE
    /\ pre' = [status |-> "pending", stamp |-> 1, posts |-> pre.posts + 1]
    /\ UNCHANGED <<sub, charge, queue, inbox, proc, bills, left>>

Authorize ==
    /\ pre.status = "pending" /\ pre.stamp < MaxStamp
    /\ pre' = [pre EXCEPT !.status = "authorized", !.stamp = @ + 1]
    /\ UNCHANGED <<sub, charge, queue, inbox, proc, flight, bills, left>>

PayerCancels ==
    /\ pre.status \in {"pending", "authorized"} /\ Spend("cancels")
    /\ \E stamp \in SameOrLater : Stopped(stamp)
    /\ UNCHANGED <<sub, charge, queue, inbox, proc, flight, bills>>

\* The invoice and its payments are dated by different clocks, a few moments apart.
Issue(i, stamp) ==
    /\ pre.status = "authorized" /\ Spend("bills")
    /\ bills[i] = NoBill /\ \A j \in 1..(i - 1) : bills[j] # NoBill
    /\ bills' = [bills EXCEPT ![i] = [status |-> "pending", stamp |-> stamp, attempt |-> 0]]
    /\ UNCHANGED <<sub, charge, queue, inbox, proc, pre, flight>>

\* Every attempt is a payment of its own, the second one later than the first.
Settle(i, status, stamp) ==
    /\ bills[i].status \in {"pending", "rejected"} /\ bills[i].attempt < 2
    /\ bills[i].status = "rejected" => status = "approved" /\ stamp > bills[i].stamp
    /\ bills' = [bills EXCEPT ![i] = [status |-> status, stamp |-> stamp, attempt |-> @.attempt + 1]]
    /\ UNCHANGED <<sub, charge, queue, inbox, proc, pre, flight, left>>

\* A refund comes long after everything else of its invoice.
Refund(i) ==
    /\ bills[i].status = "approved"
    /\ bills' = [bills EXCEPT ![i].status = "refunded", ![i].stamp = MaxStamp]
    /\ UNCHANGED <<sub, charge, queue, inbox, proc, pre, flight, left>>

-----------------------------------------------------------------------------
\* A scene starts before the contract, or with a recurrence already running.
SubscriptionInit ==
    /\ left \in Scenes
    /\ sub = IF left.running
             THEN [NewRow EXCEPT !.exists = TRUE, !.reserved = TRUE, !.linked = TRUE,
                                 !.status = "authorized", !.seen = 1]
             ELSE NewRow
    /\ pre = IF left.running THEN [status |-> "authorized", stamp |-> 1, posts |-> 1]
             ELSE [status |-> "none", stamp |-> 0, posts |-> 0]
    /\ charge = [i \in Bills |-> NoBill] /\ bills = [i \in Bills |-> NoBill]
    /\ queue = [due |-> TRUE, lease |-> None, old |-> FALSE]
    /\ inbox = <<>> /\ flight = FALSE
    /\ proc = [p \in Procs |-> Idle]

\* What a process does next once it has begun.
Proceed(p) ==
    \/ Reserve(p) \/ Post(p) \/ Answer(p) \/ Recover(p) \/ ApplyRemote(p) \/ Note(p)
    \/ Read(p) \/ Get(p) \/ Put(p) \/ Confirm(p) \/ Pick(p) \/ ApplyBill(p)
    \/ Mark(p) \/ Save(p) \/ Release(p) \/ Write(p)

SubscriptionNext ==
    \/ \E p \in Procs : Contract(p) \/ Lease(p) \/ Proceed(p) \/ CallFails(p) \/ Crash(p)
    \/ \E p \in Procs : \E note \in Notified : Webhook(p, note)
    \/ RequestCancellation \/ LeaseExpires \/ TimePasses
    \/ Arrives \/ Authorize \/ PayerCancels
    \/ \E i \in Bills, stamp \in 1..(MaxStamp - 1) :
          Issue(i, stamp) \/ (\E status \in {"approved", "rejected"} : Settle(i, status, stamp))
    \/ \E i \in Bills : Refund(i)

\* Steps of a process end, leases run out and the scheduled worker comes back.
SubscriptionFairness ==
    /\ \A p \in Procs : WF_subscriptionVars(Proceed(p))
    /\ WF_subscriptionVars(\E p \in Procs : Lease(p))
    /\ WF_subscriptionVars(LeaseExpires) /\ WF_subscriptionVars(TimePasses) /\ WF_subscriptionVars(Arrives)

SubscriptionSpec == SubscriptionInit /\ [][SubscriptionNext]_subscriptionVars /\ SubscriptionFairness

-----------------------------------------------------------------------------
\* However often the owner clicks, an answer is lost or a process dies, at most
\* one recurrence is ever asked of the provider (ensureCreated's reservation).
OneRecurrence == pre.posts + (IF flight THEN 1 ELSE 0) <= 1

\* A contract shown as cancelled cannot charge any more: no recurrence of it is
\* enabled at the provider, and none is on its way there.
CancelledIsSilent == sub.cancelled => ~flight /\ pre.status \in {"none", "cancelled"}

\* The end of the paid period and the delinquency agree, in whatever order the
\* attempts of the invoices are read: a salon is only delinquent for a period it
\* has not paid (effectiveEntitlement locks the salon by that).
DelinquentIsUnpaid == sub.delinquent # 0 => sub.paid < sub.delinquent

\* A late or repeated snapshot never revives a cancelled contract.
NeverRevived == [][sub.cancelled => sub'.cancelled /\ sub'.status = "cancelled"]_subscriptionVars

\* A late or repeated snapshot never undoes a payment or a refund.
PaymentsStand ==
    [][\A i \in Bills : /\ charge[i].status = "approved" => charge'[i].status \in {"approved", "refunded"}
                        /\ charge[i].status = "refunded" => charge'[i].status = "refunded"]_subscriptionVars

\* A cancellation the owner asked for stops the recurrence and is confirmed.
CancellationIsCarriedOut == sub.cancelReq /\ pre.posts > 0 ~> pre.status = "cancelled" /\ sub.cancelled

\* A payment the provider approved ends up in the paid period even if every
\* notification of it is lost, unless it is refunded first.
PaymentsCount == \A i \in Bills : bills[i].status = "approved" ~> sub.paid >= i \/ bills[i].status = "refunded"
=============================================================================
