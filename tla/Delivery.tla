------------------------------ MODULE Delivery ------------------------------
(* One reminder to a client: a push message for each of the client's devices,  *)
(* an e-mail if there is none or none of them can be reached                   *)
(* (src/src/lib/client-reminders.ts queues the rows,                           *)
(* src/src/lib/client-reminder-delivery.ts sends them). Every run of the job   *)
(* does both, also while an earlier run is still at it.                        *)
EXTENDS Integers, FiniteSets

CONSTANTS Devices,     \* the client's push subscriptions
          Mail,        \* the row of the e-mail
          Senders,     \* what runs of the job have at hand: the reminder to queue or one message
          NoRow,       \* no message
          Times,       \* when the appointment may start on the day of the reminder
          Elsewhere,   \* the appointment begun, cancelled or on another day
          MaxAttempts, \* three in the code
          MaxLapses    \* bound on the claims that end without a record

VARIABLES client,      \* devices subscribed, and whether there is an e-mail address
          visit,       \* the start of the appointment
          queued,      \* how often the reminder was queued: the event exists after the first time
          outbox,      \* the rows NotificationOutbox of the reminder
          sender,      \* what every run is doing
          lapses       \* claims that ended without a record

deliveryVars == <<client, visit, queued, outbox, sender, lapses>>

Messages == Devices \cup {Mail}

ASSUME DeliveryAssumption ==
    /\ Mail \notin Devices /\ NoRow \notin Messages
    /\ Elsewhere \notin Times /\ MaxAttempts \in Nat \ {0} /\ MaxLapses \in Nat

Days == Times \cup {Elsewhere}
\* due stands for nextAttemptAt: whether the job may take the row; start is the
\* one the message tells. STALE is FAILED with the error STALE_REMINDER.
OutboxRow == [status : {"none", "PENDING", "SENT", "FAILED", "STALE"}, attempts : Nat, due : BOOLEAN, start : Days]
NotQueued == [status |-> "none", attempts |-> 0, due |-> FALSE, start |-> Elsewhere]
Queued(start) == [status |-> "PENDING", attempts |-> 0, due |-> TRUE, start |-> start]
\* start and plan: what a run that queues has read. mails: the transaction that
\* fails the row also queues the e-mail.
Away == [pc |-> "away", row |-> NoRow, attempts |-> 0, mails |-> FALSE, revokes |-> FALSE,
         start |-> Elsewhere, plan |-> {}]

DeliveryTypeOK ==
    /\ client \in [devices : SUBSET Devices, mail : BOOLEAN] /\ visit \in Days /\ queued \in {"never", "once", "again"}
    /\ outbox \in [Messages -> OutboxRow]
    /\ sender \in [Senders -> [pc : {"away", "insert", "read", "check", "send", "record", "failed", "fail"},
                               row : Messages \cup {NoRow}, attempts : Nat, mails : BOOLEAN, revokes : BOOLEAN,
                               start : Days, plan : SUBSET Messages]]
    /\ lapses \in 0..MaxLapses

-----------------------------------------------------------------------------
Now(s, local) == sender' = [sender EXCEPT ![s] = local]
To(s, pc) == Now(s, [sender[s] EXCEPT !.pc = pc])

\* A row written by an open transaction is locked until it commits.
Locked(m) == \E s \in Senders : sender[s].row = m /\ sender[s].pc = "fail"

\* As MayRecord, whatever became of the row.
MayRecord_Always(m) == TRUE

\* What an update of the outcome is conditional on.
MayRecord(m) == outbox[m].status = "PENDING"
With(m, status) ==
    IF MayRecord(m) THEN [outbox EXCEPT ![m].status = status, ![m].due = FALSE] ELSE outbox

\* As Remaining, forgetting the messages already sent.
Remaining_Pending(rows) == {d \in Devices : rows[d].status = "PENDING"}

\* fallbackEmail: the e-mail is for a client none of whose messages is still
\* under way or was sent, as the transaction with these rows sees it.
Remaining(rows) == {d \in Devices : rows[d].status \in {"PENDING", "SENT"}}
NeedsMail(m, rows) == m # Mail /\ client.mail /\ Remaining(rows) = {}

-----------------------------------------------------------------------------
Channels == IF client.devices # {} THEN client.devices ELSE {m \in {Mail} : client.mail}

\* A run reads the appointment, under the lock of the event finds or records the
\* event (recordAppointmentEvent) and reads the client's subscriptions, whatever an
\* earlier run has queued or sent. While it waited for the lock the appointment
\* may have changed.
ReadChannels(s) ==
    /\ sender[s].pc = "away" /\ \A e \in Senders : sender[e].pc # "insert"
    /\ \E start \in Times : Now(s, [Away EXCEPT !.pc = "insert", !.start = start, !.plan = Channels])
    /\ UNCHANGED <<client, visit, queued, outbox, lapses>>

\* queueClientReminderChannels: rows that exist are skipped.
QueueChannels(s) ==
    /\ sender[s].pc = "insert"
    /\ outbox' = [m \in Messages |->
           IF m \in sender[s].plan /\ outbox[m].status = "none" THEN Queued(sender[s].start) ELSE outbox[m]]
    /\ queued' = IF queued = "never" THEN "once" ELSE "again"
    /\ Now(s, Away)
    /\ UNCHANGED <<client, visit, lapses>>

-----------------------------------------------------------------------------
\* deliverPendingClientReminders: a row that is due, with its attempts so far.
ReadRow(s, m) ==
    /\ sender[s].pc = "away" /\ outbox[m].status = "PENDING" /\ outbox[m].due
    /\ Now(s, [Away EXCEPT !.pc = "read", !.row = m, !.attempts = outbox[m].attempts])
    /\ UNCHANGED <<client, visit, queued, outbox, lapses>>

Claimable(s, m) == outbox[m].status = "PENDING" /\ outbox[m].due /\ outbox[m].attempts = sender[s].attempts
Reachable(m) == IF m = Mail THEN client.mail ELSE m \in client.devices
ReminderIsCurrent(m) == outbox[m].start = visit

\* The claim: ten minutes in which no other run takes the row. A message that
\* cannot be sent is given up in the same transaction.
Claim(s) ==
    /\ sender[s].pc = "read" /\ ~Locked(sender[s].row)
    /\ LET m == sender[s].row IN
       \/ ~ReminderIsCurrent(m) /\ outbox' = With(m, "STALE") /\ Now(s, Away)
       \/ ReminderIsCurrent(m) /\ ~Claimable(s, m) /\ Now(s, Away) /\ UNCHANGED outbox
       \/ /\ ReminderIsCurrent(m) /\ Claimable(s, m) /\ Reachable(m)
          /\ outbox' = [outbox EXCEPT ![m].attempts = @ + 1, ![m].due = FALSE]
          /\ To(s, "check")
       \/ /\ ReminderIsCurrent(m) /\ Claimable(s, m) /\ ~Reachable(m)
          /\ Now(s, [sender[s] EXCEPT !.pc = "fail", !.mails = NeedsMail(m, With(m, "FAILED"))])
          /\ UNCHANGED outbox
    /\ UNCHANGED <<client, visit, queued, lapses>>

\* The appointment is read again outside the transaction of the claim.
Check(s) ==
    /\ sender[s].pc = "check"
    /\ LET m == sender[s].row IN
       \/ ReminderIsCurrent(m) /\ To(s, "send") /\ UNCHANGED outbox
       \/ ~ReminderIsCurrent(m) /\ ~Locked(m) /\ outbox' = With(m, "STALE") /\ Now(s, Away)
    /\ UNCHANGED <<client, visit, queued, lapses>>

\* The service takes the message, refuses it for good or fails.
Send(s, result) ==
    /\ sender[s].pc = "send"
    /\ result = "gone" => sender[s].row # Mail
    /\ Now(s, [sender[s] EXCEPT !.pc = IF result = "sent" THEN "record" ELSE "failed", !.revokes = (result = "gone")])
    /\ UNCHANGED <<client, visit, queued, outbox, lapses>>

RecordSent(s) ==
    /\ sender[s].pc = "record" /\ ~Locked(sender[s].row)
    /\ outbox' = With(sender[s].row, "SENT")
    /\ Now(s, Away)
    /\ UNCHANGED <<client, visit, queued, lapses>>

IsLast(attempts) == attempts + 1 >= MaxAttempts

\* A failure leaves the row for a later run, unless it was the last attempt.
RecordFailure(s) ==
    /\ sender[s].pc = "failed" /\ ~Locked(sender[s].row)
    /\ LET m == sender[s].row IN
       IF sender[s].revokes \/ IsLast(sender[s].attempts)
       THEN /\ Now(s, [sender[s] EXCEPT !.pc = "fail", !.mails = NeedsMail(m, With(m, "FAILED"))])
            /\ UNCHANGED outbox
       ELSE outbox' = With(m, "PENDING") /\ Now(s, Away)
    /\ UNCHANGED <<client, visit, queued, lapses>>

\* The transaction that gives a message up, with the e-mail it found necessary
\* and the subscription it revokes; what others wrote since, it has not seen. The
\* claim of a message that cannot be sent is still in it.
GiveUp(s) ==
    /\ sender[s].pc = "fail"
    /\ LET m == sender[s].row
           claims == sender[s].attempts = outbox[m].attempts
           rows == IF claims THEN [With(m, "FAILED") EXCEPT ![m].attempts = @ + 1] ELSE With(m, "FAILED")
       IN  outbox' = IF sender[s].mails /\ rows[Mail].status = "none"
                     THEN [rows EXCEPT ![Mail] = Queued(rows[m].start)] ELSE rows
    /\ client' = IF sender[s].revokes THEN [client EXCEPT !.devices = @ \ {sender[s].row}] ELSE client
    /\ Now(s, Away)
    /\ UNCHANGED <<visit, queued, lapses>>

-----------------------------------------------------------------------------
\* A run that dies, or is slower than the ten minutes of its claim.
Lapse == lapses < MaxLapses /\ lapses' = lapses + 1

SenderDies(s) ==
    /\ sender[s].pc # "away" /\ Lapse
    /\ Now(s, Away)
    /\ UNCHANGED <<client, visit, queued, outbox>>

TimePasses(m) ==
    /\ outbox[m].status = "PENDING" /\ ~outbox[m].due
    /\ IF \E s \in Senders : sender[s].row = m /\ sender[s].pc \notin {"away", "read"}
       THEN Lapse ELSE UNCHANGED lapses
    /\ outbox' = [outbox EXCEPT ![m].due = TRUE]
    /\ UNCHANGED <<client, visit, queued, sender>>

\* The appointment is moved, cancelled or begun.
VisitChanges ==
    /\ \E day \in Days \ {visit} : visit' = day
    /\ UNCHANGED <<client, queued, outbox, sender, lapses>>

\* The client turns messages on or off on a device (a subscription that was
\* revoked keeps its row when it comes back).
Subscribe(d) ==
    /\ d \notin client.devices
    /\ client' = [client EXCEPT !.devices = @ \cup {d}]
    /\ UNCHANGED <<visit, queued, outbox, sender, lapses>>

Unsubscribe(d) ==
    /\ d \in client.devices
    /\ client' = [client EXCEPT !.devices = @ \ {d}]
    /\ UNCHANGED <<visit, queued, outbox, sender, lapses>>

\* Before the first run of the day.
DeliveryInit ==
    /\ client \in [devices : SUBSET Devices, mail : BOOLEAN] /\ visit \in Times
    /\ queued = "never" /\ lapses = 0
    /\ outbox = [m \in Messages |-> NotQueued]
    /\ sender = [s \in Senders |-> Away]

Proceed(s) ==
    \/ QueueChannels(s)
    \/ Claim(s) \/ Check(s) \/ RecordSent(s) \/ RecordFailure(s) \/ GiveUp(s)
    \/ \E result \in {"sent", "gone", "failed"} : Send(s, result)

DeliveryNext ==
    \/ \E s \in Senders : Proceed(s) \/ ReadChannels(s) \/ SenderDies(s)
    \/ \E s \in Senders, m \in Messages : ReadRow(s, m)
    \/ \E m \in Messages : TimePasses(m)
    \/ \E d \in Devices : Subscribe(d) \/ Unsubscribe(d)
    \/ VisitChanges

DeliverySpec == DeliveryInit /\ [][DeliveryNext]_deliveryVars

-----------------------------------------------------------------------------
\* A message that was sent or given up stays so, whatever a slower run of the
\* job that claimed it before reports afterwards, and whoever queues it again.
SettledStays ==
    [][\A m \in Messages :
          outbox[m].status \in {"SENT", "FAILED", "STALE"} => outbox'[m].status = outbox[m].status]_deliveryVars

\* A message is attempted three times, and once more only for each run that died
\* or was overtaken while it had the message (sendOne: attempts and exhausted).
AttemptsBounded == \A m \in Messages : outbox[m].attempts <= MaxAttempts + lapses

\* While the reminder was queued once, the e-mail exists only when every push
\* message was given up, however many of them end at the same time, and whatever
\* devices came and went. Queued again, it may exist beside them.
EmailOnlyWithoutPush ==
    queued # "again" /\ outbox[Mail].status # "none" => \A d \in Devices : outbox[d].status \notin {"PENDING", "SENT"}
=============================================================================
