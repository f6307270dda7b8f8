----------------------------- MODULE DeskProofs -----------------------------
(* The delivery of a reminder, for any number of devices and runs of the job;  *)
(* the conversation with the secretary, for any number of processes, calls,    *)
(* drafts and crashes; and invitations and agendas, for any number of people,  *)
(* requests and plans. The three share nothing.                                *)
EXTENDS Delivery, Dialogue, Team, FiniteSetTheorems, TLAPS

(***************************************************************************)
(* The delivery of a reminder.                                             *)
(***************************************************************************)

-----------------------------------------------------------------------------
SenderRow == [pc : {"away", "insert", "read", "check", "send", "record", "failed", "fail"},
              row : Messages \cup {NoRow}, attempts : Nat, mails : BOOLEAN, revokes : BOOLEAN,
              start : Days, plan : SUBSET Messages]
ClientOK ==
    /\ client \in [devices : SUBSET Devices, mail : BOOLEAN] /\ visit \in Days /\ queued \in {"never", "once", "again"}
    /\ lapses \in 0..MaxLapses
OutboxOK == outbox \in [Messages -> OutboxRow]
\* What a run does with a message it has claimed, and with any message.
Trying == {"check", "send", "record", "failed"}
Holding == Trying \cup {"fail"}
SendersOK ==
    /\ sender \in [Senders -> SenderRow]
    /\ \A s \in Senders : sender[s].pc \in Holding \cup {"read"} => sender[s].row \in Messages
Typed == ClientOK /\ OutboxOK /\ SendersOK

\* A row only has more attempts than it is allowed while the run that will end it
\* still has it; whoever takes it from that run, or survives it, pays with a lapse.
Ends(s, m) == sender[s].row = m /\ sender[s].pc \in Holding /\ sender[s].attempts >= MaxAttempts - 1
Spent(m) ==
    /\ outbox[m].attempts <= MaxAttempts + lapses
    /\ outbox[m].status = "none" => outbox[m].attempts = 0
    /\ outbox[m].status = "PENDING" =>
          \/ outbox[m].attempts < MaxAttempts + lapses
          \/ ~outbox[m].due /\ \E s \in Senders : Ends(s, m)
\* A run that has a message has counted its attempt, or is about to.
Counted(s) ==
    /\ sender[s].pc \in Trying => sender[s].attempts < outbox[sender[s].row].attempts
    /\ sender[s].pc = "fail" =>
          \/ sender[s].attempts < outbox[sender[s].row].attempts
          \/ outbox[sender[s].row].status = "PENDING" /\ outbox[sender[s].row].due
Alone == \A s, e \in Senders : sender[s].pc = "fail" /\ sender[e].pc = "fail" /\ sender[s].row = sender[e].row => s = e
Sparing == Alone /\ (\A m \in Messages : Spent(m)) /\ \A s \in Senders : Counted(s)

\* Who has found an e-mail necessary holds the only message still under way.
Silent(m) == outbox[m].status \notin {"PENDING", "SENT"}
LastOne ==
    \A s \in Senders : sender[s].pc = "fail" /\ sender[s].mails =>
        /\ sender[s].row \in Devices /\ outbox[sender[s].row].status # "SENT"
        /\ \A d \in Devices \ {sender[s].row} : Silent(d)
\* A reminder is queued before any of it is sent, and for the devices or by e-mail.
QueuedOnce ==
    /\ queued = "never" => /\ \A m \in Messages : outbox[m].status = "none"
                           /\ \A s \in Senders : sender[s].pc \notin Holding \cup {"read"}
    /\ \A s \in Senders : sender[s].pc = "insert" /\ Mail \in sender[s].plan => sender[s].plan = {Mail}
Once == LastOne /\ QueuedOnce /\ EmailOnlyWithoutPush

DeliveryInv == Typed /\ Sparing /\ (queued # "again" => Once)

LEMMA TypedTypeOK == Typed => DeliveryTypeOK
BY DEF Typed, ClientOK, OutboxOK, SendersOK, DeliveryTypeOK, SenderRow

LEMMA RowsOK ==
  /\ NotQueued \in OutboxRow /\ NotQueued.status = "none" /\ NotQueued.attempts = 0
  /\ \A day \in Days : /\ Queued(day) \in OutboxRow /\ Queued(day).status = "PENDING"
                       /\ Queued(day).attempts = 0
BY DEF Queued, NotQueued, OutboxRow, Days

LEMMA AwayOK == Away \in SenderRow /\ Away.pc = "away"
BY DEF Away, SenderRow, Days

LEMMA SenderStep ==
  ASSUME SendersOK, NEW s \in Senders, NEW r \in SenderRow, r.pc \in Holding \cup {"read"} => r.row \in Messages, Now(s, r)
  PROVE  SendersOK' /\ sender'[s] = r /\ \A e \in Senders \ {s} : sender'[e] = sender[e]
BY DEF SendersOK, Now

\* An outcome is only written over PENDING, and over one message.
LEMMA WithOK ==
  ASSUME OutboxOK, NEW m \in Messages, NEW status \in {"PENDING", "SENT", "FAILED", "STALE"}
  PROVE  /\ With(m, status) \in [Messages -> OutboxRow]
         /\ \A n \in Messages : /\ With(m, status)[n].status =
                                       IF n = m /\ outbox[m].status = "PENDING" THEN status ELSE outbox[n].status
                                /\ With(m, status)[n].attempts = outbox[n].attempts
                                /\ With(m, status)[n].start = outbox[n].start
                                /\ With(m, status)[n].due => outbox[n].due
                                /\ n # m => With(m, status)[n] = outbox[n]
<1> DEFINE row == [outbox[m] EXCEPT !.status = status, !.due = FALSE]
<1>1. outbox[m] \in OutboxRow /\ outbox \in [Messages -> OutboxRow]
  BY DEF OutboxOK
<1>2. /\ row \in OutboxRow /\ row.status = status /\ row.attempts = outbox[m].attempts
      /\ row.start = outbox[m].start /\ ~row.due
  BY <1>1 DEF OutboxRow
<1>3. With(m, status) = IF outbox[m].status = "PENDING" THEN [outbox EXCEPT ![m] = row] ELSE outbox
  BY <1>1 DEF With, MayRecord, OutboxRow
<1> HIDE DEF row
<1> QED BY <1>1, <1>2, <1>3

Settled ==
    \A m \in Messages : outbox[m].status \in {"SENT", "FAILED", "STALE"} => outbox'[m].status = outbox[m].status

-----------------------------------------------------------------------------
\* A run that does not write: it takes no message, keeps the one it has, or dies.
LEMMA QuietStep ==
  ASSUME DeliveryInv, Typed', NEW s \in Senders, outbox' = outbox, queued' = queued,
         \A e \in Senders \ {s} : sender'[e] = sender[e],
         \/ sender'[s].pc \notin Holding
         \/ /\ sender[s].pc \in Trying /\ sender'[s].pc \in Trying
            /\ sender'[s].row = sender[s].row /\ sender'[s].attempts = sender[s].attempts,
         \/ lapses' = lapses /\ (sender[s].pc \in Holding => sender'[s].pc \in Holding)
         \/ lapses' = lapses + 1,
         queued # "again" => QueuedOnce'
  PROVE  DeliveryInv' /\ Settled
<1> USE DEF DeliveryInv, Typed
<1>1. Alone' /\ \A e \in Senders : Counted(e)'
  BY DEF Sparing, Alone, Counted, Holding, Trying
<1>2. ASSUME NEW m \in Messages PROVE Spent(m)'
  <2>1. Spent(m) /\ outbox[m].attempts \in Nat /\ lapses \in Nat /\ lapses' \in Nat /\ MaxAttempts \in Nat
    BY DeliveryAssumption DEF Sparing, OutboxOK, OutboxRow, ClientOK
  <2>2. CASE lapses' = lapses + 1
    BY <2>1, <2>2 DEF Spent
  <2>3. CASE lapses' = lapses /\ (sender[s].pc \in Holding => sender'[s].pc \in Holding)
    <3>1. \A e \in Senders : Ends(e, m) => Ends(e, m)'
      BY <2>3 DEF Ends, Holding, Trying
    <3> QED BY <2>1, <2>3, <3>1 DEF Spent
  <2> QED BY <2>2, <2>3
<1>3. queued # "again" => Once'
  <2> SUFFICES ASSUME queued # "again" PROVE Once'
    OBVIOUS
  <2>1. LastOne'
    BY DEF Once, LastOne, Silent, Holding, Trying
  <2>2. EmailOnlyWithoutPush'
    BY DEF Once, EmailOnlyWithoutPush
  <2> QED BY <2>1, <2>2 DEF Once
<1> QED BY <1>1, <1>2, <1>3 DEF Sparing, Settled

\* The step of a run that is not queuing keeps what is known of the queue.
LEMMA NotQueuing ==
  ASSUME QueuedOnce, queued' = queued, NEW s \in Senders, sender'[s].pc # "insert",
         \A e \in Senders \ {s} : sender'[e] = sender[e],
         queued # "never" \/ ((\A m \in Messages : outbox'[m].status = "none") /\ sender'[s].pc \notin Holding \cup {"read"})
  PROVE  QueuedOnce'
BY DEF QueuedOnce

\* No status changes in the surroundings of the runs.
LEMMA SurroundingSteps ==
  ASSUME DeliveryInv, VisitChanges \/ \E d \in Devices : Subscribe(d) \/ Unsubscribe(d)
  PROVE  DeliveryInv' /\ Settled
<1>1. UNCHANGED <<queued, outbox, sender, lapses>> /\ ClientOK'
  BY DEF VisitChanges, Subscribe, Unsubscribe, DeliveryInv, Typed, ClientOK
<1>2. Sparing'
  BY <1>1 DEF DeliveryInv, Sparing, Alone, Counted, Spent, Ends
<1>3. queued # "again" => Once'
  BY <1>1 DEF DeliveryInv, Once, LastOne, Silent, QueuedOnce, EmailOnlyWithoutPush
<1> QED BY <1>1, <1>2, <1>3 DEF DeliveryInv, Typed, OutboxOK, SendersOK, Settled

LEMMA TimeStep ==
  ASSUME DeliveryInv, NEW m \in Messages, TimePasses(m)
  PROVE  DeliveryInv' /\ Settled
<1> USE DEF DeliveryInv, Typed
<1>1. /\ outbox' = [outbox EXCEPT ![m].due = TRUE] /\ UNCHANGED <<client, visit, queued, sender>>
      /\ lapses' \in {lapses, lapses + 1} /\ lapses' \in 0..MaxLapses /\ lapses \in Nat
      /\ (\E s \in Senders : sender[s].row = m /\ sender[s].pc \in Holding) => lapses' = lapses + 1
  BY DeliveryAssumption DEF TimePasses, Lapse, ClientOK, Holding, Trying
<1>2. /\ [outbox[m] EXCEPT !.due = TRUE] \in OutboxRow /\ [outbox[m] EXCEPT !.due = TRUE].status = outbox[m].status
      /\ [outbox[m] EXCEPT !.due = TRUE].attempts = outbox[m].attempts /\ [outbox[m] EXCEPT !.due = TRUE].due
  BY DEF OutboxOK, OutboxRow
<1>3. /\ OutboxOK' /\ \A n \in Messages : /\ outbox'[n].status = outbox[n].status
                                          /\ outbox'[n].attempts = outbox[n].attempts
                                          /\ n # m => outbox'[n] = outbox[n]
                                          /\ outbox[n].due => outbox'[n].due
  BY <1>1, <1>2 DEF OutboxOK
<1>4. ASSUME NEW n \in Messages PROVE Spent(n)'
  <2>1. Spent(n) /\ outbox[n].attempts \in Nat /\ MaxAttempts \in Nat
    BY DeliveryAssumption DEF Sparing, OutboxOK, OutboxRow
  <2>2. \A s \in Senders : Ends(s, n)' = Ends(s, n)
    BY <1>1 DEF Ends
  <2>3. n = m => lapses' = lapses + 1 \/ \A s \in Senders : ~Ends(s, n)
    BY <1>1 DEF Ends
  <2> QED BY <1>1, <1>3, <2>1, <2>2, <2>3 DEF Spent
<1>5. \A s \in Senders : Counted(s)'
  BY <1>1, <1>3 DEF Sparing, Counted, SendersOK, Holding
<1>6. Alone'
  BY <1>1 DEF Sparing, Alone
<1>7. queued # "again" => Once'
  <2>1. \A d \in Devices : d \in Messages
    BY DEF Messages
  <2> SUFFICES ASSUME queued # "again" PROVE Once'
    OBVIOUS
  <2>2. LastOne'
    BY <1>1, <1>3, <2>1 DEF Once, LastOne, Silent
  <2>3. QueuedOnce'
    BY <1>1, <1>3 DEF Once, QueuedOnce
  <2>4. EmailOnlyWithoutPush'
    BY <1>3, <2>1 DEF Once, EmailOnlyWithoutPush, Messages
  <2> QED BY <2>2, <2>3, <2>4 DEF Once
<1> QED BY <1>1, <1>3, <1>4, <1>5, <1>6, <1>7 DEF ClientOK, SendersOK, Sparing, Settled

-----------------------------------------------------------------------------
\* Queuing the reminder.
LEMMA ReadChannelsStep ==
  ASSUME DeliveryInv, NEW s \in Senders, ReadChannels(s)
  PROVE  DeliveryInv' /\ Settled
<1> USE DEF DeliveryInv, Typed
<1> DEFINE ch == Channels
           a == Away
           row(start) == [a EXCEPT !.pc = "insert", !.start = start, !.plan = ch]
<1>1. a \in SenderRow /\ ch \in SUBSET Messages /\ (Mail \in ch => ch = {Mail})
  BY AwayOK, DeliveryAssumption DEF Channels, Messages, ClientOK
<1>2. /\ UNCHANGED <<client, visit, queued, outbox, lapses>> /\ sender[s].pc = "away"
      /\ \E start \in Times : Now(s, row(start))
  BY DEF ReadChannels
<1>3. PICK start \in Times : Now(s, row(start))
  BY <1>2
<1> DEFINE r == row(start)
<1>4. Now(s, r)
  BY <1>3
<1> HIDE DEF ch, a
<1>5. r \in SenderRow /\ r.pc = "insert" /\ r.plan = ch
  BY <1>1 DEF SenderRow, Days
<1> HIDE DEF r
<1>6. SendersOK' /\ sender'[s] = r /\ \A e \in Senders \ {s} : sender'[e] = sender[e]
  BY <1>4, <1>5, SenderStep DEF Holding, Trying
<1>7. queued # "again" => QueuedOnce'
  BY <1>1, <1>2, <1>5, <1>6 DEF Once, QueuedOnce, Holding, Trying
<1> QED BY <1>2, <1>5, <1>6, <1>7, QuietStep DEF ClientOK, OutboxOK, Holding, Trying

\* The rows are new, without attempts; the first time, nothing else is.
LEMMA QueueStep ==
  ASSUME DeliveryInv, NEW s \in Senders, QueueChannels(s)
  PROVE  DeliveryInv' /\ Settled
<1> USE DEF DeliveryInv, Typed
<1> DEFINE new(m) == m \in sender[s].plan /\ outbox[m].status = "none"
<1>1. /\ sender[s].pc = "insert" /\ sender[s] \in SenderRow /\ sender[s].start \in Days
      /\ queued' = (IF queued = "never" THEN "once" ELSE "again") /\ Now(s, Away) /\ UNCHANGED <<client, visit, lapses>>
      /\ outbox' = [m \in Messages |-> IF new(m) THEN Queued(sender[s].start) ELSE outbox[m]]
  BY DEF QueueChannels, SendersOK, SenderRow
<1>2. SendersOK' /\ sender'[s].pc = "away" /\ \A e \in Senders \ {s} : sender'[e] = sender[e]
  BY <1>1, AwayOK, SenderStep DEF Holding, Trying
<1>3. OutboxOK' /\ \A m \in Messages :
          outbox'[m] = outbox[m] \/ (new(m) /\ outbox'[m].status = "PENDING" /\ outbox'[m].attempts = 0)
  BY <1>1, RowsOK DEF OutboxOK
<1>4. ASSUME NEW m \in Messages PROVE Spent(m)'
  <2>1. Spent(m) /\ lapses \in Nat /\ lapses' = lapses
    BY <1>1 DEF Sparing, ClientOK
  <2>2. CASE outbox'[m] = outbox[m]
    <3>1. \A e \in Senders : Ends(e, m) => Ends(e, m)'
      BY <1>1, <1>2 DEF Ends, Holding, Trying
    <3> QED BY <2>1, <2>2, <3>1 DEF Spent
  <2>3. CASE outbox'[m].attempts = 0
    BY DeliveryAssumption, <1>3, <2>1, <2>3 DEF Spent
  <2> QED BY <1>3, <2>2, <2>3
<1>5. ASSUME NEW e \in Senders PROVE Counted(e)'
  <2>1. CASE e = s
    BY <1>2, <2>1 DEF Counted, Trying
  <2>2. CASE e # s
    <3> SUFFICES ASSUME sender[e].pc \in Holding PROVE Counted(e)'
      BY <1>2, <2>2 DEF Counted, Holding
    <3> DEFINE n == sender[e].row
    <3>1. n \in Messages /\ Counted(e) /\ sender'[e] = sender[e] /\ sender[e].attempts \in Nat
      BY <1>2, <2>2 DEF SendersOK, Sparing, SenderRow
    <3>2. CASE outbox'[n] = outbox[n]
      BY <3>1, <3>2 DEF Counted
    <3>3. CASE outbox'[n] # outbox[n]
      <4>1. outbox[n].status = "none"
        BY <1>3, <3>1, <3>3
      <4>2. outbox[n].attempts = 0
        BY <3>1, <4>1 DEF Sparing, Spent
      <4> QED BY <3>1, <4>1, <4>2 DEF Counted, Holding
    <3> QED BY <3>2, <3>3
  <2> QED BY <2>1, <2>2
<1>6. Alone'
  BY <1>2 DEF Sparing, Alone
<1>7. queued' # "again" => Once'
  <2> SUFFICES ASSUME queued' # "again" PROVE Once'
    OBVIOUS
  <2>1. /\ queued = "never" /\ Once
        /\ \A m \in Messages : outbox[m].status = "none"
        /\ \A e \in Senders : sender'[e].pc \notin {"read"} \cup Holding
        /\ \A e \in Senders : sender'[e].pc = "insert" => sender'[e] = sender[e]
        /\ Mail \in sender[s].plan => sender[s].plan = {Mail}
    BY <1>1, <1>2 DEF Once, QueuedOnce, Holding, Trying
  <2>2. LastOne' /\ QueuedOnce'
    BY <1>1, <2>1 DEF Once, LastOne, QueuedOnce, Holding
  <2>3. EmailOnlyWithoutPush'
    <3> SUFFICES ASSUME outbox'[Mail].status # "none", NEW d \in Devices PROVE outbox'[d].status \notin {"PENDING", "SENT"}
      BY DEF EmailOnlyWithoutPush
    <3>1. new(Mail) /\ d # Mail /\ d \in Messages /\ Mail \in Messages
      BY <1>3, <2>1, DeliveryAssumption DEF Messages
    <3>2. outbox'[d] = outbox[d]
      BY <1>3, <2>1, <3>1
    <3> QED BY <2>1, <3>1, <3>2
  <2> QED BY <2>2, <2>3 DEF Once
<1> QED BY <1>1, <1>2, <1>3, <1>4, <1>5, <1>6, <1>7 DEF ClientOK, Sparing, Settled

-----------------------------------------------------------------------------
LEMMA ReadRowStep ==
  ASSUME DeliveryInv, NEW s \in Senders, NEW m \in Messages, ReadRow(s, m)
  PROVE  DeliveryInv' /\ Settled
<1> USE DEF DeliveryInv, Typed
<1> DEFINE a == Away
           r == [a EXCEPT !.pc = "read", !.row = m, !.attempts = outbox[m].attempts]
<1>1. a \in SenderRow /\ outbox[m].attempts \in Nat
  BY AwayOK DEF OutboxOK, OutboxRow
<1>2. /\ Now(s, r) /\ UNCHANGED <<client, visit, queued, outbox, lapses>> /\ sender[s].pc = "away"
      /\ outbox[m].status = "PENDING"
  BY DEF ReadRow
<1> HIDE DEF a
<1>3. r \in SenderRow /\ r.row = m /\ r.pc = "read"
  BY <1>1 DEF SenderRow
<1> HIDE DEF r
<1>4. SendersOK' /\ sender'[s] = r /\ \A e \in Senders \ {s} : sender'[e] = sender[e]
  BY <1>2, <1>3, SenderStep
<1>5. queued # "again" => QueuedOnce'
  BY <1>2, <1>3, <1>4, NotQueuing DEF Once, QueuedOnce
<1> QED BY <1>2, <1>3, <1>4, <1>5, QuietStep DEF ClientOK, OutboxOK, Holding, Trying

LEMMA DiesStep ==
  ASSUME DeliveryInv, NEW s \in Senders, SenderDies(s)
  PROVE  DeliveryInv' /\ Settled
<1> USE DEF DeliveryInv, Typed
<1>1. SendersOK' /\ sender'[s].pc = "away" /\ \A e \in Senders \ {s} : sender'[e] = sender[e]
  BY AwayOK, SenderStep DEF SenderDies, Holding, Trying
<1>2. UNCHANGED <<client, visit, queued, outbox>> /\ lapses' \in 0..MaxLapses /\ lapses' = lapses + 1
  BY DeliveryAssumption DEF SenderDies, Lapse, ClientOK
<1>3. queued # "again" => QueuedOnce'
  BY <1>1, <1>2 DEF Once, QueuedOnce, Holding, Trying
<1> QED BY <1>1, <1>2, <1>3, QuietStep DEF ClientOK, OutboxOK, Holding, Trying

LEMMA SendStep ==
  ASSUME DeliveryInv, NEW s \in Senders, NEW result \in {"sent", "gone", "failed"}, Send(s, result)
  PROVE  DeliveryInv' /\ Settled
<1> USE DEF DeliveryInv, Typed
<1> DEFINE pc == IF result = "sent" THEN "record" ELSE "failed"
           gone == result = "gone"
           r == [sender[s] EXCEPT !.pc = pc, !.revokes = gone]
<1>1. sender[s] \in SenderRow /\ sender[s].row \in Messages /\ sender[s].pc = "send"
  BY DEF Send, SendersOK, Holding, Trying
<1>2. Now(s, r) /\ UNCHANGED <<client, visit, queued, outbox, lapses>>
  BY DEF Send
<1>3. pc \in {"record", "failed"} /\ gone \in BOOLEAN
  OBVIOUS
<1> HIDE DEF pc, gone
<1>4. r \in SenderRow /\ r.row = sender[s].row /\ r.pc = pc /\ r.attempts = sender[s].attempts
  BY <1>1, <1>3 DEF SenderRow
<1> HIDE DEF r
<1>5. SendersOK' /\ sender'[s] = r /\ \A e \in Senders \ {s} : sender'[e] = sender[e]
  BY <1>1, <1>2, <1>4, SenderStep
<1>6. queued # "again" => QueuedOnce'
  BY <1>1, <1>2, <1>3, <1>4, <1>5, NotQueuing DEF Once, QueuedOnce, Holding, Trying
<1> QED BY <1>1, <1>2, <1>3, <1>4, <1>5, <1>6, QuietStep DEF ClientOK, OutboxOK, Holding, Trying

-----------------------------------------------------------------------------
\* A run that writes its message, which nobody else is giving up; at most, it
\* queues another that did not exist.
LEMMA SparingStep ==
  ASSUME DeliveryInv, Typed', NEW s \in Senders, NEW m \in Messages, sender[s].row = m,
         lapses' = lapses, \A e \in Senders \ {s} : sender'[e] = sender[e],
         \A e \in Senders \ {s} : ~(sender[e].pc = "fail" /\ sender[e].row = m),
         sender'[s].pc # "fail", Counted(s)', Spent(m)',
         outbox'[m].attempts >= outbox[m].attempts,
         \A n \in Messages \ {m} :
             \/ outbox'[n] = outbox[n]
             \/ outbox[n].status = "none" /\ outbox'[n].status = "PENDING" /\ outbox'[n].attempts = 0
  PROVE  Sparing'
<1> USE DEF DeliveryInv, Typed
<1>1. Alone'
  BY DEF Sparing, Alone
<1>2. ASSUME NEW n \in Messages PROVE Spent(n)'
  <2>1. Spent(n) /\ lapses \in Nat
    BY DEF Sparing, ClientOK
  <2>2. CASE n = m
    BY <2>2
  <2>3. CASE n # m /\ outbox'[n] = outbox[n]
    <3>1. \A e \in Senders : Ends(e, n) => Ends(e, n)'
      BY <2>3 DEF Ends
    <3> QED BY <2>1, <2>3, <3>1 DEF Spent
  <2>4. CASE outbox'[n].status = "PENDING" /\ outbox'[n].attempts = 0
    BY DeliveryAssumption, <2>1, <2>4 DEF Spent
  <2> QED BY <2>2, <2>3, <2>4
<1>3. ASSUME NEW e \in Senders PROVE Counted(e)'
  <2> SUFFICES ASSUME e # s, sender[e].pc \in Holding PROVE Counted(e)'
    BY DEF Counted, Holding
  <2> DEFINE n == sender[e].row
  <2>1. /\ n \in Messages /\ Counted(e) /\ Spent(n) /\ sender'[e] = sender[e] /\ sender[e].attempts \in Nat
        /\ outbox[n].attempts \in Nat /\ outbox'[n].attempts \in Nat
    BY DEF SendersOK, Sparing, SenderRow, OutboxOK, OutboxRow
  <2>2. CASE n = m
    BY <2>1, <2>2 DEF Counted, Trying
  <2>3. CASE n # m /\ outbox'[n] = outbox[n]
    BY <2>1, <2>3 DEF Counted
  <2>4. CASE outbox[n].status = "none"
    <3>1. outbox[n].attempts = 0
      BY <2>1, <2>4 DEF Spent
    <3> QED BY <2>1, <2>4, <3>1 DEF Counted, Holding
  <2> QED BY <2>1, <2>2, <2>3, <2>4
<1> QED BY <1>1, <1>2, <1>3 DEF Sparing

\* A run that records an outcome, of a message nobody is giving up. Only one that
\* may try again leaves it PENDING.
LEMMA OutcomeStep ==
  ASSUME DeliveryInv, NEW s \in Senders, NEW m \in Messages, sender[s].row = m, ~Locked(m),
         sender[s].pc \in Trying \cup {"read"},
         NEW status \in {"PENDING", "SENT", "FAILED", "STALE"}, outbox' = With(m, status), Now(s, Away),
         status = "PENDING" => sender[s].attempts < MaxAttempts - 1,
         UNCHANGED <<client, visit, queued, lapses>>
  PROVE  DeliveryInv' /\ Settled
<1> USE DEF DeliveryInv, Typed
<1>1. SendersOK' /\ sender'[s].pc = "away" /\ \A e \in Senders \ {s} : sender'[e] = sender[e]
  BY AwayOK, SenderStep DEF Holding, Trying
<1>2. /\ OutboxOK' /\ \A n \in Messages : /\ outbox'[n].status =
                                                  IF n = m /\ outbox[m].status = "PENDING" THEN status ELSE outbox[n].status
                                          /\ outbox'[n].attempts = outbox[n].attempts
                                          /\ outbox'[n].due => outbox[n].due
                                          /\ n # m => outbox'[n] = outbox[n]
  BY WithOK DEF OutboxOK
<1>3. Typed'
  BY <1>1, <1>2 DEF ClientOK
<1>4. Spent(m)'
  <2>1. Spent(m) /\ lapses \in Nat /\ outbox[m].attempts \in Nat /\ sender[s].attempts \in Nat /\ MaxAttempts \in Nat \ {0}
    BY DeliveryAssumption DEF Sparing, ClientOK, OutboxOK, OutboxRow, SendersOK, SenderRow
  <2>2. CASE outbox[m].status # "PENDING"
    BY <1>2, <2>1, <2>2 DEF Spent
  <2>3. CASE outbox[m].status = "PENDING" /\ status # "PENDING"
    BY <1>2, <2>1, <2>3 DEF Spent
  <2>4. CASE outbox[m].status = "PENDING" /\ status = "PENDING"
    <3>1. \A e \in Senders : Ends(e, m) => Ends(e, m)'
      BY <1>1, <2>1, <2>4 DEF Ends
    <3> QED BY <1>2, <2>1, <2>4, <3>1 DEF Spent
  <2> QED BY <2>2, <2>3, <2>4
<1>5. Sparing'
  <2>1. /\ outbox'[m].attempts >= outbox[m].attempts /\ Counted(s)'
        /\ \A e \in Senders \ {s} : ~(sender[e].pc = "fail" /\ sender[e].row = m)
    BY <1>1, <1>2 DEF Locked, Counted, Trying, OutboxOK, OutboxRow
  <2> QED BY <1>1, <1>2, <1>3, <1>4, <2>1, SparingStep
<1>6. queued # "again" => Once'
  <2> SUFFICES ASSUME queued # "again" PROVE Once'
    OBVIOUS
  <2>1. \A n \in Messages : Silent(n) => Silent(n)'
    BY <1>2 DEF Silent
  <2>2. Mail \in Messages /\ \A d \in Devices : d \in Messages
    BY DEF Messages
  <2>3. EmailOnlyWithoutPush'
    BY <1>2, <2>1, <2>2 DEF Once, EmailOnlyWithoutPush, Silent
  <2>4. LastOne'
    <3> SUFFICES ASSUME NEW e \in Senders, sender'[e].pc = "fail", sender'[e].mails
                 PROVE  /\ sender'[e].row \in Devices /\ outbox'[sender'[e].row].status # "SENT"
                        /\ \A d \in Devices \ {sender'[e].row} : Silent(d)'
      BY DEF LastOne, Silent
    <3>1. sender'[e] = sender[e]
      BY <1>1
    <3>2. sender[e].row \in Devices /\ sender[e].row # m /\ outbox[sender[e].row].status # "SENT"
      BY <3>1 DEF Once, LastOne, Locked
    <3>3. \A d \in Devices \ {sender[e].row} : Silent(d)
      BY <3>1 DEF Once, LastOne
    <3> QED BY <1>2, <2>1, <2>2, <3>1, <3>2, <3>3
  <2>5. QueuedOnce'
    BY <1>1, NotQueuing DEF Once, QueuedOnce, Holding
  <2> QED BY <2>3, <2>4, <2>5 DEF Once
<1> QED BY <1>2, <1>3, <1>5, <1>6 DEF Settled

\* A run that opens the transaction that gives its message up, which nobody else
\* is giving up.
LEMMA FailStep ==
  ASSUME DeliveryInv, NEW s \in Senders, NEW m \in Messages, sender[s].row = m, ~Locked(m),
         \/ sender[s].pc \in Trying
         \/ sender[s].pc = "read" /\ outbox[m].status = "PENDING" /\ outbox[m].due,
         Now(s, [sender[s] EXCEPT !.pc = "fail", !.mails = NeedsMail(m, With(m, "FAILED"))]),
         UNCHANGED <<client, visit, queued, outbox, lapses>>
  PROVE  DeliveryInv' /\ Settled
<1> USE DEF DeliveryInv, Typed
<1> DEFINE rows == With(m, "FAILED")
           needs == NeedsMail(m, rows)
           r == [sender[s] EXCEPT !.pc = "fail", !.mails = needs]
<1>1. needs \in BOOLEAN
  BY DEF NeedsMail, ClientOK
<1>2. Now(s, r)
  OBVIOUS
<1>3. needs => /\ m \in Devices /\ outbox[m].status # "SENT"
               /\ \A d \in Devices \ {m} : Silent(d)
  <2> SUFFICES ASSUME needs
               PROVE  m \in Devices /\ outbox[m].status # "SENT" /\ \A d \in Devices \ {m} : Silent(d)
    OBVIOUS
  <2>1. m \in Devices /\ \A d \in Devices : rows[d].status \notin {"PENDING", "SENT"}
    BY DEF NeedsMail, Remaining, Messages
  <2>2. \A n \in Messages : rows[n].status =
            IF n = m /\ outbox[m].status = "PENDING" THEN "FAILED" ELSE outbox[n].status
    BY WithOK
  <2> QED BY <2>1, <2>2 DEF Silent, Messages
<1> HIDE DEF needs
<1>4. r \in SenderRow /\ r.pc = "fail" /\ r.row = m /\ r.mails = needs /\ r.attempts = sender[s].attempts
  <2>1. sender[s] \in SenderRow
    BY DEF SendersOK
  <2> QED BY <1>1, <2>1 DEF SenderRow
<1> HIDE DEF r
<1>5. SendersOK' /\ sender'[s] = r /\ \A e \in Senders \ {s} : sender'[e] = sender[e]
  BY <1>2, <1>4, SenderStep
<1>6. Alone'
  BY <1>4, <1>5 DEF Sparing, Alone, Locked
<1>7. \A e \in Senders : Counted(e)'
  BY <1>4, <1>5 DEF Sparing, Counted, Trying
<1>8. ASSUME NEW n \in Messages PROVE Spent(n)'
  <2>1. \A e \in Senders : Ends(e, n) => Ends(e, n)'
    BY <1>4, <1>5 DEF Ends, Holding
  <2>2. Spent(n)
    BY DEF Sparing
  <2> QED BY <2>1, <2>2 DEF Spent
<1>9. queued # "again" => Once'
  <2> SUFFICES ASSUME queued # "again" PROVE Once'
    OBVIOUS
  <2>1. LastOne'
    <3> SUFFICES ASSUME NEW e \in Senders, sender'[e].pc = "fail", sender'[e].mails
                 PROVE  /\ sender'[e].row \in Devices /\ outbox[sender'[e].row].status # "SENT"
                        /\ \A d \in Devices \ {sender'[e].row} : Silent(d)
      BY DEF LastOne, Silent
    <3>1. CASE e = s
      BY <1>3, <1>4, <1>5, <3>1
    <3>2. CASE e # s
      BY <1>5, <3>2 DEF Once, LastOne
    <3> QED BY <3>1, <3>2
  <2>2. QueuedOnce'
    BY <1>4, <1>5, NotQueuing DEF Once, QueuedOnce, Holding
  <2> QED BY <2>1, <2>2 DEF Once, EmailOnlyWithoutPush
<1> QED BY <1>5, <1>6, <1>7, <1>8, <1>9 DEF ClientOK, OutboxOK, Sparing, Settled

\* The claim counts an attempt that was still allowed.
LEMMA ClaimedStep ==
  ASSUME DeliveryInv, NEW s \in Senders, NEW m \in Messages, sender[s].row = m, ~Locked(m),
         sender[s].pc = "read", Claimable(s, m),
         outbox' = [outbox EXCEPT ![m].attempts = @ + 1, ![m].due = FALSE], To(s, "check"),
         UNCHANGED <<client, visit, queued, lapses>>
  PROVE  DeliveryInv' /\ Settled
<1> USE DEF DeliveryInv, Typed
<1> DEFINE r == [sender[s] EXCEPT !.pc = "check"]
           n == outbox[m].attempts + 1
           row == [outbox[m] EXCEPT !.attempts = n, !.due = FALSE]
<1>1. outbox[m] \in OutboxRow /\ outbox \in [Messages -> OutboxRow] /\ n \in Nat /\ sender[s] \in SenderRow
  BY DEF OutboxOK, OutboxRow, SendersOK
<1>2. outbox' = [outbox EXCEPT ![m] = row] /\ Now(s, r)
  BY <1>1 DEF OutboxRow, To
<1>3. r \in SenderRow /\ r.pc = "check" /\ r.row = m /\ r.attempts = sender[s].attempts
  BY <1>1 DEF SenderRow
<1>4. outbox[m].attempts = sender[s].attempts /\ outbox[m].status = "PENDING" /\ outbox[m].due
  BY DEF Claimable
<1>5. n = sender[s].attempts + 1 /\ sender[s].attempts \in Nat
  BY <1>1, <1>4 DEF SenderRow
<1> HIDE DEF r, n
<1>6. row \in OutboxRow /\ row.status = outbox[m].status /\ row.attempts = n /\ ~row.due
  BY <1>1 DEF OutboxRow
<1> HIDE DEF row
<1>7. SendersOK' /\ sender'[s] = r /\ \A e \in Senders \ {s} : sender'[e] = sender[e]
  BY <1>2, <1>3, SenderStep
<1>8. OutboxOK' /\ outbox'[m] = row /\ \A k \in Messages \ {m} : outbox'[k] = outbox[k]
  <2>1. outbox'[m] = row /\ \A k \in Messages \ {m} : outbox'[k] = outbox[k]
    BY <1>1, <1>2
  <2>2. outbox' \in [Messages -> OutboxRow]
    BY <1>1, <1>2, <1>6
  <2> QED BY <2>1, <2>2 DEF OutboxOK
<1>9. \A k \in Messages : outbox'[k].status = outbox[k].status
  BY <1>6, <1>8
<1>10. Spent(m)'
  <2>1. Spent(m) /\ lapses \in Nat /\ MaxAttempts \in Nat \ {0}
    BY DeliveryAssumption DEF Sparing, ClientOK
  <2>2. n <= MaxAttempts + lapses
    BY <1>4, <1>5, <2>1 DEF Spent
  <2>3. n < MaxAttempts + lapses \/ Ends(s, m)'
    BY <1>3, <1>5, <1>7, <2>1, <2>2 DEF Ends, Holding, Trying
  <2> QED BY <1>4, <1>6, <1>8, <2>2, <2>3 DEF Spent
<1>11. Sparing'
  <2>1. Typed'
    BY <1>7, <1>8 DEF ClientOK
  <2>2. outbox'[m].attempts = n /\ n > outbox[m].attempts /\ n > sender[s].attempts
    <3>1. outbox'[m].attempts = n
      BY <1>6, <1>8
    <3>2. n > sender[s].attempts
      BY <1>5
    <3> QED BY <1>4, <3>1, <3>2
  <2>3. sender'[s].pc = "check" /\ sender'[s].row = m /\ sender'[s].attempts = sender[s].attempts
    BY <1>3, <1>7
  <2>4. sender'[s].pc # "fail" /\ Counted(s)' /\ outbox'[m].attempts >= outbox[m].attempts
    BY <1>1, <1>4, <1>5, <2>2, <2>3 DEF Counted
  <2>5. \A e \in Senders \ {s} : ~(sender[e].pc = "fail" /\ sender[e].row = m)
    BY DEF Locked
  <2> QED BY <1>7, <1>8, <1>10, <2>1, <2>4, <2>5, SparingStep
<1>12. queued # "again" => Once'
  <2> SUFFICES ASSUME queued # "again" PROVE Once'
    OBVIOUS
  <2>1. Mail \in Messages /\ \A d \in Devices : d \in Messages
    BY DEF Messages
  <2>2. LastOne'
    <3> SUFFICES ASSUME NEW e \in Senders, sender'[e].pc = "fail", sender'[e].mails
                 PROVE  /\ sender'[e].row \in Devices /\ outbox'[sender'[e].row].status # "SENT"
                        /\ \A d \in Devices \ {sender'[e].row} : Silent(d)'
      BY DEF LastOne, Silent
    <3>1. sender'[e] = sender[e]
      BY <1>3, <1>7
    <3>2. sender[e].row \in Devices /\ outbox[sender[e].row].status # "SENT"
          /\ \A d \in Devices \ {sender[e].row} : Silent(d)
      BY <3>1 DEF Once, LastOne
    <3> QED BY <1>9, <2>1, <3>1, <3>2 DEF Silent
  <2>3. EmailOnlyWithoutPush'
    BY <1>9, <2>1 DEF Once, EmailOnlyWithoutPush
  <2>4. QueuedOnce'
    BY <1>3, <1>7, NotQueuing DEF Once, QueuedOnce
  <2> QED BY <2>2, <2>3, <2>4 DEF Once
<1> QED BY <1>7, <1>8, <1>9, <1>11, <1>12 DEF ClientOK, Settled

LEMMA KeepsStep ==
  ASSUME DeliveryInv, NEW s \in Senders, sender[s].row \in Messages,
         \/ sender[s].pc = "read" /\ Now(s, Away)
         \/ sender[s].pc = "check" /\ To(s, "send"),
         UNCHANGED <<client, visit, queued, outbox, lapses>>
  PROVE  DeliveryInv' /\ Settled
<1> USE DEF DeliveryInv, Typed
<1> DEFINE r == [sender[s] EXCEPT !.pc = "send"]
<1>1. sender[s] \in SenderRow
  BY DEF SendersOK
<1>2. r \in SenderRow /\ r.pc = "send" /\ r.row = sender[s].row /\ r.attempts = sender[s].attempts
  BY <1>1 DEF SenderRow
<1>3. (sender[s].pc = "read" /\ Now(s, Away)) \/ (sender[s].pc = "check" /\ Now(s, r))
  BY DEF To
<1> HIDE DEF r
<1>4. /\ SendersOK' /\ \A e \in Senders \ {s} : sender'[e] = sender[e]
      /\ \/ sender[s].pc = "read" /\ sender'[s].pc = "away"
         \/ sender[s].pc = "check" /\ sender'[s] = r
  <2>1. CASE sender[s].pc = "read" /\ Now(s, Away)
    BY <2>1, AwayOK, SenderStep DEF Holding, Trying
  <2>2. CASE sender[s].pc = "check" /\ Now(s, r)
    BY <1>2, <2>2, SenderStep
  <2> QED BY <1>3, <2>1, <2>2
<1>5. queued # "again" => QueuedOnce'
  BY <1>2, <1>4, NotQueuing DEF Once, QueuedOnce, Holding, Trying
<1> QED BY <1>2, <1>4, <1>5, QuietStep DEF ClientOK, OutboxOK, Holding, Trying

LEMMA RunSteps ==
  ASSUME DeliveryInv, NEW s \in Senders, Claim(s) \/ Check(s) \/ RecordSent(s) \/ RecordFailure(s)
  PROVE  DeliveryInv' /\ Settled
<1> DEFINE m == sender[s].row
           fails == Now(s, [sender[s] EXCEPT !.pc = "fail", !.mails = NeedsMail(m, With(m, "FAILED"))]) /\ UNCHANGED outbox
<1>1. m \in Messages /\ UNCHANGED <<client, visit, queued, lapses>>
  BY DEF Claim, Check, RecordSent, RecordFailure, DeliveryInv, Typed, SendersOK, Holding, Trying
<1>2. CASE Claim(s)
  <2>1. sender[s].pc = "read" /\ ~Locked(m)
    BY <1>2 DEF Claim
  <2>2. \/ outbox' = With(m, "STALE") /\ Now(s, Away)
        \/ Now(s, Away) /\ UNCHANGED outbox
        \/ /\ Claimable(s, m) /\ To(s, "check")
           /\ outbox' = [outbox EXCEPT ![m].attempts = @ + 1, ![m].due = FALSE]
        \/ Claimable(s, m) /\ fails
    BY <1>2 DEF Claim
  <2>3. CASE outbox' = With(m, "STALE") /\ Now(s, Away)
    BY <1>1, <2>1, <2>3, OutcomeStep
  <2>4. CASE Now(s, Away) /\ UNCHANGED outbox
    BY <1>1, <2>1, <2>4, KeepsStep
  <2>5. CASE /\ Claimable(s, m) /\ To(s, "check")
             /\ outbox' = [outbox EXCEPT ![m].attempts = @ + 1, ![m].due = FALSE]
    BY <1>1, <2>1, <2>5, ClaimedStep
  <2>6. CASE Claimable(s, m) /\ fails
    BY <1>1, <2>1, <2>6, FailStep DEF Claimable
  <2> QED BY <2>2, <2>3, <2>4, <2>5, <2>6
<1>3. CASE Check(s)
  <2>1. sender[s].pc = "check"
    BY <1>3 DEF Check
  <2>2. CASE To(s, "send") /\ UNCHANGED outbox
    BY <1>1, <2>1, <2>2, KeepsStep
  <2>3. CASE ~Locked(m) /\ outbox' = With(m, "STALE") /\ Now(s, Away)
    BY <1>1, <2>1, <2>3, OutcomeStep DEF Trying
  <2> QED BY <1>3, <2>2, <2>3 DEF Check
<1>4. CASE RecordSent(s)
  <2>1. sender[s].pc = "record" /\ ~Locked(m) /\ outbox' = With(m, "SENT") /\ Now(s, Away)
    BY <1>4 DEF RecordSent
  <2> QED BY <1>1, <2>1, OutcomeStep DEF Trying
<1>5. CASE RecordFailure(s)
  <2>1. sender[s].pc = "failed" /\ ~Locked(m)
    BY <1>5 DEF RecordFailure
  <2>2. CASE fails
    BY <1>1, <2>1, <2>2, FailStep DEF Trying
  <2>3. CASE ~IsLast(sender[s].attempts) /\ outbox' = With(m, "PENDING") /\ Now(s, Away)
    <3>1. sender[s].attempts \in Nat
      BY DEF DeliveryInv, Typed, SendersOK, SenderRow
    <3>2. sender[s].attempts < MaxAttempts - 1
      BY DeliveryAssumption, <2>3, <3>1 DEF IsLast
    <3> QED BY <1>1, <2>1, <2>3, <3>2, OutcomeStep DEF Trying
  <2> QED BY <1>5, <2>2, <2>3 DEF RecordFailure
<1> QED BY <1>2, <1>3, <1>4, <1>5

\* The attempt of a message given up in its claim was still allowed too.
LEMMA GiveUpStep ==
  ASSUME DeliveryInv, NEW s \in Senders, NEW m \in Messages, sender[s].row = m, GiveUp(s)
  PROVE  DeliveryInv' /\ Settled
<1> USE DEF DeliveryInv, Typed
<1> DEFINE claims == sender[s].attempts = outbox[m].attempts
           w == With(m, "FAILED")
           rows == IF claims THEN [w EXCEPT ![m].attempts = @ + 1] ELSE w
<1>1. /\ sender[s].pc = "fail" /\ Now(s, Away) /\ UNCHANGED <<visit, queued, lapses>>
      /\ outbox' = IF sender[s].mails /\ rows[Mail].status = "none"
                   THEN [rows EXCEPT ![Mail] = Queued(rows[m].start)] ELSE rows
  BY DEF GiveUp
<1>2. ClientOK'
  <2>1. client' = client \/ client' = [client EXCEPT !.devices = @ \ {m}]
    BY DEF GiveUp
  <2> QED BY <1>1, <2>1 DEF ClientOK
<1>3. SendersOK' /\ sender'[s].pc = "away" /\ \A e \in Senders \ {s} : sender'[e] = sender[e]
  BY <1>1, AwayOK, SenderStep DEF Holding, Trying
<1>4. /\ Spent(m) /\ Counted(s) /\ lapses \in Nat /\ outbox[m].attempts \in Nat /\ sender[s].attempts \in Nat
      /\ outbox[m] \in OutboxRow /\ MaxAttempts \in Nat \ {0}
  BY DeliveryAssumption, <1>1 DEF Sparing, ClientOK, OutboxOK, OutboxRow, SendersOK, SenderRow
<1>5. claims => outbox[m].status = "PENDING" /\ outbox[m].attempts < MaxAttempts + lapses
  BY <1>1, <1>4 DEF Counted, Spent
<1>6. w \in [Messages -> OutboxRow] /\ \A n \in Messages :
          /\ w[n].status = IF n = m /\ outbox[m].status = "PENDING" THEN "FAILED" ELSE outbox[n].status
          /\ w[n].attempts = outbox[n].attempts
          /\ n # m => w[n] = outbox[n]
  BY <1>1, WithOK
<1>7. /\ rows \in [Messages -> OutboxRow]
      /\ \A n \in Messages :
            /\ rows[n].status = IF n = m /\ outbox[m].status = "PENDING" THEN "FAILED" ELSE outbox[n].status
            /\ n # m => rows[n] = outbox[n]
      /\ rows[m].attempts = IF claims THEN outbox[m].attempts + 1 ELSE outbox[m].attempts
  <2> DEFINE k == w[m].attempts + 1
             row == [w[m] EXCEPT !.attempts = k]
  <2>1. w[m] \in OutboxRow /\ k \in Nat /\ k = outbox[m].attempts + 1
    BY <1>1, <1>4, <1>6
  <2>2. claims => rows = [w EXCEPT ![m] = row]
    BY <1>1, <1>6
  <2>3. ~claims => rows = w
    OBVIOUS
  <2> HIDE DEF k, w, claims
  <2>4. row \in OutboxRow /\ row.status = w[m].status /\ row.attempts = k
    BY <2>1 DEF OutboxRow
  <2> HIDE DEF row, rows
  <2>5. CASE claims
    BY <1>1, <1>6, <2>1, <2>2, <2>4, <2>5
  <2>6. CASE ~claims
    BY <1>1, <1>6, <2>3, <2>6
  <2> QED BY <2>5, <2>6
<1> HIDE DEF w, rows
<1>8. rows[Mail].status = "none" => Mail # m /\ outbox[Mail].status = "none"
  <2>1. Mail = m => outbox[m].status # "none"
    BY <1>1, <1>4 DEF Counted, Spent
  <2> QED BY <1>7, <2>1 DEF Messages
<1>9. rows[m].start \in Days
  BY <1>1, <1>7 DEF OutboxRow
<1>10. /\ outbox' \in [Messages -> OutboxRow] /\ \A n \in Messages : n # Mail => outbox'[n] = rows[n]
       /\ \/ outbox'[Mail] = rows[Mail]
          \/ /\ sender[s].mails /\ rows[Mail].status = "none"
             /\ outbox'[Mail].status = "PENDING" /\ outbox'[Mail].attempts = 0
  BY <1>1, <1>7, <1>9, RowsOK DEF Messages
<1>11. outbox'[m] = rows[m]
  BY <1>1, <1>8, <1>10
<1>12. Sparing'
  <2>1. Typed'
    BY <1>2, <1>3, <1>10 DEF OutboxOK
  <2>2. \A e \in Senders \ {s} : ~(sender[e].pc = "fail" /\ sender[e].row = m)
    BY <1>1 DEF Sparing, Alone
  <2>3. sender'[s].pc # "fail" /\ Counted(s)' /\ outbox'[m].attempts >= outbox[m].attempts
    BY <1>3, <1>4, <1>7, <1>11 DEF Counted, Trying
  <2>4. \A n \in Messages \ {m} :
            \/ outbox'[n] = outbox[n]
            \/ outbox[n].status = "none" /\ outbox'[n].status = "PENDING" /\ outbox'[n].attempts = 0
    BY <1>7, <1>8, <1>10
  <2>5. Spent(m)'
    <3>1. outbox'[m].status # "PENDING" /\ outbox'[m].attempts <= MaxAttempts + lapses
      BY <1>1, <1>4, <1>5, <1>7, <1>11 DEF Spent
    <3>2. outbox'[m].status = "none" => outbox[m].status = "none" /\ ~claims
      BY <1>1, <1>5, <1>7, <1>11
    <3>3. outbox'[m].status = "none" => outbox'[m].attempts = 0
      BY <1>4, <1>7, <1>11, <3>2 DEF Spent
    <3> QED BY <1>1, <3>1, <3>3 DEF Spent
  <2> QED BY <1>1, <1>3, <2>1, <2>2, <2>3, <2>4, <2>5, SparingStep
<1>13. \A n \in Messages : outbox[n].status \in {"SENT", "FAILED", "STALE"} => outbox'[n].status = outbox[n].status
  BY <1>7, <1>8, <1>10
<1>14. queued # "again" => Once'
  <2> SUFFICES ASSUME queued # "again" PROVE Once'
    OBVIOUS
  <2>1. \A d \in Devices : d # Mail /\ d \in Messages /\ outbox'[d] = rows[d]
    BY <1>10, DeliveryAssumption DEF Messages
  <2>2. \A d \in Devices : Silent(d) => outbox'[d].status \notin {"PENDING", "SENT"}
    BY <1>7, <2>1 DEF Silent
  <2>3. LastOne'
    <3> SUFFICES ASSUME NEW e \in Senders, sender'[e].pc = "fail", sender'[e].mails
                 PROVE  /\ sender'[e].row \in Devices /\ outbox'[sender'[e].row].status # "SENT"
                        /\ \A d \in Devices \ {sender'[e].row} : outbox'[d].status \notin {"PENDING", "SENT"}
      BY DEF LastOne, Silent
    <3>1. sender'[e] = sender[e]
      BY <1>3
    <3>2. sender[e].row \in Devices /\ outbox[sender[e].row].status # "SENT"
          /\ \A d \in Devices \ {sender[e].row} : Silent(d)
      BY <3>1 DEF Once, LastOne
    <3>3. outbox'[sender[e].row].status # "SENT"
      BY <1>7, <2>1, <3>2
    <3> QED BY <2>2, <3>1, <3>2, <3>3
  <2>4. EmailOnlyWithoutPush'
    <3> SUFFICES ASSUME outbox'[Mail].status # "none", NEW d \in Devices PROVE outbox'[d].status \notin {"PENDING", "SENT"}
      BY DEF EmailOnlyWithoutPush
    <3>1. CASE sender[s].mails
      <4>1. m \in Devices /\ outbox[m].status # "SENT" /\ (d # m => Silent(d))
        BY <1>1, <3>1 DEF Once, LastOne
      <4>2. CASE d # m
        BY <2>2, <4>1, <4>2
      <4>3. CASE d = m
        BY <1>7, <2>1, <4>1, <4>3
      <4> QED BY <4>2, <4>3
    <3>2. CASE ~sender[s].mails
      <4>1. outbox[Mail].status # "none"
        BY <1>7, <1>10, <3>2 DEF Messages
      <4>2. Silent(d)
        BY <4>1 DEF Once, EmailOnlyWithoutPush, Silent
      <4> QED BY <2>2, <4>2
    <3> QED BY <3>1, <3>2
  <2>5. QueuedOnce'
    BY <1>1, <1>3, NotQueuing DEF Once, QueuedOnce, Holding
  <2> QED BY <2>3, <2>4, <2>5 DEF Once
<1> QED BY <1>1, <1>2, <1>3, <1>10, <1>12, <1>13, <1>14 DEF OutboxOK, Settled

-----------------------------------------------------------------------------
LEMMA InitDeliveryInv == DeliveryInit => DeliveryInv
<1> SUFFICES ASSUME DeliveryInit PROVE DeliveryInv
  OBVIOUS
<1>1. ClientOK /\ lapses = 0 /\ lapses \in Nat
  <2>1. /\ client \in [devices : SUBSET Devices, mail : BOOLEAN] /\ visit \in Days
        /\ lapses = 0 /\ lapses \in 0..MaxLapses
    BY DeliveryAssumption DEF DeliveryInit, Days
  <2>2. queued = "never"
    BY Zenon DEF DeliveryInit
  <2> QED BY <2>1, <2>2 DEF ClientOK
<1>2. OutboxOK /\ \A m \in Messages : outbox[m].status = "none" /\ outbox[m].attempts = 0
  BY RowsOK DEF DeliveryInit, OutboxOK
<1>3. SendersOK /\ \A s \in Senders : sender[s].pc = "away"
  BY AwayOK DEF DeliveryInit, SendersOK, Holding, Trying
<1>4. Sparing
  BY DeliveryAssumption, <1>1, <1>2, <1>3 DEF Sparing, Alone, Spent, Counted, Trying
<1>5. Once
  <2>1. LastOne /\ QueuedOnce
    BY <1>2, <1>3 DEF DeliveryInit, LastOne, QueuedOnce, Holding, Trying
  <2>2. EmailOnlyWithoutPush
    BY <1>2 DEF EmailOnlyWithoutPush, Messages
  <2> QED BY <2>1, <2>2 DEF Once
<1> QED BY <1>1, <1>2, <1>3, <1>4, <1>5 DEF DeliveryInv, Typed

LEMMA NextDeliveryInv ==
  ASSUME DeliveryInv, [DeliveryNext]_deliveryVars
  PROVE  DeliveryInv' /\ Settled
<1>1. CASE UNCHANGED deliveryVars
  <2> USE <1>1 DEF deliveryVars, DeliveryInv
  <2>1. Typed' /\ Settled
    BY DEF Typed, ClientOK, OutboxOK, SendersOK, Settled
  <2>2. Sparing'
    BY DEF Sparing, Alone, Spent, Counted, Ends
  <2>3. queued # "again" => Once'
    BY DEF Once, LastOne, Silent, QueuedOnce, EmailOnlyWithoutPush
  <2> QED BY <2>1, <2>2, <2>3
<1>2. ASSUME NEW s \in Senders, Proceed(s) PROVE DeliveryInv' /\ Settled
  <2>1. CASE GiveUp(s)
    <3>1. sender[s].row \in Messages
      BY <2>1 DEF GiveUp, DeliveryInv, Typed, SendersOK, Holding
    <3> QED BY <2>1, <3>1, GiveUpStep
  <2> QED BY <1>2, <2>1, QueueStep, RunSteps, SendStep DEF Proceed
<1>3. ASSUME NEW s \in Senders, ReadChannels(s) \/ SenderDies(s) PROVE DeliveryInv' /\ Settled
  BY <1>3, ReadChannelsStep, DiesStep
<1>4. ASSUME NEW s \in Senders, NEW m \in Messages, ReadRow(s, m) PROVE DeliveryInv' /\ Settled
  BY <1>4, ReadRowStep
<1>5. ASSUME NEW m \in Messages, TimePasses(m) PROVE DeliveryInv' /\ Settled
  BY <1>5, TimeStep
<1>6. CASE VisitChanges \/ \E d \in Devices : Subscribe(d) \/ Unsubscribe(d)
  BY <1>6, SurroundingSteps
<1> QED BY <1>1, <1>2, <1>3, <1>4, <1>5, <1>6 DEF DeliveryNext

LEMMA DeliveryInvariant == DeliverySpec => []DeliveryInv
BY InitDeliveryInv, NextDeliveryInv, PTL DEF DeliverySpec

\* The types of the rows, of the runs of the job and of the client.
THEOREM DeliveryTypeCorrect == DeliverySpec => []DeliveryTypeOK
<1>1. DeliveryInv => DeliveryTypeOK
  BY TypedTypeOK DEF DeliveryInv
<1> QED BY <1>1, DeliveryInvariant, PTL

\* A message has MaxAttempts attempts, and one more for each run that died or was
\* overtaken with a message in hand, for any number of devices and runs, however
\* often the reminder is queued again.
THEOREM AttemptsStayBounded == DeliverySpec => []AttemptsBounded
<1>1. DeliveryInv => AttemptsBounded
  BY DEF DeliveryInv, Sparing, Spent, AttemptsBounded
<1> QED BY <1>1, DeliveryInvariant, PTL

\* While the job has queued a reminder once, the e-mail is only queued when every
\* push message was given up, for any number of devices and of runs that send at
\* once, whatever devices come and go.
THEOREM EmailIsTheLastResort == DeliverySpec => []EmailOnlyWithoutPush
<1>1. DeliveryInv => EmailOnlyWithoutPush
  BY DEF DeliveryInv, Once, EmailOnlyWithoutPush
<1> QED BY <1>1, DeliveryInvariant, PTL

\* What was sent or given up stays so, whatever a slower run reports afterwards,
\* and whoever queues the reminder again.
THEOREM OutcomesAreFinal == DeliverySpec => SettledStays
<1>1. DeliveryInv /\ [DeliveryNext]_deliveryVars =>
        [\A m \in Messages : outbox[m].status \in {"SENT", "FAILED", "STALE"}
                               => outbox'[m].status = outbox[m].status]_deliveryVars
  BY NextDeliveryInv DEF Settled
<1>2. DeliverySpec => [][DeliveryNext]_deliveryVars
  BY DEF DeliverySpec
<1> QED BY <1>1, <1>2, DeliveryInvariant, PTL DEF SettledStays

(***************************************************************************)
(* The conversation with the secretary.                                    *)
(***************************************************************************)

-----------------------------------------------------------------------------
(* The types, field by field.                                                  *)

CallRow == [pc : {"waiting", "run", "propose", "save", "over"}, kind : {"message", "confirm", "cancel"},
            at : Workers \cup {Absent}, version : Nat, shown : Revisions \cup {0}, state : State]
ChatOK == chat \in [version : Nat, leased : BOOLEAN, saved : State]
JournalOK == journal \in [Drafts -> Record]
CopyOK == copy \in [Workers -> Calls \cup {0}]
CallOK == call \in [Calls -> CallRow]
DoneOK == done \subseteq [by : Calls, draft : Drafts, revision : Revisions] /\ crashes \in 0..MaxCrashes
ChatTyped == ChatOK /\ JournalOK /\ CopyOK /\ CallOK /\ DoneOK

Busy(c) == call[c].pc \in {"run", "propose", "save"}

-----------------------------------------------------------------------------
(* What was carried out is in the journal, and stays its last word.            *)

\* A proposal belongs to a draft.
Sound(s) == s.proposal # 0 => s.draft # 0
Revised(s) == s.draft # 0 /\ s.revision # 0
Sounds ==
    /\ Sound(chat.saved)
    /\ \A c \in Calls : Sound(call[c].state) /\ (call[c].pc = "propose" => Revised(call[c].state))

\* A call whose version is the row's started from what the row says.
Versions ==
    \A c \in Calls : Busy(c) =>
        /\ call[c].at \in Workers /\ call[c].version <= chat.version
        /\ call[c].version = chat.version =>
               /\ chat.saved.turns \subseteq call[c].state.turns
               /\ chat.saved.draft # 0 => call[c].state.draft = chat.saved.draft
               /\ copy[call[c].at] \in {0, c}

\* Only the draft that was saved first can be confirmed.
Confirms == \A c \in Calls : Has(c, "run", "confirm") => call[c].state.draft \in {0, chat.saved.draft}
DoneSaved == \A x \in done : x.draft = chat.saved.draft

Final == \A x \in done : journal[x.draft].latest = x.revision /\ journal[x.draft].confirmed = x.revision
AtMostOne == done = {} \/ \E x : done = {x}

DialogueInv == ChatTyped /\ Sounds /\ Versions /\ Confirms /\ DoneSaved /\ Final /\ AtMostOne

LEMMA ChatTypedTypeOK == ChatTyped => DialogueTypeOK
BY DEF ChatTyped, ChatOK, JournalOK, CopyOK, CallOK, DoneOK, DialogueTypeOK, CallRow

LEMMA OpenedOK == Opened \in State
BY DEF Opened, State

LEMMA WaitingOK == Waiting \in CallRow /\ Waiting.pc = "waiting" /\ Waiting.at = Absent
BY OpenedOK DEF Waiting, CallRow

Over == [Waiting EXCEPT !.pc = "over"]

LEMMA OverOK == Over \in CallRow /\ Over.pc = "over" /\ Over.at = Absent /\ Over.state = Opened
<1> DEFINE w == Waiting
<1>1. w \in CallRow /\ w.at = Absent /\ w.state = Opened
  BY WaitingOK DEF Waiting
<1> HIDE DEF w
<1>2. /\ [w EXCEPT !.pc = "over"] \in CallRow /\ [w EXCEPT !.pc = "over"].pc = "over"
      /\ [w EXCEPT !.pc = "over"].at = w.at /\ [w EXCEPT !.pc = "over"].state = w.state
  BY <1>1 DEF CallRow
<1> QED BY <1>1, <1>2 DEF w, Over

LEMMA OpenedSound == Sound(Opened)
BY DEF Opened, Sound

\* What the step of call c leaves of the others.
LEMMA CallStep ==
  ASSUME CallOK, NEW c \in Calls, NEW r \in CallRow, Goes(c, r)
  PROVE  CallOK' /\ call'[c] = r /\ \A e \in Calls \ {c} : call'[e] = call[e]
BY DEF CallOK, Goes

LEMMA SettleStep ==
  ASSUME CallOK, NEW c \in Calls, NEW s \in State, Settle(c, s)
  PROVE  /\ CallOK' /\ \A e \in Calls \ {c} : call'[e] = call[e]
         /\ call'[c].pc = "save" /\ call'[c].state = s /\ call'[c].version = call[c].version
         /\ call'[c].at = call[c].at
<1> DEFINE r == [call[c] EXCEPT !.pc = "save", !.state = s]
<1>1. call[c] \in CallRow
  BY DEF CallOK
<1>2. r \in CallRow /\ r.pc = "save" /\ r.state = s /\ r.version = call[c].version /\ r.at = call[c].at
  BY <1>1 DEF CallRow
<1>3. Goes(c, r)
  BY DEF Settle
<1> HIDE DEF r
<1> QED BY <1>2, <1>3, CallStep

\* What a call does between its load and its save: it keeps the messages it
\* knows and the draft it has.
LEMMA Progress ==
  ASSUME DialogueInv, NEW c \in Calls, Busy(c), call'[c].pc \in {"propose", "save"},
         call'[c].version = call[c].version, call'[c].at = call[c].at,
         \A e \in Calls \ {c} : call'[e] = call[e],
         Sound(call'[c].state), call'[c].pc = "propose" => Revised(call'[c].state),
         call[c].state.turns \subseteq call'[c].state.turns,
         call[c].state.draft # 0 => call'[c].state.draft = call[c].state.draft,
         UNCHANGED <<chat, copy>>
  PROVE  Sounds' /\ Versions' /\ Confirms'
<1>1. Sounds'
  BY DEF DialogueInv, Sounds, Sound, Revised
<1>2. Versions'
  <2> SUFFICES ASSUME NEW e \in Calls, Busy(e)'
               PROVE  /\ call'[e].at \in Workers /\ call'[e].version <= chat.version
                      /\ call'[e].version = chat.version =>
                             /\ chat.saved.turns \subseteq call'[e].state.turns
                             /\ chat.saved.draft # 0 => call'[e].state.draft = chat.saved.draft
                             /\ copy[call'[e].at] \in {0, e}
    BY DEF Versions
  <2>1. CASE e = c
    BY <2>1 DEF DialogueInv, Versions
  <2>2. CASE e # c
    BY <2>2 DEF DialogueInv, Versions, Busy
  <2> QED BY <2>1, <2>2
<1>3. Confirms'
  BY DEF DialogueInv, Confirms, Has
<1> QED BY <1>1, <1>2, <1>3

\* The same, for a call that goes on to save s.
LEMMA Settles ==
  ASSUME DialogueInv, NEW c \in Calls, Busy(c), NEW s \in State, Settle(c, s), Sound(s),
         call[c].state.turns \subseteq s.turns, call[c].state.draft # 0 => s.draft = call[c].state.draft,
         UNCHANGED <<chat, copy>>
  PROVE  CallOK' /\ Sounds' /\ Versions' /\ Confirms'
<1>1. CallOK
  BY DEF DialogueInv, ChatTyped
<1>2. /\ CallOK' /\ \A e \in Calls \ {c} : call'[e] = call[e]
      /\ call'[c].pc = "save" /\ call'[c].state = s /\ call'[c].version = call[c].version
      /\ call'[c].at = call[c].at
  BY <1>1, SettleStep
<1> QED BY <1>2, Progress

\* And for one that leaves the record alone.
LEMMA SettlesOnly ==
  ASSUME DialogueInv, NEW c \in Calls, Busy(c), NEW s \in State, Settle(c, s), Sound(s),
         call[c].state.turns \subseteq s.turns, call[c].state.draft # 0 => s.draft = call[c].state.draft,
         UNCHANGED <<chat, copy, journal, done, crashes>>
  PROVE  DialogueInv'
<1>1. CallOK' /\ Sounds' /\ Versions' /\ Confirms'
  BY Settles
<1> QED BY <1>1 DEF DialogueInv, ChatTyped, ChatOK, JournalOK, CopyOK, DoneOK, DoneSaved, Final, AtMostOne

LEMMA LoadStep ==
  ASSUME DialogueInv, NEW c \in Calls, NEW p \in Workers, NEW kind \in {"message", "confirm", "cancel"},
         NEW shown \in Revisions \cup {0}, Load(c, p, kind, shown)
  PROVE  DialogueInv'
<1> USE DEF DialogueInv, ChatTyped
<1> DEFINE r == [pc |-> "run", kind |-> kind, at |-> p, version |-> chat.version + 1, shown |-> shown,
                 state |-> chat.saved]
<1>1. /\ chat.version \in Nat /\ chat.saved \in State
      /\ chat' = [chat EXCEPT !.version = @ + 1, !.leased = TRUE]
      /\ copy' = [copy EXCEPT ![p] = c] /\ Goes(c, r) /\ UNCHANGED <<journal, done, crashes>>
  BY DEF Load, ChatOK
<1>2. /\ r \in CallRow /\ r.pc = "run" /\ r.at = p /\ r.version = chat.version + 1
      /\ r.state = chat.saved
  BY <1>1 DEF CallRow
<1> HIDE DEF r
<1>3. CallOK' /\ call'[c] = r /\ \A e \in Calls \ {c} : call'[e] = call[e]
  BY <1>1, <1>2, CallStep
<1>4. ChatOK' /\ chat'.version = chat.version + 1 /\ chat'.saved = chat.saved
  <2>1. chat \in [version : Nat, leased : BOOLEAN, saved : State]
    BY DEF ChatOK
  <2>2. chat' = [chat EXCEPT !.version = chat.version + 1, !.leased = TRUE] /\ chat.version + 1 \in Nat
    BY <1>1
  <2>3. chat'.version = chat.version + 1 /\ chat'.saved = chat.saved
    BY <2>1, <2>2
  <2>4. chat' \in [version : Nat, leased : BOOLEAN, saved : State]
    BY <2>1, <2>2
  <2> QED BY <2>3, <2>4 DEF ChatOK
<1>5. CopyOK' /\ copy'[p] = c /\ \A q \in Workers \ {p} : copy'[q] = copy[q]
  BY <1>1 DEF CopyOK
<1>6. ChatTyped'
  BY <1>1, <1>3, <1>4, <1>5 DEF JournalOK, DoneOK
<1>7. Sounds'
  BY <1>2, <1>3, <1>4 DEF Sounds, Sound, Revised
<1>8. Versions'
  <2> SUFFICES ASSUME NEW e \in Calls, Busy(e)'
               PROVE  /\ call'[e].at \in Workers /\ call'[e].version <= chat'.version
                      /\ call'[e].version = chat'.version =>
                             /\ chat'.saved.turns \subseteq call'[e].state.turns
                             /\ chat'.saved.draft # 0 => call'[e].state.draft = chat'.saved.draft
                             /\ copy'[call'[e].at] \in {0, e}
    BY DEF Versions
  <2>1. CASE e = c
    BY <1>1, <1>2, <1>3, <1>4, <1>5, <2>1
  <2>2. CASE e # c
    <3>1. Busy(e) /\ call'[e] = call[e] /\ call[e].version \in Nat
      BY <1>3, <2>2 DEF Busy, CallOK, CallRow
    <3>2. call[e].at \in Workers /\ call[e].version <= chat.version
      BY <3>1 DEF Versions
    <3> QED BY <1>1, <1>4, <3>1, <3>2
  <2> QED BY <2>1, <2>2
<1>9. Confirms'
  BY <1>2, <1>3, <1>4 DEF Confirms, Has
<1> QED BY <1>1, <1>4, <1>6, <1>7, <1>8, <1>9 DEF DoneSaved, Final, AtMostOne

LEMMA AmendStep ==
  ASSUME DialogueInv, NEW c \in Calls, NEW d \in Drafts, Amend(c, d)
  PROVE  DialogueInv'
<1> DEFINE s == call[c].state
           t == [s EXCEPT !.draft = d, !.revision = s.revision + 1, !.proposal = 0, !.turns = @ \cup {c}]
           u == [s EXCEPT !.proposal = 0]
           r == [call[c] EXCEPT !.pc = "propose", !.state = t]
<1>1. /\ Busy(c) /\ s \in State /\ call[c] \in CallRow /\ CallOK /\ journal \in [Drafts -> Record]
      /\ UNCHANGED <<chat, copy, done, crashes>>
      /\ s.draft # 0 => d = s.draft
  BY DEF Amend, Has, Busy, DialogueInv, ChatTyped, CallOK, CallRow, JournalOK
<1>2. CASE ~MayAmend(d, s.revision)
  <2>1. Settle(c, u) /\ UNCHANGED journal
    BY <1>2 DEF Amend
  <2>2. u \in State /\ Sound(u) /\ u.turns = s.turns /\ u.draft = s.draft
    <3> HIDE DEF s
    <3> QED BY <1>1 DEF State, Sound
  <2>3. /\ UNCHANGED <<chat, copy, journal, done, crashes>> /\ call[c].state.turns \subseteq u.turns
        /\ call[c].state.draft # 0 => u.draft = call[c].state.draft
    <3>1. UNCHANGED <<chat, copy, journal, done, crashes>>
      BY <1>1, <2>1
    <3>2. call[c].state.turns \subseteq u.turns
      BY <2>2
    <3>3. call[c].state.draft # 0 => u.draft = call[c].state.draft
      BY <2>2
    <3> QED BY <3>1, <3>2, <3>3
  <2> HIDE DEF u, s
  <2> QED BY <1>1, <2>1, <2>2, <2>3, SettlesOnly
<1>3. CASE MayAmend(d, s.revision)
  <2>1. /\ s.revision < MaxRevisions /\ journal' = [journal EXCEPT ![d].latest = @ + 1] /\ Goes(c, r)
        /\ journal[d].latest = s.revision /\ journal[d].confirmed = 0
    BY <1>3 DEF Amend, MayAmend
  <2>2. s.revision + 1 \in Revisions
    <3>1. s.revision \in Revisions \cup {0}
      BY <1>1 DEF State
    <3> HIDE DEF s
    <3> QED BY <2>1, <3>1, DialogueAssumption DEF Revisions
  <2>3. /\ t \in State /\ Sound(t) /\ t.turns = s.turns \cup {c} /\ t.draft = d /\ Revised(t)
    <3>1. d # 0 /\ s.revision + 1 # 0
      BY <2>2 DEF Drafts, Revisions
    <3> DEFINE n == s.revision + 1
    <3> HIDE DEF s, n
    <3>2. n # 0 /\ n \in Revisions /\ d # 0 /\ s \in State
      BY <1>1, <2>2, <3>1 DEF n
    <3>3. /\ [s EXCEPT !.draft = d, !.revision = n, !.proposal = 0, !.turns = @ \cup {c}] \in State
          /\ Sound([s EXCEPT !.draft = d, !.revision = n, !.proposal = 0, !.turns = @ \cup {c}])
          /\ [s EXCEPT !.draft = d, !.revision = n, !.proposal = 0, !.turns = @ \cup {c}].turns = s.turns \cup {c}
          /\ Revised([s EXCEPT !.draft = d, !.revision = n, !.proposal = 0, !.turns = @ \cup {c}])
          /\ [s EXCEPT !.draft = d, !.revision = n, !.proposal = 0, !.turns = @ \cup {c}].draft = d
      BY <3>2 DEF State, Sound, Revised
    <3> QED BY <3>3 DEF n
  <2> HIDE DEF t
  <2>4. /\ r \in CallRow /\ r.pc = "propose" /\ r.state = t /\ r.version = call[c].version
        /\ r.at = call[c].at
    BY <1>1, <2>3 DEF CallRow
  <2> HIDE DEF r
  <2>5. CallOK' /\ call'[c] = r /\ \A e \in Calls \ {c} : call'[e] = call[e]
    BY <1>1, <2>1, <2>4, CallStep
  <2>6. Sounds' /\ Versions' /\ Confirms'
    <3>1. /\ call'[c].pc = "propose" /\ call'[c].version = call[c].version /\ call'[c].at = call[c].at
          /\ Sound(call'[c].state) /\ Revised(call'[c].state) /\ call[c].state.turns \subseteq call'[c].state.turns
          /\ call[c].state.draft # 0 => call'[c].state.draft = call[c].state.draft
      <4>1. call'[c].state = t /\ call'[c].pc = "propose" /\ call'[c].version = call[c].version /\ call'[c].at = call[c].at
        BY <2>4, <2>5
      <4>2. s.turns \subseteq t.turns /\ (s.draft # 0 => t.draft = s.draft)
        <5> HIDE DEF s
        <5> QED BY <1>1, <2>3
      <4> QED BY <2>3, <4>1, <4>2
    <3>2. UNCHANGED <<chat, copy>>
      BY <1>1
    <3> QED BY <1>1, <2>5, <3>1, <3>2, Progress
  <2>7. JournalOK' /\ \A e \in Drafts : e # d => journal'[e] = journal[e]
    <3> DEFINE row == [journal[d] EXCEPT !.latest = s.revision + 1]
    <3>1. row \in Record
      <4>1. journal[d] \in Record
        BY <1>1
      <4> HIDE DEF s
      <4> QED BY <2>2, <4>1 DEF Record
    <3>2. journal' = [journal EXCEPT ![d] = row]
      BY <2>1
    <3> HIDE DEF row
    <3> QED BY <1>1, <3>1, <3>2 DEF JournalOK
  <2>8. \A x \in done : x.draft \in Drafts /\ x.draft # d
    <3> SUFFICES ASSUME NEW x \in done PROVE x.draft \in Drafts /\ x.draft # d
      OBVIOUS
    <3>1. x.draft \in Drafts /\ x.revision \in Revisions /\ journal[x.draft].confirmed = x.revision
      BY DEF DialogueInv, ChatTyped, DoneOK, Final
    <3> QED BY <2>1, <3>1 DEF Revisions
  <2>9. Final'
    <3>1. \A x \in done : journal'[x.draft] = journal[x.draft]
      BY <2>7, <2>8
    <3>2. done' = done /\ Final
      BY <1>1 DEF DialogueInv
    <3> QED BY <3>1, <3>2 DEF Final
  <2> QED BY <1>1, <2>5, <2>6, <2>7, <2>9
          DEF DialogueInv, ChatTyped, ChatOK, CopyOK, DoneOK, DoneSaved, AtMostOne
<1> QED BY <1>2, <1>3

LEMMA ProposeStep ==
  ASSUME DialogueInv, NEW c \in Calls, Propose(c)
  PROVE  DialogueInv'
<1> DEFINE s == call[c].state
           t == [s EXCEPT !.proposal = s.revision]
<1>1. /\ Busy(c) /\ s \in State /\ Revised(s) /\ Sound(s) /\ journal \in [Drafts -> Record]
      /\ UNCHANGED <<chat, copy, done, crashes>>
  BY DEF Propose, Busy, DialogueInv, ChatTyped, CallOK, CallRow, JournalOK, Sounds
<1>2. CASE Settle(c, s) /\ UNCHANGED journal
  BY <1>1, <1>2, SettlesOnly
<1>3. CASE /\ MayPropose(s.draft, s.revision) /\ Settle(c, t)
           /\ journal' = [journal EXCEPT ![s.draft].proposals = @ \cup {s.revision}]
  <2>1. s.draft \in Drafts /\ s.revision \in Revisions
    <3> HIDE DEF s
    <3> QED BY <1>1 DEF State, Revised
  <2>2. t \in State /\ Sound(t) /\ t.turns = s.turns /\ t.draft = s.draft
    <3> HIDE DEF s
    <3> QED BY <1>1 DEF State, Sound, Revised
  <2>3. CallOK' /\ Sounds' /\ Versions' /\ Confirms'
    <3> HIDE DEF t, s
    <3> QED BY <1>1, <1>3, <2>2, Settles DEF s
  <2> DEFINE d == s.draft
             row == [journal[d] EXCEPT !.proposals = @ \cup {s.revision}]
  <2>4. row \in Record /\ row.latest = journal[d].latest /\ row.confirmed = journal[d].confirmed
    <3>1. journal[d] \in Record
      BY <1>1, <2>1
    <3> HIDE DEF s
    <3> QED BY <2>1, <3>1 DEF Record
  <2>5. journal' = [journal EXCEPT ![d] = row]
    BY <1>3
  <2> HIDE DEF row
  <2>6. JournalOK'
    BY <1>1, <2>1, <2>4, <2>5 DEF JournalOK
  <2>7. Final'
    <3> SUFFICES ASSUME NEW x \in done
                 PROVE  journal'[x.draft].latest = x.revision /\ journal'[x.draft].confirmed = x.revision
      BY <1>1 DEF Final
    <3>1. /\ x.draft \in Drafts
          /\ journal[x.draft].latest = x.revision /\ journal[x.draft].confirmed = x.revision
      BY DEF DialogueInv, ChatTyped, DoneOK, Final
    <3>2. journal'[x.draft].latest = journal[x.draft].latest /\ journal'[x.draft].confirmed = journal[x.draft].confirmed
      BY <1>1, <2>1, <2>4, <2>5, <3>1
    <3> QED BY <3>1, <3>2
  <2> QED BY <1>1, <2>3, <2>6, <2>7 DEF DialogueInv, ChatTyped, ChatOK, CopyOK, DoneOK, DoneSaved, AtMostOne
<1> QED BY <1>2, <1>3 DEF Propose

LEMMA AnswerStep ==
  ASSUME DialogueInv, NEW c \in Calls, AnswerOnly(c) \/ Cancel(c)
  PROVE  DialogueInv'
<1> DEFINE s == call[c].state
           t == [s EXCEPT !.proposal = 0, !.turns = @ \cup {c}]
           u == [s EXCEPT !.cancelled = TRUE, !.proposal = 0]
<1>1. /\ Busy(c) /\ s \in State /\ Sound(s)
      /\ UNCHANGED <<chat, copy, journal, done, crashes>>
  BY DEF AnswerOnly, Cancel, Has, Busy, DialogueInv, ChatTyped, CallOK, CallRow, Sounds
<1>2. Settle(c, s) \/ Settle(c, t) \/ Settle(c, u)
  <2>1. CASE AnswerOnly(c)
    <3>1. Settle(c, IF Closed(s) THEN s ELSE t)
      BY <2>1 DEF AnswerOnly
    <3> HIDE DEF s, t
    <3> QED BY <3>1
  <2>2. CASE Cancel(c)
    <3>1. Settle(c, IF s.receipt THEN s ELSE u)
      BY <2>2 DEF Cancel
    <3> HIDE DEF s, u
    <3> QED BY <3>1
  <2> QED BY <2>1, <2>2
<1>3. /\ t \in State /\ Sound(t) /\ s.turns \subseteq t.turns /\ t.draft = s.draft
      /\ u \in State /\ Sound(u) /\ s.turns \subseteq u.turns /\ u.draft = s.draft
  <2> HIDE DEF s
  <2> QED BY <1>1 DEF State, Sound
<1> HIDE DEF t, u
<1>4. CASE Settle(c, s)
  BY <1>1, <1>4, SettlesOnly
<1>5. CASE Settle(c, t)
  BY <1>1, <1>3, <1>5, SettlesOnly
<1>6. CASE Settle(c, u)
  BY <1>1, <1>3, <1>6, SettlesOnly
<1> QED BY <1>2, <1>4, <1>5, <1>6

\* A change is carried out for the saved draft, of which none was before.
LEMMA ConfirmStep ==
  ASSUME DialogueInv, NEW c \in Calls, Confirm(c)
  PROVE  DialogueInv'
<1> DEFINE s == call[c].state
           d == s.draft
           q == call[c].shown
           t == [s EXCEPT !.receipt = TRUE]
           u == [s EXCEPT !.proposal = 0, !.cancelled = TRUE]
           x == [by |-> c, draft |-> d, revision |-> q]
<1>1. /\ Busy(c) /\ s \in State /\ Sound(s) /\ journal \in [Drafts -> Record]
      /\ UNCHANGED <<chat, copy, crashes>> /\ d \in {0, chat.saved.draft}
  BY DEF Confirm, Has, Busy, DialogueInv, ChatTyped, CallOK, CallRow, Sounds, JournalOK, Confirms
<1>2. /\ t \in State /\ Sound(t) /\ s.turns \subseteq t.turns /\ t.draft = s.draft
      /\ u \in State /\ Sound(u) /\ s.turns \subseteq u.turns /\ u.draft = s.draft
  <2> HIDE DEF s
  <2> QED BY <1>1 DEF State, Sound
<1> HIDE DEF t, u
<1>3. \/ (Settle(c, s) \/ Settle(c, t) \/ Settle(c, u)) /\ UNCHANGED <<journal, done>>
      \/ /\ s.proposal # 0 /\ s.proposal = q /\ IsLatest(d, q) /\ NotBefore(d) /\ Settle(c, t)
         /\ journal' = [journal EXCEPT ![d].confirmed = q]
         /\ done' = done \cup {x}
  <2>1. \/ Settle(c, s) /\ UNCHANGED <<journal, done>>
        \/ /\ s.proposal # 0 /\ s.proposal = q /\ IsLatest(d, q) /\ NotBefore(d)
           /\ journal' = [journal EXCEPT ![d].confirmed = q] /\ done' = done \cup {x} /\ Settle(c, t)
        \/ Settle(c, t) /\ UNCHANGED <<journal, done>>
        \/ (\E ends \in BOOLEAN : Settle(c, IF ends THEN u ELSE s)) /\ UNCHANGED <<journal, done>>
    BY DEF Confirm, t, u
  <2>2. (\E ends \in BOOLEAN : Settle(c, IF ends THEN u ELSE s)) => Settle(c, u) \/ Settle(c, s)
    <3> HIDE DEF s
    <3> SUFFICES ASSUME NEW ends \in BOOLEAN, Settle(c, IF ends THEN u ELSE s) PROVE Settle(c, u) \/ Settle(c, s)
      OBVIOUS
    <3>1. CASE ends
      BY <3>1
    <3>2. CASE ~ends
      BY <3>2
    <3> QED BY <3>1, <3>2
  <2> HIDE DEF x, s, d, q
  <2> QED BY <2>1, <2>2
<1>4. CASE (Settle(c, s) \/ Settle(c, t) \/ Settle(c, u)) /\ UNCHANGED <<journal, done>>
  <2>1. CASE Settle(c, s)
    BY <1>1, <1>4, <2>1, SettlesOnly
  <2>2. CASE Settle(c, t)
    BY <1>1, <1>2, <1>4, <2>2, SettlesOnly
  <2>3. CASE Settle(c, u)
    BY <1>1, <1>2, <1>4, <2>3, SettlesOnly
  <2> QED BY <1>4, <2>1, <2>2, <2>3
<1>5. CASE /\ s.proposal # 0 /\ s.proposal = q /\ IsLatest(d, q) /\ NotBefore(d) /\ Settle(c, t)
           /\ journal' = [journal EXCEPT ![d].confirmed = q]
           /\ done' = done \cup {x}
  <2>1. CallOK' /\ Sounds' /\ Versions' /\ Confirms'
    BY <1>1, <1>2, <1>5, Settles
  <2>2. d \in Drafts /\ d = chat.saved.draft /\ q \in Revisions
    <3>1. d # 0 /\ s.proposal \in Revisions \cup {0} /\ d \in Drafts \cup {0}
      <4> HIDE DEF s
      <4> QED BY <1>1, <1>5 DEF State, Sound
    <3> QED BY <1>1, <1>5, <3>1
  <2> DEFINE row == [journal[d] EXCEPT !.confirmed = q]
  <2>3. row \in Record /\ row.latest = q /\ row.confirmed = q /\ journal[d].confirmed = 0
    <3>1. journal[d] \in Record /\ journal[d].latest = q
      BY <1>1, <1>5, <2>2 DEF IsLatest
    <3> HIDE DEF d, q
    <3> QED BY <1>5, <2>2, <3>1 DEF Record, NotBefore
  <2>4. journal' = [journal EXCEPT ![d] = row]
    BY <1>5
  <2>5. done = {}
    <3> SUFFICES ASSUME NEW y \in done PROVE FALSE
      OBVIOUS
    <3>1. y.draft = chat.saved.draft /\ y.revision \in Revisions /\ journal[y.draft].confirmed = y.revision
      BY DEF DialogueInv, ChatTyped, DoneOK, DoneSaved, Final
    <3> QED BY <2>2, <2>3, <3>1 DEF Revisions
  <2> HIDE DEF row
  <2>6. done' = {x} /\ x.draft = d /\ x.revision = q /\ x \in [by : Calls, draft : Drafts, revision : Revisions]
    <3> HIDE DEF d, q
    <3> QED BY <1>5, <2>2, <2>5
  <2> HIDE DEF x
  <2>7. JournalOK' /\ journal'[d] = row
    <3> HIDE DEF d
    <3> QED BY <1>1, <2>2, <2>3, <2>4 DEF JournalOK
  <2>8. Final' /\ AtMostOne' /\ DoneSaved'
    BY <1>1, <2>2, <2>3, <2>6, <2>7 DEF Final, AtMostOne, DoneSaved
  <2>9. DoneOK'
    BY <1>1, <2>6 DEF DialogueInv, ChatTyped, DoneOK
  <2> QED BY <1>1, <2>1, <2>7, <2>8, <2>9 DEF DialogueInv, ChatTyped, ChatOK, CopyOK
<1> QED BY <1>3, <1>4, <1>5

\* A save that is accepted is of the last call that loaded, and of its copy.
LEMMA SaveStep ==
  ASSUME DialogueInv, NEW c \in Calls, Save(c)
  PROVE  DialogueInv' /\ chat.saved.turns \subseteq chat'.saved.turns
<1> USE DEF DialogueInv, ChatTyped
<1> DEFINE p == call[c].at
           saves == copy[p] # 0 /\ MaySave(call[c].version)
<1>1. /\ Busy(c) /\ p \in Workers /\ call[c] \in CallRow /\ call[c].version \in Nat /\ CallOK
      /\ chat \in [version : Nat, leased : BOOLEAN, saved : State] /\ copy' = [copy EXCEPT ![p] = 0]
      /\ copy \in [Workers -> Calls \cup {0}] /\ Goes(c, Over) /\ UNCHANGED <<journal, done, crashes>>
  BY DEF Save, Busy, Versions, CallOK, CallRow, ChatOK, CopyOK, Over
<1> HIDE DEF p
<1>2. CallOK' /\ call'[c] = Over /\ \A e \in Calls \ {c} : call'[e] = call[e]
  BY <1>1, OverOK, CallStep
<1>3. CopyOK' /\ \A q \in Workers : copy'[q] \in {0, copy[q]}
  BY <1>1 DEF CopyOK
<1>4. \A e \in Calls : Busy(e)' => e # c /\ Busy(e) /\ call'[e] = call[e]
  BY <1>2, OverOK DEF Busy
<1>5. \A e \in Calls : Sound(call'[e].state) /\ (call'[e].pc = "propose" => Revised(call'[e].state))
  <2> SUFFICES ASSUME NEW e \in Calls
               PROVE  Sound(call'[e].state) /\ (call'[e].pc = "propose" => Revised(call'[e].state))
    OBVIOUS
  <2>1. CASE e = c
    BY <1>2, <2>1, OverOK, OpenedSound
  <2>2. CASE e # c
    BY <1>2, <2>2 DEF Sounds
  <2> QED BY <2>1, <2>2
<1>6. CASE ~saves
  <2>1. chat' = chat
    BY <1>6 DEF Save, p
  <2>2. Versions'
    BY <1>3, <1>4, <2>1 DEF Versions
  <2>3. Sounds'
    BY <1>5, <2>1 DEF Sounds
  <2>4. Confirms'
    BY <1>4, <2>1 DEF Confirms, Has, Busy
  <2> QED BY <1>1, <1>2, <1>3, <2>1, <2>2, <2>3, <2>4 DEF ChatOK, JournalOK, DoneOK, DoneSaved, Final, AtMostOne
<1>7. CASE saves
  <2>1. copy[p] = c /\ chat.version = call[c].version
    BY <1>1, <1>7 DEF Versions, MaySave, p
  <2>2. chat' = [version |-> chat.version + 1, leased |-> FALSE, saved |-> call[c].state]
    BY <1>7, <2>1 DEF Save, p
  <2>3. /\ chat'.version = chat.version + 1 /\ chat'.saved = call[c].state /\ ChatOK'
    BY <1>1, <2>2 DEF ChatOK, CallRow
  <2>4. chat.saved.turns \subseteq chat'.saved.turns /\ (chat.saved.draft # 0 => chat'.saved.draft = chat.saved.draft)
    BY <1>1, <2>1, <2>3 DEF Versions
  <2>5. Versions'
    <3> SUFFICES ASSUME NEW e \in Calls, Busy(e)'
                 PROVE  /\ call'[e].at \in Workers
                        /\ call'[e].version <= chat'.version /\ call'[e].version # chat'.version
      BY DEF Versions
    <3>1. call'[e] = call[e] /\ call[e].at \in Workers /\ call[e].version <= chat.version /\ call[e].version \in Nat
      BY <1>1, <1>4 DEF Versions, CallOK, CallRow
    <3> QED BY <1>1, <2>3, <3>1
  <2>6. Sounds'
    BY <1>5, <2>3 DEF Sounds
  <2>7. Confirms'
    BY <1>4, <2>4 DEF Confirms, Has, Busy
  <2>8. DoneSaved'
    <3> SUFFICES ASSUME NEW y \in done PROVE y.draft = chat'.saved.draft
      BY <1>1 DEF DoneSaved
    <3>1. y.draft = chat.saved.draft /\ y.draft \in Drafts
      BY DEF DoneSaved, DoneOK
    <3> QED BY <2>4, <3>1 DEF Drafts
  <2> QED BY <1>1, <1>2, <1>3, <2>3, <2>4, <2>5, <2>6, <2>7, <2>8 DEF JournalOK, DoneOK, Final, AtMostOne
<1> QED BY <1>6, <1>7

LEMMA LapseSteps ==
  ASSUME DialogueInv, LeaseLapses \/ \E p \in Workers : WorkerStops(p)
  PROVE  DialogueInv' /\ chat'.saved = chat.saved
<1> USE DEF DialogueInv, ChatTyped
<1>1. crashes' \in 0..MaxCrashes
  BY DialogueAssumption DEF LeaseLapses, WorkerStops, Crash, DoneOK
<1>2. CASE LeaseLapses
  <2>1. chat' = [chat EXCEPT !.leased = FALSE] /\ UNCHANGED <<journal, copy, call, done>>
    BY <1>2 DEF LeaseLapses
  <2>2. ChatOK' /\ chat'.version = chat.version /\ chat'.saved = chat.saved
    BY <2>1 DEF ChatOK
  <2> QED BY <1>1, <2>1, <2>2 DEF JournalOK, CopyOK, CallOK, DoneOK, Sounds, Versions, Busy, Confirms, Has,
                                  DoneSaved, Final, AtMostOne
<1>3. ASSUME NEW p \in Workers, WorkerStops(p) PROVE DialogueInv' /\ chat'.saved = chat.saved
  <2>1. /\ UNCHANGED <<chat, journal, done>> /\ copy' = [copy EXCEPT ![p] = 0]
        /\ call' = [c \in Calls |-> IF call[c].at = p THEN Over ELSE call[c]]
    BY <1>3 DEF WorkerStops, Over
  <2>2. CopyOK' /\ \A q \in Workers : copy'[q] \in {0, copy[q]}
    BY <2>1 DEF CopyOK
  <2>3. CallOK' /\ \A c \in Calls : call'[c] \in {Over, call[c]}
    BY <2>1, OverOK DEF CallOK
  <2>4. \A c \in Calls : call'[c].pc # "over" => call'[c] = call[c]
    BY <2>3, OverOK
  <2>5. Sounds'
    <3> SUFFICES ASSUME NEW c \in Calls
                 PROVE  Sound(call'[c].state) /\ (call'[c].pc = "propose" => Revised(call'[c].state))
      BY <2>1 DEF Sounds
    <3>1. CASE call'[c] = Over
      BY <3>1, OverOK, OpenedSound
    <3>2. CASE call'[c] = call[c]
      BY <3>2 DEF Sounds
    <3> QED BY <2>3, <3>1, <3>2
  <2>6. Versions' /\ Confirms'
    BY <2>1, <2>2, <2>4 DEF Versions, Confirms, Busy, Has
  <2> QED BY <1>1, <2>1, <2>2, <2>3, <2>5, <2>6 DEF ChatOK, JournalOK, DoneOK, DoneSaved, Final, AtMostOne
<1> QED BY <1>2, <1>3

-----------------------------------------------------------------------------
LEMMA InitDialogueInv == DialogueInit => DialogueInv
<1> SUFFICES ASSUME DialogueInit PROVE DialogueInv
  OBVIOUS
<1>1. PICK pc \in {"waiting", "over"} : call = [c \in Calls |-> [Waiting EXCEPT !.pc = pc]]
  BY DEF DialogueInit
<1> DEFINE r == [Waiting EXCEPT !.pc = pc]
<1>2. r \in CallRow /\ r.pc = pc /\ r.state = Opened
  <2> DEFINE w == Waiting
  <2>1. w \in CallRow /\ w.state = Opened
    BY WaitingOK DEF Waiting
  <2> HIDE DEF w
  <2>2. /\ [w EXCEPT !.pc = pc] \in CallRow /\ [w EXCEPT !.pc = pc].pc = pc
        /\ [w EXCEPT !.pc = pc].state = w.state
    BY <2>1 DEF CallRow
  <2> QED BY <2>1, <2>2 DEF w
<1> HIDE DEF r
<1>3. CallOK /\ \A c \in Calls : call[c] = r
  BY <1>1, <1>2 DEF CallOK, r
<1>4. ChatOK /\ chat.saved = Opened
  BY OpenedOK DEF DialogueInit, ChatOK
<1>5. JournalOK /\ CopyOK /\ DoneOK
  BY DialogueAssumption DEF DialogueInit, JournalOK, Record, CopyOK, DoneOK
<1>6. Sounds /\ Versions /\ Confirms
  BY <1>2, <1>3, <1>4, OpenedSound DEF Sounds, Versions, Busy, Confirms, Has
<1>7. DoneSaved /\ Final /\ AtMostOne
  BY DEF DialogueInit, DoneSaved, Final, AtMostOne
<1> QED BY <1>3, <1>4, <1>5, <1>6, <1>7 DEF DialogueInv, ChatTyped

\* Every step keeps the invariant, and the saved messages.
LEMMA NextDialogueInv ==
  ASSUME DialogueInv, [DialogueNext]_dialogueVars
  PROVE  DialogueInv' /\ chat.saved.turns \subseteq chat'.saved.turns
<1>1. CASE UNCHANGED dialogueVars
  BY <1>1 DEF dialogueVars, DialogueInv, ChatTyped, ChatOK, JournalOK, CopyOK, CallOK, DoneOK, Sounds, Versions, Busy,
              Confirms, Has, DoneSaved, Final, AtMostOne
<1>2. CASE \/ \E c \in Calls, p \in Workers, shown \in Revisions : Load(c, p, "confirm", shown)
           \/ \E c \in Calls, p \in Workers, kind \in {"message", "cancel"} : Load(c, p, kind, 0)
  <2>1. PICK c \in Calls, p \in Workers, kind \in {"message", "confirm", "cancel"}, shown \in Revisions \cup {0} :
             Load(c, p, kind, shown)
    BY <1>2
  <2>2. chat'.saved = chat.saved
    BY <2>1 DEF Load, DialogueInv, ChatTyped, ChatOK
  <2> QED BY <2>1, <2>2, LoadStep
<1>3. ASSUME NEW c \in Calls, NEW d \in Drafts, Amend(c, d)
      PROVE  DialogueInv' /\ chat.saved.turns \subseteq chat'.saved.turns
  BY <1>3, AmendStep DEF Amend
<1>4. ASSUME NEW c \in Calls, AnswerOnly(c) \/ Propose(c) \/ Confirm(c) \/ Cancel(c)
      PROVE  DialogueInv' /\ chat.saved.turns \subseteq chat'.saved.turns
  <2>1. chat' = chat
    BY <1>4 DEF AnswerOnly, Propose, Confirm, Cancel
  <2> QED BY <1>4, <2>1, AnswerStep, ProposeStep, ConfirmStep
<1>5. ASSUME NEW c \in Calls, Save(c)
      PROVE  DialogueInv' /\ chat.saved.turns \subseteq chat'.saved.turns
  BY <1>5, SaveStep
<1>6. CASE LeaseLapses \/ \E p \in Workers : WorkerStops(p)
  BY <1>6, LapseSteps
<1> QED BY <1>1, <1>2, <1>3, <1>4, <1>5, <1>6 DEF DialogueNext

LEMMA DialogueInvariant == DialogueSpec => []DialogueInv
BY InitDialogueInv, NextDialogueInv, PTL DEF DialogueSpec

\* The types of the conversation, the journal and the processes' copies.
THEOREM DialogueTypeCorrect == DialogueSpec => []DialogueTypeOK
<1>1. DialogueInv => DialogueTypeOK
  BY ChatTypedTypeOK DEF DialogueInv
<1> QED BY <1>1, DialogueInvariant, PTL

\* A conversation carries out at most one change, for any number of calls,
\* processes, lapsed leases and drafts left behind: only the draft saved first
\* can be confirmed, and only once.
THEOREM OneChangeEach == DialogueSpec => []CarriedOutOnce
<1>1. DialogueInv => CarriedOutOnce
  <2> SUFFICES ASSUME DialogueInv PROVE CarriedOutOnce
    OBVIOUS
  <2>1. CASE done = {}
    <3>1. Cardinality({}) = 0
      BY FS_EmptySet
    <3> QED BY <2>1, <3>1 DEF CarriedOutOnce
  <2>2. ASSUME NEW x, done = {x} PROVE CarriedOutOnce
    <3>1. Cardinality({x}) = 1
      BY FS_Singleton
    <3> QED BY <2>2, <3>1 DEF CarriedOutOnce
  <2> QED BY <2>1, <2>2 DEF DialogueInv, AtMostOne
<1> QED BY <1>1, DialogueInvariant, PTL

\* What was carried out is the draft's last revision for good.
THEOREM ChangeIsFinal == DialogueSpec => []DoneIsFinal
<1>1. DialogueInv => DoneIsFinal
  BY DEF DialogueInv, Final, DoneIsFinal
<1> QED BY <1>1, DialogueInvariant, PTL

\* A saved conversation keeps every message saved before: the version refuses
\* the save of a call that another one overtook.
THEOREM TurnsAreKept == DialogueSpec => SavedTurnsStand
<1>1. DialogueInv /\ [DialogueNext]_dialogueVars => [chat.saved.turns \subseteq chat'.saved.turns]_dialogueVars
  BY NextDialogueInv
<1> QED BY <1>1, DialogueInvariant, PTL DEF DialogueSpec, SavedTurnsStand

(***************************************************************************)
(* Invitations and the team.                                               *)
(***************************************************************************)

-----------------------------------------------------------------------------
(* The types, with what a request has filled in at its step.                   *)

DeskRow == [pc : {"idle", "invite", "insert", "deliver", "mark", "toggle", "activate"},
            who : People \cup {Free}, link : Links \cup {<<>>}, was : BOOLEAN, sent : BOOLEAN]
GuestRow == [pc : {"idle", "claim", "join"}, link : Links \cup {<<>>}]

DeskFilled(r) ==
    /\ r.pc \in {"invite", "insert", "toggle", "activate"} => r.who \in People
    /\ r.pc \in {"deliver", "mark"} => r.link \in Links

PlanOK == plan \in [limit : Nat, signed : Contracts \cup {0}, top : Nat] /\ plan.limit <= plan.top
RoomsOK == /\ staff \subseteq People /\ active \subseteq staff /\ capacity \in Callers \cup {Free}
           /\ emailLock \in [People -> Desks \cup {Free}] /\ asks \in 0..MaxAsks
InvitesOK == invite \in [Invites -> InviteRow] /\ mailed \subseteq Links
DesksOK == desk \in [Desks -> DeskRow] /\ \A d \in Desks : DeskFilled(desk[d])
GuestsOK == guest \in [Guests -> GuestRow] /\ \A g \in Guests : guest[g].pc # "idle" => guest[g].link \in Links
TeamShape == PlanOK /\ RoomsOK /\ InvitesOK /\ DesksOK /\ GuestsOK

\* Who is about to add an agenda holds the salon's capacity.
Adding(c) == \/ c \in Desks /\ desk[c].pc = "activate"
             \/ c \in Guests /\ guest[c].pc = "join"

SeatLocked ==
    /\ \A d \in Desks : desk[d].pc \in {"insert", "activate"} => capacity = d
    /\ \A g \in Guests : guest[g].pc = "join" => capacity = g

Joining ==
    \A g \in Guests : guest[g].pc = "join" =>
        LET i == guest[g].link[1] IN
        /\ invite[i].used /\ ~invite[i].revoked /\ invite[i].email \in People
        /\ \A j \in Invites : IsOpen(j) => invite[j].email # invite[i].email

Room == \A c \in Callers : Adding(c) => Cardinality(active) < plan.top

Sent ==
    /\ \A i \in Invites : invite[i].delivery = "SENT" => <<i, invite[i].token>> \in mailed
    /\ \A d \in Desks : desk[d].pc = "mark" /\ desk[d].sent => desk[d].link \in mailed

TeamInv == TeamShape /\ SeatLocked /\ Joining /\ Room /\ Sent /\ OneOpenInvite /\ ActiveWithinPlan

LEMMA TeamShapeTypeOK == TeamShape => TeamTypeOK
BY DEF TeamShape, PlanOK, RoomsOK, InvitesOK, DesksOK, GuestsOK, TeamTypeOK, DeskRow, GuestRow

LEMMA LinkParts == ASSUME NEW l \in Links PROVE l[1] \in Invites /\ l[2] \in 1..MaxTokens /\ l = <<l[1], l[2]>>
BY DEF Links

LEMMA NoInviteOK == NoInvite \in InviteRow /\ NoInvite.email = Free /\ NoInvite.delivery = "SENDING"
BY TeamAssumption DEF NoInvite, InviteRow

LEMMA AtDeskOK == AtDesk \in DeskRow /\ AtDesk.pc = "idle" /\ DeskFilled(AtDesk)
BY DEF AtDesk, DeskRow, DeskFilled

LEMMA DeskWho ==
  ASSUME NEW pc \in {"invite", "insert", "activate"}, NEW who \in People
  PROVE  LET r == [AtDesk EXCEPT !.pc = pc, !.who = who] IN r \in DeskRow /\ DeskFilled(r) /\ r.pc = pc
<1> DEFINE i == AtDesk
           r == [i EXCEPT !.pc = pc, !.who = who]
<1>1. i \in DeskRow
  BY AtDeskOK
<1> HIDE DEF i
<1>2. r \in DeskRow /\ DeskFilled(r) /\ r.pc = pc
  BY <1>1 DEF DeskRow, DeskFilled
<1> QED BY <1>2 DEF i

LEMMA DeskToggle ==
  ASSUME NEW who \in People, NEW was \in BOOLEAN
  PROVE  LET r == [AtDesk EXCEPT !.pc = "toggle", !.who = who, !.was = was]
         IN  r \in DeskRow /\ DeskFilled(r) /\ r.pc = "toggle"
<1> DEFINE i == AtDesk
           r == [i EXCEPT !.pc = "toggle", !.who = who, !.was = was]
<1>1. i \in DeskRow
  BY AtDeskOK
<1> HIDE DEF i
<1>2. r \in DeskRow /\ DeskFilled(r) /\ r.pc = "toggle"
  BY <1>1 DEF DeskRow, DeskFilled
<1> QED BY <1>2 DEF i

LEMMA DeskLink ==
  ASSUME NEW link \in Links
  PROVE  LET r == [AtDesk EXCEPT !.pc = "deliver", !.link = link]
         IN  r \in DeskRow /\ DeskFilled(r) /\ r.pc = "deliver"
<1> DEFINE i == AtDesk
           r == [i EXCEPT !.pc = "deliver", !.link = link]
<1>1. i \in DeskRow
  BY AtDeskOK
<1> HIDE DEF i
<1>2. r \in DeskRow /\ DeskFilled(r) /\ r.pc = "deliver"
  BY <1>1 DEF DeskRow, DeskFilled
<1> QED BY <1>2 DEF i

LEMMA AskOK == ASSUME TeamShape, Ask PROVE asks' \in 0..MaxAsks
BY TeamAssumption DEF TeamShape, RoomsOK, Ask

\* What the step of request d leaves of the others.
LEMMA DeskStep ==
  ASSUME DesksOK, NEW d \in Desks, NEW r \in DeskRow, DeskFilled(r), ToDesk(d, r)
  PROVE  DesksOK' /\ desk'[d] = r /\ \A e \in Desks \ {d} : desk'[e] = desk[e]
BY DEF DesksOK, ToDesk, DeskFilled

-----------------------------------------------------------------------------
(* The parts of the invariant that most steps leave alone.                     *)

\* No invitation is opened or used, and none that was used is revoked.
Tame == \A i \in Invites :
            /\ invite'[i].email = invite[i].email /\ invite'[i].used = invite[i].used
            /\ invite[i].revoked => invite'[i].revoked
            /\ invite[i].used => invite'[i].revoked = invite[i].revoked

LEMMA TameKeeps ==
  ASSUME TeamShape, OneOpenInvite, Joining, Tame,
         \A g \in Guests : guest'[g].pc = "join" => guest'[g] = guest[g]
  PROVE  OneOpenInvite' /\ Joining'
<1>1. \A i \in Invites : IsOpen(i)' => IsOpen(i)
  BY DEF Tame, IsOpen, TeamShape, InvitesOK, InviteRow
<1>2. OneOpenInvite'
  BY <1>1 DEF OneOpenInvite, Tame
<1>3. Joining'
  <2> SUFFICES ASSUME NEW g \in Guests, guest'[g].pc = "join"
               PROVE  LET i == guest'[g].link[1] IN
                      /\ invite'[i].used /\ ~invite'[i].revoked /\ invite'[i].email \in People
                      /\ \A j \in Invites : IsOpen(j)' => invite'[j].email # invite'[i].email
    BY DEF Joining
  <2> DEFINE i == guest[g].link[1]
  <2>1. guest'[g] = guest[g] /\ guest[g].pc = "join" /\ guest[g].link \in Links
    BY DEF TeamShape, GuestsOK
  <2>2. i \in Invites
    BY <2>1, LinkParts
  <2>3. /\ invite[i].used /\ ~invite[i].revoked /\ invite[i].email \in People
        /\ \A j \in Invites : IsOpen(j) => invite[j].email # invite[i].email
    BY <2>1 DEF Joining
  <2> HIDE DEF i
  <2>4. /\ invite'[i].used /\ ~invite'[i].revoked /\ invite'[i].email \in People
        /\ \A j \in Invites : IsOpen(j)' => invite'[j].email # invite'[i].email
    BY <1>1, <2>2, <2>3 DEF Tame
  <2> QED BY <2>1, <2>4 DEF i
<1> QED BY <1>2, <1>3

LEMMA SameInvites == ASSUME invite' = invite PROVE Tame
BY DEF Tame

\* Capacity is only held by whoever holds it already, and agendas only shrink.
Steady ==
    /\ capacity' = capacity /\ active' \subseteq active /\ plan.top <= plan'.top
    /\ \A d \in Desks : desk'[d].pc \in {"insert", "activate"} => desk'[d].pc = desk[d].pc
    /\ \A g \in Guests : guest'[g].pc = "join" => guest'[g] = guest[g]

LEMMA Counts ==
  ASSUME TeamShape
  PROVE  IsFiniteSet(active) /\ Cardinality(active) \in Nat /\ plan.limit \in Nat /\ plan.top \in Nat
<1>1. IsFiniteSet(active)
  BY FS_Subset, TeamAssumption DEF TeamShape, RoomsOK
<1> QED BY <1>1, FS_CardinalityType DEF TeamShape, PlanOK

LEMMA SteadyKeeps ==
  ASSUME TeamShape, TeamShape', SeatLocked, Room, ActiveWithinPlan, Steady
  PROVE  SeatLocked' /\ Room' /\ ActiveWithinPlan'
<1>1. Cardinality(active') <= Cardinality(active)
  BY Counts, FS_Subset DEF Steady
<1>2. /\ Cardinality(active) \in Nat /\ Cardinality(active') \in Nat
      /\ plan.top \in Nat /\ plan'.top \in Nat
  BY Counts, FS_Subset, FS_CardinalityType DEF Steady, TeamShape, PlanOK
<1>3. SeatLocked'
  BY DEF SeatLocked, Steady
<1>4. ActiveWithinPlan'
  BY <1>1, <1>2 DEF ActiveWithinPlan, Steady
<1>5. \A c \in Callers : Adding(c)' => Adding(c)
  BY DEF Adding, Steady
<1>6. Room'
  BY <1>1, <1>2, <1>5 DEF Room, Steady
<1> QED BY <1>3, <1>4, <1>6

-----------------------------------------------------------------------------
(* One lemma for each kind of step.                                            *)

\* Requests that read, ask, send or give up, and the contract.
LEMMA DeskOnlySteps ==
  ASSUME TeamInv, NEW d \in Desks,
         \/ \E e \in People : BeginInvite(d, e) \/ ReadProfessional(d, e)
         \/ Deactivate(d)
         \/ \E goes, reported \in BOOLEAN : Deliver(d, goes, reported)
  PROVE  TeamInv'
<1> USE DEF TeamInv
<1>1. /\ TeamShape'
      /\ desk'[d].pc \in {"idle", "invite", "toggle", "mark"}
      /\ \A e \in Desks \ {d} : desk'[e] = desk[e]
      /\ desk'[d].pc = "mark" /\ desk'[d].sent => desk'[d].link \in mailed'
  <2>1. desk[d] \in DeskRow /\ DesksOK
    BY DEF TeamShape, DesksOK
  <2>2. CASE \E e \in People : BeginInvite(d, e)
    <3>1. PICK e \in People : BeginInvite(d, e)
      BY <2>2
    <3> DEFINE r == [AtDesk EXCEPT !.pc = "invite", !.who = e]
    <3>2. r \in DeskRow /\ DeskFilled(r) /\ r.pc = "invite"
      BY DeskWho
    <3>3. ToDesk(d, r)
      BY <3>1 DEF BeginInvite
    <3> HIDE DEF r
    <3>4. DesksOK' /\ desk'[d].pc = "invite" /\ \A c \in Desks \ {d} : desk'[c] = desk[c]
      BY <2>1, <3>2, <3>3, DeskStep
    <3>5. RoomsOK'
      BY <3>1, AskOK DEF BeginInvite, TeamShape, RoomsOK
    <3> QED BY <3>1, <3>4, <3>5 DEF BeginInvite, TeamShape, PlanOK, InvitesOK, GuestsOK
  <2>3. CASE \E e \in People : ReadProfessional(d, e)
    <3>1. PICK e \in People : ReadProfessional(d, e)
      BY <2>3
    <3> DEFINE in == e \in active
               r == [AtDesk EXCEPT !.pc = "toggle", !.who = e, !.was = in]
    <3>2. in \in BOOLEAN
      OBVIOUS
    <3>3. ToDesk(d, r)
      BY <3>1 DEF ReadProfessional
    <3> HIDE DEF in
    <3>4. r \in DeskRow /\ DeskFilled(r) /\ r.pc = "toggle"
      BY <3>2, DeskToggle
    <3> HIDE DEF r
    <3>5. DesksOK' /\ desk'[d].pc = "toggle" /\ \A c \in Desks \ {d} : desk'[c] = desk[c]
      BY <2>1, <3>3, <3>4, DeskStep
    <3>6. RoomsOK'
      BY <3>1, AskOK DEF ReadProfessional, TeamShape, RoomsOK
    <3> QED BY <3>1, <3>5, <3>6 DEF ReadProfessional, TeamShape, PlanOK, InvitesOK, GuestsOK
  <2>4. CASE Deactivate(d)
    <3>1. DesksOK' /\ desk'[d].pc = "idle" /\ \A c \in Desks \ {d} : desk'[c] = desk[c]
      BY <2>1, <2>4, AtDeskOK, DeskStep DEF Deactivate, LeaveDesk
    <3> QED BY <2>4, <3>1 DEF Deactivate, TeamShape, RoomsOK, PlanOK, InvitesOK, GuestsOK
  <2>5. CASE \E goes, reported \in BOOLEAN : Deliver(d, goes, reported)
    <3>1. PICK goes \in BOOLEAN, reported \in BOOLEAN : Deliver(d, goes, reported)
      BY <2>5
    <3> DEFINE r == [desk[d] EXCEPT !.pc = "mark", !.sent = reported]
    <3>2. r \in DeskRow /\ r.pc = "mark" /\ r.link = desk[d].link
      BY <2>1 DEF DeskRow
    <3>3. desk[d].link \in Links
      BY <3>1 DEF Deliver, TeamShape, DesksOK, DeskFilled
    <3>4. DeskFilled(r)
      BY <3>2, <3>3 DEF DeskFilled
    <3>5. ToDesk(d, r)
      BY <3>1 DEF Deliver
    <3>6. DesksOK' /\ desk'[d] = r /\ \A c \in Desks \ {d} : desk'[c] = desk[c]
      BY <2>1, <3>2, <3>4, <3>5, DeskStep
    <3>8. r.sent => r.link \in mailed'
      BY <2>1, <3>1, <3>2 DEF Deliver, DeskRow
    <3>7. InvitesOK'
      BY <3>1, <3>3 DEF Deliver, TeamShape, InvitesOK
    <3> QED BY <3>1, <3>2, <3>6, <3>7, <3>8 DEF Deliver, TeamShape, RoomsOK, PlanOK, GuestsOK
  <2> QED BY <2>2, <2>3, <2>4, <2>5
<1>2. UNCHANGED <<plan, invite, guest, capacity>> /\ active' \subseteq active /\ mailed \subseteq mailed'
  BY DEF BeginInvite, ReadProfessional, Deactivate, Deliver
<1>3. OneOpenInvite' /\ Joining'
  BY <1>2, SameInvites, TameKeeps
<1>4. SeatLocked' /\ Room' /\ ActiveWithinPlan'
  <2>1. Steady
    BY <1>1, <1>2, Counts DEF Steady
  <2> QED BY <1>1, <2>1, SteadyKeeps
<1>5. Sent'
  BY <1>1, <1>2 DEF Sent
<1> QED BY <1>1, <1>3, <1>4, <1>5

\* Requests that count the agendas under the lock: they hold it when they go on.
LEMMA CountSteps ==
  ASSUME TeamInv, NEW d \in Desks, CountForInvite(d) \/ CountForActivation(d) \/ CountForOwner(d)
  PROVE  TeamInv'
<1> USE DEF TeamInv
<1>1. desk[d] \in DeskRow /\ DeskFilled(desk[d]) /\ DesksOK /\ RoomsOK
  BY DEF TeamShape, DesksOK
<1>2. UNCHANGED <<plan, staff, active, invite, guest, mailed>>
  BY DEF CountForInvite, CountForActivation, CountForOwner
<1>3. \/ capacity' = capacity /\ ToDesk(d, AtDesk)
      \/ /\ capacity = Free /\ capacity' = d
         /\ \E r \in DeskRow : DeskFilled(r) /\ r.pc \in {"insert", "activate"} /\ ToDesk(d, r)
         /\ desk'[d].pc = "activate" => Cardinality(active) < plan.top
  <2> DEFINE insert == [desk[d] EXCEPT !.pc = "insert"]
             activate == [desk[d] EXCEPT !.pc = "activate"]
             owner == [AtDesk EXCEPT !.pc = "activate", !.who = Owner]
  <2>1. insert \in DeskRow /\ insert.pc = "insert" /\ activate \in DeskRow /\ activate.pc = "activate"
        /\ insert.who = desk[d].who /\ activate.who = desk[d].who
    BY <1>1 DEF DeskRow
  <2>2. owner \in DeskRow /\ DeskFilled(owner) /\ owner.pc = "activate"
    BY TeamAssumption, DeskWho
  <2>3. \A n \in Nat : HasRoom(n) => Cardinality(active) < plan.top
    BY Counts DEF HasRoom, TeamShape, PlanOK
  <2>4. CASE CountForInvite(d)
    <3>1. DeskFilled(insert)
      BY <1>1, <2>1, <2>4 DEF CountForInvite, DeskFilled
    <3>2. \/ capacity' = capacity /\ ToDesk(d, AtDesk)
          \/ capacity = Free /\ capacity' = d /\ ToDesk(d, insert)
      BY <2>4 DEF CountForInvite, CanLock, LeaveDesk
    <3> HIDE DEF insert
    <3>3. ToDesk(d, insert) => desk'[d].pc = "insert"
      BY <1>1, <2>1, <3>1, DeskStep
    <3> QED BY <2>1, <3>1, <3>2, <3>3
  <2>5. CASE CountForActivation(d)
    <3>1. DeskFilled(activate)
      BY <1>1, <2>1, <2>5 DEF CountForActivation, DeskFilled
    <3>2. \/ capacity' = capacity /\ ToDesk(d, AtDesk)
          \/ capacity = Free /\ capacity' = d /\ ToDesk(d, activate) /\ HasRoom(0)
      BY <2>5 DEF CountForActivation, CanLock, LeaveDesk
    <3> HIDE DEF activate
    <3> QED BY <2>1, <2>3, <3>1, <3>2
  <2>6. CASE CountForOwner(d)
    <3>1. capacity = Free /\ capacity' = d /\ ToDesk(d, owner) /\ HasRoom(Cardinality(Pending(People)))
      BY <2>6 DEF CountForOwner, CanLock
    <3>2. Cardinality(active) < plan.top
      <4>1. IsFiniteSet(Pending(People))
        BY FS_Subset, TeamAssumption DEF Pending
      <4>2. Cardinality(Pending(People)) \in Nat
        BY <4>1, FS_CardinalityType
      <4> QED BY <3>1, <2>3, <4>2
    <3> HIDE DEF owner
    <3> QED BY <2>2, <3>1, <3>2
  <2> QED BY <2>4, <2>5, <2>6
<1>4. DesksOK' /\ \A e \in Desks \ {d} : desk'[e] = desk[e]
  BY <1>1, <1>3, AtDeskOK, DeskStep
<1>5. TeamShape'
  <2>1. emailLock' \in [People -> Desks \cup {Free}]
    BY <1>1 DEF CountForInvite, CountForActivation, CountForOwner, Unlocked, RoomsOK
  <2>2. asks' \in 0..MaxAsks
    BY AskOK DEF CountForInvite, CountForActivation, CountForOwner, TeamShape, RoomsOK
  <2>3. capacity' \in Callers \cup {Free}
    BY <1>1, <1>3 DEF RoomsOK, Callers
  <2> QED BY <1>2, <1>4, <2>1, <2>2, <2>3 DEF TeamShape, PlanOK, RoomsOK, InvitesOK, GuestsOK
<1>6. OneOpenInvite' /\ Joining'
  BY <1>2, SameInvites, TameKeeps
<1>7. SeatLocked' /\ Room' /\ ActiveWithinPlan' /\ desk'[d].pc \notin {"mark"}
  <2>1. CASE capacity' = capacity /\ ToDesk(d, AtDesk)
    <3>1. desk'[d].pc = "idle"
      BY <1>1, <2>1, AtDeskOK, DeskStep
    <3>2. Steady
      BY <1>2, <1>4, <2>1, <3>1, Counts DEF Steady
    <3> QED BY <1>5, <3>1, <3>2, SteadyKeeps
  <2>2. CASE /\ capacity = Free /\ capacity' = d
             /\ \E r \in DeskRow : DeskFilled(r) /\ r.pc \in {"insert", "activate"} /\ ToDesk(d, r)
             /\ desk'[d].pc = "activate" => Cardinality(active) < plan.top
    <3>1. desk'[d].pc \in {"insert", "activate"}
      BY <1>1, <2>2, DeskStep
    <3>2. /\ \A e \in Desks : desk[e].pc \notin {"insert", "activate"}
          /\ \A g \in Guests : guest[g].pc # "join"
      BY <2>2, TeamAssumption DEF SeatLocked, Callers
    <3>3. SeatLocked'
      BY <1>2, <1>4, <2>2, <3>2 DEF SeatLocked
    <3>4. Room'
      BY <1>2, <1>4, <2>2, <3>2 DEF Room, Adding
    <3> QED BY <1>2, <3>1, <3>3, <3>4 DEF ActiveWithinPlan
  <2> QED BY <1>3, <2>1, <2>2
<1>8. Sent'
  BY <1>2, <1>4, <1>7 DEF Sent
<1> QED BY <1>5, <1>6, <1>7, <1>8

LEMMA OnlyHolder ==
  ASSUME SeatLocked, NEW c \in Callers, capacity = c
  PROVE  /\ \A d \in Desks \ {c} : desk[d].pc \notin {"insert", "activate"}
         /\ \A g \in Guests \ {c} : guest[g].pc # "join"
BY DEF SeatLocked

LEMMA InsertStep ==
  ASSUME TeamInv, NEW d \in Desks, NEW i \in Invites, InsertInvite(d, i)
  PROVE  TeamInv'
<1> USE DEF TeamInv
<1> DEFINE e == desk[d].who
           link == <<i, 1>>
           r == [AtDesk EXCEPT !.pc = "deliver", !.link = link]
           new == [NoInvite EXCEPT !.email = e, !.token = 1]
<1>1. /\ e \in People /\ desk[d].pc = "insert" /\ capacity = d /\ d \in Callers /\ d \notin Guests
      /\ invite[i] = NoInvite /\ DesksOK /\ capacity' = Free
      /\ UNCHANGED <<plan, staff, active, guest, mailed, asks>>
  BY TeamAssumption DEF InsertInvite, TeamShape, DesksOK, DeskFilled, SeatLocked, Callers
<1>2. r \in DeskRow /\ DeskFilled(r) /\ r.pc = "deliver"
  <2>1. link \in Links
    BY TeamAssumption DEF Links
  <2> QED BY <2>1, DeskLink
<1>3. DesksOK' /\ desk'[d].pc = "deliver" /\ \A c \in Desks \ {d} : desk'[c] = desk[c]
  <2>1. ToDesk(d, r)
    BY DEF InsertInvite
  <2> HIDE DEF r
  <2> QED BY <1>1, <1>2, <2>1, DeskStep
<1>4. new \in InviteRow /\ new.email = e /\ new.delivery = "SENDING"
  <2> DEFINE n == NoInvite
  <2>1. n \in InviteRow /\ n.delivery = "SENDING" /\ 1 \in 0..MaxTokens
    BY NoInviteOK, TeamAssumption
  <2> HIDE DEF n
  <2>2. /\ [n EXCEPT !.email = e, !.token = 1] \in InviteRow
        /\ [n EXCEPT !.email = e, !.token = 1].email = e
        /\ [n EXCEPT !.email = e, !.token = 1].delivery = "SENDING"
    BY <1>1, <2>1 DEF InviteRow
  <2> QED BY <2>2 DEF n
<1>5. /\ invite'[i] = new
      /\ \A j \in Invites \ {i} : invite'[j] = IF Replaced(j, e) THEN [invite[j] EXCEPT !.revoked = TRUE] ELSE invite[j]
  BY DEF InsertInvite
<1> HIDE DEF new, r, e
<1>6. \A j \in Invites \ {i} : /\ invite'[j] \in InviteRow
                               /\ invite'[j].email = invite[j].email /\ invite'[j].token = invite[j].token
                               /\ invite'[j].delivery = invite[j].delivery
                               /\ IsOpen(j)' => IsOpen(j) /\ invite[j].email # e
  BY <1>5 DEF TeamShape, InvitesOK, InviteRow, IsOpen, Replaced
<1>7. TeamShape'
  <2>1. InvitesOK'
    <3>1. \A j \in Invites : invite'[j] \in InviteRow
      BY <1>4, <1>5, <1>6
    <3>2. invite' = [j \in Invites |-> invite'[j]]
      BY DEF InsertInvite
    <3> QED BY <1>1, <3>1, <3>2 DEF InvitesOK, TeamShape
  <2>2. emailLock' \in [People -> Desks \cup {Free}]
    BY DEF InsertInvite, Unlocked, TeamShape, RoomsOK
  <2> QED BY <1>1, <1>3, <2>1, <2>2 DEF TeamShape, PlanOK, RoomsOK, GuestsOK
<1>8. OneOpenInvite'
  BY <1>4, <1>5, <1>6 DEF OneOpenInvite
<1>9. Joining' /\ SeatLocked' /\ Room' /\ ActiveWithinPlan'
  <2>1. /\ \A g \in Guests : guest'[g].pc # "join"
        /\ \A c \in Desks : desk'[c].pc \notin {"insert", "activate"}
    BY <1>1, <1>3, OnlyHolder
  <2> QED BY <1>1, <2>1 DEF Joining, SeatLocked, Room, Adding, ActiveWithinPlan
<1>10. Sent'
  BY <1>1, <1>3, <1>4, <1>5, <1>6 DEF Sent
<1> QED BY <1>7, <1>8, <1>9, <1>10

LEMMA InviteOnlySteps ==
  ASSUME TeamInv,
         \/ \E i \in Invites : Revoke(i) \/ LinkExpires(i)
         \/ \E d \in Desks : MarkDelivery(d) \/ \E i \in Invites : Resend(d, i)
  PROVE  TeamInv'
<1> USE DEF TeamInv
<1>1. CASE \E i \in Invites : Revoke(i) \/ LinkExpires(i)
  <2>1. PICK i \in Invites : Revoke(i) \/ LinkExpires(i)
    BY <1>1
  <2>2. UNCHANGED <<plan, staff, active, emailLock, capacity, desk, guest, mailed, asks>>
    BY <2>1 DEF Revoke, LinkExpires
  <2>3. IsOpen(i) /\ (invite' = [invite EXCEPT ![i].revoked = TRUE] \/ invite' = [invite EXCEPT ![i].expired = TRUE])
    BY <2>1 DEF Revoke, LinkExpires, IsPending
  <2>4. InvitesOK' /\ Tame
    <3>1. invite \in [Invites -> InviteRow] /\ mailed \subseteq Links
      BY DEF TeamShape, InvitesOK
    <3>2. invite' \in [Invites -> InviteRow]
      <4>1. /\ [invite[i] EXCEPT !.revoked = TRUE] \in InviteRow
            /\ [invite[i] EXCEPT !.expired = TRUE] \in InviteRow
        BY <3>1 DEF InviteRow
      <4> QED BY <2>3, <3>1, <4>1
    <3>3. ~invite[i].used
      BY <2>3 DEF IsOpen
    <3>4. \A j \in Invites : /\ invite'[j].email = invite[j].email /\ invite'[j].used = invite[j].used
                             /\ invite[j].revoked => invite'[j].revoked
                             /\ j # i => invite'[j] = invite[j]
      BY <2>3, <3>1 DEF InviteRow
    <3>5. Tame
      BY <3>3, <3>4 DEF Tame
    <3> QED BY <2>2, <3>1, <3>2, <3>5 DEF InvitesOK
  <2>5. TeamShape'
    BY <2>2, <2>4 DEF TeamShape, PlanOK, RoomsOK, DesksOK, GuestsOK
  <2>6. OneOpenInvite' /\ Joining'
    BY <2>2, <2>4, TameKeeps
  <2>7. Sent'
    BY <2>2, <2>3 DEF Sent, TeamShape, InvitesOK, InviteRow
  <2> QED BY <2>2, <2>5, <2>6, <2>7 DEF SeatLocked, Room, Adding, ActiveWithinPlan
<1>2. ASSUME NEW d \in Desks, MarkDelivery(d) PROVE TeamInv'
  <2> DEFINE i == desk[d].link[1]
             state == IF desk[d].sent THEN "SENT" ELSE "FAILED"
  <2>1. /\ UNCHANGED <<plan, staff, active, emailLock, capacity, guest, mailed, asks>>
        /\ desk[d].pc = "mark" /\ desk[d].link \in Links /\ DesksOK
        /\ desk[d].sent => desk[d].link \in mailed
    BY <1>2 DEF MarkDelivery, TeamShape, DesksOK, DeskFilled, Sent
  <2>2. /\ i \in Invites /\ desk[d].link = <<i, desk[d].link[2]>>
        /\ invite' = invite \/ (IsCurrent(i, desk[d].link[2]) /\ invite' = [invite EXCEPT ![i].delivery = state])
    BY <1>2, <2>1, LinkParts DEF MarkDelivery
  <2>3. DesksOK' /\ desk'[d].pc = "idle" /\ \A c \in Desks \ {d} : desk'[c] = desk[c]
    BY <1>2, <2>1, AtDeskOK, DeskStep DEF MarkDelivery, LeaveDesk
  <2>4. state \in {"SENT", "FAILED"}
    OBVIOUS
  <2>5. Sent'
    <3>1. state = "SENT" /\ IsCurrent(i, desk[d].link[2]) => <<i, invite[i].token>> \in mailed
      BY <2>1, <2>2 DEF IsCurrent
    <3> HIDE DEF i, state
    <3> QED BY <2>1, <2>2, <2>3, <2>4, <3>1 DEF Sent, TeamShape, InvitesOK, InviteRow
  <2> HIDE DEF i, state
  <2>6. InvitesOK' /\ Tame
    BY <2>1, <2>2, <2>4 DEF TeamShape, InvitesOK, InviteRow, Tame
  <2>7. TeamShape'
    BY <2>1, <2>3, <2>6 DEF TeamShape, PlanOK, RoomsOK, GuestsOK
  <2>8. OneOpenInvite' /\ Joining'
    BY <2>1, <2>6, TameKeeps
  <2>9. Steady
    BY <2>1, <2>3, Counts DEF Steady
  <2> QED BY <2>5, <2>7, <2>8, <2>9, SteadyKeeps
<1>3. ASSUME NEW d \in Desks, NEW i \in Invites, Resend(d, i) PROVE TeamInv'
  <2> DEFINE link == <<i, invite[i].token + 1>>
             r == [AtDesk EXCEPT !.pc = "deliver", !.link = link]
  <2>1. /\ UNCHANGED <<plan, staff, active, emailLock, capacity, guest, mailed>>
        /\ IsOpen(i) /\ DesksOK /\ ToDesk(d, r)
        /\ invite' = [invite EXCEPT ![i] = Renewed(invite[i])]
    BY <1>3 DEF Resend, TeamShape
  <2>2. invite[i].token + 1 \in 1..MaxTokens
    <3>1. invite[i] \in InviteRow
      BY DEF TeamShape, InvitesOK
    <3>2. invite[i].token \in 0..MaxTokens /\ invite[i].token < MaxTokens
      BY <1>3, <3>1 DEF Resend, InviteRow
    <3> QED BY <3>2, TeamAssumption
  <2>3. r \in DeskRow /\ DeskFilled(r) /\ r.pc = "deliver"
    <3>1. link \in Links
      BY <2>2 DEF Links
    <3> QED BY <3>1, DeskLink
  <2> HIDE DEF r
  <2>4. DesksOK' /\ desk'[d].pc = "deliver" /\ \A c \in Desks \ {d} : desk'[c] = desk[c]
    BY <2>1, <2>3, DeskStep
  <2>5. InvitesOK' /\ Tame /\ invite'[i].delivery = "SENDING" /\ \A j \in Invites \ {i} : invite'[j] = invite[j]
    <3>1. invite \in [Invites -> InviteRow] /\ mailed \subseteq Links
      BY DEF TeamShape, InvitesOK
    <3>2. invite[i].token + 1 \in 0..MaxTokens
      BY <2>2
    <3> DEFINE n == Renewed(invite[i])
    <3>3. /\ n \in InviteRow /\ n.email = invite[i].email /\ n.used = invite[i].used
          /\ n.revoked = invite[i].revoked /\ n.delivery = "SENDING"
      BY <3>1, <3>2 DEF InviteRow, Renewed
    <3>4. invite' = [invite EXCEPT ![i] = n]
      BY <2>1
    <3> HIDE DEF n
    <3>5. invite'[i] = n /\ \A j \in Invites \ {i} : invite'[j] = invite[j]
      BY <3>1, <3>4
    <3>6. invite' \in [Invites -> InviteRow]
      BY <3>1, <3>3, <3>4
    <3>7. Tame
      BY <3>3, <3>5 DEF Tame
    <3> QED BY <2>1, <3>1, <3>3, <3>5, <3>6, <3>7 DEF InvitesOK
  <2>6. TeamShape'
    BY <1>3, <2>1, <2>4, <2>5, AskOK DEF Resend, TeamShape, PlanOK, RoomsOK, GuestsOK
  <2>7. OneOpenInvite' /\ Joining'
    BY <2>1, <2>5, TameKeeps
  <2>8. Steady
    BY <2>1, <2>4, Counts DEF Steady
  <2>9. Sent'
    <3>1. \A j \in Invites : invite'[j].delivery = "SENT" => invite'[j] = invite[j]
      BY <2>5
    <3>2. \A c \in Desks : desk'[c].pc = "mark" => desk'[c] = desk[c]
      BY <2>4
    <3> QED BY <2>1, <3>1, <3>2 DEF Sent
  <2> QED BY <2>6, <2>7, <2>8, <2>9, SteadyKeeps
<1> QED BY <1>1, <1>2, <1>3

LEMMA GuestStep ==
  ASSUME GuestsOK, NEW g \in Guests, NEW r \in GuestRow, r.pc # "idle" => r.link \in Links,
         guest' = [guest EXCEPT ![g] = r]
  PROVE  GuestsOK' /\ guest'[g] = r /\ \A h \in Guests \ {g} : guest'[h] = guest[h]
BY DEF GuestsOK

LEMMA AtGuestOK == AtGuest \in GuestRow /\ AtGuest.pc = "idle"
BY DEF AtGuest, GuestRow

\* A request that gives up, or has read the invitation, changes nothing else.
LEMMA GuestOnlySteps ==
  ASSUME TeamInv, NEW g \in Guests, NEW r \in GuestRow, r.pc \in {"idle", "claim"},
         r.pc # "idle" => r.link \in Links, guest' = [guest EXCEPT ![g] = r],
         UNCHANGED <<plan, staff, active, invite, emailLock, capacity, desk, mailed>>, asks' \in 0..MaxAsks
  PROVE  TeamInv'
<1> USE DEF TeamInv
<1>1. GuestsOK' /\ guest'[g] = r /\ \A h \in Guests \ {g} : guest'[h] = guest[h]
  BY GuestStep DEF TeamShape
<1>2. TeamShape'
  BY <1>1 DEF TeamShape, PlanOK, RoomsOK, InvitesOK, DesksOK
<1>3. OneOpenInvite' /\ Joining'
  BY <1>1, SameInvites, TameKeeps
<1>4. Steady
  BY <1>1, Counts DEF Steady
<1>5. Sent'
  BY DEF Sent
<1> QED BY <1>2, <1>3, <1>4, <1>5, SteadyKeeps

\* The claim holds the only open invitation of the address, and the capacity.
LEMMA ClaimStep ==
  ASSUME TeamInv, NEW g \in Guests, ClaimInvite(g)
  PROVE  TeamInv'
<1> USE DEF TeamInv
<1> DEFINE link == guest[g].link
           i == link[1]
           claims == MayClaim(link) /\ invite[i].email \notin staff /\ HasRoom(0)
           r == [guest[g] EXCEPT !.pc = "join"]
           row == [invite[i] EXCEPT !.used = TRUE]
<1>1. /\ guest[g].pc = "claim" /\ capacity = Free /\ link \in Links /\ i \in Invites /\ guest[g] \in GuestRow
      /\ GuestsOK /\ invite \in [Invites -> InviteRow] /\ asks \in 0..MaxAsks
      /\ UNCHANGED <<plan, staff, active, emailLock, desk, mailed, asks>>
  <2>1. guest[g].pc = "claim" /\ GuestsOK /\ RoomsOK /\ InvitesOK
    BY DEF ClaimInvite, TeamShape
  <2>2. link \in Links /\ guest[g] \in GuestRow
    BY <2>1 DEF GuestsOK
  <2>3. i \in Invites
    BY <2>2, LinkParts
  <2> QED BY <2>1, <2>2, <2>3 DEF ClaimInvite, CanLock, RoomsOK, InvitesOK
<1>2. CASE ~claims
  <2>1. guest' = [guest EXCEPT ![g] = AtGuest] /\ UNCHANGED <<invite, capacity>>
    BY <1>2 DEF ClaimInvite
  <2>2. r \in GuestRow /\ AtGuest.pc \in {"idle", "claim"} /\ (AtGuest.pc # "idle" => AtGuest.link \in Links)
    BY <1>1, AtGuestOK DEF GuestRow
  <2> QED BY <1>1, <2>1, <2>2, AtGuestOK, GuestOnlySteps
<1>3. CASE claims
  <2>1. /\ invite' = [invite EXCEPT ![i] = row] /\ capacity' = g
        /\ guest' = [guest EXCEPT ![g] = r]
    <3>1. /\ invite' = [invite EXCEPT ![i].used = TRUE] /\ capacity' = g
          /\ guest' = [guest EXCEPT ![g].pc = "join"]
      BY <1>3 DEF ClaimInvite
    <3> QED BY <3>1
  <2>2. r \in GuestRow /\ r.pc = "join" /\ r.link = link
    BY <1>1 DEF GuestRow
  <2>3. GuestsOK' /\ guest'[g] = r /\ \A h \in Guests \ {g} : guest'[h] = guest[h]
    BY <1>1, <2>1, <2>2, GuestStep
  <2>4. /\ row \in InviteRow /\ row.used /\ row.email = invite[i].email /\ row.revoked = invite[i].revoked
        /\ row.token = invite[i].token /\ row.delivery = invite[i].delivery
    <3>1. invite[i] \in InviteRow
      BY <1>1
    <3> HIDE DEF i
    <3> QED BY <3>1 DEF InviteRow
  <2>5. IsOpen(i) /\ invite[i].email \in People
    BY <1>1, <1>3 DEF MayClaim, IsOpen, InviteRow
  <2>6. Cardinality(active) < plan.top
    BY <1>3, Counts DEF HasRoom, TeamShape, PlanOK
  <2> HIDE DEF row, r, claims, i, link
  <2>7. invite'[i] = row /\ \A j \in Invites \ {i} : invite'[j] = invite[j]
    BY <1>1, <2>1
  <2>8. TeamShape'
    <3>1. invite' \in [Invites -> InviteRow]
      BY <1>1, <2>1, <2>4
    <3>2. g \in Callers
      BY DEF Callers
    <3> QED BY <1>1, <2>1, <2>3, <3>1, <3>2 DEF TeamShape, PlanOK, RoomsOK, InvitesOK, DesksOK
  <2>9. \A j \in Invites : IsOpen(j)' => j # i /\ IsOpen(j) /\ invite'[j] = invite[j]
    BY <2>4, <2>7 DEF IsOpen
  <2>10. OneOpenInvite'
    BY <2>9 DEF OneOpenInvite
  <2>11. /\ \A d \in Desks : desk[d].pc \notin {"insert", "activate"}
         /\ \A h \in Guests : guest[h].pc # "join"
    BY <1>1, TeamAssumption DEF SeatLocked, Callers
  <2>12. Joining'
    <3>1. /\ invite'[i].used /\ ~invite'[i].revoked /\ invite'[i].email \in People
          /\ \A j \in Invites : IsOpen(j)' => invite'[j].email # invite'[i].email
      <4>1. ~row.revoked /\ row.used /\ row.email \in People
        BY <2>4, <2>5 DEF IsOpen
      <4>2. ASSUME NEW j \in Invites, IsOpen(j)' PROVE invite'[j].email # row.email
        BY <1>1, <2>4, <2>5, <2>9, <4>2 DEF OneOpenInvite
      <4> QED BY <2>7, <4>1, <4>2
    <3>2. guest'[g].link[1] = i
      BY <2>2, <2>3 DEF i
    <3>3. \A h \in Guests : guest'[h].pc = "join" => h = g
      BY <2>3, <2>11
    <3> QED BY <3>1, <3>2, <3>3 DEF Joining
  <2>13. SeatLocked' /\ Room' /\ ActiveWithinPlan'
    BY <1>1, <2>1, <2>3, <2>6, <2>11 DEF SeatLocked, Room, ActiveWithinPlan
  <2>14. Sent'
    BY <1>1, <2>4, <2>7 DEF Sent
  <2> QED BY <2>8, <2>10, <2>12, <2>13, <2>14
<1> QED BY <1>2, <1>3

\* The one who holds the capacity adds an agenda and leaves room for none.
LEMMA GrowKeeps ==
  ASSUME TeamShape, Room, NEW c \in Callers, Adding(c), NEW x, active' = active \cup {x}, plan' = plan,
         \A e \in Callers : ~Adding(e)'
  PROVE  ActiveWithinPlan' /\ Room'
<1>1. Cardinality(active') <= Cardinality(active) + 1
  BY Counts, FS_AddElement
<1>2. Cardinality(active) < plan.top /\ Cardinality(active') \in Nat
  BY Counts, FS_AddElement, FS_CardinalityType DEF Room
<1>3. ActiveWithinPlan'
  BY <1>1, <1>2, Counts DEF ActiveWithinPlan
<1> QED BY <1>3 DEF Room

LEMMA AddSteps ==
  ASSUME TeamInv, \/ \E g \in Guests : JoinTeam(g)
                  \/ \E d \in Desks : Activate(d)
  PROVE  TeamInv'
<1> USE DEF TeamInv
<1>1. ASSUME NEW g \in Guests, JoinTeam(g) PROVE TeamInv'
  <2> DEFINE e == invite[guest[g].link[1]].email
  <2>1. /\ guest[g].pc = "join" /\ guest' = [guest EXCEPT ![g] = AtGuest] /\ capacity = g /\ g \in Callers
        /\ staff' = staff \cup {e} /\ active' = active \cup {e} /\ capacity' = Free /\ GuestsOK
        /\ UNCHANGED <<plan, invite, emailLock, desk, mailed, asks>>
    BY <1>1 DEF JoinTeam, SeatLocked, Callers, TeamShape
  <2>2. e \in People
    BY <2>1 DEF Joining
  <2> HIDE DEF e
  <2>3. GuestsOK' /\ guest'[g].pc = "idle" /\ \A h \in Guests \ {g} : guest'[h] = guest[h]
    BY <2>1, AtGuestOK, GuestStep
  <2>4. TeamShape'
    BY <2>1, <2>2, <2>3 DEF TeamShape, PlanOK, RoomsOK, InvitesOK, DesksOK
  <2>5. /\ \A d \in Desks : desk'[d].pc \notin {"insert", "activate"}
        /\ \A h \in Guests : guest'[h].pc # "join"
    BY <2>1, <2>3, OnlyHolder, TeamAssumption DEF Callers
  <2>6. Adding(g) /\ \A c \in Callers : ~Adding(c)'
    BY <2>1, <2>5 DEF Adding
  <2>7. ActiveWithinPlan' /\ Room'
    BY <2>1, <2>6, GrowKeeps
  <2>8. SeatLocked' /\ Joining' /\ Sent' /\ OneOpenInvite'
    BY <2>1, <2>5 DEF SeatLocked, Joining, Sent, OneOpenInvite, IsOpen
  <2> QED BY <2>4, <2>7, <2>8
<1>2. ASSUME NEW d \in Desks, Activate(d) PROVE TeamInv'
  <2> DEFINE e == desk[d].who
  <2>1. /\ desk[d].pc = "activate" /\ capacity = d /\ d \in Callers /\ e \in People
        /\ staff' = staff \cup {e} /\ active' = active \cup {e} /\ capacity' = Free /\ DesksOK
        /\ UNCHANGED <<plan, invite, emailLock, guest, mailed, asks>>
    BY <1>2 DEF Activate, SeatLocked, Callers, TeamShape, DesksOK, DeskFilled
  <2> HIDE DEF e
  <2>3. DesksOK' /\ desk'[d].pc = "idle" /\ \A c \in Desks \ {d} : desk'[c] = desk[c]
    BY <1>2, <2>1, AtDeskOK, DeskStep DEF Activate, LeaveDesk
  <2>4. TeamShape'
    BY <2>1, <2>3 DEF TeamShape, PlanOK, RoomsOK, InvitesOK, GuestsOK
  <2>5. /\ \A c \in Desks : desk'[c].pc \notin {"insert", "activate"}
        /\ \A h \in Guests : guest'[h].pc # "join"
    BY <2>1, <2>3, OnlyHolder, TeamAssumption DEF Callers
  <2>6. Adding(d) /\ \A c \in Callers : ~Adding(c)'
    BY <2>1, <2>5 DEF Adding
  <2>7. ActiveWithinPlan' /\ Room'
    BY <2>1, <2>6, GrowKeeps
  <2>8. SeatLocked' /\ Joining' /\ OneOpenInvite'
    BY <2>1, <2>5 DEF SeatLocked, Joining, OneOpenInvite, IsOpen
  <2>9. Sent'
    BY <2>1, <2>3 DEF Sent
  <2> QED BY <2>4, <2>7, <2>8, <2>9
<1> QED BY <1>1, <1>2


\* A request that dies frees what it held; an acceptance gives the invitation
\* back, and no other invitation of the address was opened meanwhile.
LEMMA StopSteps ==
  ASSUME TeamInv, \/ \E d \in Desks : DeskStops(d)
                  \/ \E g \in Guests : GuestStops(g)
  PROVE  TeamInv'
<1> USE DEF TeamInv
<1>1. ASSUME NEW d \in Desks, DeskStops(d) PROVE TeamInv'
  <2>1. /\ UNCHANGED <<plan, staff, active, invite, guest, mailed, asks>> /\ DesksOK
        /\ capacity' = IF capacity = d THEN Free ELSE capacity
    BY <1>1 DEF DeskStops, TeamShape
  <2>2. DesksOK' /\ desk'[d].pc = "idle" /\ \A c \in Desks \ {d} : desk'[c] = desk[c]
    BY <1>1, <2>1, AtDeskOK, DeskStep DEF DeskStops, LeaveDesk
  <2>3. TeamShape'
    <3>1. emailLock' \in [People -> Desks \cup {Free}]
      BY <1>1 DEF DeskStops, Unlocked, TeamShape, RoomsOK
    <3> QED BY <2>1, <2>2, <3>1 DEF TeamShape, PlanOK, RoomsOK, InvitesOK, GuestsOK
  <2>4. OneOpenInvite' /\ Joining'
    BY <2>1, SameInvites, TameKeeps
  <2>5. SeatLocked'
    BY <2>1, <2>2, TeamAssumption DEF SeatLocked
  <2>6. Room' /\ ActiveWithinPlan'
    BY <2>1, <2>2 DEF Room, Adding, ActiveWithinPlan
  <2>7. Sent'
    BY <2>1, <2>2 DEF Sent
  <2> QED BY <2>3, <2>4, <2>5, <2>6, <2>7
<1>2. ASSUME NEW g \in Guests, GuestStops(g) PROVE TeamInv'
  <2>1. /\ UNCHANGED <<plan, staff, active, emailLock, desk, mailed, asks>> /\ GuestsOK
        /\ capacity' = IF capacity = g THEN Free ELSE capacity
        /\ guest' = [guest EXCEPT ![g] = AtGuest]
    BY <1>2 DEF GuestStops, TeamShape
  <2>2. GuestsOK' /\ guest'[g].pc = "idle" /\ \A h \in Guests \ {g} : guest'[h] = guest[h]
    BY <2>1, AtGuestOK, GuestStep
  <2>3. SeatLocked' /\ Room' /\ ActiveWithinPlan'
    BY <2>1, <2>2, TeamAssumption DEF SeatLocked, Room, Adding, ActiveWithinPlan
  <2>4. InvitesOK' /\ OneOpenInvite' /\ Joining' /\ Sent'
    <3>1. CASE guest[g].pc # "join"
      <4>1. invite' = invite
        BY <1>2, <3>1 DEF GuestStops
      <4>2. OneOpenInvite' /\ Joining'
        BY <2>2, <4>1, SameInvites, TameKeeps
      <4> QED BY <2>1, <4>1, <4>2 DEF TeamShape, InvitesOK, Sent
    <3>2. CASE guest[g].pc = "join"
      <4> DEFINE i == guest[g].link[1]
                 row == [invite[i] EXCEPT !.used = FALSE]
      <4>1. invite' = [invite EXCEPT ![i] = row]
        <5>1. invite' = [invite EXCEPT ![i].used = FALSE]
          BY <1>2, <3>2 DEF GuestStops
        <5> QED BY <5>1
      <4>2. /\ i \in Invites /\ \A j \in Invites : IsOpen(j) => invite[j].email # invite[i].email
            /\ invite \in [Invites -> InviteRow] /\ capacity = g /\ g \in Callers
        BY <2>1, <3>2, LinkParts DEF Joining, SeatLocked, Callers, GuestsOK, TeamShape, InvitesOK
      <4> HIDE DEF i
      <4>3. /\ row \in InviteRow /\ row.email = invite[i].email
            /\ row.token = invite[i].token /\ row.delivery = invite[i].delivery
        BY <4>2 DEF InviteRow
      <4> HIDE DEF row
      <4>4. invite'[i] = row /\ \A j \in Invites \ {i} : invite'[j] = invite[j]
        BY <4>1, <4>2
      <4>5. InvitesOK'
        BY <2>1, <4>1, <4>2, <4>3 DEF InvitesOK, TeamShape
      <4>6. \A j \in Invites \ {i} : IsOpen(j)' <=> IsOpen(j)
        BY <4>4 DEF IsOpen
      <4>7. OneOpenInvite'
        <5> SUFFICES ASSUME NEW j \in Invites, NEW k \in Invites, IsOpen(j)', IsOpen(k)',
                            invite'[j].email = invite'[k].email
                     PROVE  j = k
          BY DEF OneOpenInvite
        <5>1. CASE j # i /\ k # i
          BY <4>4, <4>6, <5>1 DEF OneOpenInvite
        <5>2. CASE j = i
          BY <4>2, <4>3, <4>4, <4>6, <5>2
        <5>3. CASE k = i
          BY <4>2, <4>3, <4>4, <4>6, <5>3
        <5> QED BY <5>1, <5>2, <5>3
      <4>8. Joining'
        <5>1. \A h \in Guests : guest'[h].pc # "join"
          BY <2>2, <4>2, OnlyHolder
        <5> QED BY <5>1 DEF Joining
      <4>9. Sent'
        BY <2>1, <4>2, <4>3, <4>4 DEF Sent
      <4> QED BY <4>5, <4>7, <4>8, <4>9
    <3> QED BY <3>1, <3>2
  <2>5. TeamShape'
    BY <2>1, <2>2, <2>4 DEF TeamShape, PlanOK, RoomsOK, DesksOK
  <2> QED BY <2>3, <2>4, <2>5
<1> QED BY <1>1, <1>2

LEMMA ContractSteps ==
  ASSUME TeamInv, PayContract \/ \E n \in Contracts : Sign(n)
  PROVE  TeamInv'
<1> USE DEF TeamInv
<1>1. UNCHANGED <<staff, active, invite, emailLock, capacity, desk, guest, mailed>>
  BY DEF PayContract, Sign
<1>2. PlanOK' /\ plan.top <= plan'.top
  <2>1. plan \in [limit : Nat, signed : Contracts \cup {0}, top : Nat] /\ plan.limit <= plan.top
    BY DEF TeamShape, PlanOK
  <2>2. ASSUME NEW n \in Contracts, Sign(n) PROVE PlanOK' /\ plan'.top = plan.top
    BY <2>1, <2>2 DEF Sign, PlanOK
  <2>3. CASE PayContract
    <3>1. plan.signed \in Nat /\ plan.top \in Nat
      <4>1. plan.signed \in Contracts \cup {0} /\ plan.top \in Nat
        BY <2>1
      <4>2. Contracts \subseteq Nat
        BY TeamAssumption
      <4>3. \A n : n \in Contracts \cup {0} => n \in Contracts \/ n = 0
        OBVIOUS
      <4>4. plan.signed \in Nat
        <5>1. CASE plan.signed \in Contracts
          BY <4>2, <5>1
        <5>2. CASE plan.signed = 0
          BY <5>2
        <5> QED BY <4>1, <4>3, <5>1, <5>2
      <4> QED BY <4>1, <4>4
    <3> DEFINE top == IF plan.signed > plan.top THEN plan.signed ELSE plan.top
    <3>2. top \in Nat /\ plan.signed <= top /\ plan.top <= top
      BY <3>1
    <3>3. plan' = [plan EXCEPT !.limit = plan.signed, !.top = top]
      BY <2>3 DEF PayContract
    <3> HIDE DEF top
    <3> QED BY <2>1, <3>1, <3>2, <3>3 DEF PlanOK
  <2> QED BY <2>1, <2>2, <2>3
<1>3. asks' \in 0..MaxAsks
  BY AskOK DEF PayContract, Sign, TeamShape, RoomsOK
<1>4. TeamShape'
  BY <1>1, <1>2, <1>3 DEF TeamShape, RoomsOK, InvitesOK, DesksOK, GuestsOK
<1>5. OneOpenInvite' /\ Joining'
  BY <1>1, SameInvites, TameKeeps
<1>6. Steady
  BY <1>1, <1>2 DEF Steady
<1>7. Sent'
  BY <1>1 DEF Sent
<1> QED BY <1>4, <1>5, <1>6, <1>7, SteadyKeeps

LEMMA OpenStep ==
  ASSUME TeamInv, NEW g \in Guests, NEW link \in Links, OpenLink(g, link)
  PROVE  TeamInv'
<1> DEFINE r == [pc |-> "claim", link |-> link]
<1>1. r \in GuestRow /\ r.pc \in {"idle", "claim"} /\ (r.pc # "idle" => r.link \in Links)
  BY DEF GuestRow
<1>2. guest' = [guest EXCEPT ![g] = r] /\ UNCHANGED <<plan, staff, active, invite, emailLock, capacity, desk, mailed>>
  BY DEF OpenLink
<1>3. asks' \in 0..MaxAsks
  BY AskOK DEF OpenLink, TeamInv
<1> HIDE DEF r
<1> QED BY <1>1, <1>2, <1>3, GuestOnlySteps

-----------------------------------------------------------------------------
LEMMA InitTeamInv == TeamInit => TeamInv
<1> SUFFICES ASSUME TeamInit PROVE TeamInv
  OBVIOUS
<1>1. PlanOK
  BY TeamAssumption DEF TeamInit, PlanOK
<1>2. RoomsOK /\ InvitesOK
  BY TeamAssumption, NoInviteOK DEF TeamInit, RoomsOK, InvitesOK
<1>3. DesksOK /\ GuestsOK /\ \A d \in Desks : desk[d].pc = "idle"
  BY AtDeskOK, AtGuestOK DEF TeamInit, DesksOK, GuestsOK
<1>4. \A g \in Guests : guest[g].pc = "idle"
  BY AtGuestOK DEF TeamInit
<1>5. SeatLocked /\ Joining /\ Room
  BY <1>3, <1>4 DEF SeatLocked, Joining, Room, Adding
<1>6. Sent /\ OneOpenInvite
  BY <1>3, NoInviteOK DEF TeamInit, Sent, OneOpenInvite, IsOpen
<1>7. ActiveWithinPlan
  BY TeamAssumption, FS_EmptySet DEF TeamInit, ActiveWithinPlan
<1> QED BY <1>1, <1>2, <1>3, <1>5, <1>6, <1>7 DEF TeamInv, TeamShape

LEMMA NextTeamInv == TeamInv /\ [TeamNext]_teamVars => TeamInv'
<1> SUFFICES ASSUME TeamInv, [TeamNext]_teamVars PROVE TeamInv'
  OBVIOUS
<1>1. CASE UNCHANGED teamVars
  BY <1>1 DEF teamVars, TeamInv, TeamShape, PlanOK, RoomsOK, InvitesOK, DesksOK, GuestsOK, SeatLocked, Joining, Room,
              Adding, Sent, OneOpenInvite, IsOpen, ActiveWithinPlan
<1>2. CASE \E d \in Desks, e \in People : BeginInvite(d, e) \/ ReadProfessional(d, e)
  BY <1>2, DeskOnlySteps
<1>3. CASE \E d \in Desks, i \in Invites : InsertInvite(d, i) \/ Resend(d, i)
  BY <1>3, InsertStep, InviteOnlySteps
<1>4. CASE \E d \in Desks, goes, reported \in BOOLEAN : Deliver(d, goes, reported)
  BY <1>4, DeskOnlySteps
<1>5. ASSUME NEW d \in Desks, \/ CountForInvite(d) \/ MarkDelivery(d) \/ Deactivate(d) \/ CountForActivation(d)
                              \/ CountForOwner(d) \/ Activate(d) \/ DeskStops(d)
      PROVE  TeamInv'
  BY <1>5, CountSteps, InviteOnlySteps, DeskOnlySteps, AddSteps, StopSteps
<1>6. CASE \E i \in Invites : Revoke(i) \/ LinkExpires(i)
  BY <1>6, InviteOnlySteps
<1>7. CASE \E g \in Guests, link \in Links : OpenLink(g, link)
  BY <1>7, OpenStep
<1>8. CASE \E g \in Guests : ClaimInvite(g) \/ JoinTeam(g) \/ GuestStops(g)
  BY <1>8, ClaimStep, AddSteps, StopSteps
<1>9. CASE (\E n \in Contracts : Sign(n)) \/ PayContract
  BY <1>9, ContractSteps
<1> QED BY <1>1, <1>2, <1>3, <1>4, <1>5, <1>6, <1>7, <1>8, <1>9 DEF TeamNext

LEMMA TeamInvariant == TeamSpec => []TeamInv
BY InitTeamInv, NextTeamInv, PTL DEF TeamSpec

\* The types, and that only professionals of the team are active.
THEOREM TeamTypeCorrect == TeamSpec => []TeamTypeOK
<1>1. TeamInv => TeamTypeOK
  BY TeamShapeTypeOK DEF TeamInv
<1> QED BY <1>1, TeamInvariant, PTL

\* However many guests accept, professionals are activated and owners add their
\* own agenda at once, the active agendas never pass the largest plan the salon
\* has had: each counts while it holds the salon's capacity.
THEOREM ActiveStaysWithinPlan == TeamSpec => []ActiveWithinPlan
<1>1. TeamInv => ActiveWithinPlan
  BY DEF TeamInv
<1> QED BY <1>1, TeamInvariant, PTL

\* An address never has two open invitations, whoever sends, renews or gives up
\* accepting one at once (createUserInvite, acceptInviteTransaction).
THEOREM OneInviteEach == TeamSpec => []OneOpenInvite
<1>1. TeamInv => OneOpenInvite
  BY DEF TeamInv
<1> QED BY <1>1, TeamInvariant, PTL

\* An open invitation shown as sent was sent with the link valid now
\* (markDelivery records the attempt that is still the current one).
THEOREM SentLinkIsCurrent == TeamSpec => []SentIsCurrent
<1>1. TeamInv => SentIsCurrent
  BY DEF TeamInv, Sent, SentIsCurrent
<1> QED BY <1>1, TeamInvariant, PTL


LEMMA UsedByClaim ==
  ASSUME TeamInv, TeamNext, NEW i \in Invites, ~invite[i].used, invite'[i].used
  PROVE  \E g \in Guests : ClaimInvite(g) /\ MayClaim(guest[g].link) /\ guest[g].link[1] = i
<1>1. invite \in [Invites -> InviteRow]
  BY DEF TeamInv, TeamShape, InvitesOK
<1>2. \A d \in Desks, e \in People : ~BeginInvite(d, e) /\ ~ReadProfessional(d, e)
  BY DEF BeginInvite, ReadProfessional
<1>3. ASSUME NEW d \in Desks, NEW j \in Invites, InsertInvite(d, j) PROVE FALSE
  <2> DEFINE n == NoInvite
             new == [n EXCEPT !.email = desk[d].who, !.token = 1]
  <2>1. invite'[i] = IF i = j THEN new
                     ELSE IF Replaced(i, desk[d].who) THEN [invite[i] EXCEPT !.revoked = TRUE] ELSE invite[i]
    BY <1>3 DEF InsertInvite
  <2>2. n \in InviteRow /\ ~n.used
    BY NoInviteOK DEF NoInvite
  <2> HIDE DEF n
  <2>3. ~new.used
    BY <2>2 DEF InviteRow
  <2>4. [invite[i] EXCEPT !.revoked = TRUE].used = invite[i].used
    BY <1>1 DEF InviteRow
  <2> HIDE DEF new
  <2> QED BY <2>1, <2>3, <2>4
<1>4. ASSUME NEW d \in Desks, NEW j \in Invites, Resend(d, j) PROVE FALSE
  <2>1. invite' = [invite EXCEPT ![j] = Renewed(invite[j])]
    BY <1>4 DEF Resend
  <2>2. Renewed(invite[j]).used = invite[j].used
    BY <1>1 DEF Renewed, InviteRow
  <2> QED BY <1>1, <2>1, <2>2
<1>5. \A d \in Desks : /\ ~CountForInvite(d) /\ ~Deactivate(d) /\ ~CountForActivation(d)
                       /\ ~CountForOwner(d) /\ ~Activate(d) /\ ~DeskStops(d)
                       /\ \A goes, reported \in BOOLEAN : ~Deliver(d, goes, reported)
  BY DEF CountForInvite, Deactivate, CountForActivation, CountForOwner, Activate, DeskStops, Deliver
<1>6. ASSUME NEW d \in Desks, MarkDelivery(d) PROVE FALSE
  <2> DEFINE j == desk[d].link[1]
             state == IF desk[d].sent THEN "SENT" ELSE "FAILED"
  <2>1. invite' = invite \/ invite' = [invite EXCEPT ![j].delivery = state]
    BY <1>6 DEF MarkDelivery
  <2> HIDE DEF j, state
  <2> QED BY <1>1, <2>1 DEF InviteRow
<1>7. ASSUME NEW j \in Invites, Revoke(j) \/ LinkExpires(j) PROVE FALSE
  <2>1. invite' = [invite EXCEPT ![j].revoked = TRUE] \/ invite' = [invite EXCEPT ![j].expired = TRUE]
    BY <1>7 DEF Revoke, LinkExpires
  <2>2. CASE invite' = [invite EXCEPT ![j].revoked = TRUE]
    BY <1>1, <2>2 DEF InviteRow
  <2>3. CASE invite' = [invite EXCEPT ![j].expired = TRUE]
    BY <1>1, <2>3 DEF InviteRow
  <2> QED BY <2>1, <2>2, <2>3
<1>8. ASSUME NEW g \in Guests PROVE ~JoinTeam(g) /\ \A link \in Links : ~OpenLink(g, link)
  BY DEF JoinTeam, OpenLink
<1>9. ASSUME NEW g \in Guests, GuestStops(g) PROVE FALSE
  <2> DEFINE j == guest[g].link[1]
  <2>1. invite' = invite \/ invite' = [invite EXCEPT ![j].used = FALSE]
    BY <1>9 DEF GuestStops
  <2> HIDE DEF j
  <2> QED BY <1>1, <2>1 DEF InviteRow
<1>10. ASSUME NEW g \in Guests, ClaimInvite(g)
       PROVE  MayClaim(guest[g].link) /\ guest[g].link[1] = i
  <2> DEFINE j == guest[g].link[1]
  <2>1. invite' = invite \/ (MayClaim(guest[g].link) /\ invite' = [invite EXCEPT ![j].used = TRUE])
    BY <1>10 DEF ClaimInvite
  <2> HIDE DEF j
  <2>2. j = i
    BY <1>1, <2>1
  <2> QED BY <2>1, <2>2 DEF j
<1>11. ~PayContract /\ \A n \in Contracts : ~Sign(n)
  BY DEF PayContract, Sign
<1> QED BY <1>2, <1>3, <1>4, <1>5, <1>6, <1>7, <1>8, <1>9, <1>10, <1>11 DEF TeamNext

\* Nobody joins by a link renewed or revoked while the acceptance was under way
\* (the claim of acceptInviteTransaction is conditional on the link it read).
THEOREM JoiningNeedsValidLink == TeamSpec => JoinsByValidLink
<1>1. TeamInv /\ [TeamNext]_teamVars =>
        [\A i \in Invites : ~invite[i].used /\ invite'[i].used =>
            ~invite[i].revoked /\ \E g \in Guests : guest[g].link = <<i, invite[i].token>>]_teamVars
  <2> SUFFICES ASSUME TeamInv, TeamNext, NEW i \in Invites, ~invite[i].used, invite'[i].used
               PROVE  ~invite[i].revoked /\ \E g \in Guests : guest[g].link = <<i, invite[i].token>>
    OBVIOUS
  <2>1. PICK g \in Guests : ClaimInvite(g) /\ MayClaim(guest[g].link) /\ guest[g].link[1] = i
    BY UsedByClaim
  <2>2. guest[g].link \in Links
    BY <2>1 DEF ClaimInvite, TeamInv, TeamShape, GuestsOK
  <2>3. guest[g].link = <<i, invite[i].token>>
    BY <2>1, <2>2, LinkParts DEF MayClaim
  <2> QED BY <2>1, <2>3 DEF MayClaim, IsOpen
<1> QED BY <1>1, TeamInvariant, PTL DEF TeamSpec, JoinsByValidLink

=============================================================================
