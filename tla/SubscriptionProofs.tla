------------------------- MODULE SubscriptionProofs -------------------------
(* What the contract keeps whatever the provider answers, for any number of    *)
(* processes, invoices and scenes.                                             *)
EXTENDS Subscription, FiniteSetTheorems, TLAPS

-----------------------------------------------------------------------------
(* The types, with what a process has filled in at its step.                   *)

Noted == {n \in Item : n.topic # "preapproval" => n.bill \in Bills}

Filled(r) ==
    /\ r.pc = "applyBill" => r.bill \in Bills
    /\ r.pc = "note" \/ r.next = "note" => r.item \in Noted
    /\ r.next = "note" => r.pc \in {"apply", "note"}

PreOK == pre \in [status : RemoteStatuses, stamp : 0..MaxStamp, posts : Nat]
ProcsOK == proc \in [Procs -> Process] /\ \A p \in Procs : Filled(proc[p])
WorkOK == queue \in Queue /\ inbox \in Seq(Noted) /\ left \in Scene
BooksOK == sub \in Row /\ charge \in [Bills -> Bill]
Shape == BooksOK /\ WorkOK /\ ProcsOK /\ PreOK /\ flight \in BOOLEAN /\ bills \in [Bills -> Bill]

LEMMA ShapeImpliesTypeOK == Shape => SubscriptionTypeOK
<1>1. Seq(Noted) \subseteq Seq(Item)
  BY DEF Noted
<1> QED BY <1>1 DEF Shape, BooksOK, WorkOK, ProcsOK, PreOK, SubscriptionTypeOK

LEMMA EmptyRecords == NoBill \in Bill /\ NoSnapshot \in Snapshot /\ NewRow \in Row
BY SubscriptionAssumption DEF NoSnapshot, Snapshot, RemoteStatuses, NoBill, Bill, NewRow, Row

LEMMA IdleOK == Idle \in Process /\ Filled(Idle) /\ Idle.pc = "idle"
<1>1. Idle \in Process
  BY EmptyRecords, SubscriptionAssumption DEF Idle, Process
<1> QED BY <1>1 DEF Idle, Filled

LEMMA EndedOK ==
  ASSUME Shape, NEW p \in Procs
  PROVE  Ended(p) \in Process /\ Filled(Ended(p)) /\ Ended(p).pc \in {"idle", "release"}
<1> DEFINE i == Idle
           r == [i EXCEPT !.pc = "release", !.job = TRUE, !.heard = proc[p].heard]
<1>1. proc[p] \in Process /\ i \in Process /\ Filled(i) /\ i.pc = "idle"
  BY IdleOK DEF Shape, ProcsOK
<1>2. Ended(p) \in {i, r}
  BY DEF Ended
<1> HIDE DEF i
<1>3. r \in Process /\ r.pc = "release" /\ r.next = i.next /\ r.item = i.item
  BY <1>1 DEF Process
<1> QED BY <1>1, <1>2, <1>3 DEF Filled

LEMMA OneProcess ==
  ASSUME Shape, NEW p \in Procs, NEW r \in Process, Filled(r), Become(p, r)
  PROVE  ProcsOK'
BY DEF Shape, ProcsOK, Become, Filled

LEMMA EnqueuedOK ==
  ASSUME NEW procs \in [Procs -> Process], \A p \in Procs : Filled(procs[p])
  PROVE  /\ Enqueued(procs) \in [Procs -> Process]
         /\ \A p \in Procs : /\ Filled(Enqueued(procs)[p])
                             /\ Enqueued(procs)[p].pc = procs[p].pc
                             /\ Enqueued(procs)[p].snap = procs[p].snap
                             /\ Enqueued(procs)[p].found = procs[p].found
<1>1. ASSUME NEW p \in Procs, NEW e \in {procs[p], [procs[p] EXCEPT !.heard = TRUE]}
      PROVE  /\ e \in Process /\ Filled(e) /\ e.pc = procs[p].pc
             /\ e.snap = procs[p].snap /\ e.found = procs[p].found
  <2> DEFINE r == procs[p]
  <2>1. r \in Process /\ Filled(r)
    OBVIOUS
  <2>2. e = r \/ e = [r EXCEPT !.heard = TRUE]
    OBVIOUS
  <2> HIDE DEF r
  <2>3. e \in Process /\ e.pc = r.pc /\ e.snap = r.snap /\ e.found = r.found /\ e.bill = r.bill /\ e.next = r.next /\ e.item = r.item
    BY <2>1, <2>2 DEF Process
  <2> QED BY <2>1, <2>3 DEF r, Filled
<1>2. \A p \in Procs : Enqueued(procs)[p] \in {procs[p], [procs[p] EXCEPT !.heard = TRUE]}
  BY DEF Enqueued
<1>3. Enqueued(procs) \in [Procs -> Process]
  <2>1. \A p \in Procs : (IF procs[p].job /\ procs[p].pc # "write" THEN [procs[p] EXCEPT !.heard = TRUE] ELSE procs[p]) \in Process
    BY <1>1
  <2> QED BY <2>1 DEF Enqueued
<1> QED BY <1>1, <1>2, <1>3

LEMMA SpendOK ==
  ASSUME Shape, NEW what \in {"clicks", "cancels", "hooks", "faults", "bills"}, Spend(what)
  PROVE  left' \in Scene
BY DEF Shape, WorkOK, Spend, Scene

LEMMA IssuedOK == Issued \in 0..MaxBills
<1> DEFINE S == {i \in Bills : bills[i].status # "none"}
<1>1. IsFiniteSet(Bills) /\ Cardinality(Bills) = MaxBills
  BY FS_Interval, SubscriptionAssumption DEF Bills
<1>2. IsFiniteSet(S) /\ Cardinality(S) <= Cardinality(Bills)
  BY <1>1, FS_Subset
<1>3. Cardinality(S) \in Nat
  BY <1>2, FS_CardinalityType
<1> QED BY <1>1, <1>2, <1>3, SubscriptionAssumption DEF Issued


Steps == {"idle", "ensure", "post", "answer", "search", "apply", "note", "read", "get",
          "put", "confirm", "pick", "applyBill", "mark", "save", "release", "write"}
World == <<sub, charge, queue, inbox, pre, flight, bills, left>>
Others == <<charge, queue, inbox, pre, flight, bills, left>>

LEMMA LocalShape == ASSUME Shape, ProcsOK', UNCHANGED World PROVE Shape'
BY DEF Shape, World, BooksOK, WorkOK, PreOK

LEMMA RowShape == ASSUME Shape, ProcsOK', sub' \in Row, UNCHANGED Others PROVE Shape'
BY DEF Shape, Others, BooksOK, WorkOK, PreOK

LEMMA GotoOK ==
  ASSUME Shape, NEW p \in Procs, NEW pc \in Steps \ {"applyBill", "note"}, Goto(p, pc),
         proc[p].pc \notin {"apply", "note"}
  PROVE  ProcsOK'
<1> DEFINE r == [proc[p] EXCEPT !.pc = pc]
<1>1. proc[p] \in Process /\ Filled(proc[p])
  BY DEF Shape, ProcsOK
<1>2. r \in Process /\ r.pc = pc /\ r.next = proc[p].next /\ r.item = proc[p].item
  BY <1>1 DEF Process, Steps
<1> QED BY <1>1, <1>2, OneProcess DEF Goto, Filled

LEMMA RemoteOK ==
  ASSUME Shape
  PROVE  [status |-> pre.status, stamp |-> pre.stamp] \in Snapshot
BY DEF Shape, PreOK, Snapshot

LEMMA ContractShape ==
  ASSUME Shape, NEW p \in Procs, Contract(p)
  PROVE  Shape'
<1> DEFINE click == [proc EXCEPT ![p].pc = IF sub.linked \/ sub.cancelled THEN "idle" ELSE "ensure"]
<1>1. click \in [Procs -> Process] /\ \A q \in Procs : Filled(click[q])
  BY DEF Shape, ProcsOK, Process, Filled, Contract
<1>2. ProcsOK'
  BY <1>1, EnqueuedOK DEF Contract, ProcsOK
<1>3. sub' \in Row /\ queue' \in Queue /\ left' \in Scene
  BY SpendOK DEF Contract, Shape, BooksOK, WorkOK, Row, Queue, DueNow
<1> QED BY <1>2, <1>3 DEF Contract, Shape, BooksOK, WorkOK, PreOK

LEMMA ReserveShape ==
  ASSUME Shape, NEW p \in Procs, Reserve(p)
  PROVE  Shape'
<1>1. proc[p] \in Process /\ proc[p].pc = "ensure"
  BY DEF Shape, ProcsOK, Reserve
<1>2. ASSUME Goto(p, proc[p].next) PROVE ProcsOK'
  <2>1. proc[p].next # "note" /\ proc[p].next \in Steps \ {"applyBill", "note"}
    BY <1>1 DEF Process, Steps, Shape, ProcsOK, Filled
  <2> QED BY <1>1, <1>2, <2>1, GotoOK
<1>3. ASSUME Goto(p, "post") \/ Goto(p, "search") PROVE ProcsOK'
  BY <1>1, <1>3, GotoOK DEF Steps
<1>4. ASSUME sub \in Row PROVE sub' \in Row
  BY <1>4 DEF Reserve, Row, RemoteStatuses
<1> QED BY <1>2, <1>3, <1>4, RowShape DEF Reserve, Others, Shape, BooksOK

LEMMA ApplyRemoteShape ==
  ASSUME Shape, NEW p \in Procs, ApplyRemote(p)
  PROVE  Shape'
<1> DEFINE r == [proc[p] EXCEPT !.pc = proc[p].next, !.snap = NoSnapshot]
<1>1. proc[p] \in Process /\ Filled(proc[p])
  BY DEF Shape, ProcsOK
<1>2. r \in Process /\ Filled(r)
  BY <1>1, EmptyRecords DEF Process, Filled
<1>3. ProcsOK'
  BY <1>2, IdleOK, OneProcess DEF ApplyRemote
<1>4. sub' \in Row
  BY <1>1 DEF ApplyRemote, WithRemote, Shape, BooksOK, Row, Process, Snapshot
<1> QED BY <1>3, <1>4, RowShape DEF ApplyRemote, Others

\* The calls and reads of a process that change nothing else.
LEMMA LocalStepsShape ==
  ASSUME Shape, NEW p \in Procs,
         Answer(p) \/ Recover(p) \/ Read(p) \/ Get(p) \/ Confirm(p) \/ Pick(p) \/ Release(p)
  PROVE  Shape'
<1> DEFINE i == Idle
           now == [status |-> pre.status, stamp |-> pre.stamp]
<1>1. proc[p] \in Process /\ Filled(proc[p]) /\ now \in Snapshot /\ i \in Process /\ Filled(i) /\ i.pc = "idle"
  BY IdleOK, RemoteOK DEF Shape, ProcsOK
<1>2. UNCHANGED World
  BY DEF Answer, Recover, Read, Get, Confirm, Pick, Release, World
<1>8. proc[p].next # "note"
  BY <1>1 DEF Filled, Answer, Recover, Read, Get, Confirm, Pick, Release
<1> HIDE DEF now
<1>3. CASE Answer(p) \/ Recover(p) \/ Confirm(p)
  <2> DEFINE r == [proc[p] EXCEPT !.pc = "apply", !.snap = now]
  <2>1. r \in Process /\ Filled(r)
    BY <1>1, <1>8 DEF Process, Filled
  <2>2. Become(p, r) \/ Become(p, Ended(p))
    BY <1>3 DEF Answer, Recover, Confirm, now
  <2> QED BY <1>2, <2>1, <2>2, EndedOK, OneProcess, LocalShape
<1>4. CASE Read(p)
  <2> DEFINE get == [proc[p] EXCEPT !.pc = "get", !.asked = sub.cancelReq, !.off = sub.offset]
  <2>1. get \in Process /\ Filled(get)
    BY <1>1, <1>8 DEF Process, Filled, Shape, BooksOK, Row
  <2>2. \A pc \in {"release", "ensure"} : [proc[p] EXCEPT !.pc = pc] \in Process /\ Filled([proc[p] EXCEPT !.pc = pc])
    BY <1>1, <1>8 DEF Process, Filled
  <2>3. Become(p, get) \/ \E pc \in {"release", "ensure"} : Become(p, [proc[p] EXCEPT !.pc = pc])
    BY <1>4 DEF Read
  <2> QED BY <1>2, <2>1, <2>2, <2>3, OneProcess, LocalShape
<1>5. CASE Get(p)
  <2> DEFINE put == [proc[p] EXCEPT !.pc = "put"]
             apply == [proc[p] EXCEPT !.pc = "apply", !.next = "pick", !.snap = now]
  <2>1. put \in Process /\ Filled(put) /\ apply \in Process /\ Filled(apply)
    BY <1>1, <1>8 DEF Process, Filled
  <2>2. Become(p, put) \/ Become(p, apply)
    BY <1>5 DEF Get, now
  <2> QED BY <1>2, <2>1, <2>2, OneProcess, LocalShape
<1>6. CASE Release(p)
  <2> DEFINE r == [i EXCEPT !.pc = "write", !.job = TRUE, !.heard = proc[p].heard]
  <2>1. Become(p, r)
    BY <1>6 DEF Release
  <2> HIDE DEF i
  <2>2. r \in Process /\ Filled(r)
    BY <1>1, <1>8 DEF Process, Filled
  <2> QED BY <1>2, <2>1, <2>2, OneProcess, LocalShape
<1>7. CASE Pick(p)
  <2> DEFINE h == Head(inbox)
             marked == [proc[p] EXCEPT !.pc = "mark", !.item = h]
             noted == Fetched([proc[p] EXCEPT !.item = h], h.bill)
             searched == Fetched([proc[p] EXCEPT !.off = NextOffset(@)], proc[p].off + 1)
             saved == [proc[p] EXCEPT !.pc = "save", !.off = 0]
  <2>1. inbox # <<>> => h \in Noted
    BY DEF Shape, WorkOK
  <2>2. inbox # <<>> => marked \in Process /\ Filled(marked)
    BY <1>1, <1>8, <2>1 DEF Process, Filled, Noted
  <2>3. inbox # <<>> /\ h.topic # "preapproval" => noted \in Process /\ Filled(noted)
    <3> SUFFICES ASSUME inbox # <<>>, h.topic # "preapproval" PROVE noted \in Process /\ Filled(noted)
      OBVIOUS
    <3> DEFINE k == h.bill
    <3>1. h \in Noted /\ k \in Bills /\ k \in 0..MaxBills /\ bills[k] \in Bill
      BY <2>1 DEF Noted, Item, Shape
    <3>2. noted = [proc[p] EXCEPT !.item = h, !.pc = "applyBill", !.bill = k, !.found = bills[k]]
      BY <1>1, <1>8 DEF Fetched, Process
    <3> HIDE DEF h, k, noted
    <3> QED BY <1>1, <1>8, <3>1, <3>2 DEF Process, Filled, Noted
  <2>4. proc[p].off < Issued => searched \in Process /\ Filled(searched)
    <3> SUFFICES ASSUME proc[p].off < Issued PROVE searched \in Process /\ Filled(searched)
      OBVIOUS
    <3>1. proc[p].off \in 0..MaxBills /\ proc[p].off + 1 \in Bills /\ NextOffset(proc[p].off) \in 0..MaxBills
      BY <1>1, <1>8, IssuedOK, SubscriptionAssumption DEF Process, NextOffset, Bills
    <3>2. bills[proc[p].off + 1] \in Bill
      BY <3>1 DEF Shape
    <3> DEFINE k == proc[p].off + 1
               n == NextOffset(proc[p].off)
    <3>3. searched = [proc[p] EXCEPT !.off = n, !.pc = "applyBill", !.bill = k, !.found = bills[k]]
      BY <1>1, <1>8 DEF Fetched, Process
    <3> HIDE DEF k, n
    <3>4. k \in Bills /\ n \in 0..MaxBills /\ bills[k] \in Bill /\ k \in 0..MaxBills
      BY <3>1, <3>2, SubscriptionAssumption DEF k, n, Bills
    <3> HIDE DEF searched
    <3> QED BY <1>1, <1>8, <3>3, <3>4 DEF Process, Filled
  <2>5. saved \in Process /\ Filled(saved)
    <3>1. 0 \in 0..MaxBills
      BY SubscriptionAssumption
    <3> QED BY <1>1, <1>8, <3>1 DEF Process, Filled
  <2>6. \/ inbox # <<>> /\ Become(p, marked)
        \/ inbox # <<>> /\ h.topic # "preapproval" /\ Become(p, noted)
        \/ proc[p].off < Issued /\ Become(p, searched)
        \/ Become(p, saved)
    BY <1>7 DEF Pick, Known
  <2> QED BY <1>2, <2>2, <2>3, <2>4, <2>5, <2>6, OneProcess, LocalShape
<1> QED BY <1>3, <1>4, <1>5, <1>6, <1>7

\* A job's own writes and the outside calls, each of one or two parts of the state.
LEMMA BooksStepsShape ==
  ASSUME Shape, NEW p \in Procs, ApplyBill(p) \/ Save(p)
  PROVE  Shape'
<1>1. proc[p] \in Process /\ Filled(proc[p])
  BY DEF Shape, ProcsOK
<1>2. CASE ApplyBill(p)
  <2> DEFINE k == proc[p].bill
             now == proc[p].found
             next == IF proc[p].item = None THEN "save" ELSE "mark"
             r == [proc[p] EXCEPT !.pc = next, !.bill = 0, !.found = NoBill]
  <2>1. k \in Bills /\ now \in Bill
    BY <1>1, <1>2 DEF ApplyBill, Filled, Process
  <2>2. ProcsOK'
    <3>1. next \in {"save", "mark"} /\ NoBill \in Bill /\ 0 \in 0..MaxBills
      BY EmptyRecords, SubscriptionAssumption
    <3>2. Become(p, r)
      BY <1>2 DEF ApplyBill
    <3> HIDE DEF next
    <3>3. r \in Process /\ Filled(r)
      BY <1>1, <1>2, <3>1 DEF ApplyBill, Process, Filled
    <3> QED BY <3>2, <3>3, OneProcess
  <2>3. charge' \in [Bills -> Bill]
    BY <1>2, <2>1 DEF ApplyBill, Shape, BooksOK
  <2>4. sub' \in Row
    <3>1. sub' = sub \/ sub' = WithCharge(k, now)
      BY <1>2 DEF ApplyBill
    <3>2. sub \in Row /\ k \in 0..MaxBills /\ 0 \in 0..MaxBills
      BY <2>1, SubscriptionAssumption DEF Bills, Shape, BooksOK
    <3> HIDE DEF k, now
    <3>3. WithCharge(k, now) \in Row
      BY <3>2 DEF WithCharge, Row
    <3> QED BY <3>1, <3>2, <3>3
  <2> QED BY <1>2, <2>2, <2>3, <2>4 DEF ApplyBill, Shape, BooksOK, WorkOK, PreOK
<1>3. CASE Save(p)
  <2>1. sub' \in Row
    BY <1>1, <1>3 DEF Save, Shape, BooksOK, Row, Process
  <2>2. ProcsOK'
    BY <1>3, GotoOK DEF Save, Steps
  <2> QED BY <1>3, <2>1, <2>2, RowShape DEF Save, Others
<1> QED BY <1>2, <1>3

LEMMA WorkStepsShape ==
  ASSUME Shape, NEW p \in Procs, Note(p) \/ Lease(p) \/ Mark(p) \/ Write(p)
  PROVE  Shape'
<1> DEFINE i == Idle
<1>1. proc[p] \in Process /\ Filled(proc[p]) /\ i \in Process /\ Filled(i) /\ i.pc = "idle"
  BY IdleOK DEF Shape, ProcsOK
<1>2. CASE Note(p)
  <2>1. proc[p].item \in Noted
    BY <1>1, <1>2 DEF Note, Filled
  <2>2. inbox' \in Seq(Noted)
    BY <1>2, <2>1 DEF Note, Shape, WorkOK
  <2>5. queue' \in Queue
    BY <1>2 DEF Note, Shape, WorkOK, Queue, DueNow
  <2>3. [proc EXCEPT ![p] = i] \in [Procs -> Process] /\ \A q \in Procs : Filled([proc EXCEPT ![p] = i][q])
    BY <1>1 DEF Shape, ProcsOK
  <2>4. ProcsOK'
    BY <1>2, <2>3, EnqueuedOK DEF Note, ProcsOK
  <2> QED BY <1>2, <2>2, <2>4, <2>5 DEF Note, Shape, BooksOK, WorkOK, PreOK
<1>3. CASE Lease(p)
  <2> DEFINE r == [i EXCEPT !.pc = "read", !.job = TRUE, !.next = "release"]
  <2>1. Become(p, r) /\ queue' \in Queue
    BY <1>3 DEF Lease, Shape, WorkOK, Queue
  <2> HIDE DEF i
  <2>2. r \in Process /\ Filled(r)
    BY <1>1 DEF Process, Filled
  <2>3. ProcsOK'
    BY <2>1, <2>2, OneProcess
  <2> QED BY <1>3, <2>1, <2>3 DEF Lease, Shape, BooksOK, WorkOK, PreOK
<1>4. CASE Mark(p)
  <2> DEFINE r == [proc[p] EXCEPT !.pc = "release", !.item = None]
  <2>1. inbox' \in Seq(Noted)
    BY <1>4 DEF Mark, Shape, WorkOK
  <2>2. r \in Process /\ Filled(r) /\ Become(p, r)
    BY <1>1, <1>4 DEF Mark, Process, Filled
  <2>3. ProcsOK'
    BY <2>2, OneProcess
  <2> QED BY <1>4, <2>1, <2>3 DEF Mark, Shape, BooksOK, WorkOK, PreOK
<1>5. CASE Write(p)
  <2>1. ProcsOK'
    BY <1>1, <1>5, OneProcess DEF Write
  <2>2. queue' \in Queue
    BY <1>1, <1>5 DEF Write, Shape, WorkOK, Queue, Process
  <2> QED BY <1>5, <2>1, <2>2 DEF Write, Shape, BooksOK, WorkOK, PreOK
<1> QED BY <1>2, <1>3, <1>4, <1>5

LEMMA StoppedOK ==
  ASSUME PreOK, NEW stamp \in SameOrLater, Stopped(stamp)
  PROVE  PreOK'
<1>1. stamp \in 0..MaxStamp
  BY SubscriptionAssumption DEF SameOrLater
<1> QED BY <1>1 DEF PreOK, Stopped, RemoteStatuses

LEMMA ProviderStepsShape ==
  ASSUME Shape,
         \/ \E p \in Procs : Post(p) \/ Put(p)
         \/ Arrives \/ Authorize \/ PayerCancels
         \/ \E i \in Bills, stamp \in 1..(MaxStamp - 1) :
               Issue(i, stamp) \/ (\E status \in {"approved", "rejected"} : Settle(i, status, stamp))
         \/ \E i \in Bills : Refund(i)
  PROVE  Shape'
<1>1. CASE \E p \in Procs : Post(p)
  <2>1. ProcsOK'
    BY <1>1, GotoOK DEF Post, Steps
  <2> QED BY <1>1, <2>1 DEF Post, Shape, BooksOK, WorkOK, PreOK
<1>2. CASE \E p \in Procs : Put(p)
  <2>1. ProcsOK'
    BY <1>2, GotoOK DEF Put, Steps
  <2>2. PreOK'
    BY <1>2, StoppedOK DEF Put, Shape, PreOK
  <2> QED BY <1>2, <2>1, <2>2 DEF Put, Shape, BooksOK, WorkOK
<1>3. CASE Arrives
  <2>1. PreOK' /\ flight' \in BOOLEAN
    <3>1. 1 \in 0..MaxStamp /\ pre.posts + 1 \in Nat
      BY SubscriptionAssumption DEF Shape, PreOK
    <3> QED BY <1>3, <3>1 DEF Arrives, PreOK, RemoteStatuses
  <2> QED BY <1>3, <2>1 DEF Arrives, Shape, BooksOK, WorkOK, ProcsOK
<1>4. CASE Authorize
  <2>1. PreOK'
    <3>1. pre.stamp + 1 \in 0..MaxStamp
      BY <1>4, SubscriptionAssumption DEF Authorize, Shape, PreOK
    <3> QED BY <1>4, <3>1 DEF Authorize, Shape, PreOK, RemoteStatuses
  <2> QED BY <1>4, <2>1 DEF Authorize, Shape, BooksOK, WorkOK, ProcsOK
<1>5. CASE PayerCancels
  <2>1. PreOK'
    BY <1>5, StoppedOK DEF PayerCancels, Shape
  <2>2. left' \in Scene
    BY <1>5, SpendOK DEF PayerCancels
  <2> QED BY <1>5, <2>1, <2>2 DEF PayerCancels, Shape, BooksOK, WorkOK, ProcsOK
<1>6. ASSUME NEW i \in Bills, NEW stamp \in 1..(MaxStamp - 1), Issue(i, stamp)
      PROVE  Shape'
  <2>1. bills' \in [Bills -> Bill]
    BY <1>6, SubscriptionAssumption DEF Issue, Shape, Bill
  <2>2. left' \in Scene
    BY <1>6, SpendOK DEF Issue
  <2> QED BY <1>6, <2>1, <2>2 DEF Issue, Shape, BooksOK, WorkOK, ProcsOK, PreOK
<1>7. ASSUME NEW i \in Bills, NEW stamp \in 1..(MaxStamp - 1), NEW status \in {"approved", "rejected"},
             Settle(i, status, stamp)
      PROVE  Shape'
  <2>1. bills' \in [Bills -> Bill]
    <3>1. bills[i] \in Bill /\ bills[i].attempt + 1 \in 0..2 /\ stamp \in 0..MaxStamp
      BY <1>7, SubscriptionAssumption DEF Settle, Shape, Bill
    <3> QED BY <1>7, <3>1 DEF Settle, Shape, Bill
  <2> QED BY <1>7, <2>1 DEF Settle, Shape, BooksOK, WorkOK, ProcsOK, PreOK
<1>8. ASSUME NEW i \in Bills, Refund(i)
      PROVE  Shape'
  <2>1. bills' \in [Bills -> Bill]
    BY <1>8, SubscriptionAssumption DEF Refund, Shape, Bill
  <2> QED BY <1>8, <2>1 DEF Refund, Shape, BooksOK, WorkOK, ProcsOK, PreOK
<1> QED BY <1>1, <1>2, <1>3, <1>4, <1>5, <1>6, <1>7, <1>8

LEMMA OutsideStepsShape ==
  ASSUME Shape,
         \/ RequestCancellation \/ LeaseExpires \/ TimePasses
         \/ \E p \in Procs : CallFails(p) \/ Crash(p) \/ \E note \in Notified : Webhook(p, note)
  PROVE  Shape'
<1>1. CASE RequestCancellation
  <2>1. sub' \in Row /\ queue' \in Queue /\ left' \in Scene
    BY <1>1, SpendOK DEF RequestCancellation, Shape, BooksOK, WorkOK, Row, Queue, DueNow
  <2>2. ProcsOK'
    BY <1>1, EnqueuedOK DEF RequestCancellation, Shape, ProcsOK
  <2> QED BY <1>1, <2>1, <2>2 DEF RequestCancellation, Shape, BooksOK, WorkOK, PreOK
<1>2. CASE LeaseExpires \/ TimePasses
  <2>1. queue' \in Queue
    BY <1>2 DEF LeaseExpires, TimePasses, Shape, WorkOK, Queue, DueNow
  <2>2. left' \in Scene
    BY <1>2, SpendOK DEF LeaseExpires, TimePasses, Shape, WorkOK
  <2>3. UNCHANGED <<sub, charge, inbox, proc, pre, flight, bills>>
    BY <1>2 DEF LeaseExpires, TimePasses
  <2> QED BY <2>1, <2>2, <2>3 DEF Shape, BooksOK, WorkOK, ProcsOK, PreOK
<1>3. ASSUME NEW p \in Procs, CallFails(p) \/ Crash(p) PROVE Shape'
  <2>1. ProcsOK' /\ left' \in Scene
    BY <1>3, SpendOK, IdleOK, EndedOK, OneProcess DEF CallFails, Crash
  <2> QED BY <1>3, <2>1 DEF CallFails, Crash, Shape, BooksOK, WorkOK, PreOK
<1>4. ASSUME NEW p \in Procs, NEW note \in Notified, Webhook(p, note) PROVE Shape'
  <2> DEFINE i == Idle
             now == [status |-> pre.status, stamp |-> pre.stamp]
             r == [i EXCEPT !.pc = "apply", !.next = "note", !.item = note, !.snap = now]
  <2>1. note \in Noted
    BY SubscriptionAssumption DEF Notified, Noted, Item, Bills
  <2>2. i \in Process /\ Filled(i) /\ now \in Snapshot /\ Become(p, r)
    BY <1>4, IdleOK, RemoteOK DEF Webhook
  <2> HIDE DEF i, now
  <2>3. r \in Process /\ Filled(r)
    BY <2>1, <2>2 DEF Process, Filled, Noted
  <2>4. ProcsOK' /\ left' \in Scene
    BY <1>4, <2>2, <2>3, SpendOK, OneProcess DEF Webhook
  <2> QED BY <1>4, <2>4 DEF Webhook, Shape, BooksOK, WorkOK, PreOK
<1> QED BY <1>1, <1>2, <1>3, <1>4

LEMMA NextShape == ASSUME Shape, [SubscriptionNext]_subscriptionVars PROVE Shape'
<1>1. CASE UNCHANGED subscriptionVars
  BY <1>1 DEF subscriptionVars, Shape, BooksOK, WorkOK, ProcsOK, PreOK
<1>2. ASSUME NEW p \in Procs, Proceed(p) PROVE Shape'
  BY <1>2, ReserveShape, ApplyRemoteShape, LocalStepsShape, BooksStepsShape, WorkStepsShape,
     ProviderStepsShape DEF Proceed
<1>3. ASSUME NEW p \in Procs, Contract(p) \/ Lease(p) PROVE Shape'
  BY <1>3, ContractShape, WorkStepsShape
<1> QED BY <1>1, <1>2, <1>3, OutsideStepsShape, ProviderStepsShape DEF SubscriptionNext

LEMMA InitShape == SubscriptionInit => Shape
<1> SUFFICES ASSUME SubscriptionInit PROVE Shape
  OBVIOUS
<1>1. left \in Scene /\ inbox \in Seq(Noted) /\ queue \in Queue
  BY SubscriptionAssumption DEF SubscriptionInit, Queue
<1>2. sub \in Row
  <2> DEFINE new == NewRow
             running == [new EXCEPT !.exists = TRUE, !.reserved = TRUE, !.linked = TRUE,
                                    !.status = "authorized", !.seen = 1]
  <2>1. new \in Row /\ 1 \in 0..MaxStamp
    BY EmptyRecords, SubscriptionAssumption
  <2>2. sub = new \/ sub = running
    BY DEF SubscriptionInit
  <2> HIDE DEF new
  <2>3. running \in Row
    BY <2>1 DEF Row, RemoteStatuses
  <2> QED BY <2>1, <2>2, <2>3
<1>3. charge \in [Bills -> Bill] /\ bills \in [Bills -> Bill] /\ flight \in BOOLEAN
  BY EmptyRecords DEF SubscriptionInit
<1>4. PreOK
  BY SubscriptionAssumption DEF SubscriptionInit, PreOK, RemoteStatuses
<1>5. ProcsOK
  BY IdleOK DEF SubscriptionInit, ProcsOK
<1> QED BY <1>1, <1>2, <1>3, <1>4, <1>5 DEF Shape, BooksOK, WorkOK

\* Every row, queue entry and process keeps its type.
THEOREM SubscriptionTypeCorrect == SubscriptionSpec => []SubscriptionTypeOK
<1>1. SubscriptionSpec => []Shape
  BY InitShape, NextShape, PTL DEF SubscriptionSpec
<1> QED BY <1>1, ShapeImpliesTypeOK, PTL

-----------------------------------------------------------------------------
(* One recurrence and its end. A reservation is followed by at most one POST;  *)
(* a snapshot is never newer than what the provider has, and one that shows    *)
(* the cancellation shows the last thing that happens to the recurrence.       *)

Contacts == {"post", "answer", "get", "put", "confirm", "apply"}
At(p, pc) == proc[p].pc = pc

Reserved ==
    /\ pre.posts \in {0, 1}
    /\ pre.posts = 0 <=> pre.status = "none"
    /\ flight => pre.posts = 0
    /\ flight \/ pre.posts = 1 => sub.reserved
    /\ sub.linked => pre.posts = 1

Stops ==
    sub.cancelled =>
        /\ sub.status = "cancelled"
        /\ ~sub.reserved => sub.cancelReq
        /\ sub.reserved => pre.status = "cancelled" /\ sub.seen = pre.stamp

Knows(p) ==
    /\ At(p, "post") => /\ sub.reserved /\ ~flight /\ pre.posts = 0
                        /\ \A q \in Procs : At(q, "post") => q = p
    /\ At(p, "answer") => flight \/ pre.posts = 1
    /\ proc[p].pc \in {"get", "put", "confirm", "apply"} => pre.posts = 1
    /\ At(p, "apply") => /\ proc[p].snap.stamp <= pre.stamp
                         /\ proc[p].snap.status = "cancelled" =>
                               pre.status = "cancelled" /\ proc[p].snap.stamp = pre.stamp

OneContract == Reserved /\ Stops /\ \A p \in Procs : Knows(p)

Same(q) == proc'[q].pc = proc[q].pc /\ proc'[q].snap = proc[q].snap
Apart == \A q \in Procs : Same(q) \/ proc'[q].pc \notin Contacts
SameRow == /\ sub'.reserved = sub.reserved /\ sub'.cancelled = sub.cancelled
           /\ sub'.status = sub.status /\ sub'.seen = sub.seen /\ sub'.linked = sub.linked
           /\ sub.cancelReq => sub'.cancelReq

LEMMA QuietStep ==
  ASSUME OneContract, Apart, SameRow, UNCHANGED <<pre, flight>>
  PROVE  OneContract'
<1>1. Reserved' /\ Stops'
  BY DEF OneContract, Reserved, Stops, SameRow
<1>2. ASSUME NEW q \in Procs PROVE Knows(q)'
  <2>1. CASE proc'[q].pc \notin Contacts
    BY <2>1 DEF Knows, At, Contacts
  <2>2. CASE Same(q)
    <3>1. \A r \in Procs : proc'[r].pc = "post" => proc[r].pc = "post"
      BY DEF Apart, Same, Contacts
    <3> QED BY <2>2, <3>1 DEF OneContract, Knows, At, Same, SameRow
  <2> QED BY <2>1, <2>2 DEF Apart
<1> QED BY <1>1, <1>2 DEF OneContract

LEMMA BecomeApart ==
  ASSUME Shape, NEW p \in Procs, NEW r, Become(p, r), r.pc \notin Contacts
  PROVE  Apart
BY DEF Shape, ProcsOK, Become, Apart, Same

LEMMA GotoApart ==
  ASSUME Shape, NEW p \in Procs, NEW pc \in Steps \ Contacts, Goto(p, pc)
  PROVE  Apart
<1>1. [proc[p] EXCEPT !.pc = pc].pc = pc
  BY DEF Shape, ProcsOK, Process
<1> QED BY <1>1, BecomeApart DEF Goto

\* The steps that ask the provider nothing and leave the contract as it is.
LEMMA ApartSteps ==
  ASSUME Shape, NEW p \in Procs,
         \/ Contract(p) \/ Note(p) \/ Lease(p) \/ Pick(p) \/ ApplyBill(p) \/ Mark(p) \/ Save(p)
         \/ Release(p) \/ Write(p) \/ CallFails(p) \/ Crash(p)
  PROVE  Apart /\ SameRow /\ UNCHANGED <<pre, flight>>
<1> DEFINE i == Idle
<1>1. proc[p] \in Process /\ i \in Process /\ i.pc = "idle" /\ Filled(i)
  BY IdleOK DEF Shape, ProcsOK
<1>2. CASE Contract(p)
  <2> DEFINE click == [proc EXCEPT ![p].pc = IF sub.linked \/ sub.cancelled THEN "idle" ELSE "ensure"]
  <2>1. click \in [Procs -> Process] /\ \A q \in Procs : Filled(click[q])
    BY <1>2 DEF Shape, ProcsOK, Process, Filled, Contract
  <2>2. \A q \in Procs : /\ proc'[q].pc = click[q].pc
                         /\ proc'[q].snap = click[q].snap
    <3>1. proc' = click \/ proc' = Enqueued(click)
      BY <1>2 DEF Contract
    <3> HIDE DEF click
    <3> QED BY <2>1, <3>1, EnqueuedOK
  <2>3. \A q \in Procs \ {p} : click[q] = proc[q]
    BY DEF Shape, ProcsOK
  <2>4. click[p].pc \in {"idle", "ensure"}
    BY <1>1 DEF Shape, ProcsOK, Process
  <2>5. Apart
    BY <2>2, <2>3, <2>4 DEF Apart, Same, Contacts
  <2> QED BY <1>2, <2>5 DEF Contract, SameRow, Shape, BooksOK, Row
<1>3. CASE Note(p)
  <2> DEFINE ended == [proc EXCEPT ![p] = i]
  <2>1. ended \in [Procs -> Process] /\ \A q \in Procs : Filled(ended[q])
    BY <1>1 DEF Shape, ProcsOK
  <2>2. \A q \in Procs : proc'[q].pc = ended[q].pc /\ proc'[q].snap = ended[q].snap
    BY <1>3, <2>1, EnqueuedOK DEF Note
  <2>3. Apart
    BY <1>1, <2>2 DEF Apart, Same, Contacts, Shape, ProcsOK
  <2> QED BY <1>3, <2>3 DEF Note, SameRow
<1>4. CASE Lease(p) \/ Release(p)
  <2>1. \E r : Become(p, r) /\ r.pc \in {"read", "write"}
    <3> DEFINE read == [i EXCEPT !.pc = "read", !.job = TRUE, !.next = "release"]
               write == [i EXCEPT !.pc = "write", !.job = TRUE, !.heard = proc[p].heard]
    <3>1. Become(p, read) \/ Become(p, write)
      BY <1>4 DEF Lease, Release
    <3> HIDE DEF i
    <3>2. read.pc = "read" /\ write.pc = "write"
      BY <1>1 DEF Process
    <3> QED BY <3>1, <3>2
  <2> QED BY <1>4, <2>1, BecomeApart DEF Lease, Release, SameRow, Contacts
<1>5. CASE Pick(p)
  <2> DEFINE h == Head(inbox)
             marked == [proc[p] EXCEPT !.pc = "mark", !.item = h]
             noted == Fetched([proc[p] EXCEPT !.item = h], h.bill)
             searched == Fetched([proc[p] EXCEPT !.off = NextOffset(@)], proc[p].off + 1)
             saved == [proc[p] EXCEPT !.pc = "save", !.off = 0]
  <2>1. Become(p, marked) \/ Become(p, noted) \/ Become(p, searched) \/ Become(p, saved)
    BY <1>5 DEF Pick
  <2>2. {marked.pc, noted.pc, searched.pc, saved.pc} \cap Contacts = {}
    BY <1>1 DEF Process, Fetched, Contacts
  <2> HIDE DEF marked, noted, searched, saved
  <2>3. Apart
    BY <2>1, <2>2, BecomeApart
  <2> QED BY <1>5, <2>3 DEF Pick, SameRow
<1>6. CASE ApplyBill(p)
  <2> DEFINE next == IF proc[p].item = None THEN "save" ELSE "mark"
             r == [proc[p] EXCEPT !.pc = next, !.bill = 0, !.found = NoBill]
  <2>1. Become(p, r)
    BY <1>6 DEF ApplyBill
  <2>2. r.pc = next /\ next \notin Contacts
    BY <1>1 DEF Process, Contacts
  <2>3. Apart
    BY <2>1, <2>2, BecomeApart
  <2>4. SameRow
    BY <1>6, <1>1 DEF ApplyBill, WithCharge, SameRow, Shape, BooksOK, Row
  <2> QED BY <1>6, <2>3, <2>4 DEF ApplyBill
<1>7. CASE Mark(p)
  <2> DEFINE r == [proc[p] EXCEPT !.pc = "release", !.item = None]
  <2>1. Become(p, r) /\ r.pc = "release"
    BY <1>1, <1>7 DEF Mark, Process
  <2> QED BY <1>7, <2>1, BecomeApart DEF Mark, SameRow, Contacts
<1>8. CASE Save(p)
  <2>1. SameRow
    BY <1>8 DEF Save, SameRow, Shape, BooksOK, Row
  <2> QED BY <1>8, <2>1, GotoApart DEF Save, Contacts, Steps
<1>9. CASE Write(p) \/ Crash(p)
  BY <1>1, <1>9, BecomeApart DEF Write, Crash, SameRow, Contacts
<1>10. CASE CallFails(p)
  BY <1>10, EndedOK, BecomeApart DEF CallFails, SameRow, Contacts
<1> QED BY <1>2, <1>3, <1>4, <1>5, <1>6, <1>7, <1>8, <1>9, <1>10

\* The steps that look at a recurrence the provider has, or change it there.
LEMMA ContactStep ==
  ASSUME OneContract, SameRow, flight' = flight, pre.posts = 1, pre'.posts = 1, pre'.status # "none",
         pre' = pre \/ (pre.status # "cancelled" /\ pre.stamp <= pre'.stamp),
         Shape, Shape',
         \A q \in Procs : \/ Same(q)
                          \/ proc'[q].pc \in {"get", "put", "confirm"}
                          \/ /\ proc'[q].pc = "apply"
                             /\ proc'[q].snap = [status |-> pre'.status, stamp |-> pre'.stamp]
  PROVE  OneContract'
<1>1. Reserved'
  BY DEF OneContract, Reserved, SameRow
<1>2. Stops'
  BY DEF OneContract, Reserved, Stops, SameRow
<1>3. ASSUME NEW q \in Procs PROVE Knows(q)'
  <2>1. pre.stamp \in Nat /\ pre'.stamp \in Nat /\ proc[q].snap.stamp \in Nat
    BY DEF Shape, PreOK, ProcsOK, Process, Snapshot
  <2>2. \A r \in Procs : proc[r].pc # "post"
    BY DEF OneContract, Knows, At
  <2>3. CASE Same(q)
    BY <2>1, <2>2, <2>3 DEF OneContract, Knows, At, Same
  <2>4. CASE proc'[q].pc \in {"get", "put", "confirm"}
    BY <2>4 DEF Knows, At
  <2>5. CASE proc'[q].pc = "apply" /\ proc'[q].snap = [status |-> pre'.status, stamp |-> pre'.stamp]
    BY <2>1, <2>5 DEF Knows, At
  <2> QED BY <2>3, <2>4, <2>5
<1> QED BY <1>1, <1>2, <1>3 DEF OneContract

LEMMA BecomeOne ==
  ASSUME Shape, NEW p \in Procs, NEW r, Become(p, r)
  PROVE  proc'[p] = r /\ \A q \in Procs \ {p} : proc'[q] = proc[q] /\ Same(q)
BY DEF Shape, ProcsOK, Become, Same

LEMMA ReserveOnce ==
  ASSUME Shape, OneContract, NEW p \in Procs, Reserve(p)
  PROVE  OneContract'
<1>1. proc[p] \in Process /\ Filled(proc[p]) /\ sub \in Row /\ UNCHANGED <<pre, flight>>
  BY DEF Shape, ProcsOK, BooksOK, Reserve
<1>2. CASE EndsUncreated /\ sub' = [sub EXCEPT !.cancelled = TRUE, !.status = "cancelled"] /\ Goto(p, proc[p].next)
  <2>1. Apart
    BY <1>1, <1>2, GotoApart DEF Process, Filled, Steps, Contacts, Reserve
  <2>2. /\ sub'.cancelled /\ sub'.status = "cancelled" /\ sub'.cancelReq /\ ~sub'.reserved
        /\ sub'.linked = sub.linked
    BY <1>1, <1>2 DEF EndsUncreated, Row
  <2>3. ~flight /\ pre.posts = 0 /\ Reserved' /\ Stops'
    BY <1>1, <1>2, <2>2 DEF OneContract, Reserved, Stops, EndsUncreated
  <2>4. ASSUME NEW q \in Procs PROVE Knows(q)'
    BY <1>1, <1>2, <2>1, <2>3 DEF OneContract, Knows, At, Apart, Same, Contacts, EndsUncreated
  <2> QED BY <2>3, <2>4 DEF OneContract
<1>3. CASE ~EndsUncreated /\ MayCreate /\ sub' = [sub EXCEPT !.reserved = TRUE] /\ Goto(p, "post")
  <2>1. proc'[p].pc = "post" /\ \A q \in Procs \ {p} : Same(q)
    BY <1>1, <1>3, BecomeOne DEF Goto, Process
  <2>2. /\ sub'.reserved /\ sub'.cancelled = sub.cancelled /\ sub'.linked = sub.linked
        /\ sub'.cancelReq = sub.cancelReq
    BY <1>1, <1>3 DEF Row
  <2>3. ~sub.reserved /\ ~flight /\ pre.posts = 0 /\ ~sub.cancelled
    BY <1>3 DEF MayCreate, EndsUncreated, OneContract, Reserved, Stops
  <2>4. Reserved' /\ Stops'
    BY <1>1, <2>2, <2>3 DEF OneContract, Reserved, Stops
  <2>5. ASSUME NEW q \in Procs PROVE Knows(q)'
    BY <1>1, <2>1, <2>2, <2>3 DEF OneContract, Knows, At, Same
  <2> QED BY <2>4, <2>5 DEF OneContract
<1>4. CASE sub' = sub /\ Goto(p, "search")
  <2>1. Apart
    BY <1>4, GotoApart DEF Steps, Contacts
  <2> QED BY <1>1, <1>4, <2>1, QuietStep DEF SameRow
<1> QED BY <1>2, <1>3, <1>4 DEF Reserve

LEMMA PostOnce ==
  ASSUME Shape, OneContract, NEW p \in Procs, Post(p)
  PROVE  OneContract'
<1>1. proc'[p].pc = "answer" /\ \A q \in Procs \ {p} : Same(q)
  BY BecomeOne DEF Post, Goto, Shape, ProcsOK, Process
<1>2. sub.reserved /\ ~flight /\ pre.posts = 0 /\ \A q \in Procs \ {p} : proc[q].pc # "post"
  BY DEF Post, OneContract, Knows, At
<1>3. flight' = TRUE /\ UNCHANGED <<sub, pre>>
  BY DEF Post
<1>4. Reserved' /\ Stops'
  BY <1>2, <1>3 DEF OneContract, Reserved, Stops
<1>5. ASSUME NEW q \in Procs PROVE Knows(q)'
  BY <1>1, <1>2, <1>3 DEF OneContract, Knows, At, Same
<1> QED BY <1>4, <1>5 DEF OneContract

LEMMA ArrivesOnce ==
  ASSUME Shape, OneContract, Arrives
  PROVE  OneContract'
<1>1. /\ flight /\ ~flight' /\ UNCHANGED <<sub, proc>> /\ pre.posts = 0 /\ pre.status = "none"
      /\ pre'.status = "pending" /\ pre'.posts = 1
  BY DEF Arrives, OneContract, Reserved
<1>2. sub.reserved /\ ~sub.cancelled /\ ~sub.linked
  BY <1>1 DEF OneContract, Reserved, Stops
<1>3. Reserved' /\ Stops'
  BY <1>1, <1>2 DEF Reserved, Stops
<1>4. ASSUME NEW q \in Procs PROVE Knows(q)'
  BY <1>1 DEF OneContract, Knows, At
<1> QED BY <1>3, <1>4 DEF OneContract

LEMMA AppliedOnce ==
  ASSUME Shape, OneContract, NEW p \in Procs, ApplyRemote(p)
  PROVE  OneContract'
<1> DEFINE snap == proc[p].snap
<1>1. /\ proc[p] \in Process /\ Filled(proc[p]) /\ sub \in Row /\ UNCHANGED <<pre, flight>>
      /\ pre.posts = 1 /\ sub.reserved
      /\ snap.stamp <= pre.stamp /\ snap.stamp \in Nat /\ pre.stamp \in Nat /\ sub.seen \in Nat
      /\ snap.status = "cancelled" => pre.status = "cancelled" /\ snap.stamp = pre.stamp
  BY DEF ApplyRemote, Shape, ProcsOK, BooksOK, PreOK, Row, Process, Snapshot, OneContract, Knows, At, Reserved
<1>2. Apart
  <2>1. CASE proc[p].next = "idle"
    BY <2>1, IdleOK, BecomeApart DEF ApplyRemote, Contacts
  <2>2. CASE proc[p].next # "idle"
    <3> DEFINE r == [proc[p] EXCEPT !.pc = proc[p].next, !.snap = NoSnapshot]
    <3>1. Become(p, r) /\ r.pc \notin Contacts
      BY <1>1, <2>2 DEF ApplyRemote, Process, Contacts
    <3> QED BY <3>1, BecomeApart
  <2> QED BY <2>1, <2>2
<1>3. CASE IsStale(snap)
  BY <1>1, <1>2, <1>3, QuietStep DEF ApplyRemote, WithRemote, SameRow
<1>4. CASE ~IsStale(snap)
  <2>1. /\ sub'.reserved /\ sub'.linked /\ sub'.status = snap.status /\ sub'.seen = snap.stamp
        /\ sub'.cancelled = (sub.cancelled \/ snap.status = "cancelled")
    BY <1>1, <1>4 DEF ApplyRemote, WithRemote, Row
  <2>2. sub.cancelled => sub.seen = pre.stamp
    BY <1>1 DEF OneContract, Stops
  <2>3. ~sub.cancelled
    BY <1>1, <1>4, <2>2 DEF IsStale
  <2>4. Reserved' /\ Stops'
    BY <1>1, <2>1, <2>3 DEF OneContract, Reserved, Stops
  <2>5. ASSUME NEW q \in Procs PROVE Knows(q)'
    <3>1. CASE proc'[q].pc \notin Contacts
      BY <3>1 DEF Knows, At, Contacts
    <3>2. CASE Same(q)
      BY <1>1, <3>2 DEF OneContract, Knows, At, Same
    <3> QED BY <1>2, <3>1, <3>2 DEF Apart
  <2> QED BY <2>4, <2>5 DEF OneContract
<1> QED BY <1>3, <1>4

\* The steps of a process that call the provider, or turn to such a call.
LEMMA CallsOnce ==
  ASSUME Shape, Shape', OneContract, NEW p \in Procs,
         Answer(p) \/ Recover(p) \/ Read(p) \/ Get(p) \/ Put(p) \/ Confirm(p)
  PROVE  OneContract'
<1> DEFINE now == [status |-> pre.status, stamp |-> pre.stamp]
           taken == [proc[p] EXCEPT !.pc = "apply", !.snap = now]
<1>1. proc[p] \in Process /\ UNCHANGED <<sub, flight>>
  BY DEF Shape, ProcsOK, Answer, Recover, Read, Get, Put, Confirm
<1>2. taken.pc = "apply" /\ taken.snap = now
  BY <1>1 DEF Process
<1>3. CASE Answer(p) \/ Confirm(p) \/ (Recover(p) /\ pre.posts = 1)
  <2>1. Become(p, taken) /\ pre.posts = 1 /\ pre' = pre
    BY <1>3 DEF Answer, Confirm, Recover, OneContract, Knows, At
  <2>2. pre.status # "none"
    BY <2>1 DEF OneContract, Reserved
  <2> HIDE DEF taken
  <2>3. proc'[p].pc = "apply" /\ proc'[p].snap = now /\ \A q \in Procs \ {p} : Same(q)
    BY <1>2, <2>1, BecomeOne
  <2> QED BY <1>1, <2>1, <2>2, <2>3, ContactStep DEF SameRow
<1>4. CASE Recover(p) /\ pre.posts # 1
  <2>1. Apart
    BY <1>4, EndedOK, BecomeApart DEF Recover, Contacts
  <2> QED BY <1>1, <1>4, <2>1, QuietStep DEF Recover, SameRow
<1>5. CASE Read(p)
  <2> DEFINE get == [proc[p] EXCEPT !.pc = "get", !.asked = sub.cancelReq, !.off = sub.offset]
  <2>1. CASE sub.linked
    <3>1. Become(p, get) /\ get.pc = "get"
      BY <1>1, <1>5, <2>1 DEF Read, Process
    <3> HIDE DEF get
    <3>2. pre.posts = 1 /\ pre.status # "none" /\ pre' = pre
      BY <1>5, <2>1 DEF Read, OneContract, Reserved
    <3>3. proc'[p].pc = "get" /\ \A q \in Procs \ {p} : Same(q)
      BY <3>1, BecomeOne
    <3> QED BY <1>1, <3>2, <3>3, ContactStep DEF SameRow
  <2>2. CASE ~sub.linked
    <3>1. Become(p, [proc[p] EXCEPT !.pc = "release"]) \/ Become(p, [proc[p] EXCEPT !.pc = "ensure"])
      BY <1>5, <2>2 DEF Read
    <3>2. Apart
      BY <3>1, GotoApart DEF Goto, Steps, Contacts
    <3> QED BY <1>1, <1>5, <3>2, QuietStep DEF Read, SameRow
  <2> QED BY <2>1, <2>2
<1>6. CASE Get(p)
  <2> DEFINE put == [proc[p] EXCEPT !.pc = "put"]
             apply == [proc[p] EXCEPT !.pc = "apply", !.next = "pick", !.snap = now]
  <2>1. Become(p, put) \/ Become(p, apply)
    BY <1>6 DEF Get
  <2>2. put.pc = "put" /\ apply.pc = "apply" /\ apply.snap = now
    BY <1>1 DEF Process
  <2>3. pre.posts = 1 /\ pre.status # "none" /\ pre' = pre
    BY <1>6 DEF Get, OneContract, Reserved, Knows
  <2> HIDE DEF put, apply
  <2>4. /\ proc'[p].pc = "put" \/ (proc'[p].pc = "apply" /\ proc'[p].snap = now)
        /\ \A q \in Procs \ {p} : Same(q)
    BY <2>1, <2>2, BecomeOne
  <2> QED BY <1>1, <2>3, <2>4, ContactStep DEF SameRow
<1>7. CASE Put(p)
  <2>1. proc'[p].pc = "confirm" /\ \A q \in Procs \ {p} : Same(q)
    BY <1>1, <1>7, BecomeOne DEF Put, Goto, Process
  <2>2. pre.posts = 1 /\ pre.status # "none"
    BY <1>7 DEF Put, OneContract, Reserved, Knows
  <2>3. pre' = pre \/ (pre.status # "cancelled" /\ pre.stamp <= pre'.stamp)
    <3>1. pre' = pre \/ (pre.status # "cancelled" /\ \E stamp \in SameOrLater : Stopped(stamp))
      BY <1>7 DEF Put
    <3>2. ASSUME NEW stamp \in SameOrLater, Stopped(stamp) PROVE pre.stamp <= pre'.stamp
      <4>1. pre.stamp <= stamp
        BY DEF SameOrLater, Shape, PreOK
      <4>2. pre'.stamp = stamp
        BY <3>2 DEF Stopped, Shape, PreOK
      <4> QED BY <4>1, <4>2
    <3> QED BY <3>1, <3>2
  <2>4. pre'.posts = 1 /\ pre'.status # "none"
    BY <1>7, <2>2 DEF Put, Stopped, Shape, PreOK
  <2> QED BY <1>1, <2>1, <2>2, <2>3, <2>4, ContactStep DEF SameRow
<1> QED BY <1>3, <1>4, <1>5, <1>6, <1>7

LEMMA OutsideOnce ==
  ASSUME Shape, Shape', OneContract,
         \/ RequestCancellation \/ Authorize \/ PayerCancels
         \/ \E p \in Procs, note \in Notified : Webhook(p, note)
  PROVE  OneContract'
<1>1. CASE RequestCancellation
  <2>1. Apart
    BY <1>1, EnqueuedOK DEF RequestCancellation, Shape, ProcsOK, Apart, Same
  <2>2. SameRow /\ UNCHANGED <<pre, flight>>
    BY <1>1 DEF RequestCancellation, SameRow, Shape, BooksOK, Row
  <2> QED BY <2>1, <2>2, QuietStep
<1>2. CASE Authorize
  <2>1. pre.posts = 1 /\ pre'.posts = 1 /\ pre'.status # "none" /\ pre.status # "cancelled"
    BY <1>2 DEF Authorize, OneContract, Reserved, Shape, PreOK
  <2>2. pre.stamp <= pre'.stamp
    BY <1>2 DEF Authorize, Shape, PreOK
  <2> QED BY <1>2, <2>1, <2>2, ContactStep DEF Authorize, SameRow, Same
<1>3. CASE PayerCancels
  <2>1. PICK stamp \in SameOrLater : Stopped(stamp)
    BY <1>3 DEF PayerCancels
  <2>2. pre'.status = "cancelled" /\ pre'.posts = pre.posts /\ pre'.stamp = stamp /\ pre.stamp <= stamp
    BY <2>1 DEF Stopped, SameOrLater, Shape, PreOK
  <2>3. pre.posts = 1 /\ pre.status # "cancelled"
    BY <1>3 DEF PayerCancels, OneContract, Reserved
  <2> QED BY <1>3, <2>2, <2>3, ContactStep DEF PayerCancels, SameRow, Same
<1>4. ASSUME NEW p \in Procs, NEW note \in Notified, Webhook(p, note)
      PROVE  OneContract'
  <2> DEFINE i == Idle
             now == [status |-> pre.status, stamp |-> pre.stamp]
             r == [i EXCEPT !.pc = "apply", !.next = "note", !.item = note, !.snap = now]
  <2>1. Become(p, r) /\ i \in Process /\ UNCHANGED <<sub, pre, flight>>
    BY <1>4, IdleOK DEF Webhook
  <2>2. pre.posts = 1 /\ pre.status # "none"
    <3>1. pre.posts > 0
      BY <1>4 DEF Webhook
    <3> QED BY <3>1 DEF OneContract, Reserved
  <2> HIDE DEF i
  <2>3. r.pc = "apply" /\ r.snap = now
    BY <2>1 DEF Process
  <2> HIDE DEF r
  <2>4. proc'[p].pc = "apply" /\ proc'[p].snap = now /\ \A q \in Procs \ {p} : Same(q)
    BY <2>1, <2>3, BecomeOne
  <2> QED BY <2>1, <2>2, <2>4, ContactStep DEF SameRow
<1> QED BY <1>1, <1>2, <1>3, <1>4

LEMMA NextOnce ==
  ASSUME Shape, Shape', OneContract, [SubscriptionNext]_subscriptionVars
  PROVE  OneContract'
<1>1. ASSUME UNCHANGED <<sub, proc, pre, flight>> PROVE OneContract'
  BY <1>1, QuietStep DEF Apart, Same, SameRow
<1>2. ASSUME NEW p \in Procs, Proceed(p) PROVE OneContract'
  BY <1>2, ReserveOnce, PostOnce, AppliedOnce, CallsOnce, ApartSteps, QuietStep DEF Proceed
<1>3. ASSUME NEW p \in Procs, Contract(p) \/ Lease(p) \/ CallFails(p) \/ Crash(p) PROVE OneContract'
  BY <1>3, ApartSteps, QuietStep
<1>4. CASE LeaseExpires \/ TimePasses \/ UNCHANGED subscriptionVars
  BY <1>1, <1>4 DEF LeaseExpires, TimePasses, subscriptionVars
<1>5. ASSUME NEW i \in Bills, NEW stamp, Issue(i, stamp) PROVE OneContract'
  BY <1>1, <1>5 DEF Issue
<1>6. ASSUME NEW i \in Bills, NEW stamp, NEW status, Settle(i, status, stamp) PROVE OneContract'
  BY <1>1, <1>6 DEF Settle
<1>7. ASSUME NEW i \in Bills, Refund(i) PROVE OneContract'
  BY <1>1, <1>7 DEF Refund
<1> QED BY <1>2, <1>3, <1>4, <1>5, <1>6, <1>7, ArrivesOnce, OutsideOnce DEF SubscriptionNext

LEMMA InitOnce == SubscriptionInit => OneContract
<1> SUFFICES ASSUME SubscriptionInit PROVE OneContract
  OBVIOUS
<1>1. ~flight /\ \A p \in Procs : proc[p].pc = "idle"
  BY IdleOK DEF SubscriptionInit
<1>2. /\ ~sub.cancelled
      /\ \/ pre.posts = 0 /\ pre.status = "none" /\ ~sub.linked
         \/ pre.posts = 1 /\ pre.status # "none" /\ sub.reserved
  BY DEF SubscriptionInit, NewRow
<1> QED BY <1>1, <1>2 DEF OneContract, Reserved, Stops, Knows, At

LEMMA AlwaysOnce == SubscriptionSpec => [](Shape /\ OneContract)
<1>1. Shape /\ OneContract /\ [SubscriptionNext]_subscriptionVars => (Shape /\ OneContract)'
  BY NextShape, NextOnce
<1> QED BY <1>1, InitShape, InitOnce, PTL DEF SubscriptionSpec

\* However often the owner clicks, an answer is lost or a process dies, at most
\* one recurrence is asked of the provider (ensureCreated reserves the attempt).
THEOREM RecurrenceOnce == SubscriptionSpec => []OneRecurrence
<1>1. OneContract => OneRecurrence
  BY DEF OneContract, Reserved, OneRecurrence
<1> QED BY <1>1, AlwaysOnce, PTL

\* A contract shown as cancelled has no recurrence left that could charge
\* (ensureCreated, applyRemoteSubscription and stopRenewal).
THEOREM CancelledCannotCharge == SubscriptionSpec => []CancelledIsSilent
<1>1. OneContract => CancelledIsSilent
  BY DEF OneContract, Reserved, Stops, CancelledIsSilent
<1> QED BY <1>1, AlwaysOnce, PTL

\* No snapshot, however late or often it is applied, revives a cancelled
\* contract (the timestamps applyRemoteSubscription compares).
THEOREM CancelledForGood == SubscriptionSpec => NeverRevived
<1>1. Shape /\ OneContract /\ Shape' /\ OneContract' /\ [SubscriptionNext]_subscriptionVars
        => [sub.cancelled => sub'.cancelled /\ sub'.status = "cancelled"]_subscriptionVars
  <2> SUFFICES ASSUME Shape, OneContract, OneContract', [SubscriptionNext]_subscriptionVars, sub.cancelled
               PROVE  sub'.cancelled /\ sub'.status = "cancelled"
    OBVIOUS
  <2>1. ASSUME NEW p \in Procs, Contract(p) \/ Lease(p) \/ Proceed(p) \/ CallFails(p) \/ Crash(p)
        PROVE  sub'.cancelled
    <3>1. CASE Reserve(p) \/ ApplyRemote(p)
      BY <3>1 DEF Reserve, ApplyRemote, WithRemote, Shape, BooksOK, Row
    <3>2. CASE Post(p) \/ Answer(p) \/ Recover(p) \/ Read(p) \/ Get(p) \/ Put(p) \/ Confirm(p)
      BY <3>2 DEF Post, Answer, Recover, Read, Get, Put, Confirm
    <3> QED BY <2>1, <3>1, <3>2, ApartSteps DEF Proceed, SameRow
  <2>2. ASSUME RequestCancellation PROVE sub'.cancelled
    BY <2>2 DEF RequestCancellation, Shape, BooksOK, Row
  <2>3. ASSUME \/ LeaseExpires \/ TimePasses \/ Arrives \/ Authorize \/ PayerCancels \/ UNCHANGED subscriptionVars
               \/ \E p \in Procs, note \in Notified : Webhook(p, note)
               \/ \E i \in Bills, stamp \in 1..(MaxStamp - 1) :
                     Issue(i, stamp) \/ (\E status \in {"approved", "rejected"} : Settle(i, status, stamp))
               \/ \E i \in Bills : Refund(i)
        PROVE  sub'.cancelled
    BY <2>3 DEF LeaseExpires, TimePasses, Arrives, Authorize, PayerCancels, Webhook, Issue, Settle, Refund,
                subscriptionVars
  <2>4. sub'.cancelled
    BY <2>1, <2>2, <2>3 DEF SubscriptionNext
  <2> QED BY <2>4 DEF OneContract, Stops
<1> QED BY <1>1, AlwaysOnce, PTL DEF SubscriptionSpec, NeverRevived

-----------------------------------------------------------------------------
(* Payments and the paid period. A refund is the last thing dated, and only a  *)
(* refund follows an approval.                                                 *)

Final(r) == r.status = "refunded" => r.stamp = MaxStamp
Books ==
    /\ sub.delinquent # 0 => sub.paid < sub.delinquent
    /\ \A i \in Bills : Final(charge[i]) /\ Final(bills[i])
    /\ \A p \in Procs : Final(proc[p].found)

LEMMA PaidAhead ==
  ASSUME sub \in Row, DelinquentIsUnpaid, NEW i \in Bills, NEW now
  PROVE  LET row == WithCharge(i, now) IN row.delinquent # 0 => row.paid < row.delinquent
BY SubscriptionAssumption DEF WithCharge, DelinquentIsUnpaid, Row, Bills

FoundKept == \A q \in Procs : \/ proc'[q].found \in {proc[q].found, NoBill}
                              \/ \E i \in Bills : proc'[q].found = bills[i]

LEMMA BecomeFound ==
  ASSUME Shape, NEW p \in Procs, NEW r, Become(p, r),
         r.found \in {proc[p].found, NoBill} \/ \E i \in Bills : r.found = bills[i]
  PROVE  FoundKept
BY DEF Shape, ProcsOK, Become, FoundKept

\* Whatever a process finds is an invoice as the provider has it.
LEMMA FoundSteps ==
  ASSUME Shape, [SubscriptionNext]_subscriptionVars
  PROVE  FoundKept
<1> DEFINE i == Idle
<1>1. i \in Process /\ i.found = NoBill
  BY IdleOK DEF Idle
<1>2. ASSUME UNCHANGED proc PROVE FoundKept
  BY <1>2 DEF FoundKept
<1>3. ASSUME NEW p \in Procs, NEW r, Become(p, r), r.found = proc[p].found PROVE FoundKept
  BY <1>3, BecomeFound
<1>4. ASSUME NEW p \in Procs, NEW r, Become(p, r), r.found = NoBill PROVE FoundKept
  BY <1>4, BecomeFound
<1>5. ASSUME NEW p \in Procs, Contract(p) PROVE FoundKept
  <2> DEFINE click == [proc EXCEPT ![p].pc = IF sub.linked \/ sub.cancelled THEN "idle" ELSE "ensure"]
  <2>1. click \in [Procs -> Process] /\ \A q \in Procs : Filled(click[q])
    BY <1>5 DEF Shape, ProcsOK, Process, Filled, Contract
  <2>2. \A q \in Procs : click[q].found = proc[q].found
    BY DEF Shape, ProcsOK, Process
  <2>3. proc' = click \/ proc' = Enqueued(click)
    BY <1>5 DEF Contract
  <2> HIDE DEF click
  <2> QED BY <2>1, <2>2, <2>3, EnqueuedOK DEF FoundKept
<1>6. ASSUME NEW p \in Procs, Note(p) PROVE FoundKept
  <2> DEFINE ended == [proc EXCEPT ![p] = i]
  <2>1. ended \in [Procs -> Process] /\ \A q \in Procs : Filled(ended[q])
    BY IdleOK DEF Shape, ProcsOK
  <2>2. \A q \in Procs : ended[q].found \in {proc[q].found, NoBill}
    BY <1>1 DEF Shape, ProcsOK
  <2>3. proc' = Enqueued(ended)
    BY <1>6 DEF Note
  <2> HIDE DEF ended
  <2> QED BY <2>1, <2>2, <2>3, EnqueuedOK DEF FoundKept
<1>7. CASE RequestCancellation
  BY <1>7, EnqueuedOK DEF RequestCancellation, Shape, ProcsOK, FoundKept
<1>8. ASSUME NEW p \in Procs, NEW note \in Notified, Webhook(p, note) PROVE FoundKept
  <2> DEFINE now == [status |-> pre.status, stamp |-> pre.stamp]
             r == [i EXCEPT !.pc = "apply", !.next = "note", !.item = note, !.snap = now]
  <2>1. Become(p, r)
    BY <1>8 DEF Webhook
  <2> HIDE DEF i
  <2>2. r.found = NoBill
    BY <1>1 DEF Process
  <2> QED BY <1>4, <2>1, <2>2
<1>9. ASSUME NEW p \in Procs, Lease(p) \/ Release(p) \/ Write(p) \/ Crash(p) PROVE FoundKept
  <2> DEFINE read == [i EXCEPT !.pc = "read", !.job = TRUE, !.next = "release"]
             write == [i EXCEPT !.pc = "write", !.job = TRUE, !.heard = proc[p].heard]
  <2>1. Become(p, read) \/ Become(p, write) \/ Become(p, i)
    BY <1>9 DEF Lease, Release, Write, Crash
  <2> HIDE DEF i
  <2>2. read.found = NoBill /\ write.found = NoBill
    BY <1>1 DEF Process
  <2> HIDE DEF read, write
  <2> QED BY <1>1, <1>4, <2>1, <2>2
<1>10. ASSUME NEW p \in Procs, Become(p, Ended(p)) PROVE FoundKept
  <2> DEFINE r == [i EXCEPT !.pc = "release", !.job = TRUE, !.heard = proc[p].heard]
  <2>1. Become(p, r) \/ Become(p, i)
    BY <1>10 DEF Ended
  <2> HIDE DEF i
  <2>2. r.found = NoBill
    BY <1>1 DEF Process
  <2> HIDE DEF r
  <2> QED BY <1>1, <1>4, <2>1, <2>2
<1>11. ASSUME NEW p \in Procs, NEW pc, Goto(p, pc) PROVE FoundKept
  <2>1. [proc[p] EXCEPT !.pc = pc].found = proc[p].found
    BY DEF Shape, ProcsOK, Process
  <2> QED BY <1>3, <1>11, <2>1 DEF Goto
<1>12. ASSUME NEW p \in Procs, Reserve(p) \/ Post(p) \/ Put(p) \/ Save(p) PROVE FoundKept
  BY <1>11, <1>12 DEF Reserve, Post, Put, Save
<1>13. ASSUME NEW p \in Procs, Answer(p) \/ Recover(p) \/ Confirm(p) \/ Get(p) \/ Read(p) \/ ApplyRemote(p) \/ Mark(p)
       PROVE  FoundKept
  <2> DEFINE now == [status |-> pre.status, stamp |-> pre.stamp]
             a == [proc[p] EXCEPT !.pc = "apply", !.snap = now]
             b == [proc[p] EXCEPT !.pc = "apply", !.next = "pick", !.snap = now]
             c == [proc[p] EXCEPT !.pc = "get", !.asked = sub.cancelReq, !.off = sub.offset]
             d == [proc[p] EXCEPT !.pc = proc[p].next, !.snap = NoSnapshot]
             e == [proc[p] EXCEPT !.pc = "release", !.item = None]
  <2>1. \A r \in {a, b, c, d, e} : r.found = proc[p].found
    BY DEF Shape, ProcsOK, Process
  <2>2. \/ Become(p, Ended(p)) \/ Become(p, i) \/ \E r \in {a, b, c, d, e} : Become(p, r)
        \/ \E pc : Goto(p, pc)
    BY <1>13 DEF Answer, Recover, Confirm, Get, Read, ApplyRemote, Mark, Goto
  <2> HIDE DEF a, b, c, d, e
  <2> QED BY <1>1, <1>3, <1>4, <1>10, <1>11, <2>1, <2>2
<1>14. ASSUME NEW p \in Procs, ApplyBill(p) PROVE FoundKept
  <2> DEFINE r == [proc[p] EXCEPT !.pc = IF proc[p].item = None THEN "save" ELSE "mark", !.bill = 0, !.found = NoBill]
  <2>1. Become(p, r) /\ r.found = NoBill
    BY <1>14 DEF ApplyBill, Shape, ProcsOK, Process
  <2> HIDE DEF r
  <2> QED BY <1>4, <2>1
<1>15. ASSUME NEW p \in Procs, Pick(p) PROVE FoundKept
  <2> DEFINE h == Head(inbox)
             marked == [proc[p] EXCEPT !.pc = "mark", !.item = h]
             noted == Fetched([proc[p] EXCEPT !.item = h], h.bill)
             searched == Fetched([proc[p] EXCEPT !.off = NextOffset(@)], proc[p].off + 1)
             saved == [proc[p] EXCEPT !.pc = "save", !.off = 0]
  <2>1. \/ Become(p, marked) \/ Become(p, saved)
        \/ inbox # <<>> /\ h.topic # "preapproval" /\ Become(p, noted)
        \/ proc[p].off < Issued /\ Become(p, searched)
    BY <1>15 DEF Pick, Known
  <2>2. /\ marked.found = proc[p].found /\ saved.found = proc[p].found
        /\ noted.found = bills[h.bill] /\ searched.found = bills[proc[p].off + 1]
    BY DEF Shape, ProcsOK, Process, Fetched
  <2>3. inbox # <<>> /\ h.topic # "preapproval" => h.bill \in Bills
    BY DEF Shape, WorkOK, Noted
  <2>4. proc[p].off < Issued => proc[p].off + 1 \in Bills
    BY IssuedOK, SubscriptionAssumption DEF Bills, Shape, ProcsOK, Process
  <2> HIDE DEF h, marked, noted, searched, saved
  <2> QED BY <2>1, <2>2, <2>3, <2>4, BecomeFound
<1>16. ASSUME NEW p \in Procs, Proceed(p) PROVE FoundKept
  BY <1>6, <1>9, <1>12, <1>13, <1>14, <1>15, <1>16 DEF Proceed
<1>17. ASSUME NEW p \in Procs, CallFails(p) PROVE FoundKept
  BY <1>10, <1>17 DEF CallFails
<1>18. ASSUME NEW j \in Bills, NEW stamp, NEW status,
              Issue(j, stamp) \/ Settle(j, status, stamp) \/ Refund(j)
       PROVE  FoundKept
  BY <1>2, <1>18 DEF Issue, Settle, Refund
<1>19. CASE LeaseExpires \/ TimePasses \/ Arrives \/ Authorize \/ PayerCancels \/ UNCHANGED subscriptionVars
  BY <1>2, <1>19 DEF LeaseExpires, TimePasses, Arrives, Authorize, PayerCancels, subscriptionVars
<1> QED BY <1>5, <1>7, <1>8, <1>9, <1>16, <1>17, <1>18, <1>19 DEF SubscriptionNext

\* Only applyInvoice changes the charges and what is paid.
LEMMA BooksSteps ==
  ASSUME Shape, [SubscriptionNext]_subscriptionVars
  PROVE  \/ charge' = charge /\ sub'.paid = sub.paid /\ sub'.delinquent = sub.delinquent
         \/ \E p \in Procs : ApplyBill(p)
<1> DEFINE Kept == charge' = charge /\ sub'.paid = sub.paid /\ sub'.delinquent = sub.delinquent
<1>1. ASSUME NEW p \in Procs, Contract(p) \/ Reserve(p) \/ ApplyRemote(p) \/ Save(p) PROVE Kept
  BY <1>1 DEF Contract, Reserve, ApplyRemote, WithRemote, Save, Shape, BooksOK, Row
<1>2. CASE RequestCancellation
  BY <1>2 DEF RequestCancellation, Shape, BooksOK, Row
<1>3. ASSUME NEW p \in Procs,
             \/ Lease(p) \/ CallFails(p) \/ Crash(p) \/ Post(p) \/ Answer(p) \/ Recover(p) \/ Note(p)
             \/ Read(p) \/ Get(p) \/ Put(p) \/ Confirm(p) \/ Pick(p) \/ Mark(p) \/ Release(p) \/ Write(p)
             \/ \E note \in Notified : Webhook(p, note)
      PROVE  Kept
  BY <1>3 DEF Lease, CallFails, Crash, Post, Answer, Recover, Note, Read, Get, Put, Confirm, Pick, Mark,
              Release, Write, Webhook
<1>4. ASSUME NEW i \in Bills, NEW stamp, NEW status,
             Issue(i, stamp) \/ Settle(i, status, stamp) \/ Refund(i)
      PROVE  Kept
  BY <1>4 DEF Issue, Settle, Refund
<1>5. CASE LeaseExpires \/ TimePasses \/ Arrives \/ Authorize \/ PayerCancels \/ UNCHANGED subscriptionVars
  BY <1>5 DEF LeaseExpires, TimePasses, Arrives, Authorize, PayerCancels, subscriptionVars
<1> QED BY <1>1, <1>2, <1>3, <1>4, <1>5 DEF SubscriptionNext, Proceed

\* The provider dates a refund last.
LEMMA BillsFinal ==
  ASSUME Shape, \A i \in Bills : Final(bills[i]), [SubscriptionNext]_subscriptionVars
  PROVE  \A i \in Bills : Final(bills'[i])
<1> DEFINE Kept == \A i \in Bills : Final(bills'[i])
<1>1. ASSUME bills' = bills PROVE Kept
  BY <1>1
<1>2. ASSUME NEW i \in Bills, NEW stamp, Issue(i, stamp) PROVE Kept
  BY <1>2 DEF Issue, Final, Shape
<1>3. ASSUME NEW i \in Bills, NEW stamp, NEW status \in {"approved", "rejected"}, Settle(i, status, stamp)
      PROVE  Kept
  <2> DEFINE paid == [status |-> status, stamp |-> stamp, attempt |-> bills[i].attempt + 1]
  <2>1. bills' = [bills EXCEPT ![i] = paid] /\ Final(paid)
    BY <1>3 DEF Settle, Final
  <2> HIDE DEF paid
  <2> QED BY <2>1 DEF Shape
<1>4. ASSUME NEW i \in Bills, Refund(i) PROVE Kept
  BY <1>4 DEF Refund, Final, Shape, Bill
<1>5. ASSUME NEW p \in Procs,
             \/ Contract(p) \/ Lease(p) \/ Proceed(p) \/ CallFails(p) \/ Crash(p)
             \/ \E note \in Notified : Webhook(p, note)
      PROVE  bills' = bills
  BY <1>5 DEF Proceed, Contract, Reserve, ApplyRemote, Save, ApplyBill, Lease, CallFails, Crash, Post, Answer,
              Recover, Note, Read, Get, Put, Confirm, Pick, Mark, Release, Write, Webhook
<1>6. CASE RequestCancellation \/ LeaseExpires \/ TimePasses \/ Arrives \/ Authorize \/ PayerCancels
           \/ UNCHANGED subscriptionVars
  BY <1>1, <1>6 DEF RequestCancellation, LeaseExpires, TimePasses, Arrives, Authorize, PayerCancels, subscriptionVars
<1> QED BY <1>1, <1>2, <1>3, <1>4, <1>5, <1>6 DEF SubscriptionNext

LEMMA NextBooks ==
  ASSUME Shape, Shape', Books, [SubscriptionNext]_subscriptionVars
  PROVE  Books'
<1>1. \A i \in Bills : Final(bills'[i])
  BY BillsFinal DEF Books
<1>2. \A p \in Procs : Final(proc'[p].found)
  BY FoundSteps DEF FoundKept, Books, Final, NoBill
<1>3. CASE charge' = charge /\ sub'.paid = sub.paid /\ sub'.delinquent = sub.delinquent
  BY <1>1, <1>2, <1>3 DEF Books
<1>4. ASSUME NEW p \in Procs, ApplyBill(p) PROVE Books'
  <2> DEFINE k == proc[p].bill
             now == proc[p].found
  <2>1. k \in Bills /\ Final(now) /\ sub \in Row /\ DelinquentIsUnpaid
    BY <1>4 DEF ApplyBill, Shape, ProcsOK, BooksOK, Filled, Books, DelinquentIsUnpaid
  <2>2. /\ charge' = charge \/ charge' = [charge EXCEPT ![k] = now]
        /\ sub' = sub \/ sub' = WithCharge(k, now)
    BY <1>4 DEF ApplyBill
  <2> HIDE DEF k, now
  <2>3. \A i \in Bills : Final(charge'[i])
    BY <2>1, <2>2 DEF Books, Shape, BooksOK
  <2>4. sub'.delinquent # 0 => sub'.paid < sub'.delinquent
    BY <2>1, <2>2, PaidAhead DEF DelinquentIsUnpaid
  <2> QED BY <1>1, <1>2, <2>3, <2>4 DEF Books
<1> QED BY <1>3, <1>4, BooksSteps

LEMMA InitBooks == SubscriptionInit => Books
<1> SUFFICES ASSUME SubscriptionInit PROVE Books
  OBVIOUS
<1>1. Final(NoBill)
  BY DEF Final, NoBill
<1>2. \A p \in Procs : proc[p].found = NoBill
  BY DEF SubscriptionInit, Idle
<1>3. sub.delinquent = 0
  BY DEF SubscriptionInit, NewRow
<1> QED BY <1>1, <1>2, <1>3 DEF Books, SubscriptionInit

LEMMA AlwaysBooks == SubscriptionSpec => [](Shape /\ Books)
<1>1. Shape /\ Books /\ [SubscriptionNext]_subscriptionVars => (Shape /\ Books)'
  BY NextShape, NextBooks
<1> QED BY <1>1, InitShape, InitBooks, PTL DEF SubscriptionSpec

\* A salon is only delinquent for a period it has not paid, in whatever order
\* the attempts of its invoices are read (applyInvoice).
THEOREM DelinquencyMatchesPayments == SubscriptionSpec => []DelinquentIsUnpaid
<1>1. Books => DelinquentIsUnpaid
  BY DEF Books, DelinquentIsUnpaid
<1> QED BY <1>1, AlwaysBooks, PTL

\* Once a charge is approved, no snapshot makes anything of it but a refund, and
\* nothing undoes a refund (the order applyInvoice gives two snapshots).
THEOREM PaymentsAreFinal == SubscriptionSpec => PaymentsStand
<1> DEFINE Stand == \A i \in Bills : /\ charge[i].status = "approved" => charge'[i].status \in {"approved", "refunded"}
                                     /\ charge[i].status = "refunded" => charge'[i].status = "refunded"
<1>1. Shape /\ Books /\ [SubscriptionNext]_subscriptionVars => [Stand]_subscriptionVars
  <2> SUFFICES ASSUME Shape, Books, [SubscriptionNext]_subscriptionVars PROVE Stand
    OBVIOUS
  <2>1. ASSUME NEW p \in Procs, ApplyBill(p), NEW i \in Bills
        PROVE  /\ charge[i].status = "approved" => charge'[i].status \in {"approved", "refunded"}
               /\ charge[i].status = "refunded" => charge'[i].status = "refunded"
    <3> DEFINE k == proc[p].bill
               now == proc[p].found
    <3>1. now.stamp \in 0..MaxStamp /\ charge[i].stamp \in 0..MaxStamp /\ Final(charge[i])
      BY <2>1 DEF Shape, BooksOK, ProcsOK, Process, Bill, Books
    <3>2. charge' = charge \/ (charge' = [charge EXCEPT ![k] = now] /\ ~Outdated(charge[k], now))
      BY <2>1 DEF ApplyBill
    <3> HIDE DEF k, now
    <3>3. charge'[i] = charge[i] \/ (charge'[i] = now /\ ~Outdated(charge[i], now))
      BY <3>2 DEF Shape, BooksOK
    <3> QED BY <3>1, <3>3, SubscriptionAssumption DEF Outdated, Final
  <2> QED BY <2>1, BooksSteps
<1> QED BY <1>1, AlwaysBooks, PTL DEF SubscriptionSpec, PaymentsStand
=============================================================================
