# A verification of the salon booking core

TLA+ models, TLC runs and TLAPS proofs for the transactional core of this
repository: the booking of appointments, the waitlist behind each of them,
rescheduling proposals, product stock and payment, the database locks that
keep them apart, offers of freed time, the salon's subscription and team, its
reminders, visits of several services, and the Secretary's credit and conversations. Everything is translated from the source; `PROJECT.json` names
the lines of every definition.

## 1. The system and its parts

The product is a Next.js server over PostgreSQL. Many salons share it; every
request of a salon runs in one database transaction (`withTenant` or
`withSalon`, READ COMMITTED), so the concurrency is that of the transactions of
one salon: clients on the public page, several members of the staff, cron jobs.
What keeps them apart is written in the code: transaction-level advisory locks
(`inventory-lock.ts`), version and status tests in conditional updates, an
exclusion constraint, unique keys, and triggers.

| part | state | operations | what is hard | what makes it correct |
|---|---|---|---|---|
| domain rules (`appointment-domain.ts`, `scheduling.ts`) | none | status machine, attendance time, client policy, buffered overlap | boundaries | definitions the other parts use |
| appointments (`appointment-service.ts`) | Appointment rows with a version | create, reschedule, cancel, change status | reads before writes, two professionals, retries | buffer, no double booking, reads stay current, no early attendance, one booking per key |
| waitlist (`waitlist.ts`, `agenda/actions.ts`) | WaitlistEntry rows | join, leave, attend elsewhere, promote by hand, promote at a cancellation or move | the queue's lock is found by reading, chains | order of promotion, the queue follows the slot, who left is not promoted |
| proposals (`reschedule-proposals.ts`) | RescheduleProposal rows | propose (and move at once), accept, reject | superseded by later changes | an open proposal is current, answers match |
| plan limit (`enforceAppointmentPlanLimit`, `billing/entitlements.ts`) | count of the month, subscription | check at creation and promotion | check then act over the whole salon | within the limit |
| comanda and stock (`comanda-service.ts`, `appointment-product-service.ts`) | AppointmentProduct, Product, Payment | reserve, return, close and pay, adjust, activate | two sides of one stock, double submit | conservation, paid once |
| lock order (`inventory-lock.ts`, trigger `booking_offer_guard`) | advisory locks | every operation above | deadlock across operations | no circular wait, every request ends |
| offers (`flexible-waitlist.ts`, `waitlist-offers.ts`, trigger `booking_offer_guard`) | FlexibleWaitlist, WaitlistOffer | join, promote, offer, accept, decline, withdraw, expire | an offer against bookings of other professionals and a catalogue that changes | a slot is held for one, terms stand, a request is fulfilled once |
| subscription billing (`billing/service.ts`, `billing/worker.ts`) | BillingSubscription, BillingCharge, BillingInbox, BillingQueue | contract, create at the provider, webhooks, leased queue, cancellation | lost, repeated and reordered answers, crashes, leases that run out | one recurrence, cancelled is final, payments count |
| credit of the Secretary (`secretary-credits*.ts`, `billing/credits-provider.ts`) | purchase, ledger | checkout, payments, refunds, charges, check before a request | read at the provider before the transaction, requests that share a balance | one checkout, credited once, bounded overdraft |
| reminders (`cron/reminders/route.ts`, `client-reminders.ts`, `client-reminder-delivery.ts`) | NotificationOutbox, ClientPushSubscription | queue on every run of the job, claim, check, send, record, fall back to e-mail; subscribe and revoke a device | runs that overlap or repeat, claims that run out, devices that come and go | outcomes stay, attempts are bounded, no e-mail beside a push message while the reminder was queued once |
| Secretary, one conversation (`secretary-session-store.ts`, `salon-secretary.ts`, `secretary-journal.ts`) | versioned row with a lease, working copies, journal | load, run, save, amend, propose, confirm, cancel | a lease that passes on while a call is still running | one change, which is final; saved turns stand |
| invitations and team (`invitations.ts`) | UserInvite, Professional, plan | invite, send, renew, revoke, accept, activate, contract | a plan's limit shared by four operations, links renewed during an acceptance | agendas within the plan, one open invitation, valid links |
| visits and the day (`visit-scheduling.ts`, `agenda/*-actions.ts`) | WorkingHours, ProfessionalOpening, TimeOff, SalonClosure, one Appointment for each part | plan, book several parts in one transaction, every edit of the day | a plan made once and written part by part, against edits of the day | what is planned can be written |
| recurrences, approval, removal, cash register, finance, pricing, identity, tenancy, pages | | | | not modelled: section 6 |

How they interact: an accepted or cancelled appointment moves its queue and its
proposals in the same transaction; a cancellation returns products and may
promote; closing a comanda completes the appointment; attending a waitlist
entry elsewhere creates an appointment and closes the entry; the trigger takes
the salon's offer lock at every write of a slot or status. They share the
advisory locks, which is why `LockOrder` looks at all of them together. The
subscription decides whether a salon may take new bookings, and its plan bounds
the month's bookings (`Booking`) and the active agendas (`Team`). An accepted
offer and a request booked directly end in `createAppointment`. Reminders,
credits and conversations touch bookings only by reading them or by calling the
operations above.

## 2. Modules

| module | models | used by |
|---|---|---|
| `BookingRules` | pure rules: statuses, transitions, attendance, client policy, overlap | `Booking` |
| `Booking` | appointments, queues, proposals, plan limit, under concurrent transactions | `MCBooking`, `BookingProofs` |
| `Comanda` | reserved products, stock, comanda, payment, under concurrent transactions | `MCComanda` |
| `LockOrder` | the lock sequence of every operation, taken by concurrent sessions | `MCLockOrder` |
| `Calendar` | abstract specification of the agenda: bookings are taken, moved, released and handed over in one step | `Booking` (refinement mapping) |
| `Offers` | requests for any time, offers, bookings from the public page, one room | `MCDesk` |
| `Team` | invitations, their links, activation, the plan's agendas | `MCDesk` |
| `Delivery` | the messages of one reminder, queued and sent by several runs of the job | `MCDesk` |
| `Dialogue` | one conversation: lease, versions, working copies, journal | `MCDesk` |
| `Subscription` | one contract, its queue and inbox, the provider and the payer | `MCServices` |
| `Credits` | one purchase, its payments, the ledger, concurrent requests | `MCServices` |
| `Visits` | one day: plans of several services, their transaction, single bookings, edits of hours, openings, time off and closures | `MCDesk` |
| `MC...` | small salons, mixes of requests and scenes for TLC | the runs |
| `BookingProofs`, `ComandaProofs`, `OffersProofs`, `SubscriptionProofs`, `CreditsProofs`, `VisitsProofs` | theorems about the module of that name | |
| `CalendarProofs` | more theorems about `Booking`: its refinement of `Calendar`, its queues and its plan limit | |
| `DeskProofs` | theorems about `Delivery`, `Dialogue` and `Team` | |

`MCServices` and `MCDesk` put components side by side that share no state, each
step being one of one component: a behaviour starts a scene of exactly one of
them while the others stay quiet, so that one run explores them all without the
product of their states.

### How a transaction is modelled

A transaction `t` holds a record `tx[t]`. A `Check...` action takes the
operation's locks, performs its reads and its decisions; a `Queue...` (in
`Comanda`, `ReadStock`) action takes the queue's or the products' lock, which
the code takes later, and reads under it; a `Commit...` action evaluates the
conditional updates and the constraints again, on the tables as they are by
then, and writes everything at once. `Read...` actions are the reads the code
performs without any lock. Between any two of them every other transaction may
act, and at any point `Rollback` may end the transaction: it stands for a
throw, an idempotent repetition (which writes nothing), a timeout and a lost
connection. A client that retries after it is a new request with the same key.

This is READ COMMITTED as the code meets it: a transaction's own writes are not
seen by others before its commit, and a conditional `updateMany` or a
constraint waits for a concurrent writer and is then evaluated on what that one
committed. Three simplifications: reads under the same locks are one step; a
lock is taken together with the reads that follow it (the appointment's lock is
what keeps its professional from changing before that one's lock is taken); in a move, the first of
the queue is read once, where the code reads it in `nextWaitlistSlot` and again
in `fulfillWaitlistOnCancel` under the same queue lock (a leave under a stale
lock could come in between; see the hazards).

### Correspondence of `Booking`

- `appt`: status, slot (`professionalId`, `startAt`, `endAt`), `version`,
  `isOverbooked`, `idempotencyKey`, `origin`. A row that was not created yet
  has the status `ABSENT`; rows are created in the order of their numbers.
  Promotions use the entry as key (`waitlist:<id>` in the code).
- `entry`: one of `WAITING`, `FULFILLED`, `CANCELLED` for the columns
  `fulfilledAt` and `cancelledAt`; entries are numbered by `createdAt`.
- `prop`: status, target slot and `sourceVersion`.
- `Available` is `availabilityViolation` reduced to conflicts with appointments;
  `Fits` is the constraint `appointment_no_overlap`, `KeyUnused` the unique key.
- create: `CheckCreate`, `CommitCreate`; with a waitlist entry attended
  elsewhere: `CheckCreate`, `ReadElsewhere`, `CommitElsewhere`.
- reschedule and propose: `CheckMove`, `QueueMove` (only if the slot changes),
  `CommitMove`. Answer: `CheckAnswer`, `CommitAnswer`.
- cancel: `CheckCancel`, `QueueCancel` (only for a client's cancellation),
  `CommitCancel`; cancel and promote in one: `CheckHandover`, `QueuePromote`,
  `CommitCancel`; promote by hand: `CheckPromote`, `QueuePromote`,
  `CommitPromote`. Status: `CheckStatus`, `CommitStatus`.
- `Tick` is the wall clock, in units in which the buffer, the minimum lead and
  the cancellation cutoff are whole numbers; `BillingChange` is the
  subscription lapsing and recovering.

Staff may override a conflict with a reason; the row is then `over` and outside
the constraint. All bookings fall into one month of the plan.

### Correspondence of `Comanda`

`line[a]` is the quantity of every product in appointment `a`; `begun[a]` says
that its start has passed; `moved` is the sum of the audited manual movements,
which the code keeps in its audit log. `Settle` is shared by creation, comanda
and cancellation, whose stock updates have the same form (conditional on the
stock read). The lines of a cancelled appointment stay, as in the code.

### Correspondence of `LockOrder`

Each operation is the sequence of its advisory locks, written from the code,
with the trigger's `offer-salon` lock at the write that fires it. Row locks are
left out: a row that two of these operations write is covered by one of the
advisory locks.

### Correspondence of `Calendar`

The mapping is in `Booking` (`TheCalendar`, `ImplementsCalendar`): an appointment is
unused before it exists, held while it is active and past afterwards; `over` and
`queued` say why it may stand closer to others than the buffer; its key is the
idempotency key, or the place in a queue it was promoted from. A `Commit...`
is a step of the calendar, everything before it stutters. A cancellation or a
move that promotes is one `HandOver`.

### Correspondence of `Offers`

A transaction begins with the lock of its professional (`Begin`) and keeps it,
and the salon's offer lock once it has it, until its end. `Select` is the first
half of `promoteFlexible`, `InsertOffer` or `BookDirectly` the second; between
them the catalogue may change and others may book. `Inspect` and
`CreateAccepted` are `respondToOffer` before and after `createAppointment`;
`InsertBooking` and `CommitBooking` a booking from the public page before and
after the trigger. Every service needs the salon's one room, so that bookings
with `other` professionals matter. The snapshot of the services is one price:
`cents` is the confirmed one, `terms` the snapshot. `spent` bounds transactions
and price changes. Expiry (`OfferExpires`) is a step of its own: the rows are
written later, when somebody asks.

### Correspondence of `Team`

`invite` has the rows; `token` counts the links of an invitation, which is also
its number of sends. `emailLock` and `capacity` are the two advisory locks.
`CountForInvite`, `CountForActivation`, `CountForOwner`, `ClaimInvite` and `Sign`
are the five places that count agendas under the capacity lock; what each counts
differs, as in the code. The send (`Deliver`) is after the commit, its record
(`MarkDelivery`) is a transaction of its own. `DeskStops` and `GuestStops` are
crashes and roll back what was open.

### Correspondence of `Delivery`

One reminder is one event: one appointment, phase and day. `outbox` has one row
for each device and one for the e-mail; `due` stands for `nextAttemptAt`, `start`
for the start in the payload, and `STALE` is `FAILED` with the error
`STALE_REMINDER`. The model begins before the first run of the day, with nothing
queued. A run of the job does two things, and so does every later run:

- it queues: `ReadChannels` reads the appointment, takes the event's lock
  (`recordAppointmentEvent`, which finds the event an earlier run recorded) and
  reads the subscriptions; `QueueChannels` inserts the rows that do not exist
  (`skipDuplicates`) and commits. It never looks at what was queued or sent: the
  plan depends on the devices of that moment only. The start is any of the day,
  because the run has read it before it waited for the lock;
- it delivers: `ReadRow`, `Claim`, `Check`, `Send` and the record. `fail` is the
  open transaction that gives a message up: it decides on the e-mail by the rows
  it sees and commits in `GiveUp`.

`Senders` are runs, or what one run has at hand: `sendOne` works on eight rows at
once. `TimePasses` makes a claimed row due again and so lets a second run overlap
the first. Devices are subscribed and revoked, and the appointment moves within
the day, off it and back, between any two steps. A result of a send is anything
the push service or the mail service may answer, and a run that dies after the
send leaves the message to be sent again.

`queued` says whether that happened never, once or again. The schedule
(`vercel.json`) calls each phase once a day, and a reminder belongs to one phase
and one day, so that it is queued once, and sent by any number of runs: those of
the other phase deliver its rows too. Nothing in the code keeps the job from
being called again on the same day, and the model may always do so. Then, if the
client has turned the last device off, the e-mail is queued beside a push message
that was sent, and a device that is new gets a push message beside the e-mail,
whatever the comment at `cron/reminders/route.ts:18-20` says of repeated runs.
This is why `EmailOnlyWithoutPush` speaks of a reminder that was queued once;
`SettledStays` and `AttemptsBounded` speak of all.

### Correspondence of `Dialogue`

`chat` is the row with its version and lease; `copy[p]` the call whose working
copy process `p` holds, because the code keeps one per conversation and process,
and a later call in the same process replaces it. A call loads, runs and saves;
`Amend` and `Propose` are two transactions, `Confirm` one. What the language
model makes of a message is any amendment or none; whether a confirmed change
still fits the client's record is any answer. `turns` are the messages a state
was shaped by.

### Correspondence of `Subscription` and `Credits`

Every call to the provider is a step between two transactions; what it returns
is the provider's state at that step, applied later. The provider moves freely:
it receives a POST late (`flight`), authorises, issues invoices, takes payments
and refunds them, with timestamps that may repeat or come in any order where its
interface allows it. `inbox` and `queue` are the tables of the same names;
notifications may be lost, repeated or late. `Release` and `Write` are the two
statements that end a job, between which new work can be queued (`heard`).

In `Credits` the price of a pack is counted in units, so that a partial refund is
its share; `ToCredit`, `ToReverse` and `StateAfter` are `decideCreditPayment`;
`ChargeCalls`, `CheckCredit` and `FinishCall` are a request, which may die
between any two of them. The ledger is kept as its sums.

### Correspondence of `Visits`

`weekly` is a professional's week as the units of the modelled day it covers;
`extra`, `timeOff` and `closure` are the rows of those tables. An item of a plan
and an appointment have one form, a slot with its rooms. `Plans` is the result
of the search of `findVisitPlan`: the staff of each service in order, the first
combination in which every item fits (`ItemFits`, `GoesWith`). `ShowPlan` is the
preview, without a lock; `BeginVisit` takes the key's lock; `PlanVisit` takes all
the professionals' locks, plans again with those who were confirmed and joins
unbroken runs of items into parts (`Parts`). Each part is then checked
(`CheckPart`, `availabilityViolation`) and inserted (`InsertPart`, with the
constraints and the trigger's lock), and `CommitVisit` or `RollbackVisit` ends
the transaction. A booking of one service is the same without a plan. Edits are
one step each, because nothing another transaction does comes between their lock
and their commit; closures take no lock. A promotion is the manual one. The
overbooking and the after-hours reasons of single bookings are left out.

Reading it showed two ways in which a plan can still be refused: a closure that
is written meanwhile, and a room, which the plan checks for its service's time
and the database reserves for the whole appointment. Both roll the visit back.

## 3. Runs

| run | checks | bounds |
|---|---|---|
| `agenda` | BufferKept, ReadsStayCurrent, NoEarlyAttendance | 2 transactions, 3 appointments (one PENDING, one CONFIRMED at the start), 2 professionals, 3 slots, versions to 2, clock 0..1 |
| `quota` | WithinQuota, OneBookingPerKey | 2 transactions, limit 2 with 1 place used, 2 keys, 1 entry, billing varies |
| `queue` | QueueFollowsSlot, NoDoubleBooking, PromotionOrder, ImplementsCalendar | 2 transactions, 3 appointments, 2 entries, 3 slots that overlap |
| `proposals` | PendingProposalIsCurrent, AnswersMatch | 2 transactions, 2 proposals, versions to 4, clock 0..2 |
| `agreeing` | EveryRequestEnds | 3 sessions, 14 requests over all operations |
| `stock` | StockConserved, PaidOnce, PaidLinesStay | 3 transactions, 2 appointments, 1 product, stock 2, quantities to 2, manual movement to 1 |
| `services` | OneRecurrence, CancelledIsSilent, NeverRevived, DelinquentIsUnpaid, PaymentsStand, CancellationIsCarriedOut, PaymentsCount; OneCheckout, CreditedOnce, PurchaseMatchesLedger, OverdraftBounded, MoneyGetsCredit | contract: 2 processes, 2 invoices of 2 payments each, timestamps to 3; credit: 2 buyers, 2 handlers, 2 conversations, 2 payments, a pack of 2 units, 1 free unit, 2 units a call; 6 scenes of each |
| `desk` | HeldForOne, TermsStand, FulfilledOnce; ActiveWithinPlan, OneOpenInvite, SentIsCurrent, JoinsByValidLink; CarriedOutOnce, DoneIsFinal, SavedTurnsStand; EmailOnlyWithoutPush, SettledStays; PlanHolds | offers: 2 requests, 2 slots, 2 transactions, 5 calls, 1 change of price; team: 2 people, 2 invitations with 2 links each, 2 + 2 requests open, 4 in all, 1 agenda and a contract for 2; conversation: 4 calls, 2 processes, 2 drafts of 2 revisions, 2 lapses or crashes; reminders: 2 devices and the e-mail, 2 runs, 2 attempts (3 in the code), 1 start, either 1 claim lost or queued again; visits: 2 professionals, 3 services, a visit of three services and one of two that overrides the hours, 2 single bookings, 1 room, a day of 4 units, 2 transactions, 2 edits |
| `products` | NoDeadlock, violated | 2 sessions, 6 requests |
| `promotion` | ManualPromotionKeepsBuffer, violated | 2 transactions, 1 entry, two adjacent slots |
| `leave` | LeftEntryNotPromoted, violated | 2 transactions, 2 entries |
| `refund` | RefundStands, violated | as `services` |

Why these bounds are enough: every property relates at most two rows and
the transactions that write them, and the hazards need two transactions (three
sessions for a cycle of three locks). Slots touch (the buffer forbids both),
overlap, or belong to another professional; a third appointment leaves room for
a booking next to two existing ones. `MaxVersion` caps moves, `MaxNow` the
clock; both are guards of `CheckMove` and `Tick` only.

The scenes of `services` (`MCScenes`, `MCCreditScenes`) each bound what happens:
clicks, cancellations, notifications, invoices, payments, requests and faults.
They cover a first contract with a lost answer or a crash, two clicks, a running
contract that is cancelled by its owner and by its payer, an invoice with a
notification, with a fault, and two invoices; a checkout with two clicks and a
fault, three changes of payments without one, two with a manual reconciliation
and a fault, and requests against the free units, a payment and a grant. A scene
with everything at once is beyond TLC here; the theorems of section 4 about the
contract and the credit hold for any `Scenes` and `CreditScenes`. Idle processes are interchangeable and the one
that takes the next step is chosen (`IsNext`, `IsFirst`, `IsFree`), which loses
no behaviour up to names.

In `desk` the transactions, the invitations and the remaining actors of every
component are drawn from the same three pairs of model values, of which the
symmetry set permutes two; no property compares actors by name, and the temporal
ones are action properties, for which symmetry is sound. Two revisions and
two drafts are needed for a confirmation to meet an amendment or a second draft;
two lapses for a lease to pass on twice. For visits, the public one starts a service of a
professional next to one of another and goes on with either, so that a run can be
broken; the other holds the room while it does not need it; two edits close and
open the day, or cancel and promote inside the buffer.

For reminders, two devices and the e-mail show the last of the devices deciding
on the e-mail, alone or at the same time as the other. One lost claim lets a
second run overlap the first at every step of it. A second attempt shows a
message that failed before; a third only repeats it, and the limit is a constant
of the model. Devices come and go without a bound, and a reminder may be queued
any number of times, as long as no claim of it is lost. The appointment may leave
the day of the reminder and does not come back (`DeskReminder`): a reminder that
is stale for an earlier start is abandoned in the same way. The theorems have
none of these bounds.

The bounds use up the rows, so a state without a successor is possible in
every module but `LockOrder`, and their runs do not check deadlock. A circular wait is the question of
`LockOrder`: `products` states `NoDeadlock` and is violated, `agreeing` shows
the stronger fact that every request ends.

Every property of a passing run is shown to be able to fail by a mutant of the
code's model listed in `PROJECT.json` (a lock forgotten, a queue not moved, a
sign reversed, a reservation not looked at). The operators with an underscore
(`StillWaiting_Unchecked` before `StillWaiting`) are those mutants. The types
are proved, not listed among the runs' properties.

The four violations are disagreements between a comment or decision record and
the code, quoted in `PROJECT.json`:

1. `products`: a cancellation takes the trigger's salon lock before its product
   locks, a comanda with products after them. The two can block each other;
   PostgreSQL then aborts one and nothing is written wrongly.
2. `promotion`: the manual promotion checks conflicts without the buffer, which
   the decision record lists among its validations.
3. `leave`: an entry that leaves while a promotion moves its queue leaves under
   the lock of the old queue, can be promoted in the new one all the same, and
   holds a booking while being cancelled.
4. `refund`: a payment read as approved by one call and applied after another
   call applied its full refund credits the pack of a refunded purchase, although
   the comment says that a later notice never undoes a refund.

`agreeing` leaves out what is known to disagree: a comanda with products; an
entry attended elsewhere on another professional than its own; an accepted offer
of a salon with a monthly limit. The hazards give the lines.

### Fairness

`EveryRequestEnds` (`LockOrder`): `WF(Finish)`, a transaction that has its locks
runs to its end, or to Prisma's transaction timeout, which ends it as well;
`SF(Take)`, a session that waits for a lock gets it if it becomes free again and
again, because PostgreSQL queues the waiting sessions of an advisory lock and
grants it in order of arrival. Nothing is assumed of arrivals (`Start`).

`SubscriptionFairness`: a process that has begun proceeds or dies
(`WF(Proceed)`), since calls to the provider have a timeout; the scheduled
worker comes back as long as work is due (`WF(Lease)`, the cron job); leases and
waiting times run out (`LeaseExpires`, `TimePasses`) and a POST on its way
arrives. Nothing is assumed of the provider's other steps, of notifications or
of the owner, and faults are bounded by the scene.

`CreditsFairness`: a webhook call or a reconciliation that has begun proceeds
(`WF(HandlerStep)`); the provider repeats a notification until it is
acknowledged (`SF(ReceivePayment)`), which its contract with `receiveCreditPayment`
relies on: the call answers with an error until the payment is applied.

## 4. Proofs

The theorems hold for every value of the constants that satisfies the named
assumptions, which TLC evaluates in every run: no bound of section 3 is part of
them, except those that are constants themselves.

`BookingProofs`: `TypeCorrect`, `BufferIsKept`, `AttendanceIsPast`,
`ReadsAreCurrent`, `NeverDoubleBooked`, `AnswersAreMatched`,
`ProposalsAreCurrent`. Assumptions:
`IdsAssumption` (identifiers are positive numbers, keys are not entries, `Free`
is no transaction), `SlotsAssumption` (slots are non-empty intervals),
`PolicyAssumption` (the salon's policies are numbers) and `InitialAssumption`
(the salon starts with bookings that keep the buffer and without early
attendance). None of the properties is inductive: the tables alone do not say
why a commit is safe. The inductive invariant `IInv` adds what each open
transaction `t` may rely on (`Sound(t)`):

- `Locked`: it holds the appointment's lock, and the locks of the professional
  the row has and of the one it is about to have;
- `Fresh`: what it read of the appointment (version, status, start) is what the
  row still is;
- `Cleared`: unless it overbooks, the slot it is about to write is still free by
  the buffer.

These survive the steps of others because of `StepOf`: a step writes an
existing appointment only under that appointment's lock, and puts a plain
booking on a professional only under that professional's lock. Each commit is
shown to obey `StepOf` (`Commit...OK`), each check to establish `Sound`
(`Check...OK`), and the two are combined in `NextIInv`. A promotion does not
look at the buffer, and the professionals whose locks it takes are read before
the queue's lock, which is why `BufferKept` speaks of bookings that are not from
a queue; overlaps with those are excluded by the exclusion constraint, in
`NeverDoubleBooked`. `AnswersAreMatched` uses `Fresh` for the
transaction that records the answer, and `ProposalsAreCurrent` that every
commit which changes an active booking's slot or ends it closes its open
proposal.

`CalendarProofs`: `RequestsBookOnce` and `CalendarImplemented`, the refinement:
the initial tables map to an initial agenda and every step of `Booking` to a
step of `Calendar` or a stutter. It rests on `BookingProofs` for what is
consistent and on an invariant of the keys and entries for what is booked once.

The same module has the queue and the limit. `PromotionsInOrder` needs what a
transaction knows once it holds the queue's lock (`Promised`): the entry it will
fulfil is of that queue, and whoever waits there waits no longer; an entry may
leave under the lock of another queue, but none can come in. `QueuesFollowSlots` adds that the queue is empty whenever an
appointment is about to leave its slot without promoting anybody, and that the
rest of a queue is re-chained to the booking the promotion makes. It is proved
of a subscription that does not lapse (`~BillingVaries`), and only that is
claimed: a move of a lapsed salon promotes nobody and leaves its queue behind
(see the hazards). For the plan limit, `Room` says
that a creation under way holds the quota lock and leaves room for one more: only
one creation counts at a time, and every other step adds nothing to the count. `CreationsWithinQuota` proves it of the
bookings made directly, whatever else happens; `MonthWithinQuota` of all of them,
in a salon that does not move, propose or promote by hand. These three insert a
promoted booking in the slot of one that counts on (a move) or whose place may
have been taken since (a promotion by hand), without asking for the limit
(waitlist.ts:683), so that with them the code does not keep the limit and nothing
is claimed. Both suppose a salon that starts within its limit (`StartsWithin`).

`ComandaProofs`: `StockNeverNegative`, `ComandaPaidOnce`, `PaidLinesAreKept`,
`StockIsConserved`. A
transaction that is ready has seen enough stock for what it takes (`Filled`),
and a commit only counts for the stock that was seen (`SettleOK`); a manual
movement keeps its product's lock (`Adjusting`). For the conservation of stock the
reserved units of a product are a finite set (`Held`), one element for each unit
of a line: a settlement changes the cardinality of `Held` by what it takes from
the stock, because the line it replaces is the one it read under its locks.

`OffersProofs`: `OffersTypeCorrect`, `SlotHeldForOne`, `AcceptedTermsStand`,
`RequestFulfilledOnce`. `OffersInv` has `Held` (which locks a transaction holds
at its step), `Apart` (bookings and open offers of a slot), `OneEach` (requests
and bookings) and `Promises`: what a transaction relies on between its check and
its write, namely that the request still waits, that nothing was booked or
offered in its slot, and that the offer's price is its terms. Steps without the
locks only make offers end (`Fades`), which keeps every promise.

`DeskProofs` has three parts that share nothing.

Reminders: `DeliveryTypeCorrect`, `AttemptsStayBounded`, `OutcomesAreFinal`,
`EmailIsTheLastResort`. The first three hold however often the reminder is queued.
`Spent` strengthens the bound: a row that has used all its attempts and is still
PENDING is not due, and the run that will end it is on its way (`Ends`), or is
overtaken or dies, which is counted; `Counted` says that a run which has a
message has counted its attempt or is in the claim that does. The last theorem
is about a reminder that was queued once, without which it is false: see
`queued` in section 2. `Once` says that a reminder is queued before any of it is
sent, for devices or by e-mail (`QueuedOnce`), and that a run whose transaction
found the e-mail necessary holds the only message that is not yet given up
(`LastOne`), which no other run can send because its row is locked.

The conversation: `DialogueTypeCorrect`, `OneChangeEach`, `ChangeIsFinal`,
`TurnsAreKept`. A call whose version is still the row's started from what the row
says; only the draft that was saved first can be confirmed, because a draft
another call opened is either saved first or its save is refused; and what was
carried out is the last word of the journal about its draft.

The team: `TeamTypeCorrect`, `ActiveStaysWithinPlan`, `OneInviteEach`,
`SentLinkIsCurrent`, `JoiningNeedsValidLink`. Whoever inserts, activates or joins
holds the capacity lock, and counted room under it against the plan in force; a
guest who is joining has no other open invitation to the address, so that a
rollback may open it again; a row is shown as sent only for a mailed link, and a
renewal takes the mark away.

`SubscriptionProofs`: `SubscriptionTypeCorrect`, `RecurrenceOnce`,
`CancelledCannotCharge`, `CancelledForGood`, `DelinquencyMatchesPayments`,
`PaymentsAreFinal`. The invariant `OneContract` says of a reservation that at
most one POST follows it (`Reserved`), of a cancellation that no step can still
create or enable (`Stops`), and of what every process carries that it is never
newer than the provider's state, and that a snapshot of the cancellation is the
last thing that happens (`Knows`). `Books` says of invoices that what was found
is the provider's or older, and that a refund is dated last.

`CreditsProofs`: `CreditsTypeCorrect`, `CreditGivenOnce`,
`PurchaseAgreesWithLedger`, `CheckoutIsOne`, `OverdraftIsBounded`. `BooksInv`:
only the payment a purchase calls its own was ever credited (`OwnOnly`), and no
more of it is reversed than that (`ReversedWithin`), whatever a handler read
earlier and applies late. `CheckoutInv`: before the checkout is reserved nobody
asks the provider for a preference, and afterwards only the buyer who reserved
it does, while there is none. `OverdraftInv`: the conversations past their check
and the calls of earlier ones not charged yet are together no more than the
conversations there are (`CallsFit`), and the balance covers what all of them
may still take, down to the bound (`CreditFits`). It assumes that there is a
conversation (`Requesters # {}`): with none, the bound says that the credit is
positive, and nothing has to be bought at all.

`VisitsProofs`: `VisitsTypeCorrect`, `PlansHold`. A visit is planned item by item
and written part by part, so the proof has two halves. The first is about
`Parts`, for every list of items: the members of a part are consecutive
(`ChainRun`), a part covers exactly the time of its members (`PartCovered`), it
meets something only if one of them does (`PartMeets`), and two parts of one
professional are as far apart as the items they end with (`PartsApart`,
`PartsBeside`), which is where `Continuous` must be about every item in between.
The second is the invariant `ClerksOK`: a transaction that has planned holds its
professionals' locks (`RowHeld`), what it wrote is in the diary (`Written`), and
what it has not written is still admitted (`RowHolds`); every edit and every
other transaction that could disturb it needs one of those locks, except
closures, which `PlanHolds` excepts.

Model-checked only: liveness under fairness (`EveryRequestEnds`,
`CancellationIsCarriedOut`, `PaymentsCount`, `MoneyGetsCredit`), which the prover
does not reach; all of `LockOrder`, whose `LockKeys` is built on a sorting
operator of the community modules, recursive underneath; and of `Visits` which
plan the search finds first (`PlansHold` is about any feasible plan). Every
safety invariant and action property of a passing run is stated by a theorem;
`QueueFollowsSlot` and `WithinQuota` under the hypotheses above, which the theorems share with the code's own limits and not with the
runs' bounds. `AttemptsBounded` is proved only.

## 5. Plan

Done: the core and its locks (`Booking`, `LockOrder`, `Comanda`), the abstract
calendar and its refinement, offers, team, reminders, subscription, credit,
conversations and visits, with the proofs of section 4. Left, in the order of their value:

1. Plan changes and refunds on request in `Subscription`, once they are switched
   on (`changesEnabled`).
2. `LockOrder` with its sequences written without the sorting operator, and the
   theorem that requests whose sequences agree never wait in a circle.
3. The edits of services, which a visit reads twice without a lock.
4. Proposals recorded before the immediate mode, while any are left.

## 6. Not modelled

- Pages, forms, marketing: presentation over the operations above. They are most
  of the source, together with the next item.
- Interpretation of language by the Secretary (`salon-secretary.ts`,
  `secretary-agent-validator.ts`, `secretary-scheduling.ts`): parsing and
  validation of one message at a time, without shared state. `Dialogue` takes
  what they understood as any choice, and their bookings are those of `Booking`.
- Recurrences: each date is booked in a transaction of its own. The calendar of
  free days: the search of `Visits` over many days, without an effect.
- Calendar arithmetic with time zones, and the expansion of repeated blocks into
  dates: `Visits` has one day.
- Pricing and catalogue: arithmetic over one request's data.
- Cash register, daily closing, finance: sums over payments; approval and removal
  of salons: one administrative transaction under a row lock.
- Identity, authentication, tenancy: every model is of one salon and one
  authorised caller.
- Within the modelled parts, what `PROJECT.json` lists under each component as
  left out.
