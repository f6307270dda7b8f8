-------------------------------- MODULE Team --------------------------------
(* The professionals of a salon, their invitations and the agendas its plan    *)
(* allows: src/src/lib/invitations.ts, the activation of a professional        *)
(* (src/src/app/(admin)/profissionais/actions.ts), the owner's own agenda      *)
(* (src/src/app/onboarding/configuracao/actions.ts) and the contract of a plan *)
(* (src/src/lib/billing/service.ts). Only invitations of professionals are     *)
(* modelled: the other roles take no agenda.                                   *)
EXTENDS Integers, FiniteSets

CONSTANTS People,     \* e-mail addresses
          Owner,      \* the owner's own address
          Invites,    \* keys of the rows UserInvite
          Desks,      \* requests of owners and managers
          Guests,     \* requests of invited people
          Legacy,     \* agendas of the plan before any contract
          Contracts,  \* agendas of the plans a contract can be for
          MaxTokens,  \* bound on how often a link is renewed
          MaxAsks,    \* bound on the requests of owners, managers and guests
          Free        \* nobody

VARIABLES plan,       \* the agendas in force, signed for and ever in force
          staff,      \* people with a row Professional, active or not
          active,     \* those whose agenda is active
          invite,     \* the rows UserInvite
          emailLock,  \* holder of user-invite:<salon>:<email>
          capacity,   \* holder of professional-capacity:<salon>
          desk, guest,
          mailed,     \* links that have been sent
          asks        \* requests so far

teamVars == <<plan, staff, active, invite, emailLock, capacity, desk, guest, mailed, asks>>

Callers == Desks \cup Guests

ASSUME TeamAssumption ==
    /\ Legacy \in Nat /\ Contracts \subseteq Nat /\ MaxTokens \in Nat \ {0} /\ MaxAsks \in Nat
    /\ Owner \in People /\ IsFiniteSet(People) /\ IsFiniteSet(Invites)
    /\ Free \notin Callers \cup People \cup Invites
    /\ Desks \cap Guests = {}

NoInvite == [email |-> Free, used |-> FALSE, revoked |-> FALSE, expired |-> FALSE,
             token |-> 0, delivery |-> "SENDING"]
\* token counts the links of an invitation, which is also its sendAttempts.
InviteRow == [email : People \cup {Free}, used : BOOLEAN, revoked : BOOLEAN, expired : BOOLEAN,
              token : 0..MaxTokens, delivery : {"SENDING", "SENT", "FAILED"}]
AtDesk == [pc |-> "idle", who |-> Free, link |-> <<>>, was |-> FALSE, sent |-> FALSE]
AtGuest == [pc |-> "idle", link |-> <<>>]

Links == Invites \X (1..MaxTokens)

TeamTypeOK ==
    /\ plan \in [limit : Nat, signed : Contracts \cup {0}, top : Nat]
    /\ staff \subseteq People /\ active \subseteq staff
    /\ invite \in [Invites -> InviteRow]
    /\ emailLock \in [People -> Desks \cup {Free}] /\ capacity \in Callers \cup {Free}
    /\ desk \in [Desks -> [pc : {"idle", "invite", "insert", "deliver", "mark", "toggle", "activate"},
                          who : People \cup {Free}, link : Links \cup {<<>>}, was : BOOLEAN, sent : BOOLEAN]]
    /\ guest \in [Guests -> [pc : {"idle", "claim", "join"}, link : Links \cup {<<>>}]]
    /\ mailed \subseteq Links /\ asks \in 0..MaxAsks

-----------------------------------------------------------------------------
IsOpen(i) == invite[i].email # Free /\ ~invite[i].used /\ ~invite[i].revoked
IsPending(i) == IsOpen(i) /\ ~invite[i].expired
Pending(emails) == {i \in Invites : IsPending(i) /\ invite[i].email \in emails}

\* assertProfessionalCapacity
HasRoom(reserved) == Cardinality(active) + reserved < plan.limit

\* As CanLock, counting without the lock.
CanLock_Always == TRUE

\* pg_advisory_xact_lock on the salon's professional-capacity key.
CanLock == capacity = Free

Ask == asks < MaxAsks /\ asks' = asks + 1

ToDesk(d, local) == desk' = [desk EXCEPT ![d] = local]
LeaveDesk(d) == ToDesk(d, AtDesk)

-----------------------------------------------------------------------------
(* createUserInvite: the e-mail's lock, then the salon's capacity, then the    *)
(* earlier invitations of the address are replaced by the new one.             *)

EmailFree(e) == emailLock[e] = Free

BeginInvite(d, e) ==
    /\ desk[d].pc = "idle" /\ Ask /\ EmailFree(e) /\ e \notin staff \cup {Owner}
    /\ emailLock' = [emailLock EXCEPT ![e] = d]
    /\ ToDesk(d, [AtDesk EXCEPT !.pc = "invite", !.who = e])
    /\ UNCHANGED <<plan, staff, active, invite, capacity, guest, mailed>>

Unlocked(d) == [e \in People |-> IF emailLock[e] = d THEN Free ELSE emailLock[e]]

CountForInvite(d) ==
    /\ desk[d].pc = "invite" /\ CanLock
    /\ IF HasRoom(Cardinality(Pending(People \ {desk[d].who})))
       THEN /\ capacity' = d /\ UNCHANGED emailLock
            /\ ToDesk(d, [desk[d] EXCEPT !.pc = "insert"])
       ELSE LeaveDesk(d) /\ emailLock' = Unlocked(d) /\ UNCHANGED capacity
    /\ UNCHANGED <<plan, staff, active, invite, guest, mailed, asks>>

\* As Replaced, leaving the expired invitations.
Replaced_Pending(j, e) == IsPending(j) /\ invite[j].email = e

\* Every open invitation of the address, expired or not.
Replaced(j, e) == IsOpen(j) /\ invite[j].email = e

InsertInvite(d, i) ==
    /\ desk[d].pc = "insert" /\ invite[i] = NoInvite
    /\ invite' = [j \in Invites |->
            IF j = i THEN [NoInvite EXCEPT !.email = desk[d].who, !.token = 1]
            ELSE IF Replaced(j, desk[d].who) THEN [invite[j] EXCEPT !.revoked = TRUE]
            ELSE invite[j]]
    /\ emailLock' = Unlocked(d) /\ capacity' = Free
    /\ ToDesk(d, [AtDesk EXCEPT !.pc = "deliver", !.link = <<i, 1>>])
    /\ UNCHANGED <<plan, staff, active, guest, mailed, asks>>

Renewed(row) == [row EXCEPT !.token = @ + 1, !.expired = FALSE, !.delivery = "SENDING"]

\* resendUserInvite: the link is renewed, and with it the time to accept.
Resend(d, i) ==
    /\ desk[d].pc = "idle" /\ Ask /\ IsOpen(i) /\ emailLock[invite[i].email] = Free
    /\ invite[i].token < MaxTokens
    /\ invite' = [invite EXCEPT ![i] = Renewed(invite[i])]
    /\ ToDesk(d, [AtDesk EXCEPT !.pc = "deliver", !.link = <<i, invite[i].token + 1>>])
    /\ UNCHANGED <<plan, staff, active, emailLock, capacity, guest, mailed>>

Revoke(i) ==
    /\ IsOpen(i) /\ emailLock[invite[i].email] = Free
    /\ invite' = [invite EXCEPT ![i].revoked = TRUE]
    /\ UNCHANGED <<plan, staff, active, emailLock, capacity, desk, guest, mailed, asks>>

\* deliverInvite after the commit; a send reported as failed may have gone out.
Deliver(d, goes, reported) ==
    /\ desk[d].pc = "deliver" /\ (reported => goes)
    /\ mailed' = IF goes THEN mailed \cup {desk[d].link} ELSE mailed
    /\ ToDesk(d, [desk[d] EXCEPT !.pc = "mark", !.sent = reported])
    /\ UNCHANGED <<plan, staff, active, invite, emailLock, capacity, guest, asks>>

\* As IsCurrent, without the attempt and the link.
IsCurrent_Open(i, token) == IsOpen(i)

\* markDelivery: only the attempt that is still the current one is recorded.
IsCurrent(i, token) == IsOpen(i) /\ invite[i].token = token /\ invite[i].delivery = "SENDING"

MarkDelivery(d) ==
    /\ desk[d].pc = "mark"
    /\ LET i == desk[d].link[1] IN
       invite' = IF IsCurrent(i, desk[d].link[2])
                 THEN [invite EXCEPT ![i].delivery = IF desk[d].sent THEN "SENT" ELSE "FAILED"] ELSE invite
    /\ LeaveDesk(d)
    /\ UNCHANGED <<plan, staff, active, emailLock, capacity, guest, mailed, asks>>

-----------------------------------------------------------------------------
(* acceptInviteTransaction: read by the link, claim, count under the lock.     *)

OpenLink(g, link) ==
    /\ guest[g].pc = "idle" /\ Ask /\ link \in mailed
    /\ invite[link[1]].token = link[2] /\ IsPending(link[1])
    /\ guest' = [guest EXCEPT ![g] = [pc |-> "claim", link |-> link]]
    /\ UNCHANGED <<plan, staff, active, invite, emailLock, capacity, desk, mailed>>

\* As MayClaim, testing only that the invitation was not used.
MayClaim_Used(link) == ~invite[link[1]].used

\* The claim is conditional on the link that was read, and on its expiry at the
\* time of the read; the row it writes stays locked until the commit, so claim
\* and count are one step.
MayClaim(link) == IsOpen(link[1]) /\ invite[link[1]].token = link[2]

ClaimInvite(g) ==
    /\ guest[g].pc = "claim" /\ CanLock
    /\ LET link == guest[g].link IN
       IF MayClaim(link) /\ invite[link[1]].email \notin staff /\ HasRoom(0)
       THEN /\ invite' = [invite EXCEPT ![link[1]].used = TRUE]
            /\ capacity' = g
            /\ guest' = [guest EXCEPT ![g].pc = "join"]
       ELSE /\ guest' = [guest EXCEPT ![g] = AtGuest]
            /\ UNCHANGED <<invite, capacity>>
    /\ UNCHANGED <<plan, staff, active, emailLock, desk, mailed, asks>>

JoinTeam(g) ==
    /\ guest[g].pc = "join"
    /\ staff' = staff \cup {invite[guest[g].link[1]].email}
    /\ active' = active \cup {invite[guest[g].link[1]].email}
    /\ capacity' = Free
    /\ guest' = [guest EXCEPT ![g] = AtGuest]
    /\ UNCHANGED <<plan, invite, emailLock, desk, mailed, asks>>

-----------------------------------------------------------------------------
(* toggleProfessionalActive reads the row before the lock; an activation       *)
(* counts the active agendas only. enableMySetupAgenda counts invitations too. *)

ReadProfessional(d, e) ==
    /\ desk[d].pc = "idle" /\ Ask /\ e \in staff
    /\ ToDesk(d, [AtDesk EXCEPT !.pc = "toggle", !.who = e, !.was = e \in active])
    /\ UNCHANGED <<plan, staff, active, invite, emailLock, capacity, guest, mailed>>

Deactivate(d) ==
    /\ desk[d].pc = "toggle" /\ desk[d].was
    /\ active' = active \ {desk[d].who}
    /\ LeaveDesk(d)
    /\ UNCHANGED <<plan, staff, invite, emailLock, capacity, guest, mailed, asks>>

CountForActivation(d) ==
    /\ desk[d].pc = "toggle" /\ ~desk[d].was /\ CanLock
    /\ IF HasRoom(0) THEN capacity' = d /\ ToDesk(d, [desk[d] EXCEPT !.pc = "activate"])
       ELSE LeaveDesk(d) /\ UNCHANGED capacity
    /\ UNCHANGED <<plan, staff, active, invite, emailLock, guest, mailed, asks>>

CountForOwner(d) ==
    /\ desk[d].pc = "idle" /\ Ask /\ CanLock
    /\ Owner \notin active /\ HasRoom(Cardinality(Pending(People)))
    /\ capacity' = d /\ ToDesk(d, [AtDesk EXCEPT !.pc = "activate", !.who = Owner])
    /\ UNCHANGED <<plan, staff, active, invite, emailLock, guest, mailed>>

Activate(d) ==
    /\ desk[d].pc = "activate"
    /\ staff' = staff \cup {desk[d].who} /\ active' = active \cup {desk[d].who}
    /\ capacity' = Free /\ LeaveDesk(d)
    /\ UNCHANGED <<plan, invite, emailLock, guest, mailed, asks>>

\* contract counts what is occupied under the lock; the payment puts it in force.
Sign(n) ==
    /\ CanLock /\ Ask /\ plan.signed = 0
    /\ Cardinality(active) + Cardinality(Pending(People)) <= n
    /\ plan' = [plan EXCEPT !.signed = n]
    /\ UNCHANGED <<staff, active, invite, emailLock, capacity, desk, guest, mailed>>

PayContract ==
    /\ plan.signed # 0 /\ plan.limit # plan.signed
    /\ plan' = [plan EXCEPT !.limit = plan.signed, !.top = IF plan.signed > @ THEN plan.signed ELSE @]
    /\ UNCHANGED <<staff, active, invite, emailLock, capacity, desk, guest, mailed, asks>>

-----------------------------------------------------------------------------
LinkExpires(i) ==
    /\ IsPending(i)
    /\ invite' = [invite EXCEPT ![i].expired = TRUE]
    /\ UNCHANGED <<plan, staff, active, emailLock, capacity, desk, guest, mailed, asks>>

\* A request that dies rolls its transaction back; an e-mail stays unrecorded.
DeskStops(d) ==
    /\ desk[d].pc # "idle"
    /\ LeaveDesk(d) /\ emailLock' = Unlocked(d) /\ capacity' = IF capacity = d THEN Free ELSE capacity
    /\ UNCHANGED <<plan, staff, active, invite, guest, mailed, asks>>

GuestStops(g) ==
    /\ guest[g].pc # "idle"
    /\ invite' = IF guest[g].pc = "join" THEN [invite EXCEPT ![guest[g].link[1]].used = FALSE] ELSE invite
    /\ capacity' = IF capacity = g THEN Free ELSE capacity
    /\ guest' = [guest EXCEPT ![g] = AtGuest]
    /\ UNCHANGED <<plan, staff, active, emailLock, desk, mailed, asks>>

TeamInit ==
    /\ plan = [limit |-> Legacy, signed |-> 0, top |-> Legacy]
    /\ staff = {} /\ active = {} /\ mailed = {} /\ capacity = Free /\ asks \in {0, MaxAsks}
    /\ invite = [i \in Invites |-> NoInvite]
    /\ emailLock = [e \in People |-> Free]
    /\ desk = [d \in Desks |-> AtDesk] /\ guest = [g \in Guests |-> AtGuest]

TeamNext ==
    \/ \E d \in Desks, e \in People : BeginInvite(d, e) \/ ReadProfessional(d, e)
    \/ \E d \in Desks, i \in Invites : InsertInvite(d, i) \/ Resend(d, i)
    \/ \E d \in Desks, goes, reported \in BOOLEAN : Deliver(d, goes, reported)
    \/ \E d \in Desks : \/ CountForInvite(d) \/ MarkDelivery(d) \/ Deactivate(d) \/ CountForActivation(d)
                        \/ CountForOwner(d) \/ Activate(d) \/ DeskStops(d)
    \/ \E i \in Invites : Revoke(i) \/ LinkExpires(i)
    \/ \E g \in Guests, link \in Links : OpenLink(g, link)
    \/ \E g \in Guests : ClaimInvite(g) \/ JoinTeam(g) \/ GuestStops(g)
    \/ \E n \in Contracts : Sign(n)
    \/ PayContract

TeamSpec == TeamInit /\ [][TeamNext]_teamVars

-----------------------------------------------------------------------------
\* Guests who accept, activations and the owner's own agenda at the same time
\* never pass the agendas of the largest plan the salon has had.
ActiveWithinPlan == Cardinality(active) <= plan.top

\* An address never has two open invitations, whoever sends or renews them at
\* once; an expired one counts, because a renewal would bring it back.
OneOpenInvite == \A i, j \in Invites : IsOpen(i) /\ IsOpen(j) /\ invite[i].email = invite[j].email => i = j

\* An invitation shown as sent was sent with the link that is valid now, not
\* with one renewed since (markDelivery).
SentIsCurrent == \A i \in Invites : IsOpen(i) /\ invite[i].delivery = "SENT" => <<i, invite[i].token>> \in mailed

\* Nobody joins by a link that was renewed or revoked while the acceptance was
\* under way (the password is hashed between the read and the claim).
JoinsByValidLink ==
    [][\A i \in Invites : ~invite[i].used /\ invite'[i].used =>
            ~invite[i].revoked /\ \E g \in Guests : guest[g].link = <<i, invite[i].token>>]_teamVars
=============================================================================
