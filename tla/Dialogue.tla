------------------------------ MODULE Dialogue ------------------------------
(* One conversation with the secretary about one change of a client's record:  *)
(* the leased, versioned row of the conversation                               *)
(* (src/src/lib/secretary-session-store.ts), the working copy of the process   *)
(* that serves a call (src/src/lib/salon-secretary.ts), and the journal of     *)
(* drafts, proposals and confirmations (src/src/lib/secretary-journal.ts,      *)
(* src/src/lib/customer-actions.ts). What the model understands of a message   *)
(* is any change of the draft; whether the change still fits the record is a   *)
(* choice.                                                                     *)
EXTENDS Integers, FiniteSets

CONSTANTS Workers,      \* processes of the application
          Absent,       \* no process
          Calls,        \* messages, confirmations and cancellations, numbered as they come
          MaxDrafts,    \* bound on the drafts of the conversation
          MaxRevisions, \* bound on the revisions of a draft
          MaxCrashes    \* bound on leases that lapse and processes that stop

VARIABLES chat,         \* the row SecretaryConversation
          journal,      \* the rows AuditLog of each draft
          copy,         \* the call whose working copy each process holds
          call,         \* what every call is doing
          done,         \* the changes carried out, with draft and revision
          crashes       \* leases lapsed and processes stopped so far

dialogueVars == <<chat, journal, copy, call, done, crashes>>

Drafts == 1..MaxDrafts
Revisions == 1..MaxRevisions

ASSUME DialogueAssumption ==
    /\ MaxDrafts \in Nat /\ MaxRevisions \in Nat /\ MaxCrashes \in Nat
    /\ Calls \subseteq Nat \ {0} /\ Absent \notin Workers

\* turns are the messages that shaped this state of the conversation.
State == [draft : Drafts \cup {0}, revision : Revisions \cup {0}, proposal : Revisions \cup {0},
          receipt : BOOLEAN, cancelled : BOOLEAN, turns : SUBSET Calls]
Opened == [draft |-> 0, revision |-> 0, proposal |-> 0, receipt |-> FALSE, cancelled |-> FALSE, turns |-> {}]
\* A proposal is written once for a revision, so that the revision names it.
Record == [latest : Revisions \cup {0}, proposals : SUBSET Revisions, confirmed : Revisions \cup {0}]
Waiting == [pc |-> "waiting", kind |-> "message", at |-> Absent, version |-> 0, shown |-> 0, state |-> Opened]

DialogueTypeOK ==
    /\ chat \in [version : Nat, leased : BOOLEAN, saved : State]
    /\ journal \in [Drafts -> Record]
    /\ copy \in [Workers -> Calls \cup {0}]
    /\ call \in [Calls -> [pc : {"waiting", "run", "propose", "save", "over"}, kind : {"message", "confirm", "cancel"},
                           at : Workers \cup {Absent}, version : Nat, shown : Revisions \cup {0}, state : State]]
    /\ done \subseteq [by : Calls, draft : Drafts, revision : Revisions]
    /\ crashes \in 0..MaxCrashes

-----------------------------------------------------------------------------
Goes(c, local) == call' = [call EXCEPT ![c] = local]
Has(c, pc, kind) == call[c].pc = pc /\ call[c].kind = kind
\* The call goes on to save s, whether it succeeded or not.
Settle(c, s) == Goes(c, [call[c] EXCEPT !.pc = "save", !.state = s])

\* load and rehydrate: the lease, a new version and this process's own copy.
\* shown is the proposal on the person's screen.
Load(c, p, kind, shown) ==
    /\ call[c].pc = "waiting" /\ \A e \in Calls : e < c => call[e].pc # "waiting"
    /\ kind = "confirm" => \E d \in Drafts : shown \in journal[d].proposals
    /\ ~chat.leased
    /\ chat' = [chat EXCEPT !.version = @ + 1, !.leased = TRUE]
    /\ copy' = [copy EXCEPT ![p] = c]
    /\ Goes(c, [pc |-> "run", kind |-> kind, at |-> p, version |-> chat.version + 1, shown |-> shown,
                state |-> chat.saved])
    /\ UNCHANGED <<journal, done, crashes>>

Closed(s) == s.cancelled \/ s.receipt

-----------------------------------------------------------------------------
(* A message: the draft's next revision, then its proposal, each in a          *)
(* transaction of its own under the draft's lock.                              *)

\* As MayAmend, without looking for a confirmation.
MayAmend_Confirmed(d, revision) == journal[d].latest = revision

\* upsertCustomerDraft: the revision that was read, of a draft never confirmed.
MayAmend(d, revision) == journal[d].latest = revision /\ journal[d].confirmed = 0

\* A new draft has a reference of its own, which no other draft has.
IsNew(d) == \A e \in Drafts : journal[e].latest = 0 => d <= e

Amend(c, d) ==
    /\ Has(c, "run", "message") /\ ~Closed(call[c].state)
    /\ LET s == call[c].state IN
       /\ IF s.draft = 0 THEN journal[d].latest = 0 /\ IsNew(d) ELSE d = s.draft
       /\ IF MayAmend(d, s.revision)
          THEN /\ s.revision < MaxRevisions
               /\ journal' = [journal EXCEPT ![d].latest = @ + 1]
               /\ Goes(c, [call[c] EXCEPT !.pc = "propose", !.state = [s EXCEPT
                      !.draft = d, !.revision = s.revision + 1, !.proposal = 0, !.turns = @ \cup {c}]])
          ELSE Settle(c, [s EXCEPT !.proposal = 0]) /\ UNCHANGED journal
    /\ UNCHANGED <<chat, copy, done, crashes>>

\* Nothing to write down, a contradiction, a conversation that is over.
AnswerOnly(c) ==
    /\ Has(c, "run", "message")
    /\ Settle(c, IF Closed(call[c].state) THEN call[c].state ELSE [call[c].state EXCEPT !.proposal = 0, !.turns = @ \cup {c}])
    /\ UNCHANGED <<chat, journal, copy, done, crashes>>

MayPropose(d, revision) == journal[d].latest = revision

Propose(c) ==
    /\ call[c].pc = "propose"
    /\ LET s == call[c].state IN
       \/ /\ MayPropose(s.draft, s.revision)
          /\ journal' = [journal EXCEPT ![s.draft].proposals = @ \cup {s.revision}]
          /\ Settle(c, [s EXCEPT !.proposal = s.revision])
       \/ Settle(c, s) /\ UNCHANGED journal
    /\ UNCHANGED <<chat, copy, done, crashes>>

-----------------------------------------------------------------------------
(* confirmJournalAction, one transaction under the draft's lock.               *)

\* As NotBefore, relying on the conversation's own receipt.
NotBefore_Unchecked(d) == TRUE

\* No confirmation of the draft is in the journal.
NotBefore(d) == journal[d].confirmed = 0
IsLatest(d, revision) == journal[d].latest = revision

Confirm(c) ==
    /\ Has(c, "run", "confirm")
    /\ LET s == call[c].state
           d == s.draft
           r == call[c].shown
       IN  \/ \* another proposal than the one that was shown
              /\ s.cancelled \/ s.proposal = 0 \/ s.proposal # r
              /\ Settle(c, s) /\ UNCHANGED <<journal, done>>
           \/ \* carried out now
              /\ ~s.cancelled /\ s.proposal # 0 /\ s.proposal = r
              /\ IsLatest(d, r) /\ NotBefore(d)
              /\ journal' = [journal EXCEPT ![d].confirmed = r]
              /\ done' = done \cup {[by |-> c, draft |-> d, revision |-> r]}
              /\ Settle(c, [s EXCEPT !.receipt = TRUE])
           \/ \* carried out before: the same receipt
              /\ ~s.cancelled /\ s.proposal # 0 /\ s.proposal = r
              /\ IsLatest(d, r) /\ journal[d].confirmed = r
              /\ Settle(c, [s EXCEPT !.receipt = TRUE]) /\ UNCHANGED <<journal, done>>
           \/ \* refused; a client changed meanwhile ends the conversation
              /\ ~s.cancelled /\ s.proposal # 0 /\ s.proposal = r
              /\ \E ends \in BOOLEAN :
                    /\ ends => IsLatest(d, r) /\ NotBefore(d)
                    /\ Settle(c, IF ends THEN [s EXCEPT !.proposal = 0, !.cancelled = TRUE] ELSE s)
              /\ UNCHANGED <<journal, done>>
    /\ UNCHANGED <<chat, copy, crashes>>

Cancel(c) ==
    /\ Has(c, "run", "cancel")
    /\ Settle(c, IF call[c].state.receipt THEN call[c].state ELSE [call[c].state EXCEPT !.cancelled = TRUE, !.proposal = 0])
    /\ UNCHANGED <<chat, journal, copy, done, crashes>>

-----------------------------------------------------------------------------
\* As MaySave, without the version.
MaySave_Any(version) == TRUE

\* The save compares the version; what it saves is the copy the process holds,
\* which is another call's if the lease passed to it in the same process. The
\* copy is forgotten with the call, and a process without one saves nothing.
MaySave(version) == chat.version = version

Save(c) ==
    /\ call[c].pc = "save"
    /\ LET p == call[c].at
           kept == copy[p]
       IN  /\ chat' = IF kept # 0 /\ MaySave(call[c].version)
                      THEN [version |-> chat.version + 1, leased |-> FALSE, saved |-> call[kept].state]
                      ELSE chat
           /\ copy' = [copy EXCEPT ![p] = 0]
    /\ Goes(c, [Waiting EXCEPT !.pc = "over"])
    /\ UNCHANGED <<journal, done, crashes>>

Crash == crashes < MaxCrashes /\ crashes' = crashes + 1

\* A call is slower than the lease, or its process is gone.
LeaseLapses ==
    /\ chat.leased
    /\ IF \E c \in Calls : call[c].version = chat.version THEN Crash ELSE UNCHANGED crashes
    /\ chat' = [chat EXCEPT !.leased = FALSE]
    /\ UNCHANGED <<journal, copy, call, done>>

WorkerStops(p) ==
    /\ (\E c \in Calls : call[c].at = p) /\ Crash
    /\ copy' = [copy EXCEPT ![p] = 0]
    /\ call' = [c \in Calls |-> IF call[c].at = p THEN [Waiting EXCEPT !.pc = "over"] ELSE call[c]]
    /\ UNCHANGED <<chat, journal, done>>

DialogueInit ==
    /\ chat = [version |-> 1, leased |-> FALSE, saved |-> Opened]
    /\ journal = [d \in Drafts |-> [latest |-> 0, proposals |-> {}, confirmed |-> 0]]
    /\ copy = [p \in Workers |-> 0]
    /\ \E pc \in {"waiting", "over"} : call = [c \in Calls |-> [Waiting EXCEPT !.pc = pc]]
    /\ done = {} /\ crashes = 0

DialogueNext ==
    \/ \E c \in Calls, p \in Workers, shown \in Revisions : Load(c, p, "confirm", shown)
    \/ \E c \in Calls, p \in Workers, kind \in {"message", "cancel"} : Load(c, p, kind, 0)
    \/ \E c \in Calls, d \in Drafts : Amend(c, d)
    \/ \E c \in Calls : AnswerOnly(c) \/ Propose(c) \/ Confirm(c) \/ Cancel(c) \/ Save(c)
    \/ LeaseLapses
    \/ \E p \in Workers : WorkerStops(p)

DialogueSpec == DialogueInit /\ [][DialogueNext]_dialogueVars

-----------------------------------------------------------------------------
\* A conversation carries out at most one change, however often it is confirmed
\* and whichever draft a slow call or a stopped process left behind.
CarriedOutOnce == Cardinality(done) <= 1

\* What was carried out is the draft's last revision for good: it is neither an
\* earlier one than the person was shown nor amended after the confirmation.
DoneIsFinal == \A x \in done : journal[x.draft].latest = x.revision

\* A saved conversation keeps every message saved before, with a slow call whose
\* lease passed to another one and saves late.
SavedTurnsStand == [][chat.saved.turns \subseteq chat'.saved.turns]_dialogueVars
=============================================================================
