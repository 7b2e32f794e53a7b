---------------------------- MODULE SpdWorkflow ----------------------------
(***************************************************************************)
(* The life of an SPD (travel order) across spd-service, the NATS subject  *)
(* "spd.submitted" and the replicas of approval-service.                   *)
(*                                                                         *)
(*   spd-service       POST /spds, POST /spds/:id/submit: one-statement    *)
(*                     transactions on table spds; the event is published  *)
(*                     AFTER the commit, once, with its error ignored.     *)
(*   NATS              core publish/subscribe: a message goes to every     *)
(*                     replica that is subscribed at that moment, at most  *)
(*                     once, and is kept nowhere else.                     *)
(*   approval-service  each replica inserts one PENDING row per message;   *)
(*                     approve/reject is a transaction of two statements,  *)
(*                     whose first one takes row locks.                    *)
(*                                                                         *)
(* PostgreSQL runs at READ COMMITTED.  A one-statement transaction is one  *)
(* step.  A decision is two: DecideRows takes the row locks, and           *)
(* CommitDecision is the second statement with the commit (nothing that    *)
(* another transaction does in between can be told from doing it before).  *)
(***************************************************************************)
EXTENDS Integers, Sequences, FiniteSets

CONSTANTS
  Users,         \* rows of table users
  Role,          \* [Users -> role name]
  Members,       \* the users with a row in user_units
  NoUser,        \* NULL in approver_id and decided_by
  Spds,          \* identities of spds rows, one per nomor_surat (UNIQUE)
  Replicas,      \* running copies of approval-service
  LegacyRows,    \* PENDING approvals imported by tools/etl: <<[spd, approver]>>
  RLSEnforced,   \* are the policies of 0002_rls.sql binding for the services?
  MaxFaults,     \* bound: how many faults a behaviour may contain
  FaultKinds     \* which kinds of fault may occur

Etl == "etl"     \* the source of an imported approvals row

LegacySpds == { LegacyRows[i].spd : i \in DOMAIN LegacyRows }

ASSUME WorkflowAssumption ==
  /\ Users # {}
  /\ NoUser \notin Users
  /\ Members \subseteq Users
  /\ Etl \notin Replicas
  /\ LegacyRows \in Seq([spd : Spds, approver : Users \cup {NoUser}])
  /\ RLSEnforced \in BOOLEAN
  /\ MaxFaults \in Nat
  /\ FaultKinds \subseteq {"publish", "deliver", "crash"}

VARIABLES
  spd,           \* table spds: [Spds -> status and created_by]
  approvals,     \* table approvals, in id order; src is history: who inserted
  deciding,      \* open decision transactions, with the rows they have locked
  unpublished,   \* SPDs whose Submit has committed and not yet published
  subscribed,    \* replicas with a live subscription to spd.submitted
  inbox,         \* [Replicas -> messages delivered and not yet handled]
  faults         \* faults so far

vars == <<spd, approvals, deciding, unpublished, subscribed, inbox, faults>>

Verdicts == {"APPROVED", "REJECTED"}
SpdStatus == {"ABSENT", "DRAFT", "SUBMITTED"} \cup Verdicts
Source == Replicas \cup {Etl}

SpdRow == [status : SpdStatus, createdBy : Users \cup {NoUser}]

ApprovalRow ==
  [spd : Spds, src : Source, approver : Users \cup {NoUser},
   status : {"PENDING"} \cup Verdicts, decidedBy : Users \cup {NoUser}]

Transaction ==
  [user : Users, spd : Spds, verdict : Verdicts, rows : SUBSET Nat]

PendingRow(s, src, approver) ==
  [spd |-> s, src |-> src, approver |-> approver,
   status |-> "PENDING", decidedBy |-> NoUser]

-----------------------------------------------------------------------------
(* Who may do what *)

\* canApprove: the roles that may decide.
CanApprove(u) ==
  Role[u] \in {"SUPER_ADMIN", "APPROVER", "FINANCE", "BUDGET_ADMIN"}

\* Policy spds_insert, for a row created by u in a unit of u's choice.
MayInsert(u) ==
  RLSEnforced => u \in Members \/ Role[u] = "SUPER_ADMIN"

\* Policy spds_update.  A row it hides is not an error: the UPDATE finds
\* nothing to change.
MayUpdate(u, s) ==
  RLSEnforced => spd[s].createdBy = u \/ Role[u] = "SUPER_ADMIN"

\* Variant: the UPDATE without its status condition.
DecidableTwice(u, s) ==
  { i \in DOMAIN approvals :
      approvals[i].spd = s /\ approvals[i].approver \in {NoUser, u} }

\* The rows the UPDATE of a decision selects; ListPending selects by the same
\* condition over all SPDs.
Decidable(u, s) ==
  { i \in DOMAIN approvals :
      /\ approvals[i].spd = s
      /\ approvals[i].status = "PENDING"
      /\ approvals[i].approver \in {NoUser, u} }

ListPending(u) == UNION { Decidable(u, s) : s \in Spds }

HasRow(s) == \E i \in DOMAIN approvals : approvals[i].spd = s

-----------------------------------------------------------------------------
Init ==
  /\ spd \in [Spds -> SpdRow]
  /\ \A s \in Spds :
       IF s \in LegacySpds
       THEN spd[s].status = "SUBMITTED" /\ spd[s].createdBy \in Users
       ELSE spd[s] = [status |-> "ABSENT", createdBy |-> NoUser]
  /\ approvals = [i \in DOMAIN LegacyRows |->
                    PendingRow(LegacyRows[i].spd, Etl, LegacyRows[i].approver)]
  /\ deciding = {}
  /\ unpublished = {}
  /\ subscribed = Replicas
  /\ inbox = [r \in Replicas |-> {}]
  /\ faults = 0

-----------------------------------------------------------------------------
(* spd-service *)

\* POST /spds.  The UNIQUE constraint refuses a second row for s.
Create(u, s) ==
  /\ spd[s].status = "ABSENT"
  /\ MayInsert(u)
  /\ spd' = [spd EXCEPT ![s] = [status |-> "DRAFT", createdBy |-> u]]
  /\ UNCHANGED <<approvals, deciding, unpublished, subscribed, inbox, faults>>

\* Variants: no DRAFT condition; no event; the status of the other table.
SubmitAgain(u, s) ==
  /\ spd[s].status # "ABSENT"
  /\ MayUpdate(u, s)
  /\ spd' = [spd EXCEPT ![s].status = "SUBMITTED"]
  /\ unpublished' = unpublished \cup {s}
  /\ UNCHANGED <<approvals, deciding, subscribed, inbox, faults>>

SubmitSilently(u, s) ==
  /\ spd[s].status = "DRAFT"
  /\ MayUpdate(u, s)
  /\ spd' = [spd EXCEPT ![s].status = "SUBMITTED"]
  /\ UNCHANGED <<approvals, deciding, unpublished, subscribed, inbox, faults>>

SubmitAsPending(u, s) ==
  /\ spd[s].status = "DRAFT"
  /\ MayUpdate(u, s)
  /\ spd' = [spd EXCEPT ![s].status = "PENDING"]
  /\ unpublished' = unpublished \cup {s}
  /\ UNCHANGED <<approvals, deciding, subscribed, inbox, faults>>

\* POST /spds/:id/submit up to the commit.  No role is asked for.
Submit(u, s) ==
  /\ spd[s].status = "DRAFT"
  /\ MayUpdate(u, s)
  /\ spd' = [spd EXCEPT ![s].status = "SUBMITTED"]
  /\ unpublished' = unpublished \cup {s}
  /\ UNCHANGED <<approvals, deciding, subscribed, inbox, faults>>

\* Variant: a queue group, which hands the message to one replica only.
PublishToOne(s) ==
  /\ s \in unpublished
  /\ unpublished' = unpublished \ {s}
  /\ \E r \in subscribed : inbox' = [inbox EXCEPT ![r] = @ \cup {s}]
  /\ UNCHANGED <<spd, approvals, deciding, subscribed, faults>>

\* The rest of Submit: nc.Publish reaches whoever is subscribed now.
Publish(s) ==
  /\ s \in unpublished
  /\ unpublished' = unpublished \ {s}
  /\ inbox' = [r \in Replicas |->
                 IF r \in subscribed THEN inbox[r] \cup {s} ELSE inbox[r]]
  /\ UNCHANGED <<spd, approvals, deciding, subscribed, faults>>

Fault(kind) ==
  /\ kind \in FaultKinds
  /\ faults < MaxFaults
  /\ faults' = faults + 1

\* The event never leaves spd-service: it crashed after the commit, had no
\* NATS connection since it started, or Publish failed (its error is dropped).
LosePublish(s) ==
  /\ Fault("publish")
  /\ s \in unpublished
  /\ unpublished' = unpublished \ {s}
  /\ UNCHANGED <<spd, approvals, deciding, subscribed, inbox>>

-----------------------------------------------------------------------------
(* approval-service: the consumer of one replica *)

\* Variant: the message is handled and delivered again.
ConsumeRedelivered(r, s) ==
  /\ s \in inbox[r]
  /\ approvals' = Append(approvals, PendingRow(s, r, NoUser))
  /\ UNCHANGED <<spd, deciding, unpublished, subscribed, inbox, faults>>

\* The subscription callback.  ON CONFLICT DO NOTHING guards nothing here: the
\* table has no unique constraint on (spd_id, step).
Consume(r, s) ==
  /\ s \in inbox[r]
  /\ inbox' = [inbox EXCEPT ![r] = @ \ {s}]
  /\ approvals' = Append(approvals, PendingRow(s, r, NoUser))
  /\ UNCHANGED <<spd, deciding, unpublished, subscribed, faults>>

\* The insert fails and is only logged, or NATS drops the message.
LoseMessage(r, s) ==
  /\ Fault("deliver")
  /\ s \in inbox[r]
  /\ inbox' = [inbox EXCEPT ![r] = @ \ {s}]
  /\ UNCHANGED <<spd, approvals, deciding, unpublished, subscribed>>

\* A replica stops or loses NATS: what it had not handled is gone.
Crash(r) ==
  /\ Fault("crash")
  /\ r \in subscribed
  /\ subscribed' = subscribed \ {r}
  /\ inbox' = [inbox EXCEPT ![r] = {}]
  /\ UNCHANGED <<spd, approvals, deciding, unpublished>>

\* It starts again and subscribes; nothing is replayed.
Restart(r) ==
  /\ r \in Replicas \ subscribed
  /\ subscribed' = subscribed \cup {r}
  /\ UNCHANGED <<spd, approvals, deciding, unpublished, inbox, faults>>

-----------------------------------------------------------------------------
(* approval-service: POST /approvals/:spd_id/approve and .../reject *)

\* Variant: the rows are read and not locked.
DecideUnlocked(u, s, v) ==
  LET rows == Decidable(u, s) IN
  /\ CanApprove(u)
  /\ rows # {}
  /\ deciding' = deciding \cup
       {[user |-> u, spd |-> s, verdict |-> v, rows |-> rows]}
  /\ UNCHANGED <<spd, approvals, unpublished, subscribed, inbox, faults>>

\* The first statement: it locks every row it updates and waits for a row
\* that another open transaction has locked; no row, no decision (400).
DecideRows(u, s, v) ==
  LET rows == Decidable(u, s) IN
  /\ CanApprove(u)
  /\ rows # {}
  /\ \A t \in deciding : t.rows \cap rows = {}
  /\ deciding' = deciding \cup
       {[user |-> u, spd |-> s, verdict |-> v, rows |-> rows]}
  /\ UNCHANGED <<spd, approvals, unpublished, subscribed, inbox, faults>>

\* The second statement and the commit.  Neither the SPD's status nor the
\* number of rows the second UPDATE changed is looked at.
CommitDecision(t) ==
  /\ deciding' = deciding \ {t}
  /\ approvals' = [i \in DOMAIN approvals |->
       IF i \in t.rows
       THEN [approvals[i] EXCEPT !.status = t.verdict, !.decidedBy = t.user]
       ELSE approvals[i]]
  /\ spd' = IF MayUpdate(t.user, t.spd)
            THEN [spd EXCEPT ![t.spd].status = t.verdict]
            ELSE spd
  /\ UNCHANGED <<unpublished, subscribed, inbox, faults>>

\* The transaction fails or its replica dies: PostgreSQL rolls it back.
Rollback(t) ==
  /\ deciding' = deciding \ {t}
  /\ UNCHANGED <<spd, approvals, unpublished, subscribed, inbox, faults>>

-----------------------------------------------------------------------------
Next ==
  \/ \E u \in Users, s \in Spds : Create(u, s) \/ Submit(u, s)
  \/ \E s \in Spds : Publish(s) \/ LosePublish(s)
  \/ \E r \in Replicas, s \in Spds : Consume(r, s) \/ LoseMessage(r, s)
  \/ \E r \in Replicas : Crash(r) \/ Restart(r)
  \/ \E u \in Users, s \in Spds, v \in Verdicts : DecideRows(u, s, v)
  \/ \E t \in deciding : CommitDecision(t) \/ Rollback(t)

Spec == Init /\ [][Next]_vars

\* The goroutine that serves Submit goes on to publish, and the subscription's
\* goroutine hands every queued message to the callback.  Nobody is obliged to
\* submit, to decide or to restart anything.
Fairness ==
  /\ \A s \in Spds : WF_vars(Publish(s))
  /\ \A r \in Replicas, s \in Spds : WF_vars(Consume(r, s))

FairSpec == Spec /\ Fairness
-----------------------------------------------------------------------------
(* Properties *)

\* Every table and every process variable holds what its columns allow.
TypeOK ==
  /\ spd \in [Spds -> SpdRow]
  /\ approvals \in Seq(ApprovalRow)
  /\ deciding \subseteq Transaction
  /\ unpublished \subseteq Spds
  /\ subscribed \subseteq Replicas
  /\ inbox \in [Replicas -> SUBSET Spds]
  /\ faults \in 0 .. MaxFaults

\* Row locks: an open decision holds rows that are still PENDING, that its
\* user may decide, and that no other open decision holds (repo.go:48-58).
LocksExclusive ==
  /\ \A t \in deciding :
       /\ CanApprove(t.user)
       /\ t.rows # {}
       /\ t.rows \subseteq Decidable(t.user, t.spd)
  /\ \A t1, t2 \in deciding : t1.rows \cap t2.rows # {} => t1 = t2

\* An APPROVED or REJECTED SPD is so because of an approvals row that says the
\* same, decided by somebody who may decide and whom the row does not exclude.
\* It relates the two statements of the transaction over every interleaving
\* of decisions (repo.go:41-104).
StatusBacked ==
  \A s \in Spds :
    spd[s].status \in Verdicts =>
      \E i \in DOMAIN approvals :
        /\ approvals[i].spd = s
        /\ approvals[i].status = spd[s].status
        /\ approvals[i].decidedBy \in Users
        /\ CanApprove(approvals[i].decidedBy)
        /\ approvals[i].approver \in {NoUser, approvals[i].decidedBy}

\* A row once decided keeps its decision and its decider, and no row is ever
\* deleted: of two concurrent decisions of one row only one counts.
RowsImmutable ==
  \A i \in DOMAIN approvals :
    /\ i \in DOMAIN approvals'
    /\ approvals[i].status # "PENDING" => approvals'[i] = approvals[i]

RowsImmutableAlways == [][RowsImmutable]_vars

\* One replica inserts at most one row per SPD: an SPD is submitted once and a
\* message is handled once.  (Two replicas do insert two rows.)
OneRowPerReplica ==
  \A i, j \in DOMAIN approvals :
    /\ approvals[i].spd = approvals[j].spd
    /\ approvals[i].src = approvals[j].src
    /\ approvals[i].src # Etl
    => i = j

\* An SPD has no approvals row, and nothing is on its way to create one,
\* before it is submitted.
NothingBeforeSubmit ==
  \A s \in Spds :
    spd[s].status \in {"ABSENT", "DRAFT"} =>
      /\ ~ HasRow(s)
      /\ s \notin unpublished
      /\ \A r \in Replicas : s \notin inbox[r]

\* Every PENDING row that ListPending offers belongs to an SPD that waits for a
\* decision.  Holds with one row per SPD and without RLS; each of a second
\* replica, a second imported step and RLS breaks it.
PendingIsSubmitted ==
  \A u \in Users : \A i \in ListPending(u) :
    spd[approvals[i].spd].status = "SUBMITTED"

\* A decided row and its SPD agree ("Approved", api/approval-service.yaml:49).
\* Holds under the same conditions: under RLS the second UPDATE of a decision
\* may change nothing and still commit.
DecisionsAgree ==
  \A i \in DOMAIN approvals :
    approvals[i].status # "PENDING" =>
      spd[approvals[i].spd].status = approvals[i].status

\* An SPD that is APPROVED or REJECTED stays as it is.
DecisionFinal ==
  \A s \in Spds :
    spd[s].status \in Verdicts => spd'[s] = spd[s]

DecisionFinalAlways == [][DecisionFinal]_vars

\* A submitted SPD is never lost: it is decided, or an approver can find it, or
\* the event that will make it so is still on its way.
NoStuckSpd ==
  \A s \in Spds :
    spd[s].status = "SUBMITTED" =>
      \/ HasRow(s)
      \/ s \in unpublished
      \/ \E r \in Replicas : s \in inbox[r]

\* And it is found: a submitted SPD is eventually offered for approval.
EventuallyQueued ==
  \A s \in Spds : spd[s].status = "SUBMITTED" ~> HasRow(s)
-----------------------------------------------------------------------------
(* Refinement: the statuses in table spds follow the abstract lifecycle *)

statusOf == [s \in Spds |-> spd[s].status]

Lifecycle ==
  INSTANCE SpdLifecycle WITH status <- statusOf, Redecidable <- TRUE

FinalLifecycle ==
  INSTANCE SpdLifecycle WITH status <- statusOf, Redecidable <- FALSE

\* Drafted, submitted once, decided, never reopened: with any number of
\* replicas, faults and imported rows (the guards at repo.go:114 of
\* spd-service and repo.go:51 of approval-service).
ImplementsLifecycle == Lifecycle!Spec

\* With one row per SPD a decision is also final.
ImplementsFinalLifecycle == FinalLifecycle!Spec
=============================================================================
