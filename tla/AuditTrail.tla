----------------------------- MODULE AuditTrail -----------------------------
(***************************************************************************)
(* Access to budgets and its trail: budget-service reads or writes table   *)
(* budgets, publishes an event on audit.log, and only then answers; every  *)
(* subscribed replica of audit-service appends the event to audit_logs.    *)
(*                                                                         *)
(* A replica of budget-service that did not reach NATS when it started     *)
(* serves requests without publishing anything.  audit-service does not    *)
(* start without NATS.  A request publishes at most one event, so the event*)
(* is named by its request.                                                *)
(***************************************************************************)
EXTENDS Integers, FiniteSets

CONSTANTS
  Requests,    \* authenticated requests to budget-service
  Action,      \* [Requests -> action the request asks for]
  Manager,     \* the requests whose token has a budget-managing role
  Imported,    \* budgets rows written by tools/etl
  Sealed,      \* of these, the ones whose amount or source is NULL
  NoBudget,    \* no row
  Servers,     \* running copies of budget-service
  Auditors,    \* running copies of audit-service
  MaxFaults,   \* bound: how many faults a behaviour may contain
  FaultKinds   \* which kinds of fault may occur

Actions == {"CREATE_BUDGET", "VIEW_BUDGET"}

ASSUME AuditAssumption ==
  /\ Action \in [Requests -> Actions]
  /\ Manager \subseteq Requests
  /\ IsFiniteSet(Auditors)
  /\ Sealed \subseteq Imported
  /\ Imported \cap Requests = {}
  /\ NoBudget \notin Imported \cup Requests
  /\ MaxFaults \in Nat
  /\ FaultKinds \subseteq {"publish", "deliver", "server", "connect", "auditor"}

VARIABLES
  budgets,     \* table budgets: the imported rows, the others named by request
  step,        \* [Requests -> where the handler is]
  at,          \* [Requests -> the server that handles it, once it does]
  target,      \* [Requests -> the row it created or read]
  answer,      \* [Requests -> what the client was told]
  link,        \* [Servers -> is there a NATS connection?]
  subscribed,  \* auditors with a live subscription to audit.log
  inbox,       \* [Auditors -> events delivered and not yet handled]
  log,         \* rows of audit_logs; by, the auditor that inserted, is history
  unsent,      \* history: requests whose event was not published
  faults       \* faults so far

access == <<budgets, step, at, target, answer, link, unsent>>
trail == <<subscribed, inbox, log>>

vars == <<access, trail, faults>>

Step == {"new", "committed", "audited", "done"}
Answer == {"none", "refused", "plain", "masked", "error"}
LogRow == [event : Requests, by : Auditors]
Budgets == Imported \cup Requests

Logged(q) == \E e \in log : e.event = q
InFlight(q) == \E a \in Auditors : q \in inbox[a]

Init ==
  /\ budgets = Imported
  /\ step = [q \in Requests |-> "new"]
  /\ at \in [Requests -> Servers]
  /\ target = [q \in Requests |-> NoBudget]
  /\ answer = [q \in Requests |-> "none"]
  /\ link = [s \in Servers |-> TRUE]
  /\ subscribed = Auditors
  /\ inbox = [a \in Auditors |-> {}]
  /\ log = {}
  /\ unsent = {}
  /\ faults = 0

Fault(kind) ==
  /\ kind \in FaultKinds
  /\ faults < MaxFaults
  /\ faults' = faults + 1

-----------------------------------------------------------------------------
(* budget-service *)

\* 403 for a create without the role, 404 for a read of no row: no event.
Refuse(q) ==
  /\ step[q] = "new"
  /\ Action[q] = "CREATE_BUDGET" => q \notin Manager
  /\ step' = [step EXCEPT ![q] = "done"]
  /\ answer' = [answer EXCEPT ![q] = "refused"]
  /\ UNCHANGED <<budgets, at, target, link, trail, unsent, faults>>

\* POST /budgets up to the commit.
Create(q) ==
  /\ step[q] = "new"
  /\ Action[q] = "CREATE_BUDGET"
  /\ q \in Manager
  /\ budgets' = budgets \cup {q}
  /\ target' = [target EXCEPT ![q] = q]
  /\ step' = [step EXCEPT ![q] = "committed"]
  /\ UNCHANGED <<at, answer, link, trail, unsent, faults>>

\* GET /budgets/:id up to the end of its transaction.
Get(q, b) ==
  /\ step[q] = "new"
  /\ Action[q] = "VIEW_BUDGET"
  /\ b \in budgets
  /\ target' = [target EXCEPT ![q] = b]
  /\ step' = [step EXCEPT ![q] = "committed"]
  /\ UNCHANGED <<budgets, at, answer, link, trail, unsent, faults>>

\* Variants: a queue group; an event at the wrong moment; no event for reads.
PublishToOne(q) ==
  /\ step[q] = "committed"
  /\ step' = [step EXCEPT ![q] = "audited"]
  /\ \E a \in subscribed : inbox' = [inbox EXCEPT ![a] = @ \cup {q}]
  /\ unsent' = IF link[at[q]] THEN unsent ELSE unsent \cup {q}
  /\ UNCHANGED <<budgets, at, target, answer, link, subscribed, log, faults>>

PublishEarly(q) ==
  /\ step[q] \in {"new", "committed"}
  /\ step' = [step EXCEPT ![q] = IF @ = "new" THEN @ ELSE "audited"]
  /\ inbox' = [a \in Auditors |->
                 IF link[at[q]] /\ a \in subscribed
                 THEN inbox[a] \cup {q} ELSE inbox[a]]
  /\ unsent' = IF link[at[q]] THEN unsent ELSE unsent \cup {q}
  /\ UNCHANGED <<budgets, at, target, answer, link, subscribed, log, faults>>

PublishWrites(q) ==
  /\ step[q] = "committed"
  /\ step' = [step EXCEPT ![q] = "audited"]
  /\ inbox' = [a \in Auditors |->
                 IF a \in subscribed /\ Action[q] = "CREATE_BUDGET"
                 THEN inbox[a] \cup {q} ELSE inbox[a]]
  /\ unsent' = IF link[at[q]] THEN unsent ELSE unsent \cup {q}
  /\ UNCHANGED <<budgets, at, target, answer, link, subscribed, log, faults>>

\* publishAudit: without a connection it does nothing at all.
PublishAudit(q) ==
  /\ step[q] = "committed"
  /\ step' = [step EXCEPT ![q] = "audited"]
  /\ inbox' = [a \in Auditors |->
                 IF link[at[q]] /\ a \in subscribed
                 THEN inbox[a] \cup {q} ELSE inbox[a]]
  /\ unsent' = IF link[at[q]] THEN unsent ELSE unsent \cup {q}
  /\ UNCHANGED <<budgets, at, target, answer, link, subscribed, log, faults>>

\* Its publication fails (the error is dropped) or never reaches NATS.
LoseAudit(q) ==
  /\ Fault("publish")
  /\ step[q] = "committed"
  /\ step' = [step EXCEPT ![q] = "audited"]
  /\ unsent' = unsent \cup {q}
  /\ UNCHANGED <<budgets, at, target, answer, link, trail>>

\* toResponse: decrypted for a manager, masked for others.  A NULL column does
\* not decrypt, and the request fails after it was audited.
Respond(q) ==
  /\ step[q] = "audited"
  /\ step' = [step EXCEPT ![q] = "done"]
  /\ answer' = [answer EXCEPT ![q] =
       IF q \notin Manager THEN "masked"
       ELSE IF target[q] \in Sealed THEN "error" ELSE "plain"]
  /\ UNCHANGED <<budgets, at, target, link, trail, unsent, faults>>

\* A server dies: its requests get no answer, what they committed stays.  It
\* comes back with or without a connection.
ServerRestart(s) ==
  /\ Fault("server")
  /\ step' = [q \in Requests |->
                IF at[q] = s /\ step[q] # "new" THEN "done" ELSE step[q]]
  /\ link' = [link EXCEPT ![s] = TRUE]
  /\ UNCHANGED <<budgets, at, target, answer, trail, unsent>>

ServerRestartOffline(s) ==
  /\ Fault("connect")
  /\ step' = [q \in Requests |->
                IF at[q] = s /\ step[q] # "new" THEN "done" ELSE step[q]]
  /\ link' = [link EXCEPT ![s] = FALSE]
  /\ UNCHANGED <<budgets, at, target, answer, trail, unsent>>

-----------------------------------------------------------------------------
(* audit-service *)

\* The subscription's callback inserts one row; an auditor is delivered an event
\* once, so the two name the row.
Consume(a, q) ==
  /\ q \in inbox[a]
  /\ inbox' = [inbox EXCEPT ![a] = @ \ {q}]
  /\ log' = log \cup {[event |-> q, by |-> a]}
  /\ UNCHANGED <<access, subscribed, faults>>

\* The insert fails and is only logged, or NATS drops the message.
LoseEvent(a, q) ==
  /\ Fault("deliver")
  /\ q \in inbox[a]
  /\ inbox' = [inbox EXCEPT ![a] = @ \ {q}]
  /\ UNCHANGED <<access, subscribed, log>>

\* An auditor stops, with the events it had not handled.
AuditorCrash(a) ==
  /\ Fault("auditor")
  /\ a \in subscribed
  /\ subscribed' = subscribed \ {a}
  /\ inbox' = [inbox EXCEPT ![a] = {}]
  /\ UNCHANGED <<access, log>>

AuditorRestart(a) ==
  /\ a \in Auditors \ subscribed
  /\ subscribed' = subscribed \cup {a}
  /\ UNCHANGED <<access, inbox, log, faults>>

-----------------------------------------------------------------------------
Next ==
  \/ \E q \in Requests :
       \/ Refuse(q)
       \/ Create(q)
       \/ \E b \in Budgets : Get(q, b)
       \/ PublishAudit(q)
       \/ LoseAudit(q)
       \/ Respond(q)
  \/ \E s \in Servers : ServerRestart(s) \/ ServerRestartOffline(s)
  \/ \E a \in Auditors, q \in Requests : Consume(a, q) \/ LoseEvent(a, q)
  \/ \E a \in Auditors : AuditorCrash(a) \/ AuditorRestart(a)

Spec == Init /\ [][Next]_vars

\* A handler that has committed goes on to publish and to answer; a callback is
\* handed every queued event.  Nobody is obliged to send a request.
Fairness ==
  /\ \A q \in Requests : WF_vars(PublishAudit(q)) /\ WF_vars(Respond(q))
  /\ \A a \in Auditors, q \in Requests : WF_vars(Consume(a, q))

FairSpec == Spec /\ Fairness
-----------------------------------------------------------------------------
(* Properties *)

\* Types; a handler past its commit has a row of table budgets.
TypeOK ==
  /\ budgets \subseteq Budgets
  /\ step \in [Requests -> Step]
  /\ at \in [Requests -> Servers]
  /\ target \in [Requests -> budgets \cup {NoBudget}]
  /\ answer \in [Requests -> Answer]
  /\ link \in [Servers -> BOOLEAN]
  /\ subscribed \subseteq Auditors
  /\ inbox \in [Auditors -> SUBSET Requests]
  /\ log \subseteq LogRow
  /\ unsent \subseteq Requests
  /\ faults \in 0 .. MaxFaults

\* What the trail says has happened: the row an entry names was committed
\* before the entry was written, and a CREATE_BUDGET was allowed to its user
\* (handler.go:65-83 of budget-service).
LogTruthful ==
  \A e \in log :
    LET q == e.event IN
      /\ target[q] \in budgets
      /\ answer[q] # "refused"
      /\ Action[q] = "CREATE_BUDGET" => q \in Manager

Disclosed(q) == answer[q] \in {"plain", "masked"}

\* "Audit logging on all sensitive actions" (README.md:67), as far as it goes:
\* nobody gets to see a budget, and nobody is told of having created one, unless
\* an auditor has the event.  It takes fewer faults than auditors, and a server
\* that did publish: one that started without NATS audits nothing.
NoLostAudit ==
  faults < Cardinality(Auditors) =>
    \A q \in Requests \ unsent : Disclosed(q) => Logged(q) \/ InFlight(q)

\* And it is eventually logged.
EventuallyLogged ==
  \A q \in Requests :
    Disclosed(q) /\ q \notin unsent ~>
      Logged(q) \/ faults >= Cardinality(Auditors)
=============================================================================
