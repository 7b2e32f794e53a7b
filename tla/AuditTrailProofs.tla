-------------------------- MODULE AuditTrailProofs --------------------------
(***************************************************************************)
(* Theorems about AuditTrail, for all requests, budgets and servers and    *)
(* every finite set of auditors, whatever fails.                           *)
(***************************************************************************)
EXTENDS AuditTrail, FiniteSetTheorems, TLAPS

\* The access an event names has happened and was allowed.
Truthful(q) ==
  /\ target[q] \in budgets
  /\ answer[q] # "refused"
  /\ Action[q] = "CREATE_BUDGET" => q \in Manager

\* So it is from the commit on, and no event exists before; the client is told
\* at the end.
TruthInv ==
  /\ \A q \in Requests : step[q] # "done" => answer[q] = "none"
  /\ \A q \in Requests : step[q] \in {"committed", "audited"} => Truthful(q)
  /\ \A q \in Requests :
       Logged(q) \/ InFlight(q) => step[q] # "new" /\ Truthful(q)

AuditInv == TypeOK /\ TruthInv

-----------------------------------------------------------------------------
LEMMA InitAudit == Init => AuditInv
BY AuditAssumption
   DEF Init, AuditInv, TypeOK, TruthInv, Logged, InFlight, Step, Answer, Budgets

LEMMA FaultCounted ==
  ASSUME TypeOK, NEW kind, Fault(kind)
  PROVE  faults' \in 0 .. MaxFaults
BY AuditAssumption DEF TypeOK, Fault

LEMMA NextType == TypeOK /\ [Next]_vars => TypeOK'
<1> SUFFICES ASSUME TypeOK, [Next]_vars PROVE TypeOK'
  OBVIOUS
<1> USE DEF TypeOK, Step, Answer, Budgets, trail, access
<1>1. ASSUME NEW q \in Requests, Refuse(q) PROVE TypeOK'
  BY <1>1 DEF Refuse
<1>2. ASSUME NEW q \in Requests, Create(q) PROVE TypeOK'
  BY <1>2 DEF Create
<1>3. ASSUME NEW q \in Requests, NEW b \in Budgets, Get(q, b) PROVE TypeOK'
  BY <1>3 DEF Get
<1>4. ASSUME NEW q \in Requests, PublishAudit(q) PROVE TypeOK'
  BY <1>4 DEF PublishAudit
<1>5. ASSUME NEW q \in Requests, LoseAudit(q) PROVE TypeOK'
  BY <1>5, FaultCounted DEF LoseAudit
<1>6. ASSUME NEW q \in Requests, Respond(q) PROVE TypeOK'
  BY <1>6 DEF Respond
<1>7. ASSUME NEW s \in Servers, ServerRestart(s) PROVE TypeOK'
  BY <1>7, FaultCounted DEF ServerRestart
<1>8. ASSUME NEW s \in Servers, ServerRestartOffline(s) PROVE TypeOK'
  BY <1>8, FaultCounted DEF ServerRestartOffline
<1>9. ASSUME NEW a \in Auditors, NEW q \in Requests, Consume(a, q) PROVE TypeOK'
  BY <1>9 DEF Consume, LogRow
<1>10. ASSUME NEW a \in Auditors, NEW q \in Requests, LoseEvent(a, q) PROVE TypeOK'
  BY <1>10, FaultCounted DEF LoseEvent
<1>11. ASSUME NEW a \in Auditors, AuditorCrash(a) PROVE TypeOK'
  BY <1>11, FaultCounted DEF AuditorCrash
<1>12. ASSUME NEW a \in Auditors, AuditorRestart(a) PROVE TypeOK'
  BY <1>12 DEF AuditorRestart
<1>13. CASE UNCHANGED vars
  BY <1>13 DEF vars
<1> QED
  BY <1>1, <1>2, <1>3, <1>4, <1>5, <1>6, <1>7, <1>8, <1>9, <1>10, <1>11, <1>12,
     <1>13 DEF Next

LEMMA NextTruth == AuditInv /\ [Next]_vars => TruthInv'
<1> SUFFICES ASSUME AuditInv, [Next]_vars PROVE TruthInv'
  OBVIOUS
<1> USE DEF AuditInv, TypeOK, access, trail
<1>t. ASSUME UNCHANGED trail,
             \A q \in Requests :
               /\ Truthful(q) /\ step[q] # "new" => Truthful(q)'
               /\ step[q] # "new" => step'[q] # "new"
               /\ step'[q] \in {"committed", "audited"} => Truthful(q)'
               /\ step'[q] # "done" => answer'[q] = "none"
      PROVE  TruthInv'
  <2>1. \A q \in Requests : Logged(q)' = Logged(q) /\ InFlight(q)' = InFlight(q)
    BY <1>t DEF Logged, InFlight
  <2> QED
    BY <1>t, <2>1 DEF TruthInv
<1>1. ASSUME NEW q \in Requests, Refuse(q) PROVE TruthInv'
  BY <1>t, <1>1 DEF Refuse, Truthful, TruthInv
<1>2. ASSUME NEW q \in Requests, Create(q) PROVE TruthInv'
  <2>1. /\ UNCHANGED <<answer, trail>> /\ q \in Manager
        /\ budgets' = budgets \cup {q} /\ target' = [target EXCEPT ![q] = q]
        /\ step' = [step EXCEPT ![q] = "committed"] /\ step[q] = "new"
    BY <1>2 DEF Create
  <2> QED
    BY <1>t, <2>1 DEF Truthful, TruthInv
<1>3. ASSUME NEW q \in Requests, NEW b \in Budgets, Get(q, b) PROVE TruthInv'
  <2>1. /\ UNCHANGED <<budgets, answer, trail>> /\ b \in budgets
        /\ target' = [target EXCEPT ![q] = b] /\ Action[q] = "VIEW_BUDGET"
        /\ step' = [step EXCEPT ![q] = "committed"] /\ step[q] = "new"
    BY <1>3 DEF Get
  <2> QED
    BY <1>t, <2>1 DEF Truthful, TruthInv
<1>4. ASSUME NEW q \in Requests, PublishAudit(q) PROVE TruthInv'
  <2>1. /\ UNCHANGED <<budgets, target, answer, log>>
        /\ step' = [step EXCEPT ![q] = "audited"] /\ step[q] = "committed"
        /\ \A a \in Auditors : inbox'[a] \subseteq inbox[a] \cup {q}
    BY <1>4 DEF PublishAudit
  <2>2. \A p \in Requests :
          /\ Logged(p)' = Logged(p)
          /\ InFlight(p)' => InFlight(p) \/ p = q
    BY <2>1 DEF Logged, InFlight
  <2> QED
    BY <2>1, <2>2 DEF Truthful, TruthInv
<1>5. ASSUME NEW q \in Requests, LoseAudit(q) PROVE TruthInv'
  BY <1>t, <1>5 DEF LoseAudit, Truthful, TruthInv
<1>6. ASSUME NEW q \in Requests, Respond(q) PROVE TruthInv'
  BY <1>t, <1>6 DEF Respond, Truthful, TruthInv
<1>7. ASSUME NEW s \in Servers, ServerRestart(s) \/ ServerRestartOffline(s)
      PROVE  TruthInv'
  <2>1. /\ UNCHANGED <<budgets, target, answer, trail>>
        /\ \A q \in Requests :
             step'[q] = step[q] \/ (step[q] # "new" /\ step'[q] = "done")
    BY <1>7 DEF ServerRestart, ServerRestartOffline
  <2> QED
    BY <1>t, <2>1 DEF Truthful, TruthInv
<1>8. ASSUME UNCHANGED access,
             \A q \in Requests :
               Logged(q)' \/ InFlight(q)' => Logged(q) \/ InFlight(q)
      PROVE  TruthInv'
  BY <1>8 DEF TruthInv, Truthful
<1>9. ASSUME NEW a \in Auditors, NEW q \in Requests, Consume(a, q) PROVE TruthInv'
  BY <1>8, <1>9 DEF Consume, Logged, InFlight
<1>10. ASSUME NEW a \in Auditors, NEW q \in Requests, LoseEvent(a, q)
       PROVE  TruthInv'
  BY <1>8, <1>10 DEF LoseEvent, Logged, InFlight
<1>11. ASSUME NEW a \in Auditors, AuditorCrash(a) \/ AuditorRestart(a)
       PROVE  TruthInv'
  BY <1>8, <1>11 DEF AuditorCrash, AuditorRestart, Logged, InFlight
<1>12. CASE UNCHANGED vars
  BY <1>8, <1>12 DEF vars, Logged, InFlight
<1> QED
  BY <1>1, <1>2, <1>3, <1>4, <1>5, <1>6, <1>7, <1>9, <1>10, <1>11, <1>12 DEF Next

LEMMA AuditInvariant == Spec => []AuditInv
<1>1. AuditInv /\ [Next]_vars => AuditInv'
  BY NextType, NextTruth DEF AuditInv
<1> QED
  BY <1>1, InitAudit, PTL DEF Spec

\* Type correctness for any requests, servers and auditors.
THEOREM TypeCorrect == Spec => []TypeOK
<1>1. AuditInv => TypeOK
  BY DEF AuditInv
<1> QED
  BY <1>1, AuditInvariant, PTL

\* Whatever fails and restarts, the trail has no access that did not happen or
\* was not allowed: the event is made after the commit and behind the role check
\* (handler.go:53-83 of budget-service).
THEOREM TrailTruthful == Spec => []LogTruthful
<1>1. AuditInv => LogTruthful
  <2> SUFFICES ASSUME AuditInv, NEW e \in log PROVE Truthful(e.event)
    BY DEF LogTruthful, Truthful
  <2>1. e.event \in Requests /\ Logged(e.event)
    BY DEF AuditInv, TypeOK, LogRow, Logged
  <2> QED
    BY <2>1 DEF AuditInv, TruthInv
<1> QED
  BY <1>1, AuditInvariant, PTL
-----------------------------------------------------------------------------
(* One entry per auditor *)

\* An event is handed to an auditor when its handler has got past publishAudit,
\* and an auditor that has entered it does not have it before it again.
OnceInv ==
  \A a \in Auditors, q \in Requests :
    /\ q \in inbox[a] \/ [event |-> q, by |-> a] \in log =>
         step[q] \in {"audited", "done"}
    /\ q \in inbox[a] => [event |-> q, by |-> a] \notin log

LEMMA InitOnce == Init => OnceInv
BY DEF Init, OnceInv

LEMMA NextOnce == TypeOK /\ OnceInv /\ [Next]_vars => OnceInv'
<1> SUFFICES ASSUME TypeOK, OnceInv, [Next]_vars PROVE OnceInv'
  OBVIOUS
<1> USE DEF TypeOK, OnceInv, access, trail
<1>1. ASSUME NEW q \in Requests,
             Refuse(q) \/ Create(q) \/ \E b \in Budgets : Get(q, b)
      PROVE  OnceInv'
  <2>1. step[q] = "new" /\ inbox' = inbox /\ log' = log
    BY <1>1 DEF Refuse, Create, Get
  <2>2. \A p \in Requests : p # q => step'[p] = step[p]
    BY <1>1 DEF Refuse, Create, Get
  <2> QED
    BY <2>1, <2>2
<1>2. ASSUME NEW q \in Requests, PublishAudit(q) PROVE OnceInv'
  <2>1. /\ step[q] = "committed" /\ step' = [step EXCEPT ![q] = "audited"]
        /\ log' = log
        /\ \A a \in Auditors : inbox'[a] = inbox[a] \/ inbox'[a] = inbox[a] \cup {q}
    BY <1>2 DEF PublishAudit
  <2>2. ASSUME NEW a \in Auditors PROVE q \notin inbox[a] /\ [event |-> q, by |-> a] \notin log
    BY <2>1
  <2>3. \A a \in Auditors, p \in Requests : p # q =>
          /\ step'[p] = step[p]
          /\ p \in inbox'[a] => p \in inbox[a]
    BY <2>1
  <2>4. step'[q] = "audited"
    BY <2>1
  <2> HIDE DEF TypeOK
  <2> QED
    BY <2>1, <2>2, <2>3, <2>4
<1>3. ASSUME NEW q \in Requests, LoseAudit(q) \/ Respond(q) PROVE OnceInv'
  <2>1. /\ inbox' = inbox /\ log' = log
        /\ step' = [step EXCEPT ![q] = "audited"]
             \/ step' = [step EXCEPT ![q] = "done"]
    BY <1>3 DEF LoseAudit, Respond
  <2> QED
    BY <2>1
<1>4. ASSUME NEW s \in Servers, ServerRestart(s) \/ ServerRestartOffline(s)
      PROVE  OnceInv'
  <2>1. /\ inbox' = inbox /\ log' = log
        /\ \A q \in Requests : step'[q] = step[q] \/ step'[q] = "done"
    BY <1>4 DEF ServerRestart, ServerRestartOffline
  <2> QED
    BY <2>1
<1>5. ASSUME NEW a \in Auditors, NEW q \in Requests, Consume(a, q) PROVE OnceInv'
  <2>1. /\ q \in inbox[a] /\ step' = step
        /\ inbox' = [inbox EXCEPT ![a] = inbox[a] \ {q}]
        /\ log' = log \cup {[event |-> q, by |-> a]}
    BY <1>5 DEF Consume
  <2> SUFFICES ASSUME NEW b \in Auditors, NEW p \in Requests
               PROVE  /\ p \in inbox'[b] \/ [event |-> p, by |-> b] \in log' =>
                           step'[p] \in {"audited", "done"}
                      /\ p \in inbox'[b] => [event |-> p, by |-> b] \notin log'
    OBVIOUS
  <2>2. CASE b = a /\ p = q
    BY <2>1, <2>2
  <2>3. CASE ~ (b = a /\ p = q)
    <3>1. [event |-> p, by |-> b] # [event |-> q, by |-> a]
      BY <2>3
    <3>2. [event |-> p, by |-> b] \in log' <=> [event |-> p, by |-> b] \in log
      BY <2>1, <3>1
    <3>3. p \in inbox'[b] => p \in inbox[b]
      BY <2>1
    <3> QED
      BY <2>1, <3>2, <3>3
  <2> QED
    BY <2>2, <2>3
<1>6. ASSUME NEW a \in Auditors, NEW q \in Requests, LoseEvent(a, q)
      PROVE  OnceInv'
  BY <1>6 DEF LoseEvent
<1>7. ASSUME NEW a \in Auditors, AuditorCrash(a) \/ AuditorRestart(a)
      PROVE  OnceInv'
  BY <1>7 DEF AuditorCrash, AuditorRestart
<1>8. CASE UNCHANGED vars
  <2>1. UNCHANGED <<step, inbox, log>>
    BY <1>8 DEF vars
  <2> QED
    BY <2>1
<1> QED
  BY <1>1, <1>2, <1>3, <1>4, <1>5, <1>6, <1>7, <1>8 DEF Next

\* What an auditor enters it had not entered before, whatever crashes, restarts
\* and retries there are: audit_logs needs no unique constraint to hold an event
\* once per auditor (and does hold it once for each of them).
EntersNew ==
  \A a \in Auditors, q \in Requests :
    Consume(a, q) => [event |-> q, by |-> a] \notin log

\* Every audit event is entered at most once by every auditor (StartNATSConsumers
\* of audit-service inserts without looking for the row).
THEOREM EnteredOnce == Spec => [][EntersNew]_vars
<1>1. OnceInv => EntersNew
  BY DEF OnceInv, EntersNew, Consume
<1>2. Spec => []TypeOK
  BY TypeCorrect
<1> QED
  BY <1>1, <1>2, InitOnce, NextOnce, PTL DEF Spec
-----------------------------------------------------------------------------
(* No lost events: it takes a fault for every auditor *)

Away == Auditors \ subscribed

Missed(q) == { a \in Auditors : q \notin inbox[a] }

\* The handler is past its publication, which arrived, and no auditor has
\* written the event yet.
Waiting(q) ==
  (step[q] = "audited" \/ Disclosed(q)) /\ q \notin unsent /\ ~ Logged(q)

\* There was a fault for each auditor that is away, and one for each that has
\* not got an event that waits.
DeliveryInv ==
  /\ Cardinality(Away) <= faults
  /\ \A q \in Requests : Waiting(q) => Cardinality(Missed(q)) <= faults

\* The arithmetic of a fault that takes one auditor, and of a step that takes none.
LEMMA OneMore ==
  ASSUME NEW A \in SUBSET Auditors, NEW B \in SUBSET Auditors, NEW a \in Auditors,
         B \subseteq A \cup {a}, NEW n \in Nat, Cardinality(A) <= n
  PROVE  Cardinality(B) <= n + 1
<1>1. IsFiniteSet(A)
  BY AuditAssumption, FS_Subset
<1>2. /\ IsFiniteSet(A \cup {a})
      /\ Cardinality(A \cup {a}) =
           IF a \in A THEN Cardinality(A) ELSE Cardinality(A) + 1
  BY <1>1, FS_AddElement
<1>3. Cardinality(B) <= Cardinality(A \cup {a}) /\ IsFiniteSet(B)
  BY <1>2, FS_Subset
<1> QED
  BY <1>1, <1>2, <1>3, FS_CardinalityType

LEMMA NoMore ==
  ASSUME NEW A \in SUBSET Auditors, NEW B \in SUBSET A, NEW n \in Nat,
         Cardinality(A) <= n
  PROVE  Cardinality(B) <= n
<1>1. IsFiniteSet(A)
  BY AuditAssumption, FS_Subset
<1>2. Cardinality(B) <= Cardinality(A) /\ IsFiniteSet(B)
  BY <1>1, FS_Subset
<1> QED
  BY <1>1, <1>2, FS_CardinalityType

LEMMA InitDelivery == Init => DeliveryInv
<1> SUFFICES ASSUME Init PROVE DeliveryInv
  OBVIOUS
<1>1. Away = {} /\ faults = 0
  BY DEF Init, Away
<1>2. \A q \in Requests : ~ Waiting(q)
  BY DEF Init, Waiting, Disclosed
<1> QED
  BY <1>1, <1>2, FS_EmptySet DEF DeliveryInv

LEMMA NextDelivery == AuditInv /\ DeliveryInv /\ [Next]_vars => DeliveryInv'
<1> SUFFICES ASSUME AuditInv, DeliveryInv, [Next]_vars PROVE DeliveryInv'
  OBVIOUS
<1> USE DEF AuditInv, TypeOK, access, trail
<1>t. faults \in Nat
  BY AuditAssumption
<1>s. Away \in SUBSET Auditors /\ \A q : Missed(q) \in SUBSET Auditors
  BY DEF Away, Missed
<1>a. ASSUME faults' = faults, Away' \subseteq Away,
             \A x \in Requests :
               Waiting(x)' => Waiting(x) /\ Missed(x)' \subseteq Missed(x)
      PROVE  DeliveryInv'
  <2>1. Cardinality(Away') <= faults
    BY <1>a, <1>s, <1>t, NoMore DEF DeliveryInv
  <2>2. ASSUME NEW x \in Requests, Waiting(x)'
        PROVE  Cardinality(Missed(x)') <= faults
    <3>1. Waiting(x) /\ Missed(x)' \subseteq Missed(x)
      BY <1>a, <2>2
    <3> QED
      BY <1>s, <1>t, <3>1, NoMore DEF DeliveryInv
  <2> QED
    BY <1>a, <2>1, <2>2 DEF DeliveryInv
<1>b. ASSUME faults' = faults + 1, NEW a \in Auditors, Away' \subseteq Away \cup {a},
             \A x \in Requests :
               Waiting(x)' => Waiting(x) /\ Missed(x)' \subseteq Missed(x) \cup {a}
      PROVE  DeliveryInv'
  <2>0. Away' \in SUBSET Auditors /\ \A x : Missed(x)' \in SUBSET Auditors
    BY DEF Away, Missed
  <2>1. Cardinality(Away') <= faults + 1
    BY <1>b, <1>s, <1>t, <2>0, OneMore DEF DeliveryInv
  <2>2. ASSUME NEW x \in Requests, Waiting(x)'
        PROVE  Cardinality(Missed(x)') <= faults + 1
    <3>1. Waiting(x) /\ Missed(x)' \subseteq Missed(x) \cup {a}
      BY <1>b, <2>2
    <3> QED
      BY <1>s, <1>t, <2>0, <3>1, OneMore DEF DeliveryInv
  <2> QED
    BY <1>b, <2>1, <2>2 DEF DeliveryInv
<1>c. ASSUME faults' = faults + 1, UNCHANGED trail,
             \A x \in Requests : Waiting(x)' => Waiting(x)
      PROVE  DeliveryInv'
  <2>1. Cardinality(Away) \in Nat /\ \A x : Cardinality(Missed(x)) \in Nat
    BY <1>s, AuditAssumption, FS_Subset, FS_CardinalityType
  <2>2. Away' = Away /\ \A x : Missed(x)' = Missed(x)
    BY <1>c DEF Away, Missed
  <2> QED
    BY <1>c, <1>t, <2>1, <2>2 DEF DeliveryInv
<1>1. ASSUME NEW q \in Requests,
             \/ Refuse(q) \/ Create(q) \/ Respond(q)
             \/ \E b \in Budgets : Get(q, b)
      PROVE  DeliveryInv'
  <2>1. UNCHANGED <<trail, unsent, faults>>
    BY <1>1 DEF Refuse, Create, Respond, Get
  <2>2. ASSUME NEW x \in Requests, Waiting(x)' PROVE Waiting(x)
    <3>1. step'[x] = "audited" \/ Disclosed(x)' => step[x] = "audited" \/ Disclosed(x)
      BY <1>1 DEF Refuse, Create, Respond, Get, Disclosed
    <3> QED
      BY <2>1, <2>2, <3>1 DEF Waiting, Logged
  <2> QED
    BY <1>a, <2>1, <2>2 DEF Away, Missed
<1>2. ASSUME NEW q \in Requests, PublishAudit(q) PROVE DeliveryInv'
  <2>1. UNCHANGED <<answer, subscribed, log, faults>>
    BY <1>2 DEF PublishAudit
  <2>2. Away' = Away
    BY <2>1 DEF Away
  <2>3. ASSUME NEW x \in Requests, Waiting(x)'
        PROVE  Cardinality(Missed(x)') <= faults
    <3>1. CASE x = q
      <4>1. link[at[q]]
        BY <1>2, <2>3, <3>1 DEF PublishAudit, Waiting
      <4>2. Missed(q)' \subseteq Away
        BY <1>2, <4>1 DEF PublishAudit, Missed, Away
      <4> QED
        BY <1>s, <1>t, <3>1, <4>2, NoMore DEF DeliveryInv
    <3>2. CASE x # q
      <4>1. Waiting(x)
        BY <1>2, <2>3, <3>2 DEF PublishAudit, Waiting, Disclosed, Logged
      <4>2. Missed(x)' \subseteq Missed(x)
        BY <1>2 DEF PublishAudit, Missed
      <4> QED
        BY <1>s, <1>t, <4>1, <4>2, NoMore DEF DeliveryInv
    <3> QED
      BY <3>1, <3>2
  <2> QED
    BY <2>1, <2>2, <2>3 DEF DeliveryInv
<1>3. ASSUME NEW q \in Requests, LoseAudit(q) PROVE DeliveryInv'
  BY <1>3, <1>c DEF LoseAudit, Fault, Waiting, Disclosed, Logged
<1>4. ASSUME NEW s \in Servers, ServerRestart(s) \/ ServerRestartOffline(s)
      PROVE  DeliveryInv'
  <2>1. /\ UNCHANGED <<answer, trail, unsent>> /\ faults' = faults + 1
        /\ \A x \in Requests : step'[x] = "audited" => step[x] = "audited"
    BY <1>4 DEF ServerRestart, ServerRestartOffline, Fault
  <2> QED
    BY <1>c, <2>1 DEF Waiting, Disclosed, Logged
<1>5. ASSUME NEW a \in Auditors, NEW q \in Requests, Consume(a, q)
      PROVE  DeliveryInv'
  <2>1. UNCHANGED <<step, answer, unsent, subscribed, faults>>
    BY <1>5 DEF Consume
  <2>2. /\ \A x \in Requests : Logged(x) => Logged(x)'
        /\ Logged(q)'
    <3>1. log \subseteq log' /\ [event |-> q, by |-> a] \in log'
      BY <1>5 DEF Consume
    <3> QED
      BY <3>1 DEF Logged
  <2>3. \A x \in Requests : x # q => Missed(x)' \subseteq Missed(x)
    BY <1>5 DEF Consume, Missed
  <2> QED
    BY <1>a, <2>1, <2>2, <2>3 DEF Away, Waiting, Disclosed
<1>6. ASSUME NEW a \in Auditors, NEW q \in Requests, LoseEvent(a, q)
      PROVE  DeliveryInv'
  <2>1. UNCHANGED <<step, answer, unsent, subscribed, log>> /\ faults' = faults + 1
    BY <1>6 DEF LoseEvent, Fault
  <2>2. \A x : Missed(x)' \subseteq Missed(x) \cup {a}
    BY <1>6 DEF LoseEvent, Missed
  <2> QED
    BY <1>b, <2>1, <2>2 DEF Away, Waiting, Disclosed, Logged
<1>7. ASSUME NEW a \in Auditors, AuditorCrash(a) PROVE DeliveryInv'
  <2>1. UNCHANGED <<step, answer, unsent, log>> /\ faults' = faults + 1
    BY <1>7 DEF AuditorCrash, Fault
  <2>2. \A x : Missed(x)' \subseteq Missed(x) \cup {a}
    BY <1>7 DEF AuditorCrash, Missed
  <2>3. Away' \subseteq Away \cup {a}
    BY <1>7 DEF AuditorCrash, Away
  <2> QED
    BY <1>b, <2>1, <2>2, <2>3 DEF Waiting, Disclosed, Logged
<1>8. ASSUME NEW a \in Auditors, AuditorRestart(a) PROVE DeliveryInv'
  <2>1. UNCHANGED <<step, answer, unsent, log, inbox, faults>>
    BY <1>8 DEF AuditorRestart
  <2>2. Away' \subseteq Away
    BY <1>8 DEF AuditorRestart, Away
  <2> QED
    BY <1>a, <2>1, <2>2 DEF Waiting, Disclosed, Logged, Missed
<1>9. CASE UNCHANGED vars
  BY <1>9 DEF vars, DeliveryInv, Away, Missed, Waiting, Disclosed, Logged
<1> QED
  BY <1>1, <1>2, <1>3, <1>4, <1>5, <1>6, <1>7, <1>8, <1>9 DEF Next

\* With fewer faults than auditors no published event is lost, for any number
\* of auditors: each subscribed one has its own copy, and every fault takes one
\* (handler.go:171-188 of budget-service, handler.go:44-77 of audit-service).
THEOREM FewFaultsLoseNoEvent == Spec => []NoLostAudit
<1> DEFINE Inv == AuditInv /\ DeliveryInv
<1>1. Init => Inv
  BY InitAudit, InitDelivery
<1>2. Inv /\ [Next]_vars => Inv'
  BY NextType, NextTruth, NextDelivery DEF AuditInv
<1>3. Inv => NoLostAudit
  <2> SUFFICES ASSUME Inv, faults < Cardinality(Auditors),
                      NEW q \in Requests \ unsent, Disclosed(q), ~ InFlight(q)
               PROVE  Logged(q)
    BY DEF NoLostAudit
  <2>1. Missed(q) = Auditors
    BY DEF Missed, InFlight
  <2>2. Cardinality(Auditors) \in Nat /\ faults \in Nat
    BY AuditAssumption, FS_CardinalityType DEF AuditInv, TypeOK
  <2> QED
    BY <2>1, <2>2 DEF DeliveryInv, Waiting
<1> QED
  BY <1>1, <1>2, <1>3, PTL DEF Spec
=============================================================================
