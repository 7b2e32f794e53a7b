------------------------- MODULE DocumentJobsProofs -------------------------
(***************************************************************************)
(* Theorems about DocumentJobs, for every set of jobs and every finite set *)
(* of replicas, whatever fails.                                            *)
(***************************************************************************)
EXTENDS DocumentJobs, FiniteSetTheorems, TLAPS

Tables == <<objects, documents, announced>>

\* How far a job is tells what was done for it.
PhaseInv ==
  \A r \in Replicas, j \in Jobs :
    /\ phase[r][j] \in {"built", "stored", "inserted"} => j \in Buildable
    /\ phase[r][j] \in {"stored", "inserted"} => j \in objects
    /\ phase[r][j] = "inserted" => HasDocument(j)
    /\ phase[r][j] # "idle" => link[r] # "down"

JobInv == TypeOK /\ PhaseInv /\ RowsHaveObjects /\ CreatedIsStored

-----------------------------------------------------------------------------
(* Table documents grows at its end *)

LEMMA Inserted ==
  ASSUME TypeOK, NEW r \in Replicas, NEW j \in Jobs, InsertDocument(r, j)
  PROVE  /\ documents' \in Seq(DocumentRow)
         /\ DOMAIN documents' = DOMAIN documents \cup {Len(documents) + 1}
         /\ \A i \in DOMAIN documents : documents'[i] = documents[i]
         /\ Len(documents) + 1 \notin DOMAIN documents
         /\ documents'[Len(documents) + 1] = [job |-> j, by |-> r]
<1> DEFINE d == [job |-> j, by |-> r]
<1>1. documents \in Seq(DocumentRow) /\ d \in DocumentRow
  BY DEF TypeOK, DocumentRow
<1>2. documents' = Append(documents, d)
  BY DEF InsertDocument
<1> HIDE DEF d
<1>3. documents' \in Seq(DocumentRow)
  BY <1>1, <1>2
<1>4. Len(documents') = Len(documents) + 1
  BY <1>1, <1>2
<1>5. /\ \A i \in 1 .. Len(documents) : documents'[i] = documents[i]
      /\ documents'[Len(documents) + 1] = d
  BY <1>1, <1>2
<1>6. DOMAIN documents = 1 .. Len(documents) /\ Len(documents) \in Nat
  BY <1>1
<1>7. DOMAIN documents' = 1 .. Len(documents) + 1
  BY <1>3, <1>4
<1> QED
  BY <1>3, <1>5, <1>6, <1>7 DEF d

\* A step that does not touch the tables, whatever it does to the processes.
LEMMA TablesKept ==
  ASSUME UNCHANGED Tables, NEW j \in Jobs
  PROVE  HasDocument(j)' = HasDocument(j)
BY DEF Tables, HasDocument

-----------------------------------------------------------------------------
(* Types *)

LEMMA InitJob == Init => JobInv
BY DocumentAssumption
   DEF Init, JobInv, TypeOK, Reply, Phase, PhaseInv, RowsHaveObjects, CreatedIsStored

LEMMA FaultCounted ==
  ASSUME TypeOK, NEW kind, Fault(kind)
  PROVE  faults' \in 0 .. MaxFaults
BY DocumentAssumption DEF TypeOK, Fault

LEMMA NextType == TypeOK /\ PhaseInv /\ [Next]_vars => TypeOK'
<1> SUFFICES ASSUME TypeOK, PhaseInv, [Next]_vars PROVE TypeOK'
  OBVIOUS
<1> USE DEF TypeOK, Reply, Phase
<1>1. ASSUME NEW r \in Replicas, NEW j \in Jobs, Generate(r, j) PROVE TypeOK'
  BY <1>1 DEF Generate
<1>2. ASSUME NEW r \in Replicas, NEW j \in Jobs, GenerateLost(r, j) PROVE TypeOK'
  BY <1>2, FaultCounted DEF GenerateLost
<1>3. ASSUME NEW r \in Replicas, NEW j \in Jobs, GenerateSync(r, j) PROVE TypeOK'
  BY <1>3 DEF GenerateSync
<1>4. ASSUME NEW r \in Replicas, NEW j \in Jobs, Take(r, j) PROVE TypeOK'
  BY <1>4 DEF Take
<1>5. ASSUME NEW r \in Replicas, NEW j \in Jobs, Build(r, j) PROVE TypeOK'
  BY <1>5 DEF Build
<1>6. ASSUME NEW r \in Replicas, NEW j \in Jobs, Unbuildable(r, j) PROVE TypeOK'
  BY <1>6 DEF Unbuildable, ReplyFailed
<1>7. ASSUME NEW r \in Replicas, NEW j \in Jobs, Store(r, j) PROVE TypeOK'
  BY <1>7 DEF Store, PhaseInv
<1>8. ASSUME NEW r \in Replicas, NEW j \in Jobs, InsertDocument(r, j) PROVE TypeOK'
  <2>1. documents' \in Seq(DocumentRow) /\ announced' \subseteq DOMAIN documents'
    BY <1>8, Inserted DEF InsertDocument
  <2> QED
    BY <1>8, <2>1 DEF InsertDocument
<1>9. ASSUME NEW r \in Replicas, NEW j \in Jobs, Finish(r, j) PROVE TypeOK'
  BY <1>9 DEF Finish
<1>10. ASSUME NEW r \in Replicas, NEW j \in Jobs, FailJob(r, j) PROVE TypeOK'
  BY <1>10, FaultCounted DEF FailJob, ReplyFailed
<1>11. ASSUME NEW r \in Replicas, NEW j \in Jobs, LoseMessage(r, j) PROVE TypeOK'
  BY <1>11, FaultCounted DEF LoseMessage
<1>12. ASSUME NEW r \in Replicas, Crash(r) PROVE TypeOK'
  BY <1>12, FaultCounted DEF Crash
<1>13. ASSUME NEW r \in Replicas, Start(r) PROVE TypeOK'
  BY <1>13 DEF Start
<1>14. ASSUME NEW r \in Replicas, StartOffline(r) PROVE TypeOK'
  BY <1>14, FaultCounted DEF StartOffline
<1>15. CASE UNCHANGED vars
  BY <1>15 DEF vars
<1> QED
  BY <1>1, <1>2, <1>3, <1>4, <1>5, <1>6, <1>7, <1>8, <1>9, <1>10, <1>11, <1>12,
     <1>13, <1>14, <1>15 DEF Next, Process

-----------------------------------------------------------------------------
(* Objects before rows, rows before answers *)

LEMMA NextJob == JobInv /\ [Next]_vars => JobInv'
<1> SUFFICES ASSUME JobInv, [Next]_vars
             PROVE  PhaseInv' /\ RowsHaveObjects' /\ CreatedIsStored'
  BY NextType DEF JobInv
<1> USE DEF JobInv, TypeOK
<1> DEFINE Goal == PhaseInv' /\ RowsHaveObjects' /\ CreatedIsStored'
<1>t. ASSUME UNCHANGED Tables,
             \A r \in Replicas, j \in Jobs :
               /\ phase'[r][j] \in {phase[r][j], "idle", "accepted"}
               /\ phase'[r][j] # "idle" => link'[r] # "down",
             \A j \in Jobs : reply'[j] = "created" => reply[j] = "created"
      PROVE  Goal
  BY <1>t, TablesKept DEF Tables, PhaseInv, RowsHaveObjects, CreatedIsStored
<1>1. ASSUME NEW r \in Replicas, NEW j \in Jobs,
             Generate(r, j) \/ GenerateLost(r, j) \/ LoseMessage(r, j)
      PROVE  Goal
  <2>1. UNCHANGED <<phase, link>> /\ UNCHANGED Tables
    BY <1>1 DEF Generate, GenerateLost, LoseMessage, Tables
  <2>2. \A i \in Jobs : reply'[i] = "created" => reply[i] = "created"
    BY <1>1 DEF Generate, GenerateLost, LoseMessage
  <2> QED
    BY <1>t, <2>1, <2>2 DEF PhaseInv
<1>2. ASSUME NEW r \in Replicas, NEW j \in Jobs, GenerateSync(r, j) PROVE Goal
  BY <1>t, <1>2 DEF GenerateSync, PhaseInv, Tables
<1>3. ASSUME NEW r \in Replicas, NEW j \in Jobs, Take(r, j) PROVE Goal
  BY <1>t, <1>3 DEF Take, PhaseInv, Tables
<1>4. ASSUME NEW r \in Replicas, NEW j \in Jobs, Build(r, j) PROVE Goal
  BY <1>4, TablesKept DEF Build, PhaseInv, Tables, RowsHaveObjects, CreatedIsStored
<1>5. ASSUME NEW r \in Replicas, NEW j \in Jobs,
             Unbuildable(r, j) \/ FailJob(r, j)
      PROVE  Goal
  BY <1>t, <1>5 DEF Unbuildable, FailJob, ReplyFailed, PhaseInv, Tables
<1>6. ASSUME NEW r \in Replicas, NEW j \in Jobs, Store(r, j) PROVE Goal
  <2>1. \A i \in Jobs : HasDocument(i)' = HasDocument(i)
    BY <1>6 DEF Store, HasDocument
  <2> QED
    BY <1>6, <2>1 DEF Store, PhaseInv, RowsHaveObjects, CreatedIsStored
<1>7. ASSUME NEW r \in Replicas, NEW j \in Jobs, InsertDocument(r, j) PROVE Goal
  <2> DEFINE n == Len(documents) + 1
  <2>1. /\ DOMAIN documents' = DOMAIN documents \cup {n}
        /\ \A i \in DOMAIN documents : documents'[i] = documents[i]
        /\ n \notin DOMAIN documents
        /\ documents'[n] = [job |-> j, by |-> r]
    BY <1>7, Inserted
  <2> HIDE DEF n
  <2>2. \A i \in Jobs : HasDocument(i)' <=> HasDocument(i) \/ i = j
    BY <2>1 DEF HasDocument
  <2>3. j \in objects
    BY <1>7 DEF InsertDocument, PhaseInv
  <2>4. PhaseInv' /\ CreatedIsStored'
    BY <1>7, <2>2, <2>3 DEF InsertDocument, PhaseInv, CreatedIsStored
  <2>5. RowsHaveObjects'
    BY <1>7, <2>1, <2>3 DEF InsertDocument, RowsHaveObjects
  <2> QED
    BY <2>4, <2>5
<1>8. ASSUME NEW r \in Replicas, NEW j \in Jobs, Finish(r, j) PROVE Goal
  <2>1. \A i \in Jobs : HasDocument(i)' = HasDocument(i)
    BY <1>8 DEF Finish, HasDocument
  <2>2. HasDocument(j) /\ j \in objects
    BY <1>8 DEF Finish, PhaseInv
  <2> QED
    BY <1>8, <2>1, <2>2 DEF Finish, PhaseInv, RowsHaveObjects, CreatedIsStored
<1>9. ASSUME NEW r \in Replicas, Crash(r) PROVE Goal
  <2>1. \A q \in Replicas, j \in Jobs :
          /\ phase'[q][j] \in {phase[q][j], "idle"}
          /\ phase'[q][j] # "idle" => q # r /\ phase'[q][j] = phase[q][j]
    BY <1>9 DEF Crash
  <2>2. \A q \in Replicas : q # r => link'[q] = link[q]
    BY <1>9 DEF Crash
  <2>3. \A j \in Jobs : reply'[j] = "created" => reply[j] = "created"
    BY <1>9 DEF Crash
  <2>4. UNCHANGED Tables
    BY <1>9 DEF Crash, Tables
  <2> QED
    BY <1>t, <2>1, <2>2, <2>3, <2>4 DEF PhaseInv
<1>10. ASSUME NEW r \in Replicas, Start(r) \/ StartOffline(r) PROVE Goal
  BY <1>t, <1>10 DEF Start, StartOffline, PhaseInv, Tables
<1>11. CASE UNCHANGED vars
  BY <1>t, <1>11 DEF vars, PhaseInv, Tables
<1> QED
  BY <1>1, <1>2, <1>3, <1>4, <1>5, <1>6, <1>7, <1>8, <1>9, <1>10, <1>11
     DEF Next, Process

\* Type correctness for any jobs, replicas and faults: among others, nothing is
\* delivered to a replica that is not online (main.go:73-94).
THEOREM TypeCorrect == Spec => []TypeOK
<1>1. Spec => []JobInv
  BY InitJob, NextJob, PTL DEF Spec
<1> QED
  BY <1>1, PTL DEF JobInv

\* However replicas overlap and whatever fails, an inserted row has its object:
\* PutObject comes first and nothing deletes an object (handler.go:153-163).
THEOREM RowsBacked == Spec => []RowsHaveObjects
<1>1. Spec => []JobInv
  BY InitJob, NextJob, PTL DEF Spec
<1> QED
  BY <1>1, PTL DEF JobInv

\* The synchronous path answers 201 for nothing but a stored document
\* (handler.go:92-97).
THEOREM CreatedStored == Spec => []CreatedIsStored
<1>1. Spec => []JobInv
  BY InitJob, NextJob, PTL DEF Spec
<1> QED
  BY <1>1, PTL DEF JobInv
-----------------------------------------------------------------------------
(* One row per replica *)

HasRow(r, j) == \E i \in DOMAIN documents : documents[i] = [job |-> j, by |-> r]

\* Where a job can be found excludes that its replica has a row of it already,
\* and a job whose client has no answer is with a replica that is offline.
OnceInv ==
  /\ \A r \in Replicas, j \in Jobs :
       /\ j \in inbox[r] =>
            phase[r][j] = "idle" /\ ~ HasRow(r, j) /\ reply[j] # "none"
       /\ phase[r][j] \in {"accepted", "built", "stored"} => ~ HasRow(r, j)
       /\ reply[j] = "none" /\ phase[r][j] # "idle" => link[r] = "offline"
  /\ \A j \in Jobs :
       reply[j] = "none" /\ HasDocument(j) =>
         \E r \in Replicas : phase[r][j] = "inserted"

RowInv == JobInv /\ OnceInv /\ OneRowPerReplica

LEMMA FreshHasNoRow ==
  ASSUME RowInv, NEW j \in Jobs, Fresh(j), NEW r \in Replicas
  PROVE  ~ HasRow(r, j) /\ j \notin inbox[r] /\ ~ HasDocument(j)
BY DEF RowInv, OnceInv, HasRow, HasDocument, Fresh

LEMMA InitRow == Init => RowInv
BY InitJob DEF Init, RowInv, OnceInv, OneRowPerReplica, HasRow, HasDocument

LEMMA NextRow == RowInv /\ [Next]_vars => RowInv'
<1> SUFFICES ASSUME RowInv, [Next]_vars PROVE OnceInv' /\ OneRowPerReplica'
  BY NextJob DEF RowInv
<1> USE DEF RowInv, JobInv, TypeOK
<1> DEFINE Goal == OnceInv' /\ OneRowPerReplica'
<1>d. ASSUME UNCHANGED documents
      PROVE  /\ OneRowPerReplica'
             /\ \A r, j : HasRow(r, j)' = HasRow(r, j)
             /\ \A j : HasDocument(j)' = HasDocument(j)
  BY <1>d DEF OneRowPerReplica, HasRow, HasDocument
<1>1. ASSUME NEW r \in Replicas, NEW j \in Jobs, Generate(r, j) PROVE Goal
  <2>1. Fresh(j) /\ \A q \in Replicas : ~ HasRow(q, j)
    BY <1>1, FreshHasNoRow DEF Generate
  <2>2. \A q \in Replicas : inbox'[q] \subseteq inbox[q] \cup {j}
    BY <1>1 DEF Generate
  <2>3. /\ UNCHANGED <<phase, link>>
        /\ reply' = [reply EXCEPT ![j] = "queued"]
    BY <1>1 DEF Generate
  <2> QED
    BY <1>1, <1>d, <2>1, <2>2, <2>3 DEF OnceInv, Fresh, Generate
<1>2. ASSUME NEW r \in Replicas, NEW j \in Jobs, GenerateLost(r, j) PROVE Goal
  BY <1>2, <1>d DEF GenerateLost, OnceInv
<1>3. ASSUME NEW r \in Replicas, NEW j \in Jobs, GenerateSync(r, j) PROVE Goal
  <2>1. Fresh(j) /\ \A q \in Replicas : ~ HasRow(q, j) /\ j \notin inbox[q]
    BY <1>3, FreshHasNoRow DEF GenerateSync
  <2>2. /\ UNCHANGED <<inbox, reply, link>> /\ link[r] = "offline"
        /\ phase' = [phase EXCEPT ![r][j] = "accepted"]
    BY <1>3 DEF GenerateSync
  <2>3. ~ HasDocument(j)
    BY <2>1, FreshHasNoRow
  <2>4. \A q \in Replicas, i \in Jobs : ~ (q = r /\ i = j) => phase'[q][i] = phase[q][i]
    BY <2>2
  <2>5. phase'[r][j] = "accepted"
    BY <2>2
  <2> QED
    BY <1>3, <1>d, <2>1, <2>2, <2>3, <2>4, <2>5 DEF OnceInv, GenerateSync
<1>4. ASSUME NEW r \in Replicas, NEW j \in Jobs, Take(r, j) PROVE Goal
  BY <1>4, <1>d DEF Take, OnceInv
<1>5. ASSUME NEW r \in Replicas, NEW j \in Jobs,
             Build(r, j) \/ Store(r, j)
      PROVE  Goal
  <2>1. /\ UNCHANGED <<inbox, reply, link, documents>>
        /\ phase[r][j] \in {"accepted", "built"}
        /\ \E p \in {"built", "stored"} : phase' = [phase EXCEPT ![r][j] = p]
    BY <1>5 DEF Build, Store
  <2> QED
    BY <1>d, <2>1 DEF OnceInv
<1>l. ASSUME NEW r \in Replicas, NEW j \in Jobs, LoseMessage(r, j) PROVE Goal
  BY <1>l, <1>d DEF LoseMessage, OnceInv
<1>6. ASSUME NEW r \in Replicas, NEW j \in Jobs,
             Unbuildable(r, j) \/ FailJob(r, j)
      PROVE  Goal
  <2>1. /\ phase' = [phase EXCEPT ![r][j] = "idle"]
        /\ phase[r][j] \in {"accepted", "built", "stored"}
        /\ UNCHANGED <<inbox, link, documents>>
    BY <1>6 DEF Unbuildable, FailJob
  <2>2. \A i \in Jobs : /\ reply'[i] = "none" => reply[i] = "none"
                        /\ reply[i] # "none" => reply'[i] # "none"
    BY <1>6 DEF Unbuildable, FailJob, ReplyFailed
  <2> QED
    BY <1>d, <2>1, <2>2 DEF OnceInv
<1>7. ASSUME NEW r \in Replicas, NEW j \in Jobs, InsertDocument(r, j) PROVE Goal
  <2> DEFINE n == Len(documents) + 1
  <2>1. /\ DOMAIN documents' = DOMAIN documents \cup {n}
        /\ \A i \in DOMAIN documents : documents'[i] = documents[i]
        /\ n \notin DOMAIN documents
        /\ documents'[n] = [job |-> j, by |-> r]
    BY <1>7, Inserted
  <2> HIDE DEF n
  <2>2. phase[r][j] = "stored" /\ ~ HasRow(r, j)
    BY <1>7 DEF InsertDocument, OnceInv
  <2>3. OneRowPerReplica'
    BY <2>1, <2>2 DEF OneRowPerReplica, HasRow
  <2>4. \A q \in Replicas, i \in Jobs :
          HasRow(q, i)' <=> HasRow(q, i) \/ (q = r /\ i = j)
    BY <2>1 DEF HasRow
  <2>5. \A i \in Jobs : HasDocument(i)' <=> HasDocument(i) \/ i = j
    BY <2>1 DEF HasDocument
  <2>6. /\ UNCHANGED <<inbox, reply, link>>
        /\ phase' = [phase EXCEPT ![r][j] = "inserted"]
    BY <1>7 DEF InsertDocument
  <2>7. OnceInv'
    BY <2>2, <2>4, <2>5, <2>6 DEF OnceInv
  <2> QED
    BY <2>3, <2>7
<1>8. ASSUME NEW r \in Replicas, NEW j \in Jobs, Finish(r, j) PROVE Goal
  BY <1>8, <1>d DEF Finish, OnceInv
<1>9. ASSUME NEW r \in Replicas, Crash(r) PROVE Goal
  <2>1. \A q \in Replicas : q # r => phase'[q] = phase[q] /\ link'[q] = link[q]
    BY <1>9 DEF Crash
  <2>2. \A j \in Jobs : phase'[r][j] = "idle"
    BY <1>9 DEF Crash
  <2>3. \A q \in Replicas : inbox'[q] \subseteq inbox[q] /\ inbox'[r] = {}
    BY <1>9 DEF Crash
  <2>4. \A j \in Jobs :
          /\ reply'[j] = "none" =>
               reply[j] = "none" /\ ~ (link[r] = "offline" /\ phase[r][j] # "idle")
          /\ reply[j] # "none" => reply'[j] # "none"
    BY <1>9 DEF Crash
  <2> QED
    BY <1>9, <1>d, <2>1, <2>2, <2>3, <2>4 DEF Crash, OnceInv
<1>10. ASSUME NEW r \in Replicas, Start(r) \/ StartOffline(r) PROVE Goal
  BY <1>10, <1>d DEF Start, StartOffline, OnceInv, PhaseInv
<1>11. CASE UNCHANGED vars
  BY <1>11, <1>d DEF vars, OnceInv
<1> QED
  BY <1>1, <1>2, <1>3, <1>4, <1>5, <1>6, <1>7, <1>8, <1>9, <1>10, <1>11, <1>l
     DEF Next, Process

\* A replica inserts one row of a job at most, whatever is delivered, fails and
\* restarts; with n replicas a job may have n rows (handler.go:100-112).
THEOREM JobsHandledOnce == Spec => []OneRowPerReplica
<1>1. Spec => []RowInv
  BY InitRow, NextRow, PTL DEF Spec
<1> QED
  BY <1>1, PTL DEF RowInv

\* The rows of a job.
RowsFor(j) == { i \in DOMAIN documents : documents[i].job = j }

LEMMA FewRows ==
  ASSUME TypeOK, OneRowPerReplica, NEW j
  PROVE  Cardinality(RowsFor(j)) <= Cardinality(Replicas)
<1> DEFINE f == [i \in RowsFor(j) |-> documents[i].by]
<1>1. \A i \in DOMAIN documents : documents[i] \in DocumentRow
  BY DEF TypeOK
<1>2. \A i \in DOMAIN documents :
        documents[i] = [job |-> documents[i].job, by |-> documents[i].by]
        /\ documents[i].by \in Replicas
  BY <1>1 DEF DocumentRow
<1>3. f \in [RowsFor(j) -> Replicas]
  BY <1>2 DEF RowsFor
<1>4. \A i, k \in RowsFor(j) : f[i] = f[k] => i = k
  BY <1>2 DEF RowsFor, OneRowPerReplica
<1>5. f \in Injection(RowsFor(j), Replicas)
  <2> HIDE DEF f
  <2> QED
    BY <1>3, <1>4 DEF Injection, IsInjective
<1>6. PICK g : g \in Injection(RowsFor(j), Replicas)
  BY <1>5
<1> QED
  BY <1>6, FS_Injection, DocumentAssumption

\* A job leaves no more rows in table documents than there are replicas, which are
\* as many as may generate it (no queue group, handler.go:100-112).
THEOREM FewRowsPerJob ==
  Spec => [](\A j \in Jobs : Cardinality(RowsFor(j)) <= Cardinality(Replicas))
<1>1. TypeOK /\ OneRowPerReplica =>
        \A j \in Jobs : Cardinality(RowsFor(j)) <= Cardinality(Replicas)
  BY FewRows
<1> QED
  BY <1>1, TypeCorrect, JobsHandledOnce, PTL
-----------------------------------------------------------------------------
(* No lost jobs: it takes a fault for every replica *)

Away == { r \in Replicas : link[r] # "online" }

Missed(j) == { r \in Replicas : ~ Holds(r, j) }

Waiting(j) == reply[j] = "queued" /\ j \notin unsent /\ ~ HasDocument(j)

\* There was a fault for each replica that is not online, and one for each that
\* does not hold a job that waits.
DeliveryInv ==
  /\ Cardinality(Away) <= faults
  /\ \A j \in Buildable : Waiting(j) => Cardinality(Missed(j)) <= faults

\* The arithmetic of a fault that takes one replica, and of a step that takes none.
LEMMA OneMore ==
  ASSUME NEW A \in SUBSET Replicas, NEW B \in SUBSET Replicas, NEW r \in Replicas,
         B \subseteq A \cup {r}, NEW n \in Nat, Cardinality(A) <= n
  PROVE  Cardinality(B) <= n + 1
<1>1. IsFiniteSet(A)
  BY DocumentAssumption, FS_Subset
<1>2. /\ IsFiniteSet(A \cup {r})
      /\ Cardinality(A \cup {r}) =
           IF r \in A THEN Cardinality(A) ELSE Cardinality(A) + 1
  BY <1>1, FS_AddElement
<1>3. Cardinality(B) <= Cardinality(A \cup {r}) /\ IsFiniteSet(B)
  BY <1>2, FS_Subset
<1> QED
  BY <1>1, <1>2, <1>3, FS_CardinalityType

LEMMA NoMore ==
  ASSUME NEW A \in SUBSET Replicas, NEW B \in SUBSET A, NEW n \in Nat,
         Cardinality(A) <= n
  PROVE  Cardinality(B) <= n
<1>1. IsFiniteSet(A)
  BY DocumentAssumption, FS_Subset
<1>2. Cardinality(B) <= Cardinality(A) /\ IsFiniteSet(B)
  BY <1>1, FS_Subset
<1> QED
  BY <1>1, <1>2, FS_CardinalityType

LEMMA InitDelivery == Init => DeliveryInv
<1> SUFFICES ASSUME Init PROVE DeliveryInv
  OBVIOUS
<1>1. Away = {} /\ faults = 0
  BY DEF Init, Away
<1>2. \A j \in Jobs : ~ Waiting(j)
  BY DEF Init, Waiting
<1> QED
  BY <1>1, <1>2, FS_EmptySet, DocumentAssumption DEF DeliveryInv

LEMMA NextDelivery == JobInv /\ DeliveryInv /\ [Next]_vars => DeliveryInv'
<1> SUFFICES ASSUME JobInv, DeliveryInv, [Next]_vars PROVE DeliveryInv'
  OBVIOUS
<1> USE DEF JobInv, TypeOK
<1>t. faults \in Nat /\ Buildable \subseteq Jobs
  BY DocumentAssumption
<1>s. Away \in SUBSET Replicas /\ \A j : Missed(j) \in SUBSET Replicas
  BY DEF Away, Missed
<1>a. ASSUME faults' = faults, Away' \subseteq Away,
             \A x \in Buildable :
               Waiting(x)' => Waiting(x) /\ Missed(x)' \subseteq Missed(x)
      PROVE  DeliveryInv'
  <2>1. Cardinality(Away') <= faults
    BY <1>a, <1>s, <1>t, NoMore DEF DeliveryInv
  <2>2. ASSUME NEW x \in Buildable, Waiting(x)'
        PROVE  Cardinality(Missed(x)') <= faults
    <3>1. Waiting(x) /\ Missed(x)' \subseteq Missed(x)
      BY <1>a, <2>2
    <3> QED
      BY <1>s, <1>t, <3>1, NoMore DEF DeliveryInv
  <2> QED
    BY <1>a, <2>1, <2>2 DEF DeliveryInv
<1>b. ASSUME faults' = faults + 1, NEW r \in Replicas, Away' \subseteq Away \cup {r},
             \A x \in Buildable :
               Waiting(x)' => Waiting(x) /\ Missed(x)' \subseteq Missed(x) \cup {r}
      PROVE  DeliveryInv'
  <2>0. Away' \in SUBSET Replicas /\ \A x : Missed(x)' \in SUBSET Replicas
    BY DEF Away, Missed
  <2>1. Cardinality(Away') <= faults + 1
    BY <1>b, <1>s, <1>t, <2>0, OneMore DEF DeliveryInv
  <2>2. ASSUME NEW x \in Buildable, Waiting(x)'
        PROVE  Cardinality(Missed(x)') <= faults + 1
    <3>1. Waiting(x) /\ Missed(x)' \subseteq Missed(x) \cup {r}
      BY <1>b, <2>2
    <3> QED
      BY <1>s, <1>t, <2>0, <3>1, OneMore DEF DeliveryInv
  <2> QED
    BY <1>b, <2>1, <2>2 DEF DeliveryInv
<1>1. ASSUME NEW r \in Replicas, NEW j \in Jobs, Generate(r, j) PROVE DeliveryInv'
  <2>1. UNCHANGED <<link, phase, documents, unsent, faults>>
    BY <1>1 DEF Generate
  <2>2. Away' = Away
    BY <2>1 DEF Away
  <2>3. ASSUME NEW x \in Buildable, Waiting(x)'
        PROVE  Cardinality(Missed(x)') <= faults
    <3>1. CASE x = j
      <4>1. Missed(j)' \subseteq Away
        BY <1>1 DEF Generate, Missed, Away, Holds
      <4> QED
        BY <1>s, <1>t, <3>1, <4>1, NoMore DEF DeliveryInv
    <3>2. CASE x # j
      <4>1. Waiting(x)
        BY <1>1, <2>3, <3>2, <1>t DEF Generate, Waiting, HasDocument
      <4>2. Missed(x)' \subseteq Missed(x)
        BY <1>1 DEF Generate, Missed, Holds
      <4> QED
        BY <1>s, <1>t, <4>1, <4>2, NoMore DEF DeliveryInv
    <3> QED
      BY <3>1, <3>2
  <2> QED
    BY <2>1, <2>2, <2>3 DEF DeliveryInv
<1>2. ASSUME NEW r \in Replicas, NEW j \in Jobs, GenerateLost(r, j)
      PROVE  DeliveryInv'
  <2>1. UNCHANGED <<link, inbox, phase, documents>> /\ faults' = faults + 1
    BY <1>2 DEF GenerateLost, Fault
  <2>2. Away' = Away /\ \A x : Missed(x)' = Missed(x)
    BY <2>1 DEF Away, Missed, Holds
  <2>3. \A x \in Buildable : Waiting(x)' => Waiting(x)
    BY <1>2, <1>t DEF GenerateLost, Waiting, HasDocument
  <2> QED
    BY <1>b, <2>1, <2>2, <2>3
<1>3. ASSUME NEW r \in Replicas, NEW j \in Jobs, GenerateSync(r, j) \/ Take(r, j)
      PROVE  DeliveryInv'
  <2>1. UNCHANGED <<reply, link, documents, unsent, faults>>
    BY <1>3 DEF GenerateSync, Take
  <2>2. ASSUME NEW q \in Replicas, NEW x \in Jobs, Holds(q, x) PROVE Holds(q, x)'
    <3>1. CASE GenerateSync(r, j)
      BY <2>2, <3>1 DEF GenerateSync, Holds
    <3>2. CASE Take(r, j)
      BY <2>2, <3>2 DEF Take, Holds
    <3> QED
      BY <1>3, <3>1, <3>2
  <2>3. \A x \in Jobs : Missed(x)' \subseteq Missed(x)
    BY <2>2 DEF Missed
  <2> QED
    BY <1>a, <1>t, <2>1, <2>3 DEF Away, Waiting, HasDocument
<1>4. ASSUME NEW r \in Replicas, NEW j \in Jobs,
             Build(r, j) \/ Store(r, j)
      PROVE  DeliveryInv'
  <2>1. UNCHANGED <<reply, link, documents, unsent, faults>>
    BY <1>4 DEF Build, Store
  <2>2. ASSUME NEW q \in Replicas, NEW x \in Jobs, Holds(q, x) PROVE Holds(q, x)'
    <3>1. CASE Build(r, j)
      BY <2>2, <3>1 DEF Build, Holds
    <3>2. CASE Store(r, j)
      BY <2>2, <3>2 DEF Store, Holds
    <3> QED
      BY <1>4, <3>1, <3>2
  <2>3. \A x \in Jobs : Missed(x)' \subseteq Missed(x)
    BY <2>2 DEF Missed
  <2> QED
    BY <1>a, <1>t, <2>1, <2>3 DEF Away, Waiting, HasDocument
<1>5. ASSUME NEW r \in Replicas, NEW j \in Jobs, InsertDocument(r, j)
      PROVE  DeliveryInv'
  <2>1. UNCHANGED <<reply, link, unsent, faults>>
    BY <1>5 DEF InsertDocument
  <2>2. \A x : Missed(x)' \subseteq Missed(x)
    BY <1>5 DEF InsertDocument, Missed, Holds
  <2>3. \A x : HasDocument(x) => HasDocument(x)'
    BY <1>5, Inserted DEF HasDocument
  <2> QED
    BY <1>a, <2>1, <2>2, <2>3 DEF Away, Waiting
<1>6. ASSUME NEW r \in Replicas, NEW j \in Jobs,
             Unbuildable(r, j) \/ Finish(r, j)
      PROVE  DeliveryInv'
  <2>1. UNCHANGED <<link, inbox, documents, unsent, faults>>
        /\ phase' = [phase EXCEPT ![r][j] = "idle"]
    BY <1>6 DEF Unbuildable, Finish
  <2>2. \A x \in Jobs : x # j => Missed(x)' \subseteq Missed(x)
    BY <2>1 DEF Missed, Holds
  <2>3. \A x \in Buildable : Waiting(x)' => Waiting(x)
    BY <1>6, <1>t DEF Unbuildable, Finish, ReplyFailed, Waiting, HasDocument
  <2>4. j \in Buildable => ~ Waiting(j)
    BY <1>6 DEF Unbuildable, Finish, PhaseInv, Waiting
  <2> QED
    BY <1>a, <1>t, <2>1, <2>2, <2>3, <2>4 DEF Away
<1>7. ASSUME NEW r \in Replicas, NEW j \in Jobs, FailJob(r, j) PROVE DeliveryInv'
  <2>1. UNCHANGED <<link, inbox, documents, unsent>> /\ faults' = faults + 1
    BY <1>7 DEF FailJob, Fault
  <2>2. \A x : Missed(x)' \subseteq Missed(x) \cup {r}
    BY <1>7 DEF FailJob, Missed, Holds
  <2>3. \A x \in Buildable : Waiting(x)' => Waiting(x)
    BY <1>7, <1>t DEF FailJob, ReplyFailed, Waiting, HasDocument
  <2> QED
    BY <1>b, <2>1, <2>2, <2>3 DEF Away
<1>8. ASSUME NEW r \in Replicas, NEW j \in Jobs, LoseMessage(r, j)
      PROVE  DeliveryInv'
  <2>1. UNCHANGED <<reply, link, documents, unsent>> /\ faults' = faults + 1
    BY <1>8 DEF LoseMessage, Fault
  <2>2. \A x : Missed(x)' \subseteq Missed(x) \cup {r}
    BY <1>8 DEF LoseMessage, Missed, Holds
  <2> QED
    BY <1>b, <2>1, <2>2 DEF Away, Waiting, HasDocument
<1>9. ASSUME NEW r \in Replicas, Crash(r) PROVE DeliveryInv'
  <2>1. UNCHANGED <<documents, unsent>> /\ faults' = faults + 1
    BY <1>9 DEF Crash, Fault
  <2>2. \A x : Missed(x)' \subseteq Missed(x) \cup {r}
    BY <1>9 DEF Crash, Missed, Holds
  <2>3. \A x \in Buildable : Waiting(x)' => Waiting(x)
    BY <1>9, <1>t DEF Crash, Waiting, HasDocument
  <2>4. Away' \subseteq Away \cup {r}
    BY <1>9 DEF Crash, Away
  <2> QED
    BY <1>b, <2>1, <2>2, <2>3, <2>4
<1>10. ASSUME NEW r \in Replicas, Start(r) \/ StartOffline(r) PROVE DeliveryInv'
  <2>1. UNCHANGED <<reply, inbox, phase, documents, unsent>>
        /\ faults' \in {faults, faults + 1}
    BY <1>10 DEF Start, StartOffline, Fault
  <2>2. Away' \subseteq Away
    BY <1>10 DEF Start, StartOffline, Away
  <2>3. \A x : Missed(x)' = Missed(x) /\ Waiting(x)' = Waiting(x)
    BY <2>1 DEF Missed, Holds, Waiting, HasDocument
  <2> QED
    BY <1>a, <1>b, <2>1, <2>2, <2>3
<1>11. CASE UNCHANGED vars
  BY <1>11 DEF vars, DeliveryInv, Away, Missed, Holds, Waiting, HasDocument
<1> QED
  BY <1>1, <1>2, <1>3, <1>4, <1>5, <1>6, <1>7, <1>8, <1>9, <1>10, <1>11
     DEF Next, Process

\* With fewer faults than replicas a queued job is never lost, for any number of
\* replicas: every fault takes it from one of them only, since each online
\* replica has its own copy (handler.go:84-112).
THEOREM FewFaultsLoseNoJob == Spec => []NoLostJob
<1> DEFINE Inv == JobInv /\ DeliveryInv
<1>1. Init => Inv
  BY InitJob, InitDelivery
<1>2. Inv /\ [Next]_vars => Inv'
  BY NextJob, NextDelivery
<1>3. Inv => NoLostJob
  <2> SUFFICES ASSUME Inv, faults < Cardinality(Replicas),
                      NEW j \in Buildable \ unsent, reply[j] = "queued",
                      \A r \in Replicas : ~ Holds(r, j)
               PROVE  HasDocument(j)
    BY DEF NoLostJob
  <2>1. Missed(j) = Replicas
    BY DEF Missed
  <2>2. Cardinality(Replicas) \in Nat /\ faults \in Nat
    BY DocumentAssumption, FS_CardinalityType DEF JobInv, TypeOK
  <2> QED
    BY <2>1, <2>2 DEF DeliveryInv, Waiting
<1> QED
  BY <1>1, <1>2, <1>3, PTL DEF Spec
=============================================================================
