---------------------------- MODULE DocumentJobs ----------------------------
(***************************************************************************)
(* document-service: a request becomes a job; the job is processed in      *)
(* three effects, none of which can be undone: the object is put into      *)
(* MinIO, the row is inserted into table documents, document.generated is  *)
(* announced.                                                              *)
(*                                                                         *)
(* A replica that reached NATS when it started is online: it publishes the *)
(* job on document.generate and every online replica (itself included)     *)
(* gets a copy.  Its callback handles one message at a time.  A replica    *)
(* that did not is offline until it is started again: it processes the job *)
(* inside the request.                                                     *)
(*                                                                         *)
(* The object's key is made of the SPD and the job, so two replicas that   *)
(* process one job write the same object; a job therefore names its object.*)
(***************************************************************************)
EXTENDS Integers, Sequences, FiniteSets

CONSTANTS
  Jobs,        \* job ids that requests may draw (newID)
  Buildable,   \* the jobs whose SPD exists and can be decrypted and built
  Replicas,    \* running copies of document-service
  MaxFaults,   \* bound: how many faults a behaviour may contain
  FaultKinds   \* which kinds of fault may occur

ASSUME DocumentAssumption ==
  /\ Buildable \subseteq Jobs
  /\ IsFiniteSet(Replicas)
  /\ MaxFaults \in Nat
  /\ FaultKinds \subseteq {"publish", "deliver", "crash", "connect", "job"}

VARIABLES
  reply,       \* [Jobs -> what the client was told]
  link,        \* [Replicas -> "down", "online", "offline"]
  inbox,       \* [Replicas -> jobs delivered and not yet taken]
  phase,       \* [Replicas -> [Jobs -> how far processJob is]]
  objects,     \* the jobs whose object is in the bucket
  documents,   \* table documents, in id order; by is history: who inserted
  announced,   \* ids published on document.generated
  unsent,      \* history: jobs whose publication never arrived
  faults       \* faults so far

vars ==
  <<reply, link, inbox, phase, objects, documents, announced, unsent, faults>>

Reply == {"none", "queued", "created", "failed"}
Phase == {"idle", "accepted", "built", "stored", "inserted"}
DocumentRow == [job : Jobs, by : Replicas]

HasDocument(j) == \E i \in DOMAIN documents : documents[i].job = j
Busy(r) == \E j \in Jobs : phase[r][j] # "idle"
Holds(r, j) == j \in inbox[r] \/ phase[r][j] # "idle"

\* newID: a job id is drawn once.
Fresh(j) == reply[j] = "none" /\ \A r \in Replicas : phase[r][j] = "idle"

Init ==
  /\ reply = [j \in Jobs |-> "none"]
  /\ link = [r \in Replicas |-> "online"]
  /\ inbox = [r \in Replicas |-> {}]
  /\ phase = [r \in Replicas |-> [j \in Jobs |-> "idle"]]
  /\ objects = {}
  /\ documents = <<>>
  /\ announced = {}
  /\ unsent = {}
  /\ faults = 0

Fault(kind) ==
  /\ kind \in FaultKinds
  /\ faults < MaxFaults
  /\ faults' = faults + 1

-----------------------------------------------------------------------------
(* POST /documents/spds/:spd_id/generate *)

\* Variant: a queue group, which hands the job to one replica only.
GenerateForOne(r, j) ==
  /\ link[r] = "online"
  /\ Fresh(j)
  /\ reply' = [reply EXCEPT ![j] = "queued"]
  /\ \E q \in Replicas :
       /\ link[q] = "online"
       /\ inbox' = [inbox EXCEPT ![q] = @ \cup {j}]
  /\ UNCHANGED <<link, phase, objects, documents, announced, unsent, faults>>

\* The asynchronous path: publish, then answer 202.
Generate(r, j) ==
  /\ link[r] = "online"
  /\ Fresh(j)
  /\ reply' = [reply EXCEPT ![j] = "queued"]
  /\ inbox' = [q \in Replicas |->
                 IF link[q] = "online" THEN inbox[q] \cup {j} ELSE inbox[q]]
  /\ UNCHANGED <<link, phase, objects, documents, announced, unsent, faults>>

\* The publication fails: an error the client is told of, or a message that
\* leaves the client's buffer and never arrives.
GenerateLost(r, j) ==
  /\ Fault("publish")
  /\ link[r] = "online"
  /\ Fresh(j)
  /\ \E answer \in {"queued", "failed"} :
       reply' = [reply EXCEPT ![j] = answer]
  /\ unsent' = unsent \cup {j}
  /\ UNCHANGED <<link, inbox, phase, objects, documents, announced>>

\* The synchronous fallback.  The answer comes when the job is done.
GenerateSync(r, j) ==
  /\ link[r] = "offline"
  /\ Fresh(j)
  /\ phase' = [phase EXCEPT ![r][j] = "accepted"]
  /\ UNCHANGED <<reply, link, inbox, objects, documents, announced, unsent, faults>>

-----------------------------------------------------------------------------
(* The subscription's callback, and processJob *)

Take(r, j) ==
  /\ j \in inbox[r]
  /\ ~ Busy(r)
  /\ inbox' = [inbox EXCEPT ![r] = @ \ {j}]
  /\ phase' = [phase EXCEPT ![r][j] = "accepted"]
  /\ UNCHANGED <<reply, link, objects, documents, announced, unsent, faults>>

\* What the client is told when processJob fails: the callback only logs.
ReplyFailed(r, j) ==
  reply' = IF link[r] = "offline"
           THEN [reply EXCEPT ![j] = "failed"]
           ELSE reply

\* GetSPDForDoc, the two decryptions and buildDocument.
Build(r, j) ==
  /\ phase[r][j] = "accepted"
  /\ j \in Buildable
  /\ phase' = [phase EXCEPT ![r][j] = "built"]
  /\ UNCHANGED <<reply, link, inbox, objects, documents, announced, unsent, faults>>

\* No such SPD, a column that does not decrypt, a format that is not known.
Unbuildable(r, j) ==
  /\ phase[r][j] = "accepted"
  /\ j \notin Buildable
  /\ phase' = [phase EXCEPT ![r][j] = "idle"]
  /\ ReplyFailed(r, j)
  /\ UNCHANGED <<link, inbox, objects, documents, announced, unsent, faults>>

\* Variant: the row is inserted first, the object is put afterwards.
StoreLater(r, j) ==
  /\ phase[r][j] = "built"
  /\ phase' = [phase EXCEPT ![r][j] = "stored"]
  /\ UNCHANGED <<reply, link, inbox, objects, documents, announced, unsent, faults>>

\* PutObject: overwrites what another replica put for the same job.
Store(r, j) ==
  /\ phase[r][j] = "built"
  /\ objects' = objects \cup {j}
  /\ phase' = [phase EXCEPT ![r][j] = "stored"]
  /\ UNCHANGED <<reply, link, inbox, documents, announced, unsent, faults>>

\* InsertDocument: no unique constraint, so one row per replica.
InsertDocument(r, j) ==
  /\ phase[r][j] = "stored"
  /\ documents' = Append(documents, [job |-> j, by |-> r])
  /\ phase' = [phase EXCEPT ![r][j] = "inserted"]
  /\ UNCHANGED <<reply, link, inbox, objects, announced, unsent, faults>>

\* The announcement (online only, its error ignored) and the result.
Finish(r, j) ==
  /\ phase[r][j] = "inserted"
  /\ phase' = [phase EXCEPT ![r][j] = "idle"]
  /\ announced' = announced \cup
       { i \in DOMAIN documents :
           link[r] = "online" /\ documents[i] = [job |-> j, by |-> r] }
  /\ reply' = IF link[r] = "offline"
              THEN [reply EXCEPT ![j] = "created"]
              ELSE reply
  /\ UNCHANGED <<link, inbox, objects, documents, unsent, faults>>

-----------------------------------------------------------------------------
(* Faults *)

\* PostgreSQL or MinIO fails the job.  What it did so far stays.
FailJob(r, j) ==
  /\ Fault("job")
  /\ phase[r][j] \in {"accepted", "built", "stored"}
  /\ phase' = [phase EXCEPT ![r][j] = "idle"]
  /\ ReplyFailed(r, j)
  /\ UNCHANGED <<link, inbox, objects, documents, announced, unsent>>

\* NATS drops a message on its way to one replica.
LoseMessage(r, j) ==
  /\ Fault("deliver")
  /\ j \in inbox[r]
  /\ inbox' = [inbox EXCEPT ![r] = @ \ {j}]
  /\ UNCHANGED <<reply, link, phase, objects, documents, announced, unsent>>

\* A replica stops: neither the messages it holds nor the job in its callback
\* is waited for.  A client that waits for an answer gets none.
Crash(r) ==
  /\ Fault("crash")
  /\ link[r] # "down"
  /\ link' = [link EXCEPT ![r] = "down"]
  /\ inbox' = [inbox EXCEPT ![r] = {}]
  /\ phase' = [phase EXCEPT ![r] = [j \in Jobs |-> "idle"]]
  /\ reply' = [j \in Jobs |->
                 IF link[r] = "offline" /\ phase[r][j] # "idle"
                 THEN "failed" ELSE reply[j]]
  /\ UNCHANGED <<objects, documents, announced, unsent>>

Start(r) ==
  /\ link[r] = "down"
  /\ link' = [link EXCEPT ![r] = "online"]
  /\ UNCHANGED <<reply, inbox, phase, objects, documents, announced, unsent, faults>>

\* nats.Connect fails: the service starts with async jobs disabled.
StartOffline(r) ==
  /\ Fault("connect")
  /\ link[r] = "down"
  /\ link' = [link EXCEPT ![r] = "offline"]
  /\ UNCHANGED <<reply, inbox, phase, objects, documents, announced, unsent>>

-----------------------------------------------------------------------------
Process(r, j) ==
  \/ Take(r, j)
  \/ Build(r, j)
  \/ Unbuildable(r, j)
  \/ Store(r, j)
  \/ InsertDocument(r, j)
  \/ Finish(r, j)

Next ==
  \/ \E r \in Replicas, j \in Jobs :
       \/ Generate(r, j)
       \/ GenerateLost(r, j)
       \/ GenerateSync(r, j)
       \/ Process(r, j)
       \/ FailJob(r, j)
       \/ LoseMessage(r, j)
  \/ \E r \in Replicas : Crash(r) \/ Start(r) \/ StartOffline(r)

Spec == Init /\ [][Next]_vars

\* The callback goes on with the job it has and takes the next one; PostgreSQL
\* and MinIO answer, or fail the job.  Nobody is obliged to start a replica.
\* Take is fair per job: a queue of messages is handled in order of arrival.
Fairness ==
  \A r \in Replicas, j \in Jobs :
    /\ SF_vars(Take(r, j))
    /\ WF_vars(Build(r, j) \/ Unbuildable(r, j) \/ Store(r, j)
                 \/ InsertDocument(r, j) \/ Finish(r, j))

FairSpec == Spec /\ Fairness
-----------------------------------------------------------------------------
(* Properties *)

\* Types, and what the two ways of running imply: nothing is delivered to a
\* replica that is not online, and a callback has one job at a time.
TypeOK ==
  /\ reply \in [Jobs -> Reply]
  /\ link \in [Replicas -> {"down", "online", "offline"}]
  /\ inbox \in [Replicas -> SUBSET Jobs]
  /\ phase \in [Replicas -> [Jobs -> Phase]]
  /\ objects \subseteq Buildable
  /\ documents \in Seq(DocumentRow)
  /\ announced \subseteq DOMAIN documents
  /\ unsent \subseteq Jobs
  /\ faults \in 0 .. MaxFaults
  /\ \A r \in Replicas : link[r] # "online" => inbox[r] = {}

\* A documents row is never a dead link: its object was put before the row was
\* inserted, whatever crashed or failed in between (handler.go:153-163).
RowsHaveObjects ==
  \A i \in DOMAIN documents : documents[i].job \in objects

\* A client that was told "created" has its document (handler.go:92-97).
CreatedIsStored ==
  \A j \in Jobs : reply[j] = "created" => HasDocument(j) /\ j \in objects

\* One job has one row per replica that processes it, never more, crashes and
\* restarts included: a message that was taken is never taken again.
OneRowPerReplica ==
  \A i, k \in DOMAIN documents : documents[i] = documents[k] => i = k

\* With fewer faults than replicas a queued job whose publication arrived is
\* never lost: it has its document or some replica still holds it.
NoLostJob ==
  faults < Cardinality(Replicas) =>
    \A j \in Buildable \ unsent :
      reply[j] = "queued" =>
        HasDocument(j) \/ \E r \in Replicas : Holds(r, j)

\* Under the same condition the document is eventually there.
EventuallyGenerated ==
  \A j \in Buildable :
    reply[j] = "queued" /\ j \notin unsent ~>
      HasDocument(j) \/ faults >= Cardinality(Replicas)
=============================================================================
