-------------------------- MODULE SpdWorkflowProofs --------------------------
(***************************************************************************)
(* Theorems about SpdWorkflow, for every value of its constants.           *)
(***************************************************************************)
EXTENDS SpdWorkflow, FiniteSetTheorems, TLAPS

-----------------------------------------------------------------------------
(* Lemmas about the shape of the tables *)

\* A row that is a function on 1 .. n with values in S is a sequence over S.
LEMMA SeqOfFunction ==
  ASSUME NEW S, NEW n \in Nat, NEW f \in [1 .. n -> S]
  PROVE  f \in Seq(S)
OBVIOUS

\* The positions of a sequence are 1 .. Len, and its elements are typed.
LEMMA SeqElements ==
  ASSUME NEW S, NEW q \in Seq(S)
  PROVE  /\ Len(q) \in Nat
         /\ DOMAIN q = 1 .. Len(q)
         /\ \A i \in DOMAIN q : q[i] \in S
OBVIOUS

\* The new table after a decision has the same rows, in the same order.
LEMMA DecidedTableTyped ==
  ASSUME TypeOK, NEW t \in deciding, CommitDecision(t)
  PROVE  /\ approvals' \in Seq(ApprovalRow)
         /\ DOMAIN approvals' = DOMAIN approvals
<1>1. t \in Transaction
  BY DEF TypeOK
<1>2. approvals \in Seq(ApprovalRow)
  BY DEF TypeOK
<1>3. DOMAIN approvals = 1 .. Len(approvals) /\ Len(approvals) \in Nat
  BY <1>2
<1>4. \A i \in 1 .. Len(approvals) : approvals[i] \in ApprovalRow
  BY <1>2
<1>5. approvals' \in [1 .. Len(approvals) -> ApprovalRow]
  BY <1>1, <1>3, <1>4 DEF CommitDecision, Transaction, ApprovalRow
<1> QED
  BY <1>3, <1>5, SeqOfFunction

-----------------------------------------------------------------------------
(* Type correctness *)

LEMMA InitType == Init => TypeOK
<1> SUFFICES ASSUME Init PROVE TypeOK
  OBVIOUS
<1>1. LegacyRows \in Seq([spd : Spds, approver : Users \cup {NoUser}])
  BY WorkflowAssumption
<1>2. approvals \in Seq(ApprovalRow)
  <2>1. DOMAIN LegacyRows = 1 .. Len(LegacyRows) /\ Len(LegacyRows) \in Nat
    BY <1>1
  <2>2. ASSUME NEW i \in DOMAIN LegacyRows
        PROVE  PendingRow(LegacyRows[i].spd, Etl, LegacyRows[i].approver)
                 \in ApprovalRow
    <3>1. LegacyRows[i] \in [spd : Spds, approver : Users \cup {NoUser}]
      BY <1>1, SeqElements
    <3> QED
      BY <3>1 DEF PendingRow, ApprovalRow, Source
  <2>3. approvals \in [1 .. Len(LegacyRows) -> ApprovalRow]
    BY <2>1, <2>2 DEF Init
  <2> QED
    BY <2>1, <2>3, SeqOfFunction
<1> QED
  BY <1>2, WorkflowAssumption DEF Init, TypeOK

LEMMA NextType == TypeOK /\ [Next]_vars => TypeOK'
<1> SUFFICES ASSUME TypeOK, [Next]_vars PROVE TypeOK'
  OBVIOUS
<1> USE DEF TypeOK
<1>1. ASSUME NEW u \in Users, NEW s \in Spds, Create(u, s) PROVE TypeOK'
  BY <1>1 DEF Create, SpdRow, SpdStatus
<1>2. ASSUME NEW u \in Users, NEW s \in Spds, Submit(u, s) PROVE TypeOK'
  BY <1>2 DEF Submit, SpdRow, SpdStatus
<1>3. ASSUME NEW s \in Spds, Publish(s) PROVE TypeOK'
  BY <1>3 DEF Publish
<1>4. ASSUME NEW s \in Spds, LosePublish(s) PROVE TypeOK'
  BY <1>4, WorkflowAssumption DEF LosePublish, Fault
<1>5. ASSUME NEW r \in Replicas, NEW s \in Spds, Consume(r, s) PROVE TypeOK'
  <2>1. PendingRow(s, r, NoUser) \in ApprovalRow
    BY DEF PendingRow, ApprovalRow, Source
  <2> QED
    BY <1>5, <2>1 DEF Consume
<1>6. ASSUME NEW r \in Replicas, NEW s \in Spds, LoseMessage(r, s) PROVE TypeOK'
  BY <1>6, WorkflowAssumption DEF LoseMessage, Fault
<1>7. ASSUME NEW r \in Replicas, Crash(r) PROVE TypeOK'
  BY <1>7, WorkflowAssumption DEF Crash, Fault
<1>8. ASSUME NEW r \in Replicas, Restart(r) PROVE TypeOK'
  BY <1>8 DEF Restart
<1>9. ASSUME NEW u \in Users, NEW s \in Spds, NEW v \in Verdicts,
             DecideRows(u, s, v)
      PROVE  TypeOK'
  <2>1. Decidable(u, s) \subseteq Nat
    BY DEF Decidable
  <2> QED
    BY <1>9, <2>1 DEF DecideRows, Transaction
<1>10. ASSUME NEW t \in deciding, CommitDecision(t) PROVE TypeOK'
  <2>1. approvals' \in Seq(ApprovalRow)
    BY <1>10, DecidedTableTyped
  <2>2. spd' \in [Spds -> SpdRow]
    BY <1>10 DEF CommitDecision, Transaction, SpdRow, SpdStatus
  <2> QED
    BY <1>10, <2>1, <2>2 DEF CommitDecision
<1>11. ASSUME NEW t \in deciding, Rollback(t) PROVE TypeOK'
  BY <1>11 DEF Rollback
<1>12. CASE UNCHANGED vars
  BY <1>12 DEF vars
<1> QED
  BY <1>1, <1>2, <1>3, <1>4, <1>5, <1>6, <1>7, <1>8, <1>9, <1>10, <1>11, <1>12
     DEF Next

\* Every row and every process variable keeps its type, in every instance.
THEOREM TypeCorrect == Spec => []TypeOK
<1>1. Init => TypeOK
  BY InitType
<1>2. TypeOK /\ [Next]_vars => TypeOK'
  BY NextType
<1> QED
  BY <1>1, <1>2, PTL DEF Spec
-----------------------------------------------------------------------------
(* Row locks *)

\* A consumed message adds one PENDING row at the end and touches no other.
LEMMA ConsumedTable ==
  ASSUME TypeOK, NEW r \in Replicas, NEW s \in Spds, Consume(r, s)
  PROVE  /\ Len(approvals) \in Nat
         /\ DOMAIN approvals = 1 .. Len(approvals)
         /\ DOMAIN approvals' = 1 .. Len(approvals) + 1
         /\ \A i \in DOMAIN approvals : approvals'[i] = approvals[i]
         /\ approvals'[Len(approvals) + 1] = PendingRow(s, r, NoUser)
<1>1. approvals \in Seq(ApprovalRow)
  BY DEF TypeOK
<1> DEFINE row == PendingRow(s, r, NoUser)
<1>2. approvals' = Append(approvals, row)
  BY DEF Consume
<1>3. row \in ApprovalRow
  BY DEF PendingRow, ApprovalRow, Source
<1> HIDE DEF row
<1>4. /\ Len(approvals) \in Nat
      /\ DOMAIN approvals = 1 .. Len(approvals)
      /\ DOMAIN approvals' = 1 .. Len(approvals) + 1
      /\ \A i \in DOMAIN approvals : approvals'[i] = approvals[i]
      /\ approvals'[Len(approvals) + 1] = row
  BY <1>1, <1>2, <1>3
<1> QED
  BY <1>4 DEF row

\* What an open decision holds stays decidable as long as nobody touches it.
LEMMA StaysDecidable ==
  ASSUME NEW u, NEW s, NEW i \in Decidable(u, s),
         i \in DOMAIN approvals', approvals'[i] = approvals[i]
  PROVE  i \in Decidable(u, s)'
BY DEF Decidable

\* One open decision less, and the rows of the others untouched.
LEMMA LocksAfterEnd ==
  ASSUME LocksExclusive, NEW t \in deciding, deciding' = deciding \ {t},
         \A t2 \in deciding \ {t} : \A i \in t2.rows :
           i \in DOMAIN approvals' /\ approvals'[i] = approvals[i]
  PROVE  LocksExclusive'
<1>1. ASSUME NEW t2 \in deciding'
      PROVE  /\ CanApprove(t2.user)
             /\ t2.rows # {}
             /\ t2.rows \subseteq Decidable(t2.user, t2.spd)'
  BY <1>1, StaysDecidable DEF LocksExclusive
<1>2. \A t1, t2 \in deciding' : t1.rows \cap t2.rows # {} => t1 = t2
  BY DEF LocksExclusive
<1> QED
  BY <1>1, <1>2 DEF LocksExclusive

LEMMA InitLocks == Init => LocksExclusive
BY DEF Init, LocksExclusive

LEMMA NextLocks == TypeOK /\ LocksExclusive /\ [Next]_vars => LocksExclusive'
<1> SUFFICES ASSUME TypeOK, LocksExclusive, [Next]_vars
             PROVE  LocksExclusive'
  OBVIOUS
<1>1. ASSUME UNCHANGED <<approvals, deciding>> PROVE LocksExclusive'
  BY <1>1 DEF LocksExclusive, Decidable
<1>2. ASSUME NEW u \in Users, NEW s \in Spds, Create(u, s) \/ Submit(u, s)
      PROVE  LocksExclusive'
  BY <1>1, <1>2 DEF Create, Submit
<1>3. ASSUME NEW s \in Spds, Publish(s) \/ LosePublish(s)
      PROVE  LocksExclusive'
  BY <1>1, <1>3 DEF Publish, LosePublish
<1>4. ASSUME NEW r \in Replicas, NEW s \in Spds, Consume(r, s)
      PROVE  LocksExclusive'
  <2>1. deciding' = deciding
    BY <1>4 DEF Consume
  <2>2. \A i \in DOMAIN approvals :
          i \in DOMAIN approvals' /\ approvals'[i] = approvals[i]
    BY <1>4, ConsumedTable
  <2>3. ASSUME NEW t \in deciding
        PROVE  t.rows \subseteq Decidable(t.user, t.spd)'
    <3>1. t.rows \subseteq Decidable(t.user, t.spd)
      BY DEF LocksExclusive
    <3>2. t.rows \subseteq DOMAIN approvals
      BY <3>1 DEF Decidable
    <3> QED
      BY <2>2, <3>1, <3>2, StaysDecidable
  <2> QED
    BY <2>1, <2>3 DEF LocksExclusive
<1>5. ASSUME NEW r \in Replicas, NEW s \in Spds, LoseMessage(r, s)
      PROVE  LocksExclusive'
  BY <1>1, <1>5 DEF LoseMessage
<1>6. ASSUME NEW r \in Replicas, Crash(r) \/ Restart(r)
      PROVE  LocksExclusive'
  BY <1>1, <1>6 DEF Crash, Restart
<1>7. ASSUME NEW u \in Users, NEW s \in Spds, NEW v \in Verdicts,
             DecideRows(u, s, v)
      PROVE  LocksExclusive'
  <2> DEFINE new == [user |-> u, spd |-> s, verdict |-> v,
                     rows |-> Decidable(u, s)]
  <2>1. /\ deciding' = deciding \cup {new}
        /\ approvals' = approvals
        /\ CanApprove(u)
        /\ Decidable(u, s) # {}
        /\ \A t \in deciding : t.rows \cap Decidable(u, s) = {}
    BY <1>7 DEF DecideRows
  <2>2. \A w, x : Decidable(w, x)' = Decidable(w, x)
    BY <2>1 DEF Decidable
  <2>3. ASSUME NEW t \in deciding'
        PROVE  /\ CanApprove(t.user)
               /\ t.rows # {}
               /\ t.rows \subseteq Decidable(t.user, t.spd)'
    <3>1. CASE t \in deciding
      BY <2>2, <3>1 DEF LocksExclusive
    <3>2. CASE t = new
      BY <2>1, <2>2, <3>2
    <3> QED
      BY <2>1, <3>1, <3>2
  <2>4. ASSUME NEW t1 \in deciding', NEW t2 \in deciding',
               t1.rows \cap t2.rows # {}
        PROVE  t1 = t2
    BY <2>1, <2>4 DEF LocksExclusive
  <2> QED
    BY <2>3, <2>4 DEF LocksExclusive
<1>8. ASSUME NEW t \in deciding, CommitDecision(t) PROVE LocksExclusive'
  <2>1. DOMAIN approvals' = DOMAIN approvals
    BY <1>8, DecidedTableTyped
  <2>2. ASSUME NEW t2 \in deciding \ {t}, NEW i \in t2.rows
        PROVE  i \in DOMAIN approvals' /\ approvals'[i] = approvals[i]
    <3>1. i \in DOMAIN approvals
      BY DEF LocksExclusive, Decidable
    <3>2. i \notin t.rows
      BY DEF LocksExclusive
    <3> QED
      BY <1>8, <2>1, <3>1, <3>2 DEF CommitDecision
  <2> QED
    BY <1>8, <2>2, LocksAfterEnd DEF CommitDecision
<1>9. ASSUME NEW t \in deciding, Rollback(t) PROVE LocksExclusive'
  <2>1. approvals' = approvals
    BY <1>9 DEF Rollback
  <2>2. \A t2 \in deciding : t2.rows \subseteq DOMAIN approvals
    BY DEF LocksExclusive, Decidable
  <2> QED
    BY <1>9, <2>1, <2>2, LocksAfterEnd DEF Rollback
<1>10. CASE UNCHANGED vars
  BY <1>1, <1>10 DEF vars
<1> QED
  BY <1>2, <1>3, <1>4, <1>5, <1>6, <1>7, <1>8, <1>9, <1>10 DEF Next

\* Two open decisions never hold the same row, and what they hold is still
\* PENDING: the UPDATE's row locks, for any number of users and replicas.
THEOREM LocksHeld == Spec => []LocksExclusive
<1>1. Init => TypeOK /\ LocksExclusive
  BY InitType, InitLocks
<1>2. (TypeOK /\ LocksExclusive) /\ [Next]_vars => (TypeOK /\ LocksExclusive)'
  BY NextType, NextLocks
<1> QED
  BY <1>1, <1>2, PTL DEF Spec
-----------------------------------------------------------------------------
(* Decisions *)

\* Only three kinds of step change table spds.
LEMMA SpdSteps ==
  ASSUME [Next]_vars
  PROVE  \/ spd' = spd
         \/ \E u \in Users, s \in Spds : Create(u, s) \/ Submit(u, s)
         \/ \E t \in deciding : CommitDecision(t)
BY DEF Next, vars, Publish, LosePublish, Consume, LoseMessage, Crash, Restart,
       DecideRows, Rollback

\* Only two kinds of step change table approvals.
LEMMA ApprovalSteps ==
  ASSUME [Next]_vars
  PROVE  \/ approvals' = approvals
         \/ \E r \in Replicas, s \in Spds : Consume(r, s)
         \/ \E t \in deciding : CommitDecision(t)
BY DEF Next, vars, Create, Submit, Publish, LosePublish, LoseMessage, Crash,
       Restart, DecideRows, Rollback

LEMMA NextRows == TypeOK /\ LocksExclusive /\ [Next]_vars => RowsImmutable
<1> SUFFICES ASSUME TypeOK, LocksExclusive, [Next]_vars,
                    NEW i \in DOMAIN approvals
             PROVE  /\ i \in DOMAIN approvals'
                    /\ approvals[i].status # "PENDING" =>
                         approvals'[i] = approvals[i]
  BY DEF RowsImmutable
<1>1. CASE approvals' = approvals
  BY <1>1
<1>2. ASSUME NEW r \in Replicas, NEW s \in Spds, Consume(r, s)
      PROVE  i \in DOMAIN approvals' /\ approvals'[i] = approvals[i]
  BY <1>2, ConsumedTable
<1>3. ASSUME NEW t \in deciding, CommitDecision(t)
      PROVE  /\ i \in DOMAIN approvals'
             /\ approvals[i].status # "PENDING" =>
                  approvals'[i] = approvals[i]
  <2>1. i \in DOMAIN approvals'
    BY <1>3, DecidedTableTyped
  <2>2. approvals[i].status # "PENDING" => i \notin t.rows
    BY DEF LocksExclusive, Decidable
  <2> QED
    BY <1>3, <2>1, <2>2 DEF CommitDecision
<1> QED
  BY <1>1, <1>2, <1>3, ApprovalSteps

\* What a committed decision leaves behind.
LEMMA CommittedRows ==
  ASSUME TypeOK, LocksExclusive, NEW t \in deciding, CommitDecision(t),
         NEW i \in t.rows
  PROVE  /\ i \in DOMAIN approvals'
         /\ approvals'[i].spd = t.spd
         /\ approvals'[i].status = t.verdict
         /\ approvals'[i].decidedBy = t.user
         /\ approvals'[i].approver \in {NoUser, t.user}
<1>1. /\ i \in DOMAIN approvals
      /\ approvals[i].spd = t.spd
      /\ approvals[i].approver \in {NoUser, t.user}
  BY DEF LocksExclusive, Decidable
<1>2. approvals[i] \in ApprovalRow
  BY <1>1, SeqElements DEF TypeOK
<1>3. approvals'[i] = [approvals[i] EXCEPT !.status = t.verdict,
                                           !.decidedBy = t.user]
  BY <1>1 DEF CommitDecision
<1> QED
  BY <1>1, <1>2, <1>3, DecidedTableTyped DEF ApprovalRow

\* StatusBacked, for one SPD.
Backed(s) ==
  \E i \in DOMAIN approvals :
    /\ approvals[i].spd = s
    /\ approvals[i].status = spd[s].status
    /\ approvals[i].decidedBy \in Users
    /\ CanApprove(approvals[i].decidedBy)
    /\ approvals[i].approver \in {NoUser, approvals[i].decidedBy}

LEMMA NextBacked ==
  TypeOK /\ LocksExclusive /\ StatusBacked /\ [Next]_vars => StatusBacked'
<1> SUFFICES ASSUME TypeOK, LocksExclusive, StatusBacked, [Next]_vars,
                    NEW s \in Spds, spd'[s].status \in Verdicts
             PROVE  Backed(s)'
  BY DEF StatusBacked, Backed
<1>1. ASSUME spd'[s].status = spd[s].status PROVE Backed(s)'
  <2>1. PICK i \in DOMAIN approvals :
          /\ approvals[i].spd = s
          /\ approvals[i].status = spd[s].status
          /\ approvals[i].decidedBy \in Users
          /\ CanApprove(approvals[i].decidedBy)
          /\ approvals[i].approver \in {NoUser, approvals[i].decidedBy}
    BY <1>1 DEF StatusBacked
  <2>2. i \in DOMAIN approvals' /\ approvals'[i] = approvals[i]
    BY <1>1, <2>1, NextRows DEF RowsImmutable, Verdicts
  <2> QED
    BY <1>1, <2>1, <2>2 DEF Backed, CanApprove
<1>2. ASSUME NEW u \in Users, NEW x \in Spds, Create(u, x) \/ Submit(u, x)
      PROVE  spd'[s].status = spd[s].status
  BY <1>2 DEF Create, Submit, TypeOK, SpdRow, Verdicts
<1>3. ASSUME NEW t \in deciding, CommitDecision(t),
             spd'[s].status # spd[s].status
      PROVE  Backed(s)'
  <2>1. t \in Transaction
    BY DEF TypeOK
  <2>2. t.spd = s /\ spd'[s].status = t.verdict
    BY <1>3, <2>1 DEF CommitDecision, TypeOK, SpdRow, Transaction
  <2>3. PICK i \in t.rows : TRUE
    BY DEF LocksExclusive
  <2>4. CanApprove(t.user) /\ t.user \in Users
    BY <2>1 DEF LocksExclusive, Transaction
  <2> QED
    BY <1>3, <2>2, <2>3, <2>4, CommittedRows DEF Backed, CanApprove
<1> QED
  BY <1>1, <1>2, <1>3, SpdSteps

LEMMA InitBacked == Init => StatusBacked
BY DEF Init, StatusBacked, Verdicts

\* An APPROVED or REJECTED SPD is backed by a row with the same decision, made
\* by a user whose role may decide and whom the row admits.
THEOREM DecisionsBacked == Spec => []StatusBacked
<1> DEFINE Inv == TypeOK /\ LocksExclusive /\ StatusBacked
<1>1. Init => Inv
  BY InitType, InitLocks, InitBacked
<1>2. Inv /\ [Next]_vars => Inv'
  BY NextType, NextLocks, NextBacked
<1>3. Inv => StatusBacked
  OBVIOUS
<1> HIDE DEF Inv
<1> QED
  BY <1>1, <1>2, <1>3, PTL DEF Spec

\* However decisions interleave, a row is decided once and never changes again.
THEOREM RowsDecidedOnce == Spec => RowsImmutableAlways
<1>1. Init => TypeOK /\ LocksExclusive
  BY InitType, InitLocks
<1>2. (TypeOK /\ LocksExclusive) /\ [Next]_vars => (TypeOK /\ LocksExclusive)'
  BY NextType, NextLocks
<1>3. (TypeOK /\ LocksExclusive) /\ [Next]_vars => [RowsImmutable]_vars
  BY NextRows
<1> QED
  BY <1>1, <1>2, <1>3, PTL DEF Spec, RowsImmutableAlways
-----------------------------------------------------------------------------
(* Messages and rows: the inductive invariant behind OneRowPerReplica *)

RowFrom(r, s) ==
  \E i \in DOMAIN approvals : approvals[i].spd = s /\ approvals[i].src = r

\* An event that is not published has left no trace, and a message that waits
\* in the inbox of r has no row of r: each stage hands over to the next.
Handover ==
  /\ \A s \in unpublished : \A r \in Replicas :
       s \notin inbox[r] /\ ~ RowFrom(r, s)
  /\ \A r \in Replicas : \A s \in inbox[r] : ~ RowFrom(r, s)

MessageInv == Handover /\ OneRowPerReplica /\ NothingBeforeSubmit

LEMMA CommittedOrigin ==
  ASSUME TypeOK, NEW t \in deciding, CommitDecision(t)
  PROVE  /\ DOMAIN approvals' = DOMAIN approvals
         /\ \A i \in DOMAIN approvals :
              /\ approvals'[i].spd = approvals[i].spd
              /\ approvals'[i].src = approvals[i].src
<1>1. DOMAIN approvals' = DOMAIN approvals
  BY DecidedTableTyped
<1>2. ASSUME NEW i \in DOMAIN approvals
      PROVE  /\ approvals'[i].spd = approvals[i].spd
             /\ approvals'[i].src = approvals[i].src
  <2>1. approvals[i] \in ApprovalRow
    BY SeqElements DEF TypeOK
  <2> QED
    BY <2>1 DEF CommitDecision, ApprovalRow
<1> QED
  BY <1>1, <1>2

\* Steps that keep every row's origin only have to account for the messages.
LEMMA SameOrigins ==
  ASSUME DOMAIN approvals' = DOMAIN approvals,
         \A i \in DOMAIN approvals :
           /\ approvals'[i].spd = approvals[i].spd
           /\ approvals'[i].src = approvals[i].src
  PROVE  /\ \A r, s : RowFrom(r, s)' <=> RowFrom(r, s)
         /\ \A s : HasRow(s)' <=> HasRow(s)
         /\ OneRowPerReplica => OneRowPerReplica'
BY DEF RowFrom, HasRow, OneRowPerReplica

LEMMA RowHasSource ==
  ASSUME TypeOK, NEW s, NEW r, RowFrom(r, s)
  PROVE  HasRow(s)
BY DEF RowFrom, HasRow

LEMMA InitMessages == Init => MessageInv
<1> SUFFICES ASSUME Init PROVE MessageInv
  OBVIOUS
<1>1. DOMAIN approvals = DOMAIN LegacyRows
  BY DEF Init
<1>2. \A i \in DOMAIN approvals :
        /\ approvals[i].spd = LegacyRows[i].spd
        /\ approvals[i].src = Etl
  BY <1>1 DEF Init, PendingRow
<1>3. Handover
  BY DEF Init, Handover
<1>4. OneRowPerReplica
  BY <1>2 DEF OneRowPerReplica
<1>5. NothingBeforeSubmit
  <2> SUFFICES ASSUME NEW s \in Spds, spd[s].status \in {"ABSENT", "DRAFT"}
               PROVE  ~ HasRow(s) /\ s \notin unpublished
                      /\ \A r \in Replicas : s \notin inbox[r]
    BY DEF NothingBeforeSubmit
  <2>1. s \notin LegacySpds
    BY DEF Init
  <2>2. ~ HasRow(s)
    BY <1>1, <1>2, <2>1 DEF HasRow, LegacySpds
  <2> QED
    BY <2>2 DEF Init
<1> QED
  BY <1>3, <1>4, <1>5 DEF MessageInv

LEMMA NextMessages == TypeOK /\ MessageInv /\ [Next]_vars => MessageInv'
<1> SUFFICES ASSUME TypeOK, MessageInv, [Next]_vars PROVE MessageInv'
  OBVIOUS
<1> USE DEF MessageInv
<1>1. ASSUME UNCHANGED <<spd, approvals, unpublished, inbox>>
      PROVE  MessageInv'
  BY <1>1 DEF Handover, OneRowPerReplica, NothingBeforeSubmit, RowFrom, HasRow
<1>2. ASSUME NEW u \in Users, NEW s \in Spds, Create(u, s)
      PROVE  MessageInv'
  <2>1. UNCHANGED <<approvals, unpublished, inbox>>
    BY <1>2 DEF Create
  <2>2. Handover' /\ OneRowPerReplica'
    BY <2>1 DEF Handover, OneRowPerReplica, RowFrom
  <2>3. \A x \in Spds : spd'[x].status \in {"ABSENT", "DRAFT"} =>
                         spd[x].status \in {"ABSENT", "DRAFT"}
    BY <1>2 DEF Create, TypeOK, SpdRow
  <2>4. NothingBeforeSubmit'
    BY <2>1, <2>3 DEF NothingBeforeSubmit, HasRow
  <2> QED
    BY <2>2, <2>4
<1>3. ASSUME NEW u \in Users, NEW s \in Spds, Submit(u, s)
      PROVE  MessageInv'
  <2>1. UNCHANGED <<approvals, inbox>>
    BY <1>3 DEF Submit
  <2>2. ~ HasRow(s) /\ \A r \in Replicas : s \notin inbox[r]
    BY <1>3 DEF Submit, NothingBeforeSubmit
  <2>3. Handover' /\ OneRowPerReplica'
    BY <1>3, <2>1, <2>2, RowHasSource
       DEF Submit, Handover, OneRowPerReplica, RowFrom
  <2>4. \A x \in Spds : spd'[x].status \in {"ABSENT", "DRAFT"} =>
                         x # s /\ spd[x].status \in {"ABSENT", "DRAFT"}
    BY <1>3 DEF Submit, TypeOK, SpdRow
  <2>5. NothingBeforeSubmit'
    BY <1>3, <2>1, <2>4 DEF Submit, NothingBeforeSubmit, HasRow
  <2> QED
    BY <2>3, <2>5
<1>4. ASSUME NEW s \in Spds, Publish(s) PROVE MessageInv'
  <2>1. UNCHANGED <<spd, approvals>> /\ s \in unpublished
        /\ unpublished' = unpublished \ {s}
    BY <1>4 DEF Publish
  <2>2. \A r \in Replicas : inbox'[r] \subseteq inbox[r] \cup {s}
    BY <1>4 DEF Publish
  <2>3. Handover' /\ OneRowPerReplica'
    BY <2>1, <2>2 DEF Handover, OneRowPerReplica, RowFrom
  <2>4. NothingBeforeSubmit'
    BY <2>1, <2>2 DEF NothingBeforeSubmit, HasRow
  <2> QED
    BY <2>3, <2>4
<1>5. ASSUME UNCHANGED <<spd, approvals>>, unpublished' \subseteq unpublished,
             \A r \in Replicas : inbox'[r] \subseteq inbox[r]
      PROVE  MessageInv'
  <2>1. Handover' /\ OneRowPerReplica'
    BY <1>5 DEF Handover, OneRowPerReplica, RowFrom
  <2>2. NothingBeforeSubmit'
    BY <1>5 DEF NothingBeforeSubmit, HasRow
  <2> QED
    BY <2>1, <2>2
<1>6. ASSUME NEW s \in Spds, LosePublish(s) PROVE MessageInv'
  BY <1>5, <1>6 DEF LosePublish
<1>7. ASSUME NEW r \in Replicas, NEW s \in Spds, Consume(r, s)
      PROVE  MessageInv'
  <2> DEFINE n == Len(approvals) + 1
  <2>a. /\ Len(approvals) \in Nat
        /\ DOMAIN approvals = 1 .. Len(approvals)
        /\ DOMAIN approvals' = 1 .. n
        /\ \A i \in DOMAIN approvals : approvals'[i] = approvals[i]
        /\ approvals'[n] = PendingRow(s, r, NoUser)
    BY <1>7, ConsumedTable
  <2>b. /\ DOMAIN approvals' = DOMAIN approvals \cup {n}
        /\ n \notin DOMAIN approvals
    BY <2>a
  <2> HIDE DEF n
  <2>1. /\ DOMAIN approvals' = DOMAIN approvals \cup {n}
        /\ n \notin DOMAIN approvals
        /\ \A i \in DOMAIN approvals : approvals'[i] = approvals[i]
        /\ approvals'[n].spd = s /\ approvals'[n].src = r
    <3>1. /\ PendingRow(s, r, NoUser).spd = s
          /\ PendingRow(s, r, NoUser).src = r
      BY DEF PendingRow
    <3> QED
      BY <2>a, <2>b, <3>1
  <2>2. /\ UNCHANGED <<spd, unpublished>>
        /\ s \in inbox[r] /\ inbox'[r] = inbox[r] \ {s}
        /\ \A q \in Replicas : inbox'[q] \subseteq inbox[q]
    BY <1>7 DEF Consume, TypeOK
  <2>3. \A q, x : RowFrom(q, x)' => RowFrom(q, x) \/ (q = r /\ x = s)
    BY <2>1 DEF RowFrom
  <2>4. s \notin unpublished /\ ~ RowFrom(r, s)
    BY <2>2 DEF Handover
  <2>5. Handover'
    BY <2>2, <2>3, <2>4 DEF Handover
  <2>6. OneRowPerReplica'
    BY <2>1, <2>4 DEF OneRowPerReplica, RowFrom
  <2>7. spd[s].status \notin {"ABSENT", "DRAFT"}
    BY <2>2 DEF NothingBeforeSubmit
  <2>8. \A x : HasRow(x)' => HasRow(x) \/ x = s
    BY <2>1 DEF HasRow
  <2>9. NothingBeforeSubmit'
    BY <2>2, <2>7, <2>8 DEF NothingBeforeSubmit
  <2> QED
    BY <2>5, <2>6, <2>9
<1>8. ASSUME NEW r \in Replicas, NEW s \in Spds, LoseMessage(r, s)
      PROVE  MessageInv'
  BY <1>5, <1>8 DEF LoseMessage, TypeOK
<1>9. ASSUME NEW r \in Replicas, Crash(r) \/ Restart(r) PROVE MessageInv'
  BY <1>5, <1>9 DEF Crash, Restart, TypeOK
<1>10. ASSUME NEW u \in Users, NEW s \in Spds, NEW v \in Verdicts,
              DecideRows(u, s, v)
       PROVE  MessageInv'
  BY <1>1, <1>10 DEF DecideRows
<1>11. ASSUME NEW t \in deciding, CommitDecision(t) PROVE MessageInv'
  <2>1. /\ \A r, s : RowFrom(r, s)' <=> RowFrom(r, s)
        /\ \A s : HasRow(s)' <=> HasRow(s)
        /\ OneRowPerReplica'
    BY <1>11, CommittedOrigin, SameOrigins
  <2>2. UNCHANGED <<unpublished, inbox>>
    BY <1>11 DEF CommitDecision
  <2>3. \A s \in Spds : spd'[s].status \in {"ABSENT", "DRAFT"} =>
                         spd[s].status \in {"ABSENT", "DRAFT"}
    BY <1>11 DEF CommitDecision, TypeOK, SpdRow, Transaction, Verdicts
  <2>4. Handover'
    BY <2>1, <2>2 DEF Handover
  <2>5. NothingBeforeSubmit'
    BY <2>1, <2>2, <2>3 DEF NothingBeforeSubmit
  <2> QED
    BY <2>1, <2>4, <2>5
<1>12. ASSUME NEW t \in deciding, Rollback(t) PROVE MessageInv'
  BY <1>1, <1>12 DEF Rollback
<1>13. CASE UNCHANGED vars
  BY <1>1, <1>13 DEF vars
<1> QED
  BY <1>2, <1>3, <1>4, <1>6, <1>7, <1>8, <1>9, <1>10, <1>11, <1>12, <1>13
     DEF Next

\* A message is turned into a row once per replica, in spite of crashes and of
\* the missing unique constraint, and never before the SPD is submitted.
THEOREM MessagesHandledOnce ==
  Spec => [](OneRowPerReplica /\ NothingBeforeSubmit)
<1> DEFINE Inv == TypeOK /\ MessageInv
<1>1. Init => Inv
  BY InitType, InitMessages
<1>2. Inv /\ [Next]_vars => Inv'
  BY NextType, NextMessages
<1>3. Inv => OneRowPerReplica /\ NothingBeforeSubmit
  BY DEF MessageInv
<1> HIDE DEF Inv
<1> QED
  BY <1>1, <1>2, <1>3, PTL DEF Spec

\* The rows that replicas inserted for an SPD.
RowsFor(s) == { i \in DOMAIN approvals :
                  approvals[i].spd = s /\ approvals[i].src # Etl }

LEMMA FewRows ==
  ASSUME IsFiniteSet(Replicas), TypeOK, OneRowPerReplica, NEW s
  PROVE  Cardinality(RowsFor(s)) <= Cardinality(Replicas)
<1> DEFINE f == [i \in RowsFor(s) |-> approvals[i].src]
<1>1. \A i \in DOMAIN approvals : approvals[i].src \in Replicas \cup {Etl}
  <2>1. \A i \in DOMAIN approvals : approvals[i] \in ApprovalRow
    BY SeqElements DEF TypeOK
  <2> QED
    BY <2>1 DEF ApprovalRow, Source
<1>2. f \in [RowsFor(s) -> Replicas]
  BY <1>1 DEF RowsFor
<1>3. \A i, j \in RowsFor(s) : f[i] = f[j] => i = j
  BY DEF RowsFor, OneRowPerReplica
<1>4. f \in Injection(RowsFor(s), Replicas)
  <2> HIDE DEF f
  <2> QED
    BY <1>2, <1>3 DEF Injection, IsInjective
<1>5. PICK g : g \in Injection(RowsFor(s), Replicas)
  BY <1>4
<1> QED
  BY <1>5, FS_Injection

\* However often replicas crash and restart, an SPD gets no more pending approvals
\* than there are replicas: with one replica it is offered once, and with the two
\* of the deployment twice at most (handler.go:106-124 of approval-service).
THEOREM FewRowsPerSpd ==
  ASSUME IsFiniteSet(Replicas)
  PROVE  Spec => [](\A s \in Spds :
                     Cardinality(RowsFor(s)) <= Cardinality(Replicas))
<1>1. TypeOK /\ OneRowPerReplica =>
        \A s \in Spds : Cardinality(RowsFor(s)) <= Cardinality(Replicas)
  BY FewRows
<1> QED
  BY <1>1, TypeCorrect, MessagesHandledOnce, PTL

-----------------------------------------------------------------------------
(* Refinement: any number of replicas *)

CoreInv == TypeOK /\ LocksExclusive /\ StatusBacked /\ MessageInv

LEMMA InitCore == Init => CoreInv
BY InitType, InitLocks, InitBacked, InitMessages DEF CoreInv

LEMMA NextCore == CoreInv /\ [Next]_vars => CoreInv'
BY NextType, NextLocks, NextBacked, NextMessages DEF CoreInv

\* An open decision is about an SPD that has been submitted.
LEMMA DecidingSubmitted ==
  ASSUME CoreInv, NEW t \in deciding
  PROVE  spd[t.spd].status \in {"SUBMITTED"} \cup Verdicts
<1>1. t \in Transaction /\ t.spd \in Spds
  BY DEF CoreInv, TypeOK, Transaction
<1>2. HasRow(t.spd)
  BY DEF CoreInv, LocksExclusive, Decidable, HasRow
<1>3. spd[t.spd].status \in SpdStatus
  BY <1>1 DEF CoreInv, TypeOK, SpdRow
<1> QED
  BY <1>1, <1>2, <1>3 DEF CoreInv, MessageInv, NothingBeforeSubmit, SpdStatus

\* What a committed decision does to the statuses.
LEMMA CommittedStatus ==
  ASSUME TypeOK, NEW t \in deciding, CommitDecision(t)
  PROVE  /\ t.spd \in Spds /\ t.verdict \in Verdicts
         /\ \/ spd' = spd
            \/ statusOf' = [statusOf EXCEPT ![t.spd] = t.verdict]
BY DEF CommitDecision, TypeOK, Transaction, SpdRow, statusOf

LEMMA CreatedStatus ==
  ASSUME TypeOK, NEW u \in Users, NEW s \in Spds, Create(u, s)
  PROVE  /\ statusOf[s] = "ABSENT"
         /\ statusOf' = [statusOf EXCEPT ![s] = "DRAFT"]
BY DEF Create, TypeOK, SpdRow, statusOf

LEMMA SubmittedStatus ==
  ASSUME TypeOK, NEW u \in Users, NEW s \in Spds, Submit(u, s)
  PROVE  /\ statusOf[s] = "DRAFT"
         /\ statusOf' = [statusOf EXCEPT ![s] = "SUBMITTED"]
BY DEF Submit, TypeOK, SpdRow, statusOf

\* Table spds follows the lifecycle DRAFT, SUBMITTED, decided: no interleaving
\* of requests, messages, crashes and retries takes an SPD back or past a stage.
THEOREM FollowsLifecycle == Spec => ImplementsLifecycle
<1>1. Init => CoreInv
  BY InitCore
<1>2. CoreInv /\ [Next]_vars => CoreInv'
  BY NextCore
<1>3. Init => Lifecycle!Init
  BY DEF Init, Lifecycle!Init, statusOf
<1>4. CoreInv /\ [Next]_vars => [Lifecycle!Next]_statusOf
  <2> SUFFICES ASSUME CoreInv, [Next]_vars
               PROVE  Lifecycle!Next \/ statusOf' = statusOf
    OBVIOUS
  <2>1. CASE spd' = spd
    BY <2>1 DEF statusOf
  <2>2. ASSUME NEW u \in Users, NEW s \in Spds, Create(u, s)
        PROVE  Lifecycle!Next
    BY <2>2, CreatedStatus
       DEF CoreInv, Lifecycle!Next, Lifecycle!Create, Lifecycle!Move
  <2>3. ASSUME NEW u \in Users, NEW s \in Spds, Submit(u, s)
        PROVE  Lifecycle!Next
    BY <2>3, SubmittedStatus
       DEF CoreInv, Lifecycle!Next, Lifecycle!Submit, Lifecycle!Move
  <2>4. ASSUME NEW t \in deciding, CommitDecision(t), spd' # spd
        PROVE  Lifecycle!Next
    <3>1. /\ t.spd \in Spds /\ t.verdict \in Verdicts
          /\ statusOf' = [statusOf EXCEPT ![t.spd] = t.verdict]
      BY <2>4, CommittedStatus DEF CoreInv
    <3>2. statusOf[t.spd] \in {"SUBMITTED"} \cup Verdicts
      BY <3>1, DecidingSubmitted DEF statusOf
    <3>3. Lifecycle!Decide(t.spd)
      BY <3>1, <3>2
         DEF Lifecycle!Decide, Lifecycle!Move, Lifecycle!Decisions, Verdicts
    <3> QED
      BY <3>1, <3>3 DEF Lifecycle!Next
  <2> QED
    BY <2>1, <2>2, <2>3, <2>4, SpdSteps
<1> QED
  BY <1>1, <1>2, <1>3, <1>4, PTL DEF Spec, ImplementsLifecycle, Lifecycle!Spec
-----------------------------------------------------------------------------
(* One row per SPD: decisions are final *)

\* One replica of approval-service, and at most one imported row per SPD.
SingleRow ==
  /\ \A r1, r2 \in Replicas : r1 = r2
  /\ \A i, j \in DOMAIN LegacyRows :
       LegacyRows[i].spd = LegacyRows[j].spd => i = j

\* An imported SPD keeps the rows it was imported with and gets no others.
LegacyKept ==
  /\ \A s \in LegacySpds :
       /\ spd[s].status \notin {"ABSENT", "DRAFT"}
       /\ s \notin unpublished
       /\ \A r \in Replicas : s \notin inbox[r]
  /\ \A i \in DOMAIN approvals :
       IF approvals[i].src = Etl
       THEN i \in DOMAIN LegacyRows /\ LegacyRows[i].spd = approvals[i].spd
       ELSE approvals[i].spd \notin LegacySpds

LEMMA LegacyAreSpds == LegacySpds \subseteq Spds
<1> SUFFICES ASSUME NEW i \in DOMAIN LegacyRows
             PROVE  LegacyRows[i].spd \in Spds
  BY DEF LegacySpds
<1>1. LegacyRows \in Seq([spd : Spds, approver : Users \cup {NoUser}])
  BY WorkflowAssumption
<1>2. LegacyRows[i] \in [spd : Spds, approver : Users \cup {NoUser}]
  BY <1>1, SeqElements
<1> QED
  BY <1>2

LEMMA InitLegacy == Init => LegacyKept
<1> SUFFICES ASSUME Init PROVE LegacyKept
  OBVIOUS
<1>1. \A s \in LegacySpds : spd[s].status = "SUBMITTED"
  BY LegacyAreSpds DEF Init
<1>2. \A i \in DOMAIN approvals :
        /\ i \in DOMAIN LegacyRows
        /\ approvals[i].spd = LegacyRows[i].spd
        /\ approvals[i].src = Etl
  BY DEF Init, PendingRow
<1> QED
  BY <1>1, <1>2 DEF Init, LegacyKept

LEMMA NextLegacy == TypeOK /\ LegacyKept /\ [Next]_vars => LegacyKept'
<1> SUFFICES ASSUME TypeOK, LegacyKept, [Next]_vars PROVE LegacyKept'
  OBVIOUS
<1>1. ASSUME NEW s \in LegacySpds
      PROVE  /\ spd'[s].status \notin {"ABSENT", "DRAFT"}
             /\ s \notin unpublished'
             /\ \A r \in Replicas : s \notin inbox'[r]
  <2>1. s \in Spds /\ spd[s].status \notin {"ABSENT", "DRAFT"}
        /\ s \notin unpublished /\ \A r \in Replicas : s \notin inbox[r]
    BY LegacyAreSpds DEF LegacyKept
  <2>2. spd'[s].status \notin {"ABSENT", "DRAFT"}
    <3>1. CASE spd' = spd
      BY <2>1, <3>1
    <3>2. ASSUME NEW u \in Users, NEW x \in Spds, Create(u, x) \/ Submit(u, x)
          PROVE  spd'[s] = spd[s]
      BY <2>1, <3>2 DEF Create, Submit, TypeOK, SpdRow
    <3>3. ASSUME NEW t \in deciding, CommitDecision(t)
          PROVE  spd'[s].status \notin {"ABSENT", "DRAFT"}
      BY <2>1, <3>3
         DEF CommitDecision, TypeOK, SpdRow, Transaction, Verdicts
    <3> QED
      BY <2>1, <3>1, <3>2, <3>3, SpdSteps
  <2>3. s \notin unpublished'
    <3>1. ASSUME NEW u \in Users, NEW x \in Spds, Submit(u, x)
          PROVE  s \notin unpublished'
      BY <2>1, <3>1 DEF Submit
    <3>2. CASE unpublished' \subseteq unpublished
      BY <2>1, <3>2
    <3> QED
      BY <3>1, <3>2
         DEF Next, vars, Create, Publish, LosePublish, Consume, LoseMessage,
             Crash, Restart, DecideRows, CommitDecision, Rollback
  <2>4. ASSUME NEW r \in Replicas PROVE s \notin inbox'[r]
    <3>1. ASSUME NEW x \in Spds, Publish(x) PROVE s \notin inbox'[r]
      BY <2>1, <3>1 DEF Publish
    <3>2. ASSUME NEW q \in Replicas, NEW x \in Spds,
                 Consume(q, x) \/ LoseMessage(q, x) \/ Crash(q)
          PROVE  s \notin inbox'[r]
      BY <2>1, <3>2 DEF Consume, LoseMessage, Crash, TypeOK
    <3>3. CASE inbox' = inbox
      BY <2>1, <3>3
    <3> QED
      <4>1. \/ \E x \in Spds : Publish(x)
            \/ \E q \in Replicas, x \in Spds : Consume(q, x) \/ LoseMessage(q, x)
            \/ \E q \in Replicas : Crash(q)
            \/ inbox' = inbox
        BY DEF Next, vars, Create, Submit, LosePublish, Restart, DecideRows,
               CommitDecision, Rollback
      <4>2. ASSUME NEW q \in Replicas, Crash(q) PROVE s \notin inbox'[r]
        BY <2>1, <4>2 DEF Crash, TypeOK
      <4> QED
        BY <3>1, <3>2, <3>3, <4>1, <4>2
  <2> QED
    BY <2>2, <2>3, <2>4
<1>2. ASSUME NEW i \in DOMAIN approvals'
      PROVE  IF approvals'[i].src = Etl
             THEN /\ i \in DOMAIN LegacyRows
                  /\ LegacyRows[i].spd = approvals'[i].spd
             ELSE approvals'[i].spd \notin LegacySpds
  <2>1. CASE approvals' = approvals
    BY <1>2, <2>1 DEF LegacyKept
  <2>2. ASSUME NEW t \in deciding, CommitDecision(t)
        PROVE  /\ i \in DOMAIN approvals
               /\ approvals'[i].spd = approvals[i].spd
               /\ approvals'[i].src = approvals[i].src
    BY <1>2, <2>2, CommittedOrigin
  <2>3. ASSUME NEW r \in Replicas, NEW s \in Spds, Consume(r, s),
               i \in DOMAIN approvals
        PROVE  approvals'[i] = approvals[i]
    BY <2>3, ConsumedTable
  <2>4. ASSUME NEW r \in Replicas, NEW s \in Spds, Consume(r, s),
               i \notin DOMAIN approvals
        PROVE  approvals'[i].src = r /\ approvals'[i].spd = s
    <3>1. approvals'[i] = PendingRow(s, r, NoUser)
      BY <1>2, <2>4, ConsumedTable
    <3> QED
      BY <3>1 DEF PendingRow
  <2>5. ASSUME NEW r \in Replicas, NEW s \in Spds, Consume(r, s)
        PROVE  s \notin LegacySpds /\ r # Etl
    BY <2>5, WorkflowAssumption DEF Consume, LegacyKept
  <2> QED
    BY <1>2, <2>1, <2>2, <2>3, <2>4, <2>5, ApprovalSteps DEF LegacyKept
<1> QED
  BY <1>1, <1>2 DEF LegacyKept
OneRowPerSpd ==
  \A i, j \in DOMAIN approvals : approvals[i].spd = approvals[j].spd => i = j

LEMMA SingleRowPerSpd ==
  ASSUME SingleRow, TypeOK, OneRowPerReplica, LegacyKept
  PROVE  OneRowPerSpd
<1> SUFFICES ASSUME NEW i \in DOMAIN approvals, NEW j \in DOMAIN approvals,
                    approvals[i].spd = approvals[j].spd
             PROVE  i = j
  BY DEF OneRowPerSpd
<1>1. approvals[i].src \in Source /\ approvals[j].src \in Source
  <2>1. approvals[i] \in ApprovalRow /\ approvals[j] \in ApprovalRow
    BY SeqElements DEF TypeOK
  <2> QED
    BY <2>1 DEF ApprovalRow
<1>2. CASE approvals[i].src = Etl /\ approvals[j].src = Etl
  BY <1>2 DEF SingleRow, LegacyKept
<1>3. CASE approvals[i].src \in Replicas /\ approvals[j].src \in Replicas
  <2>1. approvals[i].src = approvals[j].src /\ approvals[i].src # Etl
    BY <1>3, WorkflowAssumption DEF SingleRow
  <2> QED
    BY <2>1 DEF OneRowPerReplica
<1>4. ASSUME NEW k \in DOMAIN approvals, approvals[k].src = Etl
      PROVE  approvals[k].spd \in LegacySpds
  BY <1>4 DEF LegacyKept, LegacySpds
<1>5. ASSUME NEW k \in DOMAIN approvals, approvals[k].src \in Replicas
      PROVE  approvals[k].spd \notin LegacySpds
  BY <1>5, WorkflowAssumption DEF LegacyKept
<1> QED
  BY <1>1, <1>2, <1>3, <1>4, <1>5 DEF Source

\* PendingIsSubmitted, said of rows.
PendingSubmitted ==
  \A i \in DOMAIN approvals :
    approvals[i].status = "PENDING" => spd[approvals[i].spd].status = "SUBMITTED"

SingleInv == CoreInv /\ LegacyKept /\ OneRowPerSpd /\ PendingSubmitted

LEMMA InitSingle == SingleRow /\ Init => SingleInv
<1> SUFFICES ASSUME SingleRow, Init PROVE SingleInv
  OBVIOUS
<1>1. CoreInv /\ LegacyKept
  BY InitCore, InitLegacy
<1>2. OneRowPerSpd
  BY <1>1, SingleRowPerSpd DEF CoreInv, MessageInv
<1>3. ASSUME NEW i \in DOMAIN approvals
      PROVE  approvals[i].spd \in LegacySpds
  BY DEF Init, PendingRow, LegacySpds
<1>4. \A s \in LegacySpds : spd[s].status = "SUBMITTED"
  BY LegacyAreSpds DEF Init
<1> QED
  BY <1>1, <1>2, <1>3, <1>4 DEF SingleInv, PendingSubmitted

\* Where a message waits and there is no row yet, nothing has been decided.
LEMMA WaitingSubmitted ==
  ASSUME SingleRow, CoreInv, LegacyKept,
         NEW r \in Replicas, NEW s \in Spds, s \in inbox[r]
  PROVE  spd[s].status = "SUBMITTED"
<1>1. ~ HasRow(s)
  <2> SUFFICES ASSUME NEW i \in DOMAIN approvals, approvals[i].spd = s
               PROVE  FALSE
    BY DEF HasRow
  <2>1. approvals[i].src \in Source
    <3>1. approvals[i] \in ApprovalRow
      BY SeqElements DEF CoreInv, TypeOK
    <3> QED
      BY <3>1 DEF ApprovalRow
  <2>2. approvals[i].src # Etl
    BY DEF LegacyKept, LegacySpds
  <2>3. approvals[i].src = r
    BY <2>1, <2>2 DEF Source, SingleRow
  <2> QED
    BY <2>3 DEF CoreInv, MessageInv, Handover, RowFrom
<1>2. spd[s].status \notin Verdicts
  BY <1>1 DEF CoreInv, StatusBacked, HasRow
<1>3. spd[s].status \notin {"ABSENT", "DRAFT"}
  BY DEF CoreInv, MessageInv, NothingBeforeSubmit
<1>4. spd[s].status \in SpdStatus
  BY DEF CoreInv, TypeOK, SpdRow
<1> QED
  BY <1>2, <1>3, <1>4 DEF SpdStatus

LEMMA NextSingle == SingleRow /\ SingleInv /\ [Next]_vars => SingleInv'
<1> SUFFICES ASSUME SingleRow, SingleInv, [Next]_vars PROVE SingleInv'
  OBVIOUS
<1> USE DEF SingleInv
<1>1. CoreInv' /\ LegacyKept'
  BY NextCore, NextLegacy DEF CoreInv
<1>2. OneRowPerSpd'
  <2>1. SingleRow'
    BY DEF SingleRow
  <2> QED
    BY <1>1, SingleRowPerSpd, PTL DEF CoreInv, MessageInv
<1>3. ASSUME NEW i \in DOMAIN approvals', approvals'[i].status = "PENDING"
      PROVE  spd'[approvals'[i].spd].status = "SUBMITTED"
  <2>1. CASE approvals' = approvals /\ spd' = spd
    BY <1>3, <2>1 DEF PendingSubmitted
  <2>2. ASSUME NEW u \in Users, NEW s \in Spds, Create(u, s) \/ Submit(u, s)
        PROVE  spd'[approvals'[i].spd].status = "SUBMITTED"
    <3>1. approvals' = approvals /\ spd[s].status \in {"ABSENT", "DRAFT"}
      BY <2>2 DEF Create, Submit
    <3>2. approvals[i].spd # s
      BY <1>3, <3>1 DEF PendingSubmitted
    <3>3. spd'[approvals[i].spd] = spd[approvals[i].spd]
      <4>1. approvals[i].spd \in Spds
        <5>1. approvals[i] \in ApprovalRow
          BY <1>3, <3>1, SeqElements DEF CoreInv, TypeOK
        <5> QED
          BY <5>1 DEF ApprovalRow
      <4> QED
        BY <2>2, <3>2, <4>1 DEF Create, Submit, CoreInv, TypeOK
    <3> QED
      BY <1>3, <3>1, <3>3 DEF PendingSubmitted
  <2>3. ASSUME NEW r \in Replicas, NEW s \in Spds, Consume(r, s)
        PROVE  spd'[approvals'[i].spd].status = "SUBMITTED"
    <3>1. spd' = spd /\ s \in inbox[r]
      BY <2>3 DEF Consume
    <3>2. CASE i \in DOMAIN approvals
      BY <1>3, <2>3, <3>1, <3>2, ConsumedTable DEF CoreInv, PendingSubmitted
    <3>3. CASE i \notin DOMAIN approvals
      <4>1. approvals'[i] = PendingRow(s, r, NoUser)
        BY <1>3, <2>3, <3>3, ConsumedTable DEF CoreInv
      <4>2. approvals'[i].spd = s
        BY <4>1 DEF PendingRow
      <4> QED
        BY <3>1, <4>2, WaitingSubmitted
    <3> QED
      BY <3>2, <3>3
  <2>4. ASSUME NEW t \in deciding, CommitDecision(t)
        PROVE  spd'[approvals'[i].spd].status = "SUBMITTED"
    <3>1. /\ i \in DOMAIN approvals
          /\ approvals'[i].spd = approvals[i].spd
      BY <1>3, <2>4, CommittedOrigin DEF CoreInv
    <3>2. i \notin t.rows
      <4>1. t.verdict \in Verdicts
        BY DEF CoreInv, TypeOK, Transaction
      <4> QED
        BY <1>3, <2>4, <4>1, CommittedRows DEF CoreInv, Verdicts
    <3>3. approvals[i].status = "PENDING"
      BY <1>3, <2>4, <3>1, <3>2 DEF CommitDecision
    <3>4. PICK j \in t.rows : j \in DOMAIN approvals /\ approvals[j].spd = t.spd
      BY DEF CoreInv, LocksExclusive, Decidable
    <3>5. approvals[i].spd # t.spd
      BY <3>1, <3>2, <3>4 DEF OneRowPerSpd
    <3>6. approvals[i].spd \in Spds
      <4>1. approvals[i] \in ApprovalRow
        BY <3>1, SeqElements DEF CoreInv, TypeOK
      <4> QED
        BY <4>1 DEF ApprovalRow
    <3>7. spd'[approvals[i].spd] = spd[approvals[i].spd]
      BY <2>4, <3>5, <3>6 DEF CommitDecision, CoreInv, TypeOK
    <3> QED
      BY <3>1, <3>3, <3>7 DEF PendingSubmitted
  <2>5. \/ approvals' = approvals /\ spd' = spd
        \/ \E u \in Users, s \in Spds : Create(u, s) \/ Submit(u, s)
        \/ \E r \in Replicas, s \in Spds : Consume(r, s)
        \/ \E t \in deciding : CommitDecision(t)
    BY SpdSteps, ApprovalSteps
  <2> QED
    BY <2>1, <2>2, <2>3, <2>4, <2>5
<1>4. PendingSubmitted'
  BY <1>3 DEF PendingSubmitted
<1> QED
  BY <1>1, <1>2, <1>4

\* With one row per SPD, an open decision finds its SPD undecided.
LEMMA DecidingUndecided ==
  ASSUME SingleInv, NEW t \in deciding
  PROVE  spd[t.spd].status = "SUBMITTED"
BY DEF SingleInv, CoreInv, LocksExclusive, Decidable, PendingSubmitted

LEMMA SingleFinal == SingleInv /\ [Next]_vars => DecisionFinal
<1> SUFFICES ASSUME SingleInv, [Next]_vars, NEW s \in Spds,
                    spd[s].status \in Verdicts
             PROVE  spd'[s] = spd[s]
  BY DEF DecisionFinal
<1>1. ASSUME NEW u \in Users, NEW x \in Spds, Create(u, x) \/ Submit(u, x)
      PROVE  spd'[s] = spd[s]
  BY <1>1 DEF Create, Submit, SingleInv, CoreInv, TypeOK, Verdicts
<1>2. ASSUME NEW t \in deciding, CommitDecision(t) PROVE spd'[s] = spd[s]
  <2>1. t.spd # s
    BY DecidingUndecided DEF Verdicts
  <2> QED
    BY <1>2, <2>1 DEF CommitDecision, SingleInv, CoreInv, TypeOK
<1> QED
  BY <1>1, <1>2, SpdSteps

\* With one replica and at most one imported row per SPD, a decision is final,
\* however requests interleave and whatever fails.  The run spd_redecided shows
\* that a second replica is enough to break it.
THEOREM SingleDecisionFinal ==
  ASSUME SingleRow
  PROVE  Spec => DecisionFinalAlways
<1>1. Init => SingleInv
  BY InitSingle
<1>2. SingleInv /\ [Next]_vars => SingleInv'
  BY NextSingle
<1>3. SingleInv /\ [Next]_vars => [DecisionFinal]_vars
  BY SingleFinal
<1> QED
  BY <1>1, <1>2, <1>3, PTL DEF Spec, DecisionFinalAlways

\* And an approver is offered only SPDs that still wait for a decision.
THEOREM SinglePendingSubmitted ==
  ASSUME SingleRow
  PROVE  Spec => []PendingIsSubmitted
<1>1. Init => SingleInv
  BY InitSingle
<1>2. SingleInv /\ [Next]_vars => SingleInv'
  BY NextSingle
<1>3. SingleInv => PendingIsSubmitted
  BY DEF SingleInv, PendingSubmitted, PendingIsSubmitted, ListPending, Decidable
<1> QED
  BY <1>1, <1>2, <1>3, PTL DEF Spec

\* What happens to a row that is decided, or was so before, and to its SPD.
LEMMA NextAgree ==
  ~ RLSEnforced /\ SingleInv /\ DecisionsAgree /\ [Next]_vars => DecisionsAgree'
<1> SUFFICES ASSUME ~ RLSEnforced, SingleInv, DecisionsAgree, [Next]_vars,
                    NEW i \in DOMAIN approvals', approvals'[i].status # "PENDING"
             PROVE  spd'[approvals'[i].spd].status = approvals'[i].status
  BY DEF DecisionsAgree
<1>t. /\ \A j \in DOMAIN approvals : approvals[j].spd \in Spds
      /\ spd \in [Spds -> SpdRow]
  <2>1. \A j \in DOMAIN approvals : approvals[j] \in ApprovalRow
    BY SeqElements DEF SingleInv, CoreInv, TypeOK
  <2> QED
    BY <2>1 DEF ApprovalRow, SingleInv, CoreInv, TypeOK
<1>1. CASE approvals' = approvals /\ spd' = spd
  BY <1>1 DEF DecisionsAgree
<1>2. ASSUME NEW u \in Users, NEW s \in Spds, Create(u, s) \/ Submit(u, s)
      PROVE  spd'[approvals'[i].spd].status = approvals'[i].status
  <2>1. approvals' = approvals /\ spd[s].status \in {"ABSENT", "DRAFT"}
    BY <1>2 DEF Create, Submit
  <2>2. approvals[i].spd # s
    BY <2>1 DEF SingleInv, CoreInv, MessageInv, NothingBeforeSubmit, HasRow
  <2>3. spd'[approvals[i].spd] = spd[approvals[i].spd]
    BY <1>2, <1>t, <2>1, <2>2 DEF Create, Submit
  <2> QED
    BY <2>1, <2>3 DEF DecisionsAgree
<1>3. ASSUME NEW r \in Replicas, NEW s \in Spds, Consume(r, s)
      PROVE  spd'[approvals'[i].spd].status = approvals'[i].status
  <2>1. spd' = spd
    BY <1>3 DEF Consume
  <2>2. PendingRow(s, r, NoUser).status = "PENDING"
    BY DEF PendingRow
  <2>3. i \in DOMAIN approvals /\ approvals'[i] = approvals[i]
    BY <1>3, <2>2, ConsumedTable DEF SingleInv, CoreInv
  <2> QED
    BY <2>1, <2>3 DEF DecisionsAgree
<1>4. ASSUME NEW t \in deciding, CommitDecision(t)
      PROVE  spd'[approvals'[i].spd].status = approvals'[i].status
  <2>1. /\ t.spd \in Spds
        /\ spd' = [spd EXCEPT ![t.spd].status = t.verdict]
    BY <1>4 DEF CommitDecision, MayUpdate, SingleInv, CoreInv, TypeOK, Transaction
  <2>2. spd'[t.spd].status = t.verdict
    BY <1>t, <2>1 DEF SpdRow
  <2>3. CASE i \in t.rows
    BY <1>4, <2>2, <2>3, CommittedRows DEF SingleInv, CoreInv
  <2>4. CASE i \notin t.rows
    <3>1. i \in DOMAIN approvals /\ approvals'[i] = approvals[i]
      BY <1>4, <2>4, CommittedOrigin DEF CommitDecision, SingleInv, CoreInv
    <3>2. PICK j \in t.rows : j \in DOMAIN approvals /\ approvals[j].spd = t.spd
      BY DEF SingleInv, CoreInv, LocksExclusive, Decidable
    <3>3. approvals[i].spd # t.spd
      BY <2>4, <3>1, <3>2 DEF SingleInv, OneRowPerSpd
    <3>4. spd'[approvals[i].spd] = spd[approvals[i].spd]
      BY <1>t, <2>1, <3>1, <3>3
    <3> QED
      BY <3>1, <3>4 DEF DecisionsAgree
  <2> QED
    BY <2>3, <2>4
<1>5. \/ approvals' = approvals /\ spd' = spd
      \/ \E u \in Users, s \in Spds : Create(u, s) \/ Submit(u, s)
      \/ \E r \in Replicas, s \in Spds : Consume(r, s)
      \/ \E t \in deciding : CommitDecision(t)
  BY SpdSteps, ApprovalSteps
<1> QED
  BY <1>1, <1>2, <1>3, <1>4, <1>5

\* With one row per SPD and without policies that hide spds from a decision, a
\* decided row and its SPD never disagree: the two statements of a decision
\* commit together and no other decision of that SPD exists (repo.go:41-104).
THEOREM SingleDecisionsAgree ==
  ASSUME SingleRow, ~ RLSEnforced
  PROVE  Spec => []DecisionsAgree
<1> DEFINE Inv == SingleInv /\ DecisionsAgree
<1>1. Init => Inv
  BY InitSingle DEF Init, DecisionsAgree, PendingRow
<1>2. Inv /\ [Next]_vars => Inv'
  BY NextSingle, NextAgree
<1>3. Inv => DecisionsAgree
  OBVIOUS
<1> HIDE DEF Inv
<1> QED
  BY <1>1, <1>2, <1>3, PTL DEF Spec

\* With one row per SPD, table spds follows the lifecycle without re-decision.
THEOREM SingleFollowsFinalLifecycle ==
  ASSUME SingleRow
  PROVE  Spec => ImplementsFinalLifecycle
<1>1. Init => SingleInv
  BY InitSingle
<1>2. SingleInv /\ [Next]_vars => SingleInv'
  BY NextSingle
<1>3. Init => FinalLifecycle!Init
  BY DEF Init, FinalLifecycle!Init, statusOf
<1>4. SingleInv /\ [Next]_vars => [FinalLifecycle!Next]_statusOf
  <2> SUFFICES ASSUME SingleInv, [Next]_vars
               PROVE  FinalLifecycle!Next \/ statusOf' = statusOf
    OBVIOUS
  <2> USE DEF SingleInv
  <2>1. CASE spd' = spd
    BY <2>1 DEF statusOf
  <2>2. ASSUME NEW u \in Users, NEW s \in Spds, Create(u, s)
        PROVE  FinalLifecycle!Next
    BY <2>2, CreatedStatus DEF CoreInv, FinalLifecycle!Next,
         FinalLifecycle!Create, FinalLifecycle!Move
  <2>3. ASSUME NEW u \in Users, NEW s \in Spds, Submit(u, s)
        PROVE  FinalLifecycle!Next
    BY <2>3, SubmittedStatus DEF CoreInv, FinalLifecycle!Next,
         FinalLifecycle!Submit, FinalLifecycle!Move
  <2>4. ASSUME NEW t \in deciding, CommitDecision(t), spd' # spd
        PROVE  FinalLifecycle!Next
    <3>1. /\ t.spd \in Spds /\ t.verdict \in Verdicts
          /\ statusOf' = [statusOf EXCEPT ![t.spd] = t.verdict]
      BY <2>4, CommittedStatus DEF CoreInv
    <3>2. statusOf[t.spd] = "SUBMITTED"
      BY <3>1, DecidingUndecided DEF statusOf
    <3>3. FinalLifecycle!Decide(t.spd)
      BY <3>1, <3>2 DEF FinalLifecycle!Decide, FinalLifecycle!Move,
           FinalLifecycle!Decisions, Verdicts
    <3> QED
      BY <3>1, <3>3 DEF FinalLifecycle!Next
  <2> QED
    BY <2>1, <2>2, <2>3, <2>4, SpdSteps
<1> QED
  BY <1>1, <1>2, <1>3, <1>4, PTL
     DEF Spec, ImplementsFinalLifecycle, FinalLifecycle!Spec
-----------------------------------------------------------------------------
(* Delivery: fewer faults than replicas lose no SPD *)

\* Every Submit is published, and faults on the approval side are fewer than
\* the replicas.
FewFaults ==
  /\ IsFiniteSet(Replicas)
  /\ FaultKinds \subseteq {"deliver", "crash"}
  /\ MaxFaults < Cardinality(Replicas)

Missed(s) == { r \in Replicas : s \notin inbox[r] }

Waiting(s) ==
  spd[s].status = "SUBMITTED" /\ ~ HasRow(s) /\ s \notin unpublished

\* It took one fault for each replica that is away, and one for each replica
\* that has not got the message of an SPD without a row.
DeliveryInv ==
  /\ Cardinality(Replicas \ subscribed) <= faults
  /\ \A s \in Spds : Waiting(s) => Cardinality(Missed(s)) <= faults

\* The arithmetic of one more fault: at most one more replica.
LEMMA OneMore ==
  ASSUME IsFiniteSet(Replicas), NEW A \in SUBSET Replicas,
         NEW B \in SUBSET Replicas, NEW r \in Replicas,
         B \subseteq A \cup {r}, NEW n \in Nat, Cardinality(A) <= n
  PROVE  Cardinality(B) <= n + 1
<1>1. IsFiniteSet(A)
  BY FS_Subset
<1>2. /\ IsFiniteSet(A \cup {r})
      /\ Cardinality(A \cup {r}) <= Cardinality(A) + 1
  <2>1. Cardinality(A) \in Nat
    BY <1>1, FS_CardinalityType
  <2>2. /\ IsFiniteSet(A \cup {r})
        /\ Cardinality(A \cup {r}) =
             IF r \in A THEN Cardinality(A) ELSE Cardinality(A) + 1
    BY <1>1, FS_AddElement
  <2> QED
    BY <2>1, <2>2
<1>3. Cardinality(B) <= Cardinality(A \cup {r}) /\ IsFiniteSet(B)
  BY <1>2, FS_Subset
<1> QED
  BY <1>1, <1>2, <1>3, FS_CardinalityType

\* And of no fault: no more replicas.
LEMMA NoMore ==
  ASSUME IsFiniteSet(Replicas), NEW A \in SUBSET Replicas,
         NEW B \in SUBSET A, NEW n \in Nat, Cardinality(A) <= n
  PROVE  Cardinality(B) <= n
<1>1. IsFiniteSet(A)
  BY FS_Subset
<1>2. Cardinality(B) <= Cardinality(A) /\ IsFiniteSet(B)
  BY <1>1, FS_Subset
<1> QED
  BY <1>1, <1>2, FS_CardinalityType

LEMMA InitDelivery == FewFaults /\ Init => DeliveryInv
<1> SUFFICES ASSUME FewFaults, Init PROVE DeliveryInv
  OBVIOUS
<1>1. Replicas \ subscribed = {} /\ faults = 0
  BY DEF Init
<1>2. ASSUME NEW s \in Spds PROVE ~ Waiting(s)
  <2> SUFFICES ASSUME s \in LegacySpds PROVE HasRow(s)
    BY DEF Waiting, Init
  <2>1. PICK i \in DOMAIN LegacyRows : LegacyRows[i].spd = s
    BY DEF LegacySpds
  <2>2. i \in DOMAIN approvals /\ approvals[i].spd = s
    BY <2>1 DEF Init, PendingRow
  <2> QED
    BY <2>2 DEF HasRow
<1> QED
  BY <1>1, <1>2, FS_EmptySet DEF DeliveryInv

LEMMA NextDelivery ==
  FewFaults /\ TypeOK /\ DeliveryInv /\ [Next]_vars => DeliveryInv'
<1> SUFFICES ASSUME FewFaults, TypeOK, DeliveryInv, [Next]_vars
             PROVE  DeliveryInv'
  OBVIOUS
<1> USE DEF FewFaults
<1>t. faults \in Nat /\ MaxFaults \in Nat
  BY WorkflowAssumption DEF TypeOK
<1>s. \A s : Missed(s) \in SUBSET Replicas
  BY DEF Missed
<1>1. ASSUME UNCHANGED <<subscribed, inbox, faults>>,
             \A s \in Spds : Waiting(s)' => Waiting(s)
      PROVE  DeliveryInv'
  BY <1>1 DEF DeliveryInv, Missed
<1>2. ASSUME NEW u \in Users, NEW s \in Spds, Create(u, s) \/ Submit(u, s)
      PROVE  DeliveryInv'
  BY <1>1, <1>2 DEF Create, Submit, Waiting, HasRow, TypeOK, SpdRow
<1>3. ASSUME NEW s \in Spds, Publish(s) PROVE DeliveryInv'
  <2>1. UNCHANGED <<spd, approvals, subscribed, faults>>
    BY <1>3 DEF Publish
  <2>2. ASSUME NEW x \in Spds, Waiting(x)'
        PROVE  Cardinality(Missed(x))' <= faults'
    <3>1. CASE x = s
      <4>1. Missed(s)' \in SUBSET (Replicas \ subscribed)
        BY <1>3 DEF Publish, Missed, TypeOK
      <4> QED
        BY <1>t, <2>1, <3>1, <4>1, NoMore DEF DeliveryInv
    <3>2. CASE x # s
      <4>1. Missed(x)' \in SUBSET Missed(x)
        BY <1>3, <3>2 DEF Publish, Missed, TypeOK
      <4>2. Waiting(x)
        BY <1>3, <2>2, <3>2 DEF Publish, Waiting, HasRow
      <4> QED
        BY <1>s, <1>t, <2>1, <4>1, <4>2, NoMore DEF DeliveryInv
    <3> QED
      BY <3>1, <3>2
  <2> QED
    BY <2>1, <2>2 DEF DeliveryInv
<1>4. ASSUME NEW s \in Spds PROVE ~ LosePublish(s)
  BY DEF LosePublish, Fault
<1>5. ASSUME NEW r \in Replicas, NEW s \in Spds, Consume(r, s)
      PROVE  DeliveryInv'
  <2>1. UNCHANGED <<spd, unpublished, subscribed, faults>>
    BY <1>5 DEF Consume
  <2>2. \A x : HasRow(x) => HasRow(x)'
    BY <1>5, ConsumedTable DEF HasRow
  <2>3. HasRow(s)'
    <3> DEFINE n == Len(approvals) + 1
    <3>1. n \in DOMAIN approvals' /\ approvals'[n] = PendingRow(s, r, NoUser)
      BY <1>5, ConsumedTable
    <3> HIDE DEF n
    <3> QED
      BY <3>1 DEF HasRow, PendingRow
  <2>4. ASSUME NEW x \in Spds, Waiting(x)'
        PROVE  Cardinality(Missed(x))' <= faults'
    <3>1. x # s /\ Waiting(x)
      BY <2>1, <2>2, <2>3, <2>4 DEF Waiting
    <3>2. Missed(x)' \in SUBSET Missed(x)
      BY <1>5, <3>1 DEF Consume, Missed, TypeOK
    <3> QED
      BY <1>s, <1>t, <2>1, <3>1, <3>2, NoMore DEF DeliveryInv
  <2> QED
    BY <2>1, <2>4 DEF DeliveryInv
<1>6. ASSUME NEW r \in Replicas, NEW s \in Spds, LoseMessage(r, s)
      PROVE  DeliveryInv'
  <2>1. UNCHANGED <<spd, approvals, unpublished, subscribed>>
        /\ faults' = faults + 1
    BY <1>6 DEF LoseMessage, Fault
  <2>2. ASSUME NEW x \in Spds, Waiting(x)'
        PROVE  Cardinality(Missed(x))' <= faults'
    <3>1. Waiting(x)
      BY <2>1, <2>2 DEF Waiting, HasRow
    <3>2. Missed(x)' \in SUBSET Replicas /\ Missed(x)' \subseteq Missed(x) \cup {r}
      BY <1>6 DEF LoseMessage, Missed, TypeOK
    <3> QED
      BY <1>s, <1>t, <2>1, <3>1, <3>2, OneMore DEF DeliveryInv
  <2>3. Cardinality(Replicas \ subscribed)' <= faults'
    BY <1>t, <2>1, OneMore, FS_Subset, FS_CardinalityType DEF DeliveryInv
  <2> QED
    BY <2>2, <2>3 DEF DeliveryInv
<1>7. ASSUME NEW r \in Replicas, Crash(r) PROVE DeliveryInv'
  <2>1. UNCHANGED <<spd, approvals, unpublished>> /\ faults' = faults + 1
    BY <1>7 DEF Crash, Fault
  <2>2. ASSUME NEW x \in Spds, Waiting(x)'
        PROVE  Cardinality(Missed(x))' <= faults'
    <3>1. Waiting(x)
      BY <2>1, <2>2 DEF Waiting, HasRow
    <3>2. Missed(x)' \in SUBSET Replicas /\ Missed(x)' \subseteq Missed(x) \cup {r}
      BY <1>7 DEF Crash, Missed, TypeOK
    <3> QED
      BY <1>s, <1>t, <2>1, <3>1, <3>2, OneMore DEF DeliveryInv
  <2>3. Cardinality(Replicas \ subscribed)' <= faults'
    <3>1. (Replicas \ subscribed)' \subseteq (Replicas \ subscribed) \cup {r}
      BY <1>7 DEF Crash
    <3> QED
      BY <1>t, <2>1, <3>1, OneMore DEF DeliveryInv
  <2> QED
    BY <2>2, <2>3 DEF DeliveryInv
<1>8. ASSUME NEW r \in Replicas, Restart(r) PROVE DeliveryInv'
  <2>1. UNCHANGED <<spd, approvals, unpublished, inbox, faults>>
    BY <1>8 DEF Restart
  <2>2. (Replicas \ subscribed)' \in SUBSET (Replicas \ subscribed)
    BY <1>8 DEF Restart
  <2>3. Cardinality(Replicas \ subscribed)' <= faults'
    BY <1>t, <2>1, <2>2, NoMore DEF DeliveryInv
  <2> QED
    BY <2>1, <2>3 DEF DeliveryInv, Waiting, HasRow, Missed
<1>9. ASSUME NEW u \in Users, NEW s \in Spds, NEW v \in Verdicts,
             DecideRows(u, s, v)
      PROVE  DeliveryInv'
  BY <1>1, <1>9 DEF DecideRows, Waiting, HasRow
<1>10. ASSUME NEW t \in deciding, CommitDecision(t) PROVE DeliveryInv'
  <2>1. \A s : HasRow(s)' <=> HasRow(s)
    BY <1>10, CommittedOrigin, SameOrigins
  <2>2. \A s \in Spds : spd'[s].status = "SUBMITTED" =>
                         spd[s].status = "SUBMITTED"
    BY <1>10 DEF CommitDecision, TypeOK, SpdRow, Transaction, Verdicts
  <2> QED
    BY <1>1, <1>10, <2>1, <2>2 DEF CommitDecision, Waiting
<1>11. ASSUME NEW t \in deciding, Rollback(t) PROVE DeliveryInv'
  BY <1>1, <1>11 DEF Rollback, Waiting, HasRow
<1>12. CASE UNCHANGED vars
  BY <1>1, <1>12 DEF vars, Waiting, HasRow
<1> QED
  BY <1>2, <1>3, <1>4, <1>5, <1>6, <1>7, <1>8, <1>9, <1>10, <1>11, <1>12
     DEF Next

\* If every Submit is published and fewer faults than replicas hit the other
\* side, no submitted SPD is ever lost: there is a row to decide or a message
\* that will become one.  (The redundancy comes from having no queue group.)
THEOREM FewFaultsLoseNothing ==
  ASSUME FewFaults
  PROVE  Spec => []NoStuckSpd
<1> DEFINE Inv == TypeOK /\ DeliveryInv
<1>1. Init => Inv
  BY InitType, InitDelivery
<1>2. Inv /\ [Next]_vars => Inv'
  BY NextType, NextDelivery
<1>3. Inv => NoStuckSpd
  <2> SUFFICES ASSUME Inv, NEW s \in Spds, Waiting(s),
                      \A r \in Replicas : s \notin inbox[r]
               PROVE  FALSE
    BY DEF NoStuckSpd, Waiting
  <2>1. Missed(s) = Replicas
    BY DEF Missed
  <2>2. Cardinality(Replicas) <= faults
    BY <2>1 DEF DeliveryInv
  <2> QED
    BY <2>2, WorkflowAssumption, FS_CardinalityType DEF FewFaults, TypeOK
<1> HIDE DEF Inv
<1> QED
  BY <1>1, <1>2, <1>3, PTL DEF Spec
=============================================================================
