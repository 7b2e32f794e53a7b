-------------------------------- MODULE Etl --------------------------------
(***************************************************************************)
(* tools/etl: the import of the legacy database, table by table, into the  *)
(* tables the services use.                                                *)
(*                                                                         *)
(* Each table is one transaction; the first error ends the program, which  *)
(* may then be started again.  A legacy row keeps its id: it is inserted   *)
(* ON CONFLICT (id) DO NOTHING, so a row that is already there, whoever    *)
(* wrote it, wins.  Only the primary key is excused: another unique column,*)
(* or a reference to no row, fails the transaction.  The sequences that    *)
(* give the services their ids are moved at the very end, one by one.      *)
(*                                                                         *)
(* A row is reduced to its id, the value of its other unique column (key,  *)
(* e.g. username or nomor_surat) and the rows it references.               *)
(***************************************************************************)
EXTENDS Integers, Sequences, FiniteSets

CONSTANTS
  Order,       \* the tables, in the order main imports them
  Legacy,      \* [table -> set of rows of its CSV file]
  Seed,        \* [table -> set of rows written by migrations/0003_seed.sql]
  Seeded,      \* may the migrations have been applied with the seed?
  LiveTables,  \* the tables the services insert into
  Keys,        \* values of the other unique column
  MaxId,       \* bound: the largest id
  MaxRuns      \* bound: how often the tool is started

Tables == { Order[i] : i \in DOMAIN Order }
Ids == 1 .. MaxId
Rows == [id : Ids, key : Keys, refs : SUBSET (Tables \X Ids)]

\* What a unique column and a serial primary key make of a set of rows.
Keyed(S) ==
  \A x, y \in S : x.id = y.id \/ x.key = y.key => x = y

ASSUME EtlAssumption ==
  /\ MaxId \in Nat \ {0}
  /\ MaxRuns \in Nat
  /\ Seeded \in BOOLEAN
  /\ LiveTables \subseteq Tables
  /\ Order \in Seq(Tables) /\ Order # <<>>
  /\ \A i, j \in DOMAIN Order : Order[i] = Order[j] => i = j
  /\ Legacy \in [Tables -> SUBSET Rows]
  /\ Seed \in [Tables -> SUBSET Rows]
  /\ \A t \in Tables : Keyed(Legacy[t]) /\ Keyed(Seed[t])

VARIABLES
  rows,        \* [Tables -> rows of the table, with their origin]
  sequence,    \* [Tables -> last value of the table's id sequence]
  reserved,    \* ids the services have drawn and not yet inserted with
  stage,       \* "idle", "import", "bump"
  next,        \* index in Order of the table that comes next
  completed,   \* has a run of the tool come to its end?
  early,       \* history: have the services written before the tool ended?
  runs         \* runs so far

tool == <<stage, next, completed, early, runs>>

vars == <<rows, sequence, reserved, tool>>

Stored(origin, S) ==
  { [id |-> x.id, key |-> x.key, refs |-> x.refs, origin |-> origin] : x \in S }

\* The services have drawn ids.
ServicesUsed ==
  \/ reserved # {}
  \/ \E t \in Tables : \E x \in rows[t] : x.origin = "live"

Occupied(t, id) == \E x \in rows[t] : x.id = id
KeyTaken(t, key) == \E x \in rows[t] : x.key = key

Init ==
  /\ \/ rows = [t \in Tables |-> {}]
     \/ Seeded /\ rows = [t \in Tables |-> Stored("seed", Seed[t])]
  /\ sequence = [t \in Tables |-> 0]
  /\ reserved = {}
  /\ stage = "idle"
  /\ next = 1
  /\ completed = FALSE
  /\ early = FALSE
  /\ runs = 0

-----------------------------------------------------------------------------
(* The tool *)

Start ==
  /\ stage = "idle"
  /\ runs < MaxRuns
  /\ stage' = "import"
  /\ next' = 1
  /\ runs' = runs + 1
  /\ early' = (early \/ ServicesUsed)
  /\ UNCHANGED <<rows, sequence, reserved, completed>>

\* Variant: the sequence numbers the rows anew, the last one first.
NewRenumbered(t) ==
  { x \in { [y EXCEPT !.id = Cardinality({z \in Legacy[t] : z.id >= y.id})] :
              y \in Legacy[t] } : ~ Occupied(t, x.id) }

\* The rows of the file that are not skipped.
New(t) == { x \in Legacy[t] : ~ Occupied(t, x.id) }

\* Every one of them can be inserted.
Importable(t) ==
  \A x \in New(t) :
    /\ ~ KeyTaken(t, x.key)
    /\ \A ref \in x.refs : Occupied(ref[1], ref[2])

AfterImport ==
  IF next < Len(Order)
  THEN stage' = "import" /\ next' = next + 1
  ELSE stage' = "bump" /\ next' = 1

\* One transaction: all rows of the file, or an error and none of them.
Import(t) ==
  /\ stage = "import"
  /\ t = Order[next]
  /\ Importable(t)
  /\ rows' = [rows EXCEPT ![t] = @ \cup Stored("legacy", New(t))]
  /\ AfterImport
  /\ UNCHANGED <<sequence, reserved, completed, early, runs>>

\* Variant: the error is dropped and the program goes on.
FailSkips ==
  /\ stage = "import"
  /\ AfterImport
  /\ UNCHANGED <<rows, sequence, reserved, completed, early, runs>>

\* must: the program ends, at whatever it was.  A refused transaction, a row
\* that does not parse, a lost connection, a kill.
Fail ==
  /\ stage # "idle"
  /\ stage' = "idle"
  /\ next' = 1
  /\ UNCHANGED <<rows, sequence, reserved, completed, early, runs>>

MaxIdOf(t) ==
  CHOOSE m \in Ids :
    /\ \A x \in rows[t] : x.id <= m
    /\ rows[t] = {} => m = 1
    /\ rows[t] # {} => Occupied(t, m)

\* Variant: the last table's sequence is forgotten.
BumpAllButLast(t) ==
  /\ stage = "bump"
  /\ t = Order[next]
  /\ sequence' = IF next = Len(Order) THEN sequence
                 ELSE [sequence EXCEPT ![t] = MaxIdOf(t)]
  /\ IF next < Len(Order)
     THEN stage' = "bump" /\ next' = next + 1 /\ completed' = completed
     ELSE stage' = "idle" /\ next' = 1 /\ completed' = TRUE
  /\ UNCHANGED <<rows, reserved, early, runs>>

\* setval(MAX(id), or 1): the next id is the one after.
Bump(t) ==
  /\ stage = "bump"
  /\ t = Order[next]
  /\ sequence' = [sequence EXCEPT ![t] = MaxIdOf(t)]
  /\ IF next < Len(Order)
     THEN stage' = "bump" /\ next' = next + 1 /\ completed' = completed
     ELSE stage' = "idle" /\ next' = 1 /\ completed' = TRUE
  /\ UNCHANGED <<rows, reserved, early, runs>>

-----------------------------------------------------------------------------
(* The services *)

\* An INSERT draws its id, which no rollback gives back ...
Reserve(t) ==
  /\ t \in LiveTables
  /\ sequence[t] < MaxId
  /\ sequence' = [sequence EXCEPT ![t] = @ + 1]
  /\ reserved' = reserved \cup {<<t, sequence[t] + 1>>}
  /\ early' = (early \/ ~ completed \/ stage # "idle")
  /\ UNCHANGED <<rows, stage, next, completed, runs>>

\* ... and commits, unless its id or its key is taken: then it fails.
Insert(t, id, key) ==
  /\ <<t, id>> \in reserved
  /\ reserved' = reserved \ {<<t, id>>}
  /\ rows' = IF Occupied(t, id) \/ KeyTaken(t, key)
             THEN rows
             ELSE [rows EXCEPT ![t] =
                     @ \cup Stored("live", {[id |-> id, key |-> key, refs |-> {}]})]
  /\ UNCHANGED <<sequence, tool>>

-----------------------------------------------------------------------------
Next ==
  \/ Start
  \/ Fail
  \/ \E t \in Tables : Import(t) \/ Bump(t) \/ Reserve(t)
  \/ \E t \in LiveTables, id \in Ids, key \in Keys : Insert(t, id, key)

Spec == Init /\ [][Next]_vars

-----------------------------------------------------------------------------
(* Properties *)

\* Types, and the tables' primary keys and unique columns.
TypeOK ==
  /\ rows \in [Tables -> SUBSET [id : Ids, key : Keys, refs : SUBSET (Tables \X Ids),
                                 origin : {"seed", "legacy", "live"}]]
  /\ \A t \in Tables : Keyed(rows[t])
  /\ sequence \in [Tables -> 0 .. MaxId]
  /\ reserved \subseteq Tables \X Ids
  /\ stage \in {"idle", "import", "bump"}
  /\ next \in DOMAIN Order
  /\ completed \in BOOLEAN
  /\ early \in BOOLEAN
  /\ runs \in 0 .. MaxRuns

\* However often the tool runs and wherever it fails, it never changes or removes
\* a row that is there.
NeverOverwrites == \A t \in Tables : rows[t] \subseteq rows'[t]

NeverOverwritesAlways == [][NeverOverwrites]_vars

\* "Idempotent scripts" (MIGRATION_GUIDE.md:42): once the tool has come to its end,
\* another run has nothing to insert, hence is refused nowhere, whatever the seed
\* held and the services have written, before, between and since.
RerunIdle == completed => \A t \in Tables : New(t) = {}

\* An empty schema, and services that wait until the tool has ended.
Undisturbed ==
  ~ early /\ \A t \in Tables : \A x \in rows[t] : x.origin # "seed"

\* When the tool has ended, every row of the legacy database is there.
LegacyKept ==
  Undisturbed /\ completed =>
    \A t \in Tables : Stored("legacy", Legacy[t]) \subseteq rows[t]

\* A legacy row refers to the rows it referred to in the legacy database, never
\* to another row that has their id.
LegacyRefs ==
  \A t \in Tables : \A x \in rows[t] :
    x.origin = "legacy" =>
      \A ref \in x.refs :
        \E y \in Legacy[ref[1]] :
          y.id = ref[2] /\ Stored("legacy", {y}) \subseteq rows[ref[1]]

RefsIntact == Undisturbed => LegacyRefs

\* When the tool has ended, the services are never given an id that is taken:
\* what they are about to insert with is free, and so is all that follows.
IdsFree ==
  Undisturbed /\ completed /\ stage = "idle" =>
    /\ \A p \in reserved : ~ Occupied(p[1], p[2])
    /\ \A t \in Tables : \A x \in rows[t] : x.id <= sequence[t]
=============================================================================
