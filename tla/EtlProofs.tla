------------------------------ MODULE EtlProofs ------------------------------
(***************************************************************************)
(* Theorems about Etl, for any tables in any order, any legacy database    *)
(* and seed, and however often the tool is run.                            *)
(***************************************************************************)
EXTENDS Etl, WellFoundedInduction, TLAPS

Row == [id : Ids, key : Keys, refs : SUBSET (Tables \X Ids),
        origin : {"seed", "legacy", "live"}]

As(origin, x) == [id |-> x.id, key |-> x.key, refs |-> x.refs, origin |-> origin]

Live(id, key) == As("live", [id |-> id, key |-> key, refs |-> {}])

\* The whole file of table t is there.
Done(t) == \A y \in Legacy[t] : As("legacy", y) \in rows[t]

\* A row that says it is a legacy row is one.
OriginInv ==
  \A t \in Tables : \A x \in rows[t] :
    x.origin = "legacy" => \E y \in Legacy[t] : x = As("legacy", y)

\* Until the first run has ended, and while another one runs, there is nothing
\* but legacy rows; the tables come one after the other, and stay complete.
ProgressInv ==
  Undisturbed =>
    /\ ~ completed \/ stage # "idle" => ~ ServicesUsed
    /\ stage = "import" => \A i \in 1 .. next - 1 : Done(Order[i])
    /\ stage = "bump" \/ completed => \A t \in Tables : Done(t)

Below(t) == \A x \in rows[t] : x.id <= sequence[t]

\* So are their sequences.
SequenceInv ==
  Undisturbed =>
    /\ stage = "bump" => \A i \in 1 .. next - 1 : Below(Order[i])
    /\ completed =>
         /\ \A t \in Tables : Below(t)
         /\ \A p \in reserved : ~ Occupied(p[1], p[2]) /\ p[2] <= sequence[p[1]]

EtlInv == TypeOK /\ OriginInv /\ ProgressInv /\ RefsIntact /\ SequenceInv

-----------------------------------------------------------------------------
LEMMA OrderFacts ==
  /\ Len(Order) \in Nat /\ Len(Order) >= 1 /\ DOMAIN Order = 1 .. Len(Order)
  /\ \A i \in DOMAIN Order : Order[i] \in Tables
  /\ \A t \in Tables : \E i \in DOMAIN Order : Order[i] = t
  /\ \A i, j \in DOMAIN Order : Order[i] = Order[j] => i = j
BY EtlAssumption DEF Tables

LEMMA RowIs ==
  ASSUME NEW origin \in {"seed", "legacy", "live"}, NEW x \in Rows
  PROVE  /\ As(origin, x) \in Row
         /\ As(origin, x).id = x.id /\ As(origin, x).key = x.key
         /\ As(origin, x).refs = x.refs /\ As(origin, x).origin = origin
BY DEF Rows, Row, As

LEMMA StoredIs ==
  ASSUME NEW origin, NEW S
  PROVE  /\ \A x : x \in Stored(origin, S) <=> \E y \in S : x = As(origin, y)
BY DEF Stored, As

\* What a unique column allows to be added.
LEMMA KeyedUnion ==
  ASSUME NEW A, NEW B, Keyed(A), Keyed(B),
         \A x \in A, y \in B : x.id # y.id /\ x.key # y.key
  PROVE  Keyed(A \cup B)
BY DEF Keyed

LEMMA KeyedStored ==
  ASSUME NEW origin \in {"seed", "legacy", "live"}, NEW S \in SUBSET Rows, Keyed(S)
  PROVE  Keyed(Stored(origin, S)) /\ Stored(origin, S) \subseteq Row
<1>1. \A x \in Stored(origin, S) :
        \E y \in S : x = As(origin, y) /\ x.id = y.id /\ x.key = y.key /\ x \in Row
  BY StoredIs, RowIs
<1> QED
  BY <1>1 DEF Keyed

\* A table's ids have a largest one.
LEMMA MaxIdExists ==
  ASSUME TypeOK, NEW t \in Tables
  PROVE  MaxIdOf(t) \in Ids /\ \A x \in rows[t] : x.id <= MaxIdOf(t)
<1> DEFINE U == { m \in Nat : \A x \in rows[t] : x.id <= m }
<1>0. MaxId \in Nat \ {0}
  BY EtlAssumption
<1>1. \A x \in rows[t] : x.id \in 1 .. MaxId
  BY DEF TypeOK, Ids
<1>2. MaxId \in U
  BY <1>0, <1>1
<1>3. PICK u \in U : \A y \in U : ~ (<<y, u>> \in OpToRel(<, Nat))
  <2> HIDE DEF U
  <2>1. U \subseteq Nat /\ U # {}
    BY <1>2 DEF U
  <2> QED
    BY <2>1, NatLessThanWellFounded, WFMin, Zenon
<1>4. \A y \in U : ~ (y < u)
  BY <1>3 DEF OpToRel
<1>5. ASSUME rows[t] # {} PROVE u \in Ids /\ Occupied(t, u)
  <2>1. u >= 1 /\ u <= MaxId
    BY <1>0, <1>1, <1>2, <1>4, <1>5
  <2>2. ASSUME ~ Occupied(t, u) PROVE FALSE
    <3>1. \A x \in rows[t] : x.id <= u - 1
      BY <1>1, <2>1, <2>2 DEF Occupied
    <3>2. u - 1 \in U
      BY <2>1, <3>1
    <3> QED
      BY <1>4, <3>2
  <2> QED
    BY <1>0, <2>1, <2>2 DEF Ids
<1>6. \E m \in Ids : /\ \A x \in rows[t] : x.id <= m
                     /\ rows[t] = {} => m = 1
                     /\ rows[t] # {} => Occupied(t, m)
  <2>1. CASE rows[t] = {}
    BY <1>0, <2>1 DEF Ids
  <2>2. CASE rows[t] # {}
    BY <1>5, <2>2
  <2> QED
    BY <2>1, <2>2
<1> QED
  BY <1>6 DEF MaxIdOf

-----------------------------------------------------------------------------
LEMMA InitEtl == Init => EtlInv
<1> SUFFICES ASSUME Init PROVE EtlInv
  OBVIOUS
<1> USE EtlAssumption
<1>1. \A t \in Tables : Seed[t] \in SUBSET Rows /\ Keyed(Seed[t])
  OBVIOUS
<1>2. \A t \in Tables : rows[t] = {} \/ rows[t] = Stored("seed", Seed[t])
  BY DEF Init
<1>3. \A t \in Tables : Keyed(rows[t]) /\ rows[t] \subseteq Row
  BY <1>1, <1>2, KeyedStored DEF Keyed
<1>4. TypeOK
  <2>1. rows \in [Tables -> SUBSET Row]
    BY <1>3 DEF Init
  <2>2. next \in DOMAIN Order
    BY OrderFacts DEF Init
  <2>3. sequence \in [Tables -> 0 .. MaxId]
    BY DEF Init
  <2>4. /\ reserved = {} /\ stage = "idle" /\ completed = FALSE /\ early = FALSE
        /\ runs \in 0 .. MaxRuns
    BY DEF Init
  <2> QED
    BY <1>3, <2>1, <2>2, <2>3, <2>4 DEF TypeOK, Row
<1>5. \A t \in Tables : \A x \in rows[t] : x.origin = "seed"
  BY <1>1, <1>2, StoredIs, RowIs
<1>6. ~ completed /\ stage = "idle" /\ ~ ServicesUsed
  BY <1>5 DEF Init, ServicesUsed
<1> QED
  BY <1>4, <1>5, <1>6
     DEF EtlInv, OriginInv, ProgressInv, SequenceInv, RefsIntact, LegacyRefs

-----------------------------------------------------------------------------
\* New rows have new ids; when they can be imported, new keys too.
LEMMA ImportIs ==
  ASSUME TypeOK, NEW t \in Tables, Import(t)
  PROVE  /\ stage = "import" /\ t = Order[next]
         /\ rows' = [rows EXCEPT ![t] = rows[t] \cup Stored("legacy", New(t))]
         /\ New(t) \in SUBSET Rows /\ New(t) \subseteq Legacy[t]
         /\ Stored("legacy", New(t)) \subseteq Row
         /\ Keyed(rows'[t])
<1>1. /\ stage = "import" /\ t = Order[next] /\ Importable(t)
      /\ rows' = [rows EXCEPT ![t] = rows[t] \cup Stored("legacy", New(t))]
  BY DEF Import
<1>2. New(t) \in SUBSET Rows /\ New(t) \subseteq Legacy[t] /\ Keyed(New(t))
  BY EtlAssumption DEF New, Keyed
<1>3. Keyed(Stored("legacy", New(t))) /\ Stored("legacy", New(t)) \subseteq Row
  BY <1>2, KeyedStored
<1>4. \A x \in rows[t], y \in Stored("legacy", New(t)) : x.id # y.id /\ x.key # y.key
  <2> SUFFICES ASSUME NEW x \in rows[t], NEW z \in New(t)
               PROVE  x.id # As("legacy", z).id /\ x.key # As("legacy", z).key
    BY StoredIs
  <2>1. As("legacy", z).id = z.id /\ As("legacy", z).key = z.key
    BY <1>2, RowIs
  <2> QED
    BY <1>1, <2>1 DEF New, Importable, Occupied, KeyTaken
<1>5. Keyed(rows[t] \cup Stored("legacy", New(t)))
  BY <1>3, <1>4, KeyedUnion DEF TypeOK
<1>6. rows'[t] = rows[t] \cup Stored("legacy", New(t))
  BY <1>1 DEF TypeOK
<1> QED
  BY <1>1, <1>2, <1>3, <1>5, <1>6

LEMMA InsertIs ==
  ASSUME TypeOK, NEW t \in LiveTables, NEW id \in Ids, NEW key \in Keys,
         Insert(t, id, key)
  PROVE  /\ t \in Tables
         /\ <<t, id>> \in reserved /\ reserved' = reserved \ {<<t, id>>}
         /\ Live(id, key) \in Row /\ Live(id, key).id = id
         /\ Live(id, key).key = key /\ Live(id, key).origin = "live"
         /\ UNCHANGED <<sequence, tool>>
         /\ \/ rows' = rows
            \/ /\ ~ Occupied(t, id) /\ ~ KeyTaken(t, key)
               /\ rows' = [rows EXCEPT ![t] = rows[t] \cup {Live(id, key)}]
<1> DEFINE r == [id |-> id, key |-> key, refs |-> {}]
<1>1. r \in Rows
  BY DEF Rows
<1>2. /\ As("live", r) \in Row /\ As("live", r).id = id /\ As("live", r).key = key
      /\ As("live", r).origin = "live"
  BY <1>1, RowIs
<1>3. Stored("live", {r}) = {As("live", r)}
  BY DEF Stored, As
<1> QED
  BY <1>2, <1>3, EtlAssumption DEF Insert, Live

LEMMA InsertAdds ==
  ASSUME TypeOK, NEW t \in LiveTables, NEW id \in Ids, NEW key \in Keys,
         Insert(t, id, key), NEW u \in Tables, NEW x \in rows'[u]
  PROVE  x \in rows[u] \/ x.origin = "live"
<1>1. /\ t \in Tables /\ Live(id, key).origin = "live"
      /\ rows' = rows \/ rows' = [rows EXCEPT ![t] = rows[t] \cup {Live(id, key)}]
  BY InsertIs
<1>2. DOMAIN rows = Tables
  BY DEF TypeOK
<1> QED
  BY <1>1, <1>2

LEMMA NextIndex ==
  ASSUME TypeOK
  PROVE  next < Len(Order) => next + 1 \in DOMAIN Order
BY OrderFacts DEF TypeOK

LEMMA NextType == TypeOK /\ [Next]_vars => TypeOK'
<1> SUFFICES ASSUME TypeOK, [Next]_vars PROVE TypeOK'
  OBVIOUS
<1>0. MaxId \in Nat \ {0} /\ MaxRuns \in Nat /\ LiveTables \subseteq Tables /\ 1 \in DOMAIN Order
  BY EtlAssumption, OrderFacts
<1> USE <1>0 DEF TypeOK, tool
<1>1. CASE Start
  <2>1. runs' \in 0 .. MaxRuns
    BY <1>1 DEF Start
  <2>2. early' \in BOOLEAN
    <3>1. early' = (early \/ ServicesUsed)
      BY <1>1 DEF Start
    <3> QED
      BY ONLY <3>1, Zenon
  <2>3. stage' = "import" /\ next' = 1 /\ UNCHANGED <<rows, sequence, reserved, completed>>
    BY <1>1 DEF Start
  <2> QED
    BY <2>1, <2>2, <2>3
<1>2. CASE Fail
  BY <1>2 DEF Fail
<1>3. ASSUME NEW t \in Tables, Import(t) PROVE TypeOK'
  <2>1. rows' \in [Tables -> SUBSET Row] /\ \A x \in Tables : Keyed(rows'[x])
    <3>1. \A x \in Tables : x # t => rows'[x] = rows[x]
      BY <1>3, ImportIs
    <3>2. rows[t] \cup Stored("legacy", New(t)) \in SUBSET Row
      BY <1>3, ImportIs DEF Row
    <3> QED
      BY <1>3, <3>1, <3>2, ImportIs DEF Row
  <2>2. stage' \in {"idle", "import", "bump"} /\ next' \in DOMAIN Order
    BY <1>3, NextIndex DEF Import, AfterImport
  <2>3. UNCHANGED <<sequence, reserved, completed, early, runs>>
    BY <1>3 DEF Import
  <2> QED
    BY <2>1, <2>2, <2>3 DEF Row
<1>4. ASSUME NEW t \in Tables, Bump(t) PROVE TypeOK'
  <2>1. sequence' \in [Tables -> 0 .. MaxId]
    BY <1>4, MaxIdExists DEF Bump, Ids
  <2>2. stage' \in {"idle", "import", "bump"} /\ next' \in DOMAIN Order
        /\ completed' \in BOOLEAN
    BY <1>4, NextIndex DEF Bump
  <2>3. UNCHANGED <<rows, reserved, early, runs>>
    BY <1>4 DEF Bump
  <2> QED
    BY <2>1, <2>2, <2>3
<1>5. ASSUME NEW t \in Tables, Reserve(t) PROVE TypeOK'
  <2>1. /\ sequence[t] + 1 \in Ids
        /\ sequence' = [sequence EXCEPT ![t] = sequence[t] + 1]
        /\ reserved' = reserved \cup {<<t, sequence[t] + 1>>}
        /\ UNCHANGED <<rows, stage, next, completed, runs>>
    BY <1>5 DEF Reserve, Ids
  <2>2. early' \in BOOLEAN
    <3>1. early' = (early \/ ~ completed \/ stage # "idle")
      BY <1>5 DEF Reserve
    <3> QED
      BY ONLY <3>1, Zenon
  <2> QED
    BY <2>1, <2>2 DEF Ids
<1>6. ASSUME NEW t \in LiveTables, NEW id \in Ids, NEW key \in Keys, Insert(t, id, key)
      PROVE  TypeOK'
  <2>0. PICK x : x = Live(id, key)
    OBVIOUS
  <2>1. x \in Row /\ x.id = id /\ x.key = key
    <3>1. Live(id, key) \in Row /\ Live(id, key).id = id /\ Live(id, key).key = key
      BY <1>6, InsertIs
    <3> QED
      BY <2>0, <3>1
  <2>2. Keyed(rows[t] \cup {x}) \/ Occupied(t, id) \/ KeyTaken(t, key)
    <3>1. Keyed({x})
      BY DEF Keyed
    <3>2. ~ Occupied(t, id) /\ ~ KeyTaken(t, key) =>
            \A y \in rows[t], z \in {x} : y.id # z.id /\ y.key # z.key
      BY <2>1 DEF Occupied, KeyTaken
    <3> QED
      BY <3>1, <3>2, KeyedUnion
  <2>3. rows' = rows \/ (rows' = [rows EXCEPT ![t] = rows[t] \cup {x}] /\ Keyed(rows[t] \cup {x}))
    BY <1>6, <2>0, <2>2, InsertIs
  <2>4. rows' \in [Tables -> SUBSET Row] /\ \A y \in Tables : Keyed(rows'[y])
    <3>1. rows \in [Tables -> SUBSET Row] /\ \A y \in Tables : Keyed(rows[y])
      BY DEF Row
    <3>2. CASE rows' = [rows EXCEPT ![t] = rows[t] \cup {x}] /\ Keyed(rows[t] \cup {x})
      <4>1. rows' \in [Tables -> SUBSET Row]
        BY <2>1, <3>1, <3>2
      <4>2. \A y \in Tables : rows'[y] = rows[y] \/ rows'[y] = rows[t] \cup {x}
        BY <3>1, <3>2
      <4> QED
        BY <3>1, <3>2, <4>1, <4>2
    <3> QED
      BY <2>3, <3>1, <3>2
  <2>5. reserved' \subseteq reserved /\ UNCHANGED <<sequence, tool>>
    BY <1>6 DEF Insert
  <2> QED
    BY <2>4, <2>5 DEF Row
<1>7. CASE UNCHANGED vars
  BY <1>7 DEF vars
<1> HIDE DEF TypeOK
<1> QED
  BY <1>1, <1>2, <1>3, <1>4, <1>5, <1>6, <1>7 DEF Next

-----------------------------------------------------------------------------
\* Rows are only ever added.
LEMMA RowsGrow ==
  ASSUME TypeOK, [Next]_vars, NEW t \in Tables
  PROVE  rows[t] \subseteq rows'[t]
<1>1. ASSUME NEW u \in Tables, Import(u) PROVE rows[t] \subseteq rows'[t]
  BY <1>1, ImportIs DEF TypeOK
<1>2. ASSUME NEW u \in LiveTables, NEW id \in Ids, NEW key \in Keys, Insert(u, id, key)
      PROVE  rows[t] \subseteq rows'[t]
  <2>1. /\ u \in Tables
        /\ rows' = rows \/ rows' = [rows EXCEPT ![u] = rows[u] \cup {Live(id, key)}]
    BY <1>2, InsertIs
  <2>2. DOMAIN rows = Tables
    BY DEF TypeOK
  <2> QED
    BY <2>1, <2>2
<1>3. CASE rows' = rows
  BY <1>3
<1> QED
  BY <1>1, <1>2, <1>3 DEF Next, vars, Start, Fail, Bump, Reserve

\* No run, wherever it fails, changes or removes a row that is there: every insert
\* of the tool is ON CONFLICT (id) DO NOTHING (main.go:202-640).
THEOREM RowsStay == Spec => NeverOverwritesAlways
<1>1. TypeOK /\ [Next]_vars => TypeOK' /\ [NeverOverwrites]_vars
  BY NextType, RowsGrow DEF NeverOverwrites
<1>2. Init => TypeOK
  BY InitEtl DEF EtlInv
<1> QED
  BY <1>1, <1>2, PTL DEF Spec, NeverOverwritesAlways

-----------------------------------------------------------------------------
(* A second run *)

\* The tables that were passed have a row for every id of their file, the
\* legacy row or another.
PassedInv ==
  /\ stage = "import" => \A i \in 1 .. next - 1 : New(Order[i]) = {}
  /\ stage = "bump" \/ completed => \A t \in Tables : New(t) = {}

\* What has no new rows keeps none.
LEMMA NoneNewStays ==
  ASSUME TypeOK, [Next]_vars, NEW t \in Tables, New(t) = {}
  PROVE  New(t)' = {}
<1>1. \A id : Occupied(t, id) => Occupied(t, id)'
  BY RowsGrow DEF Occupied
<1> QED
  BY <1>1 DEF New

\* An import leaves nothing new behind.
LEMMA ImportTakesAll ==
  ASSUME TypeOK, NEW t \in Tables, Import(t)
  PROVE  New(t)' = {}
<1>1. rows'[t] = rows[t] \cup Stored("legacy", New(t)) /\ New(t) \in SUBSET Rows
  BY ImportIs DEF TypeOK
<1>2. ASSUME NEW y \in Legacy[t] PROVE Occupied(t, y.id)'
  <2>1. CASE y \in New(t)
    <3>1. As("legacy", y) \in rows'[t]
      BY <1>1, <2>1, StoredIs
    <3>2. As("legacy", y).id = y.id
      BY <1>1, <2>1, RowIs
    <3> QED
      BY <3>1, <3>2 DEF Occupied
  <2>2. CASE y \notin New(t)
    <3>1. PICK x \in rows[t] : x.id = y.id
      BY <1>2, <2>2 DEF New, Occupied
    <3> QED
      BY <1>1, <3>1 DEF Occupied
  <2> QED
    BY <2>1, <2>2
<1> QED
  BY <1>2 DEF New

\* What completes a pass over the tables.
LEMMA AllBefore ==
  ASSUME TypeOK, next >= Len(Order), NEW t \in Tables
  PROVE  \/ t = Order[next]
         \/ \E i \in 1 .. next - 1 : t = Order[i]
BY OrderFacts DEF TypeOK

LEMMA NextPassed == TypeOK /\ PassedInv /\ [Next]_vars => PassedInv'
<1> SUFFICES ASSUME TypeOK, PassedInv, [Next]_vars PROVE PassedInv'
  OBVIOUS
<1>s. \A t \in Tables : New(t) = {} => New(t)' = {}
  BY NoneNewStays
<1>o. /\ \A i \in DOMAIN Order : Order[i] \in Tables
      /\ next \in DOMAIN Order /\ DOMAIN Order = 1 .. Len(Order)
      /\ Len(Order) \in Nat
  BY OrderFacts DEF TypeOK
<1>i. \A i \in 1 .. next - 1 : Order[i] \in Tables
  BY <1>o
<1> HIDE DEF New
<1>1. CASE Start
  <2>1. stage' = "import" /\ next' - 1 = 0 /\ completed' = completed
    BY <1>1 DEF Start
  <2> QED
    BY <1>s, <2>1 DEF PassedInv
<1>2. CASE Fail
  <2>1. stage' = "idle" /\ completed' = completed
    BY <1>2 DEF Fail
  <2> QED
    BY <1>s, <2>1 DEF PassedInv
<1>3. ASSUME NEW t \in Tables, Import(t) PROVE PassedInv'
  <2>1. /\ stage = "import" /\ t = Order[next] /\ New(t)' = {}
        /\ completed' = completed
    BY <1>3, ImportIs, ImportTakesAll DEF Import
  <2>2. \A i \in 1 .. next : New(Order[i])' = {}
    <3> SUFFICES ASSUME NEW i \in 1 .. next PROVE New(Order[i])' = {}
      OBVIOUS
    <3>1. CASE i = next
      BY <2>1, <3>1
    <3>2. CASE i # next
      <4>1. i \in 1 .. next - 1
        BY <1>o, <3>2
      <4>2. Order[i] \in Tables /\ New(Order[i]) = {}
        BY <1>i, <2>1, <4>1 DEF PassedInv
      <4> QED
        BY <1>s, <4>2
    <3> QED
      BY <3>1, <3>2
  <2>3. CASE next < Len(Order)
    <3>1. stage' = "import" /\ next' - 1 = next
      BY <1>3, <1>o, <2>3 DEF Import, AfterImport
    <3>2. \A i \in 1 .. next' - 1 : New(Order[i])' = {}
      BY <2>2, <3>1
    <3> QED
      BY <1>s, <2>1, <3>1, <3>2 DEF PassedInv
  <2>4. CASE ~ (next < Len(Order))
    <3>1. \A u \in Tables : New(u)' = {}
      <4> SUFFICES ASSUME NEW u \in Tables PROVE New(u)' = {}
        OBVIOUS
      <4>1. \E i \in 1 .. next : u = Order[i]
        BY <1>o, <2>4, AllBefore
      <4> QED
        BY <2>2, <4>1
    <3>2. stage' = "bump"
      BY <1>3, <2>4 DEF Import, AfterImport
    <3> QED
      BY <3>1, <3>2 DEF PassedInv
  <2> QED
    BY <2>3, <2>4
<1>4. ASSUME NEW t \in Tables, Bump(t) PROVE PassedInv'
  <2>1. stage = "bump" /\ stage' \in {"bump", "idle"}
    BY <1>4 DEF Bump
  <2>2. \A u \in Tables : New(u)' = {}
    BY <1>s, <2>1 DEF PassedInv
  <2> QED
    BY <2>1, <2>2 DEF PassedInv
<1>5. ASSUME UNCHANGED <<stage, next, completed>> PROVE PassedInv'
  <2>1. stage = "import" => \A i \in 1 .. next - 1 : New(Order[i])' = {}
    BY <1>i, <1>s DEF PassedInv
  <2> QED
    BY <1>5, <1>s, <2>1 DEF PassedInv
<1>6. ASSUME NEW t \in Tables, Reserve(t) PROVE PassedInv'
  BY <1>5, <1>6 DEF Reserve
<1>7. ASSUME NEW t \in LiveTables, NEW id \in Ids, NEW key \in Keys,
             Insert(t, id, key)
      PROVE  PassedInv'
  BY <1>5, <1>7 DEF Insert, tool
<1>8. CASE UNCHANGED vars
  BY <1>5, <1>8 DEF vars, tool
<1> QED
  BY <1>1, <1>2, <1>3, <1>4, <1>6, <1>7, <1>8 DEF Next

LEMMA InitPassed == Init => PassedInv
BY DEF Init, PassedInv

\* "Idempotent scripts" (MIGRATION_GUIDE.md:42): after a run that came to its end
\* every id of every file is taken, so another run finds nothing to insert.
THEOREM RerunsFindNothing == Spec => []RerunIdle
<1>1. PassedInv => RerunIdle
  BY DEF PassedInv, RerunIdle
<1>2. Init => TypeOK
  BY InitEtl DEF EtlInv
<1> QED
  BY <1>1, <1>2, NextType, InitPassed, NextPassed, PTL DEF Spec

\* Hence such a run changes no row and no table refuses it: neither a unique
\* column nor a reference is looked at (main.go:202-640).
THEOREM RerunsChangeNothing ==
  Spec => [][completed => \A t \in Tables :
               Importable(t) /\ (Import(t) => rows' = rows)]_vars
<1>1. TypeOK /\ RerunIdle =>
        (completed => \A t \in Tables :
           Importable(t) /\ (Import(t) => rows' = rows))
  <2> SUFFICES ASSUME TypeOK, NEW t \in Tables, New(t) = {}
               PROVE  Importable(t) /\ (Import(t) => rows' = rows)
    BY DEF RerunIdle
  <2>1. Importable(t)
    BY DEF Importable
  <2>2. Stored("legacy", New(t)) = {}
    BY StoredIs
  <2>3. [rows EXCEPT ![t] = @ \cup {}] = rows
    BY DEF TypeOK
  <2> QED
    BY <2>1, <2>2, <2>3 DEF Import
<1>2. Init => TypeOK
  BY InitEtl DEF EtlInv
<1> QED
  BY <1>1, <1>2, NextType, RerunsFindNothing, PTL DEF Spec

-----------------------------------------------------------------------------
(* Undisturbed runs *)

LEMMA UndisturbedBefore ==
  ASSUME TypeOK, [Next]_vars, Undisturbed'
  PROVE  Undisturbed
<1>1. early => early'
  BY DEF Next, vars, tool, Start, Fail, Import, AfterImport, Bump, Reserve, Insert
<1>2. \A t \in Tables : rows[t] \subseteq rows'[t]
  BY RowsGrow
<1> QED
  BY <1>1, <1>2 DEF Undisturbed

LEMMA NextOrigin == TypeOK /\ OriginInv /\ [Next]_vars => OriginInv'
<1> SUFFICES ASSUME TypeOK, OriginInv, [Next]_vars,
                    NEW t \in Tables, NEW x \in rows'[t], x.origin = "legacy"
             PROVE  \E y \in Legacy[t] : x = As("legacy", y)
  BY DEF OriginInv
<1>1. CASE x \in rows[t]
  BY <1>1 DEF OriginInv
<1>2. ASSUME NEW u \in Tables, Import(u), x \notin rows[t]
      PROVE  \E y \in Legacy[t] : x = As("legacy", y)
  <2>1. u = t /\ x \in Stored("legacy", New(t))
    BY <1>2, ImportIs DEF TypeOK
  <2> QED
    BY <1>2, <2>1, ImportIs, StoredIs
<1>3. ASSUME NEW u \in LiveTables, NEW id \in Ids, NEW key \in Keys, Insert(u, id, key)
      PROVE  x \in rows[t]
  BY <1>3, InsertAdds
<1>4. CASE rows' = rows
  BY <1>1, <1>4
<1> QED
  BY <1>1, <1>2, <1>3, <1>4 DEF Next, vars, Start, Fail, Bump, Reserve

\* While a run imports and nothing disturbs it, all rows are legacy rows.
LEMMA OnlyLegacy ==
  ASSUME TypeOK, OriginInv, ProgressInv, Undisturbed, stage # "idle",
         NEW t \in Tables, NEW x \in rows[t]
  PROVE  \E y \in Legacy[t] : x = As("legacy", y)
<1>1. x.origin # "live" /\ x.origin # "seed"
  BY DEF ProgressInv, ServicesUsed, Undisturbed
<1>2. x.origin = "legacy"
  BY <1>1 DEF TypeOK
<1> QED
  BY <1>2 DEF OriginInv

\* A row of the file that need not be inserted is there already.
LEMMA ImportDone ==
  ASSUME TypeOK, OriginInv, ProgressInv, Undisturbed, NEW t \in Tables, Import(t)
  PROVE  Done(t)'
<1> SUFFICES ASSUME NEW y \in Legacy[t] PROVE As("legacy", y) \in rows'[t]
  BY DEF Done
<1>1. rows'[t] = rows[t] \cup Stored("legacy", New(t)) /\ stage # "idle"
  BY ImportIs DEF TypeOK
<1>2. CASE y \in New(t)
  BY <1>1, <1>2, StoredIs
<1>3. CASE y \notin New(t)
  <2>1. PICK x \in rows[t] : x.id = y.id
    BY <1>3 DEF New, Occupied
  <2>2. PICK z \in Legacy[t] : x = As("legacy", z)
    BY <1>1, OnlyLegacy
  <2>3. z \in Rows /\ y \in Rows /\ Keyed(Legacy[t])
    BY EtlAssumption
  <2>4. z = y
    BY <2>1, <2>2, <2>3 DEF Keyed, As
  <2> QED
    BY <1>1, <2>2, <2>4
<1> QED
  BY <1>2, <1>3

LEMMA DoneStays ==
  ASSUME TypeOK, [Next]_vars, NEW t \in Tables, Done(t)
  PROVE  Done(t)'
BY RowsGrow DEF Done

LEMMA NextProgress ==
  TypeOK /\ OriginInv /\ ProgressInv /\ [Next]_vars => ProgressInv'
<1> SUFFICES ASSUME TypeOK, OriginInv, ProgressInv, [Next]_vars,
                    Undisturbed, Undisturbed'
             PROVE  ProgressInv'
  BY UndisturbedBefore DEF ProgressInv
<1>0. TypeOK' /\ OriginInv'
  BY NextType, NextOrigin
<1>d. \A t \in Tables : Done(t) => Done(t)'
  BY DoneStays
<1>o. /\ \A i \in DOMAIN Order : Order[i] \in Tables
      /\ next \in DOMAIN Order /\ DOMAIN Order = 1 .. Len(Order) /\ Len(Order) \in Nat
  BY OrderFacts DEF TypeOK
<1>1. CASE Start
  <2>1. ~ ServicesUsed /\ UNCHANGED <<rows, reserved, completed>>
        /\ stage' = "import" /\ next' = 1
    BY <1>1 DEF Start, Undisturbed
  <2>2. ~ ServicesUsed'
    BY <2>1 DEF ServicesUsed
  <2>3. \A i \in 1 .. next' - 1 : FALSE
    BY <2>1
  <2> QED
    BY <1>d, <2>1, <2>2, <2>3 DEF ProgressInv
<1>2. CASE Fail
  <2>1. /\ stage # "idle" /\ stage' = "idle" /\ UNCHANGED <<rows, reserved, completed>>
    BY <1>2 DEF Fail
  <2>2. ServicesUsed' = ServicesUsed
    BY <2>1 DEF ServicesUsed
  <2> QED
    BY <1>d, <2>1, <2>2 DEF ProgressInv
<1>3. ASSUME NEW t \in Tables, Import(t) PROVE ProgressInv'
  <2>1. /\ stage = "import" /\ t = Order[next] /\ Done(t)'
        /\ UNCHANGED <<reserved, completed>>
    BY <1>3, ImportIs, ImportDone DEF Import
  <2>2. ~ ServicesUsed'
    <3>1. reserved = {}
      BY <2>1 DEF ProgressInv, ServicesUsed
    <3>2. \A u \in Tables : \A x \in rows'[u] : x.origin # "live"
      <4> SUFFICES ASSUME NEW u \in Tables, NEW x \in rows'[u] PROVE x.origin # "live"
        OBVIOUS
      <4>1. CASE x \in rows[u]
        BY <2>1, <4>1 DEF ProgressInv, ServicesUsed
      <4>2. CASE x \notin rows[u]
        <5>1. x \in Stored("legacy", New(t))
          BY <1>3, <4>2, ImportIs DEF TypeOK
        <5> QED
          BY <1>3, <5>1, ImportIs, StoredIs, RowIs
      <4> QED
        BY <4>1, <4>2
    <3> QED
      BY <2>1, <3>1, <3>2 DEF ServicesUsed
  <2>3. \A i \in 1 .. next : Done(Order[i])'
    <3> SUFFICES ASSUME NEW i \in 1 .. next PROVE Done(Order[i])'
      OBVIOUS
    <3>1. CASE i = next
      BY <2>1, <3>1
    <3>2. CASE i # next
      <4>1. i \in 1 .. next - 1 /\ Order[i] \in Tables
        BY <1>o, <3>2
      <4> QED
        BY <1>d, <2>1, <4>1 DEF ProgressInv
    <3> QED
      BY <3>1, <3>2
  <2>4. CASE next < Len(Order)
    <3>1. stage' = "import" /\ next' - 1 = next
      BY <1>3, <1>o, <2>4 DEF Import, AfterImport
    <3> QED
      BY <1>d, <2>1, <2>2, <2>3, <3>1 DEF ProgressInv
  <2>5. CASE ~ (next < Len(Order))
    <3>1. stage' = "bump"
      BY <1>3, <2>5 DEF Import, AfterImport
    <3>2. \A u \in Tables : Done(u)'
      <4> SUFFICES ASSUME NEW u \in Tables PROVE Done(u)'
        OBVIOUS
      <4>1. \E i \in 1 .. next : u = Order[i]
        BY <1>o, <2>5, AllBefore
      <4> QED
        BY <2>3, <4>1
    <3> QED
      BY <2>2, <3>1, <3>2 DEF ProgressInv
  <2> QED
    BY <2>4, <2>5
<1>4. ASSUME NEW t \in Tables, Bump(t) PROVE ProgressInv'
  <2>1. /\ stage = "bump" /\ UNCHANGED <<rows, reserved>>
        /\ stage' \in {"bump", "idle"}
        /\ stage' = "idle" => completed'
    BY <1>4 DEF Bump
  <2>2. ~ ServicesUsed' /\ \A u \in Tables : Done(u)'
    BY <1>d, <2>1 DEF ProgressInv, ServicesUsed
  <2> QED
    BY <2>1, <2>2 DEF ProgressInv
<1>5. ASSUME NEW t \in Tables, Reserve(t) PROVE ProgressInv'
  <2>1. completed /\ stage = "idle" /\ UNCHANGED <<stage, completed>>
    BY <1>5 DEF Reserve, Undisturbed
  <2> QED
    BY <1>d, <2>1 DEF ProgressInv
<1>6. ASSUME NEW t \in LiveTables, NEW id \in Ids, NEW key \in Keys, Insert(t, id, key)
      PROVE  ProgressInv'
  <2>1. reserved # {} /\ UNCHANGED <<stage, next, completed>>
    BY <1>6 DEF Insert, tool
  <2>2. completed /\ stage = "idle"
    BY <2>1 DEF ProgressInv, ServicesUsed, TypeOK
  <2> QED
    BY <1>d, <2>1, <2>2 DEF ProgressInv
<1>7. CASE UNCHANGED vars
  <2>1. UNCHANGED <<rows, reserved, stage, next, completed>>
    BY <1>7 DEF vars, tool
  <2> QED
    BY <2>1 DEF ProgressInv, ServicesUsed, Undisturbed, Done
<1> QED
  BY <1>1, <1>2, <1>3, <1>4, <1>5, <1>6, <1>7 DEF Next

LEMMA NextRefs ==
  TypeOK /\ OriginInv /\ ProgressInv /\ RefsIntact /\ [Next]_vars => RefsIntact'
<1> SUFFICES ASSUME TypeOK, OriginInv, ProgressInv, RefsIntact, [Next]_vars,
                    Undisturbed, NEW t \in Tables, NEW x \in rows'[t],
                    x.origin = "legacy", NEW ref \in x.refs
             PROVE  \E y \in Legacy[ref[1]] :
                      /\ y.id = ref[2]
                      /\ Stored("legacy", {y}) \subseteq rows'[ref[1]]
  BY UndisturbedBefore DEF RefsIntact, LegacyRefs
<1>0. x \in Row /\ ref \in Tables \X Ids
  BY NextType DEF TypeOK, Row
<1>1. rows[ref[1]] \subseteq rows'[ref[1]]
  BY <1>0, RowsGrow
<1>2. CASE x \in rows[t]
  BY <1>1, <1>2 DEF RefsIntact, LegacyRefs
<1>3. ASSUME NEW u \in Tables, Import(u), x \notin rows[t]
      PROVE  \E y \in Legacy[ref[1]] :
               /\ y.id = ref[2]
               /\ Stored("legacy", {y}) \subseteq rows'[ref[1]]
  <2>1. stage # "idle" /\ Importable(u) /\ x \in Stored("legacy", New(u))
    BY <1>3, ImportIs DEF TypeOK, Import
  <2>2. PICK z \in New(u) : x.refs = z.refs
    BY <1>3, <2>1, ImportIs, StoredIs, RowIs
  <2>3. PICK w \in rows[ref[1]] : w.id = ref[2]
    BY <2>1, <2>2 DEF Importable, Occupied
  <2>4. PICK y \in Legacy[ref[1]] : w = As("legacy", y)
    BY <1>0, <2>1, OnlyLegacy
  <2>5. y.id = ref[2] /\ Stored("legacy", {y}) = {w}
    BY <2>3, <2>4 DEF Stored, As
  <2> QED
    BY <1>1, <2>5
<1>4. ASSUME NEW u \in LiveTables, NEW id \in Ids, NEW key \in Keys, Insert(u, id, key)
      PROVE  x \in rows[t]
  BY <1>4, InsertAdds
<1>5. CASE rows' = rows
  BY <1>2, <1>5
<1> QED
  BY <1>2, <1>3, <1>4, <1>5 DEF Next, vars, Start, Fail, Bump, Reserve

LEMMA NextSequence == EtlInv /\ [Next]_vars => SequenceInv'
<1> SUFFICES ASSUME EtlInv, [Next]_vars, Undisturbed, Undisturbed'
             PROVE  SequenceInv'
  BY UndisturbedBefore DEF SequenceInv, EtlInv
<1> USE DEF EtlInv
<1>o. /\ \A i \in DOMAIN Order : Order[i] \in Tables
      /\ next \in DOMAIN Order /\ DOMAIN Order = 1 .. Len(Order) /\ Len(Order) \in Nat
  BY OrderFacts DEF TypeOK
<1>u. ~ completed \/ stage # "idle" => reserved = {}
  BY DEF ProgressInv, ServicesUsed
<1>1. CASE UNCHANGED <<rows, sequence>> /\ reserved' = reserved /\ completed' = completed
           /\ \/ stage' # "bump"
              \/ stage' = stage /\ next' = next
              \/ stage' = "bump" /\ next' = 1
  <2>1. \A t \in Tables : Below(t)' = Below(t)
    BY <1>1 DEF Below
  <2>2. \A p \in reserved : Occupied(p[1], p[2])' = Occupied(p[1], p[2])
    BY <1>1 DEF Occupied
  <2>3. (stage' = "bump" /\ next' # next) \/ stage' # stage =>
          \A i \in 1 .. next' - 1 : stage' # "bump"
    BY <1>1
  <2>4. \A i \in 1 .. next - 1 : Order[i] \in Tables
    BY <1>o
  <2> QED
    BY <1>1, <2>1, <2>2, <2>3, <2>4 DEF SequenceInv
<1>2. ASSUME NEW t \in Tables, Import(t) PROVE SequenceInv'
  <2>1. /\ stage = "import" /\ UNCHANGED <<sequence, reserved, completed>>
        /\ stage' = "bump" => next' = 1
    BY <1>2 DEF Import, AfterImport
  <2>2. ~ completed => SequenceInv'
    <3>1. \A i \in 1 .. next' - 1 : stage' # "bump"
      BY <2>1
    <3> QED
      BY <2>1, <3>1 DEF SequenceInv
  <2>3. ASSUME completed PROVE rows' = rows
    <3>1. New(t) = {}
      <4> SUFFICES ASSUME NEW y \in New(t) PROVE FALSE
        OBVIOUS
      <4>1. y \in Legacy[t] /\ ~ Occupied(t, y.id)
        BY DEF New
      <4>2. As("legacy", y) \in rows[t]
        BY <2>3, <4>1 DEF ProgressInv, Done
      <4>3. As("legacy", y).id = y.id
        BY DEF As
      <4> QED
        BY <4>1, <4>2, <4>3 DEF Occupied
    <3>2. Stored("legacy", New(t)) = {}
      BY <3>1 DEF Stored
    <3>3. rows' = [rows EXCEPT ![t] = rows[t] \cup {}]
      BY <1>2, <3>2, ImportIs
    <3>4. rows[t] \cup {} = rows[t] /\ DOMAIN rows = Tables
          /\ rows = [u \in Tables |-> rows[u]]
      BY DEF TypeOK
    <3> QED
      BY <3>3, <3>4
  <2> QED
    BY <1>1, <2>1, <2>2, <2>3
<1>3. ASSUME NEW t \in Tables, Bump(t) PROVE SequenceInv'
  <2>1. /\ stage = "bump" /\ t = Order[next] /\ UNCHANGED <<rows, reserved>>
        /\ sequence' = [sequence EXCEPT ![t] = MaxIdOf(t)]
        /\ IF next < Len(Order)
           THEN stage' = "bump" /\ next' = next + 1 /\ completed' = completed
           ELSE stage' = "idle" /\ next' = 1 /\ completed' = TRUE
    BY <1>3 DEF Bump
  <2>2. Below(t)' /\ \A u \in Tables : Below(u) => Below(u)'
    BY <2>1, MaxIdExists DEF Below, TypeOK
  <2>3. reserved' = {}
    BY <1>u, <2>1
  <2>4. \A i \in 1 .. next : Below(Order[i])'
    <3> SUFFICES ASSUME NEW i \in 1 .. next PROVE Below(Order[i])'
      OBVIOUS
    <3>1. CASE i = next
      BY <2>1, <2>2, <3>1
    <3>2. CASE i # next
      <4>1. i \in 1 .. next - 1 /\ Order[i] \in Tables
        BY <1>o, <3>2
      <4> QED
        BY <2>1, <2>2, <4>1 DEF SequenceInv
    <3> QED
      BY <3>1, <3>2
  <2>5. CASE next < Len(Order)
    <3>1. stage' = "bump" /\ next' - 1 = next /\ completed' = completed
      BY <1>o, <2>1, <2>5
    <3> QED
      BY <2>2, <2>3, <2>4, <3>1 DEF SequenceInv
  <2>6. CASE ~ (next < Len(Order))
    <3>1. stage' = "idle"
      BY <2>1, <2>6
    <3>2. \A u \in Tables : Below(u)'
      <4> SUFFICES ASSUME NEW u \in Tables PROVE Below(u)'
        OBVIOUS
      <4>1. \E i \in 1 .. next : u = Order[i]
        BY <1>o, <2>6, AllBefore
      <4> QED
        BY <2>4, <4>1
    <3> QED
      BY <2>3, <3>1, <3>2 DEF SequenceInv
  <2> QED
    BY <2>5, <2>6
<1>4. ASSUME NEW t \in Tables, Reserve(t) PROVE SequenceInv'
  <2>0. PICK n : n = sequence[t] + 1
    OBVIOUS
  <2>1. /\ completed /\ stage = "idle" /\ UNCHANGED <<rows, stage, completed>>
        /\ sequence' = [sequence EXCEPT ![t] = n] /\ reserved' = reserved \cup {<<t, n>>}
    BY <1>4, <2>0 DEF Reserve, Undisturbed
  <2>2. /\ \A u \in Tables : sequence[u] \in Nat /\ sequence'[u] \in Nat
                             /\ sequence'[u] >= sequence[u]
        /\ sequence'[t] = n
    BY <2>0, <2>1 DEF TypeOK
  <2>3. \A u \in Tables : \A x \in rows[u] : x.id \in Nat
    BY DEF TypeOK, Ids
  <2>4. \A u \in Tables : Below(u)'
    BY <2>1, <2>2, <2>3 DEF SequenceInv, Below
  <2>5. ~ Occupied(t, n)'
    BY <2>0, <2>1, <2>2, <2>3 DEF SequenceInv, Below, Occupied
  <2>6. ASSUME NEW p \in reserved
        PROVE  ~ Occupied(p[1], p[2])' /\ p[2] <= sequence'[p[1]]
    <3>1. p \in Tables \X Ids /\ p[1] \in Tables /\ p[2] \in Nat
      BY DEF TypeOK, Ids
    <3>2. ~ Occupied(p[1], p[2])' /\ p[2] <= sequence[p[1]]
      BY <2>1 DEF SequenceInv, Occupied
    <3> QED
      BY <2>2, <3>1, <3>2
  <2>7. \A p \in reserved' : ~ Occupied(p[1], p[2])' /\ p[2] <= sequence'[p[1]]
    <3> SUFFICES ASSUME NEW p \in reserved'
                 PROVE  ~ Occupied(p[1], p[2])' /\ p[2] <= sequence'[p[1]]
      OBVIOUS
    <3>1. p \in reserved \/ (p[1] = t /\ p[2] = n)
      BY <2>1
    <3>2. n <= sequence'[t]
      BY <2>0, <2>2 DEF TypeOK
    <3>3. CASE p \in reserved
      BY <2>6, <3>3
    <3>4. CASE p[1] = t /\ p[2] = n
      BY <2>5, <3>2, <3>4 DEF Occupied
    <3> QED
      BY <3>1, <3>3, <3>4
  <2> QED
    BY <2>1, <2>4, <2>7 DEF SequenceInv
<1>5. ASSUME NEW t \in LiveTables, NEW id \in Ids, NEW key \in Keys, Insert(t, id, key)
      PROVE  SequenceInv'
  <2>1. /\ t \in Tables /\ <<t, id>> \in reserved /\ reserved' = reserved \ {<<t, id>>}
        /\ UNCHANGED <<sequence, stage, completed>>
        /\ Live(id, key).id = id
        /\ rows' = rows \/ rows' = [rows EXCEPT ![t] = rows[t] \cup {Live(id, key)}]
    BY <1>5, InsertIs DEF tool
  <2>2. completed /\ stage = "idle"
    BY <1>u, <2>1 DEF TypeOK
  <2>3. \A u \in Tables : \A x \in rows'[u] :
          x \in rows[u] \/ (u = t /\ x.id = id)
    BY <2>1 DEF TypeOK
  <2>4. \A u \in Tables : Below(u)'
    <3>1. id <= sequence[t]
      BY <2>1, <2>2 DEF SequenceInv
    <3> QED
      BY <2>1, <2>2, <2>3, <3>1 DEF SequenceInv, Below
  <2>5. ASSUME NEW p \in reserved'
        PROVE  ~ Occupied(p[1], p[2])' /\ p[2] <= sequence'[p[1]]
    <3>1. p \in reserved /\ p # <<t, id>> /\ p \in Tables \X Ids
      BY <2>1 DEF TypeOK
    <3>2. ~ (p[1] = t /\ p[2] = id)
      BY <3>1
    <3>3. ~ Occupied(p[1], p[2]) /\ p[2] <= sequence[p[1]]
      BY <2>2, <3>1 DEF SequenceInv
    <3> QED
      BY <2>1, <2>3, <3>1, <3>2, <3>3 DEF Occupied
  <2> QED
    BY <2>1, <2>2, <2>4, <2>5 DEF SequenceInv
<1>6. CASE Start
  BY <1>1, <1>6 DEF Start
<1>7. CASE Fail
  BY <1>1, <1>7 DEF Fail
<1>8. CASE UNCHANGED vars
  BY <1>1, <1>8 DEF vars, tool
<1> QED
  BY <1>2, <1>3, <1>4, <1>5, <1>6, <1>7, <1>8 DEF Next

LEMMA EtlInvariant == Spec => []EtlInv
<1>1. EtlInv /\ [Next]_vars => EtlInv'
  BY NextType, NextOrigin, NextProgress, NextRefs, NextSequence DEF EtlInv
<1> QED
  BY <1>1, InitEtl, PTL DEF Spec

\* Type correctness, primary keys and unique columns, for any tables.
THEOREM TypeCorrect == Spec => []TypeOK
<1>1. EtlInv => TypeOK
  BY DEF EtlInv
<1> QED
  BY <1>1, EtlInvariant, PTL

\* After a run that came to its end every legacy row is there, however many runs
\* failed before: each starts from the first table again (main.go:57-72).
THEOREM NothingLeftOut == Spec => []LegacyKept
<1>1. EtlInv => LegacyKept
  <2> SUFFICES ASSUME EtlInv, Undisturbed, completed, NEW t \in Tables
               PROVE  Stored("legacy", Legacy[t]) \subseteq rows[t]
    BY DEF LegacyKept
  <2> QED
    BY StoredIs DEF EtlInv, ProgressInv, Done
<1> QED
  BY <1>1, EtlInvariant, PTL

\* No legacy row comes to refer to another row than in the legacy database, at any
\* moment of any run.
THEOREM ReferencesKept == Spec => []RefsIntact
<1>1. EtlInv => RefsIntact
  BY DEF EtlInv
<1> QED
  BY <1>1, EtlInvariant, PTL

\* Once the tool has ended the services draw no id that is taken: the sequences
\* are moved to the largest of each table (main.go:646-658).
THEOREM ServiceIdsFree == Spec => []IdsFree
<1>1. EtlInv => IdsFree
  BY DEF EtlInv, SequenceInv, Below, IdsFree
<1> QED
  BY <1>1, EtlInvariant, PTL
=============================================================================
