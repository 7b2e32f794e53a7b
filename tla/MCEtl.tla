------------------------------- MODULE MCEtl -------------------------------
(* Instances of Etl for TLC: four of the tool's tables, one legacy row in each *)
(* (two in spds), with the references the schema has.                          *)
EXTENDS Etl

Row(i, k, refs) == [id |-> i, key |-> k, refs |-> refs]

MCOrder == <<"units", "users", "spds", "approvals">>

MCLegacy ==
  [t \in Tables |->
     CASE t = "units" -> {Row(1, "k1", {})}
       [] t = "users" -> {Row(1, "k1", {<<"units", 1>>})}
       [] t = "spds" -> {Row(1, "k1", {<<"units", 1>>, <<"users", 1>>}),
                         Row(2, "k2", {<<"users", 1>>})}
       [] t = "approvals" -> {Row(1, "k1", {<<"spds", 1>>, <<"users", 1>>})}]

\* The seed's unit and admin have the ids of a legacy unit and user.
AdminSeed ==
  [t \in Tables |->
     CASE t = "units" -> {Row(1, "k2", {})}
       [] t = "users" -> {Row(1, "k2", {})}
       [] OTHER -> {}]
=============================================================================
