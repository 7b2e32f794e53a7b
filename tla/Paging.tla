------------------------------- MODULE Paging -------------------------------
(***************************************************************************)
(* A client reads a table page by page while rows are being inserted:      *)
(* GET /spds of spd-service and GET /audit/logs of audit-service.  Both    *)
(* order by a time stamp, newest first, and cut out LIMIT rows at OFFSET,  *)
(* each page in a transaction of its own.  The client asks for the next    *)
(* page at the offset the answer names plus its limit, until a page is not *)
(* full.                                                                   *)
(*                                                                         *)
(* The stamp is not the order of commits: of an SPD it is the time its     *)
(* transaction began, of an audit log the time in the event.  Imported     *)
(* rows carry the stamps of the legacy files, which may be equal.          *)
(***************************************************************************)
EXTENDS Integers, Sequences, FiniteSets

CONSTANTS
  Rows,        \* identities of rows
  Old,         \* the rows that may be there when the client begins
  Stamp,       \* [Rows -> created_at or timestamp]
  Hidden,      \* SPDs the policy spds_select hides, logs the filters exclude
  Broken,      \* SPDs with a column that does not decrypt (imported NULLs)
  MaxLimit,    \* the largest limit the handlers grant (100, 500)
  MaxOffset,   \* the largest offset the handlers grant (10 000, 100 000)
  Limits       \* limits that clients ask for

ASSUME PagingAssumption ==
  /\ Old \subseteq Rows /\ Hidden \subseteq Rows /\ Broken \subseteq Rows
  /\ IsFiniteSet(Rows)
  /\ Stamp \in [Rows -> Int]
  /\ MaxLimit \in Nat \ {0} /\ MaxOffset \in Nat
  /\ Limits \subseteq Int

VARIABLES
  table,       \* which table is read: "spds" or "audit_logs"
  start,       \* history: the rows that are there when the client begins
  present,     \* the rows committed so far
  limit,       \* what the client asks for with every page
  offset,      \* and for the next one
  seen,        \* the rows it has been given
  state        \* "reading", "done", or "failed"

pagingVars == <<table, start, present, limit, offset, seen, state>>

\* clampInt.
Clamp(v, lo, hi) == IF v < lo THEN lo ELSE IF v > hi THEN hi ELSE v

\* The rows a query selects: what the policy lets through, or the filters.
Selected == present \ Hidden

Smaller(a, b) == IF a < b THEN a ELSE b

\* Variant: without ORDER BY.
AnyOf(n) == { T \in SUBSET Selected : Cardinality(T) = Smaller(n, Cardinality(Selected)) }

\* What may come first in the order of a query, newest first: PostgreSQL puts
\* rows with one stamp in any order, and in another one for another LIMIT.
Newest(n) ==
  { T \in SUBSET Selected :
      /\ Cardinality(T) = Smaller(n, Cardinality(Selected))
      /\ \A a \in T, b \in Selected \ T : Stamp[a] >= Stamp[b] }

\* The pages the query may return: LIMIT lim OFFSET off.
Pages(lim, off) ==
  UNION { { upTo \ before : upTo \in { u \in Newest(off + lim) : before \subseteq u } } :
          before \in Newest(off) }

PagingInit ==
  /\ table \in {"spds", "audit_logs"}
  /\ start \in SUBSET Old
  /\ present = start
  /\ limit \in Limits
  /\ offset = 0
  /\ seen = {}
  /\ state = "reading"

\* A row is committed.
Insert(r) ==
  /\ r \in Rows \ present
  /\ present' = present \cup {r}
  /\ UNCHANGED <<table, start, limit, offset, seen, state>>

\* Variant: the next page is asked for at the offset of this one.
TakeAgain(page, lim, off) ==
  /\ seen' = seen \cup page
  /\ IF Cardinality(page) < lim
     THEN state' = "done" /\ UNCHANGED offset
     ELSE offset' = off /\ UNCHANGED state

\* The client takes a page and goes on behind it, or is done.
Take(page, lim, off) ==
  /\ seen' = seen \cup page
  /\ IF Cardinality(page) < lim
     THEN state' = "done" /\ UNCHANGED offset
     ELSE offset' = off + lim /\ UNCHANGED state

\* GET /spds.  One row that does not decrypt fails the whole page (500).
ListSPDs ==
  LET lim == Clamp(limit, 1, MaxLimit)
      off == Clamp(offset, 0, MaxOffset)
  IN
  /\ table = "spds"
  /\ state = "reading"
  /\ \E page \in Pages(lim, off) :
       IF page \cap Broken # {}
       THEN state' = "failed" /\ UNCHANGED <<offset, seen>>
       ELSE Take(page, lim, off)
  /\ UNCHANGED <<table, start, present, limit>>

\* GET /audit/logs.
QueryLogs ==
  LET lim == Clamp(limit, 1, MaxLimit)
      off == Clamp(offset, 0, MaxOffset)
  IN
  /\ table = "audit_logs"
  /\ state = "reading"
  /\ \E page \in Pages(lim, off) : Take(page, lim, off)
  /\ UNCHANGED <<table, start, present, limit>>

PagingNext == ListSPDs \/ QueryLogs \/ \E r \in Rows : Insert(r)

PagingSpec == PagingInit /\ [][PagingNext]_pagingVars

\* The client goes on asking.
PagingFairSpec == PagingSpec /\ WF_pagingVars(ListSPDs) /\ WF_pagingVars(QueryLogs)

-----------------------------------------------------------------------------
(* Properties *)

PagingTypeOK ==
  /\ table \in {"spds", "audit_logs"}
  /\ start \subseteq Old
  /\ present \subseteq Rows
  /\ limit \in Limits
  /\ offset \in 0 .. MaxOffset + MaxLimit
  /\ seen \subseteq Rows
  /\ state \in {"reading", "done", "failed"}

\* A client that comes to the end has been given every row that was there when
\* it began and has no other row with its stamp, whatever was inserted
\* meanwhile, wherever: rows only move to later pages (repo.go:75-102 of
\* spd-service, repo.go:68-125 of audit-service).  Rows with one stamp may be
\* given twice in place of each other.
NothingSkipped ==
  state = "done" =>
    \A r \in start \ Hidden :
      (\A o \in Selected \ {r} : Stamp[o] # Stamp[r]) => r \in seen

\* And it does come to the end, or to a page that fails, unless the table has
\* outgrown the last offset the handlers grant: then it is given the page at
\* that offset for ever (handler.go:116-143 of spd-service).
EndsUnlessOutgrown ==
  <>(state # "reading" \/ Cardinality(Selected) >= MaxOffset + Clamp(limit, 1, MaxLimit))
=============================================================================
