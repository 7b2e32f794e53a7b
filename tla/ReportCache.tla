---------------------------- MODULE ReportCache ----------------------------
(***************************************************************************)
(* GET /reports/spds/summary and .../summary.csv of reporting-service.     *)
(*                                                                         *)
(* An answer is looked up in Redis; on a miss it is computed by one read   *)
(* of table spds per part, each in a transaction of its own, stored for    *)
(* TTL and given to the client.  Nothing invalidates an entry when an SPD  *)
(* changes, and nothing keeps two requests from filling it at once.        *)
(*                                                                         *)
(* The table is abstracted to its version: the number of commits that      *)
(* changed its counts.  A part of an answer is the version it was read at. *)
(***************************************************************************)
EXTENDS Integers, Sequences, FiniteSets

CONSTANTS
  Summaries,   \* cache keys "summary": a user in a role, and a number of months
  CSVs,        \* cache keys "summarycsv"
  Nobody,      \* no query
  Requests,    \* bound: requests in flight
  Started,     \* how replicas started: with Redis (TRUE), without (FALSE)
  TTL,         \* how long an entry lives (15 s), in ticks
  Latency,     \* how long a request takes at most, in ticks
  MaxWrites,   \* bound: commits to table spds
  MaxTime,     \* bound: ticks
  MaxOutages   \* bound: how often Redis goes away

ASSUME CacheAssumption ==
  /\ Nobody \notin Summaries \cup CSVs
  /\ Summaries \cap CSVs = {}
  /\ Started \subseteq BOOLEAN
  /\ TTL \in Nat \ {0}
  /\ Latency \in Nat /\ MaxWrites \in Nat /\ MaxTime \in Nat /\ MaxOutages \in Nat

VARIABLES
  clock,
  version,     \* version of table spds
  changedAt,   \* history: [1..MaxWrites -> when the table got this version]
  cache,       \* Redis: [Queries -> entry], until its time is over
  up,          \* does Redis answer?
  outages,     \* how often it went away so far
  req,         \* [Requests -> the request in flight, or Idle]
  told,        \* history: [Queries -> the newest parts a client was given],
               \* kept while steady
  steady       \* history: no request had to do without Redis, and no two have
               \* computed one answer at the same time

vars == <<clock, version, changedAt, cache, up, outages, req, told, steady>>

\* What may be asked, and the key its answer is stored under.
Queries == Summaries \cup CSVs

Version == 0 .. MaxWrites

\* What an answer consists of; -1 is a part it does not have, or not yet.
Parts == [status : Version \cup {-1}, month : Version \cup {-1}]
Unread == [status |-> -1, month |-> -1]

\* Variant: by_month is read first.
PartsSwapped(k) ==
  IF k \in Summaries THEN <<"month", "status">> ELSE <<"month">>

\* The parts of an answer in the order the handlers read them.
PartsOf(k) ==
  IF k \in Summaries THEN <<"status", "month">> ELSE <<"month">>

NoEntry == [parts |-> Unread, until |-> 0]

Visible(k) == cache[k].until > clock

Idle ==
  [ask |-> Nobody, todo |-> <<>>, parts |-> Unread, start |-> 0, cached |-> FALSE]

Init ==
  /\ clock = 0
  /\ version = 0
  /\ changedAt = [v \in 1 .. MaxWrites |-> 0]
  /\ cache = [k \in Queries |-> NoEntry]
  /\ up = TRUE
  /\ outages = 0
  /\ req = [q \in Requests |-> Idle]
  /\ told = [k \in Queries |-> Unread]
  /\ steady = TRUE

-----------------------------------------------------------------------------
(* The handlers *)

Larger(a, b) == IF a > b THEN a ELSE b

\* The client is given parts.
Answer(k, parts) ==
  told' = IF steady
          THEN [told EXCEPT ![k] = [status |-> Larger(@.status, parts.status),
                                    month |-> Larger(@.month, parts.month)]]
          ELSE told

\* The entry is there: it is sent as it is.
Hit(k) ==
  /\ TRUE \in Started
  /\ up /\ Visible(k)
  /\ Answer(k, cache[k].parts)
  /\ UNCHANGED <<clock, version, changedAt, cache, up, outages, req, steady>>

\* There is no entry, Redis does not answer, or it did not when the replica
\* started (a nil cache): the answer is computed.
Miss(q, k, cached) ==
  /\ cached \in Started
  /\ req[q] = Idle
  /\ ~ cached \/ ~ up \/ ~ Visible(k)
  /\ req' = [req EXCEPT ![q] =
       [ask |-> k, todo |-> PartsOf(k), parts |-> Unread,
        start |-> clock, cached |-> cached]]
  /\ steady' = (steady /\ cached /\ up /\ \A p \in Requests : req[p].ask # k)
  /\ told' = IF steady' THEN told ELSE [j \in Queries |-> Unread]
  /\ UNCHANGED <<clock, version, changedAt, cache, up, outages>>

\* SPDCountsByStatus or SPDMonthlyCounts, each a transaction of its own.
ReadPart(q) ==
  /\ req[q].todo # <<>>
  /\ req' = [req EXCEPT ![q].todo = Tail(@),
                        ![q].parts = [@ EXCEPT ![Head(req[q].todo)] = version]]
  /\ UNCHANGED <<clock, version, changedAt, cache, up, outages, told, steady>>

\* Variant: the error of a read is not looked at.
AbortStores(q) ==
  LET k == req[q].ask IN
  /\ req[q].todo # <<>>
  /\ req' = [req EXCEPT ![q] = Idle]
  /\ Answer(k, req[q].parts)
  /\ cache' = IF up /\ req[q].cached
              THEN [cache EXCEPT ![k] =
                      [parts |-> req[q].parts, until |-> clock + TTL]]
              ELSE cache
  /\ UNCHANGED <<clock, version, changedAt, up, outages, steady>>

\* A read fails: 500, and nothing is stored.
Abort(q) ==
  /\ req[q].todo # <<>>
  /\ req' = [req EXCEPT ![q] = Idle]
  /\ UNCHANGED <<clock, version, changedAt, cache, up, outages, told, steady>>

\* Variant: entries live on.
StoreForever(q) ==
  LET k == req[q].ask IN
  /\ k # Nobody /\ req[q].todo = <<>>
  /\ req' = [req EXCEPT ![q] = Idle]
  /\ Answer(k, req[q].parts)
  /\ cache' = IF up /\ req[q].cached
              THEN [cache EXCEPT ![k] =
                      [parts |-> req[q].parts, until |-> MaxTime + TTL]]
              ELSE cache
  /\ UNCHANGED <<clock, version, changedAt, up, outages, steady>>

\* SetJSON or Set, whose error is dropped, and the answer.  Nothing is looked
\* at that another request may have stored meanwhile.
Store(q) ==
  LET k == req[q].ask IN
  /\ k # Nobody /\ req[q].todo = <<>>
  /\ req' = [req EXCEPT ![q] = Idle]
  /\ Answer(k, req[q].parts)
  /\ cache' = IF up /\ req[q].cached
              THEN [cache EXCEPT ![k] =
                      [parts |-> req[q].parts, until |-> clock + TTL]]
              ELSE cache
  /\ UNCHANGED <<clock, version, changedAt, up, outages, steady>>

-----------------------------------------------------------------------------
(* The world around them *)

\* Another service commits a change that the counts show.
Write ==
  /\ version < MaxWrites
  /\ version' = version + 1
  /\ changedAt' = [changedAt EXCEPT ![version'] = clock]
  /\ UNCHANGED <<clock, cache, up, outages, req, told, steady>>

\* Time passes, for no request longer than Latency.  Redis drops an entry whose
\* time is over.
Tick ==
  /\ clock < MaxTime
  /\ \A q \in Requests : req[q] # Idle => clock - req[q].start < Latency
  /\ clock' = clock + 1
  /\ cache' = [k \in Queries |->
                 IF cache[k].until > clock' THEN cache[k] ELSE NoEntry]
  /\ UNCHANGED <<version, changedAt, up, outages, req, told, steady>>

RedisDown ==
  /\ up /\ outages < MaxOutages
  /\ up' = FALSE
  /\ outages' = outages + 1
  /\ UNCHANGED <<clock, version, changedAt, cache, req, told, steady>>

\* It comes back with its entries, or was restarted without them.
RedisBack ==
  /\ ~ up
  /\ up' = TRUE
  /\ cache' \in {cache, [k \in Queries |-> NoEntry]}
  /\ UNCHANGED <<clock, version, changedAt, outages, req, told, steady>>

Next ==
  \/ \E k \in Queries : Hit(k)
  \/ \E q \in Requests : \E k \in Queries, cached \in BOOLEAN : Miss(q, k, cached)
  \/ \E q \in Requests : ReadPart(q) \/ Abort(q) \/ Store(q)
  \/ Write \/ Tick \/ RedisDown \/ RedisBack

Spec == Init /\ [][Next]_vars

-----------------------------------------------------------------------------
(* Properties *)

TypeOK ==
  /\ clock \in 0 .. MaxTime
  /\ version \in Version
  /\ changedAt \in [1 .. MaxWrites -> 0 .. MaxTime]
  /\ cache \in [Queries -> [parts : Parts, until : 0 .. MaxTime + TTL]]
  /\ up \in BOOLEAN
  /\ outages \in 0 .. MaxOutages
  /\ req \in [Requests -> [ask : Queries \cup {Nobody},
                           todo : Seq({"status", "month"}), parts : Parts,
                           start : 0 .. MaxTime, cached : BOOLEAN]]
  /\ told \in [Queries -> Parts]
  /\ steady \in BOOLEAN

\* Was version v of the table still the last one at some time after t?
CurrentAfter(v, t) ==
  v \in Version /\ (v # version => changedAt[v + 1] > t)

\* What a hit may send: every part was the truth at most Latency + TTL ago,
\* whatever requests overlap and whatever Redis does (handler.go:43-62).  The
\* 15 s of an entry alone do not bound it: its counts may be as old as the
\* request that stored them was slow.
AnswersFresh ==
  \A k \in Queries : Visible(k) =>
    LET parts == cache[k].parts IN
    /\ k \in Summaries => CurrentAfter(parts.status, clock - Latency - TTL)
    /\ CurrentAfter(parts.month, clock - Latency - TTL)

\* by_status and by_month of one summary may differ by the changes committed
\* between their reads; then by_month is the newer one, in a stored answer as
\* in one just computed (handler.go:49-56).
HalvesOrdered ==
  \A k \in Queries :
    Visible(k) => cache[k].parts.status <= cache[k].parts.month

\* A user does not see counts go back, as long as nothing made two requests
\* compute one answer at a time and no request had to do without Redis.  Each
\* of the two breaks it: the last to store wins, whatever it read.
NeverBack ==
  steady =>
    \A k \in Queries : Visible(k) =>
      /\ told[k].status <= cache[k].parts.status
      /\ told[k].month <= cache[k].parts.month
=============================================================================
