-------------------------- MODULE ReportCacheProofs --------------------------
(***************************************************************************)
(* Theorems about ReportCache, for all keys and requests, and any time to  *)
(* live, latency and number of commits.                                    *)
(***************************************************************************)
EXTENDS ReportCache, TLAPS

\* Version v has been read, and was the last one at some time from t on.
Since(v, t) ==
  /\ v \in Version /\ v <= version
  /\ v # version => changedAt[v + 1] >= t

\* What a request has read so far, in the order of its reads.
ReadInv(r) ==
  \/ /\ r.todo = <<"status", "month">> /\ r.ask \in Summaries
     /\ r.parts = Unread
  \/ /\ r.todo = <<"month">> /\ r.ask \in Summaries
     /\ Since(r.parts.status, r.start) /\ r.parts.month = -1
  \/ /\ r.todo = <<"month">> /\ r.ask \in CSVs
     /\ r.parts = Unread
  \/ /\ r.todo = <<>> /\ r.ask \in Summaries
     /\ Since(r.parts.status, r.start) /\ Since(r.parts.month, r.start)
     /\ r.parts.status <= r.parts.month
  \/ /\ r.todo = <<>> /\ r.ask \in CSVs
     /\ r.parts.status = -1 /\ Since(r.parts.month, r.start)

RequestOK(r) ==
  /\ r.start <= clock /\ clock <= r.start + Latency
  /\ ReadInv(r)

RequestInv == \A q \in Requests : req[q] = Idle \/ RequestOK(req[q])

\* A stored answer was read at most Latency before it was stored.
EntryOK(e, k) ==
  /\ e.until <= clock + TTL
  /\ k \in Summaries => Since(e.parts.status, e.until - TTL - Latency)
  /\ k \in CSVs => e.parts.status = -1
  /\ Since(e.parts.month, e.until - TTL - Latency)
  /\ e.parts.status <= e.parts.month

EntryInv == \A k \in Queries : Visible(k) => EntryOK(cache[k], k)

CacheInv == TypeOK /\ RequestInv /\ EntryInv

-----------------------------------------------------------------------------
LEMMA ConstantTypes ==
  /\ TTL \in Nat /\ TTL > 0 /\ Latency \in Nat
  /\ MaxWrites \in Nat /\ MaxTime \in Nat /\ MaxOutages \in Nat
BY CacheAssumption

LEMMA BasicTypes ==
  /\ Unread \in Parts
  /\ NoEntry \in [parts : Parts, until : 0 .. MaxTime + TTL]
  /\ Idle \in [ask : Queries \cup {Nobody}, todo : Seq({"status", "month"}),
               parts : Parts, start : 0 .. MaxTime, cached : BOOLEAN]
BY ConstantTypes DEF Unread, Parts, NoEntry, Idle, Version

LEMMA InitCache == Init => CacheInv
<1> SUFFICES ASSUME Init PROVE CacheInv
  OBVIOUS
<1>1. TypeOK
  <2>1. /\ 0 \in 0 .. MaxTime /\ 0 \in Version /\ 0 \in 0 .. MaxOutages
    BY ConstantTypes DEF Version
  <2> QED
    BY <2>1, BasicTypes DEF Init, TypeOK
<1>2. RequestInv
  BY DEF Init, RequestInv
<1>3. \A k \in Queries : ~ Visible(k)
  BY DEF Init, Visible, NoEntry
<1> QED
  BY <1>1, <1>2, <1>3 DEF CacheInv, EntryInv

\* The largest of two of a part's values is one of them.
LEMMA AnswerType ==
  ASSUME NEW k \in Queries, NEW parts \in Parts, told \in [Queries -> Parts],
         Answer(k, parts)
  PROVE  told' \in [Queries -> Parts]
<1>1. [status |-> Larger(told[k].status, parts.status),
       month |-> Larger(told[k].month, parts.month)] \in Parts
  BY DEF Parts, Larger
<1> QED
  BY <1>1 DEF Answer

LEMMA NextType == TypeOK /\ [Next]_vars => TypeOK'
<1> SUFFICES ASSUME TypeOK, [Next]_vars PROVE TypeOK'
  OBVIOUS
<1> USE ConstantTypes DEF TypeOK
<1> DEFINE Request ==
      [ask : Queries \cup {Nobody}, todo : Seq({"status", "month"}),
       parts : Parts, start : 0 .. MaxTime, cached : BOOLEAN]
<1>1. ASSUME NEW k \in Queries, Hit(k) PROVE TypeOK'
  BY <1>1, AnswerType DEF Hit
<1>2. ASSUME NEW q \in Requests, NEW k \in Queries, NEW cached \in BOOLEAN,
             Miss(q, k, cached)
      PROVE  TypeOK'
  <2>1. [ask |-> k, todo |-> PartsOf(k), parts |-> Unread,
         start |-> clock, cached |-> cached] \in Request
    <3>1. PartsOf(k) \in Seq({"status", "month"})
      <4>1. <<"month">> \in Seq({"status", "month"})
        OBVIOUS
      <4>2. <<"status", "month">> \in Seq({"status", "month"})
        OBVIOUS
      <4> QED
        BY <4>1, <4>2 DEF PartsOf
    <3>2. Unread \in Parts /\ clock \in 0 .. MaxTime
      BY BasicTypes
    <3> HIDE DEF TypeOK
    <3> QED
      BY <3>1, <3>2
  <2>2. req' \in [Requests -> Request]
    BY <1>2, <2>1 DEF Miss
  <2>3. steady' \in BOOLEAN
    <3>1. steady' = (steady /\ cached /\ up /\ \A p \in Requests : req[p].ask # k)
      BY <1>2 DEF Miss
    <3> QED
      BY ONLY <3>1, Zenon
  <2>4. told' \in [Queries -> Parts]
    <3>1. told' = told \/ told' = [j \in Queries |-> Unread]
      BY <1>2 DEF Miss
    <3> QED
      BY <3>1, BasicTypes
  <2>5. UNCHANGED <<clock, version, changedAt, cache, up, outages>>
    BY <1>2 DEF Miss
  <2> QED
    BY <2>2, <2>3, <2>4, <2>5
<1>3. ASSUME NEW q \in Requests, ReadPart(q) PROVE TypeOK'
  <2>1. PICK part \in {"status", "month"} : part = Head(req[q].todo)
    BY <1>3 DEF ReadPart
  <2>2. [req[q].parts EXCEPT ![part] = version] \in Parts
    BY <2>1 DEF Parts
  <2>3. Tail(req[q].todo) \in Seq({"status", "month"})
    BY <1>3 DEF ReadPart
  <2>4. req' \in [Requests -> Request]
    BY <1>3, <2>1, <2>2, <2>3 DEF ReadPart
  <2> QED
    BY <1>3, <2>4 DEF ReadPart
<1>4. ASSUME NEW q \in Requests, Abort(q) PROVE TypeOK'
  BY <1>4, BasicTypes DEF Abort
<1>5. ASSUME NEW q \in Requests, Store(q) PROVE TypeOK'
  <2>1. req[q].ask \in Queries /\ req[q].parts \in Parts
    BY <1>5 DEF Store
  <2>2. told' \in [Queries -> Parts]
    BY <1>5, <2>1, AnswerType DEF Store
  <2>3. [parts |-> req[q].parts, until |-> clock + TTL] \in
          [parts : Parts, until : 0 .. MaxTime + TTL]
    BY <2>1
  <2>4. cache' \in [Queries -> [parts : Parts, until : 0 .. MaxTime + TTL]]
    BY <1>5, <2>1, <2>3 DEF Store
  <2> QED
    BY <1>5, <2>2, <2>4, BasicTypes DEF Store
<1>6. CASE Write
  <2>1. version' \in Version /\ version' \in 1 .. MaxWrites
    BY <1>6 DEF Write, Version
  <2>2. changedAt' \in [1 .. MaxWrites -> 0 .. MaxTime]
    BY <1>6, <2>1 DEF Write
  <2> QED
    BY <1>6, <2>1, <2>2 DEF Write
<1>7. CASE Tick
  <2>1. clock' \in 0 .. MaxTime
    BY <1>7 DEF Tick
  <2> QED
    BY <1>7, <2>1, BasicTypes DEF Tick
<1>8. CASE RedisDown
  <2>1. up' = FALSE /\ outages' \in 0 .. MaxOutages
    BY <1>8 DEF RedisDown
  <2> QED
    BY <1>8, <2>1 DEF RedisDown
<1>9. CASE RedisBack
  BY <1>9, BasicTypes DEF RedisBack
<1>10. CASE UNCHANGED vars
  BY <1>10 DEF vars
<1> HIDE DEF TypeOK
<1> QED
  BY <1>1, <1>2, <1>3, <1>4, <1>5, <1>6, <1>7, <1>8, <1>9, <1>10 DEF Next

-----------------------------------------------------------------------------
\* Reads of the past stay what they are, whoever commits next.
LEMMA SinceLasts ==
  ASSUME TypeOK, [Next]_vars, NEW v, NEW t \in Int, Since(v, t), t <= clock
  PROVE  Since(v, t)'
<1> USE ConstantTypes DEF TypeOK, Version
<1>1. CASE Write
  <2>1. /\ version' = version + 1 /\ version + 1 \in 1 .. MaxWrites
        /\ changedAt' = [changedAt EXCEPT ![version + 1] = clock]
    BY <1>1 DEF Write
  <2>2. CASE v = version
    BY <2>1, <2>2 DEF Since
  <2>3. CASE v # version
    <3>1. v + 1 # version + 1 /\ v + 1 \in 1 .. MaxWrites
      BY <2>1, <2>3 DEF Since
    <3> QED
      BY <2>1, <2>3, <3>1 DEF Since
  <2> QED
    BY <2>2, <2>3
<1>2. CASE ~ Write
  <2>1. UNCHANGED <<version, changedAt>>
    BY <1>2 DEF Next, vars, Hit, Miss, ReadPart, Abort, Store, Tick, RedisDown, RedisBack
  <2> QED
    BY <2>1 DEF Since
<1> QED
  BY <1>1, <1>2

\* What is read now was the last version now.
LEMMA ReadNow ==
  ASSUME TypeOK, NEW t
  PROVE  Since(version, t)
BY ConstantTypes DEF TypeOK, Since, Version

LEMMA RequestLasts ==
  ASSUME TypeOK, [Next]_vars, NEW r, r.start \in Nat, RequestOK(r),
         clock' = clock \/ (clock' = clock + 1 /\ clock < r.start + Latency)
  PROVE  RequestOK(r)'
<1>1. \A v : Since(v, r.start) => Since(v, r.start)'
  BY SinceLasts DEF RequestOK
<1>2. ReadInv(r)'
  BY <1>1 DEF RequestOK, ReadInv
<1>3. clock \in Nat
  BY DEF TypeOK
<1> QED
  BY <1>2, <1>3, ConstantTypes DEF RequestOK

LEMMA NextRequest == CacheInv /\ [Next]_vars => RequestInv'
<1> SUFFICES ASSUME CacheInv, [Next]_vars, NEW q \in Requests,
                    NEW r, r = req[q], NEW s, s = req'[q], s # Idle
             PROVE  RequestOK(s)'
  BY DEF RequestInv
<1> USE ConstantTypes DEF CacheInv
<1>t. clock \in Nat /\ r.start \in Nat /\ version \in Nat
  BY DEF TypeOK, Version
<1>1. CASE s = r
  <2>1. RequestOK(r)
    BY <1>1 DEF RequestInv
  <2>2. clock' = clock \/ (clock' = clock + 1 /\ clock < r.start + Latency)
    <3>1. CASE Tick
      BY <1>1, <1>t, <3>1 DEF Tick
    <3>2. CASE ~ Tick
      BY <3>2 DEF Next, vars, Hit, Miss, ReadPart, Abort, Store, Write, RedisDown,
                  RedisBack
    <3> QED
      BY <3>1, <3>2
  <2> QED
    BY <1>1, <1>t, <2>1, <2>2, RequestLasts
<1>2. CASE s # r
  <2>1. PICK p \in Requests :
          \/ \E k \in Queries, cached \in BOOLEAN : Miss(p, k, cached)
          \/ ReadPart(p) \/ Abort(p) \/ Store(p)
    BY <1>2 DEF Next, vars, Hit, Write, Tick, RedisDown, RedisBack
  <2>2. p = q /\ ~ Abort(p) /\ ~ Store(p) /\ UNCHANGED <<clock, version, changedAt>>
    BY <1>2, <2>1 DEF TypeOK, Miss, ReadPart, Abort, Store
  <2>3. ASSUME NEW k \in Queries, NEW cached \in BOOLEAN, Miss(q, k, cached)
        PROVE  RequestOK(s)
    <3>1. s = [ask |-> k, todo |-> PartsOf(k), parts |-> Unread,
               start |-> clock, cached |-> cached]
      BY <2>3 DEF Miss, TypeOK
    <3>2. ReadInv(s)
      <4>1. s.ask = k /\ s.todo = PartsOf(k) /\ s.parts = Unread
        BY <3>1
      <4> QED
        BY <4>1, CacheAssumption DEF ReadInv, PartsOf, Queries
    <3> QED
      BY <1>t, <3>1, <3>2 DEF RequestOK
  <2>4. ASSUME ReadPart(q) PROVE RequestOK(s)
    <3>1. /\ r.todo # <<>>
          /\ s = [r EXCEPT !.todo = Tail(r.todo),
                           !.parts = [r.parts EXCEPT ![Head(r.todo)] = version]]
      BY <2>4 DEF ReadPart, TypeOK
    <3>2. RequestOK(r)
      BY <3>1 DEF RequestInv, Idle
    <3>3. /\ s.start = r.start /\ s.ask = r.ask /\ s.todo = Tail(r.todo)
          /\ s.parts = [r.parts EXCEPT ![Head(r.todo)] = version]
      <4>1. r \in [ask : Queries \cup {Nobody}, todo : Seq({"status", "month"}),
                   parts : Parts, start : 0 .. MaxTime, cached : BOOLEAN]
        BY DEF TypeOK
      <4> QED
        BY <3>1, <4>1
    <3>4. \A t : Since(version, t)
      BY ReadNow
    <3>5. r.parts \in Parts
      BY DEF TypeOK
    <3>6. CASE r.todo = <<"status", "month">>
      <4>1. Head(r.todo) = "status" /\ Tail(r.todo) = <<"month">>
        BY <3>6
      <4>2. s.parts.status = version /\ s.parts.month = -1
        BY <3>2, <3>3, <3>6, <4>1 DEF RequestOK, ReadInv, Unread
      <4>3. r.ask \in Summaries
        BY <3>2, <3>6 DEF RequestOK, ReadInv
      <4>4. ReadInv(s)
        BY <3>3, <3>4, <4>1, <4>2, <4>3 DEF ReadInv
      <4> QED
        BY <3>2, <3>3, <4>4 DEF RequestOK
    <3>7. CASE r.todo = <<"month">>
      <4>1. Head(r.todo) = "month" /\ Tail(r.todo) = <<>>
        BY <3>7
      <4>2. s.parts.status = r.parts.status /\ s.parts.month = version
        BY <3>3, <3>5, <4>1 DEF Parts
      <4>3. \/ r.ask \in Summaries /\ Since(r.parts.status, r.start)
            \/ r.ask \in CSVs /\ r.parts.status = -1
        BY <3>2, <3>7 DEF RequestOK, ReadInv, Unread
      <4>4. Since(r.parts.status, r.start) => r.parts.status <= version
        BY DEF Since
      <4>5. ReadInv(s)
        BY <3>3, <3>4, <4>1, <4>2, <4>3, <4>4 DEF ReadInv
      <4> QED
        BY <3>2, <3>3, <4>5 DEF RequestOK
    <3> QED
      BY <3>1, <3>2, <3>6, <3>7 DEF RequestOK, ReadInv
  <2>5. RequestOK(s)
    BY <2>1, <2>2, <2>3, <2>4
  <2> QED
    BY <2>2, <2>5 DEF RequestOK, ReadInv, Since
<1> QED
  BY <1>1, <1>2

LEMMA NextEntry == CacheInv /\ [Next]_vars => EntryInv'
<1> SUFFICES ASSUME CacheInv, [Next]_vars, NEW k \in Queries, Visible(k)',
                    NEW e, e = cache'[k]
             PROVE  EntryOK(e, k)'
  BY DEF EntryInv
<1> USE ConstantTypes DEF CacheInv
<1>t. clock \in Nat /\ \A j \in Queries : cache[j].until \in Nat
  BY DEF TypeOK
<1>1. CASE e = cache[k] /\ clock' \in {clock, clock + 1}
  <2>1. e.until > clock
    BY <1>1, <1>t DEF Visible
  <2>2. EntryOK(e, k)
    BY <1>1, <2>1 DEF Visible, EntryInv
  <2>3. e.until - TTL - Latency \in Int /\ e.until - TTL - Latency <= clock
    BY <1>1, <1>t, <2>2 DEF EntryOK
  <2>4. \A v : Since(v, e.until - TTL - Latency) => Since(v, e.until - TTL - Latency)'
    BY <2>3, SinceLasts
  <2> QED
    BY <1>1, <1>t, <2>2, <2>4 DEF EntryOK
<1>2. ASSUME NEW q \in Requests, Store(q), cache'[k] # cache[k] PROVE EntryOK(e, k)'
  <2>1. /\ e = [parts |-> req[q].parts, until |-> clock + TTL] /\ req[q].ask = k
        /\ UNCHANGED <<clock, version, changedAt>> /\ req[q].todo = <<>>
        /\ req[q].ask # Nobody
    BY <1>2 DEF Store, TypeOK
  <2>2. RequestOK(req[q])
    BY <2>1 DEF RequestInv, Idle
  <2>3. e.parts = req[q].parts /\ e.until - TTL - Latency = clock - Latency
        /\ e.until = clock + TTL
    BY <2>1, <1>t
  <2>4. req[q].start \in Int /\ clock - Latency <= req[q].start
    BY <1>t, <2>2 DEF TypeOK, RequestOK
  <2>5. \A v : Since(v, req[q].start) => v \in Nat /\ Since(v, clock - Latency)
    <3> SUFFICES ASSUME NEW v, Since(v, req[q].start)
                 PROVE  v \in Nat /\ Since(v, clock - Latency)
      OBVIOUS
    <3>1. v \in Nat
      BY DEF Since, Version
    <3>2. v # version => v + 1 \in 1 .. MaxWrites
      BY DEF Since, Version, TypeOK
    <3>3. v # version => changedAt[v + 1] \in Nat
      BY <3>2 DEF TypeOK
    <3> QED
      BY <1>t, <2>4, <3>1, <3>3 DEF Since
  <2>6. \/ /\ k \in Summaries /\ Since(e.parts.status, req[q].start)
           /\ Since(e.parts.month, req[q].start) /\ e.parts.status <= e.parts.month
        \/ /\ k \in CSVs /\ e.parts.status = -1 /\ Since(e.parts.month, req[q].start)
    BY <2>1, <2>2, <2>3 DEF RequestOK, ReadInv
  <2>7. EntryOK(e, k)
    BY <1>t, <2>3, <2>5, <2>6, CacheAssumption DEF EntryOK
  <2> QED
    BY <2>1, <2>7 DEF EntryOK, Since
<1>3. ASSUME NEW q \in Requests, Store(q), cache'[k] = cache[k] PROVE EntryOK(e, k)'
  BY <1>1, <1>3 DEF Store
<1>4. CASE Tick
  <2>1. clock' = clock + 1 /\ cache'[k] = IF cache[k].until > clock' THEN cache[k] ELSE NoEntry
    BY <1>4 DEF Tick
  <2>2. cache'[k] # NoEntry
    BY <1>t, <2>1 DEF Visible, NoEntry
  <2> QED
    BY <1>1, <2>1, <2>2
<1>5. CASE RedisBack
  <2>1. clock' = clock /\ cache'[k] \in {cache[k], NoEntry}
    BY <1>5 DEF RedisBack
  <2>2. cache'[k] # NoEntry
    BY <1>t, <2>1 DEF Visible, NoEntry
  <2> QED
    BY <1>1, <2>1, <2>2
<1>6. CASE UNCHANGED <<cache, clock>>
  BY <1>1, <1>6
<1> QED
  BY <1>2, <1>3, <1>4, <1>5, <1>6
     DEF Next, vars, Hit, Miss, ReadPart, Abort, Write, RedisDown

LEMMA CacheInvariant == Spec => []CacheInv
<1>1. CacheInv /\ [Next]_vars => CacheInv'
  BY NextType, NextRequest, NextEntry DEF CacheInv
<1> QED
  BY <1>1, InitCache, PTL DEF Spec

\* Type correctness for any keys, requests and times.
THEOREM TypeCorrect == Spec => []TypeOK
<1>1. CacheInv => TypeOK
  BY DEF CacheInv
<1> QED
  BY <1>1, CacheInvariant, PTL

\* No answer from the cache is older than the entry's lifetime and one request,
\* whatever requests overlap and whatever Redis does (handler.go:43-62).
THEOREM NoStaleAnswers == Spec => []AnswersFresh
<1>1. CacheInv => AnswersFresh
  <2> SUFFICES ASSUME CacheInv, NEW k \in Queries, Visible(k)
               PROVE  /\ k \in Summaries =>
                           CurrentAfter(cache[k].parts.status, clock - Latency - TTL)
                      /\ CurrentAfter(cache[k].parts.month, clock - Latency - TTL)
    BY DEF AnswersFresh
  <2>1. EntryOK(cache[k], k)
    BY DEF CacheInv, EntryInv
  <2>2. cache[k].until \in Nat /\ clock \in Nat /\ cache[k].until > clock
    BY ConstantTypes DEF CacheInv, TypeOK, Visible
  <2>3. ASSUME NEW v, Since(v, cache[k].until - TTL - Latency)
        PROVE  CurrentAfter(v, clock - Latency - TTL)
    <3>1. v # version => v + 1 \in 1 .. MaxWrites
      BY <2>3, ConstantTypes DEF Since, Version, CacheInv, TypeOK
    <3>2. v # version => changedAt[v + 1] \in Nat
      BY <3>1 DEF CacheInv, TypeOK
    <3> QED
      BY <2>2, <2>3, <3>2, ConstantTypes DEF Since, CurrentAfter
  <2> QED
    BY <2>1, <2>3 DEF EntryOK
<1> QED
  BY <1>1, CacheInvariant, PTL

\* Of one stored summary, by_month is never older than by_status: they are read
\* in this order (handler.go:49-56).
THEOREM HalvesInOrder == Spec => []HalvesOrdered
<1>1. CacheInv => HalvesOrdered
  BY DEF CacheInv, EntryInv, EntryOK, HalvesOrdered
<1> QED
  BY <1>1, CacheInvariant, PTL
-----------------------------------------------------------------------------
(* Counts that never go back *)

\* No client was given a part that is newer than the table.
ToldInv ==
  \A k \in Queries :
    /\ told[k].status <= version /\ told[k].month <= version
    /\ k \in CSVs => told[k].status = -1

\* What a request has read is as new as what was told before.
NotOlder(r) ==
  LET seen == told[r.ask] IN
  /\ r.todo # <<"status", "month">> => seen.status <= r.parts.status
  /\ r.todo = <<>> => seen.month <= r.parts.month

\* While steady, a request is the only one to compute its answer, for which
\* there is no entry.
AloneInv ==
  steady =>
    \A q \in Requests :
      req[q] # Idle =>
        /\ ~ Visible(req[q].ask)
        /\ NotOlder(req[q])
        /\ \A p \in Requests : req[p] # Idle /\ req[p].ask = req[q].ask => p = q

SteadyInv == ToldInv /\ AloneInv /\ NeverBack

LEMMA InitSteady == Init => SteadyInv
<1> SUFFICES ASSUME Init PROVE SteadyInv
  OBVIOUS
<1>1. \A k \in Queries : told[k].status = -1 /\ told[k].month = -1
  BY DEF Init, Unread
<1>2. \A k \in Queries : ~ Visible(k)
  BY DEF Init, Visible, NoEntry
<1> QED
  BY <1>1, <1>2 DEF Init, SteadyInv, ToldInv, AloneInv, NeverBack

\* A client that is given parts has been told the larger of two values.
LEMMA AnswerIs ==
  ASSUME NEW k \in Queries, NEW parts \in Parts, told \in [Queries -> Parts],
         Answer(k, parts)
  PROVE  /\ \A j \in Queries : j # k => told'[j] = told[j]
         /\ told'[k] = told[k] \/
              /\ told'[k].status \in {told[k].status, parts.status}
              /\ told'[k].month \in {told[k].month, parts.month}
         /\ steady /\ told[k].status <= parts.status /\ told[k].month <= parts.month =>
              told'[k].status = parts.status /\ told'[k].month = parts.month
<1>1. CASE ~ steady
  BY <1>1 DEF Answer
<1>2. CASE steady
  <2>1. told' = [told EXCEPT ![k] =
                   [status |-> Larger(told[k].status, parts.status),
                    month |-> Larger(told[k].month, parts.month)]]
    BY <1>2 DEF Answer
  <2>2. /\ told'[k].status = Larger(told[k].status, parts.status)
        /\ told'[k].month = Larger(told[k].month, parts.month)
        /\ \A j \in Queries : j # k => told'[j] = told[j]
    BY <2>1
  <2>3. /\ told[k].status \in Int /\ parts.status \in Int
        /\ told[k].month \in Int /\ parts.month \in Int
    BY DEF Parts, Version
  <2> QED
    BY <2>2, <2>3 DEF Larger
<1> QED
  BY <1>1, <1>2

LEMMA NextTold == CacheInv /\ ToldInv /\ [Next]_vars => ToldInv'
<1> SUFFICES ASSUME CacheInv, ToldInv, [Next]_vars PROVE ToldInv'
  OBVIOUS
<1>t. /\ version \in Nat /\ told \in [Queries -> Parts]
      /\ \A k \in Queries : told[k].status \in Int /\ told[k].month \in Int
  BY DEF CacheInv, TypeOK, Version, Parts
<1>1. CASE version' \in {version, version + 1} /\ told' = told
  BY <1>t, <1>1 DEF ToldInv
<1>2. ASSUME NEW k \in Queries, NEW parts \in Parts, Answer(k, parts),
             version' = version, parts.status <= version, parts.month <= version,
             k \in CSVs => parts.status = -1
      PROVE  ToldInv'
  BY <1>t, <1>2, AnswerIs DEF ToldInv
<1>3. ASSUME NEW k \in Queries, Hit(k) PROVE ToldInv'
  <2>1. EntryOK(cache[k], k) /\ cache[k].parts \in Parts
    BY <1>3 DEF CacheInv, TypeOK, EntryInv, Hit
  <2>2. cache[k].parts.status <= version /\ cache[k].parts.month <= version
    BY <2>1, <1>t DEF EntryOK, Since, Queries, Parts, Version
  <2> QED
    BY <1>2, <1>3, <2>1, <2>2 DEF Hit, EntryOK
<1>4. ASSUME NEW q \in Requests, Store(q) PROVE ToldInv'
  <2>1. /\ RequestOK(req[q]) /\ req[q].parts \in Parts /\ req[q].ask \in Queries
        /\ req[q].todo = <<>>
    BY <1>4 DEF CacheInv, TypeOK, RequestInv, Store, Idle
  <2>2. /\ req[q].parts.status <= version /\ req[q].parts.month <= version
        /\ req[q].ask \in CSVs => req[q].parts.status = -1
    BY <2>1, <1>t, CacheAssumption DEF RequestOK, ReadInv, Since, Queries
  <2> QED
    BY <1>2, <1>4, <2>1, <2>2 DEF Store
<1>5. ASSUME NEW q \in Requests, NEW k \in Queries, NEW cached, Miss(q, k, cached)
      PROVE  ToldInv'
  <2>1. version' = version /\ (told' = told \/ told' = [j \in Queries |-> Unread])
    BY <1>5 DEF Miss
  <2> QED
    BY <1>t, <1>1, <2>1 DEF ToldInv, Unread
<1>6. CASE Write
  BY <1>1, <1>6 DEF Write
<1>7. ASSUME NEW q \in Requests, ReadPart(q) \/ Abort(q) PROVE ToldInv'
  BY <1>1, <1>7 DEF ReadPart, Abort
<1>8. CASE Tick \/ RedisDown \/ RedisBack \/ UNCHANGED vars
  BY <1>1, <1>8 DEF Tick, RedisDown, RedisBack, vars
<1> QED
  BY <1>3, <1>4, <1>5, <1>6, <1>7, <1>8 DEF Next

LEMMA NextAlone ==
  CacheInv /\ SteadyInv /\ [Next]_vars => AloneInv' /\ NeverBack'
<1> SUFFICES ASSUME CacheInv, SteadyInv, [Next]_vars, steady'
             PROVE  AloneInv' /\ NeverBack'
  BY DEF AloneInv, NeverBack
<1> USE DEF SteadyInv
<1>t. /\ clock \in Nat /\ version \in Nat /\ told \in [Queries -> Parts]
      /\ \A k \in Queries : cache[k].until \in Nat /\ cache[k].parts \in Parts
      /\ \A q \in Requests : req[q].parts \in Parts
  BY ConstantTypes DEF CacheInv, TypeOK, Version
<1>s. steady
  BY DEF Next, vars, Hit, Miss, ReadPart, Abort, Store, Write, Tick, RedisDown, RedisBack
<1>a. \A q \in Requests : req[q] # Idle => req[q].ask \in Queries
  BY DEF CacheInv, RequestInv, RequestOK, ReadInv, Queries
<1>1. ASSUME \A q \in Requests :
               \/ req'[q] = Idle
               \/ /\ req[q] # Idle /\ req'[q].ask = req[q].ask
                  /\ NotOlder(req[q]) => NotOlder(req[q])'
             ,
             told' = told,
             \A k \in Queries :
               Visible(k)' => Visible(k) /\ cache'[k].parts = cache[k].parts
      PROVE  AloneInv' /\ NeverBack'
  BY <1>1, <1>s, <1>a DEF AloneInv, NeverBack
<1>2. ASSUME NEW k \in Queries, Hit(k) PROVE AloneInv' /\ NeverBack'
  <2>1. /\ Visible(k) /\ Answer(k, cache[k].parts)
        /\ UNCHANGED <<clock, cache, req>>
    BY <1>2 DEF Hit
  <2>2. /\ \A j \in Queries : j # k => told'[j] = told[j]
        /\ told'[k].status = cache[k].parts.status
        /\ told'[k].month = cache[k].parts.month
    BY <1>t, <1>s, <2>1, AnswerIs DEF NeverBack
  <2>3. \A q \in Requests : req[q] # Idle => req[q].ask # k
    BY <1>s, <2>1 DEF AloneInv
  <2>4. NeverBack'
    <3> SUFFICES ASSUME NEW j \in Queries, Visible(j)'
                 PROVE  /\ told'[j].status <= cache'[j].parts.status
                        /\ told'[j].month <= cache'[j].parts.month
      BY DEF NeverBack
    <3>1. Visible(j)
      BY <2>1 DEF Visible
    <3>2. cache[j].parts.status \in Int /\ cache[j].parts.month \in Int
      BY <1>t DEF Parts, Version
    <3> QED
      BY <1>s, <2>1, <2>2, <3>1, <3>2 DEF NeverBack
  <2>5. \A q \in Requests : req[q] # Idle => told'[req[q].ask] = told[req[q].ask]
    BY <1>a, <2>2, <2>3
  <2>6. AloneInv'
    BY <1>s, <2>1, <2>5 DEF AloneInv, NotOlder, Visible
  <2> QED
    BY <2>4, <2>6
<1>3. ASSUME NEW q \in Requests, NEW k \in Queries, NEW cached, Miss(q, k, cached)
      PROVE  AloneInv' /\ NeverBack'
  <2>1. /\ req' = [req EXCEPT ![q] = [ask |-> k, todo |-> PartsOf(k), parts |-> Unread,
                                     start |-> clock, cached |-> cached]]
        /\ UNCHANGED <<clock, cache, told>>
        /\ ~ Visible(k) /\ \A p \in Requests : req[p].ask # k
    BY <1>3 DEF Miss
  <2>2. /\ req'[q].ask = k /\ req'[q].todo = PartsOf(k) /\ req'[q].parts = Unread
        /\ \A p \in Requests : p # q => req'[p] = req[p]
    BY <2>1 DEF CacheInv, TypeOK
  <2>3. NotOlder(req[q])'
    <3>1. k \in Summaries => PartsOf(k) = <<"status", "month">>
      BY DEF PartsOf
    <3>2. k \in CSVs => PartsOf(k) = <<"month">> /\ told[k].status = -1
      BY CacheAssumption DEF PartsOf, ToldInv
    <3>3. <<"status", "month">> # <<>> /\ <<"month">> # <<>>
      OBVIOUS
    <3> QED
      BY <2>1, <2>2, <3>1, <3>2, <3>3 DEF NotOlder, Queries, Unread
  <2>4. \A p \in Requests : p # q /\ req[p] # Idle => NotOlder(req[p])'
    BY <1>s, <2>1, <2>2 DEF AloneInv, NotOlder
  <2>5. NeverBack'
    BY <1>s, <2>1 DEF NeverBack, Visible
  <2>6. AloneInv'
    BY <1>s, <2>1, <2>2, <2>3, <2>4 DEF AloneInv, Visible
  <2> QED
    BY <2>5, <2>6
<1>4. ASSUME NEW q \in Requests, ReadPart(q) PROVE AloneInv' /\ NeverBack'
  <2> DEFINE r == req[q]
  <2>1. /\ UNCHANGED <<clock, cache, told>> /\ r.todo # <<>> /\ r # Idle
        /\ req' = [req EXCEPT ![q].todo = Tail(r.todo),
                     ![q].parts = [r.parts EXCEPT ![Head(r.todo)] = version]]
    BY <1>4 DEF ReadPart, Idle
  <2>2. /\ req'[q].ask = r.ask /\ req'[q].todo = Tail(r.todo)
        /\ req'[q].parts = [r.parts EXCEPT ![Head(r.todo)] = version]
        /\ \A p \in Requests : p # q => req'[p] = req[p]
    BY <2>1 DEF CacheInv, TypeOK
  <2>3. NotOlder(r) /\ r.ask \in Queries
    BY <1>s, <1>a, <2>1 DEF AloneInv
  <2>4. NotOlder(req[q])'
    <3>1. CASE r.todo = <<"status", "month">>
      <4>1. Head(r.todo) = "status" /\ Tail(r.todo) = <<"month">> /\ <<"month">> # <<>>
        BY <3>1
      <4>2. req'[q].parts.status = version
        BY <1>t, <2>2, <4>1 DEF Parts
      <4> QED
        BY <2>1, <2>2, <2>3, <4>1, <4>2 DEF NotOlder, SteadyInv, ToldInv
    <3>2. CASE r.todo = <<"month">>
      <4>1. Head(r.todo) = "month" /\ Tail(r.todo) = <<>> /\ r.todo # <<"status", "month">>
        BY <3>2
      <4>2. req'[q].parts.month = version /\ req'[q].parts.status = r.parts.status
        BY <1>t, <2>2, <4>1 DEF Parts
      <4> QED
        BY <2>1, <2>2, <2>3, <4>1, <4>2 DEF NotOlder, SteadyInv, ToldInv
    <3> QED
      BY <2>1, <3>1, <3>2 DEF CacheInv, RequestInv, RequestOK, ReadInv
  <2>5. \A p \in Requests : p # q => (NotOlder(req[p]) => NotOlder(req[p])')
    BY <2>1, <2>2 DEF NotOlder
  <2>6. \A k \in Queries : Visible(k)' => Visible(k) /\ cache'[k].parts = cache[k].parts
    BY <2>1 DEF Visible
  <2> HIDE DEF r
  <2>7. \A p \in Requests : p # q => req'[p] = req[p]
    BY <2>2
  <2>8. req[q] # Idle /\ req'[q].ask = req[q].ask
    BY <2>1, <2>2 DEF r
  <2>9. told' = told
    BY <2>1
  <2> QED
    BY <1>1, <2>4, <2>5, <2>6, <2>7, <2>8, <2>9
<1>5. ASSUME NEW q \in Requests, Store(q) PROVE AloneInv' /\ NeverBack'
  <2> DEFINE k == req[q].ask
  <2>1. /\ k \in Queries /\ req[q].todo = <<>> /\ req[q] # Idle
        /\ Answer(k, req[q].parts) /\ clock' = clock
        /\ req' = [req EXCEPT ![q] = Idle]
        /\ cache' = cache \/ cache' = [cache EXCEPT ![k] =
                               [parts |-> req[q].parts, until |-> clock + TTL]]
    BY <1>5, <1>a DEF Store, Idle
  <2>2. told[k].status <= req[q].parts.status /\ told[k].month <= req[q].parts.month
    <3>1. NotOlder(req[q])
      BY <1>s, <2>1 DEF AloneInv
    <3>2. <<>> # <<"status", "month">>
      OBVIOUS
    <3> QED
      BY <2>1, <3>1, <3>2 DEF NotOlder
  <2>3. /\ \A j \in Queries : j # k => told'[j] = told[j]
        /\ told'[k].status = req[q].parts.status /\ told'[k].month = req[q].parts.month
    BY <1>s, <1>t, <2>1, <2>2, AnswerIs
  <2>4. /\ \A j \in Queries : j # k => cache'[j] = cache[j]
        /\ cache'[k] = cache[k] \/ cache'[k].parts = req[q].parts
    BY <2>1 DEF CacheInv, TypeOK
  <2>5. ~ Visible(k) /\ \A p \in Requests : req[p] # Idle /\ p # q => req[p].ask # k
    BY <1>s, <2>1 DEF AloneInv
  <2>6. req'[q] = Idle /\ \A p \in Requests : p # q => req'[p] = req[p]
    BY <2>1 DEF CacheInv, TypeOK
  <2>7. req[q].parts.status \in Int /\ req[q].parts.month \in Int
    BY <1>t DEF Parts, Version
  <2> HIDE DEF k
  <2>8. NeverBack'
    <3> SUFFICES ASSUME NEW j \in Queries, Visible(j)'
                 PROVE  /\ told'[j].status <= cache'[j].parts.status
                        /\ told'[j].month <= cache'[j].parts.month
      BY DEF NeverBack
    <3>1. CASE j = k
      BY <2>1, <2>3, <2>4, <2>5, <2>7, <3>1 DEF Visible
    <3>2. CASE j # k
      BY <1>s, <2>1, <2>3, <2>4, <3>2 DEF Visible, NeverBack
    <3> QED
      BY <3>1, <3>2
  <2>9. ASSUME NEW p \in Requests, req'[p] # Idle
        PROVE  /\ p # q /\ req'[p] = req[p] /\ req[p] # Idle /\ req[p].ask # k
               /\ told'[req[p].ask] = told[req[p].ask]
               /\ cache'[req[p].ask] = cache[req[p].ask]
    BY <1>a, <2>3, <2>4, <2>5, <2>6, <2>9
  <2>10. AloneInv'
    <3> SUFFICES ASSUME NEW p \in Requests, req'[p] # Idle
                 PROVE  /\ ~ Visible(req[p].ask)' /\ NotOlder(req[p])'
                        /\ \A x \in Requests :
                             req'[x] # Idle /\ req'[x].ask = req'[p].ask => x = p
      BY DEF AloneInv
    <3>1. ~ Visible(req[p].ask) /\ NotOlder(req[p])
      BY <1>s, <2>9 DEF AloneInv
    <3>2. ~ Visible(req[p].ask)'
      BY <2>1, <2>9, <3>1 DEF Visible
    <3>3. NotOlder(req[p])'
      BY <2>9, <3>1 DEF NotOlder
    <3> QED
      BY <1>s, <2>9, <3>2, <3>3 DEF AloneInv
  <2> QED
    BY <2>8, <2>10
<1>6. ASSUME NEW q \in Requests, Abort(q) PROVE AloneInv' /\ NeverBack'
  <2>1. /\ UNCHANGED <<clock, cache, told>> /\ req' = [req EXCEPT ![q] = Idle]
    BY <1>6 DEF Abort
  <2> QED
    BY <1>1, <2>1 DEF NotOlder, Visible, CacheInv, TypeOK
<1>7. CASE Tick
  <2>1. /\ UNCHANGED <<req, told>> /\ clock' = clock + 1
        /\ \A k \in Queries :
             cache'[k] = IF cache[k].until > clock' THEN cache[k] ELSE NoEntry
    BY <1>7 DEF Tick
  <2>2. \A k \in Queries : Visible(k)' => Visible(k) /\ cache'[k].parts = cache[k].parts
    BY <1>t, <2>1 DEF Visible, NoEntry
  <2> QED
    BY <1>1, <2>1, <2>2 DEF NotOlder
<1>8. CASE RedisBack
  <2>1. /\ UNCHANGED <<clock, req, told>>
        /\ \A k \in Queries : cache'[k] \in {cache[k], NoEntry}
    BY <1>8 DEF RedisBack
  <2>2. \A k \in Queries : Visible(k)' => Visible(k) /\ cache'[k].parts = cache[k].parts
    BY <1>t, <2>1 DEF Visible, NoEntry
  <2> QED
    BY <1>1, <2>1, <2>2 DEF NotOlder
<1>9. CASE Write \/ RedisDown \/ UNCHANGED vars
  <2>1. UNCHANGED <<clock, cache, req, told>>
    BY <1>9 DEF Write, RedisDown, vars
  <2> QED
    BY <1>1, <2>1 DEF NotOlder, Visible
<1> QED
  BY <1>2, <1>3, <1>4, <1>5, <1>6, <1>7, <1>8, <1>9 DEF Next

\* As long as no two requests compute one answer at a time and none has to do
\* without Redis, no user sees counts go back: an answer that is computed has been
\* read after the last entry was gone (handler.go:43-62).
THEOREM CountsNeverGoBack == Spec => []NeverBack
<1> DEFINE Inv == CacheInv /\ SteadyInv
<1>1. Init => Inv
  BY InitCache, InitSteady
<1>2. Inv /\ [Next]_vars => Inv'
  BY NextType, NextRequest, NextEntry, NextTold, NextAlone DEF CacheInv, SteadyInv
<1>3. Inv => NeverBack
  BY DEF SteadyInv
<1> QED
  BY <1>1, <1>2, <1>3, PTL DEF Spec
=============================================================================
