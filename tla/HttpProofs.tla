----------------------------- MODULE HttpProofs -----------------------------
(***************************************************************************)
(* Theorems about what a client meets at the HTTP border of the services:  *)
(* RateLimit, for every number of clients, replicas and restarts and every *)
(* window, and Paging, for every table, order of commits and limit.        *)
(***************************************************************************)
EXTENDS RateLimit, Paging, FiniteSetTheorems, TLAPS

-----------------------------------------------------------------------------
(* RateLimit: one counter *)

\* A counter has a count as long as it has time left.
Consistent(e) == e \in Counter /\ (e.hits = 0 <=> e.ttl = 0)

LEMMA NoCounterConsistent == Consistent(NoCounter)
BY RateAssumption DEF Consistent, Counter, NoCounter

\* What a hit does to a counter: it opens a window or counts up in the one open.
LEMMA HitCounts ==
  ASSUME NEW e, Consistent(e)
  PROVE  /\ Consistent(Hit(e))
         /\ Hit(e).hits >= 1
         /\ Hit(e).ttl = (IF e.ttl = 0 THEN Window ELSE e.ttl)
         /\ Hit(e).hits = 1 => e.ttl = 0
         /\ e.ttl # 0 => e.hits <= Hit(e).hits
         /\ e.ttl # 0 /\ Hit(e).hits <= MaxHits => e.hits < Hit(e).hits
<1>1. /\ MaxHits \in Nat \ {0} /\ Window \in Nat \ {0}
      /\ e.hits \in 0 .. MaxHits + 1 /\ e.ttl \in 0 .. Window
      /\ e = [hits |-> e.hits, ttl |-> e.ttl]
  BY RateAssumption DEF Consistent, Counter
<1>2. CASE e.ttl = 0
  BY <1>1, <1>2 DEF Hit, Consistent, Counter
<1>3. CASE e.ttl # 0 /\ e.hits > MaxHits
  <2>1. Hit(e) = e
    BY <1>1, <1>3 DEF Hit
  <2> QED
    BY <1>1, <1>3, <2>1 DEF Consistent
<1>4. CASE e.ttl # 0 /\ e.hits <= MaxHits
  <2>1. Hit(e) = [hits |-> e.hits + 1, ttl |-> e.ttl]
    BY <1>1, <1>4 DEF Hit
  <2> QED
    BY <1>1, <1>4, <2>1 DEF Consistent, Counter
<1> QED
  BY <1>1, <1>2, <1>3, <1>4

LEMMA AgedConsistent ==
  ASSUME NEW e, Consistent(e)
  PROVE  Consistent(Aged(e))
<1>1. /\ MaxHits \in Nat \ {0} /\ Window \in Nat \ {0}
      /\ e.hits \in 0 .. MaxHits + 1 /\ e.ttl \in 0 .. Window
      /\ e = [hits |-> e.hits, ttl |-> e.ttl]
  BY RateAssumption DEF Consistent, Counter
<1>2. CASE e.ttl <= 1
  BY <1>2, NoCounterConsistent DEF Aged
<1>3. CASE e.ttl > 1
  <2>1. Aged(e) = [hits |-> e.hits, ttl |-> e.ttl - 1]
    BY <1>1, <1>3 DEF Aged
  <2> QED
    BY <1>1, <1>3, <2>1 DEF Consistent, Counter
<1> QED
  BY <1>1, <1>2, <1>3

-----------------------------------------------------------------------------
(* RateLimit: types *)

\* The number of an admission in its tick is small because the set of them is.
RateInv ==
  /\ TypeOK
  /\ \A c \in Clients : IsFiniteSet(recent[c])

\* An admission is one more element of a finite set.
LEMMA AdmitType ==
  ASSUME RateInv, NEW c \in Clients, NEW s \in Store, NEW e \in Counter,
         e.hits <= MaxHits, Cardinality(Now(c)) < Burst, Admit(c, s, e)
  PROVE  /\ recent' \in [Clients -> SUBSET Admission]
         /\ \A d \in Clients : IsFiniteSet(recent'[d])
<1> DEFINE n == Cardinality(NowBy(c, s))
           a == [store |-> s, age |-> 0, nth |-> n + 1,
                 hits |-> e.hits, ttl |-> e.ttl]
<1>1. n \in Nat /\ n < Burst
  <2>1. IsFiniteSet(Now(c)) /\ IsFiniteSet(recent[c])
    BY FS_Subset DEF RateInv, Now
  <2>2. NowBy(c, s) \subseteq Now(c)
    BY DEF NowBy
  <2>3. IsFiniteSet(NowBy(c, s)) /\ n <= Cardinality(Now(c))
    BY <2>1, <2>2, FS_Subset
  <2>4. n \in Nat /\ Cardinality(Now(c)) \in Nat /\ Burst \in Nat
    BY <2>1, <2>3, FS_CardinalityType, RateAssumption
  <2> QED
    BY <2>3, <2>4
<1>2. a \in Admission
  BY <1>1, RateAssumption DEF Admission, Counter
<1>3. recent' = [recent EXCEPT ![c] = @ \cup {a}]
  BY DEF Admit
<1> HIDE DEF a
<1>4. recent \in [Clients -> SUBSET Admission]
  BY DEF RateInv, TypeOK
<1>5. ASSUME NEW d \in Clients PROVE IsFiniteSet(recent'[d])
  <2>1. recent'[d] = recent[d] \/ recent'[d] = recent[d] \cup {a}
    BY <1>3, <1>4
  <2> QED
    BY <2>1, FS_AddElement DEF RateInv
<1> QED
  BY <1>2, <1>3, <1>4, <1>5

\* What is a tick older is still recent, and no more than before.
LEMMA OlderType ==
  ASSUME NEW A \in SUBSET Admission, IsFiniteSet(A)
  PROVE  Older(A) \subseteq Admission /\ IsFiniteSet(Older(A))
<1> DEFINE K == { b \in A : b.age + 1 < Window }
           f == [a \in K |-> [a EXCEPT !.age = @ + 1]]
<1>1. IsFiniteSet(K)
  BY FS_Subset
<1>2. Older(A) = { f[a] : a \in K }
  BY DEF Older
<1>3. f \in Surjection(K, Older(A))
  BY <1>2 DEF Surjection
<1>4. IsFiniteSet(Older(A))
  BY <1>1, <1>3, FS_Surjection
<1>5. ASSUME NEW a \in K PROVE [a EXCEPT !.age = @ + 1] \in Admission
  BY <1>5, RateAssumption DEF Admission
<1> QED
  BY <1>2, <1>4, <1>5 DEF Older

LEMMA InitRate == Init => RateInv
<1> SUFFICES ASSUME Init PROVE RateInv
  OBVIOUS
<1>1. \A r \in Replicas : (IF redisUp THEN Redis ELSE <<r, 0>>) \in Store
  BY RateAssumption DEF Store
<1>2. /\ redisUp \in BOOLEAN /\ store \in [Replicas -> Store]
      /\ stores \subseteq Store
      /\ outages \in 0 .. MaxOutages /\ restarts \in 0 .. MaxRestarts
  <2>1. store \in [Replicas -> Store] /\ stores \subseteq Store
    BY <1>1 DEF Init
  <2>2. outages \in 0 .. MaxOutages /\ restarts \in 0 .. MaxRestarts
    BY RateAssumption DEF Init
  <2> QED
    BY <2>1, <2>2 DEF Init
<1>3. /\ redis \in [Clients -> Counter]
      /\ local \in [Replicas -> [Clients -> Counter]]
      /\ \A c \in Clients : redis[c] = NoCounter
      /\ \A r \in Replicas, c \in Clients : local[r][c] = NoCounter
  BY NoCounterConsistent DEF Init, Consistent
<1>4. \A c \in Clients : recent[c] = {} /\ IsFiniteSet(recent[c])
  BY FS_EmptySet DEF Init
<1>5. recent \in [Clients -> SUBSET Admission]
  BY DEF Init
<1> QED
  BY <1>2, <1>3, <1>4, <1>5 DEF RateInv, TypeOK, NoCounter

\* The counters, by name.
LEMMA CountersConsistent ==
  ASSUME TypeOK
  PROVE  /\ \A c \in Clients : Consistent(redis[c])
         /\ \A r \in Replicas, c \in Clients : Consistent(local[r][c])
BY DEF TypeOK, Consistent

LEMMA AnswerType ==
  ASSUME RateInv, NEW c \in Clients, NEW s \in Store, NEW e \in Counter,
         Cardinality(Now(c)) < Burst, Answer(c, s, e)
  PROVE  /\ recent' \in [Clients -> SUBSET Admission]
         /\ \A d \in Clients : IsFiniteSet(recent'[d])
<1>1. CASE e.hits <= MaxHits
  BY <1>1, AdmitType DEF Answer
<1>2. CASE ~ (e.hits <= MaxHits)
  BY <1>2 DEF Answer, RateInv, TypeOK
<1> QED
  BY <1>1, <1>2

LEMMA NextRate == RateInv /\ [Next]_vars => RateInv'
<1> SUFFICES ASSUME RateInv, [Next]_vars PROVE RateInv'
  OBVIOUS
<1>t. TypeOK /\ Redis \in Store
  BY DEF RateInv, Store
<1>c. /\ \A c \in Clients : Consistent(redis[c])
      /\ \A r \in Replicas, c \in Clients : Consistent(local[r][c])
  BY <1>t, CountersConsistent
<1> DEFINE Recent ==
             /\ recent \in [Clients -> SUBSET Admission]
             /\ \A c \in Clients : IsFiniteSet(recent[c])
           InRedis ==
             /\ redis \in [Clients -> Counter]
             /\ \A c \in Clients : redis[c].hits = 0 <=> redis[c].ttl = 0
           InMemory ==
             /\ local \in [Replicas -> [Clients -> Counter]]
             /\ \A r \in Replicas, c \in Clients :
                  local[r][c].hits = 0 <=> local[r][c].ttl = 0
           Where ==
             /\ redisUp \in BOOLEAN /\ store \in [Replicas -> Store]
             /\ stores \subseteq Store
             /\ outages \in 0 .. MaxOutages /\ restarts \in 0 .. MaxRestarts
<1>p. Recent /\ InRedis /\ InMemory /\ Where
  BY DEF RateInv, TypeOK
<1>q. Recent' /\ InRedis' /\ InMemory' /\ Where' => RateInv'
  BY DEF RateInv, TypeOK
<1>1. ASSUME NEW r \in Replicas, NEW c \in Clients, RequestRedis(r, c)
      PROVE  RateInv'
  <2>1. Consistent(Hit(redis[c]))
    BY <1>c, HitCounts
  <2>2. Recent'
    BY <1>1, <1>t, <2>1, AnswerType DEF RequestRedis, Consistent
  <2>3. InRedis'
    BY <1>1, <1>p, <2>1 DEF RequestRedis, Consistent
  <2> QED
    BY <1>1, <1>p, <1>q, <2>2, <2>3 DEF RequestRedis, history
<1>2. ASSUME NEW r \in Replicas, NEW c \in Clients, RequestOpen(r, c)
      PROVE  RateInv'
  <2>1. NoCounter \in Counter /\ NoCounter.hits <= MaxHits
    BY NoCounterConsistent, RateAssumption DEF Consistent, NoCounter
  <2>2. Recent'
    BY <1>2, <1>t, <2>1, AdmitType DEF RequestOpen
  <2> QED
    BY <1>2, <1>p, <1>q, <2>2 DEF RequestOpen, history
<1>3. ASSUME NEW r \in Replicas, NEW c \in Clients, RequestLocal(r, c)
      PROVE  RateInv'
  <2>1. Consistent(Hit(local[r][c])) /\ store[r] \in Store
    BY <1>c, <1>p, HitCounts
  <2>2. Recent'
    BY <1>3, <2>1, AnswerType DEF RequestLocal, Consistent
  <2>3. InMemory'
    BY <1>3, <1>p, <2>1 DEF RequestLocal, Consistent
  <2> QED
    BY <1>3, <1>p, <1>q, <2>2, <2>3 DEF RequestLocal, history
<1>4. CASE Tick
  <2>1. InRedis'
    BY <1>4, <1>c, AgedConsistent DEF Tick, Consistent
  <2>2. InMemory'
    BY <1>4, <1>c, AgedConsistent DEF Tick, Consistent
  <2>3. Recent'
    BY <1>4, <1>p, OlderType DEF Tick
  <2> QED
    BY <1>4, <1>p, <1>q, <2>1, <2>2, <2>3 DEF Tick, history
<1>5. CASE RedisDown
  <2>1. outages' \in 0 .. MaxOutages
    BY <1>5, <1>p, RateAssumption DEF RedisDown
  <2>2. redisUp' = FALSE /\ UNCHANGED <<store, redis, local, recent, stores, restarts>>
    BY <1>5 DEF RedisDown
  <2> QED
    BY <1>p, <1>q, <2>1, <2>2
<1>6. CASE RedisBack
  <2>1. InRedis'
    BY <1>6, <1>p, NoCounterConsistent DEF RedisBack, Consistent
  <2> QED
    BY <1>6, <1>p, <1>q, <2>1 DEF RedisBack, history
<1>7. ASSUME NEW r \in Replicas, Restart(r) PROVE RateInv'
  <2>1. (IF redisUp THEN Redis ELSE <<r, restarts + 1>>) \in Store
    BY <1>7, <1>p, RateAssumption DEF Restart, Store
  <2>2. InMemory'
    BY <1>7, <1>p, NoCounterConsistent DEF Restart, Consistent
  <2>r. restarts' \in 0 .. MaxRestarts
    BY <1>7, <1>p, RateAssumption DEF Restart
  <2>3. Where'
    BY <1>7, <1>p, <2>1, <2>r DEF Restart
  <2> QED
    BY <1>7, <1>p, <1>q, <2>2, <2>3 DEF Restart
<1>8. CASE UNCHANGED vars
  BY <1>8, <1>p, <1>q DEF vars, history
<1> QED
  BY <1>1, <1>2, <1>3, <1>4, <1>5, <1>6, <1>7, <1>8 DEF Next

\* A counter lives no longer than its window, and an admission is numbered
\* within the burst of its tick (rateLimitLua and fiber's limiter, httpx.go).
THEOREM RateTypeCorrect == Spec => []TypeOK
<1>1. RateInv => TypeOK
  BY DEF RateInv
<1> QED
  BY <1>1, InitRate, NextRate, PTL DEF Spec

-----------------------------------------------------------------------------
(* RateLimit: the stores *)

\* A replica counts in a store of the history, in its own memory or in Redis,
\* and the memory of a start yet to come is none of them.  Every start adds at
\* most one.  Before the first outage, Redis is up once anything counts there.
StoreInv ==
  /\ IsFiniteSet(stores)
  /\ Cardinality(stores) <= Cardinality(Replicas) + restarts
  /\ \A r \in Replicas :
       store[r] \in stores /\ (store[r] # Redis => store[r][1] = r)
  /\ \A s \in stores \ {Redis} : s[2] <= restarts
  /\ outages = 0 /\ ~ redisUp => Redis \notin stores

LEMMA InitStore == Init => StoreInv
<1> SUFFICES ASSUME Init PROVE StoreInv
  OBVIOUS
<1>1. store \in Surjection(Replicas, stores)
  BY DEF Init, Surjection
<1>2. IsFiniteSet(stores) /\ Cardinality(stores) <= Cardinality(Replicas)
  BY <1>1, FS_Surjection, RateAssumption
<1>3. Cardinality(stores) \in Nat /\ Cardinality(Replicas) \in Nat
  BY <1>2, FS_CardinalityType, RateAssumption
<1>4. restarts = 0 /\ outages = 0
  BY DEF Init
<1>5. \A r \in Replicas : store[r] \in stores
  BY DEF Init
<1>6. \A r \in Replicas : store[r] = IF redisUp THEN Redis ELSE <<r, 0>>
  BY DEF Init
<1>7. \A s \in stores \ {Redis} : s[2] <= restarts
  <2> SUFFICES ASSUME NEW s \in stores, s # Redis PROVE s[2] <= restarts
    OBVIOUS
  <2>1. PICK r \in Replicas : s = store[r]
    BY DEF Init
  <2>2. s = <<r, 0>>
    BY <1>6, <2>1
  <2>3. s[2] = 0
    BY <2>2
  <2> QED
    BY <1>4, <2>3
<1>9. ASSUME NEW r \in Replicas, store[r] # Redis PROVE store[r][1] = r
  <2>1. store[r] = <<r, 0>>
    BY <1>6, <1>9
  <2> QED
    BY <2>1
<1>10. Cardinality(stores) <= Cardinality(Replicas) + restarts
  BY <1>2, <1>3, <1>4
<1>8. ~ redisUp => Redis \notin stores
  <2> SUFFICES ASSUME ~ redisUp, Redis \in stores PROVE FALSE
    OBVIOUS
  <2>1. PICK r \in Replicas : Redis = <<r, 0>>
    BY <1>6 DEF Init
  <2> QED
    BY <2>1, RateAssumption
<1> QED
  BY <1>2, <1>5, <1>7, <1>8, <1>9, <1>10 DEF StoreInv

LEMMA NextStore == TypeOK /\ StoreInv /\ [Next]_vars => StoreInv'
<1> SUFFICES ASSUME TypeOK, StoreInv, [Next]_vars PROVE StoreInv'
  OBVIOUS
<1>1. ASSUME UNCHANGED <<redisUp, store, history>> PROVE StoreInv'
  BY <1>1 DEF StoreInv, history
<1>2. ASSUME NEW r \in Replicas, NEW c \in Clients,
             RequestRedis(r, c) \/ RequestOpen(r, c) \/ RequestLocal(r, c)
      PROVE  StoreInv'
  BY <1>1, <1>2 DEF RequestRedis, RequestOpen, RequestLocal
<1>3. CASE Tick
  BY <1>1, <1>3 DEF Tick
<1>4. CASE RedisDown
  <2>1. outages' # 0 /\ UNCHANGED <<store, stores, restarts>>
    BY <1>4 DEF RedisDown, TypeOK
  <2> QED
    BY <2>1 DEF StoreInv
<1>5. CASE RedisBack
  <2>1. redisUp' = TRUE /\ UNCHANGED <<store, history>>
    BY <1>5 DEF RedisBack
  <2> QED
    BY <2>1 DEF StoreInv, history
<1>6. ASSUME NEW r \in Replicas, Restart(r) PROVE StoreInv'
  <2> DEFINE s == IF redisUp THEN Redis ELSE <<r, restarts + 1>>
  <2>1. /\ restarts' = restarts + 1 /\ restarts \in Nat
        /\ store' = [store EXCEPT ![r] = s]
        /\ stores' = stores \cup {s}
        /\ UNCHANGED <<redisUp, outages>>
    BY <1>6, RateAssumption DEF Restart, TypeOK
  <2>2. s # Redis => s[1] = r /\ s[2] = restarts + 1
    OBVIOUS
  <2>3. ~ redisUp => s # Redis
    BY <2>1, RateAssumption
  <2> HIDE DEF s
  <2>4. /\ IsFiniteSet(stores')
        /\ Cardinality(stores') <= Cardinality(stores) + 1
        /\ Cardinality(stores) \in Nat /\ Cardinality(stores') \in Nat
        /\ Cardinality(Replicas) \in Nat
    <3>1. IsFiniteSet(stores) /\ IsFiniteSet(Replicas)
      BY RateAssumption DEF StoreInv
    <3>2. /\ IsFiniteSet(stores \cup {s})
          /\ Cardinality(stores \cup {s})
               = IF s \in stores THEN Cardinality(stores) ELSE Cardinality(stores) + 1
      BY <3>1, FS_AddElement
    <3>3. /\ Cardinality(stores) \in Nat /\ Cardinality(Replicas) \in Nat
          /\ Cardinality(stores \cup {s}) \in Nat
      BY <3>1, <3>2, FS_CardinalityType
    <3>4. Cardinality(stores \cup {s}) <= Cardinality(stores) + 1
      BY <3>2, <3>3
    <3> QED
      BY <2>1, <3>2, <3>3, <3>4
  <2>5. Cardinality(stores') <= Cardinality(Replicas) + restarts'
    BY <2>1, <2>4 DEF StoreInv
  <2>6. ASSUME NEW q \in Replicas
        PROVE  store'[q] \in stores' /\ (store'[q] # Redis => store'[q][1] = q)
    <3>1. store'[q] = IF q = r THEN s ELSE store[q]
      BY <2>1 DEF TypeOK
    <3> QED
      BY <2>1, <2>2, <3>1 DEF StoreInv
  <2>7. ASSUME NEW t \in stores' \ {Redis} PROVE t[2] <= restarts'
    <3>1. CASE t = s
      BY <2>1, <2>2, <2>7, <3>1
    <3>2. CASE t # s
      <4>1. t \in stores \ {Redis}
        BY <2>1, <2>7, <3>2
      <4>2. t[2] <= restarts /\ t[2] \in Nat
        BY <4>1, RateAssumption DEF StoreInv, TypeOK, Store
      <4> QED
        BY <2>1, <4>2
    <3> QED
      BY <3>1, <3>2
  <2>8. outages' = 0 /\ ~ redisUp' => Redis \notin stores'
    BY <2>1, <2>3 DEF StoreInv
  <2> QED
    BY <2>4, <2>5, <2>6, <2>7, <2>8 DEF StoreInv
<1>7. CASE UNCHANGED vars
  BY <1>1, <1>7 DEF vars
<1> QED
  BY <1>2, <1>3, <1>4, <1>5, <1>6, <1>7 DEF Next

\* However often replicas start, no more stores count than starts have happened
\* (main of every service pings Redis once, when it starts).
THEOREM FewStores ==
  Spec => [](Cardinality(stores) <= Cardinality(Replicas) + restarts)
<1>1. StoreInv => Cardinality(stores) <= Cardinality(Replicas) + restarts
  BY DEF StoreInv
<1>2. RateInv => TypeOK
  BY DEF RateInv
<1> QED
  BY <1>1, <1>2, InitRate, NextRate, InitStore, NextStore, PTL DEF Spec

-----------------------------------------------------------------------------
(* RateLimit: windows *)

\* When the window of an admission ends: in so many ticks, or that long ago.
Left(a) == a.ttl - a.age

\* The store of the history counted it, and the first of a window opened it.
Counted(a) ==
  /\ a.store \in stores
  /\ a.hits # 0 /\ a.ttl # 0
  /\ a.hits = 1 => a.ttl = Window

\* Two admissions by one store have counts of their own in one window, or
\* windows that do not overlap.
Apart(a, b) ==
  \/ Left(a) = Left(b) /\ (a.hits = b.hits => a = b)
  \/ Left(a) - Left(b) >= Window
  \/ Left(b) - Left(a) >= Window

\* An admission belongs to the window its store's counter has open and is
\* counted in it, or to one that ended before that was opened.
Follows(a, e) ==
  \/ Left(a) <= 0 /\ e.ttl = 0
  \/ Left(a) = e.ttl /\ a.hits <= e.hits
  \/ Left(a) + Window <= e.ttl

Windows(c) ==
  /\ \A a \in recent[c] : Counted(a)
  /\ \A a, b \in recent[c] : a.store = b.store => Apart(a, b)
  /\ \A a \in recent[c] : a.store = Redis => Follows(a, redis[c])
  /\ \A r \in Replicas : store[r] # Redis =>
       \A a \in recent[c] : a.store = store[r] => Follows(a, local[r][c])

WindowInv == outages = 0 => \A c \in Clients : Windows(c)

\* What a hit leaves of an earlier admission by the same store.
LEMMA HitFollows ==
  ASSUME NEW e, Consistent(e), NEW a \in Admission, Counted(a), Follows(a, e)
  PROVE  Follows(a, Hit(e))
<1>1. /\ Window \in Nat \ {0}
      /\ a.ttl \in Int /\ a.age \in Int /\ a.hits \in Nat \ {0}
      /\ e.ttl \in Nat /\ e.hits \in Nat
      /\ Hit(e).ttl \in Nat /\ Hit(e).hits \in Nat
  BY HitCounts, RateAssumption DEF Admission, Counted, Consistent, Counter
<1> QED
  BY <1>1, HitCounts DEF Follows, Left, Consistent

\* And an admission it grants: counted, apart from the earlier ones, and in the
\* window that is open now.
LEMMA HitAdmits ==
  ASSUME NEW e, Consistent(e), Hit(e).hits <= MaxHits,
         NEW n \in Admission, n.store \in stores, n.age = 0,
         n.hits = Hit(e).hits, n.ttl = Hit(e).ttl
  PROVE  /\ Counted(n)
         /\ Follows(n, Hit(e))
         /\ \A a \in Admission :
              Counted(a) /\ Follows(a, e) => Apart(a, n) /\ Apart(n, a)
<1>1. /\ Window \in Nat \ {0} /\ MaxHits \in Nat
      /\ e.ttl \in 0 .. Window /\ e.hits \in Nat
      /\ Hit(e).ttl \in Nat /\ Hit(e).hits \in Nat
      /\ n.ttl \in Int /\ n.age = 0 /\ n.hits \in Nat
  BY HitCounts, RateAssumption DEF Admission, Consistent, Counter
<1>2. Counted(n) /\ Follows(n, Hit(e))
  BY <1>1, HitCounts DEF Counted, Follows, Left
<1>3. ASSUME NEW a \in Admission, Counted(a), Follows(a, e)
      PROVE  Apart(a, n) /\ Apart(n, a)
  <2>1. a.ttl \in Int /\ a.age \in Int /\ a.hits \in Nat \ {0}
    BY <1>3, RateAssumption DEF Admission, Counted
  <2>2. Left(a) \in Int /\ Left(n) = Hit(e).ttl
    BY <1>1, <2>1 DEF Left
  <2>3. CASE e.ttl = 0
    <3>1. Hit(e).ttl = Window
      BY <2>3, HitCounts
    <3>2. Left(a) <= 0
      BY <1>1, <1>3, <2>1, <2>2, <2>3 DEF Follows, Consistent
    <3> QED
      BY <1>1, <2>2, <3>1, <3>2 DEF Apart
  <2>4. CASE e.ttl # 0
    <3>1. Hit(e).ttl = e.ttl /\ e.hits < Hit(e).hits
      BY <2>4, HitCounts
    <3>2. CASE Left(a) = e.ttl /\ a.hits <= e.hits
      BY <1>1, <2>1, <2>2, <3>1, <3>2 DEF Apart
    <3>3. CASE Left(a) + Window <= e.ttl
      BY <1>1, <2>1, <2>2, <3>1, <3>3 DEF Apart
    <3> QED
      BY <1>3, <2>4, <3>2, <3>3 DEF Follows
  <2> QED
    BY <2>3, <2>4
<1> QED
  BY <1>2, <1>3

\* A tick moves admissions and counters alike.
LEMMA TickFollows ==
  ASSUME NEW e, Consistent(e), NEW a \in Admission, Counted(a), Follows(a, e)
  PROVE  /\ Follows([a EXCEPT !.age = @ + 1], Aged(e))
         /\ Counted([a EXCEPT !.age = @ + 1])
<1> DEFINE b == [a EXCEPT !.age = @ + 1]
<1>1. /\ Window \in Nat \ {0}
      /\ a.ttl \in Int /\ a.age \in Nat /\ a.hits \in Nat \ {0}
      /\ e.ttl \in Nat /\ e.hits \in Nat
  BY RateAssumption DEF Admission, Counted, Consistent, Counter
<1>2. b.ttl = a.ttl /\ b.hits = a.hits /\ b.store = a.store /\ b.age = a.age + 1
  BY DEF Admission
<1>3. Left(b) = Left(a) - 1 /\ Left(a) \in Int
  BY <1>1, <1>2 DEF Left
<1> HIDE DEF b
<1>4. Counted(b)
  BY <1>2 DEF Counted
<1>5. CASE e.ttl <= 1
  <2>1. Aged(e).ttl = 0
    BY <1>5 DEF Aged, NoCounter
  <2>2. Left(a) <= 1
    BY <1>1, <1>3, <1>5 DEF Follows
  <2> QED
    BY <1>3, <1>4, <2>1, <2>2 DEF Follows, b
<1>6. CASE e.ttl > 1
  <2>1. Aged(e).ttl = e.ttl - 1 /\ Aged(e).hits = e.hits
    BY <1>1, <1>6 DEF Aged, Consistent, Counter
  <2>2. Follows(b, Aged(e))
    BY <1>1, <1>2, <1>3, <1>6, <2>1 DEF Follows
  <2> QED
    BY <1>4, <2>2 DEF b
<1> QED
  BY <1>1, <1>5, <1>6

LEMMA TickApart ==
  ASSUME NEW a \in Admission, NEW b \in Admission, Apart(a, b)
  PROVE  Apart([a EXCEPT !.age = @ + 1], [b EXCEPT !.age = @ + 1])
<1> DEFINE x == [a EXCEPT !.age = @ + 1]
           y == [b EXCEPT !.age = @ + 1]
<1>1. /\ a.ttl \in Int /\ a.age \in Int /\ b.ttl \in Int /\ b.age \in Int
      /\ Window \in Nat
  BY RateAssumption DEF Admission
<1>2. /\ x.ttl = a.ttl /\ x.age = a.age + 1 /\ x.hits = a.hits
      /\ y.ttl = b.ttl /\ y.age = b.age + 1 /\ y.hits = b.hits
  BY DEF Admission
<1>3. a = b => x = y
  OBVIOUS
<1> HIDE DEF x, y
<1>4. Left(x) = Left(a) - 1 /\ Left(y) = Left(b) - 1
  BY <1>1, <1>2 DEF Left
<1>5. Left(a) \in Int /\ Left(b) \in Int
  BY <1>1 DEF Left
<1>6. Apart(x, y)
  BY <1>1, <1>2, <1>3, <1>4, <1>5 DEF Apart
<1> QED
  BY <1>6 DEF x, y

\* A store answers a request: what its admissions, the new one among them, have
\* to do with each other and with the counter.
LEMMA AnswerWindows ==
  ASSUME RateInv, RateInv', NEW c \in Clients, Windows(c),
         NEW s \in stores, NEW e, Consistent(e), UNCHANGED stores,
         \A a \in recent[c] : a.store = s => Follows(a, e),
         Answer(c, s, Hit(e))
  PROVE  /\ \A a \in recent'[c] : Counted(a)
         /\ \A a, b \in recent'[c] : a.store = b.store => Apart(a, b)
         /\ \A a \in recent'[c] :
              IF a.store = s THEN Follows(a, Hit(e)) ELSE a \in recent[c]
         /\ \A d \in Clients : d # c => recent'[d] = recent[d]
<1>1. /\ recent \in [Clients -> SUBSET Admission]
      /\ recent' \in [Clients -> SUBSET Admission]
  BY DEF RateInv, TypeOK
<1>2. /\ \A a \in recent[c] : Counted(a)
      /\ \A a, b \in recent[c] : a.store = b.store => Apart(a, b)
  BY DEF Windows
<1>3. \A a \in recent[c] : a.store = s => Follows(a, Hit(e))
  BY <1>1, <1>2, HitFollows
<1>4. CASE Hit(e).hits > MaxHits
  <2>1. UNCHANGED recent
    BY <1>4, HitCounts, RateAssumption DEF Answer, Consistent, Counter
  <2> QED
    BY <1>2, <1>3, <2>1
<1>5. CASE Hit(e).hits <= MaxHits
  <2> DEFINE n == [store |-> s, age |-> 0, nth |-> Cardinality(NowBy(c, s)) + 1,
                   hits |-> Hit(e).hits, ttl |-> Hit(e).ttl]
  <2>1. recent' = [recent EXCEPT ![c] = @ \cup {n}]
    BY <1>5 DEF Answer, Admit
  <2>2. /\ n.store = s /\ n.age = 0
        /\ n.hits = Hit(e).hits /\ n.ttl = Hit(e).ttl
    OBVIOUS
  <2> HIDE DEF n
  <2>3. recent'[c] = recent[c] \cup {n}
    BY <1>1, <2>1
  <2>4. n \in Admission
    BY <1>1, <2>3
  <2>5. /\ Counted(n) /\ Follows(n, Hit(e))
        /\ \A a \in recent[c] : a.store = s => Apart(a, n) /\ Apart(n, a)
    BY <1>1, <1>2, <1>5, <2>2, <2>4, HitAdmits
  <2>6. Apart(n, n)
    BY DEF Apart
  <2>7. \A a, b \in recent'[c] : a.store = b.store => Apart(a, b)
    BY <1>2, <2>2, <2>3, <2>5, <2>6
  <2> QED
    BY <1>1, <1>2, <1>3, <2>1, <2>2, <2>3, <2>5, <2>7
<1> QED
  BY <1>4, <1>5, HitCounts, RateAssumption DEF Consistent, Counter

LEMMA InitWindow == Init => WindowInv
BY DEF Init, WindowInv, Windows

LEMMA NextWindow ==
  RateInv /\ RateInv' /\ StoreInv /\ WindowInv /\ [Next]_vars => WindowInv'
<1> SUFFICES ASSUME RateInv, RateInv', StoreInv, WindowInv, [Next]_vars,
                    outages' = 0, NEW c \in Clients
             PROVE  Windows(c)'
  BY DEF WindowInv
<1>t. TypeOK /\ TypeOK'
  BY DEF RateInv
<1>o. outages = 0
  BY <1>t, RateAssumption
     DEF Next, vars, history, RequestRedis, RequestOpen, RequestLocal, Tick,
         RedisDown, RedisBack, Restart, TypeOK
<1>w. \A d \in Clients : Windows(d)
  BY <1>o DEF WindowInv
<1>c. /\ \A d \in Clients : Consistent(redis[d])
      /\ \A r \in Replicas, d \in Clients : Consistent(local[r][d])
  BY <1>t, CountersConsistent
<1>s. /\ \A r \in Replicas :
           store[r] \in stores /\ (store[r] # Redis => store[r][1] = r)
      /\ ~ redisUp => Redis \notin stores
  BY <1>o DEF StoreInv
<1>1. ASSUME NEW r \in Replicas, NEW d \in Clients, RequestRedis(r, d)
      PROVE  Windows(c)'
  <2>1. /\ store[r] = Redis /\ Answer(d, Redis, Hit(redis[d]))
        /\ redis' = [redis EXCEPT ![d] = Hit(@)]
        /\ UNCHANGED <<store, local, stores>>
    BY <1>1 DEF RequestRedis, history
  <2>2. Redis \in stores
    BY <1>s, <2>1
  <2>3. \A a \in recent[d] : a.store = Redis => Follows(a, redis[d])
    BY <1>w DEF Windows
  <2>4. /\ \A a \in recent'[d] : Counted(a)
        /\ \A a, b \in recent'[d] : a.store = b.store => Apart(a, b)
        /\ \A a \in recent'[d] :
             IF a.store = Redis THEN Follows(a, Hit(redis[d])) ELSE a \in recent[d]
        /\ \A x \in Clients : x # d => recent'[x] = recent[x]
    BY <1>c, <1>w, <2>1, <2>2, <2>3, AnswerWindows
  <2>5. CASE c = d
    <3>1. redis'[c] = Hit(redis[c])
      BY <1>t, <2>1, <2>5 DEF TypeOK
    <3>2. \A a \in recent'[c] : Counted(a)'
      BY <2>1, <2>4, <2>5 DEF Counted
    <3>3. \A a \in recent'[c] : a.store = Redis => Follows(a, redis'[c])
      BY <2>4, <2>5, <3>1
    <3>4. \A q \in Replicas : store'[q] # Redis =>
            \A a \in recent'[c] : a.store = store'[q] => Follows(a, local'[q][c])
      BY <1>w, <2>1, <2>4, <2>5 DEF Windows
    <3> QED
      BY <2>4, <2>5, <3>2, <3>3, <3>4 DEF Windows
  <2>6. CASE c # d
    <3>1. redis'[c] = redis[c] /\ recent'[c] = recent[c]
      BY <1>t, <2>1, <2>4, <2>6 DEF TypeOK
    <3> QED
      BY <1>w, <2>1, <3>1 DEF Windows, Counted
  <2> QED
    BY <2>5, <2>6
<1>2. ASSUME NEW r \in Replicas, NEW d \in Clients PROVE ~ RequestOpen(r, d)
  BY <1>s DEF RequestOpen
<1>3. ASSUME NEW r \in Replicas, NEW d \in Clients, RequestLocal(r, d)
      PROVE  Windows(c)'
  <2> DEFINE s == store[r]
  <2>1. /\ s # Redis /\ Answer(d, s, Hit(local[r][d]))
        /\ local' = [local EXCEPT ![r][d] = Hit(@)]
        /\ UNCHANGED <<store, redis, stores>>
    BY <1>3 DEF RequestLocal, history
  <2>2. s \in stores
    BY <1>s
  <2>3. \A a \in recent[d] : a.store = s => Follows(a, local[r][d])
    BY <1>w, <2>1 DEF Windows
  <2>d. \A q \in Replicas : q # r /\ store[q] # Redis => store[q] # s
    BY <1>s, <2>1
  <2>e. \A q \in Replicas : q = r => store[q] = s
    OBVIOUS
  <2> HIDE DEF s
  <2>4. /\ \A a \in recent'[d] : Counted(a)
        /\ \A a, b \in recent'[d] : a.store = b.store => Apart(a, b)
        /\ \A a \in recent'[d] :
             IF a.store = s THEN Follows(a, Hit(local[r][d])) ELSE a \in recent[d]
        /\ \A x \in Clients : x # d => recent'[x] = recent[x]
    BY <1>c, <1>w, <2>1, <2>2, <2>3, AnswerWindows
  <2>5. CASE c = d
    <3>1. /\ local'[r][c] = Hit(local[r][c])
          /\ \A q \in Replicas : q # r => local'[q][c] = local[q][c]
      BY <1>t, <2>1, <2>5 DEF TypeOK
    <3>2. \A a \in recent'[c] : Counted(a)'
      BY <2>1, <2>4, <2>5 DEF Counted
    <3>3. \A a \in recent'[c] : a.store = Redis => Follows(a, redis'[c])
      BY <1>w, <2>1, <2>4, <2>5 DEF Windows
    <3>4. ASSUME NEW q \in Replicas, store'[q] # Redis,
                 NEW a \in recent'[c], a.store = store'[q]
          PROVE  Follows(a, local'[q][c])
      <4>1. CASE q = r
        <5>1. a.store = s
          BY <2>1, <2>e, <3>4, <4>1
        <5>2. Follows(a, Hit(local[r][c]))
          BY <2>4, <2>5, <3>4, <5>1
        <5> QED
          BY <3>1, <4>1, <5>2
      <4>2. CASE q # r
        <5>1. a.store # s /\ a \in recent[c]
          BY <2>1, <2>4, <2>5, <2>d, <3>4, <4>2
        <5>2. Follows(a, local[q][c])
          BY <1>w, <2>1, <3>4, <5>1 DEF Windows
        <5> QED
          BY <3>1, <4>2, <5>2
      <4> QED
        BY <4>1, <4>2
    <3> QED
      BY <2>4, <2>5, <3>2, <3>3, <3>4 DEF Windows
  <2>6. CASE c # d
    <3>1. /\ \A q \in Replicas : local'[q][c] = local[q][c]
          /\ recent'[c] = recent[c]
      BY <1>t, <2>1, <2>4, <2>6 DEF TypeOK
    <3> QED
      BY <1>w, <2>1, <3>1 DEF Windows, Counted
  <2> QED
    BY <2>5, <2>6
<1>4. CASE Tick
  <2>1. /\ redis'[c] = Aged(redis[c])
        /\ \A r \in Replicas : local'[r][c] = Aged(local[r][c])
        /\ recent'[c] = Older(recent[c])
        /\ UNCHANGED <<store, stores>>
    BY <1>4 DEF Tick, history
  <2>2. recent[c] \subseteq Admission
    BY <1>t DEF TypeOK
  <2>3. ASSUME NEW x \in recent'[c]
        PROVE  \E a \in recent[c] : x = [a EXCEPT !.age = @ + 1]
    BY <2>1 DEF Older
  <2>4. ASSUME NEW a \in recent[c]
        PROVE  [a EXCEPT !.age = @ + 1].store = a.store
    BY <2>2 DEF Admission
  <2>5. ASSUME NEW a \in recent[c], NEW e, Consistent(e), Follows(a, e)
        PROVE  /\ Counted([a EXCEPT !.age = @ + 1])
               /\ Follows([a EXCEPT !.age = @ + 1], Aged(e))
    BY <1>w, <2>2, <2>5, TickFollows DEF Windows
  <2>6. ASSUME NEW x \in recent'[c] PROVE Counted(x)'
    <3>1. PICK a \in recent[c] : x = [a EXCEPT !.age = @ + 1]
      BY <2>3
    <3>2. Counted(a)
      BY <1>w DEF Windows
    <3> QED
      BY <2>1, <2>2, <3>1, <3>2 DEF Counted, Admission
  <2>7. ASSUME NEW x \in recent'[c], NEW y \in recent'[c], x.store = y.store
        PROVE  Apart(x, y)
    <3>1. PICK a \in recent[c] : x = [a EXCEPT !.age = @ + 1]
      BY <2>3
    <3>2. PICK b \in recent[c] : y = [b EXCEPT !.age = @ + 1]
      BY <2>3
    <3>3. Apart(a, b)
      BY <1>w, <2>4, <2>7, <3>1, <3>2 DEF Windows
    <3> QED
      BY <2>2, <3>1, <3>2, <3>3, TickApart
  <2>8. ASSUME NEW x \in recent'[c], x.store = Redis PROVE Follows(x, redis'[c])
    <3>1. PICK a \in recent[c] : x = [a EXCEPT !.age = @ + 1]
      BY <2>3
    <3>2. Follows(a, redis[c])
      BY <1>w, <2>4, <2>8, <3>1 DEF Windows
    <3> QED
      BY <1>c, <2>1, <2>5, <3>1, <3>2
  <2>9. ASSUME NEW r \in Replicas, store'[r] # Redis,
               NEW x \in recent'[c], x.store = store'[r]
        PROVE  Follows(x, local'[r][c])
    <3>1. PICK a \in recent[c] : x = [a EXCEPT !.age = @ + 1]
      BY <2>3
    <3>2. Follows(a, local[r][c])
      BY <1>w, <2>1, <2>4, <2>9, <3>1 DEF Windows
    <3> QED
      BY <1>c, <2>1, <2>5, <3>1, <3>2
  <2> QED
    BY <2>6, <2>7, <2>8, <2>9 DEF Windows
<1>5. ~ RedisDown
  BY <1>o, <1>t, RateAssumption DEF RedisDown
<1>6. CASE RedisBack
  <2>1. ~ redisUp /\ UNCHANGED <<store, local, recent, stores>>
    BY <1>6 DEF RedisBack, history
  <2>2. \A a \in recent[c] : a.store # Redis
    BY <1>s, <1>w, <2>1 DEF Windows, Counted
  <2> QED
    BY <1>w, <2>1, <2>2 DEF Windows, Counted
<1>7. ASSUME NEW r \in Replicas, Restart(r) PROVE Windows(c)'
  <2> DEFINE s == IF redisUp THEN Redis ELSE <<r, restarts + 1>>
  <2>1. /\ store' = [store EXCEPT ![r] = s]
        /\ stores' = stores \cup {s}
        /\ \A q \in Replicas : q # r => local'[q] = local[q]
        /\ UNCHANGED <<redis, recent>>
    BY <1>7, <1>t DEF Restart, TypeOK
  <2>2. restarts \in Nat
    BY <1>t, RateAssumption DEF TypeOK
  <2>3. s # Redis => s \notin stores
    <3>1. s # Redis => s[2] = restarts + 1
      OBVIOUS
    <3> HIDE DEF s
    <3> QED
      BY <2>2, <3>1 DEF StoreInv
  <2> HIDE DEF s
  <2>4. \A a \in recent[c] : a.store \in stores /\ Counted(a)'
    BY <1>w, <2>1 DEF Windows, Counted
  <2>5. ASSUME NEW q \in Replicas, store'[q] # Redis,
               NEW a \in recent[c], a.store = store'[q]
        PROVE  Follows(a, local'[q][c])
    <3>1. q # r
      BY <1>t, <2>1, <2>3, <2>4, <2>5 DEF TypeOK
    <3>2. store'[q] = store[q] /\ local'[q] = local[q]
      BY <1>t, <2>1, <3>1 DEF TypeOK
    <3> QED
      BY <1>w, <2>5, <3>2 DEF Windows
  <2> QED
    BY <1>w, <2>1, <2>4, <2>5 DEF Windows
<1>8. CASE UNCHANGED vars
  BY <1>8, <1>w DEF vars, history, Windows, Counted
<1> QED
  BY <1>1, <1>2, <1>3, <1>4, <1>5, <1>6, <1>7, <1>8 DEF Next

-----------------------------------------------------------------------------
(* RateLimit: how many admissions *)

\* The place of an admission in its store: its count, with those of the window
\* still open first and then those of the one before, whose first is gone.
Place(a) == IF Left(a) > 0 THEN a.hits ELSE MaxHits + a.hits - 1

\* No two admissions of the last Window ticks have one place in one store.
LEMMA PlacesDiffer ==
  ASSUME RateInv, outages = 0, NEW c \in Clients, Windows(c)
  PROVE  [a \in recent[c] |-> <<a.store, Place(a)>>]
           \in Injection(recent[c], stores \X (1 .. PerStore))
<1> DEFINE f == [a \in recent[c] |-> <<a.store, Place(a)>>]
<1>1. recent[c] \subseteq Admission /\ MaxHits \in Nat \ {0} /\ Window \in Nat \ {0}
  BY RateAssumption DEF RateInv, TypeOK
<1>2. ASSUME NEW a \in recent[c]
      PROVE  /\ a.store \in stores
             /\ a.hits \in 1 .. MaxHits
             /\ Left(a) \in Int /\ Left(a) <= Window /\ Left(a) > 1 - Window
             /\ Left(a) <= 0 => a.hits >= 2
  <2>1. /\ a.age \in 0 .. Window - 1 /\ a.hits \in 0 .. MaxHits
        /\ a.ttl \in 0 .. Window
    BY <1>1 DEF Admission
  <2>2. Counted(a)
    BY DEF Windows
  <2> QED
    BY <1>1, <2>1, <2>2 DEF Counted, Left
<1>3. ASSUME NEW a \in recent[c] PROVE Place(a) \in 1 .. PerStore
  BY <1>1, <1>2 DEF Place, PerStore
<1>4. ASSUME NEW a \in recent[c], NEW b \in recent[c],
             a.store = b.store, Place(a) = Place(b)
      PROVE  a = b
  <2>1. Apart(a, b)
    BY <1>4 DEF Windows
  <2>2. (Left(a) > 0 <=> Left(b) > 0) /\ a.hits = b.hits
    BY <1>1, <1>2, <1>4 DEF Place
  <2>3. ~ (Left(a) - Left(b) >= Window) /\ ~ (Left(b) - Left(a) >= Window)
    BY <1>1, <1>2, <2>2
  <2> QED
    BY <2>1, <2>2, <2>3 DEF Apart
<1>5. f \in [recent[c] -> stores \X (1 .. PerStore)]
  BY <1>2, <1>3
<1>6. ASSUME NEW a \in recent[c], NEW b \in recent[c], f[a] = f[b] PROVE a = b
  BY <1>4, <1>6
<1> QED
  BY <1>5, <1>6 DEF Injection, IsInjective

LEMMA WindowsBound == RateInv /\ StoreInv /\ WindowInv => RateBounded
<1> SUFFICES ASSUME RateInv, StoreInv, WindowInv, outages = 0, NEW c \in Clients
             PROVE  Cardinality(recent[c]) <= Cardinality(stores) * PerStore
  BY DEF RateBounded
<1>1. PerStore \in Nat \ {0}
  BY RateAssumption DEF PerStore
<1>2. IsFiniteSet(1 .. PerStore) /\ Cardinality(1 .. PerStore) = PerStore
  BY <1>1, FS_Interval
<1>3. IsFiniteSet(stores)
  BY DEF StoreInv
<1>4. /\ IsFiniteSet(stores \X (1 .. PerStore))
      /\ Cardinality(stores \X (1 .. PerStore)) = Cardinality(stores) * PerStore
  BY <1>2, <1>3, FS_Product
<1>5. Windows(c)
  BY DEF WindowInv
<1>6. PICK f : f \in Injection(recent[c], stores \X (1 .. PerStore))
  BY <1>5, PlacesDiffer
<1>7. Cardinality(recent[c]) <= Cardinality(stores \X (1 .. PerStore))
  BY <1>4, <1>6, FS_Injection
<1> QED
  BY <1>4, <1>7

\* The limiter bounds what passes (httpx.go:132-211): as long as Redis has not
\* gone away from under a replica, the stores that counted admit, each, at most
\* 2 * MaxHits - 1 requests of a client in any Window ticks in a row, wherever
\* those begin, however the replicas' requests interleave and are restarted.
THEOREM RateIsBounded == Spec => []RateBounded
<1> DEFINE Inv == RateInv /\ StoreInv /\ WindowInv
<1>1. Init => Inv
  BY InitRate, InitStore, InitWindow
<1>2. Inv /\ [Next]_vars => Inv'
  <2>1. RateInv => TypeOK
    BY DEF RateInv
  <2> QED
    BY <2>1, NextRate, NextStore, NextWindow
<1>3. Inv => RateBounded
  BY WindowsBound
<1> HIDE DEF Inv
<1> QED
  BY <1>1, <1>2, <1>3, PTL DEF Spec

\* A service whose replicas all found Redis when they started is one store,
\* however many they are and however often they were started again.
THEOREM SharedWindow ==
  Spec => [](outages = 0 /\ stores = {Redis} =>
               \A c \in Clients : Cardinality(recent[c]) <= 2 * MaxHits - 1)
<1>1. RateBounded =>
        (outages = 0 /\ stores = {Redis} =>
           \A c \in Clients : Cardinality(recent[c]) <= 2 * MaxHits - 1)
  <2>1. Cardinality({Redis}) = 1
    BY FS_Singleton
  <2> QED
    BY <2>1, RateAssumption DEF RateBounded, PerStore
<1> QED
  BY <1>1, RateIsBounded, PTL

-----------------------------------------------------------------------------
(* RateLimit: the history counts every admission *)

\* The admissions of a tick by one store are numbered from 1.
NumberedInv ==
  \A c \in Clients : \A a \in recent[c] :
    a.age = 0 => a.nth <= Cardinality(NowBy(c, a.store))

\* So the next one is none of them.
LEMMA AdmissionNew ==
  ASSUME RateInv, NumberedInv, NEW c \in Clients, NEW s, NEW e, Admit(c, s, e)
  PROVE  /\ Cardinality(recent'[c]) = Cardinality(recent[c]) + 1
         /\ NumberedInv'
<1> DEFINE k == Cardinality(NowBy(c, s))
           n == [store |-> s, age |-> 0, nth |-> k + 1,
                 hits |-> e.hits, ttl |-> e.ttl]
<1>1. recent' = [recent EXCEPT ![c] = @ \cup {n}]
  BY DEF Admit
<1>2. n.store = s /\ n.age = 0 /\ n.nth = k + 1
  OBVIOUS
<1> HIDE DEF n
<1>3. recent'[c] = recent[c] \cup {n} /\ \A d \in Clients : d # c => recent'[d] = recent[d]
  BY <1>1 DEF RateInv, TypeOK
<1>4. IsFiniteSet(recent[c])
  BY DEF RateInv
<1>5. \A t : NowBy(c, t) \subseteq recent[c]
  BY DEF NowBy, Now
<1>6. \A t : IsFiniteSet(NowBy(c, t)) /\ Cardinality(NowBy(c, t)) \in Nat
  BY <1>4, <1>5, FS_Subset, FS_CardinalityType
<1>7. n \notin recent[c]
  <2> SUFFICES ASSUME n \in recent[c] PROVE FALSE
    OBVIOUS
  <2>1. k + 1 <= k
    BY <1>2 DEF NumberedInv
  <2> QED
    BY <1>6, <2>1
<1>8. Cardinality(recent'[c]) = Cardinality(recent[c]) + 1
  BY <1>3, <1>4, <1>7, FS_AddElement
<1>9. NowBy(c, s)' = NowBy(c, s) \cup {n}
  BY <1>2, <1>3 DEF NowBy, Now
<1>10. \A t : t # s => NowBy(c, t)' = NowBy(c, t)
  BY <1>2, <1>3 DEF NowBy, Now
<1>11. n \notin NowBy(c, s)
  BY <1>5, <1>7
<1>12. Cardinality(NowBy(c, s)') = k + 1
  BY <1>6, <1>9, <1>11, FS_AddElement
<1>13. ASSUME NEW d \in Clients, NEW a \in recent'[d], a.age = 0
       PROVE  a.nth <= Cardinality(NowBy(d, a.store)')
  <2>1. CASE d # c
    <3>1. recent'[d] = recent[d]
      BY <1>3, <2>1
    <3>2. NowBy(d, a.store)' = NowBy(d, a.store)
      BY <3>1 DEF NowBy, Now
    <3> QED
      BY <1>13, <3>1, <3>2 DEF NumberedInv
  <2>2. CASE d = c /\ a.store # s
    <3>1. a \in recent[c]
      BY <1>2, <1>3, <2>2
    <3> QED
      BY <1>10, <1>13, <2>2, <3>1 DEF NumberedInv
  <2>3. CASE d = c /\ a = n
    <3>1. k + 1 <= Cardinality(NowBy(c, s)')
      BY <1>6, <1>12
    <3> QED
      BY <1>2, <2>3, <3>1
  <2>4. CASE d = c /\ a.store = s /\ a # n
    <3>1. a \in recent[c]
      BY <1>3, <2>4
    <3>2. a.nth <= k
      BY <1>13, <2>4, <3>1 DEF NumberedInv
    <3>3. a.nth \in Nat
      BY <3>1, RateAssumption DEF RateInv, TypeOK, Admission
    <3> QED
      BY <1>6, <1>12, <2>4, <3>2, <3>3
  <2> QED
    BY <2>1, <2>2, <2>3, <2>4
<1> QED
  BY <1>8, <1>13 DEF NumberedInv

LEMMA NextNumbered ==
  RateInv /\ NumberedInv /\ [Next]_vars => NumberedInv'
<1> SUFFICES ASSUME RateInv, NumberedInv, [Next]_vars PROVE NumberedInv'
  OBVIOUS
<1>1. ASSUME UNCHANGED recent PROVE NumberedInv'
  BY <1>1 DEF NumberedInv, NowBy, Now
<1>2. ASSUME NEW c \in Clients, NEW s, NEW e, Answer(c, s, e)
      PROVE  NumberedInv'
  BY <1>1, <1>2, AdmissionNew DEF Answer
<1>3. ASSUME NEW r \in Replicas, NEW c \in Clients,
             RequestRedis(r, c) \/ RequestOpen(r, c) \/ RequestLocal(r, c)
      PROVE  NumberedInv'
  BY <1>2, <1>3, AdmissionNew DEF RequestRedis, RequestOpen, RequestLocal
<1>4. CASE Tick
  <2>1. ASSUME NEW c \in Clients, NEW x \in recent'[c] PROVE x.age # 0
    <3>1. PICK a \in recent[c] : x = [a EXCEPT !.age = @ + 1]
      BY <1>4 DEF Tick, Older
    <3>2. a \in Admission
      BY DEF RateInv, TypeOK
    <3> QED
      BY <3>1, <3>2, RateAssumption DEF Admission
  <2> QED
    BY <2>1 DEF NumberedInv
<1>5. CASE RedisDown \/ RedisBack \/ \E r \in Replicas : Restart(r)
  BY <1>1, <1>5 DEF RedisDown, RedisBack, Restart
<1>6. CASE UNCHANGED vars
  BY <1>1, <1>6 DEF vars
<1> QED
  BY <1>3, <1>4, <1>5, <1>6 DEF Next

\* The bound of RateBounded is about requests: every one that is let through
\* makes the history of its client one larger, however alike two of them are.
AdmissionsCount ==
  \A c \in Clients, s \in Store, e \in Counter :
    Admit(c, s, e) => Cardinality(recent'[c]) = Cardinality(recent[c]) + 1

THEOREM EveryAdmissionCounts == Spec => [][AdmissionsCount]_vars
<1> DEFINE Inv == RateInv /\ NumberedInv
<1>1. Init => Inv
  BY InitRate DEF Init, NumberedInv
<1>2. Inv /\ [Next]_vars => Inv' /\ [AdmissionsCount]_vars
  BY NextRate, NextNumbered, AdmissionNew DEF AdmissionsCount
<1> HIDE DEF Inv
<1> QED
  BY <1>1, <1>2, PTL DEF Spec

-----------------------------------------------------------------------------
(* RateLimit: refusals run out *)

\* A window that is open comes to its end: no request renews it, every tick
\* brings the end nearer.
Closes(e, f) == e.ttl # 0 => f.ttl <= e.ttl /\ (Tick => f.ttl < e.ttl)

\* Once it is over, or has never begun, the next request passes.
WindowsClose ==
  /\ \A c \in Clients :
       /\ Closes(redis[c], redis'[c])
       /\ redis[c].ttl = 0 => Allowed(redis[c])
  /\ \A r \in Replicas, c \in Clients :
       /\ Closes(local[r][c], local'[r][c])
       /\ local[r][c].ttl = 0 => Allowed(local[r][c])

\* What may happen to a counter in a step that is no tick.
Touched(e, f) == f \in {e, Hit(e), NoCounter}

LEMMA TouchedCloses ==
  ASSUME NEW e, Consistent(e), NEW f, Touched(e, f), ~ Tick
  PROVE  Closes(e, f)
<1>1. e.ttl \in 0 .. Window /\ Window \in Nat
  BY RateAssumption DEF Consistent, Counter
<1>2. e.ttl # 0 => Hit(e).ttl = e.ttl
  BY HitCounts
<1> QED
  BY <1>1, <1>2 DEF Touched, Closes, NoCounter

LEMMA AgedCloses ==
  ASSUME NEW e, Consistent(e)
  PROVE  Closes(e, Aged(e))
<1>1. /\ e.ttl \in 0 .. Window /\ Window \in Nat
      /\ e = [hits |-> e.hits, ttl |-> e.ttl]
  BY RateAssumption DEF Consistent, Counter
<1> QED
  BY <1>1 DEF Closes, Aged, NoCounter

LEMMA OverPasses ==
  ASSUME NEW e, e.ttl = 0
  PROVE  Allowed(e)
BY RateAssumption DEF Allowed, Hit

LEMMA StepsTouch ==
  ASSUME TypeOK, Next, ~ Tick
  PROVE  /\ \A c \in Clients : Touched(redis[c], redis'[c])
         /\ \A r \in Replicas, c \in Clients : Touched(local[r][c], local'[r][c])
<1> USE DEF TypeOK, Touched
<1>1. ASSUME NEW r \in Replicas, NEW c \in Clients,
             RequestRedis(r, c) \/ RequestOpen(r, c)
      PROVE  /\ local' = local
             /\ \A d \in Clients : Touched(redis[d], redis'[d])
  BY <1>1 DEF RequestRedis, RequestOpen
<1>2. ASSUME NEW r \in Replicas, NEW c \in Clients, RequestLocal(r, c)
      PROVE  /\ redis' = redis
             /\ \A q \in Replicas, d \in Clients :
                  Touched(local[q][d], local'[q][d])
  BY <1>2 DEF RequestLocal
<1>3. CASE RedisDown \/ RedisBack
  BY <1>3 DEF RedisDown, RedisBack
<1>4. ASSUME NEW r \in Replicas, Restart(r)
      PROVE  /\ redis' = redis
             /\ \A q \in Replicas, d \in Clients :
                  Touched(local[q][d], local'[q][d])
  BY <1>4 DEF Restart
<1> QED
  BY <1>1, <1>2, <1>3, <1>4 DEF Next

\* A refused client need only wait: of NotLockedOut this is all but that time goes
\* on.  Neither a refused request nor another replica, an outage or a restart
\* makes it wait longer (the first hit alone sets the counter's expiry,
\* rateLimitLua of httpx.go).
THEOREM WindowsRunOut == Spec => [][WindowsClose]_vars
<1>1. TypeOK /\ Next => WindowsClose
  <2> SUFFICES ASSUME TypeOK, Next PROVE WindowsClose
    OBVIOUS
  <2>1. /\ \A c \in Clients : Consistent(redis[c])
        /\ \A r \in Replicas, c \in Clients : Consistent(local[r][c])
    BY CountersConsistent
  <2>2. CASE Tick
    <3>1. /\ \A c \in Clients : redis'[c] = Aged(redis[c])
          /\ \A r \in Replicas, c \in Clients : local'[r][c] = Aged(local[r][c])
      BY <2>2 DEF Tick
    <3> QED
      BY <2>1, <3>1, AgedCloses, OverPasses DEF WindowsClose
  <2>3. CASE ~ Tick
    BY <2>1, <2>3, StepsTouch, TouchedCloses, OverPasses DEF WindowsClose
  <2> QED
    BY <2>2, <2>3
<1>2. RateInv => TypeOK
  BY DEF RateInv
<1>3. [Next]_vars /\ TypeOK => [WindowsClose]_vars
  BY <1>1
<1> QED
  BY <1>2, <1>3, InitRate, NextRate, PTL DEF Spec

-----------------------------------------------------------------------------
(* Paging: one page *)

\* Clamp stays between its bounds, and does not raise what is above the lower.
LEMMA ClampBounds ==
  ASSUME NEW v \in Int, NEW lo \in Int, NEW hi \in Int, lo <= hi
  PROVE  /\ Clamp(v, lo, hi) \in lo .. hi
         /\ v >= lo => Clamp(v, lo, hi) <= v
BY DEF Clamp

\* The rows newer than r, which come before it in every order of the query.
Above(r) == { o \in Selected : Stamp[o] > Stamp[r] }

\* No other row has its stamp.
Unique(r) == \A o \in Selected \ {r} : Stamp[o] # Stamp[r]

\* A row that has as many rows before it as the offset is on the page, or the
\* page is full and as many rows are before it as the next page's offset.
LEMMA PageReaches ==
  ASSUME IsFiniteSet(Selected), Selected \subseteq Rows,
         NEW r \in Selected, Unique(r),
         NEW off \in Nat, off <= Cardinality(Above(r)),
         NEW lim \in Nat \ {0}, NEW page \in Pages(lim, off), r \notin page
  PROVE  Cardinality(page) = lim /\ off + lim <= Cardinality(Above(r))
<1> DEFINE H == Above(r)
<1>1. PICK before \in Newest(off) :
        \E upTo \in Newest(off + lim) : before \subseteq upTo /\ page = upTo \ before
  BY DEF Pages
<1>2. PICK upTo \in Newest(off + lim) : before \subseteq upTo /\ page = upTo \ before
  BY <1>1
<1>3. /\ before \subseteq Selected /\ upTo \subseteq Selected
      /\ Cardinality(before) = Smaller(off, Cardinality(Selected))
      /\ Cardinality(upTo) = Smaller(off + lim, Cardinality(Selected))
      /\ \A a \in before, b \in Selected \ before : Stamp[a] >= Stamp[b]
      /\ \A a \in upTo, b \in Selected \ upTo : Stamp[a] >= Stamp[b]
  BY DEF Newest
<1>s. \A o \in Selected : Stamp[o] \in Int
  BY PagingAssumption
<1>4. H \subseteq Selected /\ r \notin H
  BY <1>s DEF Above
<1>5. /\ IsFiniteSet(H) /\ IsFiniteSet(before) /\ IsFiniteSet(upTo)
      /\ IsFiniteSet(H \cup {r})
  BY <1>3, <1>4, FS_Subset, FS_AddElement
<1>6. /\ Cardinality(H) \in Nat /\ Cardinality(Selected) \in Nat
      /\ Cardinality(before) \in Nat /\ Cardinality(upTo) \in Nat
      /\ Cardinality(H \cup {r}) = Cardinality(H) + 1
  BY <1>4, <1>5, FS_CardinalityType, FS_AddElement
<1>7. Cardinality(H) + 1 <= Cardinality(Selected)
  <2>1. H \cup {r} \subseteq Selected
    BY <1>4
  <2> QED
    BY <1>6, <2>1, FS_Subset
<1>8. Cardinality(before) = off
  BY <1>3, <1>6, <1>7 DEF Smaller
<1>9. r \notin before
  <2> SUFFICES ASSUME r \in before PROVE FALSE
    OBVIOUS
  <2>1. H \cup {r} \subseteq before
    BY <1>3, <1>s DEF Above
  <2>2. Cardinality(H \cup {r}) <= Cardinality(before)
    BY <1>5, <2>1, FS_Subset
  <2> QED
    BY <1>6, <1>8, <2>2
<1>10. r \notin upTo
  BY <1>2, <1>9
<1>11. upTo \subseteq H
  BY <1>3, <1>10, <1>s DEF Above, Unique
<1>12. Cardinality(upTo) <= Cardinality(H)
  BY <1>5, <1>11, FS_Subset
<1>13. Cardinality(upTo) = off + lim
  BY <1>3, <1>6, <1>7, <1>12 DEF Smaller
<1>14. Cardinality(page) = Cardinality(upTo) - Cardinality(before)
  <2>1. upTo \cap before = before
    BY <1>2
  <2> QED
    BY <1>2, <1>5, <2>1, FS_Difference
<1> QED
  BY <1>8, <1>12, <1>13, <1>14
-----------------------------------------------------------------------------
(* Paging: the whole table *)

\* A row the client has not been given yet has at least as many rows before it
\* as the offset the client will ask for, whatever was inserted meanwhile.
Ahead ==
  \A r \in start \ Hidden :
    Unique(r) =>
      \/ r \in seen
      \/ state = "failed"
      \/ state = "reading" /\ offset <= Cardinality(Above(r))

PagingInv == PagingTypeOK /\ start \subseteq present /\ Ahead

LEMMA InitPaging == PagingInit => PagingInv
<1> SUFFICES ASSUME PagingInit PROVE PagingInv
  OBVIOUS
<1>1. PagingTypeOK /\ start \subseteq present
  BY PagingAssumption DEF PagingInit, PagingTypeOK
<1>2. ASSUME NEW r \in start \ Hidden PROVE 0 <= Cardinality(Above(r))
  <2>1. IsFiniteSet(Above(r))
    BY <1>1, PagingAssumption, FS_Subset DEF Above, Selected, PagingTypeOK
  <2> QED
    BY <2>1, FS_CardinalityType
<1> QED
  BY <1>1, <1>2 DEF PagingInit, PagingInv, Ahead

\* What is selected is a finite set of rows.
LEMMA SelectedFinite ==
  ASSUME PagingTypeOK
  PROVE  Selected \subseteq Rows /\ IsFiniteSet(Selected)
BY PagingAssumption, FS_Subset DEF PagingTypeOK, Selected

\* A page taken at the client's offset.
LEMMA TakeInv ==
  ASSUME PagingInv, state = "reading", UNCHANGED <<start, present, table, limit>>,
         NEW lim, lim = Clamp(limit, 1, MaxLimit),
         NEW off, off = Clamp(offset, 0, MaxOffset),
         NEW page \in Pages(lim, off), Take(page, lim, off)
  PROVE  PagingInv'
<1>1. /\ lim \in 1 .. MaxLimit /\ off \in 0 .. MaxOffset /\ off <= offset
      /\ offset \in Nat
  <2>1. limit \in Int /\ offset \in Nat /\ MaxLimit \in Nat \ {0} /\ MaxOffset \in Nat
    BY PagingAssumption DEF PagingInv, PagingTypeOK
  <2> QED
    BY <2>1, ClampBounds
<1>2. Selected \subseteq Rows /\ IsFiniteSet(Selected)
  BY SelectedFinite DEF PagingInv
<1>3. page \subseteq Selected
  BY DEF Pages, Newest
<1>4. Selected' = Selected /\ \A r : Above(r)' = Above(r) /\ (Unique(r)' <=> Unique(r))
  BY DEF Selected, Above, Unique
<1>5. PagingTypeOK'
  <2>1. seen' \subseteq Rows
    BY <1>2, <1>3 DEF Take, PagingInv, PagingTypeOK
  <2>2. offset' \in 0 .. MaxOffset + MaxLimit
    BY <1>1, PagingAssumption DEF Take, PagingInv, PagingTypeOK
  <2>3. state' \in {"reading", "done", "failed"}
    BY DEF Take
  <2> QED
    BY <2>1, <2>2, <2>3 DEF PagingInv, PagingTypeOK
<1>6. ASSUME NEW r \in start \ Hidden, Unique(r), r \notin seen'
      PROVE  state' = "reading" /\ offset' <= Cardinality(Above(r))
  <2>1. r \in Selected /\ r \notin seen /\ r \notin page
    BY <1>6 DEF Selected, PagingInv, Take
  <2>2. offset <= Cardinality(Above(r))
    BY <1>6, <2>1 DEF PagingInv, Ahead
  <2>3. Cardinality(Above(r)) \in Nat
    BY <1>2, FS_Subset, FS_CardinalityType DEF Above
  <2>4. off <= Cardinality(Above(r))
    BY <1>1, <2>2, <2>3
  <2>5. Cardinality(page) = lim /\ off + lim <= Cardinality(Above(r))
    BY <1>1, <1>2, <1>6, <2>1, <2>4, PageReaches
  <2> QED
    BY <1>1, <2>5 DEF Take
<1>7. Ahead'
  BY <1>4, <1>6 DEF Ahead
<1> QED
  BY <1>5, <1>7 DEF PagingInv

\* A row committed meanwhile pushes rows to later pages, or nowhere.
LEMMA InsertInv ==
  ASSUME PagingInv, NEW x \in Rows, Insert(x)
  PROVE  PagingInv'
<1>1. /\ present' = present \cup {x}
      /\ UNCHANGED <<table, start, limit, offset, seen, state>>
  BY DEF Insert
<1>2. PagingTypeOK' /\ start' \subseteq present'
  BY <1>1 DEF PagingInv, PagingTypeOK
<1>3. Selected \subseteq Selected' /\ IsFiniteSet(Selected')
  <2>1. IsFiniteSet(Rows) /\ Selected' \subseteq Rows
    BY <1>2, PagingAssumption DEF PagingTypeOK, Selected
  <2> QED
    BY <1>1, <2>1, FS_Subset DEF Selected
<1>4. ASSUME NEW r \in start \ Hidden, Unique(r)', r \notin seen, state # "failed"
      PROVE  state = "reading" /\ offset <= Cardinality(Above(r)')
  <2>1. Unique(r)
    BY <1>3, <1>4 DEF Unique
  <2>2. state = "reading" /\ offset <= Cardinality(Above(r))
    BY <1>4, <2>1 DEF PagingInv, Ahead
  <2>3. Above(r) \subseteq Above(r)' /\ Above(r)' \subseteq Selected'
    BY <1>3 DEF Above
  <2>4. IsFiniteSet(Above(r)') /\ IsFiniteSet(Above(r))
    BY <1>3, <2>3, FS_Subset
  <2>5. Cardinality(Above(r)) <= Cardinality(Above(r)')
    BY <2>3, <2>4, FS_Subset
  <2>6. Cardinality(Above(r)) \in Nat /\ Cardinality(Above(r)') \in Nat
    BY <2>4, FS_CardinalityType
  <2>7. offset \in Nat
    BY PagingAssumption DEF PagingInv, PagingTypeOK
  <2> QED
    BY <2>2, <2>5, <2>6, <2>7
<1>5. Ahead'
  BY <1>1, <1>4 DEF Ahead
<1> QED
  BY <1>2, <1>5 DEF PagingInv

LEMMA NextPaging == PagingInv /\ [PagingNext]_pagingVars => PagingInv'
<1> SUFFICES ASSUME PagingInv, [PagingNext]_pagingVars PROVE PagingInv'
  OBVIOUS
<1>1. CASE ListSPDs
  <2> DEFINE lim == Clamp(limit, 1, MaxLimit)
             off == Clamp(offset, 0, MaxOffset)
  <2>1. /\ state = "reading" /\ UNCHANGED <<table, start, present, limit>>
        /\ \E page \in Pages(lim, off) :
             \/ state' = "failed" /\ UNCHANGED <<offset, seen>>
             \/ Take(page, lim, off)
    BY <1>1 DEF ListSPDs
  <2>2. CASE state' = "failed" /\ UNCHANGED <<offset, seen>>
    BY <2>1, <2>2 DEF PagingInv, PagingTypeOK, Ahead
  <2>3. CASE \E page \in Pages(lim, off) : Take(page, lim, off)
    BY <2>1, <2>3, TakeInv
  <2> QED
    BY <2>1, <2>2, <2>3
<1>2. CASE QueryLogs
  BY <1>2, TakeInv DEF QueryLogs
<1>3. ASSUME NEW x \in Rows, Insert(x) PROVE PagingInv'
  BY <1>3, InsertInv
<1>4. CASE UNCHANGED pagingVars
  BY <1>4 DEF pagingVars, PagingInv, PagingTypeOK, Ahead, Unique, Above, Selected
<1> QED
  BY <1>1, <1>2, <1>3, <1>4 DEF PagingNext

\* What the client is given are rows of the table, and the offset it asks for
\* stays within a page of the largest that is granted (handler.go:116-143).
THEOREM PagingTypeCorrect == PagingSpec => []PagingTypeOK
<1>1. PagingInv => PagingTypeOK
  BY DEF PagingInv
<1> QED
  BY <1>1, InitPaging, NextPaging, PTL DEF PagingSpec

\* Reading by OFFSET while rows are committed skips no row that was there at
\* the beginning and has a stamp of its own, whatever the limits that are
\* granted and wherever the new rows come in (repo.go:75-102 of spd-service).
THEOREM PagingSkipsNothing == PagingSpec => []NothingSkipped
<1>1. PagingInv => NothingSkipped
  BY DEF PagingInv, Ahead, Unique, NothingSkipped
<1> QED
  BY <1>1, InitPaging, NextPaging, PTL DEF PagingSpec

-----------------------------------------------------------------------------
(* Paging: the way to the end *)

\* A full page leaves no less of the table than its end.
LEMMA FullPageReaches ==
  ASSUME IsFiniteSet(Selected), NEW off \in Nat, NEW lim \in Nat \ {0},
         NEW page \in Pages(lim, off), ~ (Cardinality(page) < lim)
  PROVE  off + lim <= Cardinality(Selected)
<1>1. PICK before \in Newest(off) :
        \E u \in Newest(off + lim) : before \subseteq u /\ page = u \ before
  BY DEF Pages
<1>2. PICK upTo \in Newest(off + lim) : before \subseteq upTo /\ page = upTo \ before
  BY <1>1
<1>3. /\ before \subseteq Selected /\ upTo \subseteq Selected
      /\ Cardinality(before) = Smaller(off, Cardinality(Selected))
      /\ Cardinality(upTo) = Smaller(off + lim, Cardinality(Selected))
  BY DEF Newest
<1>4. IsFiniteSet(before) /\ IsFiniteSet(upTo)
  BY <1>3, FS_Subset
<1>5. Cardinality(page) = Cardinality(upTo) - Cardinality(before)
  <2>1. upTo \cap before = before
    BY <1>2
  <2> QED
    BY <1>2, <1>4, <2>1, FS_Difference
<1>6. Cardinality(Selected) \in Nat
  BY FS_CardinalityType
<1> QED
  BY <1>3, <1>5, <1>6 DEF Smaller

\* Where the client asks next is still in the table.
OffsetInv == offset <= Cardinality(Selected)

\* What a page does to the client's offset.
LEMMA PageTurned ==
  ASSUME PagingTypeOK, ListSPDs \/ QueryLogs
  PROVE  \/ UNCHANGED offset /\ state' # "reading"
         \/ LET lim == Clamp(limit, 1, MaxLimit)
                off == Clamp(offset, 0, MaxOffset)
            IN  offset' = off + lim /\ off + lim <= Cardinality(Selected)
<1> DEFINE lim == Clamp(limit, 1, MaxLimit)
           off == Clamp(offset, 0, MaxOffset)
<1>1. lim \in Nat \ {0} /\ off \in Nat
  <2>1. /\ limit \in Int /\ offset \in Int
        /\ MaxLimit \in Nat \ {0} /\ MaxOffset \in Nat
    BY PagingAssumption DEF PagingTypeOK
  <2>2. lim \in 1 .. MaxLimit /\ off \in 0 .. MaxOffset
    BY <2>1, ClampBounds
  <2> QED
    BY <2>1, <2>2
<1>2. IsFiniteSet(Selected)
  BY SelectedFinite
<1>3. \/ state' = "failed" /\ UNCHANGED offset
      \/ \E page \in Pages(lim, off) : Take(page, lim, off)
  BY DEF ListSPDs, QueryLogs
<1> HIDE DEF lim, off
<1>4. ASSUME NEW page \in Pages(lim, off), Take(page, lim, off)
      PROVE  \/ UNCHANGED offset /\ state' # "reading"
             \/ offset' = off + lim /\ off + lim <= Cardinality(Selected)
  BY <1>1, <1>2, <1>4, FullPageReaches DEF Take
<1> QED
  BY <1>3, <1>4 DEF lim, off

LEMMA NextOffset ==
  PagingTypeOK /\ OffsetInv /\ [PagingNext]_pagingVars => OffsetInv'
<1> SUFFICES ASSUME PagingTypeOK, OffsetInv, [PagingNext]_pagingVars
             PROVE  OffsetInv'
  OBVIOUS
<1>1. CASE ListSPDs \/ QueryLogs
  <2>1. Selected' = Selected
    BY <1>1 DEF ListSPDs, QueryLogs, Selected
  <2>2. offset' = offset \/ offset' <= Cardinality(Selected)
    BY <1>1, PageTurned
  <2> QED
    BY <2>1, <2>2 DEF OffsetInv
<1>2. ASSUME NEW x \in Rows, Insert(x) PROVE OffsetInv'
  <2>1. Selected \subseteq Selected' /\ offset' = offset
    BY <1>2 DEF Insert, Selected
  <2>2. Selected' \subseteq Rows
    BY <1>2 DEF Insert, Selected, PagingTypeOK
  <2>3. /\ IsFiniteSet(Selected') /\ IsFiniteSet(Selected)
        /\ Cardinality(Selected) <= Cardinality(Selected')
    BY <2>1, <2>2, PagingAssumption, FS_Subset
  <2>4. Cardinality(Selected) \in Nat /\ Cardinality(Selected') \in Nat
    BY <2>3, FS_CardinalityType
  <2>5. offset \in Nat
    BY PagingAssumption DEF PagingTypeOK
  <2> QED
    BY <2>1, <2>3, <2>4, <2>5 DEF OffsetInv
<1>3. CASE UNCHANGED pagingVars
  BY <1>3 DEF pagingVars, OffsetInv, Selected
<1> QED
  BY <1>1, <1>2, <1>3 DEF PagingNext

LEMMA InitOffset == PagingInit => OffsetInv
<1> SUFFICES ASSUME PagingInit PROVE OffsetInv
  OBVIOUS
<1>1. IsFiniteSet(Selected)
  BY InitPaging, SelectedFinite DEF PagingInv
<1> QED
  BY <1>1, FS_CardinalityType DEF PagingInit, OffsetInv

\* A page is the client's last or moves its offset on, within the table, until
\* the table has outgrown the largest offset that is granted.
OffsetAdvances ==
  /\ offset <= Cardinality(Selected)
  /\ ListSPDs \/ QueryLogs =>
       \/ state' # "reading"
       \/ offset' > offset
       \/ Cardinality(Selected) >= MaxOffset + Clamp(limit, 1, MaxLimit)

\* The client never asks behind the end of what it may see, and every page brings
\* it nearer to that end: of EndsUnlessOutgrown this is all but that it goes on
\* asking and that rows are finite (handler.go:116-143 of spd-service).
THEOREM EveryPageAdvances == PagingSpec => [][OffsetAdvances]_pagingVars
<1>1. PagingTypeOK /\ OffsetInv => OffsetAdvances
  <2> SUFFICES ASSUME PagingTypeOK, OffsetInv, ListSPDs \/ QueryLogs,
                      state' = "reading", ~ (offset' > offset)
               PROVE  Cardinality(Selected) >= MaxOffset + Clamp(limit, 1, MaxLimit)
    BY DEF OffsetAdvances, OffsetInv
  <2> DEFINE lim == Clamp(limit, 1, MaxLimit)
             off == Clamp(offset, 0, MaxOffset)
  <2>1. offset' = off + lim /\ off + lim <= Cardinality(Selected)
    BY PageTurned
  <2>2. /\ limit \in Int /\ offset \in Nat
        /\ MaxLimit \in Nat \ {0} /\ MaxOffset \in Nat
    BY PagingAssumption DEF PagingTypeOK
  <2>3. lim \in 1 .. MaxLimit
    <3>1. limit \in Int /\ 1 \in Int /\ MaxLimit \in Int /\ 1 <= MaxLimit
      BY <2>2
    <3> QED
      BY ONLY <3>1, ClampBounds
  <2>4. off = offset \/ off = MaxOffset
    BY <2>2 DEF Clamp
  <2> HIDE DEF lim, off
  <2>5. off = MaxOffset
    BY <2>1, <2>2, <2>3, <2>4
  <2>6. Cardinality(Selected) >= MaxOffset + lim
    <3>1. Cardinality(Selected) \in Nat
      BY SelectedFinite, FS_CardinalityType
    <3> QED
      BY <2>1, <2>2, <2>3, <2>5, <3>1
  <2> QED
    BY <2>6 DEF lim
<1>2. PagingInv => PagingTypeOK
  BY DEF PagingInv
<1> QED
  BY <1>1, <1>2, InitPaging, NextPaging, InitOffset, NextOffset, PTL
     DEF PagingSpec
=============================================================================
