----------------------------- MODULE RateLimit -----------------------------
(***************************************************************************)
(* shared/httpx RateLimit, as the replicas of one service use it: a fixed  *)
(* window per client, which opens with the client's first request and ends *)
(* Window ticks later.  A replica that could reach Redis when it started   *)
(* counts there, with all others that do; one that could not counts in its *)
(* own memory until it is started again.  A replica that counts in Redis   *)
(* and gets no answer lets the request pass, uncounted.                    *)
(*                                                                         *)
(* Time is relative: a counter holds the ticks it has left, and recent the *)
(* admissions of the last Window ticks, each with its age.                 *)
(***************************************************************************)
EXTENDS Integers, FiniteSets

CONSTANTS
  Clients,     \* client addresses
  Replicas,    \* running copies of one service
  Redis,       \* the store that replicas share
  MaxHits,     \* requests per window (RateLimitConfig.Max)
  Window,      \* ticks per window
  Burst,       \* bound: admissions of one client per tick
  MaxOutages,  \* bound: how often Redis goes away
  MaxRestarts  \* bound: how often a replica is started again

ASSUME RateAssumption ==
  /\ IsFiniteSet(Replicas)
  /\ Redis \notin Replicas \X Nat
  /\ MaxHits \in Nat \ {0}
  /\ Window \in Nat \ {0}
  /\ Burst \in Nat /\ Burst > MaxHits
  /\ MaxOutages \in Nat
  /\ MaxRestarts \in Nat

VARIABLES
  redisUp,     \* does Redis answer?
  store,       \* [Replicas -> where it counts]: Redis, or the memory it was
               \* given with its last start
  redis,       \* [Clients -> counter]
  local,       \* [Replicas -> [Clients -> counter]]
  recent,      \* history: [Clients -> admissions of the last Window ticks]
  stores,      \* history: where a replica has ever counted
  outages,     \* outages of Redis so far
  restarts     \* restarts so far

history == <<stores, outages, restarts>>

vars == <<redisUp, store, redis, local, recent, history>>

Store == {Redis} \cup (Replicas \X (0 .. MaxRestarts))

\* An admission: by which store, how many ticks ago, as which of its tick, and
\* the count and the time left that the store answered (0 when it did not).
Admission ==
  [store : Store, age : 0 .. Window - 1, nth : 1 .. Burst,
   hits : 0 .. MaxHits, ttl : 0 .. Window]

\* Counts above MaxHits all refuse, so the counter stops at MaxHits + 1.
Counter == [hits : 0 .. MaxHits + 1, ttl : 0 .. Window]
NoCounter == [hits |-> 0, ttl |-> 0]

-----------------------------------------------------------------------------
(* One counter *)

\* Variant: every request renews the window.
HitRenews(e) ==
  IF e.ttl = 0
  THEN [hits |-> 1, ttl |-> Window]
  ELSE [hits |-> IF e.hits > MaxHits THEN e.hits ELSE e.hits + 1, ttl |-> Window]

\* Variant: a client is counted only while it is admitted.
HitForgets(e) ==
  IF e.ttl = 0 \/ e.hits > MaxHits
  THEN [hits |-> 1, ttl |-> Window]
  ELSE [e EXCEPT !.hits = @ + 1]

\* INCR, and PEXPIRE when the count is 1: one atomic script.
Hit(e) ==
  IF e.ttl = 0
  THEN [hits |-> 1, ttl |-> Window]
  ELSE [e EXCEPT !.hits = IF @ > MaxHits THEN @ ELSE @ + 1]

Allowed(e) == Hit(e).hits <= MaxHits

Aged(e) == IF e.ttl <= 1 THEN NoCounter ELSE [e EXCEPT !.ttl = @ - 1]

-----------------------------------------------------------------------------
Init ==
  /\ redisUp \in BOOLEAN
  /\ store = [r \in Replicas |-> IF redisUp THEN Redis ELSE <<r, 0>>]
  /\ redis = [c \in Clients |-> NoCounter]
  /\ local = [r \in Replicas |-> [c \in Clients |-> NoCounter]]
  /\ recent = [c \in Clients |-> {}]
  /\ stores = { store[r] : r \in Replicas }
  /\ outages = 0
  /\ restarts = 0

\* The admissions of this tick, by all stores and by one.
Now(c) == { a \in recent[c] : a.age = 0 }
NowBy(c, s) == { a \in Now(c) : a.store = s }

\* A client is admitted, by a store that answered e.
Admit(c, s, e) ==
  recent' = [recent EXCEPT ![c] = @ \cup
    {[store |-> s, age |-> 0, nth |-> Cardinality(NowBy(c, s)) + 1,
      hits |-> e.hits, ttl |-> e.ttl]}]

\* A store answers: the request goes on, or gets a 429.
Answer(c, s, e) ==
  IF e.hits <= MaxHits THEN Admit(c, s, e) ELSE UNCHANGED recent

\* A request to a replica that counts in Redis, and Redis answers.
RequestRedis(r, c) ==
  /\ store[r] = Redis
  /\ redisUp
  /\ Cardinality(Now(c)) < Burst
  /\ redis' = [redis EXCEPT ![c] = Hit(@)]
  /\ Answer(c, Redis, Hit(redis[c]))
  /\ UNCHANGED <<redisUp, store, local, history>>

\* Redis does not answer within 250 ms: fail open.
RequestOpen(r, c) ==
  /\ store[r] = Redis
  /\ ~ redisUp
  /\ Cardinality(Now(c)) < Burst
  /\ Admit(c, Redis, NoCounter)
  /\ UNCHANGED <<redisUp, store, redis, local, history>>

\* A replica with the process-local limiter.
RequestLocal(r, c) ==
  /\ store[r] # Redis
  /\ Cardinality(Now(c)) < Burst
  /\ local' = [local EXCEPT ![r][c] = Hit(@)]
  /\ Answer(c, store[r], Hit(local[r][c]))
  /\ UNCHANGED <<redisUp, store, redis, history>>

\* A tick later; what is Window ticks old is no longer recent.
Older(A) == { [a EXCEPT !.age = @ + 1] : a \in { b \in A : b.age + 1 < Window } }

Tick ==
  /\ redis' = [c \in Clients |-> Aged(redis[c])]
  /\ local' = [r \in Replicas |-> [c \in Clients |-> Aged(local[r][c])]]
  /\ recent' = [c \in Clients |-> Older(recent[c])]
  /\ UNCHANGED <<redisUp, store, history>>

\* Redis goes away, and comes back with its keys or without them.
RedisDown ==
  /\ redisUp
  /\ outages < MaxOutages
  /\ outages' = outages + 1
  /\ redisUp' = FALSE
  /\ UNCHANGED <<store, redis, local, recent, stores, restarts>>

RedisBack ==
  /\ ~ redisUp
  /\ redisUp' = TRUE
  /\ redis' \in {redis, [c \in Clients |-> NoCounter]}
  /\ UNCHANGED <<store, local, recent, history>>

\* main: Ping decides where the replica counts until it stops.
Restart(r) ==
  LET s == IF redisUp THEN Redis ELSE <<r, restarts + 1>> IN
  /\ restarts < MaxRestarts
  /\ restarts' = restarts + 1
  /\ store' = [store EXCEPT ![r] = s]
  /\ local' = [local EXCEPT ![r] = [c \in Clients |-> NoCounter]]
  /\ stores' = stores \cup {s}
  /\ UNCHANGED <<redisUp, redis, recent, outages>>

Next ==
  \/ \E r \in Replicas, c \in Clients :
       RequestRedis(r, c) \/ RequestOpen(r, c) \/ RequestLocal(r, c)
  \/ Tick
  \/ RedisDown
  \/ RedisBack
  \/ \E r \in Replicas : Restart(r)

Spec == Init /\ [][Next]_vars

\* Time passes.
FairSpec == Spec /\ WF_vars(Tick)
-----------------------------------------------------------------------------
(* Properties *)

\* Types; a counter lives no longer than its window, and not without one.
TypeOK ==
  /\ redisUp \in BOOLEAN
  /\ store \in [Replicas -> Store]
  /\ redis \in [Clients -> Counter]
  /\ local \in [Replicas -> [Clients -> Counter]]
  /\ \A c \in Clients : redis[c].hits = 0 <=> redis[c].ttl = 0
  /\ \A r \in Replicas, c \in Clients :
       local[r][c].hits = 0 <=> local[r][c].ttl = 0
  /\ recent \in [Clients -> SUBSET Admission]
  /\ stores \subseteq Store
  /\ outages \in 0 .. MaxOutages
  /\ restarts \in 0 .. MaxRestarts

\* What one store admits in any Window ticks in a row, wherever they begin: a
\* full window and the next one, less the request that opened the first.
PerStore == 2 * MaxHits - 1

\* "Redis-backed rate limiter with an in-memory fallback" (httpx.go:132): while
\* Redis has not gone away from under a replica that counts there, no
\* interleaving of replicas, no position of the windows and no restart admits
\* more than the stores do: Redis alone, or also the memories of the replicas
\* that did not find it when they started.  An outage voids it: requests pass
\* uncounted.
RateBounded ==
  outages = 0 =>
    \A c \in Clients : Cardinality(recent[c]) <= Cardinality(stores) * PerStore

\* A client that is refused, and goes on asking, is not refused for ever: time
\* and again its next request would pass, on every replica.
WouldPass(r, c) ==
  IF store[r] # Redis THEN Allowed(local[r][c])
  ELSE redisUp => Allowed(redis[c])

NotLockedOut ==
  \A r \in Replicas, c \in Clients : []<>WouldPass(r, c)
=============================================================================
