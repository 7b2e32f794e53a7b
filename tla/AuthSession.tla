---------------------------- MODULE AuthSession ----------------------------
(***************************************************************************)
(* The refresh tokens of one user in auth-service: login, refresh with     *)
(* rotation, logout.  Each database call of a handler is a statement of    *)
(* its own, outside any transaction, so Refresh is three steps (read the   *)
(* row, revoke it, insert the successor) that other requests, a failing    *)
(* database or a crash may separate.                                       *)
(*                                                                         *)
(* A session is the chain of tokens that starts with one login.            *)
(***************************************************************************)
EXTENDS Integers, FiniteSets

CONSTANTS
  Tokens,      \* bound: the token ids newTokenID may draw
  NoToken,     \* NULL, and "no token"
  Requests,    \* bound: refresh requests in flight
  MaxFaults,   \* bound: how many faults a behaviour may contain
  FaultKinds   \* which kinds of fault may occur

ASSUME SessionAssumption ==
  /\ NoToken \notin Tokens
  /\ MaxFaults \in Nat
  /\ FaultKinds \subseteq {"refresh", "answer", "logout"}

VARIABLES
  row,         \* table refresh_tokens: [Tokens -> none, live or revoked]
  replacedBy,  \* its column replaced_by
  expired,     \* tokens whose expires_at has passed
  req,         \* [Requests -> where the refresh is, its token, its successor]
  held,        \* tokens the client has; it forgets the one it exchanged
  parent,      \* history: the token a refresh exchanged for this one
  session,     \* history: the login a token descends from
  ended,       \* history: sessions whose client was told "logged out"
  serial,      \* history: the client has always waited for its answers, and
               \* no logout was answered after its UPDATE had failed
  faults       \* faults so far

vars ==
  <<row, replacedBy, expired, req, held, parent, session, ended, serial, faults>>

history == <<parent, session, ended, serial>>

Maybe == Tokens \cup {NoToken}

Idle == [pc |-> "idle", tok |-> NoToken, new |-> NoToken]

Init ==
  /\ row = [t \in Tokens |-> "none"]
  /\ replacedBy = [t \in Tokens |-> NoToken]
  /\ expired = {}
  /\ req = [q \in Requests |-> Idle]
  /\ held = {}
  /\ parent = [t \in Tokens |-> NoToken]
  /\ session = [t \in Tokens |-> NoToken]
  /\ ended = {}
  /\ serial = TRUE
  /\ faults = 0

\* newTokenID: 32 random bytes, an id nobody has drawn before.
Fresh(n) ==
  /\ row[n] = "none"
  /\ \A t \in Tokens : replacedBy[t] # n
  /\ \A q \in Requests : req[q].new # n

\* The client sends a request, with or without others in flight.
Send == serial' = (serial /\ \A q \in Requests : req[q].pc = "idle")

Fault(kind) ==
  /\ kind \in FaultKinds
  /\ faults < MaxFaults
  /\ faults' = faults + 1

-----------------------------------------------------------------------------
\* POST /auth/login, from the password check on: one INSERT, then the answer.
Login(n) ==
  /\ Send
  /\ Fresh(n)
  /\ row' = [row EXCEPT ![n] = "live"]
  /\ session' = [session EXCEPT ![n] = n]
  /\ held' = held \cup {n}
  /\ UNCHANGED <<replacedBy, expired, req, parent, ended, faults>>

\* Variant: an expired or revoked row is not refused.
CheckNothing(q, t, n) ==
  /\ Send
  /\ req[q].pc = "idle"
  /\ t \in held
  /\ Fresh(n)
  /\ req' = [req EXCEPT ![q] = [pc |-> "checked", tok |-> t, new |-> n]]
  /\ UNCHANGED <<row, replacedBy, expired, held, parent, session, ended, faults>>

\* POST /auth/refresh, first statement: the row must be there, not revoked and
\* not expired; otherwise 401 and nothing happens.
Check(q, t, n) ==
  /\ Send
  /\ req[q].pc = "idle"
  /\ t \in held
  /\ row[t] = "live" /\ t \notin expired
  /\ Fresh(n)
  /\ req' = [req EXCEPT ![q] = [pc |-> "checked", tok |-> t, new |-> n]]
  /\ UNCHANGED <<row, replacedBy, expired, held, parent, session, ended, faults>>

\* Variants: revoke whatever the row says; go on without revoking.
RevokeAgain(q) ==
  LET t == req[q].tok IN
  /\ req[q].pc = "checked"
  /\ req' = [req EXCEPT ![q].pc = "rotated"]
  /\ row' = [row EXCEPT ![t] = "revoked"]
  /\ replacedBy' = [replacedBy EXCEPT ![t] = req[q].new]
  /\ UNCHANGED <<expired, held, history, faults>>

RevokeNothing(q) ==
  /\ req[q].pc = "checked"
  /\ req' = [req EXCEPT ![q].pc = "rotated"]
  /\ UNCHANGED <<row, replacedBy, expired, held, history, faults>>

\* Second statement: UPDATE ... WHERE revoked_at IS NULL.  When another request
\* has revoked the row meanwhile it changes nothing, and nobody notices.
Revoke(q) ==
  LET t == req[q].tok IN
  /\ req[q].pc = "checked"
  /\ req' = [req EXCEPT ![q].pc = "rotated"]
  /\ IF row[t] = "live"
     THEN /\ row' = [row EXCEPT ![t] = "revoked"]
          /\ replacedBy' = [replacedBy EXCEPT ![t] = req[q].new]
     ELSE UNCHANGED <<row, replacedBy>>
  /\ UNCHANGED <<expired, held, history, faults>>

\* Variant: the INSERT is lost and the refresh answers all the same.
InsertNothing(q) ==
  LET n == req[q].new IN
  /\ req[q].pc = "rotated"
  /\ parent' = [parent EXCEPT ![n] = req[q].tok]
  /\ session' = [session EXCEPT ![n] = session[req[q].tok]]
  /\ req' = [req EXCEPT ![q] = Idle]
  /\ UNCHANGED row

\* Third statement: INSERT the successor.
InsertSuccessor(q) ==
  LET n == req[q].new IN
  /\ req[q].pc = "rotated"
  /\ row' = [row EXCEPT ![n] = "live"]
  /\ parent' = [parent EXCEPT ![n] = req[q].tok]
  /\ session' = [session EXCEPT ![n] = session[req[q].tok]]
  /\ req' = [req EXCEPT ![q] = Idle]

Grant(q) ==
  /\ InsertSuccessor(q)
  /\ held' = (held \ {req[q].tok}) \cup {req[q].new}
  /\ UNCHANGED <<replacedBy, expired, ended, serial, faults>>

\* The answer does not reach the client.
GrantUnheard(q) ==
  /\ Fault("answer")
  /\ InsertSuccessor(q)
  /\ UNCHANGED <<replacedBy, expired, held, ended, serial>>

\* A statement of Refresh fails or auth-service dies: nothing is undone.
AbortRefresh(q) ==
  /\ Fault("refresh")
  /\ req[q].pc # "idle"
  /\ req' = [req EXCEPT ![q] = Idle]
  /\ UNCHANGED <<row, replacedBy, expired, held, history>>

\* POST /auth/logout: revoke the given token if it is live, answer 204 anyway.
Logout(t) ==
  /\ Send
  /\ t \in held
  /\ row' = [row EXCEPT ![t] = IF @ = "live" THEN "revoked" ELSE @]
  /\ ended' = ended \cup {session[t]}
  /\ UNCHANGED <<replacedBy, expired, req, held, parent, session, faults>>

\* The UPDATE fails; its error is dropped and the answer is still 204.
LogoutFails(t) ==
  /\ serial' = FALSE
  /\ Fault("logout")
  /\ t \in held
  /\ row[t] = "live"
  /\ ended' = ended \cup {session[t]}
  /\ UNCHANGED <<row, replacedBy, expired, req, held, parent, session>>

Expire(t) ==
  /\ row[t] # "none" /\ t \notin expired
  /\ expired' = expired \cup {t}
  /\ UNCHANGED <<row, replacedBy, req, held, history, faults>>

-----------------------------------------------------------------------------
Next ==
  \/ \E t \in Tokens : Login(t) \/ Logout(t) \/ LogoutFails(t) \/ Expire(t)
  \/ \E q \in Requests :
       \/ \E t, n \in Tokens : Check(q, t, n)
       \/ Revoke(q) \/ Grant(q) \/ GrantUnheard(q) \/ AbortRefresh(q)

Spec == Init /\ [][Next]_vars

-----------------------------------------------------------------------------
(* Properties *)

TypeOK ==
  /\ row \in [Tokens -> {"none", "live", "revoked"}]
  /\ replacedBy \in [Tokens -> Maybe]
  /\ expired \subseteq Tokens
  /\ req \in [Requests -> [pc : {"idle", "checked", "rotated"},
                           tok : Maybe, new : Maybe]]
  /\ held \subseteq Tokens
  /\ parent \in [Tokens -> Maybe]
  /\ session \in [Tokens -> Maybe]
  /\ ended \subseteq Tokens
  /\ serial \in BOOLEAN
  /\ faults \in 0 .. MaxFaults

\* A revoked token stays revoked and its replaced_by is never rewritten, even
\* by a refresh that read it while it was live (repo.go:87-94).
RevokedForever ==
  \A t \in Tokens :
    row[t] = "revoked" =>
      row'[t] = "revoked" /\ replacedBy'[t] = replacedBy[t]

RevokedForeverAlways == [][RevokedForever]_vars

\* The token a refresh exchanged is dead before its successor exists, under
\* any overlap and after any failure between the statements (handler.go:218-221).
ParentDead ==
  \A n \in Tokens :
    row[n] # "none" /\ parent[n] # NoToken => row[parent[n]] = "revoked"

\* Rotation ("Rotate refresh token.", handler.go:217): a session has at most
\* one live token, while the client waits for its answers: refreshes that fail
\* between two statements and answers that are lost do not break it.
OneLive ==
  serial =>
    \A s, t \in Tokens :
      row[s] = "live" /\ row[t] = "live" /\ session[s] = session[t] => s = t

\* "Logged out" (api/auth-service.yaml:62): under the same condition the client
\* has no live token left of a session it has ended.
LogoutEnds ==
  serial => \A t \in held : row[t] = "live" => session[t] \notin ended

\* Without failures a session that was not logged out goes on, whatever requests
\* overlap: it has a live token, or a refresh is about to insert one.
SessionGoesOn ==
  faults = 0 =>
    \A s \in Tokens :
      session[s] = s /\ s \notin ended =>
        \/ \E t \in Tokens : row[t] = "live" /\ session[t] = s
        \/ \E q \in Requests : req[q].pc = "rotated" /\ session[req[q].tok] = s

\* What becomes of a session: it is open while one of its tokens can be presented
\* or a refresh that read one is under way.
Usable(t) == row[t] = "live" /\ t \notin expired

InUse(s) ==
  \/ \E t \in Tokens : Usable(t) /\ session[t] = s
  \/ \E q \in Requests : req[q].pc # "idle" /\ session[req[q].tok] = s

stateOf ==
  [s \in Tokens |->
     IF session[s] # s THEN "absent" ELSE IF InUse(s) THEN "open" ELSE "over"]

Lifecycle ==
  INSTANCE SessionLifecycle WITH Sessions <- Tokens, state <- stateOf

\* A session that has no usable token left, through logout, expiry or a refresh
\* that failed half-way, never gets one again, whatever requests overlap: only
\* a refresh that had read its token before could (handler.go:186-223).
SessionsEnd == Lifecycle!Spec
=============================================================================
