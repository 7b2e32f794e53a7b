---------------------------- MODULE AccessTokens ----------------------------
(***************************************************************************)
(* What an access token is worth.  auth-service signs into it the role it  *)
(* read from table users; the other services check the signature and the   *)
(* times in the token, and never ask again.  This module follows one user  *)
(* from the password (LDAP, local or both) and the one-time password to    *)
(* the token, through refreshes, and to the services that accept it, while *)
(* the user's role, activity and directory entry change.                   *)
(*                                                                         *)
(* What becomes of the refresh token is module AuthSession, of the secret  *)
(* behind the one-time password module AuthMfa.                            *)
(***************************************************************************)
EXTENDS Integers, FiniteSets

CONSTANTS
  Roles,        \* role names
  Nothing,      \* the rights of a user whose is_active is false
  Services,     \* services that accept tokens
  Skew,         \* [Services -> by how much their clock differs from auth-service's]
  MaxSkew,      \* the largest of these differences
  AccessTTL,    \* lifetime of an access token (15 min)
  Slack,        \* how far back nbf is set (5 s)
  Period,       \* TOTP: the period of a code (30 s)
  Requests,     \* bound: requests in flight
  Latency,      \* how long a request takes at most
  MaxTime,      \* bound: ticks
  MaxChanges    \* bound: changes of the user's row and of the directory

ASSUME AccessAssumption ==
  /\ Nothing \notin Roles /\ Roles # {}
  /\ Skew \in [Services -> Int] /\ MaxSkew \in Nat
  /\ \A s \in Services : Skew[s] \in -MaxSkew .. MaxSkew
  /\ AccessTTL \in Nat \ {0} /\ Period \in Nat \ {0}
  /\ Slack \in Nat /\ Latency \in Nat /\ MaxTime \in Nat /\ MaxChanges \in Nat

Rights == Roles \cup {Nothing}
Modes == {"disabled", "prefer", "required"}

VARIABLES
  mode,        \* AUTH_LDAP_MODE, of a directory that is configured
  clock,       \* auth-service's
  right,       \* table users: role, or Nothing if not is_active
  watched,     \* the role under observation: any one
  lostAt,      \* history: when the user last ceased to have it
  changes,     \* changes of the user's row and of the directory so far
  listed,      \* does the directory know the user?
  unlistedAt,  \* history: when it last ceased to
  req,         \* [Requests -> how far a login or a refresh is]
  token,       \* the access token under observation: any one of that role
  session,     \* does the client have a refresh token?
  code,        \* the one-time password under observation, or NoCode
  firstUse     \* history: when it was first accepted

vars == <<mode, clock, right, watched, lostAt, changes, listed, unlistedAt, req, token,
          session, code, firstUse>>

userVars == <<right, watched, lostAt, changes, listed, unlistedAt>>

\* No token is under observation.
NoToken == [role |-> Nothing, at |-> 0, by |-> "nobody"]

\* Before anything a token could still be accepted for.
LongAgo == 0 - AccessTTL - Latency - MaxSkew

\* Code n is the one of the n-th period.
Codes == 0 .. MaxTime \div Period
NoCode == -1

Idle == [pc |-> "idle", role |-> Nothing, by |-> "nobody", start |-> 0]

Init ==
  /\ mode \in Modes
  /\ clock = 0
  /\ right \in Roles
  /\ watched \in Roles
  /\ lostAt = LongAgo
  /\ changes = 0
  /\ listed = TRUE
  /\ unlistedAt = LongAgo
  /\ req = [q \in Requests |-> Idle]
  /\ token = NoToken
  /\ session = FALSE
  /\ code \in Codes \cup {NoCode}
  /\ firstUse = LongAgo

-----------------------------------------------------------------------------
(* One-time passwords *)

\* totp: the counter a code is computed from.
Counter(t) == t \div Period

\* Variant: two periods either way.
AcceptsWide(c, t) == \E i \in -2 .. 2 : Counter(t + i * Period) = c

\* VerifyTOTP with window 1.  A code that was used is not remembered.
Accepts(c, t) == \E i \in -1 .. 1 : Counter(t + i * Period) = c

-----------------------------------------------------------------------------
(* POST /auth/login *)

\* The user's row is read: active, and in which role.
Begin(q, pc, by) ==
  /\ req[q] = Idle
  /\ right # Nothing
  /\ req' = [req EXCEPT ![q] =
       [pc |-> pc, role |-> right, by |-> by, start |-> clock]]

LoginRead(q) ==
  /\ Begin(q, "password", "nobody")
  /\ UNCHANGED <<mode, clock, userVars, token, session, code, firstUse>>

\* ldapauth.Authenticate: yes or no, as far as the directory answers at all.
Directory(password) ==
  {"error", IF listed /\ password = "directory" THEN "yes" ELSE "no"}

\* Variant: an error of the directory always falls back to the local password.
VouchLenient(password, answer) ==
  IF mode # "disabled" /\ answer = "yes" THEN "directory"
  ELSE IF password = "local" /\ (mode # "required" \/ answer = "error") THEN "local"
  ELSE "nobody"

\* Who vouches for the password: the directory in modes prefer and required,
\* or else, except in mode required, the hash in table users.
Vouch(password, answer) ==
  IF mode # "disabled" /\ answer = "yes" THEN "directory"
  ELSE IF password = "local" /\ mode # "required" THEN "local"
  ELSE "nobody"

LoginPassword(q, password) ==
  /\ req[q].pc = "password"
  /\ \E answer \in Directory(password) :
       req' = [req EXCEPT ![q] =
         IF Vouch(password, answer) = "nobody" THEN Idle
         ELSE [@ EXCEPT !.pc = "otp", !.by = Vouch(password, answer)]]
  /\ UNCHANGED <<mode, clock, userVars, token, session, code, firstUse>>

\* The user has MFA on: code is sent, now or again, or another one.
LoginCode(q) ==
  /\ req[q].pc = "otp"
  /\ code # NoCode /\ Accepts(code, clock)
  /\ req' = [req EXCEPT ![q].pc = "sign"]
  /\ firstUse' = IF firstUse = LongAgo THEN clock ELSE firstUse
  /\ UNCHANGED <<mode, clock, userVars, token, session, code>>

LoginOther(q) ==
  /\ req[q].pc = "otp"
  /\ req' = [req EXCEPT ![q].pc = "sign"]
  /\ UNCHANGED <<mode, clock, userVars, token, session, code, firstUse>>
-----------------------------------------------------------------------------
(* POST /auth/refresh and the token *)

\* Variant: the refresh keeps the role of the token it renews.
RefreshKeepsRole(q) ==
  /\ session
  /\ req[q] = Idle
  /\ token # NoToken
  /\ req' = [req EXCEPT ![q] =
       [pc |-> "sign", role |-> token.role, by |-> "refresh", start |-> clock]]
  /\ UNCHANGED <<mode, clock, userVars, token, session, code, firstUse>>

\* Refresh, up to the user's row: read anew, so a user who was deactivated or
\* has another role now does not get the old one again.  The directory is not
\* asked.
RefreshRead(q) ==
  /\ session
  /\ Begin(q, "sign", "refresh")
  /\ UNCHANGED <<mode, clock, userVars, token, session, code, firstUse>>

\* NewAccessToken, and the answer.  Tokens depend neither on one another nor on
\* which code was sent: it is enough to observe one of either.
Sign(q) ==
  /\ req[q].pc = "sign"
  /\ req' = [req EXCEPT ![q] = Idle]
  /\ \/ UNCHANGED token
     \/ /\ code = NoCode /\ req[q].role = watched
        /\ token' = [role |-> watched, at |-> clock, by |-> req[q].by]
  /\ session' = TRUE
  /\ UNCHANGED <<mode, clock, userVars, code, firstUse>>

\* Any step of Login or Refresh fails: an error, and no token.
Abort(q) ==
  /\ req[q] # Idle
  /\ req' = [req EXCEPT ![q] = Idle]
  /\ UNCHANGED <<mode, clock, userVars, token, session, code, firstUse>>

\* Variant: a token is good for twice its time.
AcceptedLong(s, t) ==
  /\ t.at - Slack <= clock + Skew[s]
  /\ clock + Skew[s] < t.at + 2 * AccessTTL

\* ParseAndValidate in JWTAuth of service s: nbf and exp, by its own clock.
Accepted(s, t) ==
  /\ t.at - Slack <= clock + Skew[s]
  /\ clock + Skew[s] < t.at + AccessTTL

-----------------------------------------------------------------------------
(* The world around them *)

\* An operator gives the user another role, or deactivates or reactivates the
\* account, in the database.
ChangeUser(r) ==
  /\ changes < MaxChanges
  /\ r # right
  /\ right' = r
  /\ lostAt' = IF right = watched THEN clock ELSE lostAt
  /\ changes' = changes + 1
  /\ UNCHANGED <<mode, clock, watched, listed, unlistedAt, req, token, session, code, firstUse>>

\* The user is removed from the directory.
Unlist ==
  /\ listed
  /\ changes < MaxChanges
  /\ changes' = changes + 1
  /\ listed' = FALSE
  /\ unlistedAt' = clock
  /\ UNCHANGED <<mode, clock, right, watched, lostAt, req, token, session, code, firstUse>>

\* Time passes, for no request longer than Latency.
Tick ==
  /\ clock < MaxTime
  /\ \A q \in Requests : req[q] # Idle => clock - req[q].start < Latency
  /\ clock' = clock + 1
  /\ UNCHANGED <<mode, userVars, req, token, session, code, firstUse>>

Next ==
  \/ \E q \in Requests :
       \/ LoginRead(q) \/ LoginCode(q) \/ LoginOther(q)
       \/ \E password \in {"directory", "local", "wrong"} : LoginPassword(q, password)
       \/ RefreshRead(q) \/ Sign(q) \/ Abort(q)
  \/ \E r \in Rights : ChangeUser(r)
  \/ Unlist \/ Tick

Spec == Init /\ [][Next]_vars

-----------------------------------------------------------------------------
(* Properties *)

Actor == {"nobody", "directory", "local", "refresh"}

TypeOK ==
  /\ mode \in Modes
  /\ clock \in 0 .. MaxTime
  /\ right \in Rights
  /\ watched \in Roles
  /\ lostAt \in Int
  /\ changes \in 0 .. MaxChanges
  /\ listed \in BOOLEAN
  /\ unlistedAt \in Int
  /\ req \in [Requests -> [pc : {"idle", "password", "otp", "sign"}, role : Rights,
                           by : Actor, start : 0 .. MaxTime]]
  /\ token \in [role : Rights, at : 0 .. MaxTime, by : Actor]
  /\ session \in BOOLEAN
  /\ code \in Codes \cup {NoCode}
  /\ firstUse \in Int

\* A role that a service still accepts is the user's, or was at most AccessTTL
\* and one request ago (and the difference of two clocks): whoever loses a role
\* or is deactivated has lost it everywhere after that time, refreshes and
\* requests on their way included (handler.go:163-231, jwt.go:71-136).
RightsFresh ==
  \A s \in Services :
    token # NoToken /\ Accepted(s, token) =>
      \/ token.role = right
      \/ lostAt > clock + Skew[s] - AccessTTL - Latency

\* In mode required nobody logs in on the local password, and in any mode the
\* directory vouches for nobody it had ceased to know when the request began
\* (handler.go:93-111).  A session it vouched for once goes on without it.
DirectoryDecides ==
  /\ mode = "required" => token.by # "local"
  /\ token.by = "directory" => listed \/ unlistedAt >= token.at - Latency

\* One one-time password is good for less than three periods, however often it
\* is sent (totp.go:72-78).
CodeShortLived ==
  firstUse # LongAgo /\ Accepts(code, clock) => clock - firstUse < 3 * Period
=============================================================================
