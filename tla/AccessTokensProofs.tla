------------------------- MODULE AccessTokensProofs -------------------------
(***************************************************************************)
(* Theorems about AccessTokens, for all lifetimes, clock differences and   *)
(* numbers of requests.                                                    *)
(***************************************************************************)
EXTENDS AccessTokens, TLAPS

\* A request in flight that vouches for role r, and the token it makes, has read
\* the user's row no longer ago than t.
RoleSince(r, t) == r = watched => right = watched \/ lostAt >= t

\* Who vouched for it, not before t.
VouchedSince(by, t) ==
  /\ mode = "required" => by # "local"
  /\ by = "directory" => listed \/ unlistedAt >= t

RequestInv ==
  \A q \in Requests :
    req[q] # Idle =>
      /\ req[q].start <= clock /\ clock <= req[q].start + Latency
      /\ RoleSince(req[q].role, req[q].start)
      /\ VouchedSince(req[q].by, req[q].start)

TokenInv ==
  token # NoToken =>
    /\ RoleSince(token.role, token.at - Latency)
    /\ token.role = watched /\ token.at <= clock
    /\ VouchedSince(token.by, token.at - Latency)

CodeInv ==
  firstUse # LongAgo =>
    /\ firstUse \in Nat /\ firstUse <= clock
    /\ code \in Nat /\ Accepts(code, firstUse)

AccessInv == TypeOK /\ RequestInv /\ TokenInv /\ CodeInv

-----------------------------------------------------------------------------
LEMMA ConstantTypes ==
  /\ AccessTTL \in Nat /\ Period \in Nat /\ Slack \in Nat /\ Latency \in Nat
  /\ MaxTime \in Nat /\ MaxChanges \in Nat /\ MaxSkew \in Nat
  /\ LongAgo \in Int /\ LongAgo < 0
BY AccessAssumption DEF LongAgo

LEMMA InitAccess == Init => AccessInv
<1> SUFFICES ASSUME Init PROVE AccessInv
  OBVIOUS
<1> USE ConstantTypes DEF Init
<1>1. TypeOK
  <2>1. /\ Idle \in [pc : {"idle", "password", "otp", "sign"}, role : Rights,
                     by : Actor, start : 0 .. MaxTime]
        /\ NoToken \in [role : Rights, at : 0 .. MaxTime, by : Actor]
    BY DEF Idle, NoToken, Rights, Actor
  <2>2. right \in Rights /\ 0 \in 0 .. MaxTime /\ 0 \in 0 .. MaxChanges
    BY DEF Rights
  <2> QED
    BY <2>1, <2>2 DEF TypeOK
<1>2. RequestInv /\ TokenInv /\ CodeInv
  BY DEF RequestInv, TokenInv, CodeInv
<1> QED
  BY <1>1, <1>2 DEF AccessInv

LEMMA NextType == TypeOK /\ [Next]_vars => TypeOK'
<1> SUFFICES ASSUME TypeOK, [Next]_vars PROVE TypeOK'
  OBVIOUS
<1> USE ConstantTypes DEF TypeOK, Rights, Idle, NoToken, Actor, userVars
<1>1. ASSUME NEW q \in Requests, LoginRead(q) PROVE TypeOK'
  BY <1>1 DEF LoginRead, Begin
<1>2. ASSUME NEW q \in Requests, NEW password, LoginPassword(q, password)
      PROVE  TypeOK'
  <2>1. \A answer : Vouch(password, answer) \in Actor
    BY DEF Vouch, Actor
  <2>2. PICK answer \in Directory(password) :
          req' = [req EXCEPT ![q] =
            IF Vouch(password, answer) = "nobody" THEN Idle
            ELSE [req[q] EXCEPT !.pc = "otp", !.by = Vouch(password, answer)]]
    BY <1>2 DEF LoginPassword
  <2>3. UNCHANGED <<mode, clock, userVars, token, session, code, firstUse>>
    BY <1>2 DEF LoginPassword
  <2>4. [req[q] EXCEPT !.pc = "otp", !.by = Vouch(password, answer)] \in
          [pc : {"idle", "password", "otp", "sign"}, role : Rights,
           by : Actor, start : 0 .. MaxTime]
    BY <2>1
  <2>5. Idle \in [pc : {"idle", "password", "otp", "sign"}, role : Rights,
                 by : Actor, start : 0 .. MaxTime]
    OBVIOUS
  <2> HIDE DEF Idle
  <2> QED
    BY <2>2, <2>3, <2>4, <2>5
<1>3. ASSUME NEW q \in Requests, LoginCode(q) PROVE TypeOK'
  BY <1>3 DEF LoginCode
<1>4. ASSUME NEW q \in Requests, LoginOther(q) PROVE TypeOK'
  BY <1>4 DEF LoginOther
<1>5. ASSUME NEW q \in Requests, RefreshRead(q) PROVE TypeOK'
  BY <1>5 DEF RefreshRead, Begin
<1>6. ASSUME NEW q \in Requests, Sign(q) PROVE TypeOK'
  BY <1>6 DEF Sign
<1>7. ASSUME NEW q \in Requests, Abort(q) PROVE TypeOK'
  BY <1>7 DEF Abort
<1>8. ASSUME NEW r \in Rights, ChangeUser(r) PROVE TypeOK'
  BY <1>8 DEF ChangeUser
<1>9. CASE Unlist
  <2>1. /\ clock \in Int /\ unlistedAt' = clock /\ listed' = FALSE
        /\ changes' \in 0 .. MaxChanges
        /\ UNCHANGED <<mode, clock, right, watched, lostAt, req, token, session,
                      code, firstUse>>
    BY <1>9 DEF Unlist
  <2> QED
    BY <2>1
<1>10. CASE Tick
  BY <1>10 DEF Tick
<1>11. CASE UNCHANGED vars
  BY <1>11 DEF vars
<1> QED
  BY <1>1, <1>2, <1>3, <1>4, <1>5, <1>6, <1>7, <1>8, <1>9, <1>10, <1>11 DEF Next

-----------------------------------------------------------------------------
\* A row that is read is read now, whatever role it gives.
LEMMA NextRequest == TypeOK /\ RequestInv /\ [Next]_vars => RequestInv'
<1> SUFFICES ASSUME TypeOK, RequestInv, [Next]_vars PROVE RequestInv'
  OBVIOUS
<1> USE ConstantTypes DEF TypeOK, userVars
<1>i. Idle.pc = "idle"
  BY DEF Idle
<1>t. \A q \in Requests : req[q].start \in Nat
  OBVIOUS
<1>a. ASSUME UNCHANGED <<mode, clock, userVars>>, NEW q \in Requests,
             \A p \in Requests : p # q => req'[p] = req[p],
             req'[q] # Idle =>
               /\ req'[q].start <= clock /\ clock <= req'[q].start + Latency
               /\ RoleSince(req'[q].role, req'[q].start)
               /\ VouchedSince(req'[q].by, req'[q].start)
      PROVE  RequestInv'
  BY <1>a DEF RequestInv, RoleSince, VouchedSince
<1>1. ASSUME NEW q \in Requests, NEW pc, NEW by \in {"nobody", "refresh"},
             Begin(q, pc, by), UNCHANGED <<mode, clock, userVars>>
      PROVE  RequestInv'
  <2>1. /\ req'[q] = [pc |-> pc, role |-> right, by |-> by, start |-> clock]
        /\ \A p \in Requests : p # q => req'[p] = req[p]
    BY <1>1 DEF Begin
  <2> QED
    BY <1>a, <1>1, <2>1 DEF RoleSince, VouchedSince
<1>2. ASSUME NEW q \in Requests, NEW password, LoginPassword(q, password)
      PROVE  RequestInv'
  <2>1. PICK answer \in Directory(password) :
          req' = [req EXCEPT ![q] =
            IF Vouch(password, answer) = "nobody" THEN Idle
            ELSE [req[q] EXCEPT !.pc = "otp", !.by = Vouch(password, answer)]]
    BY <1>2 DEF LoginPassword
  <2>2. /\ req[q] # Idle /\ UNCHANGED <<mode, clock, userVars>>
    BY <1>2, <1>i DEF LoginPassword
  <2>3. VouchedSince(Vouch(password, answer), req[q].start)
    BY DEF VouchedSince, Vouch, Directory
  <2>4. req'[q] # Idle =>
          /\ req'[q].start = req[q].start /\ req'[q].role = req[q].role
          /\ req'[q].by = Vouch(password, answer)
    BY <2>1
  <2>5. \A p \in Requests : p # q => req'[p] = req[p]
    BY <2>1
  <2> QED
    BY <1>a, <2>2, <2>3, <2>4, <2>5 DEF RequestInv
<1>3. ASSUME NEW q \in Requests, LoginCode(q) \/ LoginOther(q) PROVE RequestInv'
  <2>1. /\ req[q] # Idle /\ UNCHANGED <<mode, clock, userVars>>
        /\ req' = [req EXCEPT ![q].pc = "sign"]
    BY <1>3, <1>i DEF LoginCode, LoginOther
  <2>2. /\ req'[q].start = req[q].start /\ req'[q].role = req[q].role
        /\ req'[q].by = req[q].by
        /\ \A p \in Requests : p # q => req'[p] = req[p]
    BY <2>1
  <2> QED
    BY <1>a, <2>1, <2>2 DEF RequestInv
<1>4. ASSUME NEW q \in Requests, Sign(q) \/ Abort(q) PROVE RequestInv'
  <2>1. /\ UNCHANGED <<mode, clock, userVars>>
        /\ req' = [req EXCEPT ![q] = Idle]
    BY <1>4 DEF Sign, Abort
  <2> QED
    BY <1>a, <2>1
<1>5. ASSUME NEW r \in Rights, ChangeUser(r) PROVE RequestInv'
  <2>1. /\ UNCHANGED <<mode, clock, watched, listed, unlistedAt, req>>
        /\ right = watched => lostAt' = clock
        /\ right # watched => lostAt' = lostAt
    BY <1>5 DEF ChangeUser
  <2> QED
    BY <2>1, <1>t DEF RequestInv, RoleSince, VouchedSince
<1>6. CASE Unlist
  BY <1>6, <1>t DEF Unlist, RequestInv, RoleSince, VouchedSince
<1>7. CASE Tick
  <2>1. /\ UNCHANGED <<mode, userVars, req>> /\ clock' = clock + 1
        /\ \A q \in Requests : req[q] # Idle => clock - req[q].start < Latency
    BY <1>7 DEF Tick
  <2> QED
    BY <2>1, <1>t DEF RequestInv, RoleSince, VouchedSince
<1>8. CASE UNCHANGED vars
  BY <1>8 DEF vars, RequestInv, RoleSince, VouchedSince
<1>9. ASSUME NEW q \in Requests, LoginRead(q) \/ RefreshRead(q) PROVE RequestInv'
  BY <1>1, <1>9 DEF LoginRead, RefreshRead
<1> QED
  BY <1>2, <1>3, <1>4, <1>5, <1>6, <1>7, <1>8, <1>9 DEF Next

LEMMA NextToken == TypeOK /\ RequestInv /\ TokenInv /\ [Next]_vars => TokenInv'
<1> SUFFICES ASSUME TypeOK, RequestInv, TokenInv, [Next]_vars PROVE TokenInv'
  OBVIOUS
<1> USE ConstantTypes DEF userVars
<1>t. /\ clock \in Nat /\ lostAt \in Int /\ unlistedAt \in Int /\ token.at \in Nat
      /\ \A q \in Requests : req[q].start \in Nat
  BY DEF TypeOK
<1>1. CASE /\ token' = token /\ UNCHANGED <<mode, watched>> /\ clock' >= clock
           /\ right' = right /\ lostAt' = lostAt
           /\ listed' = listed /\ unlistedAt' = unlistedAt
           /\ clock' \in Nat
  BY <1>1, <1>t DEF TokenInv, RoleSince, VouchedSince
<1>2. ASSUME NEW q \in Requests, Sign(q), token' # token PROVE TokenInv'
  <2>1. /\ req[q] # Idle /\ req[q].role = watched
        /\ token' = [role |-> watched, at |-> clock, by |-> req[q].by]
        /\ UNCHANGED <<mode, clock, userVars>>
    BY <1>2 DEF Sign, Idle
  <2>2. /\ token'.role = watched /\ token'.at = clock /\ token'.by = req[q].by
    BY <2>1
  <2>3. /\ req[q].start >= clock - Latency
        /\ RoleSince(watched, req[q].start) /\ VouchedSince(req[q].by, req[q].start)
    BY <1>t, <2>1 DEF RequestInv
  <2> QED
    BY <1>t, <2>1, <2>2, <2>3 DEF TokenInv, RoleSince, VouchedSince
<1>3. ASSUME NEW r \in Rights, ChangeUser(r) PROVE TokenInv'
  <2>1. /\ UNCHANGED <<mode, clock, watched, listed, unlistedAt, token>>
        /\ right = watched => lostAt' = clock
        /\ right # watched => lostAt' = lostAt
    BY <1>3 DEF ChangeUser
  <2>2. token # NoToken => token.at - Latency <= clock
    BY <1>t DEF TokenInv
  <2> QED
    BY <2>1, <2>2, <1>t DEF TokenInv, RoleSince, VouchedSince
<1>4. CASE Unlist
  <2>1. /\ UNCHANGED <<mode, clock, right, watched, lostAt, token>>
        /\ unlistedAt' = clock
    BY <1>4 DEF Unlist
  <2>2. token # NoToken => token.at - Latency <= clock
    BY <1>t DEF TokenInv
  <2> QED
    BY <2>1, <2>2, <1>t DEF TokenInv, RoleSince, VouchedSince
<1>5. ASSUME NEW q \in Requests, NEW password,
             \/ LoginRead(q) \/ LoginCode(q) \/ LoginOther(q)
             \/ LoginPassword(q, password) \/ RefreshRead(q) \/ Abort(q)
      PROVE  TokenInv'
  <2>1. UNCHANGED <<mode, clock, userVars, token>>
    BY <1>5
       DEF LoginRead, LoginCode, LoginOther, LoginPassword, RefreshRead, Abort
  <2> QED
    BY <1>1, <1>t, <2>1
<1>6. CASE Tick \/ UNCHANGED vars
  BY <1>1, <1>6, <1>t DEF Tick, vars
<1>7. ASSUME NEW q \in Requests, Sign(q), token' = token PROVE TokenInv'
  BY <1>1, <1>7, <1>t DEF Sign
<1> QED
  BY <1>2, <1>3, <1>4, <1>5, <1>6, <1>7 DEF Next

-----------------------------------------------------------------------------
\* The period a code belongs to, as inequalities.
LEMMA PeriodOf ==
  ASSUME NEW t \in Int, NEW c \in Int, Counter(t) = c
  PROVE  c * Period <= t /\ t < c * Period + Period
BY AccessAssumption DEF Counter

LEMMA AcceptedPeriods ==
  ASSUME NEW t \in Int, NEW c \in Int, Accepts(c, t)
  PROVE  c * Period - Period <= t /\ t < c * Period + 2 * Period
<1>1. PICK i \in -1 .. 1 : Counter(t + i * Period) = c
  BY DEF Accepts
<1>2. i * Period \in {-Period, 0, Period}
  BY ConstantTypes
<1>3. DEFINE u == t + i * Period
<1>4. c * Period <= u /\ u < c * Period + Period
  BY <1>1, <1>2, ConstantTypes, PeriodOf
<1> QED
  BY <1>2, <1>4, ConstantTypes

LEMMA NextCode == TypeOK /\ CodeInv /\ [Next]_vars => CodeInv'
<1> SUFFICES ASSUME TypeOK, CodeInv, [Next]_vars PROVE CodeInv'
  OBVIOUS
<1>t. clock \in Nat
  BY ConstantTypes DEF TypeOK
<1>1. ASSUME UNCHANGED <<code, firstUse>>, clock' \in {clock, clock + 1}
      PROVE  CodeInv'
  BY <1>t, <1>1 DEF CodeInv
<1>2. ASSUME NEW q \in Requests, LoginCode(q) PROVE CodeInv'
  <2>1. /\ UNCHANGED <<clock, code>> /\ code # NoCode /\ Accepts(code, clock)
        /\ firstUse' = IF firstUse = LongAgo THEN clock ELSE firstUse
    BY <1>2 DEF LoginCode
  <2>2. code \in Nat
    BY <2>1, AccessAssumption DEF TypeOK, Codes, NoCode
  <2> QED
    BY <1>t, <2>1, <2>2 DEF CodeInv
<1>3. ASSUME NEW q \in Requests, NEW password,
             \/ LoginRead(q) \/ LoginOther(q) \/ LoginPassword(q, password)
             \/ RefreshRead(q) \/ Sign(q) \/ Abort(q)
      PROVE  CodeInv'
  BY <1>1, <1>3 DEF LoginRead, LoginOther, LoginPassword, RefreshRead, Sign, Abort
<1>4. ASSUME NEW r \in Rights, ChangeUser(r) PROVE CodeInv'
  BY <1>1, <1>4 DEF ChangeUser
<1>5. CASE Unlist \/ Tick \/ UNCHANGED vars
  BY <1>1, <1>5 DEF Unlist, Tick, vars
<1> QED
  BY <1>2, <1>3, <1>4, <1>5 DEF Next

LEMMA AccessInvariant == Spec => []AccessInv
<1>1. AccessInv /\ [Next]_vars => AccessInv'
  BY NextType, NextRequest, NextToken, NextCode DEF AccessInv
<1> QED
  BY <1>1, InitAccess, PTL DEF Spec

\* Type correctness for any lifetimes, clocks and requests.
THEOREM TypeCorrect == Spec => []TypeOK
<1>1. AccessInv => TypeOK
  BY DEF AccessInv
<1> QED
  BY <1>1, AccessInvariant, PTL

\* Whoever loses a role has lost it at every service one token lifetime, one
\* request and the difference of the clocks later, however many refreshes follow
\* one another: each reads the user's row anew (handler.go:163-231).
THEOREM LostRoleRunsOut == Spec => []RightsFresh
<1>1. AccessInv => RightsFresh
  <2> SUFFICES ASSUME AccessInv, NEW s \in Services,
                      token # NoToken, Accepted(s, token), token.role # right
               PROVE  lostAt > clock + Skew[s] - AccessTTL - Latency
    BY DEF RightsFresh
  <2>1. token.role = watched /\ lostAt >= token.at - Latency
    BY DEF AccessInv, TokenInv, RoleSince
  <2>2. token.at > clock + Skew[s] - AccessTTL
    BY AccessAssumption DEF Accepted, AccessInv, TypeOK
  <2>3. /\ lostAt \in Int /\ clock \in Int /\ token.at \in Int
        /\ Skew[s] \in Int
    BY AccessAssumption DEF AccessInv, TypeOK
  <2> QED
    BY <2>1, <2>2, <2>3, ConstantTypes
<1> QED
  BY <1>1, AccessInvariant, PTL

\* The directory's word is asked for at each login and needed in mode required
\* (handler.go:93-111).
THEOREM DirectoryAsked == Spec => []DirectoryDecides
<1>1. AccessInv => DirectoryDecides
  BY DEF AccessInv, TokenInv, VouchedSince, DirectoryDecides, NoToken
<1> QED
  BY <1>1, AccessInvariant, PTL

\* A one-time password that was used once is refused three periods later, for
\* every length of a period (totp.go:55-78).
THEOREM CodeRunsOut == Spec => []CodeShortLived
<1>1. AccessInv => CodeShortLived
  <2> SUFFICES ASSUME AccessInv, firstUse # LongAgo, Accepts(code, clock)
               PROVE  clock - firstUse < 3 * Period
    BY DEF CodeShortLived
  <2>1. /\ firstUse \in Int /\ clock \in Int /\ code \in Int
        /\ Accepts(code, firstUse)
    BY DEF AccessInv, CodeInv, TypeOK
  <2>2. code * Period - Period <= firstUse /\ clock < code * Period + 2 * Period
    BY <2>1, AcceptedPeriods
  <2>3. code * Period \in Int
    BY <2>1, ConstantTypes
  <2> QED
    BY <2>1, <2>2, <2>3, ConstantTypes
<1> QED
  BY <1>1, AccessInvariant, PTL
=============================================================================
