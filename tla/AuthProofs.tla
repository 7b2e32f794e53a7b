----------------------------- MODULE AuthProofs -----------------------------
(***************************************************************************)
(* Theorems about auth-service: AuthSession, for every set of tokens and   *)
(* requests and every number of faults, and AuthMfa, for every set of      *)
(* secrets and of calls.                                                   *)
(***************************************************************************)
EXTENDS AuthSession, AuthMfa, TLAPS


InFlight(q) == req[q].pc # "idle"

\* A refresh in flight knows a token that was live and an id not yet inserted;
\* once past the second statement its token is dead.  A row that does not exist
\* has no parent and is held by nobody, and a row that does has a session that
\* does.
FlightInv ==
  /\ \A q \in Requests :
       InFlight(q) =>
         /\ req[q].tok \in Tokens /\ row[req[q].tok] # "none"
         /\ req[q].new \in Tokens /\ row[req[q].new] = "none"
         /\ req[q].pc = "rotated" => row[req[q].tok] = "revoked"
  /\ \A p, q \in Requests :
       InFlight(p) /\ InFlight(q) /\ req[p].new = req[q].new => p = q
  /\ \A t \in Tokens : row[t] = "none" => parent[t] = NoToken
  /\ \A t \in Tokens :
       row[t] # "none" => session[t] \in Tokens /\ row[session[t]] # "none"
  /\ \A s \in held \cup ended : row[s] # "none"

CoreInv == TypeOK /\ FlightInv /\ ParentDead

-----------------------------------------------------------------------------
LEMMA InitCore == Init => CoreInv
BY SessionAssumption
   DEF Init, CoreInv, TypeOK, FlightInv, ParentDead, InFlight, Idle, Maybe

LEMMA NextType == TypeOK /\ FlightInv /\ [Next]_vars => TypeOK'
<1> SUFFICES ASSUME TypeOK, FlightInv, [Next]_vars PROVE TypeOK'
  OBVIOUS
<1> USE DEF TypeOK, Maybe, history, Send
<1>0. MaxFaults \in Nat
  BY SessionAssumption
<1>1. ASSUME NEW n \in Tokens, Login(n) PROVE TypeOK'
  BY <1>1 DEF Login
<1>2. ASSUME NEW t \in Tokens, Logout(t) PROVE TypeOK'
  <2>1. session[t] \in Tokens
    BY <1>2 DEF Logout, FlightInv
  <2> QED
    BY <1>2, <2>1 DEF Logout
<1>3. ASSUME NEW t \in Tokens, LogoutFails(t) PROVE TypeOK'
  <2>1. session[t] \in Tokens
    BY <1>3 DEF LogoutFails, FlightInv
  <2>2. faults' \in 0 .. MaxFaults
    BY <1>0, <1>3 DEF LogoutFails, Fault
  <2>3. serial' \in BOOLEAN
    BY <1>3 DEF LogoutFails
  <2> QED
    BY <1>3, <2>1, <2>2, <2>3 DEF LogoutFails
<1>4. ASSUME NEW t \in Tokens, Expire(t) PROVE TypeOK'
  BY <1>4 DEF Expire
<1>5. ASSUME NEW q \in Requests, NEW t \in Tokens, NEW n \in Tokens,
             Check(q, t, n)
      PROVE  TypeOK'
  BY <1>5 DEF Check
<1>6. ASSUME NEW q \in Requests, Revoke(q) PROVE TypeOK'
  BY <1>6 DEF Revoke
<1>7. ASSUME NEW q \in Requests, InsertSuccessor(q)
      PROVE  /\ row' \in [Tokens -> {"none", "live", "revoked"}]
             /\ parent' \in [Tokens -> Maybe]
             /\ session' \in [Tokens -> Maybe]
             /\ req' \in [Requests -> [pc : {"idle", "checked", "rotated"},
                                       tok : Maybe, new : Maybe]]
             /\ req[q].new \in Tokens
  <2>1. req[q].tok \in Tokens /\ req[q].new \in Tokens
    BY <1>7 DEF InsertSuccessor, FlightInv, InFlight
  <2> QED
    BY <1>7, <2>1 DEF InsertSuccessor, Idle
<1>8. ASSUME NEW q \in Requests, Grant(q) PROVE TypeOK'
  BY <1>7, <1>8 DEF Grant
<1>9. ASSUME NEW q \in Requests, GrantUnheard(q) PROVE TypeOK'
  BY <1>0, <1>7, <1>9 DEF GrantUnheard, Fault
<1>10. ASSUME NEW q \in Requests, AbortRefresh(q) PROVE TypeOK'
  BY <1>0, <1>10 DEF AbortRefresh, Fault, Idle
<1>11. CASE UNCHANGED vars
  BY <1>11 DEF vars
<1> QED
  BY <1>1, <1>2, <1>3, <1>4, <1>5, <1>6, <1>8, <1>9, <1>10, <1>11 DEF Next

LEMMA NextFlight == CoreInv /\ [Next]_vars => FlightInv' /\ ParentDead'
<1> SUFFICES ASSUME CoreInv, [Next]_vars PROVE FlightInv' /\ ParentDead'
  OBVIOUS
<1> USE DEF CoreInv, TypeOK, Maybe, FlightInv, ParentDead, InFlight, history
<1>1. ASSUME NEW n \in Tokens, Login(n) PROVE FlightInv' /\ ParentDead'
  BY <1>1, SessionAssumption DEF Login, Fresh
<1>2. ASSUME NEW t \in Tokens, Logout(t) PROVE FlightInv' /\ ParentDead'
  <2>1. \A x \in Tokens :
          /\ row'[x] = "none" <=> row[x] = "none"
          /\ row[x] = "revoked" => row'[x] = "revoked"
    BY <1>2 DEF Logout
  <2>2. /\ ended' = ended \cup {session[t]} /\ row[t] # "none"
        /\ UNCHANGED <<req, held, parent, session>>
    BY <1>2 DEF Logout
  <2> QED
    BY <2>1, <2>2
<1>3. ASSUME NEW t \in Tokens, LogoutFails(t) PROVE FlightInv' /\ ParentDead'
  BY <1>3 DEF LogoutFails
<1>4. ASSUME NEW t \in Tokens, Expire(t) PROVE FlightInv' /\ ParentDead'
  BY <1>4 DEF Expire
<1>5. ASSUME NEW q \in Requests, NEW t \in Tokens, NEW n \in Tokens,
             Check(q, t, n)
      PROVE  FlightInv' /\ ParentDead'
  BY <1>5 DEF Check, Fresh
<1>6. ASSUME NEW q \in Requests, Revoke(q) PROVE FlightInv' /\ ParentDead'
  BY <1>6 DEF Revoke
<1>7. ASSUME NEW q \in Requests, InsertSuccessor(q), UNCHANGED ended,
             held' \subseteq held \cup {req[q].new}
      PROVE  FlightInv' /\ ParentDead'
  <2> DEFINE n == req[q].new
             t == req[q].tok
  <2>1. /\ n \in Tokens /\ t \in Tokens /\ n # t
        /\ row[n] = "none" /\ row[t] = "revoked"
        /\ session[t] \in Tokens /\ row[session[t]] # "none"
    BY <1>7 DEF InsertSuccessor
  <2>2. /\ row' = [row EXCEPT ![n] = "live"]
        /\ parent' = [parent EXCEPT ![n] = t]
        /\ session' = [session EXCEPT ![n] = session[t]]
        /\ req' = [req EXCEPT ![q] = Idle]
    BY <1>7 DEF InsertSuccessor
  <2> HIDE DEF n, t
  <2>3. \A p \in Requests : req'[p].pc # "idle" => p # q /\ req'[p] = req[p]
    BY <2>2 DEF Idle
  <2>4. \A p \in Requests : p # q /\ req[p].pc # "idle" => req[p].new # n
    BY <1>7 DEF InsertSuccessor, n
  <2>h. held' \subseteq held \cup {n} /\ ended' = ended
    BY <1>7 DEF n
  <2>5. FlightInv'
    BY <2>1, <2>2, <2>3, <2>4, <2>h
  <2>6. ParentDead'
    BY <2>1, <2>2
  <2> QED
    BY <2>5, <2>6
<1>8. ASSUME NEW q \in Requests, Grant(q) PROVE FlightInv' /\ ParentDead'
  BY <1>7, <1>8 DEF Grant
<1>9. ASSUME NEW q \in Requests, GrantUnheard(q)
      PROVE  FlightInv' /\ ParentDead'
  BY <1>7, <1>9 DEF GrantUnheard
<1>10. ASSUME NEW q \in Requests, AbortRefresh(q)
       PROVE  FlightInv' /\ ParentDead'
  BY <1>10 DEF AbortRefresh, Idle
<1>11. CASE UNCHANGED vars
  BY <1>11 DEF vars
<1> QED
  BY <1>1, <1>2, <1>3, <1>4, <1>5, <1>6, <1>8, <1>9, <1>10, <1>11 DEF Next

LEMMA NextCore == CoreInv /\ [Next]_vars => CoreInv'
BY NextType, NextFlight DEF CoreInv

\* Every variable keeps its type: the rows of refresh_tokens are absent, live or
\* revoked, and a request in flight is between two statements (repo.go:60-94).
THEOREM TypeCorrect == Spec => []TypeOK
<1>1. CoreInv => TypeOK
  BY DEF CoreInv
<1> QED
  BY <1>1, InitCore, NextCore, PTL DEF Spec

\* The token a refresh exchanged is dead before its successor exists: the order
\* of the statements keeps it so under every overlap and every failure.
THEOREM ExchangedIsDead == Spec => [](TypeOK /\ ParentDead)
<1>1. CoreInv => TypeOK /\ ParentDead
  BY DEF CoreInv
<1> QED
  BY <1>1, InitCore, NextCore, PTL DEF Spec

LEMMA NextRevoked == CoreInv /\ [Next]_vars => RevokedForever
<1> SUFFICES ASSUME CoreInv, [Next]_vars, NEW x \in Tokens, row[x] = "revoked"
             PROVE  row'[x] = "revoked" /\ replacedBy'[x] = replacedBy[x]
  BY DEF RevokedForever
<1> USE DEF CoreInv, TypeOK
<1>1. ASSUME NEW n \in Tokens, Login(n) \/ Logout(n) \/ LogoutFails(n) \/ Expire(n)
      PROVE  row'[x] = "revoked" /\ replacedBy'[x] = replacedBy[x]
  BY <1>1 DEF Login, Fresh, Logout, LogoutFails, Expire
<1>2. ASSUME NEW q \in Requests, NEW t \in Tokens, NEW n \in Tokens,
             Check(q, t, n)
      PROVE  row'[x] = "revoked" /\ replacedBy'[x] = replacedBy[x]
  BY <1>2 DEF Check
<1>3. ASSUME NEW q \in Requests, Revoke(q)
      PROVE  row'[x] = "revoked" /\ replacedBy'[x] = replacedBy[x]
  BY <1>3 DEF Revoke
<1>4. ASSUME NEW q \in Requests, Grant(q) \/ GrantUnheard(q)
      PROVE  row'[x] = "revoked" /\ replacedBy'[x] = replacedBy[x]
  <2>1. req[q].new # x
    BY <1>4 DEF Grant, GrantUnheard, InsertSuccessor, FlightInv, InFlight
  <2> QED
    BY <1>4, <2>1 DEF Grant, GrantUnheard, InsertSuccessor
<1>5. ASSUME NEW q \in Requests, AbortRefresh(q)
      PROVE  row'[x] = "revoked" /\ replacedBy'[x] = replacedBy[x]
  BY <1>5 DEF AbortRefresh
<1> QED
  BY <1>1, <1>2, <1>3, <1>4, <1>5 DEF Next, vars

\* A revoked token never comes back, not even through a refresh that had read
\* it live, and its replaced_by is written once.
THEOREM RevocationIsFinal == Spec => RevokedForeverAlways
<1>1. CoreInv /\ [Next]_vars => [RevokedForever]_vars
  BY NextRevoked
<1> QED
  BY <1>1, InitCore, NextCore, PTL DEF Spec, RevokedForeverAlways
-----------------------------------------------------------------------------
(* A client that waits for its answers *)

\* The only refresh in flight finds its token as it read it; once past the
\* second statement its session has no live token.  It belongs to a session
\* nobody has logged out of.  The client has one token per session.
SerialClientInv ==
  /\ \A p, q \in Requests : InFlight(p) /\ InFlight(q) => p = q
  /\ \A q \in Requests :
       InFlight(q) =>
         /\ req[q].tok \in held
         /\ session[req[q].tok] \notin ended
         /\ req[q].pc = "checked" => row[req[q].tok] = "live"
         /\ req[q].pc = "rotated" =>
              \A t \in Tokens :
                row[t] = "live" => session[t] # session[req[q].tok]
  /\ \A s, t \in held : session[s] = session[t] => s = t
  /\ OneLive
  /\ LogoutEnds

SerialInv == serial => SerialClientInv

LEMMA InitSerial == Init => SerialInv
BY DEF Init, SerialInv, SerialClientInv, InFlight, Idle, OneLive, LogoutEnds

LEMMA NextSerial == CoreInv /\ SerialInv /\ [Next]_vars => SerialInv'
<1> SUFFICES ASSUME CoreInv, SerialInv, [Next]_vars, serial'
             PROVE  SerialClientInv'
  BY DEF SerialInv
<1>s. serial
  BY DEF Next, vars, history, Send, Login, Logout, LogoutFails, Expire, Check,
         Revoke, Grant, GrantUnheard, AbortRefresh, CoreInv, TypeOK
<1>c. SerialClientInv
  BY <1>s DEF SerialInv
<1> USE <1>s, <1>c DEF CoreInv, TypeOK, Maybe, FlightInv, InFlight,
                       SerialClientInv, OneLive, LogoutEnds, history
<1>a. Send => \A q \in Requests : req[q].pc = "idle"
  BY DEF Send
<1>1. ASSUME NEW n \in Tokens, Login(n) PROVE SerialClientInv'
  <2>1. /\ row[n] = "none" /\ n \notin ended /\ n \notin held
        /\ \A t \in Tokens : row[t] # "none" => session[t] # n
    BY <1>1 DEF Login, Fresh
  <2>2. /\ row' = [row EXCEPT ![n] = "live"]
        /\ session' = [session EXCEPT ![n] = n]
        /\ held' = held \cup {n}
        /\ UNCHANGED <<req, ended>>
    BY <1>1 DEF Login
  <2>3. \A p \in Requests : req'[p].pc = "idle"
    BY <1>1, <1>a, <2>2 DEF Login
  <2>4. \A s, t \in held' : session'[s] = session'[t] => s = t
    BY <2>1, <2>2
  <2>5. OneLive' /\ LogoutEnds'
    BY <2>1, <2>2
  <2> QED
    BY <2>3, <2>4, <2>5
<1>2. ASSUME NEW t \in Tokens, Logout(t) PROVE SerialClientInv'
  <2>1. /\ \A x \in Tokens : row'[x] = "live" => row[x] = "live" /\ x # t
        /\ t \in held /\ ended' = ended \cup {session[t]}
        /\ UNCHANGED <<req, held, session>>
    BY <1>2 DEF Logout
  <2>2. \A p \in Requests : req'[p].pc = "idle"
    BY <1>2, <1>a, <2>1 DEF Logout
  <2>3. OneLive' /\ LogoutEnds'
    BY <2>1
  <2> QED
    BY <2>1, <2>2, <2>3
<1>3. ASSUME NEW t \in Tokens PROVE ~ LogoutFails(t)
  BY DEF LogoutFails
<1>4. ASSUME NEW t \in Tokens, Expire(t) PROVE SerialClientInv'
  BY <1>4 DEF Expire
<1>5. ASSUME NEW q \in Requests, NEW t \in Tokens, NEW n \in Tokens,
             Check(q, t, n)
      PROVE  SerialClientInv'
  BY <1>5, <1>a DEF Check
<1>6. ASSUME NEW q \in Requests, Revoke(q) PROVE SerialClientInv'
  <2> DEFINE t == req[q].tok
  <2>1. /\ t \in Tokens /\ row[t] = "live"
        /\ row' = [row EXCEPT ![t] = "revoked"]
        /\ req' = [req EXCEPT ![q].pc = "rotated"]
        /\ UNCHANGED <<session, ended>>
    BY <1>6 DEF Revoke
  <2>2. /\ \A p \in Requests : p # q => req[p].pc = "idle" /\ req'[p] = req[p]
        /\ t \in held /\ held' = held
    BY <1>6, <2>1 DEF Revoke
  <2>3. req'[q].pc = "rotated" /\ req'[q].tok = t
    BY <2>1
  <2>4. \A x \in Tokens : row'[x] = "live" => row[x] = "live" /\ x # t
    BY <2>1
  <2> HIDE DEF t
  <2>5. \A x \in Tokens : row'[x] = "live" => session'[x] # session'[t]
    BY <2>1, <2>4
  <2>6. session[t] \notin ended
    BY <1>6 DEF Revoke, t
  <2>7. OneLive' /\ LogoutEnds'
    BY <2>1, <2>2, <2>4
  <2>p. \A p \in Requests : req'[p].pc # "idle" => p = q
    BY <2>2
  <2>8. \A x, y \in held' : session'[x] = session'[y] => x = y
    BY <2>1, <2>2
  <2> QED
    BY <2>1, <2>2, <2>3, <2>5, <2>6, <2>7, <2>8, <2>p
<1>7. ASSUME NEW q \in Requests, InsertSuccessor(q), UNCHANGED ended,
             held' \in {held, (held \ {req[q].tok}) \cup {req[q].new}}
      PROVE  SerialClientInv'
  <2> DEFINE n == req[q].new
             t == req[q].tok
  <2>1. /\ n \in Tokens /\ t \in Tokens /\ n # t
        /\ t \in held /\ n \notin held
        /\ session[t] \notin ended
        /\ \A x \in Tokens : row[x] = "live" => session[x] # session[t]
    BY <1>7 DEF InsertSuccessor
  <2>2. /\ row' = [row EXCEPT ![n] = "live"]
        /\ session' = [session EXCEPT ![n] = session[t]]
        /\ req' = [req EXCEPT ![q] = Idle]
        /\ row[n] = "none"
    BY <1>7 DEF InsertSuccessor
  <2>3. \A p \in Requests : req'[p].pc = "idle"
    BY <1>7, <2>2 DEF InsertSuccessor, Idle
  <2> HIDE DEF n, t
  <2>4. held' \in {held, (held \ {t}) \cup {n}}
    BY <1>7 DEF n, t
  <2>5. OneLive' /\ LogoutEnds'
    BY <1>7, <2>1, <2>2, <2>4
  <2>6. \A x, y \in held' : session'[x] = session'[y] => x = y
    BY <2>1, <2>2, <2>4
  <2> QED
    BY <2>3, <2>5, <2>6
<1>8. ASSUME NEW q \in Requests, Grant(q) PROVE SerialClientInv'
  BY <1>7, <1>8 DEF Grant
<1>9. ASSUME NEW q \in Requests, GrantUnheard(q) PROVE SerialClientInv'
  BY <1>7, <1>9 DEF GrantUnheard
<1>10. ASSUME NEW q \in Requests, AbortRefresh(q) PROVE SerialClientInv'
  BY <1>10 DEF AbortRefresh, Idle
<1>11. CASE UNCHANGED vars
  BY <1>11 DEF vars
<1> QED
  BY <1>1, <1>2, <1>3, <1>4, <1>5, <1>6, <1>8, <1>9, <1>10, <1>11 DEF Next

\* As long as the client waits for its answers, rotation and logout mean what
\* they say, even when refreshes fail half-way or answers are lost.
THEOREM SerialClientSafe == Spec => [](OneLive /\ LogoutEnds)
<1> DEFINE Inv == CoreInv /\ SerialInv
<1>1. Init => Inv
  BY InitCore, InitSerial
<1>2. Inv /\ [Next]_vars => Inv'
  BY NextCore, NextSerial
<1>3. Inv => OneLive /\ LogoutEnds
  BY DEF SerialInv, SerialClientInv, OneLive, LogoutEnds
<1> HIDE DEF Inv
<1> QED
  BY <1>1, <1>2, <1>3, PTL DEF Spec
\* "Logged out" (api/auth-service.yaml:62) is what it says under that condition:
\* the client holds no live token of a session it has ended.
THEOREM LoggedOut == Spec => []LogoutEnds
BY SerialClientSafe, PTL
-----------------------------------------------------------------------------
(* A service without failures *)

\* A row that was never inserted belongs to no session.
GoesOnInv ==
  /\ \A t \in Tokens : row[t] = "none" => session[t] = NoToken
  /\ SessionGoesOn

LEMMA InitGoesOn == Init => GoesOnInv
BY SessionAssumption DEF Init, GoesOnInv, SessionGoesOn

LEMMA NextGoesOn == CoreInv /\ GoesOnInv /\ [Next]_vars => GoesOnInv'
<1> SUFFICES ASSUME CoreInv, GoesOnInv, [Next]_vars PROVE GoesOnInv'
  OBVIOUS
<1> DEFINE Unborn == \A t \in Tokens : row[t] = "none" => session[t] = NoToken
           Live(s) == \E t \in Tokens : row[t] = "live" /\ session[t] = s
           Coming(s) ==
             \E q \in Requests :
               req[q].pc = "rotated" /\ session[req[q].tok] = s
<1>0. MaxFaults \in Nat
  BY SessionAssumption
<1>f. ASSUME NEW k, Fault(k) PROVE faults' # 0
  BY <1>0, <1>f DEF Fault, CoreInv, TypeOK
<1>u. Unborn /\ (faults = 0 => \A s \in Tokens :
         session[s] = s /\ s \notin ended => Live(s) \/ Coming(s))
  BY DEF GoesOnInv, SessionGoesOn
<1>g. ASSUME Unborn',
             faults' = 0 => \A s \in Tokens :
               session'[s] = s /\ s \notin ended' => Live(s)' \/ Coming(s)'
      PROVE  GoesOnInv'
  BY <1>g DEF GoesOnInv, SessionGoesOn
<1> USE DEF CoreInv, TypeOK, Maybe, FlightInv, InFlight, history
<1>1. ASSUME NEW n \in Tokens, Login(n) PROVE GoesOnInv'
  <2>1. /\ row[n] = "none"
        /\ row' = [row EXCEPT ![n] = "live"]
        /\ session' = [session EXCEPT ![n] = n]
        /\ UNCHANGED <<req, ended, faults>>
    BY <1>1 DEF Login, Fresh
  <2>2. Unborn'
    BY <1>u, <2>1
  <2>3. ASSUME faults' = 0, NEW s \in Tokens, session'[s] = s, s \notin ended'
        PROVE  Live(s)' \/ Coming(s)'
    <3>1. CASE s = n
      BY <2>1, <3>1
    <3>2. CASE s # n
      <4>1. Live(s) => Live(s)'
        BY <2>1
      <4>2. Coming(s) => Coming(s)'
        BY <2>1
      <4> QED
        BY <1>u, <2>1, <2>3, <3>2, <4>1, <4>2
    <3> QED
      BY <3>1, <3>2
  <2> QED
    BY <1>g, <2>2, <2>3
<1>2. ASSUME NEW t \in Tokens, Logout(t) PROVE GoesOnInv'
  <2>1. /\ \A x \in Tokens : /\ row'[x] = "none" => row[x] = "none"
                             /\ x # t => row'[x] = row[x]
        /\ ended' = ended \cup {session[t]}
        /\ UNCHANGED <<req, session, faults>>
    BY <1>2 DEF Logout
  <2>2. Unborn'
    BY <1>u, <2>1
  <2>3. ASSUME faults' = 0, NEW s \in Tokens, session'[s] = s, s \notin ended'
        PROVE  Live(s)' \/ Coming(s)'
    <3>1. s # session[t]
      BY <2>1, <2>3
    <3>2. Live(s) => Live(s)'
      BY <2>1, <3>1
    <3>3. Coming(s) => Coming(s)'
      BY <2>1
    <3> QED
      BY <1>u, <2>1, <2>3, <3>2, <3>3
  <2> QED
    BY <1>g, <2>2, <2>3
<1>3. ASSUME NEW t \in Tokens, LogoutFails(t) PROVE GoesOnInv'
  <2>1. faults' # 0 /\ UNCHANGED <<row, session>>
    BY <1>3, <1>f DEF LogoutFails
  <2> QED
    BY <1>g, <1>u, <2>1
<1>4. ASSUME NEW t \in Tokens, Expire(t) PROVE GoesOnInv'
  BY <1>4 DEF Expire, GoesOnInv, SessionGoesOn
<1>5. ASSUME NEW q \in Requests, NEW t \in Tokens, NEW n \in Tokens,
             Check(q, t, n)
      PROVE  GoesOnInv'
  <2>1. /\ req[q].pc = "idle"
        /\ \A p \in Requests : p # q => req'[p] = req[p]
        /\ UNCHANGED <<row, session, ended, faults>>
    BY <1>5 DEF Check
  <2>2. \A s : (Live(s) => Live(s)') /\ (Coming(s) => Coming(s)')
    BY <2>1
  <2> QED
    BY <1>g, <1>u, <2>1, <2>2
<1>6. ASSUME NEW q \in Requests, Revoke(q) PROVE GoesOnInv'
  <2> DEFINE t == req[q].tok
  <2>1. /\ t \in Tokens /\ row[t] # "none"
        /\ req'[q].pc = "rotated" /\ req'[q].tok = t
        /\ \A p \in Requests : p # q => req'[p] = req[p]
        /\ \A x \in Tokens : /\ row'[x] = "none" => row[x] = "none"
                             /\ x # t => row'[x] = row[x]
        /\ UNCHANGED <<session, ended, faults>>
    BY <1>6 DEF Revoke
  <2> HIDE DEF t
  <2>2. Unborn'
    BY <1>u, <2>1
  <2>3. ASSUME NEW s, Live(s) PROVE Live(s)' \/ Coming(s)'
    BY <2>1, <2>3
  <2>4. ASSUME NEW s, Coming(s) PROVE Coming(s)'
    <3>1. PICK p \in Requests : req[p].pc = "rotated" /\ session[req[p].tok] = s
      BY <2>4
    <3>2. p # q
      BY <1>6, <3>1 DEF Revoke
    <3> QED
      BY <2>1, <3>1, <3>2
  <2> QED
    BY <1>g, <1>u, <2>1, <2>2, <2>3, <2>4
<1>7. ASSUME NEW q \in Requests, Grant(q) PROVE GoesOnInv'
  <2> DEFINE t == req[q].tok
             n == req[q].new
  <2>1. /\ t \in Tokens /\ n \in Tokens /\ row[n] = "none" /\ row[t] # "none"
        /\ session[t] \in Tokens /\ row[session[t]] # "none"
        /\ row' = [row EXCEPT ![n] = "live"]
        /\ session' = [session EXCEPT ![n] = session[t]]
        /\ \A p \in Requests : p # q => req'[p] = req[p]
        /\ UNCHANGED <<ended, faults>>
    BY <1>7 DEF Grant, InsertSuccessor
  <2>t. \A p \in Requests : req[p].pc = "rotated" => req[p].tok # n
    BY <2>1
  <2>q. \A s : session[req[q].tok] = s => s = session[t]
    OBVIOUS
  <2> HIDE DEF t, n
  <2>2. Unborn'
    BY <1>u, <2>1
  <2>3. \A s : session[t] = s => Live(s)'
    BY <2>1
  <2>4. ASSUME NEW s, Live(s) PROVE Live(s)'
    BY <2>1, <2>4
  <2>5. ASSUME NEW s, Coming(s) PROVE Live(s)' \/ Coming(s)'
    <3>1. PICK p \in Requests : req[p].pc = "rotated" /\ session[req[p].tok] = s
      BY <2>5
    <3>2. CASE p = q
      <4>1. session[t] = s
        BY <2>q, <3>1, <3>2
      <4> QED
        BY <2>3, <4>1
    <3>3. CASE p # q
      <4>1. req'[p] = req[p] /\ req[p].tok # n
        BY <2>1, <2>t, <3>1, <3>3
      <4>2. session'[req'[p].tok] = session[req[p].tok]
        BY <2>1, <4>1
      <4> QED
        BY <3>1, <4>1, <4>2
    <3> QED
      BY <3>2, <3>3
  <2>6. \A s \in Tokens : session'[s] = s => session[s] = s
    BY <2>1
  <2> QED
    BY <1>g, <1>u, <2>1, <2>2, <2>4, <2>5, <2>6
<1>8. ASSUME NEW q \in Requests, GrantUnheard(q) PROVE GoesOnInv'
  <2>1. faults' # 0
    BY <1>8, <1>f DEF GrantUnheard
  <2>2. Unborn'
    BY <1>8, <1>u DEF GrantUnheard, InsertSuccessor
  <2> QED
    BY <1>g, <2>1, <2>2
<1>9. ASSUME NEW q \in Requests, AbortRefresh(q) PROVE GoesOnInv'
  <2>1. faults' # 0 /\ UNCHANGED <<row, session>>
    BY <1>9, <1>f DEF AbortRefresh
  <2> QED
    BY <1>g, <1>u, <2>1
<1>10. CASE UNCHANGED vars
  BY <1>10 DEF vars, GoesOnInv, SessionGoesOn
<1> QED
  BY <1>1, <1>2, <1>3, <1>4, <1>5, <1>6, <1>7, <1>8, <1>9, <1>10 DEF Next

\* Without failures a session that was not logged out has a live token or is
\* about to get one, whatever requests overlap: of two refreshes that read one
\* token, the one that loses its UPDATE inserts a successor like the other.
THEOREM SessionLasts == Spec => []SessionGoesOn
<1>1. GoesOnInv => SessionGoesOn
  BY DEF GoesOnInv
<1> QED
  BY <1>1, InitCore, NextCore, InitGoesOn, NextGoesOn, PTL DEF Spec

-----------------------------------------------------------------------------
(* Sessions begin, last and end *)

\* A row that was never inserted has no session and has not expired.
UnbornInv ==
  \A t \in Tokens : row[t] = "none" => session[t] = NoToken /\ t \notin expired

LEMMA InitUnborn == Init => UnbornInv
BY DEF Init, UnbornInv

LEMMA NextUnborn == CoreInv /\ UnbornInv /\ [Next]_vars => UnbornInv'
<1> SUFFICES ASSUME CoreInv, UnbornInv, [Next]_vars PROVE UnbornInv'
  OBVIOUS
<1> USE DEF UnbornInv, CoreInv, TypeOK, history
<1>1. ASSUME NEW n \in Tokens, Login(n) \/ LogoutFails(n) \/ Expire(n)
      PROVE  UnbornInv'
  BY <1>1 DEF Login, LogoutFails, Expire
<1>2. ASSUME NEW n \in Tokens, Logout(n) PROVE UnbornInv'
  BY <1>2 DEF Logout
<1>3. ASSUME NEW q \in Requests, NEW t \in Tokens, NEW n \in Tokens,
             Check(q, t, n)
      PROVE  UnbornInv'
  BY <1>3 DEF Check
<1>4. ASSUME NEW q \in Requests, Revoke(q) \/ AbortRefresh(q) PROVE UnbornInv'
  BY <1>4 DEF Revoke, AbortRefresh
<1>5. ASSUME NEW q \in Requests, Grant(q) \/ GrantUnheard(q) PROVE UnbornInv'
  BY <1>5 DEF Grant, GrantUnheard, InsertSuccessor
<1>6. CASE UNCHANGED vars
  BY <1>6 DEF vars
<1> QED
  BY <1>1, <1>2, <1>3, <1>4, <1>5, <1>6 DEF Next

\* A step that begins no session, uses none anew and leaves all but one in use is
\* a step of the lifecycle: it ends that one or none.
LEMMA OnlyEnds ==
  ASSUME NEW x,
         \A s \in Tokens : session'[s] = s <=> session[s] = s,
         \A s \in Tokens : InUse(s)' => InUse(s),
         \A s \in Tokens : s # x /\ InUse(s) => InUse(s)'
  PROVE  Lifecycle!Next \/ stateOf' = stateOf
<1> HIDE DEF InUse
<1>1. CASE x \in Tokens /\ session[x] = x /\ InUse(x) /\ ~ InUse(x)'
  <2>1. stateOf[x] = "open" /\ stateOf' = [stateOf EXCEPT ![x] = "over"]
    BY <1>1 DEF stateOf
  <2>2. Lifecycle!End(x)
    BY <2>1 DEF Lifecycle!End, Lifecycle!Move
  <2> QED
    BY <1>1, <2>2 DEF Lifecycle!Next
<1>2. CASE ~ (x \in Tokens /\ session[x] = x /\ InUse(x) /\ ~ InUse(x)')
  <2>1. \A s \in Tokens : stateOf'[s] = stateOf[s]
    BY <1>2 DEF stateOf
  <2>2. stateOf' = stateOf
    BY <2>1 DEF stateOf
  <2> QED
    BY <2>2
<1> QED
  BY <1>1, <1>2

\* A login begins the session of its token.
LEMMA LoginBegins ==
  ASSUME CoreInv, UnbornInv, NEW n \in Tokens, Login(n)
  PROVE  Lifecycle!Next
<1> USE DEF CoreInv, TypeOK, FlightInv, InFlight
<1>1. /\ row[n] = "none" /\ session[n] = NoToken /\ n # NoToken
      /\ n \notin expired
      /\ row' = [row EXCEPT ![n] = "live"]
      /\ session' = [session EXCEPT ![n] = n]
      /\ UNCHANGED <<expired, req>>
  BY SessionAssumption DEF Login, Fresh, UnbornInv
<1>2. InUse(n)' /\ session'[n] = n
  BY <1>1 DEF InUse, Usable
<1>3. ASSUME NEW s \in Tokens, s # n
      PROVE  /\ session'[s] = session[s]
             /\ InUse(s)' <=> InUse(s)
  <2>1. \A t \in Tokens :
          Usable(t)' /\ session'[t] = s <=> Usable(t) /\ session[t] = s
    BY <1>1, <1>3 DEF Usable
  <2>2. \A q \in Requests :
          InFlight(q) => session'[req[q].tok] = session[req[q].tok]
    BY <1>1
  <2> QED
    BY <1>1, <1>3, <2>1, <2>2 DEF InUse
<1>4. stateOf[n] = "absent" /\ stateOf'[n] = "open"
  BY <1>1, <1>2 DEF stateOf
<1>5. \A s \in Tokens : s # n => stateOf'[s] = stateOf[s]
  BY <1>3 DEF stateOf
<1>6. stateOf' = [stateOf EXCEPT ![n] = "open"]
  <2>1. /\ stateOf = [s \in Tokens |-> stateOf[s]]
        /\ stateOf' = [s \in Tokens |-> stateOf'[s]]
    BY DEF stateOf
  <2> QED
    BY <1>4, <1>5, <2>1
<1>7. Lifecycle!Begin(n)
  BY <1>4, <1>6 DEF Lifecycle!Begin, Lifecycle!Move
<1> QED
  BY <1>7 DEF Lifecycle!Next

\* A refresh that inserts a successor hands on the use of its session.
LEMMA SuccessorHandsOn ==
  ASSUME CoreInv, UnbornInv, NEW q \in Requests, InsertSuccessor(q),
         UNCHANGED expired
  PROVE  Lifecycle!Next \/ stateOf' = stateOf
<1> USE DEF CoreInv, TypeOK, FlightInv, InFlight
<1> DEFINE t == req[q].tok
           n == req[q].new
<1>1. /\ t \in Tokens /\ n \in Tokens /\ row[n] = "none" /\ row[t] # "none"
      /\ session[t] \in Tokens /\ row[session[t]] # "none"
      /\ row' = [row EXCEPT ![n] = "live"]
      /\ session' = [session EXCEPT ![n] = session[t]]
      /\ req' = [req EXCEPT ![q] = Idle]
      /\ req[q].pc = "rotated"
  BY DEF InsertSuccessor
<1>2. /\ session[n] = NoToken /\ n # NoToken /\ n \notin expired
      /\ \A p \in Requests : InFlight(p) => req[p].tok # n
  BY <1>1, SessionAssumption DEF UnbornInv
<1>u. \A s : session[req[q].tok] = s => s = session[t]
  OBVIOUS
<1>i. \A s : s = session[t] => InUse(s)
  BY <1>1 DEF InUse
<1> HIDE DEF t, n
<1>3. \A s \in Tokens : session'[s] = s <=> session[s] = s
  BY <1>1, <1>2
<1>4. \A s : s = session[t] => InUse(s)'
  <2>1. row'[n] = "live" /\ n \notin expired' /\ session'[n] = session[t]
    BY <1>1, <1>2
  <2> QED
    BY <1>1, <2>1 DEF InUse, Usable
<1>5. \A u \in Tokens : u # n =>
        /\ Usable(u)' <=> Usable(u)
        /\ session'[u] = session[u]
  BY <1>1 DEF Usable
<1>6. ~ Usable(n)
  BY <1>1 DEF Usable
<1>7. \A p \in Requests : p # q => req'[p] = req[p]
  BY <1>1
<1>8. req'[q].pc = "idle"
  BY <1>1 DEF Idle
<1>9. \A p \in Requests : InFlight(p) => req[p].tok \in Tokens /\ req[p].tok # n
  BY <1>2
<1>10. ASSUME NEW s \in Tokens, s # session[t] PROVE InUse(s)' <=> InUse(s)
  <2>1. \A u \in Tokens :
          Usable(u)' /\ session'[u] = s <=> Usable(u) /\ session[u] = s
    BY <1>1, <1>5, <1>6, <1>10
  <2>2. \A p \in Requests :
          InFlight(p)' /\ session'[req'[p].tok] = s
            <=> InFlight(p) /\ session[req[p].tok] = s
    <3> SUFFICES ASSUME NEW p \in Requests
                 PROVE  InFlight(p)' /\ session'[req'[p].tok] = s
                          <=> InFlight(p) /\ session[req[p].tok] = s
      OBVIOUS
    <3>1. CASE p = q
      BY <1>8, <1>10, <1>u, <3>1
    <3>2. CASE p # q
      BY <1>5, <1>7, <1>9, <3>2
    <3> QED
      BY <3>1, <3>2
  <2> QED
    BY <2>1, <2>2 DEF InUse
<1>11. \A s \in Tokens : InUse(s)' <=> InUse(s)
  <2> HIDE DEF InUse
  <2> QED
    BY <1>i, <1>4, <1>10
<1> QED
  BY <1>3, <1>11, OnlyEnds

\* Begun by a login, a session ends at most once: with the logout or expiry of
\* its last usable token while no refresh is under way, or with the failure of
\* the refresh that had read it.
THEOREM SessionsAreOver == Spec => SessionsEnd
<1>1. Init => Lifecycle!Init
  BY SessionAssumption DEF Init, Lifecycle!Init, stateOf
<1>2. CoreInv /\ UnbornInv /\ [Next]_vars => [Lifecycle!Next]_stateOf
  <2> SUFFICES ASSUME CoreInv, UnbornInv, [Next]_vars
               PROVE  Lifecycle!Next \/ stateOf' = stateOf
    OBVIOUS
  <2> USE DEF CoreInv, TypeOK, FlightInv, InFlight, history
  <2>1. ASSUME NEW n \in Tokens, Login(n) PROVE Lifecycle!Next
    BY <2>1, LoginBegins
  <2>2. ASSUME NEW t \in Tokens, Logout(t) \/ Expire(t)
        PROVE  Lifecycle!Next \/ stateOf' = stateOf
    <3>1. /\ UNCHANGED <<req, session>>
          /\ \A u \in Tokens : Usable(u)' => Usable(u)
          /\ \A u \in Tokens : u # t /\ Usable(u) => Usable(u)'
      BY <2>2 DEF Logout, Expire, Usable
    <3>2. \A s \in Tokens : InUse(s)' => InUse(s)
      BY <3>1 DEF InUse
    <3>3. \A s \in Tokens : s # session[t] /\ InUse(s) => InUse(s)'
      BY <3>1 DEF InUse
    <3>4. \A s \in Tokens : session'[s] = s <=> session[s] = s
      BY <3>1
    <3> QED
      BY <3>2, <3>3, <3>4, OnlyEnds
  <2>3. ASSUME NEW t \in Tokens, LogoutFails(t) PROVE stateOf' = stateOf
    BY <2>3 DEF LogoutFails, stateOf, InUse, Usable
  <2>4. ASSUME NEW q \in Requests, NEW t \in Tokens, NEW n \in Tokens,
               Check(q, t, n)
        PROVE  Lifecycle!Next \/ stateOf' = stateOf
    <3>1. /\ req[q].pc = "idle" /\ Usable(t)
          /\ req' = [req EXCEPT ![q] = [pc |-> "checked", tok |-> t, new |-> n]]
          /\ UNCHANGED <<row, expired, session>>
      BY <2>4 DEF Check, Usable
    <3>2. /\ \A u \in Tokens : Usable(u)' <=> Usable(u)
          /\ \A p \in Requests : p # q => req'[p] = req[p]
          /\ req'[q].tok = t
      BY <3>1 DEF Usable
    <3>3. \A s \in Tokens : InUse(s)' => InUse(s)
      BY <3>1, <3>2 DEF InUse
    <3>4. \A s \in Tokens : InUse(s) => InUse(s)'
      BY <3>1, <3>2 DEF InUse
    <3>5. \A s \in Tokens : session'[s] = s <=> session[s] = s
      BY <3>1
    <3> QED
      BY <3>3, <3>4, <3>5, OnlyEnds
  <2>5. ASSUME NEW q \in Requests, Revoke(q)
        PROVE  Lifecycle!Next \/ stateOf' = stateOf
    <3> DEFINE t == req[q].tok
    <3>1. /\ req[q].pc = "checked" /\ t \in Tokens
          /\ req' = [req EXCEPT ![q].pc = "rotated"]
          /\ UNCHANGED <<expired, session>>
          /\ \A u \in Tokens : u # t => row'[u] = row[u]
          /\ row'[t] # "none" /\ (row'[t] = "live" => row[t] = "live")
      BY <2>5 DEF Revoke
    <3>2. /\ \A u \in Tokens : Usable(u)' => Usable(u)
          /\ \A u \in Tokens : u # t /\ Usable(u) => Usable(u)'
      BY <3>1 DEF Usable
    <3>3. \A p \in Requests :
            /\ InFlight(p)' <=> InFlight(p)
            /\ req'[p].tok = req[p].tok
      BY <3>1
    <3>4. \A s \in Tokens : InUse(s)' => InUse(s)
      BY <3>1, <3>2, <3>3 DEF InUse
    <3>5. \A s : s = session[t] => InUse(s)'
      BY <3>1, <3>3 DEF InUse
    <3>6. \A s \in Tokens : InUse(s) => InUse(s)'
      <4> SUFFICES ASSUME NEW s \in Tokens, InUse(s), s # session[t]
                   PROVE  InUse(s)'
        BY <3>5
      <4> HIDE DEF t
      <4> QED
        BY <3>1, <3>2, <3>3 DEF InUse
    <3>7. \A s \in Tokens : session'[s] = s <=> session[s] = s
      BY <3>1
    <3> QED
      BY <3>4, <3>6, <3>7, OnlyEnds
  <2>6. ASSUME NEW q \in Requests, Grant(q) \/ GrantUnheard(q)
        PROVE  Lifecycle!Next \/ stateOf' = stateOf
    BY <2>6, SuccessorHandsOn DEF Grant, GrantUnheard
  <2>7. ASSUME NEW q \in Requests, AbortRefresh(q)
        PROVE  Lifecycle!Next \/ stateOf' = stateOf
    <3>1. /\ req[q].pc # "idle" /\ req' = [req EXCEPT ![q] = Idle]
          /\ UNCHANGED <<row, expired, session>>
      BY <2>7 DEF AbortRefresh
    <3>2. /\ \A u \in Tokens : Usable(u)' <=> Usable(u)
          /\ \A p \in Requests : p # q => req'[p] = req[p]
          /\ req'[q].pc = "idle"
      BY <3>1 DEF Usable, Idle
    <3>3. \A s \in Tokens : InUse(s)' => InUse(s)
      BY <3>1, <3>2 DEF InUse
    <3>4. \A s \in Tokens : s # session[req[q].tok] /\ InUse(s) => InUse(s)'
      BY <3>1, <3>2 DEF InUse
    <3>5. \A s \in Tokens : session'[s] = s <=> session[s] = s
      BY <3>1
    <3> QED
      BY <3>3, <3>4, <3>5, OnlyEnds
  <2>8. CASE UNCHANGED vars
    BY <2>8 DEF vars, stateOf, InUse, Usable
  <2> QED
    BY <2>1, <2>2, <2>3, <2>4, <2>5, <2>6, <2>7, <2>8 DEF Next
<1> QED
  BY <1>1, <1>2, InitCore, NextCore, InitUnborn, NextUnborn, PTL
     DEF Spec, SessionsEnd, Lifecycle!Spec

-----------------------------------------------------------------------------
(* AuthMfa: the second factor *)


LEMMA InitMfaType == MfaInit => MfaTypeOK
<1> SUFFICES ASSUME MfaInit PROVE MfaTypeOK
  OBVIOUS
<1>1. enabled \in BOOLEAN
  BY MfaAssumption DEF MfaInit
<1> QED
  BY <1>1 DEF MfaInit, MfaTypeOK, NoCall

LEMMA NextMfaType == MfaTypeOK /\ [MfaNext]_mfaVars => MfaTypeOK'
<1> SUFFICES ASSUME MfaTypeOK, [MfaNext]_mfaVars PROVE MfaTypeOK'
  OBVIOUS
<1> USE DEF MfaTypeOK
<1>1. ASSUME NEW q \in Calls, NEW s \in Secrets, EnrollRead(q, s)
      PROVE  MfaTypeOK'
  BY <1>1 DEF EnrollRead, Begin
<1>2. ASSUME NEW q \in Calls, EnrollWrite(q) \/ EnrollUnheard(q)
      PROVE  MfaTypeOK'
  BY <1>2 DEF EnrollWrite, EnrollUnheard, End, NoCall
<1>3. ASSUME NEW q \in Calls, VerifyRead(q) \/ DisableRead(q)
      PROVE  MfaTypeOK'
  <2>1. waits' \in BOOLEAN
    BY <1>3 DEF VerifyRead, DisableRead, Begin
  <2>2. /\ enabled' = enabled /\ secret' = secret /\ known' = known
        /\ verified' \in {verified, verified \cup {secret}}
        /\ imported' = imported /\ secret \in Secrets
        /\ \E w \in {"enable", "disable"} :
             call' = [call EXCEPT ![q] = [write |-> w, seen |-> secret]]
    BY <1>3 DEF VerifyRead, DisableRead, Begin, HasCode
  <2> QED
    BY <2>1, <2>2
<1>4. ASSUME NEW q \in Calls, VerifyWrite(q) \/ DisableWrite(q) \/ Abort(q)
      PROVE  MfaTypeOK'
  <2>1. enabled' \in BOOLEAN
    BY <1>4 DEF VerifyWrite, DisableWrite, Abort
  <2>2. UNCHANGED <<known, verified, waits, imported>> /\ End(q) /\ secret' \in {secret, NoSecret}
    BY <1>4 DEF VerifyWrite, DisableWrite, Abort
  <2>3. call' \in [Calls -> {NoCall} \cup
                  [write : {"secret", "enable", "disable"}, seen : Secrets]]
    BY <2>2 DEF End
  <2> QED
    BY <2>1, <2>2, <2>3
<1>5. CASE UNCHANGED mfaVars
  BY <1>5 DEF mfaVars
<1> QED
  BY <1>1, <1>2, <1>3, <1>4, <1>5 DEF MfaNext

\* The row's secret is one the service has generated or NULL, and a handler in
\* flight holds what it read of it (mfa handlers of handler.go).
THEOREM MfaTypeCorrect == MfaSpec => []MfaTypeOK
<1>1. MfaInit => MfaTypeOK
  BY InitMfaType
<1>2. MfaTypeOK /\ [MfaNext]_mfaVars => MfaTypeOK'
  BY NextMfaType
<1> QED
  BY <1>1, <1>2, PTL DEF MfaSpec

\* With MFA on and no secret, no sequence of requests ever changes the row.
THEOREM LockoutStays == MfaSpec => LockoutIsPermanentAlways
<1>1. [MfaNext]_mfaVars => [LockoutIsPermanent]_mfaVars
  <2> SUFFICES ASSUME [MfaNext]_mfaVars, LockedOut PROVE LockedOut'
    BY DEF LockoutIsPermanent
  <2> QED
    BY DEF LockedOut, Pending, MfaNext, mfaVars, EnrollRead, EnrollWrite,
           EnrollUnheard, VerifyRead, VerifyWrite, DisableRead, DisableWrite,
           Abort, HasCode
<1> QED
  BY <1>1, PTL DEF MfaSpec, LockoutIsPermanentAlways

-----------------------------------------------------------------------------
(* A user who waits for the answers *)

\* What the only request in flight decided on still holds when it writes.
WaitingUserInv ==
  /\ \A p, q \in Calls : Pending(p) /\ Pending(q) => p = q
  /\ \A q \in Calls :
       /\ call[q].write = "secret" => ~ enabled
       /\ call[q].write = "enable" => secret \in verified
  /\ EnabledVerified

WaitsInv == waits /\ ~ imported => WaitingUserInv

LEMMA InitWaits == MfaInit => WaitsInv
BY DEF MfaInit, WaitsInv, WaitingUserInv, Pending, NoCall, EnabledVerified

LEMMA NextWaits == MfaTypeOK /\ WaitsInv /\ [MfaNext]_mfaVars => WaitsInv'
<1> SUFFICES ASSUME MfaTypeOK, WaitsInv, [MfaNext]_mfaVars, waits', ~ imported'
             PROVE  WaitingUserInv'
  BY DEF WaitsInv
<1>s. waits /\ ~ imported
  <2>1. imported' = imported
    BY DEF MfaNext, mfaVars, EnrollRead, EnrollWrite, EnrollUnheard, VerifyRead,
           VerifyWrite, DisableRead, DisableWrite, Abort
  <2>2. waits' = waits \/ waits' = (waits /\ \A p \in Calls : ~ Pending(p))
    BY DEF MfaNext, mfaVars, EnrollRead, EnrollWrite, EnrollUnheard, VerifyRead,
           VerifyWrite, DisableRead, DisableWrite, Abort, Begin
  <2> QED
    BY <2>1, <2>2
<1>c. WaitingUserInv
  BY <1>s DEF WaitsInv
<1> USE <1>s, <1>c DEF WaitingUserInv, MfaTypeOK, Pending, EnabledVerified
<1>1. ASSUME NEW q \in Calls, NEW s \in Secrets, EnrollRead(q, s)
      PROVE  WaitingUserInv'
  BY <1>1 DEF EnrollRead, Begin
<1>2. ASSUME NEW q \in Calls, EnrollWrite(q) \/ EnrollUnheard(q)
      PROVE  WaitingUserInv'
  BY <1>2 DEF EnrollWrite, EnrollUnheard, End, NoCall
<1>3. ASSUME NEW q \in Calls, VerifyRead(q) PROVE WaitingUserInv'
  BY <1>3 DEF VerifyRead, Begin
<1>4. ASSUME NEW q \in Calls, VerifyWrite(q) PROVE WaitingUserInv'
  BY <1>4 DEF VerifyWrite, End, NoCall
<1>5. ASSUME NEW q \in Calls, DisableRead(q) PROVE WaitingUserInv'
  BY <1>5 DEF DisableRead, Begin
<1>6. ASSUME NEW q \in Calls, DisableWrite(q) PROVE WaitingUserInv'
  BY <1>6 DEF DisableWrite, End, NoCall
<1>7. ASSUME NEW q \in Calls, Abort(q) PROVE WaitingUserInv'
  BY <1>7 DEF Abort, End, NoCall
<1>8. CASE UNCHANGED mfaVars
  BY <1>8 DEF mfaVars
<1> QED
  BY <1>1, <1>2, <1>3, <1>4, <1>5, <1>6, <1>7, <1>8 DEF MfaNext

\* For a user who waits for the answers and whose flag was not imported, MFA is
\* on only with a secret that was shown to work, whatever fails half-way.
THEOREM WaitingUserVerified == MfaSpec => []EnabledVerified
<1> DEFINE Inv == MfaTypeOK /\ WaitsInv
<1>1. MfaInit => Inv
  BY InitMfaType, InitWaits
<1>2. Inv /\ [MfaNext]_mfaVars => Inv'
  BY NextMfaType, NextWaits
<1>3. Inv => EnabledVerified
  BY DEF WaitsInv, WaitingUserInv, EnabledVerified
<1> HIDE DEF Inv
<1> QED
  BY <1>1, <1>2, <1>3, PTL DEF MfaSpec
=============================================================================
