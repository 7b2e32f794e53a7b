------------------------------ MODULE AuthMfa ------------------------------
(***************************************************************************)
(* The second factor of one user in auth-service: enroll, verify, disable, *)
(* and the login that asks for it.  Every handler reads the users row,     *)
(* decides on what it read, and then writes columns of the row with an     *)
(* UPDATE that does not look at them again.                                *)
(*                                                                         *)
(* A TOTP code is the secret it was computed from: a code is right when it *)
(* comes from the secret of the row that the handler read.                 *)
(***************************************************************************)
EXTENDS Integers, FiniteSets

CONSTANTS
  Secrets,     \* bound: the secrets GenerateSecretBase32 may draw
  NoSecret,    \* mfa_secret_enc IS NULL
  Calls        \* bound: calls in flight

ASSUME MfaAssumption == NoSecret \notin Secrets

VARIABLES
  enabled,     \* column mfa_enabled
  secret,      \* column mfa_secret_enc
  call,        \* [Calls -> what it is about to write, and the secret it saw]
  known,       \* secrets the user's authenticator was given
  verified,    \* history: secrets for which a code was accepted by verify
  waits,       \* history: the user has always waited for the answers
  imported     \* history: the row came from tools/etl with mfa_enabled, which
               \* is imported without its secret

mfaVars == <<enabled, secret, call, known, verified, waits, imported>>

NoCall == [write |-> "nothing", seen |-> NoSecret]

MfaInit ==
  /\ imported \in BOOLEAN
  /\ enabled = imported
  /\ secret = NoSecret
  /\ call = [q \in Calls |-> NoCall]
  /\ known = {}
  /\ verified = {}
  /\ waits = TRUE

Pending(q) == call[q].write # "nothing"

\* A drawn secret is new.
Drawable(s) ==
  s \notin known /\ s # secret /\ \A q \in Calls : call[q].seen # s

Begin(q, write, s) ==
  /\ ~ Pending(q)
  /\ waits' = (waits /\ \A p \in Calls : ~ Pending(p))
  /\ call' = [call EXCEPT ![q] = [write |-> write, seen |-> s]]

\* Variant: what the last request saw is kept.
EndKeeps(q) == call' = [call EXCEPT ![q].write = "nothing"]

End(q) == call' = [call EXCEPT ![q] = NoCall]

\* The user can produce a code for the secret of the row.
HasCode == secret # NoSecret /\ secret \in known

-----------------------------------------------------------------------------
\* Variant: enrolling again is not refused.
EnrollAgain(q, s) ==
  /\ Drawable(s)
  /\ Begin(q, "secret", s)
  /\ UNCHANGED <<enabled, secret, known, verified, imported>>

\* POST /auth/mfa/enroll: refused when MFA is on; draws a secret ...
EnrollRead(q, s) ==
  /\ ~ enabled
  /\ Drawable(s)
  /\ Begin(q, "secret", s)
  /\ UNCHANGED <<enabled, secret, known, verified, imported>>

\* ... SetMFASecret, and the answer carries the secret to the authenticator.
EnrollWrite(q) ==
  /\ call[q].write = "secret"
  /\ secret' = call[q].seen
  /\ known' = known \cup {call[q].seen}
  /\ End(q)
  /\ UNCHANGED <<enabled, verified, waits, imported>>

\* The secret is stored; the answer does not arrive.
EnrollUnheard(q) ==
  /\ call[q].write = "secret"
  /\ secret' = call[q].seen
  /\ End(q)
  /\ UNCHANGED <<enabled, known, verified, waits, imported>>

\* POST /auth/mfa/verify: a code for the secret in the row ...
VerifyRead(q) ==
  /\ HasCode
  /\ Begin(q, "enable", secret)
  /\ verified' = verified \cup {secret}
  /\ UNCHANGED <<enabled, secret, known, imported>>

\* ... EnableMFA, whatever the secret is by now.
VerifyWrite(q) ==
  /\ call[q].write = "enable"
  /\ enabled' = TRUE
  /\ End(q)
  /\ UNCHANGED <<secret, known, verified, waits, imported>>

\* Variant: no code is asked of a row that has no secret.
DisableUnasked(q) ==
  /\ enabled
  /\ secret = NoSecret \/ HasCode
  /\ Begin(q, "disable", secret)
  /\ UNCHANGED <<enabled, secret, known, verified, imported>>

\* DELETE /auth/mfa: nothing to do when it is off, and otherwise a code for the
\* secret in the row ...
DisableRead(q) ==
  /\ enabled
  /\ HasCode
  /\ Begin(q, "disable", secret)
  /\ UNCHANGED <<enabled, secret, known, verified, imported>>

\* ... DisableMFA clears the flag and whatever secret is there by now.
DisableWrite(q) ==
  /\ call[q].write = "disable"
  /\ enabled' = FALSE
  /\ secret' = NoSecret
  /\ End(q)
  /\ UNCHANGED <<known, verified, waits, imported>>

\* The UPDATE fails or auth-service dies before it.
Abort(q) ==
  /\ Pending(q)
  /\ End(q)
  /\ UNCHANGED <<enabled, secret, known, verified, waits, imported>>

-----------------------------------------------------------------------------
MfaNext ==
  \E q \in Calls :
    \/ \E s \in Secrets : EnrollRead(q, s)
    \/ EnrollWrite(q) \/ EnrollUnheard(q)
    \/ VerifyRead(q) \/ VerifyWrite(q)
    \/ DisableRead(q) \/ DisableWrite(q)
    \/ Abort(q)

MfaSpec == MfaInit /\ [][MfaNext]_mfaVars

-----------------------------------------------------------------------------
(* Properties *)

MfaTypeOK ==
  /\ enabled \in BOOLEAN
  /\ secret \in Secrets \cup {NoSecret}
  /\ call \in [Calls -> {NoCall} \cup
                 [write : {"secret", "enable", "disable"}, seen : Secrets]]
  /\ known \subseteq Secrets
  /\ verified \subseteq Secrets
  /\ waits \in BOOLEAN /\ imported \in BOOLEAN

\* MFA is on only with a secret for which the user has shown a code ("Verify
\* MFA code and enable MFA", api/auth-service.yaml:95), so login, which asks for
\* a code whenever MFA is on (handler.go:113-127), can be passed.  This needs a
\* user who waits for the answers, and whose flag was not imported.
EnabledVerified == enabled /\ waits /\ ~ imported => secret \in verified

\* Who has MFA on and no secret has no way out: enroll, verify and disable all
\* refuse, and so does login.  Only a request already in flight changes it.
LockedOut == enabled /\ secret = NoSecret /\ \A q \in Calls : ~ Pending(q)

LockoutIsPermanent == LockedOut => LockedOut'

LockoutIsPermanentAlways == [][LockoutIsPermanent]_mfaVars
=============================================================================
