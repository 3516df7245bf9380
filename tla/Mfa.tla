-------------------------------- MODULE Mfa --------------------------------
(***************************************************************************)
(* The second factors of one operator, who has no password decision to     *)
(* make (na_sso/mfa.py, login of na_sso/auth.py): a TOTP secret, passkeys, *)
(* recovery codes, and the sign-in that asks for one of them.  Login and   *)
(* the passkey handlers await something after they tested who is asking,   *)
(* and answer with what they had read before.                              *)
(*                                                                         *)
(* The browser holds the cookies: a session, a pending login and a TOTP    *)
(* setup.  A request that confirms a setup carries copies of them, and may *)
(* be late or arrive again.  Time moves in the 30-second steps of TOTP; the *)
(* lifetimes of the cookies end at any time.                               *)
(***************************************************************************)
EXTENDS Naturals, FiniteSets

CONSTANTS
  Passkeys,     \* passkeys that may be enrolled
  Codes,        \* the codes of one set of recovery codes, by place
  LastStep,     \* bound: TOTP steps
  MaxSecrets,   \* bound: TOTP secrets generated
  MaxSets,      \* bound: sets of recovery codes generated
  MaxVersion    \* bound: the account's session_version

ASSUME MfaAssumption ==
  /\ Codes # {} /\ LastStep \in Nat \ {0}
  /\ MaxSecrets \in Nat /\ MaxSets \in Nat \ {0} /\ MaxVersion \in Nat \ {0}

VARIABLES
  required,  \* admin_mfa_policy.required, of the configuration in force
  step,      \* the TOTP counter of the time
  totp,      \* AdminMfa.totp_secret (0: none) and totp_last_counter
  recovery,  \* the set of recovery codes on file, by number, and those left
  passkeys,  \* WebAuthnCredential
  version,   \* ManagedUser.session_version
  session,   \* the session cookie
  pending,   \* the pending-login cookie: the version it was made for (0: none)
  setup,     \* the TOTP setup cookie: the secret (0: none)
  confirming, \* the confirm request on its way, with the cookies it was sent with
  awaiting,  \* the handler that awaits, and the session it found
  secrets,   \* TOTP secrets generated so far
  acceptedCodes, \* history: how often a TOTP code was accepted since its
                 \* authenticator was last confirmed
  spent      \* history: recovery codes that were used

mfaVars == <<required, step, totp, recovery, passkeys, version, session, pending, setup,
             confirming, awaiting, secrets, acceptedCodes, spent>>

Steps == 1..LastStep
TotpCodes == 0..LastStep + 1   \* of one secret, by their counter

NoMfaSession == [version |-> 0, verified |-> FALSE, fresh |-> FALSE, entered |-> 0]
MfaSessions == [version : 0..MaxVersion, verified : BOOLEAN, fresh : BOOLEAN,
                entered : 0..MaxVersion]

\* entered (of a session): history, the version at which its password was given.
Idle == [doing |-> "nothing", found |-> NoMfaSession]

NoConfirm == [secret |-> 0, counter |-> 0, session |-> NoMfaSession]

MfaTypeOK ==
  /\ required \in BOOLEAN
  /\ step \in Steps
  /\ totp \in [secret : 0..secrets, last : 0..step + 1]
  /\ recovery \in [set : 0..MaxSets, left : SUBSET Codes]
  /\ passkeys \subseteq Passkeys
  /\ version \in 1..MaxVersion
  /\ session \in MfaSessions
  /\ pending \in 0..version /\ session.version <= version
  /\ secrets \in 0..MaxSecrets /\ setup \in 0..secrets
  /\ confirming \in [secret : 0..secrets, counter : TotpCodes, session : MfaSessions]
  /\ awaiting \in [doing : {"nothing", "login", "passkey", "enrolment"},
                   found : MfaSessions]
  /\ acceptedCodes \in [TotpCodes -> Nat]
  /\ spent \subseteq (1..MaxSets) \X Codes

MfaInit ==
  /\ required \in BOOLEAN
  /\ step = 1
  /\ totp = [secret |-> 0, last |-> 0]
  /\ recovery = [set |-> 0, left |-> {}]
  /\ passkeys = {}
  /\ version = 1
  /\ session = NoMfaSession
  /\ pending = 0 /\ setup = 0 /\ secrets = 0
  /\ confirming = NoConfirm /\ awaiting = Idle
  /\ acceptedCodes = [c \in TotpCodes |-> 0]
  /\ spent = {}

\* account_has_mfa.
HasMfa == totp.secret # 0 \/ passkeys # {}

\* _method_count.
MethodCount(secret, keys) == (IF secret = 0 THEN 0 ELSE 1) + Cardinality(keys)

\* The cookie is refused once the version has moved on (current_user).
SessionValid == session.version = version

\* _require_fresh.
Fresh == SessionValid /\ session.fresh

factorVars == <<totp, recovery, passkeys, setup, confirming, secrets, acceptedCodes,
                spent>>
-----------------------------------------------------------------------------
(***************************************************************************)
(* Signing in.                                                             *)
(***************************************************************************)
\* Mutant of CookieVersion: the version by the time the answer is sent.
CookieVersionNow(found) == version

\* Cookies name the version that was read with the account.
CookieVersion(found) == found.version

\* login: the password is right; the credential hand-off is awaited.
LoginBegins ==
  /\ awaiting = Idle
  /\ awaiting' = [doing |-> "login",
                  found |-> [NoMfaSession EXCEPT !.version = version,
                                                 !.entered = version]]
  /\ UNCHANGED <<required, step, version, session, pending, factorVars>>

\* A factor that is on file has to be shown; without one the session is enough
\* unless the policy requires MFA, and is then confined to the setup.
LoginEnds ==
  /\ awaiting.doing = "login" /\ awaiting' = Idle
  /\ IF HasMfa
     THEN /\ pending' = CookieVersion(awaiting.found)
          /\ UNCHANGED session
     ELSE /\ session' = [version |-> CookieVersion(awaiting.found),
                         verified |-> ~required, fresh |-> TRUE,
                         entered |-> awaiting.found.entered]
          /\ UNCHANGED pending
  /\ UNCHANGED <<required, step, version, factorVars>>

\* _pending_account.
PendingValid == pending = version

\* _finish_login: auth_at is the time the password was given.
FinishLogin(found) ==
  /\ session' = [version |-> CookieVersion(found), verified |-> TRUE,
                 fresh |-> found.fresh, entered |-> found.entered]
  /\ pending' = 0

Signing(fresh) == [version |-> pending, verified |-> FALSE, fresh |-> fresh,
                   entered |-> pending]

\* The steps whose code is accepted for the time being (matching_totp_counter).
CodeSteps == {step - 1, step, step + 1}

\* Mutant of CounterCounts: any code of the three steps.
CounterCountsAgain(counter) == TRUE

\* A counter that was accepted, or one before it, does not count.
CounterCounts(counter) == counter > totp.last

\* mfa_login_code with a code of the step before, this one or the next.
LoginTotp(counter, fresh) ==
  /\ PendingValid /\ totp.secret # 0
  /\ counter \in CodeSteps /\ CounterCounts(counter)
  /\ totp' = [totp EXCEPT !.last = counter]
  /\ acceptedCodes' = [acceptedCodes EXCEPT ![counter] = @ + 1]
  /\ FinishLogin(Signing(fresh))
  /\ UNCHANGED <<required, step, version, awaiting, recovery, passkeys, setup,
                 confirming, secrets, spent>>

\* _consume_recovery, for the codes on file.
Consumed(code) == [recovery EXCEPT !.left = @ \ {code}]

LoginRecovery(code, fresh) ==
  /\ PendingValid /\ code \in recovery.left
  /\ recovery' = Consumed(code)
  /\ spent' = spent \cup {<<recovery.set, code>>}
  /\ FinishLogin(Signing(fresh))
  /\ UNCHANGED <<required, step, version, awaiting, totp, passkeys, setup,
                 confirming, secrets, acceptedCodes>>

\* mfa_authentication_verify up to its await of the body, and after it: the
\* passkey is looked up then.
PasskeyLoginBegins(fresh) ==
  /\ awaiting = Idle /\ PendingValid
  /\ awaiting' = [doing |-> "passkey", found |-> Signing(fresh)]
  /\ UNCHANGED <<required, step, version, session, pending, factorVars>>

PasskeyLoginEnds(ok) ==
  /\ awaiting.doing = "passkey" /\ awaiting' = Idle
  /\ IF ok /\ passkeys # {} THEN FinishLogin(awaiting.found)
                            ELSE UNCHANGED <<session, pending>>
  /\ UNCHANGED <<required, step, version, factorVars>>

\* mfa_reauthenticate.
Reauthenticate ==
  /\ SessionValid
  /\ session' = [session EXCEPT !.fresh = TRUE]
  /\ UNCHANGED <<required, step, version, pending, awaiting, factorVars>>

Logout ==
  /\ session' = NoMfaSession /\ pending' = 0 /\ setup' = 0
  /\ UNCHANGED <<required, step, version, awaiting, totp, recovery, passkeys,
                 confirming, secrets, acceptedCodes, spent>>

\* Lifetimes end: reauthentication_minutes, the pending login, the setup.  A
\* request on its way carries a cookie no newer than the browser's (but for sign-ins
\* older than the session they replace), and is refused from then on.
FreshnessEnds ==
  /\ session.fresh /\ session' = [session EXCEPT !.fresh = FALSE]
  /\ confirming' = NoConfirm
  /\ UNCHANGED <<required, step, version, pending, awaiting, totp, recovery, passkeys,
                 setup, secrets, acceptedCodes, spent>>

PendingEnds ==
  /\ pending # 0 /\ pending' = 0
  /\ UNCHANGED <<required, step, version, session, awaiting, factorVars>>

SetupEnds ==
  /\ setup # 0 /\ setup' = 0 /\ confirming' = NoConfirm
  /\ UNCHANGED <<required, step, version, session, pending, awaiting, totp, recovery,
                 passkeys, secrets, acceptedCodes, spent>>

\* The password or the role of the account was changed (auth.py, users.py).
VersionMoves ==
  /\ version < MaxVersion /\ version' = version + 1
  /\ UNCHANGED <<required, step, session, pending, awaiting, factorVars>>

\* A restart with another configuration; what was awaited is lost.
ConfigurationChanges ==
  /\ required' = ~required /\ awaiting' = Idle
  /\ UNCHANGED <<step, version, session, pending, factorVars>>

StepPasses ==
  /\ step < LastStep /\ step' = step + 1
  /\ UNCHANGED <<required, version, session, pending, awaiting, factorVars>>
-----------------------------------------------------------------------------
(***************************************************************************)
(* Enrolment and revocation.                                               *)
(***************************************************************************)
\* mfa_totp_start.
TotpStart ==
  /\ Fresh /\ secrets < MaxSecrets
  /\ secrets' = secrets + 1 /\ setup' = secrets'
  /\ UNCHANGED <<required, step, version, session, pending, awaiting, totp, recovery,
                 passkeys, confirming, acceptedCodes, spent>>

NewCodes == [set |-> recovery.set + 1, left |-> Codes]

\* The first factor, or one enrolled when no code is left, brings a new set.
CodesForEnrolment ==
  /\ ~HasMfa \/ recovery.left = {} => recovery.set < MaxSets
  /\ recovery' = IF ~HasMfa \/ recovery.left = {} THEN NewCodes ELSE recovery

Verified(found) == [found EXCEPT !.version = CookieVersion(found), !.verified = TRUE]

\* A confirm request is sent, with the cookies of the time.
ConfirmSent(counter) ==
  /\ Fresh /\ setup # 0 /\ confirming = NoConfirm /\ counter \in CodeSteps
  /\ confirming' = [secret |-> setup, counter |-> counter, session |-> session]
  /\ UNCHANGED <<required, step, version, session, pending, awaiting, totp, recovery,
                 passkeys, setup, secrets, acceptedCodes, spent>>

\* mfa_totp_confirm: the setup cookie is signed and not kept, and the counter is
\* compared with none before, so that a request that arrives again is accepted
\* again, and sets totp_last_counter back.
TotpConfirm(again) ==
  /\ confirming.secret # 0 /\ confirming.counter \in CodeSteps
  /\ confirming.session.version = version /\ confirming.session.fresh
  /\ totp' = [secret |-> confirming.secret, last |-> confirming.counter]
  /\ CodesForEnrolment
  /\ setup' = 0
  /\ acceptedCodes' = [c \in TotpCodes |-> IF c = confirming.counter THEN 1 ELSE 0]
  /\ session' = Verified(confirming.session)
  /\ confirming' = IF again THEN confirming ELSE NoConfirm
  /\ UNCHANGED <<required, step, version, pending, awaiting, passkeys,
                 secrets, spent>>

\* A cookie or the code is no longer valid, or the request was lost.
ConfirmRefused ==
  /\ confirming # NoConfirm /\ confirming' = NoConfirm
  /\ UNCHANGED <<required, step, version, session, pending, awaiting, totp, recovery,
                 passkeys, setup, secrets, acceptedCodes, spent>>

\* mfa_registration_verify, up to its await of the body and after it.
EnrolmentBegins ==
  /\ awaiting = Idle /\ Fresh
  /\ awaiting' = [doing |-> "enrolment", found |-> session]
  /\ UNCHANGED <<required, step, version, session, pending, factorVars>>

EnrolmentEnds(p) ==
  /\ awaiting.doing = "enrolment" /\ awaiting' = Idle
  /\ p \notin passkeys /\ passkeys' = passkeys \cup {p}
  /\ CodesForEnrolment
  /\ session' = Verified(awaiting.found)
  /\ UNCHANGED <<required, step, version, pending, totp, setup, confirming, secrets,
                 acceptedCodes, spent>>

EnrolmentFails ==
  /\ awaiting.doing = "enrolment" /\ awaiting' = Idle
  /\ UNCHANGED <<required, step, version, session, pending, factorVars>>

\* _can_revoke.
CanRevoke == ~required \/ MethodCount(totp.secret, passkeys) > 1

\* With the last method go the recovery codes.
CodesAfter(secret, keys) ==
  IF MethodCount(secret, keys) = 0 THEN [recovery EXCEPT !.left = {}] ELSE recovery

\* mfa_totp_revoke.
TotpRevoke ==
  /\ Fresh /\ totp.secret # 0 /\ CanRevoke
  /\ totp' = [totp EXCEPT !.secret = 0]
  /\ recovery' = CodesAfter(0, passkeys)
  /\ UNCHANGED <<required, step, version, session, pending, awaiting, passkeys,
                 setup, confirming, secrets, acceptedCodes, spent>>

\* mfa_passkey_revoke.
PasskeyRevoke(p) ==
  /\ Fresh /\ p \in passkeys /\ CanRevoke
  /\ passkeys' = passkeys \ {p}
  /\ recovery' = CodesAfter(totp.secret, passkeys \ {p})
  /\ UNCHANGED <<required, step, version, session, pending, awaiting, totp, setup,
                 confirming, secrets, acceptedCodes, spent>>

\* Mutant of Regenerable: a verified session is enough.
RegenerableVerified == Fresh /\ session.verified

Regenerable == Fresh /\ session.verified /\ HasMfa

\* mfa_recovery_regenerate.
Regenerate ==
  /\ Regenerable /\ recovery.set < MaxSets
  /\ recovery' = NewCodes
  /\ UNCHANGED <<required, step, version, session, pending, awaiting, totp, passkeys,
                 setup, confirming, secrets, acceptedCodes, spent>>
-----------------------------------------------------------------------------
MfaNext ==
  \/ LoginBegins \/ LoginEnds
  \/ \E fresh \in BOOLEAN :
       \/ \E counter \in TotpCodes : LoginTotp(counter, fresh)
       \/ \E code \in Codes : LoginRecovery(code, fresh)
       \/ PasskeyLoginBegins(fresh)
  \/ \E ok \in BOOLEAN : PasskeyLoginEnds(ok)
  \/ Reauthenticate \/ Logout \/ FreshnessEnds \/ PendingEnds \/ SetupEnds
  \/ VersionMoves \/ StepPasses \/ ConfigurationChanges
  \/ TotpStart \/ EnrolmentBegins \/ EnrolmentFails \/ TotpRevoke \/ Regenerate
  \/ \E counter \in TotpCodes : ConfirmSent(counter)
  \/ \E again \in BOOLEAN : TotpConfirm(again)
  \/ ConfirmRefused
  \/ \E p \in Passkeys : EnrolmentEnds(p) \/ PasskeyRevoke(p)

MfaSpec == MfaInit /\ [][MfaNext]_mfaVars
-----------------------------------------------------------------------------
(***************************************************************************)
(* Properties.                                                             *)
(***************************************************************************)
\* From one confirmation of an authenticator to the next (a confirm request that
\* arrives again is one), a TOTP code serves once, be it to confirm or to sign in,
\* though it stays valid for three steps.
CodeOncePerConfirmation == \A c \in TotpCodes : acceptedCodes[c] <= 1

\* No recovery code that was used is on file: not after later enrolments,
\* revocations or replacements of the set.
RecoveryCodeOnce ==
  \A s \in 1..MaxSets, c \in Codes :
    <<s, c>> \in spent => ~(recovery.set = s /\ c \in recovery.left)

\* No code, of either kind, signs in twice on one enrolment.
CodesServeOnce == CodeOncePerConfirmation /\ RecoveryCodeOnce

\* Recovery codes stand in for a factor: without one there are none.
NoOrphanRecoveryCodes == ~HasMfa => recovery.left = {}

\* A session that is accepted as verified comes from a password given since the
\* account's password or role last changed, whatever its handlers awaited.
VerifiedIsCurrent ==
  SessionValid /\ session.verified => session.entered = version

\* "The final factor cannot be revoked while policy requires MFA."
RequiredFactorStays == [][required /\ HasMfa => HasMfa']_mfaVars
=============================================================================
