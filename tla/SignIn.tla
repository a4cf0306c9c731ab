------------------------------- MODULE SignIn -------------------------------
(***************************************************************************)
(* Signing in to one account: the hooks of Better Auth around              *)
(* /sign-in/email and session.create (lib/auth/better-auth.ts), the risk   *)
(* score (lib/auth/risk.ts), the lockout and its cleanup job               *)
(* (app/api/cron/login-attempts-cleanup), and the pages that drive them    *)
(* (login, verify-email, update-password).                                 *)
(*                                                                         *)
(* Comparing the password (bcrypt) and the second factor are awaited, so   *)
(* attempts of several clients overlap: the lockout is read before, the    *)
(* failure is recorded after.  With a second factor the risk of a sign-in  *)
(* is judged twice: Better Auth creates a session as soon as the password  *)
(* is right, which the twoFactor plugin deletes again to ask for the code. *)
(***************************************************************************)
EXTENDS Naturals, FiniteSets

CONSTANTS
  Clients,      \* browsers trying to sign in
  MaxAttempts,  \* LOGIN_LOCKOUT_MAX_ATTEMPTS
  MaxTries      \* bound: sign-ins, resets and changes of the second factor

\* Where a sign-in comes from: network, location and device; at home, at home
\* with another device, with that in another network, and abroad.
Places == {[net |-> 1, loc |-> 1, agent |-> 1], [net |-> 1, loc |-> 1, agent |-> 2],
           [net |-> 2, loc |-> 1, agent |-> 2], [net |-> 3, loc |-> 2, agent |-> 2]}
NoPlace == [net |-> 0, loc |-> 0, agent |-> 0]

VARIABLES
  verified,  \* users.email_verified
  second,    \* users.two_factor_enabled
  failed,    \* login_attempts rows inside the lockout window
  stale,     \* login_attempts rows older than the window
  base,      \* place of the newest login_risk_events row with succeeded
  sessions,  \* places that hold a session
  attempt,   \* the sign-in of each client
  tries,
  \* history
  refused    \* since the baseline was set: <<place, second>> refused for risk

signVars == <<verified, second, failed, stale, base, sessions, attempt, tries,
              refused>>

Idle(out) == [pc |-> "idle", at |-> NoPlace, right |-> FALSE, out |-> out]
Try(p, right) == [Idle("none") EXCEPT !.pc = "comparing", !.at = p, !.right = right]

Init ==
  /\ verified \in BOOLEAN
  /\ second \in BOOLEAN
  /\ failed = 0
  /\ stale = 0
  /\ base = NoPlace
  /\ sessions = {}
  /\ attempt = [c \in Clients |-> Idle("none")]
  /\ tries = 0
  /\ refused = {}

-----------------------------------------------------------------------------
\* computeLoginRisk and actionForScore.
Score(p, b) ==
  IF b = NoPlace THEN 25
  ELSE   (IF p.net # b.net THEN 45 ELSE 0)
       + (IF p.loc # b.loc THEN 25 ELSE 0)
       + (IF p.agent # b.agent THEN 30 ELSE 0)

RiskAction(p, b) ==
  IF Score(p, b) >= 80 THEN "lock_and_verify"
  ELSE IF Score(p, b) >= 60 THEN "challenge_mfa"
  ELSE "allow"

\* factor: the account has a second factor.
Blocked(p, factor) ==
  \/ RiskAction(p, base) = "lock_and_verify"
  \/ RiskAction(p, base) = "challenge_mfa" /\ ~factor

\* Faulty variant of Judge: the login is recorded as successful before it is
\* refused.
JudgeRecordFirst(c, p, factor, admitted) ==
  /\ base' = p
  /\ IF Blocked(p, factor)
     THEN /\ refused' = refused \cup {<<p, factor>>}
          /\ attempt' = [attempt EXCEPT ![c] = Idle("risk_blocked")]
     ELSE /\ refused' = {}
          /\ attempt' = [attempt EXCEPT ![c] = admitted]

\* enforceLoginRisk: the login is refused or let in, and recorded with the
\* outcome (the insert may fail).
Judge(c, p, factor, admitted) ==
  IF Blocked(p, factor)
  THEN /\ refused' = refused \cup {<<p, factor>>}
       /\ attempt' = [attempt EXCEPT ![c] = Idle("risk_blocked")]
       /\ UNCHANGED base
  ELSE /\ base' \in {base, p}
       /\ refused' = IF base' = base THEN refused ELSE {}
       /\ attempt' = [attempt EXCEPT ![c] = admitted]

\* session.create.before: no session without the check.
CreateSession(c, p, factor) ==
  /\ Judge(c, p, factor, Idle("ok"))
  /\ sessions' = IF Blocked(p, factor) THEN sessions ELSE sessions \cup {p}

-----------------------------------------------------------------------------
\* Faulty variant of StartSignIn: the lockout is not read.
StartSignInUnlocked(c, p, right) ==
  /\ attempt[c].pc = "idle"
  /\ tries < MaxTries
  /\ tries' = tries + 1
  /\ attempt' = [attempt EXCEPT ![c] = Try(p, right)]
  /\ UNCHANGED <<verified, second, failed, stale, base, sessions, refused>>

\* POST /sign-in/email: hooks.before refuses it while the e-mail is locked
\* out; else the password is compared.
StartSignIn(c, p, right) ==
  /\ attempt[c].pc = "idle"
  /\ tries < MaxTries
  /\ tries' = tries + 1
  /\ attempt' = [attempt EXCEPT ![c] =
       IF failed >= MaxAttempts THEN Idle("locked_out")
       ELSE Try(p, right)]
  /\ UNCHANGED <<verified, second, failed, stale, base, sessions, refused>>

\* recordFailedLoginAttempt, which may fail.
Fail == failed' \in {failed, failed + 1}

\* The comparison is done: a right password creates a session, which is
\* deleted before anyone gets it if a second factor is to come.  hooks.after
\* counts every error, a login that was refused included.
Compared(c) ==
  LET a == attempt[c]
  IN  /\ a.pc = "comparing"
      /\ \/ /\ ~a.right \/ ~verified
            /\ Fail
            /\ attempt' = [attempt EXCEPT ![c] =
                 Idle(IF a.right THEN "unverified" ELSE "wrong")]
            /\ UNCHANGED <<stale, base, sessions, refused>>
         \/ /\ a.right /\ verified
            /\ IF second
               THEN /\ Judge(c, a.at, TRUE, [a EXCEPT !.pc = "challenge"])
                    /\ UNCHANGED sessions
               ELSE CreateSession(c, a.at, FALSE)
            /\ IF Blocked(a.at, second) THEN Fail /\ UNCHANGED stale
                                        ELSE failed' = 0 /\ stale' = 0
      /\ UNCHANGED <<verified, second, tries>>

\* The TOTP or backup code, or giving up.
SecondFactor(c, ok) ==
  /\ attempt[c].pc = "challenge"
  /\ ok => second
  /\ IF ok THEN CreateSession(c, attempt[c].at, second)
     ELSE /\ attempt' = [attempt EXCEPT ![c] = Idle("wrong")]
          /\ UNCHANGED <<base, sessions, refused>>
  /\ UNCHANGED <<verified, second, failed, stale, tries>>

\* A magic link or a passkey: no password, no lockout and no code, the same
\* risk check.
OtherSignIn(c, p) ==
  /\ attempt[c].pc = "idle"
  /\ verified
  /\ tries < MaxTries
  /\ tries' = tries + 1
  /\ CreateSession(c, p, second)
  /\ UNCHANGED <<verified, second, failed, stale>>

\* The link of the verification mail (autoSignInAfterVerification).
VerifyEmail(c, p) ==
  /\ ~verified
  /\ attempt[c].pc = "idle"
  /\ verified' = TRUE
  /\ CreateSession(c, p, second)
  /\ UNCHANGED <<second, failed, stale, tries>>

\* The second factor is confirmed, or removed, in a session; either way
\* Better Auth sets the flag and then renews the session.
SetSecond(c, p) ==
  /\ sessions # {}
  /\ attempt[c].pc = "idle"
  /\ tries < MaxTries
  /\ tries' = tries + 1
  /\ second' = ~second
  /\ CreateSession(c, p, ~second)
  /\ UNCHANGED <<verified, failed, stale>>

\* The password is reset by mail: every session ends.
ResetPassword ==
  /\ tries < MaxTries
  /\ tries' = tries + 1
  /\ sessions' = {}
  /\ UNCHANGED <<verified, second, failed, stale, base, attempt, refused>>

\* An attempt falls out of the window; the cleanup job deletes it.
AttemptAges ==
  /\ failed > 0
  /\ failed' = failed - 1
  /\ stale' = IF stale < MaxAttempts THEN stale + 1 ELSE stale
  /\ UNCHANGED <<verified, second, base, sessions, attempt, tries, refused>>

PruneAttempts ==
  /\ stale > 0
  /\ stale' = 0
  /\ UNCHANGED <<verified, second, failed, base, sessions, attempt, tries,
                 refused>>

Next ==
  \/ \E c \in Clients :
       \/ \E p \in Places :
            \/ \E right \in BOOLEAN : StartSignIn(c, p, right)
            \/ OtherSignIn(c, p)
            \/ VerifyEmail(c, p)
            \/ SetSecond(c, p)
       \/ Compared(c)
       \/ \E ok \in BOOLEAN : SecondFactor(c, ok)
  \/ ResetPassword
  \/ AttemptAges
  \/ PruneAttempts

Spec == Init /\ [][Next]_signVars
-----------------------------------------------------------------------------
Comparing == {c \in Clients : attempt[c].pc = "comparing"}

\* However attempts overlap, the lockout admits MaxAttempts failures in its
\* window and at most one more for each client that was already past it.
GuessesBounded ==
  failed + Cardinality(Comparing) <= MaxAttempts + Cardinality(Clients) - 1

\* Trying again does not help: neither a session nor the baseline goes to a
\* place that was refused for its risk, by a password, a second factor or any
\* other way in, until a sign-in that was let in elsewhere has moved the
\* baseline; only a place that was refused for lack of a second factor is let
\* in once the account has one.
NoRefusedSession ==
  \A p \in Places :
    p \in sessions' \ sessions \/ (base' = p /\ base' # base)
      => /\ <<p, TRUE>> \notin refused
         /\ <<p, FALSE>> \in refused => second'
RefusalHolds == [][NoRefusedSession]_signVars
=============================================================================
