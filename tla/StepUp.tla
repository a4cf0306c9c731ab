------------------------------- MODULE StepUp -------------------------------
(***************************************************************************)
(* Re-authentication before a sensitive change: the cookie of              *)
(* lib/auth/step-up.ts, POST /api/auth/step-up, the gate and the burning   *)
(* of the cookie in the hooks of lib/auth/better-auth.ts, and the prompt   *)
(* (components/settings/security/step-up-prompt.tsx) of one browser.       *)
(*                                                                         *)
(* The gate reads the cookie when a request comes in, and the response     *)
(* deletes it: requests of one browser overlap, people take turns at it,   *)
(* and the prompt awaits the status between its check and its use of       *)
(* resolveRef.                                                             *)
(***************************************************************************)
EXTENDS Naturals, Sequences, FiniteSets

CONSTANTS
  People,    \* users of the browser
  Buttons,   \* what asks for step-up: connect GitHub, Twitch, Reddit; disable 2FA
  MaxProofs  \* bound: re-authentications

VARIABLES
  who,       \* the signed-in user
  cookie,    \* vtx_step_up: the number of the proof it carries, 0 for none
  proof,     \* each proof: whose it is and whether it is within its TTL
  button,    \* where each click has got to
  ref,       \* resolveRef: the caller that is told when the prompt settles
  \* history
  bought,    \* mutations: <<user, proof, button>>
  shared,    \* proofs that two requests carried at once, or whose cookie was
             \* not deleted
  raced      \* clicks while another click was asking for the status

stepVars == <<who, cookie, proof, button, ref, bought, shared, raced>>

NoBody == "nobody"
Rest == [pc |-> "idle", user |-> NoBody, proof |-> 0]

Init ==
  /\ who \in People
  /\ cookie = 0
  /\ proof = << >>
  /\ button = [b \in Buttons |-> Rest]
  /\ ref = "none"
  /\ bought = {}
  /\ shared = {}
  /\ raced = {}

At(pc) == {b \in Buttons : button[b].pc = pc}

\* Faulty variant of Valid: the user in the cookie is not compared.
ValidForAnybody(u) == cookie # 0 /\ proof[cookie].fresh

\* hasValidStepUpToken.
Valid(u) == cookie # 0 /\ proof[cookie].user = u /\ proof[cookie].fresh

-----------------------------------------------------------------------------
(* The prompt.                                                             *)

\* requireStepUp: refused while a prompt is open; then the status is fetched.
Click(b) ==
  /\ button[b] = Rest /\ who # NoBody
  /\ ref = "none"
  /\ button' = [button EXCEPT ![b].pc = "asking"]
  /\ raced' = IF At("asking") # {} THEN raced \cup At("asking") \cup {b} ELSE raced
  /\ UNCHANGED <<who, cookie, proof, ref, bought, shared>>

\* The status arrives: a live token is used as it is, anything else opens the
\* dialog, whoever had it.
Status(b) ==
  /\ button[b].pc = "asking"
  /\ IF who # NoBody /\ Valid(who)
     THEN button' = [button EXCEPT ![b].pc = "go"] /\ UNCHANGED ref
     ELSE button' = [button EXCEPT ![b].pc = "waiting"] /\ ref' = b
  /\ UNCHANGED <<who, cookie, proof, bought, shared, raced>>

\* The dialog is dismissed.
Cancel ==
  /\ ref # "none"
  /\ button' = [button EXCEPT ![ref] = Rest]
  /\ ref' = "none"
  /\ UNCHANGED <<who, cookie, proof, bought, shared, raced>>

\* POST /api/auth/step-up with the right password or code; a wrong one, or an
\* account with no factor, leaves everything as it is.
Prove ==
  /\ ref # "none" /\ who # NoBody
  /\ Len(proof) < MaxProofs
  /\ proof' = Append(proof, [user |-> who, fresh |-> TRUE])
  /\ cookie' = Len(proof')
  /\ button' = [button EXCEPT ![ref].pc = "go"]
  /\ ref' = "none"
  /\ UNCHANGED <<who, bought, shared, raced>>

-----------------------------------------------------------------------------
(* The gated endpoints.                                                    *)

\* hooks.before of /two-factor/disable and /link-social.
Gate(b) ==
  /\ button[b].pc = "go"
  /\ who # NoBody
  /\ IF Valid(who)
     THEN /\ button' = [button EXCEPT ![b] =
               [pc |-> "through", user |-> who, proof |-> cookie]]
          /\ shared' = IF \E a \in At("through") : button[a].proof = cookie
                       THEN shared \cup {cookie} ELSE shared
     ELSE button' = [button EXCEPT ![b] = Rest] /\ UNCHANGED shared
  /\ UNCHANGED <<who, cookie, proof, ref, bought, raced>>

\* The change is made, and hooks.after deletes the cookie (whichever the
\* browser has by then), or the endpoint fails and the cookie stays.
Finish(b, ok, cleared) ==
  /\ button[b].pc = "through"
  /\ button' = [button EXCEPT ![b] = Rest]
  /\ IF ok
     THEN /\ bought' = bought \cup {<<button[b].user, button[b].proof, b>>}
          /\ cookie' = IF cleared THEN 0 ELSE cookie
          /\ shared' = IF cleared THEN shared ELSE shared \cup {button[b].proof}
     ELSE UNCHANGED <<bought, cookie, shared>>
  /\ UNCHANGED <<who, proof, ref, raced>>

-----------------------------------------------------------------------------
\* STEP_UP_TTL_MS passes; the browser may keep sending the cookie.
Lapse(n) ==
  /\ proof[n].fresh
  /\ proof' = [proof EXCEPT ![n].fresh = FALSE]
  /\ UNCHANGED <<who, cookie, button, ref, bought, shared, raced>>

\* Another person takes over: the page is reloaded, the cookie stays.
ChangeHands(u) ==
  /\ u # who
  /\ who' = u
  /\ button' = [b \in Buttons |-> IF b \in At("through") THEN button[b] ELSE Rest]
  /\ ref' = "none"
  /\ UNCHANGED <<cookie, proof, bought, shared, raced>>

Next ==
  \/ \E b \in Buttons :
       \/ Click(b) \/ Status(b) \/ Gate(b)
       \/ \E ok, cleared \in BOOLEAN : Finish(b, ok, cleared)
  \/ Cancel \/ Prove
  \/ \E n \in DOMAIN proof : Lapse(n)
  \/ \E u \in People \cup {NoBody} : ChangeHands(u)

Spec == Init /\ [][Next]_stepVars
-----------------------------------------------------------------------------
\* One re-authentication pays for one change, unless two requests were past
\* the gate together or the cookie could not be deleted.
OneChangePerProof ==
  \A x, y \in bought : x[2] = y[2] => x = y \/ x[2] \in shared

\* A change to an account is paid by its own user's re-authentication, also
\* when people take turns at one browser.
ProofIsOwn ==
  \A x \in bought : proof[x[2]].user = x[1]

\* A click is never left waiting for a prompt that has settled for somebody
\* else, unless it was made while another one was asking for the status.
NobodyOrphaned ==
  \A b \in At("waiting") : ref = b \/ b \in raced

\* What the prompt and its proof owe every click: no change without a proof
\* of its own, by its own user, and an answer to the click.
ProofsAccounted == OneChangePerProof /\ ProofIsOwn /\ NobodyOrphaned
=============================================================================
