---------------------------- MODULE Registration ----------------------------
(***************************************************************************)
(* Invite-gated registration: the invites API (app/api/invites),           *)
(* consumeInviteCode (lib/auth/invites.ts) and the hook                    *)
(* databaseHooks.user.create.before (lib/auth/better-auth.ts).             *)
(*                                                                         *)
(* Better Auth runs without a transaction: between the hook, which takes   *)
(* one use of the invite, and the INSERT, which may fail on a unique       *)
(* column, other sign-ups run, and the process may stop.                   *)
(***************************************************************************)
EXTENDS Naturals, FiniteSets

CONSTANTS
  Signups,  \* sign-up requests
  Names,    \* identities (e-mail and username, which are unique)
  Codes,    \* invite codes
  MaxUses   \* bound: uses of a code (MAX_USES_CAP is 50)

VARIABLES
  account,  \* users: how each identity was admitted
  invite,   \* registration_invites
  signup,   \* the sign-up requests
  \* history
  burnt,    \* codes of sign-ups that overlapped another one for the same
            \* identity, or were cut short
  founding  \* sign-ups that were past the hook when no account existed

regVars == <<account, invite, signup, burnt, founding>>

NoInvite == [max |-> 0, uses |-> 0, live |-> FALSE]
Idle == [pc |-> "idle", name |-> "none", code |-> "none"]

Init ==
  /\ account = [n \in Names |-> "none"]
  /\ invite = [c \in Codes |-> NoInvite]
  /\ signup = [s \in Signups |-> Idle]
  /\ burnt = {}
  /\ founding = {}

Accounts == {n \in Names : account[n] # "none"}
Reserved == {s \in Signups : signup[s].pc = "reserved"}

\* POST /api/invites, by anybody who has an account.
Mint(c, n) ==
  /\ Accounts # {}
  /\ invite[c] = NoInvite
  /\ invite' = [invite EXCEPT ![c] = [max |-> n, uses |-> 0, live |-> TRUE]]
  /\ UNCHANGED <<account, signup, burnt, founding>>

\* DELETE /api/invites/[id], or expires_at passes.
Retire(c) ==
  /\ invite[c].live
  /\ invite' = [invite EXCEPT ![c].live = FALSE]
  /\ UNCHANGED <<account, signup, burnt, founding>>

\* The register page posts the form.
SignUp(s, n, c) ==
  /\ signup[s] = Idle
  /\ signup' = [signup EXCEPT ![s] = [pc |-> "posted", name |-> n, code |-> c]]
  /\ UNCHANGED <<account, invite, burnt, founding>>

\* Faulty variant of Consumable: the count is not looked at.
ConsumableUncounted(c) ==
  c \in Codes /\ invite[c].live

\* The WHERE of the UPDATE in consumeInviteCode.
Consumable(c) ==
  c \in Codes /\ invite[c].live /\ invite[c].uses < invite[c].max

\* The hook: the first account needs no invite; an identity that is taken is
\* left to the unique constraint; anybody else uses up one use of the code.
Hook(s) ==
  LET n == signup[s].name
      c == signup[s].code
      pass(code) == signup' = [signup EXCEPT ![s].pc = "reserved", ![s].code = code]
  IN  /\ signup[s].pc = "posted"
      /\ \/ /\ Accounts = {}
            /\ pass("none")
            /\ founding' = founding \cup {s}
            /\ UNCHANGED <<invite, burnt>>
         \/ /\ Accounts # {} /\ n \in Accounts
            /\ pass("none")
            /\ UNCHANGED <<invite, burnt, founding>>
         \/ /\ Accounts # {} /\ n \notin Accounts /\ Consumable(c)
            /\ pass(c)
            /\ invite' = [invite EXCEPT ![c].uses = @ + 1]
            /\ burnt' = IF \E r \in Reserved : signup[r].name = n
                        THEN burnt \cup {c} \cup {signup[r].code : r \in Reserved}
                        ELSE burnt
            /\ UNCHANGED founding
         \/ /\ Accounts # {} /\ n \notin Accounts /\ ~Consumable(c)
            /\ signup' = [signup EXCEPT ![s] = Idle]
            /\ UNCHANGED <<invite, burnt, founding>>
      /\ UNCHANGED account

\* The INSERT, or its failure on the unique e-mail or username.
Insert(s) ==
  LET n == signup[s].name
  IN  /\ signup[s].pc = "reserved"
      /\ account' = IF n \in Accounts THEN account
                    ELSE [account EXCEPT ![n] =
                      IF signup[s].code = "none" THEN "founder" ELSE signup[s].code]
      /\ signup' = [signup EXCEPT ![s] = Idle]
      /\ UNCHANGED <<invite, burnt, founding>>

\* The process stops between the two.
Stop ==
  /\ Reserved # {}
  /\ signup' = [s \in Signups |-> Idle]
  /\ burnt' = burnt \cup {signup[s].code : s \in Reserved}
  /\ UNCHANGED <<account, invite, founding>>

Next ==
  \/ \E c \in Codes, n \in 1 .. MaxUses : Mint(c, n)
  \/ \E c \in Codes : Retire(c)
  \/ \E s \in Signups, n \in Names, c \in Codes \cup {"none"} : SignUp(s, n, c)
  \/ \E s \in Signups : Hook(s) \/ Insert(s)
  \/ Stop

Spec == Init /\ [][Next]_regVars
-----------------------------------------------------------------------------
Via(c) == {n \in Names : account[n] = c}
Holding(c) == {s \in Reserved : signup[s].code = c}

\* However sign-ups interleave, a code never admits more accounts than it has
\* uses, and no use is lost, except to a sign-up that raced another one for
\* the same identity or was cut short.
InvitesAccounted ==
  \A c \in Codes :
    /\ invite[c].uses <= invite[c].max
    /\ Cardinality(Via(c)) + Cardinality(Holding(c)) <= invite[c].uses
    /\ \/ Cardinality(Via(c)) + Cardinality(Holding(c)) = invite[c].uses
       \/ c \in burnt

\* There is no more than one account without an invite, unless several
\* sign-ups were past the hook before the first account existed.
OneFounder ==
  Cardinality(Via("founder")) <= IF founding = {} THEN 0 ELSE Cardinality(founding)

\* Both ways to an account.
AdmissionsAccounted == InvitesAccounted /\ OneFounder
=============================================================================
