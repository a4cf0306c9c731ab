----------------------------- MODULE Connections -----------------------------
(***************************************************************************)
(* External accounts on a profile: the table user_connections, written by  *)
(* the connections API (app/api/users/connections), by the callbacks of    *)
(* Steam and YouTube, and, for the social providers, by the hook           *)
(* databaseHooks.account.create.after (lib/auth/better-auth.ts).           *)
(*                                                                         *)
(* A flow leaves the browser with a random state, which a cookie of the    *)
(* browser repeats; the callback reads the signed-in user, compares, asks  *)
(* the provider, and writes the row for the user it read.                  *)
(***************************************************************************)
EXTENDS Naturals, Sequences

CONSTANTS
  People,    \* users
  Browsers,  \* browsers, each with its cookies
  Accts,     \* accounts at the provider
  MaxFlows   \* bound: flows started

VARIABLES
  user,      \* who is signed in at each browser
  state,     \* steam_oauth_state / youtube_oauth_state of each browser
  flow,      \* flows: by whom, and what a callback is proving for whom
  row,       \* user_connections of each user for one provider
  linked,    \* accounts rows of Better Auth: <<user, account>>
  \* history
  moved      \* flows during which their browser changed hands

linkVars == <<user, state, flow, row, linked, moved>>

NoRow == [acct |-> "none", how |-> "none", flow |-> 0]
Away(u, b) == [by |-> u, at |-> b, pc |-> "away", acct |-> "none", to |-> "nobody"]

Init ==
  /\ user \in [Browsers -> People]
  /\ state = [b \in Browsers |-> 0]
  /\ flow = << >>
  /\ row = [u \in People |-> NoRow]
  /\ linked = {}
  /\ moved = {}

\* GET start: a new state replaces the one in the cookie.
Start(b) ==
  /\ Len(flow) < MaxFlows
  /\ flow' = Append(flow, Away(user[b], b))
  /\ state' = [state EXCEPT ![b] = Len(flow')]
  /\ UNCHANGED <<user, row, linked, moved>>

\* Faulty variant of Callback: the state is not compared.
CallbackUnchecked(n, b, a) ==
  /\ flow[n].pc = "away"
  /\ flow' = [flow EXCEPT ![n] =
       [by |-> flow[n].by, at |-> b, pc |-> "proving", acct |-> a, to |-> user[b]]]
  /\ UNCHANGED <<user, state, row, linked, moved>>

\* GET callback of flow n in browser b, for account a of the provider: the
\* state must be the one in the cookie.
Callback(n, b, a) ==
  /\ flow[n].pc = "away"
  /\ state[b] = n
  /\ flow' = [flow EXCEPT ![n] =
       [by |-> flow[n].by, at |-> b, pc |-> "proving", acct |-> a, to |-> user[b]]]
  /\ UNCHANGED <<user, state, row, linked, moved>>

\* The provider has answered: the row is inserted or replaced and the cookie
\* deleted, or the cookie is kept.
Prove(n, ok) ==
  /\ flow[n].pc = "proving"
  /\ flow' = [flow EXCEPT ![n].pc = IF ok THEN "done" ELSE "away"]
  /\ IF ok
     THEN /\ row' = [row EXCEPT ![flow[n].to] =
               [acct |-> flow[n].acct, how |-> "proved", flow |-> n]]
          /\ state' = [state EXCEPT ![flow[n].at] = 0]
     ELSE UNCHANGED <<row, state>>
  /\ UNCHANGED <<user, linked, moved>>

\* linkSocial: Better Auth adds the account, the hook the row, if it can.
LinkSocial(u, a, ok) ==
  /\ linked' = linked \cup {<<u, a>>}
  /\ row' = IF ok
            THEN [row EXCEPT ![u] = [acct |-> a, how |-> "linked", flow |-> 0]]
            ELSE row
  /\ UNCHANGED <<user, state, flow, moved>>

\* POST: whatever the user types.
Typed(u, a) ==
  /\ row' = [row EXCEPT ![u] = [acct |-> a, how |-> "typed", flow |-> 0]]
  /\ UNCHANGED <<user, state, flow, linked, moved>>

\* DELETE: the row only.
Remove(u) ==
  /\ row' = [row EXCEPT ![u] = NoRow]
  /\ UNCHANGED <<user, state, flow, linked, moved>>

\* Another person signs in at the browser; its cookies stay.
ChangeHands(b, u) ==
  /\ user[b] # u
  /\ user' = [user EXCEPT ![b] = u]
  /\ moved' = moved \cup {n \in DOMAIN flow : flow[n].at = b /\ flow[n].pc # "done"}
  /\ UNCHANGED <<state, flow, row, linked>>

Next ==
  \/ \E b \in Browsers : Start(b)
  \/ \E n \in DOMAIN flow, b \in Browsers :
       \E a \in Accts : Callback(n, b, a)
  \/ \E n \in DOMAIN flow, ok \in BOOLEAN : Prove(n, ok)
  \/ \E u \in People, a \in Accts :
       \/ \E ok \in BOOLEAN : LinkSocial(u, a, ok)
       \/ Typed(u, a)
  \/ \E u \in People : Remove(u)
  \/ \E b \in Browsers, u \in People : ChangeHands(b, u)

Spec == Init /\ [][Next]_linkVars
-----------------------------------------------------------------------------
\* A connection proved to a provider belongs to the user who set out to make
\* it, unless the browser changed hands on the way: the callback writes for
\* whoever is signed in when it arrives, and only the browser is checked.
LinkedByStarter ==
  \A u \in People :
    row[u].how = "proved" => \/ flow[row[u].flow].by = u
                             \/ row[u].flow \in moved
=============================================================================
