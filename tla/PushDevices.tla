----------------------------- MODULE PushDevices -----------------------------
(***************************************************************************)
(* Web Push to one browser: use-push-notifications and the service worker  *)
(* (sw.src.js), which subscribe it; api/push and the table of              *)
(* subscriptions; and the sends of lib/push.ts.  An endpoint that is gone  *)
(* does not come back, so that a row is named by its user and endpoint.    *)
(***************************************************************************)
EXTENDS Naturals

CONSTANTS
  Users,      \* accounts that use the browser, one after the other
  Runs,       \* calls of subscribe() in its pages
  MaxEnds     \* bound on the endpoints the push service gives out

VARIABLES
  who,        \* whose cookie the browser holds
  ios,        \* an iOS web app
  end,        \* the endpoint of its push manager, 0 if it has no subscription
  ends,       \* endpoints given out
  rows,       \* push_subscriptions
  run,        \* a call of subscribe(): its step, the endpoint, and the cookie it posts with
  worker,     \* pushsubscriptionchange: the same
  undo,       \* DELETE calls of the worker on their way
  told,       \* PUSH_SUBSCRIPTION_CHANGED is on its way to the pages
  \* history
  seen,       \* accounts that have signed in here
  mounted,    \* a page of this account has called subscribe()
  failed      \* a page was not able to register the endpoint

pushVars == <<who, ios, end, ends, rows, run, worker, undo, told, seen, mounted, failed>>

NoUser == "nobody"
Idle == [step |-> "idle", end |-> 0, as |-> NoUser]

Init ==
  /\ who = NoUser /\ end = 0 /\ ends = 0 /\ rows = {} /\ ios \in BOOLEAN
  /\ run = [r \in Runs |-> Idle] /\ worker = Idle
  /\ undo = {} /\ told = FALSE
  /\ seen = {} /\ mounted = FALSE /\ failed = FALSE

\* pushManager.subscribe gives the subscription there is, or a new one.
Subscribed == IF end = 0 THEN ends + 1 ELSE end
CanSubscribe == end = 0 => ends < MaxEnds

\* The request that registers an endpoint leaves with the cookie of the moment.
Posting(e) == [step |-> "posting", end |-> e, as |-> who]
-----------------------------------------------------------------------------
\* Accounts come and go, each once (a bound); signing out leaves the
\* subscription and its row.
SignIn(u) ==
  /\ who = NoUser /\ u \notin seen
  /\ who' = u /\ seen' = seen \cup {u}
  /\ mounted' = FALSE /\ failed' = FALSE
  /\ UNCHANGED <<ios, end, ends, rows, run, worker, undo, told>>

SignOut ==
  /\ who # NoUser
  /\ who' = NoUser /\ mounted' = FALSE
  /\ UNCHANGED <<ios, end, ends, rows, run, worker, undo, told, seen, failed>>

\* subscribe(): when AppProvider or the prompt mounts with the permission
\* granted, when the worker says so, or from the button that asks for it.
\* Without the permission it does nothing.
Begin(r) ==
  /\ run[r] = Idle /\ who # NoUser
  /\ run' = [run EXCEPT ![r].step = "look"]
  /\ mounted' = TRUE /\ told' = FALSE
  /\ UNCHANGED <<who, ios, end, ends, rows, worker, undo, seen, failed>>

\* getSubscription: one that exists is registered again, or, on iOS, given up.
Look(r) ==
  /\ run[r].step = "look"
  /\ run' = [run EXCEPT ![r] =
       IF end = 0 THEN [Idle EXCEPT !.step = "subscribe"]
       ELSE IF ios THEN [Idle EXCEPT !.step = "renew", !.end = end]
       ELSE Posting(end)]
  /\ UNCHANGED <<who, ios, end, ends, rows, worker, undo, told, seen, mounted, failed>>

Unsubscribe(r) ==
  /\ run[r].step = "renew"
  /\ end' = IF end = run[r].end THEN 0 ELSE end
  /\ run' = [run EXCEPT ![r].step = "subscribe"]
  /\ UNCHANGED <<who, ios, ends, rows, worker, undo, told, seen, mounted, failed>>

Subscribe(r) ==
  /\ run[r].step = "subscribe" /\ CanSubscribe
  /\ end' = Subscribed /\ ends' = IF end = 0 THEN ends + 1 ELSE ends
  /\ run' = [run EXCEPT ![r] = Posting(Subscribed)]
  /\ failed' = (failed /\ end # 0)
  /\ UNCHANGED <<who, ios, rows, worker, undo, told, seen, mounted>>

\* POST /api/push: an upsert on the user and the endpoint.
Saved(r) ==
  /\ run[r].step = "posting" /\ run[r].as # NoUser
  /\ rows' = rows \cup {[user |-> run[r].as, end |-> run[r].end]}
  /\ run' = [run EXCEPT ![r] = Idle]
  /\ UNCHANGED <<who, ios, end, ends, worker, undo, told, seen, mounted, failed>>

\* Not signed in, refused, lost, or the push service is not available: nothing
\* tries again before the next mount.
NotSaved(r) ==
  /\ run[r].step \in {"look", "subscribe", "posting"}
  /\ run' = [run EXCEPT ![r] = Idle]
  /\ failed' = TRUE
  /\ UNCHANGED <<who, ios, end, ends, rows, worker, undo, told, seen, mounted>>
-----------------------------------------------------------------------------
\* The browser drops its subscription: the worker sends a DELETE for the old
\* endpoint, which it does not await ...
Change ==
  /\ end # 0 /\ worker = Idle
  /\ end' = 0
  /\ undo' = undo \cup {[user |-> who, end |-> end]}
  /\ worker' = [worker EXCEPT !.step = "subscribe"]
  /\ UNCHANGED <<who, ios, ends, rows, run, told, seen, mounted, failed>>

Undone(d) ==
  /\ d \in undo
  /\ undo' = undo \ {d}
  /\ rows' = rows \ {d} \/ rows' = rows
  /\ UNCHANGED <<who, ios, end, ends, run, worker, told, seen, mounted, failed>>

\* ... subscribes again, posts ...
Resubscribe ==
  /\ worker.step = "subscribe" /\ CanSubscribe
  /\ end' = Subscribed /\ ends' = IF end = 0 THEN ends + 1 ELSE ends
  /\ worker' = Posting(Subscribed)
  /\ UNCHANGED <<who, ios, rows, run, undo, told, seen, mounted, failed>>

\* Faulty variant of Resaved: the pages hear only of a success.
ResavedQuietly(ok) ==
  /\ worker # Idle
  /\ ok => worker.step = "posting" /\ worker.as # NoUser
  /\ rows' = IF ok THEN rows \cup {[user |-> worker.as, end |-> worker.end]} ELSE rows
  /\ worker' = Idle /\ told' = (told \/ ok)
  /\ UNCHANGED <<who, ios, end, ends, run, undo, seen, mounted, failed>>

\* ... and tells the pages, also when that has failed.
Resaved(ok) ==
  /\ worker # Idle
  /\ ok => worker.step = "posting" /\ worker.as # NoUser
  /\ rows' = IF ok THEN rows \cup {[user |-> worker.as, end |-> worker.end]} ELSE rows
  /\ worker' = Idle /\ told' = TRUE
  /\ UNCHANGED <<who, ios, end, ends, run, undo, seen, mounted, failed>>
-----------------------------------------------------------------------------
\* Faulty variant of Gone: whatever the error.
GoneAtAnyError(r) ==
  /\ rows' = rows \ {r}
  /\ UNCHANGED <<who, ios, end, ends, run, worker, undo, told, seen, mounted, failed>>

\* sendPushToUser sends to each row of the user.  What arrives is shown, whoever
\* is signed in; an answer of 404 or 410, however late, removes the row.
Gone(r) ==
  /\ r.end # end
  /\ rows' = rows \ {r}
  /\ UNCHANGED <<who, ios, end, ends, run, worker, undo, told, seen, mounted, failed>>

Next ==
  \/ SignOut \/ Change \/ Resubscribe
  \/ \E u \in Users : SignIn(u)
  \/ \E r \in Runs : \/ Begin(r) \/ Look(r) \/ Unsubscribe(r) \/ Subscribe(r)
                     \/ Saved(r) \/ NotSaved(r)
  \/ \E d \in undo : Undone(d)
  \/ \E ok \in BOOLEAN : Resaved(ok)
  \/ \E r \in rows : Gone(r)

Spec == Init /\ [][Next]_pushVars
-----------------------------------------------------------------------------
\* A browser whose pages have asked for pushes gets them: once they and the
\* worker are at rest, its endpoint is registered for the account signed in,
\* unless a page has failed to register it.  No send, no late DELETE, no other
\* page and no rotation takes that row away.
Reachable ==
  (\A r \in Runs : run[r] = Idle) /\ worker = Idle /\ ~told /\ mounted /\ end # 0 /\ ~failed
    => [user |-> who, end |-> end] \in rows

\* What is shown here is for accounts that have signed in here.
ShownToOwners ==
  \A r \in rows : r.end = end => r.user \in seen

PushesAccounted == Reachable /\ ShownToOwners
=============================================================================
