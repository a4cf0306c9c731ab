---------------------------- MODULE OfflineCache ----------------------------
(***************************************************************************)
(* What the service worker (sw.src.js) keeps of the accounts of a browser: *)
(* the answers of one messages request in its API cache, the page it shows *)
(* without a network, and the badge of the app.  The keys of the caches do *)
(* not say whose entry it is; the login page has the API cache deleted.    *)
(***************************************************************************)
EXTENDS Naturals

CONSTANTS
  Users,
  Fetches    \* requests of any tab that the worker has taken

VARIABLES
  who,       \* whose cookie the browser holds
  net,       \* the network is there
  active,    \* a worker is active
  page,      \* a tab: what it shows, of whom, whether the worker controls it,
             \* and whether it has posted a clear with nobody signed in
  shell,     \* APP_SHELL's entry for "/channels/me": whose page it is
  api,       \* API_CACHE's entry: whose answer, and whether it is in its TTL
  fetch,     \* requests: where they are, and the cookie they left with
  clears,    \* CLEAR_API_CACHE is on its way to the worker
  badge,     \* whose count the badge shows
  count,     \* a request for the count of the worker, and its cookie
  post,      \* APP_UPDATE_BADGE of the page is on its way
  \* history
  via,       \* this account came by a login page that had posted a clear before
  late,      \* an answer was put away after its account had gone
  odd        \* a count was shown after its account had gone

cacheVars == <<who, net, active, page, shell, api, fetch, clears, badge, count, post,
               via, late, odd>>

Nobody == "nobody"
NoEntry == [of |-> Nobody, fresh |-> FALSE]
NoFetch == [at |-> "none", as |-> Nobody]
Tab(kind, of, ctrl, posted) == [kind |-> kind, of |-> of, ctrl |-> ctrl, posted |-> posted]

Init ==
  /\ who = Nobody /\ net = TRUE /\ active = FALSE
  /\ page = Tab("closed", Nobody, FALSE, FALSE)
  /\ shell = Nobody /\ api = NoEntry
  /\ fetch = [f \in Fetches |-> NoFetch] /\ clears = FALSE
  /\ badge = Nobody /\ count = NoFetch /\ post = Nobody
  /\ via = FALSE /\ late = FALSE /\ odd = FALSE
-----------------------------------------------------------------------------
workerVars == <<api, fetch, badge, count>>
historyVars == <<via, late, odd>>

\* Faulty variant of OnLoginPage: the login page clears nothing.
OnLoginPageQuiet(ctrl) == /\ page' = Tab("login", Nobody, ctrl, ctrl /\ who = Nobody)
                          /\ UNCHANGED <<clears, post>>

\* The login page mounts: it posts to the worker that controls it, if one does.
OnLoginPage(ctrl) ==
  /\ page' = Tab("login", Nobody, ctrl, ctrl /\ who = Nobody)
  /\ clears' = (clears \/ ctrl)
  /\ UNCHANGED post

\* AppProvider mounts with the user of the page, never without one (the layout
\* of the channels sends those to /login): useTabUnreadTitle posts a count.
OnAppPage(u, ctrl) ==
  /\ page' = Tab("app", u, ctrl, FALSE)
  /\ post' = IF active THEN u ELSE post
  /\ UNCHANGED clears

\* proxy and ChannelsLayout: without a session the page is the login page.
Landing(u) == IF u = Nobody THEN "login" ELSE "app"
Load(u, ctrl) == IF Landing(u) = "login" THEN OnLoginPage(ctrl) ELSE OnAppPage(u, ctrl)

\* A navigation: the answer of the server, whatever its address, replaces the
\* shell; without the network the shell is what the tab shows.
Visit(ctrl) ==
  /\ ctrl => active
  /\ net \/ ctrl
  /\ Load(IF net THEN who ELSE shell, ctrl)
  /\ shell' = IF net /\ ctrl THEN who ELSE shell
  /\ UNCHANGED <<who, net, active, workerVars, historyVars>>

\* Signing in at the login page, which then loads the app.
SignIn(u) ==
  /\ page.kind = "login" /\ who = Nobody /\ net
  /\ who' = u /\ via' = page.posted
  /\ OnAppPage(u, page.ctrl)
  /\ shell' = IF page.ctrl THEN u ELSE shell
  /\ UNCHANGED <<net, active, workerVars, late, odd>>

\* A link in a mail, or a provider's answer, signs in without that page.
SignInByLink(u) ==
  /\ who = Nobody /\ net
  /\ who' = u /\ via' = FALSE
  /\ OnAppPage(u, active)
  /\ shell' = IF active THEN u ELSE shell
  /\ UNCHANGED <<net, active, workerVars, late, odd>>

\* Signing out in any tab, or the end of the session.
SignOut ==
  /\ who # Nobody /\ net
  /\ who' = Nobody /\ via' = FALSE
  /\ UNCHANGED <<net, active, page, shell, clears, post, workerVars, late, odd>>

\* router.replace("/login") after it: no navigation that the worker sees.
LeaveToLogin ==
  /\ page.kind = "app" /\ who = Nobody
  /\ OnLoginPage(page.ctrl)
  /\ UNCHANGED <<who, net, active, shell, workerVars, historyVars>>

\* install, which fetches the shell, and activate, which keeps the API cache
\* and claims the open tabs.
Activate ==
  /\ net
  /\ active' = TRUE /\ shell' = who
  /\ page' = IF page.kind = "closed" THEN page ELSE [page EXCEPT !.ctrl = TRUE]
  /\ UNCHANGED <<who, net, clears, post, workerVars, historyVars>>

Network ==
  /\ net' = ~net
  /\ UNCHANGED <<who, active, page, shell, clears, post, workerVars, historyVars>>
-----------------------------------------------------------------------------
tabs == <<who, net, active, page, shell>>

\* GET of the messages, by a tab that the worker controls.
Request(f) ==
  /\ active /\ fetch[f] = NoFetch
  /\ fetch' = [fetch EXCEPT ![f] = [at |-> "out", as |-> who]]
  /\ UNCHANGED <<tabs, clears, post, api, badge, count, historyVars>>

\* The answer, or a refusal that is not kept; the tab has it before the cache.
Answer(f) ==
  /\ fetch[f].at = "out" /\ net
  /\ fetch' = [fetch EXCEPT ![f] = IF @.as = Nobody THEN NoFetch ELSE [@ EXCEPT !.at = "put"]]
  /\ UNCHANGED <<tabs, clears, post, api, badge, count, historyVars>>

Put(f) ==
  /\ fetch[f].at = "put"
  /\ api' = [of |-> fetch[f].as, fresh |-> TRUE]
  /\ late' = (late \/ fetch[f].as # who)
  /\ fetch' = [fetch EXCEPT ![f] = NoFetch]
  /\ UNCHANGED <<tabs, clears, post, badge, count, via, odd>>

\* No answer: the cache's, unless it is too old, which removes it.
FromCache(f) ==
  /\ fetch[f].at = "out" /\ ~net
  /\ api' = IF api.fresh THEN api ELSE NoEntry
  /\ fetch' = [fetch EXCEPT ![f] = NoFetch]
  /\ UNCHANGED <<tabs, clears, post, badge, count, historyVars>>

\* API_CACHE_TTL.
Age ==
  /\ api.fresh
  /\ api' = [api EXCEPT !.fresh = FALSE]
  /\ UNCHANGED <<tabs, clears, post, fetch, badge, count, historyVars>>

Clear ==
  /\ clears
  /\ clears' = FALSE /\ api' = NoEntry /\ late' = FALSE
  /\ UNCHANGED <<tabs, post, fetch, badge, count, via, odd>>
-----------------------------------------------------------------------------
\* A push, or a periodic sync: the worker asks for the count.
AskCount ==
  /\ active /\ count = NoFetch
  /\ count' = [at |-> "out", as |-> who]
  /\ UNCHANGED <<tabs, clears, post, api, fetch, badge, historyVars>>

\* A refusal, or no answer, leaves the badge alone.
TellCount ==
  /\ count.at = "out"
  /\ LET told == net /\ count.as # Nobody
     IN  /\ badge' = IF told THEN count.as ELSE badge
         /\ odd' = IF told THEN count.as # who ELSE odd
  /\ count' = NoFetch
  /\ UNCHANGED <<tabs, clears, post, api, fetch, via, late>>

\* The message of a page.
ShowCount ==
  /\ post # Nobody
  /\ badge' = post /\ odd' = (post # who)
  /\ post' = Nobody
  /\ UNCHANGED <<tabs, clears, api, fetch, count, via, late>>
-----------------------------------------------------------------------------
Next ==
  \/ \E ctrl \in BOOLEAN : Visit(ctrl)
  \/ \E u \in Users : SignIn(u) \/ SignInByLink(u)
  \/ SignOut \/ LeaveToLogin \/ Activate \/ Network
  \/ \E f \in Fetches : Request(f) \/ Answer(f) \/ Put(f) \/ FromCache(f)
  \/ Age \/ Clear \/ AskCount \/ TellCount \/ ShowCount

Spec == Init /\ [][Next]_cacheVars
-----------------------------------------------------------------------------
\* Messages of another account are in the cache only if this one came without
\* the login page, or by one that no worker controlled; while the clear is on
\* its way; or because an answer was put away after its account had gone.
CacheOwned ==
  (who # Nobody /\ via /\ ~clears /\ api # NoEntry) => api.of = who \/ late

\* The badge of an account whose page was shown with a worker is not that of
\* another one, unless its count came late.
BadgeOwned ==
  (who # Nobody /\ page.of = who /\ page.ctrl /\ net /\ post = Nobody) =>
     badge \in {who, Nobody} \/ odd

OfflineOwned == CacheOwned /\ BadgeOwned
=============================================================================
