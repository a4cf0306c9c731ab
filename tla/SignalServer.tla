---------------------------- MODULE SignalServer ----------------------------
(***************************************************************************)
(* The process of the signal server: how it starts, the requests the web   *)
(* app sends it (gateway-publish.ts) and how it shuts down (index.ts).     *)
(* What a revocation does is in GatewayRooms ("channel") and               *)
(* SessionRevocation ("sessions"); here its steps are done or not.         *)
(***************************************************************************)
EXTENDS Naturals

CONSTANTS
  Requests,  \* requests of the web app
  Kinds,     \* subset of {"health", "stored", "passing", "channel", "sessions", "unknown"}
  Bodies,    \* subset of {"fits", "large", "garbled", "malformed"}
  Clients    \* browsers with a socket

VARIABLES
  env,       \* the environment the processes were given
  proc,      \* the server's process
  shutdown,  \* where gracefulShutdown is, for each signal
  sockets,   \* clients that are connected
  asked,     \* what the caller of a request knows
  request,   \* what it asked
  step,      \* where the handler of the request is
  answer,    \* the status it answered
  effect,    \* what the request has done: subset of {"stored", "sent"}
  \* history
  told,      \* clients that were sent server-shutdown
  cut,       \* clients a server that exits by itself disconnects
  dropped    \* requests whose caller it leaves without an answer

serverVars == <<env, proc, shutdown, sockets, asked, request, step, answer,
                effect, told, cut, dropped>>

Signals == {"SIGTERM", "SIGINT"}
Environments == [prod : BOOLEAN, origins : {"list", "any"}, web : BOOLEAN,
                 secret : BOOLEAN, caller : {"none", "same", "other"}, redis : BOOLEAN]

Init ==
  /\ env \in Environments
  /\ (~env.secret => env.caller # "same")
  /\ ~env.prod => env.origins = "list" /\ env.web  \* looked at in production only
  /\ proc = "off"
  /\ shutdown = [s \in Signals |-> "no"]
  /\ sockets = {}
  /\ asked = [r \in Requests |-> "no"] /\ request = [r \in Requests |-> <<"", "">>]
  /\ step = [r \in Requests |-> "none"] /\ answer = [r \in Requests |-> 0]
  /\ effect = [r \in Requests |-> {}]
  /\ told = {} /\ cut = {} /\ dropped = {}
-----------------------------------------------------------------------------
\* In production it refuses to start without its origins, the address of the
\* web app and the secret.
Complete == env.prod => env.origins = "list" /\ env.web /\ env.secret

Launch ==
  /\ proc = "off"
  /\ proc' = IF Complete THEN "up" ELSE "refused"
  /\ UNCHANGED <<env, shutdown, sockets, asked, request, step, answer, effect,
                 told, cut, dropped>>

Running == proc \in {"up", "closing"}
Connect(u) ==
  /\ proc = "up" /\ u \notin sockets
  /\ sockets' = sockets \cup {u}
  /\ UNCHANGED <<env, proc, shutdown, asked, request, step, answer, effect,
                 told, cut, dropped>>
Leave(u) ==
  /\ u \in sockets
  /\ sockets' = sockets \ {u}
  /\ UNCHANGED <<env, proc, shutdown, asked, request, step, answer, effect,
                 told, cut, dropped>>
-----------------------------------------------------------------------------
\* The callers of gateway-publish.ts: without a secret they do not ask.
Ask(r, k, b) ==
  /\ asked[r] = "no"
  /\ asked' = [asked EXCEPT ![r] = IF k \notin {"health", "unknown"} /\ env.caller = "none"
                                   THEN "skipped" ELSE IF proc = "up" THEN "waiting" ELSE "failed"]
  /\ request' = [request EXCEPT ![r] = <<k, b>>]
  /\ step' = [step EXCEPT ![r] = IF asked'[r] = "waiting" THEN "arrived" ELSE "none"]
  /\ UNCHANGED <<env, proc, shutdown, sockets, answer, effect, told, cut, dropped>>

\* The caller aborts after two seconds.
GiveUp(r) ==
  /\ asked[r] = "waiting"
  /\ asked' = [asked EXCEPT ![r] = "gaveup"]
  /\ UNCHANGED <<env, proc, shutdown, sockets, request, step, answer, effect,
                 told, cut, dropped>>

Done(r, code) ==
  /\ step' = [step EXCEPT ![r] = "done"]
  /\ answer' = [answer EXCEPT ![r] = code]
  /\ asked' = [asked EXCEPT ![r] = IF @ = "waiting" THEN "answered" ELSE @]
Going(r, s) == step' = [step EXCEPT ![r] = s] /\ UNCHANGED <<answer, asked>>

\* The checks before the body is read; 0 when the request passes them.
Refusal(k) ==
  CASE k = "health" -> 200
    [] k = "unknown" -> 404
    [] k \notin {"health", "unknown"} /\ ~env.secret -> 503
    [] k \notin {"health", "unknown"} /\ env.secret /\ env.caller = "other" -> 401
    [] k \in {"stored", "passing"} /\ env.secret /\ env.caller = "same" /\ ~env.redis -> 503
    [] OTHER -> 0

Check(r) ==
  /\ Running /\ step[r] = "arrived"
  /\ LET code == Refusal(request[r][1])
     IN IF code = 0 THEN Going(r, "reading") ELSE Done(r, code)
  /\ UNCHANGED <<env, proc, shutdown, sockets, request, effect, told, cut, dropped>>

\* At most 4096 bytes of it, which JSON.parse takes or throws at; the
\* connection may go away meanwhile.
Read(r) ==
  /\ Running /\ step[r] = "reading"
  /\ CASE request[r][2] = "large" -> Done(r, 413)
       [] request[r][2] = "garbled" -> Done(r, 500)
       [] request[r][2] = "malformed" -> Done(r, 400)
       [] OTHER -> Going(r, "working")
  /\ UNCHANGED <<env, proc, shutdown, sockets, request, effect, told, cut, dropped>>
ReadAborted(r) ==
  /\ Running /\ step[r] = "reading" /\ asked[r] = "gaveup"
  /\ Done(r, 500)
  /\ UNCHANGED <<env, proc, shutdown, sockets, request, effect, told, cut, dropped>>

\* What takes two steps: the bus keeps an event of a stored kind before it
\* sends it to every replica; the cutoff of a revocation is kept before the
\* user's sockets are disconnected.
Kept == {"stored", "sessions"}
Store(r) ==
  /\ Running /\ step[r] = "working" /\ request[r][1] \in Kept
  /\ Going(r, "sending")
  /\ effect' = [effect EXCEPT ![r] = @ \cup {"stored"}]
  /\ UNCHANGED <<env, proc, shutdown, sockets, request, told, cut, dropped>>
Send(r) ==
  /\ Running
  /\ \/ step[r] = "sending"
     \/ step[r] = "working" /\ request[r][1] \in {"passing", "channel"}
  /\ Done(r, 200)
  /\ effect' = [effect EXCEPT ![r] = @ \cup {"sent"}]
  /\ UNCHANGED <<env, proc, shutdown, sockets, request, told, cut, dropped>>

\* Redis fails, before or after it has done what it was asked.  revoke() says
\* whether the cutoff was kept; revokeChannelAccess swallows the error.
Fail(r) ==
  LET k == request[r][1]
      code == CASE k = "sessions" /\ step[r] = "working" -> 503
                [] k = "channel" -> 200
                [] OTHER -> 500
  IN  /\ Running /\ env.redis /\ step[r] \in {"working", "sending"}
      /\ Done(r, code)
      /\ \E done \in SUBSET {IF step[r] = "working" /\ k \in Kept THEN "stored" ELSE "sent"} :
           effect' = [effect EXCEPT ![r] = @ \cup done]
      /\ UNCHANGED <<env, proc, shutdown, sockets, request, told, cut, dropped>>
-----------------------------------------------------------------------------
\* A signal: no new connection from here on.
Signal(s) ==
  /\ Running /\ shutdown[s] = "no"
  /\ proc' = "closing"
  /\ shutdown' = [shutdown EXCEPT ![s] = "closing"]
  /\ UNCHANGED <<env, sockets, asked, request, step, answer, effect, told, cut, dropped>>

\* close() calls back when the last connection is gone, those that became
\* WebSockets included; only then are the clients told, and drained.
Waiting == {r \in Requests : asked[r] = "waiting"}
Closed(s) ==
  /\ proc = "closing" /\ shutdown[s] = "closing"
  /\ sockets = {} /\ Waiting = {}
  /\ shutdown' = [shutdown EXCEPT ![s] = "draining"]
  /\ told' = told \cup sockets
  /\ UNCHANGED <<env, proc, sockets, asked, request, step, answer, effect, cut, dropped>>

\* A check finds no client left, or the limit passed: what is left is closed.
Drained(s) ==
  /\ proc = "closing" /\ shutdown[s] = "draining"
  /\ shutdown' = [shutdown EXCEPT ![s] = "quitting"]
  /\ cut' = cut \cup sockets /\ sockets' = {}
  /\ UNCHANGED <<env, proc, asked, request, step, answer, effect, told, dropped>>

\* The process ends: a handler whose caller is gone ends with it.
Ended(how) ==
  /\ proc' = how
  /\ sockets' = {}
  /\ asked' = [r \in Requests |-> IF asked[r] = "waiting" THEN "failed" ELSE asked[r]]
  /\ UNCHANGED <<env, shutdown, request, step, answer, effect, told>>
Exit(s) ==
  /\ proc = "closing" /\ shutdown[s] = "quitting"
  /\ Ended("exited")
  /\ dropped' = dropped \cup Waiting /\ cut' = cut \cup sockets
Kill ==
  /\ Running
  /\ Ended("killed")
  /\ UNCHANGED <<dropped, cut>>

Next ==
  \/ Launch \/ Kill
  \/ \E u \in Clients : Connect(u) \/ Leave(u)
  \/ \E r \in Requests :
       \/ \E k \in Kinds, b \in Bodies : Ask(r, k, b)
       \/ GiveUp(r) \/ Check(r) \/ Read(r) \/ ReadAborted(r)
       \/ Store(r) \/ Send(r) \/ Fail(r)
  \/ \E s \in Signals : Signal(s) \/ Closed(s) \/ Drained(s) \/ Exit(s)

Spec == Init /\ [][Next]_serverVars
-----------------------------------------------------------------------------
\* What a request was to do.
Whole(k) == CASE k \in Kept -> {"stored", "sent"}
              [] k \in {"passing", "channel"} -> {"sent"}
              [] OTHER -> {}

\* A caller that was answered 200 has what it asked for, but for an eviction
\* from a channel, whose answer says nothing; one that was refused has nothing
\* of it.  Nothing reaches the clients before it is kept: who resumes would
\* miss the event, and a socket cut off before the cutoff is there comes back
\* with its old token; so 503 from /revoke-sessions, which says that the
\* cutoff could not be kept, means that nobody was cut off.  Only a failure
\* or a timeout leaves the caller in doubt.  A server in production never
\* answers that an endpoint is not configured.
AnswersTrue ==
  \A r \in Requests :
    LET k == request[r][1]
        answered(codes) == asked[r] = "answered" /\ answer[r] \in codes
    IN /\ answered({200}) /\ k # "channel" => effect[r] = Whole(k)
       /\ answered(400..499) \/ (answered({503}) /\ k # "sessions") => effect[r] = {}
       /\ answered({503}) => "sent" \notin effect[r]
       /\ asked[r] \in {"skipped", "failed"} /\ proc # "killed" => effect[r] = {}
       /\ k \in Kept /\ "sent" \in effect[r] => "stored" \in effect[r]
       /\ env.prod /\ (k = "channel" \/ (k = "sessions" /\ ~env.redis)) => answer[r] # 503

\* A server that exits by itself has answered every request it took and cut no
\* client off: it waits for all of them to leave by themselves, so nobody ever
\* hears the notice it sends (index.ts:547 promises them 30 seconds).
OrderlyEnd == dropped = {} /\ cut = {} /\ told = {}
=============================================================================
