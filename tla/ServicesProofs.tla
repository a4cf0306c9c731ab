--------------------------- MODULE ServicesProofs ---------------------------
(***************************************************************************)
(* What MCServices says of the signal server, of typing, of ringing and of *)
(* a call, for any number of requests, tabs, members and peers.            *)
(*                                                                         *)
(* One inductive invariant per part, with one lemma per action.  ServerInv *)
(* ties what a handler has done to how far it is.  TypingInv is about the  *)
(* last word on its way from each tab.  RingInv follows the signals that   *)
(* are not yet handled: whoever has not heard of a ring has its invite     *)
(* coming, and behind every invite of a ring that is over comes its        *)
(* cancel.  RoomInv says what the run of the effect that is on the screen  *)
(* holds, by where it is, and that a stale run holds nothing.              *)
(***************************************************************************)
EXTENDS MCServices, FiniteSets, Sequences, SequenceTheorems, TLAPS

\* The variables of the parts under their names there.
env == x1
proc == x2
shutdown == x3
sockets == x4
asked == x5
request == x6
step == x7
answer == x8
effect == x9
noticed == x10
cut == x11
dropped == x12

life == x1
typing == x2
idle == x3
timer == x4
sent == x5
entry == x6
told == x7
down == x8
shown == x9
expiry == x10
masked == x11
leftover == x12
missed == x13
stuck == x14

group == x1
open == x2
run == x3
pc == x4
video == x5
joined == x6
mic == x7
cam == x8
micRef == x9
camRef == x10
eqRef == x11
silenced == x12
leaving == x13
status == x14
muted == x15
here == x16
tiles == x17
tracks == x18
spatial == x19
graph == x20
early == x21
partly == x22
carried == x23
renewed == x24
overtaken == x25

there == x1
toast == x2
toastTimer == x3
ringing == x4
ringTimer == x5
declined == x6
active == x7
inbox == x8
invites == x9
faults == x10
unheard == x11
silent == x12
parted == x13
stranded == x14

USE DEF env, proc, shutdown, sockets, asked, request, step, answer, effect,
    noticed, cut, dropped,
    life, typing, idle, timer, sent, entry, told, down, shown, expiry, masked,
    leftover, missed, stuck,
    group, open, run, pc, video, joined, mic, cam, micRef, camRef, eqRef, silenced,
    leaving, status, muted, here, tiles, tracks, spatial, graph, early, partly, carried,
    renewed, overtaken,
    there, toast, toastTimer, ringing, ringTimer, declined, active, inbox,
    invites, faults, unheard, silent, parted, stranded

-----------------------------------------------------------------------------
(* The signal server.                                                      *)

ServerTypes ==
  /\ env \in Z!Environments
  /\ proc \in {"off", "refused", "up", "closing", "exited", "killed"}
  /\ shutdown \in [Z!Signals -> {"no", "closing", "draining", "quitting"}]
  /\ sockets \subseteq Clients
  /\ asked \in [Requests -> {"no", "skipped", "waiting", "failed", "gaveup", "answered"}]
  /\ request \in [Requests -> (Endpoints \cup {""}) \X (Bodies \cup {""})]
  /\ step \in [Requests -> {"none", "arrived", "reading", "working", "sending", "done"}]
  /\ answer = [r \in Requests |-> answer[r]]
  /\ effect \in [Requests -> SUBSET {"stored", "sent"}]

\* What the answer c to a request of kind k goes with: what was done is e.
Fits(k, c, e) ==
  /\ c = 200 /\ k # "channel" => e = Z!Whole(k)
  /\ c \notin {200, 500} => e = {} \/ (k = "sessions" /\ c = 503 /\ "sent" \notin e)
  /\ k \in Z!Kept /\ "sent" \in e => "stored" \in e
  /\ env.prod /\ (k = "channel" \/ (k = "sessions" /\ ~env.redis)) => c # 503

\* How far a handler is says what it has done; an answer is given once, with what
\* goes with it.
HandlerInv(r) ==
  LET k == request[r][1] IN
  /\ asked[r] \in {"no", "skipped"} => step[r] = "none"
  /\ asked[r] = "answered" => step[r] = "done"
  /\ asked[r] = "failed" => step[r] = "none" \/ proc = "killed"
  /\ step[r] \in {"none", "arrived", "reading", "working"} => effect[r] = {}
  /\ step[r] # "done" => answer[r] = 0
  /\ step[r] \in {"reading", "working", "sending"} => Z!Refusal(k) = 0
  /\ step[r] = "sending" => k \in Z!Kept /\ effect[r] = {"stored"}
  /\ step[r] = "done" => Fits(k, answer[r], effect[r])
  /\ step[r] # "none" => proc \notin {"off", "refused"}

\* A server that runs is complete; nobody is connected nor waits once it drains.
ProcessInv ==
  /\ proc \notin {"off", "refused"} => Z!Complete
  /\ \A s \in Z!Signals : shutdown[s] # "no" => proc \notin {"off", "refused", "up"}
  /\ \A s \in Z!Signals : shutdown[s] \in {"draining", "quitting"} =>
       sockets = {} /\ \A r \in Requests : asked[r] # "waiting"
  /\ Z!OrderlyEnd

ServerInv ==
  /\ ServerTypes
  /\ \A r \in Requests : HandlerInv(r)
  /\ ProcessInv

LEMMA Untouched ==
  ASSUME NEW r \in Requests, HandlerInv(r), UNCHANGED <<env, proc>>,
         asked'[r] = asked[r], request'[r] = request[r], step'[r] = step[r],
         answer'[r] = answer[r], effect'[r] = effect[r]
  PROVE  HandlerInv(r)'
BY DEF HandlerInv, Fits, Z!Refusal, Z!Whole

\* A caller asks: the server takes the request only while it is up.
LEMMA Asked ==
  ASSUME ServerInv, NEW q \in Requests, NEW k \in Endpoints, NEW b \in Bodies, Z!Ask(q, k, b)
  PROVE  ServerInv'
<1> DEFINE a == asked'[q]
<1>1. /\ asked[q] = "no" /\ a \in {"skipped", "waiting", "failed"}
      /\ asked' = [asked EXCEPT ![q] = a] /\ (a = "waiting" => proc = "up")
      /\ request' = [request EXCEPT ![q] = <<k, b>>]
      /\ step' = [step EXCEPT ![q] = IF a = "waiting" THEN "arrived" ELSE "none"]
      /\ UNCHANGED <<env, proc, shutdown, sockets, answer, effect, noticed, cut, dropped>>
  BY DEF Z!Ask, ServerInv, ServerTypes
<1> HIDE DEF a
<1>2. ServerTypes'
  BY <1>1 DEF ServerInv, ServerTypes
<1>3. /\ asked'[q] = a /\ request'[q] = <<k, b>> /\ answer'[q] = answer[q]
      /\ step'[q] = IF a = "waiting" THEN "arrived" ELSE "none"
      /\ effect'[q] = effect[q]
  BY <1>1 DEF ServerInv, ServerTypes
<1>4. step[q] = "none" /\ answer[q] = 0 /\ effect[q] = {}
  BY <1>1 DEF ServerInv, HandlerInv
<1>5. HandlerInv(q)'
  BY <1>1, <1>3, <1>4 DEF HandlerInv
<1>6. ASSUME NEW r \in Requests, r # q
      PROVE  HandlerInv(r)'
  BY <1>1, <1>6, Untouched DEF ServerInv, ServerTypes
<1>7. ProcessInv'
  <2>1. \A r \in Requests : asked'[r] = "waiting" => asked[r] = "waiting" \/ proc = "up"
    BY <1>1 DEF ServerInv, ServerTypes
  <2> QED
    BY <1>1, <2>1 DEF ServerInv, ProcessInv, Z!Complete, Z!OrderlyEnd
<1> QED
  BY <1>2, <1>5, <1>6, <1>7 DEF ServerInv

\* What a step of a handler, or of its caller, changes is of one request.
Only(q) ==
  /\ \A r \in Requests : r # q =>
       /\ asked'[r] = asked[r] /\ step'[r] = step[r]
       /\ answer'[r] = answer[r] /\ effect'[r] = effect[r]
  /\ asked'[q] = "waiting" => asked[q] = "waiting"
  /\ UNCHANGED <<env, proc, shutdown, sockets, request, noticed, cut, dropped>>

\* What q has done is e; the process is as it was.
Does(q, e) ==
  /\ effect' = [effect EXCEPT ![q] = e]
  /\ UNCHANGED <<env, proc, shutdown, sockets, request, noticed, cut, dropped>>

LEMMA Handled ==
  ASSUME ServerInv, ServerTypes', NEW q \in Requests, Only(q), HandlerInv(q)'
  PROVE  ServerInv'
<1>1. ASSUME NEW r \in Requests, r # q
      PROVE  HandlerInv(r)'
  BY <1>1, Untouched DEF ServerInv, Only
<1>2. ProcessInv'
  <2>1. \A r \in Requests : asked'[r] = "waiting" => asked[r] = "waiting"
    BY DEF Only
  <2> QED
    BY <2>1 DEF Only, ServerInv, ProcessInv, Z!Complete, Z!OrderlyEnd
<1> QED
  BY <1>1, <1>2 DEF ServerInv

\* The handler answers c, having done e.
LEMMA Answered ==
  ASSUME ServerInv, NEW q \in Requests, NEW c, NEW e, e \subseteq {"stored", "sent"},
         Z!Done(q, c), Does(q, e), Z!Running, step[q] \notin {"none", "done"}
  PROVE  /\ ServerTypes' /\ Only(q)
         /\ asked'[q] \in {"gaveup", "answered"} /\ step'[q] = "done"
         /\ answer'[q] = c /\ effect'[q] = e
<1>1. ServerTypes /\ HandlerInv(q)
  BY DEF ServerInv
<1>2. /\ asked' = [asked EXCEPT ![q] = IF asked[q] = "waiting" THEN "answered" ELSE asked[q]]
      /\ step' = [step EXCEPT ![q] = "done"] /\ answer' = [answer EXCEPT ![q] = c]
  BY DEF Z!Done
<1>3. (IF asked[q] = "waiting" THEN "answered" ELSE asked[q]) \in {"gaveup", "answered"}
  <2>1. proc # "killed"
    BY DEF Z!Running
  <2>2. asked[q] \in {"no", "skipped", "waiting", "failed", "gaveup", "answered"}
    BY <1>1 DEF ServerTypes
  <2>3. asked[q] \notin {"no", "skipped", "answered", "failed"}
    BY <1>1, <2>1 DEF HandlerInv
  <2> QED
    BY <2>2, <2>3
<1>4. PICK o \in {"gaveup", "answered"} : asked' = [asked EXCEPT ![q] = o]
  BY <1>2, <1>3
<1>5. ServerTypes'
  BY <1>1, <1>2, <1>4 DEF ServerTypes, Does
<1>6. asked'[q] = o /\ step'[q] = "done" /\ answer'[q] = c /\ effect'[q] = e
  BY <1>1, <1>2, <1>4 DEF ServerTypes, Does
<1>7. Only(q)
  BY <1>1, <1>2, <1>4, <1>6 DEF ServerTypes, Only, Does
<1> QED
  BY <1>4, <1>5, <1>6, <1>7

\* The answer goes with what was done.
LEMMA Answers ==
  ASSUME ServerInv, NEW q \in Requests, NEW c, NEW e, e \subseteq {"stored", "sent"},
         Z!Done(q, c), Does(q, e), Z!Running, step[q] \notin {"none", "done"},
         Fits(request[q][1], c, e)
  PROVE  ServerInv'
<1>1. /\ ServerTypes' /\ Only(q)
      /\ asked'[q] \in {"gaveup", "answered"} /\ step'[q] = "done"
      /\ answer'[q] = c /\ effect'[q] = e
  BY Answered
<1>2. request' = request /\ env' = env /\ proc' = proc
  BY DEF Does
<1>3. Fits(request[q][1], answer[q], effect[q])'
  BY <1>1, <1>2 DEF Fits
<1>4. HandlerInv(q)'
  BY <1>1, <1>2, <1>3 DEF HandlerInv, Z!Running
<1> QED
  BY <1>1, <1>4, Handled

LEMMA HandlerStep ==
  ASSUME ServerInv, NEW q \in Requests,
         \/ Z!GiveUp(q) \/ Z!Check(q) \/ Z!Read(q) \/ Z!ReadAborted(q)
         \/ Z!Store(q) \/ Z!Send(q) \/ Z!Fail(q)
  PROVE  ServerInv'
<1> DEFINE k == request[q][1]
           same == UNCHANGED <<env, proc, shutdown, sockets, request, noticed, cut, dropped>>
<1>0. ServerTypes /\ HandlerInv(q)
  BY DEF ServerInv
<1>1. CASE Z!GiveUp(q)
  <2>1. /\ asked[q] = "waiting" /\ asked' = [asked EXCEPT ![q] = "gaveup"]
        /\ UNCHANGED <<step, answer, effect>> /\ same
    BY <1>1 DEF Z!GiveUp
  <2>2. ServerTypes'
    BY <1>0, <2>1 DEF ServerTypes
  <2>3. Only(q) /\ asked'[q] = "gaveup"
    BY <1>0, <2>1 DEF ServerTypes, Only
  <2>4. HandlerInv(q)'
    BY <1>0, <2>1, <2>3 DEF HandlerInv, Fits, Z!Refusal, Z!Whole
  <2> QED
    BY <2>2, <2>3, <2>4, Handled
\* The handler goes on.
<1>2. ASSUME NEW t \in {"reading", "working", "sending"},
             NEW e \in SUBSET {"stored", "sent"}, Z!Going(q, t),
             Does(q, e), Z!Running, step[q] \in {"arrived", "reading", "working"}, Z!Refusal(k) = 0,
             IF t = "sending" THEN k \in Z!Kept /\ e = {"stored"} ELSE e = {}
      PROVE  ServerInv'
  <2>1. ServerTypes'
    BY <1>0, <1>2 DEF Z!Going, Does, ServerTypes
  <2>2. Only(q)
    BY <1>0, <1>2 DEF Z!Going, Does, ServerTypes, Only
  <2>3. asked'[q] = asked[q] /\ step'[q] = t /\ answer'[q] = answer[q] /\ effect'[q] = e
    BY <1>0, <1>2 DEF Z!Going, Does, ServerTypes
  <2>4. HandlerInv(q)'
    BY <1>0, <1>2, <2>3 DEF Does, HandlerInv, Z!Running, Z!Refusal
  <2> QED
    BY <2>1, <2>2, <2>4, Handled
<1>4. effect' = effect /\ same => Does(q, effect[q])
  BY <1>0 DEF ServerTypes, Does
<1>5. effect[q] \in SUBSET {"stored", "sent"}
  BY <1>0 DEF ServerTypes
<1>6. CASE Z!Check(q)
  <2>1. /\ Z!Running /\ step[q] = "arrived" /\ Does(q, effect[q])
        /\ effect[q] = {}
    BY <1>0, <1>4, <1>6 DEF Z!Check, HandlerInv
  <2>2. CASE Z!Refusal(k) = 0 /\ Z!Going(q, "reading")
    BY <1>2, <1>5, <2>1, <2>2
  <2>3. CASE Z!Refusal(k) # 0 /\ Z!Done(q, Z!Refusal(k))
    <3>1. /\ \/ Z!Refusal(k) = 200 \/ Z!Refusal(k) = 404
             \/ Z!Refusal(k) = 503 \/ Z!Refusal(k) = 401
          /\ Z!Refusal(k) = 200 => k = "health"
      BY <2>3 DEF Z!Refusal
    <3>2. env.prod /\ k \in {"channel", "sessions"} => Z!Refusal(k) # 503
      BY <1>0, <2>1 DEF Z!Refusal, Z!Running, ServerInv, ProcessInv, Z!Complete
    <3>3. Z!Refusal(k) = 200 => effect[q] = Z!Whole(k)
      BY <2>1, <3>1 DEF Z!Whole, Z!Kept
    <3>4. Fits(k, Z!Refusal(k), effect[q])
      BY <2>1, <3>1, <3>2, <3>3 DEF Fits
    <3> QED
      BY Answers, <1>5, <2>1, <2>3, <3>4
  <2> QED
    BY <1>6, <2>2, <2>3 DEF Z!Check
<1>7. CASE Z!Read(q)
  <2>1. /\ step[q] = "reading" /\ Does(q, effect[q])
        /\ Z!Running /\ effect[q] = {} /\ Z!Refusal(k) = 0
    BY <1>0, <1>4, <1>7 DEF Z!Read, HandlerInv
  <2>2. CASE Z!Going(q, "working")
    BY <1>2, <1>5, <2>1, <2>2
  <2>3. ASSUME NEW c, c # 200, c # 503, Z!Done(q, c)
        PROVE  ServerInv'
    <3>1. Fits(k, c, effect[q])
      BY <2>1, <2>3 DEF Fits
    <3> QED
      BY Answers, <1>5, <2>1, <2>3, <3>1
  <2> QED
    BY <1>7, <2>2, <2>3 DEF Z!Read
<1>8. CASE Z!ReadAborted(q)
  <2>1. /\ step[q] = "reading" /\ Does(q, effect[q])
        /\ Z!Done(q, 500) /\ Z!Running /\ effect[q] = {}
    BY <1>0, <1>4, <1>8 DEF Z!ReadAborted, HandlerInv
  <2>2. Fits(k, 500, effect[q])
    BY <2>1 DEF Fits
  <2> QED
    BY Answers, <1>5, <2>1, <2>2
<1>9. CASE Z!Store(q)
  <2>1. /\ step[q] = "working" /\ k \in Z!Kept /\ Z!Going(q, "sending")
        /\ Does(q, {"stored"})
        /\ Z!Running /\ Z!Refusal(k) = 0
    <3>1. /\ step[q] = "working" /\ k \in Z!Kept /\ Z!Going(q, "sending") /\ Z!Running
          /\ Does(q, effect[q] \cup {"stored"})
      BY <1>9 DEF Does, Z!Store
    <3>2. effect[q] \cup {"stored"} = {"stored"} /\ Z!Refusal(k) = 0
      BY <1>0, <3>1 DEF HandlerInv
    <3> QED
      BY <3>1, <3>2
  <2> QED
    BY <1>2, <2>1
<1>10. CASE Z!Send(q)
  <2> DEFINE e == effect[q] \cup {"sent"}
  <2>1. /\ Z!Done(q, 200) /\ Does(q, e) /\ Z!Running
        /\ step[q] = "sending" \/ (step[q] = "working" /\ k \in {"passing", "channel"})
    BY <1>10 DEF Does, Z!Send
  <2>2. IF k \in Z!Kept THEN e = {"stored", "sent"} ELSE e = {"sent"}
    BY <1>0, <2>1 DEF HandlerInv, Z!Kept
  <2>3. k \notin Z!Kept => k \in {"passing", "channel"}
    BY <1>0, <2>1 DEF HandlerInv
  <2>5. Fits(k, 200, e)
    BY <2>2, <2>3 DEF Fits, Z!Whole, Z!Kept
  <2> QED
    BY Answers, <1>5, <2>1, <2>5
<1>12. CASE Z!Fail(q)
  <2>1. /\ Z!Running /\ env.redis /\ step[q] \in {"working", "sending"}
        /\ Z!Done(q, CASE k = "sessions" /\ step[q] = "working" -> 503
                       [] k = "channel" -> 200
                       [] OTHER -> 500)
    BY <1>12 DEF Z!Fail
  <2>2. PICK d \in SUBSET {IF step[q] = "working" /\ k \in Z!Kept THEN "stored" ELSE "sent"} :
          Does(q, effect[q] \cup d)
    BY <1>12 DEF Z!Fail, Does
  <2> DEFINE e == effect[q] \cup d
  <2>3. PICK c \in {200, 500, 503} :
          /\ Z!Done(q, c)
          /\ c = 200 => k = "channel"
          /\ c = 503 => k = "sessions" /\ step[q] = "working"
    BY <2>1
  <2>4. /\ e \in SUBSET {"stored", "sent"}
        /\ k \in Z!Kept => (step[q] = "working" /\ "sent" \notin e) \/ "stored" \in e
        /\ k = "sessions" /\ step[q] = "working" => "sent" \notin e
    <3>1. effect[q] \subseteq {"stored"}
      BY <1>0, <2>1 DEF HandlerInv
    <3>2. step[q] = "sending" => "stored" \in effect[q]
      BY <1>0 DEF HandlerInv
    <3> QED
      BY <2>1, <3>1, <3>2 DEF Z!Kept
  <2>5. Fits(k, c, e)
    BY <2>1, <2>3, <2>4 DEF Fits
  <2> HIDE DEF e
  <2> QED
    BY Answers, <2>1, <2>2, <2>3, <2>4, <2>5 DEF e
<1> QED
  BY <1>1, <1>6, <1>7, <1>8, <1>9, <1>10, <1>12

\* What happens to the process concerns no handler, but that the callers fail.
LEMMA ProcessStep ==
  ASSUME ServerInv,
         \/ Z!Launch \/ Z!Kill \/ UNCHANGED Z!serverVars
         \/ \E u \in Clients : Z!Connect(u) \/ Z!Leave(u)
         \/ \E s \in Z!Signals : Z!Signal(s) \/ Z!Closed(s) \/ Z!Drained(s) \/ Z!Exit(s)
  PROVE  ServerInv'
<1>0. ServerTypes /\ ProcessInv /\ \A r \in Requests : HandlerInv(r)
  BY DEF ServerInv
<1>1. CASE Z!Launch
  <2>1. ServerTypes'
    BY <1>0, <1>1 DEF Z!Launch, ServerTypes
  <2>2. ASSUME NEW r \in Requests PROVE HandlerInv(r)'
    BY <1>0, <1>1 DEF Z!Launch, HandlerInv, Fits, Z!Refusal, Z!Whole
  <2>3. ProcessInv'
    <3>1. /\ env' = env /\ proc' \in {"up", "refused"}
          /\ proc' = "up" => Z!Complete
      BY <1>1 DEF Z!Launch
    <3>3. proc' = "up" => Z!Complete'
      BY <3>1 DEF Z!Complete
    <3>2. \A s \in Z!Signals : shutdown[s] = "no"
      BY <1>0, <1>1 DEF Z!Launch, ProcessInv
    <3> QED
      BY <1>0, <1>1, <3>1, <3>2, <3>3 DEF Z!Launch, ProcessInv, Z!OrderlyEnd
  <2> QED BY <2>1, <2>2, <2>3 DEF ServerInv
<1>2. CASE Z!Kill
  <2>1. ServerTypes'
    BY <1>0, <1>2 DEF Z!Kill, Z!Ended, ServerTypes
  <2>2. ASSUME NEW r \in Requests PROVE HandlerInv(r)'
    <3>1. /\ asked'[r] = asked[r] \/ asked'[r] = "failed"
          /\ proc' = "killed" /\ proc \in {"up", "closing"}
          /\ UNCHANGED <<env, request, step, answer, effect>>
      BY <1>0, <1>2 DEF Z!Kill, Z!Ended, Z!Running, ServerTypes
    <3> QED
      BY <1>0, <3>1 DEF HandlerInv, Fits, Z!Refusal, Z!Whole
  <2>3. ProcessInv'
    BY <1>0, <1>2 DEF Z!Kill, Z!Ended, Z!Running, ProcessInv, Z!Complete, Z!OrderlyEnd
  <2> QED BY <2>1, <2>2, <2>3 DEF ServerInv
<1>3. CASE UNCHANGED Z!serverVars
  <2>1. ServerTypes'
    BY <1>0, <1>3 DEF Z!serverVars, ServerTypes
  <2>2. ASSUME NEW r \in Requests PROVE HandlerInv(r)'
    BY <1>0, <1>3, Untouched DEF Z!serverVars
  <2>3. ProcessInv'
    BY <1>0, <1>3 DEF Z!serverVars, ProcessInv, Z!Complete, Z!OrderlyEnd
  <2> QED BY <2>1, <2>2, <2>3 DEF ServerInv
<1>4. ASSUME NEW u \in Clients, Z!Connect(u) \/ Z!Leave(u)
      PROVE  ServerInv'
  <2>1. ServerTypes'
    <3>1. sockets' \subseteq Clients
      <4>1. sockets \subseteq Clients
        BY <1>0 DEF ServerTypes
      <4>2. sockets' = sockets \cup {u} \/ sockets' = sockets \ {u}
        BY <1>4 DEF Z!Connect, Z!Leave
      <4> QED
        BY <4>1, <4>2
    <3>2. UNCHANGED <<env, proc, shutdown, asked, request, step, answer, effect>>
      BY <1>4 DEF Z!Connect, Z!Leave
    <3> QED
      BY <1>0, <3>1, <3>2 DEF ServerTypes
  <2>2. ASSUME NEW r \in Requests PROVE HandlerInv(r)'
    BY <1>0, <1>4 DEF Z!Connect, Z!Leave, HandlerInv, Fits, Z!Refusal, Z!Whole
  <2>3. ProcessInv'
    BY <1>0, <1>4 DEF Z!Connect, Z!Leave, ProcessInv, Z!Complete, Z!OrderlyEnd
  <2> QED BY <2>1, <2>2, <2>3 DEF ServerInv
<1>5. ASSUME NEW s \in Z!Signals, Z!Signal(s) \/ Z!Closed(s) \/ Z!Drained(s)
      PROVE  ServerInv'
  <2>1. ServerTypes'
    BY <1>0, <1>5 DEF Z!Signal, Z!Closed, Z!Drained, ServerTypes
  <2>2. ASSUME NEW r \in Requests PROVE HandlerInv(r)'
    BY <1>0, <1>5 DEF Z!Signal, Z!Closed, Z!Drained, Z!Running, HandlerInv, Fits, Z!Refusal, Z!Whole
  <2>3. ProcessInv'
    <3>1. CASE Z!Signal(s)
      BY <1>0, <3>1 DEF Z!Signal, Z!Running, ServerTypes, ProcessInv, Z!Complete, Z!OrderlyEnd
    <3>2. CASE Z!Closed(s)
      BY <1>0, <3>2 DEF Z!Closed, Z!Waiting, ServerTypes, ProcessInv, Z!Complete, Z!OrderlyEnd
    <3>3. CASE Z!Drained(s)
      BY <1>0, <3>3 DEF Z!Drained, ServerTypes, ProcessInv, Z!Complete, Z!OrderlyEnd
    <3> QED BY <1>5, <3>1, <3>2, <3>3
  <2> QED BY <2>1, <2>2, <2>3 DEF ServerInv
<1>6. ASSUME NEW s \in Z!Signals, Z!Exit(s)
      PROVE  ServerInv'
  <2>0. sockets = {} /\ Z!Waiting = {} /\ asked' = asked
    <3>1. sockets = {} /\ \A r \in Requests : asked[r] # "waiting"
      BY <1>0, <1>6 DEF Z!Exit, ProcessInv
    <3>2. asked' = [r \in Requests |-> asked[r]]
      BY <1>6, <3>1 DEF Z!Exit, Z!Ended
    <3>3. asked' = asked
      BY <1>0, <3>2 DEF ServerTypes
    <3>4. Z!Waiting = {}
      BY <3>1 DEF Z!Waiting
    <3> QED
      BY <3>1, <3>3, <3>4
  <2>1. ServerTypes'
    BY <1>0, <1>6, <2>0 DEF Z!Exit, Z!Ended, ServerTypes
  <2>2. ASSUME NEW r \in Requests PROVE HandlerInv(r)'
    BY <1>0, <1>6, <2>0 DEF Z!Exit, Z!Ended, HandlerInv, Fits, Z!Refusal, Z!Whole
  <2>3. ProcessInv'
    BY <1>0, <1>6, <2>0 DEF Z!Exit, Z!Ended, ServerTypes, ProcessInv, Z!Complete, Z!OrderlyEnd
  <2> QED BY <2>1, <2>2, <2>3 DEF ServerInv
<1> QED
  BY <1>1, <1>2, <1>3, <1>4, <1>5, <1>6

LEMMA ServerInit ==
  ASSUME Z!Init
  PROVE  ServerInv
<1>1. ServerTypes
  BY DEF Z!Init, ServerTypes, Z!Signals
<1>2. \A r \in Requests : HandlerInv(r)
  BY DEF Z!Init, HandlerInv
<1>3. ProcessInv
  BY DEF Z!Init, ProcessInv, Z!OrderlyEnd
<1> QED BY <1>1, <1>2, <1>3 DEF ServerInv

LEMMA ServerStep ==
  ASSUME ServerInv, [Z!Next]_(Z!serverVars)
  PROVE  ServerInv'
BY Asked, HandlerStep, ProcessStep DEF Z!Next

LEMMA ServerReached == ServerInv => Z!AnswersTrue /\ Z!OrderlyEnd
<1> SUFFICES ASSUME ServerInv
             PROVE  Z!AnswersTrue /\ Z!OrderlyEnd
  OBVIOUS
<1>1. Z!OrderlyEnd
  BY DEF ServerInv, ProcessInv
<1>2. Z!AnswersTrue
  <2> SUFFICES ASSUME NEW r \in Requests
               PROVE  LET k == request[r][1]
                          answered(codes) == asked[r] = "answered" /\ answer[r] \in codes
                      IN /\ answered({200}) /\ k # "channel" => effect[r] = Z!Whole(k)
                         /\ answered(400..499) \/ (answered({503}) /\ k # "sessions") =>
                              effect[r] = {}
                         /\ answered({503}) => "sent" \notin effect[r]
                         /\ asked[r] \in {"skipped", "failed"} /\ proc # "killed" =>
                              effect[r] = {}
                         /\ k \in Z!Kept /\ "sent" \in effect[r] => "stored" \in effect[r]
                         /\ env.prod /\ (k = "channel" \/ (k = "sessions" /\ ~env.redis)) =>
                              answer[r] # 503
    BY DEF Z!AnswersTrue
  <2>1. HandlerInv(r) /\ step[r] \in {"none", "arrived", "reading", "working", "sending", "done"}
    BY DEF ServerInv, ServerTypes
  <2> QED
    BY <2>1 DEF HandlerInv, Fits
<1> QED BY <1>1, <1>2

-----------------------------------------------------------------------------
(* The typing indicator.                                                   *)

\* RemoveAt of the community modules.
Without(q, i) == SubSeq(q, 1, i - 1) \o SubSeq(q, i + 1, Len(q))

LEMMA Removed ==
  ASSUME NEW S, NEW q \in Seq(S), NEW i \in 1..Len(q)
  PROVE  /\ Without(q, i) \in Seq(S) /\ Len(Without(q, i)) = Len(q) - 1
         /\ \A j \in 1..(Len(q) - 1) :
              Without(q, i)[j] = IF j < i THEN q[j] ELSE q[j + 1]
<1>1. Len(q) \in Nat /\ i \in 1..Len(q) /\ q \in Seq(S)
  BY LenProperties
<1>2. /\ SubSeq(q, 1, i - 1) \in Seq(S) /\ Len(SubSeq(q, 1, i - 1)) = i - 1
      /\ \A j \in 1..(i - 1) : SubSeq(q, 1, i - 1)[j] = q[j]
  BY <1>1, SubSeqProperties
<1>3. /\ SubSeq(q, i + 1, Len(q)) \in Seq(S)
      /\ Len(SubSeq(q, i + 1, Len(q))) = Len(q) - i
      /\ \A j \in 1..(Len(q) - i) : SubSeq(q, i + 1, Len(q))[j] = q[i + j]
  BY <1>1, SubSeqProperties
<1> DEFINE a == SubSeq(q, 1, i - 1)
           b == SubSeq(q, i + 1, Len(q))
<1> HIDE DEF a, b
<1>4. /\ a \in Seq(S) /\ Len(a) = i - 1 /\ \A j \in 1..(i - 1) : a[j] = q[j]
      /\ b \in Seq(S) /\ Len(b) = Len(q) - i /\ \A j \in 1..(Len(q) - i) : b[j] = q[i + j]
      /\ Without(q, i) = a \o b
  BY <1>2, <1>3 DEF a, b, Without
<1>5. /\ a \o b \in Seq(S) /\ Len(a \o b) = Len(a) + Len(b)
      /\ \A j \in 1..(Len(a) + Len(b)) :
           (a \o b)[j] = IF j <= Len(a) THEN a[j] ELSE b[j - Len(a)]
  <2>1. a \in Seq(S) /\ b \in Seq(S)
    BY <1>4
  <2> QED
    BY <2>1, ConcatProperties
<1>6. PICK n \in Nat : n = Len(q) /\ i \in 1..n
  BY <1>1
<1> DEFINE c == a \o b
<1> HIDE DEF c
<1>7. /\ c \in Seq(S) /\ Len(c) = Len(a) + Len(b) /\ Without(q, i) = c
      /\ \A j \in 1..(Len(a) + Len(b)) :
           c[j] = IF j <= Len(a) THEN a[j] ELSE b[j - Len(a)]
  BY <1>4, <1>5 DEF c
<1>8. Len(a) = i - 1 /\ Len(b) = n - i /\ Len(a) + Len(b) = n - 1
  BY <1>4, <1>6
<1>9. /\ Without(q, i) \in Seq(S) /\ Len(Without(q, i)) = n - 1
      /\ \A j \in 1..(n - 1) : Without(q, i)[j] = IF j <= i - 1 THEN a[j] ELSE b[j - (i - 1)]
  BY <1>7, <1>8
<1>10. ASSUME NEW j \in 1..(n - 1)
      PROVE  Without(q, i)[j] = IF j < i THEN q[j] ELSE q[j + 1]
  <2>1. CASE j < i
    <3>1. j \in 1..(i - 1) /\ j <= i - 1
      BY <1>6, <2>1
    <3> QED
      BY <1>4, <1>9, <2>1, <3>1
  <2>2. CASE ~(j < i)
    <3>1. j - (i - 1) \in 1..(n - i) /\ i + (j - (i - 1)) = j + 1 /\ ~(j <= i - 1)
      BY <1>6, <2>2
    <3> QED
      BY <1>4, <1>6, <1>9, <2>2, <3>1
  <2> QED BY <2>1, <2>2
<1> QED
  BY <1>6, <1>9, <1>10

TypingTypes ==
  /\ life \in [Tabs -> {"new", "open", "cut", "gone"}]
  /\ timer \in [Tabs -> {"none", "fresh", "old"}]
  /\ sent \in [Tabs -> Seq(BOOLEAN)]
  /\ down \in Seq(BOOLEAN)
  /\ entry \in BOOLEAN /\ told \in BOOLEAN /\ shown \in BOOLEAN
  /\ expiry \in BOOLEAN /\ missed \in BOOLEAN /\ stuck \in BOOLEAN
  /\ leftover \in BOOLEAN

Final(q) == q[Len(q)]

\* What a socket has said last, on the way or taken, is what its user does.
TabInv(s) ==
  /\ timer[s] # "none" => life[s] = "open"
  /\ timer[s] # "none" /\ s \notin masked =>
       IF sent[s] = << >> THEN entry ELSE Final(sent[s])
  /\ timer[s] = "none" /\ life[s] # "cut" /\ ~leftover =>
       sent[s] = << >> \/ ~Final(sent[s])

\* The socket will end the typing.
Ending(s) ==
  \/ timer[s] # "none" \/ life[s] = "cut"
  \/ sent[s] # << >> /\ ~Final(sent[s])

WatchInv ==
  /\ entry = told
  /\ down # << >> => Final(down) = told
  /\ down = << >> /\ ~missed => shown = told
  /\ shown => expiry \/ stuck

TypingInv ==
  /\ TypingTypes
  /\ \A s \in Tabs : TabInv(s)
  /\ entry /\ ~leftover => \E s \in Tabs : Ending(s)
  /\ WatchInv

\* A step of one socket, which the room does not hear of.
Apart(s) ==
  /\ \A q \in Tabs : q # s =>
       /\ life'[q] = life[q] /\ timer'[q] = timer[q] /\ sent'[q] = sent[q]
       /\ q \in masked' <=> q \in masked
  /\ leftover => leftover'
  /\ UNCHANGED <<entry, told, down, shown, expiry, missed, stuck>>

LEMMA TabMoves ==
  ASSUME TypingInv, TypingTypes', NEW s \in Tabs, Apart(s), TabInv(s)',
         leftover' \/ ~Ending(s) \/ Ending(s)'
  PROVE  TypingInv'
<1>1. ASSUME NEW q \in Tabs, q # s
      PROVE  TabInv(q)' /\ (Ending(q) => Ending(q)')
  BY <1>1 DEF TypingInv, Apart, TabInv, Ending
<1>2. \A q \in Tabs : TabInv(q)'
  BY <1>1
<1>3. entry' /\ ~leftover' => \E q \in Tabs : Ending(q)'
  BY <1>1 DEF TypingInv, Apart
<1>4. WatchInv'
  BY DEF TypingInv, WatchInv, Apart
<1> QED
  BY <1>2, <1>3, <1>4 DEF TypingInv

LEMMA FinalAppended ==
  ASSUME NEW q \in Seq(BOOLEAN), NEW b \in BOOLEAN
  PROVE  /\ Append(q, b) \in Seq(BOOLEAN) /\ Append(q, b) # << >>
         /\ Final(Append(q, b)) = b
BY AppendProperties, EmptySeq DEF Final

Sets(s, t) == timer' = [timer EXCEPT ![s] = t]

\* A message of socket s, sent or dropped.
LEMMA Emitted ==
  ASSUME TypingInv, NEW s \in Tabs, NEW b \in BOOLEAN, T!Emit(s, b),
         NEW t \in {"none", "fresh"}, t = "fresh" <=> b, Sets(s, t),
         b => life[s] = "open",
         UNCHANGED <<life, entry, told, down, shown, expiry, missed, stuck>>
  PROVE  TypingInv'
<1>1. TypingTypes /\ TabInv(s)
  BY DEF TypingInv
<1>2. CASE /\ sent' = [sent EXCEPT ![s] = Append(sent[s], b)]
           /\ masked' = IF b THEN masked \ {s} ELSE masked
           /\ UNCHANGED leftover
  <2>1. /\ Append(sent[s], b) \in Seq(BOOLEAN) /\ Append(sent[s], b) # << >>
        /\ Final(Append(sent[s], b)) = b
    BY <1>1, FinalAppended DEF TypingTypes
  <2>2. /\ TypingTypes' /\ timer'[s] = t /\ sent'[s] = Append(sent[s], b)
        /\ Apart(s)
    BY <1>1, <1>2, <2>1 DEF TypingTypes, Apart, Sets
  <2>3. TabInv(s)' /\ Ending(s)'
    BY <1>1, <1>2, <2>1, <2>2 DEF TabInv, Ending
  <2> QED
    BY <2>2, <2>3, TabMoves
<1>3. CASE /\ masked' = IF b THEN masked \cup {s} ELSE masked
           /\ leftover' = (leftover \/ ~b)
           /\ UNCHANGED sent
  <2>1. TypingTypes' /\ timer'[s] = t /\ Apart(s)
    BY <1>1, <1>3 DEF TypingTypes, Apart, Sets
  <2>2. TabInv(s)' /\ (leftover' \/ Ending(s)')
    BY <1>1, <1>3, <2>1 DEF TabInv, Ending
  <2> QED
    BY <2>1, <2>2, TabMoves
<1> QED
  BY <1>2, <1>3 DEF T!Emit

\* What the tab does: the hook's and useGateway's timers, the connection.
LEMMA PageStep ==
  ASSUME TypingInv, NEW s \in Tabs,
         \/ T!Connect(s) \/ T!Disconnect(s) \/ T!HookRestarts(s) \/ T!Keystroke(s)
         \/ T!IdleOut(s) \/ T!MessageSent(s) \/ T!SuppressOut(s) \/ T!TimerOut(s)
  PROVE  TypingInv'
<1>1. TypingTypes /\ TabInv(s)
  BY DEF TypingInv
<1> DEFINE same == UNCHANGED <<entry, told, down, shown, expiry, missed, stuck>>
<1>2. ASSUME T!SendFalse(s), UNCHANGED life, same
      PROVE  TypingInv'
  <2>1. Sets(s, "none") /\ T!Emit(s, FALSE)
    BY <1>2 DEF Sets, T!SendFalse
  <2> QED
    BY <1>2, <2>1, Emitted
\* Nothing is sent.
<1>3. ASSUME UNCHANGED <<sent, masked, leftover>>, same,
             NEW f \in {"new", "open", "cut", "gone"}, life' = [life EXCEPT ![s] = f],
             NEW t \in {"none", "fresh", "old"}, timer' = [timer EXCEPT ![s] = t],
             t # "none" => f = "open" /\ timer[s] # "none",
             t = "none" /\ f # "cut" => timer[s] = "none" /\ life[s] # "cut"
      PROVE  TypingInv'
  <2>1. TypingTypes' /\ life'[s] = f /\ timer'[s] = t
    BY <1>1, <1>3 DEF TypingTypes
  <2>2. Apart(s)
    BY <1>1, <1>3 DEF Apart, TypingTypes
  <2>3. TabInv(s)' /\ (Ending(s) => Ending(s)')
    BY <1>1, <1>3, <2>1 DEF TabInv, Ending
  <2> QED
    BY <2>1, <2>2, <2>3, TabMoves
<1>4. /\ life' = life => life' = [life EXCEPT ![s] = life[s]]
      /\ timer' = timer => timer' = [timer EXCEPT ![s] = timer[s]]
      /\ life[s] \in {"new", "open", "cut", "gone"} /\ timer[s] \in {"none", "fresh", "old"}
  BY <1>1 DEF TypingTypes
<1>5. CASE T!Connect(s)
  <2>1. /\ life' = [life EXCEPT ![s] = "open"] /\ life[s] = "new" /\ timer[s] = "none"
        /\ UNCHANGED <<timer, sent, masked, leftover>> /\ same
    BY <1>1, <1>5 DEF T!Connect, T!serverVars, T!watchVars, TabInv, TypingTypes
  <2> QED
    BY <1>3, <1>4, <2>1
<1>6. CASE T!Disconnect(s)
  <2>1. /\ life' = [life EXCEPT ![s] = "cut"] /\ timer' = [timer EXCEPT ![s] = "none"]
        /\ UNCHANGED <<sent, masked, leftover>> /\ same
    BY <1>6 DEF T!Disconnect, T!serverVars, T!watchVars
  <2> QED
    BY <1>3, <2>1
<1>7. CASE T!HookRestarts(s)
  <2>1. UNCHANGED <<life, timer, sent, masked, leftover>> /\ same
    BY <1>7 DEF T!HookRestarts, T!serverVars, T!watchVars
  <2> QED
    BY <1>1, <1>3, <1>4, <2>1 DEF TabInv
<1>8. CASE T!Keystroke(s)
  <2>1. UNCHANGED life /\ same /\ life[s] = "open"
    BY <1>8 DEF T!Keystroke, T!serverVars, T!watchVars
  <2>2. CASE UNCHANGED <<timer, sent, masked, leftover>>
    BY <1>1, <1>3, <1>4, <2>1, <2>2 DEF TabInv
  <2>3. CASE timer' = [timer EXCEPT ![s] = "fresh"] /\ T!Emit(s, TRUE)
    BY <2>1, <2>3, Emitted DEF Sets
  <2> QED
    BY <1>8, <2>2, <2>3 DEF T!Keystroke, T!SendTrue
<1>9. CASE T!IdleOut(s) \/ T!MessageSent(s)
  BY <1>2, <1>9 DEF T!IdleOut, T!MessageSent, T!StopTyping, T!serverVars, T!watchVars
<1>10. CASE T!SuppressOut(s)
  <2>1. /\ timer[s] = "fresh" /\ timer' = [timer EXCEPT ![s] = "old"] /\ life[s] = "open"
        /\ UNCHANGED <<life, sent, masked, leftover>> /\ same
    BY <1>1, <1>10 DEF T!SuppressOut, T!serverVars, T!watchVars, TabInv
  <2> QED
    BY <1>3, <1>4, <2>1
<1>11. CASE T!TimerOut(s)
  BY <1>2, <1>11 DEF T!TimerOut, T!serverVars, T!watchVars
<1> QED
  BY <1>5, <1>6, <1>7, <1>8, <1>9, <1>10, <1>11

\* The room is told, and the entry is what it is told.
Tells(b) == entry' = b /\ T!Broadcast(b) /\ UNCHANGED <<shown, expiry, missed, stuck>>

LEMMA Told ==
  ASSUME TypingTypes, WatchInv, NEW b \in BOOLEAN, Tells(b)
  PROVE  /\ WatchInv' /\ entry' = b /\ down' \in Seq(BOOLEAN) /\ told' \in BOOLEAN
         /\ UNCHANGED <<shown, expiry, missed, stuck>>
<1>1. /\ Append(down, b) \in Seq(BOOLEAN) /\ Append(down, b) # << >>
      /\ Final(Append(down, b)) = b
  BY FinalAppended DEF TypingTypes
<1>2. /\ down' = Append(down, b) /\ told' = b /\ entry' = b
      /\ UNCHANGED <<shown, expiry, missed, stuck>>
  BY DEF Tells, T!Broadcast
<1>3. WatchInv'
  BY <1>1, <1>2 DEF WatchInv
<1> QED
  BY <1>1, <1>2, <1>3

\* What is left of the messages of a socket when the first is taken.
LEMMA FirstTaken ==
  ASSUME NEW q \in Seq(BOOLEAN), NEW i \in DOMAIN q, NEW r, r = T!RemoveAt(q, i)
  PROVE  /\ r \in Seq(BOOLEAN) /\ q[i] \in BOOLEAN /\ q # << >>
         /\ i = 1 /\ r = << >> => Final(q) = q[1]
         /\ i = 1 /\ r # << >> => Final(r) = Final(q)
         /\ \A j \in DOMAIN r : \E k \in DOMAIN q : r[j] = q[k]
<1>1. PICK n \in Nat : n = Len(q) /\ i \in 1..n /\ DOMAIN q = 1..n
  BY LenProperties
<1>2. /\ r \in Seq(BOOLEAN) /\ Len(r) = n - 1
      /\ \A j \in 1..(n - 1) : r[j] = IF j < i THEN q[j] ELSE q[j + 1]
  <2>1. r = Without(q, i) /\ i \in 1..Len(q)
    BY <1>1 DEF T!RemoveAt, Without
  <2>2. /\ r \in Seq(BOOLEAN) /\ Len(r) = Len(q) - 1
        /\ \A j \in 1..(Len(q) - 1) : r[j] = IF j < i THEN q[j] ELSE q[j + 1]
    BY <2>1, Removed
  <2> QED
    BY <1>1, <2>2
<1>3. DOMAIN r = 1..(n - 1) /\ (r = << >> <=> n = 1)
  BY <1>1, <1>2, LenProperties, EmptySeq
<1>4. q[i] \in BOOLEAN /\ q # << >>
  BY <1>1, ElementOfSeq, EmptySeq
<1>5. i = 1 /\ r = << >> => Final(q) = q[1]
  BY <1>1, <1>3 DEF Final
<1>6. ASSUME i = 1, r # << >>
      PROVE  Final(r) = Final(q)
  <2>1. n - 1 \in 1..(n - 1) /\ ~(n - 1 < i) /\ (n - 1) + 1 = n
    BY <1>1, <1>3, <1>6
  <2>2. r[n - 1] = q[n]
    BY <1>2, <2>1
  <2> QED
    BY <1>1, <1>2, <2>2 DEF Final
<1>7. ASSUME NEW j \in DOMAIN r
      PROVE  \E k \in DOMAIN q : r[j] = q[k]
  <2>1. j \in 1..n /\ j + 1 \in 1..n
    BY <1>1, <1>3
  <2> QED
    BY <1>1, <1>2, <1>3, <2>1
<1> QED
  BY <1>2, <1>4, <1>5, <1>6, <1>7

\* Unless a start is on its way, no socket has said one last.
LEMMA NoStartNow ==
  ASSUME ~T!StartsComing, NEW q \in Tabs, sent[q] \in Seq(BOOLEAN)
  PROVE  sent[q] = << >> \/ ~Final(sent[q])
<1> SUFFICES ASSUME sent[q] # << >>
             PROVE  ~Final(sent[q])
  OBVIOUS
<1>1. Len(sent[q]) \in DOMAIN sent[q]
  BY LenProperties, EmptySeq
<1> QED
  BY <1>1 DEF T!StartsComing, T!Range, Final

LEMMA NoStart ==
  ASSUME ~T!StartsComing', NEW q \in Tabs, sent'[q] \in Seq(BOOLEAN)
  PROVE  sent'[q] = << >> \/ ~Final(sent'[q])
<1> SUFFICES ASSUME sent'[q] # << >>
             PROVE  ~Final(sent'[q])
  OBVIOUS
<1>1. Len(sent'[q]) \in DOMAIN sent'[q]
  BY LenProperties, EmptySeq
<1> QED
  BY <1>1 DEF T!StartsComing, T!Range, Final

\* A message is taken.  The last word of the others stands, those whose user
\* types are masked when it is the end of the typing.
LEMMA HandleStep ==
  ASSUME TypingInv, NEW s \in Tabs, NEW i \in DOMAIN sent[s], T!Handle(s, i)
  PROVE  TypingInv'
<1> DEFINE on == sent[s][i]
           rest == T!RemoveAt(sent[s], i)
<1>1. TypingTypes /\ TabInv(s) /\ WatchInv /\ sent[s] \in Seq(BOOLEAN)
  BY DEF TypingInv, TypingTypes
<1>2. /\ rest \in Seq(BOOLEAN) /\ on \in BOOLEAN /\ sent[s] # << >>
      /\ i = 1 /\ rest = << >> => Final(sent[s]) = sent[s][1]
      /\ i = 1 /\ rest # << >> => Final(rest) = Final(sent[s])
      /\ \A j \in DOMAIN rest : \E k \in DOMAIN sent[s] : rest[j] = sent[s][k]
  BY <1>1, FirstTaken
<1>3. /\ sent' = [sent EXCEPT ![s] = rest] /\ Tells(on)
      /\ masked' = masked \cup (IF on THEN {} ELSE T!Silenced(s)) \cup (IF i > 1 THEN {s} ELSE {})
      /\ leftover' = (i > 1 \/ (leftover /\ (on \/ T!StartsComing')))
      /\ UNCHANGED <<life, timer>>
  BY DEF T!Handle, Tells, T!pageVars, T!watchVars
<1>4. i \in Nat \ {0} /\ (i > 1 \/ i = 1)
  BY <1>1, LenProperties
<1> HIDE DEF on, rest
<1>5. /\ WatchInv' /\ entry' = on /\ down' \in Seq(BOOLEAN) /\ told' \in BOOLEAN
      /\ UNCHANGED <<shown, expiry, missed, stuck>>
  BY <1>1, <1>2, <1>3, Told
<1>6. TypingTypes'
  BY <1>1, <1>2, <1>3, <1>4, <1>5 DEF TypingTypes
<1>7. sent'[s] = rest /\ \A q \in Tabs : q # s => sent'[q] = sent[q]
  BY <1>1, <1>3 DEF TypingTypes
<1> DEFINE late == i > 1
<1> HIDE DEF late
<1>8. /\ late => leftover'
      /\ leftover /\ (on \/ T!StartsComing') => leftover'
      /\ late => s \in masked'
      /\ late \/ i = 1
  BY <1>3, <1>4 DEF late
<1>9. i = 1 \/ (s \in masked' /\ leftover')
  BY <1>8, Zenon
<1>10. ~leftover' => ~leftover \/ (~on /\ ~T!StartsComing')
  BY <1>8, Zenon
<1>11. TabInv(s)'
  <2>1. timer[s] # "none" /\ s \notin masked' =>
          IF rest = << >> THEN on ELSE Final(rest)
    BY <1>1, <1>2, <1>3, <1>9 DEF TabInv, on
  <2>2. timer[s] = "none" /\ life[s] # "cut" /\ ~leftover' => rest = << >> \/ ~Final(rest)
    BY <1>1, <1>2, <1>7, <1>9, <1>10, NoStart DEF TabInv
  <2> QED
    BY <1>1, <1>3, <1>5, <1>7, <2>1, <2>2 DEF TabInv
<1>12. ASSUME NEW q \in Tabs, q # s
       PROVE  TabInv(q)'
  <2>0. TabInv(q) /\ sent[q] \in Seq(BOOLEAN)
    BY <1>1 DEF TypingInv, TypingTypes
  <2>1. timer[q] # "none" /\ q \notin masked' => on /\ q \notin masked
    BY <1>3, <1>12 DEF T!Silenced
  <2>2. timer[q] = "none" /\ life[q] # "cut" /\ ~leftover' =>
          sent[q] = << >> \/ ~Final(sent[q])
    BY <1>7, <1>10, <1>12, <2>0, NoStart DEF TabInv
  <2> QED
    BY <1>3, <1>5, <1>7, <1>12, <2>0, <2>1, <2>2 DEF TabInv
<1>13. ASSUME entry', ~leftover'
       PROVE  Ending(s)'
  <2>1. on /\ ~leftover /\ i = 1
    BY <1>5, <1>9, <1>10, <1>13
  <2>2. CASE timer[s] # "none" \/ life[s] = "cut"
    BY <1>3, <2>2 DEF Ending
  <2>3. CASE timer[s] = "none" /\ life[s] # "cut"
    <3>1. ~Final(sent[s]) /\ sent[s][1]
      BY <1>1, <1>2, <2>1, <2>3 DEF TabInv, on
    <3>2. rest # << >> /\ ~Final(rest)
      BY <1>2, <2>1, <3>1
    <3> QED
      BY <1>7, <3>2 DEF Ending
  <2> QED
    BY <2>2, <2>3
<1> QED
  BY <1>5, <1>6, <1>11, <1>12, <1>13 DEF TypingInv

\* The server ends the typing: its timer, or the end of a socket of the user.
LEMMA StopStep ==
  ASSUME TypingInv, T!AutoStop \/ \E s \in Tabs : T!Cleanup(s)
  PROVE  TypingInv'
<1>0. TypingTypes /\ WatchInv
  BY DEF TypingInv
<1>1. CASE T!AutoStop
  <2>1. /\ Tells(FALSE) /\ masked' = masked \cup Tabs
        /\ leftover' = (leftover /\ T!StartsComing)
        /\ UNCHANGED <<life, timer, sent>>
    BY <1>1 DEF T!AutoStop, Tells, T!pageVars, T!watchVars
  <2>2. /\ WatchInv' /\ entry' = FALSE /\ down' \in Seq(BOOLEAN) /\ told' \in BOOLEAN
        /\ UNCHANGED <<shown, expiry, missed, stuck>>
    BY <1>0, <2>1, Told
  <2>3. TypingTypes'
    BY <1>0, <2>1, <2>2 DEF TypingTypes
  <2>4. ASSUME NEW q \in Tabs
        PROVE  TabInv(q)'
    <3>1. TabInv(q) /\ sent[q] \in Seq(BOOLEAN) /\ q \in masked'
      BY <1>0, <2>1 DEF TypingInv, TypingTypes
    <3>2. ~leftover' => ~leftover \/ ~T!StartsComing
      BY <2>1
    <3>3. timer[q] = "none" /\ life[q] # "cut" /\ ~leftover' =>
            sent[q] = << >> \/ ~Final(sent[q])
      BY <3>1, <3>2, NoStartNow DEF TabInv
    <3> QED
      BY <2>1, <3>1, <3>3 DEF TabInv
  <2> QED
    BY <2>2, <2>3, <2>4 DEF TypingInv
<1>2. ASSUME NEW s \in Tabs, T!Cleanup(s)
      PROVE  TypingInv'
  <2>0. TabInv(s) /\ life[s] = "cut" /\ timer[s] = "none"
    BY <1>2 DEF T!Cleanup, TypingInv, TabInv
  <2>1. /\ life' = [life EXCEPT ![s] = "gone"] /\ sent' = [sent EXCEPT ![s] = << >>]
        /\ UNCHANGED <<timer, shown, expiry, missed, stuck>>
    BY <1>2 DEF T!Cleanup, T!watchVars
  <2>2. /\ life' \in [Tabs -> {"new", "open", "cut", "gone"}] /\ sent' \in [Tabs -> Seq(BOOLEAN)]
        /\ life'[s] = "gone" /\ sent'[s] = << >>
        /\ \A q \in Tabs : q # s => life'[q] = life[q] /\ sent'[q] = sent[q]
    BY <1>0, <2>1, EmptySeq DEF TypingTypes
  <2>3. CASE /\ entry /\ Tells(FALSE) /\ masked' = masked \cup T!Silenced(s)
             /\ leftover' = (leftover /\ T!StartsComing')
    <3>1. /\ WatchInv' /\ entry' = FALSE /\ down' \in Seq(BOOLEAN) /\ told' \in BOOLEAN
      BY <1>0, <2>3, Told
    <3>2. TypingTypes'
      BY <1>0, <2>1, <2>2, <2>3, <3>1 DEF TypingTypes
    <3>3. TabInv(s)'
      BY <2>0, <2>1, <2>2 DEF TabInv
    <3>4. ASSUME NEW q \in Tabs, q # s
          PROVE  TabInv(q)'
      <4>1. TabInv(q) /\ sent[q] \in Seq(BOOLEAN)
        BY <1>0 DEF TypingInv, TypingTypes
      <4>2. timer[q] = "none" \/ q \in masked'
        BY <2>3, <3>4 DEF T!Silenced
      <4>3. ~leftover' => ~leftover \/ ~T!StartsComing'
        BY <2>3
      <4>4. timer[q] = "none" /\ life[q] # "cut" /\ ~leftover' =>
              sent[q] = << >> \/ ~Final(sent[q])
        BY <2>2, <3>4, <4>1, <4>3, NoStart DEF TabInv
      <4> QED
        BY <2>1, <2>2, <3>4, <4>1, <4>2, <4>4 DEF TabInv
    <3> QED
      BY <3>1, <3>2, <3>3, <3>4 DEF TypingInv
  <2>4. CASE ~entry /\ UNCHANGED <<entry, told, down, masked, leftover>>
    <3>1. TypingTypes'
      BY <1>0, <2>1, <2>2, <2>4 DEF TypingTypes
    <3>2. WatchInv'
      BY <1>0, <2>1, <2>4 DEF WatchInv
    <3>3. TabInv(s)'
      BY <2>0, <2>1, <2>2 DEF TabInv
    <3>4. ASSUME NEW q \in Tabs, q # s
          PROVE  TabInv(q)'
      BY <2>1, <2>2, <2>4, <3>4 DEF TabInv, TypingInv
    <3> QED
      BY <2>4, <3>1, <3>2, <3>3, <3>4 DEF TypingInv
  <2> QED
    BY <1>2, <2>3, <2>4 DEF T!Cleanup, Tells, T!serverVars, T!watchVars
<1> QED
  BY <1>1, <1>2

\* The watcher.
LEMMA WatcherStep ==
  ASSUME TypingInv, \/ T!Receive \/ T!WatchOut \/ T!WatcherAway \/ T!WatcherRestarts
                    \/ UNCHANGED T!vars
  PROVE  TypingInv'
<1>0. TypingTypes /\ WatchInv
  BY DEF TypingInv
<1>1. ASSUME UNCHANGED <<life, timer, sent, entry, told, masked, leftover>>,
             down' \in Seq(BOOLEAN), shown' \in BOOLEAN, expiry' \in BOOLEAN,
             missed' \in BOOLEAN, stuck' \in BOOLEAN, WatchInv'
      PROVE  TypingInv'
  <2>1. TypingTypes'
    BY <1>0, <1>1 DEF TypingTypes
  <2>2. \A q \in Tabs : TabInv(q)' /\ (Ending(q) => Ending(q)')
    BY <1>1 DEF TypingInv, TabInv, Ending
  <2> QED
    BY <1>1, <2>1, <2>2 DEF TypingInv
<1>2. CASE T!Receive
  <2>1. /\ down # << >> /\ down' = Tail(down) /\ shown' = Head(down) /\ expiry' = Head(down)
        /\ missed' = FALSE /\ stuck' = FALSE
        /\ UNCHANGED <<life, timer, sent, entry, told, masked, leftover>>
    BY <1>2 DEF T!Receive, T!pageVars
  <2>2. /\ Tail(down) \in Seq(BOOLEAN) /\ Head(down) \in BOOLEAN
        /\ Tail(down) = << >> => Head(down) = Final(down)
        /\ Tail(down) # << >> => Final(Tail(down)) = Final(down)
    <3>1. PICK n \in Nat \ {0} : n = Len(down)
      BY <1>0, <2>1, LenProperties, EmptySeq DEF TypingTypes
    <3>2. /\ Head(down) \in BOOLEAN /\ Head(down) = down[1] /\ Tail(down) \in Seq(BOOLEAN)
          /\ Len(Tail(down)) = n - 1
          /\ \A j \in 1..(n - 1) : Tail(down)[j] = down[j + 1]
      BY <1>0, <2>1, <3>1, HeadTailProperties DEF TypingTypes
    <3>3. Tail(down) = << >> <=> n = 1
      <4>1. Tail(down) = << >> <=> Len(Tail(down)) = 0
        BY <3>2, EmptySeq
      <4> QED
        BY <3>1, <3>2, <4>1
    <3>4. n # 1 => n - 1 \in 1..(n - 1) /\ (n - 1) + 1 = n
      BY <3>1
    <3> QED
      BY <3>1, <3>2, <3>3, <3>4 DEF Final
  <2>3. WatchInv'
    BY <1>0, <2>1, <2>2 DEF WatchInv
  <2> QED
    BY <1>1, <2>1, <2>2, <2>3
<1>3. CASE T!WatchOut \/ T!WatcherAway \/ T!WatcherRestarts \/ UNCHANGED T!vars
  <2>1. /\ UNCHANGED <<life, timer, sent, entry, told, masked, leftover>>
        /\ down' \in {down, << >>}
        /\ shown' \in BOOLEAN /\ expiry' \in BOOLEAN /\ missed' \in BOOLEAN /\ stuck' \in BOOLEAN
    BY <1>0, <1>3 DEF T!WatchOut, T!WatcherAway, T!WatcherRestarts, T!vars, T!pageVars,
       T!watchVars, T!serverVars, TypingTypes
  <2>2. down' \in Seq(BOOLEAN)
    BY <1>0, <2>1, EmptySeq DEF TypingTypes
  <2>3. WatchInv'
    BY <1>0, <1>3 DEF T!WatchOut, T!WatcherAway, T!WatcherRestarts, T!vars, T!pageVars,
       T!watchVars, T!serverVars, WatchInv, TypingTypes
  <2> QED
    BY <1>1, <2>1, <2>2, <2>3
<1> QED
  BY <1>2, <1>3

LEMMA TypingInit ==
  ASSUME T!Init
  PROVE  TypingInv
<1>1. TypingTypes
  BY EmptySeq DEF T!Init, TypingTypes
<1>2. \A s \in Tabs : TabInv(s)
  BY DEF T!Init, TabInv
<1> QED
  BY <1>1, <1>2 DEF T!Init, TypingInv, WatchInv

LEMMA TypingStep ==
  ASSUME TypingInv, [T!Next]_(T!vars)
  PROVE  TypingInv'
BY PageStep, HandleStep, StopStep, WatcherStep DEF T!Next

LEMMA TypingReached == TypingInv => T!TypingAgrees
<1> SUFFICES ASSUME TypingInv
             PROVE  T!TypingAgrees
  OBVIOUS
<1>1. T!EveryStartEnds /\ T!WatcherAgrees
  BY DEF TypingInv, WatchInv, T!EveryStartEnds, T!WatcherAgrees
<1>2. T!TypingTold
  BY DEF TypingInv, TabInv, T!TypingTold, T!Quiet
<1>3. T!EndTold
  BY DEF TypingInv, Ending, T!EndTold, T!Quiet
<1> QED
  BY <1>1, <1>2, <1>3 DEF T!TypingAgrees

-----------------------------------------------------------------------------
(* The call of one page.                                                   *)

MediaTypes ==
  /\ open \in BOOLEAN /\ run \in 0..MaxRuns
  /\ pc \in [C!Runs -> {"token", "join", "mic", "publish", "process", "camera", "over"}]
  /\ silenced \subseteq 1..run
  /\ micRef \in {0, run} /\ eqRef \in 0..MaxRuns
  /\ muted \in BOOLEAN /\ early \in BOOLEAN /\ partly \in BOOLEAN
  /\ overtaken \in BOOLEAN

\* The refs have what is live, and it belongs to the run on the screen.
MediaHeld ==
  /\ \A r \in joined \cup mic \cup cam : r \in C!Runs /\ C!Mounted(r)
  /\ mic \subseteq {micRef} /\ cam \subseteq {camRef}
  /\ ~open => micRef = 0

\* What the run on the screen has done, where it is.
RunHeld ==
  open =>
    /\ run # 0
    /\ pc[run] \in {"token", "join", "mic"} => micRef = 0
    /\ pc[run] \in {"publish", "process", "camera"} => run \in mic
    /\ run \in mic /\ pc[run] \in {"process", "camera", "over"} =>
         eqRef = run \/ overtaken \/ partly
    /\ status = "failed" /\ ~partly => run \notin joined /\ pc[run] = "over"

\* Without a track nothing is muted but by an excuse.
MuteHeld ==
  open => /\ micRef = 0 => run \notin silenced /\ (muted => early)
          /\ micRef # 0 => (muted <=> run \in silenced) \/ early

MediaInv == MediaTypes /\ MediaHeld /\ RunHeld /\ MuteHeld

RemoteTypes ==
  /\ group \in BOOLEAN /\ spatial \in BOOLEAN
  /\ here \subseteq Peers /\ tiles \subseteq Peers
  /\ tracks \in [Peers -> SUBSET C!Kinds]
  /\ graph \in [Peers -> {"none", "live", "dead"}]

\* A graph that is not live under a voice has lost its track.
PeerHeld(q) ==
  /\ tracks[q] # {} => q \in tiles
  /\ graph[q] # "none" => group /\ spatial /\ q \in tiles
  /\ group /\ spatial /\ "audio" \in tracks[q] =>
       graph[q] = "live" \/ (graph[q] = "dead" /\ q \in renewed)

RemoteInv ==
  /\ RemoteTypes
  /\ \A q \in Peers : PeerHeld(q)
  /\ tiles \subseteq here \cup carried
  /\ run \notin joined => tiles \subseteq carried

RoomInv == MediaInv /\ RemoteInv

\* Without a view nothing is held.
LEMMA NothingHeld ==
  ASSUME MaxRuns \in Nat, MediaInv
  PROVE  /\ joined \subseteq {run} /\ mic \subseteq {run} /\ cam \subseteq {run}
         /\ ~open => joined = {} /\ mic = {} /\ cam = {}
         /\ mic \ {micRef} = {} /\ cam \ {camRef} = {} /\ joined \ {run} = {}
         /\ run \in mic => open /\ micRef = run /\ run # 0
BY DEF MediaInv, MediaTypes, MediaHeld, C!Mounted, C!Runs

LEMMA RoomReached ==
  ASSUME MaxRuns \in Nat, RoomInv
  PROVE  C!CallShown
<1>1. C!MediaReleased
  BY DEF RoomInv, MediaInv, MediaHeld, C!MediaReleased
<1>2. run \notin joined \/ open
  BY NothingHeld DEF RoomInv
<1>3. C!Label = "failed" /\ ~partly => run \notin joined
  BY <1>2 DEF RoomInv, MediaInv, RunHeld, C!Label
<1>4. run \in mic => (muted = (run \in silenced)) \/ early
  <2> SUFFICES ASSUME run \in mic
               PROVE  (muted = (run \in silenced)) \/ early
    OBVIOUS
  <2>1. open /\ micRef # 0
    BY NothingHeld DEF RoomInv
  <2>2. (muted <=> run \in silenced) \/ early
    BY <2>1 DEF RoomInv, MediaInv, MuteHeld
  <2>3. muted \in BOOLEAN /\ (run \in silenced) \in BOOLEAN
    BY DEF RoomInv, MediaInv, MediaTypes
  <2> QED
    BY <2>2, <2>3
<1>5. C!PanelReaches
  BY NothingHeld DEF RoomInv, MediaInv, RunHeld, C!PanelReaches, C!Tuned
<1>6. C!OthersTrue
  BY DEF RoomInv, RemoteInv, PeerHeld, C!OthersTrue, C!Heard
<1> QED
  BY <1>1, <1>3, <1>4, <1>5, <1>6 DEF C!CallShown, C!ScreenTrue

LEMMA RoomInit ==
  ASSUME MaxRuns \in Nat, C!Init
  PROVE  RoomInv
<1>1. MediaTypes
  <2>1. open \in BOOLEAN /\ muted \in BOOLEAN /\ early \in BOOLEAN /\ partly \in BOOLEAN
        /\ overtaken \in BOOLEAN
    BY DEF C!Init
  <2>2. run \in 0..MaxRuns /\ eqRef \in 0..MaxRuns /\ micRef \in {0, run} /\ silenced \subseteq 1..run
    BY DEF C!Init
  <2>3. pc \in [C!Runs -> {"token", "join", "mic", "publish", "process", "camera", "over"}]
    BY DEF C!Init
  <2> QED
    BY <2>1, <2>2, <2>3 DEF MediaTypes
<1>2. MediaHeld /\ RunHeld /\ MuteHeld
  BY DEF C!Init, MediaHeld, RunHeld, MuteHeld
<1>3. RemoteTypes
  BY DEF C!Init, RemoteTypes
<1>4. \A q \in Peers : PeerHeld(q)
  BY DEF C!Init, PeerHeld
<1>5. tiles = {}
  BY DEF C!Init
<1> QED
  BY <1>1, <1>2, <1>3, <1>4, <1>5 DEF RoomInv, MediaInv, RemoteInv

\* What the effect builds from the tiles and their streams.
LEMMA GraphsBuilt ==
  ASSUME RemoteInv, NEW S \in SUBSET Peers, NEW R \in [Peers -> SUBSET C!Kinds],
         NEW on \in BOOLEAN, NEW q \in Peers
  PROVE  /\ C!Graphs(S, R, on) \in [Peers -> {"none", "live", "dead"}]
         /\ C!Graphs(S, R, on)[q] # "none" => group /\ on /\ q \in S
         /\ group /\ on /\ q \in S /\ "audio" \in R[q] =>
              C!Graphs(S, R, on)[q] = IF graph[q] = "dead" THEN "dead" ELSE "live"
BY DEF C!Graphs, RemoteInv, RemoteTypes

\* The streams end, the tiles stay: Cleanup, and what leaves the room.
LEMMA StreamsEnd ==
  ASSUME RemoteInv, tracks' = C!NoTracks, graph' = C!Graphs(tiles, C!NoTracks, spatial),
         carried' = carried \cup tiles, UNCHANGED <<group, here, tiles, spatial, renewed>>
  PROVE  RemoteInv'
<1>1. C!NoTracks \in [Peers -> SUBSET C!Kinds] /\ tiles \in SUBSET Peers /\ spatial \in BOOLEAN
      /\ \A q \in Peers : C!NoTracks[q] = {}
  BY DEF C!NoTracks, RemoteInv, RemoteTypes
<1> HIDE DEF C!NoTracks
<1>2. \A q \in Peers :
        /\ C!Graphs(tiles, C!NoTracks, spatial) \in [Peers -> {"none", "live", "dead"}]
        /\ C!Graphs(tiles, C!NoTracks, spatial)[q] # "none" => group /\ spatial /\ q \in tiles
  BY <1>1, GraphsBuilt
<1>3. RemoteTypes'
  <2>1. CASE Peers = {}
    BY <1>1, <2>1 DEF C!Graphs, RemoteInv, RemoteTypes
  <2>2. CASE Peers # {}
    BY <1>1, <1>2, <2>2 DEF RemoteInv, RemoteTypes
  <2> QED
    BY <2>1, <2>2
<1>4. ASSUME NEW q \in Peers
      PROVE  PeerHeld(q)'
  BY <1>1, <1>2 DEF PeerHeld
<1> QED
  BY <1>3, <1>4 DEF RemoteInv

\* The part of the page that holds what a run has taken.
LEMMA OpenStep ==
  ASSUME MaxRuns \in Nat, RoomInv, NEW v \in BOOLEAN, C!OpenCall(v)
  PROVE  RoomInv'
<1> USE DEF C!OpenCall, C!Begin, C!refs, C!media, C!remote
<1>1. run + 1 \in C!Runs /\ run \in Nat /\ run + 1 # 0 /\ run + 1 \notin silenced /\ micRef = 0
  BY DEF RoomInv, MediaInv, MediaTypes, MediaHeld, C!Runs
<1>2. joined = {} /\ mic = {} /\ cam = {}
  BY NothingHeld DEF RoomInv
<1>3. pc'[run'] = "token"
  BY <1>1 DEF RoomInv, MediaInv, MediaTypes
<1>4. MediaTypes'
  <2>1. (open \in BOOLEAN /\ muted \in BOOLEAN /\ early \in BOOLEAN /\ partly \in BOOLEAN
         /\ overtaken \in BOOLEAN)'
    BY DEF RoomInv, MediaInv, MediaTypes
  <2>2. (run \in 0..MaxRuns /\ eqRef \in 0..MaxRuns /\ micRef \in {0, run}
         /\ silenced \subseteq 1..run)'
    BY <1>1 DEF RoomInv, MediaInv, MediaTypes, C!Runs
  <2>3. (pc \in [C!Runs -> {"token", "join", "mic", "publish", "process", "camera", "over"}])'
    BY <1>1 DEF RoomInv, MediaInv, MediaTypes, C!Runs
  <2> QED
    BY <2>1, <2>2, <2>3 DEF MediaTypes
<1>5. MediaHeld' /\ RunHeld' /\ MuteHeld'
  BY <1>1, <1>2, <1>3 DEF MediaHeld, RunHeld, MuteHeld
<1>6. tiles \subseteq carried
  BY <1>2 DEF RoomInv, RemoteInv
<1>7. RemoteInv'
  BY <1>6 DEF RoomInv, RemoteInv, RemoteTypes, PeerHeld
<1> QED
  BY <1>4, <1>5, <1>7 DEF RoomInv, MediaInv

\* What both the cleanup of a closed view and that of a run leave.
LEMMA Cleaned ==
  ASSUME MaxRuns \in Nat, MediaInv, C!Cleanup
  PROVE  joined' = {} /\ mic' = {} /\ cam' = {} /\ micRef' = 0 /\ eqRef' = 0
         /\ silenced' = silenced
BY NothingHeld DEF C!Cleanup

LEMMA CloseStep ==
  ASSUME MaxRuns \in Nat, RoomInv, C!Closes, here' \subseteq Peers
  PROVE  RoomInv'
<1> USE DEF C!Closes, C!screen, C!excuses
<1>1. MediaTypes'
  <2>1. (open \in BOOLEAN /\ muted \in BOOLEAN /\ early \in BOOLEAN /\ partly \in BOOLEAN
         /\ overtaken \in BOOLEAN)'
    BY DEF RoomInv, MediaInv, MediaTypes
  <2>2. run' = run /\ pc' = pc
    OBVIOUS
  <2>3. eqRef' = 0 /\ micRef' = 0 /\ silenced' = silenced
    BY Cleaned DEF RoomInv
  <2> QED
    BY <2>1, <2>2, <2>3 DEF RoomInv, MediaInv, MediaTypes, C!Runs
<1>2. MediaHeld' /\ RunHeld' /\ MuteHeld'
  BY Cleaned DEF RoomInv, MediaHeld, RunHeld, MuteHeld
<1>3. RemoteTypes'
  BY DEF RoomInv, RemoteInv, RemoteTypes, C!NoTracks, C!NoGraphs
<1>4. \A q \in Peers : tracks'[q] = {} /\ graph'[q] = "none"
  BY DEF C!NoTracks, C!NoGraphs
<1>5. \A q \in Peers : PeerHeld(q)'
  BY <1>4 DEF PeerHeld
<1> QED
  BY <1>1, <1>2, <1>3, <1>5 DEF RoomInv, MediaInv, RemoteInv

LEMMA RerunStep ==
  ASSUME MaxRuns \in Nat, RoomInv, NEW v \in BOOLEAN, C!Rerun(v)
  PROVE  RoomInv'
<1> USE DEF C!Rerun, C!Begin, C!screen
<1>1. run + 1 \in C!Runs /\ run \in Nat /\ run + 1 # 0 /\ run + 1 \notin silenced
  BY DEF RoomInv, MediaInv, MediaTypes, C!Runs
<1>2. pc'[run'] = "token"
  BY <1>1 DEF RoomInv, MediaInv, MediaTypes
<1>3. joined' = {} /\ mic' = {} /\ cam' = {} /\ micRef' = 0 /\ eqRef' = 0
      /\ silenced' = silenced
  BY Cleaned DEF RoomInv
<1>4. MediaTypes'
  BY <1>1, <1>3 DEF RoomInv, MediaInv, MediaTypes, C!Runs
<1>5. MediaHeld' /\ RunHeld' /\ MuteHeld'
  BY <1>1, <1>2, <1>3 DEF MediaHeld, RunHeld, MuteHeld
<1>6. RemoteInv'
  BY StreamsEnd DEF RoomInv
<1> QED
  BY <1>4, <1>5, <1>6 DEF RoomInv, MediaInv

LEMMA RemoteKept ==
  ASSUME RemoteInv, UNCHANGED <<group, C!remote>>, run' = run,
         run \in joined => run \in joined' \/ tiles \subseteq carried
  PROVE  RemoteInv'
BY DEF C!remote, RemoteInv, RemoteTypes, PeerHeld

\* A run goes on: where it is, and what its steps leave.
LEMMA Gone ==
  ASSUME MediaTypes, NEW r \in C!Runs, NEW where, C!Goto(r, where),
         where \in {"token", "join", "mic", "publish", "process", "camera", "over"}
  PROVE  /\ pc' \in [C!Runs -> {"token", "join", "mic", "publish", "process", "camera", "over"}]
         /\ pc'[r] = where
         /\ \A o \in C!Runs : o # r => pc'[o] = pc[o]
BY DEF C!Goto, MediaTypes

LEMMA RunIn ==
  ASSUME MaxRuns \in Nat, MediaInv
  PROVE  /\ run \in Nat /\ (open => run \in C!Runs)
         /\ \A r \in C!Runs : r \in 0..MaxRuns
BY DEF MediaInv, MediaTypes, RunHeld, C!Runs

LEMMA TokenStep ==
  ASSUME MaxRuns \in Nat, MediaInv, NEW r \in C!Runs, C!Token(r)
  PROVE  MediaInv'
<1> USE DEF C!Token, C!kept, C!refs, C!media
<1> DEFINE where == IF C!Mounted(r) THEN "join" ELSE "over"
<1>1. where \in {"join", "over"} /\ (C!Mounted(r) => where = "join")
  OBVIOUS
<1>2. C!Goto(r, where)
  OBVIOUS
<1> HIDE DEF where
<1>3. /\ pc' \in [C!Runs -> {"token", "join", "mic", "publish", "process", "camera", "over"}]
      /\ pc'[r] = where
      /\ \A o \in C!Runs : o # r => pc'[o] = pc[o]
  BY <1>1, <1>2, Gone DEF MediaInv
<1>4. MediaTypes'
  BY <1>3 DEF MediaInv, MediaTypes, C!Runs
<1>5. MediaHeld'
  BY DEF MediaInv, MediaHeld, C!Mounted, C!Runs
<1>6. RunHeld'
  BY <1>1, <1>3, RunIn DEF MediaInv, RunHeld, C!Mounted
<1>7. MuteHeld'
  BY DEF MediaInv, MuteHeld
<1> QED
  BY <1>4, <1>5, <1>6, <1>7 DEF MediaInv

LEMMA JoinStep ==
  ASSUME MaxRuns \in Nat, MediaInv, NEW r \in C!Runs, C!Join(r)
  PROVE  MediaInv'
<1> USE DEF C!Join, C!kept, C!refs
<1> PICK where \in {"mic", "over"} : C!Goto(r, where) /\ (C!Mounted(r) => where = "mic")
  OBVIOUS
<1>3. /\ pc' \in [C!Runs -> {"token", "join", "mic", "publish", "process", "camera", "over"}]
      /\ pc'[r] = where
      /\ \A o \in C!Runs : o # r => pc'[o] = pc[o]
  BY Gone DEF MediaInv
<1>4. MediaTypes'
  BY <1>3 DEF MediaInv, MediaTypes, C!Runs
<1>5. MediaHeld'
  BY DEF MediaInv, MediaHeld, C!Mounted, C!Runs
<1>6. RunHeld'
  BY <1>3, RunIn DEF MediaInv, RunHeld, C!Mounted
<1>7. MuteHeld'
  BY DEF MediaInv, MuteHeld
<1> QED
  BY <1>4, <1>5, <1>6, <1>7 DEF MediaInv

LEMMA MicrophoneStep ==
  ASSUME MaxRuns \in Nat, MediaInv, NEW r \in C!Runs, C!Microphone(r)
  PROVE  MediaInv'
<1> USE DEF C!Microphone, C!kept
<1> PICK where \in {"publish", "over"} : C!Goto(r, where) /\ (C!Mounted(r) => where = "publish")
  OBVIOUS
<1>3. /\ pc' \in [C!Runs -> {"token", "join", "mic", "publish", "process", "camera", "over"}]
      /\ pc'[r] = where
      /\ \A o \in C!Runs : o # r => pc'[o] = pc[o]
  BY Gone DEF MediaInv
<1>2. C!Mounted(r) => r = run /\ open /\ micRef = 0
  BY DEF C!Mounted, MediaInv, RunHeld
<1>4. MediaTypes'
  BY <1>2, <1>3 DEF MediaInv, MediaTypes, C!Runs
<1>5. MediaHeld'
  BY <1>2, NothingHeld DEF MediaInv, MediaHeld, C!Mounted, C!Runs
<1>6. RunHeld'
  BY <1>2, <1>3, RunIn DEF MediaInv, RunHeld, C!Mounted
<1>7. MuteHeld'
  BY <1>2 DEF MediaInv, MuteHeld
<1> QED
  BY <1>4, <1>5, <1>6, <1>7 DEF MediaInv

LEMMA PublishStep ==
  ASSUME MaxRuns \in Nat, MediaInv, NEW r \in C!Runs, C!Publish(r)
  PROVE  MediaInv'
<1> USE DEF C!Publish, C!kept, C!media
<1>3. /\ pc' \in [C!Runs -> {"token", "join", "mic", "publish", "process", "camera", "over"}]
      /\ pc'[r] = "process"
      /\ \A o \in C!Runs : o # r => pc'[o] = pc[o]
  BY Gone DEF MediaInv
<1>4. MediaTypes'
  <2>1. overtaken' \in BOOLEAN
    BY DEF MediaInv, MediaTypes
  <2> QED
    BY <1>3, <2>1, RunIn DEF MediaInv, MediaTypes, C!Runs
<1>5. MediaHeld'
  BY DEF MediaInv, MediaHeld, C!Mounted, C!Runs
<1>6. RunHeld'
  BY <1>3, RunIn DEF MediaInv, RunHeld, C!Mounted
<1>7. MuteHeld'
  BY DEF MediaInv, MuteHeld
<1> QED
  BY <1>4, <1>5, <1>6, <1>7 DEF MediaInv

LEMMA ProcessStepped ==
  ASSUME MaxRuns \in Nat, MediaInv, NEW r \in C!Runs, C!Process(r)
  PROVE  MediaInv'
<1> USE DEF C!Process, C!kept, C!refs, C!media
<1> PICK where \in {"camera", "over"} : C!Goto(r, where)
  OBVIOUS
<1>3. /\ pc' \in [C!Runs -> {"token", "join", "mic", "publish", "process", "camera", "over"}]
      /\ pc'[r] = where
      /\ \A o \in C!Runs : o # r => pc'[o] = pc[o]
  BY Gone DEF MediaInv
<1>4. MediaTypes'
  BY <1>3 DEF MediaInv, MediaTypes, C!Runs
<1>5. MediaHeld'
  BY DEF MediaInv, MediaHeld, C!Mounted, C!Runs
<1>6. RunHeld'
  BY <1>3, RunIn DEF MediaInv, RunHeld, C!Mounted
<1>7. MuteHeld'
  BY DEF MediaInv, MuteHeld
<1> QED
  BY <1>4, <1>5, <1>6, <1>7 DEF MediaInv

LEMMA CameraStep ==
  ASSUME MaxRuns \in Nat, MediaInv, NEW r \in C!Runs, C!Camera(r)
  PROVE  MediaInv'
<1> USE DEF C!Camera, C!kept
<1>3. /\ pc' \in [C!Runs -> {"token", "join", "mic", "publish", "process", "camera", "over"}]
      /\ pc'[r] = "over"
      /\ \A o \in C!Runs : o # r => pc'[o] = pc[o]
  BY Gone DEF MediaInv
<1>4. MediaTypes'
  BY <1>3 DEF MediaInv, MediaTypes, C!Runs
<1>5. MediaHeld'
  BY NothingHeld DEF MediaInv, MediaHeld, C!Mounted, C!Runs
<1>6. RunHeld'
  BY <1>3, RunIn DEF MediaInv, RunHeld, C!Mounted
<1>7. MuteHeld'
  BY DEF MediaInv, MuteHeld
<1> QED
  BY <1>4, <1>5, <1>6, <1>7 DEF MediaInv

LEMMA FailsStep ==
  ASSUME MaxRuns \in Nat, MediaInv, NEW r \in C!Runs, C!Fails(r)
  PROVE  MediaInv'
<1> USE DEF C!Fails, C!kept, C!refs, C!media
<1>3. /\ pc' \in [C!Runs -> {"token", "join", "mic", "publish", "process", "camera", "over"}]
      /\ pc'[r] = "over"
      /\ \A o \in C!Runs : o # r => pc'[o] = pc[o]
  BY Gone DEF MediaInv
<1>4. MediaTypes'
  <2>1. partly' \in BOOLEAN
    BY DEF MediaInv, MediaTypes
  <2> QED
    BY <1>3, <2>1 DEF MediaInv, MediaTypes, C!Runs
<1>5. MediaHeld'
  BY DEF MediaInv, MediaHeld, C!Mounted, C!Runs
<1>6. RunHeld'
  BY <1>3, RunIn DEF MediaInv, RunHeld, C!Mounted
<1>7. MuteHeld'
  BY DEF MediaInv, MuteHeld
<1> QED
  BY <1>4, <1>5, <1>6, <1>7 DEF MediaInv

LEMMA HangUpStep ==
  ASSUME MaxRuns \in Nat, RoomInv, C!HangUp
  PROVE  RoomInv'
<1> USE DEF C!HangUp, C!refs, C!screen, C!excuses
<1>1. MediaTypes'
  BY DEF RoomInv, MediaInv, MediaTypes, C!Runs
<1>2. MediaHeld' /\ RunHeld' /\ MuteHeld'
  BY DEF RoomInv, MediaInv, MediaHeld, RunHeld, MuteHeld, C!Mounted, C!Runs
<1>3. RemoteInv'
  BY StreamsEnd DEF RoomInv
<1> QED
  BY <1>1, <1>2, <1>3 DEF RoomInv, MediaInv

LEMMA DroppedStep ==
  ASSUME MaxRuns \in Nat, RoomInv, C!Dropped
  PROVE  RoomInv'
<1> USE DEF C!Dropped, C!refs
<1>1. MediaTypes'
  <2>1. partly' \in BOOLEAN
    OBVIOUS
  <2> QED
    BY <2>1 DEF RoomInv, MediaInv, MediaTypes, C!Runs
<1>2. MediaHeld' /\ RunHeld' /\ MuteHeld'
  BY DEF RoomInv, MediaInv, MediaHeld, RunHeld, MuteHeld, C!Mounted, C!Runs
<1>3. RemoteInv'
  BY StreamsEnd DEF RoomInv
<1> QED
  BY <1>1, <1>2, <1>3 DEF RoomInv, MediaInv

LEMMA MuteStep ==
  ASSUME MaxRuns \in Nat, RoomInv, C!ToggleMute
  PROVE  RoomInv'
<1>1. UNCHANGED <<group, open, run, pc, joined, mic, cam, micRef, camRef, eqRef, status, partly,
                  overtaken>> /\ UNCHANGED C!remote
  BY DEF C!ToggleMute, C!refs
<1>2. muted' = ~muted
  BY DEF C!ToggleMute
<1>3. ASSUME micRef = 0
      PROVE  MediaTypes' /\ MuteHeld'
  <2>1. early' = TRUE /\ silenced' = silenced
    BY <1>3 DEF C!ToggleMute
  <2>2. muted' \in BOOLEAN
    BY <1>2 DEF RoomInv, MediaInv, MediaTypes
  <2>3. early' \in BOOLEAN
    BY <2>1
  <2>4. MediaTypes'
    BY <1>1, <2>1, <2>2, <2>3 DEF RoomInv, MediaInv, MediaTypes, C!Runs
  <2>5. MuteHeld'
    BY <1>1, <1>3, <2>1 DEF RoomInv, MediaInv, MuteHeld
  <2> QED
    BY <2>4, <2>5
<1>4. ASSUME micRef # 0
      PROVE  MediaTypes' /\ MuteHeld'
  <2>1. early' = early /\ silenced' = IF muted THEN silenced \ {run} ELSE silenced \cup {run}
    BY <1>4 DEF C!ToggleMute, RoomInv, MediaInv, MediaTypes
  <2>2. run \in 1..run
    BY <1>4 DEF RoomInv, MediaInv, MediaTypes
  <2>3. muted' \in BOOLEAN
    BY <1>2 DEF RoomInv, MediaInv, MediaTypes
  <2>4. silenced' \subseteq 1..run
    BY <2>1, <2>2 DEF RoomInv, MediaInv, MediaTypes
  <2>5. MediaTypes'
    BY <1>1, <2>1, <2>3, <2>4 DEF RoomInv, MediaInv, MediaTypes, C!Runs
  <2>6. run \in silenced' <=> ~muted
    BY <2>1
  <2>7. MuteHeld'
    BY <1>1, <1>2, <1>4, <2>6 DEF MuteHeld
  <2> QED
    BY <2>5, <2>7
<1>5. MediaHeld' /\ RunHeld'
  BY <1>1 DEF RoomInv, MediaInv, MediaHeld, RunHeld, C!Mounted, C!Runs
<1>6. RemoteInv'
  BY <1>1, RemoteKept DEF RoomInv
<1> QED
  BY <1>3, <1>4, <1>5, <1>6 DEF RoomInv, MediaInv

\* What the others do leaves what the page has taken.
LEMMA Alone ==
  ASSUME MediaInv, C!alone' = C!alone, status' # status => status' = "connected"
  PROVE  MediaInv'
<1> USE DEF C!alone, C!refs, C!media, C!excuses
<1>1. MediaTypes'
  BY DEF MediaInv, MediaTypes, C!Runs
<1>2. MediaHeld' /\ RunHeld' /\ MuteHeld'
  BY DEF MediaInv, MediaHeld, RunHeld, MuteHeld, C!Mounted, C!Runs
<1> QED
  BY <1>1, <1>2 DEF MediaInv

\* The graphs after a change: those of peers whose voice is there are live,
\* unless they were dead.
LEMMA Rebuilt ==
  ASSUME RemoteInv, NEW S \in SUBSET Peers, NEW R \in [Peers -> SUBSET C!Kinds],
         NEW on \in BOOLEAN, graph' = C!Graphs(S, R, on)
  PROVE  /\ graph' \in [Peers -> {"none", "live", "dead"}]
         /\ \A q \in Peers :
              /\ graph'[q] # "none" => group /\ on /\ q \in S
              /\ group /\ on /\ q \in S /\ "audio" \in R[q] =>
                   graph'[q] = IF graph[q] = "dead" THEN "dead" ELSE "live"
<1>1. graph' \in [Peers -> {"none", "live", "dead"}]
  BY DEF C!Graphs
<1> QED
  BY <1>1, GraphsBuilt

LEMMA SpatialStep ==
  ASSUME MaxRuns \in Nat, RoomInv, C!ToggleSpatial
  PROVE  RoomInv'
<1>1. MediaInv'
  BY Alone DEF C!ToggleSpatial, RoomInv
<1>2. tiles \in SUBSET Peers /\ tracks \in [Peers -> SUBSET C!Kinds]
  BY DEF RoomInv, RemoteInv, RemoteTypes
<1>3. spatial \in BOOLEAN
  BY DEF RoomInv, RemoteInv, RemoteTypes
<1>4. UNCHANGED <<group, here, tiles, tracks, carried, run, joined>>
  BY DEF C!ToggleSpatial, C!alone, C!media
<1> PICK on \in BOOLEAN : spatial' = on /\ (on <=> ~spatial)
                        /\ graph' = C!Graphs(tiles, tracks, on)
  <2>1. CASE spatial = TRUE
    <3>1. spatial' = FALSE /\ graph' = C!Graphs(tiles, tracks, FALSE)
      BY <2>1 DEF C!ToggleSpatial
    <3> QED
      BY <2>1, <3>1
  <2>2. CASE spatial = FALSE
    <3>1. spatial' = TRUE /\ graph' = C!Graphs(tiles, tracks, TRUE)
      BY <2>2 DEF C!ToggleSpatial
    <3> QED
      BY <2>2, <3>1
  <2> QED
    BY <1>3, <2>1, <2>2
<1>5. /\ graph' \in [Peers -> {"none", "live", "dead"}]
      /\ \A q \in Peers :
           /\ graph'[q] # "none" => group /\ on /\ q \in tiles
           /\ group /\ on /\ q \in tiles /\ "audio" \in tracks[q] =>
                graph'[q] = IF graph[q] = "dead" THEN "dead" ELSE "live"
  BY <1>2, Rebuilt DEF RoomInv
<1>6. RemoteTypes'
  BY <1>4, <1>5 DEF RoomInv, RemoteInv, RemoteTypes
<1>7. ASSUME NEW q \in Peers
      PROVE  PeerHeld(q)'
  <2>1. on => graph[q] = "none"
    BY DEF RoomInv, RemoteInv, PeerHeld
  <2> QED
    BY <1>4, <1>5, <2>1 DEF RoomInv, RemoteInv, PeerHeld
<1>8. RemoteInv'
  BY <1>4, <1>6, <1>7 DEF RoomInv, RemoteInv
<1> QED
  BY <1>1, <1>8 DEF RoomInv

LEMMA PeerJoinsStep ==
  ASSUME MaxRuns \in Nat, RoomInv, NEW q \in Peers, C!PeerJoins(q)
  PROVE  RoomInv'
<1> USE DEF C!PeerJoins, RoomInv
<1>1. MediaInv'
  BY Alone
<1>2. UNCHANGED <<group, run, joined>>
  BY DEF C!alone, C!media
<1> QED
  BY <1>1, <1>2 DEF RemoteInv, RemoteTypes, PeerHeld

\* The tiles and streams change by those of one peer.
LEMMA Streamed ==
  ASSUME RemoteInv, NEW S \in SUBSET Peers, NEW R \in [Peers -> SUBSET C!Kinds],
         C!Streams(S, R), UNCHANGED <<group, run, joined, spatial>>,
         here' \subseteq Peers,
         \A q \in Peers : R[q] # {} => q \in S,
         \A q \in Peers : group /\ spatial /\ "audio" \in R[q] /\ graph[q] = "dead" =>
            q \in renewed',
         S \subseteq here' \cup carried',
         run \notin joined => S \subseteq carried'
  PROVE  RemoteInv'
<1>1. tiles' = S /\ tracks' = R /\ graph' = C!Graphs(S, R, spatial)
  BY DEF C!Streams
<1>2. spatial \in BOOLEAN
  BY DEF RemoteInv, RemoteTypes
<1>3. /\ graph' \in [Peers -> {"none", "live", "dead"}]
      /\ \A q \in Peers :
           /\ graph'[q] # "none" => group /\ spatial /\ q \in S
           /\ group /\ spatial /\ q \in S /\ "audio" \in R[q] =>
                graph'[q] = IF graph[q] = "dead" THEN "dead" ELSE "live"
  BY <1>1, <1>2, Rebuilt
<1>4. RemoteTypes'
  BY <1>1, <1>3 DEF RemoteInv, RemoteTypes
<1>5. ASSUME NEW q \in Peers
      PROVE  PeerHeld(q)'
  BY <1>1, <1>3 DEF PeerHeld
<1> QED
  BY <1>1, <1>4, <1>5 DEF RemoteInv

LEMMA SubscribedStep ==
  ASSUME MaxRuns \in Nat, RoomInv, NEW q \in Peers, NEW k \in C!Kinds,
         C!TrackSubscribed(q, k)
  PROVE  RoomInv'
<1> USE DEF C!TrackSubscribed, RoomInv
<1>1. MediaInv'
  BY Alone
<1>2. UNCHANGED <<group, run, joined>>
  BY DEF C!alone, C!media
<1> DEFINE S == tiles \cup {q}
           R == [tracks EXCEPT ![q] = @ \cup {k}]
<1>3. S \in SUBSET Peers /\ R \in [Peers -> SUBSET C!Kinds]
  BY DEF RemoteInv, RemoteTypes
<1>4. \A o \in Peers : R[o] = IF o = q THEN tracks[q] \cup {k} ELSE tracks[o]
  BY DEF RemoteInv, RemoteTypes
<1>5. \A o \in Peers : R[o] # {} => o \in S
  BY <1>4 DEF RemoteInv, PeerHeld
<1>6. ASSUME NEW o \in Peers, group /\ spatial /\ "audio" \in R[o] /\ graph[o] = "dead"
      PROVE  o \in renewed'
  <2>1. CASE "audio" \in tracks[o]
    BY <1>6, <2>1 DEF RemoteInv, PeerHeld
  <2>2. CASE "audio" \notin tracks[o]
    BY <1>4, <1>6, <2>2
  <2> QED
    BY <2>1, <2>2
<1>7. S \subseteq here' \cup carried'
  BY DEF RemoteInv
<1>8. here' \subseteq Peers /\ run \in joined
  BY DEF RemoteInv, RemoteTypes
<1>9. C!Streams(S, R)
  OBVIOUS
<1> HIDE DEF S, R
<1>10. RemoteInv'
  BY <1>2, <1>3, <1>5, <1>6, <1>7, <1>8, <1>9, Streamed
<1> QED
  BY <1>1, <1>10

LEMMA UnsubscribedStep ==
  ASSUME MaxRuns \in Nat, RoomInv, NEW q \in Peers, NEW k \in C!Kinds,
         C!TrackUnsubscribed(q, k)
  PROVE  RoomInv'
<1> USE DEF C!TrackUnsubscribed, RoomInv
<1>1. MediaInv'
  BY Alone
<1>2. UNCHANGED <<group, run, joined>>
  BY DEF C!alone, C!media
<1> DEFINE R == [tracks EXCEPT ![q] = @ \ {k}]
<1>3. tiles \in SUBSET Peers /\ R \in [Peers -> SUBSET C!Kinds]
  BY DEF RemoteInv, RemoteTypes
<1>4. \A o \in Peers : R[o] \subseteq tracks[o]
  BY DEF RemoteInv, RemoteTypes
<1>5. \A o \in Peers : R[o] # {} => o \in tiles
  BY <1>4 DEF RemoteInv, PeerHeld
<1>6. ASSUME NEW o \in Peers, group /\ spatial /\ "audio" \in R[o] /\ graph[o] = "dead"
      PROVE  o \in renewed'
  BY <1>4, <1>6 DEF RemoteInv, PeerHeld
<1>7. tiles \subseteq here' \cup carried' /\ (run \notin joined => tiles \subseteq carried')
  BY DEF RemoteInv
<1>8. here' \subseteq Peers
  BY DEF RemoteInv, RemoteTypes
<1>9. C!Streams(tiles, R)
  OBVIOUS
<1> HIDE DEF R
<1>10. RemoteInv'
  BY <1>2, <1>3, <1>5, <1>6, <1>7, <1>8, <1>9, Streamed
<1> QED
  BY <1>1, <1>10

LEMMA PeerLeavesStep ==
  ASSUME MaxRuns \in Nat, RoomInv, NEW q \in Peers, C!PeerLeaves(q)
  PROVE  RoomInv'
<1>1. here' = here \ {q} /\ here' \subseteq Peers
  BY DEF C!PeerLeaves, RoomInv, RemoteInv, RemoteTypes
<1>2. CASE run \notin joined
  <2>1. UNCHANGED <<C!alone, status, tiles, tracks, spatial, graph, carried, renewed>>
    BY <1>2 DEF C!PeerLeaves
  <2>2. MediaInv'
    BY <2>1, Alone DEF RoomInv
  <2>3. UNCHANGED <<group, run, joined>>
    BY <2>1 DEF C!alone, C!media
  <2>4. RemoteInv'
    BY <1>1, <1>2, <2>1, <2>3 DEF RoomInv, RemoteInv, RemoteTypes, PeerHeld
  <2> QED
    BY <2>2, <2>4 DEF RoomInv
<1>3. CASE run \in joined /\ group
  <2> DEFINE S == tiles \ {q}
             R == [tracks EXCEPT ![q] = {}]
  <2>1. C!Streams(S, R) /\ carried' = carried \ {q} /\ renewed' = renewed \ {q}
        /\ UNCHANGED <<C!alone, status, spatial>>
    BY <1>3 DEF C!PeerLeaves
  <2>2. MediaInv'
    BY <2>1, Alone DEF RoomInv
  <2>3. UNCHANGED <<group, run, joined, spatial>>
    BY <2>1 DEF C!alone, C!media
  <2>4. S \in SUBSET Peers /\ R \in [Peers -> SUBSET C!Kinds]
    BY DEF RoomInv, RemoteInv, RemoteTypes
  <2>5. \A o \in Peers : R[o] = IF o = q THEN {} ELSE tracks[o]
    BY DEF RoomInv, RemoteInv, RemoteTypes
  <2>6. \A o \in Peers : R[o] # {} => o \in S
    BY <2>5 DEF RoomInv, RemoteInv, PeerHeld
  <2>7. ASSUME NEW o \in Peers, group /\ spatial /\ "audio" \in R[o] /\ graph[o] = "dead"
        PROVE  o \in renewed'
    BY <2>1, <2>5, <2>7 DEF RoomInv, RemoteInv, PeerHeld
  <2>8. S \subseteq here' \cup carried'
    BY <1>1, <2>1 DEF RoomInv, RemoteInv
  <2> HIDE DEF S, R
  <2>9. RemoteInv'
    BY <1>1, <1>3, <2>1, <2>3, <2>4, <2>6, <2>7, <2>8, Streamed DEF RoomInv
  <2> QED
    BY <2>2, <2>9 DEF RoomInv
<1>4. CASE run \in joined /\ ~group
  <2>1. C!Closes
    BY <1>4 DEF C!PeerLeaves
  <2> QED
    BY <1>1, <2>1, CloseStep
<1> QED
  BY <1>2, <1>3, <1>4

LEMMA RoomStep ==
  ASSUME MaxRuns \in Nat, RoomInv, [C!Next]_(C!vars)
  PROVE  RoomInv'
<1>1. ASSUME NEW v \in BOOLEAN, C!OpenCall(v) \/ C!Rerun(v)
      PROVE  RoomInv'
  BY <1>1, OpenStep, RerunStep
<1>2. ASSUME NEW r \in C!Runs,
             C!Token(r) \/ C!Join(r) \/ C!Microphone(r) \/ C!Publish(r) \/ C!Process(r)
             \/ C!Camera(r) \/ C!Fails(r)
      PROVE  RoomInv'
  <2>1. MediaInv'
    BY <1>2, TokenStep, JoinStep, MicrophoneStep, PublishStep, ProcessStepped, CameraStep,
       FailsStep DEF RoomInv
  <2>2. UNCHANGED <<group, run, C!remote>> /\ joined \subseteq joined'
    BY <1>2 DEF C!Token, C!Join, C!Microphone, C!Publish, C!Process, C!Camera, C!Fails,
       C!kept, C!media
  <2>3. RemoteInv'
    BY <2>2, RemoteKept DEF RoomInv
  <2> QED
    BY <2>1, <2>3 DEF RoomInv
<1>3. CASE C!HungUp
  BY <1>3, CloseStep DEF C!HungUp, RoomInv, RemoteInv, RemoteTypes
<1>4. CASE UNCHANGED C!vars
  <2>1. C!alone' = C!alone /\ status' = status /\ UNCHANGED <<group, C!remote, run, joined>>
    BY <1>4 DEF C!vars, C!alone, C!remote, C!media, C!screen, C!refs, C!excuses
  <2> QED
    BY <2>1, Alone, RemoteKept DEF RoomInv
<1> QED
  BY <1>1, <1>2, <1>3, <1>4, HangUpStep, DroppedStep, MuteStep, SpatialStep, PeerJoinsStep,
     PeerLeavesStep, SubscribedStep, UnsubscribedStep DEF C!Next

-----------------------------------------------------------------------------
(* Ringing.                                                                *)

Signal == [from : there, type : {"invite", "cancel", "accept", "decline"}]

MailTypes ==
  /\ there \subseteq Callers
  /\ inbox \in [Callers -> Seq(Signal)]
  /\ \A p \in there : \A i \in DOMAIN inbox[p] : inbox[p][i].from # p

RingTypes ==
  /\ MailTypes
  /\ toast \in [Callers -> there \cup {G!None}]
  /\ toastTimer \in [Callers -> BOOLEAN] /\ ringTimer \in [Callers -> BOOLEAN]
  /\ ringing \in [Callers -> BOOLEAN] /\ active \in [Callers -> BOOLEAN]
  /\ declined \in [Callers -> SUBSET there]
  /\ \A p \in there : toast[p] # p
  /\ \A p \in Callers \ there : toast[p] = G!None /\ ~ringing[p] /\ ~active[p]

\* Is a signal of that type from p on its way to q?
Coming(p, type, q) ==
  \E i \in DOMAIN inbox[q] : inbox[q][i].from = p /\ inbox[q][i].type = type

\* While c rings and p has heard it, p shows it, or answers it.
RingKnown(c, p) ==
  ringing[c] /\ <<c, p>> \notin unheard =>
    /\ ~Coming(c, "cancel", p)
    /\ toast[p] = c \/ p \in declined[c] \/ Coming(c, "invite", p) \/ Coming(p, "decline", c)

Excused(c, p) == ringing[c] \/ c \in silent \/ <<c, p>> \in unheard

\* The cancel of c is behind every invite that p has not yet handled.
Ends(c, p) ==
  \A i \in DOMAIN inbox[p] :
    inbox[p][i].from = c /\ inbox[p][i].type = "invite" =>
      \E j \in DOMAIN inbox[p] :
        i < j /\ inbox[p][j].from = c /\ inbox[p][j].type = "cancel"

\* Once the ring of c is over p is told of it.
EndKnown(c, p) ==
  ~Excused(c, p) => (toast[p] = c => Coming(c, "cancel", p)) /\ Ends(c, p)

\* TimersBelong.
TimersHeld ==
  \A p \in Callers :
    /\ ringTimer[p] => ringing[p]
    /\ toastTimer[p] => toast[p] # G!None
    /\ ringing[p] => ringTimer[p] \/ <<p, "ring">> \in stranded
    /\ toast[p] # G!None => toastTimer[p] \/ <<p, "toast">> \in stranded

AloneIn(p) == active[p] /\ \A q \in there : q # p => ~active[q]

\* Who sits in the call alone has accepted a ring that is told of it.
Awaited ==
  \A p \in there \ parted :
    AloneIn(p) => \E c \in there : c # p /\ ringing[c] /\ Coming(p, "accept", c)

RingInv ==
  /\ RingTypes /\ TimersHeld
  /\ \A c \in there, p \in there : c # p => RingKnown(c, p) /\ EndKnown(c, p)
  /\ Awaited

\* A signal is sent: it is the last one at those who get it.
LEMMA Sent ==
  ASSUME MailTypes, there' = there, NEW p \in there,
         NEW type \in {"invite", "cancel", "accept", "decline"},
         NEW got \in SUBSET (there \ {p}), G!Send(p, type, got)
  PROVE  /\ MailTypes'
         /\ \A q \in there, c \in there, t \in {"invite", "cancel", "accept", "decline"} :
              Coming(c, t, q)' <=> Coming(c, t, q) \/ (c = p /\ t = type /\ q \in got)
         /\ \A q \in there, c \in there :
              /\ Ends(c, q) /\ (c # p \/ type # "invite") => Ends(c, q)'
              /\ c = p /\ type = "cancel" /\ q \in got => Ends(c, q)'
<1> DEFINE m == [from |-> p, type |-> type]
<1>1. m \in Signal /\ m.from = p /\ m.type = type
  BY DEF Signal
<1>2. inbox' \in [Callers -> Seq(Signal)]
      /\ \A q \in Callers : inbox'[q] = IF q \in got THEN Append(inbox[q], m) ELSE inbox[q]
  <2>1. \A q \in Callers : inbox[q] \in Seq(Signal) /\ Append(inbox[q], m) \in Seq(Signal)
    BY <1>1, AppendProperties DEF MailTypes
  <2>2. inbox' = [q \in Callers |-> IF q \in got THEN Append(inbox[q], m) ELSE inbox[q]]
    BY DEF G!Send
  <2> HIDE DEF m
  <2> QED
    BY <2>1, <2>2
<1> HIDE DEF m
<1>3. ASSUME NEW q \in there, q \in got
      PROVE  \E n \in Nat : /\ DOMAIN inbox[q] = 1..n /\ DOMAIN inbox'[q] = 1..(n + 1)
                            /\ \A i \in 1..n : inbox'[q][i] = inbox[q][i]
                            /\ inbox'[q][n + 1] = m
  <2>1. inbox[q] \in Seq(Signal) /\ inbox'[q] = Append(inbox[q], m)
    BY <1>2, <1>3 DEF MailTypes
  <2>2. PICK n \in Nat : n = Len(inbox[q]) /\ DOMAIN inbox[q] = 1..n
    BY <2>1, LenProperties
  <2>3. /\ Append(inbox[q], m) \in Seq(Signal) /\ Len(Append(inbox[q], m)) = n + 1
        /\ \A i \in 1..n : Append(inbox[q], m)[i] = inbox[q][i]
        /\ Append(inbox[q], m)[n + 1] = m
    BY <1>1, <2>1, <2>2, AppendProperties
  <2>4. DOMAIN Append(inbox[q], m) = 1..(n + 1)
    BY <2>3, LenProperties
  <2> QED
    BY <2>1, <2>2, <2>3, <2>4
<1>4. ASSUME NEW q \in there, q \notin got
      PROVE  inbox'[q] = inbox[q]
  BY <1>2, <1>4 DEF MailTypes
<1>5. MailTypes'
  <2>1. Signal' = Signal
    BY DEF Signal
  <2>2. ASSUME NEW q \in there, NEW i \in DOMAIN inbox'[q]
        PROVE  inbox'[q][i].from # q
    <3>1. CASE q \in got
      <4>1. PICK n \in Nat : /\ DOMAIN inbox[q] = 1..n /\ DOMAIN inbox'[q] = 1..(n + 1)
                             /\ \A j \in 1..n : inbox'[q][j] = inbox[q][j]
                             /\ inbox'[q][n + 1] = m
        BY <1>3, <3>1
      <4>2. CASE i = n + 1
        BY <1>1, <3>1, <4>1, <4>2
      <4>3. CASE i # n + 1
        <5>1. i \in 1..n
          BY <2>2, <4>1, <4>3
        <5> QED
          BY <4>1, <5>1 DEF MailTypes
      <4> QED
        BY <4>2, <4>3
    <3>2. CASE q \notin got
      BY <1>4, <3>2 DEF MailTypes
    <3> QED
      BY <3>1, <3>2
  <2> QED
    BY <1>2, <2>1, <2>2 DEF MailTypes
<1>6. ASSUME NEW q \in there, NEW c \in there, NEW t \in {"invite", "cancel", "accept", "decline"}
      PROVE  Coming(c, t, q)' <=> Coming(c, t, q) \/ (c = p /\ t = type /\ q \in got)
  <2>1. CASE q \in got
    <3>1. PICK n \in Nat : /\ DOMAIN inbox[q] = 1..n /\ DOMAIN inbox'[q] = 1..(n + 1)
                           /\ \A j \in 1..n : inbox'[q][j] = inbox[q][j]
                           /\ inbox'[q][n + 1] = m
      BY <1>3, <2>1
    <3>2. Coming(c, t, q)' <=> \E i \in 1..(n + 1) : inbox'[q][i].from = c /\ inbox'[q][i].type = t
      BY <3>1 DEF Coming
    <3>3. Coming(c, t, q) <=> \E i \in 1..n : inbox[q][i].from = c /\ inbox[q][i].type = t
      BY <3>1 DEF Coming
    <3>4. \A i : i \in 1..(n + 1) <=> i \in 1..n \/ i = n + 1
      OBVIOUS
    <3>5. Coming(c, t, q)' <=> (\E i \in 1..n : inbox[q][i].from = c /\ inbox[q][i].type = t)
                              \/ (m.from = c /\ m.type = t)
      BY <3>1, <3>2, <3>4
    <3> QED
      BY <1>1, <2>1, <3>3, <3>5
  <2>2. CASE q \notin got
    BY <1>4, <2>2 DEF Coming
  <2> QED
    BY <2>1, <2>2
<1>7. ASSUME NEW q \in there, NEW c \in there,
             \/ Ends(c, q) /\ (c # p \/ type # "invite")
             \/ c = p /\ type = "cancel" /\ q \in got
      PROVE  Ends(c, q)'
  <2>1. CASE q \in got
    <3>1. PICK n \in Nat : /\ DOMAIN inbox[q] = 1..n /\ DOMAIN inbox'[q] = 1..(n + 1)
                           /\ \A j \in 1..n : inbox'[q][j] = inbox[q][j]
                           /\ inbox'[q][n + 1] = m
      BY <1>3, <2>1
    <3>2. SUFFICES ASSUME NEW i \in 1..(n + 1), inbox'[q][i].from = c, inbox'[q][i].type = "invite"
                   PROVE  \E j \in 1..(n + 1) : i < j /\ inbox'[q][j].from = c
                                               /\ inbox'[q][j].type = "cancel"
      BY <3>1 DEF Ends
    <3>3. i \in 1..n
      BY <1>1, <1>7, <3>1, <3>2
    <3>4. CASE Ends(c, q)
      <4>1. inbox[q][i].from = c /\ inbox[q][i].type = "invite"
        BY <3>1, <3>2, <3>3
      <4>2. PICK j \in 1..n : i < j /\ inbox[q][j].from = c /\ inbox[q][j].type = "cancel"
        BY <3>1, <3>3, <3>4, <4>1 DEF Ends
      <4>3. j \in 1..(n + 1)
        OBVIOUS
      <4> QED
        BY <3>1, <4>2, <4>3
    <3>5. CASE c = p /\ type = "cancel"
      <4>1. n + 1 \in 1..(n + 1) /\ i < n + 1
        BY <3>3
      <4> QED
        BY <1>1, <3>1, <3>5, <4>1
    <3> QED
      BY <1>7, <3>4, <3>5
  <2>2. CASE q \notin got
    BY <1>4, <1>7, <2>2 DEF Ends
  <2> QED
    BY <2>1, <2>2
<1> QED
  BY <1>5, <1>6, <1>7

\* The first signal of a sender is taken out.
Takes(p, i) ==
  /\ i \in DOMAIN inbox[p]
  /\ inbox' = [inbox EXCEPT ![p] = G!RemoveAt(@, i)]
  /\ \A j \in 1..(i - 1) : inbox[p][j].from # inbox[p][i].from

LEMMA Taken ==
  ASSUME MailTypes, there' = there, NEW p \in there, NEW i, Takes(p, i)
  PROVE  /\ MailTypes'
         /\ inbox[p][i] \in Signal /\ inbox[p][i].from # p
         /\ Coming(inbox[p][i].from, inbox[p][i].type, p)
         /\ \A q \in there, c \in there, t \in {"invite", "cancel", "accept", "decline"} :
              /\ Coming(c, t, q)' => Coming(c, t, q)
              /\ Coming(c, t, q) /\ (q # p \/ c # inbox[p][i].from \/ t # inbox[p][i].type) =>
                   Coming(c, t, q)'
         /\ \A q \in there, c \in there : Ends(c, q) => Ends(c, q)'
         /\ \A c \in there :
              c = inbox[p][i].from /\ inbox[p][i].type = "invite" /\ Ends(c, p) =>
                Coming(c, "cancel", p)'
<1>1. inbox[p] \in Seq(Signal)
  BY DEF MailTypes
<1>2. PICK n \in Nat : n = Len(inbox[p]) /\ DOMAIN inbox[p] = 1..n /\ i \in 1..n
  BY <1>1, LenProperties DEF Takes
<1> DEFINE r == G!RemoveAt(inbox[p], i)
<1>3. /\ r \in Seq(Signal) /\ Len(r) = n - 1
      /\ \A j \in 1..(n - 1) : r[j] = IF j < i THEN inbox[p][j] ELSE inbox[p][j + 1]
  <2>1. r = Without(inbox[p], i) /\ i \in 1..Len(inbox[p])
    BY <1>2 DEF G!RemoveAt, Without
  <2> HIDE DEF r
  <2>2. /\ r \in Seq(Signal) /\ Len(r) = Len(inbox[p]) - 1
        /\ \A j \in 1..(Len(inbox[p]) - 1) : r[j] = IF j < i THEN inbox[p][j] ELSE inbox[p][j + 1]
    BY <1>1, <2>1, Removed
  <2> QED
    BY <1>2, <2>2
<1>4. inbox' = [inbox EXCEPT ![p] = r]
  BY DEF Takes
<1> HIDE DEF r
<1>5. DOMAIN r = 1..(n - 1)
  BY <1>2, <1>3, LenProperties
<1>6. /\ inbox' \in [Callers -> Seq(Signal)] /\ inbox'[p] = r
      /\ \A q \in there : q # p => inbox'[q] = inbox[q]
  BY <1>3, <1>4 DEF MailTypes
<1>7. ASSUME NEW j \in 1..(n - 1)
      PROVE  \E k \in 1..n : r[j] = inbox[p][k]
  <2>1. j \in 1..n /\ j + 1 \in 1..n
    BY <1>2
  <2> QED
    BY <1>3, <2>1
\* Where the k-th signal has gone.
<1>8. ASSUME NEW k \in 1..n, k # i
      PROVE  /\ (IF k < i THEN k ELSE k - 1) \in 1..(n - 1)
             /\ r[IF k < i THEN k ELSE k - 1] = inbox[p][k]
  <2>1. CASE k < i
    BY <1>2, <1>3, <2>1
  <2>2. CASE ~(k < i)
    <3>1. k - 1 \in 1..(n - 1) /\ ~(k - 1 < i) /\ (k - 1) + 1 = k
      BY <1>2, <1>8, <2>2
    <3> QED
      BY <1>3, <2>2, <3>1
  <2> QED
    BY <2>1, <2>2
<1>9. inbox[p][i] \in Signal /\ inbox[p][i].from # p
  BY <1>1, <1>2, ElementOfSeq DEF MailTypes
<1>10. Coming(inbox[p][i].from, inbox[p][i].type, p)
  BY <1>2 DEF Coming
<1>11. MailTypes'
  <2>1. Signal' = Signal
    BY DEF Signal
  <2>2. ASSUME NEW q \in there, NEW j \in DOMAIN inbox'[q]
        PROVE  inbox'[q][j].from # q
    <3>1. CASE q = p
      <4>1. PICK k \in 1..n : r[j] = inbox[p][k]
        BY <1>5, <1>6, <1>7, <2>2, <3>1
      <4> QED
        BY <1>2, <1>6, <3>1, <4>1 DEF MailTypes
    <3>2. CASE q # p
      BY <1>6, <2>2, <3>2 DEF MailTypes
    <3> QED
      BY <3>1, <3>2
  <2> QED
    BY <1>6, <2>1, <2>2 DEF MailTypes
<1>12. ASSUME NEW q \in there, NEW c \in there, NEW t \in {"invite", "cancel", "accept", "decline"}
       PROVE  /\ Coming(c, t, q)' => Coming(c, t, q)
              /\ Coming(c, t, q) /\ (q # p \/ c # inbox[p][i].from \/ t # inbox[p][i].type) =>
                   Coming(c, t, q)'
  <2>1. CASE q = p
    <3>1. Coming(c, t, p)' => Coming(c, t, p)
      <4>1. SUFFICES ASSUME NEW j \in 1..(n - 1), r[j].from = c, r[j].type = t
                     PROVE  \E k \in 1..n : inbox[p][k].from = c /\ inbox[p][k].type = t
        BY <1>2, <1>5, <1>6 DEF Coming
      <4> QED
        BY <1>7, <4>1
    <3>2. Coming(c, t, p) /\ (c # inbox[p][i].from \/ t # inbox[p][i].type) => Coming(c, t, p)'
      <4>1. SUFFICES ASSUME NEW k \in 1..n, inbox[p][k].from = c, inbox[p][k].type = t, k # i
                     PROVE  \E j \in 1..(n - 1) : r[j].from = c /\ r[j].type = t
        BY <1>2, <1>5, <1>6 DEF Coming
      <4> QED
        BY <1>8, <4>1
    <3> QED
      BY <2>1, <3>1, <3>2
  <2>2. CASE q # p
    BY <1>6, <2>2 DEF Coming
  <2> QED
    BY <2>1, <2>2
\* Behind an invite of c that stays, its cancel stays: the one taken out, were
\* it the cancel, would have overtaken the invite.
<1>13. ASSUME NEW q \in there, NEW c \in there, Ends(c, q)
       PROVE  Ends(c, q)'
  <2>1. CASE q = p
    <3>1. SUFFICES ASSUME NEW j \in 1..(n - 1), r[j].from = c, r[j].type = "invite"
                   PROVE  \E k \in 1..(n - 1) : j < k /\ r[k].from = c /\ r[k].type = "cancel"
      BY <1>5, <1>6, <2>1 DEF Ends
    <3> PICK o \in 1..n : o = IF j < i THEN j ELSE j + 1
      BY <1>2
    <3>2. inbox[p][o] = r[j] /\ o # i
      BY <1>2, <1>3
    <3>3. PICK k \in 1..n : o < k /\ inbox[p][k].from = c /\ inbox[p][k].type = "cancel"
      BY <1>2, <1>13, <2>1, <3>1, <3>2 DEF Ends
    <3>4. k # i
      <4>1. SUFFICES ASSUME k = i
                     PROVE  FALSE
        OBVIOUS
      <4>2. o \in 1..(i - 1)
        BY <1>2, <3>3, <4>1
      <4> QED
        BY <3>1, <3>2, <3>3, <4>1, <4>2 DEF Takes
    <3>5. j < IF k < i THEN k ELSE k - 1
      BY <1>2, <3>3, <3>4
    <3> QED
      BY <1>8, <3>3, <3>4, <3>5
  <2>2. CASE q # p
    BY <1>6, <1>13, <2>2 DEF Ends
  <2> QED
    BY <2>1, <2>2
<1>14. ASSUME NEW c \in there, c = inbox[p][i].from, inbox[p][i].type = "invite", Ends(c, p)
       PROVE  Coming(c, "cancel", p)'
  <2>1. PICK k \in 1..n : i < k /\ inbox[p][k].from = c /\ inbox[p][k].type = "cancel"
    BY <1>2, <1>14 DEF Ends
  <2>2. PICK j \in 1..(n - 1) : r[j] = inbox[p][k]
    BY <1>2, <1>8, <2>1
  <2> QED
    BY <1>5, <1>6, <2>1, <2>2 DEF Coming
<1> QED
  BY <1>9, <1>10, <1>11, <1>12, <1>13, <1>14

\* Two signals of one sender are exchanged.
LEMMA Swapped ==
  ASSUME MailTypes, there' = there, NEW p \in there, NEW i, i \in DOMAIN inbox[p],
         G!Overtake(p, i)
  PROVE  /\ MailTypes'
         /\ \A q \in there, c \in there, t \in {"invite", "cancel", "accept", "decline"} : Coming(c, t, q)' <=> Coming(c, t, q)
         /\ \A q \in there, c \in there :
              Ends(c, q) /\ (q # p \/ c # inbox[p][i].from) => Ends(c, q)'
<1>1. inbox[p] \in Seq(Signal)
  BY DEF MailTypes
<1>2. PICK n \in Nat : n = Len(inbox[p]) /\ DOMAIN inbox[p] = 1..n
  BY <1>1, LenProperties
<1>3. i \in 1..n /\ i + 1 \in 1..n /\ inbox[p][i].from = inbox[p][i + 1].from
  BY <1>2 DEF G!Overtake
<1> DEFINE a == inbox[p][i]
           b == inbox[p][i + 1]
           r == [inbox[p] EXCEPT ![i] = b, ![i + 1] = a]
<1>4. a \in Signal /\ b \in Signal
  BY <1>1, <1>2, <1>3, ElementOfSeq
<1>5. inbox[p] \in [1..n -> Signal]
  BY <1>1, <1>2, ElementOfSeq, LenProperties
<1>6. r \in [1..n -> Signal] /\ r[i] = b /\ r[i + 1] = a
      /\ \A j \in 1..n : j # i /\ j # i + 1 => r[j] = inbox[p][j]
  BY <1>3, <1>4, <1>5
<1>7. inbox' = [inbox EXCEPT ![p] = r]
  BY DEF G!Overtake
<1> HIDE DEF a, b, r
<1>8. r \in Seq(Signal) /\ DOMAIN r = 1..n
  BY <1>6, SeqDef
<1>9. /\ inbox' \in [Callers -> Seq(Signal)] /\ inbox'[p] = r
      /\ \A q \in there : q # p => inbox'[q] = inbox[q]
  BY <1>7, <1>8 DEF MailTypes
<1>10. \A j \in 1..n : \E k \in 1..n : r[j] = inbox[p][k]
  BY <1>3, <1>6 DEF a, b
<1>11. \A j \in 1..n : \E k \in 1..n : inbox[p][j] = r[k]
  BY <1>3, <1>6 DEF a, b
<1>12. MailTypes'
  <2>1. Signal' = Signal
    BY DEF Signal
  <2>2. ASSUME NEW q \in there, NEW j \in DOMAIN inbox'[q]
        PROVE  inbox'[q][j].from # q
    <3>1. CASE q = p
      <4>1. PICK k \in 1..n : r[j] = inbox[p][k]
        BY <1>8, <1>9, <1>10, <2>2, <3>1
      <4> QED
        BY <1>2, <1>9, <3>1, <4>1 DEF MailTypes
    <3>2. CASE q # p
      BY <1>9, <2>2, <3>2 DEF MailTypes
    <3> QED
      BY <3>1, <3>2
  <2> QED
    BY <1>9, <2>1, <2>2 DEF MailTypes
<1>13. ASSUME NEW q \in there, NEW c \in there, NEW t \in {"invite", "cancel", "accept", "decline"}
       PROVE  Coming(c, t, q)' <=> Coming(c, t, q)
  <2>1. CASE q = p
    <3>1. Coming(c, t, q)' <=> \E j \in 1..n : r[j].from = c /\ r[j].type = t
      BY <1>8, <1>9, <2>1 DEF Coming
    <3>2. Coming(c, t, q) <=> \E j \in 1..n : inbox[p][j].from = c /\ inbox[p][j].type = t
      BY <1>2, <2>1 DEF Coming
    <3>3. (\E j \in 1..n : r[j].from = c /\ r[j].type = t) =>
            \E j \in 1..n : inbox[p][j].from = c /\ inbox[p][j].type = t
      BY <1>10
    <3>4. (\E j \in 1..n : inbox[p][j].from = c /\ inbox[p][j].type = t) =>
            \E j \in 1..n : r[j].from = c /\ r[j].type = t
      BY <1>11
    <3> QED
      BY <3>1, <3>2, <3>3, <3>4
  <2>2. CASE q # p
    BY <1>9, <2>2 DEF Coming
  <2> QED
    BY <2>1, <2>2
<1>14. ASSUME NEW q \in there, NEW c \in there, Ends(c, q), q # p \/ c # inbox[p][i].from
       PROVE  Ends(c, q)'
  <2>1. CASE q = p
    <3>1. SUFFICES ASSUME NEW j \in 1..n, r[j].from = c, r[j].type = "invite"
                   PROVE  \E k \in 1..n : j < k /\ r[k].from = c /\ r[k].type = "cancel"
      BY <1>8, <1>9, <2>1 DEF Ends
    <3>2. j # i /\ j # i + 1
      BY <1>3, <1>6, <1>14, <2>1, <3>1 DEF a, b
    <3>3. PICK k \in 1..n : j < k /\ inbox[p][k].from = c /\ inbox[p][k].type = "cancel"
      BY <1>2, <1>6, <1>14, <2>1, <3>1, <3>2 DEF Ends
    <3>4. k # i /\ k # i + 1
      BY <1>3, <1>14, <2>1, <3>3
    <3> QED
      BY <1>6, <3>3, <3>4
  <2>2. CASE q # p
    BY <1>9, <1>14, <2>2 DEF Ends
  <2> QED
    BY <2>1, <2>2
<1> QED
  BY <1>12, <1>13, <1>14

LEMMA StartStep ==
  ASSUME RingInv, there' = there, NEW p \in there, G!StartCall(p)
  PROVE  RingInv'
<1> PICK got \in SUBSET (there \ {p}) :
         /\ G!Send(p, "invite", got)
         /\ unheard' = (unheard \ ({p} \X got)) \cup ({p} \X (((there \ {p}) \ got) \cup G!Behind(p)))
  BY DEF G!StartCall, G!Others
<1>1. /\ ringing' = [ringing EXCEPT ![p] = TRUE] /\ ringTimer' = [ringTimer EXCEPT ![p] = TRUE]
      /\ declined' = [declined EXCEPT ![p] = {}]
      /\ silent' = silent \ {p} /\ stranded' = stranded \ {<<p, "ring">>}
      /\ UNCHANGED <<toast, toastTimer, active, parted>>
  BY DEF G!StartCall, G!incoming
<1>2. MailTypes
  BY DEF RingInv, RingTypes
<1>3. /\ MailTypes'
      /\ \A q \in there, c \in there, t \in {"invite", "cancel", "accept", "decline"} :
           Coming(c, t, q)' <=> Coming(c, t, q) \/ (c = p /\ t = "invite" /\ q \in got)
      /\ \A q \in there, c \in there : Ends(c, q) /\ c # p => Ends(c, q)'
  BY <1>2, Sent
<1>4. /\ \A q \in Callers : ringing'[q] = IF q = p THEN TRUE ELSE ringing[q]
      /\ \A q \in Callers : ringTimer'[q] = IF q = p THEN TRUE ELSE ringTimer[q]
      /\ \A q \in Callers : declined'[q] = IF q = p THEN {} ELSE declined[q]
      /\ there \subseteq Callers
  BY <1>1 DEF RingInv, RingTypes, MailTypes
<1>5. RingTypes'
  BY <1>1, <1>3, <1>4 DEF RingInv, RingTypes
<1>6. TimersHeld'
  BY <1>1, <1>4 DEF RingInv, TimersHeld
<1>7. ASSUME NEW c \in there, NEW q \in there, c # q
      PROVE  RingKnown(c, q)' /\ EndKnown(c, q)'
  <2>1. CASE c = p
    <3>1. ASSUME <<c, q>> \notin unheard'
          PROVE  q \in got /\ q \notin G!Behind(p)
      BY <1>7, <2>1, <3>1
    <3>2. q \notin G!Behind(p) => ~Coming(c, "cancel", q)
      BY <1>7, <2>1 DEF G!Behind, G!Others, Coming
    <3>3. RingKnown(c, q)'
      BY <1>3, <2>1, <3>1, <3>2 DEF RingKnown
    <3>4. EndKnown(c, q)'
      BY <1>4, <2>1 DEF EndKnown, Excused
    <3> QED
      BY <3>3, <3>4
  <2>2. CASE c # p
    <3>1. RingKnown(c, q) /\ EndKnown(c, q)
      BY <1>7 DEF RingInv
    <3>2. (<<c, q>> \in unheard' <=> <<c, q>> \in unheard) /\ (c \in silent' <=> c \in silent)
      BY <1>1, <2>2
    <3>3. RingKnown(c, q)'
      BY <1>1, <1>3, <1>4, <2>2, <3>1, <3>2 DEF RingKnown
    <3>4. EndKnown(c, q)'
      BY <1>1, <1>3, <1>4, <2>2, <3>1, <3>2 DEF EndKnown, Excused
    <3> QED
      BY <3>3, <3>4
  <2> QED
    BY <2>1, <2>2
<1>8. Awaited'
  BY <1>1, <1>3, <1>4 DEF RingInv, Awaited, AloneIn
<1> QED
  BY <1>5, <1>6, <1>7, <1>8 DEF RingInv

LEMMA GiveUpStep ==
  ASSUME RingInv, there' = there, NEW p \in there, G!GiveUp(p)
  PROVE  RingInv'
<1> PICK got \in SUBSET (there \ {p}) :
         /\ G!Send(p, "cancel", got)
         /\ unheard' = unheard \cup G!Lost(p, got)
  BY DEF G!GiveUp, G!Others
<1>1. /\ ringing' = [ringing EXCEPT ![p] = FALSE] /\ ringTimer' = [ringTimer EXCEPT ![p] = FALSE]
      /\ declined' = [declined EXCEPT ![p] = {}]
      /\ parted' = parted \cup G!InCall
      /\ UNCHANGED <<toast, toastTimer, active, silent, stranded>>
  BY DEF G!GiveUp, G!StopRinging, G!incoming
<1>2. MailTypes
  BY DEF RingInv, RingTypes
<1>3. /\ MailTypes'
      /\ \A q \in there, c \in there, t \in {"invite", "cancel", "accept", "decline"} :
           Coming(c, t, q)' <=> Coming(c, t, q) \/ (c = p /\ t = "cancel" /\ q \in got)
      /\ \A q \in there, c \in there :
           /\ Ends(c, q) => Ends(c, q)'
           /\ c = p /\ q \in got => Ends(c, q)'
  BY <1>2, Sent
<1>4. /\ \A q \in Callers : ringing'[q] = IF q = p THEN FALSE ELSE ringing[q]
      /\ \A q \in Callers : ringTimer'[q] = IF q = p THEN FALSE ELSE ringTimer[q]
      /\ \A q \in Callers : declined'[q] = IF q = p THEN {} ELSE declined[q]
      /\ there \subseteq Callers
  BY <1>1 DEF RingInv, RingTypes, MailTypes
<1>5. RingTypes'
  BY <1>1, <1>3, <1>4 DEF RingInv, RingTypes
<1>6. TimersHeld'
  BY <1>1, <1>4 DEF RingInv, TimersHeld
<1>7. ASSUME NEW c \in there, NEW q \in there, c # q
      PROVE  RingKnown(c, q)' /\ EndKnown(c, q)'
  <2>1. RingKnown(c, q) /\ EndKnown(c, q)
    BY <1>7 DEF RingInv
  <2>2. <<c, q>> \in unheard => <<c, q>> \in unheard'
    OBVIOUS
  <2>3. CASE c = p
    <3>1. <<c, q>> \notin unheard' => q \in got
      BY <1>7, <2>3 DEF G!Lost, G!Others, G!Pairs
    <3>2. RingKnown(c, q)'
      BY <1>4, <2>3 DEF RingKnown
    <3>3. EndKnown(c, q)'
      BY <1>3, <2>3, <3>1 DEF EndKnown, Excused
    <3> QED
      BY <3>2, <3>3
  <2>4. CASE c # p
    <3>1. RingKnown(c, q)'
      BY <1>1, <1>3, <1>4, <2>1, <2>2, <2>4 DEF RingKnown
    <3>2. EndKnown(c, q)'
      BY <1>1, <1>3, <1>4, <2>1, <2>2, <2>4 DEF EndKnown, Excused
    <3> QED
      BY <3>1, <3>2
  <2> QED
    BY <2>3, <2>4
<1>8. Awaited'
  BY <1>1 DEF Awaited, AloneIn, G!InCall
<1> QED
  BY <1>5, <1>6, <1>7, <1>8 DEF RingInv

LEMMA AcceptStep ==
  ASSUME G!None \notin Callers, RingInv, there' = there, NEW p \in there, G!AcceptCall(p)
  PROVE  RingInv'
<1> DEFINE o == toast[p]
<1> PICK got \in SUBSET (there \ {p}) :
         /\ G!Send(p, "accept", got)
         /\ unheard' = unheard \cup G!Lost(p, got) \cup {<<o, p>>}
         /\ parted' = IF G!InCall # {} \/ (ringing[o] /\ o \in got)
                      THEN parted \ {p} ELSE parted \cup {p}
  BY DEF G!AcceptCall, G!Others
<1>1. /\ toast' = [toast EXCEPT ![p] = G!None] /\ toastTimer' = [toastTimer EXCEPT ![p] = FALSE]
      /\ active' = [active EXCEPT ![p] = TRUE] /\ ~active[p] /\ o # G!None
      /\ UNCHANGED <<ringing, ringTimer, declined, silent, stranded>>
  BY DEF G!AcceptCall, G!ClearIncoming, G!outgoing, G!Answerable
<1>2. MailTypes /\ o \in there /\ o # p
  BY <1>1 DEF RingInv, RingTypes, MailTypes
<1> HIDE DEF o
<1>3. /\ MailTypes'
      /\ \A q \in there, c \in there, t \in {"invite", "cancel", "accept", "decline"} :
           Coming(c, t, q)' <=> Coming(c, t, q) \/ (c = p /\ t = "accept" /\ q \in got)
      /\ \A q \in there, c \in there : Ends(c, q) => Ends(c, q)'
  BY <1>2, Sent
<1>4. /\ \A q \in Callers : toast'[q] = IF q = p THEN G!None ELSE toast[q]
      /\ \A q \in Callers : toastTimer'[q] = IF q = p THEN FALSE ELSE toastTimer[q]
      /\ \A q \in Callers : active'[q] = IF q = p THEN TRUE ELSE active[q]
      /\ there \subseteq Callers
  BY <1>1 DEF RingInv, RingTypes, MailTypes
<1>5. RingTypes'
  BY <1>1, <1>3, <1>4 DEF RingInv, RingTypes
<1>6. TimersHeld'
  <2>1. ASSUME NEW q \in Callers
        PROVE  /\ toastTimer'[q] => toast'[q] # G!None
               /\ toast'[q] # G!None => toastTimer'[q] \/ <<q, "toast">> \in stranded'
    <3>1. CASE q = p
      BY <1>4, <3>1
    <3>2. CASE q # p
      <4>1. UNCHANGED <<toast[q], toastTimer[q], stranded>>
        BY <1>1, <1>4, <3>2
      <4> QED
        BY <4>1 DEF RingInv, TimersHeld
    <3> QED
      BY <3>1, <3>2
  <2>2. UNCHANGED <<ringing, ringTimer, stranded>>
    BY <1>1
  <2> QED
    BY <2>1, <2>2 DEF RingInv, TimersHeld
<1>7. ASSUME NEW c \in there, NEW q \in there, c # q
      PROVE  RingKnown(c, q)' /\ EndKnown(c, q)'
  <2>1. RingKnown(c, q) /\ EndKnown(c, q)
    BY <1>7 DEF RingInv
  <2>2. <<c, q>> \notin unheard' => <<c, q>> \notin unheard /\ (q = p => toast[p] # c)
    BY DEF o
  <2>3. q \in Callers /\ c \in Callers /\ c # G!None
    BY <1>4
  <2>4. <<c, q>> \notin unheard' => (toast'[q] = c <=> toast[q] = c)
    BY <1>4, <2>2, <2>3
  <2>5. RingKnown(c, q)'
    BY <1>1, <1>3, <2>1, <2>2, <2>4 DEF RingKnown
  <2>6. EndKnown(c, q)'
    BY <1>1, <1>3, <2>1, <2>2, <2>4 DEF EndKnown, Excused
  <2> QED
    BY <2>5, <2>6
<1>8. Awaited'
  <2> SUFFICES ASSUME NEW q \in there, q \notin parted', AloneIn(q)'
               PROVE  \E c \in there : c # q /\ ringing'[c] /\ Coming(q, "accept", c)'
    BY DEF Awaited
  <2>1. q = p /\ \A c \in there : ~active[c]
    BY <1>1, <1>4 DEF AloneIn
  <2>2. G!InCall = {}
    BY <2>1 DEF G!InCall
  <2>3. ringing[o] /\ o \in got
    BY <2>1, <2>2
  <2> QED
    BY <1>1, <1>2, <1>3, <2>1, <2>3
<1> QED
  BY <1>5, <1>6, <1>7, <1>8 DEF RingInv

LEMMA DeclineStep ==
  ASSUME G!None \notin Callers, RingInv, there' = there, NEW p \in there, G!DeclineCall(p)
  PROVE  RingInv'
<1> PICK got \in SUBSET (there \ {p}) :
         /\ G!Send(p, "decline", got)
         /\ unheard' = unheard \cup G!Lost(p, got)
  BY DEF G!DeclineCall, G!Others
<1>1. /\ toast' = [toast EXCEPT ![p] = G!None] /\ toastTimer' = [toastTimer EXCEPT ![p] = FALSE]
      /\ UNCHANGED <<ringing, ringTimer, declined, active, silent, parted, stranded>>
  BY DEF G!DeclineCall, G!ClearIncoming, G!outgoing
<1>2. MailTypes
  BY DEF RingInv, RingTypes
<1>3. /\ MailTypes'
      /\ \A q \in there, c \in there, t \in {"invite", "cancel", "accept", "decline"} :
           Coming(c, t, q)' <=> Coming(c, t, q) \/ (c = p /\ t = "decline" /\ q \in got)
      /\ \A q \in there, c \in there : Ends(c, q) => Ends(c, q)'
  BY <1>2, Sent
<1>4. /\ \A q \in Callers : toast'[q] = IF q = p THEN G!None ELSE toast[q]
      /\ \A q \in Callers : toastTimer'[q] = IF q = p THEN FALSE ELSE toastTimer[q]
      /\ there \subseteq Callers
  BY <1>1 DEF RingInv, RingTypes, MailTypes
<1>5. RingTypes'
  BY <1>1, <1>3, <1>4 DEF RingInv, RingTypes
<1>6. TimersHeld'
  <2>1. ASSUME NEW q \in Callers
        PROVE  /\ toastTimer'[q] => toast'[q] # G!None
               /\ toast'[q] # G!None => toastTimer'[q] \/ <<q, "toast">> \in stranded'
    <3>1. CASE q = p
      BY <1>4, <3>1
    <3>2. CASE q # p
      <4>1. UNCHANGED <<toast[q], toastTimer[q], stranded>>
        BY <1>1, <1>4, <3>2
      <4> QED
        BY <4>1 DEF RingInv, TimersHeld
    <3> QED
      BY <3>1, <3>2
  <2>2. UNCHANGED <<ringing, ringTimer, stranded>>
    BY <1>1
  <2> QED
    BY <2>1, <2>2 DEF RingInv, TimersHeld
<1>7. ASSUME NEW c \in there, NEW q \in there, c # q
      PROVE  RingKnown(c, q)' /\ EndKnown(c, q)'
  <2>1. RingKnown(c, q) /\ EndKnown(c, q)
    BY <1>7 DEF RingInv
  <2>2. <<c, q>> \notin unheard' => <<c, q>> \notin unheard /\ (q = p => c \in got)
    BY <1>7 DEF G!Lost, G!Others, G!Pairs
  <2>3. q \in Callers /\ c \in Callers /\ c # G!None
    BY <1>4
  <2>4. toast'[q] = c \/ q = p <=> toast[q] = c \/ q = p
    BY <1>4, <2>3
  <2>5. RingKnown(c, q)'
    BY <1>1, <1>3, <2>1, <2>2, <2>4 DEF RingKnown
  <2>6. toast'[q] = c => toast[q] = c
    BY <1>4, <2>3
  <2>7. EndKnown(c, q)'
    BY <1>1, <1>3, <2>1, <2>2, <2>6 DEF EndKnown, Excused
  <2> QED
    BY <2>5, <2>7
<1>8. Awaited'
  BY <1>1, <1>3 DEF RingInv, Awaited, AloneIn
<1> QED
  BY <1>5, <1>6, <1>7, <1>8 DEF RingInv

\* No signal is sent or handled.
LEMMA MailKept ==
  ASSUME MailTypes, there' = there, inbox' = inbox
  PROVE  /\ MailTypes'
         /\ \A q \in there, c \in there, t \in {"invite", "cancel", "accept", "decline"} :
              Coming(c, t, q)' <=> Coming(c, t, q)
         /\ \A q \in there, c \in there : Ends(c, q)' <=> Ends(c, q)
BY DEF MailTypes, Signal, Coming, Ends

LEMMA EndStep ==
  ASSUME RingInv, there' = there, NEW p \in there, G!EndCall(p)
  PROVE  RingInv'
<1>1. /\ active' = [active EXCEPT ![p] = FALSE] /\ parted' = parted \cup (there \ {p})
      /\ UNCHANGED <<toast, toastTimer, ringing, ringTimer, declined, inbox, unheard, silent,
                     stranded>>
  BY DEF G!EndCall, G!incoming, G!outgoing, G!Others
<1>2. MailTypes
  BY DEF RingInv, RingTypes
<1>3. /\ MailTypes'
      /\ \A q \in there, c \in there, t \in {"invite", "cancel", "accept", "decline"} :
           Coming(c, t, q)' <=> Coming(c, t, q)
      /\ \A q \in there, c \in there : Ends(c, q)' <=> Ends(c, q)
  BY <1>1, <1>2, MailKept
<1>4. /\ \A q \in Callers : active'[q] = IF q = p THEN FALSE ELSE active[q]
      /\ there \subseteq Callers
  BY <1>1 DEF RingInv, RingTypes, MailTypes
<1>5. RingTypes'
  BY <1>1, <1>3, <1>4 DEF RingInv, RingTypes
<1>6. TimersHeld'
  BY <1>1 DEF RingInv, TimersHeld
<1>7. ASSUME NEW c \in there, NEW q \in there, c # q
      PROVE  RingKnown(c, q)' /\ EndKnown(c, q)'
  <2>1. RingKnown(c, q) /\ EndKnown(c, q)
    BY <1>7 DEF RingInv
  <2> QED
    BY <1>1, <1>3, <2>1 DEF RingKnown, EndKnown, Excused
<1>8. Awaited'
  BY <1>1, <1>4 DEF Awaited, AloneIn
<1> QED
  BY <1>5, <1>6, <1>7, <1>8 DEF RingInv

LEMMA ToastTimeoutStep ==
  ASSUME G!None \notin Callers, RingInv, there' = there, NEW p \in there, G!ToastTimeout(p)
  PROVE  RingInv'
<1>1. /\ toast' = [toast EXCEPT ![p] = G!None] /\ toastTimer' = [toastTimer EXCEPT ![p] = FALSE]
      /\ unheard' = unheard \cup G!Pairs(toast[p], p)
      /\ UNCHANGED <<ringing, ringTimer, declined, active, inbox, silent, parted, stranded>>
  BY DEF G!ToastTimeout, G!ClearIncoming, G!outgoing
<1>2. MailTypes
  BY DEF RingInv, RingTypes
<1>3. /\ MailTypes'
      /\ \A q \in there, c \in there, t \in {"invite", "cancel", "accept", "decline"} :
           Coming(c, t, q)' <=> Coming(c, t, q)
      /\ \A q \in there, c \in there : Ends(c, q)' <=> Ends(c, q)
  BY <1>1, <1>2, MailKept
<1>4. /\ \A q \in Callers : toast'[q] = IF q = p THEN G!None ELSE toast[q]
      /\ \A q \in Callers : toastTimer'[q] = IF q = p THEN FALSE ELSE toastTimer[q]
      /\ there \subseteq Callers
  BY <1>1 DEF RingInv, RingTypes, MailTypes
<1>5. RingTypes'
  BY <1>1, <1>3, <1>4 DEF RingInv, RingTypes
<1>6. TimersHeld'
  <2>1. ASSUME NEW q \in Callers
        PROVE  /\ toastTimer'[q] => toast'[q] # G!None
               /\ toast'[q] # G!None => toastTimer'[q] \/ <<q, "toast">> \in stranded'
    <3>1. CASE q = p
      BY <1>4, <3>1
    <3>2. CASE q # p
      <4>1. UNCHANGED <<toast[q], toastTimer[q], stranded>>
        BY <1>1, <1>4, <3>2
      <4> QED
        BY <4>1 DEF RingInv, TimersHeld
    <3> QED
      BY <3>1, <3>2
  <2>2. UNCHANGED <<ringing, ringTimer, stranded>>
    BY <1>1
  <2> QED
    BY <2>1, <2>2 DEF RingInv, TimersHeld
<1>7. ASSUME NEW c \in there, NEW q \in there, c # q
      PROVE  RingKnown(c, q)' /\ EndKnown(c, q)'
  <2>1. RingKnown(c, q) /\ EndKnown(c, q)
    BY <1>7 DEF RingInv
  <2>2. <<c, q>> \notin unheard' => <<c, q>> \notin unheard /\ (q = p => toast[p] # c)
    BY <1>1 DEF G!Pairs
  <2>3. q \in Callers /\ c \in Callers /\ c # G!None
    BY <1>4
  <2>4. <<c, q>> \notin unheard' => (toast'[q] = c <=> toast[q] = c)
    BY <1>4, <2>2, <2>3
  <2>5. RingKnown(c, q)'
    BY <1>1, <1>3, <2>1, <2>2, <2>4 DEF RingKnown
  <2>6. EndKnown(c, q)'
    BY <1>1, <1>3, <2>1, <2>2, <2>4 DEF EndKnown, Excused
  <2> QED
    BY <2>5, <2>6
<1>8. Awaited'
  BY <1>1, <1>3 DEF RingInv, Awaited, AloneIn
<1> QED
  BY <1>5, <1>6, <1>7, <1>8 DEF RingInv

LEMMA RestartStep ==
  ASSUME RingInv, there' = there, NEW p \in there, G!Restart(p)
  PROVE  RingInv'
<1>1. /\ toastTimer' = [toastTimer EXCEPT ![p] = FALSE] /\ ringTimer' = [ringTimer EXCEPT ![p] = FALSE]
      /\ stranded' = stranded \cup {<<p, "ring">>, <<p, "toast">>}
      /\ UNCHANGED <<toast, ringing, declined, active, inbox, unheard, silent, parted>>
  BY DEF G!Restart
<1>2. MailTypes
  BY DEF RingInv, RingTypes
<1>3. /\ MailTypes'
      /\ \A q \in there, c \in there, t \in {"invite", "cancel", "accept", "decline"} :
           Coming(c, t, q)' <=> Coming(c, t, q)
      /\ \A q \in there, c \in there : Ends(c, q)' <=> Ends(c, q)
  BY <1>1, <1>2, MailKept
<1>4. /\ \A q \in Callers : toastTimer'[q] = IF q = p THEN FALSE ELSE toastTimer[q]
      /\ \A q \in Callers : ringTimer'[q] = IF q = p THEN FALSE ELSE ringTimer[q]
  BY <1>1 DEF RingInv, RingTypes
<1>5. RingTypes'
  BY <1>1, <1>3 DEF RingInv, RingTypes
<1>6. TimersHeld'
  BY <1>1, <1>4 DEF RingInv, TimersHeld
<1>7. ASSUME NEW c \in there, NEW q \in there, c # q
      PROVE  RingKnown(c, q)' /\ EndKnown(c, q)'
  <2>1. RingKnown(c, q) /\ EndKnown(c, q)
    BY <1>7 DEF RingInv
  <2> QED
    BY <1>1, <1>3, <2>1 DEF RingKnown, EndKnown, Excused
<1>8. Awaited'
  BY <1>1, <1>3 DEF RingInv, Awaited, AloneIn
<1> QED
  BY <1>5, <1>6, <1>7, <1>8 DEF RingInv

LEMMA LeaveStep ==
  ASSUME G!None \notin Callers, RingInv, there' = there, NEW p \in there, G!Leave(p)
  PROVE  RingInv'
<1>1. /\ toast' = [toast EXCEPT ![p] = G!None] /\ toastTimer' = [toastTimer EXCEPT ![p] = FALSE]
      /\ ringing' = [ringing EXCEPT ![p] = FALSE] /\ ringTimer' = [ringTimer EXCEPT ![p] = FALSE]
      /\ declined' = [declined EXCEPT ![p] = {}] /\ active' = [active EXCEPT ![p] = FALSE]
      /\ inbox' = [inbox EXCEPT ![p] = <<>>]
      /\ unheard' = unheard \cup UNION {G!Pairs(p, q) : q \in there \ {p}}
      /\ parted' = parted \cup (there \ {p})
      /\ UNCHANGED <<silent, stranded>>
  BY DEF G!Leave, G!ClearIncoming, G!StopRinging, G!Others
<1>2. /\ \A q \in Callers : toast'[q] = IF q = p THEN G!None ELSE toast[q]
      /\ \A q \in Callers : toastTimer'[q] = IF q = p THEN FALSE ELSE toastTimer[q]
      /\ \A q \in Callers : ringing'[q] = IF q = p THEN FALSE ELSE ringing[q]
      /\ \A q \in Callers : ringTimer'[q] = IF q = p THEN FALSE ELSE ringTimer[q]
      /\ \A q \in Callers : declined'[q] = IF q = p THEN {} ELSE declined[q]
      /\ \A q \in Callers : active'[q] = IF q = p THEN FALSE ELSE active[q]
      /\ \A q \in Callers : inbox'[q] = IF q = p THEN <<>> ELSE inbox[q]
      /\ there \subseteq Callers
  BY <1>1 DEF RingInv, RingTypes, MailTypes
<1>3. MailTypes'
  <2>1. Signal' = Signal /\ <<>> \in Seq(Signal)
    BY EmptySeq DEF Signal
  <2>2. inbox' \in [Callers -> Seq(Signal)]
    BY <1>1, <2>1 DEF RingInv, RingTypes, MailTypes
  <2> QED
    BY <1>2, <2>1, <2>2 DEF RingInv, RingTypes, MailTypes
<1>4. ASSUME NEW q \in there, q # p
      PROVE  /\ \A c \in there, t \in {"invite", "cancel", "accept", "decline"} :
                  Coming(c, t, q)' <=> Coming(c, t, q)
             /\ \A c \in there : Ends(c, q)' <=> Ends(c, q)
  <2>1. inbox'[q] = inbox[q]
    BY <1>2, <1>4
  <2> QED
    BY <2>1 DEF Coming, Ends
<1>5. RingTypes'
  BY <1>1, <1>2, <1>3 DEF RingInv, RingTypes
<1>6. TimersHeld'
  <2>1. ASSUME NEW q \in Callers
        PROVE  /\ ringTimer'[q] => ringing'[q]
               /\ toastTimer'[q] => toast'[q] # G!None
               /\ ringing'[q] => ringTimer'[q] \/ <<q, "ring">> \in stranded'
               /\ toast'[q] # G!None => toastTimer'[q] \/ <<q, "toast">> \in stranded'
    <3>1. CASE q = p
      BY <1>2, <3>1
    <3>2. CASE q # p
      <4>1. /\ ringTimer'[q] = ringTimer[q] /\ ringing'[q] = ringing[q]
            /\ toastTimer'[q] = toastTimer[q] /\ toast'[q] = toast[q] /\ stranded' = stranded
        BY <1>1, <1>2, <3>2
      <4> QED
        BY <4>1 DEF RingInv, TimersHeld
    <3> QED
      BY <3>1, <3>2
  <2> QED
    BY <2>1 DEF TimersHeld
<1>7. ASSUME NEW c \in there, NEW q \in there, c # q
      PROVE  RingKnown(c, q)' /\ EndKnown(c, q)'
  <2>1. RingKnown(c, q) /\ EndKnown(c, q)
    BY <1>7 DEF RingInv
  <2>2. CASE c = p \/ q = p
    <3>1. <<c, q>> \in unheard'
      BY <1>1, <1>7, <2>2 DEF G!Pairs
    <3> QED
      BY <3>1 DEF RingKnown, EndKnown, Excused
  <2>3. CASE c # p /\ q # p
    <3>1. /\ ringing'[c] = ringing[c] /\ toast'[q] = toast[q] /\ declined'[c] = declined[c]
          /\ silent' = silent
      BY <1>1, <1>2, <2>3
    <3>2. <<c, q>> \in unheard => <<c, q>> \in unheard'
      BY <1>1
    <3>3. RingKnown(c, q)'
      BY <1>4, <2>1, <2>3, <3>1, <3>2 DEF RingKnown
    <3>4. EndKnown(c, q)'
      BY <1>4, <2>1, <2>3, <3>1, <3>2 DEF EndKnown, Excused
    <3> QED
      BY <3>3, <3>4
  <2> QED
    BY <2>2, <2>3
<1>8. Awaited'
  BY <1>1, <1>2 DEF Awaited, AloneIn
<1> QED
  BY <1>5, <1>6, <1>7, <1>8 DEF RingInv

LEMMA OvertakeStep ==
  ASSUME RingInv, there' = there, NEW p \in there, NEW i \in DOMAIN inbox[p], G!Overtake(p, i)
  PROVE  RingInv'
<1>1. /\ unheard' = unheard \cup G!Pairs(inbox[p][i].from, p)
      /\ UNCHANGED <<toast, toastTimer, ringing, ringTimer, declined, active, silent, parted,
                     stranded>>
  BY DEF G!Overtake, G!timers
<1>2. MailTypes
  BY DEF RingInv, RingTypes
<1>3. /\ MailTypes'
      /\ \A q \in there, c \in there, t \in {"invite", "cancel", "accept", "decline"} :
           Coming(c, t, q)' <=> Coming(c, t, q)
      /\ \A q \in there, c \in there :
           Ends(c, q) /\ (q # p \/ c # inbox[p][i].from) => Ends(c, q)'
  BY <1>2, Swapped
<1>4. RingTypes'
  BY <1>1, <1>3 DEF RingInv, RingTypes
<1>5. TimersHeld'
  BY <1>1 DEF RingInv, TimersHeld
<1>6. ASSUME NEW c \in there, NEW q \in there, c # q
      PROVE  RingKnown(c, q)' /\ EndKnown(c, q)'
  <2>1. RingKnown(c, q) /\ EndKnown(c, q)
    BY <1>6 DEF RingInv
  <2>2. <<c, q>> \notin unheard' => <<c, q>> \notin unheard /\ (q # p \/ c # inbox[p][i].from)
    BY <1>1 DEF G!Pairs
  <2>3. RingKnown(c, q)'
    BY <1>1, <1>3, <2>1, <2>2 DEF RingKnown
  <2>4. EndKnown(c, q)'
    BY <1>1, <1>3, <2>1, <2>2 DEF EndKnown, Excused
  <2> QED
    BY <2>3, <2>4
<1>7. Awaited'
  BY <1>1, <1>3 DEF RingInv, Awaited, AloneIn
<1> QED
  BY <1>4, <1>5, <1>6, <1>7 DEF RingInv

\* A signal arrives.  What f sent to p, and nothing else, is gone.
LEMMA InvitedStep ==
  ASSUME G!None \notin Callers, RingInv, there' = there, NEW p \in there, NEW i, Takes(p, i),
         inbox[p][i].type = "invite", G!Invited(p, inbox[p][i].from)
  PROVE  RingInv'
<1> PICK f : f = inbox[p][i].from
  OBVIOUS
<1>1. /\ toast' = [toast EXCEPT ![p] = f] /\ toastTimer' = [toastTimer EXCEPT ![p] = TRUE]
      /\ unheard' = IF toast[p] \in {G!None, f} THEN unheard
                    ELSE unheard \cup {<<toast[p], p>>}
      /\ stranded' = stranded \ {<<p, "toast">>}
      /\ UNCHANGED <<ringing, ringTimer, declined, active, silent, parted>>
  BY DEF G!Invited, G!outgoing
<1>2. MailTypes
  BY DEF RingInv, RingTypes
<1>3. /\ MailTypes' /\ f \in there /\ f # p
      /\ \A q \in there, c \in there, t \in {"invite", "cancel", "accept", "decline"} :
           /\ Coming(c, t, q)' => Coming(c, t, q)
           /\ Coming(c, t, q) /\ (q # p \/ c # f \/ t # "invite") => Coming(c, t, q)'
      /\ \A q \in there, c \in there : Ends(c, q) => Ends(c, q)'
      /\ Ends(f, p) => Coming(f, "cancel", p)'
  BY <1>2, Taken DEF Signal
<1>4. /\ \A q \in Callers : toast'[q] = IF q = p THEN f ELSE toast[q]
      /\ \A q \in Callers : toastTimer'[q] = IF q = p THEN TRUE ELSE toastTimer[q]
      /\ there \subseteq Callers
  BY <1>1 DEF RingInv, RingTypes, MailTypes
<1>5. RingTypes'
  BY <1>1, <1>3, <1>4 DEF RingInv, RingTypes
<1>6. TimersHeld'
  <2>1. ASSUME NEW q \in Callers
        PROVE  /\ toastTimer'[q] => toast'[q] # G!None
               /\ toast'[q] # G!None => toastTimer'[q] \/ <<q, "toast">> \in stranded'
    <3>1. CASE q = p
      BY <1>3, <1>4, <3>1
    <3>2. CASE q # p
      BY <1>1, <1>4, <3>2 DEF RingInv, TimersHeld
    <3> QED
      BY <3>1, <3>2
  <2>2. ASSUME NEW q \in Callers
        PROVE  <<q, "ring">> \in stranded => <<q, "ring">> \in stranded'
    BY <1>1
  <2>3. UNCHANGED <<ringing, ringTimer>>
    BY <1>1
  <2> QED
    BY <2>1, <2>2, <2>3 DEF RingInv, TimersHeld
<1>7. ASSUME NEW c \in there, NEW q \in there, c # q
      PROVE  RingKnown(c, q)' /\ EndKnown(c, q)'
  <2>1. RingKnown(c, q) /\ EndKnown(c, q)
    BY <1>7 DEF RingInv
  <2>2. c \in Callers /\ q \in Callers /\ c # G!None
    BY <1>4
  <2>3. <<c, q>> \notin unheard' =>
          <<c, q>> \notin unheard /\ (q = p => toast[p] # c \/ c = f)
    BY <1>1, <2>2
  <2>4. RingKnown(c, q)'
    <3>1. CASE q = p /\ c = f
      BY <1>1, <1>3, <1>4, <2>1, <2>2, <2>3, <3>1 DEF RingKnown
    <3>2. CASE ~(q = p /\ c = f)
      <4>1. <<c, q>> \notin unheard' => (toast'[q] = c <=> toast[q] = c)
        BY <1>4, <2>2, <2>3, <3>2
      <4> QED
        BY <1>1, <1>3, <2>1, <2>3, <3>2, <4>1 DEF RingKnown
    <3> QED
      BY <3>1, <3>2
  <2>5. EndKnown(c, q)'
    <3>1. CASE q = p /\ c = f
      BY <1>1, <1>3, <2>1, <2>3, <3>1 DEF EndKnown, Excused
    <3>2. CASE ~(q = p /\ c = f)
      <4>1. toast'[q] = c => toast[q] = c
        BY <1>4, <2>2, <3>2
      <4> QED
        BY <1>1, <1>3, <2>1, <2>3, <4>1 DEF EndKnown, Excused
    <3> QED
      BY <3>1, <3>2
  <2> QED
    BY <2>4, <2>5
<1>8. Awaited'
  BY <1>1, <1>3 DEF RingInv, Awaited, AloneIn
<1> QED
  BY <1>5, <1>6, <1>7, <1>8 DEF RingInv

LEMMA CancelledStep ==
  ASSUME G!None \notin Callers, RingInv, there' = there, NEW p \in there, NEW i, Takes(p, i),
         inbox[p][i].type = "cancel", G!Cancelled(p, inbox[p][i].from)
  PROVE  RingInv'
<1> PICK f : f = inbox[p][i].from
  OBVIOUS
<1>1. /\ IF toast[p] = f
         THEN /\ toast' = [toast EXCEPT ![p] = G!None]
              /\ toastTimer' = [toastTimer EXCEPT ![p] = FALSE]
         ELSE toast' = toast /\ toastTimer' = toastTimer
      /\ UNCHANGED <<ringing, ringTimer, declined, active, unheard, silent, parted, stranded>>
  BY DEF G!Cancelled, G!ClearIncoming, G!incoming, G!outgoing
<1>2. MailTypes
  BY DEF RingInv, RingTypes
<1>3. /\ MailTypes' /\ f \in there /\ f # p /\ Coming(f, "cancel", p)
      /\ \A q \in there, c \in there, t \in {"invite", "cancel", "accept", "decline"} :
           /\ Coming(c, t, q)' => Coming(c, t, q)
           /\ Coming(c, t, q) /\ (q # p \/ c # f \/ t # "cancel") => Coming(c, t, q)'
      /\ \A q \in there, c \in there : Ends(c, q) => Ends(c, q)'
  BY <1>2, Taken DEF Signal
<1>4. /\ \A q \in Callers : toast'[q] = IF q = p /\ toast[q] = f THEN G!None ELSE toast[q]
      /\ \A q \in Callers : toastTimer'[q] = IF q = p /\ toast[q] = f THEN FALSE ELSE toastTimer[q]
      /\ there \subseteq Callers
  BY <1>1 DEF RingInv, RingTypes, MailTypes
<1>5. RingTypes'
  <2>1. toast' \in [Callers -> there \cup {G!None}] /\ toastTimer' \in [Callers -> BOOLEAN]
    BY <1>1 DEF RingInv, RingTypes
  <2> QED
    BY <1>1, <1>3, <1>4, <2>1 DEF RingInv, RingTypes
<1>6. TimersHeld'
  <2>1. ASSUME NEW q \in Callers
        PROVE  /\ toastTimer'[q] => toast'[q] # G!None
               /\ toast'[q] # G!None => toastTimer'[q] \/ <<q, "toast">> \in stranded'
    <3>1. CASE q = p /\ toast[q] = f
      BY <1>4, <3>1
    <3>2. CASE ~(q = p /\ toast[q] = f)
      BY <1>1, <1>4, <3>2 DEF RingInv, TimersHeld
    <3> QED
      BY <3>1, <3>2
  <2>2. UNCHANGED <<ringing, ringTimer, stranded>>
    BY <1>1
  <2> QED
    BY <2>1, <2>2 DEF RingInv, TimersHeld
<1>7. ASSUME NEW c \in there, NEW q \in there, c # q
      PROVE  RingKnown(c, q)' /\ EndKnown(c, q)'
  <2>1. RingKnown(c, q) /\ EndKnown(c, q)
    BY <1>7 DEF RingInv
  <2>2. c \in Callers /\ q \in Callers /\ c # G!None
    BY <1>4
  <2>3. ~(q = p /\ c = f) => (toast'[q] = c <=> toast[q] = c)
    BY <1>4, <2>2
  <2>4. q = p /\ c = f => toast'[q] # c
    BY <1>4, <2>2
  <2>5. RingKnown(c, q)'
    BY <1>1, <1>3, <2>1, <2>3 DEF RingKnown
  <2>6. EndKnown(c, q)'
    BY <1>1, <1>3, <2>1, <2>3, <2>4 DEF EndKnown, Excused
  <2> QED
    BY <2>5, <2>6
<1>8. Awaited'
  BY <1>1, <1>3 DEF RingInv, Awaited, AloneIn
<1> QED
  BY <1>5, <1>6, <1>7, <1>8 DEF RingInv

\* The ring of p ends: for the others it is over without a cancel.
LEMMA RingOver ==
  ASSUME RingInv, there' = there, NEW p \in there, MailTypes',
         G!StopRinging(p), silent' = silent \cup {p}, UNCHANGED <<toast, toastTimer, unheard, stranded>>,
         active' \in [Callers -> BOOLEAN], \A q \in Callers \ there : ~active'[q],
         \A q \in there, c \in there :
            /\ c # p /\ c # q => (RingKnown(c, q) => RingKnown(c, q)')
            /\ Coming(c, "cancel", q) => Coming(c, "cancel", q)'
            /\ Ends(c, q) => Ends(c, q)'
  PROVE  /\ RingTypes' /\ TimersHeld'
         /\ \A c \in there, q \in there : c # q => RingKnown(c, q)' /\ EndKnown(c, q)'
<1>1. /\ ringing' = [ringing EXCEPT ![p] = FALSE] /\ ringTimer' = [ringTimer EXCEPT ![p] = FALSE]
      /\ declined' = [declined EXCEPT ![p] = {}]
  BY DEF G!StopRinging
<1>2. /\ \A q \in Callers : ringing'[q] = IF q = p THEN FALSE ELSE ringing[q]
      /\ \A q \in Callers : ringTimer'[q] = IF q = p THEN FALSE ELSE ringTimer[q]
      /\ there \subseteq Callers
  BY <1>1 DEF RingInv, RingTypes, MailTypes
<1>3. RingTypes'
  BY <1>1, <1>2 DEF RingInv, RingTypes
<1>4. TimersHeld'
  BY <1>1, <1>2 DEF RingInv, TimersHeld
<1>5. ASSUME NEW c \in there, NEW q \in there, c # q
      PROVE  RingKnown(c, q)' /\ EndKnown(c, q)'
  <2>1. RingKnown(c, q) /\ EndKnown(c, q)
    BY <1>5 DEF RingInv
  <2>2. CASE c = p
    <3>1. RingKnown(c, q)'
      BY <1>2, <2>2 DEF RingKnown
    <3>2. EndKnown(c, q)'
      BY <2>2 DEF EndKnown, Excused
    <3> QED
      BY <3>1, <3>2
  <2>3. CASE c # p
    <3>1. RingKnown(c, q)'
      BY <1>5, <2>1, <2>3
    <3>2. EndKnown(c, q)'
      BY <1>2, <2>1, <2>3 DEF EndKnown, Excused
    <3> QED
      BY <3>1, <3>2
  <2> QED
    BY <2>2, <2>3
<1> QED
  BY <1>3, <1>4, <1>5

LEMMA AcceptedStep ==
  ASSUME RingInv, there' = there, NEW p \in there, NEW i, Takes(p, i),
         inbox[p][i].type = "accept", G!Accepted(p, inbox[p][i].from)
  PROVE  RingInv'
<1> PICK f : f = inbox[p][i].from
  OBVIOUS
<1>1. MailTypes
  BY DEF RingInv, RingTypes
<1>2. /\ MailTypes' /\ f \in there /\ f # p
      /\ \A q \in there, c \in there, t \in {"invite", "cancel", "accept", "decline"} :
           /\ Coming(c, t, q)' => Coming(c, t, q)
           /\ Coming(c, t, q) /\ (q # p \/ c # f \/ t # "accept") => Coming(c, t, q)'
      /\ \A q \in there, c \in there : Ends(c, q) => Ends(c, q)'
  BY <1>1, Taken DEF Signal
<1>3. UNCHANGED <<toast, toastTimer, unheard, stranded>>
  BY DEF G!Accepted, G!incoming
<1>4. CASE ringing[p]
  <2>1. /\ G!StopRinging(p) /\ active' = [active EXCEPT ![p] = TRUE]
        /\ silent' = silent \cup {p}
        /\ parted' = IF G!InCall \ {p} # {} THEN parted \ {p} ELSE parted \cup {p}
    BY <1>4 DEF G!Accepted
  <2>2. \A q \in Callers : /\ ringing'[q] = IF q = p THEN FALSE ELSE ringing[q]
                           /\ declined'[q] = IF q = p THEN {} ELSE declined[q]
                           /\ active'[q] = IF q = p THEN TRUE ELSE active[q]
    BY <2>1 DEF G!StopRinging, RingInv, RingTypes
  <2>3. /\ active' \in [Callers -> BOOLEAN] /\ \A q \in Callers \ there : ~active'[q]
        /\ there \subseteq Callers
    BY <2>1, <2>2 DEF RingInv, RingTypes, MailTypes
  <2>4. ASSUME NEW q \in there, NEW c \in there, c # p, RingKnown(c, q)
        PROVE  RingKnown(c, q)'
    BY <1>2, <1>3, <2>2, <2>3, <2>4 DEF RingKnown
  <2>5. \A q \in there, c \in there : Coming(c, "cancel", q) => Coming(c, "cancel", q)'
    BY <1>2
  <2>6. /\ RingTypes' /\ TimersHeld'
        /\ \A c \in there, q \in there : c # q => RingKnown(c, q)' /\ EndKnown(c, q)'
    BY <1>2, <1>3, <2>1, <2>3, <2>4, <2>5, RingOver
  <2>7. Awaited'
    <3> SUFFICES ASSUME NEW q \in there, q \notin parted', AloneIn(q)'
                 PROVE  FALSE
      BY DEF Awaited
    <3>1. q = p /\ \A c \in there : c # p => ~active[c]
      BY <2>2, <2>3 DEF AloneIn
    <3>2. G!InCall \ {p} = {}
      BY <3>1 DEF G!InCall
    <3> QED
      BY <2>1, <3>1, <3>2
  <2> QED
    BY <2>6, <2>7 DEF RingInv
<1>5. CASE ~ringing[p]
  <2>1. UNCHANGED <<ringing, ringTimer, declined, active, silent, parted>>
    BY <1>5 DEF G!Accepted, G!outgoing
  <2>2. RingTypes' /\ TimersHeld'
    BY <1>2, <1>3, <2>1 DEF RingInv, RingTypes, TimersHeld
  <2>3. ASSUME NEW c \in there, NEW q \in there, c # q
        PROVE  RingKnown(c, q)' /\ EndKnown(c, q)'
    <3>1. RingKnown(c, q) /\ EndKnown(c, q)
      BY <2>3 DEF RingInv
    <3>2. RingKnown(c, q)'
      BY <1>2, <1>3, <2>1, <3>1 DEF RingKnown
    <3>3. EndKnown(c, q)'
      BY <1>2, <1>3, <2>1, <3>1 DEF EndKnown, Excused
    <3> QED
      BY <3>2, <3>3
  <2>4. Awaited'
    BY <1>2, <1>5, <2>1 DEF RingInv, Awaited, AloneIn
  <2> QED
    BY <2>2, <2>3, <2>4 DEF RingInv
<1> QED
  BY <1>4, <1>5

LEMMA DeclinedStep ==
  ASSUME RingInv, there' = there, NEW p \in there, NEW i, Takes(p, i),
         inbox[p][i].type = "decline", G!Declined(p, inbox[p][i].from)
  PROVE  RingInv'
<1> PICK f : f = inbox[p][i].from
  OBVIOUS
<1>1. MailTypes
  BY DEF RingInv, RingTypes
<1>2. /\ MailTypes' /\ f \in there /\ f # p
      /\ \A q \in there, c \in there, t \in {"invite", "cancel", "accept", "decline"} :
           /\ Coming(c, t, q)' => Coming(c, t, q)
           /\ Coming(c, t, q) /\ (q # p \/ c # f \/ t # "decline") => Coming(c, t, q)'
      /\ \A q \in there, c \in there : Ends(c, q) => Ends(c, q)'
  BY <1>1, Taken DEF Signal
<1>3. UNCHANGED <<toast, toastTimer, active, unheard, stranded>>
  BY DEF G!Declined, G!incoming
<1>4. \/ ~ringing[p] /\ UNCHANGED <<ringing, ringTimer, declined, silent, parted>>
      \/ /\ ringing[p] /\ declined' = [declined EXCEPT ![p] = declined[p] \cup {f}]
         /\ UNCHANGED <<ringing, ringTimer, silent, parted>>
      \/ /\ ringing[p] /\ G!StopRinging(p) /\ silent' = silent \cup {p}
         /\ parted' = parted \cup G!InCall
  BY DEF G!Declined, G!outgoing
<1>5. CASE ~ringing[p] /\ UNCHANGED <<ringing, ringTimer, declined, silent, parted>>
  <2>1. RingTypes' /\ TimersHeld'
    BY <1>2, <1>3, <1>5 DEF RingInv, RingTypes, TimersHeld
  <2>2. ASSUME NEW c \in there, NEW q \in there, c # q
        PROVE  RingKnown(c, q)' /\ EndKnown(c, q)'
    <3>1. RingKnown(c, q) /\ EndKnown(c, q)
      BY <2>2 DEF RingInv
    <3>2. RingKnown(c, q)'
      BY <1>2, <1>3, <1>5, <3>1 DEF RingKnown
    <3>3. EndKnown(c, q)'
      BY <1>2, <1>3, <1>5, <3>1 DEF EndKnown, Excused
    <3> QED
      BY <3>2, <3>3
  <2>3. Awaited'
    BY <1>2, <1>3, <1>5 DEF RingInv, Awaited, AloneIn
  <2> QED
    BY <2>1, <2>2, <2>3 DEF RingInv
<1>6. CASE /\ ringing[p] /\ declined' = [declined EXCEPT ![p] = declined[p] \cup {f}]
           /\ UNCHANGED <<ringing, ringTimer, silent, parted>>
  <2>1. /\ \A q \in Callers : declined'[q] = IF q = p THEN declined[p] \cup {f} ELSE declined[q]
        /\ there \subseteq Callers
    BY <1>6 DEF RingInv, RingTypes, MailTypes
  <2>2. RingTypes'
    <3>1. declined' \in [Callers -> SUBSET there]
      BY <1>2, <1>6, <2>1 DEF RingInv, RingTypes
    <3> QED
      BY <1>2, <1>3, <1>6, <3>1 DEF RingInv, RingTypes
  <2>3. TimersHeld'
    BY <1>3, <1>6 DEF RingInv, TimersHeld
  <2>4. ASSUME NEW c \in there, NEW q \in there, c # q
        PROVE  RingKnown(c, q)' /\ EndKnown(c, q)'
    <3>1. RingKnown(c, q) /\ EndKnown(c, q)
      BY <2>4 DEF RingInv
    <3>2. q \in declined[c] \/ (c = p /\ q = f) => q \in declined'[c]
      BY <2>1
    <3>3. RingKnown(c, q)'
      BY <1>2, <1>3, <1>6, <3>1, <3>2 DEF RingKnown
    <3>4. EndKnown(c, q)'
      BY <1>2, <1>3, <1>6, <3>1 DEF EndKnown, Excused
    <3> QED
      BY <3>3, <3>4
  <2>5. Awaited'
    BY <1>2, <1>3, <1>6 DEF RingInv, Awaited, AloneIn
  <2> QED
    BY <2>2, <2>3, <2>4, <2>5 DEF RingInv
<1>7. CASE /\ ringing[p] /\ G!StopRinging(p) /\ silent' = silent \cup {p}
           /\ parted' = parted \cup G!InCall
  <2>1. \A q \in Callers : /\ ringing'[q] = IF q = p THEN FALSE ELSE ringing[q]
                           /\ declined'[q] = IF q = p THEN {} ELSE declined[q]
    BY <1>7 DEF G!StopRinging, RingInv, RingTypes
  <2>2. /\ active' \in [Callers -> BOOLEAN] /\ \A q \in Callers \ there : ~active'[q]
        /\ there \subseteq Callers
    BY <1>3 DEF RingInv, RingTypes, MailTypes
  <2>3. ASSUME NEW q \in there, NEW c \in there, c # p, RingKnown(c, q)
        PROVE  RingKnown(c, q)'
    BY <1>2, <1>3, <2>1, <2>2, <2>3 DEF RingKnown
  <2>4. \A q \in there, c \in there : Coming(c, "cancel", q) => Coming(c, "cancel", q)'
    BY <1>2
  <2>5. /\ RingTypes' /\ TimersHeld'
        /\ \A c \in there, q \in there : c # q => RingKnown(c, q)' /\ EndKnown(c, q)'
    BY <1>2, <1>3, <1>7, <2>2, <2>3, <2>4, RingOver
  <2>6. Awaited'
    BY <1>3, <1>7 DEF Awaited, AloneIn, G!InCall
  <2> QED
    BY <2>5, <2>6 DEF RingInv
<1> QED
  BY <1>4, <1>5, <1>6, <1>7

LEMMA ReceiveStep ==
  ASSUME G!None \notin Callers, RingInv, there' = there, NEW p \in there,
         NEW i \in DOMAIN inbox[p], G!Receive(p, i)
  PROVE  RingInv'
<1>1. Takes(p, i)
  BY DEF G!Receive, Takes
<1>2. \/ inbox[p][i].type = "invite" /\ G!Invited(p, inbox[p][i].from)
      \/ inbox[p][i].type = "cancel" /\ G!Cancelled(p, inbox[p][i].from)
      \/ inbox[p][i].type = "accept" /\ G!Accepted(p, inbox[p][i].from)
      \/ inbox[p][i].type = "decline" /\ G!Declined(p, inbox[p][i].from)
  BY DEF G!Receive
<1> QED
  BY <1>1, <1>2, InvitedStep, CancelledStep, AcceptedStep, DeclinedStep

LEMMA RingInit ==
  ASSUME G!None \notin Callers, Couple \subseteq Callers, G!Init
  PROVE  RingInv
<1>1. there \subseteq Callers
  BY DEF G!Init
<1>2. \A p \in Callers : inbox[p] = <<>>
  BY DEF G!Init
<1>3. MailTypes
  BY <1>1, EmptySeq DEF G!Init, MailTypes
<1>4. RingTypes
  BY <1>1, <1>3 DEF G!Init, RingTypes
<1>5. TimersHeld
  BY DEF G!Init, TimersHeld
<1>6. \A c \in there, p \in there : RingKnown(c, p) /\ EndKnown(c, p)
  <2> SUFFICES ASSUME NEW c \in there, NEW p \in there
               PROVE  RingKnown(c, p) /\ EndKnown(c, p)
    OBVIOUS
  <2>1. c \in Callers /\ p \in Callers /\ c # G!None
    BY <1>1
  <2>2. ~ringing[c] /\ toast[p] = G!None
    BY <2>1 DEF G!Init
  <2>3. Ends(c, p)
    BY <1>2, <2>1 DEF Ends
  <2> QED
    BY <2>1, <2>2, <2>3 DEF RingKnown, EndKnown
<1>7. Awaited
  BY <1>1 DEF G!Init, Awaited, AloneIn
<1> QED
  BY <1>4, <1>5, <1>6, <1>7 DEF RingInv

LEMMA RingStep ==
  ASSUME G!None \notin Callers, RingInv, [G!Next]_(G!vars)
  PROVE  RingInv'
<1>1. CASE G!Next
  <2>1. there' = there
    BY <1>1 DEF G!Next
  <2>2. PICK p \in there :
          \/ G!StartCall(p) \/ G!CancelCall(p) \/ G!RingTimeout(p) \/ G!AcceptCall(p)
          \/ G!DeclineCall(p) \/ G!EndCall(p) \/ G!ToastTimeout(p) \/ G!Restart(p) \/ G!Leave(p)
          \/ \E i \in DOMAIN inbox[p] : G!Receive(p, i) \/ G!Overtake(p, i)
    BY <1>1 DEF G!Next
  <2>3. G!CancelCall(p) \/ G!RingTimeout(p) => G!GiveUp(p)
    BY DEF G!CancelCall, G!RingTimeout
  <2> QED
    BY <2>1, <2>2, <2>3, StartStep, GiveUpStep, AcceptStep, DeclineStep, EndStep,
       ToastTimeoutStep, RestartStep, LeaveStep, ReceiveStep, OvertakeStep
<1>2. CASE UNCHANGED G!vars
  <2>1. UNCHANGED <<there, toast, toastTimer, ringing, ringTimer, declined, active, inbox,
                    unheard, silent, parted, stranded>>
    BY <1>2 DEF G!vars, G!timers
  <2>2. MailTypes
    BY DEF RingInv, RingTypes
  <2>3. /\ MailTypes'
        /\ \A q \in there, c \in there, t \in {"invite", "cancel", "accept", "decline"} :
             Coming(c, t, q)' <=> Coming(c, t, q)
        /\ \A q \in there, c \in there : Ends(c, q)' <=> Ends(c, q)
    BY <2>1, <2>2, MailKept
  <2>4. RingTypes' /\ TimersHeld' /\ Awaited'
    BY <2>1, <2>3 DEF RingInv, RingTypes, TimersHeld, Awaited, AloneIn
  <2>5. ASSUME NEW c \in there, NEW q \in there, c # q
        PROVE  RingKnown(c, q)' /\ EndKnown(c, q)'
    BY <2>1, <2>3, <2>5 DEF RingInv, RingKnown, EndKnown, Excused
  <2> QED
    BY <2>1, <2>4, <2>5 DEF RingInv
<1> QED
  BY <1>1, <1>2

LEMMA RingReached ==
  ASSUME RingInv
  PROVE  G!RingsAgree
<1>1. G!TimersBelong
  BY DEF RingInv, TimersHeld, G!TimersBelong
<1>2. ASSUME G!Quiet, NEW c \in there, NEW p \in there, NEW t
      PROVE  ~Coming(c, t, p)
  BY <1>2 DEF RingInv, RingTypes, MailTypes, G!Quiet, Coming
<1>3. G!RingHeard
  <2> SUFFICES ASSUME G!Quiet, NEW c \in Callers, ringing[c], NEW p \in there \ {c}
               PROVE  toast[p] = c \/ p \in declined[c] \/ <<c, p>> \in unheard
    BY DEF G!RingHeard, G!Others
  <2>1. c \in there
    BY DEF RingInv, RingTypes
  <2>2. RingKnown(c, p)
    BY <2>1 DEF RingInv
  <2> QED
    BY <1>2, <2>1, <2>2 DEF RingKnown
<1>4. G!ToastTrue
  <2> SUFFICES ASSUME G!Quiet, NEW p \in Callers, toast[p] # G!None
               PROVE  Excused(toast[p], p)
    BY DEF G!ToastTrue, Excused
  <2>1. p \in there /\ toast[p] \in there /\ toast[p] # p
    BY DEF RingInv, RingTypes
  <2>2. PICK c \in there : c = toast[p]
    BY <2>1
  <2>3. EndKnown(c, p)
    BY <2>1, <2>2 DEF RingInv
  <2>4. Excused(c, p)
    BY <1>2, <2>1, <2>2, <2>3 DEF EndKnown
  <2> QED
    BY <2>2, <2>4
<1>5. G!CallShared
  <2> SUFFICES ASSUME G!Quiet, NEW p \in there, active[p], p \notin parted, G!InCall = {p}
               PROVE  FALSE
    BY DEF G!CallShared, G!InCall
  <2>1. AloneIn(p)
    BY DEF AloneIn, G!InCall
  <2> QED
    BY <1>2, <2>1 DEF RingInv, Awaited
<1> QED
  BY <1>1, <1>3, <1>4, <1>5 DEF G!RingsAgree

-----------------------------------------------------------------------------
\* A step of the whole is one of the part that runs.
LEMMA PartsStep ==
  ASSUME [Next]_vars
  PROVE  /\ part' = part
         /\ part = "typing" => [T!Next]_(T!vars)
         /\ part = "ringing" => [G!Next]_(G!vars)
         /\ part = "call" => [C!Next]_(C!vars)
         /\ part = "server" => [Z!Next]_(Z!serverVars)
BY DEF Next, vars, T!vars, T!pageVars, T!watchVars, G!vars, G!timers, C!vars, C!refs, C!media,
       C!screen, C!remote, C!excuses, Z!serverVars

\* Whoever is shown typing types, or the excuse of the model says why not, and
\* every start is followed by its end (useTyping, sendTyping of use-gateway.ts);
\* the endpoints of the signal server answer what they did, and gracefulShutdown
\* leaves no caller and no socket behind.
THEOREM GatewayHolds == Spec => []GatewayAgrees
<1> DEFINE Inv == /\ part = "typing" => TypingInv
                  /\ part = "server" => ServerInv
<1>1. Init => Inv
  BY TypingInit, ServerInit DEF Init
<1>2. Inv /\ [Next]_vars => Inv'
  BY PartsStep, TypingStep, ServerStep
<1>3. Inv => GatewayAgrees
  BY TypingReached, ServerReached DEF GatewayAgrees
<1> QED
  BY <1>1, <1>2, <1>3, PTL DEF Spec

\* useDMCall: a ring is heard, and taken back, at every page whose signals were
\* neither lost nor overtaken, each timer belongs to the ring or toast of now, and
\* nobody sits in a call alone but those the others have left.  DMCallView: only
\* the run on the screen holds the room, microphone and camera, and the view says
\* what they are.
THEOREM CallsHold ==
  ASSUME G!None \notin Callers, Couple \subseteq Callers, MaxRuns \in Nat
  PROVE  Spec => []CallsAgree
<1> DEFINE Inv == /\ part = "ringing" => RingInv
                  /\ part = "call" => RoomInv
<1>1. Init => Inv
  BY RingInit, RoomInit DEF Init
<1>2. Inv /\ [Next]_vars => Inv'
  BY PartsStep, RingStep, RoomStep
<1>3. Inv => CallsAgree
  BY RingReached, RoomReached DEF CallsAgree
<1> QED
  BY <1>1, <1>2, <1>3, PTL DEF Spec
=============================================================================
