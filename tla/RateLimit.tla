----------------------------- MODULE RateLimit -----------------------------
(***************************************************************************)
(* The sliding windows that limit how often something is done, for one     *)
(* key: in the memory of the web app or in Redis (lib/rate-limit.ts, with  *)
(* lib/redis-client.ts and checkRateLimit of lib/utils/api-helpers), or in *)
(* the gateway for one action of a socket (rate-limiter.ts).               *)
(***************************************************************************)
EXTENDS Naturals, FiniteSets, FiniteSetsExt

CONSTANTS
  Checks,     \* callers that ask at the same time
  Limit,
  Widths,     \* windows that the callers ask for
  MaxAge,     \* what cleanup takes for old
  MaxDelay,   \* bound on the time between reading the clock and the script
  MaxTime     \* bound on the clock

VARIABLES
  mode,       \* "memory", "redis" or "socket"
  closed,     \* failClosed
  window,
  now,
  client,     \* the client of getRedisClient
  check,      \* per caller: at work or not, and the time it has read
  kept,       \* how many stamps of each time are kept
  expiry,     \* when Redis drops the key
  told,       \* the last answer, and the time its caller was told to wait for
  \* history
  granted,    \* how many were let in at each time that still matters (Limit + 1: too many)
  forgot,     \* stamps of the window were lost: "cleanup" or "restart"
  merged,     \* a stamp fell on another one
  unsaid      \* a check counted, and its answer was lost

limitVars == <<mode, closed, window, now, client, check, kept, expiry, told,
               granted, forgot, merged, unsaid>>

Times == 0 .. MaxTime
Empty == [t \in Times |-> 0]
Idle == [st |-> "idle", at |-> 0]

Init ==
  /\ mode \in {"memory", "redis", "socket"} /\ closed \in BOOLEAN
  /\ closed => mode = "redis"
  /\ window \in Widths /\ now = 0
  /\ client = "none"
  /\ check = [k \in Checks |-> Idle]
  /\ kept = Empty /\ expiry = 0
  /\ told = [a |-> "none", until |-> 0]
  /\ granted = Empty /\ forgot = {} /\ merged = FALSE /\ unsaid = FALSE
-----------------------------------------------------------------------------
\* The stamps that f has of the times S, those of one time numbered: it has
\* never more than Limit + 1 of them.
Stamps(f, S) == {p \in S \X (1 .. Limit + 1) : p[2] <= f[p[1]]}
Count(f, S) == Cardinality(Stamps(f, S))

\* What is left of the window at a time: its first moment is outside.
Recent(f, at) == [t \in Times |-> IF t + window > at THEN f[t] ELSE 0]
Oldest(f) == Min({t \in Times : f[t] > 0})

Tell(a, until) == told' = [a |-> a, until |-> until]

\* One check against the stamps f, by a caller whose clock says at.  In Redis
\* a stamp is a number of the set, which may be there already.
Decide(f, at) ==
  IF Count(f, Times) >= Limit
  THEN /\ kept' = f
       /\ Tell("no", Oldest(f) + window)
       /\ UNCHANGED <<granted, merged, expiry>>
  ELSE /\ \E same \in IF mode = "redis" /\ f[at] > 0 THEN BOOLEAN ELSE {FALSE} :
            /\ kept' = [f EXCEPT ![at] = IF same THEN @ ELSE @ + 1]
            /\ merged' = (merged \/ same)
       /\ granted' = [granted EXCEPT ![now] = Min({@ + 1, Limit + 1})]
       /\ expiry' = IF mode = "redis" THEN now + window ELSE expiry
       /\ Tell("yes", 0)

CheckMemory(k) ==
  /\ mode \in {"memory", "socket"}
  /\ Decide(Recent(kept, now), now)
  /\ UNCHANGED <<mode, closed, window, now, client, check, forgot, unsaid>>

\* getRedisClient: the first caller connects, and others wait for it.
Begin(k) ==
  /\ mode = "redis" /\ check[k] = Idle
  /\ check' = [check EXCEPT ![k] = IF client = "ready" THEN [st |-> "asked", at |-> now]
                                   ELSE [st |-> "waiting", at |-> 0]]
  /\ client' = IF client = "ready" THEN client ELSE "connecting"
  /\ UNCHANGED <<mode, closed, window, now, kept, expiry, told,
                 granted, forgot, merged, unsaid>>
Connected ==
  /\ client = "connecting" /\ client' = "ready"
  /\ check' = [k \in Checks |-> IF check[k].st = "waiting"
                                THEN [st |-> "asked", at |-> now] ELSE check[k]]
  /\ UNCHANGED <<mode, closed, window, now, kept, expiry, told,
                 granted, forgot, merged, unsaid>>

\* A failure is a refusal for those who ask for it, and an error otherwise.
Failed == IF closed THEN "no" ELSE "error"
NotConnected ==
  /\ client = "connecting" /\ client' = "none"
  /\ check' = [k \in Checks |-> IF check[k].st = "waiting" THEN Idle ELSE check[k]]
  /\ Tell(Failed, 0)
  /\ UNCHANGED <<mode, closed, window, now, kept, expiry, granted, forgot, merged, unsaid>>

\* The script runs, at the time that its caller has read.
There == IF now < expiry THEN kept ELSE Empty
Script(k) ==
  /\ check[k].st = "asked"
  /\ check' = [check EXCEPT ![k] = Idle]
  /\ Decide(Recent(There, check[k].at), check[k].at)
  /\ UNCHANGED <<mode, closed, window, now, client, forgot, unsaid>>
\* It does not run, or it does, and the answer is lost.
ScriptFails(k) ==
  /\ check[k].st = "asked"
  /\ check' = [check EXCEPT ![k] = Idle]
  /\ Tell(Failed, 0)
  /\ \/ UNCHANGED <<kept, expiry, unsaid>>
     \/ LET f == Recent(There, check[k].at)
        IN /\ Count(f, Times) < Limit
           /\ kept' = [f EXCEPT ![check[k].at] = @ + 1]
           /\ expiry' = now + window /\ unsaid' = TRUE
  /\ UNCHANGED <<mode, closed, window, now, client, granted, forgot, merged>>
-----------------------------------------------------------------------------
\* The web app drops a key whose stamps are all old; the gateway drops the
\* stamps that are.
Old(t) == IF mode = "memory" THEN t + MaxAge < now ELSE t + MaxAge <= now
Cleaned == [t \in Times |->
  IF Old(t) /\ (mode = "socket" \/ \A u \in Times : kept[u] > 0 => Old(u)) THEN 0 ELSE kept[t]]
InWindow(t) == t + window > now
Cleanup ==
  /\ mode \in {"memory", "socket"}
  /\ kept' = Cleaned
  /\ forgot' = IF \E t \in Times : InWindow(t) /\ Cleaned[t] # kept[t]
               THEN forgot \cup {"cleanup"} ELSE forgot
  /\ UNCHANGED <<mode, closed, window, now, client, check, expiry, told,
                 granted, merged, unsaid>>

\* The process starts again: Redis is still there, its memory is not.
Restart ==
  /\ mode \in {"memory", "redis"}
  /\ kept' = IF mode = "memory" THEN Empty ELSE kept
  /\ forgot' = IF mode = "memory" THEN forgot \cup {"restart"} ELSE forgot
  /\ client' = "none" /\ check' = [k \in Checks |-> Idle]
  /\ UNCHANGED <<mode, closed, window, now, expiry, told, granted, merged, unsaid>>

\* The socket is gone, and the next one has windows of its own.
Disconnect ==
  /\ mode = "socket"
  /\ kept' = Empty /\ granted' = Empty
  /\ UNCHANGED <<mode, closed, window, now, client, check, expiry, told, forgot, merged, unsaid>>

Delay == IF mode = "redis" THEN MaxDelay ELSE 0

Tick ==
  /\ now < MaxTime /\ now' = now + 1
  /\ \A k \in Checks : check[k].st = "asked" => now < check[k].at + MaxDelay
  /\ granted' = [t \in Times |-> IF t + window + Delay > now' THEN granted[t] ELSE 0]
  /\ UNCHANGED <<mode, closed, window, client, check, kept, expiry, told,
                 forgot, merged, unsaid>>

Next ==
  \/ \E k \in Checks : CheckMemory(k) \/ Begin(k) \/ Script(k) \/ ScriptFails(k)
  \/ Connected \/ NotConnected \/ Cleanup \/ Restart \/ Disconnect \/ Tick

Spec == Init /\ [][Next]_limitVars
-----------------------------------------------------------------------------
LetIn(from, to) == Count(granted, {t \in Times : from < t + window /\ t <= to})

\* No more than the limit is let in within a window, whatever is cleaned up,
\* whoever asks together and whenever the clocks were read: a check in Redis
\* that was on its way shortens the window by that time.  The exceptions: the
\* process has started again, two stamps were one in Redis, or a cleanup took
\* what was still in the window, which it does not if the window is no longer
\* than what it takes for old.
WindowHeld ==
  /\ forgot = {} /\ ~merged => LetIn(now + Delay, now) <= Limit
  /\ window <= MaxAge => "cleanup" \notin forgot

\* Whoever is refused for the limit is told so with reason, and told when there
\* is room: as many as the limit were let in (or counted without an answer),
\* and at the time he is told to wait for one of them is out of the window.
RefusalsJust ==
  told' # told /\ told'.until > 0 =>
    /\ LetIn(now - Min({now, Delay}), now) >= Limit \/ unsaid
    /\ Count(kept', {t \in Times : t + window > told'.until}) < Limit
=============================================================================
