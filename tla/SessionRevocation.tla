-------------------------- MODULE SessionRevocation --------------------------
(***************************************************************************)
(* Revoking the gateway sessions of one user: validateSession and          *)
(* /revoke-sessions in apps/signal/src/index.ts, the cutoff store of       *)
(* apps/signal/src/revocation.ts, the auth hook that calls it              *)
(* (apps/web/lib/auth/better-auth.ts) and the client that reconnects       *)
(* (apps/web/hooks/use-gateway.ts).                                        *)
(*                                                                         *)
(* Handshake tokens are checked on every gateway event, never at the       *)
(* handshake.  A token is good until it expires; a cutoff in Redis rejects *)
(* the ones minted before it and lives for RevocationTTL.  A validation is *)
(* cached, and for a while it stands in for a verification that throws.    *)
(*                                                                         *)
(* Time is counted in ticks, SecondTicks of them to a second: the cutoff   *)
(* is taken to the tick, a token's issued-at to the second.                *)
(***************************************************************************)
EXTENDS Integers, TLAPS

CONSTANTS
  Devices,        \* the user's devices, with a Better Auth session each
  Revokes,        \* requests that invalidate sessions, each on its own replica
  SecondTicks,    \* ticks in a second
  TokenLifetime,  \* lifetime of a handshake token, in ticks
  RevocationTTL,  \* REVOCATION_TTL_SECONDS
  CacheTTL,       \* SESSION_REVALIDATION_TTL_MS
  FallbackAge,    \* SESSION_FALLBACK_MAX_AGE_MS
  MaxDelay,       \* bound: ticks that one validateSession call takes
  MaxTime,        \* bound: the last tick
  Faults          \* TRUE: Redis, the JWKS endpoint and the revoke call may fail

ASSUME RevocationAssumption ==
  /\ SecondTicks \in Nat \ {0}
  /\ TokenLifetime \in Nat /\ RevocationTTL \in Nat
  /\ CacheTTL \in Nat /\ FallbackAge \in Nat
  /\ MaxDelay \in Nat /\ MaxTime \in Nat
  /\ CacheTTL <= FallbackAge
  /\ TokenLifetime + FallbackAge + 2 * MaxDelay <= RevocationTTL
  /\ Faults \in BOOLEAN

VARIABLES
  now,
  \* Redis
  cutoff,       \* vortex:revoked-user:{userId}: its value and its expiry
  \* the web app
  session,      \* whether the device's Better Auth session is in the database
  revoke,       \* the requests that invalidate sessions, while in flight
  \* per device, its current socket
  socket,       \* "up"; "down": lost; "dropped": disconnected by the server
  token,        \* when the token of the handshake was minted, 0 for none
  joined,       \* socket.data.userId is set and rooms are joined
  cache,        \* sessionValidationCache: validatedAt, 0 for no entry
  handler,      \* the gateway event being validated
  \* history
  lastCutoff,   \* the cutoff stored last
  newest,       \* the newest cutoff ever stored
  overtaken     \* an older cutoff has been stored over the newest one

history == <<lastCutoff, newest, overtaken>>
vars == <<now, cutoff, session, revoke, socket, token, joined, cache, handler,
          history>>

NoCutoff == [at |-> 0, until |-> 0]
\* pc, at, found: the gateway's handler, the cutoff it took, until it is
\* stored, and the sockets it will disconnect.  failed: fetchSockets did.
NoRevoke == [pc |-> "idle", at |-> 0, found |-> {}, failed |-> FALSE]

\* since: when it started; cached: the cache entry read then; readAt: when
\* the cutoff was read; seen: the cutoff that counted then.
Idle == [pc |-> "idle", since |-> 0, cached |-> 0, readAt |-> 0, seen |-> 0]

Init ==
  /\ now = 1
  /\ cutoff = NoCutoff
  /\ session = [d \in Devices |-> TRUE]
  /\ revoke = [v \in Revokes |-> NoRevoke]
  /\ socket = [d \in Devices |-> "down"]
  /\ token = [d \in Devices |-> 0]
  /\ joined = [d \in Devices |-> FALSE]
  /\ cache = [d \in Devices |-> 0]
  /\ handler = [d \in Devices |-> Idle]
  /\ lastCutoff = 0 /\ newest = 0 /\ overtaken = FALSE

-----------------------------------------------------------------------------
(* Tokens and cutoffs.                                                     *)

\* The issued-at claim has whole seconds.
Iat(minted) == minted - (minted % SecondTicks)

Expiry(minted) == Iat(minted) + TokenLifetime

\* isRevoked: an unexpired cutoff that is newer than the issued-at claim.
IsRevoked(minted) ==
  cutoff.at # 0 /\ now < cutoff.until /\ Iat(minted) < cutoff.at

\* The cutoff that counts: the newest one stored, or, after an older one was
\* stored over it, that one.
Counts == IF overtaken THEN lastCutoff ELSE newest

-----------------------------------------------------------------------------
\* Time passes; no validateSession call takes longer than MaxDelay.
Tick ==
  /\ now < MaxTime
  /\ \A d \in Devices :
       handler[d].pc # "idle" => now < handler[d].since + MaxDelay
  /\ now' = now + 1
  /\ UNCHANGED <<cutoff, session, revoke, socket, token, joined, cache,
                 handler, history>>

(* The client.                                                             *)

\* A new socket with token t: nothing of the old one carries over.
Open(d, t) ==
  /\ socket' = [socket EXCEPT ![d] = "up"]
  /\ token' = [token EXCEPT ![d] = t]
  /\ UNCHANGED <<now, cutoff, session, revoke, joined, cache, handler,
                 history>>

\* The page is loaded or reloaded.
PageLoad(d) ==
  /\ socket[d] # "up"
  /\ session[d]
  /\ Open(d, now)

\* Socket.IO reconnects after the transport was lost, with a fresh token or,
\* when none is to be had, with the one it first connected with.  After a
\* disconnect by the server it does not reconnect, and nobody listens to
\* vortex:realtime-retry.
Reconnect(d) ==
  /\ socket[d] = "down"
  /\ token[d] # 0
  /\ Open(d, IF session[d] THEN now ELSE token[d])

\* The socket is gone: its cache entry, its rooms and what its handlers were
\* about to do to it.
Gone(ds, state) ==
  /\ socket' = [d \in Devices |-> IF d \in ds THEN state ELSE socket[d]]
  /\ joined' = [d \in Devices |-> d \notin ds /\ joined[d]]
  /\ cache' = [d \in Devices |-> IF d \in ds THEN 0 ELSE cache[d]]
  /\ handler' = [d \in Devices |-> IF d \in ds THEN Idle ELSE handler[d]]

\* A socket that is gone is not disconnected any more.
Forget(d) ==
  revoke' = [v \in Revokes |-> [revoke[v] EXCEPT !.found = @ \ {d}]]

Lose(d) ==
  /\ socket[d] = "up"
  /\ Gone({d}, "down")
  /\ Forget(d)
  /\ UNCHANGED <<now, cutoff, session, token, history>>

-----------------------------------------------------------------------------
(* validateSession.                                                        *)

\* A gateway event arrives; the cache entry is read.
Event(d) ==
  /\ socket[d] = "up"
  /\ handler[d].pc = "idle"
  /\ LET fresh == cache[d] # 0 /\ now - cache[d] < CacheTTL
     IN  handler' = [handler EXCEPT ![d] =
           [Idle EXCEPT !.pc = IF fresh THEN "cached" ELSE "verify",
                        !.since = now, !.cached = cache[d]]]
  /\ UNCHANGED <<now, cutoff, session, revoke, socket, token, joined, cache, history>>

\* verifyAuthToken: the token is valid.
Verify(d) ==
  /\ handler[d].pc = "verify"
  /\ now < Expiry(token[d])
  /\ handler' = [handler EXCEPT ![d].pc = "verified"]
  /\ UNCHANGED <<now, cutoff, session, revoke, socket, token, joined, cache, history>>

\* The server disconnects the socket.
Drop(d) ==
  /\ Gone({d}, "dropped")
  /\ Forget(d)
  /\ UNCHANGED <<now, cutoff, session, token, history>>

\* It throws: the token has expired, or the keys cannot be fetched.  The
\* cached validation stands in, if it is young enough.
VerifyThrows(d) ==
  /\ handler[d].pc = "verify"
  /\ Faults \/ now >= Expiry(token[d])
  /\ IF handler[d].cached # 0 /\ now - handler[d].cached < FallbackAge
     THEN /\ handler' = [handler EXCEPT ![d].pc = "cached"]
          /\ UNCHANGED <<now, cutoff, session, revoke, socket, token, joined,
                         cache, history>>
     ELSE Drop(d)

\* isRevoked has read the cutoff.  "admit" goes on with what is cached,
\* "store" has a verification to cache.
Answered(h, minted) ==
  [h EXCEPT !.pc = IF IsRevoked(minted) THEN "revoked"
                   ELSE IF h.pc = "cached" THEN "admit" ELSE "store",
            !.readAt = now,
            !.seen = Counts]

Check(d) ==
  /\ handler[d].pc \in {"cached", "verified"}
  /\ handler' = [handler EXCEPT ![d] = Answered(handler[d], token[d])]
  /\ UNCHANGED <<now, cutoff, session, revoke, socket, token, joined, cache, history>>

\* The store cannot be reached: the session counts as revoked.
CheckFails(d) ==
  /\ Faults
  /\ handler[d].pc \in {"cached", "verified"}
  /\ Drop(d)

Reject(d) ==
  /\ handler[d].pc = "revoked"
  /\ Drop(d)

\* Faulty variant of Admit: the time elapsed is cached, not the clock.
AdmitElapsed(d) ==
  /\ handler[d].pc \in {"admit", "store"}
  /\ cache' = [cache EXCEPT ![d] = handler[d].since - now]
  /\ joined' = [joined EXCEPT ![d] = TRUE]
  /\ handler' = [handler EXCEPT ![d] = Idle]
  /\ UNCHANGED <<now, cutoff, session, revoke, socket, token, history>>

\* Faulty variant of Admit: every accepted event renews the cache entry.
AdmitRenews(d) ==
  /\ handler[d].pc \in {"admit", "store"}
  /\ cache' = [cache EXCEPT ![d] = now]
  /\ joined' = [joined EXCEPT ![d] = TRUE]
  /\ handler' = [handler EXCEPT ![d] = Idle]
  /\ UNCHANGED <<now, cutoff, session, revoke, socket, token, history>>

\* validateSession returns true: the event's handler identifies the socket
\* and joins rooms.
Admit(d) ==
  /\ handler[d].pc \in {"admit", "store"}
  /\ cache' = [cache EXCEPT ![d] = IF handler[d].pc = "store" THEN now ELSE @]
  /\ joined' = [joined EXCEPT ![d] = TRUE]
  /\ handler' = [handler EXCEPT ![d] = Idle]
  /\ UNCHANGED <<now, cutoff, session, revoke, socket, token, history>>

-----------------------------------------------------------------------------
(* A request that invalidates sessions (sign-out, password change, ...).   *)

\* The before hook calls /revoke-sessions.
RevokeCall(v) ==
  /\ revoke[v].pc = "idle"
  /\ \E d \in Devices : session[d]
  /\ revoke' = [revoke EXCEPT ![v] = [NoRevoke EXCEPT !.pc = "call"]]
  /\ UNCHANGED <<now, cutoff, session, socket, token, joined, cache, handler, history>>

\* revoke() takes the time before it awaits the SET.
RevokeStamp(v) ==
  /\ revoke[v].pc = "call"
  /\ revoke' = [revoke EXCEPT ![v].pc = "stamped", ![v].at = now]
  /\ UNCHANGED <<now, cutoff, session, socket, token, joined, cache, handler, history>>

\* Faulty variant of RevokePersist: the cutoff is kept for CacheTTL only.
RevokePersistBriefly(v) ==
  /\ revoke[v].pc = "stamped"
  /\ cutoff' = [at |-> revoke[v].at, until |-> now + CacheTTL]
  /\ lastCutoff' = revoke[v].at
  /\ newest' = IF newest < revoke[v].at THEN revoke[v].at ELSE newest
  /\ overtaken' = (revoke[v].at < newest)
  /\ revoke' = [revoke EXCEPT ![v].pc = "persisted", ![v].at = 0]
  /\ UNCHANGED <<now, session, socket, token, joined, cache, handler>>

\* Redis stores the cutoff, whatever is there.
RevokePersist(v) ==
  /\ revoke[v].pc = "stamped"
  /\ cutoff' = [at |-> revoke[v].at, until |-> now + RevocationTTL]
  /\ lastCutoff' = revoke[v].at
  /\ newest' = IF newest < revoke[v].at THEN revoke[v].at ELSE newest
  /\ overtaken' = (revoke[v].at < newest)
  /\ revoke' = [revoke EXCEPT ![v].pc = "persisted", ![v].at = 0]
  /\ UNCHANGED <<now, session, socket, token, joined, cache, handler>>

\* Faulty variant of RevokeFetch: only devices that are signed out already.
RevokeFetchSignedOut(v) ==
  /\ revoke[v].pc = "persisted"
  /\ revoke' = [revoke EXCEPT
       ![v].pc = "fetched", ![v].found = {d \in Devices : joined[d] /\ ~session[d]}]
  /\ UNCHANGED <<now, cutoff, session, socket, token, joined, cache, handler, history>>

\* fetchSockets: the sockets known to be the user's.
RevokeFetch(v) ==
  /\ revoke[v].pc = "persisted"
  /\ revoke' = [revoke EXCEPT ![v].pc = "fetched",
                              ![v].found = {d \in Devices : joined[d]}]
  /\ UNCHANGED <<now, cutoff, session, socket, token, joined, cache, handler, history>>

RevokeDrop(v) ==
  /\ revoke[v].pc = "fetched"
  /\ Gone(revoke[v].found, "dropped")
  /\ revoke' = [w \in Revokes |->
       [revoke[w] EXCEPT !.found = @ \ revoke[v].found,
                         !.pc = IF w = v THEN "done" ELSE @]]
  /\ UNCHANGED <<now, cutoff, session, token, history>>

\* The call, the SET or fetchSockets fails: the web app logs it and goes on.
RevokeFails(v) ==
  /\ Faults
  /\ revoke[v].pc \in {"call", "stamped", "persisted"}
  /\ revoke' = [revoke EXCEPT ![v].pc = "done", ![v].at = 0,
                              ![v].failed = (revoke[v].pc = "persisted")]
  /\ UNCHANGED <<now, cutoff, session, socket, token, joined, cache, handler, history>>

\* The request goes through and deletes the sessions of ds.  The web app may
\* have given up on the gateway, whose handler goes on.
Invalidate(v, ds) ==
  /\ revoke[v].pc = "done" \/ (Faults /\ revoke[v].pc # "idle")
  /\ session' = [d \in Devices |-> d \notin ds /\ session[d]]
  /\ UNCHANGED <<now, cutoff, revoke, socket, token, joined, cache, handler, history>>

-----------------------------------------------------------------------------
ValidateStep(d) ==
  \/ Verify(d) \/ VerifyThrows(d)
  \/ Check(d) \/ CheckFails(d) \/ Reject(d) \/ Admit(d)

RevokeStep(v) ==
  \/ RevokeStamp(v) \/ RevokePersist(v) \/ RevokeFetch(v) \/ RevokeDrop(v)
  \/ RevokeFails(v)

Next ==
  \/ Tick
  \/ \E d \in Devices :
       \/ PageLoad(d) \/ Reconnect(d) \/ Lose(d) \/ Event(d)
       \/ ValidateStep(d)
  \/ \E v \in Revokes :
       RevokeCall(v) \/ RevokeStep(v) \/ \E ds \in SUBSET Devices : Invalidate(v, ds)

Spec == Init /\ [][Next]_vars

\* A revocation in flight comes to an end.
Fairness == \A v \in Revokes : WF_vars(RevokeStep(v))

FairSpec == Spec /\ Fairness

-----------------------------------------------------------------------------
(* Properties.                                                             *)

Handler ==
  [pc : {"idle", "cached", "verify", "verified", "admit", "store", "revoked"},
   since : Nat, cached : Nat, readAt : Nat, seen : Nat]

Request ==
  [pc : {"idle", "call", "stamped", "persisted", "fetched", "done"},
   at : Nat, found : SUBSET Devices, failed : BOOLEAN]

TypeOK ==
  /\ now \in Nat
  /\ cutoff \in [at : Nat, until : Nat]
  /\ session \in [Devices -> BOOLEAN]
  /\ revoke \in [Revokes -> Request]
  /\ socket \in [Devices -> {"up", "down", "dropped"}]
  /\ token \in [Devices -> Nat]
  /\ joined \in [Devices -> BOOLEAN]
  /\ cache \in [Devices -> Nat]
  /\ handler \in [Devices -> Handler]
  /\ lastCutoff \in Nat /\ newest \in Nat
  /\ overtaken \in BOOLEAN

Accepted(d) == handler[d].pc \in {"admit", "store"}

\* A token minted before the newest cutoff stored when the check ran is never
\* accepted: not on the cached path, not when the verification throws, and
\* not after the cutoff has expired from Redis.  Only when two replicas
\* revoke at once may the older cutoff be stored over the newer one: then the
\* tokens minted before the older one are rejected.
RevokedNeverAdmitted ==
  \A d \in Devices : Accepted(d) => token[d] >= handler[d].seen

\* The fallback does not prolong itself: an expired token is accepted for
\* FallbackAge plus the time that calls take, however many events come.
ExpiredTokenLapses ==
  \A d \in Devices :
    Accepted(d) =>
      handler[d].readAt < Expiry(token[d]) + FallbackAge + 2 * MaxDelay

\* Every socket that was identified when the cutoff was stored is
\* disconnected, unless fetchSockets fails.
RevocationDisconnects ==
  \A d \in Devices, v \in Revokes :
    (revoke[v].pc = "persisted" /\ joined[d]) ~> (~joined[d] \/ revoke[v].failed)
-----------------------------------------------------------------------------
(***************************************************************************)
(* No revoked token is ever accepted, and an expired one lapses, for every *)
(* set of devices and all lifetimes with                                   *)
(* TokenLifetime + FallbackAge + 2 * MaxDelay <= RevocationTTL.            *)
(*                                                                         *)
(* The argument: what the checks go through in (DeviceInv) bounds the time *)
(* at which the cutoff of a token is still looked up by its expiry plus    *)
(* FallbackAge + 2 * MaxDelay.  A cutoff newer than the token is in Redis  *)
(* for at least that long (CutoffInv).                                     *)
(***************************************************************************)

\* The entry in Redis is the cutoff stored last, which is the newest one
\* unless that was overtaken, and has at least the full time to live.
CutoffInv ==
  /\ cutoff.at = lastCutoff
  /\ lastCutoff # 0 => cutoff.until >= lastCutoff + RevocationTTL
  /\ Counts = lastCutoff
  /\ \A v \in Revokes : revoke[v].at <= now

\* Cached validations date from before the token's expiry, up to the delay of
\* the call that stored them, and so do those that calls in flight have read.
DeviceInv(d) ==
  /\ cache[d] # 0 \/ handler[d].pc # "idle" => socket[d] = "up"
  /\ cache[d] # 0 => cache[d] < Expiry(token[d]) + MaxDelay
  /\ handler[d].pc # "idle" =>
       /\ handler[d].since <= now
       /\ now <= handler[d].since + MaxDelay
  /\ handler[d].pc # "idle" /\ handler[d].cached # 0 =>
       handler[d].cached < Expiry(token[d]) + MaxDelay
  /\ handler[d].pc = "cached" =>
       handler[d].since < Expiry(token[d]) + FallbackAge + MaxDelay
  /\ handler[d].pc \in {"verified", "store"} =>
       handler[d].since < Expiry(token[d])
  /\ Accepted(d) =>
       /\ token[d] >= handler[d].seen
       /\ handler[d].readAt < Expiry(token[d]) + FallbackAge + 2 * MaxDelay

RevocationInv ==
  /\ TypeOK
  /\ CutoffInv
  /\ \A d \in Devices : DeviceInv(d)

-----------------------------------------------------------------------------
\* The issued-at claim is an integer and not later than the minting.
LEMMA IatBound ==
  ASSUME NEW m \in Nat
  PROVE  /\ Iat(m) \in Int /\ Iat(m) <= m
         /\ Expiry(m) \in Int /\ Expiry(m) <= m + TokenLifetime
<1>1. m % SecondTicks \in Nat
  BY RevocationAssumption
<1>2. QED
  BY <1>1, RevocationAssumption DEF Iat, Expiry

\* A device whose socket, token, cache entry and handler stay as they are
\* keeps its invariant while time stands still.
LEMMA DeviceFrame ==
  ASSUME NEW d \in Devices, DeviceInv(d), now' = now,
         socket'[d] = socket[d], token'[d] = token[d],
         cache'[d] = cache[d], handler'[d] = handler[d]
  PROVE  DeviceInv(d)'
BY DEF DeviceInv, Accepted, Expiry, Iat

\* What Gone does to the devices of ds and to the others.
LEMMA GoneShape ==
  ASSUME TypeOK, NEW ds \in SUBSET Devices, NEW st \in {"down", "dropped"},
         Gone(ds, st)
  PROVE  /\ socket' \in [Devices -> {"up", "down", "dropped"}]
         /\ joined' \in [Devices -> BOOLEAN]
         /\ cache' \in [Devices -> Nat]
         /\ handler' \in [Devices -> Handler]
         /\ \A d \in ds : cache'[d] = 0 /\ handler'[d] = Idle
         /\ \A d \in Devices \ ds :
              /\ socket'[d] = socket[d]
              /\ cache'[d] = cache[d]
              /\ handler'[d] = handler[d]
<1>1. Idle \in Handler
  BY DEF Idle, Handler
<1>2. QED
  BY <1>1 DEF Gone, TypeOK

\* A device without cache entry and handler satisfies its invariant.
LEMMA DeviceIdle ==
  ASSUME NEW d \in Devices, cache[d] = 0, handler[d] = Idle
  PROVE  DeviceInv(d)
BY DEF DeviceInv, Accepted, Idle

\* A socket that is forgotten leaves the requests as they are otherwise.
LEMMA ForgetShape ==
  ASSUME TypeOK, NEW d \in Devices, Forget(d)
  PROVE  /\ revoke' \in [Revokes -> Request]
         /\ \A v \in Revokes : revoke'[v].at = revoke[v].at
BY DEF Forget, TypeOK, Request

LEMMA CountsNat == TypeOK => Counts \in Nat
<1>1. CASE overtaken
  BY <1>1 DEF TypeOK, Counts
<1>2. CASE ~overtaken
  BY <1>2 DEF TypeOK, Counts
<1>3. QED
  BY <1>1, <1>2

LEMMA TypeInit == Init => TypeOK
<1> SUFFICES ASSUME Init PROVE TypeOK
  OBVIOUS
<1>1. Idle \in Handler
  BY DEF Handler, Idle
<1>2. NoRevoke \in Request
  BY DEF Request, NoRevoke
<1>3. NoCutoff \in [at : Nat, until : Nat]
  BY DEF NoCutoff
<1>4. overtaken \in BOOLEAN
  BY DEF Init
<1>5. session \in [Devices -> BOOLEAN] /\ joined \in [Devices -> BOOLEAN]
  BY DEF Init
<1>6. /\ now \in Nat /\ cutoff \in [at : Nat, until : Nat]
      /\ lastCutoff \in Nat /\ newest \in Nat
  BY <1>3 DEF Init
<1>7. /\ revoke \in [Revokes -> Request] /\ handler \in [Devices -> Handler]
      /\ socket \in [Devices -> {"up", "down", "dropped"}]
      /\ token \in [Devices -> Nat] /\ cache \in [Devices -> Nat]
  BY <1>1, <1>2 DEF Init
<1>8. QED
  BY <1>4, <1>5, <1>6, <1>7 DEF TypeOK

\* The steps of the client and of time keep the types.
LEMMA TypeClient ==
  ASSUME TypeOK, NEW d \in Devices,
         Tick \/ PageLoad(d) \/ Reconnect(d) \/ Lose(d) \/ Event(d)
  PROVE  TypeOK'
<1>1. CASE Tick
  BY <1>1 DEF Tick, history, TypeOK
<1>2. CASE PageLoad(d)
  BY <1>2 DEF PageLoad, Open, history, TypeOK
<1>3. CASE Reconnect(d)
  <2>1. (IF session[d] THEN now ELSE token[d]) \in Nat
    BY DEF TypeOK
  <2>2. QED
    BY <1>3, <2>1 DEF Reconnect, Open, history, TypeOK
<1>4. CASE Lose(d)
  BY <1>4, GoneShape, ForgetShape, {d} \in SUBSET Devices DEF Lose, history, TypeOK
<1>5. CASE Event(d)
  <2>1. [Idle EXCEPT !.pc = IF cache[d] # 0 /\ now - cache[d] < CacheTTL
                            THEN "cached" ELSE "verify",
                     !.since = now, !.cached = cache[d]] \in Handler
    BY DEF TypeOK, Handler, Idle
  <2>2. QED
    BY <1>5, <2>1 DEF Event, history, TypeOK
<1>6. QED
  BY <1>1, <1>2, <1>3, <1>4, <1>5

\* The steps of validateSession keep the types.
LEMMA TypeDrop ==
  ASSUME TypeOK, NEW d \in Devices, Drop(d)
  PROVE  TypeOK'
BY GoneShape, ForgetShape, {d} \in SUBSET Devices DEF Drop, history, TypeOK

LEMMA TypeValidate ==
  ASSUME TypeOK, NEW d \in Devices, ValidateStep(d)
  PROVE  TypeOK'
<1>0. handler[d] \in Handler
  BY DEF TypeOK
<1>1. CASE Verify(d)
  <2>1. [handler[d] EXCEPT !.pc = "verified"] \in Handler
    BY <1>0 DEF Handler
  <2>2. handler' = [handler EXCEPT ![d] = [handler[d] EXCEPT !.pc = "verified"]]
    BY <1>1 DEF Verify
  <2>3. QED
    BY <1>1, <2>1, <2>2 DEF Verify, history, TypeOK
<1>2. CASE VerifyThrows(d)
  <2>1. CASE Drop(d)
    BY <2>1, TypeDrop
  <2>2. CASE ~Drop(d)
    <3>1. [handler[d] EXCEPT !.pc = "cached"] \in Handler
      BY <1>0 DEF Handler
    <3>2. handler' = [handler EXCEPT ![d] = [handler[d] EXCEPT !.pc = "cached"]]
      BY <1>2, <2>2 DEF VerifyThrows
    <3>3. QED
      BY <1>2, <2>2, <3>1, <3>2 DEF VerifyThrows, history, TypeOK
  <2>3. QED
    BY <2>1, <2>2
<1>3. CASE Check(d)
  <2>1. handler[d] \in Handler
    BY DEF TypeOK
  <2>2. Answered(handler[d], token[d]) \in Handler
    BY <2>1, CountsNat DEF Answered, TypeOK, Handler
  <2>3. QED
    BY <1>3, <2>2 DEF Check, history, TypeOK
<1>4. CASE CheckFails(d) \/ Reject(d)
  BY <1>4, TypeDrop DEF CheckFails, Reject
<1>5. CASE Admit(d)
  <2>1. Idle \in Handler
    BY DEF Idle, Handler
  <2>2. QED
    BY <1>5, <2>1 DEF Admit, history, TypeOK
<1>6. QED
  BY <1>1, <1>2, <1>3, <1>4, <1>5 DEF ValidateStep

\* The steps of the revocation keep the types.
LEMMA TypeRevoke ==
  ASSUME TypeOK, NEW v \in Revokes,
         \/ RevokeCall(v) \/ RevokeStep(v)
         \/ \E ds \in SUBSET Devices : Invalidate(v, ds)
  PROVE  TypeOK'
<1>1. CASE RevokeCall(v)
  <2>1. [NoRevoke EXCEPT !.pc = "call"] \in Request
    BY DEF NoRevoke, Request
  <2>2. QED
    BY <1>1, <2>1 DEF RevokeCall, TypeOK, history
<1>2. CASE RevokeStamp(v)
  <2>1. [revoke[v] EXCEPT !.pc = "stamped", !.at = now] \in Request
    <3>1. revoke[v] \in Request /\ now \in Nat
      BY DEF TypeOK
    <3>2. QED
      BY <3>1 DEF Request
  <2>2. revoke' = [revoke EXCEPT ![v] = [revoke[v] EXCEPT !.pc = "stamped", !.at = now]]
    BY <1>2 DEF RevokeStamp
  <2>3. QED
    BY <1>2, <2>1, <2>2 DEF RevokeStamp, TypeOK, history
<1>3. CASE RevokePersist(v)
  <2>1. /\ revoke[v].at \in Nat /\ now + RevocationTTL \in Nat
        /\ revoke' \in [Revokes -> Request]
    <3>1. revoke[v] \in Request /\ [revoke[v] EXCEPT !.pc = "persisted", !.at = 0] \in Request
      BY DEF TypeOK, Request
    <3>2. revoke' = [revoke EXCEPT ![v] = [revoke[v] EXCEPT !.pc = "persisted", !.at = 0]]
      BY <1>3 DEF RevokePersist
    <3>3. QED
      BY <3>1, <3>2, RevocationAssumption DEF TypeOK, Request
  <2>2. lastCutoff' \in Nat /\ newest' \in Nat /\ overtaken' \in BOOLEAN
    BY <1>3, <2>1 DEF RevokePersist, TypeOK
  <2>3. QED
    BY <1>3, <2>1, <2>2 DEF RevokePersist, TypeOK
<1>4. CASE RevokeFetch(v)
  <2>1. [revoke[v] EXCEPT !.pc = "fetched", !.found = {d \in Devices : joined[d]}]
          \in Request
    <3>1. revoke[v] \in Request /\ {d \in Devices : joined[d]} \in SUBSET Devices
      BY DEF TypeOK
    <3>2. QED
      BY <3>1 DEF Request
  <2>2. revoke' = [revoke EXCEPT ![v] = [revoke[v] EXCEPT !.pc = "fetched",
                                           !.found = {d \in Devices : joined[d]}]]
    BY <1>4 DEF RevokeFetch
  <2>3. revoke' \in [Revokes -> Request]
    BY <2>1, <2>2 DEF TypeOK
  <2>4. QED
    BY <1>4, <2>3 DEF RevokeFetch, TypeOK, history
<1>5. CASE RevokeDrop(v)
  <2>1. revoke[v].found \in SUBSET Devices
    BY DEF TypeOK, Request
  <2>2. revoke' \in [Revokes -> Request]
    <3>1. ASSUME NEW w \in Revokes
          PROVE  [revoke[w] EXCEPT !.found = @ \ revoke[v].found,
                                   !.pc = IF w = v THEN "done" ELSE @] \in Request
      <4>1. revoke[w] \in Request /\ revoke[w].found \ revoke[v].found \in SUBSET Devices
        BY DEF TypeOK, Request
      <4>2. (IF w = v THEN "done" ELSE revoke[w].pc) \in
              {"idle", "call", "stamped", "persisted", "fetched", "done"}
        BY <4>1 DEF Request
      <4>3. QED
        BY <4>1, <4>2 DEF Request
    <3>2. QED
      BY <1>5, <3>1 DEF RevokeDrop
  <2>3. QED
    BY <1>5, <2>1, <2>2, GoneShape DEF RevokeDrop, TypeOK, history
<1>6. CASE RevokeFails(v)
  <2>1. [revoke[v] EXCEPT !.pc = "done", !.at = 0,
                          !.failed = (revoke[v].pc = "persisted")] \in Request
    <3>1. revoke[v] \in Request
      BY DEF TypeOK
    <3>2. QED
      BY <3>1 DEF Request
  <2>2. revoke' = [revoke EXCEPT ![v] = [revoke[v] EXCEPT !.pc = "done", !.at = 0,
                                           !.failed = (revoke[v].pc = "persisted")]]
    BY <1>6 DEF RevokeFails
  <2>3. QED
    BY <1>6, <2>1, <2>2 DEF RevokeFails, TypeOK, history
<1>7. ASSUME NEW ds \in SUBSET Devices, Invalidate(v, ds)
      PROVE  TypeOK'
  BY <1>7 DEF Invalidate, TypeOK, history
<1>8. QED
  BY <1>1, <1>2, <1>3, <1>4, <1>5, <1>6, <1>7 DEF RevokeStep

LEMMA TypeNext == TypeOK /\ [Next]_vars => TypeOK'
<1>1. ASSUME TypeOK, Next PROVE TypeOK'
  <2>1. CASE Tick
    <3>1. CASE Devices = {}
      BY <1>1, <2>1, <3>1 DEF Tick, TypeOK, history
    <3>2. CASE Devices # {}
      BY <1>1, <2>1, <3>2, TypeClient
    <3>3. QED
      BY <3>1, <3>2
  <2>2. ASSUME NEW d \in Devices,
               PageLoad(d) \/ Reconnect(d) \/ Lose(d) \/ Event(d)
        PROVE  TypeOK'
    BY <1>1, <2>2, TypeClient
  <2>3. ASSUME NEW d \in Devices, ValidateStep(d) PROVE TypeOK'
    BY <1>1, <2>3, TypeValidate
  <2>4. ASSUME NEW v \in Revokes,
               \/ RevokeCall(v) \/ RevokeStep(v)
               \/ \E ds \in SUBSET Devices : Invalidate(v, ds)
        PROVE  TypeOK'
    BY <1>1, <2>4, TypeRevoke
  <2>5. QED
    BY <1>1, <2>1, <2>2, <2>3, <2>4 DEF Next
<1>2. CASE UNCHANGED vars
  BY <1>2 DEF vars, history, TypeOK
<1>3. QED
  BY <1>1, <1>2

-----------------------------------------------------------------------------
\* Only RevokePersist writes the cutoff, and no request is ahead of the clock.
LEMMA CutoffNext == CutoffInv /\ TypeOK /\ [Next]_vars => CutoffInv'
<1> SUFFICES ASSUME CutoffInv, TypeOK, [Next]_vars PROVE CutoffInv'
  OBVIOUS
<1>0. now \in Nat /\ \A v \in Revokes : revoke[v] \in Request /\ revoke[v].at \in Nat
  BY DEF TypeOK, Request
<1>1. ASSUME NEW v \in Revokes, RevokePersist(v)
      PROVE  CutoffInv'
  <2>1. /\ cutoff' = [at |-> revoke[v].at, until |-> now + RevocationTTL]
        /\ lastCutoff' = revoke[v].at /\ now' = now
        /\ revoke[v].at <= now
    BY <1>1 DEF RevokePersist, CutoffInv
  <2>2. cutoff'.until >= lastCutoff' + RevocationTTL
    BY <1>0, <2>1, RevocationAssumption
  <2>3. Counts' = lastCutoff'
    <3>1. revoke[v].at \in Nat /\ newest \in Nat
      BY <1>0 DEF TypeOK
    <3>2. CASE revoke[v].at < newest
      BY <2>1, <3>2, <1>1 DEF RevokePersist, Counts
    <3>3. CASE ~(revoke[v].at < newest)
      <4>1. newest' = revoke[v].at
        BY <1>1, <3>1, <3>3 DEF RevokePersist
      <4>2. ~overtaken'
        BY <1>1, <3>3 DEF RevokePersist
      <4>3. QED
        BY <2>1, <4>1, <4>2 DEF Counts
    <3>4. QED
      BY <3>2, <3>3
  <2>4. \A w \in Revokes : revoke'[w].at <= now
    BY <1>0, <1>1 DEF RevokePersist, CutoffInv, TypeOK
  <2>5. QED
    BY <2>1, <2>2, <2>3, <2>4 DEF CutoffInv
\* The other steps.
<1>2. ASSUME UNCHANGED <<cutoff, history>>, now' \in Nat, now <= now',
             \A v \in Revokes : revoke'[v].at \in {revoke[v].at, 0, now}
      PROVE  CutoffInv'
  <2>1. \A v \in Revokes : revoke'[v].at <= now'
    BY <1>0, <1>2 DEF CutoffInv
  <2>2. QED
    BY <1>2, <2>1 DEF CutoffInv, Counts, history
<1>3. CASE UNCHANGED vars \/ Tick
  <2>1. CASE UNCHANGED vars
    BY <1>0, <1>2, <2>1 DEF vars
  <2>2. CASE Tick
    <3>1. now' \in Nat /\ now <= now' /\ UNCHANGED <<cutoff, revoke, history>>
      BY <1>0, <2>2 DEF Tick
    <3>2. QED
      BY <1>2, <3>1
  <2>3. QED
    BY <1>3, <2>1, <2>2
<1>4. ASSUME NEW d \in Devices, Lose(d) \/ Drop(d)
      PROVE  CutoffInv'
  BY <1>0, <1>2, <1>4, ForgetShape DEF Lose, Drop
<1>5. ASSUME NEW d \in Devices,
             PageLoad(d) \/ Reconnect(d) \/ Event(d) \/ Verify(d) \/ VerifyThrows(d)
               \/ Check(d) \/ Admit(d)
      PROVE  CutoffInv'
  <2>1. Drop(d) \/ UNCHANGED <<now, cutoff, revoke, history>>
    BY <1>5 DEF PageLoad, Reconnect, Open, Event, Verify, VerifyThrows, Check, Admit
  <2>2. QED
    BY <1>0, <1>2, <1>4, <2>1
<1>6. ASSUME NEW v \in Revokes,
             RevokeCall(v) \/ RevokeStamp(v) \/ RevokeFetch(v) \/ RevokeFails(v)
      PROVE  CutoffInv'
  <2>1. UNCHANGED <<now, cutoff, history>>
    BY <1>6 DEF RevokeCall, RevokeStamp, RevokeFetch, RevokeFails
  <2>2. PICK r : revoke' = [revoke EXCEPT ![v] = r] /\ r.at \in {revoke[v].at, 0, now}
    BY <1>0, <1>6 DEF RevokeCall, RevokeStamp, RevokeFetch, RevokeFails, NoRevoke,
      Request
  <2>3. \A w \in Revokes : revoke'[w].at \in {revoke[w].at, 0, now}
    BY <2>2 DEF TypeOK
  <2>4. QED
    BY <1>0, <1>2, <2>1, <2>3
<1>9. ASSUME NEW v \in Revokes, NEW ds \in SUBSET Devices, Invalidate(v, ds)
      PROVE  CutoffInv'
  BY <1>0, <1>2, <1>9 DEF Invalidate
<1>7. ASSUME NEW v \in Revokes, RevokeDrop(v)
      PROVE  CutoffInv'
  <2>1. UNCHANGED <<now, cutoff, history>>
    BY <1>7 DEF RevokeDrop
  <2>2. \A w \in Revokes : revoke'[w].at = revoke[w].at
    BY <1>0, <1>7 DEF RevokeDrop, Request
  <2>3. QED
    BY <1>0, <1>2, <2>1, <2>2
<1>8. QED
  BY <1>1, <1>3, <1>4, <1>5, <1>6, <1>7, <1>9 DEF Next, ValidateStep, CheckFails,
    Reject, RevokeStep

-----------------------------------------------------------------------------
\* The steps that can disturb DeviceInv(d) are those of d itself, Tick and the
\* ones that close sockets.
LEMMA DeviceTick ==
  ASSUME TypeOK, NEW d \in Devices, DeviceInv(d), Tick
  PROVE  DeviceInv(d)'
<1>1. /\ now \in Nat /\ now' = now + 1
      /\ handler[d].pc # "idle" => now < handler[d].since + MaxDelay
      /\ handler[d].since \in Nat
  BY DEF Tick, TypeOK, Handler
<1>2. /\ socket'[d] = socket[d] /\ token'[d] = token[d]
      /\ cache'[d] = cache[d] /\ handler'[d] = handler[d]
  BY DEF Tick
<1>3. handler[d].pc # "idle" =>
        /\ handler'[d].since <= now'
        /\ now' <= handler'[d].since + MaxDelay
  BY <1>1, <1>2, RevocationAssumption DEF DeviceInv
<1>4. QED
  BY <1>2, <1>3 DEF DeviceInv, Accepted, Expiry, Iat

LEMMA DeviceOpen ==
  ASSUME TypeOK, NEW d \in Devices, DeviceInv(d), NEW e \in Devices,
         PageLoad(e) \/ Reconnect(e)
  PROVE  DeviceInv(d)'
<1>1. CASE d = e
  <2>1. cache[d] = 0 /\ handler[d].pc = "idle"
    BY <1>1 DEF DeviceInv, PageLoad, Reconnect
  <2>2. cache'[d] = 0 /\ handler'[d].pc = "idle"
    BY <2>1 DEF PageLoad, Reconnect, Open
  <2>3. QED
    BY <2>2 DEF DeviceInv, Accepted
<1>2. CASE d # e
  <2>1. /\ now' = now
        /\ socket'[d] = socket[d] /\ token'[d] = token[d]
        /\ cache'[d] = cache[d] /\ handler'[d] = handler[d]
    BY <1>2 DEF PageLoad, Reconnect, Open, TypeOK
  <2>2. QED
    BY <2>1, DeviceFrame
<1>3. QED
  BY <1>1, <1>2

\* Sockets that go away take their cache entry and handler with them.
LEMMA DeviceGone ==
  ASSUME TypeOK, NEW d \in Devices, DeviceInv(d),
         NEW ds \in SUBSET Devices, NEW st \in {"down", "dropped"},
         Gone(ds, st), now' = now, token' = token
  PROVE  DeviceInv(d)'
<1>1. CASE d \in ds
  <2>1. cache'[d] = 0 /\ handler'[d] = Idle
    BY <1>1, GoneShape
  <2>2. QED
    BY <2>1 DEF DeviceInv, Accepted, Idle
<1>2. CASE d \notin ds
  <2>1. /\ socket'[d] = socket[d]
        /\ cache'[d] = cache[d] /\ handler'[d] = handler[d]
    BY <1>2, GoneShape
  <2>2. QED
    BY <2>1, DeviceFrame
<1>3. QED
  BY <1>1, <1>2

LEMMA DeviceEvent ==
  ASSUME TypeOK, NEW d \in Devices, DeviceInv(d), Event(d)
  PROVE  DeviceInv(d)'
<1> DEFINE h == handler'[d]
           X == Expiry(token[d])
<1>1. /\ h.pc = IF cache[d] # 0 /\ now - cache[d] < CacheTTL
                THEN "cached" ELSE "verify"
      /\ h.since = now /\ h.cached = cache[d]
  BY DEF Event, TypeOK, Handler, Idle
<1>2. /\ now' = now /\ socket'[d] = "up" /\ token'[d] = token[d]
      /\ cache'[d] = cache[d]
  BY DEF Event
<1>3. X \in Int /\ now \in Nat /\ cache[d] \in Nat
  BY IatBound DEF TypeOK
<1>4. cache[d] # 0 => cache[d] < X + MaxDelay
  BY DEF DeviceInv
<1>5. h.pc = "cached" => h.since < X + FallbackAge + MaxDelay
  BY <1>1, <1>3, <1>4, RevocationAssumption
<1>6. h.since <= now /\ now <= h.since + MaxDelay
  BY <1>1, <1>3, RevocationAssumption
<1>7. (Expiry(token[d]))' = X
  BY <1>2 DEF Expiry, Iat
<1>8. h.pc \in {"cached", "verify"}
  BY <1>1
<1>9. QED
  BY <1>1, <1>2, <1>4, <1>5, <1>6, <1>7, <1>8 DEF DeviceInv, Accepted

LEMMA DeviceVerify ==
  ASSUME TypeOK, NEW d \in Devices, DeviceInv(d), Verify(d)
  PROVE  DeviceInv(d)'
<1> DEFINE X == Expiry(token[d])
<1>1. /\ handler'[d].pc = "verified"
      /\ handler'[d].since = handler[d].since
      /\ handler'[d].cached = handler[d].cached
  BY DEF Verify, TypeOK, Handler
<1>2. /\ now' = now /\ socket'[d] = socket[d] /\ token'[d] = token[d]
      /\ cache'[d] = cache[d]
  BY DEF Verify
<1>3. handler[d].since <= now /\ now <= handler[d].since + MaxDelay
  BY DEF DeviceInv, Verify
<1>4. handler[d].since < X
  <2>1. X \in Int /\ now \in Nat /\ handler[d].since \in Nat /\ now < X
    BY IatBound DEF TypeOK, Handler, Verify
  <2>2. QED
    BY <1>3, <2>1
<1>5. (Expiry(token[d]))' = X
  BY <1>2 DEF Expiry, Iat
<1>6. handler[d].pc = "verify"
  BY DEF Verify
<1>7. QED
  BY <1>1, <1>2, <1>3, <1>4, <1>5, <1>6 DEF DeviceInv, Accepted

\* The fallback: the cached validation is younger than FallbackAge.
LEMMA DeviceFallback ==
  ASSUME TypeOK, NEW d \in Devices, DeviceInv(d), VerifyThrows(d), ~Drop(d)
  PROVE  DeviceInv(d)'
<1> DEFINE X == Expiry(token[d])
<1>1. /\ handler[d].pc = "verify"
      /\ handler[d].cached # 0 /\ now - handler[d].cached < FallbackAge
      /\ handler' = [handler EXCEPT ![d].pc = "cached"]
      /\ now' = now /\ socket' = socket /\ token' = token /\ cache' = cache
  BY DEF VerifyThrows
<1>2. /\ handler'[d].pc = "cached"
      /\ handler'[d].since = handler[d].since
      /\ handler'[d].cached = handler[d].cached
  BY <1>1 DEF TypeOK, Handler
<1>3. /\ handler[d].since <= now /\ now <= handler[d].since + MaxDelay
      /\ handler[d].cached < X + MaxDelay
  BY <1>1 DEF DeviceInv
<1>4. handler[d].since < X + FallbackAge + MaxDelay
  <2>1. /\ X \in Int /\ now \in Nat
        /\ handler[d].since \in Nat /\ handler[d].cached \in Nat
    BY IatBound DEF TypeOK, Handler
  <2>2. QED
    BY <1>1, <1>3, <2>1, RevocationAssumption
<1>5. (Expiry(token[d]))' = X
  BY <1>1 DEF Expiry, Iat
<1>6. QED
  BY <1>1, <1>2, <1>3, <1>4, <1>5 DEF DeviceInv, Accepted

\* The heart of the argument: a token older than the newest cutoff finds that
\* cutoff in Redis.
LEMMA DeviceCheck ==
  ASSUME TypeOK, CutoffInv, NEW d \in Devices, DeviceInv(d), Check(d)
  PROVE  DeviceInv(d)'
<1> DEFINE X == Expiry(token[d])
           h == handler[d]
<1>1. /\ handler'[d] = Answered(h, token[d])
      /\ now' = now /\ socket' = socket /\ token' = token /\ cache' = cache
      /\ h.pc \in {"cached", "verified"}
  BY DEF Check, TypeOK
<1>2. /\ handler'[d].pc = IF IsRevoked(token[d]) THEN "revoked"
                          ELSE IF h.pc = "cached" THEN "admit" ELSE "store"
      /\ handler'[d].since = h.since /\ handler'[d].cached = h.cached
      /\ handler'[d].readAt = now /\ handler'[d].seen = Counts
  <2>1. h \in Handler
    BY DEF TypeOK
  <2>2. QED
    BY <1>1, <2>1 DEF Answered, Handler
<1>3. /\ X \in Int /\ X <= token[d] + TokenLifetime
      /\ now \in Nat /\ token[d] \in Nat /\ lastCutoff \in Nat
      /\ h.since \in Nat
      /\ Iat(token[d]) \in Int /\ Iat(token[d]) <= token[d]
  BY IatBound DEF TypeOK, Handler
<1>4. h.since <= now /\ now <= h.since + MaxDelay
  BY <1>1 DEF DeviceInv
<1>5. now < X + FallbackAge + 2 * MaxDelay
  <2>1. CASE h.pc = "cached"
    <3>1. h.since < X + FallbackAge + MaxDelay
      BY <2>1 DEF DeviceInv
    <3>2. QED
      BY <1>3, <1>4, <3>1, RevocationAssumption
  <2>2. CASE h.pc = "verified"
    <3>1. h.since < X
      BY <2>2 DEF DeviceInv
    <3>2. QED
      BY <1>3, <1>4, <3>1, RevocationAssumption
  <2>3. QED
    BY <1>1, <2>1, <2>2
<1>6. ASSUME ~IsRevoked(token[d]) PROVE token[d] >= lastCutoff
  <2>1. SUFFICES ASSUME token[d] < lastCutoff PROVE FALSE
    BY <1>3
  <2>2. cutoff.at = lastCutoff /\ cutoff.until >= lastCutoff + RevocationTTL
    BY <1>3, <2>1 DEF CutoffInv
  <2>3. Iat(token[d]) < lastCutoff /\ lastCutoff # 0
    BY <1>3, <2>1
  <2>4. ~(now < cutoff.until) /\ cutoff.until \in Nat
    BY <1>6, <2>2, <2>3 DEF IsRevoked, TypeOK
  <2>5. QED
    BY <1>3, <1>5, <2>1, <2>2, <2>4, RevocationAssumption
<1>12. Counts = lastCutoff
  BY DEF CutoffInv
<1>7. (Expiry(token[d]))' = X
  BY <1>1 DEF Expiry, Iat
<1>8. handler'[d].pc = "store" => h.pc = "verified"
  BY <1>1, <1>2
<1>9. handler'[d].pc \in {"admit", "store"} => ~IsRevoked(token[d])
  BY <1>2
<1>10. handler'[d].pc \in {"revoked", "admit", "store"} /\ h.pc # "idle"
  BY <1>1, <1>2
<1>11. QED
  BY <1>1, <1>2, <1>4, <1>5, <1>6, <1>7, <1>8, <1>9, <1>10, <1>12
     DEF DeviceInv, Accepted

LEMMA DeviceAdmit ==
  ASSUME TypeOK, NEW d \in Devices, DeviceInv(d), Admit(d)
  PROVE  DeviceInv(d)'
<1> DEFINE X == Expiry(token[d])
<1>1. /\ handler'[d].pc = "idle"
      /\ cache'[d] = IF handler[d].pc = "store" THEN now ELSE cache[d]
      /\ socket'[d] = socket[d] /\ token'[d] = token[d]
      /\ handler[d].pc \in {"admit", "store"}
  BY DEF Admit, TypeOK, Idle
<1>2. socket[d] = "up"
  BY <1>1 DEF DeviceInv
<1>3. ASSUME handler[d].pc = "store" PROVE now < X + MaxDelay
  <2>1. X \in Int /\ now \in Nat /\ handler[d].since \in Nat
    BY IatBound DEF TypeOK, Handler
  <2>2. handler[d].since < X /\ now <= handler[d].since + MaxDelay
    BY <1>3 DEF DeviceInv
  <2>3. QED
    BY <2>1, <2>2, RevocationAssumption
<1>4. cache'[d] # 0 => cache'[d] < X + MaxDelay
  BY <1>1, <1>3 DEF DeviceInv
<1>5. (Expiry(token[d]))' = X
  BY <1>1 DEF Expiry, Iat
<1>6. QED
  BY <1>1, <1>2, <1>4, <1>5 DEF DeviceInv, Accepted

\* A step of another device leaves d alone.
LEMMA DeviceOther ==
  ASSUME TypeOK, NEW d \in Devices, DeviceInv(d), NEW e \in Devices, d # e,
         Event(e) \/ Verify(e) \/ (VerifyThrows(e) /\ ~Drop(e)) \/ Check(e)
           \/ Admit(e)
  PROVE  DeviceInv(d)'
<1>1. /\ now' = now /\ socket' = socket /\ token' = token
      /\ cache'[d] = cache[d] /\ handler'[d] = handler[d]
  BY DEF Event, Verify, VerifyThrows, Check, Admit, TypeOK
<1>2. QED
  BY <1>1, DeviceFrame

LEMMA DeviceNext ==
  ASSUME TypeOK, CutoffInv, NEW d \in Devices, DeviceInv(d), Next
  PROVE  DeviceInv(d)'
<1>1. CASE Tick
  BY <1>1, DeviceTick
<1>2. ASSUME NEW e \in Devices, PageLoad(e) \/ Reconnect(e)
      PROVE  DeviceInv(d)'
  BY <1>2, DeviceOpen
<1>3. ASSUME NEW e \in Devices, Lose(e) \/ Drop(e)
      PROVE  DeviceInv(d)'
  <2>1. {e} \in SUBSET Devices
    OBVIOUS
  <2>2. now' = now /\ token' = token
    BY <1>3 DEF Lose, Drop
  <2>3. Gone({e}, "down") \/ Gone({e}, "dropped")
    BY <1>3 DEF Lose, Drop
  <2>4. QED
    BY <2>1, <2>2, <2>3, DeviceGone
<1>4. ASSUME NEW e \in Devices,
             Event(e) \/ Verify(e) \/ (VerifyThrows(e) /\ ~Drop(e)) \/ Check(e)
               \/ Admit(e)
      PROVE  DeviceInv(d)'
  <2>1. CASE d = e
    BY <1>4, <2>1, DeviceEvent, DeviceVerify, DeviceFallback, DeviceCheck,
       DeviceAdmit
  <2>2. CASE d # e
    BY <1>4, <2>2, DeviceOther
  <2>3. QED
    BY <2>1, <2>2
<1>5. ASSUME NEW e \in Devices, ValidateStep(e) PROVE DeviceInv(d)'
  BY <1>3, <1>4, <1>5 DEF ValidateStep, CheckFails, Reject
<1>6. ASSUME NEW v \in Revokes, RevokeDrop(v) PROVE DeviceInv(d)'
  <2>1. /\ Gone(revoke[v].found, "dropped") /\ now' = now /\ token' = token
        /\ revoke[v].found \in SUBSET Devices
    BY <1>6 DEF RevokeDrop, TypeOK, Request
  <2>2. QED
    BY <2>1, DeviceGone
<1>7. ASSUME NEW v \in Revokes,
             \/ RevokeCall(v) \/ RevokeStamp(v) \/ RevokePersist(v) \/ RevokeFetch(v)
             \/ RevokeFails(v) \/ \E ds \in SUBSET Devices : Invalidate(v, ds)
      PROVE  DeviceInv(d)'
  <2>1. /\ now' = now /\ socket' = socket /\ token' = token
        /\ cache' = cache /\ handler' = handler
    BY <1>7 DEF RevokeCall, RevokeStamp, RevokePersist, RevokeFetch, RevokeFails,
      Invalidate
  <2>2. QED
    BY <2>1, DeviceFrame
<1>8. QED
  BY <1>1, <1>2, <1>3, <1>4, <1>5, <1>6, <1>7 DEF Next, RevokeStep

LEMMA RevocationInit == Init => RevocationInv
<1> SUFFICES ASSUME Init PROVE RevocationInv
  OBVIOUS
<1>1. TypeOK
  BY TypeInit
<1>2. CutoffInv
  BY DEF Init, CutoffInv, Counts, NoCutoff, NoRevoke
<1>3. ASSUME NEW d \in Devices PROVE DeviceInv(d)
  BY DeviceIdle DEF Init
<1>4. QED
  BY <1>1, <1>2, <1>3 DEF RevocationInv

LEMMA RevocationNext == RevocationInv /\ [Next]_vars => RevocationInv'
<1> SUFFICES ASSUME RevocationInv, [Next]_vars PROVE RevocationInv'
  OBVIOUS
<1>1. TypeOK' /\ CutoffInv'
  BY TypeNext, CutoffNext DEF RevocationInv
<1>2. ASSUME NEW d \in Devices PROVE DeviceInv(d)'
  <2>1. CASE Next
    BY <2>1, DeviceNext DEF RevocationInv
  <2>2. CASE UNCHANGED vars
    BY <2>2, DeviceFrame DEF RevocationInv, vars
  <2>3. QED
    BY <2>1, <2>2
<1>3. QED
  BY <1>1, <1>2 DEF RevocationInv

\* The inductive invariant holds in every reachable state.
THEOREM RevocationInvariant == Spec => []RevocationInv
BY RevocationInit, RevocationNext, PTL DEF Spec

\* Every variable of the revocation model keeps its type.
THEOREM RevocationTypeCorrect == Spec => []TypeOK
<1>1. RevocationInv => TypeOK
  BY DEF RevocationInv
<1>2. QED
  BY <1>1, RevocationInvariant, PTL

\* validateSession never accepts a token minted before the newest cutoff
\* stored when it looked (or the one that was stored over it), whatever the
\* cache, a throwing verification, the expiry of the cutoff's Redis key and
\* other revocations in flight do.
THEOREM RevokedTokensRejected == Spec => []RevokedNeverAdmitted
<1>1. RevocationInv => RevokedNeverAdmitted
  BY DEF RevocationInv, DeviceInv, RevokedNeverAdmitted
<1>2. QED
  BY <1>1, RevocationInvariant, PTL

\* The fallback of validateSession does not prolong itself: an expired token
\* is accepted for at most FallbackAge and two call delays more.
THEOREM ExpiredTokensLapse == Spec => []ExpiredTokenLapses
<1>1. RevocationInv => ExpiredTokenLapses
  BY DEF RevocationInv, DeviceInv, ExpiredTokenLapses
<1>2. QED
  BY <1>1, RevocationInvariant, PTL
=============================================================================
