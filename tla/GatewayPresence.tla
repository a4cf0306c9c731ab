--------------------------- MODULE GatewayPresence ---------------------------
(***************************************************************************)
(* Presence of one user, as a co-member of a DM sees it                    *)
(* (apps/signal/src/gateway.ts, apps/signal/src/presence.ts).              *)
(*                                                                         *)
(* On every connection the client emits gateway:init, gateway:subscribe    *)
(* and, if it has cursors, gateway:resume at once, and gateway:presence    *)
(* when its status changes.  The handlers await the session check, Redis   *)
(* and the membership check, so they finish in any order and also after    *)
(* the socket is gone.  Each works on the GatewaySocketState object it     *)
(* found or made; the disconnect handler drops the object from             *)
(* socketStates, but a handler that holds it goes on and announces what it *)
(* says.                                                                   *)
(*                                                                         *)
(* The user shares one DM room with the observer, who is always in it.     *)
(***************************************************************************)
EXTENDS Naturals, TLC

CONSTANTS
  Sockets,        \* the user's connections, one per tab or device
  Cursors,        \* {FALSE}: a client that never has anything to resume
  HonestInit,     \* TRUE: gateway:init carries the user's real status
  CalmDisconnect, \* TRUE: sockets come and go only between handlers
  CountMayFail,   \* TRUE: fetchSockets may throw in the disconnect handler
  RedisMayFail,   \* TRUE: writes to Redis may fail, wholly or in part
  Refusals        \* TRUE: session and membership checks may say no

ASSUME PresenceAssumption ==
  /\ Cursors \in (SUBSET BOOLEAN) \ {{}}
  /\ HonestInit \in BOOLEAN
  /\ CalmDisconnect \in BOOLEAN
  /\ CountMayFail \in BOOLEAN
  /\ RedisMayFail \in BOOLEAN
  /\ Refusals \in BOOLEAN

Statuses == {"online", "idle", "invisible", "offline"}
Kinds == {"init", "subscribe", "resume", "presence"}

\* The state object made while the socket was open, and the one that a
\* handler makes when it finds none after the disconnect.
Objects == {"live", "orphan"}

VARIABLES
  chosen,      \* the status the user picked: "online" or "invisible"
  life,        \* "new", "open" or "closed", per socket
  dataUser,    \* the sockets whose socket.data.userId is set
  entry,       \* the object socketStates holds for a socket, or "none"
  object,      \* the fields of a socket's state objects
  handler,     \* the handlers in flight: pc, the object held, the payload
  closing,     \* the disconnect handlers in flight
  key,         \* vortex:presence:{userId} in Redis: its status or "none"
  keyTTL,      \* whether that key has a time to live
  seen,        \* the last status the observer was sent
  late         \* history: something was announced from a closed socket

vars == <<chosen, life, dataUser, entry, object, handler, closing, key,
          keyTTL, seen, late>>
redis == <<key, keyTTL>>

\* getOrCreateState makes it with a placeholder status nobody may announce.
FreshObject == [status |-> "online", known |-> FALSE, room |-> FALSE]
Object == [status : Statuses, known : BOOLEAN, room : BOOLEAN]

Idle == [pc |-> "idle", obj |-> "live", status |-> "online"]
Handler == [pc : {"idle", "started", "checked", "stored", "exists", "joined"},
            obj : Objects, status : Statuses]

Init ==
  /\ chosen \in {"online", "invisible"}
  /\ life = [s \in Sockets |-> "new"]
  /\ dataUser = {}
  /\ entry = [s \in Sockets |-> "none"]
  /\ object = [s \in Sockets |-> [o \in Objects |-> FreshObject]]
  /\ handler = [s \in Sockets |-> [k \in Kinds |-> Idle]]
  /\ closing = [s \in Sockets |-> "no"]
  /\ key = "none"
  /\ keyTTL = FALSE
  /\ seen = "offline"
  /\ late = FALSE

-----------------------------------------------------------------------------
(* Helpers of the handlers.                                                *)

\* getOrCreateState: the entry of socketStates, or the object it would make.
StateOf(s) ==
  IF entry[s] # "none" THEN entry[s]
  ELSE IF life[s] = "open" THEN "live" ELSE "orphan"

\* Faulty variant of Mask: invisible goes out as it is.
MaskNothing(st) == st

\* What co-members are told: invisible looks like offline.
Mask(st) == IF st = "invisible" THEN "offline" ELSE st

\* Faulty variant of Announces: statusKnown is not consulted.
AnnouncesPlaceholder(ob) == ob.room

\* broadcastPresenceToChannels: nothing without an authoritative status or
\* without a room, invisible goes out as offline.
Announces(ob) == ob.known /\ ob.room
Broadcast(s, ob) ==
  IF Announces(ob)
  THEN /\ seen' = Mask(ob.status)
       /\ late' = (late \/ life[s] = "closed")
  ELSE UNCHANGED <<seen, late>>

\* The hset / expire pipeline of setOnline and updateStatus: both applied,
\* only hset applied (a key that had a TTL keeps it), or neither; the caller
\* swallows the error.
WriteKey(st) ==
  \/ key' = st /\ keyTTL' = TRUE
  \/ RedisMayFail /\ key' = st /\ keyTTL' = (key # "none" /\ keyTTL)
  \/ RedisMayFail /\ UNCHANGED redis

AllIdle(s) == \A k \in Kinds : handler[s][k].pc = "idle"

-----------------------------------------------------------------------------
(* The client.                                                             *)

\* On connect the client emits gateway:init, gateway:subscribe and, if it has
\* cursors, gateway:resume; it says "online" whatever the user picked.
Connect(s) ==
  /\ life[s] = "new"
  /\ CalmDisconnect => \A t \in Sockets : closing[t] = "no"
  /\ life' = [life EXCEPT ![s] = "open"]
  /\ \E cursors \in Cursors :
       handler' = [handler EXCEPT
         ![s]["init"] = [Idle EXCEPT
           !.pc = "started",
           !.status = IF HonestInit THEN chosen ELSE "online"],
         ![s]["subscribe"].pc = "started",
         ![s]["resume"].pc = IF cursors THEN "started" ELSE "idle"]
  /\ UNCHANGED <<chosen, dataUser, entry, object, closing, key, keyTTL, seen,
                 late>>

\* A component mounts and subscribes again.
SendSubscribe(s) ==
  /\ life[s] = "open"
  /\ handler[s]["subscribe"].pc = "idle"
  /\ handler' = [handler EXCEPT ![s]["subscribe"].pc = "started"]
  /\ UNCHANGED <<chosen, life, dataUser, entry, object, closing, key, keyTTL,
                 seen, late>>

\* useGatewayPresence sends the explicit status, or online / idle as the tab
\* is shown and hidden.
SendPresence(s, st) ==
  /\ life[s] = "open"
  /\ handler[s]["presence"].pc = "idle"
  /\ IF chosen = "invisible" THEN st = "invisible" ELSE st \in {"online", "idle"}
  /\ handler' = [handler EXCEPT ![s]["presence"] =
                   [Idle EXCEPT !.pc = "started", !.status = st]]
  /\ UNCHANGED <<chosen, life, dataUser, entry, object, closing, key, keyTTL,
                 seen, late>>

\* The connection is lost.  Without an entry the disconnect handler returns;
\* otherwise it drops the entry and goes on to count the user's sockets.
Disconnect(s) ==
  /\ life[s] = "open"
  /\ CalmDisconnect => \A t \in Sockets : AllIdle(t)
  /\ life' = [life EXCEPT ![s] = "closed"]
  /\ entry' = [entry EXCEPT ![s] = "none"]
  /\ closing' = [closing EXCEPT ![s] =
                   IF entry[s] = "none" THEN "no" ELSE "count"]
  /\ UNCHANGED <<chosen, dataUser, object, handler, key, keyTTL, seen,
                 late>>

-----------------------------------------------------------------------------
(* The handlers of apps/signal.                                            *)

\* validateSession refuses, or the membership check denies the channel.
Refuse(s, k) ==
  /\ Refusals
  /\ handler[s][k].pc \in {"started", "checked"}
  /\ handler' = [handler EXCEPT ![s][k] = Idle]
  /\ UNCHANGED <<chosen, life, dataUser, entry, object, closing, key, keyTTL,
                 seen, late>>

\* gateway:init up to the await of setOnline, whose pipeline is on its way.
InitStore(s) ==
  LET h == handler[s]["init"]
      o == StateOf(s)
  IN  /\ h.pc = "started"
      /\ entry' = [entry EXCEPT ![s] = o]
      /\ dataUser' = dataUser \cup {s}
      /\ object' = [object EXCEPT ![s][o].status = h.status,
                                  ![s][o].known = TRUE]
      /\ WriteKey(h.status)
      /\ handler' = [handler EXCEPT ![s]["init"] =
                       [h EXCEPT !.pc = "stored", !.obj = o]]
      /\ UNCHANGED <<chosen, life, closing, seen, late>>

\* Faulty variant of InitDone: the announcement is left to subscribe.
InitDoneSilent(s) ==
  /\ handler[s]["init"].pc = "stored"
  /\ handler' = [handler EXCEPT ![s]["init"] = Idle]
  /\ UNCHANGED <<chosen, life, dataUser, entry, object, closing, key, keyTTL,
                 seen, late>>

\* setOnline is back: announce to the rooms already joined.
InitDone(s) ==
  LET h == handler[s]["init"]
      ob == object[s][h.obj]
  IN  /\ h.pc = "stored"
      /\ Broadcast(s, ob)
      /\ handler' = [handler EXCEPT ![s]["init"] = Idle]
      /\ UNCHANGED <<chosen, life, dataUser, entry, object, closing, key,
                     keyTTL>>

\* gateway:subscribe and gateway:resume: the session is valid, the membership
\* check is awaited.
SessionChecked(s, k) ==
  /\ k \in {"subscribe", "resume"}
  /\ handler[s][k].pc = "started"
  /\ handler' = [handler EXCEPT ![s][k].pc = "checked"]
  /\ UNCHANGED <<chosen, life, dataUser, entry, object, closing, key, keyTTL,
                 seen, late>>

\* The channel is granted: join it and announce if it is newly joined.
SubscribeJoin(s) ==
  LET o == StateOf(s)
      ob == IF entry[s] = "none" THEN FreshObject ELSE object[s][o]
      joined == [ob EXCEPT !.room = TRUE]
  IN  /\ handler[s]["subscribe"].pc = "checked"
      /\ entry' = [entry EXCEPT ![s] = o]
      /\ dataUser' = dataUser \cup {s}
      /\ object' = [object EXCEPT ![s][o] = joined]
      /\ IF ob.room THEN UNCHANGED <<seen, late>> ELSE Broadcast(s, joined)
      /\ handler' = [handler EXCEPT ![s]["subscribe"] = Idle]
      /\ UNCHANGED <<chosen, life, closing, key, keyTTL>>

\* The same in gateway:resume, which then awaits the replay and keeps in mind
\* whether the room is newly joined (the pc is "joined" if it is).
ResumeJoin(s) ==
  LET o == StateOf(s)
      ob == IF entry[s] = "none" THEN FreshObject ELSE object[s][o]
  IN  /\ handler[s]["resume"].pc = "checked"
      /\ entry' = [entry EXCEPT ![s] = o]
      /\ dataUser' = dataUser \cup {s}
      /\ object' = [object EXCEPT ![s][o] = [ob EXCEPT !.room = TRUE]]
      /\ handler' = [handler EXCEPT ![s]["resume"] =
           [Idle EXCEPT !.pc = IF ob.room THEN "idle" ELSE "joined",
                        !.obj = IF ob.room THEN "live" ELSE o]]
      /\ UNCHANGED <<chosen, life, closing, key, keyTTL, seen, late>>

\* The replay is back: announce to the rejoined room.
ResumeDone(s) ==
  /\ handler[s]["resume"].pc = "joined"
  /\ Broadcast(s, object[s][handler[s]["resume"].obj])
  /\ handler' = [handler EXCEPT ![s]["resume"] = Idle]
  /\ UNCHANGED <<chosen, life, dataUser, entry, object, closing, key, keyTTL>>

\* gateway:presence: without an entry it returns; otherwise it writes the
\* object and asks Redis whether the key exists.
PresenceStore(s) ==
  LET h == handler[s]["presence"]
      o == entry[s]
  IN  /\ h.pc = "started"
      /\ IF o = "none"
         THEN /\ handler' = [handler EXCEPT ![s]["presence"] = Idle]
              /\ UNCHANGED object
         ELSE /\ object' = [object EXCEPT ![s][o].status = h.status,
                                          ![s][o].known = TRUE]
              /\ handler' = [handler EXCEPT ![s]["presence"] =
                   [h EXCEPT !.pc = IF key = "none" THEN "stored" ELSE "exists",
                             !.obj = o]]
      /\ UNCHANGED <<chosen, life, dataUser, entry, closing, key, keyTTL, seen,
                     late>>

\* The key existed: updateStatus writes it.
PresenceWrite(s) ==
  LET h == handler[s]["presence"]
  IN  /\ h.pc = "exists"
      /\ WriteKey(h.status)
      /\ handler' = [handler EXCEPT ![s]["presence"].pc = "stored"]
      /\ UNCHANGED <<chosen, life, dataUser, entry, object, closing, seen,
                     late>>

\* updateStatus is back: announce to the rooms of the object.
PresenceDone(s) ==
  LET h == handler[s]["presence"]
  IN  /\ h.pc = "stored"
      /\ Broadcast(s, object[s][h.obj])
      /\ handler' = [handler EXCEPT ![s]["presence"] = Idle]
      /\ UNCHANGED <<chosen, life, dataUser, entry, object, closing, key,
                     keyTTL>>

\* hasOtherSocketsForUser: another open, identified socket.  An error counts
\* as none.  The answer is used in a later turn.
CountSockets(s) ==
  /\ closing[s] = "count"
  /\ LET others == \E t \in dataUser : life[t] = "open"
     IN  \E last \in {~others} \cup (IF CountMayFail THEN {TRUE} ELSE {}) :
           closing' = [closing EXCEPT ![s] = IF last THEN "last" ELSE "no"]
  /\ UNCHANGED <<chosen, life, dataUser, entry, object, handler, key, keyTTL,
                 seen, late>>

\* Faulty variant of GoOffline: the delete comes first and its failure ends
\* the handler.
GoOfflineStoreFirst(s) ==
  /\ closing[s] = "last"
  /\ \/ /\ key' = "none" /\ keyTTL' = FALSE
        /\ seen' = IF object[s]["live"].room THEN "offline" ELSE seen
     \/ RedisMayFail /\ UNCHANGED <<redis, seen>>
  /\ closing' = [closing EXCEPT ![s] = "no"]
  /\ UNCHANGED <<chosen, life, dataUser, entry, object, handler, late>>

\* It was the last one: announce offline in the rooms of the dropped object
\* and delete the Redis key (or fail to, which is only logged).
GoOffline(s) ==
  /\ closing[s] = "last"
  /\ seen' = IF object[s]["live"].room THEN "offline" ELSE seen
  /\ \/ key' = "none" /\ keyTTL' = FALSE
     \/ RedisMayFail /\ UNCHANGED redis
  /\ closing' = [closing EXCEPT ![s] = "no"]
  /\ UNCHANGED <<chosen, life, dataUser, entry, object, handler, late>>

-----------------------------------------------------------------------------
(* Redis and the sweep of startCleanup.                                    *)

Expire ==
  /\ key # "none" /\ keyTTL
  /\ key' = "none"
  /\ keyTTL' = FALSE
  /\ UNCHANGED <<chosen, life, dataUser, entry, object, handler, closing, seen,
                 late>>

\* Faulty variant of Sweep: only keys that say offline are given an expiry.
SweepOfflineOnly ==
  /\ key = "offline" /\ ~keyTTL
  /\ keyTTL' = TRUE
  /\ UNCHANGED <<chosen, life, dataUser, entry, object, handler, closing, key,
                 seen, late>>

\* The sweep gives a key without a time to live one.
Sweep ==
  /\ key # "none" /\ ~keyTTL
  /\ keyTTL' = TRUE
  /\ UNCHANGED <<chosen, life, dataUser, entry, object, handler, closing, key,
                 seen, late>>

-----------------------------------------------------------------------------
InitStep(s) == Refuse(s, "init") \/ InitStore(s) \/ InitDone(s)

SubscribeStep(s) ==
  \/ Refuse(s, "subscribe") \/ SessionChecked(s, "subscribe")
  \/ SubscribeJoin(s)

ResumeStep(s) ==
  \/ Refuse(s, "resume") \/ SessionChecked(s, "resume")
  \/ ResumeJoin(s) \/ ResumeDone(s)

PresenceStep(s) ==
  \/ Refuse(s, "presence")
  \/ PresenceStore(s) \/ PresenceWrite(s) \/ PresenceDone(s)

ClosingStep(s) == CountSockets(s) \/ GoOffline(s)

Next ==
  \/ \E s \in Sockets :
       \/ Connect(s) \/ Disconnect(s)
       \/ \E st \in Statuses : SendPresence(s, st)
       \/ SendSubscribe(s)
       \/ InitStep(s) \/ SubscribeStep(s) \/ ResumeStep(s)
       \/ PresenceStep(s) \/ ClosingStep(s)
  \/ Expire \/ Sweep

Spec == Init /\ [][Next]_vars

\* The event loop finishes what it started; Redis expires keys and the sweep
\* runs every interval.  Nothing makes the client send anything.
Fairness ==
  /\ \A s \in Sockets : /\ WF_vars(InitStep(s))
                        /\ WF_vars(SubscribeStep(s))
                        /\ WF_vars(ResumeStep(s))
                        /\ WF_vars(PresenceStep(s))
                        /\ WF_vars(ClosingStep(s))
  /\ WF_vars(Expire)
  /\ WF_vars(Sweep)

FairSpec == Spec /\ Fairness

-----------------------------------------------------------------------------
(* Properties.                                                             *)

TypeOK ==
  /\ chosen \in {"online", "invisible"}
  /\ life \in [Sockets -> {"new", "open", "closed"}]
  /\ dataUser \in SUBSET Sockets
  /\ entry \in [Sockets -> Objects \cup {"none"}]
  /\ object \in [Sockets -> [Objects -> Object]]
  /\ handler \in [Sockets -> [Kinds -> Handler]]
  /\ closing \in [Sockets -> {"no", "count", "last"}]
  /\ key \in Statuses \cup {"none"}
  /\ keyTTL \in BOOLEAN
  /\ seen \in Statuses \ {"invisible"}
  /\ late \in BOOLEAN

Quiet ==
  \A s \in Sockets : AllIdle(s) /\ closing[s] = "no"

\* The socket is open, in the room, and its user is not hiding.
Shown(s) ==
  /\ life[s] = "open"
  /\ Announces(object[s]["live"])
  /\ Mask(object[s]["live"].status) # "offline"

\* A user who picked invisible is never announced as anything but offline,
\* whichever of init, subscribe and presence wins the race: what statusKnown
\* and the masking in broadcastPresenceToChannels are for.
InvisibleNeverAnnounced == chosen = "invisible" => seen = "offline"

\* When sockets come and go only between handlers, the observer is neither
\* left without the announcement (init and subscribe skip it for each other)
\* nor with a ghost (the last socket takes it back).
PresenceSettled ==
  Quiet => /\ (\E s \in Sockets : Shown(s)) => seen # "offline"
           /\ seen # "offline" => \E s \in dataUser : life[s] = "open"

\* Once the user's last socket is gone the Redis key goes too, also when the
\* delete failed, a late updateStatus made the key anew or its expire was
\* lost: by its time to live, which the sweep restores.
OrphanKeyReaped ==
  (Quiet /\ \A s \in Sockets : life[s] = "closed") ~> (key = "none")

\* It was identified by gateway:init and closed before it joined a room.
LeftUnjoined(s) == object[s]["live"].known /\ ~object[s]["live"].room

\* When every socket is gone and nothing is in flight, the observer sees the
\* user offline: the disconnect handler has the last word, also when counting
\* the sockets fails, except over a handler that outlived its socket and
\* announced the state object it held, and except when the last socket, or the
\* one the others counted on, had no room of its own to announce it in.
GhostExplained ==
  Quiet /\ (\A s \in Sockets : life[s] = "closed") /\ seen # "offline"
    => late \/ \E s \in Sockets : LeftUnjoined(s)
-----------------------------------------------------------------------------
\* No action tells one socket from another: where the properties do not
\* either, TLC may exchange them.
SocketSymmetry == Permutations(Sockets)
=============================================================================
