------------------------ MODULE GatewayPresenceProofs ------------------------
(***************************************************************************)
(* The safety properties of GatewayPresence for every set of sockets, each *)
(* under the assumptions on the constants that its run makes.              *)
(*                                                                         *)
(* Wiring says how a socket's life, its entry in socketStates, its         *)
(* identity and the objects its handlers hold go together; the invariants  *)
(* after it rest on it.                                                    *)
(***************************************************************************)
EXTENDS GatewayPresence, TLAPS

\* A handler in flight after its first turn: it holds a state object.
Holding(s, k) == handler[s][k].pc \in {"stored", "exists", "joined"}

WiredSocket(s) ==
  /\ life[s] = "new" => /\ s \notin dataUser
                        /\ closing[s] = "no"
                        /\ object[s]["live"] = FreshObject
                        /\ AllIdle(s)
  /\ life[s] = "open" => /\ closing[s] = "no"
                         /\ entry[s] # "orphan"
                         /\ s \in dataUser => entry[s] = "live"
  /\ life[s] = "closed" => entry[s] # "live"
  /\ entry[s] # "none" => s \in dataUser
  /\ entry[s] = "live" => object[s]["live"].known \/ object[s]["live"].room
  /\ \A k \in Kinds :
       Holding(s, k) => /\ s \in dataUser
                        /\ life[s] = "open" => handler[s][k].obj = "live"

Wiring == \A s \in Sockets : WiredSocket(s)

\* What a handler is about to write is what the user picked.
HonestSocket(s) ==
  /\ \A k \in {"init", "presence"} :
       handler[s][k].pc # "idle"
         => (handler[s][k].status = "invisible" <=> chosen = "invisible")
  /\ \A k \in {"init", "presence"} :
       handler[s][k].pc # "idle" => handler[s][k].status # "offline"
  /\ \A o \in Objects :
       object[s][o].known =>
         /\ object[s][o].status = "invisible" <=> chosen = "invisible"
         /\ object[s][o].status # "offline"

Honest ==
  /\ \A s \in Sockets : HonestSocket(s)
  /\ InvisibleNeverAnnounced

\* Somebody will take back what the observer was told last: an open socket, or
\* the disconnect handler of one that had the room.
Answers(s) ==
  /\ s \in dataUser
  /\ life[s] = "open" \/ (closing[s] # "no" /\ object[s]["live"].room)

Answered ==
  seen # "offline" =>
    \/ late
    \/ \E s \in Sockets : Answers(s) \/ (life[s] = "closed" /\ LeftUnjoined(s))

\* A handler of an open socket will announce the object it holds.
Announcing(s) ==
  \/ handler[s]["init"].pc = "stored"
  \/ handler[s]["presence"].pc \in {"exists", "stored"}
  \/ handler[s]["resume"].pc = "joined"

\* What holds as well when sockets come and go only between handlers, nothing
\* is refused and counting does not fail.
CalmSocket(s) ==
  /\ life[s] # "open" => AllIdle(s)
  /\ life[s] = "open" =>
       /\ s \in dataUser \/ handler[s]["init"].pc = "started"
       /\ \/ object[s]["live"].room
          \/ handler[s]["subscribe"].pc \in {"started", "checked"}
  /\ life[s] = "closed" => ~LeftUnjoined(s)
  /\ closing[s] # "no" => \A t \in Sockets : life[t] = "open" => t \in dataUser
  /\ closing[s] = "last" => \A t \in Sockets : life[t] # "open"
  /\ life[s] = "open" /\ Announces(object[s]["live"]) /\ chosen = "online"
       => seen # "offline" \/ Announcing(s)

Calm ==
  /\ ~late
  /\ \A s \in Sockets : CalmSocket(s)

USE DEF Kinds, Objects, Statuses

-----------------------------------------------------------------------------
(* Lemmas about the two-level tables and the helpers of the handlers.      *)

\* What a cell of the two tables holds.
LEMMA Cells ==
  ASSUME TypeOK, NEW s \in Sockets
  PROVE  /\ \A k \in Kinds : handler[s][k] \in Handler
         /\ \A o \in Objects : object[s][o] \in Object
  BY DEF TypeOK

\* A handler in flight replaced by another one, or by none.
LEMMA PutHandler ==
  ASSUME TypeOK, NEW s \in Sockets, NEW k \in Kinds, NEW h \in Handler,
         handler' = [handler EXCEPT ![s][k] = h]
  PROVE  handler' \in [Sockets -> [Kinds -> Handler]]
  BY DEF TypeOK

\* A state object replaced by another one.
LEMMA PutObject ==
  ASSUME TypeOK, NEW s \in Sockets, NEW o \in Objects, NEW b \in Object,
         object' = [object EXCEPT ![s][o] = b]
  PROVE  object' \in [Sockets -> [Objects -> Object]]
  BY DEF TypeOK

\* broadcastPresenceToChannels never emits "invisible".
LEMMA BroadcastType ==
  ASSUME TypeOK, NEW s \in Sockets, NEW ob \in Object, Broadcast(s, ob)
  PROVE  seen' \in Statuses \ {"invisible"} /\ late' \in BOOLEAN
  BY DEF TypeOK, Broadcast, Announces, Mask, Object

\* getOrCreateState finds or makes one of the two objects.
LEMMA StateOfType ==
  ASSUME TypeOK, NEW s \in Sockets
  PROVE  StateOf(s) \in Objects
  BY DEF StateOf, TypeOK

LEMMA WriteKeyType ==
  ASSUME TypeOK, NEW st \in Statuses, WriteKey(st)
  PROVE  key' \in Statuses \cup {"none"} /\ keyTTL' \in BOOLEAN
  BY DEF TypeOK, WriteKey, redis

LEMMA IdleType == Idle \in Handler
  BY DEF Idle, Handler

-----------------------------------------------------------------------------
\* Every step keeps the variables in their types.
LEMMA PresenceTypeStep == TypeOK /\ [Next]_vars => TypeOK'
<1> SUFFICES ASSUME TypeOK, [Next]_vars PROVE TypeOK'
  OBVIOUS
<1>1. ASSUME NEW s \in Sockets, Connect(s) PROVE TypeOK'
  <2>1. handler' \in [Sockets -> [Kinds -> Handler]]
    <3>1. PICK cursors \in Cursors : handler' =
            [handler EXCEPT
               ![s]["init"] = [Idle EXCEPT
                 !.pc = "started",
                 !.status = IF HonestInit THEN chosen ELSE "online"],
               ![s]["subscribe"].pc = "started",
               ![s]["resume"].pc = IF cursors THEN "started" ELSE "idle"]
      BY <1>1 DEF Connect
    <3> DEFINE a == [Idle EXCEPT
                       !.pc = "started",
                       !.status = IF HonestInit THEN chosen ELSE "online"]
               b == [handler[s]["subscribe"] EXCEPT !.pc = "started"]
               c == [handler[s]["resume"] EXCEPT
                       !.pc = IF cursors THEN "started" ELSE "idle"]
    <3>2. a \in Handler /\ b \in Handler /\ c \in Handler
      <4>1. chosen \in Statuses
        BY DEF TypeOK
      <4>2. a \in Handler
        BY <4>1 DEF Idle, Handler
      <4>3. b \in Handler /\ c \in Handler
        BY Cells DEF Handler
      <4> QED
        BY <4>2, <4>3
    <3>3. DOMAIN handler = Sockets /\ DOMAIN handler[s] = Kinds
      BY DEF TypeOK
    <3>4. /\ handler' = [t \in Sockets |-> handler'[t]]
          /\ handler'[s] = [k \in Kinds |-> handler'[s][k]]
          /\ handler'[s]["init"] = a
          /\ handler'[s]["subscribe"] = b
          /\ handler'[s]["resume"] = c
          /\ handler'[s]["presence"] = handler[s]["presence"]
          /\ \A t \in Sockets \ {s} : handler'[t] = handler[t]
      BY <3>1, <3>3
    <3> HIDE DEF a, b, c
    <3>5. \A k \in Kinds : handler'[s][k] \in Handler
      BY <3>2, <3>4, Cells
    <3>6. \A t \in Sockets : handler'[t] \in [Kinds -> Handler]
      BY <3>4, <3>5 DEF TypeOK
    <3> QED
      BY <3>4, <3>6
  <2> QED
    BY <1>1, <2>1 DEF Connect, TypeOK
<1>2. ASSUME NEW s \in Sockets, Disconnect(s) PROVE TypeOK'
  BY <1>2 DEF Disconnect, TypeOK
<1>3. ASSUME NEW s \in Sockets, NEW st \in Statuses, SendPresence(s, st)
      PROVE TypeOK'
  <2>1. [Idle EXCEPT !.pc = "started", !.status = st] \in Handler
    BY DEF Idle, Handler
  <2> QED
    BY <1>3, <2>1, PutHandler DEF SendPresence, TypeOK
<1>4. ASSUME NEW s \in Sockets, SendSubscribe(s) PROVE TypeOK'
  <2>1. [handler[s]["subscribe"] EXCEPT !.pc = "started"] \in Handler
    BY Cells DEF Handler
  <2>2. handler' = [handler EXCEPT ![s]["subscribe"] =
                      [handler[s]["subscribe"] EXCEPT !.pc = "started"]]
    BY <1>4 DEF SendSubscribe, TypeOK
  <2>3. handler' \in [Sockets -> [Kinds -> Handler]]
    BY <2>1, <2>2, PutHandler
  <2> QED
    BY <1>4, <2>3 DEF SendSubscribe, TypeOK
<1>5. ASSUME NEW s \in Sockets, NEW k \in Kinds, Refuse(s, k) PROVE TypeOK'
  BY <1>5, IdleType, PutHandler DEF Refuse, TypeOK
<1>6. ASSUME NEW s \in Sockets, InitStore(s) PROVE TypeOK'
  <2> DEFINE h == handler[s]["init"]
             o == StateOf(s)
             b == [object[s][o] EXCEPT !.status = h.status, !.known = TRUE]
             g == [h EXCEPT !.pc = "stored", !.obj = o]
  <2>1. h \in Handler /\ o \in Objects
    BY Cells, StateOfType
  <2>2. object[s][o] \in Object
    BY <2>1, Cells
  <2>3. b \in Object /\ g \in Handler
    BY <2>1, <2>2 DEF Object, Handler
  <2>4. /\ handler' = [handler EXCEPT ![s]["init"] = g]
        /\ object' = [object EXCEPT ![s][o] = b]
        /\ entry' = [entry EXCEPT ![s] = o]
        /\ WriteKey(h.status)
    BY <1>6, <2>1 DEF InitStore, TypeOK
  <2>5. h.status \in Statuses
    BY <2>1 DEF Handler
  <2> HIDE DEF h, o, b, g
  <2>6. /\ handler' \in [Sockets -> [Kinds -> Handler]]
        /\ object' \in [Sockets -> [Objects -> Object]]
        /\ entry' \in [Sockets -> Objects \cup {"none"}]
        /\ key' \in Statuses \cup {"none"} /\ keyTTL' \in BOOLEAN
    BY <2>1, <2>3, <2>4, <2>5, PutHandler, PutObject, WriteKeyType DEF TypeOK
  <2> QED
    BY <1>6, <2>6 DEF InitStore, TypeOK
<1>7. ASSUME NEW s \in Sockets, InitDone(s) PROVE TypeOK'
  <2>1. object[s][handler[s]["init"].obj] \in Object
    BY Cells DEF Handler
  <2>2. seen' \in Statuses \ {"invisible"} /\ late' \in BOOLEAN
    BY <1>7, <2>1, BroadcastType DEF InitDone
  <2>3. handler' \in [Sockets -> [Kinds -> Handler]]
    BY <1>7, IdleType, PutHandler DEF InitDone
  <2> QED
    BY <1>7, <2>2, <2>3 DEF InitDone, TypeOK
<1>8. ASSUME NEW s \in Sockets, NEW k \in Kinds, SessionChecked(s, k)
      PROVE TypeOK'
  <2>1. [handler[s][k] EXCEPT !.pc = "checked"] \in Handler
    BY Cells DEF Handler
  <2>2. handler' = [handler EXCEPT ![s][k] =
                      [handler[s][k] EXCEPT !.pc = "checked"]]
    BY <1>8 DEF SessionChecked, TypeOK
  <2>3. handler' \in [Sockets -> [Kinds -> Handler]]
    BY <2>1, <2>2, PutHandler
  <2> QED
    BY <1>8, <2>3 DEF SessionChecked, TypeOK
<1>9. ASSUME NEW s \in Sockets, SubscribeJoin(s) \/ ResumeJoin(s) PROVE TypeOK'
  <2> DEFINE o == StateOf(s)
             ob == IF entry[s] = "none" THEN FreshObject ELSE object[s][o]
             joined == [ob EXCEPT !.room = TRUE]
  <2>1. o \in Objects
    BY StateOfType
  <2>2. ob \in Object /\ joined \in Object
    BY <2>1, Cells DEF FreshObject, Object
  <2>3. handler' \in [Sockets -> [Kinds -> Handler]]
    <3>1. [Idle EXCEPT !.pc = IF ob.room THEN "idle" ELSE "joined",
                       !.obj = IF ob.room THEN "live" ELSE o] \in Handler
      BY <2>1, IdleType DEF Handler
    <3> QED
      BY <1>9, <3>1, IdleType, PutHandler DEF SubscribeJoin, ResumeJoin
  <2>4. /\ object' = [object EXCEPT ![s][o] = joined]
        /\ entry' = [entry EXCEPT ![s] = o]
        /\ dataUser' = dataUser \cup {s}
        /\ UNCHANGED <<seen, late>> \/ Broadcast(s, joined)
        /\ UNCHANGED <<chosen, life, closing, key, keyTTL>>
    BY <1>9 DEF SubscribeJoin, ResumeJoin
  <2> HIDE DEF o, joined
  <2>5. /\ object' \in [Sockets -> [Objects -> Object]]
        /\ seen' \in Statuses \ {"invisible"} /\ late' \in BOOLEAN
        /\ entry' \in [Sockets -> Objects \cup {"none"}]
    BY <2>1, <2>2, <2>4, PutObject, BroadcastType DEF TypeOK
  <2> QED
    BY <2>3, <2>4, <2>5 DEF TypeOK
<1>11. ASSUME NEW s \in Sockets, ResumeDone(s) PROVE TypeOK'
  <2>1. object[s][handler[s]["resume"].obj] \in Object
    BY Cells DEF Handler
  <2> QED
    BY <1>11, <2>1, BroadcastType, IdleType, PutHandler DEF ResumeDone, TypeOK
<1>12. ASSUME NEW s \in Sockets, PresenceStore(s) PROVE TypeOK'
  <2> DEFINE h == handler[s]["presence"]
             o == entry[s]
             b == [object[s][o] EXCEPT !.status = h.status, !.known = TRUE]
             g == [h EXCEPT !.pc = IF key = "none" THEN "stored" ELSE "exists",
                            !.obj = o]
  <2>1. CASE o = "none"
    BY <1>12, <2>1, IdleType, PutHandler DEF PresenceStore, TypeOK
  <2>2. CASE o # "none"
    <3>1. o \in Objects /\ h \in Handler
      BY <2>2, Cells DEF TypeOK
    <3>2. object[s][o] \in Object
      BY <3>1, Cells
    <3>3. b \in Object /\ g \in Handler
      BY <3>1, <3>2 DEF Object, Handler
    <3>4. /\ handler' = [handler EXCEPT ![s]["presence"] = g]
          /\ object' = [object EXCEPT ![s][o] = b]
      <4>1. /\ handler' = [handler EXCEPT ![s]["presence"] = g]
            /\ object' = [object EXCEPT ![s][o].status = h.status,
                                       ![s][o].known = TRUE]
        BY <1>12, <2>2 DEF PresenceStore
      <4> QED
        BY <3>1, <4>1 DEF TypeOK
    <3> HIDE DEF h, o, b, g
    <3>5. /\ handler' \in [Sockets -> [Kinds -> Handler]]
          /\ object' \in [Sockets -> [Objects -> Object]]
      BY <3>1, <3>3, <3>4, PutHandler, PutObject
    <3> QED
      BY <1>12, <3>5 DEF PresenceStore, TypeOK
  <2> QED
    BY <2>1, <2>2
<1>13. ASSUME NEW s \in Sockets, PresenceWrite(s) PROVE TypeOK'
  <2>1. /\ handler[s]["presence"].status \in Statuses
        /\ [handler[s]["presence"] EXCEPT !.pc = "stored"] \in Handler
    BY Cells DEF Handler
  <2>2. handler' = [handler EXCEPT ![s]["presence"] =
                      [handler[s]["presence"] EXCEPT !.pc = "stored"]]
    BY <1>13 DEF PresenceWrite, TypeOK
  <2>3. handler' \in [Sockets -> [Kinds -> Handler]]
    BY <2>1, <2>2, PutHandler
  <2>4. key' \in Statuses \cup {"none"} /\ keyTTL' \in BOOLEAN
    BY <1>13, <2>1, WriteKeyType DEF PresenceWrite
  <2> QED
    BY <1>13, <2>3, <2>4 DEF PresenceWrite, TypeOK
<1>14. ASSUME NEW s \in Sockets, PresenceDone(s) PROVE TypeOK'
  <2>1. object[s][handler[s]["presence"].obj] \in Object
    BY Cells DEF Handler
  <2> QED
    BY <1>14, <2>1, BroadcastType, IdleType, PutHandler
    DEF PresenceDone, TypeOK
<1>15. ASSUME NEW s \in Sockets, ClosingStep(s) PROVE TypeOK'
  BY <1>15 DEF ClosingStep, CountSockets, GoOffline, redis, TypeOK
<1>16. CASE Expire \/ Sweep
  BY <1>16 DEF Expire, Sweep, TypeOK
<1>17. CASE UNCHANGED vars
  BY <1>17 DEF vars, TypeOK
<1> QED
  BY <1>1, <1>2, <1>3, <1>4, <1>5, <1>6, <1>7, <1>8, <1>9, <1>11,
     <1>12, <1>13, <1>14, <1>15, <1>16, <1>17
  DEF Next, InitStep, SubscribeStep, ResumeStep, PresenceStep

-----------------------------------------------------------------------------
(* What each step changes, cell by cell.                                   *)

\* Nothing of socket t changes.
Same(t) ==
  /\ life'[t] = life[t] /\ entry'[t] = entry[t] /\ closing'[t] = closing[t]
  /\ object'[t] = object[t] /\ handler'[t] = handler[t]
  /\ t \in dataUser' <=> t \in dataUser

\* Of the handlers and objects of a socket only these change.
OnlyHandler(s, k) == \A j \in Kinds \ {k} : handler'[s][j] = handler[s][j]
OnlyObject(s, o) == \A p \in Objects \ {o} : object'[s][p] = object[s][p]

SocketStep(s) ==
  \/ Connect(s) \/ Disconnect(s)
  \/ \E st \in Statuses : SendPresence(s, st)
  \/ SendSubscribe(s)
  \/ InitStep(s) \/ SubscribeStep(s) \/ ResumeStep(s)
  \/ PresenceStep(s) \/ ClosingStep(s)

\* A step of one socket leaves the others alone, and what the user picked.
LEMMA OthersSame ==
  ASSUME TypeOK, NEW s \in Sockets, SocketStep(s)
  PROVE  chosen' = chosen /\ \A t \in Sockets \ {s} : Same(t)
<1> USE DEF TypeOK, Same
<1>1. CASE Connect(s) \/ Disconnect(s)
  BY <1>1 DEF Connect, Disconnect
<1>2. CASE SendSubscribe(s) \/ \E st \in Statuses : SendPresence(s, st)
  BY <1>2 DEF SendPresence, SendSubscribe
<1>3. CASE \E k \in Kinds : Refuse(s, k) \/ SessionChecked(s, k)
  BY <1>3 DEF Refuse, SessionChecked
<1>4. CASE InitStore(s)
  BY <1>4 DEF InitStore
<1>5. CASE InitDone(s) \/ ResumeDone(s) \/ PresenceDone(s)
  BY <1>5 DEF InitDone, ResumeDone, PresenceDone
<1>6. CASE SubscribeJoin(s)
  BY <1>6 DEF SubscribeJoin
<1>7. CASE ResumeJoin(s)
  BY <1>7 DEF ResumeJoin
<1>8. CASE PresenceStore(s)
  BY <1>8 DEF PresenceStore
<1>9. CASE PresenceWrite(s)
  BY <1>9 DEF PresenceWrite
<1>10. CASE ClosingStep(s)
  BY <1>10 DEF ClosingStep, CountSockets, GoOffline
<1> QED
  BY <1>1, <1>2, <1>3, <1>4, <1>5, <1>6, <1>7, <1>8, <1>9, <1>10
  DEF SocketStep, InitStep, SubscribeStep, ResumeStep, PresenceStep

LEMMA ConnectEffect ==
  ASSUME TypeOK, NEW s \in Sockets, Connect(s)
  PROVE  /\ life[s] = "new" /\ life'[s] = "open"
         /\ CalmDisconnect => \A t \in Sockets : closing[t] = "no"
         /\ handler'[s]["init"].pc = "started"
         /\ HonestInit => handler'[s]["init"].status = chosen
         /\ handler'[s]["subscribe"].pc = "started"
         /\ handler'[s]["resume"].pc \in {"idle", "started"}
         /\ handler'[s]["presence"] = handler[s]["presence"]
         /\ UNCHANGED <<entry, object, closing, dataUser, seen, late>>
<1> DEFINE a == [Idle EXCEPT
                   !.pc = "started",
                   !.status = IF HonestInit THEN chosen ELSE "online"]
           b == [handler[s]["subscribe"] EXCEPT !.pc = "started"]
<1>1. PICK cursors \in Cursors : handler' =
        [handler EXCEPT
           ![s]["init"] = a,
           ![s]["subscribe"].pc = "started",
           ![s]["resume"].pc = IF cursors THEN "started" ELSE "idle"]
  BY DEF Connect
<1>2. /\ a.pc = "started" /\ (HonestInit => a.status = chosen)
      /\ b.pc = "started"
      /\ \A pc \in {"idle", "started"} :
           [handler[s]["resume"] EXCEPT !.pc = pc].pc = pc
  BY Cells DEF Idle, Handler
<1>3. DOMAIN handler = Sockets /\ DOMAIN handler[s] = Kinds
  BY DEF TypeOK
<1>4. /\ handler'[s]["init"] = a
      /\ handler'[s]["subscribe"] = b
      /\ handler'[s]["resume"] = [handler[s]["resume"] EXCEPT
                                   !.pc = IF cursors THEN "started" ELSE "idle"]
      /\ handler'[s]["presence"] = handler[s]["presence"]
  BY <1>1, <1>3
<1> HIDE DEF a, b
<1> QED
  BY <1>2, <1>4 DEF Connect, TypeOK

LEMMA DisconnectEffect ==
  ASSUME TypeOK, NEW s \in Sockets, Disconnect(s)
  PROVE  /\ life[s] = "open" /\ life'[s] = "closed"
         /\ CalmDisconnect => \A t \in Sockets : AllIdle(t)
         /\ entry'[s] = "none"
         /\ closing'[s] = IF entry[s] = "none" THEN "no" ELSE "count"
         /\ UNCHANGED <<object, handler, dataUser, seen, late>>
  BY DEF Disconnect, TypeOK

\* The steps that only begin, refuse or move on a handler.
MoveOn(s, k) ==
  \/ /\ k = "presence"
     /\ \E st \in Statuses : SendPresence(s, st)
  \/ k = "subscribe" /\ SendSubscribe(s)
  \/ Refuse(s, k)
  \/ SessionChecked(s, k)

LEMMA MoveOnEffect ==
  ASSUME TypeOK, NEW s \in Sockets, NEW k \in Kinds, MoveOn(s, k)
  PROVE  /\ OnlyHandler(s, k)
         /\ \/ /\ handler'[s][k].pc = "idle" /\ Refusals
               /\ handler[s][k].pc \in {"started", "checked"}
            \/ /\ k \in {"subscribe", "resume"}
               /\ handler[s][k].pc = "started" /\ handler'[s][k].pc = "checked"
            \/ /\ k = "subscribe" /\ life[s] = "open"
               /\ handler[s][k].pc = "idle" /\ handler'[s][k].pc = "started"
            \/ /\ k = "presence" /\ life[s] = "open"
               /\ handler[s][k].pc = "idle" /\ handler'[s][k].pc = "started"
               /\ IF chosen = "invisible"
                  THEN handler'[s][k].status = "invisible"
                  ELSE handler'[s][k].status \in {"online", "idle"}
         /\ UNCHANGED <<life, entry, object, closing, dataUser, seen, late>>
<1> USE DEF TypeOK, Handler, OnlyHandler
<1>1. CASE k = "presence" /\ \E st \in Statuses : SendPresence(s, st)
  BY <1>1 DEF SendPresence, Idle
<1>2. CASE k = "subscribe" /\ SendSubscribe(s)
  BY <1>2 DEF SendSubscribe
<1>3. CASE Refuse(s, k)
  BY <1>3 DEF Refuse, Idle
<1>4. CASE SessionChecked(s, k)
  BY <1>4 DEF SessionChecked
<1> QED
  BY <1>1, <1>2, <1>3, <1>4 DEF MoveOn

\* gateway:init stores the status in the object and holds it.
LEMMA InitStoreEffect ==
  ASSUME TypeOK, NEW s \in Sockets, InitStore(s)
  PROVE  /\ handler[s]["init"].pc = "started"
         /\ handler'[s]["init"].pc = "stored"
         /\ handler'[s]["init"].status = handler[s]["init"].status
         /\ handler'[s]["init"].obj = StateOf(s)
         /\ OnlyHandler(s, "init")
         /\ object'[s][StateOf(s)].status = handler[s]["init"].status
         /\ object'[s][StateOf(s)].known
         /\ object'[s][StateOf(s)].room = object[s][StateOf(s)].room
         /\ OnlyObject(s, StateOf(s))
         /\ entry'[s] = StateOf(s)
         /\ dataUser' = dataUser \cup {s}
         /\ UNCHANGED <<life, closing, seen, late>>
<1>1. /\ handler[s]["init"] \in Handler
      /\ StateOf(s) \in Objects
      /\ object[s][StateOf(s)] \in Object
  BY Cells, StateOfType
<1> QED
  BY <1>1 DEF InitStore, TypeOK, OnlyHandler, OnlyObject, Handler, Object

\* gateway:subscribe or gateway:resume joins the room.
LEMMA JoinEffect ==
  ASSUME TypeOK, NEW s \in Sockets,
         NEW ob, ob = IF entry[s] = "none" THEN FreshObject
                      ELSE object[s][StateOf(s)]
  PROVE  /\ SubscribeJoin(s) \/ ResumeJoin(s) =>
              /\ object'[s][StateOf(s)].status = ob.status
              /\ object'[s][StateOf(s)].known = ob.known
              /\ object'[s][StateOf(s)].room
              /\ OnlyObject(s, StateOf(s))
              /\ entry'[s] = StateOf(s)
              /\ dataUser' = dataUser \cup {s}
              /\ UNCHANGED <<life, closing>>
         /\ SubscribeJoin(s) =>
              /\ handler[s]["subscribe"].pc = "checked"
              /\ handler'[s]["subscribe"].pc = "idle"
              /\ OnlyHandler(s, "subscribe")
              /\ IF ob.room \/ ~ob.known THEN UNCHANGED <<seen, late>>
                 ELSE /\ seen' = Mask(ob.status)
                      /\ late' = (late \/ life[s] = "closed")
         /\ ResumeJoin(s) =>
              /\ handler[s]["resume"].pc = "checked"
              /\ \/ handler'[s]["resume"].pc = "idle" /\ ob.room
                 \/ /\ handler'[s]["resume"].pc = "joined" /\ ~ob.room
                    /\ handler'[s]["resume"].obj = StateOf(s)
              /\ OnlyHandler(s, "resume")
              /\ UNCHANGED <<seen, late>>
<1>1. StateOf(s) \in Objects
  BY StateOfType
<1>2. ob \in Object
  BY <1>1, Cells DEF FreshObject, Object
<1>3. ASSUME SubscribeJoin(s) \/ ResumeJoin(s)
      PROVE  /\ object' = [object EXCEPT ![s][StateOf(s)] =
                             [ob EXCEPT !.room = TRUE]]
             /\ entry' = [entry EXCEPT ![s] = StateOf(s)]
             /\ dataUser' = dataUser \cup {s}
             /\ UNCHANGED <<life, closing>>
  BY <1>3 DEF SubscribeJoin, ResumeJoin
<1>4. ASSUME SubscribeJoin(s)
      PROVE  /\ handler[s]["subscribe"].pc = "checked"
             /\ handler' = [handler EXCEPT ![s]["subscribe"] = Idle]
             /\ IF ob.room THEN UNCHANGED <<seen, late>>
                ELSE Broadcast(s, [ob EXCEPT !.room = TRUE])
  BY <1>4 DEF SubscribeJoin
<1>5. ASSUME ResumeJoin(s)
      PROVE  /\ handler[s]["resume"].pc = "checked"
             /\ handler' = [handler EXCEPT ![s]["resume"] =
                  [Idle EXCEPT !.pc = IF ob.room THEN "idle" ELSE "joined",
                               !.obj = IF ob.room THEN "live" ELSE StateOf(s)]]
             /\ UNCHANGED <<seen, late>>
  BY <1>5 DEF ResumeJoin
<1> HIDE DEF StateOf
<1>6. ASSUME SubscribeJoin(s) \/ ResumeJoin(s)
      PROVE  /\ object'[s][StateOf(s)].status = ob.status
             /\ object'[s][StateOf(s)].known = ob.known
             /\ object'[s][StateOf(s)].room
             /\ OnlyObject(s, StateOf(s))
             /\ entry'[s] = StateOf(s)
  <2> DEFINE joined == [ob EXCEPT !.room = TRUE]
  <2>1. joined.status = ob.status /\ joined.known = ob.known /\ joined.room
    BY <1>2 DEF Object
  <2>2. object' = [object EXCEPT ![s][StateOf(s)] = joined]
    BY <1>3, <1>6
  <2> HIDE DEF joined
  <2>3. object'[s][StateOf(s)] = joined /\ OnlyObject(s, StateOf(s))
    BY <1>1, <2>2 DEF TypeOK, OnlyObject
  <2> QED
    BY <1>3, <1>6, <2>1, <2>3 DEF TypeOK
<1>7. ASSUME SubscribeJoin(s)
      PROVE  /\ handler'[s]["subscribe"].pc = "idle"
             /\ OnlyHandler(s, "subscribe")
             /\ IF ob.room \/ ~ob.known THEN UNCHANGED <<seen, late>>
                ELSE /\ seen' = Mask(ob.status)
                     /\ late' = (late \/ life[s] = "closed")
  BY <1>2, <1>4, <1>7
  DEF TypeOK, OnlyHandler, Object, Idle, Broadcast, Announces
<1>8. ASSUME ResumeJoin(s)
      PROVE  /\ \/ handler'[s]["resume"].pc = "idle" /\ ob.room
                \/ /\ handler'[s]["resume"].pc = "joined" /\ ~ob.room
                   /\ handler'[s]["resume"].obj = StateOf(s)
             /\ OnlyHandler(s, "resume")
  <2> DEFINE g == [Idle EXCEPT !.pc = IF ob.room THEN "idle" ELSE "joined",
                               !.obj = IF ob.room THEN "live" ELSE StateOf(s)]
  <2>1. /\ ob.room => g.pc = "idle"
        /\ ~ob.room => g.pc = "joined" /\ g.obj = StateOf(s)
    BY DEF Idle
  <2>2. handler' = [handler EXCEPT ![s]["resume"] = g]
    BY <1>5, <1>8
  <2> HIDE DEF g
  <2>3. handler'[s]["resume"] = g /\ OnlyHandler(s, "resume")
    BY <2>2 DEF TypeOK, OnlyHandler
  <2> QED
    BY <1>2, <2>1, <2>3 DEF Object
<1> QED
  BY <1>3, <1>4, <1>5, <1>6, <1>7, <1>8

\* gateway:presence without an entry does nothing; with one it stores the
\* status in that object and holds it.
LEMMA PresenceStoreEffect ==
  ASSUME TypeOK, NEW s \in Sockets, PresenceStore(s)
  PROVE  /\ handler[s]["presence"].pc = "started"
         /\ OnlyHandler(s, "presence")
         /\ UNCHANGED <<life, entry, closing, dataUser, seen, late>>
         /\ \/ /\ entry[s] = "none" /\ object' = object
               /\ handler'[s]["presence"].pc = "idle"
            \/ /\ entry[s] \in Objects
               /\ handler'[s]["presence"].pc \in {"stored", "exists"}
               /\ handler'[s]["presence"].status = handler[s]["presence"].status
               /\ handler'[s]["presence"].obj = entry[s]
               /\ object'[s][entry[s]].status = handler[s]["presence"].status
               /\ object'[s][entry[s]].known
               /\ object'[s][entry[s]].room = object[s][entry[s]].room
               /\ OnlyObject(s, entry[s])
<1>1. handler[s]["presence"] \in Handler
  BY Cells
<1>2. CASE entry[s] = "none"
  BY <1>1, <1>2 DEF PresenceStore, TypeOK, OnlyHandler, Idle
<1>3. CASE entry[s] # "none"
  <2>1. entry[s] \in Objects /\ object[s][entry[s]] \in Object
    BY <1>3, Cells DEF TypeOK
  <2>2. /\ handler'[s]["presence"] =
             [handler[s]["presence"] EXCEPT
                !.pc = IF key = "none" THEN "stored" ELSE "exists",
                !.obj = entry[s]]
        /\ OnlyHandler(s, "presence")
    BY <1>3 DEF PresenceStore, TypeOK, OnlyHandler
  <2>3. /\ handler'[s]["presence"].pc \in {"stored", "exists"}
        /\ handler'[s]["presence"].status = handler[s]["presence"].status
        /\ handler'[s]["presence"].obj = entry[s]
    BY <1>1, <2>2 DEF Handler
  <2>4. /\ object'[s][entry[s]].status = handler[s]["presence"].status
        /\ object'[s][entry[s]].known
        /\ object'[s][entry[s]].room = object[s][entry[s]].room
        /\ OnlyObject(s, entry[s])
    <3>1. object' = [object EXCEPT ![s][entry[s]].status = handler[s]["presence"].status,
                                   ![s][entry[s]].known = TRUE]
      BY <1>3 DEF PresenceStore
    <3>2. object \in [Sockets -> [Objects -> Object]]
      BY DEF TypeOK
    <3>3. OnlyObject(s, entry[s])
      BY <2>1, <3>1, <3>2 DEF OnlyObject
    <3>4. object'[s][entry[s]] = [object[s][entry[s]] EXCEPT
                                    !.status = handler[s]["presence"].status,
                                    !.known = TRUE]
      BY <2>1, <3>1, <3>2
    <3> QED
      BY <2>1, <3>3, <3>4 DEF Object
  <2> QED
    BY <1>3, <2>1, <2>2, <2>3, <2>4 DEF PresenceStore
<1> QED
  BY <1>2, <1>3

LEMMA PresenceWriteEffect ==
  ASSUME TypeOK, NEW s \in Sockets, PresenceWrite(s)
  PROVE  /\ handler[s]["presence"].pc = "exists"
         /\ handler'[s]["presence"].pc = "stored"
         /\ handler'[s]["presence"].status = handler[s]["presence"].status
         /\ handler'[s]["presence"].obj = handler[s]["presence"].obj
         /\ OnlyHandler(s, "presence")
         /\ UNCHANGED <<life, entry, object, closing, dataUser, seen, late>>
<1>1. handler[s]["presence"] \in Handler
  BY Cells
<1> QED
  BY <1>1 DEF PresenceWrite, TypeOK, OnlyHandler, Handler

\* The last turn of gateway:init, gateway:resume and gateway:presence
\* announces the object the handler holds.
Done(s, k) ==
  \/ k = "init" /\ InitDone(s)
  \/ k = "resume" /\ ResumeDone(s)
  \/ k = "presence" /\ PresenceDone(s)

LEMMA DoneEffect ==
  ASSUME TypeOK, NEW s \in Sockets, NEW k \in Kinds, Done(s, k)
  PROVE  /\ handler[s][k].pc = IF k = "resume" THEN "joined" ELSE "stored"
         /\ handler'[s][k].pc = "idle"
         /\ OnlyHandler(s, k)
         /\ handler[s][k].obj \in Objects
         /\ IF Announces(object[s][handler[s][k].obj])
            THEN /\ seen' = Mask(object[s][handler[s][k].obj].status)
                 /\ late' = (late \/ life[s] = "closed")
            ELSE UNCHANGED <<seen, late>>
         /\ UNCHANGED <<life, entry, object, closing, dataUser>>
<1>1. handler[s][k] \in Handler
  BY Cells
<1>2. Idle.pc = "idle"
  BY DEF Idle
<1> QED
  BY <1>1, <1>2
  DEF Done, InitDone, ResumeDone, PresenceDone, TypeOK, OnlyHandler, Handler,
      Broadcast

LEMMA ClosingEffect ==
  ASSUME TypeOK, NEW s \in Sockets, ClosingStep(s)
  PROVE  /\ UNCHANGED <<life, entry, object, handler, dataUser, late>>
         /\ \/ /\ closing[s] = "count" /\ seen' = seen
               /\ \/ /\ closing'[s] = "no"
                     /\ \E t \in dataUser : life[t] = "open"
                  \/ /\ closing'[s] = "last"
                     /\ CountMayFail \/ \A t \in dataUser : life[t] # "open"
            \/ /\ closing[s] = "last" /\ closing'[s] = "no"
               /\ seen' = IF object[s]["live"].room THEN "offline" ELSE seen
  BY DEF ClosingStep, CountSockets, GoOffline, TypeOK

\* Every step is one of these, or leaves the sockets and the observer alone.
LEMMA StepCases ==
  ASSUME [Next]_vars
  PROVE  \/ UNCHANGED <<chosen, life, dataUser, entry, object, handler, closing,
                        seen, late>>
         \/ \E s \in Sockets :
              /\ SocketStep(s)
              /\ \/ Connect(s) \/ Disconnect(s) \/ ClosingStep(s)
                 \/ \E k \in Kinds : MoveOn(s, k) \/ Done(s, k)
                 \/ InitStore(s) \/ SubscribeJoin(s) \/ ResumeJoin(s)
                 \/ PresenceStore(s) \/ PresenceWrite(s)
<1>1. CASE UNCHANGED vars \/ Expire \/ Sweep
  BY <1>1 DEF vars, Expire, Sweep
<1>2. ASSUME NEW s \in Sockets, SocketStep(s)
      PROVE  \/ Connect(s) \/ Disconnect(s) \/ ClosingStep(s)
             \/ \E k \in Kinds : MoveOn(s, k) \/ Done(s, k)
             \/ InitStore(s) \/ SubscribeJoin(s) \/ ResumeJoin(s)
             \/ PresenceStore(s) \/ PresenceWrite(s)
  BY <1>2 DEF SocketStep, InitStep, SubscribeStep, ResumeStep, PresenceStep,
     MoveOn, Done
<1>3. Next => Expire \/ Sweep \/ \E s \in Sockets : SocketStep(s)
  BY DEF Next, SocketStep
<1> QED
  BY <1>1, <1>2, <1>3

-----------------------------------------------------------------------------
(* The invariants, socket by socket.                                       *)

\* A socket whose cells do not change stays wired.
LEMMA WiredSame ==
  ASSUME NEW t \in Sockets, Same(t), WiredSocket(t)
  PROVE  WiredSocket(t)'
  BY DEF Same, WiredSocket, Holding, AllIdle

\* A socket stays wired in its own steps.
LEMMA WiredStep ==
  ASSUME TypeOK, NEW s \in Sockets, SocketStep(s), WiredSocket(s), [Next]_vars
  PROVE  WiredSocket(s)'
<1> USE DEF TypeOK, WiredSocket, Holding
<1>1. CASE Connect(s)
  BY <1>1, ConnectEffect DEF FreshObject, AllIdle
<1>2. CASE Disconnect(s)
  BY <1>2, DisconnectEffect
<1>3. ASSUME NEW k \in Kinds, MoveOn(s, k) PROVE WiredSocket(s)'
  BY <1>3, MoveOnEffect DEF OnlyHandler, AllIdle
<1>4. CASE InitStore(s)
  BY <1>4, InitStoreEffect DEF OnlyHandler, OnlyObject, StateOf, AllIdle
<1>5. CASE SubscribeJoin(s) \/ ResumeJoin(s)
  BY <1>5, JoinEffect DEF OnlyHandler, OnlyObject, StateOf, AllIdle
<1>6. CASE PresenceStore(s)
  BY <1>6, PresenceStoreEffect DEF OnlyHandler, OnlyObject, AllIdle
<1>7. CASE PresenceWrite(s)
  BY <1>7, PresenceWriteEffect DEF OnlyHandler, AllIdle
<1>8. ASSUME NEW k \in Kinds, Done(s, k) PROVE WiredSocket(s)'
  BY <1>8, DoneEffect DEF OnlyHandler, AllIdle
<1>9. CASE ClosingStep(s)
  BY <1>9, ClosingEffect DEF AllIdle
<1> QED
  BY <1>1, <1>2, <1>3, <1>4, <1>5, <1>6, <1>7, <1>8, <1>9
  DEF SocketStep, InitStep, SubscribeStep, ResumeStep, PresenceStep, MoveOn,
      Done

\* No step breaks the wiring.
LEMMA WiringStep == TypeOK /\ Wiring /\ [Next]_vars => Wiring'
<1> SUFFICES ASSUME TypeOK, Wiring, [Next]_vars PROVE Wiring'
  OBVIOUS
<1>1. CASE UNCHANGED <<chosen, life, dataUser, entry, object, handler, closing,
                       seen, late>>
  BY <1>1 DEF Wiring, WiredSocket, Holding, AllIdle
<1>2. ASSUME NEW s \in Sockets, SocketStep(s) PROVE Wiring'
  BY <1>2, OthersSame, WiredSame, WiredStep DEF Wiring
<1> QED
  BY <1>1, <1>2, StepCases

LEMMA HonestSame ==
  ASSUME NEW t \in Sockets, Same(t), chosen' = chosen, HonestSocket(t)
  PROVE  HonestSocket(t)'
  BY DEF Same, HonestSocket

\* With an honest gateway:init no step of a socket stores or announces
\* anything but what the user picked.
LEMMA HonestStep ==
  ASSUME HonestInit, TypeOK, Wiring, Honest, [Next]_vars
  PROVE  Honest'
<1>1. CASE UNCHANGED <<chosen, life, dataUser, entry, object, handler, closing,
                       seen, late>>
  BY <1>1 DEF Honest, HonestSocket, InvisibleNeverAnnounced
<1>2. ASSUME NEW s \in Sockets, SocketStep(s) PROVE Honest'
  <2>1. chosen' = chosen /\ \A t \in Sockets \ {s} : Same(t)
    BY <1>2, OthersSame
  <2>2. HonestSocket(s) /\ WiredSocket(s) /\ InvisibleNeverAnnounced
    BY DEF Honest, Wiring
  <2>3. HonestSocket(s)' /\ InvisibleNeverAnnounced'
    <3> USE <2>1, <2>2 DEF HonestSocket, InvisibleNeverAnnounced
    <3>1. CASE Connect(s)
      BY <3>1, ConnectEffect DEF TypeOK, WiredSocket, AllIdle
    <3>2. CASE Disconnect(s)
      BY <3>2, DisconnectEffect
    <3>3. ASSUME NEW k \in Kinds, MoveOn(s, k)
          PROVE  HonestSocket(s)' /\ InvisibleNeverAnnounced'
      <4>1. /\ UNCHANGED <<object, seen>>
            /\ \A j \in {"init", "presence"} :
                 \/ handler'[s][j] = handler[s][j]
                 \/ handler'[s][j].pc = "idle"
                 \/ IF chosen = "invisible"
                    THEN handler'[s][j].status = "invisible"
                    ELSE handler'[s][j].status \in {"online", "idle"}
        BY <3>3, MoveOnEffect DEF OnlyHandler
      <4> QED
        BY <4>1
    <3>4. CASE InitStore(s)
      BY <3>4, InitStoreEffect DEF OnlyHandler, OnlyObject
    <3>5. CASE SubscribeJoin(s) \/ ResumeJoin(s)
      <4> DEFINE ob == IF entry[s] = "none" THEN FreshObject
                       ELSE object[s][StateOf(s)]
      <4>1. StateOf(s) \in Objects
        BY StateOfType
      <4>2. ob.known => /\ ob.status = "invisible" <=> chosen = "invisible"
                        /\ ob.status # "offline"
        BY <4>1 DEF FreshObject
      <4> QED
        BY <3>5, <4>1, <4>2, JoinEffect DEF OnlyHandler, OnlyObject, Mask
    <3>6. CASE PresenceStore(s)
      BY <3>6, PresenceStoreEffect DEF OnlyHandler, OnlyObject
    <3>7. CASE PresenceWrite(s)
      BY <3>7, PresenceWriteEffect DEF OnlyHandler
    <3>8. ASSUME NEW k \in Kinds, Done(s, k)
          PROVE  HonestSocket(s)' /\ InvisibleNeverAnnounced'
      BY <3>8, DoneEffect DEF OnlyHandler, Announces, Mask
    <3>9. CASE ClosingStep(s)
      BY <3>9, ClosingEffect
    <3> QED
      BY <1>2, <3>1, <3>2, <3>3, <3>4, <3>5, <3>6, <3>7, <3>8, <3>9
      DEF SocketStep, InitStep, SubscribeStep, ResumeStep, PresenceStep, MoveOn,
          Done
  <2> QED
    BY <2>1, <2>3, HonestSame DEF Honest
<1> QED
  BY <1>1, <1>2, StepCases

-----------------------------------------------------------------------------
\* The observer never holds a status that nobody will take back: whoever
\* announces on an open socket answers for it, a disconnect hands that on to
\* its own handler, and counting hands it on to a socket that is still open.
LEMMA AnsweredStep ==
  ASSUME TypeOK, Wiring, Answered, [Next]_vars
  PROVE  Answered'
<1>1. CASE UNCHANGED <<chosen, life, dataUser, entry, object, handler, closing,
                       seen, late>>
  BY <1>1 DEF Answered, Answers, LeftUnjoined
<1>2. ASSUME NEW s \in Sockets, SocketStep(s) PROVE Answered'
  <2>1. \A t \in Sockets \ {s} : Same(t)
    BY <1>2, OthersSame
  <2>2. WiredSocket(s) /\ WiredSocket(s)'
    BY <1>2, WiredStep DEF Wiring
  <2> DEFINE Fine(t) == Answers(t) \/ (life[t] = "closed" /\ LeftUnjoined(t))
  <2>3. \A t \in Sockets \ {s} : Fine(t) <=> Fine(t)'
    BY <2>1 DEF Same, Answers, LeftUnjoined
  <2>4. SUFFICES ASSUME seen' # "offline", late' = FALSE
        PROVE  \E t \in Sockets : Fine(t)'
    <3>1. late' \in BOOLEAN
      BY PresenceTypeStep DEF TypeOK
    <3> QED
      BY <2>4, <3>1 DEF Answered
  <2>5. ASSUME seen # "offline" /\ late = FALSE PROVE \E t \in Sockets : Fine(t)
    BY <2>5 DEF Answered
  <2>6. ASSUME s \in dataUser', life'[s] = "open"
        PROVE  \E t \in Sockets : Fine(t)'
    BY <2>6 DEF Answers
  <2>7. ASSUME UNCHANGED <<seen, late>>, Fine(s) => Fine(s)'
        PROVE  \E t \in Sockets : Fine(t)'
    BY <2>3, <2>4, <2>5, <2>7
  <2> USE DEF WiredSocket
  <2>8. CASE Connect(s)
    BY <2>2, <2>7, <2>8, ConnectEffect DEF Answers, LeftUnjoined
  <2>9. CASE Disconnect(s)
    <3>1. Fine(s) => Fine(s)'
      BY <2>2, <2>9, DisconnectEffect DEF Answers, LeftUnjoined
    <3> QED
      BY <2>7, <2>9, <3>1, DisconnectEffect
  <2>10. ASSUME NEW k \in Kinds, MoveOn(s, k) PROVE \E t \in Sockets : Fine(t)'
    BY <2>7, <2>10, MoveOnEffect DEF Answers, LeftUnjoined
  <2>11. CASE InitStore(s)
    <3>1. Fine(s) => Fine(s)'
      BY <2>2, <2>11, InitStoreEffect
      DEF Answers, LeftUnjoined, OnlyObject, StateOf, TypeOK
    <3> QED
      BY <2>7, <2>11, <3>1, InitStoreEffect
  <2>12. CASE SubscribeJoin(s) \/ ResumeJoin(s)
    <3>1. CASE life[s] = "open"
      BY <2>6, <2>12, <3>1, JoinEffect
    <3>2. CASE life[s] = "new"
      BY <2>2, <2>12, <3>2, JoinEffect DEF AllIdle
    <3>3. CASE life[s] = "closed"
      <4>1. StateOf(s) = "orphan"
        BY <2>2, <3>3 DEF StateOf, TypeOK
      <4>2. Fine(s) => Fine(s)'
        BY <2>12, <4>1, JoinEffect DEF Answers, LeftUnjoined, OnlyObject
      <4>3. UNCHANGED <<seen, late>>
        BY <2>4, <2>12, <3>3, JoinEffect DEF TypeOK
      <4> QED
        BY <2>7, <4>2, <4>3
    <3> QED
      BY <3>1, <3>2, <3>3 DEF TypeOK
  <2>13. CASE PresenceStore(s)
    <3>1. Fine(s) => Fine(s)'
      BY <2>2, <2>13, PresenceStoreEffect
      DEF Answers, LeftUnjoined, OnlyObject, TypeOK
    <3> QED
      BY <2>7, <2>13, <3>1, PresenceStoreEffect
  <2>14. CASE PresenceWrite(s)
    BY <2>7, <2>14, PresenceWriteEffect DEF Answers, LeftUnjoined
  <2>15. ASSUME NEW k \in Kinds, Done(s, k) PROVE \E t \in Sockets : Fine(t)'
    <3>1. s \in dataUser
      BY <2>2, <2>15, DoneEffect DEF Holding
    <3>2. CASE life[s] = "open"
      BY <2>6, <2>15, <3>1, <3>2, DoneEffect
    <3>3. CASE life[s] # "open"
      <4>1. life[s] = "closed"
        BY <2>2, <3>1, <3>3 DEF TypeOK
      <4>2. UNCHANGED <<seen, late>>
        BY <2>4, <2>15, <4>1, DoneEffect DEF TypeOK
      <4>3. Fine(s) => Fine(s)'
        BY <2>15, DoneEffect DEF Answers, LeftUnjoined
      <4> QED
        BY <2>7, <4>2, <4>3
    <3> QED
      BY <3>2, <3>3
  <2>16. CASE ClosingStep(s)
    <3>1. CASE closing[s] = "count" /\ closing'[s] = "no"
      <4>1. PICK t \in dataUser : life[t] = "open"
        BY <2>16, <3>1, ClosingEffect
      <4>2. t \in Sockets /\ t # s
        BY <2>2, <3>1, <4>1 DEF TypeOK
      <4>3. Answers(t)
        BY <4>1 DEF Answers
      <4> QED
        BY <2>3, <4>2, <4>3
    <3>2. CASE closing[s] = "count" /\ closing'[s] = "last"
      <4>1. Fine(s) => Fine(s)'
        BY <2>16, <3>2, ClosingEffect DEF Answers, LeftUnjoined
      <4> QED
        BY <2>7, <2>16, <3>2, <4>1, ClosingEffect
    <3>3. CASE closing[s] = "last"
      <4>1. ~object[s]["live"].room /\ UNCHANGED <<seen, late>>
        BY <2>4, <2>16, <3>3, ClosingEffect
      <4>2. Fine(s) => Fine(s)'
        BY <2>16, <4>1, ClosingEffect DEF Answers, LeftUnjoined
      <4> QED
        BY <2>7, <4>1, <4>2
    <3> QED
      BY <2>16, <3>1, <3>2, <3>3, ClosingEffect
  <2> QED
    BY <1>2, <2>8, <2>9, <2>10, <2>11, <2>12, <2>13, <2>14, <2>15, <2>16
    DEF SocketStep, InitStep, SubscribeStep, ResumeStep, PresenceStep, MoveOn,
        Done
<1> QED
  BY <1>1, <1>2, StepCases

-----------------------------------------------------------------------------
\* When sockets come and go only between handlers, nothing is refused and the
\* count does not fail: closed sockets have no handlers, every open socket is
\* identified and in the room by the time its first handlers are done, so a
\* count that finds nobody is right and stays right until it is used, and what
\* is announced in the meantime is not undone.
LEMMA CalmStep ==
  ASSUME HonestInit, CalmDisconnect, ~CountMayFail, ~Refusals,
         TypeOK, Wiring, Honest, Calm, [Next]_vars
  PROVE  Calm'
<1>1. CASE UNCHANGED <<chosen, life, dataUser, entry, object, handler, closing,
                       seen, late>>
  BY <1>1 DEF Calm, CalmSocket, LeftUnjoined, AllIdle, Announces, Announcing
<1>2. ASSUME NEW s \in Sockets, SocketStep(s) PROVE Calm'
  <2>1. chosen' = chosen /\ \A t \in Sockets \ {s} : Same(t)
    BY <1>2, OthersSame
  <2>2. WiredSocket(s) /\ WiredSocket(s)' /\ HonestSocket(s)
    BY <1>2, WiredStep DEF Wiring, Honest
  <2>3. ~late /\ \A t \in Sockets : CalmSocket(t)
    BY DEF Calm
  \* What the step leaves to show: the parts of CalmSocket that speak of
  \* other sockets or of the observer, and the socket's own part.
  <2> DEFINE Own == /\ life'[s] # "open" => AllIdle(s)'
                    /\ life'[s] = "open" =>
                         /\ s \in dataUser' \/ handler'[s]["init"].pc = "started"
                         /\ \/ object'[s]["live"].room
                            \/ handler'[s]["subscribe"].pc
                                 \in {"started", "checked"}
                    /\ life'[s] = "closed" => ~LeftUnjoined(s)'
             Heard == life'[s] = "open" /\ Announces(object'[s]["live"])
                      /\ chosen = "online"
                        => seen' # "offline" \/ Announcing(s)'
             Count == \A t \in Sockets :
                        /\ closing'[t] # "no" =>
                             \A r \in Sockets : life'[r] = "open" => r \in dataUser'
                        /\ closing'[t] = "last" =>
                             \A r \in Sockets : life'[r] # "open"
             Told == \/ seen' = seen
                     \/ chosen = "online" => seen' # "offline"
                     \/ \A r \in Sockets : life'[r] # "open"
  <2>4. SUFFICES Own /\ Heard /\ Count /\ Told /\ ~late'
    <3>1. ASSUME NEW t \in Sockets \ {s} PROVE CalmSocket(t)'
      <4>1. Same(t) /\ CalmSocket(t)
        BY <2>1, <2>3
      <4> QED
        BY <2>1, <2>4, <4>1
        DEF CalmSocket, Same, LeftUnjoined, AllIdle, Announces, Announcing
    <3>2. CalmSocket(s)'
      BY <2>1, <2>4 DEF CalmSocket, Announces
    <3> QED
      BY <2>4, <3>1, <3>2 DEF Calm
  \* A step that keeps the sockets' lives and counts keeps what was counted.
  <2>5. ASSUME UNCHANGED <<life, closing>>, dataUser \subseteq dataUser'
        PROVE  Count
    BY <2>3, <2>5 DEF CalmSocket
  <2> USE <2>1, <2>2, <2>3
  <2>6. CASE Connect(s)
    <3>1. Count
      BY <2>6, ConnectEffect
    <3>2. Own /\ Heard /\ Told /\ ~late'
      BY <2>6, ConnectEffect
      DEF WiredSocket, Announces, FreshObject, LeftUnjoined, TypeOK
    <3> QED
      BY <3>1, <3>2
  <2>7. CASE Disconnect(s)
    <3>1. \A t \in Sockets : AllIdle(t)
      BY <2>7, DisconnectEffect
    <3>2. \A t \in Sockets : life[t] = "open" => t \in dataUser
      BY <3>1 DEF CalmSocket, AllIdle
    <3>3. object[s]["live"].room
      BY <2>7, <3>1, DisconnectEffect DEF CalmSocket, AllIdle
    <3>4. Count
      BY <2>7, <3>2, DisconnectEffect DEF CalmSocket, Same, TypeOK
    <3>5. Own /\ Heard /\ Told /\ ~late'
      BY <2>7, <3>1, <3>3, DisconnectEffect DEF AllIdle, LeftUnjoined
    <3> QED
      BY <3>4, <3>5
  <2>8. ASSUME NEW k \in Kinds, MoveOn(s, k)
        PROVE  Own /\ Heard /\ Count /\ Told /\ ~late'
    <3>1. /\ life' = life /\ closing' = closing /\ dataUser' = dataUser
          /\ seen' = seen /\ late' = late /\ object' = object
      BY <2>8, MoveOnEffect
    <3>2. Count
      BY <2>5, <3>1
    <3>3. Own
      BY <2>8, <3>1, MoveOnEffect
      DEF CalmSocket, AllIdle, LeftUnjoined, OnlyHandler
    <3>4. Heard
      BY <2>8, <3>1, MoveOnEffect
      DEF CalmSocket, Announcing, Announces, OnlyHandler
    <3> QED
      BY <3>1, <3>2, <3>3, <3>4
  <2>9. CASE InitStore(s)
    <3>1. life[s] = "open" /\ StateOf(s) = "live"
      BY <2>9, InitStoreEffect DEF CalmSocket, AllIdle, WiredSocket, StateOf,
         TypeOK
    <3>2. Count
      BY <2>5, <2>9, InitStoreEffect
    <3> QED
      BY <2>9, <3>1, <3>2, InitStoreEffect
      DEF CalmSocket, OnlyHandler, Announcing
  <2>10. CASE SubscribeJoin(s) \/ ResumeJoin(s)
    <3> DEFINE ob == IF entry[s] = "none" THEN FreshObject
                     ELSE object[s][StateOf(s)]
    <3>1. life[s] = "open" /\ StateOf(s) = "live"
      BY <2>10, JoinEffect DEF CalmSocket, AllIdle, WiredSocket, StateOf, TypeOK
    <3>2. Count
      BY <2>5, <2>10, JoinEffect
    <3>3. ob.known /\ chosen = "online" => Mask(ob.status) # "offline"
      BY <3>1 DEF HonestSocket, FreshObject, Mask
    <3>4. ob.known /\ ob.room => Announces(object[s]["live"])
      BY <3>1 DEF FreshObject, Announces
    <3>5. Own
      BY <2>10, <3>1, JoinEffect
    <3>6. CASE SubscribeJoin(s)
      <4>1. CASE ob.room \/ ~ob.known
        <5>1. UNCHANGED <<seen, late>>
          BY <3>6, <4>1, JoinEffect
        <5>2. Heard
          BY <3>1, <3>4, <3>6, <4>1, <5>1, JoinEffect
          DEF CalmSocket, OnlyHandler, Announcing, Announces
        <5> QED
          BY <3>2, <3>5, <5>1, <5>2
      <4>2. CASE ~ob.room /\ ob.known
        <5>1. seen' = Mask(ob.status) /\ late' = late
          BY <3>1, <3>6, <4>2, JoinEffect DEF TypeOK
        <5> QED
          BY <3>2, <3>3, <3>5, <4>2, <5>1
      <4> QED
        BY <4>1, <4>2
    <3>7. CASE ResumeJoin(s)
      <4>1. UNCHANGED <<seen, late>>
        BY <3>7, JoinEffect
      <4>2. Heard
        BY <3>1, <3>4, <3>7, <4>1, JoinEffect
        DEF CalmSocket, OnlyHandler, Announcing, Announces
      <4> QED
        BY <3>2, <3>5, <4>1, <4>2
    <3> QED
      BY <2>10, <3>6, <3>7
  <2>11. CASE PresenceStore(s)
    <3>1. life[s] = "open" /\ entry[s] # "orphan"
      BY <2>11, PresenceStoreEffect DEF CalmSocket, AllIdle, WiredSocket, TypeOK
    <3>2. Count
      BY <2>5, <2>11, PresenceStoreEffect
    <3> QED
      BY <2>11, <3>1, <3>2, PresenceStoreEffect
      DEF CalmSocket, OnlyHandler, OnlyObject, Announcing, Announces
  <2>12. CASE PresenceWrite(s)
    <3>1. life[s] = "open"
      BY <2>12, PresenceWriteEffect DEF CalmSocket, AllIdle
    <3>2. Count
      BY <2>5, <2>12, PresenceWriteEffect
    <3> QED
      BY <2>12, <3>1, <3>2, PresenceWriteEffect
      DEF CalmSocket, OnlyHandler, Announcing
  <2>13. ASSUME NEW k \in Kinds, Done(s, k)
         PROVE  Own /\ Heard /\ Count /\ Told /\ ~late'
    <3>1. life[s] = "open"
      BY <2>13, DoneEffect DEF CalmSocket, AllIdle
    <3>2. handler[s][k].obj = "live"
      BY <2>13, <3>1, DoneEffect DEF WiredSocket, Holding
    <3>3. Count
      BY <2>5, <2>13, DoneEffect
    <3>4. Own
      BY <2>13, <3>1, DoneEffect DEF CalmSocket, OnlyHandler, WiredSocket, Holding
    <3>5. CASE Announces(object[s]["live"])
      <4>1. seen' = Mask(object[s]["live"].status) /\ ~late'
        BY <2>13, <3>1, <3>2, <3>5, DoneEffect
      <4>2. chosen = "online" => seen' # "offline"
        BY <3>5, <4>1 DEF HonestSocket, Mask, Announces
      <4> QED
        BY <3>3, <3>4, <4>1, <4>2
    <3>6. CASE ~Announces(object[s]["live"])
      BY <2>13, <3>2, <3>3, <3>4, <3>6, DoneEffect
    <3> QED
      BY <3>5, <3>6
  <2>14. CASE ClosingStep(s)
    <3>1. UNCHANGED <<life, entry, object, handler, dataUser, late>>
      BY <2>14, ClosingEffect
    <3>2. Own
      BY <3>1 DEF CalmSocket, AllIdle, LeftUnjoined
    <3>3. CASE closing[s] = "count"
      <4>1. closing'[s] = "last" => \A t \in Sockets : life[t] # "open"
        BY <2>14, <3>3, ClosingEffect DEF CalmSocket
      <4>2. Count
        BY <3>1, <3>3, <4>1 DEF CalmSocket, Same
      <4>3. seen' = seen
        BY <2>14, <3>3, ClosingEffect
      <4> QED
        BY <3>1, <3>2, <4>2, <4>3 DEF CalmSocket, Announcing
    <3>4. CASE closing[s] = "last"
      <4>1. \A t \in Sockets : life[t] # "open"
        BY <3>4 DEF CalmSocket
      <4>2. Count
        BY <3>1, <4>1
      <4> QED
        BY <3>1, <3>2, <4>1, <4>2
    <3> QED
      BY <2>14, <3>3, <3>4, ClosingEffect
  <2> QED
    BY <1>2, <2>6, <2>7, <2>8, <2>9, <2>10, <2>11, <2>12, <2>13, <2>14
    DEF SocketStep, InitStep, SubscribeStep, ResumeStep, PresenceStep, MoveOn,
        Done
<1> QED
  BY <1>1, <1>2, StepCases

-----------------------------------------------------------------------------
(* The theorems.                                                           *)

\* Nobody is connected and nothing was announced.
LEMMA PresenceInit ==
  Init => TypeOK /\ Wiring /\ Honest /\ Answered /\ Calm
<1> SUFFICES ASSUME Init PROVE TypeOK /\ Wiring /\ Honest /\ Answered /\ Calm
  OBVIOUS
<1>1. /\ Idle \in Handler /\ Idle.pc = "idle"
      /\ FreshObject \in Object
      /\ ~FreshObject.known /\ ~FreshObject.room
  BY DEF Idle, Handler, FreshObject, Object
<1>2. /\ \A s \in Sockets :
           /\ life[s] = "new" /\ entry[s] = "none" /\ closing[s] = "no"
           /\ \A o \in Objects : object[s][o] = FreshObject
           /\ \A k \in Kinds : handler[s][k] = Idle
      /\ dataUser = {} /\ seen = "offline" /\ late = FALSE
  BY DEF Init
<1>3. TypeOK
  BY <1>1 DEF Init, TypeOK
<1>4. Wiring
  BY <1>1, <1>2 DEF Wiring, WiredSocket, Holding, AllIdle
<1>5. Honest /\ Answered
  BY <1>1, <1>2 DEF Honest, HonestSocket, InvisibleNeverAnnounced, Answered
<1>6. Calm
  BY <1>1, <1>2 DEF Calm, CalmSocket, AllIdle
<1> QED
  BY <1>3, <1>4, <1>5, <1>6

\* Every reachable state has the variables in their types: the observer is
\* never sent "invisible" itself, whatever is refused, lost or fails.
THEOREM PresenceTypes == Spec => []TypeOK
<1> QED
  BY PresenceInit, PresenceTypeStep, PTL DEF Spec

\* Whatever the order in which a socket's handlers finish, also after it is
\* closed, its identity, its entry in socketStates and the objects its
\* handlers hold go together.
THEOREM SocketsWired == Spec => []Wiring
<1> QED
  BY PresenceInit, PresenceTypeStep, WiringStep, PTL DEF Spec

\* A user who picked invisible is never announced as anything but offline,
\* with any number of sockets, provided gateway:init carries what was picked.
THEOREM InvisibleHidden ==
  ASSUME HonestInit PROVE Spec => []InvisibleNeverAnnounced
<1>1. Honest => InvisibleNeverAnnounced
  BY DEF Honest
<1>2. TypeOK /\ Wiring /\ Honest /\ [Next]_vars => Honest'
  BY HonestStep
<1> QED
  BY <1>1, <1>2, PresenceInit, PresenceTypeStep, WiringStep, PTL DEF Spec

\* With any number of sockets the observer is left with a ghost only by a
\* handler that outlived its socket or by a socket that never joined the room.
THEOREM GhostsExplained == Spec => []GhostExplained
<1>1. Answered => GhostExplained
  BY DEF Answered, Answers, GhostExplained, Quiet
<1>2. TypeOK /\ Wiring /\ Answered /\ [Next]_vars => Answered'
  BY AnsweredStep
<1> QED
  BY <1>1, <1>2, PresenceInit, PresenceTypeStep, WiringStep, PTL DEF Spec

\* When sockets come and go only between handlers, the announcements settle on
\* the truth, with any number of sockets and whatever Redis does.
THEOREM AnnouncementsSettle ==
  ASSUME HonestInit, CalmDisconnect, ~CountMayFail, ~Refusals
  PROVE  Spec => []PresenceSettled
<1>1. TypeOK /\ Wiring /\ Honest /\ Answered /\ Calm => PresenceSettled
  <2> SUFFICES ASSUME TypeOK, Wiring, Honest, Answered, Calm, Quiet
               PROVE  /\ (\E s \in Sockets : Shown(s)) => seen # "offline"
                      /\ seen # "offline" =>
                           \E s \in dataUser : life[s] = "open"
    BY DEF PresenceSettled
  <2>1. ASSUME NEW s \in Sockets, Shown(s) PROVE seen # "offline"
    <3>1. chosen = "online"
      BY <2>1 DEF Shown, Mask, Announces, Honest, HonestSocket, TypeOK
    <3> QED
      BY <2>1, <3>1 DEF Shown, Calm, CalmSocket, Quiet, AllIdle, Announcing
  <2>2. ASSUME seen # "offline" PROVE \E s \in dataUser : life[s] = "open"
    BY <2>2 DEF Answered, Answers, Calm, CalmSocket, Quiet
  <2> QED
    BY <2>1, <2>2
<1>2. TypeOK /\ Wiring /\ Honest /\ [Next]_vars => Honest'
  BY HonestStep
<1>3. TypeOK /\ Wiring /\ Answered /\ [Next]_vars => Answered'
  BY AnsweredStep
<1>4. TypeOK /\ Wiring /\ Honest /\ Calm /\ [Next]_vars => Calm'
  BY CalmStep
<1> QED
  BY <1>1, <1>2, <1>3, <1>4, PresenceInit, PresenceTypeStep, WiringStep, PTL
  DEF Spec
=============================================================================
