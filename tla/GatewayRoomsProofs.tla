------------------------- MODULE GatewayRoomsProofs -------------------------
(***************************************************************************)
(* For every set of users, channels, sockets and replicas: the safety      *)
(* invariants of GatewayRooms, that its rooms implement the safety part of *)
(* ChannelPermits, and that a client of RoomRequests is in the rooms it    *)
(* has asked for.  RoomsInv is inductive; what it adds to the              *)
(* checked invariants is that a looping resume has already identified its  *)
(* socket, that an enumeration knows its replica, and that with a single   *)
(* replica no leave ever travels.                                          *)
(***************************************************************************)
EXTENDS RoomRequests, TLAPS

LoopingReady ==
  \A s \in Sockets :
    /\ handler[s]["resume"].pc = "looping" /\ life[s] = "open"
         => s \in dataUser /\ s \in hasState
    /\ life[s] = "new" => \A k \in Kinds : handler[s][k].pc = "idle"

\* GuardImpliesRoom, with what makes it inductive: an enumeration knows its
\* replica, and with a single replica no leave is ever sent to another one.
GuardInv ==
  /\ \A u \in Users, c \in DMs :
       removal[u][c].pc = "fetched" => removal[u][c].at \in Replicas
  /\ SingleReplica => /\ leaving = {}
                      /\ \A s \in Sockets : subscribed[s] \subseteq rooms[s]
  /\ \A u \in Users, c \in DMs : \A s \in removal[u][c].found : UserOf[s] = u

RoomsInv ==
  /\ TypeOK
  /\ InRoomIdentified
  /\ LoopingReady
  /\ GuardInv
  /\ StaleEntryAccounted

USE DEF Channels, Kinds, Handler, Removal, Idle, NoRemoval

\* The initial state satisfies the inductive invariant: nobody is connected,
\* so no room, handler or eviction needs an account.
LEMMA RoomsInit == Init => RoomsInv
  BY RoomsAssumption DEF Init, RoomsInv, TypeOK, InRoomIdentified, LoopingReady,
     GuardInv, StaleEntryAccounted

\* Joining granted channels keeps the three variables it writes in their types.
LEMMA JoinType ==
  ASSUME TypeOK, NEW s \in Sockets, NEW cs \in SUBSET Channels, Join(s, cs)
  PROVE  /\ rooms' \in [Sockets -> SUBSET Channels]
         /\ subscribed' \in [Sockets -> SUBSET Channels]
         /\ slipped' \in SUBSET (Sockets \X Channels)
<1>1. CASE life[s] = "open"
  <2>1. {c \in cs : ~Authorised(s, c) /\ ~Doomed(s, c)} \in SUBSET Channels
    OBVIOUS
  <2>2. slipped' = slipped \cup
          ({s} \X {c \in cs : ~Authorised(s, c) /\ ~Doomed(s, c)})
    BY <1>1 DEF Join
  <2> DEFINE U == {c \in cs : ~Authorised(s, c) /\ ~Doomed(s, c)}
  <2> HIDE DEF Channels, U
  <2>3. slipped' \in SUBSET (Sockets \X Channels)
    BY <2>1, <2>2 DEF TypeOK, U
  <2>4. /\ rooms' = [rooms EXCEPT ![s] = @ \cup cs]
        /\ subscribed' = [subscribed EXCEPT ![s] = @ \cup cs]
    BY <1>1 DEF Join
  <2> QED
    BY <2>3, <2>4 DEF TypeOK
<1>2. CASE life[s] # "open"
  BY <1>2 DEF Join, TypeOK
<1> QED
  BY <1>1, <1>2

\* What Join does to the two variables the code keeps: both grow by the same
\* channels on an open socket, neither changes on a closed one.
LEMMA JoinShape ==
  ASSUME NEW s \in Sockets, NEW cs, Join(s, cs)
  PROVE  \/ /\ life[s] = "open"
            /\ rooms' = [rooms EXCEPT ![s] = @ \cup cs]
            /\ subscribed' = [subscribed EXCEPT ![s] = @ \cup cs]
         \/ life[s] # "open" /\ UNCHANGED <<rooms, subscribed>>
  BY DEF Join

LEMMA JoinRooms ==
  ASSUME rooms \in [Sockets -> SUBSET Channels], NEW s \in Sockets, NEW cs, Join(s, cs)
  PROVE  /\ life[s] = "open" =>
              \A t \in Sockets : rooms'[t] = IF t = s THEN rooms[t] \cup cs ELSE rooms[t]
         /\ life[s] # "open" \/ cs = {} => rooms' = rooms
<1>1. CASE life[s] = "open"
  <2>1. rooms' = [rooms EXCEPT ![s] = rooms[s] \cup cs]
    BY <1>1 DEF Join
  <2>2. cs = {} => rooms[s] \cup cs = rooms[s]
    OBVIOUS
  <2> QED
    BY <1>1, <2>1, <2>2
<1>2. CASE life[s] # "open"
  BY <1>2 DEF Join
<1> QED
  BY <1>1, <1>2

\* What a membership answer does: some set of channels is granted.
LEMMA CheckShape ==
  ASSUME TypeOK, NEW s \in Sockets, NEW k \in Kinds, Check(s, k)
  PROVE  /\ handler[s][k].pc = "started"
         /\ UNCHANGED <<members, life, rooms, dataUser, leaving, hasState,
                        subscribed, removal, slipped>>
         /\ \E granted \in SUBSET Channels :
              handler' = [handler EXCEPT ![s][k] =
                            [pc |-> "checked", chans |-> granted]]
<1>1. handler[s][k].chans \in SUBSET Channels
  BY DEF TypeOK
<1> QED
  BY <1>1 DEF Check, AccessGranted, AccessGrantedOnError

\* What the first turn of a resume does after its membership answer.
LEMMA ResumeBeginShape ==
  ASSUME TypeOK, NEW s \in Sockets, ResumeBegin(s)
  PROVE  /\ handler[s]["resume"].pc = "checked"
         /\ hasState' = hasState \cup {s}
         /\ dataUser' = dataUser \cup {s}
         /\ UNCHANGED <<members, life, leaving, removal>>
         /\ \/ /\ handler' = [handler EXCEPT ![s]["resume"] = Idle]
               /\ UNCHANGED <<rooms, subscribed, slipped>>
            \/ \E c \in Channels :
                 /\ Join(s, {c})
                 /\ handler' = [handler EXCEPT ![s]["resume"] =
                      [pc |-> "looping", chans |-> @.chans \ {c}]]
<1>1. handler[s]["resume"].chans \in SUBSET Channels
  BY DEF TypeOK
<1> QED
  BY <1>1 DEF ResumeBegin

\* Every step keeps the variables in their types.
LEMMA RoomsTypeStep == TypeOK /\ [Next]_vars => TypeOK'
<1> SUFFICES ASSUME TypeOK, [Next]_vars PROVE TypeOK'
  OBVIOUS
<1> USE RoomsAssumption
<1>1. ASSUME NEW s \in Sockets, Connect(s) PROVE TypeOK'
  BY <1>1 DEF Connect, TypeOK
<1>2. ASSUME NEW s \in Sockets, Disconnect(s) PROVE TypeOK'
  BY <1>2 DEF Disconnect, TypeOK
<1>3. ASSUME NEW s \in Sockets, NEW k \in Kinds, NEW cs \in SUBSET Channels,
             Start(s, k, cs)
      PROVE TypeOK'
  BY <1>3 DEF Start, TypeOK
<1>4. ASSUME NEW s \in Sockets, NEW cs \in SUBSET Channels, Unsubscribe(s, cs)
      PROVE TypeOK'
  BY <1>4 DEF Unsubscribe, TypeOK
<1>5. ASSUME NEW u \in Users, NEW c \in DMs, AddMember(u, c) PROVE TypeOK'
  BY <1>5 DEF AddMember, TypeOK
<1>6. ASSUME NEW u \in Users, NEW c \in DMs, RemoveMember(u, c) PROVE TypeOK'
  BY <1>6 DEF RemoveMember, TypeOK
<1>7. ASSUME NEW s \in Sockets, NEW k \in Kinds, Refuse(s, k) PROVE TypeOK'
  BY <1>7 DEF Refuse, TypeOK
<1>8. ASSUME NEW s \in Sockets, NEW k \in Kinds, Check(s, k) PROVE TypeOK'
  <2>1. PICK granted \in SUBSET Channels :
          handler' = [handler EXCEPT ![s][k] =
                        [pc |-> "checked", chans |-> granted]]
    BY <1>8, CheckShape
  <2> QED
    BY <1>8, <2>1 DEF Check, TypeOK
<1>9. ASSUME NEW s \in Sockets, SubscribeJoin(s) PROVE TypeOK'
  <2>1. handler[s]["subscribe"].chans \in SUBSET Channels
    BY DEF TypeOK
  <2> QED
    BY <1>9, <2>1, JoinType DEF SubscribeJoin, TypeOK
<1>10. ASSUME NEW s \in Sockets, ResumeBegin(s) PROVE TypeOK'
  <2>1. CASE \E c \in Channels :
               /\ Join(s, {c})
               /\ handler' = [handler EXCEPT ![s]["resume"] =
                    [pc |-> "looping", chans |-> @.chans \ {c}]]
    <3>1. PICK c \in Channels :
            /\ Join(s, {c})
            /\ handler' = [handler EXCEPT ![s]["resume"] =
                 [pc |-> "looping", chans |-> @.chans \ {c}]]
      BY <2>1
    <3>2. {c} \in SUBSET Channels
      OBVIOUS
    <3>3. /\ rooms' \in [Sockets -> SUBSET Channels]
          /\ subscribed' \in [Sockets -> SUBSET Channels]
          /\ slipped' \in SUBSET (Sockets \X Channels)
      BY <3>1, <3>2, JoinType
    <3>4. /\ hasState' = hasState \cup {s} /\ dataUser' = dataUser \cup {s}
          /\ UNCHANGED <<members, life, leaving, removal>>
      BY <1>10 DEF ResumeBegin
    <3>5. handler' \in [Sockets -> [Kinds -> Handler]]
      BY <3>1 DEF TypeOK
    <3> QED
      BY <3>3, <3>4, <3>5 DEF TypeOK
  <2>2. CASE /\ handler' = [handler EXCEPT ![s]["resume"] = Idle]
             /\ UNCHANGED <<rooms, subscribed, slipped>>
    BY <1>10, <2>2 DEF ResumeBegin, TypeOK
  <2> QED
    BY <1>10, <2>1, <2>2, ResumeBeginShape
<1>11. ASSUME NEW s \in Sockets, NEW c \in Channels, ResumeNext(s, c)
       PROVE TypeOK'
  <2>1. {c} \in SUBSET Channels
    OBVIOUS
  <2> QED
    BY <1>11, <2>1, JoinType DEF ResumeNext, TypeOK
<1>12. ASSUME NEW s \in Sockets, ResumeComplete(s) PROVE TypeOK'
  BY <1>12 DEF ResumeComplete, TypeOK
<1>13. ASSUME NEW u \in Users, NEW c \in DMs, RevokeLost(u, c) PROVE TypeOK'
  BY <1>13 DEF RevokeLost, LeftBehind, TypeOK
<1>14. ASSUME NEW u \in Users, NEW c \in DMs, NEW r \in Replicas,
              RevokeFetch(u, c, r)
       PROVE TypeOK'
  BY <1>14 DEF RevokeFetch, TypeOK
<1>15. ASSUME NEW u \in Users, NEW c \in DMs, NEW r \in Replicas,
              RevokeFetchFails(u, c, r)
       PROVE TypeOK'
  BY <1>15 DEF RevokeFetchFails, Forget, LeftBehind, TypeOK
<1>16. ASSUME NEW u \in Users, NEW c \in DMs, RevokeLeave(u, c) PROVE TypeOK'
  BY <1>16 DEF RevokeLeave, Forget, TypeOK
<1>17. ASSUME NEW s \in Sockets, NEW c \in Channels, RemoteLeave(s, c)
       PROVE TypeOK'
  BY <1>17 DEF RemoteLeave, TypeOK
<1>18. CASE UNCHANGED vars
  BY <1>18 DEF vars, TypeOK
<1> QED
  BY <1>1, <1>2, <1>3, <1>4, <1>5, <1>6, <1>7, <1>8, <1>9, <1>10, <1>11,
     <1>12, <1>13, <1>14, <1>15, <1>16, <1>17, <1>18
     DEF Next, Environment, HandlerStep, RemovalStep

\* A socket in a room stays identifiable by fetchSockets: every handler sets
\* socket.data.userId before it joins, and only a disconnect forgets a socket.
LEMMA IdentifiedStep ==
  TypeOK /\ InRoomIdentified /\ LoopingReady /\ [Next]_vars
    => InRoomIdentified' /\ LoopingReady'
<1> DEFINE Goal == InRoomIdentified' /\ LoopingReady'
<1> SUFFICES ASSUME TypeOK, InRoomIdentified, LoopingReady, [Next]_vars
             PROVE  Goal
  OBVIOUS
<1>1. ASSUME NEW s \in Sockets, Connect(s) PROVE Goal
  BY <1>1 DEF Connect, TypeOK, InRoomIdentified, LoopingReady
<1>2. ASSUME NEW s \in Sockets, Disconnect(s) PROVE Goal
  BY <1>2 DEF Disconnect, TypeOK, InRoomIdentified, LoopingReady
<1>3. ASSUME NEW s \in Sockets, NEW k \in Kinds, NEW cs \in SUBSET Channels,
             Start(s, k, cs)
      PROVE Goal
  BY <1>3 DEF Start, TypeOK, InRoomIdentified, LoopingReady
<1>4. ASSUME NEW s \in Sockets, NEW cs \in SUBSET Channels, Unsubscribe(s, cs)
      PROVE Goal
  BY <1>4 DEF Unsubscribe, TypeOK, InRoomIdentified, LoopingReady
<1>5. ASSUME NEW u \in Users, NEW c \in DMs, AddMember(u, c) PROVE Goal
  BY <1>5 DEF AddMember, TypeOK, InRoomIdentified, LoopingReady
<1>6. ASSUME NEW u \in Users, NEW c \in DMs, RemoveMember(u, c) PROVE Goal
  BY <1>6 DEF RemoveMember, TypeOK, InRoomIdentified, LoopingReady
<1>7. ASSUME NEW s \in Sockets, NEW k \in Kinds, Refuse(s, k) PROVE Goal
  BY <1>7 DEF Refuse, TypeOK, InRoomIdentified, LoopingReady
<1>8. ASSUME NEW s \in Sockets, NEW k \in Kinds, Check(s, k) PROVE Goal
  <2>1. /\ \E granted \in SUBSET Channels :
             handler' = [handler EXCEPT ![s][k] =
                           [pc |-> "checked", chans |-> granted]]
        /\ handler[s][k].pc = "started"
    BY <1>8, CheckShape
  <2> QED
    BY <1>8, <2>1 DEF Check, TypeOK, InRoomIdentified, LoopingReady
<1>9. ASSUME NEW s \in Sockets, SubscribeJoin(s) PROVE Goal
  BY <1>9, JoinShape DEF SubscribeJoin, TypeOK, InRoomIdentified, LoopingReady
<1>10. ASSUME NEW s \in Sockets, ResumeBegin(s) PROVE Goal
  <2>1. CASE /\ handler' = [handler EXCEPT ![s]["resume"] = Idle]
             /\ UNCHANGED <<rooms, subscribed, slipped>>
    BY <1>10, <2>1 DEF ResumeBegin, TypeOK, InRoomIdentified, LoopingReady
  <2>2. ASSUME NEW c \in Channels, Join(s, {c}),
               handler' = [handler EXCEPT ![s]["resume"] =
                 [pc |-> "looping", chans |-> @.chans \ {c}]]
        PROVE Goal
    <3>1. life[s] # "new"
      BY <1>10 DEF ResumeBegin, LoopingReady
    <3> QED
      BY <1>10, <2>2, <3>1, JoinShape DEF ResumeBegin, TypeOK, InRoomIdentified, LoopingReady
  <2> QED
    BY <1>10, <2>1, <2>2, ResumeBeginShape
<1>11. ASSUME NEW s \in Sockets, NEW c \in Channels, ResumeNext(s, c) PROVE Goal
  BY <1>11, JoinShape DEF ResumeNext, TypeOK, InRoomIdentified, LoopingReady
<1>12. ASSUME NEW s \in Sockets, ResumeComplete(s) PROVE Goal
  BY <1>12 DEF ResumeComplete, TypeOK, InRoomIdentified, LoopingReady
<1>13. ASSUME NEW u \in Users, NEW c \in DMs, RevokeLost(u, c) PROVE Goal
  BY <1>13 DEF RevokeLost, TypeOK, InRoomIdentified, LoopingReady
<1>14. ASSUME NEW u \in Users, NEW c \in DMs, NEW r \in Replicas,
              RevokeFetch(u, c, r)
       PROVE Goal
  BY <1>14 DEF RevokeFetch, TypeOK, InRoomIdentified, LoopingReady
<1>15. ASSUME NEW u \in Users, NEW c \in DMs, NEW r \in Replicas,
              RevokeFetchFails(u, c, r)
       PROVE Goal
  BY <1>15 DEF RevokeFetchFails, TypeOK, InRoomIdentified, LoopingReady
<1>16. ASSUME NEW u \in Users, NEW c \in DMs, RevokeLeave(u, c) PROVE Goal
  BY <1>16 DEF RevokeLeave, TypeOK, InRoomIdentified, LoopingReady
<1>17. ASSUME NEW s \in Sockets, NEW c \in Channels, RemoteLeave(s, c)
       PROVE Goal
  BY <1>17 DEF RemoteLeave, TypeOK, InRoomIdentified, LoopingReady
<1>18. CASE UNCHANGED vars
  BY <1>18 DEF vars, TypeOK, InRoomIdentified, LoopingReady
<1> QED
  BY <1>1, <1>2, <1>3, <1>4, <1>5, <1>6, <1>7, <1>8, <1>9, <1>10, <1>11,
     <1>12, <1>13, <1>14, <1>15, <1>16, <1>17, <1>18
     DEF Next, Environment, HandlerStep, RemovalStep

\* Joining adds the same channels to the rooms and to subscribedChannels.
LEMMA JoinKeepsGuard ==
  ASSUME TypeOK, GuardInv, NEW s \in Sockets, NEW cs, Join(s, cs),
         UNCHANGED <<leaving, removal>>
  PROVE  GuardInv'
<1>1. CASE life[s] = "open"
  <2>1. /\ rooms' = [rooms EXCEPT ![s] = @ \cup cs]
        /\ subscribed' = [subscribed EXCEPT ![s] = @ \cup cs]
    BY <1>1, JoinShape
  <2> QED
    BY <2>1 DEF GuardInv, TypeOK
<1>2. CASE life[s] # "open"
  BY <1>2, JoinShape DEF GuardInv
<1> QED
  BY <1>1, <1>2

\* With one replica the eviction and its bookkeeping are one step, so
\* subscribedChannels never outlives the room.
LEMMA GuardStep == TypeOK /\ GuardInv /\ [Next]_vars => GuardInv'
<1> SUFFICES ASSUME TypeOK, GuardInv, [Next]_vars PROVE GuardInv'
  OBVIOUS
<1> USE RoomsAssumption
<1>1. ASSUME NEW s \in Sockets, Connect(s) PROVE GuardInv'
  BY <1>1 DEF Connect, TypeOK, GuardInv
<1>2. ASSUME NEW s \in Sockets, Disconnect(s) PROVE GuardInv'
  BY <1>2 DEF Disconnect, TypeOK, GuardInv
<1>3. ASSUME NEW s \in Sockets, NEW k \in Kinds, NEW cs \in SUBSET Channels,
             Start(s, k, cs)
      PROVE GuardInv'
  BY <1>3 DEF Start, TypeOK, GuardInv
<1>4. ASSUME NEW s \in Sockets, NEW cs \in SUBSET Channels, Unsubscribe(s, cs)
      PROVE GuardInv'
  BY <1>4 DEF Unsubscribe, TypeOK, GuardInv
<1>5. ASSUME NEW u \in Users, NEW c \in DMs, AddMember(u, c) PROVE GuardInv'
  BY <1>5 DEF AddMember, TypeOK, GuardInv
<1>6. ASSUME NEW u \in Users, NEW c \in DMs, RemoveMember(u, c) PROVE GuardInv'
  BY <1>6 DEF RemoveMember, TypeOK, GuardInv
<1>7. ASSUME NEW s \in Sockets, NEW k \in Kinds, Refuse(s, k) PROVE GuardInv'
  BY <1>7 DEF Refuse, TypeOK, GuardInv
<1>8. ASSUME NEW s \in Sockets, NEW k \in Kinds, Check(s, k) PROVE GuardInv'
  BY <1>8, CheckShape DEF TypeOK, GuardInv
<1>9. ASSUME NEW s \in Sockets, SubscribeJoin(s) PROVE GuardInv'
  BY <1>9, JoinKeepsGuard DEF SubscribeJoin
<1>10. ASSUME NEW s \in Sockets, ResumeBegin(s) PROVE GuardInv'
  <2>1. CASE UNCHANGED <<rooms, subscribed>>
    BY <1>10, <2>1 DEF ResumeBegin, TypeOK, GuardInv
  <2>2. ASSUME NEW c \in Channels, Join(s, {c}) PROVE GuardInv'
    <3>1. UNCHANGED <<leaving, removal>>
      BY <1>10 DEF ResumeBegin
    <3> QED
      BY <2>2, <3>1, JoinKeepsGuard
  <2> QED
    BY <1>10, <2>1, <2>2, ResumeBeginShape
<1>11. ASSUME NEW s \in Sockets, NEW c \in Channels, ResumeNext(s, c)
       PROVE GuardInv'
  BY <1>11, JoinKeepsGuard DEF ResumeNext
<1>12. ASSUME NEW s \in Sockets, ResumeComplete(s) PROVE GuardInv'
  BY <1>12 DEF ResumeComplete, TypeOK, GuardInv
<1>13. ASSUME NEW u \in Users, NEW c \in DMs, RevokeLost(u, c) PROVE GuardInv'
  BY <1>13 DEF RevokeLost, TypeOK, GuardInv
<1>14. ASSUME NEW u \in Users, NEW c \in DMs, NEW r \in Replicas,
              RevokeFetch(u, c, r)
       PROVE GuardInv'
  BY <1>14 DEF RevokeFetch, TypeOK, GuardInv
<1>15. ASSUME NEW u \in Users, NEW c \in DMs, NEW r \in Replicas,
              RevokeFetchFails(u, c, r)
       PROVE GuardInv'
  BY <1>15 DEF RevokeFetchFails, Forget, TypeOK, GuardInv
<1>16. ASSUME NEW u \in Users, NEW c \in DMs, RevokeLeave(u, c) PROVE GuardInv'
  <2> DEFINE rm == removal[u][c]
  <2>1. SUFFICES ASSUME SingleReplica PROVE GuardInv'
    BY <1>16 DEF RevokeLeave, TypeOK, GuardInv
  <2>2. \A s \in rm.found : ReplicaOf[s] = rm.at
    BY <1>16, <2>1, RoomsAssumption DEF RevokeLeave, SingleReplica, TypeOK, GuardInv
  <2>3. leaving' = {}
    BY <1>16, <2>1, <2>2 DEF RevokeLeave, GuardInv, TypeOK
  <2>4. \A s \in Sockets : subscribed'[s] \subseteq rooms'[s]
    <3> SUFFICES ASSUME NEW s \in Sockets
                 PROVE  subscribed'[s] \subseteq rooms'[s]
      OBVIOUS
    <3>1. subscribed[s] \subseteq rooms[s]
      BY <2>1 DEF GuardInv
    <3>2. rooms'[s] = IF s \in rm.found THEN rooms[s] \ {c} ELSE rooms[s]
      BY <1>16, <2>2 DEF RevokeLeave
    <3>3. subscribed'[s] = IF UserOf[s] = u /\ ReplicaOf[s] = rm.at
                           THEN subscribed[s] \ {c} ELSE subscribed[s]
      BY <1>16 DEF RevokeLeave, Forget
    <3>4. s \in rm.found => UserOf[s] = u /\ ReplicaOf[s] = rm.at
      BY <1>16, <2>2 DEF RevokeLeave, GuardInv, TypeOK
    <3> QED
      BY <3>1, <3>2, <3>3, <3>4
  <2> QED
    BY <1>16, <2>3, <2>4 DEF RevokeLeave, TypeOK, GuardInv
<1>17. ASSUME NEW s \in Sockets, NEW c \in Channels, RemoteLeave(s, c)
       PROVE GuardInv'
  BY <1>17 DEF RemoteLeave, TypeOK, GuardInv
<1>18. CASE UNCHANGED vars
  BY <1>18 DEF vars, TypeOK, GuardInv
<1> QED
  BY <1>1, <1>2, <1>3, <1>4, <1>5, <1>6, <1>7, <1>8, <1>9, <1>10, <1>11,
     <1>12, <1>13, <1>14, <1>15, <1>16, <1>17, <1>18
     DEF Next, Environment, HandlerStep, RemovalStep

\* A join either is authorised, or is undone by an eviction already on its
\* way, or is recorded as having slipped through.
LEMMA JoinAccounted ==
  ASSUME TypeOK, StaleEntryAccounted, NEW s \in Sockets,
         NEW cs \in SUBSET Channels, Join(s, cs),
         UNCHANGED <<members, leaving, removal>>
  PROVE  StaleEntryAccounted'
<1>1. CASE life[s] = "open"
  <2>1. \A t \in Sockets : \A c : Authorised(t, c)' <=> Authorised(t, c)
    BY DEF Authorised
  <2>7. \A t \in Sockets : \A c : Doomed(t, c)' <=> Doomed(t, c)
    BY DEF Doomed
  <2>2. rooms' = [rooms EXCEPT ![s] = @ \cup cs]
    BY <1>1, JoinShape
  <2>3. \A t \in Sockets, c \in Channels :
          <<t, c>> \in slipped' <=>
            \/ <<t, c>> \in slipped
            \/ t = s /\ c \in cs /\ ~Authorised(s, c) /\ ~Doomed(s, c)
    BY <1>1 DEF Join
  <2>4. ASSUME NEW t \in Sockets, NEW c \in rooms'[t]
        PROVE  (Authorised(t, c) \/ Doomed(t, c) \/ <<t, c>> \in slipped)'
    <3>1. c \in Channels /\ (c \in rooms[t] \/ (t = s /\ c \in cs))
      BY <2>2, <2>4 DEF TypeOK
    <3>2. CASE c \in rooms[t]
      <4>1. Authorised(t, c) \/ Doomed(t, c) \/ <<t, c>> \in slipped
        BY <3>2 DEF StaleEntryAccounted
      <4> QED
        BY <2>1, <2>7, <2>3, <3>1, <4>1
    <3>3. CASE t = s /\ c \in cs
      BY <2>1, <2>7, <2>3, <3>1, <3>3
    <3> QED
      BY <3>1, <3>2, <3>3
  <2>5. ASSUME NEW t \in Sockets, NEW c \in Channels, <<t, c>> \in slipped'
        PROVE  c \in rooms'[t] /\ ~Authorised(t, c)'
    <3>1. c \in rooms[t] \/ (t = s /\ c \in cs)
      BY <2>3, <2>5 DEF StaleEntryAccounted
    <3>2. c \in rooms'[t]
      BY <2>2, <3>1 DEF TypeOK
    <3>3. ~Authorised(t, c)
      BY <2>3, <2>5 DEF StaleEntryAccounted
    <3> QED
      BY <2>1, <3>2, <3>3
  <2> QED
    BY <2>4, <2>5 DEF StaleEntryAccounted
<1>2. CASE life[s] # "open"
  BY <1>2 DEF Join, StaleEntryAccounted, Authorised, Doomed
<1> QED
  BY <1>1, <1>2

\* An eviction that is given up on leaves nobody behind unrecorded.
LEMMA GivenUpAccounted ==
  ASSUME TypeOK, StaleEntryAccounted, NEW u \in Users, NEW c \in DMs,
         removal' = [removal EXCEPT ![u][c] = NoRemoval],
         slipped' = slipped \cup LeftBehind(u, c),
         UNCHANGED <<members, rooms, leaving>>
  PROVE  StaleEntryAccounted'
<1>1. \A s \in Sockets : \A d : Authorised(s, d)' <=> Authorised(s, d)
  BY DEF Authorised
<1>2. \A s \in Sockets, d \in Channels :
        <<s, d>> \in slipped' <=>
          \/ <<s, d>> \in slipped
          \/ /\ d = c /\ UserOf[s] = u /\ d \in rooms[s]
             /\ <<u, c>> \notin members /\ <<s, c>> \notin leaving
  BY DEF LeftBehind
<1>3. ASSUME NEW s \in Sockets, NEW d \in rooms'[s]
      PROVE  (Authorised(s, d) \/ Doomed(s, d) \/ <<s, d>> \in slipped)'
  <2>1. d \in rooms[s] /\ d \in Channels
    BY <1>3 DEF TypeOK
  <2>2. CASE d = c /\ UserOf[s] = u
    <3>1. CASE <<s, c>> \in leaving
      BY <2>2, <3>1 DEF Doomed
    <3>2. CASE <<u, c>> \in members
      BY <2>2, <3>2 DEF Authorised
    <3> QED
      BY <1>2, <2>1, <2>2, <3>1, <3>2
  <2>3. CASE ~(d = c /\ UserOf[s] = u)
    <3>1. Doomed(s, d)' <=> Doomed(s, d)
      BY <2>3, RoomsAssumption DEF Doomed, TypeOK
    <3> QED
      BY <1>1, <1>2, <2>1, <3>1 DEF StaleEntryAccounted
  <2> QED
    BY <2>2, <2>3
<1>4. ASSUME NEW s \in Sockets, NEW d \in Channels, <<s, d>> \in slipped'
      PROVE  d \in rooms'[s] /\ ~Authorised(s, d)'
  <2>1. CASE <<s, d>> \in slipped
    <3>1. d \in rooms[s] /\ ~Authorised(s, d)
      BY <2>1 DEF StaleEntryAccounted
    <3> QED
      BY <1>1, <3>1
  <2>2. CASE <<s, d>> \notin slipped
    <3>1. /\ d = c /\ UserOf[s] = u /\ d \in rooms[s]
          /\ <<u, c>> \notin members
      BY <1>2, <1>4, <2>2
    <3>2. d # UserOf[s]
      BY <3>1, RoomsAssumption
    <3> QED
      BY <3>1, <3>2 DEF Authorised
  <2> QED
    BY <2>1, <2>2
<1> QED
  BY <1>3, <1>4 DEF StaleEntryAccounted

\* Every non-member in a room is accounted for after every step.
LEMMA AccountedStep ==
  TypeOK /\ InRoomIdentified /\ StaleEntryAccounted /\ [Next]_vars
    => StaleEntryAccounted'
<1> SUFFICES ASSUME TypeOK, InRoomIdentified, StaleEntryAccounted, [Next]_vars
             PROVE  StaleEntryAccounted'
  OBVIOUS
<1> USE RoomsAssumption
<1>1. ASSUME NEW s \in Sockets, Connect(s) PROVE StaleEntryAccounted'
  BY <1>1 DEF Connect, StaleEntryAccounted, Authorised, Doomed
<1>2. ASSUME NEW s \in Sockets, Disconnect(s) PROVE StaleEntryAccounted'
  BY <1>2 DEF Disconnect, TypeOK, StaleEntryAccounted, Authorised, Doomed
<1>3. ASSUME NEW s \in Sockets, NEW k \in Kinds, NEW cs \in SUBSET Channels,
             Start(s, k, cs)
      PROVE StaleEntryAccounted'
  BY <1>3 DEF Start, StaleEntryAccounted, Authorised, Doomed
<1>4. ASSUME NEW s \in Sockets, NEW cs \in SUBSET Channels, Unsubscribe(s, cs)
      PROVE StaleEntryAccounted'
  BY <1>4 DEF Unsubscribe, TypeOK, StaleEntryAccounted, Authorised, Doomed
<1>5. ASSUME NEW u \in Users, NEW c \in DMs, AddMember(u, c)
      PROVE StaleEntryAccounted'
  BY <1>5 DEF AddMember, TypeOK, StaleEntryAccounted, Authorised, Doomed
<1>6. ASSUME NEW u \in Users, NEW c \in DMs, RemoveMember(u, c)
      PROVE StaleEntryAccounted'
  BY <1>6 DEF RemoveMember, TypeOK, StaleEntryAccounted, Authorised, Doomed
<1>7. ASSUME NEW s \in Sockets, NEW k \in Kinds, Refuse(s, k)
      PROVE StaleEntryAccounted'
  BY <1>7 DEF Refuse, StaleEntryAccounted, Authorised, Doomed
<1>8. ASSUME NEW s \in Sockets, NEW k \in Kinds, Check(s, k)
      PROVE StaleEntryAccounted'
  BY <1>8, CheckShape DEF StaleEntryAccounted, Authorised, Doomed
<1>9. ASSUME NEW s \in Sockets, SubscribeJoin(s) PROVE StaleEntryAccounted'
  <2>1. handler[s]["subscribe"].chans \in SUBSET Channels
    BY DEF TypeOK
  <2> QED
    BY <1>9, <2>1, JoinAccounted DEF SubscribeJoin
<1>10. ASSUME NEW s \in Sockets, ResumeBegin(s) PROVE StaleEntryAccounted'
  <2>1. UNCHANGED <<members, leaving, removal>>
    BY <1>10 DEF ResumeBegin
  <2>2. CASE UNCHANGED <<rooms, slipped>>
    BY <2>1, <2>2 DEF StaleEntryAccounted, Authorised, Doomed
  <2>3. ASSUME NEW c \in Channels, Join(s, {c})
        PROVE  StaleEntryAccounted'
    <3>1. {c} \in SUBSET Channels
      OBVIOUS
    <3> QED
      BY <2>1, <2>3, <3>1, JoinAccounted
  <2> QED
    BY <1>10, <2>2, <2>3, ResumeBeginShape
<1>11. ASSUME NEW s \in Sockets, NEW c \in Channels, ResumeNext(s, c)
       PROVE StaleEntryAccounted'
  <2>1. {c} \in SUBSET Channels
    OBVIOUS
  <2> QED
    BY <1>11, <2>1, JoinAccounted DEF ResumeNext
<1>12. ASSUME NEW s \in Sockets, ResumeComplete(s) PROVE StaleEntryAccounted'
  BY <1>12 DEF ResumeComplete, StaleEntryAccounted, Authorised, Doomed
<1>13. ASSUME NEW u \in Users, NEW c \in DMs, RevokeLost(u, c)
       PROVE StaleEntryAccounted'
  BY <1>13, GivenUpAccounted DEF RevokeLost
<1>14. ASSUME NEW u \in Users, NEW c \in DMs, NEW r \in Replicas,
              RevokeFetch(u, c, r)
       PROVE StaleEntryAccounted'
  BY <1>14 DEF RevokeFetch, TypeOK, InRoomIdentified, StaleEntryAccounted, Authorised, Doomed
<1>15. ASSUME NEW u \in Users, NEW c \in DMs, NEW r \in Replicas,
              RevokeFetchFails(u, c, r)
       PROVE StaleEntryAccounted'
  BY <1>15, GivenUpAccounted DEF RevokeFetchFails
<1>16. ASSUME NEW u \in Users, NEW c \in DMs, RevokeLeave(u, c)
       PROVE StaleEntryAccounted'
  BY <1>16 DEF RevokeLeave, TypeOK, StaleEntryAccounted, Authorised, Doomed
<1>17. ASSUME NEW s \in Sockets, NEW c \in Channels, RemoteLeave(s, c)
       PROVE StaleEntryAccounted'
  BY <1>17 DEF RemoteLeave, TypeOK, StaleEntryAccounted, Authorised, Doomed
<1>18. CASE UNCHANGED vars
  BY <1>18 DEF vars, StaleEntryAccounted, Authorised, Doomed
<1> QED
  BY <1>1, <1>2, <1>3, <1>4, <1>5, <1>6, <1>7, <1>8, <1>9, <1>10, <1>11,
     <1>12, <1>13, <1>14, <1>15, <1>16, <1>17, <1>18
     DEF Next, Environment, HandlerStep, RemovalStep

\* The inductive invariant holds in every behaviour.
THEOREM RoomsInvariant == Spec => []RoomsInv
<1>1. RoomsInv /\ [Next]_vars => RoomsInv'
  BY RoomsTypeStep, IdentifiedStep, GuardStep, AccountedStep DEF RoomsInv
<1> QED
  BY RoomsInit, <1>1, PTL DEF Spec

\* The gateway's and the web app's variables keep their types whatever the
\* order of handlers, removals and disconnects.
THEOREM RoomsTypeCorrect == Spec => []TypeOK
  BY RoomsInvariant, PTL DEF RoomsInv

\* Every socket in a room is open, identified and has gateway state, so that
\* an eviction's fetchSockets cannot overlook it.
THEOREM RoomsIdentified == Spec => []InRoomIdentified
  BY RoomsInvariant, PTL DEF RoomsInv

\* A socket of a non-member is in the channel's room only while an eviction
\* will still reach it or as one of the recorded slips of gateway:subscribe,
\* gateway:resume and revokeChannelAccess, for any number of users, channels,
\* sockets and replicas.
THEOREM RoomsAccounted == Spec => []StaleEntryAccounted
  BY RoomsInvariant, PTL DEF RoomsInv

\* With one gateway process revokeChannelAccess never leaves a channel in
\* subscribedChannels that the socket is no longer in the room of.
THEOREM RoomsGuard == Spec => []GuardImpliesRoom
<1>1. GuardInv => GuardImpliesRoom
  BY DEF GuardInv, GuardImpliesRoom
<1> QED
  BY <1>1, RoomsInvariant, PTL DEF RoomsInv
-----------------------------------------------------------------------------
(* GatewayRooms implements ChannelPermits: the mapping is that of Permits. *)

HIDE DEF Channels, Kinds, Handler, Removal, Idle, NoRemoval

allowedBar == {p \in Sockets \X Channels : Authorised(p[1], p[2])}
permitsBar == [s \in Sockets |-> [k \in Kinds |->
                 IF handler[s][k].pc \in {"checked", "looping"}
                 THEN handler[s][k].chans ELSE {}]]
listeningBar == {p \in Sockets \X Channels : p[2] \in rooms[p[1]]}

\* Nobody is connected: nobody listens and no permit is out.
LEMMA PermitsInit == Init => Permits!Init
<1> SUFFICES ASSUME Init PROVE Permits!Init
  OBVIOUS
<1>1. permitsBar = [s \in Sockets |-> [k \in Kinds |-> {}]]
  BY DEF Init, permitsBar, Idle
<1>2. listeningBar = {}
  BY DEF Init, listeningBar
<1> QED
  BY <1>1, <1>2 DEF Permits!Init, permitsBar, listeningBar

\* The permits of one handler change; those of the others stay.
LEMMA PermitsPut ==
  ASSUME TypeOK, NEW s \in Sockets, NEW k \in Kinds, NEW pc, NEW C,
         handler' = [handler EXCEPT ![s][k] = [pc |-> pc, chans |-> C]]
  PROVE  permitsBar' = [permitsBar EXCEPT ![s][k] =
                          IF pc \in {"checked", "looping"} THEN C ELSE {}]
<1>1. \A t \in Sockets, j \in Kinds :
        handler'[t][j] = IF t = s /\ j = k THEN [pc |-> pc, chans |-> C]
                         ELSE handler[t][j]
  BY DEF TypeOK
<1> DEFINE P(h) == IF h.pc \in {"checked", "looping"} THEN h.chans ELSE {}
<1>2. permitsBar = [t \in Sockets |-> [j \in Kinds |-> P(handler[t][j])]]
  BY DEF permitsBar
<1>3. permitsBar' = [t \in Sockets |-> [j \in Kinds |-> P(handler'[t][j])]]
  BY DEF permitsBar
<1>4. P([pc |-> pc, chans |-> C]) = IF pc \in {"checked", "looping"} THEN C ELSE {}
  OBVIOUS
<1> DEFINE D == IF pc \in {"checked", "looping"} THEN C ELSE {}
<1> HIDE DEF P
<1>5. permitsBar' = [t \in Sockets |-> [j \in Kinds |->
                       IF t = s /\ j = k THEN D ELSE permitsBar[t][j]]]
  <2>1. \A t \in Sockets, j \in Kinds :
          P(handler'[t][j]) = IF t = s /\ j = k THEN D ELSE permitsBar[t][j]
    <3> SUFFICES ASSUME NEW t \in Sockets, NEW j \in Kinds
                 PROVE  P(handler'[t][j]) =
                          IF t = s /\ j = k THEN D ELSE permitsBar[t][j]
      OBVIOUS
    <3>1. permitsBar[t][j] = P(handler[t][j])
      BY <1>2
    <3>2. CASE t = s /\ j = k
      <4>1. handler'[t][j] = [pc |-> pc, chans |-> C]
        BY <1>1, <3>2
      <4> QED
        BY <1>4, <3>2, <4>1
    <3>3. CASE ~(t = s /\ j = k)
      <4>1. handler'[t][j] = handler[t][j]
        BY <1>1, <3>3
      <4> QED
        BY <3>1, <3>3, <4>1
    <3> QED
      BY <3>2, <3>3
  <2> HIDE DEF D, permitsBar
  <2> QED
    BY <1>3, <2>1
<1>6. permitsBar = [t \in Sockets |-> [j \in Kinds |-> permitsBar[t][j]]]
  BY <1>2
<1> HIDE DEF D, permitsBar
<1>7. [permitsBar EXCEPT ![s][k] = D] =
        [t \in Sockets |-> [j \in Kinds |->
           IF t = s /\ j = k THEN D ELSE permitsBar[t][j]]]
  <2> DEFINE F == [t \in Sockets |-> [j \in Kinds |-> permitsBar[t][j]]]
  <2>1. [F EXCEPT ![s][k] = D] =
          [t \in Sockets |-> [j \in Kinds |->
             IF t = s /\ j = k THEN D ELSE permitsBar[t][j]]]
    OBVIOUS
  <2> QED
    BY <1>6, <2>1
<1> QED
  BY <1>5, <1>7 DEF D

\* A handler without permits that goes on without one.
LEMMA PermitsKept ==
  ASSUME TypeOK, NEW s \in Sockets, NEW k \in Kinds, NEW pc, NEW C,
         handler' = [handler EXCEPT ![s][k] = [pc |-> pc, chans |-> C]],
         \/ handler[s][k].pc \notin {"checked", "looping"}
         \/ handler[s][k].chans = {},
         \/ pc \notin {"checked", "looping"}
         \/ C = {}
  PROVE  permitsBar' = permitsBar
<1>1. \A t \in Sockets, j \in Kinds :
        handler'[t][j] = IF t = s /\ j = k THEN [pc |-> pc, chans |-> C]
                         ELSE handler[t][j]
  BY DEF TypeOK
<1> QED
  BY <1>1 DEF permitsBar

\* Joining channels a handler was granted spends its permits for them.
LEMMA JoinSpends ==
  ASSUME TypeOK, NEW s \in Sockets, NEW k \in Kinds, NEW pc,
         NEW C \in SUBSET handler[s][k].chans, C # {},
         handler[s][k].pc \in {"checked", "looping"},
         handler' = [handler EXCEPT ![s][k] =
                       [pc |-> pc, chans |-> handler[s][k].chans \ C]],
         pc \in {"checked", "looping"} \/ C = handler[s][k].chans,
         Join(s, C), UNCHANGED members
  PROVE  Permits!Spend(s, k)
<1>1. permitsBar[s][k] = handler[s][k].chans
  BY DEF permitsBar
<1>2. permitsBar' = [permitsBar EXCEPT ![s][k] = @ \ C]
  <2>1. permitsBar' = [permitsBar EXCEPT ![s][k] =
                         IF pc \in {"checked", "looping"}
                         THEN handler[s][k].chans \ C ELSE {}]
    BY PermitsPut
  <2> QED
    BY <1>1, <2>1
<1>3. listeningBar' \in {listeningBar, listeningBar \cup ({s} \X C)}
  <2>1. handler[s][k].chans \subseteq Channels
    BY DEF TypeOK, Handler
  <2>2. CASE life[s] = "open"
    <3>1. \A t \in Sockets :
            rooms'[t] = IF t = s THEN rooms[t] \cup C ELSE rooms[t]
      BY <2>2, JoinShape DEF TypeOK
    <3>2. listeningBar' = listeningBar \cup ({s} \X C)
      BY <2>1, <3>1 DEF listeningBar
    <3> QED
      BY <3>2
  <2>3. CASE life[s] # "open"
    BY <2>3, JoinShape DEF listeningBar
  <2> QED
    BY <2>2, <2>3
<1>4. allowedBar' = allowedBar
  BY DEF allowedBar, Authorised
<1>5. \E D \in (SUBSET permitsBar[s][k]) \ {{}} :
        /\ permitsBar' = [permitsBar EXCEPT ![s][k] = @ \ D]
        /\ listeningBar' \in {listeningBar, listeningBar \cup ({s} \X D)}
  BY <1>1, <1>2, <1>3
<1> QED
  BY <1>4, <1>5 DEF Permits!Spend, permitsBar, listeningBar, allowedBar

\* Leaving rooms is what anybody may do at any time.
LEMMA LeaveStops ==
  ASSUME \A t \in Sockets : rooms'[t] \subseteq rooms[t],
         UNCHANGED <<members, handler>>
  PROVE  Permits!Stop
<1>1. listeningBar' \subseteq listeningBar
  BY DEF listeningBar
<1>2. permitsBar' = permitsBar /\ allowedBar' = allowedBar
  BY DEF permitsBar, allowedBar, Authorised
<1> QED
  BY <1>1, <1>2 DEF Permits!Stop, permitsBar, listeningBar, allowedBar

\* A membership change is about one channel.
LEMMA MembersChange ==
  ASSUME TypeOK, NEW u \in Users, NEW c \in DMs,
         \A v \in Users, d \in DMs :
           d # c => (<<v, d>> \in members' <=> <<v, d>> \in members),
         members' \in SUBSET (Users \X DMs), UNCHANGED <<handler, rooms>>
  PROVE  Permits!Change(c)
<1> DEFINE S == {s \in Sockets : Authorised(s, c)'}
<1>1. allowedBar' = {p \in allowedBar : p[2] # c} \cup (S \X {c})
  <2>1. \A s \in Sockets, d \in Channels :
          d # c => (Authorised(s, d)' <=> Authorised(s, d))
    <3> SUFFICES ASSUME NEW s \in Sockets, NEW d \in Channels, d # c
                 PROVE  Authorised(s, d)' <=> Authorised(s, d)
      OBVIOUS
    <3>1. UserOf[s] \in Users
      BY RoomsAssumption
    <3>2. CASE d \in DMs
      BY <3>1, <3>2 DEF Authorised
    <3>3. CASE d \notin DMs
      <4>1. <<UserOf[s], d>> \notin members /\ <<UserOf[s], d>> \notin members'
        BY <3>3 DEF TypeOK
      <4> QED
        BY <4>1 DEF Authorised
    <3> QED
      BY <3>2, <3>3
  <2>2. ASSUME NEW s \in Sockets, NEW d \in Channels
        PROVE  <<s, d>> \in allowedBar' <=>
                 <<s, d>> \in {p \in allowedBar : p[2] # c} \cup (S \X {c})
    BY <2>1 DEF allowedBar
  <2>3. /\ allowedBar' \subseteq Sockets \X Channels
        /\ {p \in allowedBar : p[2] # c} \cup (S \X {c})
             \subseteq Sockets \X Channels
    BY DEF allowedBar, Channels
  <2> QED
    BY <2>2, <2>3
<1>2. permitsBar' = permitsBar /\ listeningBar' = listeningBar
  BY DEF permitsBar, listeningBar
<1> QED
  BY <1>1, <1>2 DEF Permits!Change, permitsBar, listeningBar, allowedBar

\* Every step of the gateway is a step of ChannelPermits or none: a membership
\* answer issues a permit, a join spends it, whatever takes a socket out of a
\* room is a stop, and everything else stutters.
LEMMA PermitsStep ==
  TypeOK /\ [Next]_vars => [Permits!Next]_(Permits!permitVars)
<1> DEFINE Goal == [Permits!Next]_(Permits!permitVars)
           Still == UNCHANGED <<permitsBar, allowedBar, listeningBar>>
<1> SUFFICES ASSUME TypeOK, [Next]_vars PROVE Goal
  OBVIOUS
<1>a. Still => Goal
  BY DEF Permits!permitVars, permitsBar, allowedBar, listeningBar
<1>b. Permits!Stop => Goal
  BY DEF Permits!Next
<1>c. \A s \in Sockets, k \in Kinds :
        Permits!Issue(s, k) \/ Permits!Spend(s, k) => Goal
  BY DEF Permits!Next
<1>d. \A c \in Channels : Permits!Change(c) => Goal
  BY DEF Permits!Next
<1>e. UNCHANGED <<members, handler, rooms>> => Goal
  BY <1>a DEF permitsBar, allowedBar, listeningBar, Authorised
<1>f. UNCHANGED <<members, rooms>> /\ permitsBar' = permitsBar => Goal
  BY <1>a DEF allowedBar, listeningBar, Authorised
<1>g. Idle = [pc |-> "idle", chans |-> {}]
  BY DEF Idle
<1> HIDE DEF Goal, Still
<1>1. ASSUME NEW s \in Sockets, Connect(s) PROVE Goal
  BY <1>1, <1>e DEF Connect
<1>2. ASSUME NEW s \in Sockets, Disconnect(s) PROVE Goal
  BY <1>2, <1>b, LeaveStops DEF Disconnect, TypeOK
<1>3. ASSUME NEW s \in Sockets, NEW k \in Kinds, NEW cs \in SUBSET Channels,
             Start(s, k, cs)
      PROVE Goal
  BY <1>3, <1>f, PermitsKept DEF Start
<1>4. ASSUME NEW s \in Sockets, NEW cs \in SUBSET Channels, Unsubscribe(s, cs)
      PROVE Goal
  BY <1>4, <1>b, LeaveStops DEF Unsubscribe, TypeOK
<1>5. ASSUME NEW u \in Users, NEW c \in DMs, AddMember(u, c) \/ RemoveMember(u, c)
      PROVE Goal
  <2>1. /\ members' \in SUBSET (Users \X DMs)
        /\ UNCHANGED <<handler, rooms>>
        /\ \A v \in Users, d \in DMs :
             d # c => (<<v, d>> \in members' <=> <<v, d>> \in members)
    BY <1>5 DEF AddMember, RemoveMember, TypeOK
  <2>2. c \in Channels
    BY DEF Channels
  <2> QED
    BY <1>d, <2>1, <2>2, MembersChange
<1>7. ASSUME NEW s \in Sockets, NEW k \in Kinds, Refuse(s, k) PROVE Goal
  <2>1. permitsBar' = permitsBar
    BY <1>7, <1>g, PermitsKept DEF Refuse
  <2> QED
    BY <1>7, <1>f, <2>1 DEF Refuse
<1>8. ASSUME NEW s \in Sockets, NEW k \in Kinds, Check(s, k) PROVE Goal
  <2>1. PICK C \in SUBSET Channels :
          /\ {s} \X C \subseteq allowedBar
          /\ handler' = [handler EXCEPT ![s][k] =
                           [pc |-> "checked", chans |-> C]]
    <3>1. handler[s][k].chans \in SUBSET Channels
      BY DEF TypeOK, Handler
    <3>2. PICK granted \in {AccessGranted(UserOf[s], handler[s][k].chans),
                            AccessGrantedOnError(UserOf[s], handler[s][k].chans)} :
            handler' = [handler EXCEPT ![s][k] = [pc |-> "checked", chans |-> granted]]
      BY <1>8 DEF Check
    <3>3. granted \in SUBSET Channels /\ \A c \in granted : Authorised(s, c)
      BY <3>1 DEF AccessGranted, AccessGrantedOnError, Authorised
    <3>4. {s} \X granted \subseteq allowedBar
      BY <3>3 DEF allowedBar
    <3>5. granted \in SUBSET Channels
      BY <3>3
    <3> WITNESS granted \in SUBSET Channels
    <3> QED
      BY <3>2, <3>4
  <2>2. permitsBar' = [permitsBar EXCEPT ![s][k] = C]
    <3> DEFINE pc == "checked"
               D == IF pc \in {"checked", "looping"} THEN C ELSE {}
    <3>1. handler' = [handler EXCEPT ![s][k] = [pc |-> pc, chans |-> C]]
      BY <2>1
    <3>2. D = C
      OBVIOUS
    <3>3. permitsBar' = [permitsBar EXCEPT ![s][k] = D]
      <4> HIDE DEF pc
      <4> QED
        BY <3>1, PermitsPut, Zenon
    <3> HIDE DEF D
    <3> QED
      BY <3>2, <3>3, Zenon
  <2>3. permitsBar[s][k] = {}
    BY <1>8 DEF Check, permitsBar
  <2>4. allowedBar' = allowedBar /\ listeningBar' = listeningBar
    BY <1>8 DEF Check, allowedBar, listeningBar, Authorised
  <2>5. Permits!Issue(s, k)
    BY <2>1, <2>2, <2>3, <2>4
    DEF Permits!Issue, permitsBar, allowedBar, listeningBar
  <2> QED
    BY <1>c, <2>5
<1>9. ASSUME NEW s \in Sockets, SubscribeJoin(s) PROVE Goal
  <2> DEFINE C == handler[s]["subscribe"].chans
  <2>1. /\ handler[s]["subscribe"].pc = "checked"
        /\ handler' = [handler EXCEPT ![s]["subscribe"] =
                         [pc |-> "idle", chans |-> {}]]
        /\ Join(s, C) /\ UNCHANGED members
    BY <1>9, <1>g DEF SubscribeJoin
  <2>2. CASE C = {}
    <3>2. permitsBar' = permitsBar
      BY <2>1, <2>2, PermitsKept DEF Kinds
    <3>3. UNCHANGED rooms
      <4>1. Join(s, {}) /\ rooms \in [Sockets -> SUBSET Channels]
        BY <2>1, <2>2 DEF TypeOK
      <4> QED
        BY <4>1, JoinRooms
    <3> QED
      BY <1>f, <2>1, <3>2, <3>3
  <2>3. CASE C # {}
    <3>1. handler' = [handler EXCEPT ![s]["subscribe"] =
                        [pc |-> "idle", chans |-> C \ C]]
      BY <2>1
    <3>2. Permits!Spend(s, "subscribe")
      BY <2>1, <2>3, <3>1, JoinSpends DEF Kinds
    <3> QED
      BY <1>c, <3>2 DEF Kinds
  <2> QED
    BY <2>2, <2>3
<1>10. ASSUME NEW s \in Sockets,
              NEW c \in handler[s]["resume"].chans,
              handler[s]["resume"].pc \in {"checked", "looping"},
              Join(s, {c}), UNCHANGED members,
              handler' = [handler EXCEPT ![s]["resume"] =
                            [pc |-> "looping", chans |-> @.chans \ {c}]]
       PROVE Goal
  <2>1. Permits!Spend(s, "resume")
    BY <1>10, JoinSpends DEF Kinds
  <2> QED
    BY <1>c, <2>1 DEF Kinds
<1>11. ASSUME NEW s \in Sockets, handler[s]["resume"].chans = {},
              handler' = [handler EXCEPT ![s]["resume"] = Idle],
              UNCHANGED <<members, rooms>>
       PROVE Goal
  <2>2. permitsBar' = permitsBar
    BY <1>11, <1>g, PermitsKept DEF Kinds
  <2> QED
    BY <1>11, <1>f, <2>2
<1>12. ASSUME NEW s \in Sockets,
              \/ ResumeBegin(s) \/ ResumeComplete(s)
              \/ \E c \in Channels : ResumeNext(s, c)
       PROVE Goal
  BY <1>10, <1>11, <1>12 DEF ResumeBegin, ResumeNext, ResumeComplete
<1>13. ASSUME NEW u \in Users, NEW c \in DMs, RemovalStep(u, c) PROVE Goal
  <2>1. UNCHANGED <<members, handler>>
        /\ \A t \in Sockets : rooms'[t] \subseteq rooms[t]
    BY <1>13
    DEF RemovalStep, RevokeLost, RevokeFetch, RevokeFetchFails, RevokeLeave
  <2> QED
    BY <1>b, <2>1, LeaveStops
<1>14. ASSUME NEW s \in Sockets, NEW c \in Channels, RemoteLeave(s, c)
       PROVE Goal
  BY <1>14, <1>b, LeaveStops DEF RemoteLeave, TypeOK
<1>15. CASE UNCHANGED vars
  BY <1>15, <1>e DEF vars
<1> QED
  BY <1>1, <1>2, <1>3, <1>4, <1>5, <1>7, <1>8, <1>9, <1>12, <1>13, <1>14, <1>15
  DEF Next, Environment, HandlerStep, Kinds

\* The gateway's rooms implement ChannelPermits, but for its liveness: no
\* socket enters a room except on a membership answer that granted it to this
\* very request, whatever removals, disconnects and other handlers come in
\* between.  RoomsOnPermit adds that permits do not stay unused.
THEOREM GatewayImplementsPermits ==
  Spec => Permits!Init /\ [][Permits!Next]_(Permits!permitVars)
<1>1. Init => Permits!Init
  BY PermitsInit
<1>2. TypeOK /\ [Next]_vars => [Permits!Next]_(Permits!permitVars)
  BY PermitsStep
<1> QED
  BY <1>1, <1>2, RoomsTypeCorrect, PTL DEF Spec

-----------------------------------------------------------------------------
(* The client's side.                                                      *)

\* What RequestsMet says of a socket at rest, for every moment: a channel asked
\* for and not missed is joined or still in a request, and a channel joined or
\* in a request was asked for or given up too early.
RequestsTracked ==
  \A s \in Sockets, c \in Channels :
    /\ <<s, c>> \in asked => life[s] = "open"
    /\ <<s, c>> \in asked \ missed => c \in rooms[s] \cup Pending(s)
    /\ life[s] = "open" /\ c \in rooms[s] \cup Pending(s)
         => <<s, c>> \in asked \cup overtaken

\* A channel is pending while a handler of the socket has it.
LEMMA PendingIff ==
  ASSUME NEW s, NEW c
  PROVE  c \in Pending(s) <=>
           \E k \in Kinds : handler[s][k].pc # "idle" /\ c \in handler[s][k].chans
  BY DEF Pending

\* Replacing one handler, whatever becomes of its channels.
LEMMA PendingPut ==
  ASSUME TypeOK, NEW s \in Sockets, NEW k \in Kinds, NEW h,
         handler' = [handler EXCEPT ![s][k] = h]
  PROVE  /\ \A t \in Sockets \ {s} : Pending(t)' = Pending(t)
         /\ handler'[s][k] = h
         /\ \A c : c \in Pending(s) /\ c \notin Pending(s)' =>
              handler[s][k].pc # "idle" /\ c \in handler[s][k].chans
         /\ \A c : c \in Pending(s)' /\ c \notin Pending(s) =>
              h.pc # "idle" /\ c \in h.chans
         /\ \A c : h.pc # "idle" /\ c \in h.chans => c \in Pending(s)'
<1>1. /\ \A t \in Sockets \ {s} : handler'[t] = handler[t]
      /\ handler'[s][k] = h
      /\ \A j \in Kinds \ {k} : handler'[s][j] = handler[s][j]
  BY DEF TypeOK
<1> QED
  BY <1>1 DEF Pending

\* The gateway's own steps are those of Next.
LEMMA RequestIsNext == [RequestNext]_<<vars, requestVars>> => [Next]_vars
  BY DEF RequestNext, Others, Leaves, Joins, Asks, GivesUp, Denied, Evicts, Next,
     Environment, HandlerStep, Kinds, vars

\* A handler that is replaced joins its channels or has them noted as missed,
\* so what was asked for stays tracked; a new request is asked for.
LEMMA TrackedStep ==
  ASSUME TypeOK, InRoomIdentified, LoopingReady, RequestsTracked,
         [RequestNext]_<<vars, requestVars>>
  PROVE  RequestsTracked'
<1>1. CASE UNCHANGED <<vars, requestVars>>
  <2>1. UNCHANGED <<life, rooms, handler, asked, missed, overtaken>>
    BY <1>1 DEF vars, requestVars
  <2>2. \A s : Pending(s)' = Pending(s)
    BY <2>1 DEF Pending
  <2> QED
    BY <2>1, <2>2 DEF RequestsTracked
<1>2. ASSUME NEW s \in Sockets, Others(Connect(s)) PROVE RequestsTracked'
  <2>1. /\ life[s] = "new" /\ life' = [life EXCEPT ![s] = "open"]
        /\ UNCHANGED <<rooms, handler, asked, missed, overtaken>>
    BY <1>2 DEF Others, Connect, requestVars
  <2>2. rooms[s] = {} /\ \A k \in Kinds : handler[s][k].pc = "idle"
    BY <2>1 DEF InRoomIdentified, LoopingReady
  <2>3. Pending(s) = {} /\ \A t \in Sockets : Pending(t)' = Pending(t)
    BY <2>1, <2>2 DEF Pending
  <2>4. life'[s] = "open" /\ \A t \in Sockets : t # s => life'[t] = life[t]
    BY <2>1 DEF TypeOK
  <2>5. \A t \in Sockets : life[t] = "open" => life'[t] = "open"
    BY <2>4
  <2> QED
    BY <2>1, <2>2, <2>3, <2>4, <2>5 DEF RequestsTracked
<1>3. ASSUME NEW s \in Sockets, Leaves(s) PROVE RequestsTracked'
  <2>1. /\ life' = [life EXCEPT ![s] = "closed"]
        /\ rooms' = [rooms EXCEPT ![s] = {}]
        /\ asked' = asked \ ({s} \X Channels)
        /\ UNCHANGED <<handler, missed, overtaken>>
    BY <1>3 DEF Leaves, Disconnect, Only
  <2>2. \A t \in Sockets : Pending(t)' = Pending(t)
    BY <2>1 DEF Pending
  <2> QED
    BY <2>1, <2>2 DEF RequestsTracked, TypeOK
<1>4. ASSUME NEW s \in Sockets, NEW k \in Kinds, NEW cs \in SUBSET Channels,
             Asks(s, k, cs)
      PROVE RequestsTracked'
  <2>1. /\ life[s] = "open" /\ handler[s][k].pc = "idle"
        /\ handler' = [handler EXCEPT ![s][k] = [pc |-> "started", chans |-> cs]]
        /\ UNCHANGED <<life, rooms>>
        /\ asked' = asked \cup ({s} \X cs)
        /\ missed' = missed \ ({s} \X cs)
        /\ overtaken' = overtaken \ ({s} \X cs)
    BY <1>4 DEF Asks, Start, Only
  <2>2. /\ \A t \in Sockets \ {s} : Pending(t)' = Pending(t)
        /\ \A c : c \in Pending(s) => c \in Pending(s)'
        /\ \A c : c \in Pending(s)' => c \in Pending(s) \/ c \in cs
        /\ \A c : c \in cs => c \in Pending(s)'
    <3> DEFINE h == [pc |-> "started", chans |-> cs]
    <3>1. h.pc # "idle" /\ h.chans = cs
      OBVIOUS
    <3>2. handler' = [handler EXCEPT ![s][k] = h]
      BY <2>1
    <3> HIDE DEF h
    <3>3. /\ \A t \in Sockets \ {s} : Pending(t)' = Pending(t)
          /\ \A c : c \in Pending(s) /\ c \notin Pending(s)' => handler[s][k].pc # "idle"
          /\ \A c : c \in Pending(s)' /\ c \notin Pending(s) => c \in h.chans
          /\ \A c : h.pc # "idle" /\ c \in h.chans => c \in Pending(s)'
      BY <3>2, PendingPut
    <3> QED
      BY <2>1, <3>1, <3>3
  <2> SUFFICES ASSUME NEW t \in Sockets, NEW c \in Channels
               PROVE  /\ <<t, c>> \in asked' => life'[t] = "open"
                      /\ <<t, c>> \in asked' \ missed'
                           => c \in rooms'[t] \cup Pending(t)'
                      /\ life'[t] = "open" /\ c \in rooms'[t] \cup Pending(t)'
                           => <<t, c>> \in asked' \cup overtaken'
    BY DEF RequestsTracked
  <2>3. CASE t = s
    BY <2>1, <2>2, <2>3 DEF RequestsTracked
  <2>4. CASE t # s
    BY <2>1, <2>2, <2>4 DEF RequestsTracked
  <2> QED
    BY <2>3, <2>4
<1>5. ASSUME NEW s \in Sockets, NEW cs \in SUBSET Channels, GivesUp(s, cs)
      PROVE RequestsTracked'
  <2>1. /\ rooms' = [rooms EXCEPT ![s] = @ \ cs]
        /\ UNCHANGED <<life, handler>>
        /\ asked' = asked \ ({s} \X cs)
        /\ missed' = missed \ ({s} \X cs)
        /\ overtaken' = (overtaken \ ({s} \X cs)) \cup
                          ({s} \X (cs \cap Pending(s)))
    BY <1>5 DEF GivesUp, Unsubscribe, Only
  <2>2. \A t \in Sockets : Pending(t)' = Pending(t)
    BY <2>1 DEF Pending
  <2> SUFFICES ASSUME NEW t \in Sockets, NEW c \in Channels
               PROVE  /\ <<t, c>> \in asked' => life'[t] = "open"
                      /\ <<t, c>> \in asked' \ missed'
                           => c \in rooms'[t] \cup Pending(t)'
                      /\ life'[t] = "open" /\ c \in rooms'[t] \cup Pending(t)'
                           => <<t, c>> \in asked' \cup overtaken'
    BY DEF RequestsTracked
  <2>3. rooms'[t] = IF t = s THEN rooms[t] \ cs ELSE rooms[t]
    BY <2>1 DEF TypeOK
  <2>4. CASE t = s
    BY <2>1, <2>2, <2>3, <2>4 DEF RequestsTracked
  <2>5. CASE t # s
    BY <2>1, <2>2, <2>3, <2>5 DEF RequestsTracked
  <2> QED
    BY <2>4, <2>5
<1>6. ASSUME NEW s \in Sockets, NEW k \in Kinds, Denied(s, k)
      PROVE RequestsTracked'
  <2>1. PICK h \in Handler :
          /\ handler[s][k].pc = "started"
          /\ handler' = [handler EXCEPT ![s][k] = h]
          /\ h.chans \subseteq handler[s][k].chans
          /\ h.pc = "idle" => h.chans = {}
    <3>1. CASE Refuse(s, k)
      <4>1. Idle \in Handler /\ Idle.chans = {}
        BY DEF Idle, Handler
      <4> QED
        BY <3>1, <4>1 DEF Refuse
    <3>2. CASE Check(s, k)
      <4>1. handler[s][k].chans \in SUBSET Channels
        BY DEF TypeOK, Handler
      <4>2. PICK granted \in SUBSET handler[s][k].chans :
              handler' = [handler EXCEPT ![s][k] =
                            [pc |-> "checked", chans |-> granted]]
        BY <3>2 DEF Check, AccessGranted, AccessGrantedOnError
      <4>3. [pc |-> "checked", chans |-> granted] \in Handler
        BY <4>1, <4>2 DEF Handler
      <4> QED
        BY <3>2, <4>2, <4>3 DEF Check
    <3> QED
      BY <1>6, <3>1, <3>2 DEF Denied
  <2>2. /\ \A t \in Sockets \ {s} : Pending(t)' = Pending(t)
        /\ handler'[s][k] = h
        /\ \A c : c \in Pending(s) /\ c \notin Pending(s)'
                    => c \in handler[s][k].chans /\ c \notin h.chans
        /\ \A c : c \in Pending(s)' => c \in Pending(s)
    <3>1. \A c : c \in h.chans => c \in Pending(s)
      BY <2>1, PendingIff
    <3> QED
      BY <2>1, <3>1, PendingPut
  <2>3. /\ UNCHANGED <<life, rooms, asked, overtaken>>
        /\ missed' = missed \cup ({s} \X (handler[s][k].chans \ h.chans))
    BY <1>6, <2>2 DEF Denied, Refuse, Check, Only
  <2> SUFFICES ASSUME NEW t \in Sockets, NEW c \in Channels
               PROVE  /\ <<t, c>> \in asked' => life'[t] = "open"
                      /\ <<t, c>> \in asked' \ missed'
                           => c \in rooms'[t] \cup Pending(t)'
                      /\ life'[t] = "open" /\ c \in rooms'[t] \cup Pending(t)'
                           => <<t, c>> \in asked' \cup overtaken'
    BY DEF RequestsTracked
  <2>4. CASE t = s
    BY <2>2, <2>3, <2>4 DEF RequestsTracked
  <2>5. CASE t # s
    BY <2>2, <2>3, <2>5 DEF RequestsTracked
  <2> QED
    BY <2>4, <2>5
<1>7. ASSUME NEW s \in Sockets, Joins(s) PROVE RequestsTracked'
  <2>1. PICK k \in Kinds, cs \in SUBSET Channels, h \in Handler :
          /\ handler[s][k].pc # "idle" /\ cs \subseteq handler[s][k].chans
          /\ handler' = [handler EXCEPT ![s][k] = h]
          /\ \/ h.pc # "idle" /\ h.chans = handler[s][k].chans \ cs
             \/ cs = handler[s][k].chans /\ h.chans = {}
          /\ Join(s, cs) \/ (cs = {} /\ UNCHANGED <<rooms, subscribed, slipped>>)
    <3>1. \A k \in Kinds : handler[s][k].chans \in SUBSET Channels
      BY DEF TypeOK, Handler
    <3>2. CASE SubscribeJoin(s)
      <4>1. Idle \in Handler /\ Idle.chans = {}
        BY DEF Idle, Handler
      <4> QED
        BY <3>1, <3>2, <4>1 DEF SubscribeJoin, Kinds
    <3>3. ASSUME handler[s]["resume"].chans = {},
                 handler[s]["resume"].pc # "idle",
                 handler' = [handler EXCEPT ![s]["resume"] = Idle],
                 UNCHANGED <<rooms, subscribed, slipped>>
          PROVE  \E k \in Kinds, cs \in SUBSET Channels, h \in Handler :
                   /\ handler[s][k].pc # "idle"
                   /\ cs \subseteq handler[s][k].chans
                   /\ handler' = [handler EXCEPT ![s][k] = h]
                   /\ \/ h.pc # "idle" /\ h.chans = handler[s][k].chans \ cs
                      \/ cs = handler[s][k].chans /\ h.chans = {}
                   /\ \/ Join(s, cs)
                      \/ cs = {} /\ UNCHANGED <<rooms, subscribed, slipped>>
      <4>1. Idle \in Handler /\ Idle.chans = {}
        BY DEF Idle, Handler
      <4> QED
        BY <3>3, <4>1 DEF Kinds
    <3>4. ASSUME NEW c \in handler[s]["resume"].chans,
                 handler[s]["resume"].pc # "idle",
                 Join(s, {c}),
                 handler' = [handler EXCEPT ![s]["resume"] =
                               [pc |-> "looping", chans |-> @.chans \ {c}]]
          PROVE  \E k \in Kinds, cs \in SUBSET Channels, h \in Handler :
                   /\ handler[s][k].pc # "idle"
                   /\ cs \subseteq handler[s][k].chans
                   /\ handler' = [handler EXCEPT ![s][k] = h]
                   /\ \/ h.pc # "idle" /\ h.chans = handler[s][k].chans \ cs
                      \/ cs = handler[s][k].chans /\ h.chans = {}
                   /\ \/ Join(s, cs)
                      \/ cs = {} /\ UNCHANGED <<rooms, subscribed, slipped>>
      <4> DEFINE h == [pc |-> "looping",
                       chans |-> handler[s]["resume"].chans \ {c}]
      <4>1. h \in Handler /\ h.pc # "idle"
        BY <3>1 DEF Handler, Kinds
      <4>2. {c} \in SUBSET Channels /\ {c} \subseteq handler[s]["resume"].chans
        BY <3>1 DEF Kinds
      <4> QED
        BY <3>4, <4>1, <4>2 DEF Kinds
    <3> QED
      BY <1>7, <3>2, <3>3, <3>4
      DEF Joins, ResumeBegin, ResumeNext, ResumeComplete
  <2>2. /\ \A t \in Sockets \ {s} : Pending(t)' = Pending(t)
        /\ \A c : c \in Pending(s) /\ c \notin Pending(s)' => c \in cs
        /\ \A c : c \in Pending(s)' \/ c \in cs => c \in Pending(s)
    <3>1. \A c : c \in handler[s][k].chans => c \in Pending(s)
      BY <2>1, PendingIff
    <3> QED
      BY <2>1, <3>1, PendingPut
  <2>3. /\ life[s] = "open" =>
             \A t \in Sockets :
               rooms'[t] = IF t = s THEN rooms[t] \cup cs ELSE rooms[t]
        /\ life[s] # "open" => rooms' = rooms
    <3>1. rooms \in [Sockets -> SUBSET Channels]
      BY DEF TypeOK
    <3>2. CASE Join(s, cs)
      BY <3>1, <3>2, JoinRooms
    <3>3. CASE cs = {} /\ rooms' = rooms
      BY <3>3
    <3> QED
      BY <2>1, <3>2, <3>3
  <2>4. UNCHANGED <<life, asked, missed, overtaken>>
    BY <1>7
    DEF Joins, SubscribeJoin, ResumeBegin, ResumeNext, ResumeComplete,
        requestVars
  <2> SUFFICES ASSUME NEW t \in Sockets, NEW c \in Channels
               PROVE  /\ <<t, c>> \in asked => life[t] = "open"
                      /\ <<t, c>> \in asked \ missed
                           => c \in rooms'[t] \cup Pending(t)'
                      /\ life[t] = "open" /\ c \in rooms'[t] \cup Pending(t)'
                           => <<t, c>> \in asked \cup overtaken
    BY <2>4 DEF RequestsTracked
  <2>5. CASE t = s
    BY <2>2, <2>3, <2>5 DEF RequestsTracked
  <2>6. CASE t # s
    BY <2>2, <2>3, <2>6 DEF RequestsTracked
  <2> QED
    BY <2>5, <2>6
<1>8. ASSUME NEW u \in Users, NEW c \in DMs,
             Others(AddMember(u, c) \/ RemoveMember(u, c))
      PROVE RequestsTracked'
  <2>1. UNCHANGED <<life, rooms, handler, asked, missed, overtaken>>
    BY <1>8 DEF Others, AddMember, RemoveMember, requestVars
  <2>2. \A t \in Sockets : Pending(t)' = Pending(t)
    BY <2>1 DEF Pending
  <2> QED
    BY <2>1, <2>2 DEF RequestsTracked
<1>9. ASSUME NEW u \in Users, NEW d \in DMs, Evicts(RemovalStep(u, d))
      PROVE RequestsTracked'
  <2>1. /\ UNCHANGED <<life, handler, asked, overtaken>>
        /\ \A t \in Sockets : rooms'[t] \subseteq rooms[t]
        /\ missed' = missed \cup {p \in Sockets \X Channels :
                                    p[2] \in rooms[p[1]] \ rooms'[p[1]]}
    BY <1>9
    DEF Evicts, RemovalStep, RevokeLost, RevokeFetch, RevokeFetchFails,
        RevokeLeave
  <2>2. \A t \in Sockets : Pending(t)' = Pending(t)
    BY <2>1 DEF Pending
  <2> SUFFICES ASSUME NEW t \in Sockets, NEW c \in Channels
               PROVE  /\ <<t, c>> \in asked' => life'[t] = "open"
                      /\ <<t, c>> \in asked' \ missed'
                           => c \in rooms'[t] \cup Pending(t)'
                      /\ life'[t] = "open" /\ c \in rooms'[t] \cup Pending(t)'
                           => <<t, c>> \in asked' \cup overtaken'
    BY DEF RequestsTracked
  <2>3. /\ rooms'[t] \subseteq rooms[t]
        /\ <<t, c>> \in missed' <=>
             <<t, c>> \in missed \/ c \in rooms[t] \ rooms'[t]
    BY <2>1
  <2> QED
    BY <2>1, <2>2, <2>3 DEF RequestsTracked
<1> QED
  BY <1>1, <1>2, <1>3, <1>4, <1>5, <1>6, <1>7, <1>8, <1>9
  DEF RequestNext, Kinds

\* A client is in the rooms it asked for last and in no other once its
\* requests are answered, for any number of sockets, users and channels and
\* for every order of subscribes, resumes, unsubscribes and evictions.
THEOREM RequestsAreMet == RequestSpec => []RequestsMet
<1>1. RequestInit => Init /\ RequestsTracked
  BY DEF RequestInit, Init, RequestsTracked, Pending, Idle
<1>2. RoomsInv /\ [RequestNext]_<<vars, requestVars>> => RoomsInv'
  BY RequestIsNext, RoomsTypeStep, IdentifiedStep, GuardStep, AccountedStep
  DEF RoomsInv
<1>3. RoomsInv /\ RequestsTracked /\ [RequestNext]_<<vars, requestVars>>
        => RequestsTracked'
  BY TrackedStep DEF RoomsInv
<1>4. RequestsTracked => RequestsMet
  BY DEF RequestsTracked, RequestsMet, Pending
<1> QED
  BY RoomsInit, <1>1, <1>2, <1>3, <1>4, PTL DEF RequestSpec
=============================================================================
