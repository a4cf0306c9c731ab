---------------------------- MODULE GatewayRooms ----------------------------
(***************************************************************************)
(* Who is in which gateway room (apps/signal/src/gateway.ts).              *)
(*                                                                         *)
(* A socket enters the room of a channel after gateway:subscribe or        *)
(* gateway:resume has asked the web app whether its user is a member.  The *)
(* answer is a snapshot of dm_channel_members: the handler awaits it, and  *)
(* the row may be gone by the time the handler joins the room.  Removing a *)
(* member deletes the row and then asks the gateway to evict the user's    *)
(* sockets (revokeChannelAccess), which enumerates the room, awaits, and   *)
(* makes what it enumerated leave.  The module interleaves the two.        *)
(*                                                                         *)
(* Every await is a step boundary: what a handler does between two awaits  *)
(* is one action.                                                          *)
(***************************************************************************)
EXTENDS Naturals, FiniteSets

CONSTANTS
  Users,        \* user ids
  DMs,          \* DM and group channel ids
  Sockets,      \* socket ids; a reconnecting client gets a new one
  Replicas,     \* processes of apps/signal behind the Redis adapter
  UserOf,       \* the user the handshake token of a socket names
  ReplicaOf,    \* the process that owns a socket
  LossyRevoke,  \* TRUE: the call that asks for the eviction may fail
  MaxInFlight   \* bound: handlers in flight at a time

\* The channel user:{id} of a user is written as the user itself.
Channels == DMs \cup Users

Kinds == {"subscribe", "resume"}

ASSUME RoomsAssumption ==
  /\ UserOf \in [Sockets -> Users]
  /\ ReplicaOf \in [Sockets -> Replicas]
  /\ DMs \cap Users = {}
  /\ LossyRevoke \in BOOLEAN
  /\ MaxInFlight \in Nat

VARIABLES
  \* the web app's database
  members,      \* dm_channel_members: a set of <<user, channel>>
  \* the Socket.IO server and its adapter
  life,         \* "new", "open" or "closed", per socket
  rooms,        \* the rooms each socket is in
  dataUser,     \* the sockets whose socket.data.userId is set
  leaving,      \* leaves sent to another replica and not applied there yet
  \* the gateway process
  hasState,     \* the sockets with an entry in socketStates
  subscribed,   \* subscribedChannels of an open socket's entry
  handler,      \* the gateway:subscribe / gateway:resume handlers in flight
  removal,      \* the removals in flight, per user and DM channel
  \* history
  slipped       \* room entries that no eviction in flight will undo

vars == <<members, life, rooms, dataUser, leaving, hasState, subscribed,
          handler, removal, slipped>>

Idle == [pc |-> "idle", chans |-> {}]
NoRemoval == [pc |-> "idle", found |-> {}, at |-> "none"]

Handler == [pc : {"idle", "started", "checked", "looping"},
            chans : SUBSET Channels]
Removal == [pc : {"idle", "call", "fetched"},
            found : SUBSET Sockets,
            at : Replicas \cup {"none"}]

Init ==
  /\ members \in SUBSET (Users \X DMs)
  /\ life = [s \in Sockets |-> "new"]
  /\ rooms = [s \in Sockets |-> {}]
  /\ dataUser = {}
  /\ leaving = {}
  /\ hasState = {}
  /\ subscribed = [s \in Sockets |-> {}]
  /\ handler = [s \in Sockets |-> [k \in Kinds |-> Idle]]
  /\ removal = [u \in Users |-> [c \in DMs |-> NoRemoval]]
  /\ slipped = {}

-----------------------------------------------------------------------------
(* What checkChannelAccess and the web endpoint behind it answer.          *)

\* The user's own user:{id} channel is granted locally.  DM channels are
\* granted from the membership rows, all of them denied when the call fails.
AccessGranted(u, want) ==
  {c \in want : c = u \/ <<u, c>> \in members}

AccessGrantedOnError(u, want) == want \cap {u}

Authorised(s, c) == c = UserOf[s] \/ <<UserOf[s], c>> \in members

\* An eviction of s from the room of c is on its way: requested and not yet
\* enumerated, enumerated with s in the result, or sent to s's replica.
Doomed(s, c) ==
  \/ /\ c \in DMs
     /\ \/ removal[UserOf[s]][c].pc = "call"
        \/ /\ removal[UserOf[s]][c].pc = "fetched"
           /\ s \in removal[UserOf[s]][c].found
  \/ <<s, c>> \in leaving

-----------------------------------------------------------------------------
(* Connections.                                                            *)

Connect(s) ==
  /\ life[s] = "new"
  /\ life' = [life EXCEPT ![s] = "open"]
  /\ UNCHANGED <<members, rooms, dataUser, leaving, hasState, subscribed,
                 handler, removal, slipped>>

\* Socket.IO takes the socket out of its rooms and makes join a no-op before
\* the disconnect handler runs; the handler drops the entry in socketStates.
Disconnect(s) ==
  /\ life[s] = "open"
  /\ life' = [life EXCEPT ![s] = "closed"]
  /\ rooms' = [rooms EXCEPT ![s] = {}]
  /\ hasState' = hasState \ {s}
  /\ subscribed' = [subscribed EXCEPT ![s] = {}]
  /\ slipped' = {p \in slipped : p[1] # s}
  /\ UNCHANGED <<members, dataUser, leaving, handler, removal>>

-----------------------------------------------------------------------------
(* gateway:subscribe and gateway:resume.                                   *)

InFlight == {p \in Sockets \X Kinds : handler[p[1]][p[2]].pc # "idle"}

\* Faulty variant of Start: ids that are no channel are not filtered out.
StartUnfiltered(s, k, want) ==
  /\ life[s] = "open"
  /\ handler[s][k].pc = "idle"
  /\ Cardinality(InFlight) < MaxInFlight
  /\ handler' = [handler EXCEPT ![s][k] =
                   [pc |-> "started", chans |-> want \cup {"malformed"}]]
  /\ UNCHANGED <<members, life, rooms, dataUser, leaving, hasState,
                 subscribed, removal, slipped>>

\* The event arrives; the rate limit and the payload checks are passed and
\* the handler awaits validateSession.
Start(s, k, want) ==
  /\ life[s] = "open"
  /\ handler[s][k].pc = "idle"
  /\ Cardinality(InFlight) < MaxInFlight
  /\ handler' = [handler EXCEPT ![s][k] = [pc |-> "started", chans |-> want]]
  /\ UNCHANGED <<members, life, rooms, dataUser, leaving, hasState,
                 subscribed, removal, slipped>>

\* validateSession refuses the socket's token: the handler returns.
Refuse(s, k) ==
  /\ handler[s][k].pc = "started"
  /\ handler' = [handler EXCEPT ![s][k] = Idle]
  /\ UNCHANGED <<members, life, rooms, dataUser, leaving, hasState,
                 subscribed, removal, slipped>>

\* Faulty variant of Check: a failed call grants what was asked for.
CheckOpen(s, k) ==
  /\ handler[s][k].pc = "started"
  /\ \E granted \in {AccessGranted(UserOf[s], handler[s][k].chans),
                     handler[s][k].chans} :
       handler' = [handler EXCEPT ![s][k] =
                     [pc |-> "checked", chans |-> granted]]
  /\ UNCHANGED <<members, life, rooms, dataUser, leaving, hasState,
                 subscribed, removal, slipped>>

\* The web app reads the membership rows, or the call fails.
Check(s, k) ==
  /\ handler[s][k].pc = "started"
  /\ \E granted \in {AccessGranted(UserOf[s], handler[s][k].chans),
                     AccessGrantedOnError(UserOf[s], handler[s][k].chans)} :
       handler' = [handler EXCEPT ![s][k] =
                     [pc |-> "checked", chans |-> granted]]
  /\ UNCHANGED <<members, life, rooms, dataUser, leaving, hasState,
                 subscribed, removal, slipped>>

\* socket.join and subscribedChannels.add for the channels cs.  On a closed
\* socket join does nothing and the entry is one that nobody reads.
Join(s, cs) ==
  IF life[s] = "open"
  THEN /\ rooms' = [rooms EXCEPT ![s] = @ \cup cs]
       /\ subscribed' = [subscribed EXCEPT ![s] = @ \cup cs]
       /\ slipped' = slipped \cup
            ({s} \X {c \in cs : ~Authorised(s, c) /\ ~Doomed(s, c)})
  ELSE UNCHANGED <<rooms, subscribed, slipped>>

\* The answer arrives: getOrCreateState, socket.data.userId, then all the
\* granted channels in one turn.
SubscribeJoin(s) ==
  /\ handler[s]["subscribe"].pc = "checked"
  /\ hasState' = hasState \cup {s}
  /\ dataUser' = dataUser \cup {s}
  /\ Join(s, handler[s]["subscribe"].chans)
  /\ handler' = [handler EXCEPT ![s]["subscribe"] = Idle]
  /\ UNCHANGED <<members, life, leaving, removal>>

\* Faulty variant of ResumeBegin: socket.data.userId is left to subscribe.
ResumeBeginAnonymous(s) ==
  /\ handler[s]["resume"].pc = "checked"
  /\ hasState' = hasState \cup {s}
  /\ IF handler[s]["resume"].chans = {}
     THEN /\ handler' = [handler EXCEPT ![s]["resume"] = Idle]
          /\ UNCHANGED <<rooms, subscribed, slipped>>
     ELSE \E c \in handler[s]["resume"].chans :
            /\ Join(s, {c})
            /\ handler' = [handler EXCEPT ![s]["resume"] =
                 [pc |-> "looping", chans |-> @.chans \ {c}]]
  /\ UNCHANGED <<members, life, dataUser, leaving, removal>>

\* The answer arrives at a resume: the entry is made before the loop.
ResumeBegin(s) ==
  /\ handler[s]["resume"].pc = "checked"
  /\ hasState' = hasState \cup {s}
  /\ dataUser' = dataUser \cup {s}
  /\ IF handler[s]["resume"].chans = {}
     THEN /\ handler' = [handler EXCEPT ![s]["resume"] = Idle]
          /\ UNCHANGED <<rooms, subscribed, slipped>>
     ELSE \E c \in handler[s]["resume"].chans :
            /\ Join(s, {c})
            /\ handler' = [handler EXCEPT ![s]["resume"] =
                 [pc |-> "looping", chans |-> @.chans \ {c}]]
  /\ UNCHANGED <<members, life, leaving, removal>>

\* Faulty variant of ResumeNext: a channel without events to replay is
\* skipped.
ResumeNextSkipping(s, c) ==
  /\ handler[s]["resume"].pc = "looping"
  /\ c \in handler[s]["resume"].chans
  /\ handler' = [handler EXCEPT ![s]["resume"] =
                   [pc |-> "looping", chans |-> @.chans \ {c}]]
  /\ UNCHANGED <<members, life, rooms, subscribed, dataUser, leaving, hasState,
                 removal, slipped>>

\* The replay of one channel is back: the loop joins the next one.
ResumeNext(s, c) ==
  /\ handler[s]["resume"].pc = "looping"
  /\ c \in handler[s]["resume"].chans
  /\ Join(s, {c})
  /\ handler' = [handler EXCEPT ![s]["resume"] =
                   [pc |-> "looping", chans |-> @.chans \ {c}]]
  /\ UNCHANGED <<members, life, dataUser, leaving, hasState, removal>>

ResumeComplete(s) ==
  /\ handler[s]["resume"].pc = "looping"
  /\ handler[s]["resume"].chans = {}
  /\ handler' = [handler EXCEPT ![s]["resume"] = Idle]
  /\ UNCHANGED <<members, life, rooms, dataUser, leaving, hasState,
                 subscribed, removal, slipped>>

\* gateway:unsubscribe: needs an entry in socketStates, awaits nothing.
Unsubscribe(s, cs) ==
  /\ life[s] = "open"
  /\ s \in hasState
  /\ rooms' = [rooms EXCEPT ![s] = @ \ cs]
  /\ subscribed' = [subscribed EXCEPT ![s] = @ \ cs]
  /\ slipped' = slipped \ ({s} \X cs)
  /\ UNCHANGED <<members, life, dataUser, leaving, hasState, handler,
                 removal>>

-----------------------------------------------------------------------------
(* Membership changes and the eviction they ask for.                       *)

AddMember(u, c) ==
  /\ <<u, c>> \notin members
  /\ members' = members \cup {<<u, c>>}
  /\ slipped' = {p \in slipped : UserOf[p[1]] # u \/ p[2] # c}
  /\ UNCHANGED <<life, rooms, dataUser, leaving, hasState, subscribed,
                 handler, removal>>

\* DELETE deletes the row if there is one and calls /revoke-channel-access
\* either way.
RemoveMember(u, c) ==
  /\ removal[u][c].pc = "idle"
  /\ members' = members \ {<<u, c>>}
  /\ removal' = [removal EXCEPT ![u][c] = [NoRemoval EXCEPT !.pc = "call"]]
  /\ UNCHANGED <<life, rooms, dataUser, leaving, hasState, subscribed,
                 handler, slipped>>

\* The room entries that an eviction given up on leaves behind.
LeftBehind(u, c) ==
  {s \in Sockets : /\ UserOf[s] = u
                   /\ c \in rooms[s]
                   /\ <<u, c>> \notin members
                   /\ <<s, c>> \notin leaving} \X {c}

\* The HTTP call fails or times out before the gateway acts on it; the web
\* app logs the error and carries on.
RevokeLost(u, c) ==
  /\ LossyRevoke
  /\ removal[u][c].pc = "call"
  /\ removal' = [removal EXCEPT ![u][c] = NoRemoval]
  /\ slipped' = slipped \cup LeftBehind(u, c)
  /\ UNCHANGED <<members, life, rooms, dataUser, leaving, hasState,
                 subscribed, handler>>

\* Faulty variant of RevokeFetch: only the sockets of this process are looked
\* up (io.sockets.sockets instead of fetchSockets).
RevokeFetchLocal(u, c, r) ==
  /\ removal[u][c].pc = "call"
  /\ removal' = [removal EXCEPT ![u][c] =
       [pc |-> "fetched", at |-> r,
        found |-> {s \in dataUser : /\ c \in rooms[s]
                                    /\ UserOf[s] = u
                                    /\ ReplicaOf[s] = r}]]
  /\ UNCHANGED <<members, life, rooms, dataUser, leaving, hasState,
                 subscribed, handler, slipped>>

\* revokeChannelAccess on replica r: fetchSockets of the room.
RevokeFetch(u, c, r) ==
  /\ removal[u][c].pc = "call"
  /\ removal' = [removal EXCEPT ![u][c] =
       [pc |-> "fetched", at |-> r,
        found |-> {s \in dataUser : c \in rooms[s] /\ UserOf[s] = u}]]
  /\ UNCHANGED <<members, life, rooms, dataUser, leaving, hasState,
                 subscribed, handler, slipped>>

\* The bookkeeping at the end of revokeChannelAccess: the entries of the
\* user's sockets on replica r only.
Forget(u, c, r) ==
  subscribed' = [s \in Sockets |->
    IF UserOf[s] = u /\ ReplicaOf[s] = r THEN subscribed[s] \ {c}
                                         ELSE subscribed[s]]

\* fetchSockets throws: the error is logged and only the bookkeeping runs.
RevokeFetchFails(u, c, r) ==
  /\ LossyRevoke
  /\ removal[u][c].pc = "call"
  /\ removal' = [removal EXCEPT ![u][c] = NoRemoval]
  /\ Forget(u, c, r)
  /\ slipped' = slipped \cup LeftBehind(u, c)
  /\ UNCHANGED <<members, life, rooms, dataUser, leaving, hasState, handler>>

\* Faulty variant of RevokeLeave: subscribedChannels is not cleaned up.
RevokeLeaveKeepsEntry(u, c) ==
  LET rm == removal[u][c]
      local == {s \in rm.found : ReplicaOf[s] = rm.at}
  IN  /\ rm.pc = "fetched"
      /\ rooms' = [s \in Sockets |->
           IF s \in local THEN rooms[s] \ {c} ELSE rooms[s]]
      /\ slipped' = slipped \ (local \X {c})
      /\ leaving' = leaving \cup ((rm.found \ local) \X {c})
      /\ removal' = [removal EXCEPT ![u][c] = NoRemoval]
      /\ UNCHANGED <<members, life, dataUser, hasState, subscribed, handler>>

\* Faulty variant of RevokeLeave: only the bookkeeping, no socket leaves.
RevokeLeaveBookkeepingOnly(u, c) ==
  /\ removal[u][c].pc = "fetched"
  /\ Forget(u, c, removal[u][c].at)
  /\ removal' = [removal EXCEPT ![u][c] = NoRemoval]
  /\ UNCHANGED <<members, life, rooms, dataUser, leaving, hasState, handler,
                 slipped>>

\* The enumeration is back: local sockets leave at once, the others when
\* their replica hears of it.
RevokeLeave(u, c) ==
  LET rm == removal[u][c]
      local == {s \in rm.found : ReplicaOf[s] = rm.at}
  IN  /\ rm.pc = "fetched"
      /\ rooms' = [s \in Sockets |->
           IF s \in local THEN rooms[s] \ {c} ELSE rooms[s]]
      /\ slipped' = slipped \ (local \X {c})
      /\ leaving' = leaving \cup ((rm.found \ local) \X {c})
      /\ Forget(u, c, rm.at)
      /\ removal' = [removal EXCEPT ![u][c] = NoRemoval]
      /\ UNCHANGED <<members, life, dataUser, hasState, handler>>

\* The leave reaches the socket's own replica.
RemoteLeave(s, c) ==
  /\ <<s, c>> \in leaving
  /\ leaving' = leaving \ {<<s, c>>}
  /\ rooms' = [rooms EXCEPT ![s] = @ \ {c}]
  /\ slipped' = slipped \ {<<s, c>>}
  /\ UNCHANGED <<members, life, dataUser, hasState, subscribed, handler,
                 removal>>

-----------------------------------------------------------------------------
\* What clients and members do.
Environment ==
  \/ \E s \in Sockets :
       \/ Connect(s)
       \/ Disconnect(s)
       \/ \E cs \in (SUBSET Channels) \ {{}} : Start(s, "subscribe", cs)
       \/ \E cs \in SUBSET Channels : Start(s, "resume", cs)
       \/ \E cs \in SUBSET Channels : Unsubscribe(s, cs)
  \/ \E u \in Users, c \in DMs : AddMember(u, c) \/ RemoveMember(u, c)

\* Handlers and evictions that run to their end by themselves.
HandlerStep(s, k) ==
  \/ Refuse(s, k) \/ Check(s, k)
  \/ /\ k = "subscribe"
     /\ SubscribeJoin(s)
  \/ /\ k = "resume"
     /\ \/ ResumeBegin(s)
        \/ \E c \in Channels : ResumeNext(s, c)
        \/ ResumeComplete(s)

RemovalStep(u, c) ==
  \/ RevokeLost(u, c)
  \/ \E r \in Replicas : RevokeFetch(u, c, r) \/ RevokeFetchFails(u, c, r)
  \/ RevokeLeave(u, c)

Next ==
  \/ Environment
  \/ \E s \in Sockets :
       \/ \E k \in Kinds : HandlerStep(s, k)
       \/ \E c \in Channels : RemoteLeave(s, c)
  \/ \E u \in Users, c \in DMs : RemovalStep(u, c)

Spec == Init /\ [][Next]_vars

\* The event loop runs every continuation whose await is over, fetch and
\* fetchSockets have timeouts, and Redis delivers the leaves.
Fairness ==
  /\ \A s \in Sockets, k \in Kinds : WF_vars(HandlerStep(s, k))
  /\ \A s \in Sockets, c \in Channels : WF_vars(RemoteLeave(s, c))
  /\ \A u \in Users, c \in DMs : WF_vars(RemovalStep(u, c))

FairSpec == Spec /\ Fairness
-----------------------------------------------------------------------------
(* Properties.                                                             *)

TypeOK ==
  /\ members \in SUBSET (Users \X DMs)
  /\ life \in [Sockets -> {"new", "open", "closed"}]
  /\ rooms \in [Sockets -> SUBSET Channels]
  /\ dataUser \in SUBSET Sockets
  /\ leaving \in SUBSET (Sockets \X DMs)
  /\ hasState \in SUBSET Sockets
  /\ subscribed \in [Sockets -> SUBSET Channels]
  /\ handler \in [Sockets -> [Kinds -> Handler]]
  /\ removal \in [Users -> [DMs -> Removal]]
  /\ slipped \in SUBSET (Sockets \X Channels)

\* fetchSockets can tell whose socket it is for every socket in a room, on
\* whichever replica it lives: a socket is in a room only while it is open,
\* after socket.data.userId was set and with an entry in socketStates.
InRoomIdentified ==
  \A s \in Sockets :
    rooms[s] # {} => life[s] = "open" /\ s \in dataUser /\ s \in hasState

\* A socket whose user is not a member sits in the channel's room only while
\* an eviction that will reach it is in flight, or because it slipped
\* through: a handler joined on a membership answer that a complete eviction
\* had overtaken, or the eviction itself was given up on.  And what is listed
\* as slipped really is a non-member in the room.
StaleEntryAccounted ==
  /\ \A s \in Sockets : \A c \in rooms[s] :
       Authorised(s, c) \/ Doomed(s, c) \/ <<s, c>> \in slipped
  /\ \A s \in Sockets, c \in Channels :
       <<s, c>> \in slipped => c \in rooms[s] /\ ~Authorised(s, c)

SingleReplica == \A q, r \in Replicas : q = r

\* With one gateway process, a channel in subscribedChannels (the guard of
\* gateway:typing and gateway:call-signal, and the rooms presence goes to) is
\* a room the socket is in: an eviction never leaves the entry behind.
GuardImpliesRoom ==
  SingleReplica => \A s \in Sockets : subscribed[s] \subseteq rooms[s]

\* A removal takes effect: a socket of somebody who is not a member leaves
\* the room, unless the user is added back or the entry slipped through.
RemovalTakesEffect ==
  \A s \in Sockets, c \in DMs :
    (c \in rooms[s] /\ ~Authorised(s, c))
      ~> (c \notin rooms[s] \/ Authorised(s, c) \/ <<s, c>> \in slipped)

\* The gateway implements ChannelPermits: a permit is a granted channel that
\* a handler has yet to join.
Permits == INSTANCE ChannelPermits WITH
  Clients <- Sockets,
  Requests <- Kinds,
  allowed <- {p \in Sockets \X Channels : Authorised(p[1], p[2])},
  permits <- [s \in Sockets |-> [k \in Kinds |->
                IF handler[s][k].pc \in {"checked", "looping"}
                THEN handler[s][k].chans ELSE {}]],
  listening <- {p \in Sockets \X Channels : p[2] \in rooms[p[1]]}

\* Every room entry goes back to a membership answer that granted it to this
\* request, and no answer stays unused: the awaits between answer and joins
\* end.
RoomsOnPermit == Permits!Spec
-----------------------------------------------------------------------------
(* Values of UserOf and ReplicaOf for TLC's small instances.               *)

OneUser == [s \in Sockets |-> CHOOSE u \in Users : TRUE]

\* No two sockets share a replica.
Apart == CHOOSE f \in [Sockets -> Replicas] :
           \A s, t \in Sockets : s # t => f[s] # f[t]
=============================================================================
