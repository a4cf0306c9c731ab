----------------------------- MODULE RoomRequests -----------------------------
(***************************************************************************)
(* GatewayRooms from the client's side: which rooms it has asked for last, *)
(* with gateway:subscribe, gateway:resume and gateway:unsubscribe, and     *)
(* whether it is in them once nothing is in flight.  There is one replica  *)
(* here: an eviction finds every socket on it (no RemoteLeave).            *)
(***************************************************************************)
EXTENDS GatewayRooms

VARIABLES
  asked,    \* <<socket, channel>>: asked for, and not given up since
  missed,   \* the answer to the last request for it did not grant it, or an
            \* eviction took it away since
  overtaken \* unsubscribed while a request for it was in flight

requestVars == <<asked, missed, overtaken>>

RequestInit == Init /\ asked = {} /\ missed = {} /\ overtaken = {}

Pending(s) == UNION {handler[s][k].chans : k \in {j \in Kinds : handler[s][j].pc # "idle"}}
Only(s, cs) == {s} \X cs
-----------------------------------------------------------------------------
Asks(s, k, cs) ==
  /\ Start(s, k, cs)
  /\ asked' = asked \cup Only(s, cs)
  /\ missed' = missed \ Only(s, cs)
  /\ overtaken' = overtaken \ Only(s, cs)

GivesUp(s, cs) ==
  /\ Unsubscribe(s, cs)
  /\ asked' = asked \ Only(s, cs)
  /\ missed' = missed \ Only(s, cs)
  /\ overtaken' = (overtaken \ Only(s, cs)) \cup Only(s, cs \cap Pending(s))

Leaves(s) ==
  /\ Disconnect(s)
  /\ asked' = asked \ Only(s, Channels)
  /\ UNCHANGED <<missed, overtaken>>

\* The answer refuses the request, or some of the channels.
Denied(s, k) ==
  /\ Refuse(s, k) \/ Check(s, k)
  /\ missed' = missed \cup Only(s, handler[s][k].chans \ handler'[s][k].chans)
  /\ UNCHANGED <<asked, overtaken>>

Joins(s) ==
  /\ \/ SubscribeJoin(s) \/ ResumeBegin(s) \/ ResumeComplete(s)
     \/ \E c \in Channels : ResumeNext(s, c)
  /\ UNCHANGED requestVars

\* A step of an eviction, which may take sockets out of the room.
Evicts(A) ==
  /\ A
  /\ missed' = missed \cup {p \in Sockets \X Channels :
                              p[2] \in rooms[p[1]] \ rooms'[p[1]]}
  /\ UNCHANGED <<asked, overtaken>>

Others(A) == A /\ UNCHANGED requestVars

RequestNext ==
  \/ \E s \in Sockets :
       \/ Others(Connect(s)) \/ Leaves(s) \/ Joins(s)
       \/ \E cs \in (SUBSET Channels) \ {{}} : Asks(s, "subscribe", cs)
       \/ \E cs \in SUBSET Channels : Asks(s, "resume", cs) \/ GivesUp(s, cs)
       \/ \E k \in Kinds : Denied(s, k)
  \/ \E u \in Users, c \in DMs :
       \/ Others(AddMember(u, c) \/ RemoveMember(u, c))
       \/ Evicts(RemovalStep(u, c))

RequestSpec == RequestInit /\ [][RequestNext]_<<vars, requestVars>> /\ Fairness
-----------------------------------------------------------------------------
\* A client is in the rooms it has asked for last, and in no other, once its
\* requests are answered.  The exceptions: the answer did not grant the
\* channel; an eviction came after the request, also one of a removal that
\* has been taken back since; or the client unsubscribed while a request for
\* the channel was in flight, whose answer joins the room after all.
RequestsMet ==
  \A s \in Sockets, c \in Channels :
    life[s] = "open" /\ (\A k \in Kinds : handler[s][k].pc = "idle") =>
      /\ <<s, c>> \in asked \ missed => c \in rooms[s]
      /\ c \in rooms[s] => <<s, c>> \in asked \/ <<s, c>> \in overtaken
=============================================================================
