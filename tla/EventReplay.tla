----------------------------- MODULE EventReplay -----------------------------
(***************************************************************************)
(* Live events and reconnection catch-up for one channel: the event bus of *)
(* apps/signal/src/event-bus.ts, the gateway:resume handler, and the       *)
(* cursor that apps/web/hooks/use-gateway.ts keeps.                        *)
(*                                                                         *)
(* publish appends to the channel's Redis stream and then fans out; the    *)
(* client notes the id of the last event it saw and, on a new connection,  *)
(* asks for what came after it.  Events are numbered in stream order; the  *)
(* stream holds first .. last.  "have" is what reached the listeners, so   *)
(* delivering an event twice is the same as once (they dedupe by id).      *)
(* Events of the types that are not stored only move the cursor.  The user *)
(* stays a member; evictions are GatewayRooms.                             *)
(***************************************************************************)
EXTENDS Integers, Sequences, FiniteSetsExt

CONSTANTS
  MaxEvents,    \* bound: events published in the channel
  MaxDrops,     \* bound: times the connection is lost
  MaxLen,       \* EVENT_STREAM_MAXLEN, what trimming always keeps
  ScanWindow,   \* entries findStreamEntryId looks at (5 batches of 200)
  Limit,        \* MAX_REPLAY_EVENTS
  RedisMayFail, \* TRUE: PUBLISH and the reads of replay may fail
  MayRefuse     \* TRUE: the rate limit and the membership check may refuse

ASSUME ReplayAssumption ==
  /\ MaxEvents \in Nat /\ MaxDrops \in Nat
  /\ MaxLen \in Nat \ {0} /\ ScanWindow \in Nat \ {0} /\ Limit \in Nat \ {0}
  /\ RedisMayFail \in BOOLEAN /\ MayRefuse \in BOOLEAN

Events == 1 .. MaxEvents

VARIABLES
  \* Redis
  first, last,  \* the stream's oldest and newest entry; empty while last = 0
  unsent,       \* events in the stream whose fan-out is still to come
  \* the gateway
  joined,       \* the client's socket is in the channel's room
  subscribe,    \* a gateway:subscribe handler is in flight
  resume,       \* the gateway:resume handler: its pc, the cursor it was given,
                \* where the range starts, the events read
  net,          \* messages on their way to the client
  \* the client
  up,           \* the client is connected
  wanted,       \* the channel is one of its subscribedChannels
  cursor,       \* lastEventIds of the channel: the last stored event, or 0
  astray,       \* it is the id of a later event that was not stored
  have,         \* the events its listeners were given
  drops,        \* connections lost so far
  \* history
  owed,         \* events whose fan-out was due after the client had a cursor
  missed        \* events to which one of the losses has happened, and that
                \* have not come since

history == <<owed, missed>>
redis == <<first, last, unsent>>
client == <<up, wanted, cursor, astray, have, drops>>
vars == <<redis, joined, subscribe, resume, net, client, history>>

NoResume ==
  [pc |-> "idle", from |-> 0, known |-> TRUE, start |-> 0, events |-> {}]

Init ==
  /\ first = 1 /\ last = 0
  /\ unsent = {}
  /\ joined = FALSE
  /\ subscribe = FALSE
  /\ resume = NoResume
  /\ net = <<>>
  /\ up = FALSE
  /\ wanted = TRUE
  /\ cursor = 0 /\ astray = FALSE
  /\ have = {}
  /\ drops = 0
  /\ owed = {} /\ missed = {}

-----------------------------------------------------------------------------
(* The event bus.                                                          *)

\* findStreamEntryId: the entry is in the stream and among the newest.
Found(from) == from \in first .. last /\ from > last - ScanWindow

\* Where the XRANGE of replay starts: after the cursor's entry, or at "-" when
\* it is not found, as the id of an event that was not stored never is.
RangeStart(from, known) == IF known /\ Found(from) THEN from + 1 ELSE 1

\* Faulty variant of XRange: a full batch is assumed, entries or not.
XRangeFullBatch(start) ==
  LET lo == Max({start, first}) IN lo .. lo + Limit - 1

\* The XRANGE: the oldest Limit entries from start on.
XRange(start) ==
  LET lo == Max({start, first})
  IN  lo .. Min({last, lo + Limit - 1})

\* publish, up to the XADD: the entry is appended and the stream trimmed,
\* approximately: MaxLen entries are kept, more may be.
PublishStore ==
  /\ last < MaxEvents
  /\ last' = last + 1
  /\ first' \in first .. Max({first, last' - MaxLen + 1})
  /\ unsent' = unsent \cup {last'}
  /\ UNCHANGED <<joined, subscribe, resume, net, client, history>>

\* lastEventIds has an entry for the channel.
HasCursor == cursor # 0 \/ astray

\* A client that has a cursor expects every event from now on.
Due(e) == IF HasCursor THEN owed \cup {e} ELSE owed

\* The events es are lost, unless they are there already.
Miss(es) == missed' = missed \cup (es \ have)

\* The socket is not in the room and no resume is to bring what is sent there.
Outside == up /\ ~joined /\ resume.pc = "idle"

\* publish, the fan-out: every socket in the room is sent the event.  It is
\* missed if it was overtaken by one stored later, or finds nobody to wait for
\* it.
PublishFanOut(e) ==
  /\ e \in unsent
  /\ unsent' = unsent \ {e}
  /\ net' = IF joined THEN Append(net, [kind |-> "event", events |-> {e}])
                      ELSE net
  /\ owed' = Due(e)
  /\ Miss(IF Outside \/ ~(e + 1 .. last \subseteq unsent) THEN {e} ELSE {})
  /\ UNCHANGED <<first, last, joined, subscribe, resume, client>>

\* publish, the PUBLISH fails: the error goes to the web app, which logs it.
PublishFails(e) ==
  /\ RedisMayFail
  /\ e \in unsent
  /\ unsent' = unsent \ {e}
  /\ owed' = Due(e)
  /\ Miss({e})
  /\ UNCHANGED <<first, last, joined, subscribe, resume, net, client>>

-----------------------------------------------------------------------------
(* Connections.                                                            *)

\* Faulty variant of Connect: only the first connection resumes.
ConnectResumesOnce ==
  /\ ~up
  /\ up' = TRUE
  /\ subscribe' = wanted
  /\ resume' = IF ~HasCursor \/ drops > 0 THEN NoResume
               ELSE [NoResume EXCEPT !.pc = "started", !.from = cursor,
                                     !.known = ~astray]
  /\ UNCHANGED <<redis, joined, net, wanted, cursor, astray, have, drops,
                 history>>

\* On connect the client subscribes, and resumes if it has a cursor.
Connect ==
  /\ ~up
  /\ up' = TRUE
  /\ subscribe' = wanted
  /\ resume' = IF ~HasCursor THEN NoResume
               ELSE [NoResume EXCEPT !.pc = "started", !.from = cursor,
                                     !.known = ~astray]
  /\ UNCHANGED <<redis, joined, net, wanted, cursor, astray, have, drops,
                 history>>

\* A page asks for a channel the client was denied before.
Subscribe ==
  /\ ~wanted
  /\ wanted' = TRUE
  /\ subscribe' = up
  /\ UNCHANGED <<redis, joined, resume, net, up, cursor, astray, have, drops,
                 history>>

\* What a resume in flight is to bring: read or not, sent or not.
Awaited ==
  (IF resume.pc = "idle" THEN {} ELSE resume.from + 1 .. last)
    \cup UNION {net[i].events : i \in {j \in DOMAIN net : net[j].kind = "replay"}}

\* The connection is lost with everything on it; handlers of the old socket
\* can no longer reach the client.
Disconnect ==
  /\ up
  /\ drops < MaxDrops
  /\ up' = FALSE
  /\ drops' = drops + 1
  /\ joined' = FALSE
  /\ subscribe' = FALSE
  /\ resume' = NoResume
  /\ net' = <<>>
  /\ Miss(Awaited)
  /\ UNCHANGED <<redis, wanted, cursor, astray, have, owed>>

-----------------------------------------------------------------------------
(* The gateway's handlers.                                                 *)

SubscribeJoin ==
  /\ subscribe
  /\ subscribe' = FALSE
  /\ joined' = TRUE
  /\ UNCHANGED <<redis, resume, net, client, history>>

\* The rate limit answers with an error that nobody acts on.
SubscribeLimited ==
  /\ MayRefuse
  /\ subscribe
  /\ subscribe' = FALSE
  /\ UNCHANGED <<redis, joined, resume, net, client, history>>

\* The membership check fails closed.
SubscribeDenied ==
  /\ MayRefuse
  /\ subscribe
  /\ subscribe' = FALSE
  /\ net' = Append(net, [kind |-> "denied", events |-> {}])
  /\ UNCHANGED <<redis, joined, resume, client, history>>

\* Faulty variant of ResumeJoin: the room is left to gateway:subscribe.
ResumeJoinLater ==
  /\ resume.pc = "started"
  /\ resume' = [resume EXCEPT !.pc = "joined"]
  /\ UNCHANGED <<redis, joined, subscribe, net, client, history>>

\* The membership answer is there: join the room, then ask for the replay.
ResumeJoin ==
  /\ resume.pc = "started"
  /\ resume' = [resume EXCEPT !.pc = "joined"]
  /\ joined' = TRUE
  /\ UNCHANGED <<redis, subscribe, net, client, history>>

\* The rate limit refuses the resume, with an error that nobody acts on, or
\* the membership check fails closed and the channel is passed over: no
\* replay, while a subscribe may let the socket into the room.
ResumeRefused ==
  /\ MayRefuse
  /\ resume.pc = "started"
  /\ resume' = NoResume
  /\ Miss(resume.from + 1 .. last)
  /\ UNCHANGED <<redis, joined, subscribe, net, client, owed>>

\* findStreamEntryId is back.
ResumeFind ==
  /\ resume.pc = "joined"
  /\ resume' = [resume EXCEPT !.pc = "found",
                              !.start = RangeStart(resume.from, resume.known)]
  /\ UNCHANGED <<redis, joined, subscribe, net, client, history>>

\* What replay returns: the batch goes on to ResumeEmit.
Returns(events) ==
  /\ resume' = [resume EXCEPT !.pc = "read", !.events = events]
  /\ Miss((resume.from + 1 .. last) \ events)
  /\ UNCHANGED <<redis, joined, subscribe, net, client, owed>>

\* The XRANGE is back.
ResumeRange ==
  /\ resume.pc = "found"
  /\ Returns(XRange(resume.start))

\* Either read throws: replay catches it and returns an empty batch.
ResumeReadFails ==
  /\ RedisMayFail
  /\ resume.pc \in {"joined", "found"}
  /\ Returns({})

\* The batch is sent, unless it is empty.  replay never throws, so the
\* gateway:resume-complete after it has an empty gapTooLarge, and the client
\* does nothing on it.
ResumeEmit ==
  /\ resume.pc = "read"
  /\ net' = IF resume.events = {} THEN net
            ELSE Append(net, [kind |-> "replay", events |-> resume.events])
  /\ resume' = NoResume
  /\ UNCHANGED <<redis, joined, subscribe, client, history>>

-----------------------------------------------------------------------------
(* The client.                                                             *)

Receive(kinds) ==
  /\ up
  /\ net # <<>> /\ Head(net).kind \in kinds
  /\ net' = Tail(net)

\* gateway:event and gateway:replay move the cursor to the last event of the
\* message and hand all of them to the listeners.
ReceiveEvents ==
  /\ Receive({"event", "replay"})
  /\ cursor' = Max(Head(net).events) /\ astray' = FALSE
  /\ have' = have \cup Head(net).events
  /\ missed' = missed \ Head(net).events
  /\ UNCHANGED <<redis, joined, subscribe, resume, up, wanted, drops, owed>>

\* An event of a type that is not stored (a notification) is published and
\* received: its id becomes the cursor.  It comes ahead of what is on its way,
\* as it may have been sent before that.  (After the last loss no resume would
\* use it.)
ReceiveTransient ==
  /\ up /\ joined
  /\ drops < MaxDrops
  /\ astray' = TRUE
  /\ UNCHANGED <<redis, joined, subscribe, resume, net, up, wanted, cursor,
                 have, drops, history>>

\* gateway:subscribed with the channel denied: the client gives up on it, the
\* cursor included.  Should a resume have joined the room, events come anyway.
ReceiveDenied ==
  /\ Receive({"denied"})
  /\ wanted' = FALSE
  /\ cursor' = 0 /\ astray' = FALSE
  /\ Miss(cursor + 1 .. last)
  /\ UNCHANGED <<redis, joined, subscribe, resume, up, have, drops, owed>>

-----------------------------------------------------------------------------
SubscribeStep == SubscribeJoin \/ SubscribeLimited \/ SubscribeDenied
ReceiveStep == ReceiveEvents \/ ReceiveDenied

Next ==
  \/ PublishStore
  \/ \E e \in unsent : PublishFanOut(e) \/ PublishFails(e)
  \/ Connect \/ Disconnect \/ Subscribe
  \/ SubscribeStep
  \/ ResumeJoin \/ ResumeRefused
  \/ ResumeFind \/ ResumeRange \/ ResumeReadFails \/ ResumeEmit
  \/ ReceiveStep \/ ReceiveTransient

Spec == Init /\ [][Next]_vars

\* The client reconnects for ever, messages on an open connection arrive,
\* handlers and fan-outs finish.  Nobody has to publish or to disconnect.
Fairness ==
  /\ WF_vars(Connect)
  /\ WF_vars(\E e \in unsent : PublishFanOut(e) \/ PublishFails(e))
  /\ WF_vars(SubscribeStep)
  /\ WF_vars(ResumeJoin \/ ResumeRefused)
  /\ WF_vars(ResumeFind) /\ WF_vars(ResumeEmit)
  /\ WF_vars(ResumeRange \/ ResumeReadFails)
  /\ WF_vars(ReceiveStep)

FairSpec == Spec /\ Fairness

-----------------------------------------------------------------------------
(* Properties.                                                             *)

TypeOK ==
  /\ first \in 1 .. MaxEvents + 1 /\ last \in 0 .. MaxEvents
  /\ unsent \in SUBSET Events
  /\ joined \in BOOLEAN /\ subscribe \in BOOLEAN /\ up \in BOOLEAN
  /\ wanted \in BOOLEAN /\ astray \in BOOLEAN
  /\ resume \in [pc : {"idle", "started", "joined", "found", "read"},
                 from : 0 .. MaxEvents, known : BOOLEAN,
                 start : 0 .. MaxEvents + 1, events : SUBSET Events]
  /\ \A i \in DOMAIN net :
       net[i] \in [kind : {"event", "replay", "denied"},
                   events : SUBSET Events]
  /\ cursor \in 0 .. MaxEvents
  /\ have \in SUBSET Events
  /\ drops \in 0 .. MaxDrops
  /\ owed \in SUBSET Events /\ missed \in SUBSET Events

\* Connected, and nothing of this channel is in flight.
Settled ==
  up /\ ~subscribe /\ resume.pc = "idle" /\ net = <<>> /\ unsent = {}

\* A settled client has every event due since it first had a cursor, or one of
\* the losses has happened to it (missed): it was stored and never fanned out;
\* a resume asked for it and was handed less than everything after the cursor
\* (batch limit, trimmed, unscanned or unstored cursor, failed read); it was
\* fanned out after one stored later; the replay that was to bring it was cut
\* off, or was refused by the rate limit or the membership check, while a
\* subscribe lets the cursor move on; or the client dropped its cursor as the
\* channel was denied.  There is no window between the replay and the live
\* events, as the room is joined before the stream is read.
HolesAccounted == Settled => owed \subseteq have \cup missed

\* Every event due reaches the client in the end, or one of the losses happens
\* to it, however often the connection is lost.
EventuallyDelivered == []<>(owed \subseteq have \cup missed)
=============================================================================
