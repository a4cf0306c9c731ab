--------------------------- MODULE Conversations ---------------------------
(***************************************************************************)
(* Friends and conversations in the web app.  Friend requests and blocks   *)
(* (apps/web/app/api/friends and lib/social-block-policy.ts): the table    *)
(* friendships, one row per request or block, and the views the rest takes *)
(* of it.  DM and group channels (apps/web/app/api/dm): creation, members, *)
(* messages, read states and the membership log, over the tables           *)
(* dm_channels, dm_channel_members, direct_messages, dm_read_states and    *)
(* dm_membership_events.                                                   *)
(*                                                                         *)
(* The web app is one Node process over a synchronous SQLite driver, so    *)
(* what a handler does between two awaits on the outside world is one      *)
(* step.  The friends routes await nothing but their body, which comes     *)
(* first: each of them is one action.  The send and the add-member         *)
(* handlers await the body after their checks, the remove-member handler   *)
(* awaits the gateway after its DELETE, and what it passes to after() runs *)
(* once the response is out.                                               *)
(***************************************************************************)
EXTENDS Naturals, FiniteSets, Bags, SequencesExt, TLC

CONSTANTS
  Users,     \* user ids
  Chans,     \* channel ids
  Msgs,      \* message ids
  PageSize,  \* messages in a page of a channel
  MaxOps     \* bound: requests of users

ASSUME ConversationAssumption ==
  MaxOps \in Nat /\ PageSize \in Nat \ {0} /\ IsFiniteSet(Users)

None == "none"

VARIABLES
  \* the database
  friends,   \* friendships: rows [req, addr, status]
  chan,      \* dm_channels
  members,   \* dm_channel_members: <<user, channel>>
  msg,       \* direct_messages
  order,     \* the messages in the order of their created_at
  lastRead,  \* dm_read_states: how much of order is covered, 0 for no row
  log,       \* dm_membership_events of each channel, by created_at
  \* the web app process
  req,       \* the request of each user that is awaiting something
  todo,      \* after() callbacks that append to the log
  ops,       \* requests made so far
  \* history
  graced,    \* requests whose checks a later change made stale
  seen,      \* <<user, message>>: the message was in a response to the user
  unmarked,  \* those of seen that no response has marked read since
  skipped,   \* <<user, channel>>: marked read while a message was not seen
  overlap,   \* <<user, channel>>: two membership changes in flight at once,
             \* or a log entry that was lost
  misdated   \* <<user, channel>>: the log shows another entry about the user
             \* after the one written last

dbVars == <<chan, members, msg, order, lastRead, log>>
shown == <<seen, unmarked, skipped>>
logged == <<overlap, misdated>>
vars == <<friends, dbVars, req, todo, ops, graced, shown, logged>>

NoChan == [open |-> FALSE, group |-> FALSE, scheme |-> None, owner |-> None, ver |-> 0]
\* A channel from before the migration to Olm, which may be encrypted with
\* the retired scheme that carries a key version in each message.
Legacy(u, all) == [open |-> TRUE, group |-> Cardinality(all) > 2,
                   scheme |-> "legacy-ecdh", owner |-> u, ver |-> 1]
NoMsg == [chan |-> None, sender |-> None, state |-> "none", reply |-> None, ver |-> 0]
Idle == [pc |-> "idle", chan |-> None, who |-> None, ver |-> 0]

FriendsInit == friends = {}

Init ==
  /\ FriendsInit
  /\ \/ /\ chan = [c \in Chans |-> NoChan]
        /\ members = {}
     \/ \E c \in Chans, all \in SUBSET Users, u \in Users :
          /\ u \in all
          /\ Cardinality(all) > 1
          /\ chan = [d \in Chans |-> IF d = c THEN Legacy(u, all) ELSE NoChan]
          /\ members = all \X {c}
  /\ msg = [m \in Msgs |-> NoMsg]
  /\ order = << >>
  /\ lastRead = [u \in Users |-> [c \in Chans |-> 0]]
  /\ log = [c \in Chans |-> << >>]
  /\ req = [u \in Users |-> Idle]
  /\ todo = EmptyBag
  /\ ops = 0
  /\ graced = {}
  /\ seen = {} /\ unmarked = {} /\ skipped = {}
  /\ overlap = {} /\ misdated = {}

-----------------------------------------------------------------------------
(* The friends table.                                                      *)

Row == [req : Users, addr : Users, status : {"pending", "accepted", "blocked"}]

RowsOf(u, v) == {r \in friends : {r.req, r.addr} = {u, v}}

(* Reads.                                                                  *)

\* isBlockedBetweenUsers, getBlockedUserIdsForViewer: in either direction.
Blocked(u, v) ==
  u # v /\ \E r \in RowsOf(u, v) : r.status = "blocked"

\* GET /api/friends, the four lists (its pages put together).
FriendList(u) ==
  [accepted |-> {v \in Users : \E r \in RowsOf(u, v) : r.status = "accepted"},
   sent     |-> {r.addr : r \in {x \in friends : x.req = u /\ x.status = "pending"}},
   received |-> {r.req : r \in {x \in friends : x.addr = u /\ x.status = "pending"}},
   blocked  |-> {r.addr : r \in {x \in friends : x.req = u /\ x.status = "blocked"}}]

\* GET /api/friends/status: the first row found decides.
FriendStatus(u, v) ==
  IF RowsOf(u, v) = {} THEN "none"
  ELSE LET r == CHOOSE x \in RowsOf(u, v) : TRUE
       IN  CASE r.status = "accepted" -> "friends"
             [] r.status = "blocked"  -> "blocked"
             [] OTHER -> IF r.req = u THEN "sent" ELSE "received"

(* Writes.                                                                 *)

Replace(r, s) == friends' = (friends \ {r}) \cup {s}

\* Faulty variant of RequestFriend: only the sender's own rows are looked up.
RequestFriendOneWay(u, v) ==
  /\ u # v
  /\ ~ \E r \in friends : r.req = u /\ r.addr = v
  /\ friends' = friends \cup {[req |-> u, addr |-> v, status |-> "pending"]}

\* POST: a request crossing one from the other side accepts it.
RequestFriend(u, v) ==
  /\ u # v
  /\ \/ /\ RowsOf(u, v) = {}
        /\ friends' = friends \cup {[req |-> u, addr |-> v, status |-> "pending"]}
     \/ \E r \in RowsOf(u, v) :
          /\ r.status = "pending"
          /\ r.req = v
          /\ Replace(r, [r EXCEPT !.status = "accepted"])

\* PATCH accept and decline: the addressee of a pending request.
AcceptFriend(u, r) ==
  /\ r.addr = u
  /\ r.status = "pending"
  /\ Replace(r, [r EXCEPT !.status = "accepted"])

DeclineFriend(u, r) ==
  /\ r.addr = u
  /\ r.status = "pending"
  /\ friends' = friends \ {r}

\* PATCH block: whoever of the two blocks becomes the requester of the row.
BlockFriend(u, r) ==
  /\ u \in {r.req, r.addr}
  /\ Replace(r, [req    |-> u,
                 addr   |-> IF r.req = u THEN r.addr ELSE r.req,
                 status |-> "blocked"])

\* DELETE: either of the two removes the row, whatever its status.
RemoveFriend(u, r) ==
  /\ u \in {r.req, r.addr}
  /\ friends' = friends \ {r}

FriendStep(u) ==
  \/ \E v \in Users : RequestFriend(u, v)
  \/ \E r \in friends :
       \/ AcceptFriend(u, r)
       \/ DeclineFriend(u, r)
       \/ BlockFriend(u, r)
       \/ RemoveFriend(u, r)

-----------------------------------------------------------------------------
MembersOf(c) == {u \in Users : <<u, c>> \in members}

BlockedIn(u, c) == \E v \in MembersOf(c) : Blocked(u, v)

\* signed: the request brings a signature of the actor's device that the
\* server keeps, and with it the device's timestamp.
Entry(c, act, actor, target, signed) ==
  [chan |-> c, act |-> act, actor |-> actor, target |-> target, signed |-> signed]

Pending(u, c) ==
  \/ \E t \in BagToSet(todo) : t.chan = c /\ t.target = u
  \/ \E v \in Users : req[v].pc = "removed" /\ req[v].chan = c /\ req[v].who = u

\* Every request of a user counts against the bound.
Ask(u) == req[u].pc = "idle" /\ ops < MaxOps /\ ops' = ops + 1

\* The requests that are past their checks when the checks' answer changes.
Sending(c) == {u \in Users : req[u].pc = "send" /\ req[u].chan = c}

\* The triggers dm_rotate_on_member_insert and dm_rotate_on_member_delete.
Rotated(c, n) ==
  [chan EXCEPT ![c].ver = IF chan[c].scheme # None THEN @ + n ELSE @]

-----------------------------------------------------------------------------
(* Friends and blocks.                                                     *)

Friend(u) ==
  /\ Ask(u)
  /\ FriendStep(u)
  /\ graced' = graced \cup {v \in Users : req[v].pc = "send"}
  /\ UNCHANGED <<dbVars, req, todo, shown, logged>>

-----------------------------------------------------------------------------
(* Channels and members.                                                   *)

Direct(u, v, enc) ==
  {c \in Chans : /\ chan[c].open /\ ~chan[c].group /\ (chan[c].scheme # None) = enc
                 /\ {<<u, c>>, <<v, c>>} \subseteq members}

\* POST /api/dm/channels: a 1:1 channel that exists is returned, anything
\* else is created with its members in one transaction; the founding members
\* of a group are logged after the response.
OpenChannel(u, others, enc, c) ==
  /\ Ask(u)
  /\ others # {} /\ u \notin others
  /\ ~chan[c].open
  /\ LET all == others \cup {u}
         group == Cardinality(all) > 2
     IN  /\ group \/ \A v \in others : Direct(u, v, enc) = {}
         /\ chan' = [chan EXCEPT ![c] =
              [open |-> TRUE, group |-> group, owner |-> u,
               scheme |-> IF enc THEN "olm" ELSE None,
               ver |-> IF enc THEN 1 + Cardinality(all) ELSE 1]]
         /\ members' = members \cup (all \X {c})
         /\ todo' = todo (+) SetToBag(
              IF group THEN {Entry(c, "added", u, v, FALSE) : v \in others} ELSE {})
  /\ UNCHANGED <<friends, msg, order, lastRead, log, req, graced, shown, logged>>

\* Faulty variant of AddCheck: members can be added to any channel.
AddCheckAnyChannel(u, c, v) ==
  /\ Ask(u)
  /\ <<u, c>> \in members
  /\ req' = [req EXCEPT ![u] = [pc |-> "add", chan |-> c, who |-> v, ver |-> 0]]
  /\ UNCHANGED <<friends, dbVars, todo, graced, shown, logged>>

\* POST members: the caller is a member and the channel a group; then the
\* handler awaits the body.
AddCheck(u, c, v) ==
  /\ Ask(u)
  /\ <<u, c>> \in members
  /\ chan[c].group
  /\ req' = [req EXCEPT ![u] = [pc |-> "add", chan |-> c, who |-> v, ver |-> 0]]
  /\ UNCHANGED <<friends, dbVars, todo, graced, shown, logged>>

\* The body is in: the row is inserted, or it is there already (409).
AddInsert(u, signed) ==
  LET c == req[u].chan
      v == req[u].who
      new == <<v, c>> \notin members
  IN  /\ req[u].pc = "add"
      /\ req' = [req EXCEPT ![u] = Idle]
      /\ members' = members \cup {<<v, c>>}
      /\ chan' = IF new THEN Rotated(c, 1) ELSE chan
      /\ todo' = IF new THEN todo (+) SetToBag({Entry(c, "added", u, v, signed)}) ELSE todo
      /\ graced' = IF new THEN graced \cup Sending(c) ELSE graced
      /\ overlap' = IF new /\ Pending(v, c) THEN overlap \cup {<<v, c>>} ELSE overlap
      /\ UNCHANGED <<friends, msg, order, lastRead, log, ops, shown, misdated>>

\* DELETE members: the owner removes anybody, everybody themselves; the row
\* may not be there.  Then the handler awaits the eviction at the gateway.
RemoveRow(u, c, v) ==
  /\ Ask(u)
  /\ v = u \/ chan[c].owner = u
  /\ chan[c].open
  /\ members' = members \ {<<v, c>>}
  /\ chan' = IF <<v, c>> \in members THEN Rotated(c, 1) ELSE chan
  /\ req' = [req EXCEPT ![u] = [pc |-> "removed", chan |-> c, who |-> v, ver |-> 0]]
  /\ graced' = graced \cup Sending(c)
  /\ overlap' = IF Pending(v, c) THEN overlap \cup {<<v, c>>} ELSE overlap
  /\ UNCHANGED <<friends, msg, order, lastRead, log, todo, shown, misdated>>

\* The gateway has answered or timed out.
RemoveDone(u, signed) ==
  LET c == req[u].chan
      v == req[u].who
  IN  /\ req[u].pc = "removed"
      /\ req' = [req EXCEPT ![u] = Idle]
      /\ todo' = todo (+) SetToBag(
           {Entry(c, IF v = u THEN "left" ELSE "removed", u, v, signed)})
      /\ UNCHANGED <<friends, dbVars, ops, graced, shown, logged>>

\* Faulty variant of Slots: the client's timestamp is taken unsigned too.
SlotsUnsigned(t) == DOMAIN log[t.chan] \cup {Len(log[t.chan]) + 1}

\* Where an entry may come among those of its channel, by created_at.  A
\* signed one has the timestamp of the device, which may be five minutes off,
\* one way or the other; any other is stamped when it is written.
Slots(t) ==
  LET n == Len(log[t.chan])
  IN  {at \in 1 .. n + 1 : t.signed \/ \A i \in at .. n : log[t.chan][i].signed}

\* recordMembershipEvent.
RecordEvent(t, at) ==
  /\ BagIn(t, todo)
  /\ at \in Slots(t)
  /\ todo' = todo (-) SetToBag({t})
  /\ log' = [log EXCEPT ![t.chan] =
       InsertAt(@, at, [act |-> t.act, target |-> t.target, signed |-> t.signed])]
  /\ misdated' =
       IF \E i \in at .. Len(log[t.chan]) : log[t.chan][i].target = t.target
       THEN misdated \cup {<<t.target, t.chan>>}
       ELSE misdated \ {<<t.target, t.chan>>}
  /\ UNCHANGED <<friends, chan, members, msg, order, lastRead, req, ops,
                 graced, shown, overlap>>

\* The insert fails (the event id of the signature may be taken) or the process
\* stops before the callback runs.
EventLost(t) ==
  /\ BagIn(t, todo)
  /\ todo' = todo (-) SetToBag({t})
  /\ overlap' = overlap \cup {<<t.target, t.chan>>}
  /\ UNCHANGED <<friends, dbVars, req, ops, graced, shown, misdated>>

-----------------------------------------------------------------------------
(* Messages.                                                               *)

\* Faulty variant of SendCheck: blocks matter in 1:1 channels only.
SendCheckNoGroupBlock(u, c) ==
  /\ Ask(u)
  /\ <<u, c>> \in members
  /\ chan[c].group \/ ~BlockedIn(u, c)
  /\ req' = [req EXCEPT ![u] =
       [pc |-> "send", chan |-> c, who |-> None, ver |-> chan[c].ver]]
  /\ graced' = graced \ {u}
  /\ UNCHANGED <<friends, dbVars, todo, shown, logged>>

\* POST messages up to the body: membership, blocks with every other member
\* and the channel row are read.
SendCheck(u, c) ==
  /\ Ask(u)
  /\ <<u, c>> \in members
  /\ ~BlockedIn(u, c)
  /\ req' = [req EXCEPT ![u] =
       [pc |-> "send", chan |-> c, who |-> None, ver |-> chan[c].ver]]
  /\ graced' = graced \ {u}
  /\ UNCHANGED <<friends, dbVars, todo, shown, logged>>

\* The body is in: the reply target is looked up and the message inserted.
SendInsert(u, m, reply) ==
  LET c == req[u].chan
  IN  /\ req[u].pc = "send"
      /\ msg[m].state = "none"
      /\ reply \in {None} \cup {r \in Msgs : msg[r].state = "live" /\ msg[r].chan = c}
      /\ msg' = [msg EXCEPT ![m] = [chan |-> c, sender |-> u, state |-> "live",
                                    reply |-> reply, ver |-> req[u].ver]]
      /\ order' = Append(order, m)
      /\ req' = [req EXCEPT ![u] = Idle]
      /\ UNCHANGED <<friends, chan, members, lastRead, log, todo, ops,
                     graced, shown, logged>>

\* The body is not JSON, or the envelope or the reply target is refused.
SendRefused(u) ==
  /\ req[u].pc = "send"
  /\ req' = [req EXCEPT ![u] = Idle]
  /\ UNCHANGED <<friends, dbVars, todo, ops, graced, shown, logged>>

\* DELETE message: by its sender, a member or not.
DeleteMessage(u, m) ==
  /\ Ask(u)
  /\ msg[m].sender = u
  /\ msg' = [msg EXCEPT ![m].state = "deleted"]
  /\ UNCHANGED <<friends, chan, members, order, lastRead, log, req, todo,
                 graced, shown, logged>>

\* Where the messages of c that are not deleted stand in order, and the last.
Live(c) ==
  {i \in DOMAIN order : msg[order[i]].chan = c /\ msg[order[i]].state = "live"}
Newest(c) == {i \in Live(c) : \A j \in Live(c) : j <= i}

\* Faulty variant of Unread: deleted messages still count.
UnreadDeletedCounts(u, c) ==
  \E i \in DOMAIN order :
    /\ msg[order[i]].chan = c
    /\ \A j \in DOMAIN order : msg[order[j]].chan = c => j <= i
    /\ msg[order[i]].sender # u /\ i > lastRead[u][c]

\* GET /api/dm/channels: is the channel shown as unread to u?
Unread(u, c) ==
  \E i \in Newest(c) : msg[order[i]].sender # u /\ i > lastRead[u][c]

\* The newest page of c, or the one older than a message.
Page(c, before) ==
  LET older == {i \in Live(c) :
        before = None \/ \E b \in DOMAIN order : order[b] = before /\ i < b}
  IN  {order[i] : i \in {j \in older :
        Cardinality({k \in older : k > j}) < PageSize}}

Unseen(u, ms) == {m \in ms : <<u, m>> \notin seen}

\* GET /api/dm/channels/[channelId], with ?before= or without: either way the
\* channel is marked read up to now.
ReadChannel(u, c, before) ==
  /\ Ask(u)
  /\ <<u, c>> \in members
  /\ LET all == {order[i] : i \in Live(c)}
         page == Page(c, before)
     IN  /\ seen' = seen \cup ({u} \X page)
         /\ unmarked' = {p \in unmarked : p[1] # u \/ msg[p[2]].chan # c}
         /\ skipped' = IF Unseen(u, all) \subseteq page THEN skipped \ {<<u, c>>}
                                                       ELSE skipped \cup {<<u, c>>}
  /\ lastRead' = [lastRead EXCEPT ![u][c] = Len(order)]
  /\ UNCHANGED <<friends, chan, members, msg, order, log, req, todo, graced,
                 logged>>

\* A response that shows messages and leaves the read state alone.
ShowOnly(u, ms) ==
  /\ seen' = seen \cup ({u} \X ms)
  /\ unmarked' = unmarked \cup ({u} \X Unseen(u, ms))
  /\ UNCHANGED <<friends, dbVars, req, todo, graced, skipped, logged>>

\* The same GET when the write of the read state fails, which is only logged.
ReadChannelMarkFails(u, c, before) ==
  /\ Ask(u)
  /\ <<u, c>> \in members
  /\ ShowOnly(u, Page(c, before))

\* GET messages/[messageId]: the message of an event.
ReadMessage(u, m) ==
  /\ Ask(u)
  /\ msg[m].state # "none"
  /\ <<u, msg[m].chan>> \in members
  /\ ShowOnly(u, {m})

-----------------------------------------------------------------------------
Request(u) ==
  \/ Friend(u)
  \/ \E c \in Chans, others \in SUBSET Users, enc \in BOOLEAN :
       OpenChannel(u, others, enc, c)
  \/ \E c \in Chans, v \in Users : AddCheck(u, c, v) \/ RemoveRow(u, c, v)
  \/ \E c \in Chans : SendCheck(u, c)
  \/ \E m \in Msgs : DeleteMessage(u, m) \/ ReadMessage(u, m)
  \/ \E c \in Chans, m \in {None} \cup {order[i] : i \in DOMAIN order} :
       ReadChannel(u, c, m) \/ ReadChannelMarkFails(u, c, m)

Continue(u) ==
  \/ \E signed \in BOOLEAN : AddInsert(u, signed) \/ RemoveDone(u, signed)
  \/ \E m \in Msgs, reply \in Msgs \cup {None} : SendInsert(u, m, reply)
  \/ SendRefused(u)

Next ==
  \/ \E u \in Users : Request(u) \/ Continue(u)
  \/ \E t \in BagToSet(todo) :
       (\E at \in Slots(t) : RecordEvent(t, at)) \/ EventLost(t)

Spec == Init /\ [][Next]_vars
-----------------------------------------------------------------------------
Changes == {"added", "left", "removed"}

TypeOK ==
  /\ friends \in SUBSET Row
  /\ chan \in [Chans -> [open : BOOLEAN, group : BOOLEAN,
                         scheme : {None, "olm", "legacy-ecdh"},
                         owner : Users \cup {None}, ver : Nat]]
  /\ members \in SUBSET (Users \X Chans)
  /\ msg \in [Msgs -> [chan : Chans \cup {None}, sender : Users \cup {None},
                       state : {"none", "live", "deleted"},
                       reply : Msgs \cup {None}, ver : Nat]]
  /\ order \in Seq(Msgs)
  /\ lastRead \in [Users -> [Chans -> Nat]]
  /\ log \in [Chans -> Seq([act : Changes, target : Users, signed : BOOLEAN])]
  /\ req \in [Users -> [pc : {"idle", "add", "removed", "send"},
                        chan : Chans \cup {None}, who : Users \cup {None},
                        ver : Nat]]
  /\ IsABag(todo)
  /\ DOMAIN todo \subseteq [chan : Chans, act : Changes, actor : Users,
                            target : Users, signed : BOOLEAN]
  /\ ops \in Nat
  /\ graced \in SUBSET Users
  /\ seen \in SUBSET (Users \X Msgs) /\ unmarked \in SUBSET (Users \X Msgs)
  /\ skipped \in SUBSET (Users \X Chans) /\ overlap \in SUBSET (Users \X Chans)
  /\ misdated \in SUBSET (Users \X Chans)

\* Two users are in one relation at a time and see it alike: there is never
\* a second row for the pair (the table's unique key is directed and does not
\* forbid one), nobody is at once a friend and blocked or pending, and what
\* one user's lists say the other's mirror, except a block, which only the
\* user who made it sees.
FriendsConsistent ==
  /\ \A u, v \in Users : Cardinality(RowsOf(u, v)) <= 1
  /\ \A u, v \in Users :
       LET mine == FriendList(u)
           theirs == FriendList(v)
       IN  /\ v \in mine.accepted <=> u \in theirs.accepted
           /\ v \in mine.sent <=> u \in theirs.received
           /\ v \in mine.blocked => /\ u \notin theirs.blocked
                                    /\ Blocked(v, u)
           /\ v \in mine.accepted <=> FriendStatus(u, v) = "friends"

\* However channels are opened, left and joined again, two users share at
\* most one 1:1 channel of each kind (encrypted or not).
OneDirectChannel ==
  \A u, v \in Users, enc \in BOOLEAN :
    u # v => Cardinality(Direct(u, v, enc)) <= 1

\* A message is stored for somebody who is blocked by (or blocks) a member,
\* who is no member, or under a key version that is not the channel's, only
\* when the block or the membership changed after the handler had checked.
StaleSendExplained ==
  [][\A u \in Users, m \in Msgs :
       (msg[m].state = "none" /\ msg'[m].state = "live" /\ msg'[m].sender = u)
         => LET c == msg'[m].chan
            IN  \/ u \in graced
                \/ /\ <<u, c>> \in members
                   /\ ~BlockedIn(u, c)
                   /\ chan[c].scheme = "legacy-ecdh" => msg'[m].ver = chan[c].ver]_vars

\* What the last log entry about a user says: empty when there is none.
LastEntry(u, c) ==
  {log[c][i].act : i \in {j \in DOMAIN log[c] :
     /\ log[c][j].target = u
     /\ \A k \in DOMAIN log[c] : log[c][k].target = u => k <= j}}

\* The log shows what it was told last about u before something older, and a
\* device's own timestamp is what put it there.
Misdated(u, c) ==
  /\ <<u, c>> \in misdated
  /\ \E i \in DOMAIN log[c] : log[c][i].target = u /\ log[c][i].signed

\* The membership log tells who is in a group: once nothing about a user is
\* outstanding, their last entry says whether they are a member (the owner,
\* whose founding is not logged, and the members of a channel from before the
\* log may have none), unless two changes to them overlapped, an entry was
\* lost, or a signed entry came out of order, as its timestamp is the device's.
LogTellsMembers ==
  \A c \in Chans : chan[c].group =>
    \A u \in Users :
      \/ Pending(u, c) \/ <<u, c>> \in overlap \/ Misdated(u, c)
      \/ IF <<u, c>> \in members
         THEN \/ LastEntry(u, c) = {"added"}
              \/ /\ u = chan[c].owner \/ chan[c].scheme = "legacy-ecdh"
                 /\ LastEntry(u, c) = {}
         ELSE LastEntry(u, c) \subseteq {"left", "removed"}

\* A channel is shown as unread exactly when its newest message is somebody
\* else's and the user has not seen it, or only in responses that left no mark
\* (a single message, or a page whose mark failed), unless a page marked the
\* channel read that left out a message they had not seen.
UnreadTracksSeen ==
  \A c \in Chans : \A u \in MembersOf(c) :
    \/ <<u, c>> \in skipped
    \/ Unread(u, c) <=>
         \E i \in Newest(c) : /\ msg[order[i]].sender # u
                              /\ <<u, order[i]>> \notin seen \ unmarked
-----------------------------------------------------------------------------
\* Users are treated alike, and so are channels: TLC may exchange them.
Symmetry == Permutations(Users) \cup Permutations(Chans)
=============================================================================
