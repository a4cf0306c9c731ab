----------------------------- MODULE PushFanout -----------------------------
(***************************************************************************)
(* Who gets a push (lib/push.ts): sendPushToChannel for a message and      *)
(* sendPushToUser for the rest.  The members, the quiet hours and the      *)
(* preferences are read one after the other, and change between the reads. *)
(* PushDevices says what becomes of a push to a user.                      *)
(***************************************************************************)
EXTENDS Naturals, FiniteSets

CONSTANTS
  Users,
  Day,         \* the times of a day: 0..Day - 1
  MaxChanges   \* bound on the changes to members and preferences

VARIABLES
  now,         \* the time of the day, in the zone of every user
  members,     \* of the channel
  quiet,       \* a user's quiet hours: <<start, end>>, or <<>> if they are off
  mentions,    \* users with mention notifications on
  send,        \* the send under way, or the last one
  changes,
  \* history, since the send began
  got,         \* users it has reached
  ever,        \* users that were once members, awake, willing
  always,      \* users that were so all the time
  lost         \* its reads that have failed

fanoutVars == <<now, members, quiet, mentions, send, changes, got, ever, always, lost>>

Times == 0..(Day - 1)
Off == <<>>

\* Faulty variant of InQuietHours: a range over midnight is never met.
InQuietSameDay(q, t) == q # Off /\ q[1] <= t /\ t < q[2]

\* isInQuietHours: the end is outside the range, and a range that begins after
\* it ends goes over midnight.
InQuietHours(q, t) ==
  /\ q # Off
  /\ IF q[1] <= q[2] THEN q[1] <= t /\ t < q[2] ELSE q[1] <= t \/ t < q[2]

Aspects == {"member", "awake", "willing"}
\* What a user has asked for, now: said of the times from the start to the end.
Asked(q) == {(q[1] + k) % Day : k \in {j \in Times : (q[1] + j) % Day # q[2]
                                /\ \A i \in 0..j : (q[1] + i) % Day # q[2]}}
Are(ms, qs, ws, t) == [a \in Aspects |->
                        CASE a = "member"  -> ms
                          [] a = "awake"   -> {u \in Users : qs[u] = Off \/ t \notin Asked(qs[u])}
                          [] a = "willing" -> ws]

NoSend == [step |-> "end", kind |-> "none", ids |-> {}, mentioned |-> {}, out |-> {}, to |-> {}]

Init ==
  /\ now = 0 /\ members = Users /\ mentions = Users
  /\ quiet = [u \in Users |-> Off]
  /\ send = NoSend /\ changes = 0
  /\ got = {} /\ lost = {}
  /\ ever = [a \in Aspects |-> Users] /\ always = [a \in Aspects |-> Users]
-----------------------------------------------------------------------------
\* The clock, and the changes that users make meanwhile.
Pass(ms, qs, ws, t) ==
  /\ members' = ms /\ quiet' = qs /\ mentions' = ws /\ now' = t
  /\ ever' = [a \in Aspects |-> ever[a] \cup Are(ms, qs, ws, t)[a]]
  /\ always' = [a \in Aspects |-> always[a] \cap Are(ms, qs, ws, t)[a]]
  /\ UNCHANGED <<send, got, lost>>

Tick == Pass(members, quiet, mentions, (now + 1) % Day) /\ UNCHANGED changes

Changing == changes < MaxChanges /\ changes' = changes + 1

JoinOrLeave(u) ==
  /\ Changing
  /\ Pass(IF u \in members THEN members \ {u} ELSE members \cup {u}, quiet, mentions, now)
SetQuiet(u, q) == Changing /\ q # quiet[u] /\ Pass(members, [quiet EXCEPT ![u] = q], mentions, now)
SetMentions(u) ==
  /\ Changing
  /\ Pass(members, quiet, IF u \in mentions THEN mentions \ {u} ELSE mentions \cup {u}, now)
-----------------------------------------------------------------------------
state == <<now, members, quiet, mentions, changes>>

Begin(s) ==
  /\ send.step = "end"
  /\ send' = s
  /\ got' = {} /\ lost' = {}
  /\ ever' = Are(members, quiet, mentions, now)
  /\ always' = Are(members, quiet, mentions, now)
  /\ UNCHANGED state

\* POST of a message: all members but the sender are to get it.
ToChannel(by, mentioned) ==
  /\ by \in members
  /\ Begin([NoSend EXCEPT !.step = "members", !.kind = "channel", !.mentioned = mentioned,
                          !.to = Users \ {by}])

\* api/friends: a push to one user, which checks the quiet hours itself.
ToUser(u) == Begin([NoSend EXCEPT !.step = "quiet", !.kind = "user", !.ids = {u}, !.to = {u}])

\* api/notifications/test: without that check.
ToSelf(u) == Begin([NoSend EXCEPT !.step = "deliver", !.kind = "test", !.ids = {u}, !.to = {u}])

sendHistory == <<got, ever, always>>

ReadMembers ==
  /\ send.step = "members"
  /\ \/ /\ send' = [send EXCEPT !.step = "quiet", !.ids = members \cap send.to]
        /\ UNCHANGED lost
     \/ /\ send' = [send EXCEPT !.step = "end"]     \* the query fails: no push
        /\ lost' = lost \cup {"members"}
  /\ UNCHANGED <<state, sendHistory>>

AfterQuiet == IF send.kind = "channel" THEN "types" ELSE "deliver"

\* Faulty variant of ReadQuiet: if it cannot ask, it is silent.
ReadQuietOrSkip ==
  /\ send.step = "quiet"
  /\ \E ids \in {{u \in send.ids : ~InQuietHours(quiet[u], now)}, {}} :
       send' = [send EXCEPT !.step = AfterQuiet, !.ids = ids]
  /\ UNCHANGED <<state, sendHistory, lost>>

\* Those in their quiet hours are left out; if it cannot ask, nobody is.
ReadQuiet ==
  /\ send.step = "quiet"
  /\ \/ /\ send' = [send EXCEPT !.step = AfterQuiet,
                                !.ids = {u \in @ : ~InQuietHours(quiet[u], now)}]
        /\ UNCHANGED lost
     \/ /\ send' = [send EXCEPT !.step = AfterQuiet]
        /\ lost' = lost \cup {"quiet"}
  /\ UNCHANGED <<state, sendHistory>>

\* The preferences of those that are left.
ReadTypes ==
  /\ send.step = "types"
  /\ \/ /\ send' = [send EXCEPT !.step = "deliver", !.out = send.ids \ mentions]
        /\ UNCHANGED lost
     \/ /\ send' = [send EXCEPT !.step = "deliver"]
        /\ lost' = lost \cup {"types"}
  /\ UNCHANGED <<state, sendHistory>>

\* resolveNotification finds no override: every message is pushed, but a
\* mention to one who has opted out of mentions.
ShouldPush(u) == ~(u \in send.mentioned /\ u \in send.out)

Deliver(u) ==
  /\ send.step = "deliver" /\ u \in send.ids
  /\ send' = [send EXCEPT !.ids = @ \ {u}]
  /\ got' = IF ShouldPush(u) THEN got \cup {u} ELSE got
  /\ UNCHANGED <<state, lost, ever, always>>

Sent ==
  /\ send.step = "deliver" /\ send.ids = {}
  /\ send' = [send EXCEPT !.step = "end"]
  /\ UNCHANGED <<state, sendHistory, lost>>
-----------------------------------------------------------------------------
Next ==
  \/ Tick
  \/ \E u \in Users : JoinOrLeave(u) \/ SetMentions(u)
  \/ \E u \in Users, q \in (Times \X Times) \cup {Off} : SetQuiet(u, q)
  \/ \E u \in Users, ms \in SUBSET Users : ToChannel(u, ms)
  \/ \E u \in Users : ToUser(u) \/ ToSelf(u) \/ Deliver(u)
  \/ ReadMembers \/ ReadQuiet \/ ReadTypes \/ Sent

Spec == Init /\ [][Next]_fanoutVars
-----------------------------------------------------------------------------
\* Whether a user that the set says this of is to get the push.
Entitled(u, is, failed) ==
  /\ u \in send.to
  /\ send.kind = "channel" => u \in is["member"]
  /\ send.kind # "test" => u \in is["awake"] \/ failed["quiet"]
  /\ u \in send.mentioned => u \in is["willing"] \/ failed["types"]

\* A push reaches nobody who was never entitled to it while it was sent, unless
\* a read failed, ...
OnlyEntitled == \A u \in got : Entitled(u, ever, [r \in {"quiet", "types"} |-> r \in lost])

\* ... and everybody who always was: between the two, it depends on the reads.
AllEntitled ==
  (send.kind # "none" /\ send.step = "end" /\ "members" \notin lost) =>
    \A u \in Users : Entitled(u, always, [r \in {"quiet", "types"} |-> FALSE]) => u \in got

PushesEntitled == OnlyEntitled /\ AllEntitled
=============================================================================
