----------------------------- MODULE DmTimeline -----------------------------
(***************************************************************************)
(* What the open conversation shows (components/dm/dm-channel-area.tsx)    *)
(* against what the server stores, for one channel and one tab.            *)
(*                                                                         *)
(* The tab fills its list of messages from five sources that run beside    *)
(* each other: the newest page (first render, and again when the gateway   *)
(* reports a gap), older pages, the resync when the tab becomes visible,   *)
(* live gateway events (each fetches its message), and its own sends.  A   *)
(* fetch is two steps: the server reads the rows, and the response is put  *)
(* into the list, whatever happened to the list in between.                *)
(*                                                                         *)
(* The other writers are a peer and another device of the tab's own user.  *)
(* The gateway appears as useGateway sees it: events are published by      *)
(* after() callbacks in any order and delivered in order while the socket  *)
(* is in the room; what is published while it is not is replayed, reported *)
(* as a gap, or, without a cursor, not mentioned (EventReplay has the      *)
(* details of a resume).                                                   *)
(***************************************************************************)
EXTENDS Naturals, Sequences, FiniteSets

CONSTANTS
  Msgs,       \* message ids
  PageSize,   \* messages per page (50)
  MaxTrips    \* bound: disconnections, reloads, resyncs, older pages,
              \* failures, deletions and reaction changes

\* Who writes: this tab, another device of its user, another member.
Writers == {"tab", "device", "peer"}
UserOf(w) == IF w = "peer" THEN "peer" ELSE "me"
Users == {"me", "peer"}

VARIABLES
  \* the server
  stored,    \* the messages by created_at
  by,        \* the writer of each message
  deleted,   \* soft-deleted messages
  reacts,    \* dm_reactions for one emoji: <<user, message>>
  outbox,    \* after() callbacks: events on their way to the gateway
  \* the gateway
  inRoom,    \* the tab's socket is in the channel's room
  inbox,     \* events sent to the socket, in order
  missed,    \* events published while the socket was out of the room
  \* the tab
  cursor,    \* lastEventIds has an entry for the channel
  view,      \* messages: the list on screen, entries [id, reacts]
  hasMore,   \* the tab offers to load older messages
  fetch,     \* responses in flight: [kind, list]
  sent,      \* own messages whose POST is answered but not processed
  toggle,    \* the reaction request in flight
  trips,
  \* history
  lost,      \* messages the tab was never told of, or dropped
  spliced,   \* the list changed while an older page was being fetched
  skewed     \* <<user, message>>: reaction changes the tab could not order

serverVars == <<stored, by, deleted, reacts, outbox>>
gatewayVars == <<inRoom, inbox, missed>>
historyVars == <<lost, spliced, skewed>>
vars == <<serverVars, gatewayVars, cursor, view, hasMore, fetch, sent, toggle,
          trips, historyVars>>

NoToggle == [id |-> "none", on |-> FALSE]

Init ==
  /\ stored = << >>
  /\ by = [m \in Msgs |-> "none"]
  /\ deleted = {}
  /\ reacts = {}
  /\ outbox = {}
  /\ inRoom = FALSE
  /\ inbox = << >>
  /\ missed = << >>
  /\ cursor = FALSE
  /\ view = << >>
  /\ hasMore = FALSE
  /\ fetch = {[kind |-> "page", list |-> << >>]}
  /\ sent = {}
  /\ toggle = NoToggle
  /\ trips = 0
  /\ lost = {}
  /\ spliced = FALSE
  /\ skewed = {}

-----------------------------------------------------------------------------
Range(s) == {s[i] : i \in DOMAIN s}
Shown == {view[i].id : i \in DOMAIN view}

\* A message as the server reads it now.
Entry(m) == [id |-> m, reacts |-> {u \in Users : <<u, m>> \in reacts}]

Pos(m) == CHOOSE i \in DOMAIN stored : stored[i] = m

\* The members of S in an order given by its pairs <<x, y>>, x not after y.
Ordered(S, order) ==
  [k \in 1 .. Cardinality(S) |->
    CHOOSE x \in S : Cardinality({y \in S : <<y, x>> \in order}) = k]

\* The entries of s at the positions in I; or all, sorted by created_at
\* (Array.sort is stable).
Kept(s, I) ==
  LET at == Ordered(I, {p \in I \X I : p[1] <= p[2]})
  IN  [k \in DOMAIN at |-> s[at[k]]]
Sorted(s) ==
  LET at == Ordered(DOMAIN s,
              {p \in (DOMAIN s) \X (DOMAIN s) :
                 \/ Pos(s[p[1]].id) < Pos(s[p[2]].id)
                 \/ Pos(s[p[1]].id) = Pos(s[p[2]].id) /\ p[1] <= p[2]})
  IN  [k \in DOMAIN at |-> s[at[k]]]

\* GET channel: the newest of the messages in S, or of all, or of those
\* before message m.
Live == Range(stored) \ deleted
Newest(S) ==
  LET page == {m \in S : Cardinality({x \in S : Pos(x) > Pos(m)}) < PageSize}
      ids == Ordered(page, {p \in page \X page : Pos(p[1]) <= Pos(p[2])})
  IN  [k \in DOMAIN ids |-> Entry(ids[k])]
NewestPage == Newest(Live)
PageBefore(m) == Newest({x \in Live : Pos(x) < Pos(m)})

\* The entries of es that are not in the list yet, merged into it.
Merge(es) ==
  LET fresh == Kept(es, {i \in DOMAIN es : es[i].id \notin Shown})
  IN  IF fresh = << >> THEN view ELSE Sorted(view \o fresh)

Trip == trips < MaxTrips /\ trips' = trips + 1

Ask(kind, list) == fetch' = fetch \cup {[kind |-> kind, list |-> list]}

\* Another event about u's reaction to m is under way.
Unordered(u, m) ==
  \E e \in outbox \cup Range(inbox) \cup Range(missed) : e.user = u /\ e.id = m

\* What the entries of a response say of reactions that is not so (any more).
Stale(es) ==
  {r \in Users \X {x.id : x \in Range(es)} :
     \/ r = <<"me", toggle.id>>
     \/ \E x \in Range(es) :
          x.id = r[2] /\ (r[1] \in x.reacts) # (r \in reacts)}

-----------------------------------------------------------------------------
(* The gateway connection.                                                 *)

\* Faulty variant of JoinRoom: a gap is not acted on.
JoinRoomIgnoringGap ==
  /\ ~inRoom
  /\ inRoom' = TRUE
  /\ missed' = << >>
  /\ \/ cursor /\ inbox' = missed /\ UNCHANGED <<fetch, lost, skewed>>
     \/ cursor /\ missed # << >> /\ UNCHANGED <<inbox, fetch, lost, skewed>>
     \/ ~cursor /\ lost' = lost \cup {e.id : e \in Range(missed)}
                /\ skewed' = skewed \cup {<<e.user,
                                            e.id>> : e \in Range(missed)}
                /\ UNCHANGED <<inbox, fetch>>
  /\ UNCHANGED <<serverVars, cursor, view, hasMore, sent, toggle, trips,
                 spliced>>

\* The socket joins the room.  A resume with a cursor replays what was missed
\* or reports a gap, which fetches the newest page; without a cursor nothing
\* is said about what was published before.  A replay is applied by the same
\* listeners as live events.
JoinRoom ==
  /\ ~inRoom
  /\ inRoom' = TRUE
  /\ missed' = << >>
  /\ \/ cursor /\ inbox' = missed /\ UNCHANGED <<fetch, lost, skewed>>
     \/ /\ cursor /\ missed # << >>
        /\ Ask("page", NewestPage)
        /\ skewed' = skewed \cup {<<e.user, e.id>> : e \in Range(missed)}
        /\ lost' = lost \cup
             (Live \ ({x.id : x \in Range(NewestPage)} \cup Shown))
        /\ UNCHANGED inbox
     \/ /\ ~cursor
        /\ lost' = lost \cup {e.id : e \in Range(missed)}
        /\ skewed' = skewed \cup {<<e.user, e.id>> : e \in Range(missed)}
        /\ UNCHANGED <<inbox, fetch>>
  /\ UNCHANGED <<serverVars, cursor, view, hasMore, sent, toggle, trips,
                 spliced>>

\* The connection drops; events on the wire are lost but stay in the replay
\* buffer.
LeaveRoom ==
  /\ inRoom
  /\ Trip
  /\ inRoom' = FALSE
  /\ missed' = inbox
  /\ inbox' = << >>
  /\ UNCHANGED <<serverVars, cursor, view, hasMore, fetch, sent, toggle,
                 historyVars>>

\* An after() callback reaches the gateway.
Publish(e) ==
  /\ e \in outbox
  /\ outbox' = outbox \ {e}
  /\ IF inRoom THEN inbox' = Append(inbox, e) /\ UNCHANGED missed
               ELSE missed' = Append(missed, e) /\ UNCHANGED inbox
  /\ UNCHANGED <<stored, by, deleted, reacts, inRoom, cursor, view, hasMore,
                 fetch, sent, toggle, trips, historyVars>>

Mark(s, m, u, on) ==
  [i \in DOMAIN s |->
    IF s[i].id # m THEN s[i]
    ELSE [s[i] EXCEPT !.reacts = IF on THEN @ \cup {u} ELSE @ \ {u}]]

\* The listeners: events of the tab's own user are skipped, a new message is
\* fetched (a deleted one is returned too), a reaction changes its entry.
Receive ==
  /\ inbox # << >>
  /\ inbox' = Tail(inbox)
  /\ cursor' = TRUE
  /\ LET e == Head(inbox)
     IN  \/ /\ UserOf(e.from) = "me"
            /\ lost' = IF e.kind = "created" /\ e.from # "tab"
                       THEN lost \cup {e.id} ELSE lost
            /\ UNCHANGED <<view, fetch>>
         \/ /\ UserOf(e.from) # "me" /\ e.kind = "created"
            /\ Ask("message", <<Entry(e.id)>>)
            /\ UNCHANGED <<view, lost>>
         \/ /\ UserOf(e.from) # "me" /\ e.kind # "created"
            /\ view' = Mark(view, e.id, e.user, e.kind = "added")
            /\ UNCHANGED <<fetch, lost>>
  /\ UNCHANGED <<serverVars, inRoom, missed, hasMore, sent, toggle, trips,
                 spliced, skewed>>

-----------------------------------------------------------------------------
(* Fetches.                                                                *)

\* The page is reloaded: a new list, a new socket, no cursor.
Reload ==
  /\ Trip
  /\ inRoom' = FALSE
  /\ inbox' = << >>
  /\ missed' = << >>
  /\ cursor' = FALSE
  /\ view' = << >>
  /\ hasMore' = FALSE
  /\ fetch' = {[kind |-> "page", list |-> NewestPage]}
  /\ sent' = {}
  /\ toggle' = NoToggle
  /\ lost' = {}
  /\ spliced' = FALSE
  /\ skewed' = {<<e.user, e.id>> : e \in outbox} \cup {<<"me", toggle.id>>}
  /\ UNCHANGED serverVars

\* The tab becomes visible.
Resync ==
  /\ Trip
  /\ Ask("resync", NewestPage)
  /\ UNCHANGED <<serverVars, gatewayVars, cursor, view, hasMore, sent, toggle,
                 historyVars>>

\* loadMore: one request at a time, before the first message on screen.
LoadMore ==
  /\ hasMore
  /\ view # << >>
  /\ \A f \in fetch : f.kind # "older"
  /\ Trip
  /\ Ask("older", PageBefore(view[1].id))
  /\ UNCHANGED <<serverVars, gatewayVars, cursor, view, hasMore, sent, toggle,
                 historyVars>>

\* A newest page replaces the list, an older page goes before it, a resync
\* and a live message are merged in.
Insert(f) ==
  CASE f.kind = "page"  -> f.list
    [] f.kind = "older" -> f.list \o view
    [] OTHER            -> Merge(f.list)

\* What is on its way to the list.
Coming ==
  sent \cup {x.id : x \in UNION {Range(f.list) : f \in fetch}}
    \cup {e.id : e \in {c \in outbox \cup Range(inbox) \cup Range(missed) :
                           c.kind = "created" /\ c.from # "tab"}}

\* The event of a message that the newest page did not reach back to comes
\* late: what lies between it and the list is not asked for.
Between(f) ==
  IF f.kind # "message" THEN {}
  ELSE {m \in Live \ Coming :
          /\ \E x \in Range(f.list) : Pos(x.id) < Pos(m)
          /\ \A y \in Shown : Pos(m) < Pos(y)}

\* A response arrives.
Apply(f) ==
  /\ f \in fetch
  /\ fetch' = fetch \ {f}
  /\ view' = Insert(f)
  /\ hasMore' = IF f.kind \in {"page", "older"} THEN Len(f.list) = PageSize
                                                ELSE hasMore
  /\ lost' = lost \cup (IF f.kind = "page" THEN Shown \ {x.id : x \in Range(f.list)}
                                           ELSE Between(f))
  /\ spliced' = \/ spliced
                \/ f.kind # "older" /\ \E g \in fetch : g.kind = "older"
  /\ skewed' = skewed \cup Stale(f.list)
  /\ UNCHANGED <<serverVars, gatewayVars, cursor, sent, toggle, trips>>

\* A response does not arrive, or is an error.
FetchFails(f) ==
  /\ f \in fetch
  /\ Trip
  /\ fetch' = fetch \ {f}
  /\ lost' = lost \cup {x.id : x \in Range(f.list)}
  /\ UNCHANGED <<serverVars, gatewayVars, cursor, view, hasMore, sent, toggle,
                 spliced, skewed>>

-----------------------------------------------------------------------------
(* Sending and deleting.                                                   *)

\* POST: the row is inserted and the event handed to after().
Send(w, m) ==
  /\ by[m] = "none"
  /\ stored' = Append(stored, m)
  /\ by' = [by EXCEPT ![m] = w]
  /\ outbox' = outbox \cup
       {[kind |-> "created", id |-> m, user |-> UserOf(w), from |-> w]}
  /\ sent' = IF w = "tab" THEN sent \cup {m} ELSE sent
  /\ UNCHANGED <<deleted, reacts, gatewayVars, cursor, view, hasMore, fetch,
                 toggle, trips, historyVars>>

\* The response: the message is appended, even if it is there already.
ShowSent(m) ==
  /\ m \in sent
  /\ sent' = sent \ {m}
  /\ view' = Append(view, [id |-> m, reacts |-> {}])
  /\ skewed' = skewed \cup Stale(<<[id |-> m, reacts |-> {}]>>)
  /\ UNCHANGED <<serverVars, gatewayVars, cursor, hasMore, fetch, toggle,
                 trips, lost, spliced>>

\* DELETE, from this tab (whose list loses the message) or elsewhere; no
\* event is published.
Delete(w, m) ==
  /\ Trip
  /\ by[m] # "none" /\ UserOf(by[m]) = UserOf(w)
  /\ m \notin deleted
  /\ w = "tab" => m \in Shown
  /\ deleted' = deleted \cup {m}
  /\ view' = IF w = "tab" THEN Kept(view, {i \in DOMAIN view : view[i].id # m}) ELSE view
  /\ UNCHANGED <<stored, by, reacts, outbox, gatewayVars, cursor, hasMore,
                 fetch, sent, toggle, historyVars>>

-----------------------------------------------------------------------------
(* Reactions.                                                              *)

\* What POST and DELETE reactions do: the row, then the event in after().
React(w, m, on) ==
  LET u == UserOf(w)
  IN  /\ reacts' = IF on THEN reacts \cup {<<u, m>>} ELSE reacts \ {<<u, m>>}
      /\ outbox' = outbox \cup {[kind |-> IF on THEN "added" ELSE "removed",
                                 id |-> m, user |-> u, from |-> w]}

\* Somebody else's reaction.
ReactElsewhere(w, m, on) ==
  /\ w # "tab"
  /\ Trip
  /\ by[m] # "none" /\ m \notin deleted
  /\ React(w, m, on)
  /\ skewed' = IF w = "device" \/ Unordered(UserOf(w), m)
               THEN skewed \cup {<<UserOf(w), m>>} ELSE skewed
  /\ UNCHANGED <<stored, by, deleted, gatewayVars, cursor, view, hasMore,
                 fetch, sent, toggle, lost, spliced>>

\* handleDmReaction: what is shown decides whether to add or to remove; the
\* list changes before the request is sent.
Click(m) ==
  /\ toggle = NoToggle
  /\ Trip
  /\ m \in Shown
  /\ LET e == view[CHOOSE i \in DOMAIN view :
                     view[i].id = m /\ \A j \in 1 .. i - 1 : view[j].id # m]
         on == "me" \notin e.reacts
     IN  /\ toggle' = [id |-> m, on |-> on]
         /\ view' = Mark(view, m, "me", on)
  /\ skewed' = IF Unordered("me", m) THEN skewed \cup {<<"me", m>>} ELSE skewed
  /\ UNCHANGED <<serverVars, gatewayVars, cursor, hasMore, fetch, sent,
                 lost, spliced>>

\* Faulty variant of ToggleDone: a failure leaves the optimistic change.
ToggleDoneNoRevert(ok) ==
  /\ toggle # NoToggle
  /\ IF ok /\ toggle.id \notin deleted
     THEN React("tab", toggle.id, toggle.on)
     ELSE UNCHANGED <<reacts, outbox>>
  /\ toggle' = NoToggle
  /\ skewed' = IF Unordered("me", toggle.id) THEN skewed \cup {<<"me",
                                                                 toggle.id>>}
                                             ELSE skewed
  /\ UNCHANGED <<view, stored, by, deleted, gatewayVars, cursor, hasMore,
                 fetch,
                 sent, trips, lost, spliced>>

\* The server adds or removes the row and publishes, or refuses (deleted
\* message, block, failure), and then the list is changed back.
ToggleDone(ok) ==
  /\ toggle # NoToggle
  /\ IF ok /\ toggle.id \notin deleted
     THEN React("tab", toggle.id, toggle.on) /\ UNCHANGED view
     ELSE /\ view' = Mark(view, toggle.id, "me", ~toggle.on)
          /\ UNCHANGED <<reacts, outbox>>
  /\ toggle' = NoToggle
  /\ skewed' = IF Unordered("me", toggle.id) THEN skewed \cup {<<"me",
                                                                 toggle.id>>}
                                             ELSE skewed
  /\ UNCHANGED <<stored, by, deleted, gatewayVars, cursor, hasMore, fetch,
                 sent, trips, lost, spliced>>

-----------------------------------------------------------------------------
Environment ==
  \/ \E w \in Writers, m \in Msgs :
       \/ Send(w, m)
       \/ Delete(w, m)
       \/ \E on \in BOOLEAN : ReactElsewhere(w, m, on)
  \/ \E m \in Msgs : Click(m)
  \/ LeaveRoom \/ Reload \/ Resync \/ LoadMore
  \/ \E f \in fetch : FetchFails(f)

System ==
  \/ JoinRoom
  \/ Receive
  \/ \E e \in outbox : Publish(e)
  \/ \E f \in fetch : Apply(f)
  \/ \E m \in Msgs : ShowSent(m)
  \/ \E ok \in BOOLEAN : ToggleDone(ok)

Next == Environment \/ System

Spec == Init /\ [][Next]_vars
-----------------------------------------------------------------------------
TypeOK ==
  /\ Range(stored) \subseteq Msgs /\ deleted \subseteq Range(stored)
  /\ Shown \subseteq Range(stored)
  /\ sent \subseteq Range(stored)
  /\ \A i \in DOMAIN view : view[i].reacts \subseteq Users
  /\ \A f \in fetch : f.kind \in {"page", "older", "resync", "message"}

\* Nothing is under way.
Settled ==
  /\ outbox = {} /\ inRoom /\ inbox = << >>
  /\ fetch = {} /\ sent = {} /\ toggle = NoToggle

\* Once nothing is under way, the list has no hole: a stored message newer
\* than some message on screen is on screen, unless the tab was not told of
\* it (published before it joined without a cursor, sent from the same user's
\* other device, a failed fetch, older than the page fetched for a gap), a
\* newest page read earlier took it off the list, or the late event of an
\* older message put that one below the page (after a reload).
HolesExplained ==
  Settled =>
    \A i \in DOMAIN stored :
      \/ stored[i] \in deleted \cup Shown \cup lost
      \/ \A m \in Shown : Pos(m) > i

\* An entry is on screen twice only if it is the tab's own message (the send
\* appends it after a page or a resync brought it) or the list changed while
\* a page older than it was being fetched.
DuplicatesExplained ==
  \A i, j \in DOMAIN view :
    (i # j /\ view[i].id = view[j].id) => by[view[i].id] = "tab" \/ spliced

\* Once nothing is under way, the reactions on screen are those stored, unless
\* the tab could not have ordered them: two changes of one user's reaction (or
\* a change and a page) were in flight together, the event was missed, or the
\* change came from the same user's other device, whose events are skipped.
ReactionsExplained ==
  Settled =>
    \A i \in DOMAIN view : \A u \in Users :
      \/ u \in view[i].reacts <=> <<u, view[i].id>> \in reacts
      \/ <<u, view[i].id>> \in skewed
      \/ view[i].id \in deleted

\* The list, without its reactions, against the table.
ListExplained == HolesExplained /\ DuplicatesExplained
=============================================================================
