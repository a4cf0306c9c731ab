---------------------------- MODULE TabPresence ----------------------------
(***************************************************************************)
(* The tabs of one user agree over a BroadcastChannel on the presence that *)
(* each of them sends to the gateway (use-gateway-presence.ts).  The       *)
(* effect of the hook starts again whenever the gateway context renders.   *)
(***************************************************************************)
EXTENDS Naturals, Sequences

CONSTANTS
  Tabs,
  Chosen,     \* statuses a user has chosen: subset of {"online", "dnd", "invisible"}
  MaxQueue    \* bound on the messages from one tab to another

VARIABLES
  open,
  chosen,     \* the user's status, as the tab knows it
  status,     \* tabStatusRef
  auto,       \* autoIdleRef
  others,     \* otherTabStatusesRef: "none" for a tab it does not know
  sent,       \* the aggregate it has sent last, "none" before the first
  queue,      \* messages of a tab on their way to another one
  \* history
  blind       \* <<t, u>>: what t knows of u is lost, or u went without a word

tabVars == <<open, chosen, status, auto, others, sent, queue, blind>>

None == "none"
Pairs(v) == [t \in Tabs |-> [u \in Tabs |-> v]]

Explicit(t) == chosen[t] \in {"dnd", "invisible"}
Initial(s) == IF s \in {"dnd", "invisible"} THEN s ELSE "online"

\* aggregateStatus: one invisible tab hides them all.
Aggregate(S) ==
  IF "invisible" \in S THEN "invisible"
  ELSE IF "online" \in S THEN "online"
  ELSE IF "dnd" \in S THEN "dnd" ELSE "idle"

Seen(t, own, oth) == Aggregate({own} \cup ({oth[u] : u \in Tabs \ {t}} \ {None}))

Init ==
  /\ open = [t \in Tabs |-> FALSE]
  /\ chosen = [t \in Tabs |-> "online"] /\ status = chosen
  /\ auto = [t \in Tabs |-> FALSE]
  /\ others = Pairs(None) /\ sent = [t \in Tabs |-> None]
  /\ queue = Pairs(<<>>) /\ blind = {}
-----------------------------------------------------------------------------
\* bc.postMessage: to every other tab whose channel is open.
Posted(q, t, ms) == [q EXCEPT ![t] = [u \in Tabs |->
                       IF u # t /\ open[u] THEN @[u] \o ms ELSE @[u]]]
Fits(t, n) == \A u \in Tabs : Len(queue[t][u]) + n <= MaxQueue

\* setTabStatus: the other tabs hear of it, the gateway if the aggregate changes.
SetTabStatus(t, s, idle) ==
  /\ Fits(t, 1)
  /\ status' = [status EXCEPT ![t] = s]
  /\ auto' = [auto EXCEPT ![t] = idle]
  /\ queue' = Posted(queue, t, <<s>>)
  /\ sent' = [sent EXCEPT ![t] = Seen(t, s, others[t])]
  /\ UNCHANGED <<open, chosen, others, blind>>

Sighted(t) == {p \in blind : p[1] # t}

\* The effect starts: a fresh channel, the status the refs hold, and then the
\* initial one.  Messages for the old channel are lost with it.
Start(t, s, own) ==
  /\ Fits(t, 2)
  /\ open' = [open EXCEPT ![t] = TRUE]
  /\ chosen' = [chosen EXCEPT ![t] = s]
  /\ status' = [status EXCEPT ![t] = Initial(s)]
  /\ auto' = [auto EXCEPT ![t] = FALSE]
  /\ others' = [others EXCEPT ![t] = [u \in Tabs |-> None]]
  /\ sent' = [sent EXCEPT ![t] = Initial(s)]
  /\ queue' = [u \in Tabs |-> [Posted(queue, t, <<own, Initial(s)>>)[u] EXCEPT ![t] = <<>>]]

\* A page that is opened has an identity of its own.
Gone(t, u) == others[u][t] = None /\ queue[t][u] = <<>> /\ <<u, t>> \notin blind

Open(t, s) ==
  /\ ~open[t] /\ \A u \in Tabs : Gone(t, u)
  /\ Start(t, s, Initial(s))
  /\ UNCHANGED blind

\* The status or the context value changes: the cleanup posts no "tab-closing",
\* and forgets the others, who know this tab already and do not reply to it.
Restart(t, s) ==
  /\ open[t]
  /\ Start(t, s, IF s \in {"dnd", "invisible"} THEN s ELSE status[t])
  /\ blind' = Sighted(t) \cup {<<t, u>> : u \in {v \in Tabs \ {t} : open[v]}}

\* The page is gone, and with it what it had in memory.
End(t, ms) ==
  /\ open[t] /\ Fits(t, Len(ms))
  /\ open' = [open EXCEPT ![t] = FALSE]
  /\ others' = [others EXCEPT ![t] = [u \in Tabs |-> None]]
  /\ sent' = [sent EXCEPT ![t] = None]
  /\ status' = [status EXCEPT ![t] = "online"] /\ chosen' = [chosen EXCEPT ![t] = "online"]
  /\ auto' = [auto EXCEPT ![t] = FALSE]
  /\ queue' = [u \in Tabs |-> [Posted(queue, t, ms)[u] EXCEPT ![t] = <<>>]]

\* Faulty variant of Close: the others are not told.
CloseQuiet(t) ==
  /\ End(t, <<>>)
  /\ blind' = Sighted(t)

\* beforeunload.
Close(t) ==
  /\ End(t, <<"closing">>)
  /\ blind' = Sighted(t)

\* The tab is killed, or its user signed out: nobody is told.
Vanish(t) ==
  /\ End(t, <<>>)
  /\ blind' = Sighted(t) \cup {<<u, t>> : u \in {v \in Tabs \ {t} : open[v]}}
-----------------------------------------------------------------------------
\* checkIdle, a while after the last activity.
CheckIdle(t) ==
  /\ open[t] /\ ~Explicit(t) /\ status[t] # "idle"
  /\ SetTabStatus(t, "idle", TRUE)

Activity(t) ==
  /\ open[t] /\ auto[t] /\ status[t] = "idle"
  /\ SetTabStatus(t, "online", FALSE)

\* onVisibilityChange.
Hide(t) ==
  /\ open[t] /\ status[t] = "online"
  /\ SetTabStatus(t, "idle", TRUE)

Show(t) ==
  LET s == IF Explicit(t) THEN chosen[t] ELSE "online"
  IN  open[t] /\ status[t] # s /\ SetTabStatus(t, s, FALSE)

\* bc.onmessage: a peer it has not known gets a reply.
Receive(u, t) ==
  /\ queue[u][t] # <<>>
  /\ LET m == Head(queue[u][t])
         new == m # "closing" /\ others[t][u] = None
         rest == [queue EXCEPT ![u][t] = Tail(@)]
         oth == [others[t] EXCEPT ![u] = IF m = "closing" THEN None ELSE m]
     IN  /\ new => Fits(t, 1)
         /\ queue' = IF new THEN Posted(rest, t, <<status[t]>>) ELSE rest
         /\ others' = [others EXCEPT ![t] = oth]
         /\ sent' = [sent EXCEPT ![t] = Seen(t, status[t], oth)]
         /\ blind' = IF open[u] \/ m = "closing" THEN blind \ {<<t, u>>} ELSE blind
  /\ UNCHANGED <<open, chosen, status, auto>>

Next ==
  \/ \E t \in Tabs, s \in Chosen : Open(t, s) \/ Restart(t, s)
  \/ \E t \in Tabs : \/ Close(t) \/ Vanish(t) \/ CheckIdle(t)
                     \/ Activity(t) \/ Hide(t) \/ Show(t)
  \/ \E t, u \in Tabs : Receive(u, t)

Spec == Init /\ [][Next]_tabVars
-----------------------------------------------------------------------------
\* Once their messages have arrived, every tab has sent the aggregate of all
\* tabs, whichever opened, closed, went idle or came back in between: but for
\* a tab that has started its effect again, which has forgotten its peers, and
\* one whose peer went without a word.
TabsAgree ==
  queue = Pairs(<<>>) =>
    \A t \in Tabs : open[t] /\ Sighted(t) = blind =>
      sent[t] = Aggregate({status[u] : u \in {v \in Tabs : open[v]}})
=============================================================================
