------------------------------ MODULE NtfyTopic ------------------------------
(***************************************************************************)
(* The ntfy topic of one user: api/user/ntfy, the section of the settings  *)
(* pages that shows it (notifications-settings-page), and the publishers   *)
(* that read it (lib/push.ts).  A topic is the number of its generation.   *)
(***************************************************************************)
EXTENDS Naturals

CONSTANTS
  Pages,
  Senders,
  MaxTopics   \* bound on the topics generated

VARIABLES
  topic,      \* the row: its topic, 0 if there is none ...
  enabled,    \* ... and whether it is on
  used,       \* topics generated so far
  view,       \* what a page shows: "loading", "hidden", or the row it knows of
  call,       \* the request of a page, and what it has read
  send,       \* the topic a publisher has read, and whether it has changed since
  \* history
  behind      \* pages whose topic, or switch, was changed after their answer was made

ntfyVars == <<topic, enabled, used, view, call, send, behind>>

Idle == [kind |-> "none", step |-> "none", read |-> 0, on |-> FALSE]
Loading == [kind |-> "load", step |-> "ask", read |-> 0, on |-> FALSE]

Init ==
  /\ topic \in {0, 1} /\ enabled \in BOOLEAN /\ (topic = 0 => ~enabled)
  /\ used = topic
  /\ view = [p \in Pages |-> [state |-> "loading", topic |-> 0, on |-> FALSE]]
  /\ call = [p \in Pages |-> Loading]
  /\ send = [s \in Senders |-> [topic |-> 0, old |-> FALSE]]
  /\ behind = [p \in Pages |-> {}]

\* generateNtfyTopic: the chance of a collision is not modelled.
Generated == used + 1
CanGenerate == used < MaxTopics

\* Whoever has read the row before is behind by what changes now.
Overtaken(p, what) ==
  behind' = [q \in Pages |-> IF q = p THEN behind[q] ELSE behind[q] \cup what]
Retired == send' = [s \in Senders |-> [send[s] EXCEPT !.old = @ \/ send[s].topic # 0]]

Reply(p, t, on) == [call[p] EXCEPT !.step = "answer", !.read = t, !.on = on]
Refuse(p) == call' = [call EXCEPT ![p].step = "refused"]
-----------------------------------------------------------------------------
\* The buttons: one request of a page at a time (busy).
Enable(p) ==
  /\ call[p] = Idle /\ view[p].state = "shown" /\ view[p].topic = 0
  /\ call' = [call EXCEPT ![p] = [Loading EXCEPT !.kind = "enable"]]
  /\ UNCHANGED <<topic, enabled, used, view, send, behind>>

Toggle(p) ==
  /\ call[p] = Idle /\ view[p].state = "shown" /\ view[p].topic # 0
  /\ call' = [call EXCEPT ![p] = [Loading EXCEPT !.kind = "toggle", !.on = ~view[p].on]]
  /\ UNCHANGED <<topic, enabled, used, view, send, behind>>

Rotate(p) ==
  /\ call[p] = Idle /\ view[p].state = "shown" /\ view[p].topic # 0
  /\ call' = [call EXCEPT ![p] = [Loading EXCEPT !.kind = "rotate"]]
  /\ UNCHANGED <<topic, enabled, used, view, send, behind>>
-----------------------------------------------------------------------------
\* GET.
Read(p) ==
  /\ call[p].kind = "load" /\ call[p].step = "ask"
  /\ call' = [call EXCEPT ![p] = Reply(p, topic, enabled)]
  /\ behind' = [behind EXCEPT ![p] = {}]
  /\ UNCHANGED <<topic, enabled, used, view, send>>

\* POST: one upsert on the key of the row, so that two of them make one topic ...
Upsert(p) ==
  /\ call[p].kind = "enable" /\ call[p].step = "ask"
  /\ topic = 0 => CanGenerate
  /\ topic' = IF topic = 0 THEN Generated ELSE topic
  /\ used' = IF topic = 0 THEN Generated ELSE used
  /\ enabled' = TRUE
  /\ call' = [call EXCEPT ![p].step = "reread"]
  /\ Overtaken(p, {"topic", "on"})
  /\ UNCHANGED <<view, send>>

\* ... and the answer is what the row holds, whoever has written it; that it
\* is on is not read again.
Reread(p) ==
  /\ call[p].kind = "enable" /\ call[p].step = "reread"
  /\ call' = [call EXCEPT ![p] = Reply(p, topic, TRUE)]
  /\ behind' = [behind EXCEPT ![p] = IF enabled THEN {} ELSE {"on"}]
  /\ UNCHANGED <<topic, enabled, used, view, send>>

\* PUT.
Switch(p) ==
  /\ call[p].kind = "toggle" /\ call[p].step = "ask"
  /\ enabled' = IF topic = 0 THEN enabled ELSE call[p].on
  /\ call' = [call EXCEPT ![p].step = IF topic = 0 THEN "refused" ELSE "answer"]
  /\ behind' = [q \in Pages |-> IF q = p THEN behind[q] \ {"on"} ELSE behind[q] \cup {"on"}]
  /\ UNCHANGED <<topic, used, view, send>>

\* DELETE reads the topic ...
Look(p) ==
  /\ call[p].kind = "rotate" /\ call[p].step = "ask"
  /\ call' = [call EXCEPT ![p] = [@ EXCEPT !.step = IF topic = 0 THEN "refused" ELSE "update",
                                           !.read = topic]]
  /\ UNCHANGED <<topic, enabled, used, view, send, behind>>

\* Faulty variant of Replace: the answer of the loser is the topic it has read.
ReplaceOld(p) ==
  /\ call[p].kind = "rotate" /\ call[p].step = "update"
  /\ IF topic = call[p].read
     THEN /\ CanGenerate
          /\ topic' = Generated /\ used' = Generated
          /\ call' = [call EXCEPT ![p] = Reply(p, Generated, enabled)]
          /\ behind' = [q \in Pages |-> IF q = p THEN behind[q] \ {"topic"}
                                        ELSE behind[q] \cup {"topic"}]
          /\ Retired
     ELSE /\ call' = [call EXCEPT ![p] = Reply(p, call[p].read, enabled)]
          /\ behind' = [behind EXCEPT ![p] = @ \ {"topic"}]
          /\ UNCHANGED <<topic, used, send>>
  /\ UNCHANGED <<enabled, view>>

\* ... replaces it if it is still that one ...
Replace(p) ==
  /\ call[p].kind = "rotate" /\ call[p].step = "update"
  /\ IF topic = call[p].read
     THEN /\ CanGenerate
          /\ topic' = Generated /\ used' = Generated
          /\ call' = [call EXCEPT ![p] = Reply(p, Generated, enabled)]
          /\ behind' = [q \in Pages |-> IF q = p THEN behind[q] \ {"topic"}
                                        ELSE behind[q] \cup {"topic"}]
          /\ Retired
     ELSE /\ call' = [call EXCEPT ![p].step = "again"]
          /\ UNCHANGED <<topic, used, behind, send>>
  /\ UNCHANGED <<enabled, view>>

\* ... or answers what another one has made of it.
Winner(p) ==
  /\ call[p].kind = "rotate" /\ call[p].step = "again"
  /\ call' = [call EXCEPT ![p] = Reply(p, topic, enabled)]
  /\ behind' = [behind EXCEPT ![p] = @ \ {"topic"}]
  /\ UNCHANGED <<topic, enabled, used, view, send>>

\* A statement fails.
Fails(p) ==
  /\ call[p].step \in {"ask", "update", "again", "reread"}
  /\ Refuse(p)
  /\ behind' = [behind EXCEPT ![p] = IF call[p].step = "reread" THEN {"topic", "on"} ELSE @]
  /\ UNCHANGED <<topic, enabled, used, view, send>>
-----------------------------------------------------------------------------
\* What the page makes of an answer: a rotation keeps its switch, the switch
\* keeps its topic.
Answered(p) ==
  /\ call[p].step = "answer"
  /\ view' = [view EXCEPT ![p] =
       [state |-> "shown",
        topic |-> IF call[p].kind = "toggle" THEN view[p].topic ELSE call[p].read,
        on |-> IF call[p].kind = "rotate" THEN view[p].on ELSE call[p].on]]
  /\ call' = [call EXCEPT ![p] = Idle]
  /\ UNCHANGED <<topic, enabled, used, send, behind>>

\* An error, or an answer that is lost: a toast, or a section that stays away.
Unanswered(p) ==
  /\ call[p].step \in {"refused", "answer"}
  /\ view' = [view EXCEPT ![p].state = IF call[p].kind = "load" THEN "hidden" ELSE @]
  /\ call' = [call EXCEPT ![p] = Idle]
  /\ behind' = [behind EXCEPT ![p] = IF call[p].step = "answer" THEN {"topic", "on"} ELSE @]
  /\ UNCHANGED <<topic, enabled, used, send>>

\* sendPushToUser reads the topic if it is on ...
Fetch(s) ==
  /\ send[s].topic = 0 /\ enabled
  /\ send' = [send EXCEPT ![s] = [topic |-> topic, old |-> FALSE]]
  /\ UNCHANGED <<topic, enabled, used, view, call, behind>>

\* ... and publishes to it, or fails (publishNtfy).
Publish(s) ==
  /\ send[s].topic # 0
  /\ send' = [send EXCEPT ![s] = [topic |-> 0, old |-> FALSE]]
  /\ UNCHANGED <<topic, enabled, used, view, call, behind>>

Next ==
  \/ \E p \in Pages :
       \/ Enable(p) \/ Toggle(p) \/ Rotate(p)
       \/ Read(p) \/ Upsert(p) \/ Reread(p) \/ Switch(p)
       \/ Look(p) \/ Replace(p) \/ Winner(p) \/ Fails(p)
       \/ Answered(p) \/ Unanswered(p)
  \/ \E s \in Senders : Fetch(s) \/ Publish(s)

Spec == Init /\ [][Next]_ntfyVars
-----------------------------------------------------------------------------
\* The link that a page offers is the one that is published to, however many
\* pages enable and rotate it at once: what it misses is what another page
\* does after its answer was made, or an answer it has not heard.
LinkWorks ==
  \A p \in Pages : view[p].state = "shown" /\ call[p] = Idle =>
    /\ "topic" \notin behind[p] => view[p].topic = topic
    /\ "on" \notin behind[p] => view[p].on = enabled

\* A publisher uses a topic that has been given up only if that happened after
\* it read it.
PublishesThere ==
  \A s \in Senders : send[s].topic # 0 /\ ~send[s].old => send[s].topic = topic

TopicAgrees == LinkWorks /\ PublishesThere
=============================================================================
