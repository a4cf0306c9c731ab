-------------------------------- MODULE Typing --------------------------------
(***************************************************************************)
(* The typing indicator of one user in one channel, as another member sees *)
(* it.  Three timers end it: the hook's and useGateway's after 3 s without *)
(* a keystroke, the server's after 5 s, the watcher's after 3.5 s.  The    *)
(* server keeps one entry per user and channel, which every socket of the  *)
(* user writes; its handler awaits the session check, so that two messages *)
(* of a socket may be handled out of order.  Time is left out: a timer     *)
(* that is armed may run out, useGateway's not in the 2 s it suppresses    *)
(* messages for.  Both ends are in the room while their sockets are open;  *)
(* a page that reconnects starts with a new socket and hook state, as the  *)
(* change of the status makes the hook start again.                        *)
(***************************************************************************)
EXTENDS Naturals, Sequences, SequencesExt

CONSTANTS
  Tabs,     \* sockets of the user who types, each used once
  MaxQueue  \* messages in flight in one direction of one socket

VARIABLES
  life,     \* socket -> "new" | "open" | "cut" (not noticed yet) | "gone"
  typing,   \* socket -> isTypingRef of the hook
  idle,     \* socket -> is the hook's stop timer armed
  timer,    \* socket -> useGateway's entry: "none" | "fresh" (suppressing) | "old"
  sent,     \* socket -> messages on their way to the handler or awaiting in it
  entry,    \* does activeTyping have the entry, with its timer
  told,     \* what the room was told last
  down,     \* messages on their way to the watcher
  shown,    \* does the watcher show the user as typing
  expiry,   \* is the watcher's timer armed
  \* Why two of these may differ:
  masked,   \* sockets whose user types and which something else has silenced
  leftover, \* the end of the typing was lost, or overtook its start
  missed,   \* the watcher's timer ran out, or its connection did, since the last message
  stuck     \* the watcher's hook has started again while the user was shown

pageVars == <<life, typing, idle, timer>>
watchVars == <<shown, expiry, missed, stuck>>
vars == <<pageVars, watchVars, sent, entry, told, down, masked, leftover>>

Init ==
  /\ life = [s \in Tabs |-> "new"]
  /\ typing = [s \in Tabs |-> FALSE] /\ idle = [s \in Tabs |-> FALSE]
  /\ timer = [s \in Tabs |-> "none"] /\ sent = [s \in Tabs |-> <<>>]
  /\ entry = FALSE /\ told = FALSE /\ down = <<>>
  /\ shown = FALSE /\ expiry = FALSE /\ missed = FALSE /\ stuck = FALSE
  /\ masked = {} /\ leftover = FALSE
-----------------------------------------------------------------------------
\* socket.volatile.emit: dropped while the transport is busy, and by the rate
\* limit of the server.
Emit(s, on) ==
  \/ /\ Len(sent[s]) < MaxQueue
     /\ sent' = [sent EXCEPT ![s] = Append(@, on)]
     /\ masked' = IF on THEN masked \ {s} ELSE masked
     /\ UNCHANGED leftover
  \/ /\ masked' = IF on THEN masked \cup {s} ELSE masked
     /\ leftover' = (leftover \/ ~on)
     /\ UNCHANGED sent

\* sendTyping(true): nothing is sent within the suppress window.
SendTrue(s) ==
  \/ timer[s] = "fresh" /\ UNCHANGED <<timer, sent, masked, leftover>>
  \/ timer[s] # "fresh" /\ timer' = [timer EXCEPT ![s] = "fresh"] /\ Emit(s, TRUE)

SendFalse(s) == timer' = [timer EXCEPT ![s] = "none"] /\ Emit(s, FALSE)

serverVars == <<entry, told, down>>

Keystroke(s) ==
  /\ life[s] = "open"
  /\ typing' = [typing EXCEPT ![s] = TRUE] /\ idle' = [idle EXCEPT ![s] = TRUE]
  /\ \/ typing[s] /\ UNCHANGED <<timer, sent, masked, leftover>>
     \/ ~typing[s] /\ SendTrue(s)
  /\ UNCHANGED <<life, serverVars, watchVars>>

\* The hook's timer, or a message has been sent.
StopTyping(s) ==
  /\ idle' = [idle EXCEPT ![s] = FALSE] /\ typing' = [typing EXCEPT ![s] = FALSE]
  /\ SendFalse(s)
  /\ UNCHANGED <<life, serverVars, watchVars>>
IdleOut(s) == idle[s] /\ StopTyping(s)
MessageSent(s) == life[s] = "open" /\ typing[s] /\ StopTyping(s)

\* useGateway's own timers.
SuppressOut(s) ==
  /\ timer[s] = "fresh" /\ timer' = [timer EXCEPT ![s] = "old"]
  /\ UNCHANGED <<life, typing, idle, sent, masked, leftover, serverVars, watchVars>>
TimerOut(s) ==
  /\ timer[s] = "old" /\ SendFalse(s)
  /\ UNCHANGED <<life, typing, idle, serverVars, watchVars>>

\* The effect of the hook starts again, as after every render of the provider:
\* its timers are cleared, and what it shows as the watcher's hook is not.
HookRestarts(s) ==
  /\ typing' = [typing EXCEPT ![s] = FALSE] /\ idle' = [idle EXCEPT ![s] = FALSE]
  /\ UNCHANGED <<life, timer, sent, masked, leftover, serverVars, watchVars>>
WatcherRestarts ==
  /\ expiry' = FALSE /\ stuck' = (stuck \/ shown)
  /\ UNCHANGED <<shown, missed, pageVars, sent, masked, leftover, serverVars>>

Connect(s) ==
  /\ life[s] = "new" /\ life' = [life EXCEPT ![s] = "open"]
  /\ UNCHANGED <<typing, idle, timer, sent, masked, leftover, serverVars, watchVars>>

Disconnect(s) ==
  /\ life[s] = "open" /\ life' = [life EXCEPT ![s] = "cut"]
  /\ typing' = [typing EXCEPT ![s] = FALSE] /\ idle' = [idle EXCEPT ![s] = FALSE]
  /\ timer' = [timer EXCEPT ![s] = "none"]
  /\ UNCHANGED <<sent, masked, leftover, serverVars, watchVars>>
-----------------------------------------------------------------------------
Broadcast(on) ==
  Len(down) < MaxQueue /\ down' = Append(down, on) /\ told' = on

\* Everybody who types in another socket than s is silenced.
Silenced(s) == {t \in Tabs : timer[t] # "none" /\ t # s}

StartsComing == \E s \in Tabs : TRUE \in Range(sent[s])

\* Faulty variant of Handle: the end of the typing leaves the timer armed.
HandleLeavingTimer(s, i) ==
  LET on == sent[s][i] IN
  /\ life[s] \in {"open", "cut"}
  /\ sent' = [sent EXCEPT ![s] = RemoveAt(@, i)]
  /\ entry' = (on \/ entry) /\ Broadcast(on)
  /\ UNCHANGED <<pageVars, watchVars, masked, leftover>>

\* The handler of gateway:typing after its await, for the i-th message.
Handle(s, i) ==
  LET on == sent[s][i] IN
  /\ life[s] \in {"open", "cut"}
  /\ sent' = [sent EXCEPT ![s] = RemoveAt(@, i)]
  /\ entry' = on
  /\ Broadcast(on)
  /\ masked' = masked \cup (IF on THEN {} ELSE Silenced(s))
                     \cup (IF i > 1 THEN {s} ELSE {})
  /\ leftover' = (i > 1 \/ (leftover /\ (on \/ StartsComing')))
  /\ UNCHANGED <<pageVars, watchVars>>

AutoStop ==
  /\ entry /\ entry' = FALSE /\ Broadcast(FALSE)
  /\ masked' = masked \cup Tabs /\ leftover' = (leftover /\ StartsComing)
  /\ UNCHANGED <<pageVars, sent, watchVars>>

\* The server notices that a socket is gone, and ends the typing of its user,
\* also when it is another socket that types.
Cleanup(s) ==
  /\ life[s] = "cut" /\ life' = [life EXCEPT ![s] = "gone"]
  /\ sent' = [sent EXCEPT ![s] = <<>>]
  /\ \/ /\ entry /\ entry' = FALSE /\ Broadcast(FALSE)
        /\ masked' = masked \cup Silenced(s)
        /\ leftover' = (leftover /\ StartsComing')
     \/ ~entry /\ UNCHANGED <<serverVars, masked, leftover>>
  /\ UNCHANGED <<typing, idle, timer, watchVars>>
-----------------------------------------------------------------------------
Receive ==
  /\ down # <<>> /\ down' = Tail(down)
  /\ shown' = Head(down) /\ expiry' = Head(down)
  /\ missed' = FALSE /\ stuck' = FALSE
  /\ UNCHANGED <<pageVars, sent, entry, told, masked, leftover>>

WatchOut ==
  /\ expiry /\ shown' = FALSE /\ expiry' = FALSE /\ missed' = TRUE
  /\ UNCHANGED <<stuck, pageVars, sent, masked, leftover, serverVars>>

\* The connection of the watcher breaks; nothing of this is replayed.
WatcherAway ==
  /\ down' = <<>> /\ expiry' = FALSE /\ missed' = TRUE /\ stuck' = (stuck \/ shown)
  /\ UNCHANGED <<shown, pageVars, sent, entry, told, masked, leftover>>

Next ==
  \/ \E s \in Tabs :
       \/ Connect(s) \/ Disconnect(s) \/ Cleanup(s) \/ HookRestarts(s)
       \/ Keystroke(s) \/ IdleOut(s) \/ MessageSent(s) \/ SuppressOut(s) \/ TimerOut(s)
       \/ \E i \in DOMAIN sent[s] : Handle(s, i)
  \/ AutoStop \/ Receive \/ WatchOut \/ WatcherAway \/ WatcherRestarts

Spec == Init /\ [][Next]_vars
-----------------------------------------------------------------------------
Quiet == \A s \in Tabs : sent[s] = <<>> /\ life[s] # "cut"

\* An armed entry is one that the room has been told of, and nothing else is:
\* so the last word of every indicator is the end of it.
EveryStartEnds == entry = told

\* Once nothing is in flight, whoever types is known to be typing, unless the
\* message was lost, the server's timer ran out, or another socket of the user
\* has stopped, or was cleaned up, since.
TypingTold ==
  Quiet => \A s \in Tabs : timer[s] # "none" /\ s \notin masked => entry

\* Nobody is left typing, unless the message that ends it was lost or handled
\* before the one that started it.
EndTold ==
  Quiet /\ entry /\ ~leftover => \E s \in Tabs : timer[s] # "none"

\* The watcher shows what the room was told last, until its own timer runs out
\* or its connection breaks; and what it shows, it takes back by itself, unless
\* its hook has started again.
WatcherAgrees ==
  /\ down = <<>> /\ ~missed => shown = told
  /\ shown => expiry \/ stuck

\* The indicator of a user is right for whoever watches, but for the named
\* reasons.
TypingAgrees == EveryStartEnds /\ TypingTold /\ EndTold /\ WatcherAgrees
=============================================================================
