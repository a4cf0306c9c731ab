------------------------------- MODULE CallRing -------------------------------
(***************************************************************************)
(* Ringing in a direct or group channel: the hook useDMCall of one page    *)
(* per member, and the signals the gateway relays to the other pages.      *)
(* Signals name their sender and not the ring they are about.  They may be *)
(* lost (a limit, a session that is not valid, a page that is not in the   *)
(* room) and, since the handler awaits the session check, overtake each    *)
(* other.  The timers of 30 and 35 seconds may run out when armed.         *)
(***************************************************************************)
EXTENDS Naturals, FiniteSets, Sequences, SequencesExt

CONSTANTS
  Members,   \* the members of a group channel
  Couple,    \* two of them, who have a direct channel
  MaxInvites,\* bound: invites sent
  MaxFaults, \* bound: signals lost, overtaken, pages left, hooks started again
  MaxQueue   \* bound: signals on their way to one page

None == "none"

VARIABLES
  there,      \* the members of the channel: Couple or Members
  toast,      \* page -> whose call its toast announces, or None
  toastTimer, \* page -> is the toast's timer armed
  ringing,    \* page -> is it ringing the others
  ringTimer,  \* page -> is the ring's timer armed
  declined,   \* page -> who has declined its ring
  active,     \* page -> does it show the call
  inbox,      \* page -> signals on their way to it
  invites, faults,
  \* Why pages may disagree:
  unheard,    \* <<caller, page>>: since the caller's last invite a signal of
              \* theirs was lost or overtaken, or the toast replaced or timed out
  silent,     \* callers whose last ring ended without a cancel
  parted,     \* pages whose call the others have left, or never came to
  stranded    \* <<page, timer>>: the hook has started again since it was armed

timers == <<toastTimer, ringTimer, stranded>>
vars == <<there, toast, ringing, declined, active, inbox, invites, faults, unheard, silent, parted, timers>>

Init ==
  /\ there \in {Couple, Members}
  /\ toast = [p \in Members |-> None] /\ toastTimer = [p \in Members |-> FALSE]
  /\ ringing = [p \in Members |-> FALSE] /\ ringTimer = [p \in Members |-> FALSE]
  /\ declined = [p \in Members |-> {}]
  /\ active = [p \in Members |-> FALSE]
  /\ inbox = [p \in Members |-> <<>>]
  /\ invites = 0 /\ faults = 0
  /\ unheard = {} /\ silent = {} /\ parted = {} /\ stranded = {}

Others(p) == there \ {p}
Fault == faults < MaxFaults /\ faults' = faults + 1
Pairs(p, q) == {<<p, q>>, <<q, p>>}
InCall == {p \in there : active[p]}
-----------------------------------------------------------------------------
\* sendCallSignal: the gateway relays it to the pages in the room.
Send(p, type, got) ==
  /\ \A q \in got : Len(inbox[q]) < MaxQueue
  /\ IF got = Others(p) THEN UNCHANGED faults ELSE Fault
  /\ inbox' = [q \in Members |->
                 IF q \in got THEN Append(inbox[q], [from |-> p, type |-> type]) ELSE inbox[q]]

Lost(p, got) == UNION {Pairs(p, q) : q \in Others(p) \ got}

\* Whoever has, or sends, a signal about an earlier ring of p.
Behind(p) == {q \in Others(p) : \/ \E i \in DOMAIN inbox[q] : inbox[q][i].from = p
                               \/ \E i \in DOMAIN inbox[p] : inbox[p][i].from = q}

\* Faulty variant of StopRinging: the timer of a ring outlives it.
StopRingingKeepingTimer(p) ==
  /\ ringing' = [ringing EXCEPT ![p] = FALSE]
  /\ declined' = [declined EXCEPT ![p] = {}]
  /\ UNCHANGED ringTimer

\* stopRinging
StopRinging(p) ==
  /\ ringing' = [ringing EXCEPT ![p] = FALSE]
  /\ ringTimer' = [ringTimer EXCEPT ![p] = FALSE]
  /\ declined' = [declined EXCEPT ![p] = {}]

\* clearIncoming
ClearIncoming(p) ==
  /\ toast' = [toast EXCEPT ![p] = None]
  /\ toastTimer' = [toastTimer EXCEPT ![p] = FALSE]

incoming == <<toast, toastTimer>>
outgoing == <<ringing, ringTimer, declined>>
-----------------------------------------------------------------------------
\* The buttons that call, which are disabled otherwise; the toast and the
\* overlay, which are shown below a call.
Callable(p) == ~ringing[p] /\ ~active[p]
Answerable(p) == toast[p] # None /\ ~active[p]
Cancellable(p) == ringing[p] /\ ~active[p]

StartCall(p) ==
  /\ Callable(p)
  /\ invites + Cardinality(there) - 1 <= MaxInvites
  /\ \E got \in SUBSET Others(p) :
       /\ Send(p, "invite", got)
       /\ unheard' = (unheard \ ({p} \X got)) \cup ({p} \X ((Others(p) \ got) \cup Behind(p)))
  /\ ringing' = [ringing EXCEPT ![p] = TRUE]
  /\ ringTimer' = [ringTimer EXCEPT ![p] = TRUE]
  /\ declined' = [declined EXCEPT ![p] = {}]
  /\ invites' = invites + Cardinality(there) - 1
  /\ silent' = silent \ {p} /\ stranded' = stranded \ {<<p, "ring">>}
  /\ UNCHANGED <<incoming, active, parted>>

\* The overlay's button, or 30 seconds without an answer.
GiveUp(p) ==
  /\ StopRinging(p)
  /\ \E got \in SUBSET Others(p) : Send(p, "cancel", got) /\ unheard' = unheard \cup Lost(p, got)
  \* Who has just accepted comes to a call that nobody else is in.
  /\ parted' = parted \cup InCall
  /\ UNCHANGED <<incoming, active, invites, silent, stranded>>
CancelCall(p) == Cancellable(p) /\ GiveUp(p)
RingTimeout(p) == ringTimer[p] /\ GiveUp(p)

AcceptCall(p) ==
  LET c == toast[p] IN
  /\ Answerable(p)
  /\ ClearIncoming(p)
  /\ active' = [active EXCEPT ![p] = TRUE]
  /\ \E got \in SUBSET Others(p) :
       /\ Send(p, "accept", got)
       /\ unheard' = unheard \cup Lost(p, got) \cup {<<c, p>>}
       /\ parted' = IF InCall # {} \/ (ringing[c] /\ c \in got)
                    THEN parted \ {p} ELSE parted \cup {p}
  /\ UNCHANGED <<outgoing, invites, silent, stranded>>

DeclineCall(p) ==
  /\ Answerable(p)
  /\ ClearIncoming(p)
  /\ \E got \in SUBSET Others(p) :
       /\ Send(p, "decline", got)
       /\ unheard' = unheard \cup Lost(p, got)
  /\ UNCHANGED <<outgoing, active, invites, silent, parted, stranded>>

\* Hanging up, or the end of a 1:1 call because the other one has left.
EndCall(p) ==
  /\ active[p] /\ active' = [active EXCEPT ![p] = FALSE]
  /\ parted' = parted \cup Others(p)
  /\ UNCHANGED <<incoming, outgoing, inbox, invites, faults, unheard, silent, stranded>>

ToastTimeout(p) ==
  /\ toastTimer[p] /\ ClearIncoming(p)
  /\ unheard' = unheard \cup Pairs(toast[p], p)
  /\ UNCHANGED <<outgoing, active, inbox, invites, faults, silent, parted, stranded>>

\* The effect of the hook starts again with the gateway's context, as at every
\* change of the connection's status.
Restart(p) ==
  /\ Fault
  /\ toastTimer' = [toastTimer EXCEPT ![p] = FALSE]
  /\ ringTimer' = [ringTimer EXCEPT ![p] = FALSE]
  /\ stranded' = stranded \cup {<<p, "ring">>, <<p, "toast">>}
  /\ UNCHANGED <<toast, ringing, declined, active, inbox, invites, unheard, silent, parted>>
\* The page is left and opened again: nothing is sent, and what was on its way
\* finds no listener.
Leave(p) ==
  /\ Fault
  /\ StopRinging(p) /\ ClearIncoming(p)
  /\ active' = [active EXCEPT ![p] = FALSE]
  /\ inbox' = [inbox EXCEPT ![p] = <<>>]
  /\ unheard' = unheard \cup UNION {Pairs(p, q) : q \in Others(p)}
  /\ parted' = parted \cup Others(p)
  /\ UNCHANGED <<invites, silent, stranded>>
-----------------------------------------------------------------------------
Invited(p, from) ==
  /\ toast' = [toast EXCEPT ![p] = from] /\ toastTimer' = [toastTimer EXCEPT ![p] = TRUE]
  /\ unheard' = IF toast[p] \in {None, from} THEN unheard
                ELSE unheard \cup {<<toast[p], p>>}
  /\ stranded' = stranded \ {<<p, "toast">>}
  /\ UNCHANGED <<outgoing, active, silent, parted>>

Cancelled(p, from) ==
  /\ IF toast[p] = from THEN ClearIncoming(p) ELSE UNCHANGED incoming
  /\ UNCHANGED <<outgoing, active, unheard, silent, parted, stranded>>

Accepted(p, from) ==
  /\ IF ringing[p]
     THEN /\ StopRinging(p)
          /\ active' = [active EXCEPT ![p] = TRUE]
          /\ silent' = silent \cup {p}
          /\ parted' = IF InCall \ {p} # {} THEN parted \ {p} ELSE parted \cup {p}
     ELSE UNCHANGED <<outgoing, active, silent, parted>>
  /\ UNCHANGED <<incoming, unheard, stranded>>

\* A ring ends when everybody has declined it.
Declined(p, from) ==
  LET all == declined[p] \cup {from} IN
  /\ CASE ~ringing[p] -> UNCHANGED <<outgoing, silent, parted>>
       [] ringing[p] /\ Cardinality(all) < Cardinality(there) - 1 ->
            /\ declined' = [declined EXCEPT ![p] = all]
            /\ UNCHANGED <<ringing, ringTimer, silent, parted>>
       [] OTHER ->
            /\ StopRinging(p) /\ silent' = silent \cup {p}
            /\ parted' = parted \cup InCall
  /\ UNCHANGED <<incoming, active, unheard, stranded>>

\* A signal arrives; the i-th has overtaken those before it.
Receive(p, i) ==
  LET m == inbox[p][i]
      behind == {inbox[p][j].from : j \in 1..(i - 1)} IN
  /\ inbox' = [inbox EXCEPT ![p] = RemoveAt(@, i)]
  /\ \/ m.type = "invite" /\ Invited(p, m.from)
     \/ m.type = "cancel" /\ Cancelled(p, m.from)
     \/ m.type = "accept" /\ Accepted(p, m.from)
     \/ m.type = "decline" /\ Declined(p, m.from)
  /\ m.from \notin behind
  /\ UNCHANGED <<invites, faults>>

\* The check of the session takes longer for one signal than for the next one
\* of the same sender.
Overtake(p, i) ==
  /\ Fault
  /\ i < Len(inbox[p]) /\ inbox[p][i].from = inbox[p][i + 1].from
  /\ inbox' = [inbox EXCEPT ![p] = [@ EXCEPT ![i] = inbox[p][i + 1], ![i + 1] = inbox[p][i]]]
  /\ unheard' = unheard \cup Pairs(inbox[p][i].from, p)
  /\ UNCHANGED <<toast, ringing, declined, active, invites, silent, parted, timers>>

Next ==
  /\ UNCHANGED there
  /\ \E p \in there :
     \/ StartCall(p) \/ CancelCall(p) \/ RingTimeout(p) \/ AcceptCall(p) \/ DeclineCall(p)
     \/ EndCall(p) \/ ToastTimeout(p) \/ Restart(p) \/ Leave(p)
     \/ \E i \in DOMAIN inbox[p] : Receive(p, i) \/ Overtake(p, i)

Spec == Init /\ [][Next]_vars
-----------------------------------------------------------------------------
Quiet == \A p \in Members : inbox[p] = <<>>

\* A timer belongs to the ring or the toast of now, and each of these has one
\* unless the hook has started again since.
TimersBelong ==
  \A p \in Members :
    /\ ringTimer[p] => ringing[p]
    /\ toastTimer[p] => toast[p] # None
    /\ ringing[p] => ringTimer[p] \/ <<p, "ring">> \in stranded
    /\ toast[p] # None => toastTimer[p] \/ <<p, "toast">> \in stranded

\* Whoever is rung hears it until they answer.
RingHeard ==
  Quiet => \A c \in Members : ringing[c] =>
    \A p \in Others(c) :
      toast[p] = c \/ p \in declined[c] \/ <<c, p>> \in unheard

\* A toast is taken back when the ring is over, unless the ring ended with the
\* answers of other members.
ToastTrue ==
  Quiet => \A p \in Members : toast[p] # None =>
    ringing[toast[p]] \/ toast[p] \in silent \/ <<toast[p], p>> \in unheard

\* Nobody sits in a call alone, unless the others have left it, or the ring was
\* over when it was accepted.
CallShared ==
  Quiet => \A p \in InCall \ parted : InCall # {p}

RingsAgree == TimersBelong /\ RingHeard /\ ToastTrue /\ CallShared
=============================================================================
