-------------------------- MODULE ConnectionStatus --------------------------
(***************************************************************************)
(* The banner of a page whose connection is unhealthy                      *)
(* (use-connection-status.ts, connection-banner.tsx), which hears of the   *)
(* socket by the events that use-gateway.ts dispatches.  Its state is that *)
(* of the page; its listeners and timers are those of a mounted banner.    *)
(* The delays, and the failures they grow with, are not modelled.          *)
(***************************************************************************)
VARIABLES
  onLine,     \* navigator.onLine
  socket,     \* the gateway socket is connected
  internal,   \* internalState
  visible,    \* visibleState
  grace,      \* graceTimer runs
  retry,      \* reconnectTimer runs
  mounted,    \* the banner is
  \* history
  ever,       \* the socket has been connected
  missed,     \* something has happened that no banner has heard or shown
  blip        \* the network came or went by itself, the socket has stayed

statusVars == <<onLine, socket, internal, visible, grace, retry, mounted, ever, missed, blip>>

Init ==
  /\ onLine \in BOOLEAN /\ socket = FALSE
  /\ internal = "connected" /\ visible = "connected"
  /\ grace = FALSE /\ retry = FALSE /\ mounted = FALSE
  /\ ever = FALSE /\ missed = FALSE /\ blip = FALSE

\* Faulty variant of SetState: good news waits like the bad.
SetStateLate(s) == internal' = s /\ grace' = TRUE /\ UNCHANGED visible

\* setState: "connected" at once, anything else after a while.
SetState(s) ==
  /\ internal' = s
  /\ visible' = IF s = "connected" THEN "connected" ELSE visible
  /\ grace' = (s # "connected")

\* scheduleReconnect, after setState(s), if its timer does not run already.
Schedule(s) ==
  /\ SetState(IF retry THEN s ELSE "reconnecting")
  /\ retry' = TRUE

Unheard == missed' = TRUE /\ UNCHANGED <<internal, visible, grace, retry, blip>>
-----------------------------------------------------------------------------
\* The socket: its own attempts, whatever the page does.
Connect ==
  /\ ~socket
  /\ socket' = TRUE /\ ever' = TRUE
  /\ IF mounted
     THEN /\ SetState("connected") /\ retry' = FALSE
          /\ missed' = FALSE /\ blip' = FALSE
     ELSE Unheard
  /\ UNCHANGED <<onLine, mounted>>

Disconnect ==
  /\ socket
  /\ socket' = FALSE
  /\ IF mounted
     THEN /\ IF onLine THEN Schedule("disconnected") ELSE SetState("offline") /\ UNCHANGED retry
          /\ missed' = FALSE /\ blip' = FALSE
     ELSE Unheard
  /\ UNCHANGED <<onLine, mounted, ever>>

\* "online" and "offline" of the browser.
Online ==
  /\ ~onLine
  /\ onLine' = TRUE
  /\ IF mounted
     THEN /\ SetState("reconnecting") /\ retry' = FALSE
          /\ missed' = FALSE /\ blip' = socket
     ELSE Unheard
  /\ UNCHANGED <<socket, mounted, ever>>

Offline ==
  /\ onLine
  /\ onLine' = FALSE
  /\ IF mounted
     THEN /\ SetState("offline") /\ retry' = FALSE
          /\ missed' = FALSE /\ blip' = socket
     ELSE Unheard
  /\ UNCHANGED <<socket, mounted, ever>>
-----------------------------------------------------------------------------
\* The banner has a button unless it says that the page is reconnecting.
CanRetry == mounted /\ visible \in {"offline", "disconnected"}

\* The Retry button: nothing listens to the event that it dispatches.
Retry ==
  /\ CanRetry
  /\ IF onLine THEN SetState("reconnecting") /\ retry' = FALSE
     ELSE SetState("reconnecting") /\ retry' = TRUE
  /\ UNCHANGED <<onLine, socket, mounted, ever, missed, blip>>

GraceOver ==
  /\ grace
  /\ grace' = FALSE
  /\ visible' = IF internal # "connected" THEN internal ELSE visible
  /\ UNCHANGED <<onLine, socket, internal, retry, mounted, ever, missed, blip>>

RetryTimer ==
  /\ retry
  /\ retry' = FALSE
  /\ IF onLine THEN UNCHANGED <<internal, visible, grace>> ELSE SetState("offline")
  /\ UNCHANGED <<onLine, socket, mounted, ever, missed, blip>>

\* The chat area opens: a page without a network says so.
Mount ==
  /\ ~mounted
  /\ mounted' = TRUE
  /\ IF onLine THEN UNCHANGED <<internal, visible, grace, missed, blip>>
     ELSE SetState("offline") /\ missed' = FALSE /\ blip' = socket
  /\ UNCHANGED <<onLine, socket, retry, ever>>

\* It closes: both timers are cancelled, the states stay.
Unmount ==
  /\ mounted
  /\ mounted' = FALSE /\ grace' = FALSE /\ retry' = FALSE
  /\ missed' = (missed \/ grace)
  /\ UNCHANGED <<onLine, socket, internal, visible, ever, blip>>

Next ==
  \/ Connect \/ Disconnect \/ Online \/ Offline
  \/ Retry \/ GraceOver \/ RetryTimer \/ Mount \/ Unmount

Spec == Init /\ [][Next]_statusVars
-----------------------------------------------------------------------------
\* When no timer runs, a page shows a banner if and only if its socket is not
\* connected, and it says "no internet" if and only if that is so: unless
\* something has happened while no banner was there, the network has come or
\* gone under a connected socket, or the first connection is not made yet.
BannerExplained ==
  mounted /\ ~grace /\ ~retry /\ ever /\ ~missed /\ ~blip =>
    /\ visible = "connected" <=> socket
    /\ visible = "offline" <=> ~socket /\ ~onLine
=============================================================================
