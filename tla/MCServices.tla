----------------------------- MODULE MCServices -----------------------------
(* What reaches the pages of a user beside the messages: notifications,     *)
(* who types, who calls, the call itself, and the process of the signal    *)
(* server that carries them.  The parts share no state: a behaviour of     *)
(* this module is one of one of them, and they use the variables of this   *)
(* module in turn, each under its own names.                                *)
EXTENDS Naturals, TLC

CONSTANTS
  Ids, Ops,                                  \* Notifications
  Tabs, MaxQueue,                            \* Typing, CallRing
  Callers, Couple, MaxInvites, MaxFaults,    \* CallRing
  Peers, MaxRuns,                            \* CallRoom
  Requests, Endpoints, Bodies, Clients       \* SignalServer

VARIABLES
  part,  \* the part that runs
  x1, x2, x3, x4, x5, x6, x7, x8, x9, x10, x11, x12, x13, x14, x15, x16, x17,
  x18, x19, x20, x21, x22, x23, x24, x25

\* The slots that a part leaves unused.
after14 == <<x15, x16, x17, x18, x19, x20, x21, x22, x23, x24, x25>>
after12 == <<x13, x14, after14>>
after10 == <<x11, x12, after12>>
Unused14 == x15 = "unused" /\ x16 = "unused" /\ x17 = "unused" /\
            x18 = "unused" /\ x19 = "unused" /\ x20 = "unused" /\
            x21 = "unused" /\ x22 = "unused" /\ x23 = "unused" /\
            x24 = "unused" /\ x25 = "unused"
Unused12 == x13 = "unused" /\ x14 = "unused" /\ Unused14
Unused10 == x11 = "unused" /\ x12 = "unused" /\ Unused12

vars == <<part, x1, x2, x3, x4, x5, x6, x7, x8, x9, x10, x11, x12, x13, x14, x15, x16,
         x17, x18, x19, x20, x21, x22, x23, x24, x25>>

N == INSTANCE Notifications WITH row <- x1, wire <- x2, surface <- x3,
     list <- x4, count <- x5, store <- x6, load <- x7, sync <- x8, op <- x9,
     why <- x10
T == INSTANCE Typing WITH life <- x1, typing <- x2, idle <- x3, timer <- x4,
     sent <- x5, entry <- x6, told <- x7, down <- x8, shown <- x9,
     expiry <- x10, masked <- x11, leftover <- x12, missed <- x13,
     stuck <- x14
G == INSTANCE CallRing WITH Members <- Callers, there <- x1, toast <- x2,
     toastTimer <- x3, ringing <- x4, ringTimer <- x5, declined <- x6,
     active <- x7, inbox <- x8, invites <- x9, faults <- x10, unheard <- x11,
     silent <- x12, parted <- x13, stranded <- x14
C == INSTANCE CallRoom WITH group <- x1, open <- x2, run <- x3, pc <- x4,
     video <- x5, joined <- x6, mic <- x7, cam <- x8, micRef <- x9,
     camRef <- x10, eqRef <- x11, silenced <- x12, leaving <- x13,
     status <- x14, muted <- x15, here <- x16, tiles <- x17, tracks <- x18,
     spatial <- x19, graph <- x20, early <- x21, partly <- x22,
     carried <- x23, renewed <- x24, overtaken <- x25
Z == INSTANCE SignalServer WITH Kinds <- Endpoints, env <- x1, proc <- x2,
     shutdown <- x3, sockets <- x4, asked <- x5, request <- x6, step <- x7,
     answer <- x8, effect <- x9, told <- x10, cut <- x11, dropped <- x12

Init ==
  \/ part = "inbox" /\ N!Init /\ Unused10
  \/ part = "typing" /\ T!Init /\ Unused14
  \/ part = "ringing" /\ G!Init /\ Unused14
  \/ part = "call" /\ C!Init
  \/ part = "server" /\ Z!Init /\ Unused12

Next ==
  /\ UNCHANGED part
  /\ \/ part = "inbox" /\ N!Next /\ UNCHANGED after10
     \/ part = "typing" /\ T!Next /\ UNCHANGED after14
     \/ part = "ringing" /\ G!Next /\ UNCHANGED after14
     \/ part = "call" /\ C!Next
     \/ part = "server" /\ Z!Next /\ UNCHANGED after12

Spec == Init /\ [][Next]_vars

\* What is explored of the notifications.
Explored == part = "inbox" => N!Explored

\* The names of the notifications do not matter.
Symmetry == Permutations(Ids)
-----------------------------------------------------------------------------
\* The properties of the parts, under their names there.
InboxAgrees == part = "inbox" => N!InboxAgrees
\* Who is shown typing is who types; and the process of the gateway answers
\* its callers what it did, and ends without leaving one of them behind.
GatewayAgrees == /\ part = "typing" => T!TypingAgrees
                 /\ part = "server" => Z!AnswersTrue /\ Z!OrderlyEnd
\* A ring ends for both sides, and a call is what its page shows.
CallsAgree == /\ part = "ringing" => G!RingsAgree
              /\ part = "call" => C!CallShown
=============================================================================
