---------------------------- MODULE ChannelPermits ----------------------------
(***************************************************************************)
(* What the gateway promises of its rooms, without sockets' states,        *)
(* replicas or evictions: nobody listens to a channel but on a permit that *)
(* was issued while its user was allowed to, a permit is for one request   *)
(* of one client, and it does not stay around.                             *)
(***************************************************************************)
CONSTANTS
  Clients, Requests, Channels

VARIABLES
  allowed,    \* <<client, channel>>: may listen
  permits,    \* per client and request, the channels it may still enter
  listening   \* <<client, channel>>: listens

permitVars == <<allowed, permits, listening>>

Init ==
  /\ allowed \in SUBSET (Clients \X Channels)
  /\ permits = [s \in Clients |-> [k \in Requests |-> {}]]
  /\ listening = {}

\* A request is answered with channels its client is allowed to listen to.
Issue(s, k) ==
  /\ permits[s][k] = {}
  /\ \E C \in SUBSET Channels :
       /\ {s} \X C \subseteq allowed
       /\ permits' = [permits EXCEPT ![s][k] = C]
  /\ UNCHANGED <<allowed, listening>>

\* Permits are used up by entering, or lapse.
Spend(s, k) ==
  /\ \E C \in (SUBSET permits[s][k]) \ {{}} :
       /\ permits' = [permits EXCEPT ![s][k] = @ \ C]
       /\ listening' \in {listening, listening \cup ({s} \X C)}
  /\ UNCHANGED allowed

\* Anybody may stop listening at any time.
Stop ==
  /\ listening' \in SUBSET listening
  /\ UNCHANGED <<allowed, permits>>

\* Who may listen changes, for one channel at a time.
Change(c) ==
  /\ \E S \in SUBSET Clients :
       allowed' = {p \in allowed : p[2] # c} \cup (S \X {c})
  /\ UNCHANGED <<permits, listening>>

Next ==
  \/ \E s \in Clients, k \in Requests : Issue(s, k) \/ Spend(s, k)
  \/ Stop
  \/ \E c \in Channels : Change(c)

Spec ==
  /\ Init /\ [][Next]_permitVars
  /\ \A s \in Clients, k \in Requests : WF_permitVars(Spend(s, k))
=============================================================================
