-------------------------- MODULE EventReplayProofs --------------------------
(***************************************************************************)
(* HolesAccounted for every number of events and disconnects and every     *)
(* stream length, scan window and batch limit.                             *)
(*                                                                         *)
(* An event is of interest while it is due or still to be fanned out.  The *)
(* cursor is what a reconnecting client relies on, so the heart of the     *)
(* inductive invariant is what it may stand past (CursorSafe, NetSafe,     *)
(* FromSafe): only events that have reached the client or will, or that    *)
(* one of the losses has already taken or will take at their fan-out.      *)
(***************************************************************************)
EXTENDS EventReplay, TLAPS

Message == [kind : {"event", "replay", "denied"}, events : SUBSET Events]

Resume == [pc : {"idle", "started", "joined", "found", "read"},
           from : 0 .. MaxEvents, known : BOOLEAN,
           start : 0 .. MaxEvents + 1, events : SUBSET Events]

Concern == owed \cup unsent

\* It reached the client or is lost.
Fine(e) == e \in have \cup missed

\* Its fan-out will be overtaken: a later event has been fanned out.
Behind(e) == e \in unsent /\ \E f \in e + 1 .. last : f \notin unsent

\* A resume will bring it.
Coming(e) ==
  \/ /\ resume.pc \in {"started", "joined", "found"}
     /\ e > resume.from
  \/ /\ resume.pc = "read"
     /\ e \in resume.events /\ e > resume.from
  \/ \E i \in DOMAIN net : net[i].kind = "replay" /\ e \in net[i].events

\* It is not going to be a hole.
Safe(e) == Fine(e) \/ Coming(e) \/ Behind(e)

\* Where the variables stand to each other.
Shape ==
  /\ net \in Seq(Message)
  /\ ~up => net = <<>> /\ ~joined /\ ~subscribe /\ resume = NoResume
  /\ resume.pc \in {"joined", "found", "read"} => joined
  /\ \A i \in DOMAIN net : net[i].kind = "denied" <=> net[i].events = {}
  /\ \A i \in DOMAIN net : net[i].events # {} => Max(net[i].events) \in net[i].events
  /\ \A i \in DOMAIN net : net[i].events \subseteq 1 .. last
  /\ resume.events \subseteq 1 .. last
  /\ resume.events # {} => Max(resume.events) \in resume.events
  /\ cursor <= last /\ resume.from <= last
  /\ owed \subseteq 1 .. last /\ unsent \subseteq 1 .. last
  /\ owed \cap unsent = {}

\* What the cursor has passed.
CursorSafe ==
  \A e \in Concern : e <= cursor => Safe(e)

\* What it will have passed after a message in flight.
NetSafe ==
  \A i \in DOMAIN net : \A e \in Concern :
    net[i].events # {} /\ e <= Max(net[i].events) =>
      \/ Safe(e)
      \/ \E j \in 1 .. i : e \in net[j].events

\* What the cursor given to a resume had passed, and what its batch passes.
FromSafe ==
  /\ resume.pc # "idle" =>
       \A e \in Concern : e <= resume.from => Fine(e) \/ Behind(e)
  /\ resume.pc = "read" /\ resume.events # {} =>
       \A e \in resume.from + 1 .. Max(resume.events) :
         e \in resume.events \/ Fine(e)

\* What is due is on its way, or will be asked for on the next connection.
OwedSafe ==
  \A e \in owed :
    \/ Fine(e) \/ Coming(e)
    \/ \E i \in DOMAIN net : e \in net[i].events
    \/ ~up /\ HasCursor /\ e > cursor

\* A client without a cursor asks for nothing, so nothing that it was to have
\* may depend on that.
Unasked ==
  ~HasCursor => \A e \in owed : Fine(e) \/ Coming(e)

ReplayInv ==
  /\ TypeOK /\ Shape
  /\ CursorSafe /\ NetSafe /\ FromSafe /\ OwedSafe /\ Unasked

-----------------------------------------------------------------------------
(* Lemmas about maxima, the stream and the messages in flight.             *)

\* The larger and the smaller of two.
LEMMA MaxOfPair ==
  ASSUME NEW a \in Int, NEW b \in Int
  PROVE  /\ Max({a, b}) = IF a >= b THEN a ELSE b
         /\ Min({a, b}) = IF a <= b THEN a ELSE b
<1>1. \E x \in {a, b} : \A y \in {a, b} : x >= y
  OBVIOUS
<1>2. \E x \in {a, b} : \A y \in {a, b} : x =< y
  OBVIOUS
<1>3. /\ Max({a, b}) \in {a, b}
      /\ \A y \in {a, b} : Max({a, b}) >= y
  BY <1>1 DEF Max
<1>4. /\ Min({a, b}) \in {a, b}
      /\ \A y \in {a, b} : Min({a, b}) =< y
  BY <1>2 DEF Min
<1> QED
  BY <1>3, <1>4

\* The largest of one, and the largest of a range.
LEMMA MaxOfOne ==
  ASSUME NEW a \in Int
  PROVE  Max({a}) = a
<1>1. \E x \in {a} : \A y \in {a} : x >= y
  OBVIOUS
<1> QED
  BY <1>1 DEF Max

LEMMA MaxOfRange ==
  ASSUME NEW a \in Int, NEW b \in Int, a <= b
  PROVE  Max(a .. b) = b
<1>1. b \in a .. b /\ \A y \in a .. b : b >= y
  OBVIOUS
<1>2. /\ Max(a .. b) \in a .. b
      /\ \A y \in a .. b : Max(a .. b) >= y
  BY <1>1 DEF Max
<1> QED
  BY <1>1, <1>2

\* The constants and the variables that count, as integers.
LEMMA Bounds ==
  /\ MaxEvents \in Int /\ MaxEvents >= 0
  /\ MaxLen \in Int /\ MaxLen >= 1
  /\ Limit \in Int /\ Limit >= 1
  BY ReplayAssumption

LEMMA Counters ==
  ASSUME TypeOK
  PROVE  /\ first \in Int /\ 1 <= first /\ first <= MaxEvents + 1
         /\ last \in Int /\ 0 <= last /\ last <= MaxEvents
         /\ cursor \in Int /\ 0 <= cursor
         /\ resume.from \in Int /\ 0 <= resume.from
         /\ unsent \subseteq Int /\ owed \subseteq Int
  BY Bounds DEF TypeOK, Events

\* The XRANGE reads entries of the stream.
LEMMA XRangeReads ==
  ASSUME TypeOK, NEW start \in 0 .. MaxEvents + 1
  PROVE  /\ XRange(start) \subseteq 1 .. last
         /\ XRange(start) # {} => Max(XRange(start)) \in XRange(start)
<1> DEFINE lo == Max({start, first})
           end == lo + Limit - 1
           hi == Min({last, end})
<1>1. lo \in Int /\ lo >= 1
  BY MaxOfPair, Bounds, Counters
<1>2. XRange(start) = lo .. hi
  BY DEF XRange
<1> HIDE DEF lo
<1>3. last \in Int /\ end \in Int
  BY <1>1, Bounds, Counters
<1> HIDE DEF end
<1>4. hi \in Int /\ hi <= last
  <2>1. Min({last, end}) = IF last <= end THEN last ELSE end
    BY <1>3, MaxOfPair
  <2> QED
    BY <1>3, <2>1
<1> HIDE DEF hi
<1>5. lo <= hi => Max(lo .. hi) = hi /\ hi \in lo .. hi
  BY <1>1, <1>4, MaxOfRange
<1>6. lo .. hi \subseteq 1 .. last
  BY <1>1, <1>3, <1>4
<1>7. lo .. hi # {} => lo <= hi
  BY <1>1, <1>4
<1> QED
  BY <1>2, <1>5, <1>6, <1>7

\* A message sent goes behind those in flight.
LEMMA Sent ==
  ASSUME NEW m \in Message, net \in Seq(Message), net' = Append(net, m)
  PROVE  /\ net' \in Seq(Message)
         /\ Len(net') = Len(net) + 1
         /\ \A i \in DOMAIN net : i \in DOMAIN net' /\ net'[i] = net[i]
         /\ Len(net') \in DOMAIN net' /\ net'[Len(net')] = m
         /\ \A i \in DOMAIN net' : i \in DOMAIN net \/ i = Len(net')
  OBVIOUS

\* A message received leaves the others in their order.
LEMMA Received ==
  ASSUME net \in Seq(Message), net # <<>>, net' = Tail(net)
  PROVE  /\ net' \in Seq(Message)
         /\ 1 \in DOMAIN net /\ Head(net) = net[1]
         /\ \A i \in DOMAIN net' : i + 1 \in DOMAIN net /\ net'[i] = net[i + 1]
         /\ \A i \in DOMAIN net : i # 1 => i - 1 \in DOMAIN net' /\ i = (i - 1) + 1
         /\ DOMAIN net \subseteq Nat \ {0} /\ DOMAIN net' \subseteq Nat \ {0}
  OBVIOUS

\* The resume of a new connection.
LEMMA Connected ==
  ASSUME NEW r, r = [NoResume EXCEPT !.pc = "started", !.from = cursor,
                                     !.known = ~astray]
  PROVE  r = [pc |-> "started", from |-> cursor, known |-> ~astray, start |-> 0,
              events |-> {}]
  BY DEF NoResume

LEMMA ResumeType ==
  /\ NoResume \in Resume
  /\ TypeOK => [pc |-> "started", from |-> cursor, known |-> ~astray,
                start |-> 0, events |-> {}] \in Resume
<1>1. NoResume \in Resume
  BY Bounds DEF NoResume, Resume
<1>2. ASSUME TypeOK
      PROVE  [pc |-> "started", from |-> cursor, known |-> ~astray,
              start |-> 0, events |-> {}] \in Resume
  <2>1. (~astray) \in BOOLEAN
    OBVIOUS
  <2> DEFINE k == ~astray
  <2> HIDE DEF k
  <2>2. k \in BOOLEAN
    BY <2>1 DEF k
  <2>3. cursor \in 0 .. MaxEvents /\ 0 \in 0 .. MaxEvents + 1
    BY <1>2, Bounds DEF TypeOK
  <2>4. [pc |-> "started", from |-> cursor, known |-> k, start |-> 0,
         events |-> {}] \in Resume
    BY <2>2, <2>3 DEF Resume
  <2> QED
    BY <2>4 DEF k
<1> QED
  BY <1>1, <1>2

\* Nothing that reached the client or was lost comes undone.
LEMMA Missed ==
  ASSUME NEW es, Miss(es), have' = have
  PROVE  /\ \A e : Fine(e) => Fine(e)'
         /\ \A e \in es : Fine(e)'
  BY DEF Miss, Fine

-----------------------------------------------------------------------------
\* Every step keeps the variables in their types.
LEMMA ReplayTypeStep ==
  ASSUME TypeOK, Shape, [Next]_vars
  PROVE  TypeOK'
<1> USE DEF Events, redis, client, history
<1>0. ASSUME NEW es \in SUBSET Events, Miss(es) PROVE missed' \in SUBSET Events
  BY <1>0 DEF Miss, TypeOK
<1>1. CASE PublishStore
  <2>1. last' = last + 1 /\ last < MaxEvents
    BY <1>1 DEF PublishStore
  <2>2. last' \in 1 .. MaxEvents /\ last' \in 0 .. MaxEvents
    BY <2>1, Bounds, Counters
  <2>3. first' \in 1 .. MaxEvents + 1
    <3> DEFINE keep == last' - MaxLen + 1
               top == Max({first, keep})
    <3>1. keep \in Int /\ keep <= MaxEvents
      BY <2>1, Bounds, Counters
    <3>2. first' \in first .. top
      BY <1>1 DEF PublishStore
    <3> HIDE DEF keep
    <3>3. top \in Int /\ top <= MaxEvents + 1
      BY <3>1, MaxOfPair, Bounds, Counters
    <3> HIDE DEF top
    <3> QED
      BY <3>2, <3>3, Bounds, Counters
  <2>4. unsent' \in SUBSET Events
    BY <1>1, <2>2 DEF PublishStore, TypeOK
  <2> QED
    BY <1>1, <2>2, <2>3, <2>4 DEF PublishStore, TypeOK
<1>2. ASSUME NEW e \in unsent, PublishFanOut(e) PROVE TypeOK'
  <2>1. e \in Events
    BY DEF TypeOK
  <2>2. net' = net \/ net' = Append(net, [kind |-> "event", events |-> {e}])
    BY <1>2 DEF PublishFanOut
  <2>3. [kind |-> "event", events |-> {e}] \in Message
    BY <2>1 DEF Message
  <2>4. \A i \in DOMAIN net' : net'[i] \in Message
    BY <2>2, <2>3, Sent DEF Shape
  <2>5. owed' \in SUBSET Events
    BY <1>2, <2>1 DEF PublishFanOut, Due, TypeOK
  <2>6. missed' \in SUBSET Events
    <3>1. PICK es \in SUBSET Events : Miss(es)
      BY <1>2, <2>1 DEF PublishFanOut
    <3> QED
      BY <3>1, <1>0
  <2> QED
    BY <1>2, <2>4, <2>5, <2>6 DEF PublishFanOut, TypeOK, Message
<1>3. ASSUME NEW e \in unsent, PublishFails(e) PROVE TypeOK'
  <2>1. e \in Events /\ {e} \in SUBSET Events
    BY DEF TypeOK
  <2>2. owed' \in SUBSET Events
    BY <1>3, <2>1 DEF PublishFails, Due, TypeOK
  <2>3. missed' \in SUBSET Events
    BY <1>0, <1>3, <2>1 DEF PublishFails
  <2> QED
    BY <1>3, <2>2, <2>3 DEF PublishFails, TypeOK
<1>4. CASE Connect
  <2>1. resume' \in Resume
    BY <1>4, Connected, ResumeType DEF Connect
  <2> QED
    BY <1>4, <2>1 DEF Connect, TypeOK, Resume
<1>5. CASE Disconnect
  <2>1. Awaited \in SUBSET Events
    <3>1. resume.from + 1 .. last \subseteq Events
      BY ReplayAssumption DEF TypeOK
    <3>2. \A i \in DOMAIN net : net[i].events \subseteq Events
      BY DEF TypeOK
    <3> QED
      BY <3>1, <3>2 DEF Awaited
  <2>2. resume' \in Resume
    BY <1>5, ResumeType DEF Disconnect
  <2>3. drops' \in 0 .. MaxDrops
    BY <1>5, ReplayAssumption DEF Disconnect, TypeOK
  <2>4. missed' \in SUBSET Events
    BY <1>0, <1>5, <2>1 DEF Disconnect
  <2>5. DOMAIN net' = {}
    BY <1>5 DEF Disconnect
  <2> HIDE DEF Events
  <2> QED
    BY <1>5, <2>2, <2>3, <2>4, <2>5 DEF Disconnect, TypeOK, Resume
<1>6. CASE Subscribe
  BY <1>6 DEF Subscribe, TypeOK
<1>7. CASE SubscribeStep
  <2>1. CASE SubscribeJoin \/ SubscribeLimited
    BY <2>1 DEF SubscribeJoin, SubscribeLimited, TypeOK
  <2>2. CASE SubscribeDenied
    <3>1. [kind |-> "denied", events |-> {}] \in Message
      BY DEF Message
    <3>2. \A i \in DOMAIN net' : net'[i] \in Message
      BY <2>2, <3>1, Sent DEF Shape, SubscribeDenied
    <3> QED
      BY <2>2, <3>2 DEF SubscribeDenied, TypeOK, Message
  <2> QED
    BY <1>7, <2>1, <2>2 DEF SubscribeStep
<1>8. CASE ResumeJoin
  BY <1>8 DEF ResumeJoin, TypeOK
<1>9. CASE ResumeRefused
  <2>1. resume' \in Resume
    BY <1>9, ResumeType DEF ResumeRefused
  <2>2. resume.from + 1 .. last \in SUBSET Events
    BY ReplayAssumption DEF TypeOK
  <2>3. missed' \in SUBSET Events
    BY <1>0, <1>9, <2>2 DEF ResumeRefused
  <2> QED
    BY <1>9, <2>1, <2>3 DEF ResumeRefused, TypeOK, Resume
<1>10. CASE ResumeFind
  <2>1. RangeStart(resume.from, resume.known) \in 0 .. MaxEvents + 1
    <3>1. resume.from \in 0 .. MaxEvents
      BY DEF TypeOK
    <3> QED
      BY <3>1, Bounds DEF RangeStart
  <2> HIDE DEF Events
  <2>2. resume' = [resume EXCEPT !.pc = "found",
                                 !.start = RangeStart(resume.from, resume.known)]
    BY <1>10 DEF ResumeFind
  <2>3. resume' \in Resume
    BY <2>1, <2>2 DEF TypeOK, Resume
  <2> QED
    BY <1>10, <2>3 DEF ResumeFind, TypeOK, Resume
<1>11. ASSUME NEW R, R \subseteq 1 .. last, Returns(R) PROVE TypeOK'
  <2>1. R \in SUBSET Events /\ (resume.from + 1 .. last) \ R \in SUBSET Events
    BY ReplayAssumption, <1>11 DEF TypeOK
  <2>2. resume' \in Resume
    <3>1. resume \in Resume
      BY DEF TypeOK, Resume
    <3>2. resume' = [resume EXCEPT !.pc = "read", !.events = R]
      BY <1>11 DEF Returns
    <3> QED
      BY <2>1, <3>1, <3>2 DEF Resume
  <2>3. missed' \in SUBSET Events
    BY <1>0, <1>11, <2>1 DEF Returns
  <2> QED
    BY <1>11, <2>2, <2>3 DEF Returns, TypeOK, Resume
<1>12. CASE ResumeRange
  BY <1>11, <1>12, XRangeReads DEF ResumeRange, TypeOK
<1>13. CASE ResumeReadFails
  BY <1>11, <1>13 DEF ResumeReadFails
<1>14. CASE ResumeEmit
  <2>1. [kind |-> "replay", events |-> resume.events] \in Message
    BY DEF Message, TypeOK
  <2>2. \A i \in DOMAIN net' : net'[i] \in Message
    BY <1>14, <2>1, Sent DEF Shape, ResumeEmit
  <2>3. resume' \in Resume
    BY <1>14, ResumeType DEF ResumeEmit
  <2> QED
    BY <1>14, <2>2, <2>3 DEF ResumeEmit, TypeOK, Message, Resume
<1>15. CASE ReceiveEvents
  <2>1. /\ \A i \in DOMAIN net' : net'[i] \in Message
        /\ 1 \in DOMAIN net /\ Head(net) = net[1]
    BY <1>15, Received DEF ReceiveEvents, Receive, Shape
  <2>2. net[1].events \subseteq Events
    BY <2>1 DEF TypeOK
  <2>3. Max(net[1].events) \in net[1].events
    BY <1>15, <2>1 DEF Shape, ReceiveEvents, Receive
  <2>4. cursor' \in 0 .. MaxEvents /\ have' \in SUBSET Events /\ missed' \in SUBSET Events
    <3>1. /\ cursor' = Max(net[1].events)
          /\ have' = have \cup net[1].events /\ missed' = missed \ net[1].events
      BY <1>15, <2>1 DEF ReceiveEvents
    <3>2. Max(net[1].events) \in Events
      BY <2>2, <2>3
    <3>3. cursor' \in Events /\ have' \in SUBSET Events /\ missed' \in SUBSET Events
      BY <2>2, <3>1, <3>2 DEF TypeOK
    <3> QED
      BY <3>3, Bounds
  <2> HIDE DEF Events
  <2> QED
    BY <1>15, <2>1, <2>4 DEF ReceiveEvents, TypeOK, Message
<1>16. CASE ReceiveDenied
  <2>1. \A i \in DOMAIN net' : net'[i] \in Message
    BY <1>16, Received DEF ReceiveDenied, Receive, Shape
  <2>2. cursor + 1 .. last \in SUBSET Events
    BY ReplayAssumption DEF TypeOK
  <2>3. missed' \in SUBSET Events
    BY <1>0, <1>16, <2>2 DEF ReceiveDenied
  <2>4. cursor' \in 0 .. MaxEvents
    BY <1>16, Bounds DEF ReceiveDenied
  <2> QED
    BY <1>16, <2>1, <2>3, <2>4 DEF ReceiveDenied, TypeOK, Message
<1>17. CASE ReceiveTransient
  BY <1>17 DEF ReceiveTransient, TypeOK
<1>18. CASE UNCHANGED vars
  BY <1>18 DEF vars, TypeOK
<1> QED
  BY <1>1, <1>2, <1>3, <1>4, <1>5, <1>6, <1>7, <1>8, <1>9, <1>10, <1>12, <1>13,
     <1>14, <1>15, <1>16, <1>17, <1>18 DEF Next, ReceiveStep

-----------------------------------------------------------------------------
(* One lemma per action: it keeps the invariant.                           *)

\* A new entry is later than everything the invariant is about.
LEMMA PublishStoreStep ==
  ASSUME ReplayInv, TypeOK', PublishStore
  PROVE  ReplayInv'
<1>1. /\ last' = last + 1 /\ unsent' = unsent \cup {last'}
      /\ UNCHANGED <<joined, subscribe, resume, net, up, cursor, astray, have,
                     owed, missed>>
  BY DEF PublishStore, client, history
<1>2. Concern' = Concern \cup {last'} /\ Concern \subseteq 1 .. last
  BY <1>1 DEF Concern, ReplayInv, Shape
<1>3. \A e : (Fine(e) => Fine(e)') /\ (Coming(e) => Coming(e)')
  BY <1>1 DEF Fine, Coming
<1>4. ASSUME NEW e \in Concern, Behind(e) PROVE Behind(e)'
  <2>1. PICK f \in e + 1 .. last : f \notin unsent
    BY <1>4 DEF Behind
  <2>2. f \in e + 1 .. last' /\ f \notin unsent'
    BY <1>1, <1>2, <2>1, Counters DEF ReplayInv
  <2> QED
    BY <1>1, <1>4, <2>2 DEF Behind
<1>5. \A e \in Concern : Safe(e) => Safe(e)'
  BY <1>3, <1>4 DEF Safe
<1>6. Shape'
  <2>1. 1 .. last \subseteq 1 .. last' /\ last' \in 1 .. last' /\ last' \notin 1 .. last
    BY <1>1, Counters DEF ReplayInv
  <2>2. cursor <= last' /\ resume.from <= last'
    BY <1>1, Counters DEF ReplayInv, Shape
  <2> QED
    BY <1>1, <2>1, <2>2 DEF Shape, ReplayInv
<1>7. CursorSafe'
  <2>1. ~(last' <= cursor')
    BY <1>1, Counters DEF ReplayInv, Shape
  <2> QED
    BY <1>1, <1>2, <1>5, <2>1 DEF CursorSafe, ReplayInv
<1>8. NetSafe'
  <2>1. ASSUME NEW i \in DOMAIN net, net[i].events # {}
        PROVE  ~(last' <= Max(net[i].events))
    <3>1. Max(net[i].events) \in 1 .. last
      BY <2>1 DEF ReplayInv, Shape
    <3> QED
      BY <1>1, <3>1, Counters DEF ReplayInv
  <2> QED
    BY <1>1, <1>2, <1>5, <2>1 DEF NetSafe, ReplayInv
<1>9. FromSafe'
  <2>1. ~(last' <= resume'.from)
    BY <1>1, Counters DEF ReplayInv, Shape
  <2>2. \A e \in Concern : Fine(e) \/ Behind(e) => Fine(e)' \/ Behind(e)'
    BY <1>3, <1>4
  <2> QED
    BY <1>1, <1>2, <1>3, <2>1, <2>2 DEF FromSafe, ReplayInv
<1>10. OwedSafe' /\ Unasked'
  BY <1>1, <1>3 DEF OwedSafe, Unasked, HasCursor, ReplayInv
<1> QED
  BY <1>6, <1>7, <1>8, <1>9, <1>10 DEF ReplayInv

\* The fan-out of f or its failure leaves the other entries as they were, and
\* takes f itself if a later one was before it.
LEMMA FanOutSafe ==
  ASSUME ReplayInv, NEW f \in unsent,
         unsent' = unsent \ {f}, UNCHANGED <<last, resume, have>>,
         missed \subseteq missed',
         Behind(f) => Fine(f)',
         net' \in Seq(Message),
         \A i \in DOMAIN net : i \in DOMAIN net' /\ net'[i] = net[i]
  PROVE  /\ \A e : Fine(e) => Fine(e)'
         /\ \A e : Coming(e) => Coming(e)'
         /\ \A e : Behind(e) => Fine(e)' \/ Behind(e)'
         /\ \A e \in unsent' : e < f => Behind(e)'
<1>1. \A e : Fine(e) => Fine(e)'
  BY DEF Fine
<1>2. \A e : Coming(e) => Coming(e)'
  BY DEF Coming
<1>3. \A e : Behind(e) => Fine(e)' \/ Behind(e)'
  BY DEF Behind
<1>4. ASSUME NEW e \in unsent', e < f PROVE Behind(e)'
  <2>1. f \in e + 1 .. last' /\ f \notin unsent'
    BY <1>4, Counters DEF ReplayInv, Shape
  <2> QED
    BY <2>1 DEF Behind
<1> QED
  BY <1>1, <1>2, <1>3, <1>4

\* What is due after f's fan-out.
LEMMA FanOutDue ==
  ASSUME ReplayInv, NEW f \in unsent, unsent' = unsent \ {f}, owed' = Due(f)
  PROVE  /\ Concern' \subseteq Concern /\ f \in Concern
         /\ owed' \subseteq owed \cup {f}
         /\ f \in owed' => HasCursor
         /\ ~HasCursor => owed' = owed
         /\ \A e \in Concern' : e # f => e \in unsent' \/ e \in owed
  BY DEF Due, Concern, ReplayInv, Shape

LEMMA PublishFanOutStep ==
  ASSUME ReplayInv, TypeOK', NEW f \in unsent, PublishFanOut(f)
  PROVE  ReplayInv'
<1> DEFINE m == [kind |-> "event", events |-> {f}]
<1>1. /\ unsent' = unsent \ {f} /\ owed' = Due(f)
      /\ net' = IF joined THEN Append(net, m) ELSE net
      /\ UNCHANGED <<last, joined, subscribe, resume, up, cursor, astray, have>>
  BY DEF PublishFanOut, client
<1>2. m \in Message /\ f \in 1 .. last /\ f \in Int /\ f >= 1
  BY Counters DEF Message, ReplayInv, TypeOK, Shape
<1>3. /\ missed \subseteq missed'
      /\ Behind(f) \/ Outside => Fine(f)'
  BY <1>1 DEF PublishFanOut, Miss, Behind, Fine
<1>4. m.kind = "event" /\ m.events = {f} /\ Max(m.events) = f
  BY <1>2, MaxOfOne
<1> HIDE DEF m
<1>5. /\ net' \in Seq(Message)
      /\ \A i \in DOMAIN net : i \in DOMAIN net' /\ net'[i] = net[i]
      /\ \A i \in DOMAIN net' : i \in DOMAIN net \/ (joined /\ net'[i] = m)
      /\ joined => \E i \in DOMAIN net' : net'[i] = m
  BY <1>1, <1>2, Sent DEF ReplayInv, Shape
<1>6. /\ \A e : Fine(e) => Fine(e)'
      /\ \A e : Coming(e) => Coming(e)'
      /\ \A e : Behind(e) => Fine(e)' \/ Behind(e)'
      /\ \A e \in unsent' : e < f => Behind(e)'
  BY <1>1, <1>3, <1>5, FanOutSafe
<1>7. /\ Concern' \subseteq Concern /\ f \in Concern
      /\ owed' \subseteq owed \cup {f}
      /\ f \in owed' => HasCursor
      /\ ~HasCursor => owed' = owed
      /\ \A e \in Concern' : e # f => e \in unsent' \/ e \in owed
  BY <1>1, FanOutDue
<1>8. Shape'
  <2>1. owed' \subseteq 1 .. last' /\ unsent' \subseteq 1 .. last'
        /\ owed' \cap unsent' = {}
    BY <1>1, <1>2, <1>7 DEF ReplayInv, Shape
  <2>2. /\ \A i \in DOMAIN net' : net'[i].kind = "denied" <=> net'[i].events = {}
        /\ \A i \in DOMAIN net' :
             net'[i].events # {} => Max(net'[i].events) \in net'[i].events
        /\ \A i \in DOMAIN net' : net'[i].events \subseteq 1 .. last'
    BY <1>1, <1>2, <1>4, <1>5 DEF ReplayInv, Shape
  <2>3. ~up => net' = <<>>
    BY <1>1 DEF ReplayInv, Shape
  <2> QED
    BY <1>1, <1>5, <2>1, <2>2, <2>3 DEF ReplayInv, Shape
<1>9. CursorSafe'
  BY <1>1, <1>6, <1>7 DEF CursorSafe, ReplayInv, Safe
<1>10. NetSafe'
  <2> SUFFICES ASSUME NEW i \in DOMAIN net', NEW e \in Concern',
                      net'[i].events # {}, e <= Max(net'[i].events)
               PROVE  Safe(e)' \/ \E j \in 1 .. i : e \in net'[j].events
    BY DEF NetSafe
  <2>1. CASE i \in DOMAIN net
    <3>1. Safe(e) \/ \E j \in 1 .. i : e \in net[j].events
      BY <1>5, <1>7, <2>1 DEF NetSafe, ReplayInv
    <3>2. \A j \in 1 .. i : j \in DOMAIN net
      BY <2>1 DEF ReplayInv, Shape
    <3> QED
      BY <1>5, <1>6, <3>1, <3>2 DEF Safe
  <2>2. CASE i \notin DOMAIN net /\ joined /\ net'[i] = m
    <3>1. e <= f /\ up
      BY <1>4, <2>2 DEF ReplayInv, Shape
    <3>2. CASE e = f
      <4>1. i \in 1 .. i
        <5>1. DOMAIN net' = 1 .. Len(net') /\ Len(net') \in Nat
          BY <1>5
        <5> QED
          BY <5>1
      <4> QED
        BY <1>4, <2>2, <3>2, <4>1
    <3>3. CASE e # f /\ e \in unsent'
      <4>1. e < f
        <5>1. e \in Int
          BY <1>1, <3>3, Counters DEF ReplayInv
        <5> QED
          BY <1>2, <3>1, <3>3, <5>1
      <4> QED
        BY <1>6, <3>3, <4>1 DEF Safe
    <3>4. CASE e \in owed
      <4>1. Fine(e) \/ Coming(e) \/ \E j \in DOMAIN net : e \in net[j].events
        BY <3>1, <3>4 DEF OwedSafe, ReplayInv
      <4>2. \A j \in DOMAIN net : j \in 1 .. i
        BY <1>5, <2>2 DEF ReplayInv, Shape
      <4> QED
        BY <1>5, <1>6, <4>1, <4>2 DEF Safe
    <3> QED
      BY <1>7, <3>2, <3>3, <3>4
  <2> QED
    BY <1>5, <2>1, <2>2
<1>11. FromSafe'
  BY <1>1, <1>6, <1>7 DEF FromSafe, ReplayInv
<1>12. OwedSafe'
  <2> SUFFICES ASSUME NEW e \in owed'
               PROVE  \/ Fine(e)' \/ Coming(e)'
                      \/ \E i \in DOMAIN net' : e \in net'[i].events
                      \/ ~up' /\ HasCursor' /\ e > cursor'
    BY DEF OwedSafe
  <2>0. HasCursor' <=> HasCursor
    BY <1>1 DEF HasCursor
  <2>1. CASE e \in owed
    BY <1>1, <1>5, <1>6, <2>0, <2>1 DEF OwedSafe, ReplayInv
  <2>2. CASE e = f /\ joined
    BY <1>4, <1>5, <2>2
  <2>3. CASE e = f /\ ~up
    <3>1. e <= cursor => Fine(e)' \/ Coming(e)'
      BY <1>3, <1>6, <1>7, <2>3 DEF CursorSafe, ReplayInv, Safe
    <3> QED
      BY <1>1, <1>2, <1>7, <2>0, <2>3, <3>1, Counters DEF ReplayInv
  <2>4. CASE e = f /\ up /\ ~joined
    <3>1. CASE resume.pc = "idle"
      BY <1>3, <2>4, <3>1 DEF Outside
    <3>2. CASE resume.pc = "started"
      <4>1. e > resume.from => Coming(e)
        BY <3>2 DEF Coming
      <4>2. e <= resume.from => Fine(e)'
        BY <1>3, <1>6, <1>7, <2>4, <3>2 DEF FromSafe, ReplayInv
      <4> QED
        BY <1>2, <1>6, <2>4, <4>1, <4>2, Counters DEF ReplayInv
    <3>3. resume.pc \in {"idle", "started"}
      BY <2>4 DEF ReplayInv, Shape, TypeOK
    <3> QED
      BY <3>1, <3>2, <3>3
  <2> QED
    BY <1>7, <2>1, <2>2, <2>3, <2>4
<1>13. Unasked'
  BY <1>1, <1>6, <1>7 DEF Unasked, HasCursor, ReplayInv
<1> QED
  BY <1>8, <1>9, <1>10, <1>11, <1>12, <1>13 DEF ReplayInv

LEMMA PublishFailsStep ==
  ASSUME ReplayInv, TypeOK', NEW f \in unsent, PublishFails(f)
  PROVE  ReplayInv'
<1>1. /\ unsent' = unsent \ {f} /\ owed' = Due(f) /\ Miss({f})
      /\ UNCHANGED <<last, joined, subscribe, resume, net, up, cursor, astray, have>>
  BY DEF PublishFails, client
<1>2. Fine(f)' /\ f \in 1 .. last /\ missed \subseteq missed'
  BY <1>1 DEF Fine, Miss, ReplayInv, Shape
<1>3. /\ \A e : Fine(e) => Fine(e)'
      /\ \A e : Coming(e) => Coming(e)'
      /\ \A e : Behind(e) => Fine(e)' \/ Behind(e)'
  BY <1>1, <1>2, FanOutSafe DEF ReplayInv, Shape
<1>4. /\ Concern' \subseteq Concern
      /\ owed' \subseteq owed \cup {f}
      /\ HasCursor' <=> HasCursor
  BY <1>1, FanOutDue DEF HasCursor
<1>5. Shape'
  BY <1>1, <1>2, <1>4 DEF ReplayInv, Shape
<1>6. CursorSafe'
  BY <1>1, <1>3, <1>4 DEF CursorSafe, ReplayInv, Safe
<1>7. NetSafe'
  BY <1>1, <1>3, <1>4 DEF NetSafe, ReplayInv, Safe
<1>8. FromSafe'
  BY <1>1, <1>3, <1>4 DEF FromSafe, ReplayInv
<1>9. OwedSafe' /\ Unasked'
  BY <1>1, <1>2, <1>3, <1>4 DEF OwedSafe, Unasked, ReplayInv
<1> QED
  BY <1>5, <1>6, <1>7, <1>8, <1>9 DEF ReplayInv

\* What a resume was to bring is missed, and the next connection asks for the
\* rest: the cursor has not passed it.
LEMMA DisconnectStep ==
  ASSUME ReplayInv, TypeOK', Disconnect
  PROVE  ReplayInv'
<1>1. /\ up /\ up' = FALSE /\ joined' = FALSE /\ subscribe' = FALSE
      /\ resume' = NoResume /\ net' = <<>>
      /\ Miss(Awaited)
      /\ UNCHANGED <<last, unsent, cursor, astray, have, owed>>
  BY DEF Disconnect, redis
<1>2. NoResume.pc = "idle" /\ NoResume.from = 0 /\ NoResume.events = {}
  BY DEF NoResume
<1>3. /\ \A e : Fine(e) => Fine(e)'
      /\ \A e \in Awaited : Fine(e)'
  BY <1>1, Missed
<1>4. \A e : Behind(e) => Behind(e)'
  BY <1>1 DEF Behind
<1>5. ASSUME NEW e \in Concern, Coming(e) PROVE Fine(e)'
  <2>1. e \in 1 .. last /\ e \in Int
    BY Counters DEF Concern, ReplayInv, Shape
  <2>2. e > resume.from => e \in resume.from + 1 .. last
    BY <2>1, Counters DEF ReplayInv
  <2>3. e \in Awaited
    BY <1>5, <2>2 DEF Coming, Awaited
  <2> QED
    BY <1>3, <2>3
<1>6. Shape'
  BY <1>1, <1>2, Counters DEF ReplayInv, Shape, Message
<1>7. CursorSafe'
  BY <1>1, <1>3, <1>4, <1>5 DEF CursorSafe, Concern, Safe, ReplayInv
<1>8. NetSafe' /\ FromSafe'
  BY <1>1, <1>2 DEF NetSafe, FromSafe
<1>9. HasCursor' <=> HasCursor
  BY <1>1 DEF HasCursor
<1>10. OwedSafe'
  <2> SUFFICES ASSUME NEW e \in owed PROVE Fine(e)' \/ (HasCursor /\ e > cursor)
    BY <1>1, <1>9 DEF OwedSafe
  <2>1. e \in Concern /\ e \in Int
    BY Counters DEF Concern, ReplayInv
  <2>2. ~Behind(e)
    BY DEF Behind, ReplayInv, Shape
  <2>3. e <= cursor => Fine(e)'
    BY <1>3, <1>5, <2>1, <2>2 DEF CursorSafe, Safe, ReplayInv
  <2>4. ~HasCursor => Fine(e)'
    BY <1>3, <1>5, <2>1 DEF Unasked, ReplayInv
  <2> QED
    BY <2>1, <2>3, <2>4, Counters DEF ReplayInv
<1>11. Unasked'
  BY <1>1, <1>3, <1>5, <1>9 DEF Unasked, Concern, ReplayInv
<1> QED
  BY <1>6, <1>7, <1>8, <1>10, <1>11 DEF ReplayInv

\* A connection with a cursor asks for everything after it.
LEMMA ConnectStep ==
  ASSUME ReplayInv, TypeOK', Connect
  PROVE  ReplayInv'
<1>1. /\ ~up /\ up' = TRUE /\ joined = FALSE
      /\ UNCHANGED <<last, unsent, joined, net, cursor, astray, have, owed, missed>>
      /\ net = <<>> /\ resume = NoResume
  BY DEF Connect, redis, history, ReplayInv, Shape, TypeOK
<1>2. NoResume.pc = "idle" /\ NoResume.from = 0 /\ NoResume.events = {}
  BY DEF NoResume
<1>3. /\ ~HasCursor => resume' = NoResume
      /\ HasCursor => /\ resume'.pc = "started" /\ resume'.from = cursor
                      /\ resume'.events = {}
  <2>1. HasCursor => resume' = [pc |-> "started", from |-> cursor, known |-> ~astray,
                                start |-> 0, events |-> {}]
    BY Connected DEF Connect
  <2> QED
    BY <2>1 DEF Connect
<1>4. \A e : (Fine(e) <=> Fine(e)') /\ (Behind(e) <=> Behind(e)')
  BY <1>1 DEF Fine, Behind
<1>5. (\A e : ~Coming(e)) /\ (HasCursor' <=> HasCursor)
  BY <1>1, <1>2 DEF Coming, HasCursor
<1>6. Shape'
  BY <1>1, <1>2, <1>3, Counters DEF ReplayInv, Shape
<1>7. CursorSafe'
  BY <1>1, <1>4, <1>5 DEF CursorSafe, Concern, Safe, ReplayInv
<1>8. NetSafe'
  BY <1>1 DEF NetSafe
<1>9. FromSafe'
  BY <1>1, <1>2, <1>3, <1>4, <1>5 DEF FromSafe, CursorSafe, Concern, Safe, ReplayInv
<1>10. OwedSafe'
  <2> SUFFICES ASSUME NEW e \in owed PROVE Fine(e)' \/ Coming(e)'
    BY <1>1 DEF OwedSafe
  <2>1. Fine(e) \/ (HasCursor /\ e > cursor)
    BY <1>1, <1>5 DEF OwedSafe, ReplayInv
  <2> QED
    BY <1>3, <1>4, <2>1 DEF Coming
<1>11. Unasked'
  BY <1>1, <1>4, <1>5 DEF Unasked, ReplayInv
<1> QED
  BY <1>6, <1>7, <1>8, <1>9, <1>10, <1>11 DEF ReplayInv

\* The room is joined or is not, the cursor looked up, or it moves to an event
\* that was not stored: what is to come is the same.
LEMMA JoinStep ==
  ASSUME ReplayInv, TypeOK',
         \/ SubscribeJoin \/ SubscribeLimited \/ Subscribe
         \/ ResumeJoin \/ ResumeFind \/ ReceiveTransient
  PROVE  ReplayInv'
<1>1. /\ UNCHANGED <<last, unsent, net, up, cursor, have, owed, missed>>
      /\ joined' \in BOOLEAN /\ (joined => joined')
  BY DEF SubscribeJoin, SubscribeLimited, Subscribe, ResumeJoin, ResumeFind,
         ReceiveTransient, redis, client, history, ReplayInv, TypeOK
<1>2. /\ resume'.from = resume.from /\ resume'.events = resume.events
      /\ \/ resume' = resume
         \/ resume.pc = "started" /\ resume'.pc = "joined" /\ joined'
         \/ resume.pc = "joined" /\ resume'.pc = "found"
  <2>1. CASE SubscribeJoin \/ SubscribeLimited \/ Subscribe \/ ReceiveTransient
    BY <2>1 DEF SubscribeJoin, SubscribeLimited, Subscribe, ReceiveTransient
  <2>2. CASE ResumeJoin
    BY <2>2 DEF ResumeJoin, ReplayInv, TypeOK
  <2>3. CASE ResumeFind
    <3>1. resume' = [resume EXCEPT !.pc = "found",
                                   !.start = RangeStart(resume.from, resume.known)]
      BY <2>3 DEF ResumeFind
    <3>2. /\ resume'.from = resume.from /\ resume'.events = resume.events
          /\ resume'.pc = "found"
      BY <3>1 DEF ReplayInv, TypeOK
    <3> QED
      BY <2>3, <3>2 DEF ResumeFind
  <2> QED
    BY <2>1, <2>2, <2>3
<1>3. ~up => ~joined' /\ ~subscribe' /\ resume' = NoResume
  BY DEF SubscribeJoin, SubscribeLimited, Subscribe, ResumeJoin, ResumeFind,
         ReceiveTransient, ReplayInv, Shape, NoResume
<1>4. /\ \A e : /\ Fine(e) <=> Fine(e)'
                /\ Behind(e) <=> Behind(e)'
                /\ Coming(e) <=> Coming(e)'
      /\ HasCursor => HasCursor'
  <2>1. HasCursor => HasCursor'
    BY DEF SubscribeJoin, SubscribeLimited, Subscribe, ResumeJoin, ResumeFind,
           ReceiveTransient, client, HasCursor
  <2> QED
    BY <1>1, <1>2, <2>1 DEF Fine, Behind, Coming
<1>5. Shape'
  BY <1>1, <1>2, <1>3 DEF ReplayInv, Shape
<1>6. CursorSafe' /\ NetSafe'
  BY <1>1, <1>4 DEF CursorSafe, NetSafe, Concern, Safe, ReplayInv
<1>7. FromSafe'
  BY <1>1, <1>2, <1>4 DEF FromSafe, Concern, ReplayInv
<1>8. OwedSafe' /\ Unasked'
  BY <1>1, <1>4 DEF OwedSafe, Unasked, ReplayInv
<1> QED
  BY <1>5, <1>6, <1>7, <1>8 DEF ReplayInv

\* The client is told that the channel is denied.
LEMMA SubscribeDeniedStep ==
  ASSUME ReplayInv, TypeOK', SubscribeDenied
  PROVE  ReplayInv'
<1> DEFINE m == [kind |-> "denied", events |-> {}]
<1>1. /\ UNCHANGED <<last, unsent, joined, resume, up, cursor, astray, have, owed,
                     missed>>
      /\ subscribe /\ subscribe' = FALSE /\ net' = Append(net, m)
  BY DEF SubscribeDenied, redis, client, history
<1>2. m \in Message /\ m.kind = "denied" /\ m.events = {}
  BY DEF Message
<1> HIDE DEF m
<1>3. /\ net' \in Seq(Message)
      /\ \A i \in DOMAIN net : i \in DOMAIN net' /\ net'[i] = net[i]
      /\ \A i \in DOMAIN net' : i \in DOMAIN net \/ net'[i] = m
  BY <1>1, <1>2, Sent DEF ReplayInv, Shape
<1>4. /\ \A e : (Fine(e) <=> Fine(e)') /\ (Behind(e) <=> Behind(e)')
      /\ \A e : Coming(e) => Coming(e)'
      /\ HasCursor' <=> HasCursor
  BY <1>1, <1>3 DEF Fine, Behind, Coming, HasCursor
<1>5. Shape'
  <2>1. /\ \A i \in DOMAIN net' : net'[i].kind = "denied" <=> net'[i].events = {}
        /\ \A i \in DOMAIN net' :
             net'[i].events # {} => Max(net'[i].events) \in net'[i].events
        /\ \A i \in DOMAIN net' : net'[i].events \subseteq 1 .. last'
    BY <1>1, <1>2, <1>3 DEF ReplayInv, Shape
  <2> QED
    BY <1>1, <1>3, <2>1 DEF ReplayInv, Shape
<1>6. CursorSafe'
  BY <1>1, <1>4 DEF CursorSafe, Concern, Safe, ReplayInv
<1>7. NetSafe'
  <2> SUFFICES ASSUME NEW i \in DOMAIN net', NEW e \in Concern,
                      net'[i].events # {}, e <= Max(net'[i].events)
               PROVE  Safe(e)' \/ \E j \in 1 .. i : e \in net'[j].events
    BY <1>1 DEF NetSafe, Concern
  <2>1. i \in DOMAIN net /\ net'[i] = net[i]
    BY <1>2, <1>3
  <2>2. Safe(e) \/ \E j \in 1 .. i : e \in net[j].events
    BY <2>1 DEF NetSafe, ReplayInv
  <2>3. \A j \in 1 .. i : j \in DOMAIN net
    BY <2>1 DEF ReplayInv, Shape
  <2> QED
    BY <1>3, <1>4, <2>2, <2>3 DEF Safe
<1>8. FromSafe'
  BY <1>1, <1>4 DEF FromSafe, Concern, ReplayInv
<1>9. OwedSafe' /\ Unasked'
  BY <1>1, <1>3, <1>4 DEF OwedSafe, Unasked, ReplayInv
<1> QED
  BY <1>5, <1>6, <1>7, <1>8, <1>9 DEF ReplayInv

\* A resume that is refused misses all it was to bring.
LEMMA ResumeRefusedStep ==
  ASSUME ReplayInv, TypeOK', ResumeRefused
  PROVE  ReplayInv'
<1>1. /\ UNCHANGED <<last, unsent, joined, subscribe, net, up, cursor, astray,
                     have, owed>>
      /\ resume.pc = "started" /\ resume' = NoResume
      /\ Miss(resume.from + 1 .. last)
  BY DEF ResumeRefused, redis, client
<1>2. NoResume.pc = "idle" /\ NoResume.from = 0 /\ NoResume.events = {}
  BY DEF NoResume
<1>3. /\ \A e : Fine(e) => Fine(e)'
      /\ \A e \in resume.from + 1 .. last : Fine(e)'
  BY <1>1, Missed
<1>4. /\ \A e : Behind(e) => Behind(e)'
      /\ HasCursor' <=> HasCursor
  BY <1>1 DEF Behind, HasCursor
<1>5. ASSUME NEW e \in Concern, Coming(e) PROVE Fine(e)' \/ Coming(e)'
  <2>1. e \in 1 .. last /\ e \in Int
    BY Counters DEF Concern, ReplayInv, Shape
  <2>2. e > resume.from => Fine(e)'
    BY <1>3, <2>1, Counters DEF ReplayInv
  <2> QED
    BY <1>1, <1>5, <2>2 DEF Coming
<1>6. Shape'
  BY <1>1, <1>2, Counters DEF ReplayInv, Shape
<1>7. CursorSafe' /\ NetSafe'
  BY <1>1, <1>3, <1>4, <1>5 DEF CursorSafe, NetSafe, Concern, Safe, ReplayInv
<1>8. FromSafe'
  BY <1>1, <1>2 DEF FromSafe
<1>9. OwedSafe' /\ Unasked'
  BY <1>1, <1>3, <1>4, <1>5 DEF OwedSafe, Unasked, Concern, ReplayInv
<1> QED
  BY <1>6, <1>7, <1>8, <1>9 DEF ReplayInv

\* The read of the stream: what was to come is in the batch or is missed.
LEMMA ReturnsStep ==
  ASSUME ReplayInv, TypeOK', NEW R, R \subseteq 1 .. last,
         R # {} => Max(R) \in R,
         resume.pc \in {"joined", "found"}, Returns(R)
  PROVE  ReplayInv'
<1>1. /\ UNCHANGED <<last, unsent, joined, subscribe, net, up, cursor, astray,
                     have, owed>>
      /\ Miss((resume.from + 1 .. last) \ R)
  BY DEF Returns, redis, client
<1>2. resume'.pc = "read" /\ resume'.from = resume.from /\ resume'.events = R
  <2>1. resume' = [resume EXCEPT !.pc = "read", !.events = R]
    BY DEF Returns
  <2> QED
    BY <2>1 DEF ReplayInv, TypeOK
<1>3. /\ \A e : Fine(e) => Fine(e)'
      /\ \A e \in (resume.from + 1 .. last) \ R : Fine(e)'
  BY <1>1, Missed
<1>4. /\ \A e : Behind(e) => Behind(e)'
      /\ HasCursor' <=> HasCursor
  BY <1>1 DEF Behind, HasCursor
<1>5. \A e \in 1 .. last : e > resume.from => e \in R \/ Fine(e)'
  <2>1. \A e \in 1 .. last : e > resume.from => e \in resume.from + 1 .. last
    BY Counters DEF ReplayInv
  <2> QED
    BY <1>3, <2>1
<1>6. ASSUME NEW e \in Concern, Coming(e) PROVE Fine(e)' \/ Coming(e)'
  <2>1. e \in 1 .. last
    BY DEF Concern, ReplayInv, Shape
  <2>2. e > resume.from => Fine(e)' \/ Coming(e)'
    BY <1>2, <1>5, <2>1 DEF Coming
  <2> QED
    BY <1>1, <1>6, <2>2 DEF Coming
<1>7. Shape'
  BY <1>1, <1>2 DEF ReplayInv, Shape, NoResume
<1>8. CursorSafe'
  BY <1>1, <1>3, <1>4, <1>6 DEF CursorSafe, Concern, Safe, ReplayInv
<1>9. NetSafe'
  BY <1>1, <1>3, <1>4, <1>6 DEF NetSafe, Concern, Safe, ReplayInv
<1>10. FromSafe'
  <2>1. \A e \in Concern : e <= resume.from => Fine(e)' \/ Behind(e)'
    BY <1>3, <1>4 DEF FromSafe, ReplayInv
  <2>2. ASSUME R # {}, NEW e \in resume.from + 1 .. Max(R)
        PROVE  e \in R \/ Fine(e)'
    <3>1. Max(R) \in 1 .. last
      BY <2>2
    <3>2. e \in 1 .. last /\ e > resume.from
      BY <2>2, <3>1, Counters DEF ReplayInv
    <3> QED
      BY <1>5, <3>2
  <2> QED
    BY <1>1, <1>2, <2>1, <2>2 DEF FromSafe, Concern
<1>11. OwedSafe' /\ Unasked'
  BY <1>1, <1>3, <1>4, <1>6 DEF OwedSafe, Unasked, Concern, ReplayInv
<1> QED
  BY <1>7, <1>8, <1>9, <1>10, <1>11 DEF ReplayInv

\* The batch goes behind the live events already in flight.
LEMMA ResumeEmitStep ==
  ASSUME ReplayInv, TypeOK', ResumeEmit
  PROVE  ReplayInv'
<1> DEFINE R == resume.events
           r == [kind |-> "replay", events |-> R]
<1>1. /\ UNCHANGED <<last, unsent, joined, subscribe, up, cursor, astray, have,
                     owed, missed>>
      /\ resume.pc = "read" /\ resume' = NoResume
      /\ net' = IF R = {} THEN net ELSE Append(net, r)
  BY DEF ResumeEmit, redis, client, history
<1>2. NoResume.pc = "idle" /\ NoResume.from = 0 /\ NoResume.events = {}
  BY DEF NoResume
<1>3. /\ R \subseteq 1 .. last
      /\ R # {} => Max(R) \in R
      /\ r \in Message
  BY DEF ReplayInv, Shape, TypeOK, Message
<1>4. r.kind = "replay" /\ r.events = R
  OBVIOUS
<1> HIDE DEF R, r
<1>5. /\ net' \in Seq(Message)
      /\ \A i \in DOMAIN net : i \in DOMAIN net' /\ net'[i] = net[i]
      /\ \A i \in DOMAIN net' \ DOMAIN net : R # {} /\ net'[i] = r
      /\ R # {} => \E i \in DOMAIN net' : net'[i] = r
  BY <1>1, <1>3, Sent DEF ReplayInv, Shape
<1>6. /\ \A e : (Fine(e) <=> Fine(e)') /\ (Behind(e) <=> Behind(e)')
      /\ HasCursor' <=> HasCursor
  BY <1>1 DEF Fine, Behind, HasCursor
<1>7. ASSUME NEW e, Coming(e) PROVE Coming(e)'
  <2>1. CASE \E i \in DOMAIN net : net[i].kind = "replay" /\ e \in net[i].events
    BY <1>5, <2>1 DEF Coming
  <2>2. CASE e \in R
    BY <1>4, <1>5, <2>2 DEF Coming
  <2> QED
    BY <1>1, <1>7, <2>1, <2>2 DEF Coming, R
<1>8. Shape'
  <2>1. joined /\ up
    BY <1>1, <1>2 DEF ReplayInv, Shape
  <2>2. /\ \A i \in DOMAIN net' : net'[i].kind = "denied" <=> net'[i].events = {}
        /\ \A i \in DOMAIN net' :
             net'[i].events # {} => Max(net'[i].events) \in net'[i].events
        /\ \A i \in DOMAIN net' : net'[i].events \subseteq 1 .. last'
    BY <1>1, <1>3, <1>4, <1>5 DEF ReplayInv, Shape
  <2> QED
    BY <1>1, <1>2, <1>5, <2>1, <2>2, Counters DEF ReplayInv, Shape
<1>9. CursorSafe'
  BY <1>1, <1>6, <1>7 DEF CursorSafe, Concern, Safe, ReplayInv
<1>10. NetSafe'
  <2> SUFFICES ASSUME NEW i \in DOMAIN net', NEW e \in Concern,
                      net'[i].events # {}, e <= Max(net'[i].events)
               PROVE  Safe(e)' \/ \E j \in 1 .. i : e \in net'[j].events
    BY <1>1 DEF NetSafe, Concern
  <2>1. CASE i \in DOMAIN net
    <3>1. Safe(e) \/ \E j \in 1 .. i : e \in net[j].events
      BY <1>5, <2>1 DEF NetSafe, ReplayInv
    <3>2. \A j \in 1 .. i : j \in DOMAIN net
      BY <2>1 DEF ReplayInv, Shape
    <3> QED
      BY <1>5, <1>6, <1>7, <3>1, <3>2 DEF Safe
  <2>2. CASE i \notin DOMAIN net
    <3>1. R # {} /\ net'[i] = r /\ e <= Max(R)
      BY <1>4, <1>5, <2>2
    <3>2. Max(R) \in 1 .. last /\ e \in Int
      BY <1>3, <3>1, Counters DEF Concern, ReplayInv
    <3>3. CASE e <= resume.from
      BY <1>1, <1>6, <3>3 DEF FromSafe, ReplayInv, Safe
    <3>4. CASE e > resume.from
      <4>1. e \in resume.from + 1 .. Max(R)
        BY <3>1, <3>2, <3>4, Counters DEF ReplayInv
      <4>2. e \in R \/ Fine(e)
        BY <1>1, <3>1, <4>1 DEF FromSafe, ReplayInv, R
      <4>3. e \in R => Coming(e)'
        BY <1>4, <1>5 DEF Coming
      <4> QED
        BY <1>6, <4>2, <4>3 DEF Safe
    <3> QED
      BY <3>2, <3>3, <3>4, Counters DEF ReplayInv
  <2> QED
    BY <2>1, <2>2
<1>11. FromSafe'
  BY <1>1, <1>2 DEF FromSafe
<1>12. OwedSafe' /\ Unasked'
  BY <1>1, <1>5, <1>6, <1>7 DEF OwedSafe, Unasked, ReplayInv
<1> QED
  BY <1>8, <1>9, <1>10, <1>11, <1>12 DEF ReplayInv

\* The client takes the next message: the others are as safe as before.
LEMMA TailSafe ==
  ASSUME ReplayInv, net # <<>>, net' = Tail(net), up,
         UNCHANGED <<last, unsent, joined, subscribe, resume, up, owed>>,
         \A e : Fine(e) => Fine(e)',
         \A e \in Head(net).events : Fine(e)',
         cursor' <= last
  PROVE  /\ Shape' /\ NetSafe' /\ FromSafe' /\ OwedSafe'
         /\ \A e : Behind(e) => Behind(e)'
         /\ \A e : Coming(e) => Fine(e)' \/ Coming(e)'
<1>1. /\ net' \in Seq(Message)
      /\ 1 \in DOMAIN net /\ Head(net) = net[1]
      /\ \A i \in DOMAIN net' : i + 1 \in DOMAIN net /\ net'[i] = net[i + 1]
      /\ \A i \in DOMAIN net : i # 1 => i - 1 \in DOMAIN net' /\ i = (i - 1) + 1
      /\ DOMAIN net \subseteq Nat \ {0} /\ DOMAIN net' \subseteq Nat \ {0}
  BY Received DEF ReplayInv, Shape
<1>2. \A e : Behind(e) => Behind(e)'
  BY DEF Behind
<1>3. ASSUME NEW e, NEW i \in DOMAIN net, e \in net[i].events
      PROVE  Fine(e)' \/ (i # 1 /\ i - 1 \in DOMAIN net' /\ net'[i - 1] = net[i])
  <2>1. CASE i = 1
    BY <1>1, <1>3, <2>1
  <2>2. CASE i # 1
    <3>1. i - 1 \in DOMAIN net' /\ i = (i - 1) + 1
      BY <1>1, <2>2
    <3>2. net'[i - 1] = net[(i - 1) + 1]
      BY <1>1, <3>1
    <3> QED
      BY <2>2, <3>1, <3>2
  <2> QED
    BY <2>1, <2>2
<1>4. \A e : Coming(e) => Fine(e)' \/ Coming(e)'
  BY <1>3 DEF Coming
<1>5. Shape'
  <2>1. /\ \A i \in DOMAIN net' : net'[i].kind = "denied" <=> net'[i].events = {}
        /\ \A i \in DOMAIN net' :
             net'[i].events # {} => Max(net'[i].events) \in net'[i].events
        /\ \A i \in DOMAIN net' : net'[i].events \subseteq 1 .. last'
    BY <1>1 DEF ReplayInv, Shape
  <2> QED
    BY <1>1, <2>1 DEF ReplayInv, Shape
<1>6. NetSafe'
  <2> SUFFICES ASSUME NEW i \in DOMAIN net', NEW e \in Concern,
                      net'[i].events # {}, e <= Max(net'[i].events)
               PROVE  Safe(e)' \/ \E j \in 1 .. i : e \in net'[j].events
    BY DEF NetSafe, Concern
  <2>1. i + 1 \in DOMAIN net /\ net'[i] = net[i + 1] /\ i \in Nat
    BY <1>1
  <2>2. Safe(e) \/ \E j \in 1 .. i + 1 : e \in net[j].events
    BY <2>1 DEF NetSafe, ReplayInv
  <2>3. ASSUME NEW j \in 1 .. i + 1, e \in net[j].events
        PROVE  Safe(e)' \/ \E k \in 1 .. i : e \in net'[k].events
    <3>1. j \in DOMAIN net
      BY <2>1 DEF ReplayInv, Shape
    <3>2. Fine(e)' \/ (j # 1 /\ net'[j - 1] = net[j])
      BY <1>3, <2>3, <3>1
    <3>3. j # 1 => j - 1 \in 1 .. i
      BY <2>1
    <3> QED
      BY <2>3, <3>2, <3>3 DEF Safe
  <2> QED
    BY <1>2, <1>4, <2>2, <2>3 DEF Safe
<1>7. FromSafe'
  BY <1>2 DEF FromSafe, Concern, ReplayInv
<1>8. OwedSafe'
  <2> SUFFICES ASSUME NEW e \in owed
               PROVE  \/ Fine(e)' \/ Coming(e)'
                      \/ \E i \in DOMAIN net' : e \in net'[i].events
    BY DEF OwedSafe
  <2>1. Fine(e) \/ Coming(e) \/ \E i \in DOMAIN net : e \in net[i].events
    BY DEF OwedSafe, ReplayInv
  <2> QED
    BY <1>3, <1>4, <2>1
<1> QED
  BY <1>2, <1>4, <1>5, <1>6, <1>7, <1>8

LEMMA ReceiveEventsStep ==
  ASSUME ReplayInv, TypeOK', ReceiveEvents
  PROVE  ReplayInv'
<1>1. /\ UNCHANGED <<last, unsent, joined, subscribe, resume, up, owed>>
      /\ up /\ net # <<>> /\ net' = Tail(net) /\ Head(net).kind \in {"event", "replay"}
  BY DEF ReceiveEvents, Receive, redis
<1>2. 1 \in DOMAIN net /\ Head(net) = net[1]
  BY <1>1, Received DEF ReplayInv, Shape
<1> DEFINE R == Head(net).events
<1>3. /\ cursor' = Max(R) /\ have' = have \cup R /\ missed' = missed \ R
      /\ R # {} /\ Max(R) \in R /\ R \subseteq 1 .. last
  BY <1>1, <1>2 DEF ReceiveEvents, ReplayInv, Shape
<1> HIDE DEF R
<1>4. cursor' \in 1 .. last
  BY <1>3
<1>5. cursor' <= last /\ cursor' # 0
  BY <1>4, Counters DEF ReplayInv
<1>6. /\ \A e : Fine(e) => Fine(e)'
      /\ \A e \in R : Fine(e)'
  BY <1>3 DEF Fine
<1>7. /\ Shape' /\ NetSafe' /\ FromSafe' /\ OwedSafe'
      /\ \A e : Behind(e) => Behind(e)'
      /\ \A e : Coming(e) => Fine(e)' \/ Coming(e)'
  BY <1>1, <1>5, <1>6, TailSafe DEF R
<1>8. CursorSafe'
  <2> SUFFICES ASSUME NEW e \in Concern, e <= cursor' PROVE Safe(e)'
    BY <1>1 DEF CursorSafe, Concern
  <2>1. Safe(e) \/ \E j \in 1 .. 1 : e \in net[j].events
    BY <1>2, <1>3 DEF NetSafe, ReplayInv, R
  <2>2. Safe(e) \/ e \in R
    BY <1>2, <2>1 DEF R
  <2> QED
    BY <1>6, <1>7, <2>2 DEF Safe
<1>9. Unasked'
  BY <1>5 DEF Unasked, HasCursor
<1> QED
  BY <1>7, <1>8, <1>9 DEF ReplayInv

\* The client gives the channel up: it misses what its cursor had not passed.
LEMMA ReceiveDeniedStep ==
  ASSUME ReplayInv, TypeOK', ReceiveDenied
  PROVE  ReplayInv'
<1>1. /\ UNCHANGED <<last, unsent, joined, subscribe, resume, up, have, owed>>
      /\ up /\ net # <<>> /\ net' = Tail(net) /\ Head(net).kind = "denied"
      /\ cursor' = 0 /\ Miss(cursor + 1 .. last)
  BY DEF ReceiveDenied, Receive, redis
<1>2. Head(net).events = {}
  BY <1>1, Received DEF ReplayInv, Shape
<1>3. /\ \A e : Fine(e) => Fine(e)'
      /\ \A e \in cursor + 1 .. last : Fine(e)'
  BY <1>1, Missed
<1>4. cursor' <= last
  BY <1>1, Counters DEF ReplayInv
<1>5. /\ Shape' /\ NetSafe' /\ FromSafe' /\ OwedSafe'
      /\ \A e : Behind(e) => Behind(e)'
      /\ \A e : Coming(e) => Fine(e)' \/ Coming(e)'
  BY <1>1, <1>2, <1>3, <1>4, TailSafe
<1>6. CursorSafe'
  <2>1. \A e \in Concern : ~(e <= cursor')
    BY <1>1, Counters DEF Concern, ReplayInv, Shape
  <2> QED
    BY <1>1, <2>1 DEF CursorSafe, Concern
<1>7. Unasked'
  <2> SUFFICES ASSUME NEW e \in owed PROVE Fine(e)' \/ Coming(e)'
    BY <1>1 DEF Unasked
  <2>1. e \in 1 .. last /\ e \in Concern /\ ~Behind(e)
    BY DEF ReplayInv, Shape, Concern, Behind
  <2>2. e <= cursor => Fine(e) \/ Coming(e)
    BY <2>1 DEF CursorSafe, Safe, ReplayInv
  <2>3. e <= cursor \/ e \in cursor + 1 .. last
    BY <2>1, Counters DEF ReplayInv
  <2> QED
    BY <1>3, <1>5, <2>2, <2>3
<1> QED
  BY <1>5, <1>6, <1>7 DEF ReplayInv

-----------------------------------------------------------------------------
LEMMA ReplayInit == Init => ReplayInv
<1> SUFFICES ASSUME Init PROVE ReplayInv
  OBVIOUS
<1>1. NoResume \in Resume /\ NoResume.pc = "idle" /\ NoResume.from = 0
      /\ NoResume.events = {}
  BY ResumeType DEF NoResume
<1>2. TypeOK
  <2>1. 1 \in 1 .. MaxEvents + 1 /\ 0 \in 0 .. MaxEvents /\ 0 \in 0 .. MaxDrops
    BY ReplayAssumption
  <2>2. DOMAIN net = {}
    BY DEF Init
  <2> QED
    BY <1>1, <2>1, <2>2 DEF Init, TypeOK, Resume
<1>3. Shape
  BY <1>1 DEF Init, Shape
<1>4. CursorSafe /\ NetSafe /\ FromSafe /\ OwedSafe /\ Unasked
  BY <1>1 DEF Init, CursorSafe, NetSafe, FromSafe, OwedSafe, Unasked, Concern
<1> QED
  BY <1>2, <1>3, <1>4 DEF ReplayInv

LEMMA ReplayStep == ReplayInv /\ [Next]_vars => ReplayInv'
<1> SUFFICES ASSUME ReplayInv, [Next]_vars PROVE ReplayInv'
  OBVIOUS
<1>1. TypeOK'
  BY ReplayTypeStep DEF ReplayInv
<1>2. CASE PublishStore
  BY <1>1, <1>2, PublishStoreStep
<1>3. CASE \E e \in unsent : PublishFanOut(e) \/ PublishFails(e)
  BY <1>1, <1>3, PublishFanOutStep, PublishFailsStep
<1>4. CASE Connect \/ Disconnect
  BY <1>1, <1>4, ConnectStep, DisconnectStep
<1>5. CASE Subscribe \/ ResumeJoin \/ ResumeFind \/ ReceiveTransient
  BY <1>1, <1>5, JoinStep
<1>6. CASE SubscribeStep
  BY <1>1, <1>6, JoinStep, SubscribeDeniedStep DEF SubscribeStep
<1>7. CASE ResumeRefused
  BY <1>1, <1>7, ResumeRefusedStep
<1>8. CASE ResumeRange
  <2>1. resume.start \in 0 .. MaxEvents + 1
    BY DEF ReplayInv, TypeOK
  <2>2. /\ XRange(resume.start) \subseteq 1 .. last
        /\ XRange(resume.start) # {} =>
             Max(XRange(resume.start)) \in XRange(resume.start)
    BY <2>1, XRangeReads DEF ReplayInv
  <2> QED
    BY <1>1, <1>8, <2>2, ReturnsStep DEF ResumeRange
<1>9. CASE ResumeReadFails
  BY <1>1, <1>9, ReturnsStep DEF ResumeReadFails
<1>10. CASE ResumeEmit
  BY <1>1, <1>10, ResumeEmitStep
<1>11. CASE ReceiveStep
  BY <1>1, <1>11, ReceiveEventsStep, ReceiveDeniedStep DEF ReceiveStep
<1>12. CASE UNCHANGED vars
  <2>1. UNCHANGED <<last, unsent, joined, subscribe, resume, net, up, cursor,
                    astray, have, owed, missed>>
    BY <1>12 DEF vars, redis, client, history
  <2>2. /\ \A e : /\ Fine(e) <=> Fine(e)'
                  /\ Behind(e) <=> Behind(e)'
                  /\ Coming(e) <=> Coming(e)'
        /\ HasCursor' <=> HasCursor
    BY <2>1 DEF Fine, Behind, Coming, HasCursor
  <2>3. Shape'
    BY <2>1 DEF ReplayInv, Shape
  <2>4. CursorSafe' /\ NetSafe'
    BY <2>1, <2>2 DEF ReplayInv, CursorSafe, NetSafe, Concern, Safe
  <2>5. FromSafe' /\ OwedSafe' /\ Unasked'
    BY <2>1, <2>2 DEF ReplayInv, FromSafe, OwedSafe, Unasked, Concern
  <2> QED
    BY <1>1, <2>3, <2>4, <2>5 DEF ReplayInv
<1> QED
  BY <1>2, <1>3, <1>4, <1>5, <1>6, <1>7, <1>8, <1>9, <1>10, <1>11, <1>12 DEF Next

\* Settled leaves an event that is due no way but to have arrived or to be
\* missed.
LEMMA SettledAccounts == ReplayInv => HolesAccounted
<1> SUFFICES ASSUME ReplayInv, Settled, NEW e \in owed
             PROVE  e \in have \cup missed
  BY DEF HolesAccounted
<1>1. ~Coming(e) /\ up /\ DOMAIN net = {}
  BY DEF Settled, Coming
<1> QED
  BY <1>1 DEF ReplayInv, OwedSafe, Fine

\* For every history of publications, refusals and lost connections, whatever
\* the stream keeps and however few events a resume may return: a connected
\* client with nothing in flight (use-gateway.ts, gateway:resume) has every
\* event due since it first had a cursor, except those to which one of the
\* losses happened that HolesAccounted names.
THEOREM HolesAreAccounted == Spec => []HolesAccounted
<1>1. Spec => []ReplayInv
  BY ReplayInit, ReplayStep, PTL DEF Spec
<1> QED
  BY <1>1, SettledAccounts, PTL
=============================================================================
