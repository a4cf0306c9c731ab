---------------------------- MODULE DmPageProofs ----------------------------
(***************************************************************************)
(* An open conversation: the safety properties of OlmSessions, the ratchet *)
(* that a device advances for what it sends and opens, of OlmKeys, the     *)
(* one-time keys between a browser and the key server, of Attachments,     *)
(* from the composer to the purge, of the two searches, LocalSearch and    *)
(* MessageSearch, and of DmTimeline, the list of messages, for any number  *)
(* of runs, messages, tabs, keys, identities, texts and files.             *)
(*                                                                         *)
(* They share no state: they are parts of MCDmPage.  Each has a section    *)
(* of its own, where the slots of MCDmPage have the names of its           *)
(* variables, and the theorems, about all of MCDmPage, come at the end.    *)
(***************************************************************************)
EXTENDS MCDmPage, Sequences, FiniteSets, FiniteSetTheorems,
        SequenceTheorems, WellFoundedInduction, TLAPS

\* The variables of the parts, which are slots of MCDmPage.
sess == x1
msg == x2
list == x3
shown == x4
send == x5
run == x6
loads == x7
torn == x8
opened == x9
overlap == x10

acct == x1
dev == x2
tab == x3
served == x4
stock == x5
wire == x6
mint == x7
idents == x8
handed == x9
clash == x10
lost == x11
wrap == x12
wraps == x13
seal == x14
held == x15

\* The variables file, batch and kept of Attachments are called upload, purging
\* and left.
box == x1
job == x2
upload == x3
post == x4
purging == x5
entered == x6
dropped == x7
again == x8
orphan == x9
left == x10

\* Those of LocalSearch; text, list, deleting and debounce are called words, page,
\* gone and armed.
state == x1
words == x2
visit == x3
page == x4
readable == x5
tracked == x6
index == x7
fetch == x8
gone == x9
query == x10
armed == x11
results == x12
evicted == x13
taken == x14
removed == x15
back == x16
aged == x17

\* Those of MessageSearch; text, debounce and results are called typed, due and
\* found.
said == x1
fts == x2
blocked == x3
member == x4
changes == x5
typed == x6
due == x7
req == x8
loading == x9
found == x10
cache == x11
refused == x12

\* Those of DmTimeline; fetch and lost are called answers and unseen.
stored == x1
by == x2
deleted == x3
reacts == x4
outbox == x5
inRoom == x6
inbox == x7
missed == x8
view == x10
answers == x12
sent == x13
toggle == x14
unseen == x16
spliced == x17
skewed == x18

USE DEF sess, msg, list, shown, send, run, loads, torn, opened, overlap,
    acct, dev, tab, served, stock, wire, mint, idents, handed, clash, lost,
    wrap, wraps, seal, held,
    box, job, upload, post, purging, entered, dropped, again, orphan, left,
    state, words, visit, page, readable, tracked, index, fetch, gone, query, armed,
    results, evicted, taken, removed, back, aged,
    said, fts, blocked, member, changes, typed, due, req, loading, found, cache, refused,
    stored, by, deleted, reacts, outbox, inRoom, inbox, missed, view, answers, sent,
    toggle, unseen, spliced, skewed

-----------------------------------------------------------------------------
(* The sessions.                                                           *)

Session == [out : Nat, seen : SUBSET Nat]
Message == [own : BOOLEAN, idx : Nat]
Run == [pc : {"idle", "starting", "next", "opening"}, got : Session,
        left : SUBSET Nat, next : SUBSET Nat, bad : SUBSET Nat, stale : BOOLEAN]

SessionTypes ==
  /\ sess \in Session
  /\ msg \in Seq(Message)
  /\ send \in [pc : {"idle", "encrypting"}, got : Session]
  /\ run \in [Runs -> Run]
  /\ shown \in [text : SUBSET Nat, failed : SUBSET Nat]
  /\ list \subseteq DOMAIN msg
  /\ torn \in BOOLEAN

\* As long as no save was torn, the session is ahead of all that was sent.
Ahead ==
  /\ ~torn => \A m \in DOMAIN msg : msg[m].own => msg[m].idx < sess.out
  /\ S!IndexUnique

\* What has been opened here, wherever its text is now.
Traced == opened \cup shown.text \cup UNION {run[r].next : r \in Runs}

\* An index counts as seen in a session only for a message that was opened.
Opened == {i \in Nat : \E m \in DOMAIN msg : m \in Traced /\ ~msg[m].own /\ msg[m].idx = i}
SeenOpened ==
  /\ sess.seen \subseteq Opened /\ send.got.seen \subseteq Opened
  /\ \A r \in Runs : run[r].got.seen \subseteq Opened

\* A run has its own messages in hand, apart from those it is done with.  The
\* one whose results will be shown has all that is shown.
RunsApart ==
  /\ \A r \in Runs :
       /\ run[r].pc \in {"idle", "starting"} =>
            run[r].left = {} /\ run[r].next = {} /\ run[r].bad = {}
       /\ run[r].pc = "opening" => run[r].left # {}
       /\ run[r].left \cap run[r].next = {}
       /\ \A m \in run[r].left : m \in DOMAIN msg /\ ~msg[m].own
       /\ run[r].pc \in {"next", "opening"} /\ ~run[r].stale =>
            shown.text \subseteq run[r].next
  /\ \A r, q \in Runs : r # q =>
       \/ run[r].pc = "idle" \/ run[q].pc = "idle" \/ run[r].stale \/ run[q].stale

\* Two runs with a message in hand together are on record.
Overlaps ==
  \A r \in Runs : \A m \in run[r].left :
    /\ m \in shown.text => m \in overlap
    /\ \A q \in Runs : q # r /\ (m \in run[q].left \/ m \in run[q].next) => m \in overlap

Explained(m) ==
  \/ m \in opened \cup overlap
  \/ \E n \in 1 .. Len(msg) : n # m /\ msg[n] = msg[m]
FailuresExplained ==
  /\ \A m \in shown.failed : m \in DOMAIN msg /\ Explained(m)
  /\ \A r \in Runs : \A m \in run[r].bad : m \in DOMAIN msg /\ Explained(m)

SessionInv == /\ SessionTypes /\ Ahead /\ SeenOpened /\ RunsApart /\ Overlaps
              /\ FailuresExplained

\* The oldest message that a run has in hand.
LEMMA Least ==
  ASSUME NEW X \in SUBSET Nat, X # {}
  PROVE  \E m \in X : \A n \in X : m <= n
<1>1. PICK m \in X : \A n \in X : <<n, m>> \notin OpToRel(<, Nat)
  BY NatLessThanWellFounded, WFMin
<1>2. \A n \in X : ~(n < m)
  BY <1>1 DEF OpToRel
<1> QED
  BY <1>2

LEMMA TracedMember ==
  /\ \A m : m \in Traced <=>
       m \in opened \/ m \in shown.text \/ \E r \in Runs : m \in run[r].next
  /\ \A m : m \in Traced' <=>
       m \in opened' \/ m \in shown'.text \/ \E r \in Runs : m \in run'[r].next
  BY DEF Traced

\* What is seen and what is explained stays so while messages are added and
\* nothing that was opened is forgotten.
Grows ==
  /\ DOMAIN msg \subseteq DOMAIN msg'
  /\ \A m \in DOMAIN msg : msg'[m] = msg[m]

LEMMA OpenedStays ==
  ASSUME Grows, Traced \subseteq Traced'
  PROVE  Opened \subseteq Opened'
  BY DEF Opened, Grows

LEMMA ExplainedStays ==
  ASSUME NEW m \in DOMAIN msg, Explained(m), Grows, SessionTypes, SessionTypes',
         opened \subseteq opened', overlap \subseteq overlap'
  PROVE  m \in DOMAIN msg' /\ Explained(m)'
<1>1. DOMAIN msg = 1 .. Len(msg) /\ DOMAIN msg' = 1 .. Len(msg')
  BY DEF SessionTypes
<1> QED
  BY <1>1 DEF Grows, Explained

\* Messages are added; the runs and what is shown stay.
LEMMA MessageAdded ==
  ASSUME SessionInv, SessionTypes',
         msg' = msg \/ \E x \in Message : msg' = Append(msg, x),
         UNCHANGED <<run, shown, opened, overlap>>
  PROVE  /\ Grows /\ RunsApart' /\ Overlaps' /\ FailuresExplained'
         /\ Opened \subseteq Opened'
<1>1. Grows
  <2>1. msg \in Seq(Message) /\ DOMAIN msg = 1 .. Len(msg) /\ Len(msg) \in Nat
    BY DEF SessionInv, SessionTypes
  <2>2. CASE msg' = msg
    BY <2>2 DEF Grows
  <2>3. ASSUME NEW x \in Message, msg' = Append(msg, x)
        PROVE  Grows
    <3> HIDE DEF Grows
    <3>1. DOMAIN Append(msg, x) = 1 .. Len(msg) + 1
      BY <2>1, AppendProperties
    <3>2. \A m \in 1 .. Len(msg) : Append(msg, x)[m] = msg[m]
      BY <2>1, AppendProperties
    <3>3. \A m \in DOMAIN msg : msg'[m] = msg[m]
      BY <2>1, <2>3, <3>2
    <3>4. DOMAIN msg \subseteq DOMAIN msg'
      <4>1. 1 .. Len(msg) \subseteq 1 .. Len(msg) + 1
        BY <2>1
      <4> QED
        BY <2>1, <2>3, <3>1, <4>1
    <3> QED
      BY <3>3, <3>4 DEF Grows
  <2> QED
    BY <2>2, <2>3
<1>2. Traced' = Traced
  BY DEF Traced
<1>3. RunsApart'
  <2>1. \A r \in Runs : \A m \in run[r].left : m \in DOMAIN msg' /\ ~msg'[m].own
    BY <1>1 DEF SessionInv, RunsApart, Grows
  <2> QED
    BY <2>1 DEF SessionInv, RunsApart
<1>4. Overlaps'
  BY DEF SessionInv, Overlaps
<1>5. FailuresExplained'
  <2>1. \A m \in DOMAIN msg : Explained(m) => m \in DOMAIN msg' /\ Explained(m)'
    <3> TAKE m \in DOMAIN msg
    <3> QED
      BY <1>1, ExplainedStays DEF SessionInv
  <2> QED
    BY <2>1 DEF SessionInv, FailuresExplained
<1>6. Opened \subseteq Opened'
  BY <1>1, <1>2, OpenedStays
<1> QED
  BY <1>1, <1>3, <1>4, <1>5, <1>6

LEMMA SendLoaded ==
  ASSUME SessionInv, S!SendLoad
  PROVE  SessionInv'
<1>1. /\ UNCHANGED <<sess, msg, list, shown, run, torn, opened, overlap>>
      /\ send' = [pc |-> "encrypting", got |-> sess]
  BY DEF S!SendLoad
<1>2. SessionTypes'
  BY <1>1 DEF SessionInv, SessionTypes
<1>3. /\ RunsApart' /\ Overlaps' /\ FailuresExplained'
      /\ Opened \subseteq Opened'
  BY <1>1, <1>2, MessageAdded
<1>4. Ahead'
  BY <1>1 DEF SessionInv, Ahead, S!IndexUnique
<1>5. SeenOpened'
  BY <1>1, <1>3 DEF SessionInv, SeenOpened
<1> QED
  BY <1>2, <1>3, <1>4, <1>5 DEF SessionInv

LEMMA SendSaved ==
  ASSUME SessionInv, NEW ok \in BOOLEAN, S!SendSave(ok)
  PROVE  SessionInv'
<1> DEFINE new == [send.got EXCEPT !.out = @ + 1]
           x == [own |-> TRUE, idx |-> send.got.out]
<1>1. /\ UNCHANGED <<list, shown, run, opened, overlap>>
      /\ sess' = new /\ torn' = (torn \/ sess # send.got) /\ send' = S!NoSend
      /\ msg' = IF ok THEN Append(msg, x) ELSE msg
  BY DEF S!SendSave, S!Save
<1>2. send.got \in Session /\ sess \in Session /\ msg \in Seq(Message) /\ torn \in BOOLEAN
  BY DEF SessionInv, SessionTypes
<1>3. /\ new \in Session /\ new.out = send.got.out + 1 /\ new.seen = send.got.seen
      /\ x \in Message /\ x.own /\ x.idx = send.got.out
  <2>1. new \in Session /\ new.out = send.got.out + 1 /\ new.seen = send.got.seen
    BY <1>2 DEF Session
  <2>2. x \in Message /\ x.own /\ x.idx = send.got.out
    BY <1>2 DEF Session, Message
  <2> QED
    BY <2>1, <2>2
<1>4. /\ S!NoSend \in [pc : {"idle", "encrypting"}, got : Session]
      /\ S!NoSend.got.seen = {}
  BY DEF S!NoSend, S!New, Session
<1> HIDE DEF new, x
<1>5. SessionTypes'
  BY <1>1, <1>2, <1>3, <1>4 DEF SessionInv, SessionTypes
<1>6. /\ RunsApart' /\ Overlaps' /\ FailuresExplained'
      /\ Opened \subseteq Opened'
  BY <1>1, <1>3, <1>5, MessageAdded
<1>7. SeenOpened'
  <2>1. sess'.seen \subseteq Opened' /\ send'.got.seen \subseteq Opened'
    BY <1>1, <1>3, <1>4, <1>6 DEF SessionInv, SeenOpened
  <2> QED
    BY <1>1, <1>6, <2>1 DEF SessionInv, SeenOpened
<1>8. Ahead'
  <2> SUFFICES ASSUME ~torn'
               PROVE  /\ \A m \in DOMAIN msg' : msg'[m].own => msg'[m].idx < sess'.out
                      /\ \A m, n \in 1 .. Len(msg') :
                           msg'[m].own /\ msg'[n] = msg'[m] => m = n
    BY DEF Ahead, S!IndexUnique
  <2>1. /\ sess = send.got /\ ~torn
        /\ \A m \in DOMAIN msg : msg[m].own => msg[m].idx < sess.out
        /\ \A m, n \in 1 .. Len(msg) : msg[m].own /\ msg[n] = msg[m] => m = n
    BY <1>1, <1>2 DEF SessionInv, Ahead, S!IndexUnique
  <2>2. CASE msg' = msg
    <3>1. sess'.out = sess.out + 1 /\ sess.out \in Nat
      BY <1>1, <1>2, <1>3, <2>1 DEF Session
    <3>2. ASSUME NEW m \in DOMAIN msg, msg[m].own
          PROVE  msg[m].idx < sess'.out
      <4>1. msg[m] \in Message
        BY <1>2
      <4>2. msg[m].idx \in Nat /\ msg[m].idx < sess.out
        BY <2>1, <3>2, <4>1 DEF Message
      <4> QED
        BY <3>1, <4>2
    <3> QED
      BY <2>1, <2>2, <3>2
  <2>3. CASE msg' = Append(msg, x)
    <3>1. /\ Len(msg') = Len(msg) + 1 /\ DOMAIN msg' = 1 .. Len(msg) + 1
          /\ \A m \in 1 .. Len(msg) : msg'[m] = msg[m] /\ msg[m] \in Message
          /\ msg'[Len(msg) + 1] = x /\ DOMAIN msg = 1 .. Len(msg)
          /\ Len(msg) \in Nat
      BY <1>2, <1>3, <2>3
    <3>2. \A m \in 1 .. Len(msg) : msg[m].own => msg[m].idx < x.idx /\ msg[m] # x
      BY <1>2, <1>3, <2>1, <3>1 DEF Session, Message
    <3>3. \A m \in DOMAIN msg' : m \in 1 .. Len(msg) \/ m = Len(msg) + 1
      BY <3>1
    <3>4. \A m \in DOMAIN msg' : msg'[m].own => msg'[m].idx < sess'.out
      BY <1>1, <1>2, <1>3, <2>1, <3>1, <3>2, <3>3 DEF Session, Message
    <3>5. \A m, n \in 1 .. Len(msg') : msg'[m].own /\ msg'[n] = msg'[m] => m = n
      <4> SUFFICES ASSUME NEW m \in 1 .. Len(msg'), NEW n \in 1 .. Len(msg'),
                          msg'[m].own, msg'[n] = msg'[m]
                   PROVE  m = n
        OBVIOUS
      <4>1. CASE m = Len(msg) + 1 /\ n = Len(msg) + 1
        BY <4>1
      <4>2. CASE m = Len(msg) + 1 /\ n \in 1 .. Len(msg)
        BY <1>3, <3>1, <3>2, <4>2
      <4>3. CASE m \in 1 .. Len(msg) /\ n = Len(msg) + 1
        BY <3>1, <3>2, <4>3
      <4>4. CASE m \in 1 .. Len(msg) /\ n \in 1 .. Len(msg)
        BY <2>1, <3>1, <4>4
      <4> QED
        BY <3>1, <3>3, <4>1, <4>2, <4>3, <4>4
    <3> QED
      BY <3>4, <3>5
  <2> QED
    BY <1>1, <2>2, <2>3
<1> QED
  BY <1>5, <1>6, <1>7, <1>8 DEF SessionInv

LEMMA PeerPosted ==
  ASSUME SessionInv, MaxMsgs \in Nat, NEW i \in 1 .. MaxMsgs, S!PeerPosts(i)
  PROVE  SessionInv'
<1> DEFINE x == [own |-> FALSE, idx |-> i]
<1>1. /\ UNCHANGED <<sess, list, shown, send, run, torn, opened, overlap>>
      /\ msg' = Append(msg, x)
  BY DEF S!PeerPosts
<1>2. x \in Message /\ ~x.own
  BY DEF Message
<1> HIDE DEF x
<1>3. msg \in Seq(Message)
  BY DEF SessionInv, SessionTypes
<1>4. SessionTypes'
  BY <1>1, <1>2 DEF SessionInv, SessionTypes
<1>5. /\ RunsApart' /\ Overlaps' /\ FailuresExplained'
      /\ Opened \subseteq Opened'
  BY <1>1, <1>2, <1>4, MessageAdded
<1>6. SeenOpened'
  BY <1>1, <1>5 DEF SessionInv, SeenOpened
<1>7. /\ \A m \in DOMAIN msg' : msg'[m].own => m \in DOMAIN msg /\ msg'[m] = msg[m]
      /\ \A m \in DOMAIN msg' : m \in 1 .. Len(msg')
      /\ \A m \in DOMAIN msg : m \in 1 .. Len(msg)
      /\ \A m \in 1 .. Len(msg') : m \in DOMAIN msg'
  BY <1>1, <1>2, <1>3
<1>8. Ahead'
  BY <1>1, <1>7 DEF SessionInv, Ahead, S!IndexUnique
<1> QED
  BY <1>4, <1>5, <1>6, <1>8 DEF SessionInv

-----------------------------------------------------------------------------
\* One run goes on.
LEMMA RunSet ==
  ASSUME SessionTypes, NEW r \in Runs, NEW x \in Run, run' = [run EXCEPT ![r] = x]
  PROVE  /\ run' \in [Runs -> Run] /\ run'[r] = x
         /\ \A q \in Runs : q # r => run'[q] = run[q]
  BY DEF SessionTypes

LEMMA RunStarted ==
  ASSUME SessionInv, NEW r \in Runs, S!RunStart(r)
  PROVE  SessionInv'
<1> DEFINE todo == S!Inbox \ shown.text
           x == [run[r] EXCEPT !.pc = "next", !.left = todo, !.next = shown.text]
<1>1. /\ UNCHANGED <<sess, msg, list, shown, send, torn, opened>>
      /\ run[r].pc = "starting" /\ run' = [run EXCEPT ![r] = x]
      /\ overlap' = overlap \cup
           {m \in todo : \E q \in Runs \ {r} : m \in run[q].left \/
                                               m \in run[q].next \ shown.text}
  BY DEF S!RunStart
<1>2. /\ todo \in SUBSET Nat /\ shown.text \in SUBSET Nat
      /\ \A m \in todo : m \in DOMAIN msg /\ ~msg[m].own /\ m \notin shown.text
  BY DEF SessionInv, SessionTypes, S!Inbox
<1>3. run[r] \in Run
  BY DEF SessionInv, SessionTypes
<1>4. /\ x \in Run /\ x.pc = "next" /\ x.left = todo /\ x.next = shown.text
      /\ x.bad = run[r].bad /\ x.got = run[r].got /\ x.stale = run[r].stale
  BY <1>2, <1>3 DEF Run
<1> HIDE DEF x, todo
<1>5. /\ run' \in [Runs -> Run] /\ run'[r] = x
      /\ \A q \in Runs : q # r => run'[q] = run[q]
  BY <1>1, <1>4, RunSet DEF SessionInv
<1>6. run[r].left = {} /\ run[r].next = {} /\ run[r].bad = {}
  BY <1>1 DEF SessionInv, RunsApart
<1>7. SessionTypes'
  BY <1>1, <1>5 DEF SessionInv, SessionTypes
<1>8. Grows /\ overlap \subseteq overlap'
  BY <1>1 DEF Grows
<1>9. Traced \subseteq Traced'
  <2> SUFFICES ASSUME NEW m, m \in Traced PROVE m \in Traced'
    OBVIOUS
  <2>1. CASE m \in opened \/ m \in shown.text
    BY <1>1, <2>1, TracedMember
  <2>2. ASSUME NEW q \in Runs, m \in run[q].next PROVE m \in Traced'
    <3>1. q # r
      BY <1>6, <2>2
    <3>2. m \in run'[q].next
      BY <1>5, <2>2, <3>1
    <3> QED
      BY <3>2, TracedMember
  <2> QED
    BY <2>1, <2>2, TracedMember
<1>10. Opened \subseteq Opened'
  BY <1>8, <1>9, OpenedStays
<1>11. SeenOpened'
  <2>1. \A q \in Runs : run'[q].got = run[q].got
    BY <1>4, <1>5
  <2>2. \A q \in Runs : run'[q].got.seen \subseteq Opened'
    BY <1>10, <2>1 DEF SessionInv, SeenOpened
  <2> QED
    BY <1>1, <1>10, <2>1 DEF SessionInv, SeenOpened
<1>12. RunsApart'
  <2>1. \A q \in Runs :
          /\ run'[q].pc \in {"idle", "starting"} =>
               run'[q].left = {} /\ run'[q].next = {} /\ run'[q].bad = {}
          /\ run'[q].pc = "opening" => run'[q].left # {}
          /\ run'[q].left \cap run'[q].next = {}
          /\ \A m \in run'[q].left : m \in DOMAIN msg' /\ ~msg'[m].own
          /\ run'[q].pc \in {"next", "opening"} /\ ~run'[q].stale =>
               shown'.text \subseteq run'[q].next
    <3> TAKE q \in Runs
    <3>1. CASE q = r
      BY <1>1, <1>2, <1>4, <1>5, <3>1
    <3>2. CASE q # r
      BY <1>1, <1>5, <3>2 DEF SessionInv, RunsApart
    <3> QED
      BY <3>1, <3>2
  <2>2. \A q \in Runs : run'[q].stale = run[q].stale /\ (run'[q].pc = "idle" <=> run[q].pc = "idle")
    BY <1>1, <1>4, <1>5
  <2>3. \A p, q \in Runs : p # q =>
          \/ run'[p].pc = "idle" \/ run'[q].pc = "idle" \/ run'[p].stale \/ run'[q].stale
    BY <2>2 DEF SessionInv, RunsApart
  <2> QED
    BY <2>1, <2>3 DEF RunsApart
<1>13. Overlaps'
  <2> SUFFICES ASSUME NEW p \in Runs, NEW m \in run'[p].left
               PROVE  /\ m \in shown'.text => m \in overlap'
                      /\ \A q \in Runs : q # p /\ (m \in run'[q].left \/ m \in run'[q].next)
                           => m \in overlap'
    BY DEF Overlaps
  <2>1. CASE p = r
    <3>1. m \in todo
      BY <1>4, <1>5, <2>1
    <3>2. m \notin shown.text
      BY <1>2, <3>1
    <3>3. ASSUME NEW q \in Runs, q # r, m \in run[q].left \/ m \in run[q].next
          PROVE  m \in overlap'
      BY <1>1, <3>1, <3>2, <3>3
    <3> QED
      BY <1>1, <1>5, <2>1, <3>2, <3>3
  <2>2. CASE p # r
    <3>1. m \in run[p].left
      BY <1>5, <2>2
    <3>2. m \in todo => m \in overlap'
      BY <1>1, <2>2, <3>1
    <3>3. m \in shown.text => m \in overlap'
      BY <1>8, <3>1 DEF SessionInv, Overlaps
    <3>4. \A q \in Runs : q # p /\ q # r /\ (m \in run[q].left \/ m \in run[q].next)
            => m \in overlap'
      BY <1>8, <3>1 DEF SessionInv, Overlaps
    <3> QED
      BY <1>1, <1>4, <1>5, <3>2, <3>3, <3>4
  <2> QED
    BY <2>1, <2>2
<1>14. FailuresExplained'
  <2>1. \A m \in DOMAIN msg : Explained(m) => m \in DOMAIN msg' /\ Explained(m)'
    <3> TAKE m \in DOMAIN msg
    <3> QED
      BY <1>1, <1>7, <1>8, ExplainedStays DEF SessionInv
  <2>2. \A q \in Runs : run'[q].bad = run[q].bad
    BY <1>4, <1>5
  <2> QED
    BY <1>1, <2>1, <2>2 DEF SessionInv, FailuresExplained
<1>15. Ahead'
  BY <1>1 DEF SessionInv, Ahead, S!IndexUnique
<1> QED
  BY <1>7, <1>11, <1>12, <1>13, <1>14, <1>15 DEF SessionInv

LEMMA RunLoaded ==
  ASSUME SessionInv, NEW r \in Runs, S!RunLoad(r)
  PROVE  SessionInv'
<1> DEFINE x == [run[r] EXCEPT !.pc = "opening", !.got = sess]
<1>1. /\ UNCHANGED <<sess, msg, list, shown, send, torn, opened, overlap>>
      /\ run[r].pc = "next" /\ run[r].left # {} /\ run' = [run EXCEPT ![r] = x]
  BY DEF S!RunLoad
<1>2. run[r] \in Run /\ sess \in Session
  BY DEF SessionInv, SessionTypes
<1>3. /\ x \in Run /\ x.pc = "opening" /\ x.left = run[r].left /\ x.next = run[r].next
      /\ x.bad = run[r].bad /\ x.got = sess /\ x.stale = run[r].stale
  BY <1>2 DEF Run
<1> HIDE DEF x
<1>4. /\ run' \in [Runs -> Run] /\ run'[r] = x
      /\ \A q \in Runs : q # r => run'[q] = run[q]
  BY <1>1, <1>3, RunSet DEF SessionInv
<1>5. \A q \in Runs :
        /\ run'[q].left = run[q].left /\ run'[q].next = run[q].next
        /\ run'[q].bad = run[q].bad /\ run'[q].stale = run[q].stale
        /\ (run'[q].got = run[q].got \/ run'[q].got = sess)
        /\ \/ run'[q].pc = run[q].pc
           \/ run[q].pc = "next" /\ run'[q].pc = "opening" /\ run[q].left # {}
  <2> TAKE q \in Runs
  <2>1. CASE q = r
    <3>1. run'[q] = x /\ run[q] = run[r]
      BY <1>4, <2>1
    <3> QED
      BY <1>1, <1>3, <3>1
  <2>2. CASE q # r
    <3>1. run'[q] = run[q]
      BY <1>4, <2>2
    <3> QED
      BY <3>1
  <2> QED
    BY <2>1, <2>2
<1>6. SessionTypes'
  BY <1>1, <1>4 DEF SessionInv, SessionTypes
<1>7. Grows /\ Traced' = Traced
  BY <1>1, <1>5 DEF Grows, Traced
<1>8. Opened \subseteq Opened'
  BY <1>7, OpenedStays
<1>9. SeenOpened'
  <2>1. \A q \in Runs : run'[q].got.seen \subseteq Opened'
    BY <1>5, <1>8 DEF SessionInv, SeenOpened
  <2> QED
    BY <1>1, <1>8, <2>1 DEF SessionInv, SeenOpened
<1>10. RunsApart'
  BY <1>1, <1>5 DEF SessionInv, RunsApart
<1>11. Overlaps'
  BY <1>1, <1>5 DEF SessionInv, Overlaps
<1>12. FailuresExplained'
  BY <1>1, <1>5 DEF SessionInv, FailuresExplained, Explained
<1>13. Ahead'
  BY <1>1 DEF SessionInv, Ahead, S!IndexUnique
<1> QED
  BY <1>6, <1>9, <1>10, <1>11, <1>12, <1>13 DEF SessionInv

\* A run whose session has the index of its oldest message: it fails.  The
\* index was opened for that message, by a run that had it in hand as well,
\* or for another one that carries the same.
LEMMA Failed ==
  ASSUME SessionInv, NEW r \in Runs, NEW m \in run[r].left,
         msg[m].idx \in run[r].got.seen
  PROVE  m \in DOMAIN msg /\ Explained(m)
<1>1. m \in DOMAIN msg /\ ~msg[m].own /\ msg \in Seq(Message)
  BY DEF SessionInv, SessionTypes, RunsApart
<1>2. PICK n \in DOMAIN msg : n \in Traced /\ ~msg[n].own /\ msg[n].idx = msg[m].idx
  BY DEF SessionInv, SeenOpened, Opened
<1>3. msg[n] \in Message /\ msg[m] \in Message
  BY <1>1
<1>4. msg[n] = msg[m]
  BY <1>1, <1>2, <1>3 DEF Message
<1>5. CASE n # m
  BY <1>1, <1>4, <1>5 DEF Explained
<1>6. CASE n = m
  <2>1. m \in run[r].left /\ m \notin run[r].next
    BY DEF SessionInv, RunsApart
  <2>2. m \in shown.text => m \in overlap
    BY <2>1 DEF SessionInv, Overlaps
  <2>3. \A q \in Runs : q # r /\ m \in run[q].next => m \in overlap
    BY <2>1 DEF SessionInv, Overlaps
  <2>4. m \in opened \/ m \in shown.text \/ \E q \in Runs : m \in run[q].next
    BY <1>2, <1>6, TracedMember
  <2>5. m \in opened \cup overlap
    BY <2>1, <2>2, <2>3, <2>4
  <2> QED
    BY <1>1, <2>5 DEF Explained
<1> QED
  BY <1>5, <1>6

LEMMA RunSaved ==
  ASSUME SessionInv, NEW r \in Runs, S!RunSave(r)
  PROVE  SessionInv'
<1>1. /\ run[r].pc = "opening" /\ run[r].left # {} /\ run[r] \in Run
      /\ run[r].left \in SUBSET Nat /\ run[r].got \in Session
      /\ run[r].left \cap run[r].next = {}
      /\ UNCHANGED <<msg, list, shown, send, opened, overlap>>
  BY DEF S!RunSave, SessionInv, RunsApart, SessionTypes, Run
<1>2. PICK m \in run[r].left :
        m = CHOOSE k \in run[r].left : \A n \in run[r].left : k <= n
  BY <1>1, Least
<1> DEFINE i == msg[m].idx
           fail == [run[r] EXCEPT !.pc = "next", !.left = @ \ {m}, !.next = @ \ {m},
                                  !.bad = @ \cup {m}]
           done == [run[r] EXCEPT !.pc = "next", !.left = @ \ {m}, !.next = @ \cup {m}]
           new == [run[r].got EXCEPT !.seen = @ \cup {i}]
<1>3. \/ /\ i \in run[r].got.seen /\ run' = [run EXCEPT ![r] = fail]
         /\ UNCHANGED <<sess, torn>>
      \/ /\ i \notin run[r].got.seen /\ run' = [run EXCEPT ![r] = done]
         /\ sess' = new /\ torn' = (torn \/ sess # run[r].got)
  BY <1>2 DEF S!RunSave, S!Save
<1>4. /\ m \in DOMAIN msg /\ ~msg[m].own /\ i \in Nat /\ m \in Nat
      /\ torn \in BOOLEAN /\ sess \in Session
  <2>1. m \in DOMAIN msg /\ ~msg[m].own /\ msg \in Seq(Message)
    BY <1>2 DEF SessionInv, RunsApart, SessionTypes
  <2>2. msg[m] \in Message
    BY <2>1
  <2> QED
    BY <1>1, <1>2, <2>1, <2>2 DEF Message, SessionInv, SessionTypes
<1> DEFINE Left == run[r].left \ {m}
<1>5. /\ fail \in Run /\ fail.pc = "next" /\ fail.left = Left
      /\ fail.next = run[r].next /\ fail.bad = run[r].bad \cup {m}
      /\ fail.got = run[r].got /\ fail.stale = run[r].stale
  <2> DEFINE N == run[r].next \ {m}
             B == run[r].bad \cup {m}
  <2>1. Left \in SUBSET Nat /\ N \in SUBSET Nat /\ B \in SUBSET Nat /\ N = run[r].next
    BY <1>1, <1>2, <1>4 DEF Run
  <2>2. fail = [run[r] EXCEPT !.pc = "next", !.left = Left, !.next = N, !.bad = B]
    BY <1>1 DEF Run
  <2> HIDE DEF fail, Left, N
  <2>3. /\ fail \in Run /\ fail.pc = "next" /\ fail.left = Left /\ fail.next = N
        /\ fail.bad = B /\ fail.got = run[r].got /\ fail.stale = run[r].stale
    <3> HIDE DEF B
    <3> QED
      BY <1>1, <2>1, <2>2 DEF Run
  <2> QED
    BY <2>1, <2>3
<1>6. /\ done \in Run /\ done.pc = "next" /\ done.left = Left
      /\ done.next = run[r].next \cup {m} /\ done.bad = run[r].bad
      /\ done.got = run[r].got /\ done.stale = run[r].stale
  <2> DEFINE N == run[r].next \cup {m}
             B == run[r].bad
  <2>1. Left \in SUBSET Nat /\ N \in SUBSET Nat /\ B \in SUBSET Nat
    BY <1>1, <1>4 DEF Run
  <2>2. done = [run[r] EXCEPT !.pc = "next", !.left = Left, !.next = N]
    BY <1>1 DEF Run
  <2> HIDE DEF done, Left
  <2>3. /\ done \in Run /\ done.pc = "next" /\ done.left = Left /\ done.next = N
        /\ done.bad = B /\ done.got = run[r].got /\ done.stale = run[r].stale
    <3> HIDE DEF N
    <3> QED
      BY <1>1, <2>1, <2>2 DEF Run
  <2> QED
    BY <2>3
<1>7. /\ new \in Session /\ new.out = run[r].got.out
      /\ new.seen = run[r].got.seen \cup {i}
  BY <1>1, <1>4 DEF Session
<1> HIDE DEF fail, done, new
<1>8. PICK x \in {fail, done} :
        /\ run' = [run EXCEPT ![r] = x]
        /\ x = fail => i \in run[r].got.seen /\ UNCHANGED <<sess, torn>>
        /\ x # fail => sess' = new /\ torn' = (torn \/ sess # run[r].got)
  <2>1. fail.next # done.next
    BY <1>1, <1>2, <1>5, <1>6
  <2> QED
    BY <1>3, <2>1
<1>9. /\ x \in Run /\ x.pc = "next" /\ x.left = run[r].left \ {m}
      /\ x.got = run[r].got /\ x.stale = run[r].stale
      /\ run[r].next \subseteq x.next /\ x.next \subseteq run[r].next \cup {m}
      /\ x.bad \subseteq run[r].bad \cup {m}
      /\ x = fail \/ (m \in x.next /\ x.bad = run[r].bad)
  BY <1>5, <1>6, <1>8
<1>10. /\ run' \in [Runs -> Run] /\ run'[r] = x
       /\ \A q \in Runs : q # r => run'[q] = run[q]
  BY <1>8, <1>9, RunSet DEF SessionInv
<1>11. SessionTypes'
  BY <1>1, <1>4, <1>7, <1>8, <1>10 DEF SessionInv, SessionTypes
<1>12. Grows /\ Traced \subseteq Traced'
  <2> SUFFICES ASSUME NEW n \in Traced PROVE n \in Traced'
    BY <1>1 DEF Grows
  <2>1. CASE n \in opened \/ n \in shown.text
    BY <1>1, <2>1, TracedMember
  <2>2. ASSUME NEW q \in Runs, n \in run[q].next PROVE n \in Traced'
    <3>1. n \in run'[q].next
      BY <1>9, <1>10, <2>2
    <3> QED
      BY <3>1, TracedMember
  <2> QED
    BY <2>1, <2>2, TracedMember
<1>13. Opened \subseteq Opened'
  BY <1>12, OpenedStays
<1>14. SeenOpened'
  <2>1. \A q \in Runs : run'[q].got = run[q].got
    BY <1>9, <1>10
  <2>2. sess'.seen \subseteq Opened'
    <3>1. CASE x = fail
      BY <1>8, <1>13, <3>1 DEF SessionInv, SeenOpened
    <3>2. CASE x # fail
      <4>1. m \in Traced'
        BY <1>9, <1>10, <3>2, TracedMember
      <4>2. i \in Opened'
        BY <1>1, <1>4, <4>1 DEF Opened
      <4> QED
        BY <1>7, <1>8, <1>13, <3>2, <4>2 DEF SessionInv, SeenOpened
    <3> QED
      BY <3>1, <3>2
  <2> QED
    BY <1>1, <1>13, <2>1, <2>2 DEF SessionInv, SeenOpened
<1>15. RunsApart'
  <2>1. \A q \in Runs :
          /\ run'[q].pc \in {"idle", "starting"} =>
               run'[q].left = {} /\ run'[q].next = {} /\ run'[q].bad = {}
          /\ run'[q].pc = "opening" => run'[q].left # {}
          /\ run'[q].left \cap run'[q].next = {}
          /\ \A n \in run'[q].left : n \in DOMAIN msg' /\ ~msg'[n].own
          /\ run'[q].pc \in {"next", "opening"} /\ ~run'[q].stale =>
               shown'.text \subseteq run'[q].next
    <3> TAKE q \in Runs
    <3>1. CASE q = r
      <4>1. \A n \in run[r].left : n \in DOMAIN msg /\ ~msg[n].own
        BY DEF SessionInv, RunsApart
      <4>2. ~run[r].stale => shown.text \subseteq run[r].next
        BY <1>1 DEF SessionInv, RunsApart
      <4> QED
        BY <1>1, <1>9, <1>10, <3>1, <4>1, <4>2
    <3>2. CASE q # r
      <4>1. run'[q] = run[q]
        BY <1>10, <3>2
      <4> QED
        BY <1>1, <4>1 DEF SessionInv, RunsApart
    <3> QED
      BY <3>1, <3>2
  <2>2. \A q \in Runs : run'[q].stale = run[q].stale /\ (run'[q].pc = "idle" <=> run[q].pc = "idle")
    BY <1>1, <1>9, <1>10
  <2>3. \A p, q \in Runs : p # q =>
          \/ run'[p].pc = "idle" \/ run'[q].pc = "idle" \/ run'[p].stale \/ run'[q].stale
    BY <2>2 DEF SessionInv, RunsApart
  <2> QED
    BY <2>1, <2>3 DEF RunsApart
<1>16. Overlaps'
  <2> SUFFICES ASSUME NEW p \in Runs, NEW n \in run'[p].left
               PROVE  /\ n \in shown'.text => n \in overlap'
                      /\ \A q \in Runs : q # p /\ (n \in run'[q].left \/ n \in run'[q].next)
                           => n \in overlap'
    BY DEF Overlaps
  <2>1. n \in run[p].left /\ (p # r \/ n # m)
    BY <1>9, <1>10
  <2>2. n \in shown.text => n \in overlap
    BY <2>1 DEF SessionInv, Overlaps
  <2>3. \A q \in Runs : q # p /\ (n \in run[q].left \/ n \in run[q].next) => n \in overlap
    BY <2>1 DEF SessionInv, Overlaps
  <2>4. ASSUME NEW q \in Runs, q # p, n \in run'[q].left \/ n \in run'[q].next
        PROVE  n \in run[q].left \/ n \in run[q].next
    BY <1>2, <1>9, <1>10, <2>4
  <2> QED
    BY <1>1, <2>2, <2>3, <2>4
<1>17. FailuresExplained'
  <2>1. \A n \in DOMAIN msg : Explained(n) => n \in DOMAIN msg' /\ Explained(n)'
    <3> TAKE n \in DOMAIN msg
    <3> QED
      BY <1>1, <1>11, <1>12, ExplainedStays DEF SessionInv
  <2>2. x = fail => Explained(m)
    BY <1>8, Failed
  <2>3. \A q \in Runs : \A n \in run'[q].bad : n \in DOMAIN msg /\ Explained(n)
    <3> TAKE q \in Runs
    <3> TAKE n \in run'[q].bad
    <3>1. n \in run[q].bad \/ (x = fail /\ n = m)
      BY <1>9, <1>10
    <3> QED
      BY <1>4, <2>2, <3>1 DEF SessionInv, FailuresExplained
  <2> QED
    BY <1>1, <2>1, <2>3 DEF SessionInv, FailuresExplained
<1>18. Ahead'
  <2>1. torn => torn'
    BY <1>4, <1>8
  <2>2. ~torn' => sess'.out = sess.out
    BY <1>4, <1>7, <1>8
  <2> QED
    BY <1>1, <2>1, <2>2 DEF SessionInv, Ahead, S!IndexUnique
<1> QED
  BY <1>11, <1>14, <1>15, <1>16, <1>17, <1>18 DEF SessionInv

LEMMA RunEnded ==
  ASSUME SessionInv, NEW r \in Runs, S!RunEnd(r)
  PROVE  SessionInv'
<1>1. /\ UNCHANGED <<sess, msg, list, send, torn, overlap>>
      /\ run[r].pc = "next" /\ run[r].left = {} /\ run' = [run EXCEPT ![r] = S!NoRun]
      /\ IF run[r].stale
         THEN opened' = opened \cup (run[r].next \ shown.text) /\ shown' = shown
         ELSE shown' = [text |-> run[r].next, failed |-> run[r].bad] /\ opened' = opened
  BY DEF S!RunEnd
<1>2. /\ S!NoRun \in Run /\ S!NoRun.pc = "idle" /\ S!NoRun.left = {}
      /\ S!NoRun.next = {} /\ S!NoRun.bad = {} /\ S!NoRun.got.seen = {}
      /\ ~S!NoRun.stale
  BY DEF S!NoRun, S!New, Run, Session
<1>3. /\ run' \in [Runs -> Run] /\ run'[r] = S!NoRun
      /\ \A q \in Runs : q # r => run'[q] = run[q]
  BY <1>1, <1>2, RunSet DEF SessionInv
<1>4. /\ run[r].next \in SUBSET Nat /\ run[r].bad \in SUBSET Nat
      /\ run[r].stale \in BOOLEAN
  BY DEF SessionInv, SessionTypes, Run
<1>5. ~run[r].stale => shown'.text = run[r].next /\ shown'.failed = run[r].bad
  BY <1>1
<1>6. SessionTypes'
  BY <1>1, <1>3, <1>4 DEF SessionInv, SessionTypes
<1>7. ~run[r].stale => shown.text \subseteq run[r].next
  BY <1>1 DEF SessionInv, RunsApart
<1>8. Grows /\ Traced \subseteq Traced' /\ opened \subseteq opened'
  <2> SUFFICES ASSUME NEW n \in Traced PROVE n \in Traced'
    BY <1>1 DEF Grows
  <2>1. CASE n \in opened
    BY <1>1, <2>1, TracedMember
  <2>2. CASE n \in shown.text
    BY <1>1, <1>5, <1>7, <2>2, TracedMember
  <2>3. CASE n \in run[r].next
    BY <1>1, <1>5, <2>2, <2>3, TracedMember
  <2>4. ASSUME NEW q \in Runs, q # r, n \in run[q].next PROVE n \in Traced'
    <3>1. n \in run'[q].next
      BY <1>3, <2>4
    <3> QED
      BY <3>1, TracedMember
  <2> QED
    BY <2>1, <2>2, <2>3, <2>4, TracedMember
<1>9. Opened \subseteq Opened'
  BY <1>8, OpenedStays
<1>10. SeenOpened'
  <2>1. \A q \in Runs : run'[q].got = run[q].got \/ run'[q].got.seen = {}
    BY <1>2, <1>3
  <2>2. \A q \in Runs : run'[q].got.seen \subseteq Opened'
    BY <1>9, <2>1 DEF SessionInv, SeenOpened
  <2> QED
    BY <1>1, <1>9, <2>2 DEF SessionInv, SeenOpened
<1>11. RunsApart'
  <2>1. ASSUME NEW q \in Runs, q # r, run[q].pc \in {"next", "opening"}, ~run[q].stale
        PROVE  shown'.text \subseteq run[q].next
    <3>1. run[r].stale
      BY <1>1, <2>1 DEF SessionInv, RunsApart
    <3> QED
      BY <1>1, <2>1, <3>1 DEF SessionInv, RunsApart
  <2>2. \A q \in Runs :
          /\ run'[q].pc \in {"idle", "starting"} =>
               run'[q].left = {} /\ run'[q].next = {} /\ run'[q].bad = {}
          /\ run'[q].pc = "opening" => run'[q].left # {}
          /\ run'[q].left \cap run'[q].next = {}
          /\ \A n \in run'[q].left : n \in DOMAIN msg' /\ ~msg'[n].own
          /\ run'[q].pc \in {"next", "opening"} /\ ~run'[q].stale =>
               shown'.text \subseteq run'[q].next
    <3> TAKE q \in Runs
    <3>1. CASE q = r
      BY <1>2, <1>3, <3>1
    <3>2. CASE q # r
      <4>1. run'[q] = run[q]
        BY <1>3, <3>2
      <4> QED
        BY <1>1, <2>1, <3>2, <4>1 DEF SessionInv, RunsApart
    <3> QED
      BY <3>1, <3>2
  <2>3. \A p, q \in Runs : p # q =>
          \/ run'[p].pc = "idle" \/ run'[q].pc = "idle" \/ run'[p].stale \/ run'[q].stale
    BY <1>2, <1>3 DEF SessionInv, RunsApart
  <2> QED
    BY <2>2, <2>3 DEF RunsApart
<1>12. Overlaps'
  <2> SUFFICES ASSUME NEW p \in Runs, NEW n \in run'[p].left
               PROVE  /\ n \in shown'.text => n \in overlap'
                      /\ \A q \in Runs : q # p /\ (n \in run'[q].left \/ n \in run'[q].next)
                           => n \in overlap'
    BY DEF Overlaps
  <2>1. n \in run[p].left /\ p # r
    BY <1>2, <1>3
  <2>2. n \in shown.text => n \in overlap
    BY <2>1 DEF SessionInv, Overlaps
  <2>3. \A q \in Runs : q # p /\ (n \in run[q].left \/ n \in run[q].next) => n \in overlap
    BY <2>1 DEF SessionInv, Overlaps
  <2>4. shown'.text = shown.text \/ shown'.text = run[r].next
    BY <1>1, <1>5
  <2>5. ASSUME NEW q \in Runs, q # p, n \in run'[q].left \/ n \in run'[q].next
        PROVE  n \in run[q].left \/ n \in run[q].next
    BY <1>2, <1>3, <2>5
  <2> QED
    BY <1>1, <2>1, <2>2, <2>3, <2>4, <2>5
<1>13. FailuresExplained'
  <2>1. \A n \in DOMAIN msg : Explained(n) => n \in DOMAIN msg' /\ Explained(n)'
    <3> TAKE n \in DOMAIN msg
    <3> QED
      BY <1>1, <1>6, <1>8, ExplainedStays DEF SessionInv
  <2>2. \A q \in Runs : run'[q].bad \subseteq run[q].bad
    BY <1>2, <1>3
  <2>3. shown'.failed = shown.failed \/ shown'.failed = run[r].bad
    BY <1>1, <1>5
  <2> QED
    BY <2>1, <2>2, <2>3 DEF SessionInv, FailuresExplained
<1>14. Ahead'
  BY <1>1 DEF SessionInv, Ahead, S!IndexUnique
<1> QED
  BY <1>6, <1>10, <1>11, <1>12, <1>13, <1>14 DEF SessionInv

\* A message reaches the page: the runs are cancelled, and one more starts.
LEMMA Arrived ==
  ASSUME SessionInv, NEW m \in 1 .. Len(msg), S!Arrive(m)
  PROVE  SessionInv'
<1> DEFINE first == [S!NoRun EXCEPT !.pc = "starting"]
           late(r) == [run[r] EXCEPT !.stale = TRUE]
<1>1. /\ UNCHANGED <<sess, msg, shown, send, torn, opened, overlap>>
      /\ list' = list \cup {m} /\ S!Rerun(run)
  BY DEF S!Arrive
<1>2. PICK free \in Runs :
        /\ run[free].pc = "idle"
        /\ run' = [r \in Runs |-> IF r = free THEN first
                   ELSE IF run[r].pc = "idle" THEN S!NoRun ELSE late(r)]
  BY <1>1 DEF S!Rerun
<1>3. /\ S!NoRun \in Run /\ S!NoRun.pc = "idle" /\ S!NoRun.left = {}
      /\ S!NoRun.next = {} /\ S!NoRun.bad = {} /\ S!NoRun.got.seen = {}
      /\ ~S!NoRun.stale
  BY DEF S!NoRun, S!New, Run, Session
<1>4. /\ first \in Run /\ first.pc = "starting" /\ first.left = {}
      /\ first.next = {} /\ first.bad = {} /\ first.got.seen = {} /\ ~first.stale
  BY <1>3 DEF Run
<1>5. ASSUME NEW r \in Runs
      PROVE  /\ late(r) \in Run /\ late(r).pc = run[r].pc /\ late(r).left = run[r].left
             /\ late(r).next = run[r].next /\ late(r).bad = run[r].bad
             /\ late(r).got = run[r].got /\ late(r).stale
  <2>1. run[r] \in Run
    BY DEF SessionInv, SessionTypes
  <2> QED
    BY <2>1 DEF Run
<1>6. \A r \in Runs : run[r].pc = "idle" =>
        run[r].left = {} /\ run[r].next = {} /\ run[r].bad = {}
  BY DEF SessionInv, RunsApart
<1> HIDE DEF first, late
<1>7. ASSUME NEW r \in Runs
      PROVE  /\ run'[r] \in Run
             /\ run'[r].left = run[r].left /\ run'[r].next = run[r].next
             /\ run'[r].bad = run[r].bad
             /\ run'[r].got = run[r].got \/ run'[r].got.seen = {}
             /\ run'[r].pc = run[r].pc \/ run'[r].pc = "starting"
             /\ run'[r].pc = "idle" \/ run'[r].stale \/ r = free
             /\ run'[free].pc = "starting"
  <2>1. run'[free] = first /\ (r # free => run'[r] = IF run[r].pc = "idle" THEN S!NoRun ELSE late(r))
    BY <1>2
  <2>2. CASE r = free
    BY <1>2, <1>4, <1>6, <2>1, <2>2
  <2>3. CASE r # free /\ run[r].pc = "idle"
    BY <1>3, <1>4, <1>6, <2>1, <2>3
  <2>4. CASE r # free /\ run[r].pc # "idle"
    <3>1. run'[r] = late(r)
      BY <2>1, <2>4
    <3> QED
      BY <1>4, <1>5, <2>1, <2>4, <3>1
  <2> QED
    BY <2>2, <2>3, <2>4
<1>8. SessionTypes'
  <2>1. run' \in [Runs -> Run]
    BY <1>2, <1>7
  <2>2. m \in DOMAIN msg
    BY DEF SessionInv, SessionTypes
  <2> QED
    BY <1>1, <2>1, <2>2 DEF SessionInv, SessionTypes
<1>9. Grows /\ Traced' = Traced
  BY <1>1, <1>7 DEF Grows, Traced
<1>10. Opened \subseteq Opened'
  BY <1>9, OpenedStays
<1>11. SeenOpened'
  <2>1. \A q \in Runs : run'[q].got.seen \subseteq Opened'
    BY <1>7, <1>10 DEF SessionInv, SeenOpened
  <2> QED
    BY <1>1, <1>10, <2>1 DEF SessionInv, SeenOpened
<1>12. RunsApart'
  <2>1. \A q \in Runs :
          /\ run'[q].pc \in {"idle", "starting"} =>
               run'[q].left = {} /\ run'[q].next = {} /\ run'[q].bad = {}
          /\ run'[q].pc = "opening" => run'[q].left # {}
          /\ run'[q].left \cap run'[q].next = {}
          /\ \A n \in run'[q].left : n \in DOMAIN msg' /\ ~msg'[n].own
          /\ run'[q].pc \in {"next", "opening"} /\ ~run'[q].stale =>
               shown'.text \subseteq run'[q].next
    <3> TAKE q \in Runs
    <3>1. CASE q = free
      BY <1>2, <1>6, <1>7, <3>1
    <3>2. CASE q # free /\ run[q].pc = "idle"
      BY <1>1, <1>2, <1>3, <3>2
    <3>3. CASE q # free /\ run[q].pc # "idle"
      <4>1. run'[q] = late(q)
        BY <1>2, <3>3
      <4>2. /\ run[q].pc = "starting" => run[q].left = {} /\ run[q].next = {} /\ run[q].bad = {}
            /\ run[q].pc = "opening" => run[q].left # {}
            /\ run[q].left \cap run[q].next = {}
            /\ \A n \in run[q].left : n \in DOMAIN msg /\ ~msg[n].own
        BY DEF SessionInv, RunsApart
      <4> QED
        BY <1>1, <1>5, <3>3, <4>1, <4>2
    <3> QED
      BY <3>1, <3>2, <3>3
  <2>2. \A p, q \in Runs : p # q =>
          \/ run'[p].pc = "idle" \/ run'[q].pc = "idle" \/ run'[p].stale \/ run'[q].stale
    BY <1>7
  <2> QED
    BY <2>1, <2>2 DEF RunsApart
<1>13. Overlaps'
  BY <1>1, <1>7 DEF SessionInv, Overlaps
<1>14. FailuresExplained'
  BY <1>1, <1>7 DEF SessionInv, FailuresExplained, Explained
<1>15. Ahead'
  BY <1>1 DEF SessionInv, Ahead, S!IndexUnique
<1> QED
  BY <1>8, <1>11, <1>12, <1>13, <1>14, <1>15 DEF SessionInv

\* The page is reloaded: what it has opened cannot be opened again.
LEMMA Reloaded ==
  ASSUME SessionInv, S!Reload
  PROVE  SessionInv'
<1> DEFINE first == [S!NoRun EXCEPT !.pc = "starting"]
<1>1. /\ UNCHANGED <<sess, msg, torn, overlap>> /\ list' = 1 .. Len(msg)
      /\ opened' = opened \cup shown.text \cup UNION {run[r].next : r \in Runs}
      /\ shown' = [text |-> {}, failed |-> {}] /\ send' = S!NoSend
      /\ S!Rerun([r \in Runs |-> S!NoRun])
  BY DEF S!Reload
<1>2. /\ S!NoRun \in Run /\ S!NoRun.pc = "idle" /\ S!NoRun.left = {}
      /\ S!NoRun.next = {} /\ S!NoRun.bad = {} /\ S!NoRun.got.seen = {}
  BY DEF S!NoRun, S!New, Run, Session
<1>3. /\ first \in Run /\ first.pc = "starting" /\ first.left = {}
      /\ first.next = {} /\ first.bad = {} /\ first.got.seen = {}
  BY <1>2 DEF Run
<1> HIDE DEF first
<1>4. PICK free \in Runs :
        run' = [r \in Runs |-> IF r = free THEN first ELSE S!NoRun]
  <2>1. PICK free \in {r \in Runs : [q \in Runs |-> S!NoRun][r].pc = "idle"} :
          run' = [r \in Runs |->
            IF r = free THEN first
            ELSE IF [q \in Runs |-> S!NoRun][r].pc = "idle" THEN S!NoRun
            ELSE [[q \in Runs |-> S!NoRun][r] EXCEPT !.stale = TRUE]]
    BY <1>1 DEF S!Rerun, first
  <2>2. \A r \in Runs : [q \in Runs |-> S!NoRun][r].pc = "idle"
    BY <1>2
  <2> QED
    BY <2>1, <2>2
<1>5. \A r \in Runs :
        /\ run'[r] \in Run /\ run'[r].left = {} /\ run'[r].next = {} /\ run'[r].bad = {}
        /\ run'[r].got.seen = {} /\ run'[r].pc \in {"idle", "starting"}
        /\ r # free => run'[r].pc = "idle"
  BY <1>2, <1>3, <1>4
<1>6. SessionTypes'
  <2>1. run' \in [Runs -> Run]
    BY <1>4, <1>5
  <2>2. S!NoSend \in [pc : {"idle", "encrypting"}, got : Session]
    BY DEF S!NoSend, S!New, Session
  <2>3. list' \subseteq DOMAIN msg
    BY <1>1 DEF SessionInv, SessionTypes
  <2>4. shown' \in [text : SUBSET Nat, failed : SUBSET Nat]
    BY <1>1
  <2> QED
    BY <1>1, <2>1, <2>2, <2>3, <2>4 DEF SessionInv, SessionTypes
<1>7. Grows /\ Traced \subseteq Traced'
  BY <1>1 DEF Grows, Traced
<1>8. Opened \subseteq Opened'
  BY <1>7, OpenedStays
<1>9. SeenOpened'
  <2>1. send'.got.seen = {}
    BY <1>1 DEF S!NoSend, S!New
  <2> QED
    BY <1>1, <1>5, <1>8, <2>1 DEF SessionInv, SeenOpened
<1>10. RunsApart' /\ Overlaps'
  BY <1>5 DEF RunsApart, Overlaps
<1>11. FailuresExplained'
  BY <1>1, <1>5 DEF FailuresExplained
<1>12. Ahead'
  BY <1>1 DEF SessionInv, Ahead, S!IndexUnique
<1> QED
  BY <1>6, <1>9, <1>10, <1>11, <1>12 DEF SessionInv

LEMMA SessionInit ==
  ASSUME S!Init
  PROVE  SessionInv
<1>1. /\ S!NoRun \in Run /\ S!NoRun.pc = "idle" /\ S!NoRun.left = {}
      /\ S!NoRun.next = {} /\ S!NoRun.bad = {} /\ S!NoRun.got.seen = {}
      /\ S!New \in Session /\ S!New.seen = {}
      /\ S!NoSend \in [pc : {"idle", "encrypting"}, got : Session]
      /\ S!NoSend.got.seen = {}
  BY DEF S!NoRun, S!NoSend, S!New, Run, Session
<1>2. /\ \A r \in Runs : run[r] = S!NoRun
      /\ msg = << >> /\ DOMAIN msg = {} /\ Len(msg) = 0 /\ msg \in Seq(Message)
      /\ shown.text = {} /\ shown.failed = {} /\ sess.seen = {} /\ send.got.seen = {}
  BY <1>1 DEF S!Init
<1>3. SessionTypes
  BY <1>1, <1>2 DEF S!Init, SessionTypes
<1>4. Ahead /\ SeenOpened
  BY <1>1, <1>2 DEF Ahead, S!IndexUnique, SeenOpened
<1>5. RunsApart /\ Overlaps /\ FailuresExplained
  BY <1>1, <1>2 DEF RunsApart, Overlaps, FailuresExplained
<1> QED
  BY <1>3, <1>4, <1>5 DEF SessionInv

LEMMA SessionStep ==
  ASSUME MaxMsgs \in Nat, SessionInv, [S!Next]_(S!olmVars)
  PROVE  SessionInv'
<1>1. CASE S!Next
  BY <1>1, SendLoaded, SendSaved, PeerPosted, Arrived, RunStarted, RunLoaded,
     RunSaved, RunEnded, Reloaded DEF S!Next
<1>2. CASE UNCHANGED S!olmVars
  <2>1. UNCHANGED <<sess, msg, list, shown, send, run, torn, opened, overlap>>
    BY <1>2 DEF S!olmVars
  <2>2. SessionTypes'
    BY <2>1 DEF SessionInv, SessionTypes
  <2>3. Ahead'
    BY <2>1 DEF SessionInv, Ahead, S!IndexUnique
  <2>4. RunsApart' /\ Overlaps' /\ FailuresExplained' /\ Opened \subseteq Opened'
    BY <2>1, <2>2, MessageAdded
  <2>5. SeenOpened'
    BY <2>1, <2>4 DEF SessionInv, SeenOpened
  <2> QED
    BY <2>2, <2>3, <2>4, <2>5 DEF SessionInv
<1> QED
  BY <1>1, <1>2

-----------------------------------------------------------------------------
(* The one-time keys.                                                      *)

Account == [id : Nat, next : Nat, priv : SUBSET Nat]
Key == [id : Nat, pair : Nat, by : Nat]
Row == [key : Key, used : BOOLEAN]
Resting == {"idle"} \cup K!Jobs
Tab == [pc : Resting \cup {"created", "register", "topping", "upload", "inbound"},
        got : Account, dev : Nat, keys : SUBSET Key]

KeyTypes ==
  /\ acct \in Account /\ dev \in K!Devices
  /\ tab \in [Tabs -> Tab]
  /\ served \in [K!Devices -> Nat]
  /\ stock \in [K!Devices -> SUBSET Row]
  /\ wire \subseteq Key
  /\ mint \in Nat /\ idents \in Nat

\* A row marks its key as given out.
Spent(k) == [key |-> k, used |-> TRUE]

\* The rows of a device are those of the identity served for it, each under a
\* key id of its own; a key given out keeps its row; what the browser is asked
\* to open was given out.
RowsKept ==
  /\ \A d \in K!Devices : \A r \in stock[d] :
       /\ served[d] # 0 /\ r.key.by = served[d]
       /\ \A s \in stock[d] : s.key.id = r.key.id => s = r
  /\ \A d, e \in K!Devices : served[d] # 0 /\ served[e] = served[d] => e = d
  /\ \A h \in handed : h[2] = 0 /\ \E d \in K!Devices : Spent(h[1]) \in stock[d]
  /\ \A k \in wire : \E h \in handed : h[1] = k
  /\ \A t \in Tabs : tab[t].pc = "inbound" => tab[t].got.id # 0 /\
       \A k \in tab[t].keys : \E h \in handed : h[1] = k

\* An account under way to its first registration is served nowhere yet, and
\* no two tabs have the same.
Setting == {t \in Tabs : tab[t].pc \in {"created", "register"}}
SettingUp ==
  /\ \A d \in K!Devices : served[d] <= idents
  /\ \A t \in Setting :
       /\ tab[t].got.id <= idents
       /\ \A d \in K!Devices : served[d] # tab[t].got.id
       /\ \A u \in Setting : tab[u].got.id = tab[t].got.id => u = t

\* The keys that a tab has generated and not published.
Making == {t \in Tabs : tab[t].pc \in {"created", "register", "topping", "upload"}}

\* A key pair is of one key, and a key is with one tab or in a stock.
PairsApart ==
  /\ \A t \in Making : tab[t].got.id # 0 /\ \A k \in tab[t].keys :
       /\ k.by = tab[t].got.id /\ k.pair <= mint
       /\ \A l \in tab[t].keys : l.id = k.id \/ l.pair = k.pair => l = k
       /\ \A u \in Making : u # t => \A l \in tab[u].keys : l.pair # k.pair
       /\ \A d \in K!Devices : \A r \in stock[d] : r.key.pair # k.pair
  /\ \A d \in K!Devices : \A r \in stock[d] :
       /\ r.key.pair <= mint
       /\ \A e \in K!Devices : \A s \in stock[e] :
            s.key.pair = r.key.pair => s.key = r.key

\* At the device of the moment there is one account, unless on record: the one
\* that is served, and that the tabs have loaded.
OneAccount ==
  /\ \A d \in K!Devices : served[d] # 0 => d <= dev
  /\ \A t \in Tabs : tab[t].dev <= dev /\ (tab[t].pc # "idle" => tab[t].dev # 0)
  /\ acct.id = 0 => served[dev] = 0
  /\ K!IdentityAgrees
  /\ \A t \in Tabs : tab[t].dev = dev =>
       /\ tab[t].pc \in {"register", "topping", "upload"} => acct.id # 0
       /\ tab[t].pc \in {"register", "topping", "upload", "inbound"} =>
            tab[t].got.id \in {0, acct.id} \/ dev \in clash

\* A private key stays with the account while its public key is with a tab or
\* on offer.
Kept(pair) == pair \in acct.priv \/ pair \in lost
PrivateKept ==
  /\ \A t \in Tabs : tab[t].pc \in {"created", "topping"} =>
       \A k \in tab[t].keys : k.pair \in tab[t].got.priv
  /\ \A t \in Tabs :
       /\ tab[t].pc \in {"register", "upload"} /\ tab[t].dev = dev
       /\ tab[t].got.id = acct.id /\ dev \notin clash
       => \A k \in tab[t].keys : Kept(k.pair)
  /\ served[dev] = acct.id /\ dev \notin clash =>
       \A r \in stock[dev] : ~r.used => Kept(r.key.pair)

KeyInv == /\ KeyTypes /\ RowsKept /\ SettingUp /\ PairsApart /\ OneAccount
          /\ PrivateKept

\* A tab that is past its wrap key has one, and at the device of the moment it
\* is the one that is stored and that seals the account, unless on record.
Sealed ==
  /\ wrap \in Nat /\ wraps \in Nat /\ seal \in Nat /\ held \in [Tabs -> Nat]
  /\ \A t \in Tabs : tab[t].pc \notin Resting => held[t] # 0
  /\ acct.id # 0 => seal # 0
  /\ dev \notin clash =>
       /\ acct.id # 0 => seal = wrap
       /\ \A t \in Tabs : held[t] # 0 /\ tab[t].dev = dev => held[t] = wrap

LEMMA TabSet ==
  ASSUME KeyTypes, NEW t \in Tabs, NEW x \in Tab, tab' = [tab EXCEPT ![t] = x]
  PROVE  /\ tab' \in [Tabs -> Tab] /\ tab'[t] = x
         /\ \A u \in Tabs : u # t => tab'[u] = tab[u]
  BY DEF KeyTypes

LEMMA IdleTab ==
  /\ K!NoAcct \in Account /\ K!NoAcct.id = 0
  /\ K!Idle \in Tab /\ K!Idle.pc = "idle" /\ K!Idle.dev = 0 /\ K!Idle.keys = {}
  /\ K!Idle.got = K!NoAcct
<1>1. K!NoAcct \in Account /\ K!NoAcct.id = 0
  BY DEF K!NoAcct, Account
<1> QED
  BY <1>1 DEF K!Idle, Tab, Resting

\* generateOneTimeKeysOnAccount.
LEMMA Minted ==
  ASSUME Batch \in Nat, mint \in Nat, NEW a \in Account
  PROVE  /\ K!Extended(a) \in Account /\ K!Extended(a).id = a.id
         /\ K!Fresh(a) \in SUBSET Key
         /\ \A k \in K!Fresh(a) :
              /\ k.by = a.id /\ k.pair > mint /\ k.pair <= mint + Batch
              /\ k.pair \in K!Extended(a).priv
              /\ \A l \in K!Fresh(a) : l.id = k.id \/ l.pair = k.pair => l = k
<1>1. a.id \in Nat /\ a.next \in Nat /\ a.priv \in SUBSET Nat
  BY DEF Account
<1>2. /\ \A i \in 0 .. Batch - 1 : /\ a.next + i \in Nat /\ mint + i + 1 \in Nat
                                   /\ mint + i + 1 > mint /\ mint + i + 1 <= mint + Batch
  BY <1>1
<1>3. K!Fresh(a) \in SUBSET Key
  BY <1>1, <1>2 DEF K!Fresh, Key
<1>4. /\ K!Extended(a) \in Account /\ K!Extended(a).id = a.id
      /\ K!Extended(a).priv = a.priv \cup {mint + i + 1 : i \in 0 .. Batch - 1}
  <2> DEFINE p == a.priv \cup {mint + i + 1 : i \in 0 .. Batch - 1}
  <2>1. p \in SUBSET Nat /\ a.next + Batch \in Nat
    BY <1>1, <1>2
  <2>2. K!Extended(a) = [a EXCEPT !.next = a.next + Batch, !.priv = p]
    BY DEF K!Extended, Account
  <2> HIDE DEF p
  <2>3. K!Extended(a) \in Account /\ K!Extended(a).id = a.id /\ K!Extended(a).priv = p
    BY <2>1, <2>2 DEF Account
  <2> QED
    BY <2>3 DEF p
<1>5. ASSUME NEW k \in K!Fresh(a)
      PROVE  /\ k.by = a.id /\ k.pair > mint /\ k.pair <= mint + Batch
             /\ k.pair \in K!Extended(a).priv
             /\ \A l \in K!Fresh(a) : l.id = k.id \/ l.pair = k.pair => l = k
  <2>1. PICK i \in 0 .. Batch - 1 : k = [id |-> a.next + i, pair |-> mint + i + 1, by |-> a.id]
    BY DEF K!Fresh
  <2>2. ASSUME NEW l \in K!Fresh(a), l.id = k.id \/ l.pair = k.pair
        PROVE  l = k
    <3>1. PICK j \in 0 .. Batch - 1 :
            l = [id |-> a.next + j, pair |-> mint + j + 1, by |-> a.id]
      BY DEF K!Fresh
    <3>2. i = j
      BY <1>1, <2>1, <2>2, <3>1
    <3> QED
      BY <2>1, <3>1, <3>2
  <2> QED
    BY <1>2, <1>4, <2>1, <2>2
<1> QED
  BY <1>3, <1>4, <1>5

\* What an insert leaves of a stock: what has been given out, and otherwise
\* rows that were there or whose key id was free.
LEMMA StockedRows ==
  ASSUME NEW rows \in SUBSET Row, NEW keys \in SUBSET Key
  PROVE  /\ K!Stocked(rows, keys) \in SUBSET Row
         /\ \A r \in rows : r.used => r \in K!Stocked(rows, keys)
         /\ \A r \in K!Stocked(rows, keys) :
              \/ r \in rows
              \/ \E k \in keys : /\ r = [key |-> k, used |-> FALSE]
                                 /\ \A s \in rows : s.key.id # k.id
<1> DEFINE all == rows \cup {K!Entry(k) : k \in {k \in keys : \A r \in rows : r.key.id # k.id}}
           over == {r \in K!Open(all) :
                      K!Cardinality({s \in K!Open(all) : s.key.pair > r.key.pair}) >= MaxStored}
<1>1. K!Stocked(rows, keys) = all \ over
  BY DEF K!Stocked
<1>2. \A r \in over : ~r.used
  BY DEF K!Open
<1> HIDE DEF over
<1>3. \A r \in all : \/ r \in rows
                     \/ \E k \in keys : /\ r = [key |-> k, used |-> FALSE]
                                        /\ \A s \in rows : s.key.id # k.id
  BY DEF K!Entry
<1>4. all \in SUBSET Row /\ rows \subseteq all
  <2>1. \A k \in keys : [key |-> k, used |-> FALSE] \in Row
    BY DEF Row
  <2> QED
    BY <1>3, <2>1
<1> HIDE DEF all
<1> QED
  BY <1>1, <1>2, <1>3, <1>4

\* A tab has a new batch of keys, for an account that it has created or that
\* it has loaded.
LEMMA Generated ==
  ASSUME KeyInv, Batch \in Nat, NEW t \in Tabs, NEW a \in Account, a.id # 0,
         NEW pc \in {"created", "topping"}, tab[t].pc # "idle", mint' = mint + Batch,
         tab' = [tab EXCEPT ![t] = [pc |-> pc, got |-> K!Extended(a), dev |-> tab[t].dev,
                                    keys |-> K!Fresh(a)]],
         UNCHANGED <<acct, dev, served, stock, wire, handed, clash, lost>>,
         \/ pc = "created" /\ a.id = idents + 1 /\ idents' = a.id
         \/ pc = "topping" /\ a.id = acct.id /\ idents' = idents
  PROVE  KeyInv'
<1> DEFINE x == [pc |-> pc, got |-> K!Extended(a), dev |-> tab[t].dev, keys |-> K!Fresh(a)]
           keys == K!Fresh(a)
           got == K!Extended(a)
<1>1. /\ mint \in Nat /\ idents \in Nat /\ idents' \in Nat /\ idents <= idents'
      /\ tab[t].dev \in Nat /\ tab[t].dev <= dev /\ tab[t].dev # 0
  BY DEF KeyInv, KeyTypes, Account, Tab, OneAccount
<1>2. /\ got \in Account /\ got.id = a.id /\ keys \in SUBSET Key
      /\ \A k \in keys :
           /\ k.by = a.id /\ k.pair > mint /\ k.pair <= mint' /\ k.pair \in got.priv
           /\ k.pair \in Nat
           /\ \A l \in keys : l.id = k.id \/ l.pair = k.pair => l = k
  <2>1. \A k \in Key : k.pair \in Nat
    BY DEF Key
  <2> QED
    BY <1>1, <2>1, Minted
<1> HIDE DEF got, keys
<1>3. x \in Tab /\ x.pc = pc /\ x.got = got /\ x.dev = tab[t].dev /\ x.keys = keys
  BY <1>1, <1>2 DEF Tab, got, keys
<1> HIDE DEF x
<1>4. /\ tab' \in [Tabs -> Tab] /\ tab'[t] = x
      /\ \A u \in Tabs : u # t => tab'[u] = tab[u]
  BY <1>3, TabSet DEF KeyInv, x
<1>5. mint <= mint' /\ mint' \in Nat
  BY <1>1
<1>6. KeyTypes'
  BY <1>1, <1>4, <1>5 DEF KeyInv, KeyTypes
<1>7. RowsKept'
  <2>1. \A u \in Tabs : tab'[u].pc = "inbound" =>
          tab[u].pc = "inbound" /\ tab'[u] = tab[u]
    BY <1>3, <1>4
  <2> QED
    BY <2>1 DEF KeyInv, RowsKept
<1>8. SettingUp'
  <2>1. \A d \in K!Devices : served[d] <= idents /\ served[d] \in Nat
    BY DEF KeyInv, KeyTypes, SettingUp
  <2>2. \A u \in Setting : tab[u].got.id <= idents /\ tab[u].got.id \in Nat
    BY DEF KeyInv, SettingUp, Setting, KeyTypes, Tab, Account
  <2>3. \A u \in Setting' : u # t => u \in Setting /\ tab'[u] = tab[u]
    BY <1>4 DEF Setting
  <2>4. t \in Setting' => pc = "created" /\ tab'[t].got.id = a.id
    BY <1>2, <1>3, <1>4 DEF Setting
  <2>5. \A d \in K!Devices : served'[d] <= idents'
    BY <1>1, <2>1
  <2>6. ASSUME NEW u \in Setting'
        PROVE  /\ tab'[u].got.id <= idents'
               /\ \A d \in K!Devices : served'[d] # tab'[u].got.id
               /\ \A v \in Setting' : tab'[v].got.id = tab'[u].got.id => v = u
    <3>1. CASE u = t
      <4>1. a.id = idents + 1 /\ idents' = a.id /\ tab'[u].got.id = a.id
        BY <2>4, <3>1
      <4>2. \A d \in K!Devices : served'[d] # a.id
        BY <1>1, <2>1, <4>1
      <4>3. \A v \in Setting' : v # t => tab'[v].got.id # a.id
        BY <1>1, <2>2, <2>3, <4>1
      <4> QED
        BY <1>1, <3>1, <4>1, <4>2, <4>3
    <3>2. CASE u # t
      <4>1. u \in Setting /\ tab'[u] = tab[u] /\ tab[u].got.id <= idents /\ tab[u].got.id \in Nat
        BY <2>2, <2>3, <3>2
      <4>2. t \in Setting' => tab'[t].got.id # tab[u].got.id
        BY <1>1, <2>4, <4>1
      <4>3. \A v \in Setting' : v # t /\ tab'[v].got.id = tab'[u].got.id => v = u
        BY <2>3, <4>1 DEF KeyInv, SettingUp
      <4>4. \A d \in K!Devices : served[d] # tab[u].got.id
        BY <4>1 DEF KeyInv, SettingUp
      <4> QED
        BY <1>1, <4>1, <4>2, <4>3, <4>4
    <3> QED
      BY <3>1, <3>2
  <2> QED
    BY <2>5, <2>6 DEF SettingUp
<1>9. PairsApart'
  <2>1. t \in Making' /\ \A u \in Making' : u # t => u \in Making /\ tab'[u] = tab[u]
    BY <1>3, <1>4 DEF Making
  <2>2. \A u \in Making : \A k \in tab[u].keys : k.pair <= mint /\ k.pair \in Nat
    BY DEF KeyInv, PairsApart, Making, KeyTypes, Tab, Key
  <2>3. \A d \in K!Devices : \A r \in stock[d] : r.key.pair <= mint /\ r.key.pair \in Nat
    BY DEF KeyInv, PairsApart, KeyTypes, Row, Key
  <2>4. ASSUME NEW u \in Making'
        PROVE  tab'[u].got.id # 0 /\ \A k \in tab'[u].keys :
                 /\ k.by = tab'[u].got.id /\ k.pair <= mint'
                 /\ \A l \in tab'[u].keys : l.id = k.id \/ l.pair = k.pair => l = k
                 /\ \A v \in Making' : v # u => \A l \in tab'[v].keys : l.pair # k.pair
                 /\ \A d \in K!Devices : \A r \in stock'[d] : r.key.pair # k.pair
    <3>1. CASE u = t
      <4>1. tab'[u].got.id = a.id /\ tab'[u].keys = keys
        BY <1>2, <1>3, <1>4, <3>1
      <4>2. \A k \in keys : \A v \in Making' : v # t => \A l \in tab'[v].keys : l.pair # k.pair
        BY <1>1, <1>2, <2>1, <2>2
      <4>3. \A k \in keys : \A d \in K!Devices : \A r \in stock[d] : r.key.pair # k.pair
        BY <1>1, <1>2, <2>3
      <4> QED
        BY <1>2, <3>1, <4>1, <4>2, <4>3
    <3>2. CASE u # t
      <4>1. u \in Making /\ tab'[u] = tab[u]
        BY <2>1, <3>2
      <4>2. /\ tab[u].got.id # 0
            /\ \A k \in tab[u].keys :
                 /\ k.by = tab[u].got.id /\ k.pair <= mint
                 /\ \A l \in tab[u].keys : l.id = k.id \/ l.pair = k.pair => l = k
                 /\ \A v \in Making : v # u => \A l \in tab[v].keys : l.pair # k.pair
                 /\ \A d \in K!Devices : \A r \in stock[d] : r.key.pair # k.pair
        BY <4>1 DEF KeyInv, PairsApart
      <4>3. \A k \in tab[u].keys : k.pair <= mint' /\ \A l \in tab'[t].keys : l.pair # k.pair
        BY <1>1, <1>2, <1>3, <1>4, <1>5, <2>2, <4>1
      <4>4. \A k \in tab[u].keys : \A v \in Making' : v # u =>
              \A l \in tab'[v].keys : l.pair # k.pair
        BY <2>1, <4>2, <4>3
      <4> QED
        BY <4>1, <4>2, <4>3, <4>4
    <3> QED
      BY <3>1, <3>2
  <2>5. \A d \in K!Devices : \A r \in stock'[d] :
          /\ r.key.pair <= mint'
          /\ \A e \in K!Devices : \A s \in stock'[e] :
               s.key.pair = r.key.pair => s.key = r.key
    BY <1>1, <1>5, <2>3 DEF KeyInv, PairsApart
  <2> QED
    BY <2>4, <2>5 DEF PairsApart
<1>10. OneAccount'
  <2>1. \A u \in Tabs : tab'[u].dev <= dev' /\ (tab'[u].pc # "idle" => tab'[u].dev # 0)
    BY <1>1, <1>3, <1>4 DEF KeyInv, OneAccount
  <2>2. \A u \in Tabs : tab'[u].dev = dev' =>
          /\ tab'[u].pc \in {"register", "topping", "upload"} => acct'.id # 0
          /\ tab'[u].pc \in {"register", "topping", "upload", "inbound"} =>
               tab'[u].got.id \in {0, acct'.id} \/ dev' \in clash'
    <3> TAKE u \in Tabs
    <3>1. CASE u = t
      BY <1>2, <1>3, <1>4, <3>1
    <3>2. CASE u # t
      BY <1>4, <3>2 DEF KeyInv, OneAccount
    <3> QED
      BY <3>1, <3>2
  <2> QED
    BY <2>1, <2>2 DEF KeyInv, OneAccount, K!IdentityAgrees
<1>11. PrivateKept'
  <2>1. \A u \in Tabs : tab'[u].pc \in {"created", "topping"} =>
          \A k \in tab'[u].keys : k.pair \in tab'[u].got.priv
    BY <1>2, <1>3, <1>4 DEF KeyInv, PrivateKept
  <2>2. \A u \in Tabs :
          tab'[u].pc \in {"register", "upload"} => tab'[u] = tab[u]
    BY <1>3, <1>4
  <2>3. \A pair : Kept(pair)' <=> Kept(pair)
    BY DEF Kept
  <2> QED
    BY <2>1, <2>2, <2>3 DEF KeyInv, PrivateKept, Kept
<1> QED
  BY <1>6, <1>7, <1>8, <1>9, <1>10, <1>11 DEF KeyInv

\* A tab goes on to its next step, or is done: what concerns the server and
\* the keys under way stays.
LEMMA TabMoved ==
  ASSUME KeyInv, NEW t \in Tabs, NEW x \in Tab, tab' = [tab EXCEPT ![t] = x],
         x.pc # "inbound",
         x.pc # "idle" => x.got = tab[t].got /\ x.keys = tab[t].keys /\ t \in Making,
         x.pc \in {"created", "register"} => t \in Setting,
         acct' \in Account, UNCHANGED <<dev, served, stock, wire, mint, idents, handed>>
  PROVE  KeyTypes' /\ RowsKept' /\ SettingUp' /\ PairsApart'
<1>1. /\ tab' \in [Tabs -> Tab] /\ tab'[t] = x
      /\ \A u \in Tabs : u # t => tab'[u] = tab[u]
  BY TabSet DEF KeyInv
<1>2. KeyTypes'
  BY <1>1 DEF KeyInv, KeyTypes
<1>3. RowsKept'
  <2>1. \A u \in Tabs : tab'[u].pc = "inbound" =>
          tab[u].pc = "inbound" /\ tab'[u] = tab[u]
    BY <1>1
  <2> QED
    BY <2>1 DEF KeyInv, RowsKept
<1>4. SettingUp'
  <2>1. \A u \in Setting' : u \in Setting /\ tab'[u].got = tab[u].got
    BY <1>1 DEF Setting
  <2> QED
    BY <2>1 DEF KeyInv, SettingUp
<1>5. PairsApart'
  <2>1. \A u \in Making' :
          u \in Making /\ tab'[u].got = tab[u].got /\ tab'[u].keys = tab[u].keys
    BY <1>1 DEF Making
  <2>2. \A u \in Making' : tab'[u].got.id # 0 /\ \A k \in tab'[u].keys :
          /\ k.by = tab'[u].got.id /\ k.pair <= mint'
          /\ \A l \in tab'[u].keys : l.id = k.id \/ l.pair = k.pair => l = k
          /\ \A v \in Making' : v # u => \A l \in tab'[v].keys : l.pair # k.pair
          /\ \A d \in K!Devices : \A r \in stock'[d] : r.key.pair # k.pair
    BY <2>1 DEF KeyInv, PairsApart
  <2> QED
    BY <2>2 DEF KeyInv, PairsApart
<1> QED
  BY <1>2, <1>3, <1>4, <1>5

\* A tab has nothing of the account in hand: it begins, it looks for the wrap
\* key, it is done, or a request was refused.
LEMMA TabRests ==
  ASSUME KeyInv, NEW t \in Tabs, NEW x \in Tab, tab' = [tab EXCEPT ![t] = x],
         x.pc \in Resting, x.dev <= dev, x.pc # "idle" => x.dev # 0,
         UNCHANGED <<acct, dev, served, stock, wire, mint, idents, handed, lost>>,
         clash \subseteq clash'
  PROVE  KeyInv'
<1>1. KeyTypes' /\ RowsKept' /\ SettingUp' /\ PairsApart'
  <2>1. x.pc \notin {"created", "register", "topping", "upload", "inbound"}
    BY DEF Resting, K!Jobs
  <2>2. /\ tab' \in [Tabs -> Tab] /\ tab'[t] = x
        /\ \A u \in Tabs : u # t => tab'[u] = tab[u]
    BY TabSet DEF KeyInv
  <2>3. KeyTypes'
    BY <2>2 DEF KeyInv, KeyTypes
  <2>4. \A u \in Tabs : tab'[u].pc = "inbound" => tab'[u] = tab[u] /\ tab[u].pc = "inbound"
    BY <2>1, <2>2
  <2>5. RowsKept'
    BY <2>4 DEF KeyInv, RowsKept
  <2>6. /\ \A u \in Setting' : u \in Setting /\ tab'[u] = tab[u]
        /\ \A u \in Making' : u \in Making /\ tab'[u] = tab[u]
    BY <2>1, <2>2 DEF Setting, Making
  <2>7. SettingUp'
    BY <2>6 DEF KeyInv, SettingUp
  <2>8. PairsApart'
    BY <2>6 DEF KeyInv, PairsApart
  <2> QED
    BY <2>3, <2>5, <2>7, <2>8
<1>2. /\ tab'[t] = x /\ x.pc \notin {"created", "register", "topping", "upload", "inbound"}
      /\ \A u \in Tabs : u # t => tab'[u] = tab[u]
  BY TabSet DEF KeyInv, Resting, K!Jobs
<1>3. OneAccount'
  <2>1. \A u \in Tabs : tab'[u].dev <= dev' /\ (tab'[u].pc # "idle" => tab'[u].dev # 0)
    BY <1>2 DEF KeyInv, OneAccount
  <2>2. \A u \in Tabs : tab'[u].dev = dev' =>
          /\ tab'[u].pc \in {"register", "topping", "upload"} => acct'.id # 0
          /\ tab'[u].pc \in {"register", "topping", "upload", "inbound"} =>
               tab'[u].got.id \in {0, acct'.id} \/ dev' \in clash'
    BY <1>2 DEF KeyInv, OneAccount
  <2> QED
    BY <2>1, <2>2 DEF KeyInv, OneAccount, K!IdentityAgrees
<1>4. PrivateKept'
  <2>1. \A u \in Tabs : tab'[u].pc \in {"created", "register", "topping", "upload"} =>
          tab'[u] = tab[u]
    BY <1>2
  <2> QED
    BY <2>1 DEF KeyInv, PrivateKept, Kept
<1> QED
  BY <1>1, <1>3, <1>4 DEF KeyInv

\* saveAccount over the account of the moment: unless it is on record, that
\* is none or an older state of the same, and what it drops unseen is lost.
LEMMA AccountSaved ==
  ASSUME KeyInv, NEW t \in Tabs, NEW x \in Tab, tab' = [tab EXCEPT ![t] = x],
         x.pc \in {"idle", "register", "upload"}, x.dev <= dev,
         x.pc # "idle" => /\ x.got = tab[t].got /\ x.keys = tab[t].keys /\ x.dev # 0
                          /\ t \in Making,
         x.pc = "register" => t \in Setting,
         NEW a \in Account, a.id # 0, NEW done, acct' = a,
         lost \subseteq lost', acct.id = a.id => (acct.priv \ a.priv) \ done \subseteq lost',
         \A d \in K!Devices : \A r \in stock[d] : r.key.pair \in done => r.used,
         \A u \in Making : \A k \in tab[u].keys : k.pair \notin done,
         UNCHANGED <<dev, served, stock, wire, mint, idents, handed>>,
         clash \subseteq clash', dev \notin clash' => acct.id \in {0, a.id},
         x.pc # "idle" => a = x.got /\ \A k \in x.keys : k.pair \in a.priv
  PROVE  KeyInv'
<1>1. /\ acct' = a /\ lost \subseteq lost'
      /\ acct.id = a.id => (acct.priv \ a.priv) \ done \subseteq lost'
  OBVIOUS
<1>2. KeyTypes' /\ RowsKept' /\ SettingUp' /\ PairsApart'
  BY <1>1, TabMoved
<1>3. /\ tab'[t] = x
      /\ \A u \in Tabs : u # t => tab'[u] = tab[u]
  BY TabSet DEF KeyInv
<1>4. OneAccount'
  <2>1. \A u \in Tabs : tab'[u].dev <= dev' /\ (tab'[u].pc # "idle" => tab'[u].dev # 0)
    BY <1>3 DEF KeyInv, OneAccount
  <2>2. \A u \in Tabs : tab'[u].dev = dev' =>
          /\ tab'[u].pc \in {"register", "topping", "upload"} => acct'.id # 0
          /\ tab'[u].pc \in {"register", "topping", "upload", "inbound"} =>
               tab'[u].got.id \in {0, acct'.id} \/ dev' \in clash'
    <3> SUFFICES ASSUME NEW u \in Tabs, tab'[u].dev = dev,
                        tab'[u].pc \in {"register", "topping", "upload", "inbound"}
                 PROVE  tab'[u].got.id \in {0, a.id} \/ dev \in clash'
      BY <1>1
    <3>1. CASE u = t
      BY <1>3, <3>1
    <3>2. CASE u # t
      BY <1>3, <3>2 DEF KeyInv, OneAccount
    <3> QED
      BY <3>1, <3>2
  <2>3. K!IdentityAgrees'
    BY <1>1 DEF KeyInv, OneAccount, K!IdentityAgrees
  <2> QED
    BY <1>1, <2>1, <2>2, <2>3 DEF KeyInv, OneAccount
<1>5. PrivateKept'
  <2>1. \A u \in Tabs : tab'[u].pc \in {"created", "topping"} =>
          \A k \in tab'[u].keys : k.pair \in tab'[u].got.priv
    BY <1>3 DEF KeyInv, PrivateKept
  <2>2. \A pair : acct.id = a.id /\ pair \notin done /\ Kept(pair) =>
          pair \in acct'.priv \/ pair \in lost'
    BY <1>1 DEF Kept
  <2>3. ASSUME NEW u \in Tabs, tab'[u].pc \in {"register", "upload"}, tab'[u].dev = dev',
               tab'[u].got.id = acct'.id, dev' \notin clash', NEW k \in tab'[u].keys
        PROVE  k.pair \in acct'.priv \/ k.pair \in lost'
    <3>1. CASE u = t
      BY <1>1, <1>3, <2>3, <3>1
    <3>2. CASE u # t
      <4>1. tab'[u] = tab[u] /\ u \in Making
        BY <1>3, <2>3, <3>2 DEF Making
      <4>2. acct.id = a.id
        BY <2>3, <4>1 DEF KeyInv, OneAccount
      <4> QED
        BY <1>1, <2>2, <2>3, <4>1, <4>2 DEF KeyInv, PrivateKept
    <3> QED
      BY <3>1, <3>2
  <2>4. ASSUME served'[dev'] = acct'.id, dev' \notin clash', NEW r \in stock'[dev'], ~r.used
        PROVE  r.key.pair \in acct'.priv \/ r.key.pair \in lost'
    <3>1. dev \in K!Devices
      BY DEF KeyInv, KeyTypes
    <3>2. acct.id = a.id
      BY <1>1, <2>4 DEF KeyInv, OneAccount
    <3> QED
      BY <1>1, <2>2, <2>4, <3>1, <3>2 DEF KeyInv, PrivateKept
  <2> QED
    BY <2>1, <2>3, <2>4 DEF PrivateKept, Kept
<1> QED
  BY <1>2, <1>4, <1>5 DEF KeyInv

LEMMA Creating ==
  ASSUME KeyInv, Batch \in Nat, NEW t \in Tabs, K!Create(t)
  PROVE  KeyInv'
<1> DEFINE a == [K!NoAcct EXCEPT !.id = idents + 1]
<1>1. a \in Account /\ a.id = idents + 1 /\ a.id # 0
  <2>1. idents \in Nat /\ idents + 1 \in Nat /\ idents + 1 # 0
    BY DEF KeyInv, KeyTypes
  <2> QED
    BY <2>1 DEF K!NoAcct, Account
<1>2. /\ tab' = [tab EXCEPT ![t] = [pc |-> "created", got |-> K!Extended(a),
                                    dev |-> tab[t].dev, keys |-> K!Fresh(a)]]
      /\ tab[t].pc # "idle" /\ mint' = mint + Batch /\ idents' = idents + 1
      /\ UNCHANGED <<acct, dev, served, stock, wire, handed, clash, lost>>
  BY DEF K!Create
<1> HIDE DEF a
<1> QED
  BY <1>1, <1>2, Generated

LEMMA ToppingUp ==
  ASSUME KeyInv, Batch \in Nat, NEW t \in Tabs, K!TopUp(t)
  PROVE  KeyInv'
<1>1. acct \in Account /\ acct.id # 0
  BY DEF K!TopUp, K!Readable, KeyInv, KeyTypes
<1>2. /\ tab' = [tab EXCEPT ![t] = [pc |-> "topping", got |-> K!Extended(acct),
                                    dev |-> tab[t].dev, keys |-> K!Fresh(acct)]]
      /\ tab[t].pc # "idle" /\ mint' = mint + Batch
      /\ UNCHANGED <<acct, dev, served, stock, wire, idents, handed, clash, lost>>
  BY DEF K!TopUp
<1> QED
  BY <1>1, <1>2, Generated

\* Both saves of an account with new keys.
LEMMA BatchSaved ==
  ASSUME KeyInv, NEW t \in Tabs, K!SaveCreated(t) \/ K!SaveTopUp(t)
  PROVE  KeyInv'
<1> DEFINE pc == IF tab[t].pc = "created" THEN "register" ELSE "upload"
           x == [tab[t] EXCEPT !.pc = pc]
<1>1. /\ tab[t].pc \in {"created", "topping"} /\ tab' = [tab EXCEPT ![t].pc = pc]
      /\ acct' = tab[t].got
      /\ lost' = lost \cup (IF acct.id = tab[t].got.id
                            THEN (acct.priv \ tab[t].got.priv) \ {} ELSE {})
      /\ UNCHANGED <<dev, served, stock, wire, mint, idents, handed>>
      /\ clash \subseteq clash'
      /\ dev \notin clash' => acct.id \in {0, tab[t].got.id}
  BY DEF K!SaveCreated, K!SaveTopUp, K!Save
<1>2. tab[t] \in Tab /\ tab[t].got \in Account /\ t \in Making
  BY <1>1 DEF KeyInv, KeyTypes, Tab, Making
<1>3. /\ x \in Tab /\ x.pc = pc /\ x.got = tab[t].got /\ x.keys = tab[t].keys
      /\ x.dev = tab[t].dev
  BY <1>2 DEF Tab
<1>4. tab' = [tab EXCEPT ![t] = x]
  BY <1>1, <1>2 DEF KeyInv, KeyTypes, Tab
<1>5. /\ x.dev <= dev /\ x.dev # 0 /\ tab[t].got.id # 0
      /\ \A k \in tab[t].keys : k.pair \in tab[t].got.priv
  BY <1>1, <1>2, <1>3 DEF KeyInv, OneAccount, PairsApart, PrivateKept
<1>7. pc = "register" => t \in Setting
  BY <1>1 DEF Setting
<1>8. pc \in {"register", "upload"}
  OBVIOUS
<1> HIDE DEF x, pc
<1> QED
  <2> SUFFICES ASSUME NEW y \in Tab, y = x, NEW a \in Account, a = tab[t].got,
                      NEW done, done = {}
               PROVE  KeyInv'
    BY <1>2, <1>3
  <2>1. /\ tab' = [tab EXCEPT ![t] = y] /\ y.pc \in {"register", "upload"}
        /\ y.got = tab[t].got /\ y.keys = tab[t].keys /\ y.dev # 0 /\ t \in Making
        /\ y.pc = "register" => t \in Setting
        /\ y.dev <= dev
    BY <1>2, <1>3, <1>4, <1>5, <1>7, <1>8
  <2>2. /\ acct' = a /\ a.id # 0 /\ lost \subseteq lost'
        /\ acct.id = a.id => (acct.priv \ a.priv) \ done \subseteq lost'
        /\ a = y.got /\ \A k \in y.keys : k.pair \in a.priv
        /\ dev \notin clash' => acct.id \in {0, a.id}
    BY <1>1, <1>5, <2>1
  <2>3. /\ \A d \in K!Devices : \A r \in stock[d] : r.key.pair \in done => r.used
        /\ \A u \in Making : \A k \in tab[u].keys : k.pair \notin done
    OBVIOUS
  <2> QED
    BY <1>1, <2>1, <2>2, <2>3, AccountSaved

\* A key that was given out is in one row of one device, and marked there.
LEMMA SpentApart ==
  ASSUME KeyInv, NEW h \in handed
  PROVE  /\ h[1] \in Key /\ h[1].by # 0
         /\ \E d \in K!Devices : Spent(h[1]) \in stock[d] /\ h[1].by = served[d]
         /\ \A d \in K!Devices : h[1].by = served[d] => Spent(h[1]) \in stock[d]
         /\ \A d \in K!Devices : \A r \in stock[d] : r.key.pair = h[1].pair => r.used
         /\ \A t \in Making : \A k \in tab[t].keys : k.pair # h[1].pair
<1>1. PICK d \in K!Devices : Spent(h[1]) \in stock[d]
  BY DEF KeyInv, RowsKept
<1>2. Spent(h[1]).key = h[1] /\ Spent(h[1]).used = TRUE
  BY DEF Spent
<1>3. stock[d] \subseteq Row
  BY DEF KeyInv, KeyTypes
<1>4. h[1] \in Key
  BY <1>1, <1>2, <1>3 DEF Row
<1>5. served[d] # 0 /\ h[1].by = served[d]
  BY <1>1, <1>2 DEF KeyInv, RowsKept
<1>6. \A e \in K!Devices : h[1].by = served[e] => e = d
  BY <1>5 DEF KeyInv, RowsKept
<1>7. ASSUME NEW e \in K!Devices, NEW r \in stock[e], r.key.pair = h[1].pair
      PROVE  r.used
  <2>1. r.key = h[1]
    BY <1>1, <1>2, <1>7 DEF KeyInv, PairsApart
  <2>2. served[e] = r.key.by
    BY DEF KeyInv, RowsKept
  <2>3. e = d
    BY <1>6, <2>1, <2>2
  <2>4. r = Spent(h[1])
    BY <1>1, <1>2, <2>1, <2>3 DEF KeyInv, RowsKept
  <2> QED
    BY <1>2, <2>4
<1>8. \A t \in Making : \A k \in tab[t].keys : k.pair # h[1].pair
  BY <1>1, <1>2 DEF KeyInv, PairsApart
<1> QED
  BY <1>1, <1>4, <1>5, <1>6, <1>7, <1>8

\* The account is saved without the key that a first message was opened with.
LEMMA InboundSaved ==
  ASSUME KeyInv, NEW t \in Tabs, K!SaveInbound(t)
  PROVE  KeyInv'
<1> DEFINE used == {k.pair : k \in tab[t].keys}
           p == tab[t].got.priv \ used
<1>1. /\ tab[t].pc = "inbound" /\ tab' = [tab EXCEPT ![t] = K!Idle]
      /\ acct' = [tab[t].got EXCEPT !.priv = p]
      /\ lost' = lost \cup (IF acct.id = acct'.id
                            THEN (acct.priv \ acct'.priv) \ used ELSE {})
      /\ clash \subseteq clash' /\ (dev \notin clash' => acct.id = tab[t].got.id)
      /\ UNCHANGED <<dev, served, stock, wire, mint, idents, handed>>
  BY DEF K!SaveInbound, K!Save, K!Done
<1>2. tab[t].got \in Account /\ tab[t].got.id # 0
  BY <1>1 DEF KeyInv, KeyTypes, Tab, RowsKept
<1>3. p \in SUBSET Nat
  BY <1>2 DEF Account
<1>4. \A k \in tab[t].keys : \E h \in handed : h[1] = k
  BY <1>1 DEF KeyInv, RowsKept
<1>5. \A q \in used : \E h \in handed : h[1].pair = q
  BY <1>4
<1> HIDE DEF used, p
<1>6. /\ \A d \in K!Devices : \A r \in stock[d] : r.key.pair \in used => r.used
      /\ \A u \in Making : \A l \in tab[u].keys : l.pair \notin used
  BY <1>5, SpentApart
<1> QED
  <2> SUFFICES ASSUME NEW a \in Account, a = [tab[t].got EXCEPT !.priv = p],
                      NEW done, done = used, NEW x \in Tab, x = K!Idle
               PROVE  KeyInv'
    <3>1. [tab[t].got EXCEPT !.priv = p] \in Account
      BY <1>2, <1>3 DEF Account
    <3> QED
      BY <3>1, IdleTab
  <2>1. a.id = tab[t].got.id /\ acct' = a
    BY <1>1, <1>2 DEF Account
  <2>2. /\ lost \subseteq lost'
        /\ acct.id = a.id => (acct.priv \ a.priv) \ done \subseteq lost'
        /\ a.id # 0 /\ (dev \notin clash' => acct.id \in {0, a.id})
    BY <1>1, <1>2, <2>1
  <2>3. x.pc = "idle" /\ x.dev <= dev /\ tab' = [tab EXCEPT ![t] = x]
    <3>1. dev \in Nat /\ 0 <= dev
      BY DEF KeyInv, KeyTypes, K!Devices
    <3> QED
      BY <1>1, <3>1, IdleTab
  <2>4. /\ \A d \in K!Devices : \A r \in stock[d] : r.key.pair \in done => r.used
        /\ \A u \in Making : \A l \in tab[u].keys : l.pair \notin done
    BY <1>6
  <2> QED
    BY <1>1, <2>1, <2>2, <2>3, <2>4, AccountSaved

LEMMA Inbounded ==
  ASSUME KeyInv, NEW t \in Tabs, NEW ks, \A k \in ks : k \in wire, K!Inbound(t, ks)
  PROVE  KeyInv'
<1> DEFINE x == [pc |-> "inbound", got |-> acct, dev |-> tab[t].dev, keys |-> ks]
<1>1. /\ tab[t].pc # "idle" /\ tab' = [tab EXCEPT ![t] = x] /\ acct.id # 0
      /\ UNCHANGED <<acct, dev, served, stock, wire, mint, idents, handed, clash, lost>>
  BY DEF K!Inbound, K!Readable
<1>2. \A k \in ks : \E h \in handed : h[1] = k
  BY DEF KeyInv, RowsKept
<1>3. /\ tab[t].dev \in Nat /\ tab[t].dev # 0 /\ tab[t].dev <= dev /\ acct \in Account
      /\ ks \subseteq Key
  BY <1>1 DEF KeyInv, KeyTypes, Tab, OneAccount
<1>4. x \in Tab /\ x.pc = "inbound" /\ x.got = acct /\ x.dev = tab[t].dev /\ x.keys = ks
  BY <1>3 DEF Tab
<1> HIDE DEF x
<1>5. /\ tab' \in [Tabs -> Tab] /\ tab'[t] = x
      /\ \A u \in Tabs : u # t => tab'[u] = tab[u]
  BY <1>1, <1>4, TabSet DEF KeyInv
<1>6. KeyTypes'
  BY <1>1, <1>5 DEF KeyInv, KeyTypes
<1>7. RowsKept'
  <2>1. \A u \in Tabs : tab'[u].pc = "inbound" => tab'[u].got.id # 0 /\
          \A k \in tab'[u].keys : \E h \in handed : h[1] = k
    BY <1>1, <1>2, <1>4, <1>5 DEF KeyInv, RowsKept
  <2> QED
    BY <1>1, <2>1 DEF KeyInv, RowsKept
<1>8. SettingUp'
  <2>1. \A u \in Setting' : u \in Setting /\ tab'[u] = tab[u]
    BY <1>4, <1>5 DEF Setting
  <2> QED
    BY <1>1, <2>1 DEF KeyInv, SettingUp
<1>9. PairsApart'
  <2>1. \A u \in Making' : u \in Making /\ tab'[u] = tab[u]
    BY <1>4, <1>5 DEF Making
  <2> QED
    BY <1>1, <2>1 DEF KeyInv, PairsApart
<1>10. OneAccount'
  <2>1. \A u \in Tabs : tab'[u].dev <= dev' /\ (tab'[u].pc # "idle" => tab'[u].dev # 0)
    BY <1>1, <1>3, <1>4, <1>5 DEF KeyInv, OneAccount
  <2>2. \A u \in Tabs : tab'[u].dev = dev' =>
          /\ tab'[u].pc \in {"register", "topping", "upload"} => acct'.id # 0
          /\ tab'[u].pc \in {"register", "topping", "upload", "inbound"} =>
               tab'[u].got.id \in {0, acct'.id} \/ dev' \in clash'
    BY <1>1, <1>4, <1>5 DEF KeyInv, OneAccount
  <2> QED
    BY <1>1, <2>1, <2>2 DEF KeyInv, OneAccount, K!IdentityAgrees
<1>11. PrivateKept'
  <2>1. \A u \in Tabs : tab'[u].pc \in {"created", "register", "topping", "upload"} =>
          tab'[u] = tab[u]
    BY <1>4, <1>5
  <2> QED
    BY <1>1, <2>1 DEF KeyInv, PrivateKept, Kept
<1> QED
  BY <1>6, <1>7, <1>8, <1>9, <1>10, <1>11 DEF KeyInv

\* A tab looks for the wrap key, stores one, or stops.
LEMMA Rested ==
  ASSUME KeyInv, NEW t \in Tabs,
         \/ \E w \in K!Jobs, d \in K!Devices : K!GetKey(t, w, d)
         \/ K!PutKey(t) \/ K!Stop(t)
  PROVE  KeyInv'
<1>1. dev \in Nat /\ 0 <= dev
  BY DEF KeyInv, KeyTypes, K!Devices
<1>2. ASSUME NEW w \in K!Jobs, NEW d \in K!Devices, K!GetKey(t, w, d)
      PROVE  KeyInv'
  <2> SUFFICES ASSUME NEW x \in Tab, x = [K!Idle EXCEPT !.pc = w, !.dev = d]
               PROVE  KeyInv'
    <3>1. w \in Resting \cup {"created", "register", "topping", "upload", "inbound"}
      BY DEF Resting
    <3>2. d \in Nat
      BY DEF K!Devices
    <3>3. [K!Idle EXCEPT !.pc = w, !.dev = d] \in Tab
      BY <3>1, <3>2, IdleTab DEF Tab
    <3> QED
      BY <3>3
  <2>1. x.pc = w /\ x.dev = d
    BY IdleTab DEF Tab
  <2>2. x.pc \in Resting /\ x.dev <= dev /\ x.dev # 0
    <3>1. x.pc \in Resting
      BY <2>1 DEF Resting
    <3>2. d <= dev
      BY <1>2, Zenon DEF K!GetKey
    <3>3. d # 0
      BY DEF K!Devices
    <3> QED
      BY <2>1, <3>1, <3>2, <3>3
  <2>3. /\ tab' = [tab EXCEPT ![t] = x] /\ clash \subseteq clash'
        /\ UNCHANGED <<acct, dev, served, stock, wire, mint, idents, handed, lost>>
    BY <1>2 DEF K!GetKey
  <2> QED
    BY <2>2, <2>3, TabRests
<1>3. CASE K!PutKey(t)
  <2> SUFFICES ASSUME NEW x \in Tab, x = tab[t]
               PROVE  KeyInv'
    BY DEF KeyInv, KeyTypes
  <2>1. /\ tab' = tab /\ clash \subseteq clash' /\ tab[t].pc \in Resting
        /\ UNCHANGED <<acct, dev, served, stock, wire, mint, idents, handed, lost>>
    BY <1>3 DEF K!PutKey, Resting
  <2>2. tab' = [tab EXCEPT ![t] = x]
    BY <2>1 DEF KeyInv, KeyTypes
  <2>3. x.dev <= dev /\ (x.pc # "idle" => x.dev # 0)
    BY DEF KeyInv, OneAccount
  <2> QED
    BY <2>1, <2>2, <2>3, TabRests
<1>4. CASE K!Stop(t)
  <2>1. /\ tab' = [tab EXCEPT ![t] = K!Idle] /\ clash \subseteq clash'
        /\ UNCHANGED <<acct, dev, served, stock, wire, mint, idents, handed, lost>>
    BY <1>4 DEF K!Stop, K!Done
  <2> SUFFICES ASSUME NEW x \in Tab, x = K!Idle
               PROVE  KeyInv'
    BY IdleTab
  <2>2. x.pc = "idle" /\ x.dev = 0 /\ x.pc \in Resting
    BY IdleTab DEF Resting
  <2> QED
    BY <1>1, <2>1, <2>2, TabRests
<1> QED
  BY <1>2, <1>3, <1>4

\* resetOlmIdentity: the next device id has nothing with the server yet.
LEMMA WasReset ==
  ASSUME KeyInv, MaxIdents \in Nat, K!Reset
  PROVE  KeyInv'
<1>1. /\ dev' = dev + 1 /\ dev < MaxIdents /\ acct' = K!NoAcct
      /\ UNCHANGED <<tab, served, stock, wire, mint, idents, handed, clash, lost>>
  BY DEF K!Reset
<1>2. dev \in Nat /\ dev' \in K!Devices /\ dev <= dev' /\ dev' # dev /\ ~(dev' <= dev)
  BY <1>1 DEF KeyInv, KeyTypes, K!Devices
<1>3. acct' \in Account /\ acct'.id = 0
  BY <1>1, IdleTab
<1>4. served[dev'] = 0 /\ stock[dev'] = {}
  BY <1>2 DEF KeyInv, OneAccount, RowsKept
<1>5. \A u \in Tabs : tab[u].dev # dev' /\ tab[u].dev <= dev'
  <2>1. \A u \in Tabs : tab[u].dev \in Nat /\ tab[u].dev <= dev
    BY DEF KeyInv, KeyTypes, Tab, OneAccount
  <2> QED
    BY <1>1, <1>2, <2>1
<1>6. KeyTypes' /\ RowsKept' /\ SettingUp' /\ PairsApart'
  BY <1>1, <1>2, <1>3 DEF KeyInv, KeyTypes, RowsKept, SettingUp, Setting, PairsApart, Making
<1>7. OneAccount'
  <2>1. \A d \in K!Devices : served[d] # 0 => d <= dev'
    BY <1>1, <1>2 DEF KeyInv, OneAccount, K!Devices
  <2> QED
    BY <1>1, <1>3, <1>4, <1>5, <2>1 DEF KeyInv, OneAccount, K!IdentityAgrees
<1>8. PrivateKept'
  BY <1>1, <1>4, <1>5 DEF KeyInv, PrivateKept
<1> QED
  BY <1>6, <1>7, <1>8 DEF KeyInv

\* A tab's keys go into the stock of its device, whose identity is its own or
\* becomes it.
LEMMA Published ==
  ASSUME KeyInv, NEW t \in Tabs, tab' = [tab EXCEPT ![t] = K!Idle],
         tab[t].pc \in {"register", "upload"},
         NEW d \in K!Devices, d = tab[t].dev, NEW i \in Nat, i = tab[t].got.id,
         served[d] = i \/ (served[d] = 0 /\ tab[t].pc = "register"),
         served' = [served EXCEPT ![d] = i],
         stock' = [stock EXCEPT ![d] = K!Stocked(@, tab[t].keys)],
         UNCHANGED <<acct, dev, wire, mint, idents, handed, clash, lost>>
  PROVE  KeyInv'
<1> DEFINE rows == stock[d]
           new == K!Stocked(rows, tab[t].keys)
<1>1. /\ tab' \in [Tabs -> Tab] /\ tab'[t].pc = "idle" /\ tab'[t].dev = 0
      /\ \A u \in Tabs : u # t => tab'[u] = tab[u]
  BY IdleTab, TabSet DEF KeyInv
<1>2. t \in Making /\ tab[t].keys \in SUBSET Key /\ tab[t].got.id # 0
  BY DEF Making, KeyInv, KeyTypes, Tab, PairsApart
<1>3. /\ new \in SUBSET Row /\ \A r \in rows : r.used => r \in new
      /\ \A r \in new : \/ r \in rows
                        \/ \E k \in tab[t].keys : /\ r = [key |-> k, used |-> FALSE]
                                                  /\ \A s \in rows : s.key.id # k.id
  <2>1. rows \in SUBSET Row
    BY DEF KeyInv, KeyTypes
  <2> QED
    BY <1>2, <2>1, StockedRows
<1>4. stock' = [stock EXCEPT ![d] = new]
  OBVIOUS
<1> HIDE DEF new
<1>5. /\ served' \in [K!Devices -> Nat] /\ served'[d] = i
      /\ \A e \in K!Devices : e # d => served'[e] = served[e]
      /\ stock' \in [K!Devices -> SUBSET Row] /\ stock'[d] = new
      /\ \A e \in K!Devices : e # d => stock'[e] = stock[e]
  BY <1>3, <1>4 DEF KeyInv, KeyTypes
<1>6. \A r \in new : r \in rows \/ (r.key \in tab[t].keys /\ ~r.used
                                    /\ \A s \in rows : s.key.id # r.key.id)
  BY <1>3
<1>7. i # 0 /\ (rows # {} => served[d] = i)
  BY <1>2 DEF KeyInv, RowsKept
<1>8. \A k \in tab[t].keys : k.by = i
  BY <1>2 DEF KeyInv, PairsApart
<1>9. KeyTypes'
  BY <1>1, <1>5 DEF KeyInv, KeyTypes
<1>10. RowsKept'
  <2>1. ASSUME NEW r \in new, NEW s \in new, s.key.id = r.key.id
        PROVE  s = r
    <3>1. CASE r \in rows /\ s \in rows
      BY <2>1, <3>1 DEF KeyInv, RowsKept
    <3>2. CASE r \notin rows /\ s \notin rows
      <4>1. PICK k \in tab[t].keys : r = [key |-> k, used |-> FALSE]
        BY <1>3, <3>2
      <4>2. PICK l \in tab[t].keys : s = [key |-> l, used |-> FALSE]
        BY <1>3, <3>2
      <4>3. l = k
        BY <1>2, <2>1, <4>1, <4>2 DEF KeyInv, PairsApart
      <4> QED
        BY <4>1, <4>2, <4>3
    <3> QED
      BY <1>6, <2>1, <3>1, <3>2
  <2>2. \A r \in new : r.key.by = i
    BY <1>6, <1>7, <1>8 DEF KeyInv, RowsKept
  <2>3. \A e \in K!Devices : \A r \in stock'[e] :
          /\ served'[e] # 0 /\ r.key.by = served'[e]
          /\ \A s \in stock'[e] : s.key.id = r.key.id => s = r
    <3> TAKE e \in K!Devices
    <3>1. CASE e = d
      BY <1>5, <1>7, <2>1, <2>2, <3>1
    <3>2. CASE e # d
      BY <1>5, <3>2 DEF KeyInv, RowsKept
    <3> QED
      BY <3>1, <3>2
  <2>4. \A e \in K!Devices : served[e] = i => e = d
    <3>1. CASE served[d] = i
      BY <1>7, <3>1 DEF KeyInv, RowsKept
    <3>2. CASE tab[t].pc = "register"
      BY <3>2 DEF KeyInv, SettingUp, Setting
    <3> QED
      BY <3>1, <3>2
  <2>5. \A e, f \in K!Devices : served'[e] # 0 /\ served'[f] = served'[e] => f = e
    BY <1>5, <2>4 DEF KeyInv, RowsKept
  <2>6. \A h \in handed : h[2] = 0 /\ \E e \in K!Devices : Spent(h[1]) \in stock'[e]
    <3> TAKE h \in handed
    <3>1. PICK e \in K!Devices : Spent(h[1]) \in stock[e]
      BY DEF KeyInv, RowsKept
    <3>2. Spent(h[1]) \in stock'[e]
      BY <1>3, <1>5, <3>1 DEF Spent
    <3> QED
      BY <3>2 DEF KeyInv, RowsKept
  <2>7. \A u \in Tabs : tab'[u].pc = "inbound" => tab'[u].got.id # 0 /\
          \A k \in tab'[u].keys : \E h \in handed : h[1] = k
    BY <1>1 DEF KeyInv, RowsKept
  <2> QED
    BY <2>3, <2>5, <2>6, <2>7 DEF KeyInv, RowsKept
<1>11. SettingUp'
  <2>1. i <= idents
    BY DEF KeyInv, SettingUp, Setting
  <2>2. \A u \in Setting' : u \in Setting /\ u # t /\ tab'[u] = tab[u]
    BY <1>1 DEF Setting
  <2>3. \A u \in Setting : u # t => tab[u].got.id # i
    <3>1. CASE served[d] = i
      BY <3>1 DEF KeyInv, SettingUp
    <3>2. CASE tab[t].pc = "register"
      BY <3>2 DEF KeyInv, SettingUp, Setting
    <3> QED
      BY <3>1, <3>2
  <2>4. \A e \in K!Devices : served'[e] <= idents
    BY <1>5, <2>1 DEF KeyInv, SettingUp
  <2>5. \A u \in Setting' : \A e \in K!Devices : served'[e] # tab'[u].got.id
    BY <1>5, <2>2, <2>3 DEF KeyInv, SettingUp
  <2> QED
    BY <2>2, <2>4, <2>5 DEF KeyInv, SettingUp
<1>12. PairsApart'
  <2>1. \A u \in Making' : u \in Making /\ u # t /\ tab'[u] = tab[u]
    BY <1>1 DEF Making
  <2>2. \A r \in new : r \in rows \/ r.key \in tab[t].keys
    BY <1>6
  <2>3. \A u \in Making : u # t => \A k \in tab[u].keys :
          \A e \in K!Devices : \A r \in stock'[e] : r.key.pair # k.pair
    <3> TAKE u \in Making
    <3> HAVE u # t
    <3> TAKE k \in tab[u].keys
    <3> TAKE e \in K!Devices
    <3>1. CASE e = d
      BY <1>2, <1>5, <2>2, <3>1 DEF KeyInv, PairsApart
    <3>2. CASE e # d
      BY <1>5, <3>2 DEF KeyInv, PairsApart
    <3> QED
      BY <3>1, <3>2
  <2>4. \A u \in Making' : tab'[u].got.id # 0 /\ \A k \in tab'[u].keys :
          /\ k.by = tab'[u].got.id /\ k.pair <= mint'
          /\ \A l \in tab'[u].keys : l.id = k.id \/ l.pair = k.pair => l = k
          /\ \A v \in Making' : v # u => \A l \in tab'[v].keys : l.pair # k.pair
          /\ \A e \in K!Devices : \A r \in stock'[e] : r.key.pair # k.pair
    BY <2>1, <2>3 DEF KeyInv, PairsApart
  <2>5. \A e \in K!Devices : \A r \in stock'[e] :
          \/ r \in stock[e]
          \/ r.key \in tab[t].keys
    BY <1>5, <2>2
  <2>6. \A e \in K!Devices : \A r \in stock'[e] : r.key.pair <= mint'
    BY <1>2, <2>5 DEF KeyInv, PairsApart
  <2>7. \A e, f \in K!Devices : \A r \in stock'[e], s \in stock'[f] :
          s.key.pair = r.key.pair => s.key = r.key
    <3> TAKE e, f \in K!Devices
    <3> TAKE r \in stock'[e], s \in stock'[f]
    <3> HAVE s.key.pair = r.key.pair
    <3>1. \A k \in tab[t].keys : \A g \in K!Devices : \A q \in stock[g] :
            q.key.pair # k.pair
      BY <1>2 DEF KeyInv, PairsApart
    <3>2. \A k, l \in tab[t].keys : l.pair = k.pair => l = k
      BY <1>2 DEF KeyInv, PairsApart
    <3>3. CASE r \in stock[e] /\ s \in stock[f]
      BY <3>3 DEF KeyInv, PairsApart
    <3>4. CASE r.key \in tab[t].keys /\ s.key \in tab[t].keys
      BY <3>2, <3>4
    <3> QED
      BY <2>5, <3>1, <3>3, <3>4
  <2> QED
    BY <2>4, <2>6, <2>7 DEF PairsApart
<1>13. OneAccount'
  <2>1. d <= dev /\ dev \in Nat /\ 0 <= dev
    BY DEF KeyInv, KeyTypes, K!Devices, OneAccount
  <2>2. d = dev => acct.id # 0 /\ (i = acct.id \/ dev \in clash)
    BY <1>7 DEF KeyInv, OneAccount
  <2>3. \A e \in K!Devices : served'[e] # 0 => e <= dev'
    BY <1>5, <2>1 DEF KeyInv, OneAccount
  <2>4. \A u \in Tabs : tab'[u].dev <= dev' /\ (tab'[u].pc # "idle" => tab'[u].dev # 0)
    BY <1>1, <2>1 DEF KeyInv, OneAccount
  <2>5. \A u \in Tabs : tab'[u].dev = dev' =>
          /\ tab'[u].pc \in {"register", "topping", "upload"} => acct'.id # 0
          /\ tab'[u].pc \in {"register", "topping", "upload", "inbound"} =>
               tab'[u].got.id \in {0, acct'.id} \/ dev' \in clash'
    BY <1>1 DEF KeyInv, OneAccount
  <2>6. dev \in K!Devices
    BY DEF KeyInv, KeyTypes
  <2>7. acct'.id = 0 => served'[dev'] = 0
    BY <1>5, <2>2, <2>6 DEF KeyInv, OneAccount
  <2>8. K!IdentityAgrees'
    BY <1>5, <2>2, <2>6 DEF KeyInv, OneAccount, K!IdentityAgrees
  <2> QED
    BY <2>3, <2>4, <2>5, <2>7, <2>8 DEF OneAccount
<1>14. PrivateKept'
  <2>1. \A u \in Tabs : tab'[u].pc # "idle" => tab'[u] = tab[u]
    BY <1>1
  <2>2. dev \in K!Devices
    BY DEF KeyInv, KeyTypes
  <2>3. ASSUME served'[dev] = acct.id, dev \notin clash, NEW r \in stock'[dev], ~r.used
        PROVE  Kept(r.key.pair)
    <3>1. CASE d = dev
      <4>1. i = acct.id
        BY <1>5, <2>3, <3>1
      <4>2. r \in rows \/ r.key \in tab[t].keys
        BY <1>5, <1>6, <2>3, <3>1
      <4>3. CASE r \in rows
        BY <1>7, <2>3, <3>1, <4>1, <4>3 DEF KeyInv, PrivateKept
      <4>4. CASE r.key \in tab[t].keys
        BY <2>3, <3>1, <4>1, <4>4 DEF KeyInv, PrivateKept
      <4> QED
        BY <4>2, <4>3, <4>4
    <3>2. CASE d # dev
      BY <1>5, <2>2, <2>3, <3>2 DEF KeyInv, PrivateKept
    <3> QED
      BY <3>1, <3>2
  <2> QED
    BY <2>1, <2>3 DEF KeyInv, PrivateKept, Kept
<1> QED
  BY <1>9, <1>10, <1>11, <1>12, <1>13, <1>14 DEF KeyInv

LEMMA Sent ==
  ASSUME KeyInv, MaxIdents \in Nat, NEW t \in Tabs, K!Register(t) \/ K!Upload(t)
  PROVE  KeyInv'
<1>1. /\ tab' = [tab EXCEPT ![t] = K!Idle] /\ tab[t].pc \in {"register", "upload"}
      /\ UNCHANGED <<acct, dev, wire, mint, idents, handed, clash, lost>>
  BY DEF K!Register, K!Upload, K!Done
<1> QED
  <2> DEFINE d == tab[t].dev
             i == tab[t].got.id
  <2>1. /\ served[d] = i \/ (served[d] = 0 /\ tab[t].pc = "register")
        /\ stock' = [stock EXCEPT ![d] = K!Stocked(@, tab[t].keys)]
        /\ served' = served \/ served' = [served EXCEPT ![d] = i]
        /\ tab[t].pc = "upload" => served' = served
        /\ tab[t].pc = "register" => served' = [served EXCEPT ![d] = i]
    BY DEF K!Register, K!Upload
  <2>2. d \in K!Devices /\ i \in Nat
    <3>1. tab[t] \in Tab /\ d \in Nat /\ i \in Nat /\ dev \in 1 .. MaxIdents
      BY DEF KeyInv, KeyTypes, Tab, Account, K!Devices
    <3>2. d <= dev /\ d # 0
      BY <1>1 DEF KeyInv, OneAccount
    <3> QED
      BY <3>1, <3>2 DEF K!Devices
  <2>3. served' = [served EXCEPT ![d] = i]
    BY <1>1, <2>1, <2>2 DEF KeyInv, KeyTypes
  <2> QED
    <3> SUFFICES ASSUME NEW e \in K!Devices, e = d, NEW j \in Nat, j = i
                 PROVE  KeyInv'
      BY <2>2
    <3>1. /\ served[e] = j \/ (served[e] = 0 /\ tab[t].pc = "register")
          /\ served' = [served EXCEPT ![e] = j]
          /\ stock' = [stock EXCEPT ![e] = K!Stocked(@, tab[t].keys)]
      BY <2>1, <2>3
    <3> QED
      BY <1>1, <3>1, Published

\* Rows are marked, or go while they are open, and nothing is added but a
\* mark: what the browser holds stays in step.
LEMMA RowsSpent ==
  ASSUME KeyInv,
         stock' \in [K!Devices -> SUBSET Row], wire' \subseteq Key,
         \A d \in K!Devices : \A r \in stock'[d] : r \in stock[d] \/
           \E s \in stock[d] : s \notin stock'[d] /\ r = Spent(s.key),
         \A d \in K!Devices : \A r \in stock[d] : r.used => r \in stock'[d],
         \A h \in handed' \ handed :
           h[2] = 0 /\ \E d \in K!Devices : Spent(h[1]) \in stock'[d],
         handed \subseteq handed', \A k \in wire' : \E h \in handed' : h[1] = k,
         UNCHANGED <<acct, dev, tab, served, mint, idents, clash, lost>>
  PROVE  KeyInv'
<1>1. \A k : Spent(k).key = k /\ Spent(k).used = TRUE
  BY DEF Spent
<1>2. KeyTypes'
  BY DEF KeyInv, KeyTypes
<1>3. \A d \in K!Devices : \A r \in stock'[d] :
        \E s \in stock[d] : s.key = r.key /\ (r = s \/ (s \notin stock'[d] /\ r = Spent(s.key)))
  BY <1>1
<1>4. RowsKept'
  <2>1. ASSUME NEW d \in K!Devices, NEW r \in stock'[d], NEW s \in stock'[d],
               s.key.id = r.key.id
        PROVE  s = r
    <3>1. PICK p \in stock[d] : p.key = r.key /\ (r = p \/ (p \notin stock'[d] /\ r = Spent(p.key)))
      BY <1>3
    <3>2. PICK q \in stock[d] : q.key = s.key /\ (s = q \/ (q \notin stock'[d] /\ s = Spent(q.key)))
      BY <1>3
    <3>3. p = q
      BY <2>1, <3>1, <3>2 DEF KeyInv, RowsKept
    <3> QED
      BY <3>1, <3>2, <3>3
  <2>2. \A d \in K!Devices : \A r \in stock'[d] : served[d] # 0 /\ r.key.by = served[d]
    BY <1>3 DEF KeyInv, RowsKept
  <2>3. \A h \in handed' : h[2] = 0 /\ \E d \in K!Devices : Spent(h[1]) \in stock'[d]
    BY <1>1 DEF KeyInv, RowsKept
  <2> QED
    BY <2>1, <2>2, <2>3 DEF KeyInv, RowsKept
<1>5. SettingUp'
  BY DEF KeyInv, SettingUp, Setting
<1>6. PairsApart'
  <2>1. Making' = Making
    BY DEF Making
  <2>2. \A t \in Making : \A k \in tab[t].keys :
          \A d \in K!Devices : \A r \in stock'[d] : r.key.pair # k.pair
    BY <1>3 DEF KeyInv, PairsApart
  <2>3. \A d \in K!Devices : \A r \in stock'[d] : r.key.pair <= mint
    BY <1>3 DEF KeyInv, PairsApart
  <2>4. \A d, e \in K!Devices : \A r \in stock'[d], s \in stock'[e] :
          s.key.pair = r.key.pair => s.key = r.key
    <3> TAKE d, e \in K!Devices
    <3> TAKE r \in stock'[d], s \in stock'[e]
    <3>1. PICK p \in stock[d] : p.key = r.key
      BY <1>3
    <3>2. PICK q \in stock[e] : q.key = s.key
      BY <1>3
    <3> QED
      BY <3>1, <3>2 DEF KeyInv, PairsApart
  <2>5. \A t \in Making : tab[t].got.id # 0 /\ \A k \in tab[t].keys :
          /\ k.by = tab[t].got.id /\ k.pair <= mint
          /\ \A l \in tab[t].keys : l.id = k.id \/ l.pair = k.pair => l = k
          /\ \A u \in Making : u # t => \A l \in tab[u].keys : l.pair # k.pair
    BY DEF KeyInv, PairsApart
  <2> QED
    BY <2>1, <2>2, <2>3, <2>4, <2>5 DEF PairsApart
<1>7. OneAccount'
  BY DEF KeyInv, OneAccount, K!IdentityAgrees
<1>8. PrivateKept'
  <2>1. dev \in K!Devices
    BY DEF KeyInv, KeyTypes
  <2>2. \A r \in stock'[dev] : ~r.used => r \in stock[dev]
    BY <1>1, <1>3, <2>1
  <2> QED
    BY <2>2 DEF KeyInv, PrivateKept, Kept
<1> QED
  BY <1>2, <1>4, <1>5, <1>6, <1>7, <1>8 DEF KeyInv

\* The count of the times a key was given out.
LEMMA NoneGiven == K!Cardinality({}) = 0
  BY FS_EmptySet DEF K!Cardinality, Cardinality

\* A peer claims a key: the open row of the least pair.
LEMMA Claimed ==
  ASSUME KeyInv, NEW d \in K!Devices, NEW used \in BOOLEAN, K!Claim(d, used)
  PROVE  KeyInv'
<1> DEFINE open == K!Open(stock[d])
           r == CHOOSE r \in open : \A s \in open : r.key.pair <= s.key.pair
<1>1. stock[d] \subseteq Row /\ open \subseteq stock[d] /\ \A s \in open : ~s.used
  BY DEF K!Open, KeyInv, KeyTypes
<1>2. r \in open
  <2>1. {s.key.pair : s \in open} \subseteq Nat /\ {s.key.pair : s \in open} # {}
    BY <1>1 DEF K!Claim, Row, Key
  <2>2. PICK m \in {s.key.pair : s \in open} : \A n \in {s.key.pair : s \in open} : m <= n
    BY <2>1, Least
  <2>3. \E s \in open : \A q \in open : s.key.pair <= q.key.pair
    BY <2>2
  <2> QED
    BY <2>3
<1>3. /\ stock' = [stock EXCEPT ![d] = (@ \ {r}) \cup {[r EXCEPT !.used = TRUE]}]
      /\ handed' = handed \cup {<<r.key, K!Cardinality({h \in handed : h[1] = r.key})>>}
      /\ wire' = IF used THEN wire \cup {r.key} ELSE wire
      /\ UNCHANGED <<acct, dev, tab, served, mint, idents, clash, lost>>
  BY DEF K!Claim
<1> HIDE DEF r, open
<1>4. r \in stock[d] /\ r \in Row /\ ~r.used
  BY <1>1, <1>2
<1>5. [r EXCEPT !.used = TRUE] = Spent(r.key) /\ Spent(r.key) # r /\ r.key \in Key
  <2>1. Spent(r.key).used = TRUE
    BY DEF Spent
  <2> DEFINE p == [r EXCEPT !.used = TRUE]
  <2>2. p \in Row /\ p.key = r.key /\ p.used = TRUE /\ r.key \in Key
    BY <1>4 DEF Row
  <2> HIDE DEF p
  <2>3. p = Spent(r.key)
    BY <2>2 DEF Row, Spent
  <2>4. Spent(r.key) # r
    BY <1>4, <2>1
  <2> QED
    BY <2>2, <2>3, <2>4 DEF p
<1>6. {h \in handed : h[1] = r.key} = {}
  BY <1>4, SpentApart
<1>7. handed' = handed \cup {<<r.key, 0>>}
  BY <1>3, <1>6, NoneGiven
<1>8. Spent(r.key) \in Row
  BY <1>5 DEF Spent, Row
<1>9. /\ stock' \in [K!Devices -> SUBSET Row]
      /\ stock'[d] = (stock[d] \ {r}) \cup {Spent(r.key)}
      /\ \A e \in K!Devices : e # d => stock'[e] = stock[e]
  BY <1>3, <1>5, <1>8 DEF KeyInv, KeyTypes
<1>10. wire' \subseteq Key
  BY <1>3, <1>5 DEF KeyInv, KeyTypes
<1>11. \A e \in K!Devices : \A s \in stock'[e] : s \in stock[e] \/
         \E q \in stock[e] : q \notin stock'[e] /\ s = Spent(q.key)
  BY <1>4, <1>5, <1>9
<1>12. \A e \in K!Devices : \A s \in stock[e] : s.used => s \in stock'[e]
  BY <1>4, <1>9
<1>13. \A h \in handed' \ handed :
         h[2] = 0 /\ \E e \in K!Devices : Spent(h[1]) \in stock'[e]
  BY <1>7, <1>9
<1>14. \A k \in wire' : \E h \in handed' : h[1] = k
  <2>1. \A k \in wire : \E h \in handed' : h[1] = k
    BY <1>7 DEF KeyInv, RowsKept
  <2>2. <<r.key, 0>> \in handed' /\ <<r.key, 0>>[1] = r.key
    BY <1>7
  <2>3. wire' \subseteq wire \cup {r.key}
    BY <1>3
  <2> QED
    BY <2>1, <2>2, <2>3
<1> QED
  BY <1>3, <1>7, <1>9, <1>10, <1>11, <1>12, <1>13, <1>14, RowsSpent

\* A publish request comes again: the rows of its keys are there, and marked.
LEMMA Replayed ==
  ASSUME KeyInv, NEW d \in K!Devices, NEW pairs, K!Replay(d, pairs)
  PROVE  KeyInv'
<1> DEFINE keys == {h[1] : h \in {h \in handed : h[1].pair \in pairs /\ h[1].by = served[d]}}
           new == K!Stocked(stock[d], keys)
<1>1. /\ keys \in SUBSET Key
      /\ \A k \in keys : Spent(k) \in stock[d]
  BY SpentApart
<1>2. /\ stock' = [stock EXCEPT ![d] = new]
      /\ UNCHANGED <<acct, dev, tab, served, wire, mint, idents, handed, clash, lost>>
  BY DEF K!Replay
<1> HIDE DEF keys
<1>3. /\ new \in SUBSET Row /\ \A r \in stock[d] : r.used => r \in new
      /\ \A r \in new : \/ r \in stock[d]
                        \/ \E k \in keys : /\ r = [key |-> k, used |-> FALSE]
                                           /\ \A s \in stock[d] : s.key.id # k.id
  <2>1. stock[d] \in SUBSET Row
    BY DEF KeyInv, KeyTypes
  <2> QED
    BY <1>1, <2>1, StockedRows
<1> HIDE DEF new
<1>4. new \subseteq stock[d]
  BY <1>1, <1>3 DEF Spent
<1>5. /\ stock' \in [K!Devices -> SUBSET Row] /\ stock'[d] = new
      /\ \A e \in K!Devices : e # d => stock'[e] = stock[e]
  BY <1>2, <1>3 DEF KeyInv, KeyTypes
<1>6. /\ \A e \in K!Devices : \A s \in stock'[e] : s \in stock[e]
      /\ \A e \in K!Devices : \A s \in stock[e] : s.used => s \in stock'[e]
  BY <1>3, <1>4, <1>5
<1>7. wire' \subseteq Key /\ \A k \in wire' : \E h \in handed' : h[1] = k
  BY <1>2 DEF KeyInv, KeyTypes, RowsKept
<1> QED
  BY <1>2, <1>5, <1>6, <1>7, RowsSpent

LEMMA KeyInit ==
  ASSUME MaxIdents \in Nat \ {0}, K!Init
  PROVE  KeyInv
<1>1. /\ acct = K!NoAcct /\ acct \in Account /\ acct.id = 0 /\ dev = 1
      /\ dev \in K!Devices /\ mint = 0 /\ idents = 0
      /\ \A d \in K!Devices : served[d] = 0 /\ stock[d] = {}
      /\ wire = {} /\ handed = {}
      /\ \A t \in Tabs : tab[t] = K!Idle
  BY IdleTab DEF K!Init, K!Devices
<1>2. KeyTypes
  BY <1>1, IdleTab DEF K!Init, KeyTypes
<1>3. Setting = {} /\ Making = {}
  BY <1>1, IdleTab DEF Setting, Making
<1>4. RowsKept /\ SettingUp /\ PairsApart
  BY <1>1, <1>3, IdleTab DEF RowsKept, SettingUp, PairsApart
<1>5. OneAccount /\ PrivateKept
  BY <1>1, IdleTab DEF OneAccount, PrivateKept, K!IdentityAgrees
<1> QED
  BY <1>2, <1>4, <1>5 DEF KeyInv

LEMMA KeyStep ==
  ASSUME Batch \in Nat, MaxIdents \in Nat \ {0}, KeyInv, [K!Next]_(K!keyVars)
  PROVE  KeyInv'
<1>1. CASE K!Next
  BY <1>1, Rested, Creating, ToppingUp, BatchSaved, Sent, Inbounded, InboundSaved,
     WasReset, Claimed, Replayed DEF K!Next
<1>2. CASE UNCHANGED K!keyVars
  BY <1>2 DEF K!keyVars, KeyInv, KeyTypes, RowsKept, SettingUp, Setting, PairsApart,
     Making, OneAccount, K!IdentityAgrees, PrivateKept, Kept
<1> QED
  BY <1>1, <1>2

LEMMA SealedInit ==
  ASSUME K!Init
  PROVE  Sealed
<1>1. acct.id = 0 /\ wrap = 0 /\ wraps = 0 /\ seal = 0 /\ held = [t \in Tabs |-> 0]
  BY IdleTab DEF K!Init
<1>2. \A t \in Tabs : tab[t].pc \in Resting
  BY IdleTab DEF K!Init, Resting
<1> QED
  BY <1>1, <1>2 DEF Sealed

\* A tab has read the wrap key, has stored one, or is done.
LEMMA KeyHeld ==
  ASSUME KeyInv, Sealed, NEW t \in Tabs,
         \/ \E w \in K!Jobs, d \in K!Devices : K!GetKey(t, w, d)
         \/ K!PutKey(t) \/ K!Stop(t) \/ K!Register(t) \/ K!Upload(t)
  PROVE  Sealed'
<1>1. tab \in [Tabs -> Tab] /\ held \in [Tabs -> Nat] /\ dev \in Nat /\ dev # 0
  BY DEF KeyInv, KeyTypes, Sealed, K!Devices
<1>2. CASE \E w \in K!Jobs, d \in K!Devices : K!GetKey(t, w, d)
  <2>1. PICK w \in K!Jobs, d \in K!Devices : K!GetKey(t, w, d)
    BY <1>2
  <2>2. /\ held' \in [Tabs -> Nat] /\ held'[t] = wrap
        /\ \A u \in Tabs : u # t => held'[u] = held[u] /\ tab'[u] = tab[u]
        /\ UNCHANGED <<acct, dev, clash, wrap, wraps, seal>>
    BY <1>1, <2>1 DEF K!GetKey, Sealed
  <2>3. tab'[t].pc \in Resting
    <3>1. tab'[t] = [K!Idle EXCEPT !.pc = w, !.dev = d]
      BY <1>1, <2>1 DEF K!GetKey
    <3>2. tab'[t].pc = w
      BY <3>1, IdleTab DEF Tab
    <3> QED
      BY <3>2 DEF Resting
  <2> QED
    BY <2>2, <2>3 DEF Sealed
<1>3. CASE K!PutKey(t)
  <2>1. /\ wraps' = wraps + 1 /\ wrap' = wraps' /\ held' = [held EXCEPT ![t] = wraps']
        /\ clash \subseteq clash' /\ (wrap # 0 => dev \in clash')
        /\ tab[t].pc \in Resting /\ UNCHANGED <<acct, dev, tab, seal>>
    BY <1>3 DEF K!PutKey, Resting
  <2>2. wraps' \in Nat /\ wraps' # 0 /\ wrap' \in Nat
    BY <2>1 DEF Sealed
  <2>3. /\ held' \in [Tabs -> Nat] /\ held'[t] = wrap'
        /\ \A u \in Tabs : u # t => held'[u] = held[u]
    BY <1>1, <2>1, <2>2
  <2>4. dev \notin clash' =>
          acct.id = 0 /\ \A u \in Tabs : u # t /\ tab[u].dev = dev => held[u] = 0
    BY <2>1 DEF Sealed
  <2> QED
    BY <2>1, <2>2, <2>3, <2>4 DEF Sealed
<1>4. CASE K!Stop(t) \/ K!Register(t) \/ K!Upload(t)
  <2>1. /\ K!Done(t) /\ UNCHANGED <<acct, dev, clash, wrap, wraps, seal>>
    BY <1>4 DEF K!Stop, K!Register, K!Upload
  <2>2. /\ held' \in [Tabs -> Nat] /\ held'[t] = 0 /\ tab'[t].pc \in Resting
        /\ \A u \in Tabs : u # t => held'[u] = held[u] /\ tab'[u] = tab[u]
    BY <1>1, <2>1, IdleTab DEF K!Done, Resting
  <2> QED
    BY <2>1, <2>2 DEF Sealed
<1> QED
  BY <1>2, <1>3, <1>4

\* A tab goes on with the wrap key it has.
LEMMA KeyUsed ==
  ASSUME KeyInv, Sealed, NEW t \in Tabs,
         \/ K!Create(t) \/ K!TopUp(t) \/ \E ks \in SUBSET wire : K!Inbound(t, ks)
  PROVE  Sealed'
<1>1. /\ held[t] # 0 /\ \A u \in Tabs : u # t => tab'[u] = tab[u]
      /\ UNCHANGED <<acct, dev, clash, wrap, wraps, seal, held>>
  BY DEF K!Create, K!TopUp, K!Inbound, K!wrapVars, KeyInv, KeyTypes
<1>2. tab'[t].dev = tab[t].dev
  BY DEF K!Create, K!TopUp, K!Inbound, KeyInv, KeyTypes
<1> QED
  BY <1>1, <1>2 DEF Sealed

\* The account is sealed with the wrap key of the tab that saves it.
LEMMA AccountSealed ==
  ASSUME KeyInv, Sealed, NEW t \in Tabs,
         K!SaveCreated(t) \/ K!SaveTopUp(t) \/ K!SaveInbound(t)
  PROVE  Sealed'
<1>1. tab \in [Tabs -> Tab] /\ held \in [Tabs -> Nat] /\ dev \in Nat /\ dev # 0
  BY DEF KeyInv, KeyTypes, Sealed, K!Devices
<1>2. held[t] # 0 /\ held[t] \in Nat
  <2>1. tab[t].pc \in {"created", "topping", "inbound"}
    BY DEF K!SaveCreated, K!SaveTopUp, K!SaveInbound
  <2>2. tab[t].pc \notin Resting
    BY <2>1 DEF Resting, K!Jobs
  <2> QED
    BY <1>1, <2>2 DEF Sealed
<1>3. /\ seal' = held[t] /\ clash \subseteq clash' /\ (dev \notin clash' => tab[t].dev = dev)
      /\ UNCHANGED <<dev, wrap, wraps>>
  BY DEF K!SaveCreated, K!SaveTopUp, K!SaveInbound, K!Save
<1>4. dev \notin clash' => held[t] = wrap
  BY <1>2, <1>3 DEF Sealed
<1>5. CASE K!SaveCreated(t) \/ K!SaveTopUp(t)
  <2>1. held' = held /\ \A u \in Tabs : u # t => tab'[u] = tab[u]
    BY <1>1, <1>5 DEF K!SaveCreated, K!SaveTopUp
  <2>2. tab'[t].dev = tab[t].dev
    BY <1>1, <1>5 DEF K!SaveCreated, K!SaveTopUp, Tab
  <2> QED
    BY <1>2, <1>3, <1>4, <2>1, <2>2 DEF Sealed
<1>6. CASE K!SaveInbound(t)
  <2>1. /\ held' \in [Tabs -> Nat] /\ held'[t] = 0 /\ tab'[t].pc \in Resting
        /\ \A u \in Tabs : u # t => held'[u] = held[u] /\ tab'[u] = tab[u]
    BY <1>1, <1>6, IdleTab DEF K!SaveInbound, K!Done, Resting
  <2> QED
    BY <1>2, <1>3, <1>4, <2>1 DEF Sealed
<1> QED
  BY <1>5, <1>6

LEMMA SealedStep ==
  ASSUME KeyInv, Sealed, [K!Next]_(K!keyVars)
  PROVE  Sealed'
<1>1. CASE K!Reset
  <2>1. /\ acct'.id = 0 /\ wrap' = 0 /\ seal' = 0 /\ dev' = dev + 1
        /\ UNCHANGED <<tab, held, wraps, clash>>
    BY <1>1, IdleTab DEF K!Reset
  <2>2. \A t \in Tabs : tab[t].dev # dev'
    <3>1. \A t \in Tabs : tab[t].dev \in Nat /\ tab[t].dev <= dev
      BY DEF KeyInv, KeyTypes, Tab, OneAccount
    <3>2. dev \in Nat
      BY DEF KeyInv, KeyTypes, K!Devices
    <3> QED
      BY <2>1, <3>1, <3>2
  <2> QED
    BY <2>1, <2>2 DEF Sealed
<1>2. CASE UNCHANGED <<acct, dev, tab, clash, wrap, wraps, seal, held>>
  BY <1>2 DEF Sealed
<1>3. CASE \/ \E d \in K!Devices, used \in BOOLEAN : K!Claim(d, used)
           \/ \E d \in K!Devices, p \in 1 .. MaxKeys : K!Replay(d, {p})
           \/ UNCHANGED K!keyVars
  BY <1>2, <1>3 DEF K!Claim, K!Replay, K!keyVars, K!wrapVars
<1>4. ASSUME NEW t \in Tabs, NEW ks \in {{}} \cup {{k} : k \in wire}, K!Inbound(t, ks)
      PROVE  Sealed'
  BY <1>4, KeyUsed
<1> QED
  BY <1>1, <1>3, <1>4, KeyHeld, KeyUsed, AccountSealed DEF K!Next

LEMMA KeysCounted ==
  ASSUME KeyInv, Sealed
  PROVE  K!KeysAccounted
<1>1. K!HandedOutOnce /\ K!IdentityAgrees
  BY DEF KeyInv, RowsKept, OneAccount, K!HandedOutOnce
<1>2. K!OffersAnswerable
  <2> SUFFICES ASSUME NEW r \in stock[dev], ~r.used, served[dev] = acct.id,
                      r.key.pair \notin lost, dev \notin clash
               PROVE  acct.id = r.key.by /\ r.key.pair \in acct.priv /\ seal = wrap
    BY DEF K!OffersAnswerable, K!Answers, K!Open
  <2>1. dev \in K!Devices
    BY DEF KeyInv, KeyTypes
  <2>2. acct.id = r.key.by /\ r.key.pair \in acct.priv /\ acct.id # 0
    BY <2>1 DEF KeyInv, RowsKept, PrivateKept, Kept
  <2> QED
    BY <2>2 DEF Sealed
<1> QED
  BY <1>1, <1>2 DEF K!KeysAccounted

-----------------------------------------------------------------------------
(* The attachments.                                                        *)

Job == [pc : {"idle", "next", "uploaded", "attaching"},
        kind : {A!None, "send", "command", "gif"}, text : Texts \cup {A!None},
        files : SUBSET Files, left : SUBSET Files, file : Files \cup {A!None},
        key : Nat, post : Nat, cancel : BOOLEAN]
Box == [text : Texts \cup {A!None}, files : SUBSET Files]
File == [disk : BOOLEAN, row : {"none", "live", "purged"}, age : {"far", "near", "over"},
         late : 0 .. 2, del : {"none", "asked", "cleared", "done"}]
Posting == [item : A!Items \cup {A!None, "gif"}, deleted : BOOLEAN]

AttachmentTypes ==
  /\ box \in Box /\ job \in Job /\ upload \in Seq(File) /\ post \in Seq(Posting)

\* A send under way, and what of it is still in the composer: the files of a
\* command, and nothing else.
Sending ==
  /\ job = A!NoJob \/ (job.pc # "idle" /\ job.kind # A!None)
  /\ job.left \subseteq job.files
  /\ job.pc \in {"uploaded", "attaching"} => job.file \in job.left
  /\ job.pc = "attaching" => job.post \in 1 .. Len(post) /\ post[job.post].item = job.file
  /\ job.kind = "gif" => job.text = A!None /\ job.files = {}
  /\ job.kind = "send" => A!InBox(box) \cap A!InJob(job) = {}
  /\ job.kind = "command" =>
       job.files \subseteq box.files /\ job.text # A!None /\ job.text # box.text

\* What has been posted was entered once, and what is entered is somewhere.
EnteredOnce ==
  /\ A!InBox(box) \cup A!InJob(job) \subseteq entered
  /\ \A x : A!Posted(x) => x \in entered \/ x = "gif"
  /\ \A f \in job.files \ job.left : A!Posted(f)
  /\ A!NothingTypedLost

\* What is to be sent and has been posted was in a send that failed.
SentAgain ==
  /\ \A x \in A!InBox(box) : A!Posted(x) /\ x # "gif" =>
       x \in again \/ (job.kind = "command" /\ x \in job.files)
  /\ \A x \in job.left : A!Posted(x) /\ x # "gif" =>
       x \in again \/ (job.pc = "attaching" /\ x = job.file)
  /\ \A x : x = job.text /\ x # A!None /\ A!Posted(x) /\ x # "gif" => x \in again
  /\ A!PostedOnce

\* The upload of the send under way is untouched; a late row comes once, and a
\* file goes only with its row.
Stored(k) ==
  /\ upload[k].late = 1 => upload[k].row = "none"
  /\ upload[k].del = "cleared" => upload[k].row = "none" \/ upload[k].late = 2
  /\ upload[k].row = "purged" /\ upload[k].disk => k \in left
  /\ upload[k].row = "live" /\ upload[k].age # "over" => upload[k].disk \/ upload[k].late = 2
  /\ upload[k].disk => \/ upload[k].row = "live" \/ k = job.key
                       \/ upload[k].del \in {"asked", "cleared"} \/ k \in orphan \cup left

Holding ==
  /\ job.pc \in {"idle", "next"} => job.key = 0
  /\ job.pc \in {"uploaded", "attaching"} =>
       /\ job.key \in 1 .. Len(upload) /\ upload[job.key].disk
       /\ upload[job.key].row = "none" /\ upload[job.key].late = 0
       /\ upload[job.key].del = "none"
  /\ \A k \in purging :
       k \in 1 .. Len(upload) /\ upload[k].row = "live" /\ upload[k].age = "over"

StorageInv == Holding /\ \A k \in 1 .. Len(upload) : Stored(k)
ComposerInv == Sending /\ EnteredOnce /\ SentAgain
AttachmentInv == AttachmentTypes /\ StorageInv /\ ComposerInv

LEMMA AttachmentInit ==
  ASSUME A!Init
  PROVE  AttachmentInv
<1> USE DEF A!Init
<1>1. AttachmentTypes
  BY DEF AttachmentTypes, Box, Job, A!Empty, A!NoJob
<1>2. StorageInv
  BY DEF StorageInv, Holding, Stored, A!NoJob
<1>3. A!InBox(box) = {} /\ A!InJob(job) = {} /\ \A x : ~A!Posted(x)
  BY DEF A!InBox, A!InJob, A!Posted, A!Empty, A!NoJob
<1>4. Sending
  BY DEF Sending, A!NoJob, A!None
<1>5. EnteredOnce
  BY <1>3 DEF EnteredOnce, A!NothingTypedLost, A!NoJob
<1>6. SentAgain
  BY <1>3 DEF SentAgain, A!PostedOnce, A!NoJob
<1> QED BY <1>1, <1>2, <1>4, <1>5, <1>6 DEF AttachmentInv, ComposerInv

LEMMA AttachmentReached == AttachmentInv => A!SendsAccounted /\ A!StorageAgrees
BY DEF AttachmentInv, ComposerInv, StorageInv, EnteredOnce, SentAgain, Stored,
       A!SendsAccounted, A!StorageAgrees, A!RowsServable, A!FilesAccounted, A!Keys

\* One more message.
LEMMA OneMore ==
  ASSUME post \in Seq(Posting), NEW m \in Posting, post' = Append(post, m), A!PostedOnce,
         again \subseteq again', A!Posted(m.item) /\ m.item # "gif" => m.item \in again'
  PROVE  /\ post' \in Seq(Posting) /\ A!PostedOnce'
         /\ Len(post') \in 1 .. Len(post') /\ post'[Len(post')] = m
         /\ \A x : A!Posted(x)' <=> A!Posted(x) \/ x = m.item
<1>1. /\ post' \in Seq(Posting) /\ Len(post) \in Nat /\ Len(post') = Len(post) + 1
      /\ post'[Len(post) + 1] = m /\ \A n \in 1 .. Len(post) : post'[n] = post[n]
  OBVIOUS
<1>2. \A n \in 1 .. Len(post') : n \in 1 .. Len(post) \/ n = Len(post) + 1
  BY <1>1
<1>3. \A x : A!Posted(x)' <=> A!Posted(x) \/ x = m.item
  BY <1>1, <1>2 DEF A!Posted
<1>4. A!PostedOnce'
  <2> SUFFICES ASSUME NEW a \in 1 .. Len(post'), NEW b \in 1 .. Len(post'), a # b,
                      post'[a].item = post'[b].item, post'[a].item # "gif"
               PROVE  post'[a].item \in again'
    BY DEF A!PostedOnce
  <2>1. CASE a \in 1 .. Len(post) /\ b \in 1 .. Len(post)
    BY <1>1, <2>1 DEF A!PostedOnce
  <2>2. CASE a = Len(post) + 1 /\ b \in 1 .. Len(post)
    BY <1>1, <2>2 DEF A!Posted
  <2>3. CASE b = Len(post) + 1 /\ a \in 1 .. Len(post)
    BY <1>1, <2>3 DEF A!Posted
  <2> QED BY <1>2, <2>1, <2>2, <2>3
<1> QED BY <1>1, <1>3, <1>4

\* A send that fails: what it had is in the composer again.
LEMMA FailStep ==
  ASSUME Texts \cap Files = {}, A!None \notin A!Items,
         AttachmentTypes, ComposerInv, job.pc # "idle", NEW unsure, A!Fail(unsure),
         entered' = entered, A!PostedOnce',
         \A x : A!Posted(x) => A!Posted(x)',
         \A x : A!Posted(x)' => A!Posted(x) \/ x \in unsure \cup {"gif"},
         unsure \subseteq entered \cup {"gif"}
  PROVE  ComposerInv' /\ box' \in Box /\ job' \in Job
<1> USE DEF ComposerInv
<1>1. /\ job' = A!NoJob /\ A!NoJob \in Job /\ A!InJob(A!NoJob) = {}
      /\ A!NoJob.left = {} /\ A!NoJob.files = {} /\ A!NoJob.text = A!None
      /\ A!NoJob.kind = A!None /\ A!NoJob.pc = "idle"
  BY DEF A!Fail, A!NoJob, A!InJob, Job
<1>2. /\ box' = A!Restored(box) /\ again' = again \cup unsure \cup {x \in A!InJob(job) : A!Posted(x)}
      /\ dropped' = dropped \cup (A!InBox(box) \ (A!InBox(box') \cup A!InJob(job)))
  BY DEF A!Fail
<1>3. job.kind \in {"send", "command", "gif"}
  BY DEF Sending, AttachmentTypes, Job, A!NoJob
<1>4. /\ box' \in Box /\ A!InJob(job) \subseteq A!InBox(box')
      /\ A!InBox(box') \subseteq A!InBox(box) \cup A!InJob(job)
  <2>1. CASE job.kind = "send"
    <3>1. box' = [text |-> job.text, files |-> job.files]
      BY <1>2, <2>1 DEF A!Restored
    <3> QED BY <3>1 DEF AttachmentTypes, Job, Box, A!InBox, A!InJob
  <2>2. CASE job.kind = "command"
    <3>1. box' = [box EXCEPT !.text = job.text]
      BY <1>2, <2>2 DEF A!Restored
    <3>2. box' \in Box /\ box'.text = job.text /\ box'.files = box.files
      BY <3>1 DEF AttachmentTypes, Job, Box
    <3> QED BY <2>2, <3>2 DEF Sending, A!InBox, A!InJob
  <2>3. CASE job.kind = "gif"
    <3>1. box' = box
      BY <1>2, <2>3 DEF A!Restored
    <3> QED BY <2>3, <3>1 DEF AttachmentTypes, Sending, A!InJob
  <2> QED BY <1>3, <2>1, <2>2, <2>3
<1>5. Sending'
  BY <1>1 DEF Sending, A!None
<1>6. EnteredOnce'
  <2>1. A!InBox(box') \cup A!InJob(job') \subseteq entered'
    BY <1>1, <1>4 DEF EnteredOnce
  <2>2. \A x : A!Posted(x)' => x \in entered' \/ x = "gif"
    BY DEF EnteredOnce
  <2>3. A!NothingTypedLost'
    BY <1>1, <1>2, <1>4 DEF EnteredOnce, A!NothingTypedLost
  <2> QED BY <1>1, <2>1, <2>2, <2>3 DEF EnteredOnce
<1>7. SentAgain'
  <2>1. ASSUME NEW x \in A!InBox(box'), A!Posted(x)', x # "gif"
        PROVE  x \in again'
    <3>1. A!Posted(x) \/ x \in unsure
      BY <2>1
    <3>2. CASE x \in A!InJob(job)
      BY <1>2, <3>1, <3>2
    <3>3. CASE x \notin A!InJob(job)
      <4>1. x \in A!InBox(box) /\ x \notin job.files
        BY <1>4, <3>3 DEF A!InJob
      <4> QED BY <1>2, <2>1, <3>1, <4>1 DEF SentAgain
    <3> QED BY <3>2, <3>3
  <2> QED BY <1>1, <2>1 DEF SentAgain
<1> QED BY <1>1, <1>4, <1>5, <1>6, <1>7

\* A send that is through: all it had is posted.
LEMMA DoneStep ==
  ASSUME Texts \cap Files = {}, A!None \notin A!Items,
         AttachmentTypes, ComposerInv, job.pc = "next", job.left = {}, A!Done,
         UNCHANGED <<entered, again>>, A!PostedOnce',
         \A x : A!Posted(x) => A!Posted(x)',
         \A x : A!Posted(x)' => A!Posted(x) \/ x = "gif" \/ (x = job.text /\ x # A!None),
         \A x : x = job.text /\ x # A!None => A!Posted(x)'
  PROVE  ComposerInv' /\ box' \in Box /\ job' \in Job
<1> USE DEF ComposerInv
<1>1. /\ job' = A!NoJob /\ A!NoJob \in Job /\ A!InJob(A!NoJob) = {}
      /\ A!NoJob.left = {} /\ A!NoJob.files = {} /\ A!NoJob.text = A!None
      /\ A!NoJob.kind = A!None /\ A!NoJob.pc = "idle"
  BY DEF A!Done, A!NoJob, A!InJob, Job
<1>2. job.kind \in {"send", "command", "gif"}
  BY DEF Sending, AttachmentTypes, Job, A!NoJob
<1>3. /\ box' \in Box /\ A!InBox(box') \subseteq A!InBox(box)
      /\ A!InBox(box) \subseteq A!InBox(box') \cup dropped' \cup job.files
      /\ dropped \subseteq dropped' /\ job.text \notin A!InBox(box')
      /\ job.kind = "command" => A!InBox(box') \cap job.files = {}
  <2>1. job.text \in Texts \cup {A!None} /\ job.files \subseteq Files /\ box \in Box
        /\ box.files \subseteq Files /\ box.text \in Texts \cup {A!None}
    BY DEF AttachmentTypes, Job, Box
  <2>2. CASE job.kind = "command"
    <3>1. /\ box' = [box EXCEPT !.files = {}]
          /\ dropped' = dropped \cup (box.files \ job.files)
      BY <2>2 DEF A!Done
    <3>2. box' \in Box /\ box'.files = {} /\ box'.text = box.text
      BY <2>1, <3>1 DEF Box
    <3> QED BY <2>1, <2>2, <3>1, <3>2 DEF Sending, A!InBox
  <2>3. CASE job.kind # "command"
    <3>1. box' = box /\ dropped' = dropped
      BY <2>3 DEF A!Done
    <3>2. job.text \notin A!InBox(box)
      <4>1. CASE job.text = A!None
        BY <2>1, <4>1 DEF A!InBox, A!Items
      <4>2. CASE job.text # A!None
        BY <1>2, <2>3, <4>2 DEF Sending, A!InJob
      <4> QED BY <4>1, <4>2
    <3> QED BY <2>1, <2>3, <3>1, <3>2
  <2> QED BY <2>2, <2>3
<1>4. \A x \in A!InJob(job) : A!Posted(x)'
  <2>1. \A x \in job.files : A!Posted(x)
    BY DEF EnteredOnce
  <2> TAKE x \in A!InJob(job)
  <2>2. CASE x \in job.files
    BY <2>1, <2>2
  <2>3. CASE x \notin job.files
    <3>1. x = job.text /\ job.text # A!None
      BY <2>3 DEF A!InJob
    <3> QED BY <3>1
  <2> QED BY <2>2, <2>3
<1>5. Sending'
  BY <1>1 DEF Sending, A!None
<1>6. EnteredOnce'
  <2>1. A!InBox(box') \cup A!InJob(job') \subseteq entered'
    BY <1>1, <1>3 DEF EnteredOnce
  <2>2. \A x : A!Posted(x)' => x \in entered' \/ x = "gif"
    <3> SUFFICES ASSUME NEW x, A!Posted(x)', x # "gif"
                 PROVE  x \in entered
      OBVIOUS
    <3>1. CASE A!Posted(x)
      BY <3>1 DEF EnteredOnce
    <3>2. CASE x = job.text /\ job.text # A!None
      BY <3>2 DEF EnteredOnce, A!InJob
    <3> QED BY <3>1, <3>2
  <2>3. A!NothingTypedLost'
    <3>1. \A x \in job.files : A!Posted(x)'
      BY <1>4 DEF A!InJob
    <3> QED BY <1>1, <1>3, <1>4, <3>1 DEF EnteredOnce, A!NothingTypedLost
  <2> QED BY <1>1, <2>1, <2>2, <2>3 DEF EnteredOnce
<1>7. SentAgain'
  <2>1. ASSUME NEW x \in A!InBox(box'), A!Posted(x)', x # "gif"
        PROVE  x \in again'
    <3>1. A!Posted(x) /\ x \in A!InBox(box)
      BY <1>3, <2>1
    <3>2. ~(job.kind = "command" /\ x \in job.files)
      BY <1>3, <2>1
    <3> QED BY <2>1, <3>1, <3>2 DEF SentAgain
  <2> QED BY <1>1, <2>1 DEF SentAgain
<1> QED BY <1>1, <1>3, <1>5, <1>6, <1>7

\* One file changes, and the others are as they were.
LEMMA FileStep ==
  ASSUME AttachmentTypes, StorageInv, NEW k \in 1 .. Len(upload), NEW z \in File,
         upload' = [upload EXCEPT ![k] = z], orphan \subseteq orphan', left \subseteq left',
         job'.pc \in {"idle", "next"} => job'.key = 0,
         job'.pc \in {"uploaded", "attaching"} => job' = job /\ k # job.key,
         job.key \in {job'.key, k, 0},
         \A p \in purging' : \/ p \in purging /\ p # k
                             \/ p = k /\ z.row = "live" /\ z.age = "over",
         z.late = 1 => z.row = "none", z.del = "cleared" => z.row = "none" \/ z.late = 2,
         z.row = "purged" /\ z.disk => k \in left',
         z.row = "live" /\ z.age # "over" => z.disk \/ z.late = 2,
         z.disk => \/ z.row = "live" \/ k = job'.key
                   \/ z.del \in {"asked", "cleared"} \/ k \in orphan' \cup left'
  PROVE  StorageInv' /\ upload' \in Seq(File)
<1>1. /\ upload' \in Seq(File) /\ Len(upload') = Len(upload) /\ upload'[k] = z
      /\ \A n \in 1 .. Len(upload) : n # k => upload'[n] = upload[n]
  BY DEF AttachmentTypes
<1>2. Holding'
  BY <1>1 DEF StorageInv, Holding
<1>3. ASSUME NEW n \in 1 .. Len(upload')
      PROVE  Stored(n)'
  <2>1. CASE n = k
    BY <1>1, <2>1 DEF Stored
  <2>2. CASE n # k
    <3>1. Stored(n) /\ upload'[n] = upload[n]
      BY <1>1, <2>2 DEF StorageInv
    <3>2. n = job.key => n = job'.key
      BY <1>1, <1>3, <2>2
    <3> QED BY <3>1, <3>2 DEF Stored
  <2> QED BY <2>1, <2>2
<1> QED BY <1>1, <1>2, <1>3 DEF StorageInv

\* Nothing that the user sees changes.
LEMMA ComposerSame ==
  ASSUME ComposerInv, UNCHANGED <<box, job, post, entered, dropped, again>>
  PROVE  ComposerInv'
<1>1. \A y : A!Posted(y)' <=> A!Posted(y)
  BY DEF A!Posted
<1> QED BY <1>1 DEF ComposerInv, Sending, EnteredOnce, SentAgain, A!NothingTypedLost,
           A!PostedOnce

LEMMA EnterStep ==
  ASSUME Texts \cap Files = {}, A!None \notin A!Items, AttachmentInv, NEW x \in A!Items,
         A!Enter(x)
  PROVE  AttachmentInv'
<1> USE DEF AttachmentInv, ComposerInv
<1>1. /\ UNCHANGED <<job, upload, post, purging, dropped, again, orphan, left>>
      /\ x \notin entered /\ entered' = entered \cup {x}
  BY DEF A!Enter
<1>2. /\ box' \in Box /\ A!InBox(box') = A!InBox(box) \cup {x}
      /\ box.files \subseteq box'.files /\ (box'.text = box.text \/ box'.text = x)
  <2>1. box \in Box /\ x # A!None
    BY DEF AttachmentTypes
  <2>2. CASE x \in Texts /\ box.text = A!None /\ box' = [box EXCEPT !.text = x]
    BY <2>1, <2>2 DEF Box, A!InBox
  <2>3. CASE x \in Files /\ box' = [box EXCEPT !.files = @ \cup {x}]
    <3>1. box' \in Box /\ box'.text = box.text /\ box'.files = box.files \cup {x}
      BY <2>1, <2>3 DEF Box
    <3> QED BY <3>1 DEF A!InBox
  <2> QED BY <2>2, <2>3 DEF A!Enter
<1>3. AttachmentTypes' /\ StorageInv'
  BY <1>1, <1>2 DEF AttachmentTypes, StorageInv, Holding, Stored
<1>4. x \notin A!InJob(job) /\ (A!Posted(x) => x = "gif")
  BY <1>1 DEF EnteredOnce
<1>5. Sending'
  BY <1>1, <1>2, <1>4 DEF Sending, A!InJob
<1>6. \A y : A!Posted(y)' <=> A!Posted(y)
  BY <1>1 DEF A!Posted
<1>7. EnteredOnce'
  BY <1>1, <1>2, <1>6 DEF EnteredOnce, A!NothingTypedLost
<1>8. SentAgain'
  BY <1>1, <1>2, <1>4, <1>6 DEF SentAgain, A!PostedOnce
<1> QED BY <1>3, <1>5, <1>7, <1>8

LEMMA ClearStep ==
  ASSUME A!None \notin A!Items, AttachmentInv, A!ClearDraft \/ A!ClosePage
  PROVE  AttachmentInv'
<1> USE DEF AttachmentInv, ComposerInv
<1>1. UNCHANGED <<upload, post, purging, entered, again, left>>
  BY DEF A!ClearDraft, A!ClosePage
<1>2. \A y : A!Posted(y)' <=> A!Posted(y)
  BY <1>1 DEF A!Posted
<1>3. CASE A!ClearDraft
  <2>1. /\ box' = [box EXCEPT !.text = A!None] /\ job' = job /\ orphan' = orphan
        /\ box.text # A!None /\ dropped' = dropped \cup {box.text}
    BY <1>3 DEF A!ClearDraft
  <2>2. box' \in Box /\ box'.text = A!None /\ box'.files = box.files
    BY <2>1 DEF AttachmentTypes, Box
  <2>3. A!InBox(box') = box.files /\ A!InBox(box) = box.files \cup {box.text}
    BY <2>1, <2>2 DEF A!InBox
  <2>4. AttachmentTypes' /\ StorageInv'
    BY <1>1, <2>1, <2>2 DEF AttachmentTypes, StorageInv, Holding, Stored
  <2>5. Sending'
    BY <1>1, <2>1, <2>2, <2>3 DEF Sending
  <2>6. EnteredOnce'
    BY <1>1, <1>2, <2>1, <2>3 DEF EnteredOnce, A!NothingTypedLost
  <2>7. SentAgain'
    BY <1>1, <1>2, <2>1, <2>3 DEF SentAgain, A!PostedOnce
  <2> QED BY <2>4, <2>5, <2>6, <2>7
<1>4. CASE A!ClosePage
  <2>1. /\ box' = A!Empty /\ job' = A!NoJob
        /\ dropped' = dropped \cup A!InBox(box) \cup A!InJob(job)
        /\ orphan' = IF job.key = 0 THEN orphan ELSE orphan \cup {job.key}
    BY <1>4 DEF A!ClosePage
  <2>2. /\ A!Empty \in Box /\ A!NoJob \in Job
        /\ A!InBox(A!Empty) = {} /\ A!InJob(A!NoJob) = {}
        /\ A!NoJob.left = {} /\ A!NoJob.files = {} /\ A!NoJob.text = A!None
        /\ A!NoJob.kind = A!None /\ A!NoJob.pc = "idle" /\ A!NoJob.key = 0
    BY DEF A!Empty, A!NoJob, A!InBox, A!InJob, Box, Job
  <2>3. AttachmentTypes'
    BY <1>1, <2>1, <2>2 DEF AttachmentTypes
  <2>4. StorageInv'
    BY <1>1, <2>1, <2>2 DEF AttachmentTypes, StorageInv, Holding, Stored
  <2>5. Sending'
    BY <2>1, <2>2 DEF Sending, A!None
  <2>6. EnteredOnce'
    BY <1>1, <1>2, <2>1, <2>2 DEF EnteredOnce, A!NothingTypedLost
  <2>7. SentAgain'
    BY <1>1, <1>2, <2>1, <2>2 DEF SentAgain, A!PostedOnce
  <2> QED BY <2>3, <2>4, <2>5, <2>6, <2>7
<1> QED BY <1>3, <1>4

LEMMA HandStep ==
  ASSUME Texts \cap Files = {}, A!None \notin A!Items, AttachmentInv,
         NEW k \in {"send", "command", "gif"}, A!HandleSend(k)
  PROVE  AttachmentInv'
<1> USE DEF AttachmentInv, ComposerInv
<1>1. /\ UNCHANGED <<upload, post, purging, entered, dropped, again, orphan, left>>
      /\ job = A!NoJob /\ (k = "command" => box.text # A!None)
  BY DEF A!HandleSend
<1>2. \A y : A!Posted(y)' <=> A!Posted(y)
  BY <1>1 DEF A!Posted
<1>3. box \in Box /\ box.files \subseteq Files /\ box.text \in Texts \cup {A!None}
  BY DEF AttachmentTypes, Box
<1>4. /\ A!InJob(A!NoJob) = {} /\ A!NoJob.left = {} /\ A!NoJob.files = {}
      /\ A!NoJob.text = A!None /\ A!NoJob.kind = A!None /\ A!NoJob.pc = "idle"
      /\ A!NoJob.key = 0
  BY DEF A!NoJob, A!InJob
<1>5. /\ job' \in Job /\ job'.pc = "next" /\ job'.kind = k /\ job'.key = 0
      /\ job'.text = IF k = "gif" THEN A!None ELSE box.text
      /\ job'.files = IF k = "gif" THEN {} ELSE box.files
      /\ job'.left = job'.files
  <2> DEFINE e == [A!NoJob EXCEPT !.pc = "next", !.kind = k,
               !.text  = IF k = "gif" THEN A!None ELSE box.text,
               !.files = IF k = "gif" THEN {} ELSE box.files,
               !.left  = IF k = "gif" THEN {} ELSE box.files]
  <2>1. job' = e
    BY DEF A!HandleSend
  <2>2. /\ e \in Job /\ e.pc = "next" /\ e.kind = k /\ e.key = 0
        /\ e.text = IF k = "gif" THEN A!None ELSE box.text
        /\ e.files = IF k = "gif" THEN {} ELSE box.files
        /\ e.left = e.files
    BY <1>3 DEF Job, A!NoJob
  <2> HIDE DEF e
  <2> QED BY <2>1, <2>2
<1>6. /\ box' \in Box
      /\ k = "send" => A!InBox(box') = {} /\ A!InJob(job') = A!InBox(box)
      /\ k = "command" => /\ box'.text = A!None /\ box'.files = box.files
                          /\ A!InBox(box') = box.files /\ A!InJob(job') = A!InBox(box)
      /\ k = "gif" => box' = box /\ A!InJob(job') = {}
  <2>1. CASE k = "send"
    BY <1>3, <1>5, <2>1 DEF A!HandleSend, A!Empty, A!InBox, A!InJob, Box
  <2>2. CASE k = "command"
    <3>1. box' = [box EXCEPT !.text = A!None]
      BY <2>2 DEF A!HandleSend
    <3>2. box' \in Box /\ box'.text = A!None /\ box'.files = box.files
      BY <1>3, <3>1 DEF Box
    <3> QED BY <1>5, <2>2, <3>2 DEF A!InBox, A!InJob
  <2>3. CASE k = "gif"
    BY <1>3, <1>5, <2>3 DEF A!HandleSend, A!InJob
  <2> QED BY <2>1, <2>2, <2>3
<1>7. AttachmentTypes' /\ StorageInv'
  BY <1>1, <1>4, <1>5, <1>6 DEF AttachmentTypes, StorageInv, Holding, Stored
<1>8. Sending'
  <2>1. k = "command" => job'.files \subseteq box'.files /\ job'.text # A!None /\ job'.text # box'.text
    BY <1>1, <1>5, <1>6
  <2>2. k # A!None
    BY DEF A!None
  <2> QED BY <1>5, <1>6, <2>1, <2>2 DEF Sending
<1>9. EnteredOnce'
  <2>1. A!InBox(box') \cup A!InJob(job') = A!InBox(box)
    <3>1. box.files \subseteq A!InBox(box)
      BY DEF A!InBox
    <3> QED BY <1>6, <3>1
  <2>2. \A f \in job'.files \ job'.left : A!Posted(f)'
    BY <1>5
  <2>3. A!NothingTypedLost'
    BY <1>1, <1>2, <1>4, <2>1 DEF EnteredOnce, A!NothingTypedLost
  <2> QED BY <1>1, <1>2, <2>1, <2>2, <2>3 DEF EnteredOnce
<1>10. SentAgain'
  <2>1. \A x \in A!InBox(box) : A!Posted(x) /\ x # "gif" => x \in again
    BY <1>1, <1>4 DEF SentAgain, A!None
  <2>2. A!InBox(box') \subseteq A!InBox(box) /\ job'.left \subseteq A!InBox(box)
        /\ (job'.text # A!None => job'.text \in A!InBox(box))
    <3>1. box.files \subseteq A!InBox(box) /\ (box.text # A!None => box.text \in A!InBox(box))
      BY DEF A!InBox
    <3> QED BY <1>5, <1>6, <3>1
  <2>3. A!PostedOnce'
    BY <1>1 DEF SentAgain, A!PostedOnce
  <2> QED BY <1>1, <1>2, <2>1, <2>2, <2>3 DEF SentAgain
<1> QED BY <1>7, <1>8, <1>9, <1>10

\* What the server does beside the page.
LEMMA ServerStep ==
  ASSUME AttachmentInv, NEW k \in A!Keys, NEW ok \in BOOLEAN,
         \/ A!LateAttach(k) \/ A!CheckDelete(k) \/ A!Age(k) \/ A!Download(k)
         \/ A!RemoveFile(k, ok) \/ A!PurgeFile(k, ok) \/ A!PurgeRow(k, ok)
  PROVE  AttachmentInv'
<1> USE DEF AttachmentInv
<1>1. UNCHANGED <<box, job, post, entered, dropped, again>>
  BY DEF A!LateAttach, A!CheckDelete, A!Age, A!Download, A!RemoveFile, A!PurgeFile, A!PurgeRow
<1>2. k \in 1 .. Len(upload) /\ upload[k] \in File /\ upload \in Seq(File)
  BY DEF A!Keys, AttachmentTypes
<1>3. Stored(k) /\ (k \in purging => upload[k].row = "live" /\ upload[k].age = "over")
  BY <1>2 DEF StorageInv, Holding
<1>4. job.pc \in {"uploaded", "attaching"} =>
        upload[job.key].row = "none" /\ upload[job.key].late = 0 /\ upload[job.key].del = "none"
  BY DEF StorageInv, Holding
<1>5. job.pc \in {"idle", "next"} => job.key = 0
  BY DEF StorageInv, Holding
<1>6. /\ upload[k].late = 1 => upload[k].row = "none"
      /\ upload[k].del = "cleared" => upload[k].row = "none" \/ upload[k].late = 2
      /\ upload[k].row = "purged" /\ upload[k].disk => k \in left
      /\ upload[k].row = "live" /\ upload[k].age # "over" => upload[k].disk \/ upload[k].late = 2
      /\ upload[k].disk => \/ upload[k].row = "live" \/ k = job.key
                           \/ upload[k].del \in {"asked", "cleared"} \/ k \in orphan \cup left
  BY <1>3 DEF Stored
<1>7. StorageInv' /\ upload' \in Seq(File)
  <2>1. CASE A!LateAttach(k)
    <3> DEFINE z == [upload[k] EXCEPT !.late = 2, !.row = "live"]
    <3>1. upload' = [upload EXCEPT ![k] = z]
      BY <1>2, <2>1 DEF A!LateAttach
    <3>2. /\ z \in File /\ z.row = "live" /\ z.late = 2
          /\ z.age = upload[k].age /\ z.disk = upload[k].disk /\ z.del = upload[k].del
      <4>1. 2 \in 0 .. 2
        OBVIOUS
      <4> QED BY <1>2, <4>1 DEF File
    <3>3. k # job.key \/ job.pc \in {"idle", "next"}
      BY <1>4, <2>1 DEF A!LateAttach, AttachmentTypes, Job
    <3> HIDE DEF z
    <3>4. UNCHANGED <<orphan, left, purging>> /\ k \notin purging
      BY <1>3, <1>6, <2>1 DEF A!LateAttach
    <3>5. \A p \in purging' : p \in purging /\ p # k
      BY <3>4
    <3>6. z.late # 1 /\ z.row # "purged"
      BY <3>2
    <3>7. job'.pc \in {"uploaded", "attaching"} => job' = job /\ k # job.key
      BY <1>1, <3>3
    <3> QED BY <1>1, <1>2, <1>5, <3>1, <3>2, <3>4, <3>5, <3>6, <3>7, FileStep
  <2>2. CASE A!CheckDelete(k)
    <3> DEFINE d == IF upload[k].row = "none" THEN "cleared" ELSE "done"
               z == [upload[k] EXCEPT !.del = d]
    <3>1. upload' = [upload EXCEPT ![k] = z] /\ upload[k].del = "asked"
      BY <1>2, <2>2 DEF A!CheckDelete
    <3>2. d \in {"cleared", "done"} /\ (d = "cleared" <=> upload[k].row = "none")
      OBVIOUS
    <3> HIDE DEF d
    <3>3. /\ z \in File /\ z.row = upload[k].row /\ z.late = upload[k].late
          /\ z.age = upload[k].age /\ z.disk = upload[k].disk /\ z.del = d
      BY <1>2, <3>2 DEF File
    <3>4. k # job.key \/ job.pc \in {"idle", "next"}
      BY <1>4, <3>1 DEF AttachmentTypes, Job
    <3> HIDE DEF z
    <3>5. UNCHANGED <<orphan, left, purging>>
      BY <2>2 DEF A!CheckDelete
    <3>6. upload[k].row \in {"none", "live", "purged"}
      BY <1>2 DEF File
    <3>7. \A p \in purging : (p \in purging /\ p # k) \/ (p = k /\ z.row = "live" /\ z.age = "over")
      BY <1>3, <3>3
    <3>8. z.disk => \/ z.row = "live" \/ k = job.key
                    \/ z.del \in {"asked", "cleared"} \/ k \in orphan \cup left
      BY <1>6, <3>2, <3>3, <3>6
    <3> QED BY <1>1, <1>2, <1>5, <1>6, <3>1, <3>2, <3>3, <3>4, <3>5, <3>7, <3>8, FileStep
  <2>3. CASE A!Age(k)
    <3> DEFINE a == IF upload[k].age = "far" THEN "near" ELSE "over"
               z == [upload[k] EXCEPT !.age = a]
    <3>1. upload' = [upload EXCEPT ![k] = z] /\ upload[k].row = "live" /\ upload[k].age # "over"
      BY <1>2, <2>3 DEF A!Age
    <3>2. a \in {"near", "over"}
      OBVIOUS
    <3> HIDE DEF a
    <3>3. /\ z \in File /\ z.row = upload[k].row /\ z.late = upload[k].late
          /\ z.age = a /\ z.disk = upload[k].disk /\ z.del = upload[k].del
      BY <1>2, <3>2 DEF File
    <3>4. k # job.key \/ job.pc \in {"idle", "next"}
      BY <1>4, <3>1 DEF AttachmentTypes, Job
    <3> HIDE DEF z
    <3>5. UNCHANGED <<orphan, left, purging>> /\ k \notin purging
      BY <1>3, <2>3, <3>1 DEF A!Age
    <3> QED BY <1>1, <1>2, <1>5, <1>6, <3>1, <3>3, <3>4, <3>5, FileStep
  <2>4. CASE A!Download(k)
    <3> DEFINE a == A!Renewed(upload[k].age)
               z == [upload[k] EXCEPT !.age = a]
    <3>1. upload' = [upload EXCEPT ![k] = z] /\ upload[k].row = "live"
      BY <1>2, <2>4 DEF A!Download
    <3>2. a \in {"far", "near", "over"} /\ (a = "over" <=> upload[k].age = "over")
      BY <1>2 DEF A!Renewed, File
    <3> HIDE DEF a
    <3>3. /\ z \in File /\ z.row = upload[k].row /\ z.late = upload[k].late
          /\ z.age = a /\ z.disk = upload[k].disk /\ z.del = upload[k].del
      BY <1>2, <3>2 DEF File
    <3>4. k # job.key \/ job.pc \in {"idle", "next"}
      BY <1>4, <3>1 DEF AttachmentTypes, Job
    <3> HIDE DEF z
    <3>5. UNCHANGED <<orphan, left, purging>>
      BY <2>4 DEF A!Download
    <3>6. \A p \in purging : (p \in purging /\ p # k) \/ (p = k /\ z.row = "live" /\ z.age = "over")
      BY <1>3, <3>2, <3>3
    <3> QED BY <1>1, <1>2, <1>5, <1>6, <3>1, <3>2, <3>3, <3>4, <3>5, <3>6, FileStep
  <2>5. CASE A!RemoveFile(k, ok)
    <3> DEFINE d == upload[k].disk /\ ~ok
               z == [upload[k] EXCEPT !.del = "done", !.disk = d]
    <3>1. upload' = [upload EXCEPT ![k] = z] /\ upload[k].del = "cleared"
      BY <1>2, <2>5 DEF A!RemoveFile
    <3>2. d \in BOOLEAN /\ (d => upload[k].disk /\ ~ok)
      OBVIOUS
    <3> HIDE DEF d
    <3>3. /\ z \in File /\ z.row = upload[k].row /\ z.late = upload[k].late
          /\ z.age = upload[k].age /\ z.disk = d /\ z.del = "done"
      BY <1>2, <3>2 DEF File
    <3>4. k # job.key \/ job.pc \in {"idle", "next"}
      BY <1>4, <3>1 DEF AttachmentTypes, Job
    <3> HIDE DEF z
    <3>5. UNCHANGED <<left, purging>> /\ orphan \subseteq orphan' /\ (d => k \in orphan')
      BY <2>5, <3>2 DEF A!RemoveFile
    <3>6. \A p \in purging : (p \in purging /\ p # k) \/ (p = k /\ z.row = "live" /\ z.age = "over")
      BY <1>3, <3>3
    <3>7. /\ z.row = "purged" /\ z.disk => k \in left'
          /\ z.row = "live" => z.late = 2
          /\ z.late = 1 => z.row = "none"
      BY <1>6, <3>1, <3>2, <3>3, <3>5
    <3> QED BY <1>1, <1>2, <1>5, <3>1, <3>3, <3>4, <3>5, <3>6, <3>7, FileStep
  <2>6. CASE A!PurgeFile(k, ok)
    <3> DEFINE d == ~ok
               z == [upload[k] EXCEPT !.disk = d]
    <3>1. upload' = [upload EXCEPT ![k] = z] /\ k \in purging
      BY <1>2, <2>6 DEF A!PurgeFile
    <3>2. d \in BOOLEAN
      OBVIOUS
    <3> HIDE DEF d
    <3>3. /\ z \in File /\ z.row = upload[k].row /\ z.late = upload[k].late
          /\ z.age = upload[k].age /\ z.disk = d /\ z.del = upload[k].del
      BY <1>2, <3>2 DEF File
    <3>4. k # job.key \/ job.pc \in {"idle", "next"}
      BY <1>3, <1>4, <3>1 DEF AttachmentTypes, Job
    <3> HIDE DEF z
    <3>5. UNCHANGED <<orphan, purging>> /\ left \subseteq left'
      BY <2>6 DEF A!PurgeFile
    <3>6. z.row = "live" /\ z.age = "over"
      BY <1>3, <3>1, <3>3
    <3> QED BY <1>1, <1>2, <1>5, <1>6, <3>1, <3>3, <3>4, <3>5, <3>6, FileStep
  <2>7. CASE A!PurgeRow(k, ok)
    <3> DEFINE w == IF ok THEN "purged" ELSE "live"
               z == [upload[k] EXCEPT !.row = w]
    <3>1. k \in purging /\ upload[k].row = "live" /\ upload[k].age = "over"
      BY <1>3, <2>7 DEF A!PurgeRow
    <3>2. upload' = [upload EXCEPT ![k] = z]
      <4>1. CASE ok
        BY <1>2, <2>7, <4>1 DEF A!PurgeRow
      <4>2. CASE ~ok
        <5>1. z = upload[k]
          BY <1>2, <3>1, <4>2 DEF File
        <5>2. upload' = upload
          BY <2>7, <4>2 DEF A!PurgeRow
        <5> HIDE DEF z
        <5> QED BY <1>2, <5>1, <5>2
      <4> QED BY <4>1, <4>2
    <3>3. w \in {"purged", "live"}
      OBVIOUS
    <3> HIDE DEF w
    <3>4. /\ z \in File /\ z.row = w /\ z.late = upload[k].late
          /\ z.age = "over" /\ z.disk = upload[k].disk /\ z.del = upload[k].del
      BY <1>2, <3>1, <3>3 DEF File
    <3>5. k # job.key \/ job.pc \in {"idle", "next"}
      BY <1>4, <3>1 DEF AttachmentTypes, Job
    <3> HIDE DEF z
    <3>6. /\ UNCHANGED <<orphan, left>> /\ purging' = purging \ {k}
          /\ upload[k].disk => k \in left
      BY <2>7 DEF A!PurgeRow
    <3>7. z.late = 1 => z.row = "none"
      BY <1>6, <3>1, <3>4
    <3>8. z.del = "cleared" => z.row = "none" \/ z.late = 2
      BY <1>6, <3>1, <3>4
    <3> QED BY <1>1, <1>2, <1>5, <3>2, <3>4, <3>5, <3>6, <3>7, <3>8, FileStep
  <2> QED BY <2>1, <2>2, <2>3, <2>4, <2>5, <2>6, <2>7
<1> QED BY <1>1, <1>7, ComposerSame DEF AttachmentTypes

\* A send between two requests has no upload, and ends without one.
LEMMA StorageEnds ==
  ASSUME StorageInv, job.pc = "next", job' = A!NoJob,
         UNCHANGED <<upload, purging, orphan, left>>
  PROVE  StorageInv'
<1>1. job.key = 0 /\ job'.key = 0 /\ job'.pc = "idle"
  BY DEF StorageInv, Holding, A!NoJob
<1>2. Holding'
  BY <1>1 DEF StorageInv, Holding
<1>3. \A k \in 1 .. Len(upload) : Stored(k)'
  BY <1>1 DEF StorageInv, Stored
<1> QED BY <1>2, <1>3 DEF StorageInv

\* One more file, held by the send or left behind.
LEMMA NewFile ==
  ASSUME AttachmentTypes, StorageInv, job.key = 0, upload' = Append(upload, A!Uploaded),
         UNCHANGED <<purging, left>>, orphan \subseteq orphan',
         \/ job'.pc = "idle" /\ job'.key = 0 /\ Len(upload') \in orphan'
         \/ job'.pc = "uploaded" /\ job'.key = Len(upload')
  PROVE  StorageInv' /\ upload' \in Seq(File)
<1>1. A!Uploaded \in File
  BY DEF A!Uploaded, File
<1>2. /\ upload' \in Seq(File) /\ Len(upload) \in Nat /\ Len(upload') = Len(upload) + 1
      /\ upload'[Len(upload) + 1] = A!Uploaded
      /\ \A n \in 1 .. Len(upload) : upload'[n] = upload[n]
  BY <1>1 DEF AttachmentTypes
<1>3. /\ A!Uploaded.disk /\ A!Uploaded.row = "none" /\ A!Uploaded.late = 0
      /\ A!Uploaded.del = "none"
  BY DEF A!Uploaded
<1>4. Holding'
  BY <1>2, <1>3 DEF StorageInv, Holding
<1>5. ASSUME NEW n \in 1 .. Len(upload')
      PROVE  Stored(n)'
  <2>1. CASE n = Len(upload) + 1
    BY <1>2, <1>3, <2>1 DEF Stored
  <2>2. CASE n # Len(upload) + 1
    <3>1. n \in 1 .. Len(upload) /\ n # 0
      BY <1>2, <2>2
    <3> QED BY <1>2, <3>1 DEF StorageInv, Stored
  <2> QED BY <2>1, <2>2
<1> QED BY <1>2, <1>4, <1>5 DEF StorageInv

\* The user cancels, or the decay job looks for files.
LEMMA AsideStep ==
  ASSUME AttachmentInv, A!CancelUpload \/ A!SelectExpired \/ UNCHANGED A!attVars
  PROVE  AttachmentInv'
<1> USE DEF AttachmentInv
<1>1. UNCHANGED <<box, upload, post, entered, dropped, again, orphan, left>>
  BY DEF A!CancelUpload, A!SelectExpired, A!attVars
<1>2. \A y : A!Posted(y)' <=> A!Posted(y)
  BY <1>1 DEF A!Posted
<1>3. CASE A!CancelUpload
  <2>1. job' = [job EXCEPT !.cancel = TRUE] /\ job.pc # "idle" /\ purging' = purging
    BY <1>3 DEF A!CancelUpload
  <2>2. /\ job' \in Job /\ job'.pc = job.pc /\ job'.kind = job.kind /\ job'.text = job.text
        /\ job'.files = job.files /\ job'.left = job.left /\ job'.file = job.file
        /\ job'.key = job.key /\ job'.post = job.post
    BY <2>1 DEF AttachmentTypes, Job
  <2>3. A!InJob(job') = A!InJob(job)
    BY <2>2 DEF A!InJob
  <2>4. AttachmentTypes' /\ StorageInv'
    BY <1>1, <2>1, <2>2 DEF AttachmentTypes, StorageInv, Holding, Stored
  <2>5. Sending'
    <3>1. job'.pc # "idle" /\ job'.kind # A!None
      BY <2>1, <2>2 DEF ComposerInv, Sending, A!NoJob
    <3> QED BY <1>1, <2>2, <2>3, <3>1 DEF ComposerInv, Sending
  <2>6. EnteredOnce' /\ SentAgain'
    BY <1>1, <1>2, <2>2, <2>3 DEF ComposerInv, EnteredOnce, SentAgain, A!NothingTypedLost,
       A!PostedOnce
  <2> QED BY <2>4, <2>5, <2>6 DEF ComposerInv
<1>4. CASE A!SelectExpired \/ UNCHANGED A!attVars
  <2>1. job' = job
    BY <1>4 DEF A!SelectExpired, A!attVars
  <2>2. \A k \in purging' :
          k \in 1 .. Len(upload) /\ upload[k].row = "live" /\ upload[k].age = "over"
    <3>1. CASE A!SelectExpired
      BY <3>1 DEF A!SelectExpired, A!Keys
    <3>2. CASE UNCHANGED A!attVars
      BY <3>2 DEF A!attVars, StorageInv, Holding
    <3> QED BY <1>4, <3>1, <3>2
  <2>3. AttachmentTypes' /\ StorageInv'
    BY <1>1, <2>1, <2>2 DEF AttachmentTypes, StorageInv, Holding, Stored
  <2> QED BY <1>1, <2>1, <2>3, ComposerSame
<1> QED BY <1>3, <1>4

LEMMA UploadStep ==
  ASSUME Texts \cap Files = {}, A!None \notin A!Items, AttachmentInv,
         NEW f \in Files, NEW out, A!Upload(f, out)
  PROVE  AttachmentInv'
<1> USE DEF AttachmentInv
<1>1. /\ job.pc = "next" /\ f \in job.left /\ UNCHANGED <<post, purging, entered, left>>
  BY DEF A!Upload
<1>2. job.key = 0
  BY <1>1 DEF StorageInv, Holding
<1>3. \A y : A!Posted(y)' <=> A!Posted(y)
  BY <1>1 DEF A!Posted
<1>4. A!Fail({}) => ComposerInv' /\ box' \in Box /\ job' \in Job /\ job' = A!NoJob
  <2> SUFFICES ASSUME A!Fail({})
               PROVE  ComposerInv' /\ box' \in Box /\ job' \in Job /\ job' = A!NoJob
    OBVIOUS
  <2>1. A!PostedOnce'
    BY <1>1 DEF A!Fail, ComposerInv, SentAgain, A!PostedOnce
  <2>2. job' = A!NoJob
    BY DEF A!Fail
  <2> QED BY <1>1, <1>3, <2>1, <2>2, FailStep
<1>5. CASE A!Fail({}) /\ UNCHANGED <<upload, orphan>>
  BY <1>1, <1>4, <1>5, StorageEnds DEF AttachmentTypes
<1>6. CASE upload' = Append(upload, A!Uploaded) /\ A!Fail({}) /\ orphan' = orphan \cup {Len(upload')}
  <2>1. job'.pc = "idle" /\ job'.key = 0
    BY <1>4, <1>6 DEF A!NoJob
  <2> QED BY <1>1, <1>2, <1>4, <1>6, <2>1, NewFile DEF AttachmentTypes
<1>7. CASE /\ upload' = Append(upload, A!Uploaded)
           /\ job' = [job EXCEPT !.pc = "uploaded", !.file = f, !.key = Len(upload')]
           /\ UNCHANGED <<box, dropped, again, orphan>>
  <2>1. Len(upload') \in Nat
    <3>1. A!Uploaded \in File
      BY DEF A!Uploaded, File
    <3> QED BY <1>7, <3>1 DEF AttachmentTypes
  <2> DEFINE n == Len(upload')
  <2>2. job' = [job EXCEPT !.pc = "uploaded", !.file = f, !.key = n] /\ n \in Nat
    BY <1>7, <2>1
  <2> HIDE DEF n
  <2>3. /\ job' \in Job /\ job'.pc = "uploaded" /\ job'.kind = job.kind /\ job'.text = job.text
        /\ job'.files = job.files /\ job'.left = job.left /\ job'.file = f
        /\ job'.key = n /\ job'.post = job.post
    BY <2>2 DEF AttachmentTypes, Job
  <2>4. A!InJob(job') = A!InJob(job)
    BY <2>3 DEF A!InJob
  <2>5. StorageInv' /\ upload' \in Seq(File)
    BY <1>1, <1>2, <1>7, <2>3, NewFile DEF n
  <2>6. AttachmentTypes'
    BY <1>1, <1>7, <2>3, <2>5 DEF AttachmentTypes
  <2>7. Sending'
    BY <1>1, <1>7, <2>3, <2>4 DEF ComposerInv, Sending, A!NoJob
  <2>8. EnteredOnce'
    BY <1>1, <1>3, <1>7, <2>3, <2>4 DEF ComposerInv, EnteredOnce, A!NothingTypedLost
  <2>9. SentAgain'
    BY <1>1, <1>3, <1>7, <2>3, <2>4 DEF ComposerInv, SentAgain, A!PostedOnce
  <2> QED BY <2>5, <2>6, <2>7, <2>8, <2>9 DEF ComposerInv
<1> QED BY <1>5, <1>6, <1>7 DEF A!Upload

LEMMA DropStep ==
  ASSUME Texts \cap Files = {}, A!None \notin A!Items, AttachmentInv, A!DropUpload
  PROVE  AttachmentInv'
<1> USE DEF AttachmentInv
<1>1. /\ job.pc = "uploaded" /\ A!Fail({}) /\ orphan' = orphan \cup {job.key}
      /\ UNCHANGED <<upload, post, purging, entered, left>>
  BY DEF A!DropUpload
<1>2. \A y : A!Posted(y)' <=> A!Posted(y)
  BY <1>1 DEF A!Posted
<1>3. A!PostedOnce'
  BY <1>1 DEF A!Fail, ComposerInv, SentAgain, A!PostedOnce
<1>4. ComposerInv' /\ box' \in Box /\ job' \in Job
  BY <1>1, <1>2, <1>3, FailStep
<1>5. job' = A!NoJob /\ job'.pc = "idle" /\ job'.key = 0
  BY <1>1 DEF A!Fail, A!NoJob
<1>6. Holding'
  BY <1>1, <1>5 DEF StorageInv, Holding
<1>7. \A k \in 1 .. Len(upload) : Stored(k)'
  BY <1>1 DEF StorageInv, Stored
<1> QED BY <1>1, <1>4, <1>6, <1>7 DEF StorageInv, AttachmentTypes

\* The upload of the send under way, after a failure: it is to be cleaned up.
LEMMA CleanedUp ==
  ASSUME AttachmentTypes, StorageInv, job.pc \in {"uploaded", "attaching"}, job' = A!NoJob,
         UNCHANGED <<purging, orphan, left>>, NEW z \in File,
         z = [upload[job.key] EXCEPT !.del = "asked", !.row = z.row, !.late = z.late],
         z.late = 1 => z.row = "none", z.row # "purged",
         upload' = [upload EXCEPT ![job.key] = z]
  PROVE  StorageInv' /\ upload' \in Seq(File)
<1>1. /\ job.key \in 1 .. Len(upload) /\ upload[job.key] \in File
      /\ upload[job.key].disk /\ upload[job.key].row = "none"
  BY DEF AttachmentTypes, StorageInv, Holding
<1>2. z.del = "asked" /\ z.disk
  BY <1>1 DEF File
<1>3. job'.pc = "idle" /\ job'.key = 0
  BY DEF A!NoJob
<1>4. job.key \notin purging
  BY <1>1 DEF StorageInv, Holding
<1> QED BY <1>1, <1>2, <1>3, <1>4, FileStep

LEMMA PostFileStep ==
  ASSUME Texts \cap Files = {}, A!None \notin A!Items, AttachmentInv,
         NEW out \in A!Outcomes, A!PostFile(out)
  PROVE  AttachmentInv'
<1> USE DEF AttachmentInv
<1>1. /\ job.pc = "uploaded" /\ UNCHANGED <<purging, entered, orphan, left>>
      /\ post' = IF out = "error" THEN post ELSE Append(post, A!Message(job.file))
  BY DEF A!PostFile
<1>2. /\ job.file \in job.left /\ job.file \in job.files /\ job.file \in Files
      /\ job.file \in A!InJob(job) /\ job.file \in entered
  BY <1>1 DEF AttachmentTypes, Job, ComposerInv, Sending, EnteredOnce, A!InJob
<1>3. /\ job.key \in 1 .. Len(upload) /\ upload[job.key] \in File /\ upload[job.key].disk
      /\ upload[job.key].row = "none" /\ upload[job.key].late = 0
      /\ upload[job.key].del = "none"
  BY <1>1 DEF AttachmentTypes, StorageInv, Holding
<1>4. A!Message(job.file) \in Posting /\ A!Message(job.file).item = job.file
  BY <1>2 DEF A!Message, Posting, A!Items
<1>5. ASSUME post' = Append(post, A!Message(job.file)), again \subseteq again'
      PROVE  /\ post' \in Seq(Posting) /\ A!PostedOnce'
             /\ Len(post') \in 1 .. Len(post')
             /\ post'[Len(post')] = A!Message(job.file)
             /\ \A x : A!Posted(x)' <=> A!Posted(x) \/ x = job.file
  <2>1. A!PostedOnce /\ (A!Posted(job.file) /\ job.file # "gif" => job.file \in again')
    BY <1>1, <1>2, <1>5 DEF ComposerInv, SentAgain
  <2> HIDE DEF AttachmentInv
  <2>2. post \in Seq(Posting)
    BY DEF AttachmentInv, AttachmentTypes
  <2> QED BY <1>4, <1>5, <2>1, <2>2, OneMore
<1>6. CASE out = "ok"
  <2>1. /\ post' = Append(post, A!Message(job.file))
        /\ job' = [job EXCEPT !.pc = "attaching", !.post = Len(post')]
        /\ UNCHANGED <<box, upload, dropped, again>>
    BY <1>1, <1>6 DEF A!PostFile
  <2>2. /\ post' \in Seq(Posting) /\ A!PostedOnce' /\ Len(post') \in 1 .. Len(post')
        /\ post'[Len(post')].item = job.file
        /\ \A x : A!Posted(x)' <=> A!Posted(x) \/ x = job.file
    BY <1>4, <1>5, <2>1
  <2> DEFINE n == Len(post')
  <2>3. job' = [job EXCEPT !.pc = "attaching", !.post = n] /\ n \in Nat
    BY <2>1, <2>2
  <2> HIDE DEF n
  <2>4. /\ job' \in Job /\ job'.pc = "attaching" /\ job'.kind = job.kind
        /\ job'.text = job.text /\ job'.files = job.files /\ job'.left = job.left
        /\ job'.file = job.file /\ job'.key = job.key /\ job'.post = n
    BY <2>3 DEF AttachmentTypes, Job
  <2>5. A!InJob(job') = A!InJob(job)
    BY <2>4 DEF A!InJob
  <2>6. StorageInv'
    BY <1>1, <2>1, <2>4 DEF StorageInv, Holding, Stored
  <2>7. AttachmentTypes'
    BY <2>1, <2>2, <2>4 DEF AttachmentTypes
  <2>8. Sending'
    BY <1>1, <2>1, <2>2, <2>4, <2>5 DEF ComposerInv, Sending, A!NoJob, n
  <2>9. EnteredOnce'
    BY <1>1, <1>2, <2>1, <2>2, <2>4, <2>5 DEF ComposerInv, EnteredOnce, A!NothingTypedLost
  <2>10. SentAgain'
    <3>1. \A x \in A!InBox(box') : A!Posted(x)' /\ x # "gif" =>
            x \in again' \/ (job'.kind = "command" /\ x \in job'.files)
      <4>1. job.file \in A!InBox(box) => job.kind = "command"
        BY <1>1, <1>2 DEF ComposerInv, Sending, A!NoJob, AttachmentTypes, Job
      <4> QED BY <1>1, <1>2, <2>1, <2>2, <2>4, <4>1 DEF ComposerInv, SentAgain
    <3>2. \A x \in job'.left : A!Posted(x)' /\ x # "gif" =>
            x \in again' \/ (job'.pc = "attaching" /\ x = job'.file)
      BY <1>1, <2>1, <2>2, <2>4 DEF ComposerInv, SentAgain
    <3>3. \A x : x = job'.text /\ x # A!None /\ A!Posted(x)' /\ x # "gif" => x \in again'
      <4>1. job.text # job.file
        BY <1>2 DEF AttachmentTypes, Job, A!Items
      <4> QED BY <2>1, <2>2, <2>4, <4>1 DEF ComposerInv, SentAgain
    <3> QED BY <2>2, <3>1, <3>2, <3>3 DEF SentAgain
  <2> QED BY <2>6, <2>7, <2>8, <2>9, <2>10 DEF ComposerInv
<1>7. CASE out # "ok"
  <2> DEFINE u == IF out = "lost" THEN {job.file} ELSE {}
             z == [upload[job.key] EXCEPT !.del = "asked"]
  <2>1. A!Fail(u) /\ upload' = A!CleanUp(upload, job.key)
    BY <1>7 DEF A!PostFile
  <2>2. /\ u \subseteq {job.file} /\ job' = A!NoJob /\ again \cup u \subseteq again'
        /\ (A!Posted(job.file) => job.file \in again')
    BY <1>2, <2>1 DEF A!Fail
  <2>3. /\ post' \in Seq(Posting) /\ A!PostedOnce'
        /\ \A x : A!Posted(x) => A!Posted(x)'
        /\ \A x : A!Posted(x)' => A!Posted(x) \/ (x = job.file /\ out # "error")
    <3>1. CASE out = "error"
      BY <1>1, <2>2, <3>1 DEF AttachmentTypes, ComposerInv, SentAgain, A!PostedOnce, A!Posted
    <3>2. CASE out # "error"
      BY <1>1, <1>5, <2>2, <3>2
    <3> QED BY <3>1, <3>2
  <2>4. ComposerInv' /\ box' \in Box /\ job' \in Job
    <3>1. \A x : A!Posted(x)' => A!Posted(x) \/ x \in u \cup {"gif"}
      BY <1>7, <2>3 DEF A!Outcomes
    <3>2. u \subseteq entered \cup {"gif"}
      BY <1>2, <2>2
    <3> HIDE DEF u
    <3> QED BY <1>1, <2>1, <2>3, <3>1, <3>2, FailStep
  <2>5. upload' = [upload EXCEPT ![job.key] = z]
    BY <1>3, <2>1 DEF A!CleanUp, AttachmentTypes
  <2>6. z \in File /\ z.row = "none" /\ z.late = 0
        /\ z = [upload[job.key] EXCEPT !.del = "asked", !.row = z.row, !.late = z.late]
    BY <1>3 DEF File
  <2> HIDE DEF z
  <2>7. StorageInv' /\ upload' \in Seq(File)
    BY <1>1, <2>2, <2>5, <2>6, CleanedUp
  <2> QED BY <2>3, <2>4, <2>7 DEF AttachmentTypes
<1> QED BY <1>6, <1>7

LEMMA AttachStep ==
  ASSUME Texts \cap Files = {}, A!None \notin A!Items, AttachmentInv,
         NEW out \in {"ok", "refused", "lost", "late"}, NEW d \in BOOLEAN, A!Attach(out, d)
  PROVE  AttachmentInv'
<1> USE DEF AttachmentInv
<1>1. job.pc = "attaching" /\ UNCHANGED <<purging, entered, orphan, left>>
  BY DEF A!Attach
<1>2. /\ job.file \in job.left /\ job.file \in job.files /\ job.file \in Files
      /\ job.file \in A!InJob(job) /\ job.file \in entered
      /\ job.post \in 1 .. Len(post) /\ post[job.post].item = job.file
  BY <1>1 DEF AttachmentTypes, Job, ComposerInv, Sending, EnteredOnce, A!InJob
<1>3. /\ job.key \in 1 .. Len(upload) /\ upload[job.key] \in File /\ upload[job.key].disk
      /\ upload[job.key].row = "none" /\ upload[job.key].late = 0
      /\ upload[job.key].del = "none"
  BY <1>1 DEF AttachmentTypes, StorageInv, Holding
<1>4. A!Posted(job.file)
  BY <1>2 DEF A!Posted
<1>5. CASE out = "ok"
  <2> DEFINE z == [upload[job.key] EXCEPT !.row = "live"]
  <2>1. /\ upload' = [upload EXCEPT ![job.key] = z]
        /\ job' = [job EXCEPT !.pc = "next", !.left = @ \ {job.file}, !.key = 0]
        /\ UNCHANGED <<box, dropped, again, post>>
    BY <1>3, <1>5 DEF A!Attach, AttachmentTypes
  <2>2. /\ z \in File /\ z.row = "live" /\ z.late = 0 /\ z.del = "none" /\ z.disk
    BY <1>3 DEF File
  <2>3. /\ job' \in Job /\ job'.pc = "next" /\ job'.kind = job.kind
        /\ job'.text = job.text /\ job'.files = job.files /\ job'.left = job.left \ {job.file}
        /\ job'.file = job.file /\ job'.key = 0 /\ job'.post = job.post
    BY <2>1 DEF AttachmentTypes, Job
  <2> HIDE DEF z
  <2>4. A!InJob(job') = A!InJob(job) /\ \A x : A!Posted(x)' <=> A!Posted(x)
    BY <2>1, <2>3 DEF A!InJob, A!Posted
  <2>5. StorageInv' /\ upload' \in Seq(File)
    <3>1. \A p \in purging' : p \in purging /\ p # job.key
      BY <1>1, <1>3 DEF StorageInv, Holding
    <3>2. z.late # 1 /\ z.row # "purged" /\ z.del # "cleared" /\ z.row = "live"
      BY <2>2
    <3>3. job'.pc \notin {"uploaded", "attaching"} /\ job'.key = 0 /\ job.key = job.key
      BY <2>3
    <3> QED BY <1>1, <1>3, <2>1, <2>2, <3>1, <3>2, <3>3, FileStep
  <2>6. AttachmentTypes'
    BY <2>1, <2>3, <2>5 DEF AttachmentTypes
  <2>7. Sending'
    BY <1>1, <2>1, <2>3, <2>4 DEF ComposerInv, Sending, A!NoJob
  <2>8. EnteredOnce'
    BY <1>1, <1>4, <2>1, <2>3, <2>4 DEF ComposerInv, EnteredOnce, A!NothingTypedLost
  <2>9. SentAgain'
    BY <1>1, <2>1, <2>3, <2>4 DEF ComposerInv, SentAgain, A!PostedOnce
  <2> QED BY <2>5, <2>6, <2>7, <2>8, <2>9 DEF ComposerInv
<1>6. CASE out # "ok"
  <2>1. A!Fail({job.file}) /\ job' = A!NoJob /\ again \subseteq again'
    BY <1>6 DEF A!Attach, A!Fail
  <2>2. /\ post' \in Seq(Posting) /\ Len(post') = Len(post)
        /\ \A n \in 1 .. Len(post) : post'[n].item = post[n].item
    <3>1. CASE out = "refused"
      <4>1. post' = [post EXCEPT ![job.post].deleted = d]
        BY <3>1 DEF A!Attach
      <4> DEFINE m == [post[job.post] EXCEPT !.deleted = d]
      <4>2. post \in Seq(Posting) /\ post' = [post EXCEPT ![job.post] = m]
        BY <1>2, <4>1 DEF AttachmentTypes
      <4>3. m \in Posting /\ m.item = post[job.post].item
        <5>1. post[job.post] \in Posting
          BY <1>2, <4>2
        <5> QED BY <5>1 DEF Posting
      <4> HIDE DEF m
      <4> QED BY <1>2, <4>2, <4>3
    <3>2. CASE out # "refused"
      <4>1. post' = post
        BY <1>6, <3>2 DEF A!Attach
      <4> QED BY <4>1 DEF AttachmentTypes
    <3> QED BY <3>1, <3>2
  <2>3. /\ A!PostedOnce' /\ \A x : A!Posted(x)' <=> A!Posted(x)
    BY <2>1, <2>2 DEF ComposerInv, SentAgain, A!PostedOnce, A!Posted
  <2>4. ComposerInv' /\ box' \in Box /\ job' \in Job
    BY <1>1, <1>2, <2>1, <2>3, FailStep
  <2>5. PICK z \in File :
          /\ z = [upload[job.key] EXCEPT !.del = "asked", !.row = z.row, !.late = z.late]
          /\ z.late = 1 => z.row = "none"
          /\ z.row # "purged"
          /\ upload' = [upload EXCEPT ![job.key] = z]
    <3>1. CASE out = "refused"
      <4> DEFINE z == [upload[job.key] EXCEPT !.del = "asked"]
      <4>1. upload' = [upload EXCEPT ![job.key] = z]
        BY <1>3, <3>1 DEF A!Attach, A!CleanUp, AttachmentTypes
      <4>2. z \in File /\ z.row = "none" /\ z.late = 0
            /\ z = [upload[job.key] EXCEPT !.del = "asked", !.row = z.row, !.late = z.late]
        BY <1>3 DEF File
      <4>3. z.late = 1 => z.row = "none"
        BY <4>2
      <4>4. z.row # "purged"
        BY <4>2
      <4> HIDE DEF z
      <4> QED BY <4>1, <4>2, <4>3, <4>4
    <3>2. CASE out = "lost"
      <4> DEFINE z == [upload[job.key] EXCEPT !.del = "asked", !.row = "live"]
      <4>1. upload' = [upload EXCEPT ![job.key] = z]
        BY <1>3, <3>2 DEF A!Attach, A!CleanUp, AttachmentTypes, File
      <4>2. z \in File /\ z.row = "live" /\ z.late = 0
            /\ z = [upload[job.key] EXCEPT !.del = "asked", !.row = z.row, !.late = z.late]
        BY <1>3 DEF File
      <4>3. z.late = 1 => z.row = "none"
        BY <4>2
      <4>4. z.row # "purged"
        BY <4>2
      <4> HIDE DEF z
      <4> QED BY <4>1, <4>2, <4>3, <4>4
    <3>3. CASE out = "late"
      <4> DEFINE z == [upload[job.key] EXCEPT !.del = "asked", !.late = 1]
      <4>1. upload' = [upload EXCEPT ![job.key] = z]
        BY <1>3, <3>3 DEF A!Attach, A!CleanUp, AttachmentTypes, File
      <4>2. z \in File /\ z.row = "none" /\ z.late = 1
            /\ z = [upload[job.key] EXCEPT !.del = "asked", !.row = z.row, !.late = z.late]
        <5>1. 1 \in 0 .. 2
          OBVIOUS
        <5> QED BY <1>3, <5>1 DEF File
      <4>3. z.late = 1 => z.row = "none"
        BY <4>2
      <4>4. z.row # "purged"
        BY <4>2
      <4> HIDE DEF z
      <4> QED BY <4>1, <4>2, <4>3, <4>4
    <3> QED BY <1>6, <3>1, <3>2, <3>3
  <2>6. StorageInv' /\ upload' \in Seq(File)
    BY <1>1, <2>1, <2>5, CleanedUp
  <2> QED BY <2>2, <2>4, <2>6 DEF AttachmentTypes
<1> QED BY <1>5, <1>6

LEMMA PostTextStep ==
  ASSUME Texts \cap Files = {}, A!None \notin A!Items, AttachmentInv, NEW out,
         A!PostText(out)
  PROVE  AttachmentInv'
<1> USE DEF AttachmentInv
<1> DEFINE x == IF job.kind = "gif" THEN "gif" ELSE job.text
           m == A!Message(x)
<1>1. /\ job.pc = "next" /\ job.left = {}
      /\ UNCHANGED <<upload, purging, entered, orphan, left>>
  BY DEF A!PostText
<1>2. /\ job.text \in Texts \cup {A!None} /\ (job.kind = "gif" => job.text = A!None)
      /\ x \in A!Items \cup {A!None, "gif"} /\ (x = "gif" \/ x = job.text)
      /\ (job.text # A!None => x = job.text) /\ (job.text # A!None => job.text \in entered)
  BY DEF AttachmentTypes, Job, ComposerInv, Sending, EnteredOnce, A!Items, A!InJob
<1>3. m \in Posting /\ m.item = x
  BY <1>2 DEF A!Message, Posting
<1>4. \/ post' = post /\ again' = again /\ x = A!None /\ A!Done
      \/ post' = Append(post, m) /\ again' = again /\ x # A!None /\ A!Done
      \/ post' = Append(post, m) /\ x # A!None /\ A!Fail({x})
      \/ post' = post /\ A!Fail({})
  BY DEF A!PostText
<1>5. again \subseteq again'
  BY <1>4 DEF A!Fail
<1>6. A!PostedOnce /\ (A!Posted(x) /\ x # "gif" /\ x # A!None => x \in again')
  BY <1>2, <1>5 DEF ComposerInv, SentAgain
<1> HIDE DEF x, m
<1>7. post' = Append(post, m) /\ x # A!None =>
        /\ post' \in Seq(Posting) /\ A!PostedOnce'
        /\ \A y : A!Posted(y)' <=> A!Posted(y) \/ y = x
  <2>1. post \in Seq(Posting)
    BY DEF AttachmentTypes
  <2> QED BY <1>3, <1>5, <1>6, <2>1, OneMore
<1>8. post' = post =>
        /\ post' \in Seq(Posting) /\ A!PostedOnce' /\ \A y : A!Posted(y)' <=> A!Posted(y)
  BY <1>5, <1>6 DEF AttachmentTypes, A!PostedOnce, A!Posted
<1>9. job' = A!NoJob
  BY <1>4 DEF A!Done, A!Fail
<1>10. post' \in Seq(Posting) /\ ComposerInv' /\ box' \in Box /\ job' \in Job
  <2>1. CASE post' = post /\ again' = again /\ x = A!None /\ A!Done
    <3>1. job.text = A!None
      BY <1>2, <2>1
    <3> QED BY <1>1, <1>8, <2>1, <3>1, DoneStep
  <2>2. CASE post' = Append(post, m) /\ again' = again /\ x # A!None /\ A!Done
    <3>1. /\ \A y : A!Posted(y)' => A!Posted(y) \/ y = "gif" \/ (y = job.text /\ y # A!None)
          /\ \A y : y = job.text /\ y # A!None => A!Posted(y)'
          /\ \A y : A!Posted(y) => A!Posted(y)'
      BY <1>2, <1>7, <2>2
    <3> QED BY <1>1, <1>7, <2>2, <3>1, DoneStep
  <2>3. CASE post' = Append(post, m) /\ x # A!None /\ A!Fail({x})
    <3>1. {x} \subseteq entered \cup {"gif"}
      BY <1>2, <2>3
    <3> QED BY <1>1, <1>7, <2>3, <3>1, FailStep
  <2>4. CASE post' = post /\ A!Fail({})
    BY <1>1, <1>8, <2>4, FailStep
  <2> QED BY <1>4, <2>1, <2>2, <2>3, <2>4
<1>11. StorageInv'
  BY <1>1, <1>9, StorageEnds
<1> QED BY <1>1, <1>10, <1>11 DEF AttachmentTypes

LEMMA AttachmentStep ==
  ASSUME Texts \cap Files = {}, A!None \notin A!Items, AttachmentInv,
         [A!Next]_(A!attVars)
  PROVE  AttachmentInv'
<1>1. ASSUME NEW k \in A!Keys, \/ A!LateAttach(k) \/ A!CheckDelete(k) \/ A!Age(k)
                               \/ A!Download(k)
      PROVE  AttachmentInv'
  BY <1>1, ServerStep
<1>2. ASSUME NEW k \in A!Keys, NEW ok \in BOOLEAN,
             A!RemoveFile(k, ok) \/ A!PurgeFile(k, ok) \/ A!PurgeRow(k, ok)
      PROVE  AttachmentInv'
  BY <1>2, ServerStep
<1>3. A!CancelUpload \/ A!SelectExpired \/ UNCHANGED A!attVars => AttachmentInv'
  BY AsideStep
<1>4. A!ClearDraft \/ A!ClosePage => AttachmentInv'
  BY ClearStep
<1>5. ASSUME NEW x \in A!Items, A!Enter(x)
      PROVE  AttachmentInv'
  BY <1>5, EnterStep
<1>6. ASSUME NEW k \in {"send", "command", "gif"}, A!HandleSend(k)
      PROVE  AttachmentInv'
  BY <1>6, HandStep
<1>7. ASSUME NEW f \in Files, NEW out \in A!Outcomes, A!Upload(f, out)
      PROVE  AttachmentInv'
  BY <1>7, UploadStep
<1>8. ASSUME NEW out \in A!Outcomes, A!PostFile(out) \/ A!PostText(out)
      PROVE  AttachmentInv'
  BY <1>8, PostFileStep, PostTextStep
<1>9. A!DropUpload => AttachmentInv'
  BY DropStep
<1>10. ASSUME NEW out \in {"ok", "refused", "lost", "late"}, NEW d \in BOOLEAN,
              A!Attach(out, d)
       PROVE  AttachmentInv'
  BY <1>10, AttachStep
<1> QED BY <1>1, <1>2, <1>3, <1>4, <1>5, <1>6, <1>7, <1>8, <1>9, <1>10 DEF A!Next

-----------------------------------------------------------------------------
(* The index of an encrypted channel.                                      *)

LEMMA SameCardinality == \A X : L!Cardinality(X) = Cardinality(X)
BY DEF L!Cardinality, Cardinality

\* A set of messages has a first and a last one.
LEMMA FirstLast ==
  ASSUME MaxDocs \in Nat, NEW D \in SUBSET L!Messages, D # {}
  PROVE  /\ L!Min(D) \in D /\ \A y \in D : L!Min(D) <= y
         /\ L!Max(D) \in D /\ \A y \in D : y <= L!Max(D)
<1>1. D \subseteq Nat /\ \A y \in D : y >= 1 /\ y <= MaxDocs
  BY DEF L!Messages
<1>2. \E x \in D : \A y \in D : x <= y
  <2>1. PICK x \in D : \A y \in D : <<y, x>> \notin OpToRel(<, Nat)
    BY <1>1, NatLessThanWellFounded, WFMin
  <2>2. \A y \in D : ~(y < x)
    BY <1>1, <2>1 DEF OpToRel
  <2> QED BY <1>1, <2>2
<1>3. \E x \in D : \A y \in D : x >= y
  <2> DEFINE E == {MaxDocs - y : y \in D}
  <2>1. E \subseteq Nat /\ E # {}
    <3>1. \A y \in D : MaxDocs - y \in Nat
      BY <1>1
    <3> QED BY <3>1
  <2>2. PICK x \in E : \A y \in E : <<y, x>> \notin OpToRel(<, Nat)
    BY <2>1, NatLessThanWellFounded, WFMin
  <2>3. \A y \in E : ~(y < x)
    BY <2>1, <2>2 DEF OpToRel
  <2>4. PICK z \in D : x = MaxDocs - z
    BY <2>2
  <2>5. ASSUME NEW y \in D
        PROVE  z >= y
    <3>1. MaxDocs - y \in E
      OBVIOUS
    <3>2. ~(MaxDocs - y < MaxDocs - z) /\ y \in Nat /\ z \in Nat
      BY <1>1, <2>3, <2>4, <3>1
    <3> QED BY <3>2
  <2> QED BY <2>5
<1> QED BY <1>1, <1>2, <1>3 DEF L!Min, L!Max

WellIndexed(i) ==
  /\ i.docs \subseteq L!Messages /\ Cardinality(i.docs) <= Cap
  /\ \A w \in L!Words : i.post[w] = {m \in i.docs : w \in words[m]}

LEMMA Counted ==
  ASSUME MaxDocs \in Nat, NEW D \in SUBSET L!Messages
  PROVE  IsFiniteSet(D) /\ Cardinality(D) \in Nat
<1>1. IsFiniteSet(L!Messages)
  BY FS_Interval DEF L!Messages
<1> QED BY <1>1, FS_Subset, FS_CardinalityType

\* One message removed from the index, and one added to it.
LEMMA OneRemoved ==
  ASSUME MaxDocs \in Nat, Cap \in Nat, NEW i, WellIndexed(i), NEW m
  PROVE  WellIndexed(L!Removed(i, m)) /\ L!Removed(i, m).docs = i.docs \ {m}
<1> DEFINE j == L!Removed(i, m)
<1>1. /\ j.docs = i.docs \ {m}
      /\ \A w \in L!Words :
           j.post[w] = IF m \in i.docs /\ w \in words[m] THEN i.post[w] \ {m} ELSE i.post[w]
  BY DEF L!Removed
<1> HIDE DEF j
<1>2. Cardinality(j.docs) <= Cap
  <2>1. i.docs \in SUBSET L!Messages /\ j.docs \in SUBSET L!Messages /\ Cardinality(i.docs) <= Cap
    BY <1>1 DEF WellIndexed
  <2>2. IsFiniteSet(i.docs) /\ Cardinality(i.docs) \in Nat /\ Cardinality(j.docs) \in Nat
    BY <2>1, Counted
  <2>3. Cardinality(j.docs) <= Cardinality(i.docs)
    BY <1>1, <2>2, FS_Subset
  <2> QED BY <2>1, <2>2, <2>3
<1>3. j.docs \subseteq L!Messages
  BY <1>1 DEF WellIndexed
<1>4. \A w \in L!Words : j.post[w] = {n \in j.docs : w \in words[n]}
  <2> TAKE w \in L!Words
  <2>1. i.post[w] = {n \in i.docs : w \in words[n]}
    BY DEF WellIndexed
  <2> QED BY <1>1, <2>1
<1> QED BY <1>1, <1>2, <1>3, <1>4 DEF j, WellIndexed

LEMMA OneAdded ==
  ASSUME MaxDocs \in Nat, Cap \in Nat \ {0}, NEW i, WellIndexed(i), NEW m \in L!Messages
  PROVE  WellIndexed(L!Added(i, m)) /\ L!Added(i, m).docs \subseteq i.docs \cup {m}
<1> DEFINE r == L!Removed(i, m)
           j == L!Capped(r)
           k == L!Added(i, m)
<1>1. WellIndexed(r) /\ r.docs = i.docs \ {m}
  BY OneRemoved
<1>2. /\ k.docs = j.docs \cup {m}
      /\ \A w \in L!Words : k.post[w] = IF w \in words[m] THEN j.post[w] \cup {m} ELSE j.post[w]
  BY DEF L!Added
<1>3. j = IF Cardinality(r.docs) < Cap THEN r ELSE L!Removed(r, L!Min(r.docs))
  BY SameCardinality DEF L!Capped
<1> HIDE DEF r, j, k
<1>4. r.docs \in SUBSET L!Messages /\ Cardinality(r.docs) <= Cap
  BY <1>1 DEF WellIndexed
<1>5. IsFiniteSet(r.docs) /\ Cardinality(r.docs) \in Nat
  BY <1>4, Counted
<1>6. WellIndexed(j) /\ j.docs \subseteq r.docs /\ Cardinality(j.docs) < Cap
  <2>1. CASE Cardinality(r.docs) < Cap
    BY <1>1, <1>3, <2>1
  <2>2. CASE ~(Cardinality(r.docs) < Cap)
    <3>1. r.docs # {}
      BY <1>5, <2>2, FS_EmptySet
    <3>2. L!Min(r.docs) \in r.docs
      BY <1>4, <3>1, FirstLast
    <3>3. j = L!Removed(r, L!Min(r.docs))
      BY <1>3, <2>2
    <3>4. WellIndexed(j) /\ j.docs = r.docs \ {L!Min(r.docs)}
      BY <1>1, <3>3, OneRemoved
    <3>5. Cardinality(j.docs) = Cardinality(r.docs) - 1
      <4> DEFINE D == r.docs
                 x == L!Min(r.docs)
      <4>1. j.docs = D \ {x} /\ IsFiniteSet(D) /\ x \in D
        BY <1>5, <3>2, <3>4
      <4> HIDE DEF D, x
      <4>2. Cardinality(D \ {x}) = Cardinality(D) - 1
        BY <4>1, FS_RemoveElement
      <4> QED BY <4>1, <4>2 DEF D
    <3> QED BY <1>4, <1>5, <3>4, <3>5
  <2> QED BY <2>1, <2>2
<1>7. j.docs \in SUBSET L!Messages /\ IsFiniteSet(j.docs) /\ Cardinality(j.docs) \in Nat
  BY <1>4, <1>6, Counted
<1>8. Cardinality(k.docs) <= Cap
  <2>1. Cardinality(k.docs) = Cardinality(j.docs) \/ Cardinality(k.docs) = Cardinality(j.docs) + 1
    <3> DEFINE D == j.docs
    <3>1. k.docs = D \cup {m} /\ IsFiniteSet(D)
      BY <1>2, <1>7
    <3> HIDE DEF D
    <3>2. Cardinality(D \cup {m}) = IF m \in D THEN Cardinality(D) ELSE Cardinality(D) + 1
      BY <3>1, FS_AddElement
    <3> QED BY <3>1, <3>2 DEF D
  <2> QED BY <1>6, <1>7, <2>1
<1>9. \A w \in L!Words : k.post[w] = {n \in k.docs : w \in words[n]}
  <2> TAKE w \in L!Words
  <2>1. j.post[w] = {n \in j.docs : w \in words[n]}
    BY <1>6 DEF WellIndexed
  <2> QED BY <1>2, <2>1
<1>10. k.docs \subseteq L!Messages /\ k.docs \subseteq i.docs \cup {m}
  BY <1>1, <1>2, <1>6, <1>7
<1>11. WellIndexed(k)
  BY <1>8, <1>9, <1>10 DEF WellIndexed
<1> QED BY <1>10, <1>11 DEF k

\* AddedAll is a fold: a function of the sets that are still to be added.
Folds(f, i, D) ==
  f = [t \in SUBSET D |-> IF t = {} THEN i ELSE L!Added(f[t \ {L!Max(t)}], L!Max(t))]

LEMMA FoldMade ==
  ASSUME MaxDocs \in Nat, NEW i, NEW n \in 0 .. MaxDocs
  PROVE  \E f : Folds(f, i, 1 .. n)
<1> DEFINE Bad == {k \in Nat : k <= MaxDocs /\ ~\E f : Folds(f, i, 1 .. k)}
<1> SUFFICES ASSUME Bad # {}
             PROVE  FALSE
  OBVIOUS
<1>1. PICK k \in Bad : \A y \in Bad : <<y, k>> \notin OpToRel(<, Nat)
  BY NatLessThanWellFounded, WFMin
<1>2. k \in Nat /\ k <= MaxDocs /\ \A y \in Bad : ~(y < k)
  BY <1>1 DEF OpToRel
<1>3. CASE k = 0
  <2> DEFINE f == [t \in SUBSET (1 .. 0) |-> i]
  <2>1. \A t \in SUBSET (1 .. 0) : t = {}
    OBVIOUS
  <2>2. Folds(f, i, 1 .. 0)
    BY <2>1 DEF Folds
  <2> QED BY <1>1, <1>3, <2>2
<1>4. CASE k # 0
  <2>1. k - 1 \in Nat /\ k - 1 <= MaxDocs /\ k - 1 < k /\ k - 1 \notin Bad
    BY <1>2, <1>4
  <2>2. PICK g : Folds(g, i, 1 .. (k - 1))
    BY <2>1
  <2> DEFINE f == [t \in SUBSET (1 .. k) |->
                     IF k \in t THEN L!Added(g[t \ {k}], k) ELSE g[t]]
             h == [t \in SUBSET (1 .. k) |->
                     IF t = {} THEN i ELSE L!Added(f[t \ {L!Max(t)}], L!Max(t))]
  <2>3. ASSUME NEW t \in SUBSET (1 .. k)
        PROVE  f[t] = h[t]
    <3>1. CASE k \in t
      <4>1. t \in SUBSET L!Messages
        BY <1>2 DEF L!Messages
      <4>2. L!Max(t) \in t /\ k <= L!Max(t)
        BY <3>1, <4>1, FirstLast
      <4>3. L!Max(t) = k
        <5>1. L!Max(t) \in 1 .. k
          BY <4>2
        <5> QED BY <1>2, <4>2, <5>1
      <4>4. t \ {k} \in SUBSET (1 .. k) /\ k \notin t \ {k}
        OBVIOUS
      <4>5. f[t] = L!Added(g[t \ {k}], k) /\ f[t \ {k}] = g[t \ {k}]
        BY <3>1, <4>4
      <4>6. h[t] = L!Added(f[t \ {k}], k)
        BY <3>1, <4>3
      <4> QED BY <4>5, <4>6
    <3>2. CASE k \notin t
      <4>1. t \in SUBSET (1 .. (k - 1)) /\ t \ {L!Max(t)} \in SUBSET (1 .. k)
        <5>1. \A x \in t : x \in 1 .. k /\ x # k
          BY <3>2
        <5>2. \A x \in t : x \in 1 .. (k - 1)
          BY <1>2, <5>1
        <5> QED BY <5>2
      <4>2. f[t] = g[t] /\ f[t \ {L!Max(t)}] = g[t \ {L!Max(t)}]
        BY <3>2, <4>1
      <4>3. g[t] = IF t = {} THEN i ELSE L!Added(g[t \ {L!Max(t)}], L!Max(t))
        BY <2>2, <4>1 DEF Folds
      <4>4. h[t] = IF t = {} THEN i ELSE L!Added(f[t \ {L!Max(t)}], L!Max(t))
        OBVIOUS
      <4> HIDE DEF f, h
      <4> QED BY <4>2, <4>3, <4>4
    <3> QED BY <3>1, <3>2
  <2>4. f = h
    BY <2>3
  <2>5. Folds(f, i, 1 .. k)
    BY <2>4 DEF Folds
  <2> QED BY <1>1, <2>5
<1> QED BY <1>3, <1>4

LEMMA FoldFound ==
  ASSUME MaxDocs \in Nat, NEW i, NEW D \in SUBSET L!Messages
  PROVE  \E f : Folds(f, i, D) /\ L!AddedAll(i, D) = f[D]
<1>1. PICK g : Folds(g, i, L!Messages)
  <2>1. MaxDocs \in 0 .. MaxDocs
    OBVIOUS
  <2> QED BY <2>1, FoldMade DEF L!Messages
<1> DEFINE f == [t \in SUBSET D |-> g[t]]
<1>2. \A t \in SUBSET D :
        f[t] = IF t = {} THEN i ELSE L!Added(f[t \ {L!Max(t)}], L!Max(t))
  <2> TAKE t \in SUBSET D
  <2>1. t \in SUBSET L!Messages /\ t \ {L!Max(t)} \in SUBSET D
    OBVIOUS
  <2>2. g[t] = IF t = {} THEN i ELSE L!Added(g[t \ {L!Max(t)}], L!Max(t))
    BY <1>1, <2>1 DEF Folds
  <2>3. f[t] = g[t] /\ f[t \ {L!Max(t)}] = g[t \ {L!Max(t)}]
    BY <2>1
  <2> HIDE DEF f
  <2> QED BY <2>2, <2>3
<1>3. f = [t \in SUBSET D |-> IF t = {} THEN i ELSE L!Added(f[t \ {L!Max(t)}], L!Max(t))]
  BY <1>2
<1> HIDE DEF f
<1>4. \E e : /\ e = [t \in SUBSET D |-> IF t = {} THEN i
                                        ELSE L!Added(e[t \ {L!Max(t)}], L!Max(t))]
             /\ L!AddedAll(i, D) = e[D]
  <2>1. \E e : e = [t \in SUBSET D |-> IF t = {} THEN i
                                       ELSE L!Added(e[t \ {L!Max(t)}], L!Max(t))]
    BY <1>3
  <2> QED BY <2>1 DEF L!AddedAll, L!MapThenFoldSet
<1> QED BY <1>4 DEF Folds

\* The index after some messages are added in their order.
LEMMA AllAdded ==
  ASSUME MaxDocs \in Nat, Cap \in Nat \ {0}, NEW i, WellIndexed(i), NEW D \in SUBSET L!Messages
  PROVE  /\ WellIndexed(L!AddedAll(i, D)) /\ L!AddedAll(i, D).docs \subseteq i.docs \cup D
         /\ D = {} => L!AddedAll(i, D) = i
<1>1. PICK f : Folds(f, i, D) /\ L!AddedAll(i, D) = f[D]
  BY FoldFound
<1>2. \A t \in SUBSET D :
        f[t] = IF t = {} THEN i ELSE L!Added(f[t \ {L!Max(t)}], L!Max(t))
  BY <1>1 DEF Folds
<1> DEFINE Fine(t) == WellIndexed(f[t]) /\ f[t].docs \subseteq i.docs \cup t
           Bad == {k \in Nat : \E t \in SUBSET D : t \subseteq 1 .. k /\ ~Fine(t)}
<1>3. Bad = {}
  <2> SUFFICES ASSUME Bad # {}
               PROVE  FALSE
    OBVIOUS
  <2>1. PICK k \in Bad : \A y \in Bad : <<y, k>> \notin OpToRel(<, Nat)
    <3>1. Bad \subseteq Nat
      OBVIOUS
    <3> HIDE DEF Bad
    <3> QED BY <3>1, NatLessThanWellFounded, WFMin
  <2>2. k \in Nat /\ \A y \in Bad : ~(y < k)
    BY <2>1 DEF OpToRel
  <2>3. PICK t \in SUBSET D : t \subseteq 1 .. k /\ ~Fine(t)
    BY <2>1
  <2> DEFINE m == L!Max(t)
  <2>4. t # {}
    BY <1>2, <2>3
  <2>5. t \in SUBSET L!Messages
    OBVIOUS
  <2>6. m \in t /\ \A y \in t : y <= m
    BY <2>4, <2>5, FirstLast
  <2> HIDE DEF m
  <2>7. m \in 1 .. k /\ m \in L!Messages
    BY <2>3, <2>5, <2>6
  <2>8. t \ {m} \in SUBSET D /\ t \ {m} \subseteq 1 .. (m - 1) /\ m - 1 \in Nat /\ m - 1 < k
    BY <2>2, <2>3, <2>6, <2>7
  <2>9. Fine(t \ {m})
    BY <2>2, <2>8
  <2>10. f[t] = L!Added(f[t \ {m}], m)
    BY <1>2, <2>4 DEF m
  <2>11. WellIndexed(f[t]) /\ f[t].docs \subseteq f[t \ {m}].docs \cup {m}
    <3> DEFINE e == f[t \ {m}]
    <3>1. WellIndexed(e) /\ f[t] = L!Added(e, m)
      BY <2>9, <2>10
    <3> HIDE DEF e
    <3>2. WellIndexed(L!Added(e, m)) /\ L!Added(e, m).docs \subseteq e.docs \cup {m}
      BY <2>7, <3>1, OneAdded
    <3> QED BY <3>1, <3>2 DEF e
  <2> QED BY <2>3, <2>6, <2>9, <2>11
<1>4. Fine(D)
  <2>1. D \subseteq 1 .. MaxDocs
    BY DEF L!Messages
  <2> QED BY <1>3, <2>1
<1>5. D = {} => f[D] = i
  BY <1>2
<1> QED BY <1>1, <1>4, <1>5

\* What is left of a set when all but the last ones are dropped is all of it,
\* if it is not as many.
LEMMA AllNewest ==
  ASSUME MaxDocs \in Nat, NEW n \in Nat, NEW D \in SUBSET L!Messages,
         Cardinality(L!Newest(D, n)) < n
  PROVE  L!Newest(D, n) = D
<1> DEFINE N == L!Newest(D, n)
<1>1. N = {m \in D : Cardinality({k \in D : k > m}) < n}
  BY SameCardinality DEF L!Newest
<1> HIDE DEF N
<1>2. D \ N = {}
  <2> SUFFICES ASSUME D \ N # {}
               PROVE  FALSE
    OBVIOUS
  <2> DEFINE m == L!Max(D \ N)
             U == {k \in D : k > m}
  <2>1. m \in D \ N /\ \A y \in D \ N : y <= m
    <3>1. D \ N \in SUBSET L!Messages
      OBVIOUS
    <3> QED BY <3>1, FirstLast
  <2> HIDE DEF m
  <2>2. D \subseteq Nat
    BY DEF L!Messages
  <2>3. U \subseteq N
    <3>1. ASSUME NEW k \in D, k > m, k \notin N
          PROVE  FALSE
      <4>1. k <= m /\ k \in Nat /\ m \in Nat
        BY <2>1, <2>2, <3>1
      <4> QED BY <3>1, <4>1
    <3> QED BY <3>1
  <2>4. ~(Cardinality(U) < n)
    BY <1>1, <2>1
  <2>5. U \in SUBSET L!Messages /\ N \in SUBSET L!Messages
    BY <1>1
  <2> HIDE DEF U
  <2>6. IsFiniteSet(N) /\ Cardinality(N) \in Nat /\ Cardinality(U) \in Nat
    BY <2>5, Counted
  <2>7. Cardinality(U) <= Cardinality(N)
    BY <2>3, <2>6, FS_Subset
  <2>8. Cardinality(N) < n
    BY DEF N
  <2> QED BY <2>4, <2>6, <2>7, <2>8
<1> QED BY <1>1, <1>2 DEF N

Known == {m \in L!Messages : state[m] # "none"}

\* What the page has and can read is tracked, and in the index but for what the
\* cap, or an answer to another page, has taken out.
IndexFed ==
  /\ tracked = page \cap readable
  /\ tracked \subseteq index.docs \cup evicted \cup taken
  /\ index.docs \subseteq readable
  /\ removed \cap index.docs \subseteq back

\* Results are of the query; as long as the index stays, they are what it gives.
ResultsOf ==
  ~armed /\ query # L!None =>
    /\ \A m \in results : m \in Known /\ \A w \in query : \E v \in words[m] : w <= v
    /\ ~aged => results = L!Search(query)

IndexTypes ==
  /\ DOMAIN state = L!Messages /\ DOMAIN words = L!Messages
  /\ page \subseteq Known /\ readable \subseteq Known
  /\ fetch # L!None => fetch \subseteq Known
  /\ query \in Queries \cup {L!None} /\ aged \in BOOLEAN

IndexInv == IndexTypes /\ WellIndexed(index) /\ IndexFed /\ ResultsOf

LEMMA IndexInit ==
  ASSUME Cap \in Nat \ {0}, L!Init
  PROVE  IndexInv
<1>1. Cardinality({}) = 0
  BY FS_EmptySet
<1>2. index.docs = {} /\ \A w \in L!Words : index.post[w] = {}
  BY DEF L!Init, L!NoIndex
<1>3. WellIndexed(index)
  BY <1>1, <1>2 DEF WellIndexed
<1> QED BY <1>2, <1>3 DEF L!Init, IndexInv, IndexTypes, IndexFed, ResultsOf

\* A search gives documents with words that begin with those asked for.
LEMMA SearchFinds ==
  ASSUME MaxDocs \in Nat, Queries \subseteq SUBSET L!Words, IndexInv, NEW q \in Queries,
         NEW m \in L!Search(q)
  PROVE  m \in index.docs /\ \A w \in q : \E v \in words[m] : w <= v
<1>1. m \in index.docs /\ \A w \in q : m \in L!Postings(w)
  BY DEF L!Search, L!Newest
<1> SUFFICES ASSUME NEW w \in q
             PROVE  \E v \in words[m] : w <= v
  BY <1>1
<1>2. w \in L!Words /\ w \in Int
  BY DEF L!Words
<1>3. \A v \in L!Words : index.post[v] = {n \in index.docs : v \in words[n]}
  BY DEF IndexInv, WellIndexed
<1>4. CASE index.post[w] # {}
  <2>1. m \in index.post[w]
    BY <1>1, <1>4 DEF L!Postings
  <2> QED BY <1>2, <1>3, <2>1
<1>5. CASE index.post[w] = {}
  <2>1. PICK v \in w .. Letters : m \in index.post[v]
    BY <1>1, <1>5 DEF L!Postings
  <2>2. v \in L!Words /\ w <= v
    BY <1>2, <2>1 DEF L!Words
  <2> QED BY <1>3, <2>1, <2>2
<1> QED BY <1>4, <1>5

LEMMA IndexReached ==
  ASSUME MaxDocs \in Nat, MaxFound \in Nat, Queries \subseteq SUBSET L!Words, IndexInv
  PROVE  L!LocalTrue
<1> USE DEF IndexInv
<1>1. L!PostingsAgree
  BY SameCardinality DEF L!PostingsAgree, WellIndexed
<1>2. L!IndexFollowsPage
  BY DEF L!IndexFollowsPage, IndexFed
<1>3. L!ResultsTrue
  <2> SUFFICES ASSUME ~armed, query # L!None
               PROVE  /\ \A m \in results : \A w \in query : \E v \in words[m] : w <= v
                      /\ ~aged /\ Cardinality(results) < MaxFound =>
                           {m \in index.docs : query \subseteq words[m]} \subseteq results
    BY SameCardinality DEF L!ResultsTrue, L!Listed
  <2>1. \A m \in results : \A w \in query : \E v \in words[m] : w <= v
    BY DEF ResultsOf
  <2>2. ASSUME ~aged, Cardinality(results) < MaxFound, NEW m \in index.docs,
               query \subseteq words[m]
        PROVE  m \in results
    <3> DEFINE D == {n \in index.docs : \A w \in query : n \in L!Postings(w)}
    <3>1. results = L!Newest(D, MaxFound)
      BY <2>2 DEF ResultsOf, L!Search
    <3>2. D \in SUBSET L!Messages
      BY DEF WellIndexed
    <3>3. m \in D
      <4> SUFFICES ASSUME NEW w \in query
                   PROVE  m \in L!Postings(w)
        BY <2>2
      <4>1. w \in L!Words
        BY DEF IndexTypes
      <4>2. m \in index.post[w]
        BY <2>2, <4>1 DEF WellIndexed
      <4> QED BY <4>2 DEF L!Postings
    <3> HIDE DEF D
    <3> QED BY <2>2, <3>1, <3>2, <3>3, AllNewest
  <2> QED BY <2>1, <2>2
<1> QED BY <1>1, <1>2, <1>3 DEF L!LocalTrue

\* The index as it is to the page it was.
LEMMA SameSearch ==
  ASSUME UNCHANGED <<index, query>>
  PROVE  L!Search(query)' = L!Search(query)
BY DEF L!Search, L!Postings, L!Newest

\* The list and the texts grow, and the index is fed.
LEMMA ShowStep ==
  ASSUME MaxDocs \in Nat, Cap \in Nat \ {0}, IndexInv, NEW l, NEW d,
         page \subseteq l, readable \subseteq d, l \subseteq Known', d \subseteq Known',
         L!Show(l, d), UNCHANGED <<query, armed, results>>,
         DOMAIN state' = L!Messages, DOMAIN words' = L!Messages, Known \subseteq Known',
         \A m \in Known : words'[m] = words[m], fetch' # L!None => fetch' \subseteq Known',
         words' = words \/ (l \cap d) \ tracked = {}
  PROVE  IndexInv'
<1> USE DEF IndexInv
<1> DEFINE new == (l \cap d) \ tracked
           i == L!AddedAll(index, new)
<1>1. /\ page' = l /\ readable' = d /\ index' = i /\ tracked' = tracked \cup new
      /\ evicted' = (evicted \ new) \cup ((index.docs \cup new) \ index'.docs)
      /\ taken' = taken \ new /\ back' = back \cup (l \cap removed) /\ removed' = removed
      /\ aged' = (aged \/ new # {})
  BY DEF L!Show
<1>2. new \in SUBSET L!Messages
  BY DEF Known
<1>3. WellIndexed(i) /\ i.docs \subseteq index.docs \cup new /\ (new = {} => i = index)
  BY <1>2, AllAdded
<1>4. new \subseteq l /\ new \subseteq d /\ (l \cap d) \subseteq tracked \cup new
      /\ (words' = words \/ new = {})
  OBVIOUS
<1> HIDE DEF new, i
<1>5. index.docs \subseteq Known /\ tracked = page \cap readable
  BY DEF IndexTypes, IndexFed
<1>6. WellIndexed(index)'
  <2>1. i.docs \subseteq L!Messages /\ Cardinality(i.docs) <= Cap
        /\ \A w \in L!Words : i.post[w] = {m \in i.docs : w \in words[m]}
    BY <1>3 DEF WellIndexed
  <2>2. \A m \in i.docs : words'[m] = words[m]
    BY <1>3, <1>4, <1>5
  <2>3. \A w \in L!Words : i.post[w] = {m \in i.docs : w \in words'[m]}
    BY <2>1, <2>2
  <2> QED BY <1>1, <2>1, <2>3 DEF WellIndexed
<1>7. IndexTypes'
  <2>1. aged' \in BOOLEAN
    BY <1>1
  <2> QED BY <1>1, <2>1 DEF IndexTypes
<1>8. IndexFed'
  <2>1. tracked' = page' \cap readable'
    BY <1>1, <1>4, <1>5
  <2>2. tracked' \subseteq index'.docs \cup evicted' \cup taken'
    <3> SUFFICES ASSUME NEW m \in tracked', m \notin index'.docs
                 PROVE  m \in evicted' \cup taken'
      OBVIOUS
    <3>1. CASE m \in new
      BY <1>1, <3>1
    <3>2. CASE m \notin new
      BY <1>1, <3>2 DEF IndexFed
    <3> QED BY <3>1, <3>2
  <2>3. index'.docs \subseteq readable' /\ removed' \cap index'.docs \subseteq back'
    BY <1>1, <1>3, <1>4 DEF IndexFed
  <2> QED BY <2>1, <2>2, <2>3 DEF IndexFed
<1>9. ResultsOf'
  <2> SUFFICES ASSUME ~armed, query # L!None
               PROVE  /\ \A m \in results : m \in Known' /\ \A w \in query : \E v \in words'[m] : w <= v
                      /\ ~aged' => results = L!Search(query)'
    BY DEF ResultsOf
  <2>1. \A m \in results : m \in Known /\ \A w \in query : \E v \in words[m] : w <= v
    BY DEF ResultsOf
  <2>2. ASSUME ~aged'
        PROVE  results = L!Search(query)'
    <3>1. ~aged /\ index' = index /\ query' = query
      BY <1>1, <1>3, <2>2
    <3> QED BY <3>1, SameSearch DEF ResultsOf
  <2> QED BY <2>1, <2>2
<1> QED BY <1>6, <1>7, <1>8, <1>9

\* The page stays as it is, while messages come.
LEMMA PageStays ==
  ASSUME IndexInv, UNCHANGED L!pageVars, Known \subseteq Known',
         \A m \in Known : words'[m] = words[m],
         DOMAIN state' = L!Messages, DOMAIN words' = L!Messages,
         fetch' # L!None => fetch' \subseteq Known',
         query' \in Queries \cup {L!None}, aged' \in BOOLEAN, ResultsOf'
  PROVE  IndexInv'
<1> USE DEF IndexInv
<1>1. /\ page' = page /\ readable' = readable /\ tracked' = tracked /\ index' = index
      /\ evicted' = evicted /\ taken' = taken /\ removed' = removed /\ back' = back
  BY DEF L!pageVars
<1>2. index.docs \subseteq Known
  BY DEF IndexTypes, IndexFed
<1>3. WellIndexed(index)'
  <2>1. \A w \in L!Words : index.post[w] = {m \in index.docs : w \in words[m]}
    BY DEF WellIndexed
  <2>2. \A w \in L!Words : index.post[w] = {m \in index.docs : w \in words'[m]}
    BY <1>2, <2>1
  <2> QED BY <1>1, <2>2 DEF WellIndexed
<1>4. IndexTypes' /\ IndexFed'
  BY <1>1 DEF IndexTypes, IndexFed
<1> QED BY <1>3, <1>4

LEMMA ResultsStay ==
  ASSUME IndexInv, UNCHANGED <<index, query, armed, results, aged>>, Known \subseteq Known',
         \A m \in Known : words'[m] = words[m]
  PROVE  ResultsOf'
<1>1. L!Search(query)' = L!Search(query)
  BY SameSearch
<1> SUFFICES ASSUME ~armed, query # L!None
             PROVE  /\ \A m \in results : m \in Known' /\ \A w \in query : \E v \in words'[m] : w <= v
                    /\ ~aged => results = L!Search(query)'
  BY DEF ResultsOf
<1>2. \A m \in results : m \in Known /\ \A w \in query : \E v \in words[m] : w <= v
  BY DEF IndexInv, ResultsOf
<1> QED BY <1>1, <1>2 DEF IndexInv, ResultsOf

LEMMA SentStep ==
  ASSUME MaxDocs \in Nat, Cap \in Nat \ {0}, IndexInv, NEW m \in L!Messages, NEW ws,
         L!Sent(m, ws)
  PROVE  IndexInv'
<1>1. /\ state[m] = "none" /\ state' = [state EXCEPT ![m] = "live"]
      /\ words' = [words EXCEPT ![m] = ws]
      /\ L!Show(page \cup {m}, readable) \/ UNCHANGED <<L!pageVars, aged>>
      /\ UNCHANGED <<fetch, query, armed, results>>
  BY DEF L!Sent, L!modalVars
<1>2. IndexTypes /\ IndexFed
  BY DEF IndexInv
<1>3. /\ DOMAIN state' = L!Messages /\ DOMAIN words' = L!Messages
      /\ Known' = Known \cup {m} /\ m \notin Known /\ \A n \in Known : words'[n] = words[n]
  BY <1>1, <1>2 DEF IndexTypes, Known
<1>4. /\ page \subseteq Known /\ readable \subseteq Known /\ tracked = page \cap readable
      /\ fetch' # L!None => fetch' \subseteq Known'
  BY <1>1, <1>2, <1>3 DEF IndexTypes, IndexFed
<1>5. CASE L!Show(page \cup {m}, readable)
  <2>1. ((page \cup {m}) \cap readable) \ tracked = {}
    BY <1>3, <1>4
  <2>2. page \cup {m} \subseteq Known' /\ readable \subseteq Known'
    BY <1>3, <1>4
  <2> QED BY <1>1, <1>3, <1>4, <1>5, <2>1, <2>2, ShowStep
<1>6. CASE UNCHANGED <<L!pageVars, aged>>
  <2>1. ResultsOf'
    BY <1>1, <1>3, <1>6, ResultsStay DEF L!pageVars
  <2>2. query' \in Queries \cup {L!None} /\ aged' \in BOOLEAN
    BY <1>1, <1>2, <1>6 DEF IndexTypes
  <2> QED BY <1>3, <1>4, <1>6, <2>1, <2>2, PageStays
<1> QED BY <1>1, <1>5, <1>6

LEMMA PageStep ==
  ASSUME MaxDocs \in Nat, Cap \in Nat \ {0}, IndexInv,
         \/ L!Fetched
         \/ \E m \in L!Messages : L!Decrypt(m)
         \/ \E m \in L!Messages : L!Delete(m)
         \/ L!Fetch
  PROVE  IndexInv'
<1>1. IndexTypes /\ IndexFed
  BY DEF IndexInv
<1>2. page \subseteq Known /\ readable \subseteq Known
  BY <1>1 DEF IndexTypes
<1>3. CASE L!Fetched \/ \E m \in L!Messages : L!Decrypt(m)
  <2>1. UNCHANGED <<state, words, query, armed, results>>
    BY <1>3 DEF L!Fetched, L!Decrypt, L!tableVars, L!modalVars
  <2>2. /\ Known' = Known /\ DOMAIN state' = L!Messages /\ DOMAIN words' = L!Messages
        /\ \A m \in Known : words'[m] = words[m]
    BY <1>1, <2>1 DEF Known, IndexTypes
  <2>3. CASE L!Fetched
    <3>1. /\ L!Show(page \cup fetch, readable) /\ fetch' = L!None /\ fetch # L!None
          /\ fetch \subseteq Known
      BY <1>1, <2>3 DEF L!Fetched, IndexTypes
    <3>2. page \cup fetch \subseteq Known'
      BY <1>2, <2>2, <3>1
    <3> QED BY <1>2, <2>1, <2>2, <3>1, <3>2, ShowStep
  <2>4. CASE \E m \in L!Messages : L!Decrypt(m)
    <3>1. PICK m \in L!Messages : L!Decrypt(m)
      BY <2>4
    <3>2. L!Show(page, readable \cup {m}) /\ m \in page /\ fetch' = fetch
      BY <3>1 DEF L!Decrypt
    <3>3. readable \cup {m} \subseteq Known' /\ page \subseteq Known'
      BY <1>2, <2>2, <3>2
    <3>4. fetch' # L!None => fetch' \subseteq Known'
      BY <1>1, <2>2, <3>2 DEF IndexTypes
    <3> QED BY <2>1, <2>2, <3>2, <3>3, <3>4, ShowStep
  <2> QED BY <1>3, <2>3, <2>4
<1>4. CASE L!Fetch \/ \E m \in L!Messages : L!Delete(m)
  <2>1. UNCHANGED <<L!pageVars, words, query, armed, results, aged>>
    BY <1>4 DEF L!Fetch, L!Delete, L!tableVars, L!modalVars
  <2>2. DOMAIN state' = L!Messages /\ Known' = Known /\ (fetch' # L!None => fetch' \subseteq Known)
    <3>1. CASE L!Fetch
      <4>1. state' = state
        BY <3>1 DEF L!Fetch, L!tableVars
      <4>2. fetch' \subseteq L!Live
        BY <3>1 DEF L!Fetch, L!Newest
      <4>3. L!Live \subseteq Known
        BY DEF L!Live, Known
      <4> QED BY <1>1, <4>1, <4>2, <4>3 DEF IndexTypes, Known
    <3>2. CASE \E m \in L!Messages : L!Delete(m)
      <4>1. PICK m \in L!Messages : L!Delete(m)
        BY <3>2
      <4>2. /\ state[m] = "live" /\ state' = [state EXCEPT ![m] = "deleted"] /\ fetch' = fetch
        BY <4>1 DEF L!Delete
      <4> QED BY <1>1, <4>2 DEF IndexTypes, Known
    <3> QED BY <1>4, <3>1, <3>2
  <2>3. ResultsOf'
    BY <2>1, <2>2, ResultsStay DEF L!pageVars
  <2>4. query' \in Queries \cup {L!None} /\ aged' \in BOOLEAN /\ DOMAIN words' = L!Messages
    BY <1>1, <2>1 DEF IndexTypes
  <2> QED BY <2>1, <2>2, <2>3, <2>4, PageStays
<1> QED BY <1>3, <1>4

LEMMA DeletedStep ==
  ASSUME MaxDocs \in Nat, Cap \in Nat \ {0}, IndexInv, NEW m, NEW v, L!Deleted(m, v)
  PROVE  IndexInv'
<1>1. /\ index' = L!Removed(index, m) /\ aged' = TRUE
      /\ IF v = visit
         THEN /\ page' = page \ {m} /\ tracked' = tracked \ {m}
              /\ removed' = removed \cup {m} /\ back' = back \ {m}
              /\ taken' = taken
         ELSE /\ taken' = taken \cup {m} /\ page' = page /\ tracked' = tracked
              /\ removed' = removed /\ back' = back
      /\ UNCHANGED <<state, words, readable, evicted, fetch, query, armed, results>>
  BY DEF L!Deleted, L!tableVars, L!modalVars
<1>2. WellIndexed(index') /\ index'.docs = index.docs \ {m}
  BY <1>1, OneRemoved DEF IndexInv
<1>3. WellIndexed(index)'
  BY <1>1, <1>2 DEF WellIndexed
<1>4. IndexTypes'
  BY <1>1 DEF IndexInv, IndexTypes, Known
<1>5. IndexFed'
  BY <1>1, <1>2 DEF IndexInv, IndexFed
<1>6. ResultsOf'
  BY <1>1 DEF IndexInv, ResultsOf, Known
<1> QED BY <1>3, <1>4, <1>5, <1>6 DEF IndexInv

LEMMA SearchStep ==
  ASSUME MaxDocs \in Nat, Cap \in Nat \ {0}, Queries \subseteq SUBSET L!Words, IndexInv,
         \/ L!Reopen \/ L!RunSearch \/ UNCHANGED L!vars
         \/ \E q \in Queries \cup {L!None} : L!Type(q)
  PROVE  IndexInv'
<1>1. IndexTypes /\ IndexFed
  BY DEF IndexInv
<1>2. UNCHANGED <<state, words>> /\ Known' = Known
  BY DEF L!Reopen, L!RunSearch, L!Type, L!vars, L!tableVars, Known
<1>3. CASE L!Reopen
  <2>1. /\ page' = {} /\ readable' = {} /\ tracked' = {} /\ index' = L!NoIndex
        /\ removed' = {} /\ aged' = FALSE /\ fetch' = L!None /\ query' = L!None
    BY <1>3 DEF L!Reopen
  <2>2. index'.docs = {} /\ \A w \in L!Words : index'.post[w] = {}
    BY <2>1 DEF L!NoIndex
  <2>3. Cardinality({}) = 0
    BY FS_EmptySet
  <2>4. WellIndexed(index)'
    BY <2>2, <2>3 DEF WellIndexed
  <2> QED BY <1>1, <1>2, <2>1, <2>2, <2>4 DEF IndexInv, IndexTypes, IndexFed, ResultsOf
<1>4. CASE L!RunSearch
  <2>1. /\ UNCHANGED <<L!pageVars, fetch, query>> /\ aged' = FALSE
        /\ results' = IF query = L!None THEN {} ELSE L!Search(query)
    BY <1>4 DEF L!RunSearch
  <2>2. L!Search(query)' = L!Search(query)
    BY <2>1, SameSearch DEF L!pageVars
  <2>3. query # L!None => \A n \in L!Search(query) :
          n \in Known /\ \A w \in query : \E y \in words[n] : w <= y
    <3>1. index.docs \subseteq Known
      BY <1>1 DEF IndexTypes, IndexFed
    <3>2. query # L!None => query \in Queries
      BY <1>1 DEF IndexTypes
    <3> QED BY <3>1, <3>2, SearchFinds
  <2>4. ResultsOf'
    BY <1>2, <2>1, <2>2, <2>3 DEF ResultsOf
  <2> QED BY <1>1, <1>2, <2>1, <2>4, PageStays DEF IndexTypes
<1>5. CASE \E q \in Queries \cup {L!None} : L!Type(q)
  <2>1. PICK q \in Queries \cup {L!None} : L!Type(q)
    BY <1>5
  <2>2. query' = q /\ armed' = TRUE /\ UNCHANGED <<L!pageVars, fetch, aged>>
    BY <2>1 DEF L!Type
  <2>3. ResultsOf'
    BY <2>2 DEF ResultsOf
  <2> QED BY <1>1, <1>2, <2>2, <2>3, PageStays DEF IndexTypes
<1>6. CASE UNCHANGED L!vars
  <2>1. UNCHANGED <<L!pageVars, fetch, query, armed, results, aged>>
    BY <1>6 DEF L!vars, L!modalVars
  <2>2. ResultsOf'
    BY <1>2, <2>1, ResultsStay DEF L!pageVars
  <2> QED BY <1>1, <1>2, <2>1, <2>2, PageStays DEF IndexTypes
<1> QED BY <1>3, <1>4, <1>5, <1>6

LEMMA IndexStep ==
  ASSUME MaxDocs \in Nat, Cap \in Nat \ {0}, Queries \subseteq SUBSET L!Words, IndexInv,
         [L!Next]_(L!vars)
  PROVE  IndexInv'
<1>1. ASSUME NEW m \in L!Messages, NEW ws \in Said, L!Sent(m, ws)
      PROVE  IndexInv'
  BY <1>1, SentStep
<1>2. ASSUME NEW m \in L!Messages, L!Decrypt(m) \/ L!Delete(m)
      PROVE  IndexInv'
  BY <1>2, PageStep
<1>3. ASSUME NEW d \in gone, L!Deleted(d[1], d[2])
      PROVE  IndexInv'
  BY <1>3, DeletedStep
<1>4. L!Fetch \/ L!Fetched => IndexInv'
  BY PageStep
<1>5. ASSUME \/ L!Reopen \/ L!RunSearch \/ UNCHANGED L!vars
             \/ \E q \in Queries \cup {L!None} : L!Type(q)
      PROVE  IndexInv'
  BY <1>5, SearchStep
<1> QED BY <1>1, <1>2, <1>3, <1>4, <1>5 DEF L!Next

-----------------------------------------------------------------------------
(* The search in a channel that is not encrypted.                          *)

Answers == [word : Phrases \cup {F!None}, found : SUBSET F!Messages, full : BOOLEAN,
            since : SUBSET F!Messages]

\* An answer as it was read from the table sd, and as it is with the senders of
\* bl left out, but for what has changed since.
ReadFrom(a, sd) ==
  \A m \in F!Messages \ a.since :
    /\ m \in a.found => sd[m] = a.word
    /\ m \notin a.found => sd[m] # a.word \/ a.full

Tells(a, sd, bl) ==
  \A m \in F!Messages \ a.since : a.word # F!None =>
    /\ m \in a.found => sd[m] = a.word /\ m \notin bl
    /\ m \notin a.found => sd[m] # a.word \/ m \in bl \/ a.full

AnswerTypes ==
  /\ said \in [F!Messages -> Phrases \cup {F!None}] /\ fts = said
  /\ typed \in Phrases \cup {F!None}
  /\ req \in [pc : {"idle", "asked", "member", "read", "answered", "failed"}, answer : Answers]
  /\ found \in Answers /\ cache \in [Phrases -> Answers]

\* What is shown, kept and on its way is true, and of the word asked for.
AnswersTell ==
  /\ Tells(found, said, blocked)
  /\ \A w \in Phrases : /\ Tells(cache[w], said, blocked)
                        /\ cache[w] = F!NoAnswer \/ cache[w].word = w
  /\ req.pc = "read" => ReadFrom(req.answer, said)
  /\ req.pc = "answered" => Tells(req.answer, said, blocked)
  /\ req.pc # "idle" => req.answer.word # F!None

\* Without a timer, what was asked last is what the input holds.
TextAsked ==
  ~due /\ typed # F!None =>
    /\ req.pc = "idle" => found.word = typed \/ refused
    /\ req.pc # "idle" => req.answer.word = typed

AnswerInv == AnswerTypes /\ AnswersTell /\ TextAsked /\ loading = (req.pc # "idle")

LEMMA NothingAnswered ==
  /\ F!NoAnswer \in Answers /\ F!NoAnswer.word = F!None
  /\ \A sd, bl : Tells(F!NoAnswer, sd, bl)
BY DEF F!NoAnswer, Answers, Tells

LEMMA AnswerInit ==
  ASSUME F!Init
  PROVE  AnswerInv
<1>1. F!NoRequest.pc = "idle" /\ F!NoRequest.answer = F!NoAnswer
      /\ F!NoRequest = [pc |-> "idle", answer |-> F!NoAnswer]
  BY DEF F!NoRequest
<1>2. AnswerTypes
  BY <1>1, NothingAnswered DEF F!Init, AnswerTypes
<1>3. AnswersTell
  BY <1>1, NothingAnswered DEF F!Init, AnswersTell
<1> QED BY <1>1, <1>2, <1>3 DEF F!Init, AnswerInv, TextAsked

LEMMA AnswerReached ==
  ASSUME AnswerInv
  PROVE  F!SearchAnswers
<1> USE DEF AnswerInv
<1>1. F!ListedTrue
  BY DEF F!ListedTrue, AnswersTell, Tells
<1>2. F!SpinnerTrue
  BY DEF F!SpinnerTrue
<1>3. F!ListedForText
  <2> SUFFICES ASSUME ~due, ~loading, F!Screen \in {"results", "No results"}
               PROVE  found.word = typed \/ refused
    BY DEF F!ListedForText
  <2>1. typed # F!None
    BY DEF F!Screen
  <2> QED BY <2>1 DEF TextAsked
<1> QED BY <1>1, <1>2, <1>3 DEF F!SearchAnswers

\* What changes is noted in every answer there is.
LEMMA AgedTells ==
  ASSUME NEW a \in Answers, NEW C \in SUBSET F!Messages, NEW sd, NEW bl, NEW sn, NEW bn,
         \A m \in F!Messages \ C : sn[m] = sd[m] /\ (m \in bn <=> m \in bl)
  PROVE  /\ F!Aged(a, C) \in Answers /\ F!Aged(a, C).word = a.word
         /\ Tells(a, sd, bl) => Tells(F!Aged(a, C), sn, bn)
         /\ a.word # F!None /\ ReadFrom(a, sd) => ReadFrom(F!Aged(a, C), sn)
         /\ a = F!NoAnswer => F!Aged(a, C) = a
<1> DEFINE b == F!Aged(a, C)
<1>1. CASE a.word = F!None
  <2>1. b = a
    BY <1>1 DEF F!Aged
  <2> HIDE DEF b
  <2> QED BY <1>1, <2>1 DEF Tells, b
<1>2. CASE a.word # F!None
  <2>1. b = [a EXCEPT !.since = @ \cup C]
    BY <1>2 DEF F!Aged
  <2>2. /\ b \in Answers /\ b.word = a.word /\ b.found = a.found /\ b.full = a.full
        /\ b.since = a.since \cup C
    BY <2>1 DEF Answers
  <2>3. a # F!NoAnswer
    BY <1>2, NothingAnswered
  <2> HIDE DEF b
  <2>4. Tells(a, sd, bl) => Tells(b, sn, bn)
    BY <2>2 DEF Tells
  <2>5. ReadFrom(a, sd) => ReadFrom(b, sn)
    BY <2>2 DEF ReadFrom
  <2> QED BY <2>2, <2>3, <2>4, <2>5 DEF b
<1> QED BY <1>1, <1>2

LEMMA ChangeStep ==
  ASSUME AnswerInv, NEW C \in SUBSET F!Messages, F!Change(C),
         \A m \in F!Messages \ C : said'[m] = said[m] /\ (m \in blocked' <=> m \in blocked),
         said' \in [F!Messages -> Phrases \cup {F!None}], fts' = said'
  PROVE  AnswerInv'
<1> USE DEF AnswerInv
<1>1. /\ req' = [req EXCEPT !.answer = F!Aged(req.answer, C)]
      /\ found' = F!Aged(found, C) /\ cache' = [w \in Phrases |-> F!Aged(cache[w], C)]
      /\ UNCHANGED <<typed, due, loading, refused>>
  BY DEF F!Change
<1>2. req.answer \in Answers /\ found \in Answers /\ \A w \in Phrases : cache[w] \in Answers
  BY DEF AnswerTypes
<1> DEFINE q == F!Aged(req.answer, C)
<1>3. /\ q \in Answers /\ q.word = req.answer.word
      /\ Tells(req.answer, said, blocked) => Tells(q, said', blocked')
      /\ req.answer.word # F!None /\ ReadFrom(req.answer, said) => ReadFrom(q, said')
  BY <1>2, AgedTells
<1> HIDE DEF q
<1>4. /\ found' \in Answers /\ found'.word = found.word /\ Tells(found', said', blocked')
  BY <1>1, <1>2, AgedTells DEF AnswersTell
<1>5. ASSUME NEW w \in Phrases
      PROVE  /\ cache'[w] \in Answers /\ Tells(cache'[w], said', blocked')
             /\ cache'[w] = F!NoAnswer \/ cache'[w].word = w
  <2> DEFINE a == cache[w]
             b == F!Aged(a, C)
  <2>1. cache'[w] = b
    BY <1>1
  <2>2. a \in Answers /\ Tells(a, said, blocked) /\ (a = F!NoAnswer \/ a.word = w)
    BY <1>2 DEF AnswersTell
  <2> HIDE DEF a
  <2>3. /\ b \in Answers /\ b.word = a.word /\ Tells(b, said', blocked')
        /\ a = F!NoAnswer => b = a
    BY <2>2, AgedTells
  <2> HIDE DEF b
  <2> QED BY <2>1, <2>2, <2>3
<1>6. req'.pc = req.pc /\ req'.answer = q
      /\ req' \in [pc : {"idle", "asked", "member", "read", "answered", "failed"}, answer : Answers]
  BY <1>1, <1>3 DEF AnswerTypes, q
<1>7. AnswerTypes'
  BY <1>1, <1>4, <1>5, <1>6 DEF AnswerTypes
<1>8. AnswersTell'
  BY <1>3, <1>4, <1>5, <1>6 DEF AnswersTell
<1>9. TextAsked'
  BY <1>1, <1>3, <1>4, <1>6 DEF TextAsked
<1> QED BY <1>1, <1>6, <1>7, <1>8, <1>9

LEMMA TableStep ==
  ASSUME AnswerInv,
         \/ \E m \in F!Messages : F!Edit(m) \/ F!Block(m)
         \/ F!Removal
  PROVE  AnswerInv'
<1>1. said \in [F!Messages -> Phrases \cup {F!None}] /\ fts = said
  BY DEF AnswerInv, AnswerTypes
<1>2. CASE F!Removal
  <2>1. F!Change({}) /\ UNCHANGED <<said, fts, blocked>>
    BY <1>2 DEF F!Removal
  <2> QED BY <1>1, <2>1, ChangeStep
<1>3. ASSUME NEW m \in F!Messages, F!Edit(m)
      PROVE  AnswerInv'
  <2>1. PICK w \in Phrases \cup {F!None} : F!Rewrite(m, w)
    BY <1>3 DEF F!Edit
  <2>2. /\ said' = [said EXCEPT ![m] = w] /\ fts' = [fts EXCEPT ![m] = w]
        /\ F!Change({m}) /\ blocked' = blocked
    BY <1>3, <2>1 DEF F!Edit, F!Rewrite
  <2> QED BY <1>1, <2>2, ChangeStep
<1>4. ASSUME NEW m \in F!Messages, F!Block(m)
      PROVE  AnswerInv'
  <2>1. /\ blocked' = IF m \in blocked THEN blocked \ {m} ELSE blocked \cup {m}
        /\ F!Change({m}) /\ UNCHANGED <<said, fts>>
    BY <1>4 DEF F!Block
  <2>2. \A n \in F!Messages \ {m} : n \in blocked' <=> n \in blocked
    BY <2>1
  <2> QED BY <1>1, <2>1, <2>2, ChangeStep
<1> QED BY <1>2, <1>3, <1>4

\* The request goes on, for the same word.
LEMMA GoesOn ==
  ASSUME AnswerInv, NEW p \in {"asked", "member", "read", "answered", "failed"}, NEW a \in Answers,
         req' = [pc |-> p, answer |-> a], req.pc # "idle", a.word = req.answer.word,
         p = "read" => ReadFrom(a, said), p = "answered" => Tells(a, said, blocked),
         UNCHANGED <<F!tableVars, F!client>>
  PROVE  AnswerInv'
<1> USE DEF AnswerInv
<1>1. req'.pc = p /\ req'.answer = a
      /\ req' \in [pc : {"idle", "asked", "member", "read", "answered", "failed"}, answer : Answers]
  OBVIOUS
<1>2. UNCHANGED <<said, fts, blocked, typed, due, loading, found, cache, refused>>
  BY DEF F!tableVars, F!client
<1>3. AnswerTypes'
  BY <1>1, <1>2 DEF AnswerTypes
<1>4. AnswersTell'
  BY <1>1, <1>2 DEF AnswersTell
<1>5. TextAsked'
  BY <1>1, <1>2 DEF TextAsked
<1> QED BY <1>1, <1>2, <1>3, <1>4, <1>5

LEMMA RouteStep ==
  ASSUME F!None \notin Phrases, AnswerInv,
         F!Membership \/ F!Read \/ F!Filter \/ F!Refused \/ F!Cached
  PROVE  AnswerInv'
<1>1. UNCHANGED <<F!tableVars, F!client>>
  BY DEF F!Membership, F!Read, F!Filter, F!Refused, F!Cached
<1>2. /\ req.answer \in Answers /\ said \in [F!Messages -> Phrases \cup {F!None}] /\ fts = said
      /\ req.answer.word \in Phrases \cup {F!None}
  BY DEF AnswerInv, AnswerTypes, Answers
<1>3. CASE F!Membership
  <2>1. req.pc = "asked" /\ \E p \in {"member", "failed"} : req' = [pc |-> p, answer |-> req.answer]
    BY <1>3 DEF F!Membership, F!Step
  <2> QED BY <1>1, <1>2, <2>1, GoesOn
<1>4. CASE F!Refused
  <2>1. req.pc # "idle" /\ req' = [pc |-> "failed", answer |-> req.answer]
    BY <1>4 DEF F!Refused, F!Step
  <2> QED BY <1>1, <1>2, <2>1, GoesOn
<1>5. CASE F!Cached
  <2> DEFINE a == cache[req.answer.word]
  <2>1. req.pc = "asked" /\ a # F!NoAnswer /\ req' = [pc |-> "answered", answer |-> a]
    BY <1>5 DEF F!Cached, F!Step
  <2>2. req.answer.word \in Phrases
    BY <1>2, <2>1 DEF AnswerInv, AnswersTell
  <2>3. a \in Answers /\ a.word = req.answer.word /\ Tells(a, said, blocked)
    BY <2>1, <2>2 DEF AnswerInv, AnswerTypes, AnswersTell
  <2> HIDE DEF a
  <2> QED BY <1>1, <2>1, <2>3, GoesOn
<1>6. CASE F!Read
  <2> DEFINE hits == {m \in F!Messages : fts[m] = req.answer.word /\ said[m] # F!None}
  <2>1. PICK some \in SUBSET hits :
          req' = [pc |-> "read", answer |-> [req.answer EXCEPT !.found = some,
                                               !.full = (some # hits), !.since = {}]]
    BY <1>6 DEF F!Read, F!Step
  <2> DEFINE b == (some # hits)
             a == [req.answer EXCEPT !.found = some, !.full = b, !.since = {}]
  <2>2. b \in BOOLEAN /\ some \subseteq F!Messages /\ (b \/ some = hits)
    OBVIOUS
  <2>3. req' = [pc |-> "read", answer |-> a]
    BY <2>1
  <2> HIDE DEF b
  <2>4. /\ a \in Answers /\ a.word = req.answer.word /\ a.found = some /\ a.full = b
        /\ a.since = {}
    BY <1>2, <2>2 DEF Answers
  <2> HIDE DEF a
  <2>5. req.pc = "member" /\ req.answer.word # F!None
    BY <1>6 DEF F!Read, AnswerInv, AnswersTell
  <2>6. ReadFrom(a, said)
    <3>1. \A m \in F!Messages : m \in some => said[m] = req.answer.word
      BY <1>2
    <3>2. \A m \in F!Messages : m \notin some /\ ~b => said[m] # req.answer.word
      BY <1>2, <2>2, <2>5
    <3> QED BY <2>4, <3>1, <3>2 DEF ReadFrom
  <2> QED BY <1>1, <2>3, <2>4, <2>5, <2>6, GoesOn
<1>7. CASE F!Filter
  <2> DEFINE a == [req.answer EXCEPT !.found = @ \ blocked]
  <2>1. req.pc = "read" /\ req' = [pc |-> "answered", answer |-> a]
    BY <1>7 DEF F!Filter, F!Step
  <2>2. /\ a \in Answers /\ a.word = req.answer.word /\ a.found = req.answer.found \ blocked
        /\ a.full = req.answer.full /\ a.since = req.answer.since
    BY <1>2 DEF Answers
  <2> HIDE DEF a
  <2>3. Tells(a, said, blocked)
    BY <2>1, <2>2 DEF AnswerInv, AnswersTell, ReadFrom, Tells
  <2> QED BY <1>1, <2>1, <2>2, <2>3, GoesOn
<1> QED BY <1>3, <1>4, <1>5, <1>6, <1>7

LEMMA DialogStep ==
  ASSUME F!None \notin Phrases, AnswerInv,
         \/ \E w \in Phrases \cup {F!None} : F!Type(w)
         \/ \E w \in Phrases : F!Expire(w)
         \/ F!Search \/ F!Answered \/ F!Failed \/ UNCHANGED F!vars
  PROVE  AnswerInv'
<1> USE DEF AnswerInv
<1>1. UNCHANGED <<said, fts, blocked>>
  BY DEF F!Type, F!Expire, F!Search, F!Answered, F!Failed, F!vars, F!tableVars
<1>2. F!NoRequest = [pc |-> "idle", answer |-> F!NoAnswer]
  BY DEF F!NoRequest
<1>3. CASE \E w \in Phrases \cup {F!None} : F!Type(w)
  <2>1. typed' \in Phrases \cup {F!None} /\ due' = TRUE
        /\ UNCHANGED <<req, loading, found, cache, refused>>
    BY <1>3 DEF F!Type
  <2> QED BY <1>1, <2>1 DEF AnswerTypes, AnswersTell, TextAsked
<1>4. CASE \E w \in Phrases : F!Expire(w)
  <2>1. PICK w \in Phrases : F!Expire(w)
    BY <1>4
  <2>2. /\ cache' = [cache EXCEPT ![w] = F!NoAnswer]
        /\ UNCHANGED <<typed, due, req, loading, found, refused>>
    BY <2>1 DEF F!Expire
  <2>3. cache' \in [Phrases -> Answers]
    BY <2>2, NothingAnswered DEF AnswerTypes
  <2>4. \A v \in Phrases : cache'[v] = cache[v] \/ cache'[v] = F!NoAnswer
    BY <2>2 DEF AnswerTypes
  <2>5. AnswersTell'
    BY <1>1, <2>2, <2>4, NothingAnswered DEF AnswersTell
  <2> QED BY <1>1, <2>2, <2>3, <2>5 DEF AnswerTypes, TextAsked
<1>5. CASE F!Search
  <2>1. due /\ refused' = FALSE /\ UNCHANGED <<typed, cache>>
    BY <1>5 DEF F!Search
  <2>2. CASE typed = F!None /\ found' = F!NoAnswer /\ UNCHANGED <<req, loading>>
    <3>1. AnswersTell'
      BY <1>1, <2>1, <2>2, NothingAnswered DEF AnswersTell
    <3> QED BY <1>1, <2>1, <2>2, <3>1, NothingAnswered DEF AnswerTypes, TextAsked
  <2>3. CASE typed # F!None /\ loading' = TRUE /\ found' = found
             /\ F!Step("asked", [F!NoAnswer EXCEPT !.word = typed])
    <3> DEFINE a == [F!NoAnswer EXCEPT !.word = typed]
    <3>1. req' = [pc |-> "asked", answer |-> a]
      BY <2>3 DEF F!Step
    <3>2. a \in Answers /\ a.word = typed
      BY NothingAnswered DEF AnswerTypes, Answers
    <3> HIDE DEF a
    <3>3. AnswerTypes' /\ req'.pc = "asked" /\ req'.answer = a
      BY <1>1, <2>1, <2>3, <3>1, <3>2 DEF AnswerTypes
    <3>4. AnswersTell'
      BY <1>1, <2>1, <2>3, <3>2, <3>3 DEF AnswersTell
    <3> QED BY <2>1, <2>3, <3>2, <3>3, <3>4 DEF TextAsked
  <2> QED BY <1>5, <2>2, <2>3 DEF F!Search
<1>6. CASE F!Answered
  <2> DEFINE w == req.answer.word
  <2>1. /\ req.pc = "answered" /\ found' = req.answer /\ req' = F!NoRequest /\ loading' = FALSE
        /\ cache' = [cache EXCEPT ![w] = req.answer]
        /\ UNCHANGED <<typed, due, refused>>
    BY <1>6 DEF F!Answered
  <2>2. /\ req.answer \in Answers /\ Tells(req.answer, said, blocked)
        /\ w # F!None /\ w \in Phrases
    BY <2>1 DEF AnswerTypes, AnswersTell, Answers
  <2>3. cache' \in [Phrases -> Answers]
        /\ \A v \in Phrases : cache'[v] = cache[v] \/ (v = w /\ cache'[v] = req.answer)
    BY <2>1, <2>2 DEF AnswerTypes
  <2>4. req'.pc = "idle" /\ req'.answer = F!NoAnswer
    BY <1>2, <2>1
  <2>5. AnswerTypes'
    BY <1>1, <1>2, <2>1, <2>2, <2>3, NothingAnswered DEF AnswerTypes
  <2>6. AnswersTell'
    BY <1>1, <2>1, <2>2, <2>3, <2>4 DEF AnswersTell
  <2> QED BY <2>1, <2>4, <2>5, <2>6 DEF TextAsked
<1>7. CASE F!Failed
  <2>1. /\ req' = F!NoRequest /\ loading' = FALSE /\ refused' = TRUE
        /\ UNCHANGED <<typed, due, found, cache>>
    BY <1>7 DEF F!Failed
  <2>2. req'.pc = "idle" /\ req'.answer = F!NoAnswer
    BY <1>2, <2>1
  <2>3. AnswerTypes'
    BY <1>1, <1>2, <2>1, NothingAnswered DEF AnswerTypes
  <2> QED BY <1>1, <2>1, <2>2, <2>3 DEF AnswersTell, TextAsked
<1>8. CASE UNCHANGED F!vars
  <2>1. UNCHANGED <<typed, due, req, loading, found, cache, refused>>
    BY <1>8 DEF F!vars, F!modalVars
  <2> QED BY <1>1, <2>1 DEF AnswerTypes, AnswersTell, TextAsked
<1> QED BY <1>3, <1>4, <1>5, <1>6, <1>7, <1>8

LEMMA AnswerStep ==
  ASSUME F!None \notin Phrases, AnswerInv, [F!Next]_(F!vars)
  PROVE  AnswerInv'
BY TableStep, RouteStep, DialogStep DEF F!Next

-----------------------------------------------------------------------------
(* The list of messages.                                                   *)

Events == [kind : {"created", "added", "removed"}, id : Msgs, user : T!Users, from : T!Writers]
Entries == [id : Msgs, reacts : SUBSET T!Users]
Answered == [kind : {"page", "older", "resync", "message"}, list : Seq(Entries)]
InTable == T!Range(stored)
Ids(s) == {x.id : x \in T!Range(s)}
OnTheirWay == outbox \cup T!Range(inbox) \cup T!Range(missed)

TimelineTypes ==
  /\ stored \in Seq(Msgs) /\ by \in [Msgs -> T!Writers \cup {"none"}]
  /\ outbox \subseteq Events /\ inbox \in Seq(Events) /\ missed \in Seq(Events)
  /\ inRoom \in BOOLEAN /\ spliced \in BOOLEAN
  /\ view \in Seq(Entries) /\ answers \subseteq Answered
  /\ sent \subseteq Msgs
  /\ toggle \in [id : Msgs \cup {"none"}, on : BOOLEAN]

\* The table has each message once, and all that the tab has or hears of.
TableHas ==
  /\ \A i, j \in DOMAIN stored : stored[i] = stored[j] => i = j
  /\ \A m \in Msgs : by[m] = "none" <=> m \notin InTable
  /\ \A e \in OnTheirWay : e.id \in InTable /\ e.user = T!UserOf(e.from)
  /\ T!Shown \subseteq InTable
  /\ \A f \in answers : Ids(f.list) \subseteq InTable
  /\ \A m \in sent : by[m] = "tab"
  /\ toggle = T!NoToggle \/ toggle.id \in InTable
  /\ IF inRoom THEN missed = << >> ELSE inbox = << >>

\* Whatever is newer than what the list has, or will have from a page or a send,
\* is accounted for.
Accounted == deleted \cup T!Shown \cup unseen \cup T!Coming
Reached == T!Shown \cup sent \cup UNION {Ids(f.list) : f \in {g \in answers : g.kind # "message"}}
NoHoles ==
  \A m \in Reached, x \in InTable : T!Pos(m) < T!Pos(x) => x \in Accounted

\* The list is in order but for what this tab sent, and an older page goes
\* before it, until another answer comes first.
Increasing(s) == \A i, j \in DOMAIN s : i < j => T!Pos(s[i].id) < T!Pos(s[j].id)
ListInTime(v) ==
  \A j \in DOMAIN v : by[v[j].id] # "tab" =>
    \A i \in DOMAIN v : i < j => T!Pos(v[i].id) < T!Pos(v[j].id)
OlderBefore(v) ==
  \A f \in answers : f.kind = "older" =>
    \A x \in Ids(f.list), j \in DOMAIN v : by[v[j].id] # "tab" => T!Pos(x) < T!Pos(v[j].id)
InTime ==
  /\ \A f \in answers : Increasing(f.list)
  /\ \A f, g \in answers : f.kind = "older" /\ g.kind = "older" => f = g
  /\ spliced \/ (ListInTime(view) /\ OlderBefore(view))

\* A reaction that no event is on its way for is on screen as it is stored, or
\* as the request in flight will leave it.
Changes(u, m) == {e \in OnTheirWay : e.kind # "created" /\ e.user = u /\ e.id = m}
Reaction(u, m) ==
  <<u, m>> \notin skewed =>
    /\ \A e \in Changes(u, m) : e.kind = "added" <=> <<u, m>> \in reacts
    /\ u = "me" /\ toggle.id = m => (toggle.on <=> <<u, m>> \notin reacts)
    /\ u = "me" \/ Changes(u, m) = {} =>
         \A i \in DOMAIN view : view[i].id = m =>
           (u \in view[i].reacts <=> IF u = "me" /\ toggle.id = m THEN <<u, m>> \notin reacts
                                                                  ELSE <<u, m>> \in reacts)
ReactionsTrue == \A m \in InTable \ deleted, u \in T!Users : Reaction(u, m)

TimelineInv == TimelineTypes /\ TableHas /\ NoHoles /\ InTime /\ ReactionsTrue

-----------------------------------------------------------------------------
LEMMA TimelineCardinality == \A X : T!Cardinality(X) = Cardinality(X)
BY DEF T!Cardinality, Cardinality

\* The members of a finite set in an order: each once, from first to last.
LEMMA InOrder ==
  ASSUME NEW D, IsFiniteSet(D), NEW order,
         \A x, y \in D : <<x, y>> \in order \/ <<y, x>> \in order,
         \A x, y \in D : <<x, y>> \in order /\ <<y, x>> \in order => x = y,
         \A x, y, z \in D : <<x, y>> \in order /\ <<y, z>> \in order => <<x, z>> \in order
  PROVE  LET o == T!Ordered(D, order)
             n == Cardinality(D)
         IN  /\ n \in Nat /\ DOMAIN o = 1 .. n /\ o \in [1 .. n -> D]
             /\ \A x \in D : \E k \in 1 .. n : o[k] = x
             /\ \A j, k \in 1 .. n : j < k => o[j] # o[k] /\ <<o[j], o[k]>> \in order
<1> DEFINE o == T!Ordered(D, order)
           n == Cardinality(D)
           Upto(x) == {y \in D : <<y, x>> \in order}
           rank(x) == Cardinality(Upto(x))
           f == [x \in D |-> rank(x)]
<1>1. n \in Nat
  BY FS_CardinalityType
<1>2. \A x \in D : IsFiniteSet(Upto(x)) /\ rank(x) \in 1 .. n
  <2> TAKE x \in D
  <2>1. Upto(x) \in SUBSET D /\ x \in Upto(x)
    OBVIOUS
  <2> HIDE DEF Upto
  <2>2. IsFiniteSet(Upto(x)) /\ rank(x) <= n /\ rank(x) \in Nat
    BY <2>1, FS_Subset, FS_CardinalityType
  <2>3. rank(x) # 0
    BY <2>1, <2>2, FS_EmptySet
  <2> QED BY <1>1, <2>2, <2>3
<1>3. ASSUME NEW x \in D, NEW y \in D, x # y, <<x, y>> \in order
      PROVE  rank(x) < rank(y)
  <2>1. Upto(x) \in SUBSET Upto(y) /\ y \in Upto(y) /\ y \notin Upto(x)
    BY <1>3
  <2> HIDE DEF Upto
  <2>2. rank(x) <= rank(y) /\ rank(x) # rank(y)
    BY <1>2, <2>1, FS_Subset
  <2>3. rank(x) \in 1 .. n /\ rank(y) \in 1 .. n
    BY <1>2
  <2> HIDE DEF rank
  <2> QED BY <1>1, <2>2, <2>3
<1> HIDE DEF Upto
<1>4. \A x, y \in D : rank(x) = rank(y) => x = y
  <2> SUFFICES ASSUME NEW x \in D, NEW y \in D, rank(x) = rank(y), x # y
               PROVE  FALSE
    OBVIOUS
  <2>1. rank(x) \in 1 .. n /\ rank(y) \in 1 .. n
    BY <1>2
  <2>2. rank(x) < rank(y) \/ rank(y) < rank(x)
    BY <1>3
  <2> HIDE DEF rank
  <2> QED BY <1>1, <2>1, <2>2
<1> HIDE DEF rank
<1>5. f \in Surjection(D, 1 .. n)
  <2>1. f \in Injection(D, 1 .. n)
    BY <1>2, <1>4 DEF Injection, IsInjective
  <2>2. IsFiniteSet(1 .. n) /\ Cardinality(1 .. n) = n
    BY <1>1, FS_Interval
  <2> HIDE DEF f
  <2> QED BY <2>1, <2>2, FS_Injection
<1>6. \A k \in 1 .. n : \E x \in D : rank(x) = k
  BY <1>5 DEF Surjection
<1>7. o = [k \in 1 .. n |-> CHOOSE x \in D : rank(x) = k]
  <2>1. \A x : rank(x) = T!Cardinality(Upto(x))
    BY TimelineCardinality DEF rank
  <2>2. o = [k \in 1 .. T!Cardinality(D) |-> CHOOSE x \in D : T!Cardinality(Upto(x)) = k]
    BY DEF T!Ordered, Upto
  <2>3. T!Cardinality(D) = n
    BY TimelineCardinality
  <2> QED BY <2>1, <2>2, <2>3
<1> HIDE DEF o, f
<1>8. \A k \in 1 .. n : o[k] \in D /\ rank(o[k]) = k
  BY <1>6, <1>7
<1>9. \A x \in D : o[rank(x)] = x
  BY <1>2, <1>4, <1>8
<1>10. ASSUME NEW j \in 1 .. n, NEW k \in 1 .. n, j < k
       PROVE  o[j] # o[k] /\ <<o[j], o[k]>> \in order
  <2>1. o[j] # o[k]
    BY <1>8, <1>10
  <2>2. <<o[k], o[j]>> \in order => k < j
    BY <1>3, <1>8, <2>1
  <2> QED BY <1>8, <1>10, <2>1, <2>2
<1> QED BY <1>1, <1>2, <1>7, <1>8, <1>9, <1>10 DEF o

\* created_at orders the table.
LEMMA TableOrdered ==
  ASSUME TimelineTypes, TableHas
  PROVE  /\ IsFiniteSet(InTable) /\ InTable \subseteq Msgs
         /\ \A m \in InTable : T!Pos(m) \in Nat /\ T!Pos(m) \in DOMAIN stored /\ stored[T!Pos(m)] = m
         /\ \A m, x \in InTable : T!Pos(m) = T!Pos(x) => m = x
         /\ \A i \in DOMAIN stored : stored[i] \in InTable /\ T!Pos(stored[i]) = i
<1>1. stored \in Seq(Msgs) /\ DOMAIN stored = 1 .. Len(stored) /\ Len(stored) \in Nat
  BY DEF TimelineTypes
<1>2. \A m \in InTable : T!Pos(m) \in DOMAIN stored /\ stored[T!Pos(m)] = m
  BY DEF InTable, T!Range, T!Pos
<1>3. \A i \in DOMAIN stored : stored[i] \in InTable
  BY DEF InTable, T!Range
<1>4. \A i \in DOMAIN stored : T!Pos(stored[i]) = i
  BY <1>2, <1>3 DEF TableHas
<1>5. IsFiniteSet(InTable)
  <2> DEFINE f == [i \in DOMAIN stored |-> stored[i]]
  <2>1. f \in Surjection(DOMAIN stored, InTable)
    BY <1>3 DEF Surjection, InTable, T!Range
  <2>2. IsFiniteSet(DOMAIN stored)
    BY <1>1, FS_Interval
  <2> HIDE DEF f
  <2> QED BY <2>1, <2>2, FS_Surjection
<1>6. InTable \subseteq Msgs
  BY <1>1 DEF InTable, T!Range
<1>7. \A m \in InTable : T!Pos(m) \in Nat
  BY <1>1, <1>2
<1> QED BY <1>2, <1>3, <1>4, <1>5, <1>6, <1>7

\* at: the positions in s of the entries of r.
Picked(r, s, I, at) ==
  /\ at \in [DOMAIN r -> I]
  /\ \A k \in DOMAIN r : r[k] = s[at[k]]
  /\ \A i \in I : \E k \in DOMAIN r : at[k] = i

LEMMA KeptPicks ==
  ASSUME NEW s \in Seq(Entries), NEW I \in SUBSET DOMAIN s
  PROVE  /\ T!Kept(s, I) \in Seq(Entries)
         /\ \E at : /\ Picked(T!Kept(s, I), s, I, at)
                    /\ \A j, k \in DOMAIN T!Kept(s, I) : j < k => at[j] < at[k]
<1> DEFINE order == {p \in I \X I : p[1] <= p[2]}
           at == T!Ordered(I, order)
           r == T!Kept(s, I)
           n == Cardinality(I)
<1>1. DOMAIN s = 1 .. Len(s) /\ Len(s) \in Nat /\ \A i \in DOMAIN s : s[i] \in Entries /\ i \in Nat
  OBVIOUS
<1>2. IsFiniteSet(I) /\ \A i \in I : i \in Nat
  <2>1. IsFiniteSet(DOMAIN s)
    BY <1>1, FS_Interval
  <2> QED BY <1>1, <2>1, FS_Subset
<1>3. \A i, j \in I : <<i, j>> \in order <=> i <= j
  OBVIOUS
<1>4. r = [k \in DOMAIN at |-> s[at[k]]]
  BY DEF T!Kept
<1> HIDE DEF order, at, r
<1>5. /\ \A x, y \in I : <<x, y>> \in order \/ <<y, x>> \in order
      /\ \A x, y \in I : <<x, y>> \in order /\ <<y, x>> \in order => x = y
      /\ \A x, y, z \in I : <<x, y>> \in order /\ <<y, z>> \in order => <<x, z>> \in order
  BY <1>2, <1>3
<1>6. /\ n \in Nat /\ DOMAIN at = 1 .. n /\ at \in [1 .. n -> I]
      /\ \A x \in I : \E k \in 1 .. n : at[k] = x
      /\ \A j, k \in 1 .. n : j < k => at[j] # at[k] /\ <<at[j], at[k]>> \in order
  BY <1>2, <1>5, InOrder DEF at
<1>7. \A j, k \in 1 .. n : j < k => at[j] < at[k]
  <2> SUFFICES ASSUME NEW j \in 1 .. n, NEW k \in 1 .. n, j < k
               PROVE  at[j] < at[k]
    OBVIOUS
  <2>1. at[j] \in I /\ at[k] \in I /\ at[j] # at[k] /\ <<at[j], at[k]>> \in order
    BY <1>6
  <2>2. at[j] <= at[k] /\ at[j] \in Nat /\ at[k] \in Nat
    BY <1>2, <1>3, <2>1
  <2> QED BY <2>1, <2>2
<1>8. DOMAIN r = 1 .. n /\ \A k \in 1 .. n : r[k] = s[at[k]] /\ r[k] \in Entries
  BY <1>1, <1>4, <1>6
<1>9. r \in Seq(Entries)
  BY <1>4, <1>6, <1>8
<1> QED BY <1>6, <1>7, <1>8, <1>9 DEF r, Picked

LEMMA SortedPicks ==
  ASSUME TimelineTypes, TableHas, NEW s \in Seq(Entries), Ids(s) \subseteq InTable
  PROVE  /\ T!Sorted(s) \in Seq(Entries)
         /\ \E at : /\ Picked(T!Sorted(s), s, DOMAIN s, at)
                    /\ \A j, k \in DOMAIN T!Sorted(s) : j < k =>
                         /\ at[j] # at[k]
                         /\ T!Pos(s[at[j]].id) <= T!Pos(s[at[k]].id)
<1> DEFINE I == DOMAIN s
           q(i) == T!Pos(s[i].id)
           order == {p \in I \X I : \/ q(p[1]) < q(p[2])
                                    \/ q(p[1]) = q(p[2]) /\ p[1] <= p[2]}
           at == T!Ordered(I, order)
           r == T!Sorted(s)
           n == Cardinality(I)
<1>1. DOMAIN s = 1 .. Len(s) /\ Len(s) \in Nat /\ \A i \in DOMAIN s : s[i] \in Entries /\ i \in Nat
  OBVIOUS
<1>2. \A i \in I : s[i].id \in InTable
  BY DEF Ids, T!Range
<1>3. \A i \in I : q(i) \in Nat
  BY <1>2, TableOrdered
<1>4. IsFiniteSet(I)
  BY <1>1, FS_Interval
<1>5. r = [k \in DOMAIN at |-> s[at[k]]]
  BY DEF T!Sorted
<1> HIDE DEF q
<1>6. \A i, j \in I : <<i, j>> \in order <=> q(i) < q(j) \/ (q(i) = q(j) /\ i <= j)
  OBVIOUS
<1>7. \A i \in I : i \in Nat
  BY <1>1
<1> HIDE DEF order, at, r, I
<1>8. /\ \A x, y \in I : <<x, y>> \in order \/ <<y, x>> \in order
      /\ \A x, y \in I : <<x, y>> \in order /\ <<y, x>> \in order => x = y
      /\ \A x, y, z \in I : <<x, y>> \in order /\ <<y, z>> \in order => <<x, z>> \in order
  BY <1>3, <1>6, <1>7
<1>9. /\ n \in Nat /\ DOMAIN at = 1 .. n /\ at \in [1 .. n -> I]
      /\ \A x \in I : \E k \in 1 .. n : at[k] = x
      /\ \A j, k \in 1 .. n : j < k => at[j] # at[k] /\ <<at[j], at[k]>> \in order
  BY <1>4, <1>8, InOrder DEF at
<1>10. \A j, k \in 1 .. n : j < k => at[j] # at[k] /\ q(at[j]) <= q(at[k])
  <2> SUFFICES ASSUME NEW j \in 1 .. n, NEW k \in 1 .. n, j < k
               PROVE  at[j] # at[k] /\ q(at[j]) <= q(at[k])
    OBVIOUS
  <2>1. at[j] \in I /\ at[k] \in I /\ at[j] # at[k] /\ <<at[j], at[k]>> \in order
    BY <1>9
  <2>2. q(at[j]) < q(at[k]) \/ q(at[j]) = q(at[k])
    BY <1>6, <2>1
  <2>3. q(at[j]) \in Nat /\ q(at[k]) \in Nat
    BY <1>3, <2>1
  <2> QED BY <2>1, <2>2, <2>3
<1>11. DOMAIN r = 1 .. n /\ \A k \in 1 .. n : r[k] = s[at[k]] /\ r[k] \in Entries
  BY <1>1, <1>5, <1>9 DEF I
<1>12. r \in Seq(Entries)
  BY <1>5, <1>9, <1>11
<1> QED BY <1>9, <1>10, <1>11, <1>12 DEF r, Picked, I, q

\* A page has the newest of D, in their order.
LEMMA NewestFirst ==
  ASSUME TimelineTypes, TableHas, PageSize \in Nat, NEW D \in SUBSET InTable
  PROVE  /\ T!Newest(D) \in Seq(Entries) /\ Ids(T!Newest(D)) \subseteq D
         /\ Increasing(T!Newest(D))
         /\ \A m \in Ids(T!Newest(D)), x \in D :
              T!Pos(m) < T!Pos(x) => x \in Ids(T!Newest(D))
<1> DEFINE Above(m) == {x \in D : T!Pos(x) > T!Pos(m)}
           P == {m \in D : T!Cardinality(Above(m)) < PageSize}
           order == {p \in P \X P : T!Pos(p[1]) <= T!Pos(p[2])}
           o == T!Ordered(P, order)
           r == T!Newest(D)
           n == Cardinality(P)
<1>1. \A m \in D : m \in Msgs /\ T!Pos(m) \in Nat
  BY TableOrdered
<1>2. \A m, x \in D : T!Pos(m) = T!Pos(x) => m = x
  BY TableOrdered
<1>3. IsFiniteSet(D) /\ P \in SUBSET D
  BY TableOrdered, FS_Subset
<1>4. r = [k \in DOMAIN o |-> T!Entry(o[k])]
  BY DEF T!Newest
<1>5. \A m, x \in P : <<m, x>> \in order <=> T!Pos(m) <= T!Pos(x)
  OBVIOUS
<1>6. \A m, x \in D : m \in P /\ T!Pos(m) < T!Pos(x) => x \in P
  <2> SUFFICES ASSUME NEW m \in D, NEW x \in D, m \in P, T!Pos(m) < T!Pos(x)
               PROVE  T!Cardinality(Above(x)) < PageSize
    OBVIOUS
  <2>1. Above(x) \in SUBSET Above(m) /\ Above(m) \in SUBSET D
    BY <1>1
  <2>2. T!Cardinality(Above(m)) < PageSize
    OBVIOUS
  <2> HIDE DEF Above
  <2>3. /\ IsFiniteSet(Above(m)) /\ IsFiniteSet(Above(x))
        /\ Cardinality(Above(x)) <= Cardinality(Above(m))
        /\ Cardinality(Above(x)) \in Nat /\ Cardinality(Above(m)) \in Nat
    BY <1>3, <2>1, FS_Subset, FS_CardinalityType
  <2>4. /\ T!Cardinality(Above(x)) = Cardinality(Above(x))
        /\ T!Cardinality(Above(m)) = Cardinality(Above(m))
    BY TimelineCardinality
  <2> QED BY <2>2, <2>3, <2>4
<1> HIDE DEF P, order, o, r
<1>7. IsFiniteSet(P)
  BY <1>3, FS_Subset
<1>8. /\ \A x, y \in P : <<x, y>> \in order \/ <<y, x>> \in order
      /\ \A x, y \in P : <<x, y>> \in order /\ <<y, x>> \in order => x = y
      /\ \A x, y, z \in P : <<x, y>> \in order /\ <<y, z>> \in order => <<x, z>> \in order
  BY <1>1, <1>2, <1>3, <1>5
<1>9. /\ n \in Nat /\ DOMAIN o = 1 .. n /\ o \in [1 .. n -> P]
      /\ \A x \in P : \E k \in 1 .. n : o[k] = x
      /\ \A j, k \in 1 .. n : j < k => o[j] # o[k] /\ <<o[j], o[k]>> \in order
  BY <1>7, <1>8, InOrder DEF o
<1>10. /\ DOMAIN r = 1 .. n
       /\ \A k \in 1 .. n : r[k] \in Entries /\ r[k].id = o[k]
  <2>1. \A m \in D : T!Entry(m) \in Entries /\ T!Entry(m).id = m
    BY <1>1 DEF T!Entry, Entries
  <2> QED BY <1>3, <1>4, <1>9, <2>1
<1>11. r \in Seq(Entries)
  BY <1>4, <1>9, <1>10
<1>12. Ids(r) = P
  BY <1>9, <1>10 DEF Ids, T!Range
<1>13. Increasing(r)
  <2> SUFFICES ASSUME NEW j \in 1 .. n, NEW k \in 1 .. n, j < k
               PROVE  T!Pos(o[j]) < T!Pos(o[k])
    BY <1>10 DEF Increasing
  <2>1. o[j] \in P /\ o[k] \in P /\ o[j] # o[k] /\ <<o[j], o[k]>> \in order
    BY <1>9
  <2> QED BY <1>1, <1>2, <1>3, <1>5, <2>1
<1> QED BY <1>3, <1>6, <1>11, <1>12, <1>13 DEF r

LEMMA ShownIds == T!Shown = Ids(view)
BY DEF T!Shown, Ids, T!Range

LEMMA Ranges ==
  /\ T!Range(<< >>) = {}
  /\ \A X : \A s \in Seq(X), e \in X : T!Range(Append(s, e)) = T!Range(s) \cup {e}
  /\ \A X : \A s, t \in Seq(X) : T!Range(s \o t) = T!Range(s) \cup T!Range(t)
  /\ \A X : \A s \in Seq(X) : s # << >> =>
       /\ Head(s) \in X /\ Tail(s) \in Seq(X)
       /\ T!Range(s) = {Head(s)} \cup T!Range(Tail(s))
<1>1. T!Range(<< >>) = {}
  BY DEF T!Range
<1>2. ASSUME NEW X, NEW s \in Seq(X), NEW e \in X
      PROVE  T!Range(Append(s, e)) = T!Range(s) \cup {e}
  <2>1. /\ DOMAIN s = 1 .. Len(s) /\ Len(s) \in Nat
        /\ DOMAIN Append(s, e) = 1 .. Len(s) + 1
        /\ \A i \in 1 .. Len(s) : Append(s, e)[i] = s[i]
        /\ Append(s, e)[Len(s) + 1] = e
    OBVIOUS
  <2>2. \A i \in 1 .. Len(s) + 1 : i \in 1 .. Len(s) \/ i = Len(s) + 1
    BY <2>1
  <2>3. \A i \in 1 .. Len(s) : i \in 1 .. Len(s) + 1
    BY <2>1
  <2>4. Len(s) + 1 \in 1 .. Len(s) + 1
    BY <2>1
  <2> DEFINE t == Append(s, e)
  <2> HIDE DEF t
  <2> SUFFICES T!Range(t) = T!Range(s) \cup {e}
    BY DEF t
  <2>5. /\ DOMAIN t = 1 .. Len(s) + 1 /\ \A i \in 1 .. Len(s) : t[i] = s[i]
        /\ t[Len(s) + 1] = e
    BY <2>1 DEF t
  <2>6. T!Range(t) \subseteq T!Range(s) \cup {e}
    BY <2>1, <2>2, <2>5 DEF T!Range
  <2>7. T!Range(s) \cup {e} \subseteq T!Range(t)
    BY <2>1, <2>3, <2>4, <2>5 DEF T!Range
  <2> QED BY <2>6, <2>7
<1>3. ASSUME NEW X, NEW s \in Seq(X), NEW t \in Seq(X)
      PROVE  T!Range(s \o t) = T!Range(s) \cup T!Range(t)
  <2> DEFINE r == s \o t
  <2>1. /\ DOMAIN s = 1 .. Len(s) /\ DOMAIN t = 1 .. Len(t)
        /\ Len(s) \in Nat /\ Len(t) \in Nat /\ DOMAIN r = 1 .. Len(s) + Len(t)
        /\ \A i \in 1 .. Len(s) + Len(t) :
             r[i] = IF i <= Len(s) THEN s[i] ELSE t[i - Len(s)]
    OBVIOUS
  <2> HIDE DEF r
  <2>2. T!Range(r) \subseteq T!Range(s) \cup T!Range(t)
    <3> SUFFICES ASSUME NEW i \in 1 .. Len(s) + Len(t)
                 PROVE  r[i] \in T!Range(s) \cup T!Range(t)
      BY <2>1 DEF T!Range
    <3>1. CASE i <= Len(s)
      <4>1. i \in DOMAIN s /\ r[i] = s[i]
        BY <2>1, <3>1
      <4> QED BY <4>1 DEF T!Range
    <3>2. CASE ~(i <= Len(s))
      <4>1. i - Len(s) \in DOMAIN t /\ r[i] = t[i - Len(s)]
        BY <2>1, <3>2
      <4> QED BY <4>1 DEF T!Range
    <3> QED BY <3>1, <3>2
  <2>3. T!Range(s) \subseteq T!Range(r)
    <3> SUFFICES ASSUME NEW i \in 1 .. Len(s)
                 PROVE  s[i] \in T!Range(r)
      BY <2>1 DEF T!Range
    <3>1. i \in DOMAIN r /\ r[i] = s[i]
      BY <2>1
    <3> QED BY <3>1 DEF T!Range
  <2>4. T!Range(t) \subseteq T!Range(r)
    <3> SUFFICES ASSUME NEW i \in 1 .. Len(t)
                 PROVE  t[i] \in T!Range(r)
      BY <2>1 DEF T!Range
    <3>1. i + Len(s) \in DOMAIN r /\ r[i + Len(s)] = t[i]
      BY <2>1
    <3> QED BY <3>1 DEF T!Range
  <2> QED BY <2>2, <2>3, <2>4 DEF r
<1>4. ASSUME NEW X, NEW s \in Seq(X), s # << >>
      PROVE  /\ Head(s) \in X /\ Tail(s) \in Seq(X)
             /\ T!Range(s) = {Head(s)} \cup T!Range(Tail(s))
  <2> DEFINE t == Tail(s)
  <2>1. /\ DOMAIN s = 1 .. Len(s) /\ Len(s) \in Nat \ {0} /\ Head(s) = s[1] /\ Head(s) \in X
        /\ t \in Seq(X) /\ DOMAIN t = 1 .. Len(s) - 1
        /\ \A i \in 1 .. Len(s) - 1 : t[i] = s[i + 1]
    BY <1>4
  <2> HIDE DEF t
  <2>2. T!Range(s) \subseteq {Head(s)} \cup T!Range(t)
    <3> SUFFICES ASSUME NEW i \in 1 .. Len(s)
                 PROVE  s[i] \in {Head(s)} \cup T!Range(t)
      BY <2>1 DEF T!Range
    <3>1. CASE i = 1
      BY <2>1, <3>1
    <3>2. CASE i # 1
      <4>1. i - 1 \in DOMAIN t /\ t[i - 1] = s[i]
        BY <2>1, <3>2
      <4> QED BY <4>1 DEF T!Range
    <3> QED BY <3>1, <3>2
  <2>3. T!Range(t) \subseteq T!Range(s)
    <3> SUFFICES ASSUME NEW i \in 1 .. Len(s) - 1
                 PROVE  t[i] \in T!Range(s)
      BY <2>1 DEF T!Range
    <3>1. i + 1 \in DOMAIN s /\ t[i] = s[i + 1]
      BY <2>1
    <3> QED BY <3>1 DEF T!Range
  <2>4. Head(s) \in T!Range(s)
    <3>1. 1 \in DOMAIN s
      BY <2>1
    <3> QED BY <2>1, <3>1 DEF T!Range
  <2> QED BY <2>1, <2>2, <2>3, <2>4 DEF t
<1> QED BY <1>1, <1>2, <1>3, <1>4

\* What the list is when an answer has come.
LEMMA Merged ==
  ASSUME TimelineTypes, TableHas, NEW es \in Seq(Entries), Ids(es) \subseteq InTable
  PROVE  /\ T!Merge(es) \in Seq(Entries)
         /\ Ids(T!Merge(es)) = T!Shown \cup Ids(es)
         /\ T!Range(T!Merge(es)) \subseteq T!Range(view) \cup T!Range(es)
<1> DEFINE I == {i \in DOMAIN es : es[i].id \notin T!Shown}
           fresh == T!Kept(es, I)
           s == view \o fresh
<1>1. PICK at : Picked(fresh, es, I, at)
  BY KeptPicks
<1>2. fresh \in Seq(Entries) /\ view \in Seq(Entries)
  BY KeptPicks DEF TimelineTypes
<1>3. T!Merge(es) = IF fresh = << >> THEN view ELSE T!Sorted(s)
  BY DEF T!Merge
<1>4. I \subseteq DOMAIN es /\ \A i \in DOMAIN es : i \in I <=> es[i].id \notin T!Shown
  OBVIOUS
<1> HIDE DEF fresh, I
<1>5. T!Range(fresh) \subseteq T!Range(es) /\ \A i \in I : es[i] \in T!Range(fresh)
  BY <1>1, <1>4 DEF Picked, T!Range
<1>6. s \in Seq(Entries) /\ T!Range(s) = T!Range(view) \cup T!Range(fresh)
  BY <1>2, Ranges
<1>7. Ids(s) = T!Shown \cup Ids(es)
  <2>1. Ids(s) = T!Shown \cup Ids(fresh)
    BY <1>6, ShownIds DEF Ids
  <2>2. Ids(fresh) \subseteq Ids(es)
    BY <1>5 DEF Ids
  <2>3. \A i \in DOMAIN es : es[i].id \in T!Shown \cup Ids(fresh)
    BY <1>4, <1>5 DEF Ids
  <2>4. Ids(es) \subseteq T!Shown \cup Ids(fresh)
    BY <2>3 DEF Ids, T!Range
  <2> QED BY <2>1, <2>2, <2>4
<1> HIDE DEF s
<1>8. CASE fresh = << >>
  <2>1. T!Range(fresh) = {} /\ T!Merge(es) = view
    BY <1>3, <1>8, Ranges
  <2>2. Ids(s) = Ids(view)
    BY <1>6, <2>1 DEF Ids
  <2> QED BY <1>2, <1>7, <2>1, <2>2
<1>9. CASE fresh # << >>
  <2>1. T!Merge(es) = T!Sorted(s)
    BY <1>3, <1>9
  <2>2. Ids(s) \subseteq InTable
    BY <1>7 DEF TableHas
  <2>3. PICK a : Picked(T!Sorted(s), s, DOMAIN s, a)
    BY <1>6, <2>2, SortedPicks
  <2>4. T!Sorted(s) \in Seq(Entries)
    BY <1>6, <2>2, SortedPicks
  <2>5. T!Range(T!Sorted(s)) = T!Range(s)
    <3> DEFINE r == T!Sorted(s)
    <3>1. Picked(r, s, DOMAIN s, a)
      BY <2>3
    <3> HIDE DEF r
    <3>2. T!Range(r) \subseteq T!Range(s)
      BY <3>1 DEF Picked, T!Range
    <3>3. \A i \in DOMAIN s : s[i] \in T!Range(r)
      BY <3>1 DEF Picked, T!Range
    <3>4. T!Range(s) \subseteq T!Range(r)
      BY <3>3 DEF T!Range
    <3> QED BY <3>2, <3>4 DEF r
  <2>6. Ids(T!Merge(es)) = Ids(s)
    BY <2>1, <2>5 DEF Ids
  <2>7. T!Range(T!Merge(es)) = T!Range(view) \cup T!Range(fresh)
    BY <1>6, <2>1, <2>5
  <2> QED BY <1>5, <1>7, <2>1, <2>4, <2>6, <2>7
<1> QED BY <1>8, <1>9

LEMMA Inserted ==
  ASSUME TimelineTypes, TableHas, NEW f \in answers
  PROVE  /\ T!Insert(f) \in Seq(Entries)
         /\ Ids(T!Insert(f)) = Ids(f.list) \cup (IF f.kind = "page" THEN {} ELSE T!Shown)
         /\ T!Range(T!Insert(f)) \subseteq T!Range(view) \cup T!Range(f.list)
<1>1. f.list \in Seq(Entries) /\ view \in Seq(Entries) /\ Ids(f.list) \subseteq InTable
      /\ f.kind \in {"page", "older", "resync", "message"}
  BY DEF TimelineTypes, TableHas, Answered
<1>2. CASE f.kind = "page"
  BY <1>1, <1>2 DEF T!Insert
<1>3. CASE f.kind = "older"
  <2>1. T!Insert(f) = f.list \o view
    BY <1>3 DEF T!Insert
  <2>2. f.list \o view \in Seq(Entries)
        /\ T!Range(f.list \o view) = T!Range(f.list) \cup T!Range(view)
    BY <1>1, Ranges
  <2>3. Ids(f.list \o view) = Ids(f.list) \cup Ids(view)
    BY <2>2 DEF Ids
  <2> QED BY <1>3, <2>1, <2>2, <2>3, ShownIds
<1>4. CASE f.kind \in {"resync", "message"}
  <2>1. T!Insert(f) = T!Merge(f.list)
    BY <1>4 DEF T!Insert
  <2> QED BY <1>1, <1>4, <2>1, Merged
<1> QED BY <1>1, <1>2, <1>3, <1>4

LEMMA MarkedIds ==
  ASSUME NEW s \in Seq(Entries), NEW m, NEW u \in T!Users, NEW on \in BOOLEAN
  PROVE  LET r == T!Mark(s, m, u, on)
         IN  /\ r \in Seq(Entries) /\ Ids(r) = Ids(s) /\ DOMAIN r = DOMAIN s
             /\ \A i \in DOMAIN s : r[i].id = s[i].id /\ (s[i].id # m => r[i] = s[i])
<1> DEFINE r == T!Mark(s, m, u, on)
<1>1. DOMAIN s = 1 .. Len(s) /\ Len(s) \in Nat /\ \A i \in DOMAIN s : s[i] \in Entries
  OBVIOUS
<1>2. r = [i \in DOMAIN s |-> IF s[i].id # m THEN s[i]
             ELSE [s[i] EXCEPT !.reacts = IF on THEN s[i].reacts \cup {u} ELSE s[i].reacts \ {u}]]
  BY DEF T!Mark
<1> HIDE DEF r
<1>3. ASSUME NEW i \in DOMAIN s
      PROVE  r[i] \in Entries /\ r[i].id = s[i].id /\ (s[i].id # m => r[i] = s[i])
  <2>1. s[i] \in Entries
    BY <1>1
  <2>2. CASE s[i].id # m
    BY <1>2, <2>1, <2>2
  <2>3. CASE s[i].id = m
    <3>1. r[i] = [s[i] EXCEPT !.reacts = IF on THEN s[i].reacts \cup {u} ELSE s[i].reacts \ {u}]
      BY <1>2, <2>3
    <3> QED BY <2>1, <2>3, <3>1 DEF Entries
  <2> QED BY <2>2, <2>3
<1>4. r \in Seq(Entries) /\ DOMAIN r = DOMAIN s
  BY <1>1, <1>2, <1>3
<1>5. Ids(r) = Ids(s)
  BY <1>3, <1>4 DEF Ids, T!Range
<1> QED BY <1>3, <1>4, <1>5 DEF r

\* What an entry shows when a reaction of it is marked.
LEMMA Marked ==
  ASSUME NEW s \in Seq(Entries), NEW m, NEW u \in T!Users, NEW on \in BOOLEAN,
         NEW i \in DOMAIN s, s[i].id = m
  PROVE  /\ u \in T!Mark(s, m, u, on)[i].reacts <=> on
         /\ \A v : v # u => (v \in T!Mark(s, m, u, on)[i].reacts <=> v \in s[i].reacts)
<1>1. s[i] \in Entries
  OBVIOUS
<1>2. T!Mark(s, m, u, on)[i]
        = [s[i] EXCEPT !.reacts = IF on THEN s[i].reacts \cup {u} ELSE s[i].reacts \ {u}]
  BY DEF T!Mark
<1>3. T!Mark(s, m, u, on)[i].reacts = IF on THEN s[i].reacts \cup {u} ELSE s[i].reacts \ {u}
  BY <1>1, <1>2 DEF Entries
<1> QED BY <1>3

-----------------------------------------------------------------------------
\* What the table has and the tab hears of, in a step that leaves the table.
LEMMA TableStays ==
  ASSUME TableHas, UNCHANGED <<stored, by>>,
         OnTheirWay' \subseteq OnTheirWay, Ids(view') \subseteq InTable,
         \A f \in answers' : f \in answers \/ Ids(f.list) \subseteq InTable,
         sent' \subseteq sent, toggle' \in {toggle, T!NoToggle}, IF inRoom' THEN missed' = << >> ELSE inbox' = << >>
  PROVE  TableHas'
<1>1. InTable' = InTable
  BY DEF InTable
<1>2. T!Shown' = Ids(view')
  BY DEF T!Shown, Ids, T!Range
<1>3. \A e \in OnTheirWay' : e.id \in InTable' /\ e.user = T!UserOf(e.from)
  BY <1>1 DEF TableHas
<1>4. \A f \in answers' : Ids(f.list) \subseteq InTable'
  BY <1>1 DEF TableHas
<1>5. T!NoToggle' = T!NoToggle
  BY DEF T!NoToggle
<1> QED BY <1>1, <1>2, <1>3, <1>4, <1>5 DEF TableHas

LEMMA NewestAnswer ==
  ASSUME TimelineTypes, TableHas, PageSize \in Nat
  PROVE  /\ T!Live = InTable \ deleted
         /\ T!NewestPage \in Seq(Entries) /\ Ids(T!NewestPage) \subseteq InTable \ deleted
         /\ Increasing(T!NewestPage)
         /\ \A m \in Ids(T!NewestPage), x \in InTable \ deleted :
              T!Pos(m) < T!Pos(x) => x \in Ids(T!NewestPage)
<1>1. T!Live = InTable \ deleted
  BY DEF T!Live, InTable
<1>2. InTable \ deleted \in SUBSET InTable
  OBVIOUS
<1> QED BY <1>1, <1>2, NewestFirst DEF T!NewestPage

LEMMA OlderAnswer ==
  ASSUME TimelineTypes, TableHas, PageSize \in Nat, NEW a \in InTable
  PROVE  /\ T!PageBefore(a) \in Seq(Entries) /\ Ids(T!PageBefore(a)) \subseteq InTable \ deleted
         /\ \A m \in Ids(T!PageBefore(a)) : T!Pos(m) < T!Pos(a)
         /\ Increasing(T!PageBefore(a))
         /\ \A m \in Ids(T!PageBefore(a)), x \in InTable \ deleted :
              T!Pos(m) < T!Pos(x) /\ T!Pos(x) < T!Pos(a) => x \in Ids(T!PageBefore(a))
<1> DEFINE D == {x \in T!Live : T!Pos(x) < T!Pos(a)}
<1>1. T!Live = InTable \ deleted
  BY DEF T!Live, InTable
<1>2. D \in SUBSET InTable /\ \A x \in InTable : x \in D <=> x \notin deleted /\ T!Pos(x) < T!Pos(a)
  BY <1>1
<1>3. T!PageBefore(a) = T!Newest(D)
  BY DEF T!PageBefore
<1> HIDE DEF D
<1>4. D \subseteq InTable \ deleted
  BY <1>2
<1> DEFINE r == T!Newest(D)
<1>5. /\ r \in Seq(Entries) /\ Ids(r) \subseteq D /\ Increasing(r)
      /\ \A m \in Ids(r), x \in D : T!Pos(m) < T!Pos(x) => x \in Ids(r)
  BY <1>2, NewestFirst
<1> HIDE DEF r
<1>6. Ids(r) \subseteq InTable \ deleted /\ \A m \in Ids(r) : T!Pos(m) < T!Pos(a)
  BY <1>2, <1>4, <1>5
<1>7. \A m \in Ids(r), x \in InTable \ deleted :
        T!Pos(m) < T!Pos(x) /\ T!Pos(x) < T!Pos(a) => x \in Ids(r)
  BY <1>2, <1>5
<1> QED BY <1>3, <1>5, <1>6, <1>7 DEF r

\* The connection.
LEMMA ConnectionTypes ==
  ASSUME TimelineTypes, TableHas, PageSize \in Nat,
         T!JoinRoom \/ T!LeaveRoom \/ (\E e \in outbox : T!Publish(e)) \/ T!Receive
  PROVE  TimelineTypes' /\ TableHas'
<1>1. /\ stored \in Seq(Msgs) /\ outbox \subseteq Events /\ inbox \in Seq(Events) /\ missed \in Seq(Events)
      /\ view \in Seq(Entries) /\ answers \subseteq Answered
      /\ Ids(view) \subseteq InTable /\ \A f \in answers : Ids(f.list) \subseteq InTable
      /\ IF inRoom THEN missed = << >> ELSE inbox = << >>
  BY ShownIds DEF TimelineTypes, TableHas
<1>2. UNCHANGED <<stored, by, deleted, reacts, sent, toggle>>
  BY DEF T!JoinRoom, T!LeaveRoom, T!Publish, T!Receive, T!serverVars
<1>3. CASE T!JoinRoom
  <2>1. /\ ~inRoom /\ inRoom' = TRUE /\ missed' = << >>
        /\ inbox' = missed \/ inbox' = inbox
        /\ answers' = answers \/ answers' = answers \cup {[kind |-> "page", list |-> T!NewestPage]}
        /\ UNCHANGED <<outbox, view, spliced>>
    BY <1>3 DEF T!JoinRoom, T!Ask, T!serverVars
  <2>2. [kind |-> "page", list |-> T!NewestPage] \in Answered /\ Ids(T!NewestPage) \subseteq InTable
    BY NewestAnswer DEF Answered
  <2>3. T!Range(missed') = {} /\ T!Range(inbox') \subseteq T!Range(inbox) \cup T!Range(missed)
    BY <2>1, Ranges
  <2>4. OnTheirWay' \subseteq OnTheirWay
    BY <2>1, <2>3 DEF OnTheirWay
  <2>5. \A f \in answers' : f \in Answered /\ (f \in answers \/ Ids(f.list) \subseteq InTable)
    BY <1>1, <2>1, <2>2
  <2>6. TableHas'
    BY <1>1, <1>2, <2>1, <2>4, <2>5, TableStays
  <2>7. missed' \in Seq(Events) /\ inbox' \in Seq(Events)
    BY <1>1, <2>1
  <2> QED BY <1>2, <2>1, <2>5, <2>6, <2>7 DEF TimelineTypes
<1>4. CASE T!LeaveRoom
  <2>1. /\ inRoom /\ inRoom' = FALSE /\ missed' = inbox /\ inbox' = << >>
        /\ UNCHANGED <<outbox, view, spliced, answers>>
    BY <1>4 DEF T!LeaveRoom, T!serverVars, T!historyVars
  <2>2. OnTheirWay' \subseteq OnTheirWay
    BY <2>1, Ranges DEF OnTheirWay
  <2>3. TableHas'
    BY <1>1, <1>2, <2>1, <2>2, TableStays
  <2> QED BY <1>1, <1>2, <2>1, <2>3 DEF TimelineTypes
<1>5. CASE \E e \in outbox : T!Publish(e)
  <2>1. PICK e \in outbox : T!Publish(e)
    BY <1>5
  <2>2. /\ outbox' = outbox \ {e} /\ UNCHANGED <<inRoom, view, spliced, answers>>
        /\ IF inRoom THEN inbox' = Append(inbox, e) /\ missed' = missed
                     ELSE missed' = Append(missed, e) /\ inbox' = inbox
    BY <2>1 DEF T!Publish, T!historyVars
  <2>3. e \in Events
    BY <1>1
  <2>4. T!Range(inbox') \cup T!Range(missed') = T!Range(inbox) \cup T!Range(missed) \cup {e}
    <3>1. CASE inRoom
      <4>1. inbox' = Append(inbox, e) /\ missed' = missed
        BY <2>2, <3>1
      <4>2. T!Range(Append(inbox, e)) = T!Range(inbox) \cup {e}
        BY <1>1, <2>3, Ranges
      <4> QED BY <4>1, <4>2
    <3>2. CASE ~inRoom
      <4>1. missed' = Append(missed, e) /\ inbox' = inbox
        BY <2>2, <3>2
      <4>2. T!Range(Append(missed, e)) = T!Range(missed) \cup {e}
        BY <1>1, <2>3, Ranges
      <4> QED BY <4>1, <4>2
    <3> QED BY <3>1, <3>2
  <2>5. OnTheirWay' \subseteq OnTheirWay
    BY <2>2, <2>4 DEF OnTheirWay
  <2>6. TableHas'
    BY <1>1, <1>2, <2>2, <2>5, TableStays
  <2>7. inbox' \in Seq(Events) /\ missed' \in Seq(Events)
    <3>1. Append(inbox, e) \in Seq(Events) /\ Append(missed, e) \in Seq(Events)
      BY <1>1, <2>3
    <3> QED BY <1>1, <2>2, <3>1
  <2> QED BY <1>1, <1>2, <2>2, <2>6, <2>7 DEF TimelineTypes
<1>6. CASE T!Receive
  <2> DEFINE e == Head(inbox)
  <2>1. /\ inbox # << >> /\ inbox' = Tail(inbox)
        /\ UNCHANGED <<outbox, missed, inRoom, spliced>>
        /\ \/ UNCHANGED <<view, answers>>
           \/ answers' = answers \cup {[kind |-> "message", list |-> <<T!Entry(e.id)>>]} /\ view' = view
           \/ view' = T!Mark(view, e.id, e.user, e.kind = "added") /\ answers' = answers
    BY <1>6 DEF T!Receive, T!Ask, T!serverVars
  <2>2. /\ e \in Events /\ Tail(inbox) \in Seq(Events)
        /\ T!Range(inbox) = {e} \cup T!Range(Tail(inbox))
    BY <1>1, <2>1, Ranges
  <2>3. e \in OnTheirWay /\ OnTheirWay' \subseteq OnTheirWay
    BY <2>1, <2>2 DEF OnTheirWay
  <2>4. e.id \in InTable /\ e.id \in Msgs /\ e.user \in T!Users
    BY <2>2, <2>3 DEF TableHas, Events
  <2> DEFINE l == <<T!Entry(e.id)>>
  <2>5. l \in Seq(Entries) /\ Ids(l) = {e.id}
    <3>1. T!Entry(e.id) \in Entries /\ T!Entry(e.id).id = e.id
      BY <2>4 DEF T!Entry, Entries
    <3>2. l \in Seq(Entries) /\ T!Range(l) = {T!Entry(e.id)}
      BY <3>1 DEF T!Range
    <3> QED BY <3>1, <3>2 DEF Ids
  <2>6. [kind |-> "message", list |-> l] \in Answered
    BY <2>5 DEF Answered
  <2> DEFINE v == T!Mark(view, e.id, e.user, e.kind = "added")
  <2>7. v \in Seq(Entries) /\ Ids(v) = Ids(view)
    <3> DEFINE on == e.kind = "added"
    <3>1. on \in BOOLEAN /\ v = T!Mark(view, e.id, e.user, on)
      OBVIOUS
    <3> HIDE DEF on, v, e
    <3>2. /\ T!Mark(view, e.id, e.user, on) \in Seq(Entries)
          /\ Ids(T!Mark(view, e.id, e.user, on)) = Ids(view)
      BY <1>1, <2>4, <3>1, MarkedIds
    <3> QED BY <3>1, <3>2
  <2> HIDE DEF l, v
  <2>8. /\ answers' = answers \/ answers' = answers \cup {[kind |-> "message", list |-> l]}
        /\ view' = view \/ view' = v
    BY <2>1 DEF l, v
  <2> HIDE DEF e
  <2>9. \A f \in answers' : f \in Answered /\ (f \in answers \/ Ids(f.list) \subseteq InTable)
    BY <1>1, <2>4, <2>5, <2>6, <2>8
  <2>10. view' \in Seq(Entries) /\ Ids(view') \subseteq InTable
    BY <1>1, <2>7, <2>8
  <2>11. IF inRoom' THEN missed' = << >> ELSE inbox' = << >>
    BY <1>1, <2>1
  <2>12. TableHas'
    BY <1>2, <2>3, <2>9, <2>10, <2>11, TableStays
  <2> QED BY <1>1, <1>2, <2>1, <2>2, <2>9, <2>10, <2>12 DEF TimelineTypes
<1> QED BY <1>3, <1>4, <1>5, <1>6

\* The requests for messages and their answers.
LEMMA FetchTypes ==
  ASSUME TimelineTypes, TableHas, PageSize \in Nat,
         \/ T!Reload \/ T!Resync \/ T!LoadMore
         \/ \E f \in answers : T!Apply(f) \/ T!FetchFails(f)
  PROVE  TimelineTypes' /\ TableHas'
<1>1. /\ stored \in Seq(Msgs) /\ outbox \subseteq Events /\ inbox \in Seq(Events) /\ missed \in Seq(Events)
      /\ view \in Seq(Entries) /\ answers \subseteq Answered
      /\ Ids(view) \subseteq InTable /\ \A f \in answers : Ids(f.list) \subseteq InTable
      /\ IF inRoom THEN missed = << >> ELSE inbox = << >>
  BY ShownIds DEF TimelineTypes, TableHas
<1>2. UNCHANGED <<stored, by, deleted, reacts, outbox>>
  BY DEF T!Reload, T!Resync, T!LoadMore, T!Apply, T!FetchFails, T!serverVars
<1>3. CASE T!Reload
  <2>1. /\ inRoom' = FALSE /\ inbox' = << >> /\ missed' = << >> /\ view' = << >>
        /\ answers' = {[kind |-> "page", list |-> T!NewestPage]}
        /\ sent' = {} /\ toggle' = T!NoToggle /\ spliced' = FALSE
    BY <1>3 DEF T!Reload
  <2>2. [kind |-> "page", list |-> T!NewestPage] \in Answered /\ Ids(T!NewestPage) \subseteq InTable
    BY NewestAnswer DEF Answered
  <2>3. OnTheirWay' \subseteq OnTheirWay
    BY <1>2, <2>1, Ranges DEF OnTheirWay
  <2>4. Ids(<< >>) = {}
    BY Ranges DEF Ids
  <2>5. \A f \in answers' : f \in Answered /\ Ids(f.list) \subseteq InTable
    BY <2>1, <2>2
  <2>6. TableHas'
    BY <1>2, <2>1, <2>3, <2>4, <2>5, TableStays
  <2>7. toggle' \in [id : Msgs \cup {"none"}, on : BOOLEAN]
    BY <2>1 DEF T!NoToggle
  <2>8. inbox' \in Seq(Events) /\ missed' \in Seq(Events) /\ view' \in Seq(Entries)
    BY <2>1
  <2>9. answers' \subseteq Answered
    BY <2>5
  <2>10. sent' \subseteq Msgs /\ inRoom' \in BOOLEAN /\ spliced' \in BOOLEAN
    BY <2>1
  <2> QED BY <1>2, <2>6, <2>7, <2>8, <2>9, <2>10 DEF TimelineTypes
<1>4. CASE T!Resync \/ T!LoadMore
  <2>1. UNCHANGED <<inRoom, inbox, missed, view, sent, toggle, spliced>>
    BY <1>4 DEF T!Resync, T!LoadMore, T!gatewayVars, T!historyVars
  <2>2. PICK a \in Answered : Ids(a.list) \subseteq InTable /\ answers' = answers \cup {a}
    <3>1. CASE T!Resync
      <4> DEFINE a == [kind |-> "resync", list |-> T!NewestPage]
      <4>1. answers' = answers \cup {a}
        BY <3>1 DEF T!Resync, T!Ask
      <4>2. a \in Answered /\ Ids(a.list) \subseteq InTable
        BY NewestAnswer DEF Answered
      <4> QED BY <4>1, <4>2
    <3>2. CASE T!LoadMore
      <4> DEFINE a == [kind |-> "older", list |-> T!PageBefore(view[1].id)]
      <4>1. answers' = answers \cup {a} /\ view # << >>
        BY <3>2 DEF T!LoadMore, T!Ask
      <4>2. 1 \in DOMAIN view
        BY <1>1, <4>1
      <4>3. view[1].id \in InTable
        BY <1>1, <4>2 DEF Ids, T!Range
      <4>4. a \in Answered /\ Ids(a.list) \subseteq InTable
        BY <4>3, OlderAnswer DEF Answered
      <4> QED BY <4>1, <4>4
    <3> QED BY <1>4, <3>1, <3>2
  <2>3. OnTheirWay' \subseteq OnTheirWay
    BY <1>2, <2>1 DEF OnTheirWay
  <2>4. \A f \in answers' : f \in Answered /\ (f \in answers \/ Ids(f.list) \subseteq InTable)
    BY <1>1, <2>2
  <2>5. TableHas'
    BY <1>1, <1>2, <2>1, <2>3, <2>4, TableStays
  <2> QED BY <1>1, <1>2, <2>1, <2>4, <2>5 DEF TimelineTypes
<1>5. CASE \E f \in answers : T!Apply(f) \/ T!FetchFails(f)
  <2>1. PICK f \in answers : T!Apply(f) \/ T!FetchFails(f)
    BY <1>5
  <2>2. /\ answers' = answers \ {f} /\ view' \in {view, T!Insert(f)}
        /\ UNCHANGED <<inRoom, inbox, missed, sent, toggle>>
        /\ spliced' \in BOOLEAN
    BY <2>1 DEF T!Apply, T!FetchFails, T!gatewayVars, TimelineTypes
  <2>3. /\ T!Insert(f) \in Seq(Entries)
        /\ Ids(T!Insert(f)) = Ids(f.list) \cup (IF f.kind = "page" THEN {} ELSE T!Shown)
    BY Inserted
  <2>4. view' \in Seq(Entries) /\ Ids(view') \subseteq InTable
    BY <1>1, <2>2, <2>3, ShownIds
  <2>5. OnTheirWay' \subseteq OnTheirWay
    BY <1>2, <2>2 DEF OnTheirWay
  <2>6. TableHas'
    BY <1>1, <1>2, <2>2, <2>4, <2>5, TableStays
  <2> QED BY <1>1, <1>2, <2>2, <2>4, <2>6 DEF TimelineTypes
<1> QED BY <1>3, <1>4, <1>5

\* A message is sent: the table has it after all others.
LEMMA SendTable ==
  ASSUME TimelineTypes, TableHas, NEW w \in T!Writers, NEW m \in Msgs, T!Send(w, m)
  PROVE  /\ m \notin InTable /\ InTable' = InTable \cup {m}
         /\ \A x \in InTable : (T!Pos(x))' = T!Pos(x) /\ T!Pos(x) < (T!Pos(m))'
         /\ (T!Pos(m))' \in Nat
         /\ \A x \in InTable : by'[x] = by[x]
         /\ by'[m] = w /\ by' \in [Msgs -> T!Writers \cup {"none"}]
         /\ \A i, j \in DOMAIN stored' : stored'[i] = stored'[j] => i = j
<1>1. /\ by[m] = "none" /\ stored' = Append(stored, m) /\ by' = [by EXCEPT ![m] = w]
      /\ stored \in Seq(Msgs) /\ by \in [Msgs -> T!Writers \cup {"none"}]
  BY DEF T!Send, TimelineTypes
<1>2. m \notin InTable /\ InTable' = InTable \cup {m}
  <2>1. m \notin InTable
    BY <1>1 DEF TableHas
  <2> QED BY <1>1, <2>1, Ranges DEF InTable
<1>3. /\ Len(stored) \in Nat /\ DOMAIN stored = 1 .. Len(stored)
      /\ DOMAIN stored' = 1 .. Len(stored) + 1 /\ stored'[Len(stored) + 1] = m
      /\ \A i \in 1 .. Len(stored) : stored'[i] = stored[i]
  BY <1>1
<1>4. \A i \in 1 .. Len(stored) + 1 : i \in 1 .. Len(stored) \/ i = Len(stored) + 1
  BY <1>3
<1>5. \A i \in 1 .. Len(stored) : i \in 1 .. Len(stored) + 1 /\ i < Len(stored) + 1 /\ stored[i] # m
  BY <1>2, <1>3 DEF InTable, T!Range
<1>6. Len(stored) + 1 \in 1 .. Len(stored) + 1
  BY <1>3
<1>7. \A i, j \in DOMAIN stored' : stored'[i] = stored'[j] => i = j
  BY <1>3, <1>4, <1>5 DEF TableHas
<1>8. \A x \in InTable : T!Pos(x) \in 1 .. Len(stored) /\ stored[T!Pos(x)] = x
  BY <1>3, TableOrdered
<1>9. \A i \in DOMAIN stored' : (CHOOSE j \in DOMAIN stored' : stored'[j] = stored'[i]) = i
  BY <1>7
<1>10. \A x \in InTable : (T!Pos(x))' = T!Pos(x)
  <2> SUFFICES ASSUME NEW x \in InTable
               PROVE  (CHOOSE j \in DOMAIN stored' : stored'[j] = x) = T!Pos(x)
    BY DEF T!Pos
  <2>1. T!Pos(x) \in DOMAIN stored' /\ stored'[T!Pos(x)] = x
    BY <1>3, <1>5, <1>8
  <2> QED BY <1>9, <2>1
<1>11. (T!Pos(m))' = Len(stored) + 1
  <2> SUFFICES (CHOOSE j \in DOMAIN stored' : stored'[j] = m) = Len(stored) + 1
    BY DEF T!Pos
  <2> QED BY <1>3, <1>6, <1>9
<1>12. \A x \in InTable : T!Pos(x) < (T!Pos(m))'
  BY <1>3, <1>8, <1>11
<1>13. \A x \in InTable : by'[x] = by[x]
  BY <1>1, <1>2, TableOrdered
<1>14. by'[m] = w /\ by' \in [Msgs -> T!Writers \cup {"none"}]
  BY <1>1
<1>15. (T!Pos(m))' \in Nat
  BY <1>3, <1>11
<1> QED BY <1>2, <1>7, <1>10, <1>12, <1>13, <1>14, <1>15

\* Sending, deleting and reacting.
LEMMA WriteTypes ==
  ASSUME TimelineTypes, TableHas,
         \/ \E w \in T!Writers, m \in Msgs :
              T!Send(w, m) \/ T!Delete(w, m) \/ \E on \in BOOLEAN : T!ReactElsewhere(w, m, on)
         \/ \E m \in Msgs : T!Click(m) \/ T!ShowSent(m)
         \/ \E on \in BOOLEAN : T!ToggleDone(on)
  PROVE  TimelineTypes' /\ TableHas'
<1>1. /\ stored \in Seq(Msgs) /\ outbox \subseteq Events /\ inbox \in Seq(Events) /\ missed \in Seq(Events)
      /\ view \in Seq(Entries) /\ answers \subseteq Answered /\ sent \subseteq Msgs
      /\ Ids(view) \subseteq InTable /\ \A f \in answers : Ids(f.list) \subseteq InTable
      /\ IF inRoom THEN missed = << >> ELSE inbox = << >>
      /\ InTable \subseteq Msgs
  BY ShownIds, TableOrdered DEF TimelineTypes, TableHas
<1>2. UNCHANGED <<inRoom, inbox, missed, answers, spliced>>
  BY DEF T!Send, T!Delete, T!ReactElsewhere, T!Click, T!ShowSent, T!ToggleDone, T!gatewayVars,
         T!historyVars
<1>3. ASSUME NEW w \in T!Writers, NEW m \in Msgs, T!Send(w, m)
      PROVE  TimelineTypes' /\ TableHas'
  <2> DEFINE e == [kind |-> "created", id |-> m, user |-> T!UserOf(w), from |-> w]
  <2>1. /\ stored' = Append(stored, m) /\ outbox' = outbox \cup {e}
        /\ sent' = IF w = "tab" THEN sent \cup {m} ELSE sent
        /\ UNCHANGED <<view, toggle>>
    BY <1>3 DEF T!Send, T!gatewayVars
  <2>2. /\ m \notin InTable /\ InTable' = InTable \cup {m} /\ by'[m] = w
        /\ \A x \in InTable : by'[x] = by[x]
        /\ by' \in [Msgs -> T!Writers \cup {"none"}]
        /\ \A i, j \in DOMAIN stored' : stored'[i] = stored'[j] => i = j
    BY <1>3, SendTable
  <2>3. e \in Events /\ e.id = m /\ e.user = T!UserOf(e.from)
    BY DEF Events, T!Writers, T!Users, T!UserOf
  <2> HIDE DEF e
  <2>4. \A x \in Msgs : by'[x] = "none" <=> x \notin InTable'
    <3>1. by' = [by EXCEPT ![m] = w] /\ w # "none" /\ by \in [Msgs -> T!Writers \cup {"none"}]
      BY <1>3 DEF T!Send, T!Writers, TimelineTypes
    <3> QED BY <2>2, <3>1 DEF TableHas
  <2>5. \A x \in OnTheirWay' : x.id \in InTable' /\ x.user = T!UserOf(x.from)
    <3>1. OnTheirWay' = OnTheirWay \cup {e}
      BY <1>2, <2>1 DEF OnTheirWay
    <3> QED BY <2>2, <2>3, <3>1 DEF TableHas
  <2>6. T!Shown' \subseteq InTable'
    <3>1. T!Shown' = T!Shown
      BY <2>1 DEF T!Shown
    <3> QED BY <2>2, <3>1 DEF TableHas
  <2>7. \A f \in answers' : Ids(f.list) \subseteq InTable'
    BY <1>1, <1>2, <2>2
  <2>8. \A x \in sent' : by'[x] = "tab"
    <3>1. \A x \in sent : x \in InTable /\ by[x] = "tab"
      BY <1>1 DEF TableHas
    <3> QED BY <2>1, <2>2, <3>1
  <2>11. toggle' = T!NoToggle' \/ toggle'.id \in InTable'
    BY <2>1, <2>2 DEF TableHas, T!NoToggle
  <2>9. TableHas'
    BY <1>1, <1>2, <2>2, <2>4, <2>5, <2>6, <2>7, <2>8, <2>11 DEF TableHas
  <2>10. stored' \in Seq(Msgs) /\ outbox' \subseteq Events /\ sent' \subseteq Msgs
    BY <1>1, <2>1, <2>3
  <2> QED BY <1>2, <2>1, <2>2, <2>9, <2>10 DEF TimelineTypes
<1>4. ASSUME NEW w \in T!Writers, NEW m \in Msgs, NEW on \in BOOLEAN, T!ReactElsewhere(w, m, on)
      PROVE  TimelineTypes' /\ TableHas'
  <2> DEFINE e == [kind |-> IF on THEN "added" ELSE "removed", id |-> m, user |-> T!UserOf(w), from |-> w]
  <2>1. by[m] # "none" /\ outbox' = outbox \cup {e} /\ UNCHANGED <<stored, by, view, sent, toggle>>
    BY <1>4 DEF T!ReactElsewhere, T!React
  <2>2. e \in Events /\ e.id = m /\ e.user = T!UserOf(e.from)
    BY DEF Events, T!Writers, T!Users, T!UserOf
  <2> HIDE DEF e
  <2>3. m \in InTable
    BY <2>1 DEF TableHas
  <2>4. OnTheirWay' = OnTheirWay \cup {e}
    BY <1>2, <2>1 DEF OnTheirWay
  <2>5. TableHas'
    <3>1. InTable' = InTable /\ T!Shown' = T!Shown /\ T!NoToggle' = T!NoToggle
      BY <2>1 DEF InTable, T!Shown, T!NoToggle
    <3> QED BY <1>2, <2>1, <2>2, <2>3, <2>4, <3>1 DEF TableHas
  <2>6. outbox' \subseteq Events
    BY <1>1, <2>1, <2>2
  <2> QED BY <1>2, <2>1, <2>5, <2>6 DEF TimelineTypes
<1>5. ASSUME NEW ok \in BOOLEAN, T!ToggleDone(ok)
      PROVE  TimelineTypes' /\ TableHas'
  <2> DEFINE m == toggle.id
             on == ~toggle.on
             e == [kind |-> IF toggle.on THEN "added" ELSE "removed", id |-> m,
                   user |-> T!UserOf("tab"), from |-> "tab"]
             v == T!Mark(view, m, "me", on)
  <2>1. /\ toggle # T!NoToggle /\ toggle' = T!NoToggle /\ UNCHANGED <<stored, by, sent>>
        /\ \/ outbox' = outbox \cup {e} /\ view' = view
           \/ outbox' = outbox /\ view' = v
    BY <1>5 DEF T!ToggleDone, T!React
  <2>2. m \in InTable /\ m \in Msgs /\ on \in BOOLEAN /\ "me" \in T!Users
    BY <1>1, <2>1 DEF TableHas, T!Users
  <2>3. e \in Events /\ e.id = m /\ e.user = T!UserOf(e.from)
    BY <2>2 DEF Events, T!Writers, T!Users, T!UserOf
  <2> HIDE DEF m, on, e
  <2>4. v \in Seq(Entries) /\ Ids(v) = Ids(view)
    <3> DEFINE u == "me"
    <3>1. view \in Seq(Entries) /\ on \in BOOLEAN /\ u \in T!Users /\ v = T!Mark(view, m, u, on)
      BY <1>1, <2>2
    <3> HIDE DEF u, v
    <3>2. T!Mark(view, m, u, on) \in Seq(Entries) /\ Ids(T!Mark(view, m, u, on)) = Ids(view)
      BY <3>1, MarkedIds
    <3> QED BY <3>1, <3>2
  <2> HIDE DEF v
  <2>5. toggle' \in [id : Msgs \cup {"none"}, on : BOOLEAN]
    BY <2>1 DEF T!NoToggle
  <2>6. OnTheirWay' \subseteq OnTheirWay \cup {e}
    BY <1>2, <2>1 DEF OnTheirWay
  <2>7. view' \in Seq(Entries) /\ T!Shown' \subseteq InTable /\ outbox' \subseteq Events
    <3>1. T!Shown' = Ids(view')
      BY DEF T!Shown, Ids, T!Range
    <3> QED BY <1>1, <2>1, <2>3, <2>4, <3>1
  <2>8. TableHas'
    <3>1. InTable' = InTable /\ T!NoToggle' = T!NoToggle
      BY <2>1 DEF InTable, T!NoToggle
    <3> QED BY <1>2, <2>1, <2>2, <2>3, <2>6, <2>7, <3>1 DEF TableHas
  <2> QED BY <1>2, <2>1, <2>5, <2>7, <2>8 DEF TimelineTypes
<1>6. ASSUME NEW m \in Msgs, T!Click(m)
      PROVE  TimelineTypes' /\ TableHas'
  <2> DEFINE on == toggle'.on
             v == T!Mark(view, m, "me", on)
  <2>1. /\ m \in T!Shown /\ UNCHANGED <<stored, by, sent, outbox>>
        /\ toggle'.id = m /\ toggle' \in [id : Msgs \cup {"none"}, on : BOOLEAN]
        /\ view' = v
    BY <1>6 DEF T!Click, T!serverVars
  <2>2. on \in BOOLEAN /\ "me" \in T!Users /\ m \in InTable
    BY <2>1 DEF T!Users, TableHas
  <2> HIDE DEF on
  <2>3. v \in Seq(Entries) /\ Ids(v) = Ids(view)
    <3> DEFINE u == "me"
    <3>1. view \in Seq(Entries) /\ on \in BOOLEAN /\ u \in T!Users /\ v = T!Mark(view, m, u, on)
      BY <1>1, <2>2
    <3> HIDE DEF u, v
    <3>2. T!Mark(view, m, u, on) \in Seq(Entries) /\ Ids(T!Mark(view, m, u, on)) = Ids(view)
      BY <3>1, MarkedIds
    <3> QED BY <3>1, <3>2
  <2> HIDE DEF v
  <2>4. view' \in Seq(Entries) /\ Ids(view') \subseteq InTable /\ OnTheirWay' = OnTheirWay
    BY <1>1, <1>2, <2>1, <2>3 DEF OnTheirWay
  <2>5. TableHas'
    <3>1. InTable' = InTable /\ T!Shown' = Ids(view')
      BY <2>1 DEF InTable, T!Shown, Ids, T!Range
    <3> QED BY <1>2, <2>1, <2>2, <2>4, <3>1 DEF TableHas
  <2> QED BY <1>2, <2>1, <2>4, <2>5 DEF TimelineTypes
<1>7. ASSUME NEW m \in Msgs, T!ShowSent(m)
      PROVE  TimelineTypes' /\ TableHas'
  <2> DEFINE x == [id |-> m, reacts |-> {}]
  <2>1. /\ m \in sent /\ sent' = sent \ {m} /\ view' = Append(view, x)
        /\ UNCHANGED <<stored, by, outbox, toggle>>
    BY <1>7 DEF T!ShowSent, T!serverVars
  <2>2. x \in Entries /\ x.id = m
    BY DEF Entries
  <2> HIDE DEF x
  <2>3. m \in InTable
    BY <2>1 DEF TableHas
  <2>4. view' \in Seq(Entries) /\ T!Range(view') = T!Range(view) \cup {x}
    BY <1>1, <2>1, <2>2, Ranges
  <2>5. Ids(view') \subseteq InTable
    <3>1. Ids(view') = Ids(view) \cup {m}
      BY <2>2, <2>4 DEF Ids
    <3> QED BY <1>1, <2>3, <3>1
  <2>6. OnTheirWay' \subseteq OnTheirWay
    BY <1>2, <2>1 DEF OnTheirWay
  <2>7. TableHas'
    BY <1>1, <1>2, <2>1, <2>5, <2>6, TableStays
  <2> QED BY <1>1, <1>2, <2>1, <2>4, <2>7 DEF TimelineTypes
<1>8. ASSUME NEW w \in T!Writers, NEW m \in Msgs, T!Delete(w, m)
      PROVE  TimelineTypes' /\ TableHas'
  <2> DEFINE I == {i \in DOMAIN view : view[i].id # m}
             v == T!Kept(view, I)
  <2>1. /\ view' \in {view, v} /\ UNCHANGED <<stored, by, outbox, toggle, sent>>
    BY <1>8 DEF T!Delete
  <2>2. I \in SUBSET DOMAIN view
    OBVIOUS
  <2> HIDE DEF I
  <2>3. PICK at : v \in Seq(Entries) /\ Picked(v, view, I, at)
    BY <1>1, <2>2, KeptPicks
  <2>4. Ids(v) \subseteq Ids(view)
    BY <2>2, <2>3 DEF Picked, Ids, T!Range
  <2> HIDE DEF v
  <2>5. view' \in Seq(Entries) /\ Ids(view') \subseteq InTable /\ OnTheirWay' \subseteq OnTheirWay
    BY <1>1, <1>2, <2>1, <2>3, <2>4 DEF OnTheirWay
  <2>6. TableHas'
    BY <1>1, <1>2, <2>1, <2>5, TableStays
  <2> QED BY <1>1, <1>2, <2>1, <2>5, <2>6 DEF TimelineTypes
<1> QED BY <1>3, <1>4, <1>5, <1>6, <1>7, <1>8

-----------------------------------------------------------------------------
\* What is on its way to the list.
Told == {e.id : e \in {c \in OnTheirWay : c.kind = "created" /\ c.from # "tab"}}
InAnswers == UNION {Ids(f.list) : f \in answers}

LEMMA WhatComes ==
  /\ T!Coming = sent \cup InAnswers \cup Told
  /\ T!Coming' = sent' \cup InAnswers' \cup Told'
  /\ T!Shown = Ids(view) /\ T!Shown' = Ids(view')
<1>1. T!Coming = sent \cup InAnswers \cup Told
  <2>1. {x.id : x \in UNION {T!Range(f.list) : f \in answers}} = InAnswers
    BY DEF InAnswers, Ids
  <2> QED BY <2>1 DEF T!Coming, Told, OnTheirWay
<1>2. T!Coming' = sent' \cup InAnswers' \cup Told'
  <2>1. {x.id : x \in UNION {T!Range(f.list) : f \in answers'}} = InAnswers'
    BY DEF InAnswers, Ids
  <2> QED BY <2>1 DEF T!Coming, Told, OnTheirWay
<1>3. T!Shown = Ids(view) /\ T!Shown' = Ids(view')
  BY DEF T!Shown, Ids, T!Range
<1> QED BY <1>1, <1>2, <1>3

LEMMA HolesStay ==
  ASSUME NoHoles, UNCHANGED stored, InTable \cap Accounted \subseteq Accounted',
         \A m \in Reached' : \/ m \in Reached
                             \/ \A x \in InTable : T!Pos(m) < T!Pos(x) => x \in Accounted'
  PROVE  NoHoles'
<1>1. InTable' = InTable /\ \A m : (T!Pos(m))' = T!Pos(m)
  BY DEF InTable, T!Pos
<1> SUFFICES ASSUME NEW m \in Reached', NEW x \in InTable, T!Pos(m) < T!Pos(x)
             PROVE  x \in Accounted'
  BY <1>1 DEF NoHoles
<1> QED BY DEF NoHoles

\* An event is on its way until the tab has it.
LEMMA OnTheWire ==
  ASSUME TimelineTypes, TableHas, T!LeaveRoom \/ \E e \in outbox : T!Publish(e)
  PROVE  OnTheirWay' = OnTheirWay
<1>0. /\ inbox \in Seq(Events) /\ missed \in Seq(Events) /\ outbox \subseteq Events
      /\ IF inRoom THEN missed = << >> ELSE inbox = << >>
  BY DEF TimelineTypes, TableHas
<1>1. CASE T!LeaveRoom
  <2>1. /\ inRoom /\ missed' = inbox /\ inbox' = << >> /\ outbox' = outbox
    BY <1>1 DEF T!LeaveRoom, T!serverVars
  <2> QED BY <1>0, <2>1, Ranges DEF OnTheirWay
<1>2. ASSUME NEW e \in outbox, T!Publish(e)
      PROVE  OnTheirWay' = OnTheirWay
  <2>1. /\ outbox' = outbox \ {e}
        /\ IF inRoom THEN inbox' = Append(inbox, e) /\ missed' = missed
                     ELSE missed' = Append(missed, e) /\ inbox' = inbox
    BY <1>2 DEF T!Publish
  <2>2. /\ T!Range(Append(inbox, e)) = T!Range(inbox) \cup {e}
        /\ T!Range(Append(missed, e)) = T!Range(missed) \cup {e}
    BY <1>0, Ranges
  <2>3. T!Range(inbox') \cup T!Range(missed') = T!Range(inbox) \cup T!Range(missed) \cup {e}
    <3>1. CASE inRoom
      BY <2>1, <2>2, <3>1
    <3>2. CASE ~inRoom
      BY <2>1, <2>2, <3>2
    <3> QED BY <3>1, <3>2
  <2> QED BY <2>1, <2>3 DEF OnTheirWay
<1> QED BY <1>1, <1>2

\* A newest page leaves no hole above its first message.
LEMMA ConnectionHoles ==
  ASSUME TimelineTypes, TableHas, PageSize \in Nat, NoHoles,
         T!JoinRoom \/ T!LeaveRoom \/ (\E e \in outbox : T!Publish(e)) \/ T!Receive
  PROVE  NoHoles'
<1>1. /\ inbox \in Seq(Events) /\ missed \in Seq(Events) /\ outbox \subseteq Events
      /\ IF inRoom THEN missed = << >> ELSE inbox = << >>
  BY DEF TimelineTypes, TableHas
<1>2. UNCHANGED <<stored, by, deleted, reacts, sent, toggle>>
  BY DEF T!JoinRoom, T!LeaveRoom, T!Publish, T!Receive, T!serverVars
<1>3. CASE T!JoinRoom
  <2>1. /\ ~inRoom /\ missed' = << >> /\ UNCHANGED <<outbox, view>>
        /\ \/ inbox' = missed /\ UNCHANGED <<answers, unseen>>
           \/ /\ answers' = answers \cup {[kind |-> "page", list |-> T!NewestPage]}
              /\ unseen' = unseen \cup (T!Live \ (Ids(T!NewestPage) \cup T!Shown))
           \/ /\ unseen' = unseen \cup {e.id : e \in T!Range(missed)}
              /\ UNCHANGED <<inbox, answers>>
    BY <1>3 DEF T!JoinRoom, T!Ask, T!serverVars, Ids
  <2>2. inbox = << >>
    BY <1>1, <2>1
  <2>3. CASE inbox' = missed /\ UNCHANGED <<answers, unseen>>
    <3>1. OnTheirWay' = OnTheirWay
      BY <2>1, <2>2, <2>3, Ranges DEF OnTheirWay
    <3>2. T!Coming' = T!Coming /\ T!Shown' = T!Shown
      BY <1>2, <2>1, <2>3, <3>1, WhatComes DEF Told, InAnswers
    <3>3. Accounted' = Accounted /\ Reached' = Reached
      BY <1>2, <2>3, <3>2 DEF Accounted, Reached
    <3> QED BY <1>2, <3>3, HolesStay
  <2>4. CASE /\ answers' = answers \cup {[kind |-> "page", list |-> T!NewestPage]}
             /\ unseen' = unseen \cup (T!Live \ (Ids(T!NewestPage) \cup T!Shown))
    <3> DEFINE a == [kind |-> "page", list |-> T!NewestPage]
    <3>1. Ids(T!NewestPage) \subseteq InAnswers'
      <4>1. a \in answers' /\ a.list = T!NewestPage
        BY <2>4
      <4> QED BY <4>1 DEF InAnswers
    <3>2. T!Live = InTable \ deleted
      BY NewestAnswer
    <3>3. InTable \subseteq Accounted'
      BY <1>2, <2>1, <2>4, <3>1, <3>2, WhatComes DEF Accounted
    <3> QED BY <1>2, <3>3, HolesStay
  <2>5. CASE /\ unseen' = unseen \cup {e.id : e \in T!Range(missed)}
             /\ UNCHANGED <<inbox, answers>>
    <3>1. OnTheirWay \subseteq OnTheirWay' \cup T!Range(missed)
      BY <2>1, <2>5 DEF OnTheirWay
    <3>2. Told \subseteq Told' \cup {e.id : e \in T!Range(missed)}
      BY <3>1 DEF Told
    <3>3. Accounted \subseteq Accounted' /\ Reached' = Reached
      BY <1>2, <2>1, <2>5, <3>2, WhatComes DEF Accounted, Reached, InAnswers
    <3> QED BY <1>2, <3>3, HolesStay
  <2> QED BY <2>1, <2>3, <2>4, <2>5
<1>4. CASE T!LeaveRoom \/ \E e \in outbox : T!Publish(e)
  <2>1. UNCHANGED <<view, answers, unseen>>
    BY <1>4 DEF T!LeaveRoom, T!Publish, T!historyVars
  <2>2. OnTheirWay' = OnTheirWay
    BY <1>4, OnTheWire
  <2>3. T!Coming' = T!Coming /\ T!Shown' = T!Shown
    BY <1>2, <2>1, <2>2, WhatComes DEF Told, InAnswers
  <2>4. Accounted' = Accounted /\ Reached' = Reached
    BY <1>2, <2>1, <2>3 DEF Accounted, Reached
  <2> QED BY <1>2, <2>4, HolesStay
<1>5. CASE T!Receive
  <2> DEFINE e == Head(inbox)
             a == [kind |-> "message", list |-> <<T!Entry(e.id)>>]
             on == e.kind = "added"
             v == T!Mark(view, e.id, e.user, on)
  <2>1. /\ inbox # << >> /\ inbox' = Tail(inbox)
        /\ UNCHANGED <<outbox, missed>>
        /\ \/ /\ T!UserOf(e.from) = "me"
              /\ unseen' = IF e.kind = "created" /\ e.from # "tab" THEN unseen \cup {e.id} ELSE unseen
              /\ UNCHANGED <<view, answers>>
           \/ e.kind = "created" /\ answers' = answers \cup {a} /\ UNCHANGED <<view, unseen>>
           \/ e.kind # "created" /\ view' = v /\ UNCHANGED <<answers, unseen>>
    BY <1>5 DEF T!Receive, T!Ask, T!serverVars
  <2>2. /\ e \in Events /\ T!Range(inbox) = {e} \cup T!Range(Tail(inbox))
    BY <1>1, <2>1, Ranges
  <2>3. e \in OnTheirWay /\ OnTheirWay = OnTheirWay' \cup {e}
    BY <2>1, <2>2 DEF OnTheirWay
  <2>4. a.kind = "message" /\ Ids(a.list) = {e.id}
    <3>1. T!Range(<<T!Entry(e.id)>>) = {T!Entry(e.id)} /\ T!Entry(e.id).id = e.id
      <4>1. ASSUME NEW x
            PROVE  T!Range(<<x>>) = {x}
        BY DEF T!Range
      <4> QED BY <4>1 DEF T!Entry
    <3> QED BY <3>1 DEF Ids
  <2>5. Ids(v) = Ids(view)
    <3>1. e.user \in T!Users /\ view \in Seq(Entries) /\ on \in BOOLEAN
          /\ v = T!Mark(view, e.id, e.user, on)
      BY <2>2 DEF Events, TimelineTypes
    <3> HIDE DEF e, on, v
    <3>2. /\ T!Mark(view, e.id, e.user, on) \in Seq(Entries)
          /\ Ids(T!Mark(view, e.id, e.user, on)) = Ids(view)
      BY <3>1, MarkedIds
    <3> QED BY <3>1, <3>2
  <2> HIDE DEF e, a, v, on
  <2>6. Told \subseteq Told' \cup (IF e.kind = "created" /\ e.from # "tab" THEN {e.id} ELSE {})
    BY <2>3 DEF Told
  <2>7. /\ InAnswers' = InAnswers \cup (IF answers' = answers THEN {} ELSE {e.id})
        /\ Reached' = Reached
    <3>1. Ids(view') = Ids(view)
      BY <2>1, <2>5
    <3>2. {g \in answers' : g.kind # "message"} = {g \in answers : g.kind # "message"}
      BY <2>1, <2>4
    <3>3. Reached' = Reached
      BY <1>2, <3>1, <3>2, WhatComes DEF Reached
    <3>4. InAnswers' = InAnswers \cup (IF answers' = answers THEN {} ELSE {e.id})
      BY <2>1, <2>4 DEF InAnswers
    <3> QED BY <3>3, <3>4
  <2>8. Accounted \subseteq Accounted'
    <3>1. Ids(view') = Ids(view) /\ unseen \subseteq unseen'
      BY <2>1, <2>5
    <3>2. e.kind = "created" /\ e.from # "tab" => e.id \in unseen' \cup InAnswers'
      <4>1. CASE answers' = answers \cup {a}
        BY <2>4, <4>1 DEF InAnswers
      <4> QED BY <2>1, <4>1
    <3> QED BY <1>2, <2>6, <2>7, <3>1, <3>2, WhatComes DEF Accounted
  <2> QED BY <1>2, <2>7, <2>8, HolesStay
<1> QED BY <1>3, <1>4, <1>5

LEMMA ReachedInTable ==
  ASSUME TimelineTypes, TableHas
  PROVE  Reached \subseteq InTable
<1>1. sent \subseteq InTable
  BY DEF TimelineTypes, TableHas
<1> QED BY <1>1 DEF TableHas, Reached

LEMMA FetchHoles ==
  ASSUME TimelineTypes, TableHas, PageSize \in Nat, NoHoles,
         \/ T!Reload \/ T!Resync \/ T!LoadMore
         \/ \E f \in answers : T!Apply(f) \/ T!FetchFails(f)
  PROVE  NoHoles'
<1>1. UNCHANGED <<stored, by, deleted, reacts, outbox>>
  BY DEF T!Reload, T!Resync, T!LoadMore, T!Apply, T!FetchFails, T!serverVars
<1> DEFINE P == T!NewestPage
<1>2. /\ Ids(P) \subseteq InTable
      /\ \A m \in Ids(P), x \in InTable : T!Pos(m) < T!Pos(x) => x \in deleted \cup Ids(P)
  BY NewestAnswer
<1> HIDE DEF P
<1>3. CASE T!Reload
  <2>1. /\ view' = << >> /\ sent' = {} /\ answers' = {[kind |-> "page", list |-> P]}
    BY <1>3 DEF T!Reload, P
  <2>2. Ids(<< >>) = {}
    BY Ranges DEF Ids
  <2>3. InAnswers' = Ids(P) /\ Reached' = Ids(P)
    BY <2>1, <2>2, WhatComes DEF InAnswers, Reached
  <2>4. deleted \cup Ids(P) \subseteq Accounted'
    BY <1>1, <2>3, WhatComes DEF Accounted
  <2>5. InTable' = InTable /\ \A m : (T!Pos(m))' = T!Pos(m)
    BY <1>1 DEF InTable, T!Pos
  <2> QED BY <1>2, <2>3, <2>4, <2>5 DEF NoHoles
<1>4. CASE T!Resync \/ T!LoadMore
  <2>1. UNCHANGED <<view, sent, inbox, missed, unseen>>
    BY <1>4 DEF T!Resync, T!LoadMore, T!gatewayVars, T!historyVars
  <2>2. Told' = Told
    BY <1>1, <2>1 DEF Told, OnTheirWay
  <2>3. PICK a : /\ answers' = answers \cup {a}
                 /\ \A m \in Ids(a.list), x \in InTable :
                      T!Pos(m) < T!Pos(x) => x \in Ids(a.list) \cup Accounted
    <3>1. CASE T!Resync
      <4> DEFINE a == [kind |-> "resync", list |-> P]
      <4>1. answers' = answers \cup {a}
        BY <3>1 DEF T!Resync, T!Ask, P
      <4>2. \A m \in Ids(a.list), x \in InTable :
              T!Pos(m) < T!Pos(x) => x \in Ids(a.list) \cup Accounted
        BY <1>2 DEF Accounted
      <4> HIDE DEF a
      <4> QED BY <4>1, <4>2
    <3>2. CASE T!LoadMore
      <4> DEFINE b == view[1].id
                 B == T!PageBefore(b)
                 a == [kind |-> "older", list |-> B]
      <4>1. answers' = answers \cup {a} /\ view # << >>
        BY <3>2 DEF T!LoadMore, T!Ask
      <4>2. b \in T!Shown
        <5>1. 1 \in DOMAIN view
          BY <4>1 DEF TimelineTypes
        <5> QED BY <5>1 DEF T!Shown
      <4>3. b \in InTable /\ b \in Reached
        BY <4>2 DEF TableHas, Reached
      <4>4. /\ Ids(B) \subseteq InTable
            /\ \A m \in Ids(B), x \in InTable \ deleted :
                 T!Pos(m) < T!Pos(x) /\ T!Pos(x) < T!Pos(b) => x \in Ids(B)
        BY <4>3, OlderAnswer
      <4> HIDE DEF b, B
      <4>5. ASSUME NEW m \in Ids(B), NEW x \in InTable, T!Pos(m) < T!Pos(x)
            PROVE  x \in Ids(B) \cup Accounted
        <5>1. T!Pos(x) \in Nat /\ T!Pos(b) \in Nat /\ (T!Pos(x) = T!Pos(b) => x = b)
          BY <4>3, TableOrdered
        <5>2. CASE T!Pos(x) < T!Pos(b)
          BY <4>4, <4>5, <5>2 DEF Accounted
        <5>3. CASE x = b
          BY <4>2, <5>3 DEF Accounted
        <5>4. CASE T!Pos(b) < T!Pos(x)
          BY <4>3, <5>4 DEF NoHoles
        <5> QED BY <5>1, <5>2, <5>3, <5>4
      <4>6. \A m \in Ids(a.list), x \in InTable :
              T!Pos(m) < T!Pos(x) => x \in Ids(a.list) \cup Accounted
        BY <4>5
      <4> HIDE DEF a
      <4> QED BY <4>1, <4>6
    <3> QED BY <1>4, <3>1, <3>2
  <2>4. InAnswers' = InAnswers \cup Ids(a.list) /\ Reached' \subseteq Reached \cup Ids(a.list)
    BY <2>1, <2>3, WhatComes DEF InAnswers, Reached
  <2>5. Accounted' = Accounted \cup Ids(a.list)
    BY <1>1, <2>1, <2>2, <2>4, WhatComes DEF Accounted
  <2>6. \A m \in Reached' : \/ m \in Reached
                            \/ \A x \in InTable : T!Pos(m) < T!Pos(x) => x \in Accounted'
    BY <2>3, <2>4, <2>5
  <2> QED BY <1>1, <2>5, <2>6, HolesStay
<1>5. ASSUME NEW f \in answers, T!Apply(f)
      PROVE  NoHoles'
  <2>1. /\ answers' = answers \ {f} /\ view' = T!Insert(f) /\ UNCHANGED <<sent, inbox, missed>>
        /\ unseen' = unseen \cup (IF f.kind = "page" THEN T!Shown \ Ids(f.list) ELSE T!Between(f))
    BY <1>5 DEF T!Apply, T!gatewayVars, Ids
  <2>2. T!Shown' = Ids(f.list) \cup (IF f.kind = "page" THEN {} ELSE T!Shown)
    BY <2>1, Inserted, WhatComes
  <2>3. Told' = Told
    BY <1>1, <2>1 DEF Told, OnTheirWay
  <2>4. InAnswers \subseteq InAnswers' \cup Ids(f.list)
    BY <2>1 DEF InAnswers
  <2>5. T!Shown \subseteq T!Shown' \cup unseen'
    BY <2>1, <2>2
  <2>6. Accounted \subseteq Accounted'
    BY <1>1, <2>1, <2>2, <2>3, <2>4, <2>5, WhatComes DEF Accounted
  <2>7. Reached' \subseteq Reached \cup Ids(f.list)
    <3>1. Reached' = T!Shown' \cup sent \cup UNION {Ids(g.list) : g \in {h \in answers' : h.kind # "message"}}
      BY <2>1 DEF Reached
    <3>2. UNION {Ids(g.list) : g \in {h \in answers' : h.kind # "message"}} \subseteq Reached
      BY <2>1 DEF Reached
    <3> QED BY <2>2, <3>1, <3>2 DEF Reached
  <2>8. ASSUME NEW m \in Ids(f.list), NEW x \in InTable, T!Pos(m) < T!Pos(x)
        PROVE  x \in Accounted'
    <3>1. CASE f.kind # "message"
      <4>1. m \in Reached
        BY <3>1 DEF Reached
      <4> QED BY <2>6, <2>8, <4>1 DEF NoHoles
    <3>2. CASE f.kind = "message" /\ \E y \in T!Shown : ~(T!Pos(x) < T!Pos(y))
      <4>1. PICK y \in T!Shown : ~(T!Pos(x) < T!Pos(y))
        BY <3>2
      <4>2. y \in InTable /\ y \in Reached
        BY DEF TableHas, Reached
      <4>3. T!Pos(y) < T!Pos(x) \/ y = x
        BY <4>1, <4>2, TableOrdered
      <4>4. x \in Accounted
        BY <4>2, <4>3 DEF NoHoles, Accounted
      <4> QED BY <2>6, <4>4
    <3>3. CASE f.kind = "message" /\ \A y \in T!Shown : T!Pos(x) < T!Pos(y)
      <4>1. T!Live = InTable \ deleted
        BY NewestAnswer
      <4>2. \E z \in T!Range(f.list) : T!Pos(z.id) < T!Pos(x)
        BY <2>8 DEF Ids
      <4>3. x \in deleted \cup T!Coming \cup T!Between(f)
        BY <3>3, <4>1, <4>2 DEF T!Between
      <4>4. x \in Accounted \cup unseen'
        BY <2>1, <3>3, <4>3 DEF Accounted
      <4> QED BY <2>6, <4>4 DEF Accounted
    <3> QED BY <3>1, <3>2, <3>3
  <2>9. \A m \in Reached' : \/ m \in Reached
                            \/ \A x \in InTable : T!Pos(m) < T!Pos(x) => x \in Accounted'
    BY <2>7, <2>8
  <2> QED BY <1>1, <2>6, <2>9, HolesStay
<1>6. ASSUME NEW f \in answers, T!FetchFails(f)
      PROVE  NoHoles'
  <2>1. /\ answers' = answers \ {f} /\ UNCHANGED <<view, sent, inbox, missed>>
        /\ unseen' = unseen \cup Ids(f.list)
    BY <1>6 DEF T!FetchFails, T!gatewayVars, Ids
  <2>2. Told' = Told /\ InAnswers \subseteq InAnswers' \cup Ids(f.list)
    BY <1>1, <2>1 DEF Told, OnTheirWay, InAnswers
  <2>3. Accounted \subseteq Accounted' /\ Reached' \subseteq Reached
    <3>1. Accounted \subseteq Accounted'
      BY <1>1, <2>1, <2>2, WhatComes DEF Accounted
    <3>2. Reached' \subseteq Reached
      BY <2>1, WhatComes DEF Reached
    <3> QED BY <3>1, <3>2
  <2> QED BY <1>1, <2>3, HolesStay
<1> QED BY <1>3, <1>4, <1>5, <1>6

LEMMA WriteHoles ==
  ASSUME TimelineTypes, TableHas, NoHoles,
         \/ \E w \in T!Writers, m \in Msgs :
              T!Send(w, m) \/ T!Delete(w, m) \/ \E on \in BOOLEAN : T!ReactElsewhere(w, m, on)
         \/ \E m \in Msgs : T!Click(m) \/ T!ShowSent(m)
         \/ \E on \in BOOLEAN : T!ToggleDone(on)
  PROVE  NoHoles'
<1>1. UNCHANGED <<inbox, missed, answers, unseen>> /\ InAnswers' = InAnswers
  BY DEF T!Send, T!Delete, T!ReactElsewhere, T!Click, T!ShowSent, T!ToggleDone, T!gatewayVars,
         T!historyVars, InAnswers
<1>2. ASSUME NEW w \in T!Writers, NEW m \in Msgs, T!Send(w, m)
      PROVE  NoHoles'
  <2> DEFINE e == [kind |-> "created", id |-> m, user |-> T!UserOf(w), from |-> w]
  <2>1. /\ outbox' = outbox \cup {e} /\ UNCHANGED <<view, deleted>>
        /\ sent' = IF w = "tab" THEN sent \cup {m} ELSE sent
    BY <1>2 DEF T!Send, T!gatewayVars
  <2>2. /\ m \notin InTable /\ InTable' = InTable \cup {m}
        /\ \A x \in InTable : (T!Pos(x))' = T!Pos(x) /\ T!Pos(x) < (T!Pos(m))'
    BY <1>2, SendTable
  <2>3. OnTheirWay' = OnTheirWay \cup {e}
    BY <1>1, <2>1 DEF OnTheirWay
  <2>4. Told \subseteq Told' /\ (w # "tab" => m \in Told')
    <3>1. e.kind = "created" /\ e.from = w /\ e.id = m
      OBVIOUS
    <3> HIDE DEF e
    <3> QED BY <2>3, <3>1 DEF Told
  <2>5. Accounted \subseteq Accounted' /\ m \in Accounted'
    BY <1>1, <2>1, <2>4, WhatComes DEF Accounted
  <2>6. Reached' \subseteq Reached \cup {m}
    BY <1>1, <2>1, WhatComes DEF Reached
  <2> SUFFICES ASSUME NEW r \in Reached', NEW x \in InTable', (T!Pos(r))' < (T!Pos(x))'
               PROVE  x \in Accounted'
    BY DEF NoHoles
  <2>7. CASE x = m
    BY <2>5, <2>7
  <2>8. CASE x # m
    <3>1. x \in InTable /\ T!Pos(x) \in Nat /\ (T!Pos(x))' = T!Pos(x) /\ T!Pos(x) < (T!Pos(m))'
      BY <2>2, <2>8, TableOrdered
    <3>2. CASE r \in Reached
      <4>1. r \in InTable /\ (T!Pos(r))' = T!Pos(r)
        BY <2>2, <3>2, ReachedInTable
      <4> QED BY <2>5, <3>1, <3>2, <4>1 DEF NoHoles
    <3>3. CASE r = m
      <4>1. (T!Pos(m))' < T!Pos(x)
        BY <3>1, <3>3
      <4>2. (T!Pos(m))' \in Nat
        BY <1>2, SendTable
      <4> QED BY <3>1, <4>1, <4>2
    <3> QED BY <2>6, <3>2, <3>3
  <2> QED BY <2>7, <2>8
<1>3. ASSUME NEW w \in T!Writers, NEW m \in Msgs, NEW on \in BOOLEAN, T!ReactElsewhere(w, m, on)
      PROVE  NoHoles'
  <2> DEFINE e == [kind |-> IF on THEN "added" ELSE "removed", id |-> m, user |-> T!UserOf(w), from |-> w]
  <2>1. outbox' = outbox \cup {e} /\ UNCHANGED <<stored, deleted, view, sent>>
    BY <1>3 DEF T!ReactElsewhere, T!React
  <2>2. OnTheirWay' = OnTheirWay \cup {e} /\ e.kind # "created"
    BY <1>1, <2>1 DEF OnTheirWay
  <2> HIDE DEF e
  <2>3. Told' = Told
    BY <2>2 DEF Told
  <2>4. Accounted' = Accounted /\ Reached' = Reached
    BY <1>1, <2>1, <2>3, WhatComes DEF Accounted, Reached
  <2> QED BY <2>1, <2>4, HolesStay
<1>4. ASSUME NEW on \in BOOLEAN, T!ToggleDone(on)
      PROVE  NoHoles'
  <2> DEFINE m == toggle.id
             off == ~toggle.on
             u == "me"
             e == [kind |-> IF toggle.on THEN "added" ELSE "removed", id |-> m,
                   user |-> T!UserOf("tab"), from |-> "tab"]
             v == T!Mark(view, m, u, off)
  <2>1. /\ UNCHANGED <<stored, deleted, sent>>
        /\ \/ outbox' = outbox \cup {e} /\ view' = view
           \/ outbox' = outbox /\ view' = v
    BY <1>4 DEF T!ToggleDone, T!React
  <2>2. view \in Seq(Entries) /\ off \in BOOLEAN /\ u \in T!Users /\ e.kind # "created"
    BY DEF TimelineTypes, T!Users
  <2> HIDE DEF m, off, u, e
  <2>3. Ids(v) = Ids(view)
    BY <2>2, MarkedIds
  <2> HIDE DEF v
  <2>4. OnTheirWay' = OnTheirWay \/ OnTheirWay' = OnTheirWay \cup {e}
    BY <1>1, <2>1 DEF OnTheirWay
  <2>5. Told' = Told
    BY <2>2, <2>4 DEF Told
  <2>6. Accounted' = Accounted /\ Reached' = Reached
    BY <1>1, <2>1, <2>3, <2>5, WhatComes DEF Accounted, Reached
  <2> QED BY <2>1, <2>6, HolesStay
<1>5. ASSUME NEW m \in Msgs, T!Click(m)
      PROVE  NoHoles'
  <2> DEFINE on == toggle'.on
             u == "me"
             v == T!Mark(view, m, u, on)
  <2>1. UNCHANGED <<stored, deleted, sent, outbox>> /\ view' = v /\ on \in BOOLEAN
    BY <1>5 DEF T!Click, T!serverVars
  <2>2. view \in Seq(Entries) /\ u \in T!Users
    BY DEF TimelineTypes, T!Users
  <2> HIDE DEF on, u
  <2>3. Ids(v) = Ids(view)
    BY <2>1, <2>2, MarkedIds
  <2> HIDE DEF v
  <2>4. Told' = Told
    BY <1>1, <2>1 DEF Told, OnTheirWay
  <2>5. Accounted' = Accounted /\ Reached' = Reached
    BY <1>1, <2>1, <2>3, <2>4, WhatComes DEF Accounted, Reached
  <2> QED BY <2>1, <2>5, HolesStay
<1>6. ASSUME NEW m \in Msgs, T!ShowSent(m)
      PROVE  NoHoles'
  <2> DEFINE x == [id |-> m, reacts |-> {}]
  <2>1. /\ m \in sent /\ sent' = sent \ {m} /\ view' = Append(view, x)
        /\ UNCHANGED <<stored, deleted, outbox>>
    BY <1>6 DEF T!ShowSent, T!serverVars
  <2>2. Ids(view') = Ids(view) \cup {m}
    <3>1. T!Range(view') = T!Range(view) \cup {x}
      <4>1. x \in Entries /\ view \in Seq(Entries)
        BY DEF Entries, TimelineTypes
      <4> HIDE DEF x
      <4> QED BY <2>1, <4>1, Ranges
    <3>2. x.id = m
      OBVIOUS
    <3> HIDE DEF x
    <3> QED BY <3>1, <3>2 DEF Ids
  <2>3. Told' = Told
    BY <1>1, <2>1 DEF Told, OnTheirWay
  <2>4. Accounted' = Accounted /\ Reached' = Reached
    BY <1>1, <2>1, <2>2, <2>3, WhatComes DEF Accounted, Reached
  <2> QED BY <2>1, <2>4, HolesStay
<1>7. ASSUME NEW w \in T!Writers, NEW m \in Msgs, T!Delete(w, m)
      PROVE  NoHoles'
  <2> DEFINE I == {i \in DOMAIN view : view[i].id # m}
             v == T!Kept(view, I)
  <2>1. /\ view' \in {view, v} /\ UNCHANGED <<stored, outbox, sent>> /\ deleted' = deleted \cup {m}
    BY <1>7 DEF T!Delete
  <2>2. I \in SUBSET DOMAIN view /\ view \in Seq(Entries)
    BY DEF TimelineTypes
  <2>3. \A i \in DOMAIN view : i \in I \/ view[i].id = m
    OBVIOUS
  <2> HIDE DEF I
  <2>4. PICK at : Picked(v, view, I, at)
    BY <2>2, KeptPicks
  <2> HIDE DEF v
  <2>5. Ids(v) \subseteq Ids(view) /\ Ids(view) \subseteq Ids(v) \cup {m}
    <3>1. T!Range(v) \subseteq T!Range(view) /\ \A i \in I : view[i] \in T!Range(v)
      BY <2>2, <2>4 DEF Picked, T!Range
    <3>2. \A x \in T!Range(view) : x \in T!Range(v) \/ x.id = m
      BY <2>3, <3>1 DEF T!Range
    <3> QED BY <3>1, <3>2 DEF Ids
  <2>6. Told' = Told
    BY <1>1, <2>1 DEF Told, OnTheirWay
  <2>7. Accounted \subseteq Accounted' /\ Reached' \subseteq Reached
    BY <1>1, <2>1, <2>5, <2>6, WhatComes DEF Accounted, Reached
  <2> QED BY <2>1, <2>7, HolesStay
<1> QED BY <1>2, <1>3, <1>4, <1>5, <1>6, <1>7

-----------------------------------------------------------------------------
LEMMA SameTable ==
  ASSUME UNCHANGED <<stored, by>>
  PROVE  /\ InTable' = InTable /\ \A m : (T!Pos(m))' = T!Pos(m)
         /\ \A s : Increasing(s)' <=> Increasing(s)
         /\ \A s : ListInTime(s)' <=> ListInTime(s)
<1>1. InTable' = InTable /\ \A m : (T!Pos(m))' = T!Pos(m)
  BY DEF InTable, T!Pos
<1> QED BY <1>1 DEF Increasing, ListInTime

LEMMA TimeStays ==
  ASSUME InTime, UNCHANGED <<stored, by, spliced>>,
         DOMAIN view' = DOMAIN view, \A i \in DOMAIN view : view'[i].id = view[i].id,
         \A f \in answers' : f \in answers \/ (f.kind # "older" /\ Increasing(f.list))
  PROVE  InTime'
<1>1. \A m : (T!Pos(m))' = T!Pos(m)
  BY SameTable
<1>2. \A f \in answers' : Increasing(f.list)'
  <2>1. \A f \in answers' : Increasing(f.list)
    BY DEF InTime
  <2> QED BY <2>1, SameTable
<1>3. \A f, g \in answers' : f.kind = "older" /\ g.kind = "older" => f = g
  BY DEF InTime
<1>4. ListInTime(view) => ListInTime(view)'
  BY <1>1 DEF ListInTime
<1>5. OlderBefore(view) => OlderBefore(view)'
  BY <1>1 DEF OlderBefore
<1> QED BY <1>2, <1>3, <1>4, <1>5 DEF InTime

LEMMA NewTime ==
  ASSUME InTime, UNCHANGED <<stored, by, spliced, answers>>,
         ListInTime(view) => ListInTime(view'), OlderBefore(view) => OlderBefore(view')
  PROVE  InTime'
<1>1. \A m : (T!Pos(m))' = T!Pos(m)
  BY SameTable
<1>2. \A f \in answers' : Increasing(f.list)'
  <2>1. \A f \in answers' : Increasing(f.list)
    BY DEF InTime
  <2> QED BY <2>1, SameTable
<1>3. ListInTime(view) => ListInTime(view)'
  BY <1>1 DEF ListInTime
<1>4. OlderBefore(view) => OlderBefore(view)'
  BY <1>1 DEF OlderBefore
<1> QED BY <1>2, <1>3, <1>4 DEF InTime

LEMMA MergedInTime ==
  ASSUME TimelineTypes, TableHas, NEW es \in Seq(Entries), Ids(es) \subseteq InTable,
         Increasing(es), ListInTime(view)
  PROVE  ListInTime(T!Merge(es))
<1> DEFINE I == {i \in DOMAIN es : es[i].id \notin T!Shown}
           fresh == T!Kept(es, I)
           s == view \o fresh
           r == T!Sorted(s)
<1>1. I \in SUBSET DOMAIN es /\ \A i \in I : es[i].id \notin T!Shown
  OBVIOUS
<1>2. T!Merge(es) = IF fresh = << >> THEN view ELSE r
  BY DEF T!Merge
<1> HIDE DEF I
<1>3. PICK at : /\ Picked(fresh, es, I, at)
                /\ \A j, k \in DOMAIN fresh : j < k => at[j] < at[k]
  BY <1>1, KeptPicks
<1>4. fresh \in Seq(Entries) /\ view \in Seq(Entries)
  BY <1>1, KeptPicks DEF TimelineTypes
<1> HIDE DEF fresh
<1>5. /\ s \in Seq(Entries) /\ DOMAIN view = 1 .. Len(view) /\ Len(view) \in Nat
      /\ DOMAIN fresh = 1 .. Len(fresh) /\ Len(fresh) \in Nat
      /\ DOMAIN s = 1 .. Len(view) + Len(fresh)
      /\ \A i \in DOMAIN s : s[i] = IF i <= Len(view) THEN view[i] ELSE fresh[i - Len(view)]
  BY <1>4
<1>6. \A k \in DOMAIN fresh : /\ fresh[k].id \notin T!Shown /\ fresh[k].id \in InTable
                              /\ fresh[k] = es[at[k]] /\ at[k] \in DOMAIN es
  BY <1>1, <1>3 DEF Picked, Ids, T!Range
<1>7. \A j, k \in DOMAIN fresh : j < k => T!Pos(fresh[j].id) < T!Pos(fresh[k].id)
  BY <1>3, <1>6 DEF Increasing
<1>8. \A i \in DOMAIN view : view[i].id \in T!Shown /\ view[i].id \in InTable
  BY DEF T!Shown, TableHas
<1> HIDE DEF s
<1>9. \A i \in DOMAIN s :
        \/ i \in DOMAIN view /\ s[i] = view[i]
        \/ i - Len(view) \in DOMAIN fresh /\ s[i] = fresh[i - Len(view)] /\ i > Len(view)
  BY <1>5
<1>10. \A i \in DOMAIN s : s[i].id \in InTable
  BY <1>6, <1>8, <1>9
\* No message that is not the tab's is in the list twice.
<1>11. ASSUME NEW a \in DOMAIN s, NEW b \in DOMAIN s, a < b, s[a].id = s[b].id
       PROVE  by[s[b].id] = "tab"
  <2>1. CASE a \in DOMAIN view /\ s[a] = view[a] /\ b \in DOMAIN view /\ s[b] = view[b]
    <3>1. by[view[b].id] # "tab" => T!Pos(view[a].id) < T!Pos(view[b].id)
      BY <1>11, <2>1 DEF ListInTime
    <3>2. T!Pos(view[b].id) \in Nat
      BY <1>8, <2>1, TableOrdered
    <3> QED BY <1>11, <2>1, <3>1, <3>2
  <2>2. CASE /\ a - Len(view) \in DOMAIN fresh /\ s[a] = fresh[a - Len(view)] /\ a > Len(view)
             /\ b - Len(view) \in DOMAIN fresh /\ s[b] = fresh[b - Len(view)] /\ b > Len(view)
    <3>1. a - Len(view) < b - Len(view)
      BY <1>5, <1>11
    <3>2. T!Pos(s[a].id) < T!Pos(s[b].id)
      BY <1>7, <2>2, <3>1
    <3>3. T!Pos(s[b].id) \in Nat
      BY <1>10, TableOrdered
    <3> QED BY <1>11, <3>2, <3>3
  <2>3. CASE /\ a \in DOMAIN view /\ s[a] = view[a]
             /\ b - Len(view) \in DOMAIN fresh /\ s[b] = fresh[b - Len(view)]
    BY <1>6, <1>8, <1>11, <2>3
  <2>4. CASE /\ b \in DOMAIN view /\ s[b] = view[b]
             /\ a - Len(view) \in DOMAIN fresh /\ s[a] = fresh[a - Len(view)]
    BY <1>6, <1>8, <1>11, <2>4
  <2> QED BY <1>9, <2>1, <2>2, <2>3, <2>4
<1>12. CASE fresh = << >>
  BY <1>2, <1>12
<1>13. CASE fresh # << >>
  <2>1. T!Merge(es) = r
    BY <1>2, <1>13
  <2>2. Ids(s) \subseteq InTable
    BY <1>10 DEF Ids, T!Range
  <2>3. s \in Seq(Entries)
    BY <1>5
  <2>4. PICK t : /\ Picked(r, s, DOMAIN s, t)
                 /\ \A j, k \in DOMAIN r : j < k =>
                      /\ t[j] # t[k]
                      /\ T!Pos(s[t[j]].id) <= T!Pos(s[t[k]].id)
    BY <2>2, <2>3, SortedPicks
  <2> HIDE DEF r
  <2>5. ASSUME NEW j \in DOMAIN r, NEW i \in DOMAIN r, by[r[j].id] # "tab", i < j
        PROVE  T!Pos(r[i].id) < T!Pos(r[j].id)
    <3>1. /\ t[i] \in DOMAIN s /\ t[j] \in DOMAIN s /\ r[i] = s[t[i]] /\ r[j] = s[t[j]]
          /\ t[i] # t[j] /\ T!Pos(r[i].id) <= T!Pos(r[j].id)
      BY <2>4, <2>5 DEF Picked
    <3>2. t[i] \in Nat /\ t[j] \in Nat
      BY <1>5, <3>1
    <3>3. r[i].id # r[j].id
      BY <1>11, <2>5, <3>1, <3>2
    <3>4. T!Pos(r[i].id) # T!Pos(r[j].id) /\ T!Pos(r[i].id) \in Nat /\ T!Pos(r[j].id) \in Nat
      BY <1>10, <3>1, <3>3, TableOrdered
    <3> QED BY <3>1, <3>4
  <2> QED BY <2>1, <2>5 DEF ListInTime
<1> QED BY <1>12, <1>13

LEMMA OlderInTime ==
  ASSUME TimelineTypes, TableHas, NEW f \in answers, f.kind = "older",
         Increasing(f.list), ListInTime(view), OlderBefore(view)
  PROVE  ListInTime(f.list \o view)
<1> DEFINE l == f.list
           s == l \o view
<1>1. l \in Seq(Entries) /\ view \in Seq(Entries)
  BY DEF TimelineTypes, Answered
<1>2. \A i \in DOMAIN l : l[i].id \in Ids(l)
  BY DEF Ids, T!Range
<1>3. /\ Increasing(l)
      /\ \A x \in Ids(l), j \in DOMAIN view : by[view[j].id] # "tab" => T!Pos(x) < T!Pos(view[j].id)
  BY DEF OlderBefore
<1> HIDE DEF l
<1>4. /\ DOMAIN l = 1 .. Len(l) /\ Len(l) \in Nat /\ DOMAIN view = 1 .. Len(view) /\ Len(view) \in Nat
      /\ DOMAIN s = 1 .. Len(l) + Len(view)
      /\ \A i \in DOMAIN s : s[i] = IF i <= Len(l) THEN l[i] ELSE view[i - Len(l)]
  BY <1>1
<1> HIDE DEF s
<1>5. \A i \in DOMAIN s :
        \/ i \in DOMAIN l /\ s[i] = l[i]
        \/ i - Len(l) \in DOMAIN view /\ s[i] = view[i - Len(l)] /\ i > Len(l)
  BY <1>4
<1>6. ASSUME NEW j \in DOMAIN s, NEW i \in DOMAIN s, by[s[j].id] # "tab", i < j
      PROVE  T!Pos(s[i].id) < T!Pos(s[j].id)
  <2>1. CASE j \in DOMAIN l /\ s[j] = l[j]
    <3>1. i \in DOMAIN l /\ s[i] = l[i]
      BY <1>4, <1>6, <2>1
    <3> QED BY <1>3, <1>6, <2>1, <3>1 DEF Increasing
  <2>2. CASE j - Len(l) \in DOMAIN view /\ s[j] = view[j - Len(l)] /\ j > Len(l)
    <3>1. CASE i \in DOMAIN l /\ s[i] = l[i]
      BY <1>2, <1>3, <1>6, <2>2, <3>1
    <3>2. CASE i - Len(l) \in DOMAIN view /\ s[i] = view[i - Len(l)] /\ i > Len(l)
      <4>1. i - Len(l) < j - Len(l)
        BY <1>4, <1>6
      <4> QED BY <1>6, <2>2, <3>2, <4>1 DEF ListInTime
    <3> QED BY <1>5, <3>1, <3>2
  <2> QED BY <1>5, <2>1, <2>2
<1>7. ListInTime(s)
  BY <1>6 DEF ListInTime
<1> QED BY <1>7 DEF s, l

LEMMA ConnectionTime ==
  ASSUME TimelineTypes, TableHas, PageSize \in Nat, InTime,
         T!JoinRoom \/ T!LeaveRoom \/ (\E e \in outbox : T!Publish(e)) \/ T!Receive
  PROVE  InTime'
<1>1. UNCHANGED <<stored, by, spliced>>
  BY DEF T!JoinRoom, T!LeaveRoom, T!Publish, T!Receive, T!serverVars, T!historyVars
<1>2. CASE T!JoinRoom \/ T!LeaveRoom \/ \E e \in outbox : T!Publish(e)
  <2> DEFINE a == [kind |-> "page", list |-> T!NewestPage]
  <2>1. view' = view /\ (answers' = answers \/ answers' = answers \cup {a})
    BY <1>2 DEF T!JoinRoom, T!LeaveRoom, T!Publish, T!Ask, T!historyVars
  <2>2. a.kind # "older" /\ Increasing(a.list)
    BY NewestAnswer
  <2> HIDE DEF a
  <2> QED BY <1>1, <2>1, <2>2, TimeStays
<1>3. CASE T!Receive
  <2> DEFINE e == Head(inbox)
             a == [kind |-> "message", list |-> <<T!Entry(e.id)>>]
             on == e.kind = "added"
             v == T!Mark(view, e.id, e.user, on)
  <2>1. /\ inbox # << >> /\ view' \in {view, v} /\ (answers' = answers \/ answers' = answers \cup {a})
    BY <1>3 DEF T!Receive, T!Ask
  <2>2. a.kind # "older" /\ Increasing(a.list)
    BY DEF Increasing
  <2>3. e \in Events /\ view \in Seq(Entries) /\ on \in BOOLEAN
    BY <2>1, Ranges DEF TimelineTypes
  <2> HIDE DEF a, on, e
  <2>4. e.user \in T!Users
    BY <2>3 DEF Events
  <2>5. DOMAIN v = DOMAIN view /\ \A i \in DOMAIN view : v[i].id = view[i].id
    BY <2>3, <2>4, MarkedIds
  <2> HIDE DEF v
  <2> QED BY <1>1, <2>1, <2>2, <2>5, TimeStays
<1> QED BY <1>2, <1>3

LEMMA FetchTime ==
  ASSUME TimelineTypes, TableHas, PageSize \in Nat, InTime,
         \/ T!Reload \/ T!Resync \/ T!LoadMore
         \/ \E f \in answers : T!Apply(f) \/ T!FetchFails(f)
  PROVE  InTime'
<1>1. UNCHANGED <<stored, by>>
  BY DEF T!Reload, T!Resync, T!LoadMore, T!Apply, T!FetchFails, T!serverVars
<1>2. (\A m : (T!Pos(m))' = T!Pos(m)) /\ (\A s : Increasing(s)' <=> Increasing(s))
      /\ \A s : ListInTime(s)' <=> ListInTime(s)
  BY <1>1, SameTable
<1>3. CASE T!Reload
  <2> DEFINE a == [kind |-> "page", list |-> T!NewestPage]
  <2>1. view' = << >> /\ answers' = {a}
    BY <1>3 DEF T!Reload
  <2>2. a.kind = "page" /\ Increasing(a.list)
    BY NewestAnswer
  <2> HIDE DEF a
  <2>3. ListInTime(view)' /\ OlderBefore(view)'
    BY <2>1 DEF ListInTime, OlderBefore
  <2>4. \A f \in answers' : Increasing(f.list)'
    BY <1>2, <2>1, <2>2
  <2> QED BY <2>1, <2>3, <2>4 DEF InTime
<1>4. CASE T!Resync
  <2> DEFINE a == [kind |-> "resync", list |-> T!NewestPage]
  <2>1. view' = view /\ spliced' = spliced /\ answers' = answers \cup {a}
    BY <1>4 DEF T!Resync, T!Ask, T!historyVars
  <2>2. a.kind # "older" /\ Increasing(a.list)
    BY NewestAnswer
  <2> HIDE DEF a
  <2> QED BY <1>1, <2>1, <2>2, TimeStays
<1>5. CASE T!LoadMore
  <2> DEFINE b == view[1].id
             a == [kind |-> "older", list |-> T!PageBefore(b)]
  <2>1. /\ answers' = answers \cup {a} /\ view # << >> /\ view' = view /\ spliced' = spliced
        /\ \A f \in answers : f.kind # "older"
    BY <1>5 DEF T!LoadMore, T!Ask, T!historyVars
  <2>2. 1 \in DOMAIN view /\ DOMAIN view = 1 .. Len(view) /\ Len(view) \in Nat
    BY <2>1 DEF TimelineTypes
  <2>3. \A j \in DOMAIN view : view[j].id \in InTable
    BY DEF T!Shown, TableHas
  <2>4. b \in InTable
    BY <2>2, <2>3
  <2> HIDE DEF b
  <2>5. a.kind = "older" /\ Increasing(a.list) /\ Ids(a.list) \subseteq InTable
        /\ \A x \in Ids(a.list) : T!Pos(x) < T!Pos(b)
    BY <2>4, OlderAnswer
  <2> HIDE DEF a
  <2>6. ASSUME ListInTime(view)
        PROVE  OlderBefore(view)'
    <3>1. ASSUME NEW x \in Ids(a.list), NEW j \in DOMAIN view, by[view[j].id] # "tab"
          PROVE  T!Pos(x) < T!Pos(view[j].id)
      <4>1. T!Pos(x) < T!Pos(b) /\ T!Pos(x) \in Nat /\ T!Pos(b) \in Nat /\ T!Pos(view[j].id) \in Nat
        BY <2>3, <2>4, <2>5, TableOrdered
      <4>2. CASE j = 1
        BY <4>1, <4>2 DEF b
      <4>3. CASE j # 1
        <5>1. 1 < j
          BY <2>2, <4>3
        <5>2. T!Pos(b) < T!Pos(view[j].id)
          BY <2>2, <2>6, <3>1, <5>1 DEF ListInTime, b
        <5> QED BY <4>1, <5>2
      <4> QED BY <4>2, <4>3
    <3> QED BY <1>1, <1>2, <2>1, <2>5, <3>1 DEF OlderBefore
  <2>7. \A f \in answers' : Increasing(f.list)'
    <3>1. \A f \in answers' : Increasing(f.list)
      BY <2>1, <2>5 DEF InTime
    <3> QED BY <1>2, <3>1
  <2>8. \A f, g \in answers' : f.kind = "older" /\ g.kind = "older" => f = g
    BY <2>1
  <2>9. ListInTime(view) => ListInTime(view)'
    BY <1>1, <1>2, <2>1 DEF ListInTime
  <2> QED BY <2>1, <2>6, <2>7, <2>8, <2>9 DEF InTime
<1>6. ASSUME NEW f \in answers, T!FetchFails(f)
      PROVE  InTime'
  <2>1. answers' = answers \ {f} /\ UNCHANGED <<view, spliced>>
    BY <1>6 DEF T!FetchFails
  <2> QED BY <1>1, <2>1, TimeStays
<1>7. ASSUME NEW f \in answers, T!Apply(f)
      PROVE  InTime'
  <2>1. /\ answers' = answers \ {f} /\ view' = T!Insert(f)
        /\ spliced' = (spliced \/ (f.kind # "older" /\ \E g \in answers : g.kind = "older"))
    BY <1>7 DEF T!Apply
  <2>2. \A g \in answers' : Increasing(g.list)'
    <3>1. \A g \in answers' : Increasing(g.list)
      BY <2>1 DEF InTime
    <3> QED BY <1>2, <3>1
  <2>3. \A g, h \in answers' : g.kind = "older" /\ h.kind = "older" => g = h
    BY <2>1 DEF InTime
  <2>4. CASE spliced'
    BY <2>2, <2>3, <2>4 DEF InTime
  <2>5. CASE ~spliced'
    <3>1. ListInTime(view) /\ OlderBefore(view) /\ Increasing(f.list)
      BY <2>1, <2>5 DEF InTime
    <3>2. \A g \in answers' : g.kind # "older"
      BY <2>1, <2>5 DEF InTime
    <3>3. f.kind \in {"page", "older", "resync", "message"} /\ f.list \in Seq(Entries)
          /\ Ids(f.list) \subseteq InTable
      BY DEF TimelineTypes, Answered, TableHas
    <3>4. ListInTime(T!Insert(f))
      <4>1. CASE f.kind = "page"
        BY <3>1, <4>1 DEF T!Insert, Increasing, ListInTime
      <4>2. CASE f.kind = "older"
        BY <3>1, <4>2, OlderInTime DEF T!Insert
      <4>3. CASE f.kind \in {"resync", "message"}
        <5>1. T!Insert(f) = T!Merge(f.list)
          BY <4>3 DEF T!Insert
        <5> QED BY <3>1, <3>3, <5>1, MergedInTime
      <4> QED BY <3>3, <4>1, <4>2, <4>3
    <3>5. ListInTime(view)'
      BY <1>1, <1>2, <2>1, <3>4 DEF ListInTime
    <3>6. OlderBefore(view)'
      BY <3>2 DEF OlderBefore
    <3> QED BY <2>2, <2>3, <3>5, <3>6 DEF InTime
  <2> QED BY <2>4, <2>5
<1> QED BY <1>3, <1>4, <1>5, <1>6, <1>7

LEMMA WriteTime ==
  ASSUME TimelineTypes, TableHas, InTime,
         \/ \E w \in T!Writers, m \in Msgs :
              T!Send(w, m) \/ T!Delete(w, m) \/ \E on \in BOOLEAN : T!ReactElsewhere(w, m, on)
         \/ \E m \in Msgs : T!Click(m) \/ T!ShowSent(m)
         \/ \E on \in BOOLEAN : T!ToggleDone(on)
  PROVE  InTime'
<1>1. UNCHANGED <<answers, spliced>>
  BY DEF T!Send, T!Delete, T!ReactElsewhere, T!Click, T!ShowSent, T!ToggleDone, T!historyVars
<1>2. view \in Seq(Entries) /\ DOMAIN view = 1 .. Len(view) /\ Len(view) \in Nat
  BY DEF TimelineTypes
<1>3. /\ \A j \in DOMAIN view : view[j].id \in InTable
      /\ \A f \in answers : Ids(f.list) \subseteq InTable
  BY DEF T!Shown, TableHas
<1>4. ASSUME NEW w \in T!Writers, NEW m \in Msgs, T!Send(w, m)
      PROVE  InTime'
  <2>1. view' = view
    BY <1>4 DEF T!Send
  <2>2. \A x \in InTable : (T!Pos(x))' = T!Pos(x) /\ by'[x] = by[x]
    BY <1>4, SendTable
  <2>3. \A f \in answers' : Increasing(f.list)'
    <3> SUFFICES ASSUME NEW f \in answers, NEW i \in DOMAIN f.list, NEW j \in DOMAIN f.list, i < j
                 PROVE  (T!Pos(f.list[i].id))' < (T!Pos(f.list[j].id))'
      BY <1>1 DEF Increasing
    <3>1. f.list[i].id \in Ids(f.list) /\ f.list[j].id \in Ids(f.list)
      BY DEF Ids, T!Range
    <3>2. f.list[i].id \in InTable /\ f.list[j].id \in InTable
      BY <1>3, <3>1
    <3>3. T!Pos(f.list[i].id) < T!Pos(f.list[j].id)
      BY DEF InTime, Increasing
    <3>4. /\ (T!Pos(f.list[i].id))' = T!Pos(f.list[i].id)
          /\ (T!Pos(f.list[j].id))' = T!Pos(f.list[j].id)
      BY <2>2, <3>2
    <3> QED BY <3>3, <3>4
  <2>4. ListInTime(view) => ListInTime(view)'
    <3>1. \A j \in DOMAIN view : (T!Pos(view[j].id))' = T!Pos(view[j].id) /\ by'[view[j].id] = by[view[j].id]
      BY <1>3, <2>1, <2>2
    <3> QED BY <2>1, <3>1 DEF ListInTime
  <2>5. OlderBefore(view) => OlderBefore(view)'
    <3>1. \A j \in DOMAIN view : (T!Pos(view[j].id))' = T!Pos(view[j].id) /\ by'[view[j].id] = by[view[j].id]
      BY <1>3, <2>1, <2>2
    <3>2. \A f \in answers : \A x \in Ids(f.list) : (T!Pos(x))' = T!Pos(x)
      BY <1>3, <2>2
    <3> QED BY <1>1, <2>1, <3>1, <3>2 DEF OlderBefore
  <2> QED BY <1>1, <2>3, <2>4, <2>5 DEF InTime
<1>5. ASSUME NEW w \in T!Writers, NEW m \in Msgs, NEW on \in BOOLEAN, T!ReactElsewhere(w, m, on)
      PROVE  InTime'
  <2>1. UNCHANGED <<stored, by, view>>
    BY <1>5 DEF T!ReactElsewhere
  <2> QED BY <1>1, <2>1, TimeStays
<1>6. ASSUME NEW m, NEW on \in BOOLEAN, view' = T!Mark(view, m, "me", on), UNCHANGED <<stored, by>>
      PROVE  InTime'
  <2> DEFINE u == "me"
             v == T!Mark(view, m, u, on)
  <2>1. u \in T!Users /\ view' = v
    BY <1>6 DEF T!Users
  <2> HIDE DEF u
  <2>2. DOMAIN v = DOMAIN view /\ \A i \in DOMAIN view : v[i].id = view[i].id
    BY <1>2, <2>1, MarkedIds
  <2> HIDE DEF v
  <2> QED BY <1>1, <1>6, <2>1, <2>2, TimeStays
<1>7. ASSUME NEW ok \in BOOLEAN, T!ToggleDone(ok)
      PROVE  InTime'
  <2> DEFINE on == ~toggle.on
             m == toggle.id
  <2>1. UNCHANGED <<stored, by>> /\ (view' = view \/ view' = T!Mark(view, m, "me", on))
    BY <1>7 DEF T!ToggleDone
  <2>2. on \in BOOLEAN
    OBVIOUS
  <2> HIDE DEF on, m
  <2> QED BY <1>1, <1>6, <2>1, <2>2, TimeStays
<1>8. ASSUME NEW m \in Msgs, T!Click(m)
      PROVE  InTime'
  <2> DEFINE on == toggle'.on
  <2>1. UNCHANGED <<stored, by>> /\ view' = T!Mark(view, m, "me", on) /\ on \in BOOLEAN
    BY <1>8 DEF T!Click, T!serverVars
  <2> HIDE DEF on
  <2> QED BY <1>6, <2>1
<1>9. ASSUME NEW m \in Msgs, T!ShowSent(m)
      PROVE  InTime'
  <2> DEFINE x == [id |-> m, reacts |-> {}]
  <2>1. /\ m \in sent /\ view' = Append(view, x) /\ UNCHANGED <<stored, by>>
    BY <1>9 DEF T!ShowSent, T!serverVars
  <2>2. by[m] = "tab" /\ x.id = m
    BY <2>1 DEF TableHas
  <2> HIDE DEF x
  <2>3. /\ DOMAIN view' = 1 .. Len(view) + 1 /\ view'[Len(view) + 1] = x
        /\ \A i \in DOMAIN view : view'[i] = view[i]
    BY <1>2, <2>1
  <2>4. \A j \in DOMAIN view' : by[view'[j].id] # "tab" => j \in DOMAIN view
    BY <1>2, <2>2, <2>3
  <2>5. \A i \in DOMAIN view', j \in DOMAIN view : i < j => i \in DOMAIN view
    BY <1>2, <2>3
  <2>6. ListInTime(view) => ListInTime(view')
    BY <2>3, <2>4, <2>5 DEF ListInTime
  <2>7. OlderBefore(view) => OlderBefore(view')
    BY <2>3, <2>4 DEF OlderBefore
  <2>8. InTime'
    BY <1>1, <2>1, <2>6, <2>7, NewTime
  <2> QED BY <2>8
<1>10. ASSUME NEW w \in T!Writers, NEW m \in Msgs, T!Delete(w, m)
       PROVE  InTime'
  <2> DEFINE I == {i \in DOMAIN view : view[i].id # m}
             v == T!Kept(view, I)
  <2>1. view' \in {view, v} /\ UNCHANGED <<stored, by>>
    BY <1>10 DEF T!Delete
  <2>2. I \in SUBSET DOMAIN view
    OBVIOUS
  <2> HIDE DEF I
  <2>3. PICK at : Picked(v, view, I, at) /\ \A j, k \in DOMAIN v : j < k => at[j] < at[k]
    BY <1>2, <2>2, KeptPicks
  <2> HIDE DEF v
  <2>4. \A k \in DOMAIN v : v[k] = view[at[k]] /\ at[k] \in DOMAIN view
    BY <2>2, <2>3 DEF Picked
  <2>5. ListInTime(view) => ListInTime(v)
    BY <2>3, <2>4 DEF ListInTime
  <2>6. OlderBefore(view) => OlderBefore(v)
    BY <2>4 DEF OlderBefore
  <2>7. (ListInTime(view) => ListInTime(view')) /\ (OlderBefore(view) => OlderBefore(view'))
    BY <2>1, <2>5, <2>6
  <2> QED BY <1>1, <2>1, <2>7, NewTime
<1> QED BY <1>4, <1>5, <1>7, <1>8, <1>9, <1>10

\* A reaction in a step that changes it neither in the table nor on screen.
LEMMA ReactionStays ==
  ASSUME NEW u \in T!Users, NEW m, Reaction(u, m),
         <<u, m>> \in skewed => <<u, m>> \in skewed',
         <<u, m>> \in reacts' <=> <<u, m>> \in reacts,
         Changes(u, m)' \subseteq Changes(u, m),
         u = "me" \/ (Changes(u, m) # {} => Changes(u, m)' # {}),
         u = "me" => /\ toggle'.id = m <=> toggle.id = m
                     /\ toggle'.id = m => (toggle'.on <=> toggle.on),
         \A i \in DOMAIN view' : view'[i].id = m =>
           \E j \in DOMAIN view :
             view[j].id = m /\ (u \in view[j].reacts <=> u \in view'[i].reacts)
  PROVE  Reaction(u, m)'
BY DEF Reaction

\* A reaction on screen that the tab could not have ordered, or has as it is.
LEMMA ReactionShown ==
  ASSUME NEW u \in T!Users, NEW m, Reaction(u, m),
         <<u, m>> \in skewed => <<u, m>> \in skewed',
         UNCHANGED <<reacts, toggle>>,
         Changes(u, m)' \subseteq Changes(u, m),
         \/ <<u, m>> \in skewed'
         \/ u = "me"
         \/ Changes(u, m) # {} => Changes(u, m)' # {}
         \/ \A i \in DOMAIN view' : view'[i].id = m => (u \in view'[i].reacts <=> <<u, m>> \in reacts),
         \A i \in DOMAIN view' : view'[i].id = m =>
           \/ \E j \in DOMAIN view : view[j].id = m /\ (u \in view[j].reacts <=> u \in view'[i].reacts)
           \/ <<u, m>> \in skewed'
           \/ /\ u \in view'[i].reacts <=> <<u, m>> \in reacts
              /\ u = "me" => toggle.id # m
  PROVE  Reaction(u, m)'
BY DEF Reaction

LEMMA ConnectionReacts ==
  ASSUME TimelineTypes, TableHas, ReactionsTrue,
         T!JoinRoom \/ T!LeaveRoom \/ (\E e \in outbox : T!Publish(e)) \/ T!Receive
  PROVE  ReactionsTrue'
<1>1. UNCHANGED <<stored, deleted, reacts, toggle>>
  BY DEF T!JoinRoom, T!LeaveRoom, T!Publish, T!Receive, T!serverVars
<1> SUFFICES ASSUME NEW m \in InTable \ deleted, NEW u \in T!Users
             PROVE  Reaction(u, m)'
  BY <1>1 DEF ReactionsTrue, InTable
<1>2. Reaction(u, m)
  BY DEF ReactionsTrue
<1>3. ASSUME view' = view, skewed \subseteq skewed',
             Changes(u, m)' = Changes(u, m) \/
               (Changes(u, m)' \subseteq Changes(u, m) /\ (u = "me" \/ <<u, m>> \in skewed'))
      PROVE  Reaction(u, m)'
  BY <1>1, <1>2, <1>3, ReactionShown
<1>4. CASE T!JoinRoom
  <2>1. /\ ~inRoom /\ missed' = << >> /\ UNCHANGED <<outbox, view>>
        /\ \/ inbox' = missed /\ UNCHANGED skewed
           \/ /\ skewed' = skewed \cup {<<e.user, e.id>> : e \in T!Range(missed)}
              /\ UNCHANGED inbox
    BY <1>4 DEF T!JoinRoom, T!serverVars
  <2>2. inbox = << >> /\ T!Range(<< >>) = {}
    BY <2>1, Ranges DEF TableHas
  <2>3. CASE inbox' = missed /\ UNCHANGED skewed
    <3>1. OnTheirWay' = OnTheirWay
      BY <2>1, <2>2, <2>3 DEF OnTheirWay
    <3>2. Changes(u, m)' = Changes(u, m)
      BY <3>1 DEF Changes
    <3> QED BY <1>3, <2>1, <2>3, <3>2
  <2>4. CASE skewed' = skewed \cup {<<e.user, e.id>> : e \in T!Range(missed)} /\ UNCHANGED inbox
    <3>1. OnTheirWay = OnTheirWay' \cup T!Range(missed)
      BY <2>1, <2>2, <2>4 DEF OnTheirWay
    <3>2. Changes(u, m)' \subseteq Changes(u, m)
      BY <3>1 DEF Changes
    <3>3. Changes(u, m)' = Changes(u, m) \/ <<u, m>> \in skewed'
      BY <2>4, <3>1 DEF Changes
    <3> QED BY <1>3, <2>1, <2>4, <3>2, <3>3
  <2> QED BY <2>1, <2>3, <2>4
<1>5. CASE T!LeaveRoom \/ \E e \in outbox : T!Publish(e)
  <2>1. UNCHANGED <<view, skewed>>
    BY <1>5 DEF T!LeaveRoom, T!Publish, T!historyVars
  <2>2. Changes(u, m)' = Changes(u, m)
    BY <1>5, OnTheWire DEF Changes
  <2> QED BY <1>3, <2>1, <2>2
<1>6. CASE T!Receive
  <2> DEFINE e == Head(inbox)
             on == e.kind = "added"
             w == e.user
             v == T!Mark(view, e.id, w, on)
  <2>1. /\ inbox # << >> /\ inbox' = Tail(inbox) /\ UNCHANGED <<outbox, missed, skewed>>
        /\ \/ T!UserOf(e.from) = "me" /\ view' = view
           \/ e.kind = "created" /\ view' = view
           \/ T!UserOf(e.from) # "me" /\ e.kind # "created" /\ view' = v
    BY <1>6 DEF T!Receive, T!serverVars
  <2>2. e \in Events /\ T!Range(inbox) = {e} \cup T!Range(Tail(inbox)) /\ view \in Seq(Entries)
    BY <2>1, Ranges DEF TimelineTypes
  <2>3. OnTheirWay = OnTheirWay' \cup {e}
    BY <2>1, <2>2 DEF OnTheirWay
  <2>4. w = T!UserOf(e.from) /\ w \in T!Users /\ on \in BOOLEAN
    BY <2>2, <2>3 DEF TableHas, Events
  <2>5. e \in Changes(u, m) <=> e.kind # "created" /\ w = u /\ e.id = m
    BY <2>3 DEF Changes
  <2>6. Changes(u, m)' \subseteq Changes(u, m) /\ Changes(u, m) \subseteq Changes(u, m)' \cup {e}
    BY <2>3 DEF Changes
  <2>7. <<u, m>> \in skewed \/ (e \in Changes(u, m) => (on <=> <<u, m>> \in reacts))
    BY <1>2 DEF Reaction
  <2> HIDE DEF e, on
  <2>8. CASE view' = view /\ (w = "me" \/ e.kind = "created")
    BY <1>3, <2>1, <2>5, <2>6, <2>8
  <2>9. CASE w # "me" /\ e.kind # "created" /\ view' = v
    <3> HIDE DEF w
    <3>1. DOMAIN v = DOMAIN view
          /\ \A i \in DOMAIN view : v[i].id = view[i].id /\ (view[i].id # e.id => v[i] = view[i])
      BY <2>2, <2>4, MarkedIds
    <3>2. ASSUME NEW i \in DOMAIN view, view[i].id = e.id
          PROVE  /\ w \in v[i].reacts <=> on
                 /\ u # w => (u \in v[i].reacts <=> u \in view[i].reacts)
      BY <2>2, <2>4, <3>2, Marked
    <3> HIDE DEF v
    <3>3. CASE w = u /\ e.id = m
      <4>1. e \in Changes(u, m) /\ u # "me"
        BY <2>5, <2>9, <3>3
      <4>2. ASSUME NEW i \in DOMAIN view', view'[i].id = m
            PROVE  <<u, m>> \in skewed' \/ (u \in view'[i].reacts <=> <<u, m>> \in reacts)
        BY <2>1, <2>7, <2>9, <3>1, <3>2, <3>3, <4>1, <4>2
      <4> QED BY <1>1, <1>2, <2>1, <2>6, <4>1, <4>2, ReactionShown
    <3>4. CASE ~(w = u /\ e.id = m)
      <4>1. Changes(u, m)' = Changes(u, m)
        BY <2>5, <2>6, <3>4
      <4>2. ASSUME NEW i \in DOMAIN view', view'[i].id = m
            PROVE  \E j \in DOMAIN view : view[j].id = m /\ (u \in view[j].reacts <=> u \in view'[i].reacts)
        BY <2>9, <3>1, <3>2, <3>4, <4>2
      <4> QED BY <1>1, <1>2, <2>1, <4>1, <4>2, ReactionStays
    <3> QED BY <3>3, <3>4
  <2> QED BY <2>1, <2>4, <2>8, <2>9
<1> QED BY <1>4, <1>5, <1>6

\* What an answer says of a reaction that the tab counts as skewed no longer.
LEMMA AnswerTold ==
  ASSUME NEW es, NEW x \in T!Range(es), NEW u \in T!Users, <<u, x.id>> \notin T!Stale(es)
  PROVE  /\ u \in x.reacts <=> <<u, x.id>> \in reacts
         /\ u = "me" => toggle.id # x.id
<1> DEFINE r == <<u, x.id>>
<1>1. r \in T!Users \X {y.id : y \in T!Range(es)} /\ r[1] = u /\ r[2] = x.id
  OBVIOUS
<1>2. r # <<"me", toggle.id>>
  BY <1>1 DEF T!Stale
<1>3. (r[1] \in x.reacts) = (r \in reacts)
  BY <1>1 DEF T!Stale
<1> QED BY <1>1, <1>2, <1>3

LEMMA FetchReacts ==
  ASSUME TimelineTypes, TableHas, "none" \notin Msgs, ReactionsTrue,
         \/ T!Reload \/ T!Resync \/ T!LoadMore
         \/ \E f \in answers : T!Apply(f) \/ T!FetchFails(f)
  PROVE  ReactionsTrue'
<1>1. UNCHANGED <<stored, deleted, reacts, outbox>>
  BY DEF T!Reload, T!Resync, T!LoadMore, T!Apply, T!FetchFails, T!serverVars
<1> SUFFICES ASSUME NEW m \in InTable \ deleted, NEW u \in T!Users
             PROVE  Reaction(u, m)'
  BY <1>1 DEF ReactionsTrue, InTable
<1>2. Reaction(u, m)
  BY DEF ReactionsTrue
<1>3. CASE T!Reload
  <2>1. /\ inbox' = << >> /\ missed' = << >> /\ view' = << >> /\ toggle'.id = "none"
        /\ {<<e.user, e.id>> : e \in outbox} \subseteq skewed'
    BY <1>3 DEF T!Reload, T!NoToggle
  <2>2. OnTheirWay' = outbox
    BY <1>1, <2>1, Ranges DEF OnTheirWay
  <2>3. <<u, m>> \in skewed' \/ Changes(u, m)' = {}
    BY <2>1, <2>2 DEF Changes
  <2>4. m \in Msgs
    BY DEF TimelineTypes, InTable, T!Range
  <2> QED BY <2>1, <2>3, <2>4 DEF Reaction
<1>4. CASE T!Resync \/ T!LoadMore \/ \E f \in answers : T!FetchFails(f)
  <2>1. UNCHANGED <<inbox, missed, view, toggle, skewed>>
    BY <1>4 DEF T!Resync, T!LoadMore, T!FetchFails, T!gatewayVars, T!historyVars
  <2>2. Changes(u, m)' = Changes(u, m)
    BY <1>1, <2>1 DEF Changes, OnTheirWay
  <2> QED BY <1>1, <1>2, <2>1, <2>2, ReactionStays
<1>5. ASSUME NEW f \in answers, T!Apply(f)
      PROVE  Reaction(u, m)'
  <2>1. /\ UNCHANGED <<inbox, missed, toggle>> /\ view' = T!Insert(f)
        /\ skewed' = skewed \cup T!Stale(f.list)
    BY <1>5 DEF T!Apply, T!gatewayVars
  <2>2. Changes(u, m)' = Changes(u, m)
    BY <1>1, <2>1 DEF Changes, OnTheirWay
  <2>3. T!Range(view') \subseteq T!Range(view) \cup T!Range(f.list)
    BY <2>1, Inserted
  <2>4. ASSUME NEW i \in DOMAIN view', view'[i].id = m
        PROVE  \/ \E j \in DOMAIN view : view[j].id = m /\ (u \in view[j].reacts <=> u \in view'[i].reacts)
               \/ <<u, m>> \in skewed'
               \/ (u \in view'[i].reacts <=> <<u, m>> \in reacts) /\ (u = "me" => toggle.id # m)
    <3> DEFINE x == view'[i]
    <3>1. x \in T!Range(view) \cup T!Range(f.list) /\ x.id = m
      BY <2>3, <2>4 DEF T!Range
    <3> HIDE DEF x
    <3>2. CASE x \in T!Range(view)
      BY <3>1, <3>2 DEF T!Range, x
    <3>3. CASE x \in T!Range(f.list)
      BY <2>1, <3>1, <3>3, AnswerTold DEF x
    <3> QED BY <3>1, <3>2, <3>3
  <2> QED BY <1>1, <1>2, <2>1, <2>2, <2>4, ReactionShown
<1> QED BY <1>3, <1>4, <1>5

\* The tab's own click, on every entry of the message.
LEMMA ClickMarks ==
  ASSUME view \in Seq(Entries), NEW m, NEW on \in BOOLEAN, view' = T!Mark(view, m, "me", on)
  PROVE  /\ DOMAIN view' = DOMAIN view
         /\ \A i \in DOMAIN view :
              /\ view'[i].id = view[i].id
              /\ view[i].id # m => view'[i] = view[i]
              /\ view[i].id = m => /\ "me" \in view'[i].reacts <=> on
                                   /\ "peer" \in view'[i].reacts <=> "peer" \in view[i].reacts
<1> DEFINE u == "me"
           w == "peer"
           v == T!Mark(view, m, u, on)
<1>1. u \in T!Users /\ w # u /\ view' = v
  BY DEF T!Users
<1> HIDE DEF u, w
<1>2. DOMAIN v = DOMAIN view
      /\ \A i \in DOMAIN view : v[i].id = view[i].id /\ (view[i].id # m => v[i] = view[i])
  BY <1>1, MarkedIds
<1>3. ASSUME NEW i \in DOMAIN view, view[i].id = m
      PROVE  (u \in v[i].reacts <=> on) /\ (w \in v[i].reacts <=> w \in view[i].reacts)
  BY <1>1, <1>3, Marked
<1> HIDE DEF v
<1>4. ASSUME NEW i \in DOMAIN view, view[i].id = m
      PROVE  (u \in view'[i].reacts <=> on) /\ (w \in view'[i].reacts <=> w \in view[i].reacts)
  BY <1>1, <1>3, <1>4
<1>5. DOMAIN view' = DOMAIN view
      /\ \A i \in DOMAIN view : view'[i].id = view[i].id /\ (view[i].id # m => view'[i] = view[i])
  BY <1>1, <1>2
<1> QED BY <1>4, <1>5 DEF u, w

\* A reaction that the server takes: its event is then the only one on its way
\* or the change is not in order.
LEMMA Reacted ==
  ASSUME NEW w, NEW m, NEW on \in BOOLEAN, T!React(w, m, on), UNCHANGED <<inbox, missed>>,
         NEW u, u = T!UserOf(w)
  PROVE  /\ \A v, x : <<v, x>> # <<u, m>> =>
              (<<v, x>> \in reacts' <=> <<v, x>> \in reacts) /\ Changes(v, x)' = Changes(v, x)
         /\ <<u, m>> \in reacts' <=> on
         /\ Changes(u, m)' # {}
         /\ T!Unordered(u, m) \/ \A e \in Changes(u, m)' : e.kind = "added" <=> on
<1> DEFINE e == [kind |-> IF on THEN "added" ELSE "removed", id |-> m, user |-> u, from |-> w]
<1>1. /\ reacts' = (IF on THEN reacts \cup {<<u, m>>} ELSE reacts \ {<<u, m>>})
      /\ outbox' = outbox \cup {e}
  BY DEF T!React
<1>2. e.id = m /\ e.user = u /\ e.kind # "created" /\ (e.kind = "added" <=> on)
  OBVIOUS
<1> HIDE DEF e
<1>3. OnTheirWay' = OnTheirWay \cup {e}
  BY <1>1 DEF OnTheirWay
<1>4. \A v, x : <<v, x>> # <<u, m>> => Changes(v, x)' = Changes(v, x)
  BY <1>2, <1>3 DEF Changes
<1>5. Changes(u, m)' = Changes(u, m) \cup {e}
  BY <1>2, <1>3 DEF Changes
<1>6. T!Unordered(u, m) \/ Changes(u, m) = {}
  BY DEF T!Unordered, Changes, OnTheirWay
<1>7. <<u, m>> \in reacts' <=> on
  BY <1>1
<1> QED BY <1>1, <1>2, <1>4, <1>5, <1>6, <1>7

LEMMA WriteReacts ==
  ASSUME TimelineTypes, TableHas, "none" \notin Msgs, ReactionsTrue,
         \/ \E w \in T!Writers, m \in Msgs :
              T!Send(w, m) \/ T!Delete(w, m) \/ \E on \in BOOLEAN : T!ReactElsewhere(w, m, on)
         \/ \E m \in Msgs : T!Click(m) \/ T!ShowSent(m)
         \/ \E on \in BOOLEAN : T!ToggleDone(on)
  PROVE  ReactionsTrue'
<1>1. view \in Seq(Entries) /\ toggle.on \in BOOLEAN /\ InTable \subseteq Msgs
  BY TableOrdered DEF TimelineTypes
<1>2. UNCHANGED <<inbox, missed>>
  BY DEF T!Send, T!Delete, T!ReactElsewhere, T!Click, T!ShowSent, T!ToggleDone, T!gatewayVars
<1>3. \A u \in T!Users, m \in InTable \ deleted : Reaction(u, m)
  BY DEF ReactionsTrue
<1>4. ASSUME NEW w \in T!Writers, NEW n \in Msgs, T!Send(w, n)
      PROVE  ReactionsTrue'
  <2> DEFINE e == [kind |-> "created", id |-> n, user |-> T!UserOf(w), from |-> w]
  <2>1. outbox' = outbox \cup {e} /\ UNCHANGED <<deleted, reacts, view, toggle, skewed>>
    BY <1>4 DEF T!Send, T!gatewayVars, T!historyVars
  <2>2. n \notin InTable /\ InTable' = InTable \cup {n}
    BY <1>4, SendTable
  <2>3. e.kind = "created"
    OBVIOUS
  <2> HIDE DEF e
  <2>4. \A u, m : Changes(u, m)' = Changes(u, m)
    BY <1>2, <2>1, <2>3 DEF Changes, OnTheirWay
  <2>5. ASSUME NEW u \in T!Users, NEW m \in InTable \ deleted
        PROVE  Reaction(u, m)'
    BY <1>3, <2>1, <2>4, ReactionStays
  <2>6. ASSUME NEW u \in T!Users
        PROVE  Reaction(u, n)'
    <3>1. Changes(u, n) = {} /\ \A i \in DOMAIN view : view[i].id # n
      BY <2>2 DEF TableHas, Changes, T!Shown
    <3>2. toggle.id # n
      BY <2>2 DEF TableHas, T!NoToggle
    <3> QED BY <2>1, <2>4, <3>1, <3>2 DEF Reaction
  <2> QED BY <2>1, <2>2, <2>5, <2>6 DEF ReactionsTrue
<1>5. ASSUME UNCHANGED stored, deleted \subseteq deleted',
             \A u \in T!Users, m \in InTable \ deleted : Reaction(u, m)'
      PROVE  ReactionsTrue'
  BY <1>5 DEF ReactionsTrue, InTable
<1>6. ASSUME NEW w \in T!Writers, NEW n \in Msgs, T!Delete(w, n)
      PROVE  ReactionsTrue'
  <2> DEFINE I == {i \in DOMAIN view : view[i].id # n}
             v == T!Kept(view, I)
  <2>1. /\ view' \in {view, v} /\ UNCHANGED <<stored, reacts, outbox, toggle, skewed>>
        /\ deleted \subseteq deleted'
    BY <1>6 DEF T!Delete, T!historyVars
  <2>2. I \in SUBSET DOMAIN view
    OBVIOUS
  <2> HIDE DEF I
  <2>3. PICK at : Picked(v, view, I, at)
    BY <1>1, <2>2, KeptPicks
  <2> HIDE DEF v
  <2>4. \A k \in DOMAIN v : \E j \in DOMAIN view : v[k] = view[j]
    BY <2>2, <2>3 DEF Picked
  <2>5. \A u, m : Changes(u, m)' = Changes(u, m)
    BY <1>2, <2>1 DEF Changes, OnTheirWay
  <2>6. ASSUME NEW u \in T!Users, NEW m \in InTable \ deleted
        PROVE  Reaction(u, m)'
    BY <1>3, <2>1, <2>4, <2>5, ReactionStays
  <2> QED BY <1>5, <2>1, <2>6
<1>7. ASSUME NEW w \in T!Writers, NEW n \in Msgs, NEW on \in BOOLEAN, T!ReactElsewhere(w, n, on)
      PROVE  ReactionsTrue'
  <2> DEFINE u0 == T!UserOf(w)
  <2>1. /\ w # "tab" /\ T!React(w, n, on) /\ UNCHANGED <<stored, deleted, view, toggle>>
        /\ skewed' = (IF w = "device" \/ T!Unordered(u0, n) THEN skewed \cup {<<u0, n>>} ELSE skewed)
    BY <1>7 DEF T!ReactElsewhere
  <2>2. <<u0, n>> \in skewed' \/ (u0 = "peer" /\ ~T!Unordered(u0, n))
    BY <2>1 DEF T!Writers, T!UserOf
  <2> HIDE DEF u0
  <2>3. /\ \A v, x : <<v, x>> # <<u0, n>> =>
             (<<v, x>> \in reacts' <=> <<v, x>> \in reacts) /\ Changes(v, x)' = Changes(v, x)
        /\ <<u0, n>> \in reacts' <=> on
        /\ Changes(u0, n)' # {}
        /\ T!Unordered(u0, n) \/ \A e \in Changes(u0, n)' : e.kind = "added" <=> on
    BY <1>2, <2>1, Reacted DEF u0
  <2>4. ASSUME NEW u \in T!Users, NEW m \in InTable \ deleted
        PROVE  Reaction(u, m)'
    <3>1. CASE <<u, m>> = <<u0, n>>
      BY <2>2, <2>3, <3>1 DEF Reaction
    <3>2. CASE <<u, m>> # <<u0, n>>
      <4>1. (<<u, m>> \in reacts' <=> <<u, m>> \in reacts) /\ Changes(u, m)' = Changes(u, m)
        BY <2>3, <3>2
      <4>2. <<u, m>> \in skewed => <<u, m>> \in skewed'
        BY <2>1
      <4> QED BY <1>3, <2>1, <4>1, <4>2, ReactionStays
    <3> QED BY <3>1, <3>2
  <2> QED BY <1>5, <2>1, <2>4
<1>8. ASSUME NEW n \in Msgs, T!Click(n)
      PROVE  ReactionsTrue'
  <2> DEFINE at == CHOOSE i \in DOMAIN view :
                     view[i].id = n /\ \A j \in 1 .. i - 1 : view[j].id # n
             on == "me" \notin view[at].reacts
  <2>1. /\ toggle = T!NoToggle /\ n \in T!Shown /\ toggle' = [id |-> n, on |-> on]
        /\ view' = T!Mark(view, n, "me", on) /\ skewed \subseteq skewed'
        /\ UNCHANGED <<stored, deleted, reacts, outbox>>
    BY <1>8 DEF T!Click, T!serverVars
  <2>2. at \in DOMAIN view /\ view[at].id = n
    <3> DEFINE H == {i \in DOMAIN view : view[i].id = n}
    <3>1. DOMAIN view = 1 .. Len(view) /\ Len(view) \in Nat
      BY <1>1
    <3>2. H # {} /\ H \subseteq Nat
      BY <2>1, <3>1 DEF T!Shown
    <3>3. PICK i \in H : \A j \in H : i <= j
      <4> HIDE DEF H
      <4> QED BY <3>2, Least
    <3>4. i \in DOMAIN view /\ view[i].id = n /\ \A j \in 1 .. i - 1 : view[j].id # n
      BY <3>1, <3>3
    <3> QED BY <3>4
  <2> HIDE DEF at
  <2>3. on \in BOOLEAN /\ toggle'.id = n /\ toggle'.on = on /\ toggle.id \notin Msgs
    BY <2>1 DEF T!NoToggle
  <2>4. <<"me", n>> \in skewed \/ n \notin InTable \ deleted \/ (on <=> <<"me", n>> \notin reacts)
    <3>1. n \notin InTable \ deleted \/ Reaction("me", n)
      BY <1>3 DEF T!Users
    <3> QED BY <2>2, <2>3, <3>1 DEF Reaction
  <2> HIDE DEF on
  <2>5. /\ DOMAIN view' = DOMAIN view
        /\ \A i \in DOMAIN view :
             /\ view'[i].id = view[i].id
             /\ view[i].id # n => view'[i] = view[i]
             /\ view[i].id = n => /\ "me" \in view'[i].reacts <=> on
                                  /\ "peer" \in view'[i].reacts <=> "peer" \in view[i].reacts
    BY <1>1, <2>1, <2>3, ClickMarks
  <2>6. \A u, m : Changes(u, m)' = Changes(u, m)
    BY <1>2, <2>1 DEF Changes, OnTheirWay
  <2>7. ASSUME NEW u \in T!Users, NEW m \in InTable \ deleted
        PROVE  Reaction(u, m)'
    <3>1. CASE u = "me" /\ m = n
      <4>1. Reaction("me", n)
        BY <1>3, <2>7, <3>1
      <4>2. ASSUME NEW i \in DOMAIN view', view'[i].id = n
            PROVE  "me" \in view'[i].reacts <=> on
        BY <2>5, <4>2
      <4> QED BY <2>1, <2>3, <2>4, <2>6, <3>1, <4>1, <4>2 DEF Reaction
    <3>2. CASE ~(u = "me" /\ m = n)
      <4>1. \A i \in DOMAIN view' : view'[i].id = m =>
              \E j \in DOMAIN view : view[j].id = m /\ (u \in view[j].reacts <=> u \in view'[i].reacts)
        BY <2>5, <3>2 DEF T!Users
      <4>2. u = "me" => toggle'.id # m /\ toggle.id # m
        BY <1>1, <2>3, <3>2
      <4> QED BY <1>3, <2>1, <2>6, <4>1, <4>2, ReactionStays
    <3> QED BY <3>1, <3>2
  <2> QED BY <1>5, <2>1, <2>7
<1>9. ASSUME NEW n \in Msgs, T!ShowSent(n)
      PROVE  ReactionsTrue'
  <2> DEFINE x == [id |-> n, reacts |-> {}]
             es == <<x>>
  <2>1. /\ view' = Append(view, x) /\ UNCHANGED <<stored, deleted, reacts, outbox, toggle>>
        /\ skewed' = skewed \cup T!Stale(es)
    BY <1>9 DEF T!ShowSent, T!serverVars
  <2>2. x \in Entries /\ x.id = n
    BY <1>1 DEF Entries
  <2>3. x \in T!Range(es)
    BY DEF T!Range
  <2> HIDE DEF x, es
  <2>4. T!Range(view') = T!Range(view) \cup {x}
    BY <1>1, <2>1, <2>2, Ranges
  <2>5. \A u, m : Changes(u, m)' = Changes(u, m)
    BY <1>2, <2>1 DEF Changes, OnTheirWay
  <2>6. ASSUME NEW u \in T!Users, NEW m \in InTable \ deleted
        PROVE  Reaction(u, m)'
    <3>1. ASSUME NEW i \in DOMAIN view', view'[i].id = m
          PROVE  \/ \E j \in DOMAIN view : view[j].id = m /\ (u \in view[j].reacts <=> u \in view'[i].reacts)
                 \/ <<u, m>> \in skewed'
                 \/ (u \in view'[i].reacts <=> <<u, m>> \in reacts) /\ (u = "me" => toggle.id # m)
      <4> DEFINE y == view'[i]
      <4>1. y \in T!Range(view) \cup {x} /\ y.id = m
        BY <2>4, <3>1 DEF T!Range
      <4> HIDE DEF y
      <4>2. CASE y \in T!Range(view)
        BY <4>1, <4>2 DEF T!Range, y
      <4>3. CASE y = x
        BY <2>1, <2>3, <4>1, <4>3, AnswerTold DEF y
      <4> QED BY <4>1, <4>2, <4>3
    <3> QED BY <1>3, <2>1, <2>5, <3>1, ReactionShown
  <2> QED BY <1>5, <2>1, <2>6
<1>10. ASSUME NEW ok \in BOOLEAN, T!ToggleDone(ok)
       PROVE  ReactionsTrue'
  <2>0. PICK n : n = toggle.id
    OBVIOUS
  <2>9. PICK on \in BOOLEAN, off \in BOOLEAN : on = toggle.on /\ off = ~toggle.on
    BY <1>1
  <2>1. /\ toggle # T!NoToggle /\ toggle' = T!NoToggle /\ UNCHANGED <<stored, deleted>>
        /\ \/ T!React("tab", n, on) /\ view' = view
           \/ view' = T!Mark(view, n, "me", off) /\ UNCHANGED <<reacts, outbox>>
        /\ skewed' = (IF T!Unordered("me", n) THEN skewed \cup {<<"me", n>>} ELSE skewed)
    BY <1>10, <2>0, <2>9 DEF T!ToggleDone
  <2>2. n \in InTable /\ toggle'.id \notin Msgs /\ (off <=> ~on)
    BY <1>1, <2>0, <2>9, <2>1 DEF TableHas, T!NoToggle
  <2>3. ASSUME n \notin deleted, <<"me", n>> \notin skewed
        PROVE  on <=> <<"me", n>> \notin reacts
    BY <1>3, <2>0, <2>9, <2>2, <2>3 DEF Reaction, T!Users
  <2> SUFFICES ASSUME NEW u \in T!Users, NEW m \in InTable \ deleted
               PROVE  Reaction(u, m)'
    BY <1>5, <2>1
  <2>4. Reaction(u, m) /\ (<<u, m>> \in skewed => <<u, m>> \in skewed') /\ toggle'.id # m
    BY <1>1, <1>3, <2>1, <2>2
  <2>5. CASE T!React("tab", n, on) /\ view' = view
    <3> DEFINE w == "tab"
               u0 == "me"
    <3>1. u0 = T!UserOf(w) /\ T!React(w, n, on)
      BY <2>5 DEF T!UserOf
    <3> HIDE DEF w, u0
    <3>2. /\ \A v, x : <<v, x>> # <<u0, n>> =>
               (<<v, x>> \in reacts' <=> <<v, x>> \in reacts) /\ Changes(v, x)' = Changes(v, x)
          /\ <<u0, n>> \in reacts' <=> on
          /\ T!Unordered(u0, n) \/ \A e \in Changes(u0, n)' : e.kind = "added" <=> on
      BY <1>2, <3>1, Reacted
    <3>3. CASE <<u, m>> = <<u0, n>>
      <4>1. u = "me" /\ m = n /\ toggle.id = m
        BY <2>0, <2>9, <3>3 DEF u0
      <4>2. <<u, m>> \in skewed' \/ \A e \in Changes(u, m)' : e.kind = "added" <=> on
        <5>1. T!Unordered(u, m) \/ \A e \in Changes(u, m)' : e.kind = "added" <=> on
          BY <3>2, <3>3
        <5>2. T!Unordered(u, m) => <<u, m>> \in skewed'
          BY <2>1, <4>1
        <5> QED BY <5>1, <5>2
      <4>3. ASSUME NEW i \in DOMAIN view, view[i].id = m, <<u, m>> \notin skewed
            PROVE  u \in view[i].reacts <=> on
        BY <2>3, <2>4, <4>1, <4>3 DEF Reaction
      <4> QED BY <2>4, <2>5, <3>2, <3>3, <4>2, <4>3 DEF Reaction
    <3>4. CASE <<u, m>> # <<u0, n>>
      <4>1. (<<u, m>> \in reacts' <=> <<u, m>> \in reacts) /\ Changes(u, m)' = Changes(u, m)
        BY <3>2, <3>4
      <4>2. u = "me" => toggle.id # m
        BY <2>0, <2>9, <3>4 DEF u0
      <4> QED BY <2>4, <2>5, <4>1, <4>2, ReactionStays
    <3> QED BY <3>3, <3>4
  <2>6. CASE view' = T!Mark(view, n, "me", off) /\ UNCHANGED <<reacts, outbox>>
    <3>1. Changes(u, m)' = Changes(u, m)
      BY <1>2, <2>6 DEF Changes, OnTheirWay
    <3>2. /\ DOMAIN view' = DOMAIN view
          /\ \A i \in DOMAIN view :
               /\ view'[i].id = view[i].id
               /\ view[i].id # n => view'[i] = view[i]
               /\ view[i].id = n => /\ "me" \in view'[i].reacts <=> off
                                    /\ "peer" \in view'[i].reacts <=> "peer" \in view[i].reacts
      BY <1>1, <2>2, <2>6, ClickMarks
    <3>3. CASE u = "me" /\ m = n
      <4>1. ASSUME NEW i \in DOMAIN view', view'[i].id = m, <<u, m>> \notin skewed
            PROVE  u \in view'[i].reacts <=> <<u, m>> \in reacts
        BY <2>2, <2>3, <3>2, <3>3, <4>1
      <4> QED BY <2>4, <2>6, <3>1, <4>1 DEF Reaction
    <3>4. CASE ~(u = "me" /\ m = n)
      <4>1. \A i \in DOMAIN view' : view'[i].id = m =>
              \E j \in DOMAIN view : view[j].id = m /\ (u \in view[j].reacts <=> u \in view'[i].reacts)
        BY <3>2, <3>4 DEF T!Users
      <4>2. u = "me" => toggle.id # m
        BY <2>0, <2>9, <3>4
      <4> QED BY <2>4, <2>6, <3>1, <4>1, <4>2, ReactionStays
    <3> QED BY <3>3, <3>4
  <2> QED BY <2>1, <2>5, <2>6
<1> QED BY <1>4, <1>6, <1>7, <1>8, <1>9, <1>10

-----------------------------------------------------------------------------
LEMMA TimelineInit == T!Init => TimelineInv
<1> SUFFICES ASSUME T!Init
             PROVE  TimelineInv
  OBVIOUS
<1> DEFINE a == [kind |-> "page", list |-> << >>]
<1>1. /\ stored = << >> /\ by = [m \in Msgs |-> "none"] /\ outbox = {} /\ inRoom = FALSE
      /\ inbox = << >> /\ missed = << >> /\ view = << >> /\ answers = {a} /\ sent = {}
      /\ toggle = T!NoToggle /\ spliced = FALSE
  BY DEF T!Init
<1>2. a \in Answered /\ a.list = << >> /\ a.kind = "page"
  BY DEF Answered
<1> HIDE DEF a
<1>3. InTable = {} /\ Ids(<< >>) = {} /\ T!Shown = {} /\ OnTheirWay = {}
  BY <1>1, Ranges DEF InTable, Ids, T!Shown, OnTheirWay
<1>4. TimelineTypes
  <2>1. by \in [Msgs -> T!Writers \cup {"none"}]
    BY <1>1
  <2>2. toggle \in [id : Msgs \cup {"none"}, on : BOOLEAN]
    BY <1>1 DEF T!NoToggle
  <2>3. answers \subseteq Answered
    BY <1>1, <1>2
  <2>4. /\ stored \in Seq(Msgs) /\ outbox \subseteq Events /\ inbox \in Seq(Events)
        /\ missed \in Seq(Events) /\ view \in Seq(Entries)
        /\ sent \subseteq Msgs /\ inRoom \in BOOLEAN /\ spliced \in BOOLEAN
    <3>1. \A X : << >> \in Seq(X)
      OBVIOUS
    <3> QED BY <1>1, <3>1
  <2> QED BY <2>1, <2>2, <2>3, <2>4 DEF TimelineTypes
<1>5. TableHas
  BY <1>1, <1>2, <1>3 DEF TableHas
<1>6. NoHoles /\ ReactionsTrue
  BY <1>3 DEF NoHoles, ReactionsTrue
<1>7. InTime
  BY <1>1, <1>2 DEF InTime, Increasing, ListInTime, OlderBefore
<1> QED BY <1>4, <1>5, <1>6, <1>7 DEF TimelineInv

LEMMA TimelineStep ==
  ASSUME PageSize \in Nat, "none" \notin Msgs, TimelineInv, [T!Next]_(T!vars)
  PROVE  TimelineInv'
<1>1. TimelineTypes /\ TableHas /\ NoHoles /\ InTime /\ ReactionsTrue
  BY DEF TimelineInv
<1>2. CASE \/ T!JoinRoom \/ T!LeaveRoom \/ T!Receive
           \/ \E e \in outbox : T!Publish(e)
  <2>1. TimelineTypes' /\ TableHas'
    BY <1>1, <1>2, ConnectionTypes
  <2>2. NoHoles'
    BY <1>1, <1>2, ConnectionHoles
  <2>3. InTime'
    BY <1>1, <1>2, ConnectionTime
  <2>4. ReactionsTrue'
    BY <1>1, <1>2, ConnectionReacts
  <2> QED BY <2>1, <2>2, <2>3, <2>4 DEF TimelineInv
<1>3. CASE \/ T!Reload \/ T!Resync \/ T!LoadMore
           \/ \E f \in answers : T!Apply(f) \/ T!FetchFails(f)
  <2>1. TimelineTypes' /\ TableHas'
    BY <1>1, <1>3, FetchTypes
  <2>2. NoHoles'
    BY <1>1, <1>3, FetchHoles
  <2>3. InTime'
    BY <1>1, <1>3, FetchTime
  <2>4. ReactionsTrue'
    BY <1>1, <1>3, FetchReacts
  <2> QED BY <2>1, <2>2, <2>3, <2>4 DEF TimelineInv
<1>4. CASE \/ \E w \in T!Writers, m \in Msgs :
                T!Send(w, m) \/ T!Delete(w, m) \/ \E on \in BOOLEAN : T!ReactElsewhere(w, m, on)
           \/ \E m \in Msgs : T!Click(m) \/ T!ShowSent(m)
           \/ \E on \in BOOLEAN : T!ToggleDone(on)
  <2>1. TimelineTypes' /\ TableHas'
    BY <1>1, <1>4, WriteTypes
  <2>2. NoHoles'
    BY <1>1, <1>4, WriteHoles
  <2>3. InTime'
    BY <1>1, <1>4, WriteTime
  <2>4. ReactionsTrue'
    BY <1>1, <1>4, WriteReacts
  <2> QED BY <2>1, <2>2, <2>3, <2>4 DEF TimelineInv
<1>5. CASE UNCHANGED T!vars
  <2>1. UNCHANGED <<stored, by, deleted, reacts, outbox, inRoom, inbox, missed, view, answers,
                    sent, toggle, unseen, spliced, skewed>>
    BY <1>5 DEF T!vars, T!serverVars, T!gatewayVars, T!historyVars
  <2>2. /\ OnTheirWay' = OnTheirWay /\ InTable' = InTable /\ T!Shown' = T!Shown
        /\ T!NoToggle' = T!NoToggle
    BY <2>1 DEF OnTheirWay, InTable, T!Shown, T!NoToggle
  <2>3. TimelineTypes' /\ TableHas'
    BY <1>1, <2>1, <2>2 DEF TimelineTypes, TableHas
  <2>4. Accounted' = Accounted /\ Reached' = Reached
    BY <2>1, <2>2, WhatComes DEF Accounted, Reached, InAnswers, Told
  <2>5. NoHoles'
    BY <1>1, <2>1, <2>4, HolesStay
  <2>6. InTime'
    BY <1>1, <2>1, TimeStays
  <2>7. ReactionsTrue'
    <3> SUFFICES ASSUME NEW m \in InTable \ deleted, NEW u \in T!Users
                 PROVE  Reaction(u, m)'
      BY <2>1, <2>2 DEF ReactionsTrue
    <3>1. Reaction(u, m) /\ Changes(u, m)' = Changes(u, m)
      BY <1>1, <2>2 DEF ReactionsTrue, Changes
    <3> QED BY <2>1, <3>1, ReactionStays
  <2> QED BY <2>3, <2>5, <2>6, <2>7 DEF TimelineInv
<1>6. T!Next \/ UNCHANGED T!vars
  OBVIOUS
<1> QED BY <1>2, <1>3, <1>4, <1>5, <1>6 DEF T!Next, T!Environment, T!System

LEMMA TimelineReached ==
  ASSUME "none" \notin Msgs, TimelineInv
  PROVE  T!ListExplained /\ T!ReactionsExplained
<1>1. /\ TimelineTypes /\ TableHas /\ NoHoles /\ InTime /\ ReactionsTrue
      /\ stored \in Seq(Msgs) /\ view \in Seq(Entries)
  BY DEF TimelineInv, TimelineTypes
<1>2. T!Settled => OnTheirWay = {} /\ answers = {} /\ sent = {} /\ toggle.id \notin Msgs
  BY <1>1, Ranges DEF T!Settled, TableHas, OnTheirWay, T!NoToggle
<1>3. T!HolesExplained
  <2> SUFFICES ASSUME T!Settled, NEW i \in DOMAIN stored,
                      stored[i] \notin deleted \cup T!Shown \cup unseen,
                      NEW m \in T!Shown
               PROVE  T!Pos(m) > i
    BY DEF T!HolesExplained
  <2> DEFINE x == stored[i]
  <2>1. x \in InTable /\ m \in InTable /\ T!Pos(x) = i
    BY <1>1, TableOrdered DEF InTable, T!Range, TableHas
  <2>2. m \in Reached
    BY DEF Reached
  <2>3. T!Coming = {}
    BY <1>2, WhatComes DEF InAnswers, Told
  <2>4. x \notin Accounted
    BY <2>3 DEF Accounted
  <2> HIDE DEF x
  <2>5. ~(T!Pos(m) < i) /\ m # x
    BY <1>1, <2>1, <2>2, <2>4 DEF NoHoles, x
  <2>6. T!Pos(m) \in Nat /\ T!Pos(m) # i /\ i \in Nat
    BY <1>1, <2>1, <2>5, TableOrdered
  <2> QED BY <2>5, <2>6
<1>4. T!DuplicatesExplained
  <2> SUFFICES ASSUME NEW i \in DOMAIN view, NEW j \in DOMAIN view, i # j,
                      view[i].id = view[j].id, by[view[i].id] # "tab", ~spliced
               PROVE  FALSE
    BY DEF T!DuplicatesExplained
  <2>1. ListInTime(view)
    BY <1>1 DEF InTime
  <2>2. i \in Nat /\ j \in Nat
    BY <1>1
  <2>3. view[i].id \in InTable
    BY <1>1 DEF TableHas, T!Shown
  <2>4. T!Pos(view[i].id) \in Nat
    BY <1>1, <2>3, TableOrdered
  <2>5. CASE i < j
    BY <2>1, <2>4, <2>5 DEF ListInTime
  <2>6. CASE j < i
    BY <2>1, <2>4, <2>6 DEF ListInTime
  <2> QED BY <2>2, <2>5, <2>6
<1>5. T!ReactionsExplained
  <2> SUFFICES ASSUME T!Settled, NEW i \in DOMAIN view, NEW u \in T!Users,
                      <<u, view[i].id>> \notin skewed, view[i].id \notin deleted
               PROVE  u \in view[i].reacts <=> <<u, view[i].id>> \in reacts
    BY DEF T!ReactionsExplained
  <2> DEFINE m == view[i].id
  <2>1. m \in InTable
    BY <1>1 DEF TableHas, T!Shown
  <2>2. m \in Msgs /\ Reaction(u, m) /\ Changes(u, m) = {}
    BY <1>1, <1>2, <2>1, TableOrdered DEF ReactionsTrue, Changes
  <2>3. toggle.id # m
    BY <1>2, <2>2
  <2> QED BY <2>2, <2>3 DEF Reaction
<1> QED BY <1>3, <1>4, <1>5 DEF T!ListExplained

-----------------------------------------------------------------------------
(* The parts together.                                                     *)

\* A step of MCDmPage is one of the part that runs.
LEMMA PartsStep ==
  ASSUME [Next]_vars
  PROVE  /\ part' = part
         /\ part = "keys" => [K!Next]_(K!keyVars)
         /\ part = "sessions" => [S!Next]_(S!olmVars)
         /\ part = "attachments" => [A!Next]_(A!attVars)
         /\ part = "timeline" => [T!Next]_(T!vars)
         /\ part = "index" => [L!Next]_(L!vars)
         /\ part = "search" => [F!Next]_(F!vars)
<1>1. CASE UNCHANGED vars
  BY <1>1 DEF vars, K!keyVars, K!wrapVars, S!olmVars, A!attVars, T!vars, T!serverVars, T!gatewayVars,
              T!historyVars, L!vars, L!tableVars, L!pageVars, L!modalVars, F!vars, F!tableVars,
              F!modalVars
<1>2. CASE Next
  BY <1>2 DEF Next
<1> QED
  BY <1>1, <1>2

\* saveSession of lib/olm-protocol-store takes no lock: for any number of
\* runs of the decrypt effect and of messages, two messages of this device
\* share an index only if a save was torn, and a message that cannot be
\* opened was opened before, was in two runs at once, or has a twin.
THEOREM RatchetAgrees ==
  ASSUME MaxMsgs \in Nat
  PROVE  Spec => []RatchetAccounted
<1> DEFINE Inv == part = "sessions" => SessionInv
<1>1. Init => Inv
  BY SessionInit DEF Init
<1>2. Inv /\ [Next]_vars => Inv'
  BY PartsStep, SessionStep
<1>3. Inv => RatchetAccounted
  BY DEF RatchetAccounted, SessionInv, Ahead, FailuresExplained, Explained,
         S!RatchetAccounted, S!FailureExplained
<1> QED
  BY <1>1, <1>2, <1>3, PTL DEF Spec

\* app/api/dm/olm/keys against the account in IndexedDB that any number of
\* tabs load and save without a lock, for any size of a batch and of the
\* stock: no key is given out twice, a key on offer can be answered from an
\* account that can be opened unless a save from another tab dropped its
\* private half or two tabs set the device up at once, and the identity served
\* is the browser's unless two tabs set the device up at once.
THEOREM KeysAgree ==
  ASSUME Batch \in Nat, MaxIdents \in Nat \ {0}
  PROVE  Spec => []KeysAccounted
<1> DEFINE Inv == part = "keys" => KeyInv /\ Sealed
<1>1. Init => Inv
  BY KeyInit, SealedInit DEF Init
<1>2. Inv /\ [Next]_vars => Inv'
  BY PartsStep, KeyStep, SealedStep
<1>3. Inv => KeysAccounted
  BY KeysCounted DEF KeysAccounted
<1> QED
  BY <1>1, <1>2, <1>3, PTL DEF Spec

\* The composer, handleDmSend, the attachments API and the decay job, for any
\* texts and files, any number of uploads and messages: whatever request fails
\* or is lost, what the user entered is in the composer, on its way, posted, or
\* was dropped by the user or in favour of an older send; an item is posted
\* twice only after a send of it failed; and the files on disk and the rows of
\* dm_attachments agree but for what was left behind, could not be removed or
\* came too late.
THEOREM SendsHold ==
  ASSUME Texts \cap Files = {}, A!None \notin A!Items
  PROVE  Spec => []SendsAccounted
<1> DEFINE Inv == part = "attachments" => AttachmentInv
<1>1. Init => Inv
  BY AttachmentInit DEF Init
<1>2. Inv /\ [Next]_vars => Inv'
  BY PartsStep, AttachmentStep
<1>3. Inv => SendsAccounted
  BY AttachmentReached DEF SendsAccounted
<1> QED
  BY <1>1, <1>2, <1>3, PTL DEF Spec

\* lib/local-search-index with what feeds it, and api/search with its dialog, for
\* any number of messages, words and documents: a word leads to the documents
\* that have it, the index follows the page but for what the cap or an answer to
\* another page took out, and either dialog lists what its query finds, all of
\* it up to its limit, but for what has changed since.
THEOREM SearchHolds ==
  ASSUME MaxDocs \in Nat, MaxFound \in Nat, Cap \in Nat \ {0},
         Queries \subseteq SUBSET L!Words, F!None \notin Phrases
  PROVE  Spec => []SearchTrue
<1> DEFINE Inv == /\ part = "index" => IndexInv
                  /\ part = "search" => AnswerInv
<1>1. Init => Inv
  BY IndexInit, AnswerInit DEF Init
<1>2. Inv /\ [Next]_vars => Inv'
  BY PartsStep, IndexStep, AnswerStep
<1>3. Inv => SearchTrue
  BY IndexReached, AnswerReached DEF SearchTrue
<1> QED
  BY <1>1, <1>2, <1>3, PTL DEF Spec

\* components/dm/dm-channel-area with the routes and the gateway that fill its
\* list, for any number of messages, any size of a page and any number of faults:
\* once nothing is on its way, a message newer than one on screen is on screen
\* unless the tab was never told of it, a page took it off or the late event of
\* an older message went below the page; an entry is there twice only if the tab
\* sent it or the list changed under an older page; and the reactions are those
\* stored but for changes that the tab could not have ordered.
THEOREM ListHolds ==
  ASSUME PageSize \in Nat, "none" \notin Msgs
  PROVE  Spec => []ListExplained
<1> DEFINE Inv == part = "timeline" => TimelineInv
<1>1. Init => Inv
  BY TimelineInit DEF Init
<1>2. Inv /\ [Next]_vars => Inv'
  BY PartsStep, TimelineStep
<1>3. Inv => ListExplained
  BY TimelineReached DEF ListExplained
<1> QED
  BY <1>1, <1>2, <1>3, PTL DEF Spec
=============================================================================
