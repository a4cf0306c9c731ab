------------------------- MODULE ConversationsProofs -------------------------
(***************************************************************************)
(* The safety properties of Conversations for any number of users,         *)
(* channels, messages and requests.                                        *)
(*                                                                         *)
(* The five properties are about separate parts of the state, so there is  *)
(* one invariant for each, over a common ground (TypeOK and Grounded): what*)
(* a request that is waiting for its body, or a callback that has not run, *)
(* may still assume of the channel it is about.                            *)
(***************************************************************************)
EXTENDS Conversations, TLAPS, FiniteSetTheorems, SequenceTheorems

\* Nothing refers to a channel that is not open, and members are only ever
\* added to groups.
Grounded ==
  /\ \A u \in Users : req[u].pc # "idle" =>
       /\ req[u].chan \in Chans
       /\ chan[req[u].chan].open
       /\ req[u].pc \in {"add", "removed"} => req[u].who \in Users
       /\ req[u].pc = "add" => chan[req[u].chan].group
  /\ \A p \in members : chan[p[2]].open
  /\ \A t \in DOMAIN todo : chan[t.chan].open
  /\ \A c \in Chans : log[c] # << >> \/ chan[c].group => chan[c].open

\* One row for a pair of users.
OneRow ==
  /\ \A r \in friends : r.req # r.addr
  /\ \A r, s \in friends : {r.req, r.addr} = {s.req, s.addr} => r = s

\* One 1:1 channel of a kind for a pair of users.
OneDirect ==
  \A u, v \in Users, enc \in BOOLEAN : u # v =>
    \A c, d \in Direct(u, v, enc) : c = d

\* What the send handler found out still holds.
Fresh(u) ==
  LET c == req[u].chan
  IN  /\ <<u, c>> \in members
      /\ ~BlockedIn(u, c)
      /\ chan[c].scheme = "legacy-ecdh" => req[u].ver = chan[c].ver

SendFresh ==
  \A u \in Users : req[u].pc = "send" /\ u \notin graced => Fresh(u)

\* The changes of a user's membership that are not in the log yet.
Unlogged(u, c) == {t \in DOMAIN todo : t.chan = c /\ t.target = u}
Removers(u, c) ==
  {v \in Users : req[v].pc = "removed" /\ req[v].chan = c /\ req[v].who = u}

\* Without an overlap there is at most one, and the members already tell it.
OneChangeOf(u, c) ==
  /\ \A s, t \in Unlogged(u, c) : s = t
  /\ \A t \in Unlogged(u, c) :
       todo[t] = 1 /\ (t.act = "added" <=> <<u, c>> \in members)
  /\ \A v, w \in Removers(u, c) : v = w
  /\ Unlogged(u, c) = {} \/ Removers(u, c) = {}
  /\ Removers(u, c) # {} => <<u, c>> \notin members

OneChange ==
  \A u \in Users, c \in Chans : <<u, c>> \notin overlap => OneChangeOf(u, c)

\* What came before an older entry of the log has an entry with a device's
\* timestamp among those about the same user.
SignedEntry(u, c) == \E i \in DOMAIN log[c] : log[c][i].target = u /\ log[c][i].signed

MisdatedSigned ==
  \A u \in Users, c \in Chans : <<u, c>> \in misdated => SignedEntry(u, c)

\* How far a channel is read, and what its reader has seen.
ReadState ==
  /\ \A i \in DOMAIN order : msg[order[i]].state # "none"
  /\ \A p \in seen : msg[p[2]].state # "none"
  /\ \A u \in Users, c \in Chans : lastRead[u][c] <= Len(order)
  /\ \A u \in Users, c \in Chans : <<u, c>> \notin skipped =>
       \A i \in Live(c) : i <= lastRead[u][c] => <<u, order[i]>> \in seen \ unmarked
  /\ \A u \in Users, c \in Chans : \A i \in Live(c) :
       <<u, order[i]>> \in seen \ unmarked => i <= lastRead[u][c]

ConversationInv ==
  /\ TypeOK /\ Grounded
  /\ OneRow /\ OneDirect /\ SendFresh /\ OneChange
  /\ MisdatedSigned /\ LogTellsMembers /\ ReadState

-----------------------------------------------------------------------------
(* Lemmas about the records, the requests and the bag of callbacks.        *)

Channel == [open : BOOLEAN, group : BOOLEAN,
            scheme : {None, "olm", "legacy-ecdh"},
            owner : Users \cup {None}, ver : Nat]
Message == [chan : Chans \cup {None}, sender : Users \cup {None},
            state : {"none", "live", "deleted"},
            reply : Msgs \cup {None}, ver : Nat]
Waiting == [pc : {"idle", "add", "removed", "send"},
             chan : Chans \cup {None}, who : Users \cup {None}, ver : Nat]
Callback == [chan : Chans, act : Changes, actor : Users, target : Users,
             signed : BOOLEAN]
LogEntry == [act : Changes, target : Users, signed : BOOLEAN]

Recorded(t) == \E at \in Slots(t) : RecordEvent(t, at)

\* A set of users can be counted.
LEMMA UsersCounted ==
  ASSUME NEW S, S \subseteq Users
  PROVE  IsFiniteSet(S) /\ Cardinality(S) \in Nat
<1>1. IsFiniteSet(S)
  BY FS_Subset, ConversationAssumption
<1> QED
  BY <1>1, FS_CardinalityType

\* The records that the handlers put into the tables.
LEMMA RecordTypes ==
  /\ NoChan \in Channel /\ NoMsg \in Message /\ Idle \in Waiting
  /\ \A u \in Users, all \in SUBSET Users : Legacy(u, all) \in Channel
  /\ \A c \in Chans, act \in Changes, u, v \in Users, signed \in BOOLEAN :
       Entry(c, act, u, v, signed) \in Callback
  BY DEF NoChan, Channel, NoMsg, Message, Idle, Waiting, Legacy, Entry,
         Callback, Changes

\* What the two triggers do to a channel.
LEMMA RotatedChannel ==
  ASSUME TypeOK, NEW c \in Chans, NEW n \in Nat
  PROVE  /\ Rotated(c, n) \in [Chans -> Channel]
         /\ \A d \in Chans : /\ Rotated(c, n)[d].open = chan[d].open
                             /\ Rotated(c, n)[d].group = chan[d].group
                             /\ Rotated(c, n)[d].owner = chan[d].owner
                             /\ Rotated(c, n)[d].scheme = chan[d].scheme
                             /\ d # c => Rotated(c, n)[d] = chan[d]
<1> DEFINE w == IF chan[c].scheme # None THEN chan[c].ver + n ELSE chan[c].ver
           r == [chan[c] EXCEPT !.ver = w]
<1>1. chan \in [Chans -> Channel] /\ chan[c] \in Channel
  BY DEF TypeOK, Channel
<1>2. w \in Nat
  BY <1>1 DEF Channel
<1>3. Rotated(c, n) = [chan EXCEPT ![c] = r]
  BY <1>1 DEF Rotated
<1> HIDE DEF w
<1>4. /\ r \in Channel /\ r.open = chan[c].open /\ r.group = chan[c].group
      /\ r.owner = chan[c].owner /\ r.scheme = chan[c].scheme
  BY <1>1, <1>2 DEF Channel
<1> HIDE DEF r
<1> QED
  BY <1>1, <1>3, <1>4

\* One callback more, and one callback fewer.
LEMMA BagAdd ==
  ASSUME NEW B, IsABag(B), NEW S
  PROVE  LET C == B (+) SetToBag(S)
         IN  /\ IsABag(C) /\ DOMAIN C = DOMAIN B \cup S
             /\ \A t \in DOMAIN B : t \notin S => C[t] = B[t]
             /\ \A t \in S : t \notin DOMAIN B => C[t] = 1
  BY DEF IsABag, (+), SetToBag

LEMMA BagAddOne ==
  ASSUME NEW B, IsABag(B), NEW t
  PROVE  /\ DOMAIN (B (+) SetToBag({t})) = DOMAIN B \cup {t}
         /\ \A s \in DOMAIN B : s # t => (B (+) SetToBag({t}))[s] = B[s]
         /\ t \notin DOMAIN B => (B (+) SetToBag({t}))[t] = 1
<1> DEFINE O == SetToBag({t})
           C == B (+) O
<1>1. O = [e \in {t} |-> 1]
  BY DEF SetToBag
<1>2. B (+) O = [e \in DOMAIN B \cup DOMAIN O |->
                   (IF e \in DOMAIN B THEN B[e] ELSE 0)
                     + (IF e \in DOMAIN O THEN O[e] ELSE 0)]
  BY DEF (+)
<1>3. \A s \in DOMAIN B : B[s] \in Nat
  BY DEF IsABag
<1> HIDE DEF O
<1>4. C = [e \in DOMAIN B \cup {t} |->
             (IF e \in DOMAIN B THEN B[e] ELSE 0) + (IF e \in {t} THEN 1 ELSE 0)]
  BY <1>1, <1>2
<1> HIDE DEF C
<1>5. /\ DOMAIN C = DOMAIN B \cup {t}
      /\ \A s \in DOMAIN B : s # t => C[s] = B[s]
      /\ t \notin DOMAIN B => C[t] = 1
  BY <1>3, <1>4
<1> QED
  BY <1>5 DEF C, O

LEMMA BagTake ==
  ASSUME NEW B, IsABag(B), NEW t \in DOMAIN B
  PROVE  LET C == B (-) SetToBag({t})
         IN  /\ IsABag(C)
             /\ DOMAIN C \subseteq DOMAIN B
             /\ t \in DOMAIN C => B[t] # 1
             /\ \A s \in DOMAIN B : s # t => s \in DOMAIN C /\ C[s] = B[s]
  BY DEF IsABag, (-), SetToBag

\* A request put in place of another one.
LEMMA PutRequest ==
  ASSUME TypeOK, NEW u \in Users, NEW r \in Waiting,
         req' = [req EXCEPT ![u] = r]
  PROVE  /\ req' \in [Users -> Waiting]
         /\ req'[u] = r
         /\ \A v \in Users : v # u => req'[v] = req[v]
  BY DEF TypeOK, Waiting

-----------------------------------------------------------------------------
\* Every step keeps the variables in their types.
LEMMA FriendRows ==
  ASSUME friends \in SUBSET Row, NEW u \in Users, FriendStep(u)
  PROVE  friends' \in SUBSET Row
<1> USE DEF Row
<1>1. friends \in SUBSET Row
  OBVIOUS
<1>2. \A r \in Row : [r EXCEPT !.status = "accepted"] \in Row
  OBVIOUS
<1>3. ASSUME NEW v \in Users, RequestFriend(u, v) PROVE friends' \in SUBSET Row
  BY <1>1, <1>2, <1>3 DEF RequestFriend, Replace, RowsOf
<1>4. ASSUME NEW r \in friends,
             \/ AcceptFriend(u, r) \/ DeclineFriend(u, r)
             \/ BlockFriend(u, r) \/ RemoveFriend(u, r)
      PROVE  friends' \in SUBSET Row
  BY <1>1, <1>2, <1>4
  DEF AcceptFriend, DeclineFriend, BlockFriend, RemoveFriend, Replace
<1> QED
  BY <1>3, <1>4 DEF FriendStep

LEMMA AskType ==
  ASSUME TypeOK, NEW u \in Users, Ask(u)
  PROVE  ops' \in Nat
  BY DEF Ask, TypeOK

\* A page of a channel is of its messages that are not deleted.
LEMMA PageIsLive ==
  ASSUME TypeOK, NEW c \in Chans, NEW before
  PROVE  /\ Page(c, before) \subseteq {order[i] : i \in Live(c)}
         /\ Page(c, before) \in SUBSET Msgs
         /\ \A m \in Page(c, before) : msg[m].chan = c /\ msg[m].state = "live"
<1>1. Live(c) \subseteq DOMAIN order /\ \A i \in DOMAIN order : order[i] \in Msgs
  BY DEF Live, TypeOK
<1>2. Page(c, before) \subseteq {order[i] : i \in Live(c)}
  BY DEF Page
<1> QED
  BY <1>1, <1>2 DEF Live

LEMMA RequestType ==
  ASSUME TypeOK, NEW u \in Users, Request(u)
  PROVE  TypeOK'
<1> USE DEF dbVars, shown, logged
<1>1. CASE Friend(u)
  <2>1. friends' \in SUBSET Row
    BY <1>1, FriendRows DEF Friend, TypeOK
  <2> QED
    BY AskType, <1>1, <2>1 DEF Friend, TypeOK
<1>2. ASSUME NEW c \in Chans, NEW others \in SUBSET Users, NEW enc \in BOOLEAN,
             OpenChannel(u, others, enc, c)
      PROVE  TypeOK'
  <2> DEFINE all == others \cup {u}
             group == Cardinality(all) > 2
             new == [open |-> TRUE, group |-> group, owner |-> u,
                     scheme |-> IF enc THEN "olm" ELSE None,
                     ver |-> IF enc THEN 1 + Cardinality(all) ELSE 1]
             added == IF group THEN {Entry(c, "added", u, v, FALSE) : v \in others} ELSE {}
  <2>1. new \in Channel
    <3>1. Cardinality(all) \in Nat
      BY UsersCounted
    <3> QED
      BY <3>1 DEF Channel
  <2>2. /\ chan' = [chan EXCEPT ![c] = new]
        /\ members' = members \cup (all \X {c})
        /\ todo' = todo (+) SetToBag(added)
    BY <1>2 DEF OpenChannel
  <2>3. added \subseteq Callback
    BY RecordTypes DEF Changes
  <2> HIDE DEF new, added
  <2>4. chan' \in [Chans -> Channel]
    BY <2>1, <2>2 DEF TypeOK, Channel
  <2>5. IsABag(todo') /\ DOMAIN todo' \subseteq Callback
    <3>1. IsABag(todo) /\ DOMAIN todo \subseteq Callback
      BY DEF TypeOK, Callback
    <3>2. IsABag(todo') /\ DOMAIN todo' = DOMAIN todo \cup added
      BY <2>2, <3>1, BagAdd
    <3> QED
      BY <2>3, <3>1, <3>2
  <2>6. members' \in SUBSET (Users \X Chans)
    BY <2>2 DEF TypeOK
  <2> QED
    BY AskType, <1>2, <2>4, <2>5, <2>6 DEF OpenChannel, TypeOK, Channel, Callback
<1>3. ASSUME NEW c \in Chans, NEW v \in Users, AddCheck(u, c, v) PROVE TypeOK'
  <2>1. [pc |-> "add", chan |-> c, who |-> v, ver |-> 0] \in Waiting
    BY DEF Waiting
  <2>2. req' \in [Users -> Waiting]
    BY <1>3, <2>1, PutRequest DEF AddCheck
  <2> QED
    BY AskType, <1>3, <2>2 DEF AddCheck, TypeOK, Waiting
<1>4. ASSUME NEW c \in Chans, NEW v \in Users, RemoveRow(u, c, v) PROVE TypeOK'
  <2>1. [pc |-> "removed", chan |-> c, who |-> v, ver |-> 0] \in Waiting
    BY DEF Waiting
  <2>2. req' \in [Users -> Waiting]
    BY <1>4, <2>1, PutRequest DEF RemoveRow
  <2>3. chan' \in [Chans -> Channel]
    <3>1. chan \in [Chans -> Channel]
      BY DEF TypeOK, Channel
    <3>2. Rotated(c, 1) \in [Chans -> Channel]
      BY RotatedChannel
    <3> QED
      BY <1>4, <3>1, <3>2 DEF RemoveRow
  <2>4. /\ members' \in SUBSET (Users \X Chans)
        /\ overlap' \in SUBSET (Users \X Chans)
        /\ graced' \in SUBSET Users
    BY <1>4 DEF RemoveRow, TypeOK, Sending
  <2> QED
    BY AskType, <1>4, <2>2, <2>3, <2>4 DEF RemoveRow, TypeOK, Waiting, Channel
<1>5. ASSUME NEW c \in Chans, SendCheck(u, c) PROVE TypeOK'
  <2>1. [pc |-> "send", chan |-> c, who |-> None, ver |-> chan[c].ver] \in Waiting
    BY DEF Waiting, TypeOK
  <2>2. req' \in [Users -> Waiting]
    BY <1>5, <2>1, PutRequest DEF SendCheck
  <2> QED
    BY AskType, <1>5, <2>2 DEF SendCheck, TypeOK, Waiting
<1>6. ASSUME NEW m \in Msgs, DeleteMessage(u, m) PROVE TypeOK'
  <2>1. msg \in [Msgs -> Message] /\ msg[m] \in Message
    BY DEF TypeOK, Message
  <2>2. [msg[m] EXCEPT !.state = "deleted"] \in Message
    BY <2>1 DEF Message
  <2>3. msg' = [msg EXCEPT ![m] = [msg[m] EXCEPT !.state = "deleted"]]
    BY <1>6, <2>1 DEF DeleteMessage
  <2>4. msg' \in [Msgs -> Message]
    BY <2>1, <2>2, <2>3
  <2> QED
    BY AskType, <1>6, <2>4 DEF DeleteMessage, TypeOK, Message
<1>7. ASSUME NEW c \in Chans, NEW b, ReadChannel(u, c, b) PROVE TypeOK'
  <2>1. seen' \in SUBSET (Users \X Msgs) /\ unmarked' \in SUBSET (Users \X Msgs)
    BY <1>7, PageIsLive DEF ReadChannel, TypeOK
  <2>2. skipped' \in SUBSET (Users \X Chans)
    BY <1>7 DEF ReadChannel, TypeOK
  <2>3. lastRead' \in [Users -> [Chans -> Nat]]
    <3>1. Len(order) \in Nat
      BY DEF TypeOK
    <3> QED
      BY <1>7, <3>1 DEF ReadChannel, TypeOK
  <2> QED
    BY AskType, <1>7, <2>1, <2>2, <2>3 DEF ReadChannel, TypeOK
<1>8. ASSUME NEW ms \in SUBSET Msgs, Ask(u), ShowOnly(u, ms) PROVE TypeOK'
  <2>1. seen' \in SUBSET (Users \X Msgs) /\ unmarked' \in SUBSET (Users \X Msgs)
    BY <1>8 DEF ShowOnly, Unseen, TypeOK
  <2> QED
    BY AskType, <1>8, <2>1 DEF ShowOnly, TypeOK
<1> QED
  BY <1>1, <1>2, <1>3, <1>4, <1>5, <1>6, <1>7, <1>8, PageIsLive
  DEF Request, ReadChannelMarkFails, ReadMessage

LEMMA ContinueType ==
  ASSUME TypeOK, Grounded, NEW u \in Users, Continue(u)
  PROVE  TypeOK'
<1> USE DEF dbVars, shown, logged
<1>1. req' \in [Users -> Waiting]
  <2>1. req' = [req EXCEPT ![u] = Idle]
    BY DEF Continue, AddInsert, RemoveDone, SendInsert, SendRefused
  <2> QED
    BY <2>1, PutRequest, RecordTypes
<1>2. IsABag(todo) /\ DOMAIN todo \subseteq Callback
  BY DEF TypeOK, Callback
<1>3. ASSUME NEW signed \in BOOLEAN, AddInsert(u, signed) PROVE TypeOK'
  <2> DEFINE c == req[u].chan
             v == req[u].who
             one == {Entry(c, "added", u, v, signed)}
  <2>1. c \in Chans /\ v \in Users
    BY <1>3 DEF Grounded, AddInsert
  <2>2. one \subseteq Callback
    BY <2>1, RecordTypes DEF Changes
  <2>3. IsABag(todo') /\ DOMAIN todo' \subseteq Callback
    <3>1. todo' = todo \/ todo' = todo (+) SetToBag(one)
      BY <1>3 DEF AddInsert
    <3> HIDE DEF one
    <3>2. todo' # todo => IsABag(todo') /\ DOMAIN todo' = DOMAIN todo \cup one
      BY <1>2, <3>1, BagAdd
    <3> QED
      BY <1>2, <2>2, <3>2
  <2>4. chan' \in [Chans -> Channel]
    <3>1. chan' = chan \/ chan' = Rotated(c, 1)
      BY <1>3 DEF AddInsert
    <3>2. chan \in [Chans -> Channel]
      BY DEF TypeOK, Channel
    <3>3. Rotated(c, 1) \in [Chans -> Channel]
      BY <2>1, RotatedChannel
    <3> QED
      BY <3>1, <3>2, <3>3
  <2>5. /\ members' \in SUBSET (Users \X Chans)
        /\ overlap' \in SUBSET (Users \X Chans)
        /\ graced' \in SUBSET Users
    BY <1>3, <2>1 DEF AddInsert, TypeOK, Sending
  <2> QED
    BY <1>1, <1>3, <2>3, <2>4, <2>5
    DEF AddInsert, TypeOK, Waiting, Channel, Callback
<1>4. ASSUME NEW signed \in BOOLEAN, RemoveDone(u, signed) PROVE TypeOK'
  <2> DEFINE c == req[u].chan
             v == req[u].who
             one == {Entry(c, IF v = u THEN "left" ELSE "removed", u, v, signed)}
  <2>1. c \in Chans /\ v \in Users
    BY <1>4 DEF Grounded, RemoveDone
  <2>2. one \subseteq Callback
    BY <2>1, RecordTypes DEF Changes
  <2>3. todo' = todo (+) SetToBag(one)
    BY <1>4 DEF RemoveDone
  <2> HIDE DEF one
  <2>4. IsABag(todo') /\ DOMAIN todo' \subseteq Callback
    BY <1>2, <2>2, <2>3, BagAdd
  <2> QED
    BY <1>1, <1>4, <2>4 DEF RemoveDone, TypeOK, Waiting, Callback
<1>5. ASSUME NEW m \in Msgs, NEW reply \in Msgs \cup {None},
             SendInsert(u, m, reply)
      PROVE  TypeOK'
  <2> DEFINE new == [chan |-> req[u].chan, sender |-> u, state |-> "live",
                     reply |-> reply, ver |-> req[u].ver]
  <2>1. new \in Message
    BY DEF Message, TypeOK
  <2>2. msg' = [msg EXCEPT ![m] = new] /\ order' = Append(order, m)
    BY <1>5 DEF SendInsert
  <2> HIDE DEF new
  <2>3. msg' \in [Msgs -> Message] /\ order' \in Seq(Msgs)
    BY <2>1, <2>2 DEF TypeOK, Message
  <2> QED
    BY <1>1, <1>5, <2>3 DEF SendInsert, TypeOK, Waiting, Message
<1>6. CASE SendRefused(u)
  BY <1>1, <1>6 DEF SendRefused, TypeOK, Waiting
<1> QED
  BY <1>3, <1>4, <1>5, <1>6 DEF Continue

\* A sequence with an element put in at a place.
LEMMA InsertAtCells ==
  ASSUME NEW S, NEW s \in Seq(S), NEW e \in S, NEW at \in 1 .. Len(s) + 1
  PROVE  /\ InsertAt(s, at, e) \in Seq(S)
         /\ Len(InsertAt(s, at, e)) = Len(s) + 1
         /\ InsertAt(s, at, e)[at] = e
         /\ \A i \in 1 .. Len(s) : i < at => InsertAt(s, at, e)[i] = s[i]
         /\ \A i \in 1 .. Len(s) : i >= at => InsertAt(s, at, e)[i + 1] = s[i]
<1> DEFINE n == Len(s)
           a == SubSeq(s, 1, at - 1)
           b == SubSeq(s, at, n)
           ab == a \o <<e>>
<1>1. n \in Nat /\ at \in Int /\ 1 <= at /\ at <= n + 1 /\ \A i \in 1 .. n : s[i] \in S
  OBVIOUS
<1>2. /\ a \in Seq(S) /\ Len(a) = at - 1
      /\ \A i \in 1 .. at - 1 : a[i] = s[i]
  BY <1>1, SubSeqProperties
<1>3. /\ b \in Seq(S) /\ Len(b) = n - at + 1
      /\ \A i \in 1 .. n - at + 1 : b[i] = s[at + i - 1]
  BY <1>1, SubSeqProperties
<1>4. InsertAt(s, at, e) = ab \o b
  BY DEF InsertAt
<1> HIDE DEF a, b
<1>5. ab \in Seq(S) /\ Len(ab) = at /\ ab[at] = e /\ \A i \in 1 .. at - 1 : ab[i] = s[i]
  <2>1. <<e>> \in Seq(S) /\ Len(<<e>>) = 1 /\ <<e>>[1] = e
    OBVIOUS
  <2> QED
    BY <1>1, <1>2, <2>1, ConcatProperties
<1> HIDE DEF ab
<1>6. /\ ab \o b \in Seq(S) /\ Len(ab \o b) = n + 1
      /\ \A i \in 1 .. n + 1 : (ab \o b)[i] = IF i <= at THEN ab[i] ELSE b[i - at]
  <2>1. /\ ab \o b \in Seq(S) /\ Len(ab \o b) = Len(ab) + Len(b)
        /\ \A i \in 1 .. Len(ab) + Len(b) :
             (ab \o b)[i] = IF i <= Len(ab) THEN ab[i] ELSE b[i - Len(ab)]
    BY <1>3, <1>5, ConcatProperties
  <2>2. Len(ab) = at /\ Len(ab) + Len(b) = n + 1
    BY <1>1, <1>3, <1>5
  <2> QED
    BY <2>1, <2>2
<1> HIDE DEF n
<1> DEFINE r == ab \o b
<1>7. r[at] = e /\ \A i \in 1 .. n : i < at => r[i] = s[i]
  BY <1>1, <1>5, <1>6
<1>8. \A i \in 1 .. n : i >= at => r[i + 1] = s[i]
  BY <1>1, <1>3, <1>6
<1> QED
  BY <1>4, <1>6, <1>7, <1>8 DEF n

\* What RecordEvent does to the log.
LEMMA LogInserted ==
  ASSUME TypeOK, NEW t \in Callback, NEW at \in Slots(t), RecordEvent(t, at)
  PROVE  LET e == [act |-> t.act, target |-> t.target, signed |-> t.signed]
             old == log[t.chan]
             new == log'[t.chan]
             n == Len(log[t.chan])
         IN  /\ e \in LogEntry /\ old \in Seq(LogEntry) /\ n \in Nat
             /\ DOMAIN old = 1 .. n
             /\ log' \in [Chans -> Seq(LogEntry)]
             /\ \A c \in Chans : c # t.chan => log'[c] = log[c]
             /\ at \in 1 .. n + 1 /\ DOMAIN new = 1 .. n + 1
             /\ new[at] = e
             /\ \A i \in 1 .. n : i < at => new[i] = old[i]
             /\ \A i \in 1 .. n : i >= at => new[i + 1] = old[i]
<1> DEFINE e == [act |-> t.act, target |-> t.target, signed |-> t.signed]
           old == log[t.chan]
           r == InsertAt(old, at, e)
<1>1. t.chan \in Chans /\ e \in LogEntry
  BY DEF Callback, LogEntry
<1>2. log' = [log EXCEPT ![t.chan] = r]
  BY DEF RecordEvent
<1>3. log \in [Chans -> Seq(LogEntry)]
  BY DEF TypeOK, LogEntry
<1> HIDE DEF e
<1>4. old \in Seq(LogEntry) /\ Len(old) \in Nat /\ DOMAIN old = 1 .. Len(old)
  BY <1>1, <1>3
<1>5. at \in 1 .. Len(old) + 1
  BY DEF Slots
<1> HIDE DEF old
<1>6. /\ r \in Seq(LogEntry) /\ Len(r) = Len(old) + 1 /\ r[at] = e
      /\ \A i \in 1 .. Len(old) : i < at => r[i] = old[i]
      /\ \A i \in 1 .. Len(old) : i >= at => r[i + 1] = old[i]
  BY <1>1, <1>4, <1>5, InsertAtCells, SMTT(30)
<1> HIDE DEF r
<1>7. DOMAIN r = 1 .. Len(old) + 1
  BY <1>6
<1>8. /\ log' \in [Chans -> Seq(LogEntry)] /\ log'[t.chan] = r
      /\ \A c \in Chans : c # t.chan => log'[c] = log[c]
  BY <1>1, <1>2, <1>3, <1>6
<1> QED
  BY <1>1, <1>4, <1>5, <1>6, <1>7, <1>8 DEF e, old

LEMMA CallbackType ==
  ASSUME TypeOK, NEW t \in DOMAIN todo, Recorded(t) \/ EventLost(t)
  PROVE  TypeOK'
<1> USE DEF dbVars, shown, logged
<1>1. t \in Callback /\ IsABag(todo) /\ DOMAIN todo \subseteq Callback
  BY DEF TypeOK, Callback
<1>2. IsABag(todo') /\ DOMAIN todo' \subseteq Callback
  <2>1. todo' = todo (-) SetToBag({t})
    BY DEF Recorded, RecordEvent, EventLost
  <2> QED
    BY <1>1, <2>1, BagTake
<1>3. CASE Recorded(t)
  <2>1. PICK at \in Slots(t) : RecordEvent(t, at)
    BY <1>3 DEF Recorded
  <2>2. log' \in [Chans -> Seq(LogEntry)]
    BY <1>1, <2>1, LogInserted DEF TypeOK, LogEntry, Callback
  <2>3. misdated' \in SUBSET (Users \X Chans)
    BY <1>1, <2>1 DEF RecordEvent, TypeOK, Callback
  <2> QED
    BY <1>2, <2>1, <2>2, <2>3 DEF RecordEvent, TypeOK, Callback, LogEntry
<1>4. CASE EventLost(t)
  <2>1. overlap' \in SUBSET (Users \X Chans)
    BY <1>1, <1>4 DEF EventLost, TypeOK, Callback
  <2> QED
    BY <1>2, <1>4, <2>1 DEF EventLost, TypeOK, Callback
<1> QED
  BY <1>3, <1>4

LEMMA ConversationType ==
  ASSUME TypeOK, Grounded, [Next]_vars
  PROVE  TypeOK'
<1>1. CASE UNCHANGED vars
  BY <1>1 DEF vars, dbVars, shown, logged, TypeOK
<1> QED
  BY <1>1, RequestType, ContinueType, CallbackType DEF Next, BagToSet, Recorded

-----------------------------------------------------------------------------
(* What the actions do, cell by cell.                                      *)

Several(u, others) == Cardinality(others \cup {u}) > 2
Founders(u, others, c) ==
  IF Several(u, others) THEN {Entry(c, "added", u, v, FALSE) : v \in others} ELSE {}

Founded(u, others, enc, c) ==
  /\ ~chan[c].open /\ \A v \in Users : <<v, c>> \notin members
  /\ \A t \in DOMAIN todo : t.chan # c
  /\ \A v \in Users : req[v].pc # "idle" => req[v].chan # c
  /\ chan'[c].open /\ chan'[c].owner = u
  /\ chan'[c].group <=> Several(u, others)
  /\ chan'[c].scheme # None <=> enc
  /\ \A d \in Chans : d # c => chan'[d] = chan[d]
  /\ members' = members \cup ((others \cup {u}) \X {c})
  /\ DOMAIN todo' = DOMAIN todo \cup Founders(u, others, c)
  /\ \A t \in DOMAIN todo : todo'[t] = todo[t]
  /\ \A t \in DOMAIN todo' : t \notin DOMAIN todo => todo'[t] = 1
  /\ Several(u, others) \/ \A v \in others : Direct(u, v, enc) = {}
  /\ u \notin others /\ others # {}

LEMMA OpenChannelEffect ==
  ASSUME TypeOK, Grounded, NEW u \in Users, NEW others \in SUBSET Users,
         NEW enc \in BOOLEAN, NEW c \in Chans, OpenChannel(u, others, enc, c)
  PROVE  Founded(u, others, enc, c)
<1> DEFINE group == Cardinality(others \cup {u}) > 2
           new == [open |-> TRUE, group |-> group, owner |-> u,
                   scheme |-> IF enc THEN "olm" ELSE None,
                   ver |-> IF enc THEN 1 + Cardinality(others \cup {u}) ELSE 1]
           added == Founders(u, others, c)
<1>1. /\ chan' = [chan EXCEPT ![c] = new]
      /\ members' = members \cup ((others \cup {u}) \X {c})
      /\ todo' = todo (+) SetToBag(added)
      /\ group \/ \A v \in others : Direct(u, v, enc) = {}
      /\ ~chan[c].open /\ u \notin others /\ others # {}
  BY DEF OpenChannel, Founders, Several
<1>2. /\ new.open /\ (new.group <=> group) /\ new.owner = u
      /\ new.scheme # None <=> enc
  BY DEF None
<1>3. /\ \A v \in Users : <<v, c>> \notin members
      /\ \A t \in DOMAIN todo : t.chan # c
      /\ \A v \in Users : req[v].pc # "idle" => req[v].chan # c
  BY <1>1 DEF Grounded
<1>4. \A t \in added : t.chan = c
  BY DEF Entry, Founders
<1> HIDE DEF new, added
<1>5. chan'[c] = new /\ \A d \in Chans : d # c => chan'[d] = chan[d]
  BY <1>1 DEF TypeOK
<1>6. /\ DOMAIN todo' = DOMAIN todo \cup added
      /\ \A t \in DOMAIN todo : t \notin added => todo'[t] = todo[t]
      /\ \A t \in added : t \notin DOMAIN todo => todo'[t] = 1
  <2>1. IsABag(todo)
    BY DEF TypeOK
  <2>2. todo' = todo (+) SetToBag(added)
    BY <1>1
  <2> QED
    BY <2>1, <2>2, BagAdd
<1>7. \A t \in DOMAIN todo : t \notin added
  BY <1>3, <1>4
<1> QED
  BY <1>1, <1>2, <1>3, <1>5, <1>6, <1>7 DEF added, Several, Founded

LEMMA AddInsertEffect ==
  ASSUME TypeOK, Grounded, NEW u \in Users, NEW signed, AddInsert(u, signed)
  PROVE  LET c == req[u].chan
             v == req[u].who
             t == Entry(c, "added", u, v, signed)
         IN  /\ c \in Chans /\ v \in Users /\ req[u].pc = "add"
             /\ chan[c].open /\ chan[c].group
             /\ req'[u].pc = "idle" /\ \A w \in Users : w # u => req'[w] = req[w]
             /\ members' = members \cup {<<v, c>>}
             /\ \A d \in Chans : /\ chan'[d].open = chan[d].open
                                 /\ chan'[d].group = chan[d].group
                                 /\ chan'[d].owner = chan[d].owner
                                 /\ chan'[d].scheme = chan[d].scheme
                                 /\ d # c => chan'[d] = chan[d]
             /\ <<v, c>> \in members =>
                  UNCHANGED <<chan, members, todo, graced, overlap>>
             /\ <<v, c>> \notin members =>
                  /\ DOMAIN todo' = DOMAIN todo \cup {t}
                  /\ \A s \in DOMAIN todo : s # t => todo'[s] = todo[s]
                  /\ t \notin DOMAIN todo => todo'[t] = 1
                  /\ graced' = graced \cup Sending(c)
                  /\ Pending(v, c) => <<v, c>> \in overlap'
                  /\ overlap \subseteq overlap'
<1> DEFINE c == req[u].chan
           v == req[u].who
           t == Entry(c, "added", u, v, signed)
<1>1. /\ c \in Chans /\ v \in Users /\ req[u].pc = "add"
      /\ chan[c].open /\ chan[c].group
  BY DEF Grounded, AddInsert
<1>2. req'[u].pc = "idle" /\ \A w \in Users : w # u => req'[w] = req[w]
  BY DEF AddInsert, TypeOK, Idle
<1>3. CASE <<v, c>> \in members
  <2>1. UNCHANGED <<chan, members, todo, graced, overlap>>
    BY <1>3 DEF AddInsert
  <2> QED
    BY <1>1, <1>2, <1>3, <2>1
<1>4. CASE <<v, c>> \notin members
  <2>1. /\ chan' = Rotated(c, 1) /\ members' = members \cup {<<v, c>>}
        /\ todo' = todo (+) SetToBag({t})
        /\ graced' = graced \cup Sending(c)
        /\ overlap' = IF Pending(v, c) THEN overlap \cup {<<v, c>>} ELSE overlap
    BY <1>4 DEF AddInsert
  <2>2. IsABag(todo)
    BY DEF TypeOK
  <2> HIDE DEF t
  <2>3. /\ DOMAIN todo' = DOMAIN todo \cup {t}
        /\ \A s \in DOMAIN todo : s # t => todo'[s] = todo[s]
        /\ t \notin DOMAIN todo => todo'[t] = 1
    <3>1. todo' = todo (+) SetToBag({t})
      BY <2>1
    <3>2. /\ DOMAIN (todo (+) SetToBag({t})) = DOMAIN todo \cup {t}
          /\ \A s \in DOMAIN todo : s # t => (todo (+) SetToBag({t}))[s] = todo[s]
          /\ t \notin DOMAIN todo => (todo (+) SetToBag({t}))[t] = 1
      BY <2>2, BagAddOne, Zenon
    <3> QED
      BY <3>1, <3>2, Zenon
  <2>4. \A d \in Chans : /\ chan'[d].open = chan[d].open
                         /\ chan'[d].group = chan[d].group
                         /\ chan'[d].owner = chan[d].owner
                         /\ chan'[d].scheme = chan[d].scheme
                         /\ d # c => chan'[d] = chan[d]
    BY <1>1, <2>1, RotatedChannel
  <2> QED
    BY <1>1, <1>2, <1>4, <2>1, <2>3, <2>4 DEF t
<1> QED
  BY <1>3, <1>4

LEMMA RemoveRowEffect ==
  ASSUME TypeOK, NEW u \in Users, NEW c \in Chans, NEW v \in Users,
         RemoveRow(u, c, v)
  PROVE  /\ req[u].pc = "idle" /\ chan[c].open
         /\ req'[u].pc = "removed" /\ req'[u].chan = c /\ req'[u].who = v
         /\ \A w \in Users : w # u => req'[w] = req[w]
         /\ members' = members \ {<<v, c>>}
         /\ \A d \in Chans : /\ chan'[d].open = chan[d].open
                             /\ chan'[d].group = chan[d].group
                             /\ chan'[d].owner = chan[d].owner
                             /\ chan'[d].scheme = chan[d].scheme
                             /\ d # c => chan'[d] = chan[d]
<1>1. /\ req[u].pc = "idle" /\ chan[c].open
      /\ members' = members \ {<<v, c>>}
      /\ chan' = chan \/ chan' = Rotated(c, 1)
  BY DEF RemoveRow, Ask
<1>2. /\ req'[u].pc = "removed" /\ req'[u].chan = c /\ req'[u].who = v
      /\ \A w \in Users : w # u => req'[w] = req[w]
  BY DEF RemoveRow, TypeOK
<1> QED
  BY <1>1, <1>2, RotatedChannel

LEMMA RemoveDoneEffect ==
  ASSUME TypeOK, Grounded, NEW u \in Users, NEW signed, RemoveDone(u, signed)
  PROVE  LET c == req[u].chan
             v == req[u].who
             t == Entry(c, IF v = u THEN "left" ELSE "removed", u, v, signed)
         IN  /\ c \in Chans /\ v \in Users /\ req[u].pc = "removed"
             /\ chan[c].open
             /\ req'[u].pc = "idle" /\ \A w \in Users : w # u => req'[w] = req[w]
             /\ DOMAIN todo' = DOMAIN todo \cup {t}
             /\ \A s \in DOMAIN todo : s # t => todo'[s] = todo[s]
             /\ t \notin DOMAIN todo => todo'[t] = 1
<1> DEFINE c == req[u].chan
           v == req[u].who
           t == Entry(c, IF v = u THEN "left" ELSE "removed", u, v, signed)
<1>1. c \in Chans /\ v \in Users /\ req[u].pc = "removed" /\ chan[c].open
  BY DEF Grounded, RemoveDone
<1>2. req'[u].pc = "idle" /\ \A w \in Users : w # u => req'[w] = req[w]
  BY DEF RemoveDone, TypeOK, Idle
<1>3. todo' = todo (+) SetToBag({t}) /\ IsABag(todo)
  BY DEF RemoveDone, TypeOK
<1> HIDE DEF t
<1>4. /\ DOMAIN todo' = DOMAIN todo \cup {t}
      /\ \A s \in DOMAIN todo : s # t => todo'[s] = todo[s]
      /\ t \notin DOMAIN todo => todo'[t] = 1
  <2>1. /\ DOMAIN (todo (+) SetToBag({t})) = DOMAIN todo \cup {t}
        /\ \A s \in DOMAIN todo : s # t => (todo (+) SetToBag({t}))[s] = todo[s]
        /\ t \notin DOMAIN todo => (todo (+) SetToBag({t}))[t] = 1
    BY <1>3, BagAddOne, Zenon
  <2> QED
    BY <1>3, <2>1, Zenon
<1> QED
  BY <1>1, <1>2, <1>4 DEF t

LEMMA CallbackEffect ==
  ASSUME TypeOK, NEW t \in DOMAIN todo, Recorded(t) \/ EventLost(t)
  PROVE  /\ t.chan \in Chans /\ t.target \in Users /\ t.act \in Changes
         /\ DOMAIN todo' \subseteq DOMAIN todo
         /\ t \in DOMAIN todo' => todo[t] # 1
         /\ \A s \in DOMAIN todo : s # t => s \in DOMAIN todo' /\ todo'[s] = todo[s]
         /\ UNCHANGED <<friends, chan, members, msg, order, lastRead, req, graced,
                        shown>>
<1>1. todo' = todo (-) SetToBag({t}) /\ IsABag(todo)
  BY DEF Recorded, RecordEvent, EventLost, TypeOK
<1>2. /\ DOMAIN todo' \subseteq DOMAIN todo
      /\ t \in DOMAIN todo' => todo[t] # 1
      /\ \A s \in DOMAIN todo : s # t => s \in DOMAIN todo' /\ todo'[s] = todo[s]
  BY <1>1, BagTake
<1>3. t.chan \in Chans /\ t.target \in Users /\ t.act \in Changes
  BY DEF TypeOK
<1> QED
  BY <1>2, <1>3 DEF Recorded, RecordEvent, EventLost, dbVars, shown, logged

-----------------------------------------------------------------------------
LEMMA GroundedStep ==
  ASSUME TypeOK, Grounded, [Next]_vars
  PROVE  Grounded'
<1> USE DEF dbVars, shown, logged
<1>1. ASSUME NEW u \in Users, Friend(u) PROVE Grounded'
  BY <1>1 DEF Friend, Grounded
<1>2. ASSUME NEW u \in Users, NEW others \in SUBSET Users, NEW enc \in BOOLEAN,
             NEW c \in Chans, OpenChannel(u, others, enc, c)
      PROVE  Grounded'
  <2>1. /\ ~chan[c].open
        /\ \A v \in Users : req[v].pc # "idle" => req[v].chan # c
        /\ chan'[c].open
        /\ \A d \in Chans : d # c => chan'[d] = chan[d]
        /\ members' = members \cup ((others \cup {u}) \X {c})
        /\ DOMAIN todo' = DOMAIN todo \cup Founders(u, others, c)
    <3>1. Founded(u, others, enc, c)
      BY <1>2, OpenChannelEffect
    <3> QED
      BY <3>1 DEF Founded
  <2>2. req' = req /\ log' = log
    BY <1>2 DEF OpenChannel
  <2>3. \A d \in Chans : chan[d].open => chan'[d] = chan[d]
    BY <2>1
  <2>4. \A p \in members' : chan'[p[2]].open
    BY <2>1, <2>3 DEF Grounded, TypeOK
  <2>5. \A t \in DOMAIN todo' : chan'[t.chan].open
    BY <2>1, <2>3 DEF Grounded, TypeOK, Entry, Founders
  <2>6. \A d \in Chans : log'[d] # << >> \/ chan'[d].group => chan'[d].open
    BY <2>1, <2>2 DEF Grounded
  <2> QED
    BY <2>2, <2>3, <2>4, <2>5, <2>6 DEF Grounded
<1>3. ASSUME NEW u \in Users, NEW c \in Chans, NEW v \in Users, AddCheck(u, c, v)
      PROVE  Grounded'
  <2>1. chan[c].open /\ chan[c].group
    BY <1>3 DEF AddCheck, Grounded
  <2>2. /\ req'[u].pc = "add" /\ req'[u].chan = c /\ req'[u].who = v
        /\ \A w \in Users : w # u => req'[w] = req[w]
    BY <1>3 DEF AddCheck, TypeOK
  <2> QED
    BY <1>3, <2>1, <2>2 DEF AddCheck, Grounded
<1>4. ASSUME NEW u \in Users, NEW c \in Chans, NEW v \in Users, RemoveRow(u, c, v)
      PROVE  Grounded'
  <2>1. todo' = todo /\ log' = log
    BY <1>4 DEF RemoveRow
  <2>2. /\ chan[c].open /\ req'[u].chan = c /\ req'[u].who = v
        /\ req'[u].pc = "removed"
        /\ \A w \in Users : w # u => req'[w] = req[w]
        /\ members' = members \ {<<v, c>>}
        /\ \A d \in Chans : /\ chan'[d].open = chan[d].open
                            /\ chan'[d].group = chan[d].group
    BY <1>4, RemoveRowEffect
  <2>3. \A p \in members' : p[2] \in Chans /\ chan'[p[2]].open
    BY <2>2 DEF Grounded, TypeOK
  <2>4. \A t \in DOMAIN todo' : t.chan \in Chans /\ chan'[t.chan].open
    BY <2>1, <2>2 DEF Grounded, TypeOK
  <2> QED
    BY <2>1, <2>2, <2>3, <2>4 DEF Grounded
<1>5. ASSUME NEW u \in Users, NEW c \in Chans, SendCheck(u, c) PROVE Grounded'
  <2>1. chan[c].open
    BY <1>5 DEF SendCheck, Grounded
  <2>2. /\ req'[u].pc = "send" /\ req'[u].chan = c
        /\ \A w \in Users : w # u => req'[w] = req[w]
    BY <1>5 DEF SendCheck, TypeOK
  <2> QED
    BY <1>5, <2>1, <2>2 DEF SendCheck, Grounded
<1>6. ASSUME NEW u \in Users, NEW m \in Msgs, DeleteMessage(u, m) PROVE Grounded'
  BY <1>6 DEF DeleteMessage, Grounded
<1>7. ASSUME NEW u \in Users, NEW c \in Chans, NEW b, ReadChannel(u, c, b)
      PROVE  Grounded'
  BY <1>7 DEF ReadChannel, Grounded
<1>13. ASSUME NEW u \in Users, NEW ms, ShowOnly(u, ms)
       PROVE  Grounded'
  BY <1>13 DEF ShowOnly, Grounded
<1>8. ASSUME NEW u \in Users, NEW signed, AddInsert(u, signed) PROVE Grounded'
  <2> DEFINE c == req[u].chan
             v == req[u].who
             t == Entry(c, "added", u, v, signed)
  <2>1. /\ c \in Chans /\ chan[c].open
        /\ req'[u].pc = "idle" /\ \A w \in Users : w # u => req'[w] = req[w]
        /\ members' = members \cup {<<v, c>>}
        /\ \A d \in Chans : /\ chan'[d].open = chan[d].open
                            /\ chan'[d].group = chan[d].group
        /\ DOMAIN todo' = DOMAIN todo \/ DOMAIN todo' = DOMAIN todo \cup {t}
        /\ t.chan = c
    BY <1>8, AddInsertEffect DEF Entry
  <2>2. log' = log
    BY <1>8 DEF AddInsert
  <2> HIDE DEF c, v, t
  <2>3. \A p \in members' : p[2] \in Chans /\ chan'[p[2]].open
    BY <2>1 DEF Grounded, TypeOK
  <2>4. \A s \in DOMAIN todo' : s.chan \in Chans /\ chan'[s.chan].open
    BY <2>1 DEF Grounded, TypeOK
  <2> QED
    BY <2>1, <2>2, <2>3, <2>4 DEF Grounded
<1>9. ASSUME NEW u \in Users, NEW signed, RemoveDone(u, signed)
      PROVE  Grounded'
  <2> DEFINE c == req[u].chan
             v == req[u].who
             t == Entry(c, IF v = u THEN "left" ELSE "removed", u, v, signed)
  <2>1. /\ c \in Chans /\ chan[c].open
        /\ req'[u].pc = "idle" /\ \A w \in Users : w # u => req'[w] = req[w]
        /\ DOMAIN todo' = DOMAIN todo \cup {t}
    BY <1>9, RemoveDoneEffect
  <2>3. t.chan = c
    BY DEF Entry
  <2>2. UNCHANGED <<log, chan, members>>
    BY <1>9 DEF RemoveDone
  <2> HIDE DEF c, v, t
  <2> QED
    BY <2>1, <2>2, <2>3 DEF Grounded, TypeOK
<1>10. ASSUME NEW u \in Users, SendRefused(u)
              \/ \E m \in Msgs, reply \in Msgs \cup {None} : SendInsert(u, m, reply)
       PROVE  Grounded'
  <2>1. req'[u].pc = "idle" /\ \A w \in Users : w # u => req'[w] = req[w]
    BY <1>10 DEF SendRefused, SendInsert, TypeOK, Idle
  <2>2. UNCHANGED <<log, chan, members, todo>>
    BY <1>10 DEF SendRefused, SendInsert
  <2> QED
    BY <2>1, <2>2 DEF Grounded
<1>11. ASSUME NEW t \in DOMAIN todo, Recorded(t) \/ EventLost(t)
       PROVE  Grounded'
  <2>1. /\ t.chan \in Chans
        /\ DOMAIN todo' \subseteq DOMAIN todo
        /\ UNCHANGED <<chan, members, req>>
    BY <1>11, CallbackEffect
  <2>2. \A c \in Chans : log'[c] = log[c] \/ c = t.chan
    BY <1>11 DEF Recorded, RecordEvent, EventLost, TypeOK
  <2> QED
    BY <2>1, <2>2 DEF Grounded
<1>12. CASE UNCHANGED vars
  BY <1>12 DEF vars, Grounded
<1> QED
  BY <1>1, <1>2, <1>3, <1>4, <1>5, <1>6, <1>7, <1>8, <1>9, <1>10, <1>11, <1>12,
     <1>13
  DEF Next, Request, Continue, BagToSet, Recorded, ReadChannelMarkFails, ReadMessage

-----------------------------------------------------------------------------
(* Friends: one row for a pair, and what follows from it.                  *)

LEMMA OneRowStep ==
  ASSUME friends \in SUBSET Row, OneRow, NEW u \in Users, FriendStep(u)
  PROVE  OneRow'
<1>1. ASSUME NEW v \in Users, RequestFriend(u, v) PROVE OneRow'
  <2>1. CASE RowsOf(u, v) = {} /\ friends' = friends \cup
               {[req |-> u, addr |-> v, status |-> "pending"]}
    BY <1>1, <2>1 DEF RequestFriend, RowsOf, OneRow
  <2>2. CASE \E r \in RowsOf(u, v) : Replace(r, [r EXCEPT !.status = "accepted"])
    BY <2>2 DEF RowsOf, Replace, OneRow, Row
  <2> QED
    BY <1>1, <2>1, <2>2 DEF RequestFriend
<1>2. ASSUME NEW r \in friends, AcceptFriend(u, r) PROVE OneRow'
  BY <1>2 DEF AcceptFriend, Replace, OneRow, Row
<1>3. ASSUME NEW r \in friends, DeclineFriend(u, r) \/ RemoveFriend(u, r)
      PROVE  OneRow'
  BY <1>3 DEF DeclineFriend, RemoveFriend, OneRow
<1>4. ASSUME NEW r \in friends, BlockFriend(u, r) PROVE OneRow'
  <2> DEFINE s == [req |-> u, addr |-> IF r.req = u THEN r.addr ELSE r.req,
                   status |-> "blocked"]
  <2>1. u \in {r.req, r.addr} /\ friends' = (friends \ {r}) \cup {s}
    BY <1>4 DEF BlockFriend, Replace
  <2>2. r.req # r.addr
    BY DEF OneRow
  <2>3. s.req # s.addr /\ {s.req, s.addr} = {r.req, r.addr}
    BY <2>1, <2>2
  <2> HIDE DEF s
  <2> QED
    BY <2>1, <2>3 DEF OneRow
<1> QED
  BY <1>1, <1>2, <1>3, <1>4 DEF FriendStep

\* A set whose members are all equal has at most one.
LEMMA AtMostOne ==
  ASSUME NEW S, \A x, y \in S : x = y
  PROVE  Cardinality(S) <= 1
<1>1. S = {} \/ \E x : S = {x}
  OBVIOUS
<1>2. S = {} => Cardinality(S) = 0
  BY FS_EmptySet
<1>3. \A x : S = {x} => Cardinality(S) = 1
  BY FS_Singleton
<1> QED
  BY <1>1, <1>2, <1>3

LEMMA RowsTell ==
  ASSUME friends \in SUBSET Row, OneRow
  PROVE  FriendsConsistent
<1>1. ASSUME NEW u \in Users, NEW v \in Users PROVE Cardinality(RowsOf(u, v)) <= 1
  BY AtMostOne DEF RowsOf, OneRow
<1>2. ASSUME NEW u \in Users, NEW v \in Users
      PROVE  /\ v \in FriendList(u).accepted <=> u \in FriendList(v).accepted
             /\ v \in FriendList(u).sent <=> u \in FriendList(v).received
             /\ v \in FriendList(u).blocked =>
                  u \notin FriendList(v).blocked /\ Blocked(v, u)
             /\ v \in FriendList(u).accepted <=> FriendStatus(u, v) = "friends"
  <2>1. v \in FriendList(u).accepted
          <=> \E r \in RowsOf(u, v) : r.status = "accepted"
    BY DEF FriendList
  <2>2. RowsOf(u, v) = RowsOf(v, u)
    BY DEF RowsOf
  <2>3. u \in FriendList(v).accepted
          <=> \E r \in RowsOf(u, v) : r.status = "accepted"
    BY <2>2 DEF FriendList
  <2>4. v \in FriendList(u).sent <=> u \in FriendList(v).received
    BY DEF FriendList
  <2>5. ASSUME v \in FriendList(u).blocked
        PROVE  u \notin FriendList(v).blocked /\ Blocked(v, u)
    <3>1. PICK r \in friends : r.req = u /\ r.addr = v /\ r.status = "blocked"
      BY <2>5 DEF FriendList
    <3>2. u # v /\ r \in RowsOf(v, u)
      BY <3>1 DEF OneRow, RowsOf
    <3>3. ~ \E s \in friends : s.req = v /\ s.addr = u
      BY <3>1, <3>2 DEF OneRow
    <3> QED
      BY <3>1, <3>2, <3>3 DEF FriendList, Blocked
  <2>6. (\E r \in RowsOf(u, v) : r.status = "accepted")
          <=> FriendStatus(u, v) = "friends"
    <3>1. CASE RowsOf(u, v) = {}
      BY <3>1 DEF FriendStatus
    <3>2. CASE RowsOf(u, v) # {}
      <4> DEFINE r == CHOOSE x \in RowsOf(u, v) : TRUE
      <4>1. r \in RowsOf(u, v)
        BY <3>2
      <4>2. \A x \in RowsOf(u, v) : x = r
        BY <4>1 DEF RowsOf, OneRow
      <4>3. FriendStatus(u, v) = CASE r.status = "accepted" -> "friends"
                                   [] r.status = "blocked"  -> "blocked"
                                   [] OTHER -> IF r.req = u THEN "sent"
                                               ELSE "received"
        BY <3>2 DEF FriendStatus
      <4> HIDE DEF r
      <4>4. FriendStatus(u, v) = "friends" <=> r.status = "accepted"
        BY <4>3
      <4> QED
        BY <4>1, <4>2, <4>4
    <3> QED
      BY <3>1, <3>2
  <2> QED
    BY <2>1, <2>3, <2>4, <2>5, <2>6
<1> QED
  BY <1>1, <1>2 DEF FriendsConsistent

-----------------------------------------------------------------------------
(* 1:1 channels.                                                           *)

\* A set of at most two that has two given elements is the pair of them.
LEMMA JustTwo ==
  ASSUME NEW S, IsFiniteSet(S), ~(Cardinality(S) > 2),
         NEW x \in S, NEW y \in S, x # y
  PROVE  S = {x, y}
<1>1. IsFiniteSet({x}) /\ Cardinality({x}) = 1
  BY FS_Singleton
<1>2. IsFiniteSet({x} \cup {y}) /\ Cardinality({x} \cup {y}) = 2
  BY <1>1, FS_AddElement
<1>3. {x} \cup {y} \in SUBSET S
  OBVIOUS
<1>4. /\ Cardinality({x} \cup {y}) <= Cardinality(S)
      /\ Cardinality(S) = Cardinality({x} \cup {y}) => S = {x} \cup {y}
  BY <1>3, FS_Subset
<1>5. Cardinality(S) \in Nat
  BY FS_CardinalityType
<1> QED
  BY <1>2, <1>4, <1>5

\* Members who are only added to groups leave the 1:1 channels as they were.
LEMMA NoNewDirect ==
  ASSUME OneDirect,
         \A d \in Chans : /\ chan'[d].open = chan[d].open
                          /\ chan'[d].group = chan[d].group
                          /\ chan'[d].scheme = chan[d].scheme,
         \A v \in Users, d \in Chans :
           <<v, d>> \in members' /\ ~chan[d].group => <<v, d>> \in members
  PROVE  OneDirect'
<1>1. \A u, v \in Users, enc \in BOOLEAN : Direct(u, v, enc)' \subseteq Direct(u, v, enc)
  BY DEF Direct
<1> QED
  BY <1>1 DEF OneDirect

LEMMA OneDirectStep ==
  ASSUME TypeOK, Grounded, OneDirect, [Next]_vars
  PROVE  OneDirect'
<1>1. ASSUME UNCHANGED <<chan, members>> PROVE OneDirect'
  BY <1>1, NoNewDirect
<1>2. ASSUME NEW u \in Users, NEW others \in SUBSET Users, NEW enc \in BOOLEAN,
             NEW c \in Chans, OpenChannel(u, others, enc, c)
      PROVE  OneDirect'
  <2>1. Founded(u, others, enc, c)
    BY <1>2, OpenChannelEffect
  <2>2. /\ ~chan[c].open /\ \A v \in Users : <<v, c>> \notin members
        /\ chan'[c].group <=> Several(u, others)
        /\ chan'[c].scheme # None <=> enc
        /\ \A d \in Chans : d # c => chan'[d] = chan[d]
        /\ members' = members \cup ((others \cup {u}) \X {c})
        /\ Several(u, others) \/ \A v \in others : Direct(u, v, enc) = {}
        /\ u \notin others
    BY <2>1 DEF Founded
  <2> SUFFICES ASSUME NEW x \in Users, NEW y \in Users, NEW e \in BOOLEAN, x # y,
                      NEW a \in Direct(x, y, e)', NEW b \in Direct(x, y, e)'
               PROVE  a = b
    BY DEF OneDirect
  <2>3. \A d \in Direct(x, y, e)' : d # c => d \in Direct(x, y, e)
    BY <2>2 DEF Direct
  <2>4. c \in Direct(x, y, e)' => Direct(x, y, e) = {}
    <3> SUFFICES ASSUME c \in Direct(x, y, e)' PROVE Direct(x, y, e) = {}
      OBVIOUS
    <3>1. /\ <<x, c>> \in members' /\ <<y, c>> \in members' /\ ~chan'[c].group
          /\ (chan'[c].scheme # None) = e
      BY DEF Direct
    <3>2. x \in others \cup {u} /\ y \in others \cup {u} /\ ~Several(u, others)
      BY <2>2, <3>1
    <3>3. e = enc
      BY <2>2, <3>1
    <3>4. others \cup {u} = {x, y}
      <4>1. IsFiniteSet(others \cup {u})
        BY UsersCounted
      <4> QED
        BY <3>2, <4>1, JustTwo DEF Several
    <3>5. \/ u = x /\ y \in others
          \/ u = y /\ x \in others
      BY <2>2, <3>4
    <3>6. Direct(x, y, e) = Direct(y, x, e)
      BY DEF Direct
    <3> QED
      BY <2>2, <3>2, <3>3, <3>5, <3>6
  <2> QED
    BY <2>3, <2>4 DEF OneDirect
<1>3. ASSUME NEW u \in Users, NEW c \in Chans, NEW v \in Users, RemoveRow(u, c, v)
      PROVE  OneDirect'
  BY <1>3, RemoveRowEffect, NoNewDirect
<1>4. ASSUME NEW u \in Users, NEW signed, AddInsert(u, signed) PROVE OneDirect'
  <2>1. /\ chan[req[u].chan].group
        /\ members' = members \cup {<<req[u].who, req[u].chan>>}
        /\ \A d \in Chans : /\ chan'[d].open = chan[d].open
                            /\ chan'[d].group = chan[d].group
                            /\ chan'[d].scheme = chan[d].scheme
    BY <1>4, AddInsertEffect
  <2> QED
    BY <2>1, NoNewDirect
<1>5. ASSUME NEW u \in Users, Request(u) PROVE OneDirect'
  BY <1>1, <1>2, <1>3, <1>5
  DEF Request, Friend, AddCheck, SendCheck, DeleteMessage, ReadChannel,
      ReadChannelMarkFails, ReadMessage, ShowOnly, dbVars
<1>6. ASSUME NEW u \in Users, Continue(u) PROVE OneDirect'
  BY <1>1, <1>4, <1>6 DEF Continue, RemoveDone, SendInsert, SendRefused, dbVars
<1> QED
  BY <1>1, <1>5, <1>6, CallbackEffect DEF Next, BagToSet, Recorded, vars, dbVars

LEMMA DirectCounted == OneDirect => OneDirectChannel
  BY AtMostOne DEF OneDirect, OneDirectChannel

-----------------------------------------------------------------------------
(* Messages that are sent on checks that no longer hold.                   *)

\* Friends and other channels' members have no part in a channel's blocks.
LEMMA SameBlocks ==
  ASSUME NEW u, NEW c, friends' = friends, MembersOf(c)' = MembersOf(c)
  PROVE  BlockedIn(u, c)' = BlockedIn(u, c)
  BY DEF BlockedIn, Blocked, RowsOf

\* A step that is about another channel.
LEMMA StillFresh ==
  ASSUME TypeOK, NEW u \in Users, SendFresh,
         NEW c, req[u].chan = c, req[u].pc = "send", u \notin graced,
         req'[u] = req[u], friends' = friends, chan'[c] = chan[c],
         \A v \in Users : <<v, c>> \in members' <=> <<v, c>> \in members
  PROVE  Fresh(u)'
<1>1. MembersOf(c)' = MembersOf(c)
  BY DEF MembersOf
<1>2. BlockedIn(u, c)' = BlockedIn(u, c)
  BY <1>1, SameBlocks
<1>3. /\ <<u, c>> \in members
      /\ ~BlockedIn(u, c)
      /\ chan[c].scheme = "legacy-ecdh" => req[u].ver = chan[c].ver
  BY DEF SendFresh, Fresh
<1>4. /\ <<u, c>> \in members'
      /\ ~BlockedIn(u, c)'
      /\ chan'[c].scheme = "legacy-ecdh" => req'[u].ver = chan'[c].ver
  BY <1>2, <1>3
<1>5. req'[u].chan = c
  OBVIOUS
<1> QED
  BY <1>4, <1>5 DEF Fresh

LEMMA SendFreshStep ==
  ASSUME TypeOK, Grounded, SendFresh, [Next]_vars
  PROVE  SendFresh'
<1> SUFFICES ASSUME NEW u \in Users, req'[u].pc = "send", u \notin graced'
             PROVE  Fresh(u)'
  BY DEF SendFresh
<1> DEFINE c0 == req[u].chan
<1>1. ASSUME UNCHANGED <<friends, chan, members>>, graced \subseteq graced',
             req'[u] = req[u]
      PROVE  Fresh(u)'
  BY <1>1, StillFresh
<1>2. ASSUME NEW w \in Users, Friend(w) PROVE Fresh(u)'
  BY <1>2 DEF Friend
<1>3. ASSUME NEW w \in Users, NEW others \in SUBSET Users, NEW enc \in BOOLEAN,
             NEW c \in Chans, OpenChannel(w, others, enc, c)
      PROVE  Fresh(u)'
  <2>1. Founded(w, others, enc, c)
    BY <1>3, OpenChannelEffect
  <2>2. UNCHANGED <<friends, req, graced>>
    BY <1>3 DEF OpenChannel
  <2>3. c0 # c /\ c0 \in Chans
    BY <2>1, <2>2 DEF Founded, Grounded
  <2>4. /\ chan'[c0] = chan[c0]
        /\ \A v \in Users : <<v, c0>> \in members' <=> <<v, c0>> \in members
    BY <2>1, <2>3 DEF Founded
  <2> QED
    BY <2>2, <2>4, StillFresh
<1>4. ASSUME NEW w \in Users, NEW c \in Chans, NEW v \in Users,
             AddCheck(w, c, v)
      PROVE  Fresh(u)'
  <2>1. req'[u] = req[u]
    BY <1>4 DEF AddCheck, TypeOK
  <2> QED
    BY <1>1, <1>4, <2>1 DEF AddCheck, dbVars, shown, logged
<1>5. ASSUME NEW w \in Users, NEW c \in Chans, NEW v \in Users,
             RemoveRow(w, c, v)
      PROVE  Fresh(u)'
  <2>1. /\ u # w /\ req'[u] = req[u] /\ friends' = friends
        /\ graced' = graced \cup Sending(c)
        /\ members' = members \ {<<v, c>>}
        /\ \A d \in Chans : d # c => chan'[d] = chan[d]
    <3>1. friends' = friends /\ graced' = graced \cup Sending(c)
      BY <1>5 DEF RemoveRow
    <3>2. u # w /\ req'[u] = req[u]
      BY <1>5, RemoveRowEffect
    <3> QED
      BY <1>5, <3>1, <3>2, RemoveRowEffect
  <2>2. c0 # c /\ c0 \in Chans
    BY <2>1 DEF Sending, Grounded
  <2> QED
    BY <2>1, <2>2, StillFresh
<1>6. ASSUME NEW w \in Users, NEW c \in Chans, SendCheck(w, c) PROVE Fresh(u)'
  <2>1. UNCHANGED <<friends, chan, members>> /\ graced' = graced \ {w}
    BY <1>6 DEF SendCheck, dbVars, shown, logged
  <2>2. CASE u # w
    <3>1. req'[u] = req[u] /\ u \notin graced
      BY <1>6, <2>1, <2>2 DEF SendCheck, TypeOK
    <3> QED
      BY <2>1, <3>1, StillFresh
  <2>3. CASE u = w
    <3>1. /\ req'[u].chan = c /\ req'[u].ver = chan[c].ver
          /\ <<u, c>> \in members /\ ~BlockedIn(u, c)
      BY <1>6, <2>3 DEF SendCheck, TypeOK
    <3>2. BlockedIn(u, c)' = BlockedIn(u, c)
      BY <2>1, SameBlocks DEF MembersOf
    <3>3. /\ <<u, c>> \in members'
          /\ ~BlockedIn(u, c)'
          /\ chan'[c].scheme = "legacy-ecdh" => req'[u].ver = chan'[c].ver
      BY <2>1, <3>1, <3>2
    <3> QED
      BY <3>1, <3>3 DEF Fresh
  <2> QED
    BY <2>2, <2>3
<1>7. ASSUME NEW w \in Users, NEW signed, AddInsert(w, signed)
      PROVE  Fresh(u)'
  <2> DEFINE c == req[w].chan
             v == req[w].who
  <2>1. /\ c \in Chans /\ u # w /\ req'[u] = req[u]
    BY <1>7, AddInsertEffect
  <2>2. friends' = friends
    BY <1>7 DEF AddInsert
  <2>3. CASE <<v, c>> \in members
    <3>1. UNCHANGED <<chan, members, graced>>
      BY <1>7, <2>3, AddInsertEffect
    <3> QED
      BY <1>1, <2>1, <2>2, <3>1
  <2>4. CASE <<v, c>> \notin members
    <3>1. /\ graced' = graced \cup Sending(c)
          /\ members' = members \cup {<<v, c>>}
          /\ \A d \in Chans : d # c => chan'[d] = chan[d]
      BY <1>7, <2>4, AddInsertEffect
    <3>2. c0 # c /\ c0 \in Chans
      BY <2>1, <3>1 DEF Sending, Grounded
    <3> QED
      BY <2>1, <2>2, <3>1, <3>2, StillFresh
  <2> QED
    BY <2>3, <2>4
<1>8. ASSUME NEW w \in Users, NEW signed,
             RemoveDone(w, signed) \/ SendRefused(w) \/
             \E m \in Msgs, reply \in Msgs \cup {None} : SendInsert(w, m, reply)
      PROVE  Fresh(u)'
  <2>1. req' = [req EXCEPT ![w] = Idle]
    BY <1>8 DEF RemoveDone, SendRefused, SendInsert
  <2>2. req'[u] = req[u]
    BY <2>1 DEF TypeOK, Idle
  <2>3. UNCHANGED <<friends, chan, members, graced>>
    BY <1>8 DEF RemoveDone, SendRefused, SendInsert, dbVars, shown, logged
  <2> QED
    BY <1>1, <2>2, <2>3
<1>9. ASSUME NEW w \in Users, Request(w) PROVE Fresh(u)'
  <2>1. ASSUME NEW m \in Msgs, DeleteMessage(w, m) PROVE Fresh(u)'
    BY <1>1, <2>1 DEF DeleteMessage
  <2>2. ASSUME NEW c \in Chans, NEW m, ReadChannel(w, c, m) PROVE Fresh(u)'
    BY <1>1, <2>2 DEF ReadChannel
  <2>3. ASSUME NEW ms, ShowOnly(w, ms) PROVE Fresh(u)'
    BY <1>1, <2>3 DEF ShowOnly, dbVars
  <2> QED
    BY <1>2, <1>3, <1>4, <1>5, <1>6, <1>9, <2>1, <2>2, <2>3
    DEF Request, ReadChannelMarkFails, ReadMessage
<1>10. ASSUME NEW w \in Users, Continue(w) PROVE Fresh(u)'
  <2> QED
    BY <1>7, <1>8, <1>10 DEF Continue
<1>11. ASSUME NEW t \in DOMAIN todo, Recorded(t) \/ EventLost(t) PROVE Fresh(u)'
  BY <1>1, <1>11, CallbackEffect
<1>12. CASE UNCHANGED vars
  BY <1>1, <1>12 DEF vars, dbVars, shown, logged
<1> QED
  BY <1>9, <1>10, <1>11, <1>12 DEF Next, BagToSet, Recorded

\* What a step that stores a message may do.
StaleSend(u, m) ==
  (msg[m].state = "none" /\ msg'[m].state = "live" /\ msg'[m].sender = u)
    => LET c == msg'[m].chan
       IN  \/ u \in graced
           \/ /\ <<u, c>> \in members
              /\ ~BlockedIn(u, c)
              /\ chan[c].scheme = "legacy-ecdh" => msg'[m].ver = chan[c].ver

LEMMA StaleSendStep ==
  ASSUME TypeOK, SendFresh, [Next]_vars, NEW u \in Users, NEW m \in Msgs
  PROVE  StaleSend(u, m)
<1>1. ASSUME msg' = msg PROVE StaleSend(u, m)
  BY <1>1 DEF StaleSend
<1>2. ASSUME NEW w \in Users, NEW n \in Msgs, DeleteMessage(w, n)
      PROVE  StaleSend(u, m)
  <2>1. msg' = [msg EXCEPT ![n] = [msg[n] EXCEPT !.state = "deleted"]]
    BY <1>2 DEF DeleteMessage, TypeOK
  <2>2. msg'[m] = msg[m] \/ msg'[m].state = "deleted"
    BY <2>1 DEF TypeOK
  <2> QED
    BY <2>2 DEF StaleSend
<1>3. ASSUME NEW w \in Users, NEW n \in Msgs, NEW reply, SendInsert(w, n, reply)
      PROVE  StaleSend(u, m)
  <2> DEFINE new == [chan |-> req[w].chan, sender |-> w, state |-> "live",
                     reply |-> reply, ver |-> req[w].ver]
  <2>1. msg' = [msg EXCEPT ![n] = new] /\ req[w].pc = "send"
    BY <1>3 DEF SendInsert
  <2>2. /\ new.chan = req[w].chan /\ new.sender = w /\ new.ver = req[w].ver
    OBVIOUS
  <2> HIDE DEF new
  <2>3. CASE m # n
    BY <2>1, <2>3 DEF TypeOK, StaleSend
  <2>4. CASE m = n /\ u # w
    BY <2>1, <2>2, <2>4 DEF TypeOK, StaleSend
  <2>5. CASE m = n /\ u = w
    <3>1. msg'[m] = new
      BY <2>1, <2>5 DEF TypeOK
    <3>2. u \in graced \/ Fresh(u)
      BY <2>1, <2>5 DEF SendFresh
    <3> QED
      BY <2>2, <2>5, <3>1, <3>2 DEF Fresh, StaleSend
  <2> QED
    BY <2>3, <2>4, <2>5
<1>4. ASSUME NEW w \in Users, Request(w) PROVE StaleSend(u, m)
  BY <1>1, <1>2, <1>4
  DEF Request, Friend, OpenChannel, AddCheck, RemoveRow, SendCheck, ReadChannel,
      ReadChannelMarkFails, ReadMessage, ShowOnly, dbVars
<1>5. ASSUME NEW w \in Users, Continue(w) PROVE StaleSend(u, m)
  BY <1>1, <1>3, <1>5 DEF Continue, AddInsert, RemoveDone, SendRefused, dbVars, shown, logged
<1>6. ASSUME NEW t \in DOMAIN todo, Recorded(t) \/ EventLost(t)
      PROVE  StaleSend(u, m)
  BY <1>1, <1>6, CallbackEffect
<1>7. CASE UNCHANGED vars
  BY <1>1, <1>7 DEF vars, dbVars, shown, logged
<1> QED
  BY <1>4, <1>5, <1>6, <1>7 DEF Next, BagToSet, Recorded

-----------------------------------------------------------------------------
(* The membership log.                                                     *)

LEMMA PendingIs ==
  ASSUME NEW u, NEW c
  PROVE  Pending(u, c) <=> Unlogged(u, c) # {} \/ Removers(u, c) # {}
  BY DEF Pending, Unlogged, Removers, BagToSet

\* The log of a group tells whether u is a member.
Told(u, c) ==
  IF <<u, c>> \in members
  THEN \/ LastEntry(u, c) = {"added"}
       \/ /\ u = chan[c].owner \/ chan[c].scheme = "legacy-ecdh"
          /\ LastEntry(u, c) = {}
  ELSE LastEntry(u, c) \subseteq {"left", "removed"}

LEMMA LogTold ==
  ASSUME MisdatedSigned
  PROVE  LogTellsMembers <=>
    \A c \in Chans, u \in Users :
      chan[c].group /\ <<u, c>> \notin overlap /\ <<u, c>> \notin misdated
        /\ Unlogged(u, c) = {} /\ Removers(u, c) = {} => Told(u, c)
<1>1. \A c \in Chans, u \in Users : Misdated(u, c) <=> <<u, c>> \in misdated
  BY DEF MisdatedSigned, SignedEntry, Misdated
<1> QED
  BY <1>1, PendingIs DEF LogTellsMembers, Told

LaterEntry(x, d, at) == \E i \in at .. Len(log[d]) : log[d][i].target = x

\* An entry put into the log says nothing about other users, and it is the last
\* one about its own unless an entry about them stands after it.
LEMMA EntryInserted ==
  ASSUME TypeOK, NEW t \in Callback, NEW at \in Slots(t), RecordEvent(t, at),
         NEW x, NEW d, d = t.chan
  PROVE  /\ x # t.target => LastEntry(x, d)' = LastEntry(x, d)
         /\ x = t.target /\ ~LaterEntry(x, d, at) => LastEntry(x, d)' = {t.act}
         /\ SignedEntry(x, d) => SignedEntry(x, d)'
         /\ x = t.target /\ t.signed => SignedEntry(x, d)'
<1> DEFINE e == [act |-> t.act, target |-> t.target, signed |-> t.signed]
           L == log[d]
           M == log'[d]
           n == Len(log[d])
<1>1. /\ e \in LogEntry /\ L \in Seq(LogEntry) /\ n \in Nat
      /\ DOMAIN L = 1 .. n /\ at \in 1 .. n + 1 /\ DOMAIN M = 1 .. n + 1
      /\ M[at] = e
      /\ \A i \in 1 .. n : i < at => M[i] = L[i]
      /\ \A i \in 1 .. n : i >= at => M[i + 1] = L[i]
  BY LogInserted
<1>2. e.act = t.act /\ e.target = t.target /\ (t.signed => e.signed)
  OBVIOUS
<1>3. LastEntry(x, d)' = {M[i].act : i \in {j \in DOMAIN M :
        /\ M[j].target = x
        /\ \A k \in DOMAIN M : M[k].target = x => k <= j}}
  BY DEF LastEntry
<1>4. LastEntry(x, d) = {L[i].act : i \in {j \in DOMAIN L :
        /\ L[j].target = x
        /\ \A k \in DOMAIN L : L[k].target = x => k <= j}}
  BY DEF LastEntry
<1>5. /\ SignedEntry(x, d) <=> \E i \in DOMAIN L : L[i].target = x /\ L[i].signed
      /\ SignedEntry(x, d)' <=> \E i \in DOMAIN M : M[i].target = x /\ M[i].signed
  BY DEF SignedEntry
<1> HIDE DEF e, L, M, n
<1>6. /\ \A i \in 1 .. n : \/ i \in 1 .. n + 1 /\ i < at /\ M[i] = L[i]
                           \/ i + 1 \in 1 .. n + 1 /\ i >= at /\ M[i + 1] = L[i]
      /\ \A k \in 1 .. n + 1 : \/ k < at /\ k \in 1 .. n /\ M[k] = L[k]
                               \/ k = at
                               \/ k > at /\ k - 1 \in 1 .. n /\ M[k] = L[k - 1]
  BY <1>1
<1>7. ASSUME x # t.target PROVE LastEntry(x, d)' = LastEntry(x, d)
  <2>1. ASSUME NEW j \in 1 .. n, L[j].target = x,
               \A k \in 1 .. n : L[k].target = x => k <= j
        PROVE  \E i \in 1 .. n + 1 :
                 /\ M[i].target = x /\ M[i].act = L[j].act
                 /\ \A k \in 1 .. n + 1 : M[k].target = x => k <= i
    <3>1. CASE j < at
      <4>1. j \in 1 .. n + 1 /\ M[j] = L[j]
        BY <1>1, <3>1
      <4>2. \A k \in 1 .. n + 1 : M[k].target = x => k <= j
        BY <1>1, <1>2, <1>6, <1>7, <2>1, <3>1
      <4> QED
        BY <2>1, <4>1, <4>2
    <3>2. CASE j >= at
      <4>1. j + 1 \in 1 .. n + 1 /\ M[j + 1] = L[j]
        BY <1>1, <3>2
      <4>2. \A k \in 1 .. n + 1 : M[k].target = x => k <= j + 1
        BY <1>1, <1>2, <1>6, <1>7, <2>1, <3>2
      <4> QED
        BY <2>1, <4>1, <4>2
    <3> QED
      BY <1>1, <3>1, <3>2
  <2>2. ASSUME NEW i \in 1 .. n + 1, M[i].target = x,
               \A k \in 1 .. n + 1 : M[k].target = x => k <= i
        PROVE  \E j \in 1 .. n :
                 /\ L[j].target = x /\ L[j].act = M[i].act
                 /\ \A k \in 1 .. n : L[k].target = x => k <= j
    <3>1. i # at
      BY <1>1, <1>2, <1>7, <2>2
    <3>2. CASE i < at
      <4>1. i \in 1 .. n /\ M[i] = L[i]
        BY <1>1, <3>2
      <4>2. \A k \in 1 .. n : L[k].target = x => k <= i
        BY <1>1, <1>6, <2>2, <3>2
      <4> QED
        BY <2>2, <4>1, <4>2
    <3>3. CASE i > at
      <4>1. i - 1 \in 1 .. n /\ M[i] = L[i - 1]
        BY <1>1, <3>3
      <4>2. \A k \in 1 .. n : L[k].target = x => k <= i - 1
        BY <1>1, <1>6, <2>2, <3>3
      <4> QED
        BY <2>2, <4>1, <4>2
    <3>4. i < at \/ i = at \/ i > at
      BY <1>1
    <3> QED
      BY <3>1, <3>2, <3>3, <3>4
  <2>3. LastEntry(x, d) \subseteq LastEntry(x, d)'
    BY <1>1, <1>3, <1>4, <2>1
  <2>4. LastEntry(x, d)' \subseteq LastEntry(x, d)
    BY <1>1, <1>3, <1>4, <2>2
  <2> QED
    BY <2>3, <2>4
<1>8. ASSUME x = t.target, \A i \in at .. n : L[i].target # x
      PROVE  LastEntry(x, d)' = {t.act}
  <2>1. {j \in DOMAIN M : /\ M[j].target = x
                          /\ \A k \in DOMAIN M : M[k].target = x => k <= j} = {at}
    <3>1. \A k \in 1 .. n + 1 : M[k].target = x => k <= at
      BY <1>1, <1>6, <1>8
    <3>2. at \in 1 .. n + 1 /\ M[at].target = x
      BY <1>1, <1>2, <1>8
    <3> QED
      BY <1>1, <3>1, <3>2
  <2> QED
    BY <1>1, <1>2, <1>3, <2>1
<1>9. ASSUME SignedEntry(x, d) PROVE SignedEntry(x, d)'
  <2>1. PICK i \in 1 .. n : L[i].target = x /\ L[i].signed
    BY <1>1, <1>5, <1>9
  <2>2. PICK k \in 1 .. n + 1 : M[k] = L[i]
    BY <1>6
  <2>3. M[k].target = x /\ M[k].signed
    BY <2>1, <2>2, Zenon
  <2> QED
    BY <1>1, <1>5, <2>3
<1>10. x = t.target /\ t.signed => SignedEntry(x, d)'
  BY <1>1, <1>2, <1>5
<1> QED
  BY <1>7, <1>8, <1>9, <1>10 DEF L, n, LaterEntry

\* What one pair of a user and a channel contributes to OneChange and to
\* LogTellsMembers.
PairInv(x, d) ==
  /\ <<x, d>> \in misdated => SignedEntry(x, d)
  /\ <<x, d>> \notin overlap =>
       /\ OneChangeOf(x, d)
       /\ (/\ chan[d].group /\ <<x, d>> \notin misdated
           /\ Unlogged(x, d) = {} /\ Removers(x, d) = {})
            => Told(x, d)

LEMMA PairInvs ==
  OneChange /\ MisdatedSigned /\ LogTellsMembers
    <=> \A x \in Users, d \in Chans : PairInv(x, d)
<1>1. (\A x \in Users, d \in Chans : PairInv(x, d)) => MisdatedSigned
  BY DEF PairInv, MisdatedSigned
<1>2. ASSUME MisdatedSigned
      PROVE  OneChange /\ LogTellsMembers
               <=> \A x \in Users, d \in Chans : PairInv(x, d)
  BY <1>2, LogTold DEF OneChange, PairInv, MisdatedSigned
<1> QED
  BY <1>1, <1>2

\* A step that leaves the pair alone.
LEMMA PairUnmoved ==
  ASSUME TypeOK, NEW x \in Users, NEW d \in Chans, PairInv(x, d),
         <<x, d>> \in overlap => <<x, d>> \in overlap',
         <<x, d>> \in members' <=> <<x, d>> \in members,
         chan[d].group => /\ chan'[d].owner = chan[d].owner
                          /\ chan'[d].scheme = chan[d].scheme,
         chan'[d].group = chan[d].group,
         Unlogged(x, d)' = Unlogged(x, d),
         \A t \in Unlogged(x, d) : todo'[t] = todo[t],
         Removers(x, d)' = Removers(x, d),
         LastEntry(x, d)' = LastEntry(x, d),
         <<x, d>> \in misdated' <=> <<x, d>> \in misdated,
         SignedEntry(x, d) => SignedEntry(x, d)'
  PROVE  PairInv(x, d)'
<1>1. <<x, d>> \in misdated' => SignedEntry(x, d)'
  BY DEF PairInv
<1>2. ASSUME <<x, d>> \notin overlap' PROVE OneChangeOf(x, d)'
  BY <1>2 DEF PairInv, OneChangeOf
<1>3. ASSUME <<x, d>> \notin overlap', chan'[d].group, <<x, d>> \notin misdated',
             Unlogged(x, d)' = {}, Removers(x, d)' = {}
      PROVE  Told(x, d)'
  BY <1>3 DEF PairInv, Told
<1> QED
  BY <1>1, <1>2, <1>3 DEF PairInv

\* The requests that are between a removal and its log entry.
LEMMA SameRemovers ==
  ASSUME NEW x, NEW d,
         \A v \in Users : (req'[v].pc = "removed" <=> req[v].pc = "removed"),
         \A v \in Users : req[v].pc = "removed" => req'[v] = req[v]
  PROVE  Removers(x, d)' = Removers(x, d)
  BY DEF Removers

LEMMA PairQuiet ==
  ASSUME TypeOK, UNCHANGED <<todo, members, log, chan, logged>>,
         \A v \in Users : (req'[v].pc = "removed" <=> req[v].pc = "removed"),
         \A v \in Users : req[v].pc = "removed" => req'[v] = req[v],
         NEW x \in Users, NEW d \in Chans, PairInv(x, d)
  PROVE  PairInv(x, d)'
<1>1. Removers(x, d)' = Removers(x, d)
  BY SameRemovers
<1>2. /\ Unlogged(x, d)' = Unlogged(x, d) /\ LastEntry(x, d)' = LastEntry(x, d)
      /\ SignedEntry(x, d)' <=> SignedEntry(x, d)
  BY DEF Unlogged, LastEntry, SignedEntry
<1> QED
  BY <1>1, <1>2, PairUnmoved DEF logged

LEMMA PairOpenChannel ==
  ASSUME TypeOK, Grounded, NEW u \in Users, NEW others \in SUBSET Users,
         NEW enc \in BOOLEAN, NEW c \in Chans, OpenChannel(u, others, enc, c),
         NEW x \in Users, NEW d \in Chans, PairInv(x, d)
  PROVE  PairInv(x, d)'
<1>1. Founded(u, others, enc, c)
  BY OpenChannelEffect
<1>2. UNCHANGED <<req, log, overlap, misdated>>
  BY DEF OpenChannel, logged
<1>3. /\ Removers(x, d)' = Removers(x, d) /\ LastEntry(x, d)' = LastEntry(x, d)
      /\ SignedEntry(x, d)' <=> SignedEntry(x, d)
  BY <1>2 DEF Removers, LastEntry, SignedEntry
<1>4. \A t \in Founders(u, others, c) : t.chan = c /\ t.act = "added"
  BY DEF Founders, Entry
<1>5. /\ ~chan[c].open /\ <<x, c>> \notin members
      /\ \A t \in DOMAIN todo : t.chan # c
      /\ \A v \in Users : req[v].pc # "idle" => req[v].chan # c
      /\ chan'[c].owner = u
      /\ chan'[c].group <=> Several(u, others)
      /\ \A e \in Chans : e # c => chan'[e] = chan[e]
      /\ members' = members \cup ((others \cup {u}) \X {c})
      /\ DOMAIN todo' = DOMAIN todo \cup Founders(u, others, c)
      /\ \A t \in DOMAIN todo : todo'[t] = todo[t]
      /\ \A t \in DOMAIN todo' : t \notin DOMAIN todo => todo'[t] = 1
  BY <1>1 DEF Founded
<1>6. CASE d # c
  <2>1. Unlogged(x, d)' = Unlogged(x, d)
    BY <1>4, <1>5, <1>6 DEF Unlogged
  <2>2. <<x, d>> \in members' <=> <<x, d>> \in members
    BY <1>5, <1>6
  <2>3. \A t \in Unlogged(x, d) : todo'[t] = todo[t]
    BY <1>5 DEF Unlogged
  <2> QED
    BY <1>2, <1>3, <1>5, <1>6, <2>1, <2>2, <2>3, PairUnmoved
<1>7. CASE d = c
  <2>1. Removers(x, d)' = {} /\ LastEntry(x, d)' = {}
    <3>1. Removers(x, d) = {}
      BY <1>5, <1>7 DEF Removers
    <3>2. log[d] = << >>
      BY <1>5, <1>7 DEF Grounded
    <3>3. LastEntry(x, d) = {}
      BY <3>2 DEF LastEntry
    <3> QED
      BY <1>3, <3>1, <3>3
  <2>2. Unlogged(x, d)' = {t \in Founders(u, others, c) : t.target = x}
    BY <1>4, <1>5, <1>7 DEF Unlogged
  <2>3. \A t \in Unlogged(x, d)' :
          t = Entry(c, "added", u, x, FALSE) /\ t.act = "added" /\ x \in others
    BY <2>2 DEF Founders, Entry
  <2>4. Several(u, others) /\ x \in others => Unlogged(x, d)' # {}
    <3>1. Entry(c, "added", u, x, FALSE).target = x
      BY DEF Entry
    <3> QED
      BY <2>2, <3>1 DEF Founders
  <2>5. <<x, d>> \in members' <=> x \in others \cup {u}
    BY <1>5, <1>7
  <2>6. \A t \in Unlogged(x, d)' : todo'[t] = 1
    BY <1>5, <1>7 DEF Unlogged
  <2>7. OneChangeOf(x, d)'
    BY <2>1, <2>3, <2>5, <2>6 DEF OneChangeOf
  <2>8. chan'[d].group /\ Unlogged(x, d)' = {} => Told(x, d)'
    BY <1>5, <1>7, <2>1, <2>4, <2>5 DEF Told
  <2> QED
    BY <1>2, <1>3, <2>7, <2>8 DEF PairInv
<1> QED
  BY <1>6, <1>7

LEMMA PairAddInsert ==
  ASSUME TypeOK, Grounded, NEW u \in Users, NEW signed, AddInsert(u, signed),
         NEW x \in Users, NEW d \in Chans, PairInv(x, d)
  PROVE  PairInv(x, d)'
<1> DEFINE c == req[u].chan
           v == req[u].who
           t == Entry(c, "added", u, v, signed)
<1>1. /\ c \in Chans /\ v \in Users /\ req[u].pc = "add"
      /\ req'[u].pc = "idle" /\ \A w \in Users : w # u => req'[w] = req[w]
      /\ members' = members \cup {<<v, c>>}
      /\ \A e \in Chans : /\ chan'[e].group = chan[e].group
                          /\ chan'[e].owner = chan[e].owner
                          /\ chan'[e].scheme = chan[e].scheme
  BY AddInsertEffect
<1>2. t.chan = c /\ t.target = v /\ t.act = "added"
  BY DEF Entry
<1>3. log' = log /\ misdated' = misdated
  BY DEF AddInsert
<1>4. /\ Removers(x, d)' = Removers(x, d) /\ LastEntry(x, d)' = LastEntry(x, d)
      /\ SignedEntry(x, d)' <=> SignedEntry(x, d)
  BY <1>1, <1>3 DEF Removers, LastEntry, SignedEntry
<1>5. CASE <<v, c>> \in members
  <2>1. UNCHANGED <<chan, members, todo, overlap>>
    BY <1>5, AddInsertEffect
  <2> QED
    BY <1>1, <1>3, <2>1, PairQuiet DEF logged
<1>6. CASE <<v, c>> \notin members
  <2>1. /\ DOMAIN todo' = DOMAIN todo \cup {t}
        /\ \A s \in DOMAIN todo : s # t => todo'[s] = todo[s]
        /\ t \notin DOMAIN todo => todo'[t] = 1
        /\ Pending(v, c) => <<v, c>> \in overlap'
        /\ overlap \subseteq overlap'
    BY <1>6, AddInsertEffect, SMTT(30)
  <2> HIDE DEF c, v, t
  <2>2. CASE x # v \/ d # c
    <3>1. Unlogged(x, d)' = Unlogged(x, d)
      BY <1>2, <2>1, <2>2 DEF Unlogged
    <3>2. \A s \in Unlogged(x, d) : todo'[s] = todo[s]
      BY <1>2, <2>1, <2>2 DEF Unlogged
    <3>3. <<x, d>> \in members' <=> <<x, d>> \in members
      BY <1>1, <2>2
    <3> QED
      BY <1>1, <1>3, <1>4, <2>1, <3>1, <3>2, <3>3, PairUnmoved
  <2>3. CASE x = v /\ d = c
    <3> SUFFICES ASSUME <<x, d>> \notin overlap'
                 PROVE  OneChangeOf(x, d)' /\ Unlogged(x, d)' # {}
      BY <1>3, <1>4 DEF PairInv
    <3>1. Unlogged(x, d) = {} /\ Removers(x, d) = {}
      BY <2>1, <2>3, PendingIs
    <3>2. t \notin DOMAIN todo
      BY <1>2, <2>3, <3>1 DEF Unlogged
    <3>3. Unlogged(x, d)' = {t}
      BY <1>2, <2>1, <2>3, <3>1 DEF Unlogged
    <3> QED
      BY <1>1, <1>2, <1>4, <2>1, <2>3, <3>1, <3>2, <3>3 DEF OneChangeOf
  <2> QED
    BY <2>2, <2>3
<1> QED
  BY <1>5, <1>6

LEMMA PairRemoveRow ==
  ASSUME TypeOK, NEW u \in Users, NEW c \in Chans, NEW v \in Users,
         RemoveRow(u, c, v), NEW x \in Users, NEW d \in Chans, PairInv(x, d)
  PROVE  PairInv(x, d)'
<1>1. /\ req[u].pc = "idle"
      /\ req'[u].pc = "removed" /\ req'[u].chan = c /\ req'[u].who = v
      /\ \A w \in Users : w # u => req'[w] = req[w]
      /\ members' = members \ {<<v, c>>}
      /\ \A e \in Chans : /\ chan'[e].group = chan[e].group
                          /\ chan'[e].owner = chan[e].owner
                          /\ chan'[e].scheme = chan[e].scheme
  BY RemoveRowEffect
<1>2. /\ UNCHANGED <<log, todo, misdated>>
      /\ overlap' = IF Pending(v, c) THEN overlap \cup {<<v, c>>} ELSE overlap
  BY DEF RemoveRow
<1>3. /\ Unlogged(x, d)' = Unlogged(x, d) /\ LastEntry(x, d)' = LastEntry(x, d)
      /\ SignedEntry(x, d)' <=> SignedEntry(x, d)
  BY <1>2 DEF Unlogged, LastEntry, SignedEntry
<1>4. CASE x # v \/ d # c
  <2>1. Removers(x, d)' = Removers(x, d)
    BY <1>1, <1>4 DEF Removers
  <2>2. <<x, d>> \in members' <=> <<x, d>> \in members
    BY <1>1, <1>4
  <2> QED
    BY <1>1, <1>2, <1>3, <2>1, <2>2, PairUnmoved
<1>5. CASE x = v /\ d = c
  <2> SUFFICES ASSUME <<x, d>> \notin overlap'
               PROVE  OneChangeOf(x, d)' /\ Removers(x, d)' # {}
    BY <1>2, <1>3 DEF PairInv
  <2>1. Unlogged(x, d) = {} /\ Removers(x, d) = {}
    BY <1>2, <1>5, PendingIs
  <2>2. Removers(x, d)' = {u}
    BY <1>1, <1>5, <2>1 DEF Removers
  <2> QED
    BY <1>1, <1>3, <1>5, <2>1, <2>2 DEF OneChangeOf
<1> QED
  BY <1>4, <1>5

LEMMA PairRemoveDone ==
  ASSUME TypeOK, Grounded, NEW u \in Users, NEW signed, RemoveDone(u, signed),
         NEW x \in Users, NEW d \in Chans, PairInv(x, d)
  PROVE  PairInv(x, d)'
<1> DEFINE c == req[u].chan
           v == req[u].who
           t == Entry(c, IF v = u THEN "left" ELSE "removed", u, v, signed)
<1>1. /\ c \in Chans /\ v \in Users /\ req[u].pc = "removed"
      /\ req'[u].pc = "idle" /\ \A w \in Users : w # u => req'[w] = req[w]
      /\ DOMAIN todo' = DOMAIN todo \cup {t}
      /\ \A s \in DOMAIN todo : s # t => todo'[s] = todo[s]
      /\ t \notin DOMAIN todo => todo'[t] = 1
  BY RemoveDoneEffect
<1>2. t.chan = c /\ t.target = v /\ t.act # "added"
  BY DEF Entry
<1>3. UNCHANGED <<log, chan, members, overlap, misdated>>
  BY DEF RemoveDone, dbVars, logged
<1>4. LastEntry(x, d)' = LastEntry(x, d) /\ (SignedEntry(x, d)' <=> SignedEntry(x, d))
  BY <1>3 DEF LastEntry, SignedEntry
<1>5. CASE x # v \/ d # c
  <2>1. Removers(x, d)' = Removers(x, d)
    BY <1>1, <1>5 DEF Removers
  <2> HIDE DEF c, v, t
  <2>2. Unlogged(x, d)' = Unlogged(x, d)
    BY <1>1, <1>2, <1>5 DEF Unlogged
  <2>3. \A s \in Unlogged(x, d) : todo'[s] = todo[s]
    BY <1>1, <1>2, <1>5 DEF Unlogged
  <2> QED
    BY <1>3, <1>4, <2>1, <2>2, <2>3, PairUnmoved
<1>6. CASE x = v /\ d = c
  <2> SUFFICES ASSUME <<x, d>> \notin overlap
               PROVE  OneChangeOf(x, d)' /\ Unlogged(x, d)' # {}
    BY <1>3, <1>4 DEF PairInv
  <2>1. u \in Removers(x, d) /\ OneChangeOf(x, d)
    BY <1>1, <1>6 DEF Removers, PairInv
  <2>2. Removers(x, d) = {u} /\ Unlogged(x, d) = {} /\ <<x, d>> \notin members
    BY <2>1 DEF OneChangeOf
  <2>3. Removers(x, d)' = {}
    BY <1>1, <2>2 DEF Removers
  <2> HIDE DEF c, v, t
  <2>4. t \notin DOMAIN todo
    BY <1>2, <1>6, <2>2 DEF Unlogged
  <2>5. Unlogged(x, d)' = {t}
    BY <1>1, <1>2, <1>6, <2>2 DEF Unlogged
  <2> QED
    BY <1>1, <1>2, <1>3, <2>2, <2>3, <2>4, <2>5 DEF OneChangeOf
<1> QED
  BY <1>5, <1>6

LEMMA PairCallback ==
  ASSUME TypeOK, NEW t \in DOMAIN todo, Recorded(t) \/ EventLost(t),
         NEW x \in Users, NEW d \in Chans, PairInv(x, d)
  PROVE  PairInv(x, d)'
<1>1. /\ t.chan \in Chans /\ t.target \in Users /\ t.act \in Changes
      /\ DOMAIN todo' \subseteq DOMAIN todo
      /\ t \in DOMAIN todo' => todo[t] # 1
      /\ \A s \in DOMAIN todo : s # t => s \in DOMAIN todo' /\ todo'[s] = todo[s]
      /\ UNCHANGED <<chan, members, req>>
  BY CallbackEffect
<1>2. Removers(x, d)' = Removers(x, d)
  BY <1>1 DEF Removers
<1>6. t \in Callback
  BY DEF TypeOK, Callback
<1>3. CASE x # t.target \/ d # t.chan
  <2>1. Unlogged(x, d)' = Unlogged(x, d)
    BY <1>1, <1>3 DEF Unlogged
  <2>2. \A s \in Unlogged(x, d) : todo'[s] = todo[s]
    BY <1>1, <1>3 DEF Unlogged
  <2>3. /\ LastEntry(x, d)' = LastEntry(x, d)
        /\ SignedEntry(x, d) => SignedEntry(x, d)'
    <3>1. CASE log'[d] = log[d]
      BY <3>1 DEF LastEntry, SignedEntry
    <3>2. CASE Recorded(t) /\ d = t.chan
      BY <1>3, <1>6, <3>2, EntryInserted DEF Recorded
    <3>3. log'[d] = log[d] \/ (Recorded(t) /\ d = t.chan)
      <4>1. CASE EventLost(t)
        BY <4>1 DEF EventLost, dbVars
      <4>2. CASE Recorded(t) /\ d # t.chan
        BY <1>1, <4>2 DEF Recorded, RecordEvent, TypeOK
      <4> QED
        BY <4>1, <4>2
    <3> QED
      BY <3>1, <3>2, <3>3
  <2>4. /\ <<x, d>> \in overlap => <<x, d>> \in overlap'
        /\ <<x, d>> \in misdated' <=> <<x, d>> \in misdated
    <3>1. CASE EventLost(t)
      BY <3>1 DEF EventLost
    <3>2. CASE Recorded(t)
      <4>1. /\ overlap' = overlap
            /\ \/ misdated' = misdated \cup {<<t.target, t.chan>>}
               \/ misdated' = misdated \ {<<t.target, t.chan>>}
        BY <3>2 DEF Recorded, RecordEvent
      <4> QED
        BY <1>3, <4>1
    <3> QED
      BY <3>1, <3>2
  <2> QED
    BY <1>1, <1>2, <2>1, <2>2, <2>3, <2>4, PairUnmoved
<1>4. CASE x = t.target /\ d = t.chan /\ EventLost(t)
  <2>1. SignedEntry(x, d)' <=> SignedEntry(x, d)
    BY <1>4 DEF EventLost, dbVars, SignedEntry
  <2> QED
    BY <1>4, <2>1 DEF EventLost, PairInv
<1>5. CASE x = t.target /\ d = t.chan /\ Recorded(t)
  <2>1. PICK at \in Slots(t) : RecordEvent(t, at)
    BY <1>5 DEF Recorded
  <2> DEFINE later == LaterEntry(x, d, at)
  <2>2. /\ overlap' = overlap
        /\ <<x, d>> \in misdated' <=> later
    BY <1>5, <2>1 DEF RecordEvent, LaterEntry
  <2>3. /\ ~later => LastEntry(x, d)' = {t.act}
        /\ SignedEntry(x, d) => SignedEntry(x, d)'
        /\ t.signed => SignedEntry(x, d)'
    <3>1. ASSUME ~later PROVE LastEntry(x, d)' = {t.act}
      BY <1>5, <1>6, <2>1, <3>1, EntryInserted
    <3>2. ASSUME SignedEntry(x, d) PROVE SignedEntry(x, d)'
      BY <1>5, <1>6, <2>1, <3>2, EntryInserted
    <3>3. ASSUME t.signed PROVE SignedEntry(x, d)'
      BY <1>5, <1>6, <2>1, <3>3, EntryInserted
    <3> QED
      BY <3>1, <3>2, <3>3
  <2>4. later => t.signed \/ SignedEntry(x, d)
    <3>1. DOMAIN log[d] = 1 .. Len(log[d])
      BY <1>5, <1>6, <2>1, LogInserted
    <3>2. /\ at \in 1 .. Len(log[d]) + 1
          /\ t.signed \/ \A i \in at .. Len(log[d]) : log[d][i].signed
      BY <1>5 DEF Slots
    <3>3. at .. Len(log[d]) \subseteq DOMAIN log[d]
      BY <3>1, <3>2
    <3> QED
      BY <3>2, <3>3 DEF SignedEntry, LaterEntry
  <2> HIDE DEF later
  <2> SUFFICES ASSUME <<x, d>> \notin overlap
               PROVE  OneChangeOf(x, d)' /\ (~later => Told(x, d)')
    BY <2>2, <2>3, <2>4 DEF PairInv
  <2>5. t \in Unlogged(x, d) /\ OneChangeOf(x, d)
    BY <1>5 DEF Unlogged, PairInv
  <2>6. /\ Unlogged(x, d) = {t} /\ todo[t] = 1 /\ Removers(x, d) = {}
        /\ t.act = "added" <=> <<x, d>> \in members
    BY <2>5 DEF OneChangeOf
  <2>7. Unlogged(x, d)' = {}
    BY <1>1, <2>6 DEF Unlogged
  <2>8. OneChangeOf(x, d)'
    BY <1>2, <2>6, <2>7 DEF OneChangeOf
  <2>9. ~later => Told(x, d)'
    BY <1>1, <2>3, <2>6 DEF Told, Changes
  <2> QED
    BY <2>8, <2>9
<1> QED
  BY <1>3, <1>4, <1>5

LEMMA LogStep ==
  ASSUME TypeOK, Grounded, OneChange, MisdatedSigned, LogTellsMembers, [Next]_vars
  PROVE  OneChange' /\ MisdatedSigned' /\ LogTellsMembers'
<1>1. \A x \in Users, d \in Chans : PairInv(x, d)
  BY PairInvs
<1>2. ASSUME NEW x \in Users, NEW d \in Chans
      PROVE  PairInv(x, d)'
  <2>1. PairInv(x, d)
    BY <1>1
  <2>2. ASSUME NEW u \in Users, Request(u) PROVE PairInv(x, d)'
    <3>1. CASE \E c \in Chans, v \in Users : RemoveRow(u, c, v)
      BY <2>1, <3>1, PairRemoveRow
    <3>2. CASE \E c \in Chans, others \in SUBSET Users, enc \in BOOLEAN :
                 OpenChannel(u, others, enc, c)
      BY <2>1, <3>2, PairOpenChannel
    <3>3. CASE Friend(u) \/ \E m \in Msgs : DeleteMessage(u, m)
      <4>1. UNCHANGED <<todo, members, log, chan, logged, req>>
        BY <3>3 DEF Friend, DeleteMessage, dbVars, shown, logged
      <4> QED
        BY <2>1, <4>1, PairQuiet
    <3>4. CASE \/ \E c \in Chans : \E m : ReadChannel(u, c, m)
               \/ \E ms : ShowOnly(u, ms)
      <4>1. UNCHANGED <<todo, members, log, chan, logged, req>>
        BY <3>4 DEF ReadChannel, ShowOnly, dbVars
      <4> QED
        BY <2>1, <4>1, PairQuiet
    <3>5. CASE \E c \in Chans, v \in Users : AddCheck(u, c, v)
      <4>1. PICK c \in Chans, v \in Users : AddCheck(u, c, v)
        BY <3>5
      <4> DEFINE r == [pc |-> "add", chan |-> c, who |-> v, ver |-> 0]
      <4>2. req' = [req EXCEPT ![u] = r] /\ req[u].pc = "idle" /\ r.pc = "add"
        BY <4>1 DEF AddCheck, Ask
      <4> HIDE DEF r
      <4>3. /\ req'[u] = r
            /\ \A w \in Users : w # u => req'[w] = req[w]
        BY <4>2 DEF TypeOK
      <4>4. UNCHANGED <<todo, members, log, chan, logged>>
        BY <4>1 DEF AddCheck, dbVars, shown, logged
      <4> QED
        BY <2>1, <4>2, <4>3, <4>4, PairQuiet
    <3>6. CASE \E c \in Chans : SendCheck(u, c)
      <4>1. PICK c \in Chans : SendCheck(u, c)
        BY <3>6
      <4> DEFINE r == [pc |-> "send", chan |-> c, who |-> None,
                       ver |-> chan[c].ver]
      <4>2. req' = [req EXCEPT ![u] = r] /\ req[u].pc = "idle" /\ r.pc = "send"
        BY <4>1 DEF SendCheck, Ask
      <4> HIDE DEF r
      <4>3. /\ req'[u] = r
            /\ \A w \in Users : w # u => req'[w] = req[w]
        BY <4>2 DEF TypeOK
      <4>4. UNCHANGED <<todo, members, log, chan, logged>>
        BY <4>1 DEF SendCheck, dbVars, shown, logged
      <4> QED
        BY <2>1, <4>2, <4>3, <4>4, PairQuiet
    <3> QED
      BY <2>2, <3>1, <3>2, <3>3, <3>4, <3>5, <3>6
      DEF Request, ReadChannelMarkFails, ReadMessage
  <2>3. ASSUME NEW u \in Users, Continue(u) PROVE PairInv(x, d)'
    <3>1. CASE \E signed \in BOOLEAN : AddInsert(u, signed)
      BY <2>1, <3>1, PairAddInsert
    <3>2. CASE \E signed \in BOOLEAN : RemoveDone(u, signed)
      BY <2>1, <3>2, PairRemoveDone
    <3>3. CASE SendRefused(u) \/
               \E m \in Msgs, reply \in Msgs \cup {None} : SendInsert(u, m, reply)
      <4>1. req[u].pc = "send" /\ req' = [req EXCEPT ![u] = Idle]
        BY <3>3 DEF SendRefused, SendInsert
      <4>2. /\ req'[u].pc = "idle"
            /\ \A v \in Users : v # u => req'[v] = req[v]
        BY <4>1 DEF TypeOK, Idle
      <4>3. UNCHANGED <<todo, members, log, chan, logged>>
        BY <3>3 DEF SendRefused, SendInsert, dbVars, shown, logged
      <4> QED
        BY <2>1, <4>1, <4>2, <4>3, PairQuiet
    <3> QED
      BY <2>3, <3>1, <3>2, <3>3 DEF Continue
  <2>4. ASSUME NEW t \in DOMAIN todo, Recorded(t) \/ EventLost(t)
        PROVE  PairInv(x, d)'
    BY <2>1, <2>4, PairCallback
  <2>5. CASE UNCHANGED vars
    <3>1. UNCHANGED <<todo, members, log, chan, logged, req>>
      BY <2>5 DEF vars, dbVars, shown, logged
    <3> QED
      BY <2>1, <3>1, PairQuiet
  <2> QED
    BY <2>2, <2>3, <2>4, <2>5 DEF Next, BagToSet, Recorded
<1>3. (\A x \in Users, d \in Chans : PairInv(x, d))'
  BY <1>2
<1> QED
  BY <1>3, PairInvs, PTL

-----------------------------------------------------------------------------
(* What is unread.                                                         *)

\* A step that neither stores, nor deletes, nor shows a message.
LEMMA ReadStateKept ==
  ASSUME ReadState, UNCHANGED <<msg, order, lastRead, shown>>
  PROVE  ReadState'
  BY DEF ReadState, Live, shown

LEMMA ReadStateSend ==
  ASSUME TypeOK, ReadState, NEW u \in Users, NEW m \in Msgs, NEW reply,
         SendInsert(u, m, reply)
  PROVE  ReadState'
<1> DEFINE new == [chan |-> req[u].chan, sender |-> u, state |-> "live",
                   reply |-> reply, ver |-> req[u].ver]
           n == Len(order)
<1>1. /\ msg[m].state = "none" /\ msg' = [msg EXCEPT ![m] = new]
      /\ order' = Append(order, m) /\ UNCHANGED <<lastRead, seen, unmarked, skipped>>
  BY DEF SendInsert, shown
<1>2. new.state = "live"
  OBVIOUS
<1> HIDE DEF new
<1>3. /\ msg'[m] = new /\ \A k \in Msgs : k # m => msg'[k] = msg[k]
  BY <1>1 DEF TypeOK
<1>4. /\ n \in Nat /\ DOMAIN order = 1 .. n /\ DOMAIN order' = 1 .. n + 1
      /\ Len(order') = n + 1 /\ order'[n + 1] = m
      /\ \A i \in 1 .. n : order'[i] = order[i] /\ order[i] \in Msgs
  <2>1. order \in Seq(Msgs)
    BY DEF TypeOK
  <2> QED
    BY <1>1, <2>1
<1> HIDE DEF n
<1>5. \A i \in 1 .. n : order[i] # m
  BY <1>1, <1>4 DEF ReadState
<1>6. \A p \in seen : p[2] # m /\ p[2] \in Msgs
  BY <1>1 DEF ReadState, TypeOK
<1>7. \A c \in Chans : \A i \in Live(c)' : i \in Live(c) \/ i = n + 1
  BY <1>3, <1>4, <1>5 DEF Live
<1>8. \A w \in Users, c \in Chans : lastRead[w][c] \in Nat /\ lastRead[w][c] <= n
  BY DEF TypeOK, ReadState, n
<1>9. \A i \in DOMAIN order' : msg'[order'[i]].state # "none"
  BY <1>2, <1>3, <1>4, <1>5 DEF ReadState
<1>10. \A p \in seen' : msg'[p[2]].state # "none"
  BY <1>1, <1>3, <1>6 DEF ReadState
<1>11. \A w \in Users, c \in Chans : lastRead'[w][c] <= Len(order')
  BY <1>1, <1>4, <1>8
<1>12. ASSUME NEW w \in Users, NEW c \in Chans, NEW i \in Live(c)'
       PROVE  /\ <<w, c>> \notin skipped' /\ i <= lastRead'[w][c] =>
                   <<w, order'[i]>> \in seen' \ unmarked'
              /\ <<w, order'[i]>> \in seen' \ unmarked' => i <= lastRead'[w][c]
  <2>1. CASE i = n + 1
    <3>1. order'[i] = m /\ ~(i <= lastRead'[w][c])
      BY <1>1, <1>4, <1>8, <2>1
    <3>2. <<w, m>> \notin seen'
      BY <1>1, <1>6
    <3> QED
      BY <3>1, <3>2
  <2>2. CASE i \in Live(c)
    <3>1. order'[i] = order[i]
      BY <1>4, <2>2 DEF Live
    <3> QED
      BY <1>1, <2>2, <3>1 DEF ReadState
  <2> QED
    BY <1>7, <2>1, <2>2
<1> QED
  BY <1>9, <1>10, <1>11, <1>12 DEF ReadState

LEMMA ReadStateDelete ==
  ASSUME TypeOK, ReadState, NEW u \in Users, NEW m \in Msgs, DeleteMessage(u, m)
  PROVE  ReadState'
<1> DEFINE new == [msg[m] EXCEPT !.state = "deleted"]
<1>1. /\ msg' = [msg EXCEPT ![m] = new]
      /\ UNCHANGED <<order, lastRead, seen, unmarked, skipped>>
  BY DEF DeleteMessage, TypeOK, shown
<1>2. msg[m] \in Message
  BY DEF TypeOK, Message
<1>3. new.state = "deleted"
  BY <1>2 DEF Message
<1> HIDE DEF new
<1>4. msg'[m] = new /\ \A k \in Msgs : k # m => msg'[k] = msg[k]
  BY <1>1 DEF TypeOK
<1>5. /\ \A i \in DOMAIN order : order[i] \in Msgs
      /\ \A p \in seen : p[2] \in Msgs
  <2>1. order \in Seq(Msgs) /\ seen \in SUBSET (Users \X Msgs)
    BY DEF TypeOK
  <2> QED
    BY <2>1
<1>6. \A c \in Chans : Live(c)' \subseteq Live(c)
  BY <1>1, <1>3, <1>4, <1>5 DEF Live
<1>7. /\ \A i \in DOMAIN order : msg'[order[i]].state # "none"
      /\ \A p \in seen : msg'[p[2]].state # "none"
  BY <1>3, <1>4, <1>5 DEF ReadState
<1> QED
  BY <1>1, <1>6, <1>7 DEF ReadState

LEMMA ReadStateRead ==
  ASSUME TypeOK, ReadState, NEW u \in Users, NEW c \in Chans, NEW before,
         ReadChannel(u, c, before)
  PROVE  ReadState'
<1> DEFINE all == {order[i] : i \in Live(c)}
           page == Page(c, before)
<1>1. /\ seen' = seen \cup ({u} \X page)
      /\ unmarked' = {p \in unmarked : p[1] # u \/ msg[p[2]].chan # c}
      /\ skipped' = IF Unseen(u, all) \subseteq page THEN skipped \ {<<u, c>>}
                                                    ELSE skipped \cup {<<u, c>>}
      /\ lastRead' = [lastRead EXCEPT ![u][c] = Len(order)]
      /\ msg' = msg /\ order' = order
  BY DEF ReadChannel
<1>2. /\ page \subseteq all
      /\ \A m \in page : msg[m].chan = c /\ msg[m].state = "live"
  BY PageIsLive
<1> HIDE DEF page
<1>3. \A d \in Chans : Live(d)' = Live(d)
  BY <1>1 DEF Live
<1>4. /\ lastRead'[u][c] = Len(order)
      /\ \A w \in Users, d \in Chans :
           <<w, d>> # <<u, c>> => lastRead'[w][d] = lastRead[w][d]
  BY <1>1 DEF TypeOK
<1>5. Len(order) \in Nat /\ DOMAIN order = 1 .. Len(order)
  <2>1. order \in Seq(Msgs)
    BY DEF TypeOK
  <2> QED
    BY <2>1
<1>6. \A w \in Users, d \in Chans : lastRead'[w][d] <= Len(order)
  BY <1>4, <1>5 DEF ReadState
<1>7. \A p \in seen' : msg[p[2]].state # "none"
  BY <1>1, <1>2 DEF ReadState
<1>8. ASSUME NEW w \in Users, NEW d \in Chans, NEW i \in Live(d),
             <<w, d>> \notin skipped', i <= lastRead'[w][d]
      PROVE  <<w, order[i]>> \in seen' \ unmarked'
  <2>1. CASE <<w, d>> # <<u, c>>
    <3>1. <<w, order[i]>> \in seen \ unmarked
      BY <1>1, <1>4, <1>8, <2>1 DEF ReadState
    <3> QED
      BY <1>1, <3>1
  <2>2. CASE <<w, d>> = <<u, c>>
    <3>1. w = u /\ d = c
      BY <2>2
    <3>2. order[i] \in all /\ msg[order[i]].chan = c
      BY <3>1 DEF Live
    <3>3. order[i] \in page \/ <<u, order[i]>> \in seen
      <4> HIDE DEF all
      <4> QED
        BY <1>1, <1>8, <3>1, <3>2 DEF Unseen
    <3>4. <<u, order[i]>> \in seen'
      BY <1>1, <3>3
    <3>5. <<u, order[i]>> \notin unmarked'
      BY <1>1, <3>2
    <3> QED
      BY <3>1, <3>4, <3>5
  <2> QED
    BY <2>1, <2>2
<1>9. ASSUME NEW w \in Users, NEW d \in Chans, NEW i \in Live(d),
             <<w, order[i]>> \in seen' \ unmarked'
      PROVE  i <= lastRead'[w][d]
  <2>1. i \in 1 .. Len(order) /\ msg[order[i]].chan = d
    BY <1>5 DEF Live
  <2>2. CASE w = u /\ d = c
    BY <1>4, <1>5, <2>1, <2>2
  <2>3. CASE ~(w = u /\ d = c)
    <3>1. <<w, order[i]>> \in seen
      BY <1>1, <1>2, <1>9, <2>1, <2>3
    <3>2. <<w, order[i]>> \notin unmarked
      BY <1>1, <1>9, <2>1, <2>3
    <3> QED
      BY <1>4, <2>3, <3>1, <3>2 DEF ReadState
  <2> QED
    BY <2>2, <2>3
<1>10. \A i \in DOMAIN order' : msg'[order'[i]].state # "none"
  BY <1>1 DEF ReadState
<1>11. \A p \in seen' : msg'[p[2]].state # "none"
  BY <1>1, <1>7
<1>12. \A w \in Users, d \in Chans : lastRead'[w][d] <= Len(order')
  BY <1>1, <1>6
<1>13. ASSUME NEW w \in Users, NEW d \in Chans, NEW i \in Live(d)'
       PROVE  /\ <<w, d>> \notin skipped' /\ i <= lastRead'[w][d] =>
                   <<w, order'[i]>> \in seen' \ unmarked'
              /\ <<w, order'[i]>> \in seen' \ unmarked' => i <= lastRead'[w][d]
  BY <1>1, <1>3, <1>8, <1>9
<1> QED
  BY <1>10, <1>11, <1>12, <1>13 DEF ReadState

\* What is shown without a mark is seen, and it is no more read than before.
LEMMA ReadStateShow ==
  ASSUME TypeOK, ReadState, NEW u \in Users, NEW ms,
         \A m \in ms : msg[m].state # "none", ShowOnly(u, ms)
  PROVE  ReadState'
<1>1. /\ seen' = seen \cup ({u} \X ms)
      /\ unmarked' = unmarked \cup ({u} \X Unseen(u, ms))
      /\ UNCHANGED <<msg, order, lastRead, skipped>>
  BY DEF ShowOnly, dbVars
<1>2. \A c \in Chans : Live(c)' = Live(c)
  BY <1>1 DEF Live
<1>3. \A p \in seen' : msg[p[2]].state # "none"
  BY <1>1 DEF ReadState
<1>4. \A p : p \in seen' \ unmarked' <=> p \in seen \ unmarked
  <2>1. ASSUME NEW p \in {u} \X ms, p \notin seen PROVE p \in unmarked'
    BY <1>1, <2>1 DEF Unseen
  <2>2. ASSUME NEW p \in seen PROVE p \notin {u} \X Unseen(u, ms)
    BY <2>2 DEF Unseen
  <2> QED
    BY <1>1, <2>1, <2>2
<1> QED
  BY <1>1, <1>2, <1>3, <1>4 DEF ReadState

LEMMA ReadStateStep ==
  ASSUME TypeOK, ReadState, [Next]_vars
  PROVE  ReadState'
<1> USE DEF dbVars, shown, logged
<1>1. ASSUME NEW u \in Users, Request(u) PROVE ReadState'
  <2>1. CASE \E m \in Msgs : DeleteMessage(u, m)
    BY <2>1, ReadStateDelete
  <2>2. CASE \E c \in Chans : \E m : ReadChannel(u, c, m)
    BY <2>2, ReadStateRead
  <2>4. CASE \/ \E c \in Chans : \E m : ReadChannelMarkFails(u, c, m)
             \/ \E m \in Msgs : ReadMessage(u, m)
    <3>1. ASSUME NEW c \in Chans, NEW m, ReadChannelMarkFails(u, c, m)
          PROVE  ReadState'
      <4>1. \A n \in Page(c, m) : msg[n].state # "none"
        BY PageIsLive
      <4> QED
        BY <3>1, <4>1, ReadStateShow DEF ReadChannelMarkFails
    <3>2. ASSUME NEW m \in Msgs, ReadMessage(u, m) PROVE ReadState'
      BY <3>2, ReadStateShow DEF ReadMessage
    <3> QED
      BY <2>4, <3>1, <3>2
  <2>3. CASE \/ Friend(u)
             \/ \E c \in Chans, others \in SUBSET Users, enc \in BOOLEAN :
                  OpenChannel(u, others, enc, c)
             \/ \E c \in Chans, v \in Users : AddCheck(u, c, v) \/ RemoveRow(u, c, v)
             \/ \E c \in Chans : SendCheck(u, c)
    <3>1. UNCHANGED <<msg, order, lastRead, shown>>
      BY <2>3 DEF Friend, OpenChannel, AddCheck, RemoveRow, SendCheck
    <3> QED
      BY <3>1, ReadStateKept
  <2> QED
    BY <1>1, <2>1, <2>2, <2>3, <2>4 DEF Request
<1>2. ASSUME NEW u \in Users, Continue(u) PROVE ReadState'
  <2>1. CASE \E m \in Msgs, reply \in Msgs \cup {None} : SendInsert(u, m, reply)
    BY <2>1, ReadStateSend
  <2>2. CASE \/ \E signed \in BOOLEAN : AddInsert(u, signed) \/ RemoveDone(u, signed)
             \/ SendRefused(u)
    <3>1. UNCHANGED <<msg, order, lastRead, shown>>
      BY <2>2 DEF AddInsert, RemoveDone, SendRefused
    <3> QED
      BY <3>1, ReadStateKept
  <2> QED
    BY <1>2, <2>1, <2>2 DEF Continue
<1>3. ASSUME NEW t \in DOMAIN todo, Recorded(t) \/ EventLost(t)
      PROVE  ReadState'
  BY <1>3, CallbackEffect, ReadStateKept
<1>4. CASE UNCHANGED vars
  <2>1. UNCHANGED <<msg, order, lastRead, shown>>
    BY <1>4 DEF vars
  <2> QED
    BY <2>1, ReadStateKept
<1> QED
  BY <1>1, <1>2, <1>3, <1>4 DEF Next, BagToSet, Recorded

LEMMA ReadTold == TypeOK /\ ReadState => UnreadTracksSeen
<1> SUFFICES ASSUME TypeOK, ReadState, NEW c \in Chans, NEW u \in Users,
                    <<u, c>> \notin skipped
             PROVE  Unread(u, c) <=> \E i \in Newest(c) :
                      msg[order[i]].sender # u /\ <<u, order[i]>> \notin seen \ unmarked
  BY DEF UnreadTracksSeen, MembersOf
<1>1. lastRead[u][c] \in Nat
  BY DEF TypeOK
<1>2. \A i \in Newest(c) : i \in Live(c) /\ i \in Nat
  <2>1. order \in Seq(Msgs)
    BY DEF TypeOK
  <2> QED
    BY <2>1 DEF Newest, Live
<1>3. \A i \in Live(c) : i <= lastRead[u][c] <=> <<u, order[i]>> \in seen \ unmarked
  BY DEF ReadState
<1>4. ASSUME NEW i \in Newest(c)
      PROVE  i > lastRead[u][c] <=> <<u, order[i]>> \notin seen \ unmarked
  <2>1. i <= lastRead[u][c] <=> <<u, order[i]>> \in seen \ unmarked
    BY <1>2, <1>3
  <2> QED
    BY <1>1, <1>2, <2>1
<1> QED
  BY <1>4 DEF Unread

-----------------------------------------------------------------------------
(* The specification.                                                      *)

\* Nothing has happened yet, whether the tables are empty or hold a channel
\* from before the migration.
LEMMA InitTypes ==
  ASSUME Init
  PROVE  /\ chan \in [Chans -> Channel] /\ members \in SUBSET (Users \X Chans)
         /\ \A p \in members : chan[p[2]].open
         /\ \A c \in Chans : chan[c].group => chan[c].open
         /\ \A c, d \in Chans : chan[c].open /\ chan[d].open => c = d
         /\ \A c \in Chans : chan[c].open => chan[c].scheme = "legacy-ecdh"
<1>1. CASE chan = [c \in Chans |-> NoChan] /\ members = {}
  <2>1. NoChan \in Channel /\ ~NoChan.open /\ ~NoChan.group
    BY RecordTypes DEF NoChan
  <2> HIDE DEF NoChan
  <2> QED
    BY <1>1, <2>1
<1>2. ASSUME NEW c \in Chans, NEW all \in SUBSET Users, NEW u \in Users,
             chan = [d \in Chans |-> IF d = c THEN Legacy(u, all) ELSE NoChan],
             members = all \X {c}
      PROVE  /\ chan \in [Chans -> Channel]
             /\ members \in SUBSET (Users \X Chans)
             /\ \A p \in members : chan[p[2]].open
             /\ \A d \in Chans : chan[d].group => chan[d].open
             /\ \A d, e \in Chans : chan[d].open /\ chan[e].open => d = e
             /\ \A d \in Chans : chan[d].open => chan[d].scheme = "legacy-ecdh"
  <2>1. NoChan \in Channel /\ ~NoChan.open /\ ~NoChan.group
    BY RecordTypes DEF NoChan
  <2>2. /\ Legacy(u, all) \in Channel /\ Legacy(u, all).open
        /\ Legacy(u, all).scheme = "legacy-ecdh"
    BY RecordTypes DEF Legacy
  <2> QED
    BY <1>2, <2>1, <2>2
<1> QED
  BY <1>1, <1>2 DEF Init

LEMMA InitTypeOK ==
  ASSUME Init
  PROVE  TypeOK
<1>1. /\ friends \in SUBSET Row /\ ops \in Nat /\ order \in Seq(Msgs)
      /\ graced \in SUBSET Users /\ seen \in SUBSET (Users \X Msgs)
      /\ unmarked \in SUBSET (Users \X Msgs) /\ skipped \in SUBSET (Users \X Chans)
      /\ overlap \in SUBSET (Users \X Chans) /\ misdated \in SUBSET (Users \X Chans)
  BY DEF Init, FriendsInit
<1>2. msg \in [Msgs -> Message] /\ req \in [Users -> Waiting]
  BY RecordTypes DEF Init
<1>3. log \in [Chans -> Seq([act : Changes, target : Users, signed : BOOLEAN])]
  BY DEF Init
<1>4. lastRead \in [Users -> [Chans -> Nat]]
  BY DEF Init
<1>5. IsABag(todo) /\ DOMAIN todo = {}
  BY DEF Init, EmptyBag, SetToBag, IsABag
<1> QED
  BY <1>1, <1>2, <1>3, <1>4, <1>5, InitTypes
  DEF TypeOK, Channel, Message, Waiting

LEMMA InitConversation ==
  ASSUME Init
  PROVE  ConversationInv
<1>1. TypeOK
  BY InitTypeOK
<1>2. /\ friends = {} /\ order = << >> /\ overlap = {} /\ seen = {}
      /\ misdated = {}
      /\ \A u \in Users : req[u].pc = "idle"
      /\ \A u \in Users, c \in Chans : lastRead[u][c] = 0
      /\ \A c \in Chans : log[c] = << >>
      /\ DOMAIN todo = {}
  <2>1. DOMAIN todo = {}
    BY DEF Init, EmptyBag, SetToBag
  <2> QED
    BY <2>1 DEF Init, FriendsInit, Idle
<1>3. Grounded
  BY <1>2, InitTypes DEF Grounded
<1>4. OneRow
  BY <1>2 DEF OneRow
<1>5. OneDirect
  BY InitTypes DEF OneDirect, Direct
<1>6. SendFresh
  BY <1>2 DEF SendFresh
<1>7. OneChange
  BY <1>2 DEF OneChange, OneChangeOf, Unlogged, Removers
<1>10. MisdatedSigned
  BY <1>2 DEF MisdatedSigned
<1>8. LogTellsMembers
  <2>1. ASSUME NEW c \in Chans, NEW u \in Users, chan[c].group PROVE Told(u, c)
    <3>1. LastEntry(u, c) = {}
      BY <1>2 DEF LastEntry
    <3>2. chan[c].scheme = "legacy-ecdh"
      BY <2>1, InitTypes
    <3> QED
      BY <3>1, <3>2 DEF Told
  <2> QED
    BY <1>10, <2>1, LogTold
<1>9. ReadState
  BY <1>2 DEF ReadState, Live
<1> QED
  BY <1>1, <1>3, <1>4, <1>5, <1>6, <1>7, <1>8, <1>9, <1>10 DEF ConversationInv

LEMMA ConversationStep ==
  ASSUME ConversationInv, [Next]_vars
  PROVE  ConversationInv'
<1> USE DEF ConversationInv
<1>1. TypeOK' /\ Grounded'
  BY ConversationType, GroundedStep
<1>2. OneRow'
  <2>1. CASE UNCHANGED friends
    BY <2>1 DEF OneRow
  <2>2. ASSUME NEW u \in Users, Friend(u) PROVE OneRow'
    BY <2>2, OneRowStep DEF Friend, TypeOK
  <2>3. ASSUME NEW u \in Users, Request(u) PROVE Friend(u) \/ UNCHANGED friends
    BY <2>3 DEF Request, OpenChannel, AddCheck, RemoveRow, SendCheck,
                DeleteMessage, ReadChannel, ReadChannelMarkFails, ReadMessage, ShowOnly
  <2>4. ASSUME NEW u \in Users, Continue(u) PROVE UNCHANGED friends
    BY <2>4 DEF Continue, AddInsert, RemoveDone, SendInsert, SendRefused
  <2>5. ASSUME NEW t \in DOMAIN todo, Recorded(t) \/ EventLost(t)
        PROVE  UNCHANGED friends
    BY <2>5, CallbackEffect
  <2> QED
    BY <2>1, <2>2, <2>3, <2>4, <2>5 DEF Next, BagToSet, Recorded, vars
<1>3. OneDirect' /\ SendFresh'
  BY OneDirectStep, SendFreshStep
<1>4. OneChange' /\ MisdatedSigned' /\ LogTellsMembers'
  BY LogStep
<1>5. ReadState'
  BY ReadStateStep
<1> QED
  BY <1>1, <1>2, <1>3, <1>4, <1>5

LEMMA ConversationAlways == Spec => []ConversationInv
<1>1. Init => ConversationInv
  BY InitConversation
<1>2. ConversationInv /\ [Next]_vars => ConversationInv'
  BY ConversationStep
<1> QED
  BY <1>1, <1>2, PTL DEF Spec

\* The tables, the requests in flight and the callbacks of the DM routes hold
\* values of their types.
THEOREM ConversationTypes == Spec => []TypeOK
<1>1. ConversationInv => TypeOK
  BY DEF ConversationInv
<1> QED
  BY <1>1, ConversationAlways, PTL

\* POST /api/dm/channels looks for the 1:1 channel of a pair before it opens
\* one, and members are added to groups only: two users never share two of a
\* kind, although no key of the table forbids it.
THEOREM DirectChannelsUnique == Spec => []OneDirectChannel
<1>1. ConversationInv => OneDirectChannel
  BY DirectCounted DEF ConversationInv
<1> QED
  BY <1>1, ConversationAlways, PTL

\* The membership log, whose entries are appended after the response, agrees
\* with dm_channel_members wherever nothing is outstanding, overlapped, lost, or
\* out of its order by a device's own timestamp.
THEOREM LogAgrees == Spec => []LogTellsMembers
<1>1. ConversationInv => LogTellsMembers
  BY DEF ConversationInv
<1> QED
  BY <1>1, ConversationAlways, PTL

\* The unread mark of GET /api/dm/channels, computed from dm_read_states, is
\* what the responses that marked the channel read have shown.
THEOREM UnreadAgrees == Spec => []UnreadTracksSeen
<1>1. ConversationInv => UnreadTracksSeen
  BY ReadTold DEF ConversationInv
<1> QED
  BY <1>1, ConversationAlways, PTL

\* POST messages checks membership, blocks and key version before it awaits
\* its body: what it stores after it passes the same checks, unless they
\* changed in between.
THEOREM StaleSendsExplained == Spec => StaleSendExplained
<1>1. ConversationInv /\ [Next]_vars =>
        [\A u \in Users, m \in Msgs : StaleSend(u, m)]_vars
  BY StaleSendStep DEF ConversationInv
<1>2. StaleSendExplained <=> [][\A u \in Users, m \in Msgs : StaleSend(u, m)]_vars
  BY PTL DEF StaleSendExplained, StaleSend
<1> QED
  BY <1>1, <1>2, ConversationAlways, PTL DEF Spec

\* However requests, answers, blocks and removals of any number of users
\* interleave (apps/web/app/api/friends), a pair of users has one row, and
\* their lists agree on what it says.
THEOREM FriendsStayConsistent == Spec => []FriendsConsistent
<1>1. ConversationInv => FriendsConsistent
  BY RowsTell DEF ConversationInv, TypeOK
<1> QED
  BY <1>1, ConversationAlways, PTL
=============================================================================
