----------------------------- MODULE OlmSessions -----------------------------
(***************************************************************************)
(* A device with an established pairwise Olm session with a device of     *)
(* another user: sending (dm-channel-area: encryptOlmText, encryptTo of    *)
(* lib/olm-protocol-store) and the decrypt effect (dm-channel-area,        *)
(* decryptFrom).                                                           *)
(*                                                                         *)
(* Both load the session from IndexedDB, advance it and save it, with      *)
(* awaits in between; the effect runs again whenever the list of messages  *)
(* changes, without waiting for the run before.  A ratchet is abstracted   *)
(* to the index of the next message to send and the indexes of the peer    *)
(* that have been opened: Olm opens each of them once.  The peer runs the  *)
(* same code, so it may use an index twice, as IndexUnique allows.         *)
(***************************************************************************)
EXTENDS Naturals, Sequences, FiniteSets

CONSTANTS
  Runs,     \* bound: runs of the effect in progress
  MaxMsgs,  \* bound: messages encrypted
  MaxLoads  \* bound: reloads of the page

VARIABLES
  sess,    \* SESSION_STORE: the session with the peer
  msg,     \* dm_messages: whether it is our own, and its index
  list,    \* messages the page has
  shown,   \* decryptedContent: what the page shows for a message
  send,    \* the send in progress: the session it has loaded
  run,     \* the runs of the effect
  loads,
  \* history
  torn,    \* a save replaced a session that was not the loaded one
  opened,  \* messages opened in a run whose results were dropped, or before
           \* a reload
  overlap  \* messages that two runs had in hand together

olmVars == <<sess, msg, list, shown, send, run, loads, torn, opened, overlap>>

New == [out |-> 1, seen |-> {}]
NoSend == [pc |-> "idle", got |-> New]
NoRun == [pc |-> "idle", got |-> New, left |-> {}, next |-> {}, bad |-> {}, stale |-> FALSE]

Init ==
  /\ sess = New
  /\ msg = << >>
  /\ list = {}
  /\ shown = [text |-> {}, failed |-> {}]
  /\ send = NoSend
  /\ run = [r \in Runs |-> NoRun]
  /\ loads = 0
  /\ torn = FALSE
  /\ opened = {}
  /\ overlap = {}

Inbox == {m \in list : msg[m].own = FALSE}

\* saveSession: the last save wins.
Save(got, s) ==
  /\ sess' = s
  /\ torn' = (torn \/ sess # got)

\* The messages changed: the runs in progress are cancelled, and another one
\* starts, in a free slot.
Rerun(runs) ==
  \E free \in {r \in Runs : runs[r].pc = "idle"} :
    run' = [r \in Runs |->
      IF r = free THEN [NoRun EXCEPT !.pc = "starting"]
      ELSE IF runs[r].pc = "idle" THEN NoRun ELSE [runs[r] EXCEPT !.stale = TRUE]]

-----------------------------------------------------------------------------
(* Sending.                                                                *)

SendLoad ==
  /\ send.pc = "idle"
  /\ Len(msg) < MaxMsgs /\ sess.out <= MaxMsgs
  /\ send' = [pc |-> "encrypting", got |-> sess]
  /\ UNCHANGED <<sess, msg, list, shown, run, loads, torn, opened, overlap>>

\* The session is saved and the envelope posted, which may fail; the sender
\* shows its own text from the cache that saveOwnPlaintext keeps.
SendSave(ok) ==
  /\ send.pc = "encrypting"
  /\ Save(send.got, [send.got EXCEPT !.out = @ + 1])
  /\ msg' = IF ok THEN Append(msg, [own |-> TRUE, idx |-> send.got.out]) ELSE msg
  /\ send' = NoSend
  /\ UNCHANGED <<list, shown, run, loads, opened, overlap>>

\* A message reaches the page.
Arrive(m) ==
  /\ m \notin list
  /\ list' = list \cup {m}
  /\ Rerun(run)
  /\ UNCHANGED <<sess, msg, shown, send, loads, torn, opened, overlap>>

-----------------------------------------------------------------------------
(* The decrypt effect.                                                     *)

\* Faulty variant of RunStart: what has been decrypted is decrypted again.
RunStartAll(r) ==
  LET todo == Inbox
  IN  /\ run[r].pc = "starting"
      /\ run' = [run EXCEPT ![r] = [run[r] EXCEPT
           !.pc = "next", !.left = todo, !.next = shown.text]]
      /\ overlap' = overlap \cup
           {m \in todo : \E q \in Runs \ {r} : m \in run[q].left \/
                                               m \in run[q].next \ shown.text}
      /\ UNCHANGED <<sess, msg, list, shown, send, loads, torn, opened>>

\* ensureOlmReady has answered: the run takes what is shown by now, and the
\* messages that are not decrypted, the failed ones included.
RunStart(r) ==
  LET todo == Inbox \ shown.text
  IN  /\ run[r].pc = "starting"
      /\ run' = [run EXCEPT ![r] = [run[r] EXCEPT
           !.pc = "next", !.left = todo, !.next = shown.text]]
      /\ overlap' = overlap \cup
           {m \in todo : \E q \in Runs \ {r} : m \in run[q].left \/
                                               m \in run[q].next \ shown.text}
      /\ UNCHANGED <<sess, msg, list, shown, send, loads, torn, opened>>

\* decryptFrom of the oldest message: the session is loaded ...
RunLoad(r) ==
  /\ run[r].pc = "next"
  /\ run[r].left # {}
  /\ run' = [run EXCEPT ![r] =
       [run[r] EXCEPT !.pc = "opening", !.got = sess]]
  /\ UNCHANGED <<sess, msg, list, shown, send, loads, torn, opened, overlap>>

\* ... and saved with the message opened, or the message fails.
RunSave(r) ==
  LET R == run[r]
      m == CHOOSE m \in R.left : \A n \in R.left : m <= n
      i == msg[m].idx
  IN  /\ R.pc = "opening"
      /\ IF i \in R.got.seen
         THEN /\ run' = [run EXCEPT ![r] =
                   [R EXCEPT !.pc = "next", !.left = @ \ {m}, !.next = @ \ {m}, !.bad = @ \cup {m}]]
              /\ UNCHANGED <<sess, torn>>
         ELSE /\ run' = [run EXCEPT ![r] =
                   [R EXCEPT !.pc = "next", !.left = @ \ {m}, !.next = @ \cup {m}]]
              /\ Save(R.got, [R.got EXCEPT !.seen = @ \cup {i}])
      /\ UNCHANGED <<msg, list, shown, send, loads, opened, overlap>>

\* The end: the results replace what is shown, or, when the run has been
\* cancelled, are dropped.
RunEnd(r) ==
  LET R == run[r]
  IN  /\ R.pc = "next" /\ R.left = {}
      /\ IF R.stale
         THEN /\ opened' = opened \cup (R.next \ shown.text)
              /\ UNCHANGED shown
         ELSE /\ shown' =
                   [text |-> R.next, failed |-> R.bad]
              /\ UNCHANGED opened
      /\ run' = [run EXCEPT ![r] = NoRun]
      /\ UNCHANGED <<sess, msg, list, send, loads, torn, overlap>>

\* The page is reloaded: decryptedContent is gone, the session is not.
Reload ==
  /\ loads < MaxLoads
  /\ loads' = loads + 1
  /\ list' = 1 .. Len(msg)
  /\ opened' = opened \cup shown.text \cup UNION {run[r].next : r \in Runs}
  /\ shown' = [text |-> {}, failed |-> {}]
  /\ send' = NoSend
  /\ Rerun([r \in Runs |-> NoRun])
  /\ UNCHANGED <<sess, msg, torn, overlap>>

\* The peer posts a message, under its next index or one it has used.
PeerPosts(i) ==
  /\ Len(msg) < MaxMsgs
  /\ i <= Cardinality({m \in 1 .. Len(msg) : ~msg[m].own}) + 1
  /\ msg' = Append(msg, [own |-> FALSE, idx |-> i])
  /\ UNCHANGED <<sess, list, shown, send, run, loads, torn, opened, overlap>>

Next ==
  \/ SendLoad
  \/ \E ok \in BOOLEAN : SendSave(ok)
  \/ \E i \in 1 .. MaxMsgs : PeerPosts(i)
  \/ \E m \in 1 .. Len(msg) : Arrive(m)
  \/ \E r \in Runs : RunStart(r) \/ RunLoad(r) \/ RunSave(r) \/ RunEnd(r)
  \/ Reload

Spec == Init /\ [][Next]_olmVars
-----------------------------------------------------------------------------
\* Two messages of this device never carry the same index of its ratchet,
\* unless one of its saves replaced a session it had not loaded.
IndexUnique ==
  \A m, n \in 1 .. Len(msg) :
    msg[m].own /\ msg[n] = msg[m] => m = n \/ torn

\* A message is shown as undecryptable only if it was opened here before and
\* the text was not kept, or two runs had it in hand together, or its sender
\* used the index twice.
FailureExplained ==
  \A m \in shown.failed :
    \/ m \in opened \cup overlap
    \/ \E n \in 1 .. Len(msg) : n # m /\ msg[n] = msg[m]

\* The comment of encryptOlmText: sent messages stay readable from the other
\* devices.
StaysReadable == opened \cap shown.failed = {}

\* Both directions of the session.
RatchetAccounted == IndexUnique /\ FailureExplained
=============================================================================
