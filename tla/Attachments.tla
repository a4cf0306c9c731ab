---------------------------- MODULE Attachments ----------------------------
(***************************************************************************)
(* From the composer to the purge: the message input                       *)
(* (components/chat/message-input.tsx), handleDmSend (dm-channel-area),    *)
(* the attachments API (upload, attach, clean up, download), the storage   *)
(* below it, and the decay job (app/api/cron/attachment-decay,             *)
(* packages/shared attachment-decay).                                      *)
(*                                                                         *)
(* Each file takes three requests: upload, post the message, attach.  Any  *)
(* of them may fail, or succeed without the page learning of it; the user  *)
(* keeps typing, cancels, or closes the page.                              *)
(***************************************************************************)
EXTENDS Naturals, FiniteSets, Sequences

CONSTANTS
  Texts, Files,  \* what the user enters, each once
  MaxUploads,    \* bound: files uploaded
  MaxPosts       \* bound: messages posted

VARIABLES
  box,      \* the composer: its text and the files picked
  job,      \* the send in progress
  file,     \* uploads: storage, dm_attachments row, requests under way
  post,     \* messages posted: for which item, and whether they are deleted
  batch,    \* uploads the decay job has selected
  \* history
  entered,  \* items the user has entered
  dropped,  \* items cleared by the user, or that were in the composer when a
            \* send that had begun before restored or cleared it
  again,    \* items whose send failed after they might have been posted
  orphan,   \* uploads whose page could not or did not clean up after itself
  kept      \* uploads the decay job could not remove

attVars == <<box, job, file, post, batch, entered, dropped, again, orphan, kept>>

Items == Texts \cup Files
None == "none"
Empty == [text |-> None, files |-> {}]
NoJob == [pc |-> "idle", kind |-> None, text |-> None, files |-> {}, left |-> {},
          file |-> None, key |-> 0, post |-> 0, cancel |-> FALSE]
InBox(b) == b.files \cup (IF b.text = None THEN {} ELSE {b.text})
InJob(j) == j.files \cup (IF j.text = None THEN {} ELSE {j.text})
Uploaded == [disk |-> TRUE, row |-> "none", age |-> "far", late |-> 0, del |-> "none"]

Init ==
  /\ box = Empty /\ job = NoJob
  /\ file = << >> /\ post = << >>
  /\ batch = {}
  /\ entered = {} /\ dropped = {} /\ again = {} /\ orphan = {} /\ kept = {}

Keys == 1 .. Len(file)

-----------------------------------------------------------------------------
(* The composer.                                                           *)

Enter(x) ==
  /\ x \notin entered
  /\ entered' = entered \cup {x}
  /\ \/ x \in Texts /\ box.text = None /\ box' = [box EXCEPT !.text = x]
     \/ x \in Files /\ box' = [box EXCEPT !.files = @ \cup {x}]
  /\ UNCHANGED <<job, file, post, batch, dropped, again, orphan, kept>>

\* Escape clears the text.
ClearDraft ==
  /\ box.text # None
  /\ box' = [box EXCEPT !.text = None]
  /\ dropped' = dropped \cup {box.text}
  /\ UNCHANGED <<job, file, post, batch, entered, again, orphan, kept>>

\* handleSend: the composer is emptied at once.  A text-insertion command
\* takes the text alone out of it, and hands the files over without a way to
\* cancel; a GIF or sticker is sent past the composer.
HandleSend(kind) ==
  /\ job = NoJob
  /\ kind = "gif" \/ box # Empty
  /\ kind = "command" => box.text # None
  /\ job' = [NoJob EXCEPT !.pc = "next", !.kind = kind,
       !.text  = IF kind = "gif" THEN None ELSE box.text,
       !.files = IF kind = "gif" THEN {} ELSE box.files,
       !.left  = IF kind = "gif" THEN {} ELSE box.files]
  /\ box' = CASE kind = "send" -> Empty
              [] kind = "command" -> [box EXCEPT !.text = None]
              [] kind = "gif" -> box
  /\ UNCHANGED <<file, post, batch, entered, dropped, again, orphan, kept>>

CancelUpload ==
  /\ job.pc # "idle" /\ job.kind = "send"
  /\ job' = [job EXCEPT !.cancel = TRUE]
  /\ UNCHANGED <<box, file, post, batch, entered, dropped, again, orphan, kept>>

\* Faulty variant of Restored: what failed to be sent is not put back.
RestoredNothing(b) == b

\* The composer after a failure: what was to be sent, in place of what has
\* been entered since; after a command, the text alone.
Restored(b) ==
  CASE job.kind = "send" -> [text |-> job.text, files |-> job.files]
    [] job.kind = "command" -> [b EXCEPT !.text = job.text]
    [] job.kind = "gif" -> b

Posted(x) == \E n \in 1 .. Len(post) : post[n].item = x

\* The send fails: sure says that its items that have been posted are all.
Fail(unsure) ==
  /\ job' = NoJob
  /\ box' = Restored(box)
  /\ dropped' = dropped \cup (InBox(box) \ (InBox(Restored(box)) \cup InJob(job)))
  /\ again' = again \cup unsure \cup {x \in InJob(job) : Posted(x)}

\* The send is through.  A command clears the files that are picked by now.
Done ==
  /\ job' = NoJob
  /\ box' = IF job.kind = "command" THEN [box EXCEPT !.files = {}] ELSE box
  /\ dropped' = IF job.kind = "command" THEN dropped \cup (box.files \ job.files)
                                        ELSE dropped

\* The page is closed or left.
ClosePage ==
  /\ box # Empty \/ job # NoJob
  /\ box' = Empty /\ job' = NoJob
  /\ dropped' = dropped \cup InBox(box) \cup InJob(job)
  /\ orphan' = IF job.key = 0 THEN orphan ELSE orphan \cup {job.key}
  /\ UNCHANGED <<file, post, batch, entered, again, kept>>

-----------------------------------------------------------------------------
(* handleDmSend.                                                           *)

\* POST attachments; "lost" is an upload whose answer does not arrive.
Upload(f, out) ==
  /\ job.pc = "next" /\ f \in job.left
  /\ Len(file) < MaxUploads
  /\ IF job.cancel \/ out = "error" THEN Fail({}) /\ UNCHANGED <<file, orphan>>
     ELSE /\ file' = Append(file, Uploaded)
          /\ IF out = "lost"
             THEN Fail({}) /\ orphan' = orphan \cup {Len(file')}
             ELSE /\ job' = [job EXCEPT !.pc = "uploaded", !.file = f, !.key = Len(file')]
                  /\ UNCHANGED <<box, dropped, again, orphan>>
  /\ UNCHANGED <<post, batch, entered, kept>>

\* Cancelled in the meantime: nothing cleans up the upload.
DropUpload ==
  /\ job.pc = "uploaded" /\ job.cancel
  /\ Fail({})
  /\ orphan' = orphan \cup {job.key}
  /\ UNCHANGED <<file, post, batch, entered, kept>>

\* cleanupUploadedFile: a DELETE that nobody waits for.
CleanUp(F, k) == [F EXCEPT ![k].del = IF @ = "none" THEN "asked" ELSE @]

Message(x) == [item |-> x, deleted |-> FALSE]

\* The message of the file is posted.
PostFile(out) ==
  /\ job.pc = "uploaded" /\ ~job.cancel
  /\ Len(post) < MaxPosts
  /\ post' = IF out = "error" THEN post ELSE Append(post, Message(job.file))
  /\ IF out = "ok"
     THEN /\ job' = [job EXCEPT !.pc = "attaching", !.post = Len(post')]
          /\ UNCHANGED <<box, file, dropped, again>>
     ELSE /\ file' = CleanUp(file, job.key)
          /\ Fail(IF out = "lost" THEN {job.file} ELSE {})
  /\ UNCHANGED <<batch, entered, orphan, kept>>

\* Faulty variant of Attach: a failure is not cleaned up after.
AttachLeaving(out, deleted) ==
  LET k == job.key
  IN  /\ job.pc = "attaching"
      /\ IF out = "ok"
         THEN /\ file' = [file EXCEPT ![k].row = "live"]
              /\ job' = [job EXCEPT !.pc = "next", !.left = @ \ {job.file}, !.key = 0]
              /\ UNCHANGED <<box, dropped, again, post>>
         ELSE /\ file' = file
              /\ post' = post
              /\ Fail({job.file})
      /\ UNCHANGED <<batch, entered, orphan, kept>>

\* PATCH attachments.  Refused: the file is cleaned up and the message
\* deleted, if that request works; lost or late: it is cleaned up, and the
\* row is there or comes after that.
Attach(out, deleted) ==
  LET k == job.key
      row == [file EXCEPT ![k].row = "live"]
  IN  /\ job.pc = "attaching"
      /\ CASE out = "ok" ->
                /\ file' = row
                /\ job' = [job EXCEPT !.pc = "next", !.left = @ \ {job.file}, !.key = 0]
                /\ UNCHANGED <<box, dropped, again, post>>
           [] out = "refused" ->
                /\ file' = CleanUp(file, k)
                /\ post' = [post EXCEPT ![job.post].deleted = deleted]
                /\ Fail({job.file})
           [] out = "lost" ->
                /\ file' = CleanUp(row, k)
                /\ post' = post
                /\ Fail({job.file})
           [] out = "late" ->
                /\ file' = CleanUp([file EXCEPT ![k].late = 1], k)
                /\ post' = post
                /\ Fail({job.file})
      /\ UNCHANGED <<batch, entered, orphan, kept>>

\* No file is left: the text, or the GIF, is posted, and the send is through.
PostText(out) ==
  LET x == IF job.kind = "gif" THEN "gif" ELSE job.text
  IN  /\ job.pc = "next" /\ job.left = {}
      /\ IF x = None THEN Done /\ UNCHANGED <<post, again>>
         ELSE /\ Len(post) < MaxPosts
              /\ \/ ~job.cancel /\ out = "ok"
                    /\ post' = Append(post, Message(x)) /\ Done /\ UNCHANGED again
                 \/ ~job.cancel /\ out = "lost"
                    /\ post' = Append(post, Message(x)) /\ Fail({x})
                 \/ (job.cancel \/ out = "error")
                    /\ post' = post /\ Fail({})
      /\ UNCHANGED <<file, batch, entered, orphan, kept>>

-----------------------------------------------------------------------------
(* The server.                                                             *)

\* A PATCH the page has given up on: the message is there, the file is not
\* looked at.
LateAttach(k) ==
  /\ file[k].late = 1
  /\ file' = [file EXCEPT ![k].late = 2, ![k].row = "live"]
  /\ UNCHANGED <<box, job, post, batch, entered, dropped, again, orphan, kept>>

\* DELETE attachments: refused once there is a row ...
CheckDelete(k) ==
  /\ file[k].del = "asked"
  /\ file' = [file EXCEPT ![k].del = IF file[k].row = "none" THEN "cleared" ELSE "done"]
  /\ UNCHANGED <<box, job, post, batch, entered, dropped, again, orphan, kept>>

\* ... and then the file is removed, which is awaited; or the request never
\* got there.
RemoveFile(k, ok) ==
  /\ file[k].del = "cleared"
  /\ file' = [file EXCEPT ![k].del = "done", ![k].disk = @ /\ ~ok]
  /\ orphan' = IF ok THEN orphan ELSE orphan \cup {k}
  /\ UNCHANGED <<box, job, post, batch, entered, dropped, again, kept>>

\* Time passes: the row nears its expiry, and is past it.
Age(k) ==
  /\ file[k].row = "live" /\ file[k].age # "over"
  /\ file' = [file EXCEPT ![k].age = IF @ = "far" THEN "near" ELSE "over"]
  /\ UNCHANGED <<box, job, post, batch, entered, dropped, again, orphan, kept>>

\* maybeRenewExpiry: close to the deadline, and not past it.
Renewed(age) == IF age = "near" THEN "far" ELSE age

\* GET download of a row that is not purged.
Download(k) ==
  /\ file[k].row = "live"
  /\ file' = [file EXCEPT ![k].age = Renewed(@)]
  /\ UNCHANGED <<box, job, post, batch, entered, dropped, again, orphan, kept>>

\* The decay job selects the rows that are past their expiry ...
SelectExpired ==
  /\ batch = {}
  /\ batch' = {k \in Keys : file[k].row = "live" /\ file[k].age = "over"}
  /\ batch' # {}
  /\ UNCHANGED <<box, job, file, post, entered, dropped, again, orphan, kept>>

\* ... removes each file, if it can ...
PurgeFile(k, ok) ==
  /\ k \in batch /\ file[k].disk
  /\ k \notin kept
  /\ file' = [file EXCEPT ![k].disk = ~ok]
  /\ kept' = IF ok THEN kept ELSE kept \cup {k}
  /\ UNCHANGED <<box, job, post, batch, entered, dropped, again, orphan>>

\* ... and marks its row all the same, if it can.
PurgeRow(k, ok) ==
  /\ k \in batch /\ (~file[k].disk \/ k \in kept)
  /\ batch' = batch \ {k}
  /\ file' = IF ok THEN [file EXCEPT ![k].row = "purged"] ELSE file
  /\ UNCHANGED <<box, job, post, entered, dropped, again, orphan, kept>>

Outcomes == {"ok", "error", "lost"}

Next ==
  \/ \E x \in Items : Enter(x)
  \/ ClearDraft
  \/ \E kind \in {"send", "command", "gif"} : HandleSend(kind)
  \/ CancelUpload
  \/ ClosePage
  \/ \E f \in Files, out \in Outcomes : Upload(f, out)
  \/ DropUpload
  \/ \E out \in Outcomes : PostFile(out) \/ PostText(out)
  \/ \E out \in {"ok", "refused", "lost", "late"}, d \in BOOLEAN : Attach(out, d)
  \/ \E k \in Keys :
       \/ LateAttach(k) \/ CheckDelete(k) \/ Age(k) \/ Download(k)
       \/ \E ok \in BOOLEAN : RemoveFile(k, ok) \/ PurgeFile(k, ok) \/ PurgeRow(k, ok)
  \/ SelectExpired

Spec == Init /\ [][Next]_attVars
-----------------------------------------------------------------------------
\* Whatever fails, what the user entered is in the composer, on its way or
\* posted, unless it was cleared, or was in the composer when an older send
\* restored or cleared it.
NothingTypedLost ==
  \A x \in entered :
    x \in InBox(box) \cup InJob(job) \cup dropped \/ Posted(x)

\* An item is posted twice only after a send of it failed when it had been,
\* or might have been, posted.
PostedOnce ==
  \A m, n \in 1 .. Len(post) :
    m # n /\ post[m].item = post[n].item /\ post[m].item # "gif" =>
      post[m].item \in again

\* An attachment within its lifetime can be downloaded, unless its row was
\* written by a request that the page had given up on.
RowsServable ==
  \A k \in Keys :
    file[k].row = "live" /\ file[k].age # "over" => file[k].disk \/ file[k].late = 2

\* A file on disk belongs to a row that is not purged, to a send in progress
\* or to a clean-up, unless the page left it behind or it could not be removed.
FilesAccounted ==
  \A k \in Keys :
    file[k].disk =>
      \/ file[k].row = "live"
      \/ k = job.key
      \/ file[k].del \in {"asked", "cleared"}
      \/ k \in orphan \cup kept

\* Bound: what happens to files that age while a send is in progress is not
\* explored further.
Explored == (\E k \in Keys : file[k].age # "far") => job = NoJob

\* What the user entered, from the composer to the messages.
SendsAccounted == NothingTypedLost /\ PostedOnce

\* What is on disk against the rows, in both directions.
StorageAgrees == RowsServable /\ FilesAccounted
=============================================================================
