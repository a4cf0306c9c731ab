-------------------------------- MODULE Avatar --------------------------------
(***************************************************************************)
(* One user's profile as several settings pages save it                    *)
(* (profile-settings-page, api/users/avatar, api/users/profile): the       *)
(* picture is a file named after its type, the row has its address, and a  *)
(* save writes both, one request after the other.                          *)
(***************************************************************************)
EXTENDS FiniteSets, Naturals

CONSTANTS
  Pages,
  Types,     \* of pictures: the file of a type has one name
  MaxSaves   \* bound: saves in all

NoPicture == "none"

VARIABLES
  files,   \* the picture files on disk
  url,     \* users.avatar_url, as the file it names
  known,   \* user.avatar_url as a page has it
  picked,  \* the picture picked on a page
  pc,      \* a page's save: "idle", "write", "prune", "address", "profile", "answer"
  sends,   \* the address its second request carries
  saves,
  \* history
  why      \* what has happened that can leave the address without a file

avatarVars == <<files, url, known, picked, pc, sends, saves, why>>

Init ==
  /\ url \in Types \cup {NoPicture}
  /\ files = {url} \ {NoPicture}
  /\ known = [d \in Pages |-> url]
  /\ picked = [d \in Pages |-> NoPicture]
  /\ pc = [d \in Pages |-> "idle"]
  /\ sends = [d \in Pages |-> NoPicture]
  /\ saves = 0
  /\ why = {}

Uploading(d) == pc[d] \in {"write", "prune", "address"}
Step(d, from, to) == pc[d] = from /\ pc' = [pc EXCEPT ![d] = to]
-----------------------------------------------------------------------------
\* handleAvatarChange.  A save does not take the picture back: the next one
\* uploads it again.
Pick(d, t) ==
  /\ pc[d] = "idle"
  /\ picked' = [picked EXCEPT ![d] = t]
  /\ UNCHANGED <<files, url, known, pc, sends, saves, why>>

\* handleSave: the picture first, if there is one, and then the profile.
Save(d) ==
  /\ saves < MaxSaves
  /\ Step(d, "idle", IF picked[d] = NoPicture THEN "profile" ELSE "write")
  /\ sends' = [sends EXCEPT ![d] = known[d]]
  /\ saves' = saves + 1
  /\ why' = why \cup IF picked[d] # NoPicture /\ \E e \in Pages : Uploading(e)
                     THEN {"overlap"} ELSE {}
  /\ UNCHANGED <<files, url, known, picked>>

\* Faulty variant of Write: the files of the other types are removed first.
WriteLast(d, ok) ==
  /\ Step(d, "write", IF ok THEN "prune" ELSE "idle")
  /\ files' = IF ok THEN {picked[d]} ELSE files \cap {picked[d]}
  /\ UNCHANGED <<url, known, picked, sends, saves, why>>

\* The file is replaced by a rename, so there is always a whole one; or the
\* upload is refused, and the save ends.
Write(d, ok) ==
  /\ Step(d, "write", IF ok THEN "prune" ELSE "idle")
  /\ files' = IF ok THEN files \cup {picked[d]} ELSE files
  /\ UNCHANGED <<url, known, picked, sends, saves, why>>

\* removeAvatarVariants: the files of the other types go, or some stay and
\* the request fails.
Prune(d, gone, ok) ==
  /\ gone \subseteq files \ {picked[d]}
  /\ ok => gone = files \ {picked[d]}
  /\ Step(d, "prune", IF ok THEN "address" ELSE "idle")
  /\ files' = files \ gone
  /\ why' = why \cup IF ok THEN {} ELSE {"unset"}
  /\ UNCHANGED <<url, known, picked, sends, saves>>

\* The row gets the new address; if that fails the old one stays, without
\* its file.
Address(d, ok) ==
  /\ Step(d, "address", IF ok THEN "profile" ELSE "idle")
  /\ url' = IF ok THEN picked[d] ELSE url
  /\ sends' = IF ok THEN [sends EXCEPT ![d] = picked[d]] ELSE sends
  /\ why' = why \cup IF ok THEN {} ELSE {"unset"}
  /\ UNCHANGED <<files, known, picked, saves>>

\* PATCH writes the whole profile, the address included: the one the page
\* has, if it has not uploaded.
Profile(d, ok) ==
  /\ Step(d, "profile", IF ok THEN "answer" ELSE "idle")
  /\ url' = IF ok THEN sends[d] ELSE url
  /\ why' = why \cup IF ok /\ sends[d] # url THEN {"stale"} ELSE {}
  /\ UNCHANGED <<files, known, picked, sends, saves>>

\* setCurrentUser and router.refresh: the page has the row.
Refresh(d) ==
  /\ Step(d, "answer", "idle")
  /\ known' = [known EXCEPT ![d] = url]
  /\ UNCHANGED <<files, url, picked, sends, saves, why>>

\* The page is left and opened again.
Reopen(d) ==
  /\ pc[d] = "idle"
  /\ known' = [known EXCEPT ![d] = url]
  /\ picked' = [picked EXCEPT ![d] = NoPicture]
  /\ UNCHANGED <<files, url, pc, sends, saves, why>>

Next ==
  \E d \in Pages :
    \/ Save(d) \/ Refresh(d) \/ Reopen(d)
    \/ \E t \in Types : Pick(d, t)
    \/ \E ok \in BOOLEAN :
         \/ Write(d, ok) \/ Address(d, ok) \/ Profile(d, ok)
         \/ \E gone \in SUBSET Types : Prune(d, gone, ok)

Spec == Init /\ [][Next]_avatarVars
-----------------------------------------------------------------------------
\* Outside the moment between pruning and the new address, the address has
\* a file ("if pruning happened first and the write then failed, the user
\* would be left with no avatar file at all").  The exceptions: two uploads
\* at once, which prune each other's file; an upload that failed after it
\* had begun to prune; and a page that saved the address it was opened with.
AvatarServed ==
  (\A d \in Pages : pc[d] \notin {"prune", "address"}) =>
    url \in files \cup {NoPicture} \/ why # {}
=============================================================================
