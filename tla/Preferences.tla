------------------------------ MODULE Preferences ------------------------------
(***************************************************************************)
(* The notification preferences of one user: the row that                  *)
(* api/user/notification-preferences keeps, and the settings pages of      *)
(* several tabs (notifications-settings-page).  A page loads the row once, *)
(* changes its own copy at every click and sends the whole copy, also the  *)
(* settings that were not touched.  The switches are disabled while a save *)
(* is on its way; time, time zone and volume are not.                      *)
(***************************************************************************)
EXTENDS Naturals, Sequences

CONSTANTS
  Pages,
  Switches,  \* settings that are disabled while saving, and muted by "Mute all"
  Pickers,   \* the others
  MaxSaves   \* bound: requests in all

Keys == Switches \cup Pickers
Defaults == [k \in Keys |-> FALSE]

VARIABLES
  row,      \* the stored preferences; a missing row reads as the defaults
  pc,       \* page: "closed", "loading" or "open"
  shown,    \* settings of a page
  saving,   \* its flag
  put,      \* requests, oldest first
  \* history
  touched,  \* changed on a page and not sent
  wanted,   \* what the user chose last
  clicked,  \* the request that carries this choice
  behind,   \* what a page does not know: changed elsewhere, or never loaded
  last      \* the request stored last

prefVars == <<row, pc, shown, saving, put, touched, wanted, clicked, behind, last>>

Init ==
  /\ row = Defaults
  /\ pc = [d \in Pages |-> "closed"]
  /\ shown = [d \in Pages |-> Defaults]
  /\ saving = [d \in Pages |-> FALSE]
  /\ put = <<>>
  /\ touched = [d \in Pages |-> {}]
  /\ wanted = Defaults
  /\ clicked = [k \in Keys |-> 0]
  /\ behind = [d \in Pages |-> {}]
  /\ last = 0

Saves == DOMAIN put
Unanswered(d) == {n \in Saves : put[n].page = d /\ put[n].st = "sent"}
-----------------------------------------------------------------------------
\* The page is opened, and left: requests go on without it.
Open(d) ==
  /\ pc[d] = "closed"
  /\ Unanswered(d) = {}
  /\ pc' = [pc EXCEPT ![d] = "loading"]
  /\ saving' = [saving EXCEPT ![d] = FALSE]
  /\ UNCHANGED <<row, shown, put, touched, wanted, clicked, behind, last>>

\* The answer of the load.  A refusal, and a failure, leave the defaults on
\* the page, which looks as if they had been loaded.
Loaded(d, ok) ==
  /\ pc[d] = "loading"
  /\ pc' = [pc EXCEPT ![d] = "open"]
  /\ shown' = [shown EXCEPT ![d] = IF ok THEN row ELSE Defaults]
  /\ behind' = [behind EXCEPT ![d] = {k \in Keys : shown'[d][k] # wanted[k]}]
  /\ UNCHANGED <<row, saving, put, touched, wanted, clicked, last>>

Close(d) ==
  /\ pc[d] = "open"
  /\ pc' = [pc EXCEPT ![d] = "closed"]
  /\ shown' = [shown EXCEPT ![d] = Defaults]
  /\ touched' = [touched EXCEPT ![d] = {}]
  /\ behind' = [behind EXCEPT ![d] = {}]
  /\ UNCHANGED <<row, saving, put, wanted, clicked, last>>

\* Faulty variant of Persist: the request carries the settings before the
\* click.
PersistShown(d, next, keys) ==
  /\ Len(put) < MaxSaves
  /\ put' = Append(put, [page |-> d, vals |-> shown[d], old |-> behind[d] \ keys,
                         st |-> "sent"])
  /\ saving' = [saving EXCEPT ![d] = TRUE]
  /\ touched' = [touched EXCEPT ![d] = {}]
  /\ wanted' = [k \in Keys |-> IF k \in keys THEN next[k] ELSE wanted[k]]
  /\ clicked' = [k \in Keys |-> IF k \in keys THEN Len(put) + 1 ELSE clicked[k]]
  /\ behind' = [e \in Pages |-> IF e = d THEN behind[d] \ keys ELSE behind[e] \cup keys]

\* All the settings of the page are sent, on account of the choices in keys.
Persist(d, next, keys) ==
  /\ Len(put) < MaxSaves
  /\ put' = Append(put, [page |-> d, vals |-> next, old |-> behind[d] \ keys,
                         st |-> "sent"])
  /\ saving' = [saving EXCEPT ![d] = TRUE]
  /\ touched' = [touched EXCEPT ![d] = {}]
  /\ wanted' = [k \in Keys |-> IF k \in keys THEN next[k] ELSE wanted[k]]
  /\ clicked' = [k \in Keys |-> IF k \in keys THEN Len(put) + 1 ELSE clicked[k]]
  /\ behind' = [e \in Pages |-> IF e = d THEN behind[d] \ keys ELSE behind[e] \cup keys]

\* One setting changes on the page, and everything is sent.
Choose(d, k) ==
  LET next == [shown[d] EXCEPT ![k] = ~@]
  IN  /\ shown' = [shown EXCEPT ![d] = next]
      /\ Persist(d, next, touched[d] \cup {k})
      /\ UNCHANGED <<row, pc, last>>

Toggle(d, k) ==
  /\ pc[d] = "open"
  /\ ~saving[d]
  /\ Choose(d, k)

\* The pickers of time and zone, and the slider when a pointer releases it.
PickValue(d, k) ==
  /\ pc[d] = "open"
  /\ Choose(d, k)

\* "Mute all".
MuteAll(d) ==
  LET next == [k \in Keys |-> IF k \in Switches THEN FALSE ELSE shown[d][k]]
  IN  /\ pc[d] = "open"
      /\ ~saving[d]
      /\ shown' = [shown EXCEPT ![d] = next]
      /\ Persist(d, next, touched[d] \cup Switches)
      /\ UNCHANGED <<row, pc, last>>

\* The slider moves; only its release by a pointer, or the button, saves it.
Slide(d, k) ==
  /\ pc[d] = "open"
  /\ k \in Pickers \ touched[d]
  /\ shown' = [shown EXCEPT ![d][k] = ~@]
  /\ touched' = [touched EXCEPT ![d] = @ \cup {k}]
  /\ UNCHANGED <<row, pc, saving, put, wanted, clicked, behind, last>>

SaveButton(d) ==
  /\ pc[d] = "open"
  /\ ~saving[d]
  /\ Persist(d, shown[d], touched[d])
  /\ UNCHANGED <<row, pc, shown, last>>

\* PUT validates and writes every column it was sent, or fails.  Any answer
\* enables the switches; after a failure the page keeps what was not stored.
Store(n, ok) ==
  /\ put[n].st = "sent"
  /\ put' = [put EXCEPT ![n].st = IF ok THEN "stored" ELSE "failed"]
  /\ row' = IF ok THEN put[n].vals ELSE row
  /\ last' = IF ok THEN n ELSE last
  /\ saving' = [saving EXCEPT ![put[n].page] = FALSE]
  /\ UNCHANGED <<pc, shown, touched, wanted, clicked, behind>>

Next ==
  \/ \E d \in Pages :
       \/ Open(d) \/ Close(d) \/ MuteAll(d) \/ SaveButton(d)
       \/ \E ok \in BOOLEAN : Loaded(d, ok)
       \/ \E k \in Switches : Toggle(d, k)
       \/ \E k \in Pickers : PickValue(d, k) \/ Slide(d, k)
  \/ \E n \in Saves, ok \in BOOLEAN : Store(n, ok)

Spec == Init /\ [][Next]_prefVars
-----------------------------------------------------------------------------
\* The choice of k was not stored, or an older request came after it, or the
\* request stored last is of a page that had not seen it.
Excused(k) ==
  \/ clicked[k] > 0 /\ (put[clicked[k]].st = "failed" \/ last < clicked[k])
  \/ last > 0 /\ k \in put[last].old

Settled == \A n \in Saves : put[n].st # "sent"

\* When everything is answered, what is stored is what the user chose last.
ChoicesKept ==
  Settled => \A k \in Keys : row[k] = wanted[k] \/ Excused(k)

\* A page shows what is stored, when nothing is on its way, but for what it
\* has not been told of, not yet sent, or failed to store.
PageHonest ==
  Settled =>
    \A d \in Pages, k \in Keys :
      pc[d] = "open" /\ k \notin behind[d] \cup touched[d] =>
        shown[d][k] = row[k] \/ Excused(k)

\* The row against the choices, and the pages against the row.
PreferencesKept == ChoicesKept /\ PageHonest
=============================================================================
