---------------------------- MODULE StatusChoice ----------------------------
(***************************************************************************)
(* The status that a user chooses: the popover of the user panel, the page *)
(* "You" and the profile form write it, each in its own way, and the sweep *)
(* of the cron runner takes it for a sign of life (user-popover.tsx,       *)
(* you/page.tsx, profile-settings-page.tsx, api/presence,                  *)
(* api/users/profile, api/cron/presence-cleanup).  Nothing but a choice in *)
(* the popover refreshes the heartbeat.                                    *)
(***************************************************************************)
EXTENDS Naturals, FiniteSets

CONSTANTS
  Views,       \* pages of the user, each with a store of its own
  Statuses,    \* the statuses that occur, a subset of Options
  Sweeps,      \* runs of the cleanup, which may overlap
  MaxChoices   \* bound on the requests

VARIABLES
  row,         \* users.status
  beat,        \* last_heartbeat_at: "stale" or "fresh"
  store,       \* the status of currentUser on a page
  form,        \* the status in the profile form of a page, "none" without one
  reqs,        \* the requests in flight
  sweep,       \* what a run of the cleanup has selected: "none", "picked",
               \* or "beaten" when a heartbeat has come since
  \* history
  n,           \* requests so far
  last,        \* the page and the status of the last choice
  clean        \* nothing has got in its way

choiceVars == <<row, beat, store, form, reqs, sweep, n, last, clean>>

None == "none"

\* STATUS_OPTIONS.
Options == {"online", "idle", "dnd", "invisible"}

\* The popover's label: an unknown status reads like the first option.
Shown(v) == IF store[v] \in Options THEN store[v] ELSE "online"

\* The button that is pressed on the page "You".
Pressed(v, s) == store[v] = s

Init ==
  /\ row \in Statuses \cup {"offline"} /\ beat \in {"stale", "fresh"}
  /\ store = [v \in Views |-> row] /\ form = [v \in Views |-> None]
  /\ reqs = {} /\ sweep = [w \in Sweeps |-> None]
  /\ n = 0 /\ last = [view |-> None, status |-> None] /\ clean = FALSE
-----------------------------------------------------------------------------
Request(v, how, s) ==
  [id |-> n, view |-> v, how |-> how, status |-> s, at |-> "sent", heard |-> TRUE]

\* The page "You" drops the answers to its earlier requests, not the requests.
Deaf(r, v) == [r EXCEPT !.heard = @ /\ ~(r.view = v /\ r.how = "you")]

Send(v, how, s) ==
  /\ n < MaxChoices /\ n' = n + 1
  /\ reqs' = {IF how = "you" THEN Deaf(r, v) ELSE r : r \in reqs} \cup {Request(v, how, s)}
  /\ UNCHANGED <<row, beat, store, form, sweep>>

\* handleSetStatus of the popover and of the page: the new status is the
\* user's last word; it is on its own if no other request is in flight.
Choose(v, how, s) ==
  /\ s \in Options
  /\ Send(v, how, s)
  /\ last' = [view |-> v, status |-> s]
  /\ clean' = (reqs = {})

\* The profile form is rendered with the row as it is then, ...
OpenForm(v) ==
  /\ form[v] = None
  /\ form' = [form EXCEPT ![v] = row]
  /\ UNCHANGED <<row, beat, store, reqs, sweep, n, last, clean>>

PickInForm(v, s) ==
  /\ form[v] \notin {None, s}
  /\ form' = [form EXCEPT ![v] = s]
  /\ UNCHANGED <<row, beat, store, reqs, sweep, n, last, clean>>

CloseForm(v) ==
  /\ form[v] # None
  /\ form' = [form EXCEPT ![v] = None]
  /\ UNCHANGED <<row, beat, store, reqs, sweep, n, last, clean>>

\* ... and its Save sends that status with everything else.
SaveForm(v) ==
  /\ form[v] # None
  /\ \A r \in reqs : r.view = v => r.how # "form"
  /\ Send(v, "form", form[v])
  /\ last' = [view |-> v, status |-> form[v]]
  /\ clean' = (reqs = {})
-----------------------------------------------------------------------------
Waiting(r) == r.at = "sent"
Turned(r, at) == (reqs \ {r}) \cup {[r EXCEPT !.at = at]}

\* POST /api/presence: the status and the heartbeat.
PostPresence(r) ==
  /\ Waiting(r) /\ r.how = "popover"
  /\ row' = r.status /\ beat' = "fresh"
  /\ sweep' = [w \in Sweeps |-> IF sweep[w] = "picked" THEN "beaten" ELSE sweep[w]]
  /\ reqs' = Turned(r, "written")
  /\ UNCHANGED <<store, form, n, last, clean>>

\* PATCH /api/users/profile: the status alone.
PatchProfile(r) ==
  /\ Waiting(r) /\ r.how \in {"you", "form"}
  /\ row' = r.status
  /\ reqs' = Turned(r, "written")
  /\ UNCHANGED <<beat, store, form, sweep, n, last, clean>>

\* Too many requests, an error of the database, no network.
Refuse(r) ==
  /\ Waiting(r)
  /\ reqs' = reqs \ {r}
  /\ clean' = (clean /\ r.id # n - 1)
  /\ UNCHANGED <<row, beat, store, form, sweep, n, last>>

\* The answer: the status asked for, or the row as it was written.
Answered(r) ==
  /\ r.at = "written"
  /\ reqs' = reqs \ {r}
  /\ store' = IF r.heard THEN [store EXCEPT ![r.view] = r.status] ELSE store
  /\ UNCHANGED <<row, beat, form, sweep, n, last, clean>>

\* AppProvider, when the page is rendered anew with the row.
Render(v) ==
  /\ store[v] # row
  /\ store' = [store EXCEPT ![v] = row]
  /\ UNCHANGED <<row, beat, form, reqs, sweep, n, last, clean>>
-----------------------------------------------------------------------------
\* PRESENCE_STALE_THRESHOLD_MS after the last heartbeat.
GoStale ==
  /\ beat = "fresh"
  /\ beat' = "stale"
  /\ UNCHANGED <<row, store, form, reqs, sweep, n, last, clean>>

\* The cleanup selects the users to mark, ...
SweepSelect(w) ==
  /\ sweep[w] = None
  /\ row \in {"online", "idle", "dnd"} /\ beat = "stale"
  /\ sweep' = [sweep EXCEPT ![w] = "picked"]
  /\ UNCHANGED <<row, beat, store, form, reqs, n, last, clean>>

\* Faulty variant of SweepUpdate: the heartbeat is not looked at again.
SweepUpdateBlind(w) ==
  /\ sweep[w] # None
  /\ row' = "offline"
  /\ sweep' = [sweep EXCEPT ![w] = None]
  /\ clean' = (clean /\ sweep[w] = "beaten")
  /\ UNCHANGED <<beat, store, form, reqs, n, last>>

\* ... and marks those whose heartbeat is still older than its threshold,
\* whatever their status has become.
SweepUpdate(w) ==
  /\ sweep[w] # None
  /\ row' = IF sweep[w] = "picked" THEN "offline" ELSE row
  /\ sweep' = [sweep EXCEPT ![w] = None]
  /\ clean' = (clean /\ sweep[w] = "beaten")
  /\ UNCHANGED <<beat, store, form, reqs, n, last>>

\* The update of its batch fails, or the run is cut off.
SweepFails(w) ==
  /\ sweep[w] # None
  /\ sweep' = [sweep EXCEPT ![w] = None]
  /\ UNCHANGED <<row, beat, store, form, reqs, n, last, clean>>

Next ==
  \/ \E v \in Views, how \in {"popover", "you"}, s \in Statuses : Choose(v, how, s)
  \/ \E v \in Views, s \in Statuses : PickInForm(v, s)
  \/ \E v \in Views : OpenForm(v) \/ CloseForm(v) \/ SaveForm(v) \/ Render(v)
  \/ \E r \in reqs : PostPresence(r) \/ PatchProfile(r) \/ Refuse(r) \/ Answered(r)
  \/ GoStale
  \/ \E w \in Sweeps : SweepSelect(w) \/ SweepUpdate(w) \/ SweepFails(w)

Spec == Init /\ [][Next]_choiceVars
-----------------------------------------------------------------------------
\* What the user has chosen last is what the row says and what the page of the
\* choice shows, once it is answered: unless another request was in flight
\* then, it was refused, or a cleanup has marked a user whose heartbeat no
\* choice had refreshed since it selected him.
StatusKept ==
  clean /\ reqs = {} =>
    /\ row = last.status
    /\ row \in Options => /\ Shown(last.view) = row
                          /\ \A s \in Options : Pressed(last.view, s) <=> s = row
=============================================================================
