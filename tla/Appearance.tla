------------------------------ MODULE Appearance ------------------------------
(***************************************************************************)
(* The appearance settings of one user on several devices: the store of    *)
(* each (lib/stores/appearance-store, kept in its local storage), the      *)
(* settings pages that change it and send it to the account                *)
(* (appearance-settings-page, accessibility-settings-page,                 *)
(* use-auto-sync-appearance), and the column that                          *)
(* api/users/appearance and api/users/profile write.  The settings are     *)
(* sent as a whole and are one value here.                                 *)
(***************************************************************************)
EXTENDS Naturals, Sequences

CONSTANTS
  Devices,
  Values,       \* settings
  Default,      \* those of DEFAULTS
  MaxRequests,  \* bound: requests in all
  MaxChanges    \* bound: changes of the settings

None == "none"

VARIABLES
  account,  \* users.appearance_settings, or None
  local,    \* settings of a device
  synced,   \* its syncToAccount
  page,     \* a device's settings page: "closed" or "open", "loading" a reload
  given,    \* what a reload was served with
  timer,    \* the settings the running debounce timer will send, or None
  saving,   \* the flag of the save button
  patch,    \* requests, oldest first
  \* history
  wanted,   \* the settings chosen last on a syncing device
  behind,   \* devices that do not have them
  carriers, \* requests that carry them
  dropped,  \* whether their timer was cleared before it fired
  last,     \* the request stored last
  changes

appearVars == <<account, local, synced, page, given, timer, saving, patch,
                wanted, behind, carriers, dropped, last, changes>>

Init ==
  /\ account = None
  /\ local = [d \in Devices |-> Default]
  /\ synced = [d \in Devices |-> FALSE]
  /\ page = [d \in Devices |-> "closed"]
  /\ given = [d \in Devices |-> None]
  /\ timer = [d \in Devices |-> None]
  /\ saving = [d \in Devices |-> FALSE]
  /\ patch = <<>>
  /\ wanted = None /\ behind = {} /\ carriers = {} /\ dropped = FALSE
  /\ last = 0 /\ changes = 0

-----------------------------------------------------------------------------
\* Faulty variant of Rearm: the effect does not depend on the settings.
RearmOnce(d, v, on) ==
  timer' = [timer EXCEPT ![d] = IF ~on THEN None ELSE IF @ = None THEN v ELSE @]

\* The effect of useAutoSyncAppearance: whenever the settings or the switch
\* change, and when a page is opened, the timer starts again.
Rearm(d, v, on) ==
  timer' = [timer EXCEPT ![d] = IF on THEN v ELSE None]

\* The user has chosen v on a syncing device.
Chosen(d, v) ==
  /\ wanted' = v
  /\ behind' = {e \in Devices : e # d}
  /\ carriers' = {}
  /\ dropped' = FALSE

OpenPage(d) ==
  /\ page[d] = "closed"
  /\ page' = [page EXCEPT ![d] = "open"]
  /\ Rearm(d, local[d], synced[d])
  /\ UNCHANGED <<account, local, synced, given, saving, patch, wanted, behind,
                 carriers, dropped, last, changes>>

\* The effect is cleaned up: what it had not sent stays on the device.
ClosePage(d) ==
  /\ page[d] = "open"
  /\ page' = [page EXCEPT ![d] = "closed"]
  /\ timer' = [timer EXCEPT ![d] = None]
  /\ saving' = [saving EXCEPT ![d] = FALSE]
  /\ dropped' = (dropped \/ (timer[d] # None /\ d \notin behind))
  /\ UNCHANGED <<account, local, synced, given, patch, wanted, behind, carriers,
                 last, changes>>

\* One of the setters.
Change(d, v) ==
  /\ page[d] = "open"
  /\ v # local[d]
  /\ changes < MaxChanges
  /\ local' = [local EXCEPT ![d] = v]
  /\ Rearm(d, v, synced[d])
  /\ IF synced[d] THEN Chosen(d, v)
     ELSE /\ behind' = behind \cup {d}
          /\ UNCHANGED <<wanted, carriers, dropped>>
  /\ changes' = changes + 1
  /\ UNCHANGED <<account, synced, page, given, saving, patch, last>>

\* The switch.  Turning it on sends what the device has.
SetSync(d) ==
  /\ page[d] = "open"
  /\ changes < MaxChanges
  /\ synced' = [synced EXCEPT ![d] = ~@]
  /\ Rearm(d, local[d], ~synced[d])
  /\ IF synced[d]
     THEN /\ dropped' = (dropped \/ (timer[d] # None /\ d \notin behind))
          /\ UNCHANGED <<wanted, behind, carriers>>
     ELSE Chosen(d, local[d])
  /\ changes' = changes + 1
  /\ UNCHANGED <<account, local, page, given, saving, patch, last>>

\* "Reset": the defaults also turn the synchronisation off, so they are not
\* sent.
ResetDefaults(d) ==
  /\ page[d] = "open"
  /\ changes < MaxChanges
  /\ local' = [local EXCEPT ![d] = Default]
  /\ synced' = [synced EXCEPT ![d] = FALSE]
  /\ timer' = [timer EXCEPT ![d] = None]
  /\ dropped' = (dropped \/ (timer[d] # None /\ d \notin behind))
  /\ behind' = behind \cup {d}
  /\ changes' = changes + 1
  /\ UNCHANGED <<account, page, given, saving, patch, wanted, carriers, last>>

Send(d, v) ==
  /\ Len(patch) < MaxRequests
  /\ patch' = Append(patch, [dev |-> d, val |-> v, old |-> d \in behind, st |-> "sent"])
  /\ carriers' = IF d \in behind THEN carriers ELSE carriers \cup {Len(patch) + 1}

\* 1.5 s without a change.
Fire(d) ==
  /\ timer[d] # None
  /\ Send(d, timer[d])
  /\ timer' = [timer EXCEPT ![d] = None]
  /\ UNCHANGED <<account, local, synced, page, given, saving, wanted, behind,
                 dropped, last, changes>>

\* "Save Changes"; without synchronisation it only says so.
Save(d) ==
  /\ page[d] = "open"
  /\ synced[d]
  /\ ~saving[d]
  /\ Send(d, local[d])
  /\ saving' = [saving EXCEPT ![d] = TRUE]
  /\ UNCHANGED <<account, local, synced, page, given, timer, wanted, behind,
                 dropped, last, changes>>

\* The route writes the column, or fails; nobody looks at the answer of the
\* automatic request.
Store(n, ok) ==
  /\ patch[n].st = "sent"
  /\ patch' = [patch EXCEPT ![n].st = IF ok THEN "stored" ELSE "failed"]
  /\ account' = IF ok THEN patch[n].val ELSE account
  /\ last' = IF ok THEN n ELSE last
  /\ saving' = [saving EXCEPT ![patch[n].dev] = FALSE]
  /\ UNCHANGED <<local, synced, page, given, timer, wanted, behind, carriers,
                 dropped, changes>>

\* The app is loaded anew, with the user's row as it is now.
Reload(d) ==
  /\ page[d] = "closed"
  /\ page' = [page EXCEPT ![d] = "loading"]
  /\ given' = [given EXCEPT ![d] = account]
  /\ UNCHANGED <<account, local, synced, timer, saving, patch, wanted, behind,
                 carriers, dropped, last, changes>>

\* Once per load, a syncing device takes over what the row had.
Hydrate(d) ==
  LET takes == synced[d] /\ given[d] # None
  IN  /\ page[d] = "loading"
      /\ page' = [page EXCEPT ![d] = "closed"]
      /\ given' = [given EXCEPT ![d] = None]
      /\ local' = IF takes THEN [local EXCEPT ![d] = given[d]] ELSE local
      /\ behind' = CASE ~takes -> behind
                     [] takes /\ given[d] = wanted -> behind \ {d}
                     [] takes /\ given[d] # wanted -> behind \cup {d}
      /\ UNCHANGED <<account, synced, timer, saving, patch, wanted, carriers,
                     dropped, last, changes>>

Next ==
  \/ \E d \in Devices :
       \/ OpenPage(d) \/ ClosePage(d) \/ SetSync(d) \/ ResetDefaults(d)
       \/ Fire(d) \/ Save(d) \/ Reload(d) \/ Hydrate(d)
       \/ \E v \in Values : Change(d, v)
  \/ \E n \in DOMAIN patch, ok \in BOOLEAN : Store(n, ok)

Spec == Init /\ [][Next]_appearVars
-----------------------------------------------------------------------------
Settled ==
  /\ \A n \in DOMAIN patch : patch[n].st # "sent"
  /\ \A d \in Devices : timer[d] = None

StoredCarriers == {n \in carriers : patch[n].st = "stored"}

\* "Settings are synced to your account": when nothing is left to send, the
\* account has the settings chosen last.  The exceptions: the page was left,
\* or the switch turned off, before the timer fired; every request with them
\* failed; an older one came after it; or a device that did not have them
\* sent its own, as it does when its settings page is opened.
AccountFollows ==
  Settled /\ wanted # None =>
    \/ account = wanted
    \/ carriers = {} /\ dropped
    \/ carriers # {} /\ StoredCarriers = {}
    \/ StoredCarriers # {} /\ last \notin carriers
         /\ (patch[last].old \/ \E n \in StoredCarriers : last < n)

\* A device that has the settings chosen last shows them.
DeviceFollows ==
  \A d \in Devices : wanted # None /\ d \notin behind => local[d] = wanted

AppearanceKept == AccountFollows /\ DeviceFollows
=============================================================================
