---------------------------- MODULE Notifications ----------------------------
(***************************************************************************)
(* The notifications of one user as one tab shows them: the API            *)
(* (app/api/notifications), the inbox (components/notifications/           *)
(* notification-bell, or app/channels/notifications/page), and the counter *)
(* behind the badges (use-notification-count-sync, app-store,              *)
(* use-tab-unread-title).                                                  *)
(*                                                                         *)
(* The routes publish the events after they have answered, each with a     *)
(* request of its own: they reach the tab in any order, and may come       *)
(* twice (EventReplay has what gets lost).  Inbox and counter listen on    *)
(* their own.  There are fewer notifications than an inbox loads.          *)
(***************************************************************************)
EXTENDS Naturals, FiniteSets

CONSTANTS
  Ids,  \* notifications
  Ops   \* bound: requests of the tab in progress

VARIABLES
  row,      \* the notifications table
  wire,     \* events on their way to the tab
  surface,  \* the inbox that is mounted: "bell", "page" or "none"
  list,     \* what the inbox lists
  count,    \* its own unread count
  store,    \* notificationUnreadCount
  load,     \* the inbox's initial requests
  sync,     \* the counter's initial request
  op,       \* requests of the inbox
  \* history
  why       \* what has happened that can leave a count or the list wrong

notifVars == <<row, wire, surface, list, count, store, load, sync, op, why>>

Absent == [i \in Ids |-> "absent"]
UnreadIn(l) == {i \in Ids : l[i] = "unread"}
Table == [i \in Ids |-> IF row[i] \in {"unread", "read"} THEN row[i] ELSE "absent"]
Minus(n, m) == IF n > m THEN n - m ELSE 0
Loaded == [pc |-> "done", got |-> Absent, n |-> 0]
NoOp == [pc |-> "idle", kind |-> "none", ids |-> {}, was |-> Absent, n |-> 0]

Init ==
  /\ row \in [Ids -> {"none", "unread"}]
  /\ wire = {}
  /\ surface \in {"bell", "page", "none"}
  /\ list = Absent /\ count = 0 /\ store = 0
  /\ load = [Loaded EXCEPT !.pc = IF surface = "none" THEN "done" ELSE "list"]
  /\ sync = [pc |-> "ask", n |-> 0]
  /\ op = [o \in Ops |-> NoOp]
  /\ why = {}

Note(S) == why' = why \cup S
If(p, x) == IF p THEN {x} ELSE {}

-----------------------------------------------------------------------------
(* The server.                                                             *)

Events(kind, S) == {[kind |-> kind, id |-> i, read |-> row[i] = "read"] : i \in S}

\* PATCH and DELETE: each row that changes is published.
Marked(S) == {i \in S : row[i] = "unread"}
Deleted(S) == {i \in S : row[i] \in {"unread", "read"}}
Apply(kind, S) ==
  IF kind = "read"
  THEN /\ row' = [i \in Ids |-> IF i \in Marked(S) THEN "read" ELSE row[i]]
       /\ wire' = wire \cup Events("updated", Marked(S))
  ELSE /\ row' = [i \in Ids |-> IF i \in Deleted(S) THEN "gone" ELSE row[i]]
       /\ wire' = wire \cup Events("deleted", Deleted(S))

\* The friends routes, the membership log and the login check insert one.
Create(i) ==
  /\ row[i] = "none"
  /\ row' = [row EXCEPT ![i] = "unread"]
  /\ wire' = wire \cup {[kind |-> "created", id |-> i, read |-> FALSE]}
  /\ UNCHANGED <<surface, list, count, store, load, sync, op, why>>

\* The user reads or dismisses notifications on another device; the page
\* does not listen to that.
Elsewhere(kind, S) ==
  /\ Apply(kind, S)
  /\ row' # row
  /\ Note(If(surface = "page", "elsewhere"))
  /\ UNCHANGED <<surface, list, count, store, load, sync, op>>

-----------------------------------------------------------------------------
(* The initial requests.                                                   *)

\* The bell's list replaces what it has and is counted; the page's is merged
\* in, and the count asked for next.
LoadServe ==
  /\ load.pc \in {"list", "count"}
  /\ load' = IF load.pc = "list"
             THEN [load EXCEPT !.pc = "listed", !.got = Table]
             ELSE [load EXCEPT !.pc = "counted", !.n = Cardinality(UnreadIn(Table))]
  /\ Note(If(load.pc = "count" /\ wire # {}, "overtaken"))
  /\ UNCHANGED <<row, wire, surface, list, count, store, sync, op>>

LoadApply ==
  /\ \/ /\ load.pc = "listed" /\ surface = "bell"
        /\ list' = load.got
        /\ count' = Cardinality(UnreadIn(load.got))
        /\ store' = count'
        /\ load' = Loaded
     \/ /\ load.pc = "listed" /\ surface = "page"
        /\ list' = [i \in Ids |-> IF load.got[i] = "absent" THEN list[i] ELSE load.got[i]]
        /\ load' = [Loaded EXCEPT !.pc = "count"]
        /\ UNCHANGED <<count, store>>
     \/ /\ load.pc = "counted"
        /\ count' = load.n /\ store' = load.n
        /\ load' = Loaded
        /\ UNCHANGED list
  /\ UNCHANGED <<row, wire, surface, sync, op, why>>

\* A request fails: the bell shows nothing, the page what it has.
LoadFails ==
  /\ load.pc \in {"list", "count"}
  /\ IF surface = "bell" THEN list' = Absent /\ count' = 0 /\ store' = 0
                         ELSE UNCHANGED <<list, count, store>>
  /\ load' = [load EXCEPT !.pc = IF surface = "page" /\ load.pc = "list" THEN "count" ELSE "done"]
  /\ Note({"failed"})
  /\ UNCHANGED <<row, wire, surface, sync, op>>

\* The counter asks for the number once.
SyncServe(ok) ==
  /\ sync.pc = "ask"
  /\ sync' = IF ok THEN [pc |-> "asked", n |-> Cardinality(UnreadIn(Table))]
                   ELSE [pc |-> "done", n |-> 0]
  /\ Note(If(~ok, "failed") \cup If(wire # {}, "raced"))
  /\ UNCHANGED <<row, wire, surface, list, count, store, load, op>>

\* seededRef: an event that has come first keeps the answer out.
SyncApply ==
  /\ sync.pc \in {"asked", "seeded"}
  /\ store' = IF sync.pc = "asked" THEN sync.n ELSE store
  /\ sync' = [pc |-> "done", n |-> 0]
  /\ UNCHANGED <<row, wire, surface, list, count, load, op, why>>

-----------------------------------------------------------------------------
(* Events.                                                                 *)

\* The bell: a created one is not taken twice; an update recounts; a
\* deletion is counted whether or not it is listed.
BellList(e) ==
  CASE e.kind = "created" -> IF list[e.id] = "absent" THEN [list EXCEPT ![e.id] = "unread"] ELSE list
    [] e.kind = "updated" -> IF list[e.id] = "absent" THEN list ELSE [list EXCEPT ![e.id] = "read"]
    [] e.kind = "deleted" -> [list EXCEPT ![e.id] = "absent"]

\* Faulty variant of BellCount: an update leaves the count alone.
BellCountStale(e) ==
  CASE e.kind = "created" -> IF list[e.id] = "absent" THEN count + 1 ELSE count
    [] e.kind = "updated" -> count
    [] e.kind = "deleted" -> IF e.read THEN count ELSE Minus(count, 1)

BellCount(e) ==
  CASE e.kind = "created" -> IF list[e.id] = "absent" THEN count + 1 ELSE count
    [] e.kind = "updated" -> Cardinality(UnreadIn(BellList(e)))
    [] e.kind = "deleted" -> IF e.read THEN count ELSE Minus(count, 1)

\* The counter: whether or not it is new, or was counted by the inbox.
Synced(e) ==
  CASE e.kind = "created" -> store + 1
    [] e.kind = "updated" -> Minus(store, 1)
    [] e.kind = "deleted" -> IF e.read THEN store ELSE Minus(store, 1)

\* Something older about the same notification is still to come.
Early(e) ==
  \E f \in wire : /\ f.id = e.id /\ f.kind # e.kind
                  /\ f.kind = "created" \/ e.kind = "deleted"
\* The tab receives an event; the bell's effect then puts its own count into
\* the store, unless it has dropped the event as a duplicate.
Receive(e, twice) ==
  /\ twice => "twice" \notin why
  /\ wire' = IF twice THEN wire ELSE wire \ {e}
  /\ CASE surface = "bell" /\ ~(e.kind = "created" /\ list[e.id] # "absent") ->
            list' = BellList(e) /\ count' = BellCount(e) /\ store' = BellCount(e)
       [] surface = "page" /\ e.kind = "created" ->
            /\ list' = [list EXCEPT ![e.id] = "unread"]
            /\ count' = count + 1
            /\ store' = Synced(e)
       [] OTHER -> store' = Synced(e) /\ UNCHANGED <<list, count>>
  /\ sync' = IF e.kind = "created" /\ sync.pc = "asked" THEN [sync EXCEPT !.pc = "seeded"] ELSE sync
  /\ Note(If(twice, "twice") \cup If(Early(e), "reordered")
          \cup If(load.pc \notin {"done", "list"}
                     \/ (surface = "page" /\ e.kind = "created" /\ row[e.id] # "unread"), "overtaken")
          \cup If(sync.pc # "done", "raced")
          \cup If(surface = "bell" /\ e.kind = "created" /\ list[e.id] # "absent", "known")
          \cup If(e.kind = "deleted" /\ ~e.read /\ list[e.id] # "unread", "uncounted"))
  /\ UNCHANGED <<row, surface, load, op>>

-----------------------------------------------------------------------------
(* Requests of the inbox.                                                  *)

Kinds == {"read", "readAll", "delete", "clear"}
\* "Mark all read" sends no id, which means every row.
AsksFor(kind) == IF kind \in {"read", "readAll"} THEN "read" ELSE "delete"

\* The bell takes what is dismissed off its list at once; the page has no
\* button to clear it.
Click(o, kind, S) ==
  LET optimistic == surface = "bell" /\ kind \in {"delete", "clear"}
      taken == [i \in Ids |-> IF i \in S THEN list[i] ELSE "absent"]
      left == [i \in Ids |-> IF i \in S THEN "absent" ELSE list[i]]
      listed == {i \in Ids : list[i] # "absent"}
  IN  /\ surface # "none" /\ op[o] = NoOp
      /\ CASE kind = "read" -> S \subseteq UnreadIn(list) /\ Cardinality(S) = 1
           [] kind = "readAll" -> S = Ids /\ count > 0
           [] kind = "delete" -> S \subseteq listed /\ Cardinality(S) = 1
           [] kind = "clear" -> S = listed /\ S # {} /\ surface = "bell"
      /\ op' = [op EXCEPT ![o] = [pc |-> "sent", kind |-> kind, ids |-> S, was |-> taken,
                                  n |-> IF kind = "clear" THEN count ELSE 0]]
      /\ IF optimistic
         THEN /\ list' = left
              /\ count' = IF kind = "clear" THEN 0 ELSE Minus(count, Cardinality(S \cap UnreadIn(list)))
              /\ store' = count'
         ELSE UNCHANGED <<list, count, store>>
      /\ Note(If(optimistic /\ S \cap UnreadIn(list) # {}, "dismissed")
              \cup If(surface = "page", "acted"))
      /\ UNCHANGED <<row, wire, surface, load, sync>>

\* The server handles the request, or it fails, or its answer gets lost.
Serve(o, out) ==
  /\ op[o].pc = "sent"
  /\ op' = [op EXCEPT ![o].pc = out]
  /\ IF out = "error" THEN UNCHANGED <<row, wire>>
     ELSE Apply(AsksFor(op[o].kind), op[o].ids)
  /\ UNCHANGED <<surface, list, count, store, load, sync, why>>

ReadNow(S) == [i \in Ids |-> IF i \in S /\ list[i] = "unread" THEN "read" ELSE list[i]]

\* The answer is in: the page changes its list and both counts only now.
Succeeded(o) ==
  LET r == op[o]
      \* The bell looks at the list again, the page at the one it showed.
      n == Cardinality(r.ids \cap UnreadIn(IF surface = "bell" THEN list ELSE r.was))
  IN  /\ r.pc = "ok"
      /\ CASE AsksFor(r.kind) = "delete" /\ surface = "bell" -> UNCHANGED <<list, count, store>>
           [] r.kind = "delete" /\ surface = "page" ->
                /\ list' = [i \in Ids |-> IF i \in r.ids THEN "absent" ELSE list[i]]
                /\ count' = Minus(count, n)
                /\ store' = Minus(store, n)
           [] r.kind = "readAll" ->
                list' = ReadNow(Ids) /\ count' = 0 /\ store' = 0
           [] r.kind = "read" ->
                /\ list' = ReadNow(r.ids)
                /\ count' = Minus(count, n)
                /\ store' = IF surface = "bell" THEN count' ELSE Minus(store, n)
      /\ op' = [op EXCEPT ![o] = NoOp]
      /\ Note(If(r.kind = "readAll" /\ UnreadIn(list) \cap UnreadIn(Table) # {}, "overtaken"))
      /\ UNCHANGED <<row, wire, surface, load, sync>>

\* A failed dismissal is put back: one notification into the list, or the
\* list and the count as they were.
Failed(o) ==
  LET r == op[o]
      \* What came or went in the meantime, and is overwritten.
      over == {i \in Ids : list[i] # "absent" /\ (i \in r.ids \/ r.kind = "clear")}
                \cup {i \in r.ids : Table[i] # r.was[i]}
      back == AsksFor(r.kind) = "delete" /\ surface = "bell"
  IN  /\ r.pc \in {"error", "lost"}
      /\ CASE back /\ r.kind = "delete" ->
                /\ list' = [i \in Ids |-> IF i \in r.ids THEN r.was[i] ELSE list[i]]
                /\ count' = count + Cardinality(r.ids \cap UnreadIn(r.was))
                /\ store' = count'
           [] back /\ r.kind = "clear" ->
                list' = r.was /\ count' = r.n /\ store' = r.n
           [] OTHER -> UNCHANGED <<list, count, store>>
      /\ op' = [op EXCEPT ![o] = NoOp]
      /\ Note(If(back /\ over # {}, "restored") \cup If(surface = "page" /\ r.pc = "lost", "elsewhere"))
      /\ UNCHANGED <<row, wire, surface, load, sync>>

Next ==
  \/ \E i \in Ids : Create(i) \/ \E k \in {"read", "delete"} : Elsewhere(k, {i})
  \/ \E S \in SUBSET Ids, k \in Kinds, o \in Ops : Click(o, k, S)
  \/ \E e \in wire, twice \in BOOLEAN : Receive(e, twice)
  \/ LoadServe \/ LoadApply \/ LoadFails
  \/ \E ok \in BOOLEAN : SyncServe(ok)
  \/ SyncApply
  \/ \E o \in Ops :
       Succeeded(o) \/ Failed(o) \/ \E out \in {"ok", "error", "lost"} : Serve(o, out)

Spec == Init /\ [][Next]_notifVars
-----------------------------------------------------------------------------
Quiet ==
  /\ wire = {} /\ load.pc = "done" /\ sync.pc = "done"
  /\ \A o \in Ops : op[o] = NoOp

\* When everything has arrived the inbox lists what the table has, unless an
\* event came after a later one, or before the answer to an older request
\* was in, a failed dismissal was put back over it, the list could not be
\* loaded, or the page could not hear of it; the page also takes an event
\* twice.
ListAgrees ==
  Quiet /\ surface # "none"
    /\ why \cap {"reordered", "overtaken", "restored", "failed", "elsewhere"} = {}
    /\ ~(surface = "page" /\ "twice" \in why) =>
      list = Table

Disturbed == {"reordered", "overtaken", "restored", "failed", "raced", "twice", "known"}
BadgeOff == Disturbed \cup {"dismissed", "uncounted", "acted"}

\* Bounds: at most two events are on their way together, at most two things have
\* happened that can leave a count or the list wrong, and what follows is
\* not explored once neither property says anything of it.
Explored ==
  /\ Cardinality(wire) <= 2 /\ Cardinality(why) <= 2
  /\ why \cap {"reordered", "overtaken", "restored", "failed"} = {}
  /\ surface = "none" \/ "elsewhere" \in why => why \cap BadgeOff = {}

\* The badge then shows the number of unread rows, unless, beyond that, the
\* counter took an event it had been told of already, or an unread
\* notification was dismissed, which the inbox and its event both count down,
\* or the page acted, which the counter counts as well.
BadgeAgrees ==
  Quiet /\ why \cap BadgeOff = {} =>
    store = Cardinality(UnreadIn(Table))

\* "This ensures the mobile bottom tab bar badge shows the correct count":
\* at least when every event comes once, in order, and overtakes nothing.
BadgeCorrect ==
  Quiet /\ why \cap Disturbed = {} => store = Cardinality(UnreadIn(Table))

\* The list and the badge against the table.
InboxAgrees == ListAgrees /\ BadgeAgrees
=============================================================================
