--------------------------------- MODULE Pins ---------------------------------
(***************************************************************************)
(* The pinned items of one user: api/users/pinned, and the lists of the    *)
(* settings pages that add and remove them (profile-settings-page).        *)
(***************************************************************************)
EXTENDS Naturals, FiniteSets

CONSTANTS
  Pages,
  Items,    \* rows, in the order in which they are inserted
  MaxPins   \* MAX_PINS

VARIABLES
  row,      \* the table
  made,     \* items that have been inserted
  list,     \* pins of a page
  load,     \* its GET: "ask", "done", or "answer" with what was read
  read,
  add,      \* its POST: "idle", "ask", "counted", or "answer"
  got,      \* the item that was inserted, or the one being removed
  del,      \* its DELETE: "idle", "ask" or "answer"
  \* history
  overlap,  \* posts that counted before another one inserted
  apart     \* pages that have missed something

pinVars == <<row, made, list, load, read, add, got, del, overlap, apart>>

NoItem == "none"
Nothing == [d \in Pages |-> NoItem]

Init ==
  /\ row = {} /\ made = {}
  /\ list = [d \in Pages |-> {}]
  /\ load = [d \in Pages |-> "ask"]
  /\ read = [d \in Pages |-> {}]
  /\ add = [d \in Pages |-> "idle"]
  /\ got = [d \in Pages |-> [add |-> NoItem, del |-> NoItem]]
  /\ del = [d \in Pages |-> "idle"]
  /\ overlap = {} /\ apart = {}

\* Every other page misses what is done now, unless it has yet to read.
Missing(d) == {e \in Pages \ {d} : load[e] # "ask"}
-----------------------------------------------------------------------------
\* The pins are loaded when the page opens; a failure leaves the list empty.
Load(d, ok) ==
  /\ load[d] = "ask"
  /\ load' = [load EXCEPT ![d] = IF ok THEN "answer" ELSE "done"]
  /\ read' = [read EXCEPT ![d] = row]
  /\ apart' = IF ok THEN apart \ {d} ELSE apart \cup {d}
  /\ UNCHANGED <<row, made, list, add, got, del, overlap>>

\* The answer replaces the list, also what was added meanwhile.
Loaded(d) ==
  /\ load[d] = "answer"
  /\ load' = [load EXCEPT ![d] = "done"]
  /\ list' = [list EXCEPT ![d] = read[d]]
  /\ apart' = IF read[d] # row THEN apart \cup {d} ELSE apart
  /\ UNCHANGED <<row, made, read, add, got, del, overlap>>

\* Faulty variant of Count: the limit is the page's own.
CountShown(d) ==
  /\ add[d] = "ask"
  /\ add' = [add EXCEPT ![d] = IF Cardinality(list[d]) < MaxPins THEN "counted" ELSE "idle"]
  /\ UNCHANGED <<row, made, list, load, read, got, del, overlap, apart>>

\* The page offers to add one only below the limit.
CanAdd(d) == Cardinality(list[d]) < MaxPins

\* addPin: one at a time on a page.
Ask(d) ==
  /\ add[d] = "idle"
  /\ CanAdd(d)
  /\ add' = [add EXCEPT ![d] = "ask"]
  /\ UNCHANGED <<row, made, list, load, read, got, del, overlap, apart>>

\* POST counts the rows ...
Count(d) ==
  /\ add[d] = "ask"
  /\ add' = [add EXCEPT ![d] = IF Cardinality(row) < MaxPins THEN "counted" ELSE "idle"]
  /\ UNCHANGED <<row, made, list, load, read, got, del, overlap, apart>>

\* ... and inserts one when the body is in, or fails.
Insert(d, i, ok) ==
  /\ add[d] = "counted"
  /\ i \notin made
  /\ add' = [add EXCEPT ![d] = IF ok THEN "answer" ELSE "idle"]
  /\ row' = IF ok THEN row \cup {i} ELSE row
  /\ made' = IF ok THEN made \cup {i} ELSE made
  /\ got' = IF ok THEN [got EXCEPT ![d].add = i] ELSE got
  /\ overlap' = IF ok THEN overlap \cup {e \in Pages \ {d} : add[e] = "counted"}
                ELSE overlap
  /\ apart' = IF ok THEN apart \cup Missing(d) ELSE apart
  /\ UNCHANGED <<list, load, read, del>>

\* The page appends what it gets, even if it is gone by now, or never hears
\* of it.
Added(d, heard) ==
  /\ add[d] = "answer"
  /\ add' = [add EXCEPT ![d] = "idle"]
  /\ list' = IF heard THEN [list EXCEPT ![d] = @ \cup {got[d].add}] ELSE list
  /\ got' = [got EXCEPT ![d].add = NoItem]
  /\ apart' = IF heard /\ got[d].add \in row THEN apart ELSE apart \cup {d}
  /\ UNCHANGED <<row, made, load, read, del, overlap>>

\* removePin.
Remove(d, i) ==
  /\ del[d] = "idle"
  /\ i \in list[d]
  /\ del' = [del EXCEPT ![d] = "ask"]
  /\ got' = [got EXCEPT ![d].del = i]
  /\ UNCHANGED <<row, made, list, load, read, add, overlap, apart>>

\* DELETE; the row may be gone already.
Delete(d, ok) ==
  /\ del[d] = "ask"
  /\ del' = [del EXCEPT ![d] = IF ok THEN "answer" ELSE "idle"]
  /\ row' = IF ok THEN row \ {got[d].del} ELSE row
  /\ got' = IF ok THEN got ELSE [got EXCEPT ![d].del = NoItem]
  /\ apart' = IF ok /\ got[d].del \in row THEN apart \cup Missing(d) ELSE apart
  /\ UNCHANGED <<made, list, load, read, add, overlap>>

Removed(d, heard) ==
  /\ del[d] = "answer"
  /\ del' = [del EXCEPT ![d] = "idle"]
  /\ list' = IF heard THEN [list EXCEPT ![d] = @ \ {got[d].del}] ELSE list
  /\ got' = [got EXCEPT ![d].del = NoItem]
  /\ apart' = IF heard THEN apart ELSE apart \cup {d}
  /\ UNCHANGED <<row, made, load, read, add, overlap>>

Next ==
  \E d \in Pages :
    \/ Loaded(d) \/ Ask(d) \/ Count(d)
    \/ \E i \in Items : Remove(d, i) \/ \E ok \in BOOLEAN : Insert(d, i, ok)
    \/ \E ok \in BOOLEAN : Load(d, ok) \/ Added(d, ok) \/ Delete(d, ok) \/ Removed(d, ok)

Spec == Init /\ [][Next]_pinVars
-----------------------------------------------------------------------------
\* "You can pin at most MAX_PINS items": each item beyond that is of a
\* request that had counted before another one inserted.
PinsBounded == Cardinality(row) <= MaxPins + Cardinality(overlap)

\* A page at rest lists the table, unless another page has changed it since,
\* or its load or an answer was lost or came too late.
PinsListed ==
  \A d \in Pages :
    load[d] = "done" /\ add[d] = "idle" /\ del[d] = "idle" /\ d \notin apart =>
      list[d] = row

PinsAccounted == PinsBounded /\ PinsListed
=============================================================================
