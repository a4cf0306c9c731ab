------------------------------ MODULE MCDmPage ------------------------------
(* The one-time keys, the sessions, the attachments, the list of messages   *)
(* and the two searches of an open conversation share no state here: a      *)
(* behaviour of this module is one of one of them, and they use the         *)
(* variables of this module in turn, each under its own names.              *)
EXTENDS Naturals, TLC

CONSTANTS
  Tabs, Batch, Watermark, MaxStored, MaxKeys, MaxIdents,  \* OlmKeys
  MaxWraps,                                               \* OlmKeys
  Runs, MaxMsgs, MaxLoads,                                \* OlmSessions
  Texts, Files, MaxUploads, MaxPosts,                     \* Attachments
  Msgs, PageSize, MaxTrips,                               \* DmTimeline, LocalSearch
  MaxDocs, Letters, Said, Queries, Cap, MaxFound,         \* LocalSearch
  MaxVisits, MaxDeletes,                                  \* LocalSearch
  Phrases, MaxChanges                                     \* MessageSearch

VARIABLES
  part,  \* the part that runs
  x1, x2, x3, x4, x5, x6, x7, x8, x9, x10, x11, x12, x13, x14, x15, x16, x17,
  x18

\* The slots that a part leaves unused.
after17 == <<x18>>
after15 == <<x16, x17, after17>>
after12 == <<x13, x14, x15, after15>>
after10 == <<x11, x12, after12>>
Unused17 == x18 = "unused"
Unused15 == x16 = "unused" /\ x17 = "unused" /\ Unused17
Unused12 == x13 = "unused" /\ x14 = "unused" /\ x15 = "unused" /\ Unused15
Unused10 == x11 = "unused" /\ x12 = "unused" /\ Unused12

vars == <<part, x1, x2, x3, x4, x5, x6, x7, x8, x9, x10, x11, x12, x13, x14, x15, x16,
         x17, x18>>

K == INSTANCE OlmKeys WITH acct <- x1, dev <- x2, tab <- x3, served <- x4,
     stock <- x5, wire <- x6, mint <- x7, idents <- x8, handed <- x9,
     clash <- x10, lost <- x11, wrap <- x12, wraps <- x13, seal <- x14, held <- x15
S == INSTANCE OlmSessions WITH sess <- x1, msg <- x2, list <- x3, shown <- x4,
     send <- x5, run <- x6, loads <- x7, torn <- x8, opened <- x9,
     overlap <- x10
A == INSTANCE Attachments WITH box <- x1, job <- x2, file <- x3, post <- x4,
     batch <- x5, entered <- x6, dropped <- x7, again <- x8, orphan <- x9,
     kept <- x10
T == INSTANCE DmTimeline WITH stored <- x1, by <- x2, deleted <- x3,
     reacts <- x4, outbox <- x5, inRoom <- x6, inbox <- x7, missed <- x8,
     cursor <- x9, view <- x10, hasMore <- x11, fetch <- x12, sent <- x13,
     toggle <- x14, trips <- x15, lost <- x16, spliced <- x17, skewed <- x18
L == INSTANCE LocalSearch WITH MaxMsgs <- MaxDocs, Limit <- MaxFound,
     Texts <- Said, state <- x1, text <- x2, visit <- x3, list <- x4,
     readable <- x5, tracked <- x6, index <- x7, fetch <- x8, deleting <- x9,
     query <- x10, debounce <- x11, results <- x12, evicted <- x13,
     taken <- x14, removed <- x15, back <- x16, aged <- x17
F == INSTANCE MessageSearch WITH Limit <- MaxFound, said <- x1, fts <- x2,
     blocked <- x3, member <- x4, changes <- x5, text <- x6, debounce <- x7,
     req <- x8, loading <- x9, results <- x10, cache <- x11, refused <- x12

Init ==
  \/ part = "keys" /\ K!Init /\ Unused15
  \/ part = "sessions" /\ S!Init /\ Unused10
  \/ part = "attachments" /\ A!Init /\ Unused10
  \/ part = "timeline" /\ T!Init
  \/ part = "index" /\ L!Init /\ Unused17
  \/ part = "search" /\ F!Init /\ Unused12

Next ==
  /\ UNCHANGED part
  /\ \/ part = "keys" /\ K!Next /\ UNCHANGED after15
     \/ part = "sessions" /\ S!Next /\ UNCHANGED after10
     \/ part = "attachments" /\ A!Next /\ UNCHANGED after10
     \/ part = "timeline" /\ T!Next
     \/ part = "index" /\ L!Next /\ UNCHANGED after17
     \/ part = "search" /\ F!Next /\ UNCHANGED after12

Spec == Init /\ [][Next]_vars

\* The names of tabs, files and messages do not matter.
Symmetry == Permutations(Tabs) \cup Permutations(Files) \cup Permutations(Msgs)

\* What is explored of the attachments.
Explored == part = "attachments" => A!Explored
-----------------------------------------------------------------------------
\* The properties of the parts, under their names there.
KeysAccounted == part = "keys" => K!KeysAccounted
RatchetAccounted == part = "sessions" => S!RatchetAccounted
SendsAccounted == part = "attachments" => A!SendsAccounted /\ A!StorageAgrees
ListExplained == part = "timeline" => T!ListExplained /\ T!ReactionsExplained
\* A search answers from what there is, on the page or in the table.
SearchTrue == /\ part = "index" => L!LocalTrue
              /\ part = "search" => F!SearchAnswers
=============================================================================
