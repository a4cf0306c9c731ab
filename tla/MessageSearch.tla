----------------------------- MODULE MessageSearch -----------------------------
(***************************************************************************)
(* The search in a channel that is not encrypted: the FTS5 table and its   *)
(* triggers, GET /api/search, and the dialog (components/modals/           *)
(* search-modal) with its timer and the request it aborts.  The browser    *)
(* may answer from its cache, as the route allows for some seconds.        *)
(* Statements of the database are one step each; the route awaits between  *)
(* the check of the membership, the search and the list of blocked users.  *)
(* A message is its place in the order of created_at.                      *)
(***************************************************************************)
EXTENDS Naturals, FiniteSets

CONSTANTS
  MaxMsgs,    \* bound: messages
  Phrases,      \* what a message says, one word each; a query is a word
  Limit,      \* results that are read at most
  MaxChanges  \* bound: edits, deletions, blocks and removals

Messages == 1..MaxMsgs
None == "none"

VARIABLES
  said,     \* direct_messages: message -> its word, or None: not there, or deleted
  fts,      \* direct_messages_fts: message -> the word it is found by
  blocked,  \* messages of senders in a block with the user
  member,   \* is the user a member of the channel
  changes,
  text,     \* what the input holds, or None
  debounce, \* is its timer armed
  req,      \* the request that abortRef controls
  loading,
  results,  \* what the dialog lists
  cache,    \* word -> an answer that the browser keeps, or NoAnswer
  refused   \* has the last search failed

tableVars == <<said, fts, blocked, member, changes>>
modalVars == <<text, debounce, req, loading, results, cache, refused>>
vars == <<tableVars, modalVars>>

\* An answer: what was found, for which word, and since then: what changed;
\* full when the limit may have left something out.
NoAnswer == [word |-> None, found |-> {}, full |-> FALSE, since |-> {}]
NoRequest == [pc |-> "idle", answer |-> NoAnswer]

Init ==
  /\ said \in [Messages -> Phrases] /\ fts = said
  /\ blocked = {} /\ member = TRUE /\ changes = 0
  /\ text = None /\ debounce = FALSE /\ req = NoRequest /\ loading = FALSE
  /\ results = NoAnswer
  /\ cache = [w \in Phrases |-> NoAnswer] /\ refused = FALSE
-----------------------------------------------------------------------------
(* The tables.                                                             *)

Aged(answer, S) ==
  IF answer.word = None THEN answer ELSE [answer EXCEPT !.since = @ \cup S]

Change(S) ==
  /\ changes < MaxChanges /\ changes' = changes + 1
  /\ req' = [req EXCEPT !.answer = Aged(@, S)]
  /\ results' = Aged(results, S)
  /\ cache' = [w \in Phrases |-> Aged(cache[w], S)]
  /\ UNCHANGED <<text, debounce, loading, refused>>

\* Faulty variant of Rewrite: the trigger leaves the old word.
RewriteContentOnly(m, w) ==
  said' = [said EXCEPT ![m] = w] /\ UNCHANGED fts

\* UPDATE OF content, with its trigger: an edit, or a deletion, which also
\* sets deleted_at.
Rewrite(m, w) ==
  said' = [said EXCEPT ![m] = w] /\ fts' = [fts EXCEPT ![m] = w]

Edit(m) ==
  /\ said[m] # None
  /\ \E w \in (Phrases \cup {None}) \ {said[m]} : Rewrite(m, w)
  /\ Change({m})
  /\ UNCHANGED <<blocked, member>>

Block(m) ==
  /\ blocked' = IF m \in blocked THEN blocked \ {m} ELSE blocked \cup {m}
  /\ Change({m})
  /\ UNCHANGED <<said, fts, member>>

Removal ==
  /\ member /\ member' = FALSE
  /\ Change({})
  /\ UNCHANGED <<said, fts, blocked>>
-----------------------------------------------------------------------------
(* GET /api/search.                                                        *)

Step(pc, answer) == req' = [pc |-> pc, answer |-> answer]
client == <<text, debounce, loading, results, cache, refused>>

Membership ==
  /\ req.pc = "asked"
  /\ Step(IF member THEN "member" ELSE "failed", req.answer)
  /\ UNCHANGED <<tableVars, client>>

\* The search, which stops at the limit.  What changes from here on may or may
\* not be in the answer.
Read ==
  LET hits == {m \in Messages : fts[m] = req.answer.word /\ said[m] # None} IN
  /\ req.pc = "member"
  /\ \E some \in SUBSET hits :
       /\ Cardinality(some) = IF Cardinality(hits) < Limit THEN Cardinality(hits) ELSE Limit
       /\ Step("read", [req.answer EXCEPT !.found = some, !.full = (some # hits),
                                          !.since = {}])
  /\ UNCHANGED <<tableVars, client>>

\* What blocked users have sent is left out afterwards.
Filter ==
  /\ req.pc = "read" /\ Step("answered", [req.answer EXCEPT !.found = @ \ blocked])
  /\ UNCHANGED <<tableVars, client>>

\* A query fails, or the limit of ten searches a minute is reached.
Refused ==
  /\ req.pc \in {"asked", "member", "read"} /\ Step("failed", req.answer)
  /\ UNCHANGED <<tableVars, client>>
-----------------------------------------------------------------------------
(* The dialog.                                                             *)

Type(w) ==
  /\ w # text /\ text' = w /\ debounce' = TRUE
  /\ UNCHANGED <<tableVars, req, loading, results, cache, refused>>

\* search: the request before is aborted, but not for an empty text.
Search ==
  /\ debounce /\ debounce' = FALSE /\ refused' = FALSE
  /\ \/ /\ text = None /\ results' = NoAnswer
        /\ UNCHANGED <<req, loading>>
     \/ /\ text # None /\ loading' = TRUE
        /\ Step("asked", [NoAnswer EXCEPT !.word = text])
        /\ UNCHANGED results
  /\ UNCHANGED <<tableVars, text, cache>>

\* The browser answers instead of the server.
Cached ==
  /\ req.pc = "asked" /\ cache[req.answer.word] # NoAnswer
  /\ Step("answered", cache[req.answer.word])
  /\ UNCHANGED <<tableVars, client>>

Expire(w) ==
  /\ cache[w] # NoAnswer /\ cache' = [cache EXCEPT ![w] = NoAnswer]
  /\ UNCHANGED <<tableVars, text, debounce, req, loading, results, refused>>

Answered ==
  /\ req.pc = "answered"
  /\ results' = req.answer
  /\ cache' = [cache EXCEPT ![req.answer.word] = req.answer]
  /\ req' = NoRequest /\ loading' = FALSE
  /\ UNCHANGED <<tableVars, text, debounce, refused>>

\* What is listed stays.
Failed ==
  /\ req.pc = "failed"
  /\ req' = NoRequest /\ loading' = FALSE /\ refused' = TRUE
  /\ UNCHANGED <<tableVars, text, debounce, results, cache>>

\* What the dialog shows under its input.
Screen ==
  CASE text = None -> "Search this conversation"
    [] text # None /\ results.found # {} -> "results"
    [] text # None /\ results.found = {} -> IF loading THEN "placeholders" ELSE "No results"

Next ==
  \/ \E m \in Messages : Edit(m) \/ Block(m)
  \/ Removal \/ Membership \/ Read \/ Filter \/ Refused
  \/ \E w \in Phrases \cup {None} : Type(w)
  \/ \E w \in Phrases : Expire(w)
  \/ Search \/ Cached \/ Answered \/ Failed

Spec == Init /\ [][Next]_vars
-----------------------------------------------------------------------------
\* Whatever is listed says the word that it was found by and is not of a
\* blocked sender, and nothing that does is missing, unless it has changed
\* since the search read it, or the limit left it out.
ListedTrue ==
  \A m \in Messages \ results.since : results.word # None =>
    /\ m \in results.found => said[m] = results.word /\ m \notin blocked
    /\ m \notin results.found => said[m] # results.word \/ m \in blocked \/ results.full

\* The spinner turns while an answer is awaited, and only then: an aborted
\* request does not stop it for the one after.
SpinnerTrue == loading = (req.pc # "idle")

\* At rest what is shown, and that there is nothing, is about the text, unless
\* the search for it has failed.  (An answer that comes after the text was
\* emptied is kept, and not shown.)
ListedForText ==
  ~debounce /\ ~loading /\ Screen \in {"results", "No results"} => results.word = text \/ refused

SearchAnswers == ListedTrue /\ SpinnerTrue /\ ListedForText
=============================================================================
