------------------------------ MODULE LocalSearch ------------------------------
(***************************************************************************)
(* The search in an encrypted channel: the index that lives in the memory  *)
(* of the page (lib/local-search-index.ts), what the page feeds it with,   *)
(* and the dialog that asks it.  A message is its place in the order of    *)
(* created_at.  A word is a number, and begins the words that are greater: *)
(* what words mean beyond that does not matter here.  One channel is       *)
(* indexed at a time, so that the cap over all channels is not reached;    *)
(* lazy indexing and clearAll have no caller.                              *)
(***************************************************************************)
EXTENDS Naturals, FiniteSets, FiniteSetsExt

CONSTANTS
  MaxMsgs,   \* bound: messages
  Letters,   \* words
  Texts,     \* what a message may say, as the set of its words
  Queries,   \* what may be searched for; without a word everything matches
  Cap,       \* MAX_DOCS_PER_CHANNEL
  Limit,     \* results that a search returns at most
  PageSize,  \* messages that a request returns at most
  MaxVisits, \* bound: how often the channel is opened
  MaxDeletes \* bound: messages deleted

Messages == 1..MaxMsgs
Words == 1..Letters
None == {0}

VARIABLES
  state,    \* direct_messages: message -> "none" | "live" | "deleted"
  text,     \* message -> its words
  visit,    \* how often the channel has been opened
  list,     \* the messages of the page
  readable, \* the messages that decryptedContent has the text of
  tracked,  \* indexedIdsRef
  index,    \* docs, and post: word -> its postings
  fetch,    \* the messages in an answer on its way, or None
  deleting, \* <<message, visit>>: the answers of DELETE on their way
  query,    \* what the dialog's input holds
  debounce, \* is its timer armed
  results,
  \* Why the index may lack a message, or have one too many, or the results
  \* be older than the index:
  evicted,  \* the cap
  taken,    \* messages removed by the answer to an earlier page
  removed,  \* messages that an answer of DELETE has removed on this page
  back,     \* those of them that an answer read before has brought back
  aged      \* has the index changed since the last search

tableVars == <<state, text>>
pageVars == <<visit, list, readable, tracked, index, evicted, taken, removed, back>>
modalVars == <<query, debounce, results>>
vars == <<tableVars, pageVars, fetch, deleting, modalVars, aged>>

NoIndex == [docs |-> {}, post |-> [w \in Words |-> {}]]

Init ==
  /\ state = [m \in Messages |-> "none"] /\ text = [m \in Messages |-> {}]
  /\ visit = 1 /\ list = {} /\ readable = {} /\ tracked = {}
  /\ index = NoIndex /\ fetch = None /\ deleting = {}
  /\ query = None /\ debounce = FALSE /\ results = {}
  /\ evicted = {} /\ taken = {} /\ removed = {} /\ back = {} /\ aged = FALSE
-----------------------------------------------------------------------------
(* LocalSearchIndex.                                                       *)

\* Faulty variant of Removed: the postings keep the message.
RemovedFromDocs(i, m) == [i EXCEPT !.docs = @ \ {m}]

\* _removeDocument
Removed(i, m) ==
  [docs |-> i.docs \ {m},
   post |-> [w \in Words |-> IF m \in i.docs /\ w \in text[m] THEN i.post[w] \ {m} ELSE i.post[w]]]

\* _enforceChannelCap
Capped(i) == IF Cardinality(i.docs) < Cap THEN i ELSE Removed(i, Min(i.docs))

\* addDocument
Added(i, m) ==
  LET j == Capped(Removed(i, m)) IN
  [docs |-> j.docs \cup {m},
   post |-> [w \in Words |-> IF w \in text[m] THEN j.post[w] \cup {m} ELSE j.post[w]]]

\* The messages S are added in the order of created_at.
AddedAll(i, S) == MapThenFoldSet(LAMBDA m, j : Added(j, m), i, LAMBDA m : m, Max, S)

Newest(S, n) == {m \in S : Cardinality({k \in S : k > m}) < n}

\* The messages that have the word; if there is none, those with a word that
\* it begins.
Postings(w) ==
  IF index.post[w] # {} THEN index.post[w] ELSE UNION {index.post[v] : v \in w..Letters}

\* search: each result matches all words, so that the newest come first.
Search(q) == Newest({m \in index.docs : \A w \in q : m \in Postings(w)}, Limit)
-----------------------------------------------------------------------------
(* The page.                                                               *)

\* The effect that feeds the index, after every change of what it reads.
Show(l, d) ==
  LET new == (l \cap d) \ tracked IN
  /\ list' = l /\ readable' = d
  /\ index' = AddedAll(index, new)
  /\ tracked' = tracked \cup new
  /\ evicted' = (evicted \ new) \cup ((index.docs \cup new) \ index'.docs)
  /\ aged' = (aged \/ new # {})
  /\ taken' = taken \ new /\ back' = back \cup (l \cap removed)
  /\ UNCHANGED <<visit, removed>>

Live == {m \in Messages : state[m] = "live"}

\* Anybody sends a message; the page is told, or its connection is down.
Sent(m, ws) ==
  /\ state[m] = "none" /\ \A k \in 1..(m - 1) : state[k] # "none"
  /\ state' = [state EXCEPT ![m] = "live"] /\ text' = [text EXCEPT ![m] = ws]
  /\ \/ Show(list \cup {m}, readable) \/ UNCHANGED <<pageVars, aged>>
  /\ UNCHANGED <<fetch, deleting, modalVars>>

\* The newest page, as after a reconnection, or the one before the list.
Fetch ==
  /\ fetch = None
  /\ \/ fetch' = Newest(Live, PageSize)
     \/ list # {} /\ fetch' = Newest({m \in Live : m < Min(list)}, PageSize)
  /\ UNCHANGED <<tableVars, pageVars, deleting, modalVars, aged>>

Fetched ==
  /\ fetch # None /\ fetch' = None
  /\ Show(list \cup fetch, readable)
  /\ UNCHANGED <<tableVars, deleting, modalVars>>

Decrypt(m) ==
  /\ m \in list \ readable
  /\ Show(list, readable \cup {m})
  /\ UNCHANGED <<tableVars, fetch, deleting, modalVars>>

\* handleDelete, up to its await.
Delete(m) ==
  /\ m \in list /\ state[m] = "live"
  /\ Cardinality({k \in Messages : state[k] = "deleted"}) < MaxDeletes
  /\ state' = [state EXCEPT ![m] = "deleted"]
  /\ deleting' = deleting \cup {<<m, visit>>}
  /\ UNCHANGED <<text, pageVars, fetch, modalVars, aged>>

\* The index outlives the page, the list and the tracker do not.
Deleted(m, v) ==
  /\ <<m, v>> \in deleting /\ deleting' = deleting \ {<<m, v>>}
  /\ index' = Removed(index, m) /\ aged' = TRUE
  /\ IF v = visit
     THEN /\ list' = list \ {m} /\ tracked' = tracked \ {m}
          /\ removed' = removed \cup {m} /\ back' = back \ {m}
          /\ UNCHANGED taken
     ELSE taken' = taken \cup {m} /\ UNCHANGED <<list, tracked, removed, back>>
  /\ UNCHANGED <<tableVars, visit, readable, evicted, fetch, modalVars>>

\* The page is left, which clears the channel, and opened again.
Reopen ==
  /\ visit < MaxVisits /\ visit' = visit + 1
  /\ list' = {} /\ readable' = {} /\ tracked' = {} /\ index' = NoIndex
  /\ evicted' = {} /\ taken' = {} /\ removed' = {} /\ back' = {} /\ aged' = FALSE
  /\ fetch' = None
  /\ query' = None /\ debounce' = FALSE /\ results' = {}
  /\ UNCHANGED <<tableVars, deleting>>
-----------------------------------------------------------------------------
(* DmLocalSearchModal.                                                     *)

Type(q) ==
  /\ q # query /\ query' = q /\ debounce' = TRUE
  /\ UNCHANGED <<tableVars, pageVars, fetch, deleting, results, aged>>

\* runSearch; the search itself waits for the spinner to be painted.
RunSearch ==
  /\ debounce /\ debounce' = FALSE
  /\ results' = IF query = None THEN {} ELSE Search(query)
  /\ aged' = FALSE
  /\ UNCHANGED <<tableVars, pageVars, fetch, deleting, query>>

\* What the dialog lists.
Listed == IF query = None THEN {} ELSE results

Next ==
  \/ \E m \in Messages : Decrypt(m) \/ Delete(m) \/ \E ws \in Texts : Sent(m, ws)
  \/ \E d \in deleting : Deleted(d[1], d[2])
  \/ Fetch \/ Fetched \/ Reopen \/ RunSearch
  \/ \E q \in Queries \cup {None} : Type(q)

Spec == Init /\ [][Next]_vars
-----------------------------------------------------------------------------
\* Each word leads to the documents that have it, and to nothing else, whatever
\* has been added, replaced and evicted.
PostingsAgree ==
  /\ \A w \in Words : index.post[w] = {m \in index.docs : w \in text[m]}
  /\ Cardinality(index.docs) <= Cap

\* What is on the page and readable can be found, unless the cap has evicted it
\* or a deletion is answered to another page; and what was deleted on the page
\* cannot, unless it is on the page again.
IndexFollowsPage ==
  /\ list \cap readable \subseteq index.docs \cup evicted \cup taken
  /\ index.docs \subseteq readable
  /\ removed \cap index.docs \subseteq back

\* At rest the results are of the query that is shown: whatever has all the
\* words is among them, up to the limit, and whatever is among them has a word
\* that begins with each.
ResultsTrue ==
  ~debounce /\ query # None =>
    /\ \A m \in Listed : \A w \in query : \E v \in text[m] : w <= v
    /\ ~aged /\ Cardinality(Listed) < Limit =>
         {m \in index.docs : query \subseteq text[m]} \subseteq Listed

LocalTrue == PostingsAgree /\ IndexFollowsPage /\ ResultsTrue
=============================================================================
