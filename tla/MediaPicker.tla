---------------------------- MODULE MediaPicker ----------------------------
(***************************************************************************)
(* The picker of the composer with its tabs for emoji, GIFs and stickers   *)
(* (message-input.tsx, use-gif-meme-sticker.ts, use-lazy-emoji-picker.ts), *)
(* the proxy routes behind it with their caches (api/gif, api/sticker),    *)
(* and the provider below them (gif-provider.ts).  A search waits for the  *)
(* user to pause, and one that is overtaken is aborted.                    *)
(***************************************************************************)
EXTENDS Naturals

CONSTANTS
  Queries,     \* search texts for GIFs; Trending is the empty one
  Named,       \* search texts for stickers
  Trending,
  Long         \* those long enough for suggestions

VARIABLES
  provider,    \* detectProvider(): "klipy" or "giphy"; with neither there is nothing to find
  loaded,      \* the code of the picker is there
  open,        \* showEmojiPicker
  tab,         \* pickerTab
  query,       \* gifQuery, stickerQuery
  timer,       \* feeds whose search waits for a pause
  flight,      \* the request of a feed: its query and the answer under way
  loading,     \* gifLoading, stickerLoading
  results,     \* gifResults, gifSuggestions, stickerResults: of which query, if any
  cache,       \* per feed and query: "found", "nothing", or "none" without an entry
  sending

pickVars == <<provider, loaded, open, tab, query, timer, flight, loading, results,
              cache, sending>>

None == "none"
Tabs == {"emoji", "gif", "sticker"}
Searches == {"gif", "sticker"}
Feeds == Searches \cup {"suggest"}
TextsOf(f) == IF f = "sticker" THEN Named ELSE Queries
TabOf(f) == IF f = "suggest" THEN "gif" ELSE f
NoRequest == [of |-> None, reply |-> None]
NoResults == [of |-> None, what |-> "nothing"]

Init ==
  /\ provider \in {"klipy", "giphy"}
  /\ loaded = FALSE /\ open = FALSE /\ tab = "emoji"
  /\ query = [s \in Searches |-> Trending]
  /\ timer = {} /\ flight = [f \in Feeds |-> NoRequest]
  /\ loading = {} /\ results = [f \in Feeds |-> NoResults]
  /\ cache = [f \in Feeds |-> [q \in TextsOf(f) |-> None]]
  /\ sending = FALSE
-----------------------------------------------------------------------------
\* Whether the effect of a feed starts a search.
Wanted(f, o, t, qs) ==
  /\ o /\ t = TabOf(f)
  /\ f = "suggest" => qs["gif"] \in Long

\* Faulty variant of Effects: what is under way is left to finish.
EffectsLeaving(o, t, qs, changed) ==
  /\ timer' = (timer \ changed) \cup {f \in changed : Wanted(f, o, t, qs)}
  /\ UNCHANGED <<flight, loading>>
  /\ results' = [f \in Feeds |->
       IF f = "suggest" /\ f \in changed /\ ~Wanted(f, o, t, qs) THEN NoResults ELSE results[f]]

\* The effects of the feeds whose dependencies change run again: the timer is
\* cleared, the request aborted, and a search is due after a pause.  The list of
\* suggestions is emptied when there is nothing to suggest.
Effects(o, t, qs, changed) ==
  /\ timer' = (timer \ changed) \cup {f \in changed : Wanted(f, o, t, qs)}
  /\ flight' = [f \in Feeds |-> IF f \in changed THEN NoRequest ELSE flight[f]]
  /\ loading' = {f \in loading : f \notin changed}
  /\ results' = [f \in Feeds |->
       IF f = "suggest" /\ f \in changed /\ ~Wanted(f, o, t, qs) THEN NoResults ELSE results[f]]

Show(o, t, qs) ==
  /\ open' = o /\ tab' = t /\ query' = qs
  /\ Effects(o, t, qs, {f \in Feeds : o # open \/ t # tab
       \/ (IF f = "sticker" THEN qs["sticker"] # query["sticker"] ELSE qs["gif"] # query["gif"])})
  /\ UNCHANGED <<provider, cache>>

\* The button toggles the picker, and loads its code, or fails to.
Toggle ==
  /\ loaded' \in {loaded, loaded \/ ~open}
  /\ Show(~open, tab, query)
  /\ UNCHANGED sending

\* It is seen when it is open and its code is there.
Seen == open /\ loaded

\* A press outside, the close button, or a swipe down.
Dismiss ==
  /\ open
  /\ Show(FALSE, tab, query)
  /\ UNCHANGED <<loaded, sending>>

PickTab(t) ==
  /\ Seen /\ t # tab
  /\ Show(TRUE, t, query)
  /\ UNCHANGED <<loaded, sending>>

Search(s, q) ==
  /\ Seen /\ tab = s /\ q # query[s]
  /\ Show(TRUE, s, [query EXCEPT ![s] = q])
  /\ UNCHANGED <<loaded, sending>>

\* A suggestion is pressed: it is the next search.
TakeSuggestion(q) ==
  /\ results["suggest"].what = "found"
  /\ Search("gif", q)

\* The commands /gif and /sticker open the picker on their tab and query.
Command(s, q) ==
  /\ ~sending
  /\ loaded' \in {loaded, TRUE}
  /\ Show(TRUE, s, [query EXCEPT ![s] = q])
  /\ UNCHANGED sending

\* An emoji goes into the text.
TakeEmoji ==
  /\ Seen /\ tab = "emoji"
  /\ Show(FALSE, tab, query)
  /\ UNCHANGED <<loaded, sending>>

\* A GIF or sticker is sent by itself, one at a time.
Take(s) ==
  /\ Seen /\ tab = s /\ s \notin loading /\ results[s].what = "found"
  /\ ~sending
  /\ sending' = TRUE
  /\ Show(FALSE, tab, query)
  /\ UNCHANGED loaded

Sent ==
  /\ sending
  /\ sending' = FALSE
  /\ UNCHANGED <<provider, loaded, open, tab, query, timer, flight, loading, results, cache>>
-----------------------------------------------------------------------------
QueryOf(f) == IF f = "sticker" THEN query["sticker"] ELSE query["gif"]

Due(f) ==
  /\ f \in timer
  /\ timer' = timer \ {f}
  /\ flight' = [flight EXCEPT ![f] = [of |-> QueryOf(f), reply |-> None]]
  /\ loading' = loading \cup ({f} \cap Searches)
  /\ UNCHANGED <<provider, loaded, open, tab, query, results, cache, sending>>

\* klipySearch and its like, with what a working provider has for a query: a
\* failure reads like an empty result.
Fetched(ok) == IF ok THEN "found" ELSE "nothing"

Reply(f, r) == flight' = [flight EXCEPT ![f].reply = r]

\* Suggestions that Giphy fails to give are not cached.
Kept(f, ok) == ~(f = "suggest" /\ provider = "giphy" /\ ~ok)

\* A route: what the cache has, or what the provider returns, which is cached
\* whatever it is.
Serve(f, ok) ==
  LET q == flight[f].of
      cached == cache[f][q] # None
      got == Fetched(ok)
  IN  /\ q # None /\ flight[f].reply = None
      /\ Reply(f, IF cached THEN cache[f][q] ELSE got)
      /\ cache' = IF cached \/ ~Kept(f, ok) THEN cache ELSE [cache EXCEPT ![f][q] = got]
      /\ UNCHANGED <<provider, loaded, open, tab, query, timer, loading, results, sending>>

\* Too many requests, or not signed in.
Refuse(f) ==
  /\ flight[f].of # None /\ flight[f].reply = None
  /\ Reply(f, "nothing")
  /\ UNCHANGED <<provider, loaded, open, tab, query, timer, loading, results, cache, sending>>

\* An answer, whatever its status, is shown; so is a lost one, as nothing.
Answer(f) ==
  /\ flight[f].of # None /\ flight[f].reply # None
  /\ results' = [results EXCEPT ![f] = [of |-> flight[f].of, what |-> flight[f].reply]]
  /\ flight' = [flight EXCEPT ![f] = NoRequest]
  /\ loading' = loading \ {f}
  /\ UNCHANGED <<provider, loaded, open, tab, query, timer, cache, sending>>

\* Suggestions that are lost leave the earlier ones.
Lose(f) ==
  /\ flight[f].of # None
  /\ results' = IF f = "suggest" THEN results
                ELSE [results EXCEPT ![f] = [of |-> flight[f].of, what |-> "nothing"]]
  /\ flight' = [flight EXCEPT ![f] = NoRequest]
  /\ loading' = loading \ {f}
  /\ UNCHANGED <<provider, loaded, open, tab, query, timer, cache, sending>>

\* The time of an entry is over; stickers also drop the oldest when there are
\* too many.
Expire(f, q) ==
  /\ cache[f][q] # None
  /\ cache' = [cache EXCEPT ![f][q] = None]
  /\ UNCHANGED <<provider, loaded, open, tab, query, timer, flight, loading, results, sending>>

Next ==
  \/ Toggle \/ Dismiss \/ TakeEmoji \/ Sent
  \/ \E t \in Tabs : PickTab(t)
  \/ \E s \in Searches : Take(s)
  \/ \E s \in Searches : \E q \in TextsOf(s) : Search(s, q) \/ Command(s, q)
  \/ \E q \in Queries : TakeSuggestion(q)
  \/ \E f \in Feeds : Due(f) \/ Refuse(f) \/ Answer(f) \/ Lose(f)
  \/ \E f \in Feeds, ok \in BOOLEAN : Serve(f, ok)
  \/ \E f \in Feeds : \E q \in TextsOf(f) : Expire(f, q)

Spec == Init /\ [][Next]_pickVars
-----------------------------------------------------------------------------
\* Once its search has come to an end, a tab shows what was found for the text
\* in its field, and no sign of loading, however often the user has typed,
\* changed tabs or closed the picker in between.  And a tab that says it loads
\* has a request under way.
ResultsAgree ==
  /\ \A s \in Searches :
       open /\ tab = s /\ s \notin timer /\ flight[s] = NoRequest =>
         s \notin loading /\ results[s].of = query[s]
  /\ \A s \in loading : open /\ tab = s /\ flight[s].of = query[s]
  /\ \A f \in Feeds : flight[f] # NoRequest => flight[f].of = QueryOf(f)
=============================================================================
