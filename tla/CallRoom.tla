------------------------------- MODULE CallRoom -------------------------------
(***************************************************************************)
(* The call as one page shows it (DMCallView): the run of its effect that  *)
(* fetches a token, joins the media room and publishes microphone and      *)
(* camera, each after an await; the tracks of the others, and the graphs   *)
(* that place their voices.  The effect starts again when the answer of    *)
(* another member changes withVideo, or the members are loaded.  The media *)
(* server is external: it tells a page in the room of the others' tracks,  *)
(* and leaving the room unsubscribes them.                                 *)
(***************************************************************************)
EXTENDS Naturals, FiniteSets

CONSTANTS
  Peers,   \* other members of the channel
  MaxRuns  \* bound: runs of the effect

Runs == 1..MaxRuns
Kinds == {"audio", "video"}

VARIABLES
  group,    \* more than one other member
  open,     \* is the call shown
  run,      \* the last run of the effect, 0 before the first
  pc,       \* run -> what it awaits, or "over"
  video,    \* run -> withVideo
  joined,   \* runs whose room is connected
  mic, cam, \* runs whose track is live
  micRef,   \* localAudioTrackRef, 0 for null
  camRef,   \* localVideoTrackRef
  eqRef,    \* eqProcessorRef
  silenced, \* runs whose microphone is muted
  leaving,  \* hangup has disconnected the room, and not yet closed the view
  status, muted,
  here,     \* peers in the media room
  tiles,    \* peers in remoteStreams
  tracks,   \* peer -> live tracks of its stream
  spatial,  \* spatialAudioEnabled
  graph,    \* peer -> "none", "live", or "dead": its track has ended
  \* Why the page may be wrong:
  early,    \* muted or unmuted without a track, or a new one came since
  partly,   \* a run has failed after it had joined, or another began afterwards
  carried,  \* peers whose tile comes from an earlier room
  renewed,  \* peers with a new audio track on a stream with a graph
  overtaken \* a run that was over has set the processor

refs == <<micRef, camRef, eqRef>>
media == <<joined, mic, cam, silenced>>
screen == <<status, muted>>
remote == <<here, tiles, tracks, spatial, graph, carried, renewed>>
excuses == <<early, partly, overtaken>>
vars == <<group, open, run, pc, video, refs, media, leaving, screen, remote, excuses>>

Init ==
  /\ group \in BOOLEAN /\ open = FALSE /\ run = 0
  /\ pc = [r \in Runs |-> "over"] /\ video = [r \in Runs |-> FALSE]
  /\ joined = {} /\ mic = {} /\ cam = {} /\ silenced = {}
  /\ micRef = 0 /\ camRef = 0 /\ eqRef = 0
  /\ leaving = FALSE /\ status = "connecting" /\ muted = FALSE
  /\ here = {} /\ tiles = {} /\ tracks = [q \in Peers |-> {}]
  /\ spatial \in BOOLEAN /\ graph = [q \in Peers |-> "none"]
  /\ early = FALSE /\ partly = FALSE /\ carried = {} /\ renewed = {} /\ overtaken = FALSE

Mounted(r) == open /\ r = run

\* A tile plays its stream by itself, or, once spatial audio is on, nothing: its
\* graph does.
Heard(q) == "audio" \in tracks[q] /\ (group /\ spatial => graph[q] = "live")

\* What the view says of the connection; a group call counts the tiles that
\* have a stream instead.
Label == IF group THEN "counted" ELSE status

\* The settings panel changes the processor of the track that is published.
Tuned == micRef # 0 /\ eqRef = micRef

NoTracks == [q \in Peers |-> {}]
NoGraphs == [q \in Peers |-> "none"]

\* The effect that builds the graphs, after remoteStreams or the setting has
\* changed: it drops those of peers without a stream and keeps the others.
Graphs(shown, sounds, on) ==
  [q \in Peers |->
     IF ~(group /\ on) \/ q \notin shown THEN "none"
     ELSE IF "audio" \notin sounds[q] THEN IF graph[q] = "none" THEN "none" ELSE "dead"
     ELSE IF graph[q] = "dead" THEN "dead" ELSE "live"]
-----------------------------------------------------------------------------
\* The effect: a new Room, connect() is called.
Begin(v) ==
  /\ run < MaxRuns /\ run' = run + 1
  /\ pc' = [pc EXCEPT ![run + 1] = "token"] /\ video' = [video EXCEPT ![run + 1] = v]

\* The effect's cleanup: the tracks of the refs are stopped, the room is left.
Cleanup ==
  /\ mic' = mic \ {micRef} /\ cam' = cam \ {camRef}
  /\ joined' = joined \ {run}
  /\ micRef' = 0 /\ camRef' = 0 /\ eqRef' = 0
  /\ UNCHANGED silenced

OpenCall(v) ==
  /\ ~open /\ open' = TRUE /\ Begin(v)
  /\ status' = "connecting" /\ muted' = FALSE
  /\ early' = FALSE /\ partly' = FALSE
  /\ UNCHANGED <<group, refs, media, leaving, remote, overtaken>>

\* The view goes away with everything it shows.
Closes ==
  /\ open' = FALSE /\ leaving' = FALSE
  /\ Cleanup
  /\ tiles' = {} /\ tracks' = NoTracks /\ graph' = NoGraphs
  /\ carried' = {} /\ renewed' = {}
  /\ UNCHANGED <<group, run, pc, video, screen, spatial, excuses>>

\* The dependencies of the effect change.
Rerun(v) ==
  /\ open /\ ~leaving /\ Begin(v) /\ Cleanup
  /\ tracks' = NoTracks /\ graph' = Graphs(tiles, NoTracks, spatial)
  /\ carried' = carried \cup tiles
  /\ early' = (early \/ muted) /\ partly' = (partly \/ status = "failed")
  /\ UNCHANGED <<group, open, leaving, screen, here, tiles, spatial, renewed, overtaken>>
-----------------------------------------------------------------------------
Goto(r, where) == pc' = [pc EXCEPT ![r] = where]
kept == <<group, open, run, video, leaving, muted, remote, early>>

Token(r) ==
  /\ pc[r] = "token" /\ Goto(r, IF Mounted(r) THEN "join" ELSE "over")
  /\ UNCHANGED <<kept, refs, media, status, partly, overtaken>>

Join(r) ==
  /\ pc[r] = "join"
  /\ \/ Mounted(r) /\ Goto(r, "mic") /\ joined' = joined \cup {r}
     \/ ~Mounted(r) /\ Goto(r, "over") /\ UNCHANGED joined
  /\ UNCHANGED <<kept, refs, mic, cam, silenced, status, partly, overtaken>>

\* Faulty variant of Microphone: the track is kept although the view is gone.
MicrophoneKept(r) ==
  /\ pc[r] = "mic"
  /\ mic' = mic \cup {r} /\ micRef' = r /\ Goto(r, "publish")
  /\ UNCHANGED <<kept, camRef, eqRef, joined, cam, silenced, status, partly, overtaken>>

Microphone(r) ==
  /\ pc[r] = "mic"
  /\ \/ Mounted(r) /\ mic' = mic \cup {r} /\ micRef' = r /\ Goto(r, "publish")
     \/ ~Mounted(r) /\ Goto(r, "over") /\ UNCHANGED <<mic, micRef>>
  /\ UNCHANGED <<kept, camRef, eqRef, joined, cam, silenced, status, partly, overtaken>>

\* Nothing is asked before the processor is kept, nor before the camera is.
Publish(r) ==
  /\ pc[r] = "publish" /\ Goto(r, "process") /\ eqRef' = r
  /\ overtaken' = (overtaken \/ ~Mounted(r))
  /\ UNCHANGED <<kept, micRef, camRef, media, status, partly>>

Process(r) ==
  /\ pc[r] = "process" /\ Goto(r, IF video[r] THEN "camera" ELSE "over")
  /\ UNCHANGED <<kept, refs, media, status, partly, overtaken>>

Camera(r) ==
  /\ pc[r] = "camera" /\ Goto(r, "over")
  /\ \/ Mounted(r) /\ cam' = cam \cup {r} /\ camRef' = r
     \/ ~Mounted(r) /\ UNCHANGED <<cam, camRef>>
  /\ UNCHANGED <<kept, micRef, eqRef, joined, mic, silenced, status, partly, overtaken>>

\* A request fails, or the user does not allow a device.  Nothing is undone.
Fails(r) ==
  /\ pc[r] # "over" /\ Goto(r, "over")
  /\ IF Mounted(r) THEN status' = "failed" /\ partly' = (partly \/ r \in joined \cup mic)
                   ELSE UNCHANGED <<status, partly>>
  /\ UNCHANGED <<kept, refs, media, overtaken>>
-----------------------------------------------------------------------------
HangUp ==
  /\ open /\ leaving' = TRUE
  /\ joined' = joined \ {run}
  /\ tracks' = NoTracks /\ graph' = Graphs(tiles, NoTracks, spatial)
  /\ carried' = carried \cup tiles
  /\ UNCHANGED <<group, open, run, pc, video, refs, mic, cam, silenced, screen,
                 here, tiles, spatial, renewed, excuses>>
HungUp == leaving /\ Closes /\ UNCHANGED here

\* The room is closed, or the connection to it given up.
Dropped ==
  /\ run \in joined /\ ~leaving
  /\ joined' = joined \ {run}
  /\ status' = IF status = "connected" THEN "failed" ELSE status
  /\ tracks' = NoTracks /\ graph' = Graphs(tiles, NoTracks, spatial)
  /\ carried' = carried \cup tiles /\ partly' = TRUE
  /\ UNCHANGED <<group, open, run, pc, video, refs, mic, cam, silenced, leaving, muted,
                 here, tiles, spatial, renewed, early, overtaken>>

ToggleMute ==
  /\ open /\ muted' = ~muted
  /\ IF micRef = 0 THEN early' = TRUE /\ UNCHANGED silenced
     ELSE /\ silenced' = IF muted THEN silenced \ {micRef} ELSE silenced \cup {micRef}
          /\ UNCHANGED early
  /\ UNCHANGED <<group, open, run, pc, video, refs, joined, mic, cam, leaving, status,
                 remote, partly, overtaken>>
-----------------------------------------------------------------------------
alone == <<group, open, run, pc, video, refs, media, leaving, muted, excuses>>

PeerJoins(q) ==
  /\ q \notin here /\ (group \/ here = {})
  /\ here' = here \cup {q}
  /\ UNCHANGED <<alone, status, tiles, tracks, spatial, graph, carried, renewed>>

Streams(shown, sounds) ==
  tiles' = shown /\ tracks' = sounds /\ graph' = Graphs(shown, sounds, spatial)

TrackSubscribed(q, k) ==
  /\ run \in joined /\ q \in here /\ k \notin tracks[q]
  /\ Streams(tiles \cup {q}, [tracks EXCEPT ![q] = @ \cup {k}])
  /\ status' = "connected"
  /\ carried' = carried \ {q}
  /\ renewed' = IF k = "audio" /\ graph[q] = "dead" THEN renewed \cup {q} ELSE renewed
  /\ UNCHANGED <<alone, here, spatial>>

TrackUnsubscribed(q, k) ==
  /\ k \in tracks[q] /\ Streams(tiles, [tracks EXCEPT ![q] = @ \ {k}])
  /\ UNCHANGED <<alone, status, here, spatial, carried, renewed>>

\* A 1:1 call ends with the other side.  A page out of the room is not told.
PeerLeaves(q) ==
  /\ q \in here /\ here' = here \ {q}
  /\ CASE run \notin joined ->
            UNCHANGED <<alone, status, tiles, tracks, spatial, graph, carried, renewed>>
       [] run \in joined /\ group ->
            /\ Streams(tiles \ {q}, [tracks EXCEPT ![q] = {}])
            /\ carried' = carried \ {q} /\ renewed' = renewed \ {q}
            /\ UNCHANGED <<alone, status, spatial>>
       [] OTHER -> Closes

\* The switch of the settings panel.
ToggleSpatial ==
  /\ open /\ spatial' = ~spatial /\ graph' = Graphs(tiles, tracks, ~spatial)
  /\ renewed' = {}
  /\ UNCHANGED <<alone, status, here, tiles, tracks, carried>>

Next ==
  \/ \E v \in BOOLEAN : OpenCall(v) \/ Rerun(v)
  \/ \E r \in Runs : \/ Token(r) \/ Join(r) \/ Microphone(r) \/ Publish(r) \/ Process(r)
                     \/ Camera(r) \/ Fails(r)
  \/ HangUp \/ HungUp \/ Dropped \/ ToggleMute \/ ToggleSpatial
  \/ \E q \in Peers : \/ PeerJoins(q) \/ PeerLeaves(q)
                      \/ \E k \in Kinds : TrackSubscribed(q, k) \/ TrackUnsubscribed(q, k)

Spec == Init /\ [][Next]_vars
-----------------------------------------------------------------------------
\* What a run took it gives back: no run but the one on the screen is in the
\* room or has a device, wherever the view was closed or the effect started
\* again.
MediaReleased == \A r \in joined \cup mic \cup cam : Mounted(r)

\* Whoever is told that the call has failed is not heard, unless it failed
\* after the room was joined, or the effect started again; and who is shown as muted is.
ScreenTrue ==
  /\ Label = "failed" /\ ~partly => run \notin joined
  /\ run \in mic => (muted = (run \in silenced)) \/ early

\* Once a run has published its track, the settings panel reaches it.
PanelReaches ==
  open /\ run \in mic /\ pc[run] \in {"camera", "over"} =>
    Tuned \/ overtaken \/ partly

\* A voice is heard, by itself or through its graph, unless its track was
\* replaced; and a tile stands for somebody in the room.
OthersTrue ==
  /\ \A q \in Peers : "audio" \in tracks[q] => Heard(q) \/ q \in renewed
  /\ tiles \subseteq here \cup carried

CallShown == MediaReleased /\ ScreenTrue /\ PanelReaches /\ OthersTrue
=============================================================================
