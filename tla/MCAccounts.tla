----------------------------- MODULE MCAccounts -----------------------------
(***************************************************************************)
(* What belongs to an account: registration, sign-in, step-up,             *)
(* connections, the settings, where its pushes go, what the browser keeps  *)
(* of it, its move to the new database, the status it shows, and the       *)
(* limits on what it does.  The parts share no state: a behaviour of this  *)
(* module is one of one of them, and they use the variables of this module *)
(* in turn, each under its own names.                                      *)
(***************************************************************************)
EXTENDS Naturals, TLC

CONSTANTS
  Signups, Names, Codes, MaxUses,           \* Registration
  Clients, MaxAttempts, MaxTries,           \* SignIn
  People, Buttons, MaxProofs,               \* StepUp; People elsewhere too
  Browsers, Accts, MaxFlows,                \* Connections
  Pages,                                    \* Preferences, Avatar, Pins, NtfyTopic
  Switches, Pickers, MaxPuts,               \* Preferences
  Devices, Values, Default, MaxRequests,    \* Appearance
  MaxChanges,                               \* Appearance, PushFanout
  Types, MaxSaves,                          \* Avatar
  Items, MaxPins,                           \* Pins
  Runs, MaxEnds,                            \* PushDevices
  Senders, MaxTopics,                       \* NtfyTopic
  Day,                                      \* PushFanout
  Fetches,                                  \* OfflineCache
  MaxUsers, SampleSize, MaxWrites, MaxScripts, \* Migration
  Windows, Moods, MaxQueue,                 \* TabPresence
  Views, Statuses, Sweeps, MaxChoices,      \* StatusChoice
  Checks, Limit, Widths, MaxAge, MaxDelay, MaxTime, \* RateLimit
  Queries, Named, Trending, Long            \* MediaPicker

VARIABLES
  part,  \* the part that runs
  x1, x2, x3, x4, x5, x6, x7, x8, x9, x10, x11, x12, x13, x14

\* The slots that a part leaves unused.
after13 == <<x14>>
after12 == <<x13, after13>>
after11 == <<x12, after12>>
after10 == <<x11, after11>>
after9 == <<x10, after10>>
after8 == <<x9, after9>>
after7 == <<x8, after8>>
after6 == <<x7, after7>>
after5 == <<x6, after6>>
Unused13 == x14 = "unused"
Unused12 == x13 = "unused" /\ Unused13
Unused11 == x12 = "unused" /\ Unused12
Unused10 == x11 = "unused" /\ Unused11
Unused9 == x10 = "unused" /\ Unused10
Unused8 == x9 = "unused" /\ Unused9
Unused7 == x8 = "unused" /\ Unused8
Unused6 == x7 = "unused" /\ Unused7
Unused5 == x6 = "unused" /\ Unused6

vars == <<part, x1, x2, x3, x4, x5, x6, x7, x8, x9, x10, x11, x12, x13, x14>>

R == INSTANCE Registration WITH account <- x1, invite <- x2, signup <- x3,
     burnt <- x4, founding <- x5
S == INSTANCE SignIn WITH verified <- x1, second <- x2, failed <- x3,
     stale <- x4, base <- x5, sessions <- x6, attempt <- x7, tries <- x8,
     refused <- x9
U == INSTANCE StepUp WITH who <- x1, cookie <- x2, proof <- x3, button <- x4,
     ref <- x5, bought <- x6, shared <- x7, raced <- x8
C == INSTANCE Connections WITH user <- x1, state <- x2, flow <- x3, row <- x4,
     linked <- x5, moved <- x6
P == INSTANCE Preferences WITH MaxSaves <- MaxPuts, row <- x1, pc <- x2,
     shown <- x3, saving <- x4, put <- x5, touched <- x6, wanted <- x7,
     clicked <- x8, behind <- x9, last <- x10
A == INSTANCE Appearance WITH account <- x1, local <- x2, synced <- x3,
     page <- x4, given <- x5, timer <- x6, saving <- x7, patch <- x8,
     wanted <- x9, behind <- x10, carriers <- x11, dropped <- x12,
     last <- x13, changes <- x14
V == INSTANCE Avatar WITH files <- x1, url <- x2, known <- x3, picked <- x4,
     pc <- x5, sends <- x6, saves <- x7, why <- x8
I == INSTANCE Pins WITH row <- x1, made <- x2, list <- x3, load <- x4,
     read <- x5, add <- x6, got <- x7, del <- x8, overlap <- x9, apart <- x10
D == INSTANCE PushDevices WITH Users <- People, who <- x1, ios <- x2,
     end <- x3, ends <- x4, rows <- x5, run <- x6, worker <- x7, undo <- x8,
     told <- x9, seen <- x10, mounted <- x11, failed <- x12
T == INSTANCE NtfyTopic WITH topic <- x1, enabled <- x2, used <- x3,
     view <- x4, call <- x5, send <- x6, behind <- x7
F == INSTANCE PushFanout WITH Users <- People, now <- x1, members <- x2,
     quiet <- x3, mentions <- x4, send <- x5, changes <- x6, got <- x7,
     ever <- x8, always <- x9, lost <- x10
O == INSTANCE OfflineCache WITH Users <- People, who <- x1, net <- x2,
     active <- x3, page <- x4, shell <- x5, api <- x6, fetch <- x7,
     clears <- x8, badge <- x9, count <- x10, post <- x11, via <- x12,
     late <- x13, odd <- x14
M == INSTANCE Migration WITH live <- x1, writes <- x2, dump <- x3,
     secrets <- x4, file <- x5, uploads <- x6, script <- x7, started <- x8,
     snapAt <- x9, done <- x10, left <- x11, again <- x12
B == INSTANCE TabPresence WITH Tabs <- Windows, Chosen <- Moods, open <- x1,
     chosen <- x2, status <- x3, auto <- x4, others <- x5, sent <- x6,
     queue <- x7, blind <- x8
N == INSTANCE ConnectionStatus WITH onLine <- x1, socket <- x2,
     internal <- x3, visible <- x4, grace <- x5, retry <- x6, mounted <- x7,
     ever <- x8, missed <- x9, blip <- x10
H == INSTANCE StatusChoice WITH row <- x1, beat <- x2, store <- x3,
     form <- x4, reqs <- x5, sweep <- x6, n <- x7, last <- x8, clean <- x9
L == INSTANCE RateLimit WITH mode <- x1, closed <- x2, window <- x3,
     now <- x4, client <- x5, check <- x6, kept <- x7, expiry <- x8,
     told <- x9, granted <- x10, forgot <- x11, merged <- x12, unsaid <- x13
G == INSTANCE MediaPicker WITH provider <- x1, loaded <- x2, open <- x3,
     tab <- x4, query <- x5, timer <- x6, flight <- x7, loading <- x8,
     results <- x9, cache <- x10, sending <- x11

Init ==
  \/ part = "registration" /\ R!Init /\ Unused5
  \/ part = "sign-in" /\ S!Init /\ Unused9
  \/ part = "step-up" /\ U!Init /\ Unused8
  \/ part = "connections" /\ C!Init /\ Unused6
  \/ part = "preferences" /\ P!Init /\ Unused10
  \/ part = "appearance" /\ A!Init
  \/ part = "avatar" /\ V!Init /\ Unused8
  \/ part = "pins" /\ I!Init /\ Unused10
  \/ part = "devices" /\ D!Init /\ Unused12
  \/ part = "topic" /\ T!Init /\ Unused7
  \/ part = "fan-out" /\ F!Init /\ Unused10
  \/ part = "offline" /\ O!Init
  \/ part = "migration" /\ M!Init /\ Unused12
  \/ part = "tabs" /\ B!Init /\ Unused8
  \/ part = "banner" /\ N!Init /\ Unused10
  \/ part = "status" /\ H!Init /\ Unused9
  \/ part = "limits" /\ L!Init /\ Unused13
  \/ part = "picker" /\ G!Init /\ Unused11

Next ==
  /\ UNCHANGED part
  /\ \/ part = "registration" /\ R!Next /\ UNCHANGED after5
     \/ part = "sign-in" /\ S!Next /\ UNCHANGED after9
     \/ part = "step-up" /\ U!Next /\ UNCHANGED after8
     \/ part = "connections" /\ C!Next /\ UNCHANGED after6
     \/ part = "preferences" /\ P!Next /\ UNCHANGED after10
     \/ part = "appearance" /\ A!Next
     \/ part = "avatar" /\ V!Next /\ UNCHANGED after8
     \/ part = "pins" /\ I!Next /\ UNCHANGED after10
     \/ part = "devices" /\ D!Next /\ UNCHANGED after12
     \/ part = "topic" /\ T!Next /\ UNCHANGED after7
     \/ part = "fan-out" /\ F!Next /\ UNCHANGED after10
     \/ part = "offline" /\ O!Next
     \/ part = "migration" /\ M!Next /\ UNCHANGED after12
     \/ part = "tabs" /\ B!Next /\ UNCHANGED after8
     \/ part = "banner" /\ N!Next /\ UNCHANGED after10
     \/ part = "status" /\ H!Next /\ UNCHANGED after9
     \/ part = "limits" /\ L!Next /\ UNCHANGED after13
     \/ part = "picker" /\ G!Next /\ UNCHANGED after11

Spec == Init /\ [][Next]_vars

-----------------------------------------------------------------------------
\* The properties of the parts, under their names there.
AdmissionsAccounted == part = "registration" => R!AdmissionsAccounted
\* Guesses, and whatever else is limited, stay within the limit, and who is
\* refused is refused for good reason.
GuessesBounded == /\ part = "sign-in" => S!GuessesBounded
                  /\ part = "limits" => L!WindowHeld
RefusalHolds == [][/\ part = "sign-in" => S!NoRefusedSession
                   /\ part = "limits" => L!RefusalsJust]_vars
ProofsAccounted == part = "step-up" => U!ProofsAccounted
LinkedByStarter == part = "connections" => C!LinkedByStarter
\* What a user has set stays set, and is set again on the other devices.
SettingsKept == /\ part = "preferences" => P!PreferencesKept
                /\ part = "appearance" => A!AppearanceKept
\* The picture that the row names is there, and the pins are what was pinned.
ProfileKept == /\ part = "avatar" => V!AvatarServed
               /\ part = "pins" => I!PinsAccounted
\* A push goes to those it is for, to the devices and the topic they have.
DeliveriesKept == /\ part = "devices" => D!PushesAccounted
                  /\ part = "topic" => T!TopicAgrees
                  /\ part = "fan-out" => F!PushesEntitled
\* What the pages of a user show: the cached answers are their user's, the
\* tabs agree on his presence, the banner tells the truth, a chosen status
\* holds, and the media picker shows what its search has found.
PagesAgree == /\ part = "offline" => O!OfflineOwned
              /\ part = "tabs" => B!TabsAgree
              /\ part = "banner" => N!BannerExplained
              /\ part = "status" => H!StatusKept
              /\ part = "picker" => G!ResultsAgree
\* The move loses nothing that it does not report.
MigrationAccounted == part = "migration" => M!MigrationAccounted
=============================================================================
