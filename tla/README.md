# VortexChat: a TLA+ model

VortexChat is a self-hosted chat application: a Next.js web app (`apps/web`) with an SQLite database
(`packages/db`), a Socket.IO gateway (`apps/signal`) that may run as several replicas over a Redis adapter, a cron
container (`apps/cron`) and shared types and algorithms (`packages/shared`). Messages are written over HTTP; the
gateway pushes what has happened to the open pages. Almost everything that is hard in it is asynchronous: handlers of
the gateway race with requests of the web app, routes await between their checks and their writes, and a page is a set
of effects, timers and requests that overtake each other.

All paths below are relative to `src/`. `PROJECT.json` maps every definition to the lines it models, lists the runs, the
mutants (what each property notices), the hazards of the code with the properties that cover them, and the theorems.

## 1. Inventory

| Component | State | Operations | Module |
|---|---|---|---|
| Gateway rooms and channel access (`signal/src/gateway.ts`, `channel-access.ts`, `hooks/use-gateway.ts`) | rooms, `socketStates`, `dm_channel_members` | subscribe, resume, unsubscribe, disconnect, add and remove a member, `revokeChannelAccess` | `GatewayRooms`, `RoomRequests`, `ChannelPermits` |
| Gateway presence (`gateway.ts`, `presence.ts`) | status of a socket, `vortex:presence:{userId}` | init, presence, the announcements of subscribe and resume, disconnect, the sweep of keys | `GatewayPresence` |
| Event bus and catch-up (`event-bus.ts`, `use-gateway.ts`) | a Redis stream per channel, the client's cursor | publish, fan-out, replay, resume | `EventReplay` |
| Sessions and revocation (`index.ts`, `revocation.ts`, `lib/auth/better-auth.ts`) | cutoffs, validation cache, tokens | `validateSession`, `/revoke-sessions`, the hook before sign-out | `SessionRevocation` |
| Typing indicators and their rate limit (`gateway.ts`, `use-gateway-typing.ts`) | an entry per user and channel, three timers | key, stop, server and watcher timers, disconnect | `Typing` |
| Call signalling (`dm-call.tsx`, `gateway.ts`) | ring and toast of each page | invite, accept, decline, cancel, timeouts | `CallRing` |
| Voice and video calls (`dm-channel-area.tsx`, `lib/voice`, the token route) | effect runs, tracks, tiles, graphs | token, join, publish, mute, camera, hang up | `CallRoom` |
| Signal server process (`signal/src/index.ts`, `lib/gateway-publish.ts`) | process, open connections, handlers | start, endpoints, shutdown | `SignalServer` |
| Tab presence (`use-gateway-presence.ts`) | statuses of the tabs, BroadcastChannel | open, idle, hide, show, close | `TabPresence` |
| Connection banner (`use-connection-status.ts`, `connection-banner.tsx`) | store, grace and retry timers | socket and browser events, retry | `ConnectionStatus` |
| Status and its cleanup (`api/presence`, `api/users/profile`, `api/cron/presence-cleanup`) | `users.status`, heartbeat | choose on three pages, sweep | `StatusChoice` |
| Friends and blocking (`api/friends`, `lib/social-block-policy.ts`) | friendship rows | request, accept, remove, block, unblock | `Conversations` |
| Direct messages API (`api/dm/channels/**`) and membership log (`lib/membership-log.ts`) | channels, members, messages, read states, log | open, add, remove, send, delete, read | `Conversations` |
| Message timeline (`dm-channel-area.tsx`) | the list of one tab | pages, resync, live events, sends, reactions | `DmTimeline` |
| Olm keys (`api/dm/olm`, `lib/olm-protocol-store.ts`) | one-time keys on the server, the account in IndexedDB | set up, top up, claim, prune, reset | `OlmKeys` |
| Olm sessions (`lib/olm-protocol*.ts`, the decrypt effect) | the ratchet of a pair | encrypt, decrypt runs, reload | `OlmSessions` |
| Attachments and decay (`message-input.tsx`, the attachments routes, `attachment-decay`) | composer, files, rows | pick, upload, post, attach, clean up, download, purge | `Attachments` |
| Local search (`lib/local-search-index.ts`, its dialog) | index and page of an encrypted channel | decrypt, delete, search | `LocalSearch` |
| Message search (`api/search`, FTS5, `search-modal.tsx`) | full-text table, dialog | type, abort, answer | `MessageSearch` |
| Notifications (`api/notifications`, bell, page, badge) | rows, two inboxes, a counter | create, read, dismiss, count | `Notifications` |
| Notification settings (`notifications-settings-page.tsx`) | the row, a copy per page | load, toggle, volume, save | `Preferences` |
| ntfy topic, push subscriptions, fan-out (`lib/push.ts`, `api/push`, `api/user/ntfy`) | topic, rows, endpoints | enable, rotate, subscribe, rotate endpoint, send | `NtfyTopic`, `PushDevices`, `PushFanout` |
| Service worker (`sw.src.js`) | shell and API cache, badge | fetch, clear, sign in and out | `OfflineCache` |
| Appearance settings (`appearance-store.ts`, `use-auto-sync-appearance.ts`) | stores of two devices, the account | change, sync, reset, reload | `Appearance` |
| Profile picture and pins (`api/users/avatar`, `api/users/pinned`) | file, address, pinned rows | pick, upload, prune, save; pin, unpin | `Avatar`, `Pins` |
| Registration and invites (`lib/auth/invites.ts`) | uses of a code, accounts | mint, retire, sign up | `Registration` |
| Sign-in, lockout and risk (`better-auth.ts`, `lib/auth/risk.ts`) | attempts, sessions, baseline | password, second factor, link, reset, cleanup | `SignIn` |
| Step-up (`lib/auth/step-up.ts`, its prompt) | proof cookie, prompt | click, confirm, gate, burn | `StepUp` |
| Linked accounts (`api/users/connections`) | rows, state cookies | start, callback, delete | `Connections` |
| Media picker (`use-gif-meme-sticker.ts`, `message-input.tsx`, `api/gif`) | two searches, feeds, caches | open, type, tab, answer, expire | `MediaPicker` |
| Data migration (`packages/db/src/migration`) | dumps, target file, credentials, files | export, import, verify, secrets, files, kill | `Migration` |
| Rate limits (`lib/rate-limit.ts`, `lib/redis-client.ts`, `signal/src/rate-limiter.ts`) | the stamps of a window, the client of Redis | check in memory and in Redis, connect, fail, clean up | `RateLimit` |
| Outboxes (`lib/chat-outbox.ts`, `stores/message-outbox.ts`) | | | not modelled: imported by nothing |
| Rendering, formatting, completion in the composer, schema definitions | | | not modelled |

### How they interact

A request of the web app that changes something calls the gateway over HTTP *after* (a message, a removal) or *before*
(a sign-out) it changes the database, with a timeout of two seconds, and only logs a failure. The gateway asks the web
app who is a member, with a timeout, and denies on failure. Replicas of the gateway share Redis: the adapter for rooms
and `fetchSockets`, the streams, the presence keys and the revocation cutoffs; `socketStates`, the validation cache and
the typing timers are per process. A client opens one socket per tab and emits `gateway:init`, `gateway:subscribe` and
`gateway:resume` at once on every connection; their handlers await different things and finish in any order. The pages
hear of the socket through window events, and of each other only through a BroadcastChannel, `localStorage`, IndexedDB
and the database.

### What is hard here

- **Checked, awaited, used.** Membership, revocation, blocks, the lockout, the uses of an invite, the proof of a step-up,
  the count of a user's other sockets: all read before an `await` and acted upon after it.
- **Two views of one thing.** `rooms` and `subscribedChannels`; the list on screen and the table; the badge and the rows;
  a session in memory and in IndexedDB; a file and the row that names it; the status chosen and the heartbeat.
- **Work that outlives its owner.** Handlers that go on after their socket is gone, effects that start again while their
  previous run awaits, timers armed for something that is over.
- **Partial failure.** `XADD` without `PUBLISH`, a deleted row without an eviction, a member without a log entry, an
  upload without a row, an import killed half-way, or failed and not cleaned up.
- **Order.** Events are published by requests of their own after the routes have answered; the handlers of one socket
  await the session check and overtake each other.
- **Clocks.** Lifetimes of tokens, cutoffs, caches and proofs, and timers of both sides of a ring or an indicator.

## 2. Conventions

Every `await` is a step boundary: what JavaScript runs between two awaits is one action. A handler in flight is a record
with a `pc`; a call to another process that can be observed half-way is split where its effects become visible. Routes
over the synchronous SQLite driver await nothing between their statements unless the code says so, and are then one
action. Failures the code handles (a timeout, a Redis error, a refused request, a lost answer) are actions of their own.

A *history* variable is never read by a guard. Most of them name the circumstances in which the code does not keep what a
reader would expect of it (`slipped`, `overtaken`, `lost`, `torn`, `spliced`, `raced`, ...): a property then says that
nothing *else* breaks the expectation. Section 7 lists what these circumstances are.

A definition whose comment begins with "Faulty variant" is not part of the specification: it is the definition after it
with a plausible bug, used to confirm that the property it is listed with in `PROJECT.json` notices.

**Composition.** `GatewayRooms` is composed with the client's requests (`RoomRequests` extends it) and with its abstract
specification `ChannelPermits` (by `INSTANCE`).
The other components meet only through the database or through events that each module takes as they come, in any order;
`MCDmPage`, `MCServices` and `MCAccounts` check several of them in one run each. Such a module has a variable `part`,
chosen in the initial state, and slots `x1, x2, ...` that stand for the variables of whichever part was chosen
(`INSTANCE ... WITH`): its behaviours are the union of those of its parts.

## 3. Modules

### The gateway

**GatewayRooms.** State: `members` (the database), `rooms`, `dataUser`, `leaving` (Socket.IO and its adapter),
`hasState`, `subscribed` (the process), `handler` and `removal` (what is in flight). A subscribe is `Start`, `Check` (the
membership answer, taken from the rows of that moment; a failing call denies DM channels and grants `user:{id}`) and
`SubscribeJoin`. A resume is the same up to `ResumeBegin`, then `ResumeNext` per channel, as its loop awaits the replay of
each channel between two joins. `RemoveMember` deletes the row; `RevokeFetch` enumerates the room on whichever replica
gets the call, `RevokeLeave` makes the enumerated sockets leave, at once on its own replica and by a message
(`RemoteLeave`) elsewhere, and cleans `subscribedChannels` on its own replica only. `RevokeLost` and `RevokeFetchFails`
are the failures. `slipped` records the room entries of non-members that no eviction in flight will undo:
`StaleEntryAccounted` says nothing else ever leaves a non-member in a room. The leaks are exactly a join on an answer
that a complete eviction overtook, a join between the enumeration and the leave, and an eviction call that failed.

**RoomRequests** adds what the client has asked for last (`asked`), over one replica, and says that it ends in those rooms
and no other (`RequestsMet`); `overtaken` and `missed` name the two races that remain: an unsubscribe that overtakes a
subscribe in flight, and an eviction that hits a member who was added back.

**ChannelPermits** is the abstract promise of a room: nobody listens but on a permit that was issued while its user was
allowed to, a permit is for one request, and it does not stay around. `RoomsOnPermit` (in `GatewayRooms`) is
`ChannelPermits!Spec` under the mapping: allowed is the membership of the database, a permit is what a handler in flight
was granted, listening is being in the Socket.IO room; a failed or lost eviction is a stuttering step.

**GatewayPresence.** One user, any number of sockets, and an observer who shares a DM. `object` holds the fields of the
state object made while a socket was open and of the one a handler makes if it finds none afterwards ("orphan"), because
handlers keep the object they hold when the disconnect drops the entry. `WriteKey` models the pipeline of `hset` and
`expire`, which may be applied in part. `seen` is what the observer was sent last.

**EventReplay.** One channel and one client. `publish` is `PublishStore` (XADD with approximate trimming) and
`PublishFanOut` or `PublishFails`. On connect the client subscribes and resumes, in two calls the gateway decides apart:
`SubscribeJoin`, `SubscribeLimited` (rate limit) or `SubscribeDenied` (the check fails closed), `ResumeJoin` or
`ResumeRefused` (either reason: no replay), then `ResumeFind` (the bounded scan), `ResumeRange` (the XRANGE with its
limit, from the start of the stream if the cursor was not found) or `ResumeReadFails`, and `ResumeEmit`. The cursor
follows the messages received, and goes with a channel that was denied (`ReceiveDenied`) until a page asks for it again
(`Subscribe`). Events of the types that are not stored are `ReceiveTransient`: their id is no entry of the stream.
`have` is a set, as the listeners deduplicate by id. A client that unsubscribes gives its claim up and is left out.

**SessionRevocation.** One user, any number of devices, time in ticks. `validateSession` is `Event` (reads the cache),
`Verify` or `VerifyThrows` (fallback), `Check` or `CheckFails`, `Admit` or `Reject`. Any number of revocations are
in flight at once: `RevokeCall` (the before hook), `RevokeStamp` (the cutoff is taken before the SET is awaited),
`RevokePersist` (the SET, whatever is stored), `RevokeFetch`, `RevokeDrop`, and `Invalidate` (the endpoint behind the
hook, which does not wait for a gateway it has given up on). Two that overlap on two replicas may store the older cutoff last (`overtaken`). All processes read one clock.
`MaxDelay` bounds the time one call of `validateSession` takes.

**Typing.** Two tabs of one user and a watcher. `timer` and `idle` are the hook's and `useGateway`'s timers, `entry` the
gateway's, `expiry` the watcher's; `sent` holds the messages of a tab whose handlers await the session check, so that they
may be handled out of order. A message that `Emit` loses
was dropped by the transport, by the rate limit, or with a refused session.

**SignalServer.** The process (`proc`), `gracefulShutdown` for each of its two signals (`shutdown`), the clients with a
socket, and per request what its caller knows (`asked`), where its handler is (`step`) and what it has done (`effect`).
An endpoint keeps something first (`Store`: the event, the cutoff) and tells the sockets then (`Send`). `Fail` is a call
to Redis that fails before or after it was applied: 503 for a cutoff, which the handler catches itself, success for the
tell-tale of a removed member, which it swallows, 500 elsewhere, as for a body that is not JSON.
The environment (production or not, which variables are set, whether the caller has the same secret) is chosen at the
start. `close()` calls back only when the last connection is gone, upgraded ones included, so `Closed` waits for the
clients to leave, and a caller that gave up no longer holds a connection.

### Messages

**Conversations.** Every route of `api/friends` and `api/dm/channels`, cut where a handler awaits the
outside world: a send between its checks and the insert (it awaits the body), adding a member likewise, removing one
between the delete and the log entry (it awaits the gateway), and what is passed to `after()`. The unique keys of the
tables are guards of the inserts. `log` is the membership log in the order in which it is read, by `created_at`: a signed
entry is stored under the timestamp of the device, which may be five minutes off, so `Slots` puts it anywhere, and an
unsigned one only after all unsigned ones. `overlap` and `graced` name changes that ran into each other, `misdated` the
members whose newest change is not the last one the log shows. A message can be shown by a page, which marks the channel
as read if that write succeeds, or by itself (`ReadMessage`), which marks nothing; `unmarked` has what only such responses
showed.

**DmTimeline.** One channel, one tab, against the table: `fetch` is the set of requests in flight (newest page, older
page, resync, single message), each with the rows the server has read; `inbox` the live events; `outbox` the sends;
`toggle` a reaction on its way. What the tab was not told of is in `lost`: an event published before it had a cursor, a
failed fetch, the same user's other device, and what lies between the list and an older message whose event comes late
(`Between`). The last needs three messages: a page reaches back to the newest one only, the event of the oldest is still
on its way and puts it below the page, and nothing asks for the one in between if its own event is skipped.

**OlmKeys** and **OlmSessions.** The first has the server's keys with their claims, the account in IndexedDB and the wrap
key that seals it. Two tabs, or two operations in one, set it up, top it up or open messages: each looks for the wrap key
(`GetKey`) and stores one if it found none (`PutKey`), then loads, changes and saves the account under the key it holds
(`held`), with awaits in between; every message that is opened saves the account, also one that used no key. An account
under another wrap key cannot be read, and any step may fail (`Stop`). The second has a ratchet as the index of the next message to send and
the set of the peer's indexes already opened, loaded and saved by sends and by overlapping decrypt runs. The cryptography
is external: a signature is who made it, and an index opens once.

**Attachments.** The composer (`box`), the send in progress (`job`), and per upload the file on disk, its row and its age.
Each of upload, post and attach may fail or succeed without the page learning of it; `Purge` removes the file and marks
the row in two steps; a download renews a row within its window.

**LocalSearch** and **MessageSearch.** The index as documents and postings with its cap, fed by decrypt runs and emptied by
deletions; and the FTS5 table with its triggers, the route (membership, rows, block list) and the dialog that aborts a
request when the text changes.

### The pages

**Notifications.** The rows, their events on the wire in any order, and two surfaces that list them (bell and page) beside
one counter; `why` collects the disturbances that excuse a difference.

**CallRing.** One page per member of a channel, its ring and toast with their timers, and the signals as sequences that may
lose, and swap, elements. **CallRoom.** The call view of one page: each run of its effect has a `pc` along the awaits from
the token to the camera; `joined`, `mic`, `cam` are what each run holds; tiles, tracks and graphs are what is shown and
heard. LiveKit is external: it tells a page in the room of the tracks of the others.

**TabPresence.** `others[t][u]` is what tab t knows of tab u, `queue` the messages between them, `sent` the aggregate a tab
has sent to the gateway. **ConnectionStatus.** The store of the page, the grace and retry timers of a mounted banner, and
the socket. **StatusChoice.** The row with its heartbeat, requests of three pages, what each page holds and shows, and the
two statements of the sweep. **MediaPicker.** Two searches and their feeds with the request each has in flight, the pause
before a search, and the caches of the routes.

**Preferences, Appearance, Avatar, Pins.** Several pages or devices that each hold a copy, the requests in flight, and the
row: which copy is stored last, and what a page that is open shows of it.

**NtfyTopic, PushDevices, PushFanout, OfflineCache.** The topic with its generations and the publishers that read it; the
subscription of a browser, its rotation by the worker, and the sends that delete a row whose endpoint is gone; the reads
of `sendPushToChannel` one after the other, while memberships, quiet hours and preferences change; and the caches and the
badge of a browser in which people take turns. Two are wider than today's callers: the one route that notifies a channel
names nobody as mentioned, and the worker's rule for `GET /api/dm/channels/*/messages` meets a route that only has a `POST`, so
that `api` stays empty until one answers.

### Accounts and data

**Registration, SignIn, StepUp, Connections.** See their comments: each cuts a hook or a route at its awaits. `SignIn`
folds the password comparison, the second factor and the other ways to a session into attempts of several clients;
`risk.ts` becomes a score of a place against the last one let in. Better Auth asks for the code in an after hook, when the
password has created a session already: the risk is judged there and recorded, and judged again when the code is right,
against the baseline that the password has moved. Enabling and disabling the second factor renew the session, through the
same check. `refused` has the places that were refused, each with what the account had then.

**Migration.** The operator's scripts as one machine that can be killed at any step; a row is the number of the write it
comes from; the application goes on writing meanwhile. `left` records an import that left its target behind: killed, not
able to remove it, or failed before the clause that does.

**RateLimit.** One key (a user and an action, or an action of a socket) whose window is kept in the memory of the web app,
in Redis or in the gateway; which one is fixed at the start (`mode`). A check in memory is one step; in Redis a caller
reads the clock once the shared connection is there (`Begin`, `Connected`), and the script runs up to `MaxDelay` later, in
any order. `granted` counts who was let in, and is independent of the stamps the code keeps.

## 4. Runs

| Run | Module | Result | What it shows |
|---|---|---|---|
| `rooms_safety` | GatewayRooms | pass | `TypeOK`, `InRoomIdentified`, `StaleEntryAccounted` with two replicas and failing calls |
| `rooms_single_replica` | RoomRequests | pass | `GuardImpliesRoom`, `RequestsMet`, `RemovalTakesEffect` (liveness) and `RoomsOnPermit` (refinement) with subscribe and resume of a socket in flight together |
| `presence_races` | GatewayPresence | pass | `InvisibleNeverAnnounced`, `GhostExplained`, `OrphanKeyReaped` (liveness) on one connection with every failure on |
| `presence_settled` | GatewayPresence | pass | `PresenceSettled` with two connections |
| `presence_client_init` | GatewayPresence | violation | `InvisibleNeverAnnounced` with the status the client really sends |
| `replay_faults` | EventReplay | pass | `HolesAccounted`, `EventuallyDelivered` (liveness) with trimming, limits, reordering and failures |
| `revocation_safety` | SessionRevocation | pass | `TypeOK`, `RevokedNeverAdmitted`, `ExpiredTokenLapses`, `RevocationDisconnects` (liveness) with two revocations in flight and every failure on |
| `conversations` | Conversations | pass | `FriendsConsistent`, `OneDirectChannel`, `LogTellsMembers`, `UnreadTracksSeen`, `StaleSendExplained` over three users and two channels |
| `dm_page` | MCDmPage | pass | `KeysAccounted`, `RatchetAccounted`, `SendsAccounted`, `ListExplained`, `SearchTrue` |
| `dm_sent_readable` | OlmSessions | violation | `StaysReadable`: a message opened once is undecryptable after a reload |
| `services` | MCServices | pass | `InboxAgrees`, `GatewayAgrees` (typing, signal server), `CallsAgree` (ring, room) |
| `accounts` | MCAccounts | pass | `AdmissionsAccounted`, `GuessesBounded`, `RefusalHolds`, `ProofsAccounted`, `LinkedByStarter`, `SettingsKept`, `ProfileKept`, `DeliveriesKept`, `PagesAgree`, `MigrationAccounted` |

A property of a composite run is a conjunction of the properties of its parts, which are stated and explained in the
parts' modules.

### Bounds, and why they are enough

- *Rooms.* One user suffices because no guard relates two users, and the theorems drop the restriction. Two sockets on two
  replicas are needed for the remote leave and for enumerations that see one socket and miss the other. `MaxInFlight` is 1
  in the two-replica run (one handler against a removal, in every order) and 2 in the single-replica run.
- *Presence.* `presence_races` has one socket, all failures and all orders of its four handlers and its disconnect.
  `presence_settled` has two, as the sockets of a user meet in the count of the disconnect handler; its constant
  `CalmDisconnect` lets sockets come and go only while no handler is in flight, without which the property is false
  (section 7).
- *Replay.* Three events with a stream length, scan window and batch limit of two: a trimmed cursor, a cursor outside the
  window, a full batch and a cut one all occur, over two lost connections, each with a refused resume or a subscribe
  that is denied or limited. `MayRefuse` allows those.
- *Revocation.* Two revocations, one device, a token of 2 ticks, a cutoff of 5 and a clock of 6: long enough for a token
  to be minted, cached, revoked, for its cutoff to expire and for its fallback to be tried after that, and for a cutoff to
  be overtaken and a token between the two to be let in.
- *Conversations.* Three users (a block between two of a group of three), two channels (a second one of the same pair) and
  two messages in pages of one, so that an older page exists; `MaxOps` bounds the awaiting handlers and pending `after()`
  calls.
- *Page.* Two tabs with three key pairs, two accounts and two wrap keys (a race of either kind, and a top-up after it), two
  decrypt runs, two messages and a page size of one (so that pages differ), two files, two
  reconnections; an index of at most two documents so that the cap is met, two texts of which one has the words of the
  other, words of which one begins another, and one change of a table under a search in flight. Two messages do not reach
  what `Between` records; with three the state space of two reconnections is too large for a run, and `ListHolds` covers
  any number. Files age between sends
  only (`Explored`): a file that decays under a send in progress is not followed further.
- *Services.* Two notifications and one operation, with at most two events in flight and two disturbances, as either
  property excuses what a third could add; two tabs with two messages in flight, three callers of whom two make a couple
  (a direct and a group call), one lost or swapped signal, one other participant of a call over two effect runs; two
  requests, of each kind, and one client at the server. `Explored` leaves out states of the inbox about which neither
  property says anything any more. What the server does not read outside production is fixed there.
- *Accounts.* Two of whatever races (sign-ups, clients, browsers, pages, devices, tabs, publishers), one sweep, and one
  more request than is needed for an overtaking. An account signs in once at the browser of `PushDevices`, where the
  other account comes and goes in between. A limit of two in windows of two and four ticks, the longer one outliving what
  the cleanup takes for old (two), on a clock that passes both.

`CHECK_DEADLOCK FALSE` is set where a system may stop: sockets, messages, files and requests that are used once, and time
or changes that are bounded.

### Fairness

Weak fairness on the continuation of every gateway handler in flight (the event loop runs a continuation whose await is
over; `fetch`, `fetchSockets` and Redis calls come back or time out), on delivery over an open connection and by the
adapter, on Redis expiry and the periodic sweep, and on the client's reconnection after a lost transport, which
socket.io-client retries without end. It is stated handler by handler, so that a busy handler cannot starve another one.
A failing call satisfies the fairness of the call it replaces. Nothing is assumed of users, publishers, or of a
reconnection after a disconnect by the server. The pages and routes are checked for safety "once nothing is in flight",
which needs no fairness.

## 5. Proofs

Eight modules hold theorems (`SessionRevocation` its own, each of the others those of another module), checked for every
value of the constants. An assumption on a constant is either named in the module that declares it, and then evaluated by
every run that extends the module, or a hypothesis of the theorem.

| Module | Theorems | For any |
|---|---|---|
| `GatewayRoomsProofs` | `RoomsTypeCorrect`, `RoomsIdentified`, `RoomsAccounted`, `RoomsGuard`, `RequestsAreMet` (`RequestsMet`), `GatewayImplementsPermits` (the safety part of `RoomsOnPermit`) | users, channels, sockets, replicas, handlers in flight |
| `GatewayPresenceProofs` | `PresenceTypes`, `SocketsWired`, `InvisibleHidden`, `GhostsExplained`, `AnnouncementsSettle` | sockets |
| `EventReplayProofs` | `HolesAreAccounted` | events, stream length, scan window, batch, lost connections |
| `SessionRevocation` | `RevocationTypeCorrect`, `RevokedTokensRejected`, `ExpiredTokensLapse` | devices, revocations, ticks, lifetimes |
| `ConversationsProofs` | `FriendsStayConsistent`, `ConversationTypes`, `DirectChannelsUnique`, `LogAgrees`, `UnreadAgrees`, `StaleSendsExplained` (an action property) | users, channels, messages, requests |
| `AccountsProofs` | `Admissions`, `LockoutBounds`, `RefusalsHold` (an action property), `StepUpAccounted`, `ConnectionsByStarter`, `ProfileStays`, `SettingsHold`, `DeliveriesHold`, `PagesHold`, `MigrationHolds` | people, clients, browsers, codes and uses, flows, proofs; callers, limits, windows; pages, pictures, pins; settings, devices; endpoints, topics, changes; cached requests, tabs, searches; writes, scripts |
| `DmPageProofs` | `RatchetAgrees`, `KeysAgree`, `SendsHold`, `SearchHolds`, `ListHolds` | runs, messages; tabs, batches, stock, identities; texts, files, uploads, posts; words, documents, queries, results; messages, page size, faults |
| `ServicesProofs` | `GatewayHolds`, `CallsHold` | tabs, messages in flight, requests, clients; members, signals in flight, peers, runs of the effect |

`AccountsProofs`, `DmPageProofs` and `ServicesProofs` are about `MCAccounts`, `MCDmPage` and `MCServices`, whose parts
share no state. Each part has an inductive invariant, proved under the names of its own variables; a step of the whole is
one of the part that was chosen (`PartsStep`), so that the theorems speak of the very properties that the runs `accounts`,
`dm_page` and `services` check.

### The inductive invariants

None of the properties is inductive by itself; each invariant adds what is in flight. They were model-checked on
instances like those of the runs before they were proved.

- *Rooms.* `RoomsInv`. `LoopingReady`: a resume in its channel loop runs on an identified socket with an entry, or on a
  closed one, so that its later joins keep `InRoomIdentified`. `GuardInv`: an enumeration in flight holds only sockets of
  the user being removed and knows its replica, so that the sockets an eviction takes out of the room are among those
  whose `subscribedChannels` it cleans; and with one replica no leave is under way to another.
- *Requests.* `RequestsTracked` says at every moment what `RequestsMet` says of a socket at rest: a channel asked for and
  not missed is joined or still in a request, and the other way round.
- *Permits.* The rooms implement `ChannelPermits` from `TypeOK` alone: the mapping takes the permits from the handlers in
  flight, so that a join is a step of the abstract specification exactly because its guard reads the answer. The
  leads-to of `ChannelPermits` (a permit does not stay around) is left to TLC.
- *Presence.* `Wiring` (above) lets a step be judged from the socket it belongs to. `Honest`: a state object, and a
  status that a handler carries, is invisible exactly if the user is. `Answered`: if the observer was told "online", some
  open socket or disconnect handler is there to take it back. `Calm` is the converse for sockets that come and go between
  handlers: what an open socket should show has been announced or is about to be.
- *Replay.* `ReplayInv`: an event due is received, missed, on its way, in the batch of a resume, or beyond the cursor of
  a client that is away. It rests on the same for the past: what the cursor has passed (`CursorSafe`), what it will have
  passed after a message in flight (`NetSafe`), and what the cursor given to a resume had passed (`FromSafe`) is received,
  missed, on its way, or about to be overtaken by a later event. A client that was denied has no cursor to resume from, so
  what is due is received, missed or coming without one (`Unasked`).
- *Revocation.* `RevocationInv` is the bookkeeping of time. The cache entry of a socket and the one a handler read are no
  older than the token allows (validated before its expiry, give or take a call), a cutoff that is no longer in Redis was
  stored `RevocationTTL` ago, so a token older than it has expired for longer than the fallback can bridge. The cutoff
  that counts is the newest one stored, unless an older one is on record as stored after it.
- *Conversations.* `ConversationInv`: without an overlap on record at most one change of a member is outstanding, in a
  request or an `after()`, and the members already tell it (`OneChange`); whoever is on record as misdated has a signed
  entry in the log (`MisdatedSigned`); what a reader was shown in responses that left a mark is what the stored read
  state has passed (`ReadState`); what a send found out still holds, or a change is on record (`SendFresh`).
- *Accounts.* `StepUpInv`: a proof that somebody is through the gate with has not been spent, and clicks that ask at once
  are on record. `SignInInv`: a client between the read of the counter and its write accounts for one guess, so that the
  guesses are bounded by the limit and the clients. `RegistrationInv`: the uses taken from a code are the accounts made
  with it, the sign-ups past the hook that still hold one, and those that raced for an identity or were cut short.
  `ConnectionInv`: a state cookie names a flow of its own browser.
- *Limits.* `LimitInv` compares, for every width of a suffix of time, the stamps that are kept with those that were let
  in, which the code does not know. `GrantsKept`: as long as nothing was forgotten or merged, whoever was let in since a
  moment is among the stamps kept since that moment, less the delay of a script, whose clock may be that old. Since at
  most `Limit` stamps are kept (`Timely`), no window lets in more (`WindowHeld`). `KeptGranted`: as long as every count
  was answered, what is kept since a moment was let in since then, as a stamp is never later than the check; so a full set
  means that the limit was reached (`RefusalsJust`). Both need every moment, not just the beginning of the window of now:
  a script may look back from an earlier time than the one before it.
- *Profile.* `PictureInv`: as long as nothing has gone wrong one page at most is uploading, and what it has written is
  there until its address is in the row. `PinInv`: a page that has
  counted still has room, unless another one has inserted since and it is on record as overlapping, and the pins, with
  those such pages have yet to insert, are over the limit by one for each of them at most (`Room`); what a page lists, with
  the answer that is under way to it, is what is pinned (`Listed`); an item is inserted once (`OnceInserted`), so that an
  answer that comes late cannot bring one back.
- *Deliveries.* `DeviceInv`: while pages have asked for pushes, none has failed and the worker is at rest, the endpoint
  either has its row or a run is on its way to make it, for the account signed in (`Provided`); the worker's DELETE calls
  are for endpoints that are gone, so that a late one cannot take the row away. `TopicInv`: what a page shows, or is to
  show with the answer under way, is what the row holds, but for the changes on record as missed; a request was answered
  from a topic that has been there. `FanOutInv`: who is left to a send has passed the reads behind it, and who has been
  entitled all along is still left or has got it; the test of quiet hours is right at every minute of the day, also when
  they pass midnight (`QuietAsAsked`).
- *Settings.* `PreferenceInv`: what is stored is what the request stored last had (`StoredLast`); every request made since
  a setting was changed last carries that value, or is of a page that had not seen it (`Carried`); a page shows the last
  value of what it has neither touched nor missed (`PageKnows`). `AppearanceInv` is the same for the look of a device,
  which a debounce sends (`ColumnLast`, `Timers`): among the requests, those that carry the last choice come after all
  others but the ones on record as sent without knowing it (`CarriersCarry`), and until there is one a device has a timer
  for it (`ToSend`).
- *Pages.* `CacheInv` follows an entry from the moment the login page asks for the caches to be cleared until that account
  is gone (`ClearedSince`), and a badge from the page that counted it (`BadgeTold`). `TabInv`: the last message from a tab
  to another one is the status it has, or its farewell (`LastWord`); and a tab with nothing to hear from another one knows
  its status, or is unknown to it and has a message on its way that will be replied to (`Abreast`), so that tabs with empty
  channels agree. `BannerInv`, `ChoiceInv`, `PickerInv`: what is shown is what the last event said, or a request, a timer
  or an event is outstanding that will say it.
- *Migration.* `MoveInv`: what the export has dumped is what its one transaction read, so that every row of it is of a
  write the snapshot saw and of the last such write if that is still live (`Fits`); a target holds the tables loaded so
  far, no credentials, and belongs to the script that loads it, unless an import left it (`Loading`); what a pipeline has
  loaded fits its snapshot to the end and afterwards, whatever the application writes meanwhile (`Moving`); the secrets of
  a kind are absent before their turn, unless they are imported again (`Turns`).
- *Sessions.* `SessionInv`: an index that the session has seen was opened by a message that is on record, two runs that
  have the same message in hand overlap on record, and the next index to send is ahead of every index sent, unless a save
  was torn.
- *Keys.* `KeyInv`: a key pair is of one key, which is with one tab or in one stock (`PairsApart`); a key given out keeps
  its row, so that neither a top-up nor a request sent again brings it back (`RowsKept`); an account under way to its
  registration is served nowhere (`SettingUp`); at the device id of the moment there is one account, or two tabs are on
  record (`OneAccount`); a private key stays while its public key is with a tab or on offer, or is lost to a save from
  another tab (`PrivateKept`). `Sealed`: a tab that is past its wrap key has one, and at the device id of the moment it is
  the stored one, which also seals the account, or two tabs are on record. A private key that is removed because it has been used does not count as lost: only its
  row, which is marked, still names it. The conjuncts of `KeysAccounted` follow from them one by one.
- *Attachments.* `AttachmentInv`. `Sending`: what a send has taken is no longer in the composer, except for the files of a
  command; a send that attaches has posted the message of its file. `EnteredOnce` and `SentAgain` add that a file which is
  no longer left to a send has been posted, and that whatever is to be sent and has been posted was in a send that failed:
  only then does a new send not post something twice unnoticed. `Stored`: the row of an upload comes once, in time or late,
  and its file goes only if there was no row when the clean-up looked, or with the row; the decay job holds rows that are
  past their expiry and stay so (`Holding`), as a download renews only those that are not.
- *Searches.* `IndexInv`: the tracker holds what the page has and can read, all of which is in the index but for what the
  cap or an answer to another page has taken out (`IndexFed`), and no word leads anywhere else (`WellIndexed`). The effect
  adds messages in a fold (`AddedAll`), which `AllAdded` follows to the end: the function that the fold is exists
  (`FoldFound`), and no first message can break the postings or the cap; both arguments take the smallest counterexample.
  `AllNewest`: a search that is below its limit has left nothing out. `AnswerInv`: an answer tells the truth from the
  moment it is read, wherever it is: in the route before and after blocked senders are left out, in the browser's cache, in
  the dialog (`AnswersTell`).
- *The list of messages.* `TimelineInv`. The property speaks of the moment when nothing is on its way; the invariant says
  of any other one what is. `NoHoles`: whatever is newer than a message that is on screen, in an answer of several rows or
  about to be shown by a send is deleted, on screen, on record as lost, in an answer, or has an event or a send that will
  bring it (`Accounted`). `InTime`: every answer is in order, an older page lies before the list, and the list is in order
  but for what this tab sent, until another answer comes before the older page does. `ReactionsTrue`, for each user and
  message: an event on its way tells what the table has, what is on screen without one is what the table has, and the
  request in flight is for the opposite. Pages, the merge and the deletion are `Ordered` sets, whose order and members
  `InOrder`, `KeptPicks`, `SortedPicks` and `NewestFirst` establish once. Looking for this invariant showed that the
  property needed `Between`, which two messages do not show.
- *Signal server.* `ServerInv`: how far a handler is says what it has done, and an answer is given in the step that
  does the last of it; once a shutdown drains nobody is connected or waits.
- *Typing.* `TypingInv` looks at the last message on its way from a tab: while its timer runs that is a start, and
  afterwards an end, unless one was masked or overtaken on record (`TabInv`); and the last one on its way to the watcher is
  what the server has (`WatchInv`).
- *Rings.* `RingInv`. Two properties hold only when no signal is in flight; the invariant says what the signals will make of
  it. While a ring is on, a page that has not answered shows it or has its invite coming, and no cancel (`RingKnown`). When
  it is over, every invite still on its way has the cancel behind it (`EndKnown`): signals of one sender are taken in
  order, unless an overtaking is on record. Whoever sits in a call alone has an accept on its way to a ring that is on
  (`Awaited`).
- *Calls.* `RoomInv`: the room and the devices belong to the run on the screen, and the refs name them, so that the cleanup
  leaves nothing (`MediaHeld`); what that run has published follows from the await it is in (`RunHeld`), and the mute
  button agrees with the track or was pressed without one (`MuteHeld`). A graph that is not live under a voice has lost its
  track (`PeerHeld`).

### Assumptions

- `TokenLifetime + FallbackAge + 2 * MaxDelay <= RevocationTTL` (`RevocationAssumption`): with the code's values (15 min,
  15 s, 20 min) it leaves more than two minutes for one call of `validateSession`.
- `HonestInit` for `InvisibleHidden` and `AnnouncementsSettle`: what `gateway:init` carries is what the user chose. The
  client does not keep it, which is what the run `presence_client_init` shows. `AnnouncementsSettle` also takes
  `CalmDisconnect`, no refused check and no failing count, without which it is false (section 7); writes to Redis may fail.
- `LimitNumbers` for `LockoutBounds` and `RefusalsHold`: the limit of `RateLimit` is a positive number, and windows, the
  age for its cleanup, the delay of a script and the bound on the clock are numbers. Nothing relates them.
- Finitely many users (`ConversationAssumption`), clients and pages, as members, guesses and overlaps are counted; a
  limit, a number of uses, of pins, of writes, of messages, of identities and the size of a batch are natural numbers;
  there is at least one client, and one identity.
- A day has at least one minute (`Day` in `DeliveriesHold`).
- The marks `"none"` and `"founder"`, which stand for no button and no code, are not themselves buttons or codes; nor is
  `"none"` the value of a setting (`SettingsHold`), a search (`PagesHold`, `SearchHolds`), a text or a file (`SendsHold`),
  or a member (`CallsHold`).
- Those who have a direct channel are among the members, and the runs of the effect are bounded by a number (`CallsHold`).
- What may be searched for in an encrypted channel are words (`Queries` of `SearchHolds`), the cap on its index is positive
  and the limit on results a natural number.
- No text is a file (`SendsHold`): what is posted is told apart by what it is.
- The size of a page is a natural number, and `"none"`, the message of no reaction request, is no message (`ListHolds`).

### Only model-checked

- All liveness: `RemovalTakesEffect`, `OrphanKeyReaped`, `EventuallyDelivered`, `RevocationDisconnects`, and what
  `RoomsOnPermit` says of permits in the end. Fairness and ENABLED are beyond the proof system's reach.
- `InboxAgrees`: it says what holds once nothing is in flight, its invariant would have to name everything that may be,
  and it is explored only as far as `Explored` says.
- `StaysReadable` is false (section 6).

## 6. What the violations show

Each is a disagreement between the code and a comment, quoted with its line in `PROJECT.json`.

1. `presence_client_init`: the client opens each connection with `gateway:init {status: "online"}`, so `statusKnown`,
   which exists to keep an assumed status from being announced, is set by an assumed status.
2. `dm_sent_readable`: the comment of `encryptOlmText` has sent messages stay readable from the other devices. Olm opens an
   index once and only the text of own messages is kept, so a message opened there is undecryptable after a reload.

## 7. Statements that are too strong

These were tried against the models, or read in a comment, and TLC or the code refutes them. They explain why the
properties are stated as they are; where a comment promises more, its line is given.

*Gateway.*

- An eviction cleans up everywhere: `subscribedChannels` of a socket on another replica keeps the channel
  (`gateway.ts:673`), and typing, call signals and presence look at it. Hence one process in `GuardImpliesRoom`.
- A removed member is out of the room: not if the membership answer was taken before the removal and used after the
  eviction, nor if the eviction call failed.
- A client is in the rooms it has asked for: an eviction that comes late hits a member who was added back.
- A client is in no other: an unsubscribe that overtakes a subscribe ends in the room.
- The user who is gone is seen offline: a handler in flight at the disconnect announces the object it holds afterwards.
  After a failing `fetchSockets` a user is announced offline while another tab is open, and there is no heartbeat.
- Events arrive if the connection is stable: not if PUBLISH order differs from XADD order for a client that is away in
  between, if a PUBLISH or a read fails (`event-bus.ts:181` returns an empty batch), if the cursor is not found
  (`event-bus.ts:165`, and always after an event that is not stored), if a live event moves the cursor past a gap whose
  replay is cut off by another loss or was refused (`gateway.ts:441`, or a check that failed closed while that of the
  subscribe did not), or if a denied subscribe makes the client drop its cursor (`use-gateway.ts:226`).
  `gapTooLarge` is filled only when `replay` throws, which it never does.
- The newest revocation holds: its cutoff is taken before the SET is awaited (`revocation.ts:54`), so that of two that
  overlap on two replicas the older one may be stored last, and a token minted between the two passes.
- A new session is let in: the issued-at claim is truncated to the second, the cutoff is not, so that a token minted in
  the second of a revocation is rejected. A signed-out device stays out: the gateway is revoked before the session is
  deleted (`better-auth.ts:430`), so that a page load in between mints a newer token. A disconnected device comes back by
  itself: socket.io-client does not reconnect after `disconnect(true)`, and nothing listens to `vortex:realtime-retry`.
- Whoever types is shown typing: the hook sends `true` on the first keystroke only, so `useGateway`'s stop timer fires
  after 3 s of continuous typing (`use-gateway.ts:283` says otherwise); one tab's stop or disconnect silences another tab;
  a watcher whose provider renders again keeps an indicator.
- Clients have 30 seconds to leave (`index.ts:547`): the notice and the limit come after `close()` has called back, which
  waits for every WebSocket, and nobody listens to `server-shutdown`. Without Redis the gateway is not initialised and
  events are answered 503. A handler whose caller has given up may be cut between storing an event and sending it. The
  endpoint takes at most 4096 bytes, and the web app publishes the text of a message with it: a long one is stored, and
  answered 413 here, so that open pages hear of it only when they fetch.

*Messages.*

- The log tells who is a member: two changes of a member overlap in their awaits, a failed entry is only logged, and a
  signed entry is put where the clock of the device says (`membership-log.ts:81`).
- What was shown is read, and what is read was shown: fetching an older page marks the channel read too, while a page
  whose mark fails (`channels/[channelId]/route.ts:256`) and a message fetched by itself leave it unread.
- The list is the table: a newest page read earlier replaces a list with newer entries; `loadMore` prepends to a list that
  was replaced; the page and the answer of a send both bring the message; events of the same user's other device are
  skipped.
- A key that is offered can be answered: two tabs save over each other's accounts, and set up two identities or two wrap
  keys at first use; the account is then sealed under a key that is gone. A ratchet index is used once: a save replaces a session it had not loaded.
- What is typed is kept: sending a slash command clears files picked meanwhile, and an older send that fails puts its text
  back over a newer one. A lost answer of an upload leaves a file that no job sees; the purge marks a row although removing
  the file failed; the attachment of a deleted message stays downloadable.
- The local index has what is on the page: at its cap it evicts the oldest, also when older history is what is loaded; a
  deletion answered to an earlier page leaves the message listed; a page read before a deletion brings the text back. The
  index is fed for encrypted channels only, and an exact match hides matches of its prefixes. `startLazyIndexing`,
  `stopLazyIndexing`, `addMessage` and `clearAll` are called by nothing.
- A search is up to date: emptying the text does not abort the request in flight, a failed answer keeps the list of
  before, the limit is applied before blocked senders are taken out, and the browser may answer from its cache.

*Pages.*

- The badge shows the unread rows: a dismissal in the bell and its event both count down, the notifications page and its
  events both count, an event that comes twice is counted twice, and an event before the first count is dropped by it.
- A timer belongs to its ring: another channel on screen clears the timers and not the ring (`dm-call.tsx`, around 166).
  Signals name no ring; leaving the page cancels nothing; an accept after the end leaves its sender alone in the call.
- "Couldn't connect" means nobody hears me: the camera may fail after the microphone is live. Muted means silent: muting
  before the track exists is not applied to it. A tile is somebody: a run that starts again carries tiles of those who
  have left, and graphs of tracks that have ended.
- Tabs know each other: the effect starts again with every render of the provider, forgets its peers, and they do not
  answer. A killed tab stays in the aggregate. No code elects the "leader tab" of the comments.
- The banner is right: it misses what happens while it is not mounted, an offline and online again under a connected socket
  leaves it, and nothing is shown if the first connection never succeeds.
- A chosen status lasts: only a choice in the popover writes a heartbeat, and nobody renews it, so the job takes it for gone
  after 90 s; the comment of the job speaks of those who "still heartbeat". The profile form writes the status it was
  opened with. The update of the job looks at the heartbeat again and not at the status. `status_expires_at` is written by
  no client, and the popover shows "Online" for a user the job has marked offline.
- Settings are what was chosen: a failed load shows defaults, which the next toggle stores; a failed save is not taken
  back; opening the page on a device that syncs sends that device's settings after 1.5 s.
- A picture that is named is there: two uploads of different types prune each other's file, and a save without a picture
  writes the address of before. More than the limit of pins is stored by two requests at once.
- A push goes to members: one who is removed after the members were read still gets it. The two reads of quiet hours and
  preferences let the push through when they fail. ntfy is published to a topic that was rotated after the read.
- The API cache is "scoped per-user" and "cleared on SW version bumps" (`sw.src.js:154`, `:159`): its key is the URL and its
  name never changes. Only the login page clears it. The badge of the previous account stays after a sign-out, and so does
  its push subscription.
- The media picker shows what is there: a failed provider is cached as an empty result, and results of the text before
  stay clickable during the pause.

*Accounts and data.*

- A reset unblocks a sign-in refused for its risk, as the message of `better-auth.ts:240` says: it does not, the risk is
  scored again against the same baseline. A second factor comes before the risk (`better-auth.ts:175`): a session is created,
  judged and recorded at the password, so that a password alone moves the baseline; a magic link, a passkey and the link
  of the verification mail ask for no code. One founder: several sign-ups may be past the hook before the first account is
  there. An invite's uses are its accounts: a sign-up that fails after the hook burns one.
- One change per proof: two changes that pass the gate together share it.
- Deleting a linked account unlinks it: the row of Better Auth stays. Either user may delete any row between two users, a
  block by the other one included.
- A limit holds for its window: the web app's own cleanup takes what is older than a minute for old
  (`rate-limit.ts:124`), so that without Redis a limit of one per day (`api/users/export/route.ts:32`) or per hour is
  forgotten within minutes, as it is by a restart. In Redis, two stamps of one millisecond may be one, and a script that
  runs late shortens the window by its delay; a check whose answer is lost still counts. An infrastructure failure lets
  nobody through, `failClosed` or not, though `rate-limit.ts:147` has it that it does: without it the route fails.
- An import that failed can be run again: one that was killed, whose clean-up fails (`import.ts:149` ignores that) or that
  fails before its `try` (`import.ts:117`) leaves a file that blocks the next. A table without a dump is
  reported: only a missing file is, an empty one is loaded as an empty table. Importing the secrets twice duplicates
  accounts.

## 8. Not modelled

- *Outboxes*: `lib/chat-outbox.ts` and `stores/message-outbox.ts` are imported by nothing but their tests; nor is
  `appearance-tab.tsx`.
- *What a push looks like*: the notification of the service worker, its click, and the update toast.
- *Editing a message, themes of a channel, reports*: single rows written by single statements.
- *Composer helpers and rendering*: functions of the text on screen, without state that anyone else sees.
- *Cryptography, LiveKit, the media pipeline, mail, GIF providers, the ntfy server*: external, modelled by how the code uses
  them.
- *Clock skew* between the web app and the gateway, which compare an issued-at claim with a cutoff.

## 9. Plan

1. Proofs: `InboxAgrees` of `Notifications`, from an invariant like that of `DmTimeline`.
2. Models: what the service worker shows of a push, and the lists of friends and conversations as they follow events.
