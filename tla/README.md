# A TLA+ model of the OSRS guild map

This directory models the guild map: a Rust backend (`src/server`) that mirrors what
osrs-data-hub shares into a Postgres table, and a JavaScript site (`src/site`) that follows
that table. TLC checks the modules on small instances, TLAPS proves the safety properties
that matter most for every value of the constants.

Run, in this directory: `tlc -config hub_sync_follows.cfg MCHubSync` (and likewise for the
other runs, listed with what they check in `PROJECT.json`), `tlapm HubSyncProofs.tla`.

## 1. The system

```
hub --/snapshot--> sync --channel--> batcher --UPDATE--> members table --/api/members--> page
 |                  |  \--bind, rename, mark orphans----------^                          |
 |                  +--> directory  <-- admin handlers -------^                    pages, map
 +--/events,/xp,/locations,...--> client budget --> cache, follower --> handlers --------^
```

| Part | Source | State | Operations | Hard about it |
| --- | --- | --- | --- | --- |
| hub sync | `hub/sync.rs`, `db/hub.rs` | `known` per account, `since`, `last_full`; rows of `guildmap.members` | poll (full or since), resolve, bind, rename, mark orphans, forget | awaits between its statements, during which admin handlers run; failures that skip an account or end a poll; restarts |
| directory | `hub/directory.rs` | id to name, name to id, hidden ids, hiscores ids | load, bind, remove, set flags | two maps that must stay inverse |
| admin handlers | `admin_routes.rs` | none of their own | delete, hide, show | run on other threads; reach the sync only by a name left for its next poll |
| conversion and batcher | `hub/convert.rs`, `update_batcher.rs` | sections last sent, channel, buffer, chunks | compare, send, merge, write | bounded channel, merging, concurrent chunks, lost chunks |
| members answer | `db/members.rs`, `authed.rs` | none; reads the table | roster and what changed since a cursor | stamps set when a statement starts, visible when it commits |
| site member store | `guild-data.js`, `member-data.js`, `api.js`, `utility.js` | members, `nextCheck`, polls in flight | poll, merge, ask for a full reload | late answers, members that leave, return and change name |
| hub client | `hub/client.rs` | times of sent requests, `blocked_until` | acquire, block, set the budget | two priorities on one window |
| hub cache | `hub/cache.rs`, `hub/fetch.rs` | entries, in-flight locks | get or fetch | one upstream call per key, stale answers, cancelled requests |
| events feed | `hub/events.rs`, `live-events.js`, `pubsub.js`, `event-feed.js` | ring buffer and sequence; the page's newest number and list; lists on the page | follow, query, poll, publish, mount | two locks for one answer, restarts, a first poll that overlaps the interval's |
| sessions | `hub/members.rs`, `db/sessions.rs`, `discord_routes.rs`, `auth_*.rs` | sessions table; the pool's connections | sign in, sweep, log out, look up | sign-in racing the sweep, a sweep that stops at the first failure, two connections for one request |
| skill history | `db/skills.rs`, `skill-graph.js` | samples per bucket, the last aggregation | aggregate, retain, draw | what was had before the first sample of a graph |
| the page's life | `app-initializer.js`, `router.js`, `session.js`, `wrap-routes.js`, `login-page.js`, ... | route, section, who is signed in, polls, loading screen | visit, load, sign in and out, poll | answers that come after the section they were for has gone |
| map page | `map-page.js`, `trail-sessions.js`, `selection.js` | trails switched on, picked session, three kinds of request | load trails, sessions, trail events; pick, switch | requests overtake each other and must stay of one time |
| map view | `canvas-map.js`, `animation.js` | camera, followed player, tiles, hover, the frame asked for | frames, drags, selection, members' updates | nothing is drawn unless somebody asks |
| trails, replay | `trail-model.js`, `trail-layer.js`, `replay-clock.js`, `trail-scrubber.js` | points seen, history, clock | observe, merge, tick, seek | three sources that lag behind each other; a trail that changes under a replay |
| event markers | `event-layer.js`, `event-markers.js`, `event-places.js`, `event-view.js` | markers, places remembered, rings | add, place, expire, filter | the place of an event is its player's, known later or gone |
| lists and profile | `player-roster.js`, `players-page.js`, `player-profile*.js`, `member-data.js` | rows drawn, tab, requests | patch, sort, open, load | drawn once and patched from topics |
| charts | `skills-graphs.js`, `clan-page.js` | choices, calls, what is drawn | choose, load, fail | calls that overtake each other |
| gear trips, toasts | `gear-trips.js`, `event-toasts.js` | a log; toasts and timers | group; show, hold, dismiss | boundaries; timers |
| trails, XP, boards, profiles of the hub | `hub/trails.rs`, `hub/xp.rs`, `hub/leaderboards.rs`, `hub/profile.rs` | cached answers | ask, page, reshape | paging |
| drawing, geometry, formatting | the rest of `src/site/src` | none that lasts | draw | nothing that is not sequential |

What makes each part correct:

- **sync**: one row per account, under the name the hub gives it; rows keep their account; what
  it remembers is what the table says; an account an admin hid is left alone; after a failure
  or a restart the map catches up.
- **directory**: lookups by name and by id agree; nobody is found under a name they gave up;
  what was made private is not answered.
- **conversion and batcher**: every change arrives or a statement failed; no column goes back.
- **members answer and page**: the page misses no change, shows who is on the map and only
  them, and does not ask for everything over and over.
- **client and cache**: at most one call per key; the sync always has its share of the budget.
- **events**: no event twice, none old as news, the newest in order on the page's list, also after a
  restart of the backend; the code lets some by (section 5), and no others may be missing.
- **sessions**: nobody's turn to be asked about is taken by others again and again; requests
  never wait for each other's connections.
- **skill history**: a graph shows at each time what the player had, as near as samples and time zones
  let it, and gains add up.
- **the page**: it polls while a section is loaded and shown, and never else; the trails drawn are
  those switched on, of the time the menu says; what changes on the map is drawn; a replay goes on
  to its end, stopping at what happens; a chart is the chart of the choice made last; a list shows
  what the store has.

`PROJECT.json` lists every component with its status, and every hazard with its line and the
properties that cover it.

## 2. The modules

### HubDirectory
The directory is a record of two functions and two sets; `Bind`, `RemoveMember`, `SetHidden`
and `SetSharesHiscores` are the methods of `hub/directory.rs`, each one critical section of
its lock. Names are taken case-folded: the code lower-cases keys and the table compares
names without case.

### HubSync (with HubDirectory)
The poll loop, the statements it issues, the directory and the admin handlers. A step is what
runs between two awaits, so an admin's statement can fall between any two statements of the
sync.

| Variable | Code |
| --- | --- |
| `hubName`, `shared`, `scores` | the hub: names, accounts the key may read, accounts with the category `hiscores` |
| `fresh`, `taken` | what a read with `since` would return; what the read under way has taken of it |
| `rows` | `guildmap.members`: name to hub id, account hash, hidden, `hub_orphaned_at` set or not |
| `dir`, `known`, `forgotten` | the directory; `HubSync.known`; `SyncControl` |
| `fullDue`, `pc`, `full`, `snapshot`, `todo`, `cur`, `found` | the poll loop and its locals |
| `requests` | admin requests whose statement has run and whose in-memory part has not |

| Action | Code |
| --- | --- |
| `PollStart`, `Fetch`, `PollFails` | `apply_control` and the start of `poll_once`; the hub's answer; the request or the connection failed |
| `TakeAccount`, `BindAccount` | `process_account` up to the look-ups of `resolve_member`; the bind, `known` and the directory |
| `SettleAccount`, `FollowRename`, `RenameKnown` | hidden or not, hiscores, a changed name; `follow_rename`; what follows it |
| `SkipAccount` | the account's error path in `process` |
| `FinishPoll`, `FinishFails` | after the last account: trim `known`, `mark_hub_orphans`; one of its three statements fails |
| `AdminStatement`, `AdminForget` | the two halves of `delete_player` and `set_player_hidden` |
| `HubRename`, `HubShare`, `HubNewData`, `RefreshDue`, `Restart` | the environment, the clock, a restart |

Left out: the data of an account (UpdatePipeline), presence, the status record, ETags (a 304 to a
`since` read is an empty snapshot). Assumed: a statement that fails has no effect; a handler's in-memory calls
after its statement are one step (they do not await). The look-ups of `resolve_member` and the
insert after them are one step: only an admin's insert could come between, and there is none;
a delete or a hide right after the look-up is the same as one right before the bind, which is
modelled.

### UpdatePipeline
From the sections an account has to the columns of its row: `SendChanges` (`section_changed`,
`to_member`, the bounded channel), `Receive`, `StartWriting` (merge and chunks), `WriteChunk`,
`DropChunk`, `Restart`. A section is a version and what the hub says of it: a value, nothing
new, or "not shared". `ForgetSent` stands for whatever makes the sync forget what it sent.
Rows keep their names here; what becomes of names is the matter of HubSync.

### MembersPoll
The database's clock, rows with a stamp per section, statements under way, and one page. The
batcher's UPDATE is two actions, `StartWrite` (its `NOW()`) and `Commit`. `Members(from)` is
`get_members`; `PollReceive` is `GuildData.update`. `poll` has two callers of `pollMembers`,
as `callOnInterval` has: the first call, which nobody awaits, and the interval's. `SlowFirst`
says whether the first may outlast the interval; with `SlowFirst = FALSE` a page behaves as
the comment in `utility.js` says. Left out: presence, and `enable`/`disable` (one page, open).

### HubBudget, HubCache
`HubBudget` is the budget of `hub/client.rs` as a record with operators for its critical
sections: `Acquire` (in two parts, `Aged` with time and `Grants`), `BlockFor`, `SetBudget`.
`HubCache` is what requests do with it and with the cache of `hub/cache.rs`. Requests run on
several threads, so every lock of the code ends a step:

| Action | Code |
| --- | --- |
| `Start`, `Join`, `Lock` | nothing fresh is stored; the key's lock from the in-flight table, or a new one; the guard, and the second look |
| `Ask`, `Answer` | `acquire` and the call; what the hub answers, a pause included |
| `Unlist`, `Finish` | the lock leaves the table unless another request refers to it; store, and the guard is dropped |
| `Cancel` | the request is dropped where it awaits, its call running on |
| `TaskAsks`, `OtherAnswer`, `Discover`, `Tick` | the background tasks' calls; calls without a request; `/me`; time |

A lock is an object with a strong count of its own, which is what the code decides by: whether
two requests of a key may come to hold two locks is the question. Left out: what a request is
answered with (the value, a stale entry, the error), which changes no state.

### SharedCalls
What `hub/cache.rs` promises in its first lines, without locks, tables or entries: a request waits
for its key, calls the hub if nobody else does for that key, and may go at any time. `HubCache`
implements it under the refinement mapping `asks <- key`, `stage <- StageOf(pc)`: a request before
its guard waits, one that calls calls, one that has its answer or found the entry knows. The run
`hub_cache` checks `SharesCalls` as a property, and `CallsAreShared` proves it.

### EventsFeed, EventsShown
The hub's log (a count), the follower with its pages and its buffer, the backend's answer in its
two reads (`ReadEvents`, `ReadLatest`: a write of the follower fits between them), the polls of
one page in slots, the topic they publish to and one list. `Restart` empties the buffer and counts
from 1 again. With `Overlapping` a poll is sent while another is out, as the first call of
`callOnInterval` allows. A page of the hub's log fits in the buffer (`FeedSizes`), as
`PAGE_SIZE` 200 does in `CAPACITY` 1000 (`hub/events.rs`): the loops over sequences are recursive functions,
which can be reasoned about.

`EventsShown` adds two history variables. The page never asks again for what is numbered up to its
cursor, so an event not given to it by then is gone. `letBy` records the events the code loses that way, each at
the step where it happens: buffered between the two reads of a first load, numbered by a restarted backend below
the page's count, or more than one answer may hold. `apart` says that the page's polls did not overlap.
`PageCatchesUp` is about the page's list against the buffer: it lacks nothing but these.

### EventMarkers, MapView
`EventMarkers` has the live markers with their places (certain where an event says its own, else
its player's at the time), the places remembered over a reload, the marks on a trail and what a
replay makes ring, the filters, and the frames and timers the map is drawn by. `MapView` has the
frame loop (`updateRequested`), camera and animations, following, the overlays' hover, pressing,
dragging and clicking, floors and links, and tiles that load late. A spot is an area and a floor.

### MapPage, Trails, Replay
`MapPage` has the three kinds of request of `map-page.js`, numbered as there, with the selection
and the time picked. `Trails` is one player's trail: `observeLive` and `mergeTrail` over the hub's
history, what the tab saw and the marker, with the plugin's lagging messages and a skewed clock. Three clocks
run behind each other. The hub has what was sent. The marker is up to `Lag` behind it (`MarkerMoves`: the sync's look at
the hub and the page's poll), and a sighting (`Observe`) is of the marker. An answer with the history
(`HubAnswers`, `SetHistory`) may be taken up any time after it was read, as it is under way or in the server's cache. The tab
may be opened at any time: its first sighting waits for nothing. `late` keeps the first
sightings of a tile the player had left, for `TrailIsAWay`.
`Replay` is the clock, the scrubber and what the trail layer tells them (`nextChange`,
`nextHop`), while the trail is replaced under a playing replay.

### PlayerViews, Boards, SiteLife, EventToasts, GearTrips
`PlayerViews`: what polls publish, step by step as `member-data.js` publishes it, and what the
roster, the table and the open profile make of it. `Boards`: the calls of `skills-graphs.js` (with
its generation) and of `clan-page.js` (without). `SiteLife`: the route, the section, initializers
still loading, polls under way with who was signed in as they were sent. `EventToasts`: toasts and
their timers. `GearTrips`: `gearTrips` as a fold over the log, checked against what a trip is.

### SkillHistory, Sessions
`SkillHistory`: a player's XP in the members table, `aggregate_skills` and its retention, and the
graph made of the rows, if there are any. The batcher's UPDATE is `StartWrite` (its `NOW()`) and `Commit`, between which
aggregations may run. The server cuts time into buckets in UTC (`Bucket`), the graph in the viewer's time, `zone` ahead of it
(`Local`, `Within`). `due` is kept for `GraphAgrees`: the newest XP that was not passed over between its stamp and its commit. `Sessions`: the sessions in the order of `verified_at` with the first
`due` of them to be asked about (so that no clock is needed), the sweep, a sign-in's two halves,
and the requests with the pool's connections. `since` and `passed` are kept for `AskedInTurn`.

### MCSite
These modules share no state a property is about, so `MCSite` instantiates them side by side: a
behaviour is of one `part`, chosen at the start, the others' variables standing still. One run
checks them all, and its invariants begin with `part = ...`.

## 3. The runs

| Run | Shows | Bounds |
| --- | --- | --- |
| `hub_sync_follows` | types, `HubIdsUnique`, `DirectoryInverse`, `MemoryMatchesTable`, `AccountsKeepTheirRow`, `HiscoresFollowFullRead`, and `MapFollowsHub` under fairness | two accounts, one with a plugin hash and an older row, five names of which one cannot be stored, two hub changes, one failure or restart |
| `hub_sync_admin` | `MemoryMatchesTable`, `MapFollowsHub` with admin requests | one account, three requests, one hub change, one failure |
| `update_pipeline` | types, `SentIsStored`, `NeverBackwards`, `TableFollowsHub` | two members, two sections, a channel of one, batches of two, chunks of one, two changes, one failure |
| `members_poll` | `NothingStale`, `PageFollowsMap`, `ReloadsEnd` | three names, one of them free and one without data; two sections; one write, two moves, one failed poll, three clock steps |
| `hub_cache` | types, `SharesCalls` (the refinement), `SyncHasItsReserve`, `PausesAreKept`, `RequestsEnd` | two requests that come again and again for one key, three lock objects, a budget of 3 (reserve 1) that may become 2, pauses of 1 and 2, two clock steps, one cancelled request, one background call at a time |
| `events_feed` | `FeedHolds` (types, the buffer is a window of the log, no event twice), `NewsIsNew`, and under fairness `PageCatchesUp` (the page's cursor and its list get to the newest event; the list lacks only what the code lets by) | three events, one before the start and one of a hidden account; pages of two, a buffer of three, polls of two; two polls at once; one restart; one list opened anew |
| `map_page` | `PageHolds` (types, only trails switched on are drawn, the menu says the time), `MarksStay`, and `TrailsCatchUp` under fairness | two players with a session each, one length, two filters, two moves, one failed request |
| `site` | thirteen properties of the parts of `MCSite` | two players, users, areas, tiles, events or sets each (three toasts); three trails to replay; two to four moves; two clocks for two ages; time zones behind, at and ahead of UTC |
| `hub_sync_name_reuse` | violated: `RenamesFollowed` | two renames with a shared name |
| `members_partial` | violated: `NothingMissing` | one write, one rename |
| `members_first_poll` | violated: `NothingStale` with `SlowFirst` | one write |
| `gear_trips` | violated: `TripsHaveNoGap` | the changes of the gear part of `site` |

What the properties of `site` say:

| Property | Says |
| --- | --- |
| `ViewIsWhole` | what is drawn is what is there, or a frame is coming; whom the map follows is in the middle, or the camera is on its way; no hover, press or animation is left of what has gone; late tiles are of the floor shown |
| `MarkersAreWhole`, `MarkersStay` | no event that has a place is without its marker, a certain one is where it happened, and markers and rings that time will take have a frame to take them; a certain place stays, through reloads and restarts |
| `ReplayIsWhole`, `ReplayGoesOn` | the map shows the clock's time and hop, whatever happened to the trail; each frame gets on, no hop or event is jumped over, only idle time is |
| `TrailsAreWhole` | a trail's points are in order and are steps the player made, but for the first sighting of a tile already left (section 5), and it ends at the player or, where the marker lags, further on |
| `PlayersAgree` | lists and profile show what the store has, sorted; a tab shows its own player's answers and gets them all |
| `BoardsHold` | a chart is that of the last choice, a loader stands while a call is out, the gains are never blank without a word |
| `LifeHolds` | a section that has loaded polls, once, and nothing else does; the loading screen goes; what an admin sees is shown to an admin |
| `GraphAgrees` | a graph's bucket shows XP the player had by the end of the server's bucket that begins in it, and no less than was due at an aggregation by then; gains never fall and end at what was gained |
| `TripsAgree` | each trip is what its rows make it, trips do not overlap, nothing worn is left out |
| `ToastsStay` | a toast is there for its time, not counting how long it is held |
| `SessionsHold` | nobody is passed over twice for the same other; whoever waits for a connection has none |

**Why the bounds are enough.** Accounts meet only through names, hashes and the hub's full
list, so two accounts show every conflict two bindings can have; a second binding is dropped in
every direction `bind` knows. The admin run needs only one account, as a request concerns one
name, and three requests give delete, hide and show in every order around one poll. A channel of
one is full at every second update; batches of two merge; chunks of one make two statements of
one batch. In MembersPoll one write suffices, as a missed change is a change of one
section, and two sections tell "has some" from "has all"; two moves are hide and show again, or
a rename and a rename on. In HubCache keys share
nothing but the budget and the cap on entries: one key suffices for the locks, and the cap is
reached without another key's entry to drop. Two requests that return use three lock objects at
most: one listed, one held by a request that unlisted it, one to be made. In EventsFeed a buffer of
three with pages of two is overrun by three events and a restart, and each of the three ways to let an event by occurs
(without any one of them in `letBy` the run fails); two slots are what the interval
and the call nobody awaits can have out. In MapPage two players are enough for a trail and the
session's owner to differ, and a request can be overtaken in each kind. In the parts of `site` two of
each kind meet in every way the code compares them, and two to four moves are a change, its undoing
and a change in between with answers under way: each part's mutant fails within them. One connection for two requests is
the smallest pool that could wait on itself, and a sweep of one the shortest that can pass anybody over. All the bounds are named constants of the modules (`Max...`), and each
occurs as a guard of one action; when they are used up the system goes on polling, so that the
liveness properties are about what follows the last change.

**Deadlock** is checked, except in `update_pipeline`, where the pipeline is idle once nothing
is left to send or write, and in `map_page`, `site` and `gear_trips`, where a page may be left with
nothing under way and the viewer done.

**Fairness.** `HubSync`: the poll loop is a tokio task that never returns and whose back-off is
capped (`sync.rs` `backoff`), so one of its steps is always taken in the end; the refresh interval
passes; a handler past its statement does not await again. Nothing is assumed of the hub, the
admins or failures, which the bounds make finite. `UpdatePipeline`: the sync sends in the end,
the batcher's loop is never stopped, a batch's chunks are all awaited. `MembersPoll`: the page's
interval goes on (a page somebody looks at; a hidden tab skips its calls), the backend answers or
fails, a statement that was begun is committed.

`HubCache`: threads run on and every call ends (`timeout_global`), so that each
request's next step is taken in the end; a guard is had in the end by who waits for it (strong
fairness), as tokio's Mutex queues its waiters. Nothing is assumed of time or of the hub.

`EventsFeed`: the follower's task goes on and the hub answers it in the end; the page's interval goes
on and its polls are answered (strong fairness on the two reads, as a poll that fails gives its slot
to the next). `MapPage`: a page somebody looks at refreshes its trails every minute (a timer), asks
for the menu's sessions again when they are old, and what it asks for is answered or fails; failures
are bounded. `site` has no liveness property: nothing is assumed.

**Findings.** The four violated runs state what the repository's own comments and documents say;
`PROJECT.json` quotes the lines. (1) Names that change hands within one snapshot leave an account
on another's row. (2) A new name whose first poll brings one section never gets the others. (3) A
slow first poll puts old data back for good. (4) A trip of gear goes on across a gap when everything
was taken off in between.

## 4. The proofs

| Module | Theorem | |
| --- | --- | --- |
| `HubSyncProofs` | `TypeCorrect`, `IdsStayUnique`, `DirectoryStaysInverse` | `TypeOK`, `HubIdsUnique`, `DirectoryInverse` are invariants of `Spec` |
| | `HiscoresFollow` | every step of it is one of `HiscoresFollowFullRead` |
| | `NoStaleMemory` | `MemoryMatchesTable` is an invariant if names stay with their accounts (`NamesStay`), admins or not |
| | `RenamesAreRemembered`, `RowsAreKept` | it is one if accounts are renamed to names of their own (`NamesAreOwn`) and admins leave the members alone (`NoAdmins`), and every step is one of `AccountsKeepTheirRow` |
| `UpdatePipelineProofs` | `TypeCorrect`, `SentIsStoredAlways`, `NeverBack` | `TypeOK` and `SentIsStored` are invariants of `Spec`, and every step of it is one of `NeverBackwards` |
| `MembersPollProofs` | `TypeCorrect`, `NoUpdateIsMissed` | `TypeOK` and `NothingStale` are invariants of `Spec` if the first poll does not overlap the interval's |
| `HubCacheProofs` | `OneCall`, `CallsAreShared` | `OneCallPerKey` is an invariant of `Spec`, and `Spec` implements `SharedCalls` |
| | `Typed`, `ReserveIsKept`, `PausesHold` | `TypeOK` and `SyncHasItsReserve` are invariants of `Spec`, and every step of it is one of `PausesAreKept` |
| `EventsFeedProofs` | `FeedIsWhole`, `OnlyNewsIsNew` | `FeedHolds` is an invariant of `Spec`, and every step of it is one of `NewsIsNew` |
| `MapPageProofs` | `OnlyWhatIsOn`, `MarksAreKept` | `PageHolds` is an invariant of `Spec`, and every step of it is one of `MarksStay` |
| `SiteProofs` | `PagesAreWhole`, `ChartsAreTheChoice`, `MapAtRestIsDrawn` | `LifeHolds`, `BoardsHold` and `ViewIsWhole` are invariants of `MCSpec` |
| | `MarkersAreCertain`, `CertainStays`, `PlayersAreShown` | so are `MarkersAreWhole`, `MarkersStay` and `PlayersAgree` |
| `SiteListProofs` | `NoneGoesEarly`, `MapFollowsClock`, `NobodyIsPassedOver`, `GraphsAreHonest` | `ToastsStay`, `ReplayIsWhole`, `SessionsHold` and `GraphAgrees` are invariants of `MCSpec` |
| | `NoHopIsMissed` | every step of it is one of `ReplayGoesOn` |

They hold for all sets of accounts, members, names, sections, requests, keys and locks, all capacities,
batch and chunk sizes above 0, all tables to start from that satisfy
the module's ASSUMEs, and all bounds, and rest on no assumption besides: `None` and the other
absent values are no keys or records, requests and keys are finitely many, as are the values `minLoot`
may have, a viewer may switch on a trail at least, `UNIQUE (hub_account_id)` holds of the first table,
a page of the hub's log fits in the buffer, and a
statement of the batcher takes no longer than the cursor lags (`CursorCoversStatements`: with a
longer one, `NothingStale` fails). The theorems of the site hold for all players, users, areas, floors, tiles, events,
filters, names, periods, skills, trails, sessions, requests, connections, buckets, levels, spans of time and bounds; the constants of the
other parts of `MCSite` are the run's.
They assume that the map's areas, spots and tiles are of one map (`MapIsWhole`), that who is signed out
is no user (`UsersAreSomebody`), that the period a chart begins with is one and a selection not yet
read is no name (`BoardsStart`), that an event's ring, its freshness and its marker end in that order and there are
finitely many events (`MarkerConstants`), that a bucket has parts, a graph shows buckets, a viewer's clock is less than a bucket from UTC and levels are finitely many (`HistoryConstants`), that the tabs'
periods include the one they begin with and no player has the name of nobody (`PlayersCanBe`), and that a big drop's toast lasts no less than another's (`ToastsHaveTime`).
Trails are sequences of points in order of time with a kind for each step, of finitely many players; the time a frame
takes is not 0, a hop has a frame, and what is skipped stops shorter of the next change than it takes to be skipped
(`TrailsCanBeReplayed`: `IDLE_LEAD_S` is 30 and `IDLE_SKIP_S` 600 in `replay-clock.js`). Users are finitely many, and the pool has a connection
and a sweep a member at least (`SessionsCanBe`).

Three theorems are about a part of the instances. `NamesStay` says that nobody is renamed,
that no two accounts have a name or a hash in common, and that a row of the first table that is an account's by its id or
hash has its name; the instance of `hub_sync_admin` satisfies it. `NamesAreOwn` lets accounts be renamed, each to
names no other has or had, and `NoAdmins` leaves the members to the sync; the instance of `hub_sync_follows` satisfies
both (no row begins hidden). Renames and admin requests at once are in neither part and in no run, and there the
memory can be stale: the request to forget a member goes by the old name (section 5).

**HubSync.** The inductive invariant is `TypeOK` with `InHand` (an account in process is known or
was found, so that its name is a name), `HubIdsUnique` and `DirectoryInverse`. Each action has a
lemma; those that write to the table use what `BindHubAccount` and `RenameHubMember` do to unique
ids, those that write to the directory the lemmas of the directory. `Restart` and `Init`
need `HubIdsUnique` for `DirectoryInverse`: the directory is loaded from the table.

`MemoryMatchesTable` needs `MemoryInv` besides: what the sync remembers of an account is so in the
table and the directory, unless an admin has changed the member meanwhile and the sync is still to
forget it (`Unsure`: the name is among the requests or what was taken from them). Each write of the
sync keeps it for every other account, as rows of different accounts stay apart (`OwnRows`,
`SameOwners`): without `NamesStay` an account may take over the row another is remembered by.

With renames the row of an account is under the name the sync knows, but between the rename and the
note of it, when it is under the new one (`RowOf`, `HasItsRow`). `RenameInv` has that, and that every name in the
table, the directory, the hub and its last answer is one of the account's own, so that what binding or renaming
takes from a row, it takes from the same account (`BindsAmongOwn`); what was looked up is still
so when it is used (`LookUpHolds`), as only the sync writes. `HiscoresFollowFullRead` is about the
step that ends a poll; `ScoresInv` says of the middle of one that the accounts of the answer that are processed
share what the answer says.

**MembersPoll.** `NothingStale` alone is not inductive: whether a page catches up depends on the
answer on its way. `IInv` adds that only one poll is out (`OneAtATime`, from `~SlowFirst`), that
a statement under way began no longer than `MaxStatement` ago (`StatementsAreShort`), that what
the page has something of, the table holds (`ShownIsStored`), and that an answer on its way says
of a section what the table holds, or its cursor asks for the change again (`AnswersCover`). `Commit` is the step the cursor's
lag is for: the new stamp is at least `clock - MaxStatement`, so no cursor so far has passed it.

**HubCache.** `IInv` is the types, `GuardsAreHeld` (who is past its wait has the guard of the
lock it refers to, and nobody else has) and `LockIsListed` (until its fetch is over, a request
refers to the lock the table has for its key). The step that could break the last is `Unlist`:
`TwoReferAndTheTable` counts that a lock which another request of the key refers to has a strong
count above 2, and stays. It is the only use made of the sets being finite.

`CallsAreShared` goes step by step: under `IInv` each action of the cache is a step of
`SharedCalls` or leaves its variables alone (`NextIsShared`). The step that needs the invariant is
`Lock` to a call: who has the guard of the listed lock is the only one of the key that can be
calling (`CallsAlone`).

`SyncHasItsReserve` counts requests in a window that moves. `ClientInv` says that the requests in it are in
the order they were sent (`IsTheWindow`), so that what expires is a first part of them and what is
left is the rest (`Dropped`), and that the interactive ones among any last part of them are no more than the budget
less the reserve (`InteractiveIsLimited`). A budget that shrinks clears
nothing, and so both the property and `Counted` leave out what was sent before the last change (`changedAt`).

**EventsFeed.** `FollowerInv` is why the buffer is a window of the log: it counts without a gap
(`IsAWindow`), and the event the follower asks from is no more than a page behind its newest and not
before it begins (`Reaches`). A page that is asked for a second time is therefore found among what `extend` compares
with. That is where `Page <= Capacity` is used: with a smaller buffer a repeated page would come in twice.
Answers on their way have no event twice, and a list neither, whatever order they come in
(`AnswersInv`, `ListsInv`). `NewsIsNew` needs `NewsInv`: what a list shows is what the last message
held, so that what a message adds can be compared with it.

The model's loops over sequences (`Extend`, `Without`, `Newer`, `Newest`) are recursive functions. That
they have the values they are given is not taken for granted: `LoopExists` builds them, and
`UpTo` is induction over the positions of a sequence, by the least position that would fail.

**MapPage.** `PageHolds` looks at what is drawn; a late answer draws what it was asked for. `PageInv`
adds to it the newest call of each kind: what its answer will draw is switched on (`DrawnIsOn`),
what is noted of a trail's events is what was asked for last (`NotesAreAsked`), and no less than the filters let through
(`NotesLetThrough`). Answers to calls that were overtaken are let go by their number, and switching a trail
off takes it out of the newest call's as well, by asking again. `MarksAreKept` has the same invariant: most steps keep
the marks as they are (`KeepsHeld`), and an answer that is let through replaces them by what was asked for
last, for the time that is shown and for no fewer drops.

**The site.** A behaviour of `MCSpec` is of one part, and each invariant is about its own (`part = "life" => LifeInv`);
every action of the others leaves its variables alone.

`LifeHolds` is about a page between two handlers, and a handler leaves one section and enters another
in several moves. `QuietInv` is what holds in the middle as well, `PollsInv` that the section loads, failed to, or
polls, once; the lemmas say which move needs which and gives which (`CleanUpIsQuiet`, `EntersAsWhole`). Late
answers find no section of their number, as initializers have one each (`InitsInv`).

`ChartIsTheChoice` looks at calls that are answered; `NumbersInv` says of those under way that they have numbers of their
own and the newest is for what is chosen now, or waits for the selection to be read as all do. That it covers the page is a part of it.
The clan page's calls have no numbers, and `ClanInv` is about what a load or a failure may be said of.

`ViewIsWhole` is inductive as the run checks it, up to its types: a step that changes what is to be drawn asks for a frame,
and the map that asks for none has drawn what is there. `MarkersInv` adds to its property that only
what happened is given to the layer (`HappenedInv`), that an event as long as it is fresh has been seen wherever its player is
(`SeenInv`), and that a place once certain is remembered for as long as the event can be on the map
(`PutInv`): a feed that starts over finds it again. That no event is left out counts what was dropped: the layer is full of newer ones.

`ToastsInv` follows one toast's time (`Timed`): while it is held, what was shown of it and what it keeps make its time, or the timer is
late; otherwise what its timer has left does. The sequences' part is what a toast that goes leaves of the others (`RemovedAt`).

**Players.** The open profile is patched step by step as a poll publishes a member (presence, then the sections, then the
region, ...), so that between two steps it shows something of both states. The proof follows the profile through the
steps of one member (`PollShows`): after the last, header, vitals, prayers and status are those of the member stored, whatever was
published when. It needs that nothing is kept of a category the player no longer shares (`SharedOnly`), and that whenever what
is shared changes the tab is drawn anew (`SharedDecides`, `TabAnew`). `TabsGetTheirAnswers` holds through periods and tabs chosen with answers under way since
each part of the tab is there, is asked for by a call the tab still listens to, or was said to have failed (`OnTheTab`). For the lists it
is that whoever a poll changed is patched, and a change of who there is draws them anew (`ListsInv`).

**Replay.** `ClockInv` says of the clock alone what a frame needs: the hop it plays lands no earlier than it leaves,
and a clock that holds plays no hop. `ReplayInv` adds the players' order and the controls. What the
trails tell the clock is put as lemmas about sequences of points: where a time is (`IndexAt`, a recursive function), the next
change after it and the next hop are the least there are, found by `LeastNatural`, so that a frame which goes no further than they say
passes none. `GoesOn` says of a frame what it may pass, and follows from each way a frame may end (on, into a hop, in it, landing, held, at the end).

**Sessions.** `AskedInTurn` is about two turns of the sweep, with anything between. `TurnInv` says why nobody waits behind another
twice: of whoever the sweep was done with since v has been due, each has every session behind one of v's that is due
(`DueBefore`), and v is before them in the sweep under way (`AskedBefore`). Asking about somebody sends their sessions to the
end of the list, so that `NotesAnswer` makes it so for everybody still due; the sweep's order
(`ToVerify`) keeps it, and so does a session that ends or starts, by what they do to places in the list (`RemovedAt`, `NotOfIs`).
An order by anything but the first session would not do. That somebody goes on when the pool is empty is `RequestInv`: a request has a
connection in two of its stages and none where it waits for one.

**Skill history.** `Newest` is the newest sample up to a bucket of the server's, what a graph carries into and through its period.
`TableInv` says of the table, and of an answer made of it before: up to each bucket the newest sample is XP the player had by its
end and no less than what was due at the last aggregation by then, or there is none and nothing was due, or it is too old.
`StoredInv` gives what an aggregation adds. Of what is stored it says that either no aggregation has passed it (its stamp is not before the last one), and then
it is what is due and the next one samples it; or it was sampled, or passed over before its commit (`CommitKeeps`), and then what is due is covered by the
newest sample. An update under way is XP the player had from its stamp on (`StartWriteKeeps`).
Retention keeps the newest of what is too old, and what it leaves is the same up to every bucket from that one on (`NewestLeft`).
That the loops compute this is `CarriedIs` and `GainsAre`, by induction over buckets (`UpTo`), and `LevelsBetween` counts the levels. The time zone
comes in by division only: exactly one bucket of the server's begins in a bucket of the graph's, the same or the one after (`LocalIs`, from
`DivIs`), so that a graph's bucket holds that one's sample or none (`WithinIs`).

**UpdatePipeline.** Neither property is inductive: what a column will hold depends on all that is on its
way to it. `IInv` follows one section of one member through the collected batch, the channel behind
it (`Waiting`, which collecting leaves as it is: `ReceiveKeepsWaiting`) and the chunks being written.
`SentWillHold` says that the last update that carries the section, else the batch, else the column,
says what the sync believes it sent, as long as nothing was dropped; `InOrder` that the versions
grow from the column over the batch and the waiting updates to the hub. Merging is the step that
needs most: `MergedIsLast` is what `deduplicate_batch` does, from `LastPosition`, and
`ChunksAreTheBatch` that the chunks are the whole batch, none larger than `CHUNK_SIZE`. Chunks need
not be disjoint for any of it. The only assumption besides the sizes is that `None` is no value.

**Only model-checked.** All liveness (`MapFollowsHub`, `TableFollowsHub`, `RequestsEnd` and the page's),
which these provers do not reach, and `PageFollowsMap`. Of `MCSite`: the trails and the gear
trips, whose properties are about folds over sequences (`MergeTrail`, `TripsAgree`). The findings are shown by their counterexamples.

## 5. Seen while modelling

Disagreements between the code and what it says, or what one would expect, that are no runs here.

- **Sync.** Hiding a member the sync is just renaming has no effect on the sync: the request to
  forget it goes by the old name (`sync.rs:137`; `HiddenLeftAlone` in HubSync states it, against
  sync.rs:12 "Members an admin hid are left alone"). An account the hub stops sharing altogether
  keeps its hiscores flag (`sync.rs:243`; `HiscoresOnlyWhileListed`, against HUB_INTEGRATION.md:157-158).
- **Events.** A poll that an earlier visit sent and that is answered in the next counts as that
  visit's first load. Against "`events` are the newest KEEP events" (`live-events.js:6`), four cases. An event that is buffered between the
  two reads of a first load is never shown: the answer's events lack it and its newest number, which the page goes on
  from, has passed it (`events.rs:259`). After a restart the page notices that the backend counts from 1 only while the count is below its
  own; what was numbered up to there before the page asked is never shown (`live-events.js:58`). More new events than one answer holds leave
  a hole: the newest are answered, and the page goes on from them. A first load that overlaps a poll brings events in front of newer ones, which it may
  push off the list. `PageCatchesUp` names the first three (`letBy`) and is about pages whose polls don't overlap (`apart`).
- **Trails.** A tab just opened, or a player just back online, is first seen where the marker is. If the player left that tile
  before and the history was read in between, the sighting is dated after `asOf` and passes for news: the trail goes from C to A and
  back to C, until the next history. The comment of `mergeTrail` (`trail-model.js:262-264`) concludes from the marker's being seconds behind that what was seen before
  `asOf` the history has too; what is seen after it may be just as old. `TrailIsAWay` leaves out these points (`Begins`) and no others.
- **Page.** A poll of a section that was left may fill the members of the next or hide its loading
  screen; a 401 to it takes the next section to the login; a late answer to logging out or to the
  Discord callback drags the viewer away from where they went. An item list that fails to load leaves
  the loading screen for good.
- **Charts.** `chartGeneration` starts at 0 again with each visit, so a late call of the visit before may
  pass for one of this. An older call's failure replaces a newer chart. The clan page's calls are not
  numbered: the last answer is shown, and "No XP gained" may stay above it.
- **Profile.** A late answer for another period is appended to the same list. The button to follow a player
  lags behind the player by `HEADER_REFRESH_MS`.
- **Map.** A tile from the cache fades in without a further frame being asked for; a player leaving the view
  stays drawn until the next update; selecting a player without a place keeps following the one
  before; a touch that is cancelled counts as a press.
- **Sessions.** The sweep may write an older answer over a session that a newer sign-in has just
  started, and a sign-in answered before a removal may start a session after the sweep ended the
  others; both stand until the member's next turn. A hub that never answers about one member keeps
  those behind from being asked about.
- **Replay.** A replay that ends with a landing (an entrance at the end of the trails) stops with what is left of
  `LANDING_HOLD_MS`; played again without seeking it stands still for that at its start, as the end, unlike `pause`,
  leaves `holdMs` (`replay-clock.js`). A hop under way lands where it was going to though its trail has gone meanwhile, and the
  clock then stands outside the trails that are left (`Replay!TimeIsOnTheTrails` states that it never does, against
  the comment at `replay-clock.js:1`).
- **Skills.** An update whose `NOW()` is before an aggregation and whose commit is after is never sampled
  (`skills.rs:25`); the graph shows less than was stored there until more XP comes. Retention keeps one month, which may be 28 days, and a graph shows 30.
  The server's buckets are days and months of UTC (`skills.rs:24`), the graph's are the viewer's (`skill-graph.js:474-491`): off UTC a bucket of a week's, month's
  or year's graph shows XP from after its own end, as the server's bucket that begins in it ends later. Its label is the viewer's midnight
  in UTC (`skill-graph.js:434-438`), which falls into the server's bucket before that one. Zones are fixed offsets here: a switch to or from summer
  time is not modelled.

## 6. Plan

Done: the sync, the pipeline, the members' polls, the cache with its refinement, the events feed, the
sessions and the site's stateful parts. Left:

1. `GuildMap`: the abstract map (which account is shown under which name), with HubSync shown to
   implement it while no name is reused.
2. The bulk requests of `hub/fetch.rs`, the entries under the cap with several keys, the special-world
   totals of `hub/convert.rs`, the paging of `hub/trails.rs` and `hub/xp.rs`.
3. Proofs: `TrailsAreWhole` and `TripsAgree`, by induction over positions as in `EventsFeedProofs` and for the
   sessions; for the trails first a lemma that `IsWithin` is the existence of an order-preserving match.

## 7. Not modelled

- The content of answers and columns, formatting, and the geometry and drawing of trails, markers and
  tiles: functions without state, or calls to a canvas.
- `hub/trails.rs`, `hub/xp.rs`, `hub/leaderboards.rs`, `hub/profile.rs`: requests passed on through
  the cache and reshaped, one at a time.
- Presence as the server computes it; the admin portal's lists; the OAuth state cookie and Discord's answers.
- Configuration, types and start-up; the mock hub, but for how it pages its log.

## 8. Known limits

- A chunk whose statement fails is logged and gone (`update_batcher.rs:242`) while the sync has
  noted its sections as sent: the columns stay behind until the section changes again or the
  backend restarts. `SentIsStored` and `TableFollowsHub` say `drops = 0` for that reason.
- `MapFollowsHub` is checked for names nobody reuses: with reuse it fails (finding 1).
- `MembersPoll!TypeOK` is proved and in no run.
- The in-flight table of `hub/cache.rs` has no cap: a request that ends early or is cancelled
  leaves its key's lock there until the key's next fetch. And a request that looks between the
  lock's removal and the store calls the hub once more than needed, after the other.
- With several rows of one account hash, `find_member_for_hub_account` takes the oldest; the model
  takes any.
- Steps that are coarser than the code: in HubSync an admin's in-memory calls are one step, a failure of
  `resolve_member`'s insert is the account's skip, and equal requests are one; in UpdatePipeline a send that waited for room
  sends what the hub says then, not when it was fetched; in MembersPoll a name is not taken over while the page still has
  another member under it, and `delete_member`, to a page the same as hiding, is left out; in HubCache a fetch is one call, though `xp.rs` and `trails.rs`
  page within one guard; in MapPage the session's owner is one of the trails', whichever comes first; in Boards a page once
  polled stays so over a sign-out, and two calls for one period are one.
