# A TLA+ verification of nisaba

Nisaba is a collaborative Typst editor. Browsers hold Loro replicas of a document
and exchange opaque CRDT updates through the *sync* service, which is the
authority for each document; the *app* service owns projects, members, documents
and references in Postgres and an object store; *compile* turns projections into
PDFs. This directory models the parts of that system whose correctness depends on
interleavings, failures and order, checks them with TLC on small instances and
proves the most important results with TLAPS for every value of the constants.

`PROJECT.json` is the machine-readable index: components, runs, mutants, the map
from definitions to source lines, findings, hazards and theorems.

## 1. Inventory

| Component | State | Operations | What is hard about it |
|---|---|---|---|
| Sync room (`services/sync/src/room.rs`, `session.rs`, `authority.rs`) | authority document, op log, latest snapshot, dirty counter; the gate (presence roster and session map), a bounded outbound channel and a close signal per session, a generation counter | `join`, `leave`, `handle_update`, `handle_presence`, `handle_heartbeat`, `evict_for_rate_limit`, `sweep_presence`, `snapshot_if_dirty`, `open` | two locks (the gate, the updates mutex) that cover different parts of one update; full channels; a session task that outlives its slot; a crash between append, import, fan-out and receipt |
| Web sync client (`web/src/sync.ts`) | socket, handshake flag, replica, queue of batches not yet confirmed | `connect`, `sendUpdate`, `sendNext`, message and close handlers | retries over reconnects, lost receipts, which error codes stop it |
| Op logs (`op_log.rs`, `s3.rs`) | a file of length-prefixed records; numbered objects and a cached next number | `append`, `read_all`, `close` | torn writes, PUTs that fail although they landed, stale caches |
| Snapshot stores (`snapshot.rs`, `s3.rs`) | numbered snapshot files or objects | `put`, `latest` | numbers allocated from a listing, late puts of old exports |
| Registry (`registry.rs`) | the rooms that are open | `get_or_open`, `evict_idle_rooms`, `evict_empty` | check, await, act; a room dropped while a session is on its way into it |
| Presence (`presence.rs`, part of `room.rs`) | roster with last-seen times, pending broadcast | upsert, heartbeat, sweep, coalescing | a broadcast that is only marked pending |
| Authentication (`oidc.rs`, `auth.rs`, `seed.rs`, `http.rs`) | JWKS cache with its age, token cache, one refresher | resolve, refresh, verify a seed | stale keys, tokens cached beyond them, memberships that change during a frame |
| App (`services/app/src/lib.rs`, `persistence.rs`, `auth.rs`) | rows for projects, memberships, documents, history, references, share links; full-text blobs | some forty REST handlers | several statements per request without one transaction; blob and row written apart; compare-and-swap on revisions |
| Review state (`services/app/src/review_state.rs`) | none | from review items to a projected source | cursors, clipped ranges, marks known by their timestamp |
| Compile (`services/compile/src/lib.rs`, `crates/nisaba-compile-core`) | permits, a cache of workers, each worker's workspace and universe | compile with a timeout | a timed-out task goes on under the worker's lock; a worker that served another request before |
| Core (`crates/nisaba-core`) | a document's text, marks, comment threads, milestones | projection, resolution, validation, comparison, redline, offsets | position arithmetic over overlapping ranges |
| References and export (`crates/nisaba-references`, `crates/nisaba-export`) | none | RIS import and export, deduplication, citation extraction, archive | what a format loses; what a scanner takes for a citation |
| Role vocabulary (`crates/nisaba-auth`) | none | ranks, the lesser of two roles | |
| Web editor (`web/src/main.ts`, `compile.ts`) | autosave and preview state | save, schedule, abort | late answers |
| Server, configuration, tools, deployment | none | routing, parsing | nothing a model checker reaches |

Interactions: a browser's socket is served by one `run_socket` task, which asks the
registry for the room, calls `join` and then loops over the room's outbound channel
and its socket. Sessions of a room interact only through it: an update is appended
to the log, imported into the authority and possibly followed by a snapshot under
the *updates* mutex, and fanned out under the *gate*. A maintenance task sweeps
presence, snapshots dirty rooms and drops idle ones. The app asks sync for a
document's current state before previews and exports; sync asks the app for roles.

What makes each part correct, and the property (here or planned) that says so:

* a connected client misses no update (`NoUpdateMissed`, `UpdateReaches`) and sees
  its welcome first (`WelcomeFirst`);
* what clients are shown and told survives a crash (`RelayedIsDurable`,
  `ConfirmedIsDurable`, `AuthorityKept`);
* a peer's slot is never taken silently and the room stays within its cap
  (`LiveOrSignalled`, `SessionCap`); evicted sessions end once their clients read or
  leave (`EvictedEnds`);
* the updates mutex is never stuck (`UpdateAnswered`);
* logs return every acknowledged record, in order (`NoGap`, `ReadComplete`,
  `ImplementsOpLog`, `ReadExact`), and an opened room has what was acknowledged
  (`RecoveryComplete`, `RoomCurrent`);
* an update is taken only with the rights it was checked for (`UpdatesAuthorized`), and
  a withdrawn key stops working (`WithdrawnKeyDies`);
* saves do not overwrite each other and history is what was saved (`SavesKeepOthers`,
  `HistoryFaithful`); nobody gets a role nobody gave (`RolesGranted`); a request stays
  in its project (`OtherProjectsKept`); rows have their blobs (`DanglingOnlyByRace`); a
  build is complete (`BuildsComplete`), and it is the build of its own request
  (`BuildExact`, `RequestsAnswered`);
* accepting leaves the proposed text, rejecting the baseline (`ResolutionsKeepViews`),
  marks stay in the text and threads with their anchors (`ResolutionsKeepBounds`,
  `ThreadsFollowAnchors`, `ValidationExact`);
* the pure functions agree with what they are for (`DiffFaithful`, `RedlineSafe`,
  `ReviewViews`, `OffsetsExact`, `DedupLossless`, `CitedTextsExported`, `ReadsItsOwn`,
  `CitationsExact`).

The hazards at their source lines are listed in `PROJECT.json`.

## 2. Modules

| Module | Models | Rests on |
|---|---|---|
| `SyncRoom` | one document's room, its sessions, its clients and its maintenance task | the log and the snapshot store abstractly |
| `MCSyncRoom` | the peers, connections and updates of its runs | `SyncRoom` |
| `SyncRoomProofs` | types, slots, the session cap, the welcome; durability, receipts, nothing missed | `SyncRoom` |
| `OpLog` | what `OpLogStore` promises: a log that grows at its end | |
| `S3OpLog` | the log as numbered objects, `S3OpLogStore` | refines `OpLog` (`INSTANCE ... WITH`) |
| `S3OpLogProofs` | contiguous numbers, the refinement, acknowledged records stay, complete reads | `S3OpLog`, `OpLog` |
| `FsOpLog`, `MCFsOpLog` | the log as a file of length-prefixed records, `FsOpLogStore` | |
| `Recovery`, `MCRecovery` | the snapshot files beside the file log, and what an opened room rebuilds from both | extends `FsOpLog` |
| `RecoveryProofs` | what a read of the file returns, what an opened room has | `Recovery`, `FsOpLog` |
| `Registry` | the map of open rooms, the tasks that open them and the tasks that evict them | rooms abstractly |
| `Admission`, `MCAdmission` | tokens and their caches, memberships, the checks of a session, the reviewer policy | the room as its text and its mutex |
| `AdmissionProofs` | a withdrawn key dies, updates are authorized; how far the map of rooms can outgrow its cap, which room is current | `Admission`, `Registry` |
| `AppStore` | the app's rows, blobs, permissions and repository methods | |
| `AppProjects`, `AppDocuments`, `AppFiles` | the handlers of projects and members, documents and history, references and full texts | `AppStore` |
| `AppSources` | the sources a build is made of | |
| `AppBuilds` | previews, compiles and exports | `AppStore`, `AppSources` |
| `App`, `MCApp` | all handlers together | the modules above |
| `AppProofs` | the six properties of the app | `App` |
| `CompileWorker` | request validation and a worker's update of its sources | |
| `CompileService`, `MCCompileService` | the service: cache, permits, tasks, timeouts | extends `CompileWorker` |
| `CompileProofs` | a response is the build of its request | `CompileService` |
| `CoreMarks` | marks, projections, one resolution | |
| `CoreDocument`, `MCCoreDocument` | a document under marks, resolutions, bulk resolutions and thread refreshes | extends `CoreMarks` |
| `CoreDiff`, `CoreRedline`, `CorePositions`, `ReviewState` | milestone comparison, redlines, offsets, review items | `CoreMarks` |
| `Ris`, `References`, `Citations` | RIS, the library and its export, citation extraction | |
| `Library`, `MCLibrary` | the pure functions, each called with a selected pool of requests | the two rows above |
| `CoreProofs` | the properties of `CoreDocument`, and of `Library` all but comparison, RIS and citations | `CoreDocument`, `Library` |
| `CoreDiffProofs` | a comparison loses nothing and keeps as much as it can | extends `CoreProofs` |

### SyncRoom: state and actions

One instance is one document's room with all the connections ever made to it.

* `pc[c]` is where the `run_socket` task of connection `c` is: before the HELLO
  is handled, in the select loop, inside `handle_message` (with one state for each
  await or lock boundary of an update: waiting for the updates mutex, append, import,
  snapshot, fan-out, receipt), or on its way through `leave`. `job[c]` is the update
  it handles.
* `sessions`, `presence`, `queue`, `close`, `gen`, `nextGen` are the gate: the
  session map, the roster's membership, the outbound channels, the close signals and
  the generations that fence `leave`. Everything the code does under the gate without
  an await (`join`, `leave`, a fan-out with its evictions) is one action.
* `imported`, `logged`, `dirty`, `snapshot` are the authority, the log, the counter
  `updates_since_snapshot` and the snapshot `latest` would return. A snapshot is its
  bytes and the version vector it is filed under: the maintenance task reads the two
  in separate calls without a lock and awaits the put, hence three actions.
* `client`, `handshake`, `ready`, `replica`, `pending`, `awaiting` are the clients.

An update is an opaque value with an author and a set of dependencies: `Applied(S)`
is what a replica that was handed `S` has applied, because Loro keeps an update aside
until its dependencies are there. A version vector is therefore a set of updates. An
append may succeed, fail, or fail although the record reached the store; such a
record may be overwritten by a later append, as the S3 store reuses the number.

`Env` switches the events of the environment on: dropped sockets, refusals, handshake
timeouts, failing appends and puts, the maintenance task, expiring presence, crashes,
presence and heartbeat frames, clients above their frame rate. `Stalls` are the
connections whose client may stop reading while its socket stays open: `Returns` says
whether a send to the client returns, for nothing limits how long it may take. `Receipts = FALSE` is a
room of protocol 1 clients, which the relay still accepts.

Deliberate abstractions: role, size and review-policy refusals are one action
(`UpdateRefused`), a revoked access another (`AccessLost`); the roster's contents and
all clocks are left out (a presence may expire and a broadcast be due at any time);
the defensive error branch for an update that validates and then fails to import is
left out, since validation is the same call on a fork; frames the web client never
sends (undecodable, BYE, out of protocol) are left out; a crash and the lazy reopening
of the room are one step; the seed of an empty document is an ordinary first edit.

### OpLog, S3OpLog: state and actions

`OpLog` is the promise `SyncRoom` relies on. A record becomes part of the log
(`Extend`) before its append returns (`Ack`, `Fail`), and a record whose append failed
may stay, in which case the next one may take its place (`TakePlace`): that is what
`Logs` in `SyncRoom` allows as well.

`S3OpLog` is one document's objects (`parts`), the cached counter (`nextPart`), the
document's lock (`holder`) and the calls of `append` that are in flight. `Allocate` is
the lock and the cache lookup, `List` the seeding from a listing, `Land` the moment the
PUT takes effect in the store, `PutOk` its answer and the increment. `RequestFails` may
happen in any of these states, so a PUT may fail although it landed. `Close` drops the
counter and keeps the lock, as the code insists; `Crash` drops both. `ReadBegin`,
`ReadPart` and `ReadEnd` are `read_all`, which takes no lock. Several appends of one
document overlap because a room can be evicted, closed and opened again while one of
its PUTs is pending. `LateSpec` adds that a request which was given up takes effect
afterwards (`LandLate`). The refinement mapping takes the contiguous prefix of `parts`
for the log.

### FsOpLog: state and actions

The file is a sequence of cells, each of which knows its record and its place in it;
a header is two cells. `Write` and `Sync` are the two halves of `append` between which
a crash can fall, `WriteShort` a `write_vectored` that takes only part of its buffers,
`SyncFails` and `Close` what their names say. `Crash(n)` keeps any prefix that covers
what was synced. `ReadRecords` is `read_records`; header cells read out of place decode
to the constant `Misread`, which stands for whatever those bytes mean as a length.
`torn` and `stranded` are history: was a record left incomplete, and what was appended
after that. A torn tail is what `FsOpLogStore` does not repair, so unlike the S3 store
it does not keep the promise of `OpLog` (run `fs_tear`); `fs_oplog` says how much of it
it keeps.

### Registry: state and actions

`rooms` maps documents to rooms; a room is the number under which it was built, and
`authority` says what it has imported. A task goes through `GetOrOpen`, the turns of
`evict_empty` (`PickVictim`, `RemoveVictim`, `EvictEmptyEnds`), `Open`, `Insert`, `JoinRoom`
and `Leave`. `CollectIdle` and `RemoveIdle` are the two loops of `evict_idle_rooms`; the
scan is one step because only what lies between it and the removals matters. Times are
left out, so any empty room may be idle or the oldest. `HandleUpdate` stands for what
`SyncRoom` models in detail. `MaxOpens` bounds how many rooms are built; a room that has
been built is a number, so the bound only ends behaviours.

### Recovery: state and actions

`Recovery` adds to `FsOpLog` the snapshot files `snaps` (a sequence number to a version
vector and bytes) and calls of `snapshot_now` that overlap, each going through
`Export`, `Label` (the vector is read after the bytes), `ExistingSeqs`, `WriteTemp` and
`Rename`. The test for the destination and the rename are separate, and a rename
replaces a file. `Restart` is a crash at any cell followed by `DocRoom::open`: it keeps
a prefix of the file that covers what was synced, may undo renames since the last start
because the directory is never synced, and opens with any snapshot `latest` may choose
(its fold runs in the listing's order, which is any order). `gone` is history: puts that
returned Ok and whose file is no longer there.

### Admission: state and actions

`keys`, `lastOk` and `fetch` are the JWKS cache and the one refresh in flight;
`published` and `withdrawn` the identity provider; `cache` the token cache, as an expiry
per token. `member` and `body` are what the app would answer. A session goes from
`Connect` or `Receive` (the token is verified, from the cache or with a key) over
`AppAnswers` to `Handshake` and `Join`, or to `RefreshAccess` and then, for an update,
`Acquire`, `Policy`, `VerifySeed` and `Import`. `seen`, `bodies` and `arrived` are
history: which memberships and bodies the app had while the frame was handled. A scene
says what the environment does in a behaviour (rotating keys, changing memberships, two
writers), which keeps the combinations finite without leaving one of them out.

### App: state and actions

A request is a task with a program counter; each step is one database transaction or
one call of the object store, of sync or of compile, and each such call may fail.
Successive reads of a handler before its first write may be one step where nothing that
was read is used stale. `AppStore` holds the tables as functions from ids to rows, with
`NoRow` for none, and one operator for the outcome of each repository method, foreign
keys and uniqueness included. `written` and `raced` are history: the bodies documents
really had, and the references whose upload overlapped a deletion. Share links expire
by clock, which is left out: a link may be refused at any time. A source is a record of
what the build looks for in it (redline markers, a bibliography, the import of
`review.typ`).

### CompileService: state and actions

A handler goes through `Receive`, `Lookup`, `Build`, `Insert`, `Acquire` and ends with
`Finish`, `Timeout` or `HangUp`; the blocking task it starts goes on by itself
(`TaskUpdate`, `TaskCompile`) under the worker's mutex. A worker is named by the handler
that built it, and `world` is what it holds: its workspace, what its universe sees, its
root, and what `update_sources` remembers. A universe that cannot be re-rooted fails a
task with the sources already applied; a panic breaks the mutex but not the entry.

### CoreDocument, Library and the pure functions

A text is a sequence of characters and a mark a range of positions, in any order and
beyond the end, as a client may send it. `CoreDocument` is the sequence of operations on
one document: `AddMark`, `Resolve`, `ResolveBulk`, thread refreshes. `Library` answers
one request per behaviour with the function as the code computes it: the diff by lines,
words and characters with its work limits, the redline with its safety classification,
the projection of review items, the RIS reader and writer, deduplication, the export's
manifest and archive, the citation scanner and the offset conversions. The properties
compare it with a definition that does not follow the code: `CitationsExact` says which
mentions and which calls lie outside comments, strings and raw text, what the keys of a call
are and which error there is instead, `DiffFaithful` that both sides can
be read off and that a full comparison keeps a longest common subsequence,
`CitedTextsExported` that what is numbered is what is cited and that its full text is there.
`DedupLossless` gives every entry a home among those that are kept, and says exactly what is
kept of the entries of one home (`MergeOf`): all tags and provenance, and the first full text.
`ReadsItsOwn` joins the two round trips, of a RIS file (`RisRoundTrip`, which compares names and
DOIs only if they stand as they are written) and of an export. `RedlineSafe` counts
the text's characters in the redline one by one (`Taken`) and compares the nesting of both;
`StyleNests` says of which markers that can be asked.

## 3. Runs

All runs finish within five minutes with two workers. Deadlock checking is off where
the system may legitimately stop: a connection is used once, a client may stay idle, an
append returns once, and the number of rooms built is bounded.

| Run | Checks | Bounds | Shows |
|---|---|---|---|
| `updates` | `TypeOK`, `WelcomeFirst`, `NoUpdateMissed`, `RelayedIsDurable`, `ConfirmedIsDurable`, `AuthorityKept` | 2 clients, 3 connections (one client reconnects), 2 updates of which the second depends on the first, channels of 2 frames, `SnapshotEvery` 2, dropped sockets, crashes, failing appends, maintenance snapshots that land late | whatever joins, imports, fan-outs, evictions and failures interleave, the welcome is first, nothing is missed, and what clients were shown and told can be rebuilt |
| `sessions` | `SessionCap`, `LiveOrSignalled` | cap 1, 3 connections of 2 peers, one update, handshake timeouts, dropped sockets, expiring presence, presence and heartbeat frames, rate limits | the cap and the generation fence hold |
| `live` | `EvictedEnds`, `UpdateAnswered`, `UpdateReaches` | 2 clients with one connection and one update each, of which one may stop reading, a snapshot after every update, failing puts, refused updates and revoked access | liveness under `FairSpec` |
| `s3_oplog` | `NoGap`, `ReadComplete`, `ImplementsOpLog` | 4 appends, failing requests, evictions, crashes | the objects implement the abstract log, and reads that overlap appends are complete |
| `registry` | `RoomsBounded`, `RoomCurrent` | 3 documents, 2 tasks, cap 1, 4 rooms built, 1 update, idle evictions, failures | the excess over the cap does not accumulate, and concurrent opens agree on a room that has the whole log |
| `fs_oplog` | `ReadExact`, `RecoveryComplete` | 3 records of 3 and 4 cells, 2 overlapping puts, every failure, a crash at any cell and between any two steps of a put | a read returns what was acknowledged before a tear, exactly what was appended to a clean file, and a room rebuilds it from log and snapshots |
| `app` | `SavesKeepOthers`, `OtherProjectsKept`, `HistoryFaithful`, `RolesGranted`, `DanglingOnlyByRace`, `BuildsComplete` | any 3 requests of one of four workloads (access, documents, files, builds) over 2 projects of different owners, every call may fail | concurrent requests keep the rows consistent |
| `core_document` | `ValidationExact`, `ResolutionsKeepBounds`, `ResolutionsKeepViews`, `ThreadsFollowAnchors` | a text of 3 characters, up to 3 marks out of insertions, deletions, comments and secrets that overlap, are reversed or overlong | resolutions commute with the views they promise to leave alone; orphans are found, comments that overhang the text excepted |
| `library` | `DiffFaithful`, `RedlineSafe`, `ReviewViews`, `ReadsItsOwn`, `DedupLossless`, `CitedTextsExported`, `CitationsExact`, `OffsetsExact` | about 94,000 selected requests: texts of up to 6 characters, 3 review items, RIS files of up to 3 lines out of 24 beside the header, 3 references, sources of up to 9 bytes, calls with up to 3 of 9 arguments, and calls with one argument behind up to 4 bytes that may open comments, strings and raw text | the functions agree with their reference definitions on these |
| `compile` | `BuildExact`, `RequestsAnswered` | 3 requests for 2 projects, one permit, room for one worker, idle eviction | builds are not mixed up and nobody waits for ever |
| `admission` | `UpdatesAuthorized`, `WithdrawnKeyDies` | 3 sessions of 2 people with a genuine, a short-lived and a forged token, one key, a token cache of one entry, times up to 6 | rights are those the frame was checked for; withdrawn keys die |
| `fs_tear` (violated) | `AckedKept` | 2 records, crashes | a record behind a torn one is lost |

Why the bounds are enough. Two clients give an author and an observer; the third
connection gives a client that comes back while its old session is still being torn
down, which is where generations, retries and double deliveries matter. Two dependent
updates are what distinguishes "logged" from "applied" and lets a later import
complete an earlier update. A channel of two frames holds a welcome and a roster, so
that an update makes it overflow; the code's 256 only makes that rarer. The cap is one
below the number of peers that try. Snapshots after one or two updates make the
threshold happen inside the runs that need it; 9 switches it off where it is not the
subject. Three or four appends are an acknowledged one, one that fails and one that
takes its number, with a second incarnation of the room among them. Records of two
lengths make the file log read a header where a body was. Two tasks race for a room,
and a third document makes it be evicted. Three requests are a reader or writer, one that
interferes and one that undoes it; the workloads group the handlers that share rows. One
permit and one cached worker make every request wait for and evict another's worker. Three
marks on three characters give every overlap of two ranges inside a third. A second key
would only repeat the first. The requests of `library` are selected, not all those of a size: the
pools hold the cases by which each function decides (a DOI with two prefixes or an upper-case
one, an organisation's name, an id that is there twice, keys with a separator), so the run says
nothing of a value whose kind no pool has. For the properties proved in section 5 the bounds do not
matter at all.

Fairness (`FairSpec` of `SyncRoom`). Weak fairness of the tasks' own steps: the tokio runtime polls
a ready task, and each of these steps is a bounded computation or an await that
returns. A task that sends to its socket is fair as long as `Returns` holds: the sends of
`session.rs` have no timeout, so one to a client that has stopped reading returns only when that
client reads again or its socket closes, and neither is assumed. Strong fairness of taking the
updates mutex: tokio's mutex queues its waiters, and it is never held over a send. Nothing is
assumed of clients in `Stalls`, nor of the others but that they read while they keep their
socket (they need not edit, connect, send or close), nor of timers or crashes. `EvictedEnds`
therefore speaks of sessions whose client reads or leaves; without that it would be
`EvictionTerminates`, which does not hold (see the findings). `UpdateReaches` speaks of clients outside `Stalls` and
says "is in the replica, or the client left its socket". In `CompileService`, weak fairness of
each handler's own steps: a handler is polled, `tokio::time::timeout` fires, and the semaphore
queues its waiters. Nothing is assumed of the blocking tasks, so a compile need never end, of
clients, or of the clock. The other specifications state safety only and need none.

Every property of a passing run has a mutant in `PROJECT.json`: a variant of one
mapped definition with a plausible bug, under which TLC finds the property violated.

## 4. Findings

One disagreement has a run of its own, `fs_tear`: a torn record stays in the file and
swallows the next one, which was synced and acknowledged. `op_log.rs:130-131`: "the oplog
records up to the last ACK are guaranteed to survive a crash".

Four more are stated as properties which no run lists and which a line in a cfg shows violated:

* `EvictionTerminates` in `SyncRoomLive.cfg`: the task of a session that was evicted for its full
  channel waits in a send to the client that does not read (`session.rs:141-145`, `166-174`, no
  timeout) and does not see that its sender is gone. `session.rs:16-19`: it "observes the receiver
  going `None`, ships a protocol `Error` frame explaining the disconnect, and closes the socket".
* `OrphansVanish` in `CoreDocument.cfg`: `is_range_fully_deleted` (`validation.rs:206`) asks for
  every position of the anchor, those past the end of the text included. A comment that overhangs
  the text is not reported, nor its thread orphaned, when all of its characters are deleted: a
  comment [1,4) on a text of 3 characters under a deletion [0,3). `validation.rs:203-204`: "a
  comment whose entire span would vanish from the `proposed` view"; `review.rs:648`: "Its anchor no
  longer points at surviving content".
* `CommentsIgnored` in `Library.cfg` with `Calls <- MCCommented`: nothing between the parentheses of
  a `#cite` call skips comments (`nisaba-references/src/lib.rs:841`), so `#cite(/* a, b */ <c>)`
  cites `b` and not `c`. Lines 785-787: comments "are ignored".
* `NamedArgumentsSkipped` in `Library.cfg` with `Calls <- MCContent`: of a named argument's value
  only a string or a label is skipped as a whole, so `#cite(<k>, supplement: [pp. 3, 7])` cites `7`
  as well. Lines 849-850: "Named arguments ... are not keys and are skipped".

The models show these as well; each is a behaviour of a model above that a sentence of
the repository rules out, or that the properties had to allow for.

Sync:

* `room.rs:486` fans out only the bytes that advanced the authority. An update that waited
  for a dependency is applied by a later import whose own bytes alone go out, so connected
  peers never get it. `fixtures/sync/PROTOCOL.md:64-66` says the server "forwards the same
  opaque bytes to every other peer". Protocol 2 clients, which wait for receipts, never
  produce the gap; set `Receipts = FALSE` in `SyncRoomUpdates.cfg` to see it.
* `room.rs:622`: `snapshot_now` clears the dirty counter after its put, and with it the
  updates imported since its export, so an idle room may stay unsnapshotted.
  `main.rs:387-388` promises "a time-based floor".
* `room.rs:571`: `evict_for_rate_limit` evicts by peer id without comparing generations and
  may disconnect the session's replacement. `room.rs:834-836`: "we must not touch the new
  one".
* `s3.rs:317`: a PUT that was given up may still take effect after the next append has used
  its number and been acknowledged; that record is then gone (`LateSpec`, for which
  `NumbersContiguous` is proved and `ReadComplete` fails). `s3.rs:36-38`: "a failed or
  crashed PUT never created its object".
* `registry.rs:225`: rooms are tested for emptiness and removed by document id later, so a
  session may work in a room the registry has dropped, next to a second one.
  `registry.rs:93-94`: "an empty room is safe to drop at any time". `RoomCurrent` therefore
  ends with a document's first eviction.
* The room cap of `config.rs:174` is not a "hard cap"; `RoomsBounded` is the bound that holds.
* `snapshot.rs:93-95` says concurrent writers cannot clobber one another's snapshot; a rename
  replaces the file, hence `gone` in `RecoveryComplete`. The directory is never synced, and
  the vector of a snapshot is read after its bytes and may claim an update they lack; the
  log still has it unless it was torn.
* A hit in the token cache is served although the keys have gone stale, so a withdrawn key
  lives for the cache's TTL longer than `max_age`; and at capacity the cache is cleared
  altogether where its comment says the oldest half.

App:

* `add_member` can turn an owner into a member of another role, and a redeemed share link
  can lower a role that is held under a user name.
* A failure between the two transactions of `create_project` leaves a project without an
  owner. `patch_project` and `patch_reference` write back whole rows.
* An upload that overlaps a deletion leaves a full-text row without its blob.
* A mark without an id is known by its timestamp (`lib.rs:1380`): of two suggestions made in
  the same millisecond one is not projected. `ReviewViews` is stated for distinct times.
* A document at `review.typ` takes the place of the generated file of that name.

Compile: more compilations may run than `max_concurrent_compiles`, because a timed-out task
goes on after its permit was returned.

Libraries:

* The redline holds no more than nesting. `redline.rs:36-37` says it "never turns compilable
  source into non-compilable"; `RedlineSafe` says so of brackets and math, for styles whose
  markers nest, and not for spans in code mode, behind a backslash or in raw text.
* `RedlineStyle::validate` (`redline.rs:238`) counts each kind of bracket on its own, so it
  takes a marker like `#f([)]` for "a complete, self-contained Typst fragment", as
  `redline.rs:146-149` asks. Check `ValidStylesNest` in `Library.cfg` to see a redline with
  such a style that no longer nests.
* `deduplicate` (`nisaba-references/src/lib.rs:695`) forgets the keys of an entry it merges. A later
  entry that shares only one of those is kept, which another order of the entries would not
  have done. Lines 685-686: "Any matching DOI, PMID, or normalized title is enough to merge
  two records". Check `MatchesMerge` in `Library.cfg` to see it.
* `deduplicate` keeps one full text of a group of duplicates, the first (lines 701-703); any other
  is dropped. Lines 684-685: "merging unknown tags, provenance and full text from later records".
  `MergeOf` says which one is kept.
* A RIS file does not hold every name and DOI. A name of several words with nothing behind its
  comma, like `World Health Organization,`, is a family name that is written without the comma and
  read as `Organization, World Health` (lines 68-77, 385-409). `normalize_doi` (lines 730-738)
  takes each prefix off once and in lower case, so `doi:https://doi.org/10.1/x` keeps a prefix at
  the first import and loses it at the next, and so does `DOI:10.1/X`. Lines 175-176: the
  representation "makes round trips possible". `RisRoundTrip` compares the names for which
  `NameStands` and the DOIs for which `DoiStands`, and everything else RIS has a place for.
* `number_bibliography` numbers entries, not ids (lines 1040-1047): an id that is there twice leaves
  a gap, and `validate_export` then refuses the export. The app's ids are UUIDs; the two properties
  that need distinct ids say so (`IdsDiffer`).
* Exported RIS notes carry a key the importer does not read; `number_bibliography` appends
  uncited entries by id, where its comment says in input order.

## 5. Proofs

`SyncRoomProofs` proves, for all peers, connections, updates,
dependencies, capacities and environments that satisfy the assumptions of `SyncRoom`
(`PeerOf` and `Author` are functions, dependencies are a transitive irreflexive
relation, the set of peers is finite, channels hold two frames, the sentinels are
distinct):

| Theorem | States | Inductive invariant |
|---|---|---|
| `TypeCorrect` | `TypeOK` | with `JobOK`: a task that handles an update holds one |
| `SlotsNeverStolen` | `LiveOrSignalled` | `SessionInv`: generations are unique and bounded by `nextGen`, a registered connection is between join and leave, and `LiveOrSignalled` |
| `SessionsBounded` | `SessionCap` | every registered peer is in the roster; only `join` adds a slot, and it has just compared the roster with the cap |
| `WelcomeComesFirst` | `WelcomeFirst` | `Greeted`: nothing is queued for a connection before its join; while a client waits for its welcome, the channel of its registered session starts with it |
| `RelayAfterLog` | `RelayedIsDurable` | `DurableInv` |
| `AuthorityNeverShrinks` | `AuthorityKept` | `DurableInv` |
| `ReceiptMeansDurable` | `ConfirmedIsDurable`, protocol 2 | `DurableInv`, `CausalInv` |
| `ConnectedMissNothing` | `NoUpdateMissed`, protocol 2 | those two, `HelloInv`, `NothingMissed` |

`RelayPost` and the lemmas `EvictPost` and `FanoutPost` say once what an eviction or a
fan-out leaves behind; every action that uses the relay cites them.

`DurableInv` is the write-ahead argument: everything at a client, in a channel, in a
snapshot or about to be fanned out was imported, and everything imported is logged.
Because a failed append may leave a record that the next append overwrites, "logged"
alone is not stable: only records the authority has are. The record of a session
between append and import is safe because that session is the only one inside the
updates mutex, so the invariant includes `LockHeldOnce`.

`CausalInv` is the argument for one batch at a time: with receipts, a client's queue
is in causal order behind what the authority has, so an update that arrives finds its
dependencies there, "logged" and "applied" agree for it, and dropping the head of the
queue on a receipt forgets only what the log can rebuild. It fails without receipts.

`NothingMissed` strengthens `NoUpdateMissed` from what is applied to all that was
imported. A join hands over what the HELLO's version vector lacks, and `HelloInv` says
that vector was honest and stays so; an import puts its update among the unsent; a
fan-out moves it into each channel or evicts the peer.

The stores and the registry:

| Theorem | States | Inductive invariant |
|---|---|---|
| `NumbersContiguous` (`S3OpLogProofs`) | `TypeOK`, `NoGap`, under `LateSpec` | `NumInv`: a counter, a number given out or a number of parts to read is at most one beyond the contiguous run |
| `ObjectsAreALog` | `ImplementsOpLog` | `OrderInv`: only the holder of the lock is between its number and its answer; a number that is given out is the next free one, or the last one if its append failed; acknowledged records are in their places |
| `AckedNeverMoves` | `OpLog`'s `AckedKept`, of the objects | `AbstractInv`: in `OpLog` acknowledged and failed appends are disjoint; the rest is `ObjectsAreALog` |
| `ReadsAreComplete` | `ReadComplete` | `ReadOK`: what a read owes lies below what it fetches, and acknowledged parts are not rewritten |
| `AckedRecordsAreRead` (`RecoveryProofs`) | `AckedBeforeTearKept` | `FsInv` |
| `CleanFilesReadBack` | `CleanReplay` | `FsInv` |
| `ReadsAreExact` | `ReadExact`, which is those two | |
| `RecoveriesAreComplete` | `RecoveryComplete` | `FsInv`, `RecoveryInv` |
| `RoomsStayBounded` (`AdmissionProofs`) | `TypeOK`, `RoomsBounded` | `CountInv`: live rooms plus the tasks between the comparison and the insertion (`Openers`) |
| `OpensAgree` | `RoomCurrent` | `CurrentInv`: until a document's room is evicted, everybody who was handed a room of it was handed the registered one, and nothing is logged through another |

`NumbersContiguous` holds under `LateSpec`, hence under `Spec`; `ObjectsAreALog`,
`AckedNeverMoves` and `ReadsAreComplete` are about `Spec`, where a PUT that was given up has no effect later:
under `LateSpec` they are false (see the findings). `RoomsStayBounded` holds for
any finite sets of documents and tasks: every opener has seen the map below the cap, or
has evicted, and each adds one room.

`RecoveryProofs` holds for any updates, record sizes, value of a misread header, environment
and calls of `snapshot_now`. `FsInv` says that the file begins with whole records
(`Prefix(file, n)`): with nothing else until a record is torn, and from then on with at
least every acknowledged record that is not stranded, within the synced part as well, so
that a crash cannot cut into it. The properties of a read are not inductive, since they
hide where the records lie. What `read_records` makes of such a file is an induction
downwards over the positions where a record starts (`ReadsWhole`, `ReadsExactly`,
`ReadsAll`). The library's induction rules take an operator, which the provers cannot
instantiate; these proofs use the least element of a set of numbers instead (`Least`, from
`WFMin`), and show first that the recursive function exists (`ParseExists`, `FlattenExists`,
`PicksExists`). `PrefixCut` is the crash: whole records cut off anywhere leave whole records.

`RecoveryInv` is about the snapshots. `FilesKept`: a put never renames over a file that was
there at the last start, and the file of a put that returned is what it wrote until the
history counts it as gone. `Lineage`: what is in the files or on its way there are stages of
one growing authority, each contained in the next, unless a file that is there for good has
a version ahead of its bytes. While the service runs this is plain; a restart keeps it
because `latest` then picks a file that holds all the others (`LatestHoldsAll`, for any order
of the listing), so the new authority continues the old. Such a file can come about, because
`snapshot_now` reads the version after the bytes, and from then on it may win over a fuller
one: this is the exception in `RecoveryComplete`, and the proof shows that there is no other
apart from stranded records that no snapshot has. `RecoveryLogs` says that `Recovery` only takes
the log's steps, so the theorems about the file hold of it too.

The compile service (`CompileProofs`), for any handlers, projects, requests, permits, cache
sizes and times that satisfy `CompileAssumption`:

| Theorem | States | Inductive invariant |
|---|---|---|
| `BuildsExact` | `BuildExact` | `CompileInv` |

`CompileInv` is a conjunction. `Shape` types the parts the argument reads. `Progress` says
what a handler has at each point: a valid request, a worker once it has one. `Held` says
that every worker a handler or a task can reach is built and coherent: what its universe
sees is its workspace, and what `update_sources` remembers is what it holds, even after a task that
failed half-way. `Exclusive` says that a task between update and compile holds its worker's
mutex and that the worker holds exactly its request. `Outcome` says that what a finished
task built is what its request asked for. `BuildExact` alone is not inductive: it says
nothing of a task that is running, nor of the worker the next one starts from. The lemmas
`NewWorkerCoherent`, `ApplySourcesExact` and `UpdateSourcesExact` are about the worker
alone; the other lemmas say that the caches' evictions only remove, and that each action
keeps the invariant.

Tokens and keys (`AdmissionProofs`), for any sessions, tokens, keys and limits that satisfy
`AdmissionAssumption`:

| Theorem | States | Inductive invariant |
|---|---|---|
| `WithdrawnKeysDie` | `WithdrawnKeyDies` | `KeyInv` |
| `PushesAreAuthorized` | `UpdatesAuthorized` | `FrameInv` |

`KeyInv` follows a withdrawn key from hand to hand: it is not published (`ProviderOK`); an
answer under way that still names it was asked for before the withdrawal (`FetchOK`); cached
keys that still hold it were stored at most one request later (`KeysOK`); a cached token
that it signed was checked at most `MaxAge` after that, and expires a token's life later
(`CacheOK`, by the lemma `CacheKeeps`: the cache only forgets, but for a token just
validated). `VerifiedInTime` adds these up for a session that is let through, and
`AsksVerified` says that no other step lets one through.

`FrameInv` follows a frame from its arrival to its import. `Witnessed`: the memberships and
bodies seen since it arrived include the current ones, so whatever the app answers is among
them (`Answered`). `Entitled`: past `refresh_access` the session's role is what that answer
gives it, and not read-only; the lemma `ResolvedIsGranted` says that such a role is within
both the membership and the token. `LockOK`: a session inside the policy or the import has
the updates mutex, so the text it judged is the text it changes. `Judged`: a reviewer's update that waits to
be imported has one of the reasons the policy accepts, still true (`MayImport`).

The app (`AppProofs`), for any tasks, users, projects, rows and requests:

| Theorem | States | Part of `AppInv` it follows from |
|---|---|---|
| `AppCorrect` | `AppInv` | |
| `HistoryIsFaithful` | `HistoryFaithful` | `DocInv` |
| `SavesDoNotInterfere` | `SavesKeepOthers` | `DocInv` |
| `RolesAreGranted` | `RolesGranted` | `LinkInv` |
| `DanglingNeedsRace` | `DanglingOnlyByRace` | `RefInv` |
| `BuildsAreComplete` | `BuildsComplete` | `BuildInv` |
| `ProjectsDoNotInterfere` | `OtherProjectsKept` | all of them |

`AppInv` says what a handler still knows at each of its awaits, when other requests have run
since it read its row. None of the six properties is inductive alone, since none speaks of a
row that waits to be written. `DocInv`: a row that waits for `update_document` has a revision
at most one beyond the table's; if it is exactly one beyond, the table has not moved since the
read, so row and table differ only in the fields the request sets. `EntriesOK` and `PathsOK`:
an entry that `patch_project` has looked up is gone or still of its project, and paths are
unique. `RefInv`: between the two halves of an upload or a deletion the row, the blob or the
race is there to account for the other. `LinkInv`: what a redemption is about to insert or to
upgrade to is no more than a link somebody made and than the token's role. `BuildInv`: what a
build has gathered so far agrees with itself; it says nothing of the tables, which may have
changed. All of them rest on one fact: an id is inserted by one request only, so a row that a
handler looked up never comes back under another project (`DocKnown`, `RefKnown`, `LinkKnown`).

The proof assumes `AppAssumption`, `SourcesAssumption`, `RequestAssumption` and
`RowAssumption`. The code justifies them: routes parse ids and roles before a handler runs,
new ids are random uuids and tokens (`FreshIds` for the requests under way, `FirstDocs[q.doc]
= NoRow` and its like against the tables at the start), `refs.yml` and `review.typ` are paths
in the entry's own directory, and the tables at the start hold what the service may write:
paths unique, a full text only for a reference, an entry only of the same project. `TaskOK`
types what the argument reads; every step is split into the handlers that touch a table and
the lemmas that say what all the others leave alone (`Frame`, `DocQuiet`, `EntryQuiet` and
their like). The attempt found that `InjectBibliography` did not say what happens when the
entry is itself the missing `refs.yml`; it now inserts first, as the code does.

The core and the libraries (`CoreProofs` but for the last), for any texts, marks, review items, references,
bibliographies and sources:

| Theorem | States | Rests on |
|---|---|---|
| `DocumentsAreTyped` | `CoreTypeOK` | itself |
| `MarksStayInTheText` | `ResolutionsKeepBounds` | `CoreTypeOK`, `ResolutionStep` |
| `ViewsAreKept` | `ResolutionsKeepViews` | `CoreTypeOK`, `ResolutionStep` |
| `OrphansAreExact` | `ThreadsFollowAnchors` | `CoreTypeOK`, `SweepExact` |
| `ReportsAreExact` | `ValidationExact` | `CoreTypeOK`, `SweepExact` |
| `OffsetsConvert` | `OffsetsExact` | `LibraryInv`, `ConversionExact` |
| `ReviewsAreExact` | `ReviewViews` | `LibraryInv`, the view of a projection as ranks |
| `DeduplicationKeeps` | `DedupLossless` | `LibraryInv`, `DedupExact` |
| `CitedTextsAreExported` | `CitedTextsExported` | `LibraryInv`, `NumberIsRank`, `ArchiveFiles` |
| `RedlinesAreSafe` | `RedlineSafe` | `LibraryInv`, `RedlineRenders` |
| `ComparisonsAreFaithful` (`CoreDiffProofs`) | `DiffFaithful` | `LibraryInv`, `DiffCharsFaithful`, `DiffSeqShortest` |

A document's properties are about single steps, so the invariant is only its type; what has to
be proved is what the functions compute. `Library` answers one request per behaviour:
`LibraryInv` says that the answer is the function's value for a request of the right shape, and
each theorem then speaks of the function. All of these functions go over a text, a list of
marks or a list of entries. `Counted` is induction from 0 to `n`, from the least number that
fails; `Iterates` says that a function defined from its value one before exists and stays in
given sets. Every fold, scan and recursive function of the modules is brought into that form
once, and the lemmas about it are inductions of that kind.

* A resolution that removes text cuts a range from every other mark as well. `CutProjection`
  says that projecting after the cut is projecting before it, for the view the resolution
  promises; `ResolutionStep` adds up the resolutions of a batch, which work on a copy of the
  document as earlier ones have left it.
* `SweepExact` is `is_range_fully_deleted`: the sweep over the deletions, sorted by their
  starts, ends at the end of the anchor exactly when every position of it is in one of them. A
  position inside the text is a character (`AnchoredSurvives`); an anchor that overhangs the
  text has others, so `ThreadsFollowAnchors` and `ValidationExact` make an exception for it, and
  `OrphansVanish` says what would hold without it.
* A projection deletes by offset while its property counts characters: the `k`-th character of
  a view is the one of rank `k` among those that are not hidden. The numbering of a
  bibliography is a rank as well, by first citation, if no id is there twice
  (`NumberIsRank`, `NumbersRise`).
* `DedupExact` follows the table of `deduplicate` from key to entry: every key of a kept entry
  leads to it, and each entry's home is where it was put. An entry that is kept is the `MergeOf`
  itself (`MergeOfOne`), and taking one more entry into it makes it the `MergeOf` one more
  (`MergeOfMore`).
* A redline is safe because whatever it puts between two positions of the text nests by itself.
  `NestLifts` says that a piece that nests can be put anywhere without changing what is open;
  `SafeSpanNests` says that a span `classify_inline_safety` lets through nests, `EmitNests` and
  `EmitKeeps` what a change emits, wrapped or between two complete markers, and
  `RedlineRenders` takes both along the segments to the end of the text.
* A comparison (`CoreDiffProofs`) is an argument in two halves. The first is about scripts: an
  `Aligned` script covers both texts, and its equal runs agree. `diff_rec` calls itself on
  pairs of texts, so `ScriptsExist` first shows that this recursion has a value: `StepLocal`
  says that a step looks at shorter pairs only, and the partial solutions by length agree
  (`PartialsAgree`). `DiffSeqSolved` is then an induction over the length of the pair, with
  `StepSolved` as its step: the script is aligned, and when the table is within
  `DiffWorkLimit` its equal runs are as long as any common subsequence (`Longest`). That rests on
  `LcsRowsExact` (a row of the table is the length for each prefix), `EndsShared` (common ends
  may be kept), `LongestSingle` and `HalvesBest` (some cut of the other text loses nothing, and
  `Split` finds it). `LcsLengthExact` says the same of the reference definition, so the two
  agree (`DiffSeqShortest`).
* The second half is about texts: a tier cuts both texts into parts (`CutParts`), a script
  shares the parts out among its groups (`GroupsShare`), and if the changes of every group give
  its two texts, those of all groups, merged by `push_change`, give the two sides and alternate
  (`GroupsFaithful`). `RefineFaithful`, `WordsFaithful` and `RegionFaithful` apply this from the
  last tier to the first, with or without refinement, so no limit enters.

The assumptions are those of the modules. `CoreAssumption`: mark ids are numbers and finitely
many. `DocumentAssumption` and `LibraryAssumption`: texts are sequences, and marks, items,
entries and styles have the fields their types have in the code; nothing is assumed of their
values, so ranges may be reversed, overlap or exceed the text and ids may repeat; where a property
needs more, it says so. `ReferencesAssumption`: ids are
listed once each in the order of their bytes. `DiffAssumption`: the two limits of the comparison
are numbers; any will do, 0 included.

Only model-checked:

* `ReadsItsOwn` and `CitationsExact`: the RIS reader and the scanner are functions of a whole
  file, whose modes and tags multiply the cases of an induction over it;
* the liveness properties `EvictedEnds`, `UpdateAnswered`, `UpdateReaches` and
  `RequestsAnswered`: the provers do not handle fairness;
* `AckedKept`, `EvictionTerminates`, `OrphansVanish`, `CommentsIgnored` and `NamedArgumentsSkipped`,
  which do not hold.

## 6. What is left, and what is not modelled

Left to do: proofs about the RIS round trip and the citation scanner; the S3 snapshot store; coalesced rosters,
where `flush_pending_presence` has no caller; the seeding of an empty document by two first
clients, which needs a model of how Loro merges two equal texts; the editor's autosave and
preview scheduler.

Not modelled: Typst compilation, signature verification, Loro itself (external libraries,
modelled by how the code uses them); routing, health probes, configuration; YAML and ZIP
bytes; DOM code; schema and deployment files, which have no state a model would tell apart.
