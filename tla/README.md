# Verification of the personal media server

A TLA+ development beside the C sources in `src/`. It models the core of the
server: the threads that replace the library catalogue while HTTP handlers read
it, what happens to item ids and metadata overrides over rescans, crashes and
restarts, the user's playlists, favourites and history, and the grouping of tracks
into artists and albums, how requests find their handler and searches their hits, and
the logger that both threads share. TLC checks the models on small instances and TLAPS
proves, for every instance, the safety of the threads, the soundness of every catalogue
that is served, saved or loaded, that ids stay with their files and overrides show over
any history, that the user store is atomic, what the sinks of the logger hold, how
requests are dispatched, what a search finds and in which order, what a discovery shows
while a rescan interferes, and which numbers are read.

## The system

`media-server` is one process with two threads. The main thread
(`src/src/main.c`) loads or scans the library, opens the user database, starts
the HTTP server and then polls it; every HTTP handler runs to its end inside one
call of `http_server_poll`. The other thread is the scan worker of
`src/src/library/runtime.c`, started by `POST /api/library/scan` and after a
start from a snapshot, at most one at a time.

| component | state | operations | talks to |
|---|---|---|---|
| library runtime (`library/runtime.c`, `api/context.h`) | `app_context_t`: the catalogue and browse-index pointers, the mutex, `scanning`, `metadata_mutating`, `worker_joinable`, `worker`, `cancel_scan`, the outcome of the last scan | request a scan (forced or not), the worker, patch a track, patch an album, put a cover, status, shutdown | every other part of the library; called by the handlers and `main` |
| catalogue (`library/catalog.c`) | items with id, path, scanned and effective metadata, override mask; `next_id` | add, clone, adopt ids, apply patch, apply override | built by the scanner, the store and the runtime |
| catalogue store (`library/catalog_store.c`) | an SQLite file: `meta`, `items`, `metadata_overrides` | load, save, apply overrides, patch overrides, each a connection and a transaction of its own | runtime, `main` |
| scanner (`library/scanner.c`) | none; polls the cancel flag | walk the library root | file system, catalogue |
| start and exit (`main.c`) | `g_stop` | load or scan, save, open, listen, poll, clean up | everything |
| browse index (`library/browse.c`) | artists, albums and cover links of one catalogue | build, find, "owns item" | catalogue |
| user store (`library/user_store.c`) | an SQLite file: playlists, favourites, history by track id | create, rename, delete, set tracks, add, remove, append, list | handlers |
| router, server, JSON (`http/`) | routes; the event loop of a library | match, dispatch, reply | handlers |
| handlers (`api/`) | none | one request each; they lock the context to read both pointers | runtime, user store, index |
| search and strings (`library/search.c`, `util/str.c`) | none | ranking, bounded edit distance | handlers |
| media (`media/`) | none | kind of a path, tags of a file, path resolution | scanner, handlers |
| logging (`util/log*.c`) | sinks, level, a mutex | init, write, shutdown | both threads |
| configuration (`config.c`) | none | parse arguments | `main` |

What is hard to test here, and what makes each part correct:

- **Two builders, one pointer pair.** The worker and a metadata mutation each
  build a catalogue from the current one, for seconds, outside the lock, and then
  replace it and free it. Only two flags keep them apart. Wanted: no update is
  lost, nothing that somebody reads is freed, nothing leaks, and a handler never
  sees the catalogue of one generation with the index of another.
- **Join under a mutex the joined thread needs.** A forced scan and the shutdown
  cancel the worker and join it; one flag (`cancel_scan`) serves every worker.
  Wanted: every join returns, a new scan never inherits the cancellation of the
  old one, and no worker outlives the context, not even one that has already
  reported.
- **Saved before served.** A new catalogue is written to the snapshot database
  before it is swapped in, and the process may die at any point. Wanted: a restart
  finds what was served last, or the one catalogue that was about to replace it.
- **Ids for ever.** Clients, playlists and history hold item ids; ids live in
  memory and in the snapshot, and are handed on from catalogue to catalogue by
  path. Wanted: an id never comes to stand for another file, and a file that stays
  keeps its id.
- **Two copies of every override.** A patch is applied to the item in memory and
  merged into its database row by different functions. Wanted: after any history
  they agree, and nothing but a patch changes them.
- **Two databases, no transaction over both.** Track ids are validated against the
  catalogue and then written to the user database, where they outlive the
  catalogue. A list of tracks is replaced row by row. Wanted: a call happens wholly
  or not at all and its reply tells which; what is recorded was once served; the id
  of a deleted playlist never names another; pages skip and repeat nothing.
- **One index, several readings.** Counts, links and cover directories are computed
  in one pass over the catalogue, and what an album owns and where its cover goes is
  computed again when it is needed. Wanted: they agree for every arrangement of
  tags and paths, and in every order of the catalogue.
- **One scale for every match.** The classes of a search, the position of a match and
  the length of a text share one integer, and fuzzy matches try windows of several
  widths. Wanted: a better class always wins, nothing within two edits is missed, and
  pages cut one order.
- **Numbers of clients.** The check against overflow exists in five copies. Wanted: a
  number is read exactly or refused, and never becomes another id (negative ids apart,
  see the end of the findings).
- **One logger, two threads.** The level is read without a lock; the sinks are written
  under one. Wanted: no line is lost or split over two orders, whatever sink fails.
- **Starting from a snapshot.** What one version of the file is written by
  `catalog_store_save` has to pass the checks of `catalog_store_load`, and what
  does not pass has to be replaced.

`PROJECT.json` lists every hazard with its source line and the properties that
cover it.

## Modules

| module | role |
|---|---|
| `LibraryRuntime` | the two threads, the mutex, the flags, the two pointers, allocation and the exit path |
| `CatalogCommit` | the abstract single writer that `LibraryRuntime` implements |
| `LibraryRuntimeProofs` | the inductive invariant and the theorems about `LibraryRuntime` |
| `Catalog` | the catalogue as data: ids, adoption, patches, overrides |
| `LibraryStore` | files, catalogue, snapshot database and the jobs that change them, with crashes and restarts |
| `LibraryStoreProofs` | lemmas about the operators of `Catalog`; the inductive invariants and theorems of `LibraryStore`: for any database, and for the whole history of an undamaged library |
| `UserData` | what the user store promises: playlists, favourites, history, with atomic calls |
| `UserStore` | the user store statement by statement, its handlers and its pages; it implements `UserData` and is checked directly |
| `UserStoreProofs` | the inductive invariant of `UserStore`, that it implements `UserData`, and that pages show all of a list |
| `Browse` | the browse index as a function of the catalogue, patches of albums and uploads of covers |
| `BrowseProofs` | that the index counts, links and shows what it should, for any catalogue |
| `MCBrowse` | directories for the instances of `Browse` |
| `Log` | the logger: sinks, level and lock, two threads, and the life of the worker around it |
| `LogProofs` | the invariant of `Log`: the lock, the unlocked read, and what the sinks hold |
| `Router` | registration and matching of routes, and the routes of the API |
| `Search` | edit distance, scores, ranking and pages |
| `Inputs` | numbers in paths, queries, bodies, file names and tags |
| `Requests` | the requests that only read, from the registration of the routes to the reply; composes the three above |
| `InputsProofs` | what a loop over a text computes, sets put in order, and that every number is read exactly or refused |
| `SearchProofs` | the edit distance, the windows, the scale of scores and the ranked hits |
| `RequestsProofs` | the inductive invariants and theorems of `Requests`: dispatch, discoveries, numbers, searches and lists |
| `MCRequests` | libraries, paths and texts for the instance of `Requests` |

`LibraryRuntime` and `LibraryStore` look at the same program from two sides. The
first knows who holds which pointer, but a catalogue is only a stamp
(*generation*) that says which catalogue it was built from. The second knows what
a catalogue contains, but only one job works at a time, which is what the first
proves (`OneBuilder`, `ImplementsCommit`).

Operators whose name ends in an underscore and a word (`MayMutate_DuringScan`)
are faulty variants of the operator that follows them. No action uses them. Each
property of a passing run has one in `PROJECT.json` ("mutants") with which it
fails.

### LibraryRuntime and the code

| in the model | in the code |
|---|---|
| `catalog`, `browse`, `mu`, `scanning`, `mutating`, `joinable`, `worker`, `cancel`, `ok`, `err` | the fields of `app_context_t` |
| `stop` | `g_stop` |
| `disk` | the catalogue the snapshot database holds |
| `catalogs`, `indexes` | what `catalog_create`/`clone` and `browse_index_build` allocated and nobody destroyed yet |
| `parent[g]` | the catalogue whose ids and edits `g` took over: cloned from it, or adopted from it |
| `new`, `old`, `oldIdx` | the locals `new_catalog`/`copy`, `old_catalog`, `old_browse` |
| `view` | what a handler has read under `api_context_lock` |
| `Boot`, `BootFails`, `Ready`, `BeginShutdown`, `Free` | `main` |
| `RequestScan`, `RequestReap`, `JoinWorker`, `Relock`, `Spawn`, `SpawnFails` | `library_scan_request`, cut where it gives up the mutex or waits |
| `WStart` ... `WSwapBrowse`, `Dispose` | `scan_worker` |
| `BeginMutation` ... `MSwapBrowse`, `AbortMutation` | `metadata_mutation_begin/finish/abort` and the three functions that use them; the begin of an album patch and of a cover is the same code inlined |
| `ShutCancel`, `ShutJoin`, `ShutClear` | `library_runtime_shutdown` |

A critical section in which nothing else can happen is one action that needs the
mutex to be free. It is held across steps where a reader could otherwise see the
middle: between the two pointers of a swap, between the two reads of a handler,
and between the decision to start a thread and its start. The early returns of a
request that is refused change nothing.

`library_scan_request` and the mutations test `metadata_mutating`, which is always
false there: all of them run on the main thread, one after the other. The guards
are kept as the code has them (`MayScan`, `MayMutate`).

`HasLibrary` and `HasDb` say whether the process was started with `--library-dir` and
`--catalog-db`, both optional; a snapshot is used with both (`HasSnapshot`). Without a
library `Boot` leaves `ok` false and `err` empty (`ScannedOk`, `main.c:166`), a scan is refused
before the mutex is taken (`Requesting`, `runtime.c:206`) and no mutation can build
anything, as the catalogue has neither track nor album.

### LibraryStore and the code

`fs` is what the files hold; `db` the snapshot database as a record (schema, root,
`next_id`, items, overrides); `mem` is `ctx->catalog`; `job`, `draft`, `seen`,
`edit` the work in progress; `served` the history of every id ever shown. An item
has its id, its scanned metadata, the metadata it shows and its override mask.

Each transaction of `catalog_store.c` is one step. The scan passes one entry per
step, in any order, so that files change while it runs. The steps of a job are
those between which a file may change or the process may die (`Die`). A
subdirectory that is unreadable while the scan passes it is skipped, as
`scan_dir` does. `KeptOverrides` is the deletion of another root's overrides
inside the save. `Tamper` damages the closed file.

### UserStore and the code

`db` is the user database, `work` what an open transaction has made of it and
`inside` whether one is open; `call` is the handler under way and where in
`user_store.c` it is (`at`); `present` is the set of audio ids in `ctx->catalog`
and `served` the history of it. A row of tracks is keyed by playlist and position,
as `UNIQUE(playlist_id, position)` demands; `last` is what SQLite remembers for
`AUTOINCREMENT`. `TracksIn` is the `ORDER BY position` of a list: a row comes after as
many rows as have a lower position (`RowAt`).

Only the main thread calls the store, through one connection, so calls do not
overlap. What can come between two of their statements is a failure (`Fail`, with
the rollback of the code), the death of the process (`Die`: what was not committed
is gone) and the worker's swap (`Rescan`). `Check` is the critical section in
which a handler validates the ids of a request; the write comes after it, on
another catalogue perhaps. Handlers of one statement are one step; `Create` and
`Rename` then read the row for the reply, and may answer with an error for what
has happened (`user_store.c:221`); `TracksReplyTrue` therefore speaks of lists of
tracks only. A stream appends to the history like `POST /api/history` does, and before
the file is opened (`media_serve.c:58`), so it is `PostPlay`. Dates of playlists are left
out; those of favourites and plays are `clock`, which is not set back. `UserData` keeps
the time of every play too, so that a play that replaces an earlier one is not a step
of it.

`Page`, `Shown` and `Walk` are what the list handlers return and what a client
gets that asks for page after page.

### Browse and the code

`catalog` is a sequence, because artists and albums are numbered in the order they
are found; `index` is always `Build(catalog)`, one pass over the tracks
(`browse_index_build`) and one over the images (`link_album_covers`), as
`library_metadata_patch_album`, `library_album_cover_put` and the worker build a
new index for each new catalogue. A directory is a sequence of segments, and
`path_common_dir` the longest common prefix of two. `release_date` and `genre` go
through the same code and are one field. The sorted array of track links is a
function. `Pass` is a loop over the items of a kind, written as a function of the number
of items seen so far, which is what the proofs reason about. `None` is the empty
string of a missing tag. Sizes of buffers are not modelled.

Names are data: tags, directories and names of files come from small sets that
make tags and paths agree or disagree. Every arrangement of the tracks is an
initial state, as a scan may find any.

### Log and the code

| in the model | in the code |
|---|---|
| `initialized`, `minLevel`, `sinks`, `lock` | the fields of `g_log`; `"null"` is a sink that could not be created |
| `config` | `log_config_t` |
| `LogInit`, `LogInitFails`, `LogShutdown`, `LogClosed` | `log_init` and `log_shutdown`, called first and last by `main` |
| `Call`, `Acquire`, `SkipNull`, `WriteSink`, `Release` | `log_vwrite`: the unlocked test of the level, the lock, the loop over the sinks |
| `mu`, `LockContext`, `UnlockContext` | `ctx->mu`, with which either thread may log |
| `Spawn`, `WorkerEnds`, `Join` | the life of a worker in `runtime.c`, as far as it matters here |

`able` says which sinks open and `Unreliable` which may refuse a line later. `written`
is what the medium of each sink holds and `said` what each thread asked for, from
which `Due` derives what each sink owes it. A sink takes a line in one step; its text,
and the escape codes of the terminal, are left out. `LogShutdown` waits for the worker because
`main` ends the library before it (`Joined`), which `LibraryRuntime` shows
(`NoThreadOutlives`).

### Requests and the code

`RegisterRoute` adds the routes of `routes.c` to the router one by one, with the checks of
`router_add`; a failure ends the process. Then any request comes: `Request` dispatches
a method and a path (`router_match`) and, for an item, reads its id
(`api_parse_id_param`); `ListKind` and `SearchFor` answer one page; `Body`, `PatchBody`
and `ReadNumber` read the numbers of a JSON array, of a patch, and of a file name or
tag. Each is one step, as the handler runs on the main thread and holds the mutex over
its reply. A discovery is two (`CollectRandom` or `CollectRecent`, then
`AnswerDiscovery`), because the handler gives up the mutex between them, where a
rescan may come in (`Swap`).

A text is a sequence of characters, a path a sequence of segments (`PathAssumption`).
`Captured` numbers the parameters of a match by counting the spots before them, where the
code fills an array from the left. A loop is a recursive function of how far it has
come, and a sort puts each element after as many as come before it (`Ordered`), which
no two elements of these sets share. `Search` computes the table of
`str_edit_distance_ci` row by row and the score of `str_match_score_ci` branch by
branch; `Class` in `Requests` says what a match is without either, by the texts that
one and two edits make of the query. Like the code it tells the match of a substring by its
first place; `Documented` is the class as `README.md:248` has it, where any place at the
start of a word counts. `ListsRanked` says which matches come first where the two agree;
where they do not, finding 5 shows what happens.

## Runs

| run | instance | shows |
|---|---|---|
| `runtime` | 2 thread ids, 4 generations, fairness | the invariants and action properties of the threads; `LibraryRuntime` implements `CatalogCommit`; scans, forced restarts and shutdown end |
| `store` | 2 tracks of which 1 comes and goes, a cover, ids up to 5, 1 field, 2 values | the inductive invariant of the history; ids, and overrides in memory and on disk, over every history of scans, patches, covers, crashes and restarts |
| `store_damaged` | 2 tracks, a damaged database | a damaged snapshot is never served, and is replaced |
| `user_store` | 2 playlists, 2 tracks, 2 entries in all, limits up to 2, 2 seconds | the inductive invariant of the user store; transactions, ids, rows, replies, order and pages; `UserStore` implements `UserData` |
| `browse` | 3 tracks; 2 tracks and up to 2 images with ids in either order; patches and an upload | counts, links, dates, cover directories, and which image becomes the cover |
| `log` | 2 levels, 2 calls per thread, any sinks asked for, any that fail to open, one that loses lines | the inductive invariant of the logger; lines are kept and in one order; the unlocked read |
| `requests` | every route; names of up to 4 and queries of up to 3 characters; pages of 1, 2 and more; up to 4 items while a rescan swaps them; numbers around each limit | dispatch, searches, pages, discoveries and numbers, against definitions that do not follow the code |
| `user_playlist_pages` | 3 playlists, room for 2, limits up to 3 | *violated*, see findings |
| `browse_upload` | 2 tracks, 1 image, an upload | *violated* |
| `store_returned_id` | 2 tracks | *violated*, see findings |
| `store_rejected_overrides` | 1 track, a damaged database | *violated* |
| `requests_ranking` | the names "ab" and "ab-b", of which one has the query "b" at the start of a word too | *violated* |

Bounds. `Worker` is the set of thread ids: two are enough for a new thread to get
an id other than, or equal to, that of the last one. `Gen` bounds how many
catalogues one process builds. An allocation with none left does not happen, which
the fairness conditions survive because every build can also fail; four let a
loaded catalogue be rescanned, patched and rescanned again. `runtime` uses no symmetry,
because it checks liveness too. `MaxId` stands for
`UINT32_MAX` and is small so that the range runs out. One field is enough for
overrides, since every field is treated alike and no code relates two of them;
two values tell an override from what was scanned.

`MaxPlaylists`, `MaxRows` and `MaxTime` bound the user data, `MaxRows` the entries
of playlists, favourites and history together; two are enough for reuse of the id
of a playlist, a duplicate in a list, a failure between two inserts, a tie of two
plays in one second and a second page. `LimitMax`, `PlaylistPage` and `TrackPage` stand for 200, 64 and 256
and keep their order. `Shape` says how many tracks and images a scan finds and
`MaxItems` how far uploads extend it: three tracks give a common directory of a
common directory, two images a tie. The constraint `Instance` of `browse` keeps three
tracks out of the root and dates on one album, and two tracks without dates, whose
covers do not depend on them.

`MaxLines` in `log` is two calls per thread: a line of each can then come before,
between and after the lines of the other. `log` lets every sink fail to open but only
one lose lines, as the code treats them alike.

`requests` counts in base three, with `U32Max` 7 and `U64Max` 127, so that numbers of a
few digits fall on both sides of every limit; the largest 64-bit numbers, which wrap,
are among them. `PageLimitMax` is below `U64Max` as 200 is below `ULLONG_MAX`. Names
of four characters hold windows of every width around a query of two or three, cut at
either end, and a query of four is refused (`QueryMax`). The names are all words of at most four characters
over two letters and a hyphen, spread over several libraries. The size of the window
buffer (`WindowMax`, 256) is 6, as the windows of a query of three have up to five
characters; `SearchProofs` treats any buffer and texts up to `PathMax`.

`runtime` switches deadlock checking off because the process ends ("done"); the other
runs that pass check it.

Fairness (`LibraryRuntime!Fairness`). A thread that can run runs: the tree that is
scanned is finite and so is every handler (weak fairness of the main thread while
it is inside a handler, the start or the exit). `BeginShutdown` is weakly fair
because `http_server_poll` returns after 200 ms or a signal. Workers are strongly
fair: a worker that waits for the mutex competes with handlers that take it again
and again, but between two polls the main thread sleeps without it. Nothing is
assumed of clients and signals.

## What is proved

`LibraryRuntimeProofs` proves, for any sets `Worker` and `Gen` that satisfy the
assumptions of `LibraryRuntime` (thread ids and generations are different things,
`HasLibrary` and `HasDb` are Booleans), so with and without a library or a snapshot:

- `Invariance`: `Spec => []IInv`. `IInv` has four parts: `TypeOK`; `BuildInv`
  (a thread has a new catalogue exactly while it builds one); `ControlInv` (what
  the flags say about where the threads are, among them that a cancelled scan
  always has somebody waiting for it); `MemoryInv` (which pointers of which place
  may be equal). No property is inductive alone: that nothing freed is read needs
  that the worker's `old_catalog` is still the served one, which needs that no
  mutation ran meanwhile, which needs that `scanning` is exact, which needs that
  a worker that ended is joined before the flag is set again.
- From it `TypeCorrect`, `MemorySafe`, `NothingLeaks`, `SingleBuilder`,
  `SnapshotSafe`, `ReadsConsistent`, `StatusTruthful`, `ThreadsEndFirst`, and the
  action properties `UpdatesKept` and `CancelNotInherited`. `StatusTruthful` says that the
  idle status of a server with a library is either ok or an error, and of one without
  a library neither; the run has a library, so the second half is proved only.
- `Implements`: `Spec => Commit!Spec`. A draft of the abstract writer is a build
  that is not published yet; the first store of the swap publishes it.

There is one lemma per part of `IInv` and in it one step per action.

`LibraryStoreProofs` proves, for any finite set of paths, any images among them, any
fields, any non-empty set of tags and any `MaxId >= 1` (the assumptions of `Catalog`
and `LibraryStore`), and whether or not `Tampering` damages the database:

- `StoreInvariance`: `Spec => []StoreInv`. `StoreInv` is `TypeOK`, `SoundCatalogues`,
  `RestartLoads` and `EditsTracks`. The two in the middle need each other: what a
  save writes loads again only if the draft is sound, and a catalogue that was
  loaded is sound only because the load checks it. So of a damaged database nothing
  is assumed (`LoadedSound`), and of a sound catalogue it is shown that every check of the
  load accepts what the save has made of it (`SavedLoads`). `EditsTracks`, that only
  tracks have overrides, keeps the type of the rows.
- From it `StoreTypeCorrect`, `CataloguesSound`, `RestartsLoad` and the action
  property `OverridesSafe`.
- It rests on the lemmas about the operators of `Catalog`, one for each way to make a catalogue.
  The one that matters is `AdoptSound`: `catalog_adopt_ids` gives every path that
  stays its old id and every new one an id that no item of the previous catalogue
  had, in the order of the scan (`NewPathsOrdered` counts them), and leaves a next
  id that is not below the previous one. `PatchShows` states that
  `apply_patch_to_item` and `merge_patch` agree for every patch.

It also proves, over the same constants, what needs an undamaged
database. Its hypothesis `~Tampering` is not a convenience: a snapshot that was damaged is
rejected and replaced by a scan whose ids start again.

- `HistoryInvariance`: `Spec => []HistoryInv`. None of the three properties is inductive.
  What was served says nothing about what will be unless the catalogues that are not
  served yet say the same: `IdsInv` relates the history to the database, to what is
  served and to the draft at each stage of a job, because the process may die at any of
  them and go on from the database. A draft of a rescan has no ids worth anything until
  `catalog_adopt_ids`, so it is `Continues` that the adoption establishes and the
  later stages keep. `ResidentsInv` says what the scan has listed so far (a file that
  stays is in the draft once it was passed), and `ShownInv` which catalogue shows
  which overrides: none before the rows are applied, all of them after, and those of the
  patch under way first in the draft, then in the rows. `StagesInv` tells a database
  that was never used for this root from one that loads.
- From it `OverridesAlwaysShown`, `ResidentIdsStable` and `IdsStayWithFiles`. The last
  has the hypothesis that some track is never removed (`ATrackStays`), as in the runs.
  Without it the statement is false: `catalog.c:217` returns early when the previous
  catalogue is empty, and forgets the next id with it. The proof shows that this is the
  only way an id is given twice.

`UserStoreProofs` proves, for any names, any set of natural numbers as track ids and any
bounds and limits that satisfy the assumptions of `UserStore`:

- `UserInvariance`: `Spec => []UserInv`. A list of tracks is replaced row by row, so what
  the open transaction holds is part of the invariant (`WorkInv`): at each statement
  it is the last committed data in which the first `k` tracks have taken the place of
  the rows of the playlist. `RowsInv` says that the rows of a list have the positions
  `0..n-1`, `ServedInv` carries the check of a request to its write, and `StagesInv`
  the order of the statements.
- From it `PositionsInOrder`, `RecordedServed`, the action property `TracksReply` and the
  refinement `PromiseHolds`: `Spec => Promise!Spec`. Every step but a commit or a
  single statement is a stutter of `UserData`; a commit of a list is the atomic
  `SetTracks`, for which the proof shows that reading `WithTracks` back by position
  gives the list that was asked for.
- `PagesTile`: for any list and any limit of a client, the pages it gets by adding its
  limit to its offset are consecutive, not empty, and end with the list, provided the
  room of a reply is at least the largest limit. That holds for tracks (256 and 200),
  and not for playlists (64), which is finding 3.
- `WalkIsList`: so the pages put together are the list. `FlattenSeq` is a recursive
  function; that it gives the list up to the end of each page is shown by the first page
  for which it does not (`FirstOf`, from the well-foundedness of the numbers).
- `PagesShow`: `Spec => []PagesShowTracks`. It rests on one more inductive invariant,
  `ListsInv`: there are finitely many favourites, and the history is appended to in the
  order of its dates. Only then is `ORDER BY played_unix DESC, id DESC` the history from its
  end (`PlayedReversed`), which assumes, as the model does, that the clock is not set back.

`LogProofs` proves, for any levels, number of lines and unreliable sinks:

- `LoggerInvariance`: `Spec => []LogInv`. Besides the types: a thread is inside exactly
  when it holds the lock; while a worker exists the logger is initialised and
  at the level that was configured, and nobody starts or shuts down (`LockInv`). Each
  sink is in the list once (`SinksInv`), and the thread inside has handed its line to
  the sinks its loop has passed and to no other (`LoopInv`), as its last line; so what
  earlier calls left is complete (`KeptInv`), and two sinks never hold two lines in
  opposite orders (`OrderInv`).
- From it `LinesReachSinks`, `SinksTellTheSame` and `UnlockedReadsSafe`: no step changes
  the logger while another thread exists, so that `log_is_enabled` may read it without
  the lock. `log.c:264` calls that "a benign race in this single-threaded server"; the
  scan worker logs too, and what makes it no race at all is the order of `main`.

`RequestsProofs` proves the five invariants of `requests`, for any methods, paths,
libraries, queries, bodies and names, any base, digits and widths of the integers, and any
limits of the router that satisfy the assumptions of `Router`, `Inputs`, `Search` and
`Requests`. Of these, `LibraryAssumption` says that the ids of a list differ, as
`SoundCatalogues` and the positions of `browse.c` have it, and that texts are shorter than
`PathMax` (512, the largest buffer of an item); `CaseAssumption` that a letter in lower
case stays as it is; `WidthAssumption` that `PatchMax <= U32Max < U64Max`; and
`DigitAssumption` that no space, no sign and not the `n` of `null` is a digit. The others say that
texts are sequences.

- `RequestsDispatched`: a request is answered by the one route that its method and path
  are built from, with the value its path has for the parameter, or by none. The words of
  a path tell which of its segments a route may have as a parameter (`Spots`), so that at
  most one pattern of the table fits it; and `router_add` refuses a second route of the
  same method and pattern. The inductive invariant (`RequestInv`) is that the router holds
  a part of the table without such doubles until the server is up, and all of it from then
  on.
- `DiscoveriesFair`. `DiscoverInv` adds what the first critical section leaves for the
  second (`Collected`): as many different ids as the limit allows of the tracks of then,
  for the recent ones the highest, from the top. It speaks of the library they were taken
  from and of no other, so that a rescan cannot disturb it; what the second section drops
  is then counted against what the library has lost. That the draw of the random discovery
  deals each track at most once (`Shuffled`) is shown for the loop after each card. Nothing
  is said of the total, see the end of the findings.
- `NumbersAreExact`. `reply` is compared with the value of a text by the places of its
  digits from the last one, while the code goes from the first, multiplies, adds and
  checks against the limit before each digit. `DecimalIs` says of the loop after each
  digit that it has the value of what it has read, or has refused a text whose value is
  above the limit; the value only grows from there. `TagExact` and `NameExact` do the same
  for the first and the only digits of a segment, and `IdParamExact` for `strtoull` with
  its sign and its wrap. That the path comes with the parameter it was matched by is
  `RequestInv`.
- `SearchesExact` and `ListingsRanked`, the second for the order the code and the README
  agree on (`Documented`). The inductive invariant `SearchInv` says that a
  reply is made from the library that is there when it is looked at: a rescan comes only
  into a discovery, because the handlers of searches and lists keep the mutex. Everything
  else is in the lemmas of `SearchProofs`: a page is a piece of the hits (`PageShown`),
  the hits are the entries with a score above zero, each once, by score and then by id
  (`HitsRanked`), and the score of an entry is in the band of its class (`EntryScored`).
  As in the invariants, fuzzy queries are those whose windows fit the buffer
  (`Exhaustive`), see the end of the findings.

`SearchProofs` holds what that rests on, for any texts:

- `DistanceCounts`: `str_edit_distance_ci` of a text and a query is at most 0, 1 or 2
  exactly for the same text, one edit, and two edits. One direction follows the table cell
  by cell (`TableEdits`: a cell of `d <= 2` means that one prefix is within `d` edits of
  the other), the other one bounds how far one edit moves a whole row (`EditNear`).
- The windows miss nothing (`WindowFor`): two edits change the length by at most two, and
  a query of two letters that loses both is the empty text, which no part of a name is.
- `MatchesRanked`: the classes of `Class`, told from the texts without distances or
  windows, and by the first occurrence as in the code, have bands of scores that are apart (`Scale`), whatever the position and the
  length: these cost less than 52 000 of the 100 000 between the substring classes and
  less than 6 000 of the 10 000 between the fuzzy ones of a part, but only for texts
  shorter than `PathMax`. With texts of more than 900 characters the bands of the last two
  (3 and 2) would overlap.
- `PlainRanking`: the same for searches that are not fuzzy and for any characters, with
  the classes stated by the place of the first occurrence.

`InputsProofs` holds, apart from the numbers, what the proofs about loops share. The value
of a recursive function at `n` follows from the facts about its steps (`LoopRuns`,
`LoopIs`), by the first step that would break them (`FirstOf`), as the prover has no
induction to offer; and `OrderedIs` says that a finite set under a total order comes out
of `Ordered` once each and in order.

`BrowseProofs` proves the four properties of `Browse` for any tags and directories that
are texts and sequences of texts, any number of tracks and images a scan finds and any
number of uploads (the assumptions of `Browse`):

- `BrowseInvariance`: `Spec => []BrowseInv`: the items of the catalogue have distinct ids
  (`Catalogue`), and the index is `Build` of it. Both are kept by patches, which change no
  id (`CatalogueChanged`), and by uploads, whose image takes an id that no item has
  (`NewId`). What is left to show is what `Build` makes of any such catalogue.
- A pass is a recursive function, so the prover has no induction for what it computes.
  `PassSteps` unrolls it into the indexes after each item; what these keep is then shown by the
  first item that would break it (`FirstOf`, from the well-foundedness of the numbers).
- `GroupedInv` is what the pass over the tracks keeps, for the tracks it has seen:
  artists and albums have different names, an artist counts its tracks and albums, a
  track is linked to the album of its artist and name, and an album counts its tracks,
  has their date unless two differ, and the longest common prefix of their directories
  (`LongestNext`: that of one more is the common prefix with the one so far). That an
  album is never empty is part of it: the first track sets the date and the
  directory, and only then may the others be compared with them.
- `PicturedInv` is what the pass over the images keeps: nothing but covers differs from
  the index it began with (`SameBut`), so that the album of an image is the same throughout the
  pass, and each cover is the best so far (`CoverInv`). It needs that `Better` is a
  total order of images with different ids (`BetterOrder`); so the choice does not
  depend on the order of the catalogue.
- From it `CountsExact`, `DatesExact`, `DirsExact` and `CoversBest`.

The proofs corrected the models where these could not be reasoned about: two arms of
a `CASE` in `UserStore!DeleteRows` both held for a delete, and TLC took the first;
the definitions of order (`TracksOf`, `Ordered`, `Captured`, `LinesKept`, `SinksAgree`) are stated by
positions and counts where they were sorts and filters, with the same states; the passes of
`Browse` and the loops of `Search`, `Inputs` and `Requests` are recursive functions where
they were folds. `SearchesExact` could not be proved without `Exhaustive`: queries of 254 and 255
letters skip windows.

Only model-checked:

- Liveness (`ScanEnds`, `RequestReturns`, `ServerStops`): out of reach of the prover, as is
  `ENABLED`, and with it the absence of deadlock.
- That `PagesShowPlaylists`, `UploadedIsCover`, `RankedAsDocumented` and the other properties
  of the failing runs are violated: the trace is the evidence.

Every invariant and action property of a passing run, and each refinement, is stated by a
theorem.

## Findings

Each is a run that must fail; the trace is the evidence.

1. `store_returned_id`: a track that one rescan misses comes back under a new id,
   because `catalog_adopt_ids` knows only the paths served now. The README
   promises ids that are stable across rescans and history that survives until
   "the track later returns". A subdirectory that is unreadable for one scan is
   enough. (When a rescan finds nothing at all, `catalog_adopt_ids` also ignores
   the previous `next_id`; `catalog.h` allows that, so no run looks for it.)
2. `store_rejected_overrides`: a start that rejects the snapshot scans without
   applying the overrides the save then keeps.
3. `user_playlist_pages`: a reply has room for 64 playlists while a limit may be
   200; a client that pages with a limit above 64 misses some.
4. `browse_upload`: uploading `cover.png` next to an existing `cover.jpg` answers
   200 with the new path and the old image's id, and the album keeps its cover.
5. `requests_ranking`: `README.md:248` ranks a match at the start of a word above one inside
   a word; only the first occurrence is classified, so "beat" in "Upbeat Beat" counts as
   inside, and "ab" comes before "ab-b" for the query "b".

The modelling also showed the following, for which there is no run:

- A database that cannot be opened makes the start fail (`BootRefused`, `main.c:122`)
  instead of being replaced, as `README.md:265` has it.
- `README.md:157` promises the unpaginated total for lists and `CLIENT_AGENTS.md:175` calls
  the random discovery paginated; the random and recent discoveries ignore `offset` and
  give the size of the page as the total.
- `limit=-1` is read as the largest number and answered with the largest page, and a
  path with an id just below zero modulo 2^64 names an item (`strtoull`).
- A fuzzy query of 254 or 255 letters is accepted (`SEARCH_Q_MAX`), but `str.c:273` skips
  every window that does not fit its buffer of 256, so that a part of 256 or 257
  letters may be missed although two edits make it of the query.
- The id of a path may have spaces and a sign before it (" 2", "+2"), as `strtoull` reads them.
- A fuzzy query of two letters is within two edits of a part of every text.
- When the log table cannot be created, `log_sink_sqlite.c:157` closes a sink that does not
  know its context yet: the connection and the context stay allocated.
- `log_init` succeeds when the only sink asked for cannot be opened; nothing is logged then,
  as the terminal stands in only when no sink was asked for.
- `log.h:43` says that an unknown level leaves `*ok` untouched; `log_level_from_string`
  sets it to false.

## Not modelled

Timeouts and memory limits; the text of replies and log lines; sockets, HTTP and JSON
syntax, which are the vendored mongoose's; argument parsing, which has no state and
whose choices are the constants and initial states of the modules; the vendored
libraries. Of the scanner, its depth limit and symlink rule, which decide which files
are in `Path`. Path normalisation and joining, and which file a stream or cover sends:
a path is a model value or a sequence of segments here. `util/string_buf.c`, a growing
buffer whose failures end in a 500. `str_contains_ci` and `str_fuzzy_ci`, which no
handler calls. The reading of tags, which a library does, is a choice of values. The
recently-played discovery is the history filtered by the catalogue; `UserStore` has
its rows and their order, not its reply.

## Plan

Done: `LibraryRuntime`, `Catalog` and `LibraryStore`, each with its proofs, also about
the history of the library; `UserData`, `UserStore`, `Browse` and `Log` with their
proofs; `Router`, `Search`, `Inputs` and `Requests`, with every invariant proved. Worth
doing next:

1. `Paths`: normalisation and joining, and that what a handler serves stays below the
   library root.
2. `ThreadedStore`: `LibraryRuntime` and `LibraryStore` composed, so that what one
   assumes of the other is checked instead of argued.
