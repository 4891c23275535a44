# Dashboard Matrix in TLA+

Dashboard Matrix is a self-hosted dashboard for amateur-radio stations: a FastAPI
server (one uvicorn process, SQLite files, plugins in processes of their own) and
browser pages that show grids of cards. This directory holds TLA+ models of the
parts whose correctness depends on the order of things, TLC configurations that
check them on small instances, and TLAPS proofs for instances of every size.

How execution is organised, which every module relies on: `async def` handlers run
on one event loop and are atomic between awaits; `def` handlers and
`asyncio.to_thread` calls run in threads of the default executor; a
`database.connection()` block is one SQLite transaction, committed when it ends and
rolled back when it raises; plugins run in child processes spoken to over pipes, one
JSON line per request.

## Inventory

| component | state | operations | what is hard | what makes it correct |
|---|---|---|---|---|
| **Plugin process pool** (`app/plugin_manager.py`, `app/plugin_worker.py`, `routes.plugin_widget_data`, `update_plugin_state`) | `_WORKERS` (key to process), a queue and a lock per process, `plugin_states` rows, secrets and module files on disk | serve a widget request; reuse, replace, close a process; one-shot process; the sweeps at the end of the server | threads share one process and its queue; timeouts against late answers; replacement while others still talk; `Popen` raising half way; shutdown against requests in progress | an answer is the request's own and computed under its approvals; one process per module; no process is forgotten; every request ends |
| **Dashboards, cards, first-run wizard, layout import** (`app/database.py`, `app/api/routes.py`, `app/layout_imports.py`, `app/setup.py`, `app/starter_templates.py`, `app/auth.py`) | tables `dashboards`, `tiles`, `layout_import_history`; settings `setup_complete`, `admin_password_hash` | start-up migration; wizard; create, update, delete, move; import with four strategies | kills between two transactions; a flag derived at start-up that guards a wipe; a default flag written in many places; one import of many statements | nothing is lost that a strategy promises to keep; one default; never empty; the wizard wipes nothing and sets the password |
| **IC-705 poller** (`plugins/icom-705-ip/plugin.py`) | a polling thread, its stop event, a shared snapshot | start, restart on other settings, poll, reconnect, stop | the old thread outlives its join; both write one snapshot | one thread talks to the radio; a snapshot belongs to the settings in force |
| **Marketplace** (`app/marketplace.py`, its routes, discovery and secrets in `app/plugin_manager.py`) | plugin directories, one backup each, `marketplace_sources`, `marketplace_installs`, `plugin_states`, cards | sync, install, replace, uninstall; add a card, save a plugin's state; list plugins, accept a run | copies and removals with no transaction, rows written after them, two requests at once, kills; two computations of whether a plugin may run | after a success files and rows agree; a whole copy survives a replacement; a directory that is left does not stop an installation; a plugin listed as ready runs |
| **Live updates** (`app/websocket.py`, `app/main.py`, `app/static/js/dashboard.js`) | the set of sockets; in each page its dashboard and socket | connect, broadcast, heartbeat, disconnect; load, reload, reconnect | connections change during overlapping broadcasts; loads answer out of order; a change while no socket is open | a live connection is listed; a page that could be reached comes to show the last configuration |
| **Update checks** (`app/updates.py`) | row 1 of `update_checks`, the settings | daily and manual check, save settings, status | two checks, a change of channel and an upgrade overlap; the row outlives the version that wrote it | the arrow never points down; the status becomes right again |
| **Versions** (`app/version.py`, `scripts/bump_version.py`) | the version files | precedence, next version of a roll | boundaries of pre-release numbering | a roll goes up from all before it |
| **HamQSL collector and card caches** (`app/collectors/hamqsl.py`, `user_scripts/ham_common.py` and the cards on it) | a shared copy, and a file with its time for each address | collect, expire, fall back | scripts that overlap and are killed write one file in place; failures between good answers | stale values are called stale; cards come back to the collector's values |
| **Layout exports** (`app/layout_exports.py`) | none; the document made of the dashboards | export, then import elsewhere | slugs, rows and cards go through conversions on both sides | what was exported comes back |
| **Grid** (`app/static/js/dashboard.js`) | the cards' rectangles | overlap, clamp, settle, compact, rotation | long sequences of drags | cards stay in the grid and apart |

The remaining parts are catalog and proxy-source edits (one statement on one table
each), map providers, publishing of layouts, radar stations, proxied pages, themes,
screenshots, diagnostics, NOAA cards, other user scripts, the small station plugins, the
administration pages and the installers. They are format conversions, single requests to
other machines or listings of files; `PROJECT.json` gives the reason for each.

How components interact: the routes of the second component broadcast
`configuration_changed` through the sockets of the live updates after their transaction;
a card of type `plugin` makes pages call the pool; the IC-705 poller lives inside a
process of the pool; an installation replaces a module file, which the pool notices by
its modification time.

## Modules

| module | content |
|---|---|
| `PluginWorkers` | the pool in full: threads, processes, pipes, locks, administrator, shutdown |
| `PluginService` | what a browser may expect of it: each request ends once, with its own result |
| `MCPluginWorkers` | symmetry sets for TLC |
| `PluginWorkersProofs` | the invariants and the absence of deadlock, and the refinement of `PluginService` |
| `LayoutStore` | the dashboards' database and everything that writes it |
| `MCLayoutStore` | templates, documents and earlier databases for TLC |
| `LayoutStoreProofs` | the schema's promises, the safety properties and what an import leaves |
| `LayoutExport` | the document an export makes of the dashboards, and what an import makes of the document |
| `LayoutExportProofs` | that an import of an export restores the dashboards, and how tall those are |
| `IcomPoller` | the IC-705 plugin's polling threads and the renders that start, stop and read them |
| `IcomPollerProofs` | its safety properties, and how new settings take hold |
| `Marketplace` | installation and removal of a plugin: directories, backup and rows |
| `PluginReadiness` | discovery, secret references and permissions: what the list, a save and a run conclude |
| `MCMarketplace` | variable names for TLC, and `PluginReadiness` evaluated over small sets |
| `MarketplaceProofs` | the invariants of installation and removal, and when the list, a save and a run agree |
| `Versions` | rolls and the precedence of versions |
| `UpdateCheck` | checks, settings, releases, restarts as another version, and the status shown |
| `MCUpdateCheck`, `UpdateCheckProofs` | the first version for TLC; the safety properties, and that the status settles |
| `HamqslCache` | the collector, its shared copy, the card scripts and the files they share |
| `HamqslCacheProofs` | the age of what a script holds, that old values are called stale, and how the cards recover |
| `LiveUpdates` | the set of sockets, overlapping broadcasts, the heartbeat and the pages |
| `LiveUpdatesProofs` | a live connection is listed, no page is left behind |

`MCLayoutStore` and `MCMarketplace` compose two modules each: an export reads the state
of `LayoutStore` after any of its steps, and readiness is evaluated beside the steps of
`Marketplace`. `UpdateCheck` is built on `Versions`.

### PluginWorkers and the code

A request is a call of `GET /plugins/data/{tile_id}`. `pc[r]` follows it: `queued` after
the handler's reads on the event loop (`Enqueue`), in a thread from `Begin` on
(permission and secret checks, then the file's modification time and the secrets' values,
which together are `disk`), `lookup` before `_get_persistent_worker` takes
`_WORKERS_LOCK`, `replacing` while it closes what it took out, `request` before it takes
the worker's `_lock`, `waiting` on the queue, `abandoning` while a timed-out call closes
its worker with the lock held, `oneshot` in `_run_one_shot_worker`. One request starts at
most one process, so a process is named after the request that started it, and the key
it is cached under is that request's `want`. `_WORKERS` is the set `cache` of its
values; `stale[a]` is the list a thread has still to close. `inbox` and `outbox` are the
two pipes; the second includes the reader thread and its queue.

Abstractions: one row of `plugin_states` per module; the reads of one `Begin` are one
step; the processes of one list are closed in any order; a kill always works; when the
server is killed outright its processes see the end of their input, which is the
`closing` state `Exit` leaves them in.

Definitions whose comment begins with "a slip" are mistakes that an edit of this code
could make. No action uses them; they are what the properties were tried against.

### LayoutStore and the code

`db` is the committed database as one record, `work` what the import in progress has
written on its connection. Each administration route is one action, because its handler
does not await while its connection is open; `update_admin_password` runs in a thread,
and SQLite makes it wait for a transaction in progress. An import takes one step per
dashboard of its document, so that it can fail or the server can be killed in between;
which dashboard comes next is chosen when it is reached. `CompleteSetup` and
`SetupPassword` are two transactions of one handler. `Crash` may come at any point, and
`InitDb` and `EnsureAdminPassword` are the start that follows.

Data kept: a dashboard's slug, `is_default` and rows; a card's dashboard, row and
height; ids with AUTOINCREMENT; the rows of `layout_import_history` as a number; the
password as none, the initial one, or one chosen. Abstractions: requests that are turned
down are no action; the suffix `_unique_slug` finds is any free slug; the dashboard that
is first in sort order is any; a card may or may not be one of the clock cards that
`migrate_clock_to_titlebar` deletes at every start; columns, widths and titles play no part.

A `Document` holds the numbers as they were uploaded, any integers; `Clean` is what
`_validate_document` makes of them (rows and heights from 1 to 24, cards from row 1 on),
and a `Layout` what is then inserted. `FromTemplate` is `install_template`'s own insert,
which leaves the flags of other dashboards alone. `AddPluginWidget` stores the height a
manifest names (`WidgetHeights`), which nothing checks; one below 0 is left out.

### IcomPoller and the code

One persistent plugin process. Its main thread reads one request at a time, so `caller`
follows one render through `ensure_started` (`ensure`, `join`, `gaveup`, `start`) and
`snapshot` (`read`); `force` is `_config` with its fingerprint, `thread` is `_thread`,
`stop` the threads whose own event is set. `want` is arbitrary: two requests read their
settings on the server's event loop and may reach the process in the other order, and a
card may override the shared settings. `pc[t]` follows a polling thread: `running` is the
head of the outer loop of `_run`, `connected` that of the inner loop, `closing` and
`failing` the two ways out of the `async with`, `ending` the end of `asyncio.run`.

Abstractions: a snapshot is its `state` (`connected` is true in that state and in no
other) and the settings its measurements were taken with; each loop's test and the update
that follows it are one step, and so are a poll's commands up to its update; sleeps end
at any time; a thread that has ended may stand for the next one, so two are enough. A
request whose settings do not parse changes nothing and is no action.

### LayoutExport and the code

`Exported(s)` is the document `build_layout_export` makes of all dashboards of a
database, in the order of its two queries (`InOrder`); `Restored` what `LayoutStore`'s
import statements make of a document with the strategy that replaces dashboards, one
dashboard (`Imported`) after the other. `ExportRestores` imports the document over the
database it came from and over a new installation with each template. `Slugify` is
`_slugify` as a function on slugs: a plain slug is its own image, `odd` stands for the
others, such as `a--b`, which the models of the routes accept. Titles, columns, widths
and card contents are copied on both sides and left out. A card comes back in its row
and as high as it was if it is 1 to 24 rows high, as every card is that a route or an
import stored; a plugin's card that is higher or flat comes back at the nearer end
(`Trimmed`).

### Marketplace and PluginReadiness and the code

One plugin of an index. `pc[t]` follows a thread of `install_marketplace_item` or
`uninstall_marketplace_item`: `fetch`, `look` and `lookb` (does the directory exist,
does the backup), then the calls `drop`, `save`, `clear`, `copy` (`rmtree` of the
backup, `copytree` to it, `rmtree` of the directory, `copytree` of the new one) and
`record`; or `exists`, `erase`, `forget`. A call takes two steps, `Begin` and `End`, and
may raise in between with some of its work done (`Raises`); `mid` holds the threads
inside one, and `dir[place]` is a version, half of one, or nothing. `loop` is what the
event loop is about to write, having found the plugin, since adding a card or saving a
state looks at the files first, and `update_plugin_state` does twice (`StateRefused`).
`CreateTile` is a card that comes without a look at the files, by `create_tile` or an
import. `Kill` ends the server anywhere; `overlap` and `doubt` are history variables the
properties need to name their exceptions.

`PluginReadiness` has no state: `Ready` is `runtime_ready` as `public_plugin` computes
it, `Accepted` what `_secret_environment` and `run_plugin_widget` require, `Stored` what
`update_plugin_state` keeps, `Discover` the precedence of bundled over installed plugins.
A manifest's declarations are a sequence, in which a name may come twice: the list looks
at each (`Required`), a run at the last of a name (`RequiredLast`). `Normal` maps a
secret's name to its variable; two names may fall on one. These are functions without a
state: the theorems of `MarketplaceProofs` are about them, and `SmallManifests` of
`MCMarketplace` has TLC evaluate the same formulas over all small manifests. A reference
with `file:` is read from that file, another one is a variable of the environment or of
one of the environment files, in their order.

Left out: editing and listing sources; the index and the archive, which either are as
the index says or end the request before a file changes.

### Versions and UpdateCheck and the code

`NextVersion` is `next_version`, `Less` the order `packaging` gives the numbers. A commit
of main is the index of its version in `history`; a release is an element of
`published`, which GitHub lists latest first, and a check sees the first page of them
(`Listed`, 30 releases in `_release_candidate`). `pc[c]` follows a check: `begin` before
`read_settings`, `ask` while GitHub is asked, `store` and `fail` before
`_store_result` and `_store_error`. `Restart(i)` starts the server from any commit of
main, so upgrades and returns to an older build are included, and the row stays.
`AskCrashes` is an exception other than `RuntimeError`, which ends a manual check without
a word; the loop catches it. Database writes are assumed to succeed.

### HamqslCache and the code

A tick is ten minutes, `CACHE_SECONDS` and the collector's interval unless
`DASHBOARD_MATRIX_HAMQSL_INTERVAL` sets another, which is left out; ages beyond three
ticks are one. `script[s]` follows a card's script through the shared copy, its age
(`stat`), then a url's cached file and its time (`look`), the request (`ask`), and the
two writes (`fill`, `stamp`); a reader may see a file half written (`Torn`), and a script
is killed at its time-out anywhere. `script_runner.py` allows it 60 seconds at most, so it
sees no more than one tick: `tick` says whether that has come, and whether before or during
its present request (`Before`). `StatusFails` is a status file that cannot be
written, before or after the copy was replaced, which ends the collector. A product that
is missing makes the result stale or not (`told` in `Takes`), as the callers of `fetch_url`
differ in that.

### LiveUpdates and the code

The configuration is a number that goes up. `active` is `active_connections`, `cast[v]`
one run of `broadcast` with its copy of the list, 0 the heartbeat's; each send is a step,
and connections come and go between them. A socket's name is used again only when no
copy, list or handler holds it, as the interpreter does with objects. `missed` records
the pages to which something happened that the code does not repair: it had no
connection at a change, lost one with a message under way, was in layout mode, failed to
load, or applied an older answer after a newer one.

## Runs

| run | question | bounds |
|---|---|---|
| `plugin_sharing` | do answers cross over, are processes forgotten? | 3 requests on 1 module, 3 threads, 2 grants, 1 administrator change: one caller can time out, a second wait on the lock and a third replace the worker |
| `plugin_modules` | are results computed as granted, only superseded processes closed, and is this the service? | 2 requests on 2 modules, a change on disk, a change of the row, one `Popen` that raises |
| `plugin_liveness` | does every request end, and the server stop? | 2 requests, one persistent and one one-shot module, 2 threads shared with the sweep |
| `plugin_revoked` | is a process replaced when a permission is revoked? It is not (finding) | 2 requests, 1 insufficient grant |
| `layout_edits` | do edits, imports, the wizard and kills keep what they promise, and does an export restore its dashboard? | 4 slugs, one not plain, 3 dashboard ids, 4 cards, 2 edits, a plugin's card 30 rows high, one import of 2 dashboards with cards above the grid and of height 0, a new file or an earlier database with or without a default |
| `layout_password` | does the wizard always replace the initial password? Not across a kill (finding) | no edits or imports |
| `layout_tall` | can the API return whatever is stored? Not after a tall import (finding) | layouts of 12, 24 and 30 rows |
| `icom_poller` | can two threads hold the radio, or a card show another radio's values? do renders end, do settings take hold? | 3 settings, 2 threads, any number of renders and polls |
| `exchange` | can an installation lose the plugin, succeed and disagree, or leave a directory that stops the next? | 2 threads, 2 versions, 1 source, any number of requests, failures and kills; `PluginReadiness` over 2 declarations of 3 secret names on 2 variables, 1 permission, 1 environment name and 1 file |
| `updates` | can the arrow point down, is the first release the highest, does the status converge? | the loop and 1 manual check, 3 versions, a page of 2 releases, rolls `beta` and `stable`, any number of checks, settings and restarts |
| `upstreams` | are stale values called stale, do cards come back? | 2 scripts, 1 fallback product, ages to 30 minutes |
| `live` | is a live connection ever taken off the list, do pages catch up? | 2 pages, 2 sockets, 2 changes and the heartbeat |

Why the bounds are enough to be of use: a crossing of answers needs one request that
gives up, one that follows on the same process, and one that replaces it, which is three
requests; the interesting imports have a dashboard that exists, one that does not, and
two of one slug, which is two dashboards over three slugs and one more edit before or
after; `IcomPoller` counts nothing, and three settings are those of a thread that ends,
of the one in force and of the next request. Two installations are what it takes for one
to be in another's way, and two versions what it takes to tell the old copy from the
new; three versions are one installed, one released and one newer, with a pre-release
and its final form among them, and a page of two leaves the first of three releases off
it; two scripts are the one that writes a file and the one that reads it, and one
fallback product has a file that several scripts share (a second multiplies the states
beyond reach); a socket that dies late needs a second one of the same page, and two
changes two broadcasts that overlap each other and the heartbeat. The proofs below do
not depend on any of these numbers.

### Fairness

`FairSpec` of `PluginWorkers` assumes that each request's thread and the sweep run
when they can. The executor's threads are the operating system's, every wait of
`request`, `close` and `_run_one_shot_worker` has a timeout (`queue.get(timeout)`,
`wait(timeout=2)`, then terminate and kill), and a waiting thread's turn at a lock comes
because every holder lets go. Weak fairness of the whole thread is enough, since a
request has one thing to do at a time. Nothing is assumed of plugins, of callers or of
the administrator, so plugins that hang for ever are among the behaviours checked.

`FairSpec` of `IcomPoller` assumes that the process's main thread goes on and that pages
keep asking for their cards, as their refresh timers do. Polling threads may hang in the
radio backend: `EveryRenderEnds` holds all the same. Only `SettingsTakeHold` has fair
polling threads, as a premise: radio commands run under `asyncio.wait_for`, connecting
under the timeout handed to the backend, and that closing a connection ends is the
backend's to keep. Its other premise is that requests settle on one fingerprint.

`FairSpec` of `UpdateCheck` assumes that the loop wakes up while automatic checks are on
and that its steps end, as they do by the time-out of its request; that a manual check
that has its result stores it; and, strongly, that GitHub answers the loop again and
again if it is asked again and again about a channel of which the page has a release.
Without the last there is nothing to converge to; where the page has none, every check
ends in an error, and so does the status.

`FairSpec` of `HamqslCache` assumes that time passes, that the collector's task runs and
that scripts end, since they are killed at their time-out. That HamQSL is answered and
that the collector goes on are premises of `CardsRecover`, not assumptions.

`FairSpec` of `LiveUpdates` assumes that broadcasts, messages, requests and answers get
on. Nothing is assumed of connections: they may close at any step, for ever.

## What is proved

All proofs hold for every value of the constants under the assumptions the modules name
(`ConstantsAssumption` of each, `NoRowAssumption`, `NormalAssumption`, `RefsAssumption`;
`StoresAssumption`, `InputsAssumption` and `SlugsAssumption` of `LayoutStore`,
`RowsAssumption` of `LayoutExport`), which TLC evaluates in the module's runs.

**`PluginWorkersProofs`**: `TypeCorrect`, `AnswersAreOwn`, `ResultsAreAsGranted`,
`WorkersAreUnique`, `ReplacesOnlySuperseded`, `NothingIsOrphaned`, `ExitIsClean`. None of
these is inductive alone. The invariant `IInv` adds that a lock is held exactly by the
request that waits on or abandons that worker (`LockInv`); that what is in a worker's two
pipes is at most the one line its lock holder sent (`PipeInv`, `OwnLineInv`); that a
worker whose call timed out is on its caller's list until it is dead, so the next holder
finds it closed (`WorkerInv`, `StaleInv`); that a process carries the key of the request
that started it (`KeyInv`, `BirthInv`); that a cached module version is no older than the
key (`LoadInv`); and that the last sweep finds no request in progress (`ServerInv`).

`PoolHasNoDeadlock` says what the termination of requests rests on besides fairness.
`CanRun(r)` spells out the guards of `Thread(r)`, since `ENABLED` is beyond the prover
(TLC finds the two equal on the bounds of `plugin_sharing` and `plugin_modules`). A thread
only ever waits for another at a worker's lock, and by `LockInv` its holder is waiting for
a line or abandoning the process, neither of which needs a lock or a free thread; a
process in the hands of `close` exists (`StaleInv`), so it can be closed, terminated or
struck off; and a request that finds no free thread finds one that can go on, the
executor having at least one thread.

`PoolImplementsService` in the same module: the pool refines `PluginService`. Every
action maps to one of the service's or to a stutter; the step that takes a line maps to
`Reply` because of `AnswersAreOwn` and `ResultsAreAsGranted`.

**`LayoutStoreProofs`**: `TypeCorrect`, `SingleDefault`, `AlwaysADashboard`,
`SetupNeverWipes`. One lemma per statement shows that it keeps the schema's promises
(`Sound`), from lemmas on a write to one field of a record up to a whole template; the
lowest row `Bottom` is shown to exist and to bound every card through well-foundedness of
the naturals. The invariant `IInv` adds that the draft of an import is as sound as the
database it began with, has a dashboard and is set up (`Draft`), that a server which
answers has marked a database with dashboards as set up - which is why the wizard finds
nothing to delete - and that only such a server has a transaction.

`ImportsKeep`, `MergesBelow` and `ImportsLeaveDefault` compare a commit with the database
before the import. `ImportInv` relates the draft to it at every step: a dashboard that is
not among `replaced` has `Grown` - its name and rows, its cards as they were, anything new
beneath them - and unless it is among `merged` it is `Kept`, with no new card at all;
each set is empty under another strategy. One lemma per statement says which dashboards
it leaves (`PutKept`, `DropCardsKept`, `FilledKept`, ...), `FilledGrown` that cards put
under the lowest row stay clear of those there were, and `KeptGrown` chains them.
`CommittedDraft` adds the last statement, and `OnlyCommits` that no other step ends an
import with another database. `ImportsArriveWhole` says what becomes of the document:
where it replaces or creates a dashboard, that has its rows and flag, and a one-to-one
correspondence (`Lays`) between its cards and the document's, all as `Clean` leaves them.
`CleanIsPlaceable` shows that whatever integers a document has, the schema takes what
becomes of them.

**`LayoutExportProofs`**: `ExportsRestore`. The queries' orders exist and list every row
once, for any finite set of rows (`OrderExists`, by rank; `InOrderEnumerates`). An import
goes over a database that need not be the one exported, so what the statements do is
shown for any that is `Formed`: one imported dashboard `Comes` with its rows, flag and
tiles, in the row its slug owns or in a new one, and every other keeps its slug, rows and
cards. The import of a document is a recursive function on its dashboards; it exists by
least counterexample (`RestoredRuns`), so that its equations can be used. From then on a
dashboard of the document `Stands`, since no later one has its slug (`Recognised`), and
the default stands because a sound database has one. `LaidIsPlaced` turns the one-to-one
correspondences of cards with tiles into the count of cards in every place, and
`TrimmedCards` takes the clamp of heights from the tiles to the cards that were exported. Rows come
back only because an import does not cut them: `SizesInv`, that neither database nor
draft has a dashboard of more than 24 rows, is the invariant this needs beside `IInv`,
and `RowsFitAnImport` states its part about the database (`layout_tall` shows that the
bound of 12 the routes have does not hold).

**`IcomPollerProofs`**: `TypeCorrect`, `OneThread`, `MeasurementsInForce`, `CardsShowOwn`,
`ConnectedHasThread`. `IInv` adds that a thread that lives is `_thread` and runs the
settings in force, that a render starts a thread only when none lives, and that one which
did not give up reads under its own settings. The proof has one lemma for the polling
threads, whose steps all touch one thread and the snapshot, and one for the main thread.
`SettingsHold` is the safety half of `SettingsTakeHold`. Between requests, the settings
asked for last are in force or the thread in their way has been told to stop, also when
the render gave up waiting (`ToldOrForced`, from `TellInv`). A thread that was told stays
told, and each of its steps lowers the number it has left (`StepsLeft`), so that a later
render finds it gone; one that starts a thread leaves its settings held, and they stay so
through failed polls and crashed threads until others are asked for (`HoldsOn`).

**`MarketplaceProofs`**: `TypeCorrect`, `CopySurvives`, `NeverBlocked`, `UsedIsKept`,
`SuccessAgrees`, for any number of threads, versions and sources. `IInv` adds what a
thread that is alone knows of the two directories at each call (`AloneInv`: a look is
followed by calls that find what it found) and which of the two copies is whole at each
step of a replacement (`CopyInv`). Both are stated under the history variables `overlap`
and `doubt`, which a step of a second thread sets at the moment it begins.

The same module proves `ListIsRight`, `RunIsRight`, `SaveIsNeutral` and
`BundledUntouched`, for any names, declarations, permissions, environments and files:
what the list calls ready a run accepts, without exception; what a run accepts the list
calls ready where no two declarations share a variable (`Apart`); and a save changes
nothing of it where no file reference was sent. `NeverBlocked` is about requests that have
looked at the directories: an installation does not stop on what others left, a removal
may (see below).

**`UpdateCheckProofs`**: `TypeCorrect`, `ArrowIsUp`, `FirstIsBest`. `IInv` adds that the
history only goes up and holds betas and final versions (`Ordered`, from `RollGoesUp`
and the transitivity of the precedence), so that the latest release a page admits
is the highest ever published, and that what a check found, and what the row
says without an error, is a release of its channel (`Released`). That the last of a
finite set of releases exists is by well-foundedness. `StatusSettles` is the safety half of
`StatusConverges`: while nobody publishes, upgrades or changes a setting, a check that is
out of date (it asks about another channel, or stores another release than it would find)
only leaves, every other one that stores makes the status right while the page has a
release of the channel, and once none is out of
date a status that is right, or a failure, becomes nothing else. Overlapping checks
store in any order, and each does harm at most once.

**`LiveUpdatesProofs`**: `Invariance`, `ListedWhileLive`. `SocketInv` adds that a
broadcast only holds sockets that have an owner, so that their names are not used again,
and that those it found dead are not open: removing them takes no live one along.
`NoneLeftBehind` is the safety half of `PagesCatchUp`: a page that shows an old
configuration and has missed nothing has a load under way, or the answer with the last
configuration, or an open connection with a message or with its turn still to come in the
broadcast of a change. Its invariant `ToldInv` adds that no page and no answer is ahead of
the database, so that an answer which takes the last configuration off the screen is an
older one, and `missed`.

**`HamqslCacheProofs`**: `TypeCorrect`, `OldIsCalledStale`. What bounds the age of the
values on a card is what the running script has read, and what others wrote into the same
files meanwhile. `Young` says that values a script does not call stale came less than one
tick before it began, or two when a tick has passed, and that the answer it is about to
write came while it ran; `FileInv` that a file under a fresh time holds nothing older than
a tick, whoever wrote it last and whoever was killed in between; `ScriptInv` joins the two
where a script has written a file and not yet its time. That a script sees one tick at
most, by its time-out, is what makes `Young` inductive. `CardsStayServed` is the safety
half of `CardsRecover`. One answer of HamQSL supplies the cards, and while the collector
has no new trouble they stay supplied, through restarts and time (`Supplied`); a script
that is served, or begins, never turns to the cache others left (`Served`), so those that
fell back before the answer only leave.

**Model-checked only**: liveness (`EveryRequestEnds`, `ShutdownEnds`,
`ImplementsFairService`, `EveryRenderEnds`, `SettingsTakeHold`, `StatusConverges`,
`CardsRecover`, `PagesCatchUp`), which is beyond the prover. Every other property of the
passing runs is stated by a theorem.

## Findings

- `plugin_revoked`: a comment in `_get_persistent_worker` says that a permission change
  must replace the old process, but `run_plugin_widget` turns the next request down
  before it gets there, and the process with the old credentials lives on.
- `layout_password`: a kill between the wizard's two transactions leaves a server that is
  set up with the initial administrator password.
- `layout_tall`: an import stores up to 24 rows, and the model of the routes that read
  them allows 12.

Divergences met while modelling that no run is about, since the model takes the code's
side and nothing a program says of itself is at stake in its states:

- `update_plugin_state` (`routes.py:327`) keeps references of letters, digits and
  underscores only, so the `file:` reference that `plugins/icom-705-ip/README.md`
  describes as Option B does not survive a save in the administration page.
  `SaveIsNeutral` exempts it.
- The row of an update check is not recomputed for the nightly channel after an upgrade,
  and after a change of channel shows the former channel's result until the next check.
- `docs/HAMQSL_DATA.md:5` has the collector run every 600 seconds and keep a last known
  good copy: a status file that cannot be written ends it (`hamqsl.py:70`), and an
  answer cut short that names `solardata` replaces the good copy. `CardsRecover` has the
  first as a premise and recovers from the second.
- `MERGE_REPAIR_NOTES.md:12` has updates over the socket reload the current theme; a
  page with a theme in its own storage keeps that.
- A dashboard created with a slug that is not plain comes back from an export under
  another slug, and an import that is to replace the matching one adds it instead.
- A page that reconnects does not load: what changed meanwhile shows at the next change.
  `PagesCatchUp` exempts such pages, and those in layout mode or overtaken by an older
  answer (`missed`).
- A plugin's card more than 24 rows high (`add_plugin_widget`, `routes.py:358`, takes
  `default_height` as it is) comes back from an export 24 rows high
  (`layout_imports.py:99`), and until then the model of the routes that read cards
  (`models.py`, `height` at most 24) turns it down. `ExportRestores` states the first.
- Where a removal was killed after its `rmtree`, or an installation between the removal
  of the old directory and the copy, the row stays without a directory and every
  uninstall ends in 400 (`marketplace.py:86`, `routes.py:485`) until the plugin is
  installed again.
- An installation that finds a directory half copied by a killed one drops the backup
  (`marketplace.py:78`), which may be the only whole copy. `KeepsACopy` exempts it.
- Two declared secrets whose names differ in a dash and an underscore share a variable,
  and of two declarations of one name a run keeps the last: the run may then accept what
  the list does not call ready. `RunIsRight` exempts it.
- A check asks for one page of 30 releases: after 30 newer pre-releases the stable
  channel ends in "No stable release is available" though there is one.
  `StatusConverges` says so.
- A `Popen` that raises after the superseded workers were popped
  (`plugin_manager.py:428`) leaves their processes running. `NoOrphan` and `CleanExit`
  exempt it.
- A shared copy that is replaced between its two reads gives old values a new age
  (`ham_common.py:104`). `StaleIsTold` exempts it.

## Plan

1. The models named above, their runs and their proofs: done, with every safety property
   stated by a theorem.
2. Safety halves of the liveness properties: done for `EveryRequestEnds`
   (`PoolHasNoDeadlock`), `PagesCatchUp` (`NoneLeftBehind`), `StatusConverges`
   (`StatusSettles`), `SettingsTakeHold` (`SettingsHold`) and `CardsRecover`
   (`CardsStayServed`).
3. `GridLayout`: overlap, clamping, settling and compaction as functions, checked against
   reference definitions and, where no induction over data is needed, proved.

Not modelled, and not planned: the components listed with that status in `PROJECT.json`,
for the reasons given there.
