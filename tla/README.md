# app-gocms in TLA+

app-gocms is a content management system in Go: a REST API, an admin, a public site and an
operations plugin over one SQLite store. This directory models its stateful parts in TLA+,
checks the models with TLC on small instances, and proves with TLAPS what matters most for
every size. `PROJECT.json` lists components, runs, mutants, the map from definitions to
source lines, findings, hazards and theorems.

To check one run: `tlc -config WorkerPool.cfg WorkerPoolMC.tla`.
To check proofs: `tlapm WorkerPoolProofs.tla`.

## 1. The system and its parts

| part | source | state | operations | works with |
|---|---|---|---|---|
| content service | `internal/application/content`, `internal/domain/content` | none: entries are values | CreateDraft, Update, Publish, Schedule, Trash, Restore, Archive, Get, List | repositories of one transaction |
| content types | `internal/application/contenttype` | rows of their table | InstallBuiltIns at the start of every REST, public and admin content request | permalinks, the content service |
| storage | `internal/storage`, `internal/storage/sqlite` | 12 tables, one connection (`SetMaxOpenConns(1)`) | WithinTx, Get, Put (upsert), List (first 50 rows by id), migrations, seed | everything |
| REST API | `internal/delivery/rest` | none | one transaction per request, which commits whatever the answer is | services, boundary |
| admin | `pkg/app/bff*.go` | none | post.create, post.update, post.trash; screens | boundary, content service |
| boundary | `pkg/app/app.go` | nothing on the server: signed cookies and form tokens | login, logout, admin gate, authorisation | authentication |
| authentication | `internal/application/authn` | users, app tokens, login attempts, in memory | AuthenticatePassword, CreateAppToken, AuthenticateAppToken, Principal | boundary |
| public site | `internal/delivery/publicsite`, `internal/permalinks`, `internal/themes` | none | front page, entry by path | content lists, settings, menus |
| screens and forms | `internal/appschema` | what a browser has open | list of posts, form of a post, each with its actions | content service, admin |
| GraphQL, settings, menus | `internal/plugins/graphql`, `internal/application` | rows of their tables | filtered lists; single-row writes | repositories |
| media, taxonomy, revisions, preview | `internal/application/*` | rows of their tables | single-row writes, some of which check another row first | repositories |
| operations | `internal/operations`, `internal/plugins/ops` | bounded lists of audit events and errors, in memory | export and import of all tables; health | repositories |
| plugin runtime | `internal/extensions` | state and context of each plugin; the lists of a hook bus no plugin uses | Activate, RegisterRoutes; AddAction, AddFilter, Dispatch, ApplyFilter | plugins, the host's mux |
| worker pool | `internal/worker` | a channel, goroutines, a Once | Submit, Shutdown | its callers |
| start-up | `pkg/app/app.go`, `internal/storage/sqlite/migrations.go`, `seed.go` | the database file | open, migrate, seed, mount the surfaces of a mode, serve | storage |
| users, views, descriptors | see `PROJECT.json` | rows, or none | reads and single writes, rendering | repositories |

What is hard about it:

- **One connection.** It makes transactions exclusive, on which the absence of lost updates
  rests, because every service reads and writes whole entries. A REST handler keeps it while
  it waits for the body of its request; everybody else waits with it.
- **Errors that commit.** A REST handler returns no error to `WithinTx`.
- **Two tables behind one id.** Ids are unique per table; `Get` looks among the posts first
  and takes every failure of a SELECT for a row that is not there.
- **Channels.** Submit, Shutdown and the workers meet at one channel and one context.
- **Start-up.** Crashes between statements, and two processes on one file.
- **Time between check and use.** Logins count failures before a slow verification; an admin
  action asks for its principal before its body is read.
- **Limits.** Lists stop at 50 rows, before filters; pages are cut again out of that, and
  snapshots and public pages rest on it.
- **Nothing validates** slugs and statuses, and links outlive what they pointed to.
- **Forms stay open.** They show what was read, and post every field, changed or not, in a
  representation that is not always the one the action takes.
- **Four readers of one table.** The site, the REST lists, REST by id and GraphQL each choose
  rows anew; a record that does not decode fails every list that holds it.
- **Shared arrays.** A handler that registers another sorts the array of a loop under way.
- **Ints wrap around** in the page arithmetic, and what panics holds the one connection.

`PROJECT.json` lists these as hazards, line by line, with the properties that cover them.

## 2. The modules

```
Content ............. entries, transitions, the two content tables (operators)
  ContentRequests ... requests step by step      --implements--> AtomicContent
  PublicSite ........ paths, links, lookups by slug
  AdminForms ........ lists and forms that stay open
  Surfaces .......... what the site, REST and GraphQL show; settings, menus, titles
SiteServices ........ other services, snapshots  --implements--> AtomicSnapshots
OpsLog .............. what the operations plugin remembers of them
Authn ............... logins and lockout  <--implements-- AuthBoundary (host, tokens, requests)
WorkerPool .......... goroutines and channel     --implements--> PoolContract
Migrations .......... start-up on one file
Host ................ options, seed, editors, several hosts on one file
ListOps ............. orders and pages (operators)
  Listing ........... pages, lists, searches
  PagingWidth ....... the same pages with ints that wrap around
  HookBus ........... handlers that register handlers
PluginRuntime ....... activation
```

`<M>MC.tla` holds the values TLC gives the constants of `<M>`, and `<M>Proofs.tla` the proofs
about it. Five MC modules instantiate several modules: `MigrationsMC` also `Host`, `ListingMC` also
`PagingWidth`, `PluginRuntimeMC` also `HookBus`, `SiteServicesMC` also `OpsLog`, and `PublicSiteMC` also
`Surfaces` and `AdminForms`. Those modules share operators and subject but no state, so a behaviour of
such a run is about one of them, which the variable `part` names: every behaviour of each module is
among the run's, and interleaving modules that cannot influence each other would only multiply states.

They were written in this order: content first, for it is what the program is for,
then what it rests on (pool, start-up, lists, plugins), then those who use it, and last what is
seen of it (forms, surfaces, hosts, logs).

**Content, ContentRequests.** `tables[kind][id]` is a row of `posts` or `pages`, or none.
A goroutine `r` serves a request: `pc[r]` is the point its handler has come to, `work[r]` what
its transaction sees, `entry[r]` what it read, `disk` what is committed, and `conn` who holds
the connection. There is an action for each point at which another goroutine, a failure, the
client or a crash may come in: `Begin`, `ReadBody` (in the transaction, from the client),
`CreateDraft`, `Load`, `Store`, `Commit`, and `Reject`, `StoreFails`, `Rollback`, `GiveUp`,
`Crash`. The surfaces differ where the code does: REST commits after an error, the others
roll back; only the admin's update looks at the kind it found.

**AtomicContent** says what this promises: a request takes effect at one moment between its
arrival and its answer, or not at all, with one exception, the draft of a REST create whose
publish failed. Under the refinement mapping a transaction that is open has not begun.

**PublicSite.** A slug, and a path, is text cut at its slashes: a sequence of segments, empty ones
among them (`SegmentsOf`; `a/` and `a` differ). `Trim` is `strings.Trim(path, "/")`. `EntryPath`,
`Matches`, `SlugIn` are the permalink functions for the patterns `/posts/{slug}` and `/{slug}`: every
request installs the built-in types before it reads their patterns, so no other is ever in effect. Links
are trimmed and lookups compare slugs as they are stored, so a post `a/` is linked to as `/posts/a`,
where only a post `a` is found. What a browser and net/http make of a link is the constant
`Requested`: the path that is routed and the decoded one the site looks at. Of it we know only that
paths which mean just themselves (`Carried`: no empty segment, no `?`, `#`, `%`, `\`, dot segment)
arrive as they are. `Routed` is what the mux lets through, `Serve` the handler, `BySlug` the lookup of
the REST API. `OpenHome` and `Follow` are a visitor, `Change` is everybody else.

**SiteServices, AtomicSnapshots.** Each write of the media, taxonomy, revision and preview
services is an action with the lookups that precede it. An export lists and an import writes
one table at a time, in the order of the code, and may fail or be cut off before each. `db` is
what the transaction sees, `Committed` what the next to get the connection finds. The audit
event or error a snapshot leaves in memory is `OpsLog`'s.

**Authn, AuthBoundary.** `failures[i]` holds the age of each recent failure of an identifier,
`login[c]` the login a client has under way: `Admit` counts and `Fail` or `Succeed` records, and
anything may happen between them, for verifying a password takes long. The boundary adds
cookie, form, app tokens and the request a visitor has under way. An admin action is four
steps: the gate, the second lookup of the principal, the body and the dispatch, the answer.
Lifetimes are kept as the ticks that are left of them.

**WorkerPool, PoolContract.** An action for each channel operation, including a Submit that
is blocked when the channel is closed, and the steps of Shutdown inside and outside its Once.

**Migrations.** An action for each statement, record and commit; `work` is what the
transaction of the holder of SQLite's lock sees. Processes start, fail and crash at any step.

**ListOps, Listing.** The order of lists (`Ordered`: an ORDER BY, or a sort), the page arithmetic
that REST and store share, and a client that walks
through the pages of a list while rows change.

**PluginRuntime.** One action per plugin that registers, fails, or is unknown.

**AdminForms.** A request is one step here; what takes long is the editor. `screen[e]` is the
list or form an editor has open: of a form the entry as it was read, what it shows (`Shows`),
and what the editor typed. `Submit` merges every field into the entry as it is now
(`MergePostEntry`), `TrashRow` is the action a row of the list offers, `Patch` and `Write` are
everybody else. The ghost `changed` collects what changed under an open form. The JSON that is
shown for a slug is the constant `SlugJSON`: all that matters is that it differs from the slug.

**Surfaces.** `SiteList`, `RestList`, `RestGet` and `PublicRecords` (GraphQL) choose rows from the
first rows of a table, each by the conditions of its code; `Decodes` is the list that fails with the
first record it cannot decode. `StoreEntry` and `SaveSetting` are services, `ImportSetting` and the
rows `Imported` a snapshot, `ShowHome` is a front page, whose titles come from a range over a map.

**HookBus.** The lists are Go slices: `bus[k]` is a header, an array and a length, and `arrays` the
arrays they have lived in. `Add` appends, in place while there is room, and sorts; `Call` reads
the next element of the array the loop began with, as it is by now. The bus has no lock and the
model one goroutine: `runs` is the stack of runs, and the handler on top of it may add and run.

**Host.** `OpenHost` takes options and opens the storage they name, `PutSeed` and `CommitSeed` are the
seed's one transaction: it works on rows of its own (`rows`), which take the place of the file's at the
commit. `SeedFails` and `Stop` end the process at any step of it, `Edit` is an editor.
`Routes` and `runtimeMode` are the surfaces of a mode. The ghost `last` holds what an editor or a
seed last made of each row. The schema is `Migrations`', which has been brought up to date when a host opens.

**OpsLog.** `at[r]` follows an export, import or health check to its answer. `Begin` and `Commit` are
its transaction; `RecordAudit` and `RecordError` come later, in any order, and `Crash` clears all.

**PagingWidth.** `listEnvelope` with ints of `-Half .. Half - 1`: `Start`, `End` and `Pages` wrap where the
code does, and `Exact` is `ListOps`. `Cut` answers, or panics when the slice is out of bounds;
`EndTx` is the Commit or the deferred Rollback.

## 3. The runs

All on two workers; states are distinct states.

| run | instance | states | what it shows |
|---|---|---|---|
| `content` | 2 goroutines, 2 ids, 3 requests of 8 kinds, any statement may fail | 288 435 | requests are atomic (`RequestsAreAtomic`), nothing is overwritten unread (`ReadIsCurrent`), rows stay in their table (`HomeTable`), rows and creation times come from creates only (`RowsComeFromCreate`), nothing becomes public unasked (`ShownOnRequest`), time stamps advance (`UpdatedAtAdvances`), everybody is answered (`EveryRequestAnswered`) |
| `content_rollback` | as above, 3 requests | violation | a failed REST create leaves its draft |
| `pool` | 1 worker, 3 callers, 4 tasks | 32 515 | no task lost or run twice (`EachTaskOnce`), Shutdown drains, cancel is last, the goroutines implement a bounded pool (`KeepsContract`), accepted tasks end, all calls return |
| `pool_panic` | 1 worker, 2 callers, 3 tasks | violation | Submit panics when Shutdown overtakes it |
| `migrations` | *Migrations:* 2 processes, 2 migrations of 2 statements, 3 faults. *Host:* 2 hosts, 4 options, 2 seed rows and another, 3 edits | 215 455 | migrations apply all or nothing (`SchemaFollowsRecord`), nobody serves too early (`ServesMigrated`), restarts succeed (`StartsSucceed`); edits survive and a seeded site is whole (`HostInv`), the step that shows one row of a seed shows all of them, and takes back nothing an editor wrote beside it (`SeedSeenWhole`) |
| `listing` | *Listing:* 3 ids in 2 tables, limit 2, pages of 1 and 2, 2 changes. *PagingWidth:* 2 clients, ints of 4 bits, lists of 0 to 3 | 4 367 833 | an unchanged walk is the list and nothing is hidden below the limit (`ListsAreTrue`), additions make nobody miss an entry (`AdditionsMissNothing`); with ints that wrap, walks are exact (`WalksAreExact`) |
| `listing_search` | as above | violation | a search walked through misses matches |
| `plugins` | *PluginRuntime:* 3 plugins, 6 lists, 4 activations. *HookBus:* 7 filters of 3 priorities, 2 runs deep | 1 003 876 | failed activations change nothing that is exposed (`FailureRollsBack`); states tell what is exposed (`StatesMatchExposure`); lists of handlers are ordered (`RegisteredInOrder`), a run over a full array is a snapshot and one addition disturbs little (`RunsInOrder`), a filter's answer is whole or the payload (`WholeOrNothing`) |
| `plugins_exposed` | as above | violation | a failed plugin stays exposed |
| `auth` | 2 clients, one of them a visitor, 2 identifiers, 3 users, 1 app token | 842 937 | failures stay bounded (`BoundaryInv`), whoever acts is covered (`ActsAreCovered`), the host runs `Authn` by its rules (`AuthnSpec`), locks end (`LockEnds`) |
| `services` | *SiteServices:* 2 ids, lists of 1 row, 3 writes. *OpsLog:* 4 requests, lists of 2 events | 679 758 | references hold, also through snapshots (`RowsHold`), `SnapshotsAreAtomic`, the connection comes back; the lists of events tell what took place, once, and in an order of events (`LogIsTrue`) |
| `site` | *PublicSite:* 2 posts, 2 pages, 6 slugs and the empty one, unbounded changes. *Surfaces:* 2 posts, 2 pages, 3 settings, 1 menu, lists of 1 row, unbounded writes. *AdminForms:* 2 editors, one id in both tables, 2 languages, 3 writes | 699 785 | entries with plain slugs are reachable, site and REST agree (`EntriesReachable`), old links lead to public entries only, and to posts with the slug of the link but for slashes at its ends (`LinksStayTrue`); site, GraphQL, REST list and REST by id nest and saved settings reach the site (`ShownAsStored`), only imports break a list (`OnlyImportsBreakLists`); screens never point at nothing (`ScreensStayTrue`), editors reach posts only, an old form undoes what others changed and no more, but for the slug, and a cleared field stays (`SavesAreTheEditors`) |

Some properties are conjunctions of statements that belong together, defined and explained one by one
in their modules: `ListsAreTrue`, `RowsHold`, `LogIsTrue`, `HostInv`, `RunsInOrder`, `ShownAsStored`,
`SavesAreTheEditors`. Type invariants are part of them, or proved (section 4).

Every property of a passing run has a mutant in `PROJECT.json`: a plausible bug in a mapped
definition that makes the run fail; the conjunctions have one for each of several parts. The mutants
stand beside what they mutate, under a comment that begins with "Mutant".

### Bounds, and why they are enough

- *content.* Interference needs two goroutines on one id. A third adds only waiting, and the
  proofs do not bound them. Two ids under both kinds give the same id in both tables, and with
  `PageLimit = 1` a list that is cut. `MaxCalls = 3` lets two requests interleave and a third see
  the outcome; two clock values tell before from after. Of the operations of the service,
  publish is run as the second step of a create, and archive does what trash does.
- *pool.* With one worker the buffer holds two tasks, so the fourth task blocks in Submit; two
  more callers then race for the Once. Two workers take minutes and show nothing more; the
  proofs hold for any number.
- *migrations.* Two processes are as many as race; three faults let each of them fail and
  one of them fail again; two migrations of two statements can be torn both between and within.
- *listing.* A limit of 2 under 3 ids makes the limit bite; 2 changes can add an entry on a page
  that was read and one on a page to come.
- *plugins.* Three plugins and six lists, empty, overlapping, reversed and with an unknown id; four
  activations let a failure come between successes.
- *auth.* The second client is what it takes to go past the limit; one tick of lifetime and
  windows of one tick let everything expire between any two steps. More clients: the proofs.
- *services.* With lists of one row and tables of two, exports are cut and are not; three
  writes are what it takes to have a taxonomy, its term, and an entry.
- *site.* Two entries per kind can share a slug and hide each other; the slugs are plain, the
  name of the posts route, a reserved name, of two segments, with a slash at the end (`a/` beside `a`),
  with an escaped slash (`a%2Fb`, which is routed as one segment and looked at as two) and empty; a post with the reserved name is
  left out, for it stands behind /posts/. Changes are not bounded.
- *forms.* Two editors are what it takes to have two old forms of one entry; one id, in both
  tables, lets a page hide behind a post. Three writes create the post and save two old forms of it, or
  change it under a form and save that, or bring the page and act on the post beside it. One field is
  typed into a form: the others are left alone, and they are what the properties are about. A slug that was wrapped twice is not opened again.
- *surfaces.* Tables of two and three rows under lists of one are cut; the imported rows hold each
  way of being hidden, and of not decoding. The front page that was shown is forgotten at a write.
- *hooks.* Arrays double: seven handlers fill arrays of 1, 2 and 4 and leave one of 8 with room.
  Two runs, one inside the other, share an array; deeper ones repeat this.
- *host.* Two processes are as many as contend for the file's lock; a seed of two rows can be half
  done. Three edits write a row, the seed's row and one again. More: the proofs.
- *ops.* Lists of two under three audited requests and a health check overflow. *width.* 4 bits give every
  sum and product that overflows once and several times; any width: the proofs.

### Fairness, and why the code justifies it

- *content.* A handler goes on (`WF`): where it waits for a body, the client sends it or
  disconnects, and then the context ends the transaction; a client that does neither keeps
  everybody waiting, and this assumption is where that shows. A waiting `BeginTx` is served
  eventually (`SF`): `database/sql` hands a freed connection to one of those who wait.
- *pool.* Goroutines run and tasks end (`WF`); a Submit blocked on the buffer is served in the end
  (`SF`), because the runtime queues the senders of a channel in order.
- *migrations.* A process that is down is started again, and one that asks again and again for the
  lock gets it (`SF`). The faults are bounded: liveness is what happens after the last of them.
- *auth.* Time passes (`WF`). *services.* Who holds the connection goes on, or fails (`WF`).
- *forms, surfaces, hooks, host, ops, width* state no fairness: nothing in them has to happen.
  That a page which panics gives the connection back is `EndTx`, which the deferred Rollback is.

`CHECK_DEADLOCK FALSE` stands where behaviours end because a bound on requests, writes or faults
is used up, or because all is done.

## 4. The theorems

TLAPS proves these for all values of the constants that meet the named `ASSUME`s. The
assumptions say what the constants are (finite or disjoint sets, positive limits), no more;
TLC evaluates them in every run.

| module | theorems | argument |
|---|---|---|
| `ContentRequestsProofs` | `InvHolds`, `HomeTableHolds`, `ReadIsCurrentHolds`, `OnlyNamedEntryChangesHolds` | `ReadIsCurrent` is not inductive: that nobody writes between read and write follows from `Holder` (a transaction is open exactly for the holder of the connection) and `Fresh` (until it writes it sees what is committed). `Isolated` bounds what a commit can change; `StepsMatch` says what the point a handler is at implies about its request. `HomeTable` needs that what was read carries a kind (`StepsMatch`), for `Save` goes by it. |
| | `RowsComeFromCreateHolds`, `ShownOnRequestHolds`, `UpdatedAtAdvancesHolds` | What a commit changes was changed earlier, in the transaction. `History` carries it there: what an open transaction has changed so far is `Legit` for its request, and no row is newer than the clock. |
| | `RequestsAreAtomicHolds` | The refinement of `AtomicContent`. `Progress` says of each point of a handler which part of an effect its transaction has by then: a draft, what is read, a change of what is committed, the residue of a failed create. A commit then is `AtomicContent`'s effect or failure (`CommitIsAtomic`), and what is within a transaction does not show (`InnerStep`). |
| `WorkerPoolProofs` | `InvHolds`, `EachTaskOnceHolds`, `ShutdownDrainsHolds`, `CancelIsLastHolds` | `ArgsAreNew`: what is being submitted is in no other place. `OneShutdown`: the Once lets one caller through, and it waits until all workers are gone. `ExitsAreLast`: a worker goes only from a closed and empty channel. |
| | `BacklogHolds` | `QueueBounded`: a send needs room. What is accepted and not finished is in the channel or with a worker, and `RunningCardinality` maps running tasks to their workers. |
| | `KeepsContractHolds` | The refinement of `PoolContract`: `Take` is its start, a send its acceptance, `Cancel` its going down, and the rest of the goroutines' steps do not show. |
| `MigrationsProofs` | `InvHolds`, `SchemaFollowsRecordHolds`, `RecordedInOrderHolds`, `ServesMigratedHolds` | `Behind`: the list a process read may be old but never ahead; what comes before its next migration is recorded. `WorkAhead`: the transaction of the holder has exactly its own statements more than the disk. |
| | `HostTypeOKHolds`, `EditsSurviveHolds`, `SeededSiteIsWholeHolds`, `HostInvHolds`, `SeedSeenWholeHolds` | About `Host`. `EditsSurvive` rests on `NothingLate`: a seed that has written a row holds the lock of the file, so nobody edits that row before it commits. `SeededSiteIsWhole` holds from the opening on (`OpenedSiteIsWhole`), and no row is ever removed. `SeedSeenWhole` is not about the one step: that the rows a seed publishes hold its own rows and no older state of any other is built up over its writes (`SeedsApart`), and rests on there being one writer per file (`OneWriter`). |
| `ListProofs` | `PageInBounds`, `PagesAdjoin`, `TotalPagesExact` | Arithmetic, with one lemma on rounding up. |
| | `WidthInvHolds` | Pages of `PagingWidth` are those of `ListOps` for ints of any width: wrapping leaves an int alone (`WrapLemma`), and the sums of a walk are ints when the size of a page and the length of the list add up to one (`CutExact`). |
| | `ListsAreTrueHolds`, `AdditionsMissNothingHolds` | About `Listing`. Neither is inductive: they say something when a walk is over. `WalkInv` says it on the way: of an unchanged list the client has the part before the page it asks for next, and of a list that lost nothing, each entry it began with is in its hands or in front of it. A change that removes nothing moves entries back only (`LaterStaysLater`), so what is in front stays there; after the last page nothing is (`NothingAfterLast`). |
| | `RegisteredInOrderHolds`, `RunsInOrderHolds`, `WholeOrNothingHolds` | About `HookBus`. That a stable sort puts a new handler behind those of its priority is `SortedInserts`, about a list that was sorted before. `BusInv` has each table in an array of its own (`TablesApart`), and says what a run sees: an array nobody has touched since the run began, up to the length it kept (`Unmoved`), or one in which one handler went in at a place, whereupon the calls made before that stand as they were and those after it are shifted by one (`Moved`). Calls therefore go by priority, twice to one handler at most, and leave out one at most. |
| `PluginRuntimeProofs` | `InvHolds`, `FailureRollsBackHolds`, `StatesMatchExposureHolds` | `Prepared`: the states to be published differ from the published ones in the plugins registered so far. |
| `AuthBoundaryProofs` | `InvHolds`, `FailuresBoundedHolds` | About `Authn`. The failures alone are not inductive: those recorded and the logins under way are bounded together, by limit - 1 + clients; `Admit` trades nothing for a login, `Fail` a login for a failure. |
| | `BoundaryRunsAuthn`, `GateInvHolds`, `BoundaryInvHolds`, `ActsAreCoveredHolds` | Each step of the host is one of `Authn` or leaves it alone, so that bound carries over. `GateInv`: while a request is under way its visitor neither logs in nor out and tokens are not issued anew, so its principal rests on its credential to the end. |
| `SiteServicesProofs` | `RowsHoldHolds` | References alone are not inductive: an import writes terms by the file it was given. `FileStands`: a snapshot that was not cut has the taxonomies of its terms. It does because of `Halfway`, by which an export has read, of the families it has passed, what the database holds, for nobody writes meanwhile. |
| | `SnapshotsAreAtomicHolds` | The refinement of `AtomicSnapshots`. By `Halfway` an import has laid the families it has passed over what was there, and no other; so the last family makes it the import of the whole file, and a failure before that leaves what was committed. |
| | `LogIsTrueHolds` | About `OpsLog`. `LogInv`: a list tells of events that took place, each once, of all of them until it is full and then of the newest, in an order of events (`Tells`); and what was answered before another request was made stays answered, or its process is gone (`AnsweredBefore`), so that no event in the list comes after the one that is added. What `appendBounded` drops is the oldest (`BoundedAppend`). |
| `PublicSiteProofs` | `TypeOKHolds`, `SiteInvHolds`, `EntriesReachableHolds`, `LinksStayTrueHolds` | A path of the built-in patterns is read as the slug of one kind only (`PlainPath`), and lookups find shown rows with that slug; that links are the paths of posts is the invariant. Trimming the path of a post and taking what is behind `posts` is trimming its slug, if that leaves something and the path is routed (`LinkedSlug`). Nothing is assumed of slugs but that different ones have different segments, and of requests what `Carried` says. |
| | `ShownAsStoredHolds`, `OnlyImportsBreakListsHolds` | About `Surfaces`. `SurfacesInv`: the front page that was shown is of the rows there are, and what the service saved under a key of the registry is there, and public (`SavedIsPublic`). Since no row goes (`RowsStay`), the rows before a row only grow in number, so a row that a list shows was on that list before (`StillDecodes`); and among no more settings than a list returns, every one is listed (`AllListed`, which needs the keys to be finitely many). |
| | `ScreensStayTrueHolds`, `SavesAreTheEditorsHolds` | About `AdminForms`. `FormsAreOld`: a field of a form that nobody typed into is as it was read, and where that differs from what is stored now, the difference was noted. A save puts one row into posts (`SubmitPuts`), a list offers rows of posts only (`TrashPuts`), and a screen is left in no other way (`LeavingStep`). |

Only model-checked:

- liveness (`EveryRequestAnswered`, `AcceptedFinish`, `CallsReturn`, `StartsSucceed`, `LockEnds`,
  `ConnectionReturns`): fairness and ENABLED are out of the prover's reach;
- the four statements that documents make and the code does not keep (section 5), which TLC refutes.

Every invariant and action property of the passing runs is proved. Induction over data is out of
the prover's reach too, so the modules have no RECURSIVE operators, and what a sort or a filter returns is
said without recursion: `Ordered` places an element by the number of those before it (`Rank`), and facts
about it are facts about cardinalities (`RankIncreases`, `RankTaken`, `OrderedAscends`).

Only proved, since TLC's runs are kept for what is more than they say: the inductive invariants (`Inv`) of
`ContentRequests`, `WorkerPool`, `Migrations` and `PluginRuntime`, `OnlyNamedEntryChanges`, `Backlog`,
`RecordedInOrder`, `TypeOK` of `PublicSite`.

## 5. Where documents and code part

Each with a run that TLC refutes:

1. `content_rollback`. `docs/compat/gocms/03-storage-repositories.md:39` says "Commits on success,
   rolls back on error"; `delivery/rest/handler.go:78` returns nil after an error.
2. `pool_panic`. `worker/pool.go:59` says Shutdown "stops accepting new tasks"; a Submit it
   overtakes panics.
3. `listing_search`. `02-rest-api-contract.md:50` says list endpoints support `page` and `per_page`;
   a search is cut into pages twice and cannot be walked through.
4. `plugins_exposed`. `docs/appcms/extensions-and-operations.md:16` says only active plugins
   expose; one whose next registration fails is marked failed and stays exposed.

Met while modelling, without a run of their own:

- Saving a form in which nothing was changed stores the JSON it shows for the slug as the slug
  (`appschema/hydrate.go:192`, `bff_actions.go:209`), and the entry is no longer found under its path,
  though `03-content-contract.md:111` says "Slug lookup is stable"; `OldFormsUndo` states what happens.
- GET /posts asks for nothing and lists entries of every status (`delivery/rest/routes.go:149`), though
  `03-content-contract.md:108` says "Drafts are not public".
- The title of an entry without an English one is that of any language, another one from request to
  request (`publicrender/model.go:79`), though `03-content-contract.md:53` asks for deterministic fallback.
- A setting stored both public and private is published (`application/settings/service.go:67`), though
  `01-domain-model.md:78` says "Public settings cannot contain private values".
- A dispatch in which a handler adds two others may return to a lower priority (`extensions/runtime.go:218`),
  though `extensions-and-operations.md:22` says "Ordered by priority"; `OneMoreIsOrdered` states how far
  order holds.
- The matrix at `docs/appcms/runtime-profiles.md:43` mounts plugins in every mode and line 48 makes full the
  default; the default is admin, which mounts none (`app.go:159`, `app.go:454`).
- With a storage port, as in the example at `docs/appcms/storage.md:88`, `Options.Seed` does nothing
  (`app.go:397`), though line 82 has it run after init.
- Page sizes near 2^63 overflow (`delivery/rest/routes.go:307`): a page panics, or is another one. The
  bound up to which pages are right is the premise of `WalksAreExact`.
- A create under an id that is taken replaces the entry and its creation time, though
  `03-storage-repositories.md:47` calls `created_at` immutable; `RowsComeFromCreate` states that
  nothing but a create does.
- Slugs are not unique, though `03-content-contract.md` has them unique within a kind: an old link
  may show another post of the same slug. A slug is linked to without the slashes at its ends
  (`permalinks/resolver.go:61`) and looked up with them (`delivery/publicsite/assembler.go:71`): the
  link of a post `a/` shows the post `a`, or nothing. A slug is not escaped in its link, so one with `?`,
  `#` or `%` in it may be asked for as something else. An empty slug makes a post link to `/posts`, where
  a page of that name is shown. Slugs of several segments and pages with reserved names are
  unreachable on the site.
- A PATCH that sets the status to published leaves `published_at` zero. Any status string is stored.
- To create and publish a page under the id of a post publishes the post; a page whose id a post
  has is not found by the REST API.
- Lists stop at 50 rows, so totals do too. A snapshot holds at most 50 rows of a table and no
  revisions, previews or content-meta, though the screen at `plugins/ops/plugin.go:82` says "Export
  and restore"; terms may arrive at an empty site without their taxonomies, which is what `cut`
  exempts in `References`.
- An admin action whose body is slow is executed for a session that ran out meanwhile;
  `ActsAreCovered` says what holds instead. `auth-and-capabilities.md:72` gives the scope of forms
  as `admin-write`, while the actions on posts ask for `admin.content.write`.
- A Submit after cancellation is dropped without a sign. Login attempts, and the audit list of
  admin actions (`action_audit.go`), which nothing reads, are never shortened.
- GraphQL returns settings and menus as they are stored, private ones too, and entries that are
  trashed or have a password.
- `site.description` is empty on the site when it is not stored; the registry's default is another. The
  services that write settings, users and menus have no route.
- Two imports that run at once may be audited in the order in which they were answered rather than
  committed; a crash loses the lists, and the default data source loses all the rest with them.
- An empty field of a form leaves the field as it was and answers with success (`NothingCleared`).

## 6. What is not modelled, and the plan

Left out of the models: text and metadata of entries (the services treat them alike), hashing and
signing (taken as unforgeable), encodings of records, logging. A request carries a session or an
app token, never both, and a visitor neither logs in nor out while another request of theirs is under
way, so of the races of one browser with itself `AuthBoundary` has expiry only. Imports are of files
that a site with this code has exported; other JSON is not modelled.
The list of login attempts grows without end (`application/authn/service.go:127`), which no property
states, since no behaviour but its memory depends on it. `ContentRequests` takes the database to be a file; the one in memory, which
goes with its process, is `Host`'s.

Revisions, previews, AssignTerms and AttachFeatured are modelled although no route calls them yet,
and the hook bus although nothing in the repository registers a handler.

Not modelled, and not planned:

- views (`themes/views_templ.go`, `pkg/templ`): generated rendering without state;
- the static descriptors of `pkg/module`: tables of fields, panels, routes and schemas, which
  nothing changes;
- REST reads of taxonomies, media, authors, settings and menus, and the users service: one lookup or
  one write each, with nothing to interfere; taxonomies are always listed empty, and an author is
  shown by id even when inactive;
- navigation of the admin, static files, addresses, environment variables.

What remains, in this order; a question that belongs to a module extends its run:

1. Proofs: what the search of `Listing` does return, since `SearchFindsAll` fails: the first page, and
   matches only; and that an unchanged walk misses nothing under wrapping ints, by composing
   `WalksAreExact` with `ListsAreTrue`.
2. Expiry of previews, with the clock that `AuthBoundary` has for sessions.
