# A verification project for silo-plugin-bookwarehouse-audio

The plugin runs as a child process of the Silo host. The host configures it over
gRPC and forwards HTTP requests to it; the plugin reads the catalogue of a
BookWarehouse server and serves covers and audio files from a local mount. This
directory holds TLA+ modules of the parts where its behaviour depends on the order
of events, the TLC instances that check them, and TLAPS proofs of their safety for every
value of their constants.
`PROJECT.json` names, for every definition that models code, the lines it models.
Line numbers below are those of the modelled revision; `main.go` is
`cmd/silo-plugin-bookwarehouse-audio/main.go`, other paths are under `internal/`.

## Inventory

| Component | State it keeps | Operations | Talks to |
| --- | --- | --- | --- |
| Configuration lifecycle: `main.go`, `runtime`, `store`, `server/server.go`, `httproutes` | the `app_config` row, `rebuildMu`, `storePtr`, `poolPtr`, the live handler with the store, configuration and client it captured | `Configure` RPC, `PATCH /admin/config`, `refresh`, `rebuild` | PostgreSQL, host, admin page |
| Cover cache: `covers` | cache directory (`<key>.bin`, `<key>.bin.part`), one single-flight map per `Service` | `Get` and below it `resizedFrom`, `extractEmbedded`, `writeCacheFile` | client, path resolution, file system |
| Streaming: `stream` | none of its own | `Stream`: token, `GetBook`, `findFile`, resolve, clamp, `http.ServeContent` | tokens, client, path resolution |
| BookWarehouse client: `bookwarehouse` | base URL and key behind an `RWMutex` | `Reconfigure`, `Get`, `GetBook`, listings with page cursors | BookWarehouse |
| Catalogue handlers: `catalog` | none | `List`, `Search`, `Detail`, browse, `Cover` | client, covers, tokens |
| Path resolution: `localfs` | root and remappings, fixed when built | `Resolve` | file system |
| Media tokens: `tokens` | none | `Verify` | portal's secret |
| Migrations: `migrate` | schema version | `Run` inside `Configure` | PostgreSQL |
| Admin page, diagnostics, health: `server` | none in the process | HTML, read-only reports, the page's save | `PATCH /admin/config` |

What is hard in it:

- *Configuration.* A `PATCH` is a read, a write, a change in place of the client that
  serves it and a rebuild under `rebuildMu`; a `Configure` opens a pool, reads and
  perhaps overwrites the row, rebuilds under the same mutex, and swaps pools after it.
  All of them overlap, each statement may fail, and the process may be restarted. It is
  correct when the live handler follows the row, an acknowledged save is not undone, the
  legacy import never overwrites what an admin saved, stores in use are open, pools do
  not leak and every call returns.
- *Cover cache.* Requests elect a leader per entry; waiters go on without registering;
  every rebuild makes a new `Service` on the same directory while requests of the old
  one run on; a fixed `.part` name is truncated, written, renamed and removed. It is
  correct when an entry under its final name is whole, one request produces it, and
  nobody waits for ever.
- *Playback.* A book is heard through many requests, each of which asks BookWarehouse for
  the file list again and serves at most 4 MiB. It is correct when the player hears each
  listed file whole and from no other file, or is told that it is gone, and always gets on.
- *Listings.* Pages are numbered, the end is inferred, and the list changes between two
  pages. It is correct when a client misses and repeats no more than those changes
  explain, and comes to the end.
- *The byte routes.* `Stream` and `Cover` are the only gate before the files. A request
  passes through a token check, an upstream call, a path resolution that tries several
  places, a search for sidecars and a cache, and looks at the file system again and again
  on the way, while files are replaced, mounts move, the configuration is saved and the
  portal's secret is rotated. It is correct when exactly those tokens open it that were
  made for it, the file that is open lies inside a configured root, the place and the source are
  the first that will do, and the bytes are those of some moment of the request.

## Modules

| Module | Models | Composes |
| --- | --- | --- |
| `PluginConfig` | `Configure`, `PATCH /admin/config`, `refresh`, `rebuild`, the row, pools, crash | |
| `LiveConfig` | what the plugin promises about configuration (abstract) | implemented by `PluginConfig` (`LC`, `KeepsPromise`) |
| `CoverCache` | `resizedFrom`, `extractEmbedded`, `acquire`, `writeCacheFile`, `openResult` over shared files | |
| `CoverStore` | a store of whole covers (abstract) | implemented by `CoverCache` (`CS`, `ServesLikeStore`) |
| `BookFiles` | `BookDetail.UnmarshalJSON`'s file list and `findFile` | |
| `Playback` | `Detail`, `Stream`, `clampRangeHeader` against a player and a changing upstream | `BookFiles` |
| `PathResolver` | `localfs.Resolver` over a tree with symbolic links | |
| `Tokens` | `tokens.Verify` over claims and secrets | |
| `ByteRoutes` | one request of `Stream`, or of `Cover` with `covers.Get`, from its token to its bytes | `BookFiles`, `PathResolver`, `Tokens` |
| `Listing` | `List`, `Search`, `Browse*` and the client's `ListBooks`, `ListAuthors`, `ListSeries`, `ListNarrators` against a changing list | |
| `BookFiles_proofs` | lemmas about the lookup of a file | |
| `PluginConfig_proofs`, `PluginServing_proofs` | theorems about saves, stores and pools; about what is served, and the refinement | the second extends the first |
| `CoverCache_proofs`, `CoverServing_proofs` | theorems about one `Service`; about any number of them, and the refinement | the second extends the first |
| `Playback_proofs`, `ByteRoutes_proofs` | theorems | `BookFiles_proofs` |
| `Listing_proofs` | theorems | |
| `MCPluginConfig`, `MCCoverCache`, `MCPlayback`, `MCListing`, `MCByteRoutes` | instances for TLC | |

### PluginConfig

Each RPC and each `PATCH` is a process with a program counter; a step ends where it has
touched something another process can see. `Configure`: `ConfigureCall` (dispatch and
validation in `runtime.Configure`), `OpenPool` (pool and migrations), `ImportRead`,
`ImportWrite`, `ImportReread` (the statements of `ImportLegacyAppConfig`),
`ConfigureLock`, `Publish` (`storePtr.Store`, `rebuild`, `Unlock`), `SwapPool`,
`CloseOld`. A save: `SaveCall` (the handler is loaded once, `httproutes` 41-49),
`SaveRead`, `SaveWrite`, `SaveReconfigure`, `RefreshLock`, `RefreshRead`,
`RefreshBuild`. Every database step has a failing alternative, and a write whose answer
is lost may have taken effect. `Crash` leaves only the row.

Abstractions: the row carries a count of its writes, so that "older" and "newer" are
defined; `library_root` stands for all directories and remappings; the default cover size
is left out; the two decodings of "no row" and `{}` are one, since both give the defaults.
A `Configure` without `database_url` returns before it changes anything a handler sees and
is not enumerated. `deps.Config` is written by a save and read again only for its
`DatabaseURL`, which no save changes.

### CoverCache

A request asks for one entry, resized or extracted; serving a thumb of an embedded
picture is two such requests, one after the other. Files are inodes named by the
request that created them, with the set of pieces written so far, so that `O_TRUNC`,
descriptors that stay open over a rename, and a rename of somebody else's file come out
as they do on disk. `Leave` is the deferred release. Sidecars served as they are never
touch the cache and are left out, as are pixels; a source that cannot be read or decoded
is `SourceFault`, a failing file operation `DiskFault`.

### Playback

The player (external) learns the file list, asks for one range after another of the
listed file it is at, keeps what continues what it has, renews its token on 401, retries
after 5xx and skips a file after 404. `Probe` is a player that asks for the last bytes of a
file, where some formats have their index; it throws them away unless they continue what it has. `Rescan` changes the list at BookWarehouse between
any two steps. `Verify`, `PickFile` and `OpenAndServe` are one request of
`stream.Stream` in its three parts; path resolution is a file access that may fail;
`ServeContent` follows `net/http` for no range, a suffix and one range. Several ranges in one
header pass the clamp as a suffix does (`stream/handler.go:169`); no modelled player sends
them, and nothing is claimed of them. Range arithmetic wraps at `MaxInt` as int64 does.

### Listing

A handler keeps nothing between two pages, so a page is one step: the query with its
clamped limit (`ReadListParams`), BookWarehouse's page (`UpstreamPage`, external), and
the cursor of the answer, BookWarehouse's own where `ListBooks` gets one, else
inferred. `List` stands for list and search, `Browse` for the three facets. Between
pages BookWarehouse inserts and withdraws items anywhere; a failed call is a 502 and the
client asks for the same page again. Cursors are page numbers, as
`docs/setup-debug-flows.md:90` says; `sort`, `order` and `library_id` go upstream as
they are and choose the list.

### ByteRoutes

Paths are sequences of names, and the file system gives each a directory, a file, a link
or nothing; a file has a stamp, which stands for its size, its modification time and its
contents together. `PathResolver` translates `Resolve`: the rules that apply, each with
its candidate and the target it has to stay under, then the root. `Tokens` has a token as
the record of its claims and the key it was signed with, and a secret as what its decoding
depends on: padded base64, unpadded base64, neither, or blank.

A request is a process. `Arrive`: the live handler is loaded and keeps its
configuration; 503 without a resolver or a secret, 401 where `Verify` fails, the
detail of the book, 404 without the file, 502 where BookWarehouse fails. `ResolveKey`:
one `Resolve`; a cover whose storage key fails goes on with the file name, a stream
does not. `Open`: `os.Open`, which follows links as they are by then, the check that it is a
file, and the answer, from the open file: it keeps both the path that was opened (`path`) and
the file that was found there (`opened`). `Find`: one `os.Stat` of `findSidecar`. `Stat`: the size and time that become the cache key.
`Read`: a sidecar in its original size. `Extract` and `Resize`: the look into the
cache, else production and the answer. Around it `Change` replaces or removes a file or moves
a mount, `Save` makes another configuration live, `Rotate` changes the portal's secret.

Abstractions: the gate and `GetBook` are one step, since between them a handler reads only
what it captured and BookWarehouse's lists do not change here (`Playback` has that).
A `Resolve` is one step, and so are an extraction and a resize with the reading of their
source; how entries are written, and how requests wait for each other, is
`CoverCache`'s subject, and entries are whole here. The configured directory of the cache is
the same in all configurations. The key leaves out the book, whose only first file the
path is, and `kind`, which the path and the size determine; the key of a resized embedded picture
contains the extracted file's time in the code and the audio file's in the model, which
differ only if the cache directory is emptied. Tokens are those a portal signed, with
any secret it has had, in the forms of `TokenForms`; what
is not signed by a portal fails in a library. The portal and the plugin may take a secret in one of
two forms, and `SigningKey` says, apart from `DecodeSecret`, what the portal makes of it.
Covers where no client is configured are left out: their route is not mounted. With no root
the code looks for an absolute key in the working directory (`localfs/resolve.go:115`),
where nothing but the key `/` passes `resolveWithin`; no file has that key.

## Runs

| Run | Shows |
| --- | --- |
| `boot` | With a host that configures a process once: the live handler follows the row unless a save reported an error, acknowledged saves stay, the import replaces only defaults, and `PluginConfig` implements `LiveConfig`. |
| `reconfigure` | With `Configure` called again on a serving plugin: until two calls overlap, the live handler's store has an open pool; whether they do or not, a handler built by a save is never stale, no pool leaks, on error paths either, and every call returns. |
| `stale` (violation) | A `Configure` of a serving plugin overlapping a save leaves a stale handler. |
| `blank_key` (violation) | A save with an empty key puts back a key that was replaced between its read and its write. |
| `cover_sole` | One `Service`, nothing fails, a crash: entries are whole, one request produces each, and the cache implements `CoverStore`. |
| `cover_shared` | Two `Service`s on a directory, with failures: a torn entry is always one that its writer is completing, waiters have a leader, every request returns. |
| `cover_torn` (violation) | Two `Service`s commit an incomplete entry. |
| `byte_routes` | Who is let in is exactly who has a token for it; a file, or its cover in the size asked for, is what was there during the request; keys, remappings and sidecars are taken in the code's order, past only what would not do at some moment of the request; and while links are led elsewhere, out of the volume too, the audio file that is open lies inside a root. |
| `first_remap` (violation) | A key whose first matching remapping leads out of its target is served from the next one's. |
| `playback` | Files are heard whole and as listed, through rescans, an expired token and a failure; responses have at most a chunk; the player gets through. |
| `listing` | A client misses at most one lasting item per withdrawal, receives at most one twice per insertion, and comes to the end. |
| `chunk_cap` (violation) | `bytes=0-<largest int64>` passes the clamp unchanged. |

Bounds. Two saves and two `Configure` calls are what the properties relate (an older and
a newer one); one fault reaches every error path, one crash every restart, since each is
possible at every step. Three requests are a leader, a waiter and a latecomer; two
`Service`s are the old one and the new one, and `MCCoverCache` gives them three requests
in the two ways that are not renamings of each other (`SharedSpec`); two pieces make a write that can be seen half
done, and one that overwrites. Track sizes 0, 1, 2 and 3 with a chunk of 2 are empty, less than,
exactly and one more than a chunk; `MaxInt` 15 leaves room for every sum the code forms
on real sizes (`PlaybackAssumption`), and `SpanEnds` has a last byte before, past and, in
`chunk_cap`, at the end of the integers; `Suffixes` has a chunk, the most
the code bounds.
One look at the end of a file (`MaxProbes`) may come before, between and after its chunks. Two rescans let a file go and come back.
Lists of up to four items and pages of one, two and three have last pages that are full,
partial and empty; a limit of 9 is clamped to 3; one insertion and two withdrawals let
an item go and come back. `MaxPages` is never reached (`ListingEnds` would fail).
`reconfigure` has one save, since its properties relate a save to the calls around it.
`byte_routes` has two requests, which are alike (`SYMMETRY`): one may fill the cache
from what came after the other had looked. Two events let a mount be led away and back, a file be replaced twice,
or a secret be rotated and then saved, one of them during the other's request. Its library has a volume behind a link, a
second mount with a copy of one file, a file that is a link out of its volume, a name that begins with two dots, one that goes
up from the root, and books with and without sidecars; the longest way through its links
is shorter than `MaxSteps`. Its changes lead the link of the mount to
the other volume and back, also between the resolution of a path and its opening, and the link that leads out of
the volume into it and back.
`CHECK_DEADLOCK FALSE` is given throughout: calls and requests come to an end, and then
the system rests.

Fairness. `PluginConfig`: weak fairness for each call's steps. The database answers, if
only with an error; `Acquire` is enabled only while the mutex is free, and weak fairness
suffices because each process runs once, so that from some point on the mutex stays free
for the one still waiting; Go's mutex moreover hands over to starved waiters. New calls,
faults and crashes are not owed. `CoverCache`: weak fairness for each request's steps.
`Playback`: the player goes on asking and each request is answered; faults, expiries and
rescans are bounded, so a player that retries gets through. `Listing`: the client follows
each cursor. In a system where the same
fault recurs for ever nothing of this holds, and none is claimed.

## Proofs

Every safety invariant, action property and refinement that a passing run checks is also a
theorem, for any number of processes, faults, crashes and changes and any values of the other constants
that the named assumptions of the modules allow. Most are of the same form: the property is
not inductive, an invariant that is says what the code relies on, and each action is shown to keep it.
Some need a hypothesis on the constants; each is named in the statement of its theorem, and
an instance that satisfies it is checked by TLC.

### Configuration

`PluginConfig_proofs` has types, locks, saves and pools:

- `TypeCorrect`: `TypeOK`.
- `RebuildsAreSerial`: who is between `Lock` and `Unlock` of `rebuildMu` holds it.
- `AckedSavesAreLive`: `AckedSaveIsLive`, for a host that calls `Configure` while nothing is
  served (`HostCalls = "boot"`). Nothing in the property says that the row a refresh is about
  to build from is new enough. `BootInv` adds that versions written never exceed the row's,
  that at most one `Configure` is under way and nothing is served until it publishes, and that
  what the holder of the mutex has read, and what is live, is at least as new as every
  acknowledged save. Without the restriction on the host the statement is false (`stale`).
- `NoPoolLeaks`: `NoPoolLeak`, for any host. `PoolsOwned`: an open pool is still in the hands of the
  call that opened it, or is `poolPtr`'s, or some call has taken it out and is about to close it.
- `SerialStoreIsOpen`: `SerialStoreOpen`, for any host. `StoreInv`, which holds until two
  calls overlap: the live handler's store is the one in `storePtr`, and its pool is
  that of `poolPtr` or of the one call that has yet to swap, which never closes its own.
- `SerialHostKeepsStore`: with a host that waits for a call to return before the next
  (`HostCalls # "parallel"`), calls never overlap, so the live store is always open.

`PluginServing_proofs` has what is served:

- `ImportsReplaceDefaults` (boot): `ImportReplacesDefaults`. Between an import's read and its write
  the row is still the default one, since no save can come in before the first publish.
- `SavesServeTheStoredRow` (any host) and `LiveConfigPersisted` (boot): `SavesServeTheRow` and
  `LiveConfigIsPersisted`. Both say something of moments without calls only. `FreshInv` says it of all
  moments: the live handler has the row as it is, with its client, or some call wrote the row and
  *owes* it, being on the way to a rebuild or to reporting an error (`ServedIsOwed`); the same of a
  refresh that has read (`RefreshIsOwed`); a save that changes a client in place has written after that
  client's handler read (`ReconfiguresOlder`); no handler is built twice (`BuiltOnce`), and nothing is newer
  than the row (`NothingAhead`).
- `PluginKeepsPromise` (boot): `KeepsPromise`, that is `Spec => LC!Spec`. Each step is a `Store`, a
  `Serve` or a `Restart` of `LiveConfig`, or changes nothing of it. `Serve` needs that a refresh does not
  take a handler back (`RefreshNotOlder`).

### Cover cache

`CoverCache_proofs` assumes, for its last two theorems, `Sole`, one `Service` and no faults:

- `TypeCorrect`: `TypeOK`, through `TypeInv`, which adds that a writer still writing has
  a piece left.
- `SoleEntriesComplete` and `SoleSingleFlight`: `EntriesComplete` and `SingleFlight`, in every
  interleaving of any number of requests and crashes. `SoleInv` says that nothing has failed;
  that the map and the leaders agree (`Registration`); that a waiter whose leader has closed
  finds an entry (`Filled`); that the leader alone writes its `.part` file and has written
  exactly its first `pos` pieces (`Writing`); and that names do not share inodes (`FilesApart`).

`CoverServing_proofs`:

- `WaitersAreWoken`: `WaitersHaveLeader`, for any number of `Service`s, failures and crashes.
  `FlightInv`: a leader is on its way to the release, the map names leaders that have yet to leave it,
  and the leader a waiter waits for still leads or has closed its channel.
- `TornEntriesAreTransient`: `TornIsTransient`, for any number of `Service`s, until a file operation
  fails or the process dies. `NamedFinishing` says of the `.part` name what the property says of the entry, with a writer that is about to
  write what is missing: a rename makes the one the other.
- `SoleServesLikeStore` (`Sole`): `ServesLikeStore`, that is `Spec => CS!Spec`. `StoreInv` adds to `SoleInv`
  that a request produces a cover only while there is none, that what it opened is the entry it
  asked for, and that its client is answered when it returns.

### Playback

`Playback_proofs`, with the lemmas of `BookFiles_proofs` (a set of positions has a first one;
`FindFile` gives at most one file):

- `TypeCorrect`: `TypeOK`, which has the int64 arithmetic in it: a reply has no negative length
  or start. `TypeInv` adds that the request in flight asks from where the player is, and that what
  it has of a file leaves room for a chunk.
- `ChunksAreBounded`: `ChunkBounded`, for a player that asks for one range at a time, if no range names
  the largest int64 as its last byte (`MaxInt \notin SpanEnds`) and no suffix is longer than a chunk. Without
  the one hypothesis or the other it is false (`chunk_cap`, and `Suffixes` of more than a chunk). Several ranges in one header,
  which are not clamped either, are outside the model and the theorem.
- `HearsWhatIsListed` and `FinishedHasHeardAll`: `HeardAsListed` and `FinishedIsHeard`, if
  an index, given or counted, stands for one track in all lists BookWarehouse gives of a book
  (`IndexNamesTrack`, which `MCPlayback` assumes for TLC to check of its lists). The code leaves
  that to BookWarehouse: a player keeps indices over a rescan. `HearInv` adds that the
  player's list is one that BookWarehouse gave, that a handler about to open has picked the listed
  track, and that the files before the player's are heard to the end or were answered 404 after a rescan.

### Listings

`Listing_proofs`:

- `TypeCorrect`: `TypeOK`.
- `MissesNothingKept`: `MissedOnlyByRemoves`. `MissInv` counts the lasting items that the client has already
  been led past without having them: no more than there were removals. A removal before the
  client's place moves one such item back over it; a page adds none.
- `RepeatsNothingUnmoved`: `RepeatedOnlyByInserts`. `RepeatInv` counts what came twice and, beside it, what the
  client has and will meet again. A list has no item twice in the beginning
  (`ListingAssumption`), and insertions add none.

### The byte routes

`ByteRoutes_proofs`, with `past`, the trees there have been since a request arrived, as the measure
of everything:

- `GateCorrect`: `GateIsExact`. Its content is `VerifyIsExact`: `Verify` succeeds for a
  token of a portal exactly if the portal made it for this book and file with the secret that is
  configured here. The portal never signs with a blank secret, and that is an assumption.
- `ServedFilesInside`: `ServedInside`, if what is a link stays a link or goes (`LinksStay`, which
  `MCByteRoutes` assumes for TLC to check of its library); links may be led anywhere meanwhile, and files,
  folders and mounts come, go and take each other's place. A path is resolved in one step and opened in
  another, and `os.Open` follows links anew. `Good`
  adds that the path of a request that is about to open is below the real path of a root
  or target in some tree of its `past` (from `ResolveIsWithin`), that `past` only grows, and that an
  answer from `open` has that path. What is left is that the file `os.Open` found stands where that path was
  resolved to (`LinkInv`): a path that `EvalSymlinks` returns has files and folders only (`RealIsStraight`, by least
  counterexample over the steps of its walk); none of them is ever a link (`RealIsLinkless`), so that in any later
  tree the walk only goes down it, and arrives there or nowhere (`RealOfStraight`). Without the hypothesis it is
  false: what a file or folder is moved away for may be a link to anywhere. It says nothing of covers: a sidecar lies beside the file, and may itself be a link.
- `ResolvesToTheFirst` and `CoversFromTheFirstSource`: `FirstThatWillDo` and `SourcesInOrder`. `OrderInv` says of a
  request on its way what they say of one that has arrived there: while it resolves, no place of the keys it has
  dropped would do, each at some moment of the request (`Trying`); while it looks for its source, each sidecar before was missing at some
  moment (`Looking`). The order is that of the code; the documents' is another (`first_remap`).
- `TypeCorrect` and `AnswersAreOfTheirTime`: `TypeOK` and `AnswerOfItsTime`, if what stands at a path is
  always of one kind (`KindsStay`) and nothing that has the name of a sidecar is a link (`SidecarsArePlain`);
  `MCByteRoutes` assumes both for TLC to check of its library. Files, folders and links may come and go, and links
  may be led elsewhere. A request may answer with an entry
  that another one made of what that other found after both had looked. `TimesInv` explains why that is right: an
  entry is kept under the time of a look and has a time its source came to have after it
  (`CacheFits`), a source only gets newer times (`Since`), and for every request between its look and its
  answer whatever the cache has, or comes to have, under the time it found is
  something its source held in its own `past` (`InTime`). A source's path has no link on it
  at any time (`LinkInv`, `SidecarIsLinkless`), so that it is one place that all this is said of.

These hypotheses, and stamps that never come back, are real limits of the code. What `EvalSymlinks` has
found may become a link before it is opened. The cache has for its keys a path, a time and a size: a file may be changed
between the look and the read, and restored with its old size and time after the picture of the other has been
cached, or a sidecar that is a link may be turned to another file and back: the cache then answers with what the
source no longer holds.

### Only model-checked

The four liveness properties: `EveryCallReturns`, `EveryRequestReturns`, `BookIsPlayed` and
`ListingEnds`. They need fairness and `ENABLED`, which are out of the prover's reach. The runs that expect a
violation have nothing to prove. The assumptions of the modules are checked by TLC
on the instances, and trusted in the proofs.

## Where code and documents part

With a run that shows it:

1. `main.go:135`: a `Configure` reads the row before it takes `rebuildMu` and installs
   that copy over a save that finished in between (`stale`).
2. `server/server.go:102`: the stored key is merged in outside any transaction
   (`blank_key`).
3. `covers/covers.go:323`: the `.part` name is shared by `Service`s that do not share a
   single flight (`cover_torn`).
4. `stream/handler.go:195`: `end-start+1` overflows (`chunk_cap`).
5. `localfs/resolve.go:109`: after a matching remapping that fails the next ones and the root are tried;
   `docs/debugging.md:175-179` and `206-208` say that the first match decides (`first_remap`).

Without one, at the edge of what the other runs assume:

6. `server/server.go:186`: the page's body has no `stream_signing_secret`, and `PATCH` replaces the row: each
   save of the page erases the secret, which `README.md:32` and `:42` of the repository say is set there.
7. `stream/handler.go:178`: a suffix range of any length is answered in one response, as `:155-156` says, though
   `:150-151` has every response bounded by the chunk. With `Suffixes` of more than `Chunk` TLC finds
   `ChunkBounded` violated.
8. `covers/covers.go:264`: waiters of a leader that failed produce the cover side by side, though
   `docs/debugging.md:157-159` has the single flight prevent a thundering herd. With one Service and
   `MaxSourceFaults = 1` TLC finds `SingleFlight` violated.
9. `stream/handler.go:117`: the real path is checked before the file is opened, and `os.Open`
   follows what has become a link since; `docs/debugging.md:182-183` says that the real path
   remains under the root. `LinksStay` excludes it.

More limits were met and are hazards, not findings, because no document promises
otherwise: a file list that counts from 0 but is not in that order gives two files one index
(`bookwarehouse/types.go:174`); a listing without a limit ends after one page unless
BookWarehouse names the next; and a next cursor that is not a number leads back to
page 2.

## Not modelled

- Migrations: one statement, run by golang-migrate, which is a step of `OpenPool` that may
  fail. A migration that is interrupted leaves its schema marked dirty; that is the
  library's state, and nothing in the plugin reads it.
- The HTML of the admin page, diagnostics and health: they read, and keep no state.
- The translation of a book's other fields (`catalog/transform.go`), MIME types and headers
  of answers: functions of one input each, without a case that depends on another.
- Browser caches and conditional requests: `http.ServeContent`'s, with times of the files.
- Relative roots: `Configure` refuses them. A save does not (`store/store.go:54`), which is a
  listed hazard.

## Plan

Done: configuration, cover cache, playback, listings, path resolution, tokens, both byte
routes; the safety properties and the two refinements of all of them are proved. Left:

1. `ByteRoutes` as the server of `Playback`: rescans and expiring tokens while mounts move.
2. Proofs of what the configuration promises for a host that configures a serving plugin but
   waits for each call: which of the theorems under `HostCalls = "boot"` survive in a weaker form.

## Running

In this directory, with TLC and tlapm:

    tlc -workers 2 -config MCPluginConfigBoot.cfg MCPluginConfig
    tlapm PluginConfig_proofs.tla
