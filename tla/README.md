# A verification project for debugsymd

debugsymd is a caching symbol proxy. A debugger asks it over HTTP (the symstore
or the debuginfod protocol) for a debug file; it resolves the file's identity
through Sentry, streams the file from a blob store into a disk cache, and serves
it verbatim, wrapped in a cabinet (CAB), or as one source file out of a source
bundle. This directory holds TLA+ models of its core, the TLC runs that check
them on small instances, and TLAPS proofs of what matters most for every
instance.

All paths are relative to the repository's root (`src/` in `PROJECT.json`).

## 1. The system

| Component | State | Operations | Interacts with |
|---|---|---|---|
| Disk cache (`diskcache/`) | only the disk: entries at hashed paths in three levels of shard directories, staging files in `tmp/`, modification times; two gauges | `Lookup`, `NewTemp`, `Commit`, `Probe`, `Evict`, `RunEviction`, `SeedMetrics` | called by the object service; `/readyz` calls `Probe`; an hourly goroutine sweeps |
| Object service (`objects/`) | a singleflight group | `Fetch`, `FetchCompressed`, `SourceFile`; inside: `object`, `produceOnce`, `download`, `synthesize` | cache, resolver, blob store, cabinet writer |
| Cabinet writer (`cab/`) | one output file per call | `Write` | writes into a staging file |
| HTTP routes (`httpapi/handler.go`, `debuginfod.go`) | none | `symstoreRoute`, `serveELF`, `debuginfodSource`, `fail` | object service, path parser |
| Path parser (`symstore/`) | none | `Parse` and the debug-id conversions | pure |
| Resolver (`resolver/`) | none | `Lookup`, `pick` (ranking of candidates) | Sentry's HTTP API |
| Blob store client (`storage/`) | none | `Fetch` | S3 |
| Daemon (`main.go`, `httpapi/server.go`) | goroutines: seed, sweeper, two listeners | `run`, `Server.Run` | everything |
| Configuration (`config/`) | none | `Load` | the eviction age reaches the sweeper unvalidated |
| Metrics (`metrics/`) | counters, histograms, gauges | | adjusted by all of the above |

### What is hard

* **Nothing tells the sweeper what is in use.** It goes by modification times. A
  staging file that is being written, and an entry that has just been committed
  and is about to be opened by the requests that waited for it, are safe only
  because of their ages. That is an argument about time across three actors
  (producer, follower, sweeper), and the sweeper itself works in separate calls:
  stat, compare, remove; collect directories, prune them later.
* **`Commit` is six file-system calls** that interleave with the sweeper and
  with other commits: fsync, mkdir, stat, rename, then the gauges.
* **Crashes.** There is no journal: what survives is whatever names the
  directory holds, with whatever content was fsynced.
* **Nested singleflight.** The producer of a cabinet calls `object()` inside its
  own flight and may become a follower of another flight there.
* **Shared work outlives its requester**: cancellation is dropped, so that one
  client's disconnect does not fail the others.
* **Entries of three roles** (`objects`, `raw_compressed`, `cab_synth`) are
  served without being looked at: what goes into a role must be of its form.
* **One file, many names.** A debugger may write an identifier in either case, with
  or without dashes or padding, on either protocol; each spelling is parsed,
  cached under a key of its own and resolved at another time, against a list whose
  order is Sentry's. All of them should lead to one file.
* **One clock for three purposes.** An entry's modification time is its age, the
  sweeper's cutoff and the validator of conditional requests.
* **Start and stop.** The gauge seed, the sweeper, two listeners and a signal meet
  in one `run`, joined by a channel, a ticker's period and a context that must not
  end the drain it starts.
* **Fixed-width fields.** A cabinet counts its blocks in 16 bits and its size in
  32, and two fields are patched after the body has been streamed.

`hazards` in `PROJECT.json` lists each of these, and the smaller ones, at the
line where it bites, with the property that covers it or the reason none does.

### What makes each component correct

* Disk cache: a committed entry is whole whatever crashes; a request that missed
  can open the entry once it has been committed; staging files in use are never
  swept and abandoned ones eventually are, and none but a crash abandons one; the
  gauges say what is on disk.
* Object service: every request is answered, with what upstream warrants, in the
  form asked for, whatever is cached, coalesced, evicted or disconnected; one
  producer at a time; no circular wait.
* Cabinet writer: a cabinet `Write` returns nil for can be read to its last byte,
  and `Write` succeeds on exactly the inputs that fit.
* HTTP routes, parser and resolver together: what is served belongs to what was
  asked for, and is the same however the question is spelled, listed, cached or
  evicted; "not found" has a reason in what Sentry or the blob store holds; a source
  path leads to its file.
* Daemon: the seed never overwrites a delta; the drain is cut short by nothing but
  its deadline; a signal or a failed listener ends the process; it never runs
  without the token it was configured with.

## 2. The modules

### `CacheContract` and `DiskCache`

`CacheContract` is what the cache promises the request path, in two variables:
which entries can be opened (`present`) and which entry each request has missed
and still has to open (`asking`). An entry is published only while somebody asks
for it, and is never dropped while somebody does.

`DiskCache` is the cache as it is written, one action per file-system call,
together with the request path that drives it (`objects.object`, `produceOnce`,
`download`), the sweeper, the readiness probe, a clock, and crashes.

| State | Code |
|---|---|
| `disk[x]` | the file at a path: modification time, size, whether all its bytes are there (`whole`) and on stable storage (`synced`) |
| `dirs` | leaf shard directories that exist |
| `client[p]` | where a request is: its local variables (`name`, `size`, `prior` = `existed`/`oldSize`) and when it began |
| `flight[k]` | `singleflight.Group`: the process that runs the closure for `k` |
| `sw` | the sweep: cutoff, directories to read and read, names left of the one being read, the file found stale, and what it has freed so far |
| `gauge` | `cache_entries`, `cache_size_bytes` |
| `now`, `up`, `crashes` | the environment |

| Actions | Code |
|---|---|
| `LookupHit`, `LookupMiss`, `Touch`, `ReopenHit`, `ReopenMiss`, `Answer` | `Cache.Lookup` (open, then `Chtimes` by path), first and second call |
| `Lead`, `Join`, `EndFlight` | `produceOnce` |
| `ResolveFails`, `NewTemp`, `FetchChunk`, `FetchDone`, `IoFails`, `Cleanup` | `Service.download` with its deferred remove |
| `Sync`, `MkdirAll`, `StatFinal`, `Rename`, `RenameFails`, `Account` | `Cache.Commit` |
| `ProbeStart`, `ProbeEnd` | `Cache.Probe` |
| `SweepBegin`, `SweepReadDir`, `SweepVisit`, `SweepRemove`, `SweepWalked`, `SweepWalkFails`, `SweepPrune`, `SweepEnd` | `Evict`, `walkFiles`, `pruneEmptyDirs` |
| `Crash`, `Boot` | host crash; `SeedMetrics` |

Abstractions. The hash that puts an entry into a shard is the constant `DirOf`.
Of the three directory levels the leaf is kept: the race of `pruneEmptyDirs` with
`MkdirAll` shows there. `Crash` leaves names alone and may tear the content of
any file not fsynced; this takes a rename to be durable or lost as a whole, and
does not lose one, since a lost rename only turns an entry into a staging file.
`Faults` names the calls that may fail on a file that is there: the walk of the
cache tree (of a sweep or of the seed), `Commit`'s `os.Stat`, whose error counts as
"no earlier entry" (`Seen`), the sweeper's `os.Remove`, which leaves file and counters
alone (`SweepRemoveFails`), and a request's own removal of its staging file
(`Removed`). `NamesRecur` says whether `os.CreateTemp` may hand out a name that a
request still remembers although the file is gone. `O_EXCL` does not exclude it; but
a staging file unlinked in use lives on behind its descriptor, and a second file of
that name beside it is not in the model. So `NameAssumption` allows `NamesRecur` only
where live staging files are never swept (`MaxUnused` at least 2·`Hold`); with a
shorter age, that the random suffix does not come again is an assumption.
`Hold` is an assumption about the environment, not something the code enforces:
no request is in the daemon for longer than `Hold`.

### `SymbolProxy` and `ObjectService`

`SymbolProxy` is the promise to the debugger: a request asks for an object, a
cabinet of it, or a source file out of it, and is answered according to what
upstream holds. It knows no cache and no other requests.

`ObjectService` has the service's control flow: each request is a process with a
program counter through `FetchCompressed`, `lookupCompressed`, `object`,
`produceOnce`, `download` and `synthesize`; `cache` holds the content of each
(role, object), `flight` who runs each singleflight key, `gone` whose client has
disconnected. The cache here is the one of `CacheContract`: an entry appears
atomically and is evicted only when nobody still has to open it. `trouble`, chosen
in the initial state and never changed, says what the environment may do to a
request: `faults` lets the resolver, the blob store and the disk fail, and
`early_eviction` drops the promise of `CacheContract`, for the case `DiskCache`
shows to arise when the eviction age is too short. What `SymbolProxy` may answer
depends on it, so one run and one theorem cover all four combinations. A payload is
plain, a cabinet, a source bundle, or `unwrappable`: `cab.Write` turns it down, as too
large for a cabinet folder or for a file name that is empty or not printable ASCII;
`dangling` is an object Sentry knows and the blob store does not. `Asks`, `InObject` and
`InCompressed` are the guard of `CacheContract` read off the callers' program counters;
the sweeper in `eviction.go` knows nothing of callers, and that it behaves as if it
did is what `ContractHonoured` shows of `DiskCache`.

### `SymstorePath`, `Resolver`, `SourceBundle` and `HttpApi`

The first three are pure: operators named after the functions they translate.

* `SymstorePath` is package `symstore`. A text is a record of what the parser tells
  apart: a name is a stem, an extension and its last character; a signature is a
  prefix, 32 hex digits or fewer, what follows them, the case, the dashes. `Parse`
  gives the request and the form it is served in, or `None`.
* `Resolver` is what `Lookup` makes of Sentry's reply. Sentry may say 404 itself, of a
  project it does not know (`known`). The list is a set, since its order is Sentry's;
  `Picks` are the files that may come first once the matches are sorted by `NotAfter`.
  Hashes are numbers in the order `strings.Compare` has them in; `ShortHash` are those
  too short for a storage key, which may sort anywhere, but for the empty one (0),
  which is always first.
* `SourceBundle` is `bundleEntry` with `normalizeSourcePath`. `Clean` is the stack
  of Go's `path.Clean`, a recursive function; `Leads` says where a path leads without
  a stack: its names that no later `..` goes back over, which it finds by counting
  names and `..`. That the two agree is an ASSUME of `MCHttpApi` for every path of up
  to five segments, and the theorem `CleanLeads` for every path.
* `HttpApi` puts them together, seen from the debugger. `world` is what the
  debugger has loaded, what Sentry lists, and which of those files the blob store has
  (`stored`); a request is any spelling of a question about a loaded module, on either
  protocol, or a malformed one.

| Actions of `HttpApi` | Code |
|---|---|
| `Symstore`, `Malformed` (`symstoreRoute`) | `Handler.symstoreRoute` up to the service call |
| `Debuginfod` | `serveELF`, `debuginfodSource` up to the service call |
| `CabLookup`, `Lookup`, `Resolve` with `Downloaded` and `Deliver`, `Fails` | `FetchCompressed`, `Fetch`, `SourceFile`, a production in one step, and the rest of the handler (`ServeContent`, `fail`) |
| `Revalidate` | a second request with the first answer's `Last-Modified` |
| `Evict`, `Tick`, `Leave` | sweeper, clock, client |

A production is one step because `ObjectService` has its interleavings; its ways to end
are all there: 404 when Sentry does not know the project, when nothing matches, when
the pick's hash is too short, when the blob store misses the key, and when a bundle
has nothing at the path (a bundle without `manifest.json` is one with an empty
manifest); 503 when the disk or a backend fails, when the object cannot be wrapped, and
when a bundle or the entry in it cannot be read or is too large; 404 at once for an
empty source path. `witness` is
some earlier answer, kept so that an invariant can compare two answers; the code has
no such state. Both compressed roles are one (`cab`): which of them holds a cabinet
is `ObjectService`'s subject. `WorldAssumption` says what a world is: modules are
well-formed, no two share a debug id (a cache key has the debug id and drops the
code id), files with one hash of full length are one file, and Sentry writes code ids
in lower case. `PathAssumption` says that a path, a debugger's or a manifest's, is a sequence
of segments. The names `_` and `_.debug`, which `serveELF` and `placeholderDebug` use, may
be asked for on either protocol, and then share a cache key.

### `Daemon`

`main.run` and `Server.Run`, one life of the process.

| State | Code |
|---|---|
| `settings`, `token` | environment and flags as far as `loadSecret` and `validate` tell them apart; where the token came from |
| `pc`, `result`, `signalled` | where `run` is, what it returns, whether `ctx` is cancelled |
| `seed` | the goroutine of `SeedMetrics`: entries still to visit, entries counted |
| `sweep` | `RunEviction` |
| `listener`, `errc` | the two `ListenAndServe` goroutines, and the errors in their channel |
| `disk`, `gauge`, `req` | entries, `cache_entries`, handlers, which may commit |
| `left` | three countdowns: the longest the seed's walk may still take, the ticker's next tick, the drain's deadline |

| Actions | Code |
|---|---|
| `Load`, `Setup`, `Serve`, `Stop`, `DrainPublic`, `DrainAdmin`, `Signal` | `run`, `Server.Run`, `signal.NotifyContext` |
| `SeedVisit`, `SeedSet` | `computeSize`, `SeedMetrics` |
| `SweepBegin`, `SweepRemove`, `SweepEnd`, `SweepStop` | `RunEviction`, `Evict` |
| `Bind`, `Fail`, `Report` | a listener's goroutine |
| `Arrive`, `Rename`, `Account`, `Finish` | a handler, its commit in two steps |

The cache is reduced to its gauge: a sweep whose walk fails and a commit whose stat
races with a sweep are `DiskCache`'s. That the seed's walk takes less than the
eviction interval is `SeedAssumption`; the comment at `main.go:53` says it, and
nothing enforces it.

### `CabWriter`

`cab.Write` and the block writer, a window at a time, with every size field
reduced modulo its width: `total` and `blocks` as counted, `out` as written. The
bytes are left out; `out` records where the file record (`fileAt`) and each block (`at`)
have come to lie, and which part of the input a block holds. `WellFormed` follows the
fields as an extractor does: `coffFiles` to the file record, `coffCabStart` to the first
block, and each block's length to the next, up to the end of the file. A call is `sound`
if no read, write or seek on what it was given fails; only others may end in an error
that is neither `ErrFileTooLarge` nor `ErrSizeMismatch`, unless the name is refused. The
length a block deflates to is arbitrary. The declared size is never negative (it comes
from a stat), so that half of the bounds check is not modelled.

### Proof modules

`DiskCacheProofs` (the cache's timing, and `CacheContract`), `DiskStateProofs` (what
is on the disk: whole entries, exact gauges), `CabWriterProofs`,
`ObjectServiceProofs`, `DaemonProofs`, `RequestProofs` (the operators of the parser,
the resolver and the source bundle), `HttpApiProofs` and `FiniteLemmas` (least
elements, sums over finite sets) hold theorems and their proofs only. The
inductive invariants that TLC checks too are in the module of the component.
`MC*` modules hold the definitions the configurations need.

## 3. The runs

| Run | Instance | Shows |
|---|---|---|
| `cache_safe` | 2 requests, 1 entry, 2 staging names, `MaxUnused` = 2 = 2·`Hold`, clock to 3; removals may fail | with an eviction age of twice the longest request: re-opens hit, staging files in use are kept, gauges are exact, `CacheContract` is implemented; the inductive invariant `IInv` holds |
| `cache_swept` | 1 request, 2 sizes, clock to 4, 1 crash, fair sweeper | whatever is overdue is eventually swept or used again; gauges are exact across the restart |
| `cache_short` | 2 requests, `MaxUnused` = 1 < `Hold` = 2, clock to 2, walks and stats may fail, 1 crash | without any timing assumption, staging files being swept under their producers: entries whole (`EntriesWhole`), and only a crash leaves a staging file behind (`CrashesAloneOrphan`) |
| `service_proxy` | 2 requests, 1 object, every combination of faults and early eviction, fair | every request is answered, with what upstream warrants; one download and one synthesis at a time; the roles never mix |
| `cab_write` | window 2, 3 blocks, widths as tight as the assumption allows, every declared and actual length 0..9 | `WellFormed`, `Verdict`, the inductive invariant |
| `http_api` | 1 debugger, 5 modules (Windows with and without an age, ELF with a long and a short build-id, Mach-O), 1 to 7 catalogs of each, with files the blob store misses and a project Sentry does not know, two modules together, every spelling, 8 source paths | `ServedMatches`, `SpelledAlike`, `NotFoundHasReason`, `SourceRight` |
| `daemon` | 1 request to each listener, 1 entry, all settings, fair | `GaugeExact`, `DrainGraceful`, `NeverUnauthenticated`, `Stops` |

and five that end in a counterexample, each against a sentence of the code's own
comments (section 6): `cache_prune_race`, `cache_gauge_drift`, `service_oversized`,
`http_hashless`, `http_revalidate`.

### Bounds, and why they are enough

* One entry and one shard directory: entries of different keys meet only in a
  shared directory (covered: `tmp/` is shared by all) and in the gauges, which
  are sums. The proofs hold for any number.
* Two requests: a producer and a follower, or two producers one after the other,
  which is what a late caller makes of them; the readiness probe is a request
  too. In `service_proxy` the cabinet's leader follows the other request's object
  flight, or both want the cabinet; a third would only follow one of them, and
  `ServiceIsProxy` is proved for any number.
* The clock: an entry must be able to become stale after it has been produced and
  used, which takes `MaxUnused` + 1 ticks beyond the first; `MaxTime` is 3 or 4, and 2
  in `cache_short`, where a staging file written at 0 is stale at 2 while its request,
  of `Hold` = 2, is still there (`LiveStagingKept` fails in that instance).
* `Deflated` = {1, 7, 20}: shorter than stored, exactly as long as a stored full
  window (`storedHeaderLen` + 2 = 7), and longer.
* `CountMod` = 4, `LenMod` = 18, `TotalMod` = 116, `FileMod` = 7 are the smallest
  that satisfy `WidthAssumption` for that window; the real widths satisfy it for
  the real window (lemma `ShippedWidths`).
* One debugger in `http_api`: debuggers meet only in the cache, and one that asks,
  leaves and asks something else meets the entries and the `witness` of its earlier
  requests. `MaxEntries` = 2 is an object and its cabinet, or two spellings of one
  file; `MaxTime` = 1 is the second that tells two modification times apart. Five
  modules and their catalogs are there for the cases that differ: two files that tie,
  a better name, a better feature, an empty hash, a short hash that sorts last, a file
  or a bundle that the blob store misses, a bundle beside the binary, somebody else's
  file, a project Sentry does not know, and two modules whose files differ in nothing
  but the debug id. Identifiers of 32 digits are values of `Uuid`, so lengths
  are long enough, too short, or longer by what the parser looks at.
* One entry and one request per listener in `daemon`: the entry may be left by the
  last run, swept, and committed again. `SeedMax` = 1 < `Interval` = 2 and `Grace` = 1
  are the smallest values for which the walk, the tick and the deadline come in
  every order the assumption allows; the theorems hold for all.
* Symmetry over requests and staging names is used in the runs without liveness.
* `cab_write` and `daemon` do not check for deadlock, since `Write` returns and the
  process exits.

### Fairness

* `cache_swept`: weak fairness of the sweep as a whole (the ticker keeps firing
  and a sweep that has begun goes on) and of the restart (a supervisor restarts a
  dead daemon; the Helm chart's StatefulSet does). Requests have no fairness, and
  the clock has none: the property says that what is overdue does not stay.
* `service_proxy`: weak fairness of each handler's own steps (they are goroutines).
  Resolver calls end because the client has a 30 s timeout; that a blob-store
  stream ends is an assumption, since the code sets no deadline on it. Clients
  need not arrive, leave or disconnect, and entries need not be evicted.
* `daemon`: weak fairness of `run`, of the seed's walk (it is bounded), of the clock
  and of a listener's goroutine that has something to report. Handlers and sweeps
  have none: the process stops even if a request never ends.

## 4. What is proved

All theorems hold for every value of the constants that satisfies the named
assumptions: any number of entries, requests, staging names and crashes, and any
bound on the clock.

| Theorem | Statement | Assumption |
|---|---|---|
| `DiskCacheProofs!TypeCorrect` | `Spec => []TypeOK` | none |
| `DiskCacheProofs!SoleProducers` | `Spec => [](Owns /\ Flights)`: one producer per flight, followers only on a live flight, staging files not shared | `NameAssumption` |
| `DiskCacheProofs!TimingInvariant` | `Spec => []IInv` | `MaxUnused >= 2 * Hold` |
| `DiskCacheProofs!SweeperSparesRequests` | `Spec => [](ReopenHits /\ SweepSparesInUse)` | `MaxUnused >= 2 * Hold` |
| `DiskCacheProofs!StagingSpared` | `Spec => []LiveStagingKept` | `MaxUnused >= 2 * Hold` |
| `DiskCacheProofs!ContractHonoured` | `Spec => ContractSpec` | `MaxUnused >= 2 * Hold` |
| `DiskStateProofs!EntriesSurviveCrashes` | `Spec => []EntriesWhole` | `NameAssumption` |
| `DiskStateProofs!NoOrphans` | `Spec => CrashesAloneOrphan`: only a crash, or a removal that fails, leaves a staging file nobody works on | none |
| `DiskStateProofs!GaugesCountDisk` | `Spec => []GaugesExact`: the two gauges are exactly what is on the disk, up to what is under way | `MaxUnused >= 2 * Hold`, neither `"walk"` nor `"stat"` in `Faults` |
| `CabWriterProofs!WriterInvariant` | `Spec => []IInv` | `WidthAssumption` |
| `CabWriterProofs!CabinetsWellFormed`, `VerdictRight` | `Spec => []WellFormed`, `[]Verdict` | `WidthAssumption` |
| `ObjectServiceProofs!ServiceIsProxy` | `Spec => ProxySpec`: the service implements the abstract proxy | none |
| `ObjectServiceProofs!RolesKept`, `NobodyTwice`, `TypeCorrect` | `Spec => []RoleContents`, `[]OneProducer`, `[]TypeOK` | none |
| `DaemonProofs!SeedIsSafe` | `Spec => []GaugeExact` | `SeedAssumption` |
| `DaemonProofs!DrainIsGraceful`, `NeverRunsUnauthenticated`, `TypeCorrect` | `Spec => []DrainGraceful`, `[]NeverUnauthenticated`, `[]TypeOK` | `SeedAssumption`, `GraceAssumption` |
| `RequestProofs!SomethingPicked`, `OnePick` | among any list's matches the ranking has a least element, and only one if hashes tell files apart | hashes are ordered like numbers |
| `RequestProofs!AlikePicks`, `ParsedAlike` | spellings of one path are parsed alike, and requests that are alike are resolved alike | none |
| `RequestProofs!CleanLeads` | `Clean(segs) = Place(segs, Len(segs))` for every sequence of segments | none |
| `HttpApiProofs!AlikeServedAlike` | `Spec => []SpelledAlike` | `WorldAssumption` |
| `HttpApiProofs!RightFileServed`, `HeldIsServed` | `Spec => []ServedMatches`, `[]NotFoundHasReason` | `WorldAssumption` |
| `HttpApiProofs!SourceIsRight` | `Spec => []SourceRight` | `WorldAssumption`, `PathAssumption` |
| `HttpApiProofs!TypeCorrect` | `Spec => []TypeOK` | `WorldAssumption` |

The modules' `NoneAssumption`s, which only say that `None` is no proper value, and
`FiniteAssumption` hold throughout. `NameAssumption` is the one stated in section 2: it
is empty of content when `MaxUnused >= 2 * Hold`.

**The argument of `SweeperSparesRequests` and `StagingSpared`.** None of their parts
is inductive. `TimingInvariant` has them follow from `IInv`, which adds: no request is older than `Hold` (`Ages`); a staging file in use was
written during its request (`StagingFresh`); an entry that appeared after a request
had missed it was written by a request that was alive then, so it is no older than
`Hold` before that request began (`MissFresh`); and a sweep's cutoff lags the
clock by `MaxUnused` (`CutoffPast`). So what a sweep finds stale is older than
2·`Hold`, and what is in use is not. That 2·`Hold` and not `Hold` is needed comes
from the late caller: it may miss just before an entry is published and open it
`Hold` later, when the entry's own bytes may be `Hold` older still. Since the
sweeper removes in a second call, the invariant also has to say that nothing
becomes in use between the two (`CandThere`, `SweepSparesInUse`): an entry that
exists cannot be missed, and `O_EXCL` gives nobody an existing name.
Without the assumption `ReopenHits` fails: take `MaxUnused` = `Hold`, and `NamesRecur` =
FALSE, in `cache_safe`.

**`ContractHonoured`** uses `IInv`: `Rename` is `Publish`, `SweepRemove` is `Drop`
(allowed because of `SweepSparesInUse`), `EndFlight` with a failure is `GiveUp`,
`Crash` is `Restart`, and all other steps stutter or are `Miss` or `Serve`.

**`EntriesSurviveCrashes`**: `DurableInv` says that a staging file between fsync
and rename is whole and synced, so a rename moves a durable file and a crash tears
only files that are no entries. It needs that nobody else writes to the staging
file (`Owns`), not that the sweeper spares it: if it is gone the rename fails.

**`NoOrphans`** has a case for each action. A staging file becomes nobody's only when
the request that has it leaves `Staging`, and each way to leave removes it first or
renames it, or finds it gone; a step of one request takes no file from another
(`OrphanRequest`).

**`GaugesCountDisk`.** `GaugesExact` equates the gauges with sums over the disk, less
what commits have renamed and not yet reported (`Uncounted`) and what a sweep has
removed and not yet subtracted. Each step moves one term, so the proof is about what
the code remembers from an earlier call being still true when it is used. That is
`GaugeInv`, on top of `IInv`: what `os.Stat` saw before the rename is what the rename
replaces (`PriorHolds`: nobody else commits the key, since a flight has one producer,
and the sweeper does not take it, by the ages of `IInv`); the size a commit reports is
the size of the staging file it renames (`StagedSized`); the size the sweeper noted
is that of the file it removes (`CandSized`); nothing is left to subtract between
sweeps, and nobody is under way while the daemon is down (`AtRest`), so that the seed
starts from the disk as it is; and the sums are over finite sets (`Finite`). TLC
found `GaugeInv` to hold on the instances of `cache_safe` and `cache_swept`. The
hypotheses are needed: `cache_gauge_drift` refutes the statement when a walk may
fail; a stat that fails on an entry that is there has it counted twice; and with a
short eviction age a sweep may remove the entry between a commit's stat and its
rename. Removals may fail: the gauges then keep what the disk keeps.

The sums are folds of the community modules, whose value the prover knows only
through a function that satisfies the fold's recursive equation. `FiniteLemmas`
shows that there is one (`SumsExist`) and that the order of the elements does not
matter (`SumsWhole`). An induction theorem that takes an operator cannot be used
here, so each induction is written out on sets: the numbers, or the subsets, where
the claim fails have a least one (`Least`, `Smallest`), and there is none.

**`CabinetsWellFormed` and `VerdictRight`** follow from `WriterInvariant`: blocks written so far lie end to end (`Framing`), all
but the last are full (`Windows`), so the ceiling on blocks bounds the total, and
by `WidthAssumption` no field wraps. That each block lies where the lengths before it
lead (`Offset`) is a part of the invariant too.

**`ServiceIsProxy`** rests on an invariant of one part per request, `ReqInv`: it is
about something (`Asked`); whoever runs a closure holds the key of its flight
(`Leading`), from which `OneProducer` follows; what it has in hand is what upstream
has, and a failure has a reason (`InHand`); and unless entries may be lost early,
what it is about to re-open is there (`Reopens`), which needs that eviction spares
what is asked for. `Frame` reduces a step to the requests it moves. Each action of
the service then stutters, or is `Ask`, `Reply` or `Leave` of `SymbolProxy`: a
landing moves many requests and answers none of them, since all of them still have
to open the entry or carry the error out of the flight they are in.

**`SeedIsSafe`**: `GaugeExact` says nothing while the seed walks. `SeedFirst` keeps
requests away until the join, and `Walked` keeps the sweeper away, since what is left
of the walk is always less than what is left to the first tick. Within the walk,
what has been counted is the number of entries that are not still to be visited.
After it every change of `disk` is in `sweep.freed`, in a commit's `new` (`Pending`),
or in the gauge. `Errors` bounds the error channel by what each listener has told,
so that no goroutine blocks on it, and `Drained` says that a listener once closed
brings no request back.

**Spelling.** `ParsedAlike` goes through the table of prefixes, forms and conversions:
the prefix chosen depends on the prefix alone, and each conversion drops just the
case, or the dashes, in which the two paths may differ. `AlikePicks` then carries the
equality through identity, divide, feature and name. `SomethingPicked` is a least
element taken twice, of the ranks and then of the hashes at that rank; it does not
assume that the list is short.

**`CleanLeads`** goes along the path with two facts about the names that count after n
segments. `Balanced`: after each of them come as many counting names as names are left
over when each `..` has taken one, so that a `..` takes back the last name that counts
and no other (`UpStep`), and nothing at the root (`UpAtRoot`). And `Nth` numbers them
in the order of the path, so that `Place` grows and shrinks at its end as the stack
does (`PlaceStep`). The stack after n segments is then `Place(segs, n)`, by the least n
where it would not be.

**`AlikeServedAlike`, `RightFileServed`, `HeldIsServed`.** These go from the path a
debugger writes to the file it is sent. Every spelling of a question is parsed to a
request that means that question (`Understood`, `BuildIds`), and a garbled signature to
none at all (`Garbled`), so the right answers are a function of the question, `Right`.
Two requests under one cache key then have the same right answers, although the key
drops the code id and the source path (`KeyTells`, which needs that no two modules
share a debug id), so that it does not matter who filled an entry. The invariant is
that each entry holds a right answer to some question with its key (`GoodEntry`), and
likewise what each debugger was sent and the `witness` (`GoodClient`,
`GoodWitness`). A question has one right answer, since hashes tell files apart
(`OneRight`, by `OnePick` and `AlikePicks`); it belongs to the module asked for
(`RightBelongs`); and it is "not found" while Sentry knows the project and holds a file
of the module only if some such file has too short a hash or is not in the blob
store (`HeldReason`, by `SomethingPicked`). `Revalidate`, `Evict`, `Tick` and any number of
debuggers move none of this.

**`SourceIsRight`** adds `SInv`: a source request is never served as a cabinet, and
its answer is an entry that the search finds in a bundle that is right (`Right`), or
404, with either a right bundle where it finds nothing or "not found" as the right
answer (`SourceAnswer`). What the search finds is what the manifest has at the place
asked for (`FoundIsThere`, by `CleanLeads`), the bundle belongs to the module
(`RightBelongs`), and "not found", while Sentry knows the project and holds a bundle of
the module, means that one cannot be fetched (`HeldReason`).

## 5. What is only model-checked, and why

`StaleSwept`, `ProxyLive` and `Stops`: they are liveness under fairness, for which the
prover has no rules beyond propositional temporal logic. Every safety property of a
passing run is also a theorem above, under the assumptions the table names; what TLC
adds is that each can fail when the code is changed, and the five counterexamples of
section 6, each in one instance.

## 6. Where code and comments disagree

* `diskcache/eviction.go:79-80` takes "in use" for "non-empty": an empty shard
  directory that a commit has just made sure of can be pruned before the rename,
  which fails and discards the finished download. (`cache_prune_race`)
* `diskcache/eviction.go:55-57`: a sweep whose walk fails does not subtract what
  it has removed; the gauges stay too high until the next restart.
  (`cache_gauge_drift`)
* `httpapi/handler.go:93-94`: 503 with Retry-After is meant for a transient failure,
  but a file too large for a cabinet, or under a name `cab.Write` refuses, gets it too,
  for ever. (`service_oversized`)
* `resolver/resolver.go:11-12`: `ErrNotFound` is to say that nothing matches, but
  among matches of one rank a file with an empty hash sorts first (one with a short
  hash may), and `Lookup` then gives up. (`http_hashless`)
* `httpapi/handler.go:42-43` counts on conditional handling for free, but a hit sets
  the modification time that is the next answer's `Last-Modified`, so that a debugger
  that revalidates an unchanged entry is sent all of it. (`http_revalidate`)

Two more, seen in the models and left without a run:

* `objects/service.go:74` "This always hits" holds only if the eviction age is at
  least twice the longest request, and nothing validates `CACHE_MAX_UNUSED_FOR`.
  The default of 14 days is far from the limit. When it does not hit, the service
  returns a nil file without an error. The handlers then answer 404 for an
  object upstream has, `synthesize` fails on reading it (503), and
  `SourceFile` calls a method of a nil `FileInfo` (`aborted` in `ObjectService`).
  `SymbolProxy` allows these answers when `early_eviction` is in `trouble`, and only
  then.
* `objects/service.go:47-49` "exactly one caller downloads": a caller that misses
  before a download lands, and reaches singleflight after it, downloads again.
  Harmless but for the work: the entry is replaced atomically. `OneProducer` says
  what does hold: one at a time.

Also: an entry touched between the sweeper's stat and its remove goes although it was
just served, which costs one more download.

## 7. What is not modelled

* Ranges, content types, the status recorder, request metrics, logging: wording or
  I/O, and no property of the repository is about them.
* Metrics other than the two cache gauges: they only ever grow.
* Building of clients and of URLs, the storage key: formatting.
* A catalog that changes: Sentry's uploads. Whatever matches an identity is cached
  for as long as it is used, and the code promises nothing about later uploads.
* Settings other than the token's and those `validate` requires; packaging.

## 8. What could come next

1. `DiskCache` with two keys of two roles under `synthesize`, so that the eviction
   `ObjectService` assumes is derived and not assumed.
2. The seed's walk against sweeps when it outlasts the interval, with the walk's real
   order of directories.
