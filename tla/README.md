# unidrive-mount in TLA+

`unidrive-mount` is a FUSE co-daemon: the kernel sends it file operations, it
serves reads and writes from cache files, and a JVM engine behind a Unix socket
downloads, uploads and owns the namespace. Everything that can go wrong happens
between those three: handlers run concurrently in one async runtime and give up
their locks at every `await`; the engine may vanish between any two lines; the
cloud changes behind a cached listing. The modules here model that part of
`mount/src`, TLC checks it on small instances, and TLAPS proves the central
results for all instances.

## The system

| Component | State | Operations | Interacts with | Hard because | Correct means |
|---|---|---|---|---|---|
| Inode map (`path_map.rs`) | `next`, two HashMaps | intern, forget, rename | every handler, under `paths` | renames move and evict whole trees | halves inverse, no recycled inode |
| Write path (`fuse_fs.rs`) | `open_handles`, dirty bits, cache files | open, create, mknod, write, setattr, fsync, release | engine verbs, its open set | writes during uploads, failing verbs | no silent loss, fsync durable, opens closed |
| Renames (`fuse_fs.rs`) | paths held by PathMap, handles, requests in flight | rename, open, fsync, release | engine, cache tree | four copies of a name, updated one by one, two renames at once, a reply lost | an upload names its own file |
| Attribute cache (`fuse_fs.rs`, `view_refresh.rs`) | `attrs` | lookup, getattr, readdir, `ViewCache::apply` | list verb, event stream | fills and invalidations race, uploads fail | nothing stale stays |
| Subscription (`subscribe.rs`) | stream, `had_stream` | subscribe, read events, gap | attribute cache | events lost while down | a gap covers what was lost |
| Reconnecting client (`reconnect.rs`), framing (`ipc.rs`) | connection, recorded refusal | the verbs | daemon | crash between request and reply | at most once, replies in step, bounded |
| Authentication (`ipc_auth.rs`, `ipc.rs`) | token file, protocol | hello, hello.proof, daemon.status | daemon, on every connect | tokens rotate with restarts | a restart locks nobody out, nothing sent unproved |
| Recovery scanner, startup, profile lock (`cache_scanner.rs`, `run.rs`, `profile_lock.rs`) | cache files, watermarks, flock | connect, lock, scan and replay, mount, unmount | engine | crash at any point, clocks | unsent bytes replayed before the mount, removed files stay removed |
| Quota (`quota.rs`) | last value, in-flight flag | statfs, refresh | daemon | background refresh | single flight, last value kept |
| Namespace handlers, raw names (`fuse_fs.rs`) | `raw_names` | lookup, create, mkdir, unlink, rmdir, rename, NFC guard | PathMap, engine | two spellings of one path | what is listed resolves, no entry under another's name |

The xattr stubs, `cli.rs`, `version.rs`, `logging.rs` and `kernel_floor.rs` are not
modelled: they keep no state that lives on.

## The modules

**Paths** has what is common to all who take remote paths apart: a path is the
sequence of its components, `AtOrBelow` is the code's `==` or
`starts_with("{root}/")`, `Rebase` its prefix replacement.

**PathMap** is `path_map.rs`, one action per operation and one per early return
(`InternKnown`, `ForgetUnknown`, `RenameUnknown`). `path_to_inode` and
`inode_to_path` are functions whose domains are the keys. **InodeTable** is what
its callers rely on, one table and a set of used numbers; `PathMap` implements it
with `table <- inode_to_path` and `used` the numbers below `next`.

**WritePath** interleaves the handlers of files being written. `phase[h]` is
where the handler of handle `h` is, between two awaits; a step of a handler is
what it does without giving up control, and one IPC verb is one step because the
`ipc` mutex is held for the round trip. Contents are version numbers: `bytes[f]`
of the cache file, `sent[f]` of the cloud, `wrote[h]` the last made through `h`.
Each verb may be refused, or be lost before or after the engine acted. `reported`
records that a failure was returned to the caller or logged. A handler whose cache
file cannot be opened returns EIO and sends no close: its phase is `abandoned`.
**DurableFile** is what the callers are promised, a file with a durable copy and
clients whose syncs promise only what that copy has; `WritePath` implements it with
`current <- bytes`, `durable <- sent` and `promised <- acked`.

| Code | Actions |
|---|---|
| open | `Start`, `OpenRead` or `OpenWriteBegin`, `OpenCacheFile` (or `...Fails`), `InsertHandle` |
| create, mknod | `StartCreate`, `CreateVerb`, `OpenCacheFile`, `InsertHandle`; mknod goes on with `MknodRelease` |
| setattr with a size | `SetLen` with an fh; else `Start` with `trunc0` or `truncN`, through `Upload` and `Close` |
| write | `Write` |
| fsync | `FsyncClaim`, `FsyncUpload` (or `...Fails`), `FsyncReturnsOk` or `FsyncReturnsError` |
| release | `Release`, `Upload` (or `UploadFails`), `Close` (or `CloseFails`) |

**HandleNames** asks where uploads go when names change. Files are identities,
which an open descriptor keeps; `where` is the engine's path, `inodePath` what
PathMap has, `name[h]` what a handler or its `OpenHandle` holds, `fsync[h]` the
copy an fsync made. A rename is `RenameResolve`, `RenameVerb`, `RenamePaths`,
`RenameHandles`; the verb may be refused, or be executed and its reply lost
(`RenameLost`), after which nothing follows, since rename is not sent again
(`reconnect.rs:257`). Several renames are in flight at once, in any relation to each
other; the kernel's directory locks would exclude some of these. The code does leave
names behind, and two ghosts say exactly when: `estranged` has the files of a rename
whose reply was lost, and those of two renames of which one reached the engine while
the other, with a path above, below or equal to one of its own, had yet to
update PathMap or the handles; `crossed` has the handles that a rename of their file
met before they were in `open_handles` or after they were taken out. `Races` says
what may happen around a rename; the run has all of it, and the theorems assume
nothing of it.

**ViewCache** has the children of one folder. `attrs[e]` is the version that the
cached attributes describe. Handlers ask for a listing, get the reply and insert
it; events travel through `stream` (socket) and `pending` (channel) to the
applier, whose two halves (`Collect`, `Drop`) are two steps. A write makes its entry
dirty; fsync and release take the dirty bit, or the handle with it, before they
upload (`TakeDirty`), and the upload succeeds, fails, or loses its reply. Only an
upload that is executed makes an event. After a failed fsync the handle is dirty
again, after a failed release nothing is left to try again. The mount serves from the
start, before the first stream is up. `missed` is a ghost: the entries of which the
code drops the news, because they changed before the first stream, which announces no
gap, or because their upload failed at release after an invalidation may have been
withheld for them; they stay there until they are listed or invalidated. `ListRace`
opens the window between the daemon's answer and its insertion. A refused token ends
the subscription for good (`SubscriptionRefused`).

**Reconnect** is one caller at a time (the `ipc` mutex) of a client that loses
its connection. Each connect opens the socket, then reads the token file, then
does `Hello` and `Proof` with a token, or `AskStatus` without one, which goes on
only with a protocol 1 daemon. The daemon comes back with another token or another
protocol (`Restart`), and the file may be spoilt (`TokenSpoilt`). `misfit` records
that it was ever not the daemon's. `Budget` counts retry intervals. `execs`, `answered`, `attempts`,
`waited` and `losses` observe the current call. The budget is that of one connect
loop: a retried verb that loses its connection again starts another
(`LoopsBounded`), so `DEFAULT_RETRY_BUDGET` is no bound on a whole call.

**Recovery** is the life of mount processes of one profile: `pc` is where
`run_async` is (connect, lock, collect, scan, replay, reconnect, mount, live), and
`Kill` ends any of them anywhere. A scan looks at one file at a time, in any order:
`Stat`, `LastSynced` with the comparison, `Replay`, each of which can fail with a
warning (`warned`). A served mount is reduced to what it does to cache files, their
modification times, and the daemon's rows; `gone` are removed files, `evict` those
whose cache file is still to be deleted. The clock counts milliseconds and files
are stamped with the last multiple of `Granule`. Profiles are started with a lock
path, as the daemon does; without one the code takes no lock.

**Namespace** has the handlers that create, remove and rename entries as up to
three steps: the collision check (`Check`), the verb (`Verb`, refused, or its reply
lost), and the update of the maps (`Record...`). `tree` is the engine's, each entry
with the spelling it was given; `raw_names` and `cached` are the mount's. Handlers
at work in one directory exclude each other, as the kernel's directory lock makes
them, and an entry that a handler has just made or moved is not found, nor anything
in it, before that handler has replied. Where the mount cannot know what became of a
path the ghost `astray` has it: every path that the record of a verb would have
brought up to date, when the verb's reply was lost (`VerbLost`) or the new cache file
could not be opened (`CreateFails`), and every path with a raw name whose entry the
cloud removed. A later record heals the path, and a rename takes what is astray below
it along. `Gaps` opens three windows: a folder renamed around a handler at work
inside, or around the entry it moves ("inside"); an entry that comes from the cloud at
a path under check, or at one a rename has just left ("appears"); and one that the
cloud takes away while a handler is at work on it ("vanishes"). The code has all
three.

**Quota** is `quota.rs` with `statfs`: the claim (`Due`), the spawned task (`Fetch`,
`Finish`), and the block arithmetic in integers. `Account` is the sequence of states
of the account, so that an older reply can be told from a newer one.

What lies outside the repository is modelled from how the code uses it: the
engine (it registers a handle on open_read, create, open_write and
open_write_begin with an id, forgets the set with the connection, refuses a
rename onto an existing path, publishes every change, uploads by the mount
included; it stamps a row on create and open_write at the moment it takes the
bytes; it writes its token before it listens), and the kernel (one RELEASE of an fh, after all else on it; one FSYNC
of an inode at a time; a parent lock around creates; no lock between OPEN or RELEASE
and a rename, and none between renames in different directories). A verb that returns an error on a live
connection is taken to have had no effect: replies of the open verbs are far
below the line limit.

## The runs

| Run | Bounds | Shows |
|---|---|---|
| `path_map` | 2 names, depth 3, 4 inodes | all five properties of PathMap; the root uses one inode, three entries are enough for a folder with a child renamed onto another |
| `write_path` | 1 file, 2 handles, 2 changes, faults, fair | `NoSilentLoss`, `FsyncDurable`, `OpenSetMatched`, `HandlersSettle` and the refinement `ImplementsDurable`; files do not interact, one handle uploads or fails between the steps of the other |
| `write_path_leak` | 2 handles, no faults | violation: an open whose cache file cannot be opened is never closed |
| `handle_names` | 2 files in one folder, 2 names, depth 2, 1 handle, 2 renames in flight, 2 executed, every race | `ReleaseNamesItsFile`, `NamesAgree`; renames are symmetric; with 3 renames executed it was run once by hand (5.8 million states, no error) |
| `handle_names_fsync` | 2 files of one name in 2 folders, 3 names, one rename at a time, fsync overlaps | violation: two renames make fsync upload another file and return Ok |
| `view_cache` | 2 entries, one of them written and changed twice, 1 handler, 1 upload at a time, 1 break | `InStep`, `StaleEnds` with listings inserted as answered |
| `view_cache_list` | the same with `ListRace` | violation: a stale listing inserted late |
| `reconnect` | budget 2, 3 calls, 2 crashes | `AtMostOnce`, `RepliesMatch`, `LoopsBounded`, `NoFalseRefusal`, `ProvenInUse`, `RefusalIsFinal`, `CallsReturn` |
| `recovery` | 2 processes, 2 files, 2 starts, budget 1, granule 1 | `NoneLeftBehind`, `RemovedStaysRemoved`, `ScanAlone`, `StartupEnds`; the initial files stand for earlier mounts, so two starts are a mount that changes and dies and one that scans |
| `recovery_coarse` | 1 file, granule 2 | violation: a file created and never uploaded has a time below its own watermark, and the scan passes it over |
| `namespace` | 2 tasks, 3 handlers, 1 remote change, depth 2, 2 names in 3 spellings | `ListedResolves`, `VisibleAsNamed`, `NoClobber` with lost replies and failed creates, the three windows closed; tasks are symmetric |
| `quota` | 6 account states, 2 task names, interval 2, clock 6 | `SingleFlight`, `AnswersAreVolumes`, `NeverGoesBack`, `RefreshEnds`; the states are no quota, within, at and over it, a total of zero |

The violations are quoted with the line they contradict under `findings` in
`PROJECT.json`. The passing run next to each shows what holds without the case
that breaks it: the leak, the late listing, the coarse clock; of `handle_names_fsync`,
that the upload at release names its own file, with the exceptions below.

The passing runs show more of what the code does not promise than the findings do.
Each exception of a property is a place where the code falls short of a comment:

- A rename whose reply is lost, or two renames in each other's way (`/d` to `/e` and
  `/d/a` to `/d/b`), leave PathMap and the handles with a path the engine no longer
  has, for the rest of the session, although "the upload at release must name the new
  remote path" (`fuse_fs.rs:87`); an open in flight during a rename stores the old path
  in its handle (`fuse_fs.rs:815` to `926`). `ReleaseNamesItsFile` and `NamesAgree`
  hold for every other file and handle.
- "An entry with unsent local writes keeps its attributes" (`fuse_fs.rs:121`) is so for
  dirty handles only: the bit is cleared before the upload (`fuse_fs.rs:1041`, `1084`),
  and a first write may come between the two halves of `ViewCache::apply`. No property
  claims it.
- After a failed upload at release, and for what was cached and changed before the
  first stream, the view is not kept "in step with the daemon" (`view_refresh.rs:1`).
  `InStep` and `StaleEnds` hold for every other entry.
- `VisibleAsNamed` is false in each of the three windows: with "inside" or "appears" open
  at the bounds of the run, with "vanishes" open and `MaxRemote = 2` (the cloud removes an
  entry before its raw name is recorded, `fuse_fs.rs:1295`, and creates one there again,
  which is then shown under the earlier spelling). `NoClobber` is false with "appears"
  open (the create empties the file that came after the check), and with "inside",
  "vanishes" and `MaxRemote = 2`; with either of these alone, at the bounds of the run,
  TLC finds no error. `ListedResolves` holds with all of them open.

Deadlock is checked in `path_map`. The others may stop: all handle ids, calls or
renames of the bound are used up, or the mount is simply idle.

**Bounds.** `MaxVersion`, `MaxMoves`, `MaxDrops`, `MaxCalls`, `MaxCrashes`, `MaxInode`,
`MaxDepth`, `MaxOps`, `MaxRemote`, `MaxClock` and `MaxStarts` cap counters in the guards of what the environment starts, never of a
step a handler owes (`WritePath!Room` reserves room for started handlers; an upload of
`ViewCache` or a rename of `HandleNames` beyond the bound can still fail or be refused).

**Fairness.** A handler that was started is polled to its end by the runtime, and
its verbs return: `WF` on the steps of each handler (`WritePath`, `ViewCache`) and
of the call (`Reconnect`). The subscriber retries for ever and the applier drains
its queue: `WF`. A started process goes on to the served mount or to its exit, and
a spawned refresh is run: `WF` on `StartupStep` (`Recovery`) and `TaskStep`
(`Quota`). A daemon that is up answers: `WF` on `Execute \/ Reply`. This one
the code assumes and does not enforce, as there is no timeout on a reply.
`CallsReturn` has one assumption more, and states it: a mutating verb returns however
often the daemon goes away, a repeatable one if the daemon goes away finitely often
(`<>[][~Crash]_vars`). `retry_io_loop!` (`reconnect.rs:153`) has neither a bound nor a
sleep, so a request at which every daemon dies is sent for ever. `HandlersSettle` and
`RefreshEnds` take the return of a single verb for granted and so rest on the same
assumption where the verb is `open_read`, `close_handle` or `daemon_status`. Nothing
is assumed of applications, of the kernel's requests, or of a daemon that is down
coming back.

**Mutants.** Each property of a passing run has a mutant, marked in the module
before the definition it replaces: the same code with a plausible slip, which
makes the property fail.

## The proofs

**PathMapProofs**, for every set of names, depth and inode bound. The invariant is
`IInv == TypeOK /\ HalvesInverse /\ RootPinned`. `HalvesInverse` is not inductive
alone: that a fresh inode is not in use needs the bound of `TypeOK` on live
inodes, and that the counter is above the root needs `RootPinned`. The heart is
`RenameStep`: renaming maps the moving paths one-to-one onto their new places
(`RebaseBack`: rebasing back restores a path), the evicted paths are disjoint from
them, so both halves are rebuilt consistently. `NoInodeRecycled`, `WholeTreesMove`
(with `RebaseAlong`: a path moved directly or with an ancestor lands in the same
place) and `PathMapImplementsTable`, the refinement, follow from it.

**WritePathProofs**, for any number of files, handles and changes, with and
without faults. `NoSilentLoss` is not inductive: a clean handle is released
without an upload, so one needs that what it wrote is in the cloud, and not merely
that someone reported it. `HandleInv` says so for a handle that is open, clean and
has no failed fsync; `SentBounded` (the cloud never has a version the cache has
not had) makes an upload cover every earlier change. `FsyncIsDurable` uses the
same fact at the moment of the claim. `OpensAreMatched` excepts abandoned handlers,
for which it is false (`write_path_leak`). `WritePathImplementsDurable` adds
`PromisesGrow`: an fsync on its way claims no less than the last one on its handle
acknowledged, so a promise is never taken back.

**QuotaProofs**, for every account, interval and set of tasks. The invariant is
`TypeOK`, `SingleFlight`, `Genuine` (a fetched state has a quota, and not one of
zero) and `Ordered` (a fetched state is no older than the known one).
`AccountNeverGoesBack` is about a step, and needs both: a reply on its way cannot be
overtaken because it is the only one. That there is one is `OneRefresh`, from the
claim. `AnswersVolumes` rests on what integer division does (`DivBounds`,
`DivMonotone`, and `BlocksVolume` for `Quota::blocks`), and on the known state only
growing, so that an answer given stays one the account has had.

**ReconnectProofs**, for every budget and any number of calls and crashes. None of
the properties is inductive; what carries them is, part by part:
`InConversation` (the daemon works only for a call that waits and has no reply yet)
gives `RepliesAreOwn`; `ExecutedOnce` says where in a mutating call the verb cannot
have run yet, for `ExecutedAtMostOnce`; `Attempts` and `AttemptsOnce` count the
attempts of the finished loops and of the one under way, for `LoopsAreBounded`;
`TokenInStep` says that a live connection has seen no restart since its token was
read, for `RestartsRefuseNobody` and `OnlyProvenUsed`; `RefusalKept` leaves no call
beyond `ensure_connected` after a refusal, for `RefusalsAreFinal`.

**RecoveryProofs**, for any number of processes, files and starts, a kill at any
point. `Locked` (whoever is past the lock holds it), `Looking` (the time a scan
remembers is still the file's) and `Removed` (a removed file has no row) hold on
every file system and give `ScansAlone` and `RemovedStay`. `NothingLeftBehind`
assumes `Granule = 1` and is false without it (`recovery_coarse`): its core is
`Fresh`, that an unsent file is not older than its row, so `mtime >= last_synced`
finds it; `Covered` says that a scan has such a file before it, in hand, or among its
warnings.

**ViewCacheProofs**, for any number of entries, handlers, uploads, changes and broken
streams. `CacheInStep` assumes `~ListRace` and is false without it
(`view_cache_list`). Its invariant is `Announced`: of each stale entry that has no
unsent bytes and was not missed, an invalidation is in the stream, in the queue or in
the applier's hands, or the stream is down and the gap is due (`GapDue`).
`ReplyCurrent` says what the closed window means. What an upload does to it: executed,
it is announced like every change; failed in an fsync, the entry is dirty again; failed
at release, it is missed. An entry that the applier keeps was dirty when it looked, and
leaves that state only in one of these three ways.

**HandleNamesProofs**, for any tree, files, handles and renames in flight, every race
included. `NamesAgree` speaks of files whose renames are through. The invariant says
for each stage of a rename which views have followed it: `InodesFollow` for PathMap,
`HandlesFollow` for the open handles. `Disjoint` says that no two renames that have moved
a file and have yet to update its names are in each other's way, unless their files are
estranged, so that of the files that are not (`Clean`) each is on the way of one rename
at most, and no other touches its names. That an update by prefix
finds exactly the right files needs that paths are distinct, hence the assumption that
`Home`, where files begin, is injective.

**NamespaceProofs**, for any depth, names, spellings and number of handlers.
`ListedNamesResolve` holds whichever windows are open, from `SInv`: a raw name is a
spelling of the last component of its path, through every rename. The others assume
`Gaps = {}`, the three windows closed, and are false without it (above); lost replies
and failed creates they allow. `VisibleAsNamed` says what holds when nobody is at work, so its
invariant says what each handler owes: `Made` and `Gone` (what it made or moved is
there, what it removed is not), `RawClear` and `NamedBelow` (the raw names a rename
has yet to move are where they were, and none is in their way), `Vacant` (what the
collision check found free is so at the verb), `RawLive` and `Named` (a raw name
without an entry, an entry without its name, are some handler's to settle, or astray).
The greater part of the proof is that handlers leave each other alone: from `Locked`,
the directory locks, `VerbApart` and `RecordApart` derive that no step of one touches
the paths of another, and `TaskFrame` that what one owes is thereby kept; `MoveFacts`
has what a rename does to a map of paths. The proof showed that the model had been
too loose in two places: the kernel does not find an entry before the handler that
makes it has replied (the guard of `Begin`), and the window "vanishes", above.

The assumptions are the named `ASSUME`s of the modules: bounds are naturals,
sentinels are not members of the sets they extend, `Nfc` is idempotent, files begin
at different paths. Hypotheses beyond them (`Granule = 1`, closed windows) stand in
the theorems. Each proof module has its own lemmas about paths.

Every invariant and action property of the passing runs, and both refinements, is
stated by a theorem. Only model-checked is liveness (`HandlersSettle`, `StaleEnds`,
`CallsReturn`, `StartupEnds`, `RefreshEnds`), which is outside the prover's reach.

## Left out of the modelled components

- `ViewCache`: `open`, `write` and `setattr` also adjust size and times of the
  cached attributes in place; entries whose names cannot be local names are
  skipped by `populate_from_list`; `full` events (as `lost`).
- `HandleNames`: one value stands for remote and cache path, since `follow_rename`
  moves both; a cache path that does not mirror the remote path is left out, as
  are create and unlink of a file that is open, whose outcome the engine decides. So are
  the inodes of folders (paths of a rename are any paths the kernel may have looked up),
  the second inode a file gets when it is looked up again under the path of a rename
  whose reply was lost, and the kernel's locks between renames, which exclude some of
  the overlaps allowed here.
- `Namespace`: the inode half of the same handlers, which is `PathMap`, and the
  file a create opens, which is `WritePath`.
- `Recovery`: the steps of a served mount, which are `WritePath`; the version,
  kernel and logging preliminaries of `run`. `Create` is one step: a kill between the
  daemon's stamp and the mount's truncating open (`fuse_fs.rs:1817` to `1836`) is left
  out; it would leave a row without a cache file, or with the old one.
- `Quota`: a reply marked `stale` (`quota.rs:4`), which the code takes like any other.
  `NeverGoesBack` thus assumes that the daemon's own value does not go back.
- `WritePath`: reads, which change nothing; local read, write and sync errors,
  which return before any state changes; a `close_handle` that is refused on a live
  connection, which is logged as a lost one is (`fuse_fs.rs:1109`) but would leave the
  handle in the engine's open set; that fsync commits one descriptor's writes and not
  those of others of the file (no comment promises otherwise).
- `Reconnect`: the JSON of the verbs; the time an attempt itself takes; nonces and
  MACs, of which only "same token, same proof" is left.

## Plan

Left to prove:

1. **HandleNames**: that an fsync overlapping at most one rename uploads its own file
   or none, the positive side of `handle_names_fsync`.
2. **Namespace**: `VisibleAsNamed` with the three windows open and their paths astray;
   a record then has to know whether the entry it names is still the one it made.
3. **Recovery**: `Create` in two steps.
