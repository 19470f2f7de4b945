# A TLA+ model of PalPanel

PalPanel runs a Palworld dedicated server: a Go backend with a SQLite database, a React
front end, a Python plugin for AstrBot (chat bot) that keeps the members' credits, a C#
bridge to the breeding solver, and scripts. This directory holds the TLA+ modules that
model its core, the TLC configurations that check them, and the proofs of their main
theorems. Paths below are relative to the repository; `internal/` stands for
`backend/internal/`.

To run: `tlc -workers 2 -config MCJobExecutor.cfg MCJobExecutor` (and so on for each
`.cfg`), `tlapm JobExecutor_proofs.tla` (and so on for each `*_proofs.tla`).

## 1. Inventory

What each part keeps, does, and must get right. "Modelled" parts have a module (section 2);
the others are the plan (section 8) or are left out (section 9).

### Job executor - `internal/jobs/executor.go`, rows in `internal/db/store.go`, life of the process in `cmd/palpanel/main.go`
* State: one row per job (status, error code), a channel of slots for general jobs, one mutex
  for lifecycle jobs, `accepting`, a cancellable context, a wait group; outside it, `runPanel`
  with its start, two-stage shutdown and exit.
* Operations: `Submit`, the goroutine of a job (`run`, `acquire`, `ensureTerminal`,
  `release`), `Update`, `Shutdown`, `Reconcile` at boot.
* Interactions: every long operation of the panel is a job; work functions write their own
  row; a row that is still open at boot is failed.
* Hard: a `Submit` against a `Shutdown`; panics that hold the mutex or a slot; writes of rows
  that fail; a shutdown that times out with work going on; a crash at any point.
* Correct when: lifecycle jobs exclude each other, slots are neither leaked nor exceeded,
  every open row has somebody who will close it, a closed row stays as it is.

### Server process - `internal/server/native_linux.go`, `host_wine_*.go`, `process_windows.go`, `Start/Stop/Restart/Status` of `manager.go`
* State: one key-value row with the identity (PID and start time) of the server last started
  (on Windows next to an older row with the PID alone); the processes of the host; the
  goroutine that waits for each child; on Windows the job object a server was put in.
* Operations: start, stop (SIGTERM, deadline, SIGKILL; on Windows the end of the job or of the
  process tree), restart, status; on Host Wine, the discovery of the Shipping process of a Wine
  session.
* Interactions: operations hold `operationMu`; `Status` and the waiting goroutine read and
  clear the same row without it; the server outlives the panel, unless it is in a job whose
  only handle the panel holds.
* Hard: PID reuse, stale readers that clear a row written meanwhile, a panel that dies between
  launch and row, a server that ignores SIGTERM.
* Correct when: no stranger is signalled, a stopped server is gone, a living server is not
  forgotten or launched over, every operation returns.

### World reset, backup, restore - `internal/server/world.go`, `manager.go`, `webdav.go`
* State: the worlds under `SaveGames/0`, a staging directory per job, backup archives,
  `DedicatedServerName` in the settings, the running server, the job rows.
* Operations: the reset (check, prepare, stop, archive, verify, move, start, wait for the new
  world, clean up; undo before the move), the restore (verify, stop, archive, extract), the
  backup (archive, upload), `DeleteBackup`, editing the settings, `Start` and `Stop`.
* Interactions: all three are lifecycle jobs under `operationMu`; `DeleteBackup` and the
  settings handler take no lock; the game server writes the same files.
* Hard: a step that fails between archive and last change; a server that saves or comes back
  meanwhile; a crash of the panel in the middle; a new world that never appears.
* Correct when: no server has a world loaded while its files are moved, what was there can be
  had back, the old world is not dropped without a new one, every job ends.

### GM write idempotency - `internal/api/paldefender_gm_idempotency.go`
* State: a map of at most 1024 entries under a mutex: fingerprint, done channel, outcome, time.
* Operations: `do` - purge, conflict, join, evict the oldest, refuse, execute (errors and
  panics included), finish, wake the waiters.
* Hard: duplicates in flight, retries of an uncertain write, eviction and expiry next to them.
* Correct when: a key's write is not in flight twice and not repeated while its outcome is
  kept, a replay is the outcome of the same request, nobody waits for ever.

### Breeding calculations and AstrBot credits - `internal/breeding/service.go`, `internal/api/astrbot_integration.go`, `internal/astrbotclient`, `palcalc-bridge/Program.cs`, `astrbot_plugin_palpanel/storage.py`
* State: in the plugin, accounts, a ledger, check-ins and reservations with an expiry; in the
  panel, job rows and results; in the bridge, solver jobs in memory.
* Operations: check-in, adjustment, reserve, settle, expiry; request, submit (fresh or from
  the cache of results), poll, fetch, store, settle; pause, resume and cancel.
* Interactions: HTTP between three processes, each call made once, with errors dropped.
* Hard: lost calls and answers, an expiry racing a settlement, a bridge or a panel that dies,
  a button pressed as the solver ends, a result that cannot be fetched.
* Correct when: points are neither made nor lost, a reservation is decided once, nobody pays
  for a calculation without a result, row and result tell the same outcome.

### Read cache - `internal/api/cache.go`, `cache_helpers.go`
* State: values with an expiry and the registered load of each key, under a mutex.
* Operations: `Get`, `GetOrLoad` (hit, join, lead, stale fallback), `DeletePrefix`.
* Hard: the load is announced before its value is stored; an invalidation during a load; a
  load that fails with waiters attached.
* Correct when: one load per key at a time, no answer older than what was known, all answered.

### Installation, update, SteamCMD, mod loaders - `internal/server/manager.go`, `version.go`, `internal/steamcmd/client.go`, `internal/paldefender/manager.go`, `ue4ss.go`
* State: the installed game and the builds it consists of, the SteamCMD tool on disk, the
  loader's files with the copies set aside during an installation, the running server, the
  recorded version, the job rows.
* Operations: install, update, smart update (which looks for a new build first), safe
  restart, version check; installation of PalDefender and UE4SS with their rollbacks.
* Interactions: updates and restarts hold `operationMu`, the installations of the loaders do
  not; all but the version check are lifecycle jobs; SteamCMD is shared by all of them.
* Hard: a server started by hand while files are replaced; a step that fails after the server
  was stopped; a rollback that fails; a panel that dies between two renames; a tool replaced
  while a command runs.
* Correct when: no file is replaced under a running server, an update that reports success is
  one, a completed installation is whole and a failed one says truly what it left.

### Scheduler - `internal/scheduler/manager.go`
* State: schedule rows (type, enabled, next run, last job), a 30 s ticker.
* Operations: `RunDue`, `RunNow`, `Create`, `Update`, `Delete`; the jobs it submits.
* Hard: a run writes back the copy of the row it read before it submitted; `hasRunningJob` and
  the submission are two steps; a list that cannot be read counts as no job; restarts.
* Correct when: an edit or a deletion is undone only by a run that was already under way, and
  jobs of one type run together only in the windows the code leaves.

### Mods - `internal/mods/importer.go`, `manager.go`, `settings.go`, `local_scan.go`, `local_actions.go`
* State: mod rows, managed directories, the list of enabled packages in the settings, the
  registry of inspections with their staging directories.
* Operations: inspect, select, import, upload, enable, disable, delete, expire, boot; scan for
  directories without a row, import one as a copy or repair it by a row of its own.
* Hard: a step that fails after files, row and list were changed in part, and the undoing that
  fails too; an inspection that expires while it is worked on; switches without a lock; a scan
  whose findings are stale when they are acted on.
* Correct when: an inspection in use keeps its files, a failed installation restores what was
  there, an update keeps one row of a package, a repair gives it the only one, the list agrees
  with the rows when quiet.

### Save sources and the save index - `internal/api/save_sources.go`, `internal/saveindex/saveindex.go`
* State: source rows (one active), imported directories, the path of the index manager, the
  cache file with the fingerprint it was built under.
* Operations: import, activate (with a rollback), rebuild, rename, delete, `Current`, boot.
* Interactions: the game saves while an index is built; a reset moves the world away and
  invalidates the cache; the catalog of the plugin is sent from `Current`.
* Hard: handlers without a lock over row, path and cache; an index built while the source or
  the world changes; an error that `Current` drops.
* Correct when: row and path agree when no activation is under way, an index is current only
  if it was read from exactly that world, the active source has its files.

### AstrBot bindings - `astrbot_plugin_palpanel/storage.py`, `main.py`, `internal/api/astrbot_integration.go`
* State: the catalog of players, one binding per member with a status.
* Operations: bind by code or by an administrator, freeze, unbind, synchronise every 30 s.
* Hard: catalogs that overtake each other, an empty one that was never meant to be sent.
* Correct when: a synchronisation freezes a member only if his player is not in the world.

### Docker runner - `internal/docker/runner.go`
* State: none of its own; the engine keeps the container, its restart policy and the image.
* Operations: start, stop, restart and build, each a sequence of commands to the engine.
* Hard: the engine stops, loses a command or restarts the container between any two of them.
* Correct when: a server the panel has stopped does not come back before somebody starts it.

### Launcher - `cmd/palpanel-launcher`
* State: a mutex per directory, a job object with the three children, a box on the screen.
* Operations: start the children one by one, wait for their health, show the box, watch, close.
* Hard: two launchers of one directory; a child that ends before the box is there; handles
  that Windows closes when a launcher dies.
* Correct when: only one launcher has children; it ends when a child it needs has ended.

### Settings of the game - `internal/palconfig`, `internal/api/router.go`, `internal/server/import.go`
* State: `PalWorldSettings.ini` in the server's directory, which an import changes; the flag
  `pending_restart`.
* Operations: read, merge, validate and write; write the defaults; import a directory; mark and
  clear the flag.
* Hard: edits under no lock that empty the file and write it in place; texts that do not read
  back as they were written; a start that clears the flag without a restart.
* Correct when: an edit keeps what it does not touch, a server with older settings is announced.

### Docker setup - `internal/server/docker_install.go`, `docker_mirrors.go`
* State: the engine of the host, `registry-mirrors` in `daemon.json`, one script file per kind.
* Operations: plan, request, and the job that plans again, writes its script, and has it run.
* Hard: all plans write the same file; two scripts merge `daemon.json` at once.
* Correct when: a completed job has carried out its own plan, the administrator's mirrors stay.

### Translation of descriptions - `internal/aitranslation/service.go`
* State: the provider's configuration in two rows and two files, the stored translations.
* Operations: read, update, test, translate, look up.
* Hard: an update changes the four one after the other under a mutex nobody else takes.
* Correct when: the key of one provider is not used with the address of another.

### Download client - `internal/downloadclient/client.go`
* State: one cached file per key and the `.part` file it is written under.
* Operations: look into the cache, try the addresses, deliver, put into the cache.
* Hard: downloads of one key share both names; a crash leaves half files under them.
* Correct when: what is delivered is whole.

### Other components
| Component | State | Operations | What makes it correct |
|---|---|---|---|
| Database `internal/db/store.go` | all rows, one SQLite connection | statements and migrations | each statement is atomic: used as such by the models |
| Authentication `internal/auth/service.go` | users, sessions, attempts | login, logout, password, roles | no last administrator removed, sessions die with the password |
| Challenges, tickets, nonces `storage.py`, `main.py` | codes and tickets with an expiry | issue, confirm, exchange | each is used once |
| Monitor, environment file of the panel, sav-cli, front end, router | little or none of their own | input and output | see section 9 |

How they interact: handlers of the API and the scheduler submit jobs to the executor; the
lifecycle jobs drive the server process and the worlds under `operationMu`; the scheduler looks
at the job rows before it submits; the loaders and SteamCMD share the executor's one mutex for
lifecycle jobs, and only some of them also `operationMu`; a reset invalidates the save index,
and the index feeds the plugin's catalog, which decides on bindings; the GM store and
the cache stand between the API and PalDefender or the state of the server; the breeding
service and the plugin call each other over HTTP; the runtime of the server is a process of the
host or a container, and either is driven under `operationMu`; the settings file is read by the
game when it starts, and the list of enabled mods is another one; everything durable goes through one SQLite
connection (the panel) or another one (the plugin).

## 2. Modules

| Module | Models | Depends on |
|---|---|---|
| `JobBoard` | the abstract promise of the executor: who may be at work, and how an outcome changes | |
| `JobExecutor` | executor, goroutines, `runPanel`, crash | `JobBoard` (refinement) |
| `ServerProcess` | the identity row against the processes of the host | |
| `Maintenance` | SteamCMD, installation, update, smart update, safe restart, version check | takes from `JobExecutor` that lifecycle jobs exclude each other |
| `Loaders` | installation of PalDefender and UE4SS with rollback, next to the jobs of `Maintenance` | extends `Maintenance` |
| `DockerRunner` | the server as a container | |
| `Launcher` | the launchers of one directory and their children | |
| `Scheduler` | ticker, manual runs and edits over one executor | extends `JobBoard` |
| `SettingsFile` | the settings of the game, their format, and `pending_restart` | |
| `DockerSetup` | plans and jobs for the engine and its mirrors | |
| `Translation` | the provider's configuration under updates and readers | |
| `Downloads` | downloads of one cache key | |
| `ModLibrary` | inspections, import, upload, switch and deletion of mods; import and repair of local mods | |
| `SaveSources` | sources, path, cache file and their handlers | |
| `Bindings` | a member's binding under the synchronisation of the catalog | extends `SaveSources` |
| `WorldSaves` | reset, restore, backup next to the game server | takes from `JobExecutor` that lifecycle jobs exclude each other |
| `GMIdempotency` | the idempotency store | |
| `CreditStore` | the plugin's transactions on points | |
| `BreedingJobs` | panel service, plugin points and bridge together | extends `CreditStore` |
| `TTLCache` | the read cache | |
| `MC*` | model values, symmetry sets and small functions for TLC | the module after `MC` |
| `MCRuntimes`, `MCServices` | several components that share nothing, for one run of TLC: the variable `turn` says which of them a behaviour is about | `ServerProcess`, `DockerRunner`, `Launcher`; `Scheduler`, `SettingsFile`, `DockerSetup`, `Translation`, `Downloads` |
| `*_proofs` | theorems about the module of that name | it and `TLAPS` |
| `ServerProcess_proofs` | also those of `DockerRunner` and `Launcher` | |
| `Scheduler_proofs` | also those of `SettingsFile`, `DockerSetup`, `Translation`, `Downloads` and `ModLibrary` | |
| `BreedingJobs_proofs` | also those of `CreditStore`, and of `SaveSources` with `Bindings` | |

Definitions carry the names of the code where there is one; every definition names its lines
in `PROJECT.json`. Definitions whose name has a suffix after an underscore (`Submit_always`,
`FetchFails_ignored`) are deliberately wrong forms of the definition that follows them: they
stand for a bug one could make at that place, and each is caught by one property.

## 3. How the modules correspond to the code

### JobExecutor
`row` is the jobs table, `pc[j]` the place of the goroutine `run` of job `j`, `lifecycle` and
`slots` the mutex and the channel, `accepting`, `cancelled` the fields of `Executor`; `phase`,
`cleanExit` and `stops` follow `runPanel`. One action is one step between two points at which
another goroutine can intervene:

| Code | Actions |
|---|---|
| `Submit` (row, count, `go`, all under `e.mu`) | `Submit` |
| `acquire` | `LockLifecycle`, `CheckCancelled`, `TakeSlot`, `RefuseSlot` |
| `run` when not acquired | `WriteInterrupted` |
| the work function | `Report`, `Return`, `Panic` |
| `run` after the work | `WritePanic`, `ReadRow`, `WriteMissing`, `Release` |
| `runPanel`, `Shutdown`, `Reconcile` | `Boot`, `BeginShutdown`, `ShutdownDrained`, `ShutdownTimeout`, `ExitDrained`, `ExitTimeout` |
| end of the process at any time | `Crash` |

A failed read or write of a row (`StoreMayFail`) leaves the row and puts the job into `logged`,
as the log line does. `JobBoard` has only outcomes, classes and the jobs at work; the mapping
`Board` in `JobExecutor` takes open rows to `open`, failed and cancelled ones to `failed`.

### ServerProcess
`record` is the row, `proc` and `pid` the processes the panel launched, `foreign` the PIDs of
everybody else. A server is its identity, so "same PID and start time" is equality and "same
PID" is `pid[s] = pid[t]`; `undated` are the servers whose start time could not be read when
their native record was written, which match by PID alone (`native_linux.go:99`); `struck`
collects the servers by whose record a stranger got a signal. `Misread` is a look at `/proc` that
fails and so takes a live server for an exited one. `op` is the
operation under `operationMu`, step by step from load to clear; `poll` one `Status` call and
`waiter` the goroutines in `cmd.Wait`, which hold nothing. `mode` picks the native,
the Wine or the Windows runtime; they share the actions and differ in the conjuncts on `mode`.
Of Windows, `bare` says that of its two rows only the PID is left, so that the row stands for
whichever server has that PID (`Loaded`); `Refuses` that the recorded PID belongs to another
process by now, which is an error and no reason to forget; `Owned` names the servers in a job,
any of which a `Crash` may take along; `UndoLaunch` is the start whose rows could not be written.
PIDs are not reused in the instant between the look at a process and the signal that follows.

### DockerRunner and Launcher
`box` is the container and `verb` the call under `operationMu` with the command it gives next
(`Status`, `StopContainer`, `RemoveContainer`, `RunContainer`, `BuildImage`); `CommandFails` ends
it at any of them. The engine stops and comes back (`EngineStops`, `EngineStarts`), the game dies
and is restarted by the policy (`GameDies`, `GameReturns`) between any two; `halted` is what the
engine remembers of a stop, which decides whether it restarts the container. `wanted` is history.

A launcher goes through `Acquire`, `SetUp`, then `Starts`, `Assign` and `WaitForHealth` for each
child, `Ready`, and two parallel ends: the box (`ShowBox`, `CloseBox`, `AwaitBox`) and the
goroutine that watches (`WatchEnds`, `Dismiss`); `CloseJob` and `Unlock` close the handles in the
order of the deferred calls. A launcher that dies (`LauncherDies`) leaves both behind, and
Windows closes them in any order (`DropJob`, `DropMutex`) before it is gone (`Buried`).

### WorldSaves
`disk`, `staged`, `zip` and `setting` are the files; the content of a world is the set of save
versions its files come from, so a mixture of two saves, which a partial extraction leaves, is
a set of two. `job`, `at`, `was` are the lifecycle job in progress: `Begin` may act only
when `job = NoJob`, which is what `LifecycleExclusive` of `JobExecutor` says. `Work(j)` is the
disjunction of the steps of the three jobs:

| Code | Actions |
|---|---|
| `runWorldReset` | `Check`, `Prepare`, `StopServer`, `StopServerFails`, archive, `Verify`, `Move`, `MoveFails`, `Rewind` (`failBeforeWorldMove`), `StartNew`, `StartNewFails`, `Generated`, `GiveUp`, `CleanUp`, `Halt` |
| `createBackupArchive` | `OpenArchive`, `CloseArchive`, `ArchiveFails`, `FailArchive` |
| `RestoreBackup`, `extractZipSafeValidated` | `VerifySource`, `StopServer`, archive, `Extract`, `Extracted`, `ExtractFails`, `Finish` |
| `Backup`, WebDAV | archive, `Upload` |
| `Manager.Start`, `Manager.Stop` | `Start`, `Stop`, from what the runtimes do (`Starting`, `NotStarting`, `Stopping`) |
| `linuxStatus` and the waiters, which clear the identity row | `RowCleared` |
| `DeleteBackup`, `updatePalworldConfig` | `DeleteBackup`, `EditSetting` |
| end and boot of the panel | `Crash` |
| the game server | `Save`, `ServerExit` |

`server` is the world of the server the panel reckons with, `lost` the worlds of servers that
live on though the panel takes them for gone. `Escapes` names the ways in which a server gets
lost: `"stop"` (a stop that returns nil without a record, on a misread process, or after an
unawaited SIGKILL), `"start"` (a start that replaces the identity of a running server, or fails
and does not await the end of what it launched), `"row"` (the row of a living server is cleared),
`"status"` (`Manager.Status` answers "error" without an error). How the runtimes come to that is
`ServerProcess`; the proofs hold for any `Escapes` and the run has all four. A lost server saves
at any moment, also into the archive being made. `old` is history: the worlds as they were when a
job made its first change, without those a lost server wrote since the archive was opened
(`torn`).

### GMIdempotency
A member of `Calls` is one request from `Arrive` to its answer. `entries[k]` is the call that
made the entry of key `k`; its fingerprint, time and outcome are read through that call, as the
code does through the pointer. `Locked(c)` is the body of `do` under the mutex, with one action
per way out of it (`Conflict`, `Join`, `Admit`, `AdmitEvicting`, `Busy`), `Finish` the end of the write,
`Wake` and `GiveUp` the two cases of the select of a waiter.

### CreditStore and BreedingJobs
`CreditStore` has one action per transaction of the plugin (`Take` and `ReleaseExpired` are the
two of `reserve`). `BreedingJobs` extends it with the panel (`pc`, `row`, `result`) and the
bridge (`bridge`, `solver`) and adds no other way to touch the points. Each call has a variant
in which it fails before or after the callee acted (`Unreachable`, `Granted` with a lost
answer, `PostFails`, `FetchFails`, `SettleLost`), each write one that is dropped (`Write`,
`unsaved`); `Restart`, `BridgeCrash` and `PluginStart` are the ends of the three processes.

### TTLCache
The sections of `GetOrLoad` between two acquisitions of the mutex are the actions `Fresh`,
`Hit`, `Join`, `Lead`, `Load`, `Return` (the wait group), `Store`, `Share`, `FallBack`,
`Deliver`; a value is the version of the world it was read from. A loader that panics is left
out: the loaders are the panel's own and return errors.

### Maintenance and Loaders
Three exclusions meet: `lifecycle` (the executor's mutex), `op` (`operationMu`) and `gate` (the
token of the SteamCMD client). `build` and `public` are the installed and the newest build,
`Torn` what a command that failed left; `tool` says whether the SteamCMD directory passes
`validateInstalled`. One job runs `Begin`, `Enter`, `LockOp`, `Probe`, `StopServer`, `Archive`,
`Ensure`, `Acquire`, the end of its command (`GameEnds`, `LookEnds`, `VerifyEnds`,
`CommandFails`), `Record`, `StartServer`, as far as its kind has those steps; `GiveUp` is an
error at any of them, `Crash` the end of the panel. `Loaders` adds the installation of UE4SS and
PalDefender: two files per stage, each moved aside and replaced (`MoveAside`, `Place`,
`ReplaceFails`), undone latest first (`Undo`, `UndoFails`), and the rollback request, which
copies files back under no lock (`RollbackBegins`, `RollbackCopies`). `server` is the truth, not
what the panel knows: a probe may read a running server as stopped, and a stop may report success
over a live one (`StopServer`, `StopRequest`). `blind`, `intruded`, `meddled` and `stuck` are
history: the jobs that overlooked the server that runs, a request started the server during the
stage, the rollback request wrote during it, a file moved away could not be put back.

### Scheduler
`JobBoard` stands for the executor (which implements it); `type` adds the type of a job.
`table` is the row, `copy[r]` the copy a runner works with, `editor` that of an edit. `RunDue`,
`RunNow`, `Check`, `Submit`, `SubmitFails`, `WriteBack` are a run from the read to the
write-back; `EditReads`, `EditWrites`, `Delete` the handlers; `Dies`, `Boots` the panel. `recent`
is what a list of the jobs has, the newest `ListLimit` rows (100 in the code). `acked`
remembers what the last edit or deletion was told, `overlap` that a run or an edit was under way.

### SettingsFile
A text is a sequence of symbols (`"`, `\`, parentheses, comma, equals sign, a symbol without
meaning), so that `Quote`, `FormatValue`, `Serialize`, `Parse` and `Unquote` do what `schema.go`
does with them. `edit[e]` is one call that writes: `ReadSettings` or `InitializeConfig`,
`OpenFile` (the file is emptied), `WriteSettings`, `MarkPending`, with `WriteFails` between any
two. `Launch`, `Relaunch`, `ClearPending`, `Halt` are what the flag sees of the server,
`RememberDirectory` and `BindDirectory` the import. `said` (what the finished calls have set),
`torn` (files where calls met or were cut off) and `missed` (a change the flag does not tell) are
history.

### DockerSetup
A setup goes `Ask` and `Fill` (plan and script of the request), `SubmitSetup`, `Replan` and
`WriteScript` (the job makes the plan again and writes its script twice), `RunScript` or
`ScriptFails`; what the script does is `InstallPackages`, or `LoadMirrors`, `MergeMirrors` and
`RestartDocker`; `Verify` is the last look. `script[k]` is the one file of a kind; a file that has
been opened and not yet written is empty, and an empty script succeeds. `met` is history.

### Translation
`upd[u]` is a call of `UpdateConfig`: `BeginUpdate` under the mutex, one `WriteField` for each of
the four stored fields, `EndUpdate`, or `EndHalfway` at an error; `talk[t]` any other call, which
reads field by field (`BeginTalk`, `ReadField`) and then answers, translates or looks up
(`Prepare`, `Request`). `meant`, `halfway`, `began` and `shaken` are history.

### Downloads
A file is named by the download that writes it, so that two who hold it open under a name that
has passed on are told apart. `CheckCache`, `DiscardCache`, `OpenCache`, `CopyCache` are the way
through the cache, `FetchOnce` an attempt at an address, `ClearPart`, `CreatePart`, `FillPart`,
`RemoveCache`, `RenamePart` the copy into the cache; `DownloadsEnd` is the end of the panel.
`crossed` is history: two downloads have written to the cache at the same time.

### ModLibrary
`known`, `ready`, `preparing`, `claimed`, `staged` are the registry of inspections and its
directories; `row` (with `path`, the directory it names), `dir`, `list` the three places a mod
is kept in. `LookUp` is a lookup that succeeds: it reads the clock twice, so it may remove the record it
then gives out (`stray`). A job with such a record makes the directory anew if it imports from the
Workshop (`BeginImport`), fails in `Look` if not, and removes it in the end; a selection makes it anew
(`PrepareCandidate`), and then nobody removes it before the next start (`EndSelection` finds no record). An installation is `Look`,
`Aside`, `Place`, `ReadModSettings`, `UpsertMod`, `ListMods`, `WriteModSettings`, `Commit`, undone
by `UndoRow`, `UndoList`, `UndoFiles`, each of which may fail; a switch or a deletion is
`ChangeRow`, `RemoveTarget`, `ListMods`, `WriteModSettings`. `alone` holds the task nothing else
ran beside, `before` what it found. A local action is `BeginLocal` (the rows are read), then the
walk over the directories: `CopyTree` and `InstallCopy`, which goes on as an installation, or
`ScanForRepair`, `CheckRecord`, `InsertRow`; `Refused` is every way it may be turned down. A
repaired row names a directory that is not named after it: updates replace that directory, and
a deletion refuses it.

### SaveSources and Bindings
`rows`, `active` are the table, `path` the path of the index manager (`Server` for the empty
one), `cache` the cache file: a fingerprint and an index, both as the source and the save they
were taken from. `mu` is `Manager.mu`.

| Code | Actions |
|---|---|
| `activateSaveSource` | `BeginActivate`, `Mark`, `Point`, `Invalidate`, the rebuild, and after a failure `Unmark`, `Back`, `Invalidate` |
| `Rebuild` under `mu` | `Lock`, `Parse`, `ParseFails`, `Store`, `StoreFails` |
| `rebuildSaveSource`, `saveIndexRebuild` | `BeginRebuild` and `Invalidate`, `BeginIndex`, the rebuild |
| `Current`, `syncAstrBotCatalog` | `BeginSync`, `LookAtCache`, the rebuild, then `SyncCatalog` or `Lost` |
| `importSaveSource`, `deleteSaveSource`, `renameSaveSource` | `BeginImport`, `StoreImport`; `BeginDelete`, `DeleteRow`, `RemoveFiles`; `BeginRename`, `Rename` |
| the game, a reset, the boot | `GameSaves`; `MoveWorld`, `ResetInvalidates`; `PanelRestarts` |

The writes of display metadata (`UpdateSaveSourceIndex`) and the answers to readers change
nothing these steps look at. `Bindings` adds one member: `SyncCatalog` is `sync_catalog`, `Bind`
the two ways to a binding, `SetBindingStatus` the administrator. `mixed`, `revived` and `raced`
are history: activations overlapped, a renaming made a deleted row again, a synchronisation lost
the cache or the world while it rebuilt.

## 4. What is checked

State counts are TLC's distinct states.

| Run | Question | Bounds | States |
|---|---|---|---|
| `jobs` | rows and exclusion with panics, refusals, crashes and a failing database; does every job and every shutdown end; does the executor implement `JobBoard` | 2 jobs, 1 slot, 2 stops | 42 k |
| `runtimes` | identity of the server on all three host runtimes; a stopped container stays stopped; one set of children, and the end of a launcher with its child | 2 launches (an old and a new server), 2 PIDs (one to be reused), 1 crash of the panel; a list of 2 base images; 2 launchers; the old server's start time may be unreadable (`Undatable`) | 457 k |
| `gm_idempotency` | duplicates, retries, expiry, eviction | 3 calls (writer, waiter, intruder), 2 keys over a capacity of 1, 2 bodies, lifetime and clock of 1 tick | 130 k |
| `gm_target` | finding 1 | the same, 2 players | |
| `breeding` | points, rows and results under every failure | 2 requests of one member who can afford one, one check-in date, adjustments of one point either way, expiry after one tick | 2.18 M |
| `read_cache` | monotone answers, nobody waits for ever | 3 requests (leader, waiter, latecomer) on one key, 2 versions of the world | 851 k |
| `world_saves` | worlds, archives and jobs | 2 jobs (one may restore the archive of the other) out of all kinds, 2 worlds, 2 saves, 1 crash of the panel, every way to lose a server, while one world is in use (`Bounded`) | 1.81 M |
| `world_status` | finding 2 | 1 job, 1 world, a status that fails | |
| `loaders` | maintenance jobs and installations of the loaders together | 2 jobs of any kinds, 2 builds, crashes at any time | 595 k |
| `services` | the schedule; the settings file and its flag; the setup of Docker; the provider of translations; the downloads | 2 jobs with edits and the ticker, 4 without, and lists of 2 rows, so that an open job gets out of sight; the ticker and a manual run, 1 schedule with 2 definitions (due and running, switched off), jobs of clients; 2 edits over 2 keys, with texts of a comma, a quotation mark and a backslash or that look closed; 2 setups, 2 sources, 2 mirrors beside the administrator's; 2 updates and 1 reader; 3 downloads (one may write while two meet), 2 attempts | 1.94 M |
| `mods` | inspections, tasks and local actions | 1 inspection, 2 tasks, 2 mods of one package; beside an inspection only one task past its beginning (`Bound`, a constraint: nothing in the library knows of inspections) | 2.60 M |
| `sources` | row, path, cache and files; the catalog | 2 tasks of any kinds, the server's world and 1 import, 2 saves | 2.59 M |

`runtimes` and `services` check several components that share no variable: `turn` is chosen in
the initial state and only the component it names takes steps, so the states add up instead of
multiplying. Fairness in `runtimes` is stated for the component whose turn it is.

The bounds on clocks, saves, launches, crashes and points are guards of the actions that count
them (`MaxTime`, `MaxVersion`, `MaxLaunch`, `MaxCrash`, `MaxStops`, `MaxPoints`); they cut
behaviours off, they do not change what a step does. Each is large enough for the hazard it
serves to occur: without the sets named in the table there would be no second contender,
no eviction, no reused PID, no foreign archive to restore. Where a theorem covers the property
(section 6) the bounds on jobs, calls, requests and worlds do not matter.

Symmetry is used where no liveness is checked (`breeding`, `mods` and `sources`,
which have invariants and action properties only).

`CHECK_DEADLOCK FALSE` stands where job ids, requests or launches are used up and the system
rests; the other runs have an action that is always enabled.

### What the properties say
* Executor: `NoRowForgotten` (an open row has a goroutine or a logged failure, and a clean exit
  leaves none), `FinalUnlessPanic`, `EveryJobSettles`, `ShutdownEnds`, and `ImplementsBoard`,
  which contains the exclusion of lifecycle jobs and the bound on the others.
* Server: `NoStrangerSignalled`, `StoppedIsGone`, `OnlyStaleReadersForget`, `OperationsEnd`. The
  first has one exception, a server whose start time could not be read at its launch
  (`undated`): its record matches whoever has the PID. `StoppedIsGone` excepts a process that was
  misread. The third says exactly which steps can lose the identity of a living server on the
  native runtime and on Windows: a `Status` or a waiter that looked at an earlier server or could
  not read the process, a native start that could not read the row, or a start on Windows, which
  does not ask. `OperationsEnd` excepts a native stop that waits for a PID a stranger has
  (`Stranded`), again for an undated record only.
* Container: `StoppedStaysStopped`. Launcher: `OneSetOfChildren`, `EndsWithItsChild`.
* Worlds: `QuietWorlds` (while a job changes worlds the only servers that have one loaded are
  those the panel has lost: no start by hand and no failed step brings up another),
  `OldWorldKept` (what a job moved or overwrote is in the archive made before, world by world,
  but for one that a lost server wrote meanwhile, and a reset drops the old world only for a new
  one), `JobsEnd`. What a reader would rather have, that no server at all has one loaded
  (`WorldsAreFree`), is what `world_status` refutes.
* Maintenance and loaders: `FilesUnderStopped` (no server runs while a command rewrites the game
  or a stage its loaders, but one that the job's own probe or stop overlooked or, for the loaders,
  that a request started in the middle), `CommandOnWholeTool`, `ReportsAreTrue` (a completed update is at least
  the public build of its beginning, and the server it stopped runs again; a completed
  installation is whole; what is reported as restored is), `JobsEnd`.
* Scheduler: `EditSurvives`, `OnePerType` (of the newest `ListLimit` rows two open ones of a type are
  not both from runs). Both name the windows the code leaves.
* Settings: `SettingsSurvive` (a file holds, key by key, what the finished calls have set),
  `PendingTellsStale`.
* Docker setup: `SetupHolds`; translation: `CalmReadIsWhole`; downloads: `DeliveredWhole`. Each
  is about calls that met no other one at the place where the code has no lock, and says so.
* Mods: `StagingKept` (a record in use stays in the registry with its directory, and a directory goes
  with its record, but for the strays), `QuietSettings`, `FailedInstallRestores`, `InstallKeepsOne`.
* Sources: `ActiveIsShown` (row and path agree and the files are there), `CurrentIndexIsTrue`;
  bindings: `FrozenOnlyByRace`.
* GM writes: `ReplayIsGenuine`, `NoRepeatedWrite`, `EveryCallAnswered`.
* Breeding: `AccountsHold` (points are conserved, a reservation is decided once), `OutcomesAgree`
  (a member is charged only for a result; row and result tell the same).
* Cache: `NeverOlder`, `EveryoneAnswered`. `NeverOlder` has two exceptions it states: an
  invalidation during a load, and an answer shared before its value is stored.

Type invariants, and the invariants `LifecycleExclusive`, `GeneralBounded`, `OneWritePerKey`,
`WithinCapacity` and `SingleFlight`, are proved (section 6) and not run again.

### Findings
1. `gm_target`: the fingerprint has the route pattern and not the player
   (`paldefender_gm_idempotency.go:145`): the same key and body for another player replays the
   first answer, against `docs/openapi.yaml:101`.
2. `world_status`: `Manager.Status` returns no error when the probe of the runtime fails, and a
   reset takes a live server for a stopped one (`world.go:119`), against `backend/README.md:107`.

### Behaviour of the code the models show and the properties allow for
Each of these is a step of a model and an exception a property names.

* `runtime_provider.go:8` asks that an implementation verify the identity of a process, not its
  PID alone. A native record without a start time does not (`native_linux.go:99`), and a `/proc`
  entry that cannot be read counts as a process that has ended.
* A stop may return nil and leave a server: without a record that can be read
  (`native_linux.go:120`, `host_wine_lifecycle_linux.go:121`), and after a SIGKILL nobody waits
  for (`host_wine_lifecycle_linux.go:149`). Jobs that stop the server first rely on it.
* Host Wine and Windows: `Start` does not ask whether a server runs and replaces the identity of
  the first (`host_wine_lifecycle_linux.go:22`, `manager.go:931`).
* A settlement is tried once: a successful calculation may stay unpaid (`breeding/service.go:250`).
* An update that fails after it stopped the server leaves it down (`manager.go:319`); a status
  of "error" counts as not running there too, and a stop that found no record as done. The
  installation of the loaders refuses only a container that exists (`ue4ss.go:413`), so it goes on
  under a server whose runtime cannot be queried.
* The jobs of the loaders do not hold `operationMu`: a request may start the server while files
  are replaced, and an installation never stops a running server. The error of renaming the old
  UE4SS file back is dropped.
* A run of the scheduler writes its whole copy back: it undoes an edit and brings back a deleted
  row (`scheduler/manager.go:201`); a list of jobs that cannot be read counts as no job (159).
  The list has the newest 100 rows (245): a job still open behind 100 newer ones is overlooked,
  and a second one of its type submitted.
* A start that finds the server running clears `pending_restart`, though the server still has the
  old settings, and so does the end of a launch during which the file was written
  (`server/manager.go:520`).
* The settings are edited in place under no lock: of two edits one may be lost, and one that is
  cut off leaves an empty file, which reads as no settings. A text that looks like a group in
  parentheses is written without quotation marks and may not read back as it was.
* A plan for the setup of Docker, also one that is only looked at, rewrites the script a running
  job is about to execute; an empty script succeeds, and of two merges of `daemon.json` one is
  lost (`docker_install.go:302`).
* The provider's configuration is read without the mutex of its update: the key of one provider
  may be sent to the address of another (`aitranslation/service.go:440`).
* Downloads of one cache key write under one `.part` name, and one may put the file the other is
  still writing into the cache (`downloadclient/client.go:321`).
* Overlapping uploads or updates of one package make two rows of it, which blocks later imports;
  overlapping switches may leave the settings behind the rows.
* A lookup may return the record it has just removed, when it expires between two reads of the clock
  (`mods/importer.go:703`, `691`): a candidate selected then leaves a directory that stays until the next start.
* Overlapping activations may leave the active row and the path apart; a row that cannot be read
  at boot leaves the path at the server; a renaming may bring back a deleted row without files.
* `Current` drops the error of a rebuild with the index that came with it: when the cache was
  removed meanwhile, the catalog sent is empty and every binding is frozen until the next one.
* `sync_catalog` sets every binding of a listed player to active: what an administrator froze or
  unbound is active again after the next synchronisation (`storage.py:101`).

## 5. Fairness

* Executor: every step of a goroutine, the boot (a supervisor restarts the panel) and the steps
  of a shutdown, whose waits have deadlines, are weakly fair: the Go runtime schedules what can
  run. That work functions end is an assumption of `EveryJobSettles` alone; `ShutdownEnds`
  does without it.
* Server: the steps of the operation in progress, its deadline, the waiters, and the end of a
  process after SIGKILL. A server need not answer SIGTERM, and no caller has to cancel.
* GM writes: `Locked`, `Finish` (the REST client has a timeout) and `Wake` of every call. No
  client has to send or give up.
* Cache: every step of a request that has begun (loaders have timeouts of their own).
* Maintenance and loaders: some job of the executor takes a step whenever one can (commands,
  waits and requests have timeouts, and a mutex that is given back is taken by a waiter).
* Worlds: `Work(j)` of every job (external calls and the wait for the new world have timeouts).
  Nothing makes the game server save, exit or generate a world.
* Launcher: every step of a launcher that has begun (`LauncherStep`: the waits for health have
  deadlines); nobody has to close the box, and no child has to end.
* The container, the services, breeding, mods and sources have no liveness property: across
  processes and requests their code promises none (a lost settlement or message is not sent again).

## 6. What is proved

The proofs hold for every value of the constants that the named `ASSUME`s of the module allow:
any set of jobs, calls, requests, members, worlds, any capacity, price or lifetime; the bounds
of section 4 may be any number. TLC evaluates each `ASSUME` on the constants of the runs.

| Module | Theorems | Inductive invariant and why it is needed |
|---|---|---|
| `JobExecutor_proofs` | `TypeCorrect`, `Invariance`, `LifecycleExclusion`, `GeneralBound`, `NoOrphanRow`, `CleanExit`, `RowsRemembered`, `FinalRows`, `BoardRefinement`, `NobodyWaitsInVain` | `IInv` = types, `MutexInv` (past `acquire` means holding the mutex), `SlotInv` (the channel holds exactly the general jobs at work), `RowInv` (the row at each place of a goroutine), `PhaseInv`, `CleanExitLeavesNoWork`. Exclusion follows from `MutexInv`, since a mutex has one holder; the row properties need to know how far each row is; the clean exit needs that "drained" stays true once nothing is accepted. `HeldInv` (the holder of the mutex runs) gives the last theorem. |
| `GMIdempotency_proofs` | `StoreInvariance`, `StoreTypeCorrect`, `WritesCoalesce`, `CapacityBound`, `GenuineReplay`, `RetriesReplay`, `WaitersHaveAWrite` | `IInv` adds that an executing call owns the entry of its key (so two of one key are the same), that the zero time marks exactly the calls under way, that a waiter hangs on a call of the same key and body, and that an executed call keeps its entry until it expires or makes room. |
| `BreedingJobs_proofs` | `CreditInvariance`, `Conservation`, `StoreHolds`; `UsesTheStore`, `BreedingConservesPoints`, `BreedingAccountsHold`, `BreedingInvariance`, `TypeCorrect`, `ChargedOnlyForResult`, `RowAgrees`, `StoriesAgree` | First the store: `CreditInv` is types, finitely many reservations, and balance plus what is held equals the ledger. The argument counts: `OneMore` and `Without` say how the set of held reservations changes with one decision. `UsesTheStore` shows that the composed system implements `CreditSpec`; the points then follow from the theorems of the store. `IInv` says what the stage of a request implies for row, result and charge. |
| the same, sources | `SourcesInvariance`, `ActiveOneIsShown`, `CurrentIndexTrue`, `FreezesOnlyByRace` | `SourcesInv` has five parts. `TypeInv`: what the place of a task says of its variables. `IndexInv`: fingerprints and indexes are of worlds that have been there, and an index is never older than the fingerprint it goes with - a save makes the fingerprint of the world newer than both, so one that still fits leaves no room between them. `ActivationInv`: while an activation is the only one (`lone`), row and path are where its step says, and whenever two overlap `mixed` is set. `FilesInv`: rows of imports have files, unless revived, and an id that is being imported is nobody else's. `RaceInv`: a synchronisation that lost nothing has a cache to fall back on, and sends an index. `BindingsStep` shows that the plugin's catalog takes no part in any of it. |
| `TTLCache_proofs` | `Invariance`, `TypeCorrect`, `LoadedOnce`, `AnswersMoveForward`, `WaitersAreReleased` | the registered load is the one under way; nothing cached is older than what is known; what a registered load has found is at least as new as what is cached (`Newest`), and a waiter is owed no more than its leader found (`Waiting`). `Awaited`: a call leaves the map only after it has released its waiters. |
| `ServerProcess_proofs` | `Invariance`, `TypeCorrect`, `StrangersSafe`, `StopsAreReal`, `ForgetsOnlyWhenStale` | `Operation` (what each step under `operationMu` knows of the row and of the server it looked at), `Readers` (the same for a status poll and for the waiters, which hold nothing), `Addresses` (a PID belongs to one process at a time, and one the operation aims at to no stranger: a row that has only a PID left names one server). The last two theorems follow from what `Operation` says of the steps that clear the row. |
| the same, container | `RunnerInvariance`, `StoppedStays` | `StopKept`: since a stop has succeeded no call is under way that would start the server, and what is left of the container is known to the engine as stopped on request, which is why its policy leaves it alone. |
| the same, launchers | `LauncherInvariance`, `OneSet` | `Holds`: whoever works has the mutex, and children are in a job only while its launcher works and has not closed the job, which it does before the mutex. |
| `Loaders_proofs` | `Invariance`, `TypeCorrect`, `UpdatesAreStill`, `CommandsOnWholeTool`, `StagesAreStill`, `TruthfulUpdates`, `WholeInstallations`, `HonestRestores`; `FilesAreStill`, `TrueReports`, `NoDeadlock` | `MaintenanceInv` (`Holding`: who has which mutex at which step; `Placed`: which steps a kind of job has; `Still`, `Fresh`) and `StageInv` (`Shape`: how far a stage is; `Kept`: a file is as it was found or stands aside; `Whole`). The composition is proved as one system, since the exclusions of one half carry the other. `Held`: who has `operationMu` is the job with the lifecycle mutex, and who has the gate is in its command; so somebody can always go on (`SomebodyGoesOn`). |
| `Scheduler_proofs` | `SchedulerInvariance`, `SchedulerTypeCorrect`, `EditsSurvive`, `OneJobPerType` | `IInv` adds to the properties that a runner at work holds a definition (`Working`), that what runs submitted are rows, and that a runner whose look was true finds no open job of its type among the listed rows until it submits (`Answers`), for any `ListLimit`, and that without an overlap the row is what clients were told and every runner's copy is the row (`Copies`): the write-back then changes nothing. |
| the same, settings | `SettingsInvariance`, `SettingsKept`, `StaleAnnounced` | `AloneInFile`: an edit that nobody met will write exactly what was said of its file, changed by what it sets, into a file that it has emptied; `HoldsSaid` is the property file by file. What a format gives back (`FormatAssumption`) enters as an assumption. |
| the same, setups | `SetupInvariance`, `SetupKept` | `Alone` (a request outside `met` shares neither script nor merge) and `Finishes` (its script is its plan, what it ran is its plan, and its mirrors are in the file and in what every later merge has read); the administrator's mirrors are in the file and in every copy. |
| the same, translation | `TranslationInvariance`, `CalmReads` | `MutexHeld`, `HeldIsMeant` (the fields before the one an update is at have its values, the others those of the updates before), `CalmTalk` (what an undisturbed call has read, and what it will read, is one configuration). |
| the same, downloads | `DownloadInvariance`, `DeliversWhole` | `OneStores` (who writes to the cache is alone, and its file is outside the cache until it is full), `WholeCache` (half a file lies in the cache only from the beginning and has not passed a check). |
| the same, mods | `LibraryInvariance`, `StagingSafe`, `SettingsNameTheMods`, `FailuresRestore`, `OneIsInstalled` | `StagingInv` (`StagingKept`; inspections, registry and strays are disjoint, one user each; a claim that waits has no directory of a stray) by itself; for the rest `Knows(t)` of a task that nothing runs beside: `Untouched` (what it has not changed yet, or has taken back), `Installation` (the mod it found, the directory it set aside, the row and the list it has written), `Repair` (the directory and that the row is still missing). The rollbacks then undo exactly what was done. |
| `WorldSaves_proofs` | `Invariance`, `TypeCorrect`, `WorldsAreQuiet`, `NothingLost`, `OldWorldSafe` | `Untouched` (a job changes worlds only past its archive), `Exact` (the archive being relied on is the disk, but for what lost servers wrote), `Restarts`, `NothingAhead` (no file is newer than the last save) and `Generation` (the world generated after a move shares nothing with the one moved away), next to the properties themselves. They hold for every set of `Escapes`. |

Every invariant in this table was an invariant of a TLC run before its proof was written.

Every invariant and action property of section 4 is stated by a theorem, of the component's own
specification; that a component runs beside others in `MCRuntimes` or `MCServices` adds only
steps in which its variables stand still.

`FormatAssumption` (in `SettingsFile`) says that settings of known keys, none of whose texts is
loose, are what reading gives after writing them. The format is a fold over the symbols of a text,
and what it computes for every text would need induction over sequences, which is out of the
prover's reach; so it is an assumption on the constants `Texts`, `Numbers` and `KeyOrder`, and TLC
evaluates it for those of the run. `Loose` texts, which do not read back, are outside it and in
`torn`.

`ImplementsBoard` is both checked and proved. `UsesTheStore` is proved only: TLC checks the
store's two properties in the composed run.

## 7. What is only model-checked

* All liveness (`EveryJobSettles`, `ShutdownEnds`, `OperationsEnd`, `EndsWithItsChild`,
  `EveryCallAnswered`, `EveryoneAnswered`, `JobsEnd` of worlds and loaders): TLAPS does not reason
  about fairness and `ENABLED` here. What is proved of four of them is the invariant that makes
  them possible, that whoever waits has somebody to wait for (`NobodyWaitsInVain`,
  `WaitersHaveAWrite`, `WaitersAreReleased`, `NoDeadlock`); it says "can go on" by the waits of the
  code (`Waits`) and not by `ENABLED`. That the job then goes on, and that it ends, is TLC's part.
* That the format gives back what was written (`FormatAssumption`, above), on the texts of the run.
* The two violations.

## 8. Plan

Done: executor and board, server process, GM idempotency, credits and breeding, cache, worlds,
maintenance with the loaders, scheduler, mods, save sources with the bindings, container and
launcher, settings, Docker setup, translation, downloads, in the order of
what damage a mistake does (lost worlds, lost points, repeated writes) and of what others rest
on (the executor first).

Next, in this order:
1. `Tickets`: codes, tickets and nonces of the plugin, in composition with `Bindings`.
2. `Sessions`: users, sessions and attempts.

Proofs to come: an abstract specification worth stating is a world store with atomic reset and
restore, which `WorldSaves` implements. The jobs of `WorldSaves` and `Maintenance` are not jobs
of `JobBoard` as it stands: their models end a job, and crash, in one step where the executor
takes two, and would implement a coarser board only.

## 9. What is not modelled

* `WorldSaves`: `DedicatedServerName` unset (the code then takes the newest save); archives
  without a manifest; WebDAV beyond success and failure; a crash that Docker's restart policy
  makes good (a status read in between reads the server wrong); a `RemoveAll` that removes part counts as having
  removed all.
* `Maintenance`: the contents of a download, login sessions and prompts of SteamCMD, a command
  that survives a dead panel, the Bootstrap write of the configuration, the Wine prefix and the
  Docker image. A server that Docker's restart policy brings back after the probe of a job counts
  as one that the probe overlooked.
* `Loaders`: native Linux UE4SS, the tracker of UE4SS releases, the REST and RCON calls and the
  templates of PalDefender.
* `Scheduler`: time as a number (a schedule comes due at any moment), more than one schedule:
  runs of different schedules share nothing but the board of jobs.
* `ModLibrary`: the scans for pak files and UE4SS mods, which only report; the ignore list, the
  Workshop search and login, what a crash left under the name of a backup, a removal of a staging directory
  that fails (nobody looks whether it worked), the contents of
  archives; packages do not interact but for the settings file, which is written whole.
* `SaveSources`: the contents of an index, paging and readers, display metadata.
* `Bindings`: codes, tickets and nonces; two members who claim one player (the table's unique
  constraint refuses the second, also after the first was unbound).
* `ServerProcess`: the walk over the process tree with which Windows ends a server that is in no
  job.
* `DockerRunner`: logs, measurements, the commands that run SteamCMD in a container.
* `Launcher`: the rotation of logs, the browser.
* `SettingsFile`: the schema but for which keys want numbers; the panel's environment file.
* `DockerSetup`: what the package manager of the host does; its script succeeds or fails.
* `Translation`: the provider's protocol, headers, limits and the checks of its address.
* `Downloads`: addresses, sizes, digests and archives beyond whether they are right.
* `CreditStore`: chat users listed as administrators, who are never charged; a `reserve`
  repeated with a reference that exists, which the panel never sends.
* `BreedingJobs`: catalog, presets, containers and the solver, which the billing does not read.
* `TTLCache`: a loader that panics, `Set` (only tests call it), time as a number: a value
  expires at any moment after it was stored.
* Router, front end, monitor samples and the save parser: conversions, input and output without
  state that others rely on, or drivers of programs that are not in this repository. Where their failure matters
  (a failed probe, a failed archive, a dead panel) the models have it as an action.
