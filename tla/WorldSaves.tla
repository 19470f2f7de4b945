----------------------------- MODULE WorldSaves -----------------------------
(***************************************************************************)
(* The saved worlds of the game server and the lifecycle jobs that move,   *)
(* archive and overwrite them: the world reset                             *)
(* (internal/server/world.go), the backup and the restore                  *)
(* (internal/server/manager.go), next to a game server that saves by       *)
(* itself, to handlers that take no lock (deleting a backup, editing the   *)
(* settings) and to crashes of the panel and of the game server.           *)
(*                                                                         *)
(* The panel may lose a game server that lives on: what the runtimes do to *)
(* a start, a stop, a probe and the identity row is ServerProcess, and its *)
(* outcomes are here the ways in which a server gets lost.                 *)
(*                                                                         *)
(* Lifecycle jobs run one at a time: that is what JobExecutor shows, and   *)
(* here it is the variable job.  Starting and stopping by hand take the    *)
(* same operationMu.                                                       *)
(*                                                                         *)
(* A world is abstracted to the set of the save versions its files come    *)
(* from: {} has no Level.sav, {v} is what one save wrote, a larger set is  *)
(* a mixture of files of several saves.                                    *)
(***************************************************************************)
EXTENDS Naturals

CONSTANTS
    Jobs,           \* job ids, which also name the staging directories
    NoJob,          \* no lifecycle job is running
    Worlds,         \* directories under SaveGames/0
    NoWorld,        \* no game server that the panel reckons with is running
    Escapes,        \* the ways in which the panel may lose a live game server
    MaxVersion,     \* bound: number of saves of the game server
    MaxCrash        \* bound: number of crashes of the panel

ASSUME NoJobAssumption == NoJob \notin Jobs
ASSUME NoWorldAssumption == NoWorld \notin Worlds
ASSUME WorldsAssumption == Worlds # {}
ASSUME EscapesAssumption == Escapes \subseteq {"status", "stop", "start", "row"}
ASSUME BoundsAssumption == MaxVersion \in Nat /\ MaxCrash \in Nat

VARIABLES
    disk,       \* content of every world under SaveGames/0
    staged,     \* content of .palpanel-world-reset/<job id>
    zip,        \* the archive a job made: its state, the worlds and the setting in it
    setting,    \* DedicatedServerName in PalWorldSettings.ini
    server,     \* the world the game server has loaded
    lost,       \* the worlds that servers have loaded which the panel has lost
    version,    \* last version the game server saved
    row,        \* status of every job
    ask,        \* what a job was submitted for
    job,        \* the job that holds the lifecycle mutex and operationMu
    at,         \* where that job is
    was,        \* its wasRunning
    old,        \* history: the worlds as they were when a job began to change them
    torn,       \* history: of those, the ones a lost server wrote since the archive was opened
    crashes     \* number of crashes of the panel so far

vars == <<disk, staged, zip, setting, server, lost, version, row, ask, job, at, was, old, torn, crashes>>

files == <<disk, staged, setting>>
game == <<server, lost, version>>
history == <<old, crashes>>
rest == <<row, ask, job, at, was, torn>>

-----------------------------------------------------------------------------
Content == SUBSET Nat
Empty == [w \in Worlds |-> {}]

\* partial: createBackupArchive is writing it, or stopped with the panel
NoZip == [state |-> "none", worlds |-> Empty, setting |-> CHOOSE w \in Worlds : TRUE]
Zip == [state : {"none", "partial", "whole", "deleted"},
        worlds : [Worlds -> Content], setting : Worlds]

Backup == [kind |-> "backup", target |-> NoJob]
Ask == [kind : {"reset"}, target : Worlds] \cup [kind : {"restore"}, target : Jobs] \cup {Backup}

ResetSteps == {"check", "prepare", "stop", "archive", "archiving", "verify", "move",
               "start", "wait", "cleanup", "rewind", "halt"}
RestoreSteps == {"verify source", "stop", "archive", "archiving", "extract", "extracting", "finish"}
BackupSteps == {"archive", "archiving", "upload"}
Steps(kind) == CASE kind = "reset" -> ResetSteps
                 [] kind = "restore" -> RestoreSteps
                 [] kind = "backup" -> BackupSteps

\* The place of the job that runs.
Placed ==
    /\ IF job = NoJob THEN at = "idle" ELSE at \in Steps(ask[job].kind)
    /\ \A j \in Jobs : row[j] = "running" <=> job = j

TypeOK ==
    /\ Placed
    /\ disk \in [Worlds -> Content]
    /\ staged \in [Jobs -> Content]
    /\ zip \in [Jobs -> Zip]
    /\ setting \in Worlds
    /\ server \in Worlds \cup {NoWorld} /\ lost \subseteq Worlds
    /\ version \in Nat
    /\ row \in [Jobs -> {"none", "queued", "running", "completed", "failed"}]
    /\ ask \in [Jobs -> Ask]
    /\ job \in Jobs \cup {NoJob}
    /\ at \in {"idle"} \cup ResetSteps \cup RestoreSteps \cup BackupSteps
    /\ was \in BOOLEAN
    /\ old \in [Jobs -> [Worlds -> Content]] /\ torn \subseteq Worlds
    /\ crashes \in Nat

Init ==
    /\ disk = Empty
    /\ staged = [j \in Jobs |-> {}]
    /\ zip = [j \in Jobs |-> NoZip]
    /\ setting \in Worlds
    /\ server = NoWorld /\ lost = {}
    /\ version = 0
    /\ row = [j \in Jobs |-> "none"]
    /\ ask = [j \in Jobs |-> Backup]
    /\ job = NoJob
    /\ at = "idle"
    /\ was = FALSE
    /\ old = [j \in Jobs |-> Empty] /\ torn = {}
    /\ crashes = 0

-----------------------------------------------------------------------------
(* The game server and the handlers that take no lock. *)

\* The steps of a job that has opened its archive and not changed the worlds yet.
Relying == {"archiving", "verify", "move", "extract"}

\* A game server writes the world it has loaded, by itself or when asked to.
Save ==
    /\ version < MaxVersion
    /\ version' = version + 1
    /\ \E w \in Worlds :
          /\ disk' = [disk EXCEPT ![w] = {version + 1}]
          /\ \/ w = server /\ UNCHANGED torn
             \/ w \in lost /\ torn' = IF at \in Relying THEN torn \cup {w} ELSE torn
    /\ UNCHANGED <<staged, zip, setting, server, lost, row, ask, job, at, was, old, crashes>>

\* A game server crashes.
ServerExit ==
    /\ \/ server # NoWorld /\ server' = NoWorld /\ UNCHANGED lost
       \/ \E w \in lost : lost' = lost \ {w} /\ UNCHANGED server
    /\ UNCHANGED <<version, zip>> /\ UNCHANGED rest /\ UNCHANGED files /\ UNCHANGED history

\* An administrator picks another world in the settings.
EditSetting(w) ==
    /\ setting' = w
    /\ UNCHANGED <<disk, staged, zip>> /\ UNCHANGED rest /\ UNCHANGED game /\ UNCHANGED history

\* DeleteBackup removes any archive it finds, the one being written included.
DeleteBackup(k) ==
    /\ zip[k].state \in {"partial", "whole"}
    /\ zip' = [zip EXCEPT ![k].state = "deleted"]
    /\ UNCHANGED rest /\ UNCHANGED files /\ UNCHANGED game /\ UNCHANGED history

Loaded == {server} \ {NoWorld}

\* The panel goes on as if no server ran, though one may.
Lose == server' = NoWorld /\ lost' = lost \cup Loaded

\* A start that reports success.  Host Wine and Windows never ask whether a server runs, and put
\* the identity of the new one in the place of its own; Docker removes the old container.
Starting ==
    /\ server' = setting
    /\ lost' \in {lost} \cup {lost \cup known : known \in {k \in {Loaded} : "start" \in Escapes}}

\* A start that fails.  What Host Wine or Linux had launched by then is killed and not waited for.
NotStarting ==
    /\ UNCHANGED server
    /\ lost' \in {lost} \cup {lost \cup {w} : w \in {v \in {setting} : "start" \in Escapes}}

\* A stop that reports success.  There may be no row or one that cannot be read, the process may be
\* misread for an exited one, and Host Wine does not wait after SIGKILL; on the other hand a row
\* may lead to a server that seemed to be lost.
Stopping ==
    /\ server' = NoWorld
    /\ lost' \in SUBSET (lost \cup {w \in Loaded : "stop" \in Escapes})

\* Mutated form: Start does not lock operationMu.
Start_unlocked ==
    /\ Starting
    /\ UNCHANGED <<version, zip>> /\ UNCHANGED rest /\ UNCHANGED files /\ UNCHANGED history

\* Start and Stop by hand wait for operationMu.
Start ==
    /\ job = NoJob
    /\ Starting \/ NotStarting
    /\ UNCHANGED <<version, zip>> /\ UNCHANGED rest /\ UNCHANGED files /\ UNCHANGED history

Stop ==
    /\ job = NoJob
    /\ Stopping
    /\ UNCHANGED <<version, zip>> /\ UNCHANGED rest /\ UNCHANGED files /\ UNCHANGED history

\* A Status call or the waiter of an earlier server clears the row of a live one, without a lock.
RowCleared ==
    /\ "row" \in Escapes /\ server # NoWorld
    /\ Lose
    /\ UNCHANGED <<version, zip>> /\ UNCHANGED rest /\ UNCHANGED files /\ UNCHANGED history

\* The panel dies: the goroutines are gone and the next boot fails their rows.  The
\* files stay as they are and the game server, a session of its own, lives on.
Crash ==
    /\ crashes < MaxCrash
    /\ crashes' = crashes + 1
    /\ row' = [j \in Jobs |-> IF row[j] \in {"queued", "running"} THEN "failed" ELSE row[j]]
    /\ job' = NoJob /\ at' = "idle" /\ was' = FALSE /\ torn' = {}
    /\ UNCHANGED <<zip, ask, old>> /\ UNCHANGED files /\ UNCHANGED game

-----------------------------------------------------------------------------
(* Jobs: submission, the mutexes, and how a job moves on and ends. *)

\* What the handlers look at before they submit: the world confirmed is the active one
\* and has a save, the archive to restore exists.
Acceptable(a) ==
    CASE a.kind = "reset" -> a.target = setting /\ disk[a.target] # {}
      [] a.kind = "restore" -> zip[a.target].state \in {"partial", "whole"}
      [] a.kind = "backup" -> TRUE

Submit(j, a) ==
    /\ row[j] = "none"
    /\ Acceptable(a)
    /\ row' = [row EXCEPT ![j] = "queued"]
    /\ ask' = [ask EXCEPT ![j] = a]
    /\ UNCHANGED <<zip, job, at, was, torn>> /\ UNCHANGED files /\ UNCHANGED game /\ UNCHANGED history

First(kind) == CASE kind = "reset" -> "check"
                 [] kind = "restore" -> "verify source"
                 [] kind = "backup" -> "archive"

Begin(j) ==
    /\ job = NoJob /\ row[j] = "queued"
    /\ job' = j /\ at' = First(ask[j].kind)
    /\ row' = [row EXCEPT ![j] = "running"]
    /\ UNCHANGED <<zip, ask, was, torn>> /\ UNCHANGED files /\ UNCHANGED game /\ UNCHANGED history

IsReset(j) == ask[j].kind = "reset"
IsRestore(j) == ask[j].kind = "restore"
World(j) == ask[j].target                 \* of a reset
Source(j) == zip[ask[j].target]           \* of a restore

Goto(step) == at' = step /\ UNCHANGED <<row, job, was, torn>>

\* The last update of the row and the return, which unlocks both mutexes.
End(j, status) ==
    /\ row' = [row EXCEPT ![j] = status]
    /\ job' = NoJob /\ at' = "idle" /\ was' = FALSE /\ torn' = {}

Fail(j) == End(j, "failed")

\* failBeforeWorldMove starts the server again if the reset stopped it.
FailUnmoved(j) == IF was THEN Goto("rewind") ELSE Fail(j)

\* Mutated form: a restore goes on without its own backup.
FailArchive_goesOn(j) ==
    CASE IsReset(j) -> FailUnmoved(j) [] IsRestore(j) -> Goto("extract") [] OTHER -> Fail(j)

\* What becomes of a job at the archive steps when the archive cannot be had.
FailArchive(j) == IF IsReset(j) THEN FailUnmoved(j) ELSE Fail(j)

-----------------------------------------------------------------------------
(* createBackupArchive, which all three kinds of job call. *)

OpenArchive(j) ==
    /\ job = j /\ at = "archive"
    /\ zip' = [zip EXCEPT ![j] = [state |-> "partial", worlds |-> disk, setting |-> setting]]
    /\ Goto("archiving")
    /\ UNCHANGED ask /\ UNCHANGED files /\ UNCHANGED game /\ UNCHANGED history

\* Files were read between the two steps: what a running server saved meanwhile is mixed
\* with what it had saved before.  An archive deleted meanwhile fails the final os.Stat.
CloseArchive(j) ==
    /\ job = j /\ at = "archiving"
    /\ zip[j].state = "partial"
    /\ zip' = [zip EXCEPT ![j] = [state |-> "whole", setting |-> setting,
                                  worlds |-> [w \in Worlds |-> @.worlds[w] \cup disk[w]]]]
    /\ Goto(CASE IsReset(j) -> "verify" [] IsRestore(j) -> "extract" [] OTHER -> "upload")
    /\ UNCHANGED ask /\ UNCHANGED files /\ UNCHANGED game /\ UNCHANGED history

\* Any error on the way removes the file.
ArchiveFails(j) ==
    /\ job = j /\ at \in {"archive", "archiving"}
    /\ zip' = [zip EXCEPT ![j].state = IF @ = "partial" THEN "none" ELSE @]
    /\ FailArchive(j)
    /\ UNCHANGED ask /\ UNCHANGED files /\ UNCHANGED game /\ UNCHANGED history

\* A backup job ends with the optional upload, which may fail.
Upload(j) ==
    /\ job = j /\ at = "upload"
    /\ End(j, "completed") \/ Fail(j)
    /\ UNCHANGED <<zip, ask>> /\ UNCHANGED files /\ UNCHANGED game /\ UNCHANGED history

-----------------------------------------------------------------------------
(* Stopping the server, for a reset and for a restore. *)

StopServer(j) ==
    /\ job = j /\ at = "stop"
    /\ Stopping
    /\ Goto("archive")
    /\ UNCHANGED <<version, zip, ask>> /\ UNCHANGED files /\ UNCHANGED history

\* The signal may have been sent: the server may be gone all the same.
StopServerFails(j) ==
    /\ job = j /\ at = "stop"
    /\ server' \in {server, NoWorld} /\ UNCHANGED lost
    /\ Fail(j)
    /\ UNCHANGED <<version, zip, ask>> /\ UNCHANGED files /\ UNCHANGED history

-----------------------------------------------------------------------------
(* runWorldReset. *)

\* The active world and its save are read again; a read may fail.  Manager.Status gives
\* no error when the runtime cannot tell: the container status is then "error", which is
\* not "running".  A server that seemed to be lost may be seen again.
Check(j) ==
    /\ job = j /\ at = "check"
    /\ \/ Fail(j) /\ UNCHANGED <<server, lost>>
       \/ /\ setting = World(j) /\ disk[World(j)] # {}
          /\ Loaded \cup lost # {}
          /\ at' = "prepare" /\ was' = TRUE
          /\ UNCHANGED <<row, job, torn, server, lost>>
       \/ /\ setting = World(j) /\ disk[World(j)] # {}
          /\ server = NoWorld \/ "status" \in Escapes
          /\ Lose
          /\ Goto("archive")
    /\ UNCHANGED <<version, zip, ask>> /\ UNCHANGED files /\ UNCHANGED history

\* hooks.Prepare announces the reset and has the server save, if it still answers.
Prepare(j) ==
    /\ job = j /\ at = "prepare"
    /\ Goto("stop") \/ Fail(j)
    /\ UNCHANGED <<zip, ask>> /\ UNCHANGED files /\ UNCHANGED game /\ UNCHANGED history

\* An archive deleted or cut short does not pass; a good one may still fail to be read.
Verify(j) ==
    /\ job = j /\ at = "verify"
    /\ \/ zip[j].state = "whole" /\ Goto("move")
       \/ FailUnmoved(j)
    /\ UNCHANGED <<zip, ask>> /\ UNCHANGED files /\ UNCHANGED game /\ UNCHANGED history

\* What was on the disk before the job, but for what lost servers wrote since.
Calm == [w \in Worlds |-> IF w \in torn THEN {} ELSE disk[w]]

\* os.Rename takes the whole directory at once.
Move(j) ==
    /\ job = j /\ at = "move"
    /\ disk[World(j)] # {}
    /\ disk' = [disk EXCEPT ![World(j)] = {}]
    /\ staged' = [staged EXCEPT ![j] = disk[World(j)]]
    /\ old' = [old EXCEPT ![j] = Calm]
    /\ Goto(IF was THEN "start" ELSE "cleanup")
    /\ UNCHANGED <<zip, setting, ask, crashes>> /\ UNCHANGED game

MoveFails(j) ==
    /\ job = j /\ at = "move"
    /\ FailUnmoved(j)
    /\ UNCHANGED <<zip, ask>> /\ UNCHANGED files /\ UNCHANGED game /\ UNCHANGED history

\* failBeforeWorldMove: the row fails whether or not the server comes back.
Rewind(j) ==
    /\ job = j /\ at = "rewind"
    /\ Starting \/ NotStarting
    /\ Fail(j)
    /\ UNCHANGED <<version, zip, ask>> /\ UNCHANGED files /\ UNCHANGED history

StartNew(j) ==
    /\ job = j /\ at = "start"
    /\ Starting
    /\ Goto("wait")
    /\ UNCHANGED <<version, zip, ask>> /\ UNCHANGED files /\ UNCHANGED history

StartNewFails(j) ==
    /\ job = j /\ at = "start"
    /\ NotStarting
    /\ Goto("halt")
    /\ UNCHANGED <<version, zip, ask>> /\ UNCHANGED files /\ UNCHANGED history

\* waitForNewWorld sees a new Level.sav.
Generated(j) ==
    /\ job = j /\ at = "wait"
    /\ disk[World(j)] # {}
    /\ Goto("cleanup")
    /\ UNCHANGED <<zip, ask>> /\ UNCHANGED files /\ UNCHANGED game /\ UNCHANGED history

\* Mutated form: only a server that exited ends the wait.
GiveUp_onExit(j) ==
    /\ job = j /\ at = "wait"
    /\ disk[World(j)] = {} /\ server = NoWorld
    /\ Goto("halt")
    /\ UNCHANGED <<zip, ask>> /\ UNCHANGED files /\ UNCHANGED game /\ UNCHANGED history

\* waitForNewWorld ends without one: the server exited, the time is up or the job is
\* cancelled.  The save may come after the last look at it.
GiveUp(j) ==
    /\ job = j /\ at = "wait"
    /\ Goto("halt")
    /\ UNCHANGED <<zip, ask>> /\ UNCHANGED files /\ UNCHANGED game /\ UNCHANGED history

\* The new server is stopped, an error of that stop is dropped, and failAfterWorldMove
\* keeps the archive and the staged world.
Halt(j) ==
    /\ job = j /\ at = "halt"
    /\ Stopping \/ UNCHANGED <<server, lost>>
    /\ Fail(j)
    /\ UNCHANGED <<version, zip, ask>> /\ UNCHANGED files /\ UNCHANGED history

\* os.RemoveAll of the staged world; when it fails part of it may be gone, which counts
\* as all of it.
CleanUp(j) ==
    /\ job = j /\ at = "cleanup"
    /\ \/ staged' = [staged EXCEPT ![j] = {}] /\ End(j, "completed")
       \/ staged' \in {staged, [staged EXCEPT ![j] = {}]} /\ Fail(j)
    /\ UNCHANGED <<disk, zip, setting, ask>> /\ UNCHANGED game /\ UNCHANGED history

-----------------------------------------------------------------------------
(* RestoreBackup. *)

VerifySource(j) ==
    /\ job = j /\ at = "verify source"
    /\ \/ Source(j).state = "whole" /\ Goto("stop")
       \/ Fail(j)
    /\ UNCHANGED <<zip, ask>> /\ UNCHANGED files /\ UNCHANGED game /\ UNCHANGED history

\* extractZipSafeValidated opens the archive; from then on files of the archive replace
\* those on the disk one after the other, and a deleted archive stays readable.
Extract(j) ==
    /\ job = j /\ at = "extract"
    /\ Source(j).state = "whole"
    /\ disk' = [w \in Worlds |-> disk[w] \cup Source(j).worlds[w]]
    /\ setting' \in {setting, Source(j).setting}
    /\ old' = [old EXCEPT ![j] = Calm]
    /\ Goto("extracting")
    /\ UNCHANGED <<staged, zip, ask, crashes>> /\ UNCHANGED game

\* Files the archive does not have are never removed: they may keep older versions.
Extracted(j) ==
    /\ job = j /\ at = "extracting"
    /\ \E left \in SUBSET {w \in Worlds : Source(j).worlds[w] # {}} :
          disk' = [w \in Worlds |-> IF w \in left THEN Source(j).worlds[w] ELSE disk[w]]
    /\ setting' = Source(j).setting
    /\ Goto("finish")
    /\ UNCHANGED <<staged, zip, ask>> /\ UNCHANGED game /\ UNCHANGED history

\* The extraction ends early, before or after its first file.
ExtractFails(j) ==
    /\ job = j /\ at \in {"extract", "extracting"}
    /\ Fail(j)
    /\ UNCHANGED <<zip, ask>> /\ UNCHANGED files /\ UNCHANGED game /\ UNCHANGED history

\* pending_restart is written; the server stays off until an administrator starts it.
Finish(j) ==
    /\ job = j /\ at = "finish"
    /\ End(j, "completed") \/ Fail(j)
    /\ UNCHANGED <<zip, ask>> /\ UNCHANGED files /\ UNCHANGED game /\ UNCHANGED history

-----------------------------------------------------------------------------
Archive(j) == OpenArchive(j) \/ CloseArchive(j) \/ ArchiveFails(j) \/ Upload(j)
StopFirst(j) == StopServer(j) \/ StopServerFails(j)
ResetStep(j) ==
    \/ Check(j) \/ Prepare(j) \/ Verify(j) \/ Move(j) \/ MoveFails(j) \/ Rewind(j)
    \/ StartNew(j) \/ StartNewFails(j) \/ Generated(j) \/ GiveUp(j) \/ Halt(j) \/ CleanUp(j)
RestoreStep(j) == VerifySource(j) \/ Extract(j) \/ Extracted(j) \/ ExtractFails(j) \/ Finish(j)

\* What the goroutine of a job does once it is submitted.
Work(j) == Begin(j) \/ Archive(j) \/ StopFirst(j) \/ ResetStep(j) \/ RestoreStep(j)

Next ==
    \/ Save \/ ServerExit \/ Start \/ Stop \/ RowCleared \/ Crash
    \/ \E w \in Worlds : EditSetting(w)
    \/ \E k \in Jobs : DeleteBackup(k)
    \/ \E j \in Jobs : (\E a \in Ask : Submit(j, a)) \/ Work(j)

Spec == Init /\ [][Next]_vars

\* Goroutines are scheduled and every external call of a job has a timeout; nothing makes
\* the game server save or the administrator act.
FairSpec == Spec /\ \A j \in Jobs : WF_vars(Work(j))

-----------------------------------------------------------------------------
\* A job is about to take or keep the server away from the worlds it archives or changes.
Changing(j) ==
    \/ IsReset(j) /\ at \in {"archive", "archiving", "verify", "move", "rewind", "start"}
    \/ IsReset(j) /\ at = "cleanup" /\ ~was
    \/ IsRestore(j) /\ at \in {"archive", "archiving", "extract", "extracting", "finish"}

\* While a reset archives and moves a world, and while a restore overwrites the worlds, the only
\* game servers that have one loaded are those the panel has lost, before or as the job looked:
\* no start by hand, no earlier job and no failed step of this one brings up another.
QuietWorlds == job # NoJob /\ Changing(job) => server = NoWorld

\* backend/README.md:107: a reset saves and stops a running server before it archives and moves.
WorldsAreFree == job # NoJob /\ Changing(job) => Loaded \cup lost = {}

\* Whatever a reset moved away or a restore overwrote is, exactly and unmixed with
\* anything, in the archive that job made before, unless an administrator deleted it:
\* whichever step failed or crashed since, and whatever other jobs did.  A world that a lost
\* server wrote while the archive was made is excepted, and no other.
ArchiveHoldsOld ==
    \A j \in Jobs, w \in Worlds : old[j][w] # {} =>
        zip[j].state = "deleted" \/ (zip[j].state = "whole" /\ zip[j].worlds[w] = old[j][w])

\* A reset that stopped the server drops the staged world only when the server it started
\* has generated another one in its place.
DropsForNew ==
    \A j \in Jobs :
        staged'[j] # staged[j] /\ was /\ staged[j] # {} =>
            disk[World(j)] # {} /\ disk[World(j)] \cap staged[j] = {}

\* The old world is not lost before there is another one or an archive of it.
OldWorldKept == [][ArchiveHoldsOld' /\ DropsForNew]_vars

\* Every job that was submitted ends, whatever the game server does: neither a world that is
\* never generated nor a job that fails keeps the next one from its turn, so that again and
\* again no job waits or runs.
JobsEnd == []<>(\A j \in Jobs : row[j] \notin {"queued", "running"})

-----------------------------------------------------------------------------
(* What holds between the steps of a job, for the proofs. *)

\* A job has changed worlds only when it is past its archive or at its end.
Past(j) == job = j /\ at \in {"start", "wait", "cleanup", "halt", "extracting", "finish"}
Untouched(j) ==
    old[j] # Empty \/ staged[j] # {} => row[j] \in {"completed", "failed"} \/ Past(j)

\* A reset starts the server again only if it stopped it.
Restarts == job # NoJob /\ IsReset(job) /\ at \in {"start", "wait", "rewind"} => was

\* The archive a job is making, or has made to rely on, is the disk where no lost server wrote.
Same(j) == \A w \in Worlds \ torn : zip[j].worlds[w] = disk[w]
Exact(j) ==
    /\ job = j /\ Changing(j) /\ at = "archiving" => Same(j)
    /\ job = j /\ at \in {"verify", "move", "extract"} => Same(j) /\ zip[j].state \in {"whole", "deleted"}

\* No file is of a version the game server has yet to save.
Saved(files_) == \A v \in files_ : v <= version
NothingAhead ==
    \A w \in Worlds : Saved(disk[w]) /\ \A j \in Jobs : Saved(staged[j]) /\ Saved(zip[j].worlds[w])

\* The world generated after a move is not the one moved away.
Generation(j) ==
    job = j /\ IsReset(j) /\ was /\ at \in {"start", "wait", "cleanup"} =>
        /\ disk[World(j)] \cap staged[j] = {}
        /\ at = "cleanup" => disk[World(j)] # {}

IInv ==
    /\ TypeOK
    /\ QuietWorlds
    /\ ArchiveHoldsOld
    /\ Restarts
    /\ NothingAhead
    /\ \A j \in Jobs : Untouched(j) /\ Exact(j) /\ Generation(j)
=============================================================================
