----------------------------- MODULE ModLibrary -----------------------------
(***************************************************************************)
(* The mod manager and its importer (mods/manager.go, mods/importer.go),   *)
(* for one package: inspections with their staging directories, and the    *)
(* tasks that install, switch and delete the mod; and the local mods       *)
(* (mods/local_scan.go, mods/local_actions.go), directories without a row  *)
(* that are copied into an installation or given a row where they lie.     *)
(* Import jobs exclude one another, and so do actions on local mods; all   *)
(* else runs in its request under no lock.                                 *)
(***************************************************************************)
EXTENDS Naturals, FiniteSets

CONSTANTS
    Inspections,    \* identifiers of inspections
    Tasks,          \* requests and jobs at work
    Mods,           \* identifiers of mods
    NoMod

ASSUME NoModAssumption == NoMod \notin Mods

VARIABLES
    inspecting,     \* inspections a request still works on
    known,          \* the records of the registry
    ready,          \* those whose selected candidate is ready
    preparing, claimed,     \* those a candidate is downloaded for, and those with an import
    staged,         \* those whose directory exists
    stray,          \* history: those a lookup has given out although it had removed them
    row,            \* what the table says of each mod: "none", "off" or "on"
    path,           \* the directory a row names: one of its own, or one that was repaired
    dir,            \* content of each directory, 0 when there is none
    list,           \* PalModSettings.ini names the package
    pc, kind,       \* where each task is, and what it does
    source,         \* the inspection an import has claimed, a set of at most one
    mod, prev,      \* the mod a task works on, and the row it has read of it
    aim,            \* the row an installation or a switch is to write
    backup,         \* what an installation has renamed away
    body,           \* the settings it has read
    seen,           \* what ListMods gave: some mod is enabled
    alone,          \* history: the task nothing else has run beside nor spoilt, if any
    before,         \* history: rows, directories and list when it began
    parted          \* history: the list and the rows may have come apart

registry == <<inspecting, known, ready, preparing, claimed, staged, stray>>
library == <<row, path, dir, list>>
locals == <<kind, source, mod, prev, aim, backup, body, seen>>
history == <<alone, before, parted>>
libraryVars == <<registry, library, pc, locals, history>>

Switches == {"none", "off", "on"}
New == 2        \* what an installation brings

TypeOK ==
    /\ inspecting \subseteq Inspections /\ known \subseteq Inspections
    /\ ready \subseteq Inspections /\ preparing \subseteq Inspections
    /\ claimed \subseteq Inspections /\ staged \subseteq Inspections /\ stray \subseteq Inspections
    /\ row \in [Mods -> Switches] /\ path \in [Mods -> Mods] /\ dir \in [Mods -> 0..New] /\ list \in BOOLEAN
    /\ pc \in [Tasks -> {"idle", "claimed", "look", "aside", "place", "read", "write", "list",
                         "settings", "commit", "undo_row", "undo_list", "undo_files", "failed", "remove",
                         "scan", "copied", "check", "insert"}]
    /\ kind \in [Tasks -> {"import", "install", "copy", "repair", "switch", "delete"}]
    /\ source \in [Tasks -> SUBSET Inspections] /\ mod \in [Tasks -> Mods \cup {NoMod}]
    /\ prev \in [Tasks -> Switches] /\ aim \in [Tasks -> Switches]
    /\ backup \in [Tasks -> 0..New] /\ body \in [Tasks -> BOOLEAN] /\ seen \in [Tasks -> BOOLEAN]
    /\ alone \subseteq Tasks /\ parted \in BOOLEAN
    /\ before \in [row : [Mods -> Switches], dir : [Mods -> 0..New], list : BOOLEAN]

Now == [row |-> row, dir |-> dir, list |-> list]
Nothing == [row |-> [m \in Mods |-> "none"], dir |-> [m \in Mods |-> 0], list |-> FALSE]
Enabled(r) == \E m \in Mods : r[m] = "on"

LibraryInit ==
    /\ inspecting = {} /\ known = {} /\ ready = {} /\ preparing = {} /\ claimed = {}
    /\ staged = {} /\ stray = {}
    /\ row \in [Mods -> Switches] /\ Cardinality({m \in Mods : row[m] # "none"}) <= 1
    /\ path = [m \in Mods |-> m] /\ dir \in [Mods -> 0..1]
    /\ \A m \in Mods : row[m] # "none" => dir[m] = 1
    /\ \E l \in BOOLEAN : list = l /\ parted = (l # Enabled(row))
    /\ pc = [t \in Tasks |-> "idle"] /\ kind = [t \in Tasks |-> "switch"]
    /\ source = [t \in Tasks |-> {}]
    /\ mod = [t \in Tasks |-> NoMod] /\ prev = [t \in Tasks |-> "none"]
    /\ aim = [t \in Tasks |-> "none"] /\ backup = [t \in Tasks |-> 0]
    /\ body = [t \in Tasks |-> FALSE] /\ seen = [t \in Tasks |-> FALSE]
    /\ alone = {} /\ before = Nothing

At(t, s) == pc[t] = s
Goto(t, s) == pc' = [pc EXCEPT ![t] = s]

-----------------------------------------------------------------------------
(* Inspections.  Every lookup removes the expired ones: as nothing else depends on the clock, *)
(* any record may turn out to have expired.                                                   *)

\* Mutated form: a record is removed though a job or a download uses it.
Expirable_used == known
Expirable == known \ (claimed \cup preparing)

\* cleanupExpiredLocked: records and their directories go away together.
Gone(S) == known' = known \ S /\ staged' = staged \ S /\ ready' = ready \ S

\* The identifier is random: that of a directory still there is not drawn again.
NewRecord(i) ==
    /\ i \notin inspecting \cup known \cup preparing \cup claimed \cup stray
    /\ inspecting' = inspecting \cup {i} /\ staged' = staged \cup {i}
    /\ UNCHANGED <<known, ready, preparing, claimed, stray, library, pc, locals, history>>

InspectFails(i) ==
    /\ i \in inspecting /\ inspecting' = inspecting \ {i} /\ staged' = staged \ {i}
    /\ UNCHANGED <<known, ready, preparing, claimed, stray, library, pc, locals, history>>

\* Several candidates of a release: none is ready until one is selected.
FinishRecord(i) ==
    /\ i \in inspecting /\ inspecting' = inspecting \ {i}
    /\ \E S \in SUBSET Expirable :
        /\ known' = (known \ S) \cup {i} /\ staged' = staged \ S
        /\ ready' \in {ready \ S, (ready \ S) \cup {i}}
    /\ UNCHANGED <<preparing, claimed, stray, library, pc, locals, history>>

\* recordLocked.  A lookup that fails, or finds a candidate that is ready, does no more.
Sweep ==
    /\ \E S \in SUBSET Expirable : Gone(S)
    /\ UNCHANGED <<inspecting, preparing, claimed, stray, library, pc, locals, history>>

\* A lookup that succeeds reads the clock twice: the record may expire in between, and is then
\* removed and returned all the same.
LookUp(i) ==
    /\ i \in known \ (claimed \cup preparing)
    /\ \E S \in SUBSET Expirable : Gone(S) /\ stray' = stray \cup ({i} \cap S)

BeginSelection(i) ==
    /\ LookUp(i) /\ i \notin ready /\ preparing' = preparing \cup {i}
    /\ UNCHANGED <<inspecting, claimed, library, pc, locals, history>>

\* The directory of the candidate is made, and with it that of a record already removed.
PrepareCandidate(i) ==
    /\ i \in preparing \ staged /\ staged' = staged \cup {i}
    /\ UNCHANGED <<inspecting, known, ready, preparing, claimed, stray, library, pc, locals, history>>

\* cancelSelection and finishSelection: an inspection that expired meanwhile is removed.  One that
\* is not in the registry any more is left as it is, with its directory.
EndSelection(i) ==
    /\ i \in preparing /\ preparing' = preparing \ {i}
    /\ \/ i \in known /\ Gone({i})
       \/ i \in known /\ ready' \in {ready, ready \cup {i}} /\ UNCHANGED <<known, staged>>
       \/ i \notin known /\ UNCHANGED <<known, staged, ready>>
    /\ UNCHANGED <<inspecting, claimed, stray, library, pc, locals, history>>

-----------------------------------------------------------------------------
(* The beginning and the end of a task. *)

\* Beside whom a task runs, for the properties.
Enters(t) ==
    /\ alone' = IF \A s \in Tasks : pc[s] \in {"idle", "claimed"} THEN {t} ELSE {}
    /\ before' = (IF alone' = {} THEN Nothing ELSE Now) /\ UNCHANGED parted

\* The job keeps the record it was given, in the registry or not.
Claim(i, t) ==
    /\ i \in ready /\ LookUp(i) /\ claimed' = claimed \cup {i} /\ UNCHANGED <<inspecting, preparing>>
    /\ At(t, "idle") /\ Goto(t, "claimed")
    /\ source' = [source EXCEPT ![t] = {i}] /\ kind' = [kind EXCEPT ![t] = "import"]
    /\ UNCHANGED <<mod, prev, aim, backup, body, seen, library, history>>

\* The executor does not take the job.
Release(t) ==
    /\ At(t, "claimed") /\ Goto(t, "idle")
    /\ claimed' = claimed \ source[t] /\ stray' = stray \ source[t]
    /\ kind' = [kind EXCEPT ![t] = "switch"] /\ source' = [source EXCEPT ![t] = {}]
    /\ UNCHANGED <<inspecting, known, ready, preparing, staged, mod, prev, aim, backup, body, seen>>
    /\ UNCHANGED <<library, history>>

\* The job begins: it is the only lifecycle job.  An import from the Workshop makes its directory
\* where there is none any more.
BeginImport(t) ==
    /\ At(t, "claimed") /\ Goto(t, "look")
    /\ \A s \in Tasks \ {t} : kind[s] = "import" => pc[s] \in {"idle", "claimed"}
    /\ aim' = [aim EXCEPT ![t] = "off"] /\ Enters(t) /\ staged' \in {staged, staged \cup source[t]}
    /\ UNCHANGED <<inspecting, known, ready, preparing, claimed, stray>>
    /\ UNCHANGED <<library, kind, source, mod, prev, backup, body, seen>>

\* UploadZip; a download from the Workshop is such a task that waits for its turn.
BeginInstall(t, enable) ==
    /\ At(t, "idle") /\ Goto(t, "look") /\ kind' = [kind EXCEPT ![t] = "install"]
    /\ aim' = [aim EXCEPT ![t] = enable] /\ Enters(t)
    /\ UNCHANGED <<registry, library, source, mod, prev, backup, body, seen>>

\* SetEnabled and Delete read the row first.
BeginSwitch(t, m, enable) ==
    /\ At(t, "idle") /\ row[m] # "none" /\ Goto(t, "write")
    /\ kind' = [kind EXCEPT ![t] = "switch"] /\ mod' = [mod EXCEPT ![t] = m]
    /\ aim' = [aim EXCEPT ![t] = enable] /\ Enters(t)
    /\ UNCHANGED <<registry, library, source, prev, backup, body, seen>>
\* Delete refuses a row whose directory has another name: a repaired mod stays.
BeginDelete(t, m) ==
    /\ At(t, "idle") /\ row[m] # "none" /\ path[m] = m /\ Goto(t, "remove")
    /\ kind' = [kind EXCEPT ![t] = "delete"] /\ mod' = [mod EXCEPT ![t] = m]
    /\ aim' = [aim EXCEPT ![t] = "none"] /\ Enters(t)
    /\ UNCHANGED <<registry, library, source, prev, backup, body, seen>>

Spoilt(t) == alone' = alone \ {t} /\ before' = IF alone \subseteq {t} THEN Nothing ELSE before

\* A task ends; an import completes its inspection.  apart: the rows and the list may differ.
Ends(t, apart) ==
    /\ Goto(t, "idle")
    /\ Gone(source[t]) /\ claimed' = claimed \ source[t] /\ stray' = stray \ source[t]
    /\ UNCHANGED <<inspecting, preparing>>
    /\ source' = [source EXCEPT ![t] = {}] /\ kind' = [kind EXCEPT ![t] = "switch"]
    /\ mod' = [mod EXCEPT ![t] = NoMod] /\ prev' = [prev EXCEPT ![t] = "none"]
    /\ aim' = [aim EXCEPT ![t] = "none"] /\ backup' = [backup EXCEPT ![t] = 0]
    /\ body' = [body EXCEPT ![t] = FALSE] /\ seen' = [seen EXCEPT ![t] = FALSE]
    /\ parted' = (apart \/ t \notin alone) /\ Spoilt(t)

-----------------------------------------------------------------------------
(* Installation: the staged directory replaces the target, then the row and the settings. *)

Installing(t, s) ==
    /\ At(t, s) /\ kind[t] \in {"import", "install", "copy"}
    /\ UNCHANGED <<registry, kind, source, history>>

Unused == {m \in Mods : row[m] = "none" /\ dir[m] = 0 /\ \A s \in Tasks : mod[s] # m}

\* Mutated form: an update is installed as it would be the first time.
Look_default(t) ==
    /\ Installing(t, "look") /\ source[t] \subseteq staged /\ Goto(t, "aside")
    /\ \/ \E m \in Mods :
            /\ {k \in Mods : row[k] # "none"} = {m}
            /\ mod' = [mod EXCEPT ![t] = m] /\ prev' = [prev EXCEPT ![t] = row[m]] /\ UNCHANGED path
       \/ /\ \A k \in Mods : row[k] = "none"
          /\ \E m \in Unused : mod' = [mod EXCEPT ![t] = m] /\ path' = [path EXCEPT ![m] = m]
          /\ UNCHANGED prev
    /\ UNCHANGED <<row, dir, list, aim, backup, body, seen>>
\* findModByPackage: an update keeps the identity and the switch of the row it finds; two rows
\* of the package are an error, and so is a directory that is gone.
Look(t) ==
    /\ Installing(t, "look") /\ source[t] \subseteq staged /\ Goto(t, "aside")
    /\ \/ \E m \in Mods :
            /\ {k \in Mods : row[k] # "none"} = {m}
            /\ mod' = [mod EXCEPT ![t] = m] /\ prev' = [prev EXCEPT ![t] = row[m]]
            /\ aim' = [aim EXCEPT ![t] = row[m]] /\ UNCHANGED path
       \/ /\ \A k \in Mods : row[k] = "none"
          /\ \E m \in Unused : mod' = [mod EXCEPT ![t] = m] /\ path' = [path EXCEPT ![m] = m]
          /\ UNCHANGED <<prev, aim>>
    /\ UNCHANGED <<row, dir, list, backup, body, seen>>

\* Up to here, and at the first rename, an error leaves everything as it is.
GivesUp(t) ==
    /\ pc[t] \in {"look", "aside"} /\ Ends(t, parted)
    /\ UNCHANGED library

Target(t) == path[mod[t]]

Aside(t) ==
    /\ Installing(t, "aside") /\ Goto(t, "place")
    /\ backup' = [backup EXCEPT ![t] = dir[Target(t)]] /\ dir' = [dir EXCEPT ![Target(t)] = 0]
    /\ UNCHANGED <<row, path, list, mod, prev, aim, body, seen>>

\* A directory that somebody else put there meanwhile makes the rename fail.
Place(t) ==
    /\ Installing(t, "place")
    /\ \/ dir[Target(t)] = 0 /\ dir' = [dir EXCEPT ![Target(t)] = New] /\ Goto(t, "read")
       \/ UNCHANGED dir /\ Goto(t, "undo_files")
    /\ UNCHANGED <<row, path, list, mod, prev, aim, backup, body, seen>>

\* The settings are read for a rollback, then the whole row is upserted.
ReadModSettings(t) ==
    /\ Installing(t, "read")
    /\ \/ body' = [body EXCEPT ![t] = list] /\ Goto(t, "write")
       \/ UNCHANGED body /\ Goto(t, "undo_files")
    /\ UNCHANGED <<library, mod, prev, aim, backup, seen>>

UpsertMod(t) ==
    /\ Installing(t, "write")
    /\ \/ /\ row' = [row EXCEPT ![mod[t]] = aim[t]]
          /\ Goto(t, IF aim[t] = "on" THEN "list" ELSE "commit")
       \/ UNCHANGED row /\ Goto(t, "undo_files")
    /\ UNCHANGED <<path, dir, list, mod, prev, aim, backup, body, seen>>

\* pending_restart is stored, the renamed directory removed.
Commit(t) ==
    /\ At(t, "commit") /\ Ends(t, parted /\ aim[t] # "on")
    /\ UNCHANGED library

CommitFails(t) ==
    /\ Installing(t, "commit") /\ aim[t] = "on" /\ Goto(t, "undo_row")
    /\ UNCHANGED <<library, mod, prev, aim, backup, body, seen>>

Undoing(t, s, next) ==
    /\ At(t, s) /\ Goto(t, next)
    /\ UNCHANGED <<registry, locals, parted>>

\* Nobody looks whether a step of the rollback worked.
Works(t, change, failure) ==
    \/ change /\ UNCHANGED <<alone, before>>
    \/ failure /\ Spoilt(t)

\* Mutated form: the rollback deletes the row of an update too.
UndoRow_deletes(t) ==
    /\ Undoing(t, "undo_row", "undo_list")
    /\ Works(t, row' = [row EXCEPT ![mod[t]] = "none"], UNCHANGED row)
    /\ UNCHANGED <<path, dir, list>>
UndoRow(t) ==
    /\ Undoing(t, "undo_row", "undo_list")
    /\ Works(t, row' = [row EXCEPT ![mod[t]] = prev[t]], UNCHANGED row)
    /\ UNCHANGED <<path, dir, list>>

UndoList(t) ==
    /\ Undoing(t, "undo_list", "undo_files")
    /\ Works(t, list' = body[t], list' \in {list, FALSE})
    /\ UNCHANGED <<row, path, dir>>

\* The target is removed, whosever it is, and the old directory renamed back.
UndoFiles(t) ==
    /\ Undoing(t, "undo_files", "failed")
    /\ LET removed == [dir EXCEPT ![Target(t)] = 0] IN
       Works(t, dir' = [removed EXCEPT ![Target(t)] = backup[t]], dir' \in {dir, removed})
    /\ UNCHANGED <<row, path, list>>

InstallFails(t) ==
    /\ At(t, "failed") /\ Ends(t, parted)
    /\ UNCHANGED library

-----------------------------------------------------------------------------
(* Switches, deletions, and the list of active mods. *)

Changes(t, s) == At(t, s) /\ kind[t] \in {"switch", "delete"}

\* SetModEnabled or DeleteMod.
ChangeRow(t) ==
    /\ Changes(t, "write") /\ UNCHANGED <<path, dir, list>>
    /\ \/ /\ row[mod[t]] # "none" /\ row' = [row EXCEPT ![mod[t]] = aim[t]]
          /\ Goto(t, "list") /\ UNCHANGED <<registry, locals, history>>
       \/ UNCHANGED row /\ Ends(t, parted)

\* Delete removes the directory before the row.
RemoveTarget(t) ==
    /\ Changes(t, "remove") /\ UNCHANGED <<row, path, list>>
    /\ \/ dir' = [dir EXCEPT ![Target(t)] = 0] /\ Goto(t, "write") /\ UNCHANGED <<registry, locals, history>>
       \/ dir' \in {dir, [dir EXCEPT ![Target(t)] = 0]} /\ Ends(t, parted)

\* An installation rolls back; a switch or a deletion returns the error and leaves the row.
RewriteFails(t) ==
    \/ Changes(t, pc[t]) /\ Ends(t, TRUE)
    \/ Installing(t, pc[t]) /\ Goto(t, "undo_row") /\ UNCHANGED <<mod, prev, aim, backup, body, seen>>

\* rewriteActiveMods, in its two steps.
ListMods(t) ==
    /\ At(t, "list")
    /\ \/ /\ seen' = [seen EXCEPT ![t] = Enabled(row)] /\ Goto(t, "settings")
          /\ UNCHANGED <<registry, kind, source, mod, prev, aim, backup, body, history>>
       \/ RewriteFails(t)
    /\ UNCHANGED library

WriteModSettings(t) ==
    /\ At(t, "settings") /\ UNCHANGED <<row, path, dir>>
    /\ \/ /\ list' = seen[t]
          /\ \/ Changes(t, "settings") /\ Ends(t, FALSE)
             \/ /\ Installing(t, "settings") /\ Goto(t, "commit")
                /\ seen' = [seen EXCEPT ![t] = FALSE]
                /\ UNCHANGED <<mod, prev, aim, backup, body>>
       \/ list' \in {list, FALSE} /\ RewriteFails(t)

-----------------------------------------------------------------------------
(* Local mods: a directory without a row.  Every action scans again, and goes on only if the   *)
(* finding is still as its client saw it; links, limits and a broken Info.json refuse it.      *)

\* The rows are read before the directories are walked: no record has the package, whether by
\* its path or on its own.
Unmanaged == \A m \in Mods : row[m] = "none"

\* Actions on local mods exclude one another, but nothing else.
BeginLocal(t, k) ==
    /\ At(t, "idle") /\ Goto(t, "scan") /\ kind' = [kind EXCEPT ![t] = k]
    /\ \A s \in Tasks : kind[s] \notin {"copy", "repair"}
    /\ Unmanaged /\ Enters(t)
    /\ UNCHANGED <<registry, library, source, mod, prev, aim, backup, body, seen>>

\* Nothing else in the Workshop directory has the package, what is renamed away included.
OnlyCopy(d) ==
    /\ dir[d] > 0 /\ \A e \in Mods \ {d} : dir[e] = 0
    /\ \A s \in Tasks : backup[s] = 0

\* The finding is gone, not alone, has changed, or must not be touched.
Refused(t) ==
    /\ pc[t] \in {"scan", "copied", "check"} /\ Ends(t, parted)
    /\ UNCHANGED library

Repairing(t, s, next) ==
    /\ At(t, s) /\ kind[t] = "repair" /\ Goto(t, next)
    /\ UNCHANGED <<registry, row, dir, list, kind, source, prev, backup, body, seen, parted>>

\* Mutated form: a repaired mod is off, as an imported one is.
OnDisk_off == "off"
\* A mod without a row is enabled exactly if the settings name it.
OnDisk == IF list THEN "on" ELSE "off"

\* The row is to have a new id, and the directory as its path.  Settings that cannot be read
\* count as without the mod.
ScanForRepair(t) ==
    /\ Repairing(t, "scan", "check")
    /\ \E d, m \in Mods :
        /\ OnlyCopy(d) /\ m \in Unused
        /\ mod' = [mod EXCEPT ![t] = m] /\ path' = [path EXCEPT ![m] = d]
    /\ Works(t, aim' = [aim EXCEPT ![t] = OnDisk], aim' = [aim EXCEPT ![t] = "off"])

\* The table is asked once more for the package.
CheckRecord(t) ==
    /\ Repairing(t, "check", "insert") /\ Unmanaged
    /\ UNCHANGED <<path, mod, aim, alone, before>>

\* The row is written as the settings were, which are left alone.
InsertRow(t) ==
    /\ At(t, "insert") /\ UNCHANGED <<path, dir, list>>
    /\ \/ row' = [row EXCEPT ![mod[t]] = aim[t]] /\ Ends(t, FALSE)
       \/ UNCHANGED row /\ Ends(t, parted)

\* An import copies the directory beside the inspections.
CopyTree(t) ==
    /\ At(t, "scan") /\ kind[t] = "copy" /\ Goto(t, "copied")
    /\ \E d \in Mods : OnlyCopy(d)
    /\ UNCHANGED <<registry, library, locals, history>>

\* The scan after the copy must give the same; the copy is installed switched off, like an upload.
\* That no other local action begins until it is over matters little: an upload may.
InstallCopy(t) ==
    /\ At(t, "copied") /\ Goto(t, "look") /\ kind' = [kind EXCEPT ![t] = "install"]
    /\ Unmanaged /\ \E d \in Mods : OnlyCopy(d)
    /\ aim' = [aim EXCEPT ![t] = "off"]
    /\ UNCHANGED <<registry, library, source, mod, prev, backup, body, seen, history>>

-----------------------------------------------------------------------------
(* The end of the process, and the next-state relation. *)

\* The next start removes the staging root; what was renamed away stays so.
Restart ==
    /\ pc' = [t \in Tasks |-> "idle"] /\ kind' = [t \in Tasks |-> "switch"]
    /\ inspecting' = {} /\ known' = {} /\ ready' = {} /\ preparing' = {} /\ claimed' = {}
    /\ staged' = {} /\ stray' = {} /\ source' = [t \in Tasks |-> {}]
    /\ parted' = (parted \/ \E t \in Tasks : pc[t] \notin {"idle", "claimed"})
    /\ mod' = [t \in Tasks |-> NoMod] /\ prev' = [t \in Tasks |-> "none"]
    /\ aim' = [t \in Tasks |-> "none"] /\ backup' = [t \in Tasks |-> 0]
    /\ body' = [t \in Tasks |-> FALSE] /\ seen' = [t \in Tasks |-> FALSE]
    /\ alone' = {} /\ before' = Nothing
    /\ list' \in {list, list /\ ~\E t \in Tasks : pc[t] \in {"settings", "undo_list"}}
    /\ UNCHANGED <<row, path, dir>>

Inspect ==
    \E i \in Inspections :
        NewRecord(i) \/ InspectFails(i) \/ FinishRecord(i)
            \/ BeginSelection(i) \/ PrepareCandidate(i) \/ EndSelection(i) \/ \E t \in Tasks : Claim(i, t)

Install(t) ==
    \/ Release(t) \/ BeginImport(t) \/ (\E enable \in {"off", "on"} : BeginInstall(t, enable))
    \/ Look(t) \/ GivesUp(t) \/ Aside(t) \/ Place(t) \/ ReadModSettings(t) \/ UpsertMod(t) \/ Commit(t)
    \/ CommitFails(t) \/ UndoRow(t) \/ UndoList(t) \/ UndoFiles(t) \/ InstallFails(t)

Change(t) ==
    \/ \E m \in Mods : BeginDelete(t, m) \/ \E enable \in {"off", "on"} : BeginSwitch(t, m, enable)
    \/ ChangeRow(t) \/ RemoveTarget(t) \/ ListMods(t) \/ WriteModSettings(t)

ActOnLocalFinding(t) ==
    \/ (\E k \in {"copy", "repair"} : BeginLocal(t, k)) \/ Refused(t)
    \/ ScanForRepair(t) \/ CheckRecord(t) \/ InsertRow(t)
    \/ CopyTree(t) \/ InstallCopy(t)

LibraryNext == Inspect \/ Sweep \/ (\E t \in Tasks : Install(t) \/ Change(t) \/ ActOnLocalFinding(t)) \/ Restart

LibrarySpec == LibraryInit /\ [][LibraryNext]_libraryVars

-----------------------------------------------------------------------------
(* Properties. *)

\* An inspection keeps its directory as long as its request or the registry has it, and it stays in
\* the registry while a job has claimed it or a candidate is downloaded for it, however late the job
\* begins; no directory outlives its inspection.  Excepted is the one a lookup gave out although it
\* had removed it: its job removes the directory again, its selection never does
\* (importer.go:565-733).
StagingKept ==
    /\ inspecting \cup known \subseteq staged
    /\ claimed \cup preparing \subseteq known \cup stray
    /\ staged \subseteq inspecting \cup known \cup stray

\* An installation that fails leaves rows, directories and settings as it found them, when
\* nothing else was at work and its rollback had no error (importer.go:447-497).
FailedInstallRestores ==
    [][\A t \in alone :
        pc[t] \in {"look", "aside", "failed"} /\ pc'[t] = "idle" => Now' = before]_libraryVars

\* After an installation the package has one mod, with the new files; an update kept its
\* identity and its switch (backend/README.md:85).  A repair gives the package its only row,
\* with files.  All this when nothing else was at work.
InstallKeepsOne ==
    [][\A t \in alone :
        /\ pc'[t] = "idle"
        /\ pc[t] = "commit" \/ (pc[t] = "insert" /\ row' # row)
        => \E m \in Mods :
                /\ row'[m] # "none" /\ dir'[path'[m]] \in IF pc[t] = "commit" THEN {New} ELSE {1, New}
                /\ \A k \in Mods \ {m} : row'[k] = "none" /\ before.row[k] = "none"
                /\ before.row[m] \in {"none", row'[m]}]_libraryVars

\* When nobody is at work the settings name the package exactly if a mod of it is enabled,
\* unless tasks overlapped or a rewrite failed; the next rewrite alone puts that right, and so
\* does a repair, which takes the switch of its row from the settings.
QuietSettings == (\A t \in Tasks : pc[t] \in {"idle", "claimed"}) => parted \/ list = Enabled(row)

=============================================================================
