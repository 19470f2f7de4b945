----------------------------- MODULE SaveSources -----------------------------
(***************************************************************************)
(* The save sources (api/save_sources.go, db/store.go) and the index of    *)
(* the active one (saveindex/saveindex.go).  Which world is shown is kept  *)
(* three times: the active row, the path of the index manager, and the     *)
(* cache file with the fingerprint it was built under.  The handlers hold  *)
(* no lock; only the rebuilding and the removal of the cache exclude each  *)
(* other.                                                                  *)
(***************************************************************************)
EXTENDS Naturals

CONSTANTS
    Imports,    \* ids of imported saves: id.New("save") never returns one twice
    Server,     \* id of the source that is the server's own save
    Nothing,    \* no source
    Tasks,      \* requests, and synchronisations of the player catalog
    MaxVersion  \* bound: saves of the game server

Source == Imports \cup {Server}

ASSUME SourceAssumption == Server \notin Imports /\ Nothing \notin Source
ASSUME TasksAssumption == Nothing \notin Tasks
ASSUME MaxVersionAssumption == MaxVersion \in Nat

VARIABLES
    rows,       \* sources with a row
    active,     \* the one whose row is active; a unique index allows one
    files,      \* imports whose directory is complete
    unused,     \* ids not yet given to an import
    version, present,   \* of the server's world: its last save, and whether it is there
    path,       \* sourcePath of the manager: Server stands for ""
    cache,      \* the cache file
    mu,         \* holder of Manager.mu
    kind, stage, src, prev, fp, index,     \* of a task: its place and its variables
    soft,       \* tasks in Current, for which a failed rebuild is no error
    mixed,      \* history: the active row and the path may name different sources
    lone,       \* history: the activation that has been the only one since it began
    revived,    \* history: sources whose row was made again after its deletion
    raced       \* history: tasks in Current that lost the cache, or the world, they saw

sources == <<rows, active, files, unused>>
world == <<version, present>>
locals == <<kind, src, prev, fp, index, soft, lone>>
history == <<mixed, revived>>
sourceVars == <<sources, world, path, cache, mu, stage, locals, history, raced>>

\* A world is a source and the number of its save; its fingerprint tells these apart.
Empty == [of |-> Nothing, save |-> 0]
World(s) == [of |-> s, save |-> IF s = Server THEN version ELSE 1]
Present(s) == IF s = Server THEN present ELSE s \in files
NoCache == [fingerprint |-> Empty, index |-> Empty]

Content == [of : Source \cup {Nothing}, save : 0 .. MaxVersion + 1]
Kind == {"activate", "rebuild", "sync", "delete", "rename", "import"}
Step == {"idle", "mark", "point", "clear", "lock", "parse", "store", "unmark", "back", "clear back",
         "look", "send", "read", "gone", "placed"}

SourcesTypeOK ==
    /\ rows \subseteq Source /\ active \in Source \cup {Nothing}
    /\ files \subseteq Imports /\ unused \subseteq Imports
    /\ version \in 0 .. MaxVersion /\ present \in BOOLEAN
    /\ path \in Source /\ cache \in [fingerprint : Content, index : Content]
    /\ mu \in Tasks \cup {Nothing}
    /\ kind \in [Tasks -> Kind] /\ stage \in [Tasks -> Step]
    /\ src \in [Tasks -> Source \cup {Nothing}] /\ prev \in [Tasks -> Source \cup {Nothing}]
    /\ fp \in [Tasks -> Content] /\ index \in [Tasks -> Content]
    /\ soft \subseteq Tasks /\ raced \subseteq Tasks
    /\ mixed \in BOOLEAN /\ lone \in Tasks \cup {Nothing} /\ revived \subseteq Imports

\* The first start makes the server's row and activates it; an error is not looked at.
SourcesInit ==
    /\ rows \in {{}, {Server}} /\ active \in rows \cup {Nothing}
    /\ files = {} /\ unused = Imports
    /\ version = 0 /\ present \in BOOLEAN
    /\ path = Server /\ cache = NoCache /\ mu = Nothing
    /\ kind = [t \in Tasks |-> "sync"] /\ stage = [t \in Tasks |-> "idle"]
    /\ src = [t \in Tasks |-> Nothing] /\ prev = [t \in Tasks |-> Nothing]
    /\ fp = [t \in Tasks |-> Empty] /\ index = [t \in Tasks |-> Empty]
    /\ soft = {} /\ mixed = FALSE /\ lone = Nothing /\ revived = {} /\ raced = {}

At(t, s) == stage[t] = s
Proceed(t, s) == stage' = [stage EXCEPT ![t] = s]

Begin(t, k, s) ==
    /\ At(t, "idle") /\ kind' = [kind EXCEPT ![t] = k] /\ src' = [src EXCEPT ![t] = s]

Forget(t) ==
    /\ Proceed(t, "idle")
    /\ kind' = [kind EXCEPT ![t] = "sync"] /\ src' = [src EXCEPT ![t] = Nothing]
    /\ prev' = [prev EXCEPT ![t] = Nothing]
    /\ fp' = [fp EXCEPT ![t] = Empty] /\ index' = [index EXCEPT ![t] = Empty]
    /\ soft' = soft \ {t} /\ lone' = (IF lone = t THEN Nothing ELSE lone)

\* The answer is given; what the task knew goes out of scope.
End(t) ==
    /\ Forget(t) /\ raced' = raced \ {t}

-----------------------------------------------------------------------------
(* Activation: the row, then the path, then the index; backwards when that fails. *)

Activating == {t \in Tasks : kind[t] = "activate" /\ stage[t] # "idle"}

\* The row and Level.sav are looked at; the active source is read in case of a failure.
BeginActivate(t, s) ==
    /\ Begin(t, "activate", s) /\ Proceed(t, "mark")
    /\ s \in rows /\ (s \in Imports => Present(s))
    /\ prev' = [prev EXCEPT ![t] = active]
    /\ lone' = (IF Activating = {} THEN t ELSE Nothing) /\ mixed' = (mixed \/ Activating # {})
    /\ UNCHANGED <<sources, world, path, cache, mu, fp, index, soft, revived, raced>>

\* ActivateSaveSource, one transaction: without the row nothing changes.
Mark(t) ==
    /\ At(t, "mark")
    /\ \/ /\ src[t] \in rows /\ active' = src[t] /\ Proceed(t, "point")
          /\ UNCHANGED <<locals, raced>>
       \/ UNCHANGED active /\ End(t)
    /\ UNCHANGED <<rows, files, unused, world, path, cache, mu, history>>

\* SetSourcePath: a path that changes invalidates the cache, but only after it was let go of.
Point(t) ==
    /\ At(t, "point") /\ path' = src[t]
    /\ Proceed(t, IF path = src[t] THEN "lock" ELSE "clear")
    /\ UNCHANGED <<sources, world, cache, mu, locals, history, raced>>

\* The cache file goes: tasks that saw it and rebuild on that may find nothing to fall back on.
Remove ==
    /\ cache' = NoCache
    /\ raced' = raced \cup {t \in soft : stage[t] \in {"lock", "parse", "store"}}

\* os.WriteFile may fail before it has truncated the file, or after.
BadWrite == UNCHANGED <<cache, raced>> \/ Remove

Invalidate(t) ==
    /\ stage[t] \in {"clear", "clear back"} /\ mu = Nothing /\ Remove
    /\ IF stage[t] = "clear" THEN Proceed(t, "lock") /\ UNCHANGED locals ELSE Forget(t)
    /\ UNCHANGED <<sources, world, path, mu, history>>

\* The previous source is activated again; an error, or a row deleted meanwhile, is not noticed.
Unmark(t) ==
    /\ At(t, "unmark") /\ Proceed(t, "back")
    /\ \/ prev[t] \in rows /\ active' = prev[t] /\ UNCHANGED mixed
       \/ UNCHANGED active /\ mixed' = TRUE
    /\ UNCHANGED <<rows, files, unused, world, path, cache, mu, locals, revived, raced>>

Back(t) ==
    /\ At(t, "back") /\ path' = prev[t]
    /\ IF path = prev[t] THEN End(t) ELSE Proceed(t, "clear back") /\ UNCHANGED <<locals, raced>>
    /\ UNCHANGED <<sources, world, cache, mu, history>>

-----------------------------------------------------------------------------
(* The index. *)

\* The other two ways to a rebuild: of the active source, and of the index.
BeginRebuild(t) ==
    /\ Begin(t, "rebuild", Nothing) /\ active # Nothing /\ Proceed(t, "clear")
    /\ UNCHANGED <<sources, world, path, cache, mu, prev, fp, index, soft, lone, history, raced>>
BeginIndex(t) ==
    /\ Begin(t, "rebuild", Nothing) /\ Proceed(t, "lock")
    /\ UNCHANGED <<sources, world, path, cache, mu, prev, fp, index, soft, lone, history, raced>>

\* What follows a rebuild: an activation goes back when it failed and there was a source before,
\* and otherwise the task answers.  A synchronisation sends what it has got: in Current the error
\* of a rebuild is dropped with the index that came with it.
Failed(t, found) ==
    \/ /\ kind[t] = "activate" /\ prev[t] # Nothing /\ Proceed(t, "unmark")
       /\ fp' = [fp EXCEPT ![t] = Empty] /\ index' = [index EXCEPT ![t] = Empty]
       /\ UNCHANGED <<kind, src, prev, soft, lone>>
    \/ /\ t \in soft /\ Proceed(t, "send")
       /\ fp' = [fp EXCEPT ![t] = Empty] /\ index' = [index EXCEPT ![t] = found]
       /\ soft' = soft \ {t} /\ UNCHANGED <<kind, src, prev, lone>>
    \/ /\ t \notin soft /\ (kind[t] = "activate" => prev[t] = Nothing)
       /\ Forget(t)
Succeeded(t) ==
    \/ /\ kind[t] = "sync" /\ Proceed(t, "send")
       /\ fp' = [fp EXCEPT ![t] = Empty]
       /\ soft' = soft \ {t} /\ UNCHANGED <<kind, src, prev, index, lone, raced, history>>
    \/ /\ kind[t] # "sync" /\ End(t)
       /\ mixed' = (mixed /\ lone # t) /\ UNCHANGED revived

\* Rebuild takes mu and the fingerprint of the world the path names now.
Lock(t) ==
    /\ At(t, "lock") /\ mu = Nothing
    /\ \/ /\ Present(path) /\ mu' = t /\ Proceed(t, "parse")
          /\ fp' = [fp EXCEPT ![t] = World(path)]
          /\ UNCHANGED <<kind, src, prev, index, soft, lone, raced>>
       \/ ~Present(path) /\ UNCHANGED mu /\ Failed(t, Empty) /\ raced' = raced \cup ({t} \cap soft)
    /\ UNCHANGED <<sources, world, path, cache, history>>

\* sav-cli reads that world, which the game may have saved again since.
Parse(t) ==
    /\ At(t, "parse") /\ Present(fp[t].of) /\ Proceed(t, "store")
    /\ index' = [index EXCEPT ![t] = World(fp[t].of)]
    /\ UNCHANGED <<sources, world, path, cache, mu, kind, src, prev, fp, soft, lone, history, raced>>

\* sav-cli fails: the last index is written again, with the error in its status, and returned.
ParseFails(t) ==
    /\ At(t, "parse") /\ mu' = Nothing
    /\ Failed(t, cache.index)
    /\ IF cache = NoCache THEN UNCHANGED <<cache, raced>> ELSE BadWrite
    /\ UNCHANGED <<sources, world, path, history>>

\* Mutated form: the index is stored under the fingerprint the world has by now.
Store_late(t) ==
    /\ At(t, "store") /\ mu' = Nothing
    /\ cache' = [fingerprint |-> World(fp[t].of), index |-> index[t]]
    /\ Succeeded(t)
    /\ UNCHANGED <<sources, world, path>>
Store(t) ==
    /\ At(t, "store") /\ mu' = Nothing
    /\ cache' = [fingerprint |-> fp[t], index |-> index[t]]
    /\ Succeeded(t)
    /\ UNCHANGED <<sources, world, path>>

\* The file cannot be written: the index is returned with the error.
StoreFails(t) ==
    /\ At(t, "store") /\ mu' = Nothing
    /\ Failed(t, index[t]) /\ BadWrite
    /\ UNCHANGED <<sources, world, path, history>>

-----------------------------------------------------------------------------
(* Current, as the synchronisation of the catalog calls it; other readers are *)
(* synchronisations whose message is lost.                                    *)

BeginSync(t) ==
    /\ Begin(t, "sync", Nothing) /\ Proceed(t, "look") /\ Present(path)
    /\ fp' = [fp EXCEPT ![t] = World(path)]
    /\ UNCHANGED <<sources, world, path, cache, mu, prev, index, soft, lone, history, raced>>

\* Mutated form: the error of the rebuild is dropped even when no cache was there.
LookAtCache_soft(t) ==
    /\ At(t, "look") /\ fp' = [fp EXCEPT ![t] = Empty]
    /\ \/ /\ cache.fingerprint = fp[t] /\ Proceed(t, "send")
          /\ index' = [index EXCEPT ![t] = cache.index] /\ UNCHANGED soft
       \/ Proceed(t, "lock") /\ soft' = soft \cup {t} /\ UNCHANGED index
    /\ UNCHANGED <<sources, world, path, cache, mu, kind, src, prev, lone, history, raced>>
\* The cache may be current, out of date, or not readable, which it also is while it is written.
LookAtCache(t) ==
    /\ At(t, "look") /\ fp' = [fp EXCEPT ![t] = Empty]
    /\ \/ /\ cache.fingerprint = fp[t] /\ Proceed(t, "send")
          /\ index' = [index EXCEPT ![t] = cache.index] /\ UNCHANGED soft
       \/ /\ cache # NoCache /\ cache.fingerprint # fp[t] /\ Proceed(t, "lock")
          /\ soft' = soft \cup {t} /\ UNCHANGED index
       \/ Proceed(t, "lock") /\ UNCHANGED <<index, soft>>
    /\ UNCHANGED <<sources, world, path, cache, mu, kind, src, prev, lone, history, raced>>

\* The message is lost, or nobody had asked for one.
Lost(t) ==
    /\ At(t, "send") /\ End(t)
    /\ UNCHANGED <<sources, world, path, cache, mu, history>>

-----------------------------------------------------------------------------
(* Import, deletion and renaming. *)

\* The archive is extracted beside and renamed into place; up to there a failure leaves nothing.
BeginImport(t, s) ==
    /\ Begin(t, "import", s) /\ Proceed(t, "placed")
    /\ s \in unused /\ unused' = unused \ {s} /\ files' = files \cup {s}
    /\ UNCHANGED <<rows, active, world, path, cache, mu, prev, fp, index, soft, lone, history, raced>>

StoreImport(t) ==
    /\ At(t, "placed") /\ End(t)
    /\ \/ rows' = rows \cup {src[t]} /\ UNCHANGED files
       \/ files' \in {files, files \ {src[t]}} /\ UNCHANGED rows
    /\ UNCHANGED <<active, unused, world, path, cache, mu, history>>

BeginDelete(t, s) ==
    /\ Begin(t, "delete", s) /\ Proceed(t, "read")
    /\ s \in rows \cap Imports /\ s # active
    /\ UNCHANGED <<sources, world, path, cache, mu, prev, fp, index, soft, lone, history, raced>>

\* Mutated form: the statement relies on the row that was read before.
DeleteRow_unchecked(t) ==
    /\ At(t, "read") /\ kind[t] = "delete" /\ src[t] \in rows
    /\ rows' = rows \ {src[t]} /\ Proceed(t, "gone")
    /\ UNCHANGED <<active, files, unused, world, path, cache, mu, locals, history, raced>>
\* DELETE ... WHERE active=0.
DeleteRow(t) ==
    /\ At(t, "read") /\ kind[t] = "delete"
    /\ \/ /\ src[t] \in rows /\ src[t] # active
          /\ rows' = rows \ {src[t]} /\ Proceed(t, "gone") /\ UNCHANGED <<locals, raced>>
       \/ UNCHANGED rows /\ End(t)
    /\ UNCHANGED <<active, files, unused, world, path, cache, mu, history>>

\* RemoveAll, whose error is dropped.
RemoveFiles(t) ==
    /\ At(t, "gone") /\ End(t)
    /\ files' \in {files, files \ {src[t]}}
    /\ UNCHANGED <<rows, active, unused, world, path, cache, mu, history>>

\* prev keeps the active flag of the row as it was read.
BeginRename(t, s) ==
    /\ Begin(t, "rename", s) /\ Proceed(t, "read") /\ s \in rows
    /\ prev' = [prev EXCEPT ![t] = IF active = s THEN s ELSE Nothing]
    /\ UNCHANGED <<sources, world, path, cache, mu, fp, index, soft, lone, history, raced>>

\* The upsert does not touch the flag of a row that is there, but makes one that is not.
Rename(t) ==
    /\ At(t, "read") /\ kind[t] = "rename" /\ End(t)
    /\ \/ /\ src[t] \notin rows
          /\ prev[t] = Nothing \/ active = Nothing
          /\ rows' = rows \cup {src[t]} /\ revived' = revived \cup {src[t]}
          /\ active' = (IF prev[t] = Nothing THEN active ELSE src[t])
       \/ UNCHANGED <<rows, active, revived>>
    /\ UNCHANGED <<files, unused, world, path, cache, mu, mixed>>

-----------------------------------------------------------------------------
(* The game, the reset of its world, and the end of the panel. *)

GameSaves ==
    /\ version < MaxVersion /\ version' = version + 1 /\ present' = TRUE
    /\ UNCHANGED <<sources, path, cache, mu, stage, locals, history, raced>>

\* A reset moves the world away and then invalidates the index, and once more when the new world
\* is there.
MoveWorld ==
    /\ present /\ present' = FALSE
    /\ UNCHANGED <<sources, version, path, cache, mu, stage, locals, history, raced>>

ResetInvalidates ==
    /\ mu = Nothing /\ cache # NoCache /\ Remove
    /\ UNCHANGED <<sources, world, path, mu, stage, locals, history>>

\* The panel ends and starts again: initializeSaveSources takes the path from the active row, if
\* it can read it.  The index manager begins with the path of the server: the cache file stays for the
\* server, unless a write was cut short, and is removed when the path of an import is set.
PanelRestarts ==
    /\ stage' = [t \in Tasks |-> "idle"] /\ kind' = [t \in Tasks |-> "sync"]
    /\ src' = [t \in Tasks |-> Nothing] /\ prev' = [t \in Tasks |-> Nothing]
    /\ fp' = [t \in Tasks |-> Empty] /\ index' = [t \in Tasks |-> Empty]
    /\ soft' = {} /\ raced' = {} /\ mu' = Nothing /\ lone' = Nothing
    /\ \/ active = Nothing /\ path' = Server
          /\ rows' \in {rows, rows \cup {Server}} /\ active' \in (rows' \cap {Server}) \cup {Nothing}
          /\ mixed' = FALSE
       \/ active \in Source /\ path' = active /\ mixed' = FALSE /\ UNCHANGED <<rows, active>>
       \/ path' = Server /\ mixed' = (active \in Imports) /\ UNCHANGED <<rows, active>>
    /\ cache' \in (IF path' \in Imports THEN {NoCache} ELSE IF mu = Nothing THEN {cache} ELSE {cache, NoCache})
    /\ UNCHANGED <<files, unused, world, revived>>

Handler(t) ==
    \/ \E s \in Source : BeginActivate(t, s) \/ BeginRename(t, s)
    \/ \E s \in Imports : BeginImport(t, s) \/ BeginDelete(t, s)
    \/ Mark(t) \/ Point(t) \/ Invalidate(t) \/ Unmark(t) \/ Back(t)
    \/ BeginRebuild(t) \/ BeginIndex(t) \/ Lock(t) \/ Parse(t) \/ ParseFails(t) \/ Store(t) \/ StoreFails(t)
    \/ StoreImport(t) \/ DeleteRow(t) \/ RemoveFiles(t) \/ Rename(t)

Synchronisation(t) == BeginSync(t) \/ LookAtCache(t) \/ Lost(t)

SourcesNext ==
    \/ \E t \in Tasks : Handler(t) \/ Synchronisation(t)
    \/ GameSaves \/ MoveWorld \/ ResetInvalidates \/ PanelRestarts

SourcesSpec == SourcesInit /\ [][SourcesNext]_sourceVars

-----------------------------------------------------------------------------
(* Properties. *)

\* When no activation is under way the index shows the source whose row is active, unless
\* activations overlapped, one failed and could not be taken back, or the last start could not
\* read the row; the next activation alone puts that right (save_sources.go:136-155).
PathFollowsRow == Activating = {} => mixed \/ active = Nothing \/ path = active

\* An index kept under the fingerprint its world still has was read from exactly that world: a
\* save that came while sav-cli was reading makes the index stale, never current
\* (saveindex.go:298, 327).
CurrentIndexIsTrue ==
    LET w == cache.fingerprint.of IN
    w # Nothing /\ cache.fingerprint = World(w) => cache.index = cache.fingerprint

\* The active source has its files: a deletion cannot take them away from under an activation,
\* unless a renaming brings the deleted row back in between (save_sources.go:209-223).
ActiveHasFiles == active \in Imports => active \in files \cup revived

\* The active source can be shown: it is the one the index looks at, and its files are there.
ActiveIsShown == PathFollowsRow /\ ActiveHasFiles

=============================================================================
