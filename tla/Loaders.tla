------------------------------- MODULE Loaders -------------------------------
(***************************************************************************)
(* Installation of UE4SS and PalDefender (paldefender/ue4ss.go,            *)
(* paldefender/manager.go) next to the maintenance of the server.  It is a *)
(* lifecycle job, but it does not hold operationMu: a request may start    *)
(* the server in the middle, and the rollback request copies files back    *)
(* under no lock at all.                                                   *)
(*                                                                         *)
(* The files are replaced one by one, each in three steps: a copy to the   *)
(* backup directory, a rename out of the way, a rename of the new file     *)
(* into place.  A failure undoes the replacements, latest first.           *)
(***************************************************************************)
EXTENDS Maintenance, Sequences

VARIABLES
    stage,      \* "ue4ss" or "defender", for the job at step "stage"
    disk,       \* version of each file, Missing when there is none
    aside,      \* its previous version, under the name the replacement gave it
    todo,       \* files the stage has still to replace
    swapped,    \* files it has replaced, latest first
    moved,      \* the file at the head of todo has been moved away
    undoing,    \* "no", "yes", or "broken" when a step of the rollback failed
    newest,     \* content of the newest backup directory of PalDefender
    revert,     \* what the rollback request has still to copy
    says,       \* what the panel says of the last stage
    found,      \* history: the files when the stage began
    meddled,    \* history: a rollback request wrote during the stage
    stuck,      \* history: a file moved away could not be put back
    intruded    \* history: a request started the server during the stage

mutations == <<todo, swapped, moved, undoing>>
files == <<disk, aside, newest>>
history == <<found, meddled, stuck, intruded>>
loaderVars == <<stage, mutations, files, revert, says, history>>
allVars == <<vars, loaderVars>>

Missing == 0    \* no file, or one whose copying was cut short
Latest == 2     \* the version an installation brings

Ue4ss == <<"core", "manifest">>     \* the libraries, then the manifest with their hashes
Defender == <<"d3d9", "defender">>
Saved == {"d3d9", "defender"}
Part == {"core", "manifest"} \cup Saved
Version == {Missing, 1, Latest}
Nothing == [p \in Part |-> Missing]

LoadersTypeOK ==
    /\ stage \in {"ue4ss", "defender"}
    /\ disk \in [Part -> Version] /\ aside \in [Part -> Version] /\ found \in [Part -> Version]
    /\ todo \in {<<>>, Ue4ss, Tail(Ue4ss), Defender, Tail(Defender)}
    /\ swapped \in Seq(Part) /\ moved \in BOOLEAN /\ undoing \in {"no", "yes", "broken"}
    /\ newest \in [Saved -> Version] /\ revert \in {<<>>, <<"defender", "d3d9">>, <<"d3d9">>}
    /\ says \in {"unknown", "working", "installed", "restored", "broken", "failed"}
    /\ meddled \in BOOLEAN /\ stuck \in BOOLEAN /\ intruded \in BOOLEAN

LoadersInit ==
    /\ Init
    /\ \E v \in {Missing, 1} : disk = [p \in Part |-> v]
    /\ stage = "ue4ss" /\ aside = Nothing /\ found = Nothing
    /\ todo = <<>> /\ swapped = <<>> /\ moved = FALSE /\ undoing = "no"
    /\ newest = [p \in Saved |-> Missing] /\ revert = <<>> /\ says = "unknown"
    /\ meddled = FALSE /\ stuck = FALSE /\ intruded = FALSE

\* The variables of a stage go out of scope.
Forget ==
    /\ todo' = <<>> /\ swapped' = <<>> /\ moved' = FALSE /\ undoing' = "no"
    /\ aside' = Nothing /\ found' = Nothing
    /\ meddled' = FALSE /\ stuck' = FALSE /\ intruded' = FALSE

InStage == \E j \in Jobs : At(j, "stage")

-----------------------------------------------------------------------------
(* The job. *)

\* Mutated form: the job is submitted as a general one.
BeginLoaders_general(j) ==
    /\ At(j, "queued") /\ kind[j] = "loaders" /\ Goto(j, "probe")
    /\ UNCHANGED <<own, aim, steamVars, server, loaderVars>>
BeginLoaders(j) ==
    /\ At(j, "queued") /\ kind[j] = "loaders" /\ Goto(j, "probe")
    /\ lifecycle = Nobody /\ lifecycle' = j
    /\ UNCHANGED <<kind, row, op, was, blind, wanted, aim, steamVars, server, loaderVars>>

EnterStage(j, name, sequence) ==
    /\ Goto(j, "stage") /\ stage' = name
    /\ todo' = sequence /\ swapped' = <<>> /\ moved' = FALSE /\ undoing' = "no"
    /\ says' = "working" /\ found' = disk /\ aside' = Nothing
    /\ meddled' = (revert # <<>>) /\ stuck' = FALSE

\* detectUE4SS: the manifest names the pinned version and the hashes of the libraries.
detectUE4SS == disk["core"] = Latest /\ disk["manifest"] = Latest

\* ensureGameStopped and detectUE4SS.  A container that exists and runs is refused (GiveUp); a
\* runtime that cannot be queried, or has lost its server, says that there is none.
ProbeLoaders(j) ==
    /\ At(j, "probe") /\ kind[j] = "loaders"
    /\ UNCHANGED server /\ Overlook(blind \cup {j})
    /\ IF detectUE4SS THEN EnterStage(j, "defender", Defender) ELSE EnterStage(j, "ue4ss", Ue4ss)
    /\ intruded' = FALSE
    /\ UNCHANGED <<kind, row, lifecycle, op, was, wanted, aim, steamVars, disk, newest, revert>>

Replacing(j) ==
    /\ At(j, "stage")
    /\ UNCHANGED <<vars, stage, revert, says, found, meddled, intruded>>

\* The newest backup directory once p is copied there as v; an installation has its own.
Backed(p, v) ==
    IF p \notin Saved \/ disk[p] = Missing THEN newest
    ELSE IF aside["d3d9"] # Missing THEN [newest EXCEPT ![p] = v]
    ELSE [q \in Saved |-> IF q = p THEN v ELSE Missing]

\* replaceUE4SSFile up to its first rename: the old file is copied to the backup directory of
\* this installation and renamed.
MoveAside(j) ==
    /\ Replacing(j) /\ undoing = "no" /\ todo # <<>> /\ ~moved
    /\ LET p == Head(todo) IN
       /\ aside' = [aside EXCEPT ![p] = disk[p]] /\ disk' = [disk EXCEPT ![p] = Missing]
       /\ newest' = Backed(p, disk[p])
    /\ moved' = TRUE
    /\ UNCHANGED <<todo, swapped, undoing, stuck>>

Place(j) ==
    /\ Replacing(j) /\ undoing = "no" /\ moved /\ moved' = FALSE
    /\ disk' = [disk EXCEPT ![Head(todo)] = Latest]
    /\ swapped' = <<Head(todo)>> \o swapped /\ todo' = Tail(todo)
    /\ UNCHANGED <<aside, undoing, newest, stuck>>

\* A file cannot be fetched, copied or renamed.  One moved away is renamed back, and nobody
\* looks whether that worked.
ReplaceFails(j) ==
    /\ Replacing(j) /\ undoing = "no" /\ undoing' = "yes" /\ moved' = FALSE /\ todo # <<>>
    /\ LET p == Head(todo) IN
       IF moved
       THEN /\ UNCHANGED newest
            /\ \/ /\ disk' = [disk EXCEPT ![p] = aside[p]] /\ UNCHANGED stuck
               \/ aside[p] # Missing /\ stuck' = TRUE /\ UNCHANGED disk
       ELSE newest' \in {newest, Backed(p, disk[p]), Backed(p, Missing)} /\ UNCHANGED <<disk, stuck>>
    /\ UNCHANGED <<todo, swapped, aside>>

Undoing(j) ==
    /\ Replacing(j) /\ undoing # "no" /\ swapped # <<>>
    /\ UNCHANGED <<todo, moved, aside, newest, stuck>>

\* Mutated form: the rollback removes the new file and leaves it at that.
Undo_removes(j) ==
    /\ Undoing(j) /\ swapped' = Tail(swapped) /\ UNCHANGED undoing
    /\ disk' = [disk EXCEPT ![Head(swapped)] = Missing]
\* rollbackUE4SSMutations, one file: remove the new one and rename the old one back.
Undo(j) ==
    /\ Undoing(j) /\ swapped' = Tail(swapped) /\ UNCHANGED undoing
    /\ disk' = [disk EXCEPT ![Head(swapped)] = aside[Head(swapped)]]

\* The new file cannot be removed, or the old one not be renamed; the others are still tried.
UndoFails(j) ==
    /\ Undoing(j) /\ swapped' = Tail(swapped) /\ undoing' = "broken"
    /\ disk' \in {disk, [disk EXCEPT ![Head(swapped)] = Missing]}

\* The tracker of UE4SS and the error of the row tell a failed rollback from a good one.
StageFails(j) ==
    /\ At(j, "stage") /\ undoing # "no" /\ swapped = <<>>
    /\ says' = (IF undoing = "yes" THEN "restored" ELSE "broken")
    /\ End(j, "failed") /\ Forget
    /\ UNCHANGED <<steamVars, server, stage, disk, newest, revert>>

\* The old files are removed.  UE4SS is detected again, the version of PalDefender recorded.
StageEnds(j) ==
    /\ At(j, "stage") /\ undoing = "no" /\ todo = <<>>
    /\ IF stage = "ue4ss" /\ detectUE4SS
       THEN EnterStage(j, "defender", Defender) /\ UNCHANGED <<own, aim, intruded>>
       ELSE /\ \/ stage = "defender" /\ End(j, "completed") /\ says' = "installed"
               \/ End(j, "failed") /\ says' = "failed"
            /\ Forget /\ UNCHANGED stage
    /\ UNCHANGED <<steamVars, server, disk, newest, revert>>

-----------------------------------------------------------------------------
(* The rollback request, and what the other steps do to the installation. *)

RollbackBegins ==
    /\ revert = <<>> /\ \E p \in Saved : newest[p] # Missing
    /\ revert' = <<"defender", "d3d9">>
    /\ meddled' = (meddled \/ InStage)
    /\ UNCHANGED <<vars, stage, mutations, files, says, found, stuck, intruded>>

\* One file is copied over the installed one; the first failure ends the request.
RollbackCopies ==
    /\ revert # <<>>
    /\ LET p == Head(revert) IN
       \/ /\ disk' = [disk EXCEPT ![p] = IF newest[p] # Missing THEN newest[p] ELSE @]
          /\ revert' = Tail(revert)
       \/ newest[p] # Missing /\ revert' = <<>> /\ disk' \in {disk, [disk EXCEPT ![p] = Missing]}
    /\ UNCHANGED <<vars, stage, mutations, aside, newest, says, history>>

Intrude ==
    /\ StartRequest \/ RestartRequest
    /\ intruded' = (intruded \/ (InStage /\ server = "off" /\ server' = "on"))

\* The renamed files stay where they are, but nobody knows of them any more.
LoadersCrash ==
    /\ Crash /\ Forget
    /\ revert' = <<>> /\ says' = "unknown"
    /\ UNCHANGED <<stage, disk, newest>>

LoadersWork(j) ==
    \/ BeginLoaders(j) \/ ProbeLoaders(j) \/ MoveAside(j) \/ Place(j) \/ ReplaceFails(j)
    \/ Undo(j) \/ UndoFails(j) \/ StageFails(j) \/ StageEnds(j)

MaintenanceStep ==
    \/ \E j \in Jobs : (\E k \in Kinds : Submit(j, k)) \/ Work(j) \/ Fails(j)
    \/ StopRequest \/ ServerEnds \/ Publish

LoadersNext ==
    \/ MaintenanceStep /\ UNCHANGED loaderVars
    \/ Intrude /\ UNCHANGED <<stage, mutations, files, revert, says, found, meddled, stuck>>
    \/ LoadersCrash
    \/ \E j \in Jobs : LoadersWork(j)
    \/ RollbackBegins \/ RollbackCopies

\* As long as a job of the executor can go on, some job does: commands and waits are bounded.
LoadersFairness ==
    WF_allVars(\E j \in Jobs : ((Work(j) \/ Fails(j)) /\ UNCHANGED loaderVars) \/ LoadersWork(j))

LoadersSpec == LoadersInit /\ [][LoadersNext]_allVars /\ LoadersFairness

-----------------------------------------------------------------------------
(* Properties. *)

\* An installation that is reported completed has the pinned UE4SS and the new PalDefender on
\* disk, whatever earlier attempts, crashes and rollbacks left there (manager.go:421-447).
CompletedIsWhole ==
    [][\A j \in Jobs :
        row[j] = "open" /\ row'[j] = "completed" /\ kind[j] = "loaders"
            => meddled \/ \A p \in Part : disk'[p] = Latest]_allVars

\* When the panel says that the previous files were restored, they were, unless the rename back
\* that nobody looks at failed or a rollback request wrote meanwhile (ue4ss.go:203).
RestoredAsSaid ==
    [][says # "restored" /\ says' = "restored" => disk' = found \/ stuck \/ meddled]_allVars

\* The files are replaced while no server runs, unless the look at it was blind: no lifecycle job
\* starts one, only a request that does not know of the installation (ue4ss.go:413).
StageStill == \A j \in Jobs : At(j, "stage") /\ server = "on" => intruded \/ j \in blind

\* Whoever rewrites files of the game, be it an update or an installation of the loaders, does so
\* while no server runs, with the exceptions the two have (manager.go:306, ue4ss.go:413): none
\* comes up in the middle but by a request during an installation, and whatever jobs and requests
\* did to the server before, each job has looked for itself.
FilesUnderStopped == UpdateStill /\ StageStill

\* What the panel reports of an update, an installation or a rollback is so (manager.go:394-447,
\* ue4ss.go:203).
ReportsAreTrue == UpdateTruth /\ CompletedIsWhole /\ RestoredAsSaid

\* Every job ends: the mutexes are taken in one order, and each of them is given back.
JobsEnd == \A j \in Jobs : []<>~Incomplete(j)

-----------------------------------------------------------------------------
(* Who waits for whom, for the proofs. *)

\* Whoever holds a mutex is at work and will give it back: the holder of operationMu is the job
\* that holds the lifecycle mutex, and the holder of the gate is in its command.
Held ==
    /\ lifecycle # Nobody => pc[lifecycle] \in Working /\ kind[lifecycle] # "check"
    /\ op # Nobody => op = lifecycle /\ ~At(op, "lock")
    /\ gate # Nobody => At(gate, "command")

\* The job may have to wait until another one gives a mutex back: that of the executor
\* (executor.go:137), of the manager (manager.go:906) or of SteamCMD (client.go:362).
Waits(j) ==
    \/ At(j, "queued") /\ kind[j] # "check" /\ lifecycle # Nobody
    \/ At(j, "lock") /\ op # Nobody
    \/ pc[j] \in {"ensure", "acquire"} /\ gate # Nobody

\* Never does everyone wait for everyone: while there are jobs, one of them can go on.
SomebodyGoesOn == (\E j \in Jobs : Incomplete(j)) => \E j \in Jobs : Incomplete(j) /\ ~Waits(j)

-----------------------------------------------------------------------------
(* What an installation knows of its files, for the proofs. *)

First == IF stage = "ue4ss" THEN "core" ELSE "d3d9"
Second == IF stage = "ue4ss" THEN "manifest" ELSE "defender"

\* How far the stage is.
Shape ==
    /\ \/ todo = <<First, Second>> /\ swapped = <<>>
       \/ todo = <<Second>> /\ swapped = <<First>>
       \/ todo = <<Second>> /\ swapped = <<>> /\ undoing # "no"
       \/ todo = <<>> /\ swapped = <<Second, First>> /\ ~moved /\ undoing = "no"
    /\ undoing # "no" => ~moved

\* A file is as it was found, or what it was stands aside.
Kept ==
    /\ \A p \in Part \ {First, Second} : disk[p] = found[p]
    /\ swapped = <<First>> => aside[First] = found[First]
    /\ swapped = <<>> => (IF moved THEN aside[First] ELSE disk[First]) = found[First]
    /\ todo # <<>> =>
         (IF moved /\ todo = <<Second>> THEN aside[Second] ELSE disk[Second]) = found[Second]

Whole ==
    /\ stage = "defender" => disk["core"] = Latest /\ disk["manifest"] = Latest
    /\ undoing = "no" /\ swapped # <<>> => disk[First] = Latest
    /\ undoing = "no" /\ todo = <<>> => disk[Second] = Latest

StageInv ==
    InStage =>
        /\ Shape
        /\ revert # <<>> => meddled
        /\ ~meddled /\ ~stuck /\ undoing # "broken" => Kept
        /\ ~meddled => Whole

\* The inductive invariant.
IInv == MaintenanceInv /\ LoadersTypeOK /\ StageInv /\ StageStill

=============================================================================
