------------------------- MODULE WorldSaves_proofs -------------------------
(***************************************************************************)
(* Theorems about WorldSaves for any number of jobs, worlds, saves and     *)
(* crashes, and for every set of ways in which the panel loses a server.   *)
(***************************************************************************)
EXTENDS WorldSaves, TLAPS

USE NoJobAssumption, NoWorldAssumption, EscapesAssumption, BoundsAssumption
USE DEF files, game, history, rest

\* The invariant holds at the first start.
LEMMA InitIInv == Init => IInv
  <1> SUFFICES ASSUME Init PROVE IInv
    OBVIOUS
  <1>1. TypeOK
    <2>1. NoZip \in Zip
      <3>1. \E w \in Worlds : TRUE
        BY WorldsAssumption
      <3>2. (CHOOSE w \in Worlds : TRUE) \in Worlds
        BY <3>1, Zenon
      <3>3. QED
        BY <3>2 DEF NoZip, Zip, Empty, Content
    <2>2. Backup \in Ask
      BY DEF Ask
    <2>3. QED
      BY <2>1, <2>2 DEF Init, TypeOK, Placed, Empty, Content
  <1>2. QuietWorlds /\ ArchiveHoldsOld /\ Restarts
    BY DEF Init, Empty, QuietWorlds, ArchiveHoldsOld, Restarts
  <1>3. NothingAhead
    BY DEF Init, NothingAhead, Saved, NoZip, Empty
  <1>4. \A j \in Jobs : Untouched(j) /\ Exact(j) /\ Generation(j)
    BY DEF Init, Untouched, Exact, Generation
  <1>5. QED
    BY <1>1, <1>2, <1>3, <1>4 DEF IInv

\* What a job is asked for.
LEMMA AskKinds ==
    ASSUME NEW a \in Ask
    PROVE  /\ a.kind \in {"reset", "restore", "backup"}
           /\ a.kind = "reset" => a.target \in Worlds
           /\ a.kind = "restore" => a.target \in Jobs
  <1>1. CASE a \in [kind : {"reset"}, target : Worlds]
    BY <1>1
  <1>2. CASE a \in [kind : {"restore"}, target : Jobs]
    BY <1>2
  <1>3. CASE a = Backup
    BY <1>3 DEF Backup
  <1>4. QED
    BY <1>1, <1>2, <1>3 DEF Ask

\* Only a reset is at a step of the reset's own, and its target is a world.
LEMMA ResetAt ==
    ASSUME TypeOK, NEW j \in Jobs, job = j,
           at \in {"check", "prepare", "verify", "move", "start", "wait", "cleanup", "rewind", "halt"}
    PROVE  IsReset(j) /\ ~IsRestore(j) /\ World(j) \in Worlds
  <1>1. ask[j] \in Ask /\ at \in Steps(ask[j].kind)
    BY j # NoJob DEF TypeOK, Placed
  <1>2. ask[j].kind \in {"reset", "restore", "backup"}
    BY <1>1, AskKinds
  <1>3. ask[j].kind = "reset"
    BY <1>1, <1>2 DEF Steps, RestoreSteps, BackupSteps
  <1>4. QED
    BY <1>1, <1>3, AskKinds DEF IsReset, IsRestore, World

\* Only a restore is at a step of the restore's own, and its source is the archive of a job.
LEMMA RestoreAt ==
    ASSUME TypeOK, NEW j \in Jobs, job = j,
           at \in {"verify source", "extract", "extracting", "finish"}
    PROVE  IsRestore(j) /\ ~IsReset(j) /\ ask[j].target \in Jobs /\ Source(j) \in Zip
  <1>1. ask[j] \in Ask /\ at \in Steps(ask[j].kind)
    BY j # NoJob DEF TypeOK, Placed
  <1>2. ask[j].kind \in {"reset", "restore", "backup"}
    BY <1>1, AskKinds
  <1>3. ask[j].kind = "restore"
    BY <1>1, <1>2 DEF Steps, ResetSteps, BackupSteps
  <1>4. ask[j].target \in Jobs
    BY <1>1, <1>3, AskKinds
  <1>5. Source(j) \in Zip
    BY <1>4 DEF TypeOK, Source
  <1>6. QED
    BY <1>3, <1>4, <1>5 DEF IsReset, IsRestore

\* The archives keep their shape.
LEMMA ZipStep ==
    ASSUME TypeOK, [Next]_vars
    PROVE  zip' \in [Jobs -> Zip]
  <1> USE DEF TypeOK, Zip, Content
  <1>1. CASE Save
    BY <1>1 DEF Save
  <1>2. CASE ServerExit
    BY <1>2 DEF ServerExit
  <1>3. CASE Start
    BY <1>3 DEF Start
  <1>4. CASE Stop
    BY <1>4 DEF Stop
  <1>4r. CASE RowCleared
    BY <1>4r DEF RowCleared
  <1>5. CASE Crash
    BY <1>5 DEF Crash
  <1>6. ASSUME NEW w \in Worlds, EditSetting(w) PROVE zip' \in [Jobs -> Zip]
    BY <1>6 DEF EditSetting
  <1>7. ASSUME NEW k \in Jobs, DeleteBackup(k) PROVE zip' \in [Jobs -> Zip]
    <2>1. zip[k] \in Zip
      BY DEF TypeOK
    <2>2. [zip[k] EXCEPT !.state = "deleted"] \in Zip
      BY <2>1 DEF Zip
    <2>3. zip' = [zip EXCEPT ![k] = [zip[k] EXCEPT !.state = "deleted"]]
      BY <1>7 DEF DeleteBackup
    <2>4. QED
      BY <2>2, <2>3 DEF TypeOK
  <1>8. ASSUME NEW j \in Jobs, NEW a \in Ask, Submit(j, a) PROVE zip' \in [Jobs -> Zip]
    BY <1>8 DEF Submit
  <1>9. ASSUME NEW j \in Jobs, Begin(j) PROVE zip' \in [Jobs -> Zip]
    BY <1>9 DEF Begin, First
  <1>10. ASSUME NEW j \in Jobs, OpenArchive(j) PROVE zip' \in [Jobs -> Zip]
    BY <1>10 DEF OpenArchive, Goto
  <1>11. ASSUME NEW j \in Jobs, CloseArchive(j) PROVE zip' \in [Jobs -> Zip]
    BY <1>11 DEF CloseArchive, Goto
  <1>12. ASSUME NEW j \in Jobs, ArchiveFails(j) PROVE zip' \in [Jobs -> Zip]
    <2>1. zip[j] \in Zip
      BY DEF TypeOK
    <2>2. [zip[j] EXCEPT !.state = IF zip[j].state = "partial" THEN "none" ELSE zip[j].state] \in Zip
      BY <2>1 DEF Zip
    <2>3. zip' = [zip EXCEPT ![j] = [zip[j] EXCEPT !.state = IF zip[j].state = "partial" THEN "none" ELSE zip[j].state]]
      BY <1>12 DEF ArchiveFails
    <2>4. QED
      BY <2>2, <2>3 DEF TypeOK
  <1>13. ASSUME NEW j \in Jobs, Upload(j) PROVE zip' \in [Jobs -> Zip]
    BY <1>13 DEF Upload, Fail, End
  <1>14. ASSUME NEW j \in Jobs, StopServer(j) PROVE zip' \in [Jobs -> Zip]
    BY <1>14 DEF StopServer, Goto
  <1>15. ASSUME NEW j \in Jobs, StopServerFails(j) PROVE zip' \in [Jobs -> Zip]
    BY <1>15 DEF StopServerFails, Fail, End
  <1>16. ASSUME NEW j \in Jobs, Check(j) PROVE zip' \in [Jobs -> Zip]
    BY <1>16 DEF Check, Goto, Fail, End
  <1>17. ASSUME NEW j \in Jobs, Prepare(j) PROVE zip' \in [Jobs -> Zip]
    BY <1>17 DEF Prepare, Goto, Fail, End
  <1>18. ASSUME NEW j \in Jobs, Verify(j) PROVE zip' \in [Jobs -> Zip]
    BY <1>18 DEF Verify, FailUnmoved, Goto, Fail, End
  <1>19. ASSUME NEW j \in Jobs, Move(j) PROVE zip' \in [Jobs -> Zip]
    BY <1>19 DEF Move, Goto
  <1>20. ASSUME NEW j \in Jobs, MoveFails(j) PROVE zip' \in [Jobs -> Zip]
    BY <1>20 DEF MoveFails, FailUnmoved, Goto, Fail, End
  <1>21. ASSUME NEW j \in Jobs, Rewind(j) PROVE zip' \in [Jobs -> Zip]
    BY <1>21 DEF Rewind, Fail, End
  <1>22. ASSUME NEW j \in Jobs, StartNew(j) PROVE zip' \in [Jobs -> Zip]
    BY <1>22 DEF StartNew, Goto
  <1>23. ASSUME NEW j \in Jobs, StartNewFails(j) PROVE zip' \in [Jobs -> Zip]
    BY <1>23 DEF StartNewFails, Goto
  <1>24. ASSUME NEW j \in Jobs, Generated(j) PROVE zip' \in [Jobs -> Zip]
    BY <1>24 DEF Generated, Goto
  <1>25. ASSUME NEW j \in Jobs, GiveUp(j) PROVE zip' \in [Jobs -> Zip]
    BY <1>25 DEF GiveUp, Goto
  <1>26. ASSUME NEW j \in Jobs, Halt(j) PROVE zip' \in [Jobs -> Zip]
    BY <1>26 DEF Halt, Fail, End
  <1>27. ASSUME NEW j \in Jobs, CleanUp(j) PROVE zip' \in [Jobs -> Zip]
    BY <1>27 DEF CleanUp, Fail, End
  <1>28. ASSUME NEW j \in Jobs, VerifySource(j) PROVE zip' \in [Jobs -> Zip]
    BY <1>28 DEF VerifySource, Goto, Fail, End
  <1>29. ASSUME NEW j \in Jobs, Extract(j) PROVE zip' \in [Jobs -> Zip]
    BY <1>29 DEF Extract, Goto
  <1>30. ASSUME NEW j \in Jobs, Extracted(j) PROVE zip' \in [Jobs -> Zip]
    BY <1>30 DEF Extracted, Goto
  <1>31. ASSUME NEW j \in Jobs, ExtractFails(j) PROVE zip' \in [Jobs -> Zip]
    BY <1>31 DEF ExtractFails, Fail, End
  <1>32. ASSUME NEW j \in Jobs, Finish(j) PROVE zip' \in [Jobs -> Zip]
    BY <1>32 DEF Finish, Fail, End
  <1>33. CASE UNCHANGED vars
    BY <1>33 DEF vars
  <1>34. QED
    BY <1>1, <1>2, <1>3, <1>4, <1>4r, <1>5, <1>6, <1>7, <1>8, <1>9, <1>10, <1>11, <1>12, <1>13, <1>14, <1>15, <1>16,
       <1>17, <1>18, <1>19, <1>20, <1>21, <1>22, <1>23, <1>24, <1>25, <1>26, <1>27, <1>28, <1>29, <1>30, <1>31, <1>32, <1>33
    DEF Next, Work, Archive, StopFirst, ResetStep, RestoreStep

FilesTyped ==
    /\ disk \in [Worlds -> Content]
    /\ staged \in [Jobs -> Content]
    /\ old \in [Jobs -> [Worlds -> Content]]

\* The worlds on the disk, staged and remembered stay sets of versions.
LEMMA FilesStep ==
    ASSUME TypeOK, [Next]_vars
    PROVE  FilesTyped'
  <1> USE DEF TypeOK, Content, FilesTyped, Calm
  <1>1. CASE Save
    BY <1>1 DEF Save
  <1>2. CASE ServerExit
    BY <1>2 DEF ServerExit
  <1>3. CASE Start
    BY <1>3 DEF Start
  <1>4. CASE Stop
    BY <1>4 DEF Stop
  <1>4r. CASE RowCleared
    BY <1>4r DEF RowCleared
  <1>5. CASE Crash
    BY <1>5 DEF Crash
  <1>6. ASSUME NEW w \in Worlds, EditSetting(w) PROVE FilesTyped'
    BY <1>6 DEF EditSetting
  <1>7. ASSUME NEW k \in Jobs, DeleteBackup(k) PROVE FilesTyped'
    BY <1>7 DEF DeleteBackup
  <1>8. ASSUME NEW j \in Jobs, NEW a \in Ask, Submit(j, a) PROVE FilesTyped'
    BY <1>8 DEF Submit
  <1>9. ASSUME NEW j \in Jobs, Begin(j) PROVE FilesTyped'
    BY <1>9 DEF Begin, First
  <1>10. ASSUME NEW j \in Jobs, OpenArchive(j) PROVE FilesTyped'
    BY <1>10 DEF OpenArchive, Goto
  <1>11. ASSUME NEW j \in Jobs, CloseArchive(j) PROVE FilesTyped'
    BY <1>11 DEF CloseArchive, Goto
  <1>12. ASSUME NEW j \in Jobs, ArchiveFails(j) PROVE FilesTyped'
    BY <1>12 DEF ArchiveFails, FailArchive, FailUnmoved, Goto, Fail, End
  <1>13. ASSUME NEW j \in Jobs, Upload(j) PROVE FilesTyped'
    BY <1>13 DEF Upload, Fail, End
  <1>14. ASSUME NEW j \in Jobs, StopServer(j) PROVE FilesTyped'
    BY <1>14 DEF StopServer, Goto
  <1>15. ASSUME NEW j \in Jobs, StopServerFails(j) PROVE FilesTyped'
    BY <1>15 DEF StopServerFails, Fail, End
  <1>16. ASSUME NEW j \in Jobs, Check(j) PROVE FilesTyped'
    BY <1>16 DEF Check, Goto, Fail, End
  <1>17. ASSUME NEW j \in Jobs, Prepare(j) PROVE FilesTyped'
    BY <1>17 DEF Prepare, Goto, Fail, End
  <1>18. ASSUME NEW j \in Jobs, Verify(j) PROVE FilesTyped'
    BY <1>18 DEF Verify, FailUnmoved, Goto, Fail, End
  <1>19. ASSUME NEW j \in Jobs, Move(j) PROVE FilesTyped'
    <2>1. World(j) \in Worlds
      BY <1>19, ResetAt DEF Move
    <2>2. QED
      BY <1>19, <2>1 DEF Move
  <1>20. ASSUME NEW j \in Jobs, MoveFails(j) PROVE FilesTyped'
    BY <1>20 DEF MoveFails, FailUnmoved, Goto, Fail, End
  <1>21. ASSUME NEW j \in Jobs, Rewind(j) PROVE FilesTyped'
    BY <1>21 DEF Rewind, Fail, End
  <1>22. ASSUME NEW j \in Jobs, StartNew(j) PROVE FilesTyped'
    BY <1>22 DEF StartNew, Goto
  <1>23. ASSUME NEW j \in Jobs, StartNewFails(j) PROVE FilesTyped'
    BY <1>23 DEF StartNewFails, Goto
  <1>24. ASSUME NEW j \in Jobs, Generated(j) PROVE FilesTyped'
    BY <1>24 DEF Generated, Goto
  <1>25. ASSUME NEW j \in Jobs, GiveUp(j) PROVE FilesTyped'
    BY <1>25 DEF GiveUp, Goto
  <1>26. ASSUME NEW j \in Jobs, Halt(j) PROVE FilesTyped'
    BY <1>26 DEF Halt, Fail, End
  <1>27. ASSUME NEW j \in Jobs, CleanUp(j) PROVE FilesTyped'
    BY <1>27 DEF CleanUp, Fail, End
  <1>28. ASSUME NEW j \in Jobs, VerifySource(j) PROVE FilesTyped'
    BY <1>28 DEF VerifySource, Goto, Fail, End
  <1>29. ASSUME NEW j \in Jobs, Extract(j) PROVE FilesTyped'
    <2>1. Source(j) \in Zip
      BY <1>29, RestoreAt DEF Extract
    <2>2. Source(j).worlds \in [Worlds -> SUBSET Nat] /\ Source(j).setting \in Worlds 
      BY <2>1 DEF Zip, Content
    <2>3. QED
      BY <1>29, <2>2 DEF Extract
  <1>30. ASSUME NEW j \in Jobs, Extracted(j) PROVE FilesTyped'
    <2>1. Source(j) \in Zip
      BY <1>30, RestoreAt DEF Extracted
    <2>2. Source(j).worlds \in [Worlds -> SUBSET Nat] /\ Source(j).setting \in Worlds 
      BY <2>1 DEF Zip, Content
    <2>3. QED
      BY <1>30, <2>2 DEF Extracted
  <1>31. ASSUME NEW j \in Jobs, ExtractFails(j) PROVE FilesTyped'
    BY <1>31 DEF ExtractFails, Fail, End
  <1>32. ASSUME NEW j \in Jobs, Finish(j) PROVE FilesTyped'
    BY <1>32 DEF Finish, Fail, End
  <1>33. CASE UNCHANGED vars
    BY <1>33 DEF vars
  <1>34. QED
    BY <1>1, <1>2, <1>3, <1>4, <1>4r, <1>5, <1>6, <1>7, <1>8, <1>9, <1>10, <1>11, <1>12, <1>13, <1>14, <1>15, <1>16,
       <1>17, <1>18, <1>19, <1>20, <1>21, <1>22, <1>23, <1>24, <1>25, <1>26, <1>27, <1>28, <1>29, <1>30, <1>31, <1>32, <1>33
    DEF Next, Work, Archive, StopFirst, ResetStep, RestoreStep

OthersTyped ==
    /\ setting \in Worlds
    /\ server \in Worlds \cup {NoWorld} /\ lost \subseteq Worlds /\ torn \subseteq Worlds
    /\ version \in Nat
    /\ was \in BOOLEAN
    /\ crashes \in Nat

\* The settings, the game server and the counters keep their types.
LEMMA OthersStep ==
    ASSUME TypeOK, [Next]_vars
    PROVE  OthersTyped'
  <1> USE DEF TypeOK, OthersTyped, Starting, NotStarting, Stopping, Lose, Loaded
  <1>1. CASE Save
    BY <1>1 DEF Save
  <1>2. CASE ServerExit
    BY <1>2 DEF ServerExit
  <1>3. CASE Start
    BY <1>3 DEF Start
  <1>4. CASE Stop
    BY <1>4 DEF Stop
  <1>4r. CASE RowCleared
    BY <1>4r DEF RowCleared
  <1>5. CASE Crash
    <2>1. was' \in BOOLEAN /\ torn' = {} /\ crashes' = crashes + 1
      BY <1>5 DEF Crash
    <2>2. UNCHANGED <<setting, server, lost, version>>
      BY <1>5 DEF Crash
    <2>3. QED
      BY <2>1, <2>2
  <1>6. ASSUME NEW w \in Worlds, EditSetting(w) PROVE OthersTyped'
    BY <1>6 DEF EditSetting
  <1>7. ASSUME NEW k \in Jobs, DeleteBackup(k) PROVE OthersTyped'
    BY <1>7 DEF DeleteBackup
  <1>8. ASSUME NEW j \in Jobs, NEW a \in Ask, Submit(j, a) PROVE OthersTyped'
    BY <1>8 DEF Submit
  <1>9. ASSUME NEW j \in Jobs, Begin(j) PROVE OthersTyped'
    BY <1>9 DEF Begin, First
  <1>10. ASSUME NEW j \in Jobs, OpenArchive(j) PROVE OthersTyped'
    BY <1>10 DEF OpenArchive, Goto
  <1>11. ASSUME NEW j \in Jobs, CloseArchive(j) PROVE OthersTyped'
    BY <1>11 DEF CloseArchive, Goto
  <1>12. ASSUME NEW j \in Jobs, ArchiveFails(j) PROVE OthersTyped'
    BY <1>12 DEF ArchiveFails, FailArchive, FailUnmoved, Goto, Fail, End
  <1>13. ASSUME NEW j \in Jobs, Upload(j) PROVE OthersTyped'
    BY <1>13 DEF Upload, Fail, End
  <1>14. ASSUME NEW j \in Jobs, StopServer(j) PROVE OthersTyped'
    BY <1>14 DEF StopServer, Goto
  <1>15. ASSUME NEW j \in Jobs, StopServerFails(j) PROVE OthersTyped'
    BY <1>15 DEF StopServerFails, Fail, End
  <1>16. ASSUME NEW j \in Jobs, Check(j) PROVE OthersTyped'
    BY <1>16 DEF Check, Goto, Fail, End
  <1>17. ASSUME NEW j \in Jobs, Prepare(j) PROVE OthersTyped'
    BY <1>17 DEF Prepare, Goto, Fail, End
  <1>18. ASSUME NEW j \in Jobs, Verify(j) PROVE OthersTyped'
    BY <1>18 DEF Verify, FailUnmoved, Goto, Fail, End
  <1>19. ASSUME NEW j \in Jobs, Move(j) PROVE OthersTyped'
    BY <1>19 DEF Move, Goto
  <1>20. ASSUME NEW j \in Jobs, MoveFails(j) PROVE OthersTyped'
    BY <1>20 DEF MoveFails, FailUnmoved, Goto, Fail, End
  <1>21. ASSUME NEW j \in Jobs, Rewind(j) PROVE OthersTyped'
    <2>1. server' \in Worlds \cup {NoWorld} /\ lost' \subseteq Worlds
      BY <1>21 DEF Rewind
    <2>2. was' \in BOOLEAN /\ torn' = {}
      BY <1>21 DEF Rewind, Fail, End
    <2>3. UNCHANGED <<setting, version, crashes>>
      BY <1>21 DEF Rewind
    <2>4. QED
      BY <2>1, <2>2, <2>3
  <1>22. ASSUME NEW j \in Jobs, StartNew(j) PROVE OthersTyped'
    BY <1>22 DEF StartNew, Goto
  <1>23. ASSUME NEW j \in Jobs, StartNewFails(j) PROVE OthersTyped'
    BY <1>23 DEF StartNewFails, Goto
  <1>24. ASSUME NEW j \in Jobs, Generated(j) PROVE OthersTyped'
    BY <1>24 DEF Generated, Goto
  <1>25. ASSUME NEW j \in Jobs, GiveUp(j) PROVE OthersTyped'
    BY <1>25 DEF GiveUp, Goto
  <1>26. ASSUME NEW j \in Jobs, Halt(j) PROVE OthersTyped'
    BY <1>26 DEF Halt, Fail, End
  <1>27. ASSUME NEW j \in Jobs, CleanUp(j) PROVE OthersTyped'
    BY <1>27 DEF CleanUp, Fail, End
  <1>28. ASSUME NEW j \in Jobs, VerifySource(j) PROVE OthersTyped'
    BY <1>28 DEF VerifySource, Goto, Fail, End
  <1>29. ASSUME NEW j \in Jobs, Extract(j) PROVE OthersTyped'
    <2>1. Source(j) \in Zip
      BY <1>29, RestoreAt DEF Extract
    <2>2. Source(j).setting \in Worlds
      BY <2>1 DEF Zip
    <2>3. QED
      BY <1>29, <2>2 DEF Extract, Goto
  <1>30. ASSUME NEW j \in Jobs, Extracted(j) PROVE OthersTyped'
    <2>1. Source(j) \in Zip
      BY <1>30, RestoreAt DEF Extracted
    <2>2. Source(j).setting \in Worlds
      BY <2>1 DEF Zip
    <2>3. QED
      BY <1>30, <2>2 DEF Extracted, Goto
  <1>31. ASSUME NEW j \in Jobs, ExtractFails(j) PROVE OthersTyped'
    BY <1>31 DEF ExtractFails, Fail, End
  <1>32. ASSUME NEW j \in Jobs, Finish(j) PROVE OthersTyped'
    BY <1>32 DEF Finish, Fail, End
  <1>33. CASE UNCHANGED vars
    BY <1>33 DEF vars
  <1>34. QED
    BY <1>1, <1>2, <1>3, <1>4, <1>4r, <1>5, <1>6, <1>7, <1>8, <1>9, <1>10, <1>11, <1>12, <1>13, <1>14, <1>15, <1>16,
       <1>17, <1>18, <1>19, <1>20, <1>21, <1>22, <1>23, <1>24, <1>25, <1>26, <1>27, <1>28, <1>29, <1>30, <1>31, <1>32, <1>33
    DEF Next, Work, Archive, StopFirst, ResetStep, RestoreStep

RowsTyped ==
    /\ row \in [Jobs -> {"none", "queued", "running", "completed", "failed"}]
    /\ ask \in [Jobs -> Ask]
    /\ job \in Jobs \cup {NoJob}
    /\ at \in {"idle"} \cup ResetSteps \cup RestoreSteps \cup BackupSteps

\* The rows, the requests and the place of the running job keep their types.
LEMMA RowsStep ==
    ASSUME TypeOK, [Next]_vars
    PROVE  RowsTyped'
  <1> USE DEF TypeOK, RowsTyped, ResetSteps, RestoreSteps, BackupSteps
  <1>1. CASE Save
    BY <1>1 DEF Save
  <1>2. CASE ServerExit
    BY <1>2 DEF ServerExit
  <1>3. CASE Start
    BY <1>3 DEF Start
  <1>4. CASE Stop
    BY <1>4 DEF Stop
  <1>4r. CASE RowCleared
    BY <1>4r DEF RowCleared
  <1>5. CASE Crash
    BY <1>5 DEF Crash
  <1>6. ASSUME NEW w \in Worlds, EditSetting(w) PROVE RowsTyped'
    BY <1>6 DEF EditSetting
  <1>7. ASSUME NEW k \in Jobs, DeleteBackup(k) PROVE RowsTyped'
    BY <1>7 DEF DeleteBackup
  <1>8. ASSUME NEW j \in Jobs, NEW a \in Ask, Submit(j, a) PROVE RowsTyped'
    BY <1>8 DEF Submit
  <1>9. ASSUME NEW j \in Jobs, Begin(j) PROVE RowsTyped'
    <2>1. First(ask[j].kind) \in ResetSteps \cup RestoreSteps \cup BackupSteps
      <3>1. ask[j].kind \in {"reset", "restore", "backup"}
        BY AskKinds DEF TypeOK
      <3>2. QED
        BY <3>1 DEF First, ResetSteps, RestoreSteps, BackupSteps
    <2>2. QED
      BY <1>9, <2>1 DEF Begin
  <1>10. ASSUME NEW j \in Jobs, OpenArchive(j) PROVE RowsTyped'
    BY <1>10 DEF OpenArchive, Goto
  <1>11. ASSUME NEW j \in Jobs, CloseArchive(j) PROVE RowsTyped'
    BY <1>11 DEF CloseArchive, Goto
  <1>12. ASSUME NEW j \in Jobs, ArchiveFails(j) PROVE RowsTyped'
    BY <1>12 DEF ArchiveFails, FailArchive, FailUnmoved, Goto, Fail, End
  <1>13. ASSUME NEW j \in Jobs, Upload(j) PROVE RowsTyped'
    BY <1>13 DEF Upload, Fail, End
  <1>14. ASSUME NEW j \in Jobs, StopServer(j) PROVE RowsTyped'
    BY <1>14 DEF StopServer, Goto
  <1>15. ASSUME NEW j \in Jobs, StopServerFails(j) PROVE RowsTyped'
    BY <1>15 DEF StopServerFails, Fail, End
  <1>16. ASSUME NEW j \in Jobs, Check(j) PROVE RowsTyped'
    BY <1>16 DEF Check, Goto, Fail, End
  <1>17. ASSUME NEW j \in Jobs, Prepare(j) PROVE RowsTyped'
    BY <1>17 DEF Prepare, Goto, Fail, End
  <1>18. ASSUME NEW j \in Jobs, Verify(j) PROVE RowsTyped'
    BY <1>18 DEF Verify, FailUnmoved, Goto, Fail, End
  <1>19. ASSUME NEW j \in Jobs, Move(j) PROVE RowsTyped'
    BY <1>19 DEF Move, Goto
  <1>20. ASSUME NEW j \in Jobs, MoveFails(j) PROVE RowsTyped'
    BY <1>20 DEF MoveFails, FailUnmoved, Goto, Fail, End
  <1>21. ASSUME NEW j \in Jobs, Rewind(j) PROVE RowsTyped'
    BY <1>21 DEF Rewind, Fail, End
  <1>22. ASSUME NEW j \in Jobs, StartNew(j) PROVE RowsTyped'
    BY <1>22 DEF StartNew, Goto
  <1>23. ASSUME NEW j \in Jobs, StartNewFails(j) PROVE RowsTyped'
    BY <1>23 DEF StartNewFails, Goto
  <1>24. ASSUME NEW j \in Jobs, Generated(j) PROVE RowsTyped'
    BY <1>24 DEF Generated, Goto
  <1>25. ASSUME NEW j \in Jobs, GiveUp(j) PROVE RowsTyped'
    BY <1>25 DEF GiveUp, Goto
  <1>26. ASSUME NEW j \in Jobs, Halt(j) PROVE RowsTyped'
    BY <1>26 DEF Halt, Fail, End
  <1>27. ASSUME NEW j \in Jobs, CleanUp(j) PROVE RowsTyped'
    BY <1>27 DEF CleanUp, Fail, End
  <1>28. ASSUME NEW j \in Jobs, VerifySource(j) PROVE RowsTyped'
    BY <1>28 DEF VerifySource, Goto, Fail, End
  <1>29. ASSUME NEW j \in Jobs, Extract(j) PROVE RowsTyped'
    BY <1>29 DEF Extract, Goto
  <1>30. ASSUME NEW j \in Jobs, Extracted(j) PROVE RowsTyped'
    BY <1>30 DEF Extracted, Goto
  <1>31. ASSUME NEW j \in Jobs, ExtractFails(j) PROVE RowsTyped'
    BY <1>31 DEF ExtractFails, Fail, End
  <1>32. ASSUME NEW j \in Jobs, Finish(j) PROVE RowsTyped'
    BY <1>32 DEF Finish, Fail, End
  <1>33. CASE UNCHANGED vars
    BY <1>33 DEF vars
  <1>34. QED
    BY <1>1, <1>2, <1>3, <1>4, <1>4r, <1>5, <1>6, <1>7, <1>8, <1>9, <1>10, <1>11, <1>12, <1>13, <1>14, <1>15, <1>16,
       <1>17, <1>18, <1>19, <1>20, <1>21, <1>22, <1>23, <1>24, <1>25, <1>26, <1>27, <1>28, <1>29, <1>30, <1>31, <1>32, <1>33
    DEF Next, Work, Archive, StopFirst, ResetStep, RestoreStep

\* The running job is at a step of its kind and its row says that it runs.
LEMMA PlacedStep ==
    ASSUME TypeOK, [Next]_vars
    PROVE  Placed'
  <1> USE DEF TypeOK, Placed, Steps, IsReset, IsRestore, ResetSteps, RestoreSteps, BackupSteps
  <1>1. CASE Save
    BY <1>1 DEF Save
  <1>2. CASE ServerExit
    BY <1>2 DEF ServerExit
  <1>3. CASE Start
    BY <1>3 DEF Start
  <1>4. CASE Stop
    BY <1>4 DEF Stop
  <1>4r. CASE RowCleared
    BY <1>4r DEF RowCleared
  <1>5. CASE Crash
    BY <1>5 DEF Crash
  <1>6. ASSUME NEW w \in Worlds, EditSetting(w) PROVE Placed'
    BY <1>6 DEF EditSetting
  <1>7. ASSUME NEW k \in Jobs, DeleteBackup(k) PROVE Placed'
    BY <1>7 DEF DeleteBackup
  <1>8. ASSUME NEW j \in Jobs, NEW a \in Ask, Submit(j, a) PROVE Placed'
    BY <1>8 DEF Submit
  <1>9. ASSUME NEW j \in Jobs, Begin(j) PROVE Placed'
    <2>1. ask[j].kind \in {"reset", "restore", "backup"} /\ j # NoJob
      BY AskKinds DEF TypeOK
    <2>2. First(ask[j].kind) \in Steps(ask[j].kind)
      BY <2>1 DEF First
    <2>3. QED
      BY <1>9, <2>1, <2>2 DEF Begin
  <1>10. ASSUME NEW j \in Jobs, OpenArchive(j) PROVE Placed'
    <2>1. j # NoJob /\ ask[j].kind \in {"reset", "restore", "backup"} /\ at \in Steps(ask[j].kind)
      BY <1>10, AskKinds DEF TypeOK, Placed, OpenArchive
    <2>2. QED
      BY <1>10, <2>1 DEF OpenArchive, Goto
  <1>11. ASSUME NEW j \in Jobs, CloseArchive(j) PROVE Placed'
    <2>1. j # NoJob /\ ask[j].kind \in {"reset", "restore", "backup"} /\ at \in Steps(ask[j].kind)
      BY <1>11, AskKinds DEF TypeOK, Placed, CloseArchive
    <2>2. QED
      BY <1>11, <2>1 DEF CloseArchive, Goto
  <1>12. ASSUME NEW j \in Jobs, ArchiveFails(j) PROVE Placed'
    <2>1. j # NoJob /\ ask[j].kind \in {"reset", "restore", "backup"} /\ at \in Steps(ask[j].kind)
      BY <1>12, AskKinds DEF TypeOK, Placed, ArchiveFails
    <2>2. QED
      BY <1>12, <2>1 DEF ArchiveFails, FailArchive, FailUnmoved, Goto, Fail, End
  <1>13. ASSUME NEW j \in Jobs, Upload(j) PROVE Placed'
    <2>1. j # NoJob /\ ask[j].kind \in {"reset", "restore", "backup"} /\ at \in Steps(ask[j].kind)
      BY <1>13, AskKinds DEF TypeOK, Placed, Upload
    <2>2. QED
      BY <1>13, <2>1 DEF Upload, Fail, End
  <1>14. ASSUME NEW j \in Jobs, StopServer(j) PROVE Placed'
    <2>1. j # NoJob /\ ask[j].kind \in {"reset", "restore", "backup"} /\ at \in Steps(ask[j].kind)
      BY <1>14, AskKinds DEF TypeOK, Placed, StopServer
    <2>2. QED
      BY <1>14, <2>1 DEF StopServer, Goto
  <1>15. ASSUME NEW j \in Jobs, StopServerFails(j) PROVE Placed'
    <2>1. j # NoJob /\ ask[j].kind \in {"reset", "restore", "backup"} /\ at \in Steps(ask[j].kind)
      BY <1>15, AskKinds DEF TypeOK, Placed, StopServerFails
    <2>2. QED
      BY <1>15, <2>1 DEF StopServerFails, Fail, End
  <1>16. ASSUME NEW j \in Jobs, Check(j) PROVE Placed'
    <2>1. j # NoJob /\ ask[j].kind \in {"reset", "restore", "backup"} /\ at \in Steps(ask[j].kind)
      BY <1>16, AskKinds DEF TypeOK, Placed, Check
    <2>2. QED
      BY <1>16, <2>1 DEF Check, Goto, Fail, End
  <1>17. ASSUME NEW j \in Jobs, Prepare(j) PROVE Placed'
    <2>1. j # NoJob /\ ask[j].kind \in {"reset", "restore", "backup"} /\ at \in Steps(ask[j].kind)
      BY <1>17, AskKinds DEF TypeOK, Placed, Prepare
    <2>2. QED
      BY <1>17, <2>1 DEF Prepare, Goto, Fail, End
  <1>18. ASSUME NEW j \in Jobs, Verify(j) PROVE Placed'
    <2>1. j # NoJob /\ ask[j].kind \in {"reset", "restore", "backup"} /\ at \in Steps(ask[j].kind)
      BY <1>18, AskKinds DEF TypeOK, Placed, Verify
    <2>2. QED
      BY <1>18, <2>1 DEF Verify, FailUnmoved, Goto, Fail, End
  <1>19. ASSUME NEW j \in Jobs, Move(j) PROVE Placed'
    <2>1. j # NoJob /\ ask[j].kind \in {"reset", "restore", "backup"} /\ at \in Steps(ask[j].kind)
      BY <1>19, AskKinds DEF TypeOK, Placed, Move
    <2>2. QED
      BY <1>19, <2>1 DEF Move, Goto
  <1>20. ASSUME NEW j \in Jobs, MoveFails(j) PROVE Placed'
    <2>1. j # NoJob /\ ask[j].kind \in {"reset", "restore", "backup"} /\ at \in Steps(ask[j].kind)
      BY <1>20, AskKinds DEF TypeOK, Placed, MoveFails
    <2>2. QED
      BY <1>20, <2>1 DEF MoveFails, FailUnmoved, Goto, Fail, End
  <1>21. ASSUME NEW j \in Jobs, Rewind(j) PROVE Placed'
    <2>1. j # NoJob /\ ask[j].kind \in {"reset", "restore", "backup"} /\ at \in Steps(ask[j].kind)
      BY <1>21, AskKinds DEF TypeOK, Placed, Rewind
    <2>2. QED
      BY <1>21, <2>1 DEF Rewind, Fail, End
  <1>22. ASSUME NEW j \in Jobs, StartNew(j) PROVE Placed'
    <2>1. j # NoJob /\ ask[j].kind \in {"reset", "restore", "backup"} /\ at \in Steps(ask[j].kind)
      BY <1>22, AskKinds DEF TypeOK, Placed, StartNew
    <2>2. QED
      BY <1>22, <2>1 DEF StartNew, Goto
  <1>23. ASSUME NEW j \in Jobs, StartNewFails(j) PROVE Placed'
    <2>1. j # NoJob /\ ask[j].kind \in {"reset", "restore", "backup"} /\ at \in Steps(ask[j].kind)
      BY <1>23, AskKinds DEF TypeOK, Placed, StartNewFails
    <2>2. QED
      BY <1>23, <2>1 DEF StartNewFails, Goto
  <1>24. ASSUME NEW j \in Jobs, Generated(j) PROVE Placed'
    <2>1. j # NoJob /\ ask[j].kind \in {"reset", "restore", "backup"} /\ at \in Steps(ask[j].kind)
      BY <1>24, AskKinds DEF TypeOK, Placed, Generated
    <2>2. QED
      BY <1>24, <2>1 DEF Generated, Goto
  <1>25. ASSUME NEW j \in Jobs, GiveUp(j) PROVE Placed'
    <2>1. j # NoJob /\ ask[j].kind \in {"reset", "restore", "backup"} /\ at \in Steps(ask[j].kind)
      BY <1>25, AskKinds DEF TypeOK, Placed, GiveUp
    <2>2. QED
      BY <1>25, <2>1 DEF GiveUp, Goto
  <1>26. ASSUME NEW j \in Jobs, Halt(j) PROVE Placed'
    <2>1. j # NoJob /\ ask[j].kind \in {"reset", "restore", "backup"} /\ at \in Steps(ask[j].kind)
      BY <1>26, AskKinds DEF TypeOK, Placed, Halt
    <2>2. QED
      BY <1>26, <2>1 DEF Halt, Fail, End
  <1>27. ASSUME NEW j \in Jobs, CleanUp(j) PROVE Placed'
    <2>1. j # NoJob /\ ask[j].kind \in {"reset", "restore", "backup"} /\ at \in Steps(ask[j].kind)
      BY <1>27, AskKinds DEF TypeOK, Placed, CleanUp
    <2>2. QED
      BY <1>27, <2>1 DEF CleanUp, Fail, End
  <1>28. ASSUME NEW j \in Jobs, VerifySource(j) PROVE Placed'
    <2>1. j # NoJob /\ ask[j].kind \in {"reset", "restore", "backup"} /\ at \in Steps(ask[j].kind)
      BY <1>28, AskKinds DEF TypeOK, Placed, VerifySource
    <2>2. QED
      BY <1>28, <2>1 DEF VerifySource, Goto, Fail, End
  <1>29. ASSUME NEW j \in Jobs, Extract(j) PROVE Placed'
    <2>1. j # NoJob /\ ask[j].kind \in {"reset", "restore", "backup"} /\ at \in Steps(ask[j].kind)
      BY <1>29, AskKinds DEF TypeOK, Placed, Extract
    <2>2. QED
      BY <1>29, <2>1 DEF Extract, Goto
  <1>30. ASSUME NEW j \in Jobs, Extracted(j) PROVE Placed'
    <2>1. j # NoJob /\ ask[j].kind \in {"reset", "restore", "backup"} /\ at \in Steps(ask[j].kind)
      BY <1>30, AskKinds DEF TypeOK, Placed, Extracted
    <2>2. QED
      BY <1>30, <2>1 DEF Extracted, Goto
  <1>31. ASSUME NEW j \in Jobs, ExtractFails(j) PROVE Placed'
    <2>1. j # NoJob /\ ask[j].kind \in {"reset", "restore", "backup"} /\ at \in Steps(ask[j].kind)
      BY <1>31, AskKinds DEF TypeOK, Placed, ExtractFails
    <2>2. QED
      BY <1>31, <2>1 DEF ExtractFails, Fail, End
  <1>32. ASSUME NEW j \in Jobs, Finish(j) PROVE Placed'
    <2>1. j # NoJob /\ ask[j].kind \in {"reset", "restore", "backup"} /\ at \in Steps(ask[j].kind)
      BY <1>32, AskKinds DEF TypeOK, Placed, Finish
    <2>2. QED
      BY <1>32, <2>1 DEF Finish, Fail, End
  <1>33. CASE UNCHANGED vars
    BY <1>33 DEF vars
  <1>34. QED
    BY <1>1, <1>2, <1>3, <1>4, <1>4r, <1>5, <1>6, <1>7, <1>8, <1>9, <1>10, <1>11, <1>12, <1>13, <1>14, <1>15, <1>16,
       <1>17, <1>18, <1>19, <1>20, <1>21, <1>22, <1>23, <1>24, <1>25, <1>26, <1>27, <1>28, <1>29, <1>30, <1>31, <1>32, <1>33
    DEF Next, Work, Archive, StopFirst, ResetStep, RestoreStep

\* Every step keeps the types.
LEMMA TypesStep == TypeOK /\ [Next]_vars => TypeOK'
  BY ZipStep, FilesStep, OthersStep, RowsStep, PlacedStep DEF TypeOK, FilesTyped, OthersTyped, RowsTyped

\* No action brings a game server that the panel knows of next to a world that is being changed.
LEMMA QuietStep ==
    ASSUME IInv, [Next]_vars
    PROVE  QuietWorlds'
  <1> USE DEF IInv, TypeOK, Placed, QuietWorlds, Changing, Restarts, IsReset, IsRestore, Starting, NotStarting, Stopping, Lose
  <1>1. CASE Save
    BY <1>1 DEF Save
  <1>2. CASE ServerExit
    BY <1>2 DEF ServerExit
  <1>3. CASE Start
    BY <1>3 DEF Start
  <1>4. CASE Stop
    BY <1>4 DEF Stop
  <1>4r. CASE RowCleared
    BY <1>4r DEF RowCleared
  <1>5. CASE Crash
    BY <1>5 DEF Crash
  <1>6. ASSUME NEW w \in Worlds, EditSetting(w) PROVE QuietWorlds'
    BY <1>6 DEF EditSetting
  <1>7. ASSUME NEW k \in Jobs, DeleteBackup(k) PROVE QuietWorlds'
    BY <1>7 DEF DeleteBackup
  <1>8. ASSUME NEW j \in Jobs, NEW a \in Ask, Submit(j, a) PROVE QuietWorlds'
    BY <1>8 DEF Submit
  <1>9. ASSUME NEW j \in Jobs, Begin(j) PROVE QuietWorlds'
    <2>1. ask[j].kind \in {"reset", "restore", "backup"} /\ j # NoJob
      BY AskKinds
    <2>2. QED
      BY <1>9, <2>1 DEF Begin, First, IsReset, IsRestore
  <1>10. ASSUME NEW j \in Jobs, OpenArchive(j) PROVE QuietWorlds'
    BY <1>10 DEF OpenArchive, Goto
  <1>11. ASSUME NEW j \in Jobs, CloseArchive(j) PROVE QuietWorlds'
    BY <1>11 DEF CloseArchive, Goto
  <1>12. ASSUME NEW j \in Jobs, ArchiveFails(j) PROVE QuietWorlds'
    BY <1>12 DEF ArchiveFails, FailArchive, FailUnmoved, Goto, Fail, End
  <1>13. ASSUME NEW j \in Jobs, Upload(j) PROVE QuietWorlds'
    BY <1>13 DEF Upload, Fail, End
  <1>14. ASSUME NEW j \in Jobs, StopServer(j) PROVE QuietWorlds'
    BY <1>14 DEF StopServer, Goto
  <1>15. ASSUME NEW j \in Jobs, StopServerFails(j) PROVE QuietWorlds'
    BY <1>15 DEF StopServerFails, Fail, End
  <1>16. ASSUME NEW j \in Jobs, Check(j) PROVE QuietWorlds'
    <2>1. IsReset(j) /\ ~IsRestore(j) /\ World(j) \in Worlds /\ j # NoJob
      BY <1>16, ResetAt DEF Check
    <2>2. QED
      BY <1>16, <2>1 DEF Check, Goto, Fail, End
  <1>17. ASSUME NEW j \in Jobs, Prepare(j) PROVE QuietWorlds'
    <2>1. IsReset(j) /\ ~IsRestore(j) /\ World(j) \in Worlds /\ j # NoJob
      BY <1>17, ResetAt DEF Prepare
    <2>2. QED
      BY <1>17, <2>1 DEF Prepare, Goto, Fail, End
  <1>18. ASSUME NEW j \in Jobs, Verify(j) PROVE QuietWorlds'
    <2>1. IsReset(j) /\ ~IsRestore(j) /\ World(j) \in Worlds /\ j # NoJob
      BY <1>18, ResetAt DEF Verify
    <2>2. QED
      BY <1>18, <2>1 DEF Verify, FailUnmoved, Goto, Fail, End
  <1>19. ASSUME NEW j \in Jobs, Move(j) PROVE QuietWorlds'
    <2>1. IsReset(j) /\ ~IsRestore(j) /\ World(j) \in Worlds /\ j # NoJob
      BY <1>19, ResetAt DEF Move
    <2>2. QED
      BY <1>19, <2>1 DEF Move, Goto
  <1>20. ASSUME NEW j \in Jobs, MoveFails(j) PROVE QuietWorlds'
    <2>1. IsReset(j) /\ ~IsRestore(j) /\ World(j) \in Worlds /\ j # NoJob
      BY <1>20, ResetAt DEF MoveFails
    <2>2. QED
      BY <1>20, <2>1 DEF MoveFails, FailUnmoved, Goto, Fail, End
  <1>21. ASSUME NEW j \in Jobs, Rewind(j) PROVE QuietWorlds'
    <2>1. IsReset(j) /\ ~IsRestore(j) /\ World(j) \in Worlds /\ j # NoJob
      BY <1>21, ResetAt DEF Rewind
    <2>2. QED
      BY <1>21, <2>1 DEF Rewind, Fail, End
  <1>22. ASSUME NEW j \in Jobs, StartNew(j) PROVE QuietWorlds'
    <2>1. IsReset(j) /\ ~IsRestore(j) /\ World(j) \in Worlds /\ j # NoJob
      BY <1>22, ResetAt DEF StartNew
    <2>2. QED
      BY <1>22, <2>1 DEF StartNew, Goto
  <1>23. ASSUME NEW j \in Jobs, StartNewFails(j) PROVE QuietWorlds'
    <2>1. IsReset(j) /\ ~IsRestore(j) /\ World(j) \in Worlds /\ j # NoJob
      BY <1>23, ResetAt DEF StartNewFails
    <2>2. QED
      BY <1>23, <2>1 DEF StartNewFails, Goto
  <1>24. ASSUME NEW j \in Jobs, Generated(j) PROVE QuietWorlds'
    <2>1. IsReset(j) /\ ~IsRestore(j) /\ World(j) \in Worlds /\ j # NoJob
      BY <1>24, ResetAt DEF Generated
    <2>2. QED
      BY <1>24, <2>1 DEF Generated, Goto
  <1>25. ASSUME NEW j \in Jobs, GiveUp(j) PROVE QuietWorlds'
    <2>1. IsReset(j) /\ ~IsRestore(j) /\ World(j) \in Worlds /\ j # NoJob
      BY <1>25, ResetAt DEF GiveUp
    <2>2. QED
      BY <1>25, <2>1 DEF GiveUp, Goto
  <1>26. ASSUME NEW j \in Jobs, Halt(j) PROVE QuietWorlds'
    <2>1. IsReset(j) /\ ~IsRestore(j) /\ World(j) \in Worlds /\ j # NoJob
      BY <1>26, ResetAt DEF Halt
    <2>2. QED
      BY <1>26, <2>1 DEF Halt, Fail, End
  <1>27. ASSUME NEW j \in Jobs, CleanUp(j) PROVE QuietWorlds'
    <2>1. IsReset(j) /\ ~IsRestore(j) /\ World(j) \in Worlds /\ j # NoJob
      BY <1>27, ResetAt DEF CleanUp
    <2>2. QED
      BY <1>27, <2>1 DEF CleanUp, Fail, End
  <1>28. ASSUME NEW j \in Jobs, VerifySource(j) PROVE QuietWorlds'
    <2>1. IsRestore(j) /\ ~IsReset(j) /\ Source(j) \in Zip /\ j # NoJob
      BY <1>28, RestoreAt DEF VerifySource
    <2>2. QED
      BY <1>28, <2>1 DEF VerifySource, Goto, Fail, End
  <1>29. ASSUME NEW j \in Jobs, Extract(j) PROVE QuietWorlds'
    <2>1. IsRestore(j) /\ ~IsReset(j) /\ Source(j) \in Zip /\ j # NoJob
      BY <1>29, RestoreAt DEF Extract
    <2>2. QED
      BY <1>29, <2>1 DEF Extract, Goto
  <1>30. ASSUME NEW j \in Jobs, Extracted(j) PROVE QuietWorlds'
    <2>1. IsRestore(j) /\ ~IsReset(j) /\ Source(j) \in Zip /\ j # NoJob
      BY <1>30, RestoreAt DEF Extracted
    <2>2. QED
      BY <1>30, <2>1 DEF Extracted, Goto
  <1>31. ASSUME NEW j \in Jobs, ExtractFails(j) PROVE QuietWorlds'
    <2>1. IsRestore(j) /\ ~IsReset(j) /\ Source(j) \in Zip /\ j # NoJob
      BY <1>31, RestoreAt DEF ExtractFails
    <2>2. QED
      BY <1>31, <2>1 DEF ExtractFails, Fail, End
  <1>32. ASSUME NEW j \in Jobs, Finish(j) PROVE QuietWorlds'
    <2>1. IsRestore(j) /\ ~IsReset(j) /\ Source(j) \in Zip /\ j # NoJob
      BY <1>32, RestoreAt DEF Finish
    <2>2. QED
      BY <1>32, <2>1 DEF Finish, Fail, End
  <1>33. CASE UNCHANGED vars
    BY <1>33 DEF vars
  <1>34. QED
    BY <1>1, <1>2, <1>3, <1>4, <1>4r, <1>5, <1>6, <1>7, <1>8, <1>9, <1>10, <1>11, <1>12, <1>13, <1>14, <1>15, <1>16,
       <1>17, <1>18, <1>19, <1>20, <1>21, <1>22, <1>23, <1>24, <1>25, <1>26, <1>27, <1>28, <1>29, <1>30, <1>31, <1>32, <1>33
    DEF Next, Work, Archive, StopFirst, ResetStep, RestoreStep

\* A reset starts a server again only after it stopped one.
LEMMA RestartsStep ==
    ASSUME IInv, [Next]_vars
    PROVE  Restarts'
  <1> USE DEF IInv, TypeOK, Placed, Restarts, IsReset, IsRestore
  <1>1. CASE Save
    BY <1>1 DEF Save
  <1>2. CASE ServerExit
    BY <1>2 DEF ServerExit
  <1>3. CASE Start
    BY <1>3 DEF Start
  <1>4. CASE Stop
    BY <1>4 DEF Stop
  <1>4r. CASE RowCleared
    BY <1>4r DEF RowCleared
  <1>5. CASE Crash
    BY <1>5 DEF Crash
  <1>6. ASSUME NEW w \in Worlds, EditSetting(w) PROVE Restarts'
    BY <1>6 DEF EditSetting
  <1>7. ASSUME NEW k \in Jobs, DeleteBackup(k) PROVE Restarts'
    BY <1>7 DEF DeleteBackup
  <1>8. ASSUME NEW j \in Jobs, NEW a \in Ask, Submit(j, a) PROVE Restarts'
    BY <1>8 DEF Submit
  <1>9. ASSUME NEW j \in Jobs, Begin(j) PROVE Restarts'
    <2>1. ask[j].kind \in {"reset", "restore", "backup"} /\ j # NoJob
      BY AskKinds
    <2>2. QED
      BY <1>9, <2>1 DEF Begin, First, IsReset, IsRestore
  <1>10. ASSUME NEW j \in Jobs, OpenArchive(j) PROVE Restarts'
    BY <1>10 DEF OpenArchive, Goto
  <1>11. ASSUME NEW j \in Jobs, CloseArchive(j) PROVE Restarts'
    BY <1>11 DEF CloseArchive, Goto
  <1>12. ASSUME NEW j \in Jobs, ArchiveFails(j) PROVE Restarts'
    BY <1>12 DEF ArchiveFails, FailArchive, FailUnmoved, Goto, Fail, End
  <1>13. ASSUME NEW j \in Jobs, Upload(j) PROVE Restarts'
    BY <1>13 DEF Upload, Fail, End
  <1>14. ASSUME NEW j \in Jobs, StopServer(j) PROVE Restarts'
    BY <1>14 DEF StopServer, Goto
  <1>15. ASSUME NEW j \in Jobs, StopServerFails(j) PROVE Restarts'
    BY <1>15 DEF StopServerFails, Fail, End
  <1>16. ASSUME NEW j \in Jobs, Check(j) PROVE Restarts'
    <2>1. IsReset(j) /\ ~IsRestore(j) /\ World(j) \in Worlds /\ j # NoJob
      BY <1>16, ResetAt DEF Check
    <2>2. QED
      BY <1>16, <2>1 DEF Check, Goto, Fail, End
  <1>17. ASSUME NEW j \in Jobs, Prepare(j) PROVE Restarts'
    <2>1. IsReset(j) /\ ~IsRestore(j) /\ World(j) \in Worlds /\ j # NoJob
      BY <1>17, ResetAt DEF Prepare
    <2>2. QED
      BY <1>17, <2>1 DEF Prepare, Goto, Fail, End
  <1>18. ASSUME NEW j \in Jobs, Verify(j) PROVE Restarts'
    <2>1. IsReset(j) /\ ~IsRestore(j) /\ World(j) \in Worlds /\ j # NoJob
      BY <1>18, ResetAt DEF Verify
    <2>2. QED
      BY <1>18, <2>1 DEF Verify, FailUnmoved, Goto, Fail, End
  <1>19. ASSUME NEW j \in Jobs, Move(j) PROVE Restarts'
    <2>1. IsReset(j) /\ ~IsRestore(j) /\ World(j) \in Worlds /\ j # NoJob
      BY <1>19, ResetAt DEF Move
    <2>2. QED
      BY <1>19, <2>1 DEF Move, Goto
  <1>20. ASSUME NEW j \in Jobs, MoveFails(j) PROVE Restarts'
    <2>1. IsReset(j) /\ ~IsRestore(j) /\ World(j) \in Worlds /\ j # NoJob
      BY <1>20, ResetAt DEF MoveFails
    <2>2. QED
      BY <1>20, <2>1 DEF MoveFails, FailUnmoved, Goto, Fail, End
  <1>21. ASSUME NEW j \in Jobs, Rewind(j) PROVE Restarts'
    <2>1. IsReset(j) /\ ~IsRestore(j) /\ World(j) \in Worlds /\ j # NoJob
      BY <1>21, ResetAt DEF Rewind
    <2>2. QED
      BY <1>21, <2>1 DEF Rewind, Fail, End
  <1>22. ASSUME NEW j \in Jobs, StartNew(j) PROVE Restarts'
    <2>1. IsReset(j) /\ ~IsRestore(j) /\ World(j) \in Worlds /\ j # NoJob
      BY <1>22, ResetAt DEF StartNew
    <2>2. QED
      BY <1>22, <2>1 DEF StartNew, Goto
  <1>23. ASSUME NEW j \in Jobs, StartNewFails(j) PROVE Restarts'
    <2>1. IsReset(j) /\ ~IsRestore(j) /\ World(j) \in Worlds /\ j # NoJob
      BY <1>23, ResetAt DEF StartNewFails
    <2>2. QED
      BY <1>23, <2>1 DEF StartNewFails, Goto
  <1>24. ASSUME NEW j \in Jobs, Generated(j) PROVE Restarts'
    <2>1. IsReset(j) /\ ~IsRestore(j) /\ World(j) \in Worlds /\ j # NoJob
      BY <1>24, ResetAt DEF Generated
    <2>2. QED
      BY <1>24, <2>1 DEF Generated, Goto
  <1>25. ASSUME NEW j \in Jobs, GiveUp(j) PROVE Restarts'
    <2>1. IsReset(j) /\ ~IsRestore(j) /\ World(j) \in Worlds /\ j # NoJob
      BY <1>25, ResetAt DEF GiveUp
    <2>2. QED
      BY <1>25, <2>1 DEF GiveUp, Goto
  <1>26. ASSUME NEW j \in Jobs, Halt(j) PROVE Restarts'
    <2>1. IsReset(j) /\ ~IsRestore(j) /\ World(j) \in Worlds /\ j # NoJob
      BY <1>26, ResetAt DEF Halt
    <2>2. QED
      BY <1>26, <2>1 DEF Halt, Fail, End
  <1>27. ASSUME NEW j \in Jobs, CleanUp(j) PROVE Restarts'
    <2>1. IsReset(j) /\ ~IsRestore(j) /\ World(j) \in Worlds /\ j # NoJob
      BY <1>27, ResetAt DEF CleanUp
    <2>2. QED
      BY <1>27, <2>1 DEF CleanUp, Fail, End
  <1>28. ASSUME NEW j \in Jobs, VerifySource(j) PROVE Restarts'
    <2>1. IsRestore(j) /\ ~IsReset(j) /\ Source(j) \in Zip /\ j # NoJob
      BY <1>28, RestoreAt DEF VerifySource
    <2>2. QED
      BY <1>28, <2>1 DEF VerifySource, Goto, Fail, End
  <1>29. ASSUME NEW j \in Jobs, Extract(j) PROVE Restarts'
    <2>1. IsRestore(j) /\ ~IsReset(j) /\ Source(j) \in Zip /\ j # NoJob
      BY <1>29, RestoreAt DEF Extract
    <2>2. QED
      BY <1>29, <2>1 DEF Extract, Goto
  <1>30. ASSUME NEW j \in Jobs, Extracted(j) PROVE Restarts'
    <2>1. IsRestore(j) /\ ~IsReset(j) /\ Source(j) \in Zip /\ j # NoJob
      BY <1>30, RestoreAt DEF Extracted
    <2>2. QED
      BY <1>30, <2>1 DEF Extracted, Goto
  <1>31. ASSUME NEW j \in Jobs, ExtractFails(j) PROVE Restarts'
    <2>1. IsRestore(j) /\ ~IsReset(j) /\ Source(j) \in Zip /\ j # NoJob
      BY <1>31, RestoreAt DEF ExtractFails
    <2>2. QED
      BY <1>31, <2>1 DEF ExtractFails, Fail, End
  <1>32. ASSUME NEW j \in Jobs, Finish(j) PROVE Restarts'
    <2>1. IsRestore(j) /\ ~IsReset(j) /\ Source(j) \in Zip /\ j # NoJob
      BY <1>32, RestoreAt DEF Finish
    <2>2. QED
      BY <1>32, <2>1 DEF Finish, Fail, End
  <1>33. CASE UNCHANGED vars
    BY <1>33 DEF vars
  <1>34. QED
    BY <1>1, <1>2, <1>3, <1>4, <1>4r, <1>5, <1>6, <1>7, <1>8, <1>9, <1>10, <1>11, <1>12, <1>13, <1>14, <1>15, <1>16,
       <1>17, <1>18, <1>19, <1>20, <1>21, <1>22, <1>23, <1>24, <1>25, <1>26, <1>27, <1>28, <1>29, <1>30, <1>31, <1>32, <1>33
    DEF Next, Work, Archive, StopFirst, ResetStep, RestoreStep

\* A job changes worlds only after its archive.
LEMMA UntouchedStep ==
    ASSUME IInv, [Next]_vars, NEW i \in Jobs
    PROVE  Untouched(i)'
  <1> USE DEF IInv, TypeOK, Placed, Untouched, Past, IsReset, IsRestore
  <1>1. CASE Save
    BY <1>1 DEF Save
  <1>2. CASE ServerExit
    BY <1>2 DEF ServerExit
  <1>3. CASE Start
    BY <1>3 DEF Start
  <1>4. CASE Stop
    BY <1>4 DEF Stop
  <1>4r. CASE RowCleared
    BY <1>4r DEF RowCleared
  <1>5. CASE Crash
    BY <1>5 DEF Crash
  <1>6. ASSUME NEW w \in Worlds, EditSetting(w) PROVE Untouched(i)'
    BY <1>6 DEF EditSetting
  <1>7. ASSUME NEW k \in Jobs, DeleteBackup(k) PROVE Untouched(i)'
    BY <1>7 DEF DeleteBackup
  <1>8. ASSUME NEW j \in Jobs, NEW a \in Ask, Submit(j, a) PROVE Untouched(i)'
    BY <1>8 DEF Submit
  <1>9. ASSUME NEW j \in Jobs, Begin(j) PROVE Untouched(i)'
    <2>1. ask[j].kind \in {"reset", "restore", "backup"} /\ j # NoJob
      BY AskKinds
    <2>2. QED
      BY <1>9, <2>1 DEF Begin, First, IsReset, IsRestore
  <1>10. ASSUME NEW j \in Jobs, OpenArchive(j) PROVE Untouched(i)'
    BY <1>10 DEF OpenArchive, Goto
  <1>11. ASSUME NEW j \in Jobs, CloseArchive(j) PROVE Untouched(i)'
    BY <1>11 DEF CloseArchive, Goto
  <1>12. ASSUME NEW j \in Jobs, ArchiveFails(j) PROVE Untouched(i)'
    BY <1>12 DEF ArchiveFails, FailArchive, FailUnmoved, Goto, Fail, End
  <1>13. ASSUME NEW j \in Jobs, Upload(j) PROVE Untouched(i)'
    BY <1>13 DEF Upload, Fail, End
  <1>14. ASSUME NEW j \in Jobs, StopServer(j) PROVE Untouched(i)'
    BY <1>14 DEF StopServer, Goto
  <1>15. ASSUME NEW j \in Jobs, StopServerFails(j) PROVE Untouched(i)'
    BY <1>15 DEF StopServerFails, Fail, End
  <1>16. ASSUME NEW j \in Jobs, Check(j) PROVE Untouched(i)'
    <2>1. IsReset(j) /\ ~IsRestore(j) /\ World(j) \in Worlds /\ j # NoJob
      BY <1>16, ResetAt DEF Check
    <2>2. QED
      BY <1>16, <2>1 DEF Check, Goto, Fail, End
  <1>17. ASSUME NEW j \in Jobs, Prepare(j) PROVE Untouched(i)'
    <2>1. IsReset(j) /\ ~IsRestore(j) /\ World(j) \in Worlds /\ j # NoJob
      BY <1>17, ResetAt DEF Prepare
    <2>2. QED
      BY <1>17, <2>1 DEF Prepare, Goto, Fail, End
  <1>18. ASSUME NEW j \in Jobs, Verify(j) PROVE Untouched(i)'
    <2>1. IsReset(j) /\ ~IsRestore(j) /\ World(j) \in Worlds /\ j # NoJob
      BY <1>18, ResetAt DEF Verify
    <2>2. QED
      BY <1>18, <2>1 DEF Verify, FailUnmoved, Goto, Fail, End
  <1>19. ASSUME NEW j \in Jobs, Move(j) PROVE Untouched(i)'
    <2>1. IsReset(j) /\ ~IsRestore(j) /\ World(j) \in Worlds /\ j # NoJob
      BY <1>19, ResetAt DEF Move
    <2>2. QED
      BY <1>19, <2>1 DEF Move, Goto
  <1>20. ASSUME NEW j \in Jobs, MoveFails(j) PROVE Untouched(i)'
    <2>1. IsReset(j) /\ ~IsRestore(j) /\ World(j) \in Worlds /\ j # NoJob
      BY <1>20, ResetAt DEF MoveFails
    <2>2. QED
      BY <1>20, <2>1 DEF MoveFails, FailUnmoved, Goto, Fail, End
  <1>21. ASSUME NEW j \in Jobs, Rewind(j) PROVE Untouched(i)'
    <2>1. IsReset(j) /\ ~IsRestore(j) /\ World(j) \in Worlds /\ j # NoJob
      BY <1>21, ResetAt DEF Rewind
    <2>2. QED
      BY <1>21, <2>1 DEF Rewind, Fail, End
  <1>22. ASSUME NEW j \in Jobs, StartNew(j) PROVE Untouched(i)'
    <2>1. IsReset(j) /\ ~IsRestore(j) /\ World(j) \in Worlds /\ j # NoJob
      BY <1>22, ResetAt DEF StartNew
    <2>2. QED
      BY <1>22, <2>1 DEF StartNew, Goto
  <1>23. ASSUME NEW j \in Jobs, StartNewFails(j) PROVE Untouched(i)'
    <2>1. IsReset(j) /\ ~IsRestore(j) /\ World(j) \in Worlds /\ j # NoJob
      BY <1>23, ResetAt DEF StartNewFails
    <2>2. QED
      BY <1>23, <2>1 DEF StartNewFails, Goto
  <1>24. ASSUME NEW j \in Jobs, Generated(j) PROVE Untouched(i)'
    <2>1. IsReset(j) /\ ~IsRestore(j) /\ World(j) \in Worlds /\ j # NoJob
      BY <1>24, ResetAt DEF Generated
    <2>2. QED
      BY <1>24, <2>1 DEF Generated, Goto
  <1>25. ASSUME NEW j \in Jobs, GiveUp(j) PROVE Untouched(i)'
    <2>1. IsReset(j) /\ ~IsRestore(j) /\ World(j) \in Worlds /\ j # NoJob
      BY <1>25, ResetAt DEF GiveUp
    <2>2. QED
      BY <1>25, <2>1 DEF GiveUp, Goto
  <1>26. ASSUME NEW j \in Jobs, Halt(j) PROVE Untouched(i)'
    <2>1. IsReset(j) /\ ~IsRestore(j) /\ World(j) \in Worlds /\ j # NoJob
      BY <1>26, ResetAt DEF Halt
    <2>2. QED
      BY <1>26, <2>1 DEF Halt, Fail, End
  <1>27. ASSUME NEW j \in Jobs, CleanUp(j) PROVE Untouched(i)'
    <2>1. IsReset(j) /\ ~IsRestore(j) /\ World(j) \in Worlds /\ j # NoJob
      BY <1>27, ResetAt DEF CleanUp
    <2>2. QED
      BY <1>27, <2>1 DEF CleanUp, Fail, End
  <1>28. ASSUME NEW j \in Jobs, VerifySource(j) PROVE Untouched(i)'
    <2>1. IsRestore(j) /\ ~IsReset(j) /\ Source(j) \in Zip /\ j # NoJob
      BY <1>28, RestoreAt DEF VerifySource
    <2>2. QED
      BY <1>28, <2>1 DEF VerifySource, Goto, Fail, End
  <1>29. ASSUME NEW j \in Jobs, Extract(j) PROVE Untouched(i)'
    <2>1. IsRestore(j) /\ ~IsReset(j) /\ Source(j) \in Zip /\ j # NoJob
      BY <1>29, RestoreAt DEF Extract
    <2>2. QED
      BY <1>29, <2>1 DEF Extract, Goto
  <1>30. ASSUME NEW j \in Jobs, Extracted(j) PROVE Untouched(i)'
    <2>1. IsRestore(j) /\ ~IsReset(j) /\ Source(j) \in Zip /\ j # NoJob
      BY <1>30, RestoreAt DEF Extracted
    <2>2. QED
      BY <1>30, <2>1 DEF Extracted, Goto
  <1>31. ASSUME NEW j \in Jobs, ExtractFails(j) PROVE Untouched(i)'
    <2>1. IsRestore(j) /\ ~IsReset(j) /\ Source(j) \in Zip /\ j # NoJob
      BY <1>31, RestoreAt DEF ExtractFails
    <2>2. QED
      BY <1>31, <2>1 DEF ExtractFails, Fail, End
  <1>32. ASSUME NEW j \in Jobs, Finish(j) PROVE Untouched(i)'
    <2>1. IsRestore(j) /\ ~IsReset(j) /\ Source(j) \in Zip /\ j # NoJob
      BY <1>32, RestoreAt DEF Finish
    <2>2. QED
      BY <1>32, <2>1 DEF Finish, Fail, End
  <1>33. CASE UNCHANGED vars
    BY <1>33 DEF vars
  <1>34. QED
    BY <1>1, <1>2, <1>3, <1>4, <1>4r, <1>5, <1>6, <1>7, <1>8, <1>9, <1>10, <1>11, <1>12, <1>13, <1>14, <1>15, <1>16,
       <1>17, <1>18, <1>19, <1>20, <1>21, <1>22, <1>23, <1>24, <1>25, <1>26, <1>27, <1>28, <1>29, <1>30, <1>31, <1>32, <1>33
    DEF Next, Work, Archive, StopFirst, ResetStep, RestoreStep

\* The archive of a job is the disk until that job changes it, where no lost server wrote.
LEMMA ExactStep ==
    ASSUME IInv, [Next]_vars, NEW i \in Jobs
    PROVE  Exact(i)'
  <1> USE DEF IInv, TypeOK, Placed, Exact, Same, Changing, IsReset, IsRestore
  <1>a. job = i /\ at \in {"verify", "move", "extract"} => Changing(i)
    BY ResetAt, RestoreAt DEF IInv, Changing
  <1>b. job = i /\ Changing(i) => server = NoWorld
    BY i # NoJob DEF IInv, QuietWorlds
  <1>c. zip[i] \in Zip /\ disk \in [Worlds -> Content]
    BY DEF IInv, TypeOK
  <1>1. CASE Save
    <2>1. PICK w \in Worlds :
             /\ disk' = [disk EXCEPT ![w] = {version + 1}]
             /\ \/ w = server /\ UNCHANGED torn
                \/ w \in lost /\ torn' = IF at \in Relying THEN torn \cup {w} ELSE torn
      BY <1>1 DEF Save
    <2>2. UNCHANGED <<zip, row, ask, job, at, was>>
      BY <1>1 DEF Save
    <2>3. job = i /\ Changing(i) /\ at \in Relying => w \in torn' /\ torn \subseteq torn'
      <3>1. NoWorld \notin Worlds
        BY NoWorldAssumption
      <3>2. QED
        BY <1>b, <2>1, <3>1
    <2>4. job = i /\ Changing(i) /\ at \in Relying /\ Same(i) => Same(i)'
      BY <1>c, <2>1, <2>2, <2>3 DEF Same
    <2>5. at = "archiving" \/ at \in {"verify", "move", "extract"} => at \in Relying
      BY DEF Relying
    <2>6. (Changing(i) <=> Changing(i)') /\ (IInv => Exact(i))
      BY <2>2 DEF Changing, IsReset, IsRestore, IInv
    <2>7. QED
      BY <1>a, <2>2, <2>4, <2>5, <2>6 DEF Exact
  <1>2. CASE ServerExit
    BY <1>2 DEF ServerExit
  <1>3. CASE Start
    BY <1>3 DEF Start
  <1>4. CASE Stop
    BY <1>4 DEF Stop
  <1>4r. CASE RowCleared
    BY <1>4r DEF RowCleared
  <1>5. CASE Crash
    BY <1>5 DEF Crash
  <1>6. ASSUME NEW w \in Worlds, EditSetting(w) PROVE Exact(i)'
    BY <1>6 DEF EditSetting
  <1>7. ASSUME NEW k \in Jobs, DeleteBackup(k) PROVE Exact(i)'
    <2>1. zip'[i].worlds = zip[i].worlds /\ zip'[i].state \in {zip[i].state, "deleted"}
      BY <1>7, <1>c DEF DeleteBackup, IInv, TypeOK
    <2>2. QED
      BY <1>7, <2>1 DEF DeleteBackup, Exact, Changing, IsReset, IsRestore
  <1>8. ASSUME NEW j \in Jobs, NEW a \in Ask, Submit(j, a) PROVE Exact(i)'
    BY <1>8 DEF Submit
  <1>9. ASSUME NEW j \in Jobs, Begin(j) PROVE Exact(i)'
    <2>1. ask[j].kind \in {"reset", "restore", "backup"} /\ j # NoJob
      BY AskKinds
    <2>2. QED
      BY <1>9, <2>1 DEF Begin, First, IsReset, IsRestore
  <1>10. ASSUME NEW j \in Jobs, OpenArchive(j) PROVE Exact(i)'
    <2>1. zip'[j].worlds = disk
      BY <1>10 DEF OpenArchive, IInv, TypeOK
    <2>2. QED
      BY <1>10, <2>1 DEF OpenArchive, Goto, Exact, Changing, IsReset, IsRestore
  <1>11. ASSUME NEW j \in Jobs, CloseArchive(j) PROVE Exact(i)'
    <2>1. CASE i # j
      BY <1>11, <2>1 DEF CloseArchive, Goto, Exact
    <2>2. CASE i = j /\ ~(IsReset(j) \/ IsRestore(j))
      BY <1>11, <2>2 DEF CloseArchive, Goto, Exact, Changing
    <2>3. CASE i = j /\ (IsReset(j) \/ IsRestore(j))
      <3>1. \A w \in Worlds \ torn : zip[i].worlds[w] = disk[w]
        BY <1>11, <2>3 DEF CloseArchive, IInv, Exact, Changing, Same
      <3>2. /\ zip'[i].worlds = [w \in Worlds |-> zip[i].worlds[w] \cup disk[w]]
            /\ zip'[i].state = "whole"
        BY <1>11, <2>3 DEF CloseArchive, IInv, TypeOK
      <3>3. \A w \in Worlds \ torn : zip'[i].worlds[w] = disk[w]
        BY <3>1, <3>2
      <3>4. disk' = disk /\ torn' = torn
        BY <1>11 DEF CloseArchive, Goto
      <3>5. QED
        BY <3>2, <3>3, <3>4 DEF Exact, Same
    <2>4. QED
      BY <2>1, <2>2, <2>3
  <1>12. ASSUME NEW j \in Jobs, ArchiveFails(j) PROVE Exact(i)'
    <2>1. job = i => at' \notin {"archiving", "verify", "move", "extract"}
      BY <1>12 DEF ArchiveFails, FailArchive, FailUnmoved, Goto, Fail, End
    <2>2. job' \in {job, NoJob}
      BY <1>12 DEF ArchiveFails, FailArchive, FailUnmoved, Goto, Fail, End
    <2>3. QED
      BY <2>1, <2>2, i # NoJob DEF Exact
  <1>13. ASSUME NEW j \in Jobs, Upload(j) PROVE Exact(i)'
    BY <1>13 DEF Upload, Fail, End
  <1>14. ASSUME NEW j \in Jobs, StopServer(j) PROVE Exact(i)'
    BY <1>14 DEF StopServer, Goto
  <1>15. ASSUME NEW j \in Jobs, StopServerFails(j) PROVE Exact(i)'
    BY <1>15 DEF StopServerFails, Fail, End
  <1>16. ASSUME NEW j \in Jobs, Check(j) PROVE Exact(i)'
    <2>1. IsReset(j) /\ ~IsRestore(j) /\ World(j) \in Worlds /\ j # NoJob
      BY <1>16, ResetAt DEF Check
    <2>2. QED
      BY <1>16, <2>1 DEF Check, Goto, Fail, End
  <1>17. ASSUME NEW j \in Jobs, Prepare(j) PROVE Exact(i)'
    <2>1. IsReset(j) /\ ~IsRestore(j) /\ World(j) \in Worlds /\ j # NoJob
      BY <1>17, ResetAt DEF Prepare
    <2>2. QED
      BY <1>17, <2>1 DEF Prepare, Goto, Fail, End
  <1>18. ASSUME NEW j \in Jobs, Verify(j) PROVE Exact(i)'
    <2>1. IsReset(j) /\ ~IsRestore(j) /\ World(j) \in Worlds /\ j # NoJob
      BY <1>18, ResetAt DEF Verify
    <2>2. QED
      BY <1>18, <2>1 DEF Verify, FailUnmoved, Goto, Fail, End
  <1>19. ASSUME NEW j \in Jobs, Move(j) PROVE Exact(i)'
    <2>1. IsReset(j) /\ ~IsRestore(j) /\ World(j) \in Worlds /\ j # NoJob
      BY <1>19, ResetAt DEF Move
    <2>2. QED
      BY <1>19, <2>1 DEF Move, Goto
  <1>20. ASSUME NEW j \in Jobs, MoveFails(j) PROVE Exact(i)'
    <2>1. IsReset(j) /\ ~IsRestore(j) /\ World(j) \in Worlds /\ j # NoJob
      BY <1>20, ResetAt DEF MoveFails
    <2>2. QED
      BY <1>20, <2>1 DEF MoveFails, FailUnmoved, Goto, Fail, End
  <1>21. ASSUME NEW j \in Jobs, Rewind(j) PROVE Exact(i)'
    <2>1. IsReset(j) /\ ~IsRestore(j) /\ World(j) \in Worlds /\ j # NoJob
      BY <1>21, ResetAt DEF Rewind
    <2>2. QED
      BY <1>21, <2>1 DEF Rewind, Fail, End
  <1>22. ASSUME NEW j \in Jobs, StartNew(j) PROVE Exact(i)'
    <2>1. IsReset(j) /\ ~IsRestore(j) /\ World(j) \in Worlds /\ j # NoJob
      BY <1>22, ResetAt DEF StartNew
    <2>2. QED
      BY <1>22, <2>1 DEF StartNew, Goto
  <1>23. ASSUME NEW j \in Jobs, StartNewFails(j) PROVE Exact(i)'
    <2>1. IsReset(j) /\ ~IsRestore(j) /\ World(j) \in Worlds /\ j # NoJob
      BY <1>23, ResetAt DEF StartNewFails
    <2>2. QED
      BY <1>23, <2>1 DEF StartNewFails, Goto
  <1>24. ASSUME NEW j \in Jobs, Generated(j) PROVE Exact(i)'
    <2>1. IsReset(j) /\ ~IsRestore(j) /\ World(j) \in Worlds /\ j # NoJob
      BY <1>24, ResetAt DEF Generated
    <2>2. QED
      BY <1>24, <2>1 DEF Generated, Goto
  <1>25. ASSUME NEW j \in Jobs, GiveUp(j) PROVE Exact(i)'
    <2>1. IsReset(j) /\ ~IsRestore(j) /\ World(j) \in Worlds /\ j # NoJob
      BY <1>25, ResetAt DEF GiveUp
    <2>2. QED
      BY <1>25, <2>1 DEF GiveUp, Goto
  <1>26. ASSUME NEW j \in Jobs, Halt(j) PROVE Exact(i)'
    <2>1. IsReset(j) /\ ~IsRestore(j) /\ World(j) \in Worlds /\ j # NoJob
      BY <1>26, ResetAt DEF Halt
    <2>2. QED
      BY <1>26, <2>1 DEF Halt, Fail, End
  <1>27. ASSUME NEW j \in Jobs, CleanUp(j) PROVE Exact(i)'
    <2>1. IsReset(j) /\ ~IsRestore(j) /\ World(j) \in Worlds /\ j # NoJob
      BY <1>27, ResetAt DEF CleanUp
    <2>2. QED
      BY <1>27, <2>1 DEF CleanUp, Fail, End
  <1>28. ASSUME NEW j \in Jobs, VerifySource(j) PROVE Exact(i)'
    <2>1. IsRestore(j) /\ ~IsReset(j) /\ Source(j) \in Zip /\ j # NoJob
      BY <1>28, RestoreAt DEF VerifySource
    <2>2. QED
      BY <1>28, <2>1 DEF VerifySource, Goto, Fail, End
  <1>29. ASSUME NEW j \in Jobs, Extract(j) PROVE Exact(i)'
    <2>1. IsRestore(j) /\ ~IsReset(j) /\ Source(j) \in Zip /\ j # NoJob
      BY <1>29, RestoreAt DEF Extract
    <2>2. QED
      BY <1>29, <2>1 DEF Extract, Goto
  <1>30. ASSUME NEW j \in Jobs, Extracted(j) PROVE Exact(i)'
    <2>1. IsRestore(j) /\ ~IsReset(j) /\ Source(j) \in Zip /\ j # NoJob
      BY <1>30, RestoreAt DEF Extracted
    <2>2. QED
      BY <1>30, <2>1 DEF Extracted, Goto
  <1>31. ASSUME NEW j \in Jobs, ExtractFails(j) PROVE Exact(i)'
    <2>1. IsRestore(j) /\ ~IsReset(j) /\ Source(j) \in Zip /\ j # NoJob
      BY <1>31, RestoreAt DEF ExtractFails
    <2>2. QED
      BY <1>31, <2>1 DEF ExtractFails, Fail, End
  <1>32. ASSUME NEW j \in Jobs, Finish(j) PROVE Exact(i)'
    <2>1. IsRestore(j) /\ ~IsReset(j) /\ Source(j) \in Zip /\ j # NoJob
      BY <1>32, RestoreAt DEF Finish
    <2>2. QED
      BY <1>32, <2>1 DEF Finish, Fail, End
  <1>33. CASE UNCHANGED vars
    BY <1>33 DEF vars
  <1>34. QED
    BY <1>1, <1>2, <1>3, <1>4, <1>4r, <1>5, <1>6, <1>7, <1>8, <1>9, <1>10, <1>11, <1>12, <1>13, <1>14, <1>15, <1>16,
       <1>17, <1>18, <1>19, <1>20, <1>21, <1>22, <1>23, <1>24, <1>25, <1>26, <1>27, <1>28, <1>29, <1>30, <1>31, <1>32, <1>33
    DEF Next, Work, Archive, StopFirst, ResetStep, RestoreStep

\* The archive of one job holds what that job changed.
Holds(i) ==
    \A w \in Worlds : old[i][w] # {} =>
        zip[i].state = "deleted" \/ (zip[i].state = "whole" /\ zip[i].worlds[w] = old[i][w])

\* What a job changed stays in its archive.
LEMMA HoldsStep ==
    ASSUME IInv, [Next]_vars, NEW i \in Jobs, Holds(i)
    PROVE  Holds(i)'
  <1> USE DEF IInv, TypeOK, Placed, Holds, Exact
  <1>a. old[i] # Empty => row[i] \in {"completed", "failed"} \/ Past(i)
    BY DEF Untouched
  <1>b. old[i] = Empty => \A w \in Worlds : old[i][w] = {}
    BY DEF Empty
  <1>c. zip[i] \in Zip /\ disk \in [Worlds -> Content]
    OBVIOUS
  <1>1. CASE Save
    BY <1>1 DEF Save
  <1>2. CASE ServerExit
    BY <1>2 DEF ServerExit
  <1>3. CASE Start
    BY <1>3 DEF Start
  <1>4. CASE Stop
    BY <1>4 DEF Stop
  <1>4r. CASE RowCleared
    BY <1>4r DEF RowCleared
  <1>5. CASE Crash
    BY <1>5 DEF Crash
  <1>6. ASSUME NEW w \in Worlds, EditSetting(w) PROVE Holds(i)'
    BY <1>6 DEF EditSetting
  <1>7. ASSUME NEW k \in Jobs, DeleteBackup(k) PROVE Holds(i)'
    <2>1. zip'[i].worlds = zip[i].worlds /\ zip'[i].state \in {zip[i].state, "deleted"}
      BY <1>7, <1>c DEF DeleteBackup
    <2>2. zip[i].state = "deleted" => zip'[i].state = "deleted"
      BY <2>1
    <2>3. QED
      BY <1>7, <2>1, <2>2 DEF DeleteBackup
  <1>8. ASSUME NEW j \in Jobs, NEW a \in Ask, Submit(j, a) PROVE Holds(i)'
    BY <1>8 DEF Submit
  <1>9. ASSUME NEW j \in Jobs, Begin(j) PROVE Holds(i)'
    BY <1>9 DEF Begin, First
  <1>10. ASSUME NEW j \in Jobs, OpenArchive(j) PROVE Holds(i)'
    <2>1. i = j => old[i] = Empty
      BY <1>10, <1>a DEF OpenArchive, Past
    <2>2. old' = old /\ (i # j => zip'[i] = zip[i])
      BY <1>10 DEF OpenArchive
    <2>3. QED
      BY <1>b, <2>1, <2>2
  <1>11. ASSUME NEW j \in Jobs, CloseArchive(j) PROVE Holds(i)'
    <2>1. i = j => old[i] = Empty
      BY <1>11, <1>a DEF CloseArchive, Past
    <2>2. old' = old /\ (i # j => zip'[i] = zip[i])
      BY <1>11 DEF CloseArchive
    <2>3. QED
      BY <1>b, <2>1, <2>2
  <1>12. ASSUME NEW j \in Jobs, ArchiveFails(j) PROVE Holds(i)'
    <2>1. i = j => old[i] = Empty
      BY <1>12, <1>a DEF ArchiveFails, Past
    <2>2. old' = old /\ (i # j => zip'[i] = zip[i])
      BY <1>12 DEF ArchiveFails
    <2>3. QED
      BY <1>b, <2>1, <2>2
  <1>13. ASSUME NEW j \in Jobs, Upload(j) PROVE Holds(i)'
    BY <1>13 DEF Upload, Fail, End
  <1>14. ASSUME NEW j \in Jobs, StopServer(j) PROVE Holds(i)'
    BY <1>14 DEF StopServer, Goto
  <1>15. ASSUME NEW j \in Jobs, StopServerFails(j) PROVE Holds(i)'
    BY <1>15 DEF StopServerFails, Fail, End
  <1>16. ASSUME NEW j \in Jobs, Check(j) PROVE Holds(i)'
    BY <1>16 DEF Check, Goto, Fail, End
  <1>17. ASSUME NEW j \in Jobs, Prepare(j) PROVE Holds(i)'
    BY <1>17 DEF Prepare, Goto, Fail, End
  <1>18. ASSUME NEW j \in Jobs, Verify(j) PROVE Holds(i)'
    BY <1>18 DEF Verify, FailUnmoved, Goto, Fail, End
  <1>19. ASSUME NEW j \in Jobs, Move(j) PROVE Holds(i)'
    <2>1. CASE i = j
      <3>1. Exact(i) /\ job = i /\ zip' = zip
        BY <1>19, <2>1 DEF Move
      <3>2. Same(i) /\ zip[i].state \in {"whole", "deleted"}
        BY <1>19, <3>1, <2>1 DEF Move
      <3>3. old'[i] = Calm
        BY <1>19, <2>1 DEF Move
      <3>4. \A w \in Worlds : Calm[w] # {} => w \notin torn /\ Calm[w] = disk[w]
        BY DEF Calm
      <3>5. QED
        BY <3>1, <3>2, <3>3, <3>4 DEF Same
    <2>2. CASE i # j
      BY <1>19, <2>2 DEF Move
    <2>3. QED
      BY <1>b, <2>1, <2>2
  <1>20. ASSUME NEW j \in Jobs, MoveFails(j) PROVE Holds(i)'
    BY <1>20 DEF MoveFails, FailUnmoved, Goto, Fail, End
  <1>21. ASSUME NEW j \in Jobs, Rewind(j) PROVE Holds(i)'
    BY <1>21 DEF Rewind, Fail, End
  <1>22. ASSUME NEW j \in Jobs, StartNew(j) PROVE Holds(i)'
    BY <1>22 DEF StartNew, Goto
  <1>23. ASSUME NEW j \in Jobs, StartNewFails(j) PROVE Holds(i)'
    BY <1>23 DEF StartNewFails, Goto
  <1>24. ASSUME NEW j \in Jobs, Generated(j) PROVE Holds(i)'
    BY <1>24 DEF Generated, Goto
  <1>25. ASSUME NEW j \in Jobs, GiveUp(j) PROVE Holds(i)'
    BY <1>25 DEF GiveUp, Goto
  <1>26. ASSUME NEW j \in Jobs, Halt(j) PROVE Holds(i)'
    BY <1>26 DEF Halt, Fail, End
  <1>27. ASSUME NEW j \in Jobs, CleanUp(j) PROVE Holds(i)'
    BY <1>27 DEF CleanUp, Fail, End
  <1>28. ASSUME NEW j \in Jobs, VerifySource(j) PROVE Holds(i)'
    BY <1>28 DEF VerifySource, Goto, Fail, End
  <1>29. ASSUME NEW j \in Jobs, Extract(j) PROVE Holds(i)'
    <2>1. CASE i = j
      <3>1. Exact(i) /\ job = i /\ zip' = zip
        BY <1>29, <2>1 DEF Extract
      <3>2. Same(i) /\ zip[i].state \in {"whole", "deleted"}
        BY <1>29, <3>1, <2>1 DEF Extract
      <3>3. old'[i] = Calm
        BY <1>29, <2>1 DEF Extract
      <3>4. \A w \in Worlds : Calm[w] # {} => w \notin torn /\ Calm[w] = disk[w]
        BY DEF Calm
      <3>5. QED
        BY <3>1, <3>2, <3>3, <3>4 DEF Same
    <2>2. CASE i # j
      BY <1>29, <2>2 DEF Extract
    <2>3. QED
      BY <1>b, <2>1, <2>2
  <1>30. ASSUME NEW j \in Jobs, Extracted(j) PROVE Holds(i)'
    BY <1>30 DEF Extracted, Goto
  <1>31. ASSUME NEW j \in Jobs, ExtractFails(j) PROVE Holds(i)'
    BY <1>31 DEF ExtractFails, Fail, End
  <1>32. ASSUME NEW j \in Jobs, Finish(j) PROVE Holds(i)'
    BY <1>32 DEF Finish, Fail, End
  <1>33. CASE UNCHANGED vars
    BY <1>33 DEF vars
  <1>34. QED
    BY <1>1, <1>2, <1>3, <1>4, <1>4r, <1>5, <1>6, <1>7, <1>8, <1>9, <1>10, <1>11, <1>12, <1>13, <1>14, <1>15, <1>16,
       <1>17, <1>18, <1>19, <1>20, <1>21, <1>22, <1>23, <1>24, <1>25, <1>26, <1>27, <1>28, <1>29, <1>30, <1>31, <1>32, <1>33
    DEF Next, Work, Archive, StopFirst, ResetStep, RestoreStep

\* Versions are only added.
LEMMA VersionStep ==
    ASSUME TypeOK, [Next]_vars
    PROVE  version' \in Nat /\ version \in Nat /\ version <= version'
  <1>1. version' = version \/ version' = version + 1
    BY DEF Next, Work, Archive, StopFirst, ResetStep, RestoreStep, vars, Save, ServerExit, Start, Stop, RowCleared, Crash, EditSetting,
           DeleteBackup, Submit, Begin, OpenArchive, CloseArchive, ArchiveFails, Upload, StopServer, StopServerFails, Check,
           Prepare, Verify, Move, MoveFails, Rewind, StartNew, StartNewFails, Generated, GiveUp, Halt, CleanUp,
           VerifySource, Extract, Extracted, ExtractFails, Finish
  <1>2. QED
    BY <1>1 DEF TypeOK

\* A set of versions saved before is one later.
LEMMA SavedStays ==
    ASSUME TypeOK, [Next]_vars, NEW S \in SUBSET Nat, Saved(S)
    PROVE  \A v \in S : v <= version'
  BY VersionStep DEF Saved

\* What the invariant says of the versions in the files.
LEMMA Ahead ==
    ASSUME IInv
    PROVE  /\ \A x \in Worlds : disk[x] \in SUBSET Nat /\ Saved(disk[x])
           /\ \A x \in Jobs : staged[x] \in SUBSET Nat /\ Saved(staged[x])
           /\ \A x \in Jobs, y \in Worlds :
                 zip[x] \in Zip /\ zip[x].worlds[y] \in SUBSET Nat /\ Saved(zip[x].worlds[y])
  <1>1. \A x \in Worlds : disk[x] \in SUBSET Nat /\ Saved(disk[x])
    BY DEF IInv, TypeOK, Content, NothingAhead
  <1>2. \A x \in Jobs : staged[x] \in SUBSET Nat /\ Saved(staged[x])
    BY WorldsAssumption DEF IInv, TypeOK, Content, NothingAhead
  <1>3. ASSUME NEW x \in Jobs, NEW y \in Worlds
        PROVE  zip[x] \in Zip /\ zip[x].worlds[y] \in SUBSET Nat /\ Saved(zip[x].worlds[y])
    <2>1. zip[x] \in Zip
      BY DEF IInv, TypeOK
    <2>2. zip[x].worlds \in [Worlds -> SUBSET Nat]
      BY <2>1 DEF Zip, Content
    <2>3. QED
      BY <2>1, <2>2 DEF IInv, NothingAhead
  <1>4. QED
    BY <1>1, <1>2, <1>3

\* The disk holds only versions the game server has saved.
LEMMA DiskSaved ==
    ASSUME IInv, [Next]_vars, NEW u \in Worlds
    PROVE  Saved(disk[u])'
  <1> USE DEF Saved
  <1>a. disk[u] \in SUBSET Nat /\ (\A v \in disk[u] : v <= version') /\ TypeOK
    BY Ahead, SavedStays DEF IInv
  <1>1. CASE Save
    <2>1. disk'[u] \in {disk[u], {version + 1}} /\ version' = version + 1
      BY <1>1, <1>a DEF Save, TypeOK
    <2>2. QED
      BY <2>1, <1>a, VersionStep DEF Saved
  <1>2. CASE ServerExit
    BY <1>a, <1>2 DEF ServerExit
  <1>3. CASE Start
    BY <1>a, <1>3 DEF Start
  <1>4. CASE Stop
    BY <1>a, <1>4 DEF Stop
  <1>4r. CASE RowCleared
    BY <1>a, <1>4r DEF RowCleared
  <1>5. CASE Crash
    BY <1>a, <1>5 DEF Crash
  <1>6. ASSUME NEW w \in Worlds, EditSetting(w) PROVE Saved(disk[u])'
    BY <1>a, <1>6 DEF EditSetting
  <1>7. ASSUME NEW k \in Jobs, DeleteBackup(k) PROVE Saved(disk[u])'
    BY <1>a, <1>7 DEF DeleteBackup
  <1>8. ASSUME NEW j \in Jobs, NEW a \in Ask, Submit(j, a) PROVE Saved(disk[u])'
    BY <1>a, <1>8 DEF Submit
  <1>9. ASSUME NEW j \in Jobs, Begin(j) PROVE Saved(disk[u])'
    BY <1>a, <1>9 DEF Begin, First
  <1>10. ASSUME NEW j \in Jobs, OpenArchive(j) PROVE Saved(disk[u])'
    BY <1>a, <1>10 DEF OpenArchive, Goto
  <1>11. ASSUME NEW j \in Jobs, CloseArchive(j) PROVE Saved(disk[u])'
    BY <1>a, <1>11 DEF CloseArchive, Goto
  <1>12. ASSUME NEW j \in Jobs, ArchiveFails(j) PROVE Saved(disk[u])'
    BY <1>a, <1>12 DEF ArchiveFails, FailArchive, FailUnmoved, Goto, Fail, End
  <1>13. ASSUME NEW j \in Jobs, Upload(j) PROVE Saved(disk[u])'
    BY <1>a, <1>13 DEF Upload, Fail, End
  <1>14. ASSUME NEW j \in Jobs, StopServer(j) PROVE Saved(disk[u])'
    BY <1>a, <1>14 DEF StopServer, Goto
  <1>15. ASSUME NEW j \in Jobs, StopServerFails(j) PROVE Saved(disk[u])'
    BY <1>a, <1>15 DEF StopServerFails, Fail, End
  <1>16. ASSUME NEW j \in Jobs, Check(j) PROVE Saved(disk[u])'
    BY <1>a, <1>16 DEF Check, Goto, Fail, End
  <1>17. ASSUME NEW j \in Jobs, Prepare(j) PROVE Saved(disk[u])'
    BY <1>a, <1>17 DEF Prepare, Goto, Fail, End
  <1>18. ASSUME NEW j \in Jobs, Verify(j) PROVE Saved(disk[u])'
    BY <1>a, <1>18 DEF Verify, FailUnmoved, Goto, Fail, End
  <1>19. ASSUME NEW j \in Jobs, Move(j) PROVE Saved(disk[u])'
    <2>1. disk'[u] \subseteq disk[u]
      BY <1>19, <1>a DEF Move, TypeOK
    <2>2. QED
      BY <1>a, <2>1 DEF Saved
  <1>20. ASSUME NEW j \in Jobs, MoveFails(j) PROVE Saved(disk[u])'
    BY <1>a, <1>20 DEF MoveFails, FailUnmoved, Goto, Fail, End
  <1>21. ASSUME NEW j \in Jobs, Rewind(j) PROVE Saved(disk[u])'
    BY <1>a, <1>21 DEF Rewind, Fail, End
  <1>22. ASSUME NEW j \in Jobs, StartNew(j) PROVE Saved(disk[u])'
    BY <1>a, <1>22 DEF StartNew, Goto
  <1>23. ASSUME NEW j \in Jobs, StartNewFails(j) PROVE Saved(disk[u])'
    BY <1>a, <1>23 DEF StartNewFails, Goto
  <1>24. ASSUME NEW j \in Jobs, Generated(j) PROVE Saved(disk[u])'
    BY <1>a, <1>24 DEF Generated, Goto
  <1>25. ASSUME NEW j \in Jobs, GiveUp(j) PROVE Saved(disk[u])'
    BY <1>a, <1>25 DEF GiveUp, Goto
  <1>26. ASSUME NEW j \in Jobs, Halt(j) PROVE Saved(disk[u])'
    BY <1>a, <1>26 DEF Halt, Fail, End
  <1>27. ASSUME NEW j \in Jobs, CleanUp(j) PROVE Saved(disk[u])'
    BY <1>a, <1>27 DEF CleanUp, Fail, End
  <1>28. ASSUME NEW j \in Jobs, VerifySource(j) PROVE Saved(disk[u])'
    BY <1>a, <1>28 DEF VerifySource, Goto, Fail, End
  <1>29. ASSUME NEW j \in Jobs, Extract(j) PROVE Saved(disk[u])'
    <2>1. Source(j).worlds[u] \in SUBSET Nat /\ \A v \in Source(j).worlds[u] : v <= version'
      BY <1>29, <1>a, RestoreAt, Ahead, SavedStays DEF Extract, Source
    <2>2. disk'[u] \subseteq disk[u] \cup Source(j).worlds[u]
      BY <1>29 DEF Extract
    <2>3. QED
      BY <1>a, <2>1, <2>2 DEF Saved
  <1>30. ASSUME NEW j \in Jobs, Extracted(j) PROVE Saved(disk[u])'
    <2>1. Source(j).worlds[u] \in SUBSET Nat /\ \A v \in Source(j).worlds[u] : v <= version'
      BY <1>30, <1>a, RestoreAt, Ahead, SavedStays DEF Extracted, Source
    <2>2. disk'[u] \subseteq disk[u] \cup Source(j).worlds[u]
      BY <1>30 DEF Extracted
    <2>3. QED
      BY <1>a, <2>1, <2>2 DEF Saved
  <1>31. ASSUME NEW j \in Jobs, ExtractFails(j) PROVE Saved(disk[u])'
    BY <1>a, <1>31 DEF ExtractFails, Fail, End
  <1>32. ASSUME NEW j \in Jobs, Finish(j) PROVE Saved(disk[u])'
    BY <1>a, <1>32 DEF Finish, Fail, End
  <1>33. CASE UNCHANGED vars
    BY <1>33, <1>a DEF vars
  <1>34. QED
    BY <1>1, <1>2, <1>3, <1>4, <1>4r, <1>5, <1>6, <1>7, <1>8, <1>9, <1>10, <1>11, <1>12, <1>13, <1>14, <1>15, <1>16,
       <1>17, <1>18, <1>19, <1>20, <1>21, <1>22, <1>23, <1>24, <1>25, <1>26, <1>27, <1>28, <1>29, <1>30, <1>31, <1>32, <1>33
    DEF Next, Work, Archive, StopFirst, ResetStep, RestoreStep

\* So do the staged worlds.
LEMMA StagedSaved ==
    ASSUME IInv, [Next]_vars, NEW i \in Jobs
    PROVE  Saved(staged[i])'
  <1> USE DEF Saved
  <1>a. staged[i] \in SUBSET Nat /\ (\A v \in staged[i] : v <= version') /\ TypeOK
    BY Ahead, SavedStays DEF IInv
  <1>1. CASE Save
    BY <1>a, <1>1 DEF Save
  <1>2. CASE ServerExit
    BY <1>a, <1>2 DEF ServerExit
  <1>3. CASE Start
    BY <1>a, <1>3 DEF Start
  <1>4. CASE Stop
    BY <1>a, <1>4 DEF Stop
  <1>4r. CASE RowCleared
    BY <1>a, <1>4r DEF RowCleared
  <1>5. CASE Crash
    BY <1>a, <1>5 DEF Crash
  <1>6. ASSUME NEW w \in Worlds, EditSetting(w) PROVE Saved(staged[i])'
    BY <1>a, <1>6 DEF EditSetting
  <1>7. ASSUME NEW k \in Jobs, DeleteBackup(k) PROVE Saved(staged[i])'
    BY <1>a, <1>7 DEF DeleteBackup
  <1>8. ASSUME NEW j \in Jobs, NEW a \in Ask, Submit(j, a) PROVE Saved(staged[i])'
    BY <1>a, <1>8 DEF Submit
  <1>9. ASSUME NEW j \in Jobs, Begin(j) PROVE Saved(staged[i])'
    BY <1>a, <1>9 DEF Begin, First
  <1>10. ASSUME NEW j \in Jobs, OpenArchive(j) PROVE Saved(staged[i])'
    BY <1>a, <1>10 DEF OpenArchive, Goto
  <1>11. ASSUME NEW j \in Jobs, CloseArchive(j) PROVE Saved(staged[i])'
    BY <1>a, <1>11 DEF CloseArchive, Goto
  <1>12. ASSUME NEW j \in Jobs, ArchiveFails(j) PROVE Saved(staged[i])'
    BY <1>a, <1>12 DEF ArchiveFails, FailArchive, FailUnmoved, Goto, Fail, End
  <1>13. ASSUME NEW j \in Jobs, Upload(j) PROVE Saved(staged[i])'
    BY <1>a, <1>13 DEF Upload, Fail, End
  <1>14. ASSUME NEW j \in Jobs, StopServer(j) PROVE Saved(staged[i])'
    BY <1>a, <1>14 DEF StopServer, Goto
  <1>15. ASSUME NEW j \in Jobs, StopServerFails(j) PROVE Saved(staged[i])'
    BY <1>a, <1>15 DEF StopServerFails, Fail, End
  <1>16. ASSUME NEW j \in Jobs, Check(j) PROVE Saved(staged[i])'
    BY <1>a, <1>16 DEF Check, Goto, Fail, End
  <1>17. ASSUME NEW j \in Jobs, Prepare(j) PROVE Saved(staged[i])'
    BY <1>a, <1>17 DEF Prepare, Goto, Fail, End
  <1>18. ASSUME NEW j \in Jobs, Verify(j) PROVE Saved(staged[i])'
    BY <1>a, <1>18 DEF Verify, FailUnmoved, Goto, Fail, End
  <1>19. ASSUME NEW j \in Jobs, Move(j) PROVE Saved(staged[i])'
    <2>1. World(j) \in Worlds
      BY <1>19, <1>a, ResetAt DEF Move
    <2>2. \A v \in disk[World(j)] : v <= version'
      BY <2>1, <1>a, Ahead, SavedStays
    <2>3. staged'[i] \in {staged[i], disk[World(j)]}
      BY <1>19, <1>a DEF Move, TypeOK
    <2>4. QED
      BY <1>a, <2>2, <2>3 DEF Saved
  <1>20. ASSUME NEW j \in Jobs, MoveFails(j) PROVE Saved(staged[i])'
    BY <1>a, <1>20 DEF MoveFails, FailUnmoved, Goto, Fail, End
  <1>21. ASSUME NEW j \in Jobs, Rewind(j) PROVE Saved(staged[i])'
    BY <1>a, <1>21 DEF Rewind, Fail, End
  <1>22. ASSUME NEW j \in Jobs, StartNew(j) PROVE Saved(staged[i])'
    BY <1>a, <1>22 DEF StartNew, Goto
  <1>23. ASSUME NEW j \in Jobs, StartNewFails(j) PROVE Saved(staged[i])'
    BY <1>a, <1>23 DEF StartNewFails, Goto
  <1>24. ASSUME NEW j \in Jobs, Generated(j) PROVE Saved(staged[i])'
    BY <1>a, <1>24 DEF Generated, Goto
  <1>25. ASSUME NEW j \in Jobs, GiveUp(j) PROVE Saved(staged[i])'
    BY <1>a, <1>25 DEF GiveUp, Goto
  <1>26. ASSUME NEW j \in Jobs, Halt(j) PROVE Saved(staged[i])'
    BY <1>a, <1>26 DEF Halt, Fail, End
  <1>27. ASSUME NEW j \in Jobs, CleanUp(j) PROVE Saved(staged[i])'
    <2>1. staged'[i] \subseteq staged[i]
      BY <1>27, <1>a DEF CleanUp, TypeOK
    <2>2. QED
      BY <1>a, <2>1 DEF Saved
  <1>28. ASSUME NEW j \in Jobs, VerifySource(j) PROVE Saved(staged[i])'
    BY <1>a, <1>28 DEF VerifySource, Goto, Fail, End
  <1>29. ASSUME NEW j \in Jobs, Extract(j) PROVE Saved(staged[i])'
    BY <1>a, <1>29 DEF Extract, Goto
  <1>30. ASSUME NEW j \in Jobs, Extracted(j) PROVE Saved(staged[i])'
    BY <1>a, <1>30 DEF Extracted, Goto
  <1>31. ASSUME NEW j \in Jobs, ExtractFails(j) PROVE Saved(staged[i])'
    BY <1>a, <1>31 DEF ExtractFails, Fail, End
  <1>32. ASSUME NEW j \in Jobs, Finish(j) PROVE Saved(staged[i])'
    BY <1>a, <1>32 DEF Finish, Fail, End
  <1>33. CASE UNCHANGED vars
    BY <1>33, <1>a DEF vars
  <1>34. QED
    BY <1>1, <1>2, <1>3, <1>4, <1>4r, <1>5, <1>6, <1>7, <1>8, <1>9, <1>10, <1>11, <1>12, <1>13, <1>14, <1>15, <1>16,
       <1>17, <1>18, <1>19, <1>20, <1>21, <1>22, <1>23, <1>24, <1>25, <1>26, <1>27, <1>28, <1>29, <1>30, <1>31, <1>32, <1>33
    DEF Next, Work, Archive, StopFirst, ResetStep, RestoreStep

\* So do the archives.
LEMMA ZipSaved ==
    ASSUME IInv, [Next]_vars, NEW i \in Jobs, NEW u \in Worlds
    PROVE  Saved(zip[i].worlds[u])'
  <1> USE DEF Saved
  <1>a. /\ zip[i].worlds[u] \in SUBSET Nat /\ (\A v \in zip[i].worlds[u] : v <= version')
        /\ (\A v \in disk[u] : v <= version') /\ TypeOK /\ zip[i] \in Zip
    BY Ahead, SavedStays DEF IInv
  <1>1. CASE Save
    BY <1>a, <1>1 DEF Save
  <1>2. CASE ServerExit
    BY <1>a, <1>2 DEF ServerExit
  <1>3. CASE Start
    BY <1>a, <1>3 DEF Start
  <1>4. CASE Stop
    BY <1>a, <1>4 DEF Stop
  <1>4r. CASE RowCleared
    BY <1>a, <1>4r DEF RowCleared
  <1>5. CASE Crash
    BY <1>a, <1>5 DEF Crash
  <1>6. ASSUME NEW w \in Worlds, EditSetting(w) PROVE Saved(zip[i].worlds[u])'
    BY <1>a, <1>6 DEF EditSetting
  <1>7. ASSUME NEW k \in Jobs, DeleteBackup(k) PROVE Saved(zip[i].worlds[u])'
    <2>1. zip'[i].worlds = zip[i].worlds
      BY <1>7, <1>a DEF DeleteBackup, TypeOK
    <2>2. QED
      BY <1>a, <2>1 DEF Saved
  <1>8. ASSUME NEW j \in Jobs, NEW a \in Ask, Submit(j, a) PROVE Saved(zip[i].worlds[u])'
    BY <1>a, <1>8 DEF Submit
  <1>9. ASSUME NEW j \in Jobs, Begin(j) PROVE Saved(zip[i].worlds[u])'
    BY <1>a, <1>9 DEF Begin, First
  <1>10. ASSUME NEW j \in Jobs, OpenArchive(j) PROVE Saved(zip[i].worlds[u])'
    <2>1. zip'[i].worlds \in {zip[i].worlds, disk}
      BY <1>10, <1>a DEF OpenArchive, TypeOK
    <2>2. QED
      BY <1>a, <2>1 DEF Saved
  <1>11. ASSUME NEW j \in Jobs, CloseArchive(j) PROVE Saved(zip[i].worlds[u])'
    <2>1. CASE i = j
      <3>1. zip'[i].worlds = [w \in Worlds |-> zip[i].worlds[w] \cup disk[w]]
        BY <1>11, <1>a, <2>1 DEF CloseArchive, TypeOK
      <3>2. zip'[i].worlds[u] = zip[i].worlds[u] \cup disk[u]
        BY <3>1
      <3>3. QED
        BY <1>a, <3>2 DEF Saved
    <2>2. CASE i # j
      BY <1>11, <1>a, <2>2 DEF CloseArchive, TypeOK, Saved
    <2>3. QED
      BY <2>1, <2>2
  <1>12. ASSUME NEW j \in Jobs, ArchiveFails(j) PROVE Saved(zip[i].worlds[u])'
    <2>1. zip'[i].worlds = zip[i].worlds
      BY <1>12, <1>a DEF ArchiveFails, TypeOK
    <2>2. QED
      BY <1>a, <2>1 DEF Saved
  <1>13. ASSUME NEW j \in Jobs, Upload(j) PROVE Saved(zip[i].worlds[u])'
    BY <1>a, <1>13 DEF Upload, Fail, End
  <1>14. ASSUME NEW j \in Jobs, StopServer(j) PROVE Saved(zip[i].worlds[u])'
    BY <1>a, <1>14 DEF StopServer, Goto
  <1>15. ASSUME NEW j \in Jobs, StopServerFails(j) PROVE Saved(zip[i].worlds[u])'
    BY <1>a, <1>15 DEF StopServerFails, Fail, End
  <1>16. ASSUME NEW j \in Jobs, Check(j) PROVE Saved(zip[i].worlds[u])'
    BY <1>a, <1>16 DEF Check, Goto, Fail, End
  <1>17. ASSUME NEW j \in Jobs, Prepare(j) PROVE Saved(zip[i].worlds[u])'
    BY <1>a, <1>17 DEF Prepare, Goto, Fail, End
  <1>18. ASSUME NEW j \in Jobs, Verify(j) PROVE Saved(zip[i].worlds[u])'
    BY <1>a, <1>18 DEF Verify, FailUnmoved, Goto, Fail, End
  <1>19. ASSUME NEW j \in Jobs, Move(j) PROVE Saved(zip[i].worlds[u])'
    BY <1>a, <1>19 DEF Move, Goto
  <1>20. ASSUME NEW j \in Jobs, MoveFails(j) PROVE Saved(zip[i].worlds[u])'
    BY <1>a, <1>20 DEF MoveFails, FailUnmoved, Goto, Fail, End
  <1>21. ASSUME NEW j \in Jobs, Rewind(j) PROVE Saved(zip[i].worlds[u])'
    BY <1>a, <1>21 DEF Rewind, Fail, End
  <1>22. ASSUME NEW j \in Jobs, StartNew(j) PROVE Saved(zip[i].worlds[u])'
    BY <1>a, <1>22 DEF StartNew, Goto
  <1>23. ASSUME NEW j \in Jobs, StartNewFails(j) PROVE Saved(zip[i].worlds[u])'
    BY <1>a, <1>23 DEF StartNewFails, Goto
  <1>24. ASSUME NEW j \in Jobs, Generated(j) PROVE Saved(zip[i].worlds[u])'
    BY <1>a, <1>24 DEF Generated, Goto
  <1>25. ASSUME NEW j \in Jobs, GiveUp(j) PROVE Saved(zip[i].worlds[u])'
    BY <1>a, <1>25 DEF GiveUp, Goto
  <1>26. ASSUME NEW j \in Jobs, Halt(j) PROVE Saved(zip[i].worlds[u])'
    BY <1>a, <1>26 DEF Halt, Fail, End
  <1>27. ASSUME NEW j \in Jobs, CleanUp(j) PROVE Saved(zip[i].worlds[u])'
    BY <1>a, <1>27 DEF CleanUp, Fail, End
  <1>28. ASSUME NEW j \in Jobs, VerifySource(j) PROVE Saved(zip[i].worlds[u])'
    BY <1>a, <1>28 DEF VerifySource, Goto, Fail, End
  <1>29. ASSUME NEW j \in Jobs, Extract(j) PROVE Saved(zip[i].worlds[u])'
    BY <1>a, <1>29 DEF Extract, Goto
  <1>30. ASSUME NEW j \in Jobs, Extracted(j) PROVE Saved(zip[i].worlds[u])'
    BY <1>a, <1>30 DEF Extracted, Goto
  <1>31. ASSUME NEW j \in Jobs, ExtractFails(j) PROVE Saved(zip[i].worlds[u])'
    BY <1>a, <1>31 DEF ExtractFails, Fail, End
  <1>32. ASSUME NEW j \in Jobs, Finish(j) PROVE Saved(zip[i].worlds[u])'
    BY <1>a, <1>32 DEF Finish, Fail, End
  <1>33. CASE UNCHANGED vars
    BY <1>33, <1>a DEF vars
  <1>34. QED
    BY <1>1, <1>2, <1>3, <1>4, <1>4r, <1>5, <1>6, <1>7, <1>8, <1>9, <1>10, <1>11, <1>12, <1>13, <1>14, <1>15, <1>16,
       <1>17, <1>18, <1>19, <1>20, <1>21, <1>22, <1>23, <1>24, <1>25, <1>26, <1>27, <1>28, <1>29, <1>30, <1>31, <1>32, <1>33
    DEF Next, Work, Archive, StopFirst, ResetStep, RestoreStep

\* The world generated after a move shares no file with the one moved away.
LEMMA GenerationStep ==
    ASSUME IInv, [Next]_vars, NEW i \in Jobs
    PROVE  Generation(i)'
  <1> USE DEF Generation, IsReset, IsRestore, World
  <1>a. TypeOK /\ Generation(i) /\ i # NoJob
    BY DEF IInv
  <1>w. job = i /\ at \in {"start", "wait", "cleanup"} => IsReset(i) /\ World(i) \in Worlds
    BY <1>a, ResetAt
  <1>r. job = i /\ IsReset(i) /\ at \in {"start", "wait"} => was
    BY <1>a DEF IInv, Restarts
  <1>1. CASE Save
    <2>1. CASE job = i /\ IsReset(i) /\ was /\ at \in {"start", "wait", "cleanup"}
      <3>1. World(i) \in Worlds /\ staged' = staged
        BY <1>1, <2>1, <1>w DEF Save
      <3>2. disk'[World(i)] \in {disk[World(i)], {version + 1}}
        BY <1>1, <1>a, <3>1 DEF Save, TypeOK
      <3>3. version + 1 \notin staged[i]
        <4>1. version \in Nat /\ \A v \in staged[i] : v <= version
          BY <1>a, Ahead DEF TypeOK, Saved
        <4>2. QED
          BY <4>1
      <3>4. disk[World(i)] \cap staged[i] = {} /\ (at = "cleanup" => disk[World(i)] # {})
        BY <1>a, <2>1
      <3>5. UNCHANGED <<job, ask, at, was>>
        BY <1>1 DEF Save
      <3>6. QED
        BY <2>1, <3>1, <3>2, <3>3, <3>4, <3>5
    <2>2. CASE ~(job = i /\ IsReset(i) /\ was /\ at \in {"start", "wait", "cleanup"})
      BY <1>1, <2>2 DEF Save
    <2>3. QED
      BY <2>1, <2>2
  <1>2. CASE ServerExit
    BY <1>a, <1>w, <1>r, <1>2 DEF ServerExit
  <1>3. CASE Start
    BY <1>a, <1>w, <1>r, <1>3 DEF Start
  <1>4. CASE Stop
    BY <1>a, <1>w, <1>r, <1>4 DEF Stop
  <1>4r. CASE RowCleared
    BY <1>a, <1>w, <1>r, <1>4r DEF RowCleared
  <1>5. CASE Crash
    BY <1>a, <1>w, <1>r, <1>5 DEF Crash
  <1>6. ASSUME NEW w \in Worlds, EditSetting(w) PROVE Generation(i)'
    BY <1>a, <1>w, <1>r, <1>6 DEF EditSetting
  <1>7. ASSUME NEW k \in Jobs, DeleteBackup(k) PROVE Generation(i)'
    BY <1>a, <1>w, <1>r, <1>7 DEF DeleteBackup
  <1>8. ASSUME NEW j \in Jobs, NEW a \in Ask, Submit(j, a) PROVE Generation(i)'
    <2>1. CASE i = j
      <3>1. job # i
        BY <1>8, <2>1, <1>a DEF Submit, TypeOK, Placed
      <3>2. QED
        BY <1>8, <3>1 DEF Submit
    <2>2. CASE i # j
      BY <1>8, <2>2, <1>a DEF Submit, TypeOK
    <2>3. QED
      BY <2>1, <2>2
  <1>9. ASSUME NEW j \in Jobs, Begin(j) PROVE Generation(i)'
    <2>1. ask[j].kind \in {"reset", "restore", "backup"} /\ j # NoJob
      BY <1>a, AskKinds DEF TypeOK
    <2>2. QED
      BY <1>a, <1>w, <1>r, <1>9, <2>1 DEF Begin, First, IsReset, IsRestore
  <1>10. ASSUME NEW j \in Jobs, OpenArchive(j) PROVE Generation(i)'
    BY <1>a, <1>w, <1>r, <1>10 DEF OpenArchive, Goto
  <1>11. ASSUME NEW j \in Jobs, CloseArchive(j) PROVE Generation(i)'
    BY <1>a, <1>w, <1>r, <1>11 DEF CloseArchive, Goto
  <1>12. ASSUME NEW j \in Jobs, ArchiveFails(j) PROVE Generation(i)'
    BY <1>a, <1>w, <1>r, <1>12 DEF ArchiveFails, FailArchive, FailUnmoved, Goto, Fail, End
  <1>13. ASSUME NEW j \in Jobs, Upload(j) PROVE Generation(i)'
    BY <1>a, <1>w, <1>r, <1>13 DEF Upload, Fail, End
  <1>14. ASSUME NEW j \in Jobs, StopServer(j) PROVE Generation(i)'
    BY <1>a, <1>w, <1>r, <1>14 DEF StopServer, Goto
  <1>15. ASSUME NEW j \in Jobs, StopServerFails(j) PROVE Generation(i)'
    BY <1>a, <1>w, <1>r, <1>15 DEF StopServerFails, Fail, End
  <1>16. ASSUME NEW j \in Jobs, Check(j) PROVE Generation(i)'
    <2>1. IsReset(j) /\ ~IsRestore(j) /\ World(j) \in Worlds /\ j # NoJob
      BY <1>16, <1>a, ResetAt DEF Check
    <2>2. QED
      BY <1>a, <1>w, <1>r, <1>16, <2>1 DEF Check, Goto, Fail, End
  <1>17. ASSUME NEW j \in Jobs, Prepare(j) PROVE Generation(i)'
    <2>1. IsReset(j) /\ ~IsRestore(j) /\ World(j) \in Worlds /\ j # NoJob
      BY <1>17, <1>a, ResetAt DEF Prepare
    <2>2. QED
      BY <1>a, <1>w, <1>r, <1>17, <2>1 DEF Prepare, Goto, Fail, End
  <1>18. ASSUME NEW j \in Jobs, Verify(j) PROVE Generation(i)'
    <2>1. IsReset(j) /\ ~IsRestore(j) /\ World(j) \in Worlds /\ j # NoJob
      BY <1>18, <1>a, ResetAt DEF Verify
    <2>2. QED
      BY <1>a, <1>w, <1>r, <1>18, <2>1 DEF Verify, FailUnmoved, Goto, Fail, End
  <1>19. ASSUME NEW j \in Jobs, Move(j) PROVE Generation(i)'
    <2>1. CASE i = j
      <3>1. World(j) \in Worlds
        BY <1>19, <1>a, ResetAt DEF Move
      <3>2. disk'[World(j)] = {} /\ World(j)' = World(j)
        BY <1>19, <1>a, <3>1 DEF Move, TypeOK
      <3>3. at' \in {"start", "cleanup"} /\ (at' = "cleanup" => ~was)
        BY <1>19 DEF Move, Goto
      <3>4. was' = was
        BY <1>19 DEF Move, Goto
      <3>5. QED
        BY <2>1, <3>2, <3>3, <3>4
    <2>2. CASE i # j
      BY <1>19, <2>2 DEF Move, Goto
    <2>3. QED
      BY <2>1, <2>2
  <1>20. ASSUME NEW j \in Jobs, MoveFails(j) PROVE Generation(i)'
    <2>1. IsReset(j) /\ ~IsRestore(j) /\ World(j) \in Worlds /\ j # NoJob
      BY <1>20, <1>a, ResetAt DEF MoveFails
    <2>2. QED
      BY <1>a, <1>w, <1>r, <1>20, <2>1 DEF MoveFails, FailUnmoved, Goto, Fail, End
  <1>21. ASSUME NEW j \in Jobs, Rewind(j) PROVE Generation(i)'
    <2>1. IsReset(j) /\ ~IsRestore(j) /\ World(j) \in Worlds /\ j # NoJob
      BY <1>21, <1>a, ResetAt DEF Rewind
    <2>2. QED
      BY <1>a, <1>w, <1>r, <1>21, <2>1 DEF Rewind, Fail, End
  <1>22. ASSUME NEW j \in Jobs, StartNew(j) PROVE Generation(i)'
    <2>1. IsReset(j) /\ ~IsRestore(j) /\ World(j) \in Worlds /\ j # NoJob
      BY <1>22, <1>a, ResetAt DEF StartNew
    <2>2. QED
      BY <1>a, <1>w, <1>r, <1>22, <2>1 DEF StartNew, Goto
  <1>23. ASSUME NEW j \in Jobs, StartNewFails(j) PROVE Generation(i)'
    <2>1. IsReset(j) /\ ~IsRestore(j) /\ World(j) \in Worlds /\ j # NoJob
      BY <1>23, <1>a, ResetAt DEF StartNewFails
    <2>2. QED
      BY <1>a, <1>w, <1>r, <1>23, <2>1 DEF StartNewFails, Goto
  <1>24. ASSUME NEW j \in Jobs, Generated(j) PROVE Generation(i)'
    <2>1. IsReset(j) /\ ~IsRestore(j) /\ World(j) \in Worlds /\ j # NoJob
      BY <1>24, <1>a, ResetAt DEF Generated
    <2>2. QED
      BY <1>a, <1>w, <1>r, <1>24, <2>1 DEF Generated, Goto
  <1>25. ASSUME NEW j \in Jobs, GiveUp(j) PROVE Generation(i)'
    <2>1. IsReset(j) /\ ~IsRestore(j) /\ World(j) \in Worlds /\ j # NoJob
      BY <1>25, <1>a, ResetAt DEF GiveUp
    <2>2. QED
      BY <1>a, <1>w, <1>r, <1>25, <2>1 DEF GiveUp, Goto
  <1>26. ASSUME NEW j \in Jobs, Halt(j) PROVE Generation(i)'
    <2>1. IsReset(j) /\ ~IsRestore(j) /\ World(j) \in Worlds /\ j # NoJob
      BY <1>26, <1>a, ResetAt DEF Halt
    <2>2. QED
      BY <1>a, <1>w, <1>r, <1>26, <2>1 DEF Halt, Fail, End
  <1>27. ASSUME NEW j \in Jobs, CleanUp(j) PROVE Generation(i)'
    <2>1. at' = "idle"
      BY <1>27 DEF CleanUp, Fail, End
    <2>2. QED
      BY <2>1
  <1>28. ASSUME NEW j \in Jobs, VerifySource(j) PROVE Generation(i)'
    <2>1. IsRestore(j) /\ ~IsReset(j) /\ Source(j) \in Zip /\ j # NoJob
      BY <1>28, <1>a, RestoreAt DEF VerifySource
    <2>2. QED
      BY <1>a, <1>w, <1>r, <1>28, <2>1 DEF VerifySource, Goto, Fail, End
  <1>29. ASSUME NEW j \in Jobs, Extract(j) PROVE Generation(i)'
    <2>1. at' \in {"extracting", "finish"}
      BY <1>29 DEF Extract, Goto
    <2>2. QED
      BY <2>1
  <1>30. ASSUME NEW j \in Jobs, Extracted(j) PROVE Generation(i)'
    <2>1. at' \in {"extracting", "finish"}
      BY <1>30 DEF Extracted, Goto
    <2>2. QED
      BY <2>1
  <1>31. ASSUME NEW j \in Jobs, ExtractFails(j) PROVE Generation(i)'
    <2>1. IsRestore(j) /\ ~IsReset(j) /\ Source(j) \in Zip /\ j # NoJob
      BY <1>31, <1>a, RestoreAt DEF ExtractFails
    <2>2. QED
      BY <1>a, <1>w, <1>r, <1>31, <2>1 DEF ExtractFails, Fail, End
  <1>32. ASSUME NEW j \in Jobs, Finish(j) PROVE Generation(i)'
    <2>1. IsRestore(j) /\ ~IsReset(j) /\ Source(j) \in Zip /\ j # NoJob
      BY <1>32, <1>a, RestoreAt DEF Finish
    <2>2. QED
      BY <1>a, <1>w, <1>r, <1>32, <2>1 DEF Finish, Fail, End
  <1>33. CASE UNCHANGED vars
    BY <1>33, <1>a DEF vars
  <1>34. QED
    BY <1>1, <1>2, <1>3, <1>4, <1>4r, <1>5, <1>6, <1>7, <1>8, <1>9, <1>10, <1>11, <1>12, <1>13, <1>14, <1>15, <1>16,
       <1>17, <1>18, <1>19, <1>20, <1>21, <1>22, <1>23, <1>24, <1>25, <1>26, <1>27, <1>28, <1>29, <1>30, <1>31, <1>32, <1>33
    DEF Next, Work, Archive, StopFirst, ResetStep, RestoreStep

-----------------------------------------------------------------------------
\* Every step keeps the invariant.
LEMMA IInvStep ==
    ASSUME IInv, [Next]_vars
    PROVE  IInv'
  <1>1. TypeOK' /\ QuietWorlds' /\ Restarts'
    BY TypesStep, QuietStep, RestartsStep DEF IInv
  <1>2. ArchiveHoldsOld'
    <2>1. \A i \in Jobs : Holds(i)
      BY DEF IInv, ArchiveHoldsOld, Holds
    <2>2. \A i \in Jobs : Holds(i)'
      BY <2>1, HoldsStep
    <2>3. QED
      BY <2>2 DEF ArchiveHoldsOld, Holds
  <1>3. NothingAhead'
    BY DiskSaved, StagedSaved, ZipSaved DEF NothingAhead
  <1>4. \A i \in Jobs : Untouched(i)' /\ Exact(i)' /\ Generation(i)'
    BY UntouchedStep, ExactStep, GenerationStep
  <1>5. QED
    BY <1>1, <1>2, <1>3, <1>4 DEF IInv

\* The inductive invariant.
THEOREM Invariance == Spec => []IInv
  <1>1. IInv /\ [Next]_vars => IInv'
    BY IInvStep
  <1>2. QED
    BY InitIInv, <1>1, PTL DEF Spec

\* Type correctness.
THEOREM TypeCorrect == Spec => []TypeOK
  <1>1. Init => TypeOK
    BY InitIInv DEF IInv
  <1>2. QED
    BY <1>1, TypesStep, PTL DEF Spec

\* While a reset or a restore works on the worlds, only servers the panel has lost have one loaded.
THEOREM WorldsAreQuiet == Spec => []QuietWorlds
  <1>1. IInv => QuietWorlds
    BY DEF IInv
  <1>2. QED
    BY <1>1, Invariance, PTL

\* What a job moved away or overwrote is in its archive, unmixed, but for what lost servers wrote.
THEOREM NothingLost == Spec => []ArchiveHoldsOld
  <1>1. IInv => ArchiveHoldsOld
    BY DEF IInv
  <1>2. QED
    BY <1>1, Invariance, PTL

\* A staged world goes only when another one has taken its place.
Dropped(i) ==
    staged'[i] # staged[i] /\ was /\ staged[i] # {} =>
        disk[World(i)] # {} /\ disk[World(i)] \cap staged[i] = {}

\* Only the cleanup of a reset drops a staged world, after the new one is there.
LEMMA DroppedStep ==
    ASSUME IInv, [Next]_vars, NEW i \in Jobs
    PROVE  Dropped(i)
  <1> USE DEF Dropped
  <1>1. CASE Save
    BY <1>1 DEF Save
  <1>2. CASE ServerExit
    BY <1>2 DEF ServerExit
  <1>3. CASE Start
    BY <1>3 DEF Start
  <1>4. CASE Stop
    BY <1>4 DEF Stop
  <1>4r. CASE RowCleared
    BY <1>4r DEF RowCleared
  <1>5. CASE Crash
    BY <1>5 DEF Crash
  <1>6. ASSUME NEW w \in Worlds, EditSetting(w) PROVE Dropped(i)
    BY <1>6 DEF EditSetting
  <1>7. ASSUME NEW k \in Jobs, DeleteBackup(k) PROVE Dropped(i)
    BY <1>7 DEF DeleteBackup
  <1>8. ASSUME NEW j \in Jobs, NEW a \in Ask, Submit(j, a) PROVE Dropped(i)
    BY <1>8 DEF Submit
  <1>9. ASSUME NEW j \in Jobs, Begin(j) PROVE Dropped(i)
    BY <1>9 DEF Begin
  <1>10. ASSUME NEW j \in Jobs, OpenArchive(j) PROVE Dropped(i)
    BY <1>10 DEF OpenArchive
  <1>11. ASSUME NEW j \in Jobs, CloseArchive(j) PROVE Dropped(i)
    BY <1>11 DEF CloseArchive
  <1>12. ASSUME NEW j \in Jobs, ArchiveFails(j) PROVE Dropped(i)
    BY <1>12 DEF ArchiveFails
  <1>13. ASSUME NEW j \in Jobs, Upload(j) PROVE Dropped(i)
    BY <1>13 DEF Upload
  <1>14. ASSUME NEW j \in Jobs, StopServer(j) PROVE Dropped(i)
    BY <1>14 DEF StopServer
  <1>15. ASSUME NEW j \in Jobs, StopServerFails(j) PROVE Dropped(i)
    BY <1>15 DEF StopServerFails
  <1>16. ASSUME NEW j \in Jobs, Check(j) PROVE Dropped(i)
    BY <1>16 DEF Check
  <1>17. ASSUME NEW j \in Jobs, Prepare(j) PROVE Dropped(i)
    BY <1>17 DEF Prepare
  <1>18. ASSUME NEW j \in Jobs, Verify(j) PROVE Dropped(i)
    BY <1>18 DEF Verify
  <1>19. ASSUME NEW j \in Jobs, Move(j) PROVE Dropped(i)
    <2>1. i = j => staged[i] = {}
      BY <1>19 DEF Move, IInv, Untouched, Past, TypeOK, Placed
    <2>2. i # j => staged'[i] = staged[i]
      BY <1>19 DEF Move, IInv, TypeOK
    <2>3. QED
      BY <2>1, <2>2
  <1>20. ASSUME NEW j \in Jobs, MoveFails(j) PROVE Dropped(i)
    BY <1>20 DEF MoveFails
  <1>21. ASSUME NEW j \in Jobs, Rewind(j) PROVE Dropped(i)
    BY <1>21 DEF Rewind
  <1>22. ASSUME NEW j \in Jobs, StartNew(j) PROVE Dropped(i)
    BY <1>22 DEF StartNew
  <1>23. ASSUME NEW j \in Jobs, StartNewFails(j) PROVE Dropped(i)
    BY <1>23 DEF StartNewFails
  <1>24. ASSUME NEW j \in Jobs, Generated(j) PROVE Dropped(i)
    BY <1>24 DEF Generated
  <1>25. ASSUME NEW j \in Jobs, GiveUp(j) PROVE Dropped(i)
    BY <1>25 DEF GiveUp
  <1>26. ASSUME NEW j \in Jobs, Halt(j) PROVE Dropped(i)
    BY <1>26 DEF Halt
  <1>27. ASSUME NEW j \in Jobs, CleanUp(j) PROVE Dropped(i)
    <2>1. CASE i = j
      <3>1. IsReset(j)
        BY <1>27, ResetAt DEF CleanUp, IInv
      <3>2. QED
        BY <1>27, <2>1, <3>1 DEF CleanUp, IInv, Generation
    <2>2. CASE i # j
      BY <1>27, <2>2 DEF CleanUp, IInv, TypeOK
    <2>3. QED
      BY <2>1, <2>2
  <1>28. ASSUME NEW j \in Jobs, VerifySource(j) PROVE Dropped(i)
    BY <1>28 DEF VerifySource
  <1>29. ASSUME NEW j \in Jobs, Extract(j) PROVE Dropped(i)
    BY <1>29 DEF Extract
  <1>30. ASSUME NEW j \in Jobs, Extracted(j) PROVE Dropped(i)
    BY <1>30 DEF Extracted
  <1>31. ASSUME NEW j \in Jobs, ExtractFails(j) PROVE Dropped(i)
    BY <1>31 DEF ExtractFails
  <1>32. ASSUME NEW j \in Jobs, Finish(j) PROVE Dropped(i)
    BY <1>32 DEF Finish
  <1>33. CASE UNCHANGED vars
    BY <1>33 DEF vars
  <1>34. QED
    BY <1>1, <1>2, <1>3, <1>4, <1>4r, <1>5, <1>6, <1>7, <1>8, <1>9, <1>10, <1>11, <1>12, <1>13, <1>14, <1>15, <1>16,
       <1>17, <1>18, <1>19, <1>20, <1>21, <1>22, <1>23, <1>24, <1>25, <1>26, <1>27, <1>28, <1>29, <1>30, <1>31, <1>32, <1>33
    DEF Next, Work, Archive, StopFirst, ResetStep, RestoreStep

\* The old world is not lost: what no lost server wrote meanwhile is in the archive, and a staged
\* world goes only when another one has taken its place.
THEOREM OldWorldSafe == Spec => OldWorldKept
  <1>1. ASSUME IInv, [Next]_vars PROVE [ArchiveHoldsOld' /\ DropsForNew]_vars
    <2>1. IInv'
      BY <1>1, IInvStep
    <2>2. [\A j \in Jobs : Dropped(j)]_vars
      BY <1>1, DroppedStep
    <2>3. QED
      BY <2>1, <2>2 DEF IInv, DropsForNew, Dropped
  <1>2. QED
    BY <1>1, Invariance, PTL DEF Spec, OldWorldKept
=============================================================================
