--------------------------- MODULE Loaders_proofs ---------------------------
(***************************************************************************)
(* Theorems about the maintenance of the server and the installation of    *)
(* the loaders, for any number of jobs and builds.                         *)
(***************************************************************************)
EXTENDS Loaders, SequenceTheorems, TLAPS

USE NobodyAssumption, KindsAssumption, MaxBuildAssumption
USE DEF Overlook, own, jobVars, steamVars, At, Goto, Updating, Kind, Step, Working, Preparing, Torn

\* The invariant of the maintenance holds at first.
LEMMA MaintenanceInit == Init => MaintenanceInv
  <1> SUFFICES ASSUME Init PROVE MaintenanceInv
    OBVIOUS
  <1>1. TypeOK
    <2>1. 1 \in 0 .. MaxBuild /\ 1 \in 1 .. MaxBuild
      OBVIOUS
    <2>2. /\ kind \in [Jobs -> Kind] /\ pc \in [Jobs -> Step] /\ aim \in [Jobs -> {"look", "game", "verify"}]
          /\ row \in [Jobs -> {"open", "completed", "failed"}]
      BY DEF Init
    <2>3. QED
      BY <2>1, <2>2 DEF Init, TypeOK
  <1>2. QED
    BY <1>1 DEF Init, MaintenanceInv, Holding, Placed, Still, Fresh, CommandOnWholeTool

\* Every step of a job of the manager keeps the invariant.
LEMMA WorkInv == ASSUME MaintenanceInv, NEW j \in Jobs, Work(j) \/ Fails(j) PROVE MaintenanceInv'
  <1> USE DEF MaintenanceInv
  <1>1. CASE Begin(j)
    <2>1. TypeOK'
      BY <1>1 DEF Begin, TypeOK
    <2>2. Holding'
      BY <1>1 DEF Begin, TypeOK, Holding
    <2>3. Placed'
      BY <1>1 DEF Begin, TypeOK, Holding, Placed
    <2>4. Still'
      BY <1>1 DEF Begin, TypeOK, Holding, Placed, Still
    <2>5. Fresh'
      BY <1>1 DEF Begin, TypeOK, Holding, Placed, Fresh
    <2>6. CommandOnWholeTool'
      BY <1>1 DEF Begin, TypeOK, CommandOnWholeTool
    <2>7. QED
      BY <2>1, <2>2, <2>3, <2>4, <2>5, <2>6
  <1>2. CASE LockOp(j)
    <2>1. TypeOK'
      BY <1>2 DEF LockOp, Enter, TypeOK
    <2>2. Holding'
      BY <1>2 DEF LockOp, Enter, TypeOK, Holding
    <2>3. Placed'
      BY <1>2 DEF LockOp, Enter, TypeOK, Holding, Placed
    <2>4. Still'
      BY <1>2 DEF LockOp, Enter, TypeOK, Holding, Placed, Still
    <2>5. Fresh'
      BY <1>2 DEF LockOp, Enter, TypeOK, Holding, Placed, Fresh
    <2>6. CommandOnWholeTool'
      BY <1>2 DEF LockOp, Enter, TypeOK, CommandOnWholeTool
    <2>7. QED
      BY <2>1, <2>2, <2>3, <2>4, <2>5, <2>6
  <1>3. CASE Probe(j)
    <2>1. TypeOK'
      BY <1>3 DEF Probe, TypeOK
    <2>2. Holding'
      BY <1>3 DEF Probe, TypeOK, Holding
    <2>3. Placed'
      BY <1>3 DEF Probe, TypeOK, Holding, Placed
    <2>4. Still'
      BY <1>3 DEF Probe, TypeOK, Holding, Placed, Still
    <2>5. Fresh'
      BY <1>3 DEF Probe, TypeOK, Holding, Placed, Fresh
    <2>6. CommandOnWholeTool'
      BY <1>3 DEF Probe, TypeOK, CommandOnWholeTool
    <2>7. QED
      BY <2>1, <2>2, <2>3, <2>4, <2>5, <2>6
  <1>4. CASE StopServer(j)
    <2>1. TypeOK'
      BY <1>4 DEF StopServer, TypeOK
    <2>2. Holding'
      BY <1>4 DEF StopServer, TypeOK, Holding
    <2>3. Placed'
      BY <1>4 DEF StopServer, TypeOK, Holding, Placed
    <2>4. Still'
      BY <1>4 DEF StopServer, TypeOK, Holding, Placed, Still
    <2>5. Fresh'
      BY <1>4 DEF StopServer, TypeOK, Holding, Placed, Fresh
    <2>6. CommandOnWholeTool'
      BY <1>4 DEF StopServer, TypeOK, CommandOnWholeTool
    <2>7. QED
      BY <2>1, <2>2, <2>3, <2>4, <2>5, <2>6
  <1>5. CASE Archive(j)
    <2>1. TypeOK'
      BY <1>5 DEF Archive, TypeOK
    <2>2. Holding'
      BY <1>5 DEF Archive, TypeOK, Holding
    <2>3. Placed'
      BY <1>5 DEF Archive, TypeOK, Holding, Placed
    <2>4. Still'
      BY <1>5 DEF Archive, TypeOK, Holding, Placed, Still
    <2>5. Fresh'
      BY <1>5 DEF Archive, TypeOK, Holding, Placed, Fresh
    <2>6. CommandOnWholeTool'
      BY <1>5 DEF Archive, TypeOK, CommandOnWholeTool
    <2>7. QED
      BY <2>1, <2>2, <2>3, <2>4, <2>5, <2>6
  <1>6. CASE Ensure(j)
    <2>1. TypeOK'
      BY <1>6 DEF Ensure, TypeOK
    <2>2. Holding'
      BY <1>6 DEF Ensure, TypeOK, Holding
    <2>3. Placed'
      BY <1>6 DEF Ensure, TypeOK, Holding, Placed
    <2>4. Still'
      BY <1>6 DEF Ensure, TypeOK, Holding, Placed, Still
    <2>5. Fresh'
      BY <1>6 DEF Ensure, TypeOK, Holding, Placed, Fresh
    <2>6. CommandOnWholeTool'
      BY <1>6 DEF Ensure, TypeOK, CommandOnWholeTool
    <2>7. QED
      BY <2>1, <2>2, <2>3, <2>4, <2>5, <2>6
  <1>7. CASE Acquire(j)
    <2>1. TypeOK'
      BY <1>7 DEF Acquire, TypeOK
    <2>2. Holding'
      BY <1>7 DEF Acquire, TypeOK, Holding
    <2>3. Placed'
      BY <1>7 DEF Acquire, TypeOK, Holding, Placed
    <2>4. Still'
      BY <1>7 DEF Acquire, TypeOK, Holding, Placed, Still
    <2>5. Fresh'
      BY <1>7 DEF Acquire, TypeOK, Holding, Placed, Fresh
    <2>6. CommandOnWholeTool'
      BY <1>7 DEF Acquire, TypeOK, CommandOnWholeTool
    <2>7. QED
      BY <2>1, <2>2, <2>3, <2>4, <2>5, <2>6
  <1>8. CASE GameEnds(j)
    <2>1. TypeOK'
      BY <1>8 DEF GameEnds, Leave, TypeOK
    <2>2. Holding'
      BY <1>8 DEF GameEnds, Leave, TypeOK, Holding
    <2>3. Placed'
      BY <1>8 DEF GameEnds, Leave, TypeOK, Holding, Placed
    <2>4. Still'
      BY <1>8 DEF GameEnds, Leave, TypeOK, Holding, Placed, Still
    <2>5. Fresh'
      BY <1>8 DEF GameEnds, Leave, TypeOK, Holding, Placed, Fresh
    <2>6. CommandOnWholeTool'
      BY <1>8 DEF GameEnds, Leave, TypeOK, CommandOnWholeTool
    <2>7. QED
      BY <2>1, <2>2, <2>3, <2>4, <2>5, <2>6
  <1>9. CASE LookEnds(j)
    <2>1. TypeOK'
      BY <1>9 DEF LookEnds, Leave, End, TypeOK
    <2>2. Holding'
      BY <1>9 DEF LookEnds, Leave, End, TypeOK, Holding
    <2>3. Placed'
      BY <1>9 DEF LookEnds, Leave, End, TypeOK, Holding, Placed
    <2>4. Still'
      BY <1>9 DEF LookEnds, Leave, End, TypeOK, Holding, Placed, Still
    <2>5. Fresh'
      BY <1>9 DEF LookEnds, Leave, End, TypeOK, Holding, Placed, Fresh
    <2>6. CommandOnWholeTool'
      BY <1>9 DEF LookEnds, Leave, End, TypeOK, CommandOnWholeTool
    <2>7. QED
      BY <2>1, <2>2, <2>3, <2>4, <2>5, <2>6
  <1>10. CASE VerifyEnds(j)
    <2>1. TypeOK'
      BY <1>10 DEF VerifyEnds, Leave, End, TypeOK
    <2>2. Holding'
      BY <1>10 DEF VerifyEnds, Leave, End, TypeOK, Holding
    <2>3. Placed'
      BY <1>10 DEF VerifyEnds, Leave, End, TypeOK, Holding, Placed
    <2>4. Still'
      BY <1>10 DEF VerifyEnds, Leave, End, TypeOK, Holding, Placed, Still
    <2>5. Fresh'
      BY <1>10 DEF VerifyEnds, Leave, End, TypeOK, Holding, Placed, Fresh
    <2>6. CommandOnWholeTool'
      BY <1>10 DEF VerifyEnds, Leave, End, TypeOK, CommandOnWholeTool
    <2>7. QED
      BY <2>1, <2>2, <2>3, <2>4, <2>5, <2>6
  <1>11. CASE Record(j)
    <2>1. TypeOK'
      BY <1>11 DEF Record, End, TypeOK
    <2>2. Holding'
      BY <1>11 DEF Record, End, TypeOK, Holding
    <2>3. Placed'
      BY <1>11 DEF Record, End, TypeOK, Holding, Placed
    <2>4. Still'
      BY <1>11 DEF Record, End, TypeOK, Holding, Placed, Still
    <2>5. Fresh'
      BY <1>11 DEF Record, End, TypeOK, Holding, Placed, Fresh
    <2>6. CommandOnWholeTool'
      BY <1>11 DEF Record, End, TypeOK, CommandOnWholeTool
    <2>7. QED
      BY <2>1, <2>2, <2>3, <2>4, <2>5, <2>6
  <1>12. CASE StartServer(j)
    <2>1. TypeOK'
      BY <1>12 DEF StartServer, End, TypeOK
    <2>2. Holding'
      BY <1>12 DEF StartServer, End, TypeOK, Holding
    <2>3. Placed'
      BY <1>12 DEF StartServer, End, TypeOK, Holding, Placed
    <2>4. Still'
      BY <1>12 DEF StartServer, End, TypeOK, Holding, Placed, Still
    <2>5. Fresh'
      BY <1>12 DEF StartServer, End, TypeOK, Holding, Placed, Fresh
    <2>6. CommandOnWholeTool'
      BY <1>12 DEF StartServer, End, TypeOK, CommandOnWholeTool
    <2>7. QED
      BY <2>1, <2>2, <2>3, <2>4, <2>5, <2>6
  <1>13. CASE GiveUp(j)
    <2>1. TypeOK'
      BY <1>13 DEF GiveUp, End, TypeOK
    <2>2. Holding'
      BY <1>13 DEF GiveUp, End, TypeOK, Holding
    <2>3. Placed'
      BY <1>13 DEF GiveUp, End, TypeOK, Holding, Placed
    <2>4. Still'
      BY <1>13 DEF GiveUp, End, TypeOK, Holding, Placed, Still
    <2>5. Fresh'
      BY <1>13 DEF GiveUp, End, TypeOK, Holding, Placed, Fresh
    <2>6. CommandOnWholeTool'
      BY <1>13 DEF GiveUp, End, TypeOK, CommandOnWholeTool
    <2>7. QED
      BY <2>1, <2>2, <2>3, <2>4, <2>5, <2>6
  <1>14. CASE CommandFails(j)
    <2>1. TypeOK'
      <3>1. tool' \in BOOLEAN
        BY <1>14 DEF CommandFails, Leave, End, TypeOK
      <3>2. build' \in 0 .. MaxBuild
        BY <1>14 DEF CommandFails, Leave, End, TypeOK
      <3>3. QED
        BY <1>14, <3>1, <3>2 DEF CommandFails, Leave, End, TypeOK
    <2>2. Holding'
      BY <1>14 DEF CommandFails, Leave, End, TypeOK, Holding
    <2>3. Placed'
      BY <1>14 DEF CommandFails, Leave, End, TypeOK, Holding, Placed
    <2>4. Still'
      BY <1>14 DEF CommandFails, Leave, End, TypeOK, Holding, Placed, Still
    <2>5. Fresh'
      BY <1>14 DEF CommandFails, Leave, End, TypeOK, Holding, Placed, Fresh
    <2>6. CommandOnWholeTool'
      BY <1>14 DEF CommandFails, Leave, End, TypeOK, CommandOnWholeTool
    <2>7. QED
      BY <2>1, <2>2, <2>3, <2>4, <2>5, <2>6
  <1>15. QED
    BY <1>1, <1>2, <1>3, <1>4, <1>5, <1>6, <1>7, <1>8, <1>9, <1>10, <1>11, <1>12, <1>13, <1>14 DEF Work, Fails

\* So does everything around the jobs.
LEMMA OthersInv ==
    ASSUME MaintenanceInv, Others \/ \E j \in Jobs, k \in Kinds : Submit(j, k)
    PROVE  MaintenanceInv'
  <1> USE DEF MaintenanceInv
  <1>1. CASE StartRequest
    <2>1. TypeOK'
      BY <1>1 DEF StartRequest, Request, TypeOK
    <2>2. Holding'
      BY <1>1 DEF StartRequest, Request, TypeOK, Holding
    <2>3. Placed'
      BY <1>1 DEF StartRequest, Request, TypeOK, Holding, Placed
    <2>4. Still'
      BY <1>1 DEF StartRequest, Request, TypeOK, Holding, Placed, Still
    <2>5. Fresh'
      BY <1>1 DEF StartRequest, Request, TypeOK, Holding, Placed, Fresh
    <2>6. CommandOnWholeTool'
      BY <1>1 DEF StartRequest, Request, TypeOK, CommandOnWholeTool
    <2>7. QED
      BY <2>1, <2>2, <2>3, <2>4, <2>5, <2>6
  <1>2. CASE StopRequest
    <2>1. TypeOK'
      BY <1>2 DEF StopRequest, Request, TypeOK
    <2>2. Holding'
      BY <1>2 DEF StopRequest, Request, TypeOK, Holding
    <2>3. Placed'
      BY <1>2 DEF StopRequest, Request, TypeOK, Holding, Placed
    <2>4. Still'
      BY <1>2 DEF StopRequest, Request, TypeOK, Holding, Placed, Still
    <2>5. Fresh'
      BY <1>2 DEF StopRequest, Request, TypeOK, Holding, Placed, Fresh
    <2>6. CommandOnWholeTool'
      BY <1>2 DEF StopRequest, Request, TypeOK, CommandOnWholeTool
    <2>7. QED
      BY <2>1, <2>2, <2>3, <2>4, <2>5, <2>6
  <1>3. CASE RestartRequest
    <2>1. TypeOK'
      BY <1>3 DEF RestartRequest, Request, TypeOK
    <2>2. Holding'
      BY <1>3 DEF RestartRequest, Request, TypeOK, Holding
    <2>3. Placed'
      BY <1>3 DEF RestartRequest, Request, TypeOK, Holding, Placed
    <2>4. Still'
      BY <1>3 DEF RestartRequest, Request, TypeOK, Holding, Placed, Still
    <2>5. Fresh'
      BY <1>3 DEF RestartRequest, Request, TypeOK, Holding, Placed, Fresh
    <2>6. CommandOnWholeTool'
      BY <1>3 DEF RestartRequest, Request, TypeOK, CommandOnWholeTool
    <2>7. QED
      BY <2>1, <2>2, <2>3, <2>4, <2>5, <2>6
  <1>4. CASE ServerEnds
    <2>1. TypeOK'
      BY <1>4 DEF ServerEnds, TypeOK
    <2>2. Holding'
      BY <1>4 DEF ServerEnds, TypeOK, Holding
    <2>3. Placed'
      BY <1>4 DEF ServerEnds, TypeOK, Holding, Placed
    <2>4. Still'
      BY <1>4 DEF ServerEnds, TypeOK, Holding, Placed, Still
    <2>5. Fresh'
      BY <1>4 DEF ServerEnds, TypeOK, Holding, Placed, Fresh
    <2>6. CommandOnWholeTool'
      BY <1>4 DEF ServerEnds, TypeOK, CommandOnWholeTool
    <2>7. QED
      BY <2>1, <2>2, <2>3, <2>4, <2>5, <2>6
  <1>5. CASE Publish
    <2>1. TypeOK'
      BY <1>5 DEF Publish, TypeOK
    <2>2. Holding'
      BY <1>5 DEF Publish, TypeOK, Holding
    <2>3. Placed'
      BY <1>5 DEF Publish, TypeOK, Holding, Placed
    <2>4. Still'
      BY <1>5 DEF Publish, TypeOK, Holding, Placed, Still
    <2>5. Fresh'
      BY <1>5 DEF Publish, TypeOK, Holding, Placed, Fresh
    <2>6. CommandOnWholeTool'
      BY <1>5 DEF Publish, TypeOK, CommandOnWholeTool
    <2>7. QED
      BY <2>1, <2>2, <2>3, <2>4, <2>5, <2>6
  <1>6. CASE Crash
    <2>1. TypeOK'
      <3>1. tool' \in BOOLEAN
        BY <1>6 DEF Crash, Incomplete, TypeOK
      <3>2. build' \in 0 .. MaxBuild
        BY <1>6 DEF Crash, Incomplete, TypeOK
      <3>3. QED
        BY <1>6, <3>1, <3>2 DEF Crash, Incomplete, TypeOK
    <2>2. Holding'
      BY <1>6 DEF Crash, Incomplete, TypeOK, Holding
    <2>3. Placed'
      BY <1>6 DEF Crash, Incomplete, TypeOK, Holding, Placed
    <2>4. Still'
      BY <1>6 DEF Crash, Incomplete, TypeOK, Holding, Placed, Still
    <2>5. Fresh'
      BY <1>6 DEF Crash, Incomplete, TypeOK, Holding, Placed, Fresh
    <2>6. CommandOnWholeTool'
      BY <1>6 DEF Crash, Incomplete, TypeOK, CommandOnWholeTool
    <2>7. QED
      BY <2>1, <2>2, <2>3, <2>4, <2>5, <2>6
  <1>7. ASSUME NEW j \in Jobs, NEW k \in Kinds, Submit(j, k) PROVE MaintenanceInv'
    <2>1. TypeOK'
      BY <1>7 DEF Submit, TypeOK
    <2>2. Holding'
      BY <1>7 DEF Submit, TypeOK, Holding
    <2>3. Placed'
      BY <1>7 DEF Submit, TypeOK, Holding, Placed
    <2>4. Still'
      BY <1>7 DEF Submit, TypeOK, Holding, Placed, Still
    <2>5. Fresh'
      BY <1>7 DEF Submit, TypeOK, Holding, Placed, Fresh
    <2>6. CommandOnWholeTool'
      BY <1>7 DEF Submit, TypeOK, CommandOnWholeTool
    <2>7. QED
      BY <2>1, <2>2, <2>3, <2>4, <2>5, <2>6
  <1>8. QED
    BY <1>1, <1>2, <1>3, <1>4, <1>5, <1>6, <1>7 DEF Others

\* The steps of the manager and its requests, but for a start, leave an installation alone.
LEMMA MaintenanceStepInv ==
    ASSUME MaintenanceInv, MaintenanceStep
    PROVE  /\ MaintenanceInv'
           /\ \A i \in Jobs : At(i, "stage")' =>
                /\ At(i, "stage")
                /\ server' = "on" => server = "on" /\ (i \in blind => i \in blind')
  <1>1. ASSUME NEW j \in Jobs, Work(j) \/ Fails(j)
        PROVE  /\ MaintenanceInv'
               /\ \A i \in Jobs : At(i, "stage")' =>
                    /\ At(i, "stage")
                    /\ server' = "on" => server = "on" /\ (i \in blind => i \in blind')
    <2>1. MaintenanceInv'
      BY <1>1, WorkInv
    <2>2. \A k \in Jobs : At(k, "stage")' => k # j /\ At(k, "stage")
      <3>1. \E s \in Step \ {"stage"} : pc' = [pc EXCEPT ![j] = s]
        <4>1. CASE Begin(j) \/ LockOp(j)
          BY <4>1 DEF Begin, LockOp, Enter
        <4>2. CASE Probe(j) \/ StopServer(j) \/ Archive(j) \/ Ensure(j) \/ Acquire(j)
          BY <4>2 DEF Probe, StopServer, Archive, Ensure, Acquire
        <4>3. CASE GameEnds(j)
          BY <4>3 DEF GameEnds
        <4>4. CASE LookEnds(j)
          BY <4>4 DEF LookEnds, End
        <4>5. CASE VerifyEnds(j)
          BY <4>5 DEF VerifyEnds, End
        <4>6. CASE Record(j) \/ StartServer(j)
          BY <4>6 DEF Record, StartServer, End
        <4>7. CASE Fails(j)
          BY <4>7 DEF Fails, GiveUp, CommandFails, End
        <4>8. QED
          BY <1>1, <4>1, <4>2, <4>3, <4>4, <4>5, <4>6, <4>7 DEF Work
      <3>2. QED
        BY <3>1 DEF MaintenanceInv, TypeOK
    <2>3. ASSUME NEW k \in Jobs, At(k, "stage"), k # j, server' = "on"
          PROVE  server = "on" /\ (k \in blind => k \in blind')
      <3>1. kind[k] = "loaders" /\ lifecycle = k
        BY <2>3 DEF MaintenanceInv, Placed, Holding
      <3>2. ~StartServer(j)
        BY <3>1 DEF MaintenanceInv, Placed, Holding, StartServer
      <3>3. QED
        BY <1>1, <2>3, <3>2 DEF Work, Fails, Begin, LockOp, Probe, StopServer, Archive, Ensure, Acquire,
                  GameEnds, LookEnds, VerifyEnds, Leave, Record, GiveUp, CommandFails, End
    <2>4. QED
      BY <2>1, <2>2, <2>3
  <1>2. ASSUME NEW j \in Jobs, NEW k \in Kinds, Submit(j, k)
        PROVE  /\ MaintenanceInv'
               /\ \A i \in Jobs : At(i, "stage")' =>
                    /\ At(i, "stage")
                    /\ server' = "on" => server = "on" /\ (i \in blind => i \in blind')
    <2>1. MaintenanceInv'
      BY <1>2, OthersInv
    <2>2. QED
      BY <1>2, <2>1 DEF Submit, MaintenanceInv, TypeOK
  <1>3. CASE StopRequest \/ ServerEnds \/ Publish
    <2>1. MaintenanceInv'
      BY <1>3, OthersInv DEF Others
    <2>2. QED
      BY <1>3, <2>1 DEF StopRequest, Request, ServerEnds, Publish
  <1>4. QED
    BY <1>1, <1>2, <1>3 DEF MaintenanceStep

\* Sequences of one and of two files.
LEMMA Tuples ==
    ASSUME NEW a \in Part, NEW b \in Part, a # b
    PROVE  /\ Head(<<a, b>>) = a /\ Tail(<<a, b>>) = <<b>> /\ Head(<<a>>) = a /\ Tail(<<a>>) = <<>>
           /\ <<a>> \o <<>> = <<a>> /\ <<b>> \o <<a>> = <<b, a>>
           /\ <<a, b>> # <<>> /\ <<a>> # <<>> /\ <<a, b>> # <<b>> /\ <<a, b>> # <<a>>
           /\ <<a>> # <<b>>
           /\ <<>> \in Seq(Part) /\ <<a>> \in Seq(Part) /\ <<a, b>> \in Seq(Part)
  <1>1. <<>> \in Seq(Part) /\ <<a>> \in Seq(Part) /\ <<a, b>> \in Seq(Part)
    OBVIOUS
  <1>2. Head(<<a, b>>) = a /\ Head(<<a>>) = a
    OBVIOUS
  <1>3. Tail(<<a, b>>) = <<b>>
    OBVIOUS
  <1>4. Tail(<<a>>) = <<>>
    OBVIOUS
  <1>5. <<a>> \o <<>> = <<a>>
    OBVIOUS
  <1>6. <<b>> \o <<a>> = <<b, a>>
    <2>1. <<b>> \o <<a>> \in Seq(Part) /\ Len(<<b>> \o <<a>>) = 2
      OBVIOUS
    <2>2. (<<b>> \o <<a>>)[1] = b /\ (<<b>> \o <<a>>)[2] = a
      OBVIOUS
    <2>3. <<b, a>> \in Seq(Part) /\ Len(<<b, a>>) = 2 /\ <<b, a>>[1] = b /\ <<b, a>>[2] = a
      OBVIOUS
    <2>4. ASSUME NEW i \in 1 .. Len(<<b>> \o <<a>>) PROVE (<<b>> \o <<a>>)[i] = <<b, a>>[i]
      <3>1. i = 1 \/ i = 2
        BY <2>1
      <3>2. QED
        BY <2>2, <2>3, <3>1
    <2>5. QED
      BY <2>1, <2>3, <2>4, SeqEqual
  <1>7. <<a, b>> # <<>> /\ <<a>> # <<>> /\ <<a, b>> # <<b>> /\ <<a, b>> # <<a>> /\ <<a>> # <<b>>
    OBVIOUS
  <1>8. QED
    BY <1>1, <1>2, <1>3, <1>4, <1>5, <1>6, <1>7

\* The two files of a stage.
LEMMA Files ==
    ASSUME stage \in {"ue4ss", "defender"}
    PROVE  /\ First \in Part /\ Second \in Part /\ First # Second
           /\ <<First, Second>> = (IF stage = "ue4ss" THEN Ue4ss ELSE Defender)
  BY DEF First, Second, Part, Saved, Ue4ss, Defender

\* A stage is at one of its few places, so its sequences have their types.
LEMMA ShapeTypes == stage \in {"ue4ss", "defender"} /\ Shape =>
                       /\ todo \in {<<>>, Ue4ss, Tail(Ue4ss), Defender, Tail(Defender)}
                       /\ swapped \in Seq(Part)
  <1> SUFFICES ASSUME stage \in {"ue4ss", "defender"}, Shape
               PROVE  todo \in {<<>>, Ue4ss, Tail(Ue4ss), Defender, Tail(Defender)} /\ swapped \in Seq(Part)
    OBVIOUS
  <1>1. First \in Part /\ Second \in Part /\ First # Second
    BY Files
  <1>2. Tail(<<First, Second>>) = <<Second>>
    BY <1>1, Tuples
  <1>3. <<First>> \in Seq(Part) /\ <<Second, First>> \in Seq(Part) /\ <<>> \in Seq(Part)
    BY <1>1, Tuples
  <1>4. {<<First, Second>>, <<Second>>} \subseteq {Ue4ss, Tail(Ue4ss), Defender, Tail(Defender)}
    BY <1>2, Files
  <1>5. QED
    BY <1>3, <1>4 DEF Shape

\* What holds before and after every step of a stage.
LEMMA ReplacingInv ==
    ASSUME IInv, NEW j \in Jobs, Replacing(j)
    PROVE  /\ MaintenanceInv' /\ StageStill'
           /\ InStage /\ Shape /\ stage \in {"ue4ss", "defender"}
           /\ stage' = stage /\ First' = First /\ Second' = Second
           /\ revert' = revert /\ meddled' = meddled /\ found' = found /\ says' = says /\ intruded' = intruded
           /\ revert' # <<>> => meddled'
  <1>1. UNCHANGED vars
    BY DEF Replacing
  <1>2. MaintenanceInv'
    BY <1>1 DEF IInv, MaintenanceInv, vars, TypeOK, Holding, Placed, Still, Fresh, CommandOnWholeTool
  <1>3. QED
    BY <1>1, <1>2 DEF Replacing, IInv, StageInv, StageStill, InStage, LoadersTypeOK, vars, First, Second

\* The file that a stage which is not undone has at hand.
LEMMA Next2 ==
    ASSUME IInv, InStage, undoing = "no", todo # <<>>
    PROVE  /\ stage \in {"ue4ss", "defender"} /\ First \in Part /\ Second \in Part /\ First # Second
           /\ \/ todo = <<First, Second>> /\ swapped = <<>> /\ Head(todo) = First /\ Tail(todo) = <<Second>>
              \/ todo = <<Second>> /\ swapped = <<First>> /\ Head(todo) = Second /\ Tail(todo) = <<>>
           /\ <<First>> \o <<>> = <<First>> /\ <<Second>> \o <<First>> = <<Second, First>>
           /\ <<First, Second>> # <<Second>> /\ <<First>> # <<>> /\ <<Second>> # <<>>
           /\ <<Second, First>> # <<>> /\ <<Second, First>> # <<First>> /\ <<First, Second>> # <<>>
  <1>1. stage \in {"ue4ss", "defender"} /\ Shape
    BY DEF IInv, LoadersTypeOK, StageInv
  <1>2. First \in Part /\ Second \in Part /\ First # Second
    BY <1>1, Files
  <1>3. /\ Head(<<First, Second>>) = First /\ Tail(<<First, Second>>) = <<Second>>
        /\ <<First>> \o <<>> = <<First>>
        /\ <<First, Second>> # <<>> /\ <<First>> # <<>> /\ <<First, Second>> # <<Second>>
        /\ <<Second>> \o <<First>> = <<Second, First>>
    BY <1>2, Tuples
  <1>4. /\ Head(<<Second>>) = Second /\ Tail(<<Second>>) = <<>> /\ <<Second>> # <<>>
        /\ <<Second, First>> # <<>> /\ <<Second, First>> # <<First>>
    BY <1>2, Tuples
  <1>5. \/ todo = <<First, Second>> /\ swapped = <<>>
        \/ todo = <<Second>> /\ swapped = <<First>>
    BY <1>1 DEF Shape
  <1>6. \/ todo = <<First, Second>> /\ swapped = <<>> /\ Head(todo) = First /\ Tail(todo) = <<Second>>
        \/ todo = <<Second>> /\ swapped = <<First>> /\ Head(todo) = Second /\ Tail(todo) = <<>>
    BY <1>3, <1>4, <1>5
  <1>7. QED
    BY <1>1, <1>2, <1>3, <1>4, <1>6

\* The replacement of a file keeps the invariant, its first half here.

LEMMA MoveAsideInv == ASSUME IInv, NEW j \in Jobs, MoveAside(j) PROVE IInv'
  <1> DEFINE p == Head(todo)
  <1>1. Replacing(j) /\ undoing = "no" /\ todo # <<>> /\ ~moved /\ moved' = TRUE
    BY DEF MoveAside
  <1>2. UNCHANGED <<todo, swapped, undoing, stuck>>
    BY DEF MoveAside
  <1>3. InStage /\ Shape /\ stage' = stage /\ First' = First /\ Second' = Second
    BY <1>1, ReplacingInv
  <1>4. p \in Part /\ p \in {First, Second}
    BY <1>1, <1>3, Next2
  <1>5. aside' = [aside EXCEPT ![p] = disk[p]] /\ disk' = [disk EXCEPT ![p] = Missing] /\ newest' = Backed(p, disk[p])
    BY DEF MoveAside
  <1>6. LoadersTypeOK'
    <2>1. newest' \in [Saved -> Version]
      BY <1>4, <1>5 DEF IInv, LoadersTypeOK, Backed, Version, Missing
    <2>2. disk' \in [Part -> Version] /\ aside' \in [Part -> Version]
      BY <1>4, <1>5 DEF IInv, LoadersTypeOK, Version, Missing
    <2>3. QED
      BY <1>1, <1>2, <2>1, <2>2, ReplacingInv DEF IInv, LoadersTypeOK, Replacing
  <1>7. Shape'
    BY <1>1, <1>2, <1>3 DEF Shape
  <1>8. ~meddled' /\ ~stuck' /\ undoing' # "broken" => Kept'
    BY <1>1, <1>2, <1>3, <1>4, <1>5, Next2, ReplacingInv DEF Kept, IInv, StageInv, LoadersTypeOK
  <1>9. ~meddled' => Whole'
    BY <1>1, <1>2, <1>3, <1>4, <1>5, Next2, ReplacingInv DEF Whole, IInv, StageInv, LoadersTypeOK, First, Second
  <1>10. QED
    BY <1>1, <1>6, <1>7, <1>8, <1>9, ReplacingInv DEF IInv, StageInv

\* Its second half.
LEMMA PlaceInv == ASSUME IInv, NEW j \in Jobs, Place(j) PROVE IInv'
  <1> DEFINE p == Head(todo)
  <1>1. Replacing(j) /\ undoing = "no" /\ moved /\ moved' = FALSE
    BY DEF Place
  <1>2. UNCHANGED <<aside, undoing, newest, stuck>>
    BY DEF Place
  <1>3. InStage /\ Shape /\ stage' = stage /\ First' = First /\ Second' = Second
    BY <1>1, ReplacingInv
  <1>4. todo # <<>>
    BY <1>1, <1>3 DEF Shape
  <1>5. p \in Part /\ p \in {First, Second}
    BY <1>1, <1>3, <1>4, Next2
  <1>6. disk' = [disk EXCEPT ![p] = Latest] /\ swapped' = <<p>> \o swapped /\ todo' = Tail(todo)
    BY DEF Place
  <1>7. Shape'
    BY <1>1, <1>2, <1>3, <1>4, <1>6, Next2 DEF Shape
  <1>8. LoadersTypeOK'
    <2>1. stage' \in {"ue4ss", "defender"}
      BY <1>3 DEF IInv, LoadersTypeOK
    <2>2. todo' \in {<<>>, Ue4ss, Tail(Ue4ss), Defender, Tail(Defender)} /\ swapped' \in Seq(Part)
      <3>1. \/ todo' = <<Second>> /\ swapped' = <<First>>
            \/ todo' = <<>> /\ swapped' = <<Second, First>>
        BY <1>1, <1>3, <1>4, <1>6, Next2
      <3>2. First \in Part /\ Second \in Part /\ First # Second
        BY <1>1, <1>3, <1>4, Next2
      <3>3. <<First>> \in Seq(Part) /\ <<Second, First>> \in Seq(Part)
        BY <3>2, Tuples
      <3>4. <<Second>> \in {Tail(Ue4ss), Tail(Defender)}
        <4>1. <<First, Second>> \in {Ue4ss, Defender}
          BY <2>1, <1>3, Files
        <4>2. Tail(<<First, Second>>) = <<Second>>
          BY <3>2, Tuples
        <4>3. QED
          BY <4>1, <4>2
      <3>5. QED
        BY <3>1, <3>3, <3>4
    <2>3. disk' \in [Part -> Version]
      BY <1>5, <1>6 DEF IInv, LoadersTypeOK, Version, Latest
    <2>4. QED
      BY <1>1, <1>2, <2>1, <2>2, <2>3, ReplacingInv DEF IInv, LoadersTypeOK, Replacing
  <1>9. ~meddled' /\ ~stuck' /\ undoing' # "broken" => Kept'
    BY <1>1, <1>2, <1>3, <1>4, <1>5, <1>6, Next2, ReplacingInv DEF Kept, IInv, StageInv, LoadersTypeOK
  <1>10. ~meddled' => Whole'
    BY <1>1, <1>2, <1>3, <1>4, <1>5, <1>6, Next2, ReplacingInv DEF Whole, IInv, StageInv, LoadersTypeOK, First, Second
  <1>11. QED
    BY <1>1, <1>7, <1>8, <1>9, <1>10, ReplacingInv DEF IInv, StageInv

\* So does a replacement that fails.
LEMMA ReplaceFailsInv == ASSUME IInv, NEW j \in Jobs, ReplaceFails(j) PROVE IInv'
  <1> DEFINE p == Head(todo)
  <1>1. Replacing(j) /\ undoing = "no" /\ undoing' = "yes" /\ moved' = FALSE /\ todo # <<>>
    BY DEF ReplaceFails
  <1>2. UNCHANGED <<todo, swapped, aside>>
    BY DEF ReplaceFails
  <1>3. InStage /\ Shape /\ stage' = stage /\ First' = First /\ Second' = Second
    BY <1>1, ReplacingInv
  <1>4. p \in Part /\ p \in {First, Second}
    BY <1>1, <1>3, Next2
  <1>5. \/ moved /\ disk' = [disk EXCEPT ![p] = aside[p]] /\ UNCHANGED <<stuck, newest>>
        \/ moved /\ stuck' = TRUE /\ UNCHANGED <<disk, newest>>
        \/ ~moved /\ newest' \in {newest, Backed(p, disk[p]), Backed(p, Missing)} /\ UNCHANGED <<disk, stuck>>
    BY DEF ReplaceFails
  <1>6. Shape'
    BY <1>1, <1>2, <1>3 DEF Shape
  <1>7. LoadersTypeOK'
    <2>1. newest' \in [Saved -> Version]
      <3>1. newest \in [Saved -> Version] /\ disk[p] \in Version /\ Missing \in Version
        BY <1>4 DEF IInv, LoadersTypeOK, Version, Missing
      <3>2. Backed(p, disk[p]) \in [Saved -> Version] /\ Backed(p, Missing) \in [Saved -> Version]
        BY <3>1 DEF Backed, Version, Missing
      <3>3. QED
        BY <1>5, <3>1, <3>2
    <2>2. disk' \in [Part -> Version] /\ stuck' \in BOOLEAN
      BY <1>4, <1>5 DEF IInv, LoadersTypeOK
    <2>3. QED
      BY <1>1, <1>2, <2>1, <2>2, ReplacingInv DEF IInv, LoadersTypeOK, Replacing
  <1>8. ~meddled' /\ ~stuck' /\ undoing' # "broken" => Kept'
    BY <1>1, <1>2, <1>3, <1>4, <1>5, Next2, ReplacingInv DEF Kept, IInv, StageInv, LoadersTypeOK
  <1>9. ~meddled' => Whole'
    <2>1. ASSUME stage = "defender", ~meddled PROVE disk'["core"] = Latest /\ disk'["manifest"] = Latest
      <3>1. disk["core"] = Latest /\ disk["manifest"] = Latest
        BY <1>3, <2>1 DEF Whole, IInv, StageInv
      <3>2. p # "core" /\ p # "manifest"
        BY <1>4, <2>1 DEF First, Second
      <3>3. QED
        BY <1>5, <3>1, <3>2 DEF IInv, LoadersTypeOK, Part, Saved
    <2>2. meddled' = meddled
      BY <1>1, ReplacingInv
    <2>3. QED
      BY <1>1, <1>3, <2>1, <2>2 DEF Whole
  <1>10. QED
    BY <1>1, <1>6, <1>7, <1>8, <1>9, ReplacingInv DEF IInv, StageInv

\* The file a rollback has at hand.
LEMMA Last2 ==
    ASSUME IInv, InStage, undoing # "no", swapped # <<>>
    PROVE  /\ First \in Part /\ Second \in Part /\ First # Second /\ <<Second>> # <<>>
           /\ <<First>> # <<>> /\ <<First, Second>> # <<Second>>
           /\ todo = <<Second>> /\ swapped = <<First>> /\ Head(swapped) = First /\ Tail(swapped) = <<>>
  <1>1. stage \in {"ue4ss", "defender"} /\ Shape
    BY DEF IInv, LoadersTypeOK, StageInv
  <1>2. First \in Part /\ Second \in Part /\ First # Second
    BY <1>1, Files
  <1>3. QED
    BY <1>1, <1>2, Tuples DEF Shape

\* So does the rollback of a file, good or bad.
LEMMA UndoingInv == ASSUME IInv, NEW j \in Jobs, Undo(j) \/ UndoFails(j) PROVE IInv'
  <1>1. Undoing(j) /\ Replacing(j) /\ undoing # "no" /\ swapped # <<>> /\ swapped' = Tail(swapped)
    BY DEF Undo, UndoFails, Undoing
  <1>2. UNCHANGED <<todo, moved, aside, newest, stuck>>
    BY <1>1 DEF Undoing
  <1>3. InStage /\ Shape /\ stage' = stage /\ First' = First /\ Second' = Second
    BY <1>1, ReplacingInv
  <1>4. /\ First \in Part /\ Second \in Part /\ First # Second /\ <<Second>> # <<>> /\ <<First>> # <<>>
        /\ todo = <<Second>> /\ Head(swapped) = First /\ swapped = <<First>> /\ swapped' = <<>>
    BY <1>1, <1>3, Last2
  <1>5. \/ undoing' = undoing /\ disk' = [disk EXCEPT ![First] = aside[First]]
        \/ undoing' = "broken" /\ disk' \in {disk, [disk EXCEPT ![First] = Missing]}
    BY <1>4 DEF Undo, UndoFails
  <1>6. Shape'
    BY <1>1, <1>2, <1>3, <1>4, <1>5 DEF Shape
  <1>7. LoadersTypeOK'
    <2>1. disk' \in [Part -> Version]
      BY <1>4, <1>5 DEF IInv, LoadersTypeOK, Version, Missing
    <2>2. undoing' \in {"no", "yes", "broken"} /\ swapped' \in Seq(Part)
      BY <1>4, <1>5 DEF IInv, LoadersTypeOK
    <2>3. QED
      BY <1>1, <1>2, <2>1, <2>2, ReplacingInv DEF IInv, LoadersTypeOK, Replacing
  <1>8. ~meddled' /\ ~stuck' /\ undoing' # "broken" => Kept'
    BY <1>1, <1>2, <1>3, <1>4, <1>5, ReplacingInv DEF Kept, Shape, IInv, StageInv, LoadersTypeOK
  <1>9. ~meddled' => Whole'
    <2>1. ASSUME stage = "defender", ~meddled PROVE disk'["core"] = Latest /\ disk'["manifest"] = Latest
      <3>1. disk["core"] = Latest /\ disk["manifest"] = Latest
        BY <1>3, <2>1 DEF Whole, IInv, StageInv
      <3>2. First # "core" /\ First # "manifest"
        BY <2>1 DEF First
      <3>3. QED
        BY <1>5, <3>1, <3>2 DEF IInv, LoadersTypeOK, Part, Saved
    <2>2. meddled' = meddled
      BY <1>1, ReplacingInv
    <2>3. undoing' # "no"
      BY <1>1, <1>5
    <2>4. QED
      BY <1>3, <2>1, <2>2, <2>3 DEF Whole
  <1>10. QED
    BY <1>1, <1>6, <1>7, <1>8, <1>9, ReplacingInv DEF IInv, StageInv

\* One job at most replaces files: it holds the lifecycle mutex.
LEMMA Alone ==
    ASSUME MaintenanceInv, NEW j \in Jobs, At(j, "stage")
    PROVE  kind[j] = "loaders" /\ \A k \in Jobs : At(k, "stage") => k = j
  <1>1. \A k \in Jobs : At(k, "stage") => kind[k] = "loaders" /\ lifecycle = k
    BY DEF MaintenanceInv, Placed, Holding
  <1>2. QED
    BY <1>1

\* A step that leaves the installation alone.
LEMMA LeftAlone ==
    ASSUME IInv, MaintenanceInv', UNCHANGED loaderVars,
           \A i \in Jobs : At(i, "stage")' =>
               /\ At(i, "stage")
               /\ server' = "on" => server = "on" /\ (i \in blind => i \in blind')
    PROVE  IInv'
  <1>1. LoadersTypeOK'
    BY DEF IInv, LoadersTypeOK, loaderVars, mutations, files, history
  <1>2. StageInv'
    BY DEF IInv, StageInv, Shape, Kept, Whole, First, Second, InStage, loaderVars, mutations, files, history
  <1>3. StageStill'
    BY DEF IInv, StageStill, loaderVars, history
  <1>4. QED
    BY <1>1, <1>2, <1>3 DEF IInv

\* The beginning of a stage.
LEMMA EnterStageInv ==
    ASSUME LoadersTypeOK, NEW j \in Jobs, NEW name \in {"ue4ss", "defender"},
           EnterStage(j, name, IF name = "ue4ss" THEN Ue4ss ELSE Defender),
           name = "defender" => detectUE4SS,
           UNCHANGED <<disk, newest, revert>>, intruded' \in BOOLEAN
    PROVE  LoadersTypeOK' /\ StageInv'
  <1>1. /\ stage' = name /\ swapped' = <<>> /\ moved' = FALSE /\ undoing' = "no" /\ stuck' = FALSE
        /\ todo' = (IF name = "ue4ss" THEN Ue4ss ELSE Defender)
        /\ says' = "working" /\ found' = disk /\ aside' = Nothing /\ meddled' = (revert # <<>>)
    BY DEF EnterStage
  <1>2. aside' \in [Part -> Version] /\ swapped' \in Seq(Part)
    BY <1>1 DEF Nothing, Version
  <1>3. LoadersTypeOK'
    BY <1>1, <1>2 DEF LoadersTypeOK
  <1>4. todo' = <<First', Second'>> /\ First' \in Part /\ Second' \in Part /\ First' # Second'
    BY <1>1 DEF First, Second, Ue4ss, Defender, Part, Saved
  <1>5. todo' # <<>> /\ todo' # <<Second'>> /\ <<First'>> # <<>>
    BY <1>1 DEF First, Second, Ue4ss, Defender
  <1>6. Shape'
    BY <1>1, <1>4 DEF Shape
  <1>7. Kept'
    BY <1>1, <1>4, <1>5 DEF Kept
  <1>8. Whole'
    BY <1>1, <1>5 DEF Whole, detectUE4SS
  <1>9. QED
    BY <1>1, <1>3, <1>6, <1>7, <1>8 DEF StageInv

\* A job waits for the mutex.
LEMMA BeginLoadersInv == ASSUME IInv, NEW j \in Jobs, BeginLoaders(j) PROVE IInv'
  <1> USE DEF MaintenanceInv, IInv
  <1>1. MaintenanceInv'
    <2>1. TypeOK'
      BY DEF BeginLoaders, TypeOK
    <2>2. Holding'
      BY DEF BeginLoaders, TypeOK, Holding
    <2>3. Placed'
      BY DEF BeginLoaders, TypeOK, Holding, Placed
    <2>4. Still'
      BY DEF BeginLoaders, TypeOK, Holding, Placed, Still
    <2>5. Fresh'
      BY DEF BeginLoaders, TypeOK, Holding, Placed, Fresh
    <2>6. CommandOnWholeTool'
      BY DEF BeginLoaders, TypeOK, CommandOnWholeTool
    <2>7. QED
      BY <2>1, <2>2, <2>3, <2>4, <2>5, <2>6 DEF MaintenanceInv
  <1>2. UNCHANGED <<loaderVars, server, blind>> /\ \A i \in Jobs : At(i, "stage")' => At(i, "stage")
    BY DEF BeginLoaders, TypeOK
  <1>3. QED
    BY <1>1, <1>2, LeftAlone

\* It begins with one of the stages; a server that runs has been overlooked.
LEMMA ProbeLoadersInv == ASSUME IInv, NEW j \in Jobs, ProbeLoaders(j) PROVE IInv'
  <1> USE DEF MaintenanceInv, IInv
  <1>1. /\ Goto(j, "stage") /\ At(j, "probe") /\ kind[j] = "loaders"
        /\ blind' = (IF server = "on" THEN blind \cup {j} ELSE {})
        /\ UNCHANGED <<kind, row, lifecycle, op, was, wanted, aim, steamVars, server>>
    BY DEF ProbeLoaders, EnterStage
  <1>2. MaintenanceInv'
    <2>1. TypeOK'
      BY <1>1 DEF TypeOK
    <2>2. Holding'
      BY <1>1 DEF TypeOK, Holding
    <2>3. Placed'
      BY <1>1 DEF TypeOK, Holding, Placed
    <2>4. Still'
      BY <1>1 DEF TypeOK, Holding, Placed, Still
    <2>5. Fresh'
      BY <1>1 DEF TypeOK, Holding, Placed, Fresh
    <2>6. CommandOnWholeTool'
      BY <1>1 DEF TypeOK, CommandOnWholeTool
    <2>7. QED
      BY <2>1, <2>2, <2>3, <2>4, <2>5, <2>6 DEF MaintenanceInv
  <1>3. intruded' = FALSE /\ UNCHANGED <<disk, newest, revert>>
    BY DEF ProbeLoaders
  <1>4. LoadersTypeOK' /\ StageInv'
    <2>1. CASE detectUE4SS
      <3>1. EnterStage(j, "defender", IF "defender" = "ue4ss" THEN Ue4ss ELSE Defender)
        BY <2>1 DEF ProbeLoaders
      <3>2. QED
        BY <2>1, <3>1, <1>3, EnterStageInv
    <2>2. CASE ~detectUE4SS
      <3>1. EnterStage(j, "ue4ss", IF "ue4ss" = "ue4ss" THEN Ue4ss ELSE Defender)
        BY <2>2 DEF ProbeLoaders
      <3>2. QED
        BY <3>1, <1>3, EnterStageInv
    <2>3. QED
      BY <2>1, <2>2
  <1>5. StageStill'
    <2>1. ASSUME NEW i \in Jobs, At(i, "stage")', server' = "on" PROVE i \in blind'
      <3>1. i = j \/ (At(i, "stage") /\ lifecycle = i)
        BY <1>1, <2>1 DEF TypeOK, Placed, Holding
      <3>2. lifecycle = j
        BY <1>1 DEF Holding
      <3>3. QED
        BY <1>1, <2>1, <3>1, <3>2
    <2>2. QED
      BY <2>1 DEF StageStill
  <1>6. QED
    BY <1>2, <1>4, <1>5

\* The end of the job in a stage leaves no stage.
LEMMA StageOver ==
    ASSUME IInv, NEW j \in Jobs, At(j, "stage"), NEW status \in {"completed", "failed"},
           End(j, status), Forget, UNCHANGED <<steamVars, server, stage, disk, newest, revert>>,
           says' \in {"restored", "broken", "installed", "failed"}
    PROVE  IInv'
  <1> USE DEF MaintenanceInv, IInv
  <1>1. MaintenanceInv'
    <2>1. TypeOK'
      BY DEF End, TypeOK
    <2>2. Holding'
      BY DEF End, TypeOK, Holding
    <2>3. Placed'
      BY DEF End, TypeOK, Holding, Placed
    <2>4. Still'
      BY DEF End, TypeOK, Holding, Placed, Still
    <2>5. Fresh'
      BY DEF End, TypeOK, Holding, Placed, Fresh
    <2>6. CommandOnWholeTool'
      BY DEF End, TypeOK, CommandOnWholeTool
    <2>7. QED
      BY <2>1, <2>2, <2>3, <2>4, <2>5, <2>6 DEF MaintenanceInv
  <1>2. ~InStage'
    BY Alone DEF InStage, End, TypeOK
  <1>3. swapped' \in Seq(Part) /\ aside' \in [Part -> Version]
    BY DEF Forget, Nothing, Version
  <1>4. LoadersTypeOK'
    BY <1>3 DEF LoadersTypeOK, Forget, Nothing
  <1>5. QED
    BY <1>1, <1>2, <1>4 DEF StageInv, StageStill, InStage

\* So does the end of a rollback.
LEMMA StageFailsInv == ASSUME IInv, NEW j \in Jobs, StageFails(j) PROVE IInv'
  BY StageOver DEF StageFails

\* A stage is followed by the next one or by the end of the job.
LEMMA StageEndsInv == ASSUME IInv, NEW j \in Jobs, StageEnds(j) PROVE IInv'
  <1>1. At(j, "stage") /\ UNCHANGED <<steamVars, server, disk, newest, revert>>
    BY DEF StageEnds
  <1>2. CASE stage = "ue4ss" /\ detectUE4SS
    <2>1. EnterStage(j, "defender", IF "defender" = "ue4ss" THEN Ue4ss ELSE Defender) /\ UNCHANGED <<own, aim, intruded>>
      BY <1>2 DEF StageEnds
    <2>2. pc' = pc
      BY <1>1, <2>1 DEF EnterStage, IInv, MaintenanceInv, TypeOK
    <2>3. MaintenanceInv'
      BY <1>1, <2>1, <2>2 DEF IInv, MaintenanceInv, TypeOK, Holding, Placed, Still, Fresh, CommandOnWholeTool
    <2>4. LoadersTypeOK' /\ StageInv'
      BY <1>1, <1>2, <2>1, EnterStageInv DEF IInv, LoadersTypeOK
    <2>5. StageStill'
      BY <1>1, <2>1, <2>2 DEF IInv, StageStill, InStage
    <2>6. QED
      BY <2>3, <2>4, <2>5 DEF IInv
  <1>3. CASE ~(stage = "ue4ss" /\ detectUE4SS)
    BY <1>1, <1>3, StageOver DEF StageEnds
  <1>4. QED
    BY <1>2, <1>3

\* The rollback request.
LEMMA RevertInv == ASSUME IInv, RollbackBegins \/ RollbackCopies PROVE IInv'
  <1>1. UNCHANGED <<vars, stage, mutations, aside, newest, says, found, stuck, intruded>>
    BY DEF RollbackBegins, RollbackCopies, files, history
  <1>2. MaintenanceInv' /\ (InStage' <=> InStage) /\ StageStill'
    BY <1>1 DEF IInv, MaintenanceInv, vars, TypeOK, Holding, Placed, Still, Fresh, CommandOnWholeTool, InStage, StageStill
  <1>3. (InStage => meddled') /\ meddled' \in BOOLEAN
    BY <1>1 DEF RollbackBegins, RollbackCopies, history, IInv, StageInv, LoadersTypeOK
  <1>4. StageInv'
    BY <1>1, <1>2, <1>3 DEF IInv, StageInv, Shape, First, Second, mutations
  <1>5. disk' \in [Part -> Version] /\ revert' \in {<<>>, <<"defender", "d3d9">>, <<"d3d9">>}
    <2>1. CASE RollbackBegins
      BY <2>1 DEF RollbackBegins, files, IInv, LoadersTypeOK
    <2>2. CASE RollbackCopies
      <3>1. revert \in {<<"defender", "d3d9">>, <<"d3d9">>}
        BY <2>2 DEF RollbackCopies, IInv, LoadersTypeOK
      <3>2. Head(revert) \in Saved /\ Tail(revert) \in {<<>>, <<"d3d9">>}
        <4>1. CASE revert = <<"d3d9">>
          <5>1. Head(revert) = "d3d9" /\ Tail(revert) = <<>>
            BY <4>1
          <5>2. QED
            BY <5>1 DEF Saved
        <4>2. CASE revert = <<"defender", "d3d9">>
          <5>1. Head(revert) = "defender" /\ Tail(revert) = <<"d3d9">>
            BY <4>2, Tuples DEF Part, Saved
          <5>2. QED
            BY <5>1 DEF Saved
        <4>3. QED
          BY <3>1, <4>1, <4>2
      <3>3. newest[Head(revert)] \in Version /\ Head(revert) \in Part /\ Missing \in Version
        BY <3>2 DEF IInv, LoadersTypeOK, Part, Version
      <3>4. QED
        BY <2>2, <3>2, <3>3 DEF RollbackCopies, IInv, LoadersTypeOK
    <2>3. QED
      BY <2>1, <2>2
  <1>6. LoadersTypeOK'
    BY <1>1, <1>3, <1>5 DEF IInv, LoadersTypeOK, mutations
  <1>7. QED
    BY <1>2, <1>4, <1>6 DEF IInv

\* A request that starts the server.
LEMMA IntrudeInv ==
    ASSUME IInv, Intrude, UNCHANGED <<stage, mutations, files, revert, says, found, meddled, stuck>>
    PROVE  IInv'
  <1>1. MaintenanceInv'
    BY OthersInv DEF Intrude, Others, IInv
  <1>2. /\ UNCHANGED pc /\ blind' = (IF server' = "on" THEN blind ELSE {})
        /\ (InStage' <=> InStage) /\ intruded' \in BOOLEAN
        /\ server' = "on" /\ InStage => intruded' \/ (server = "on" /\ intruded' = intruded)
    BY DEF IInv, MaintenanceInv, TypeOK, LoadersTypeOK, Intrude, StartRequest, RestartRequest, Request, InStage
  <1>3. LoadersTypeOK'
    BY <1>2 DEF IInv, LoadersTypeOK, mutations, files
  <1>4. StageInv'
    BY <1>2 DEF IInv, StageInv, Shape, Kept, Whole, First, Second, mutations, files
  <1>5. QED
    BY <1>1, <1>2, <1>3, <1>4 DEF IInv, StageStill, InStage

\* The death of the panel.
LEMMA LoadersCrashInv == ASSUME IInv, LoadersCrash PROVE IInv'
  <1>1. MaintenanceInv'
    BY OthersInv DEF LoadersCrash, Others, IInv
  <1>2. ~InStage'
    BY DEF LoadersCrash, Crash, Incomplete, InStage, IInv, MaintenanceInv, TypeOK
  <1>3. swapped' \in Seq(Part) /\ aside' \in [Part -> Version]
    BY DEF LoadersCrash, Forget, Nothing, Version
  <1>4. LoadersTypeOK'
    BY <1>3 DEF IInv, LoadersTypeOK, LoadersCrash, Forget, Nothing
  <1>5. QED
    BY <1>1, <1>2, <1>4 DEF IInv, StageInv, StageStill, InStage

\* Every step keeps the invariant.
LEMMA LoadersNextInv == IInv /\ [LoadersNext]_allVars => IInv'
  <1> SUFFICES ASSUME IInv, [LoadersNext]_allVars PROVE IInv'
    OBVIOUS
  <1>1. CASE MaintenanceStep /\ UNCHANGED loaderVars
    BY <1>1, MaintenanceStepInv, LeftAlone DEF IInv
  <1>2. CASE Intrude /\ UNCHANGED <<stage, mutations, files, revert, says, found, meddled, stuck>>
    BY <1>2, IntrudeInv
  <1>3. CASE LoadersCrash
    BY <1>3, LoadersCrashInv
  <1>4. ASSUME NEW j \in Jobs, LoadersWork(j) PROVE IInv'
    BY <1>4, BeginLoadersInv, ProbeLoadersInv, MoveAsideInv, PlaceInv, ReplaceFailsInv, UndoingInv,
       StageFailsInv, StageEndsInv DEF LoadersWork
  <1>5. CASE RollbackBegins \/ RollbackCopies
    BY <1>5, RevertInv
  <1>6. CASE UNCHANGED allVars
    <2>1. MaintenanceInv' /\ UNCHANGED <<loaderVars, server, pc, blind>>
      BY <1>6 DEF allVars, vars, IInv, MaintenanceInv, TypeOK, Holding, Placed, Still, Fresh, CommandOnWholeTool
    <2>2. QED
      BY <2>1, LeftAlone
  <1>7. QED
    BY <1>1, <1>2, <1>3, <1>4, <1>5, <1>6 DEF LoadersNext

\* The invariant holds at first.
LEMMA LoadersInitInv == LoadersInit => IInv
  <1> SUFFICES ASSUME LoadersInit PROVE IInv
    OBVIOUS
  <1>1. MaintenanceInv /\ ~InStage
    BY MaintenanceInit DEF LoadersInit, Init, InStage
  <1>2. swapped \in Seq(Part) /\ disk \in [Part -> Version]
    BY DEF LoadersInit, Version, Missing
  <1>3. LoadersTypeOK
    BY <1>2 DEF LoadersInit, LoadersTypeOK, Nothing, Version
  <1>4. QED
    BY <1>1, <1>3 DEF IInv, StageInv, StageStill, InStage

\* The steps that complete a job, seen from its row.
LEMMA Rows ==
    ASSUME IInv, LoadersNext, NEW j \in Jobs, row[j] = "open", row'[j] = "completed"
    PROVE  LookEnds(j) \/ Record(j) \/ StartServer(j) \/ (StageEnds(j) /\ stage = "defender" /\ kind[j] = "loaders")
  <1>1. row \in [Jobs -> {"open", "completed", "failed"}]
    BY DEF IInv, MaintenanceInv, TypeOK
  <1>2. CASE Intrude \/ RollbackBegins \/ RollbackCopies \/ StopRequest \/ ServerEnds \/ Publish
    BY <1>2 DEF Intrude, StartRequest, RestartRequest, StopRequest, Request, ServerEnds, Publish,
       RollbackBegins, RollbackCopies, vars
  <1>3. CASE LoadersCrash
    BY <1>1, <1>3 DEF LoadersCrash, Crash
  <1>4. ASSUME NEW i \in Jobs, (\E k \in Kinds : Submit(i, k)) \/ Fails(i)
        PROVE  FALSE
    BY <1>1, <1>4 DEF Submit, Fails, GiveUp, CommandFails, End
  <1>5. ASSUME NEW i \in Jobs, Work(i)
        PROVE  LookEnds(j) \/ Record(j) \/ StartServer(j)
    <2>1. CASE Begin(i) \/ LockOp(i) \/ Probe(i) \/ StopServer(i) \/ Archive(i) \/ Ensure(i) \/ Acquire(i) \/ GameEnds(i)
      BY <2>1 DEF Begin, LockOp, Probe, StopServer, Archive, Ensure, Acquire, GameEnds
    <2>2. CASE VerifyEnds(i)
      BY <1>1, <2>2 DEF VerifyEnds, End
    <2>3. CASE LookEnds(i)
      BY <1>1, <2>3 DEF LookEnds, End
    <2>4. CASE Record(i)
      BY <1>1, <2>4 DEF Record, End
    <2>5. CASE StartServer(i)
      BY <1>1, <2>5 DEF StartServer, End
    <2>6. QED
      BY <1>5, <2>1, <2>2, <2>3, <2>4, <2>5 DEF Work
  <1>6. ASSUME NEW i \in Jobs, LoadersWork(i)
        PROVE  StageEnds(j) /\ stage = "defender" /\ kind[j] = "loaders"
    <2>1. CASE BeginLoaders(i) \/ ProbeLoaders(i)
      BY <2>1 DEF BeginLoaders, ProbeLoaders
    <2>2. CASE MoveAside(i) \/ Place(i) \/ ReplaceFails(i) \/ Undo(i) \/ UndoFails(i)
      BY <2>2 DEF MoveAside, Place, ReplaceFails, Undo, UndoFails, Undoing, Replacing, vars
    <2>3. CASE StageFails(i)
      BY <1>1, <2>3 DEF StageFails, End
    <2>4. CASE StageEnds(i)
      <3>1. j = i /\ stage = "defender"
        BY <1>1, <2>4 DEF StageEnds, End
      <3>2. QED
        BY <2>4, <3>1, Alone DEF StageEnds, IInv
    <2>5. QED
      BY <1>6, <2>1, <2>2, <2>3, <2>4 DEF LoadersWork
  <1>7. QED
    BY <1>2, <1>3, <1>4, <1>5, <1>6 DEF LoadersNext, MaintenanceStep

\* An update that completes has new files and its server.
LEMMA UpdateStep ==
    ASSUME IInv, LoadersNext, NEW j \in Jobs,
           row[j] = "open", row'[j] = "completed", kind[j] \in Updating
    PROVE  build' >= wanted /\ (j \in was => server' = "on")
  <1>1. /\ build \in Nat /\ public \in Nat /\ wanted \in Nat /\ wanted <= public
        /\ pc[j] \in {"record", "restart"} => build >= wanted
        /\ kind[j] = "update" /\ At(j, "command") => aim[j] # "look"
        /\ j \in was => aim[j] # "look"
    BY DEF IInv, MaintenanceInv, TypeOK, Fresh, Placed
  <1>2. CASE LookEnds(j)
    BY <1>1, <1>2 DEF LookEnds, Leave, End
  <1>3. CASE Record(j)
    BY <1>1, <1>3 DEF Record, End
  <1>4. CASE StartServer(j)
    BY <1>1, <1>4 DEF StartServer
  <1>5. QED
    BY <1>2, <1>3, <1>4, Rows

\* An installation that completes has all four files.
LEMMA WholeStep ==
    ASSUME IInv, LoadersNext, NEW j \in Jobs,
           row[j] = "open", row'[j] = "completed", kind[j] = "loaders", ~meddled
    PROVE  \A p \in Part : disk'[p] = Latest
  <1>1. ~(LookEnds(j) \/ Record(j) \/ StartServer(j))
    BY DEF IInv, MaintenanceInv, Placed, LookEnds, Leave, Record, StartServer
  <1>2. StageEnds(j) /\ stage = "defender"
    BY <1>1, Rows
  <1>3. InStage /\ undoing = "no" /\ todo = <<>> /\ disk' = disk
    BY <1>2 DEF StageEnds, InStage
  <1>4. Shape /\ Whole
    BY <1>3 DEF IInv, StageInv
  <1>5. First = "d3d9" /\ Second = "defender"
    BY <1>2 DEF First, Second
  <1>6. <<First, Second>> # <<>> /\ <<Second>> # <<>> /\ <<Second, First>> # <<>>
    BY <1>5
  <1>7. swapped # <<>>
    BY <1>3, <1>4, <1>6 DEF Shape
  <1>8. QED
    BY <1>2, <1>3, <1>4, <1>5, <1>7 DEF Whole, Part, Saved

\* A rollback that is reported good put every file back.
LEMMA RestoredStep ==
    ASSUME IInv, LoadersNext, says # "restored", says' = "restored", ~stuck, ~meddled
    PROVE  disk' = found
  <1>1. PICK j \in Jobs : StageFails(j)
    BY DEF LoadersNext, loaderVars, LoadersCrash, LoadersWork, BeginLoaders, ProbeLoaders, EnterStage,
       MoveAside, Place, ReplaceFails, Undo, UndoFails, Undoing, Replacing, StageEnds, RollbackBegins, RollbackCopies
  <1>2. InStage /\ undoing = "yes" /\ swapped = <<>> /\ disk' = disk
    BY <1>1 DEF StageFails, InStage
  <1>3. Shape /\ Kept /\ stage \in {"ue4ss", "defender"}
    BY <1>2 DEF IInv, StageInv, LoadersTypeOK
  <1>4. First \in Part /\ Second \in Part /\ First # Second
    BY <1>3, Files
  <1>5. <<First, Second>> # <<>> /\ <<Second>> # <<>>
    BY <1>4, Tuples
  <1>6. ~moved /\ todo # <<>>
    BY <1>2, <1>3, <1>5 DEF Shape
  <1>7. disk[First] = found[First] /\ disk[Second] = found[Second]
    BY <1>2, <1>3, <1>6 DEF Kept
  <1>8. \A p \in Part : disk[p] = found[p]
    BY <1>3, <1>7 DEF Kept
  <1>9. disk \in [Part -> Version] /\ found \in [Part -> Version]
    BY DEF IInv, LoadersTypeOK
  <1>10. QED
    BY <1>2, <1>8, <1>9

-----------------------------------------------------------------------------

\* The inductive invariant holds in every reachable state.
THEOREM Invariance == LoadersSpec => []IInv
  BY LoadersInitInv, LoadersNextInv, PTL DEF LoadersSpec

\* The variables of both modules keep their types, whatever jobs are submitted and whenever the
\* panel dies (manager.go, ue4ss.go).
THEOREM TypeCorrect == LoadersSpec => [](TypeOK /\ LoadersTypeOK)
  <1>1. IInv => TypeOK /\ LoadersTypeOK
    BY DEF IInv, MaintenanceInv
  <1>2. QED
    BY <1>1, Invariance, PTL

\* No server runs from files an update is rewriting, unless its probe or stop was blind
\* (manager.go:306, 491).
THEOREM UpdatesAreStill == LoadersSpec => []UpdateStill
  <1>1. IInv => UpdateStill
    BY DEF IInv, MaintenanceInv, Still, UpdateStill
  <1>2. QED
    BY <1>1, Invariance, PTL

\* A command of SteamCMD holds the token and runs in a directory that is whole (client.go:364).
THEOREM CommandsOnWholeTool == LoadersSpec => []CommandOnWholeTool
  <1>1. IInv => CommandOnWholeTool
    BY DEF IInv, MaintenanceInv
  <1>2. QED
    BY <1>1, Invariance, PTL

\* Loaders are replaced under a stopped server, unless a request started it in the middle or the
\* look at it was blind (ue4ss.go:404-421).
THEOREM StagesAreStill == LoadersSpec => []StageStill
  <1>1. IInv => StageStill
    BY DEF IInv
  <1>2. QED
    BY <1>1, Invariance, PTL

\* An update that is reported completed is one (manager.go:394, 414).
THEOREM TruthfulUpdates == LoadersSpec => UpdateTruth
  <1> DEFINE Truth == \A j \in Jobs :
                         row[j] = "open" /\ row'[j] = "completed" /\ kind[j] \in Updating
                             => build' >= wanted /\ (j \in was => server' = "on")
  <1>1. IInv /\ [LoadersNext]_allVars => [Truth]_vars
    <2>1. IInv /\ LoadersNext => Truth
      BY UpdateStep
    <2>2. UNCHANGED allVars => UNCHANGED vars
      BY DEF allVars
    <2>3. QED
      BY <2>1, <2>2
  <1>2. QED
    BY <1>1, Invariance, PTL DEF LoadersSpec, UpdateTruth

\* An installation that is reported completed is one (manager.go:421-447).
THEOREM WholeInstallations == LoadersSpec => CompletedIsWhole
  <1> DEFINE Truth == \A j \in Jobs :
                         row[j] = "open" /\ row'[j] = "completed" /\ kind[j] = "loaders"
                             => meddled \/ \A p \in Part : disk'[p] = Latest
  <1>1. IInv /\ [LoadersNext]_allVars => [Truth]_allVars
    <2>1. IInv /\ LoadersNext => Truth
      BY WholeStep
    <2>2. QED
      BY <2>1
  <1>2. QED
    BY <1>1, Invariance, PTL DEF LoadersSpec, CompletedIsWhole

\* A rollback that is reported good is one (ue4ss.go:203).
THEOREM HonestRestores == LoadersSpec => RestoredAsSaid
  <1> DEFINE Truth == says # "restored" /\ says' = "restored" => disk' = found \/ stuck \/ meddled
  <1>1. IInv /\ [LoadersNext]_allVars => [Truth]_allVars
    <2>1. IInv /\ LoadersNext => Truth
      BY RestoredStep
    <2>2. QED
      BY <2>1
  <1>2. QED
    BY <1>1, Invariance, PTL DEF LoadersSpec, RestoredAsSaid


\* No files of the game are rewritten under a server, with the exceptions of the two properties.
THEOREM FilesAreStill == LoadersSpec => []FilesUnderStopped
  <1>1. UpdateStill /\ StageStill => FilesUnderStopped
    BY DEF FilesUnderStopped
  <1>2. QED
    BY <1>1, UpdatesAreStill, StagesAreStill, PTL

\* What the panel reports of updates, installations and rollbacks is so.
THEOREM TrueReports == LoadersSpec => ReportsAreTrue
  <1>1. LoadersSpec => UpdateTruth
    BY TruthfulUpdates
  <1>2. LoadersSpec => CompletedIsWhole
    BY WholeInstallations
  <1>3. LoadersSpec => RestoredAsSaid
    BY HonestRestores
  <1>4. QED
    BY <1>1, <1>2, <1>3 DEF ReportsAreTrue

-----------------------------------------------------------------------------
(* Nobody waits forever for a mutex that nobody gives back. *)

\* The mutexes stay with jobs that are at work.
LEMMA HeldNext == IInv /\ Held /\ [LoadersNext]_allVars => Held'
  <1> SUFFICES ASSUME IInv, Held, [LoadersNext]_allVars PROVE Held'
    OBVIOUS
  <1>1. TypeOK /\ Holding /\ Placed /\ CommandOnWholeTool
    BY DEF IInv, MaintenanceInv
  <1> USE DEF Held, TypeOK
  <1>2. ASSUME NEW j \in Jobs, NEW k \in Kinds, Submit(j, k) PROVE Held'
    BY <1>1, <1>2 DEF Submit
  <1>3. ASSUME NEW j \in Jobs, Work(j) \/ Fails(j) PROVE Held'
    <2>1. CASE Begin(j)
      BY <1>1, <2>1 DEF Begin
    <2>2. CASE LockOp(j)
      <3>1. lifecycle = j
        BY <1>1, <2>2 DEF LockOp, Holding, Placed
      <3>2. pc' \in [Jobs -> Step] /\ pc'[j] \in Working \ {"lock"} /\ \A i \in Jobs \ {j} : pc'[i] = pc[i]
        BY <1>1, <2>2 DEF LockOp, Enter
      <3>3. QED
        BY <1>1, <2>2, <3>1, <3>2 DEF LockOp
    <2>3. CASE Probe(j) \/ StopServer(j) \/ Archive(j) \/ Ensure(j)
      BY <1>1, <2>3 DEF Probe, StopServer, Archive, Ensure
    <2>4. CASE Acquire(j)
      BY <1>1, <2>4 DEF Acquire
    <2>5. CASE GameEnds(j)
      BY <1>1, <2>5 DEF GameEnds, Leave
    <2>6. CASE LookEnds(j)
      BY <1>1, <2>6 DEF LookEnds, Leave, End
    <2>7. CASE VerifyEnds(j)
      BY <1>1, <2>7 DEF VerifyEnds, Leave, End
    <2>8. CASE Record(j)
      BY <1>1, <2>8 DEF Record, End
    <2>9. CASE StartServer(j)
      BY <1>1, <2>9 DEF StartServer, End
    <2>10. CASE GiveUp(j)
      BY <1>1, <2>10 DEF GiveUp, End
    <2>11. CASE CommandFails(j)
      BY <1>1, <2>11 DEF CommandFails, Leave, End
    <2>12. QED
      BY <1>3, <2>1, <2>2, <2>3, <2>4, <2>5, <2>6, <2>7, <2>8, <2>9, <2>10, <2>11 DEF Work, Fails
  <1>4. CASE Others
    BY <1>1, <1>4 DEF Others, StartRequest, StopRequest, RestartRequest, Request, ServerEnds, Publish, Crash
  <1>5. ASSUME NEW j \in Jobs, LoadersWork(j) PROVE Held'
    <2>1. CASE BeginLoaders(j)
      BY <1>1, <2>1 DEF BeginLoaders
    <2>2. CASE ProbeLoaders(j)
      BY <1>1, <2>2 DEF ProbeLoaders, EnterStage
    <2>3. CASE MoveAside(j) \/ Place(j) \/ ReplaceFails(j) \/ Undo(j) \/ UndoFails(j)
      BY <1>1, <2>3 DEF MoveAside, Place, ReplaceFails, Undo, UndoFails, Undoing, Replacing, vars
    <2>4. CASE StageFails(j)
      BY <1>1, <2>4 DEF StageFails, End
    <2>5. CASE StageEnds(j)
      BY <1>1, <2>5 DEF StageEnds, EnterStage, End
    <2>6. QED
      BY <1>5, <2>1, <2>2, <2>3, <2>4, <2>5 DEF LoadersWork
  <1>6. CASE RollbackBegins \/ RollbackCopies
    BY <1>6 DEF RollbackBegins, RollbackCopies, vars
  <1>7. CASE UNCHANGED allVars
    BY <1>7 DEF allVars, vars
  <1>8. QED
    BY <1>2, <1>3, <1>4, <1>5, <1>6, <1>7
       DEF LoadersNext, MaintenanceStep, Intrude, LoadersCrash, Others

\* Whoever holds the gate runs its command; without one, whoever holds the lifecycle mutex has
\* operationMu to itself; and without one, anybody can begin.
LEMMA HoldersGoOn == IInv /\ Held => SomebodyGoesOn
  <1> SUFFICES ASSUME IInv, Held, NEW j \in Jobs, Incomplete(j)
               PROVE \E k \in Jobs : Incomplete(k) /\ ~Waits(k)
    BY DEF SomebodyGoesOn
  <1>1. TypeOK /\ Holding /\ Placed
    BY DEF IInv, MaintenanceInv
  <1>2. CASE gate # Nobody
    <2>1. gate \in Jobs /\ Incomplete(gate) /\ ~Waits(gate)
      BY <1>1, <1>2 DEF TypeOK, Held, Incomplete, Waits
    <2>2. QED
      BY <2>1
  <1>3. CASE gate = Nobody /\ lifecycle # Nobody
    <2>1. lifecycle \in Jobs /\ Incomplete(lifecycle) /\ ~Waits(lifecycle)
      BY <1>1, <1>3 DEF TypeOK, Held, Incomplete, Waits
    <2>2. QED
      BY <2>1
  <1>4. CASE gate = Nobody /\ lifecycle = Nobody
    <2>1. op = Nobody
      BY <1>1, <1>4 DEF TypeOK, Held
    <2>2. ~Waits(j)
      BY <1>4, <2>1 DEF Waits
    <2>3. QED
      BY <2>2
  <1>5. QED
    BY <1>2, <1>3, <1>4

\* The mutexes of the executor and of the manager and the gate of SteamCMD never leave everyone
\* waiting for everyone, whatever fails and whenever the panel dies (manager.go:906,
\* client.go:362).  It is the part of JobsEnd that is an invariant.
THEOREM NoDeadlock == LoadersSpec => []SomebodyGoesOn
  <1>1. LoadersInit => Held
    BY DEF LoadersInit, Init, Held
  <1>2. IInv /\ Held => SomebodyGoesOn
    BY HoldersGoOn
  <1>3. QED
    BY <1>1, <1>2, Invariance, HeldNext, PTL DEF LoadersSpec
=============================================================================
