------------------------ MODULE ServerProcess_proofs ------------------------
(***************************************************************************)
(* Theorems about what runs the server and the panel: ServerProcess for    *)
(* any number of launches, PIDs and crashes of the panel, on all three     *)
(* runtimes; DockerRunner for any number of base images; Launcher for any  *)
(* number of launchers.                                                    *)
(***************************************************************************)
EXTENDS ServerProcess, DockerRunner, Launcher, TLAPS

USE ModesAssumption, PIDsAssumption, BoundsAssumption
USE DEF host, row, Over, Servers, None, Idle, NoPoll, OpStep, Looking, Aiming, Born, Exists

Records == [at : OpStep, seen : Servers \cup {None}, restart : BOOLEAN, blind : BOOLEAN]
Polls == [at : {"idle", "check", "clear"}, seen : Servers \cup {None}, blind : BOOLEAN]

\* Nothing has been launched at first.
LEMMA InitIInv == Init => IInv
  <1> SUFFICES ASSUME Init PROVE IInv
    OBVIOUS
  <1>1. TypeOK
    <2>1. (CHOOSE p \in PIDs : TRUE) \in PIDs
      OBVIOUS
    <2>2. pid \in [Servers -> PIDs] /\ proc \in [Servers -> {"unborn", "booting", "alive", "dying", "zombie", "gone"}]
      BY <2>1 DEF Init
    <2>3. waiter \in [Servers -> {"none", "child", "wait", "load", "clear"}]
      BY DEF Init
    <2>4. op \in Records /\ poll \in Polls
      BY DEF Init, Records, Polls
    <2>5. up \in BOOLEAN /\ bare \in BOOLEAN /\ record \in Servers \cup {None}
      BY DEF Init
    <2>6. mode \in Modes /\ crashes \in 0 .. MaxCrash /\ foreign \subseteq PIDs /\ struck \subseteq Servers /\ undated \subseteq Servers
      BY DEF Init
    <2>7. QED
      BY <2>2, <2>3, <2>4, <2>5, <2>6 DEF TypeOK, Records, Polls
  <1>2. QED
    <2>1. Operation /\ Addresses /\ NoStrangerSignalled
      BY DEF Init, Operation, Addresses, NoStrangerSignalled
    <2>2. Readers
      BY DEF Init, Readers
    <2>3. QED
      BY <1>1, <2>1, <2>2 DEF IInv

\* A kill at a PID that no stranger has, as far as its record can tell, strikes nobody, and what is
\* gone stays gone.
LEMMA KillSafe ==
    ASSUME IInv, NEW s \in Servers, pid[s] \in foreign => s \in undated, Kill(s)
    PROVE  /\ struck' \subseteq undated /\ struck' \subseteq Servers
           /\ proc' \in [Servers -> {"unborn", "booting", "alive", "dying", "zombie", "gone"}]
           /\ \A t \in Servers : /\ Over(t) => proc'[t] = proc[t]
                                 /\ proc'[t] = "booting" => proc[t] = "booting"
                                 /\ proc[t] # "unborn" => proc'[t] # "unborn"
                                 /\ Exists(t)' => Exists(t)
  BY DEF IInv, TypeOK, NoStrangerSignalled, Kill, Terminate, Holders

\* Which server a row is taken for.
LEMMA LoadedServer ==
    ASSUME IInv, record # None, NEW s \in Loaded
    PROVE  /\ s \in Servers /\ Born(s)
           /\ record = s \/ (mode = "windows" /\ Over(record))
  <1> DEFINE own == {t \in Servers : bare /\ record # None /\ t \in Holders(pid[record]) /\ Running(t)}
  <1>1. CASE own = {}
    <2>1. s = record
      BY <1>1 DEF Loaded
    <2>2. QED
      BY <2>1 DEF IInv, Readers
  <1>2. CASE own # {}
    <2>1. s \in Servers /\ bare /\ Exists(s) /\ pid[s] = pid[record] /\ Born(record)
      BY <1>2 DEF Loaded, Holders, IInv, Readers
    <2>2. mode = "windows" /\ record \in Servers /\ (Exists(record) => record = s)
      BY <2>1 DEF IInv, Readers, Addresses
    <2>3. QED
      BY <2>1, <2>2 DEF Over, IInv, TypeOK
  <1>3. QED
    BY <1>1, <1>2

\* The operation after a stop: over, or the start of a restart.
LEMMA NextOp ==
    ASSUME TypeOK
    PROVE  /\ StartOp \in Records /\ StartOp.at \in {"load", "launch"}
           /\ Stopped \in Records /\ Stopped.at \in {"idle", "load", "launch"}
           /\ mode = "linux" => StartOp.at # "launch" /\ Stopped.at # "launch"
           /\ mode # "linux" => StartOp.at # "load" /\ Stopped.at # "load"
  <1>1. /\ StartOp \in Records /\ StartOp.at \in {"load", "launch"}
        /\ mode = "linux" => StartOp.at # "launch"
        /\ mode # "linux" => StartOp.at # "load"
    BY DEF StartOp, Records
  <1>2. Idle \in Records /\ Idle.at = "idle"
    BY DEF Records
  <1>3. QED
    BY <1>1, <1>2 DEF Stopped

\* Whatever follows a stop is an operation at its start.
LEMMA After ==
    ASSUME TypeOK, NEW o, o = Stopped \/ o = Idle
    PROVE  /\ o \in Records /\ o.at \in {"idle", "load", "launch"}
           /\ o.at = "load" => mode = "linux"
           /\ mode = "linux" => o.at # "launch"
  <1>1. CASE o = Stopped
    BY <1>1, NextOp
  <1>2. CASE o = Idle
    BY <1>2 DEF Records
  <1>3. QED
    BY <1>1, <1>2

\* Every step of the system keeps the invariant.
LEMMA NextIInv == IInv /\ [Next]_vars => IInv'
  <1> SUFFICES ASSUME IInv, [Next]_vars PROVE IInv'
    OBVIOUS
  <1> USE DEF IInv
  <1>1. ASSUME NEW s \in Servers, Exit(s) PROVE IInv'
    <2>1. TypeOK'
      BY <1>1 DEF Exit, Died, TypeOK
    <2>2. Operation'
      BY <1>1 DEF Exit, Died, TypeOK, Operation, Readers
    <2>3. Readers'
      BY <1>1 DEF Exit, Died, TypeOK, Operation, Readers
    <2>4. Addresses' /\ NoStrangerSignalled'
      BY <1>1 DEF Exit, Died, TypeOK, Operation, Addresses, NoStrangerSignalled
    <2>5. QED
      BY <2>1, <2>2, <2>3, <2>4
  <1>2. ASSUME NEW s \in Servers, ShippingUp(s) PROVE IInv'
    BY <1>2 DEF ShippingUp, TypeOK, Operation, Readers, Addresses, NoStrangerSignalled
  <1>3. ASSUME NEW p \in PIDs, Reuse(p) PROVE IInv'
    <2>1. TypeOK'
      BY <1>3 DEF Reuse, Free, Holders, TypeOK
    <2>2. Operation'
      BY <1>3 DEF Reuse, Free, Holders, TypeOK, Operation, Readers
    <2>3. Readers'
      BY <1>3 DEF Reuse, Free, Holders, TypeOK, Operation, Readers
    <2>4. Addresses' /\ NoStrangerSignalled'
      BY <1>3 DEF Reuse, Free, Holders, TypeOK, Operation, Addresses, NoStrangerSignalled
    <2>5. QED
      BY <2>1, <2>2, <2>3, <2>4
  <1>4. ASSUME NEW p \in PIDs, StrangerExits(p) PROVE IInv'
    BY <1>4 DEF StrangerExits, TypeOK, Operation, Readers, Addresses, NoStrangerSignalled
  <1>5. CASE Begin
    <2>1. op' \in Records /\ op'.at \in {"load", "launch", "stopLoad"}
      BY <1>5, NextOp DEF Begin, Records
    <2>2. (op'.at = "load" => mode = "linux") /\ (mode = "linux" => op'.at # "launch")
      BY <1>5, NextOp DEF Begin
    <2>3. TypeOK' /\ Readers'
      BY <1>5, <2>1 DEF Begin, TypeOK, Records, Readers
    <2>4. Operation' /\ Addresses' /\ NoStrangerSignalled'
      BY <1>5, <2>1, <2>2 DEF Begin, Operation, Addresses, NoStrangerSignalled
    <2>5. QED
      BY <2>3, <2>4
  <1>6. CASE LoadForStart
    <2>1. TypeOK'
      BY <1>6 DEF LoadForStart, TypeOK
    <2>2. Operation'
      <3>1. CASE op' = [op EXCEPT !.at = "launch", !.blind = TRUE]
        BY <1>6, <3>1 DEF LoadForStart, TypeOK, Operation
      <3>2. CASE op' = [op EXCEPT !.at = IF record = None THEN "launch" ELSE "startCheck", !.seen = record]
        BY <1>6, <3>2 DEF LoadForStart, TypeOK, Operation, Readers
      <3>3. QED
        BY <1>6, <3>1, <3>2 DEF LoadForStart
    <2>3. Readers'
      BY <1>6 DEF LoadForStart, TypeOK, Operation, Readers
    <2>4. Addresses' /\ NoStrangerSignalled'
      <3>1. op'.at \notin Aiming
        BY <1>6 DEF LoadForStart, TypeOK
      <3>2. QED
        BY <1>6, <3>1 DEF LoadForStart, Addresses, NoStrangerSignalled
    <2>5. QED
      BY <2>1, <2>2, <2>3, <2>4
  <1>7. CASE StartCheck
    <2>1. TypeOK'
      BY <1>7 DEF StartCheck, Running, TypeOK
    <2>2. Operation'
      BY <1>7 DEF StartCheck, Running, TypeOK, Operation, Readers
    <2>3. Readers'
      BY <1>7 DEF StartCheck, Running, TypeOK, Operation, Readers
    <2>4. Addresses' /\ NoStrangerSignalled'
      BY <1>7 DEF StartCheck, Running, TypeOK, Operation, Addresses, NoStrangerSignalled
    <2>5. QED
      BY <2>1, <2>2, <2>3, <2>4
  <1>8. CASE StartClear
    <2>0. op' \in Records /\ op'.at = "launch" /\ op'.seen = op.seen /\ mode = "linux"
          /\ op'.blind = op.blind /\ (Over(op.seen) \/ op.blind)
      BY <1>8 DEF StartClear, TypeOK, Operation, Records
    <2>1. /\ record' \in {record, None} /\ record \in {op.seen, None}
          /\ bare' \in BOOLEAN /\ (bare' => bare)
      <3>1. record \in {op.seen, None}
        BY <1>8, <2>0 DEF StartClear, Operation
      <3>2. CASE Forget
        BY <3>1, <3>2 DEF Forget
      <3>3. CASE UNCHANGED row
        BY <3>1, <3>3 DEF TypeOK
      <3>4. QED
        BY <1>8, <3>2, <3>3 DEF StartClear, TryForget
    <2>2. TypeOK' /\ Readers'
      <3>1. UNCHANGED <<mode, up, proc, pid, undated, foreign, struck, waiter, poll, crashes>>
        BY <1>8 DEF StartClear
      <3>2. TypeOK'
        BY <2>0, <2>1, <3>1 DEF TypeOK, Records
      <3>3. Readers'
        BY <2>1, <3>1 DEF Readers
      <3>4. QED
        BY <3>2, <3>3
    <2>3. Operation'
      BY <1>8, <2>0, <2>1 DEF StartClear, Operation
    <2>4. Addresses' /\ NoStrangerSignalled'
      BY <1>8, <2>0 DEF StartClear, Addresses, NoStrangerSignalled
    <2>5. QED
      BY <2>2, <2>3, <2>4
  <1>9. CASE LaunchFails
    BY <1>9 DEF LaunchFails, TypeOK, Operation, Readers, Addresses, NoStrangerSignalled
  <1>10. ASSUME NEW s \in Servers, NEW p \in PIDs, Launch(s, p) PROVE IInv'
    <2>1. TypeOK'
      <3>1. op' \in Records
        <4>1. op \in Records
          BY DEF TypeOK, Records
        <4>2. \E at \in {"persist", "discover"} : op' = [op EXCEPT !.at = at, !.seen = s]
          BY <1>10 DEF Launch
        <4>3. QED
          BY <4>1, <4>2 DEF Records
      <3>2. /\ proc' \in [Servers -> {"unborn", "booting", "alive", "dying", "zombie", "gone"}]
            /\ pid' \in [Servers -> PIDs]
            /\ waiter' \in [Servers -> {"none", "child", "wait", "load", "clear"}]
        BY <1>10 DEF Launch, TypeOK
      <3>2a. undated' \subseteq Servers
        <4>1. undated' = undated \/ undated' = undated \cup ({s} \cap Undatable)
          BY <1>10 DEF Launch
        <4>2. undated \subseteq Servers
          BY DEF TypeOK
        <4>3. QED
          BY <4>1, <4>2
      <3>3. UNCHANGED <<mode, up, foreign, struck, record, bare, poll, crashes>>
        BY <1>10 DEF Launch
      <3>4. QED
        BY <3>1, <3>2, <3>2a, <3>3 DEF TypeOK, Records
    <2>2. Operation'
      <3>1. op'.seen = s /\ op'.blind = op.blind /\ op'.at = (IF mode # "wine" THEN "persist" ELSE "discover")
        BY <1>10 DEF Launch, TypeOK
      <3>2. proc'[s] # "unborn" /\ \A t \in Servers : proc[t] = "gone" => proc'[t] = "gone"
        BY <1>10 DEF Launch, TypeOK
      <3>3. QED
        BY <1>10, <3>1, <3>2 DEF Launch, TypeOK, Operation, Readers
    <2>3. Readers'
      <3>1. \A t \in Servers : (proc[t] = "gone" => proc'[t] = "gone") /\ (proc[t] # "unborn" => proc'[t] # "unborn")
        BY <1>10 DEF Launch, TypeOK
      <3>2. \A t \in Servers : waiter'[t] \in {"load", "clear"} => waiter[t] = waiter'[t]
        BY <1>10 DEF Launch, TypeOK
      <3>3. QED
        BY <1>10, <3>1, <3>2 DEF Launch, TypeOK, Readers
    <2>4. Addresses' /\ NoStrangerSignalled'
      <3>1. /\ \A t \in Servers \ {s} : proc'[t] = proc[t] /\ pid'[t] = pid[t]
            /\ pid'[s] = p /\ op'.seen = s /\ foreign' = foreign /\ struck' = struck /\ undated \subseteq undated'
        BY <1>10 DEF Launch, TypeOK
      <3>2. p \notin foreign /\ \A t \in Servers : Exists(t) => pid[t] # p
        BY <1>10 DEF Launch, Free, Holders
      <3>3. QED
        BY <3>1, <3>2 DEF Addresses, NoStrangerSignalled
    <2>5. QED
      BY <2>1, <2>2, <2>3, <2>4
  <1>11. CASE Discovered
    <2>1. TypeOK'
      BY <1>11 DEF Discovered, TypeOK
    <2>2. Operation'
      BY <1>11 DEF Discovered, TypeOK, Operation, Readers
    <2>3. Readers'
      BY <1>11 DEF Discovered, TypeOK, Operation, Readers
    <2>4. Addresses' /\ NoStrangerSignalled'
      BY <1>11 DEF Discovered, TypeOK, Operation, Addresses, NoStrangerSignalled
    <2>5. QED
      BY <2>1, <2>2, <2>3, <2>4
  <1>12. CASE NotDiscovered
    <2>0. op.seen \in Servers /\ (pid[op.seen] \in foreign => op.seen \in undated) /\ Kill(op.seen)
      BY <1>12 DEF NotDiscovered, Operation, Addresses
    <2>1. TypeOK'
      BY <1>12, <2>0, KillSafe DEF NotDiscovered, TypeOK
    <2>2. Operation'
      BY <1>12, <2>0, KillSafe DEF NotDiscovered, TypeOK, Operation, Readers
    <2>3. Readers'
      BY <1>12, <2>0, KillSafe DEF NotDiscovered, TypeOK, Operation, Readers
    <2>4. Addresses' /\ NoStrangerSignalled'
      BY <1>12, <2>0, KillSafe DEF NotDiscovered, TypeOK, Operation, Addresses, NoStrangerSignalled
    <2>5. QED
      BY <2>1, <2>2, <2>3, <2>4
  <1>13. CASE Persist
    <2>1. TypeOK'
      BY <1>13 DEF Persist, TypeOK
    <2>2. Operation'
      BY <1>13 DEF Persist, TypeOK, Operation, Readers
    <2>3. Readers'
      BY <1>13 DEF Persist, TypeOK, Operation, Readers
    <2>4. Addresses' /\ NoStrangerSignalled'
      BY <1>13 DEF Persist, TypeOK, Operation, Addresses, NoStrangerSignalled
    <2>5. QED
      BY <2>1, <2>2, <2>3, <2>4
  <1>14. CASE PersistFails
    <2>0. op.seen \in Servers /\ (pid[op.seen] \in foreign => op.seen \in undated) /\ Kill(op.seen)
      BY <1>14 DEF PersistFails, Operation, Addresses
    <2>1. TypeOK'
      BY <1>14, <2>0, KillSafe DEF PersistFails, TypeOK
    <2>2. Operation'
      BY <1>14, <2>0, KillSafe DEF PersistFails, TypeOK, Operation, Readers
    <2>3. Readers'
      BY <1>14, <2>0, KillSafe DEF PersistFails, TypeOK, Operation, Readers
    <2>4. Addresses' /\ NoStrangerSignalled'
      BY <1>14, <2>0, KillSafe DEF PersistFails, TypeOK, Operation, Addresses, NoStrangerSignalled
    <2>5. QED
      BY <2>1, <2>2, <2>3, <2>4
  <1>15. CASE LoadForStop
    <2>1. CASE record # None /\ \E t \in Loaded : op' = [op EXCEPT !.at = "stopCheck", !.seen = t]
      <3>1. PICK t \in Loaded : op' = [op EXCEPT !.at = "stopCheck", !.seen = t]
        BY <2>1
      <3>2. t \in Servers /\ Born(t) /\ (record = t \/ (mode = "windows" /\ Over(record)))
        BY <2>1, LoadedServer
      <3>3. op' \in Records /\ op'.at = "stopCheck" /\ op'.seen = t
        BY <3>1, <3>2 DEF TypeOK, Records
      <3>4. TypeOK' /\ Readers' /\ Addresses' /\ NoStrangerSignalled'
        BY <1>15, <3>3 DEF LoadForStop, TypeOK, Records, Readers, Addresses, NoStrangerSignalled
      <3>5. Operation'
        BY <1>15, <3>2, <3>3 DEF LoadForStop, Operation
      <3>6. QED
        BY <3>4, <3>5
    <2>2. CASE op' \in {Stopped, Idle}
      <3>1. /\ op' \in Records /\ op'.at \in {"idle", "load", "launch"}
            /\ op'.at = "load" => mode = "linux"
            /\ mode = "linux" => op'.at # "launch"
        BY <2>2, After
      <3>2. TypeOK' /\ Readers' /\ Addresses' /\ NoStrangerSignalled'
        BY <1>15, <3>1 DEF LoadForStop, TypeOK, Records, Readers, Addresses, NoStrangerSignalled
      <3>3. Operation'
        BY <1>15, <3>1 DEF LoadForStop, Operation
      <3>4. QED
        BY <3>2, <3>3
    <2>3. QED
      BY <1>15, <2>1, <2>2 DEF LoadForStop
  <1>16. CASE StopCheck
    <2>1. op.seen \in Servers /\ Born(op.seen) /\ op \in Records
      BY <1>16 DEF StopCheck, Operation, TypeOK, Records
    <2>2. CASE Running(op.seen) /\ Signal(op.seen) /\ op' = [op EXCEPT !.at = "wait"]
      <3>1. pid[op.seen] \in foreign => op.seen \in undated
        BY <2>1, <2>2 DEF Running, Addresses
      <3>2. op' \in Records /\ op'.seen = op.seen /\ op'.at = "wait"
        BY <2>1, <2>2 DEF Records
      <3>3. CASE mode = "windows"
        <4>1. Kill(op.seen)
          BY <2>2, <3>3 DEF Signal
        <4>2. TypeOK' /\ Readers'
          BY <1>16, <2>1, <3>1, <3>2, <4>1, KillSafe DEF StopCheck, TypeOK, Records, Readers
        <4>3. Operation'
          BY <1>16, <2>1, <3>1, <3>2, <4>1, KillSafe DEF StopCheck, TypeOK, Operation
        <4>4. Addresses' /\ NoStrangerSignalled'
          <5>1. \A t \in Servers : Exists(t)' => Exists(t)
            BY <2>1, <3>1, <4>1, KillSafe
          <5>2. struck' \subseteq undated /\ pid' = pid /\ foreign' = foreign /\ undated' = undated
            BY <1>16, <2>1, <3>1, <4>1, KillSafe DEF StopCheck
          <5>3. QED
            BY <3>1, <3>2, <5>1, <5>2 DEF Addresses, NoStrangerSignalled
        <4>5. QED
          BY <4>2, <4>3, <4>4
      <3>4. CASE mode # "windows"
        <4>1. struck' \subseteq undated /\ struck' \subseteq Servers /\ proc' = proc
          BY <2>1, <2>2, <3>1, <3>4 DEF Signal, Terminate, NoStrangerSignalled, TypeOK
        <4>2. QED
          BY <1>16, <2>1, <3>1, <3>2, <3>4, <4>1
             DEF StopCheck, TypeOK, Records, Operation, Readers, Addresses, NoStrangerSignalled
      <3>5. QED
        BY <3>3, <3>4
    <2>3. CASE ~Running(op.seen) /\ UNCHANGED <<struck, proc>> /\ op' = [op EXCEPT !.at = "clear"]
      <3>1. op' \in Records /\ op'.seen = op.seen /\ op'.at = "clear"
        BY <2>1, <2>3 DEF Records
      <3>2. mode # "wine" => Over(op.seen)
        BY <2>1, <2>3 DEF Running, Readers, TypeOK
      <3>3. QED
        BY <1>16, <2>1, <2>3, <3>1, <3>2
           DEF StopCheck, TypeOK, Records, Operation, Readers, Addresses, NoStrangerSignalled
    <2>4. CASE ~Running(op.seen) /\ UNCHANGED <<struck, proc>> /\ op' = Idle
      <3>1. op' \in Records /\ op'.at = "idle"
        BY <2>4 DEF Records
      <3>2. QED
        BY <1>16, <2>4, <3>1 DEF StopCheck, TypeOK, Records, Operation, Readers, Addresses, NoStrangerSignalled
    <2>5. QED
      BY <1>16, <2>2, <2>3, <2>4 DEF StopCheck
  <1>17. CASE ExitSeen
    <2>1. TypeOK'
      BY <1>17 DEF ExitSeen, Running, TypeOK
    <2>2. Operation'
      BY <1>17 DEF ExitSeen, Running, TypeOK, Operation, Readers
    <2>3. Readers'
      BY <1>17 DEF ExitSeen, Running, TypeOK, Operation, Readers
    <2>4. Addresses' /\ NoStrangerSignalled'
      BY <1>17 DEF ExitSeen, Running, TypeOK, Operation, Addresses, NoStrangerSignalled
    <2>5. QED
      BY <2>1, <2>2, <2>3, <2>4
  <1>18. CASE StopClear
    <2>1. /\ op' \in Records /\ op'.at \in {"idle", "load", "launch"}
          /\ op'.at = "load" => mode = "linux"
          /\ mode = "linux" => op'.at # "launch"
      BY <1>18, After DEF StopClear
    <2>2. TypeOK'
      <3>1. record' \in Servers \cup {None} /\ bare' \in BOOLEAN
        BY <1>18 DEF StopClear, Forget, TypeOK
      <3>2. QED
        BY <1>18, <2>1, <3>1 DEF StopClear, TypeOK, Records
    <2>3. Readers'
      BY <1>18 DEF StopClear, Forget, Readers
    <2>4. Operation' /\ Addresses' /\ NoStrangerSignalled'
      BY <1>18, <2>1 DEF StopClear, Operation, Addresses, NoStrangerSignalled
    <2>5. QED
      BY <2>2, <2>3, <2>4
  <1>19. CASE StopGivesUp
    <2>1. TypeOK'
      BY <1>19 DEF StopGivesUp, TypeOK
    <2>2. Operation'
      BY <1>19 DEF StopGivesUp, TypeOK, Operation, Readers
    <2>3. Readers'
      BY <1>19 DEF StopGivesUp, TypeOK, Operation, Readers
    <2>4. Addresses' /\ NoStrangerSignalled'
      BY <1>19 DEF StopGivesUp, TypeOK, Operation, Addresses, NoStrangerSignalled
    <2>5. QED
      BY <2>1, <2>2, <2>3, <2>4
  <1>20. CASE Deadline
    <2>0. op.seen \in Servers /\ (pid[op.seen] \in foreign => op.seen \in undated) /\ Kill(op.seen)
      BY <1>20 DEF Deadline, Operation, Addresses
    <2>1. TypeOK'
      BY <1>20, <2>0, KillSafe DEF Deadline, TypeOK
    <2>2. Operation'
      BY <1>20, <2>0, KillSafe DEF Deadline, TypeOK, Operation, Readers
    <2>3. Readers'
      BY <1>20, <2>0, KillSafe DEF Deadline, TypeOK, Operation, Readers
    <2>4. Addresses' /\ NoStrangerSignalled'
      BY <1>20, <2>0, KillSafe DEF Deadline, TypeOK, Operation, Addresses, NoStrangerSignalled
    <2>5. QED
      BY <2>1, <2>2, <2>3, <2>4
  <1>21. CASE PollLoad
    <2>1. TypeOK'
      BY <1>21, LoadedServer DEF PollLoad, TypeOK
    <2>2. Operation'
      BY <1>21, LoadedServer DEF PollLoad, TypeOK, Operation, Readers
    <2>3. Readers'
      BY <1>21, LoadedServer DEF PollLoad, TypeOK, Operation, Readers
    <2>4. Addresses' /\ NoStrangerSignalled'
      BY <1>21, LoadedServer DEF PollLoad, TypeOK, Operation, Addresses, NoStrangerSignalled
    <2>5. QED
      BY <2>1, <2>2, <2>3, <2>4
  <1>22. CASE PollCheck
    <2>1. TypeOK'
      <3>1. poll' \in Polls
        <4>1. poll \in Polls
          BY DEF TypeOK, Polls
        <4>2. \/ poll' = NoPoll \/ poll' = [poll EXCEPT !.at = "clear"]
              \/ poll' = [poll EXCEPT !.at = "clear", !.blind = TRUE]
          BY <1>22 DEF PollCheck
        <4>3. QED
          <5>1. NoPoll \in Polls
            BY DEF NoPoll, Polls
          <5>2. /\ [poll EXCEPT !.at = "clear"] \in Polls
                /\ [poll EXCEPT !.at = "clear", !.blind = TRUE] \in Polls
            BY <4>1 DEF Polls
          <5>3. QED
            BY <4>2, <5>1, <5>2
      <3>2. QED
        BY <1>22, <3>1 DEF PollCheck, TypeOK, Polls
    <2>2. Operation'
      BY <1>22 DEF PollCheck, Running, TypeOK, Operation, Readers
    <2>3. Readers'
      <3>1. CASE poll' = NoPoll
        BY <1>22, <3>1 DEF PollCheck, Readers
      <3>2. CASE ~Running(poll.seen) /\ poll' = [poll EXCEPT !.at = "clear"]
        <4>1. mode # "wine" => Over(poll.seen)
          BY <1>22, <3>2 DEF PollCheck, Running, Readers, TypeOK
        <4>2. poll'.seen = poll.seen
          BY <3>2 DEF TypeOK
        <4>3. QED
          BY <1>22, <4>1, <4>2 DEF PollCheck, Readers
      <3>3. CASE poll' = [poll EXCEPT !.at = "clear", !.blind = TRUE]
        BY <1>22, <3>3 DEF PollCheck, Readers, TypeOK
      <3>4. QED
        BY <1>22, <3>1, <3>2, <3>3 DEF PollCheck
    <2>4. Addresses' /\ NoStrangerSignalled'
      BY <1>22 DEF PollCheck, Running, TypeOK, Operation, Addresses, NoStrangerSignalled
    <2>5. QED
      BY <2>1, <2>2, <2>3, <2>4
  <1>23. CASE PollClear
    <2>1. TypeOK'
      BY <1>23 DEF PollClear, TryForget, Forget, TypeOK
    <2>2. Operation'
      BY <1>23 DEF PollClear, TryForget, Forget, TypeOK, Operation, Readers
    <2>3. Readers'
      BY <1>23 DEF PollClear, TryForget, Forget, TypeOK, Operation, Readers
    <2>4. Addresses' /\ NoStrangerSignalled'
      BY <1>23 DEF PollClear, TryForget, Forget, TypeOK, Operation, Addresses, NoStrangerSignalled
    <2>5. QED
      BY <2>1, <2>2, <2>3, <2>4
  <1>24. ASSUME NEW s \in Servers, Reap(s) PROVE IInv'
    <2>1. TypeOK'
      BY <1>24 DEF Reap, TypeOK
    <2>2. Operation'
      BY <1>24 DEF Reap, TypeOK, Operation, Readers
    <2>3. Readers'
      BY <1>24 DEF Reap, TypeOK, Operation, Readers
    <2>4. Addresses' /\ NoStrangerSignalled'
      BY <1>24 DEF Reap, TypeOK, Operation, Addresses, NoStrangerSignalled
    <2>5. QED
      BY <2>1, <2>2, <2>3, <2>4
  <1>25. ASSUME NEW s \in Servers, WaiterLoad(s) PROVE IInv'
    <2>1. TypeOK'
      BY <1>25 DEF WaiterLoad, TypeOK
    <2>2. Operation'
      BY <1>25 DEF WaiterLoad, TypeOK, Operation, Readers
    <2>3. Readers'
      BY <1>25 DEF WaiterLoad, TypeOK, Operation, Readers
    <2>4. Addresses' /\ NoStrangerSignalled'
      BY <1>25 DEF WaiterLoad, TypeOK, Operation, Addresses, NoStrangerSignalled
    <2>5. QED
      BY <2>1, <2>2, <2>3, <2>4
  <1>26. ASSUME NEW s \in Servers, WaiterClear(s) PROVE IInv'
    <2>1. TypeOK'
      <3>1. record' \in Servers \cup {None} /\ bare' \in BOOLEAN
        BY <1>26 DEF WaiterClear, TryForget, Forget, TypeOK
      <3>2. waiter' \in [Servers -> {"none", "child", "wait", "load", "clear"}]
        BY <1>26 DEF WaiterClear, TypeOK
      <3>3. op' = op /\ poll' = poll
        BY <1>26 DEF WaiterClear
      <3>4. QED
        BY <1>26, <3>1, <3>2, <3>3 DEF WaiterClear, TypeOK
    <2>2. Operation'
      BY <1>26 DEF WaiterClear, TryForget, Forget, TypeOK, Operation, Readers
    <2>3. Readers'
      BY <1>26 DEF WaiterClear, TryForget, Forget, TypeOK, Operation, Readers
    <2>4. Addresses' /\ NoStrangerSignalled'
      BY <1>26 DEF WaiterClear, TryForget, Forget, TypeOK, Operation, Addresses, NoStrangerSignalled
    <2>5. QED
      BY <2>1, <2>2, <2>3, <2>4
  <1>27. CASE Crash
    <2>1. TypeOK'
      <3>1. crashes' \in 0 .. MaxCrash
        BY <1>27 DEF Crash, TypeOK
      <3>2. op' \in Records
        BY <1>27 DEF Crash, Records
      <3>3. QED
        BY <1>27, <3>1, <3>2 DEF Crash, TypeOK, Records
    <2>2. Operation'
      BY <1>27 DEF Crash, TypeOK, Operation, Readers
    <2>3. Readers'
      BY <1>27 DEF Crash, TypeOK, Operation, Readers
    <2>4. Addresses' /\ NoStrangerSignalled'
      BY <1>27 DEF Crash, TypeOK, Operation, Addresses, NoStrangerSignalled
    <2>5. QED
      BY <2>1, <2>2, <2>3, <2>4
  <1>28. CASE Boot
    BY <1>28 DEF Boot, TypeOK, Operation, Readers, Addresses, NoStrangerSignalled
  <1>29. CASE UndoLaunch
    <2>1. op.seen \in Servers /\ op' = Idle /\ mode = "windows"
      BY <1>29 DEF UndoLaunch, Operation
    <2>2. TypeOK'
      <3>1. op' \in Records
        BY <2>1 DEF Records
      <3>2. record' \in Servers \cup {None} /\ bare' \in BOOLEAN
        BY <1>29, <2>1 DEF UndoLaunch, TryForget, Forget, TypeOK
      <3>3. QED
        BY <1>29, <3>1, <3>2 DEF UndoLaunch, TypeOK, Records
    <2>3. Operation'
      BY <2>1 DEF Operation
    <2>4. Readers'
      BY <1>29, <2>1 DEF UndoLaunch, TryForget, Forget, TypeOK, Readers
    <2>5. Addresses' /\ NoStrangerSignalled'
      BY <1>29, <2>1 DEF UndoLaunch, TypeOK, Addresses, NoStrangerSignalled
    <2>6. QED
      BY <2>2, <2>3, <2>4, <2>5
  <1>30. CASE Misread
    <2>1. op.seen \in Servers /\ Born(op.seen) /\ mode = "linux" /\ op \in Records
      BY <1>30 DEF Misread, Misjudged, Operation, TypeOK, Records
    <2>2. /\ op' \in Records /\ op'.at \in {"startClear", "clear"} /\ op'.blind /\ op'.seen = op.seen
          /\ op.at \in Looking
      BY <1>30, <2>1 DEF Misread, Records
    <2>3. TypeOK' /\ Readers' /\ Addresses' /\ NoStrangerSignalled'
      BY <1>30, <2>2 DEF Misread, TypeOK, Records, Readers, Addresses, NoStrangerSignalled
    <2>4. Operation'
      BY <1>30, <2>1, <2>2 DEF Misread, Operation
    <2>5. QED
      BY <2>3, <2>4
  <1>31. CASE UNCHANGED vars
    BY <1>31 DEF vars, TypeOK, Operation, Readers, Addresses, NoStrangerSignalled
  <1>32. QED
    BY <1>1, <1>2, <1>3, <1>4, <1>5, <1>6, <1>7, <1>8, <1>9, <1>10, <1>11, <1>12, <1>13, <1>14, <1>15, <1>16,
       <1>17, <1>18, <1>19, <1>20, <1>21, <1>22, <1>23, <1>24, <1>25, <1>26, <1>27, <1>28, <1>29, <1>30, <1>31
       DEF Next, OpSteps, WaiterSteps

\* The invariant of the identity row, its readers and the PIDs.
THEOREM Invariance == Spec => []IInv
  <1>1. QED
    BY InitIInv, NextIInv, PTL DEF Spec

\* Type correctness, whatever the panel and its host do.
THEOREM TypeCorrect == Spec => []TypeOK
  <1>1. IInv => TypeOK
    BY DEF IInv
  <1>2. QED
    BY <1>1, Invariance, PTL

\* No signal reaches a stranger that has the PID of a server, but through a record of the native
\* runtime without a start time.
THEOREM StrangersSafe == Spec => []NoStrangerSignalled
  <1>1. IInv => NoStrangerSignalled
    BY DEF IInv
  <1>2. QED
    BY <1>1, Invariance, PTL

\* A stop of the native runtime or of Windows that could read what it looked at clears the row only
\* over a server that has exited.
THEOREM StopsAreReal == Spec => []StoppedIsGone
  <1>1. IInv => StoppedIsGone
    BY DEF IInv, Operation, StoppedIsGone
  <1>2. QED
    BY <1>1, Invariance, PTL

\* Who can clear the row of a living server, and what the clearing reader looked at.
LEMMA Forgets ==
    ASSUME IInv, [Next]_vars, mode # "wine", NEW s \in Servers, Tracked(s), proc'[s] = "alive", record' # s
    PROVE  \/ op.blind /\ (StartClear \/ Persist \/ StopClear)
           \/ mode = "windows" /\ (Persist \/ UndoLaunch)
           \/ PollClear /\ (poll.seen # s \/ poll.blind)
           \/ \E t \in Servers \ {s} : WaiterClear(t)
  <1> USE DEF IInv, Tracked
  <1>1. record' # record
    OBVIOUS
  <1>2. \/ StartClear \/ Persist \/ UndoLaunch \/ StopClear \/ PollClear
        \/ \E t \in Servers : WaiterClear(t)
    BY <1>1 DEF Next, OpSteps, WaiterSteps, vars, Exit, ShippingUp, Reuse, StrangerExits, Begin, LoadForStart,
                StartCheck, Misread, LaunchFails, Launch, Discovered, NotDiscovered, PersistFails, LoadForStop, StopCheck,
                ExitSeen, StopGivesUp, Deadline, PollLoad, PollCheck, Reap, WaiterLoad, Crash, Boot
  <1>3. StartClear => op.blind
    BY <1>1 DEF StartClear, TryForget, Forget, Operation
  <1>4. StopClear => op.blind
    BY <1>1 DEF StopClear, Forget, Operation
  <1>5. Persist => op.blind \/ mode = "windows"
    BY DEF Persist, Operation, TypeOK
  <1>6. UndoLaunch => mode = "windows"
    BY DEF UndoLaunch
  <1>7. PollClear => poll.seen # s \/ poll.blind
    BY DEF PollClear, Readers
  <1>8. ASSUME NEW t \in Servers, WaiterClear(t) PROVE t # s
    BY <1>8 DEF WaiterClear, Readers
  <1>9. QED
    BY <1>2, <1>3, <1>4, <1>5, <1>6, <1>7, <1>8

\* On the native runtime and on Windows only a reader that looked at an earlier server, or a
\* operation or Status that could not read the row or the start time, makes the panel forget a living server.
THEOREM ForgetsOnlyWhenStale == Spec => OnlyStaleReadersForget
  <1>1. IInv /\ [Next]_vars => [mode # "wine" =>
          \A s \in Servers : Tracked(s) /\ proc'[s] = "alive" /\ record' # s =>
             \/ op.blind /\ (StartClear \/ Persist \/ StopClear)
             \/ mode = "windows" /\ (Persist \/ UndoLaunch)
             \/ PollClear /\ (poll.seen # s \/ poll.blind)
             \/ \E t \in Servers \ {s} : WaiterClear(t)]_vars
    BY Forgets
  <1>2. QED
    BY <1>1, Invariance, PTL DEF Spec, OnlyStaleReadersForget

-----------------------------------------------------------------------------
(* The container of the server, and the launcher of the panel. *)

\* A stop goes from the question to the command, and a build asks the engine for nothing else.
RunnerTypeOK ==
    /\ engine \in BOOLEAN /\ halted \in BOOLEAN
    /\ box \in {"none", "created", "running", "restarting", "exited"}
    /\ verb \in [kind : {"none", "start", "stop", "restart", "build"},
                 at : {"none", "status", "stop", "rm", "run", "build"}, base : Nat]
    /\ wanted \in {"any", "stopped"}

\* Since a stop has reported success nothing is under way that would start the server, and the
\* engine knows of a container that is left that it was stopped on request.
StopKept ==
    /\ verb.kind \in {"none", "build"} => verb.at = verb.kind
    /\ verb.kind = "stop" => verb.at \in {"status", "stop"}
    /\ wanted = "stopped" => /\ verb.kind \notin {"start", "restart"}
                             /\ box \notin {"running", "restarting"}
                             /\ box = "exited" => halted

RunnerInv == RunnerTypeOK /\ StopKept

LEMMA RunnerStep == RunnerInv /\ [RunnerNext]_runnerVars => RunnerInv'
  <1> SUFFICES ASSUME RunnerInv, [RunnerNext]_runnerVars PROVE RunnerInv'
    OBVIOUS
  <1> USE DEF RunnerInv, RunnerTypeOK, StopKept, Verb, NoCall
  <1>1. CASE Call
    BY <1>1 DEF Call
  <1>2. CASE CommandFails
    BY <1>2 DEF CommandFails
  <1>3. CASE Status
    BY <1>3 DEF Status, At
  <1>4. CASE StopContainer
    BY <1>4 DEF StopContainer, At
  <1>5. CASE RemoveContainer
    BY <1>5 DEF RemoveContainer, At
  <1>6. CASE RunContainer
    BY <1>6 DEF RunContainer, At
  <1>7. CASE BuildImage
    BY <1>7 DEF BuildImage
  <1>8. CASE EngineStops
    BY <1>8 DEF EngineStops
  <1>9. CASE EngineStarts
    BY <1>9 DEF EngineStarts, ComesBack
  <1>10. CASE GameDies \/ GameReturns
    BY <1>10 DEF GameDies, GameReturns
  <1>11. CASE UNCHANGED runnerVars
    BY <1>11 DEF runnerVars
  <1>12. QED
    BY <1>1, <1>2, <1>3, <1>4, <1>5, <1>6, <1>7, <1>8, <1>9, <1>10, <1>11 DEF RunnerNext

\* RunnerInv is an invariant.
THEOREM RunnerInvariance == RunnerSpec => []RunnerInv
  <1>1. ASSUME RunnerInit PROVE RunnerInv
    <2>1. verb = [kind |-> "none", at |-> "none", base |-> 1]
      BY <1>1 DEF RunnerInit, Verb, NoCall
    <2>2. engine \in BOOLEAN /\ halted \in BOOLEAN
      BY <1>1 DEF RunnerInit
    <2>3. RunnerTypeOK
      BY <1>1, <2>1, <2>2 DEF RunnerInit, RunnerTypeOK
    <2>4. QED
      BY <1>1, <2>1, <2>3 DEF RunnerInit, RunnerInv, StopKept
  <1>2. QED
    BY <1>1, RunnerStep, PTL DEF RunnerSpec

\* StoppedStaysStopped holds whatever the engine does: once a stop has reported success the container
\* does not run again before somebody starts it.
THEOREM StoppedStays == RunnerSpec => []StoppedStaysStopped
  <1>1. RunnerInv => StoppedStaysStopped
    BY DEF RunnerInv, StopKept, StoppedStaysStopped
  <1>2. QED
    BY <1>1, RunnerInvariance, PTL

LauncherRun ==
    [at : {"new", "prepare", "start", "assign", "health", "ready", "watch", "dismiss", "dismissed",
           "close", "unlock", "dead", "ended"},
     starts : Children \cup {"none"}]

LauncherTypeOK ==
    /\ run \in [Launchers -> LauncherRun]
    /\ owns \in Launchers \cup {Vacant}
    /\ child \in [Launchers -> [Children -> {"none", "loose", "kept", "ended"}]]
    /\ window \in [Launchers -> {"none", "asked", "shown", "closed"}]

\* A launcher at work has the mutex; children are in its job only then, and no longer when the
\* handle of the job is closed.  Of one that was killed neither is known.
Starting == {"new", "prepare", "start", "assign", "health"}
Working(l) == run[l].at \notin {"new", "dead", "ended"}
Keeps(l) == \E c \in Children : child[l][c] = "kept"
Holds ==
    \A l \in Launchers :
        /\ Working(l) => owns = l
        /\ run[l].at \in Starting => run[l].starts \in Children
        /\ Keeps(l) => run[l].at \notin {"new", "prepare", "unlock", "ended"}

LauncherInv == LauncherTypeOK /\ Holds

LEMMA InitLauncher == LauncherInit => LauncherInv
  <1> SUFFICES ASSUME LauncherInit PROVE LauncherInv
    OBVIOUS
  <1>1. LauncherTypeOK
    BY DEF LauncherInit, LauncherTypeOK, LauncherRun, Children
  <1>2. Holds
    BY DEF LauncherInit, Holds, Working, Keeps, Children
  <1>3. QED
    BY <1>1, <1>2 DEF LauncherInv

\* A step of one launcher keeps the invariant if it keeps it for that launcher, and takes or gives
\* back the mutex only while nobody else has it.
LEMMA OneMoves ==
    ASSUME LauncherInv, NEW l \in Launchers,
           run' \in [Launchers -> LauncherRun],
           child' \in [Launchers -> [Children -> {"none", "loose", "kept", "ended"}]],
           window' \in [Launchers -> {"none", "asked", "shown", "closed"}],
           \A m \in Launchers \ {l} : run'[m] = run[m] /\ child'[m] = child[m],
           Working(l)' => owns' = l,
           run'[l].at \in Starting => run'[l].starts \in Children,
           Keeps(l)' => run'[l].at \notin {"new", "prepare", "unlock", "ended"},
           owns' = owns \/ (owns \in {l, Vacant} /\ owns' \in {l, Vacant})
    PROVE  LauncherInv'
  <1>1. LauncherTypeOK'
    BY DEF LauncherInv, LauncherTypeOK
  <1>2. ASSUME NEW m \in Launchers \ {l} PROVE Working(m)' => owns' = m
    BY LaunchersAssumption DEF LauncherInv, Holds, Working
  <1>3. ASSUME NEW m \in Launchers \ {l}
        PROVE  /\ run'[m].at \in Starting => run'[m].starts \in Children
               /\ Keeps(m)' => run'[m].at \notin {"new", "prepare", "unlock", "ended"}
    BY DEF LauncherInv, Holds, Keeps, Starting
  <1>4. QED
    BY <1>1, <1>2, <1>3 DEF LauncherInv, Holds

\* The place of a launcher changes, and its child if it starts another one.
LEMMA NextPlace ==
    ASSUME LauncherTypeOK, NEW l \in Launchers, NEW r \in LauncherRun, run' = [run EXCEPT ![l] = r]
    PROVE  /\ run' \in [Launchers -> LauncherRun] /\ run'[l] = r
           /\ \A m \in Launchers \ {l} : run'[m] = run[m]
  BY DEF LauncherTypeOK

LEMMA SamePlace ==
    ASSUME LauncherTypeOK, NEW l \in Launchers, NEW at, Place(l, at),
           at \in {"prepare", "start", "assign", "health", "ready", "watch", "dismiss", "dismissed",
                   "close", "unlock", "dead", "ended"}
    PROVE  /\ run' \in [Launchers -> LauncherRun] /\ run'[l].at = at /\ run'[l].starts = run[l].starts
           /\ \A m \in Launchers \ {l} : run'[m] = run[m]
  BY DEF LauncherTypeOK, LauncherRun, Place

\* One child of a launcher changes.
LEMMA OneChild ==
    ASSUME LauncherTypeOK, NEW l \in Launchers, NEW c \in Children, NEW s \in {"none", "loose", "kept", "ended"},
           child' = [child EXCEPT ![l][c] = s]
    PROVE  /\ child' \in [Launchers -> [Children -> {"none", "loose", "kept", "ended"}]]
           /\ \A m \in Launchers \ {l} : child'[m] = child[m]
           /\ s # "kept" => (Keeps(l)' => Keeps(l))
  BY DEF LauncherTypeOK, Keeps

\* With the handle of the job the children in it are gone.
LEMMA NoneKept ==
    ASSUME LauncherTypeOK, NEW l \in Launchers, child' = Taken(l)
    PROVE  /\ child' \in [Launchers -> [Children -> {"none", "loose", "kept", "ended"}]]
           /\ \A m \in Launchers \ {l} : child'[m] = child[m]
           /\ ~Keeps(l)'
  <1>1. [c \in Children |-> IF child[l][c] = "kept" THEN "ended" ELSE child[l][c]]
            \in [Children -> {"none", "loose", "ended"}]
    BY DEF LauncherTypeOK
  <1>2. QED
    BY <1>1 DEF LauncherTypeOK, Keeps, Taken

LEMMA LauncherInvStep == LauncherInv /\ [LauncherNext]_launcherVars => LauncherInv'
  <1> SUFFICES ASSUME LauncherInv, [LauncherNext]_launcherVars PROVE LauncherInv'
    OBVIOUS
  <1> USE DEF LauncherInv
  <1>a. ASSUME NEW l \in Launchers, UNCHANGED child
        PROVE  /\ child' \in [Launchers -> [Children -> {"none", "loose", "kept", "ended"}]]
               /\ \A m \in Launchers : child'[m] = child[m]
               /\ Keeps(l)' <=> Keeps(l)
    BY <1>a DEF LauncherTypeOK, Keeps
  <1>b. ASSUME UNCHANGED window PROVE window' \in [Launchers -> {"none", "asked", "shown", "closed"}]
    BY <1>b DEF LauncherTypeOK
  <1>c. ASSUME NEW l \in Launchers, Working(l)
        PROVE  /\ owns = l
               /\ run[l].at \in Starting => run[l].starts \in Children
               /\ Keeps(l) => run[l].at \notin {"new", "prepare", "unlock", "ended"}
    BY <1>c DEF Holds
  <1>d. \A l \in Launchers : Keeps(l) => Working(l) \/ run[l].at = "dead"
    BY DEF Holds, Working
  <1>e. \A c \in Children : Following(c) \in Children \cup {"none"} /\ (c \notin Needed => Following(c) \in Children)
    BY DEF Children, Following, Needed
  <1>1. ASSUME NEW l \in Launchers, Acquire(l) PROVE LauncherInv'
    <2>1. ~Working(l) /\ ~Keeps(l) /\ run[l].starts \in Children
      BY <1>1, <1>d DEF Acquire, Working, Holds, Starting
    <2>2. CASE owns = Vacant /\ owns' = l /\ Place(l, "prepare")
      BY <1>1, <2>1, <2>2, <1>a, <1>b, SamePlace, OneMoves DEF Acquire
    <2>3. CASE Place(l, "ended") /\ UNCHANGED owns
      BY <1>1, <2>1, <2>3, <1>a, <1>b, SamePlace, OneMoves DEF Acquire, Working
    <2>4. QED
      BY <1>1, <2>2, <2>3 DEF Acquire
  <1>2. ASSUME NEW l \in Launchers, SetUp(l) PROVE LauncherInv'
    <2>1. Working(l) /\ ~Keeps(l) /\ run[l].starts \in Children
      BY <1>2 DEF SetUp, Working, Holds, Starting
    <2>2. QED
      BY <1>2, <2>1, <1>a, <1>b, <1>c, SamePlace, OneMoves DEF SetUp
  <1>3. ASSUME NEW l \in Launchers, Starts(l) PROVE LauncherInv'
    <2> DEFINE c == run[l].starts
    <2>1. Working(l) /\ c \in Children /\ owns' = owns /\ window' = window
      BY <1>3 DEF Starts, Working, Holds, Starting
    <2>2. CASE child' = [child EXCEPT ![l][c] = "loose"] /\ Place(l, "assign")
      <3>1. run' \in [Launchers -> LauncherRun] /\ run'[l].at = "assign" /\ run'[l].starts = c
        BY <2>2, SamePlace
      <3>2. \A m \in Launchers \ {l} : run'[m] = run[m] /\ child'[m] = child[m]
        BY <2>1, <2>2, SamePlace, OneChild
      <3>3. child' \in [Launchers -> [Children -> {"none", "loose", "kept", "ended"}]]
        BY <2>1, <2>2, OneChild
      <3>4. QED
        BY <2>1, <3>1, <3>2, <3>3, <1>b, <1>c, OneMoves DEF Starting
    <2>3. CASE Place(l, "close") /\ UNCHANGED child
      BY <2>1, <2>3, <1>a, <1>b, <1>c, SamePlace, OneMoves DEF Starting
    <2>4. CASE c \notin Needed /\ run' = [run EXCEPT ![l] = [at |-> "start", starts |-> Following(c)]] /\ UNCHANGED child
      <3>1. [at |-> "start", starts |-> Following(c)] \in LauncherRun
        BY <2>1, <2>4, <1>e DEF LauncherRun
      <3>2. QED
        BY <2>1, <2>4, <3>1, <1>a, <1>b, <1>c, <1>e, NextPlace, OneMoves
    <2>5. QED
      BY <1>3, <2>2, <2>3, <2>4 DEF Starts
  <1>4. ASSUME NEW l \in Launchers, Assign(l) PROVE LauncherInv'
    <2> DEFINE c == run[l].starts
    <2>1. Working(l) /\ c \in Children /\ owns' = owns /\ window' = window
      BY <1>4 DEF Assign, Working, Holds, Starting
    <2>2. CASE child' = [child EXCEPT ![l][c] = IF Alive(l, c) THEN "kept" ELSE "ended"] /\ Place(l, "health")
      <3>1. run' \in [Launchers -> LauncherRun] /\ run'[l].at = "health" /\ run'[l].starts = c
        BY <2>2, SamePlace
      <3>2. \A m \in Launchers \ {l} : run'[m] = run[m] /\ child'[m] = child[m]
        BY <2>1, <2>2, SamePlace, OneChild
      <3>3. child' \in [Launchers -> [Children -> {"none", "loose", "kept", "ended"}]]
        BY <2>1, <2>2, OneChild
      <3>4. QED
        BY <2>1, <3>1, <3>2, <3>3, <1>b, <1>c, OneMoves DEF Starting
    <2>3. CASE /\ child' = [child EXCEPT ![l][c] = "ended"]
               /\ run' = [run EXCEPT ![l] = IF c \in Needed THEN [at |-> "close", starts |-> c] ELSE [at |-> "start", starts |-> Following(c)]]
      <3>1. PICK r \in LauncherRun : run' = [run EXCEPT ![l] = r] /\ r.at \in {"close", "start"} /\ r.starts \in Children
        <4>1. /\ [at |-> "close", starts |-> c] \in LauncherRun
              /\ c \notin Needed => [at |-> "start", starts |-> Following(c)] \in LauncherRun
          BY <2>1, <1>e DEF LauncherRun
        <4>2. CASE c \in Needed
          BY <2>1, <2>3, <4>1, <4>2
        <4>3. CASE c \notin Needed
          BY <2>1, <2>3, <4>1, <4>3, <1>e
        <4>4. QED
          BY <4>2, <4>3
      <3>2. QED
        BY <2>1, <2>3, <3>1, <1>b, <1>c, NextPlace, OneChild, OneMoves
    <2>4. QED
      BY <1>4, <2>2, <2>3 DEF Assign
  <1>5. ASSUME NEW l \in Launchers, WaitForHealth(l) PROVE LauncherInv'
    <2> DEFINE c == run[l].starts
    <2>1. Working(l) /\ c \in Children /\ owns' = owns /\ window' = window
      BY <1>5 DEF WaitForHealth, Working, Holds, Starting
    <2>2. \/ UNCHANGED child
          \/ child' = [child EXCEPT ![l][c] = "ended"]
      BY <1>5 DEF WaitForHealth
    <2>3. PICK r \in LauncherRun : run' = [run EXCEPT ![l] = r] /\ r.at \in {"close", "start", "ready"} /\ (r.at = "start" => r.starts \in Children)
      <3>1. CASE Place(l, "close")
        <4>1. [run[l] EXCEPT !.at = "close"] \in LauncherRun /\ [run[l] EXCEPT !.at = "close"].at = "close"
          BY DEF LauncherTypeOK, LauncherRun
        <4>2. QED
          BY <3>1, <4>1 DEF Place
      <3>2. CASE run' = [run EXCEPT ![l] = IF c = "server" THEN [at |-> "ready", starts |-> c] ELSE [at |-> "start", starts |-> Following(c)]]
        <4>1. /\ [at |-> "ready", starts |-> c] \in LauncherRun
              /\ c # "server" => Following(c) \in Children /\ [at |-> "start", starts |-> Following(c)] \in LauncherRun
          BY <2>1 DEF LauncherRun, Children, Following
        <4>2. CASE c = "server"
          BY <3>2, <4>1, <4>2
        <4>3. CASE c # "server"
          BY <3>2, <4>1, <4>3
        <4>4. QED
          BY <4>2, <4>3
      <3>3. CASE c \notin Needed /\ run' = [run EXCEPT ![l] = [at |-> "start", starts |-> Following(c)]]
        <4>1. Following(c) \in Children /\ [at |-> "start", starts |-> Following(c)] \in LauncherRun
          BY <2>1, <3>3, <1>e DEF LauncherRun
        <4>2. QED
          BY <3>3, <4>1
      <3>4. QED
        BY <1>5, <3>1, <3>2, <3>3 DEF WaitForHealth
    <2>4. CASE UNCHANGED child
      BY <2>1, <2>3, <2>4, <1>a, <1>b, <1>c, NextPlace, OneMoves DEF Starting
    <2>5. CASE child' = [child EXCEPT ![l][c] = "ended"]
      BY <2>1, <2>3, <2>5, <1>b, <1>c, NextPlace, OneChild, OneMoves DEF Starting
    <2>6. QED
      BY <2>2, <2>4, <2>5
  <1>6. ASSUME NEW l \in Launchers, Ready(l) \/ ShowBox(l) \/ CloseBox(l) \/ WatchEnds(l) \/ Dismiss(l) \/ AwaitBox(l) PROVE LauncherInv'
    <2>1. window' \in [Launchers -> {"none", "asked", "shown", "closed"}]
      BY <1>6 DEF Ready, ShowBox, CloseBox, WatchEnds, Dismiss, AwaitBox, LauncherTypeOK
    <2>2. owns' = owns /\ UNCHANGED child
      BY <1>6 DEF Ready, ShowBox, CloseBox, WatchEnds, Dismiss, AwaitBox
    <2>3. CASE UNCHANGED run
      BY <2>1, <2>2, <2>3 DEF LauncherTypeOK, Holds, Working, Keeps
    <2>4. CASE Working(l) /\ \E at \in {"watch", "close", "dismiss", "dismissed"} : Place(l, at)
      BY <2>1, <2>2, <2>4, <1>a, <1>c, SamePlace, OneMoves DEF Starting
    <2>5. QED
      BY <1>6, <2>3, <2>4 DEF Ready, ShowBox, CloseBox, WatchEnds, Dismiss, AwaitBox, Working
  <1>7. ASSUME NEW l \in Launchers, CloseJob(l) PROVE LauncherInv'
    <2>1. Working(l) /\ owns' = owns /\ window' = window
      BY <1>7 DEF CloseJob, Working
    <2>2. QED
      BY <1>7, <2>1, <1>b, <1>c, SamePlace, NoneKept, OneMoves DEF CloseJob, Starting
  <1>8. ASSUME NEW l \in Launchers, Unlock(l) PROVE LauncherInv'
    <2>1. Working(l) /\ ~Keeps(l)
      BY <1>8 DEF Unlock, Working, Holds
    <2>2. QED
      BY <1>8, <2>1, <1>a, <1>b, <1>c, SamePlace, OneMoves DEF Unlock, Starting, Working
  <1>9. ASSUME NEW l \in Launchers, LauncherDies(l) PROVE LauncherInv'
    <2>1. Working(l) /\ owns' = owns /\ window' = window /\ UNCHANGED child
      BY <1>9 DEF LauncherDies, Working
    <2>2. QED
      BY <1>9, <2>1, <1>a, <1>b, <1>c, SamePlace, OneMoves DEF LauncherDies, Starting, Working
  <1>9a. ASSUME NEW l \in Launchers, DropJob(l) PROVE LauncherInv'
    <2>1. run' = run /\ owns' = owns /\ window' = window /\ child' = Taken(l)
      BY <1>9a DEF DropJob
    <2>2. \A m \in Launchers : Keeps(m)' => Keeps(m)
      BY <2>1, NoneKept DEF Keeps
    <2>3. QED
      BY <2>1, <2>2, NoneKept DEF LauncherTypeOK, Holds, Working
  <1>9b. ASSUME NEW l \in Launchers, DropMutex(l) PROVE LauncherInv'
    <2>1. run' = run /\ window' = window /\ child' = child /\ owns = l /\ owns' = Vacant /\ run[l].at = "dead"
      BY <1>9b DEF DropMutex
    <2>2. \A m \in Launchers : (Keeps(m)' <=> Keeps(m)) /\ (Working(m) => m = l)
      BY <2>1, LaunchersAssumption DEF Keeps, Holds
    <2>3. QED
      BY <2>1, <2>2 DEF LauncherTypeOK, Holds, Working
  <1>9c. ASSUME NEW l \in Launchers, Buried(l) PROVE LauncherInv'
    <2>1. ~Working(l) /\ ~Keeps(l) /\ owns' = owns /\ window' = window /\ UNCHANGED child
      BY <1>9c DEF Buried, Working, Keeps
    <2>2. QED
      BY <1>9c, <2>1, <1>a, <1>b, SamePlace, OneMoves DEF Buried, Starting, Working
  <1>10. ASSUME NEW l \in Launchers, NEW c \in Children, ChildEnds(l, c) PROVE LauncherInv'
    <2>1. run' = run /\ owns' = owns /\ window' = window /\ child' = [child EXCEPT ![l][c] = "ended"]
      BY <1>10 DEF ChildEnds
    <2>2. \A m \in Launchers : Keeps(m)' => Keeps(m)
      BY <2>1, OneChild DEF Keeps
    <2>3. QED
      BY <2>1, <2>2, OneChild DEF LauncherTypeOK, Holds, Working
  <1>11. CASE UNCHANGED launcherVars
    BY <1>11 DEF launcherVars, LauncherTypeOK, Holds, Working, Keeps
  <1>12. QED
    BY <1>1, <1>2, <1>3, <1>4, <1>5, <1>6, <1>7, <1>8, <1>9, <1>9a, <1>9b, <1>9c, <1>10, <1>11 DEF LauncherNext, LauncherStep

\* LauncherInv is an invariant.
THEOREM LauncherInvariance == LauncherSpec => []LauncherInv
  BY InitLauncher, LauncherInvStep, PTL DEF LauncherSpec

\* OneSetOfChildren holds of every number of launchers: of the children of the panel there is one set
\* at most.
THEOREM OneSet == LauncherSpec => []OneSetOfChildren
  <1>1. LauncherInv => OneSetOfChildren
    BY DEF LauncherInv, Holds, OneSetOfChildren, Keeps, Working
  <1>2. QED
    BY <1>1, LauncherInvariance, PTL
=============================================================================
