------------------------ MODULE JobExecutor_proofs ------------------------
(***************************************************************************)
(* Theorems about JobExecutor, for every set of jobs, every capacity and   *)
(* any number of stops: type correctness, the inductive invariant, the     *)
(* safety properties the runs check, and the refinement of JobBoard.       *)
(***************************************************************************)
EXTENDS JobExecutor, FiniteSetTheorems, TLAPS

\* The rows the executor writes are rows: every code is one of the codes.
LEMMA RowFacts ==
    /\ NoRow \in Row /\ Queued \in Row
    /\ \A code \in {"interrupted_by_restart", "interrupted_by_shutdown",
                    "worker_panic", "missing_terminal_state"} : Failure(code) \in Row
  <1>1. "none" \in Status /\ "queued" \in Status /\ "failed" \in Status
    BY DEF Status, Terminal, Incomplete
  <1>2. \A st \in Status, code \in Code : [status |-> st, code |-> code] \in Row
    BY DEF Row
  <1>3. "" \in Code /\ {"interrupted_by_restart", "interrupted_by_shutdown",
                        "worker_panic", "missing_terminal_state"} \subseteq Code
    BY DEF Code
  <1>4. QED
    BY <1>1, <1>2, <1>3 DEF NoRow, Queued, Failure

\* Statuses of the rows the executor starts from.
LEMMA RowStatuses == NoRow.status = "none" /\ Queued.status = "queued"
  BY DEF NoRow, Queued

\* The end of a process keeps the types.
LEMMA StopType == ASSUME TypeOK, NEW clean \in BOOLEAN, Stop(clean) PROVE TypeOK'
  <1>1. pc' \in [Jobs -> PC]
    BY DEF Stop, PC
  <1>2. stops' \in Nat
    <2>1. stops' = stops + 1
      BY DEF Stop
    <2>2. stops \in Nat
      BY DEF TypeOK
    <2>3. QED
      BY <2>1, <2>2
  <1>3. cleanExit' \in BOOLEAN /\ accepting' \in BOOLEAN
    BY DEF Stop
  <1>4. lifecycle' \in Jobs \cup {NoJob} /\ slots' \subseteq Jobs
    BY DEF Stop
  <1>5. phase' \in {"up", "draining", "drained", "draining again", "down"}
    BY DEF Stop
  <1>6. QED
    BY <1>1, <1>2, <1>3, <1>4, <1>5 DEF Stop, TypeOK

-----------------------------------------------------------------------------
(* Type correctness. *)

\* A process that has not booted yet is well typed.
LEMMA InitType == Init => TypeOK
  <1> SUFFICES ASSUME Init PROVE TypeOK
    OBVIOUS
  <1>1. row \in [Jobs -> Row] /\ class \in [Jobs -> Class] /\ pc \in [Jobs -> PC]
    BY RowFacts DEF Init, Class, PC
  <1>2. lifecycle \in Jobs \cup {NoJob} /\ slots \subseteq Jobs /\ logged \subseteq Jobs
    BY DEF Init
  <1>3. accepting \in BOOLEAN /\ cancelled \in BOOLEAN /\ cleanExit \in BOOLEAN
    BY DEF Init
  <1>4. phase \in {"up", "draining", "drained", "draining again", "down"} /\ stops \in Nat
    <2>1. stops = 0 /\ phase = "down"
      BY DEF Init
    <2>2. QED
      BY <2>1
  <1>5. QED
    BY <1>1, <1>2, <1>3, <1>4 DEF TypeOK

\* Every step keeps every variable in its set of values.
LEMMA StepType == TypeOK /\ [Next]_vars => TypeOK'
  <1> SUFFICES ASSUME TypeOK, [Next]_vars PROVE TypeOK'
    OBVIOUS
  <1>1. ASSUME NEW j \in Jobs, NEW c \in Class, Submit(j, c) PROVE TypeOK'
    BY <1>1, RowFacts DEF Submit, TypeOK, process, PC
  <1>2. ASSUME NEW j \in Jobs, LockLifecycle(j) PROVE TypeOK'
    BY <1>2 DEF LockLifecycle, TypeOK, process, PC
  <1>3. ASSUME NEW j \in Jobs, CheckCancelled(j) PROVE TypeOK'
    BY <1>3 DEF CheckCancelled, TypeOK, process, PC, Executing
  <1>4. ASSUME NEW j \in Jobs, TakeSlot(j) PROVE TypeOK'
    BY <1>4 DEF TakeSlot, TypeOK, process, PC, Executing
  <1>5. ASSUME NEW j \in Jobs, RefuseSlot(j) PROVE TypeOK'
    BY <1>5 DEF RefuseSlot, TypeOK, process, PC
  <1>6. ASSUME NEW j \in Jobs, WriteInterrupted(j) PROVE TypeOK'
    BY <1>6, RowFacts DEF WriteInterrupted, UpdateFailure, TypeOK, process, PC
  <1>7. ASSUME NEW j \in Jobs, NEW s \in Reported, Report(j, s) PROVE TypeOK'
    BY <1>7 DEF Report, TypeOK, process, goroutines, Row, Status, Code, Terminal, Incomplete, Reported
  <1>8. ASSUME NEW j \in Jobs, Return(j) PROVE TypeOK'
    BY <1>8 DEF Return, TypeOK, process, PC, Executing
  <1>9. ASSUME NEW j \in Jobs, Panic(j) PROVE TypeOK'
    BY <1>9 DEF Panic, TypeOK, process, PC, Executing
  <1>10. ASSUME NEW j \in Jobs, WritePanic(j) PROVE TypeOK'
    BY <1>10, RowFacts DEF WritePanic, UpdateFailure, TypeOK, process, PC, Executing
  <1>11. ASSUME NEW j \in Jobs, ReadRow(j) PROVE TypeOK'
    BY <1>11 DEF ReadRow, TypeOK, process, PC, Executing
  <1>12. ASSUME NEW j \in Jobs, WriteMissing(j) PROVE TypeOK'
    BY <1>12, RowFacts DEF WriteMissing, UpdateFailure, TypeOK, process, PC, Executing
  <1>13. ASSUME NEW j \in Jobs, Release(j) PROVE TypeOK'
    BY <1>13 DEF Release, TypeOK, process, PC
  <1>14. ASSUME Boot PROVE TypeOK'
    BY <1>14, RowFacts DEF Boot, TypeOK, goroutines
  <1>15. ASSUME NEW next \in {"draining", "draining again"}, BeginShutdown(next) PROVE TypeOK'
    BY <1>15 DEF BeginShutdown, TypeOK, goroutines
  <1>16. ASSUME ShutdownDrained PROVE TypeOK'
    BY <1>16 DEF ShutdownDrained, TypeOK, goroutines
  <1>17. ASSUME ShutdownTimeout PROVE TypeOK'
    BY <1>17 DEF ShutdownTimeout, TypeOK, goroutines
  <1>18. ASSUME ExitDrained PROVE TypeOK'
    BY <1>18, StopType DEF ExitDrained
  <1>19. ASSUME ExitTimeout PROVE TypeOK'
    BY <1>19, StopType DEF ExitTimeout
  <1>20. ASSUME Crash PROVE TypeOK'
    BY <1>20, StopType DEF Crash
  <1>21. CASE UNCHANGED vars
    BY <1>21 DEF vars, TypeOK
  <1>22. QED
    BY <1>1, <1>2, <1>3, <1>4, <1>5, <1>6, <1>7, <1>8, <1>9, <1>10, <1>11, <1>12, <1>13, <1>14, <1>15, <1>16, <1>17, <1>18, <1>19, <1>20, <1>21 DEF Next, Worker, Work, Shutdown

\* Type correctness of the executor.
THEOREM TypeCorrect == Spec => []TypeOK
  BY InitType, StepType, PTL DEF Spec

-----------------------------------------------------------------------------
(* The inductive invariant: one lemma per part, one step per action. *)

\* updateFailure touches one row and either fails it or is logged.
LEMMA UpdateFailureEffect ==
    ASSUME TypeOK, NEW j \in Jobs, NEW code, UpdateFailure(j, code)
    PROVE  /\ \A i \in Jobs : i # j => row'[i] = row[i]
           /\ logged \subseteq logged'
           /\ row'[j].status = "failed" \/ (row'[j] = row[j] /\ j \in logged')
  <1>1. CASE row' = [row EXCEPT ![j] = Failure(code)] /\ UNCHANGED logged
    BY <1>1 DEF TypeOK, Failure
  <1>2. CASE logged' = logged \cup {j} /\ UNCHANGED row
    BY <1>2
  <1>3. QED
    BY <1>1, <1>2 DEF UpdateFailure

\* Giving slots back keeps their bound.
LEMMA FewerSlots ==
    ASSUME SlotInv, slots' \subseteq slots,
           slots' = {i \in Jobs : class'[i] = "general" /\ pc'[i] \in Executing}
    PROVE  SlotInv'
  <1>1. IsFiniteSet(slots') /\ Cardinality(slots') <= Cardinality(slots)
    BY FS_Subset DEF SlotInv
  <1>2. Cardinality(slots) \in Nat /\ Cardinality(slots') \in Nat
    BY <1>1, FS_CardinalityType DEF SlotInv
  <1>3. QED
    BY <1>1, <1>2, MaxConcurrentAssumption DEF SlotInv, Executing

\* Phases of main: a stopped process has no goroutine, a drained one no live worker.
LEMMA StepPhase == IInv /\ TypeOK' /\ [Next]_vars => PhaseInv'
  <1> SUFFICES ASSUME TypeOK, PhaseInv, TypeOK', [Next]_vars PROVE PhaseInv'
    BY DEF IInv
  <1>1. ASSUME NEW j \in Jobs, NEW c \in Class, Submit(j, c) PROVE PhaseInv'
    BY <1>1 DEF Submit, PhaseInv, TypeOK, process, goroutines, Drained, Live
  <1>2. ASSUME NEW j \in Jobs, LockLifecycle(j) PROVE PhaseInv'
    BY <1>2 DEF LockLifecycle, PhaseInv, TypeOK, process, goroutines, Drained, Live
  <1>3. ASSUME NEW j \in Jobs, CheckCancelled(j) PROVE PhaseInv'
    BY <1>3 DEF CheckCancelled, PhaseInv, TypeOK, process, goroutines, Drained, Live
  <1>4. ASSUME NEW j \in Jobs, TakeSlot(j) PROVE PhaseInv'
    BY <1>4 DEF TakeSlot, PhaseInv, TypeOK, process, goroutines, Drained, Live
  <1>5. ASSUME NEW j \in Jobs, RefuseSlot(j) PROVE PhaseInv'
    BY <1>5 DEF RefuseSlot, PhaseInv, TypeOK, process, goroutines, Drained, Live
  <1>6. ASSUME NEW j \in Jobs, WriteInterrupted(j) PROVE PhaseInv'
    BY <1>6 DEF WriteInterrupted, UpdateFailure, PhaseInv, TypeOK, process, goroutines, Drained, Live
  <1>7. ASSUME NEW j \in Jobs, NEW s \in Reported, Report(j, s) PROVE PhaseInv'
    BY <1>7 DEF Report, PhaseInv, TypeOK, process, goroutines, Drained, Live
  <1>8. ASSUME NEW j \in Jobs, Return(j) PROVE PhaseInv'
    BY <1>8 DEF Return, PhaseInv, TypeOK, process, goroutines, Drained, Live
  <1>9. ASSUME NEW j \in Jobs, Panic(j) PROVE PhaseInv'
    BY <1>9 DEF Panic, PhaseInv, TypeOK, process, goroutines, Drained, Live
  <1>10. ASSUME NEW j \in Jobs, WritePanic(j) PROVE PhaseInv'
    BY <1>10 DEF WritePanic, UpdateFailure, PhaseInv, TypeOK, process, goroutines, Drained, Live
  <1>11. ASSUME NEW j \in Jobs, ReadRow(j) PROVE PhaseInv'
    BY <1>11 DEF ReadRow, PhaseInv, TypeOK, process, goroutines, Drained, Live
  <1>12. ASSUME NEW j \in Jobs, WriteMissing(j) PROVE PhaseInv'
    BY <1>12 DEF WriteMissing, UpdateFailure, PhaseInv, TypeOK, process, goroutines, Drained, Live
  <1>13. ASSUME NEW j \in Jobs, Release(j) PROVE PhaseInv'
    BY <1>13 DEF Release, PhaseInv, TypeOK, process, goroutines, Drained, Live
  <1>14. ASSUME Boot PROVE PhaseInv'
    BY <1>14 DEF Boot, PhaseInv, TypeOK, process, goroutines, Drained, Live
  <1>15. ASSUME NEW next \in {"draining", "draining again"}, BeginShutdown(next) PROVE PhaseInv'
    BY <1>15 DEF BeginShutdown, PhaseInv, TypeOK, process, goroutines, Drained, Live
  <1>16. ASSUME ShutdownDrained PROVE PhaseInv'
    BY <1>16 DEF ShutdownDrained, PhaseInv, TypeOK, process, goroutines, Drained, Live
  <1>17. ASSUME ShutdownTimeout PROVE PhaseInv'
    BY <1>17 DEF ShutdownTimeout, PhaseInv, TypeOK, process, goroutines, Drained, Live
  <1>18. ASSUME ExitDrained PROVE PhaseInv'
    BY <1>18 DEF ExitDrained, Stop, PhaseInv, TypeOK, process, goroutines, Drained, Live
  <1>19. ASSUME ExitTimeout PROVE PhaseInv'
    BY <1>19 DEF ExitTimeout, Stop, PhaseInv, TypeOK, process, goroutines, Drained, Live
  <1>20. ASSUME Crash PROVE PhaseInv'
    BY <1>20 DEF Crash, Stop, PhaseInv, TypeOK, process, goroutines, Drained, Live
  <1>21. CASE UNCHANGED vars
    BY <1>21 DEF vars, PhaseInv, Drained, Live
  <1>22. QED
    BY <1>1, <1>2, <1>3, <1>4, <1>5, <1>6, <1>7, <1>8, <1>9, <1>10, <1>11, <1>12, <1>13, <1>14, <1>15, <1>16, <1>17, <1>18, <1>19, <1>20, <1>21 DEF Next, Worker, Work, Shutdown

\* Every goroutine's position bounds how far its row is.
LEMMA StepRow == IInv /\ TypeOK' /\ [Next]_vars => RowInv'
  <1> SUFFICES ASSUME TypeOK, RowInv, PhaseInv, TypeOK', [Next]_vars PROVE RowInv'
    BY DEF IInv
  <1>1. ASSUME NEW j \in Jobs, NEW c \in Class, Submit(j, c) PROVE RowInv'
    BY <1>1 DEF Submit, RowInv, RowInvOf, PhaseInv, TypeOK, process, goroutines, Incomplete, Terminal, Executing, Failure, Queued, NoRow, Drained, Live
  <1>2. ASSUME NEW j \in Jobs, LockLifecycle(j) PROVE RowInv'
    BY <1>2 DEF LockLifecycle, RowInv, RowInvOf, PhaseInv, TypeOK, process, goroutines, Incomplete, Terminal, Executing, Failure, Queued, NoRow, Drained, Live
  <1>3. ASSUME NEW j \in Jobs, CheckCancelled(j) PROVE RowInv'
    BY <1>3 DEF CheckCancelled, RowInv, RowInvOf, PhaseInv, TypeOK, process, goroutines, Incomplete, Terminal, Executing, Failure, Queued, NoRow, Drained, Live
  <1>4. ASSUME NEW j \in Jobs, TakeSlot(j) PROVE RowInv'
    BY <1>4 DEF TakeSlot, RowInv, RowInvOf, PhaseInv, TypeOK, process, goroutines, Incomplete, Terminal, Executing, Failure, Queued, NoRow, Drained, Live
  <1>5. ASSUME NEW j \in Jobs, RefuseSlot(j) PROVE RowInv'
    BY <1>5 DEF RefuseSlot, RowInv, RowInvOf, PhaseInv, TypeOK, process, goroutines, Incomplete, Terminal, Executing, Failure, Queued, NoRow, Drained, Live
  <1>6. ASSUME NEW j \in Jobs, WriteInterrupted(j) PROVE RowInv'
    <2>1. \A i \in Jobs : i # j => row'[i] = row[i] /\ pc'[i] = pc[i]
      BY <1>6, UpdateFailureEffect DEF WriteInterrupted, TypeOK
    <2>2. logged \subseteq logged' /\ phase' = phase /\ cancelled' = cancelled
      BY <1>6, UpdateFailureEffect DEF WriteInterrupted, process
    <2>3. pc'[j] = "done"
      BY <1>6 DEF WriteInterrupted, TypeOK
    <2>4. row'[j].status = "failed" \/ (row'[j] = row[j] /\ j \in logged')
      BY <1>6, UpdateFailureEffect DEF WriteInterrupted
    <2>5. row[j].status # "none"
      BY <1>6 DEF WriteInterrupted, RowInv, RowInvOf
    <2>6. QED
      BY <2>1, <2>2, <2>3, <2>4, <2>5 DEF RowInv, RowInvOf, Terminal
  <1>7. ASSUME NEW j \in Jobs, NEW s \in Reported, Report(j, s) PROVE RowInv'
    <2>1. \A i \in Jobs : i # j => row'[i] = row[i]
      BY <1>7 DEF Report, TypeOK
    <2>2. pc' = pc /\ logged' = logged /\ phase' = phase /\ cancelled' = cancelled /\ pc[j] = "working"
      BY <1>7 DEF Report, goroutines, process
    <2>3. row'[j].status = s
      BY <1>7 DEF Report, TypeOK
    <2>4. QED
      BY <2>1, <2>2, <2>3 DEF RowInv, RowInvOf, Reported
  <1>8. ASSUME NEW j \in Jobs, Return(j) PROVE RowInv'
    BY <1>8 DEF Return, RowInv, RowInvOf, PhaseInv, TypeOK, process, goroutines, Incomplete, Terminal, Executing, Failure, Queued, NoRow, Drained, Live
  <1>9. ASSUME NEW j \in Jobs, Panic(j) PROVE RowInv'
    BY <1>9 DEF Panic, RowInv, RowInvOf, PhaseInv, TypeOK, process, goroutines, Incomplete, Terminal, Executing, Failure, Queued, NoRow, Drained, Live
  <1>10. ASSUME NEW j \in Jobs, WritePanic(j) PROVE RowInv'
    <2>1. \A i \in Jobs : i # j => row'[i] = row[i] /\ pc'[i] = pc[i]
      BY <1>10, UpdateFailureEffect DEF WritePanic, TypeOK
    <2>2. logged \subseteq logged' /\ phase' = phase /\ cancelled' = cancelled
      BY <1>10, UpdateFailureEffect DEF WritePanic, process
    <2>3. pc'[j] = "releasing"
      BY <1>10 DEF WritePanic, TypeOK
    <2>4. row'[j].status = "failed" \/ (row'[j] = row[j] /\ j \in logged')
      BY <1>10, UpdateFailureEffect DEF WritePanic
    <2>5. row[j].status # "none"
      BY <1>10 DEF WritePanic, RowInv, RowInvOf
    <2>6. QED
      BY <2>1, <2>2, <2>3, <2>4, <2>5 DEF RowInv, RowInvOf, Terminal
  <1>11. ASSUME NEW j \in Jobs, ReadRow(j) PROVE RowInv'
    <2>1. \A i \in Jobs : i # j => pc'[i] = pc[i]
      BY <1>11 DEF ReadRow, TypeOK
    <2>2. row' = row /\ logged \subseteq logged' /\ phase' = phase /\ cancelled' = cancelled
      BY <1>11 DEF ReadRow, process
    <2>3. row[j].status # "none"
      BY <1>11 DEF ReadRow, RowInv, RowInvOf
    <2>4. row[j].status \in Terminal \/ row[j].status \in Incomplete
      BY <2>3 DEF TypeOK, Row, Status
    <2>5. \/ pc'[j] = "releasing" /\ (row[j].status \in Terminal \/ j \in logged')
          \/ pc'[j] = "missing" /\ row[j].status \notin Terminal
      BY <1>11 DEF ReadRow, TypeOK
    <2>6. QED
      BY <2>1, <2>2, <2>3, <2>4, <2>5 DEF RowInv, RowInvOf
  <1>12. ASSUME NEW j \in Jobs, WriteMissing(j) PROVE RowInv'
    <2>1. \A i \in Jobs : i # j => row'[i] = row[i] /\ pc'[i] = pc[i]
      BY <1>12, UpdateFailureEffect DEF WriteMissing, TypeOK
    <2>2. logged \subseteq logged' /\ phase' = phase /\ cancelled' = cancelled
      BY <1>12, UpdateFailureEffect DEF WriteMissing, process
    <2>3. pc'[j] = "releasing"
      BY <1>12 DEF WriteMissing, TypeOK
    <2>4. row'[j].status = "failed" \/ (row'[j] = row[j] /\ j \in logged')
      BY <1>12, UpdateFailureEffect DEF WriteMissing
    <2>5. row[j].status # "none"
      BY <1>12 DEF WriteMissing, RowInv, RowInvOf
    <2>6. QED
      BY <2>1, <2>2, <2>3, <2>4, <2>5 DEF RowInv, RowInvOf, Terminal
  <1>13. ASSUME NEW j \in Jobs, Release(j) PROVE RowInv'
    BY <1>13 DEF Release, RowInv, RowInvOf, PhaseInv, TypeOK, process, goroutines, Incomplete, Terminal, Executing, Failure, Queued, NoRow, Drained, Live
  <1>14. ASSUME Boot PROVE RowInv'
    BY <1>14 DEF Boot, RowInv, RowInvOf, PhaseInv, TypeOK, process, goroutines, Incomplete, Terminal, Executing, Failure, Queued, NoRow, Drained, Live
  <1>15. ASSUME NEW next \in {"draining", "draining again"}, BeginShutdown(next) PROVE RowInv'
    BY <1>15 DEF BeginShutdown, RowInv, RowInvOf, PhaseInv, TypeOK, process, goroutines, Incomplete, Terminal, Executing, Failure, Queued, NoRow, Drained, Live
  <1>16. ASSUME ShutdownDrained PROVE RowInv'
    BY <1>16 DEF ShutdownDrained, RowInv, RowInvOf, PhaseInv, TypeOK, process, goroutines, Incomplete, Terminal, Executing, Failure, Queued, NoRow, Drained, Live
  <1>17. ASSUME ShutdownTimeout PROVE RowInv'
    BY <1>17 DEF ShutdownTimeout, RowInv, RowInvOf, PhaseInv, TypeOK, process, goroutines, Incomplete, Terminal, Executing, Failure, Queued, NoRow, Drained, Live
  <1>18. ASSUME ExitDrained PROVE RowInv'
    BY <1>18 DEF ExitDrained, Stop, RowInv, RowInvOf, PhaseInv, TypeOK, process, goroutines, Incomplete, Terminal, Executing, Failure, Queued, NoRow, Drained, Live
  <1>19. ASSUME ExitTimeout PROVE RowInv'
    BY <1>19 DEF ExitTimeout, Stop, RowInv, RowInvOf, PhaseInv, TypeOK, process, goroutines, Incomplete, Terminal, Executing, Failure, Queued, NoRow, Drained, Live
  <1>20. ASSUME Crash PROVE RowInv'
    BY <1>20 DEF Crash, Stop, RowInv, RowInvOf, PhaseInv, TypeOK, process, goroutines, Incomplete, Terminal, Executing, Failure, Queued, NoRow, Drained, Live
  <1>21. CASE UNCHANGED vars
    BY <1>21 DEF vars, RowInv, RowInvOf
  <1>22. QED
    BY <1>1, <1>2, <1>3, <1>4, <1>5, <1>6, <1>7, <1>8, <1>9, <1>10, <1>11, <1>12, <1>13, <1>14, <1>15, <1>16, <1>17, <1>18, <1>19, <1>20, <1>21 DEF Next, Worker, Work, Shutdown

\* A clean exit finds every row ended or logged.
LEMMA StepCleanExit == IInv /\ TypeOK' /\ [Next]_vars => CleanExitLeavesNoWork'
  <1> SUFFICES ASSUME TypeOK, RowInv, PhaseInv, CleanExitLeavesNoWork, TypeOK', [Next]_vars PROVE CleanExitLeavesNoWork'
    BY DEF IInv
  <1>1. ASSUME NEW j \in Jobs, NEW c \in Class, Submit(j, c) PROVE CleanExitLeavesNoWork'
    BY <1>1 DEF Submit, CleanExitLeavesNoWork, RowInv, RowInvOf, PhaseInv, TypeOK, process, goroutines, Incomplete, Terminal, Drained, Live
  <1>2. ASSUME NEW j \in Jobs, LockLifecycle(j) PROVE CleanExitLeavesNoWork'
    BY <1>2 DEF LockLifecycle, CleanExitLeavesNoWork, RowInv, RowInvOf, PhaseInv, TypeOK, process, goroutines, Incomplete, Terminal, Drained, Live
  <1>3. ASSUME NEW j \in Jobs, CheckCancelled(j) PROVE CleanExitLeavesNoWork'
    BY <1>3 DEF CheckCancelled, CleanExitLeavesNoWork, RowInv, RowInvOf, PhaseInv, TypeOK, process, goroutines, Incomplete, Terminal, Drained, Live
  <1>4. ASSUME NEW j \in Jobs, TakeSlot(j) PROVE CleanExitLeavesNoWork'
    BY <1>4 DEF TakeSlot, CleanExitLeavesNoWork, RowInv, RowInvOf, PhaseInv, TypeOK, process, goroutines, Incomplete, Terminal, Drained, Live
  <1>5. ASSUME NEW j \in Jobs, RefuseSlot(j) PROVE CleanExitLeavesNoWork'
    BY <1>5 DEF RefuseSlot, CleanExitLeavesNoWork, RowInv, RowInvOf, PhaseInv, TypeOK, process, goroutines, Incomplete, Terminal, Drained, Live
  <1>6. ASSUME NEW j \in Jobs, WriteInterrupted(j) PROVE CleanExitLeavesNoWork'
    BY <1>6 DEF WriteInterrupted, UpdateFailure, CleanExitLeavesNoWork, RowInv, RowInvOf, PhaseInv, TypeOK, process, goroutines, Incomplete, Terminal, Drained, Live
  <1>7. ASSUME NEW j \in Jobs, NEW s \in Reported, Report(j, s) PROVE CleanExitLeavesNoWork'
    BY <1>7 DEF Report, CleanExitLeavesNoWork, RowInv, RowInvOf, PhaseInv, TypeOK, process, goroutines, Incomplete, Terminal, Drained, Live
  <1>8. ASSUME NEW j \in Jobs, Return(j) PROVE CleanExitLeavesNoWork'
    BY <1>8 DEF Return, CleanExitLeavesNoWork, RowInv, RowInvOf, PhaseInv, TypeOK, process, goroutines, Incomplete, Terminal, Drained, Live
  <1>9. ASSUME NEW j \in Jobs, Panic(j) PROVE CleanExitLeavesNoWork'
    BY <1>9 DEF Panic, CleanExitLeavesNoWork, RowInv, RowInvOf, PhaseInv, TypeOK, process, goroutines, Incomplete, Terminal, Drained, Live
  <1>10. ASSUME NEW j \in Jobs, WritePanic(j) PROVE CleanExitLeavesNoWork'
    BY <1>10 DEF WritePanic, UpdateFailure, CleanExitLeavesNoWork, RowInv, RowInvOf, PhaseInv, TypeOK, process, goroutines, Incomplete, Terminal, Drained, Live
  <1>11. ASSUME NEW j \in Jobs, ReadRow(j) PROVE CleanExitLeavesNoWork'
    BY <1>11 DEF ReadRow, CleanExitLeavesNoWork, RowInv, RowInvOf, PhaseInv, TypeOK, process, goroutines, Incomplete, Terminal, Drained, Live
  <1>12. ASSUME NEW j \in Jobs, WriteMissing(j) PROVE CleanExitLeavesNoWork'
    BY <1>12 DEF WriteMissing, UpdateFailure, CleanExitLeavesNoWork, RowInv, RowInvOf, PhaseInv, TypeOK, process, goroutines, Incomplete, Terminal, Drained, Live
  <1>13. ASSUME NEW j \in Jobs, Release(j) PROVE CleanExitLeavesNoWork'
    BY <1>13 DEF Release, CleanExitLeavesNoWork, RowInv, RowInvOf, PhaseInv, TypeOK, process, goroutines, Incomplete, Terminal, Drained, Live
  <1>14. ASSUME Boot PROVE CleanExitLeavesNoWork'
    BY <1>14 DEF Boot, CleanExitLeavesNoWork, RowInv, RowInvOf, PhaseInv, TypeOK, process, goroutines, Incomplete, Terminal, Drained, Live
  <1>15. ASSUME NEW next \in {"draining", "draining again"}, BeginShutdown(next) PROVE CleanExitLeavesNoWork'
    BY <1>15 DEF BeginShutdown, CleanExitLeavesNoWork, RowInv, RowInvOf, PhaseInv, TypeOK, process, goroutines, Incomplete, Terminal, Drained, Live
  <1>16. ASSUME ShutdownDrained PROVE CleanExitLeavesNoWork'
    BY <1>16 DEF ShutdownDrained, CleanExitLeavesNoWork, RowInv, RowInvOf, PhaseInv, TypeOK, process, goroutines, Incomplete, Terminal, Drained, Live
  <1>17. ASSUME ShutdownTimeout PROVE CleanExitLeavesNoWork'
    BY <1>17 DEF ShutdownTimeout, CleanExitLeavesNoWork, RowInv, RowInvOf, PhaseInv, TypeOK, process, goroutines, Incomplete, Terminal, Drained, Live
  <1>18. ASSUME ExitDrained PROVE CleanExitLeavesNoWork'
    BY <1>18 DEF ExitDrained, Stop, CleanExitLeavesNoWork, RowInv, RowInvOf, PhaseInv, TypeOK, process, goroutines, Incomplete, Terminal, Drained, Live
  <1>19. ASSUME ExitTimeout PROVE CleanExitLeavesNoWork'
    BY <1>19 DEF ExitTimeout, Stop, CleanExitLeavesNoWork, RowInv, RowInvOf, PhaseInv, TypeOK, process, goroutines, Incomplete, Terminal, Drained, Live
  <1>20. ASSUME Crash PROVE CleanExitLeavesNoWork'
    BY <1>20 DEF Crash, Stop, CleanExitLeavesNoWork, RowInv, RowInvOf, PhaseInv, TypeOK, process, goroutines, Incomplete, Terminal, Drained, Live
  <1>21. CASE UNCHANGED vars
    BY <1>21 DEF vars, CleanExitLeavesNoWork
  <1>22. QED
    BY <1>1, <1>2, <1>3, <1>4, <1>5, <1>6, <1>7, <1>8, <1>9, <1>10, <1>11, <1>12, <1>13, <1>14, <1>15, <1>16, <1>17, <1>18, <1>19, <1>20, <1>21 DEF Next, Worker, Work, Shutdown

\* One holder of the mutex.
LEMMA StepMutex == IInv /\ TypeOK' /\ [Next]_vars => MutexInv'
  <1> SUFFICES ASSUME TypeOK, RowInv, PhaseInv, MutexInv, TypeOK', [Next]_vars PROVE MutexInv'
    BY DEF IInv
  <1>1. ASSUME NEW j \in Jobs, NEW c \in Class, Submit(j, c) PROVE MutexInv'
    BY <1>1, NoJobAssumption DEF Submit, MutexInv, RowInv, RowInvOf, PhaseInv, TypeOK, process, goroutines, Executing
  <1>2. ASSUME NEW j \in Jobs, LockLifecycle(j) PROVE MutexInv'
    BY <1>2, NoJobAssumption DEF LockLifecycle, MutexInv, RowInv, RowInvOf, PhaseInv, TypeOK, process, goroutines, Executing
  <1>3. ASSUME NEW j \in Jobs, CheckCancelled(j) PROVE MutexInv'
    BY <1>3, NoJobAssumption DEF CheckCancelled, MutexInv, RowInv, RowInvOf, PhaseInv, TypeOK, process, goroutines, Executing
  <1>4. ASSUME NEW j \in Jobs, TakeSlot(j) PROVE MutexInv'
    BY <1>4, NoJobAssumption DEF TakeSlot, MutexInv, RowInv, RowInvOf, PhaseInv, TypeOK, process, goroutines, Executing
  <1>5. ASSUME NEW j \in Jobs, RefuseSlot(j) PROVE MutexInv'
    BY <1>5, NoJobAssumption DEF RefuseSlot, MutexInv, RowInv, RowInvOf, PhaseInv, TypeOK, process, goroutines, Executing
  <1>6. ASSUME NEW j \in Jobs, WriteInterrupted(j) PROVE MutexInv'
    BY <1>6, NoJobAssumption DEF WriteInterrupted, UpdateFailure, MutexInv, RowInv, RowInvOf, PhaseInv, TypeOK, process, goroutines, Executing
  <1>7. ASSUME NEW j \in Jobs, NEW s \in Reported, Report(j, s) PROVE MutexInv'
    BY <1>7, NoJobAssumption DEF Report, MutexInv, RowInv, RowInvOf, PhaseInv, TypeOK, process, goroutines, Executing
  <1>8. ASSUME NEW j \in Jobs, Return(j) PROVE MutexInv'
    BY <1>8, NoJobAssumption DEF Return, MutexInv, RowInv, RowInvOf, PhaseInv, TypeOK, process, goroutines, Executing
  <1>9. ASSUME NEW j \in Jobs, Panic(j) PROVE MutexInv'
    BY <1>9, NoJobAssumption DEF Panic, MutexInv, RowInv, RowInvOf, PhaseInv, TypeOK, process, goroutines, Executing
  <1>10. ASSUME NEW j \in Jobs, WritePanic(j) PROVE MutexInv'
    BY <1>10, NoJobAssumption DEF WritePanic, UpdateFailure, MutexInv, RowInv, RowInvOf, PhaseInv, TypeOK, process, goroutines, Executing
  <1>11. ASSUME NEW j \in Jobs, ReadRow(j) PROVE MutexInv'
    BY <1>11, NoJobAssumption DEF ReadRow, MutexInv, RowInv, RowInvOf, PhaseInv, TypeOK, process, goroutines, Executing
  <1>12. ASSUME NEW j \in Jobs, WriteMissing(j) PROVE MutexInv'
    BY <1>12, NoJobAssumption DEF WriteMissing, UpdateFailure, MutexInv, RowInv, RowInvOf, PhaseInv, TypeOK, process, goroutines, Executing
  <1>13. ASSUME NEW j \in Jobs, Release(j) PROVE MutexInv'
    BY <1>13, NoJobAssumption DEF Release, MutexInv, RowInv, RowInvOf, PhaseInv, TypeOK, process, goroutines, Executing
  <1>14. ASSUME Boot PROVE MutexInv'
    BY <1>14, NoJobAssumption DEF Boot, MutexInv, RowInv, RowInvOf, PhaseInv, TypeOK, process, goroutines, Executing
  <1>15. ASSUME NEW next \in {"draining", "draining again"}, BeginShutdown(next) PROVE MutexInv'
    BY <1>15, NoJobAssumption DEF BeginShutdown, MutexInv, RowInv, RowInvOf, PhaseInv, TypeOK, process, goroutines, Executing
  <1>16. ASSUME ShutdownDrained PROVE MutexInv'
    BY <1>16, NoJobAssumption DEF ShutdownDrained, MutexInv, RowInv, RowInvOf, PhaseInv, TypeOK, process, goroutines, Executing
  <1>17. ASSUME ShutdownTimeout PROVE MutexInv'
    BY <1>17, NoJobAssumption DEF ShutdownTimeout, MutexInv, RowInv, RowInvOf, PhaseInv, TypeOK, process, goroutines, Executing
  <1>18. ASSUME ExitDrained PROVE MutexInv'
    BY <1>18, NoJobAssumption DEF ExitDrained, Stop, MutexInv, RowInv, RowInvOf, PhaseInv, TypeOK, process, goroutines, Executing
  <1>19. ASSUME ExitTimeout PROVE MutexInv'
    BY <1>19, NoJobAssumption DEF ExitTimeout, Stop, MutexInv, RowInv, RowInvOf, PhaseInv, TypeOK, process, goroutines, Executing
  <1>20. ASSUME Crash PROVE MutexInv'
    BY <1>20, NoJobAssumption DEF Crash, Stop, MutexInv, RowInv, RowInvOf, PhaseInv, TypeOK, process, goroutines, Executing
  <1>21. CASE UNCHANGED vars
    BY <1>21 DEF vars, MutexInv
  <1>22. QED
    BY <1>1, <1>2, <1>3, <1>4, <1>5, <1>6, <1>7, <1>8, <1>9, <1>10, <1>11, <1>12, <1>13, <1>14, <1>15, <1>16, <1>17, <1>18, <1>19, <1>20, <1>21 DEF Next, Worker, Work, Shutdown

\* The slots are the general jobs at work, and few enough.
LEMMA StepSlot == IInv /\ TypeOK' /\ [Next]_vars => SlotInv'
  <1> SUFFICES ASSUME TypeOK, RowInv, PhaseInv, MutexInv, SlotInv, TypeOK', [Next]_vars PROVE SlotInv'
    BY DEF IInv
  <1>1. ASSUME NEW j \in Jobs, NEW c \in Class, Submit(j, c) PROVE SlotInv'
    <2>1. pc[j] = "none"
      <3>1. row[j] = NoRow
        BY <1>1 DEF Submit
      <3>2. NoRow.status = "none"
        BY DEF NoRow
      <3>3. QED
        BY <3>1, <3>2 DEF RowInv, RowInvOf
    <2>2. slots' = slots /\ {i \in Jobs : class'[i] = "general" /\ pc'[i] \in Executing} = slots
      BY <1>1, <2>1 DEF Submit, SlotInv, TypeOK, Executing
    <2>3. QED
      BY <2>2 DEF SlotInv
  <1>2. ASSUME NEW j \in Jobs, LockLifecycle(j) PROVE SlotInv'
    BY <1>2 DEF LockLifecycle, SlotInv, RowInv, RowInvOf, PhaseInv, TypeOK, process, goroutines, Executing
  <1>3. ASSUME NEW j \in Jobs, CheckCancelled(j) PROVE SlotInv'
    <2>1. class[j] = "lifecycle"
      BY <1>3 DEF CheckCancelled, MutexInv
    <2>2. slots' = slots /\ {i \in Jobs : class'[i] = "general" /\ pc'[i] \in Executing} = slots
      BY <1>3, <2>1 DEF CheckCancelled, SlotInv, TypeOK, Executing
    <2>3. QED
      BY <2>2 DEF SlotInv
  <1>4. ASSUME NEW j \in Jobs, TakeSlot(j) PROVE SlotInv'
    <2>1. slots' = {i \in Jobs : class'[i] = "general" /\ pc'[i] \in Executing}
      BY <1>4 DEF TakeSlot, SlotInv, TypeOK, Executing
    <2>2. IsFiniteSet(slots) /\ Cardinality(slots) < MaxConcurrent /\ slots' = slots \cup {j} /\ j \notin slots
      BY <1>4 DEF TakeSlot, SlotInv, Executing
    <2>3. IsFiniteSet(slots') /\ Cardinality(slots') = Cardinality(slots) + 1
      BY <2>2, FS_AddElement
    <2>4. QED
      BY <2>1, <2>2, <2>3, MaxConcurrentAssumption, FS_CardinalityType DEF SlotInv
  <1>5. ASSUME NEW j \in Jobs, RefuseSlot(j) PROVE SlotInv'
    BY <1>5 DEF RefuseSlot, SlotInv, RowInv, RowInvOf, PhaseInv, TypeOK, process, goroutines, Executing
  <1>6. ASSUME NEW j \in Jobs, WriteInterrupted(j) PROVE SlotInv'
    BY <1>6 DEF WriteInterrupted, UpdateFailure, SlotInv, RowInv, RowInvOf, PhaseInv, TypeOK, process, goroutines, Executing
  <1>7. ASSUME NEW j \in Jobs, NEW s \in Reported, Report(j, s) PROVE SlotInv'
    BY <1>7 DEF Report, SlotInv, RowInv, RowInvOf, PhaseInv, TypeOK, process, goroutines, Executing
  <1>8. ASSUME NEW j \in Jobs, Return(j) PROVE SlotInv'
    BY <1>8 DEF Return, SlotInv, RowInv, RowInvOf, PhaseInv, TypeOK, process, goroutines, Executing
  <1>9. ASSUME NEW j \in Jobs, Panic(j) PROVE SlotInv'
    BY <1>9 DEF Panic, SlotInv, RowInv, RowInvOf, PhaseInv, TypeOK, process, goroutines, Executing
  <1>10. ASSUME NEW j \in Jobs, WritePanic(j) PROVE SlotInv'
    BY <1>10 DEF WritePanic, UpdateFailure, SlotInv, RowInv, RowInvOf, PhaseInv, TypeOK, process, goroutines, Executing
  <1>11. ASSUME NEW j \in Jobs, ReadRow(j) PROVE SlotInv'
    BY <1>11 DEF ReadRow, SlotInv, RowInv, RowInvOf, PhaseInv, TypeOK, process, goroutines, Executing
  <1>12. ASSUME NEW j \in Jobs, WriteMissing(j) PROVE SlotInv'
    BY <1>12 DEF WriteMissing, UpdateFailure, SlotInv, RowInv, RowInvOf, PhaseInv, TypeOK, process, goroutines, Executing
  <1>13. ASSUME NEW j \in Jobs, Release(j) PROVE SlotInv'
    <2>1. slots' = {i \in Jobs : class'[i] = "general" /\ pc'[i] \in Executing}
      BY <1>13 DEF Release, SlotInv, TypeOK, Executing, Class
    <2>2. slots' \subseteq slots
      BY <1>13 DEF Release
    <2>3. QED
      BY <2>1, <2>2, FewerSlots
  <1>14. ASSUME Boot PROVE SlotInv'
    BY <1>14 DEF Boot, SlotInv, RowInv, RowInvOf, PhaseInv, TypeOK, process, goroutines, Executing
  <1>15. ASSUME NEW next \in {"draining", "draining again"}, BeginShutdown(next) PROVE SlotInv'
    BY <1>15 DEF BeginShutdown, SlotInv, RowInv, RowInvOf, PhaseInv, TypeOK, process, goroutines, Executing
  <1>16. ASSUME ShutdownDrained PROVE SlotInv'
    BY <1>16 DEF ShutdownDrained, SlotInv, RowInv, RowInvOf, PhaseInv, TypeOK, process, goroutines, Executing
  <1>17. ASSUME ShutdownTimeout PROVE SlotInv'
    BY <1>17 DEF ShutdownTimeout, SlotInv, RowInv, RowInvOf, PhaseInv, TypeOK, process, goroutines, Executing
  <1>18. ASSUME ExitDrained PROVE SlotInv'
    <2>1. slots' = {} /\ {i \in Jobs : class'[i] = "general" /\ pc'[i] \in Executing} = {}
      BY <1>18 DEF ExitDrained, Stop, Executing
    <2>2. QED
      BY <2>1, FewerSlots
  <1>19. ASSUME ExitTimeout PROVE SlotInv'
    <2>1. slots' = {} /\ {i \in Jobs : class'[i] = "general" /\ pc'[i] \in Executing} = {}
      BY <1>19 DEF ExitTimeout, Stop, Executing
    <2>2. QED
      BY <2>1, FewerSlots
  <1>20. ASSUME Crash PROVE SlotInv'
    <2>1. slots' = {} /\ {i \in Jobs : class'[i] = "general" /\ pc'[i] \in Executing} = {}
      BY <1>20 DEF Crash, Stop, Executing
    <2>2. QED
      BY <2>1, FewerSlots
  <1>21. CASE UNCHANGED vars
    BY <1>21 DEF vars, SlotInv
  <1>22. QED
    BY <1>1, <1>2, <1>3, <1>4, <1>5, <1>6, <1>7, <1>8, <1>9, <1>10, <1>11, <1>12, <1>13, <1>14, <1>15, <1>16, <1>17, <1>18, <1>19, <1>20, <1>21 DEF Next, Worker, Work, Shutdown

\* The invariant holds at first.
LEMMA InitInv == Init => IInv
  <1> SUFFICES ASSUME Init PROVE IInv
    OBVIOUS
  <1>1. TypeOK
    BY InitType
  <1>2. MutexInv /\ RowInv
    BY DEF Init, MutexInv, RowInv, RowInvOf, Executing
  <1>3. SlotInv
    <2>1. slots = {} /\ {j \in Jobs : class[j] = "general" /\ pc[j] \in Executing} = {}
      BY DEF Init, Executing
    <2>2. IsFiniteSet({}) /\ Cardinality({}) = 0
      BY FS_EmptySet
    <2>3. QED
      BY <2>1, <2>2, MaxConcurrentAssumption DEF SlotInv
  <1>4. PhaseInv /\ CleanExitLeavesNoWork
    BY DEF Init, PhaseInv, CleanExitLeavesNoWork
  <1>5. QED
    BY <1>1, <1>2, <1>3, <1>4 DEF IInv

\* Every step keeps the invariant.
LEMMA StepInv == IInv /\ [Next]_vars => IInv'
  <1>1. IInv => TypeOK
    BY DEF IInv
  <1>2. IInv /\ [Next]_vars => TypeOK'
    BY <1>1, StepType
  <1>3. QED
    BY <1>2, StepPhase, StepRow, StepCleanExit, StepMutex, StepSlot DEF IInv

\* The executor keeps its inductive invariant.
THEOREM Invariance == Spec => []IInv
  BY InitInv, StepInv, PTL DEF Spec

-----------------------------------------------------------------------------
(* The properties of the executor. *)

\* At most one lifecycle job works at a time.
THEOREM LifecycleExclusion == Spec => []LifecycleExclusive
  <1>1. IInv => LifecycleExclusive
    BY DEF IInv, MutexInv, LifecycleExclusive
  <1>2. QED
    BY <1>1, Invariance, PTL

\* No more general jobs work than the channel has slots.
THEOREM GeneralBound == Spec => []GeneralBounded
  <1>1. IInv => GeneralBounded
    BY DEF IInv, SlotInv, GeneralBounded
  <1>2. QED
    BY <1>1, Invariance, PTL

\* While the process is up an incomplete row has a worker or a log line.
THEOREM NoOrphanRow == Spec => []IncompleteHasWorker
  <1>1. IInv => IncompleteHasWorker
    BY DEF IInv, RowInv, RowInvOf, IncompleteHasWorker, Live, TypeOK, Terminal, Incomplete
  <1>2. QED
    BY <1>1, Invariance, PTL

\* A clean exit leaves no incomplete row.
THEOREM CleanExit == Spec => []CleanExitLeavesNoWork
  <1>1. IInv => CleanExitLeavesNoWork
    BY DEF IInv
  <1>2. QED
    BY <1>1, Invariance, PTL

\* A step writes the row of its own worker or, at boot, the incomplete ones.
LEMMA StepFinal == IInv /\ [Next]_vars => FinalStep
  <1> SUFFICES ASSUME TypeOK, RowInv, [Next]_vars PROVE FinalStep
    BY DEF IInv
  <1> USE DEF FinalStep
  <1>1. ASSUME NEW j \in Jobs, NEW c \in Class, Submit(j, c) PROVE FinalStep
    <2>1. \A i \in Jobs : i # j => row'[i] = row[i]
      BY <1>1 DEF Submit, TypeOK
    <2>2. row[j] = NoRow
      BY <1>1 DEF Submit
    <2>3. NoRow.status \notin Terminal
      BY DEF NoRow, Terminal
    <2>4. QED
      BY <2>1, <2>2, <2>3
  <1>2. ASSUME NEW j \in Jobs, LockLifecycle(j) PROVE FinalStep
    BY <1>2 DEF LockLifecycle, FinalStep
  <1>3. ASSUME NEW j \in Jobs, CheckCancelled(j) PROVE FinalStep
    BY <1>3 DEF CheckCancelled, FinalStep
  <1>4. ASSUME NEW j \in Jobs, TakeSlot(j) PROVE FinalStep
    BY <1>4 DEF TakeSlot, FinalStep
  <1>5. ASSUME NEW j \in Jobs, RefuseSlot(j) PROVE FinalStep
    BY <1>5 DEF RefuseSlot, FinalStep
  <1>6. ASSUME NEW j \in Jobs, WriteInterrupted(j) PROVE FinalStep
    <2>1. \A i \in Jobs : i # j => row'[i] = row[i]
      BY <1>6, UpdateFailureEffect DEF WriteInterrupted, TypeOK
    <2>2. row[j] = Queued
      BY <1>6 DEF WriteInterrupted, RowInv, RowInvOf
    <2>3. Queued.status \notin Terminal
      BY DEF Queued, Terminal
    <2>4. QED
      BY <2>1, <2>2, <2>3
  <1>7. ASSUME NEW j \in Jobs, NEW s \in Reported, Report(j, s) PROVE FinalStep
    BY <1>7 DEF Report, TypeOK
  <1>8. ASSUME NEW j \in Jobs, Return(j) PROVE FinalStep
    BY <1>8 DEF Return, FinalStep
  <1>9. ASSUME NEW j \in Jobs, Panic(j) PROVE FinalStep
    BY <1>9 DEF Panic, FinalStep
  <1>10. ASSUME NEW j \in Jobs, WritePanic(j) PROVE FinalStep
    <2>1. \A i \in Jobs : i # j => row'[i] = row[i]
      BY <1>10, UpdateFailureEffect DEF WritePanic, TypeOK
    <2>2. pc[j] = "panicked"
      BY <1>10 DEF WritePanic
    <2>3. row'[j] = row[j] \/ row'[j] = Failure("worker_panic")
      BY <1>10 DEF WritePanic, UpdateFailure, TypeOK
    <2>4. QED
      BY <2>1, <2>2, <2>3
  <1>11. ASSUME NEW j \in Jobs, ReadRow(j) PROVE FinalStep
    BY <1>11 DEF ReadRow, FinalStep
  <1>12. ASSUME NEW j \in Jobs, WriteMissing(j) PROVE FinalStep
    <2>1. \A i \in Jobs : i # j => row'[i] = row[i]
      BY <1>12, UpdateFailureEffect DEF WriteMissing, TypeOK
    <2>2. row[j].status \in Incomplete
      BY <1>12 DEF WriteMissing, RowInv, RowInvOf
    <2>3. QED
      BY <2>1, <2>2 DEF Terminal, Incomplete
  <1>13. ASSUME NEW j \in Jobs, Release(j) PROVE FinalStep
    BY <1>13 DEF Release, FinalStep
  <1>14. ASSUME Boot PROVE FinalStep
    BY <1>14 DEF Boot, TypeOK, Terminal, Incomplete
  <1>15. ASSUME NEW next \in {"draining", "draining again"}, BeginShutdown(next) PROVE FinalStep
    BY <1>15 DEF BeginShutdown, FinalStep
  <1>16. ASSUME ShutdownDrained PROVE FinalStep
    BY <1>16 DEF ShutdownDrained, FinalStep
  <1>17. ASSUME ShutdownTimeout PROVE FinalStep
    BY <1>17 DEF ShutdownTimeout, FinalStep
  <1>18. ASSUME ExitDrained PROVE FinalStep
    BY <1>18 DEF ExitDrained, Stop, FinalStep
  <1>19. ASSUME ExitTimeout PROVE FinalStep
    BY <1>19 DEF ExitTimeout, Stop, FinalStep
  <1>20. ASSUME Crash PROVE FinalStep
    BY <1>20 DEF Crash, Stop, FinalStep
  <1>21. CASE UNCHANGED vars
    BY <1>21 DEF vars, FinalStep
  <1>22. QED
    BY <1>1, <1>2, <1>3, <1>4, <1>5, <1>6, <1>7, <1>8, <1>9, <1>10, <1>11, <1>12, <1>13, <1>14, <1>15, <1>16, <1>17, <1>18, <1>19, <1>20, <1>21 DEF Next, Worker, Work, Shutdown

\* A finished row only ever changes into the record of its own panic.
THEOREM FinalRows == Spec => FinalUnlessPanic
  <1>1. IInv /\ [Next]_vars => [FinalStep]_vars
    BY StepFinal
  <1>2. QED
    BY <1>1, Invariance, PTL DEF Spec, FinalUnlessPanic

-----------------------------------------------------------------------------
(* The executor implements the job board. *)

\* What the refinement mapping makes of a row.
LEMMA OutcomeFacts ==
    /\ Outcome(NoRow) = "absent" /\ Outcome(Queued) = "open"
    /\ \A code \in Code : Outcome(Failure(code)) = "failed"
    /\ \A r \in Row : /\ Outcome(r) = "open" <=> r.status \in Incomplete
                      /\ Outcome(r) = "absent" <=> r.status = "none"
                      /\ Outcome(r) \in {"absent", "open", "ok", "failed"}
  <1>1. Outcome(NoRow) = "absent" /\ Outcome(Queued) = "open"
    BY DEF Outcome, NoRow, Queued, Incomplete
  <1>2. ASSUME NEW code \in Code PROVE Outcome(Failure(code)) = "failed"
    BY DEF Outcome, Failure, Incomplete
  <1>3. ASSUME NEW r \in Row
        PROVE  /\ Outcome(r) = "open" <=> r.status \in Incomplete
               /\ Outcome(r) = "absent" <=> r.status = "none"
               /\ Outcome(r) \in {"absent", "open", "ok", "failed"}
    BY DEF Outcome, Incomplete
  <1>4. QED
    BY <1>1, <1>2, <1>3

\* One changed row changes one outcome.
LEMMA OneOutcome ==
    ASSUME TypeOK, NEW j \in Jobs, \A i \in Jobs : i # j => row'[i] = row[i]
    PROVE  Outcomes' = [Outcomes EXCEPT ![j] = Outcome(row'[j])]
  BY DEF Outcomes

\* Untouched rows, untouched outcomes.
LEMMA SameRows == ASSUME row' = row PROVE Outcomes' = Outcomes
  BY DEF Outcomes

\* No worker in or out of work: the same set at work.
LEMMA SameWork ==
    ASSUME \A i \in Jobs : pc'[i] \in Executing <=> pc[i] \in Executing
    PROVE  AtWork' = AtWork
  BY DEF AtWork

\* The row an updateFailure leaves: unchanged, or failed.
LEMMA FailureOutcome ==
    ASSUME TypeOK, NEW j \in Jobs,
           NEW code \in {"interrupted_by_shutdown", "worker_panic", "missing_terminal_state"},
           UpdateFailure(j, code)
    PROVE  Outcomes' = Outcomes \/ Outcomes' = [Outcomes EXCEPT ![j] = "failed"]
  <1>1. CASE UNCHANGED row
    BY <1>1 DEF Outcomes, Outcome
  <1>2. CASE row' = [row EXCEPT ![j] = Failure(code)]
    <2>1. row'[j] = Failure(code) /\ \A i \in Jobs : i # j => row'[i] = row[i]
      BY <1>2 DEF TypeOK
    <2>2. Outcome(Failure(code)) = "failed"
      BY OutcomeFacts DEF Code
    <2>3. QED
      BY <2>1, <2>2, OneOutcome
  <1>3. QED
    BY <1>1, <1>2 DEF UpdateFailure

\* The board counts as the executor does.
LEMMA SameCardinality == \A S : Board!Cardinality(S) = Cardinality(S)
  BY DEF Cardinality, Board!Cardinality

\* Initial states map to initial states.
LEMMA InitBoard == Init => Board!Init
  <1> SUFFICES ASSUME Init PROVE Board!Init
    OBVIOUS
  <1>1. Outcomes = [j \in Jobs |-> "absent"]
    BY OutcomeFacts DEF Init, Outcomes
  <1>2. class = [j \in Jobs |-> "general"] /\ AtWork = {}
    BY DEF Init, AtWork, Executing
  <1>3. QED
    BY <1>1, <1>2 DEF Board!Init

\* Every step of the executor maps to a step of the board or to a stutter.
LEMMA StepBoard == IInv /\ IInv' /\ [Next]_vars => [Board!Next]_(Board!vars)
  <1> SUFFICES ASSUME IInv, IInv', [Next]_vars PROVE Board!Next \/ UNCHANGED <<Outcomes, class, AtWork>>
    BY DEF Board!vars
  <1> USE DEF IInv
  <1> DEFINE Stutter == Outcomes' = Outcomes /\ class' = class /\ AtWork' = AtWork
  <1>1. ASSUME NEW j \in Jobs, NEW c \in Class, Submit(j, c) PROVE Board!Accept(j, c)
    <2>1. row[j] = NoRow /\ row'[j] = Queued /\ \A i \in Jobs : i # j => row'[i] = row[i]
      BY <1>1 DEF Submit, TypeOK
    <2>2. Outcomes[j] = "absent" /\ Outcomes' = [Outcomes EXCEPT ![j] = "open"]
      BY <2>1, OutcomeFacts, OneOutcome DEF Outcomes
    <2>3. pc[j] = "none"
      BY <2>1, RowStatuses DEF RowInv, RowInvOf
    <2>4. AtWork' = AtWork /\ class' = [class EXCEPT ![j] = c]
      BY <1>1, <2>3 DEF Submit, AtWork, TypeOK, Executing
    <2>5. QED
      BY <2>2, <2>4 DEF Board!Accept
  <1>2. ASSUME NEW j \in Jobs, LockLifecycle(j) PROVE Stutter
    <2>1. row' = row /\ class' = class
      BY <1>2 DEF LockLifecycle
    <2>2. \A i \in Jobs : pc'[i] \in Executing <=> pc[i] \in Executing
      BY <1>2 DEF LockLifecycle, TypeOK, Executing
    <2>3. QED
      BY <2>1, <2>2, SameRows, SameWork
  <1>3. ASSUME NEW j \in Jobs, CheckCancelled(j) PROVE Board!Start(j) \/ Stutter
    <2>1. class[j] = "lifecycle" /\ lifecycle = j /\ row[j] = Queued /\ pc[j] = "locked"
      BY <1>3 DEF CheckCancelled, MutexInv, RowInv, RowInvOf
    <2>2. Outcomes' = Outcomes /\ class' = class
      BY <1>3 DEF CheckCancelled, Outcomes, Outcome
    <2>3. CASE pc' = [pc EXCEPT ![j] = "interrupted"]
      BY <2>1, <2>2, <2>3 DEF AtWork, TypeOK, Executing
    <2>4. CASE pc' = [pc EXCEPT ![j] = "working"]
      <3>1. Outcomes[j] = "open"
        BY <2>1, OutcomeFacts DEF Outcomes
      <3>2. j \notin AtWork /\ AtWork' = AtWork \cup {j}
        BY <2>1, <2>4 DEF AtWork, TypeOK, Executing
      <3>3. Board!ActiveOf("lifecycle") = {}
        BY <2>1 DEF MutexInv, AtWork, Executing, Board!ActiveOf
      <3>4. QED
        BY <2>1, <2>2, <3>1, <3>2, <3>3 DEF Board!Start
    <2>5. QED
      BY <1>3, <2>3, <2>4 DEF CheckCancelled
  <1>4. ASSUME NEW j \in Jobs, TakeSlot(j) PROVE Board!Start(j)
    <2>1. class[j] = "general" /\ row[j] = Queued /\ pc[j] = "acquire"
      BY <1>4 DEF TakeSlot, RowInv, RowInvOf
    <2>2. Outcomes' = Outcomes /\ class' = class
      BY <1>4 DEF TakeSlot, Outcomes, Outcome
    <2>3. Outcomes[j] = "open"
      BY <2>1, OutcomeFacts DEF Outcomes
    <2>4. j \notin AtWork /\ AtWork' = AtWork \cup {j}
      BY <1>4, <2>1 DEF TakeSlot, AtWork, TypeOK, Executing
    <2>5. Board!ActiveOf("general") = slots
      BY DEF SlotInv, AtWork, Board!ActiveOf
    <2>6. Board!Cardinality(Board!ActiveOf("general")) < MaxConcurrent
      BY <1>4, <2>5, SameCardinality DEF TakeSlot
    <2>7. QED
      BY <2>1, <2>2, <2>3, <2>4, <2>6 DEF Board!Start
  <1>5. ASSUME NEW j \in Jobs, RefuseSlot(j) PROVE Stutter
    <2>1. row' = row /\ class' = class
      BY <1>5 DEF RefuseSlot
    <2>2. \A i \in Jobs : pc'[i] \in Executing <=> pc[i] \in Executing
      BY <1>5 DEF RefuseSlot, TypeOK, Executing
    <2>3. QED
      BY <2>1, <2>2, SameRows, SameWork
  <1>6. ASSUME NEW j \in Jobs, WriteInterrupted(j) PROVE Board!Settle(j, "failed") \/ Stutter
    <2>1. row[j] = Queued
      BY <1>6 DEF WriteInterrupted, RowInv, RowInvOf
    <2>2. Outcomes[j] = "open"
      BY <2>1, OutcomeFacts DEF Outcomes
    <2>3. AtWork' = AtWork /\ class' = class
      BY <1>6 DEF WriteInterrupted, AtWork, TypeOK, Executing
    <2>4. Outcomes' = Outcomes \/ Outcomes' = [Outcomes EXCEPT ![j] = "failed"]
      BY <1>6, FailureOutcome DEF WriteInterrupted
    <2>5. QED
      BY <2>2, <2>3, <2>4 DEF Board!Settle
  <1>7. ASSUME NEW j \in Jobs, NEW s \in Reported, Report(j, s)
        PROVE  Stutter \/ \E end \in {"ok", "failed"} : Board!Settle(j, end)
    <2>1. AtWork' = AtWork /\ class' = class /\ pc[j] = "working"
      BY <1>7 DEF Report, goroutines, AtWork
    <2>2. row[j].status \in Incomplete
      BY <1>7, <2>1 DEF Report, RowInv, RowInvOf, TypeOK, Row, Status
    <2>3. Outcomes[j] = "open"
      BY <2>2, OutcomeFacts DEF Outcomes, TypeOK
    <2>4. \A i \in Jobs : i # j => row'[i] = row[i]
      BY <1>7 DEF Report, TypeOK
    <2>5. row'[j].status = s
      BY <1>7 DEF Report, TypeOK
    <2>6. Outcome(row'[j]) \in {"open", "ok", "failed"}
      BY <2>5 DEF Outcome, Reported, Incomplete
    <2>7. Outcomes' = [Outcomes EXCEPT ![j] = Outcome(row'[j])]
      BY <2>4, OneOutcome
    <2>8. CASE Outcome(row'[j]) = "open"
      BY <2>1, <2>3, <2>7, <2>8 DEF Outcomes
    <2>9. CASE Outcome(row'[j]) \in {"ok", "failed"}
      BY <2>1, <2>3, <2>7, <2>9 DEF Board!Settle
    <2>10. QED
      BY <2>6, <2>8, <2>9
  <1>8. ASSUME NEW j \in Jobs, Return(j) PROVE Stutter
    <2>1. row' = row /\ class' = class
      BY <1>8 DEF Return
    <2>2. \A i \in Jobs : pc'[i] \in Executing <=> pc[i] \in Executing
      BY <1>8 DEF Return, TypeOK, Executing
    <2>3. QED
      BY <2>1, <2>2, SameRows, SameWork
  <1>9. ASSUME NEW j \in Jobs, Panic(j) PROVE Stutter
    <2>1. row' = row /\ class' = class
      BY <1>9 DEF Panic
    <2>2. \A i \in Jobs : pc'[i] \in Executing <=> pc[i] \in Executing
      BY <1>9 DEF Panic, TypeOK, Executing
    <2>3. QED
      BY <2>1, <2>2, SameRows, SameWork
  <1>10. ASSUME NEW j \in Jobs, WritePanic(j)
         PROVE  Stutter \/ Board!Settle(j, "failed") \/ Board!Spoil(j)
    <2>1. AtWork' = AtWork /\ class' = class /\ j \in AtWork
      BY <1>10 DEF WritePanic, AtWork, TypeOK, Executing
    <2>2. row[j].status # "none"
      BY <1>10 DEF WritePanic, RowInv, RowInvOf
    <2>3. Outcomes[j] \in {"open", "ok", "failed"}
      BY <2>2, OutcomeFacts DEF Outcomes, TypeOK
    <2>4. Outcomes' = Outcomes \/ Outcomes' = [Outcomes EXCEPT ![j] = "failed"]
      BY <1>10, FailureOutcome DEF WritePanic
    <2>5. CASE Outcomes[j] = "failed"
      BY <2>1, <2>4, <2>5 DEF Outcomes
    <2>6. QED
      BY <2>1, <2>3, <2>4, <2>5 DEF Board!Settle, Board!Spoil
  <1>11. ASSUME NEW j \in Jobs, ReadRow(j) PROVE Stutter
    <2>1. row' = row /\ class' = class
      BY <1>11 DEF ReadRow
    <2>2. \A i \in Jobs : pc'[i] \in Executing <=> pc[i] \in Executing
      BY <1>11 DEF ReadRow, TypeOK, Executing
    <2>3. QED
      BY <2>1, <2>2, SameRows, SameWork
  <1>12. ASSUME NEW j \in Jobs, WriteMissing(j) PROVE Stutter \/ Board!Settle(j, "failed")
    <2>1. AtWork' = AtWork /\ class' = class
      BY <1>12 DEF WriteMissing, AtWork, TypeOK, Executing
    <2>2. row[j].status \in Incomplete
      BY <1>12 DEF WriteMissing, RowInv, RowInvOf
    <2>3. Outcomes[j] = "open"
      BY <2>2, OutcomeFacts DEF Outcomes, TypeOK
    <2>4. Outcomes' = Outcomes \/ Outcomes' = [Outcomes EXCEPT ![j] = "failed"]
      BY <1>12, FailureOutcome DEF WriteMissing
    <2>5. QED
      BY <2>1, <2>3, <2>4 DEF Board!Settle
  <1>13. ASSUME NEW j \in Jobs, Release(j) PROVE Board!Leave(j)
    <2>1. Outcomes' = Outcomes /\ class' = class
      BY <1>13 DEF Release, Outcomes, Outcome
    <2>2. j \in AtWork /\ AtWork' = AtWork \ {j}
      BY <1>13 DEF Release, AtWork, TypeOK, Executing
    <2>3. row[j].status \in Terminal \/ StoreMayFail
      BY <1>13 DEF Release, RowInv, RowInvOf, PhaseInv
    <2>4. Outcomes[j] # "open" \/ StoreMayFail
      BY <2>3, OutcomeFacts DEF Outcomes, TypeOK, Terminal, Incomplete
    <2>5. QED
      BY <2>1, <2>2, <2>4 DEF Board!Leave
  <1>14. ASSUME Boot PROVE Board!Recover
    <2>1. AtWork = {} /\ AtWork' = {} /\ class' = class
      BY <1>14 DEF Boot, goroutines, PhaseInv, AtWork, Executing
    <2>2. ASSUME NEW j \in Jobs
          PROVE  Outcome(row'[j]) = IF Outcomes[j] = "open" THEN "failed" ELSE Outcomes[j]
      <3>1. row'[j] = IF row[j].status \in Incomplete
                      THEN Failure("interrupted_by_restart") ELSE row[j]
        BY <1>14 DEF Boot, TypeOK
      <3>2. Outcomes[j] = Outcome(row[j]) /\ (Outcomes[j] = "open" <=> row[j].status \in Incomplete)
        BY OutcomeFacts DEF Outcomes, TypeOK
      <3>3. Outcome(Failure("interrupted_by_restart")) = "failed"
        BY OutcomeFacts DEF Code
      <3>4. QED
        BY <3>1, <3>2, <3>3
    <2>3. Outcomes' = [j \in Jobs |-> IF Outcomes[j] = "open" THEN "failed" ELSE Outcomes[j]]
      BY <2>2 DEF Outcomes
    <2>4. QED
      BY <2>1, <2>3 DEF Board!Recover
  <1>15. ASSUME NEW next \in {"draining", "draining again"}, BeginShutdown(next) PROVE Stutter
    <2>1. row' = row /\ class' = class /\ pc' = pc
      BY <1>15 DEF BeginShutdown, goroutines
    <2>2. QED
      BY <2>1, SameRows, SameWork
  <1>16. ASSUME ShutdownDrained PROVE Stutter
    <2>1. row' = row /\ class' = class /\ pc' = pc
      BY <1>16 DEF ShutdownDrained, goroutines
    <2>2. QED
      BY <2>1, SameRows, SameWork
  <1>17. ASSUME ShutdownTimeout PROVE Stutter
    <2>1. row' = row /\ class' = class /\ pc' = pc
      BY <1>17 DEF ShutdownTimeout, goroutines
    <2>2. QED
      BY <2>1, SameRows, SameWork
  <1>18. ASSUME ExitDrained \/ ExitTimeout \/ Crash PROVE Board!Vanish
    <2>1. row' = row /\ class' = class /\ pc' = [j \in Jobs |-> "none"]
      BY <1>18 DEF ExitDrained, ExitTimeout, Crash, Stop
    <2>2. AtWork' = {}
      BY <2>1 DEF AtWork, Executing
    <2>3. QED
      BY <2>1, <2>2, SameRows DEF Board!Vanish
  <1>19. CASE UNCHANGED vars
    BY <1>19, SameRows, SameWork DEF vars
  <1>20. CASE Next
    BY <1>20, <1>1, <1>2, <1>3, <1>4, <1>5, <1>6, <1>7, <1>8, <1>9, <1>10, <1>11, <1>12, <1>13, <1>14,
       <1>15, <1>16, <1>17, <1>18 DEF Next, Worker, Work, Shutdown, Class, Board!Next
  <1>21. QED
    BY <1>19, <1>20

\* The executor implements the job board: one lifecycle job at work, bounded general
\* jobs, no job leaves work without an outcome, and outcomes that stay.
THEOREM BoardRefinement == Spec => ImplementsBoard
  <1>1. IInv /\ IInv' /\ [Next]_vars => [Board!Next]_(Board!vars)
    BY StepBoard
  <1>2. QED
    BY <1>1, InitBoard, Invariance, PTL DEF Spec, ImplementsBoard, Board!Spec

\* No row is forgotten, neither by a process that lives nor by one that has stopped cleanly.
THEOREM RowsRemembered == Spec => []NoRowForgotten
  <1>1. IncompleteHasWorker /\ CleanExitLeavesNoWork => NoRowForgotten
    BY DEF NoRowForgotten
  <1>2. QED
    BY <1>1, NoOrphanRow, CleanExit, PTL

-----------------------------------------------------------------------------
(* Nobody waits for a mutex or a slot that nobody gives back. *)

\* The mutex stays with a lifecycle job that runs.
LEMMA StepHeld == IInv /\ HeldInv /\ [Next]_vars => HeldInv'
  <1> SUFFICES ASSUME IInv, HeldInv, [Next]_vars PROVE HeldInv'
    OBVIOUS
  <1>1. TypeOK /\ MutexInv /\ RowInv
    BY DEF IInv
  <1> USE NoJobAssumption DEF HeldInv, Executing, TypeOK
  <1>2. ASSUME NEW j \in Jobs, NEW c \in Class, Submit(j, c) PROVE HeldInv'
    BY <1>1, <1>2, RowStatuses DEF Submit, process, RowInv, RowInvOf
  <1>3. ASSUME NEW j \in Jobs, LockLifecycle(j) \/ CheckCancelled(j) PROVE HeldInv'
    BY <1>1, <1>3 DEF LockLifecycle, CheckCancelled, process, MutexInv
  <1>4. ASSUME NEW j \in Jobs, TakeSlot(j) \/ RefuseSlot(j) PROVE HeldInv'
    BY <1>1, <1>4 DEF TakeSlot, RefuseSlot, process
  <1>5. ASSUME NEW j \in Jobs, WriteInterrupted(j) \/ WritePanic(j) \/ WriteMissing(j) PROVE HeldInv'
    BY <1>1, <1>5 DEF WriteInterrupted, WritePanic, WriteMissing, process
  <1>6. ASSUME NEW j \in Jobs, ReadRow(j) PROVE HeldInv'
    BY <1>1, <1>6 DEF ReadRow, process
  <1>7. ASSUME NEW j \in Jobs, Release(j) PROVE HeldInv'
    BY <1>1, <1>7 DEF Release, process, MutexInv
  <1>8. ASSUME NEW j \in Jobs, Work(j) PROVE HeldInv'
    BY <1>1, <1>8 DEF Work, Report, Return, Panic, process, goroutines
  <1>9. CASE Boot \/ Shutdown
    BY <1>9 DEF Boot, Shutdown, BeginShutdown, ShutdownDrained, ShutdownTimeout, ExitDrained, ExitTimeout,
                Stop, goroutines
  <1>10. CASE Crash
    BY <1>10 DEF Crash, Stop
  <1>11. CASE UNCHANGED vars
    BY <1>11 DEF vars
  <1>12. QED
    BY <1>2, <1>3, <1>4, <1>5, <1>6, <1>7, <1>8, <1>9, <1>10, <1>11 DEF Next, Worker

\* Who waits in acquire waits for a job that runs, for every number of slots: the part of
\* EveryJobSettles that is an invariant (executor.go:135-158).
THEOREM NobodyWaitsInVain == Spec => []WaitsForRunning
  <1>1. Init => HeldInv
    BY DEF Init, HeldInv
  <1>2. ASSUME IInv, HeldInv PROVE WaitsForRunning
    <2>1. ASSUME Cardinality(slots) >= MaxConcurrent PROVE \E i \in slots : pc[i] \in Executing
      <3>1. slots # {}
        BY <2>1, FS_EmptySet, MaxConcurrentAssumption
      <3>2. \A i \in slots : pc[i] \in Executing
        BY <1>2 DEF IInv, SlotInv
      <3>3. QED
        BY <3>1, <3>2
    <2>2. QED
      BY <1>2, <2>1 DEF WaitsForRunning, HeldInv
  <1>3. QED
    BY <1>1, <1>2, Invariance, StepHeld, PTL DEF Spec
=============================================================================
