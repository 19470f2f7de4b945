---------------------------- MODULE JobExecutor ----------------------------
(***************************************************************************)
(* The background job executor of the panel (internal/jobs/executor.go),   *)
(* the job rows it keeps in the database (internal/db/store.go) and the    *)
(* start, shutdown and crash of the process around it                      *)
(* (cmd/palpanel/main.go).                                                 *)
(*                                                                         *)
(* A job is a row in the jobs table and one goroutine.  Lifecycle jobs     *)
(* run one at a time under a mutex, general jobs share MaxConcurrent       *)
(* slots.  The rows survive a crash; everything else is lost with the      *)
(* process and the next boot marks every incomplete row as failed.         *)
(***************************************************************************)
EXTENDS Naturals, FiniteSets

CONSTANTS
    Jobs,           \* job ids: id.New("job") never returns one twice
    NoJob,          \* "no job holds the lifecycle mutex"
    MaxConcurrent,  \* capacity of the general channel
    StoreMayFail,   \* TRUE when a read or write of the database may fail
    MaxStops        \* bound: how often the process may stop

ASSUME NoJobAssumption == NoJob \notin Jobs
ASSUME MaxConcurrentAssumption == MaxConcurrent \in Nat \ {0}
ASSUME StoreMayFailAssumption == StoreMayFail \in BOOLEAN
ASSUME MaxStopsAssumption == MaxStops \in Nat

VARIABLES
    row,        \* jobs table: [status, code] of every job id
    class,      \* the class a job was submitted with
    pc,         \* where the goroutine of a job is; "none" when there is none
    lifecycle,  \* holder of the lifecycle mutex
    slots,      \* jobs holding a slot of the general channel
    accepting,  \* Executor.accepting
    cancelled,  \* Executor.ctx is cancelled
    logged,     \* jobs whose final row read or write failed: only a log line tells
    phase,      \* what main is doing
    cleanExit,  \* the last stop of the process waited for every worker
    stops       \* number of stops so far

vars == <<row, class, pc, lifecycle, slots, accepting, cancelled, logged, phase, cleanExit, stops>>

goroutines == <<class, pc, lifecycle, slots>>
process == <<accepting, cancelled, phase, cleanExit, stops>>

-----------------------------------------------------------------------------
(* Rows and the states of a goroutine. *)

Terminal == {"completed", "failed", "cancelled"}   \* what ensureTerminal takes for an end
Incomplete == {"queued", "waiting", "running"}     \* what FailIncompleteJobs rewrites
Reported == {"running", "completed", "failed"}     \* what a work function writes
Status == {"none"} \cup Terminal \cup Incomplete

Code == {"", "own", "interrupted_by_restart", "interrupted_by_shutdown",
         "worker_panic", "missing_terminal_state"}

Row == [status : Status, code : Code]
NoRow == [status |-> "none", code |-> ""]
Queued == [status |-> "queued", code |-> ""]
Failure(code) == [status |-> "failed", code |-> code]

Class == {"general", "lifecycle"}

\* acquire: blocked in acquire;   locked: has the mutex, ctx.Err not read yet
\* interrupted: acquire returned false;   working, panicked, returned: in or after work
\* missing: ensureTerminal read an incomplete row;   releasing: the deferred release
Executing == {"working", "panicked", "returned", "missing", "releasing"}
PC == {"none", "acquire", "locked", "interrupted", "done"} \cup Executing

Live(j) == pc[j] \notin {"none", "done"}
Drained == \A j \in Jobs : ~Live(j)                \* the wait group is at zero

TypeOK ==
    /\ row \in [Jobs -> Row]
    /\ class \in [Jobs -> Class]
    /\ pc \in [Jobs -> PC]
    /\ lifecycle \in Jobs \cup {NoJob}
    /\ slots \subseteq Jobs
    /\ accepting \in BOOLEAN
    /\ cancelled \in BOOLEAN
    /\ logged \subseteq Jobs
    /\ phase \in {"up", "draining", "drained", "draining again", "down"}
    /\ cleanExit \in BOOLEAN
    /\ stops \in Nat

Init ==
    /\ row = [j \in Jobs |-> NoRow]
    /\ class = [j \in Jobs |-> "general"]
    /\ pc = [j \in Jobs |-> "none"]
    /\ lifecycle = NoJob
    /\ slots = {}
    /\ accepting = FALSE
    /\ cancelled = FALSE
    /\ logged = {}
    /\ phase = "down"
    /\ cleanExit = FALSE
    /\ stops = 0

-----------------------------------------------------------------------------
(* Submit and the goroutine it starts. *)

\* Mutated form: Submit does not look at e.accepting.
Submit_always(j, c) ==
    /\ phase # "down"
    /\ row[j] = NoRow
    /\ row' = [row EXCEPT ![j] = Queued]
    /\ class' = [class EXCEPT ![j] = c]
    /\ pc' = [pc EXCEPT ![j] = "acquire"]
    /\ UNCHANGED <<lifecycle, slots, logged>> /\ UNCHANGED process

\* Submit writes the row, counts the worker and starts it, all under e.mu.
\* A refused Submit and one whose CreateJob fails change nothing.
Submit(j, c) ==
    /\ phase # "down"
    /\ accepting
    /\ row[j] = NoRow
    /\ row' = [row EXCEPT ![j] = Queued]
    /\ class' = [class EXCEPT ![j] = c]
    /\ pc' = [pc EXCEPT ![j] = "acquire"]
    /\ UNCHANGED <<lifecycle, slots, logged>> /\ UNCHANGED process

\* acquire, lifecycle class: the mutex first, then ctx.Err.
LockLifecycle(j) ==
    /\ pc[j] = "acquire" /\ class[j] = "lifecycle"
    /\ lifecycle = NoJob
    /\ lifecycle' = j
    /\ pc' = [pc EXCEPT ![j] = "locked"]
    /\ UNCHANGED <<row, class, slots, logged>> /\ UNCHANGED process

CheckCancelled(j) ==
    /\ pc[j] = "locked"
    /\ IF cancelled
       THEN lifecycle' = NoJob /\ pc' = [pc EXCEPT ![j] = "interrupted"]
       ELSE pc' = [pc EXCEPT ![j] = "working"] /\ UNCHANGED lifecycle
    /\ UNCHANGED <<row, class, slots, logged>> /\ UNCHANGED process

\* Mutated form: one job more than the channel has room for.
TakeSlot_overfull(j) ==
    /\ pc[j] = "acquire" /\ class[j] = "general"
    /\ Cardinality(slots) <= MaxConcurrent
    /\ slots' = slots \cup {j}
    /\ pc' = [pc EXCEPT ![j] = "working"]
    /\ UNCHANGED <<row, class, lifecycle, logged>> /\ UNCHANGED process

\* acquire, general class: a select over a free slot and the cancelled context.
\* When both are ready the runtime picks either.
TakeSlot(j) ==
    /\ pc[j] = "acquire" /\ class[j] = "general"
    /\ Cardinality(slots) < MaxConcurrent
    /\ slots' = slots \cup {j}
    /\ pc' = [pc EXCEPT ![j] = "working"]
    /\ UNCHANGED <<row, class, lifecycle, logged>> /\ UNCHANGED process

RefuseSlot(j) ==
    /\ pc[j] = "acquire" /\ class[j] = "general"
    /\ cancelled
    /\ pc' = [pc EXCEPT ![j] = "interrupted"]
    /\ UNCHANGED <<row, class, lifecycle, slots, logged>> /\ UNCHANGED process

\* updateFailure: an unconditional UPDATE by id whose error is only logged.
UpdateFailure(j, code) ==
    \/ row' = [row EXCEPT ![j] = Failure(code)] /\ UNCHANGED logged
    \/ StoreMayFail /\ logged' = logged \cup {j} /\ UNCHANGED row

WriteInterrupted(j) ==
    /\ pc[j] = "interrupted"
    /\ UpdateFailure(j, "interrupted_by_shutdown")
    /\ pc' = [pc EXCEPT ![j] = "done"]
    /\ UNCHANGED <<class, lifecycle, slots>> /\ UNCHANGED process

-----------------------------------------------------------------------------
(* The work function: it may report, return or panic at any moment. *)

\* Update and UpdateWithCode as a work function calls them: running until it reports its
\* end, nothing after that.  A write that fails is not noticed: no report at all.
Report(j, s) ==
    /\ pc[j] = "working"
    /\ row[j].status \notin Terminal
    /\ row' = [row EXCEPT ![j] = [status |-> s, code |-> IF s = "failed" THEN "own" ELSE ""]]
    /\ UNCHANGED logged /\ UNCHANGED goroutines /\ UNCHANGED process

Return(j) ==
    /\ pc[j] = "working"
    /\ pc' = [pc EXCEPT ![j] = "returned"]
    /\ UNCHANGED <<row, class, lifecycle, slots, logged>> /\ UNCHANGED process

Panic(j) ==
    /\ pc[j] = "working"
    /\ pc' = [pc EXCEPT ![j] = "panicked"]
    /\ UNCHANGED <<row, class, lifecycle, slots, logged>> /\ UNCHANGED process

WritePanic(j) ==
    /\ pc[j] = "panicked"
    /\ UpdateFailure(j, "worker_panic")
    /\ pc' = [pc EXCEPT ![j] = "releasing"]
    /\ UNCHANGED <<class, lifecycle, slots>> /\ UNCHANGED process

\* Mutated form: the worker trusts the work function to have finished the row.
ReadRow_trusts(j) ==
    /\ pc[j] = "returned"
    /\ pc' = [pc EXCEPT ![j] = "releasing"]
    /\ UNCHANGED <<row, class, lifecycle, slots, logged>> /\ UNCHANGED process

\* Mutated form: ensureTerminal fails the row without looking at its status.
ReadRow_blind(j) ==
    /\ pc[j] = "returned"
    /\ pc' = [pc EXCEPT ![j] = "missing"]
    /\ UNCHANGED <<row, class, lifecycle, slots, logged>> /\ UNCHANGED process

\* ensureTerminal reads the row; a failed read ends it with a log line.
ReadRow(j) ==
    /\ pc[j] = "returned"
    /\ \/ /\ pc' = [pc EXCEPT ![j] = IF row[j].status \in Terminal THEN "releasing" ELSE "missing"]
          /\ UNCHANGED logged
       \/ /\ StoreMayFail
          /\ pc' = [pc EXCEPT ![j] = "releasing"]
          /\ logged' = logged \cup {j}
    /\ UNCHANGED <<row, class, lifecycle, slots>> /\ UNCHANGED process

WriteMissing(j) ==
    /\ pc[j] = "missing"
    /\ UpdateFailure(j, IF cancelled THEN "interrupted_by_shutdown" ELSE "missing_terminal_state")
    /\ pc' = [pc EXCEPT ![j] = "releasing"]
    /\ UNCHANGED <<class, lifecycle, slots>> /\ UNCHANGED process

\* The deferred release and, as the goroutine ends, wg.Done.
Release(j) ==
    /\ pc[j] = "releasing"
    /\ IF class[j] = "lifecycle"
       THEN lifecycle' = NoJob /\ UNCHANGED slots
       ELSE slots' = slots \ {j} /\ UNCHANGED lifecycle
    /\ pc' = [pc EXCEPT ![j] = "done"]
    /\ UNCHANGED <<row, class, logged>> /\ UNCHANGED process

-----------------------------------------------------------------------------
(* The process: boot, shutdown, crash. *)


\* db.Open, jobs.New and Reconcile, before the listener and the scheduler start.
Boot ==
    /\ phase = "down"
    /\ row' = [j \in Jobs |-> IF row[j].status \in Incomplete
                              THEN Failure("interrupted_by_restart") ELSE row[j]]
    /\ accepting' = TRUE
    /\ cancelled' = FALSE
    /\ logged' = {}
    /\ phase' = "up"
    /\ cleanExit' = FALSE
    /\ UNCHANGED stops /\ UNCHANGED goroutines

\* The first Executor.Shutdown of main, after the HTTP server and the background
\* loops stopped.  When one of those waits fails, main returns at once and only the
\* deferred call is left.
BeginShutdown(next) ==
    /\ phase = "up"
    /\ accepting' = FALSE
    /\ phase' = next
    /\ UNCHANGED <<row, logged, cancelled, cleanExit, stops>> /\ UNCHANGED goroutines

\* Shutdown returns because the wait group reached zero, or because its context
\* expired; either way it cancels the workers' context first.
ShutdownDrained ==
    /\ phase \in {"draining", "draining again"}
    /\ Drained
    /\ cancelled' = TRUE
    /\ phase' = "drained"
    /\ UNCHANGED <<row, logged, accepting, cleanExit, stops>> /\ UNCHANGED goroutines

\* Mutated form: Shutdown waits for the workers without looking at its context.
ShutdownTimeout_waits ==
    /\ phase = "draining"
    /\ Drained
    /\ cancelled' = TRUE
    /\ phase' = "draining again"
    /\ UNCHANGED <<row, logged, accepting, cleanExit, stops>> /\ UNCHANGED goroutines

ShutdownTimeout ==
    /\ phase = "draining"
    /\ ~Drained
    /\ cancelled' = TRUE
    /\ phase' = "draining again"
    /\ UNCHANGED <<row, logged, accepting, cleanExit, stops>> /\ UNCHANGED goroutines

\* The end of the process takes every goroutine with it.
Stop(clean) ==
    /\ phase' = "down"
    /\ cleanExit' = clean
    /\ stops' = stops + 1
    /\ pc' = [j \in Jobs |-> "none"]
    /\ lifecycle' = NoJob
    /\ slots' = {}
    /\ accepting' = FALSE
    /\ UNCHANGED <<row, class, cancelled, logged>>

ExitDrained == phase = "drained" /\ Stop(TRUE)

\* The deferred second Shutdown ran out of its own 15 seconds as well.
ExitTimeout == phase = "draining again" /\ ~Drained /\ Stop(FALSE)

Crash == phase # "down" /\ stops < MaxStops /\ Stop(FALSE)

-----------------------------------------------------------------------------
Worker(j) ==
    \/ LockLifecycle(j) \/ CheckCancelled(j) \/ TakeSlot(j) \/ RefuseSlot(j)
    \/ WriteInterrupted(j) \/ WritePanic(j) \/ ReadRow(j) \/ WriteMissing(j)
    \/ Release(j)

Work(j) ==
    \/ \E s \in Reported : Report(j, s)
    \/ Return(j) \/ Panic(j)

Shutdown ==
    \/ stops < MaxStops /\ (\E next \in {"draining", "draining again"} : BeginShutdown(next))
    \/ ShutdownDrained \/ ShutdownTimeout \/ ExitDrained \/ ExitTimeout

Next ==
    \/ \E j \in Jobs : (\E c \in Class : Submit(j, c)) \/ Worker(j) \/ Work(j)
    \/ Boot \/ Shutdown \/ Crash

Spec == Init /\ [][Next]_vars

\* The scheduler of the runtime runs every goroutine that can run, contexts expire,
\* and a supervisor restarts the process.  Nothing makes a work function end.
FairProcess ==
    /\ \A j \in Jobs : WF_vars(Worker(j))
    /\ WF_vars(Boot) /\ WF_vars(ShutdownDrained) /\ WF_vars(ShutdownTimeout)
    /\ WF_vars(ExitDrained) /\ WF_vars(ExitTimeout)

FairSpec == Spec /\ FairProcess

\* Every work function returns or panics.
FairWork == \A j \in Jobs : WF_vars(Return(j) \/ Panic(j))

-----------------------------------------------------------------------------
(* What the executor promises. *)

\* At most one lifecycle job is between its acquire and its release, whatever the
\* cancellation and the panics of others do (executor.go:135-158).
LifecycleExclusive ==
    \A i, j \in Jobs :
        /\ class[i] = "lifecycle" /\ class[j] = "lifecycle"
        /\ pc[i] \in Executing /\ pc[j] \in Executing
        => i = j

\* No more than MaxConcurrent general jobs are between acquire and release.
GeneralBounded ==
    Cardinality({j \in Jobs : class[j] = "general" /\ pc[j] \in Executing}) <= MaxConcurrent

\* While the process is up every incomplete row has a goroutine that will finish it,
\* unless the write of its end failed and was logged: no row is left behind by a crash,
\* a refused worker or a panic (executor.go:117-184 with Reconcile at boot).
IncompleteHasWorker ==
    phase # "down" =>
        \A j \in Jobs : row[j].status \in Incomplete => Live(j) \/ j \in logged

\* A process that stopped after its wait group drained left no incomplete row: no Submit
\* slips in between the drain and the exit (executor.go:75-87 and 97-115).
CleanExitLeavesNoWork ==
    phase = "down" /\ cleanExit =>
        \A j \in Jobs : row[j].status \in Incomplete => j \in logged

\* No row is forgotten, in whichever way the process stops and comes back.
NoRowForgotten == IncompleteHasWorker /\ CleanExitLeavesNoWork

FinalStep ==
    \A j \in Jobs : row[j].status \in Terminal =>
        \/ row'[j] = row[j]
        \/ pc[j] = "panicked" /\ row'[j] = Failure("worker_panic")

\* A finished row is final, except that a work function that panics after it reported
\* its end is recorded as a panic (executor.go:124-131).
FinalUnlessPanic == [][FinalStep]_vars

\* Every submitted job ends up with a terminal row, through any shutdown, panic or
\* crash, when its work function ends, or else the database refused its end and the log
\* says so.
EveryJobSettles ==
    FairWork => \A j \in Jobs :
        row[j].status = "queued" ~> row[j].status \in Terminal \/ j \in logged

\* A shutdown ends even when a work function hangs, and so frees the process: each of
\* its waits has a deadline (executor.go:107-114, main.go:213-223).
ShutdownEnds == phase \in {"draining", "drained", "draining again"} ~> phase = "down"

-----------------------------------------------------------------------------
(* The inductive invariant behind these properties, in named parts. *)

\* The mutex is held by the lifecycle job past it.
MutexInv ==
    \A j \in Jobs :
        /\ class[j] = "lifecycle" /\ pc[j] \in Executing => lifecycle = j
        /\ pc[j] = "locked" => class[j] = "lifecycle" /\ lifecycle = j

\* The slots of the channel are held by exactly the general jobs past acquire.
SlotInv ==
    /\ slots = {j \in Jobs : class[j] = "general" /\ pc[j] \in Executing}
    /\ IsFiniteSet(slots)
    /\ Cardinality(slots) <= MaxConcurrent

\* How far the row of a job is when its goroutine is at a given point.
RowInvOf(j) ==
    /\ pc[j] \in {"acquire", "locked", "interrupted"} => row[j] = Queued
    /\ pc[j] = "missing" => row[j].status \in Incomplete
    /\ pc[j] # "none" => row[j].status # "none"
    /\ pc[j] \in {"releasing", "done"} => row[j].status \in Terminal \/ j \in logged
    /\ pc[j] = "none" /\ phase # "down" => row[j].status \notin Incomplete
    /\ pc[j] = "interrupted" => cancelled

RowInv == \A j \in Jobs : RowInvOf(j)

\* What the phases of main guarantee.
PhaseInv ==
    /\ phase = "down" => \A j \in Jobs : pc[j] = "none"
    /\ phase = "drained" => Drained
    /\ phase # "up" => ~accepting
    /\ logged # {} => StoreMayFail

IInv == TypeOK /\ MutexInv /\ SlotInv /\ RowInv /\ PhaseInv /\ CleanExitLeavesNoWork

\* The mutex is held by a lifecycle job that runs.
HeldInv ==
    lifecycle # NoJob => class[lifecycle] = "lifecycle" /\ pc[lifecycle] \in Executing \cup {"locked"}

\* A job waits in acquire only while another one is past it, which gives the mutex or its slot
\* back (executor.go:135-158).
WaitsForRunning ==
    \A j \in Jobs : pc[j] = "acquire" =>
        /\ class[j] = "lifecycle" /\ lifecycle # NoJob => pc[lifecycle] \in Executing \cup {"locked"}
        /\ class[j] = "general" /\ Cardinality(slots) >= MaxConcurrent =>
              \E i \in slots : pc[i] \in Executing

-----------------------------------------------------------------------------
(* The executor implements the board of module JobBoard. *)

Outcome(r) ==
    CASE r.status = "none" -> "absent"
      [] r.status \in Incomplete -> "open"
      [] r.status = "completed" -> "ok"
      [] OTHER -> "failed"

Outcomes == [j \in Jobs |-> Outcome(row[j])]
AtWork == {j \in Jobs : pc[j] \in Executing}

Board == INSTANCE JobBoard WITH
    MayLoseEnd <- StoreMayFail, outcome <- Outcomes, active <- AtWork

\* Every step of the executor is a step of the board or leaves it alone.
ImplementsBoard == Board!Spec
=============================================================================
