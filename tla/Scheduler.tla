------------------------------ MODULE Scheduler ------------------------------
(***************************************************************************)
(* The scheduler (scheduler/manager.go) on top of the job board, which the *)
(* executor implements.  A run works on a copy of the schedule: it asks    *)
(* whether a job of the type is incomplete, submits one, and writes the    *)
(* copy back with the next time.  The ticker and a manual run do so side   *)
(* by side, and the schedule is edited and deleted meanwhile: nothing      *)
(* holds a lock.                                                           *)
(***************************************************************************)
EXTENDS JobBoard, Sequences

CONSTANTS
    Defs,       \* definitions of the schedule clients may save
    Requested,  \* types of the jobs clients submit themselves
    ListLimit   \* rows a list of the jobs has at most: 100

JobType == {"save", "backup", "safe_restart", "update", "version_check"}

ASSUME DefsAssumption == Defs \subseteq [type : JobType, enabled : BOOLEAN]
ASSUME RequestedAssumption == Requested \subseteq JobType
ASSUME ListLimitAssumption == ListLimit \in Nat \ {0}

VARIABLES
    up,         \* the panel runs
    type,       \* type of each job
    recent,     \* the rows a list of the jobs has, newest first
    table,      \* the row of the schedule
    due,        \* its next_run_at has passed
    rpc, copy,  \* where each runner is, and the schedule it has read
    editor,     \* what an edit is about to write, after it has read the row
    acked,      \* history: what the last edit or deletion told its client
    overlap,    \* history: something else was at work on the row at that moment
    scheduled,  \* history: jobs the scheduler has submitted
    sure,       \* history: runners whose answer about the listed jobs is still true
    loose       \* history: jobs submitted on an answer that was not

board == <<vars, up, type, recent>>
runners == <<rpc, copy>>
editing == <<editor, acked, overlap>>
submitting == <<scheduled, sure, loose>>
allVars == <<board, table, due, runners, editing, submitting>>

Runners == {"ticker", "manual"}
Absent == [type |-> "none", enabled |-> FALSE]  \* no such row, or nothing

SchedulerTypeOK ==
    /\ up \in BOOLEAN /\ type \in [Jobs -> JobType]
    /\ recent \in Seq(Jobs) /\ Len(recent) <= ListLimit
    /\ {table, editor, acked} \subseteq Defs \cup {Absent}
    /\ rpc \in [Runners -> {"idle", "check", "submit", "write"}]
    /\ copy \in [Runners -> Defs \cup {Absent}]
    /\ due \in BOOLEAN /\ overlap \in BOOLEAN
    /\ scheduled \subseteq Jobs /\ loose \subseteq Jobs /\ sure \subseteq Runners

SchedulerInit ==
    /\ Init /\ up = TRUE /\ type = [j \in Jobs |-> "save"] /\ recent = <<>>
    /\ table \in Defs /\ acked = table /\ due = FALSE
    /\ rpc = [r \in Runners |-> "idle"] /\ copy = [r \in Runners |-> Absent]
    /\ editor = Absent /\ overlap = FALSE
    /\ scheduled = {} /\ sure = {} /\ loose = {}

Open(j) == outcome[j] = "open"
Listed == {recent[i] : i \in 1 .. Len(recent)}
Busy == \E r \in Runners : rpc[r] # "idle"

-----------------------------------------------------------------------------
(* Jobs. *)

ClassOf(t) == IF t \in {"save", "version_check"} THEN "general" ELSE "lifecycle"

Create(j, t) ==
    /\ Accept(j, ClassOf(t)) /\ type' = [type EXCEPT ![j] = t]
    /\ recent' = <<j>> \o IF Len(recent) < ListLimit THEN recent ELSE SubSeq(recent, 1, ListLimit - 1)
    /\ UNCHANGED up

\* A new job of a type makes what the list said about that type untrue.
Unaware(t) == {r \in sure : copy[r].type # t}

ClientSubmits(j, t) ==
    /\ up /\ Create(j, t) /\ sure' = Unaware(t)
    /\ UNCHANGED <<table, due, runners, editing, scheduled, loose>>

JobStep(j) ==
    /\ up
    /\ Start(j) \/ Leave(j) \/ Spoil(j) \/ \E end \in {"ok", "failed"} : Settle(j, end)
    /\ UNCHANGED <<up, type, recent, table, due, runners, editing, submitting>>

-----------------------------------------------------------------------------
(* A run of the schedule. *)

\* next_run_at is reached.
ComesDue ==
    /\ table # Absent /\ ~due /\ due' = TRUE
    /\ UNCHANGED <<board, table, runners, editing, submitting>>

Begin(r, item) ==
    /\ up /\ rpc[r] = "idle" /\ table # Absent
    /\ rpc' = [rpc EXCEPT ![r] = "check"] /\ copy' = [copy EXCEPT ![r] = item]
    /\ UNCHANGED <<board, table, due, editing, submitting>>

RunDue == due /\ table.enabled /\ Begin("ticker", table)

\* A manual run asks neither for the time nor whether the schedule is enabled.
RunNow == Begin("manual", table)

\* Mutated form: a job that has not begun is overlooked.
hasRunningJob_begun(t) == \E j \in Listed \cap active : Open(j) /\ type[j] = t
\* An open job with so many newer rows that the list ends before it is overlooked.
hasRunningJob(t) == \E j \in Listed : Open(j) /\ type[j] = t

\* A list of jobs that cannot be read counts as one without such a job.
Check(r) ==
    /\ up /\ rpc[r] = "check"
    /\ \/ hasRunningJob(copy[r].type) /\ rpc' = [rpc EXCEPT ![r] = "write"] /\ UNCHANGED sure
       \/ ~hasRunningJob(copy[r].type) /\ rpc' = [rpc EXCEPT ![r] = "submit"] /\ sure' = sure \cup {r}
       \/ rpc' = [rpc EXCEPT ![r] = "submit"] /\ sure' = sure \ {r}
    /\ UNCHANGED <<board, table, due, copy, editing, scheduled, loose>>

Submit(r, j) ==
    /\ up /\ rpc[r] = "submit" /\ rpc' = [rpc EXCEPT ![r] = "write"]
    /\ Create(j, copy[r].type) /\ scheduled' = scheduled \cup {j}
    /\ loose' = IF r \in sure THEN loose ELSE loose \cup {j}
    /\ sure' = Unaware(copy[r].type)
    /\ UNCHANGED <<table, due, copy, editing>>

SubmitFails(r) ==
    /\ up /\ rpc[r] = "submit" /\ rpc' = [rpc EXCEPT ![r] = "write"]
    /\ UNCHANGED <<board, table, due, copy, editing, submitting>>

\* The whole copy is upserted, whatever became of the row; an error is dropped.
WriteBack(r) ==
    /\ up /\ rpc[r] = "write" /\ rpc' = [rpc EXCEPT ![r] = "idle"]
    /\ \/ table' = copy[r] /\ due' = FALSE
       \/ UNCHANGED <<table, due>>
    /\ copy' = [copy EXCEPT ![r] = Absent] /\ sure' = sure \ {r}
    /\ UNCHANGED <<board, editing, scheduled, loose>>

-----------------------------------------------------------------------------
(* Edits, deletion, and the end of the process. *)

\* Update reads the row first: one that is gone is not found.
EditReads(d) ==
    /\ up /\ table # Absent /\ editor = Absent /\ editor' = d
    /\ UNCHANGED <<board, table, due, runners, acked, overlap, submitting>>

\* Mutated form: the error of the upsert is dropped, as a run does it.
EditWrites_dropped ==
    /\ up /\ editor # Absent /\ editor' = Absent
    /\ \/ table' = editor /\ due' = FALSE
       \/ UNCHANGED <<table, due>>
    /\ acked' = editor /\ overlap' = Busy
    /\ UNCHANGED <<board, runners, submitting>>
EditWrites ==
    /\ up /\ editor # Absent /\ editor' = Absent
    /\ table' = editor /\ due' = FALSE
    /\ acked' = editor /\ overlap' = Busy
    /\ UNCHANGED <<board, runners, submitting>>

Delete ==
    /\ up /\ table # Absent /\ table' = Absent /\ due' = FALSE
    /\ acked' = Absent /\ overlap' = (Busy \/ editor # Absent)
    /\ UNCHANGED <<board, runners, editor, submitting>>

Dies ==
    /\ up /\ up' = FALSE /\ Vanish
    /\ rpc' = [r \in Runners |-> "idle"] /\ copy' = [r \in Runners |-> Absent]
    /\ editor' = Absent /\ sure' = {}
    /\ UNCHANGED <<type, recent, table, due, acked, overlap, scheduled, loose>>

\* Reconcile comes before the scheduler is started.
Boots ==
    /\ ~up /\ up' = TRUE /\ Recover
    /\ UNCHANGED <<type, recent, table, due, runners, editing, submitting>>

SchedulerNext ==
    \/ \E j \in Jobs : JobStep(j) \/ (\E t \in Requested : ClientSubmits(j, t))
    \/ ComesDue \/ RunDue \/ RunNow
    \/ \E r \in Runners : Check(r) \/ (\E j \in Jobs : Submit(r, j)) \/ SubmitFails(r) \/ WriteBack(r)
    \/ (\E d \in Defs : EditReads(d)) \/ EditWrites \/ Delete \/ Dies \/ Boots

SchedulerSpec == SchedulerInit /\ [][SchedulerNext]_allVars

-----------------------------------------------------------------------------
(* Properties. *)

\* What a client was told about the schedule stays so, a deletion included, unless a run or an
\* edit was under way at that moment (manager.go:201 writes its whole copy back).
EditSurvives == table = acked \/ overlap

\* Among the rows a look takes in, two runs give no two incomplete jobs of a type, unless the list
\* could not be read or another job of the type came between the look and the submission
\* (manager.go:159).  An older job, still open behind ListLimit newer rows, does not count.
OnePerType ==
    \A j, k \in scheduled \cap Listed :
        j # k /\ type[j] = type[k] /\ Open(j) /\ Open(k) => j \in loose \/ k \in loose

=============================================================================
