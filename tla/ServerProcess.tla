--------------------------- MODULE ServerProcess ---------------------------
(***************************************************************************)
(* How the panel starts, stops and keeps track of the game server as a     *)
(* process of its own host: the native Linux runtime                       *)
(* (internal/server/native_linux.go), the Host Wine runtime                *)
(* (host_wine_lifecycle_linux.go, host_wine_process*.go) and Windows       *)
(* (manager.go:931-1144, process_windows.go), driven by Start, Stop and    *)
(* Restart of internal/server/manager.go.                                  *)
(*                                                                         *)
(* The only memory of a running server is one row of the key-value table:  *)
(* the identity (PID and start time) of the last one started.  Operations  *)
(* run under operationMu; Status polls and the goroutine that waits for a  *)
(* server to exit read and clear the same row without it.  A server        *)
(* outlives the panel that started it, unless it is in a Windows job that  *)
(* ends with the panel, and its PID may be used again by a stranger once   *)
(* it is gone.                                                             *)
(***************************************************************************)
EXTENDS Naturals

CONSTANTS
    Modes,       \* runtimes to consider: subset of {"linux", "wine", "windows"}
    PIDs,        \* process (group) ids of the host
    MaxLaunch,   \* bound: servers launched in a behaviour
    Undatable,   \* bound: which of them may have an unreadable start time at launch
    MaxCrash     \* bound: how often the panel dies

ASSUME ModesAssumption == Modes \subseteq {"linux", "wine", "windows"}
ASSUME PIDsAssumption == PIDs # {}
ASSUME BoundsAssumption == MaxLaunch \in Nat /\ MaxCrash \in Nat

Servers == 1 .. MaxLaunch   \* identities: a PID with its start time, never equal
None == 0

VARIABLES
    mode,      \* the runtime mode, chosen before the first start
    up,        \* the panel process is running
    proc,      \* state of every server process
    pid,       \* the PID it has or had
    undated,   \* servers whose start time could not be read when they were recorded
    foreign,   \* PIDs held by processes that are not ours
    struck,    \* servers of which a signal went to a stranger
    record,    \* linux_process / host_wine_process / windows_process row: a server or None
    bare,      \* that row is lost, and the older one of Windows has the PID of the server only
    waiter,    \* the goroutine in cmd.Wait of every server this panel started
    op,        \* the operation that holds operationMu
    poll,      \* one Status call, which holds nothing
    crashes    \* number of crashes so far

vars == <<mode, up, proc, pid, undated, foreign, struck, record, bare, waiter, op, poll, crashes>>
host == <<proc, pid, undated, foreign, struck, waiter>>
row == <<record, bare>>

Idle == [at |-> "idle", seen |-> None, restart |-> FALSE, blind |-> FALSE]
NoPoll == [at |-> "idle", seen |-> None, blind |-> FALSE]

OpStep == {"idle", "load", "startCheck", "startClear", "launch", "discover", "persist",
           "stopLoad", "stopCheck", "wait", "clear"}

TypeOK ==
    /\ mode \in Modes /\ up \in BOOLEAN /\ crashes \in 0 .. MaxCrash
    /\ proc \in [Servers -> {"unborn", "booting", "alive", "dying", "zombie", "gone"}]
    /\ pid \in [Servers -> PIDs]
    /\ undated \subseteq Servers /\ foreign \subseteq PIDs /\ struck \subseteq Servers
    /\ record \in Servers \cup {None} /\ bare \in BOOLEAN
    /\ waiter \in [Servers -> {"none", "child", "wait", "load", "clear"}]
    /\ op \in [at : OpStep, seen : Servers \cup {None}, restart : BOOLEAN, blind : BOOLEAN]
    /\ poll \in [at : {"idle", "check", "clear"}, seen : Servers \cup {None}, blind : BOOLEAN]

Init ==
    /\ mode \in Modes /\ up = TRUE /\ crashes = 0
    /\ proc = [s \in Servers |-> "unborn"]
    /\ pid = [s \in Servers |-> CHOOSE p \in PIDs : TRUE]
    /\ undated = {} /\ foreign = {} /\ struck = {}
    /\ record = None /\ bare = FALSE
    /\ waiter = [s \in Servers |-> "none"]
    /\ op = Idle /\ poll = NoPoll

-----------------------------------------------------------------------------
(* The host. *)

Exists(s) == proc[s] \in {"booting", "alive", "dying", "zombie"}
Holders(p) == {s \in Servers : Exists(s) /\ pid[s] = p}
Free(p) == p \notin foreign /\ Holders(p) = {}

\* kill(pid, 0) and the start time, where the record has one; the other two also take a zombie
\* for exited.
Running_pidOnly(s) == ~Free(pid[s])
Running(s) ==
    \/ s \in undated /\ ~Free(pid[s])
    \/ Exists(s) /\ (mode # "linux" => proc[s] \in {"alive", "dying"})

\* The start time of a live process cannot be read for once: it is taken for another one.
Misjudged(s) == mode = "linux" /\ Exists(s) /\ s \notin undated

\* Windows refuses to manage a PID that another process has by now.
Refuses(s) ==
    /\ mode = "windows" /\ ~Running(s)
    /\ pid[s] \in foreign \/ \E t \in Holders(pid[s]) : Running(t)

Died(s) == IF waiter[s] = "none" THEN "gone" ELSE "zombie"   \* a child of ours waits to be reaped

\* The panel holds the only handle of the job of a server it started, if the host allowed one.
Owned == {s \in Servers : mode = "windows" /\ waiter[s] # "none"}

\* SIGTERM to a process group: a server may take it or ignore it.
Terminate(s) == struck' = IF pid[s] \in foreign THEN struck \cup {s} ELSE struck
Kill(s) ==
    /\ Terminate(s)
    /\ proc' = [t \in Servers |-> IF t \in Holders(pid[s]) /\ proc[t] # "zombie" THEN "dying" ELSE proc[t]]

\* The server ends: after a signal, in a crash of its own or by an in-game shutdown.
Exit(s) ==
    /\ proc[s] \in {"booting", "alive", "dying"}
    /\ proc' = [proc EXCEPT ![s] = Died(s)]
    /\ UNCHANGED <<mode, up, pid, undated, foreign, struck, row, waiter, op, poll, crashes>>

\* PalServer-Win64-Shipping appears in the Wine session.
ShippingUp(s) ==
    /\ proc[s] = "booting"
    /\ proc' = [proc EXCEPT ![s] = "alive"]
    /\ UNCHANGED <<mode, up, pid, undated, foreign, struck, row, waiter, op, poll, crashes>>

\* A stranger gets a free PID.  Not between a look at a process and the signal that
\* follows it: PIDs come round again after thousands of forks, not within a tick of 200 ms.
Reuse(p) ==
    /\ Free(p) /\ op.at \notin {"wait", "discover", "persist"}
    /\ foreign' = foreign \cup {p}
    /\ UNCHANGED <<mode, up, proc, pid, undated, struck, row, waiter, op, poll, crashes>>

StrangerExits(p) ==
    /\ p \in foreign
    /\ foreign' = foreign \ {p}
    /\ UNCHANGED <<mode, up, proc, pid, undated, struck, row, waiter, op, poll, crashes>>

-----------------------------------------------------------------------------
(* Start, Stop and Restart, one at a time under operationMu. *)

\* SetKV, which may fail.
Forget == record' = None /\ bare' = FALSE
TryForget == Forget \/ UNCHANGED row

\* What the row says: a bare PID stands for whichever server has it.
Loaded ==
    LET own == {s \in Servers : bare /\ record # None /\ s \in Holders(pid[record]) /\ Running(s)}
    IN  IF own = {} THEN {record} ELSE own

StartOp == [Idle EXCEPT !.at = IF mode = "linux" THEN "load" ELSE "launch"]

Begin ==
    /\ up /\ op = Idle
    /\ \E again \in BOOLEAN : op' \in {StartOp, [Idle EXCEPT !.at = "stopLoad", !.restart = again]}
    /\ UNCHANGED <<mode, up, proc, pid, undated, foreign, struck, row, waiter, poll, crashes>>

\* A row that cannot be read counts as none: loadLinuxProcess drops the error.
LoadForStart ==
    /\ op.at = "load"
    /\ op' \in {[op EXCEPT !.at = IF record = None THEN "launch" ELSE "startCheck", !.seen = record],
               [op EXCEPT !.at = "launch", !.blind = TRUE]}
    /\ UNCHANGED <<mode, up, host, row, poll, crashes>>

\* What operationMu has read is wrong: blind says that it does not know of the recorded server.
Misread ==
    /\ op.at \in {"startCheck", "stopCheck", "wait"} /\ Misjudged(op.seen)
    /\ op' = [op EXCEPT !.at = IF @ = "startCheck" THEN "startClear" ELSE "clear", !.blind = TRUE]
    /\ UNCHANGED <<mode, up, host, row, poll, crashes>>

\* "PalServer is already running" ends the operation; a dead one is forgotten first.
StartCheck ==
    /\ op.at = "startCheck"
    /\ op' = IF Running(op.seen) THEN Idle ELSE [op EXCEPT !.at = "startClear"]
    /\ UNCHANGED <<mode, up, host, row, poll, crashes>>

StartClear ==
    /\ op.at = "startClear"
    /\ TryForget
    /\ op' = [op EXCEPT !.at = "launch"]
    /\ UNCHANGED <<mode, up, host, poll, crashes>>

\* cmd.Start: a new session or group, a new PID.  The native runtime reads the start time, and
\* does without if it cannot.
Launch(s, p) ==
    /\ op.at = "launch"
    /\ proc[s] = "unborn" /\ \A t \in Servers : t < s => proc[t] # "unborn"
    /\ Free(p)
    /\ pid' = [pid EXCEPT ![s] = p]
    /\ undated' \in IF mode = "linux" THEN {undated, undated \cup ({s} \cap Undatable)} ELSE {undated}
    /\ IF mode # "wine"
       THEN /\ proc' = [proc EXCEPT ![s] = "alive"]
            /\ waiter' = [waiter EXCEPT ![s] = "child"]
            /\ op' = [op EXCEPT !.at = "persist", !.seen = s]
       ELSE /\ proc' = [proc EXCEPT ![s] = "booting"]
            /\ waiter' = waiter
            /\ op' = [op EXCEPT !.at = "discover", !.seen = s]
    /\ UNCHANGED <<mode, up, foreign, struck, row, poll, crashes>>

LaunchFails ==
    /\ op.at = "launch"
    /\ op' = Idle
    /\ UNCHANGED <<mode, up, host, row, poll, crashes>>

Discovered ==
    /\ op.at = "discover" /\ proc[op.seen] = "alive"
    /\ op' = [op EXCEPT !.at = "persist"]
    /\ UNCHANGED <<mode, up, host, row, poll, crashes>>

\* The caller is gone, the launcher exited, or thirty seconds are over.
NotDiscovered ==
    /\ op.at = "discover"
    /\ Kill(op.seen)
    /\ op' = Idle
    /\ UNCHANGED <<mode, up, pid, undated, foreign, row, waiter, poll, crashes>>

Persist ==
    /\ op.at = "persist"
    /\ record' = op.seen /\ bare' = FALSE
    /\ waiter' = [waiter EXCEPT ![op.seen] = IF mode = "wine" THEN @ ELSE "wait"]
    /\ op' = Idle
    /\ UNCHANGED <<mode, up, proc, pid, undated, foreign, struck, poll, crashes>>

PersistFails ==
    /\ op.at = "persist" /\ mode # "windows"
    /\ Kill(op.seen)
    /\ op' = Idle
    /\ UNCHANGED <<mode, up, pid, undated, foreign, row, waiter, poll, crashes>>

\* Windows waits for the process it has to kill.  It writes the identity and then the PID, and
\* takes the identity back if the PID fails: what is left is the PID of the server before, if any.
UndoLaunch ==
    /\ op.at = "persist" /\ mode = "windows"
    /\ proc' = [proc EXCEPT ![op.seen] = "gone"]
    /\ waiter' = [waiter EXCEPT ![op.seen] = "none"]
    /\ \/ TryForget
       \/ record' = op.seen /\ bare' = FALSE
       \/ record # None /\ record' = record /\ bare' = TRUE
    /\ op' = Idle
    /\ UNCHANGED <<mode, up, pid, undated, foreign, struck, poll, crashes>>

Stopped == IF op.restart THEN StartOp ELSE Idle

\* A row that cannot be read: nothing to stop on Linux, an error on the others.
LoadForStop ==
    /\ op.at = "stopLoad"
    /\ \/ record = None /\ op' = Stopped
       \/ record # None /\ \E s \in Loaded : op' = [op EXCEPT !.at = "stopCheck", !.seen = s]
       \/ op' = IF mode = "linux" THEN Stopped ELSE Idle
    /\ UNCHANGED <<mode, up, host, row, poll, crashes>>

\* Windows has no SIGTERM: it ends the job of the server, or every process of its tree.
Signal(s) == IF mode = "windows" THEN Kill(s) ELSE Terminate(s) /\ proc' = proc

StopCheck ==
    /\ op.at = "stopCheck"
    /\ \/ Running(op.seen) /\ Signal(op.seen) /\ op' = [op EXCEPT !.at = "wait"]
       \/ /\ ~Running(op.seen) /\ UNCHANGED <<struck, proc>>
          /\ op' = IF Refuses(op.seen) THEN Idle ELSE [op EXCEPT !.at = "clear"]
    /\ UNCHANGED <<mode, up, pid, undated, foreign, row, waiter, poll, crashes>>

\* The stop of Windows waits until the goroutine of a child has let go of it.
ExitSeen ==
    /\ op.at = "wait" /\ ~Running(op.seen) /\ (mode = "windows" => proc[op.seen] = "gone")
    /\ op' = [op EXCEPT !.at = "clear"]
    /\ UNCHANGED <<mode, up, host, row, poll, crashes>>

\* The context of the caller is cancelled, or the process cannot be inspected: the server may
\* live, so the row stays.
StopGivesUp_clears ==
    /\ op.at = "wait"
    /\ op' = Idle /\ TryForget
    /\ UNCHANGED <<mode, up, host, poll, crashes>>
StopGivesUp ==
    /\ op.at = "wait" \/ (mode # "linux" /\ op.at = "stopCheck")
    /\ op' = Idle
    /\ UNCHANGED <<mode, up, host, row, poll, crashes>>

\* SIGKILL.  The native runtime goes on looking, Host Wine takes it for done.
Deadline_done ==
    /\ op.at = "wait" /\ mode # "windows"
    /\ Kill(op.seen)
    /\ op' = [op EXCEPT !.at = "clear"]
    /\ UNCHANGED <<mode, up, pid, undated, foreign, row, waiter, poll, crashes>>
Deadline_ignored ==
    /\ op.at = "wait" /\ mode # "windows"
    /\ Terminate(op.seen)
    /\ op' = [op EXCEPT !.at = IF mode = "linux" THEN "wait" ELSE "clear"]
    /\ UNCHANGED <<mode, up, proc, pid, undated, foreign, row, waiter, poll, crashes>>
Deadline ==
    /\ op.at = "wait" /\ mode # "windows"
    /\ Kill(op.seen)
    /\ op' = [op EXCEPT !.at = IF mode = "linux" THEN "wait" ELSE "clear"]
    /\ UNCHANGED <<mode, up, pid, undated, foreign, row, waiter, poll, crashes>>

StopClear ==
    /\ op.at = "clear"
    /\ \/ Forget /\ op' = Stopped
       \/ UNCHANGED row /\ op' = Idle
    /\ UNCHANGED <<mode, up, host, poll, crashes>>

OpSteps ==
    \/ LoadForStart \/ StartCheck \/ StartClear \/ LaunchFails
    \/ \E s \in Servers, p \in PIDs : Launch(s, p)
    \/ Discovered \/ NotDiscovered \/ Persist \/ PersistFails \/ UndoLaunch
    \/ LoadForStop \/ StopCheck \/ ExitSeen \/ StopClear

-----------------------------------------------------------------------------
(* Readers that hold no lock. *)

\* linuxStatus, hostWineStatus, windowsStatus: a row that is missing needs no second look.
PollLoad ==
    /\ up /\ poll.at = "idle" /\ record # None
    /\ \E s \in Loaded : poll' = [at |-> "check", seen |-> s, blind |-> FALSE]
    /\ UNCHANGED <<mode, up, host, row, op, crashes>>

PollCheck ==
    /\ poll.at = "check"
    /\ \/ Running(poll.seen) /\ poll' = NoPoll
       \/ ~Running(poll.seen) /\ ~Refuses(poll.seen) /\ poll' = [poll EXCEPT !.at = "clear"]
       \/ Misjudged(poll.seen) /\ poll' = [poll EXCEPT !.at = "clear", !.blind = TRUE]
       \/ mode # "linux" /\ poll' = NoPoll   \* it cannot be inspected, or is refused
    /\ UNCHANGED <<mode, up, host, row, op, crashes>>

PollClear ==
    /\ poll.at = "clear"
    /\ TryForget
    /\ poll' = NoPoll
    /\ UNCHANGED <<mode, up, host, op, crashes>>

Reap(s) ==
    /\ waiter[s] = "wait" /\ proc[s] = "zombie"
    /\ proc' = [proc EXCEPT ![s] = "gone"]
    /\ waiter' = [waiter EXCEPT ![s] = "load"]
    /\ UNCHANGED <<mode, up, pid, undated, foreign, struck, row, op, poll, crashes>>

\* The PID must be its own; Windows compares the creation time too, where the row has one.
Matches(s) == record # None /\ pid[record] = pid[s] /\ (mode = "windows" => record = s \/ bare)

WaiterLoad(s) ==
    /\ waiter[s] = "load"
    /\ \/ waiter' = [waiter EXCEPT ![s] = IF Matches(s) THEN "clear" ELSE "none"]
       \/ waiter' = [waiter EXCEPT ![s] = "none"]   \* the row cannot be read
    /\ UNCHANGED <<mode, up, proc, pid, undated, foreign, struck, row, op, poll, crashes>>

WaiterClear(s) ==
    /\ waiter[s] = "clear"
    /\ TryForget
    /\ waiter' = [waiter EXCEPT ![s] = "none"]
    /\ UNCHANGED <<mode, up, proc, pid, undated, foreign, struck, op, poll, crashes>>

WaiterSteps == \E s \in Servers : Reap(s) \/ WaiterLoad(s) \/ WaiterClear(s)

-----------------------------------------------------------------------------
(* The panel dies or is stopped; the row survives it, and so does a server that is in no job. *)

Crash ==
    /\ up /\ crashes < MaxCrash
    /\ up' = FALSE /\ crashes' = crashes + 1
    /\ op' = Idle /\ poll' = NoPoll
    /\ waiter' = [s \in Servers |-> "none"]
    /\ \E killed \in SUBSET Owned :
        proc' = [s \in Servers |-> IF proc[s] = "zombie" \/ s \in killed THEN "gone" ELSE proc[s]]
    /\ UNCHANGED <<mode, pid, undated, foreign, struck, row>>

Boot ==
    /\ ~up /\ up' = TRUE
    /\ UNCHANGED <<mode, host, row, op, poll, crashes>>

Next ==
    \/ \E s \in Servers : Exit(s) \/ ShippingUp(s)
    \/ \E p \in PIDs : Reuse(p) \/ StrangerExits(p)
    \/ Begin \/ OpSteps \/ Misread \/ StopGivesUp \/ Deadline
    \/ PollLoad \/ PollCheck \/ PollClear
    \/ WaiterSteps
    \/ Crash \/ Boot

Spec == Init /\ [][Next]_vars

\* A goroutine goes on, the deadline of a stop passes, a killed process ends.  No server
\* has to answer SIGTERM, no caller has to give up, and no read has to fail.
FairSpec ==
    /\ Spec
    /\ WF_vars(OpSteps)
    /\ WF_vars(Deadline)
    /\ WF_vars(WaiterSteps)
    /\ \A s \in Servers : WF_vars(Exit(s) /\ proc[s] = "dying")

-----------------------------------------------------------------------------
(* What everybody who remembers a server knows of it. *)

Born(s) == s \in Servers /\ proc[s] # "unborn"

\* Steps of an operation that has read the row, and those at which it is about to signal.
Looking == {"startCheck", "startClear", "stopCheck", "wait", "clear"}
Aiming == {"wait", "discover", "persist"}

Over(s) == proc[s] \in {"zombie", "gone"}

\* The row an operation works on is still its own, or has been cleared, or names a server that
\* has exited and whose PID another one has; it clears, or launches a native server, only over
\* one that has exited.
Operation ==
    /\ op.at \in Looking \cup Aiming => Born(op.seen)
    /\ op.at \in Looking => record \in {op.seen, None} \/ (mode = "windows" /\ Over(record))
    /\ op.at = "discover" => mode = "wine"
    /\ op.at \in {"load", "startCheck", "startClear"} => mode = "linux"
    /\ mode # "wine" /\ op.at \in {"startClear", "clear"} => Over(op.seen) \/ op.blind
    /\ mode = "linux" /\ op.at \in {"launch", "persist"} /\ ~op.blind
          => record = None \/ Over(record)

Readers ==
    /\ record # None => Born(record)
    /\ bare => mode = "windows"
    /\ poll.at # "idle" => Born(poll.seen)
    /\ mode # "wine" /\ poll.at = "clear" => Over(poll.seen) \/ poll.blind
    /\ undated # {} => mode = "linux"
    /\ \A s \in Servers : waiter[s] \in {"load", "clear"} => proc[s] = "gone"
    /\ \A s \in Servers : proc[s] = "booting" => mode = "wine"

\* A PID belongs to one process at a time, and to the server while an operation aims at it, unless
\* the record of that server cannot tell.
Addresses ==
    /\ \A s \in Servers : Exists(s) => pid[s] \notin foreign
    /\ \A s, t \in Servers : Exists(s) /\ Exists(t) /\ pid[s] = pid[t] => s = t
    /\ op.at \in Aiming /\ pid[op.seen] \in foreign => op.seen \in undated

-----------------------------------------------------------------------------
(* Properties. *)

Tracked(s) == record = s /\ proc[s] = "alive"

\* A signal meant for a server reaches a stranger with its PID only when the start time of the
\* server could not be read as it was recorded (linuxProcessRunning goes by the PID alone then;
\* verifyHostWineProcess and verifyWindowsProcess never do): however the panel was restarted in
\* between, and whoever got the PID.
NoStrangerSignalled == struck \subseteq undated

\* native_linux.go:119, manager.go:1005: stopLinux and stopWindows forget a server only when it
\* has exited, or when its start time could not be read while they looked; so a restart never has
\* two of them on one save directory because one ignores SIGTERM or its PID went to another.
StoppedIsGone ==
    mode # "wine" /\ op.at = "clear" /\ ~op.blind => proc[op.seen] \in {"zombie", "gone"}

\* The inductive invariant.
IInv == TypeOK /\ Operation /\ Readers /\ Addresses /\ NoStrangerSignalled

\* A living server leaves the row only by the write of a Status call or of a waiter that looked
\* at an earlier server: no operation, failed write, cancelled caller or crash of the panel
\* forgets it.  The exceptions are those of the code: a native start that could not read the row,
\* a native operation or Status that could not read the start time, and a start on Windows, which
\* never asks whether a server runs.
OnlyStaleReadersForget ==
    [][mode # "wine" =>
       \A s \in Servers : Tracked(s) /\ proc'[s] = "alive" /\ record' # s =>
          \/ op.blind /\ (StartClear \/ Persist \/ StopClear)
          \/ mode = "windows" /\ (Persist \/ UndoLaunch)
          \/ PollClear /\ (poll.seen # s \/ poll.blind)
          \/ \E t \in Servers \ {s} : WaiterClear(t)]_vars

\* A stop that goes by the PID alone waits for as long as somebody else has it: the kill is sent
\* once, and to the group of that PID.
Stranded == op.at = "wait" /\ op.seen \in undated /\ proc[op.seen] = "gone"

\* Every other Start, Stop and Restart returns and gives operationMu back, or the panel dies.
OperationsEnd == op.at # "idle" ~> op.at = "idle" \/ Stranded

=============================================================================
