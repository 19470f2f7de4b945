----------------------------- MODULE Maintenance -----------------------------
(***************************************************************************)
(* Maintenance of the game server by SteamCMD: installation, update, smart *)
(* update, safe restart and version check (server/manager.go,              *)
(* server/version.go, steamcmd/client.go), with the start, stop and        *)
(* restart requests that come in between.                                  *)
(*                                                                         *)
(* Three exclusions meet: the executor runs one lifecycle job at a time;   *)
(* operationMu of the manager is held by its lifecycle jobs and by the     *)
(* requests; the gate lets one user of SteamCMD work at a time.            *)
(***************************************************************************)
EXTENDS Naturals, FiniteSets

CONSTANTS
    Jobs,       \* ids of the jobs
    Nobody,     \* no job
    Kinds,      \* the kinds of jobs clients submit
    MaxBuild    \* bound: builds Steam publishes

Updating == {"update", "smart"}
Kind == Updating \cup {"install", "restart", "check", "loaders"}   \* "loaders": see Loaders

ASSUME NobodyAssumption == Nobody \notin Jobs
ASSUME KindsAssumption == Kinds \subseteq Kind
ASSUME MaxBuildAssumption == MaxBuild \in Nat \ {0}

VARIABLES
    kind, pc,
    aim,        \* what the job's SteamCMD command is for: "look", "game" or "verify"
    row,        \* job row: "open", "completed" or "failed"
    lifecycle,  \* holder of the executor's lifecycle mutex
    op,         \* holder of operationMu
    gate,       \* holder of the SteamCMD token
    tool,       \* the SteamCMD directory passes validateInstalled
    server,     \* "on" when a game server runs, known to the panel or not
    build,      \* build of the server's files, Torn when SteamCMD left them half written
    public,     \* newest build of Steam's public branch
    was,        \* updates that stopped a running server
    blind,      \* history: jobs whose probe or stop took the server that runs for a stopped one
    wanted      \* history: the public build when the present lifecycle job began

own == <<kind, row, lifecycle, op, was, blind, wanted>>
jobVars == <<own, pc, aim>>
steamVars == <<gate, tool, build, public>>
vars == <<jobVars, steamVars, server>>

Torn == 0

Step == {"none", "queued", "lock", "probe", "stop", "archive", "ensure", "acquire", "command",
         "record", "restart", "stage", "done"}

TypeOK ==
    /\ kind \in [Jobs -> Kind] /\ pc \in [Jobs -> Step] /\ aim \in [Jobs -> {"look", "game", "verify"}]
    /\ row \in [Jobs -> {"open", "completed", "failed"}]
    /\ {lifecycle, op, gate} \subseteq Jobs \cup {Nobody}
    /\ tool \in BOOLEAN /\ server \in {"on", "off"}
    /\ build \in 0 .. MaxBuild /\ public \in 1 .. MaxBuild /\ wanted \in 1 .. MaxBuild
    /\ was \subseteq Jobs /\ blind \subseteq Jobs

Init ==
    /\ kind = [j \in Jobs |-> "check"] /\ pc = [j \in Jobs |-> "none"]
    /\ aim = [j \in Jobs |-> "look"] /\ row = [j \in Jobs |-> "open"]
    /\ lifecycle = Nobody /\ op = Nobody /\ gate = Nobody
    /\ tool = FALSE /\ server = "off" /\ build = 1 /\ public = 1
    /\ was = {} /\ blind = {} /\ wanted = 1

At(j, step) == pc[j] = step
Goto(j, step) == pc' = [pc EXCEPT ![j] = step]
Incomplete(j) == pc[j] \notin {"none", "done"}

\* These jobs have overlooked the server; a server that ends is overlooked by nobody.
Overlook(these) == blind' = IF server' = "on" THEN these ELSE {}

\* The row gets its end and the deferred functions give the mutexes back; what the job knew
\* goes out of scope.
End(j, status) ==
    /\ Goto(j, "done") /\ row' = [row EXCEPT ![j] = status]
    /\ lifecycle' = (IF lifecycle = j THEN Nobody ELSE lifecycle)
    /\ op' = (IF op = j THEN Nobody ELSE op)
    /\ aim' = [aim EXCEPT ![j] = "look"]
    /\ was' = was \ {j} /\ blind' = blind \ {j}
    /\ wanted' = (IF lifecycle = j THEN 1 ELSE wanted)
    /\ UNCHANGED kind

-----------------------------------------------------------------------------
(* Submission and mutexes. *)

Submit(j, k) ==
    /\ At(j, "none") /\ Goto(j, "queued") /\ kind' = [kind EXCEPT ![j] = k]
    /\ UNCHANGED <<aim, row, lifecycle, op, was, blind, wanted, steamVars, server>>

\* A version check is a general job; everything else waits for the lifecycle mutex.
Begin(j) ==
    /\ At(j, "queued") /\ kind[j] # "loaders"
    /\ IF kind[j] = "check"
       THEN Goto(j, "ensure") /\ UNCHANGED <<lifecycle, wanted>>
       ELSE lifecycle = Nobody /\ lifecycle' = j /\ Goto(j, "lock") /\ wanted' = public
    /\ UNCHANGED <<kind, aim, row, op, was, blind, steamVars, server>>

\* What the job does first once it has the mutexes.
Enter(j) ==
    CASE kind[j] = "update" -> Goto(j, "probe") /\ aim' = [aim EXCEPT ![j] = "game"]
      [] kind[j] = "smart" -> Goto(j, "ensure") /\ aim' = [aim EXCEPT ![j] = "look"]
      [] kind[j] = "install" -> Goto(j, "ensure") /\ aim' = [aim EXCEPT ![j] = "game"]
      [] OTHER -> Goto(j, "stop") /\ UNCHANGED aim

LockOp(j) ==
    /\ At(j, "lock") /\ op = Nobody /\ op' = j
    /\ Enter(j)
    /\ UNCHANGED <<kind, row, lifecycle, was, blind, wanted, steamVars, server>>

\* A step that returns an error ends the job; a server already stopped stays so.  The wait for
\* the gate has no limit.
GiveUp(j) ==
    /\ pc[j] \in {"probe", "stop", "archive", "ensure", "acquire", "record", "restart"}
    /\ At(j, "acquire") => gate = Nobody
    /\ End(j, "failed")
    /\ UNCHANGED <<steamVars, server>>

-----------------------------------------------------------------------------
(* Update, installation and safe restart. *)

\* Status reports a runtime it cannot query as not running.
Probe(j) ==
    /\ At(j, "probe") /\ kind[j] \in Updating /\ UNCHANGED server
    /\ \/ server = "on" /\ Goto(j, "stop") /\ was' = was \cup {j} /\ UNCHANGED blind
       \/ Goto(j, "archive") /\ UNCHANGED was /\ Overlook(blind \cup {j})
    /\ UNCHANGED <<kind, aim, row, lifecycle, op, wanted, steamVars>>

\* The players are told and the world is saved before.  A stop reports success also when it had
\* no record of the server to go by, misread its process, or did not wait for its end.
StopServer(j) ==
    /\ At(j, "stop") /\ Goto(j, IF kind[j] \in Updating THEN "archive" ELSE "restart")
    /\ server' \in {"off", server} /\ Overlook(IF kind[j] \in Updating THEN blind \cup {j} ELSE blind)
    /\ UNCHANGED <<kind, row, lifecycle, op, was, wanted, aim, steamVars>>

\* The archive is written and verified, the protected files are hashed.
Archive(j) ==
    /\ At(j, "archive") /\ Goto(j, "ensure")
    /\ UNCHANGED <<own, aim, steamVars, server>>

\* Ensure looks at the executable and only takes the gate to replace it.
Ensure(j) ==
    /\ At(j, "ensure") /\ Goto(j, "acquire")
    /\ tool \/ gate = Nobody
    /\ tool' = TRUE
    /\ UNCHANGED <<own, aim, gate, build, public, server>>

\* Mutated form: the executable found by Ensure is trusted once the gate opens.
Acquire_trusting(j) ==
    /\ At(j, "acquire") /\ gate = Nobody /\ gate' = j /\ Goto(j, "command")
    /\ UNCHANGED <<own, aim, tool, build, public, server>>
\* Under the gate the executable is looked at again.
Acquire(j) ==
    /\ At(j, "acquire") /\ gate = Nobody /\ tool
    /\ gate' = j /\ Goto(j, "command")
    /\ UNCHANGED <<own, aim, tool, build, public, server>>

Leave(j) == At(j, "command") /\ gate' = Nobody /\ UNCHANGED <<public, server>>

\* app_update has reported success, which does not say that it brought the public build; the
\* new files are validated and an update asks for the public build next.
GameEnds(j) ==
    /\ aim[j] = "game" /\ Leave(j)
    /\ build' \in {public, build} /\ build' # Torn
    /\ IF kind[j] = "install" THEN Goto(j, "record") /\ UNCHANGED aim
       ELSE Goto(j, "ensure") /\ aim' = [aim EXCEPT ![j] = "verify"]
    /\ blind' = blind \ {j}
    /\ UNCHANGED <<kind, row, lifecycle, op, was, wanted, tool>>

\* A smart update begins when the builds differ.
LookEnds(j) ==
    /\ aim[j] = "look" /\ Leave(j)
    /\ IF kind[j] = "smart" /\ build # public
       THEN Goto(j, "probe") /\ aim' = [aim EXCEPT ![j] = "game"] /\ UNCHANGED own
       ELSE End(j, "completed")
    /\ UNCHANGED <<tool, build>>

\* The protected files were compared before, now the installed build with the public one.
VerifyEnds(j) ==
    /\ aim[j] = "verify" /\ Leave(j)
    /\ IF build = public THEN Goto(j, "record") /\ UNCHANGED <<own, aim>>
       ELSE End(j, "failed")
    /\ UNCHANGED <<tool, build>>

\* Mutated form: the token is kept when the command fails.
CommandFails_holding(j) ==
    /\ At(j, "command") /\ End(j, "failed")
    /\ UNCHANGED <<gate, tool, build, public, server>>
\* SteamCMD updates itself and the game in place: it may leave either of them broken.
CommandFails(j) ==
    /\ Leave(j) /\ End(j, "failed")
    /\ tool' \in {tool, FALSE}
    /\ build' \in IF aim[j] = "game" THEN {build, Torn} ELSE {build}

Record(j) ==
    /\ At(j, "record")
    /\ IF j \in was THEN Goto(j, "restart") /\ UNCHANGED <<own, aim>>
       ELSE End(j, "completed")
    /\ UNCHANGED <<steamVars, server>>

StartServer(j) ==
    /\ At(j, "restart") /\ server' = "on" /\ End(j, "completed")
    /\ UNCHANGED steamVars

-----------------------------------------------------------------------------
(* The requests, the server, Steam and the panel process. *)

Request(to) ==
    /\ op = Nobody /\ server' \in to /\ Overlook(blind)
    /\ UNCHANGED <<kind, row, lifecycle, op, was, wanted, pc, aim, steamVars>>

\* Some runtimes refuse to start a second server, others replace the identity of the first.  A
\* stop may leave a server, as above, and a restart may end after its stop.
StartRequest == Request({"on"})
StopRequest == Request({"off", server})
RestartRequest == Request({"on", "off"})

\* The game server ends by itself.
ServerEnds ==
    /\ server = "on" /\ server' = "off" /\ Overlook({})
    /\ UNCHANGED <<kind, row, lifecycle, op, was, wanted, pc, aim, steamVars>>

Publish ==
    /\ public < MaxBuild /\ public' = public + 1
    /\ UNCHANGED <<jobVars, gate, tool, build, server>>

\* The panel dies with its commands and comes back: Reconcile fails what was incomplete.
Crash ==
    /\ \E j \in Jobs : Incomplete(j)
    /\ pc' = [j \in Jobs |-> IF Incomplete(j) THEN "done" ELSE pc[j]]
    /\ row' = [j \in Jobs |-> IF Incomplete(j) THEN "failed" ELSE row[j]]
    /\ lifecycle' = Nobody /\ op' = Nobody /\ gate' = Nobody
    /\ aim' = [j \in Jobs |-> "look"] /\ was' = {} /\ blind' = {} /\ wanted' = 1
    /\ tool' \in IF gate = Nobody THEN {tool} ELSE {tool, FALSE}
    /\ build' \in IF \E j \in Jobs : At(j, "command") /\ aim[j] = "game" THEN {build, Torn} ELSE {build}
    /\ UNCHANGED <<kind, public, server>>

Work(j) ==
    \/ Begin(j) \/ LockOp(j) \/ Probe(j) \/ StopServer(j) \/ Archive(j) \/ Ensure(j) \/ Acquire(j)
    \/ GameEnds(j) \/ LookEnds(j) \/ VerifyEnds(j) \/ Record(j) \/ StartServer(j)
Fails(j) == GiveUp(j) \/ CommandFails(j)
Others == StartRequest \/ StopRequest \/ RestartRequest \/ ServerEnds \/ Publish \/ Crash

Next ==
    \/ \E j \in Jobs : (\E k \in Kinds : Submit(j, k)) \/ Work(j) \/ Fails(j)
    \/ Others

Spec == Init /\ [][Next]_vars

-----------------------------------------------------------------------------
(* Properties. *)

\* While the SteamCMD command of an update rewrites the game's files no server runs from them,
\* unless its own probe or stop was blind: the requests cannot start one in between
\* (manager.go:306, 491).
UpdateStill ==
    \A j \in Jobs :
        At(j, "command") /\ aim[j] = "game" /\ kind[j] \in Updating /\ server = "on" => j \in blind

\* A SteamCMD command runs under the gate, on a directory nobody breaks or replaces meanwhile
\* (client.go:364: validateInstalled is asked again once the token is held).
CommandOnWholeTool == \A j \in Jobs : At(j, "command") => gate = j /\ tool

\* An update is only reported completed over files at least as new as the public branch when
\* it began, and with the server it stopped started again (manager.go:394, 414).
UpdateTruth ==
    [][\A j \in Jobs :
        row[j] = "open" /\ row'[j] = "completed" /\ kind[j] \in Updating
            => build' >= wanted /\ (j \in was => server' = "on")]_vars

-----------------------------------------------------------------------------
(* What the mutexes guarantee, for the proofs. *)

Working == Step \ {"none", "queued", "done"}
Preparing == {"ensure", "acquire", "command"}

\* Everything but a version check holds the lifecycle mutex; the manager's own jobs operationMu too.
Holding ==
    \A j \in Jobs :
        /\ pc[j] \in Working /\ kind[j] # "check" => lifecycle = j
        /\ pc[j] \in Working \ {"lock"} /\ kind[j] \notin {"check", "loaders"} => op = j

\* Which steps each kind of job has.
Placed ==
    \A j \in Jobs :
        /\ kind[j] = "check" => pc[j] \in {"none", "queued", "done"} \cup Preparing
        /\ kind[j] = "loaders" => pc[j] \in {"none", "queued", "probe", "stage", "done"}
        /\ kind[j] = "restart" => pc[j] \in {"none", "queued", "lock", "stop", "restart", "done"}
        /\ At(j, "stage") => kind[j] = "loaders"
        /\ pc[j] \in {"archive", "probe"} => kind[j] \in Updating \cup {"loaders"}
        /\ aim[j] # "look" => kind[j] \in Updating \cup {"install"}
        /\ aim[j] = "verify" \/ j \in was => kind[j] \in Updating
        /\ j \in was => aim[j] # "look"
        /\ pc[j] \in {"none", "queued", "lock"} => aim[j] = "look"
        /\ At(j, "probe") /\ kind[j] \in Updating => aim[j] = "game"
        /\ kind[j] = "update" /\ pc[j] \in {"stop", "archive"} \cup Preparing => aim[j] # "look"

\* From its probe to the end of its command an update that was not blind has no server running.
Still ==
    \A j \in Jobs :
        /\ kind[j] \in Updating /\ server = "on"
        /\ At(j, "archive") \/ (aim[j] = "game" /\ pc[j] \in Preparing)
        => j \in blind

Fresh ==
    /\ wanted <= public
    /\ \A j \in Jobs : kind[j] \in Updating /\ pc[j] \in {"record", "restart"} => build >= wanted

MaintenanceInv == TypeOK /\ Holding /\ Placed /\ Still /\ Fresh /\ CommandOnWholeTool

=============================================================================
