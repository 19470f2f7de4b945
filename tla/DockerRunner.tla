----------------------------- MODULE DockerRunner -----------------------------
(***************************************************************************)
(* The game server as a container (internal/docker/runner.go): the panel   *)
(* asks the Docker engine with one command after another, and the engine   *)
(* may stop and come back between any two of them.  The calls run under    *)
(* operationMu, one at a time.                                             *)
(*                                                                         *)
(* Bases is the length of the list of base images BuildImage goes through. *)
(***************************************************************************)
EXTENDS Naturals

CONSTANT Bases

VARIABLES
    engine,     \* whether the engine answers
    box,        \* the container: none, created, running, restarting, exited
    halted,     \* the engine remembers that the container was stopped on request
    image,      \* the image of the runner is built
    verb,       \* the call under way: its kind, its next command and the base image it tries
    wanted      \* history: "stopped" since a stop has reported success

runnerVars == <<engine, box, halted, image, verb, wanted>>

Verb(kind, at) == [kind |-> kind, at |-> at, base |-> 1]
NoCall == Verb("none", "none")

RunnerInit ==
    /\ engine = TRUE /\ box = "none" /\ halted = FALSE
    /\ image \in BOOLEAN
    /\ verb = NoCall
    /\ wanted = "any"

Call ==
    /\ verb = NoCall
    /\ verb' \in {Verb("start", "status"), Verb("stop", "status"), Verb("restart", "status"), Verb("build", "build")}
    /\ wanted' = IF verb'.kind \in {"start", "restart"} THEN "any" ELSE wanted
    /\ UNCHANGED <<engine, box, halted, image>>

\* A command that fails ends the call.  It is always possible: the request may be cancelled.
CommandFails ==
    /\ verb # NoCall /\ verb.kind # "build"
    /\ verb' = NoCall
    /\ UNCHANGED <<engine, box, halted, image, wanted>>

At(command) == engine /\ verb.at = command

\* Status decides what is next; a restart without a container is a start, which asks again.
Status ==
    /\ At("status")
    /\ verb' =
          CASE verb.kind = "start" /\ box = "running" -> NoCall
            [] verb.kind = "start" /\ box = "none" -> Verb("start", "run")
            [] verb.kind = "stop" /\ box = "none" -> NoCall
            [] verb.kind = "stop" /\ box # "none" -> Verb("stop", "stop")
            [] verb.kind = "restart" /\ box = "none" -> Verb("start", "status")
            [] verb.kind = "restart" /\ box = "running" -> Verb("restart", "stop")
            [] OTHER -> Verb(verb.kind, "rm")
    /\ wanted' = IF verb.kind = "stop" /\ box = "none" THEN "stopped" ELSE wanted
    /\ UNCHANGED <<engine, box, halted, image>>

StopContainer ==
    /\ At("stop")
    /\ box' = IF box \in {"running", "restarting"} THEN "exited" ELSE box
    /\ halted' = TRUE
    /\ verb' = IF verb.kind = "stop" THEN NoCall ELSE Verb("restart", "rm")
    /\ wanted' = IF verb.kind = "stop" THEN "stopped" ELSE wanted
    /\ UNCHANGED <<engine, image>>

\* Without -f: a container that runs, or is about to run again, is not removed.
RemoveContainer ==
    /\ At("rm") /\ box \notin {"running", "restarting"}
    /\ box' = "none" /\ halted' = FALSE
    /\ verb' = Verb("start", IF verb.kind = "start" THEN "run" ELSE "status")
    /\ UNCHANGED <<engine, image, wanted>>

\* A container that cannot be started stays behind, created.
RunContainer ==
    /\ At("run") /\ box = "none" /\ image
    /\ box' \in {"running", "created"}
    /\ verb' = NoCall
    /\ UNCHANGED <<engine, halted, image, wanted>>

\* The first base image is given up only if it cannot be pulled, the others in any case.
BuildImage ==
    /\ verb.kind = "build"
    /\ \/ engine /\ image' = TRUE /\ verb' = NoCall
       \/ image' = image /\ verb' = IF verb.base < Bases THEN [verb EXCEPT !.base = @ + 1] ELSE NoCall
       \/ image' = image /\ verb.base = 1 /\ verb' = NoCall
    /\ UNCHANGED <<engine, box, halted, wanted>>

-----------------------------------------------------------------------------
(* The engine, with the restart policy that "docker run" asks for. *)

ComesBack_always(b, stopped) == b = "exited"
ComesBack(b, stopped) == b = "exited" /\ ~stopped

EngineStops ==
    /\ engine /\ engine' = FALSE
    /\ box' = IF box \in {"running", "restarting"} THEN "exited" ELSE box
    /\ UNCHANGED <<halted, image, verb, wanted>>

EngineStarts ==
    /\ ~engine /\ engine' = TRUE
    /\ box' = IF ComesBack(box, halted) THEN "running" ELSE box
    /\ halted' = (halted /\ box' # "running")
    /\ UNCHANGED <<image, verb, wanted>>

GameDies ==
    /\ box = "running" /\ box' = "restarting"
    /\ UNCHANGED <<engine, halted, image, verb, wanted>>

GameReturns ==
    /\ box = "restarting" /\ box' = "running"
    /\ UNCHANGED <<engine, halted, image, verb, wanted>>

RunnerNext ==
    \/ Call \/ CommandFails \/ Status \/ StopContainer \/ RemoveContainer \/ RunContainer \/ BuildImage
    \/ EngineStops \/ EngineStarts \/ GameDies \/ GameReturns

RunnerSpec == RunnerInit /\ [][RunnerNext]_runnerVars

\* A server the panel has stopped stays stopped until it is started again, through every restart
\* of the engine (the policy of the container) and however the engine and the calls interleave.
StoppedStaysStopped == wanted = "stopped" => box \notin {"running", "restarting"}
=============================================================================
