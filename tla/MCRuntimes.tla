----------------------------- MODULE MCRuntimes -----------------------------
(***************************************************************************)
(* Everything that is started and has to end, for TLC: the server as a     *)
(* process of the host, the server as a container, and the panel under its *)
(* launcher.  They share nothing: turn says which of them a behaviour is   *)
(* about, the others stay where they begin, in one of their initial states.*)
(***************************************************************************)
EXTENDS ServerProcess, DockerRunner, Launcher

AllModes == {"linux", "wine", "windows"}

VARIABLE turn

runtimesVars == <<turn, vars, runnerVars, launcherVars>>

RuntimesInit ==
    /\ turn \in {"process", "container", "launcher"}
    /\ Init /\ RunnerInit /\ LauncherInit
    /\ turn # "process" => mode = "linux"
    /\ turn # "container" => image

RuntimesNext ==
    \/ turn = "process" /\ Next /\ UNCHANGED <<turn, runnerVars, launcherVars>>
    \/ turn = "container" /\ RunnerNext /\ UNCHANGED <<turn, vars, launcherVars>>
    \/ turn = "launcher" /\ LauncherNext /\ UNCHANGED <<turn, vars, runnerVars>>

\* The fairness of each, for the behaviours that are about it.
RuntimesSpec ==
    /\ RuntimesInit /\ [][RuntimesNext]_runtimesVars
    /\ WF_vars(turn = "process" /\ OpSteps)
    /\ WF_vars(turn = "process" /\ Deadline)
    /\ WF_vars(turn = "process" /\ WaiterSteps)
    /\ \A s \in Servers : WF_vars(turn = "process" /\ Exit(s) /\ proc[s] = "dying")
    /\ \A l \in Launchers : WF_launcherVars(turn = "launcher" /\ LauncherStep(l))
=============================================================================
