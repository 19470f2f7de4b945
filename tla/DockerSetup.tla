----------------------------- MODULE DockerSetup -----------------------------
(***************************************************************************)
(* The installation of the Docker engine and the configuration of its      *)
(* registry mirrors (server/docker_install.go, docker_mirrors.go): a       *)
(* request makes a plan and writes the plan's script, the job it submits   *)
(* makes the plan again, writes its script twice and has it run.  All      *)
(* requests and jobs of a kind share one script file, and so does a plan   *)
(* that is only looked at, which is a request that goes no further.        *)
(***************************************************************************)
EXTENDS Naturals, FiniteSets
LOCAL INSTANCE FiniteSetsExt

CONSTANTS
    Setups,         \* the requests
    Sources,        \* the package sources the panel knows
    Official,       \* the one it takes if none answers
    Offered,        \* the registry mirrors it knows
    MaxMirrors,     \* how many mirrors a plan takes by itself
    Own             \* the mirrors the administrator has configured

NoScript == {}
SetupKinds == {"install", "mirrors"}

VARIABLES
    host,       \* what may be done on it: nothing, only by hand, all
    docker,     \* the engine: absent, down, up
    mirrors,    \* registry-mirrors of daemon.json
    script,     \* the script of each kind: what it takes in, NoScript while it is empty
    setup,      \* the requests: kind, place, what they asked for and chose, what their script does and has read
    met         \* history: requests whose script or whose merge met another one's

setupVars == <<host, docker, mirrors, script, setup, met>>

SetupInit ==
    /\ host \in {"none", "manual", "all"}
    /\ docker \in {"absent", "down", "up"}
    /\ mirrors = Own
    /\ script = [k \in SetupKinds |-> NoScript]
    /\ setup = [s \in Setups |-> [kind |-> "none", at |-> "new", asked |-> "auto", chosen |-> {}, runs |-> {}, read |-> {}]]
    /\ met = {}

-----------------------------------------------------------------------------
(* What a plan chooses, given what answers the probes. *)

SelectSource(asked, available) ==
    IF asked # "auto" THEN {{asked}}
    ELSE IF available # {} THEN {{s} : s \in available} ELSE {{Official}}

\* As many of the fastest as are taken; which ones are the fastest is left open.
SelectMirrors(asked, available) ==
    IF asked # "auto" THEN {available \cap {asked}}
    ELSE kSubset(IF Cardinality(available) < MaxMirrors THEN Cardinality(available) ELSE MaxMirrors, available)

Picks(kind, asked) ==
    IF kind = "install" THEN UNION {SelectSource(asked, a) : a \in SUBSET Sources}
    ELSE UNION {SelectMirrors(asked, a) : a \in SUBSET Offered}

\* A plan that a job may carry out.
Supported(kind, chosen) ==
    /\ host = "all"
    /\ kind = "mirrors" => docker # "absent" /\ chosen # {}

-----------------------------------------------------------------------------
(* The requests and their jobs. *)

Scripting == {"asking", "planning", "writing"}
Using == {"writing", "written"}

\* A script may be lost to whoever writes the same file, a merge to whoever merges meanwhile.
Meets(s) ==
    \E o \in Setups \ {s} :
        \/ setup'[s].at \in Using /\ setup'[o].at \in Scripting /\ setup'[o].kind = setup'[s].kind
        \/ setup'[s].at = "merge" /\ setup'[o].at = "merge"

Note == met' = met \cup {s \in Setups : Meets(s)}

Move(s, at) == setup' = [setup EXCEPT ![s].at = at]
Empty(kind) == script' = [script EXCEPT ![kind] = NoScript]

\* The first plan of a request.  A file that cannot be written is a warning here.
Ask(s) ==
    /\ setup[s].at = "new"
    /\ \E k \in SetupKinds : \E a \in {"auto"} \cup (IF k = "install" THEN Sources ELSE Offered) : \E c \in Picks(k, a) :
          \/ /\ c # {}
             /\ setup' = [setup EXCEPT ![s] = [@ EXCEPT !.kind = k, !.at = "asking", !.asked = a, !.chosen = c]]
             /\ Empty(k)
          \/ /\ setup' = [setup EXCEPT ![s] = [@ EXCEPT !.kind = k, !.at = "asked", !.asked = a, !.chosen = c]]
             /\ UNCHANGED script
    /\ UNCHANGED <<host, docker, mirrors>>

\* os.WriteFile empties the file and then fills it; the next place is reached with a whole script.
Fill(s) ==
    /\ setup[s].at \in Scripting
    /\ script' = [script EXCEPT ![setup[s].kind] = setup[s].chosen]
    /\ Move(s, CASE setup[s].at = "asking" -> "asked" [] setup[s].at = "planning" -> "planned" [] OTHER -> "written")
    /\ UNCHANGED <<host, docker, mirrors>>

\* The request submits its job, unless the plan says that it is of no use, or only the plan was wanted.
SubmitSetup(s) ==
    /\ setup[s].at = "asked"
    /\ \/ /\ Supported(setup[s].kind, setup[s].chosen)
          /\ setup[s].kind = "install" => docker # "up"
          /\ Move(s, "queued")
       \/ Move(s, "failed")
    /\ UNCHANGED <<host, docker, mirrors, script>>

\* The job makes the plan once more, with new probes.
Replan(s) ==
    /\ setup[s].at = "queued"
    /\ \E c \in Picks(setup[s].kind, setup[s].asked) :
          \/ /\ c # {}
             /\ setup' = [setup EXCEPT ![s].at = "planning", ![s].chosen = c]
             /\ Empty(setup[s].kind)
          \/ /\ setup' = [setup EXCEPT ![s].at = "planned", ![s].chosen = c]
             /\ UNCHANGED script
    /\ UNCHANGED <<host, docker, mirrors>>

\* And writes its script again: here an error ends the job.
WriteScript(s) ==
    /\ setup[s].at = "planned"
    /\ \/ /\ Supported(setup[s].kind, setup[s].chosen)
          /\ Move(s, "writing") /\ Empty(setup[s].kind)
       \/ Move(s, "failed") /\ UNCHANGED script
    /\ UNCHANGED <<host, docker, mirrors>>

\* bash takes what the file holds now; an empty one does nothing and succeeds.
RunScript(s) ==
    LET found == script[setup[s].kind] IN
    /\ setup[s].at = "written"
    /\ setup' = [setup EXCEPT ![s].runs = found,
                              ![s].at = IF found = NoScript THEN "verify"
                                        ELSE IF setup[s].kind = "install" THEN "packages" ELSE "load"]
    /\ UNCHANGED <<host, docker, mirrors, script>>

ScriptFails(s) ==
    /\ setup[s].at \in {"packages", "load", "merge", "restart"}
    /\ Move(s, "failed")
    /\ docker' \in {docker} \cup (IF setup[s].at = "restart" THEN {"down"}
                               ELSE IF setup[s].at = "packages" /\ docker # "up" THEN {"down", "up"} ELSE {})
    /\ UNCHANGED <<host, mirrors, script>>

\* An engine that is there is only started; the script ends by asking it for its version.  Starting
\* it once more afterwards adds nothing, and an error of that is dropped.
InstallPackages(s) ==
    /\ setup[s].at = "packages"
    /\ docker' = "up"
    /\ Move(s, "verify")
    /\ UNCHANGED <<host, mirrors, script>>

LoadMirrors(s) ==
    /\ setup[s].at = "load"
    /\ setup' = [setup EXCEPT ![s].at = "merge", ![s].read = mirrors]
    /\ UNCHANGED <<host, docker, mirrors, script>>

\* The file that comes in the place of daemon.json: what was chosen and what was there.
MergeMirrors_chosen(s) ==
    /\ setup[s].at = "merge"
    /\ mirrors' = setup[s].runs
    /\ Move(s, "restart")
    /\ UNCHANGED <<host, docker, script>>

MergeMirrors(s) ==
    /\ setup[s].at = "merge"
    /\ mirrors' = setup[s].runs \cup setup[s].read
    /\ Move(s, "restart")
    /\ UNCHANGED <<host, docker, script>>

RestartDocker(s) ==
    /\ setup[s].at = "restart"
    /\ docker' = "up"
    /\ Move(s, "verify")
    /\ UNCHANGED <<host, mirrors, script>>

Verify(s) ==
    /\ setup[s].at = "verify"
    /\ Move(s, IF docker = "up" THEN "completed" ELSE "failed")
    /\ UNCHANGED <<host, docker, mirrors, script>>

SetupStep(s) ==
    \/ Ask(s) \/ Fill(s) \/ SubmitSetup(s) \/ Replan(s) \/ WriteScript(s) \/ RunScript(s) \/ ScriptFails(s)
    \/ InstallPackages(s) \/ LoadMirrors(s) \/ MergeMirrors(s) \/ RestartDocker(s) \/ Verify(s)

SetupNext == \E s \in Setups : SetupStep(s) /\ Note

SetupSpec == SetupInit /\ [][SetupNext]_setupVars

\* A job that completed has carried out its own last plan, and the mirrors it took in stay in the
\* engine's file whatever other jobs do later, unless its script or its merge met another one.
\* The administrator's own mirrors stay in any case.
SetupHolds ==
    /\ Own \subseteq mirrors
    /\ \A s \in Setups \ met : setup[s].at = "completed" =>
          /\ setup[s].runs = setup[s].chosen
          /\ setup[s].kind = "mirrors" => setup[s].chosen \subseteq mirrors
=============================================================================
