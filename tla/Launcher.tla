------------------------------- MODULE Launcher -------------------------------
(***************************************************************************)
(* The launcher of the portable panel on Windows (cmd/palpanel-launcher):  *)
(* it starts the indexer, the breeding bridge and the panel one after the  *)
(* other, waits for each to be healthy, shows a box, and ends when the box *)
(* is closed or a child it needs has ended.  A mutex keeps a second        *)
(* launcher of the same directory out, a job object takes the children     *)
(* along; Windows closes the handles of whoever dies.                      *)
(***************************************************************************)
EXTENDS Naturals

CONSTANT Launchers      \* launchers started from one directory

Children == {"sav", "palcalc", "server"}
Needed == {"sav", "server"}

VARIABLES
    run,        \* the launchers: place, child being started
    owns,       \* the launcher that has the mutex, if any
    child,      \* their children: none, loose (not yet in the job), kept, ended
    window      \* the box: none, asked for, shown, closed

launcherVars == <<run, owns, child, window>>

Vacant == "vacant"

ASSUME LaunchersAssumption == Vacant \notin Launchers

LauncherInit ==
    /\ run = [l \in Launchers |-> [at |-> "new", starts |-> "sav"]]
    /\ owns = Vacant
    /\ child = [l \in Launchers |-> [c \in Children |-> "none"]]
    /\ window = [l \in Launchers |-> "none"]

Place(l, at) == run' = [run EXCEPT ![l].at = at]
Alive(l, c) == child[l][c] \in {"loose", "kept"}
Following(c) == CASE c = "sav" -> "palcalc" [] c = "palcalc" -> "server" [] OTHER -> "none"

\* Whoever cannot have the mutex, or cannot even ask for it, ends.
Acquire(l) ==
    /\ run[l].at = "new"
    /\ \/ owns = Vacant /\ owns' = l /\ Place(l, "prepare")
       \/ Place(l, "ended") /\ UNCHANGED owns
    /\ UNCHANGED <<child, window>>

\* The executables, the first configuration, the job object, the logs: any of it may fail.
SetUp(l) ==
    /\ run[l].at = "prepare"
    /\ Place(l, "start") \/ Place(l, "unlock")
    /\ UNCHANGED <<owns, child, window>>

\* A bridge that is missing or cannot be started is done without; the others are needed.
Starts(l) ==
    LET c == run[l].starts IN
    /\ run[l].at = "start"
    /\ \/ child' = [child EXCEPT ![l][c] = "loose"] /\ Place(l, "assign")
       \/ c \in Needed /\ Place(l, "close") /\ UNCHANGED child
       \/ c \notin Needed /\ run' = [run EXCEPT ![l] = [at |-> "start", starts |-> Following(c)]] /\ UNCHANGED child
    /\ UNCHANGED <<owns, window>>

\* A child that cannot be put into the job is killed.
Assign(l) ==
    LET c == run[l].starts IN
    /\ run[l].at = "assign"
    /\ \/ /\ child' = [child EXCEPT ![l][c] = IF Alive(l, c) THEN "kept" ELSE "ended"]
          /\ Place(l, "health")
       \/ /\ child' = [child EXCEPT ![l][c] = "ended"]
          /\ run' = [run EXCEPT ![l] = IF c \in Needed THEN [at |-> "close", starts |-> c] ELSE [at |-> "start", starts |-> Following(c)]]
    /\ UNCHANGED <<owns, window>>

\* Healthy before the time is over, and not ended then.  The bridge is stopped if it is not.
WaitForHealth(l) ==
    LET c == run[l].starts IN
    /\ run[l].at = "health"
    /\ \/ /\ Alive(l, c)
          /\ run' = [run EXCEPT ![l] = IF c = "server" THEN [at |-> "ready", starts |-> c] ELSE [at |-> "start", starts |-> Following(c)]]
          /\ UNCHANGED child
       \/ c \in Needed /\ Place(l, "close") /\ UNCHANGED child
       \/ /\ c \notin Needed
          /\ child' = [child EXCEPT ![l][c] = "ended"]
          /\ run' = [run EXCEPT ![l] = [at |-> "start", starts |-> Following(c)]]
    /\ UNCHANGED <<owns, window>>

\* With a box, without one, or only to see whether everything starts.
Ready(l) ==
    /\ run[l].at = "ready"
    /\ \/ Place(l, "watch") /\ window' = [window EXCEPT ![l] = "asked"]
       \/ Place(l, "watch") /\ UNCHANGED window
       \/ Place(l, "close") /\ UNCHANGED window
    /\ UNCHANGED <<owns, child>>

\* A box that cannot be shown counts as closed.
ShowBox(l) ==
    /\ window[l] = "asked" /\ run[l].at \notin {"dead", "ended"}
    /\ \E shows \in {"shown", "closed"} : window' = [window EXCEPT ![l] = shows]
    /\ UNCHANGED <<run, owns, child>>

CloseBox(l) ==
    /\ window[l] = "shown" /\ run[l].at \notin {"dead", "ended"}
    /\ window' = [window EXCEPT ![l] = "closed"]
    /\ UNCHANGED <<run, owns, child>>

WatchEnds(l) ==
    /\ run[l].at = "watch"
    /\ \/ window[l] = "closed" /\ Place(l, "close")
       \/ (\E c \in Needed : child[l][c] = "ended") /\ Place(l, IF window[l] = "none" THEN "close" ELSE "dismiss")
    /\ UNCHANGED <<owns, child, window>>

\* The box may not be there yet: the message is posted again until the box is closed.
Dismiss_once(l) ==
    /\ run[l].at = "dismiss"
    /\ window' = [window EXCEPT ![l] = IF @ = "shown" THEN "closed" ELSE @]
    /\ Place(l, "dismissed")
    /\ UNCHANGED <<owns, child>>

Dismiss(l) ==
    /\ run[l].at = "dismiss"
    /\ \/ window[l] = "shown" /\ window' = [window EXCEPT ![l] = "closed"] /\ UNCHANGED run
       \/ window[l] = "closed" /\ Place(l, "dismissed") /\ UNCHANGED window
    /\ UNCHANGED <<owns, child>>

AwaitBox(l) ==
    /\ run[l].at = "dismissed" /\ window[l] = "closed"
    /\ Place(l, "close")
    /\ UNCHANGED <<owns, child, window>>

Taken(l) == [child EXCEPT ![l] = [c \in Children |-> IF @[c] = "kept" THEN "ended" ELSE @[c]]]

\* The handles are closed in the opposite order of their creation.
CloseJob_last(l) ==
    /\ run[l].at = "close"
    /\ owns' = Vacant
    /\ Place(l, "unlock")
    /\ UNCHANGED <<child, window>>

CloseJob(l) ==
    /\ run[l].at = "close"
    /\ child' = Taken(l)
    /\ Place(l, "unlock")
    /\ UNCHANGED <<owns, window>>

Unlock(l) ==
    /\ run[l].at = "unlock"
    /\ owns' = Vacant
    /\ Place(l, "ended")
    /\ UNCHANGED <<child, window>>

\* A launcher that is killed leaves its handles to the system, which closes them in any order.
LauncherDies(l) ==
    /\ run[l].at \notin {"new", "dead", "ended"}
    /\ Place(l, "dead")
    /\ UNCHANGED <<owns, child, window>>

DropJob(l) ==
    /\ run[l].at = "dead"
    /\ child' = Taken(l)
    /\ UNCHANGED <<run, owns, window>>

DropMutex(l) ==
    /\ run[l].at = "dead" /\ owns = l
    /\ owns' = Vacant
    /\ UNCHANGED <<run, child, window>>

Buried(l) ==
    /\ run[l].at = "dead" /\ owns # l /\ \A c \in Children : child[l][c] # "kept"
    /\ Place(l, "ended")
    /\ UNCHANGED <<owns, child, window>>

ChildEnds(l, c) ==
    /\ Alive(l, c)
    /\ child' = [child EXCEPT ![l][c] = "ended"]
    /\ UNCHANGED <<run, owns, window>>

LauncherStep(l) ==
    \/ Acquire(l) \/ SetUp(l) \/ Starts(l) \/ Assign(l) \/ WaitForHealth(l) \/ Ready(l)
    \/ ShowBox(l) \/ WatchEnds(l) \/ Dismiss(l) \/ AwaitBox(l) \/ CloseJob(l) \/ Unlock(l)
    \/ DropJob(l) \/ DropMutex(l) \/ Buried(l)

LauncherNext ==
    \E l \in Launchers :
        \/ LauncherStep(l) \/ CloseBox(l) \/ LauncherDies(l)
        \/ \E c \in Children : ChildEnds(l, c)

LauncherSpec == LauncherInit /\ [][LauncherNext]_launcherVars

\* Two launchers of a directory never have children in their jobs at the same time, so that no two
\* panels work on its data: whoever lets the mutex go has let its children go before.  The system,
\* which closes the handles of a launcher that was killed, owes nobody that order.
OneSetOfChildren ==
    \A l, m \in Launchers :
        l # m /\ run[l].at # "dead" /\ run[m].at # "dead"
            => ~\E c, d \in Children : child[l][c] = "kept" /\ child[m][d] = "kept"

\* When the indexer or the panel ends under a launcher that watches, the launcher ends, whether its
\* box has been shown by then or not, and takes the other children along.
EndsWithItsChild ==
    \A l \in Launchers :
        (run[l].at = "watch" /\ \E c \in Needed : child[l][c] = "ended")
            ~> (run[l].at = "ended" /\ \A c \in Children : child[l][c] # "kept")
=============================================================================
