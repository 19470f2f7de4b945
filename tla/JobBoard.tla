------------------------------ MODULE JobBoard ------------------------------
(***************************************************************************)
(* What the job executor promises, without its mutex, channel, contexts    *)
(* and goroutines: a board of jobs, the set of those at work, and how an   *)
(* outcome may change.                                                     *)
(***************************************************************************)
EXTENDS Naturals, FiniteSets

CONSTANTS
    Jobs,
    MaxConcurrent,  \* general jobs at work at most
    MayLoseEnd      \* TRUE when the end of a job may go unrecorded

VARIABLES
    outcome,        \* "absent", "open", "ok" or "failed"
    class,
    active          \* jobs at work

vars == <<outcome, class, active>>

Init ==
    /\ outcome = [j \in Jobs |-> "absent"]
    /\ class = [j \in Jobs |-> "general"]
    /\ active = {}

ActiveOf(c) == {j \in active : class[j] = c}

Accept(j, c) ==
    /\ outcome[j] = "absent"
    /\ outcome' = [outcome EXCEPT ![j] = "open"]
    /\ class' = [class EXCEPT ![j] = c]
    /\ UNCHANGED active

\* A lifecycle job starts alone among its kind, a general one while there is room.
Start(j) ==
    /\ j \notin active
    /\ outcome[j] = "open"
    /\ IF class[j] = "lifecycle" THEN ActiveOf("lifecycle") = {}
                                 ELSE Cardinality(ActiveOf("general")) < MaxConcurrent
    /\ active' = active \cup {j}
    /\ UNCHANGED <<outcome, class>>

\* An open job, at work or not yet started, gets its outcome.
Settle(j, end) ==
    /\ outcome[j] = "open"
    /\ outcome' = [outcome EXCEPT ![j] = end]
    /\ UNCHANGED <<class, active>>

\* Only a job still at work can turn a success into a failure.
Spoil(j) ==
    /\ j \in active
    /\ outcome[j] = "ok"
    /\ outcome' = [outcome EXCEPT ![j] = "failed"]
    /\ UNCHANGED <<class, active>>

\* A job leaves work with an outcome on the board.
Leave(j) ==
    /\ j \in active
    /\ outcome[j] # "open" \/ MayLoseEnd
    /\ active' = active \ {j}
    /\ UNCHANGED <<outcome, class>>

\* The process stops: nothing is at work any more, what was open stays open.
Vanish == active' = {} /\ UNCHANGED <<outcome, class>>

\* The next process fails everything open before any job starts.
Recover ==
    /\ active = {}
    /\ outcome' = [j \in Jobs |-> IF outcome[j] = "open" THEN "failed" ELSE outcome[j]]
    /\ UNCHANGED <<class, active>>

Next ==
    \/ \E j \in Jobs :
          \/ \E c \in {"general", "lifecycle"} : Accept(j, c)
          \/ Start(j) \/ Spoil(j) \/ Leave(j)
          \/ \E end \in {"ok", "failed"} : Settle(j, end)
    \/ Vanish \/ Recover

Spec == Init /\ [][Next]_vars
=============================================================================
