---------------------------- MODULE BreedingJobs ----------------------------
(***************************************************************************)
(* Paid breeding calculations: a request of a member reserves points in    *)
(* the plugin (CreditStore), the panel submits a job                       *)
(* (internal/breeding/service.go, internal/api/astrbot_integration.go),    *)
(* the PalCalc bridge solves it (palcalc-bridge/Program.cs), and a         *)
(* goroutine of the panel polls the bridge, stores the result and settles  *)
(* the reservation.                                                        *)
(*                                                                         *)
(* One member of Charges is one request: its reservation, its row in jobs, *)
(* its row in breeding_results and its job in the bridge.  Every call      *)
(* between the three processes may fail, also after the callee has acted.  *)
(* A status is active (queued, waiting or running), paused, canceling,     *)
(* completed or failed; cancelled jobs count as failed.                    *)
(***************************************************************************)
EXTENDS CreditStore

CONSTANTS Owner     \* the member who makes a request

ASSUME OwnerAssumption == Owner \in [Charges -> Users]

VARIABLES
    pc,         \* how far the panel is with a request
    row,        \* jobs.status
    result,     \* breeding_results.status
    unsaved,    \* requests for which a write to the database of the panel failed
    bridge,     \* Status of the bridge's job, "none" if it does not know it
    solver      \* RunJob: waiting for the gate, solving, or none: not begun or over

panelVars == <<pc, row, result, unsaved>>
bridgeVars == <<bridge, solver>>
vars == <<creditVars, panelVars, bridgeVars>>

Handling == {"sweep", "take", "submit"}                \* the HTTP handler
Running == {"post", "poll", "fetch", "store", "fail"}  \* Service.run
Settling == {"commit", "commitCached", "release"}
Busy == Handling \cup Running \cup Settling
Open == {"active", "paused"}

TypeOK ==
    /\ CreditTypeOK
    /\ pc \in [Charges -> Busy \cup {"new", "end", "killed"}]
    /\ row \in [Charges -> Open \cup {"none", "completed", "failed"}]
    /\ result \in [Charges -> {"none", "active", "completed", "failed"}]
    /\ unsaved \subseteq Charges
    /\ bridge \in [Charges -> Open \cup {"none", "canceling", "completed", "failed"}]
    /\ solver \in [Charges -> {"none", "waiting", "solving"}]

Init ==
    /\ CreditInit
    /\ pc = [r \in Charges |-> "new"]
    /\ row = [r \in Charges |-> "none"]
    /\ result = [r \in Charges |-> "none"]
    /\ unsaved = {}
    /\ bridge = [r \in Charges |-> "none"]
    /\ solver = [r \in Charges |-> "none"]

Goto(r, next) == pc' = [pc EXCEPT ![r] = next]

\* Writes both rows, either of which may fail unnoticed.
Write(r, job, res) ==
    \/ row' = [row EXCEPT ![r] = job] /\ result' = [result EXCEPT ![r] = res] /\ UNCHANGED unsaved
    \/ row' = [row EXCEPT ![r] = job] /\ unsaved' = unsaved \cup {r} /\ UNCHANGED result
    \/ unsaved' = unsaved \cup {r} /\ UNCHANGED <<row, result>>

-----------------------------------------------------------------------------
(* breedSubmitJob and astrBotQuickSolve. *)

Request(r) ==
    /\ pc[r] = "new" /\ Goto(r, "sweep")
    /\ UNCHANGED <<creditVars, row, result, unsaved, bridgeVars>>

\* The plugin's reserve: the first of its two transactions.
Sweep(r) ==
    /\ pc[r] = "sweep" /\ Goto(r, "take")
    /\ ReleaseExpired
    /\ UNCHANGED <<row, result, unsaved, bridgeVars>>

\* The answer to a granted reservation may be lost: the member is told that the points do
\* not suffice, and nobody will settle the reservation.
Granted(r) ==
    /\ pc[r] = "take"
    /\ Take(Owner[r], r)
    /\ Goto(r, "submit") \/ Goto(r, "end")
    /\ UNCHANGED <<row, result, unsaved, bridgeVars>>

Refused(r) ==
    /\ pc[r] = "take" /\ Goto(r, "end")
    /\ balance[Owner[r]] < Cost
    /\ UNCHANGED <<creditVars, row, result, unsaved, bridgeVars>>

\* The call never reached the plugin, or the plugin failed before its second transaction.
Unreachable(r) ==
    /\ pc[r] \in {"sweep", "take"} /\ Goto(r, "end")
    /\ UNCHANGED <<creditVars, row, result, unsaved, bridgeVars>>

-----------------------------------------------------------------------------
(* Service.Submit.  A crash between its writes leaves rows nobody works on, like one
   right after them, so the writes of one path are one action. *)

\* The save index is not ready, a container is unavailable, no pal matches, or the row of
\* the job cannot be created.
SubmitRejected(r) ==
    /\ pc[r] = "submit" /\ Goto(r, "release")
    /\ UNCHANGED <<creditVars, row, result, unsaved, bridgeVars>>

\* An earlier result of the same save and settings, whoever asked for it.
SubmitCached(r) ==
    /\ pc[r] = "submit"
    /\ \E other \in Charges : result[other] = "completed"
    /\ \/ \* the row of the result cannot be created: the job stays queued
          /\ row' = [row EXCEPT ![r] = "active"] /\ unsaved' = unsaved \cup {r}
          /\ Goto(r, "release") /\ UNCHANGED result
       \/ \E saved \in BOOLEAN :
             /\ row' = [row EXCEPT ![r] = IF saved THEN "completed" ELSE "active"]
             /\ unsaved' = IF saved THEN unsaved ELSE unsaved \cup {r}
             /\ result' = [result EXCEPT ![r] = "completed"]
             /\ Goto(r, "commitCached")
    /\ UNCHANGED <<creditVars, bridgeVars>>

SubmitQueued(r) ==
    /\ pc[r] = "submit"
    /\ \/ /\ Goto(r, "post")
          /\ row' = [row EXCEPT ![r] = "active"] /\ result' = [result EXCEPT ![r] = "active"]
          /\ UNCHANGED unsaved
       \/ \* the row of the result cannot be created
          /\ Goto(r, "release")
          /\ \/ row' = [row EXCEPT ![r] = "failed"] /\ UNCHANGED unsaved
             \/ row' = [row EXCEPT ![r] = "active"] /\ unsaved' = unsaved \cup {r}
          /\ UNCHANGED result
    /\ UNCHANGED <<creditVars, bridgeVars>>

-----------------------------------------------------------------------------
(* Service.run. *)

Accept(r) ==
    /\ bridge' = [bridge EXCEPT ![r] = "active"]
    /\ solver' = [solver EXCEPT ![r] = "waiting"]

Post(r) ==
    /\ pc[r] = "post" /\ Goto(r, "poll")
    /\ Accept(r)
    /\ UNCHANGED <<creditVars, row, result, unsaved>>

\* The bridge refuses, is away, or its answer is lost.
PostFails(r) ==
    /\ pc[r] = "post" /\ Goto(r, "fail")
    /\ \/ UNCHANGED bridgeVars
       \/ Accept(r)
    /\ UNCHANGED <<creditVars, row, result, unsaved>>

Normalized(s) == IF s = "canceling" THEN "active" ELSE s

\* One tick: the state of the bridge goes into the job row before anything is concluded.
Poll(r) ==
    LET s == bridge[r] IN
    /\ pc[r] = "poll" /\ s # "none"
    /\ Write(r, Normalized(s), IF s = "failed" THEN s ELSE result[r])
    /\ \/ s = "completed" /\ Goto(r, "fetch")
       \/ s = "failed" /\ Goto(r, "release")
       \/ s \notin {"completed", "failed"} /\ UNCHANGED pc
    /\ UNCHANGED <<creditVars, bridgeVars>>

\* The context of the run has ended.
Timeout(r) ==
    /\ pc[r] = "poll" /\ Goto(r, "fail")
    /\ UNCHANGED <<creditVars, row, result, unsaved, bridgeVars>>

Fetch(r) ==
    /\ pc[r] = "fetch" /\ bridge[r] = "completed" /\ Goto(r, "store")
    /\ UNCHANGED <<creditVars, row, result, unsaved, bridgeVars>>

\* The context ended, the bridge is away, or it no longer calls the job completed.
FetchFails_ignored(r) ==
    /\ pc[r] = "fetch" /\ Goto(r, "commit")
    /\ UNCHANGED <<creditVars, row, result, unsaved, bridgeVars>>
FetchFails(r) ==
    /\ pc[r] = "fetch" /\ Goto(r, "fail")
    /\ UNCHANGED <<creditVars, row, result, unsaved, bridgeVars>>

StoreResult(r) ==
    /\ pc[r] = "store" /\ Goto(r, "commit")
    /\ Write(r, "completed", "completed")
    /\ UNCHANGED <<creditVars, bridgeVars>>

Fail(r) ==
    /\ pc[r] = "fail" /\ Goto(r, "release")
    /\ Write(r, "failed", "failed")
    /\ UNCHANGED <<creditVars, bridgeVars>>

\* A request answered from an earlier result is released once more when its job row cannot
\* be read back for the answer.
Settled(r) == Goto(r, "end") \/ (pc[r] = "commitCached" /\ Goto(r, "release"))

\* settleBilling makes one attempt and ignores its outcome.
Settle(r) ==
    /\ pc[r] \in Settling /\ Settled(r)
    /\ SettleCharge(r, pc[r] # "release")
    /\ UNCHANGED <<row, result, unsaved, bridgeVars>>

SettleLost(r) ==
    /\ pc[r] \in Settling /\ Settled(r)
    /\ UNCHANGED <<creditVars, row, result, unsaved, bridgeVars>>

\* The panel dies and boots: the goroutines are gone, FailIncompleteJobs closes job rows.
Restart ==
    /\ pc' = [r \in Charges |-> IF pc[r] \in Busy THEN "killed" ELSE pc[r]]
    /\ row' = [r \in Charges |-> IF row[r] = "active" THEN "failed" ELSE row[r]]
    /\ UNCHANGED <<creditVars, result, unsaved, bridgeVars>>

-----------------------------------------------------------------------------
(* The bridge, and the buttons of the member, which work as long as the bridge knows the job. *)

\* RunJob gets through the gate; a status set while it waited is overwritten.
SolverStarts(r) ==
    /\ solver[r] = "waiting" /\ solver' = [solver EXCEPT ![r] = "solving"]
    /\ bridge' = [bridge EXCEPT ![r] = "active"]
    /\ UNCHANGED <<creditVars, panelVars>>

\* RunJob ends with a result, a failure or a cancellation, its own timeout included.
SolverEnds(r) ==
    /\ solver[r] # "none" /\ solver' = [solver EXCEPT ![r] = "none"]
    /\ \/ solver[r] = "solving" /\ bridge' = [bridge EXCEPT ![r] = "completed"]
       \/ bridge' = [bridge EXCEPT ![r] = "failed"]
    /\ UNCHANGED <<creditVars, panelVars>>

\* Pause, resume and cancel set the status also of a job that is over.
Control(r) ==
    /\ result[r] # "none" /\ bridge[r] # "none"
    /\ \/ bridge' = [bridge EXCEPT ![r] = "paused"]
       \/ bridge[r] = "paused" /\ bridge' = [bridge EXCEPT ![r] = "active"]
       \/ bridge' = [bridge EXCEPT ![r] = "canceling"]
    /\ UNCHANGED <<creditVars, panelVars, solver>>

BridgeCrash ==
    /\ bridge' = [r \in Charges |-> "none"]
    /\ solver' = [r \in Charges |-> "none"]
    /\ UNCHANGED <<creditVars, panelVars>>

-----------------------------------------------------------------------------
Reserve(r) == Sweep(r) \/ Granted(r) \/ Refused(r) \/ Unreachable(r)
Submit(r) == SubmitRejected(r) \/ SubmitCached(r) \/ SubmitQueued(r)
Work(r) == Post(r) \/ PostFails(r) \/ Fetch(r) \/ FetchFails(r) \/ StoreResult(r) \/ Fail(r) \/ Settle(r) \/ SettleLost(r)
Solver(r) == SolverStarts(r) \/ SolverEnds(r) \/ Control(r)

\* The plugin starts, or is started again: initialize releases what has expired.
PluginStart == ReleaseExpired /\ UNCHANGED <<panelVars, bridgeVars>>
Elsewhere == (Tick \/ Chat) /\ UNCHANGED <<panelVars, bridgeVars>>

Next ==
    \/ \E r \in Charges : Request(r) \/ Reserve(r) \/ Submit(r) \/ Work(r) \/ Poll(r) \/ Timeout(r) \/ Solver(r)
    \/ Restart \/ BridgeCrash \/ PluginStart \/ Elsewhere

Spec == Init /\ [][Next]_vars

-----------------------------------------------------------------------------
(* Properties. *)

\* A member is charged only for a result that can be read, unless the write of that result
\* failed: not for a run that failed, was cancelled or timed out, in whatever order the
\* bridge, the buttons and the expiry come.
ChargedForResult == \A r \in Charges : status[r] = "committed" => result[r] = "completed" \/ r \in unsaved

Agree(r) == row[r] \notin Open /\ (row[r] = "completed" <=> result[r] = "completed")

\* When the panel is done with a request, its job row and its result agree on the outcome,
\* although the row is set to completed before the result has been fetched.
RowTellsOutcome ==
    \A r \in Charges : pc[r] = "end" /\ r \notin unsaved /\ row[r] # "none" => Agree(r)

\* Charge, row and result tell the same story.
OutcomesAgree == ChargedForResult /\ RowTellsOutcome

-----------------------------------------------------------------------------
(* The inductive invariant: what the stage of a request says of its rows and its charge. *)

Outcome(r) ==
    /\ pc[r] \in Handling \cup {"new"} => row[r] = "none" /\ result[r] = "none"
    /\ status[r] = "committed" => pc[r] \in {"release", "end", "killed"}
    /\ status[r] = "committed" => result[r] = "completed" \/ r \in unsaved
    /\ pc[r] \in {"commit", "commitCached"} /\ r \notin unsaved => row[r] = "completed" /\ result[r] = "completed"
    /\ pc[r] \in {"release", "end"} /\ r \notin unsaved /\ row[r] # "none" => Agree(r)

IInv == TypeOK /\ \A r \in Charges : Outcome(r)
=============================================================================
