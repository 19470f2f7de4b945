------------------------- MODULE Scheduler_proofs -------------------------
(***************************************************************************)
(* Theorems about the services of the panel, which MCServices checks: the  *)
(* Scheduler for any number of jobs, any definitions of the schedule and   *)
(* any types that clients submit, whether or not the end of a job is       *)
(* recorded; SettingsFile for any edits, DockerSetup for any requests,     *)
(* Translation for any updates and readers, Downloads for any downloads;   *)
(* and about the mods, which MCModLibrary checks: ModLibrary for any       *)
(* inspections, tasks and mods.                                            *)
(***************************************************************************)
EXTENDS Scheduler, SettingsFile, DockerSetup, Translation, Downloads, ModLibrary, TLAPS

USE DefsAssumption, RequestedAssumption, ListLimitAssumption

BoardTypeOK ==
    /\ outcome \in [Jobs -> {"absent", "open", "ok", "failed"}]
    /\ class \in [Jobs -> {"general", "lifecycle"}]
    /\ active \subseteq Jobs

\* Jobs of the scheduler and those listed are on the board; a runner whose answer is still true
\* has asked, and none of the listed jobs of its type is open.
Answers ==
    /\ \A j \in scheduled \cup Listed : outcome[j] # "absent"
    /\ \A r \in sure : rpc[r] \in {"submit", "write"} /\ ~hasRunningJob(copy[r].type)

\* A runner that nothing has overlapped works on the row as its client knows it.
Copies == overlap \/ (table = acked /\ \A r \in Runners : rpc[r] # "idle" => copy[r] = table)

\* What a runner works on is a schedule.
Working == \A r \in Runners : rpc[r] # "idle" => copy[r] \in Defs

IInv == BoardTypeOK /\ SchedulerTypeOK /\ Working /\ Answers /\ Copies /\ OnePerType

-----------------------------------------------------------------------------
(* Lemmas. *)

\* The board keeps its types, and a job that was on it stays on it.
LEMMA BoardKept ==
    ASSUME BoardTypeOK, [Next]_vars
    PROVE  /\ BoardTypeOK'
           /\ \A j \in Jobs : outcome[j] # "absent" => outcome'[j] # "absent"
  <1>1. ASSUME NEW j \in Jobs, NEW c \in {"general", "lifecycle"}, Accept(j, c)
        PROVE  BoardTypeOK' /\ \A k \in Jobs : outcome[k] # "absent" => outcome'[k] # "absent"
    BY <1>1 DEF Accept, BoardTypeOK
  <1>2. ASSUME NEW j \in Jobs, Start(j) \/ Spoil(j) \/ Leave(j)
        PROVE  BoardTypeOK' /\ \A k \in Jobs : outcome[k] # "absent" => outcome'[k] # "absent"
    BY <1>2 DEF Start, Spoil, Leave, BoardTypeOK
  <1>3. ASSUME NEW j \in Jobs, NEW end \in {"ok", "failed"}, Settle(j, end)
        PROVE  BoardTypeOK' /\ \A k \in Jobs : outcome[k] # "absent" => outcome'[k] # "absent"
    BY <1>3 DEF Settle, BoardTypeOK
  <1>4. CASE Vanish \/ Recover
    BY <1>4 DEF Vanish, Recover, BoardTypeOK
  <1>5. CASE UNCHANGED vars
    BY <1>5 DEF vars, BoardTypeOK
  <1>6. QED
    BY <1>1, <1>2, <1>3, <1>4, <1>5 DEF Next

\* A step that accepts no job opens none.
LEMMA NoneOpened ==
    ASSUME BoardTypeOK, NEW j \in Jobs, NEW k \in Jobs, Open(k)',
           \/ Start(j) \/ Leave(j) \/ Spoil(j) \/ \E end \in {"ok", "failed"} : Settle(j, end)
           \/ Vanish \/ Recover \/ UNCHANGED vars
    PROVE  Open(k)
  BY DEF Start, Leave, Spoil, Settle, Vanish, Recover, vars, Open, BoardTypeOK

\* A job that is created is on the board with its type, and the others are as they were.
LEMMA Created ==
    ASSUME BoardTypeOK, SchedulerTypeOK, NEW j \in Jobs, NEW t \in JobType, Create(j, t)
    PROVE  /\ BoardTypeOK' /\ type' \in [Jobs -> JobType]
           /\ outcome[j] = "absent" /\ Open(j)' /\ type'[j] = t
           /\ \A k \in Jobs \ {j} : type'[k] = type[k] /\ outcome'[k] = outcome[k]
           /\ recent' \in Seq(Jobs) /\ Len(recent') <= ListLimit /\ Listed' \subseteq Listed \cup {j}
           /\ UNCHANGED up
  <1>1. ClassOf(t) \in {"general", "lifecycle"}
    BY DEF ClassOf
  <1>2. recent \in Seq(Jobs) /\ Len(recent) <= ListLimit
    BY DEF SchedulerTypeOK
  <1> DEFINE rest == IF Len(recent) < ListLimit THEN recent ELSE SubSeq(recent, 1, ListLimit - 1)
  <1>3. /\ rest \in Seq(Jobs) /\ Len(rest) < ListLimit /\ Len(rest) <= Len(recent)
        /\ \A i \in 1 .. Len(rest) : rest[i] = recent[i]
    <2>1. CASE Len(recent) < ListLimit
      BY <1>2, <2>1
    <2>2. CASE ~(Len(recent) < ListLimit)
      BY <1>2, <2>2
    <2>3. QED
      BY <2>1, <2>2
  <1>4. recent' = <<j>> \o rest
    BY DEF Create
  <1> HIDE DEF rest
  <1>5. /\ recent' \in Seq(Jobs) /\ Len(recent') = Len(rest) + 1
        /\ \A i \in 1 .. Len(recent') : recent'[i] = IF i = 1 THEN j ELSE rest[i - 1]
    BY <1>3, <1>4
  <1>6. Listed' \subseteq Listed \cup {j}
    <2>1. ASSUME NEW i \in 1 .. Len(recent') PROVE recent'[i] \in Listed \cup {j}
      <3>1. CASE i = 1
        BY <1>5, <3>1
      <3>2. CASE i # 1
        <4>1. i - 1 \in 1 .. Len(rest) /\ i - 1 \in 1 .. Len(recent)
          BY <1>2, <1>3, <1>5, <3>2
        <4>2. QED
          BY <1>3, <1>5, <3>2, <4>1 DEF Listed
      <3>3. QED
        BY <3>1, <3>2
    <2>2. QED
      BY <2>1 DEF Listed
  <1>7. QED
    BY <1>1, <1>2, <1>3, <1>5, <1>6 DEF Create, Accept, Open, BoardTypeOK, SchedulerTypeOK

\* What is listed are jobs.
LEMMA ListedJobs == SchedulerTypeOK => Listed \subseteq Jobs
  BY DEF SchedulerTypeOK, Listed

\* The first start.
LEMMA InitIInv == SchedulerInit => IInv
  <1> SUFFICES ASSUME SchedulerInit PROVE IInv
    OBVIOUS
  <1>1. BoardTypeOK
    BY DEF SchedulerInit, Init, BoardTypeOK
  <1>2. SchedulerTypeOK
    <2>1. recent \in Seq(Jobs) /\ Len(recent) <= ListLimit
      BY DEF SchedulerInit
    <2>2. QED
      BY <2>1 DEF SchedulerInit, SchedulerTypeOK, JobType
  <1>3. Working /\ Answers /\ Copies /\ OnePerType
    BY DEF SchedulerInit, Working, Answers, Listed, Copies, OnePerType
  <1>4. QED
    BY <1>1, <1>2, <1>3 DEF IInv

\* Every step keeps the invariant.
LEMMA NextIInv == IInv /\ [SchedulerNext]_allVars => IInv'
  <1> SUFFICES ASSUME IInv, [SchedulerNext]_allVars PROVE IInv'
    OBVIOUS
  <1> USE DEF IInv, board, runners, editing, submitting
  <1>1. ASSUME NEW j \in Jobs, JobStep(j) PROVE IInv'
    <2>1. /\ Start(j) \/ Leave(j) \/ Spoil(j) \/ \E end \in {"ok", "failed"} : Settle(j, end)
          /\ UNCHANGED <<up, type, recent, table, due, runners, editing, submitting>>
      BY <1>1 DEF JobStep
    <2>2. Next
      BY <2>1 DEF Next
    <2>3. BoardTypeOK' /\ \A k \in Jobs : outcome[k] # "absent" => outcome'[k] # "absent"
      BY <2>2, BoardKept
    <2>4. \A k \in Jobs : Open(k)' => Open(k)
      BY <2>1, NoneOpened
    <2>5. SchedulerTypeOK' /\ Working' /\ Copies'
      BY <2>1 DEF SchedulerTypeOK, Working, Copies
    <2>6. Answers'
      BY <2>1, <2>3, <2>4 DEF Answers, Listed, hasRunningJob, SchedulerTypeOK
    <2>7. OnePerType'
      BY <2>1, <2>4 DEF OnePerType, Listed, SchedulerTypeOK
    <2>8. QED
      BY <2>3, <2>5, <2>6, <2>7
  <1>2. ASSUME NEW j \in Jobs, NEW t \in Requested, ClientSubmits(j, t) PROVE IInv'
    <2>1. /\ BoardTypeOK' /\ type' \in [Jobs -> JobType]
          /\ outcome[j] = "absent" /\ Open(j)' /\ type'[j] = t
          /\ \A k \in Jobs \ {j} : type'[k] = type[k] /\ outcome'[k] = outcome[k]
          /\ recent' \in Seq(Jobs) /\ Len(recent') <= ListLimit /\ Listed' \subseteq Listed \cup {j}
          /\ UNCHANGED up
      BY <1>2, Created DEF ClientSubmits
    <2>2. /\ UNCHANGED <<table, due, runners, editing, scheduled, loose>>
          /\ sure' = Unaware(t)
      BY <1>2 DEF ClientSubmits
    <2>3. SchedulerTypeOK' /\ Working' /\ Copies'
      BY <2>1, <2>2 DEF SchedulerTypeOK, Unaware, Working, Copies
    <2>4. j \notin scheduled \cup Listed /\ Listed \subseteq Jobs
      BY <2>1, ListedJobs DEF Answers
    <2>5. Answers'
      BY <2>1, <2>2, <2>4 DEF Answers, Unaware, hasRunningJob, Open, SchedulerTypeOK
    <2>6. OnePerType'
      BY <2>1, <2>2, <2>4 DEF OnePerType, Open, SchedulerTypeOK
    <2>7. QED
      BY <2>1, <2>3, <2>5, <2>6
  <1>3. CASE ComesDue
    <2>1. BoardTypeOK' /\ SchedulerTypeOK' /\ Working'
      BY <1>3 DEF ComesDue, Working, BoardTypeOK, SchedulerTypeOK, vars
    <2>2. Answers'
      BY <1>3 DEF ComesDue, Answers, Listed, hasRunningJob, Open, SchedulerTypeOK, vars
    <2>3. Copies'
      BY <1>3 DEF ComesDue, Working, Copies, SchedulerTypeOK
    <2>4. OnePerType'
      BY <1>3 DEF ComesDue, OnePerType, Listed, Open, vars
    <2>5. QED
      BY <2>1, <2>2, <2>3, <2>4
  <1>4. CASE RunDue
    <2>1. BoardTypeOK' /\ SchedulerTypeOK' /\ Working'
      BY <1>4 DEF RunDue, Begin, Runners, Working, BoardTypeOK, SchedulerTypeOK, vars
    <2>2. Answers'
      BY <1>4 DEF RunDue, Begin, Runners, Answers, Listed, hasRunningJob, Open, SchedulerTypeOK, vars
    <2>3. Copies'
      BY <1>4 DEF RunDue, Begin, Runners, Working, Copies, SchedulerTypeOK
    <2>4. OnePerType'
      BY <1>4 DEF RunDue, Begin, Runners, OnePerType, Listed, Open, vars
    <2>5. QED
      BY <2>1, <2>2, <2>3, <2>4
  <1>5. CASE RunNow
    <2>1. BoardTypeOK' /\ SchedulerTypeOK' /\ Working'
      BY <1>5 DEF RunNow, Begin, Runners, Working, BoardTypeOK, SchedulerTypeOK, vars
    <2>2. Answers'
      BY <1>5 DEF RunNow, Begin, Runners, Answers, Listed, hasRunningJob, Open, SchedulerTypeOK, vars
    <2>3. Copies'
      BY <1>5 DEF RunNow, Begin, Runners, Working, Copies, SchedulerTypeOK
    <2>4. OnePerType'
      BY <1>5 DEF RunNow, Begin, Runners, OnePerType, Listed, Open, vars
    <2>5. QED
      BY <2>1, <2>2, <2>3, <2>4
  <1>6. ASSUME NEW r \in Runners, Check(r) PROVE IInv'
    <2>1. BoardTypeOK' /\ SchedulerTypeOK' /\ Working'
      BY <1>6 DEF Check, Working, BoardTypeOK, SchedulerTypeOK, vars
    <2>2. Answers'
      BY <1>6 DEF Check, Answers, Listed, hasRunningJob, Open, SchedulerTypeOK, vars
    <2>3. Copies'
      BY <1>6 DEF Check, Working, Copies, SchedulerTypeOK
    <2>4. OnePerType'
      BY <1>6 DEF Check, OnePerType, Listed, Open, vars
    <2>5. QED
      BY <2>1, <2>2, <2>3, <2>4
  <1>7. ASSUME NEW r \in Runners, NEW j \in Jobs, Submit(r, j) PROVE IInv'
    <2>1. copy[r].type \in JobType
      BY <1>7 DEF Submit, Working
    <2>2. /\ BoardTypeOK' /\ type' \in [Jobs -> JobType]
          /\ outcome[j] = "absent" /\ Open(j)' /\ type'[j] = copy[r].type
          /\ \A k \in Jobs \ {j} : type'[k] = type[k] /\ outcome'[k] = outcome[k]
          /\ recent' \in Seq(Jobs) /\ Len(recent') <= ListLimit /\ Listed' \subseteq Listed \cup {j}
          /\ UNCHANGED up
      BY <1>7, <2>1, Created DEF Submit
    <2>3. /\ UNCHANGED <<table, due, copy, editing>>
          /\ rpc' = [rpc EXCEPT ![r] = "write"] /\ rpc[r] = "submit"
          /\ scheduled' = scheduled \cup {j} /\ sure' = Unaware(copy[r].type)
          /\ loose' = IF r \in sure THEN loose ELSE loose \cup {j}
      BY <1>7 DEF Submit
    <2>4. SchedulerTypeOK'
      BY <2>2, <2>3 DEF SchedulerTypeOK, Unaware
    <2>5. Working' /\ Copies'
      BY <2>3 DEF SchedulerTypeOK, Working, Copies
    <2>6. j \notin scheduled \cup Listed /\ Listed \subseteq Jobs
      BY <2>2, ListedJobs DEF Answers
    <2>7. Answers'
      <3>1. \A k \in (scheduled \cup Listed)' : outcome'[k] # "absent"
        BY <2>2, <2>3, <2>6 DEF Answers, Open, SchedulerTypeOK
      <3>2. ASSUME NEW q \in sure' PROVE rpc'[q] \in {"submit", "write"} /\ ~hasRunningJob(copy[q].type)'
        <4>1. q \in sure /\ copy[q].type # copy[r].type /\ copy' = copy
          BY <2>3, <3>2 DEF Unaware
        <4>2. rpc'[q] \in {"submit", "write"}
          BY <2>3, <4>1 DEF Answers, SchedulerTypeOK
        <4>3. ~hasRunningJob(copy[q].type)'
          BY <2>2, <2>6, <4>1 DEF Answers, hasRunningJob, Open
        <4>4. QED
          BY <4>2, <4>3
      <3>3. QED
        BY <3>1, <3>2 DEF Answers
    <2>8. r \in sure => \A k \in Listed : ~(type[k] = copy[r].type /\ Open(k))
      BY DEF Answers, Listed, hasRunningJob, SchedulerTypeOK
    <2>9. OnePerType'
      BY <2>2, <2>3, <2>6, <2>8 DEF OnePerType, Open, SchedulerTypeOK
    <2>10. QED
      BY <2>2, <2>4, <2>5, <2>7, <2>9
  <1>8. ASSUME NEW r \in Runners, SubmitFails(r) PROVE IInv'
    <2>1. BoardTypeOK' /\ SchedulerTypeOK' /\ Working'
      BY <1>8 DEF SubmitFails, Working, BoardTypeOK, SchedulerTypeOK, vars
    <2>2. Answers'
      BY <1>8 DEF SubmitFails, Answers, Listed, hasRunningJob, Open, SchedulerTypeOK, vars
    <2>3. Copies'
      BY <1>8 DEF SubmitFails, Working, Copies, SchedulerTypeOK
    <2>4. OnePerType'
      BY <1>8 DEF SubmitFails, OnePerType, Listed, Open, vars
    <2>5. QED
      BY <2>1, <2>2, <2>3, <2>4
  <1>9. ASSUME NEW r \in Runners, WriteBack(r) PROVE IInv'
    <2>1. BoardTypeOK' /\ SchedulerTypeOK' /\ Working'
      BY <1>9 DEF WriteBack, Working, BoardTypeOK, SchedulerTypeOK, vars
    <2>2. Answers'
      BY <1>9 DEF WriteBack, Answers, Listed, hasRunningJob, Open, SchedulerTypeOK, vars
    <2>3. Copies'
      BY <1>9 DEF WriteBack, Working, Copies, SchedulerTypeOK
    <2>4. OnePerType'
      BY <1>9 DEF WriteBack, OnePerType, Listed, Open, vars
    <2>5. QED
      BY <2>1, <2>2, <2>3, <2>4
  <1>10. ASSUME NEW d \in Defs, EditReads(d) PROVE IInv'
    <2>1. BoardTypeOK' /\ SchedulerTypeOK' /\ Working'
      BY <1>10 DEF EditReads, Working, BoardTypeOK, SchedulerTypeOK, vars
    <2>2. Answers'
      BY <1>10 DEF EditReads, Answers, Listed, hasRunningJob, Open, SchedulerTypeOK, vars
    <2>3. Copies'
      BY <1>10 DEF EditReads, Working, Copies, SchedulerTypeOK
    <2>4. OnePerType'
      BY <1>10 DEF EditReads, OnePerType, Listed, Open, vars
    <2>5. QED
      BY <2>1, <2>2, <2>3, <2>4
  <1>11. CASE EditWrites
    <2>1. BoardTypeOK' /\ SchedulerTypeOK' /\ Working'
      <3>1. table' = editor /\ editor' = Absent /\ acked' = editor /\ overlap' \in BOOLEAN
        BY <1>11 DEF EditWrites, Busy
      <3>2. SchedulerTypeOK'
        BY <1>11, <3>1 DEF EditWrites, SchedulerTypeOK
      <3>3. QED
        BY <1>11, <3>2 DEF EditWrites, Working, BoardTypeOK, vars
    <2>2. Answers'
      BY <1>11 DEF EditWrites, Answers, Listed, hasRunningJob, Open, SchedulerTypeOK, vars
    <2>3. Copies'
      BY <1>11 DEF EditWrites, Working, Copies, Busy, SchedulerTypeOK
    <2>4. OnePerType'
      BY <1>11 DEF EditWrites, OnePerType, Listed, Open, vars
    <2>5. QED
      BY <2>1, <2>2, <2>3, <2>4
  <1>12. CASE Delete
    <2>1. BoardTypeOK' /\ SchedulerTypeOK' /\ Working'
      BY <1>12 DEF Delete, Working, BoardTypeOK, SchedulerTypeOK, vars
    <2>2. Answers'
      BY <1>12 DEF Delete, Answers, Listed, hasRunningJob, Open, SchedulerTypeOK, vars
    <2>3. Copies'
      BY <1>12 DEF Delete, Working, Copies, Busy, SchedulerTypeOK
    <2>4. OnePerType'
      BY <1>12 DEF Delete, OnePerType, Listed, Open, vars
    <2>5. QED
      BY <2>1, <2>2, <2>3, <2>4
  <1>13. CASE Dies
    <2>1. BoardTypeOK' /\ SchedulerTypeOK' /\ Working'
      BY <1>13 DEF Dies, Vanish, Working, BoardTypeOK, SchedulerTypeOK, vars
    <2>2. Answers'
      BY <1>13 DEF Dies, Vanish, Answers, Listed, hasRunningJob, Open, SchedulerTypeOK, vars
    <2>3. Copies'
      BY <1>13 DEF Dies, Vanish, Working, Copies, SchedulerTypeOK
    <2>4. OnePerType'
      BY <1>13 DEF Dies, Vanish, OnePerType, Listed, Open, vars
    <2>5. QED
      BY <2>1, <2>2, <2>3, <2>4
  <1>14. CASE Boots
    <2>1. Recover /\ UNCHANGED <<type, recent, table, due, runners, editing, submitting>> /\ up' = TRUE
      BY <1>14 DEF Boots
    <2>2. BoardTypeOK' /\ \A k \in Jobs : outcome[k] # "absent" => outcome'[k] # "absent"
      BY <2>1, BoardKept DEF Next
    <2>3. \A k \in Jobs : Open(k)' => Open(k)
      BY <2>1, NoneOpened
    <2>4. SchedulerTypeOK' /\ Working' /\ Copies'
      BY <2>1 DEF SchedulerTypeOK, Working, Copies
    <2>5. Answers'
      BY <2>1, <2>2, <2>3 DEF Answers, Listed, hasRunningJob, SchedulerTypeOK
    <2>6. OnePerType'
      BY <2>1, <2>3 DEF OnePerType, Listed, SchedulerTypeOK
    <2>7. QED
      BY <2>2, <2>4, <2>5, <2>6
  <1>15. CASE UNCHANGED allVars
    <2>1. BoardTypeOK' /\ SchedulerTypeOK' /\ Working'
      BY <1>15 DEF allVars, Working, BoardTypeOK, SchedulerTypeOK, vars
    <2>2. Answers'
      BY <1>15 DEF allVars, Answers, Listed, hasRunningJob, Open, SchedulerTypeOK, vars
    <2>3. Copies'
      BY <1>15 DEF allVars, Working, Copies, SchedulerTypeOK
    <2>4. OnePerType'
      BY <1>15 DEF allVars, OnePerType, Listed, Open, vars
    <2>5. QED
      BY <2>1, <2>2, <2>3, <2>4
  <1>16. QED
    BY <1>1, <1>2, <1>3, <1>4, <1>5, <1>6, <1>7, <1>8, <1>9, <1>10, <1>11, <1>12, <1>13, <1>14, <1>15 DEF SchedulerNext

-----------------------------------------------------------------------------
(* Theorems. *)

\* The inductive invariant holds in every behaviour.
THEOREM SchedulerInvariance == SchedulerSpec => []IInv
  <1>1. SchedulerInit => IInv
    BY InitIInv
  <1>2. IInv /\ [SchedulerNext]_allVars => IInv'
    BY NextIInv
  <1>3. QED
    BY <1>1, <1>2, PTL DEF SchedulerSpec

\* The variables of the scheduler keep their types.
THEOREM SchedulerTypeCorrect == SchedulerSpec => []SchedulerTypeOK
  <1>1. IInv => SchedulerTypeOK
    BY DEF IInv
  <1>2. QED
    BY <1>1, SchedulerInvariance, PTL

\* What a client was told about the schedule stays so, unless a run or an edit was under way.
THEOREM EditsSurvive == SchedulerSpec => []EditSurvives
  <1>1. IInv => EditSurvives
    BY DEF IInv, Copies, EditSurvives
  <1>2. QED
    BY <1>1, SchedulerInvariance, PTL

\* Runs of the schedule have one incomplete job of a type among the rows a look takes in, unless
\* their answer was not true.
THEOREM OneJobPerType == SchedulerSpec => []OnePerType
  <1>1. IInv => OnePerType
    BY DEF IInv
  <1>2. QED
    BY <1>1, SchedulerInvariance, PTL

-----------------------------------------------------------------------------
(* The settings of the game. *)

EditPlaces == {"new", "merged", "opened", "written", "done"}

\* What an edit has read, and what it will write, may be any text: only the shape is known.
EditShape(e) ==
    edit[e] \in [at : EditPlaces, set : {edit[e].set}, next : {edit[e].next}, file : Directories,
                 alone : BOOLEAN, marks : BOOLEAN]

SettingsTypeOK ==
    /\ ini = [d \in Directories |-> ini[d]] /\ \A d \in Directories : ini[d] = File(ini[d].content)
    /\ said = [d \in Directories |-> said[d]]
    /\ directory \in Directories /\ bound \in Directories
    /\ edit = [e \in Edits |-> edit[e]] /\ \A e \in Edits : EditShape(e)
    /\ game \in {"off", "fresh", "stale"} /\ pending \in BOOLEAN /\ launching \in BOOLEAN /\ missed \in BOOLEAN

\* An edit that is alone: nobody else is on the way, what it is about to write is what was said and
\* what it sets, and the file it has emptied is empty.
AloneInFile(e) ==
    Underway(e) /\ edit[e].alone =>
        /\ Apart(e)
        /\ edit[e].file \in torn \/ edit[e].next = Merge(said[edit[e].file], edit[e].set)
        /\ edit[e].at = "opened" => ini[edit[e].file].content = <<>>

Opened(d) == \E e \in Edits : edit[e].at = "opened" /\ edit[e].file = d
HoldsSaid(d) == d \in torn \/ Opened(d) \/ ini[d].parsed = [ok |-> TRUE, settings |-> said[d]]

SettingsInv ==
    /\ SettingsTypeOK
    /\ \A e \in Edits : AloneInFile(e)
    /\ \A d \in Directories : HoldsSaid(d)

\* How the calls change: one of them as a whole, or in its place only.
LEMMA EditSet ==
    ASSUME \A o \in Edits : EditShape(o), edit = [o \in Edits |-> edit[o]], NEW e \in Edits, NEW r,
           r \in [at : EditPlaces, set : {r.set}, next : {r.next}, file : Directories, alone : BOOLEAN, marks : BOOLEAN],
           edit' = [edit EXCEPT ![e] = r]
    PROVE  /\ edit' = [o \in Edits |-> edit'[o]] /\ \A o \in Edits : EditShape(o)'
           /\ edit'[e] = r /\ \A o \in Edits \ {e} : edit'[o] = edit[o]
  <1>1. edit'[e] = r /\ \A o \in Edits \ {e} : edit'[o] = edit[o]
    OBVIOUS
  <1>2. edit' = [o \in Edits |-> edit'[o]]
    OBVIOUS
  <1>3. \A o \in Edits : EditShape(o)'
    BY <1>1 DEF EditShape
  <1>4. QED
    BY <1>1, <1>2, <1>3

LEMMA EndedShape ==
    /\ Ended \in [at : EditPlaces, set : {Ended.set}, next : {Ended.next}, file : Directories, alone : BOOLEAN, marks : BOOLEAN]
    /\ Ended.at = "done"
    /\ \A at \in EditPlaces : /\ [Ended EXCEPT !.at = at].at = at
                              /\ [Ended EXCEPT !.at = at] \in [at : EditPlaces, set : {Ended.set}, next : {Ended.next},
                                                               file : Directories, alone : BOOLEAN, marks : BOOLEAN]
                              /\ [Ended EXCEPT !.at = at].set = Ended.set /\ [Ended EXCEPT !.at = at].next = Ended.next
  BY DEF Ended, EditPlaces, Directories

\* A call that enters: it is alone only if nobody else is on the way, and nobody else is then.
LEMMA Entered ==
    ASSUME SettingsTypeOK, NEW e \in Edits, NEW updates, NEW settings, NEW marks \in BOOLEAN,
           Enter(e, updates, settings, marks)
    PROVE  /\ edit' = [o \in Edits |-> edit'[o]] /\ \A o \in Edits : EditShape(o)'
           /\ edit'[e].at = "merged" /\ edit'[e].set = updates /\ edit'[e].next = settings
           /\ edit'[e].file = directory /\ edit'[e].alone = Apart(e)
           /\ \A o \in Edits \ {e} :
                 /\ edit'[o].at = edit[o].at /\ edit'[o].file = edit[o].file
                 /\ Underway(o) => ~edit'[o].alone
  <1> DEFINE r == [at |-> "merged", set |-> updates, next |-> settings, file |-> directory,
                   alone |-> Apart(e), marks |-> marks]
  <1>0. Apart(e) \in BOOLEAN
    BY DEF Apart
  <1>1. edit' = [o \in Edits |-> edit'[o]] /\ edit'[e] = r
        /\ \A o \in Edits \ {e} : edit'[o] = IF Underway(o) THEN [edit[o] EXCEPT !.alone = FALSE] ELSE edit[o]
    BY DEF Enter
  <1>2. /\ r.at = "merged" /\ r.set = updates /\ r.next = settings /\ r.file = directory /\ r.alone = Apart(e)
        /\ r \in [at : EditPlaces, set : {r.set}, next : {r.next}, file : Directories, alone : BOOLEAN, marks : BOOLEAN]
    BY <1>0 DEF EditPlaces, SettingsTypeOK
  <1>3. ASSUME NEW o \in Edits \ {e}
        PROVE  /\ edit'[o].at = edit[o].at /\ edit'[o].file = edit[o].file
               /\ Underway(o) => ~edit'[o].alone
               /\ EditShape(o)'
    BY <1>1 DEF SettingsTypeOK, EditShape
  <1>4. EditShape(e)'
    BY <1>1, <1>2 DEF EditShape
  <1>5. QED
    BY <1>1, <1>2, <1>3, <1>4

LEMMA FileFacts ==
    /\ \A c : File(c).content = c /\ File(c).parsed = Parse(c)
    /\ Parse(NoSettings) = [ok |-> TRUE, settings |-> <<>>]
  BY DEF File, Parse

LEMMA MergeWithNone ==
    ASSUME NEW K, NEW f, f = [k \in K |-> f[k]]
    PROVE  Merge(<<>>, f) = f
  BY DEF Merge

LEMMA InitSettings == SettingsInit => SettingsInv
  <1> SUFFICES ASSUME SettingsInit PROVE SettingsInv
    OBVIOUS
  <1>1. PICK fresh \in SUBSET {"own"} :
          /\ ini = [d \in Directories |-> File(IF d \in fresh THEN NoSettings ELSE Serialize(Defaults))]
          /\ said = [d \in Directories |-> IF d \in fresh THEN <<>> ELSE Defaults]
    BY DEF SettingsInit
  <1>2. ASSUME NEW d \in Directories
        PROVE  ini[d] = File(ini[d].content) /\ ini[d].parsed = [ok |-> TRUE, settings |-> said[d]]
    <2>1. CASE d \in fresh
      <3>1. ini[d] = File(NoSettings) /\ said[d] = <<>>
        BY <1>1, <2>1
      <3>2. QED
        BY <3>1, FileFacts
    <2>2. CASE d \notin fresh
      <3>1. ini[d] = File(Serialize(Defaults)) /\ said[d] = Defaults
        BY <1>1, <2>2
      <3>2. Parse(Serialize(Defaults)) = [ok |-> TRUE, settings |-> Defaults]
        BY FormatAssumption
      <3>3. QED
        BY <3>1, <3>2, FileFacts
    <2>3. QED
      BY <2>1, <2>2
  <1>3. edit = [e \in Edits |-> edit[e]] /\ \A e \in Edits : EditShape(e) /\ edit[e].at = "new"
    BY EndedShape DEF SettingsInit, EditShape, EditPlaces
  <1>4. ini = [d \in Directories |-> ini[d]] /\ said = [d \in Directories |-> said[d]]
    BY <1>1
  <1>5. SettingsTypeOK
    BY <1>2, <1>3, <1>4 DEF SettingsInit, SettingsTypeOK, Directories
  <1>6. QED
    BY <1>2, <1>3, <1>5 DEF SettingsInv, AloneInFile, HoldsSaid, Underway

LEMMA SettingsInvStep == SettingsInv /\ [SettingsNext]_settingsVars => SettingsInv'
  <1> SUFFICES ASSUME SettingsInv, [SettingsNext]_settingsVars PROVE SettingsInv'
    OBVIOUS
  <1>0. /\ SettingsTypeOK
        /\ \A e \in Edits : AloneInFile(e)
        /\ \A d \in Directories : HoldsSaid(d)
    BY DEF SettingsInv
  <1>a. /\ edit = [o \in Edits |-> edit[o]] /\ \A o \in Edits : EditShape(o)
        /\ \A o \in Edits : edit[o].at \in EditPlaces /\ edit[o].file \in Directories
    BY <1>0 DEF SettingsTypeOK, EditShape
  \* The file an edit that is alone has read, before it writes.
  <1>1. ASSUME NEW e \in Edits, NEW updates, NEW marks \in BOOLEAN, NEW settings,
               edit[e].at = "new", Enter(e, updates, settings, marks),
               ini[directory].parsed.ok => settings = Merge(ini[directory].parsed.settings, updates),
               UNCHANGED <<ini, directory, bound, gameVars, said, torn>>
        PROVE  SettingsInv'
    <2>1. SettingsTypeOK'
      BY <1>0, <1>1, Entered DEF SettingsTypeOK, gameVars
    <2>2. \A o \in Edits \ {e} : AloneInFile(o)'
      BY <1>1, <1>0, Entered DEF AloneInFile, Underway
    <2>3. AloneInFile(e)'
      <3>1. SUFFICES ASSUME Apart(e)
                     PROVE  Apart(e)' /\ (directory \in torn \/ settings = Merge(said[directory], updates))
        BY <1>1, <1>0, Entered DEF AloneInFile
      <3>2. Apart(e)'
        <4>1. \A o \in Edits \ {e} : edit'[o].at = edit[o].at
          BY <1>1, <1>0, Entered
        <4>2. QED
          BY <3>1, <4>1 DEF Apart, Underway
      <3>3. ~Opened(directory)
        BY <1>1, <3>1 DEF Apart, Underway, Opened
      <3>4. directory \in torn \/ ini[directory].parsed = [ok |-> TRUE, settings |-> said[directory]]
        BY <1>0, <3>3 DEF HoldsSaid, SettingsTypeOK
      <3>5. QED
        BY <1>1, <3>2, <3>4
    <2>4. \A d \in Directories : HoldsSaid(d)'
      BY <1>0, <1>1, Entered DEF HoldsSaid, Opened
    <2>5. QED
      BY <2>1, <2>2, <2>3, <2>4 DEF SettingsInv
  <1>2. ASSUME NEW e \in Edits, ReadSettings(e) PROVE SettingsInv'
    <2>1. PICK k \in SettingKeys, t \in Texts :
             Enter(e, [x \in {k} |-> t], Merge(ini[directory].parsed.settings, [x \in {k} |-> t]), TRUE)
      BY <1>2 DEF ReadSettings
    <2>2. QED
      BY <1>1, <1>2, <2>1 DEF ReadSettings
  <1>3. ASSUME NEW e \in Edits, InitializeConfig(e) PROVE SettingsInv'
    <2>1. ini[directory].content = NoSettings /\ ini[directory] = File(ini[directory].content)
      BY <1>0, <1>3 DEF InitializeConfig, SettingsTypeOK
    <2>2. ini[directory].parsed = [ok |-> TRUE, settings |-> <<>>]
      BY <2>1, FileFacts
    <2>3. Merge(<<>>, Defaults) = Defaults
      BY MergeWithNone DEF Defaults
    <2>4. ini[directory].parsed.settings = <<>>
      BY <2>2
    <2>5. Defaults = Merge(ini[directory].parsed.settings, Defaults)
      BY <2>3, <2>4
    <2>6. /\ edit[e].at = "new" /\ Enter(e, Defaults, Defaults, FALSE)
          /\ UNCHANGED <<ini, directory, bound, gameVars, said, torn>>
      BY <1>3 DEF InitializeConfig
    <2>7. QED
      BY <1>1, <2>5, <2>6
  <1>4. ASSUME NEW e \in Edits, OpenFile(e) PROVE SettingsInv'
    <2> DEFINE r == [edit[e] EXCEPT !.at = "opened", !.file = directory,
                                    !.alone = edit[e].alone /\ edit[e].file = directory]
    <2>1. /\ r \in [at : EditPlaces, set : {r.set}, next : {r.next}, file : Directories, alone : BOOLEAN, marks : BOOLEAN]
          /\ r.at = "opened" /\ r.file = directory /\ r.next = edit[e].next /\ r.set = edit[e].set
          /\ r.alone = (edit[e].alone /\ edit[e].file = directory)
      BY <1>0 DEF SettingsTypeOK, EditShape, EditPlaces
    <2>2. edit' = [edit EXCEPT ![e] = r]
      BY <1>4, <1>0 DEF OpenFile, SettingsTypeOK, EditShape
    <2> HIDE DEF r
    <2>3. /\ edit' = [o \in Edits |-> edit'[o]] /\ \A o \in Edits : EditShape(o)'
          /\ edit'[e] = r /\ \A o \in Edits \ {e} : edit'[o] = edit[o]
      BY <1>a, <2>1, <2>2, EditSet
    <2>4. /\ ini' = [d \in Directories |-> ini'[d]]
          /\ ini'[directory] = File(<<>>) /\ \A d \in Directories \ {directory} : ini'[d] = ini[d]
      BY <1>4, <1>0 DEF OpenFile, SettingsTypeOK
    <2>5. File(<<>>).content = <<>>
      BY FileFacts
    <2>6. SettingsTypeOK'
      BY <1>4, <1>0, <2>3, <2>4, <2>5 DEF OpenFile, GameSees, SettingsTypeOK
    <2>7. \A o \in Edits \ {e} : AloneInFile(o)'
      BY <1>4, <1>0, <2>3, <2>1 DEF OpenFile, AloneInFile, Underway, Apart
    <2>8. AloneInFile(e)'
      BY <1>4, <1>0, <2>1, <2>3, <2>4, <2>5 DEF OpenFile, AloneInFile, Underway, Apart, SettingsTypeOK
    <2>9. \A d \in Directories : HoldsSaid(d)'
      <3>1. Opened(directory)'
        BY <1>4, <2>1, <2>3 DEF OpenFile, Opened
      <3>2. ASSUME NEW d \in Directories \ {directory} PROVE HoldsSaid(d)'
        <4>1. Opened(d) => Opened(d)'
          BY <1>4, <2>3 DEF OpenFile, Opened
        <4>2. QED
          BY <1>4, <1>0, <2>4, <4>1 DEF OpenFile, HoldsSaid
      <3>3. QED
        BY <1>4, <3>1, <3>2 DEF HoldsSaid, OpenFile
    <2>10. QED
      BY <2>6, <2>7, <2>8, <2>9 DEF SettingsInv
  <1>5. ASSUME NEW e \in Edits, WriteFails(e) PROVE SettingsInv'
    <2>1. /\ edit' = [o \in Edits |-> edit'[o]] /\ \A o \in Edits : EditShape(o)'
          /\ edit'[e] = Ended /\ \A o \in Edits \ {e} : edit'[o] = edit[o]
      BY <1>a, <1>5, EditSet, EndedShape DEF WriteFails
    <2>2. SettingsTypeOK'
      BY <1>5, <1>0, <2>1 DEF WriteFails, SettingsTypeOK
    <2>3. \A o \in Edits : AloneInFile(o)'
      BY <1>5, <1>0, <2>1, EndedShape DEF WriteFails, AloneInFile, Underway, Apart
    <2>4. \A d \in Directories : HoldsSaid(d)'
      BY <1>5, <1>0, <2>1, EndedShape DEF WriteFails, HoldsSaid, Opened
    <2>5. QED
      BY <2>2, <2>3, <2>4 DEF SettingsInv
  <1>6. ASSUME NEW e \in Edits, WriteSettings(e) PROVE SettingsInv'
    <2>0. PICK d \in Directories : d = edit[e].file
      BY <1>a
    <2> DEFINE content == Serialize(edit[e].next)
               r == IF edit[e].marks THEN [Ended EXCEPT !.at = "written"] ELSE Ended
    <2>1. /\ r \in [at : EditPlaces, set : {r.set}, next : {r.next}, file : Directories, alone : BOOLEAN, marks : BOOLEAN]
          /\ r.at \in {"written", "done"}
      BY EndedShape DEF EditPlaces
    <2>2. edit' = [edit EXCEPT ![e] = r]
      BY <1>6 DEF WriteSettings
    <2> HIDE DEF r
    <2>3. /\ edit' = [o \in Edits |-> edit'[o]] /\ \A o \in Edits : EditShape(o)'
          /\ edit'[e] = r /\ \A o \in Edits \ {e} : edit'[o] = edit[o]
      BY <1>a, <2>1, <2>2, EditSet
    <2>4. /\ ini' = [ini EXCEPT ![d] = Over(ini[d], content)]
          /\ ini' = [c \in Directories |-> ini'[c]]
          /\ ini'[d] = Over(ini[d], content) /\ \A c \in Directories \ {d} : ini'[c] = ini[c]
          /\ said' = [c \in Directories |-> said'[c]]
          /\ said'[d] = (IF d \in torn THEN edit[e].next ELSE Merge(said[d], edit[e].set))
          /\ \A c \in Directories \ {d} : said'[c] = said[c]
          /\ torn' = IF edit[e].alone /\ edit[e].next \in SoundSettings THEN torn \ {d} ELSE torn \cup {d}
      BY <1>6, <1>0, <1>a, <2>0 DEF WriteSettings, SettingsTypeOK
    <2>5. \E new : Over(ini[d], content) = File(new)
      BY DEF Over
    <2>6. ini'[d] = File(ini'[d].content)
      BY <2>4, <2>5, FileFacts
    <2>7. SettingsTypeOK'
      BY <1>6, <1>0, <2>3, <2>4, <2>6 DEF WriteSettings, GameSees, SettingsTypeOK
    <2>8. \A o \in Edits : AloneInFile(o)'
      BY <1>6, <1>0, <2>1, <2>3 DEF WriteSettings, AloneInFile, Underway, Apart
    <2>9. HoldsSaid(d)'
      <3>1. SUFFICES ASSUME edit[e].alone, edit[e].next \in SoundSettings
                     PROVE  ini'[d].parsed = [ok |-> TRUE, settings |-> said'[d]]
        <4>1. edit[e].alone \in BOOLEAN
          BY <1>0 DEF SettingsTypeOK, EditShape
        <4>2. CASE edit[e].alone /\ edit[e].next \in SoundSettings
          BY <3>1, <4>2 DEF HoldsSaid
        <4>3. CASE ~(edit[e].alone /\ edit[e].next \in SoundSettings)
          BY <2>4, <4>3 DEF HoldsSaid
        <4>4. QED
          BY <4>2, <4>3
      <3>2. ini[d].content = <<>> /\ said'[d] = edit[e].next
        BY <1>6, <1>0, <2>0, <2>4, <3>1 DEF WriteSettings, AloneInFile, Underway
      <3>3. ini[d] = File(<<>>)
        BY <1>0, <2>4, <3>2 DEF SettingsTypeOK
      <3>4. ini'[d] = File(content) /\ Parse(content) = [ok |-> TRUE, settings |-> edit[e].next]
        BY <2>4, <3>1, <3>3, FormatAssumption
      <3>5. QED
        BY <3>2, <3>4, FileFacts
    <2>10. \A c \in Directories \ {d} : HoldsSaid(c)'
      BY <1>0, <2>0, <2>3, <2>4 DEF HoldsSaid, Opened
    <2>11. QED
      BY <2>7, <2>8, <2>9, <2>10 DEF SettingsInv
  <1>7. ASSUME NEW e \in Edits, MarkPending(e) PROVE SettingsInv'
    <2>1. /\ edit' = [o \in Edits |-> edit'[o]] /\ \A o \in Edits : EditShape(o)'
          /\ edit'[e] = Ended /\ \A o \in Edits \ {e} : edit'[o] = edit[o]
      BY <1>a, <1>7, EditSet, EndedShape DEF MarkPending
    <2>2. SettingsTypeOK'
      BY <1>7, <1>0, <2>1 DEF MarkPending, SettingsTypeOK
    <2>3. \A o \in Edits : AloneInFile(o)'
      BY <1>7, <1>0, <2>1, EndedShape DEF MarkPending, AloneInFile, Underway, Apart
    <2>4. \A d \in Directories : HoldsSaid(d)'
      BY <1>7, <1>0, <2>1, EndedShape DEF MarkPending, HoldsSaid, Opened
    <2>5. QED
      BY <2>2, <2>3, <2>4 DEF SettingsInv
  <1>8. CASE Launch \/ Relaunch \/ ClearPending \/ Halt \/ RememberDirectory \/ BindDirectory
    <2>1. UNCHANGED <<ini, edit, said, torn>>
      BY <1>8 DEF Launch, Relaunch, ClearPending, Halt, RememberDirectory, BindDirectory
    <2>2. SettingsTypeOK'
      <3>1. /\ directory' \in Directories /\ bound' \in Directories
            /\ game' \in {"off", "fresh", "stale"} /\ pending' \in BOOLEAN /\ launching' \in BOOLEAN /\ missed' \in BOOLEAN
        BY <1>8, <1>0
        DEF Launch, Relaunch, ClearPending, Halt, RememberDirectory, BindDirectory, SettingsTypeOK, Directories, gameVars
      <3>2. QED
        BY <1>0, <2>1, <3>1 DEF SettingsTypeOK, EditShape
    <2>3. QED
      BY <1>0, <2>1, <2>2 DEF SettingsInv, AloneInFile, Underway, Apart, HoldsSaid, Opened
  <1>9. CASE PanelRestarts
    <2>1. /\ edit' = [o \in Edits |-> edit'[o]]
          /\ \A o \in Edits : edit'[o] = IF edit[o].at = "new" THEN edit[o] ELSE Ended
      BY <1>9 DEF PanelRestarts
    <2>2. \A o \in Edits : EditShape(o)' /\ edit'[o].at \in {"new", "done"}
      BY <1>0, <2>1, EndedShape DEF SettingsTypeOK, EditShape
    <2>3. SettingsTypeOK'
      BY <1>9, <1>0, <2>1, <2>2 DEF PanelRestarts, SettingsTypeOK
    <2>4. \A d \in Directories : HoldsSaid(d)'
      BY <1>9, <1>0 DEF PanelRestarts, HoldsSaid, Opened
    <2>5. QED
      BY <2>2, <2>3, <2>4 DEF SettingsInv, AloneInFile, Underway
  <1>10. CASE UNCHANGED settingsVars
    BY <1>10, <1>0
    DEF settingsVars, SettingsInv, SettingsTypeOK, EditShape, AloneInFile, Underway, Apart, HoldsSaid, Opened
  <1>11. QED
    BY <1>2, <1>3, <1>4, <1>5, <1>6, <1>7, <1>8, <1>9, <1>10 DEF SettingsNext

\* SettingsInv is an invariant.
THEOREM SettingsInvariance == SettingsSpec => []SettingsInv
  <1>1. QED
    BY InitSettings, SettingsInvStep, PTL DEF SettingsSpec

\* SettingsSurvive holds of every number of edits and every format that gives back what is written
\* (FormatAssumption): a file holds, key by key, what the calls that ended well have set in it.
THEOREM SettingsKept == SettingsSpec => []SettingsSurvive
  <1>1. SettingsInv => SettingsSurvive
    BY DEF SettingsInv, SettingsSurvive, HoldsSaid, Opened
  <1>2. QED
    BY <1>1, SettingsInvariance, PTL

\* PendingTellsStale holds of every number of edits: a server that runs with other settings than the
\* file's is announced, apart from the changes of the flag that are named there.
THEOREM StaleAnnounced == SettingsSpec => []PendingTellsStale
  <1>1. SettingsInit => PendingTellsStale
    BY DEF SettingsInit, PendingTellsStale
  <1>2. ASSUME SettingsInv, PendingTellsStale, [SettingsNext]_settingsVars PROVE PendingTellsStale'
    <2>a. /\ edit = [o \in Edits |-> edit[o]] /\ \A o \in Edits : EditShape(o)
      BY <1>2 DEF SettingsInv, SettingsTypeOK
    <2> DEFINE OnTheWay == \E e \in Edits : edit[e].at \in {"opened", "written"}
    <2>1. ASSUME NEW e \in Edits, ReadSettings(e) \/ InitializeConfig(e) PROVE PendingTellsStale'
      <3>1. \E updates, settings : \E marks \in BOOLEAN : Enter(e, updates, settings, marks)
        <4>1. CASE ReadSettings(e)
          <5>1. PICK k \in SettingKeys, t \in Texts :
                   Enter(e, [x \in {k} |-> t], Merge(ini[directory].parsed.settings, [x \in {k} |-> t]), TRUE)
            BY <4>1 DEF ReadSettings
          <5>2. QED
            BY <5>1
        <4>2. CASE InitializeConfig(e)
          <5>1. Enter(e, Defaults, Defaults, FALSE)
            BY <4>2 DEF InitializeConfig
          <5>2. QED
            BY <5>1
        <4>3. QED
          BY <2>1, <4>1, <4>2
      <3>2. edit[e].at = "new" /\ UNCHANGED <<game, pending, missed>>
        BY <2>1 DEF ReadSettings, InitializeConfig, gameVars
      <3>3. \A o \in Edits \ {e} : edit'[o].at = edit[o].at
        <4>1. PICK updates, settings : \E marks \in BOOLEAN : Enter(e, updates, settings, marks)
          BY <3>1
        <4>2. PICK marks \in BOOLEAN : Enter(e, updates, settings, marks)
          BY <4>1
        <4>3. SettingsTypeOK
          BY <1>2 DEF SettingsInv
        <4>4. QED
          BY <4>2, <4>3, Entered
      <3>4. QED
        BY <1>2, <3>2, <3>3 DEF PendingTellsStale
    <2>2. ASSUME NEW e \in Edits, OpenFile(e) PROVE PendingTellsStale'
      <3>1. edit'[e].at = "opened"
        BY <2>2, <2>a DEF OpenFile, EditShape
      <3>2. QED
        BY <3>1 DEF PendingTellsStale
    <2>3. ASSUME NEW e \in Edits, WriteFails(e) PROVE PendingTellsStale'
      BY <1>2, <2>3, <2>a DEF WriteFails, Underway, PendingTellsStale
    <2>4. ASSUME NEW e \in Edits, WriteSettings(e) PROVE PendingTellsStale'
      <3>1. missed' \/ edit'[e].at = "written"
        BY <2>4, <2>a, EndedShape DEF WriteSettings, EditPlaces
      <3>2. QED
        BY <3>1 DEF PendingTellsStale
    <2>5. ASSUME NEW e \in Edits, MarkPending(e) PROVE PendingTellsStale'
      BY <2>5 DEF MarkPending, PendingTellsStale
    <2>6. CASE Launch \/ Relaunch \/ ClearPending \/ Halt \/ RememberDirectory \/ BindDirectory
      BY <1>2, <2>6 DEF Launch, Relaunch, ClearPending, Halt, RememberDirectory, BindDirectory, gameVars, PendingTellsStale
    <2>7. CASE PanelRestarts
      BY <1>2, <2>7 DEF PanelRestarts, PendingTellsStale
    <2>8. CASE UNCHANGED settingsVars
      BY <1>2, <2>8 DEF settingsVars, PendingTellsStale
    <2>9. QED
      BY <1>2, <2>1, <2>2, <2>3, <2>4, <2>5, <2>6, <2>7, <2>8 DEF SettingsNext
  <1>3. QED
    BY <1>1, <1>2, SettingsInvariance, PTL DEF SettingsSpec

-----------------------------------------------------------------------------
(* The setup of Docker. *)

SetupPlaces ==
    {"new", "asking", "asked", "queued", "planning", "planned", "writing", "written", "packages", "load",
     "merge", "restart", "verify", "completed", "failed"}

\* What may be asked for, what a plan may choose then, and what may come into daemon.json.
Asked == {"auto"} \cup Sources \cup Offered
Chosen == {NoScript} \cup UNION {Picks(k, a) : k \in SetupKinds, a \in Asked}
Entries == Own \cup UNION Chosen

SetupRequest ==
    [kind : SetupKinds \cup {"none"}, at : SetupPlaces, asked : Asked,
     chosen : Chosen, runs : Chosen, read : SUBSET Entries]

SetupTypeOK ==
    /\ host \in {"none", "manual", "all"} /\ docker \in {"absent", "down", "up"}
    /\ mirrors \subseteq Entries
    /\ script \in [SetupKinds -> Chosen]
    /\ setup \in [Setups -> SetupRequest]
    /\ \A s \in Setups :
          /\ setup[s].at # "new" => setup[s].kind \in SetupKinds
          /\ setup[s].at = "packages" => setup[s].kind = "install"

\* Two requests write to the same script, or merge at the same time.
Cross(s, o) ==
    \/ setup[s].at \in Using /\ setup[o].at \in Scripting /\ setup[o].kind = setup[s].kind
    \/ setup[s].at = "merge" /\ setup[o].at = "merge"

Ran == {"packages", "load", "merge", "restart", "verify", "completed"}

\* What the mirrors of a request have become once they are in the file: part of what every later
\* merge starts from.
MirrorsStay(s) ==
    setup[s].kind = "mirrors" /\ setup[s].at \in {"restart", "verify", "completed"} =>
        /\ setup[s].chosen \subseteq mirrors
        /\ \A o \in Setups : setup[o].at = "merge" => setup[s].chosen \subseteq setup[o].read

Alone(s) == \A o \in Setups \ {s} : ~Cross(s, o)

Finishes(s) ==
    /\ setup[s].at = "written" => script[setup[s].kind] = setup[s].chosen
    /\ setup[s].at \in Ran => setup[s].runs = setup[s].chosen
    /\ MirrorsStay(s)

SetupInv ==
    /\ SetupTypeOK
    /\ Own \subseteq mirrors
    /\ \A s \in Setups : setup[s].at = "merge" => Own \subseteq setup[s].read
    /\ \A s \in Setups \ met : Alone(s) /\ Finishes(s)

\* What a step of one request is to the others: it changes the script of its own kind only while it
\* is writing it, and the mirrors only when it has merged.
Steps(s) ==
    /\ \A o \in Setups \ {s} : setup'[o] = setup[o]
    /\ \A k \in SetupKinds : \/ script'[k] = script[k]
                             \/ setup[s].at \in Scripting /\ setup[s].kind = k
                             \/ setup'[s].at \in Scripting /\ setup'[s].kind = k
    /\ mirrors' = mirrors \/ (setup[s].at = "merge" /\ mirrors' = setup[s].runs \cup setup[s].read)
    /\ setup'[s].at = "merge" => setup'[s].read = mirrors /\ mirrors' = mirrors

LEMMA OthersKept ==
    ASSUME SetupInv, NEW s \in Setups, SetupTypeOK', Steps(s), Note, NEW o \in Setups \ {s}, o \notin met'
    PROVE  Alone(o)' /\ Finishes(o)'
  <1>1. o \notin met /\ Alone(o)'
    BY DEF Note, Meets, Cross, Alone
  <1>2. Alone(o) /\ Finishes(o)
    BY <1>1 DEF SetupInv
  <1>3. setup'[o] = setup[o] /\ ~Cross(o, s) /\ ~Cross(o, s)'
    BY <1>1, <1>2 DEF Steps, Alone
  <1>4. setup[o].at = "written" => script'[setup[o].kind] = script[setup[o].kind]
    BY <1>3 DEF Steps, Cross, Alone, SetupInv, SetupTypeOK, Using
  <1>5. MirrorsStay(o)'
    BY <1>2, <1>3 DEF MirrorsStay, Steps, Finishes
  <1>6. QED
    BY <1>1, <1>2, <1>3, <1>4, <1>5 DEF Finishes

\* The mirrors of the administrator.
LEMMA OwnKept ==
    ASSUME SetupInv, NEW s \in Setups, Steps(s)
    PROVE  /\ Own \subseteq mirrors'
           /\ \A o \in Setups : setup'[o].at = "merge" => Own \subseteq setup'[o].read
  BY DEF SetupInv, Steps

\* The types, for a step that changes one request.
LEMMA RequestMoves ==
    ASSUME SetupTypeOK, NEW s \in Setups, NEW r \in SetupRequest, setup' = [setup EXCEPT ![s] = r],
           r.at # "new" => r.kind \in SetupKinds, r.at = "packages" => r.kind = "install"
    PROVE  /\ setup' \in [Setups -> SetupRequest] /\ setup'[s] = r
           /\ \A o \in Setups \ {s} : setup'[o] = setup[o]
           /\ \A o \in Setups : /\ setup'[o].at # "new" => setup'[o].kind \in SetupKinds
                                /\ setup'[o].at = "packages" => setup'[o].kind = "install"
  BY DEF SetupTypeOK

\* A request that only moves on.
LEMMA MovesOn ==
    ASSUME SetupTypeOK, NEW s \in Setups, NEW at \in SetupPlaces \ {"packages"}, Move(s, at), setup[s].at # "new"
    PROVE  /\ setup' \in [Setups -> SetupRequest]
           /\ setup'[s].at = at /\ setup'[s].kind = setup[s].kind /\ setup'[s].chosen = setup[s].chosen
           /\ setup'[s].runs = setup[s].runs /\ setup'[s].read = setup[s].read
           /\ \A o \in Setups \ {s} : setup'[o] = setup[o]
           /\ \A o \in Setups : /\ setup'[o].at # "new" => setup'[o].kind \in SetupKinds
                                /\ setup'[o].at = "packages" => setup'[o].kind = "install"
  BY DEF SetupTypeOK, SetupRequest, Move

InFile == {"restart", "verify", "completed"}

\* What a request keeps when it moves on without a new script.
LEMMA FinishesOn ==
    ASSUME NEW s \in Setups, Finishes(s), Steps(s), setup'[s].kind = setup[s].kind,
           setup'[s].chosen = setup[s].chosen, setup'[s].runs = setup[s].runs, setup'[s].at # "written",
           setup'[s].at \in Ran => setup[s].at \in Ran,
           setup'[s].at \in InFile => setup[s].kind # "mirrors" \/ setup[s].at \in InFile
    PROVE  Finishes(s)'
  <1>1. CASE setup[s].at \in InFile
    BY <1>1 DEF Finishes, MirrorsStay, Steps, InFile, Ran
  <1>2. CASE setup[s].at \notin InFile
    BY <1>2 DEF Finishes, MirrorsStay, Steps, InFile, Ran
  <1>3. QED
    BY <1>1, <1>2

LEMMA InitSetup == SetupInit => SetupInv
  <1> SUFFICES ASSUME SetupInit PROVE SetupInv
    OBVIOUS
  <1>1. NoScript \in Chosen /\ "auto" \in Asked /\ mirrors \subseteq Entries /\ {} \subseteq Entries
    BY DEF Chosen, Asked, Entries, SetupInit
  <1>2. [kind |-> "none", at |-> "new", asked |-> "auto", chosen |-> {}, runs |-> {}, read |-> {}] \in SetupRequest
    BY <1>1 DEF SetupRequest, SetupPlaces, NoScript
  <1>3. SetupTypeOK
    BY <1>1, <1>2 DEF SetupInit, SetupTypeOK
  <1>4. QED
    BY <1>3 DEF SetupInit, SetupInv, Alone, Finishes, MirrorsStay, Cross, Using, Scripting, Ran

LEMMA SetupInvStep == SetupInv /\ [SetupNext]_setupVars => SetupInv'
  <1> SUFFICES ASSUME SetupInv, [SetupNext]_setupVars PROVE SetupInv'
    OBVIOUS
  <1>1. ASSUME NEW s \in Setups, SetupStep(s), Note PROVE SetupInv'
    <2> USE DEF SetupPlaces, SetupKinds, Scripting, Using, Ran
    <2>a. SetupTypeOK /\ NoScript \in Chosen
      BY DEF SetupInv, Chosen
    <2>b. \/ s \in met'
          \/ s \notin met' /\ Alone(s) /\ Finishes(s) /\ Alone(s)'
      BY <1>1 DEF Note, Meets, Cross, SetupInv, Alone
    <2>1. SUFFICES SetupTypeOK' /\ Steps(s) /\ (s \notin met' => Finishes(s)')
      BY <1>1, <2>b, OthersKept, OwnKept DEF SetupInv
    <2>2. CASE Ask(s)
      <3>0. PICK k \in SetupKinds, r \in SetupRequest :
               /\ setup' = [setup EXCEPT ![s] = r] /\ r.kind = k
               /\ \/ r.at = "asking" /\ script' = [script EXCEPT ![k] = NoScript]
                  \/ r.at = "asked" /\ script' = script
        <4>1. PICK k \in SetupKinds : \E a \in {"auto"} \cup (IF k = "install" THEN Sources ELSE Offered) : \E c \in Picks(k, a) :
               \/ /\ setup' = [setup EXCEPT ![s] = [@ EXCEPT !.kind = k, !.at = "asking", !.asked = a, !.chosen = c]]
                  /\ script' = [script EXCEPT ![k] = NoScript]
               \/ /\ setup' = [setup EXCEPT ![s] = [@ EXCEPT !.kind = k, !.at = "asked", !.asked = a, !.chosen = c]]
                  /\ script' = script
          BY <2>2 DEF Ask, Empty
        <4>2. PICK a \in Asked : \E c \in Picks(k, a) :
               \/ /\ setup' = [setup EXCEPT ![s] = [@ EXCEPT !.kind = k, !.at = "asking", !.asked = a, !.chosen = c]]
                  /\ script' = [script EXCEPT ![k] = NoScript]
               \/ /\ setup' = [setup EXCEPT ![s] = [@ EXCEPT !.kind = k, !.at = "asked", !.asked = a, !.chosen = c]]
                  /\ script' = script
          BY <4>1 DEF Asked
        <4>3. PICK c \in Chosen :
               \/ /\ setup' = [setup EXCEPT ![s] = [@ EXCEPT !.kind = k, !.at = "asking", !.asked = a, !.chosen = c]]
                  /\ script' = [script EXCEPT ![k] = NoScript]
               \/ /\ setup' = [setup EXCEPT ![s] = [@ EXCEPT !.kind = k, !.at = "asked", !.asked = a, !.chosen = c]]
                  /\ script' = script
          <5>1. PICK c \in Picks(k, a) :
               \/ /\ setup' = [setup EXCEPT ![s] = [@ EXCEPT !.kind = k, !.at = "asking", !.asked = a, !.chosen = c]]
                  /\ script' = [script EXCEPT ![k] = NoScript]
               \/ /\ setup' = [setup EXCEPT ![s] = [@ EXCEPT !.kind = k, !.at = "asked", !.asked = a, !.chosen = c]]
                  /\ script' = script
            BY <4>2
          <5>2. c \in Chosen
            BY DEF Chosen
          <5>3. QED
            BY <5>1, <5>2
        <4>4. ASSUME NEW at \in {"asking", "asked"}
              PROVE  /\ [setup[s] EXCEPT !.kind = k, !.at = at, !.asked = a, !.chosen = c] \in SetupRequest
                     /\ [setup[s] EXCEPT !.kind = k, !.at = at, !.asked = a, !.chosen = c].at = at
                     /\ [setup[s] EXCEPT !.kind = k, !.at = at, !.asked = a, !.chosen = c].kind = k
          BY <2>a DEF SetupTypeOK, SetupRequest
        <4>5. CASE /\ setup' = [setup EXCEPT ![s] = [@ EXCEPT !.kind = k, !.at = "asking", !.asked = a, !.chosen = c]]
                   /\ script' = [script EXCEPT ![k] = NoScript]
          BY <4>4, <4>5
        <4>6. CASE /\ setup' = [setup EXCEPT ![s] = [@ EXCEPT !.kind = k, !.at = "asked", !.asked = a, !.chosen = c]]
                   /\ script' = script
          BY <4>4, <4>6
        <4>7. QED
          BY <4>3, <4>5, <4>6
      <3>1. SetupTypeOK'
        BY <2>2, <3>0, RequestMoves, <2>a DEF Ask, Empty, SetupTypeOK
      <3>2. Steps(s)
        BY <2>2, <3>0, RequestMoves, <2>a DEF Ask, Empty, Steps, SetupTypeOK
      <3>3. ASSUME s \notin met' PROVE Finishes(s)'
        BY <2>2, <3>0, RequestMoves, <2>b, <3>2, <3>3 DEF Ask, Empty, Finishes, MirrorsStay, SetupTypeOK, Steps
      <3>4. QED
        BY <3>1, <3>2, <3>3
    <2>3. CASE Fill(s)
      <3>0. PICK at \in {"asked", "planned", "written"} : Move(s, at)
        BY <2>3 DEF Fill
      <3>1. SetupTypeOK'
        <4>1. setup[s] \in SetupRequest /\ setup[s].chosen \in Chosen
          BY <2>a DEF SetupTypeOK, SetupRequest
        <4>2. QED
          BY <2>3, <3>0, MovesOn, <2>a, <4>1 DEF Fill, SetupTypeOK
      <3>2. Steps(s)
        BY <2>3, <3>0, MovesOn, <2>a DEF Fill, Empty, Steps, SetupTypeOK
      <3>3. ASSUME s \notin met' PROVE Finishes(s)'
        <4>1. CASE setup[s].at = "writing"
          <5>1. setup'[s].at = "written"
            BY <2>3, <4>1, <2>a DEF Fill, Move, SetupTypeOK
          <5>2. setup'[s].kind = setup[s].kind /\ setup'[s].chosen = setup[s].chosen /\ setup[s].kind \in SetupKinds
            BY <2>3, <3>0, MovesOn, <2>a DEF Fill, SetupTypeOK
          <5>3. script'[setup[s].kind] = setup[s].chosen
            BY <2>3, <5>2, <2>a DEF Fill, SetupTypeOK
          <5>4. QED
            BY <5>1, <5>2, <5>3 DEF Finishes, MirrorsStay
        <4>2. CASE setup[s].at # "writing"
          <5>1. setup'[s].at \in {"asked", "planned"}
            BY <2>3, <4>2, <2>a DEF Fill, Move, SetupTypeOK
          <5>2. QED
            BY <5>1 DEF Finishes, MirrorsStay
        <4>3. QED
          BY <4>1, <4>2
      <3>4. QED
        BY <3>1, <3>2, <3>3
    <2>4. CASE SubmitSetup(s)
      <3>0. PICK at \in {"queued", "failed"} : Move(s, at)
        BY <2>4 DEF SubmitSetup
      <3>1. SetupTypeOK'
        BY <2>4, <3>0, MovesOn, <2>a DEF SubmitSetup, Empty, SetupTypeOK
      <3>2. Steps(s)
        BY <2>4, <3>0, MovesOn, <2>a DEF SubmitSetup, Empty, Steps, SetupTypeOK
      <3>3. ASSUME s \notin met' PROVE Finishes(s)'
        BY <2>4, <3>0, MovesOn, <2>b, <3>2, <3>3, FinishesOn, <2>a DEF SubmitSetup, InFile, SetupTypeOK
      <3>4. QED
        BY <3>1, <3>2, <3>3
    <2>5. CASE Replan(s)
      <3>0. PICK r \in SetupRequest :
               /\ setup' = [setup EXCEPT ![s] = r] /\ r.kind = setup[s].kind
               /\ \/ r.at = "planning" /\ script' = [script EXCEPT ![setup[s].kind] = NoScript]
                  \/ r.at = "planned" /\ script' = script
        <4>1. PICK c \in Picks(setup[s].kind, setup[s].asked) :
               \/ /\ setup' = [setup EXCEPT ![s].at = "planning", ![s].chosen = c]
                  /\ script' = [script EXCEPT ![setup[s].kind] = NoScript]
               \/ /\ setup' = [setup EXCEPT ![s].at = "planned", ![s].chosen = c]
                  /\ script' = script
          BY <2>5 DEF Replan, Empty
        <4>2. c \in Chosen
          BY <2>5, <2>a DEF Chosen, Replan, SetupTypeOK, SetupRequest
        <4>3. ASSUME NEW at \in {"planning", "planned"}
              PROVE  /\ [setup[s] EXCEPT !.at = at, !.chosen = c] \in SetupRequest
                     /\ [setup[s] EXCEPT !.at = at, !.chosen = c].at = at
                     /\ [setup[s] EXCEPT !.at = at, !.chosen = c].kind = setup[s].kind
                     /\ [setup EXCEPT ![s].at = at, ![s].chosen = c] = [setup EXCEPT ![s] = [setup[s] EXCEPT !.at = at, !.chosen = c]]
          BY <2>a, <4>2 DEF SetupTypeOK, SetupRequest
        <4>4. QED
          BY <4>1, <4>3
      <3>1. SetupTypeOK'
        BY <2>5, <3>0, RequestMoves, <2>a DEF Replan, Empty, SetupTypeOK
      <3>2. Steps(s)
        BY <2>5, <3>0, RequestMoves, <2>a DEF Replan, Empty, Steps, SetupTypeOK
      <3>3. ASSUME s \notin met' PROVE Finishes(s)'
        BY <2>5, <3>0, RequestMoves, <2>b, <3>2, <3>3 DEF Replan, Empty, Finishes, MirrorsStay, SetupTypeOK, Steps
      <3>4. QED
        BY <3>1, <3>2, <3>3
    <2>6. CASE WriteScript(s)
      <3>0. \/ Move(s, "writing") /\ script' = [script EXCEPT ![setup[s].kind] = NoScript]
            \/ Move(s, "failed") /\ script' = script
        BY <2>6 DEF WriteScript, Empty
      <3>1. SetupTypeOK'
        BY <2>6, <3>0, MovesOn, <2>a DEF WriteScript, Empty, SetupTypeOK
      <3>2. Steps(s)
        BY <2>6, <3>0, MovesOn, <2>a DEF WriteScript, Empty, Steps, SetupTypeOK
      <3>3. ASSUME s \notin met' PROVE Finishes(s)'
        BY <2>6, <3>0, MovesOn, <2>b, <3>2, <3>3, FinishesOn, <2>a DEF WriteScript, InFile, SetupTypeOK
      <3>4. QED
        BY <3>1, <3>2, <3>3
    <2>7. CASE RunScript(s)
      <3>0. PICK r \in SetupRequest :
               /\ setup' = [setup EXCEPT ![s] = r] /\ r.kind = setup[s].kind /\ r.chosen = setup[s].chosen
               /\ r.runs = script[setup[s].kind] /\ r.read = setup[s].read
               /\ r.at \in {"verify", "packages", "load"}
               /\ r.at = "packages" => r.kind = "install"
               /\ r.at = "verify" => r.runs = NoScript
        <4>1. script[setup[s].kind] \in Chosen /\ setup[s] \in SetupRequest
          BY <2>7, <2>a DEF RunScript, SetupTypeOK
        <4>2. PICK at \in {"verify", "packages", "load"} :
                 /\ at = "packages" => setup[s].kind = "install"
                 /\ at = "verify" => script[setup[s].kind] = NoScript
                 /\ setup' = [setup EXCEPT ![s] = [setup[s] EXCEPT !.runs = script[setup[s].kind], !.at = at]]
          BY <2>7, <2>a DEF RunScript, SetupTypeOK, SetupRequest
        <4>3. [setup[s] EXCEPT !.runs = script[setup[s].kind], !.at = at] \in SetupRequest
          BY <4>1 DEF SetupRequest
        <4>4. QED
          BY <4>1, <4>2, <4>3 DEF SetupRequest
      <3>1. SetupTypeOK'
        BY <2>7, <3>0, RequestMoves, <2>a DEF RunScript, Empty, SetupTypeOK
      <3>2. Steps(s)
        BY <2>7, <3>0, RequestMoves, <2>a DEF RunScript, Empty, Steps, SetupTypeOK
      <3>3. ASSUME s \notin met' PROVE Finishes(s)'
        <4>1. setup'[s] = r /\ script[setup[s].kind] = setup[s].chosen
          BY <2>7, <2>a, <2>b, <3>0, <3>3 DEF RunScript, SetupTypeOK, Finishes
        <4>2. r.at # "written" /\ r.runs = r.chosen
          BY <3>0, <4>1
        <4>3. r.at \in {"restart", "verify", "completed"} => r.chosen = {}
          BY <3>0, <4>2 DEF NoScript
        <4>4. QED
          BY <4>1, <4>2, <4>3 DEF Finishes, MirrorsStay
      <3>4. QED
        BY <3>1, <3>2, <3>3
    <2>8. CASE ScriptFails(s)
      <3>0. PICK at \in {"failed"} : Move(s, at)
        BY <2>8 DEF ScriptFails
      <3>1. SetupTypeOK'
        BY <2>8, <3>0, MovesOn, <2>a DEF ScriptFails, Empty, SetupTypeOK
      <3>2. Steps(s)
        BY <2>8, <3>0, MovesOn, <2>a DEF ScriptFails, Empty, Steps, SetupTypeOK
      <3>3. ASSUME s \notin met' PROVE Finishes(s)'
        BY <2>8, <3>0, MovesOn, <2>b, <3>2, <3>3, FinishesOn, <2>a DEF ScriptFails, InFile, SetupTypeOK
      <3>4. QED
        BY <3>1, <3>2, <3>3
    <2>9. CASE InstallPackages(s)
      <3>0. PICK at \in {"verify"} : Move(s, at)
        BY <2>9 DEF InstallPackages
      <3>1. SetupTypeOK'
        BY <2>9, <3>0, MovesOn, <2>a DEF InstallPackages, Empty, SetupTypeOK
      <3>2. Steps(s)
        BY <2>9, <3>0, MovesOn, <2>a DEF InstallPackages, Empty, Steps, SetupTypeOK
      <3>3. ASSUME s \notin met' PROVE Finishes(s)'
        BY <2>9, <3>0, MovesOn, <2>b, <3>2, <3>3, FinishesOn, <2>a DEF InstallPackages, InFile, SetupTypeOK
      <3>4. QED
        BY <3>1, <3>2, <3>3
    <2>10. CASE LoadMirrors(s)
      <3>0. PICK r \in SetupRequest :
               /\ setup' = [setup EXCEPT ![s] = r] /\ r.kind = setup[s].kind /\ r.chosen = setup[s].chosen
               /\ r.runs = setup[s].runs /\ r.read = mirrors /\ r.at = "merge"
        <4>1. mirrors \in SUBSET Entries /\ setup[s] \in SetupRequest
          BY <2>a DEF SetupTypeOK
        <4>2. setup' = [setup EXCEPT ![s] = [setup[s] EXCEPT !.at = "merge", !.read = mirrors]]
          BY <2>10, <2>a DEF LoadMirrors, SetupTypeOK, SetupRequest
        <4>3. [setup[s] EXCEPT !.at = "merge", !.read = mirrors] \in SetupRequest
          BY <4>1 DEF SetupRequest
        <4>4. QED
          BY <4>1, <4>2, <4>3 DEF SetupRequest
      <3>1. SetupTypeOK'
        BY <2>10, <3>0, RequestMoves, <2>a DEF LoadMirrors, Empty, SetupTypeOK
      <3>2. Steps(s)
        BY <2>10, <3>0, RequestMoves, <2>a DEF LoadMirrors, Empty, Steps, SetupTypeOK
      <3>3. ASSUME s \notin met' PROVE Finishes(s)'
        BY <2>10, <3>0, RequestMoves, <2>b, <3>2, <3>3, FinishesOn, <2>a DEF LoadMirrors, InFile, SetupTypeOK
      <3>4. QED
        BY <3>1, <3>2, <3>3
    <2>11. CASE MergeMirrors(s)
      <3>0. PICK at \in {"restart"} : Move(s, at)
        BY <2>11 DEF MergeMirrors
      <3>1. SetupTypeOK'
        <4>1. setup[s].runs \in Chosen /\ setup[s].read \subseteq Entries
          BY <2>a DEF SetupTypeOK, SetupRequest
        <4>2. setup[s].runs \subseteq Entries
          BY <4>1 DEF Entries
        <4>3. QED
          BY <2>11, <3>0, MovesOn, <2>a, <4>1, <4>2 DEF MergeMirrors, SetupTypeOK
      <3>2. Steps(s)
        BY <2>11, <3>0, MovesOn, <2>a DEF MergeMirrors, Empty, Steps, SetupTypeOK
      <3>3. ASSUME s \notin met' PROVE Finishes(s)'
        <4>1. setup'[s].at = "restart" /\ setup'[s].chosen = setup[s].chosen /\ setup'[s].runs = setup[s].runs
          BY <2>11, <3>0, MovesOn, <2>a DEF MergeMirrors
        <4>2. setup[s].runs = setup[s].chosen /\ setup[s].chosen \subseteq mirrors'
          BY <2>11, <2>b, <3>3 DEF MergeMirrors, Finishes
        <4>3. \A o \in Setups : setup'[o].at # "merge"
          BY <2>11, <2>b, <3>2, <3>3, <4>1 DEF MergeMirrors, Alone, Cross, Steps
        <4>4. QED
          BY <4>1, <4>2, <4>3 DEF Finishes, MirrorsStay
      <3>4. QED
        BY <3>1, <3>2, <3>3
    <2>12. CASE RestartDocker(s)
      <3>0. PICK at \in {"verify"} : Move(s, at)
        BY <2>12 DEF RestartDocker
      <3>1. SetupTypeOK'
        BY <2>12, <3>0, MovesOn, <2>a DEF RestartDocker, Empty, SetupTypeOK
      <3>2. Steps(s)
        BY <2>12, <3>0, MovesOn, <2>a DEF RestartDocker, Empty, Steps, SetupTypeOK
      <3>3. ASSUME s \notin met' PROVE Finishes(s)'
        BY <2>12, <3>0, MovesOn, <2>b, <3>2, <3>3, FinishesOn, <2>a DEF RestartDocker, InFile, SetupTypeOK
      <3>4. QED
        BY <3>1, <3>2, <3>3
    <2>13. CASE Verify(s)
      <3>0. PICK at \in {"completed", "failed"} : Move(s, at)
        BY <2>13 DEF Verify
      <3>1. SetupTypeOK'
        BY <2>13, <3>0, MovesOn, <2>a DEF Verify, Empty, SetupTypeOK
      <3>2. Steps(s)
        BY <2>13, <3>0, MovesOn, <2>a DEF Verify, Empty, Steps, SetupTypeOK
      <3>3. ASSUME s \notin met' PROVE Finishes(s)'
        BY <2>13, <3>0, MovesOn, <2>b, <3>2, <3>3, FinishesOn, <2>a DEF Verify, InFile, SetupTypeOK
      <3>4. QED
        BY <3>1, <3>2, <3>3
    <2>14. QED
      BY <1>1, <2>2, <2>3, <2>4, <2>5, <2>6, <2>7, <2>8, <2>9, <2>10, <2>11, <2>12, <2>13 DEF SetupStep
  <1>2. CASE UNCHANGED setupVars
    BY <1>2 DEF setupVars, SetupInv, SetupTypeOK, Alone, Finishes, MirrorsStay, Cross
  <1>3. QED
    BY <1>1, <1>2 DEF SetupNext

\* SetupInv is an invariant.
THEOREM SetupInvariance == SetupSpec => []SetupInv
  <1>1. QED
    BY InitSetup, SetupInvStep, PTL DEF SetupSpec

\* SetupHolds holds of every number of requests, sources and mirrors: a job that completed has run
\* its own last plan and its mirrors stay, unless its script or its merge met another one; the
\* administrator's own mirrors always stay.
THEOREM SetupKept == SetupSpec => []SetupHolds
  <1>1. SetupInv => SetupHolds
    BY DEF SetupInv, SetupHolds, Finishes, MirrorsStay, Ran
  <1>2. QED
    BY <1>1, SetupInvariance, PTL

-----------------------------------------------------------------------------
(* The translation. *)

\* What a field may hold, and what is left of the fields while they are read.
Values == Updates \cup Talks \cup {Unset}
Config == [FieldSet -> Values]
Suffixes == {Fields, <<"model", "key", "http">>, <<"key", "http">>, <<"http">>, <<>>}
Among(f, fields) == \E i \in 1 .. Len(fields) : fields[i] = f

UpdateCall == [at : 0 .. 6, asks : AskedSets \cup {{}}, next : Config]
TalkCall ==
    [kind : {"none", "config", "cached", "test", "translate", "again"}, at : {"new", "read", "ready", "request", "done"},
     got : Config, left : Suffixes]

TranslationTypeOK ==
    /\ held \in Config /\ meant \in Config /\ began \in [Talks -> Config]
    /\ halfway \in BOOLEAN
    /\ upd \in [Updates -> UpdateCall]
    /\ talk \in [Talks -> TalkCall]

\* The mutex: who holds it is between its first field and its end, and nobody else is.
MutexHeld ==
    /\ \A u \in Updates : u \in busy <=> upd[u].at \in 1 .. 5
    /\ \A u, v \in busy : u = v

\* The fields before the one an update is at have the values it has for them, the others those of
\* the updates before it; what it does not ask for is the same in both.
Underwrites(u, i) ==
    LET f == Fields[i] IN
    /\ f \notin upd[u].asks => upd[u].next[f] = meant[f]
    /\ held[f] = IF i < upd[u].at /\ f \in upd[u].asks THEN upd[u].next[f] ELSE meant[f]

HeldIsMeant ==
    ~halfway =>
        /\ busy = {} => held = meant
        /\ \A u \in busy : \A i \in 1 .. 4 : Underwrites(u, i)

\* A call that nobody met while it reads: what it has read and what it will read are of one piece.
CalmTalk(t) ==
    /\ Reading(t) => /\ busy = {} /\ ~halfway /\ began[t] = held
                     /\ \A f \in FieldSet : Among(f, talk[t].left) \/ talk[t].got[f] = began[t][f]
    /\ talk[t].at = "ready" => talk[t].got = began[t]

TranslationInv ==
    /\ TranslationTypeOK /\ MutexHeld /\ HeldIsMeant
    /\ \A t \in Talks : /\ talk[t].at = "new" => talk[t].left = Fields
                        /\ t \in shaken \/ CalmTalk(t)

LEMMA FieldFacts ==
    /\ Len(Fields) = 4 /\ Written = 5
    /\ FieldSet = {"base", "model", "key", "http"}
    /\ \A i \in 1 .. 4 : Fields[i] \in FieldSet
    /\ \A i, j \in 1 .. 4 : Fields[i] = Fields[j] => i = j
    /\ \A f \in FieldSet : \E i \in 1 .. 4 : Fields[i] = f
    /\ Fields[1] = "base" /\ Fields[2] = "model" /\ Fields[3] = "key" /\ Fields[4] = "http"
  <1>1. Len(Fields) = 4 /\ Fields[1] = "base" /\ Fields[2] = "model" /\ Fields[3] = "key" /\ Fields[4] = "http"
    BY DEF Fields
  <1>2. FieldSet = {"base", "model", "key", "http"}
    <2>1. FieldSet = {Fields[i] : i \in 1 .. 4}
      BY <1>1 DEF FieldSet
    <2>2. \A i \in 1 .. 4 : i = 1 \/ i = 2 \/ i = 3 \/ i = 4
      OBVIOUS
    <2>3. QED
      BY <1>1, <2>1, <2>2
  <1>3. QED
    BY <1>1, <1>2 DEF Written

\* The fields are read from the first to the last.
LEMMA ReadInOrder ==
    ASSUME NEW l \in Suffixes
    PROVE  /\ Fields \in Suffixes /\ <<>> \in Suffixes
           /\ \A f \in FieldSet : Among(f, Fields) /\ ~Among(f, <<>>)
           /\ l # <<>> => /\ Head(l) \in FieldSet /\ Tail(l) \in Suffixes
                          /\ \A f : Among(f, l) => f = Head(l) \/ Among(f, Tail(l))
  <1>1. Fields \in Suffixes /\ <<>> \in Suffixes
    BY DEF Suffixes
  <1>2. \A f \in FieldSet : Among(f, Fields) /\ ~Among(f, <<>>)
    BY FieldFacts DEF Among
  <1>3. Fields = <<"base", "model", "key", "http">>
    BY DEF Fields
  <1> DEFINE m == Tail(l)
  <1>4. CASE l = <<"base", "model", "key", "http">>
    <2>1. Len(l) = 4 /\ l[1] = "base" /\ l[2] = "model" /\ l[3] = "key" /\ l[4] = "http" /\ Head(l) = "base"
      BY <1>4
    <2>2. m = <<"model", "key", "http">>
      BY <1>4
    <2> HIDE DEF m
    <2>3. m[1] = "model" /\ m[2] = "key" /\ m[3] = "http" /\ Len(m) = 3
      BY <2>2
    <2>4. \A f : Among(f, l) => f = Head(l) \/ Among(f, m)
      BY <2>1, <2>3 DEF Among
    <2>5. QED
      BY <1>1, <1>2, <2>1, <2>2, <2>4, FieldFacts DEF Suffixes, m
  <1>5. CASE l = <<"model", "key", "http">>
    <2>1. Len(l) = 3 /\ l[1] = "model" /\ l[2] = "key" /\ l[3] = "http" /\ Head(l) = "model"
      BY <1>5
    <2>2. m = <<"key", "http">>
      BY <1>5
    <2> HIDE DEF m
    <2>3. m[1] = "key" /\ m[2] = "http" /\ Len(m) = 2
      BY <2>2
    <2>4. \A f : Among(f, l) => f = Head(l) \/ Among(f, m)
      BY <2>1, <2>3 DEF Among
    <2>5. QED
      BY <1>1, <1>2, <2>1, <2>2, <2>4, FieldFacts DEF Suffixes, m
  <1>6. CASE l = <<"key", "http">>
    <2>1. Len(l) = 2 /\ l[1] = "key" /\ l[2] = "http" /\ Head(l) = "key"
      BY <1>6
    <2>2. m = <<"http">>
      BY <1>6
    <2> HIDE DEF m
    <2>3. m[1] = "http" /\ Len(m) = 1
      BY <2>2
    <2>4. \A f : Among(f, l) => f = Head(l) \/ Among(f, m)
      BY <2>1, <2>3 DEF Among
    <2>5. QED
      BY <1>1, <1>2, <2>1, <2>2, <2>4, FieldFacts DEF Suffixes, m
  <1>7. CASE l = <<"http">>
    <2>1. Len(l) = 1 /\ l[1] = "http" /\ Head(l) = "http"
      BY <1>7
    <2>2. Tail(l) = <<>>
      BY <1>7
    <2>3. \A f : Among(f, l) => f = Head(l)
      BY <2>1 DEF Among
    <2>4. QED
      BY <1>1, <1>2, <2>1, <2>2, <2>3, FieldFacts DEF Suffixes
  <1>8. QED
    BY <1>1, <1>2, <1>3, <1>4, <1>5, <1>6, <1>7 DEF Suffixes

LEMMA InitTranslation == TranslationInit => TranslationInv
  <1> SUFFICES ASSUME TranslationInit PROVE TranslationInv
    OBVIOUS
  <1>1. Blank \in Config
    BY DEF Blank, Config, Values
  <1>2. Fields \in Suffixes
    BY DEF Suffixes
  <1>3. TranslationTypeOK
    <2>1. [at |-> 0, asks |-> {}, next |-> Blank] \in UpdateCall
      BY <1>1 DEF UpdateCall
    <2>2. [kind |-> "none", at |-> "new", got |-> Blank, left |-> Fields] \in TalkCall
      BY <1>1, <1>2 DEF TalkCall
    <2>3. QED
      BY <1>1, <2>1, <2>2 DEF TranslationInit, TranslationTypeOK
  <1>4. MutexHeld /\ HeldIsMeant
    BY DEF TranslationInit, MutexHeld, HeldIsMeant
  <1>5. QED
    BY <1>3, <1>4 DEF TranslationInit, TranslationInv, CalmTalk, Reading

LEMMA TranslationInvStep == TranslationInv /\ [TranslationNext]_translationVars => TranslationInv'
  <1> SUFFICES ASSUME TranslationInv, [TranslationNext]_translationVars PROVE TranslationInv'
    OBVIOUS
  <1>0. TranslationTypeOK /\ MutexHeld /\ HeldIsMeant
    BY DEF TranslationInv
  <1>a. \A t \in Talks : t \in shaken \/ CalmTalk(t)
    BY DEF TranslationInv
  <1>b. \A t \in Talks : talk[t].at = "new" => talk[t].left = Fields
    BY DEF TranslationInv
  <1>1. ASSUME NEW u \in Updates, BeginUpdate(u) PROVE TranslationInv'
    <2>1. PICK asks \in AskedSets : \E clear \in SUBSET (asks \cap {"key"}) :
             upd' = [upd EXCEPT ![u] = [at |-> 1, asks |-> asks, next |-> Applied(u, asks, clear, held)]]
      BY <1>1 DEF BeginUpdate
    <2>2. PICK clear \in SUBSET (asks \cap {"key"}) :
             upd' = [upd EXCEPT ![u] = [at |-> 1, asks |-> asks, next |-> Applied(u, asks, clear, held)]]
      BY <2>1
    <2> DEFINE next == Applied(u, asks, clear, held)
    <2>3. next \in Config /\ \A f \in FieldSet : f \notin asks => next[f] = held[f]
      BY <1>0 DEF Applied, Config, Values, TranslationTypeOK
    <2>4. upd'[u] = [at |-> 1, asks |-> asks, next |-> next] /\ upd'[u].at = 1 /\ upd'[u].asks = asks /\ upd'[u].next = next
      BY <2>2, <1>0 DEF TranslationTypeOK
    <2>5. TranslationTypeOK'
      BY <1>1, <1>0, <2>2, <2>3 DEF BeginUpdate, TranslationTypeOK, UpdateCall
    <2>6. busy' = {u} /\ MutexHeld'
      BY <1>1, <1>0, <2>2, <2>4 DEF BeginUpdate, TranslationTypeOK, MutexHeld
    <2>7. HeldIsMeant'
      <3>1. SUFFICES ASSUME ~halfway, NEW i \in 1 .. 4 PROVE Underwrites(u, i)'
        BY <1>1, <2>6 DEF HeldIsMeant, BeginUpdate
      <3>2. held = meant /\ UNCHANGED <<held, meant>>
        BY <1>1, <1>0, <3>1 DEF HeldIsMeant, BeginUpdate
      <3>3. QED
        BY <3>2, <2>3, <2>4, FieldFacts DEF Underwrites
    <2>8. \A t \in Talks : t \in shaken' \/ CalmTalk(t)'
      BY <1>1, <1>a DEF BeginUpdate, CalmTalk, Reading
    <2>9. QED
      BY <1>1, <1>b, <2>5, <2>6, <2>7, <2>8 DEF BeginUpdate, TranslationInv
  <1>2. ASSUME NEW u \in Updates, WriteField(u) PROVE TranslationInv'
    <2> DEFINE i == upd[u].at
               f == Fields[i]
    <2>1. i \in 1 .. 4 /\ f \in FieldSet /\ u \in busy /\ busy # {}
      BY <1>2, <1>0, FieldFacts DEF WriteField, MutexHeld
    <2>2. /\ upd'[u].at = i + 1 /\ upd'[u].asks = upd[u].asks /\ upd'[u].next = upd[u].next
          /\ \A v \in Updates \ {u} : upd'[v] = upd[v]
          /\ upd' \in [Updates -> UpdateCall]
      BY <1>2, <1>0, <2>1 DEF WriteField, TranslationTypeOK, UpdateCall
    <2>3. upd[u].next \in Config
      BY <1>0 DEF TranslationTypeOK, UpdateCall
    <2>4. TranslationTypeOK'
      BY <1>2, <1>0, <2>1, <2>2, <2>3 DEF WriteField, TranslationTypeOK, Config
    <2>5. MutexHeld'
      BY <1>2, <1>0, <2>1, <2>2 DEF WriteField, MutexHeld
    <2>6. HeldIsMeant'
      <3>1. SUFFICES ASSUME ~halfway, NEW j \in 1 .. 4 PROVE Underwrites(u, j)'
        BY <1>2, <1>0, <2>1 DEF HeldIsMeant, WriteField, MutexHeld
      <3>2. Underwrites(u, j) /\ Underwrites(u, i)
        BY <1>0, <2>1, <3>1 DEF HeldIsMeant
      <3>3. Fields[j] \in FieldSet /\ (Fields[j] = f => j = i)
        BY <2>1, FieldFacts
      <3>4. CASE Writes(u, f)
        <4>1. held' = [held EXCEPT ![f] = upd[u].next[f]] /\ meant' = meant
          BY <1>2, <3>4 DEF WriteField
        <4>2. held'[f] = upd[u].next[f] /\ (j # i => held'[Fields[j]] = held[Fields[j]])
          BY <4>1, <2>1, <3>3, <1>0 DEF TranslationTypeOK, Config
        <4>3. CASE j = i
          BY <4>1, <4>2, <4>3, <3>2, <2>1, <2>2 DEF Underwrites
        <4>4. CASE j # i
          BY <4>1, <4>2, <4>4, <3>2, <2>1, <2>2 DEF Underwrites
        <4>5. QED
          BY <4>3, <4>4
      <3>5. CASE ~Writes(u, f)
        <4>1. held' = held /\ meant' = meant /\ f \notin upd[u].asks
          BY <1>2, <3>5 DEF WriteField, Writes
        <4>2. CASE j = i
          BY <4>1, <4>2, <3>2, <2>1, <2>2 DEF Underwrites
        <4>3. CASE j # i
          BY <4>1, <4>3, <3>2, <2>1, <2>2 DEF Underwrites
        <4>4. QED
          BY <4>2, <4>3
      <3>6. QED
        BY <3>4, <3>5
    <2>7. \A t \in Talks : t \in shaken' \/ CalmTalk(t)'
      BY <1>2, <1>a, <2>1 DEF WriteField, CalmTalk, Reading
    <2>8. QED
      BY <1>2, <1>b, <2>4, <2>5, <2>6, <2>7 DEF WriteField, TranslationInv
  <1>3. ASSUME NEW u \in Updates, EndHalfway(u) PROVE TranslationInv'
    <2> DEFINE f == Fields[upd[u].at]
    <2>1. upd[u].at \in 1 .. 4 /\ f \in FieldSet /\ busy = {u} /\ busy' = {}
      BY <1>3, <1>0, FieldFacts DEF EndHalfway, MutexHeld
    <2>2. /\ upd'[u].at = 6
          /\ \A v \in Updates \ {u} : upd'[v] = upd[v]
          /\ upd' \in [Updates -> UpdateCall]
      BY <1>3, <1>0, FieldFacts DEF EndHalfway, TranslationTypeOK, UpdateCall
    <2>3. held' \in Config
      <3>1. upd[u].next \in Config /\ held \in Config
        BY <1>0 DEF TranslationTypeOK, UpdateCall
      <3>2. held' = held \/ held' = [held EXCEPT ![f] = upd[u].next[f]]
        BY <1>3 DEF EndHalfway
      <3>3. QED
        BY <3>1, <3>2, <2>1 DEF Config
    <2>4. TranslationTypeOK'
      BY <1>3, <1>0, <2>2, <2>3 DEF EndHalfway, TranslationTypeOK
    <2>5. MutexHeld'
      BY <1>0, <2>1, <2>2 DEF MutexHeld
    <2>6. HeldIsMeant'
      BY <1>3, <2>1 DEF EndHalfway, HeldIsMeant
    <2>7. \A t \in Talks : t \in shaken' \/ CalmTalk(t)'
      BY <1>3, <1>a, <2>1 DEF EndHalfway, CalmTalk, Reading
    <2>8. QED
      BY <1>3, <1>b, <2>4, <2>5, <2>6, <2>7 DEF EndHalfway, TranslationInv
  <1>4. ASSUME NEW u \in Updates, EndUpdate(u) PROVE TranslationInv'
    <2>1. upd[u].at = 5 /\ busy = {u} /\ busy' = {}
      BY <1>4, <1>0, FieldFacts DEF EndUpdate, MutexHeld
    <2>2. /\ upd'[u].at = 6
          /\ \A v \in Updates \ {u} : upd'[v] = upd[v]
          /\ upd' \in [Updates -> UpdateCall]
      BY <1>4, <1>0, FieldFacts DEF EndUpdate, TranslationTypeOK, UpdateCall
    <2>3. meant' = held
      <3>1. CASE halfway
        BY <1>4, <3>1 DEF EndUpdate
      <3>2. CASE ~halfway
        <4>1. \A i \in 1 .. 4 : Underwrites(u, i)
          BY <1>0, <2>1, <3>2 DEF HeldIsMeant
        <4>2. \A g \in FieldSet : held[g] = IF g \in upd[u].asks THEN upd[u].next[g] ELSE meant[g]
          BY <4>1, <2>1, FieldFacts DEF Underwrites
        <4>3. QED
          BY <1>4, <1>0, <3>2, <4>2 DEF EndUpdate, TranslationTypeOK, Config
      <3>3. QED
        BY <3>1, <3>2
    <2>4. TranslationTypeOK'
      BY <1>4, <1>0, <2>2, <2>3 DEF EndUpdate, TranslationTypeOK
    <2>5. MutexHeld'
      BY <1>0, <2>1, <2>2 DEF MutexHeld
    <2>6. HeldIsMeant'
      BY <1>4, <2>1, <2>3 DEF EndUpdate, HeldIsMeant
    <2>7. \A t \in Talks : t \in shaken' \/ CalmTalk(t)'
      BY <1>4, <1>a, <2>1 DEF EndUpdate, CalmTalk, Reading
    <2>8. QED
      BY <1>4, <1>b, <2>4, <2>5, <2>6, <2>7 DEF EndUpdate, TranslationInv
  <1>5. ASSUME NEW t \in Talks, BeginTalk(t) PROVE TranslationInv'
    <2>1. PICK k \in {"config", "cached", "test", "translate", "again"} :
             talk' = [talk EXCEPT ![t].kind = k, ![t].at = "read"]
      BY <1>5 DEF BeginTalk
    <2>2. /\ talk'[t].at = "read" /\ talk'[t].left = talk[t].left /\ talk'[t].got = talk[t].got
          /\ \A o \in Talks \ {t} : talk'[o] = talk[o]
          /\ talk' \in [Talks -> TalkCall]
      BY <1>0, <2>1 DEF TranslationTypeOK, TalkCall
    <2>3. talk[t].left = Fields
      BY <1>5, <1>b DEF BeginTalk
    <2>4. TranslationTypeOK' /\ MutexHeld' /\ HeldIsMeant'
      BY <1>5, <1>0, <2>2 DEF BeginTalk, TranslationTypeOK, MutexHeld, HeldIsMeant, Underwrites
    <2>5. t \in shaken' \/ CalmTalk(t)'
      <3>1. SUFFICES ASSUME t \notin shaken' PROVE CalmTalk(t)'
        OBVIOUS
      <3>2. busy = {} /\ ~halfway /\ began'[t] = held
        BY <1>5, <1>0, <3>1 DEF BeginTalk, HeldIsMeant, TranslationTypeOK
      <3>3. \A f \in FieldSet : Among(f, talk'[t].left)
        BY <2>2, <2>3, ReadInOrder DEF Suffixes
      <3>4. QED
        BY <1>5, <2>2, <3>2, <3>3 DEF BeginTalk, CalmTalk, Reading
    <2>6. \A o \in Talks \ {t} : o \in shaken' \/ CalmTalk(o)'
      BY <1>5, <1>0, <1>a, <2>2 DEF BeginTalk, CalmTalk, Reading, TranslationTypeOK
    <2>7. QED
      BY <1>b, <2>2, <2>4, <2>5, <2>6 DEF TranslationInv
  <1>6. ASSUME NEW t \in Talks, ReadField(t) PROVE TranslationInv'
    <2> DEFINE f == Head(talk[t].left)
    <2>0. Reading(t) /\ UNCHANGED <<held, busy, upd, rows, meant, halfway, began, shaken>>
      BY <1>6 DEF ReadField
    <2>a. talk[t] \in TalkCall /\ talk[t].left \in Suffixes /\ held \in Config
      BY <1>0 DEF TranslationTypeOK, TalkCall
    <2>1. CASE talk[t].left # <<>> /\ talk' = [talk EXCEPT ![t].got[f] = held[f], ![t].left = Tail(@)]
      <3>1. f \in FieldSet /\ Tail(talk[t].left) \in Suffixes
            /\ \A g : Among(g, talk[t].left) => g = f \/ Among(g, Tail(talk[t].left))
        BY <2>1, <2>a, ReadInOrder
      <3>2. /\ talk'[t].at = "read" /\ talk'[t].left = Tail(talk[t].left)
            /\ talk'[t].got = [talk[t].got EXCEPT ![f] = held[f]]
            /\ \A o \in Talks \ {t} : talk'[o] = talk[o]
            /\ talk' \in [Talks -> TalkCall]
        BY <1>0, <2>0, <2>1, <2>a, <3>1 DEF TranslationTypeOK, TalkCall, Config, Reading
      <3>3. t \in shaken' \/ CalmTalk(t)'
        <4>1. SUFFICES ASSUME t \notin shaken PROVE CalmTalk(t)'
          BY <2>0
        <4>2. CalmTalk(t)
          BY <4>1, <1>a
        <4>3. talk[t].got \in Config
          BY <2>a DEF TalkCall
        <4>4. \A g \in FieldSet : Among(g, talk'[t].left) \/ talk'[t].got[g] = began[t][g]
          BY <2>0, <3>1, <3>2, <4>2, <4>3 DEF CalmTalk, Config
        <4>5. QED
          BY <2>0, <3>2, <4>2, <4>4 DEF CalmTalk, Reading
      <3>4. \A o \in Talks : o \in shaken' \/ CalmTalk(o)'
        <4>1. ASSUME NEW o \in Talks \ {t} PROVE o \in shaken' \/ CalmTalk(o)'
          BY <1>a, <2>0, <3>2 DEF CalmTalk, Reading
        <4>2. QED
          BY <3>3, <4>1
      <3>5. TranslationTypeOK' /\ MutexHeld' /\ HeldIsMeant'
        BY <1>0, <2>0, <3>2 DEF TranslationTypeOK, MutexHeld, HeldIsMeant, Underwrites
      <3>6. QED
        BY <1>b, <2>0, <3>2, <3>4, <3>5 DEF TranslationInv, Reading
    <2>2. CASE \E at \in {"done", "ready"} : Moves(t, at) /\ (at = "ready" => talk[t].left = <<>>)
      <3>0. PICK at \in {"done", "ready"} : Moves(t, at) /\ (at = "ready" => talk[t].left = <<>>)
        BY <2>2
      <3>1. /\ talk'[t].at = at /\ talk'[t].left = talk[t].left /\ talk'[t].got = talk[t].got
            /\ \A o \in Talks \ {t} : talk'[o] = talk[o]
            /\ talk' \in [Talks -> TalkCall]
        BY <3>0, <1>0 DEF Moves, TranslationTypeOK, TalkCall
      <3>2. t \in shaken' \/ CalmTalk(t)'
        <4>1. SUFFICES ASSUME t \notin shaken, at = "ready" PROVE talk[t].got = began[t]
          BY <2>0, <3>1 DEF CalmTalk, Reading
        <4>2. \A g \in FieldSet : talk[t].got[g] = began[t][g]
          BY <1>a, <2>0, <2>a, <3>0, <4>1, ReadInOrder DEF CalmTalk
        <4>3. QED
          BY <1>0, <2>a, <4>2 DEF TranslationTypeOK, TalkCall, Config
      <3>3. QED
        BY <1>0, <1>a, <1>b, <2>0, <3>1, <3>2
        DEF TranslationInv, TranslationTypeOK, MutexHeld, HeldIsMeant, Underwrites, CalmTalk, Reading
    <2>3. QED
      BY <1>6, <2>1, <2>2 DEF ReadField
  <1>7. ASSUME NEW t \in Talks, Prepare(t) \/ Request(t) PROVE TranslationInv'
    <2>0. UNCHANGED <<held, busy, upd, meant, halfway, began, shaken>>
      BY <1>7 DEF Prepare, Request
    <2>1. /\ talk'[t].at \in {"request", "done"}
          /\ \A o \in Talks \ {t} : talk'[o] = talk[o]
          /\ talk' \in [Talks -> TalkCall]
      <3>1. CASE Request(t)
        BY <3>1, <1>0 DEF Request, Moves, TranslationTypeOK, TalkCall
      <3>2. CASE Prepare(t)
        <4>1. talk[t].got \in Config /\ [g \in FieldSet |-> t] \in Config
          BY <1>0 DEF TranslationTypeOK, TalkCall, Config, Values
        <4>2. PICK got \in Config, at \in {"request", "done"} : talk' = [talk EXCEPT ![t].got = got, ![t].at = at]
          BY <3>2, <4>1 DEF Prepare
        <4>3. QED
          BY <4>2, <1>0 DEF TranslationTypeOK, TalkCall
      <3>3. QED
        BY <1>7, <3>1, <3>2
    <2>2. QED
      BY <1>0, <1>a, <1>b, <2>0, <2>1
      DEF TranslationInv, TranslationTypeOK, MutexHeld, HeldIsMeant, Underwrites, CalmTalk, Reading
  <1>8. CASE UNCHANGED translationVars
    BY <1>8, <1>0, <1>a, <1>b
    DEF translationVars, TranslationInv, TranslationTypeOK, MutexHeld, HeldIsMeant, Underwrites, CalmTalk, Reading
  <1>9. QED
    BY <1>1, <1>2, <1>3, <1>4, <1>5, <1>6, <1>7, <1>8 DEF TranslationNext

\* TranslationInv is an invariant.
THEOREM TranslationInvariance == TranslationSpec => []TranslationInv
  <1>1. QED
    BY InitTranslation, TranslationInvStep, PTL DEF TranslationSpec

\* CalmReadIsWhole holds of every number of updates and calls: a call that no update met has read
\* one configuration, the one which the updates that ended well amount to.
THEOREM CalmReads == TranslationSpec => []CalmReadIsWhole
  <1>1. TranslationInv => CalmReadIsWhole
    BY DEF TranslationInv, CalmTalk, CalmReadIsWhole
  <1>2. QED
    BY <1>1, TranslationInvariance, PTL

-----------------------------------------------------------------------------
(* The downloads. *)

Download ==
    [at : {"new", "restore", "discard", "load", "copy", "create", "fill", "replace",
           "rename", "store", "done", "failed"},
     tries : Nat, source : Fetches \cup {Old, NoFile}, got : {"none", "half", "whole"}]

DownloadTypeOK ==
    /\ bytes \in [Fetches \cup {Old} -> {"none", "half", "whole"}]
    /\ cache \in Fetches \cup {Old, NoFile}
    /\ part \in Fetches \cup {Old, NoFile}
    /\ fetch \in [Fetches -> Download]
    /\ crossed \in BOOLEAN

\* One download writes to the cache; until it has filled its file that file is not in the cache.
OneStores ==
    /\ \A d, o \in Fetches : fetch[d].at \in Storing /\ fetch[o].at \in Storing => d = o
    /\ \A d \in Fetches :
          /\ fetch[d].at \notin {"fill", "replace", "rename", "done", "failed"} => bytes[d] = "none"
          /\ fetch[d].at = "create" => part = NoFile
          /\ fetch[d].at \in {"fill", "replace", "rename"} => part = d
          /\ fetch[d].at \in {"replace", "rename"} => bytes[d] = "whole"

\* Half a file is in the cache only from the beginning, and nobody has found it whole.
WholeCache ==
    /\ cache # NoFile => bytes[cache] = "whole" \/ (cache = Old /\ bytes[Old] = "half")
    /\ cache # NoFile /\ bytes[cache] # "whole" => \A d \in Fetches : fetch[d].at \notin {"restore", "copy"}
    /\ \A d \in Fetches : fetch[d].at = "copy" => fetch[d].source # NoFile /\ bytes[fetch[d].source] = "whole"
    /\ \A d \in Fetches : fetch[d].at \in {"store", "done"} \cup Storing => fetch[d].got = "whole"

DownloadInv == DownloadTypeOK /\ (~crossed => OneStores /\ WholeCache)

LEMMA InitDownload == DownloadInit => DownloadInv
  <1> SUFFICES ASSUME DownloadInit PROVE DownloadInv
    OBVIOUS
  <1>1. PICK b \in {"half", "whole"} : bytes = [x \in Fetches \cup {Old} |-> IF x = Old THEN b ELSE "none"]
    BY DEF DownloadInit
  <1>2. /\ bytes \in [Fetches \cup {Old} -> {"none", "half", "whole"}]
        /\ bytes[Old] = b
        /\ \A d \in Fetches : bytes[d] = "none"
    BY <1>1, FetchesAssumption
  <1>3. DownloadTypeOK
    BY <1>2 DEF DownloadInit, DownloadTypeOK, Download
  <1>4. OneStores /\ WholeCache
    BY <1>2 DEF DownloadInit, OneStores, WholeCache, Storing, Old, NoFile
  <1>5. QED
    BY <1>3, <1>4 DEF DownloadInv

LEMMA DownloadStep == DownloadInv /\ [DownloadNext]_downloadVars => DownloadInv'
  <1> SUFFICES ASSUME DownloadInv, [DownloadNext]_downloadVars PROVE DownloadInv'
    OBVIOUS
  <1> USE FetchesAssumption DEF DownloadInv, DownloadTypeOK
  <1>1. ASSUME NEW d \in Fetches, CheckCache(d) PROVE DownloadInv'
    BY <1>1 DEF CheckCache, To, Stored, OneStores, WholeCache, Storing, Download
  <1>2. ASSUME NEW d \in Fetches, DiscardCache(d) PROVE DownloadInv'
    BY <1>2 DEF DiscardCache, To, OneStores, WholeCache, Storing, Download
  <1>3. ASSUME NEW d \in Fetches, OpenCache(d) PROVE DownloadInv'
    BY <1>3 DEF OpenCache, To, Stored, OneStores, WholeCache, Storing, Download
  <1>4. ASSUME NEW d \in Fetches, CopyCache(d) PROVE DownloadInv'
    BY <1>4 DEF CopyCache, OneStores, WholeCache, Storing, Download
  <1>5. ASSUME NEW d \in Fetches, FetchOnce(d) PROVE DownloadInv'
    <2>1. fetch[d].tries + 1 \in Nat
      BY DEF Download
    <2>2. \E r \in Download : /\ fetch' = [fetch EXCEPT ![d] = r]
                             /\ r.at \in {"store", "load", "failed"} /\ (r.at = "store" => r.got = "whole")
      BY <1>5, <2>1 DEF FetchOnce, To, Download
    <2>3. PICK r \in Download : /\ fetch' = [fetch EXCEPT ![d] = r]
                               /\ r.at \in {"store", "load", "failed"} /\ (r.at = "store" => r.got = "whole")
      BY <2>2
    <2>4. fetch[d].at = "load" /\ UNCHANGED <<bytes, cache, part, crossed>>
      BY <1>5 DEF FetchOnce
    <2>5. ASSUME ~crossed PROVE (OneStores /\ WholeCache)'
      BY <2>3, <2>4, <2>5 DEF OneStores, WholeCache, Storing
    <2>6. QED
      BY <2>3, <2>4, <2>5
  <1>6. ASSUME NEW d \in Fetches, ClearPart(d) PROVE DownloadInv'
    <2>1. ASSUME ~crossed' PROVE ~crossed /\ \A o \in Fetches : fetch[o].at \notin Storing
      BY <1>6, <2>1 DEF ClearPart
    <2>2. DownloadTypeOK'
      BY <1>6 DEF ClearPart, To, Download
    <2>3. ASSUME ~crossed' PROVE OneStores'
      BY <1>6, <2>1, <2>3 DEF ClearPart, To, OneStores, WholeCache, Storing, Download
    <2>4. ASSUME ~crossed' PROVE WholeCache'
      BY <1>6, <2>1, <2>4 DEF ClearPart, To, OneStores, WholeCache, Storing, Download
    <2>5. QED
      BY <2>2, <2>3, <2>4
  <1>7. ASSUME NEW d \in Fetches, CreatePart(d) PROVE DownloadInv'
    BY <1>7 DEF CreatePart, To, OneStores, WholeCache, Storing, Download
  <1>8. ASSUME NEW d \in Fetches, FillPart(d) PROVE DownloadInv'
    BY <1>8 DEF FillPart, To, OneStores, WholeCache, Storing, Download
  <1>9. ASSUME NEW d \in Fetches, RemoveCache(d) PROVE DownloadInv'
    BY <1>9 DEF RemoveCache, To, OneStores, WholeCache, Storing, Download
  <1>10. ASSUME NEW d \in Fetches, RenamePart(d) PROVE DownloadInv'
    BY <1>10 DEF RenamePart, To, OneStores, WholeCache, Storing, Download
  <1>11. CASE DownloadsEnd
    <2>1. ASSUME NEW d \in Fetches
          PROVE  /\ fetch'[d] \in Download
                 /\ fetch'[d].at \in {"new", "done", "failed"}
                 /\ fetch'[d].at \in {"new", "done"} => fetch'[d] = fetch[d]
      <3>1. [fetch[d] EXCEPT !.at = "failed", !.source = NoFile] \in Download
        BY DEF Download
      <3>2. [fetch[d] EXCEPT !.at = "failed", !.source = NoFile].at = "failed"
        BY DEF Download
      <3>3. QED
        BY <1>11, <3>1, <3>2 DEF DownloadsEnd, Download
    <2>2. DownloadTypeOK'
      BY <1>11, <2>1 DEF DownloadsEnd
    <2>4. QED
      BY <1>11, <2>1, <2>2 DEF DownloadsEnd, OneStores, WholeCache, Storing
  <1>12. CASE UNCHANGED downloadVars
    BY <1>12 DEF downloadVars, OneStores, WholeCache, Storing, Download
  <1>13. QED
    BY <1>1, <1>2, <1>3, <1>4, <1>5, <1>6, <1>7, <1>8, <1>9, <1>10, <1>11, <1>12 DEF DownloadNext

\* DownloadInv is an invariant.
THEOREM DownloadInvariance == DownloadSpec => []DownloadInv
  BY InitDownload, DownloadStep, PTL DEF DownloadSpec

\* DeliveredWhole holds of every number of downloads and attempts: what is delivered is whole, unless two
\* downloads have crossed in the cache.
THEOREM DeliversWhole == DownloadSpec => []DeliveredWhole
  <1>1. DownloadInv => DeliveredWhole
    BY DEF DownloadInv, WholeCache, DeliveredWhole
  <1>2. QED
    BY <1>1, DownloadInvariance, PTL

-----------------------------------------------------------------------------
(* The mods. *)

Idle == {"idle", "claimed"}
Installs == {"import", "install", "copy"}
Changing(t) == pc[t] \in {"write", "list", "settings"}
Renewing(t) == kind[t] \in Installs /\ Changing(t)

\* Every directory belongs to an inspection or is a stray one, and what is in use is not another's.
\* A request at work has its record to itself.
StagingInv ==
    /\ StagingKept /\ inspecting \cap (known \cup stray) = {} /\ known \cap stray = {}
    /\ claimed \cap preparing = {}
    /\ \A t \in Tasks : source[t] \subseteq claimed /\ (pc[t] = "claimed" => source[t] \cap staged \subseteq known)
    /\ \A s, t \in Tasks : s # t => source[s] \cap source[t] = {}

\* What is known of every task, alone or not.
TaskInv ==
    \A t \in Tasks :
        /\ pc[t] \in Idle \cup {"look", "scan", "copied"} => prev[t] = "none"
        /\ pc[t] = "look" => aim[t] \in {"off", "on"}
        /\ pc[t] = "aside" => mod[t] \in Mods

AloneInv == \A t \in alone : pc[t] \notin Idle /\ \A s \in Tasks \ {t} : pc[s] \in Idle

\* Nothing has been changed yet, or all has been taken back.
Untouched(t) ==
    /\ pc[t] \in {"look", "aside", "scan", "copied", "check", "insert", "remove", "failed"} => Now = before
    /\ pc[t] \in {"write", "place", "read", "undo_files"} => row = before.row /\ list = before.list
    /\ pc[t] = "undo_list" => row = before.row

\* An installation: the mod and the row it found, the directory it has put aside and in place, the
\* row it has written, the settings for its rollback.
Installation(t) ==
    /\ pc[t] \in {"aside", "place", "read", "commit", "undo_row", "undo_list", "undo_files"} \/ Renewing(t) =>
          /\ mod[t] \in Mods /\ aim[t] \in {"off", "on"} /\ prev[t] = before.row[mod[t]]
          /\ prev[t] \in {"none", aim[t]} /\ \A k \in Mods \ {mod[t]} : before.row[k] = "none"
    /\ pc[t] \in {"place", "read", "commit", "undo_row", "undo_list", "undo_files"} \/ Renewing(t) =>
          /\ backup[t] = before.dir[Target(t)]
          /\ \A d \in Mods \ {Target(t)} : dir[d] = before.dir[d]
    /\ pc[t] \in {"read", "commit", "undo_row", "undo_list"} \/ Renewing(t) => dir[Target(t)] = New
    /\ pc[t] \in {"commit", "undo_row"} \/ (Renewing(t) /\ pc[t] # "write") =>
          row = [before.row EXCEPT ![mod[t]] = aim[t]]
    /\ Renewing(t) /\ pc[t] # "write" => aim[t] = "on"
    /\ pc[t] \in {"commit", "undo_row", "undo_list"} \/ Renewing(t) => body[t] = before.list
    /\ pc[t] = "commit" => list = IF aim[t] = "on" THEN Enabled(row) ELSE before.list

\* A repair: the directory it has found, and the row it will write.
Repair(t) ==
    /\ pc[t] \in {"check", "insert"} => mod[t] \in Mods /\ dir[path[mod[t]]] > 0 /\ aim[t] = OnDisk
    /\ pc[t] = "insert" => Unmanaged

\* A task that is alone knows what it began with, and what it has changed since.
Knows(t) ==
    /\ parted \/ before.list = Enabled(before.row)
    /\ Untouched(t) /\ Installation(t) /\ Repair(t)
    /\ pc[t] = "settings" => seen[t] = Enabled(row)

LibraryInv == TypeOK /\ TaskInv /\ AloneInv /\ (\A t \in alone : Knows(t)) /\ QuietSettings

USE DEF Idle, Installs

-----------------------------------------------------------------------------
\* A task at work that is not alone has nobody alone beside it.
LEMMA AloneOrNobody ==
    ASSUME LibraryInv, NEW t \in Tasks, pc[t] \notin Idle
    PROVE  alone \subseteq {t}
  BY DEF LibraryInv, AloneInv, TypeOK

\* A task ends: nobody is alone any more, and the list is as the rows say unless that is given up.
LEMMA EndsStep ==
    ASSUME LibraryInv, NEW t \in Tasks, pc[t] \notin Idle, NEW apart \in BOOLEAN, Ends(t, apart),
           row' \in [Mods -> Switches], path' = path, dir' \in [Mods -> 0..New], list' \in BOOLEAN,
           t \in alone => apart \/ list' = Enabled(row)'
    PROVE  LibraryInv'
  <1>1. alone' = {} /\ before' \in [row : [Mods -> Switches], dir : [Mods -> 0..New], list : BOOLEAN]
    <2>1. alone \subseteq {t}
      BY AloneOrNobody
    <2>2. Nothing \in [row : [Mods -> Switches], dir : [Mods -> 0..New], list : BOOLEAN]
      BY DEF Nothing, Switches, New
    <2>3. QED
      BY <2>1, <2>2 DEF Ends, Spoilt, LibraryInv, TypeOK
  <1>2. TypeOK'
    BY <1>1 DEF LibraryInv, TypeOK, Ends, Gone, Goto, Switches, New
  <1>3. TaskInv'
    BY DEF LibraryInv, TypeOK, TaskInv, Ends, Goto
  <1>4. QuietSettings'
    BY DEF LibraryInv, Ends, QuietSettings
  <1>5. QED
    BY <1>1, <1>2, <1>3, <1>4 DEF LibraryInv, AloneInv

\* A task goes to work.
LEMMA EntersStep ==
    ASSUME LibraryInv, NEW t \in Tasks, pc[t] \in Idle, NEW at \in {"look", "write", "remove", "scan"}, Goto(t, at),
           Enters(t), UNCHANGED library, TypeOK', TaskInv', at = "write" => kind'[t] = "switch"
    PROVE  LibraryInv'
  <1>1. pc'[t] = at /\ \A s \in Tasks \ {t} : pc'[s] = pc[s]
    BY DEF Goto, LibraryInv, TypeOK
  <1>2. AloneInv'
    BY <1>1 DEF Enters, AloneInv
  <1>3. QuietSettings'
    BY <1>1 DEF QuietSettings
  <1>4. ASSUME alone' = {t}, alone' # {} PROVE Knows(t)'
    <2>1. \A s \in Tasks : pc[s] \in {"idle", "claimed"}
      BY <1>4 DEF Enters
    <2>2. parted \/ list = Enabled(row)
      BY <2>1 DEF LibraryInv, QuietSettings
    <2>3. Now' = before' /\ Now' = Now /\ before'.row = row /\ before'.list = list
      BY <1>4 DEF Enters, library, Now
    <2>4. (parted \/ before.list = Enabled(before.row))'
      BY <2>2, <2>3 DEF Enters, Enabled
    <2>5. Untouched(t)'
      BY <1>1, <2>3 DEF Untouched, library
    <2>6. Installation(t)' /\ Repair(t)' /\ pc'[t] # "settings"
      BY <1>1 DEF Installation, Renewing, Changing, Repair
    <2>7. QED
      BY <2>4, <2>5, <2>6 DEF Knows
  <1>5. alone' = {t} \/ alone' = {}
    BY DEF Enters
  <1>6. QED
    BY <1>2, <1>3, <1>4, <1>5 DEF LibraryInv

\* A task at work goes on.
LEMMA WorksStep ==
    ASSUME LibraryInv, NEW t \in Tasks, pc[t] \notin Idle, NEW at, at \notin Idle, Goto(t, at),
           TypeOK', TaskInv', alone' \subseteq alone, t \in alone' => Knows(t)'
    PROVE  LibraryInv'
  <1>1. pc'[t] = at /\ \A s \in Tasks \ {t} : pc'[s] = pc[s]
    BY DEF Goto, LibraryInv, TypeOK
  <1>2. alone' \subseteq {t}
    BY AloneOrNobody
  <1>3. AloneInv'
    BY <1>1, <1>2 DEF AloneInv, LibraryInv
  <1>4. QuietSettings'
    BY <1>1 DEF QuietSettings
  <1>5. QED
    BY <1>2, <1>3, <1>4 DEF LibraryInv

\* Steps that leave the library and the tasks at work alone.
LEMMA BesideStep ==
    ASSUME LibraryInv, UNCHANGED <<library, history, mod, prev, aim, backup, body, seen>>, TypeOK', TaskInv',
           \A s \in Tasks : pc'[s] = pc[s] \/ (pc[s] \in Idle /\ pc'[s] \in Idle),
           \A s \in Tasks : kind'[s] = kind[s] \/ pc[s] \in Idle
    PROVE  LibraryInv'
  <1>1. AloneInv' /\ QuietSettings'
    BY DEF LibraryInv, AloneInv, QuietSettings, TypeOK, history, library, Enabled
  <1>2. ASSUME NEW t \in alone PROVE Knows(t)'
    <2>1. t \in Tasks /\ pc'[t] = pc[t] /\ kind'[t] = kind[t] /\ Knows(t)
      BY <1>2 DEF LibraryInv, AloneInv, TypeOK
    <2>2. /\ UNCHANGED <<row, path, dir, list, before, parted, mod, prev, aim, backup, body, seen>>
          /\ Now' = Now /\ Target(t)' = Target(t) /\ OnDisk' = OnDisk /\ Unmanaged' = Unmanaged
          /\ Enabled(row)' = Enabled(row) /\ Enabled(before.row)' = Enabled(before.row)
          /\ Renewing(t)' = Renewing(t)
      BY <2>1 DEF library, history, Now, Target, OnDisk, Unmanaged, Enabled, Renewing, Changing
    <2>3. Untouched(t)'
      BY <2>1, <2>2 DEF Knows, Untouched
    <2>4. Installation(t)'
      BY <2>1, <2>2 DEF Knows, Installation
    <2>5. Repair(t)'
      BY <2>1, <2>2 DEF Knows, Repair
    <2>6. QED
      BY <2>1, <2>2, <2>3, <2>4, <2>5 DEF Knows
  <1>3. QED
    BY <1>1, <1>2 DEF LibraryInv, history

-----------------------------------------------------------------------------
\* The inspections, and what happens to a task before its work.
LEMMA InspectStep == LibraryInv /\ (Inspect \/ Sweep) => LibraryInv'
  <1> SUFFICES ASSUME LibraryInv, Inspect \/ Sweep PROVE LibraryInv'
    OBVIOUS
  <1>0. TypeOK /\ TaskInv
    BY DEF LibraryInv
  <1>1. CASE \E i \in Inspections :
                NewRecord(i) \/ InspectFails(i) \/ FinishRecord(i) \/ BeginSelection(i) \/ PrepareCandidate(i) \/ EndSelection(i)
    <2>1. UNCHANGED <<library, pc, locals, history>>
      BY <1>1 DEF NewRecord, InspectFails, FinishRecord, BeginSelection, PrepareCandidate, EndSelection, LookUp
    <2>2. /\ inspecting' \subseteq Inspections /\ known' \subseteq Inspections
          /\ ready' \subseteq Inspections /\ preparing' \subseteq Inspections
          /\ claimed' \subseteq Inspections /\ staged' \subseteq Inspections /\ stray' \subseteq Inspections
      BY <1>0, <1>1 DEF NewRecord, InspectFails, FinishRecord, BeginSelection, PrepareCandidate, EndSelection, LookUp, Gone, TypeOK
    <2>3. TypeOK'
      BY <1>0, <2>1, <2>2 DEF TypeOK, library, locals, history
    <2>4. TaskInv'
      BY <1>0, <2>1 DEF TaskInv, locals
    <2>5. QED
      BY <2>1, <2>3, <2>4, BesideStep DEF locals
  <1>2. CASE Sweep
    <2>1. UNCHANGED <<library, pc, locals, history>>
      BY <1>2 DEF Sweep
    <2>2. TypeOK'
      BY <1>0, <1>2 DEF Sweep, Gone, TypeOK, library, locals, history
    <2>3. TaskInv'
      BY <1>0, <2>1 DEF TaskInv, locals
    <2>4. QED
      BY <2>1, <2>2, <2>3, BesideStep DEF locals
  <1>3. ASSUME NEW i \in Inspections, NEW t \in Tasks, Claim(i, t) PROVE LibraryInv'
    <2>1. /\ pc[t] = "idle" /\ pc' = [pc EXCEPT ![t] = "claimed"]
          /\ UNCHANGED <<library, history, mod, prev, aim, backup, body, seen>>
          /\ \A s \in Tasks \ {t} : kind'[s] = kind[s]
      BY <1>3, <1>0 DEF Claim, At, Goto, TypeOK
    <2>2. TypeOK'
      BY <1>0, <1>3 DEF Claim, LookUp, Gone, Goto, TypeOK, library, history
    <2>3. TaskInv'
      BY <1>0, <2>1 DEF TaskInv, TypeOK
    <2>4. QED
      BY <1>0, <2>1, <2>2, <2>3, BesideStep DEF TypeOK
  <1>4. QED
    BY <1>1, <1>2, <1>3 DEF Inspect

LEMMA BeginStep ==
    ASSUME LibraryInv, NEW t \in Tasks,
           \/ Release(t) \/ BeginImport(t) \/ \E enable \in {"off", "on"} : BeginInstall(t, enable)
           \/ \E m \in Mods : BeginDelete(t, m) \/ \E enable \in {"off", "on"} : BeginSwitch(t, m, enable)
           \/ \E k \in {"copy", "repair"} : BeginLocal(t, k)
    PROVE  LibraryInv'
  <1>0. TypeOK /\ TaskInv
    BY DEF LibraryInv
  <1> USE DEF At, Goto
  <1>a. Enters(t) => /\ alone' \subseteq Tasks /\ parted' = parted
                     /\ before' \in [row : [Mods -> Switches], dir : [Mods -> 0..New], list : BOOLEAN]
    BY <1>0 DEF Enters, Now, Nothing, TypeOK, Switches, New
  <1>1. CASE Release(t)
    <2>1. TypeOK'
      BY <1>0, <1>1 DEF Release, TypeOK, library, history
    <2>2. TaskInv'
      BY <1>0, <1>1 DEF Release, TaskInv, TypeOK
    <2>3. QED
      BY <1>0, <1>1, <2>1, <2>2, BesideStep DEF Release, TypeOK
  <1>2. CASE BeginImport(t)
    <2>1. TypeOK'
      BY <1>0, <1>a, <1>2 DEF BeginImport, TypeOK, library, registry, Switches
    <2>2. TaskInv'
      BY <1>0, <1>2 DEF BeginImport, TaskInv, TypeOK
    <2>3. QED
      BY <1>2, <2>1, <2>2, EntersStep DEF BeginImport
  <1>3. ASSUME NEW enable \in {"off", "on"}, BeginInstall(t, enable) PROVE LibraryInv'
    <2>1. TypeOK'
      BY <1>0, <1>a, <1>3 DEF BeginInstall, TypeOK, library, registry, Switches
    <2>2. TaskInv'
      BY <1>0, <1>3 DEF BeginInstall, TaskInv, TypeOK
    <2>3. QED
      BY <1>3, <2>1, <2>2, EntersStep DEF BeginInstall
  <1>4. ASSUME NEW m \in Mods, BeginDelete(t, m) PROVE LibraryInv'
    <2>1. TypeOK'
      BY <1>0, <1>a, <1>4 DEF BeginDelete, TypeOK, library, registry, Switches
    <2>2. TaskInv'
      BY <1>0, <1>4 DEF BeginDelete, TaskInv, TypeOK
    <2>3. QED
      BY <1>4, <2>1, <2>2, EntersStep DEF BeginDelete
  <1>5. ASSUME NEW m \in Mods, NEW enable \in {"off", "on"}, BeginSwitch(t, m, enable) PROVE LibraryInv'
    <2>1. TypeOK'
      BY <1>0, <1>a, <1>5 DEF BeginSwitch, TypeOK, library, registry, Switches
    <2>2. TaskInv'
      BY <1>0, <1>5 DEF BeginSwitch, TaskInv, TypeOK
    <2>3. kind'[t] = "switch"
      BY <1>0, <1>5 DEF BeginSwitch, TypeOK
    <2>4. QED
      BY <1>5, <2>1, <2>2, <2>3, EntersStep DEF BeginSwitch
  <1>6. ASSUME NEW k \in {"copy", "repair"}, BeginLocal(t, k) PROVE LibraryInv'
    <2>1. TypeOK'
      BY <1>0, <1>a, <1>6 DEF BeginLocal, TypeOK, library, registry, Switches
    <2>2. TaskInv'
      BY <1>0, <1>6 DEF BeginLocal, TaskInv, TypeOK
    <2>3. QED
      BY <1>6, <2>1, <2>2, EntersStep DEF BeginLocal
  <1>7. QED
    BY <1>1, <1>2, <1>3, <1>4, <1>5, <1>6

-----------------------------------------------------------------------------
\* An installation.
LEMMA LookStep ==
    ASSUME LibraryInv, NEW t \in Tasks, Look(t)
    PROVE  LibraryInv'
  <1>0. TypeOK /\ TaskInv
    BY DEF LibraryInv
  <1>1. /\ pc[t] = "look" /\ pc' = [pc EXCEPT ![t] = "aside"] /\ pc'[t] = "aside"
        /\ UNCHANGED <<row, dir, list, alone, before, parted>>
        /\ prev[t] = "none" /\ aim[t] \in {"off", "on"}
    BY <1>0 DEF Look, Installing, At, Goto, TaskInv, TypeOK, history
  <1>2. mod'[t] \in Mods
    BY <1>0 DEF Look, Unused, TypeOK
  <1>3. TypeOK'
    <2>1. mod' \in [Tasks -> Mods \cup {NoMod}] /\ path' \in [Mods -> Mods]
      BY <1>0 DEF Look, Unused, TypeOK
    <2>2. prev' \in [Tasks -> Switches] /\ aim' \in [Tasks -> Switches]
      BY <1>0 DEF Look, TypeOK
    <2>3. QED
      BY <1>0, <1>1, <2>1, <2>2 DEF Look, Installing, TypeOK, registry, history
  <1>4. TaskInv'
    <2>1. \A s \in Tasks \ {t} : mod'[s] = mod[s] /\ prev'[s] = prev[s] /\ aim'[s] = aim[s] /\ pc'[s] = pc[s]
      BY <1>0, <1>1 DEF Look, TypeOK
    <2>2. QED
      BY <1>0, <1>1, <1>2, <2>1 DEF TaskInv
  <1>5. ASSUME t \in alone PROVE Knows(t)'
    <2>1. Now = before /\ Now' = Now /\ before.row = row /\ (parted \/ before.list = Enabled(before.row))
      BY <1>1, <1>5 DEF LibraryInv, Knows, Untouched, Now
    <2>2. Untouched(t)' /\ Repair(t)' /\ (parted \/ before.list = Enabled(before.row))'
      BY <1>1, <2>1 DEF Untouched, Repair, Enabled
    <2>3. /\ mod'[t] \in Mods /\ aim'[t] \in {"off", "on"} /\ prev'[t] = before.row[mod'[t]]
          /\ prev'[t] \in {"none", aim'[t]} /\ \A k \in Mods \ {mod'[t]} : before.row[k] = "none"
      <3>1. ASSUME NEW m \in Mods, {k \in Mods : row[k] # "none"} = {m}, mod' = [mod EXCEPT ![t] = m],
                   prev' = [prev EXCEPT ![t] = row[m]], aim' = [aim EXCEPT ![t] = row[m]]
            PROVE  /\ mod'[t] \in Mods /\ aim'[t] \in {"off", "on"} /\ prev'[t] = before.row[mod'[t]]
                   /\ prev'[t] \in {"none", aim'[t]} /\ \A k \in Mods \ {mod'[t]} : before.row[k] = "none"
        <4>1. row[m] # "none" /\ row[m] \in {"off", "on"} /\ \A k \in Mods \ {m} : row[k] = "none"
          BY <1>0, <3>1 DEF TypeOK, Switches
        <4>2. mod'[t] = m /\ prev'[t] = row[m] /\ aim'[t] = row[m]
          BY <1>0, <3>1 DEF TypeOK
        <4>3. QED
          BY <2>1, <4>1, <4>2
      <3>2. ASSUME \A k \in Mods : row[k] = "none", NEW m \in Unused, mod' = [mod EXCEPT ![t] = m], UNCHANGED <<prev, aim>>
            PROVE  /\ mod'[t] \in Mods /\ aim'[t] \in {"off", "on"} /\ prev'[t] = before.row[mod'[t]]
                   /\ prev'[t] \in {"none", aim'[t]} /\ \A k \in Mods \ {mod'[t]} : before.row[k] = "none"
        <4>1. mod'[t] = m /\ m \in Mods
          BY <1>0, <3>2 DEF TypeOK, Unused
        <4>2. QED
          BY <1>1, <2>1, <3>2, <4>1
      <3>3. QED
        BY <3>1, <3>2 DEF Look
    <2>4. Installation(t)' /\ pc'[t] # "settings"
      BY <1>1, <2>3 DEF Installation, Renewing, Changing
    <2>5. QED
      BY <2>2, <2>4 DEF Knows
  <1>6. QED
    BY <1>1, <1>3, <1>4, <1>5, WorksStep DEF Goto

\* The old directory is put aside, the new one in its place.
LEMMA FilesStep ==
    ASSUME LibraryInv, NEW t \in Tasks, Aside(t) \/ Place(t)
    PROVE  LibraryInv'
  <1>0. TypeOK /\ TaskInv
    BY DEF LibraryInv
  <1>1. PICK at \in {"place", "read", "undo_files"} :
            /\ pc' = [pc EXCEPT ![t] = at] /\ pc'[t] = at
            /\ IF Aside(t) THEN pc[t] = "aside" /\ at = "place" /\ backup' = [backup EXCEPT ![t] = dir[Target(t)]]
                                /\ dir' = [dir EXCEPT ![Target(t)] = 0]
               ELSE /\ pc[t] = "place" /\ backup' = backup
                    /\ IF at = "read" THEN dir' = [dir EXCEPT ![Target(t)] = New] ELSE at = "undo_files" /\ dir' = dir
    BY <1>0 DEF Aside, Place, Installing, At, Goto, TypeOK
  <1>2. /\ UNCHANGED <<row, path, list, mod, prev, aim, body, seen, kind, source, registry, alone, before, parted>>
        /\ Target(t)' = Target(t)
    BY DEF Aside, Place, Installing, history, Target
  <1>3. TypeOK'
    <2>1. Aside(t) => dir[Target(t)] \in 0..New
      BY <1>0, <1>1 DEF TaskInv, TypeOK, Target
    <2>2. dir' \in [Mods -> 0..New] /\ backup' \in [Tasks -> 0..New]
      BY <1>0, <1>1, <2>1 DEF TypeOK, New
    <2>3. QED
      BY <1>0, <1>1, <1>2, <2>2 DEF TypeOK, registry
  <1>4. TaskInv'
    BY <1>0, <1>1, <1>2 DEF TaskInv, TypeOK
  <1>5. ASSUME t \in alone PROVE Knows(t)'
    <2>1. Knows(t)
      BY <1>5 DEF LibraryInv
    <2>2. /\ mod[t] \in Mods /\ aim[t] \in {"off", "on"} /\ prev[t] = before.row[mod[t]]
          /\ prev[t] \in {"none", aim[t]} /\ \A k \in Mods \ {mod[t]} : before.row[k] = "none"
      BY <1>1, <2>1 DEF Knows, Installation
    <2>3. row = before.row /\ list = before.list /\ Target(t) \in Mods
      BY <1>0, <1>1, <2>1, <2>2 DEF Knows, Untouched, Now, Target, TypeOK
    <2>4. backup'[t] = before.dir[Target(t)] /\ \A d \in Mods \ {Target(t)} : dir'[d] = before.dir[d]
      <3>1. CASE Aside(t)
        <4>1. dir = before.dir
          BY <1>1, <2>1, <3>1 DEF Knows, Untouched, Now
        <4>2. QED
          BY <1>0, <1>1, <3>1, <4>1 DEF TypeOK
      <3>2. CASE ~Aside(t)
        <4>1. backup[t] = before.dir[Target(t)] /\ \A d \in Mods \ {Target(t)} : dir[d] = before.dir[d]
          BY <1>1, <2>1, <3>2 DEF Knows, Installation
        <4>2. QED
          BY <1>0, <1>1, <3>2, <4>1 DEF TypeOK
      <3>3. QED
        BY <3>1, <3>2
    <2>5. pc'[t] = "read" => dir'[Target(t)] = New
      BY <1>0, <1>1, <2>3 DEF TypeOK
    <2>6. Installation(t)'
      BY <1>1, <1>2, <2>2, <2>4, <2>5 DEF Installation, Renewing, Changing
    <2>7. Untouched(t)' /\ Repair(t)' /\ pc'[t] # "settings"
      BY <1>1, <1>2, <2>3 DEF Untouched, Repair
    <2>8. QED
      BY <1>2, <2>1, <2>6, <2>7 DEF Knows, Enabled
  <1>6. QED
    BY <1>0, <1>1, <1>2, <1>3, <1>4, <1>5, WorksStep DEF Goto

\* The settings are read for the rollback.
LEMMA ReadStep ==
    ASSUME LibraryInv, NEW t \in Tasks, ReadModSettings(t)
    PROVE  LibraryInv'
  <1>0. TypeOK /\ TaskInv
    BY DEF LibraryInv
  <1>1. PICK at \in {"write", "undo_files"} :
            /\ pc' = [pc EXCEPT ![t] = at] /\ pc'[t] = at
            /\ body' \in [Tasks -> BOOLEAN] /\ (at = "write" => body'[t] = list)
    BY <1>0 DEF ReadModSettings, At, Goto, TypeOK
  <1>2. /\ UNCHANGED <<row, path, dir, list, mod, prev, aim, backup, seen, kind, source, registry, alone, before, parted>>
        /\ pc[t] = "read" /\ kind[t] \in Installs /\ Target(t)' = Target(t)
    BY DEF ReadModSettings, Installing, At, history, library, Target
  <1>3. TypeOK'
    BY <1>0, <1>1, <1>2 DEF TypeOK, registry
  <1>4. TaskInv'
    BY <1>0, <1>1, <1>2 DEF TaskInv, TypeOK
  <1>5. ASSUME t \in alone PROVE Knows(t)'
    <2>1. Knows(t)
      BY <1>5 DEF LibraryInv
    <2>2. row = before.row /\ list = before.list
      BY <1>2, <2>1 DEF Knows, Untouched
    <2>3. Installation(t)'
      BY <1>1, <1>2, <2>1, <2>2 DEF Knows, Installation, Renewing, Changing
    <2>4. Untouched(t)' /\ Repair(t)' /\ pc'[t] # "settings"
      BY <1>1, <1>2, <2>2 DEF Untouched, Repair
    <2>5. QED
      BY <1>2, <2>1, <2>3, <2>4 DEF Knows, Enabled
  <1>6. QED
    BY <1>1, <1>2, <1>3, <1>4, <1>5, WorksStep DEF Goto

\* The row is written.
LEMMA UpsertStep ==
    ASSUME LibraryInv, NEW t \in Tasks, UpsertMod(t)
    PROVE  LibraryInv'
  <1>0. TypeOK /\ TaskInv
    BY DEF LibraryInv
  <1>1. PICK at \in {"list", "commit", "undo_files"} :
            /\ pc' = [pc EXCEPT ![t] = at] /\ pc'[t] = at
            /\ IF at = "undo_files" THEN row' = row
               ELSE row' = [row EXCEPT ![mod[t]] = aim[t]] /\ (at = "list" <=> aim[t] = "on")
    BY <1>0 DEF UpsertMod, At, Goto, TypeOK
  <1>2. /\ UNCHANGED <<path, dir, list, mod, prev, aim, backup, body, seen, kind, source, registry, alone, before, parted>>
        /\ pc[t] = "write" /\ kind[t] \in Installs /\ Target(t)' = Target(t)
    BY DEF UpsertMod, Installing, At, history, library, Target
  <1>3. TypeOK'
    BY <1>0, <1>1, <1>2 DEF TypeOK, registry
  <1>4. TaskInv'
    BY <1>0, <1>1, <1>2 DEF TaskInv, TypeOK
  <1>5. ASSUME t \in alone PROVE Knows(t)'
    <2>1. Knows(t) /\ Renewing(t)
      BY <1>2, <1>5 DEF LibraryInv, Renewing, Changing
    <2>2. row = before.row /\ list = before.list
      BY <1>2, <2>1 DEF Knows, Untouched
    <2>3. Installation(t)'
      BY <1>1, <1>2, <2>1, <2>2 DEF Knows, Installation, Renewing, Changing
    <2>4. Untouched(t)' /\ Repair(t)' /\ pc'[t] # "settings"
      BY <1>1, <1>2, <2>2 DEF Untouched, Repair
    <2>5. QED
      BY <1>2, <2>1, <2>3, <2>4 DEF Knows, Enabled
  <1>6. QED
    BY <1>1, <1>2, <1>3, <1>4, <1>5, WorksStep DEF Goto

\* An installation rolls back.
LEMMA RollsBack ==
    ASSUME LibraryInv, NEW t \in Tasks, Installing(t, pc[t]), pc[t] \in {"list", "settings", "commit"}, aim[t] = "on" \/ pc[t] # "commit",
           Goto(t, "undo_row"), UNCHANGED <<row, path, dir, mod, prev, aim, backup, body, seen>>, list' \in BOOLEAN
    PROVE  LibraryInv'
  <1>0. TypeOK /\ TaskInv
    BY DEF LibraryInv
  <1>1. /\ pc' = [pc EXCEPT ![t] = "undo_row"] /\ pc'[t] = "undo_row"
        /\ UNCHANGED <<kind, source, registry, alone, before, parted>>
        /\ kind[t] \in Installs /\ Target(t)' = Target(t)
    BY <1>0 DEF Installing, history, Target, Goto, TypeOK
  <1>2. TypeOK'
    BY <1>0, <1>1 DEF TypeOK, registry
  <1>3. TaskInv'
    BY <1>0, <1>1 DEF TaskInv, TypeOK
  <1>4. ASSUME t \in alone PROVE Knows(t)'
    <2>1. Knows(t) /\ (Renewing(t) \/ pc[t] = "commit")
      BY <1>1, <1>4 DEF LibraryInv, Renewing, Changing
    <2>2. Installation(t)'
      BY <1>1, <2>1 DEF Knows, Installation, Renewing, Changing
    <2>3. Untouched(t)' /\ Repair(t)' /\ pc'[t] # "settings"
      BY <1>1 DEF Untouched, Repair
    <2>4. QED
      BY <1>1, <2>1, <2>2, <2>3 DEF Knows, Enabled
  <1>5. QED
    BY <1>1, <1>2, <1>3, <1>4, WorksStep DEF Goto

\* The rollback takes back the row, the list and the files.
LEMMA UndoStep ==
    ASSUME LibraryInv, NEW t \in Tasks, UndoRow(t) \/ UndoList(t) \/ UndoFiles(t)
    PROVE  LibraryInv'
  <1>0. TypeOK /\ TaskInv
    BY DEF LibraryInv
  <1>1. PICK at \in {"undo_list", "undo_files", "failed"} : /\ pc' = [pc EXCEPT ![t] = at] /\ pc'[t] = at
    BY <1>0 DEF UndoRow, UndoList, UndoFiles, Undoing, At, Goto, TypeOK
  <1>2. /\ UNCHANGED <<path, kind, source, mod, prev, aim, backup, body, seen, registry, parted>>
        /\ pc[t] = IF at = "undo_list" THEN "undo_row" ELSE IF at = "undo_files" THEN "undo_list" ELSE "undo_files"
        /\ Target(t)' = Target(t)
    BY <1>0, <1>1 DEF UndoRow, UndoList, UndoFiles, Undoing, Goto, At, locals, Target, TypeOK
  <1>3. \/ UNCHANGED <<alone, before>>
        \/ Spoilt(t)
    BY DEF UndoRow, UndoList, UndoFiles, Works
  <1>4. /\ alone' \subseteq alone /\ alone \subseteq {t}
        /\ t \in alone' => UNCHANGED <<alone, before>>
        /\ before' \in [row : [Mods -> Switches], dir : [Mods -> 0..New], list : BOOLEAN]
    <2>1. Nothing \in [row : [Mods -> Switches], dir : [Mods -> 0..New], list : BOOLEAN]
      BY DEF Nothing, Switches, New
    <2>2. QED
      BY <1>0, <1>2, <1>3, <2>1, AloneOrNobody DEF Spoilt, TypeOK
  <1>5. TypeOK'
    <2>1. prev[t] \in Switches /\ body[t] \in BOOLEAN /\ backup[t] \in 0..New /\ 0 \in 0..New
      BY <1>0 DEF TypeOK, New
    <2>2. row' = row \/ row' = [row EXCEPT ![mod[t]] = prev[t]]
      BY DEF UndoRow, UndoList, UndoFiles, Works
    <2>3. list' \in {list, FALSE, body[t]}
      BY DEF UndoRow, UndoList, UndoFiles, Works
    <2>4. dir' \in {dir, [dir EXCEPT ![Target(t)] = 0], [[dir EXCEPT ![Target(t)] = 0] EXCEPT ![Target(t)] = backup[t]]}
      BY DEF UndoRow, UndoList, UndoFiles, Works
    <2>5. row' \in [Mods -> Switches] /\ list' \in BOOLEAN
      BY <1>0, <2>1, <2>2, <2>3 DEF TypeOK
    <2>6. dir' \in [Mods -> 0..New]
      BY <1>0, <2>1, <2>4 DEF TypeOK
    <2>7. QED
      BY <1>0, <1>1, <1>2, <1>4, <2>5, <2>6 DEF TypeOK, registry
  <1>6. TaskInv'
    BY <1>0, <1>1, <1>2 DEF TaskInv, TypeOK
  <1>7. ASSUME t \in alone' PROVE Knows(t)'
    <2>1. Knows(t) /\ UNCHANGED <<alone, before>> /\ ~Spoilt(t)
      BY <1>4, <1>7 DEF LibraryInv, Spoilt
    <2>2. /\ mod[t] \in Mods /\ aim[t] \in {"off", "on"} /\ prev[t] = before.row[mod[t]]
          /\ prev[t] \in {"none", aim[t]} /\ \A k \in Mods \ {mod[t]} : before.row[k] = "none"
          /\ backup[t] = before.dir[Target(t)] /\ Target(t) \in Mods
          /\ \A d \in Mods \ {Target(t)} : dir[d] = before.dir[d]
      BY <1>0, <1>1, <1>2, <2>1 DEF Knows, Installation, Target, TypeOK
    <2>3. CASE UndoRow(t)
      <3>1. row' = [row EXCEPT ![mod[t]] = prev[t]] /\ UNCHANGED <<dir, list>> /\ pc[t] = "undo_row" /\ at = "undo_list"
        BY <1>1, <1>2, <2>1, <2>3 DEF UndoRow, Undoing, At, Works
      <3>2. row = [before.row EXCEPT ![mod[t]] = aim[t]] /\ dir[Target(t)] = New /\ body[t] = before.list
        BY <2>1, <3>1 DEF Knows, Installation
      <3>3. row' = before.row
        BY <1>0, <2>2, <3>1, <3>2 DEF TypeOK
      <3>4. Installation(t)'
        BY <1>1, <1>2, <2>1, <2>2, <3>1, <3>2 DEF Installation, Renewing, Changing
      <3>5. Untouched(t)' /\ Repair(t)' /\ pc'[t] # "settings"
        BY <1>1, <2>1, <3>1, <3>3 DEF Untouched, Repair
      <3>6. QED
        BY <1>2, <2>1, <3>4, <3>5 DEF Knows, Enabled
    <2>4. CASE UndoList(t)
      <3>1. list' = body[t] /\ UNCHANGED <<row, dir>> /\ pc[t] = "undo_list" /\ at = "undo_files"
        BY <1>1, <1>2, <2>1, <2>4 DEF UndoList, Undoing, At, Works
      <3>2. row = before.row /\ body[t] = before.list
        BY <2>1, <3>1 DEF Knows, Installation, Untouched
      <3>3. Installation(t)'
        BY <1>1, <1>2, <2>1, <2>2, <3>1, <3>2 DEF Installation, Renewing, Changing
      <3>4. Untouched(t)' /\ Repair(t)' /\ pc'[t] # "settings"
        BY <1>1, <2>1, <3>1, <3>2 DEF Untouched, Repair
      <3>5. QED
        BY <1>2, <2>1, <3>3, <3>4 DEF Knows, Enabled
    <2>5. CASE UndoFiles(t)
      <3>1. /\ dir' = [[dir EXCEPT ![Target(t)] = 0] EXCEPT ![Target(t)] = backup[t]]
            /\ UNCHANGED <<row, list>> /\ pc[t] = "undo_files" /\ at = "failed"
        BY <1>1, <1>2, <2>1, <2>5 DEF UndoFiles, Undoing, At, Works
      <3>2. row = before.row /\ list = before.list
        BY <2>1, <3>1 DEF Knows, Untouched
      <3>3. dir' = before.dir
        BY <1>0, <2>2, <3>1 DEF TypeOK
      <3>4. Now' = before'
        BY <1>0, <2>1, <3>1, <3>2, <3>3 DEF Now, TypeOK
      <3>5. Installation(t)'
        BY <1>1, <1>2, <2>1, <2>2, <3>1 DEF Installation, Renewing, Changing
      <3>6. Untouched(t)' /\ Repair(t)' /\ pc'[t] # "settings"
        BY <1>1, <2>1, <3>1, <3>4 DEF Untouched, Repair
      <3>7. QED
        BY <1>2, <2>1, <3>5, <3>6 DEF Knows, Enabled
    <2>6. QED
      BY <2>3, <2>4, <2>5
  <1>8. QED
    BY <1>1, <1>2, <1>4, <1>5, <1>6, <1>7, WorksStep DEF Goto

-----------------------------------------------------------------------------
\* Switches and deletions, and the list of active mods.
LEMMA ChangeStep ==
    ASSUME LibraryInv, NEW t \in Tasks, ChangeRow(t) \/ RemoveTarget(t)
    PROVE  LibraryInv'
  <1>0. TypeOK /\ TaskInv
    BY DEF LibraryInv
  <1>1. /\ pc[t] \in {"write", "remove"} /\ kind[t] \in {"switch", "delete"} /\ UNCHANGED <<path, list>>
        /\ pc[t] = IF ChangeRow(t) THEN "write" ELSE "remove"
    BY DEF ChangeRow, RemoveTarget, Changes, At
  <1>2. row' \in [Mods -> Switches] /\ dir' \in [Mods -> 0..New]
    <2>1. aim[t] \in Switches /\ 0 \in 0..New
      BY <1>0 DEF TypeOK, New
    <2>2. row' \in {row, [row EXCEPT ![mod[t]] = aim[t]]} /\ dir' \in {dir, [dir EXCEPT ![Target(t)] = 0]}
      BY DEF ChangeRow, RemoveTarget
    <2>3. QED
      BY <1>0, <2>1, <2>2 DEF TypeOK
  <1>3. t \in alone => Knows(t) /\ row = before.row /\ list = before.list
    BY <1>1 DEF LibraryInv, Knows, Untouched, Now
  <1>4. CASE Ends(t, parted)
    <2>1. CASE row' = row
      <3>1. t \in alone => parted \/ list' = Enabled(row)'
        BY <1>1, <1>3, <2>1 DEF Knows, Enabled
      <3>2. QED
        BY <1>0, <1>1, <1>2, <1>4, <3>1, EndsStep DEF TypeOK
    <2>2. CASE row' # row
      BY <1>0, <1>1, <1>4, <2>2 DEF ChangeRow, RemoveTarget, Ends, Goto, TypeOK
    <2>3. QED
      BY <2>1, <2>2
  <1>5. CASE ~Ends(t, parted)
    <2>1. PICK at \in {"list", "write"} :
            /\ pc' = [pc EXCEPT ![t] = at] /\ pc'[t] = at /\ UNCHANGED <<registry, locals, history>>
            /\ at = "write" => row' = row
      BY <1>0, <1>5 DEF ChangeRow, RemoveTarget, Goto, TypeOK
    <2>2. TypeOK'
      BY <1>0, <1>1, <1>2, <2>1 DEF TypeOK, registry, locals, history
    <2>3. TaskInv'
      BY <1>0, <1>1, <2>1 DEF TaskInv, TypeOK, locals
    <2>4. ASSUME t \in alone PROVE Knows(t)'
      <3>1. UNCHANGED <<kind, before, parted>> /\ Knows(t)
        BY <2>1, <2>4, <1>3 DEF locals, history
      <3>2. Installation(t)' /\ Untouched(t)' /\ Repair(t)' /\ pc'[t] # "settings"
        BY <1>1, <1>3, <2>1, <2>4, <3>1 DEF Installation, Renewing, Changing, Untouched, Repair
      <3>3. QED
        BY <3>1, <3>2 DEF Knows, Enabled
    <2>5. QED
      BY <1>1, <2>1, <2>2, <2>3, <2>4, WorksStep DEF Goto, history
  <1>6. QED
    BY <1>4, <1>5

LEMMA RewriteStep ==
    ASSUME LibraryInv, NEW t \in Tasks, ListMods(t) \/ WriteModSettings(t)
    PROVE  LibraryInv'
  <1>0. TypeOK /\ TaskInv
    BY DEF LibraryInv
  <1>1. pc[t] \in {"list", "settings"} /\ UNCHANGED <<row, path, dir>>
    BY DEF ListMods, WriteModSettings, At, library
  <1>2. list' \in BOOLEAN
    BY <1>0 DEF ListMods, WriteModSettings, library, TypeOK
  <1>3. CASE RewriteFails(t)
    <2>1. CASE Ends(t, TRUE)
      BY <1>0, <1>1, <1>2, <2>1, EndsStep DEF TypeOK
    <2>2. CASE ~Ends(t, TRUE)
      BY <1>0, <1>1, <1>2, <1>3, <2>2, RollsBack DEF RewriteFails
    <2>3. QED
      BY <2>1, <2>2
  <1>4. CASE ListMods(t) /\ ~RewriteFails(t)
    <2>1. /\ pc[t] = "list" /\ seen' = [seen EXCEPT ![t] = Enabled(row)]
          /\ pc' = [pc EXCEPT ![t] = "settings"] /\ pc'[t] = "settings" /\ seen'[t] = Enabled(row)
          /\ UNCHANGED <<registry, kind, source, mod, prev, aim, backup, body, history, list>>
      BY <1>0, <1>4 DEF ListMods, At, Goto, TypeOK, library, Enabled
    <2>2. TypeOK'
      BY <1>0, <1>1, <2>1 DEF TypeOK, registry, history, Enabled
    <2>3. TaskInv'
      BY <1>0, <2>1 DEF TaskInv, TypeOK
    <2>4. ASSUME t \in alone PROVE Knows(t)'
      <3>1. UNCHANGED <<before, parted>> /\ Knows(t) /\ Target(t)' = Target(t)
        BY <1>1, <2>1, <2>4 DEF LibraryInv, history, Target
      <3>2. Installation(t)'
        BY <1>1, <2>1, <3>1 DEF Knows, Installation, Renewing, Changing
      <3>3. Untouched(t)' /\ Repair(t)' /\ seen'[t] = Enabled(row)'
        BY <1>1, <2>1 DEF Untouched, Repair, Enabled
      <3>4. QED
        BY <3>1, <3>2, <3>3 DEF Knows, Enabled
    <2>5. QED
      BY <2>1, <2>2, <2>3, <2>4, WorksStep DEF Goto, history
  <1>5. CASE WriteModSettings(t) /\ ~RewriteFails(t)
    <2>1. pc[t] = "settings" /\ list' = seen[t]
      BY <1>5 DEF WriteModSettings, At
    <2>2. t \in alone => list' = Enabled(row) /\ Knows(t)
      BY <2>1 DEF LibraryInv, Knows
    <2>3. CASE Ends(t, FALSE)
      <3>1. t \in alone => list' = Enabled(row)'
        BY <1>1, <2>2 DEF Enabled
      <3>2. QED
        BY <1>0, <1>1, <1>2, <2>3, <3>1, EndsStep DEF TypeOK
    <2>4. CASE ~Ends(t, FALSE)
      <3>1. /\ kind[t] \in Installs /\ pc' = [pc EXCEPT ![t] = "commit"] /\ pc'[t] = "commit"
            /\ seen' = [seen EXCEPT ![t] = FALSE]
            /\ UNCHANGED <<registry, kind, source, mod, prev, aim, backup, body, alone, before, parted>>
        BY <1>0, <1>5, <2>4 DEF WriteModSettings, Installing, Goto, TypeOK, history
      <3>2. TypeOK'
        BY <1>0, <1>1, <1>2, <3>1 DEF TypeOK, registry
      <3>3. TaskInv'
        BY <1>0, <2>1, <3>1 DEF TaskInv, TypeOK
      <3>4. ASSUME t \in alone PROVE Knows(t)'
        <4>1. Knows(t) /\ Renewing(t) /\ Target(t)' = Target(t) /\ list' = Enabled(row)
          BY <1>1, <2>1, <2>2, <3>1, <3>4 DEF Renewing, Changing, Target
        <4>2. Installation(t)'
          BY <1>1, <2>1, <3>1, <4>1 DEF Knows, Installation, Renewing, Changing, Enabled
        <4>3. Untouched(t)' /\ Repair(t)' /\ pc'[t] # "settings"
          BY <3>1 DEF Untouched, Repair
        <4>4. QED
          BY <3>1, <4>1, <4>2, <4>3 DEF Knows, Enabled
      <3>5. QED
        BY <2>1, <3>1, <3>2, <3>3, <3>4, WorksStep DEF Goto
    <2>5. QED
      BY <2>3, <2>4
  <1>6. QED
    BY <1>3, <1>4, <1>5

-----------------------------------------------------------------------------
\* Local findings.
LEMMA LocalStep ==
    ASSUME LibraryInv, NEW t \in Tasks, ScanForRepair(t) \/ CheckRecord(t) \/ CopyTree(t) \/ InstallCopy(t)
    PROVE  LibraryInv'
  <1>0. TypeOK /\ TaskInv
    BY DEF LibraryInv
  <1>1. PICK at \in {"check", "insert", "copied", "look"} :
            /\ pc' = [pc EXCEPT ![t] = at] /\ pc'[t] = at
            /\ pc[t] = IF at = "insert" THEN "check" ELSE IF at = "look" THEN "copied" ELSE "scan"
    BY <1>0 DEF ScanForRepair, CheckRecord, CopyTree, InstallCopy, Repairing, At, Goto, TypeOK
  <1>2. UNCHANGED <<registry, row, dir, list, source, prev, backup, body, seen, parted>>
    BY DEF ScanForRepair, CheckRecord, CopyTree, InstallCopy, Repairing, library, locals, history
  <1>3. /\ alone' \subseteq alone /\ alone \subseteq {t}
        /\ t \in alone' => UNCHANGED <<alone, before>>
        /\ before' \in [row : [Mods -> Switches], dir : [Mods -> 0..New], list : BOOLEAN]
    <2>1. Nothing \in [row : [Mods -> Switches], dir : [Mods -> 0..New], list : BOOLEAN]
      BY DEF Nothing, Switches, New
    <2>2. UNCHANGED <<alone, before>> \/ Spoilt(t)
      BY DEF ScanForRepair, CheckRecord, CopyTree, InstallCopy, Works, history
    <2>3. QED
      BY <1>0, <1>1, <2>1, <2>2, AloneOrNobody DEF Spoilt, TypeOK
  <1>4. CASE ScanForRepair(t)
    <2>1. PICK d \in Mods, m \in Mods : OnlyCopy(d) /\ mod' = [mod EXCEPT ![t] = m] /\ path' = [path EXCEPT ![m] = d]
      BY <1>4 DEF ScanForRepair
    <2>2. at = "check" /\ UNCHANGED kind /\ (t \in alone' => aim'[t] = OnDisk)
      BY <1>0, <1>1, <1>4 DEF ScanForRepair, Repairing, Goto, Works, Spoilt, TypeOK
    <2>3. aim' \in [Tasks -> Switches] /\ \A s \in Tasks \ {t} : aim'[s] = aim[s]
      BY <1>0, <1>4 DEF ScanForRepair, Works, TypeOK, OnDisk, Switches
    <2>4. TypeOK'
      BY <1>0, <1>1, <1>2, <1>3, <2>1, <2>2, <2>3 DEF TypeOK, registry
    <2>5. TaskInv'
      BY <1>0, <1>1, <1>2, <2>1, <2>2, <2>3 DEF TaskInv, TypeOK
    <2>6. ASSUME t \in alone' PROVE Knows(t)'
      <3>1. Knows(t) /\ UNCHANGED <<before, parted>> /\ Now = before
        BY <1>1, <1>2, <1>3, <2>2, <2>6 DEF LibraryInv, Knows, Untouched
      <3>2. Now' = before' /\ OnDisk' = OnDisk
        BY <1>2, <3>1 DEF Now, OnDisk
      <3>3. mod'[t] = m /\ path'[m] = d /\ dir'[d] > 0
        BY <1>0, <1>2, <2>1 DEF TypeOK, OnlyCopy
      <3>4. Untouched(t)' /\ Repair(t)' /\ Installation(t)' /\ pc'[t] # "settings"
        BY <1>1, <2>2, <2>6, <3>2, <3>3 DEF Untouched, Repair, Installation, Renewing, Changing
      <3>5. QED
        BY <3>1, <3>4 DEF Knows, Enabled
    <2>7. QED
      BY <1>1, <1>3, <2>4, <2>5, <2>6, WorksStep DEF Goto
  <1>5. CASE CheckRecord(t) \/ CopyTree(t) \/ InstallCopy(t)
    <2>1. /\ UNCHANGED <<path, mod>> /\ \A s \in Tasks \ {t} : aim'[s] = aim[s]
          /\ aim' \in [Tasks -> Switches] /\ kind' \in [Tasks -> {"import", "install", "copy", "repair", "switch", "delete"}]
      <3>1. CASE CheckRecord(t)
        BY <1>0, <3>1 DEF CheckRecord, Repairing, TypeOK
      <3>2. CASE CopyTree(t)
        BY <1>0, <3>2 DEF CopyTree, library, locals, TypeOK
      <3>3. CASE InstallCopy(t)
        BY <1>0, <3>3 DEF InstallCopy, library, TypeOK, Switches
      <3>4. QED
        BY <1>5, <3>1, <3>2, <3>3
    <2>2. /\ at # "check" /\ (at # "look" => UNCHANGED aim) /\ (at = "look" => aim'[t] = "off")
          /\ at = "insert" => Unmanaged
      BY <1>0, <1>1, <1>5 DEF CheckRecord, CopyTree, InstallCopy, Repairing, Goto, locals, TypeOK
    <2>3. TypeOK'
      BY <1>0, <1>1, <1>2, <1>3, <2>1 DEF TypeOK, registry
    <2>4. TaskInv'
      BY <1>0, <1>1, <1>2, <2>1, <2>2 DEF TaskInv, TypeOK
    <2>5. ASSUME t \in alone' PROVE Knows(t)'
      <3>1. Knows(t) /\ UNCHANGED <<before, parted>> /\ Now = before
        BY <1>1, <1>2, <1>3, <2>2, <2>5 DEF LibraryInv, Knows, Untouched
      <3>2. Now' = before' /\ OnDisk' = OnDisk /\ Unmanaged' = Unmanaged
        BY <1>2, <3>1 DEF Now, OnDisk, Unmanaged
      <3>3. Repair(t)'
        BY <1>1, <1>2, <2>1, <2>2, <3>1, <3>2 DEF Knows, Repair
      <3>4. Untouched(t)' /\ Installation(t)' /\ pc'[t] # "settings"
        BY <1>1, <2>2, <3>2 DEF Untouched, Installation, Renewing, Changing
      <3>5. QED
        BY <3>1, <3>3, <3>4 DEF Knows, Enabled
    <2>6. QED
      BY <1>1, <1>3, <2>3, <2>4, <2>5, WorksStep DEF Goto
  <1>6. QED
    BY <1>4, <1>5

\* A task ends, and the library stays as it is but for the row of a repair.
LEMMA EndingStep ==
    ASSUME LibraryInv, NEW t \in Tasks, GivesUp(t) \/ Commit(t) \/ InstallFails(t) \/ Refused(t) \/ InsertRow(t)
    PROVE  LibraryInv'
  <1>0. TypeOK /\ TaskInv
    BY DEF LibraryInv
  <1>1. /\ pc[t] \in {"look", "aside", "commit", "failed", "scan", "copied", "check", "insert"}
        /\ UNCHANGED <<path, dir, list>>
    BY DEF GivesUp, Commit, InstallFails, Refused, InsertRow, At, library
  <1>2. t \in alone => Knows(t)
    BY DEF LibraryInv
  <1>3. CASE pc[t] # "commit" /\ row' = row /\ Ends(t, parted)
    <2>1. ASSUME t \in alone PROVE parted \/ list' = Enabled(row)'
      <3>1. Now = before /\ (parted \/ before.list = Enabled(before.row))
        BY <1>1, <1>2, <1>3, <2>1 DEF Knows, Untouched
      <3>2. before.list = list /\ before.row = row
        BY <3>1 DEF Now
      <3>3. Enabled(row)' = Enabled(row) /\ list' = list
        BY <1>1, <1>3 DEF Enabled
      <3>4. QED
        BY <3>1, <3>2, <3>3
    <2>2. QED
      BY <1>0, <1>1, <1>3, <2>1, EndsStep DEF TypeOK
  <1>4. CASE Commit(t)
    <2>1. row' = row /\ Ends(t, parted /\ aim[t] # "on") /\ pc[t] = "commit"
      BY <1>4 DEF Commit, At, library
    <2>2. ASSUME t \in alone PROVE (parted /\ aim[t] # "on") \/ list = Enabled(row)
      <3>1. /\ mod[t] \in Mods /\ aim[t] \in {"off", "on"} /\ prev[t] = before.row[mod[t]]
            /\ prev[t] \in {"none", aim[t]} /\ \A k \in Mods \ {mod[t]} : before.row[k] = "none"
            /\ row = [before.row EXCEPT ![mod[t]] = aim[t]]
            /\ list = IF aim[t] = "on" THEN Enabled(row) ELSE before.list
            /\ parted \/ before.list = Enabled(before.row)
        BY <1>2, <2>1, <2>2 DEF Knows, Installation
      <3>2. CASE aim[t] = "off"
        <4>1. Enabled(before.row) = FALSE /\ Enabled(row) = FALSE
          BY <1>0, <3>1, <3>2 DEF Enabled, TypeOK
        <4>2. list = before.list
          BY <3>1, <3>2
        <4>3. (parted /\ aim[t] # "on") \/ list = FALSE
          BY <3>1, <3>2, <4>1, <4>2
        <4>4. QED
          BY <4>1, <4>3
      <3>3. QED
        BY <3>1, <3>2
    <2>3. t \in alone => (parted /\ aim[t] # "on") \/ list' = Enabled(row)'
      BY <1>1, <2>1, <2>2 DEF Enabled
    <2>4. QED
      BY <1>0, <1>1, <2>1, <2>3, EndsStep DEF TypeOK
  <1>5. CASE InsertRow(t) /\ Ends(t, FALSE)
    <2>1. row' = [row EXCEPT ![mod[t]] = aim[t]] \/ row' = row
      BY <1>5 DEF InsertRow
    <2>2. ASSUME t \in alone PROVE list' = Enabled(row)'
      <3>1. mod[t] \in Mods /\ aim[t] = OnDisk /\ Unmanaged /\ (parted \/ before.list = Enabled(before.row)) /\ Now = before
        BY <1>2, <1>5, <2>2 DEF InsertRow, At, Knows, Repair, Untouched
      <3>2. CASE row' = row
        <4>1. row' = [row EXCEPT ![mod[t]] = aim[t]] \/ parted = FALSE
          BY <1>0, <1>5, <2>2 DEF InsertRow, Ends, TypeOK
        <4>2. ASSUME parted = FALSE PROVE list' = Enabled(row)'
          <5>1. list = Enabled(row)
            BY <3>1, <4>2 DEF Now
          <5>2. Enabled(row)' = Enabled(row) /\ list' = list
            BY <1>1, <3>2 DEF Enabled
          <5>3. QED
            BY <5>1, <5>2
        <4>3. ASSUME row' = [row EXCEPT ![mod[t]] = aim[t]] PROVE list' = Enabled(row)'
          BY <1>0, <1>1, <3>1, <4>3 DEF Enabled, OnDisk, Unmanaged, TypeOK
        <4>4. QED
          BY <4>1, <4>2, <4>3
      <3>3. CASE row' = [row EXCEPT ![mod[t]] = aim[t]]
        BY <1>0, <1>1, <3>1, <3>3 DEF Enabled, OnDisk, Unmanaged, TypeOK
      <3>4. QED
        BY <2>1, <3>2, <3>3
    <2>3. row' \in [Mods -> Switches]
      <3>1. aim[t] \in Switches
        BY <1>0 DEF TypeOK
      <3>2. QED
        BY <1>0, <2>1, <3>1 DEF TypeOK
    <2>4. QED
      BY <1>0, <1>1, <1>5, <2>2, <2>3, EndsStep DEF TypeOK
  <1>6. QED
    BY <1>3, <1>4, <1>5 DEF GivesUp, Commit, InstallFails, Refused, InsertRow, At, library

-----------------------------------------------------------------------------
\* The steps of a task, but for its beginning, with those that end it.
WorksOn(t) ==
    \/ Look(t) \/ GivesUp(t) \/ Aside(t) \/ Place(t) \/ ReadModSettings(t) \/ UpsertMod(t) \/ Commit(t)
    \/ CommitFails(t) \/ UndoRow(t) \/ UndoList(t) \/ UndoFiles(t) \/ InstallFails(t)
    \/ ChangeRow(t) \/ RemoveTarget(t) \/ ListMods(t) \/ WriteModSettings(t)
    \/ Refused(t) \/ ScanForRepair(t) \/ CheckRecord(t) \/ InsertRow(t) \/ CopyTree(t) \/ InstallCopy(t)

Begins(t) ==
    \/ Release(t) \/ BeginImport(t) \/ \E enable \in {"off", "on"} : BeginInstall(t, enable)
    \/ \E m \in Mods : BeginDelete(t, m) \/ \E enable \in {"off", "on"} : BeginSwitch(t, m, enable)
    \/ \E k \in {"copy", "repair"} : BeginLocal(t, k)

LEMMA NextCases ==
    LibraryNext => Inspect \/ Sweep \/ (\E t \in Tasks : Begins(t) \/ WorksOn(t)) \/ Restart
  BY DEF LibraryNext, Install, Change, ActOnLocalFinding, Begins, WorksOn

LEMMA WorkStep == ASSUME LibraryInv, NEW t \in Tasks, WorksOn(t) PROVE LibraryInv'
  <1>1. CASE CommitFails(t)
    <2>1. /\ Installing(t, pc[t]) /\ pc[t] = "commit" /\ aim[t] = "on" /\ Goto(t, "undo_row")
          /\ UNCHANGED <<row, path, dir, list, mod, prev, aim, backup, body, seen>>
      BY <1>1 DEF CommitFails, Installing, At, library
    <2>2. list' \in BOOLEAN
      BY <2>1 DEF LibraryInv, TypeOK
    <2>3. QED
      BY <2>1, <2>2, RollsBack
  <1>2. CASE ~CommitFails(t)
    BY <1>2, LookStep, FilesStep, ReadStep, UpsertStep, UndoStep, ChangeStep, RewriteStep, LocalStep, EndingStep DEF WorksOn
  <1>3. QED
    BY <1>1, <1>2

LEMMA RestartStep == LibraryInv /\ Restart => LibraryInv'
  <1> SUFFICES ASSUME LibraryInv, Restart PROVE LibraryInv'
    OBVIOUS
  <1>0. TypeOK
    BY DEF LibraryInv
  <1>1. TypeOK'
    <2>1. Nothing \in [row : [Mods -> Switches], dir : [Mods -> 0..New], list : BOOLEAN]
      BY DEF Nothing, Switches, New
    <2>2. list' \in BOOLEAN /\ parted' \in BOOLEAN
      BY <1>0 DEF Restart, TypeOK
    <2>3. QED
      BY <1>0, <2>1, <2>2 DEF Restart, TypeOK, Switches, New
  <1>2. TaskInv' /\ AloneInv' /\ alone' = {}
    BY DEF Restart, TaskInv, AloneInv
  <1>3. QuietSettings'
    <2>1. CASE \A t \in Tasks : pc[t] \in {"idle", "claimed"}
      <3>1. list' = list /\ parted' = parted /\ row' = row
        BY <1>0, <2>1 DEF Restart, TypeOK
      <3>2. QED
        BY <2>1, <3>1 DEF QuietSettings, LibraryInv, Enabled
    <2>2. CASE ~\A t \in Tasks : pc[t] \in {"idle", "claimed"}
      BY <2>2 DEF Restart, QuietSettings
    <2>3. QED
      BY <2>1, <2>2
  <1>4. QED
    BY <1>1, <1>2, <1>3 DEF LibraryInv

LEMMA StutterStep == LibraryInv /\ UNCHANGED libraryVars => LibraryInv'
  <1> SUFFICES ASSUME LibraryInv, UNCHANGED libraryVars PROVE LibraryInv'
    OBVIOUS
  <1>1. UNCHANGED <<library, history, mod, prev, aim, backup, body, seen, pc, kind, source, registry>>
    BY DEF libraryVars, locals
  <1>2. TypeOK' /\ TaskInv'
    BY <1>1 DEF LibraryInv, TypeOK, TaskInv, registry, library, history
  <1>3. QED
    BY <1>1, <1>2, BesideStep

LEMMA InitLibrary == LibraryInit => LibraryInv
  <1> SUFFICES ASSUME LibraryInit PROVE LibraryInv
    OBVIOUS
  <1>1. TypeOK
    <2>1. Nothing \in [row : [Mods -> Switches], dir : [Mods -> 0..New], list : BOOLEAN]
      BY DEF Nothing, Switches, New
    <2>2. list \in BOOLEAN /\ parted \in BOOLEAN
      BY DEF LibraryInit, Enabled
    <2>3. dir \in [Mods -> 0..New]
      BY DEF LibraryInit, New
    <2>4. QED
      BY <2>1, <2>2, <2>3 DEF LibraryInit, TypeOK, Switches, New
  <1>2. TaskInv /\ AloneInv /\ alone = {}
    BY DEF LibraryInit, TaskInv, AloneInv
  <1>3. QuietSettings
    BY DEF LibraryInit, QuietSettings
  <1>4. QED
    BY <1>1, <1>2, <1>3 DEF LibraryInv

\* LibraryInv is an invariant.
THEOREM LibraryInvariance == LibrarySpec => []LibraryInv
  <1>1. LibraryInv /\ [LibraryNext]_libraryVars => LibraryInv'
    BY NextCases, InspectStep, BeginStep, WorkStep, RestartStep, StutterStep DEF Begins
  <1>2. QED
    BY <1>1, InitLibrary, PTL DEF LibrarySpec

\* QuietSettings holds of every number of tasks and mods.
THEOREM SettingsNameTheMods == LibrarySpec => []QuietSettings
  <1>1. LibraryInv => QuietSettings
    BY DEF LibraryInv
  <1>2. QED
    BY <1>1, LibraryInvariance, PTL

-----------------------------------------------------------------------------
\* The inspections.
LEMMA EndsOrKeeps ==
    ASSUME NEW t \in Tasks, Begins(t) \/ WorksOn(t)
    PROVE  Release(t) \/ BeginImport(t) \/ (\E apart : Ends(t, apart)) \/ UNCHANGED <<registry, source>>
  <1>1. CASE Begins(t)
    BY <1>1 DEF Begins, BeginImport, BeginInstall, BeginDelete, BeginSwitch, BeginLocal
  <1>2. CASE Look(t) \/ Aside(t) \/ Place(t) \/ ReadModSettings(t) \/ UpsertMod(t) \/ CommitFails(t)
    BY <1>2 DEF Look, Aside, Place, ReadModSettings, UpsertMod, CommitFails, Installing
  <1>3. CASE GivesUp(t) \/ Commit(t) \/ InstallFails(t) \/ Refused(t) \/ InsertRow(t)
    BY <1>3 DEF GivesUp, Commit, InstallFails, Refused, InsertRow
  <1>4. CASE UndoRow(t) \/ UndoList(t) \/ UndoFiles(t)
    BY <1>4 DEF UndoRow, UndoList, UndoFiles, Undoing, locals
  <1>5. CASE ChangeRow(t) \/ RemoveTarget(t)
    BY <1>5 DEF ChangeRow, RemoveTarget, locals
  <1>6. CASE ListMods(t) \/ WriteModSettings(t)
    BY <1>6 DEF ListMods, WriteModSettings, RewriteFails, Installing
  <1>7. CASE ScanForRepair(t) \/ CheckRecord(t) \/ CopyTree(t) \/ InstallCopy(t)
    BY <1>7 DEF ScanForRepair, CheckRecord, CopyTree, InstallCopy, Repairing, locals
  <1>8. QED
    BY <1>1, <1>2, <1>3, <1>4, <1>5, <1>6, <1>7 DEF WorksOn

\* No step of a task at work makes a claim.
LEMMA NobodyWaits ==
    ASSUME TypeOK, NEW t \in Tasks, Begins(t) \/ WorksOn(t), NEW s \in Tasks, pc'[s] = "claimed"
    PROVE  pc[s] = "claimed"
  <1> USE DEF At, Goto, TypeOK
  <1>1. CASE Begins(t)
    BY <1>1 DEF Begins, Release, BeginImport, BeginInstall, BeginDelete, BeginSwitch, BeginLocal
  <1>2. CASE Look(t) \/ Aside(t) \/ Place(t) \/ ReadModSettings(t) \/ UpsertMod(t) \/ CommitFails(t)
    BY <1>2 DEF Look, Aside, Place, ReadModSettings, UpsertMod, CommitFails, Installing, Ends
  <1>3. CASE GivesUp(t) \/ Commit(t) \/ InstallFails(t) \/ Refused(t) \/ InsertRow(t)
    BY <1>3 DEF GivesUp, Commit, InstallFails, Refused, InsertRow, Ends
  <1>4. CASE UndoRow(t) \/ UndoList(t) \/ UndoFiles(t)
    BY <1>4 DEF UndoRow, UndoList, UndoFiles, Undoing
  <1>5. CASE ChangeRow(t) \/ RemoveTarget(t)
    BY <1>5 DEF ChangeRow, RemoveTarget, Ends
  <1>6. CASE ListMods(t) \/ WriteModSettings(t)
    BY <1>6 DEF ListMods, WriteModSettings, RewriteFails, Installing, Ends
  <1>7. CASE ScanForRepair(t) \/ CheckRecord(t) \/ CopyTree(t) \/ InstallCopy(t)
    BY <1>7 DEF ScanForRepair, CheckRecord, CopyTree, InstallCopy, Repairing
  <1>8. QED
    BY <1>1, <1>2, <1>3, <1>4, <1>5, <1>6, <1>7 DEF WorksOn

LEMMA StagingStep == StagingInv /\ TypeOK /\ [LibraryNext]_libraryVars => StagingInv'
  <1> SUFFICES ASSUME StagingInv, TypeOK, [LibraryNext]_libraryVars PROVE StagingInv'
    OBVIOUS
  <1>1. ASSUME UNCHANGED <<registry, source>>, \A s \in Tasks : pc'[s] = "claimed" => pc[s] = "claimed"
        PROVE  StagingInv'
    BY <1>1 DEF StagingInv, StagingKept, registry
  <1>2. ASSUME NEW t \in Tasks, NEW apart, Ends(t, apart) PROVE StagingInv'
    <2>1. \A s \in Tasks : source'[s] = IF s = t THEN {} ELSE source[s]
      BY <1>2 DEF Ends, TypeOK
    <2>2. \A s \in Tasks : pc'[s] = "claimed" => pc[s] = "claimed"
      BY <1>2 DEF Ends, Goto, TypeOK
    <2>3. QED
      BY <1>2, <2>1, <2>2 DEF StagingInv, StagingKept, Ends, Gone
  <1>3. ASSUME NEW t \in Tasks, Release(t) PROVE StagingInv'
    <2>1. \A s \in Tasks : source'[s] = IF s = t THEN {} ELSE source[s]
      BY <1>3 DEF Release, TypeOK
    <2>2. pc[t] = "claimed" /\ \A s \in Tasks : pc'[s] = "claimed" => pc[s] = "claimed"
      BY <1>3 DEF Release, At, Goto, TypeOK
    <2>3. QED
      BY <1>3, <2>1, <2>2 DEF StagingInv, StagingKept, Release
  <1>4. ASSUME NEW i \in Inspections, NEW t \in Tasks, Claim(i, t) PROVE StagingInv'
    <2>1. LookUp(i) /\ claimed' = claimed \cup {i} /\ UNCHANGED <<inspecting, preparing>>
      BY <1>4 DEF Claim
    <2>2. \A s \in Tasks : source'[s] = IF s = t THEN {i} ELSE source[s]
      BY <1>4 DEF Claim, TypeOK
    <2>3. \A s \in Tasks \ {t} : pc'[s] = pc[s]
      BY <1>4 DEF Claim, Goto, TypeOK
    <2>4. QED
      BY <2>1, <2>2, <2>3 DEF StagingInv, StagingKept, LookUp, Gone, Expirable
  <1>5. ASSUME NEW i \in Inspections,
               NewRecord(i) \/ InspectFails(i) \/ FinishRecord(i) \/ BeginSelection(i) \/ PrepareCandidate(i) \/ EndSelection(i)
        PROVE  StagingInv'
    <2>1. CASE NewRecord(i) \/ InspectFails(i)
      BY <2>1 DEF StagingInv, StagingKept, NewRecord, InspectFails, locals
    <2>2. CASE FinishRecord(i)
      BY <2>2 DEF StagingInv, StagingKept, FinishRecord, Expirable, locals
    <2>3. CASE BeginSelection(i)
      BY <2>3 DEF StagingInv, StagingKept, BeginSelection, LookUp, Expirable, Gone, locals
    <2>4. CASE PrepareCandidate(i)
      BY <2>4 DEF StagingInv, StagingKept, PrepareCandidate, locals
    <2>5. CASE EndSelection(i)
      BY <2>5 DEF StagingInv, StagingKept, EndSelection, Gone, locals
    <2>6. QED
      BY <1>5, <2>1, <2>2, <2>3, <2>4, <2>5
  <1>6. CASE Sweep
    BY <1>6 DEF StagingInv, StagingKept, Sweep, Expirable, Gone, locals
  <1>7. CASE Restart
    BY <1>7 DEF StagingInv, StagingKept, Restart
  <1>8. CASE UNCHANGED libraryVars
    BY <1>1, <1>8 DEF libraryVars, locals
  <1>9. ASSUME NEW t \in Tasks, BeginImport(t) PROVE StagingInv'
    <2>1. \A s \in Tasks : pc'[s] = "claimed" => s # t /\ pc[s] = "claimed"
      BY <1>9 DEF BeginImport, Goto, TypeOK
    <2>2. QED
      BY <1>9, <2>1 DEF StagingInv, StagingKept, BeginImport
  <1>10. QED
    BY <1>1, <1>2, <1>3, <1>4, <1>5, <1>6, <1>7, <1>8, <1>9, NextCases, EndsOrKeeps, NobodyWaits DEF Inspect

\* StagingKept holds of every number of inspections and tasks.
THEOREM StagingSafe == LibrarySpec => []StagingKept
  <1>1. LibraryInit => StagingInv
    BY DEF LibraryInit, StagingInv, StagingKept
  <1>2. StagingInv => StagingKept
    BY DEF StagingInv
  <1>3. LibraryInv => TypeOK
    BY DEF LibraryInv
  <1>4. QED
    BY <1>1, <1>2, <1>3, StagingStep, LibraryInvariance, PTL DEF LibrarySpec

-----------------------------------------------------------------------------
\* The end of an installation or a repair that is alone.
LEMMA Endings ==
    ASSUME LibraryInv, LibraryNext, NEW t \in alone, pc'[t] = "idle", pc[t] \in {"look", "aside", "failed", "commit", "insert"}
    PROVE  /\ UNCHANGED <<path, dir, list>>
           /\ row' = row \/ (pc[t] = "insert" /\ row' = [row EXCEPT ![mod[t]] = aim[t]])
  <1>0. TypeOK /\ t \in Tasks /\ \A s \in Tasks \ {t} : pc[s] \in Idle
    BY DEF LibraryInv, AloneInv, TypeOK
  <1>1. CASE Inspect \/ Sweep
    BY <1>0, <1>1 DEF Inspect, Sweep, NewRecord, InspectFails, FinishRecord, BeginSelection,
          PrepareCandidate, EndSelection, Claim, At, Goto, TypeOK
  <1>2. ASSUME NEW s \in Tasks, Begins(s) PROVE FALSE
    BY <1>0, <1>2 DEF Begins, Release, BeginImport, BeginInstall, BeginDelete, BeginSwitch, BeginLocal, At, Goto, TypeOK
  <1>3. ASSUME NEW s \in Tasks, WorksOn(s), s # t PROVE FALSE
    <2>1. pc[s] \notin Idle
      <3>1. CASE Look(s) \/ Aside(s) \/ Place(s) \/ ReadModSettings(s) \/ UpsertMod(s) \/ CommitFails(s)
        BY <3>1 DEF Look, Aside, Place, ReadModSettings, UpsertMod, CommitFails, Installing, At
      <3>2. CASE GivesUp(s) \/ Commit(s) \/ InstallFails(s) \/ Refused(s) \/ InsertRow(s)
        BY <3>2 DEF GivesUp, Commit, InstallFails, Refused, InsertRow, At
      <3>3. CASE UndoRow(s) \/ UndoList(s) \/ UndoFiles(s)
        BY <3>3 DEF UndoRow, UndoList, UndoFiles, Undoing, At
      <3>4. CASE ChangeRow(s) \/ RemoveTarget(s) \/ ListMods(s) \/ WriteModSettings(s)
        BY <3>4 DEF ChangeRow, RemoveTarget, Changes, ListMods, WriteModSettings, At
      <3>5. CASE ScanForRepair(s) \/ CheckRecord(s) \/ CopyTree(s) \/ InstallCopy(s)
        BY <3>5 DEF ScanForRepair, CheckRecord, CopyTree, InstallCopy, Repairing, At
      <3>6. QED
        BY <1>3, <3>1, <3>2, <3>3, <3>4, <3>5 DEF WorksOn
    <2>2. QED
      BY <1>0, <1>3, <2>1
  <1>4. CASE WorksOn(t)
    <2>1. CASE Look(t) \/ Aside(t) \/ Place(t) \/ ReadModSettings(t) \/ UpsertMod(t) \/ CommitFails(t)
      BY <1>0, <2>1 DEF Look, Aside, Place, ReadModSettings, UpsertMod, CommitFails, Installing, At, Goto, TypeOK
    <2>2. CASE GivesUp(t) \/ Commit(t) \/ InstallFails(t) \/ Refused(t) \/ InsertRow(t)
      BY <2>2 DEF GivesUp, Commit, InstallFails, Refused, InsertRow, At, library
    <2>3. CASE UndoRow(t) \/ UndoList(t) \/ UndoFiles(t)
      BY <1>0, <2>3 DEF UndoRow, UndoList, UndoFiles, Undoing, At, Goto, TypeOK
    <2>4. CASE ChangeRow(t) \/ RemoveTarget(t) \/ ListMods(t) \/ WriteModSettings(t)
      BY <2>4 DEF ChangeRow, RemoveTarget, Changes, ListMods, WriteModSettings, At
    <2>5. CASE ScanForRepair(t) \/ CheckRecord(t) \/ CopyTree(t) \/ InstallCopy(t)
      BY <2>5 DEF ScanForRepair, CheckRecord, CopyTree, InstallCopy, Repairing, At
    <2>6. QED
      BY <1>4, <2>1, <2>2, <2>3, <2>4, <2>5 DEF WorksOn
  <1>5. CASE Restart
    BY <1>0, <1>5 DEF Restart, TypeOK
  <1>6. QED
    BY <1>1, <1>2, <1>3, <1>4, <1>5, NextCases

\* FailedInstallRestores holds of every number of tasks and mods.
THEOREM FailuresRestore == LibrarySpec => FailedInstallRestores
  <1>1. ASSUME LibraryInv, LibraryNext, NEW t \in alone, pc[t] \in {"look", "aside", "failed"}, pc'[t] = "idle"
        PROVE  Now' = before
    <2>1. Now = before
      BY <1>1 DEF LibraryInv, Knows, Untouched
    <2>2. UNCHANGED <<row, dir, list>>
      BY <1>1, Endings
    <2>3. QED
      BY <2>1, <2>2 DEF Now
  <1>2. LibraryInv /\ [LibraryNext]_libraryVars
            => [\A t \in alone : pc[t] \in {"look", "aside", "failed"} /\ pc'[t] = "idle" => Now' = before]_libraryVars
    BY <1>1
  <1>3. QED
    BY <1>2, LibraryInvariance, PTL DEF LibrarySpec, FailedInstallRestores

\* InstallKeepsOne holds of every number of tasks and mods.
THEOREM OneIsInstalled == LibrarySpec => InstallKeepsOne
  <1> DEFINE One(t) == /\ pc'[t] = "idle"
                       /\ pc[t] = "commit" \/ (pc[t] = "insert" /\ row' # row)
                       => \E m \in Mods :
                            /\ row'[m] # "none" /\ dir'[path'[m]] \in IF pc[t] = "commit" THEN {New} ELSE {1, New}
                            /\ \A k \in Mods \ {m} : row'[k] = "none" /\ before.row[k] = "none"
                            /\ before.row[m] \in {"none", row'[m]}
  <1>1. ASSUME LibraryInv, LibraryNext, NEW t \in alone PROVE One(t)
    <2>0. TypeOK /\ Knows(t)
      BY <1>1 DEF LibraryInv
    <2>1. ASSUME pc'[t] = "idle", pc[t] = "commit" PROVE One(t)
      <3>1. /\ mod[t] \in Mods /\ aim[t] \in {"off", "on"} /\ before.row[mod[t]] \in {"none", aim[t]}
            /\ \A k \in Mods \ {mod[t]} : before.row[k] = "none"
            /\ dir[path[mod[t]]] = New /\ row = [before.row EXCEPT ![mod[t]] = aim[t]]
        BY <2>0, <2>1 DEF Knows, Installation, Target
      <3>2. UNCHANGED <<row, path, dir>>
        BY <1>1, <2>1, Endings
      <3>3. row[mod[t]] = aim[t] /\ \A k \in Mods \ {mod[t]} : row[k] = "none"
        BY <2>0, <3>1 DEF TypeOK
      <3>4. QED
        BY <2>1, <3>1, <3>2, <3>3
    <2>2. ASSUME pc'[t] = "idle", pc[t] = "insert", row' # row PROVE One(t)
      <3>1. mod[t] \in Mods /\ dir[path[mod[t]]] > 0 /\ aim[t] = OnDisk /\ Unmanaged /\ Now = before
        BY <2>0, <2>2 DEF Knows, Repair, Untouched
      <3>2. UNCHANGED <<path, dir>> /\ row' = [row EXCEPT ![mod[t]] = aim[t]]
        BY <1>1, <2>2, Endings
      <3>3. \A k \in Mods : row[k] = "none" /\ before.row[k] = "none"
        BY <3>1 DEF Unmanaged, Now
      <3>4. row'[mod[t]] = aim[t] /\ aim[t] # "none" /\ \A k \in Mods \ {mod[t]} : row'[k] = "none"
        BY <2>0, <3>1, <3>2, <3>3 DEF TypeOK, OnDisk
      <3>5. dir'[path'[mod[t]]] \in {1, New}
        BY <2>0, <3>1, <3>2 DEF TypeOK, New
      <3>6. QED
        BY <2>2, <3>1, <3>3, <3>4, <3>5
    <2>3. QED
      BY <2>1, <2>2
  <1>2. LibraryInv /\ [LibraryNext]_libraryVars => [\A t \in alone : One(t)]_libraryVars
    BY <1>1
  <1>3. QED
    BY <1>2, LibraryInvariance, PTL DEF LibrarySpec, InstallKeepsOne
===========================================================================
