----------------------------- MODULE MCServices -----------------------------
(***************************************************************************)
(* What the panel does beside the life of the server, for TLC: the         *)
(* schedule over the board of jobs, the settings of the game, the setup of *)
(* Docker, the translation, the downloads.  They share nothing: turn says  *)
(* which of them a behaviour is about, the others stay where they begin,   *)
(* in one of their initial states.                                         *)
(***************************************************************************)
EXTENDS Scheduler, SettingsFile, DockerSetup, Translation, Downloads

DailyUpdate == [type |-> "update", enabled |-> TRUE]
CheckSwitchedOff == [type |-> "version_check", enabled |-> FALSE]
TwoDefs == {DailyUpdate, CheckSwitchedOff}

\* A key that is a text and one that is a number; a text of a comma and the two symbols that are
\* escaped, and one that looks closed.
SettingsOrder == <<"AdminPassword", "ServerPlayerMaxNum">>
SettingsTexts == {<<",", Mark, Escape>>, <<"(", Mark, ")">>}
SettingsNumbers == {<<"1">>}

\* An update of the provider, and one of the model alone.
ProviderOrModel == {{"base", "key"}, {"model"}}

\* Ids are given in their order.
InOrder == \A j \in Jobs : outcome[j] # "absent" => j = 1 \/ outcome[j - 1] # "absent"

VARIABLE turn

ServicesInit ==
    /\ turn \in {"schedule", "rows", "settings", "setup", "translation", "downloads"}
    /\ SchedulerInit /\ SettingsInit /\ SetupInit /\ TranslationInit /\ DownloadInit
    /\ turn # "schedule" => table = DailyUpdate /\ ~due
    /\ turn # "settings" => ini["own"].content # NoSettings
    /\ turn # "setup" => host = "all" /\ docker = "up"
    /\ turn # "downloads" => bytes[Old] = "whole" /\ cache = NoFile /\ part = NoFile

\* Bound: all jobs only without edits and the ticker.
TwoRows == Cardinality({j \in Jobs : outcome[j] # "absent"}) <= 2

ServicesNext ==
    \/ /\ turn \in {"schedule", "rows"} /\ SchedulerNext
       /\ InOrder'
       /\ IF turn = "rows" THEN UNCHANGED <<editing, due>> ELSE TwoRows'
       /\ UNCHANGED <<turn, settingsVars, setupVars, translationVars, downloadVars>>
    \/ turn = "settings" /\ SettingsNext /\ UNCHANGED <<turn, allVars, setupVars, translationVars, downloadVars>>
    \/ turn = "setup" /\ SetupNext /\ UNCHANGED <<turn, allVars, settingsVars, translationVars, downloadVars>>
    \/ turn = "translation" /\ TranslationNext /\ UNCHANGED <<turn, allVars, settingsVars, setupVars, downloadVars>>
    \/ turn = "downloads" /\ DownloadNext /\ UNCHANGED <<turn, allVars, settingsVars, setupVars, translationVars>>

ServicesSpec ==
    ServicesInit /\ [][ServicesNext]_<<turn, allVars, settingsVars, setupVars, translationVars, downloadVars>>
=============================================================================
