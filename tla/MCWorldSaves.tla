---------------------------- MODULE MCWorldSaves ----------------------------
(* Two jobs of any kind: a reset and the restore of its archive, a backup  *)
(* and its restore, or two resets of the same world or of two worlds.      *)
EXTENDS WorldSaves

\* Bound: a server is lost only while one world is in use.
OnlyWorld == CHOOSE w \in Worlds : TRUE
OneWorld ==
    /\ setting = OnlyWorld /\ server \in {OnlyWorld, NoWorld}
    /\ \A w \in Worlds \ {OnlyWorld} : disk[w] = {}
Bounded == lost = {} \/ OneWorld

MCSpec ==
    /\ Init /\ [][Next /\ Bounded']_vars
    /\ \A j \in Jobs : WF_vars(Work(j) /\ Bounded')
=============================================================================
