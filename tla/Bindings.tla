------------------------------ MODULE Bindings ------------------------------
(***************************************************************************)
(* The player catalog of the AstrBot plugin and the binding of a member to *)
(* a player (astrbot_plugin_palpanel/storage.py, main.py), fed by the      *)
(* synchronisation of the panel (api/astrbot_integration.go) from the      *)
(* index of the active save source.  One member and one player of the      *)
(* worlds in Home: bindings have nothing in common but the catalog.        *)
(***************************************************************************)
EXTENDS SaveSources

CONSTANT Home   \* sources whose worlds the player is in

ASSUME HomeAssumption == Home \subseteq Source

VARIABLE
    binding     \* "none", or the status of the row: "active", "frozen" or "unbound"

allVars == <<sourceVars, binding>>

BindingsTypeOK == binding \in {"none", "active", "frozen", "unbound"}

BindingsInit == SourcesInit /\ binding = "none"

-----------------------------------------------------------------------------
\* sync_catalog, one transaction: the message replaces the catalog, freezes the bindings of
\* players it lacks and makes all others active.  Messages of tasks may overtake each other.
SyncCatalog(t) ==
    /\ At(t, "send") /\ End(t)
    /\ binding' = (IF binding = "none" THEN "none" ELSE IF index[t].of \in Home THEN "active" ELSE "frozen")
    /\ UNCHANGED <<sources, world, path, cache, mu, history>>

\* confirm_challenge, whose code may be older than the catalog, and admin_binding, which asks
\* the catalog for nothing.
Bind ==
    /\ binding' = "active"
    /\ UNCHANGED sourceVars

SetBindingStatus(status) ==
    /\ binding # "none" /\ binding' = status
    /\ UNCHANGED sourceVars

BindingsNext ==
    \/ SourcesNext /\ UNCHANGED binding
    \/ \E t \in Tasks : SyncCatalog(t)
    \/ Bind
    \/ \E status \in {"frozen", "unbound"} : SetBindingStatus(status)

BindingsSpec == BindingsInit /\ [][BindingsNext]_allVars

-----------------------------------------------------------------------------
(* Properties. *)

\* A member whose player is in every world is not frozen by switching sources, by saves, failed
\* rebuilds or restarts: a catalog without him is only sent by a synchronisation that has lost
\* the cache or the world while it rebuilt (saveindex.go:275-281, storage.py:97).
FrozenOnlyByRace ==
    [][\A t \in Tasks : At(t, "send") /\ stage'[t] = "idle" /\ binding = "active" /\ binding' = "frozen"
            => t \in raced \/ index[t].of \in Source \ Home]_allVars

=============================================================================
