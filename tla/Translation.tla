----------------------------- MODULE Translation -----------------------------
(***************************************************************************)
(* The translation of mod descriptions (internal/aitranslation): its       *)
(* configuration lies in two rows and two files.  An update changes them   *)
(* one after the other under a mutex, and everybody else reads them one    *)
(* after the other without it: the address of one provider may then go     *)
(* with the key of another.                                                *)
(***************************************************************************)
EXTENDS Naturals, Sequences

CONSTANTS
    Updates,        \* the calls of UpdateConfig, each with values of its own
    AskedSets,      \* the fields they may ask to change
    Talks           \* the calls that use the configuration

Fields == <<"base", "model", "key", "http">>
FieldSet == {Fields[i] : i \in 1 .. Len(Fields)}
Unset == "unset"
Blank == [f \in FieldSet |-> Unset]

VARIABLES
    held,       \* the fields as they are stored
    busy,       \* the updates that hold the mutex
    upd,        \* the updates: next field to write, fields asked for, configuration to write
    talk,       \* the other calls: kind, next field to read, fields read so far
    rows,       \* the stored translations: by address and model
    meant,      \* history: the configuration that the updates which ended well amount to
    halfway,    \* history: an update has ended with only some of its fields written
    began,      \* history: meant, when a call began to read
    shaken      \* history: calls that an update, or a halfway configuration, met while they read

translationVars == <<held, busy, upd, talk, rows, meant, halfway, began, shaken>>

TranslationInit ==
    /\ held = Blank /\ meant = Blank
    /\ busy = {} /\ rows = {} /\ shaken = {}
    /\ halfway = FALSE
    /\ upd = [u \in Updates |-> [at |-> 0, asks |-> {}, next |-> Blank]]
    /\ talk = [t \in Talks |-> [kind |-> "none", at |-> "new", got |-> Blank, left |-> Fields]]
    /\ began = [t \in Talks |-> Blank]

Reading(t) == talk[t].at = "read"
Written == Len(Fields) + 1

\* applyConfigUpdate: what is not asked for stays, and a key may be asked to go.
Applied(u, asks, clear, old) ==
    [f \in FieldSet |-> IF f \notin asks THEN old[f] ELSE IF f \in clear THEN Unset ELSE u]

\* An update that is refused leaves everything as it was.
BeginUpdate_unlocked(u) ==
    /\ upd[u].at = 0
    /\ busy' = busy \cup {u}
    /\ \E asks \in AskedSets : \E clear \in SUBSET (asks \cap {"key"}) :
          upd' = [upd EXCEPT ![u] = [at |-> 1, asks |-> asks, next |-> Applied(u, asks, clear, held)]]
    /\ shaken' = shaken \cup {t \in Talks : Reading(t)}
    /\ UNCHANGED <<held, talk, rows, meant, halfway, began>>

BeginUpdate(u) ==
    /\ upd[u].at = 0 /\ busy = {}
    /\ busy' = busy \cup {u}
    /\ \E asks \in AskedSets : \E clear \in SUBSET (asks \cap {"key"}) :
          upd' = [upd EXCEPT ![u] = [at |-> 1, asks |-> asks, next |-> Applied(u, asks, clear, held)]]
    /\ shaken' = shaken \cup {t \in Talks : Reading(t)}
    /\ UNCHANGED <<held, talk, rows, meant, halfway, began>>

\* The rows are written in any case, the files only if the update asks for them.
Writes(u, f) == f \in {"base", "model"} \/ f \in upd[u].asks

WriteField(u) ==
    LET f == Fields[upd[u].at] IN
    /\ upd[u].at \in 1 .. Len(Fields)
    /\ held' = IF Writes(u, f) THEN [held EXCEPT ![f] = upd[u].next[f]] ELSE held
    /\ upd' = [upd EXCEPT ![u].at = @ + 1]
    /\ UNCHANGED <<busy, talk, rows, meant, halfway, began, shaken>>

\* A field that cannot be written ends the update; a file may have been replaced all the same.
EndHalfway(u) ==
    LET f == Fields[upd[u].at] IN
    /\ upd[u].at \in 1 .. Len(Fields) /\ Writes(u, f)
    /\ held' \in {held} \cup (IF f \in {"key", "http"} THEN {[held EXCEPT ![f] = upd[u].next[f]]} ELSE {})
    /\ halfway' = (halfway \/ held' # meant)
    /\ upd' = [upd EXCEPT ![u].at = Written + 1]
    /\ busy' = busy \ {u}
    /\ UNCHANGED <<talk, rows, meant, began, shaken>>

EndUpdate(u) ==
    /\ upd[u].at = Written
    /\ upd' = [upd EXCEPT ![u].at = Written + 1]
    /\ busy' = busy \ {u}
    /\ meant' = IF halfway THEN held ELSE [f \in FieldSet |-> IF f \in upd[u].asks THEN upd[u].next[f] ELSE meant[f]]
    /\ halfway' = FALSE
    /\ UNCHANGED <<held, talk, rows, began, shaken>>

-----------------------------------------------------------------------------
(* Config, Cached, Test and Translate. *)

Moves(t, at) == talk' = [talk EXCEPT ![t].at = at]

BeginTalk(t) ==
    /\ talk[t].at = "new"
    /\ \E k \in {"config", "cached", "test", "translate", "again"} :
          talk' = [talk EXCEPT ![t].kind = k, ![t].at = "read"]
    /\ began' = [began EXCEPT ![t] = meant]
    /\ shaken' = IF busy # {} \/ halfway THEN shaken \cup {t} ELSE shaken
    /\ UNCHANGED <<held, busy, upd, rows, meant, halfway>>

\* readRuntimeConfig; any of its four reads may fail.
ReadField(t) ==
    LET f == Head(talk[t].left) IN
    /\ Reading(t)
    /\ \/ /\ talk[t].left # <<>>
          /\ talk' = [talk EXCEPT ![t].got[f] = held[f], ![t].left = Tail(@)]
       \/ talk[t].left # <<>> /\ Moves(t, "done")
       \/ talk[t].left = <<>> /\ Moves(t, "ready")
    /\ UNCHANGED <<held, busy, upd, rows, meant, halfway, began, shaken>>

Complete(c) == \A f \in {"base", "model", "key"} : c[f] # Unset
Row(c) == <<c.base, c.model>>

\* Without a complete configuration there is no request; a stored translation saves one, unless it
\* is forced.  A test applies its own fields first and does not store them.
Prepare(t) ==
    /\ talk[t].at = "ready"
    /\ \E got \in IF talk[t].kind = "test" THEN {talk[t].got, [f \in FieldSet |-> t]} ELSE {talk[t].got} :
          talk' = [talk EXCEPT ![t].got = got,
                               ![t].at = IF /\ talk[t].kind \in {"test", "translate", "again"}
                                            /\ Complete(got)
                                            /\ talk[t].kind = "translate" => Row(got) \notin rows
                                         THEN "request" ELSE "done"]
    /\ UNCHANGED <<held, busy, upd, rows, meant, halfway, began, shaken>>

\* The provider answers, and a translation is stored; or it does not, or storing it fails.
Request(t) ==
    /\ talk[t].at = "request"
    /\ Moves(t, "done")
    /\ rows' \in {rows} \cup (IF talk[t].kind = "test" THEN {} ELSE {rows \cup {Row(talk[t].got)}})
    /\ UNCHANGED <<held, busy, upd, meant, halfway, began, shaken>>

TranslationNext ==
    \/ \E u \in Updates : BeginUpdate(u) \/ WriteField(u) \/ EndHalfway(u) \/ EndUpdate(u)
    \/ \E t \in Talks : BeginTalk(t) \/ ReadField(t) \/ Prepare(t) \/ Request(t)

TranslationSpec == TranslationInit /\ [][TranslationNext]_translationVars

\* A call that no update met while it read has read one configuration: the one that the updates
\* which ended well, each applied to what the one before left, amount to.  After an update that
\* ended halfway nothing is promised until another one has ended well.
CalmReadIsWhole == \A t \in Talks \ shaken : talk[t].at = "ready" => talk[t].got = began[t]
=============================================================================
