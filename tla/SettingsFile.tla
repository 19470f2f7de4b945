----------------------------- MODULE SettingsFile -----------------------------
(***************************************************************************)
(* The settings of the game: PalWorldSettings.ini, which the panel reads,  *)
(* merges with an edit and writes as a whole (internal/palconfig, the      *)
(* handlers of internal/api/router.go), the server directory it lies in,   *)
(* which an import changes, and the flag that tells the administrator that *)
(* the running server has other settings than the file.                    *)
(*                                                                         *)
(* A text is a sequence of symbols: a quotation mark, a backslash, a       *)
(* parenthesis, a comma, an equals sign, or a symbol without meaning.      *)
(***************************************************************************)
EXTENDS Naturals, Sequences
LOCAL INSTANCE SequencesExt

CONSTANTS
    KeyOrder,       \* the keys of the settings as Serialize sorts them
    Texts,          \* the values an edit may give them
    Numbers,        \* the texts that strconv.ParseFloat accepts
    Numeric,        \* the keys whose values Validate wants to be numbers
    Edits           \* the handlers and jobs that write the file

Mark == "\""
Escape == "\\"

SettingKeys == {KeyOrder[i] : i \in 1 .. Len(KeyOrder)}
Defaults == [k \in SettingKeys |-> CHOOSE t \in Numbers : TRUE]
Directories == {"own", "imported"}
NoSettings == <<"absent">>

-----------------------------------------------------------------------------
(* The format (internal/palconfig/settings.go). *)

\* How a scan of the file stands: inside quotation marks, after a backslash, in parentheses.
AtStart == [quoted |-> FALSE, escaped |-> FALSE, depth |-> 0]

Scan(at, symbol) ==
    CASE at.escaped -> [at EXCEPT !.escaped = FALSE]
      [] ~at.escaped /\ symbol = Escape -> [at EXCEPT !.escaped = at.quoted]
      [] ~at.escaped /\ symbol = Mark -> [at EXCEPT !.quoted = ~@]
      [] ~at.escaped /\ symbol = "(" /\ ~at.quoted -> [at EXCEPT !.depth = @ + 1]
      [] ~at.escaped /\ symbol = ")" /\ ~at.quoted /\ at.depth > 0 -> [at EXCEPT !.depth = @ - 1]
      [] OTHER -> at

After(text, i) == FoldLeft(Scan, AtStart, SubSeq(text, 1, i))

\* Where the parenthesis that opens a text is closed; no place if it is not.
Closings(text) == {i \in 2 .. Len(text) : text[i] = ")" /\ After(text, i) = AtStart /\ After(text, i - 1).depth = 1}

\* The pieces of a text between the commas that are in no quotation and no parentheses.
Cuts(text) == {0, Len(text) + 1} \cup {i \in 1 .. Len(text) : text[i] = "," /\ After(text, i - 1) = AtStart}
Pieces(text) == {p \in Cuts(text) \X Cuts(text) : p[1] < p[2] /\ \A k \in Cuts(text) : k <= p[1] \/ k >= p[2]}

\* strconv.Quote and strconv.Unquote; what cannot be unquoted stays as it is.
Quote(text) ==
    LET Escaped(out, symbol) == IF symbol \in {Mark, Escape} THEN out \o <<Escape, symbol>> ELSE Append(out, symbol)
    IN  <<Mark>> \o FoldLeft(Escaped, <<>>, text) \o <<Mark>>

Unquote(text) ==
    LET Plain(at, symbol) ==
            CASE at.bad -> at
              [] ~at.bad /\ at.escaped -> [at EXCEPT !.escaped = FALSE, !.out = Append(@, symbol), !.bad = symbol \notin {Mark, Escape}]
              [] ~at.bad /\ ~at.escaped /\ symbol = Escape -> [at EXCEPT !.escaped = TRUE]
              [] OTHER -> [at EXCEPT !.out = Append(@, symbol), !.bad = symbol = Mark]
        inner == FoldLeft(Plain, [out |-> <<>>, escaped |-> FALSE, bad |-> FALSE], SubSeq(text, 2, Len(text) - 1))
    IN  IF Len(text) >= 2 /\ text[1] = Mark /\ text[Len(text)] = Mark /\ ~inner.bad /\ ~inner.escaped
        THEN inner.out ELSE text

Parenthesised(text) == Len(text) >= 2 /\ text[1] = "(" /\ text[Len(text)] = ")"

\* Written without quotation marks and not one group: it ends elsewhere than it seems to.
Loose(text) == Parenthesised(text) /\ Closings(text) # {Len(text)}

FormatValue(text) == IF text # <<>> /\ (text \in Numbers \/ Parenthesised(text)) THEN text ELSE Quote(text)

Serialize(settings) ==
    LET Present == SelectSeq(KeyOrder, LAMBDA k : k \in DOMAIN settings)
        Item(k) == <<k, "=">> \o FormatValue(settings[k])
        Joined(out, k) == IF out = <<>> THEN Item(k) ELSE out \o <<",">> \o Item(k)
    IN  <<"(">> \o FoldLeft(Joined, <<>>, Present) \o <<")">>

\* What reading the file gives: an error, or the settings found.  A file that is absent or
\* empty has none, and that is no error.
Parse(content) ==
    LET end == CHOOSE i \in Closings(content) : \A j \in Closings(content) : i <= j
        body == SubSeq(content, 2, end - 1)
        Item(p) == SubSeq(body, p[1] + 1, p[2] - 1)
        items == {p \in Pieces(body) : Len(Item(p)) >= 2 /\ Item(p)[2] = "="}
        Final(k) == CHOOSE p \in items : Item(p)[1] = k /\ \A o \in items : Item(o)[1] = k => o[1] <= p[1]
    IN  CASE content \in {NoSettings, <<>>} -> [ok |-> TRUE, settings |-> <<>>]
          [] content \notin {NoSettings, <<>>} /\ Closings(content) = {} -> [ok |-> FALSE, settings |-> <<>>]
          [] OTHER -> [ok |-> TRUE, settings |-> [k \in {Item(p)[1] : p \in items} |->
                          Unquote(SubSeq(Item(Final(k)), 3, Len(Item(Final(k)))))]]

Merge(current, updates) ==
    [k \in DOMAIN current \cup DOMAIN updates |-> IF k \in DOMAIN updates THEN updates[k] ELSE current[k]]

\* A file is its content and what reading it gives.
File(content) == [content |-> content, parsed |-> Parse(content)]

\* A write goes over a file that somebody else may have written since it was emptied.
Over(old, new) == File(new \o SubSeq(old.content, Len(new) + 1, Len(old.content)))

\* Settings of known keys, with texts that an edit or a default may give them, none of them loose:
\* written into an empty file they are what reading it gives.
SoundSettings == UNION {[keys -> {t \in Texts \cup Numbers : ~Loose(t)}] : keys \in SUBSET SettingKeys}

ASSUME FormatAssumption ==
    /\ Defaults \in SoundSettings
    /\ \A s \in SoundSettings :
          /\ Parse(Serialize(s)) = [ok |-> TRUE, settings |-> s]
          /\ Over(File(<<>>), Serialize(s)) = File(Serialize(s))

\* Validate: a key the schema knows as a number holds one.
Validate(settings) == \A k \in DOMAIN settings \cap Numeric : settings[k] \in Numbers

-----------------------------------------------------------------------------
VARIABLES
    ini,        \* the file in each directory
    directory,  \* where the panel takes the server to be
    bound,      \* the directory the database remembers
    edit,       \* the calls that write: place, what they set and write, file, whether alone, whether they mark
    game,       \* the server: off, or running with the settings of the file (fresh), or with older ones (stale)
    pending,    \* pending_restart
    launching,  \* a start has launched the server and not yet cleared the flag
    said,       \* history: what the finished calls have set in each file
    torn,       \* history: files where calls met or were cut off, or a loose text was written
    missed      \* history: the flag was cleared for, or never set for, a change the server has not read

settingsVars == <<ini, directory, bound, edit, game, pending, launching, said, torn, missed>>
gameVars == <<game, pending, launching, missed>>

Ended == [at |-> "done", set |-> <<>>, next |-> <<>>, file |-> "own", alone |-> TRUE, marks |-> TRUE]

SettingsInit ==
    /\ \E fresh \in SUBSET {"own"} :
          /\ ini = [d \in Directories |-> File(IF d \in fresh THEN NoSettings ELSE Serialize(Defaults))]
          /\ said = [d \in Directories |-> IF d \in fresh THEN <<>> ELSE Defaults]
    /\ directory = "own" /\ bound = "own"
    /\ edit = [e \in Edits |-> [Ended EXCEPT !.at = "new"]]
    /\ game = "off"
    /\ pending = FALSE /\ launching = FALSE /\ missed = FALSE
    /\ torn = {}

\* A server that has read a file is stale once that file is written.
GameSees(d) == game' = IF game # "off" /\ d = directory THEN "stale" ELSE game

Underway(e) == edit[e].at \in {"merged", "opened"}
Apart(e) == \A o \in Edits \ {e} : ~Underway(o)

\* A call starts; whoever is on the way to a write is no longer alone.
Enter(e, updates, settings, marks) ==
    edit' = [o \in Edits |->
        IF o = e THEN [at |-> "merged", set |-> updates, next |-> settings, file |-> directory,
                       alone |-> Apart(e), marks |-> marks]
        ELSE IF Underway(o) THEN [edit[o] EXCEPT !.alone = FALSE] ELSE edit[o]]

ReadSettings_defaults(e) ==
    /\ edit[e].at = "new"
    /\ ini[directory].parsed.ok
    /\ \E k \in SettingKeys, t \in Texts :
          LET updates == [x \in {k} |-> t]
              next == Merge(Defaults, updates)
          IN  Validate(next) /\ Enter(e, updates, next, TRUE)
    /\ UNCHANGED <<ini, directory, bound, gameVars, said, torn>>

\* updatePalworldConfig: read, merge, validate.  An unreadable file or a bad value ends the call.
ReadSettings(e) ==
    /\ edit[e].at = "new"
    /\ ini[directory].parsed.ok
    /\ \E k \in SettingKeys, t \in Texts :
          LET updates == [x \in {k} |-> t]
              next == Merge(ini[directory].parsed.settings, updates)
          IN  Validate(next) /\ Enter(e, updates, next, TRUE)
    /\ UNCHANGED <<ini, directory, bound, gameVars, said, torn>>

\* InitializeConfig writes the defaults only if there is no file, and marks nothing.
InitializeConfig(e) ==
    /\ edit[e].at = "new"
    /\ ini[directory].content = NoSettings
    /\ Enter(e, Defaults, Defaults, FALSE)
    /\ UNCHANGED <<ini, directory, bound, gameVars, said, torn>>

\* os.WriteFile empties the file, which is the one of the directory valid now, and then writes it.
OpenFile(e) ==
    /\ edit[e].at = "merged"
    /\ ini' = [ini EXCEPT ![directory] = File(<<>>)]
    /\ edit' = [edit EXCEPT ![e].at = "opened", ![e].file = directory, ![e].alone = @ /\ edit[e].file = directory]
    /\ GameSees(directory)
    /\ UNCHANGED <<directory, bound, pending, launching, missed, said, torn>>

WriteFails(e) ==
    /\ Underway(e)
    /\ edit' = [edit EXCEPT ![e] = Ended]
    /\ torn' = IF edit[e].at = "opened" THEN torn \cup {edit[e].file} ELSE torn
    /\ missed' = (missed \/ edit[e].at = "opened")
    /\ UNCHANGED <<ini, directory, bound, game, pending, launching, said>>

WriteSettings(e) ==
    LET d == edit[e].file IN
    /\ edit[e].at = "opened"
    /\ ini' = [ini EXCEPT ![d] = Over(@, Serialize(edit[e].next))]
    /\ said' = [said EXCEPT ![d] = IF d \in torn THEN edit[e].next ELSE Merge(@, edit[e].set)]
    /\ torn' = IF edit[e].alone /\ edit[e].next \in SoundSettings
               THEN torn \ {d} ELSE torn \cup {d}
    /\ edit' = [edit EXCEPT ![e] = IF edit[e].marks THEN [Ended EXCEPT !.at = "written"] ELSE Ended]
    /\ missed' = (missed \/ ~edit[e].marks)
    /\ GameSees(d)
    /\ UNCHANGED <<directory, bound, pending, launching>>

MarkPending_dropped(e) ==
    /\ edit[e].at = "written"
    /\ edit' = [edit EXCEPT ![e] = Ended]
    /\ UNCHANGED <<ini, directory, bound, gameVars, said, torn>>

\* The error of MarkPendingRestart is dropped.
MarkPending(e) ==
    /\ edit[e].at = "written"
    /\ edit' = [edit EXCEPT ![e] = Ended]
    /\ \/ pending' = TRUE /\ UNCHANGED missed
       \/ missed' = TRUE /\ UNCHANGED pending
    /\ UNCHANGED <<ini, directory, bound, game, launching, said, torn>>

-----------------------------------------------------------------------------
(* The server, under operationMu; how it is started and stopped is the matter of ServerProcess. *)

\* A start that finds the server running reports success and clears the flag all the same.
Launch ==
    /\ ~launching /\ directory = bound
    /\ IF game # "off" THEN UNCHANGED <<game, missed>> ELSE game' = "fresh" /\ missed' = FALSE
    /\ launching' = TRUE
    /\ UNCHANGED <<ini, directory, bound, edit, pending, said, torn>>

Relaunch ==
    /\ game # "off" /\ ~launching
    /\ game' = "fresh"
    /\ launching' = TRUE /\ missed' = FALSE
    /\ UNCHANGED <<ini, directory, bound, edit, pending, said, torn>>

\* Set after the launch; the error is dropped, and the flag then stays as it was.
ClearPending ==
    /\ launching /\ launching' = FALSE
    /\ \/ UNCHANGED <<pending, missed>>
       \/ /\ pending' = FALSE
          /\ missed' = (missed \/ game = "stale")
    /\ UNCHANGED <<ini, directory, bound, edit, game, said, torn>>

Halt ==
    /\ game # "off"
    /\ game' = "off" /\ missed' = FALSE
    /\ UNCHANGED <<ini, directory, bound, edit, pending, launching, said, torn>>

\* ImportServerDirectory, with no server running: the database first, then the memory.
RememberDirectory ==
    /\ game = "off" /\ ~launching
    /\ bound' = "imported"
    /\ UNCHANGED <<ini, directory, edit, gameVars, said, torn>>

BindDirectory ==
    /\ ~launching /\ directory # bound
    /\ directory' = bound
    /\ UNCHANGED <<ini, bound, edit, gameVars, said, torn>>

\* The panel ends and comes back; the server lives on.
PanelRestarts ==
    /\ edit' = [e \in Edits |-> IF edit[e].at = "new" THEN edit[e] ELSE Ended]
    /\ torn' = torn \cup {edit[e].file : e \in {o \in Edits : edit[o].at = "opened"}}
    /\ missed' = (missed \/ \E e \in Edits : edit[e].at \in {"opened", "written"})
    /\ launching' = FALSE
    /\ directory' = bound
    /\ UNCHANGED <<ini, bound, game, pending, said>>

SettingsNext ==
    \/ \E e \in Edits : ReadSettings(e) \/ InitializeConfig(e) \/ OpenFile(e) \/ WriteFails(e) \/ WriteSettings(e) \/ MarkPending(e)
    \/ Launch \/ Relaunch \/ ClearPending \/ Halt
    \/ RememberDirectory \/ BindDirectory \/ PanelRestarts

SettingsSpec == SettingsInit /\ [][SettingsNext]_settingsVars

-----------------------------------------------------------------------------
(* Properties. *)

\* What is not touched by an edit stays as it was set: a file holds, key by key, what the calls
\* that ended well have set in it.  Calls that met each other, were cut off between emptying the
\* file and writing it, or wrote a loose text (or what such a file was read as) are excepted until a
\* call of its own follows.
SettingsSurvive ==
    \A d \in Directories :
        d \in torn \/ (\E e \in Edits : edit[e].at = "opened" /\ edit[e].file = d)
        \/ ini[d].parsed = [ok |-> TRUE, settings |-> said[d]]

\* A server that runs with other settings than the file's is announced by pending_restart, unless
\* the flag was cleared under such a server (a start that found it running, an edit during the
\* launch), could not be set, or the edit is still on its way.
PendingTellsStale ==
    game = "stale" =>
        pending \/ missed \/ \E e \in Edits : edit[e].at \in {"opened", "written"}
=============================================================================
