---------------------------- MODULE SettingsStore ----------------------------
(***************************************************************************)
(* ~/.elph/settings.json and what the processes that share it do to it     *)
(* (internal/settings): Ensure at start-up, Load with the project's file   *)
(* on top, and Update, which loads, changes one field and writes the whole *)
(* file back.  Two terminals are two processes and nothing locks the file. *)
(***************************************************************************)
EXTENDS Naturals, FiniteSets

CONSTANTS
    Processes,    \* processes of elph
    ProjectFile,  \* what <project>/.agents/elph/settings.json says: a Settings
    MaxUpdates    \* bound: changes of a setting, by elph or by hand

Unset == "unset"
Fields == {"theme", "model", "url"}
Values == {"default", "a", "b"}
Settings == [Fields -> Values \cup {Unset}]
ASSUME SettingsConstants == ProjectFile \in Settings /\ MaxUpdates \in Nat

VARIABLES
    files,          \* settings.json and settings.jsonc: [state, cfg]
    phase,          \* what a process is doing: "off", "ensure", "idle", "update", "write"
    loaded,         \* the settings a process is about to save
    path,           \* the file it writes
    wanted,         \* history: what was last asked for, field by field
    updates,        \* changes so far
    settingsRaced,  \* history: a process saved what it had loaded before another change
    crashed         \* history: a process died while it wrote

settingsVars == <<files, phase, loaded, path, wanted, updates, settingsRaced, crashed>>

NoSettings == [state |-> "absent", cfg |-> [f \in Fields |-> Unset]]
Whole(cfg) == [state |-> "whole", cfg |-> cfg]

\* The fields of Settings fall in three kinds.  "url" stands for those that
\* mergeSettings does not name: Database, CompactMin*, FooterTokenDisplay.
DefaultSettings == [f \in Fields |-> IF f = "theme" THEN "default" ELSE Unset]
OverlayWins == {"theme"}
HomeFirst == {"model"}
NamedFields == OverlayWins \cup HomeFirst

MergeSettings(base, overlay) ==
    [f \in Fields |->
        IF overlay[f] # Unset /\ (f \in OverlayWins \/ (f \in HomeFirst /\ base[f] = Unset))
        THEN overlay[f] ELSE base[f]]

ActiveSettingsPath ==
    IF files["json"].state # "absent" THEN "json"
    ELSE IF files["jsonc"].state # "absent" THEN "jsonc" ELSE "none"
Home == IF ActiveSettingsPath = "none" THEN NoSettings ELSE files[ActiveSettingsPath]
Readable == Home.state # "torn"

LoadHome == MergeSettings(DefaultSettings, Home.cfg)
LoadFor == MergeSettings(LoadHome, ProjectFile)

\* Faulty variant: Update starts from the settings Load returns.
LoadedWithProject(cfg) == cfg = LoadFor
Loaded(cfg) == cfg = LoadHome

SettingsStoreInit ==
    /\ files = [x \in {"json", "jsonc"} |-> NoSettings]
    /\ phase = [p \in Processes |-> "off"]
    /\ loaded = [p \in Processes |-> DefaultSettings]
    /\ path = [p \in Processes |-> "json"]
    /\ wanted = DefaultSettings /\ updates = 0
    /\ settingsRaced = FALSE /\ crashed = FALSE

Step(p, to) == phase' = [phase EXCEPT ![p] = to]
Saving == {p \in Processes : phase[p] \in {"ensure", "update", "write"}}

-----------------------------------------------------------------------------
(* A process starts: Ensure, then every Load must find a readable file.    *)

Start(p) ==
    /\ phase[p] = "off"
    /\ IF ActiveSettingsPath = "none"
       THEN Step(p, "ensure") /\ loaded' = [loaded EXCEPT ![p] = DefaultSettings]
       ELSE Readable /\ Step(p, "idle") /\ UNCHANGED loaded
    /\ UNCHANGED <<files, path, wanted, updates, settingsRaced, crashed>>

\* SetTheme, SetActiveModel: the UI asks for one field.
Update(p, f, v) ==
    /\ phase[p] = "idle" /\ updates < MaxUpdates /\ f # "url"
    /\ Readable
    /\ \E cfg \in Settings :
          Loaded(cfg) /\ loaded' = [loaded EXCEPT ![p] = [cfg EXCEPT ![f] = v]]
    /\ updates' = updates + 1
    /\ wanted' = [wanted EXCEPT ![f] = v]
    /\ settingsRaced' = (settingsRaced \/ Saving # {})
    /\ Step(p, "update")
    /\ UNCHANGED <<files, path, crashed>>

\* Save: Path() is asked again, the file is cut to nothing and then written.
TruncateSettings(p) ==
    /\ phase[p] \in {"ensure", "update"}
    /\ LET x == IF ActiveSettingsPath = "none" THEN "json" ELSE ActiveSettingsPath
       IN  /\ path' = [path EXCEPT ![p] = x]
           /\ files' = [files EXCEPT ![x].state = "torn"]
    /\ settingsRaced' = (settingsRaced \/ (phase[p] = "ensure" /\ ActiveSettingsPath # "none"))
    /\ Step(p, "write")
    /\ UNCHANGED <<loaded, wanted, updates, crashed>>

WriteOut(p) ==
    /\ phase[p] = "write"
    /\ files' = [files EXCEPT ![path[p]] = Whole(loaded[p])]
    /\ Step(p, "idle")
    /\ UNCHANGED <<loaded, path, wanted, updates, settingsRaced, crashed>>

Quit(p) ==
    /\ phase[p] # "off" /\ Step(p, "off")
    /\ crashed' = (crashed \/ phase[p] \in {"ensure", "update", "write"})
    /\ UNCHANGED <<files, loaded, path, wanted, updates, settingsRaced>>

\* The user edits a file by hand: one he has, or settings.jsonc of his own.
Edit(x, f, v) ==
    /\ updates < MaxUpdates /\ updates' = updates + 1
    /\ files[x].state = "whole" \/ (x = "jsonc" /\ ActiveSettingsPath = "none")
    /\ files' = [files EXCEPT ![x] = Whole([files[x].cfg EXCEPT ![f] = v])]
    /\ wanted' = IF x = ActiveSettingsPath \/ ActiveSettingsPath = "none"
                 THEN [wanted EXCEPT ![f] = v] ELSE wanted
    /\ settingsRaced' = (settingsRaced \/ Saving # {})
    /\ UNCHANGED <<phase, loaded, path, crashed>>

SettingsStoreNext ==
    \/ \E p \in Processes :
          \/ Start(p) \/ TruncateSettings(p) \/ WriteOut(p) \/ Quit(p)
          \/ \E f \in Fields, v \in {"a", "b"} : Update(p, f, v)
    \/ \E x \in {"json", "jsonc"}, f \in Fields, v \in {"a", "b"} : Edit(x, f, v)

SettingsStoreSpec == SettingsStoreInit /\ [][SettingsStoreNext]_settingsVars

-----------------------------------------------------------------------------
(* Properties.                                                             *)

\* Of the fields mergeSettings names: as long as no two changes overlap and
\* nobody dies in the middle of one, the home settings are what the user last
\* asked for, whichever of the two files holds them and whatever the project's
\* file says.  Of the fields it does not name nothing is kept: what the home
\* file says of them never takes effect (docs/configuration.md:110 and
\* docs/tui.md:235 tell the user to set one there), and what elph saves holds
\* none of them, so that its next change of any setting erases the user's.
\* And no reader finds the file unreadable but while it is being written.
SettingsKept ==
    /\ ~settingsRaced /\ ~crashed /\ Saving = {} =>
          \A f \in NamedFields : LoadHome[f] = wanted[f]
    /\ \A f \in Fields \ NamedFields :
          /\ LoadHome[f] = DefaultSettings[f]
          /\ \A p \in Processes : loaded[p][f] = DefaultSettings[f]
    /\ ~Readable => crashed \/ \E p \in Processes : phase[p] = "write"
=============================================================================
