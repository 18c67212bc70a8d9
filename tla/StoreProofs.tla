---------------------------- MODULE StoreProofs -----------------------------
(***************************************************************************)
(* What the program keeps on disk or in a store: the settings, the         *)
(* database, the todo list of a session, the provider files, skills and    *)
(* prompt templates.                                                       *)
(***************************************************************************)
EXTENDS SettingsStore, Migrator, TodoStore, ProviderFiles, Skills, ListFacts, SequenceTheorems, TLAPS

-----------------------------------------------------------------------------
(***************************************************************************)
(* The settings are what the user last asked for, for any number of        *)
(* processes, changes and edits by hand, as long as no two of them overlap *)
(* and nobody dies in the middle of one.                                   *)
(***************************************************************************)

SettingsTypes ==
    /\ files \in [{"json", "jsonc"} -> [state : {"absent", "torn", "whole"}, cfg : Settings]]
    /\ phase \in [Processes -> {"off", "ensure", "idle", "update", "write"}]
    /\ loaded \in [Processes -> Settings]
    /\ path \in [Processes -> {"json", "jsonc"}]
    /\ wanted \in Settings

\* A file that is not there says nothing; one that is cut to nothing has its
\* writer; and who is past its start has seen a file.
FilesInv ==
    /\ \A x \in {"json", "jsonc"} :
         /\ files[x].state = "absent" => files[x].cfg = [f \in Fields |-> Unset]
         /\ files[x].state = "torn" => crashed \/ \E p \in Processes : phase[p] = "write" /\ path[p] = x
    /\ ActiveSettingsPath = "none" =>
         /\ wanted = DefaultSettings
         /\ \A p \in Processes : phase[p] \in {"off", "ensure"}
    /\ \A p \in Processes :
         /\ phase[p] = "ensure" => loaded[p] = DefaultSettings
         /\ phase[p] = "write" => files[path[p]].state # "absent"

\* What a process saves is what was asked for.
Says(cfg, w) == \A f \in NamedFields : MergeSettings(DefaultSettings, cfg)[f] = w[f]
Faithful(cfg) == Says(cfg, wanted)

\* Without overlaps and deaths: a change has the file for itself, a process
\* writes the file everybody reads, and between changes that file is right.
QuietInv ==
    /\ \A p \in Processes :
         /\ phase[p] = "update" => Saving = {p} /\ Faithful(loaded[p])
         /\ phase[p] = "write" => /\ Faithful(loaded[p]) /\ path[p] = ActiveSettingsPath
                                  /\ \A q \in Saving : q = p \/ phase[q] = "ensure"
    /\ (\A p \in Processes : phase[p] \notin {"update", "write"}) => Faithful(Home.cfg)

SettingsInv ==
    /\ SettingsTypes /\ FilesInv
    /\ settingsRaced \/ crashed \/ QuietInv

\* No process is about to save a word of the fields mergeSettings leaves out.
Unnamed == \A p \in Processes, f \in Fields \ NamedFields : loaded[p][f] = DefaultSettings[f]

-----------------------------------------------------------------------------

(***************************************************************************)
(* Merging over the defaults: a field of the home file stands where it is  *)
(* set, and setting one changes no other.  (settings.go: mergeSettings)    *)
(***************************************************************************)
LEMMA MergeOverDefaults ==
  ASSUME NEW cfg \in Settings
  PROVE  /\ MergeSettings(DefaultSettings, cfg) \in Settings
         /\ MergeSettings(DefaultSettings, cfg)["model"] = cfg["model"]
         /\ MergeSettings(DefaultSettings, cfg)["theme"] =
              IF cfg["theme"] # Unset THEN cfg["theme"] ELSE "default"
BY DEF MergeSettings, DefaultSettings, OverlayWins, HomeFirst, Settings, Fields, Values, Unset

\* An empty home file stands for the defaults, and so do the defaults.
LEMMA DefaultsFaithful ==
  /\ DefaultSettings \in Settings
  /\ [f \in Fields |-> Unset] \in Settings
  /\ \A f \in NamedFields : MergeSettings(DefaultSettings, DefaultSettings)[f] = DefaultSettings[f]
  /\ \A f \in NamedFields : MergeSettings(DefaultSettings, [g \in Fields |-> Unset])[f] = DefaultSettings[f]
BY DEF MergeSettings, DefaultSettings, OverlayWins, HomeFirst, Settings, Fields, Values, Unset, NamedFields

\* One field set on what is right is right, when it is what was asked for.
LEMMA ChangeFaithful ==
  ASSUME NEW cfg \in Settings, NEW w \in Settings, Says(cfg, w),
         NEW f \in Fields, NEW v \in {"a", "b"}
  PROVE  Says([cfg EXCEPT ![f] = v], [w EXCEPT ![f] = v])
BY MergeOverDefaults
   DEF Says, Faithful, MergeSettings, DefaultSettings, OverlayWins, HomeFirst, Settings, Fields, Values,
       Unset, NamedFields

\* What Load reads, saved, is read the same again.
LEMMA LoadedFaithful ==
  ASSUME NEW cfg \in Settings, wanted \in Settings, Faithful(cfg)
  PROVE  /\ MergeSettings(DefaultSettings, cfg) \in Settings
         /\ Faithful(MergeSettings(DefaultSettings, cfg))
BY MergeOverDefaults
   DEF Says, Faithful, MergeSettings, DefaultSettings, OverlayWins, HomeFirst, Settings, Fields, Values,
       Unset, NamedFields

\* Nothing is saved before the first start.
LEMMA SettingsInitially == SettingsStoreInit => SettingsInv
<1> SUFFICES ASSUME SettingsStoreInit PROVE SettingsInv
  OBVIOUS
<1> USE DefaultsFaithful DEF SettingsStoreInit
<1>1. SettingsTypes
  BY DEF SettingsTypes, NoSettings
<1>2. ActiveSettingsPath = "none" /\ Home = NoSettings
  BY DEF ActiveSettingsPath, Home, NoSettings
<1>3. FilesInv
  BY <1>2 DEF FilesInv, NoSettings
<1>4. Faithful(Home.cfg)
  BY <1>2 DEF NoSettings, Faithful, Says
<1>5. QuietInv
  BY <1>4 DEF QuietInv
<1> QED BY <1>1, <1>3, <1>5 DEF SettingsInv


-----------------------------------------------------------------------------
\* A start of a process.  (settings.go: Ensure)
LEMMA StartKeeps ==
  ASSUME SettingsInv, NEW p \in Processes, Start(p)
  PROVE  SettingsInv'
<1>0. UNCHANGED <<files, path, wanted, updates, settingsRaced, crashed>> /\ phase[p] = "off"
  BY DEF Start
<1>1. /\ ActiveSettingsPath' = ActiveSettingsPath /\ Home' = Home
      /\ \A cfg : Faithful(cfg)' <=> Faithful(cfg)
  BY <1>0 DEF ActiveSettingsPath, Home, Faithful
<1>2. CASE ActiveSettingsPath = "none"
  <2>1. /\ phase' = [phase EXCEPT ![p] = "ensure"]
        /\ loaded' = [loaded EXCEPT ![p] = DefaultSettings]
    BY <1>2 DEF Start, Step
  <2>2. \A q \in Processes : phase'[q] \in {"off", "ensure"}
    BY <1>2, <2>1 DEF SettingsInv, SettingsTypes, FilesInv
  <2>3. SettingsTypes'
    BY <1>0, <2>1, DefaultsFaithful DEF SettingsInv, SettingsTypes
  <2>4. FilesInv'
    BY <1>0, <1>1, <1>2, <2>1, <2>2 DEF SettingsInv, SettingsTypes, FilesInv
  <2>5. QuietInv => QuietInv'
    BY <1>1, <1>2, <2>2 DEF QuietInv, SettingsInv, FilesInv
  <2> QED BY <1>0, <2>3, <2>4, <2>5 DEF SettingsInv
<1>3. CASE ActiveSettingsPath # "none"
  <2>1. phase' = [phase EXCEPT ![p] = "idle"] /\ loaded' = loaded
    BY <1>3 DEF Start, Step
  <2>2. Saving' = Saving
    BY <1>0, <2>1 DEF Saving, SettingsInv, SettingsTypes
  <2>3. SettingsTypes'
    BY <1>0, <2>1 DEF SettingsInv, SettingsTypes
  <2>4. FilesInv'
    BY <1>0, <1>1, <1>3, <2>1 DEF SettingsInv, SettingsTypes, FilesInv
  <2>5. QuietInv => QuietInv'
    BY <1>0, <1>1, <2>1, <2>2 DEF QuietInv, SettingsInv, SettingsTypes
  <2> QED BY <1>0, <2>3, <2>4, <2>5 DEF SettingsInv
<1> QED BY <1>2, <1>3

\* A change by elph begins: it loads the home file alone.
\* (settings.go: Update)
LEMMA UpdateKeeps ==
  ASSUME SettingsInv, NEW p \in Processes, NEW f \in Fields, NEW v \in {"a", "b"}, Update(p, f, v)
  PROVE  SettingsInv'
<1> DEFINE cfg == LoadHome
<1>0. /\ UNCHANGED <<files, path, crashed>> /\ phase[p] = "idle"
      /\ phase' = [phase EXCEPT ![p] = "update"]
      /\ loaded' = [loaded EXCEPT ![p] = [cfg EXCEPT ![f] = v]]
      /\ wanted' = [wanted EXCEPT ![f] = v]
      /\ settingsRaced' = (settingsRaced \/ Saving # {})
  BY DEF Update, Step, Loaded
<1>1. ActiveSettingsPath' = ActiveSettingsPath /\ Home' = Home /\ ActiveSettingsPath # "none"
  BY <1>0 DEF ActiveSettingsPath, Home, SettingsInv, FilesInv
<1>2. Home.cfg \in Settings /\ cfg \in Settings
  BY <1>1, MergeOverDefaults DEF Home, LoadHome, SettingsInv, SettingsTypes, ActiveSettingsPath
<1>3. wanted' \in Settings /\ [cfg EXCEPT ![f] = v] \in Settings
  BY <1>0, <1>2 DEF SettingsInv, SettingsTypes, Settings, Values
<1>4. SettingsTypes'
  BY <1>0, <1>3 DEF SettingsInv, SettingsTypes
<1>5. FilesInv'
  BY <1>0, <1>1 DEF SettingsInv, SettingsTypes, FilesInv
<1>6. ASSUME QuietInv, Saving = {} PROVE QuietInv'
  <2>1. \A q \in Processes : phase[q] \notin {"ensure", "update", "write"}
    BY <1>6 DEF Saving
  <2>2. Faithful(cfg)
    BY <1>2, <1>6, <2>1, LoadedFaithful DEF QuietInv, LoadHome, SettingsInv, SettingsTypes
  <2>3. Says(loaded'[p], wanted')
    <3> HIDE DEF cfg
    <3>1. wanted \in Settings /\ loaded'[p] = [cfg EXCEPT ![f] = v]
      BY <1>0 DEF SettingsInv, SettingsTypes
    <3>2. Says([cfg EXCEPT ![f] = v], [wanted EXCEPT ![f] = v])
      BY <1>2, <2>2, <3>1, ChangeFaithful DEF Faithful
    <3> QED BY <1>0, <3>1, <3>2
  <2>4. phase'[p] = "update" /\ \A q \in Processes : q # p => phase'[q] = phase[q]
    BY <1>0 DEF SettingsInv, SettingsTypes
  <2>5. Saving' = {p}
    BY <2>1, <2>4 DEF Saving
  <2> QED BY <2>1, <2>3, <2>4, <2>5 DEF QuietInv, Faithful
<1> QED BY <1>0, <1>4, <1>5, <1>6 DEF SettingsInv

\* A save cuts the file to nothing.  (settings.go: Save)
LEMMA TruncateKeeps ==
  ASSUME SettingsInv, NEW p \in Processes, TruncateSettings(p)
  PROVE  SettingsInv'
<1> DEFINE x == IF ActiveSettingsPath = "none" THEN "json" ELSE ActiveSettingsPath
<1>0. /\ UNCHANGED <<loaded, wanted, crashed>> /\ phase[p] \in {"ensure", "update"}
      /\ path' = [path EXCEPT ![p] = x] /\ files' = [files EXCEPT ![x].state = "torn"]
      /\ phase' = [phase EXCEPT ![p] = "write"]
      /\ settingsRaced' = (settingsRaced \/ (phase[p] = "ensure" /\ ActiveSettingsPath # "none"))
  BY DEF TruncateSettings, Step
<1>1. x \in {"json", "jsonc"} /\ (ActiveSettingsPath # "none" => files[x].state # "absent")
  BY DEF ActiveSettingsPath
<1> HIDE DEF x
<1>2. /\ files'[x] = [files[x] EXCEPT !.state = "torn"]
      /\ \A y \in {"json", "jsonc"} : y # x => files'[y] = files[y]
      /\ files' \in [{"json", "jsonc"} -> [state : {"absent", "torn", "whole"}, cfg : Settings]]
  BY <1>0, <1>1 DEF SettingsInv, SettingsTypes
<1>3. files'[x].state = "torn" /\ files'[x].cfg = files[x].cfg
  BY <1>1, <1>2 DEF SettingsInv, SettingsTypes
<1>4. ActiveSettingsPath' = x
  BY <1>1, <1>2, <1>3 DEF ActiveSettingsPath, x
<1>5. /\ phase'[p] = "write" /\ path'[p] = x
      /\ \A q \in Processes : q # p => phase'[q] = phase[q] /\ path'[q] = path[q]
  BY <1>0 DEF SettingsInv, SettingsTypes
<1>6. SettingsTypes'
  BY <1>0, <1>1, <1>2 DEF SettingsInv, SettingsTypes
<1>7. FilesInv'
  <2>1. \A y \in {"json", "jsonc"} :
          /\ files'[y].state = "absent" => files'[y].cfg = [f \in Fields |-> Unset]
          /\ files'[y].state = "torn" => crashed' \/ \E q \in Processes : phase'[q] = "write" /\ path'[q] = y
    <3> SUFFICES ASSUME NEW y \in {"json", "jsonc"}
                 PROVE  /\ files'[y].state = "absent" => files'[y].cfg = [f \in Fields |-> Unset]
                        /\ files'[y].state = "torn" => crashed' \/ \E q \in Processes : phase'[q] = "write" /\ path'[q] = y
      OBVIOUS
    <3>1. CASE y = x
      BY <1>3, <1>5, <3>1
    <3>2. CASE y # x
      BY <1>0, <1>2, <1>5, <3>2 DEF SettingsInv, FilesInv
    <3> QED BY <3>1, <3>2
  <2>2. ActiveSettingsPath' # "none"
    BY <1>1, <1>4
  <2>3. \A q \in Processes :
          /\ phase'[q] = "ensure" => loaded'[q] = DefaultSettings
          /\ phase'[q] = "write" => files'[path'[q]].state # "absent"
    <3> SUFFICES ASSUME NEW q \in Processes
                 PROVE  /\ phase'[q] = "ensure" => loaded'[q] = DefaultSettings
                        /\ phase'[q] = "write" => files'[path'[q]].state # "absent"
      OBVIOUS
    <3>1. CASE q = p
      BY <1>3, <1>5, <3>1
    <3>2. CASE q # p
      BY <1>0, <1>2, <1>3, <1>5, <3>2 DEF SettingsInv, SettingsTypes, FilesInv
    <3> QED BY <3>1, <3>2
  <2> QED BY <2>1, <2>2, <2>3 DEF FilesInv
<1>8. ASSUME QuietInv, ~settingsRaced' PROVE QuietInv'
  <2>1. /\ Faithful(loaded[p])
        /\ \A q \in Processes : q # p => phase[q] \notin {"update", "write"}
        /\ \A q \in Saving : q = p \/ phase[q] = "ensure"
    <3>1. CASE phase[p] = "update"
      BY <1>8, <3>1 DEF QuietInv, Saving
    <3>2. CASE phase[p] = "ensure"
      <4>1. ActiveSettingsPath = "none"
        BY <1>0, <1>8, <3>2
      <4>2. loaded[p] = DefaultSettings /\ wanted = DefaultSettings
        BY <3>2, <4>1 DEF SettingsInv, FilesInv
      <4>3. Faithful(loaded[p])
        BY <4>2, DefaultsFaithful DEF Faithful, Says
      <4> QED BY <4>1, <4>3 DEF SettingsInv, FilesInv, Saving
    <3> QED BY <1>0, <3>1, <3>2
  <2>2. Faithful(loaded[p])'
    BY <1>0, <2>1 DEF Faithful
  <2>3. \A q \in Saving' : q = p \/ phase'[q] = "ensure"
    BY <1>5, <2>1 DEF Saving
  <2>4. \A q \in Processes : phase'[q] # "update" /\ (phase'[q] = "write" => q = p)
    BY <1>5, <2>1
  <2> QED BY <1>4, <1>5, <2>2, <2>3, <2>4 DEF QuietInv
<1> QED BY <1>0, <1>6, <1>7, <1>8 DEF SettingsInv

\* The save ends: the file holds what was loaded and changed.
LEMMA WriteOutKeeps ==
  ASSUME SettingsInv, NEW p \in Processes, WriteOut(p)
  PROVE  SettingsInv'
<1> DEFINE x == path[p]
<1>0. /\ UNCHANGED <<loaded, path, wanted, settingsRaced, crashed>> /\ phase[p] = "write"
      /\ files' = [files EXCEPT ![x] = Whole(loaded[p])]
      /\ phase' = [phase EXCEPT ![p] = "idle"]
  BY DEF WriteOut, Step
<1>1. x \in {"json", "jsonc"} /\ files[x].state # "absent"
  BY <1>0 DEF SettingsInv, SettingsTypes, FilesInv
<1> HIDE DEF x
<1>2. /\ files'[x] = Whole(loaded[p]) /\ Whole(loaded[p]).state = "whole" /\ Whole(loaded[p]).cfg = loaded[p]
      /\ \A y \in {"json", "jsonc"} : y # x => files'[y] = files[y]
      /\ files' \in [{"json", "jsonc"} -> [state : {"absent", "torn", "whole"}, cfg : Settings]]
  BY <1>0, <1>1 DEF SettingsInv, SettingsTypes, Whole
<1>3. ActiveSettingsPath' = ActiveSettingsPath /\ ActiveSettingsPath # "none"
  BY <1>1, <1>2 DEF ActiveSettingsPath
<1>4. /\ phase'[p] = "idle"
      /\ \A q \in Processes : q # p => phase'[q] = phase[q]
  BY <1>0 DEF SettingsInv, SettingsTypes
<1>5. SettingsTypes'
  BY <1>0, <1>2 DEF SettingsInv, SettingsTypes
<1>6. FilesInv'
  <2>1. \A y \in {"json", "jsonc"} :
          /\ files'[y].state = "absent" => files'[y].cfg = [f \in Fields |-> Unset]
          /\ files'[y].state = "torn" => crashed' \/ \E q \in Processes : phase'[q] = "write" /\ path'[q] = y
    <3> SUFFICES ASSUME NEW y \in {"json", "jsonc"}
                 PROVE  /\ files'[y].state = "absent" => files'[y].cfg = [f \in Fields |-> Unset]
                        /\ files'[y].state = "torn" => crashed' \/ \E q \in Processes : phase'[q] = "write" /\ path'[q] = y
      OBVIOUS
    <3>1. CASE y = x
      BY <1>2, <3>1
    <3>2. CASE y # x
      BY <1>0, <1>2, <1>4, <3>2 DEF SettingsInv, FilesInv, x
    <3> QED BY <3>1, <3>2
  <2>2. \A q \in Processes :
          /\ phase'[q] = "ensure" => loaded'[q] = DefaultSettings
          /\ phase'[q] = "write" => files'[path'[q]].state # "absent"
    BY <1>0, <1>2, <1>4 DEF SettingsInv, SettingsTypes, FilesInv
  <2> QED BY <1>3, <2>1, <2>2 DEF FilesInv
<1>7. ASSUME QuietInv PROVE QuietInv'
  <2>1. /\ Faithful(loaded[p]) /\ x = ActiveSettingsPath
        /\ \A q \in Processes : q # p => phase[q] \notin {"update", "write"}
    BY <1>0, <1>7 DEF QuietInv, Saving, x
  <2>2. Home'.cfg = loaded[p]
    BY <1>2, <1>3, <2>1 DEF Home
  <2>3. Faithful(Home.cfg)'
    BY <1>0, <2>1, <2>2 DEF Faithful
  <2> QED BY <1>4, <2>1, <2>3 DEF QuietInv
<1> QED BY <1>0, <1>5, <1>6, <1>7 DEF SettingsInv

\* A process ends or dies; when it dies in a save nothing more is promised.
LEMMA QuitKeeps ==
  ASSUME SettingsInv, NEW p \in Processes, Quit(p)
  PROVE  SettingsInv'
<1>0. /\ UNCHANGED <<files, loaded, path, wanted, settingsRaced>> /\ phase[p] # "off"
      /\ phase' = [phase EXCEPT ![p] = "off"]
      /\ crashed' = (crashed \/ phase[p] \in {"ensure", "update", "write"})
  BY DEF Quit, Step
<1>1. /\ ActiveSettingsPath' = ActiveSettingsPath /\ Home' = Home
      /\ \A cfg : Faithful(cfg)' <=> Faithful(cfg)
  BY <1>0 DEF ActiveSettingsPath, Home, Faithful
<1>2. /\ phase'[p] = "off"
      /\ \A q \in Processes : q # p => phase'[q] = phase[q]
  BY <1>0 DEF SettingsInv, SettingsTypes
<1>3. SettingsTypes'
  BY <1>0 DEF SettingsInv, SettingsTypes
<1>4. FilesInv'
  <2>1. \A y \in {"json", "jsonc"} :
          files'[y].state = "torn" => crashed' \/ \E q \in Processes : phase'[q] = "write" /\ path'[q] = y
    BY <1>0, <1>2 DEF SettingsInv, FilesInv
  <2> QED BY <1>0, <1>1, <1>2, <2>1 DEF SettingsInv, FilesInv
<1>5. ASSUME QuietInv, ~crashed' PROVE QuietInv'
  <2>0. phase[p] = "idle"
    BY <1>0, <1>5 DEF SettingsInv, SettingsTypes
  <2>1. Saving' = Saving
    BY <1>2, <2>0 DEF Saving
  <2> QED BY <1>0, <1>1, <1>2, <1>5, <2>0, <2>1 DEF QuietInv
<1> QED BY <1>0, <1>3, <1>4, <1>5 DEF SettingsInv

\* The user edits one of the files.
LEMMA EditKeeps ==
  ASSUME SettingsInv, NEW x \in {"json", "jsonc"}, NEW f \in Fields, NEW v \in {"a", "b"},
         Edit(x, f, v)
  PROVE  SettingsInv'
<1> DEFINE cfg == [files[x].cfg EXCEPT ![f] = v]
           mine == x = ActiveSettingsPath \/ ActiveSettingsPath = "none"
<1>0. /\ UNCHANGED <<phase, loaded, path, crashed>>
      /\ files[x].state = "whole" \/ (x = "jsonc" /\ ActiveSettingsPath = "none")
      /\ files' = [files EXCEPT ![x] = Whole(cfg)]
      /\ wanted' = IF mine THEN [wanted EXCEPT ![f] = v] ELSE wanted
      /\ settingsRaced' = (settingsRaced \/ Saving # {})
  BY DEF Edit
<1>1. files[x].cfg \in Settings /\ cfg \in Settings /\ wanted' \in Settings
  BY <1>0 DEF SettingsInv, SettingsTypes, Settings, Values
<1> HIDE DEF cfg
<1>2. /\ files'[x] = Whole(cfg) /\ Whole(cfg).state = "whole" /\ Whole(cfg).cfg = cfg
      /\ \A y \in {"json", "jsonc"} : y # x => files'[y] = files[y]
      /\ files' \in [{"json", "jsonc"} -> [state : {"absent", "torn", "whole"}, cfg : Settings]]
  BY <1>0, <1>1 DEF SettingsInv, SettingsTypes, Whole
<1>3. ActiveSettingsPath' = (IF ActiveSettingsPath = "none" THEN x ELSE ActiveSettingsPath)
  BY <1>0, <1>2 DEF ActiveSettingsPath
<1>4. SettingsTypes'
  BY <1>0, <1>1, <1>2 DEF SettingsInv, SettingsTypes
<1>5. FilesInv'
  <2>1. \A y \in {"json", "jsonc"} :
          /\ files'[y].state = "absent" => files'[y].cfg = [g \in Fields |-> Unset]
          /\ files'[y].state = "torn" => crashed' \/ \E q \in Processes : phase'[q] = "write" /\ path'[q] = y
    <3> SUFFICES ASSUME NEW y \in {"json", "jsonc"}
                 PROVE  /\ files'[y].state = "absent" => files'[y].cfg = [g \in Fields |-> Unset]
                        /\ files'[y].state = "torn" => crashed' \/ \E q \in Processes : phase'[q] = "write" /\ path'[q] = y
      OBVIOUS
    <3>1. CASE y = x
      BY <1>2, <3>1
    <3>2. CASE y # x
      BY <1>0, <1>2, <3>2 DEF SettingsInv, FilesInv
    <3> QED BY <3>1, <3>2
  <2>2. ActiveSettingsPath' # "none"
    BY <1>3
  <2>3. \A q \in Processes :
          /\ phase'[q] = "ensure" => loaded'[q] = DefaultSettings
          /\ phase'[q] = "write" => files'[path'[q]].state # "absent"
    BY <1>0, <1>2 DEF SettingsInv, SettingsTypes, FilesInv
  <2> QED BY <2>1, <2>2, <2>3 DEF FilesInv
<1>6. ASSUME QuietInv, Saving = {} PROVE QuietInv'
  <2>1. \A q \in Processes : phase'[q] \notin {"ensure", "update", "write"}
    BY <1>0, <1>6 DEF Saving
  <2>2. Faithful(Home.cfg) /\ Home.cfg \in Settings
    BY <1>0, <1>6, <2>1, DefaultsFaithful
       DEF QuietInv, Home, NoSettings, SettingsInv, SettingsTypes, ActiveSettingsPath
  <2>3. CASE mine
    <3>1. files[x].cfg = Home.cfg
      <4>1. CASE ActiveSettingsPath # "none"
        BY <2>3, <4>1 DEF Home
      <4>2. CASE ActiveSettingsPath = "none"
        <5>1. files[x].state = "absent"
          BY <4>2 DEF ActiveSettingsPath
        <5>2. files[x].cfg = [g \in Fields |-> Unset]
          BY <5>1 DEF SettingsInv, FilesInv
        <5> QED BY <4>2, <5>2 DEF Home, NoSettings
      <4> QED BY <4>1, <4>2
    <3>2. Home'.cfg = [Home.cfg EXCEPT ![f] = v]
      BY <1>2, <1>3, <2>3, <3>1 DEF Home, cfg
    <3>3. wanted \in Settings /\ wanted' = [wanted EXCEPT ![f] = v]
      BY <1>0, <2>3 DEF SettingsInv, SettingsTypes
    <3>4. Says([Home.cfg EXCEPT ![f] = v], [wanted EXCEPT ![f] = v])
      BY <2>2, <3>3, ChangeFaithful DEF Faithful
    <3> QED BY <2>1, <3>2, <3>3, <3>4 DEF QuietInv, Faithful
  <2>4. CASE ~mine
    <3>1. Home' = Home /\ wanted' = wanted
      BY <1>0, <1>2, <1>3, <2>4 DEF Home, ActiveSettingsPath
    <3>2. Faithful(Home.cfg)'
      BY <2>2, <3>1 DEF Faithful
    <3> QED BY <2>1, <3>2 DEF QuietInv
  <2> QED BY <2>3, <2>4
<1> QED BY <1>0, <1>4, <1>5, <1>6 DEF SettingsInv

\* Every step of a process or of the user keeps the invariant.
LEMMA SettingsStep == SettingsInv /\ [SettingsStoreNext]_settingsVars => SettingsInv'
<1> SUFFICES ASSUME SettingsInv, [SettingsStoreNext]_settingsVars PROVE SettingsInv'
  OBVIOUS
<1>1. CASE UNCHANGED settingsVars
  <2>1. /\ UNCHANGED <<files, phase, loaded, path, wanted, settingsRaced, crashed>>
        /\ ActiveSettingsPath' = ActiveSettingsPath /\ Home' = Home /\ Saving' = Saving
        /\ \A cfg : Faithful(cfg)' <=> Faithful(cfg)
    BY <1>1 DEF settingsVars, ActiveSettingsPath, Home, Saving, Faithful
  <2>2. SettingsTypes' /\ FilesInv'
    BY <2>1 DEF SettingsInv, SettingsTypes, FilesInv
  <2>3. QuietInv => QuietInv'
    BY <2>1 DEF QuietInv
  <2> QED BY <2>1, <2>2, <2>3 DEF SettingsInv
<1> QED BY <1>1, StartKeeps, UpdateKeeps, TruncateKeeps, WriteOutKeeps, QuitKeeps, EditKeeps
        DEF SettingsStoreNext

\* A field mergeSettings does not name keeps the word of the defaults,
\* whatever the file on top says.  (merge.go: mergeSettings)
LEMMA UnnamedLost ==
  ASSUME NEW cfg, NEW f \in Fields \ NamedFields
  PROVE  MergeSettings(DefaultSettings, cfg)[f] = DefaultSettings[f]
BY DEF MergeSettings, NamedFields, OverlayWins, HomeFirst

\* What a process is about to save says nothing of those fields: Update
\* starts from what Load returns, and the UI sets none of them.
LEMMA UnnamedStep ==
  SettingsTypes /\ Unnamed /\ [SettingsStoreNext]_settingsVars => Unnamed'
<1> SUFFICES ASSUME SettingsTypes, Unnamed, [SettingsStoreNext]_settingsVars,
                    NEW q \in Processes, NEW g \in Fields \ NamedFields
             PROVE  loaded'[q][g] = DefaultSettings[g]
  BY DEF Unnamed
<1>1. loaded[q][g] = DefaultSettings[g] /\ loaded \in [Processes -> Settings]
  BY DEF Unnamed, SettingsTypes
<1>2. CASE UNCHANGED loaded
  BY <1>1, <1>2
<1>3. CASE \E p \in Processes : Start(p)
  <2>1. PICK p \in Processes : loaded' = [loaded EXCEPT ![p] = DefaultSettings] \/ UNCHANGED loaded
    BY <1>3 DEF Start
  <2> QED BY <1>1, <2>1
<1>4. CASE \E p \in Processes, f \in Fields, v \in {"a", "b"} : Update(p, f, v)
  <2>1. PICK p \in Processes, f \in Fields, v \in {"a", "b"} : Update(p, f, v)
    BY <1>4
  <2>2. PICK cfg \in Settings : /\ cfg = MergeSettings(DefaultSettings, Home.cfg)
                                /\ loaded' = [loaded EXCEPT ![p] = [cfg EXCEPT ![f] = v]]
    BY <2>1 DEF Update, Loaded, LoadHome
  <2>3. f # g
    BY <2>1 DEF Update, Fields, NamedFields, OverlayWins, HomeFirst
  <2>4. cfg[g] = DefaultSettings[g]
    BY <2>2, UnnamedLost
  <2>5. [cfg EXCEPT ![f] = v][g] = DefaultSettings[g]
    BY <2>3, <2>4 DEF Settings
  <2> QED BY <1>1, <2>2, <2>5
<1> QED
  BY <1>2, <1>3, <1>4
     DEF SettingsStoreNext, settingsVars, TruncateSettings, WriteOut, Quit, Edit

(***************************************************************************)
(* Of the fields mergeSettings names: as long as no two changes overlap    *)
(* and nobody dies in one, the home settings are what was last asked for.  *)
(* Of the fields it does not name nothing in the home file takes effect    *)
(* and nothing is saved.  The file is unreadable only while it is written. *)
(* For any number of processes and changes.                                *)
(* (settings.go: Ensure, LoadFor, Update, Save, mergeSettings)             *)
(***************************************************************************)
THEOREM SettingsStayKept == SettingsStoreSpec => []SettingsKept
<1>1. SettingsInv /\ Unnamed => SettingsKept
  <2> SUFFICES ASSUME SettingsInv, Unnamed PROVE SettingsKept
    OBVIOUS
  <2>1. ASSUME ~settingsRaced, ~crashed, Saving = {}, NEW f \in NamedFields PROVE LoadHome[f] = wanted[f]
    <3>1. Faithful(Home.cfg)
      BY <2>1 DEF SettingsInv, QuietInv, Saving
    <3> QED BY <3>1 DEF Faithful, Says, LoadHome
  <2>2. ASSUME ~Readable PROVE crashed \/ \E p \in Processes : phase[p] = "write"
    <3>1. ActiveSettingsPath \in {"json", "jsonc"} /\ files[ActiveSettingsPath].state = "torn"
      BY <2>2 DEF Readable, Home, NoSettings, ActiveSettingsPath
    <3> QED BY <3>1 DEF SettingsInv, FilesInv
  <2>3. ASSUME NEW f \in Fields \ NamedFields
        PROVE  LoadHome[f] = DefaultSettings[f] /\ \A p \in Processes : loaded[p][f] = DefaultSettings[f]
    BY UnnamedLost DEF Unnamed, LoadHome
  <2> QED BY <2>1, <2>2, <2>3 DEF SettingsKept
<1>2. SettingsStoreInit => Unnamed
  BY DEF SettingsStoreInit, Unnamed
<1>3. SettingsInv => SettingsTypes
  BY DEF SettingsInv
<1> QED BY <1>1, <1>2, <1>3, SettingsInitially, SettingsStep, UnnamedStep, PTL DEF SettingsStoreSpec

-----------------------------------------------------------------------------
(***************************************************************************)
(* Any number of processes that migrate one database together, and any of  *)
(* which dies at any point, leave a schema that is what app_migrations     *)
(* says, with each migration carried out once and none left out below.     *)
(***************************************************************************)

MigratorTypes ==
    /\ stage \in [Openers -> {"settings", "connect", "table", "version", "apply",
                              "statements", "record", "open", "failed"}]
    /\ current \in [Openers -> Nat]
    /\ ahead \in [Openers -> SUBSET Versions]
    /\ recorded \subseteq Versions
    /\ runs \in [Versions -> Nat]

\* What the database holds is right and has a highest version.
DatabaseInv ==
    /\ schema = recorded
    /\ \A v \in Versions : runs[v] = IF v \in recorded THEN 1 ELSE 0
    /\ \A v \in recorded, w \in Versions : w < v => w \in recorded
    /\ recorded # {} => \E v \in recorded : \A w \in recorded : w <= v

\* What a process knows: the version it read was recorded, and while it goes
\* through its migrations those it has behind it are recorded.
KnowledgeInv == \A p \in Openers :
    /\ current[p] # 0 => current[p] \in recorded
    /\ stage[p] \in {"apply", "statements", "record", "open"} =>
         \A v \in Registered[p] : v \notin ahead[p] => v \in recorded
    /\ stage[p] = "open" => Registered[p] \subseteq recorded

MigratorInv == MigratorTypes /\ DatabaseInv /\ KnowledgeInv

-----------------------------------------------------------------------------
(***************************************************************************)
(* Versions are positive numbers.                                          *)
(***************************************************************************)
LEMMA VersionsPositive == /\ Versions \subseteq Nat \ {0}
                          /\ \A p \in Openers : Registered[p] \subseteq Versions
BY MigratorConstants DEF Versions

(***************************************************************************)
(* MAX(version) of the table is one of its versions, or 0 (migrator.go).   *)
(***************************************************************************)
LEMMA GreatestIsRecorded ==
  ASSUME MigratorTypes, DatabaseInv
  PROVE  /\ Greatest(recorded) \in Nat
         /\ Greatest(recorded) # 0 => Greatest(recorded) \in recorded
<1>1. CASE recorded = {}
  BY <1>1 DEF Greatest
<1>2. CASE recorded # {}
  <2>1. PICK v \in recorded : \A w \in recorded : w <= v
    BY <1>2 DEF DatabaseInv
  <2>2. Greatest(recorded) \in recorded
    BY <1>2, <2>1 DEF Greatest
  <2> QED BY <2>2, VersionsPositive DEF MigratorTypes
<1> QED BY <1>1, <1>2

(***************************************************************************)
(* Steps that leave the tables alone keep the invariant if what processes  *)
(* know stays true.                                                        *)
(***************************************************************************)
LEMMA DatabaseKept ==
  ASSUME DatabaseInv, UNCHANGED <<recorded, schema, runs>>
  PROVE  DatabaseInv'
BY DEF DatabaseInv

(***************************************************************************)
(* A committed migration keeps the schema right: its version is new and    *)
(* all lower ones of its release are recorded.                             *)
(***************************************************************************)
LEMMA RecordKeepsDatabase ==
  ASSUME MigratorInv, NEW p \in Openers, Record(p)
  PROVE  DatabaseInv'
<1>1. PICK v \in Registered[p] :
         /\ v \in ahead[p] /\ \A w \in ahead[p] : v <= w
         /\ v \notin recorded
         /\ recorded' = recorded \cup {v}
         /\ schema' = schema \cup {v}
         /\ runs' = [runs EXCEPT ![v] = @ + 1]
  BY DEF Record, Pending, Commits
<1>2. v \in Versions /\ v \in Nat /\ recorded \subseteq Nat /\ Versions \subseteq Nat
  BY VersionsPositive DEF MigratorInv, MigratorTypes
<1>3. \A w \in Versions : w < v => w \in recorded
  <2> SUFFICES ASSUME NEW w \in Versions, w < v PROVE w \in recorded
    OBVIOUS
  <2>1. w \in Registered[p]
    BY MigratorConstants
  <2>2. w \notin ahead[p]
    BY <1>1, <1>2
  <2> QED BY <2>1, <2>2 DEF MigratorInv, KnowledgeInv, Record
<1>4. schema' = recorded'
  BY <1>1 DEF MigratorInv, DatabaseInv
<1>5. \A w \in Versions : runs'[w] = IF w \in recorded' THEN 1 ELSE 0
  BY <1>1, <1>2 DEF MigratorInv, DatabaseInv, MigratorTypes
<1>6. \A u \in recorded', w \in Versions : w < u => w \in recorded'
  BY <1>1, <1>3 DEF MigratorInv, DatabaseInv
<1>7. \E u \in recorded' : \A w \in recorded' : w <= u
  <2>1. CASE recorded = {}
    BY <2>1, <1>1, <1>2
  <2>2. CASE recorded # {}
    <3>1. PICK u \in recorded : \A w \in recorded : w <= u
      BY <2>2 DEF MigratorInv, DatabaseInv
    <3>2. CASE u <= v
      BY <3>1, <3>2, <1>1, <1>2
    <3>3. CASE v <= u
      BY <3>1, <3>3, <1>1, <1>2
    <3> QED BY <3>2, <3>3, <1>2
  <2> QED BY <2>1, <2>2
<1> QED BY <1>4, <1>5, <1>6, <1>7 DEF DatabaseInv

(***************************************************************************)
(* A version at or below the one a process read is recorded, so that it    *)
(* may be skipped (migrator.go).                                           *)
(***************************************************************************)
LEMMA SkippedIsRecorded ==
  ASSUME MigratorInv, NEW p \in Openers, NEW v \in Registered[p], v <= current[p]
  PROVE  v \in recorded
<1>1. v \in Versions /\ v \in Nat \ {0} /\ current[p] \in Nat
  BY VersionsPositive DEF MigratorInv, MigratorTypes
<1>2. current[p] \in recorded
  BY <1>1 DEF MigratorInv, KnowledgeInv
<1> QED BY <1>1, <1>2 DEF MigratorInv, DatabaseInv

\* An empty database is in order.
LEMMA MigratorInitially == MigratorInit => MigratorInv
<1> SUFFICES ASSUME MigratorInit PROVE MigratorInv
  OBVIOUS
<1>1. MigratorTypes
  BY DEF MigratorInit, MigratorTypes
<1>2. DatabaseInv /\ KnowledgeInv
  BY DEF MigratorInit, DatabaseInv, KnowledgeInv
<1> QED BY <1>1, <1>2 DEF MigratorInv

\* Every step of every process keeps the invariant.
LEMMA MigratorStep == MigratorInv /\ [MigratorNext]_migratorVars => MigratorInv'
<1> SUFFICES ASSUME MigratorInv, [MigratorNext]_migratorVars PROVE MigratorInv'
  OBVIOUS
<1> USE DEF MigratorInv
<1>1. CASE UNCHANGED migratorVars
  BY <1>1 DEF migratorVars, MigratorTypes, DatabaseInv, KnowledgeInv
<1>2. ASSUME NEW p \in Openers, PrepareTable(p) PROVE MigratorInv'
  <2>1. DatabaseInv'
    BY <1>2, DatabaseKept DEF PrepareTable, database
  <2>2. MigratorTypes' /\ KnowledgeInv'
    BY <1>2 DEF PrepareTable, GoTo, database, MigratorTypes, KnowledgeInv
  <2> QED BY <2>1, <2>2
<1>3. ASSUME NEW p \in Openers, EnsureTable(p) PROVE MigratorInv'
  <2>1. DatabaseInv'
    BY <1>3, DatabaseKept DEF EnsureTable
  <2>2. MigratorTypes' /\ KnowledgeInv'
    BY <1>3 DEF EnsureTable, GoTo, MigratorTypes, KnowledgeInv
  <2> QED BY <2>1, <2>2
<1>4. ASSUME NEW p \in Openers, ReadVersion(p) PROVE MigratorInv'
  <2>1. DatabaseInv'
    BY <1>4, DatabaseKept DEF ReadVersion, database
  <2>2. MigratorTypes'
    BY <1>4, GreatestIsRecorded, VersionsPositive DEF ReadVersion, GoTo, database, MigratorTypes
  <2>3. KnowledgeInv'
    BY <1>4, GreatestIsRecorded DEF ReadVersion, GoTo, database, MigratorTypes, KnowledgeInv
  <2> QED BY <2>1, <2>2, <2>3
<1>5. ASSUME NEW p \in Openers, SkipApplied(p) PROVE MigratorInv'
  <2>1. DatabaseInv'
    BY <1>5, DatabaseKept DEF SkipApplied, database
  <2>2. PICK v \in Registered[p] : v <= current[p] /\ ahead' = [ahead EXCEPT ![p] = @ \ {v}]
    BY <1>5 DEF SkipApplied
  <2>3. v \in recorded
    BY <2>2, SkippedIsRecorded
  <2>4. MigratorTypes' /\ KnowledgeInv'
    BY <1>5, <2>2, <2>3 DEF SkipApplied, database, MigratorTypes, KnowledgeInv
  <2> QED BY <2>1, <2>4
<1>6. ASSUME NEW p \in Openers, BeginTx(p) PROVE MigratorInv'
  <2>1. DatabaseInv'
    BY <1>6, DatabaseKept DEF BeginTx
  <2>2. MigratorTypes' /\ KnowledgeInv'
    BY <1>6 DEF BeginTx, GoTo, MigratorTypes, KnowledgeInv
  <2> QED BY <2>1, <2>2
<1>7. ASSUME NEW p \in Openers, RunStatements(p) PROVE MigratorInv'
  <2>1. DatabaseInv'
    BY <1>7, DatabaseKept DEF RunStatements
  <2>2. MigratorTypes' /\ KnowledgeInv'
    BY <1>7 DEF RunStatements, GoTo, MigratorTypes, KnowledgeInv
  <2> QED BY <2>1, <2>2
<1>8. ASSUME NEW p \in Openers, Record(p) PROVE MigratorInv'
  <2>1. DatabaseInv'
    BY <1>8, RecordKeepsDatabase
  <2>2. PICK v \in Registered[p] :
          /\ recorded' = recorded \cup {v}
          /\ runs' = [runs EXCEPT ![v] = @ + 1]
          /\ ahead' = [ahead EXCEPT ![p] = @ \ {v}]
    BY <1>8 DEF Record
  <2>3. v \in Versions
    BY VersionsPositive
  <2>4. MigratorTypes' /\ KnowledgeInv'
    BY <1>8, <2>2, <2>3 DEF Record, GoTo, MigratorTypes, KnowledgeInv
  <2> QED BY <2>1, <2>4
<1>9. ASSUME NEW p \in Openers, Finished(p) PROVE MigratorInv'
  <2>1. DatabaseInv'
    BY <1>9, DatabaseKept DEF Finished, database
  <2>2. MigratorTypes' /\ KnowledgeInv'
    BY <1>9 DEF Finished, GoTo, database, MigratorTypes, KnowledgeInv
  <2> QED BY <2>1, <2>2
<1>10. ASSUME NEW p \in Openers, FailOpen(p) PROVE MigratorInv'
  <2>1. DatabaseInv'
    BY <1>10, DatabaseKept DEF FailOpen
  <2>2. MigratorTypes' /\ KnowledgeInv'
    BY <1>10 DEF FailOpen, GoTo, MigratorTypes, KnowledgeInv
  <2> QED BY <2>1, <2>2
<1> QED BY <1>1, <1>2, <1>3, <1>4, <1>5, <1>6, <1>7, <1>8, <1>9, <1>10 DEF MigratorNext

(***************************************************************************)
(* Whatever processes start together or die between two migrations, the    *)
(* schema is what app_migrations says, each migration was carried out      *)
(* once and in order, and a process that got its database finds all that   *)
(* its release registers (internal/datastore/migrator.go).                 *)
(***************************************************************************)
THEOREM MigratorKeepsOrder == MigratorSpec => []MigratedInOrder
<1>1. MigratorInv => MigratedInOrder
  BY DEF MigratorInv, DatabaseInv, KnowledgeInv, MigratedInOrder
<1> QED BY <1>1, MigratorInitially, MigratorStep, PTL DEF MigratorSpec

-----------------------------------------------------------------------------
(***************************************************************************)
(* For any number of turns, items and calls: a todo list that was          *)
(* completed is announced once and cleared, open items are not, and the    *)
(* file follows, as long as turn and UI do not change it across each other.*)
(***************************************************************************)

Items == {"pending", "done"}

TodoTypes ==
    /\ store \in Seq(Items) /\ snapshot \in Seq(Items)
    /\ todoCall \in [TodoTurns -> {"none", "apply", "save", "write", "done"}]
    /\ todoHeld \in [TodoTurns -> Seq(Items)]
    /\ events \in Seq({"start", "done"})
    /\ clearing \in {"no", "clear", "remove"}
    /\ completed \in Nat /\ announced \in Nat
    /\ todosRaced \in BOOLEAN /\ abandoned \in BOOLEAN /\ wiped \in BOOLEAN

\* A completed list is ahead of its announcement.
AnnouncedInv ==
    /\ announced <= completed
    /\ AllDone(store) /\ clearing # "clear" => announced < completed

\* Without a race the UI clears the completed list it saw and nothing else; the
\* file lags behind the list only while a call that noticed is under way.
SnapshotInv ==
    ~todosRaced =>
      /\ ~wiped
      /\ clearing = "clear" =>
           /\ AllDone(store)
           /\ \A t \in TodoTurns : /\ todoCall[t] # "write"
                                   /\ todoCall[t] = "save" => todoHeld[t] = store
      /\ clearing = "remove" => store = <<>>
      /\ \A t \in TodoTurns : todoCall[t] = "write" => todoHeld[t] = store
      /\ clearing = "no" /\ snapshot # store =>
           \E t \in TodoTurns : \/ todoCall[t] = "save" /\ todoHeld[t] # store
                                \/ todoCall[t] = "write"

DoneEvent == \E i \in 1..Len(events) : events[i] = "done"

\* No call goes on behind the back of the UI, which has yet to hear of the end
\* of the call that completed the list.
ClearedInv ==
    ~abandoned =>
      /\ \A t \in TodoTurns : todoCall[t] # "none" => panel = t
      /\ ~todosRaced /\ AllDone(store) /\ clearing = "no" =>
           DoneEvent \/ \E t \in TodoTurns : todoCall[t] \in {"save", "write", "done"}

TodoInv == TodoTypes /\ AnnouncedInv /\ SnapshotInv /\ ClearedInv

\* The items of a new list are a list, and the empty list is not a completed one.
LEMMA TodoLists == Todos \subseteq Seq(Items) /\ ~AllDone(<<>>)
<1>1. Todos \subseteq Seq(Items)
  BY TodoConstants, SeqDef DEF Todos, Items
<1>2. ~AllDone(<<>>)
  BY DEF AllDone
<1> QED BY <1>1, <1>2

\* The state begins empty.
LEMMA TodoInit == TodoStoreInit => TodoInv
<1> USE DEF TodoStoreInit
<1>1. TodoStoreInit => TodoTypes
  <2> SUFFICES ASSUME TodoStoreInit PROVE TodoTypes
    OBVIOUS
  <2>1. <<>> \in Seq(Items) /\ <<>> \in Seq({"start", "done"})
    OBVIOUS
  <2>2. store \in Seq(Items) /\ snapshot \in Seq(Items) /\ events \in Seq({"start", "done"})
    BY <2>1
  <2>3. todoCall \in [TodoTurns -> {"none", "apply", "save", "write", "done"}]
    OBVIOUS
  <2>4. todoHeld \in [TodoTurns -> Seq(Items)]
    BY <2>1, Zenon
  <2>5. /\ clearing \in {"no", "clear", "remove"} /\ completed \in Nat /\ announced \in Nat
        /\ todosRaced \in BOOLEAN /\ abandoned \in BOOLEAN /\ wiped \in BOOLEAN
    OBVIOUS
  <2> QED BY <2>2, <2>3, <2>4, <2>5 DEF TodoTypes
<1>2. TodoStoreInit => AnnouncedInv /\ SnapshotInv /\ ClearedInv
  BY TodoLists DEF AnnouncedInv, SnapshotInv, ClearedInv
<1> QED BY <1>1, <1>2 DEF TodoInv

\* Every step keeps the types.
LEMMA TodoTypesStep == TodoTypes /\ [TodoStoreNext]_todoVars => TodoTypes'
<1> SUFFICES ASSUME TodoTypes, [TodoStoreNext]_todoVars PROVE TodoTypes'
  OBVIOUS
<1> USE DEF TodoTypes, uiVars, Phase
<1>1. \A e \in {"start", "done"} : Append(events, e) \in Seq({"start", "done"})
  BY AppendProperties
<1>2. events # <<>> => Tail(events) \in Seq({"start", "done"})
  BY HeadTailProperties
<1>3. <<>> \in Seq(Items) /\ <<>> \in Seq({"start", "done"})
  OBVIOUS
<1>4. ASSUME NEW t \in TodoTurns, BeginCall(t) PROVE TodoTypes'
  BY <1>1, <1>4 DEF BeginCall, Report
<1>5. ASSUME NEW t \in TodoTurns, Apply(t) PROVE TodoTypes'
  <2>1. completed' \in Nat /\ store' \in Seq(Items)
    BY <1>5, TodoLists DEF Apply
  <2>2. todosRaced' \in BOOLEAN
    BY <1>5 DEF Apply
  <2> QED BY <1>5, <2>1, <2>2 DEF Apply
<1>6. ASSUME NEW t \in TodoTurns, SaveTodosSnapshot(t) PROVE TodoTypes'
  BY <1>6 DEF SaveTodosSnapshot
<1>7. ASSUME NEW t \in TodoTurns, WriteSnapshot(t) PROVE TodoTypes'
  BY <1>7 DEF WriteSnapshot
<1>8. ASSUME NEW t \in TodoTurns, EndCall(t) PROVE TodoTypes'
  BY <1>1, <1>8 DEF EndCall, Report
<1>9. ASSUME NEW t \in TodoTurns, StartTurn(t) PROVE TodoTypes'
  BY <1>9 DEF StartTurn
<1>10. CASE CancelTodoTurn
  BY <1>3, <1>10 DEF CancelTodoTurn
<1>11. CASE HandleStart
  BY <1>2, <1>11 DEF HandleStart
<1>12. CASE HandleDone
  BY <1>2, <1>12 DEF HandleDone
<1>13. CASE ClearTodos
  BY <1>3, <1>13 DEF ClearTodos
<1>14. CASE UNCHANGED todoVars
  BY <1>14 DEF todoVars
<1> QED BY <1>4, <1>5, <1>6, <1>7, <1>8, <1>9, <1>10, <1>11, <1>12, <1>13, <1>14
        DEF TodoStoreNext

\* An announcement takes one completed list with it.
LEMMA AnnouncedStep ==
  ASSUME TodoTypes, AnnouncedInv, [TodoStoreNext]_todoVars
  PROVE  AnnouncedInv'
<1> USE DEF TodoTypes, AnnouncedInv, uiVars
<1>1. ASSUME NEW t \in TodoTurns, Apply(t) PROVE AnnouncedInv'
  BY <1>1 DEF Apply
<1>2. CASE HandleDone
  BY <1>2 DEF HandleDone, Announces
<1>3. CASE ClearTodos
  BY <1>3, TodoLists DEF ClearTodos
<1>4. ASSUME NEW t \in TodoTurns,
             \/ BeginCall(t) \/ SaveTodosSnapshot(t) \/ WriteSnapshot(t) \/ EndCall(t)
             \/ StartTurn(t) \/ CancelTodoTurn \/ HandleStart
      PROVE  UNCHANGED <<store, clearing, announced, completed>>
  BY <1>4 DEF BeginCall, SaveTodosSnapshot, WriteSnapshot, EndCall, StartTurn,
              CancelTodoTurn, HandleStart
<1>5. CASE CancelTodoTurn \/ HandleStart \/ UNCHANGED todoVars
  BY <1>5 DEF CancelTodoTurn, HandleStart, todoVars
<1> QED BY <1>1, <1>2, <1>3, <1>4, <1>5 DEF TodoStoreNext

\* The file and the UI keep up with the list.
LEMMA SnapshotStep ==
  ASSUME TodoTypes, SnapshotInv, [TodoStoreNext]_todoVars
  PROVE  SnapshotInv'
<1> SUFFICES ASSUME ~todosRaced' PROVE SnapshotInv'
  BY DEF SnapshotInv
<1> USE DEF TodoTypes, SnapshotInv, uiVars, Phase
<1>1. ASSUME NEW t \in TodoTurns, BeginCall(t) PROVE SnapshotInv'
  BY <1>1 DEF BeginCall
<1>2. ASSUME NEW t \in TodoTurns, Apply(t) PROVE SnapshotInv'
  <2>1. ~todosRaced
    BY <1>2 DEF Apply
  <2>2. CASE UNCHANGED store
    BY <1>2, <2>1, <2>2 DEF Apply
  <2>3. CASE ~UNCHANGED store
    <3>1. clearing = "no" /\ ~Changing
      BY <1>2, <2>3 DEF Apply
    <3>2. snapshot = store
      BY <2>1, <3>1 DEF Changing
    <3> QED BY <1>2, <2>1, <2>3, <3>1, <3>2 DEF Apply, Changing
  <2> QED BY <2>2, <2>3
<1>3. ASSUME NEW t \in TodoTurns, SaveTodosSnapshot(t) PROVE SnapshotInv'
  BY <1>3 DEF SaveTodosSnapshot, Unsaved
<1>4. ASSUME NEW t \in TodoTurns, WriteSnapshot(t) PROVE SnapshotInv'
  BY <1>4 DEF WriteSnapshot
<1>5. ASSUME NEW t \in TodoTurns, EndCall(t) PROVE SnapshotInv'
  BY <1>5 DEF EndCall
<1>6. ASSUME NEW t \in TodoTurns, StartTurn(t) PROVE SnapshotInv'
  BY <1>6 DEF StartTurn
<1>7. CASE CancelTodoTurn \/ HandleStart \/ UNCHANGED todoVars
  BY <1>7 DEF CancelTodoTurn, HandleStart, todoVars
<1>8. CASE HandleDone
  BY <1>8 DEF HandleDone, Changing
<1>9. CASE ClearTodos
  BY <1>9 DEF ClearTodos, AllDone
<1> QED BY <1>1, <1>2, <1>3, <1>4, <1>5, <1>6, <1>7, <1>8, <1>9 DEF TodoStoreNext

\* The end of the call that completed the list is on its way to the UI.
LEMMA ClearedStep ==
  ASSUME TodoTypes, SnapshotInv, ClearedInv, [TodoStoreNext]_todoVars
  PROVE  ClearedInv'
<1> SUFFICES ASSUME ~abandoned' PROVE ClearedInv'
  BY DEF ClearedInv
<1> USE DEF TodoTypes, uiVars, Phase
<1>1. ASSUME NEW e PROVE DoneEvent => \E i \in 1..Len(Append(events, e)) : Append(events, e)[i] = "done"
  BY DEF DoneEvent
<1>2. ASSUME NEW t \in TodoTurns, BeginCall(t) PROVE ClearedInv'
  <2>1. events' = Append(events, "start")
    BY <1>2 DEF BeginCall, Report
  <2>2. DoneEvent => DoneEvent'
    BY <1>1, <2>1 DEF DoneEvent
  <2> QED BY <1>2, <2>2 DEF BeginCall, ClearedInv
<1>3. ASSUME NEW t \in TodoTurns, Apply(t) PROVE ClearedInv'
  BY <1>3 DEF Apply, ClearedInv, DoneEvent
<1>4. ASSUME NEW t \in TodoTurns, SaveTodosSnapshot(t) PROVE ClearedInv'
  BY <1>4 DEF SaveTodosSnapshot, ClearedInv, DoneEvent
<1>5. ASSUME NEW t \in TodoTurns, WriteSnapshot(t) PROVE ClearedInv'
  BY <1>5 DEF WriteSnapshot, ClearedInv, DoneEvent
<1>6. ASSUME NEW t \in TodoTurns, EndCall(t) PROVE ClearedInv'
  <2>1. events' = Append(events, "done")
    BY <1>6 DEF EndCall, Report, ClearedInv
  <2>2. DoneEvent'
    BY <2>1 DEF DoneEvent
  <2> QED BY <1>6, <2>2 DEF EndCall, ClearedInv
<1>7. ASSUME NEW t \in TodoTurns, StartTurn(t) PROVE ClearedInv'
  <2>1. \A u \in TodoTurns : todoCall[u] = "none"
    BY <1>7, TodoConstants DEF StartTurn, ClearedInv
  <2> QED BY <1>7, <2>1 DEF StartTurn, ClearedInv, DoneEvent
<1>8. CASE CancelTodoTurn
  <2>1. ~abandoned /\ events = <<>> /\ todoCall[panel] = "none"
    BY <1>8 DEF CancelTodoTurn
  <2>2. \A u \in TodoTurns : todoCall[u] = "none"
    BY <2>1 DEF ClearedInv
  <2>3. ~DoneEvent
    BY <2>1 DEF DoneEvent
  <2> QED BY <1>8, <2>1, <2>2, <2>3 DEF CancelTodoTurn, ClearedInv
<1>9. CASE HandleStart
  <2>1. DoneEvent => DoneEvent'
    <3> SUFFICES ASSUME NEW i \in 1..Len(events), events[i] = "done" PROVE DoneEvent'
      BY DEF DoneEvent
    <3>1. events' = Tail(events) /\ events # <<>> /\ events[1] = "start"
      BY <1>9 DEF HandleStart
    <3>2. i # 1 /\ i - 1 \in 1..Len(events') /\ events'[i - 1] = "done"
      BY <3>1
    <3> QED BY <3>2 DEF DoneEvent
  <2> QED BY <1>9, <2>1 DEF HandleStart, ClearedInv
<1>10. CASE HandleDone
  BY <1>10 DEF HandleDone, ClearedInv
<1>11. CASE ClearTodos
  BY <1>11, TodoLists DEF ClearTodos, ClearedInv, SnapshotInv, DoneEvent
<1>12. CASE UNCHANGED todoVars
  BY <1>12 DEF todoVars, ClearedInv, DoneEvent
<1> QED BY <1>2, <1>3, <1>4, <1>5, <1>6, <1>7, <1>8, <1>9, <1>10, <1>11, <1>12
        DEF TodoStoreNext

\* A completed list is announced at most once, the file holds the list at rest,
\* open items are not cleared and completed ones are.  All but the first only as
\* long as no turn and the UI changed the list across each other, the last only if
\* moreover no turn was cancelled within a call.
THEOREM TodosStayKept == TodoStoreSpec => []TodosKept
<1>1. TodoInv /\ [TodoStoreNext]_todoVars => TodoInv'
  BY TodoTypesStep, AnnouncedStep, SnapshotStep, ClearedStep DEF TodoInv
<1>2. TodoInv => TodosKept
  BY DEF TodoInv, TodoTypes, AnnouncedInv, SnapshotInv, ClearedInv, TodosKept, TodosQuiet,
         DoneEvent
<1> QED BY <1>1, <1>2, TodoInit, PTL DEF TodoStoreSpec

-----------------------------------------------------------------------------
(***************************************************************************)
(* Provider files: what the user switched off survives the syncs, a        *)
(* completed sync leaves nothing to offer, and his own file is the one     *)
(* that counts; for any models, catalog and commands, and any number of    *)
(* syncs.                                                                  *)
(***************************************************************************)

Flags == {"on", "off", NoProvider}
Configs == [there : BOOLEAN, own : BOOLEAN, ids : [Models -> Flags], fresh : SUBSET CatalogIDs]
ProviderReads == [p : ProviderIDs \cup {NoProvider}, ext : Exts, cfg : Configs,
                  id : Models \cup {NoProvider}, flag : Flags]
TargetOf(r) == [p |-> r.p, ext |-> r.ext]

ProviderTypes ==
    /\ file \in [ProviderIDs -> [Exts -> Configs]]
    /\ due \in BOOLEAN /\ raced \in BOOLEAN /\ connected \in BOOLEAN
    /\ ui \in {"off", "preview", "idle", "offer", "run"}
    /\ left \subseteq [p : ProviderIDs, ext : Exts]
    /\ read \in [Readers -> ProviderReads]
    /\ off \subseteq ProviderIDs \X Models /\ dropped \subseteq ProviderIDs \X Models
    /\ synced \in {"no", "begun", "done"}

\* Who has read a file knows which, and what a sync has read it still has to do.
HolderInv ==
    /\ \A w \in Readers : read[w] # Nobody => read[w].p \in ProviderIDs
    /\ read["cli"] # Nobody => read["cli"].id \in Models /\ read["cli"].flag \in {"on", "off"}
    /\ read["sync"] # Nobody => ui = "run" /\ TargetOf(read["sync"]) \in left
    /\ ui = "run" <=> left # {}

\* A file that is not there says nothing, a file that somebody works with is
\* there and stays whose it is, and until `connect` a provider has one file.
PresentInv ==
    /\ \A p \in ProviderIDs, x \in Exts : ~file[p][x].there =>
          ~file[p][x].own /\ \A i \in Models : file[p][x].ids[i] = NoProvider
    /\ \A t \in left : file[t.p][t.ext].there
    /\ \A w \in Readers : read[w] # Nobody =>
          /\ file[read[w].p][read[w].ext].there
          /\ read[w].cfg.there /\ read[w].cfg.own = file[read[w].p][read[w].ext].own
    /\ ~connected => \A p \in ProviderIDs : ~(file[p]["json"].there /\ file[p]["jsonc"].there)

\* What was switched off, and not dropped since, is there and off.
FlagsInv ==
    ~raced /\ ~connected => \A x \in off \ dropped : Current(x[1]).ids[x[2]] = "off"

\* What the running sync no longer has to do has nothing to offer.
SyncInv ==
    /\ ui = "offer" \/ synced # "no" => Known # {}
    /\ ui = "run" => synced # "done"
    /\ synced = "begun" /\ ui = "run" =>
         /\ left \subseteq Targets
         /\ read["sync"] # Nobody => ~Stale(read["sync"])
         /\ \A p \in Known : p # "live" /\ [p |-> p, ext |-> EntryOf(p)] \notin left => ~WouldChange(p)
    /\ synced = "done" => \A p \in Known : p # "live" => ~WouldChange(p)

ProviderInv == ProviderTypes /\ HolderInv /\ PresentInv /\ FlagsInv /\ SyncInv

-----------------------------------------------------------------------------

\* Merging a catalog keeps whose file it is, keeps what is off, and is done
\* after one time.  (sync_models.go: syncCatalogProviderModels)
CatalogIds(cfg) == [i \in Models |-> IF i \in CatalogIDs THEN Merged(cfg.ids[i]) ELSE cfg.ids[i]]
LEMMA SyncCatalogForm ==
    ASSUME NEW cfg \in Configs
    PROVE  SyncCatalog(cfg) = [there |-> cfg.there, own |-> cfg.own, ids |-> CatalogIds(cfg),
                               fresh |-> cfg.fresh \cup CatalogIDs]
<1>1. SyncCatalog(cfg) = [cfg EXCEPT !.fresh = cfg.fresh \cup CatalogIDs, !.ids = CatalogIds(cfg)]
  BY DEF SyncCatalog, CatalogIds
<1> QED BY <1>1 DEF Configs

LEMMA SyncCatalogKeeps ==
    ASSUME NEW cfg \in Configs
    PROVE  /\ SyncCatalog(cfg) \in Configs
           /\ SyncCatalog(cfg).there = cfg.there /\ SyncCatalog(cfg).own = cfg.own
           /\ \A i \in Models : cfg.ids[i] = "off" => SyncCatalog(cfg).ids[i] = "off"
           /\ SyncCatalog(SyncCatalog(cfg)) = SyncCatalog(cfg)
<1> DEFINE next == [there |-> cfg.there, own |-> cfg.own, ids |-> CatalogIds(cfg),
                    fresh |-> cfg.fresh \cup CatalogIDs]
<1>1. SyncCatalog(cfg) = next
  BY SyncCatalogForm
<1>3. next \in Configs
  BY DEF Configs, CatalogIds, Merged, Flags
<1>4. SyncCatalog(next) = next
  <2>1. CatalogIds(next) = CatalogIds(cfg)
    BY DEF CatalogIds, Merged, NoProvider, Configs, Flags
  <2>2. next.fresh \cup CatalogIDs = next.fresh
    OBVIOUS
  <2>3. SyncCatalog(next) = [there |-> next.there, own |-> next.own, ids |-> CatalogIds(next),
                             fresh |-> next.fresh \cup CatalogIDs]
    BY <1>3, SyncCatalogForm
  <2> QED BY <2>1, <2>2, <2>3
<1>5. \A i \in Models : cfg.ids[i] = "off" => next.ids[i] = "off"
  BY DEF CatalogIds, Merged, NoProvider
<1> QED BY <1>1, <1>3, <1>4, <1>5

\* A live list keeps whose file it is; what is off stays off or is dropped.
\* (sync_models.go: syncLiveProviderModels)
LEMMA SyncLiveKeeps ==
    ASSUME NEW cfg \in Configs, NEW live \in SUBSET Models
    PROVE  /\ SyncLive(cfg, live) \in Configs
           /\ SyncLive(cfg, live).there = cfg.there /\ SyncLive(cfg, live).own = cfg.own
           /\ \A i \in Models : cfg.ids[i] = "off" => SyncLive(cfg, live).ids[i] \in {"off", NoProvider}
<1> DEFINE ids == [i \in Models |-> IF i \in live THEN Merged(cfg.ids[i]) ELSE NoProvider]
<1> DEFINE next == [there |-> cfg.there, own |-> cfg.own, ids |-> ids,
                    fresh |-> (cfg.fresh \cup CatalogIDs) \cap live]
<1>0. SyncLive(cfg, live) = [cfg EXCEPT !.fresh = (cfg.fresh \cup CatalogIDs) \cap live, !.ids = ids]
  BY DEF SyncLive
<1>1. SyncLive(cfg, live) = next
  <2> HIDE DEF ids
  <2> QED BY <1>0 DEF Configs
<1>2. ids \in [Models -> Flags]
  BY DEF Merged, Configs, Flags
<1>3. next \in Configs
  BY <1>2 DEF Configs
<1>5. \A i \in Models : cfg.ids[i] = "off" => next.ids[i] \in {"off", NoProvider}
  BY DEF Merged, NoProvider
<1> QED BY <1>1, <1>3, <1>5

\* The files a provider can have, a starter file and an entry's change.
LEMMA ConfigKinds ==
    /\ NoFile \in Configs /\ ~NoFile.there /\ ~NoFile.own
    /\ \A i \in Models : NoFile.ids[i] = NoProvider
    /\ Template \in Configs /\ Template.there /\ ~Template.own
    /\ [Template EXCEPT !.own = TRUE] \in Configs
    /\ [Template EXCEPT !.own = TRUE].there
    /\ Nobody \in ProviderReads
BY DEF NoFile, Template, Configs, Flags, Nobody, ProviderReads, Exts

\* What the writing of one file changes.
PutInto(f, p, x, cfg) == [f EXCEPT ![p][x] = cfg]
OnlyAt(g, f, p, x, cfg) ==
    \A q \in ProviderIDs, y \in Exts : g[q][y] = IF q = p /\ y = x THEN cfg ELSE f[q][y]
LEMMA PutOne ==
    ASSUME NEW f \in [ProviderIDs -> [Exts -> Configs]], NEW p \in ProviderIDs, NEW x \in Exts,
           NEW cfg \in Configs
    PROVE  /\ PutInto(f, p, x, cfg) \in [ProviderIDs -> [Exts -> Configs]]
           /\ OnlyAt(PutInto(f, p, x, cfg), f, p, x, cfg)
BY DEF PutInto, OnlyAt

\* The starter files: an existing <id>.json is left alone.
LEMMA BootstrapEach ==
    ASSUME ProviderTypes, NEW p \in ProviderIDs
    PROVE  /\ Bootstrapped(p) \in [Exts -> Configs]
           /\ Bootstrapped(p)["json"] = IF file[p]["json"].there THEN file[p]["json"] ELSE Template
           /\ Bootstrapped(p)["jsonc"] = file[p]["jsonc"]
BY ConfigKinds DEF Bootstrapped, ProviderTypes, Exts

\* What a sync writes is a file of the same owner.
NextOf(r, live) == IF r.p = "live" /\ live # {} THEN SyncLive(r.cfg, live) ELSE SyncCatalog(r.cfg)
LEMMA SyncWritten ==
    ASSUME NEW r \in ProviderReads, NEW live \in SUBSET Models
    PROVE  /\ NextOf(r, live) \in Configs
           /\ NextOf(r, live).there = r.cfg.there /\ NextOf(r, live).own = r.cfg.own
           /\ \A i \in Models : r.cfg.ids[i] = "off" => NextOf(r, live).ids[i] \in {"off", NoProvider}
<1>1. r.cfg \in Configs
  BY DEF ProviderReads
<1>2. CASE r.p = "live" /\ live # {}
  BY <1>1, <1>2, SyncLiveKeeps DEF NextOf
<1>3. CASE ~(r.p = "live" /\ live # {})
  BY <1>1, <1>3, SyncCatalogKeeps DEF NextOf
<1> QED BY <1>2, <1>3

\* The target a sync takes next is one of those left.
LEMMA NextTargetLeft ==
    ASSUME ProviderTypes, left # {}
    PROVE  NextTarget(left) \in left /\ NextTarget(left).p \in ProviderIDs
           /\ NextTarget(left).ext \in Exts
<1>1. \E t \in left : t.p = "live" \/ \A u \in left : u.p # "live"
  OBVIOUS
<1>2. NextTarget(left) \in left
  BY <1>1 DEF NextTarget
<1> QED BY <1>2 DEF ProviderTypes

\* An entry of `read` is replaced.
LEMMA ReadingOne ==
    ASSUME ProviderTypes, NEW who \in Readers, NEW r \in ProviderReads, Reading(who, r)
    PROVE  /\ read' \in [Readers -> ProviderReads]
           /\ read'[who] = r /\ \A w \in Readers : w # who => read'[w] = read[w]
BY DEF Reading, ProviderTypes

\* The daily sync interval elapses: every file has something to gain again.
LEMMA ElapsedFiles ==
    ASSUME ProviderTypes, Elapse
    PROVE  /\ file' \in [ProviderIDs -> [Exts -> Configs]]
           /\ \A p \in ProviderIDs, x \in Exts :
                /\ file'[p][x].there = file[p][x].there /\ file'[p][x].own = file[p][x].own
                /\ file'[p][x].ids = file[p][x].ids
           /\ read' \in [Readers -> ProviderReads]
           /\ \A w \in Readers :
                /\ read'[w].p = read[w].p /\ read'[w].ext = read[w].ext
                /\ read'[w].id = read[w].id /\ read'[w].flag = read[w].flag
                /\ read'[w].cfg.there = read[w].cfg.there /\ read'[w].cfg.own = read[w].cfg.own
                /\ read[w] = Nobody => read'[w] = Nobody
<1>1. ASSUME NEW c \in Configs
      PROVE  /\ [c EXCEPT !.fresh = {}] \in Configs
             /\ [c EXCEPT !.fresh = {}].there = c.there /\ [c EXCEPT !.fresh = {}].own = c.own
             /\ [c EXCEPT !.fresh = {}].ids = c.ids
  BY DEF Configs
<1>2. file' = [p \in ProviderIDs |-> [x \in Exts |-> [file[p][x] EXCEPT !.fresh = {}]]]
  BY DEF Elapse
<1>3. \A p \in ProviderIDs, x \in Exts : file[p][x] \in Configs
  BY DEF ProviderTypes
<1>4. /\ file' \in [ProviderIDs -> [Exts -> Configs]]
      /\ \A p \in ProviderIDs, x \in Exts :
           /\ file'[p][x].there = file[p][x].there /\ file'[p][x].own = file[p][x].own
           /\ file'[p][x].ids = file[p][x].ids
  BY <1>1, <1>2, <1>3
<1>5. ASSUME NEW r \in ProviderReads
      PROVE  /\ [r EXCEPT !.cfg.fresh = {}] \in ProviderReads
             /\ [r EXCEPT !.cfg.fresh = {}].p = r.p /\ [r EXCEPT !.cfg.fresh = {}].ext = r.ext
             /\ [r EXCEPT !.cfg.fresh = {}].id = r.id /\ [r EXCEPT !.cfg.fresh = {}].flag = r.flag
             /\ [r EXCEPT !.cfg.fresh = {}].cfg = [r.cfg EXCEPT !.fresh = {}]
  <2>1. r.cfg \in Configs
    BY DEF ProviderReads
  <2>2. [r.cfg EXCEPT !.fresh = {}] \in Configs
    BY <2>1, <1>1
  <2> QED BY <2>2 DEF ProviderReads
<1>6. read' = [w \in Readers |-> [read[w] EXCEPT !.cfg.fresh = {}]]
  BY DEF Elapse
<1>7. \A w \in Readers : read[w] \in ProviderReads /\ read[w].cfg \in Configs
  BY DEF ProviderTypes, ProviderReads
<1>8. [Nobody EXCEPT !.cfg.fresh = {}] = Nobody
  <2>1. [NoFile EXCEPT !.fresh = {}] = NoFile
    <3>1. NoFile \in Configs /\ NoFile.fresh = {} /\ [NoFile EXCEPT !.fresh = {}].fresh = {}
      BY ConfigKinds DEF NoFile
    <3>2. \A c, d \in Configs :
             c.there = d.there /\ c.own = d.own /\ c.ids = d.ids /\ c.fresh = d.fresh => c = d
      BY DEF Configs
    <3> QED BY <1>1, <3>1, <3>2
  <2>2. Nobody.cfg = NoFile
    BY DEF Nobody
  <2>3. \A r, s \in ProviderReads :
           r.p = s.p /\ r.ext = s.ext /\ r.cfg = s.cfg /\ r.id = s.id /\ r.flag = s.flag => r = s
    BY DEF ProviderReads
  <2>4. Nobody \in ProviderReads
    BY ConfigKinds
  <2> DEFINE none == [Nobody EXCEPT !.cfg.fresh = {}]
  <2>5. none \in ProviderReads /\ none.p = Nobody.p /\ none.ext = Nobody.ext /\ none.id = Nobody.id
        /\ none.flag = Nobody.flag /\ none.cfg = Nobody.cfg
    BY <1>5, <2>1, <2>2, <2>4
  <2>6. none = Nobody
    <3> HIDE DEF none
    <3> QED BY <2>3, <2>4, <2>5
  <2> QED BY <2>6
<1>9. ASSUME NEW w \in Readers
      PROVE  /\ read'[w] \in ProviderReads
             /\ read'[w].p = read[w].p /\ read'[w].ext = read[w].ext
             /\ read'[w].id = read[w].id /\ read'[w].flag = read[w].flag
             /\ read'[w].cfg.there = read[w].cfg.there /\ read'[w].cfg.own = read[w].cfg.own
             /\ read[w] = Nobody => read'[w] = Nobody
  <2>1. read'[w] = [read[w] EXCEPT !.cfg.fresh = {}]
    BY <1>6
  <2>2. read[w] \in ProviderReads /\ read[w].cfg \in Configs
    BY <1>7
  <2>3. read'[w].cfg = [read[w].cfg EXCEPT !.fresh = {}]
    BY <2>1, <2>2, <1>5
  <2>4. read'[w].cfg.there = read[w].cfg.there /\ read'[w].cfg.own = read[w].cfg.own
    BY <2>2, <2>3, <1>1
  <2>5. /\ read'[w] \in ProviderReads
        /\ read'[w].p = read[w].p /\ read'[w].ext = read[w].ext
        /\ read'[w].id = read[w].id /\ read'[w].flag = read[w].flag
    BY <2>1, <2>2, <1>5
  <2>6. read[w] = Nobody => read'[w] = Nobody
    BY <2>1, <1>8
  <2> QED BY <2>4, <2>5, <2>6
<1>10. read' \in [Readers -> ProviderReads]
  BY <1>6, <1>9
<1> QED BY <1>4, <1>9, <1>10

\* Every action keeps the types.
LEMMA ProviderTypesStep == ProviderTypes /\ HolderInv /\ [ProviderFilesNext]_providerVars => ProviderTypes'
<1> SUFFICES ASSUME ProviderTypes, HolderInv, [ProviderFilesNext]_providerVars PROVE ProviderTypes'
  OBVIOUS
<1> USE DEF Shared
<1>1. CASE StartElph
  <2>1. file' \in [ProviderIDs -> [Exts -> Configs]]
    <3>1. [q \in ProviderIDs |-> Bootstrapped(q)] \in [ProviderIDs -> [Exts -> Configs]]
      BY BootstrapEach
    <3> QED BY <1>1, <3>1 DEF StartElph, ProviderTypes
  <2> QED BY <1>1, <2>1 DEF StartElph, ProviderTypes
<1>2. CASE Preview
  BY <1>2 DEF Preview, ProviderTypes
<1>3. CASE Skip
  BY <1>3 DEF Skip, ProviderTypes
<1>4. CASE RunModelsSync
  BY <1>4 DEF RunModelsSync, ProviderTypes, Targets, Known, EntryOf, Exts
<1>5. CASE SyncRead
  <2>1. left # {}
    BY <1>5 DEF SyncRead, HolderInv
  <2> DEFINE t == NextTarget(left)
  <2> DEFINE r == [Nobody EXCEPT !.p = t.p, !.ext = t.ext, !.cfg = file[t.p][t.ext]]
  <2>2. t.p \in ProviderIDs /\ t.ext \in Exts /\ file[t.p][t.ext] \in Configs
    BY <2>1, NextTargetLeft DEF ProviderTypes
  <2>3. r \in ProviderReads
    <3> HIDE DEF t
    <3> QED BY <2>2, ConfigKinds DEF ProviderReads
  <2>4. Reading("sync", r)
    BY <1>5 DEF SyncRead
  <2>5. read' \in [Readers -> ProviderReads]
    <3> HIDE DEF r
    <3> QED BY <2>3, <2>4, ReadingOne DEF Readers
  <2> QED BY <1>5, <2>5 DEF SyncRead, ProviderTypes
<1>6. CASE SyncFails
  <2>1. read' \in [Readers -> ProviderReads]
    BY <1>6, ReadingOne, ConfigKinds DEF SyncFails, Readers
  <2> QED BY <1>6, <2>1 DEF SyncFails, ProviderTypes
<1>7. CASE QuitElph
  <2>1. read' \in [Readers -> ProviderReads]
    BY <1>7, ReadingOne, ConfigKinds DEF QuitElph, Readers
  <2> QED BY <1>7, <2>1 DEF QuitElph, ProviderTypes
<1>8. CASE Elapse
  BY <1>8, ElapsedFiles DEF Elapse, ProviderTypes
<1>9. ASSUME NEW live \in SUBSET Models, SyncWrite(live) PROVE ProviderTypes'
  <2> DEFINE r == read["sync"]
  <2> DEFINE next == NextOf(r, live)
  <2>1. r \in ProviderReads /\ r.p \in ProviderIDs /\ r.ext \in Exts
    BY <1>9 DEF SyncWrite, HolderInv, ProviderTypes, Readers, ProviderReads
  <2>2. next \in Configs
    BY <2>1, SyncWritten
  <2>3. file' = IF next = r.cfg THEN file ELSE PutInto(file, r.p, r.ext, next)
    BY <1>9 DEF SyncWrite, NextOf, PutInto
  <2>4. file' \in [ProviderIDs -> [Exts -> Configs]]
    <3> HIDE DEF r, next
    <3> QED BY <2>1, <2>2, <2>3, PutOne DEF ProviderTypes
  <2>5. read' \in [Readers -> ProviderReads]
    BY <1>9, ReadingOne, ConfigKinds DEF SyncWrite, Readers
  <2>6. dropped' \subseteq ProviderIDs \X Models
    BY <1>9, <2>1 DEF SyncWrite, ProviderTypes
  <2>7. left' \subseteq left /\ raced' \in BOOLEAN /\ off' = off /\ connected' = connected
    BY <1>9 DEF SyncWrite, ProviderTypes
  <2>8. ui' \in {"idle", "run"} /\ due' \in BOOLEAN /\ synced' \in {synced, "done"}
    BY <1>9 DEF SyncWrite, ProviderTypes
  <2> QED BY <2>4, <2>5, <2>6, <2>7, <2>8 DEF ProviderTypes
<1>10. ASSUME NEW p \in ProviderIDs, NEW i \in Models, NEW flag \in {"on", "off"},
              SetModelEnabled(p, i, flag)
       PROVE  ProviderTypes'
  <2> DEFINE r == [p |-> p, ext |-> EntryOf(p), cfg |-> Current(p), id |-> i, flag |-> flag]
  <2>1. EntryOf(p) \in Exts /\ Current(p) \in Configs
    BY DEF EntryOf, Current, Exts, ProviderTypes
  <2>2. r \in ProviderReads
    BY <2>1 DEF ProviderReads, Flags
  <2>3. Reading("cli", r)
    BY <1>10 DEF SetModelEnabled
  <2>4. read' \in [Readers -> ProviderReads]
    <3> HIDE DEF r
    <3> QED BY <2>2, <2>3, ReadingOne DEF Readers
  <2> QED BY <1>10, <2>4 DEF SetModelEnabled, ProviderTypes
<1>11. CASE CLIWrite
  <2> DEFINE r == read["cli"]
  <2> DEFINE next == [r.cfg EXCEPT !.ids[r.id] = r.flag]
  <2>1. /\ r \in ProviderReads /\ r.p \in ProviderIDs /\ r.ext \in Exts
        /\ r.id \in Models /\ r.flag \in {"on", "off"} /\ r.cfg \in Configs
    BY <1>11 DEF CLIWrite, HolderInv, ProviderTypes, Readers, ProviderReads
  <2>2. next \in Configs
    <3> HIDE DEF r
    <3> QED BY <2>1 DEF Configs, Flags
  <2>3. file' = PutInto(file, r.p, r.ext, next)
    BY <1>11 DEF CLIWrite, PutInto, Put
  <2>4. file' \in [ProviderIDs -> [Exts -> Configs]]
    <3> HIDE DEF r, next
    <3> QED BY <2>1, <2>2, <2>3, PutOne DEF ProviderTypes
  <2>5. read' \in [Readers -> ProviderReads]
    BY <1>11, ReadingOne, ConfigKinds DEF CLIWrite, Readers
  <2>6. off' \subseteq ProviderIDs \X Models /\ dropped' \subseteq ProviderIDs \X Models
    BY <1>11, <2>1 DEF CLIWrite, ProviderTypes
  <2> QED BY <1>11, <2>4, <2>5, <2>6 DEF CLIWrite, ProviderTypes
<1>12. CASE Connect
  <2>1. [q \in ProviderIDs |-> Bootstrapped(q)] \in [ProviderIDs -> [Exts -> Configs]]
    BY BootstrapEach
  <2> QED BY <1>12, <2>1 DEF Connect, ProviderTypes
<1>13. ASSUME NEW p \in ProviderIDs, NEW x \in Exts, WriteOwnFile(p, x) PROVE ProviderTypes'
  <2>1. file' = PutInto(file, p, x, [Template EXCEPT !.own = TRUE])
    BY <1>13 DEF WriteOwnFile, Put, PutInto
  <2>2. file' \in [ProviderIDs -> [Exts -> Configs]]
    BY <2>1, PutOne, ConfigKinds DEF ProviderTypes
  <2> QED BY <1>13, <2>2 DEF WriteOwnFile, ProviderTypes
<1>14. CASE UNCHANGED providerVars
  BY <1>14 DEF providerVars, ProviderTypes
<1> QED BY <1>1, <1>2, <1>3, <1>4, <1>5, <1>6, <1>7, <1>8, <1>9, <1>10, <1>11, <1>12, <1>13, <1>14
        DEF ProviderFilesNext

\* Every action keeps track of who has read what.
LEMMA HolderStep ==
    ProviderTypes /\ HolderInv /\ SyncInv /\ [ProviderFilesNext]_providerVars => HolderInv'
<1> SUFFICES ASSUME ProviderTypes, HolderInv, SyncInv, [ProviderFilesNext]_providerVars PROVE HolderInv'
  OBVIOUS
<1> USE DEF Shared
<1>0. Nobody \in ProviderReads /\ "sync" \in Readers /\ "cli" \in Readers /\ Readers = {"sync", "cli"}
  BY ConfigKinds DEF Readers
<1>1. CASE StartElph
  BY <1>1 DEF StartElph, HolderInv
<1>2. CASE Preview
  BY <1>2 DEF Preview, HolderInv
<1>3. CASE Skip
  BY <1>3 DEF Skip, HolderInv
<1>4. CASE RunModelsSync
  <2>1. Targets # {}
    BY <1>4 DEF RunModelsSync, SyncInv, Targets
  <2> QED BY <1>4, <2>1 DEF RunModelsSync, HolderInv
<1>5. CASE SyncRead
  <2> DEFINE t == NextTarget(left)
  <2> DEFINE r == [Nobody EXCEPT !.p = t.p, !.ext = t.ext, !.cfg = file[t.p][t.ext]]
  <2>1. left # {}
    BY <1>5 DEF SyncRead, HolderInv
  <2>2. t \in left /\ t.p \in ProviderIDs /\ t.ext \in Exts /\ file[t.p][t.ext] \in Configs
    BY <2>1, NextTargetLeft DEF ProviderTypes
  <2>3. r \in ProviderReads /\ r.p = t.p /\ r.ext = t.ext
    <3> HIDE DEF t
    <3> QED BY <2>2, ConfigKinds DEF ProviderReads
  <2>4. TargetOf(r) = t
    <3>1. t \in [p : ProviderIDs, ext : Exts]
      BY <2>2 DEF ProviderTypes
    <3> HIDE DEF t, r
    <3> QED BY <2>3, <3>1 DEF TargetOf
  <2>5. Reading("sync", r)
    BY <1>5 DEF SyncRead
  <2>6. read'["sync"] = r /\ read'["cli"] = read["cli"]
    <3> HIDE DEF r
    <3> QED BY <1>0, <2>3, <2>5, ReadingOne
  <2> HIDE DEF r, t
  <2>7. ui' = ui /\ left' = left /\ ui = "run"
    BY <1>5 DEF SyncRead
  <2> QED BY <1>0, <2>2, <2>3, <2>4, <2>6, <2>7 DEF HolderInv
<1>6. CASE SyncFails
  <2>1. read'["sync"] = Nobody /\ read'["cli"] = read["cli"]
    BY <1>0, <1>6, ReadingOne DEF SyncFails
  <2> QED BY <1>0, <1>6, <2>1 DEF SyncFails, HolderInv
<1>7. CASE QuitElph
  <2>1. read'["sync"] = Nobody /\ read'["cli"] = read["cli"]
    BY <1>0, <1>7, ReadingOne DEF QuitElph
  <2> QED BY <1>0, <1>7, <2>1 DEF QuitElph, HolderInv
<1>8. CASE Elapse
  <2>1. ui' = ui /\ left' = left
    BY <1>8 DEF Elapse
  <2> QED BY <1>0, <1>8, <2>1, ElapsedFiles DEF HolderInv, TargetOf
<1>9. ASSUME NEW live \in SUBSET Models, SyncWrite(live) PROVE HolderInv'
  <2>1. read'["sync"] = Nobody /\ read'["cli"] = read["cli"]
    BY <1>0, <1>9, ReadingOne DEF SyncWrite
  <2>2. ui' = IF left' = {} THEN "idle" ELSE "run"
    BY <1>9 DEF SyncWrite
  <2> QED BY <1>0, <2>1, <2>2 DEF HolderInv
<1>10. ASSUME NEW p \in ProviderIDs, NEW i \in Models, NEW flag \in {"on", "off"},
              SetModelEnabled(p, i, flag)
       PROVE  HolderInv'
  <2> DEFINE r == [p |-> p, ext |-> EntryOf(p), cfg |-> Current(p), id |-> i, flag |-> flag]
  <2>1. EntryOf(p) \in Exts /\ Current(p) \in Configs
    BY DEF EntryOf, Current, Exts, ProviderTypes
  <2>2. r \in ProviderReads /\ r.p \in ProviderIDs /\ r.id \in Models /\ r.flag \in {"on", "off"}
    BY <2>1 DEF ProviderReads, Flags
  <2>3. Reading("cli", r)
    BY <1>10 DEF SetModelEnabled
  <2> HIDE DEF r
  <2>4. read'["cli"] = r /\ read'["sync"] = read["sync"]
    BY <1>0, <2>2, <2>3, ReadingOne
  <2>5. ui' = ui /\ left' = left
    BY <1>10 DEF SetModelEnabled
  <2> QED BY <1>0, <2>2, <2>4, <2>5 DEF HolderInv
<1>11. CASE CLIWrite
  <2>1. read'["cli"] = Nobody /\ read'["sync"] = read["sync"]
    BY <1>0, <1>11, ReadingOne DEF CLIWrite
  <2>2. ui' = ui /\ left' = left
    BY <1>11 DEF CLIWrite
  <2> QED BY <1>0, <2>1, <2>2 DEF HolderInv
<1>12. CASE Connect
  BY <1>12 DEF Connect, HolderInv
<1>13. ASSUME NEW p \in ProviderIDs, NEW x \in Exts, WriteOwnFile(p, x) PROVE HolderInv'
  BY <1>13 DEF WriteOwnFile, HolderInv
<1>14. CASE UNCHANGED providerVars
  BY <1>14 DEF providerVars, HolderInv
<1> QED BY <1>1, <1>2, <1>3, <1>4, <1>5, <1>6, <1>7, <1>8, <1>9, <1>10, <1>11, <1>12, <1>13, <1>14
        DEF ProviderFilesNext

-----------------------------------------------------------------------------
(***************************************************************************)
(* How the files change: what is there stays there and whose it is.        *)
(***************************************************************************)

Silent(f) == \A p \in ProviderIDs, x \in Exts : ~f[p][x].there =>
                 ~f[p][x].own /\ \A i \in Models : f[p][x].ids[i] = NoProvider
Alone(f) == \A p \in ProviderIDs : ~(f[p]["json"].there /\ f[p]["jsonc"].there)
Grown(f, g) == \A p \in ProviderIDs, x \in Exts : f[p][x].there =>
                   g[p][x].there /\ g[p][x].own = f[p][x].own

\* One file that is there is written by somebody who had read it.
LEMMA RewrittenFile ==
    ASSUME ProviderTypes, PresentInv, NEW w \in Readers, read[w] # Nobody, read[w].p \in ProviderIDs,
           NEW cfg \in Configs, cfg.there = read[w].cfg.there, cfg.own = read[w].cfg.own
    PROVE  LET f == PutInto(file, read[w].p, read[w].ext, cfg)
           IN  Silent(f) /\ Grown(file, f) /\ (~connected => Alone(f))
<1> DEFINE f == PutInto(file, read[w].p, read[w].ext, cfg)
<1>1. read[w].ext \in Exts
  BY DEF ProviderTypes, ProviderReads
<1>2. \A q \in ProviderIDs, y \in Exts :
        f[q][y] = IF q = read[w].p /\ y = read[w].ext THEN cfg ELSE file[q][y]
  <2>1. file \in [ProviderIDs -> [Exts -> Configs]]
    BY DEF ProviderTypes
  <2>2. OnlyAt(f, file, read[w].p, read[w].ext, cfg)
    BY <1>1, <2>1, PutOne
  <2> HIDE DEF f
  <2> QED BY <2>2 DEF OnlyAt
<1>3. cfg.there /\ file[read[w].p][read[w].ext].there /\ cfg.own = file[read[w].p][read[w].ext].own
  BY DEF PresentInv
<1> HIDE DEF f
<1>4. Silent(f)
  BY <1>2, <1>3 DEF Silent, PresentInv
<1>5. Grown(file, f)
  BY <1>2, <1>3 DEF Grown
<1>6. ~connected => Alone(f)
  BY <1>2, <1>3 DEF Alone, PresentInv, Exts
<1> QED BY <1>4, <1>5, <1>6 DEF f

\* The starter files: only providers without a file get one, or `connect` has
\* shadowed a file of the user.
LEMMA StarterFiles ==
    ASSUME ProviderTypes, PresentInv
    PROVE  LET f == [q \in ProviderIDs |-> Bootstrapped(q)]
           IN  /\ Silent(f) /\ Grown(file, f)
               /\ ~connected /\ (\A p \in Known : file[p]["json"].there) =>
                    /\ Alone(f)
                    /\ \A p \in Known, x \in Exts : f[p][x] = file[p][x]
<1> DEFINE f == [q \in ProviderIDs |-> Bootstrapped(q)]
<1>1. \A q \in ProviderIDs :
        /\ f[q]["json"] = IF file[q]["json"].there THEN file[q]["json"] ELSE Template
        /\ f[q]["jsonc"] = file[q]["jsonc"]
  BY BootstrapEach
<1> HIDE DEF f
<1>2. Template.there /\ ~Template.own
  BY ConfigKinds
<1>3. Silent(f)
  BY <1>1, <1>2 DEF Silent, PresentInv, Exts
<1>4. Grown(file, f)
  BY <1>1, <1>2 DEF Grown, Exts
<1>5. ASSUME ~connected, \A p \in Known : file[p]["json"].there
      PROVE  Alone(f) /\ \A p \in Known, x \in Exts : f[p][x] = file[p][x]
  <2>1. \A p \in ProviderIDs \ Known : ~file[p]["json"].there /\ ~file[p]["jsonc"].there
    BY DEF Known, Current, EntryOf
  <2>2. Alone(f)
    BY <1>1, <1>2, <1>5, <2>1 DEF Alone, PresentInv
  <2>3. \A p \in Known, x \in Exts : f[p][x] = file[p][x]
    BY <1>1, <1>5 DEF Known, Exts
  <2> QED BY <2>2, <2>3
<1> QED BY <1>3, <1>4, <1>5 DEF f

\* If the files are sound and have grown, so has what their readers know.
LEMMA PresentByGrowth ==
    ASSUME HolderInv, PresentInv, ProviderTypes, Silent(file'), Grown(file, file'), ~connected' => Alone(file'),
           \A t \in left' : t \in left \/ (t \in [p : ProviderIDs, ext : Exts] /\ file[t.p][t.ext].there),
           \A w \in Readers : \/ read'[w] = Nobody
                              \/ /\ read[w] # Nobody /\ read'[w].p = read[w].p /\ read'[w].ext = read[w].ext
                                 /\ read'[w].cfg.there = read[w].cfg.there
                                 /\ read'[w].cfg.own = read[w].cfg.own
                              \/ /\ read'[w].p \in ProviderIDs /\ read'[w].ext \in Exts
                                 /\ file[read'[w].p][read'[w].ext].there
                                 /\ read'[w].cfg = file[read'[w].p][read'[w].ext]
    PROVE  PresentInv'
<1>1. \A t \in left' : file'[t.p][t.ext].there
  BY DEF PresentInv, Grown, ProviderTypes
<1>2. ASSUME NEW w \in Readers, read'[w] # Nobody
      PROVE  /\ file'[read'[w].p][read'[w].ext].there
             /\ read'[w].cfg.there /\ read'[w].cfg.own = file'[read'[w].p][read'[w].ext].own
  <2>1. read[w] \in ProviderReads
    BY DEF ProviderTypes
  <2>2. CASE /\ read[w] # Nobody /\ read'[w].p = read[w].p /\ read'[w].ext = read[w].ext
             /\ read'[w].cfg.there = read[w].cfg.there
             /\ read'[w].cfg.own = read[w].cfg.own
    <3>1. read[w].p \in ProviderIDs /\ read[w].ext \in Exts
      BY <2>1, <2>2 DEF HolderInv, ProviderReads
    <3>2. /\ file[read[w].p][read[w].ext].there
          /\ read[w].cfg.there /\ read[w].cfg.own = file[read[w].p][read[w].ext].own
      BY <2>2 DEF PresentInv
    <3> QED BY <2>2, <3>1, <3>2 DEF Grown
  <2>3. CASE /\ read'[w].p \in ProviderIDs /\ read'[w].ext \in Exts
             /\ file[read'[w].p][read'[w].ext].there
             /\ read'[w].cfg = file[read'[w].p][read'[w].ext]
    BY <2>3 DEF Grown
  <2> QED BY <1>2, <2>2, <2>3
<1> QED BY <1>1, <1>2 DEF PresentInv, Silent, Alone

\* The files as they are now have grown from themselves.
LEMMA FilesNow ==
    ASSUME PresentInv PROVE Silent(file) /\ Grown(file, file) /\ (~connected => Alone(file))
BY DEF PresentInv, Silent, Grown, Alone

\* Before the first start there is no file, so the starter files shadow none.
LEMMA StarterFilesAtStart ==
    ASSUME ProviderTypes, PresentInv, StartElph
    PROVE  /\ Silent(file') /\ Grown(file, file') /\ (~connected => Alone(file'))
           /\ Known # {} => file' = file
<1>1. CASE Known # {}
  <2>1. file' = file
    BY <1>1 DEF StartElph
  <2> QED BY <2>1, FilesNow
<1>2. CASE Known = {}
  <2>1. file' = [q \in ProviderIDs |-> Bootstrapped(q)]
    BY <1>2 DEF StartElph
  <2> QED BY <1>2, <2>1, StarterFiles
<1> QED BY <1>1, <1>2

\* Every action keeps the files in order.
LEMMA PresentStep ==
    ProviderTypes /\ HolderInv /\ PresentInv /\ [ProviderFilesNext]_providerVars => PresentInv'
<1> SUFFICES ASSUME ProviderTypes, HolderInv, PresentInv, [ProviderFilesNext]_providerVars
             PROVE  PresentInv'
  OBVIOUS
<1> USE DEF Shared
<1>0. /\ Nobody \in ProviderReads /\ "sync" \in Readers /\ "cli" \in Readers
      /\ Readers = {"sync", "cli"}
      /\ \A w \in Readers : read[w] \in ProviderReads
  BY ConfigKinds DEF Readers, ProviderTypes
<1>a. ASSUME Silent(file'), Grown(file, file'), ~connected' => Alone(file'), left' \subseteq left,
             \A w \in Readers : read'[w] = Nobody \/ read'[w] = read[w]
      PROVE  PresentInv'
  BY <1>a, PresentByGrowth
<1>b. ASSUME file' = file, connected' = connected, left' \subseteq left,
             \A w \in Readers : read'[w] = Nobody \/ read'[w] = read[w]
      PROVE  PresentInv'
  BY <1>a, <1>b, FilesNow
<1>1. CASE StartElph
  <2>1. connected' = connected /\ left' = left /\ read' = read
    BY <1>1 DEF StartElph
  <2> QED BY <1>1, <2>1, <1>a, StarterFilesAtStart
<1>2. CASE Preview
  BY <1>2, <1>b DEF Preview
<1>3. CASE Skip
  BY <1>3, <1>b DEF Skip
<1>4. CASE RunModelsSync
  <2>1. ASSUME NEW t \in Targets PROVE t \in [p : ProviderIDs, ext : Exts] /\ file[t.p][t.ext].there
    <3>1. PICK p \in Known : t = [p |-> p, ext |-> EntryOf(p)]
      BY DEF Targets
    <3>2. p \in ProviderIDs /\ EntryOf(p) \in Exts /\ file[p][EntryOf(p)].there
      BY DEF Known, Current, EntryOf, Exts
    <3> QED BY <3>1, <3>2
  <2>2. file' = file /\ connected' = connected /\ left' = Targets /\ read' = read
    BY <1>4 DEF RunModelsSync
  <2> QED BY <2>1, <2>2, FilesNow, PresentByGrowth
<1>5. CASE SyncRead
  <2> DEFINE t == NextTarget(left)
  <2> DEFINE r == [Nobody EXCEPT !.p = t.p, !.ext = t.ext, !.cfg = file[t.p][t.ext]]
  <2>1. left # {}
    BY <1>5 DEF SyncRead, HolderInv
  <2>2. t \in left /\ t.p \in ProviderIDs /\ t.ext \in Exts /\ file[t.p][t.ext] \in Configs
    BY <2>1, NextTargetLeft DEF ProviderTypes
  <2>3. r \in ProviderReads /\ r.p = t.p /\ r.ext = t.ext /\ r.cfg = file[t.p][t.ext]
    <3> HIDE DEF t
    <3> QED BY <2>2, ConfigKinds DEF ProviderReads
  <2>4. Reading("sync", r) /\ file' = file /\ connected' = connected /\ left' = left
    BY <1>5 DEF SyncRead
  <2> HIDE DEF r, t
  <2>5. read'["sync"] = r /\ read'["cli"] = read["cli"]
    BY <1>0, <2>3, <2>4, ReadingOne
  <2>6. file[t.p][t.ext].there
    BY <2>2 DEF PresentInv
  <2> QED BY <1>0, <2>2, <2>3, <2>4, <2>5, <2>6, FilesNow, PresentByGrowth
<1>6. CASE SyncFails
  <2>1. read'["sync"] = Nobody /\ read'["cli"] = read["cli"]
    BY <1>0, <1>6, ReadingOne DEF SyncFails
  <2> QED BY <1>0, <1>6, <2>1, <1>b DEF SyncFails
<1>7. CASE QuitElph
  <2>1. read'["sync"] = Nobody /\ read'["cli"] = read["cli"]
    BY <1>0, <1>7, ReadingOne DEF QuitElph
  <2> QED BY <1>0, <1>7, <2>1, <1>b DEF QuitElph
<1>8. CASE Elapse
  <2>1. Silent(file') /\ Grown(file, file') /\ (~connected => Alone(file'))
    BY <1>8, ElapsedFiles DEF Silent, Grown, Alone, PresentInv, Exts
  <2>2. connected' = connected /\ left' = left
    BY <1>8 DEF Elapse
  <2> QED BY <1>8, <2>1, <2>2, ElapsedFiles, PresentByGrowth
<1>9. ASSUME NEW live \in SUBSET Models, SyncWrite(live) PROVE PresentInv'
  <2> DEFINE r == read["sync"]
  <2> DEFINE next == NextOf(r, live)
  <2>1. r \in ProviderReads /\ r.p \in ProviderIDs /\ r # Nobody
    BY <1>9, <1>0 DEF SyncWrite, HolderInv
  <2>2. next \in Configs /\ next.there = r.cfg.there /\ next.own = r.cfg.own
    BY <2>1, SyncWritten
  <2>3. file' = IF next = r.cfg THEN file ELSE PutInto(file, r.p, r.ext, next)
    BY <1>9 DEF SyncWrite, NextOf, PutInto
  <2>4. read'["sync"] = Nobody /\ read'["cli"] = read["cli"]
    BY <1>0, <1>9, ReadingOne DEF SyncWrite
  <2>5. left' \subseteq left /\ connected' = connected
    BY <1>9 DEF SyncWrite
  <2> HIDE DEF next
  <2>6. Silent(file') /\ Grown(file, file') /\ (~connected => Alone(file'))
    BY <1>0, <2>1, <2>2, <2>3, FilesNow, RewrittenFile
  <2> QED BY <1>0, <1>a, <2>4, <2>5, <2>6
<1>10. ASSUME NEW p \in ProviderIDs, NEW i \in Models, NEW flag \in {"on", "off"},
              SetModelEnabled(p, i, flag)
       PROVE  PresentInv'
  <2> DEFINE r == [p |-> p, ext |-> EntryOf(p), cfg |-> Current(p), id |-> i, flag |-> flag]
  <2>1. EntryOf(p) \in Exts /\ Current(p) \in Configs
    BY DEF EntryOf, Current, Exts, ProviderTypes
  <2>2. /\ r \in ProviderReads /\ r.p \in ProviderIDs /\ r.ext \in Exts
        /\ r.cfg = file[r.p][r.ext] /\ r.cfg.there
    BY <1>10, <2>1 DEF ProviderReads, Flags, Current, SetModelEnabled
  <2>3. Reading("cli", r) /\ file' = file /\ connected' = connected /\ left' = left
    BY <1>10 DEF SetModelEnabled
  <2> HIDE DEF r
  <2>4. read'["cli"] = r /\ read'["sync"] = read["sync"]
    BY <1>0, <2>2, <2>3, ReadingOne
  <2> QED BY <1>0, <2>2, <2>3, <2>4, FilesNow, PresentByGrowth
<1>11. CASE CLIWrite
  <2> DEFINE r == read["cli"]
  <2> DEFINE next == [r.cfg EXCEPT !.ids[r.id] = r.flag]
  <2>1. /\ r \in ProviderReads /\ r.p \in ProviderIDs /\ r # Nobody
        /\ r.id \in Models /\ r.flag \in {"on", "off"} /\ r.cfg \in Configs
    BY <1>11, <1>0 DEF CLIWrite, HolderInv, ProviderReads
  <2>2. next \in Configs /\ next.there = r.cfg.there /\ next.own = r.cfg.own
    <3> HIDE DEF r
    <3> QED BY <2>1 DEF Configs, Flags
  <2>3. file' = PutInto(file, r.p, r.ext, next)
    BY <1>11 DEF CLIWrite, PutInto, Put
  <2>4. read'["cli"] = Nobody /\ read'["sync"] = read["sync"]
    BY <1>0, <1>11, ReadingOne DEF CLIWrite
  <2>5. left' = left /\ connected' = connected
    BY <1>11 DEF CLIWrite
  <2> HIDE DEF next
  <2>6. Silent(file') /\ Grown(file, file') /\ (~connected => Alone(file'))
    BY <1>0, <2>1, <2>2, <2>3, RewrittenFile
  <2> QED BY <1>0, <1>a, <2>4, <2>5, <2>6
<1>12. CASE Connect
  <2>1. /\ file' = [q \in ProviderIDs |-> Bootstrapped(q)]
        /\ connected' = (connected \/ \E p \in Known : ~file[p]["json"].there)
        /\ left' = left /\ read' = read
    BY <1>12 DEF Connect
  <2>2. Silent(file') /\ Grown(file, file') /\ (~connected' => Alone(file'))
    BY <2>1, StarterFiles
  <2> QED BY <1>a, <2>1, <2>2
<1>13. ASSUME NEW p \in ProviderIDs, NEW x \in Exts, WriteOwnFile(p, x) PROVE PresentInv'
  <2> DEFINE own == [Template EXCEPT !.own = TRUE]
  <2>1. own \in Configs /\ own.there
    BY ConfigKinds
  <2> HIDE DEF own
  <2>2. OnlyAt(file', file, p, x, own)
    <3>1. file' = PutInto(file, p, x, own)
      BY <1>13 DEF WriteOwnFile, Put, PutInto, own
    <3>2. file \in [ProviderIDs -> [Exts -> Configs]]
      BY DEF ProviderTypes
    <3> QED BY <2>1, <3>1, <3>2, PutOne
  <2>3. ~file[p]["json"].there /\ ~file[p]["jsonc"].there
    BY <1>13 DEF WriteOwnFile, Current, EntryOf
  <2>4. Silent(file')
    BY <2>1, <2>2 DEF OnlyAt, Silent, PresentInv
  <2>5. Grown(file, file')
    BY <2>2, <2>3 DEF OnlyAt, Grown, Exts
  <2>6. ~connected => Alone(file')
    BY <2>2, <2>3 DEF OnlyAt, Alone, PresentInv, Exts
  <2> QED BY <1>13, <2>4, <2>5, <2>6, <1>a DEF WriteOwnFile
<1>14. CASE UNCHANGED providerVars
  BY <1>14, <1>b DEF providerVars
<1> QED BY <1>1, <1>2, <1>3, <1>4, <1>5, <1>6, <1>7, <1>8, <1>9, <1>10, <1>11, <1>12, <1>13, <1>14
        DEF ProviderFilesNext

\* Until `connect` the file of a provider is the same one after a step.
LEMMA EntryStays ==
    ASSUME ProviderTypes, PresentInv', Grown(file, file'), ~connected', NEW p \in Known
    PROVE  /\ p \in ProviderIDs /\ EntryOf(p) \in Exts /\ EntryOf(p)' = EntryOf(p)
           /\ p \in Known' /\ Current(p)' = file'[p][EntryOf(p)]
<1>1. p \in ProviderIDs /\ EntryOf(p) \in Exts /\ file[p][EntryOf(p)].there
  BY DEF Known, Current, EntryOf, Exts
<1>2. file'[p][EntryOf(p)].there
  BY <1>1 DEF Grown
<1>3. ~(file'[p]["json"].there /\ file'[p]["jsonc"].there)
  BY <1>1 DEF PresentInv
<1>4. EntryOf(p)' = EntryOf(p)
  BY <1>1, <1>2, <1>3 DEF EntryOf, Exts
<1> QED BY <1>1, <1>2, <1>4 DEF Known, Current

\* What was switched off is in a file that is there.
LEMMA OffIsKnown ==
    ASSUME ProviderTypes, PresentInv, FlagsInv, ~raced, ~connected, NEW x \in off \ dropped
    PROVE  /\ x[1] \in Known /\ x[2] \in Models /\ x = <<x[1], x[2]>>
           /\ file[x[1]][EntryOf(x[1])].ids[x[2]] = "off"
<1>1. x[1] \in ProviderIDs /\ x[2] \in Models /\ x = <<x[1], x[2]>>
  BY DEF ProviderTypes
<1>2. file[x[1]][EntryOf(x[1])].ids[x[2]] = "off"
  BY DEF FlagsInv, Current
<1>3. EntryOf(x[1]) \in Exts
  BY DEF EntryOf, Exts
<1>4. "off" # NoProvider
  BY DEF NoProvider
<1>5. file[x[1]][EntryOf(x[1])].there
  BY <1>1, <1>2, <1>3, <1>4 DEF PresentInv
<1> QED BY <1>1, <1>2, <1>5 DEF Known, Current

\* Every action keeps off what was switched off and not dropped.
LEMMA FlagsStep ==
    ProviderTypes /\ HolderInv /\ PresentInv /\ PresentInv' /\ FlagsInv
       /\ [ProviderFilesNext]_providerVars => FlagsInv'
<1> SUFFICES ASSUME ProviderTypes, HolderInv, PresentInv, PresentInv', FlagsInv,
                    [ProviderFilesNext]_providerVars
             PROVE  FlagsInv'
  OBVIOUS
<1> USE DEF Shared
<1>a. ASSUME off' = off, dropped' = dropped, raced' = raced, connected => connected',
             Grown(file, file'),
             \A p \in Known, x \in Exts :
                file[p][x].there => file'[p][x].ids = file[p][x].ids
      PROVE  FlagsInv'
  <2> SUFFICES ASSUME ~raced', ~connected', NEW x \in off' \ dropped'
               PROVE  Current(x[1])'.ids[x[2]] = "off"
    BY DEF FlagsInv
  <2>1. ~raced /\ ~connected /\ x \in off \ dropped
    BY <1>a
  <2>2. /\ x[1] \in Known /\ x[2] \in Models
        /\ file[x[1]][EntryOf(x[1])].ids[x[2]] = "off"
    BY <2>1, OffIsKnown
  <2>3. EntryOf(x[1]) \in Exts /\ Current(x[1])' = file'[x[1]][EntryOf(x[1])]
    BY <1>a, <2>2, EntryStays
  <2>4. file[x[1]][EntryOf(x[1])].there
    BY <2>2 DEF Known, Current
  <2> QED BY <1>a, <2>2, <2>3, <2>4
<1>b. ASSUME UNCHANGED <<file, off, dropped, connected, raced>> PROVE FlagsInv'
  BY <1>b DEF FlagsInv, Current, EntryOf
<1>1. CASE StartElph
  <2>1. CASE Known # {}
    BY <1>1, <2>1, <1>b DEF StartElph
  <2>2. CASE Known = {}
    <3>1. Grown(file, file') /\ \A p \in Known, x \in Exts :
             file[p][x].there => file'[p][x].ids = file[p][x].ids
      BY <1>1, <2>2, StarterFilesAtStart
    <3> QED BY <1>1, <3>1, <1>a DEF StartElph
  <2> QED BY <2>1, <2>2
<1>2. CASE Preview
  BY <1>2, <1>b DEF Preview
<1>3. CASE Skip
  BY <1>3, <1>b DEF Skip
<1>4. CASE RunModelsSync
  BY <1>4, <1>b DEF RunModelsSync
<1>5. CASE SyncRead
  BY <1>5, <1>b DEF SyncRead
<1>6. CASE SyncFails
  BY <1>6, <1>b DEF SyncFails
<1>7. CASE QuitElph
  BY <1>7, <1>b DEF QuitElph
<1>8. CASE Elapse
  <2>1. Grown(file, file') /\ \A p \in Known, x \in Exts :
           file[p][x].there => file'[p][x].ids = file[p][x].ids
    BY <1>8, ElapsedFiles DEF Grown, Known
  <2> QED BY <1>8, <2>1, <1>a DEF Elapse
<1>9. ASSUME NEW live \in SUBSET Models, SyncWrite(live) PROVE FlagsInv'
  <2> DEFINE r == read["sync"]
  <2> DEFINE next == NextOf(r, live)
  <2>1. r \in ProviderReads /\ r.p \in ProviderIDs /\ r.ext \in Exts /\ r # Nobody
    BY <1>9 DEF SyncWrite, HolderInv, Readers, ProviderTypes, ProviderReads
  <2>2. /\ next \in Configs /\ next.there = r.cfg.there /\ next.own = r.cfg.own
        /\ \A i \in Models : r.cfg.ids[i] = "off" => next.ids[i] \in {"off", NoProvider}
    BY <2>1, SyncWritten
  <2>3. file' = IF next = r.cfg THEN file ELSE PutInto(file, r.p, r.ext, next)
    BY <1>9 DEF SyncWrite, NextOf, PutInto
  <2>4. raced' = (raced \/ (next # r.cfg /\ Stale(r)))
    BY <1>9 DEF SyncWrite, NextOf
  <2>5. dropped' = dropped \cup {<<r.p, i>> : i \in
                      {j \in Models : r.cfg.ids[j] # NoProvider /\ next.ids[j] = NoProvider}}
    BY <1>9 DEF SyncWrite, NextOf
  <2>6. off' = off /\ connected' = connected
    BY <1>9 DEF SyncWrite
  <2> HIDE DEF next
  <2>7. SUFFICES ASSUME ~raced', ~connected', NEW x \in off' \ dropped'
                 PROVE  Current(x[1])'.ids[x[2]] = "off"
    BY DEF FlagsInv
  <2>8. ~raced /\ ~connected /\ x \in off \ dropped
    BY <2>4, <2>5, <2>6, <2>7
  <2>9. /\ x[1] \in Known /\ x[2] \in Models /\ x = <<x[1], x[2]>>
        /\ file[x[1]][EntryOf(x[1])].ids[x[2]] = "off"
    BY <2>8, OffIsKnown
  <2>10. Grown(file, file')
    BY <2>1, <2>2, <2>3, FilesNow, RewrittenFile DEF Readers
  <2>11. /\ x[1] \in ProviderIDs /\ EntryOf(x[1]) \in Exts
         /\ Current(x[1])' = file'[x[1]][EntryOf(x[1])]
    BY <2>7, <2>9, <2>10, EntryStays
  <2>12. CASE next = r.cfg
    BY <2>3, <2>9, <2>11, <2>12
  <2>13. CASE next # r.cfg
    <3>1. OnlyAt(file', file, r.p, r.ext, next)
      <4>1. file' = PutInto(file, r.p, r.ext, next) /\ file \in [ProviderIDs -> [Exts -> Configs]]
        BY <2>3, <2>13 DEF ProviderTypes
      <4> HIDE DEF r
      <4> QED BY <2>1, <2>2, <4>1, PutOne
    <3>2. file[r.p][r.ext] = r.cfg
      <4>1. r.p # NoProvider
        BY <2>1 DEF ProviderIDs, NoProvider
      <4> QED BY <2>4, <2>7, <2>13, <4>1 DEF Stale
    <3>3. CASE x[1] = r.p /\ EntryOf(x[1]) = r.ext
      <4>1. r.cfg.ids[x[2]] = "off"
        BY <2>9, <3>2, <3>3
      <4>2. next.ids[x[2]] # NoProvider
        <5>1. x \notin dropped'
          BY <2>7
        <5>2. "off" # NoProvider
          BY DEF NoProvider
        <5> QED BY <2>5, <2>9, <3>3, <4>1, <5>1, <5>2
      <4>3. next.ids[x[2]] = "off"
        BY <2>2, <2>9, <4>1, <4>2
      <4> QED BY <2>11, <3>1, <3>3, <4>3 DEF OnlyAt
    <3>4. CASE ~(x[1] = r.p /\ EntryOf(x[1]) = r.ext)
      BY <2>9, <2>11, <3>1, <3>4 DEF OnlyAt
    <3> QED BY <3>3, <3>4
  <2> QED BY <2>12, <2>13
<1>10. ASSUME NEW p \in ProviderIDs, NEW i \in Models, NEW flag \in {"on", "off"},
              SetModelEnabled(p, i, flag)
       PROVE  FlagsInv'
  BY <1>10, <1>b DEF SetModelEnabled
<1>11. CASE CLIWrite
  <2> DEFINE r == read["cli"]
  <2> DEFINE next == [r.cfg EXCEPT !.ids[r.id] = r.flag]
  <2>1. /\ r \in ProviderReads /\ r.p \in ProviderIDs /\ r.ext \in Exts /\ r # Nobody
        /\ r.id \in Models /\ r.flag \in {"on", "off"} /\ r.cfg \in Configs
    BY <1>11 DEF CLIWrite, HolderInv, ProviderReads, Readers, ProviderTypes
  <2>2. /\ next \in Configs /\ next.there = r.cfg.there /\ next.own = r.cfg.own
        /\ next.ids[r.id] = r.flag
        /\ \A i \in Models : i # r.id => next.ids[i] = r.cfg.ids[i]
    <3> HIDE DEF r
    <3> QED BY <2>1 DEF Configs, Flags
  <2>3. file' = PutInto(file, r.p, r.ext, next)
    BY <1>11 DEF CLIWrite, PutInto, Put
  <2>4. raced' = (raced \/ Stale(r)) /\ connected' = connected
        /\ dropped' = dropped \ {<<r.p, r.id>>}
        /\ off' = IF r.flag = "off" THEN off \cup {<<r.p, r.id>>} ELSE off \ {<<r.p, r.id>>}
    BY <1>11 DEF CLIWrite
  <2> HIDE DEF next
  <2>5. OnlyAt(file', file, r.p, r.ext, next)
    <3>1. file \in [ProviderIDs -> [Exts -> Configs]]
      BY DEF ProviderTypes
    <3> HIDE DEF r
    <3> QED BY <2>1, <2>2, <2>3, <3>1, PutOne
  <2>6. Grown(file, file') /\ file[r.p][r.ext].there
    BY <2>1, <2>2, <2>3, RewrittenFile DEF Readers, PresentInv
  <2>7. SUFFICES ASSUME ~raced', ~connected', NEW x \in off' \ dropped'
                 PROVE  Current(x[1])'.ids[x[2]] = "off"
    BY DEF FlagsInv
  <2>8. r.p \in Known /\ EntryOf(r.p) = r.ext
    BY <2>1, <2>4, <2>6, <2>7 DEF Known, Current, EntryOf, PresentInv, Exts
  <2>9. file[r.p][r.ext] = r.cfg
    <3>1. r.p # NoProvider
      BY <2>1 DEF ProviderIDs, NoProvider
    <3> QED BY <2>4, <2>7, <3>1 DEF Stale
  <2>10. CASE x = <<r.p, r.id>>
    <3>1. r.flag = "off"
      BY <2>4, <2>7, <2>10
    <3>2. x[1] = r.p /\ x[2] = r.id
      BY <2>10
    <3>3. Current(x[1])' = file'[x[1]][EntryOf(x[1])]
      BY <2>6, <2>7, <2>8, <3>2, EntryStays
    <3>4. file'[r.p][r.ext] = next
      BY <2>1, <2>5 DEF OnlyAt
    <3> QED BY <2>2, <2>8, <3>1, <3>2, <3>3, <3>4
  <2>11. CASE x # <<r.p, r.id>>
    <3>1. ~raced /\ ~connected /\ x \in off \ dropped
      BY <2>4, <2>7, <2>11
    <3>2. /\ x[1] \in Known /\ x[2] \in Models /\ x = <<x[1], x[2]>>
          /\ file[x[1]][EntryOf(x[1])].ids[x[2]] = "off"
      BY <3>1, OffIsKnown
    <3>3. /\ x[1] \in ProviderIDs /\ EntryOf(x[1]) \in Exts
          /\ Current(x[1])' = file'[x[1]][EntryOf(x[1])]
      BY <2>6, <2>7, <3>2, EntryStays
    <3>4. CASE x[1] = r.p
      <4>1. x[2] # r.id
        BY <2>11, <3>2, <3>4
      <4>2. next.ids[x[2]] = "off"
        BY <2>2, <2>8, <2>9, <3>2, <3>4, <4>1
      <4>3. file'[x[1]][EntryOf(x[1])] = next
        BY <2>1, <2>5, <2>8, <3>4 DEF OnlyAt
      <4> QED BY <3>3, <4>2, <4>3
    <3>5. CASE x[1] # r.p
      BY <2>5, <3>2, <3>3, <3>5 DEF OnlyAt
    <3> QED BY <3>4, <3>5
  <2> QED BY <2>10, <2>11
<1>12. CASE Connect
  <2>1. /\ file' = [q \in ProviderIDs |-> Bootstrapped(q)]
        /\ connected' = (connected \/ \E p \in Known : ~file[p]["json"].there)
        /\ off' = off /\ dropped' = dropped /\ raced' = raced
    BY <1>12 DEF Connect
  <2>2. CASE connected'
    BY <2>2 DEF FlagsInv
  <2>3. CASE ~connected'
    <3>1. Grown(file, file') /\ \A p \in Known, x \in Exts : file'[p][x] = file[p][x]
      BY <2>1, <2>3, StarterFiles
    <3> QED BY <1>a, <2>1, <3>1
  <2> QED BY <2>2, <2>3
<1>13. ASSUME NEW p \in ProviderIDs, NEW x \in Exts, WriteOwnFile(p, x) PROVE FlagsInv'
  <2> DEFINE own == [Template EXCEPT !.own = TRUE]
  <2>1. own \in Configs /\ own.there
    BY ConfigKinds
  <2> HIDE DEF own
  <2>2. OnlyAt(file', file, p, x, own)
    <3>1. file' = PutInto(file, p, x, own)
      BY <1>13 DEF WriteOwnFile, Put, PutInto, own
    <3>2. file \in [ProviderIDs -> [Exts -> Configs]]
      BY DEF ProviderTypes
    <3> QED BY <2>1, <3>1, <3>2, PutOne
  <2>3. ~file[p]["json"].there /\ ~file[p]["jsonc"].there
    BY <1>13 DEF WriteOwnFile, Current, EntryOf
  <2>4. Grown(file, file') /\ \A q \in Known, y \in Exts :
           file[q][y].there => file'[q][y].ids = file[q][y].ids
    BY <2>2, <2>3 DEF OnlyAt, Grown, Exts, Known
  <2> QED BY <1>13, <2>4, <1>a DEF WriteOwnFile
<1>14. CASE UNCHANGED providerVars
  BY <1>14, <1>b DEF providerVars
<1> QED BY <1>1, <1>2, <1>3, <1>4, <1>5, <1>6, <1>7, <1>8, <1>9, <1>10, <1>11, <1>12, <1>13, <1>14
        DEF ProviderFilesNext

\* What is known stays known.
LEMMA KnownGrows ==
    ASSUME ProviderTypes, Grown(file, file') PROVE Known \subseteq Known'
<1> SUFFICES ASSUME NEW p \in Known PROVE p \in Known'
  OBVIOUS
<1>1. p \in ProviderIDs /\ EntryOf(p) \in Exts /\ file[p][EntryOf(p)].there
  BY DEF Known, Current, EntryOf, Exts
<1>2. file'[p][EntryOf(p)].there
  BY <1>1 DEF Grown
<1> QED BY <1>1, <1>2 DEF Known, Current, EntryOf, Exts

\* Every action keeps what the running sync has done.
LEMMA SyncStep ==
    ProviderTypes /\ HolderInv /\ PresentInv /\ SyncInv /\ [ProviderFilesNext]_providerVars => SyncInv'
<1> SUFFICES ASSUME ProviderTypes, HolderInv, PresentInv, SyncInv, [ProviderFilesNext]_providerVars
             PROVE  SyncInv'
  OBVIOUS
<1> USE DEF Shared
<1>0. /\ Nobody \in ProviderReads /\ "sync" \in Readers /\ "cli" \in Readers
      /\ Readers = {"sync", "cli"}
  BY ConfigKinds DEF Readers
<1>a. ASSUME Grown(file, file'), ui' = ui, synced' = "no" PROVE SyncInv'
  BY <1>a, KnownGrows DEF SyncInv
<1>b. ASSUME file' = file
      PROVE  /\ Known' = Known /\ Targets' = Targets
             /\ \A p \in ProviderIDs : WouldChange(p)' = WouldChange(p) /\ EntryOf(p)' = EntryOf(p)
  BY <1>b DEF Known, Targets, WouldChange, Current, EntryOf
<1>c. Known \subseteq ProviderIDs
  BY DEF Known
<1>d. ASSUME file' = file, ui' # "run", ui' = "offer" => Known # {}, synced' = synced PROVE SyncInv'
  <2>1. synced' = "done" => \A p \in Known' : p # "live" => ~WouldChange(p)'
    BY <1>b, <1>c, <1>d DEF SyncInv
  <2>2. ui' = "offer" \/ synced' # "no" => Known' # {}
    BY <1>b, <1>d DEF SyncInv
  <2> QED BY <1>d, <2>1, <2>2 DEF SyncInv
<1>1. CASE StartElph
  <2>0. ui' \in {"preview", "idle"} /\ synced' = synced
    BY <1>1 DEF StartElph
  <2>1. CASE Known # {}
    <3>1. file' = file
      BY <1>1, <2>1 DEF StartElph
    <3> QED BY <1>d, <2>0, <2>1, <3>1
  <2>2. CASE Known = {}
    BY <2>0, <2>2 DEF SyncInv
  <2> QED BY <2>1, <2>2
<1>2. CASE Preview
  BY <1>2, <1>d DEF Preview
<1>3. CASE Skip
  BY <1>3, <1>d DEF Skip
<1>4. CASE RunModelsSync
  <2>1. /\ file' = file /\ ui' = "run" /\ left' = Targets /\ synced' = "begun"
        /\ read' = read /\ ui = "offer"
    BY <1>4 DEF RunModelsSync
  <2>2. read'["sync"] = Nobody
    BY <2>1 DEF HolderInv
  <2>3. Known' # {} /\ left' \subseteq Targets'
    BY <1>b, <2>1 DEF SyncInv
  <2>4. \A p \in Known' : [p |-> p, ext |-> EntryOf(p)'] \in left'
    BY <1>b, <1>c, <2>1 DEF Targets
  <2> QED BY <2>1, <2>2, <2>3, <2>4 DEF SyncInv
<1>5. CASE SyncRead
  <2> DEFINE t == NextTarget(left)
  <2> DEFINE r == [Nobody EXCEPT !.p = t.p, !.ext = t.ext, !.cfg = file[t.p][t.ext]]
  <2>1. left # {}
    BY <1>5 DEF SyncRead, HolderInv
  <2>2. t \in left /\ t.p \in ProviderIDs /\ t.ext \in Exts /\ file[t.p][t.ext] \in Configs
    BY <2>1, NextTargetLeft DEF ProviderTypes
  <2>3. r \in ProviderReads /\ r.p = t.p /\ r.ext = t.ext /\ r.cfg = file[t.p][t.ext]
    <3> HIDE DEF t
    <3> QED BY <2>2, ConfigKinds DEF ProviderReads
  <2>4. /\ Reading("sync", r) /\ file' = file /\ left' = left /\ ui' = ui /\ synced' = synced
    BY <1>5 DEF SyncRead
  <2> HIDE DEF r, t
  <2>5. read'["sync"] = r
    BY <1>0, <2>3, <2>4, ReadingOne
  <2>6. ~Stale(read["sync"])'
    BY <2>3, <2>4, <2>5 DEF Stale
  <2> QED BY <1>b, <1>c, <2>4, <2>6 DEF SyncInv
<1>6. CASE SyncFails
  BY <1>6, <1>d DEF SyncFails
<1>7. CASE QuitElph
  BY <1>7, <1>d DEF QuitElph
<1>8. CASE Elapse
  <2>1. Grown(file, file')
    BY <1>8, ElapsedFiles DEF Grown
  <2> QED BY <1>8, <2>1, <1>a DEF Elapse
<1>9. ASSUME NEW live \in SUBSET Models, SyncWrite(live) PROVE SyncInv'
  <2> DEFINE r == read["sync"]
  <2> DEFINE next == NextOf(r, live)
  <2>1. r \in ProviderReads /\ r.p \in ProviderIDs /\ r.ext \in Exts /\ r # Nobody /\ r.cfg \in Configs
    BY <1>9, <1>0 DEF SyncWrite, HolderInv, ProviderTypes, ProviderReads
  <2>2. next \in Configs /\ next.there = r.cfg.there /\ next.own = r.cfg.own
    BY <2>1, SyncWritten
  <2>3. file' = IF next = r.cfg THEN file ELSE PutInto(file, r.p, r.ext, next)
    BY <1>9 DEF SyncWrite, NextOf, PutInto
  <2>4. /\ left' = left \ {TargetOf(r)}
        /\ ui = "run" /\ ui' = IF left' = {} THEN "idle" ELSE "run"
        /\ synced' = IF left' = {} /\ synced = "begun" THEN "done" ELSE synced
    BY <1>9 DEF SyncWrite, TargetOf
  <2>5. read'["sync"] = Nobody
    BY <1>0, <1>9, ReadingOne DEF SyncWrite
  <2>6. r.p # "live" => next = SyncCatalog(r.cfg)
    BY DEF NextOf
  <2> HIDE DEF next
  <2>7. Grown(file, file')
    BY <1>0, <2>1, <2>2, <2>3, FilesNow, RewrittenFile
  <2>8. CASE synced # "begun"
    <3>1. synced' = "no"
      BY <2>4, <2>8 DEF SyncInv, ProviderTypes
    <3>2. ui' \notin {"offer"}
      BY <2>4
    <3> QED BY <3>1, <3>2 DEF SyncInv
  <2>9. CASE synced = "begun"
    <3>1. /\ left \subseteq Targets /\ ~Stale(r) /\ Known # {}
          /\ \A p \in Known : p # "live" /\ [p |-> p, ext |-> EntryOf(p)] \notin left => ~WouldChange(p)
      BY <2>1, <2>4, <2>9 DEF SyncInv
    <3>2. file[r.p][r.ext] = r.cfg
      <4>1. r.p # NoProvider
        BY <2>1 DEF ProviderIDs, NoProvider
      <4> QED BY <3>1, <4>1 DEF Stale
    <3>3. TargetOf(r) \in left /\ r.p \in Known /\ r.ext = EntryOf(r.p)
      <4>1. TargetOf(r) \in left
        BY <2>1 DEF HolderInv
      <4>2. PICK p \in Known : TargetOf(r) = [p |-> p, ext |-> EntryOf(p)]
        BY <3>1, <4>1 DEF Targets
      <4>3. r.p = p /\ r.ext = EntryOf(p)
        BY <4>2 DEF TargetOf
      <4> QED BY <4>1, <4>3
    <3>4. OnlyAt(file', file, r.p, r.ext, next)
      <4>1. CASE next = r.cfg
        BY <2>3, <3>2, <4>1 DEF OnlyAt
      <4>2. CASE next # r.cfg
        <5>1. file' = PutInto(file, r.p, r.ext, next) /\ file \in [ProviderIDs -> [Exts -> Configs]]
          BY <2>3, <4>2 DEF ProviderTypes
        <5> HIDE DEF r
        <5> QED BY <2>1, <2>2, <5>1, PutOne
      <4> QED BY <4>1, <4>2
    <3>5. \A p \in ProviderIDs, x \in Exts : file'[p][x].there = file[p][x].there
      BY <2>1, <2>2, <3>2, <3>4 DEF OnlyAt
    <3>6. \A p \in ProviderIDs : EntryOf(p)' = EntryOf(p) /\ EntryOf(p) \in Exts
      BY <3>5 DEF EntryOf, Exts
    <3>7. Known' = Known
      BY <3>5, <3>6 DEF Known, Current
    <3>8. Targets' = Targets
      BY <1>c, <3>6, <3>7 DEF Targets
    <3>9. ASSUME NEW p \in Known', p # "live", [p |-> p, ext |-> EntryOf(p)'] \notin left'
          PROVE  ~WouldChange(p)'
      <4>1. p \in Known /\ p \in ProviderIDs /\ EntryOf(p)' = EntryOf(p) /\ EntryOf(p) \in Exts
        BY <1>c, <3>6, <3>7, <3>9
      <4>2. CASE p = r.p
        <5>1. Current(p)' = next
          BY <2>1, <3>3, <3>4, <4>1, <4>2 DEF Current, OnlyAt
        <5>2. SyncCatalog(next) = next
          BY <2>1, <2>6, <3>9, <4>2, SyncCatalogKeeps
        <5> QED BY <5>1, <5>2 DEF WouldChange, SyncCatalog
      <4>3. CASE p # r.p
        <5>1. [p |-> p, ext |-> EntryOf(p)] # TargetOf(r)
          BY <4>3 DEF TargetOf
        <5>2. [p |-> p, ext |-> EntryOf(p)] \notin left
          BY <2>4, <3>9, <4>1, <5>1
        <5>3. ~WouldChange(p)
          BY <3>1, <3>9, <4>1, <5>2
        <5>4. Current(p)' = Current(p)
          BY <3>4, <4>1, <4>3 DEF Current, OnlyAt
        <5> QED BY <5>3, <5>4 DEF WouldChange
      <4> QED BY <4>2, <4>3
    <3>10. left' \subseteq Targets'
      BY <2>4, <3>1, <3>8
    <3> QED BY <2>4, <2>5, <2>9, <3>1, <3>7, <3>9, <3>10 DEF SyncInv
  <2> QED BY <2>8, <2>9
<1>10. ASSUME NEW p \in ProviderIDs, NEW i \in Models, NEW flag \in {"on", "off"},
              SetModelEnabled(p, i, flag)
       PROVE  SyncInv'
  <2>1. file' = file /\ ui' = ui /\ left' = left /\ synced' = synced
    BY <1>10 DEF SetModelEnabled
  <2>2. read'["sync"] = read["sync"]
    BY <1>10 DEF SetModelEnabled, Reading, ProviderTypes, Readers
  <2>3. Stale(read["sync"])' = Stale(read["sync"])
    BY <2>1, <2>2 DEF Stale
  <2> QED BY <1>b, <1>c, <2>1, <2>2, <2>3 DEF SyncInv
<1>11. CASE CLIWrite
  <2> DEFINE r == read["cli"]
  <2> DEFINE next == [r.cfg EXCEPT !.ids[r.id] = r.flag]
  <2>1. /\ r \in ProviderReads /\ r.p \in ProviderIDs /\ r # Nobody
        /\ r.id \in Models /\ r.flag \in {"on", "off"} /\ r.cfg \in Configs
    BY <1>11, <1>0 DEF CLIWrite, HolderInv, ProviderReads, ProviderTypes
  <2>2. next \in Configs /\ next.there = r.cfg.there /\ next.own = r.cfg.own
    <3> HIDE DEF r
    <3> QED BY <2>1 DEF Configs, Flags
  <2>3. file' = PutInto(file, r.p, r.ext, next)
    BY <1>11 DEF CLIWrite, PutInto, Put
  <2> HIDE DEF next
  <2>4. Grown(file, file')
    BY <1>0, <2>1, <2>2, <2>3, RewrittenFile
  <2> QED BY <1>11, <1>a, <2>4 DEF CLIWrite
<1>12. CASE Connect
  <2>1. Grown(file, file')
    BY <1>12, StarterFiles DEF Connect
  <2> QED BY <1>12, <1>a, <2>1 DEF Connect
<1>13. ASSUME NEW p \in ProviderIDs, NEW x \in Exts, WriteOwnFile(p, x) PROVE SyncInv'
  <2> DEFINE own == [Template EXCEPT !.own = TRUE]
  <2>1. own \in Configs
    BY ConfigKinds
  <2> HIDE DEF own
  <2>2. OnlyAt(file', file, p, x, own)
    <3>1. file' = PutInto(file, p, x, own)
      BY <1>13 DEF WriteOwnFile, Put, PutInto, own
    <3>2. file \in [ProviderIDs -> [Exts -> Configs]]
      BY DEF ProviderTypes
    <3> QED BY <2>1, <3>1, <3>2, PutOne
  <2>3. ~file[p]["json"].there /\ ~file[p]["jsonc"].there
    BY <1>13 DEF WriteOwnFile, Current, EntryOf
  <2>4. Grown(file, file')
    BY <2>2, <2>3 DEF OnlyAt, Grown, Exts
  <2> QED BY <1>13, <2>4, <1>a DEF WriteOwnFile
<1>14. CASE UNCHANGED providerVars
  <2>1. file' = file /\ ui' = ui /\ left' = left /\ synced' = synced /\ read' = read
    BY <1>14 DEF providerVars
  <2>2. Stale(read["sync"])' = Stale(read["sync"])
    BY <2>1 DEF Stale
  <2> QED BY <1>b, <1>c, <2>1, <2>2 DEF SyncInv
<1> QED BY <1>1, <1>2, <1>3, <1>4, <1>5, <1>6, <1>7, <1>8, <1>9, <1>10, <1>11, <1>12, <1>13, <1>14
        DEF ProviderFilesNext

\* It all begins without files.
LEMMA ProviderInitially == ProviderFilesInit => ProviderInv
<1> SUFFICES ASSUME ProviderFilesInit PROVE ProviderInv
  OBVIOUS
<1>1. ProviderTypes
  BY ConfigKinds DEF ProviderFilesInit, ProviderTypes
<1>2. HolderInv /\ SyncInv
  BY DEF ProviderFilesInit, HolderInv, SyncInv, Readers
<1>3. PresentInv
  BY ConfigKinds DEF ProviderFilesInit, PresentInv, Readers, Exts
<1>4. FlagsInv
  BY DEF ProviderFilesInit, FlagsInv
<1> QED BY <1>1, <1>2, <1>3, <1>4 DEF ProviderInv

(***************************************************************************)
(* What the user set up survives the syncs: what he switched off stays off *)
(* unless two writers overlapped, `connect` shadowed the file or a sync    *)
(* dropped the entry, which comes back switched on when it is listed       *)
(* again; a sync that completes leaves a provider without a live endpoint  *)
(* nothing to offer; and his own file counts until `connect` shadows it    *)
(* (pkg/ai/provider/sync_models.go, enable.go, bootstrap.go).              *)
(***************************************************************************)
THEOREM ProvidersStayKept == ProviderFilesSpec => []ProvidersKept
<1>1. ProviderInv /\ [ProviderFilesNext]_providerVars => ProviderInv'
  BY ProviderTypesStep, HolderStep, PresentStep, FlagsStep, SyncStep DEF ProviderInv
<1>2. ProviderInv => ProvidersKept
  <2> SUFFICES ASSUME ProviderInv PROVE ProvidersKept
    OBVIOUS
  <2>1. ~raced /\ ~connected => \A x \in off \ dropped : Current(x[1]).ids[x[2]] # "on"
    BY DEF ProviderInv, FlagsInv
  <2>2. synced = "done" /\ Current("plain").there => ~WouldChange("plain")
    BY DEF ProviderInv, SyncInv, Known, ProviderIDs
  <2>3. ASSUME ~connected, NEW p \in ProviderIDs, NEW x \in Exts, file[p][x].own
        PROVE  Current(p).own
    <3>1. file[p][x].there /\ ~(file[p]["json"].there /\ file[p]["jsonc"].there)
      BY <2>3 DEF ProviderInv, PresentInv
    <3> QED BY <2>3, <3>1 DEF Current, EntryOf, Exts
  <2> QED BY <2>1, <2>2, <2>3 DEF ProvidersKept
<1> QED BY <1>1, <1>2, ProviderInitially, PTL DEF ProviderFilesSpec

-----------------------------------------------------------------------------
(***************************************************************************)
(* Arguments: what the user quotes comes back as he had it in mind.        *)
(***************************************************************************)

Letters == STRING \cup Quotes \cup {" "}
Words == Seq(Letters)
OneQuote(a) == \E q \in Quotes : \A i \in DOMAIN a : a[i] # q
StateOf(args, word, inQuote) == [args |-> args, current |-> word, inQuote |-> inQuote]

\* The parser over a line, and where it ends up.
ReadsLine(f, line) ==
    f = [n \in 0 .. Len(line) |->
           IF n = 0 THEN [args |-> <<>>, current |-> <<>>, inQuote |-> "none"]
           ELSE ParseChar(f[n - 1], line[n])]
StateAfter(line) == (CHOOSE f : ReadsLine(f, line))[Len(line)]

LEMMA ParsedArgs == ASSUME NEW line PROVE ParseArgs(line) = Ended(StateAfter(line)).args
BY DEF ParseArgs, StateAfter, ReadsLine

\* One letter.
NextState(a, c, q, ch) ==
    IF q # "none" THEN IF ch = q THEN StateOf(a, c, "none") ELSE StateOf(a, Append(c, ch), q)
    ELSE IF ch \in Quotes THEN StateOf(a, c, ch)
    ELSE IF ch = " " THEN Ended(StateOf(a, c, q)) ELSE StateOf(a, Append(c, ch), q)

LEMMA CharParsed ==
    ASSUME NEW a, NEW c, NEW q, NEW ch
    PROVE  ParseChar(StateOf(a, c, q), ch) = NextState(a, c, q, ch)
<1> DEFINE s == StateOf(a, c, q)
<1>1. s.args = a /\ s.current = c /\ s.inQuote = q
  BY DEF StateOf
<1>2. \A x : [s EXCEPT !.inQuote = x] = StateOf(a, c, x)
  BY DEF StateOf
<1>3. \A x : [s EXCEPT !.current = x] = StateOf(a, x, q)
  BY DEF StateOf
<1> DEFINE goal == ParseChar(s, ch) =
             IF q # "none" THEN IF ch = q THEN StateOf(a, c, "none") ELSE StateOf(a, Append(c, ch), q)
             ELSE IF ch \in Quotes THEN StateOf(a, c, ch)
             ELSE IF ch = " " THEN Ended(s) ELSE StateOf(a, Append(c, ch), q)
<1> SUFFICES goal
  BY DEF NextState
<1> HIDE DEF s
<1>4. ParseChar(s, ch) =
        IF s.inQuote # "none" THEN
          IF ch = s.inQuote THEN [s EXCEPT !.inQuote = "none"]
          ELSE [s EXCEPT !.current = Append(s.current, ch)]
        ELSE CASE ch \in Quotes -> [s EXCEPT !.inQuote = ch]
               [] ch = " "      -> Ended(s)
               [] OTHER         -> [s EXCEPT !.current = Append(s.current, ch)]
  BY DEF ParseChar
<1>5. CASE q # "none"
  BY <1>1, <1>2, <1>3, <1>4, <1>5
<1>6. CASE q = "none"
  <2>1. ~(" " \in Quotes)
    BY DEF Quotes
  <2>2. s.inQuote = "none"
    BY <1>1, <1>6
  <2>3. CASE ch \in Quotes
    <3>1. ch # " "
      BY <2>1, <2>3
    <3> QED BY <1>2, <1>4, <1>6, <2>2, <2>3, <3>1
  <2>4. CASE ch = " "
    <3>1. ch \notin Quotes
      BY <2>1, <2>4
    <3> QED BY <1>4, <1>6, <2>2, <2>4, <3>1
  <2>5. CASE ch \notin Quotes /\ ch # " "
    BY <1>1, <1>3, <1>4, <1>6, <2>2, <2>5
  <2> QED BY <2>3, <2>4, <2>5
<1> QED BY <1>5, <1>6

LEMMA EndedState ==
    ASSUME NEW a, NEW c, NEW q
    PROVE  Ended(StateOf(a, c, q)) = IF c = <<>> THEN StateOf(a, c, q) ELSE StateOf(Append(a, c), <<>>, q)
BY DEF Ended, StateOf

Plain(q, ch) == IF q = "none" THEN ch \notin Quotes /\ ch # " " ELSE ch # q
LEMMA CharCopied ==
    ASSUME NEW a, NEW c, NEW q, NEW ch, Plain(q, ch)
    PROVE  ParseChar(StateOf(a, c, q), ch) = StateOf(a, Append(c, ch), q)
<1>1. ParseChar(StateOf(a, c, q), ch) = NextState(a, c, q, ch)
  BY CharParsed
<1>2. NextState(a, c, q, ch) = StateOf(a, Append(c, ch), q)
  BY DEF NextState, Plain
<1> QED BY <1>1, <1>2

\* It leads from one state of the parser to another.
ParserStates == {StateOf(a, c, q) : a \in Seq(Words), c \in Words, q \in Quotes \cup {"none"}}
LEMMA StateTyped ==
    ASSUME NEW a \in Seq(Words), NEW c \in Words, NEW q \in Quotes \cup {"none"}
    PROVE  StateOf(a, c, q) \in ParserStates
BY DEF ParserStates

LEMMA CharTyped ==
    ASSUME NEW s \in ParserStates, NEW ch \in Letters
    PROVE  ParseChar(s, ch) \in ParserStates
<1>1. PICK a \in Seq(Words), c \in Words, q \in Quotes \cup {"none"} : s = StateOf(a, c, q)
  BY DEF ParserStates
<1>2. Append(c, ch) \in Words /\ <<>> \in Words
  BY DEF Words
<1>3. Append(a, c) \in Seq(Words)
  OBVIOUS
<1>4. \A x \in Seq(Words), y \in Words, z \in Quotes \cup {"none"} : StateOf(x, y, z) \in ParserStates
  BY StateTyped
<1>5. \/ ParseChar(s, ch) = StateOf(a, c, "none")
      \/ ParseChar(s, ch) = StateOf(a, Append(c, ch), q)
      \/ ParseChar(s, ch) = StateOf(a, c, q)
      \/ ParseChar(s, ch) = StateOf(Append(a, c), <<>>, q)
      \/ ch \in Quotes /\ ParseChar(s, ch) = StateOf(a, c, ch)
  <2>1. Ended(StateOf(a, c, q)) = IF c = <<>> THEN StateOf(a, c, q) ELSE StateOf(Append(a, c), <<>>, q)
    BY EndedState
  <2>2. ParseChar(s, ch) = NextState(a, c, q, ch)
    BY <1>1, CharParsed
  <2> QED BY <2>1, <2>2 DEF NextState
<1> QED BY <1>2, <1>3, <1>4, <1>5

LEMMA LineRead ==
    ASSUME NEW line \in Words
    PROVE  ReadsLine(CHOOSE f : ReadsLine(f, line), line)
<1> DEFINE last == Len(line)
           first == StateOf(<<>>, <<>>, "none")
           step == [n \in 1 .. last |-> [s \in ParserStates |-> ParseChar(s, line[n])]]
<1>1. last \in Nat /\ \A n \in 1 .. last : line[n] \in Letters
  BY DEF Words
<1>2. first \in ParserStates
  <2>1. <<>> \in Words /\ <<>> \in Seq(Words) /\ "none" \in Quotes \cup {"none"}
    BY DEF Words
  <2> QED BY <2>1, StateTyped
<1>3. step \in [1 .. last -> [ParserStates -> ParserStates]]
  BY <1>1, CharTyped
<1>4. PICK f : Follows(f, last, ParserStates, first, step)
  <2> HIDE DEF step, last, first
  <2> QED BY <1>1, <1>2, <1>3, Recursion
<1>5. ReadsLine(f, line)
  <2>1. /\ f \in [0 .. last -> ParserStates] /\ f[0] = first
        /\ \A n \in 1 .. last : f[n] = step[n][f[n - 1]]
    BY <1>4 DEF Follows
  <2> HIDE DEF first
  <2>2. ASSUME NEW n \in 1 .. last PROVE f[n] = ParseChar(f[n - 1], line[n])
    <3>1. n - 1 \in 0 .. last
      BY <1>1
    <3>2. f[n - 1] \in ParserStates
      BY <2>1, <3>1
    <3> QED BY <2>1, <3>2
  <2>3. \A n \in 0 .. last : n = 0 \/ n \in 1 .. last
    BY <1>1
  <2> HIDE DEF step
  <2>4. ASSUME NEW n \in 0 .. last
        PROVE  f[n] = IF n = 0 THEN first ELSE ParseChar(f[n - 1], line[n])
    <3>1. CASE n = 0
      BY <2>1, <3>1
    <3>2. CASE n # 0
      BY <2>2, <2>3, <3>2, Zenon
    <3> QED BY <3>1, <3>2
  <2>5. f = [n \in 0 .. last |-> f[n]]
    BY <2>1
  <2> QED BY <2>4, <2>5 DEF ReadsLine, first, StateOf
<1> QED BY <1>5

LEMMA ParserReads ==
    ASSUME NEW line \in Words, NEW f, ReadsLine(f, line)
    PROVE  /\ f[0] = StateOf(<<>>, <<>>, "none")
           /\ \A n \in 1 .. Len(line) : f[n] = ParseChar(f[n - 1], line[n])
<1> DEFINE first == StateOf(<<>>, <<>>, "none")
           last == Len(line)
<1>1. f = [n \in 0 .. last |-> IF n = 0 THEN first ELSE ParseChar(f[n - 1], line[n])]
  BY DEF ReadsLine, StateOf
<1>2. last \in Nat
  BY DEF Words
<1> HIDE DEF first, last
<1>3. 0 \in 0 .. last /\ \A n \in 1 .. last : n \in 0 .. last /\ n # 0
  BY <1>2
<1>4. \A n \in 0 .. last : f[n] = IF n = 0 THEN first ELSE ParseChar(f[n - 1], line[n])
  BY <1>1, Zenon
<1>5. f[0] = first
  BY <1>3, <1>4
<1>6. \A n \in 1 .. last : f[n] = ParseChar(f[n - 1], line[n])
  BY <1>3, <1>4
<1> QED BY <1>5, <1>6 DEF first, last

\* The parser starts empty, and takes a letter at a time.
LEMMA NothingRead == StateAfter(<<>>) = StateOf(<<>>, <<>>, "none")
<1>1. <<>> \in Words /\ Len(<<>>) = 0
  BY DEF Words
<1> DEFINE f == CHOOSE x : ReadsLine(x, <<>>)
<1>2. ReadsLine(f, <<>>)
  BY <1>1, LineRead
<1>3. StateAfter(<<>>) = f[0]
  BY <1>1 DEF StateAfter
<1> HIDE DEF f
<1> QED BY <1>1, <1>2, <1>3, ParserReads

LEMMA OneMoreRead ==
    ASSUME NEW line \in Words, NEW ch \in Letters
    PROVE  /\ Append(line, ch) \in Words
           /\ StateAfter(Append(line, ch)) = ParseChar(StateAfter(line), ch)
<1> DEFINE more == Append(line, ch)
           f == CHOOSE x : ReadsLine(x, line)
           g == CHOOSE x : ReadsLine(x, more)
           last == Len(line)
           T == {n \in 0 .. last : g[n] = f[n]}
<1>1. /\ more \in Words /\ Len(more) = last + 1 /\ last \in Nat /\ more[last + 1] = ch
      /\ \A n \in 1 .. last : more[n] = line[n]
  BY DEF Words
<1>2. ReadsLine(f, line) /\ ReadsLine(g, more)
  BY <1>1, LineRead
<1>3. StateAfter(line) = f[last] /\ StateAfter(more) = g[last + 1]
  BY <1>1 DEF StateAfter
<1> HIDE DEF f, g, more
<1>4. /\ f[0] = g[0]
      /\ \A n \in 1 .. last : f[n] = ParseChar(f[n - 1], line[n])
      /\ \A n \in 1 .. last + 1 : g[n] = ParseChar(g[n - 1], more[n])
  BY <1>1, <1>2, ParserReads
<1>5. 0 \in T
  BY <1>1, <1>4
<1>6. ASSUME NEW n \in 1 .. last, n - 1 \in T PROVE n \in T
  <2>1. n \in 0 .. last /\ n \in 1 .. last + 1
    BY <1>1
  <2> QED BY <1>1, <1>4, <1>6, <2>1
<1>7. last \in T
  <2>1. last \in 0 .. last
    BY <1>1
  <2> HIDE DEF T, last
  <2> QED BY <1>1, <1>5, <1>6, <2>1, Induction
<1>8. g[last + 1] = ParseChar(g[last], ch)
  <2>1. last + 1 \in 1 .. last + 1 /\ last + 1 - 1 = last
    BY <1>1
  <2> QED BY <1>1, <1>4, <2>1
<1> QED BY <1>1, <1>3, <1>7, <1>8 DEF more

AllPlain(q, w) == \A i \in DOMAIN w : Plain(q, w[i])

\* Letters the parser only appends to the argument it is in.
LEMMA Copied ==
    ASSUME NEW line \in Words, NEW w \in Words, NEW a, NEW c \in Words, NEW q,
           StateAfter(line) = StateOf(a, c, q),
           AllPlain(q, w)
    PROVE  line \o w \in Words /\ StateAfter(line \o w) = StateOf(a, c \o w, q)
<1> DEFINE last == Len(w)
           part(n) == SubSeq(w, 1, n)
           T == {n \in 0 .. last : /\ line \o part(n) \in Words
                                   /\ StateAfter(line \o part(n)) = StateOf(a, c \o part(n), q)}
<1>1. last \in Nat /\ DOMAIN w = 1 .. last /\ \A n \in 1 .. last : w[n] \in Letters
  BY DEF Words
<1>2. 0 \in T
  <2>0. part(0) = <<>>
    BY SubSeqEmpty
  <2>1. line \o part(0) = line /\ c \o part(0) = c /\ 0 \in 0 .. last
    BY <1>1, <2>0, ConcatEmptySeq DEF Words
  <2> HIDE DEF part
  <2> QED BY <1>1, <2>1
<1>3. ASSUME NEW n \in 1 .. last, n - 1 \in T PROVE n \in T
  <2>1. part(n - 1) \in Words
    <3>1. \A i \in 1 .. n - 1 : w[i] \in Letters
      BY <1>1
    <3> QED BY <3>1, <1>1, SubSeqProperties DEF Words
  <2>2. part(n) = Append(part(n - 1), w[n])
    <3>1. part(n) = part(n - 1) \o <<w[n]>>
      <4>1. 1 \in 1 .. Len(w) /\ n \in 1 .. Len(w) /\ w \in Seq(Letters)
        BY <1>1 DEF Words
      <4> QED BY <4>1, SubSeqRecursiveSecond
    <3>2. part(n - 1) \in Seq(Letters) /\ w[n] \in Letters
      BY <1>1, <2>1 DEF Words
    <3> HIDE DEF part
    <3> QED BY <3>1, <3>2, AppendIsConcat
  <2> HIDE DEF part
  <2>3. w[n] \in Letters /\ n \in DOMAIN w /\ n \in 0 .. last
    BY <1>1
  <2>4. \A u, v \in Words, ch \in Letters : u \o Append(v, ch) = Append(u \o v, ch) /\ u \o v \in Words
    BY DEF Words
  <2>5. line \o part(n) = Append(line \o part(n - 1), w[n])
        /\ c \o part(n) = Append(c \o part(n - 1), w[n]) /\ c \o part(n - 1) \in Words
    <3>1. part(n) = Append(part(n - 1), w[n])
      BY <2>2
    <3>2. line \o part(n) = line \o Append(part(n - 1), w[n]) /\ c \o part(n) = c \o Append(part(n - 1), w[n])
      BY <3>1
    <3>3. line \o Append(part(n - 1), w[n]) = Append(line \o part(n - 1), w[n])
          /\ c \o Append(part(n - 1), w[n]) = Append(c \o part(n - 1), w[n])
          /\ c \o part(n - 1) \in Words
      BY <2>1, <2>3, <2>4, Zenon
    <3> QED BY <3>2, <3>3, Zenon
  <2>6. line \o part(n) \in Words
        /\ StateAfter(line \o part(n)) = ParseChar(StateAfter(line \o part(n - 1)), w[n])
    BY <1>3, <2>3, <2>5, OneMoreRead
  <2>7. StateAfter(line \o part(n)) = StateOf(a, c \o part(n), q)
    <3>1. ParseChar(StateOf(a, c \o part(n - 1), q), w[n]) = StateOf(a, Append(c \o part(n - 1), w[n]), q)
      BY <2>3, CharCopied DEF AllPlain
    <3> QED BY <1>3, <2>5, <2>6, <3>1
  <2> QED BY <2>3, <2>6, <2>7
<1>4. last \in T
  <2>1. last \in 0 .. last
    BY <1>1
  <2> HIDE DEF T, last
  <2> QED BY <1>1, <1>2, <1>3, <2>1, Induction
<1>5. part(last) = w
  BY SubSeqFull DEF Words
<1> HIDE DEF part
<1> QED BY <1>4, <1>5

\* An argument as the user writes it, in quotes or not.
LEMMA WordRead ==
    ASSUME NEW line \in Words, NEW a, StateAfter(line) = StateOf(a, <<>>, "none"),
           NEW w \in Words, OneQuote(w), NEW always \in BOOLEAN
    PROVE  /\ line \o WrittenArg(w, always) \in Words
           /\ StateAfter(line \o WrittenArg(w, always)) = StateOf(a, w, "none")
<1>1. <<>> \in Words /\ <<>> \o w = w /\ \A i \in DOMAIN w : w[i] \in Letters
  BY ConcatEmptySeq DEF Words
<1> DEFINE q == IF \E i \in DOMAIN w : w[i] = "\"" THEN "'" ELSE "\""
           quoted == always \/ w = <<>> \/ \E i \in DOMAIN w : w[i] \in Quotes \cup {" "}
<1>2. WrittenArg(w, always) = IF quoted THEN <<q>> \o w \o <<q>> ELSE w
  BY DEF WrittenArg
<1>3. q \in Quotes /\ q \in Letters /\ q # "none" /\ \A i \in DOMAIN w : w[i] # q
  BY DEF OneQuote, Quotes, Letters
<1> HIDE DEF q
<1>4. CASE quoted
  <2>1. Append(line, q) \in Words /\ StateAfter(Append(line, q)) = StateOf(a, <<>>, q)
    <3>1. ParseChar(StateOf(a, <<>>, "none"), q) = StateOf(a, <<>>, q)
      BY <1>3, CharParsed DEF NextState
    <3> QED BY <1>3, <3>1, OneMoreRead
  <2>2. AllPlain(q, w)
    BY <1>3 DEF AllPlain, Plain
  <2>3. Append(line, q) \o w \in Words /\ StateAfter(Append(line, q) \o w) = StateOf(a, w, q)
    <3>1. ASSUME NEW e \in Words, StateAfter(Append(line, q)) = StateOf(a, e, q)
          PROVE  /\ Append(line, q) \o w \in Words
                 /\ StateAfter(Append(line, q) \o w) = StateOf(a, e \o w, q)
      BY <2>1, <2>2, <3>1, Copied
    <3> QED BY <1>1, <2>1, <3>1
  <2>4. ParseChar(StateOf(a, w, q), q) = StateOf(a, w, "none")
    BY <1>3, CharParsed DEF NextState
  <2>5. /\ Append(Append(line, q) \o w, q) \in Words
        /\ StateAfter(Append(Append(line, q) \o w, q)) = StateOf(a, w, "none")
    BY <1>3, <2>3, <2>4, OneMoreRead
  <2>6. line \o (<<q>> \o w \o <<q>>) = Append(Append(line, q) \o w, q)
    BY <1>3 DEF Words
  <2> QED BY <1>2, <1>4, <2>5, <2>6
<1>5. CASE ~quoted
  <2>1. \A i \in DOMAIN w : w[i] \notin Quotes /\ w[i] # " "
    BY <1>5
  <2>2. AllPlain("none", w)
    BY <2>1 DEF AllPlain, Plain
  <2>3. line \o w \in Words /\ StateAfter(line \o w) = StateOf(a, w, "none")
    <3>1. ASSUME NEW e \in Words, NEW p, StateAfter(line) = StateOf(a, e, p), AllPlain(p, w)
          PROVE  line \o w \in Words /\ StateAfter(line \o w) = StateOf(a, e \o w, p)
      BY <3>1, Copied
    <3> QED BY <1>1, <2>2, <3>1
  <2> QED BY <1>2, <1>5, <2>3
<1> QED BY <1>4, <1>5
\* The line the user writes, an argument at a time.
WritesLine(f, args, always) ==
    f = [n \in 0 .. Len(args) |->
           IF n = 0 THEN <<>>
           ELSE (IF n = 1 THEN <<>> ELSE Append(f[n - 1], " ")) \o WrittenArg(args[n], always)]
OneMoreWord(line, n, w, always) ==
    (IF n = 1 THEN <<>> ELSE Append(line, " ")) \o WrittenArg(w, always)

LEMMA WrittenTyped ==
    ASSUME NEW w \in Words, NEW always \in BOOLEAN
    PROVE  WrittenArg(w, always) \in Words
<1> DEFINE q == IF \E i \in DOMAIN w : w[i] = "\"" THEN "'" ELSE "\""
<1>1. q \in Letters
  BY DEF Letters, Quotes
<1>2. WrittenArg(w, always) \in {<<q>> \o w \o <<q>>, w}
  BY DEF WrittenArg
<1> HIDE DEF q
<1>3. <<q>> \o w \o <<q>> \in Words
  BY <1>1 DEF Words
<1> QED BY <1>2, <1>3

LEMMA WordTyped ==
    ASSUME NEW line \in Words, NEW n, NEW w \in Words, NEW always \in BOOLEAN
    PROVE  OneMoreWord(line, n, w, always) \in Words
<1> DEFINE before == IF n = 1 THEN <<>> ELSE Append(line, " ")
<1>1. before \in Words
  <2>1. <<>> \in Words
    BY DEF Words
  <2>2. " " \in Letters
    BY DEF Letters
  <2>3. \A ch \in Letters : Append(line, ch) \in Words
    BY DEF Words
  <2> QED BY <2>1, <2>2, <2>3
<1>2. WrittenArg(w, always) \in Words
  BY WrittenTyped
<1>3. OneMoreWord(line, n, w, always) = before \o WrittenArg(w, always)
  BY DEF OneMoreWord
<1> HIDE DEF before
<1> QED BY <1>1, <1>2, <1>3 DEF Words

LEMMA LineWritten ==
    ASSUME NEW args \in Seq(Words), NEW always \in BOOLEAN
    PROVE  \E f : /\ CommandLine(args, always) = f[Len(args)]
                  /\ f \in [0 .. Len(args) -> Words] /\ f[0] = <<>>
                  /\ \A n \in 1 .. Len(args) : f[n] = OneMoreWord(f[n - 1], n, args[n], always)
<1> DEFINE last == Len(args)
           step == [n \in 1 .. last |-> [s \in Words |-> OneMoreWord(s, n, args[n], always)]]
           written == CHOOSE f : WritesLine(f, args, always)
<1>0. CommandLine(args, always) = written[last]
  BY DEF CommandLine, WritesLine
<1>1. last \in Nat /\ (\A n \in 1 .. last : args[n] \in Words) /\ <<>> \in Words
  BY DEF Words
<1>2. step \in [1 .. last -> [Words -> Words]]
  BY <1>1, WordTyped
<1>3. PICK f : Follows(f, last, Words, <<>>, step)
  <2> HIDE DEF step, last
  <2> QED BY <1>1, <1>2, Recursion
<1>4. WritesLine(f, args, always)
  <2>1. /\ f \in [0 .. last -> Words] /\ f[0] = <<>>
        /\ \A n \in 1 .. last : f[n] = step[n][f[n - 1]]
    BY <1>3 DEF Follows
  <2>2. ASSUME NEW n \in 1 .. last PROVE f[n] = OneMoreWord(f[n - 1], n, args[n], always)
    <3>1. n - 1 \in 0 .. last
      BY <1>1
    <3>2. f[n - 1] \in Words
      BY <2>1, <3>1
    <3> QED BY <2>1, <3>2
  <2>3. \A n \in 0 .. last : n = 0 \/ n \in 1 .. last
    BY <1>1
  <2> HIDE DEF step
  <2>4. ASSUME NEW n \in 0 .. last
        PROVE  f[n] = IF n = 0 THEN <<>> ELSE OneMoreWord(f[n - 1], n, args[n], always)
    <3>1. CASE n = 0
      BY <2>1, <3>1
    <3>2. CASE n # 0
      BY <2>2, <2>3, <3>2, Zenon
    <3> QED BY <3>1, <3>2
  <2>5. f = [n \in 0 .. last |-> f[n]]
    BY <2>1
  <2> QED BY <2>4, <2>5 DEF WritesLine, OneMoreWord
<1>5. WritesLine(written, args, always)
  BY <1>4
<1> HIDE DEF written, last
<1>6. written = [n \in 0 .. last |->
                   IF n = 0 THEN <<>> ELSE OneMoreWord(written[n - 1], n, args[n], always)]
  BY <1>5 DEF WritesLine, OneMoreWord, last
<1>7. /\ \A n \in 1 .. last : n \in 0 .. last /\ n # 0 /\ n - 1 \in 0 .. last
      /\ 0 \in 0 .. last
  BY <1>1
<1>8. \A n \in 0 .. last : written[n] =
            IF n = 0 THEN <<>> ELSE OneMoreWord(written[n - 1], n, args[n], always)
  BY <1>6, Zenon
<1>9. /\ written[0] = <<>>
      /\ \A n \in 1 .. last : written[n] = OneMoreWord(written[n - 1], n, args[n], always)
  BY <1>7, <1>8
<1>10. \A n \in 0 .. last : written[n] \in Words
  <2> DEFINE T == {n \in 0 .. last : written[n] \in Words}
  <2>1. 0 \in T
    BY <1>1, <1>7, <1>9
  <2>2. ASSUME NEW n \in 1 .. last, n - 1 \in T PROVE n \in T
    <3>1. OneMoreWord(written[n - 1], n, args[n], always) \in Words
      BY <1>1, <2>2, WordTyped
    <3> QED BY <1>7, <1>9, <3>1
  <2> HIDE DEF T
  <2>3. \A n \in 0 .. last : n \in T
    BY <1>1, <2>1, <2>2, Induction
  <2> QED BY <2>3 DEF T
<1>11. written \in [0 .. last -> Words]
  BY <1>6, <1>10
<1> QED BY <1>0, <1>9, <1>11 DEF last

-----------------------------------------------------------------------------
\* The parser reads back the arguments that are not empty.
Kept(args, n) == ElementsAt(args, {i \in 1 .. n : args[i] # <<>>})

LEMMA OneMoreKept ==
    ASSUME NEW args \in Seq(Words), NEW n \in 1 .. Len(args)
    PROVE  Kept(args, n) = IF args[n] = <<>> THEN Kept(args, n - 1) ELSE Append(Kept(args, n - 1), args[n])
<1> DEFINE before == {i \in 1 .. n - 1 : args[i] # <<>>}
<1>1. n \in Int /\ \A i \in 1 .. n : i \in 1 .. n - 1 \/ i = n
  OBVIOUS
<1>2. n \in 1 .. n /\ \A i \in 1 .. n - 1 : i \in 1 .. n
  BY <1>1
<1>3. CASE args[n] = <<>>
  <2>1. {i \in 1 .. n : args[i] # <<>>} = before
    BY <1>1, <1>2, <1>3
  <2> HIDE DEF before
  <2>2. Kept(args, n) = ElementsAt(args, before)
    BY <2>1 DEF Kept
  <2> QED BY <1>3, <2>2 DEF Kept, before
<1>4. CASE args[n] # <<>>
  <2>1. {i \in 1 .. n : args[i] # <<>>} = before \cup {n}
    BY <1>1, <1>2, <1>4
  <2>2. before \in SUBSET (1 .. n - 1)
    OBVIOUS
  <2>3. Kept(args, n - 1) = ElementsAt(args, before)
    BY DEF Kept
  <2> HIDE DEF before
  <2>4. ElementsAt(args, before \cup {n}) = Append(ElementsAt(args, before), args[n])
    BY <2>2, ElementAppended
  <2> QED BY <1>4, <2>1, <2>3, <2>4 DEF Kept
<1> QED BY <1>3, <1>4

LEMMA NoneKept == ASSUME NEW args \in Seq(Words) PROVE Kept(args, 0) = <<>>
<1>1. {i \in 1 .. 0 : args[i] # <<>>} = {}
  OBVIOUS
<1>2. Cardinality({}) = 0
  BY FS_EmptySet
<1>3. Kept(args, 0) = ElementsAt(args, {})
  BY <1>1 DEF Kept
<1>4. ElementsAt(args, {}) \in Seq(Words) /\ Len(ElementsAt(args, {})) = Cardinality({})
  BY ElementsKept
<1> QED BY <1>2, <1>3, <1>4

LEMMA WordEnded ==
    ASSUME NEW args \in Seq(Words), NEW n \in 1 .. Len(args)
    PROVE  Ended(StateOf(Kept(args, n - 1), args[n], "none")) = StateOf(Kept(args, n), <<>>, "none")
<1>1. Ended(StateOf(Kept(args, n - 1), args[n], "none")) =
        IF args[n] = <<>> THEN StateOf(Kept(args, n - 1), args[n], "none")
        ELSE StateOf(Append(Kept(args, n - 1), args[n]), <<>>, "none")
  BY EndedState
<1> QED BY <1>1, OneMoreKept

LEMMA LineParsed ==
    ASSUME NEW args \in Seq(Words), \A n \in DOMAIN args : OneQuote(args[n]), NEW always \in BOOLEAN
    PROVE  ParseArgs(CommandLine(args, always)) =
             ElementsAt(args, {i \in DOMAIN args : args[i] # <<>>})
<1> DEFINE last == Len(args)
           here(n) == StateOf(Kept(args, n - 1), args[n], "none")
<1>1. /\ last \in Nat /\ DOMAIN args = 1 .. last
      /\ \A n \in 1 .. last : args[n] \in Words /\ OneQuote(args[n])
  OBVIOUS
<1>2. PICK f : /\ CommandLine(args, always) = f[last]
               /\ f \in [0 .. last -> Words] /\ f[0] = <<>>
               /\ \A n \in 1 .. last : f[n] = OneMoreWord(f[n - 1], n, args[n], always)
  BY LineWritten
<1> DEFINE T == {n \in 0 .. last : n = 0 \/ StateAfter(f[n]) = here(n)}
<1>3. 0 \in T
  BY <1>1
<1>4. ASSUME NEW n \in 1 .. last, n - 1 \in T PROVE n \in T
  <2> DEFINE before == IF n = 1 THEN <<>> ELSE Append(f[n - 1], " ")
  <2>1. before \in Words /\ StateAfter(before) = StateOf(Kept(args, n - 1), <<>>, "none")
    <3>1. CASE n = 1
      <4>1. <<>> \in Words
        BY DEF Words
      <4> QED BY <3>1, <4>1, NothingRead, NoneKept
    <3>2. CASE n # 1
      <4>1. n - 1 \in 1 .. last /\ n - 1 \in 0 .. last /\ n - 1 # 0
        BY <1>1, <3>2
      <4>2. f[n - 1] \in Words /\ StateAfter(f[n - 1]) = here(n - 1) /\ " " \in Letters
        BY <1>2, <1>4, <4>1 DEF Letters
      <4>3. ParseChar(here(n - 1), " ") = Ended(here(n - 1))
        <5>1. ParseChar(here(n - 1), " ") =
                NextState(Kept(args, n - 1 - 1), args[n - 1], "none", " ")
          BY CharParsed
        <5>2. " " \notin Quotes
          BY DEF Quotes
        <5> QED BY <5>1, <5>2 DEF NextState
      <4>4. Ended(here(n - 1)) = StateOf(Kept(args, n - 1), <<>>, "none")
        BY <4>1, WordEnded
      <4> HIDE DEF here
      <4>5. Append(f[n - 1], " ") \in Words
            /\ StateAfter(Append(f[n - 1], " ")) = ParseChar(StateAfter(f[n - 1]), " ")
        BY <4>2, OneMoreRead
      <4> QED BY <3>2, <4>2, <4>3, <4>4, <4>5
    <3> QED BY <3>1, <3>2
  <2>2. f[n] = before \o WrittenArg(args[n], always)
    BY <1>2 DEF OneMoreWord
  <2> HIDE DEF before
  <2>3. StateAfter(before \o WrittenArg(args[n], always)) = here(n)
    BY <1>1, <2>1, WordRead
  <2>4. n \in 0 .. last
    BY <1>1
  <2> HIDE DEF here
  <2> QED BY <2>2, <2>3, <2>4
<1>5. last \in T
  <2>1. last \in 0 .. last
    BY <1>1
  <2> HIDE DEF T, last
  <2> QED BY <1>1, <1>3, <1>4, <2>1, Induction
<1>6. Ended(StateAfter(f[last])) = StateOf(Kept(args, last), <<>>, "none")
  <2>1. CASE last = 0
    <3>1. Ended(StateOf(<<>>, <<>>, "none")) = StateOf(<<>>, <<>>, "none")
      BY EndedState
    <3> QED BY <1>2, <2>1, <3>1, NothingRead, NoneKept
  <2>2. CASE last # 0
    <3>1. last \in 1 .. last /\ StateAfter(f[last]) = here(last)
      BY <1>1, <1>5, <2>2
    <3> QED BY <3>1, WordEnded
  <2> QED BY <2>1, <2>2
<1>7. ParseArgs(f[last]) = Kept(args, last)
  <2>1. StateOf(Kept(args, last), <<>>, "none").args = Kept(args, last)
    BY DEF StateOf
  <2> QED BY <1>6, <2>1, ParsedArgs
<1> QED BY <1>1, <1>2, <1>7 DEF Kept

-----------------------------------------------------------------------------
(***************************************************************************)
(* Discovery: of the skills with one name the last file is merged.         *)
(***************************************************************************)

SkillNames == DOMAIN SkillKeyOf
FoundSkills == UNION {[names -> SkillFile] : names \in SUBSET SkillNames}
LastOf(found, i, k) ==
    found[i].there /\ \A j \in 1 .. k : j > i /\ found[j].there => found[j].name # found[i].name
MergedUpto(m, found, k) ==
    /\ \A n \in DOMAIN m : \E i \in 1 .. k :
         found[i].name = n /\ LastOf(found, i, k) /\ m[n] = found[i]
    /\ \A i \in 1 .. k : found[i].there => found[i].name \in DOMAIN m

LEMMA FileMerged ==
    ASSUME NEW m \in FoundSkills, NEW f \in SkillFile
    PROVE  /\ WithFile(m, f) \in FoundSkills
           /\ ~f.there => WithFile(m, f) = m
           /\ f.there => /\ DOMAIN WithFile(m, f) = DOMAIN m \cup {f.name}
                         /\ \A n \in DOMAIN m \cup {f.name} :
                              WithFile(m, f)[n] = IF n = f.name THEN f ELSE m[n]
<1>1. PICK names \in SUBSET SkillNames : m \in [names -> SkillFile]
  BY DEF FoundSkills
<1>2. f.name \in SkillNames
  BY DEF SkillFile, SkillNames
<1> DEFINE more == [n \in DOMAIN m \cup {f.name} |-> IF n = f.name THEN f ELSE m[n]]
<1>3. WithFile(m, f) = IF ~f.there THEN m ELSE more
  BY DEF WithFile
<1>4. DOMAIN m = names /\ names \cup {f.name} \in SUBSET SkillNames
  BY <1>1, <1>2
<1>5. more \in [names \cup {f.name} -> SkillFile]
  BY <1>1, <1>4
<1>6. more \in FoundSkills
  <2> HIDE DEF more
  <2> QED BY <1>4, <1>5 DEF FoundSkills
<1>7. /\ DOMAIN more = DOMAIN m \cup {f.name}
      /\ \A n \in DOMAIN m \cup {f.name} : more[n] = IF n = f.name THEN f ELSE m[n]
  OBVIOUS
<1> HIDE DEF more
<1>8. CASE f.there
  BY <1>3, <1>6, <1>7, <1>8
<1>9. CASE ~f.there
  BY <1>3, <1>9
<1> QED BY <1>8, <1>9

LEMMA OneMoreMerged ==
    ASSUME NEW found \in Seq(SkillFile), NEW k \in 1 .. Len(found), NEW m \in FoundSkills,
           MergedUpto(m, found, k - 1)
    PROVE  MergedUpto(WithFile(m, found[k]), found, k)
<1> DEFINE f == found[k]
           more == WithFile(m, f)
<1>1. f \in SkillFile /\ k \in Int
  OBVIOUS
<1>2. \A i \in 1 .. k : i = k \/ (i \in 1 .. k - 1 /\ k > i)
  BY <1>1
<1>a. \A i \in 1 .. k - 1 : i \in 1 .. k
  BY <1>1
<1>3. k \in 1 .. k /\ \A j \in 1 .. k : ~(j > k)
  BY <1>1
<1>4. /\ ~f.there => more = m
      /\ f.there => /\ DOMAIN more = DOMAIN m \cup {f.name}
                    /\ \A n \in DOMAIN m \cup {f.name} : more[n] = IF n = f.name THEN f ELSE m[n]
  BY <1>1, FileMerged
<1> HIDE DEF more
<1>5. ASSUME NEW i \in 1 .. k - 1, LastOf(found, i, k - 1), ~f.there \/ f.name # found[i].name
      PROVE  LastOf(found, i, k)
  <2>1. \A j \in 1 .. k : j = k \/ j \in 1 .. k - 1
    BY <1>2
  <2> QED BY <1>5, <2>1 DEF LastOf
<1>6. ASSUME NEW n \in DOMAIN more
      PROVE  \E i \in 1 .. k : found[i].name = n /\ LastOf(found, i, k) /\ more[n] = found[i]
  <2>1. CASE f.there /\ n = f.name
    <3>1. LastOf(found, k, k)
      BY <1>3, <2>1 DEF LastOf
    <3> QED BY <1>3, <1>4, <2>1, <3>1
  <2>2. CASE ~(f.there /\ n = f.name)
    <3>1. n \in DOMAIN m /\ more[n] = m[n]
      BY <1>4, <1>6, <2>2
    <3>2. PICK i \in 1 .. k - 1 : found[i].name = n /\ LastOf(found, i, k - 1) /\ m[n] = found[i]
      BY <3>1 DEF MergedUpto
    <3>3. LastOf(found, i, k)
      BY <1>5, <2>2, <3>2
    <3> QED BY <1>a, <3>1, <3>2, <3>3
  <2> QED BY <2>1, <2>2
<1>7. ASSUME NEW i \in 1 .. k, found[i].there PROVE found[i].name \in DOMAIN more
  <2>1. CASE i = k
    BY <1>4, <1>7, <2>1
  <2>2. CASE i \in 1 .. k - 1
    <3>1. found[i].name \in DOMAIN m
      BY <1>7, <2>2 DEF MergedUpto
    <3> QED BY <1>4, <3>1
  <2> QED BY <1>2, <2>1, <2>2
<1>8. MergedUpto(more, found, k)
  BY <1>6, <1>7 DEF MergedUpto
<1> QED BY <1>8 DEF more

MergesFiles(f, found) ==
    f = [i \in 0 .. Len(found) |-> IF i = 0 THEN <<>> ELSE WithFile(f[i - 1], found[i])]

LEMMA SkillsMerged ==
    ASSUME NEW found \in Seq(SkillFile)
    PROVE  MergeDefinitions(found) \in FoundSkills /\ MergedUpto(MergeDefinitions(found), found, Len(found))
<1> DEFINE last == Len(found)
           step == [n \in 1 .. last |-> [m \in FoundSkills |-> WithFile(m, found[n])]]
           merged == CHOOSE f : MergesFiles(f, found)
<1>0. MergeDefinitions(found) = merged[last]
  BY DEF MergeDefinitions, MergesFiles
<1>1. last \in Nat /\ \A n \in 1 .. last : found[n] \in SkillFile
  OBVIOUS
<1>2. <<>> \in FoundSkills
  <2>1. <<>> \in [{} -> SkillFile] /\ {} \in SUBSET SkillNames
    OBVIOUS
  <2> QED BY <2>1 DEF FoundSkills
<1>3. step \in [1 .. last -> [FoundSkills -> FoundSkills]]
  BY <1>1, FileMerged
<1>4. PICK f : Follows(f, last, FoundSkills, <<>>, step)
  <2> HIDE DEF step, last
  <2> QED BY <1>1, <1>2, <1>3, Recursion
<1>5. MergesFiles(f, found)
  <2>1. /\ f \in [0 .. last -> FoundSkills] /\ f[0] = <<>>
        /\ \A n \in 1 .. last : f[n] = step[n][f[n - 1]]
    BY <1>4 DEF Follows
  <2>2. ASSUME NEW n \in 1 .. last PROVE f[n] = WithFile(f[n - 1], found[n])
    <3>1. n - 1 \in 0 .. last
      BY <1>1
    <3>2. f[n - 1] \in FoundSkills
      BY <2>1, <3>1
    <3> QED BY <2>1, <3>2
  <2>3. \A n \in 0 .. last : n = 0 \/ n \in 1 .. last
    BY <1>1
  <2> HIDE DEF step
  <2>4. ASSUME NEW n \in 0 .. last
        PROVE  f[n] = IF n = 0 THEN <<>> ELSE WithFile(f[n - 1], found[n])
    <3>1. CASE n = 0
      BY <2>1, <3>1
    <3>2. CASE n # 0
      BY <2>2, <2>3, <3>2, Zenon
    <3> QED BY <3>1, <3>2
  <2>5. f = [n \in 0 .. last |-> f[n]]
    BY <2>1
  <2> QED BY <2>4, <2>5 DEF MergesFiles
<1>6. MergesFiles(merged, found)
  BY <1>5
<1> HIDE DEF merged
<1>7. merged = [n \in 0 .. last |-> IF n = 0 THEN <<>> ELSE WithFile(merged[n - 1], found[n])]
  BY <1>6 DEF MergesFiles
<1> HIDE DEF last
<1>8. \A n \in 0 .. last : merged[n] = IF n = 0 THEN <<>> ELSE WithFile(merged[n - 1], found[n])
  BY <1>7, Zenon
<1>9. (\A n \in 1 .. last : n \in 0 .. last /\ n # 0) /\ 0 \in 0 .. last /\ last \in 0 .. last
  BY <1>1
<1>10. merged[0] = <<>> /\ \A n \in 1 .. last : merged[n] = WithFile(merged[n - 1], found[n])
  BY <1>8, <1>9
<1> DEFINE T == {n \in 0 .. last : merged[n] \in FoundSkills /\ MergedUpto(merged[n], found, n)}
<1>11. 0 \in T
  <2>1. MergedUpto(<<>>, found, 0)
    BY DEF MergedUpto
  <2> QED BY <1>2, <1>9, <1>10, <2>1
<1>12. ASSUME NEW n \in 1 .. last, n - 1 \in T PROVE n \in T
  <2>1. n \in 1 .. Len(found)
    BY DEF last
  <2>2. WithFile(merged[n - 1], found[n]) \in FoundSkills
    BY <1>1, <1>12, FileMerged
  <2>3. MergedUpto(WithFile(merged[n - 1], found[n]), found, n)
    BY <1>12, <2>1, OneMoreMerged
  <2> QED BY <1>9, <1>10, <2>2, <2>3
<1>13. last \in T
  <2> HIDE DEF T
  <2> QED BY <1>1, <1>9, <1>11, <1>12, Induction
<1> QED BY <1>0, <1>13 DEF last

\* The file in force is the one that was merged.
LEMMA MergedInForce ==
    ASSUME skillDirs \in Seq(SkillFile), NEW name
    PROVE  InForce(name) = IF name \in DOMAIN MergeDefinitions(skillDirs)
                           THEN {MergeDefinitions(skillDirs)[name]} ELSE {}
<1> DEFINE m == MergeDefinitions(skillDirs)
           last == Len(skillDirs)
           places == {j \in DOMAIN skillDirs :
                        /\ skillDirs[j].there /\ skillDirs[j].name = name
                        /\ \A k \in DOMAIN skillDirs :
                             k > j /\ skillDirs[k].there => skillDirs[k].name # name}
<1>1. DOMAIN skillDirs = 1 .. last /\ last \in Nat
  OBVIOUS
<1>2. /\ \A n \in DOMAIN m : \E i \in 1 .. last :
           skillDirs[i].name = n /\ LastOf(skillDirs, i, last) /\ m[n] = skillDirs[i]
      /\ \A i \in 1 .. last : skillDirs[i].there => skillDirs[i].name \in DOMAIN m
  BY SkillsMerged DEF MergedUpto
<1>3. InForce(name) = {skillDirs[i] : i \in places}
  BY DEF InForce
<1> HIDE DEF m
<1>4. CASE name \in DOMAIN m
  <2>1. PICK i \in 1 .. last :
          skillDirs[i].name = name /\ LastOf(skillDirs, i, last) /\ m[name] = skillDirs[i]
    BY <1>2, <1>4
  <2>2. i \in places
    BY <1>1, <2>1 DEF LastOf
  <2>3. ASSUME NEW j \in places PROVE j = i
    <3>1. ~(j > i) /\ ~(i > j) /\ j \in Int
      BY <1>1, <2>1, <2>2, <2>3
    <3> QED BY <3>1
  <2> HIDE DEF places
  <2>4. places = {i}
    BY <2>2, <2>3
  <2> QED BY <1>3, <1>4, <2>1, <2>4 DEF m
<1>5. CASE name \notin DOMAIN m
  <2>1. places = {}
    BY <1>1, <1>2, <1>5
  <2> HIDE DEF places
  <2> QED BY <1>3, <1>5, <2>1 DEF m
<1> QED BY <1>4, <1>5

\* Every skill with a file is found.
LEMMA SkillFound ==
    ASSUME NEW found \in Seq(SkillFile), NEW i \in DOMAIN found, found[i].there
    PROVE  found[i].name \in Discovered(found, TRUE)
<1>1. DOMAIN found = 1 .. Len(found)
  OBVIOUS
<1>2. found[i].name \in DOMAIN MergeDefinitions(found)
  BY <1>1, SkillsMerged DEF MergedUpto
<1> QED BY <1>2 DEF Discovered

-----------------------------------------------------------------------------
(***************************************************************************)
(* Templates: what is listed is a file, and every file's name is listed.   *)
(***************************************************************************)

PromptPlaces == DOMAIN PromptNames
TemplateDirs == [TemplateScopes -> [PromptPlaces -> TemplateFile]]
ListedTemplate == [name : {PromptNames[i] : i \in PromptPlaces}, scope : TemplateScopes, there : BOOLEAN,
             body : Bodies \cup {<<>>}, version : Nat]
ReadFrom(t, dirs, i) ==
    /\ PromptNames[i] = t.name
    /\ dirs[t.scope][i] = [there |-> TRUE, body |-> t.body, version |-> t.version]

LEMMA DirLoaded ==
    ASSUME NEW dirs \in TemplateDirs, NEW scope \in TemplateScopes
    PROVE  /\ LoadDir(dirs, scope) \in Seq(ListedTemplate)
           /\ \A k \in DOMAIN LoadDir(dirs, scope) :
                /\ LoadDir(dirs, scope)[k].scope = scope
                /\ \E i \in PromptPlaces : ReadFrom(LoadDir(dirs, scope)[k], dirs, i)
           /\ \A i \in PromptPlaces : dirs[scope][i].there =>
                \E k \in DOMAIN LoadDir(dirs, scope) : LoadDir(dirs, scope)[k].name = PromptNames[i]
<1> DEFINE entry(i) == [name |-> PromptNames[i], scope |-> scope, there |-> dirs[scope][i].there,
                        body |-> dirs[scope][i].body, version |-> dirs[scope][i].version]
           entries == [i \in DOMAIN PromptNames |-> entry(i)]
           places == {i \in DOMAIN entries : entries[i].there}
           listed == ElementsAt(entries, places)
<1>1. LoadDir(dirs, scope) = listed
  BY DEF LoadDir
<1>2. Len(PromptNames) \in Nat /\ DOMAIN PromptNames = 1 .. Len(PromptNames) /\ PromptPlaces = DOMAIN PromptNames
  BY SkillsConstants DEF PromptPlaces
<1>3. \A i \in PromptPlaces : dirs[scope][i] \in TemplateFile
  BY DEF TemplateDirs
<1>4. \A i \in PromptPlaces : entry(i) \in ListedTemplate
  BY <1>3 DEF ListedTemplate, TemplateFile
<1>5. entries \in Seq(ListedTemplate) /\ DOMAIN entries = PromptPlaces /\ \A i \in PromptPlaces : entries[i] = entry(i)
  <2> HIDE DEF entry
  <2>1. entries \in [1 .. Len(PromptNames) -> ListedTemplate]
    BY <1>2, <1>4
  <2> QED BY <1>2, <2>1
<1>6. ASSUME NEW i \in PromptPlaces, dirs[scope][i].there
      PROVE  /\ entry(i).scope = scope /\ entry(i).name = PromptNames[i]
             /\ ReadFrom(entry(i), dirs, i)
  <2>1. dirs[scope][i] = [there |-> TRUE, body |-> dirs[scope][i].body, version |-> dirs[scope][i].version]
    <3>1. dirs[scope][i] \in [there : BOOLEAN, body : Bodies \cup {<<>>}, version : Nat]
      BY <1>3 DEF TemplateFile
    <3> QED BY <1>6, <3>1
  <2> QED BY <2>1 DEF ReadFrom
<1>7. \A i \in PromptPlaces : entry(i).there = dirs[scope][i].there
  OBVIOUS
<1> HIDE DEF entry, entries
<1>8. places \in SUBSET DOMAIN entries
  OBVIOUS
<1>9. places = {i \in PromptPlaces : dirs[scope][i].there}
  BY <1>5, <1>7
<1> HIDE DEF places
<1>10. /\ listed \in Seq(ListedTemplate) /\ Cardinality(places) \in Nat
       /\ DOMAIN listed = 1 .. Cardinality(places)
       /\ \A k \in 1 .. Cardinality(places) :
            PlaceOf(places, k) \in places /\ listed[k] = entries[PlaceOf(places, k)]
  BY <1>5, <1>8, ElementsKept
<1>11. \A i \in places : RankIn(places, i) \in 1 .. Cardinality(places) /\ listed[RankIn(places, i)] = entries[i]
  BY <1>5, <1>8, ElementsInOrder
<1> HIDE DEF listed
<1>12. ASSUME NEW k \in DOMAIN listed
       PROVE  listed[k].scope = scope /\ \E i \in PromptPlaces : ReadFrom(listed[k], dirs, i)
  <2>1. PlaceOf(places, k) \in PromptPlaces /\ dirs[scope][PlaceOf(places, k)].there
        /\ listed[k] = entry(PlaceOf(places, k))
    BY <1>5, <1>9, <1>10
  <2> QED BY <1>6, <2>1
<1>13. ASSUME NEW i \in PromptPlaces, dirs[scope][i].there
       PROVE  \E k \in DOMAIN listed : listed[k].name = PromptNames[i]
  <2>1. i \in places
    BY <1>9, <1>13
  <2>2. listed[RankIn(places, i)] = entry(i) /\ RankIn(places, i) \in DOMAIN listed
    BY <1>5, <1>10, <1>11, <2>1
  <2> QED BY <1>6, <1>13, <2>2
<1> QED BY <1>1, <1>10, <1>12, <1>13

\* Named yields the templates with a name.
LEMMA NamedFound ==
    ASSUME NEW list \in Seq(ListedTemplate), NEW name
    PROVE  /\ Named(list, name) # <<>> =>
                \E k \in DOMAIN list : list[k].name = name /\ Named(list, name)[1] = list[k]
           /\ Named(list, name) = <<>> => \A k \in DOMAIN list : list[k].name # name
<1> DEFINE places == {i \in DOMAIN list : list[i].name = name}
<1>1. Named(list, name) = ElementsAt(list, places)
  BY DEF Named
<1>2. places \in SUBSET DOMAIN list /\ \A i \in DOMAIN list : i \in places <=> list[i].name = name
  OBVIOUS
<1> HIDE DEF places
<1> QED BY <1>1, <1>2, FirstElement

\* A listed template is the file of its name and scope, the project's if it has one.
OnDisk(t, dirs) ==
    \E i \in PromptPlaces : ReadFrom(t, dirs, i) /\ (t.scope = "global" => ~dirs["project"][i].there)

LEMMA TemplatesLoaded ==
    ASSUME NEW dirs \in TemplateDirs
    PROVE  /\ LoadTemplates(dirs) \in Seq(ListedTemplate)
           /\ \A k \in DOMAIN LoadTemplates(dirs) : OnDisk(LoadTemplates(dirs)[k], dirs)
           /\ \A scope \in TemplateScopes, i \in PromptPlaces : dirs[scope][i].there =>
                \E k \in DOMAIN LoadTemplates(dirs) : LoadTemplates(dirs)[k].name = PromptNames[i]
<1> DEFINE global == LoadDir(dirs, "global")
           project == LoadDir(dirs, "project")
           chosen(t) == IF Named(project, t.name) = <<>> THEN t ELSE Named(project, t.name)[1]
           first == [i \in DOMAIN global |-> chosen(global[i])]
           places == {i \in DOMAIN project : Named(global, project[i].name) = <<>>}
           second == ElementsAt(project, places)
<1>1. LoadTemplates(dirs) = first \o second
  BY DEF LoadTemplates
<1>2. "global" \in TemplateScopes /\ "project" \in TemplateScopes
      /\ \A scope \in TemplateScopes : scope = "global" \/ scope = "project"
  BY DEF TemplateScopes
<1>3. /\ global \in Seq(ListedTemplate)
      /\ \A k \in DOMAIN global : global[k].scope = "global" /\ \E i \in PromptPlaces : ReadFrom(global[k], dirs, i)
      /\ \A i \in PromptPlaces : dirs["global"][i].there => \E k \in DOMAIN global : global[k].name = PromptNames[i]
  BY <1>2, DirLoaded
<1>4. /\ project \in Seq(ListedTemplate)
      /\ \A k \in DOMAIN project : project[k].scope = "project" /\ \E i \in PromptPlaces : ReadFrom(project[k], dirs, i)
      /\ \A i \in PromptPlaces : dirs["project"][i].there => \E k \in DOMAIN project : project[k].name = PromptNames[i]
  BY <1>2, DirLoaded
<1> HIDE DEF global, project
<1>5. ASSUME NEW k \in DOMAIN project PROVE OnDisk(project[k], dirs)
  BY <1>4 DEF OnDisk
<1>6. ASSUME NEW k \in DOMAIN global
      PROVE  /\ chosen(global[k]) \in ListedTemplate /\ OnDisk(chosen(global[k]), dirs)
             /\ chosen(global[k]).name = global[k].name
  <2>1. CASE Named(project, global[k].name) = <<>>
    <3>1. PICK i \in PromptPlaces : ReadFrom(global[k], dirs, i)
      BY <1>3
    <3>2. ~dirs["project"][i].there
      <4>1. PromptNames[i] = global[k].name
        BY <3>1 DEF ReadFrom
      <4> QED BY <1>4, <2>1, <4>1, NamedFound
    <3>3. OnDisk(global[k], dirs)
      BY <3>1, <3>2 DEF OnDisk
    <3> QED BY <1>3, <2>1, <3>3
  <2>2. CASE Named(project, global[k].name) # <<>>
    <3>1. PICK j \in DOMAIN project :
            project[j].name = global[k].name /\ Named(project, global[k].name)[1] = project[j]
      BY <1>4, <2>2, NamedFound
    <3> QED BY <1>4, <1>5, <2>2, <3>1
  <2> QED BY <2>1, <2>2
<1>7. /\ DOMAIN global = 1 .. Len(global) /\ Len(global) \in Nat
      /\ first \in Seq(ListedTemplate) /\ Len(first) = Len(global)
      /\ \A k \in 1 .. Len(global) : first[k] = chosen(global[k])
  <2>1. DOMAIN global = 1 .. Len(global) /\ Len(global) \in Nat
    BY <1>3
  <2>2. \A k \in 1 .. Len(global) : chosen(global[k]) \in ListedTemplate
    BY <1>6, <2>1
  <2> HIDE DEF chosen
  <2>3. first \in [1 .. Len(global) -> ListedTemplate]
    BY <2>1, <2>2
  <2> QED BY <2>1, <2>3
<1> HIDE DEF chosen, first
<1>8. places \in SUBSET DOMAIN project
  OBVIOUS
<1>9. \A j \in DOMAIN project : j \notin places => \E k \in DOMAIN global : global[k].name = project[j].name
  BY <1>3, NamedFound
<1> HIDE DEF places
<1>10. /\ second \in Seq(ListedTemplate) /\ Len(second) = Cardinality(places) /\ Cardinality(places) \in Nat
       /\ \A n \in 1 .. Cardinality(places) :
            PlaceOf(places, n) \in places /\ second[n] = project[PlaceOf(places, n)]
  BY <1>4, <1>8, ElementsKept
<1>11. \A j \in places : RankIn(places, j) \in 1 .. Cardinality(places) /\ second[RankIn(places, j)] = project[j]
  BY <1>4, <1>8, ElementsInOrder
<1> HIDE DEF second
<1> DEFINE list == first \o second
<1>12. /\ list \in Seq(ListedTemplate) /\ Len(list) = Len(first) + Len(second) /\ DOMAIN list = 1 .. Len(list)
       /\ \A k \in 1 .. Len(first) : list[k] = first[k]
       /\ \A k \in 1 .. Len(second) : list[Len(first) + k] = second[k]
  <2>1. first \in Seq(ListedTemplate) /\ second \in Seq(ListedTemplate)
    BY <1>7, <1>10
  <2>2. \A u, v \in Seq(ListedTemplate) :
          /\ u \o v \in Seq(ListedTemplate) /\ Len(u \o v) = Len(u) + Len(v) /\ DOMAIN (u \o v) = 1 .. Len(u \o v)
          /\ \A k \in 1 .. Len(u) : (u \o v)[k] = u[k]
          /\ \A k \in 1 .. Len(v) : (u \o v)[Len(u) + k] = v[k]
    OBVIOUS
  <2> QED BY <2>1, <2>2
<1> HIDE DEF list
<1>13. ASSUME NEW k \in DOMAIN list PROVE OnDisk(list[k], dirs)
  <2>1. CASE k \in 1 .. Len(first)
    BY <1>6, <1>7, <1>12, <2>1
  <2>2. CASE k \notin 1 .. Len(first)
    <3>1. k - Len(first) \in 1 .. Len(second) /\ Len(first) + (k - Len(first)) = k
      BY <1>7, <1>10, <1>12, <2>2
    <3>2. list[k] = second[k - Len(first)]
      BY <1>12, <3>1
    <3> QED BY <1>5, <1>8, <1>10, <3>1, <3>2
  <2> QED BY <2>1, <2>2
<1>14. ASSUME NEW k \in DOMAIN global PROVE \E n \in DOMAIN list : list[n].name = global[k].name
  <2>1. k \in DOMAIN list /\ list[k] = chosen(global[k])
    BY <1>7, <1>10, <1>12
  <2> QED BY <1>6, <2>1
<1>15. ASSUME NEW j \in DOMAIN project PROVE \E n \in DOMAIN list : list[n].name = project[j].name
  <2>1. CASE j \in places
    <3> DEFINE n == RankIn(places, j)
    <3>1. n \in 1 .. Len(second) /\ second[n] = project[j]
      BY <1>10, <1>11, <2>1
    <3> HIDE DEF n
    <3>2. Len(first) + n \in DOMAIN list /\ list[Len(first) + n] = project[j]
      BY <1>7, <1>10, <1>12, <3>1
    <3> QED BY <3>2
  <2>2. CASE j \notin places
    BY <1>9, <1>14, <2>2
  <2> QED BY <2>1, <2>2
<1>16. ASSUME NEW scope \in TemplateScopes, NEW i \in PromptPlaces, dirs[scope][i].there
       PROVE  \E n \in DOMAIN list : list[n].name = PromptNames[i]
  <2>1. CASE scope = "global"
    BY <1>3, <1>14, <1>16, <2>1
  <2>2. CASE scope = "project"
    BY <1>4, <1>15, <1>16, <2>2
  <2> QED BY <1>2, <2>1, <2>2
<1> QED BY <1>1, <1>12, <1>13, <1>16 DEF list

-----------------------------------------------------------------------------
(***************************************************************************)
(* Placeholders: each yields the part of the arguments it means, and only  *)
(* a length next to MaxInt makes one panic.                                *)
(***************************************************************************)

Counts(p) == p.from \in 0 .. MaxInt /\ p.count \in 0 .. MaxInt

\* What the end of a slice comes to.
LEMMA SliceBounds ==
    ASSUME NEW args, Len(args) \in Nat, NEW p, Counts(p)
    PROVE  /\ SliceStart(p) \in Nat /\ SliceStart(p) = IF p.from < 1 THEN 0 ELSE p.from - 1
           /\ SliceEnd(p, args) \in Int
           /\ p.mark = "rest" => SliceEnd(p, args) = Len(args)
           /\ p.mark # "rest" /\ SliceStart(p) + p.count <= MaxInt =>
                SliceEnd(p, args) = IF SliceStart(p) + p.count > Len(args) THEN Len(args)
                                    ELSE SliceStart(p) + p.count
           /\ p.mark # "rest" /\ SliceStart(p) + p.count > MaxInt =>
                SliceEnd(p, args) < 0 /\ p.from - 1 + p.count > MaxInt
<1> DEFINE start == SliceStart(p)
           n == start + p.count
<1>1. MaxInt \in Nat /\ p.from \in Nat /\ p.count \in Nat /\ p.from <= MaxInt /\ p.count <= MaxInt
  BY SkillsConstants DEF Counts
<1>2. start = IF p.from < 1 THEN 0 ELSE p.from - 1
  BY DEF SliceStart
<1> HIDE DEF start
<1>3. start \in Nat /\ n \in Nat /\ start <= MaxInt /\ (n > MaxInt => p.from - 1 + p.count > MaxInt /\ start < MaxInt)
  BY <1>1, <1>2
<1>4. Wrapped(n) = IF n > MaxInt THEN n - 2 * (MaxInt + 1) ELSE n
  BY DEF Wrapped
<1>5. SliceEnd(p, args) = IF p.mark = "rest" \/ Wrapped(n) > Len(args) THEN Len(args) ELSE Wrapped(n)
  BY DEF SliceEnd, start
<1>6. Wrapped(n) \in Int /\ (n <= MaxInt => Wrapped(n) = n) /\ (n > MaxInt => Wrapped(n) < 0)
  BY <1>1, <1>3, <1>4
<1>7. ~(n <= MaxInt) => n > MaxInt
  BY <1>1, <1>3
<1> HIDE DEF n
<1>8. SliceEnd(p, args) \in Int /\ (p.mark = "rest" => SliceEnd(p, args) = Len(args))
  BY <1>5, <1>6
<1>9. p.mark # "rest" /\ n <= MaxInt =>
        SliceEnd(p, args) = IF n > Len(args) THEN Len(args) ELSE n
  BY <1>5, <1>6
<1>10. p.mark # "rest" /\ n > MaxInt => SliceEnd(p, args) < 0
  BY <1>5, <1>6
<1> QED BY <1>2, <1>3, <1>8, <1>9, <1>10 DEF n, start

LEMMA PanicMeant ==
    ASSUME NEW args, Len(args) \in Nat, NEW p, Counts(p), Panics(p, args)
    PROVE  IsSlice(p) /\ p.from - 1 + p.count > MaxInt
<1>1. IsSlice(p) /\ SliceStart(p) < Len(args) /\ SliceEnd(p, args) < SliceStart(p)
  BY DEF Panics
<1>2. MaxInt \in Nat /\ p.count \in Nat
  BY SkillsConstants DEF Counts
<1> QED BY <1>1, <1>2, SliceBounds

\* The numbers of a slice: from f, c many or the rest, of L arguments; it goes from
\* s on to e, which lies before s only when there is nothing to take.
SliceNumbers(L, f, c, s, e, rest) ==
    /\ L \in Nat /\ f \in Nat /\ c \in Nat /\ s \in Nat /\ e \in Int /\ rest \in BOOLEAN
    /\ s = IF f < 1 THEN 0 ELSE f - 1
    /\ rest => e = L
    /\ ~rest => e = (IF s + c > L THEN L ELSE s + c) \/ e < 0
    /\ ~(s < L /\ e < s)
SliceTaken(L, f, c, s, e, rest) ==
    /\ e >= 0 => /\ e \in 0 .. L
                 /\ \A i \in 1 .. L : (i >= f /\ (~rest => i < (IF f < 1 THEN 1 ELSE f) + c))
                                        <=> i \in (s + 1) .. e
    /\ e < 0 => e < s + 1 /\ \A i \in 1 .. L : ~(i >= f)

LEMMA NumbersTaken ==
    ASSUME NEW L, NEW f, NEW c, NEW s, NEW e, NEW rest, SliceNumbers(L, f, c, s, e, rest)
    PROVE  SliceTaken(L, f, c, s, e, rest)
<1> USE DEF SliceNumbers
<1>1. ASSUME e >= 0, NEW i \in 1 .. L
      PROVE  (i >= f /\ (~rest => i < (IF f < 1 THEN 1 ELSE f) + c)) <=> i \in (s + 1) .. e
  <2>1. CASE rest
    BY <1>1, <2>1
  <2>2. CASE ~rest
    <3>1. e = IF s + c > L THEN L ELSE s + c
      BY <1>1, <2>2
    <3> QED BY <1>1, <2>2, <3>1
  <2> QED BY <2>1, <2>2
<1>2. e >= 0 => e \in 0 .. L
  OBVIOUS
<1>3. e < 0 => e < s + 1 /\ \A i \in 1 .. L : ~(i >= f)
  OBVIOUS
<1> QED BY <1>1, <1>2, <1>3 DEF SliceTaken

LEMMA SliceMeant ==
    ASSUME NEW args \in Seq(Words), NEW p, Counts(p), ~Panics(p, args)
    PROVE  Substituted(p, args) = Meaning(p, args)
<1> DEFINE start == SliceStart(p)
           end == SliceEnd(p, args)
           named == {i \in DOMAIN args : i >= p.from /\ (p.mark = "slice" =>
                       i < (IF p.from < 1 THEN 1 ELSE p.from) + p.count)}
<1>1. CASE ~IsSlice(p)
  BY <1>1 DEF Meaning
<1>2. CASE IsSlice(p)
  <2>1. /\ Len(args) \in Nat /\ DOMAIN args = 1 .. Len(args) /\ p.from \in Nat /\ p.count \in Nat /\ MaxInt \in Nat
    BY SkillsConstants DEF Counts
  <2>2. p.mark \in {"slice", "rest"}
    BY <1>2 DEF IsSlice
  <2>3. Meaning(p, args) = ElementsAt(args, named)
    BY <1>2 DEF Meaning
  <2>4. Substituted(p, args) = SubSeq(args, start + 1, end)
    BY <2>2 DEF Substituted
  <2>5. /\ start \in Nat /\ start = (IF p.from < 1 THEN 0 ELSE p.from - 1) /\ end \in Int
        /\ p.mark = "rest" => end = Len(args)
        /\ p.mark # "rest" /\ start + p.count <= MaxInt =>
             end = IF start + p.count > Len(args) THEN Len(args) ELSE start + p.count
        /\ p.mark # "rest" /\ start + p.count > MaxInt => end < 0
    BY <2>1, SliceBounds
  <2> DEFINE rest == p.mark = "rest"
  <2>9. /\ end >= 0 =>
             /\ end \in 0 .. Len(args)
             /\ \A i \in 1 .. Len(args) :
                  (i >= p.from /\ (~rest => i < (IF p.from < 1 THEN 1 ELSE p.from) + p.count))
                    <=> i \in (start + 1) .. end
        /\ end < 0 => end < start + 1 /\ \A i \in 1 .. Len(args) : ~(i >= p.from)
    <3>1. rest \in BOOLEAN /\ (rest => end = Len(args)) /\ ~(start < Len(args) /\ end < start)
      BY <1>2, <2>5 DEF Panics
    <3>2. ~rest => end = (IF start + p.count > Len(args) THEN Len(args) ELSE start + p.count) \/ end < 0
      BY <2>1, <2>5
    <3> HIDE DEF rest, start, end
    <3>3. SliceNumbers(Len(args), p.from, p.count, start, end, rest)
      BY <2>1, <2>5, <3>1, <3>2 DEF SliceNumbers
    <3>4. SliceTaken(Len(args), p.from, p.count, start, end, rest)
      BY <3>3, NumbersTaken
    <3> QED BY <3>4 DEF SliceTaken
  <2>10. ~rest <=> p.mark = "slice"
    BY <2>2
  <2> HIDE DEF start, end
  <2>7. CASE end >= 0
    <3>1. end \in 0 .. Len(args) /\ \A i \in (start + 1) .. end : i \in 1 .. Len(args)
      BY <2>5, <2>7, <2>9
    <3>6. named = (start + 1) .. end
      BY <2>1, <2>7, <2>9, <2>10, <3>1
    <3> HIDE DEF named
    <3>8. start + 1 \in Nat \ {0}
      BY <2>5
    <3>9. ElementsAt(args, (start + 1) .. end) = SubSeq(args, start + 1, end)
      BY <3>1, <3>8, ElementsBetween
    <3> QED BY <2>3, <2>4, <3>6, <3>9
  <2>8. CASE end < 0
    <3>1. start + 1 \in Int /\ end < start + 1 /\ \A i \in 1 .. Len(args) : ~(i >= p.from)
      BY <2>5, <2>8, <2>9
    <3>2. SubSeq(args, start + 1, end) = <<>>
      BY <2>5, <3>1, SubSeqEmpty
    <3>4. named = {}
      BY <2>1, <3>1
    <3> HIDE DEF named
    <3>5. ElementsAt(args, {}) \in Seq(Words) /\ Len(ElementsAt(args, {})) = Cardinality({})
      BY ElementsKept
    <3>6. ElementsAt(args, {}) = <<>>
      BY <3>5, FS_EmptySet
    <3> QED BY <2>3, <2>4, <3>2, <3>4, <3>6
  <2> QED BY <2>5, <2>7, <2>8
<1> QED BY <1>1, <1>2

LEMMA BodyMeant ==
    ASSUME NEW args \in Seq(Words), NEW body, \A i \in DOMAIN body : Counts(body[i]) /\ ~Panics(body[i], args)
    PROVE  Substitution(body, args) = [i \in DOMAIN body |-> Meaning(body[i], args)]
<1>1. \A i \in DOMAIN body : Substituted(body[i], args) = Meaning(body[i], args)
  BY SliceMeant
<1> QED BY <1>1 DEF Substitution

-----------------------------------------------------------------------------
(***************************************************************************)
(* The invariant: the prompt names what the session found, and the list is *)
(* made of the files that were there when it was made.                     *)
(***************************************************************************)

Listing(s) == [loaded |-> TRUE, templates |-> LoadTemplates(s.templates), skills |-> Discovered(s.skills, TRUE)]
Listings == [templates : TemplateDirs, skills : Seq(SkillFile)]
SkillsInvariant ==
    /\ skillDirs \in Seq(SkillFile) /\ templateDirs \in TemplateDirs /\ fileWrites \in Nat
    /\ prompted = Discovered(started, FALSE)
    /\ slashList.loaded => seen \in Listings /\ slashList = Listing(seen)
SkillsStep ==
    asked' # asked =>
      IF cameTo'.by = "user" THEN UserGets(cameTo')
      ELSE \A name \in DOMAIN SkillKeyOf : SkillKeyOf[name] = cameTo'.key => AgentGets(cameTo', name)

\* Making the list, or having it.
LEMMA ListMade ==
    ASSUME SkillsInvariant, EnsureListed
    PROVE  /\ slashList' = Ensured /\ seen' \in Listings /\ Ensured = Listing(seen')
           /\ slashList'.loaded
<1>1. CASE slashList.loaded
  BY <1>1 DEF SkillsInvariant, EnsureListed, Ensured, Listing
<1>2. CASE ~slashList.loaded
  <2> DEFINE new == [templates |-> templateDirs, skills |-> skillDirs]
  <2>1. seen' = new
    BY <1>2 DEF EnsureListed
  <2>2. new \in Listings /\ new.templates = templateDirs /\ new.skills = skillDirs
    BY DEF SkillsInvariant, Listings
  <2> HIDE DEF new
  <2>3. Ensured = Listing(new)
    BY <1>2, <2>2 DEF Ensured, Listing
  <2>4. Listing(new).loaded
    BY DEF Listing
  <2> QED BY <2>1, <2>2, <2>3, <2>4 DEF EnsureListed
<1> QED BY <1>1, <1>2

LEMMA UseKept ==
    ASSUME SkillsInvariant, NEW key, UseCommand(key)
    PROVE  SkillsInvariant'
<1>1. /\ EnsureListed
      /\ UNCHANGED <<skillDirs, templateDirs, prompted, fileWrites, started>>
  BY DEF UseCommand
<1>2. slashList' = Listing(seen') /\ seen' \in Listings
  BY <1>1, ListMade
<1> QED BY <1>1, <1>2 DEF SkillsInvariant

\* What a key names in the list.
LEMMA TemplatesFound ==
    ASSUME SkillsInvariant, EnsureListed, NEW key
    PROVE  /\ TemplatesOf(key) # <<>> =>
                /\ TemplatesOf(key)[1] \in ListedTemplate /\ KeyOf[TemplatesOf(key)[1].name] = key
                /\ OnDisk(TemplatesOf(key)[1], seen'.templates)
           /\ TemplatesOf(key) = <<>> =>
                ~\E scope \in TemplateScopes, i \in PromptPlaces :
                   KeyOf[PromptNames[i]] = key /\ seen'.templates[scope][i].there
<1> DEFINE dirs == seen'.templates
           list == LoadTemplates(dirs)
           places == {i \in DOMAIN list : KeyOf[list[i].name] = key}
<1>1. seen' \in Listings /\ Ensured = Listing(seen')
  BY ListMade
<1>2. dirs \in TemplateDirs /\ Ensured.templates = list
  BY <1>1 DEF Listings, Listing
<1>3. TemplatesOf(key) = ElementsAt(list, places)
  BY <1>2 DEF TemplatesOf
<1> HIDE DEF dirs
<1>4. /\ list \in Seq(ListedTemplate) /\ \A k \in DOMAIN list : OnDisk(list[k], dirs)
      /\ \A scope \in TemplateScopes, i \in PromptPlaces : dirs[scope][i].there =>
                \E k \in DOMAIN list : list[k].name = PromptNames[i]
  BY <1>2, TemplatesLoaded
<1> HIDE DEF list
<1>5. places \in SUBSET DOMAIN list /\ \A i \in DOMAIN list : i \in places <=> KeyOf[list[i].name] = key
  OBVIOUS
<1> HIDE DEF places
<1>6. /\ ElementsAt(list, places) # <<>> => \E i \in places : ElementsAt(list, places)[1] = list[i]
      /\ ElementsAt(list, places) = <<>> => places = {}
  BY <1>4, <1>5, FirstElement
<1>7. ASSUME TemplatesOf(key) # <<>>
      PROVE  /\ TemplatesOf(key)[1] \in ListedTemplate /\ KeyOf[TemplatesOf(key)[1].name] = key
             /\ OnDisk(TemplatesOf(key)[1], dirs)
  <2>1. PICK i \in places : TemplatesOf(key)[1] = list[i]
    BY <1>3, <1>6, <1>7
  <2>2. i \in DOMAIN list /\ KeyOf[list[i].name] = key
    BY <1>5
  <2> QED BY <1>4, <2>1, <2>2
<1>8. ASSUME TemplatesOf(key) = <<>>, NEW scope \in TemplateScopes, NEW i \in PromptPlaces,
             KeyOf[PromptNames[i]] = key, dirs[scope][i].there
      PROVE  FALSE
  <2>1. PICK k \in DOMAIN list : list[k].name = PromptNames[i]
    BY <1>4, <1>8
  <2>2. places = {}
    BY <1>3, <1>6, <1>8
  <2> QED BY <1>5, <1>8, <2>1, <2>2
<1> QED BY <1>7, <1>8 DEF dirs

-----------------------------------------------------------------------------
(***************************************************************************)
(* Commands: what each of them comes to.                                   *)
(***************************************************************************)

\* An outcome without a text, of a command that is none of the others' business.
LEMMA PlainOutcome ==
    ASSUME NEW by, NEW key, NEW kind, NEW from
    PROVE  LET o == Came(by, key, kind, from)
           IN  /\ o.by = by /\ o.key = key /\ o.kind = kind /\ o.from = from
               /\ o.args = <<>> /\ o.text = <<>>
BY DEF Came, Outcome

LEMMA BuiltinMeant ==
    ASSUME NEW key, RunBuiltin(key)
    PROVE  UserGets(cameTo') /\ cameTo'.by = "user"
<1> DEFINE o == Came("user", key, "builtin", {})
<1>1. key \in BuiltinKeys /\ cameTo' = o
  BY DEF RunBuiltin
<1>2. o.by = "user" /\ o.key = key /\ o.kind = "builtin" /\ o.args = <<>> /\ o.text = <<>>
  BY PlainOutcome
<1> HIDE DEF o
<1> QED BY <1>1, <1>2 DEF UserGets

LEMMA UnknownMeant ==
    ASSUME SkillsInvariant, NEW key, RunUnknown(key)
    PROVE  UserGets(cameTo') /\ cameTo'.by = "user"
<1> DEFINE o == Came("user", key, "unknown", {})
<1>1. /\ key \notin BuiltinKeys /\ cameTo' = o /\ EnsureListed
      /\ TemplatesOf(key) = <<>> /\ ~IsSkillKey(key)
  BY DEF RunUnknown, UseCommand
<1>2. o.by = "user" /\ o.key = key /\ o.kind = "unknown" /\ o.args = <<>> /\ o.text = <<>>
  BY PlainOutcome
<1> HIDE DEF o
<1>3. ~\E scope \in TemplateScopes, i \in PromptPlaces :
         KeyOf[PromptNames[i]] = key /\ seen'.templates[scope][i].there
  BY <1>1, TemplatesFound
<1>4. ~\E i \in DOMAIN seen'.skills : seen'.skills[i].there /\ SkillKeyOf[seen'.skills[i].name] = key
  <2>1. seen' \in Listings /\ Ensured = Listing(seen')
    BY <1>1, ListMade
  <2>2. seen'.skills \in Seq(SkillFile) /\ Ensured.skills = Discovered(seen'.skills, TRUE)
    BY <2>1 DEF Listings, Listing
  <2>3. \A n \in Discovered(seen'.skills, TRUE) : SkillKeyOf[n] # key
    BY <1>1, <2>2 DEF IsSkillKey
  <2> QED BY <2>2, <2>3, SkillFound
<1>5. ~SomeFile(key)
  BY <1>3, <1>4 DEF SomeFile, PromptPlaces
<1> QED BY <1>1, <1>2, <1>5 DEF UserGets

LEMMA SkillMeant ==
    ASSUME SkillsInvariant, NEW name \in DOMAIN SkillKeyOf, RunSkill(name)
    PROVE  UserGets(cameTo') /\ cameTo'.by = "user"
<1> DEFINE key == SkillKeyOf[name]
           m == MergeDefinitions(skillDirs)
           used == Came("user", key, "skill", {m[name]})
           refused == Came("user", key, "refused", {})
<1>1. /\ key \notin BuiltinKeys
      /\ \/ name \in DOMAIN m /\ m[name].valid /\ cameTo' = used
         \/ (name \in DOMAIN m => ~m[name].valid) /\ cameTo' = refused
  BY DEF RunSkill, Refused
<1>2. InForce(name) = IF name \in DOMAIN m THEN {m[name]} ELSE {}
  BY MergedInForce DEF SkillsInvariant
<1>3. /\ used.by = "user" /\ used.key = key /\ used.kind = "skill" /\ used.from = {m[name]}
      /\ used.args = <<>> /\ used.text = <<>>
  BY PlainOutcome
<1>4. /\ refused.by = "user" /\ refused.key = key /\ refused.kind = "refused" /\ refused.from = {}
      /\ refused.args = <<>> /\ refused.text = <<>>
  BY PlainOutcome
<1>5. CASE name \in DOMAIN m /\ m[name].valid /\ cameTo' = used
  <2> HIDE DEF used, refused, m
  <2> QED BY <1>1, <1>2, <1>3, <1>5 DEF UserGets
<1>6. CASE (name \in DOMAIN m => ~m[name].valid) /\ cameTo' = refused
  <2> HIDE DEF used, refused, m
  <2> QED BY <1>1, <1>2, <1>4, <1>6 DEF UserGets
<1> QED BY <1>1, <1>5, <1>6

\* A template, with the arguments the user had in mind.
LEMMA WiderSeq ==
    ASSUME NEW S, NEW T, \A x \in S : x \in T, NEW a \in Seq(S)
    PROVE  a \in Seq(T)
<1>1. a \in [1 .. Len(a) -> S] /\ Len(a) \in Nat
  OBVIOUS
<1>2. a \in [1 .. Len(a) -> T]
  BY <1>1
<1> QED BY <1>1, <1>2

LEMMA ArgumentsTyped ==
    ASSUME NEW args \in ArgLists
    PROVE  args \in Seq(Words) /\ \A n \in DOMAIN args : OneQuote(args[n])
<1>1. args \in Seq(Seq(STRING)) /\ \A n \in DOMAIN args : OneQuote(args[n])
  BY SkillsConstants DEF OneQuote
<1>2. \A a \in Seq(STRING) : a \in Words
  <2>1. \A x \in STRING : x \in Letters
    BY Zenon DEF Letters
  <2> QED BY <2>1, WiderSeq DEF Words
<1> QED BY <1>1, <1>2, WiderSeq

LEMMA TextOf ==
    ASSUME NEW o, NEW t, o.from = {t}
    PROVE  TextMeant(o) <=>
             IF o.kind = "panic"
             THEN \E i \in DOMAIN t.body :
                    IsSlice(t.body[i]) /\ t.body[i].from - 1 + t.body[i].count > MaxInt
             ELSE o.text = [i \in DOMAIN t.body |->
                              Meaning(t.body[i], ElementsAt(o.args, {n \in DOMAIN o.args : o.args[n] # <<>>}))]
<1>1. (CHOOSE x \in o.from : TRUE) = t
  OBVIOUS
<1> DEFINE chosen == CHOOSE x \in o.from : TRUE
           args == ElementsAt(o.args, {n \in DOMAIN o.args : o.args[n] # <<>>})
<1>2. TextMeant(o) <=>
        IF o.kind = "panic"
        THEN \E i \in DOMAIN chosen.body :
               IsSlice(chosen.body[i]) /\ chosen.body[i].from - 1 + chosen.body[i].count > MaxInt
        ELSE o.text = [i \in DOMAIN chosen.body |-> Meaning(chosen.body[i], args)]
  BY Zenon DEF TextMeant
<1>3. chosen = t
  BY <1>1
<1> HIDE DEF chosen, args
<1>4. TextMeant(o) <=>
        IF o.kind = "panic"
        THEN \E i \in DOMAIN t.body :
               IsSlice(t.body[i]) /\ t.body[i].from - 1 + t.body[i].count > MaxInt
        ELSE o.text = [i \in DOMAIN t.body |-> Meaning(t.body[i], args)]
  BY <1>2, <1>3
<1> QED BY <1>4 DEF args

LEMMA TemplateMeant ==
    ASSUME SkillsInvariant, NEW key, NEW args \in ArgLists, NEW always \in BOOLEAN,
           RunTemplate(key, args, always)
    PROVE  UserGets(cameTo') /\ cameTo'.by = "user"
<1> DEFINE t == TemplatesOf(key)[1]
           parsed == ParseArgs(CommandLine(args, always))
           text == Substitution(t.body, parsed)
           o(kind, s) == Outcome("user", key, kind, {t}, args, s)
           meant == ElementsAt(args, {i \in DOMAIN args : args[i] # <<>>})
<1>1. /\ key \notin BuiltinKeys /\ TemplatesOf(key) # <<>> /\ EnsureListed
      /\ \/ (\E i \in DOMAIN t.body : Panics(t.body[i], parsed)) /\ cameTo' = o("panic", <<>>)
         \/ (\A i \in DOMAIN t.body : ~Panics(t.body[i], parsed)) /\ cameTo' = o("refused", text)
         \/ (\A i \in DOMAIN t.body : ~Panics(t.body[i], parsed)) /\ cameTo' = o("template", text)
  BY DEF RunTemplate, UseCommand
<1>2. t \in ListedTemplate /\ KeyOf[t.name] = key /\ OnDisk(t, seen'.templates)
  BY <1>1, TemplatesFound
<1>3. parsed = meant /\ meant \in Seq(Words)
  <2>1. args \in Seq(Words) /\ \A n \in DOMAIN args : OneQuote(args[n])
    BY ArgumentsTyped
  <2>2. parsed = meant
    BY <2>1, LineParsed
  <2>3. {i \in DOMAIN args : args[i] # <<>>} \in SUBSET DOMAIN args
    OBVIOUS
  <2>4. meant \in Seq(Words)
    BY <2>1, <2>3, ElementsKept
  <2> QED BY <2>2, <2>4
<1>4. \A i \in DOMAIN t.body : Counts(t.body[i])
  <2>1. t.body \in Bodies \cup {<<>>}
    BY <1>2 DEF ListedTemplate
  <2>2. \A body \in Bodies : \A i \in DOMAIN body : Counts(body[i])
    BY SkillsConstants DEF Counts
  <2>3. DOMAIN <<>> = {}
    OBVIOUS
  <2> QED BY <2>1, <2>2, <2>3
<1>5. OnDisk(t, seen'.templates) => OnTheList(t)
  BY DEF OnDisk, OnTheList, ReadFrom, PromptPlaces
<1> HIDE DEF t, parsed
<1>6. \A kind, s : /\ o(kind, s).by = "user" /\ o(kind, s).key = key /\ o(kind, s).kind = kind
                   /\ o(kind, s).from = {t} /\ o(kind, s).args = args /\ o(kind, s).text = s
  BY DEF Outcome
<1> HIDE DEF o
<1>8. ASSUME NEW i \in DOMAIN t.body, Panics(t.body[i], parsed), cameTo' = o("panic", <<>>)
      PROVE  UserGets(cameTo') /\ cameTo'.by = "user"
  <2>1. IsSlice(t.body[i]) /\ t.body[i].from - 1 + t.body[i].count > MaxInt
    <3>1. Len(parsed) \in Nat
      BY <1>3
    <3> QED BY <1>4, <1>8, <3>1, PanicMeant
  <2> DEFINE p == o("panic", <<>>)
  <2>2. p.kind = "panic" /\ p.from = {t} /\ p.key = key /\ p.by = "user"
    BY <1>6
  <2> HIDE DEF p
  <2>3. TextMeant(p)
    <3>1. \E n \in DOMAIN t.body : IsSlice(t.body[n]) /\ t.body[n].from - 1 + t.body[n].count > MaxInt
      BY <2>1
    <3> QED BY <2>2, <3>1, TextOf
  <2>4. UserGets(p)
    BY <1>1, <2>2, <2>3 DEF UserGets
  <2> QED BY <1>8, <2>2, <2>4 DEF p
<1>9. ASSUME \A i \in DOMAIN t.body : ~Panics(t.body[i], parsed), NEW kind \in {"refused", "template"},
             cameTo' = o(kind, text)
      PROVE  UserGets(cameTo') /\ cameTo'.by = "user"
  <2>1. text = [i \in DOMAIN t.body |-> Meaning(t.body[i], parsed)]
    BY <1>3, <1>4, <1>9, BodyMeant
  <2> DEFINE p == o(kind, text)
  <2>2. p.kind # "panic" /\ p.text = text /\ p.args = args /\ p.from = {t} /\ p.key = key /\ p.kind = kind
        /\ p.by = "user"
    BY <1>6, <1>9
  <2> HIDE DEF p, text
  <2>3. TextMeant(p)
    <3>1. p.text = [i \in DOMAIN t.body |->
                      Meaning(t.body[i], ElementsAt(p.args, {n \in DOMAIN p.args : p.args[n] # <<>>}))]
      BY <1>3, <2>1, <2>2
    <3> QED BY <2>2, <3>1, TextOf
  <2>4. UserGets(p)
    BY <1>1, <1>2, <1>5, <1>9, <2>2, <2>3 DEF UserGets
  <2> QED BY <1>9, <2>2, <2>4 DEF p
<1> QED BY <1>1, <1>8, <1>9

\* A skill the model calls.
LEMMA CallMeant ==
    ASSUME SkillsInvariant, NEW called \in DOMAIN SkillKeyOf, CallSkill(called)
    PROVE  /\ cameTo'.by # "user"
           /\ \A name \in DOMAIN SkillKeyOf : SkillKeyOf[name] = cameTo'.key => AgentGets(cameTo', name)
<1> DEFINE key == SkillKeyOf[called]
           m == MergeDefinitions(skillDirs)
           given == /\ skillTurn.calls < MaxNestingDepth
                    /\ called \in DOMAIN m /\ ~m[called].hidden /\ m[called].inline
           used == Came("agent", key, "skill", {m[called]})
           refused == Came("agent", key, "refused", {})
<1>1. (given /\ cameTo' = used) \/ (~given /\ cameTo' = refused)
  BY DEF CallSkill, Refused
<1>2. InForce(called) = IF called \in DOMAIN m THEN {m[called]} ELSE {}
  BY MergedInForce DEF SkillsInvariant
<1>3. /\ used.by = "agent" /\ used.key = key /\ used.kind = "skill" /\ used.from = {m[called]}
      /\ refused.by = "agent" /\ refused.key = key /\ refused.kind = "refused" /\ refused.from = {}
  BY PlainOutcome
<1>4. started = skillDirs => (called \in prompted <=> called \in DOMAIN m /\ ~m[called].hidden)
  BY DEF SkillsInvariant, Discovered
<1> HIDE DEF used, refused, m
<1>5. CASE given /\ cameTo' = used
  <2>1. AgentGets(used, called)
    BY <1>2, <1>3, <1>4, <1>5 DEF AgentGets
  <2>2. \A name \in DOMAIN SkillKeyOf : SkillKeyOf[name] = used.key => name = called
    BY <1>3, SkillsConstants
  <2> QED BY <1>3, <1>5, <2>1, <2>2
<1>6. CASE ~given /\ cameTo' = refused
  <2>1. AgentGets(refused, called)
    BY <1>2, <1>3, <1>4, <1>6 DEF AgentGets
  <2>2. \A name \in DOMAIN SkillKeyOf : SkillKeyOf[name] = refused.key => name = called
    BY <1>3, SkillsConstants
  <2> QED BY <1>3, <1>6, <2>1, <2>2
<1> QED BY <1>1, <1>5, <1>6

-----------------------------------------------------------------------------
\* The other steps ask for nothing.
LEMMA SkillWritten ==
    ASSUME SkillsInvariant, NEW slot \in DOMAIN skillDirs, NEW f \in SkillFiles, WriteSkill(slot, f)
    PROVE  SkillsInvariant' /\ asked' = asked
<1>1. f \in SkillFile /\ fileWrites + 1 \in Nat
  BY SkillsConstants DEF SkillsInvariant
<1>2. [f EXCEPT !.version = fileWrites + 1] \in SkillFile
  BY <1>1 DEF SkillFile
<1>3. skillDirs' \in Seq(SkillFile)
  <2> DEFINE g == [f EXCEPT !.version = fileWrites + 1]
  <2>1. g \in SkillFile /\ skillDirs \in Seq(SkillFile) /\ skillDirs' = [skillDirs EXCEPT ![slot] = g]
    BY <1>2 DEF WriteSkill, SkillsInvariant
  <2> HIDE DEF g
  <2> QED BY <2>1
<1> QED BY <1>1, <1>3 DEF WriteSkill, SkillsInvariant

LEMMA TemplateWritten ==
    ASSUME SkillsInvariant, NEW scope \in TemplateScopes, NEW i \in DOMAIN PromptNames,
           NEW t \in TemplateFile, WriteTemplate(scope, i, t)
    PROVE  SkillsInvariant' /\ asked' = asked
<1>1. fileWrites + 1 \in Nat
  BY DEF SkillsInvariant
<1>2. [t EXCEPT !.version = fileWrites + 1] \in TemplateFile
  BY <1>1 DEF TemplateFile
<1>3. templateDirs' \in TemplateDirs
  <2> DEFINE g == [t EXCEPT !.version = fileWrites + 1]
  <2>1. g \in TemplateFile /\ templateDirs \in TemplateDirs
        /\ templateDirs' = [templateDirs EXCEPT ![scope][i] = g]
    BY <1>2 DEF WriteTemplate, SkillsInvariant
  <2> HIDE DEF g
  <2> QED BY <2>1 DEF TemplateDirs, PromptPlaces
<1> QED BY <1>1, <1>3 DEF WriteTemplate, SkillsInvariant

LEMMA SkillsStart == SkillsInit => SkillsInvariant
<1> SUFFICES ASSUME SkillsInit PROVE SkillsInvariant
  OBVIOUS
<1>1. skillDirs \in Seq(SkillFile) /\ templateDirs \in TemplateDirs
  BY SkillsConstants DEF SkillsInit, TemplateDirs, PromptPlaces
<1> QED BY <1>1 DEF SkillsInit, SkillsInvariant, NotListed

LEMMA SkillsNextStep ==
    ASSUME SkillsInvariant, [SkillsNext]_skillsVars
    PROVE  SkillsInvariant' /\ SkillsStep
<1>1. ASSUME NEW key \in BuiltinKeys, RunBuiltin(key) PROVE SkillsInvariant' /\ SkillsStep
  <2>1. UseCommand(key)
    BY <1>1 DEF RunBuiltin
  <2> QED BY <1>1, <2>1, UseKept, BuiltinMeant DEF SkillsStep
<1>2. ASSUME NEW i \in DOMAIN PromptNames, NEW args \in ArgLists, NEW always \in BOOLEAN,
             RunTemplate(KeyOf[PromptNames[i]], args, always)
      PROVE  SkillsInvariant' /\ SkillsStep
  <2>1. UseCommand(KeyOf[PromptNames[i]])
    BY <1>2 DEF RunTemplate
  <2> QED BY <1>2, <2>1, UseKept, TemplateMeant DEF SkillsStep
<1>3. ASSUME NEW name \in DOMAIN SkillKeyOf, RunSkill(name) PROVE SkillsInvariant' /\ SkillsStep
  <2>1. UseCommand(SkillKeyOf[name])
    BY <1>3 DEF RunSkill
  <2> QED BY <1>3, <2>1, UseKept, SkillMeant DEF SkillsStep
<1>4. ASSUME NEW key, RunUnknown(key) PROVE SkillsInvariant' /\ SkillsStep
  <2>1. UseCommand(key)
    BY <1>4 DEF RunUnknown
  <2> QED BY <1>4, <2>1, UseKept, UnknownMeant DEF SkillsStep
<1>5. ASSUME NEW name \in DOMAIN SkillKeyOf, CallSkill(name) PROVE SkillsInvariant' /\ SkillsStep
  <2>1. SkillsInvariant'
    BY <1>5 DEF CallSkill, SkillsInvariant
  <2> QED BY <1>5, <2>1, CallMeant DEF SkillsStep
<1>6. CASE TypeSlash
  <2>1. slashList' = Listing(seen') /\ seen' \in Listings
    BY <1>6, ListMade DEF TypeSlash
  <2> QED BY <1>6, <2>1 DEF TypeSlash, SkillsInvariant, SkillsStep
<1>7. CASE BeginSkillTurn \/ EndSkillTurn
  BY <1>7 DEF BeginSkillTurn, EndSkillTurn, SkillsInvariant, SkillsStep
<1>8. CASE RestartSession
  BY <1>8 DEF RestartSession, NotListed, SkillsInvariant, SkillsStep
<1>9. ASSUME NEW slot \in DOMAIN skillDirs, NEW f \in SkillFiles, WriteSkill(slot, f)
      PROVE  SkillsInvariant' /\ SkillsStep
  BY <1>9, SkillWritten DEF SkillsStep
<1>10. ASSUME NEW scope \in TemplateScopes, NEW i \in DOMAIN PromptNames,
              \/ WriteTemplate(scope, i, NoTemplate)
              \/ \E body \in Bodies : WriteTemplate(scope, i, [there |-> TRUE, body |-> body, version |-> 0])
       PROVE  SkillsInvariant' /\ SkillsStep
  <2>1. NoTemplate \in TemplateFile
    BY DEF NoTemplate, TemplateFile
  <2>2. \A body \in Bodies : [there |-> TRUE, body |-> body, version |-> 0] \in TemplateFile
    BY DEF TemplateFile
  <2>3. PICK t \in TemplateFile : WriteTemplate(scope, i, t)
    BY <1>10, <2>1, <2>2
  <2> QED BY <2>3, TemplateWritten DEF SkillsStep
<1>11. CASE UNCHANGED skillsVars
  BY <1>11 DEF skillsVars, SkillsInvariant, SkillsStep
<1> QED BY <1>1, <1>2, <1>3, <1>4, <1>5, <1>6, <1>7, <1>8, <1>9, <1>10, <1>11 DEF SkillsNext

\* What a slash name or a call of the Skill tool yields is what the files say: the
\* built-in, the listed template with its arguments in place, the skill of the
\* last scope as it is now.  Lengths that overflow next to the largest integer may
\* end the program, and arguments with both kinds of quotes are ruled out by the
\* assumption of Skills.  (command.go:106-160, discover.go:29-65, args.go:14-98)
THEOREM NamesAreFiles == SkillsSpec => NamesMeanFiles
<1>1. SkillsInit => SkillsInvariant
  BY SkillsStart
<1>2. SkillsInvariant /\ [SkillsNext]_skillsVars => SkillsInvariant'
  BY SkillsNextStep
<1>3. SkillsInvariant /\ [SkillsNext]_skillsVars => [SkillsStep]_skillsVars
  BY SkillsNextStep
<1>4. SkillsSpec => [][SkillsStep]_skillsVars
  BY <1>1, <1>2, <1>3, PTL DEF SkillsSpec
<1> QED BY <1>4 DEF NamesMeanFiles, SkillsStep
=============================================================================
