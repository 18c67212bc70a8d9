---------------------------- MODULE ProviderFiles ----------------------------
(***************************************************************************)
(* ~/.elph/providers: one file for each provider, <id>.json or <id>.jsonc, *)
(* with the models it offers.  `elph provider connect` and the start-up    *)
(* write the starter files, `elph provider model enable|disable` changes   *)
(* one flag, and once a day the UI offers to merge the metadata of         *)
(* models.dev and of the live /models endpoints into them.  Everybody      *)
(* reads a file, works, and writes the whole of it back.                   *)
(***************************************************************************)
EXTENDS Naturals

CONSTANTS
    Models,       \* model ids
    CatalogIDs,   \* those models.dev lists for a provider
    Templates,    \* those of a starter file
    MaxDays,      \* bound: sync intervals that elapse
    MaxCommands   \* bound: commands of the user, by CLI or by hand

ASSUME ProviderConstants ==
    /\ CatalogIDs \subseteq Models /\ Templates \subseteq Models /\ Templates # {}
    /\ MaxDays \in Nat /\ MaxCommands \in Nat

ProviderIDs == {"live", "plain"}    \* isLiveModelsProvider or not
Exts == {"json", "jsonc"}
NoProvider == "none"                      \* no entry for a model, no file, nobody

VARIABLES
    file,     \* FileConfig by provider and extension: [there, own, ids, fresh]
    due,      \* Settings.SyncDue
    ui,       \* the sync in the UI: "off", "preview", "idle", "offer", "run"
    left,     \* files the running sync still has to do: [p, ext]
    read,     \* what the sync and the CLI have read: [p, ext, cfg, id, flag]
    days, commands,
    off,      \* history: the models the user has switched off
    raced,    \* history: a file was written by someone who had read an older one
    dropped,  \* history: entries a live sync removed, with their flags
    connected,\* history: starter files were written next to other files
    synced    \* history: a sync completed, and nobody changed a file since

providerVars == <<file, due, ui, left, read, days, commands,
                  off, raced, dropped, connected, synced>>

NoFile == [there |-> FALSE, own |-> FALSE, ids |-> [i \in Models |-> NoProvider], fresh |-> {}]
Template == [there |-> TRUE, own |-> FALSE, fresh |-> {},
             ids |-> [i \in Models |-> IF i \in Templates THEN "on" ELSE NoProvider]]
Readers == {"sync", "cli"}
Nobody == [p |-> NoProvider, ext |-> "json", cfg |-> NoFile, id |-> NoProvider, flag |-> NoProvider]

\* SelectProviderEntries, ResolveProviderPath: .json is preferred to .jsonc.
EntryOf(p) == IF file[p]["json"].there THEN "json" ELSE "jsonc"
Current(p) == file[p][EntryOf(p)]
Known == {p \in ProviderIDs : Current(p).there}
\* listSyncProviderTargets: the files are chosen at once, and done in the order
\* of their ids.
Targets == {[p |-> p, ext |-> EntryOf(p)] : p \in Known}
NextTarget(ts) == CHOOSE t \in ts : t.p = "live" \/ \A u \in ts : u.p # "live"

\* mergeModelConfig keeps the flag of an entry, a new entry is enabled.
\* Faulty variant: the fresh entry replaces the one of the file.
MergedFresh(flag) == "on"
Merged(flag) == IF flag = NoProvider THEN "on" ELSE flag

SyncCatalog(cfg) ==
    [cfg EXCEPT !.fresh = @ \cup CatalogIDs,
                !.ids = [i \in Models |-> IF i \in CatalogIDs THEN Merged(@[i]) ELSE @[i]]]
SyncLive(cfg, live) ==
    [cfg EXCEPT !.fresh = (@ \cup CatalogIDs) \cap live,
                !.ids = [i \in Models |-> IF i \in live THEN Merged(@[i]) ELSE NoProvider]]

\* PreviewModelsDevUpdates never asks a live endpoint.
WouldChange(p) == SyncCatalog(Current(p)) # Current(p)

ProviderFilesInit ==
    /\ file = [p \in ProviderIDs |-> [x \in Exts |-> NoFile]]
    /\ due = TRUE /\ ui = "off" /\ left = {}
    /\ read = [who \in Readers |-> Nobody]
    /\ days = 0 /\ commands = 0
    /\ off = {} /\ raced = FALSE /\ dropped = {} /\ connected = FALSE /\ synced = "no"

Shared == <<off, dropped, connected>>
Reading(who, r) == read' = [read EXCEPT ![who] = r]
Put(p, x, cfg) == file' = [file EXCEPT ![p][x] = cfg]
Stale(r) == r.p # NoProvider /\ file[r.p][r.ext] # r.cfg
Bootstrapped(p) == [file[p] EXCEPT !["json"] = IF @.there THEN @ ELSE Template]
Command == commands < MaxCommands /\ commands' = commands + 1

-----------------------------------------------------------------------------
(* elph starts: starter files when there is no file at all, and the check  *)
(* of models.dev in the background.                                        *)

StartElph ==
    /\ ui = "off"
    /\ file' = IF Known = {} THEN [q \in ProviderIDs |-> Bootstrapped(q)] ELSE file
    /\ ui' = IF due THEN "preview" ELSE "idle"
    /\ UNCHANGED <<due, left, read, days, commands, raced, synced, Shared>>

\* checkModelsSyncAtStartupCmd; without the network the sync stays due.
Preview ==
    /\ ui = "preview"
    /\ \/ ui' = "idle" /\ UNCHANGED due
       \/ IF \E p \in Known : WouldChange(p) THEN ui' = "offer" /\ UNCHANGED due
          ELSE ui' = "idle" /\ due' = FALSE
    /\ UNCHANGED <<file, left, read, days, commands, raced, synced, Shared>>

Skip ==
    /\ ui = "offer" /\ ui' = "idle" /\ due' = FALSE
    /\ UNCHANGED <<file, left, read, days, commands, raced, synced, Shared>>

RunModelsSync ==
    /\ ui = "offer" /\ ui' = "run"
    /\ left' = Targets
    /\ synced' = "begun"
    /\ UNCHANGED <<file, due, read, days, commands, raced, Shared>>

SyncRead ==
    /\ ui = "run" /\ read["sync"] = Nobody
    /\ LET t == NextTarget(left) IN
       Reading("sync", [Nobody EXCEPT !.p = t.p, !.ext = t.ext, !.cfg = file[t.p][t.ext]])
    /\ UNCHANGED <<file, due, ui, left, days, commands, raced, synced, Shared>>

SyncFails ==
    /\ ui = "run" /\ read["sync"] # Nobody
    /\ ui' = "idle" /\ left' = {} /\ Reading("sync", Nobody)
    /\ UNCHANGED <<file, due, days, commands, raced, synced, Shared>>

\* A live provider without its key falls back to the catalog.
SyncWrite(live) ==
    /\ ui = "run" /\ read["sync"] # Nobody
    /\ LET r == read["sync"]
           next == IF r.p = "live" /\ live # {} THEN SyncLive(r.cfg, live) ELSE SyncCatalog(r.cfg)
           gone == {i \in Models : r.cfg.ids[i] # NoProvider /\ next.ids[i] = NoProvider}
       IN  /\ file' = IF next = r.cfg THEN file ELSE [file EXCEPT ![r.p][r.ext] = next]
           /\ raced' = (raced \/ (next # r.cfg /\ Stale(r)))
           /\ dropped' = dropped \cup {<<r.p, i>> : i \in gone}
           /\ left' = left \ {[p |-> r.p, ext |-> r.ext]}
    /\ Reading("sync", Nobody)
    /\ ui' = IF left' = {} THEN "idle" ELSE "run"
    /\ due' = (due /\ left' # {})
    /\ synced' = IF left' = {} /\ synced = "begun" THEN "done" ELSE synced
    /\ UNCHANGED <<days, commands, off, connected>>

QuitElph ==
    /\ ui # "off" /\ ui' = "off" /\ left' = {} /\ Reading("sync", Nobody)
    /\ UNCHANGED <<file, due, days, commands, raced, synced, Shared>>

Elapse ==
    /\ days < MaxDays /\ days' = days + 1 /\ due' = TRUE /\ synced' = "no"
    /\ file' = [p \in ProviderIDs |-> [x \in Exts |-> [file[p][x] EXCEPT !.fresh = {}]]]
    /\ read' = [w \in Readers |-> [read[w] EXCEPT !.cfg.fresh = {}]]
    /\ UNCHANGED <<ui, left, commands, raced, Shared>>

-----------------------------------------------------------------------------
(* The user: the CLI in another terminal, and an editor.                   *)

SetModelEnabled(p, i, flag) ==
    /\ read["cli"] = Nobody /\ Command
    /\ Current(p).there /\ Current(p).ids[i] # NoProvider
    /\ Reading("cli", [p |-> p, ext |-> EntryOf(p), cfg |-> Current(p), id |-> i, flag |-> flag])
    /\ UNCHANGED <<file, due, ui, left, days, raced, synced, Shared>>

CLIWrite ==
    /\ read["cli"] # Nobody
    /\ LET r == read["cli"] IN
       /\ Put(r.p, r.ext, [r.cfg EXCEPT !.ids[r.id] = r.flag])
       /\ off' = IF r.flag = "off" THEN off \cup {<<r.p, r.id>>} ELSE off \ {<<r.p, r.id>>}
       /\ dropped' = dropped \ {<<r.p, r.id>>}
       /\ raced' = (raced \/ Stale(r))
    /\ Reading("cli", Nobody) /\ synced' = "no"
    /\ UNCHANGED <<due, ui, left, days, commands, connected>>

\* `elph provider connect`: BootstrapProviders looks for <id>.json only.
Connect ==
    /\ Command
    /\ file' = [p \in ProviderIDs |-> Bootstrapped(p)]
    /\ connected' = (connected \/ \E p \in Known : ~file[p]["json"].there)
    /\ synced' = "no"
    /\ UNCHANGED <<due, ui, left, read, days, raced, off, dropped>>

WriteOwnFile(p, x) ==
    /\ Command /\ ~Current(p).there
    /\ Put(p, x, [Template EXCEPT !.own = TRUE])
    /\ synced' = "no"
    /\ UNCHANGED <<due, ui, left, read, days, raced, Shared>>

ProviderFilesNext ==
    \/ StartElph \/ Preview \/ Skip \/ RunModelsSync \/ SyncRead \/ SyncFails \/ QuitElph \/ Elapse
    \/ \E live \in SUBSET Models : SyncWrite(live)
    \/ \E p \in ProviderIDs, i \in Models, flag \in {"on", "off"} : SetModelEnabled(p, i, flag)
    \/ CLIWrite \/ Connect
    \/ \E p \in ProviderIDs, x \in Exts : WriteOwnFile(p, x)

ProviderFilesSpec == ProviderFilesInit /\ [][ProviderFilesNext]_providerVars

-----------------------------------------------------------------------------
(* Properties.                                                             *)

\* What the user set up survives the syncs.  Unless two writers overlapped, a
\* model he switched off stays off while the file has it without a break, and
\* after a completed sync a provider without a live endpoint has nothing left
\* to offer; his own file is the one that counts until `connect` shadows it.
ProvidersKept ==
    /\ ~raced /\ ~connected => \A x \in off \ dropped : Current(x[1]).ids[x[2]] # "on"
    /\ synced = "done" /\ Current("plain").there => ~WouldChange("plain")
    /\ ~connected => \A p \in ProviderIDs :
          (\E x \in Exts : file[p][x].own) => Current(p).own
=============================================================================
