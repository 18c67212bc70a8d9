---------------------------- MODULE ModelChoice ----------------------------
(***************************************************************************)
(* The active model of the session and its thinking level: chosen at the   *)
(* start from the environment and the settings, switched in the picker,    *)
(* cycled in the footer, and turned into the parameters of a request       *)
(* (pkg/ai/provider/registry.go, selection.go, thinking.go,                *)
(* internal/renderer/model_selector.go, footer.go, agent.go and the        *)
(* clients under pkg/ai/providers).  There is one provider, with the       *)
(* models 1, 2, ...; amounts of thinking are ranks, and the user's budgets *)
(* and failing writes are left out.                                        *)
(***************************************************************************)
EXTENDS Integers, Sequences, FiniteSets, FiniteSetsExt

CONSTANTS ModelFiles,  \* the provider files a behaviour may find
          MaxEdits     \* bound: changes of the files while elph runs

Levels == 0 .. 5    \* off, minimal, low, medium, high, xhigh

\* What a model and a file may say; see Loading.
Apis == {"", "openai", "anthropic"}
Formats == {"", "qwen", "openrouter", "deepseek", "effort"}
Efforts == {"yes", "no", "unset"}
ModelEntries == [on : BOOLEAN, reasoning : BOOLEAN, without : SUBSET Levels, own : SUBSET Levels,
                 api : Apis, adaptive : BOOLEAN, format : Formats, effort : Efforts]
FileEntries == [key : BOOLEAN, on : BOOLEAN, gateway : {"none", "qwen", "openrouter"},
                api : Apis \ {""}, adaptive : BOOLEAN, format : Formats, effort : Efforts,
                models : Seq(ModelEntries)]

ASSUME ModelChoiceConstants == ModelFiles \subseteq FileEntries /\ MaxEdits \in Nat

High == 4
NoID == 0

VARIABLES
    found,      \* the provider file, or NoFiles at first
    using,      \* the session: model id, client and m.thinkingLevel
    known,      \* session.Catalog: [key, whole, models]
    listing,    \* modelSelector.Catalog, or NoFiles when the picker is closed
    saved,      \* settings.json: the model and the level
    env,        \* ELPH_PROVIDER is set or not, and ELPH_MODEL
    edits,
    drifted,    \* history: the model was not chosen from the files as they are now
    slimPick    \* history: it was chosen from a trimmed catalog

choiceVars == <<found, using, known, listing, saved, env, edits, drifted, slimPick>>

NoFiles == [key |-> FALSE, whole |-> FALSE, models |-> <<>>]
Off == [id |-> NoID, client |-> "off", level |-> High]   \* elph is not running

-----------------------------------------------------------------------------
(* Loading.  Provider files and their models say: on, api, and as Compat     *)
(* adaptive, format and effort ("yes", "no" or "unset"); a model says too:  *)
(* reasoning, without (the levels its map excludes), own (those with a      *)
(* value of their own); a file: key, gateway and models.                    *)

Over(value, default, unset) == IF value = unset THEN default ELSE value

\* ApplyGatewayThinkingCompat: what a well-known gateway needs, where the file
\* says nothing.
WithGateway(f) ==
    CASE f.gateway = "qwen" -> [f EXCEPT !.format = Over(@, "qwen", ""), !.effort = Over(@, "no", "unset")]
      [] f.gateway = "openrouter" -> [f EXCEPT !.format = Over(@, "openrouter", "")]
      [] OTHER -> f

\* normalizeModel and mergeCompat: the model's word counts before the file's.
Normalized(f, m) ==
    [m EXCEPT !.on = f.on /\ @, !.api = Over(@, f.api, ""),
              !.adaptive = f.adaptive \/ @, !.format = Over(@, f.format, ""),
              !.effort = Over(@, f.effort, "unset")]

\* LoadCatalog.
Load(file) ==
    [key |-> file.key, whole |-> TRUE,
     models |-> [i \in DOMAIN file.models |-> Normalized(WithGateway(file), file.models[i])]]

-----------------------------------------------------------------------------
(* The catalog. *)

EnabledIn(cat) == {i \in DOMAIN cat.models : cat.models[i].on}

\* SlimModel keeps what a row of the picker shows.
Slim(m) == [m EXCEPT !.without = {}, !.own = {}, !.adaptive = FALSE,
                     !.format = "", !.effort = "unset"]

\* Faulty variant of TrimCatalog: the active model is slimmed like the others.
TrimCatalogAll(cat, id) ==
    [cat EXCEPT !.whole = FALSE, !.models = [i \in EnabledIn(cat) |-> Slim(@[i])]]

\* TrimCatalogForRuntime: only the active model keeps its metadata, no provider
\* its credentials, and what is disabled goes.
TrimCatalog(cat, id) ==
    [cat EXCEPT !.whole = FALSE,
                !.models = [i \in EnabledIn(cat) |-> IF i = id THEN @[i] ELSE Slim(@[i])]]

\* NewProvider: which client speaks to a model.
ClientOf(m) ==
    IF m.api = "anthropic" THEN "anthropic"
    ELSE IF m.format = "openrouter" THEN "openrouter" ELSE "openai"
ClientFor(cat, id) == IF cat.whole /\ cat.key THEN ClientOf(cat.models[id]) ELSE "none"

\* resolveCatalog: ELPH_PROVIDER decides alone; else the saved model, an enabled
\* one in its place, and only then ELPH_MODEL.
FirstOn(cat) == IF EnabledIn(cat) = {} THEN NoID ELSE Min(EnabledIn(cat))
Resolve(cat, id, e) ==
    LET wanted == IF e.model \in EnabledIn(cat) THEN e.model ELSE NoID
        kept == IF id \in EnabledIn(cat) THEN id ELSE FirstOn(cat)
    IN  IF ~cat.key THEN NoID
        ELSE IF e.provider THEN IF e.model = NoID THEN FirstOn(cat) ELSE wanted
        ELSE IF id # NoID /\ kept # NoID THEN kept ELSE wanted

-----------------------------------------------------------------------------
(* Thinking levels. *)

Supports(m, l) == (m.reasoning \/ l = 0) /\ l \notin m.without
SupportedBy(m) == {l \in Levels : Supports(m, l)}

\* ClampThinkingLevel: the next level up, else the next one down.
Clamp(l, m) ==
    LET up == {k \in SupportedBy(m) : k >= l}
        down == {k \in SupportedBy(m) : k < l}
    IN  IF up # {} THEN Min(up) ELSE IF down # {} THEN Max(down) ELSE 0
ClampIn(cat, id, l) == IF id \in DOMAIN cat.models THEN Clamp(l, cat.models[id]) ELSE l

\* NextSupportedThinkingLevel.
NextLevel(l, m) ==
    LET hops == {n \in 1 .. 6 : Supports(m, (l + n) % 6)}
    IN  IF hops = {} THEN l ELSE (l + Min(hops)) % 6

\* ResolveThinking: how a level is asked for, and how much.
OwnAmount == 9
Amount(table, m, l) == IF l \in m.own THEN OwnAmount ELSE table[l]
BudgetTokens == <<1024, 4096, 10240, 32768, 65536>>
AdaptiveEffort == <<1, 1, 2, 3, 4>>
ReasoningEffort == <<1, 2, 3, 4, 4>>
NoThinking == [how |-> "none", much |-> 0]
ResolveThinking(m, level) ==
    LET l == Clamp(level, m)
        Ask(how, table) == [how |-> how, much |-> Amount(table, m, l)]
    IN  CASE l = 0 \/ ~m.reasoning -> NoThinking
          [] l # 0 /\ m.reasoning /\ m.api = "anthropic" ->
               IF m.adaptive THEN Ask("adaptive", AdaptiveEffort) ELSE Ask("budget", BudgetTokens)
          [] OTHER ->
               IF m.format = "qwen" THEN [how |-> "enable", much |-> 0]
               ELSE IF m.format = "deepseek" THEN [how |-> "inferred", much |-> 0]
               ELSE IF m.format = "openrouter" THEN Ask("openrouter", ReasoningEffort)
               ELSE IF m.effort # "no" THEN Ask("effort", ReasoningEffort)
               ELSE [how |-> "enable", much |-> 0]

\* buildTurnOptions with the thinking shown: a Qwen gateway is asked to think
\* whenever the footer says so.
TurnThinking(cat, id, level) ==
    IF id \notin DOMAIN cat.models \/ level = 0 THEN NoThinking
    ELSE LET m == cat.models[id]
             t == ResolveThinking(m, level)
         IN  IF t = NoThinking /\ m.format = "qwen" THEN [how |-> "enable", much |-> 0] ELSE t

\* applyThinkingParams and prepareParams: what a client puts into a request.
\* Those for the OpenAI API look at the format, not at how the level resolved.
Speaks(client) ==
    CASE client = "anthropic"  -> {"adaptive", "budget"}
      [] client = "openai"     -> {"enable", "effort"}
      [] client = "openrouter" -> {"enable", "effort", "openrouter"}
      [] OTHER                 -> {}
Sent(client, t) == IF t.how \in Speaks(client) THEN t ELSE NoThinking

-----------------------------------------------------------------------------
ModelChoiceInit ==
    /\ found = NoFiles /\ using = Off /\ known = NoFiles /\ listing = NoFiles
    /\ saved = [id |-> NoID, level |-> High]
    /\ env = [provider |-> FALSE, model |-> NoID]
    /\ edits = 0 /\ drifted = FALSE /\ slimPick = FALSE

Running == using.client # "off"

\* The first files, and later the CLI, an editor or a sync, with elph running
\* or not.
ChangeFiles(d) ==
    /\ d # found
    /\ IF found = NoFiles THEN UNCHANGED edits ELSE edits < MaxEdits /\ edits' = edits + 1
    /\ found' = d /\ drifted' = Running
    /\ UNCHANGED <<using, known, listing, saved, env, slimPick>>

\* NewSession and NewModel.
StartSession(e) ==
    LET cat == Load(found)
        id == Resolve(cat, saved.id, e)
        trimmed == TrimCatalog(cat, id)
    IN  /\ ~Running /\ found # NoFiles
        /\ using' = [id |-> id, client |-> IF id = NoID THEN "none" ELSE ClientFor(cat, id),
                     level |-> ClampIn(trimmed, id, saved.level)]
        /\ known' = IF id = NoID THEN cat ELSE trimmed
        /\ env' = e /\ drifted' = FALSE /\ slimPick' = FALSE
        /\ UNCHANGED <<found, listing, saved, edits>>

EndSession ==
    /\ Running /\ using' = Off /\ known' = NoFiles /\ listing' = NoFiles
    /\ drifted' = FALSE /\ slimPick' = FALSE
    /\ UNCHANGED <<found, saved, env, edits>>

\* Ctrl-L, a click on the footer, or a prompt without a model: the files are
\* read again, for the picker and for the session.
PickByKey ==
    /\ Running /\ listing = NoFiles
    /\ listing' = Load(found) /\ known' = Load(found)
    /\ UNCHANGED <<found, using, saved, env, edits, drifted, slimPick>>

\* `/model`: commandContext reads the files again if the input line names the
\* command in full, not when the palette completes it.
PickBySlash(inFull) ==
    /\ Running /\ listing = NoFiles
    /\ listing' = IF inFull \/ known.models = <<>> THEN Load(found) ELSE known
    /\ UNCHANGED <<found, using, known, saved, env, edits, drifted, slimPick>>

ClosePicker ==
    /\ listing # NoFiles /\ listing' = NoFiles
    /\ UNCHANGED <<found, using, known, saved, env, edits, drifted, slimPick>>

\* confirmModelSelector and applyModelSwitch.
SwitchModel(id) ==
    LET level == Clamp(using.level, listing.models[id])
    IN  /\ listing # NoFiles /\ id \in EnabledIn(listing)
        /\ using' = [id |-> id, client |-> ClientFor(listing, id), level |-> level]
        /\ known' = TrimCatalog(listing, id)
        /\ saved' = [id |-> id, level |-> level]
        /\ listing' = NoFiles
        /\ drifted' = (listing # Load(found)) /\ slimPick' = ~listing.whole
        /\ UNCHANGED <<found, env, edits>>

CycleLevel ==
    LET l == using.level
        next == IF using.id \in DOMAIN known.models THEN NextLevel(l, known.models[using.id])
                ELSE (l + 1) % 6
    IN  /\ Running
        /\ using' = [using EXCEPT !.level = next] /\ saved' = [saved EXCEPT !.level = next]
        /\ UNCHANGED <<found, known, listing, env, edits, drifted, slimPick>>

\* finishModelsSync; the level stays as it is.
RereadCatalog ==
    /\ Running /\ known' = TrimCatalog(Load(found), using.id)
    /\ UNCHANGED <<found, using, listing, saved, env, edits, drifted, slimPick>>

ModelChoiceNext ==
    \/ \E d \in ModelFiles : ChangeFiles(d)
    \/ \E p \in BOOLEAN, i \in {NoID} \cup DOMAIN found.models :
          StartSession([provider |-> p, model |-> i])
    \/ EndSession \/ PickByKey \/ ClosePicker \/ CycleLevel \/ RereadCatalog
    \/ \E inFull \in BOOLEAN : PickBySlash(inFull)
    \/ \E id \in DOMAIN listing.models : SwitchModel(id)

ModelChoiceSpec == ModelChoiceInit /\ [][ModelChoiceNext]_choiceVars

-----------------------------------------------------------------------------
(* Properties. *)

Asked(level) == Sent(using.client, TurnThinking(known, using.id, level))

\* The levels the footer comes to, one click after the other.
LevelsClicked(m) ==
    LET at[n \in 0 .. 6] == IF n = 0 THEN using.level ELSE NextLevel(at[n - 1], m)
    IN  {at[n] : n \in 0 .. 6}

\* As long as the files are those the model was chosen from: the session has
\* the client the model needs; the level in the footer is one the model has, a
\* few clicks reach all of those and no other; a request asks for thinking
\* exactly if the footer says so, in a form this client speaks, and for no less
\* at a higher level; and a restart brings back the same model and level.  Two
\* things go wrong and are excluded: a model picked from the list that the
\* completed command shows, which has no credentials, is left without a client;
\* and a model of the deepseek format is never asked to think, whatever its level.
ModelAsShown ==
    Running /\ using.id # NoID /\ ~drifted /\ ~slimPick =>
      LET m == Load(found).models[using.id]
          ask == {k \in SupportedBy(m) : k # 0}
      IN  /\ found.key => using.client = ClientOf(m)
          /\ SupportedBy(m) # {} => LevelsClicked(m) = SupportedBy(m)
          /\ using.client # "none" /\ m.format # "deepseek" =>
               \A k \in ask : Asked(k) # NoThinking
          /\ Asked(0) = NoThinking
          /\ \A k, l \in ask \ m.own : k < l => Asked(k).much <= Asked(l).much
          /\ using.client # "none" /\ env = [provider |-> FALSE, model |-> NoID] =>
               /\ Resolve(Load(found), saved.id, env) = using.id
               /\ Clamp(saved.level, m) = using.level
=============================================================================
