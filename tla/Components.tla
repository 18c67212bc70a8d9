----------------------------- MODULE Components -----------------------------
(***************************************************************************)
(* The parts of the program that share nothing at the level of these       *)
(* modules, side by side.  A behaviour exercises one of them, chosen at    *)
(* the start, so that one model-checking run covers them all and the       *)
(* states of the parts add up instead of multiplying.                      *)
(***************************************************************************)
EXTENDS ShellRunner, Migrator, Goals, TodoStore, ProviderStream, StreamText,
        SettingsStore, ProviderFiles, Composer, ModelPicker, FileTools,
        Transcript, Viewport, Palette, Dialogs, ModelChoice, Skills

VARIABLE part  \* the part this behaviour is about

Parts == {"shell", "migrator", "goals", "todos", "provider stream",
          "stream text", "settings", "providers", "composer", "picker",
          "files", "transcript", "viewport", "palette", "dialogs", "choice",
          "skills"}

\* The other parts need the files of skills and templates in one state only.
SomeFiles == <<CHOOSE d \in SkillLayouts : TRUE, CHOOSE d \in TemplateLayouts : TRUE>>

ComponentsInit ==
    /\ part \in Parts
    /\ ShellRunnerInit /\ MigratorInit /\ GoalsInit /\ TodoStoreInit
    /\ ProviderStreamInit /\ StreamTextInit /\ SettingsStoreInit /\ ProviderFilesInit
    /\ ComposerInit /\ PickerInit /\ FileInit /\ TranscriptInit
    /\ ViewportInit /\ PaletteInit /\ DialogInit /\ ModelChoiceInit
    /\ SkillsInit /\ (part # "skills" => <<skillDirs, templateDirs>> = SomeFiles)

\* A step of one part leaves the others alone.
Only(p) ==
    /\ part = p /\ UNCHANGED part
    /\ p # "shell" => UNCHANGED shellRunnerVars
    /\ p # "migrator" => UNCHANGED migratorVars
    /\ p # "goals" => UNCHANGED goalVars
    /\ p # "todos" => UNCHANGED todoVars
    /\ p # "provider stream" => UNCHANGED streamVars
    /\ p # "stream text" => UNCHANGED textVars
    /\ p # "settings" => UNCHANGED settingsVars
    /\ p # "providers" => UNCHANGED providerVars
    /\ p # "composer" => UNCHANGED composerVars
    /\ p # "picker" => UNCHANGED pickerVars
    /\ p # "files" => UNCHANGED fileVars
    /\ p # "transcript" => UNCHANGED transcriptVars
    /\ p # "viewport" => UNCHANGED viewportVars
    /\ p # "palette" => UNCHANGED paletteVars
    /\ p # "dialogs" => UNCHANGED dialogVars
    /\ p # "choice" => UNCHANGED choiceVars
    /\ p # "skills" => UNCHANGED skillsVars

ComponentsNext ==
    \/ Only("shell") /\ ShellRunnerNext
    \/ Only("migrator") /\ MigratorNext
    \/ Only("goals") /\ GoalsNext
    \/ Only("todos") /\ TodoStoreNext
    \/ Only("provider stream") /\ ProviderStreamNext
    \/ Only("stream text") /\ StreamTextNext
    \/ Only("settings") /\ SettingsStoreNext
    \/ Only("providers") /\ ProviderFilesNext
    \/ Only("composer") /\ ComposerNext
    \/ Only("picker") /\ PickerNext
    \/ Only("files") /\ FileNext
    \/ Only("transcript") /\ TranscriptNext
    \/ Only("viewport") /\ ViewportNext
    \/ Only("palette") /\ PaletteNext
    \/ Only("dialogs") /\ DialogNext
    \/ Only("choice") /\ ModelChoiceNext
    \/ Only("skills") /\ SkillsNext

componentsVars == <<part, shellRunnerVars, migratorVars, goalVars, todoVars,
                    streamVars, textVars, settingsVars, providerVars,
                    composerVars, pickerVars, fileVars, transcriptVars,
                    viewportVars, paletteVars, dialogVars, choiceVars, skillsVars>>
ComponentsSpec == ComponentsInit /\ [][ComponentsNext]_componentsVars
=============================================================================
