------------------------------- MODULE Skills -------------------------------
(***************************************************************************)
(* Slash names: built-in commands, prompt templates and skills, and the    *)
(* Skill tool of the agent (internal/command, internal/prompt/template,    *)
(* pkg/skill).  Templates are read once, when the first "/" is typed;      *)
(* skills are listed then, but read again whenever one is used; the system *)
(* prompt names the skills the session found at its start.  The user edits *)
(* the files all the while.  Names of skills are what SanitizeName makes   *)
(* of them; a file it or the parser skips counts as missing.  Commands     *)
(* typed while a turn runs belong to Screen.                               *)
(***************************************************************************)
EXTENDS Integers, Sequences, FiniteSets, Lists
LOCAL INSTANCE SequencesExt

CONSTANTS
    BuiltinKeys,     \* names and aliases of the built-in commands
    PromptNames,     \* names a template file may have, in the order of ReadDir
    KeyOf,           \* such a name in lower case
    SkillKeyOf,      \* "skill:" and the name, for each name of a skill
    SkillFiles,      \* what a SKILL.md may say
    SkillLayouts,    \* the skills a session may find
    Bodies,          \* what a template may say
    TemplateLayouts, \* the templates a session may find
    ArgLists,        \* arguments the user may have in mind, sequences of letters
    MaxNestingDepth, \* 3
    MaxInt,          \* 2^63 - 1
    MaxWrites,       \* bound: edits of a file
    MaxAsked         \* bound: commands and calls of the Skill tool

SkillFile == [there : BOOLEAN, name : DOMAIN SkillKeyOf, inline : BOOLEAN,
              hidden : BOOLEAN, valid : BOOLEAN, version : Nat]
TemplateFile == [there : BOOLEAN, body : Bodies \cup {<<>>}, version : Nat]
TemplateScopes == {"global", "project"}
Quotes == {"\"", "'"}

\* Sanitized names differ in their keys, Atoi stops at MaxInt, and no argument has
\* both kinds of quotes, as nothing escapes one.
ASSUME SkillsConstants ==
    /\ SkillFiles \subseteq SkillFile /\ SkillLayouts \subseteq Seq(SkillFile)
    /\ TemplateLayouts \subseteq [TemplateScopes -> [DOMAIN PromptNames -> TemplateFile]]
    /\ Len(PromptNames) \in Nat /\ DOMAIN PromptNames = 1 .. Len(PromptNames)
    /\ \A n, m \in DOMAIN SkillKeyOf : SkillKeyOf[n] = SkillKeyOf[m] => n = m
    /\ MaxInt \in Nat
    /\ \A body \in Bodies : \A i \in DOMAIN body :
         body[i].from \in 0 .. MaxInt /\ body[i].count \in 0 .. MaxInt
    /\ ArgLists \subseteq Seq(Seq(STRING))
    /\ \A args \in ArgLists : \A n \in DOMAIN args : \E q \in Quotes :
         \A i \in DOMAIN args[n] : args[n][i] # q

VARIABLES
    skillDirs,    \* the SKILL.md files in the order of the scopes and, in one,
                  \* of its directory: project after user
    templateDirs, \* by scope and name
    slashList,      \* m.promptTemplates and m.slashSkills
    prompted,     \* the skills in the system prompt
    skillTurn,       \* is a turn under way, and n of its depthHolder
    cameTo,      \* what the last command or call came to
    asked,        \* how many there were
    fileWrites,
    seen,         \* history: the files when slashList was made
    started       \* history: skillDirs when the session began

skillsVars == <<skillDirs, templateDirs, slashList, prompted, skillTurn, cameTo, asked,
                fileWrites, seen, started>>

NoTemplate == [there |-> FALSE, body |-> <<>>, version |-> 0]
NotListed == [loaded |-> FALSE, templates |-> <<>>, skills |-> {}]
NotSeen == [templates |-> <<>>, skills |-> <<>>]
NoTurn == [on |-> FALSE, calls |-> 0]
Outcome(by, key, kind, from, args, text) ==
    [by |-> by, key |-> key, kind |-> kind, from |-> from, args |-> args, text |-> text]
Came(by, key, kind, from) == Outcome(by, key, kind, from, <<>>, <<>>)
NoOutcome == Came("nobody", "none", "none", {})
\* Other steps: cameTo is about the last one only, and a panic ends the program.
Meanwhile == cameTo.kind # "panic" /\ cameTo' = NoOutcome

-----------------------------------------------------------------------------
(* Discovery. *)

\* mergeDefinitions: of skills with one name the later scope wins.
WithFile(byName, f) ==
    IF ~f.there THEN byName
    ELSE [n \in DOMAIN byName \cup {f.name} |-> IF n = f.name THEN f ELSE byName[n]]
MergeDefinitions(files) ==
    LET merged[i \in 0 .. Len(files)] ==
          IF i = 0 THEN <<>> ELSE WithFile(merged[i - 1], files[i])
    IN  merged[Len(files)]

\* Faulty variant of Discovered: hidden skills are dropped before the scopes are
\* merged, which brings the skill they replace back.
DiscoveredEarly(files, includeHidden) ==
    DOMAIN MergeDefinitions(SelectSeq(files, LAMBDA f : includeHidden \/ ~f.hidden))

\* discoverMerged: Discover without, DiscoverAll with skills the model may not call.
Discovered(files, includeHidden) ==
    LET byName == MergeDefinitions(files)
    IN  {n \in DOMAIN byName : includeHidden \/ ~byName[n].hidden}

LoadDir(dirs, scope) ==
    LET read == [i \in DOMAIN PromptNames |->
                   [name |-> PromptNames[i], scope |-> scope, there |-> dirs[scope][i].there,
                    body |-> dirs[scope][i].body, version |-> dirs[scope][i].version]]
    IN  ElementsAt(read, {i \in DOMAIN read : read[i].there})
Named(templates, name) ==
    ElementsAt(templates, {i \in DOMAIN templates : templates[i].name = name})

\* Load: a project template takes the place of the global one with its name.
LoadTemplates(dirs) ==
    LET global == LoadDir(dirs, "global")
        project == LoadDir(dirs, "project")
    IN  [i \in DOMAIN global |->
           IF Named(project, global[i].name) = <<>> THEN global[i]
           ELSE Named(project, global[i].name)[1]]
        \o ElementsAt(project, {i \in DOMAIN project : Named(global, project[i].name) = <<>>})

\* ensurePromptTemplates
Ensured ==
    IF slashList.loaded THEN slashList
    ELSE [loaded |-> TRUE, templates |-> LoadTemplates(templateDirs),
          skills |-> Discovered(skillDirs, TRUE)]
EnsureListed ==
    /\ slashList' = Ensured
    /\ seen' = IF slashList.loaded THEN seen
               ELSE [templates |-> templateDirs, skills |-> skillDirs]

-----------------------------------------------------------------------------
(* Arguments: letters, blanks and two kinds of quotes. *)

\* How the user fileWrites arguments: in quotes where they need them, or always.
WrittenArg(a, always) ==
    LET q == IF \E i \in DOMAIN a : a[i] = "\"" THEN "'" ELSE "\""
    IN  IF always \/ a = <<>> \/ \E i \in DOMAIN a : a[i] \in Quotes \cup {" "}
        THEN <<q>> \o a \o <<q>> ELSE a
CommandLine(args, always) ==
    LET line[n \in 0 .. Len(args)] ==
          IF n = 0 THEN <<>>
          ELSE (IF n = 1 THEN <<>> ELSE Append(line[n - 1], " ")) \o WrittenArg(args[n], always)
    IN  line[Len(args)]

\* ParseArgs
Ended(s) ==
    IF s.current = <<>> THEN s
    ELSE [args |-> Append(s.args, s.current), current |-> <<>>, inQuote |-> s.inQuote]
ParseChar(s, ch) ==
    IF s.inQuote # "none" THEN
      IF ch = s.inQuote THEN [s EXCEPT !.inQuote = "none"] ELSE [s EXCEPT !.current = Append(@, ch)]
    ELSE CASE ch \in Quotes -> [s EXCEPT !.inQuote = ch]
           [] ch = " "      -> Ended(s)
           [] OTHER         -> [s EXCEPT !.current = Append(@, ch)]
ParseArgs(line) ==
    LET state[n \in 0 .. Len(line)] ==
          IF n = 0 THEN [args |-> <<>>, current |-> <<>>, inQuote |-> "none"]
          ELSE ParseChar(state[n - 1], line[n])
    IN  Ended(state[Len(line)]).args

\* An int of w bits overflows; Atoi stops at MaxInt.
Wrapped(n) == IF n > MaxInt THEN n - 2 * (MaxInt + 1) ELSE n

\* The part of args that ${@:N:L} names, up to the end without L.  An end that
\* has overflowed lies before the start, and the slice panics.
SliceStart(p) == IF p.from < 1 THEN 0 ELSE p.from - 1
SliceEnd(p, args) ==
    LET end == Wrapped(SliceStart(p) + p.count)
    IN  IF p.mark = "rest" \/ end > Len(args) THEN Len(args) ELSE end
IsSlice(p) == p.mark \in {"slice", "rest"}
Panics(p, args) ==
    IsSlice(p) /\ SliceStart(p) < Len(args) /\ SliceEnd(p, args) < SliceStart(p)

\* SubstituteArgs, one placeholder: a list of arguments, joined by blanks.
Substituted(p, args) ==
    CASE p.mark = "text" -> <<p.text>>
      [] p.mark = "all"  -> args
      [] p.mark = "one"  ->
           IF p.from \in DOMAIN args THEN <<args[p.from]>>
           ELSE IF p.text = <<>> THEN <<>> ELSE <<p.text>>
      [] OTHER -> SubSeq(args, SliceStart(p) + 1, SliceEnd(p, args))
Substitution(body, args) == [i \in DOMAIN body |-> Substituted(body[i], args)]
BlankPrompt(text) ==
    \A i \in DOMAIN text : \A j \in DOMAIN text[i] : ToSet(text[i][j]) \subseteq {" "}

-----------------------------------------------------------------------------
(* Commands of the user.  A command that has a prompt begins a turn. *)

TemplatesOf(key) ==
    LET templates == Ensured.templates
    IN  ElementsAt(templates, {i \in DOMAIN templates : KeyOf[templates[i].name] = key})
IsSkillKey(key) == \E n \in Ensured.skills : SkillKeyOf[n] = key

UseCommand(key) ==
    /\ ~skillTurn.on /\ asked < MaxAsked /\ cameTo.kind # "panic"
    /\ asked' = asked + 1
    /\ EnsureListed
    /\ UNCHANGED <<skillDirs, templateDirs, prompted, fileWrites, started>>
Refused(by, key) == cameTo' = Came(by, key, "refused", {})

RunBuiltin(key) ==
    /\ UseCommand(key) /\ key \in BuiltinKeys
    /\ cameTo' = Came("user", key, "builtin", {})
    /\ UNCHANGED skillTurn

\* Expand takes the first template whose name is the same but for case.
RunTemplate(key, args, always) ==
    LET t == TemplatesOf(key)[1]
        parsed == ParseArgs(CommandLine(args, always))
        text == Substitution(t.body, parsed)
    IN  /\ UseCommand(key) /\ key \notin BuiltinKeys /\ TemplatesOf(key) # <<>>
        /\ \/ /\ \E i \in DOMAIN t.body : Panics(t.body[i], parsed)
              /\ cameTo' = Outcome("user", key, "panic", {t}, args, <<>>)
              /\ UNCHANGED skillTurn
           \/ /\ \A i \in DOMAIN t.body : ~Panics(t.body[i], parsed)
              /\ BlankPrompt(text)
              /\ cameTo' = Outcome("user", key, "refused", {t}, args, text)
              /\ UNCHANGED skillTurn
           \/ /\ \A i \in DOMAIN t.body : ~Panics(t.body[i], parsed)
              /\ ~BlankPrompt(text)
              /\ cameTo' = Outcome("user", key, "template", {t}, args, text)
              /\ skillTurn' = [NoTurn EXCEPT !.on = TRUE]

\* expandSkillSlash reads the skills again and wants a valid one.
RunSkill(name) ==
    LET key == SkillKeyOf[name]
        byName == MergeDefinitions(skillDirs)
    IN  /\ UseCommand(key) /\ key \notin BuiltinKeys /\ TemplatesOf(key) = <<>> /\ IsSkillKey(key)
        /\ \/ /\ name \in DOMAIN byName /\ byName[name].valid
              /\ cameTo' = Came("user", key, "skill", {byName[name]})
              /\ skillTurn' = [NoTurn EXCEPT !.on = TRUE]
           \/ /\ name \in DOMAIN byName => ~byName[name].valid
              /\ Refused("user", key) /\ UNCHANGED skillTurn

RunUnknown(key) ==
    /\ UseCommand(key)
    /\ key \notin BuiltinKeys /\ TemplatesOf(key) = <<>> /\ ~IsSkillKey(key)
    /\ cameTo' = Came("user", key, "unknown", {})
    /\ UNCHANGED skillTurn

\* A slash in the input lists the commands.
TypeSlash ==
    /\ ~slashList.loaded
    /\ Meanwhile
    /\ EnsureListed
    /\ UNCHANGED <<skillDirs, templateDirs, prompted, skillTurn, asked, fileWrites, started>>

-----------------------------------------------------------------------------
(* Turns and the Skill tool. *)

BeginSkillTurn ==
    /\ ~skillTurn.on /\ Meanwhile
    /\ skillTurn' = [NoTurn EXCEPT !.on = TRUE]
    /\ UNCHANGED <<skillDirs, templateDirs, slashList, prompted, asked, fileWrites,
                   seen, started>>
EndSkillTurn ==
    /\ skillTurn.on /\ Meanwhile
    /\ skillTurn' = NoTurn
    /\ UNCHANGED <<skillDirs, templateDirs, slashList, prompted, asked, fileWrites,
                   seen, started>>

\* Invoke: every call counts, also one that fails then.
CallSkill(name) ==
    LET byName == MergeDefinitions(skillDirs)
        given == /\ skillTurn.calls < MaxNestingDepth
                 /\ name \in DOMAIN byName /\ ~byName[name].hidden /\ byName[name].inline
    IN  /\ skillTurn.on /\ asked < MaxAsked
        /\ asked' = asked + 1
        /\ skillTurn' = [skillTurn EXCEPT !.calls = IF @ < MaxNestingDepth THEN @ + 1 ELSE @]
        /\ \/ /\ given
              /\ cameTo' = Came("agent", SkillKeyOf[name], "skill", {byName[name]})
           \/ ~given /\ Refused("agent", SkillKeyOf[name])
        /\ UNCHANGED <<skillDirs, templateDirs, slashList, prompted, fileWrites, seen, started>>

-----------------------------------------------------------------------------
(* The files, and a new session. *)

WriteSkill(slot, f) ==
    /\ fileWrites < MaxWrites /\ Meanwhile
    /\ fileWrites' = fileWrites + 1
    /\ skillDirs' = [skillDirs EXCEPT ![slot] = [f EXCEPT !.version = fileWrites + 1]]
    /\ UNCHANGED <<templateDirs, slashList, prompted, skillTurn, asked, seen, started>>

WriteTemplate(scope, i, t) ==
    /\ fileWrites < MaxWrites /\ Meanwhile
    /\ fileWrites' = fileWrites + 1
    /\ templateDirs' = [templateDirs EXCEPT ![scope][i] = [t EXCEPT !.version = fileWrites + 1]]
    /\ UNCHANGED <<skillDirs, slashList, prompted, skillTurn, asked, seen, started>>

RestartSession ==
    /\ slashList' = NotListed /\ seen' = NotSeen
    /\ prompted' = Discovered(skillDirs, FALSE) /\ started' = skillDirs
    /\ skillTurn' = NoTurn /\ cameTo' = NoOutcome
    /\ UNCHANGED <<skillDirs, templateDirs, asked, fileWrites>>

SkillsInit ==
    /\ skillDirs \in SkillLayouts /\ templateDirs \in TemplateLayouts
    /\ slashList = NotListed /\ seen = NotSeen
    /\ prompted = Discovered(skillDirs, FALSE) /\ started = skillDirs
    /\ skillTurn = NoTurn /\ cameTo = NoOutcome /\ asked = 0 /\ fileWrites = 0

SkillsNext ==
    \/ \E key \in BuiltinKeys : RunBuiltin(key)
    \/ \E i \in DOMAIN PromptNames, args \in ArgLists, always \in BOOLEAN :
         RunTemplate(KeyOf[PromptNames[i]], args, always)
    \/ \E name \in DOMAIN SkillKeyOf : RunSkill(name) \/ RunUnknown(SkillKeyOf[name]) \/ CallSkill(name)
    \/ \E i \in DOMAIN PromptNames : RunUnknown(KeyOf[PromptNames[i]])
    \/ TypeSlash \/ BeginSkillTurn \/ EndSkillTurn \/ RestartSession
    \/ \E slot \in DOMAIN skillDirs, f \in SkillFiles : WriteSkill(slot, f)
    \/ \E scope \in TemplateScopes, i \in DOMAIN PromptNames :
         \/ WriteTemplate(scope, i, NoTemplate)
         \/ \E body \in Bodies : WriteTemplate(scope, i, [there |-> TRUE, body |-> body, version |-> 0])

SkillsSpec == SkillsInit /\ [][SkillsNext]_skillsVars

-----------------------------------------------------------------------------
\* The SKILL.md of a name that no later one replaces.
InForce(name) ==
    {skillDirs[i] : i \in {j \in DOMAIN skillDirs :
        /\ skillDirs[j].there /\ skillDirs[j].name = name
        /\ \A k \in DOMAIN skillDirs : k > j /\ skillDirs[k].there => skillDirs[k].name # name}}
OnTheList(t) ==
    \E i \in DOMAIN PromptNames :
      /\ PromptNames[i] = t.name
      /\ seen'.templates[t.scope][i] = [there |-> TRUE, body |-> t.body, version |-> t.version]
      /\ t.scope = "global" => ~seen'.templates["project"][i].there
SomeFile(key) ==
    \/ \E scope \in TemplateScopes, i \in DOMAIN PromptNames :
         KeyOf[PromptNames[i]] = key /\ seen'.templates[scope][i].there
    \/ \E i \in DOMAIN seen'.skills : seen'.skills[i].there /\ SkillKeyOf[seen'.skills[i].name] = key

\* What a placeholder means for the arguments the user had in mind.
Meaning(p, args) ==
    CASE IsSlice(p) ->
           LET named == {i \in DOMAIN args : i >= p.from /\ (p.mark = "slice" =>
                           i < (IF p.from < 1 THEN 1 ELSE p.from) + p.count)}
           IN  ElementsAt(args, named)
      [] OTHER -> Substituted(p, args)
TextMeant(o) ==
    LET args == ElementsAt(o.args, {i \in DOMAIN o.args : o.args[i] # <<>>})
        body == (CHOOSE t \in o.from : TRUE).body
    IN  IF o.kind = "panic"
        THEN \E i \in DOMAIN body : IsSlice(body[i]) /\ body[i].from - 1 + body[i].count > MaxInt
        ELSE o.text = [i \in DOMAIN body |-> Meaning(body[i], args)]

UserGets(o) ==
    /\ o.key \in BuiltinKeys <=> o.kind = "builtin"
    /\ o.args # <<>> \/ o.text # <<>> => TextMeant(o)
    /\ o.kind = "template" => \A t \in o.from : KeyOf[t.name] = o.key /\ OnTheList(t)
    /\ o.kind = "skill" => \E name \in DOMAIN SkillKeyOf :
                             SkillKeyOf[name] = o.key /\ InForce(name) = o.from
    /\ o.kind = "refused" /\ o.from = {} => \E name \in DOMAIN SkillKeyOf :
         SkillKeyOf[name] = o.key /\ \A f \in InForce(name) : ~f.valid
    /\ o.kind = "unknown" => ~SomeFile(o.key)

AgentGets(o, name) ==
    /\ o.kind = "skill" =>
         /\ InForce(name) = o.from
         /\ \A f \in o.from : ~f.hidden /\ f.inline
         /\ started = skillDirs => name \in prompted
         /\ skillTurn.calls < MaxNestingDepth
    /\ o.kind = "refused" /\ name \in prompted /\ skillTurn.calls < MaxNestingDepth =>
         started # skillDirs \/ \E f \in InForce(name) : ~f.inline

\* What a slash command or a call of the Skill tool yields is what the files
\* say.  A built-in name is always the built-in command; a template is the one
\* listed, the project's if it has one of that very name, with each placeholder
\* meaning its part of the arguments, quoted or not, but for lengths next to the
\* largest integer, which may end the program; a skill is the one of the last scope that has it, as it
\* is now; a name some listed file has is not unknown.  The model gets no skill
\* it may not call, and each skill the prompt names, if it is inline, the turn
\* has calls left and no file has changed since.
\* (discover.go:29-65, invoke.go:9-26, template/load.go:11-36, args.go:14-98,
\* command.go:106-160, 199-230)
NamesMeanFiles ==
    [][asked' # asked =>
         IF cameTo'.by = "user" THEN UserGets(cameTo')
         ELSE \A name \in DOMAIN SkillKeyOf :
                SkillKeyOf[name] = cameTo'.key => AgentGets(cameTo', name)]_skillsVars
=============================================================================
