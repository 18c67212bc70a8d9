------------------------------ MODULE Palette ------------------------------
(***************************************************************************)
(* The list under the input line: slash commands, their arguments, and the *)
(* files a mention may name (internal/renderer/commands.go, mentions.go,   *)
(* internal/command, internal/mention).  Names are sequences of letters;   *)
(* a query matches the names it is a subsequence of, as in pkg/core/fuzzy, *)
(* but of the ranking only the order of equal scores is kept.  The cursor  *)
(* is at the end; aliases, descriptions and directories are left out.      *)
(***************************************************************************)
EXTENDS Integers, Sequences, SequencesExt, Lists

CONSTANTS
    Letters,      \* what names are made of
    Files,        \* the paths of the index, a sequence
    SlashNames,   \* the names of commands, skills and templates, a sequence
    ArgsOf,       \* the arguments a command offers, by name; none for most
    Hinted,       \* the names with an ArgumentHint
    PaletteRows,  \* maxSuggestions: 8
    MaxQuery      \* bound: letters of a query

Names == Seq(Letters)

ASSUME PaletteConstants ==
    /\ Files \in Seq(Names) /\ SlashNames \in Seq(Names) /\ <<>> \notin ToSet(Files)
    /\ ArgsOf \in [ToSet(SlashNames) -> Seq(Names)]
    /\ PaletteRows \in Nat \ {0}

VARIABLES
    typed,    \* the input line: what it starts with ("" for nothing, "words" for
             \* text without a list), the query, is there a space, the argument
    offered, \* m.suggest: see NothingOffered
    index,   \* the file index: "none", "loading", "loaded", or "lost" when a
             \* dialog swallows mentionIndexMsg
    ran,     \* the slash command of the last Enter and what was typed for it
    orphaned \* history: m.suggest still has parts made for a text that is gone

paletteVars == <<typed, offered, index, ran, orphaned>>

NoText == [mark |-> "", query |-> <<>>, spaced |-> FALSE, arg |-> <<>>]
Words == [NoText EXCEPT !.mark = "words"]
WithMark(m, q) == [NoText EXCEPT !.mark = m, !.query = q]

\* The list and its kind, the highlighted row from 0, and of a mention the query
\* that filters the list, the query seen last, and if the user moved the row.
NothingOffered == [kind |-> "none", list |-> <<>>, row |-> 0, filter |-> <<>>,
                   active |-> <<>>, chosen |-> FALSE]

Subsequence(q, name) ==
    \E at \in [DOMAIN q -> DOMAIN name] :
      \A i \in DOMAIN q : name[at[i]] = q[i] /\ (i > 1 => at[i - 1] < at[i])
Suggested(q, names) == ElementsAt(names, {i \in DOMAIN names : Subsequence(q, names[i])})
Top(names) == SubSeq(names, 1, IF Len(names) < PaletteRows THEN Len(names) ELSE PaletteRows)
RowNamed(list, name) == SelectInSeq(list, LAMBDA x : x = name) - 1
Listed(list, name) == name \in ToSet(list)
HasList(o) == o.list # <<>>
Picked(o) == o.list[o.row + 1]

IsCommand(q) == Listed(SlashNames, q)
Structured(q) == IsCommand(q) /\ ArgsOf[q] # <<>>
RequiresArgs(q) == Structured(q) \/ q \in Hinted

\* SuggestArgs and ArgChoiceIndex: an exact argument shows them all.
SyncArgs(t, base) ==
    LET args == ArgsOf[t.query]
        exact == Listed(args, t.arg)
        list == IF exact THEN args ELSE Suggested(t.arg, args)
    IN  [base EXCEPT !.kind = "arg", !.list = list,
                     !.row = IF exact THEN RowNamed(list, t.arg) ELSE 0]

\* syncSlashSuggestionsOnly.  The row outlives a change of the query.
SyncSlash(t, o) ==
    LET base == [NothingOffered EXCEPT !.active = o.active, !.chosen = o.chosen]
        list == Top(Suggested(t.query, SlashNames))
    IN  IF Structured(t.query) THEN SyncArgs(t, base)
        ELSE IF IsCommand(t.query) THEN base
        ELSE [base EXCEPT !.kind = "command", !.list = list,
                          !.row = IF o.kind = "command" /\ o.row < Len(list) THEN o.row ELSE 0]

\* Faulty variant of RowFor: a new query leaves the row where it was.
RowForKept(t, o, list) == o.row

\* The row of a path written in full, or the first, once the query changes.
RowFor(t, o, list) ==
    IF t.query = o.active THEN o.row
    ELSE IF Listed(list, t.query) THEN RowNamed(list, t.query) ELSE 0

\* syncMentionSuggestions once the index is there.  A query that is a path may
\* be a preview of the list, so the filter stays.
SyncMention(t, o) ==
    LET filter == IF Listed(Files, t.query) THEN o.filter ELSE t.query
        list == Top(Suggested(filter, Files))
        row == RowFor(t, o, list)
    IN  [kind |-> "mention", list |-> list, filter |-> filter, active |-> t.query,
         chosen |-> o.chosen /\ t.query = o.active,
         row |-> IF row < Len(list) THEN row ELSE 0]

\* syncInputSuggestions for text t, with o and i the state before it.
Sync(t, o, i) ==
    CASE t.mark = "/" -> SyncSlash(t, o)
      [] t.mark = "@" ->
           LET m == IF o.kind = "mention" THEN o
                    ELSE [o EXCEPT !.kind = "mention", !.list = <<>>, !.row = 0]
           IN  IF i = "loaded" /\ Files # <<>> THEN SyncMention(t, m)
               ELSE [m EXCEPT !.list = <<>>]
      [] OTHER        -> NothingOffered

\* An edit or palette key leaves t in the input and o in m.suggest, and then
\* finalizeInputEdit brings the list up to date; a mention asks for the index.
Finalize(t, o) ==
    /\ typed' = t
    /\ offered' = Sync(t, o, index)
    /\ index' = IF t.mark = "@" /\ index = "none" THEN "loading" ELSE index
    /\ orphaned' = (orphaned /\ offered' # NothingOffered)

PaletteInit ==
    /\ typed = NoText /\ offered = NothingOffered /\ index = "none"
    /\ ran = [name |-> <<>>, query |-> <<>>] /\ orphaned = FALSE

-----------------------------------------------------------------------------
(* Keys that edit the input. *)

TypeMark(m) == typed.mark = "" /\ Finalize(WithMark(m, <<>>), offered) /\ UNCHANGED ran

PasteToken(m, q) == typed.mark = "" /\ Finalize(WithMark(m, q), offered) /\ UNCHANGED ran

TypeLetter(c) ==
    /\ Len(typed.query) + Len(typed.arg) < MaxQuery
    /\ \/ typed.mark \in {"/", "@"} /\ ~typed.spaced
          /\ Finalize([typed EXCEPT !.query = Append(@, c)], offered)
       \/ typed.spaced /\ Finalize([typed EXCEPT !.arg = Append(@, c)], offered)
       \/ typed.mark = "" /\ Finalize(Words, offered)
    /\ UNCHANGED ran

\* A space ends a mention and begins the arguments of a command.
TypeSpace ==
    /\ typed.mark \in {"/", "@"} /\ ~typed.spaced
    /\ Finalize(IF typed.mark = "@" THEN Words ELSE [typed EXCEPT !.spaced = TRUE], offered)
    /\ UNCHANGED ran

EraseLast ==
    /\ typed.mark \in {"/", "@"}
    /\ Finalize(CASE typed.arg # <<>>   -> [typed EXCEPT !.arg = Front(@)]
                  [] typed.arg = <<>> /\ typed.spaced -> [typed EXCEPT !.spaced = FALSE]
                  [] typed.arg = <<>> /\ ~typed.spaced /\ typed.query # <<>> ->
                       [typed EXCEPT !.query = Front(@)]
                  [] OTHER -> NoText, offered)
    /\ UNCHANGED ran

\* A newline ends a mention too, but the list is not brought up to date.
NewlineInMention ==
    /\ typed.mark = "@"
    /\ typed' = Words
    /\ orphaned' = (offered # NothingOffered)
    /\ UNCHANGED <<offered, index, ran>>

\* resetInput leaves m.suggest alone: Ctrl-C twice, or a prompt is sent.
ClearInput ==
    /\ typed # NoText
    /\ typed' = NoText
    /\ orphaned' = (offered # NothingOffered)
    /\ UNCHANGED <<offered, index, ran>>

-----------------------------------------------------------------------------
(* Keys the palette takes: with a list of mentions wherever the cursor is,  *)
(* with any other list while the text is a slash command.                   *)

InMentions == offered.kind = "mention" /\ HasList(offered)
InCommands == offered.kind = "command" /\ HasList(offered) /\ typed.mark = "/"
InArgs == offered.kind = "arg" /\ HasList(offered) /\ typed.mark = "/"
Turned(o, step) ==
    [o EXCEPT !.row = (@ + (IF step = 1 THEN 1 ELSE Len(o.list) - 1)) % Len(o.list)]

\* confirmMention and mentionTab: the path takes the place of the mention,
\* unless the text has none any more.
ConfirmMention ==
    /\ InMentions
    /\ IF typed.mark = "@" THEN Finalize(Words, NothingOffered) ELSE Finalize(typed, offered)
    /\ UNCHANGED ran

MoveMention(step) ==
    /\ InMentions
    /\ Finalize(typed, [Turned(offered, step) EXCEPT !.chosen = TRUE])
    /\ UNCHANGED ran

\* Shift-Tab: the path is previewed, the one above if one is shown already.
PreviewMention ==
    LET shown == typed.query # <<>> /\ Listed(offered.list, typed.query)
        o == IF shown THEN Turned(offered, -1) ELSE offered
        path == Picked(o)
    IN  /\ InMentions
        /\ IF typed.mark = "@" THEN Finalize(WithMark("@", path), [o EXCEPT !.active = path])
                              ELSE Finalize(typed, offered)
        /\ UNCHANGED ran

\* applyCommandCompletion, and confirmSlashCommand of a command with arguments.
CompletedCommand(name) == [WithMark("/", name) EXCEPT !.spaced = RequiresArgs(name)]
CompleteCommand ==
    /\ InCommands
    /\ Finalize(CompletedCommand(Picked(offered)), offered)
    /\ UNCHANGED ran

MoveCommand(step) == InCommands /\ Finalize(typed, Turned(offered, step)) /\ UNCHANGED ran

\* handleSlashCommand empties the typed.
RunSlash(name, q) == Finalize(NoText, offered) /\ ran' = [name |-> name, query |-> q]

ConfirmCommand ==
    LET name == Picked(offered) IN
    /\ InCommands
    /\ IF RequiresArgs(name) THEN Finalize(CompletedCommand(name), offered) /\ UNCHANGED ran
       ELSE RunSlash(name, typed.query)

\* cycleArgSelection: the first press shows the row, later ones the next.
CycleArg(step) ==
    LET o == IF typed.arg = <<>> THEN offered ELSE Turned(offered, step)
    IN  /\ InArgs
        /\ Finalize([typed EXCEPT !.spaced = TRUE, !.arg = Picked(o)], o)
        /\ UNCHANGED ran
ConfirmArg == InArgs /\ RunSlash(typed.query, typed.query)

\* trySubmitInput, which no list has taken the key from.
SubmitText ==
    /\ typed # NoText /\ ~InMentions /\ ~InCommands /\ ~InArgs
    /\ typed' = NoText
    /\ ran' = IF typed.mark = "/" THEN [name |-> typed.query, query |-> typed.query] ELSE ran
    /\ orphaned' = (offered # NothingOffered)
    /\ UNCHANGED <<offered, index>>

-----------------------------------------------------------------------------
\* loadMentionIndex answers; an open dialog swallows the message.
IndexArrives ==
    /\ index = "loading"
    /\ index' = "loaded" /\ offered' = Sync(typed, offered, "loaded")
    /\ UNCHANGED <<typed, ran, orphaned>>
IndexSwallowed ==
    /\ index = "loading"
    /\ index' = "lost"
    /\ UNCHANGED <<typed, offered, ran, orphaned>>

PaletteNext ==
    \/ \E m \in {"/", "@"} :
         TypeMark(m) \/ \E q \in ToSet(Files) \cup ToSet(SlashNames) : PasteToken(m, q)
    \/ \E c \in Letters : TypeLetter(c)
    \/ TypeSpace \/ EraseLast \/ NewlineInMention \/ ClearInput
    \/ ConfirmMention \/ PreviewMention \/ CompleteCommand \/ ConfirmCommand
    \/ \E step \in {-1, 1} : MoveMention(step) \/ MoveCommand(step) \/ CycleArg(step)
    \/ ConfirmArg \/ SubmitText \/ IndexArrives \/ IndexSwallowed

PaletteSpec == PaletteInit /\ [][PaletteNext]_paletteVars

-----------------------------------------------------------------------------
\* What Enter takes is what the text says: a path or argument written in full,
\* if the list shows it and the arrows were not used, otherwise a row that
\* matches the text or, while a path is previewed, the filter the list was
\* made for; a command that ran matches what was typed for it.  The highlighted
\* row is one of the list.  Only a mention typed after another was cleared away
\* under its list may find the row of that one.
\* (commands.go:131-164, 245-282, mentions.go:36-92, command/args.go:112-136)
HighlightFits ==
    /\ HasList(offered) => offered.row < Len(offered.list)
    /\ InMentions /\ typed.mark = "@" =>
         /\ Listed(offered.list, typed.query) /\ ~offered.chosen /\ ~orphaned
              => Picked(offered) = typed.query
         /\ Subsequence(offered.filter, Picked(offered))
         /\ offered.filter = typed.query \/ Listed(Files, typed.query)
    /\ InArgs => IF Listed(ArgsOf[typed.query], typed.arg) THEN Picked(offered) = typed.arg
                 ELSE Subsequence(typed.arg, Picked(offered))
    /\ InCommands => Subsequence(typed.query, Picked(offered)) /\ ~IsCommand(typed.query)
    /\ Subsequence(ran.query, ran.name)
=============================================================================
