# A verification project for Elph

Elph is a terminal coding agent in Go: a Bubble Tea UI, an agent loop that talks to a model
provider and runs tools, and the stores around them. These TLA+ modules model its core, TLC checks
them on small instances, and TLAPS proves the central theorems for all values of the constants.

    tlc -config AgentTurnSafety.cfg MCAgentTurn      # check a run (PROJECT.json lists them)
    tlapm AgentTurnProofs.tla                        # check the proofs of a module

Contents: 1 Inventory, 2 Modules, 3 Runs (bounds, fairness), 4 Proofs, 5 Not modelled, 6 What is left.

## 1. Inventory

The user types into the *renderer* (`internal/renderer`, one goroutine, one message at a time). It
starts *turns* of the agent (`pkg/core/agent`, a goroutine each) through the *session*
(`internal/runtime/session`) and reads their events from a channel. A turn calls a *provider client*
(`pkg/ai`), runs *tools* (`internal/runtime/exec`, `pkg/tools`) and blocks on a *bridge*
(`internal/toolinteract`) when one needs the user. Settings, provider files, todo snapshots, skills,
templates and the datastore are files that several processes and the user's editor share.

| Component | State | Operations | Hard because | What makes it correct | Where |
|---|---|---|---|---|---|
| turn loop and provider retry | messages, step, request, attempt, compactions, event channel, context | RunTurn, provider rounds, retry, overflow compaction, runToolCall | cancelled anywhere; a channel that may be full; nested loops with several budgets | answered histories, approval before execution, event protocol, always ends | `AgentTurn`, `TurnContract` |
| history and compaction | none (pure) | truncate, strip images, drop oldest turns, compact to a ratio | boundaries of turns, calls and their results | a result stays with its call | `History` |
| event pump of the renderer | events, cancel, busy, pending flush, reader goroutines, posted messages | readers, drain loop, handlers, start, cancel, replace | several readers; messages without identity of their turn | nothing lost, never deaf, Esc works, changes painted | `EventPump` |
| tool gate | bridge (inbox, session approval, denials), pending dialog | Interact, WaitOffer, open and answer dialogs | the agent blocks on the UI; late offers; one screen, three kinds of dialog | no tool without consent, every wait can be answered | `ToolGate` |
| tool dialog forms | fields, focus, values | parse a question, keys, response | a model's malformed options; values saved on focus | the agent is told what the user chose | `Dialogs` |
| message list of the UI | messages, seven indexes into them | append, remove, notice, boxes | indexes shift on removal; dialogs swallow messages | every index names its message | `Screen` |
| shell runner | slots, process, reader, result | run, cancel, time out, kill | three goroutines per command; children keep the terminal | slots returned, honest result | `ShellRunner` |
| stream filters | carry-over of a partial tag | feed, flush, scrub | tags split anywhere | cutting the text changes nothing | `StreamText` |
| provider streams, stall watch, SSE reader | timer, attempt, partial answer | stream, stall, fall back | timer against chunk; three attempts | what was shown is the answer | `ProviderStream` |
| goal manager | goal, budgets, counters | create, update, record, cancel | no lock, two callers, check then change | rounds counted, ended by whom it should | `Goals` |
| todo list | slice, snapshot file, announced | write, save, announce, clear, restore | no lock; UI lags behind | open items survive | `TodoStore` |
| datastore migrator | tables, record of versions | open, migrate | two processes, crashes | each once, in order | `Migrator` |
| session | options of a turn | start a turn, restart | glue | see its parts | `TodoStore`, `Goals`, `Skills` |
| file tools | one file | Read, Write, Edit | another writer between read and write | honest results | `FileTools` |
| settings | two JSON files | load, merge, update, save | read, change, write back by several processes | what was asked for last stays | `SettingsStore` |
| provider files, catalog, models sync | provider files, flags, metadata | connect, enable, sync | long read-modify-write around the network | the user's choices survive | `ProviderFiles` |
| model resolution and thinking levels | provider, model, level | resolve, switch, cycle, ask | several catalogs of one file | the footer tells the truth | `ModelChoice` |
| input, paste, attachments, draft | text, folded blocks, images, draft | edit, paste, pick a model, send | the picker borrows the input | nothing typed is lost | `Composer` |
| model picker | query, filter, row, window | type, move, filter, confirm | list changes under the row | Enter takes what is seen | `ModelPicker` |
| message view and caches | block cache, prefix, Markdown jobs | render, freeze, theme, width | three caches, background results | nothing stale is painted | `Transcript` |
| scrolling, sticky prompt, mouse | offset, heights | scroll, click, drag | the prompt changes the page it sticks to | rows and lines agree | `Viewport` |
| slash palette and mentions | text, list, row, file index | type, move, complete, run | the list lags the text | Enter takes what is seen | `Palette` |
| skills | files in five scopes | discover, list, invoke | listed, named in the prompt and read at three times | names mean files | `Skills` |
| prompts and templates | files in two scopes, cached list | load, expand | shadowing, quoting, slices | names mean files | `Skills` |
| slash command handlers | saved system prompt, goal, switch | dispatch | restored on every way a turn ends | the prompt survives | `Screen`, `Goals`, `ModelChoice`, `Skills` |
| turn log and command registry of the agent; settings version check; network tools and web search; other provider clients; markdown renderer; tool schemas, catalog and exposure; session log; small libraries; command line | mostly none | formatting, tables, I/O | | | section 5 |

PROJECT.json lists every component with what is modelled of it, and under "hazards" each place
where this code can go wrong in a way a test would hardly reach, with the properties that watch it.

## 2. Modules

| Modules | What |
|---|---|
| `History`, `AgentTurn`, `TurnContract`, `AgentTurnProps`, `MCAgentTurn` | one turn and what it promises |
| `EventPump`, `EventPumpProps`, `MCEventPump` | events on their way to the screen |
| `ToolGate`, `ToolGateProps`, `MCToolGate` | consent to tool calls |
| `Screen`, `ScreenProps`, `MCScreen` | the UI as one sequential process |
| `ShellRunner`, `Migrator`, `Goals`, `TodoStore`, `ProviderStream`, `StreamText`, `SettingsStore`, `ProviderFiles`, `Composer`, `ModelPicker`, `FileTools`, `Transcript`, `Viewport`, `Palette`, `Dialogs`, `ModelChoice`, `Skills` | one part each, with its property |
| `Components`, `MCComponents` | those seventeen side by side |
| `Lists` | what a loop keeps that filters a list, and what a loop comes to that repeats a step |
| `AgentTurnProofs`, `EventPumpProofs`, `ToolGateProofs`, `ScreenProofs` | proofs about the turn with its history, the pump and the streamed text it shows, the gate and the screen |
| `StoreProofs`, `RuntimeProofs`, `InterfaceProofs` | proofs about the parts: what is stored (`SettingsStore`, `Migrator`, `TodoStore`, `ProviderFiles`, `Skills`), what runs beside and below the turn and which model it asks (`ShellRunner`, `Goals`, `FileTools`, `ProviderStream`, `ModelChoice`, `ModelPicker`), what the user works with (`Composer`, `Transcript`, `Palette`, `Dialogs`, `Viewport`) |
| `ListFacts` | lemmas about numbers and lists that several proofs use |

Operators whose comment begins "Faulty variant of" are not part of the models. They are plausible
mistakes; replacing a definition by one of them breaks a property, which shows that the property
says something about that code.

How they compose. `AgentTurn` implements `TurnContract` (checked and proved); `EventPump` and `Screen` use
turns that do what the contract allows. `EventPump` has all readers and messages of a turn, `ToolGate` all
bridges and dialogs, and `Screen` the message list and the other activities of the UI, with events in order and
consent reduced to a few states: each leaves out what the others have. The parts under `Components`
share nothing at this level; a behaviour exercises one of them, so their states add up and do not multiply.

### AgentTurn
The goroutine of `RunTurn` has a program counter `pc`. `pc = "stepTop"` is the head of the `for` in
`runProviderLoop`, `"attempt"` that of `completeProviderWithRetry`, and the locations `toolActivity` to
`toolDone` are one pass of the loop over tool calls. The variables are the Go variables of the same
name. `sendEvent` is `SendEvent`: it needs room in the buffer or a cancelled context, and if both hold
either branch of the `select` may be taken. Where the code ignores its result the model uses
`SendIgnored`. `open`, `ended` and `approved` are history variables. The environment is one action
each: `CallAnswers`, `CallAsksForTools` and `CallFails` for the provider, `ToolReturns` for tools,
`InteractApproves`, `InteractResolves` and `InteractAborts` for the host, `Receive` for the reader and
`Cancel` for the context.

`ToolRoundCountsTowardLimit` looks at the names of the tools only, as the code does: a round of AskUser calls is not
counted even if their arguments do not parse (`Unparsable`) and they are answered without the user.

A message keeps its role, size, class of text, whether it has images, and its place among the calls
and results of its round. `Answered(ms)` says that each assistant message with calls is followed by
exactly its results. The IDs of tool calls are their positions.

### TurnContract
Four variables: the life of the channel, the tool call that is open, whether the turn was stopped and
whether the provider broke it off. `ImplementsContract` is the refinement: every step of `AgentTurn`
is a step of the contract or a stutter. In particular a turn that was neither cancelled nor broken off
does not close its channel silently (`NoSilentEnd`, a theorem of its own).

### EventPump
The UI is one process that handles one message at a time; each Cmd is a goroutine. `Send` and `Close`
are the turn; `WaitReceive` and `WaitClosed` are a reader goroutine, counted in `readers`;
`HandleAgentEvent` followed by the `Drain...` actions is `handleAgentEvent`, whose loop over the
channel is interleaved with the turn and with other readers. `Apply` is `applyAgentEvent` with
everything it calls, by kind of event. Messages are a set without order, because Bubble Tea runs each
Cmd in its own goroutine. Messages do not say which turn they come from in the code; the model
records the turn of an event only for the properties. `drained` and `cmds` are the locals of the drain loop.

### ToolGate
`Interact`, `PutOffer`, `TakeReply` and `Abort` are the steps of `Bridge.Interact`, cut where it
blocks. `WaitOffer` is the watcher goroutine. `OpenDialog` and `SwallowOffer` are what `Update` does
with an offer, depending on what is on screen. `AnswerDialog` is `completeToolInteractWith` and
`completeToolInteractForm`, with every record they make. `pending`, `QueueMarkup`,
`HandleMarkupAskUser`, `AnswerMarkup` and `DismissMarkup` are questions asked in markup, and
`syncForm` is the models sync form, which shares the screen. `bridge` is the bridge the UI knows,
named by its turn. `resolved` stays `None` because `ensureResolvedAskUsers` has a value receiver
(toolinteract_bridge.go:285) and works on a copy, as the code does.

Denials and session approvals are written to the bridge the UI knows when the dialog is answered, which need not be the
bridge of the call. `noted` records the denials that came in time. The others, given after a stale TurnDone cleared
the bridge or after another turn replaced it, are lost to their turn, and the user may be asked again, though
docs/tools.md:155-156 promises that he is not; `DenialRemembered` promises it for `noted` only. In the same situation the dialog of
an earlier turn writes to the maps of the later turn's bridge, which no lock protects and which that turn's agent may be
reading: `BridgeWritesParked` names this as the one write it allows to a turn that is not parked. `Forsaken` is
a call whose turn the UI has forgotten and whose inbox nobody watches any more, which `ConsentComes` lets wait for ever.

### Screen
`list` is `m.messages` with the indexes kept into it (`ResponseMsgID`, `ThinkingMsgID`, `ActiveToolMsgID`,
the shell's, the models sync's, the Ctrl-C notice's); a message remembers for which purpose it was made (`own`)
and who wrote it last (`writer`), which is what `IndexesExact` and `TextFromOwner` compare. `Sessions` are
the sets of activities explored together. Known mishaps of the code are recorded
(`list.shifted`, `mishaps`), so that the properties say what holds while none has happened. Left out: todo and AskUser
calls, which have no box; the branch of `cancelAgentTurn` for an open dialog, which no key reaches;
a stale chunk of an earlier command; two Ctrl-C timers at once; what the readers of a turn left behind by
the palette do. The second search for markup calls in `finishAgentTurn` is taken to find nothing new.

### The seventeen parts
| Module | One step is | Its property | Left out or excluded |
|---|---|---|---|
| `ShellRunner` | one step of a command's goroutine, its reader, its process or the context | `ShellOutcome`: slots neither lost nor made, a killed command never succeeds, no process outlives its result | what the terminal prints |
| `Migrator` | one transaction of a process, or its death | `MigratedInOrder`: schema = record, once each, none below a recorded one missing, an open database has all of its release | one Go `sync.Once` per process; versions registered late and low are skipped by the code |
| `Goals` | half a call of the manager: the look, then the change | `GoalKept`: tokens of all rounds counted, only replace and cancel remove a goal, no call finds its goal gone | callers that overtake each other, which is where it goes wrong (no lock) |
| `TodoStore` | a tool call's start, write and save; a handler of the UI | `TodosKept`: one announcement, open items never cleared, the file holds the list at rest | changes of a turn and of the UI that cross, which is where it goes wrong |
| `ProviderStream` | one event of the stream, the stall timer, the user's cancellation at any time, the end of an attempt | `StreamFaithful`: what was shown of the answering attempt is the answer; an attempt the user cancelled is the last | wire formats |
| `StreamText` | one chunk, cut anywhere | `StreamClean`: no markup on screen, thinking exact, each call recorded | `toolcall_smart.go` |
| `SettingsStore` | a read, a truncation or a write of one process, or its death | `SettingsKept`: of the fields `mergeSettings` names, what was asked for last; the others never take effect from home and are never saved | overlapping changes, deaths in one; three fields stand for the kinds of fields |
| `ProviderFiles` | the same for provider files, and the network's answer | `ProvidersKept`: flags survive syncs, live lists are cleared | overlapping writers; models a sync dropped (they come back switched on); files `connect` shadows; prices and limits |
| `Composer` | a key, a paste, the end of a turn | `DraftKept`: text and files of images survive | five slips that lose some: an image pasted, or removed, while the picker is open; a picker over a picker; the input cleared under it; `/model` typed beside images. Cursor, newlines |
| `ModelPicker` | a key | `HighlightHolds`: the row is listed, visible and stays on its model | scores (any subset may match) |
| `FileTools` | half a tool call, half a write, which may fail anywhere, or a write of somebody else | `ToolsHonest`: an edit changed what it counted; an error left the file as it was, or a beginning of an append added, or, once truncated, a beginning of the new text; an end of file is the end | `line_offset` 0; Grep, Glob |
| `Transcript` | a message's change, a frame, a background job | `PaintedFresh`: text, width and theme of now | Markdown rendered before a switch of theme; Markdown that arrives under a frozen prefix; drawing |
| `Viewport` | scrolling, resizing, a click | `ViewMapped`: every line reachable, rows and lines agree, thumb within its bar | last pages that do not settle; viewports of two sticky prompts or less; clicks on the last page; selection |
| `Palette` | a key, the file index arriving or being swallowed | `HighlightFits`: Enter takes what the text says | a list whose text was cleared away under it; aliases, directories, ranking; the cursor is at the end |
| `Dialogs` | a key of a form | `ToldAsChosen`: each key, row and text gives the answer it means; the user sees what was asked | three answers that are not what was pointed at last, and a description cut without a mark (below); the form library is external; `DescriptionLines` 3 for 6 |
| `ModelChoice` | a choice, a level, a change of files, a request | `ModelAsShown`: client, levels, request and restart agree with the footer | files changed since the choice; a pick from the trimmed catalog, which has no client; deepseek, never asked to think; several providers; budgets in settings; the API's rule on `max_tokens` |
| `Skills` | a command, a call of the Skill tool, an edit of a file, a restart | `NamesMeanFiles`: a name gives the file in force, a placeholder its arguments, the model nothing hidden | a slice length next to the largest integer, which panics; arguments with both kinds of quotes; activation layout |

In `ModelChoice` amounts of thinking are ranks, and thinking is taken to be shown.

`Dialogs`: `pressed` is the letter or digit that ended the dialog, so that `OnlyAsAsked` can tie an approval to its
row, letter or digit: the first and the second approve, the second for the session, what is not denied by the third is
cancelled by the fourth. `AnswerAsMeant` ties the answer of a question to the digit, row or text, and names where the
code does not: a choice that the focus had left counts before the row it came back to and, if it was Cancel,
before the text; an option that says "cancel" cancels unless its digit takes it; with options, "c" and the digits
of rows cannot be typed. A description cut after a line that does not fill the width bears no mark of it.
And docs/tui.md:446 and docs/tools.md:154 count Esc on an approval as a denial, while the form's own way out makes the answer
`Cancelled`, which is not remembered.

`SettingsStore`: the fields that `mergeSettings` leaves out are those of docs/configuration.md:110 and docs/tui.md:235, which tell
the user to set one of them in his home file; it never takes effect, and the next change of any setting erases it.

In `Skills`, `MaxNestingDepth` counts all calls of a turn, not how deep they nest, and
two template files whose names differ only in case hide each other by the order of the merged list, project or not.

## 3. Runs

| Run | Properties | Shows | Distinct states |
|---|---|---|---|
| `turn_safety` | `RequestsAnswered`, `ApprovedBeforeExecution`, `CompactedAtMostOnce`, `ImplementsContract` | all modes and kinds of tools, two counted rounds of up to two calls, any number of rounds of questions, four histories, one retry, compaction, cancellation anywhere | 4.2 M |
| `turn_live` | `CancelledTurnEnds`, `AttendedTurnEnds` | a cancelled turn ends with no reader and no host, unless a tool holds it; an attended turn ends by itself, unless the model goes on with questions for ever | 64 k |
| `pump_safety` | `EventsConserved`, `NeverDeaf`, `EscReachesTurn`, `PaintScheduled` | two turns of two events, buffer 1, drain limit 1, stale messages in any order | 1.0 M |
| `pump_live` | `TurnSettles`, `EveryEventApplied` | one turn of four events, buffer 2 | 9 k |
| `gate_safety` | `RanWithConsent`, `AnsweredOnce`, `DenialRemembered`, `WaitingIsVisible`, `BridgeWritesParked` | two gated calls, two turns, markup and models sync dialogs, every cancellation and late answer | 1.3 M |
| `gate_live` | `ConsentComes` | native, markup and models sync dialogs together, two calls and two turns | 0.6 M |
| `screen` | `IndexesExact`, `TextFromOwner`, `CommitSettled`, `CommandReported`, `RecordsKept` | two turns and a shell command, two activities at a time out of fourteen pairs | 1.3 M |
| `components` | the seventeen properties above | each part on bounds of its own | 0.8 M |

These runs are violated; each is a finding in PROJECT.json.

| Run | Property | What the code does |
|---|---|---|
| `pump_blocked` | `NeverBlocks` | a late closed message of an earlier turn detaches the UI from the running one |
| `gate_lost` | `OfferNotLost` | the models sync form swallows an offer |
| `screen_crash` | `NoCrash` | removing the Ctrl-C notice leaves the indexes below it, and the next delta indexes outside of the list |
| `commit_other` | `OnlyCommitsCommit` | a skill chosen in the palette during /commit has its answer committed |

### Bounds
Limits of the code are CONSTANTS (`MaxHistoryMessages`, `TurnEventBuffer`, `MaxDrainPerCycle`,
`MaxToolIterations`, `MaxRetries`, `OutputBuffer`, `PtySlots`, `PaletteRows`, `MaxNestingDepth`, `MaxInt`...) with small
values, chosen so that each limit is reached: a buffer of one event makes every send block, a drain limit of
one makes `DrainYield` happen, five messages make compaction cut inside two rounds of tools, an output
buffer of one with three chunks makes a runner block on a reader that is gone, one slot makes the second
command wait. Bounds that the code does not have are named as such in the modules:
`MaxCalls` (what the provider asks for in a round), `MaxTurns`, `MaxDialogs` (all that may open a dialog), `MaxForeign` (writes by others), `MaxEvents`, `MaxMarkup`, `MaxUpdates`, `MaxWrites`, and so on. Two
turns are enough for stale messages: what matters is that a message belongs to an earlier turn, not to
which. Two calls are enough for an answer to reach the wrong one, and two processes for a lost update.
In `components`: two commands on one slot; two openers of which one knows a later release; one goal turn
beside the user, two goals; two todo turns of two items; messages of two parts; answers of two segments in
chunks of up to three tokens; two processes with two updates; two models in one day of syncs; drafts of
two pieces and an image; five models in two groups and a window of two; files of two lines; three
messages at two widths; three blocks of up to four rows in viewports of 5, 7 and 8; queries of three
letters; four provider files; three template names in two scopes and two skill files that a
third step may replace. The proofs have no such bounds.

Deadlock is checked in all runs but `components`: its parts stop when their bounds are used up. In
the others `Over` is the state in which the bound on turns is reached and nothing is under way; it stutters.

### Fairness
- `AgentTurn!FairSpec`: the goroutine runs (`WF Run`). A provider returns infinitely often when called (`SF`):
  it gets the context and returns when it is done, its HTTP client has timeouts, and a stream has finitely many chunks.
  A tool is not fair: a shell command waits for a slot (shell.go:46) and for the end of its terminal
  (shell.go:111-116) without looking at the context. So `CancelledTurnEnds` says that nothing but a running tool that does not
  return (`HeldByTool`) can hold a cancelled turn. The reader and the host are not fair either: a cancelled turn must not need them.
- `AgentTurn!Attended` is the premise of `AttendedTurnEnds`: a reader, a host and tools that do their part.
  Rounds that only ask the user do not count towards the step limit, so the claim is that the turn ends or goes on
  with nothing but such rounds (`OnlyQuestions`) for ever; `turn_live` has such rounds without a bound.
- `EventPump!FairSpec`: goroutines and the Bubble Tea loop make progress. The user is not fair.
  `TurnSettles` and `EveryEventApplied` are checked for one turn: with two, the closed message of the
  first may detach the second (`pump_blocked`), and an event of a replaced turn stays in its channel.
- `ToolGate!FairSpec`: the same, and the user answers the dialog that is open. `ConsentComes` is checked with two calls and two
  turns, and names what breaks it: a swallowed offer (`gate_lost`) and a forsaken one.
- `Screen` and the parts of `Components` state no fairness; their properties are about safety.

## 4. Proofs

`AgentTurnProofs` first proves that compaction keeps a history answered (`CompactKeepsAnswered`,
`RatioKeepsAnswered`, `EntryKeepsAnswered`). The argument: what the code keeps is a suffix that starts at a
user message, or nothing (`DropUntilFitsIsACut`); a suffix of a linked list is linked
(`CutKeepsLinked`); truncation and stripping images change no role and no place in a round
(`TruncateKeepsShape`, `StripKeepsShape`). `CompactingTwiceChangesNothing`: what compaction returns
fits its limits and consists of small messages (`AllSmall`), and such a history is left alone. The size of
a history is a sum; that running totals exist (`TotalsExist`) is shown by a least counterexample, since the prover cannot use
the library's induction theorems, and `SizeMonotone` then compares the sizes of two cuts.

It then proves `TypeOK`, `RequestsAnswered`, `ApprovedBeforeExecution`, `NoSilentEnd`,
`CompactedAtMostOnce` and `ImplementsContract` for every provider, tool, host and value of the limits. The
inductive invariant is `TypeOK /\ HistoryInv /\ EventInv /\ ApprovedBeforeExecution`.
`RequestsAnswered` alone is not inductive, since inside a round the history is not answered: `Pending`
says how far the round is and that its last message is the one the next result follows. `EventInv`
ties `open`, `ended` and `lastErr` to the location, which is what the refinement needs to show that
every step is one of the contract or a stutter. `CompactedInv` adds that a request compacted once would not be changed
by a second compaction, from `CompactingTwiceChangesNothing`.

`EventPumpProofs` proves `NeverDeaf`, `EscReachesTurn`, `PaintScheduled` and `EventsConserved` for any number
of turns and events and any buffer. The inductive invariant is `Types /\ Attached /\ Listening /\ Painting`.
`Attached` relates `busy`, `events` and `cancelFunc`. `Listening` adds to `NeverDeaf` what the running
drain loop will return (`cmds`), and that a channel holds events of its own turn only. `Painting`
relates the pending flag, the ticks and dirty content. For `EventsConserved`, `Kept` says that an event
sent is in one place only - its channel, a message, the drain loop or the record of what was applied -
instead of counting.

It also proves `StreamClean`, for answers of any number of segments and chunks of any length. The argument is a reader, `Run`,
that takes one token at a time and needs no chunks: the split of a chunk does to the filter's state what the reader
does with the chunk (`SplitOn`), so after any chunks the filter is where the reader is after the part read
(`ChunkReads`), and `ExtractThinkTags` finds what the reader has as thinking (`ExtractRead`). What an answer tells
(`Told`) is what the reader keeps of it; that all its calls are whole (`WholeIn`) is shown for each piece and for pieces
joined. The filter of the calls lets no markup out because every mark in what it holds and in what is still to come lies behind the
beginning of a call that has not ended (`Covered`, `ChunkFiltered`). The loops of the filters are `Repeated` steps, which
settle because each makes the text shorter (`RepeatedSettles`), with whatever a step keeps (`RepeatedKeeps`). The
invariant `StreamInv` is `Waiting \/ Streaming \/ Finished`; `Streaming` says that some `R` has come out of the filter of the
tags and some `f` is still to come, which together are what the answer tells, and that what is held of calls is covered with `f`.
In the end each call of the answer is found a second time, by the scrub of the whole answer (`FunctionValue`).

`ToolGateProofs` proves `RanWithConsent`, `AnsweredOnce`, `WaitingIsVisible`, `DenialRemembered` and
`BridgeWritesParked` for any number of turns, calls and questions in markup, and for every order of
messages. The inductive invariant is `Types /\ Consent /\ Numbered /\ Fresh /\ AnsweredOnce /\
WaitingIsVisible`. `RanWithConsent` says nothing of an approval on its way: `Consent` adds that an
approval in a response channel was given to the very call that waits on it, and that a bridge or a turn
skips approval only after the session was allowed. `Numbered` tells offers apart by the number of their
call, which is what the fresh response channel of each `Interact` does in the code; `Fresh` says that an
offer not yet in the inbox is nowhere else. All steps of the UI that touch no offer share the lemma
`ScreenStep`. `GateOrder` strengthens this for the last two: the offer of a turn not cancelled is that of the call the turn is
parked with, a denial that was noted is in the map of its turn for good (`Noted`), and no call asks again for what that map has.
What they leave out is said above: denials that came too late to be noted, and the dialog of an earlier turn.

`ScreenProofs` proves `IndexesExact`, `TextFromOwner`, `CommitSettled`, `CommandReported` and `RecordsKept`
for any number of turns and commands and all activities together, where TLC takes them two at a time. A handler is a sequence of
operations on the list, so the proof follows the list through them: `Sound(l, c)` says of a list that every
index which is live in the context `c` names its message (`Placed`) and that texts are their owners'
(`Written`), unless a removal has shifted the list; each operation keeps it, in its context. That what a
turn adds lies below the notice of Ctrl-C is the part that is not obvious, and why removing the notice is the
mishap it is. `PromptInv` accounts for the saved system prompt on every way a turn can end, `ShellPlace` and
`OfferPlace` for the command and the approval on screen.

`StoreProofs`. `MigratedInOrder` for any number of processes, releases and crashes: beside
the state of the database (`DatabaseInv`) the invariant says what a process knows (`KnowledgeInv`): the version it
read is at most the highest recorded one, and what it has yet to apply lies above it.
`SettingsKept` for any number of processes, updates and edits by hand: what the two files may hold
(`FilesInv`), and, unless two updates raced or somebody died in one, that an updater has the file for itself
(`QuietInv`); no process ever holds a field `mergeSettings` does not name (`Unnamed`), so none is saved. `TodosKept`, while no changes cross: what the UI has yet to hear of stands between the list and its snapshot
(`SnapshotInv`), and between a list that is done and its announcement and clearing (`AnnouncedInv`,
`ClearedInv`). `ProvidersKept`: who has read a file knows which one (`HolderInv`); a file somebody
works with is there and stays whose it is (`PresentInv`); what was switched off and not dropped since is off in the
file that counts, unless writers overlapped (`FlagsInv`); and what a sync no longer has to do has nothing to offer (`SyncInv`).
`NamesMeanFiles`, an action property: what is merged is the last file of each name (`SkillsMerged`), what is listed is a file
and every file's name is listed (`TemplatesLoaded`); the parser, letter by letter, reads back what the user quoted
(`LineParsed`), and a slice that does not panic is the part it means (`SliceMeant`). The invariant says that the list is made of the
files there were when it was made.

`RuntimeProofs`. `ShellOutcome`: each command is in one place (`PlaceInv`), and the tokens in the semaphore are as many
as the commands that hold one. `GoalKept`, while no calls overtake each other: what a call has looked at is older than, or
is, the present goal (`SeenInv`), and while somebody alone records a round, his tokens are what is missing
(`Counting`). `ToolsHonest`, an action property: what a call holds between its steps is what it read
(`WorkInv`), and what a write holds is the new text that follows from it; a read is a window of the lines (`IsWindow`) from the front or from the end.
`StreamFaithful`: the request is accounted for before it is sent, since `SanitizeToolMessages` keeps a tool message only behind
its call (`Answered`, from the order of what it keeps); every piece collected was emitted, once and for this attempt
(`Collected`); an attempt that failed let the next one begin (`Accounted`);
and an attempt begun after the user cancelled shows and answers nothing (`Unheard`).
`ModelAsShown`: client and level are those of the model in the files (`ChoiceInv`); that clicks reach every level of the
model, in six at most, is shown by the distance that remains, modulo the number of levels (`Away`).
`HighlightHolds`: the groups a query leaves are groups (`Narrowed`), their concatenation is a list of models (`FlattenedRows`), and
every step ends by bringing row and window into place (`SyncedSees`).

`InterfaceProofs`. `DraftKept`: tokens in the text and blocks behind them belong together
(`TokenInv`), and numbers are never used twice (`FreshInv`). `PaintedFresh`: a cache, a frozen
prefix and a background job each say for which text, width and theme they were made (`CacheSound`,
`PrefixSound`, `JobsSound`), whatever was painted meanwhile (`PaintedWell`).
`HighlightFits`: an offered list is what the filter makes of the names (`Made`), its row fits (`Fits`), and
unless text was cleared away under the list, the rows still answer the text (`Kept`).
`ToldAsChosen`: the response is what the field in focus, or the key pressed, says (`Told`); options are found in every form of the arguments
(`EveryOptionFound`), and a clipped description begins as the whole does (`DescriptionKept`).
`ViewMapped`: the invariant bounds the offset; that no line is lost is the argument about the last page, which starts at most
a sticky prompt's rows too low, and what it leaves out is seen one line above (`AllShown`).

`ListFacts` says what a filter keeps (`ElementsKept`) and in which order (`ElementsInOrder`), that a set of numbers has a
least one (`LeastNumber`), that a function defined by its value before exists (`Recursion`), and what a loop comes to that makes something
smaller until it stands still (`RepeatedSettles`). The library's induction theorems take an
operator as a parameter and cannot be used: induction is over the members of a set (`Induction`), or by a least counterexample. Loops of the code that filter
a list are written with `ElementsAt`, and sums and concatenations as recursive functions, which can be reasoned about, rather than with folds.

The assumptions are those on the constants, named `...Constants` in the modules that declare them, and `NoneIsNoValue`
(nil is no offer and no answer). They say no more than what kind of value a constant is, that limits of the code are positive where they are,
that no file has an empty name,
and that no argument the user quotes has both kinds of quotes (no escape would let him write it). TLC evaluates them in the runs.

A theorem proves its property with the exclusions that the property's comment and the tables above state. The larger ones
are places where the code goes wrong: writers that overlap (`GoalKept`, `TodosKept`, `ProvidersKept`, `SettingsKept`), the slips of the
draft, the late denials, the unfollowed removals of `Screen`. The entries under "hazards" in PROJECT.json say for each how much of it a property covers.

Only model-checked: liveness (`CancelledTurnEnds`, `AttendedTurnEnds`, `TurnSettles`, `EveryEventApplied`, `ConsentComes`), because
fairness is out of the prover's reach. Every invariant and every safety property of a step that a passing run checks is also a theorem.

## 5. Not modelled

- Network, processes, HTTP and wire formats: providers and tools are their outcomes. So *network tools and
  web search*, the *other provider clients* (thin wrappers around the two that `ProviderStream` has) and
  the *settings version check* have no module.
- Layout and wording: the *markdown renderer*, themes, the drawing of views, help texts, the messages of
  errors, *tool schemas, catalog and exposure* (static tables), the *turn log* and the *session log* (append-only
  text), usage figures and costs, the text of compaction entries and of the system prompt.
- The *command line*: flags, the doctor and progress output. `provider connect` and `provider model` appear in
  `ProviderFiles` as callers.
- *Small libraries*: paths, colours, image and clipboard helpers, alignment, fuzzy scores (a match is
  a subsequence in `Palette`, any subset in `ModelPicker`).
- Of modelled parts: what the tables above say, and the composition of `EventPump`'s readers with
  `Screen`'s message list, whose product is out of TLC's reach; idle readers that accumulate (they show in `EventPump` only as a set).

## 6. What is left

1. `Screen` with the readers of `EventPump` for the turn a palette command leaves running.
2. `Grep`, `Glob` and directories in `FileTools`; several providers in `ModelChoice`.
