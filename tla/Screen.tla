------------------------------- MODULE Screen -------------------------------
(***************************************************************************)
(* The UI model of internal/renderer as one sequential process: the list   *)
(* of messages and the indexes other state keeps into it, the shell        *)
(* command under way, the dialogs, Ctrl-C and its timer, and the system    *)
(* prompt that /commit replaces.                                           *)
(*                                                                         *)
(* A step handles one Bubble Tea message to its end.  Keys are the user's  *)
(* choice; the turn, the shell command, the models sync and the timer are  *)
(* the environment.  Readers of agent events are left to EventPump and     *)
(* consent to tools to ToolGate: here the events of the turn the UI        *)
(* follows arrive one by one, and those of a turn that was cancelled or    *)
(* replaced do not.                                                        *)
(***************************************************************************)
EXTENDS Naturals, SequencesExt

CONSTANTS
    MaxTurns,    \* bound: turns of the session
    MaxCommands, \* bound: shell commands of the session
    MaxMessages, \* bound: keys that only add a message need room below it
    MaxChunks,   \* bound: output chunks of one command
    Sessions,    \* bound: the sets of activities explored together
    OutputBuffer \* capacity of shell.OutputCh: 64

\* A shell command, the models sync, idle Ctrl-C, markup calls and questions,
\* native calls, /commit, skills and templates, keys that only report, a session
\* without a model.
Activities == {"shell", "sync", "ctrlC", "markup", "call", "commit", "template",
               "report", "noModel"}

ASSUME ScreenConstants ==
    /\ MaxTurns \in Nat /\ MaxCommands \in Nat /\ MaxMessages \in Nat
    /\ MaxChunks \in Nat
    /\ OutputBuffer \in Nat \ {0}
    /\ Sessions \subseteq SUBSET Activities

VARIABLES
    session,    \* the activities of this session
    list,       \* the message list and the indexes into it, see List
    turn,       \* turns started so far; the last one is the current
    busy,       \* m.agent.Busy; m.agent.Events is then the current turn's
    call,       \* its native tool call: "none", "running", "done"
    seen,       \* its markup call was recorded (SeenToolCalls)
    thinkingOn, \* thinkingTurnEnabled
    hasModel,   \* hasActiveModel
    question,   \* MarkupAskUserPending: "no", "pending", "posted"
    dialog,     \* the tool dialog: "none", "approval", "markup"
    offer,      \* the approval of the call: "none", "posted", "asked", "given",
                \* "lost" when no dialog will show it
    sync,       \* models sync: "due", "form", "running", "posted", "over",
                \* "stuck" when its result is lost
    press,      \* m.ctrlCPress
    resets,     \* ctrlCResetMsg timers not yet delivered
    quitting,   \* m.quitting
    shell,      \* the shell command, see Shell
    prompt,     \* m.session.SystemPrompt: "project" or "commit"
    saved,      \* SavedSystemPrompt: "none" or a prompt
    commitDir,  \* CommitWorkDir is set
    suppress,   \* SuppressThinking
    mishaps,    \* history: messages an open dialog has swallowed, "replaced"
                \* once a turn replaced one under way, "refused" once /commit
                \* found no model
    commitTurns,\* history: turns that /commit started
    committed   \* history: turns whose response went to git commit

promptVars == <<prompt, saved, commitDir, suppress, commitTurns, committed>>
turnVars   == <<turn, busy, call, seen, offer, question, dialog>>
keyVars    == <<press, resets, quitting>>
setVars    == <<session, thinkingOn, hasModel>>
vars == <<list, turnVars, keyVars, setVars, sync, shell, promptVars, mishaps>>

-----------------------------------------------------------------------------
(* The message list.  An index of 0 stands for -1: none.  A message has the *)
(* identity it was created with, that of its last writer, and may be blank. *)

Indexes == {"think", "resp", "tool", "shell", "sync"}

EmptyList == [msgs |-> <<>>, think |-> 0, resp |-> 0, tool |-> 0, shell |-> 0,
              sync |-> 1,        \* the zero value of modelsSyncMsgID
              notice |-> 0, shifted |-> FALSE, crashed |-> FALSE]

InList(l, i) == i \in 1..Len(l.msgs)

Say(l, id) ==
    [l EXCEPT !.msgs = Append(@, [own |-> id, writer |-> id, blank |-> FALSE])]

Overwrite(l, i, id) ==
    [l EXCEPT !.msgs[i].writer = id, !.msgs[i].blank = FALSE]

\* Code that indexes the slice without a check panics outside of it.
OverwriteUnchecked(l, i, id) ==
    IF InList(l, i) THEN Overwrite(l, i, id) ELSE [l EXCEPT !.crashed = TRUE]

\* removeMessageAt.  "shifted" remembers that a live index other than those
\* the caller mends now names another message than before.
RemoveMessage(l, i, mended) ==
    IF ~InList(l, i) THEN l
    ELSE [l EXCEPT !.msgs = RemoveAt(@, i),
                   !.shifted = @ \/ \E f \in Indexes \ mended : l[f] > i]

\* Faulty variant of RemoveThinking: the response keeps its old index.
RemoveThinkingOnly(l) == RemoveMessage(l, l.think, {"think", "resp", "tool"})

\* The empty thinking box goes; a response below it moves up with its index.
RemoveThinking(l) ==
    LET r == RemoveMessage(l, l.think, {"think", "resp", "tool"})
    IN  [r EXCEPT !.resp = IF @ > l.think THEN @ - 1 ELSE @]

\* Faulty variant of ClearNotice: the index of the notice is kept.
ClearNoticeOnly(l) == RemoveMessage(l, l.notice, {})

ClearNotice(l) ==
    [RemoveMessage(l, l.notice, {}) EXCEPT !.notice = 0]

AppendThinking(l, t) ==
    IF ~thinkingOn \/ suppress THEN l
    ELSE IF l.think = 0
         THEN LET s == Say(l, <<"thinking", t>>) IN [s EXCEPT !.think = Len(s.msgs)]
         ELSE OverwriteUnchecked(l, l.think, <<"thinking", t>>)

AppendResponse(l, t) ==
    IF l.resp = 0
    THEN LET s == Say(l, <<"ai", t>>) IN [s EXCEPT !.resp = Len(s.msgs)]
    ELSE OverwriteUnchecked(l, l.resp, <<"ai", t>>)

\* Faulty variant of Scrub: ResponseMsgID is kept.
ScrubOnly(l) == RemoveMessage(l, l.resp, {"resp"})

\* recordToolCallRequests: a detail box for the call; if the response held
\* nothing else, scrubToolPayloadsFromAIMessage removes it.
Scrub(l) ==
    [RemoveMessage(l, l.resp, {"resp"}) EXCEPT !.resp = 0]
RecordCall(l, t, ask, scrub) ==
    LET s == IF ask THEN l ELSE Say(l, <<"request", t>>)
    IN  IF scrub /\ InList(l, l.resp) THEN Scrub(s) ELSE s

\* beginAgentTurn and the thinking box of agentTurnCmds, for turn t.
BeginTurn(l, t) ==
    LET b == [l EXCEPT !.think = 0, !.resp = 0, !.tool = 0]
        s == [b EXCEPT !.msgs = Append(@, [own |-> <<"thinking", t>>,
                          writer |-> <<"thinking", t>>, blank |-> TRUE])]
    IN  IF thinkingOn THEN [s EXCEPT !.think = Len(s.msgs)] ELSE b

SetSyncMessage(l) ==
    IF InList(l, l.sync) THEN Overwrite(l, l.sync, <<"sync", 0>>)
    ELSE LET s == Say(l, <<"sync", 0>>) IN [s EXCEPT !.sync = Len(s.msgs)]

-----------------------------------------------------------------------------
(* The shell command: is it shown as running, does its runner still run,    *)
(* the chunks in OutputCh and those sent so far, where its reader Cmd is    *)
(* ("armed": waits for a chunk, "holding": posted one), does the runner     *)
(* wait for room, is its result posted, was its context cancelled, and does *)
(* the result say so.                                                       *)

NoShell == [running |-> FALSE, command |-> 0, alive |-> FALSE, chunks |-> 0,
            sent |-> 0, reader |-> "none", posted |-> FALSE,
            waiting |-> FALSE, withContext |-> FALSE, cancelled |-> FALSE,
            interrupted |-> FALSE]

Init ==
    /\ list = EmptyList
    /\ turn = 0 /\ busy = FALSE
    /\ call = "none" /\ seen = FALSE /\ offer = "none"
    /\ question = "no" /\ dialog = "none"
    /\ session \in Sessions
    /\ thinkingOn \in BOOLEAN
    /\ hasModel = ("noModel" \notin session)
    /\ sync = IF "sync" \in session THEN "due" ELSE "over"
    /\ press = 0 /\ resets = 0 /\ quitting = FALSE
    /\ shell = NoShell
    /\ prompt = "project" /\ saved = "none" /\ commitDir = FALSE /\ suppress = FALSE
    /\ mishaps = {} /\ commitTurns = {} /\ committed = {}

Up == ~quitting /\ ~list.crashed
Room == Len(list.msgs) < MaxMessages
DialogOpen == dialog # "none" \/ sync = "form"
\* A key reaches the editor and the key bindings.
Key == Up /\ ~DialogOpen

\* beginAgentTurn and agentTurnCmds on list l.
StartTurn(l) ==
    /\ turn < MaxTurns
    /\ turn' = turn + 1
    /\ busy' = TRUE
    /\ call' = "none" /\ seen' = FALSE /\ offer' = "none"
    /\ list' = BeginTurn(l, turn + 1)
    /\ mishaps' = IF busy THEN mishaps \cup {"replaced"} ELSE mishaps

\* The turns that the shell command under way may still start.
Reserved == IF shell.running /\ shell.withContext THEN 1 ELSE 0

-----------------------------------------------------------------------------
(* The user submits the input. *)

CanSubmit == Key /\ ~busy /\ ~shell.running

SubmitPrompt ==
    /\ CanSubmit /\ hasModel
    /\ StartTurn(Say(list, <<"user", 0>>))
    /\ UNCHANGED <<question, dialog, keyVars, setVars, sync, shell, promptVars>>

\* promptSelectModel; the selector then gives the session a model.
SubmitWithoutModel ==
    /\ CanSubmit /\ ~hasModel /\ Room
    /\ list' = Say(list, <<"system", 0>>)
    /\ UNCHANGED <<turnVars, keyVars, setVars, sync, shell, promptVars, mishaps>>
SelectModel ==
    /\ Key /\ ~hasModel
    /\ hasModel' = TRUE
    /\ list' = Say(list, <<"system", 0>>)
    /\ UNCHANGED <<turnVars, keyVars, session, thinkingOn, sync, shell, promptVars, mishaps>>

\* A skill or prompt template chosen in the palette of commands, where Enter
\* does not ask whether a turn or a shell command is under way.
SubmitTemplate ==
    /\ "template" \in session
    /\ Key /\ hasModel
    /\ turn + Reserved < MaxTurns
    /\ StartTurn(Say(Say(list, <<"user", 0>>), <<"system", 0>>))
    /\ UNCHANGED <<question, dialog, keyVars, setVars, sync, shell, promptVars>>

\* /commit waits for an argument, so the palette only completes it.  The prompt
\* is replaced and saved before the model is looked for.
SubmitCommit ==
    /\ "commit" \in session
    /\ CanSubmit /\ (hasModel \/ Room)
    /\ saved' = prompt /\ prompt' = "commit"
    /\ IF hasModel
       THEN /\ StartTurn(Say(list, <<"user", 0>>))
            /\ commitTurns' = commitTurns \cup {turn + 1}
            /\ suppress' = TRUE /\ commitDir' = TRUE
       ELSE /\ list' = Say(list, <<"system", 0>>)
            /\ mishaps' = mishaps \cup {"refused"}
            /\ UNCHANGED <<turn, busy, call, seen, offer, commitTurns, suppress,
                           commitDir>>
    /\ UNCHANGED <<question, dialog, keyVars, setVars, sync, shell, committed>>

SubmitShell ==
    /\ "shell" \in session
    /\ CanSubmit
    /\ shell.command < MaxCommands
    /\ shell.reader = "none"   \* bound: no chunk of the last command is under way
    /\ \E ctx \in IF turn < MaxTurns THEN BOOLEAN ELSE {FALSE} :
         shell' = [NoShell EXCEPT !.running = TRUE, !.alive = TRUE,
                     !.command = shell.command + 1, !.reader = "armed",
                     !.withContext = ctx]
    /\ LET s == Say(Say(list, <<"user", 0>>), <<"shell", shell.command + 1>>)
       IN  list' = [s EXCEPT !.shell = Len(s.msgs)]
    /\ UNCHANGED <<turnVars, keyVars, setVars, sync, promptVars, mishaps>>

\* A slash command or key that only reports something.
Report ==
    /\ "report" \in session
    /\ Key /\ Room
    /\ list' = Say(list, <<"system", 0>>)
    /\ UNCHANGED <<turnVars, keyVars, setVars, sync, shell, promptVars, mishaps>>
CycleThink ==
    /\ "report" \in session
    /\ Key /\ Room
    /\ thinkingOn' = ~thinkingOn
    /\ list' = Say(list, <<"system", 0>>)
    /\ UNCHANGED <<turnVars, keyVars, session, hasModel, sync, shell, promptVars, mishaps>>

-----------------------------------------------------------------------------
(* Ctrl-C, Esc and the keys that end a Ctrl-C sequence. *)

Idle == ~busy /\ ~shell.running

CtrlCOnce ==
    /\ "ctrlC" \in session
    /\ Key /\ Idle /\ press = 0 /\ Room /\ resets = 0 \* bound: one timer at a time
    /\ press' = 1 /\ resets' = resets + 1
    /\ LET s == Say(list, <<"notice", 0>>) IN list' = [s EXCEPT !.notice = Len(s.msgs)]
    /\ UNCHANGED <<quitting, turnVars, setVars, sync, shell, promptVars, mishaps>>
CtrlCClears ==
    /\ Key /\ Idle /\ press = 1
    /\ press' = 2
    /\ list' = ClearNotice(list)
    /\ UNCHANGED <<resets, quitting, turnVars, setVars, sync, shell, promptVars, mishaps>>
CtrlCQuits ==
    /\ Key /\ Idle /\ press \in {1, 2}
    /\ quitting' = TRUE
    /\ UNCHANGED <<list, press, resets, turnVars, setVars, sync, shell, promptVars,
                   mishaps>>
OtherKey ==
    /\ Key /\ press + list.notice > 0
    /\ press' = 0
    /\ list' = ClearNotice(list)
    /\ UNCHANGED <<resets, quitting, turnVars, setVars, sync, shell, promptVars, mishaps>>

CtrlCReset ==
    /\ Up /\ resets > 0
    /\ resets' = resets - 1
    /\ IF DialogOpen
       THEN mishaps' = mishaps \cup {"ctrlCReset"} /\ UNCHANGED <<press, list>>
       ELSE press' = 0 /\ list' = ClearNotice(list) /\ UNCHANGED mishaps
    /\ UNCHANGED <<quitting, turnVars, setVars, sync, shell, promptVars>>

CancelShell ==
    /\ Key /\ shell.running
    /\ press' = 0
    /\ list' = ClearNotice(list)
    /\ shell' = [shell EXCEPT !.cancelled = TRUE]
    /\ UNCHANGED <<resets, quitting, turnVars, setVars, sync, promptVars, mishaps>>

\* Faulty variant of RestorePrompt: what is restored stays saved.
RestoreAndKeep == prompt' = (IF saved = "none" THEN prompt ELSE saved) /\ UNCHANGED saved

RestorePrompt ==
    /\ prompt' = IF saved = "none" THEN prompt ELSE saved
    /\ saved' = "none"

EndCommit == suppress' = FALSE /\ commitDir' = FALSE

CancelTurn ==
    /\ Key /\ ~shell.running /\ busy
    /\ press' = 0
    /\ busy' = FALSE /\ offer' = "none"
    /\ LET c == ClearNotice(list)
           r == IF InList(c, c.think) /\ c.msgs[c.think].blank
                THEN RemoveThinking(c) ELSE c
       IN  list' = Say([r EXCEPT !.think = 0, !.resp = 0], <<"system", 0>>)
    /\ EndCommit
    /\ RestorePrompt
    /\ UNCHANGED <<turn, call, seen, question, dialog, resets, quitting, setVars, sync,
                   shell, commitTurns, committed, mishaps>>

-----------------------------------------------------------------------------
(* The events of the current turn; they pass by open dialogs. *)

Event == Up /\ busy
\* What the search for markup calls may find in a text.
Finds == IF "markup" \in session THEN {"nothing", "call", "question"} ELSE {"nothing"}
TurnRest == <<turn, busy, keyVars, setVars, sync, shell, promptVars, mishaps>>

ThinkingDelta ==
    /\ Event
    /\ list' = AppendThinking(list, turn)
    /\ UNCHANGED <<TurnRest, call, seen, offer, question, dialog>>

\* A delta may hold a think chunk, a markup call, a markup question, text.
ResponseDelta ==
    /\ Event
    /\ \E chunk, scrub, text \in BOOLEAN, found \in Finds :
         LET new == found # "nothing" /\ ~seen
             l1 == IF chunk THEN AppendThinking(list, turn) ELSE list
             l2 == IF new THEN RecordCall(l1, turn, found = "question", scrub) ELSE l1
         IN  /\ list' = IF text THEN AppendResponse(l2, turn) ELSE l2
             /\ seen' = (seen \/ new)
             /\ question' = IF new /\ found = "question" /\ question = "no"
                            THEN "pending" ELSE question
    /\ UNCHANGED <<TurnRest, call, offer, dialog>>

ToolCallStart ==
    /\ "call" \in session
    /\ Event /\ call = "none"
    /\ call' = "running"
    /\ offer' \in {"none", "posted"}
    /\ LET s == Say(list, <<"tool", turn>>) IN list' = [s EXCEPT !.tool = Len(s.msgs)]
    /\ UNCHANGED <<TurnRest, seen, question, dialog>>

Allowed == call = "running" /\ offer \in {"none", "given"}

ToolCallOutput ==
    /\ Event /\ Allowed /\ InList(list, list.tool)
    /\ list' = Overwrite(list, list.tool, <<"tool", turn>>)
    /\ UNCHANGED <<TurnRest, call, seen, offer, question, dialog>>

FinishToolCall(l) ==
    IF InList(l, l.tool) THEN Overwrite(l, l.tool, <<"tool", turn>>)
    ELSE Say(l, <<"tool", turn>>)

ToolCallDone ==
    /\ Event /\ Allowed
    /\ call' = "done"
    /\ list' = FinishToolCall(list)
    /\ UNCHANGED <<TurnRest, seen, offer, question, dialog>>

\* The thinking box of finishAgentTurn: filled, kept, or removed when empty.
FinishThinking(l, final) ==
    IF InList(l, l.think)
    THEN IF ~l.msgs[l.think].blank THEN l
         ELSE IF final THEN Overwrite(l, l.think, <<"thinking", turn>>)
         ELSE RemoveThinking(l)
    ELSE IF final THEN Say(l, <<"thinking", turn>>) ELSE l

\* The response: replaced by its final text, or removed when nothing is left.
FinishResponse(l, reply) ==
    IF l.resp # 0
    THEN IF reply THEN OverwriteUnchecked(l, l.resp, <<"ai", turn>>)
         ELSE IF ~InList(l, l.resp) THEN [l EXCEPT !.crashed = TRUE]
         ELSE [RemoveMessage(l, l.resp, {"think", "resp", "tool"}) EXCEPT !.resp = 0]
    ELSE IF reply THEN LET s == Say(l, <<"ai", turn>>) IN [s EXCEPT !.resp = Len(s.msgs)]
    ELSE l

\* finishAgentTurn: the response goes to git commit if CommitWorkDir is set.
\* Of the two searches for markup calls in it, the second finds nothing new.
TurnDone ==
    /\ Event /\ call # "running"
    /\ \E tail, final, scrub, reply, failed \in BOOLEAN,
          found \in Finds :
         LET new == found # "nothing" /\ ~seen
             commits == commitDir /\ reply /\ ~failed
             l1 == IF tail THEN AppendThinking(list, turn) ELSE list
             l2 == FinishThinking(l1, final)
             l3 == IF new THEN RecordCall(l2, turn, found = "question", scrub) ELSE l2
             l4 == FinishResponse(l3, reply)
             l5 == IF failed THEN Say(l4, <<"system", 0>>) ELSE l4
             l6 == IF commits
                   THEN RemoveMessage(Say(l5, <<"commit", turn>>), l5.resp,
                               {"think", "resp", "tool"})
                   ELSE l5
             asks == \/ question = "pending"
                     \/ new /\ found = "question" /\ question = "no"
         IN  /\ list' = [l6 EXCEPT !.think = 0, !.resp = 0]
             /\ question' = IF asks THEN IF dialog = "none" THEN "posted" ELSE "pending"
                            ELSE question
             /\ committed' = IF commits THEN committed \cup {turn} ELSE committed
    /\ busy' = FALSE
    /\ EndCommit
    /\ RestorePrompt
    /\ UNCHANGED <<turn, call, seen, offer, dialog, keyVars, setVars, sync, shell,
                   commitTurns, mishaps>>

\* The closed channel of a cancelled turn: handleAgentTurnClosed.
TurnClosed ==
    /\ Up /\ ~busy /\ question = "pending" /\ dialog = "none"
    /\ question' = "posted"
    /\ UNCHANGED <<list, turn, busy, call, seen, offer, dialog, keyVars, setVars, sync,
                   shell, promptVars, mishaps>>

-----------------------------------------------------------------------------
(* Dialogs. *)

OfferArrives ==
    /\ Up /\ offer = "posted"
    /\ IF DialogOpen
       THEN offer' = "lost" /\ mishaps' = mishaps \cup {"offer"} /\ UNCHANGED dialog
       ELSE offer' = "asked" /\ dialog' = "approval" /\ UNCHANGED mishaps
    /\ UNCHANGED <<list, turn, busy, call, seen, question, keyVars, setVars, sync, shell,
                   promptVars>>

AnswerApproval ==
    /\ Up /\ dialog = "approval"
    /\ dialog' = "none" /\ offer' = "given"
    /\ \E approved \in BOOLEAN : list' = IF approved THEN list ELSE FinishToolCall(list)
    /\ UNCHANGED <<turn, busy, call, seen, question, keyVars, setVars, sync, shell,
                   promptVars, mishaps>>

\* markupAskUserCmdMsg opens its dialog over any other.
QuestionArrives ==
    /\ Up /\ question = "posted"
    /\ question' = "no" /\ dialog' = "markup"
    /\ IF dialog = "approval"
       THEN offer' = "lost" /\ mishaps' = mishaps \cup {"offer"}
       ELSE UNCHANGED <<offer, mishaps>>
    /\ UNCHANGED <<list, turn, busy, call, seen, keyVars, setVars, sync, shell, promptVars>>

\* completeMarkupAskUser: an answer starts a turn in the place of any other.
AnswerQuestion ==
    /\ Up /\ dialog = "markup" /\ hasModel
    /\ turn + Reserved < MaxTurns
    /\ dialog' = "none"
    /\ StartTurn(Say(Say(list, <<"request", turn>>), <<"user", 0>>))
    /\ UNCHANGED <<question, keyVars, setVars, sync, shell, promptVars>>
DismissQuestion ==
    /\ Up /\ dialog = "markup"
    /\ dialog' = "none"
    /\ list' = Say(list, <<"request", turn>>)
    /\ UNCHANGED <<turn, busy, call, seen, offer, question, keyVars, setVars, sync, shell,
                   promptVars, mishaps>>

SyncRest == <<turnVars, keyVars, setVars, shell, promptVars>>

OfferModelsSync ==
    /\ Up /\ sync = "due"
    /\ IF dialog # "none"
       THEN sync' = "over" /\ mishaps' = mishaps \cup {"syncOffer"}
       ELSE sync' = "form" /\ UNCHANGED mishaps
    /\ UNCHANGED <<list, SyncRest>>

ResolveModelsSync ==
    /\ Up /\ sync = "form" /\ dialog = "none"
    /\ \/ sync' = "running" /\ list' = SetSyncMessage(list)
       \/ sync' = "over" /\ list' = [SetSyncMessage(list) EXCEPT !.sync = 0]
    /\ UNCHANGED <<SyncRest, mishaps>>

\* Each spinner tick writes the status anew while modelsSyncing is set.
SyncTick ==
    /\ Up /\ sync \in {"running", "posted", "stuck"}
    /\ list' = SetSyncMessage(list)
    /\ UNCHANGED <<SyncRest, sync, mishaps>>

SyncFinishes ==
    /\ sync = "running"
    /\ sync' = "posted"
    /\ UNCHANGED <<list, SyncRest, mishaps>>

FinishModelsSync ==
    /\ Up /\ sync = "posted"
    /\ IF dialog # "none"
       THEN sync' = "stuck" /\ mishaps' = mishaps \cup {"syncDone"} /\ UNCHANGED list
       ELSE /\ sync' = "over" /\ list' = [SetSyncMessage(list) EXCEPT !.sync = 0]
            /\ UNCHANGED mishaps
    /\ UNCHANGED SyncRest

-----------------------------------------------------------------------------
(* The runner of the shell command, its reader Cmd and its messages. *)

ShellRest == <<turnVars, keyVars, setVars, sync, promptVars>>

\* sendChunk blocks while the buffer is full, unless the context is done.
ShellChunk ==
    /\ shell.alive /\ ~shell.waiting /\ shell.sent < MaxChunks
    /\ shell' = IF shell.chunks < OutputBuffer
                THEN [shell EXCEPT !.sent = @ + 1, !.chunks = @ + 1]
                ELSE [shell EXCEPT !.sent = @ + 1, !.waiting = TRUE]
    /\ UNCHANGED <<list, ShellRest, mishaps>>
ShellUnblocks ==
    /\ shell.waiting
    /\ \/ /\ shell.chunks < OutputBuffer
          /\ shell' = [shell EXCEPT !.waiting = FALSE, !.chunks = @ + 1]
       \/ shell.cancelled /\ shell' = [shell EXCEPT !.waiting = FALSE]
    /\ UNCHANGED <<list, ShellRest, mishaps>>

\* RunShellContext returns; the channel is closed and the result posted.
ShellEnds ==
    /\ shell.alive /\ ~shell.waiting
    /\ shell' = [shell EXCEPT !.alive = FALSE, !.posted = TRUE,
                   !.interrupted = shell.cancelled]
    /\ UNCHANGED <<list, ShellRest, mishaps>>

WaitShellOutput ==
    /\ shell.reader = "armed"
    /\ \/ /\ shell.chunks > 0
          /\ shell' = [shell EXCEPT !.chunks = @ - 1, !.reader = "holding"]
       \/ /\ shell.chunks = 0 /\ ~shell.alive
          /\ shell' = [shell EXCEPT !.reader = "none"]
    /\ UNCHANGED <<list, ShellRest, mishaps>>

WriteShellBox(l) ==
    IF InList(l, l.shell) THEN Overwrite(l, l.shell, <<"shell", shell.command>>) ELSE l

\* Faulty variant of HandleShellOutput: the reader is not armed again.
HandleShellOutputOnce ==
    /\ Up /\ shell.reader = "holding"
    /\ shell' = [shell EXCEPT !.reader = "none"]
    /\ IF DialogOpen
       THEN mishaps' = mishaps \cup {"shellOutput"} /\ UNCHANGED list
       ELSE list' = WriteShellBox(list) /\ UNCHANGED mishaps
    /\ UNCHANGED ShellRest

HandleShellOutput ==
    /\ Up /\ shell.reader = "holding"
    /\ IF DialogOpen
       THEN /\ shell' = [shell EXCEPT !.reader = "none"]
            /\ mishaps' = mishaps \cup {"shellOutput"}
            /\ UNCHANGED list
       ELSE /\ list' = WriteShellBox(list)
            /\ shell' = [shell EXCEPT !.reader = IF shell.running THEN "armed" ELSE "none"]
            /\ UNCHANGED mishaps
    /\ UNCHANGED ShellRest

SwallowShellDone ==
    /\ Up /\ shell.posted /\ DialogOpen
    /\ shell' = [shell EXCEPT !.posted = FALSE]
    /\ mishaps' = mishaps \cup {"shellDone"}
    /\ UNCHANGED <<list, ShellRest>>

FinishShell ==
    LET l == [WriteShellBox(list) EXCEPT !.shell = 0]
        follows == shell.withContext /\ ~shell.interrupted
    IN
    /\ Up /\ shell.posted /\ ~DialogOpen
    /\ shell' = [NoShell EXCEPT !.command = shell.command, !.reader = shell.reader,
                   !.chunks = IF shell.reader = "none" THEN 0 ELSE shell.chunks]
    /\ IF follows /\ hasModel
       THEN StartTurn(l)
       ELSE /\ list' = IF follows THEN Say(l, <<"system", 0>>) ELSE l
            /\ UNCHANGED <<turn, busy, call, seen, offer, mishaps>>
    /\ UNCHANGED <<question, dialog, keyVars, setVars, sync, promptVars>>

\* The session is over, or the bounds leave nothing to do.
Over ==
    /\ ~Up \/ (~busy /\ ~shell.running)
    /\ UNCHANGED vars

-----------------------------------------------------------------------------
Next ==
    \/ SubmitPrompt \/ SubmitWithoutModel \/ SelectModel \/ SubmitCommit \/ SubmitTemplate
    \/ SubmitShell
    \/ Report \/ CycleThink
    \/ CtrlCOnce \/ CtrlCClears \/ CtrlCQuits \/ OtherKey \/ CtrlCReset
    \/ CancelShell \/ CancelTurn
    \/ ThinkingDelta \/ ResponseDelta \/ ToolCallStart \/ ToolCallOutput
    \/ ToolCallDone \/ TurnDone \/ TurnClosed
    \/ OfferArrives \/ AnswerApproval
    \/ QuestionArrives \/ AnswerQuestion \/ DismissQuestion
    \/ OfferModelsSync \/ ResolveModelsSync \/ SyncTick \/ SyncFinishes \/ FinishModelsSync
    \/ ShellChunk \/ ShellUnblocks \/ ShellEnds \/ WaitShellOutput \/ HandleShellOutput
    \/ SwallowShellDone \/ FinishShell
    \/ Over

Spec == Init /\ [][Next]_vars
=============================================================================
