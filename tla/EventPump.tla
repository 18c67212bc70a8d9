----------------------------- MODULE EventPump -----------------------------
(***************************************************************************)
(* How the events of agent turns reach the screen: the reader Cmds, the    *)
(* message handlers and the throttled repaint of internal/renderer         *)
(* (agent_bridge.go, stream.go, markup_askuser.go, the agent part of       *)
(* agent.go and update.go).                                                *)
(*                                                                         *)
(* The UI is one process that handles one message at a time.  A handler    *)
(* returns Cmds, each of which runs in a goroutine of its own: a reader    *)
(* takes one event from the channel of a turn and posts it as a message.   *)
(* Messages are delivered in any order and carry no turn: an event or a    *)
(* "closed" that belongs to an earlier turn is handled like the current    *)
(* one's.  The turns themselves are reduced to what TurnContract promises. *)
(* A native tool dialog only adds a reader (finalizeToolInteractComplete)  *)
(* and is left to ToolGate.                                                *)
(***************************************************************************)
EXTENDS Naturals, Sequences, FiniteSets

CONSTANTS
    MaxTurns,   \* bound: turns of the session
    MaxEvents,  \* bound: events of one turn, TurnDone included
    Kinds,      \* the kinds of event explored
    TurnEventBuffer, \* 512 events
    MaxDrainPerCycle \* 30 events

\* "activity": EventActivity; "delta": a thinking, response or tool output
\* delta; "question": a response delta that completes an AskUser tag; "start"
\* and "toolDone": the bounds of a tool call; "done": EventTurnDone.
EventKinds == {"activity", "delta", "question", "start", "toolDone", "done"}

ASSUME PumpConstants ==
    /\ MaxTurns \in Nat /\ MaxEvents \in Nat
    /\ Kinds \subseteq EventKinds
    /\ TurnEventBuffer \in Nat \ {0}
    /\ MaxDrainPerCycle \in Nat \ {0}

Turns == 1..MaxTurns
Event == [turn : Turns, n : 1..MaxEvents, kind : EventKinds]

VARIABLES
    life,         \* per turn: "none", "running", "closed" (its channel)
    cancelled,    \* the turns whose context is cancelled
    sent,         \* per turn: events sent so far
    finished,     \* the turns that sent TurnDone
    chan,         \* per turn: the buffered events
    readers,      \* per turn: reader goroutines that wait for an event
    messages,     \* the events posted and not yet handled
    closedMsgs,   \* agentTurnClosedMsg posted and not yet handled
    flushMsgs,    \* stream flush ticks started and not yet handled
    askMsgs,      \* markupAskUserCmdMsg posted and not yet handled
    events,       \* m.agent.Events: the turn read from, 0 for nil
    cancelFunc,   \* m.agent.Cancel: the turn it cancels, 0 for nil
    busy,         \* m.agent.Busy
    flushPending, \* m.layout.StreamFlushPending
    dirty,        \* m.layout.ContentDirty
    pending,      \* m.agent.MarkupAskUserPending is set
    dialog,       \* a markup AskUser dialog is open
    draining,     \* the UI is in the drain loop of handleAgentEvent
    drained,      \* its drained
    cmds,         \* the readers the running handler will return
    applied       \* history: the events applied

turnVars   == <<life, cancelled, sent, finished>>
paintVars  == <<flushMsgs, flushPending, dirty>>
askVars    == <<askMsgs, pending, dialog>>
agentVars  == <<events, cancelFunc, busy>>
drainVars  == <<draining, drained, cmds>>
histVars   == <<applied>>
vars == <<turnVars, chan, readers, messages, closedMsgs, paintVars, askVars,
          agentVars, drainVars, histVars>>

----------------------------------------------------------------------------

Init ==
    /\ life = [t \in Turns |-> "none"]
    /\ cancelled = {} /\ finished = {}
    /\ sent = [t \in Turns |-> 0]
    /\ chan = [t \in Turns |-> <<>>]
    /\ readers = [t \in Turns |-> 0]
    /\ messages = {} /\ closedMsgs = 0 /\ flushMsgs = 0 /\ askMsgs = 0
    /\ events = 0 /\ cancelFunc = 0 /\ busy = FALSE
    /\ flushPending = FALSE /\ dirty = FALSE
    /\ pending = FALSE /\ dialog = FALSE
    /\ draining = FALSE /\ drained = 0 /\ cmds = 0
    /\ applied = {}

----------------------------------------------------------------------------
(* The turn: sends events, TurnDone last, and closes its channel.          *)

Send(t, kind) ==
    /\ life[t] = "running" /\ t \notin finished
    /\ sent[t] < (IF kind = "done" THEN MaxEvents ELSE MaxEvents - 1)
    /\ Len(chan[t]) < TurnEventBuffer
    /\ sent' = [sent EXCEPT ![t] = @ + 1]
    /\ chan' = [chan EXCEPT
                  ![t] = Append(@, [turn |-> t, n |-> sent'[t], kind |-> kind])]
    /\ finished' = IF kind = "done" THEN finished \cup {t} ELSE finished
    /\ UNCHANGED <<life, cancelled, readers, messages, closedMsgs, paintVars,
                   askVars, agentVars, drainVars, histVars>>

\* After TurnDone, or without it: the turn is cancelled, or its provider
\* reported a cancellation of its own.
Close(t) ==
    /\ life[t] = "running"
    /\ life' = [life EXCEPT ![t] = "closed"]
    /\ UNCHANGED <<cancelled, sent, finished, chan, readers, messages,
                   closedMsgs, paintVars, askVars, agentVars, drainVars, histVars>>

----------------------------------------------------------------------------
(* waitAgentEvent: one event, or the news that the channel is closed.      *)

WaitReceive(t) ==
    /\ readers[t] > 0
    /\ chan[t] # <<>>
    /\ readers' = [readers EXCEPT ![t] = @ - 1]
    /\ messages' = messages \cup {Head(chan[t])}
    /\ chan' = [chan EXCEPT ![t] = Tail(@)]
    /\ UNCHANGED <<turnVars, closedMsgs, paintVars, askVars, agentVars,
                   drainVars, histVars>>

WaitClosed(t) ==
    /\ readers[t] > 0
    /\ chan[t] = <<>> /\ life[t] = "closed"
    /\ readers' = [readers EXCEPT ![t] = @ - 1]
    /\ closedMsgs' = closedMsgs + 1
    /\ UNCHANGED <<turnVars, chan, messages, paintVars, askVars, agentVars,
                   drainVars, histVars>>

----------------------------------------------------------------------------
(* applyAgentEvent *)

\* markupAskUserCmd: open the queued question unless a turn or a dialog is on.
\* `on` and `queued` are Busy and MarkupAskUserPending after the handler.
MarkupAskUserCmd(on, queued) == IF queued /\ ~dialog /\ ~on THEN 1 ELSE 0

\* markStreamDirty: one tick repaints everything that gets dirty before it.
MarkStreamDirty ==
    /\ dirty' = TRUE
    /\ flushPending' = TRUE
    /\ flushMsgs' = IF flushPending THEN flushMsgs ELSE flushMsgs + 1

\* Faulty variant of Rearm: an activity event schedules no reader.
RearmStream(kind) == CASE kind = "start"    -> 2
                       [] kind = "activity" -> 0
                       [] OTHER             -> 1

\* The readers a handler schedules for the next event.
Rearm(kind) == IF kind = "start" THEN 2 ELSE 1

\* finishAgentTurn detaches the UI, whichever turn the event came from; the
\* rest of the response, flushed from the filters, may complete a question.
FinishAgentTurn ==
    /\ events' = 0 /\ cancelFunc' = 0 /\ busy' = FALSE
    /\ flushPending' = FALSE /\ dirty' = FALSE
    /\ pending' \in {pending, pending \/ "question" \in Kinds}
    /\ askMsgs' = askMsgs + MarkupAskUserCmd(FALSE, pending')
    /\ UNCHANGED <<flushMsgs, cmds>>

ApplyStream(kind) ==
    /\ cmds' = IF events = 0 THEN 0 ELSE cmds + Rearm(kind)
    /\ pending' = (pending \/ kind = "question")
    /\ askMsgs' = IF kind \in {"delta", "question"}
                  THEN askMsgs + MarkupAskUserCmd(busy, pending')
                  ELSE askMsgs
    /\ CASE kind \in {"delta", "question", "start"} -> MarkStreamDirty
         [] kind = "toolDone" -> dirty' = FALSE /\ UNCHANGED <<flushPending, flushMsgs>>
         [] OTHER             -> UNCHANGED paintVars
    /\ UNCHANGED agentVars

Apply(e) ==
    /\ applied' = applied \cup {e}
    /\ IF e.kind = "done" THEN FinishAgentTurn ELSE ApplyStream(e.kind)
    /\ UNCHANGED dialog

----------------------------------------------------------------------------
(* handleAgentEvent: apply the event of the message, then drain what is    *)
(* already in the channel: deltas are applied on the spot, the first other *)
(* event is posted as a message of its own.                                *)

HandleAgentEvent(e) ==
    /\ ~draining
    /\ e \in messages
    /\ messages' = messages \ {e}
    /\ Apply(e)
    /\ draining' = (events' # 0)
    /\ drained' = 0
    /\ UNCHANGED <<turnVars, chan, readers, closedMsgs>>

\* The handler returns: its readers start.
Return(extra) ==
    /\ draining' = FALSE /\ drained' = 0 /\ cmds' = 0
    /\ readers' = [readers EXCEPT ![events] = @ + cmds + extra]
    /\ UNCHANGED <<turnVars, paintVars, askVars, agentVars, histVars>>

Draining(limit) == draining /\ drained < limit

DrainDelta ==
    /\ Draining(MaxDrainPerCycle)
    /\ chan[events] # <<>>
    /\ Head(chan[events]).kind \in {"delta", "question"}
    /\ chan' = [chan EXCEPT ![events] = Tail(@)]
    /\ Apply(Head(chan[events]))
    /\ drained' = drained + 1
    /\ UNCHANGED <<turnVars, readers, messages, closedMsgs, draining>>

\* Faulty variant of DrainOther: the event that ends the loop is dropped.
DrainOtherDropped ==
    /\ Draining(MaxDrainPerCycle)
    /\ chan[events] # <<>>
    /\ Head(chan[events]).kind \notin {"delta", "question"}
    /\ chan' = [chan EXCEPT ![events] = Tail(@)]
    /\ Return(0)
    /\ UNCHANGED <<messages, closedMsgs>>

DrainOther ==
    /\ Draining(MaxDrainPerCycle)
    /\ chan[events] # <<>>
    /\ Head(chan[events]).kind \notin {"delta", "question"}
    /\ messages' = messages \cup {Head(chan[events])}
    /\ chan' = [chan EXCEPT ![events] = Tail(@)]
    /\ Return(0)
    /\ UNCHANGED closedMsgs

DrainClosed ==
    /\ Draining(MaxDrainPerCycle)
    /\ chan[events] = <<>> /\ life[events] = "closed"
    /\ closedMsgs' = closedMsgs + 1
    /\ Return(0)
    /\ UNCHANGED <<chan, messages>>

DrainEmpty ==
    /\ Draining(MaxDrainPerCycle)
    /\ chan[events] = <<>> /\ life[events] # "closed"
    /\ Return(0)
    /\ UNCHANGED <<chan, messages, closedMsgs>>

\* The cap is reached: let the screen repaint before the next batch.
DrainYield ==
    /\ draining /\ drained = MaxDrainPerCycle
    /\ Return(1)
    /\ UNCHANGED <<chan, messages, closedMsgs>>

----------------------------------------------------------------------------
(* The other messages *)

\* Faulty variant of HandleAgentTurnClosed: the turn is still shown as running.
HandleAgentTurnClosedQuietly ==
    /\ ~draining
    /\ closedMsgs > 0
    /\ closedMsgs' = closedMsgs - 1
    /\ events' = 0
    /\ dirty' = FALSE
    /\ UNCHANGED <<turnVars, chan, readers, messages, flushMsgs, flushPending,
                   askVars, busy, cancelFunc, drainVars, histVars>>

HandleAgentTurnClosed ==
    /\ ~draining
    /\ closedMsgs > 0
    /\ closedMsgs' = closedMsgs - 1
    /\ events' = 0 /\ busy' = FALSE
    /\ cancelFunc' = IF busy THEN 0 ELSE cancelFunc
    /\ dirty' = FALSE
    /\ askMsgs' = askMsgs + MarkupAskUserCmd(FALSE, pending)
    /\ UNCHANGED <<turnVars, chan, readers, messages, flushMsgs, flushPending,
                   pending, dialog, drainVars, histVars>>

\* Faulty variant of HandleStreamFlush: the tick leaves the flag set.
HandleStreamFlushSticky ==
    /\ ~draining
    /\ flushMsgs > 0
    /\ flushMsgs' = flushMsgs - 1
    /\ dirty' = FALSE
    /\ readers' = IF dirty /\ events # 0
                  THEN [readers EXCEPT ![events] = @ + 1] ELSE readers
    /\ UNCHANGED <<turnVars, chan, messages, closedMsgs, flushPending, askVars,
                   agentVars, drainVars, histVars>>

HandleStreamFlush ==
    /\ ~draining
    /\ flushMsgs > 0
    /\ flushMsgs' = flushMsgs - 1
    /\ flushPending' = FALSE
    /\ dirty' = FALSE
    /\ readers' = IF dirty /\ events # 0
                  THEN [readers EXCEPT ![events] = @ + 1] ELSE readers
    /\ UNCHANGED <<turnVars, chan, messages, closedMsgs, askVars, agentVars,
                   drainVars, histVars>>

\* The handler does not ask whether a turn has started meanwhile.
HandleMarkupAskUser ==
    /\ ~draining
    /\ askMsgs > 0
    /\ askMsgs' = askMsgs - 1
    /\ pending' = FALSE
    /\ dialog' = (dialog \/ pending)
    /\ UNCHANGED <<turnVars, chan, readers, messages, closedMsgs, paintVars,
                   agentVars, drainVars, histVars>>

----------------------------------------------------------------------------
(* The user *)

\* beginAgentTurn and agentTurnCmds: a new turn with one reader.
StartTurn(t) ==
    /\ life[t] = "none" /\ \A u \in Turns : life[u] = "none" => t <= u
    /\ life' = [life EXCEPT ![t] = "running"]
    /\ events' = t /\ cancelFunc' = t /\ busy' = TRUE
    /\ readers' = [readers EXCEPT ![t] = 1]

\* trySubmitInput; the palette of commands, which starts a turn over a running
\* one without stopping it, is left to Screen.
Submit ==
    /\ ~draining /\ ~busy /\ ~dialog
    /\ \E t \in Turns : StartTurn(t)
    /\ dirty' = FALSE
    /\ UNCHANGED <<cancelled, sent, finished, chan, messages, closedMsgs,
                   flushMsgs, flushPending, askVars, drainVars, histVars>>

CancelAgentTurn ==
    /\ ~draining /\ busy /\ ~dialog
    /\ cancelled' = IF cancelFunc = 0 THEN cancelled ELSE cancelled \cup {cancelFunc}
    /\ events' = 0 /\ cancelFunc' = 0 /\ busy' = FALSE
    /\ dirty' = FALSE
    /\ UNCHANGED <<life, sent, finished, chan, readers, messages, closedMsgs,
                   flushMsgs, flushPending, askVars, drainVars, histVars>>

\* recordAskUserResolution: a queued question is dropped if it is the same one.
CloseDialog ==
    /\ ~draining /\ dialog
    /\ dialog' = FALSE
    /\ pending' \in {FALSE, pending}

\* completeMarkupAskUser with an answer: stopInFlightAgentTurn, then the
\* answer is the prompt of the next turn.
AnswerMarkup ==
    /\ CloseDialog
    /\ cancelled' = IF cancelFunc = 0 THEN cancelled ELSE cancelled \cup {cancelFunc}
    /\ \E t \in Turns : StartTurn(t)
    /\ dirty' = FALSE
    /\ UNCHANGED <<sent, finished, chan, messages, closedMsgs, flushMsgs,
                   flushPending, askMsgs, drainVars, histVars>>

\* completeMarkupAskUser without an answer.
DismissMarkup ==
    /\ CloseDialog
    /\ dirty' = FALSE
    /\ UNCHANGED <<turnVars, chan, readers, messages, closedMsgs, flushMsgs,
                   flushPending, askMsgs, agentVars, drainVars, histVars>>

----------------------------------------------------------------------------

\* The bound on turns is reached and nothing is left to handle.
Over ==
    /\ \A t \in Turns : life[t] # "none"
    /\ ~draining /\ ~dialog /\ ~busy
    /\ messages = {} /\ closedMsgs = 0 /\ flushMsgs = 0 /\ askMsgs = 0
    /\ UNCHANGED vars

Produce(t) == (\E k \in Kinds : Send(t, k)) \/ Close(t)
Read(t)    == WaitReceive(t) \/ WaitClosed(t)

Drain == DrainDelta \/ DrainOther \/ DrainClosed \/ DrainEmpty \/ DrainYield

Handle ==
    \/ \E e \in messages : HandleAgentEvent(e)
    \/ HandleAgentTurnClosed \/ HandleStreamFlush \/ HandleMarkupAskUser

User == Submit \/ CancelAgentTurn \/ AnswerMarkup \/ DismissMarkup

Next ==
    \/ \E t \in Turns : Produce(t) \/ Read(t)
    \/ Drain \/ Handle \/ User \/ Over

Spec == Init /\ [][Next]_vars

\* The goroutines of readers and the UI loop are scheduled.  Posted messages
\* are finite in number, so handling some message again and again handles all.
FairSpec == /\ Spec
            /\ \A t \in Turns : WF_vars(Read(t)) /\ WF_vars(Produce(t))
            /\ WF_vars(Drain) /\ WF_vars(Handle)

============================================================================
