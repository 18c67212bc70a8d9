----------------------------- MODULE AgentTurn -----------------------------
(***************************************************************************)
(* One agent turn: the goroutine RunTurn starts (pkg/core/agent/turn.go),  *)
(* the autonomous tool loop (loop.go), the provider retry loop             *)
(* (provider_retry.go) and the per-tool interaction gate (interact.go).    *)
(*                                                                         *)
(* The goroutine is one process with the program counter `pc`.  Around it  *)
(* are the provider, the tools and the host, which may answer anything the *)
(* code handles, the reader of the event channel, and the context, which   *)
(* may be cancelled at any time.                                           *)
(***************************************************************************)
EXTENDS History

CONSTANTS
    Modes,             \* which branches of runTurn are explored
    Kinds,             \* which kinds of tool call the model issues
    MaxCalls,          \* bound: tool calls in one round
    MaxToolIterations, \* 25 by default
    MaxRetries,        \* provider retries; a negative value means none
    AutoCompact,       \* AutoCompactContext
    AutoCompactLimit,  \* percentage
    SkipToolApproval,  \* brave mode, or "allow for this session"
    TurnEventBuffer,   \* 512 events
    NumPhases,         \* activity phases of the placeholder turn
    Histories,         \* session histories a turn may start from
    Prompts,           \* user prompts, "blank" is the empty one
    Sizes              \* content sizes of what the provider and tools return

\* The branches of runTurn: shell output handed over for later, no provider,
\* a provider without tools, the tool loop.
TurnModes == {"shell", "placeholder", "plain", "loop"}

\* AskUser; a tool that requires approval; a tool that runs without asking (or
\* is unknown to the registry); and a call whose arguments do not parse, of
\* AskUser or of another tool.
ToolKinds == {"ask", "approve", "auto", "badask", "badargs"}
Unparsable == {"badask", "badargs"}

ASSUME TurnConstants ==
    /\ Modes \subseteq TurnModes
    /\ Kinds \subseteq ToolKinds
    /\ MaxCalls \in Nat /\ NumPhases \in Nat
    /\ MaxToolIterations \in Nat \ {0}
    /\ MaxRetries \in Int
    /\ AutoCompact \in BOOLEAN /\ SkipToolApproval \in BOOLEAN
    /\ AutoCompactLimit \in Int
    /\ TurnEventBuffer \in Nat \ {0}
    /\ Histories \subseteq Seq(Message)
    /\ \A h \in Histories : Answered(h)
    /\ Prompts \subseteq Texts
    /\ Sizes \subseteq Nat

MaxContextCompactions == 3

VARIABLES
    mode,        \* the branch of runTurn
    pc,          \* where the goroutine is
    phase,       \* phase of the placeholder turn
    step,        \* tool rounds counted against MaxToolIterations
    messages,    \* runProviderLoop's messages
    req,         \* completeProviderWithRetry's req.Messages
    attempt,     \* its attempt
    compactions, \* its contextCompactions
    lastErr,     \* its lastErr, "none" for nil
    streaming,   \* the request carries the stream callbacks
    round,       \* the tool calls of the current round
    idx,         \* the call of the round being run
    approved,    \* history: the host approved the current call
    queued,      \* events in the channel buffer
    open,        \* history: call announced by Start and not yet by Done
    ended,       \* history: the TurnDone event sent: "none", "done", "error"
    cancelled    \* ctx.Done() is closed

loopVars  == <<mode, phase, step, messages>>
retryVars == <<req, attempt, compactions, lastErr, streaming>>
toolVars  == <<round, idx, approved>>
outVars   == <<open, ended>>
vars      == <<pc, queued, cancelled, loopVars, retryVars, toolVars, outVars>>

----------------------------------------------------------------------------
(* Vocabulary *)

Locations == {"start", "phaseWait", "phaseSend", "connecting", "thinking",
              "stepTop", "request", "attempt", "notifyCompact", "notifyRetry",
              "backoff", "call", "callCompact", "delta", "deltaCompact",
              "failed", "toolActivity", "toolStart", "interact", "execute",
              "output", "toolDone", "finish", "return", "closed"}

\* "retriable": a ProviderError with IsRetriable; "stall": a stalled stream or
\* one that must be repeated without streaming; "overflow": the context is too
\* large; "cancel": ProviderCancelError; "fatal": everything else.
Errors == {"retriable", "stall", "overflow", "cancel", "fatal"}

ShouldRetryProvider(e) == e \in {"retriable", "stall", "overflow"}
ShouldDisableStreamOnRetry(e) == e = "stall"

Attempts == IF MaxRetries < 0 THEN 1 ELSE MaxRetries + 1
TotalBudget == Attempts + (IF AutoCompact THEN MaxContextCompactions ELSE 0)

\* Faulty variant of NeedsInteract: only questions reach the host.
NeedsAnswer(kind) == kind = "ask"

NeedsInteract(kind) == \/ kind = "ask"
                       \/ kind = "approve" /\ ~SkipToolApproval

\* Rounds of AskUser calls do not use up the iteration budget, those that are
\* answered without the user because they do not parse included.
ToolRoundCountsTowardLimit(r) == \E i \in 1..Len(r) : r[i] \notin {"ask", "badask"}

Calls == UNION {[1..n -> Kinds] : n \in 1..MaxCalls}

----------------------------------------------------------------------------
(* sendEvent: a select between the channel and ctx.Done().  SendEvent is   *)
(* the form whose caller returns when the context is done, SendIgnored the *)
(* form whose caller drops the result.                                     *)

SendEvent(next) ==
    \/ /\ queued < TurnEventBuffer
       /\ queued' = queued + 1
       /\ pc' = next
    \/ /\ cancelled
       /\ pc' = "return"
       /\ UNCHANGED queued

\* Faulty variant of SendIgnored: the send does not look at the context.
SendBlocking(next) ==
    /\ queued < TurnEventBuffer
    /\ queued' = queued + 1
    /\ pc' = next

SendIgnored(next) ==
    /\ \/ queued < TurnEventBuffer /\ queued' = queued + 1
       \/ cancelled /\ UNCHANGED queued
    /\ pc' = next

----------------------------------------------------------------------------

Init ==
    /\ mode \in Modes
    /\ \E h \in Histories, p \in Prompts, s \in Sizes, img \in BOOLEAN :
         messages = PrepareTurnMessages(h, p, s, img)
    /\ pc = "start"
    /\ phase = 0 /\ step = 0
    /\ req = <<>> /\ attempt = 0 /\ compactions = 0
    /\ lastErr = "none" /\ streaming = FALSE
    /\ round = <<>> /\ idx = 1 /\ approved = FALSE
    /\ queued = 0 /\ open = 0 /\ ended = "none" /\ cancelled = FALSE

\* runTurn picks the branch.
RunTurn ==
    /\ pc = "start"
    /\ pc' = CASE mode = "shell"       -> "finish"
               [] mode = "placeholder" -> "phaseWait"
               [] OTHER                -> "connecting"
    /\ UNCHANGED <<queued, cancelled, loopVars, retryVars, toolVars, outVars>>

\* runPlaceholderTurn: wait, announce the phase, again.
PhaseWait ==
    /\ pc = "phaseWait"
    /\ \/ pc' = IF phase < NumPhases THEN "phaseSend" ELSE "finish"
       \/ cancelled /\ pc' = "return"
    /\ UNCHANGED <<queued, cancelled, loopVars, retryVars, toolVars, outVars>>

PhaseSend ==
    /\ pc = "phaseSend"
    /\ SendEvent("phaseWait")
    /\ phase' = phase + 1
    /\ UNCHANGED <<cancelled, mode, step, messages, retryVars, toolVars, outVars>>

Connecting ==
    /\ pc = "connecting"
    /\ SendEvent("thinking")
    /\ UNCHANGED <<cancelled, loopVars, retryVars, toolVars, outVars>>

Thinking ==
    /\ pc = "thinking"
    /\ SendEvent("stepTop")
    /\ UNCHANGED <<cancelled, loopVars, retryVars, toolVars, outVars>>

\* The head of the tool loop: out of iterations, or the next provider request.
StepLimit ==
    /\ pc = "stepTop"
    /\ step >= MaxToolIterations
    /\ pc' = "finish"
    /\ UNCHANGED <<queued, cancelled, loopVars, retryVars, toolVars, outVars>>

NextStep ==
    /\ pc = "stepTop"
    /\ step < MaxToolIterations
    /\ IF step = 0 THEN pc' = "request" /\ UNCHANGED queued
                   ELSE SendEvent("request")
    /\ UNCHANGED <<cancelled, loopVars, retryVars, toolVars, outVars>>

----------------------------------------------------------------------------
(* completeProviderWithRetry *)

Request ==
    /\ pc = "request"
    /\ pc' = "attempt"
    /\ req' = messages
    /\ attempt' = 0 /\ compactions' = 0 /\ lastErr' = "none"
    /\ streaming' = TRUE
    /\ UNCHANGED <<queued, cancelled, loopVars, toolVars, outVars>>

Compactable ==
    /\ AutoCompact
    /\ compactions < MaxContextCompactions
    /\ lastErr = "overflow"
    /\ CompactWithEntry(req, AutoCompactLimit).changed

FirstAttempt ==
    /\ pc = "attempt"
    /\ attempt = 0
    /\ pc' = "call"
    /\ UNCHANGED <<queued, cancelled, loopVars, retryVars, toolVars, outVars>>

\* Context too large: compact the request and retry it without waiting.
CompactAttempt ==
    /\ pc = "attempt"
    /\ attempt \in 1..(TotalBudget - 1)
    /\ Compactable
    /\ req' = CompactWithEntry(req, AutoCompactLimit).messages
    /\ compactions' = compactions + 1
    /\ streaming' = TRUE
    /\ pc' = "notifyCompact"
    /\ UNCHANGED <<queued, cancelled, loopVars, attempt, lastErr, toolVars,
                   outVars>>

RetryAttempt ==
    /\ pc = "attempt"
    /\ attempt \in 1..(TotalBudget - 1)
    /\ ~Compactable
    /\ ShouldRetryProvider(lastErr)
    /\ pc' = "notifyRetry"
    /\ UNCHANGED <<queued, cancelled, loopVars, retryVars, toolVars, outVars>>

\* The loop ends without an answer: budget spent, or an error of a compacted
\* attempt that is not worth another one.
GiveUp ==
    /\ pc = "attempt"
    /\ attempt > 0
    /\ \/ attempt >= TotalBudget
       \/ ~Compactable /\ ~ShouldRetryProvider(lastErr)
    /\ pc' = "failed"
    /\ UNCHANGED <<queued, cancelled, loopVars, retryVars, toolVars, outVars>>

\* onRetry, which only the tool loop passes.
Notify(from, to) ==
    /\ pc = from
    /\ IF mode = "loop" THEN SendIgnored(to) ELSE pc' = to /\ UNCHANGED queued
    /\ UNCHANGED <<cancelled, loopVars, retryVars, toolVars, outVars>>

NotifyCompact == Notify("notifyCompact", "callCompact")
NotifyRetry   == Notify("notifyRetry", "backoff")

\* The timer and ctx.Done() race.
Backoff ==
    /\ pc = "backoff"
    /\ \/ /\ pc' = "call"
          /\ streaming' = ~ShouldDisableStreamOnRetry(lastErr)
       \/ /\ cancelled
          /\ pc' = "return"
          /\ UNCHANGED streaming
    /\ UNCHANGED <<queued, cancelled, loopVars, req, attempt, compactions,
                   lastErr, toolVars, outVars>>

\* The provider calls back with a chunk; the callback blocks in sendEvent.
Delta ==
    /\ streaming
    /\ \/ pc = "call" /\ pc' = "delta"
       \/ pc = "callCompact" /\ pc' = "deltaCompact"
    /\ UNCHANGED <<queued, cancelled, loopVars, retryVars, toolVars, outVars>>

DeltaSend ==
    /\ \/ pc = "delta" /\ SendIgnored("call")
       \/ pc = "deltaCompact" /\ SendIgnored("callCompact")
    /\ UNCHANGED <<cancelled, loopVars, retryVars, toolVars, outVars>>

\* Faulty variant of CallFails: the compacted attempt is not counted.
CallFailsUncounted(e) ==
    /\ pc \in {"call", "callCompact"}
    /\ pc' = IF cancelled \/ ~ShouldRetryProvider(e) THEN "failed" ELSE "attempt"
    /\ attempt' = IF attempt = 0 THEN 1 ELSE attempt
    /\ lastErr' = e
    /\ UNCHANGED <<queued, cancelled, loopVars, req, compactions, streaming,
                   toolVars, outVars>>

\* Complete fails.  The compacted attempt goes on to the next one whatever the
\* error is, the other one only when a retry is worth it and there is one left.
CallFails(e) ==
    /\ \/ /\ pc = "call"
          /\ IF cancelled \/ ~ShouldRetryProvider(e) \/ attempt + 1 >= TotalBudget
             THEN pc' = "failed" /\ UNCHANGED attempt
             ELSE pc' = "attempt" /\ attempt' = attempt + 1
       \/ /\ pc = "callCompact"
          /\ IF cancelled \/ e = "cancel"
             THEN pc' = "failed" /\ UNCHANGED attempt
             ELSE pc' = "attempt" /\ attempt' = attempt + 1
    /\ lastErr' = e
    /\ UNCHANGED <<queued, cancelled, loopVars, req, compactions, streaming,
                   toolVars, outVars>>

\* A failed call ends the turn: silently after a cancellation, else with a
\* TurnDone event that carries the error.
Failed ==
    /\ pc = "failed"
    /\ pc' = IF cancelled \/ lastErr = "cancel" THEN "return" ELSE "finish"
    /\ UNCHANGED <<queued, cancelled, loopVars, retryVars, toolVars, outVars>>

\* Complete answers although the turn was cancelled meanwhile.
CallTooLate ==
    /\ pc \in {"call", "callCompact"}
    /\ cancelled
    /\ pc' = "return"
    /\ UNCHANGED <<queued, cancelled, loopVars, retryVars, toolVars, outVars>>

\* Complete answers without tool calls: a blank answer is not retained.
CallAnswers(size, blank) ==
    /\ pc \in {"call", "callCompact"}
    /\ ~cancelled
    /\ lastErr' = "none"
    /\ messages' = IF mode = "loop" /\ ~blank
                   THEN Append(messages, AssistantMessage(size, 0))
                   ELSE messages
    /\ pc' = "finish"
    /\ UNCHANGED <<queued, cancelled, mode, phase, step, req, attempt, compactions,
                   streaming, toolVars, outVars>>

\* Complete answers with a round of tool calls.
CallAsksForTools(size, r) ==
    /\ pc \in {"call", "callCompact"}
    /\ ~cancelled
    /\ mode = "loop"
    /\ lastErr' = "none"
    /\ messages' = Append(messages, AssistantMessage(size, Len(r)))
    /\ round' = r /\ idx' = 1 /\ approved' = FALSE
    /\ pc' = "toolActivity"
    /\ UNCHANGED <<queued, cancelled, mode, phase, step, req, attempt,
                   compactions, streaming, outVars>>

----------------------------------------------------------------------------
(* One tool call of the round *)

ToolActivity ==
    /\ pc = "toolActivity"
    /\ SendEvent("toolStart")
    /\ UNCHANGED <<cancelled, loopVars, retryVars, toolVars, outVars>>

\* Faulty variant of ToolStart: a call that cannot be parsed ends the turn.
ToolStartBreaksOff ==
    /\ pc = "toolStart"
    /\ SendEvent(CASE round[idx] \in Unparsable -> "finish"
                   [] NeedsInteract(round[idx]) -> "interact"
                   [] OTHER                     -> "execute")
    /\ open' = IF pc' = "return" THEN open ELSE idx
    /\ UNCHANGED <<cancelled, loopVars, retryVars, toolVars, ended>>

\* Announce the call; runToolCall then parses the arguments and asks
\* ToolInteractKindFor what the call needs.
ToolStart ==
    /\ pc = "toolStart"
    /\ SendEvent(CASE round[idx] \in Unparsable -> "toolDone"
                   [] NeedsInteract(round[idx]) -> "interact"
                   [] OTHER                     -> "execute")
    /\ open' = IF pc' = "return" THEN open ELSE idx
    /\ UNCHANGED <<cancelled, loopVars, retryVars, toolVars, ended>>

\* The host approves the call.
InteractApproves ==
    /\ pc = "interact"
    /\ round[idx] = "approve"
    /\ approved' = TRUE
    /\ pc' = "execute"
    /\ UNCHANGED <<queued, cancelled, loopVars, retryVars, round, idx, outVars>>

\* The host answers a question, denies, cancels, or cannot interact.
InteractResolves ==
    /\ pc = "interact"
    /\ pc' = "toolDone"
    /\ UNCHANGED <<queued, cancelled, loopVars, retryVars, toolVars, outVars>>

\* InteractTool returns because the context is done.
InteractAborts ==
    /\ pc = "interact"
    /\ cancelled
    /\ pc' = "toolDone"
    /\ UNCHANGED <<queued, cancelled, loopVars, retryVars, toolVars, outVars>>

ToolOutput ==
    /\ pc = "execute"
    /\ pc' = "output"
    /\ UNCHANGED <<queued, cancelled, loopVars, retryVars, toolVars, outVars>>

ToolOutputSend ==
    /\ pc = "output"
    /\ SendIgnored("execute")
    /\ UNCHANGED <<cancelled, loopVars, retryVars, toolVars, outVars>>

ToolReturns ==
    /\ pc = "execute"
    /\ pc' = "toolDone"
    /\ UNCHANGED <<queued, cancelled, loopVars, retryVars, toolVars, outVars>>

\* Announce the result and append it; after the last call of the round, compact
\* and count the round.
ToolDone(text, size) ==
    LET answered == Append(messages, ToolMessage(text, size, Len(round), idx))
        last     == idx = Len(round)
    IN  /\ pc = "toolDone"
        /\ SendEvent(IF last THEN "stepTop" ELSE "toolActivity")
        /\ IF pc' = "return"
           THEN UNCHANGED <<open, messages, step, toolVars>>
           ELSE /\ open' = 0
                /\ messages' = IF last THEN CompactMessages(answered)
                                       ELSE answered
                /\ step' = IF last /\ ToolRoundCountsTowardLimit(round)
                           THEN step + 1 ELSE step
                /\ round' = IF last THEN <<>> ELSE round
                /\ idx' = IF last THEN 1 ELSE idx + 1
                /\ approved' = FALSE
        /\ UNCHANGED <<cancelled, mode, phase, retryVars, ended>>

----------------------------------------------------------------------------
(* The end of the turn *)

\* The TurnDone event; its history is CompactMessages(messages) in the loop.
Finish ==
    /\ pc = "finish"
    /\ SendIgnored("return")
    /\ ended' = IF queued' = queued THEN ended
                ELSE IF lastErr = "none" THEN "done" ELSE "error"
    /\ UNCHANGED <<cancelled, loopVars, retryVars, toolVars, open>>

\* defer close(ch)
Close ==
    /\ pc = "return"
    /\ pc' = "closed"
    /\ UNCHANGED <<queued, cancelled, loopVars, retryVars, toolVars, outVars>>

----------------------------------------------------------------------------
(* The surroundings: the user cancels, the reader of the channel reads.    *)

Cancel ==
    /\ ~cancelled
    /\ cancelled' = TRUE
    /\ UNCHANGED <<pc, queued, loopVars, retryVars, toolVars, outVars>>

Receive ==
    /\ queued > 0
    /\ queued' = queued - 1
    /\ UNCHANGED <<pc, cancelled, loopVars, retryVars, toolVars, outVars>>

\* The turn is over and the channel is drained.
Over ==
    /\ pc = "closed" /\ queued = 0
    /\ UNCHANGED vars

----------------------------------------------------------------------------

\* What the goroutine does on its own, without the provider, the tools or the
\* host having to answer.
Run ==
    \/ RunTurn \/ PhaseWait \/ PhaseSend \/ Connecting \/ Thinking
    \/ StepLimit \/ NextStep
    \/ Request \/ FirstAttempt \/ CompactAttempt \/ RetryAttempt \/ GiveUp
    \/ NotifyCompact \/ NotifyRetry \/ Backoff \/ DeltaSend \/ Failed
    \/ ToolActivity \/ ToolStart \/ InteractAborts \/ ToolOutputSend
    \/ \E s \in Sizes, t \in {"blank", "skill"} : ToolDone(t, s)
    \/ Finish \/ Close

\* The provider answers the request, one way or another.
ProviderReturns ==
    \/ \E e \in Errors : CallFails(e)
    \/ CallTooLate
    \/ \E s \in Sizes, blank \in BOOLEAN : CallAnswers(s, blank)
    \/ \E s \in Sizes, r \in Calls : CallAsksForTools(s, r)

HostAnswers == InteractApproves \/ InteractResolves

Next ==
    \/ Run \/ ProviderReturns \/ HostAnswers
    \/ Delta \/ ToolOutput \/ ToolReturns
    \/ Cancel \/ Receive \/ Over

Spec == Init /\ [][Next]_vars

\* The goroutine is scheduled, and the provider returns (it honours the context,
\* and the stream watchdog bounds the rest), strongly: a stream has finitely many
\* chunks, between which it may return.  Nobody promises that a tool returns: a
\* shell command waits for a slot, and for the end of its terminal, without
\* looking at the context.  Nor to read the channel, to answer a dialog or to
\* cancel.
FairSpec == Spec /\ WF_vars(Run) /\ SF_vars(ProviderReturns)

\* Somebody reads the channel, answers the dialogs, and the tools return.
Attended == WF_vars(Receive) /\ WF_vars(HostAnswers) /\ SF_vars(ToolReturns)

============================================================================
