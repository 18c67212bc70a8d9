--------------------------- MODULE AgentTurnProps ---------------------------
(***************************************************************************)
(* The correctness properties of one agent turn.                           *)
(***************************************************************************)
EXTENDS AgentTurn

\* Every variable keeps its type; counters stay within the loops' bounds.
\* (loop.go:39-172, provider_retry.go:73-158)
TypeOK ==
    /\ mode \in TurnModes
    /\ pc \in Locations
    /\ phase \in Nat /\ step \in Nat
    /\ messages \in Seq(Message) /\ req \in Seq(Message)
    /\ attempt \in Nat /\ compactions \in Nat
    /\ lastErr \in Errors \cup {"none"}
    /\ streaming \in BOOLEAN
    /\ round \in Seq(ToolKinds) /\ idx \in Nat \ {0}
    /\ approved \in BOOLEAN
    /\ queued \in 0..TurnEventBuffer
    /\ open \in Nat
    /\ ended \in {"none", "done", "error"}
    /\ cancelled \in BOOLEAN

InCall == {"call", "callCompact", "delta", "deltaCompact"}
InRetry == InCall \cup {"attempt", "notifyCompact", "notifyRetry", "backoff"}
InTool == {"toolActivity", "toolStart", "interact", "execute", "output", "toolDone"}

\* Every request that reaches the provider, and every history the turn hands
\* back, pairs each tool call with its answer and each answer with its call,
\* through any mix of tool rounds, compactions and retries.  (loop.go:126-157,
\* provider_retry.go:94-119, truncate.go:87-137)
RequestsAnswered ==
    /\ pc \in InRetry => Answered(req)
    /\ pc \in {"stepTop", "request", "finish"} => Answered(messages)

\* A tool that requires approval runs only after the host approved this very
\* call, unless approvals are skipped.  (loop.go:180-206)
ApprovedBeforeExecution ==
    pc \in {"execute", "output"} /\ round[idx] = "approve"
      => approved \/ SkipToolApproval

\* Compacting an overflowing request is idempotent, so one request is
\* compacted at most once, however often the provider rejects it: the other
\* retries maxContextCompactions grants are plain repetitions.
\* (provider_retry.go:94-121, compaction.go:209-249)
CompactedAtMostOnce == compactions <= 1

\* A turn closes its channel without a TurnDone event only when it was
\* cancelled or the provider reported a cancellation or deadline of its own.
\* (loop.go:99-114, turn.go:81-92)
NoSilentEnd == pc = "closed" /\ ended = "none" => cancelled \/ lastErr = "cancel"

\* What the reader of the channel may rely on.
Contract == INSTANCE TurnContract WITH
              life <- IF pc = "closed" THEN "closed"
                      ELSE IF ended # "none" THEN "ended" ELSE "running",
              open <- open,
              stop <- cancelled,
              quit <- (lastErr = "cancel")

\* The turn implements the contract.  (loop.go:130-156, turn.go:32-33)
ImplementsContract == Contract!Spec

\* The goroutine is inside one call of a tool, for ever: the tool may still
\* report output, but does not return.
HeldByTool == [](pc \in {"execute", "output"}) /\ []<>(pc = "execute")

\* A cancelled turn ends and closes its channel even if nobody reads another
\* event or answers the open dialog; nothing can hold it but a tool that does
\* not return, as a shell command without a slot may.  (turn.go:144-151,
\* loop.go:174-220)
CancelledTurnEnds == cancelled ~> (pc = "closed" \/ HeldByTool)

\* The round in progress is one of questions, which are not counted.
OnlyQuestions == round # <<>> /\ ~ToolRoundCountsTowardLimit(round)

\* A turn whose events are read, whose dialogs are answered and whose tools
\* return ends without being cancelled, unless the model asks questions for ever:
\* the rounds of other tools, the retries and the chunks of a stream come to an
\* end whatever stands between them, the rounds that are not counted do not.
\* (loop.go:23-37, loop.go:58, provider_retry.go:91)
AttendedTurnEnds ==
    Attended => <>(pc = "closed") \/ (/\ []<>OnlyQuestions
                                      /\ <>[](round # <<>> => OnlyQuestions))

============================================================================
