------------------------------ MODULE History ------------------------------
(***************************************************************************)
(* The conversation history an agent turn sends to the provider and hands  *)
(* back to the session: pkg/core/agent/truncate.go, compaction.go,         *)
(* messages.go and limits.go.  A pure data module: it has no variables.    *)
(*                                                                         *)
(* A message keeps what compaction and the provider tell apart:            *)
(*   role    "user", "assistant" or "tool"                                 *)
(*   text    a class of content: which prompt, "skill" for the activation  *)
(*           content of a skill, "blank" when nothing distinguishes it     *)
(*   size    bytes of Content                                              *)
(*   images  whether image attachments hang on it (user messages)          *)
(*   calls   how many tool calls its round has (assistant and tool)        *)
(*   call    which call of the round it answers (tool), else 0             *)
(* The ID of a tool call is its position in the round that issued it.      *)
(***************************************************************************)
EXTENDS Integers, Sequences, FiniteSets

CONSTANTS
    MaxHistoryMessages,       \* 32 messages
    MaxHistoryBytes,          \* 512 KB
    MaxProviderToolBytes,     \* 32 KB
    MaxAssistantHistoryBytes, \* 64 KB
    MinMessages,              \* DefaultCompactionThreshold: 10 messages
    MinBytes,                 \* DefaultCompactionThreshold: 64 KB
    FloorMessages,            \* CompactMessagesToRatio never targets below 4
    FloorBytes,               \* ... nor below 16 KB
    ImageBytes,               \* bytes of the images of one message
    CallBytes,                \* name, ID and arguments of one tool call
    HeaderBytes,              \* role and tool-call ID of one message
    Texts                     \* the classes of content

ASSUME HistoryConstants ==
    /\ {MaxHistoryMessages, MaxHistoryBytes, MaxProviderToolBytes,
        MaxAssistantHistoryBytes, MinMessages, MinBytes, FloorMessages,
        FloorBytes, ImageBytes, CallBytes, HeaderBytes} \subseteq Nat
    /\ {"blank", "skill"} \subseteq Texts

Roles == {"user", "assistant", "tool"}

Message == [role : Roles, text : Texts, size : Nat, images : BOOLEAN,
            calls : Nat, call : Nat]

UserMessage(text, size, images) ==
    [role |-> "user", text |-> text, size |-> size, images |-> images,
     calls |-> 0, call |-> 0]

AssistantMessage(size, calls) ==
    [role |-> "assistant", text |-> "blank", size |-> size, images |-> FALSE,
     calls |-> calls, call |-> 0]

\* The answer to call number `call` of a round of `calls` calls.
ToolMessage(text, size, calls, call) ==
    [role |-> "tool", text |-> text, size |-> size, images |-> FALSE,
     calls |-> calls, call |-> call]

----------------------------------------------------------------------------
(* Sizes *)

MessageUTF8Size(m) ==
    m.size + HeaderBytes
      + (IF m.images THEN ImageBytes ELSE 0)
      + (IF m.role = "assistant" THEN m.calls * CallBytes ELSE 0)

HistoryUTF8Size(ms) ==
    LET total[i \in 0..Len(ms)] ==
          IF i = 0 THEN 0 ELSE total[i - 1] + MessageUTF8Size(ms[i])
    IN  total[Len(ms)]

AtMost(n, limit) == IF n <= limit THEN n ELSE limit

\* TruncateWithNotice never returns more than the limit it is given.
TruncateHistoryMessage(m) ==
    CASE m.role = "tool" ->
           [m EXCEPT !.size =
              AtMost(@, IF m.text = "skill" THEN 4 * MaxProviderToolBytes
                                            ELSE MaxProviderToolBytes)]
      [] m.role = "assistant" ->
           [m EXCEPT !.size = AtMost(@, MaxAssistantHistoryBytes)]
      [] OTHER -> m

----------------------------------------------------------------------------
(* Dropping turns *)

UserPositions(ms) == {i \in 1..Len(ms) : ms[i].role = "user"}

\* Faulty variant of TurnCuts: drop the oldest message, not the oldest turn.
MessageCuts(ms) == 2..(Len(ms) + 1)

\* The ends removeOldestTurn can leave the list at: the second user message,
\* the third ... and the end of the list.  The first user message goes with
\* everything before it and every answer to it.
TurnCuts(ms) ==
    {i \in UserPositions(ms) : \E j \in UserPositions(ms) : j < i}
      \cup {Len(ms) + 1}

From(ms, i) == SubSeq(ms, i, Len(ms))

RemoveOldestTurn(ms) ==
    IF ms = <<>> THEN <<>>
    ELSE From(ms, CHOOSE i \in TurnCuts(ms) : \A j \in TurnCuts(ms) : i <= j)

Fits(ms, messages, bytes) ==
    Len(ms) <= messages /\ HistoryUTF8Size(ms) <= bytes

\* The loop "drop the oldest turn until the list fits or is empty": the first
\* cut whose remainder fits.
DropUntilFits(ms, messages, bytes) ==
    LET good == {i \in TurnCuts(ms) : \/ i = Len(ms) + 1
                                      \/ Fits(From(ms, i), messages, bytes)}
    IN  IF Fits(ms, messages, bytes) THEN ms
        ELSE From(ms, CHOOSE i \in good : \A j \in good : i <= j)

\* Only the newest user message keeps its images.
StripHistoryImages(ms) ==
    [i \in 1..Len(ms) |->
       IF i \in UserPositions(ms) /\ \A j \in UserPositions(ms) : j <= i
       THEN ms[i]
       ELSE [ms[i] EXCEPT !.images = FALSE]]

CompactMessages(ms) ==
    StripHistoryImages(
      DropUntilFits([i \in 1..Len(ms) |-> TruncateHistoryMessage(ms[i])],
                    MaxHistoryMessages, MaxHistoryBytes))

AtLeast(n, floor) == IF n >= floor THEN n ELSE floor

CompactMessagesToRatio(ms, ratio) ==
    IF ratio <= 0 \/ ratio >= 100 THEN CompactMessages(ms)
    ELSE StripHistoryImages(
           DropUntilFits(CompactMessages(ms),
             AtLeast((MaxHistoryMessages * ratio) \div 100, FloorMessages),
             AtLeast((MaxHistoryBytes * ratio) \div 100, FloorBytes)))

\* The token threshold (16K tokens of 4 bytes) is the byte threshold again.
ShouldCompact(ms) ==
    Len(ms) >= MinMessages /\ Len(ms) > 0 /\ HistoryUTF8Size(ms) >= MinBytes

\* Faulty variant of CompactWithEntry: a change is reported without comparing
\* the lengths.
CompactWithEntryUnchecked(ms, ratio) ==
    [messages |-> IF ShouldCompact(ms) THEN CompactMessagesToRatio(ms, ratio)
                                       ELSE ms,
     changed |-> ShouldCompact(ms)]

\* CompactMessagesWithEntry: the messages and whether any was dropped.
CompactWithEntry(ms, ratio) ==
    LET compacted == CompactMessagesToRatio(ms, ratio)
        changed   == ShouldCompact(ms) /\ Len(compacted) < Len(ms)
    IN  [messages |-> IF changed THEN compacted ELSE ms, changed |-> changed]

----------------------------------------------------------------------------
(* The messages a turn starts from *)

\* prepareTurnMessages: the prompt is not repeated when the history already
\* ends with it and no image is involved.  The empty prompt is "blank".
PrepareTurnMessages(history, prompt, size, images) ==
    LET ms   == CompactMessages(history)
        dup  == /\ ms # <<>>
                /\ ms[Len(ms)].role = "user"
                /\ ms[Len(ms)].text = prompt
                /\ ~images /\ ~ms[Len(ms)].images
    IN  IF (prompt = "blank" /\ ~images) \/ dup THEN ms
        ELSE Append(ms, UserMessage(prompt, size, images))

----------------------------------------------------------------------------
(* What a provider accepts *)

\* The round that ends at message m is complete.
CompleteAt(m) ==
    CASE m.role = "user"      -> TRUE
      [] m.role = "assistant" -> m.calls = 0
      [] m.role = "tool"      -> m.call = m.calls
      [] OTHER                -> FALSE

\* b may directly follow a: tool answers come in the order of the calls,
\* right behind the assistant message that issued them, all of them before
\* anything else.
MayFollow(a, b) ==
    IF b.role = "tool"
    THEN /\ a.role \in {"assistant", "tool"}
         /\ a.calls = b.calls
         /\ b.call = a.call + 1
         /\ b.call <= b.calls
    ELSE CompleteAt(a)

Linked(ms) ==
    /\ Len(ms) > 0 => ms[1].role # "tool"
    /\ \A i \in 1..(Len(ms) - 1) : MayFollow(ms[i], ms[i + 1])

\* No tool message is orphaned and every tool call has its answer.
Answered(ms) == Linked(ms) /\ (Len(ms) > 0 => CompleteAt(ms[Len(ms)]))

============================================================================
