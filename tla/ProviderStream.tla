---------------------------- MODULE ProviderStream ----------------------------
(***************************************************************************)
(* One call of Provider.Complete with a stream: pkg/ai/providers/openai,   *)
(* pkg/ai/providers/anthropic, and the reading of server-sent events, the  *)
(* stall watch and the classes of errors they share.  A request is made in *)
(* up to three attempts: "raw" reads the events itself, "sdk" leaves it to *)
(* the vendor's library, "once" asks for the whole answer and replays it.  *)
(* What a provider sends is known by its pieces (external).                *)
(***************************************************************************)
EXTENDS Integers, Sequences, Lists

CONSTANTS
    MaxParts,   \* bound: pieces a provider sends in an attempt
    MaxHistory  \* bound: messages of the conversation sent

ASSUME ProviderStreamConstants == MaxParts \in Nat /\ MaxHistory \in Nat

VARIABLES
    wire,      \* the messages of the request
    vendor,    \* "openai" or "anthropic"
    attempt,   \* "none", "raw", "sdk", "once"
    reading,   \* of the attempt: "connecting", "streaming", "over"
    pieces,    \* pieces read in the attempt
    answer,    \* what the attempt has collected, see Blank
    emitted,   \* history: what was given to the stream, with its attempt
    failures,  \* history: attempts that failed, with the class of the error
    watch,     \* timer of the stall watch: "off", "running", "expired"
    activity,  \* the channel of the watch holds a token
    cause,     \* context.Cause of the attempt's context: "none", "stall", "user"
    quitIn,    \* the attempt during which the user cancelled Complete, or "none"
    verdict    \* "none", "ok", "failed"

streamVars == <<wire, vendor, attempt, reading, pieces, answer, emitted, failures, watch,
                activity, cause, quitIn, verdict>>

Indexes == 1..2
NoCall == [id |-> FALSE, name |-> FALSE, args |-> 0, closed |-> FALSE]
Blank == [thinking |-> 0, content |-> 0, calls |-> [i \in Indexes |-> NoCall]]

ProviderStreamInit ==
    /\ wire = <<>> /\ vendor = "openai" /\ attempt = "none" /\ reading = "over"
    /\ pieces = 0 /\ answer = Blank /\ emitted = <<>> /\ failures = {}
    /\ watch = "off" /\ activity = FALSE /\ cause = "none" /\ quitIn = "none"
    /\ verdict = "none"

-----------------------------------------------------------------------------
(* The request. *)

Messages == [role : {"user"}, calls : {{}}, answers : {0}]
    \cup [role : {"assistant"}, calls : SUBSET Indexes, answers : {0}]
    \cup [role : {"tool"}, calls : {{}}, answers : {0} \cup Indexes]

\* Faulty variant of ActiveIDs: a new user message leaves the ids standing.
ActiveIDsKept(messages, k) ==
    LET asked == {j \in 1..(k - 1) : messages[j].role = "assistant"}
    IN IF asked = {} THEN {}
       ELSE messages[CHOOSE j \in asked : \A l \in asked : l <= j].calls

\* activeIDs when message k is reached: the calls of the last message that is
\* not a tool's, none for a user's.
ActiveIDs(messages, k) ==
    LET others == {j \in 1..(k - 1) : messages[j].role # "tool"}
    IN IF others = {} THEN {}
       ELSE messages[CHOOSE j \in others : \A l \in others : l <= j].calls

SanitizeToolMessages(messages) ==
    ElementsAt(messages, {k \in DOMAIN messages :
        messages[k].role = "tool" => messages[k].answers \in ActiveIDs(messages, k)})

\* Only the OpenAI adapter sanitizes.
Prepare ==
    /\ attempt = "none" /\ wire = <<>> /\ verdict = "none"
    /\ vendor' \in {"openai", "anthropic"}
    /\ \E n \in 1..MaxHistory : \E messages \in [1..n -> Messages] :
         wire' = IF vendor' = "openai" THEN SanitizeToolMessages(messages)
                 ELSE <<[role |-> "user", calls |-> {}, answers |-> 0]>>
    /\ UNCHANGED <<attempt, reading, pieces, answer, emitted, failures, watch, activity,
                   cause, quitIn, verdict>>

-----------------------------------------------------------------------------
(* Attempts. *)

\* A new watch starts with a token; the library of Anthropic has none.  What
\* the watch ends is a context of the attempt, below the caller's.
BeginRequest(a) ==
    /\ attempt' = a /\ reading' = "connecting"
    /\ pieces' = 0 /\ answer' = Blank
    /\ watch' = IF a = "once" \/ vendor = "anthropic" THEN "off" ELSE "running"
    /\ activity' = (watch' = "running")
    /\ cause' = IF quitIn = "none" THEN "none" ELSE "user"
    /\ wire' = <<>>
    /\ UNCHANGED <<vendor, emitted, failures, quitIn, verdict>>

EndRequest(o) ==
    /\ verdict' = o
    /\ UNCHANGED <<wire, vendor, attempt, pieces, answer, emitted, failures, activity, cause, quitIn>>

\* preferRawSSE is a matter of the model's thinking format.
Complete ==
    /\ attempt = "none" /\ wire # <<>>
    /\ \E a \in (IF vendor = "openai" THEN {"raw", "sdk"} ELSE {"sdk"}) : BeginRequest(a)

Piece == {"thinking", "content", "call", "args", "stop", "comment"}
Emit(what) == emitted' = Append(emitted, [by |-> attempt, what |-> what])

\* A delta of a call: id and name come together or one of them is missing.
\* With Anthropic a block is one call and counts once it is closed.
Absorb(what, i) ==
    CASE what = "call" -> \E id \in BOOLEAN, name \in BOOLEAN :
            /\ id \/ name
            /\ answer' = [answer EXCEPT !.calls[i].id = @ \/ id, !.calls[i].name = @ \/ name]
      [] what = "args" -> answer' = [answer EXCEPT !.calls[i].args = @ + 1]
      [] what = "stop" -> answer' = [answer EXCEPT !.calls[i].closed = TRUE]

\* A token is left for the watch whatever the chunk; a second one is dropped.
Bump == activity' = (activity \/ watch # "off")

\* A request that is not answered when the user cancels gets no answer.
Answerable == reading = "connecting" => cause # "user"

\* The callback of PostSSE and the loops over stream.Next.  What was read
\* before the context ended is still delivered.
Chunk(what) ==
    /\ verdict = "none" /\ attempt \in {"raw", "sdk"} /\ reading # "over" /\ pieces < MaxParts
    /\ Answerable
    /\ reading' = "streaming" /\ pieces' = pieces + 1
    /\ Bump
    /\ CASE what = "thinking" -> Emit(what) /\ answer' = [answer EXCEPT !.thinking = @ + 1]
         [] what = "content" -> Emit(what) /\ answer' = [answer EXCEPT !.content = @ + 1]
         [] what = "comment" -> UNCHANGED <<emitted, answer>>
         [] OTHER -> (\E i \in Indexes : Absorb(what, i)) /\ UNCHANGED emitted
    /\ UNCHANGED <<wire, vendor, attempt, failures, watch, cause, quitIn, verdict>>

\* toolAcc.result asks for a name only, turnResultFromChatChoice and the
\* Anthropic adapter for more.
ToolCalls == {i \in Indexes : /\ answer.calls[i].name
                              /\ attempt = "once" => answer.calls[i].id
                              /\ vendor = "anthropic" => answer.calls[i].closed}
ResultValid == answer.thinking > 0 \/ answer.content > 0 \/ ToolCalls # {}

\* The stream ends with [DONE], or the one-shot answer arrives and is replayed.
Done ==
    /\ verdict = "none" /\ attempt \in {"raw", "sdk"} /\ reading = "streaming"
    /\ ResultValid /\ watch' = watch /\ reading' = "over" /\ EndRequest("ok")

OneShotAnswer ==
    /\ verdict = "none" /\ attempt = "once" /\ reading = "connecting" /\ Answerable
    /\ \E thought \in 0..1, said \in 0..1, i \in Indexes, called \in BOOLEAN :
         /\ thought + said > 0 \/ called
         /\ answer' = [thinking |-> thought, content |-> said,
                       calls |-> [Blank.calls EXCEPT ![i] =
                                    [id |-> called, name |-> called, args |-> 0, closed |-> called]]]
         /\ emitted' = emitted \o [k \in 1..thought |-> [by |-> "once", what |-> "thinking"]]
                               \o [k \in 1..said |-> [by |-> "once", what |-> "content"]]
    /\ verdict' = "ok" /\ reading' = "over"
    /\ UNCHANGED <<wire, vendor, attempt, pieces, failures, watch, activity, cause, quitIn>>

-----------------------------------------------------------------------------
(* Failures. *)

Fail(class, ended) ==
    /\ reading' = "over"
    /\ failures' = failures \cup {[by |-> attempt, class |-> class, ended |-> ended]}
    /\ UNCHANGED <<wire, vendor, attempt, pieces, answer, emitted, watch, activity, cause, quitIn, verdict>>

\* The provider's own: an empty answer, an HTTP status, an error event, a
\* broken connection.  A chunk that is no JSON fails the library as such; the
\* raw reader wraps the wrong variable and loses the class.
Malformed == IF attempt = "raw" THEN "other" ELSE "json"

UpstreamFails ==
    /\ verdict = "none" /\ attempt # "none" /\ reading # "over" /\ Answerable
    /\ \E class \in {"other", "gateway", "json", Malformed} :
         /\ class = "json" => reading = "streaming"
         /\ Fail(class, "none")

\* Faulty variant of EndClass: whatever ends the stream is taken for a stall.
EndClassStall == "stalled"

\* While streaming the cause tells a stall from the user; before the first
\* byte, and in the libraries, an ended context may just be "cancelled".
EndClass == IF cause = "stall" /\ reading = "streaming" THEN "stalled" ELSE "cancelled"

ContextEnds ==
    /\ verdict = "none" /\ attempt # "none" /\ reading # "over" /\ cause # "none"
    /\ \/ Fail(EndClass, cause)
       \/ attempt = "sdk" /\ cause = "stall" /\ Fail("cancelled", cause)

FailedWith(class) == \E f \in failures : f.by = attempt /\ f.class = class
HasFailed == verdict = "none" /\ attempt # "none" /\ reading = "over"
Fallback == FailedWith("json") \/ FailedWith("stalled") \/ FailedWith("gateway")

\* The library is tried after the raw reader for IsStreamJSONError, the
\* one-shot request for ShouldStreamNonStreamingFallback.
NextAttempt ==
    /\ HasFailed
    /\ \/ attempt = "raw" /\ FailedWith("json") /\ BeginRequest("sdk")
       \/ attempt = "raw" /\ ~FailedWith("json") /\ Fallback /\ BeginRequest("once")
       \/ attempt = "sdk" /\ Fallback /\ BeginRequest("once")

GiveUp ==
    /\ HasFailed /\ (attempt = "once" \/ ~Fallback)
    /\ watch' = watch /\ reading' = reading /\ EndRequest("failed")

-----------------------------------------------------------------------------
(* WithStreamStallWatch, and the user, who ends the context of the caller and
   with it those of the attempts, also of the ones to come. *)

watchOnly == <<wire, vendor, attempt, reading, pieces, answer, emitted, failures, verdict>>

TimerExpires ==
    /\ verdict = "none" /\ watch = "running" /\ watch' = "expired"
    /\ UNCHANGED <<watchOnly, activity, cause, quitIn>>

\* The select of the watcher; with both ready it takes either.
WatchActivity ==
    /\ verdict = "none" /\ activity /\ watch \in {"running", "expired"} /\ cause = "none"
    /\ activity' = FALSE /\ watch' = "running"
    /\ UNCHANGED <<watchOnly, cause, quitIn>>

WatchStalls ==
    /\ verdict = "none" /\ watch = "expired" /\ cause = "none"
    /\ cause' = "stall" /\ watch' = "off"
    /\ UNCHANGED <<watchOnly, activity, quitIn>>

UserCancels ==
    /\ verdict = "none" /\ attempt # "none" /\ quitIn = "none"
    /\ quitIn' = attempt /\ cause' = IF cause = "none" THEN "user" ELSE cause
    /\ UNCHANGED <<watchOnly, watch, activity>>

ProviderStreamNext ==
    \/ Prepare \/ Complete \/ Done \/ OneShotAnswer \/ UpstreamFails \/ ContextEnds
    \/ NextAttempt \/ GiveUp \/ TimerExpires \/ WatchActivity \/ WatchStalls \/ UserCancels
    \/ \E what \in Piece : Chunk(what)

ProviderStreamSpec == ProviderStreamInit /\ [][ProviderStreamNext]_streamVars

-----------------------------------------------------------------------------
EmittedBy(a, what) == Cardinality({k \in DOMAIN emitted : emitted[k] = [by |-> a, what |-> what]})

\* A tool message is sent only after the call it answers, in the same turn.
\* What the stream showed of the attempt that answered is its answer, no more
\* and no less; anything before it came from an attempt that stalled, timed
\* out at the gateway or broke off in bad JSON.  An attempt the user ended is
\* the last; if he cancelled one that had stalled already, or one that had
\* failed, the one begun for it shows nothing and answers nothing.
StreamFaithful ==
    /\ vendor = "openai" => \A k \in DOMAIN wire : wire[k].role = "tool" =>
         \E j \in 1..(k - 1) : /\ wire[j].role = "assistant" /\ wire[k].answers \in wire[j].calls
                               /\ \A l \in (j + 1)..k : wire[l].role = "tool"
    /\ verdict = "ok" =>
         /\ EmittedBy(attempt, "thinking") = answer.thinking
         /\ EmittedBy(attempt, "content") = answer.content
         /\ \A k \in DOMAIN emitted : emitted[k].by # attempt =>
              \E f \in failures : f.by = emitted[k].by /\ f.class \in {"json", "stalled", "gateway"}
    /\ \A f \in failures : f.ended = "user" => f.by = attempt
    /\ quitIn \notin {"none", attempt} =>
         verdict # "ok" /\ \A k \in DOMAIN emitted : emitted[k].by # attempt
=============================================================================
