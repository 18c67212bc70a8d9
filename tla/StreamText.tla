------------------------------ MODULE StreamText ------------------------------
(***************************************************************************)
(* The text of a streamed answer on its way to the screen: the filters of  *)
(* pkg/core/agent/thinktag.go and toolcall.go, and the functions of        *)
(* internal/renderer that run every chunk, and at the end the whole answer *)
(* again, through them.  A text is a sequence of tokens; a provider may    *)
(* cut it between any two.  Markup is complete or just begun; the guessing *)
(* at malformed calls (toolcall_smart.go) is left out.                     *)
(***************************************************************************)
EXTENDS Integers, Sequences, FiniteSets, Lists

CONSTANTS
    MaxSegments, \* bound: segments of an answer
    MaxChunk     \* bound: tokens of a chunk

ASSUME StreamTextConstants == MaxSegments \in Nat /\ MaxChunk \in Nat \ {0}

VARIABLES
    text,     \* the answer the model writes
    received, \* tokens of it already streamed
    thinks,   \* thinkingTurnEnabled
    tagHold, inThink,  \* ThinkTagStreamFilter
    callHold, \* ToolCallStreamFilter
    shown,    \* text of the AI message, <<>> for none
    thinking, \* text of the thinking message
    boxes,    \* SeenToolCalls: the value of the parameter of each
    answered  \* finishAgentTurn has run

textVars == <<text, received, thinks, tagHold, inThink, callHold, shown, thinking, boxes, answered>>

-----------------------------------------------------------------------------
(* Tokens: "w" a word, "v" a word that is also a value of a parameter,     *)
(* "blank" white space, and the tags in halves.                            *)

ThinkOpen == <<"<think", "think>">>
ThinkClose == <<"</think", "/think>">>
CallOpen == <<"<tool", "call>">>
CallClose == <<"/call>">>
Function == "<function><parameter>"
FunctionEnd == "</parameter></function>"
Tokens == {"w", "v", "blank", "<think", "think>", "</think", "/think>", "<tool", "call>", "/call>",
           Function, FunctionEnd}
Texts == Seq(Tokens)

Value(n) == [i \in 1..n |-> "v"]
Block(n) == CallOpen \o <<Function>> \o Value(n) \o <<FunctionEnd>> \o CallClose

Segments == {<<"w">>, <<"blank", "w">>, <<"v">>, <<"<tool", "w">>, <<"<think">>,
             ThinkOpen \o <<"w", "w">> \o ThinkClose, Block(1), Block(2)}

\* The answers of n segments.
AnswersOf[n \in 0..MaxSegments] ==
    IF n = 0 THEN {<<>>} ELSE {a \o s : a \in AnswersOf[n - 1], s \in Segments}
Answers == UNION {AnswersOf[n] : n \in 1..MaxSegments}

StreamTextInit ==
    /\ text = <<>> /\ received = 0 /\ thinks = TRUE /\ tagHold = <<>> /\ inThink = FALSE
    /\ callHold = <<>> /\ shown = <<>> /\ thinking = <<>> /\ boxes = {} /\ answered = FALSE

\* Where p first begins in s, 0 if it does not.
Begins(s, p, i) == \A j \in 1..Len(p) : s[i + j - 1] = p[j]
Find(s, p) ==
    LET at == {i \in 1..(Len(s) + 1 - Len(p)) : Begins(s, p, i)}
    IN IF at = {} THEN 0 ELSE CHOOSE i \in at : \A j \in at : i <= j
Before(s, i) == SubSeq(s, 1, i - 1)
From(s, i) == SubSeq(s, i, Len(s))
Trim(s) ==
    LET solid == {i \in DOMAIN s : s[i] # "blank"}
    IN IF solid = {} THEN <<>>
       ELSE SubSeq(s, CHOOSE i \in solid : \A j \in solid : i <= j,
                      CHOOSE i \in solid : \A j \in solid : j <= i)

-----------------------------------------------------------------------------
(* ThinkTagStreamFilter. *)

\* Faulty variant of Held: a tag cut in two is let through.
HeldNothing(rest, tag) == FALSE

\* splitTrailingThinkOpen, splitTrailingTagClose.
Held(rest, tag) == rest # <<>> /\ rest[Len(rest)] = tag[1]

TagOf(in) == IF in THEN ThinkClose ELSE ThinkOpen

\* What is read goes to the side the text is on.
Sided(x, plain) ==
    [response |-> IF x.in THEN x.response ELSE x.response \o plain,
     thought |-> IF x.in THEN x.thought \o plain ELSE x.thought]

\* Process: a whole tag changes the side, again and again; half a tag at the end
\* is held back.
SplitStates == [rest : Texts, in : BOOLEAN, response : Texts, thought : Texts]
SplitAtTag(x) ==
    LET at == Find(x.rest, TagOf(x.in))
        sided == Sided(x, Before(x.rest, at))
    IN IF at = 0 THEN x
       ELSE [rest |-> From(x.rest, at + 2), in |-> ~x.in,
             response |-> sided.response, thought |-> sided.thought]
SplitAtTags(rest, in) ==
    Repeated([x \in SplitStates |-> SplitAtTag(x)],
             [rest |-> rest, in |-> in, response |-> <<>>, thought |-> <<>>], Len(rest))
SplitEnd(x) ==
    LET plain == IF Held(x.rest, TagOf(x.in)) THEN Before(x.rest, Len(x.rest)) ELSE x.rest
        sided == Sided(x, plain)
    IN [response |-> sided.response, thought |-> sided.thought, in |-> x.in,
        hold |-> From(x.rest, Len(plain) + 1)]
Split(rest, in) == SplitEnd(SplitAtTags(rest, in))

\* Flush: what is held back goes to the side it was met on.
FlushTags(hold, in, rest) ==
    LET s == Split(hold \o rest, in) IN Sided(s, s.hold)

\* ExtractThinkTags: block after block; an open one reaches to the end.
ExtractStates == [rest : Texts, response : Texts, thought : Texts]
ExtractBlock(x) ==
    LET open == Find(x.rest, ThinkOpen)
        inside == From(x.rest, open + 2)
        close == Find(inside, ThinkClose)
    IN IF open = 0 \/ close = 0 THEN x
       ELSE [rest |-> From(inside, close + 2), response |-> x.response \o Before(x.rest, open),
             thought |-> x.thought \o Before(inside, close)]
ExtractBlocks(s) ==
    Repeated([x \in ExtractStates |-> ExtractBlock(x)],
             [rest |-> s, response |-> <<>>, thought |-> <<>>], Len(s))
ExtractEnd(x) ==
    LET open == Find(x.rest, ThinkOpen)
    IN IF open = 0 THEN [response |-> x.response \o x.rest, thought |-> x.thought]
       ELSE [response |-> x.response \o Before(x.rest, open),
             thought |-> x.thought \o From(x.rest, open + 2)]
ExtractThinkTags(s) == ExtractEnd(ExtractBlocks(s))

-----------------------------------------------------------------------------
(* Tool calls in the text. *)

\* extractCallsFromMarkup: the first function, complete or begun.
Calls(markup) ==
    LET f == Find(markup, <<Function>>)
        body == From(markup, f + 1)
        end == Find(body, <<FunctionEnd>>)
        value == IF end = 0 THEN body ELSE Before(body, end)
    IN IF f = 0 THEN {} ELSE {Cardinality({i \in DOMAIN value : value[i] = "v"})}

\* stripTrailingPartialToolMarkup: the rest from "<tool" on, again and again.
CutPartial(s) == IF Find(s, <<"<tool">>) = 0 THEN s ELSE Before(s, Find(s, <<"<tool">>))

\* StripExtractedPayloads: a value found in the text is taken out of it, once.
PayloadStates == [text : Texts, n : Nat \ {0}]
StripPayload(x, values) ==
    LET at == Find(x.text, Value(x.n))
    IN [text |-> IF x.n \notin values \/ at = 0 THEN x.text
                 ELSE Trim(Before(x.text, at) \o From(x.text, at + x.n)),
        n |-> x.n + 1]
StripPayloads(s, values) ==
    Trim(Repeated([x \in PayloadStates |-> StripPayload(x, values)], [text |-> s, n |-> 1],
                  Len(s)).text)

\* Block after block is taken out of the text; one that is not closed reaches to
\* the end.
BlockStates == [text : Texts, calls : SUBSET Nat]
StripBlock(x) ==
    LET open == Find(x.text, CallOpen)
        rest == From(x.text, open)
        close == Find(rest, CallClose)
    IN IF open = 0 \/ close = 0 THEN x
       ELSE [text |-> Before(x.text, open) \o From(rest, close + 1),
             calls |-> x.calls \cup Calls(SubSeq(rest, 1, close))]
WithoutBlocks(s) ==
    Repeated([x \in BlockStates |-> StripBlock(x)], [text |-> s, calls |-> {}], Len(s))
StripEnd(x) ==
    LET open == Find(x.text, CallOpen)
    IN IF open = 0 THEN [text |-> CutPartial(x.text), calls |-> x.calls]
       ELSE [text |-> CutPartial(Before(x.text, open)),
             calls |-> x.calls \cup Calls(From(x.text, open))]
StripBlocks(s) == StripEnd(WithoutBlocks(s))

Unechoed(x) == [text |-> Trim(StripPayloads(x.text, x.calls)), calls |-> x.calls]
StripToolCalls(s) == Unechoed(StripBlocks(s))

\* Faulty variant of TrailingPrefix: the half of a tag is let through.
TrailingPrefixNone(s) == 0

\* trailingToolCallPrefix: from the last "<tool", as none of our words closes it.
TrailingPrefix(s) ==
    LET at == {i \in 1..Len(s) : s[i] = "<tool"}
    IN IF at = {} THEN 0 ELSE CHOOSE i \in at : \A j \in at : j <= i

\* Process: a whole block is taken out, again and again; what is begun at the end
\* is held back.
FilterStates == [rest : Texts, safe : Texts, calls : SUBSET Nat]
FilterBlock(x) ==
    LET open == Find(x.rest, CallOpen)
        block == From(x.rest, open)
        close == Find(block, CallClose)
    IN IF open = 0 \/ close = 0 THEN x
       ELSE [rest |-> From(block, close + 1), safe |-> x.safe \o Before(x.rest, open),
             calls |-> x.calls \cup Calls(SubSeq(block, 1, close))]
FilterBlocks(s) ==
    Repeated([x \in FilterStates |-> FilterBlock(x)], [rest |-> s, safe |-> <<>>, calls |-> {}],
             Len(s))
FilterEnd(x) ==
    LET open == Find(x.rest, CallOpen)
        begun == IF open = 0 THEN TrailingPrefix(x.rest) ELSE open
        plain == IF begun = 0 THEN x.rest ELSE Before(x.rest, begun)
        hold == From(x.rest, Len(plain) + 1)
    IN [safe |-> Trim(CutPartial(x.safe \o plain)), hold |-> hold,
        calls |-> x.calls \cup Calls(hold)]
Filter(s) == FilterEnd(FilterBlocks(s))

\* Flush with the whole answer: what is held back is put before it, unless the
\* answer holds an opening tag itself.
FlushCalls(hold, response) ==
    IF Trim(response) = <<>> THEN StripToolCalls(hold)
    ELSE IF Find(response, CallOpen) > 0
    THEN LET clean == StripToolCalls(response)
         IN [text |-> clean.text, calls |-> clean.calls \cup Calls(hold)]
    ELSE StripToolCalls(hold \o response)

-----------------------------------------------------------------------------
(* The renderer. *)

StartAnswer ==
    /\ text = <<>>
    /\ text' \in Answers /\ thinks' \in BOOLEAN
    /\ UNCHANGED <<received, tagHold, inThink, callHold, shown, thinking, boxes, answered>>

\* recordToolCallRequests: a call seen for the first time takes its values out
\* of the message, and the message with them if nothing is left.
Scrubbed(message, new) == IF new \subseteq boxes THEN message ELSE StripPayloads(message, boxes \cup new)

\* appendAgentResponseDelta.
ResponseDelta ==
    /\ ~answered /\ received < Len(text)
    /\ \E n \in 1..MaxChunk :
         LET delta == SubSeq(text, received + 1, received + n)
             split == IF thinks THEN Split(tagHold \o delta, inThink)
                      ELSE [response |-> delta, thought |-> <<>>, in |-> FALSE, hold |-> <<>>]
             f == IF split.response = <<>> THEN [safe |-> <<>>, hold |-> callHold, calls |-> {}]
                  ELSE Filter(callHold \o split.response)
             safe == StripToolCalls(f.safe)
         IN /\ received + n <= Len(text) /\ received' = received + n
            /\ tagHold' = split.hold /\ inThink' = split.in
            /\ thinking' = thinking \o split.thought
            /\ callHold' = f.hold
            /\ boxes' = boxes \cup f.calls \cup safe.calls
            /\ shown' = Scrubbed(shown, f.calls \cup safe.calls) \o safe.text
    /\ UNCHANGED <<text, thinks, answered>>

\* The end of the turn: the whole answer over the message that was streamed, and
\* in its place if none was; what is left of the message, if there is no answer.
Concluded(streamed, message, flushed) ==
    LET calls == boxes \cup flushed.calls
        answer == StripPayloads(flushed.text, calls)
        again == StripToolCalls(Scrubbed(message, flushed.calls))
    IN /\ shown' = IF answer = <<>> /\ streamed THEN StripPayloads(again.text, calls \cup again.calls)
                   ELSE answer
       /\ boxes' = calls \cup (IF answer = <<>> /\ streamed THEN again.calls ELSE {})

\* finishAgentTurn, with the whole answer.
FinishAnswer ==
    /\ ~answered /\ text # <<>> /\ received = Len(text)
    /\ LET streamed == shown # <<>>
           tags == FlushTags(tagHold, inThink, IF streamed THEN <<>> ELSE Trim(text))
           response == IF thinks /\ ~streamed THEN tags.response ELSE Trim(text)
           message == IF thinks /\ streamed THEN shown \o tags.response ELSE shown
       IN /\ thinking' = IF thinks THEN thinking \o tags.thought ELSE thinking
          /\ Concluded(streamed, message, FlushCalls(callHold, response))
    /\ answered' = TRUE /\ tagHold' = <<>> /\ inThink' = FALSE /\ callHold' = <<>>
    /\ UNCHANGED <<text, received, thinks>>

StreamTextNext == StartAnswer \/ ResponseDelta \/ FinishAnswer

StreamTextSpec == StreamTextInit /\ [][StreamTextNext]_textVars

-----------------------------------------------------------------------------
Markup == {"call>", "/call>", Function, FunctionEnd}
Holds(s, S) == \E i \in DOMAIN s : s[i] \in S
Blocks == {i \in DOMAIN text : text[i] = Function}
ValueAt(i) == Cardinality({j \in (i + 1)..Len(text) : /\ \A k \in (i + 1)..j : text[k] = "v"})

\* However the answer is cut into chunks: no tool markup reaches the screen;
\* while it streams, thinking shows exactly what the tags enclose; in the end
\* each call of the answer has its request box, and an answer of plain words
\* stands as it was written.
StreamClean ==
    /\ ~Holds(shown, Markup)
    /\ thinks /\ ~answered =>
         LET so_far == SubSeq(text, 1, received - Len(tagHold))
         IN /\ thinking = ExtractThinkTags(so_far).thought
            /\ Find(shown, ThinkOpen) = 0
    /\ answered => \A i \in Blocks : ValueAt(i) \in boxes
    /\ answered /\ ~Holds(text, Markup \cup {"<think", "<tool"}) => shown = Trim(text)
=============================================================================
