----------------------------- MODULE Transcript -----------------------------
(***************************************************************************)
(* What the message list shows, and the caches between the messages and    *)
(* the screen: a rendered block per message, the frozen prefix before the  *)
(* message that streams, and Markdown rendered in the background           *)
(* (internal/renderer/view.go, stream.go, message_render.go,               *)
(* markdown_bridge.go, collapsible_status.go, theme.go).  Reasoning        *)
(* messages and notices are left out, and a block is the record of what it *)
(* was rendered from.                                                      *)
(***************************************************************************)
EXTENDS Naturals, Sequences, FiniteSets

LOCAL INSTANCE FiniteSetsExt

CONSTANTS Widths,        \* widths of the terminal
          PageLines,     \* lines that fit before the list can be scrolled
          MaxMessages, MaxText, MaxFrames,  \* bounds
          MaxSwitches    \* bound on theme switches and on resizes

ASSUME TranscriptConstants == Widths \subseteq Nat \ {0} /\ Widths # {} /\ MaxText \in Nat

VARIABLES
    messages,  \* m.messages
    prefix,    \* m.layout.StreamPrefix and its key, or NoPrefix
    view,      \* width, theme, spinner frame and whether the list scrolls
    turn,      \* busy, the streaming message and the tool box of the turn
    jobs,      \* Markdown being rendered
    screen,    \* the blocks painted last
    dirty,     \* m.layout.ContentDirty
    switches

transcriptVars == <<messages, prefix, view, turn, jobs, screen, dirty, switches>>

NoCache == [width |-> 0]
NoPrefix == [upto |-> 0]
Message(kind, size) == [kind |-> kind, text |-> <<size, "draft">>, open |-> FALSE,
                        running |-> kind = "detail", pending |-> FALSE, cache |-> NoCache]
Cleared(ms, indexes) ==
    [i \in DOMAIN ms |-> IF i \in indexes THEN [ms[i] EXCEPT !.cache = NoCache] ELSE ms[i]]
Size(m) == m.text[1]

TranscriptInit ==
    /\ messages = <<>> /\ prefix = NoPrefix /\ screen = <<>> /\ dirty = FALSE
    /\ view = [width |-> CHOOSE w \in Widths : TRUE, theme |-> 0, frame |-> 0, tall |-> FALSE]
    /\ turn = [busy |-> FALSE, stream |-> 0, tool |-> 0]
    /\ jobs = {} /\ switches = 0

----------------------------------------------------------------------------
(* Rendering. *)

\* messageAreaWidth: one column less when the list scrolls.
AreaWidth(v) == IF v.tall THEN v.width - 1 ELSE v.width

Mode(m, streaming) ==
    CASE m.kind # "ai" -> "full"
      [] m.kind = "ai" /\ streaming -> "stream"
      [] m.kind = "ai" /\ ~streaming /\ m.pending -> "preview"
      [] OTHER -> "full"

BlockOf(m, v, streaming) ==
    [text |-> m.text, open |-> m.open, running |-> m.running, width |-> AreaWidth(v),
     theme |-> v.theme, mode |-> Mode(m, streaming), frame |-> v.frame, late |-> FALSE]

Cache(m, v, streaming, block) ==
    [width |-> AreaWidth(v), streaming |-> streaming, size |-> Size(m), open |-> m.open,
     running |-> m.running, frame |-> v.frame, block |-> block]

\* Faulty variant of Hit: the width is no part of the key.
HitAnyWidth(m, v, streaming) ==
    /\ m.cache # NoCache
    /\ m.cache = [Cache(m, v, streaming, m.cache.block) EXCEPT !.width = m.cache.width]

\* messageRenderCache.hit: everything but theme, text and pending Markdown.
Hit(m, v, streaming) ==
    m.cache # NoCache /\ m.cache = Cache(m, v, streaming, m.cache.block)

\* renderMessageAt.
Rendered(m, v, streaming) ==
    IF Hit(m, v, streaming) THEN m.cache.block ELSE BlockOf(m, v, streaming)

\* The bytes of the messages before message s, as the key of the prefix has them.
SizesBefore(ms, s) == MapThenSumSet(LAMBDA i : Size(ms[i]), 1 .. s - 1)

\* refreshStreamPrefixCache: kept while its key is the same.
Prefix(ms, old, v, s) ==
    LET key == [upto |-> s, width |-> AreaWidth(v),
                size |-> SizesBefore(ms, s),
                boxes |-> [i \in 1 .. s - 1 |-> <<ms[i].running, ms[i].open>>]]
    IN IF s = 0 THEN NoPrefix
       ELSE IF old # NoPrefix /\ old.key = key THEN old
       ELSE [upto |-> s, key |-> key,
             blocks |-> [i \in 1 .. s - 1 |-> Rendered(ms[i], v, FALSE)]]

\* More lines than the page has.
Overflows(ms) ==
    LET lines(i) == IF ms[i].kind = "ai" \/ ms[i].open THEN Size(ms[i]) ELSE 1
    IN  ms # <<>> /\ MapThenSumSet(lines, DOMAIN ms) > PageLines

\* syncLayout of messages ms under view v: the blocks, and the caches and the
\* scroll state they leave behind.
Painted(ms, old, v, s) ==
    LET pre == Prefix(ms, old, v, s)
        kept == IF s # 0 /\ pre = old THEN 1 .. s - 1 ELSE {}
        blocks == [i \in DOMAIN ms |->
            IF i < s THEN pre.blocks[i] ELSE Rendered(ms[i], v, i = s)]
    IN [messages |-> [i \in DOMAIN ms |-> IF i \in kept THEN ms[i]
                        ELSE [ms[i] EXCEPT !.cache = Cache(ms[i], v, i = s, blocks[i])]],
        prefix |-> pre, screen |-> blocks, tall |-> Overflows(ms)]

Show(ms, old, v, t) ==
    LET p == Painted(ms, old, v, t.stream) IN
    /\ messages' = p.messages /\ prefix' = p.prefix /\ screen' = p.screen
    /\ view' = [v EXCEPT !.tall = p.tall] /\ turn' = t /\ dirty' = FALSE

\* markStreamDirty: painted later.
Later(ms, t) ==
    /\ messages' = ms /\ turn' = t /\ dirty' = TRUE
    /\ UNCHANGED <<prefix, view, jobs, screen, switches>>

----------------------------------------------------------------------------
(* A turn. *)

Room == Len(messages) < MaxMessages
Working == turn.busy

SubmitPrompt ==  \* addUserMessage and beginAgentTurn
    /\ ~Working /\ Room
    /\ Show(Append(messages, Message("user", MaxText)), prefix, [view EXCEPT !.frame = 0],
            [busy |-> TRUE, stream |-> 0, tool |-> 0])
    /\ UNCHANGED <<jobs, switches>>

AnswerDelta ==  \* appendAgentResponseDelta
    /\ Working /\ turn.tool = 0
    /\ IF turn.stream = 0
       THEN /\ Room
            /\ Later(Append(messages, Message("ai", 1)),
                     [turn EXCEPT !.stream = Len(messages) + 1])
       ELSE LET s == turn.stream IN
            /\ Size(messages[s]) < MaxText
            /\ Later(Cleared([messages EXCEPT ![s].text[1] = @ + 1], {s}), turn)

ToolStart ==  \* beginNativeToolCall
    /\ Working /\ turn.tool = 0 /\ Room
    /\ Later(Append(messages, Message("detail", 1)), [turn EXCEPT !.tool = Len(messages) + 1])

ToolOutput ==  \* appendNativeToolOutput
    /\ Working /\ turn.tool # 0 /\ Size(messages[turn.tool]) < MaxText
    /\ Later(Cleared([messages EXCEPT ![turn.tool].text[1] = @ + 1], {turn.tool}), turn)

\* finishNativeToolCall and flushContentNow: the streamed text is replaced.
ToolDone ==
    /\ Working /\ turn.tool # 0
    /\ \E open \in BOOLEAN :
        Show(Cleared([messages EXCEPT ![turn.tool] =
                 [@ EXCEPT !.text[2] = "final", !.running = FALSE, !.open = open]], {turn.tool}),
             prefix, view, [turn EXCEPT !.tool = 0])
    /\ UNCHANGED <<jobs, switches>>

FlushTick ==  \* handleStreamFlush
    /\ dirty /\ Show(messages, prefix, view, turn) /\ UNCHANGED <<jobs, switches>>

\* handleActivityTick: only a list with a live box is repainted, and the box of
\* a tool that a cancelled turn left behind counts.
SpinnerTick ==
    /\ Working /\ view.frame < MaxFrames
    /\ LET live == {i \in DOMAIN messages : messages[i].running}
           v == [view EXCEPT !.frame = @ + 1] IN
       IF live # {} THEN Show(Cleared(messages, live), NoPrefix, v, turn)
       ELSE view' = v /\ UNCHANGED <<messages, prefix, turn, screen, dirty>>
    /\ UNCHANGED <<jobs, switches>>

\* finishAgentTurn: the final text is painted in full, and once more as a
\* preview while its Markdown is rendered in the background.
FinishTurn ==
    /\ Working /\ turn.tool = 0
    /\ LET s == turn.stream
           v == [view EXCEPT !.frame = 0]
           idle == [busy |-> FALSE, stream |-> 0, tool |-> 0]
           ms == IF s = 0 THEN messages
                 ELSE Cleared([messages EXCEPT ![s].text[2] = "final"], {s})
           p == Painted(ms, NoPrefix, v, 0) IN
        \/ Show(ms, NoPrefix, v, idle) /\ UNCHANGED jobs
        \/ /\ s # 0
           /\ messages' = [p.messages EXCEPT ![s].pending = TRUE]
           /\ jobs' = jobs \cup {[index |-> s, text |-> ms[s].text, theme |-> v.theme,
                                  width |-> AreaWidth([v EXCEPT !.tall = p.tall])]}
           /\ prefix' = p.prefix /\ screen' = p.screen /\ turn' = idle
           /\ view' = [v EXCEPT !.tall = p.tall] /\ dirty' = TRUE
    /\ UNCHANGED switches

\* cancelAgentTurn: the box of a running tool keeps its status.
CancelTurn ==
    /\ Working
    /\ Show(messages, NoPrefix, [view EXCEPT !.frame = 0],
            [busy |-> FALSE, stream |-> 0, tool |-> 0])
    /\ UNCHANGED <<jobs, switches>>

\* handleMarkdownRenderMsg: the cache is filled as for an idle list; the prefix
\* is left alone.
MarkdownArrives(job) ==
    /\ job \in jobs /\ jobs' = jobs \ {job}
    /\ LET m == messages[job.index]
           block == [BlockOf(m, view, FALSE) EXCEPT
                        !.width = job.width, !.theme = job.theme, !.mode = "full",
                        !.frame = 0, !.late = job.theme # view.theme]
           cache == [width |-> job.width, streaming |-> FALSE, size |-> job.text[1],
                     open |-> FALSE, running |-> FALSE, frame |-> 0, block |-> block]
       IN IF m.text = job.text
          THEN Show([messages EXCEPT ![job.index] =
                        [@ EXCEPT !.pending = FALSE, !.cache = cache]], prefix, view, turn)
          ELSE UNCHANGED <<messages, prefix, view, turn, screen, dirty>>
    /\ UNCHANGED switches

----------------------------------------------------------------------------
(* The user. *)

Toggle(i) ==  \* toggleDetailExpandAt
    /\ i \in DOMAIN messages /\ messages[i].kind # "ai"
    /\ Show(Cleared([messages EXCEPT ![i].open = ~@], {i}), NoPrefix, view, turn)
    /\ UNCHANGED <<jobs, switches>>

SwitchTheme ==  \* applyResolvedTheme
    /\ switches < MaxSwitches /\ switches' = switches + 1
    /\ Show(Cleared(messages, DOMAIN messages), NoPrefix,
            [view EXCEPT !.theme = 1 - @], turn)
    /\ UNCHANGED jobs

Resize(w) ==
    /\ switches < MaxSwitches /\ switches' = switches + 1
    /\ Show(messages, prefix, [view EXCEPT !.width = w], turn)
    /\ UNCHANGED jobs

TranscriptNext ==
    \/ SubmitPrompt \/ AnswerDelta \/ ToolStart \/ ToolOutput \/ ToolDone
    \/ FlushTick \/ SpinnerTick \/ FinishTurn \/ CancelTurn
    \/ \E job \in jobs : MarkdownArrives(job)
    \/ \E i \in 1 .. MaxMessages : Toggle(i)
    \/ SwitchTheme \/ \E w \in Widths : Resize(w)

TranscriptSpec == TranscriptInit /\ [][TranscriptNext]_transcriptVars

----------------------------------------------------------------------------
\* When nothing is marked for repainting, every block on the screen is what its
\* message is now, at one width and in the theme chosen last, and the box of a
\* running tool shows the spinner of now.  Two cases escape the caches' keys
\* and are let pass: Markdown rendered in the theme before a switch, and Markdown
\* that arrives while a later message streams, whose frozen prefix still holds
\* the preview.
PaintedFresh ==
    ~dirty =>
        /\ Len(screen) = Len(messages)
        /\ \A i \in DOMAIN messages :
            LET m == messages[i]
                b == screen[i]
            IN /\ b.text = m.text /\ b.open = m.open /\ b.running = m.running
               /\ b.width = screen[1].width /\ b.width \in {view.width, view.width - 1}
               /\ b.theme = view.theme \/ b.late
               /\ (b.mode = "stream") = (i = turn.stream)
               /\ b.mode = "preview" => m.pending \/ i < turn.stream
               /\ m.running /\ Working => b.frame = view.frame
=============================================================================
