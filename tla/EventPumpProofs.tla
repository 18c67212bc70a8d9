-------------------------- MODULE EventPumpProofs --------------------------
(***************************************************************************)
(* The event pump keeps listening to the turn it shows, can always cancel  *)
(* it, always has a repaint under way for changed content, and neither     *)
(* loses nor repeats an event: for every number of turns and events and    *)
(* every buffer size.  And the text that its events carry comes through    *)
(* the filters of StreamText clean: for answers and chunks of any length.  *)
(***************************************************************************)
EXTENDS EventPumpProps, StreamText, ListFacts, FiniteSetTheorems,
        SequenceTheorems, TLAPS

\* The types the argument needs.
Types ==
    /\ life \in [Turns -> {"none", "running", "closed"}]
    /\ cancelled \subseteq Turns
    /\ sent \in [Turns -> 0..MaxEvents]
    /\ chan \in [Turns -> Seq(Event)]
    /\ readers \in [Turns -> Nat]
    /\ messages \subseteq Event
    /\ closedMsgs \in Nat /\ flushMsgs \in Nat
    /\ events \in Turns \cup {0} /\ cancelFunc \in Turns \cup {0}
    /\ busy \in BOOLEAN /\ flushPending \in BOOLEAN /\ dirty \in BOOLEAN
    /\ draining \in BOOLEAN
    /\ cmds \in Nat

\* Busy, Events and Cancel always change together, and only a turn that has
\* started is ever cancelled.
Attached ==
    /\ IF busy THEN /\ events \in Turns /\ cancelFunc = events
                    /\ life[events] # "none" /\ events \notin cancelled
               ELSE events = 0 /\ cancelFunc = 0
    /\ \A t \in cancelled : life[t] # "none"

\* The drain loop runs for an attached turn and will return a reader.
Listening ==
    /\ \A t \in Turns : \A i \in 1..Len(chan[t]) : chan[t][i].turn = t
    /\ draining => events # 0 /\ cmds > 0
    /\ NeverDeaf

Painting == (dirty => flushPending) /\ (flushPending => flushMsgs > 0)

IInv == Types /\ Attached /\ Listening /\ Painting

----------------------------------------------------------------------------

(***************************************************************************)
(* What Head and Tail of a buffered channel are (<-ch, agent_bridge.go:16).*)
(***************************************************************************)
LEMMA ChannelRead ==
  ASSUME NEW t \in Turns, chan \in [Turns -> Seq(Event)], chan[t] # <<>>
  PROVE  /\ Head(chan[t]) \in Event
         /\ Head(chan[t]) = chan[t][1]
         /\ Len(chan[t]) \in Nat \ {0}
         /\ Tail(chan[t]) \in Seq(Event)
         /\ Len(Tail(chan[t])) = Len(chan[t]) - 1
         /\ \A i \in 1..Len(Tail(chan[t])) : Tail(chan[t])[i] = chan[t][i + 1]
<1>1. chan[t] \in Seq(Event)
  OBVIOUS
<1> QED BY <1>1

(***************************************************************************)
(* Reading keeps every channel homogeneous (agent_bridge.go:14-65).        *)
(***************************************************************************)
LEMMA ReadKeepsChannels ==
  ASSUME Types, Listening, NEW t \in Turns, chan[t] # <<>>,
         chan' = [chan EXCEPT ![t] = Tail(@)]
  PROVE  /\ chan' \in [Turns -> Seq(Event)]
         /\ \A u \in Turns : \A i \in 1..Len(chan'[u]) : chan'[u][i].turn = u
         /\ Head(chan[t]) \in Event
         /\ Head(chan[t]).turn = t
<1>1. chan \in [Turns -> Seq(Event)]
  BY DEF Types
<1>2. /\ Head(chan[t]) \in Event
      /\ Head(chan[t]) = chan[t][1]
      /\ Len(chan[t]) \in Nat \ {0}
      /\ Tail(chan[t]) \in Seq(Event)
      /\ Len(Tail(chan[t])) = Len(chan[t]) - 1
      /\ \A i \in 1..Len(Tail(chan[t])) : Tail(chan[t])[i] = chan[t][i + 1]
  BY <1>1, ChannelRead
<1>3. chan' \in [Turns -> Seq(Event)]
  BY <1>1, <1>2
<1>4. Head(chan[t]).turn = t
  BY <1>2 DEF Listening
<1>5. ASSUME NEW u \in Turns, NEW i \in 1..Len(chan'[u])
      PROVE  chan'[u][i].turn = u
  <2>1. CASE u = t
    <3>1. chan'[u] = Tail(chan[t])
      BY <1>1, <2>1
    <3>2. i \in 1..Len(Tail(chan[t]))
      BY <3>1
    <3>3. chan'[u][i] = chan[t][i + 1]
      BY <1>2, <3>1, <3>2
    <3>4. i + 1 \in 1..Len(chan[t])
      BY <1>2, <3>2
    <3> QED BY <2>1, <3>3, <3>4 DEF Listening
  <2>2. CASE u # t
    BY <1>1, <2>2 DEF Listening
  <2> QED BY <2>1, <2>2
<1> QED BY <1>2, <1>3, <1>4, <1>5

----------------------------------------------------------------------------

\* No event exists before the first turn.
LEMMA InitIInv == Init => IInv
<1> SUFFICES ASSUME Init PROVE IInv
  OBVIOUS
<1>1. Types
  <2>1. <<>> \in Seq(Event)
    OBVIOUS
  <2>2. chan \in [Turns -> Seq(Event)]
    BY <2>1 DEF Init
  <2>3. sent \in [Turns -> 0..MaxEvents]
    BY PumpConstants DEF Init
  <2> QED BY <2>2, <2>3 DEF Init, Types
<1>2. Attached
  BY DEF Init, Attached
<1>3. Listening
  BY DEF Init, Listening, NeverDeaf
<1>4. Painting
  BY DEF Init, Painting
<1> QED BY <1>1, <1>2, <1>3, <1>4 DEF IInv

(***************************************************************************)
(* The turn goroutine: sending and closing do not touch the UI             *)
(* (turn.go:32-33, 144-151).                                               *)
(***************************************************************************)
LEMMA ProduceStep ==
  ASSUME IInv, NEW t \in Turns, Produce(t)
  PROVE  IInv'
<1>1. CASE Close(t)
  <2>1. Types'
    BY <1>1 DEF IInv, Types, Close, paintVars, agentVars, drainVars
  <2>2. Attached'
    BY <1>1 DEF IInv, Types, Attached, Close, agentVars
  <2>3. Listening' /\ Painting'
    BY <1>1 DEF IInv, Listening, NeverDeaf, Painting, Close, paintVars, agentVars, drainVars
  <2> QED BY <2>1, <2>2, <2>3 DEF IInv
<1>2. ASSUME NEW k \in Kinds, Send(t, k)
      PROVE  IInv'
  <2> DEFINE e == [turn |-> t, n |-> sent'[t], kind |-> k]
  <2>1. chan' = [chan EXCEPT ![t] = Append(@, e)]
    BY <1>2 DEF Send
  <2>2. sent'[t] \in 1..MaxEvents /\ sent' \in [Turns -> 0..MaxEvents]
    BY <1>2, PumpConstants DEF Send, IInv, Types
  <2>3. e \in Event /\ e.turn = t
    BY <2>2, PumpConstants DEF Event
  <2> HIDE DEF e
  <2>4. chan \in [Turns -> Seq(Event)]
    BY DEF IInv, Types
  <2>5. chan' \in [Turns -> Seq(Event)]
    BY <2>1, <2>3, <2>4
  <2>6. ASSUME NEW u \in Turns, NEW i \in 1..Len(chan'[u])
        PROVE  chan'[u][i].turn = u
    <3>1. CASE u = t
      <4>1. chan'[u] = Append(chan[t], e) /\ chan[t] \in Seq(Event)
        BY <2>1, <2>4, <3>1
      <4>2. \/ i \in 1..Len(chan[t]) /\ chan'[u][i] = chan[t][i]
            \/ chan'[u][i] = e
        BY <4>1
      <4> QED BY <2>3, <3>1, <4>2 DEF IInv, Listening
    <3>2. CASE u # t
      <4>1. chan'[u] = chan[u]
        BY <2>1, <2>4, <3>2
      <4> QED BY <4>1 DEF IInv, Listening
    <3> QED BY <3>1, <3>2
  <2>7. Types'
    BY <1>2, <2>2, <2>5 DEF IInv, Types, Send, paintVars, agentVars, drainVars
  <2>8. Attached'
    BY <1>2 DEF IInv, Attached, Send, agentVars
  <2>9. Listening' /\ Painting'
    BY <1>2, <2>6 DEF IInv, Listening, NeverDeaf, Painting, Send, paintVars, agentVars, drainVars
  <2> QED BY <2>7, <2>8, <2>9 DEF IInv
<1> QED BY <1>1, <1>2 DEF Produce

(***************************************************************************)
(* A reader posts the event it took, or that the channel is closed         *)
(* (agent_bridge.go:14-22).                                                *)
(***************************************************************************)
LEMMA ReadStep ==
  ASSUME IInv, NEW t \in Turns, Read(t)
  PROVE  IInv'
<1>1. CASE WaitReceive(t)
  <2>1. chan[t] # <<>> /\ chan' = [chan EXCEPT ![t] = Tail(@)]
    BY <1>1 DEF WaitReceive
  <2>2. /\ chan' \in [Turns -> Seq(Event)]
        /\ \A u \in Turns : \A i \in 1..Len(chan'[u]) : chan'[u][i].turn = u
        /\ Head(chan[t]) \in Event
        /\ Head(chan[t]).turn = t
    BY <2>1, ReadKeepsChannels DEF IInv
  <2>3. Types'
    BY <1>1, <2>2 DEF IInv, Types, WaitReceive, turnVars, paintVars, agentVars, drainVars
  <2>4. Attached' /\ Painting'
    BY <1>1 DEF IInv, Attached, Painting, WaitReceive, turnVars, paintVars, agentVars
  <2>5. NeverDeaf'
    BY <1>1, <2>2 DEF IInv, Types, Listening, NeverDeaf, WaitReceive, agentVars, drainVars
  <2>6. Listening'
    BY <1>1, <2>2, <2>5 DEF IInv, Listening, WaitReceive, agentVars, drainVars
  <2> QED BY <2>3, <2>4, <2>6 DEF IInv
<1>2. CASE WaitClosed(t)
  <2>1. Types'
    BY <1>2 DEF IInv, Types, WaitClosed, turnVars, paintVars, agentVars, drainVars
  <2>2. Attached' /\ Painting'
    BY <1>2 DEF IInv, Attached, Painting, WaitClosed, turnVars, paintVars, agentVars
  <2>3. closedMsgs' > 0
    BY <1>2 DEF IInv, Types, WaitClosed
  <2>4. Listening'
    BY <1>2, <2>3 DEF IInv, Listening, NeverDeaf, WaitClosed, agentVars, drainVars
  <2> QED BY <2>1, <2>2, <2>4 DEF IInv
<1> QED BY <1>1, <1>2 DEF Read

(***************************************************************************)
(* Applying an event schedules a reader, unless it leaves the UI detached  *)
(* (agent_bridge.go:78-139).                                               *)
(***************************************************************************)
LEMMA ApplyStep ==
  ASSUME IInv, NEW e, Apply(e), UNCHANGED turnVars
  PROVE  /\ flushMsgs' \in Nat /\ cmds' \in Nat
         /\ events' \in Turns \cup {0} /\ cancelFunc' \in Turns \cup {0}
         /\ busy' \in BOOLEAN /\ flushPending' \in BOOLEAN /\ dirty' \in BOOLEAN
         /\ Attached' /\ Painting'
         /\ events' # 0 => cmds' > 0
         /\ events' = events \/ events' = 0
<1>1. CASE FinishAgentTurn
  <2>1. /\ flushMsgs' \in Nat /\ cmds' \in Nat
        /\ events' \in Turns \cup {0} /\ cancelFunc' \in Turns \cup {0}
        /\ busy' \in BOOLEAN /\ flushPending' \in BOOLEAN /\ dirty' \in BOOLEAN
    BY <1>1 DEF FinishAgentTurn, IInv, Types
  <2>2. Attached'
    BY <1>1 DEF FinishAgentTurn, IInv, Attached, turnVars
  <2>3. Painting' /\ events' = 0
    BY <1>1 DEF FinishAgentTurn, Painting
  <2> QED BY <2>1, <2>2, <2>3
<1>2. CASE ApplyStream(e.kind)
  <2>1. UNCHANGED agentVars
    BY <1>2 DEF ApplyStream
  <2>2. Attached'
    BY <2>1 DEF IInv, Attached, turnVars, agentVars
  <2>3. /\ events' = events
        /\ events' \in Turns \cup {0} /\ cancelFunc' \in Turns \cup {0}
        /\ busy' \in BOOLEAN
    BY <2>1 DEF agentVars, IInv, Types
  <2>4. cmds' \in Nat /\ (events' # 0 => cmds' > 0)
    BY <1>2, <2>3 DEF ApplyStream, Rearm, IInv, Types
  <2>5. \/ MarkStreamDirty
        \/ dirty' = FALSE /\ UNCHANGED <<flushPending, flushMsgs>>
        \/ UNCHANGED paintVars
    BY <1>2 DEF ApplyStream
  <2>6. /\ flushMsgs' \in Nat /\ flushPending' \in BOOLEAN /\ dirty' \in BOOLEAN
        /\ Painting'
    <3>1. CASE MarkStreamDirty
      BY <3>1 DEF MarkStreamDirty, Painting, IInv, Types
    <3>2. CASE dirty' = FALSE /\ UNCHANGED <<flushPending, flushMsgs>>
      BY <3>2 DEF Painting, IInv, Types
    <3>3. CASE UNCHANGED paintVars
      BY <3>3 DEF Painting, IInv, Types, paintVars
    <3> QED BY <2>5, <3>1, <3>2, <3>3
  <2> QED BY <2>2, <2>3, <2>4, <2>6
<1> QED BY <1>1, <1>2 DEF Apply

(***************************************************************************)
(* A delivered event puts the UI into the drain loop, or leaves it         *)
(* detached (agent_bridge.go:24-28).                                       *)
(***************************************************************************)
LEMMA HandleEventStep ==
  ASSUME IInv, NEW e \in messages, HandleAgentEvent(e)
  PROVE  IInv'
<1>1. /\ flushMsgs' \in Nat /\ cmds' \in Nat
      /\ events' \in Turns \cup {0} /\ cancelFunc' \in Turns \cup {0}
      /\ busy' \in BOOLEAN /\ flushPending' \in BOOLEAN /\ dirty' \in BOOLEAN
      /\ Attached' /\ Painting'
      /\ events' # 0 => cmds' > 0
  <2>1. Apply(e) /\ UNCHANGED turnVars
    BY DEF HandleAgentEvent
  <2> QED BY <2>1, ApplyStep
<1>2. /\ messages' \subseteq messages /\ draining' = (events' # 0)
      /\ UNCHANGED <<life, cancelled, sent, chan, readers, closedMsgs>>
  BY DEF HandleAgentEvent, turnVars
<1>3. draining' \in BOOLEAN
  BY <1>2
<1>4. Types'
  BY <1>1, <1>2, <1>3 DEF IInv, Types
<1>5. Listening'
  BY <1>1, <1>2 DEF IInv, Listening, NeverDeaf
<1> QED BY <1>1, <1>4, <1>5 DEF IInv

(***************************************************************************)
(* Returning from the drain loop starts a reader on the attached turn      *)
(* (agent_bridge.go:36-64).                                                *)
(***************************************************************************)
LEMMA ReturnStep ==
  ASSUME IInv, draining, NEW extra \in Nat, Return(extra),
         messages' \subseteq Event, closedMsgs' \in Nat,
         chan' \in [Turns -> Seq(Event)],
         \A u \in Turns : \A i \in 1..Len(chan'[u]) : chan'[u][i].turn = u
  PROVE  IInv'
<1>1. events \in Turns /\ cmds \in Nat /\ cmds > 0
  BY DEF IInv, Types, Listening
<1>2. readers' \in [Turns -> Nat] /\ readers'[events] > 0
  BY <1>1 DEF Return, IInv, Types
<1>3. Types'
  BY <1>2 DEF Return, IInv, Types, turnVars, paintVars, agentVars
<1>4. Attached' /\ Painting'
  BY DEF Return, IInv, Attached, Painting, turnVars, paintVars, agentVars
<1>5. Listening'
  BY <1>2 DEF Return, Listening, NeverDeaf, agentVars
<1> QED BY <1>3, <1>4, <1>5 DEF IInv

(***************************************************************************)
(* The drain loop (agent_bridge.go:34-64).                                 *)
(***************************************************************************)
LEMMA DrainStep ==
  ASSUME IInv, Drain
  PROVE  IInv'
<1>0. /\ chan \in [Turns -> Seq(Event)]
      /\ \A u \in Turns : \A i \in 1..Len(chan[u]) : chan[u][i].turn = u
      /\ messages \subseteq Event /\ closedMsgs \in Nat
  BY DEF IInv, Types, Listening
<1>1. draining /\ events \in Turns
  BY DEF Drain, DrainDelta, DrainOther, DrainClosed, DrainEmpty, DrainYield,
         Draining, IInv, Types, Listening
<1>2. CASE DrainDelta
  <2>1. chan[events] # <<>> /\ chan' = [chan EXCEPT ![events] = Tail(@)]
    BY <1>2 DEF DrainDelta
  <2>2. /\ chan' \in [Turns -> Seq(Event)]
        /\ \A u \in Turns : \A i \in 1..Len(chan'[u]) : chan'[u][i].turn = u
    BY <1>1, <2>1, ReadKeepsChannels DEF IInv
  <2>3. Apply(Head(chan[events])) /\ UNCHANGED turnVars
    BY <1>2 DEF DrainDelta
  <2>4. /\ flushMsgs' \in Nat /\ cmds' \in Nat
        /\ events' \in Turns \cup {0} /\ cancelFunc' \in Turns \cup {0}
        /\ busy' \in BOOLEAN /\ flushPending' \in BOOLEAN /\ dirty' \in BOOLEAN
        /\ Attached' /\ Painting'
        /\ events' # 0 => cmds' > 0
    BY <2>3, ApplyStep
  <2>5. events' = events
    <3>1. Head(chan[events]).kind # "done"
      BY <1>2 DEF DrainDelta
    <3>2. ApplyStream(Head(chan[events]).kind)
      BY <2>3, <3>1 DEF Apply
    <3> QED BY <3>2 DEF ApplyStream, agentVars
  <2>6. UNCHANGED <<life, cancelled, sent, readers, messages, closedMsgs, draining>>
    BY <1>2 DEF DrainDelta, turnVars
  <2>7. Types'
    BY <2>2, <2>4, <2>6 DEF IInv, Types
  <2>8. Listening'
    BY <1>1, <2>2, <2>4, <2>5, <2>6 DEF IInv, Types, Listening, NeverDeaf
  <2> QED BY <2>4, <2>7, <2>8 DEF IInv
<1>3. CASE DrainOther
  <2>1. chan[events] # <<>> /\ chan' = [chan EXCEPT ![events] = Tail(@)]
    BY <1>3 DEF DrainOther
  <2>2. /\ chan' \in [Turns -> Seq(Event)]
        /\ \A u \in Turns : \A i \in 1..Len(chan'[u]) : chan'[u][i].turn = u
        /\ Head(chan[events]) \in Event
    BY <1>1, <2>1, ReadKeepsChannels DEF IInv
  <2>3. messages' \subseteq Event /\ closedMsgs' \in Nat /\ Return(0)
    BY <1>0, <1>3, <2>2 DEF DrainOther
  <2> QED BY <1>1, <2>2, <2>3, ReturnStep
<1>4. CASE DrainClosed
  <2>1. closedMsgs' \in Nat /\ UNCHANGED <<chan, messages>> /\ Return(0)
    BY <1>0, <1>4 DEF DrainClosed
  <2> QED BY <1>0, <1>1, <2>1, ReturnStep
<1>5. CASE DrainEmpty
  <2>1. UNCHANGED <<chan, messages, closedMsgs>> /\ Return(0)
    BY <1>5 DEF DrainEmpty
  <2> QED BY <1>0, <1>1, <2>1, ReturnStep
<1>6. CASE DrainYield
  <2>1. UNCHANGED <<chan, messages, closedMsgs>> /\ Return(1)
    BY <1>6 DEF DrainYield
  <2> QED BY <1>0, <1>1, <2>1, ReturnStep
<1> QED BY <1>2, <1>3, <1>4, <1>5, <1>6 DEF Drain

(***************************************************************************)
(* The other messages: closed, flush tick, question                        *)
(* (update.go:47-67, stream.go:162-182, markup_askuser.go:41-59).          *)
(***************************************************************************)
LEMMA OtherMessageStep ==
  ASSUME IInv, HandleAgentTurnClosed \/ HandleStreamFlush \/ HandleMarkupAskUser
  PROVE  IInv'
<1>1. CASE HandleAgentTurnClosed
  <2>0. cancelFunc' \in Turns \cup {0} /\ closedMsgs' \in Nat
    BY <1>1 DEF HandleAgentTurnClosed, IInv, Types
  <2>1. Types'
    <3>1. /\ events' = 0 /\ busy' = FALSE /\ dirty' = FALSE
          /\ UNCHANGED <<life, cancelled, sent, chan, readers, messages, flushMsgs,
                         flushPending, draining, cmds>>
      BY <1>1 DEF HandleAgentTurnClosed, turnVars, drainVars
    <3> QED BY <2>0, <3>1 DEF IInv, Types
  <2>2. Attached'
    BY <1>1 DEF HandleAgentTurnClosed, IInv, Attached, turnVars
  <2>3. Listening' /\ Painting'
    BY <1>1 DEF HandleAgentTurnClosed, IInv, Listening, Painting, NeverDeaf, drainVars
  <2> QED BY <2>1, <2>2, <2>3 DEF IInv
<1>2. CASE HandleStreamFlush
  <2>1. readers' \in [Turns -> Nat] /\ \A t \in Turns : readers'[t] >= readers[t]
    BY <1>2 DEF HandleStreamFlush, IInv, Types
  <2>2. Types'
    <3>1. flushMsgs' \in Nat
      BY <1>2 DEF HandleStreamFlush, IInv, Types
    <3>2. /\ flushPending' = FALSE /\ dirty' = FALSE
          /\ UNCHANGED <<life, cancelled, sent, chan, messages, closedMsgs, events,
                         cancelFunc, busy, draining, cmds>>
      BY <1>2 DEF HandleStreamFlush, turnVars, agentVars, drainVars
    <3> QED BY <2>1, <3>1, <3>2 DEF IInv, Types
  <2>3. Attached' /\ Painting'
    BY <1>2 DEF HandleStreamFlush, IInv, Attached, Painting, turnVars, agentVars
  <2>4. Listening'
    BY <1>2, <2>1 DEF HandleStreamFlush, IInv, Types, Listening, NeverDeaf, agentVars, drainVars
  <2> QED BY <2>2, <2>3, <2>4 DEF IInv
<1>3. CASE HandleMarkupAskUser
  <2>1. Types'
    BY <1>3 DEF HandleMarkupAskUser, IInv, Types, turnVars, paintVars, agentVars, drainVars
  <2>2. Attached' /\ Painting'
    BY <1>3 DEF HandleMarkupAskUser, IInv, Attached, Painting, turnVars, paintVars, agentVars
  <2>3. Listening'
    BY <1>3 DEF HandleMarkupAskUser, IInv, Listening, NeverDeaf, agentVars, drainVars
  <2> QED BY <2>1, <2>2, <2>3 DEF IInv
<1> QED BY <1>1, <1>2, <1>3

(***************************************************************************)
(* A new turn is attached with one reader (agent.go:30-38, 115-134).       *)
(***************************************************************************)
LEMMA StartTurnStep ==
  ASSUME IInv, NEW t \in Turns, StartTurn(t), ~draining,
         cancelled' \subseteq cancelled \cup ({cancelFunc} \ {0}),
         dirty' = FALSE,
         UNCHANGED <<sent, chan, messages, closedMsgs, flushMsgs, flushPending,
                     drainVars>>
  PROVE  IInv'
<1>1. t # 0
  BY DEF Turns
<1>2. t \notin cancelled /\ life[t] = "none" /\ t # cancelFunc
  BY <1>1 DEF StartTurn, IInv, Attached
<1>3. cancelled' \subseteq Turns /\ t \notin cancelled'
  BY <1>2 DEF IInv, Types
<1>4. life' \in [Turns -> {"none", "running", "closed"}] /\ life'[t] = "running"
  BY DEF StartTurn, IInv, Types
<1>5. \A u \in cancelled' : life'[u] # "none"
  <2> SUFFICES ASSUME NEW u \in cancelled' PROVE life'[u] # "none"
    OBVIOUS
  <2>1. u \in Turns /\ u # t
    BY <1>3
  <2>2. life'[u] = life[u]
    BY <2>1 DEF StartTurn, IInv, Types
  <2>3. u \in cancelled \/ (u = cancelFunc /\ u # 0)
    OBVIOUS
  <2> QED BY <2>2, <2>3 DEF IInv, Attached
<1>6. readers' \in [Turns -> Nat] /\ readers'[t] > 0
  BY DEF StartTurn, IInv, Types
<1>7. Types'
  BY <1>3, <1>4, <1>6 DEF StartTurn, IInv, Types, drainVars
<1>8. Attached'
  BY <1>3, <1>4, <1>5 DEF StartTurn, Attached
<1>9. Listening' /\ Painting'
  BY <1>6 DEF StartTurn, IInv, Listening, NeverDeaf, Painting, drainVars
<1> QED BY <1>7, <1>8, <1>9 DEF IInv

(***************************************************************************)
(* The user: submit, Esc, answer or dismiss a markup question              *)
(* (update.go:123-125, agent.go:136-175, markup_askuser.go:72-131).        *)
(***************************************************************************)
LEMMA UserStep ==
  ASSUME IInv, User
  PROVE  IInv'
<1>1. CASE Submit
  <2>1. PICK t \in Turns : StartTurn(t)
    BY <1>1 DEF Submit
  <2>2. /\ ~draining /\ dirty' = FALSE
        /\ UNCHANGED <<cancelled, sent, chan, messages, closedMsgs, flushMsgs,
                       flushPending, drainVars>>
    BY <1>1 DEF Submit
  <2>3. cancelled' \subseteq cancelled \cup ({cancelFunc} \ {0})
    BY <2>2, PumpConstants DEF IInv, Types, Turns
  <2> QED BY <2>1, <2>2, <2>3, StartTurnStep
<1>2. CASE CancelAgentTurn
  <2>1. cancelled' \subseteq Turns /\ \A u \in cancelled' : life[u] # "none"
    BY <1>2 DEF CancelAgentTurn, IInv, Types, Attached
  <2>2. Types'
    BY <1>2, <2>1 DEF CancelAgentTurn, IInv, Types, drainVars
  <2>3. Attached' /\ Painting'
    BY <1>2, <2>1 DEF CancelAgentTurn, IInv, Attached, Painting
  <2>4. Listening'
    BY <1>2 DEF CancelAgentTurn, IInv, Listening, NeverDeaf, drainVars
  <2> QED BY <2>2, <2>3, <2>4 DEF IInv
<1>3. CASE AnswerMarkup
  <2>1. PICK t \in Turns : StartTurn(t)
    BY <1>3 DEF AnswerMarkup
  <2>2. /\ ~draining /\ dirty' = FALSE
        /\ UNCHANGED <<sent, chan, messages, closedMsgs, flushMsgs,
                       flushPending, drainVars>>
    BY <1>3 DEF AnswerMarkup, CloseDialog
  <2>3. cancelled' \subseteq cancelled \cup ({cancelFunc} \ {0})
    BY <1>3, PumpConstants DEF AnswerMarkup, IInv, Types, Turns
  <2> QED BY <2>1, <2>2, <2>3, StartTurnStep
<1>4. CASE DismissMarkup
  <2>1. Types'
    BY <1>4 DEF DismissMarkup, CloseDialog, IInv, Types, turnVars, agentVars, drainVars
  <2>2. Attached' /\ Painting'
    BY <1>4 DEF DismissMarkup, CloseDialog, IInv, Attached, Painting, turnVars, agentVars
  <2>3. Listening'
    BY <1>4 DEF DismissMarkup, CloseDialog, IInv, Listening, NeverDeaf, agentVars, drainVars
  <2> QED BY <2>1, <2>2, <2>3 DEF IInv
<1> QED BY <1>1, <1>2, <1>3, <1>4 DEF User

(***************************************************************************)
(* Nothing changes.                                                        *)
(***************************************************************************)
LEMMA StutterStep ==
  ASSUME IInv, UNCHANGED vars
  PROVE  IInv'
<1>1. UNCHANGED <<turnVars, chan, readers, messages, closedMsgs, paintVars,
                  agentVars, drainVars>>
  BY DEF vars
<1>2. Types'
  BY <1>1 DEF IInv, Types, turnVars, paintVars, agentVars, drainVars
<1>3. Attached' /\ Painting'
  BY <1>1 DEF IInv, Attached, Painting, turnVars, paintVars, agentVars
<1>4. Listening'
  BY <1>1 DEF IInv, Listening, NeverDeaf, agentVars, drainVars
<1> QED BY <1>2, <1>3, <1>4 DEF IInv

\* Every step of agent, readers and UI keeps the invariant.
LEMMA NextIInv == IInv /\ [Next]_vars => IInv'
<1> SUFFICES ASSUME IInv, [Next]_vars PROVE IInv'
  OBVIOUS
<1>1. ASSUME NEW t \in Turns, Produce(t) PROVE IInv'
  BY <1>1, ProduceStep
<1>2. ASSUME NEW t \in Turns, Read(t) PROVE IInv'
  BY <1>2, ReadStep
<1>3. CASE Drain
  BY <1>3, DrainStep
<1>4. CASE Handle
  BY <1>4, HandleEventStep, OtherMessageStep DEF Handle
<1>5. CASE User
  BY <1>5, UserStep
<1>6. CASE Over \/ UNCHANGED vars
  BY <1>6, StutterStep DEF Over
<1> QED BY <1>1, <1>2, <1>3, <1>4, <1>5, <1>6 DEF Next

----------------------------------------------------------------------------

(***************************************************************************)
(* The inductive invariant holds for every number of turns and events and  *)
(* for every buffer size and drain cap.                                    *)
(***************************************************************************)
THEOREM PumpInvariant == Spec => []IInv
<1>1. Init => IInv
  BY InitIInv
<1>2. IInv /\ [Next]_vars => IInv'
  BY NextIInv
<1> QED BY <1>1, <1>2, PTL DEF Spec

(***************************************************************************)
(* The UI never goes deaf for the turn it follows (agent_bridge.go:78-139, *)
(* stream.go:145-160).                                                     *)
(***************************************************************************)
THEOREM PumpNeverDeaf == Spec => []NeverDeaf
<1>1. IInv => NeverDeaf
  BY DEF IInv, Listening
<1> QED BY <1>1, PumpInvariant, PTL

(***************************************************************************)
(* Esc always cancels the turn the UI shows (agent.go:115-126, 146-153).   *)
(***************************************************************************)
THEOREM PumpEscReachesTurn == Spec => []EscReachesTurn
<1>1. IInv => EscReachesTurn
  BY DEF IInv, Attached, EscReachesTurn, Turns
<1> QED BY <1>1, PumpInvariant, PTL

(***************************************************************************)
(* Changed content is always about to be painted (stream.go:118-126,       *)
(* 162-182).                                                               *)
(***************************************************************************)
THEOREM PumpPaintScheduled == Spec => []PaintScheduled
<1>1. IInv => PaintScheduled
  BY DEF IInv, Painting, PaintScheduled
<1> QED BY <1>1, PumpInvariant, PTL

----------------------------------------------------------------------------
(* An event is in one place at a time.  Counting does not go through the   *)
(* steps by itself: what does is that no two places hold the same number.  *)

Seen == messages \cup applied

Apart ==
    /\ messages \cap applied = {} /\ applied \subseteq Event
    /\ \A e, f \in Seen : e.turn = f.turn /\ e.n = f.n => e = f

Buffered(t, n) == \E i \in 1..Len(chan[t]) : chan[t][i].n = n
Distinct(t) == \A i, j \in 1..Len(chan[t]) : chan[t][i].n = chan[t][j].n => i = j
Elsewhere(t) == \A i \in 1..Len(chan[t]) : \A e \in Seen : e.turn = t => e.n # chan[t][i].n
SoFar(t) ==
    /\ \A i \in 1..Len(chan[t]) : chan[t][i].n <= sent[t]
    /\ \A e \in Seen : e.turn = t => e.n <= sent[t]
Complete(t) == \A n \in 1..sent[t] : Buffered(t, n) \/ \E e \in Seen : e.turn = t /\ e.n = n

Kept ==
    Apart /\ \A t \in Turns : Distinct(t) /\ Elsewhere(t) /\ SoFar(t) /\ Complete(t)


(***************************************************************************)
(* Unique places are what counting them gives.                             *)
(***************************************************************************)
LEMMA KeptIsConserved == Types /\ Kept => EventsConserved
<1> SUFFICES ASSUME Types, Kept, NEW t \in Turns, NEW n \in 1..sent[t]
             PROVE  Copies(t, n) = 1
  BY DEF EventsConserved
<1> DEFINE C == {i \in 1..Len(chan[t]) : chan[t][i].n = n}
           M == {e \in messages : e.turn = t /\ e.n = n}
           A == {e \in applied : e.turn = t /\ e.n = n}
<1>1. Copies(t, n) = Cardinality(C) + Cardinality(M) + Cardinality(A)
  BY DEF Copies
<1>2. Cardinality({}) = 0
  BY FS_EmptySet
<1>3. \A x : Cardinality({x}) = 1
  BY FS_Singleton
<1>4. CASE Buffered(t, n)
  <2>1. PICK i \in 1..Len(chan[t]) : chan[t][i].n = n
    BY <1>4 DEF Buffered
  <2>2. C = {i}
    BY <2>1 DEF Kept, Distinct
  <2>3. M = {} /\ A = {}
    BY <2>1 DEF Kept, Elsewhere, Seen
  <2>4. Cardinality(C) = 1 /\ Cardinality(M) = 0 /\ Cardinality(A) = 0
    BY <1>2, <1>3, <2>2, <2>3
  <2> QED BY <1>1, <2>4
<1>5. CASE \E e \in messages : e.turn = t /\ e.n = n
  <2>1. PICK e \in messages : e.turn = t /\ e.n = n
    BY <1>5
  <2>2. M = {e}
    BY <2>1 DEF Kept, Apart, Seen
  <2>3. C = {} /\ A = {}
    BY <2>1 DEF Kept, Apart, Elsewhere, Seen
  <2>4. Cardinality(C) = 0 /\ Cardinality(M) = 1 /\ Cardinality(A) = 0
    BY <1>2, <1>3, <2>2, <2>3
  <2> QED BY <1>1, <2>4
<1>6. CASE \E e \in applied : e.turn = t /\ e.n = n
  <2>1. PICK e \in applied : e.turn = t /\ e.n = n
    BY <1>6
  <2>2. A = {e}
    BY <2>1 DEF Kept, Apart, Seen
  <2>3. C = {} /\ M = {}
    BY <2>1 DEF Kept, Apart, Elsewhere, Seen
  <2>4. Cardinality(C) = 0 /\ Cardinality(M) = 0 /\ Cardinality(A) = 1
    BY <1>2, <1>3, <2>2, <2>3
  <2> QED BY <1>1, <2>4
<1> QED BY <1>4, <1>5, <1>6 DEF Kept, Complete, Seen

\* Nothing has been sent at first.
LEMMA InitKept == Init => Kept
BY DEF Init, Kept, Apart, Distinct, Elsewhere, SoFar, Complete, Seen

\* A turn sends an event with a number of its own.  (turn.go: sendEvent)
LEMMA SendKept ==
  ASSUME IInv, Kept, NEW t \in Turns, NEW k \in Kinds, Send(t, k)
  PROVE  Kept'
<1> DEFINE e == [turn |-> t, n |-> sent'[t], kind |-> k]
<1>0. /\ chan' = [chan EXCEPT ![t] = Append(@, e)] /\ UNCHANGED <<messages, applied>>
      /\ sent'[t] = sent[t] + 1 /\ \A u \in Turns : u # t => sent'[u] = sent[u]
      /\ e.n = sent[t] + 1
  BY DEF Send, histVars, IInv, Types
<1> HIDE DEF e
<1>1. /\ \A u \in Turns : u # t => chan'[u] = chan[u]
      /\ chan[t] \in Seq(Event) /\ chan'[t] = Append(chan[t], e)
      /\ sent \in [Turns -> Nat] /\ messages \subseteq Event
  BY <1>0, PumpConstants DEF IInv, Types
<1>2. /\ Len(chan'[t]) = Len(chan[t]) + 1 /\ Len(chan[t]) \in Nat
      /\ \A i \in 1..Len(chan[t]) : chan'[t][i] = chan[t][i]
      /\ chan'[t][Len(chan[t]) + 1] = e
  BY <1>1
<1>3. \A i \in 1..Len(chan'[t]) : i \in 1..Len(chan[t]) \/ (i = Len(chan[t]) + 1 /\ chan'[t][i] = e)
  BY <1>2
<1>4. \A i \in 1..Len(chan[t]) : chan[t][i] \in Event /\ chan[t][i].n <= sent[t]
  BY <1>1 DEF Kept, SoFar
<1>5. \A f \in Seen : f \in Event /\ (f.turn = t => f.n <= sent[t])
  BY <1>1 DEF Kept, Apart, SoFar, Seen
<1>6. \A f \in Event : f.n \in Nat /\ f.turn \in Turns
  BY PumpConstants DEF Event
<1>7. sent[t] \in Nat
  BY <1>1
<1>8. Apart'
  BY <1>0 DEF Kept, Apart, Seen
<1>9. Distinct(t)'
  BY <1>0, <1>2, <1>3, <1>4, <1>6, <1>7 DEF Kept, Distinct
<1>10. Elsewhere(t)'
  BY <1>0, <1>2, <1>3, <1>5, <1>6, <1>7 DEF Kept, Elsewhere, Seen
<1>11. SoFar(t)'
  BY <1>0, <1>2, <1>3, <1>4, <1>5, <1>6, <1>7 DEF SoFar, Seen
<1>12. Complete(t)'
  <2> SUFFICES ASSUME NEW n \in 1..sent'[t]
               PROVE  Buffered(t, n)' \/ \E f \in Seen' : f.turn = t /\ f.n = n
    BY DEF Complete
  <2>1. CASE n = sent[t] + 1
    <3>1. Len(chan[t]) + 1 \in 1..Len(chan'[t]) /\ chan'[t][Len(chan[t]) + 1].n = n
      BY <1>0, <1>2, <2>1
    <3> QED BY <3>1 DEF Buffered
  <2>2. CASE n \in 1..sent[t]
    <3>1. Buffered(t, n) => Buffered(t, n)'
      BY <1>2 DEF Buffered
    <3>2. Seen' = Seen
      BY <1>0 DEF Seen
    <3> QED BY <2>2, <3>1, <3>2 DEF Kept, Complete
  <2> QED BY <1>0, <1>7, <2>1, <2>2
<1>13. ASSUME NEW u \in Turns, u # t
       PROVE  Distinct(u)' /\ Elsewhere(u)' /\ SoFar(u)' /\ Complete(u)'
  <2>1. Seen' = Seen /\ chan'[u] = chan[u] /\ sent'[u] = sent[u]
    BY <1>0, <1>1, <1>13 DEF Seen
  <2> QED BY <2>1 DEF Kept, Distinct, Elsewhere, SoFar, Complete, Buffered
<1> QED BY <1>8, <1>9, <1>10, <1>11, <1>12, <1>13 DEF Kept

(***************************************************************************)
(* An event that is read moves from the channel to where the reader puts   *)
(* it: a message, or the screen.  (agent_bridge.go:14-65)                  *)
(***************************************************************************)
LEMMA ReadKept ==
  ASSUME IInv, Kept, NEW t \in Turns, chan[t] # <<>>,
         chan' = [chan EXCEPT ![t] = Tail(@)], sent' = sent,
         \/ messages' = messages \cup {Head(chan[t])} /\ applied' = applied
         \/ messages' = messages /\ applied' = applied \cup {Head(chan[t])}
  PROVE  Kept'
<1> DEFINE e == Head(chan[t])
<1>1. /\ e \in Event /\ e = chan[t][1] /\ e.turn = t
      /\ Len(chan[t]) \in Nat \ {0} /\ Len(Tail(chan[t])) = Len(chan[t]) - 1
      /\ \A i \in 1..Len(Tail(chan[t])) : Tail(chan[t])[i] = chan[t][i + 1]
  BY ChannelRead DEF IInv, Types, Listening
<1>2. /\ chan'[t] = Tail(chan[t]) /\ \A u \in Turns : u # t => chan'[u] = chan[u]
      /\ Seen' = Seen \cup {e}
  BY DEF IInv, Types, Seen
<1>3. \A f \in Seen : f.turn = t => f.n # e.n
  BY <1>1 DEF Kept, Elsewhere
<1> HIDE DEF e
<1>4. Len(chan'[t]) = Len(chan[t]) - 1
  BY <1>1, <1>2
<1>5. \A i \in 1..Len(chan'[t]) : i + 1 \in 1..Len(chan[t]) /\ i + 1 # 1
  BY <1>1, <1>4
<1>6. \A i \in 1..Len(chan'[t]) : chan'[t][i] = chan[t][i + 1]
  BY <1>1, <1>2
<1>7. \A i \in 1..Len(chan'[t]) : chan'[t][i].n # e.n
  BY <1>1, <1>5, <1>6 DEF Kept, Distinct
<1>8. Apart'
  BY <1>1, <1>2, <1>3 DEF Kept, Apart, Seen, e
<1>9. Distinct(t)'
  BY <1>5, <1>6 DEF Kept, Distinct
<1>10. Elsewhere(t)'
  <2>1. ASSUME NEW i \in 1..Len(chan'[t]), NEW f \in Seen, f.turn = t PROVE f.n # chan'[t][i].n
    BY <1>5, <1>6, <2>1 DEF Kept, Elsewhere
  <2> QED BY <1>2, <1>7, <2>1 DEF Elsewhere
<1>11. SoFar(t)'
  <2>1. e.n <= sent[t]
    BY <1>1 DEF Kept, SoFar
  <2> QED BY <1>2, <1>5, <1>6, <2>1 DEF Kept, SoFar
<1>12. Complete(t)'
  <2> SUFFICES ASSUME NEW n \in 1..sent[t]
               PROVE  Buffered(t, n)' \/ \E f \in Seen' : f.turn = t /\ f.n = n
    BY DEF Complete
  <2>1. CASE Buffered(t, n)
    <3>1. PICK i \in 1..Len(chan[t]) : chan[t][i].n = n
      BY <2>1 DEF Buffered
    <3>2. CASE i = 1
      BY <1>1, <1>2, <3>1, <3>2
    <3>3. CASE i # 1
      <4>1. i - 1 \in 1..Len(chan'[t]) /\ (i - 1) + 1 = i
        BY <1>1, <1>4, <3>1, <3>3
      <4>2. chan'[t][i - 1] = chan[t][i]
        BY <1>6, <4>1
      <4> QED BY <3>1, <4>1, <4>2 DEF Buffered
    <3> QED BY <3>2, <3>3
  <2>2. CASE \E f \in Seen : f.turn = t /\ f.n = n
    BY <1>2, <2>2
  <2> QED BY <2>1, <2>2 DEF Kept, Complete
<1>13. ASSUME NEW u \in Turns, u # t
       PROVE  Distinct(u)' /\ Elsewhere(u)' /\ SoFar(u)' /\ Complete(u)'
  BY <1>1, <1>2, <1>13 DEF Kept, Distinct, Elsewhere, SoFar, Complete, Buffered
<1> QED BY <1>8, <1>9, <1>10, <1>11, <1>12, <1>13 DEF Kept

\* A message that is handled goes to the screen.
LEMMA HandleKept ==
  ASSUME Kept, IInv, NEW e \in messages, messages' = messages \ {e}, applied' = applied \cup {e},
         UNCHANGED <<chan, sent>>
  PROVE  Kept'
<1>1. Seen' = Seen
  BY DEF Seen
<1>2. Apart'
  BY <1>1 DEF Kept, Apart, IInv, Types
<1> QED BY <1>1, <1>2 DEF Kept, Distinct, Elsewhere, SoFar, Complete, Buffered

\* Every step of turns, readers, UI and user.
LEMMA NextKept == IInv /\ Kept /\ [Next]_vars => Kept'
<1> SUFFICES ASSUME IInv, Kept, [Next]_vars PROVE Kept'
  OBVIOUS
<1>0. UNCHANGED <<chan, sent, messages, applied>> => Kept'
  BY DEF Kept, Apart, Distinct, Elsewhere, SoFar, Complete, Buffered, Seen
<1>1. ASSUME NEW t \in Turns, Produce(t) PROVE Kept'
  <2>1. CASE Close(t)
    BY <1>0, <2>1 DEF Close, histVars
  <2> QED BY <1>1, <2>1, SendKept DEF Produce
<1>2. ASSUME NEW t \in Turns, Read(t) PROVE Kept'
  <2>1. CASE WaitReceive(t)
    BY <2>1, ReadKept DEF WaitReceive, turnVars, histVars
  <2>2. CASE WaitClosed(t)
    BY <1>0, <2>2 DEF WaitClosed, turnVars, histVars
  <2> QED BY <1>2, <2>1, <2>2 DEF Read
<1>3. CASE Drain
  <2>0. draining /\ events \in Turns
    BY <1>3 DEF Drain, DrainDelta, DrainOther, DrainClosed, DrainEmpty, DrainYield, Draining,
                IInv, Types, Listening
  <2>1. CASE DrainDelta
    BY <2>0, <2>1, ReadKept DEF DrainDelta, Apply, turnVars
  <2>2. CASE DrainOther
    BY <2>0, <2>2, ReadKept DEF DrainOther, Return, turnVars, histVars
  <2>3. CASE DrainClosed \/ DrainEmpty \/ DrainYield
    BY <1>0, <2>3 DEF DrainClosed, DrainEmpty, DrainYield, Return, turnVars, histVars
  <2> QED BY <1>3, <2>1, <2>2, <2>3 DEF Drain
<1>4. CASE Handle
  <2>1. ASSUME NEW e \in messages, HandleAgentEvent(e) PROVE Kept'
    BY <2>1, HandleKept DEF HandleAgentEvent, Apply, turnVars
  <2>2. CASE HandleAgentTurnClosed \/ HandleStreamFlush \/ HandleMarkupAskUser
    BY <1>0, <2>2 DEF HandleAgentTurnClosed, HandleStreamFlush, HandleMarkupAskUser, turnVars, histVars
  <2> QED BY <1>4, <2>1, <2>2 DEF Handle
<1>5. CASE User
  BY <1>0, <1>5 DEF User, Submit, CancelAgentTurn, AnswerMarkup, DismissMarkup, turnVars, histVars
<1>6. CASE Over \/ UNCHANGED vars
  BY <1>0, <1>6 DEF Over, vars, turnVars, histVars
<1> QED BY <1>1, <1>2, <1>3, <1>4, <1>5, <1>6 DEF Next

(***************************************************************************)
(* No event is lost or handled twice between the channel and the screen,   *)
(* however many readers take part and whatever is cancelled or replaced    *)
(* (agent_bridge.go:14-65).                                                *)
(***************************************************************************)
THEOREM PumpConserves == Spec => []EventsConserved
<1>1. IInv /\ Kept => EventsConserved
  BY KeptIsConserved DEF IInv
<1>2. Spec => []Kept
  BY InitKept, NextKept, PumpInvariant, PTL DEF Spec
<1> QED BY <1>1, <1>2, PumpInvariant, PTL

-----------------------------------------------------------------------------
(***************************************************************************)
(* The text of a streamed answer (StreamText).  A reader that takes one    *)
(* token at a time, Run, says what ThinkTagStreamFilter and                *)
(* ExtractThinkTags come to, however the text is cut; an answer tells what *)
(* that reader keeps of it, and all its calls are whole; the filter of the *)
(* calls keeps the text it holds covered by the call that has begun.  The  *)
(* invariant StreamInv ties the filters' state to the part already read.   *)
(***************************************************************************)

\* The elements of two lists, one after the other.
LEMMA Joined ==
    ASSUME NEW S, NEW u \in Seq(S), NEW v \in Seq(S)
    PROVE  /\ u \o v \in Seq(S) /\ Len(u \o v) = Len(u) + Len(v)
           /\ \A k \in 1 .. Len(u) : (u \o v)[k] = u[k]
           /\ \A k \in 1 .. Len(v) : (u \o v)[Len(u) + k] = v[k]
           /\ \A k \in Len(u) + 1 .. Len(u) + Len(v) : (u \o v)[k] = v[k - Len(u)]
OBVIOUS

\* How lists are grouped when they are joined makes no difference.
LEMMA Regrouped ==
    ASSUME NEW S, NEW u \in Seq(S), NEW v \in Seq(S), NEW w \in Seq(S)
    PROVE  (u \o v) \o w = u \o (v \o w)
OBVIOUS

\* Before and From cut a list in two.
LEMMA Parts ==
    ASSUME NEW S, NEW s \in Seq(S), NEW i \in 1 .. Len(s) + 1
    PROVE  /\ Before(s, i) \in Seq(S) /\ Len(Before(s, i)) = i - 1
           /\ \A k \in 1 .. i - 1 : Before(s, i)[k] = s[k]
           /\ From(s, i) \in Seq(S) /\ Len(From(s, i)) = Len(s) - i + 1
           /\ \A k \in 1 .. Len(s) - i + 1 : From(s, i)[k] = s[i + k - 1]
           /\ s = Before(s, i) \o From(s, i)
<1>1. /\ Before(s, i) \in Seq(S) /\ Len(Before(s, i)) = i - 1
      /\ \A k \in 1 .. i - 1 : Before(s, i)[k] = s[k]
  BY DEF Before
<1>2. /\ From(s, i) \in Seq(S) /\ Len(From(s, i)) = Len(s) - i + 1
      /\ \A k \in 1 .. Len(s) - i + 1 : From(s, i)[k] = s[i + k - 1]
  BY DEF From
<1> DEFINE t == Before(s, i) \o From(s, i)
<1>3. t \in Seq(S) /\ Len(t) = Len(s) /\ Len(s) \in Nat
  BY <1>1, <1>2
<1>4. \A k \in 1 .. Len(s) : s[k] = t[k]
  <2> SUFFICES ASSUME NEW k \in 1 .. Len(s) PROVE s[k] = t[k]
    OBVIOUS
  <2>1. CASE k < i
    <3>1. k \in 1 .. i - 1
      BY <2>1
    <3>2. t[k] = Before(s, i)[k]
      BY <1>1, <1>2, <3>1
    <3> QED BY <1>1, <3>1, <3>2
  <2>2. CASE ~(k < i)
    <3>1. /\ k - i + 1 \in 1 .. Len(s) - i + 1 /\ k = i - 1 + (k - i + 1)
          /\ i + (k - i + 1) - 1 = k
      BY <1>3, <2>2
    <3>2. t[i - 1 + (k - i + 1)] = From(s, i)[k - i + 1]
      BY <1>1, <1>2, <3>1
    <3>3. From(s, i)[k - i + 1] = s[i + (k - i + 1) - 1]
      BY <1>2, <3>1
    <3>4. From(s, i)[k - i + 1] = s[k]
      BY <3>1, <3>3
    <3> QED BY <3>1, <3>2, <3>4
  <2> QED BY <2>1, <2>2
<1> HIDE DEF t
<1>5. s = t
  BY <1>3, <1>4, SeqEqual
<1> QED BY <1>1, <1>2, <1>5 DEF t

\* A part of a list has elements of the list.
LEMMA PartsOf ==
    ASSUME NEW S, NEW T, NEW u \in Seq(S), NEW v \in Seq(S), u \o v \in Seq(T)
    PROVE  u \in Seq(T) /\ v \in Seq(T)
<1>1. /\ Len(u) \in Nat /\ Len(v) \in Nat /\ Len(u \o v) = Len(u) + Len(v)
      /\ \A k \in 1 .. Len(u) : (u \o v)[k] = u[k]
      /\ \A k \in 1 .. Len(v) : (u \o v)[Len(u) + k] = v[k]
  BY Joined
<1>2. \A k \in 1 .. Len(u) + Len(v) : (u \o v)[k] \in T
  BY <1>1
<1>3. ASSUME NEW k \in 1 .. Len(u) PROVE u[k] \in T
  <2>1. k \in 1 .. Len(u) + Len(v)
    BY <1>1
  <2> QED BY <1>1, <1>2, <2>1
<1>4. ASSUME NEW k \in 1 .. Len(v) PROVE v[k] \in T
  <2>1. Len(u) + k \in 1 .. Len(u) + Len(v)
    BY <1>1
  <2> QED BY <1>1, <1>2, <2>1
<1> QED BY <1>3, <1>4

\* Find gives the first place where a list begins in another.
LEMMA Found ==
    ASSUME NEW S, NEW s \in Seq(S), NEW p \in Seq(S), p # <<>>
    PROVE  /\ Find(s, p) \in 0 .. Len(s)
           /\ Find(s, p) = 0 => \A i \in 1 .. Len(s) + 1 - Len(p) : ~Begins(s, p, i)
           /\ Find(s, p) # 0 => /\ Find(s, p) + Len(p) <= Len(s) + 1
                                /\ Begins(s, p, Find(s, p))
                                /\ \A i \in 1 .. Find(s, p) - 1 : ~Begins(s, p, i)
<1> DEFINE at == {i \in 1 .. Len(s) + 1 - Len(p) : Begins(s, p, i)}
<1>1. Len(s) \in Nat /\ Len(p) \in Nat /\ Len(p) >= 1
  OBVIOUS
<1>2. CASE at = {}
  <2>1. Find(s, p) = 0
    BY <1>2 DEF Find
  <2> QED BY <1>1, <1>2, <2>1
<1>3. CASE at # {}
  <2>1. at \in SUBSET Nat
    BY <1>1
  <2>2. Find(s, p) = CHOOSE i \in at : \A j \in at : i <= j
    BY <1>3 DEF Find
  <2>3. \E i \in at : \A j \in at : i <= j
    <3> HIDE DEF at
    <3> QED BY <1>3, <2>1, LeastNumber
  <2>4. Find(s, p) \in at /\ \A j \in at : Find(s, p) <= j
    <3> HIDE DEF at
    <3> QED BY <2>2, <2>3
  <2>5. /\ Find(s, p) \in 1 .. Len(s) + 1 - Len(p) /\ Begins(s, p, Find(s, p))
    BY <2>4
  <2>6. ASSUME NEW i \in 1 .. Find(s, p) - 1 PROVE ~Begins(s, p, i)
    <3>1. i \in 1 .. Len(s) + 1 - Len(p) /\ ~(Find(s, p) <= i)
      BY <1>1, <2>5
    <3> QED BY <2>4, <3>1
  <2> QED BY <1>1, <2>5, <2>6
<1> QED BY <1>2, <1>3

\* The same for a tag of two halves, and for one token.
LEMMA FoundTag ==
    ASSUME NEW S, NEW s \in Seq(S), NEW a \in S, NEW b \in S
    PROVE  LET at == Find(s, <<a, b>>)
           IN  /\ at \in 0 .. Len(s)
               /\ at = 0 => \A i \in 1 .. Len(s) - 1 : ~(s[i] = a /\ s[i + 1] = b)
               /\ at # 0 => /\ at + 1 <= Len(s) /\ s[at] = a /\ s[at + 1] = b
                            /\ \A i \in 1 .. at - 1 : ~(s[i] = a /\ s[i + 1] = b)
<1> DEFINE p == <<a, b>>
           at == Find(s, p)
<1>1. p \in Seq(S) /\ p # <<>> /\ Len(p) = 2 /\ p[1] = a /\ p[2] = b
  OBVIOUS
<1>2. \A i \in 1 .. Len(s) : Begins(s, p, i) <=> s[i] = a /\ s[i + 1] = b
  <2> SUFFICES ASSUME NEW i \in 1 .. Len(s)
               PROVE  Begins(s, p, i) <=> s[i] = a /\ s[i + 1] = b
    OBVIOUS
  <2>0. \A j \in 1 .. 2 : j = 1 \/ j = 2
    OBVIOUS
  <2>1. i + 1 - 1 = i /\ i + 2 - 1 = i + 1 /\ 1 \in 1 .. 2 /\ 2 \in 1 .. 2
    OBVIOUS
  <2>2. Begins(s, p, i) <=> \A j \in 1 .. 2 : s[i + j - 1] = p[j]
    BY <1>1 DEF Begins
  <2> HIDE DEF p
  <2> QED BY <1>1, <2>0, <2>1, <2>2
<1> HIDE DEF p
<1>3. /\ at \in 0 .. Len(s)
      /\ at = 0 => \A i \in 1 .. Len(s) + 1 - Len(p) : ~Begins(s, p, i)
      /\ at # 0 => /\ at + Len(p) <= Len(s) + 1 /\ Begins(s, p, at)
                   /\ \A i \in 1 .. at - 1 : ~Begins(s, p, i)
  BY <1>1, Found
<1> HIDE DEF at
<1>4. Len(s) \in Nat
  OBVIOUS
<1>5. at = 0 => \A i \in 1 .. Len(s) - 1 : ~(s[i] = a /\ s[i + 1] = b)
  BY <1>1, <1>2, <1>3, <1>4
<1>6. at # 0 => /\ at + 1 <= Len(s) /\ s[at] = a /\ s[at + 1] = b
                /\ \A i \in 1 .. at - 1 : ~(s[i] = a /\ s[i + 1] = b)
  BY <1>1, <1>2, <1>3, <1>4
<1> QED BY <1>3, <1>5, <1>6 DEF at, p

\* Find with a single token returns its first place, and 0 when the text has none
\* (strings.Index).
LEMMA FoundToken ==
    ASSUME NEW S, NEW s \in Seq(S), NEW a \in S
    PROVE  LET at == Find(s, <<a>>)
           IN  /\ at \in 0 .. Len(s)
               /\ at = 0 => \A i \in 1 .. Len(s) : s[i] # a
               /\ at # 0 => s[at] = a /\ \A i \in 1 .. at - 1 : s[i] # a
<1> DEFINE p == <<a>>
           at == Find(s, p)
<1>1. p \in Seq(S) /\ p # <<>> /\ Len(p) = 1 /\ p[1] = a
  OBVIOUS
<1>2. \A i \in 1 .. Len(s) : Begins(s, p, i) <=> s[i] = a
  BY <1>1 DEF Begins
<1> HIDE DEF p
<1>3. /\ at \in 0 .. Len(s)
      /\ at = 0 => \A i \in 1 .. Len(s) + 1 - Len(p) : ~Begins(s, p, i)
      /\ at # 0 => /\ at + Len(p) <= Len(s) + 1 /\ Begins(s, p, at)
                   /\ \A i \in 1 .. at - 1 : ~Begins(s, p, i)
  BY <1>1, Found
<1> HIDE DEF at
<1>4. Len(s) \in Nat
  OBVIOUS
<1> QED BY <1>1, <1>2, <1>3, <1>4 DEF at, p

-----------------------------------------------------------------------------
\* The first and the last of the places of a list that are not blank.
Solid(s) == {i \in DOMAIN s : s[i] # "blank"}
\* Trim cuts a list that is not all blank to its first and its last solid place
\* (strings.TrimSpace).
LEMMA SolidEnds ==
    ASSUME NEW S, NEW s \in Seq(S), Solid(s) # {}
    PROVE  \E a, b \in Solid(s) : /\ \A j \in Solid(s) : a <= j /\ j <= b
                                  /\ a \in 1 .. Len(s) /\ b \in 1 .. Len(s) /\ a <= b
                                  /\ Trim(s) = SubSeq(s, a, b)
<1> DEFINE first == CHOOSE i \in Solid(s) : \A j \in Solid(s) : i <= j
           last == CHOOSE i \in Solid(s) : \A j \in Solid(s) : j <= i
           T == Solid(s)
<1>1. Trim(s) = SubSeq(s, first, last)
  BY DEF Trim, Solid
<1>2. Len(s) \in Nat /\ T \in SUBSET (0 .. Len(s)) /\ T \in SUBSET Nat /\ T \in SUBSET (1 .. Len(s))
  BY DEF Solid
<1>0. T # {}
  OBVIOUS
<1>3. \E i \in T : \A j \in T : i <= j
  <2> HIDE DEF T
  <2> QED BY <1>0, <1>2, LeastNumber
<1>4. \E i \in T : \A j \in T : j <= i
  <2> HIDE DEF T
  <2>1. Max(T) \in T /\ \A y \in T : y <= Max(T)
    BY <1>0, <1>2, MaxIsGreatest
  <2> QED BY <2>1
<1>5. first \in T /\ \A j \in T : first <= j
  BY <1>3
<1>6. last \in T /\ \A j \in T : j <= last
  BY <1>4
<1> HIDE DEF first, last, T
<1>7. first <= last /\ first \in 1 .. Len(s) /\ last \in 1 .. Len(s)
  BY <1>2, <1>5, <1>6
<1> QED BY <1>1, <1>5, <1>6, <1>7 DEF T

\* Trim takes the blanks off both ends.
LEMMA Trimmed ==
    ASSUME NEW S, NEW s \in Seq(S)
    PROVE  Trim(s) \in Seq(S)
<1>1. CASE Solid(s) = {}
  <2>1. Trim(s) = <<>>
    BY <1>1 DEF Trim, Solid
  <2> QED BY <2>1
<1>2. CASE Solid(s) # {}
  <2>1. PICK a, b \in Solid(s) : /\ a \in 1 .. Len(s) /\ b \in 1 .. Len(s)
                                 /\ Trim(s) = SubSeq(s, a, b)
    BY <1>2, SolidEnds
  <2> QED BY <2>1
<1> QED BY <1>1, <1>2

\* Nothing is left only of blanks.
LEMMA TrimmedAway ==
    ASSUME NEW S, NEW s \in Seq(S), Trim(s) = <<>>
    PROVE  \A i \in 1 .. Len(s) : s[i] = "blank"
<1>1. CASE Solid(s) = {}
  BY <1>1 DEF Solid
<1>2. CASE Solid(s) # {}
  <2>1. PICK a, b \in Solid(s) : /\ a \in 1 .. Len(s) /\ b \in 1 .. Len(s) /\ a <= b
                                 /\ Trim(s) = SubSeq(s, a, b)
    BY <1>2, SolidEnds
  <2>2. Len(SubSeq(s, a, b)) # 0
    BY <2>1
  <2> QED BY <2>1, <2>2
<1> QED BY <1>1, <1>2

\* Without blanks at the ends it stays, with one in front that goes.
LEMMA TrimmedEnds ==
    ASSUME NEW S, NEW s \in Seq(S), s # <<>>, s[Len(s)] # "blank"
    PROVE  /\ s[1] # "blank" => Trim(s) = s
           /\ s[1] = "blank" /\ s[2] # "blank" => Trim(s) = From(s, 2)
<1>1. Len(s) \in Nat /\ Len(s) # 0 /\ Len(s) \in 1 .. Len(s) /\ DOMAIN s = 1 .. Len(s)
  OBVIOUS
<1>2. Len(s) \in Solid(s)
  BY <1>1 DEF Solid
<1>3. PICK a, b \in Solid(s) : /\ \A j \in Solid(s) : a <= j /\ j <= b
                               /\ a \in 1 .. Len(s) /\ b \in 1 .. Len(s) /\ a <= b
                               /\ Trim(s) = SubSeq(s, a, b)
  BY <1>2, SolidEnds
<1>4. b = Len(s)
  <2>1. Len(s) <= b /\ b <= Len(s) /\ b \in Int
    BY <1>2, <1>3
  <2>2. Len(s) \in Int
    BY <1>1
  <2> QED BY <2>1, <2>2
<1>5. ASSUME s[1] # "blank" PROVE Trim(s) = s
  <2>1. 1 \in Solid(s)
    BY <1>1, <1>5 DEF Solid
  <2>2. a = 1
    BY <1>3, <2>1
  <2>3. SubSeq(s, 1, Len(s)) = s
    <3> DEFINE t == SubSeq(s, 1, Len(s))
    <3>1. t \in Seq(S) /\ Len(t) = Len(s) /\ \A k \in 1 .. Len(s) : t[k] = s[k]
      BY <1>1
    <3> HIDE DEF t
    <3>2. t = s
      BY <1>1, <3>1, SeqEqual
    <3> QED BY <3>2 DEF t
  <2> QED BY <1>3, <1>4, <2>2, <2>3
<1>6. ASSUME s[1] = "blank", s[2] # "blank" PROVE Trim(s) = From(s, 2)
  <2>1. Len(s) >= 2
    BY <1>1, <1>6
  <2>2. 2 \in Solid(s) /\ 1 \notin Solid(s)
    BY <1>1, <1>6, <2>1 DEF Solid
  <2>3. a = 2
    BY <1>3, <2>2
  <2> QED BY <1>3, <1>4, <2>3 DEF From
<1> QED BY <1>5, <1>6

\* stripTrailingPartialToolMarkup leaves elements of the text; one without half a
\* tag it leaves alone.
LEMMA PartialCut ==
    ASSUME NEW S \in SUBSET Tokens, NEW s \in Seq(S)
    PROVE  /\ CutPartial(s) \in Seq(S)
           /\ (\A i \in 1 .. Len(s) : s[i] # "<tool") => CutPartial(s) = s
<1>0. s \in Seq(Tokens)
  OBVIOUS
<1>a. "<tool" \in Tokens
  BY DEF Tokens
<1>1. s \in Seq(Tokens) /\ "<tool" \in Tokens
  BY <1>0, <1>a
<1>2. /\ Find(s, <<"<tool">>) \in 0 .. Len(s)
      /\ Find(s, <<"<tool">>) # 0 => s[Find(s, <<"<tool">>)] = "<tool"
  BY <1>1, FoundToken
<1>3. \A i \in 1 .. Len(s) + 1 : Before(s, i) \in Seq(S)
  BY Parts
<1> QED BY <1>2, <1>3 DEF CutPartial

\* A value is a list of tokens.
LEMMA ValueTyped ==
    ASSUME NEW n \in Nat
    PROVE  Value(n) \in Texts /\ Len(Value(n)) = n /\ (n # 0 => Value(n) # <<>>)
<1>1. "v" \in Tokens
  BY DEF Tokens
<1>2. Value(n) \in [1 .. n -> Tokens]
  BY <1>1 DEF Value
<1> QED BY <1>2 DEF Texts

\* A step of the sanitizer's payload loop only takes tokens out and goes on to the
\* next value.
LEMMA PayloadStripped ==
    ASSUME NEW S \in SUBSET Tokens, NEW t \in Seq(S), NEW n \in Nat \ {0}, NEW values
    PROVE  StripPayload([text |-> t, n |-> n], values) \in [text : Seq(S), n : {n + 1}]
<1> DEFINE at == Find(t, Value(n))
           u == IF n \notin values \/ at = 0 THEN t
                ELSE Trim(Before(t, at) \o From(t, at + n))
<1>0. t \in Seq(Tokens) /\ Value(n) \in Seq(Tokens) /\ Value(n) # <<>> /\ Len(Value(n)) = n
  <2>1. n \in Nat /\ n # 0 /\ t \in Seq(Tokens)
    OBVIOUS
  <2> QED BY <2>1, ValueTyped DEF Texts
<1>1. at \in 0 .. Len(t) /\ (at # 0 => at + n <= Len(t) + 1)
  BY <1>0, Found
<1>2. ASSUME at # 0 PROVE Before(t, at) \o From(t, at + n) \in Seq(S)
  <2>1. at \in 1 .. Len(t) + 1 /\ at + n \in 1 .. Len(t) + 1
    BY <1>1, <1>2
  <2> HIDE DEF at
  <2>2. Before(t, at) \in Seq(S) /\ From(t, at + n) \in Seq(S)
    BY <2>1, Parts
  <2> QED BY <2>2
<1>3. ASSUME at # 0 PROVE Trim(Before(t, at) \o From(t, at + n)) \in Seq(S)
  BY <1>2, <1>3, Trimmed
<1>4. StripPayload([text |-> t, n |-> n], values) = [text |-> u, n |-> n + 1]
  BY DEF StripPayload
<1>5. u \in Seq(S)
  BY <1>3
<1> HIDE DEF u
<1> QED BY <1>4, <1>5

\* StripExtractedPayloads leaves elements of the text; without calls, all but the
\* blanks at its ends.
LEMMA PayloadsStripped ==
    ASSUME NEW S \in SUBSET Tokens, NEW s \in Seq(S), NEW values
    PROVE  /\ StripPayloads(s, values) \in Seq(S)
           /\ values = {} => StripPayloads(s, values) = Trim(s)
<1> DEFINE step == [x \in PayloadStates |-> StripPayload(x, values)]
           start == [text |-> s, n |-> 1]
           I == [text : Seq(S), n : Nat \ {0}]
           J == [text : {s}, n : Nat \ {0}]
           end == Repeated(step, start, Len(s))
<1>1. Len(s) \in Nat /\ \A t \in Seq(S) : t \in Texts
  BY DEF Texts
<1>2. \A n \in Nat \ {0} : n + 1 \in Nat \ {0}
  OBVIOUS
<1>3. start \in I /\ start \in J /\ I \in SUBSET PayloadStates /\ J \in SUBSET PayloadStates
  BY <1>1 DEF PayloadStates
<1>4. ASSUME NEW R \in SUBSET Tokens, NEW x \in [text : Seq(R), n : Nat \ {0}]
      PROVE  StripPayload(x, values) \in [text : Seq(R), n : Nat \ {0}]
  <2>1. PICK t \in Seq(R), n \in Nat \ {0} : x = [text |-> t, n |-> n]
    OBVIOUS
  <2>2. StripPayload(x, values) \in [text : Seq(R), n : {n + 1}]
    BY <2>1, PayloadStripped
  <2> QED BY <1>2, <2>2
<1>5. step \in [PayloadStates -> PayloadStates]
  <2>1. Tokens \in SUBSET Tokens
    OBVIOUS
  <2>2. \A x \in PayloadStates : StripPayload(x, values) \in PayloadStates
    BY <1>4, <2>1 DEF PayloadStates, Texts
  <2> QED BY <2>2
<1>6. \A x \in I : step[x] \in I
  BY <1>3, <1>4
<1>7. ASSUME values = {}, NEW x \in J PROVE step[x] \in J
  <2>1. PICK n \in Nat \ {0} : x = [text |-> s, n |-> n]
    OBVIOUS
  <2>2. step[x] = [text |-> s, n |-> n + 1]
    BY <1>3, <1>7, <2>1 DEF StripPayload
  <2> QED BY <1>2, <2>2
<1>8. end \in I
  <2> HIDE DEF step, start, I
  <2> QED BY <1>1, <1>3, <1>5, <1>6, RepeatedKeeps
<1>9. values = {} => end \in J
  <2> HIDE DEF step, start, J
  <2> QED BY <1>1, <1>3, <1>5, <1>7, RepeatedKeeps
<1>10. StripPayloads(s, values) = Trim(end.text)
  BY DEF StripPayloads
<1> HIDE DEF end
<1>11. end.text \in Seq(S) /\ (values = {} => end.text = s)
  BY <1>8, <1>9
<1>12. Trim(end.text) \in Seq(S)
  BY <1>11, Trimmed
<1> QED BY <1>10, <1>11, <1>12

-----------------------------------------------------------------------------
\* Markup in a text is covered if a call was opened before it and not closed
\* since.
Clean == Tokens \ Markup
Opens(s, o) == s[o] = "<tool" /\ s[o + 1] = "call>"
Covers(s, o, i) == Opens(s, o) /\ \A k \in o + 1 .. i - 1 : s[k] # "/call>"
HasCover(s, i) == \E o \in 1 .. i - 1 : Covers(s, o, i)
Covered(s) == \A i \in 1 .. Len(s) : s[i] \in Markup => HasCover(s, i)

\* What is covered in a text is where another begins with it.
LEMMA CoverJoined ==
    ASSUME NEW u \in Texts, NEW v \in Texts, NEW i \in 1 .. Len(u)
    PROVE  HasCover(u, i) <=> HasCover(u \o v, i)
<1> DEFINE w == u \o v
<1>1. \A k \in 1 .. Len(u) : w[k] = u[k]
  BY Joined DEF Texts
<1>2. Len(u) \in Nat /\ i \in Int /\ i <= Len(u)
  BY DEF Texts
<1> HIDE DEF w
<1>3. ASSUME NEW o \in 1 .. i - 1 PROVE Covers(u, o, i) <=> Covers(w, o, i)
  <2>1. o \in 1 .. Len(u) /\ o + 1 \in 1 .. Len(u)
    BY <1>2
  <2>2. Opens(u, o) <=> Opens(w, o)
    BY <1>1, <2>1 DEF Opens
  <2>3. \A k \in o + 1 .. i - 1 : w[k] = u[k]
    BY <1>1, <1>2, <2>1
  <2> QED BY <2>2, <2>3 DEF Covers
<1>4. HasCover(u, i) <=> HasCover(w, i)
  BY <1>3 DEF HasCover
<1> QED BY <1>4 DEF w

\* So is the beginning of a covered text.
LEMMA CoveredBegin ==
    ASSUME NEW u \in Texts, NEW v \in Texts, Covered(u \o v)
    PROVE  Covered(u)
<1>1. /\ Len(u) \in Nat /\ Len(v) \in Nat /\ Len(u \o v) = Len(u) + Len(v)
      /\ \A k \in 1 .. Len(u) : (u \o v)[k] = u[k]
  BY Joined DEF Texts
<1> SUFFICES ASSUME NEW i \in 1 .. Len(u), u[i] \in Markup PROVE HasCover(u, i)
  BY DEF Covered
<1>2. i \in 1 .. Len(u \o v) /\ (u \o v)[i] \in Markup
  BY <1>1
<1>3. HasCover(u \o v, i)
  BY <1>2 DEF Covered
<1> QED BY <1>3, CoverJoined

\* What is covered in a text is where the text stands after another.
LEMMA CoverShifted ==
    ASSUME NEW u \in Texts, NEW v \in Texts, NEW i \in 1 .. Len(v), NEW o \in 1 .. i - 1
    PROVE  Covers(v, o, i) <=> Covers(u \o v, Len(u) + o, Len(u) + i)
<1> DEFINE w == u \o v
           m == Len(u)
<1>1. m \in Nat /\ Len(v) \in Nat /\ i \in Int /\ i <= Len(v) /\ \A k \in 1 .. Len(v) : w[m + k] = v[k]
  BY Joined DEF Texts
<1> HIDE DEF w, m
<1>2. o \in 1 .. Len(v) /\ o + 1 \in 1 .. Len(v) /\ m + o + 1 = m + (o + 1)
  BY <1>1
<1>3. Opens(v, o) <=> Opens(w, m + o)
  BY <1>1, <1>2 DEF Opens
<1>4. ASSUME \A k \in o + 1 .. i - 1 : v[k] # "/call>", NEW k \in m + o + 1 .. m + i - 1
      PROVE  w[k] # "/call>"
  <2>1. k - m \in o + 1 .. i - 1 /\ k - m \in 1 .. Len(v) /\ k = m + (k - m)
    BY <1>1
  <2> QED BY <1>1, <1>4, <2>1
<1>5. ASSUME \A k \in m + o + 1 .. m + i - 1 : w[k] # "/call>", NEW k \in o + 1 .. i - 1
      PROVE  v[k] # "/call>"
  <2>1. m + k \in m + o + 1 .. m + i - 1 /\ k \in 1 .. Len(v)
    BY <1>1
  <2> QED BY <1>1, <1>5, <2>1
<1> DEFINE OpenIn == \A k \in o + 1 .. i - 1 : v[k] # "/call>"
           OpenThere == \A k \in m + o + 1 .. m + i - 1 : w[k] # "/call>"
<1>a. OpenIn <=> OpenThere
  BY <1>4, <1>5
<1>b. Covers(v, o, i) <=> Opens(v, o) /\ OpenIn
  BY DEF Covers
<1>c. Covers(w, m + o, m + i) <=> Opens(w, m + o) /\ OpenThere
  <2>1. \A p, q : Covers(w, p, q) <=> Opens(w, p) /\ \A k \in p + 1 .. q - 1 : w[k] # "/call>"
    BY DEF Covers
  <2>2. (m + i) - 1 = m + i - 1
    BY <1>1
  <2> QED BY <2>1, <2>2
<1> HIDE DEF OpenIn, OpenThere
<1>6. Covers(v, o, i) <=> Covers(w, m + o, m + i)
  BY <1>3, <1>a, <1>b, <1>c
<1> QED BY <1>6 DEF w, m

\* Two covered texts make one.
LEMMA CoveredJoined ==
    ASSUME NEW u \in Texts, NEW v \in Texts, Covered(u), Covered(v)
    PROVE  Covered(u \o v)
<1> DEFINE w == u \o v
<1>1. /\ Len(u) \in Nat /\ Len(v) \in Nat /\ Len(w) = Len(u) + Len(v)
      /\ \A k \in 1 .. Len(u) : w[k] = u[k]
      /\ \A k \in 1 .. Len(v) : w[Len(u) + k] = v[k]
  BY Joined DEF Texts
<1> SUFFICES ASSUME NEW i \in 1 .. Len(w), w[i] \in Markup PROVE HasCover(w, i)
  BY DEF Covered
<1>2. CASE i <= Len(u)
  <2>1. i \in 1 .. Len(u)
    BY <1>1, <1>2
  <2>2. HasCover(u, i)
    BY <1>1, <2>1 DEF Covered
  <2> QED BY <2>1, <2>2, CoverJoined
<1>3. CASE ~(i <= Len(u))
  <2>1. i - Len(u) \in 1 .. Len(v) /\ i = Len(u) + (i - Len(u))
    BY <1>1, <1>3
  <2>2. v[i - Len(u)] \in Markup
    BY <1>1, <2>1
  <2>3. HasCover(v, i - Len(u))
    BY <2>1, <2>2 DEF Covered
  <2>4. PICK o \in 1 .. i - Len(u) - 1 : Covers(v, o, i - Len(u))
    BY <2>3 DEF HasCover
  <2>5. Covers(w, Len(u) + o, Len(u) + (i - Len(u)))
    BY <2>1, <2>4, CoverShifted
  <2>6. Len(u) + o \in 1 .. i - 1
    BY <1>1, <2>4
  <2> QED BY <2>1, <2>5, <2>6 DEF HasCover
<1> QED BY <1>2, <1>3

\* The rest of a covered text is covered, if every call opened before it is
\* closed before it.
LEMMA CoveredRest ==
    ASSUME NEW u \in Texts, NEW v \in Texts, Covered(u \o v),
           \A o \in 1 .. Len(u) : \/ ~Opens(u \o v, o)
                                  \/ o # Len(u) /\ u[Len(u)] = "/call>"
    PROVE  Covered(v)
<1> DEFINE w == u \o v
<1>1. /\ Len(u) \in Nat /\ Len(v) \in Nat /\ Len(w) = Len(u) + Len(v)
      /\ \A k \in 1 .. Len(u) : w[k] = u[k]
      /\ \A k \in 1 .. Len(v) : w[Len(u) + k] = v[k]
  BY Joined DEF Texts
<1> SUFFICES ASSUME NEW i \in 1 .. Len(v), v[i] \in Markup PROVE HasCover(v, i)
  BY DEF Covered
<1>2. Len(u) + i \in 1 .. Len(w) /\ w[Len(u) + i] \in Markup
  BY <1>1
<1>3. HasCover(w, Len(u) + i)
  BY <1>2 DEF Covered
<1>4. PICK o \in 1 .. Len(u) + i - 1 : Covers(w, o, Len(u) + i)
  BY <1>3 DEF HasCover
<1>5. ~(o <= Len(u))
  <2> SUFFICES ASSUME o <= Len(u) PROVE FALSE
    OBVIOUS
  <2>1. o \in 1 .. Len(u) /\ Opens(w, o)
    BY <1>1, <1>4 DEF Covers
  <2>2. o # Len(u) /\ u[Len(u)] = "/call>"
    BY <2>1
  <2>3. Len(u) \in o + 1 .. Len(u) + i - 1 /\ Len(u) \in 1 .. Len(u)
    BY <1>1, <2>1, <2>2
  <2>4. w[Len(u)] # "/call>"
    BY <1>4, <2>3 DEF Covers
  <2> QED BY <1>1, <2>2, <2>3, <2>4
<1>6. o - Len(u) \in 1 .. i - 1 /\ o = Len(u) + (o - Len(u))
  BY <1>1, <1>4, <1>5
<1>7. Covers(v, o - Len(u), i)
  BY <1>4, <1>6, CoverShifted
<1> QED BY <1>6, <1>7 DEF HasCover

\* Without an opening, covered and free of markup are the same.
LEMMA CoveredClean ==
    ASSUME NEW S \in SUBSET Tokens, NEW u \in Seq(S), Covered(u),
           \A i \in 1 .. Len(u) - 1 : ~Opens(u, i)
    PROVE  u \in Seq(S \cap Clean)
<1>1. Len(u) \in Nat /\ \A i \in 1 .. Len(u) : u[i] \in S /\ u[i] \in Tokens
  OBVIOUS
<1>2. ASSUME NEW i \in 1 .. Len(u) PROVE u[i] \notin Markup
  <2> SUFFICES ASSUME u[i] \in Markup PROVE FALSE
    OBVIOUS
  <2>1. PICK o \in 1 .. i - 1 : Covers(u, o, i)
    BY DEF Covered, HasCover
  <2>2. o \in 1 .. Len(u) - 1
    BY <1>1, <2>1
  <2> QED BY <2>1, <2>2 DEF Covers
<1>3. \A i \in 1 .. Len(u) : u[i] \in S \cap Clean
  BY <1>1, <1>2 DEF Clean
<1> QED BY <1>3

\* A text free of markup has no call to cover.
LEMMA CleanCovered ==
    ASSUME NEW u \in Seq(Clean)
    PROVE  u \in Texts /\ Covered(u)
<1>1. \A i \in 1 .. Len(u) : u[i] \in Clean /\ u[i] \in Tokens /\ u[i] \notin Markup
  BY DEF Clean
<1>2. u \in Texts
  BY <1>1 DEF Texts
<1> QED BY <1>1, <1>2 DEF Covered

-----------------------------------------------------------------------------
\* The rest of a rest is a rest.
LEMMA RestOfRest ==
    ASSUME NEW S, NEW s \in Seq(S), NEW i \in 1 .. Len(s) + 1, NEW k \in 1 .. Len(s) - i + 2
    PROVE  From(From(s, i), k) = From(s, i + k - 1)
<1> DEFINE t == From(s, i)
           u == From(t, k)
           v == From(s, i + k - 1)
<1>1. Len(s) \in Nat /\ i \in Nat /\ k \in Nat /\ i + k - 1 \in 1 .. Len(s) + 1
  OBVIOUS
<1>2. t \in Seq(S) /\ Len(t) = Len(s) - i + 1 /\ \A j \in 1 .. Len(s) - i + 1 : t[j] = s[i + j - 1]
  BY Parts
<1>3. k \in 1 .. Len(t) + 1
  BY <1>1, <1>2
<1> HIDE DEF t
<1>4. u \in Seq(S) /\ Len(u) = Len(t) - k + 1 /\ \A j \in 1 .. Len(t) - k + 1 : u[j] = t[k + j - 1]
  BY <1>2, <1>3, Parts
<1>5. /\ v \in Seq(S) /\ Len(v) = Len(s) - (i + k - 1) + 1
      /\ \A j \in 1 .. Len(s) - (i + k - 1) + 1 : v[j] = s[i + k - 1 + j - 1]
  BY <1>1, Parts
<1> HIDE DEF u, v
<1>6. Len(u) = Len(v)
  BY <1>1, <1>2, <1>4, <1>5
<1>7. ASSUME NEW j \in 1 .. Len(u) PROVE u[j] = v[j]
  <2>1. k + j - 1 \in 1 .. Len(s) - i + 1 /\ i + (k + j - 1) - 1 = i + k - 1 + j - 1
    BY <1>1, <1>2, <1>4
  <2>2. u[j] = t[k + j - 1]
    BY <1>4
  <2>3. t[k + j - 1] = s[i + (k + j - 1) - 1]
    BY <1>2, <2>1
  <2>4. v[j] = s[i + k - 1 + j - 1]
    BY <1>1, <1>2, <1>4, <1>5, <1>6
  <2> QED BY <2>1, <2>2, <2>3, <2>4
<1>8. u = v
  BY <1>4, <1>5, <1>6, <1>7, SeqEqual
<1> QED BY <1>8 DEF u, v, t

\* The first call of a text, and where it ends.
FirstCall(s, open, close) ==
    /\ open \in 0 .. Len(s)
    /\ open = 0 => \A i \in 1 .. Len(s) - 1 : ~Opens(s, i)
    /\ open # 0 => /\ open + 1 <= Len(s) /\ Opens(s, open)
                   /\ \A i \in 1 .. open - 1 : ~Opens(s, i)
                   /\ close \in 0 .. Len(s) - open + 1
                   /\ close = 0 => \A k \in open .. Len(s) : s[k] # "/call>"
                   /\ close # 0 => /\ s[open + close - 1] = "/call>"
                                   /\ \A k \in open .. open + close - 2 : s[k] # "/call>"
\* What the filters find is the first call and the first end after it.
LEMMA CallFound ==
    ASSUME NEW s \in Texts
    PROVE  FirstCall(s, Find(s, CallOpen), Find(From(s, Find(s, CallOpen)), CallClose))
<1> DEFINE open == Find(s, CallOpen)
           rest == From(s, open)
           close == Find(rest, CallClose)
<1>1. "<tool" \in Tokens /\ "call>" \in Tokens /\ "/call>" \in Tokens
  BY DEF Tokens
<1>2. s \in Seq(Tokens) /\ Len(s) \in Nat
  BY DEF Texts
<1>3. /\ open \in 0 .. Len(s)
      /\ open = 0 => \A i \in 1 .. Len(s) - 1 : ~Opens(s, i)
      /\ open # 0 => /\ open + 1 <= Len(s) /\ Opens(s, open)
                     /\ \A i \in 1 .. open - 1 : ~Opens(s, i)
  BY <1>1, <1>2, FoundTag DEF CallOpen, Opens
<1>4. ASSUME open # 0
      PROVE  /\ close \in 0 .. Len(s) - open + 1
             /\ close = 0 => \A k \in open .. Len(s) : s[k] # "/call>"
             /\ close # 0 => /\ s[open + close - 1] = "/call>"
                             /\ \A k \in open .. open + close - 2 : s[k] # "/call>"
  <2>1. open \in 1 .. Len(s) + 1
    BY <1>2, <1>3, <1>4
  <2> HIDE DEF open
  <2>2. /\ rest \in Seq(Tokens) /\ Len(rest) = Len(s) - open + 1
        /\ \A k \in 1 .. Len(s) - open + 1 : rest[k] = s[open + k - 1]
    BY <1>2, <2>1, Parts
  <2> HIDE DEF rest
  <2>3. /\ close \in 0 .. Len(rest)
        /\ close = 0 => \A i \in 1 .. Len(rest) : rest[i] # "/call>"
        /\ close # 0 => rest[close] = "/call>" /\ \A i \in 1 .. close - 1 : rest[i] # "/call>"
    BY <1>1, <2>2, FoundToken DEF CallClose
  <2> HIDE DEF close
  <2>4. ASSUME NEW k \in open .. Len(s)
        PROVE  k - open + 1 \in 1 .. Len(s) - open + 1 /\ rest[k - open + 1] = s[k]
    <3>1. k - open + 1 \in 1 .. Len(s) - open + 1 /\ open + (k - open + 1) - 1 = k
      BY <1>2, <2>1
    <3> QED BY <2>2, <3>1
  <2>5. close = 0 => \A k \in open .. Len(s) : s[k] # "/call>"
    BY <2>2, <2>3, <2>4
  <2>6. ASSUME close # 0
        PROVE  /\ s[open + close - 1] = "/call>"
               /\ \A k \in open .. open + close - 2 : s[k] # "/call>"
    <3>1. s[open + close - 1] = "/call>"
      BY <2>2, <2>3, <2>6
    <3>2. ASSUME NEW k \in open .. open + close - 2 PROVE s[k] # "/call>"
      <4>1. k \in open .. Len(s) /\ k - open + 1 \in 1 .. close - 1
        BY <1>2, <2>1, <2>2, <2>3
      <4> QED BY <2>3, <2>4, <2>6, <4>1
    <3> QED BY <3>1, <3>2
  <2> QED BY <2>2, <2>3, <2>5, <2>6
<1> HIDE DEF open, close
<1>5. FirstCall(s, open, close)
  BY <1>3, <1>4 DEF FirstCall
<1> QED BY <1>5 DEF open, close, rest

\* Calls gives numbers.
LEMMA CallsTyped ==
    ASSUME NEW m \in Texts
    PROVE  Calls(m) \in SUBSET Nat
<1> DEFINE f == Find(m, <<Function>>)
           body == From(m, f + 1)
           end == Find(body, <<FunctionEnd>>)
           value == IF end = 0 THEN body ELSE Before(body, end)
           counted == {i \in DOMAIN value : value[i] = "v"}
<1>0. m \in Seq(Tokens) /\ Len(m) \in Nat
  BY DEF Texts
<1>1. Function \in Tokens /\ FunctionEnd \in Tokens
  BY DEF Tokens
<1>2. f \in 0 .. Len(m)
  BY <1>0, <1>1, FoundToken
<1>3. body \in Seq(Tokens)
  <2>1. f + 1 \in 1 .. Len(m) + 1
    BY <1>0, <1>2
  <2> HIDE DEF f
  <2> QED BY <1>0, <2>1, Parts
<1>4. end \in 0 .. Len(body)
  <2> HIDE DEF body
  <2> QED BY <1>1, <1>3, FoundToken
<1>5. value \in Seq(Tokens)
  <2> HIDE DEF body, end
  <2>1. end # 0 => Before(body, end) \in Seq(Tokens)
    <3>1. end # 0 => end \in 1 .. Len(body) + 1
      BY <1>3, <1>4
    <3> QED BY <1>3, <3>1, Parts
  <2> QED BY <1>3, <2>1
<1>6. Calls(m) = IF f = 0 THEN {} ELSE {Cardinality(counted)}
  BY DEF Calls
<1> HIDE DEF value
<1>7. DOMAIN value = 1 .. Len(value) /\ Len(value) \in Nat
  BY <1>5
<1>8. counted \in SUBSET (1 .. Len(value))
  BY <1>7
<1> HIDE DEF counted
<1>a. IsFiniteSet(1 .. Len(value))
  BY <1>7, FS_Interval
<1>9. IsFiniteSet(counted)
  BY <1>8, <1>a, FS_Subset
<1>10. Cardinality(counted) \in Nat
  BY <1>9, FS_CardinalityType
<1> QED BY <1>6, <1>10

\* A call that is whole is taken out: what is before it stays, what is after it
\* follows, and its length is gone.
LEMMA CallTakenOut ==
    ASSUME NEW S \in SUBSET Tokens, NEW s \in Seq(S),
           NEW open \in 1 .. Len(s), NEW close \in 1 .. Len(s) - open + 1
    PROVE  /\ open + close \in 1 .. Len(s) + 1
           /\ From(From(s, open), close + 1) = From(s, open + close)
           /\ Before(s, open) \in Seq(S) /\ From(s, open) \in Seq(S)
           /\ From(s, open + close) \in Seq(S)
           /\ Before(s, open) \in Texts /\ From(s, open) \in Texts
           /\ From(s, open + close) \in Texts
           /\ SubSeq(From(s, open), 1, close) \in Texts
           /\ Len(From(s, open + close)) < Len(s)
           /\ Len(Before(s, open) \o From(s, open + close)) < Len(s)
<1>1. Len(s) \in Nat /\ open \in 1 .. Len(s) + 1 /\ open + close \in 1 .. Len(s) + 1
  OBVIOUS
<1>2. /\ Before(s, open) \in Seq(S) /\ Len(Before(s, open)) = open - 1
      /\ From(s, open) \in Seq(S) /\ Len(From(s, open)) = Len(s) - open + 1
  BY <1>1, Parts
<1>3. From(s, open + close) \in Seq(S) /\ Len(From(s, open + close)) = Len(s) - (open + close) + 1
  BY <1>1, Parts
<1>4. close + 1 \in 1 .. Len(s) - open + 2
  BY <1>1
<1>5. From(From(s, open), close + 1) = From(s, open + (close + 1) - 1)
  BY <1>1, <1>4, RestOfRest
<1>6. open + (close + 1) - 1 = open + close
  BY <1>1
<1>7. \A t \in Seq(S) : t \in Texts
  BY DEF Texts
<1>8. SubSeq(From(s, open), 1, close) \in Seq(S)
  BY <1>1, <1>2
<1>9. Len(From(s, open + close)) < Len(s)
  BY <1>1, <1>3
<1>10. Len(Before(s, open) \o From(s, open + close)) < Len(s)
  BY <1>1, <1>2, <1>3
<1> QED BY <1>1, <1>2, <1>3, <1>5, <1>6, <1>7, <1>8, <1>9, <1>10

-----------------------------------------------------------------------------
\* Before the first opening of a covered text there is no markup.
LEMMA CleanBefore ==
    ASSUME NEW S \in SUBSET Tokens, NEW s \in Seq(S), NEW f \in Texts, Covered(s \o f),
           NEW cut \in 1 .. Len(s) + 1, \A i \in 1 .. cut - 1 : i < Len(s) => ~Opens(s, i)
    PROVE  Before(s, cut) \in Seq(S \cap Clean)
<1> DEFINE u == Before(s, cut)
           v == From(s, cut)
<1>0. Len(s) \in Nat
  OBVIOUS
<1>1. /\ u \in Seq(S) /\ Len(u) = cut - 1 /\ v \in Seq(S) /\ s = u \o v
      /\ \A k \in 1 .. cut - 1 : u[k] = s[k]
  BY Parts
<1>2. u \in Texts /\ v \in Texts /\ v \o f \in Texts
  BY <1>1 DEF Texts
<1> HIDE DEF u, v
<1>3. s \o f = u \o (v \o f)
  BY <1>1, <1>2 DEF Texts
<1>4. Covered(u)
  BY <1>2, <1>3, CoveredBegin
<1>5. ASSUME NEW i \in 1 .. Len(u) - 1 PROVE ~Opens(u, i)
  <2>1. i \in 1 .. cut - 1 /\ i + 1 \in 1 .. cut - 1 /\ i < Len(s)
    BY <1>0, <1>1
  <2>2. ~Opens(s, i) /\ u[i] = s[i] /\ u[i + 1] = s[i + 1]
    BY <1>1, <2>1
  <2> QED BY <2>2 DEF Opens
<1>6. u \in Seq(S \cap Clean)
  BY <1>1, <1>4, <1>5, CoveredClean
<1> QED BY <1>6 DEF u

\* What is left of a covered text is covered, if no call is open there.
LEMMA CoveredAfter ==
    ASSUME NEW s \in Texts, NEW f \in Texts, Covered(s \o f), NEW cut \in 1 .. Len(s) + 1,
           \A i \in 1 .. cut - 1 : ~Opens(s \o f, i) \/ (i # cut - 1 /\ s[cut - 1] = "/call>")
    PROVE  Covered(From(s, cut) \o f)
<1> DEFINE u == Before(s, cut)
           v == From(s, cut)
<1>1. /\ u \in Seq(Tokens) /\ Len(u) = cut - 1 /\ v \in Seq(Tokens) /\ s = u \o v
      /\ \A k \in 1 .. cut - 1 : u[k] = s[k]
  BY Parts DEF Texts
<1>2. u \in Texts /\ v \in Texts /\ v \o f \in Texts
  BY <1>1 DEF Texts
<1> HIDE DEF u, v
<1>3. s \o f = u \o (v \o f)
  BY <1>1, <1>2 DEF Texts
<1>4. ASSUME NEW o \in 1 .. Len(u)
      PROVE  ~Opens(u \o (v \o f), o) \/ (o # Len(u) /\ u[Len(u)] = "/call>")
  <2>1. o \in 1 .. cut - 1 /\ cut - 1 \in 1 .. cut - 1
    BY <1>1
  <2> QED BY <1>1, <1>3, <2>1
<1>5. Covered(v \o f)
  BY <1>2, <1>3, <1>4, CoveredRest
<1> QED BY <1>5 DEF v

\* A whole call is taken out of the text that the filter reads.
TakenOut(x, open, close) ==
    [rest |-> From(x.rest, open + close), safe |-> x.safe \o Before(x.rest, open),
     calls |-> x.calls \cup Calls(SubSeq(From(x.rest, open), 1, close))]
\* A round of the filter's loop takes the first whole call out, or stops because there
\* is none; the rest gets shorter.
LEMMA FilterStep ==
    ASSUME NEW x \in FilterStates
    PROVE  \E open, close :
             /\ FirstCall(x.rest, open, close) /\ open = Find(x.rest, CallOpen)
             /\ open = 0 \/ close = 0 => FilterBlock(x) = x
             /\ open # 0 /\ close # 0 => /\ open \in 1 .. Len(x.rest)
                                         /\ close \in 1 .. Len(x.rest) - open + 1
                                         /\ FilterBlock(x) = TakenOut(x, open, close)
                                         /\ FilterBlock(x) \in FilterStates
                                         /\ Len(FilterBlock(x).rest) < Len(x.rest)
<1> DEFINE open == Find(x.rest, CallOpen)
           close == Find(From(x.rest, open), CallClose)
<1>1. x.rest \in Texts /\ x.safe \in Texts /\ x.calls \in SUBSET Nat
  BY DEF FilterStates
<1>2. FirstCall(x.rest, open, close)
  BY <1>1, CallFound
<1>3. open = 0 \/ close = 0 => FilterBlock(x) = x
  BY DEF FilterBlock
<1>4. open # 0 /\ close # 0 =>
        FilterBlock(x) = [rest |-> From(From(x.rest, open), close + 1),
                          safe |-> x.safe \o Before(x.rest, open),
                          calls |-> x.calls \cup Calls(SubSeq(From(x.rest, open), 1, close))]
  BY DEF FilterBlock
<1> HIDE DEF open, close
<1>5. ASSUME open # 0, close # 0
      PROVE  /\ open \in 1 .. Len(x.rest) /\ close \in 1 .. Len(x.rest) - open + 1
             /\ FilterBlock(x) = TakenOut(x, open, close)
             /\ FilterBlock(x) \in FilterStates
             /\ Len(FilterBlock(x).rest) < Len(x.rest)
  <2>1. x.rest \in Seq(Tokens) /\ Len(x.rest) \in Nat /\ Tokens \in SUBSET Tokens
    BY <1>1 DEF Texts
  <2>2. open \in 1 .. Len(x.rest) /\ close \in 1 .. Len(x.rest) - open + 1
    BY <1>2, <1>5, <2>1 DEF FirstCall
  <2>3. /\ From(From(x.rest, open), close + 1) = From(x.rest, open + close)
        /\ Before(x.rest, open) \in Texts /\ From(x.rest, open + close) \in Texts
        /\ SubSeq(From(x.rest, open), 1, close) \in Texts
        /\ Len(From(x.rest, open + close)) < Len(x.rest)
    BY <2>1, <2>2, CallTakenOut
  <2>4. FilterBlock(x) = TakenOut(x, open, close)
    BY <1>4, <1>5, <2>3 DEF TakenOut
  <2>5. Calls(SubSeq(From(x.rest, open), 1, close)) \in SUBSET Nat
    BY <2>3, CallsTyped
  <2>6. x.safe \o Before(x.rest, open) \in Texts
    BY <1>1, <2>3 DEF Texts
  <2>7. TakenOut(x, open, close) \in FilterStates
    BY <1>1, <2>3, <2>5, <2>6 DEF TakenOut, FilterStates
  <2> QED BY <2>2, <2>3, <2>4, <2>7 DEF TakenOut
<1> QED BY <1>2, <1>3, <1>5 DEF open

\* The filter has taken every whole call out, and what it lets through so far is
\* free of markup.
Filtering(x, S, f) ==
    /\ x \in FilterStates /\ x.rest \in Seq(S) /\ x.safe \in Seq(S \cap Clean)
    /\ Covered(x.rest \o f)
\* The loop of the filter ends, and what it has let through by then is free of markup.
LEMMA FilterSettled ==
    ASSUME NEW S \in SUBSET Tokens, NEW s \in Seq(S), NEW f \in Texts, Covered(s \o f)
    PROVE  /\ Filtering(FilterBlocks(s), S, f)
           /\ FilterBlock(FilterBlocks(s)) = FilterBlocks(s)
<1> DEFINE step == [x \in FilterStates |-> FilterBlock(x)]
           start == [rest |-> s, safe |-> <<>>, calls |-> {}]
           size == [x \in FilterStates |-> Len(x.rest)]
           I == {x \in FilterStates : Filtering(x, S, f)}
<1>1. /\ step \in [FilterStates -> FilterStates] /\ size \in [FilterStates -> Nat]
      /\ \A x \in FilterStates : step[x] = x \/ size[step[x]] < size[x]
  <2>1. ASSUME NEW x \in FilterStates
        PROVE  /\ FilterBlock(x) \in FilterStates /\ Len(x.rest) \in Nat
               /\ FilterBlock(x) = x \/ Len(FilterBlock(x).rest) < Len(x.rest)
    <3>1. Len(x.rest) \in Nat
      BY DEF FilterStates, Texts
    <3> QED BY <3>1, FilterStep
  <2> QED BY <2>1
<1>2. ASSUME NEW x \in I PROVE step[x] \in I
  <2>0. Filtering(x, S, f) /\ x \in FilterStates
    OBVIOUS
  <2>1. /\ x.rest \in Seq(S) /\ x.safe \in Seq(S \cap Clean) /\ Covered(x.rest \o f)
        /\ x.rest \in Texts
    BY <2>0 DEF Filtering, FilterStates
  <2>2. PICK open, close :
             /\ FirstCall(x.rest, open, close)
             /\ open = 0 \/ close = 0 => FilterBlock(x) = x
             /\ open # 0 /\ close # 0 => /\ open \in 1 .. Len(x.rest)
                                         /\ close \in 1 .. Len(x.rest) - open + 1
                                         /\ FilterBlock(x) = TakenOut(x, open, close)
                                         /\ FilterBlock(x) \in FilterStates
    BY <2>0, FilterStep
  <2>3. CASE open = 0 \/ close = 0
    BY <2>0, <2>2, <2>3
  <2>4. CASE open # 0 /\ close # 0
    <3> DEFINE rest == x.rest
    <3>1. /\ open \in 1 .. Len(rest) /\ open \in 1 .. Len(rest) + 1
          /\ close \in 1 .. Len(rest) - open + 1
          /\ open + close \in 1 .. Len(rest) + 1 /\ Len(rest) \in Nat
      BY <2>1, <2>2, <2>4
    <3>2. /\ rest[open + close - 1] = "/call>"
          /\ \A i \in 1 .. open - 1 : ~Opens(rest, i)
      BY <2>2, <2>4 DEF FirstCall
    <3> HIDE DEF rest
    <3>3. Before(rest, open) \in Seq(S \cap Clean)
      BY <2>1, <3>1, <3>2, CleanBefore DEF rest
    <3>4. ASSUME NEW i \in 1 .. open + close - 1
          PROVE  ~Opens(rest \o f, i) \/ (i # open + close - 1 /\ rest[open + close - 1] = "/call>")
      <4>1. i \in 1 .. Len(rest)
        BY <3>1
      <4>2. (rest \o f)[i] = rest[i]
        BY <2>1, <4>1, Joined DEF rest, Texts
      <4> QED BY <3>2, <4>2 DEF Opens
    <3>5. Covered(From(rest, open + close) \o f)
      BY <2>1, <3>1, <3>4, CoveredAfter DEF rest
    <3>6. From(rest, open + close) \in Seq(S)
      BY <2>1, <3>1, Parts DEF rest
    <3>a. FilterBlock(x) = TakenOut(x, open, close)
      BY <2>2, <2>4
    <3>7. /\ FilterBlock(x).rest = From(rest, open + close)
          /\ FilterBlock(x).safe = x.safe \o Before(rest, open)
      <4>1. /\ TakenOut(x, open, close).rest = From(x.rest, open + close)
            /\ TakenOut(x, open, close).safe = x.safe \o Before(x.rest, open)
        BY DEF TakenOut
      <4> QED BY <3>a, <4>1 DEF rest
    <3>8. x.safe \o Before(rest, open) \in Seq(S \cap Clean)
      BY <2>1, <3>3
    <3>9. Filtering(FilterBlock(x), S, f)
      BY <2>2, <2>4, <3>5, <3>6, <3>7, <3>8 DEF Filtering
    <3> QED BY <2>0, <2>2, <2>4, <3>9
  <2> QED BY <2>3, <2>4
<1>3. s \in Texts /\ Len(s) \in Nat
  BY DEF Texts
<1>4. start \in FilterStates
  BY <1>3 DEF FilterStates, Texts
<1>5. start \in I /\ size[start] <= Len(s)
  <2>1. size[start] = Len(s)
    BY <1>4
  <2>2. <<>> \in Seq(S \cap Clean) /\ start.rest = s /\ start.safe = <<>>
    OBVIOUS
  <2>3. Filtering(start, S, f)
    BY <1>4, <2>2 DEF Filtering
  <2> QED BY <1>3, <1>4, <2>1, <2>3
<1>6. I \in SUBSET FilterStates
  OBVIOUS
<1>7. FilterBlocks(s) = Repeated(step, start, Len(s))
  BY DEF FilterBlocks
<1>8. /\ Repeated(step, start, Len(s)) \in I
      /\ step[Repeated(step, start, Len(s))] = Repeated(step, start, Len(s))
  <2>1. \A x \in I : step[x] \in I /\ (step[x] = x \/ size[step[x]] < size[x])
    BY <1>1, <1>2, <1>6
  <2> HIDE DEF step, start, size, I
  <2>2. Shrinks(FilterStates, I, step, size, start, Len(s))
    BY <1>1, <1>3, <1>5, <1>6, <2>1 DEF Shrinks
  <2> QED BY <2>2, RepeatedSettles
<1> QED BY <1>6, <1>7, <1>8

\* ToolCallStreamFilter lets no markup through; what it holds back covers the
\* markup that is still to come.
LEMMA Filtered ==
    ASSUME NEW S \in SUBSET Tokens, NEW s \in Seq(S), NEW f \in Texts, Covered(s \o f)
    PROVE  /\ Filter(s).safe \in Seq(S \cap Clean) /\ Filter(s).hold \in Seq(S)
           /\ Covered(Filter(s).hold \o f) /\ Filter(s).calls \in SUBSET Nat
<1> DEFINE x == FilterBlocks(s)
           rest == x.rest
           open == Find(rest, CallOpen)
           begun == IF open = 0 THEN TrailingPrefix(rest) ELSE open
           cut == IF begun = 0 THEN Len(rest) + 1 ELSE begun
           plain == IF begun = 0 THEN rest ELSE Before(rest, begun)
           hold == From(rest, Len(plain) + 1)
<1>1. Filtering(x, S, f) /\ FilterBlock(x) = x
  BY FilterSettled
<1>2. /\ x \in FilterStates /\ rest \in Seq(S) /\ x.safe \in Seq(S \cap Clean)
      /\ Covered(rest \o f) /\ x.calls \in SUBSET Nat
  BY <1>1 DEF Filtering, FilterStates
<1>3. /\ Filter(s).safe = Trim(CutPartial(x.safe \o plain)) /\ Filter(s).hold = hold
      /\ Filter(s).calls = x.calls \cup Calls(hold)
  BY DEF Filter, FilterEnd
<1> HIDE DEF x
<1>4. PICK close : FirstCall(rest, open, close) /\ (open = 0 \/ close = 0)
  <2>1. PICK o, close : /\ FirstCall(x.rest, o, close) /\ o = Find(x.rest, CallOpen)
                        /\ o # 0 /\ close # 0 => Len(FilterBlock(x).rest) < Len(x.rest)
    BY <1>2, FilterStep
  <2>2. Len(x.rest) \in Nat
    BY <1>2
  <2>3. o = 0 \/ close = 0
    BY <1>1, <2>1, <2>2
  <2> QED BY <2>1, <2>3
<1> HIDE DEF rest
<1>5. Len(rest) \in Nat /\ rest \in Texts
  BY <1>2 DEF Texts
<1>6. ASSUME open = 0
      PROVE  /\ begun \in 0 .. Len(rest) /\ (begun # 0 => rest[begun] = "<tool")
             /\ \A i \in 1 .. Len(rest) : i > begun => rest[i] # "<tool"
  <2> DEFINE at == {i \in 1 .. Len(rest) : rest[i] = "<tool"}
  <2>0. begun = IF at = {} THEN 0 ELSE CHOOSE i \in at : \A j \in at : j <= i
    BY <1>6 DEF TrailingPrefix
  <2>1. CASE at = {}
    BY <1>5, <2>0, <2>1
  <2>2. CASE at # {}
    <3>1. at \in SUBSET (0 .. Len(rest)) /\ at \in SUBSET (1 .. Len(rest))
      BY <1>5
    <3>2. Max(at) \in at /\ \A j \in at : j <= Max(at)
      <4> HIDE DEF at
      <4> QED BY <1>5, <2>2, <3>1, MaxIsGreatest
    <3>3. begun \in at /\ \A j \in at : j <= begun
      <4> HIDE DEF at, begun
      <4> QED BY <2>0, <2>2, <3>2
    <3>4. ASSUME NEW i \in 1 .. Len(rest), i > begun PROVE rest[i] # "<tool"
      <4>1. ~(i <= begun)
        BY <1>5, <3>1, <3>3, <3>4
      <4> QED BY <3>3, <4>1
    <3> HIDE DEF begun
    <3> QED BY <1>5, <3>1, <3>3, <3>4
  <2> QED BY <2>1, <2>2
<1>7. ASSUME open # 0 PROVE begun = open /\ open \in 1 .. Len(rest) /\ \A i \in 1 .. open - 1 : ~Opens(rest, i)
  BY <1>4, <1>7 DEF FirstCall
<1>8. open = 0 => \A i \in 1 .. Len(rest) - 1 : ~Opens(rest, i)
  BY <1>4 DEF FirstCall
<1> HIDE DEF begun, open
<1>9. cut \in 1 .. Len(rest) + 1 /\ plain = Before(rest, cut) /\ hold = From(rest, cut)
  <2>1. CASE begun = 0
    <3>1. cut = Len(rest) + 1 /\ plain = rest
      BY <2>1
    <3>2. /\ Before(rest, cut) \in Seq(S) /\ Len(Before(rest, cut)) = Len(rest)
          /\ \A k \in 1 .. Len(rest) : Before(rest, cut)[k] = rest[k]
      <4>1. Len(rest) + 1 - 1 = Len(rest)
        BY <1>5
      <4>2. PICK m : m = Len(rest) + 1
        OBVIOUS
      <4>3. m \in 1 .. Len(rest) + 1
        BY <1>5, <4>2
      <4>4. /\ Before(rest, m) \in Seq(S) /\ Len(Before(rest, m)) = m - 1
            /\ \A k \in 1 .. m - 1 : Before(rest, m)[k] = rest[k]
        BY <1>2, <4>3, Parts
      <4>5. cut = m /\ m - 1 = Len(rest)
        BY <3>1, <4>1, <4>2
      <4> QED BY <4>4, <4>5
    <3> DEFINE t == Before(rest, cut)
    <3> HIDE DEF t, cut
    <3>3. t = rest
      BY <1>2, <3>2, SeqEqual DEF t
    <3>4. hold = From(rest, Len(plain) + 1)
      OBVIOUS
    <3> QED BY <3>1, <3>3, <3>4 DEF t
  <2>2. CASE begun # 0
    <3>1. begun \in 1 .. Len(rest) + 1 /\ cut = begun /\ plain = Before(rest, begun)
      BY <1>5, <1>6, <1>7, <2>2
    <3>2. Len(Before(rest, begun)) = begun - 1
      BY <1>2, <3>1, Parts
    <3>3. begun - 1 + 1 = begun
      BY <1>5, <3>1
    <3> QED BY <3>1, <3>2, <3>3
  <2> QED BY <2>1, <2>2
<1>10. ASSUME NEW i \in 1 .. cut - 1 PROVE ~Opens(rest \o f, i) /\ (i < Len(rest) => ~Opens(rest, i))
  <2>0. i \in 1 .. Len(rest)
    BY <1>5, <1>9
  <2>1. /\ (rest \o f)[i] = rest[i] /\ (i < Len(rest) => (rest \o f)[i + 1] = rest[i + 1])
    BY <1>5, <2>0, Joined DEF Texts
  <2>2. i < Len(rest) => ~Opens(rest, i)
    <3>1. CASE open = 0
      BY <1>5, <1>8, <2>0, <3>1
    <3>2. CASE open # 0
      <4>1. cut = open /\ open \in 1 .. Len(rest)
        BY <1>7, <3>2
      <4>2. i \in 1 .. open - 1
        BY <4>1
      <4> QED BY <1>7, <3>2, <4>2
    <3> QED BY <3>1, <3>2
  <2>3. i = Len(rest) => rest[i] # "<tool"
    <3> SUFFICES ASSUME i = Len(rest) PROVE rest[i] # "<tool"
      OBVIOUS
    <3>1. begun = 0
      BY <1>5, <1>6, <1>7, <2>0
    <3>2. open = 0
      BY <1>7, <3>1
    <3> QED BY <1>5, <1>6, <2>0, <3>1, <3>2
  <2> QED BY <1>5, <2>0, <2>1, <2>2, <2>3 DEF Opens
<1> HIDE DEF cut, plain, hold
<1>11. plain \in Seq(S \cap Clean)
  BY <1>2, <1>9, <1>10, CleanBefore
<1>12. Covered(hold \o f)
  <2>1. \A i \in 1 .. cut - 1 : ~Opens(rest \o f, i) \/ (i # cut - 1 /\ rest[cut - 1] = "/call>")
    BY <1>10
  <2> QED BY <1>2, <1>5, <1>9, <2>1, CoveredAfter
<1>13. hold \in Seq(S)
  BY <1>2, <1>9, Parts
<1>14. Calls(hold) \in SUBSET Nat
  <2>1. hold \in Texts
    BY <1>13 DEF Texts
  <2> QED BY <2>1, CallsTyped
<1>15. Trim(CutPartial(x.safe \o plain)) \in Seq(S \cap Clean)
  <2>1. S \cap Clean \in SUBSET Tokens /\ x.safe \o plain \in Seq(S \cap Clean)
    BY <1>2, <1>11
  <2>2. CutPartial(x.safe \o plain) \in Seq(S \cap Clean)
    BY <2>1, PartialCut
  <2> QED BY <2>2, Trimmed
<1> QED BY <1>2, <1>3, <1>12, <1>13, <1>14, <1>15

-----------------------------------------------------------------------------
\* StripToolCalls goes the same way through a whole text.
Without(x, open, close) ==
    [text |-> Before(x.text, open) \o From(x.text, open + close),
     calls |-> x.calls \cup Calls(SubSeq(From(x.text, open), 1, close))]
\* A round of StripToolCalls takes the first whole call out, or stops because there is
\* none; the text gets shorter.
LEMMA StripStep ==
    ASSUME NEW x \in BlockStates
    PROVE  \E open, close :
             /\ FirstCall(x.text, open, close) /\ open = Find(x.text, CallOpen)
             /\ open = 0 \/ close = 0 => StripBlock(x) = x
             /\ open # 0 /\ close # 0 => /\ open \in 1 .. Len(x.text)
                                         /\ close \in 1 .. Len(x.text) - open + 1
                                         /\ StripBlock(x) = Without(x, open, close)
                                         /\ StripBlock(x) \in BlockStates
                                         /\ Len(StripBlock(x).text) < Len(x.text)
<1> DEFINE open == Find(x.text, CallOpen)
           close == Find(From(x.text, open), CallClose)
<1>1. x.text \in Texts /\ x.calls \in SUBSET Nat
  BY DEF BlockStates
<1>2. FirstCall(x.text, open, close)
  BY <1>1, CallFound
<1>3. open = 0 \/ close = 0 => StripBlock(x) = x
  BY DEF StripBlock
<1>4. open # 0 /\ close # 0 =>
        StripBlock(x) = [text |-> Before(x.text, open) \o From(From(x.text, open), close + 1),
                         calls |-> x.calls \cup Calls(SubSeq(From(x.text, open), 1, close))]
  BY DEF StripBlock
<1> HIDE DEF open, close
<1>5. ASSUME open # 0, close # 0
      PROVE  /\ open \in 1 .. Len(x.text) /\ close \in 1 .. Len(x.text) - open + 1
             /\ StripBlock(x) = Without(x, open, close)
             /\ StripBlock(x) \in BlockStates
             /\ Len(StripBlock(x).text) < Len(x.text)
  <2>1. x.text \in Seq(Tokens) /\ Len(x.text) \in Nat /\ Tokens \in SUBSET Tokens
    BY <1>1 DEF Texts
  <2>2. open \in 1 .. Len(x.text) /\ close \in 1 .. Len(x.text) - open + 1
    BY <1>2, <1>5, <2>1 DEF FirstCall
  <2>3. /\ From(From(x.text, open), close + 1) = From(x.text, open + close)
        /\ Before(x.text, open) \in Texts /\ From(x.text, open + close) \in Texts
        /\ SubSeq(From(x.text, open), 1, close) \in Texts
        /\ Len(Before(x.text, open) \o From(x.text, open + close)) < Len(x.text)
    BY <2>1, <2>2, CallTakenOut
  <2>4. StripBlock(x) = Without(x, open, close)
    BY <1>4, <1>5, <2>3 DEF Without
  <2>5. Calls(SubSeq(From(x.text, open), 1, close)) \in SUBSET Nat
    BY <2>3, CallsTyped
  <2>6. Before(x.text, open) \o From(x.text, open + close) \in Texts
    BY <2>3 DEF Texts
  <2>7. Without(x, open, close) \in BlockStates
    BY <1>1, <2>5, <2>6 DEF Without, BlockStates
  <2> QED BY <2>2, <2>3, <2>4, <2>7 DEF Without
<1> QED BY <1>2, <1>3, <1>5 DEF open

\* What taking a call out keeps is true of the text without its calls.
KeptWithout(I) ==
    \A x \in I : \A open, close \in Nat :
        /\ FirstCall(x.text, open, close) /\ open \in 1 .. Len(x.text)
        /\ close \in 1 .. Len(x.text) - open + 1
        => Without(x, open, close) \in I
\* The loop of StripToolCalls ends, with what each round keeps still true.
LEMMA StripSettled ==
    ASSUME NEW s \in Texts, NEW I \in SUBSET BlockStates, [text |-> s, calls |-> {}] \in I,
           KeptWithout(I)
    PROVE  WithoutBlocks(s) \in I /\ StripBlock(WithoutBlocks(s)) = WithoutBlocks(s)
<1> DEFINE step == [x \in BlockStates |-> StripBlock(x)]
           start == [text |-> s, calls |-> {}]
           size == [x \in BlockStates |-> Len(x.text)]
<1>1. /\ step \in [BlockStates -> BlockStates] /\ size \in [BlockStates -> Nat]
      /\ \A x \in BlockStates : step[x] = x \/ size[step[x]] < size[x]
  <2>1. ASSUME NEW x \in BlockStates
        PROVE  /\ StripBlock(x) \in BlockStates /\ Len(x.text) \in Nat
               /\ StripBlock(x) = x \/ Len(StripBlock(x).text) < Len(x.text)
    <3>1. Len(x.text) \in Nat
      BY DEF BlockStates, Texts
    <3> QED BY <3>1, StripStep
  <2> QED BY <2>1
<1>2. ASSUME NEW x \in I PROVE step[x] \in I
  <2>1. x \in BlockStates
    OBVIOUS
  <2>2. PICK open, close :
             /\ FirstCall(x.text, open, close)
             /\ open = 0 \/ close = 0 => StripBlock(x) = x
             /\ open # 0 /\ close # 0 => /\ open \in 1 .. Len(x.text)
                                         /\ close \in 1 .. Len(x.text) - open + 1
                                         /\ StripBlock(x) = Without(x, open, close)
    BY <2>1, StripStep
  <2>3. CASE open = 0 \/ close = 0
    BY <2>1, <2>2, <2>3
  <2>4. CASE open # 0 /\ close # 0
    <3>1. open \in Nat /\ close \in Nat
      BY <2>2, <2>4
    <3>2. Without(x, open, close) \in I
      BY <2>2, <2>4, <3>1 DEF KeptWithout
    <3> QED BY <2>1, <2>2, <2>4, <3>2
  <2> QED BY <2>3, <2>4
<1>3. start \in I /\ Len(s) \in Nat /\ size[start] <= Len(s)
  <2>1. Len(s) \in Nat /\ start \in BlockStates
    BY DEF Texts
  <2>2. size[start] = Len(s)
    BY <2>1
  <2> QED BY <2>1, <2>2
<1>4. WithoutBlocks(s) = Repeated(step, start, Len(s))
  BY DEF WithoutBlocks
<1>5. /\ Repeated(step, start, Len(s)) \in I
      /\ step[Repeated(step, start, Len(s))] = Repeated(step, start, Len(s))
  <2>1. \A x \in I : step[x] \in I /\ (step[x] = x \/ size[step[x]] < size[x])
    BY <1>1, <1>2
  <2> HIDE DEF step, start, size
  <2>2. Shrinks(BlockStates, I, step, size, start, Len(s))
    BY <1>1, <1>3, <2>1 DEF Shrinks
  <2> QED BY <2>2, RepeatedSettles
<1>6. \A x \in I : step[x] = StripBlock(x)
  OBVIOUS
<1> HIDE DEF step
<1> QED BY <1>4, <1>5, <1>6

-----------------------------------------------------------------------------
\* A covered text stays covered when its first call is taken out.
LEMMA CoveredWithout ==
    ASSUME NEW s \in Texts, Covered(s), NEW open \in 1 .. Len(s),
           NEW close \in 1 .. Len(s) - open + 1, FirstCall(s, open, close)
    PROVE  Covered(Before(s, open) \o From(s, open + close))
<1>1. s \in Seq(Tokens) /\ Len(s) \in Nat /\ s \o <<>> = s /\ <<>> \in Texts
  BY DEF Texts
<1>2. Tokens \in SUBSET Tokens /\ Tokens \cap Clean = Clean
  BY DEF Clean
<1>3. /\ open + close \in 1 .. Len(s) + 1 /\ open \in 1 .. Len(s) + 1
      /\ Before(s, open) \in Texts /\ From(s, open + close) \in Texts
  BY <1>1, <1>2, CallTakenOut
<1>4. s[open + close - 1] = "/call>" /\ \A i \in 1 .. open - 1 : ~Opens(s, i)
  BY DEF FirstCall
<1>5. Before(s, open) \in Seq(Clean)
  <2>1. Covered(s \o <<>>)
    BY <1>1
  <2>2. Before(s, open) \in Seq(Tokens \cap Clean)
    BY <1>1, <1>2, <1>3, <1>4, <2>1, CleanBefore
  <2> QED BY <1>2, <2>2
<1>6. Covered(From(s, open + close))
  <2>1. Covered(s \o <<>>)
    BY <1>1
  <2>2. ASSUME NEW i \in 1 .. open + close - 1
        PROVE  ~Opens(s \o <<>>, i) \/ (i # open + close - 1 /\ s[open + close - 1] = "/call>")
    BY <1>1, <1>4 DEF Opens
  <2>3. Covered(From(s, open + close) \o <<>>)
    <3> DEFINE cut == open + close
               f == <<>>
    <3>1. /\ cut \in 1 .. Len(s) + 1 /\ f \in Texts /\ Covered(s \o f)
          /\ \A i \in 1 .. cut - 1 : ~Opens(s \o f, i) \/ (i # cut - 1 /\ s[cut - 1] = "/call>")
      BY <1>1, <1>3, <2>1, <2>2
    <3> HIDE DEF cut, f
    <3>2. Covered(From(s, cut) \o f)
      BY <3>1, CoveredAfter
    <3> QED BY <3>2 DEF cut, f
  <2>4. From(s, open + close) \o <<>> = From(s, open + close)
    BY <1>3 DEF Texts
  <2> QED BY <2>3, <2>4
<1> QED BY <1>3, <1>5, <1>6, CleanCovered, CoveredJoined

\* What StripToolCalls leaves of a covered text is free of markup.
LEMMA Stripped ==
    ASSUME NEW S \in SUBSET Tokens, NEW s \in Seq(S)
    PROVE  /\ StripBlocks(s).text \in Seq(S) /\ StripBlocks(s).calls \in SUBSET Nat
           /\ Covered(s) => StripBlocks(s).text \in Seq(S \cap Clean)
<1> DEFINE I == {x \in BlockStates : x.text \in Seq(S) /\ (Covered(s) => Covered(x.text))}
           x == WithoutBlocks(s)
           start == [text |-> s, calls |-> {}]
           open == Find(x.text, CallOpen)
<1>0. s \in Texts /\ I \in SUBSET BlockStates /\ \A t \in Seq(S) : t \in Texts
  BY DEF Texts
<1>1. start \in I
  BY <1>0 DEF BlockStates
<1>2. KeptWithout(I)
  <2> SUFFICES ASSUME NEW y \in I, NEW o \in Nat, NEW c \in Nat, FirstCall(y.text, o, c),
                      o \in 1 .. Len(y.text), c \in 1 .. Len(y.text) - o + 1
               PROVE  Without(y, o, c) \in I
    BY DEF KeptWithout
  <2>1. /\ y.text \in Seq(S) /\ y.text \in Texts /\ y.calls \in SUBSET Nat
        /\ Covered(s) => Covered(y.text)
    BY <1>0 DEF BlockStates
  <2>2. /\ Before(y.text, o) \in Seq(S) /\ From(y.text, o + c) \in Seq(S)
        /\ SubSeq(From(y.text, o), 1, c) \in Texts
    BY <2>1, CallTakenOut
  <2>3. Before(y.text, o) \o From(y.text, o + c) \in Seq(S)
    BY <2>2
  <2>4. Calls(SubSeq(From(y.text, o), 1, c)) \in SUBSET Nat
    BY <2>2, CallsTyped
  <2>5. Covered(s) => Covered(Before(y.text, o) \o From(y.text, o + c))
    BY <2>1, CoveredWithout
  <2>6. /\ Without(y, o, c).text = Before(y.text, o) \o From(y.text, o + c)
        /\ Without(y, o, c) \in BlockStates
    BY <1>0, <2>1, <2>3, <2>4 DEF Without, BlockStates
  <2> QED BY <2>3, <2>5, <2>6
<1>3. x \in I
  <2> HIDE DEF I
  <2> QED BY <1>0, <1>1, <1>2, StripSettled
<1>4. x.text \in Seq(S) /\ x.text \in Texts /\ x.calls \in SUBSET Nat /\ (Covered(s) => Covered(x.text))
  BY <1>0, <1>3 DEF BlockStates
<1>5. StripBlocks(s) = IF open = 0 THEN [text |-> CutPartial(x.text), calls |-> x.calls]
                       ELSE [text |-> CutPartial(Before(x.text, open)),
                             calls |-> x.calls \cup Calls(From(x.text, open))]
  BY DEF StripBlocks, StripEnd
<1> DEFINE close == Find(From(x.text, open), CallClose)
<1>6. FirstCall(x.text, open, close)
  BY <1>4, CallFound
<1> HIDE DEF close
<1>a. Len(x.text) \in Nat
  BY <1>4
<1> HIDE DEF x, open
<1>7. CASE open = 0
  <2>1. Covered(s) => x.text \in Seq(S \cap Clean)
    BY <1>4, <1>6, <1>7, CoveredClean DEF FirstCall
  <2>2. S \cap Clean \in SUBSET Tokens
    OBVIOUS
  <2>3. CutPartial(x.text) \in Seq(S)
    BY <1>4, PartialCut
  <2>4. Covered(s) => CutPartial(x.text) \in Seq(S \cap Clean)
    BY <2>1, <2>2, PartialCut
  <2> QED BY <1>4, <1>5, <1>7, <2>3, <2>4
<1>8. CASE open # 0
  <2>1. open \in 1 .. Len(x.text) + 1 /\ \A i \in 1 .. open - 1 : ~Opens(x.text, i)
    BY <1>6, <1>8, <1>a DEF FirstCall
  <2> DEFINE u == Before(x.text, open)
  <2>2. u \in Seq(S) /\ From(x.text, open) \in Seq(S)
    BY <1>4, <2>1, Parts
  <2>3. Covered(s) => u \in Seq(S \cap Clean)
    <3> SUFFICES ASSUME Covered(s) PROVE u \in Seq(S \cap Clean)
      OBVIOUS
    <3>1. x.text \o <<>> = x.text /\ <<>> \in Texts
      BY <1>4 DEF Texts
    <3>2. Covered(x.text \o <<>>)
      BY <1>4, <3>1
    <3> QED BY <1>4, <2>1, <3>1, <3>2, CleanBefore
  <2>4. S \cap Clean \in SUBSET Tokens
    OBVIOUS
  <2> HIDE DEF u
  <2>5. CutPartial(u) \in Seq(S)
    BY <2>2, PartialCut
  <2>6. Covered(s) => CutPartial(u) \in Seq(S \cap Clean)
    BY <2>3, <2>4, PartialCut
  <2>7. Calls(From(x.text, open)) \in SUBSET Nat
    BY <1>0, <2>2, CallsTyped
  <2> QED BY <1>4, <1>5, <1>8, <2>5, <2>6, <2>7 DEF u
<1> QED BY <1>7, <1>8

\* StripToolCalls only takes tokens out, and leaves no markup of a text whose markup is
\* all inside calls.
LEMMA ToolCallsStripped ==
    ASSUME NEW S \in SUBSET Tokens, NEW s \in Seq(S)
    PROVE  /\ StripToolCalls(s).text \in Seq(S) /\ StripToolCalls(s).calls \in SUBSET Nat
           /\ Covered(s) => StripToolCalls(s).text \in Seq(S \cap Clean)
           /\ StripToolCalls(s).calls = StripBlocks(s).calls
<1> DEFINE b == StripBlocks(s)
<1>1. b.text \in Seq(S) /\ b.calls \in SUBSET Nat /\ (Covered(s) => b.text \in Seq(S \cap Clean))
  BY Stripped
<1>2. StripToolCalls(s) = [text |-> Trim(StripPayloads(b.text, b.calls)), calls |-> b.calls]
  BY DEF StripToolCalls, Unechoed
<1> HIDE DEF b
<1>3. ASSUME NEW T \in SUBSET Tokens, b.text \in Seq(T)
      PROVE  Trim(StripPayloads(b.text, b.calls)) \in Seq(T)
  <2>1. StripPayloads(b.text, b.calls) \in Seq(T)
    BY <1>3, PayloadsStripped
  <2> QED BY <2>1, Trimmed
<1>4. S \cap Clean \in SUBSET Tokens
  OBVIOUS
<1>5. b.calls = StripBlocks(s).calls
  BY DEF b
<1> QED BY <1>1, <1>2, <1>3, <1>4, <1>5
-----------------------------------------------------------------------------
\* Trim of what Trim leaves takes nothing more.
LEMMA TrimmedAgain ==
    ASSUME NEW S, NEW s \in Seq(S)
    PROVE  Trim(Trim(s)) = Trim(s)
<1>1. CASE Solid(s) = {}
  <2>1. Trim(s) = <<>>
    BY <1>1 DEF Trim, Solid
  <2>2. Trim(<<>>) = <<>>
    BY DEF Trim
  <2> QED BY <2>1, <2>2
<1>2. CASE Solid(s) # {}
  <2>1. PICK a, b \in Solid(s) : /\ a \in 1 .. Len(s) /\ b \in 1 .. Len(s) /\ a <= b
                                 /\ Trim(s) = SubSeq(s, a, b)
    BY <1>2, SolidEnds
  <2>2. s[a] # "blank" /\ s[b] # "blank"
    BY <2>1 DEF Solid
  <2> DEFINE t == SubSeq(s, a, b)
  <2>3. /\ t \in Seq(S) /\ Len(t) = b - a + 1
        /\ \A k \in 1 .. b - a + 1 : t[k] = s[a + k - 1]
    BY <2>1
  <2>4. /\ 1 \in 1 .. b - a + 1 /\ b - a + 1 \in 1 .. b - a + 1
        /\ a + 1 - 1 = a /\ a + (b - a + 1) - 1 = b
    BY <2>1
  <2> HIDE DEF t
  <2>5. t[1] = s[a] /\ t[Len(t)] = s[b] /\ t # <<>>
    BY <2>3, <2>4
  <2>6. Trim(t) = t
    BY <2>2, <2>3, <2>5, TrimmedEnds
  <2> QED BY <2>1, <2>6 DEF t
<1> QED BY <1>1, <1>2

\* Plain words go through the filters as they are.
PlainWords == {"w", "v", "blank"}
\* In plain words no tag and no call is found.
LEMMA PlainFinds ==
    ASSUME NEW s \in Seq(PlainWords)
    PROVE  /\ s \in Texts /\ Find(s, CallOpen) = 0 /\ Find(s, ThinkOpen) = 0
           /\ \A i \in 1 .. Len(s) : s[i] \notin {"<tool", "<think", "</think"}
<1>1. \A i \in 1 .. Len(s) : s[i] \in PlainWords
  OBVIOUS
<1>2. s \in Texts
  BY DEF Texts, PlainWords, Tokens
<1>3. \A i \in 1 .. Len(s) : s[i] \notin {"<tool", "<think", "</think"}
  BY <1>1 DEF PlainWords
<1>4. s \in Seq(Tokens) /\ "<tool" \in Tokens /\ "call>" \in Tokens
      /\ "<think" \in Tokens /\ "think>" \in Tokens /\ Len(s) \in Nat
  BY <1>2 DEF Texts, Tokens
<1>5. /\ Find(s, CallOpen) \in 0 .. Len(s)
      /\ Find(s, CallOpen) # 0 => s[Find(s, CallOpen)] = "<tool"
  BY <1>4, FoundTag DEF CallOpen
<1>6. /\ Find(s, ThinkOpen) \in 0 .. Len(s)
      /\ Find(s, ThinkOpen) # 0 => s[Find(s, ThinkOpen)] = "<think"
  BY <1>4, FoundTag DEF ThinkOpen
<1>7. Find(s, CallOpen) = 0
  <2>1. Find(s, CallOpen) # 0 => Find(s, CallOpen) \in 1 .. Len(s)
    BY <1>4, <1>5
  <2> QED BY <1>3, <1>5, <2>1
<1>8. Find(s, ThinkOpen) = 0
  <2>1. Find(s, ThinkOpen) # 0 => Find(s, ThinkOpen) \in 1 .. Len(s)
    BY <1>4, <1>6
  <2> QED BY <1>3, <1>6, <2>1
<1> QED BY <1>2, <1>3, <1>7, <1>8

\* StripToolCalls only trims plain words.
LEMMA PlainStripped ==
    ASSUME NEW s \in Seq(PlainWords)
    PROVE  StripToolCalls(s) = [text |-> Trim(s), calls |-> {}]
<1> DEFINE step == [x \in BlockStates |-> StripBlock(x)]
           start == [text |-> s, calls |-> {}]
<1>1. /\ s \in Texts /\ Find(s, CallOpen) = 0 /\ Len(s) \in Nat
      /\ \A i \in 1 .. Len(s) : s[i] # "<tool"
  BY PlainFinds
<1>2. start \in BlockStates
  BY <1>1 DEF BlockStates
<1>3. step \in [BlockStates -> BlockStates]
  <2>1. \A x \in BlockStates : StripBlock(x) \in BlockStates
    BY StripStep
  <2> QED BY <2>1
<1>4. step[start] = start
  BY <1>1, <1>2 DEF StripBlock
<1>5. WithoutBlocks(s) = Repeated(step, start, Len(s))
  BY DEF WithoutBlocks
<1>6. Repeated(step, start, Len(s)) \in {start}
  <2> DEFINE I == {start}
  <2>1. I \in SUBSET BlockStates /\ start \in I /\ \A x \in I : step[x] \in I
    BY <1>2, <1>4
  <2> HIDE DEF step, start, I
  <2>2. Repeated(step, start, Len(s)) \in I
    BY <1>1, <1>3, <2>1, RepeatedKeeps
  <2> QED BY <2>2 DEF I
<1>7. WithoutBlocks(s) = start
  BY <1>5, <1>6
<1>8. StripBlocks(s) = [text |-> CutPartial(s), calls |-> {}]
  <2>1. StripBlocks(s) = IF Find(start.text, CallOpen) = 0
                         THEN [text |-> CutPartial(start.text), calls |-> start.calls]
                         ELSE [text |-> CutPartial(Before(start.text, Find(start.text, CallOpen))),
                               calls |-> start.calls
                                         \cup Calls(From(start.text, Find(start.text, CallOpen)))]
    BY <1>7 DEF StripBlocks, StripEnd
  <2> QED BY <1>1, <2>1
<1>a. s \in Seq(Tokens) /\ Tokens \in SUBSET Tokens
  BY <1>1 DEF Texts
<1>9. CutPartial(s) = s
  BY <1>1, <1>a, PartialCut
<1>10. StripPayloads(s, {}) = Trim(s)
  BY <1>a, PayloadsStripped
<1>11. Trim(Trim(s)) = Trim(s)
  BY TrimmedAgain
<1>12. StripToolCalls(s) = [text |-> Trim(StripPayloads(StripBlocks(s).text, StripBlocks(s).calls)),
                            calls |-> StripBlocks(s).calls]
  BY DEF StripToolCalls, Unechoed
<1>13. StripBlocks(s).text = s /\ StripBlocks(s).calls = {}
  BY <1>8, <1>9
<1> QED BY <1>10, <1>11, <1>12, <1>13

\* The filter of calls lets plain words through trimmed and holds nothing back.
LEMMA PlainFiltered ==
    ASSUME NEW s \in Seq(PlainWords)
    PROVE  Filter(s).safe = Trim(s) /\ Filter(s).hold = <<>> /\ Filter(s).calls = {}
<1> DEFINE step == [x \in FilterStates |-> FilterBlock(x)]
           start == [rest |-> s, safe |-> <<>>, calls |-> {}]
<1>1. /\ s \in Texts /\ Find(s, CallOpen) = 0 /\ Len(s) \in Nat
      /\ \A i \in 1 .. Len(s) : s[i] # "<tool"
  BY PlainFinds
<1>2. start \in FilterStates
  BY <1>1 DEF FilterStates, Texts
<1>3. step \in [FilterStates -> FilterStates]
  <2>1. \A x \in FilterStates : FilterBlock(x) \in FilterStates
    BY FilterStep
  <2> QED BY <2>1
<1>4. step[start] = start
  BY <1>1, <1>2 DEF FilterBlock
<1>5. FilterBlocks(s) = Repeated(step, start, Len(s))
  BY DEF FilterBlocks
<1>6. Repeated(step, start, Len(s)) \in {start}
  <2> DEFINE I == {start}
  <2>1. I \in SUBSET FilterStates /\ start \in I /\ \A x \in I : step[x] \in I
    BY <1>2, <1>4
  <2> HIDE DEF step, start, I
  <2>2. Repeated(step, start, Len(s)) \in I
    BY <1>1, <1>3, <2>1, RepeatedKeeps
  <2> QED BY <2>2 DEF I
<1>7. FilterBlocks(s) = start
  BY <1>5, <1>6
<1>8. TrailingPrefix(s) = 0
  BY <1>1 DEF TrailingPrefix
<1>9. From(s, Len(s) + 1) = <<>> /\ <<>> \o s = s
  BY <1>1 DEF From, Texts
<1>a. s \in Seq(Tokens) /\ Tokens \in SUBSET Tokens
  BY <1>1 DEF Texts
<1>10. CutPartial(s) = s
  BY <1>1, <1>a, PartialCut
<1>11. Calls(<<>>) = {}
  <2>1. <<>> \in Seq(Tokens) /\ Function \in Tokens /\ Len(<<>>) = 0
    BY DEF Tokens
  <2> DEFINE e == <<>>
  <2>2. Find(e, <<Function>>) \in 0 .. Len(e)
    <3> HIDE DEF e
    <3>1. e \in Seq(Tokens) /\ Function \in Tokens
      BY <2>1 DEF e
    <3> QED BY <3>1, FoundToken
  <2>3. Find(<<>>, <<Function>>) = 0
    BY <2>1, <2>2
  <2> QED BY <2>3 DEF Calls
<1>12. /\ Filter(s).hold = From(s, Len(s) + 1)
       /\ Filter(s).safe = Trim(CutPartial(<<>> \o s))
       /\ Filter(s).calls = {} \cup Calls(From(s, Len(s) + 1))
  BY <1>1, <1>7, <1>8 DEF Filter, FilterEnd
<1> QED BY <1>9, <1>10, <1>11, <1>12

-----------------------------------------------------------------------------
\* A whole call stands at a place of a text, and the values of such calls.
BlockAt(s, i, n) ==
    /\ i + n + 4 <= Len(s)
    /\ s[i] = "<tool" /\ s[i + 1] = "call>" /\ s[i + 2] = Function
    /\ \A k \in i + 3 .. i + n + 2 : s[k] = "v"
    /\ s[i + n + 3] = FunctionEnd /\ s[i + n + 4] = "/call>"
Values(s) == {n \in Nat : \E i \in 1 .. Len(s) : BlockAt(s, i, n)}

\* All markup of a text is in whole calls, and their values are those of calls of
\* another text.
InBlock(s, k, X) == \E i \in 1 .. k : \E n \in Values(X) : BlockAt(s, i, n) /\ k <= i + n + 4
WholeIn(s, X) == \A k \in 1 .. Len(s) : s[k] \in Markup => InBlock(s, k, X)

\* Where a call ends, and what stands in it.
LEMMA InsideBlock ==
    ASSUME NEW s, NEW i \in Nat, NEW n \in Nat, BlockAt(s, i, n), NEW k \in i .. i + n + 4
    PROVE  /\ s[k] = "<tool" <=> k = i
           /\ s[k] = "call>" <=> k = i + 1
           /\ s[k] = "/call>" <=> k = i + n + 4
<1>1. k = i \/ k = i + 1 \/ k = i + 2 \/ k \in i + 3 .. i + n + 2 \/ k = i + n + 3 \/ k = i + n + 4
  OBVIOUS
<1>2. /\ s[i] = "<tool" /\ s[i + 1] = "call>" /\ s[i + 2] = Function
      /\ \A j \in i + 3 .. i + n + 2 : s[j] = "v"
      /\ s[i + n + 3] = FunctionEnd /\ s[i + n + 4] = "/call>"
  BY DEF BlockAt
<1>3. CASE k = i
  BY <1>2, <1>3
<1>4. CASE k = i + 1
  BY <1>2, <1>4
<1>5. CASE k = i + 2
  BY <1>2, <1>5 DEF Function
<1>6. CASE k \in i + 3 .. i + n + 2
  BY <1>2, <1>6
<1>7. CASE k = i + n + 3
  BY <1>2, <1>7 DEF FunctionEnd
<1>8. CASE k = i + n + 4
  BY <1>2, <1>8
<1> QED BY <1>1, <1>3, <1>4, <1>5, <1>6, <1>7, <1>8

\* A call of a text is one of the texts it is joined to.
LEMMA BlockBegins ==
    ASSUME NEW u \in Texts, NEW v \in Texts, NEW i \in Nat \ {0}, NEW n \in Nat, BlockAt(u, i, n)
    PROVE  BlockAt(u \o v, i, n)
<1> DEFINE w == u \o v
<1>1. /\ Len(u) \in Nat /\ Len(v) \in Nat /\ Len(w) = Len(u) + Len(v)
      /\ \A k \in 1 .. Len(u) : w[k] = u[k]
  BY Joined DEF Texts
<1>2. /\ i + n + 4 <= Len(u)
      /\ u[i] = "<tool" /\ u[i + 1] = "call>" /\ u[i + 2] = Function
      /\ \A k \in i + 3 .. i + n + 2 : u[k] = "v"
      /\ u[i + n + 3] = FunctionEnd /\ u[i + n + 4] = "/call>"
  BY DEF BlockAt
<1> HIDE DEF w
<1>3. ASSUME NEW k \in i .. i + n + 4 PROVE w[k] = u[k]
  <2>1. k \in 1 .. Len(u)
    BY <1>1, <1>2
  <2> QED BY <1>1, <2>1
<1>4. /\ i \in i .. i + n + 4 /\ i + 1 \in i .. i + n + 4 /\ i + 2 \in i .. i + n + 4
      /\ i + n + 3 \in i .. i + n + 4 /\ i + n + 4 \in i .. i + n + 4
      /\ \A k \in i + 3 .. i + n + 2 : k \in i .. i + n + 4
  OBVIOUS
<1>5. i + n + 4 <= Len(w)
  BY <1>1, <1>2
<1>6. BlockAt(w, i, n)
  BY <1>2, <1>3, <1>4, <1>5 DEF BlockAt
<1> QED BY <1>6 DEF w

\* A whole call stays one when text is put before it.
LEMMA BlockShifts ==
    ASSUME NEW u \in Texts, NEW v \in Texts, NEW i \in Nat \ {0}, NEW n \in Nat
    PROVE  BlockAt(v, i, n) <=> BlockAt(u \o v, Len(u) + i, n)
<1> DEFINE w == u \o v
           m == Len(u)
           Body(s, a, b) == \A k \in a .. b : s[k] = "v"
<1>1. /\ m \in Nat /\ Len(v) \in Nat /\ Len(w) = m + Len(v)
      /\ \A k \in 1 .. Len(v) : w[m + k] = v[k]
  BY Joined DEF Texts
<1> HIDE DEF w, m
<1>2. m + i + n + 4 = m + (i + n + 4) /\ (m + i + n + 4 <= Len(w) <=> i + n + 4 <= Len(v))
  BY <1>1
<1> SUFFICES ASSUME i + n + 4 <= Len(v) PROVE BlockAt(v, i, n) <=> BlockAt(w, m + i, n)
  BY <1>2 DEF w, m, BlockAt
<1>3. ASSUME NEW k \in i .. i + n + 4 PROVE w[m + k] = v[k]
  <2>1. k \in 1 .. Len(v)
    BY <1>1
  <2> QED BY <1>1, <2>1
<1>4. /\ w[m + i] = v[i] /\ w[m + i + 1] = v[i + 1] /\ w[m + i + 2] = v[i + 2]
      /\ w[m + i + n + 3] = v[i + n + 3] /\ w[m + i + n + 4] = v[i + n + 4]
  <2>1. /\ m + i + 1 = m + (i + 1) /\ m + i + 2 = m + (i + 2)
        /\ m + i + n + 3 = m + (i + n + 3) /\ m + i + n + 4 = m + (i + n + 4)
    BY <1>1
  <2>2. /\ i \in i .. i + n + 4 /\ i + 1 \in i .. i + n + 4 /\ i + 2 \in i .. i + n + 4
        /\ i + n + 3 \in i .. i + n + 4 /\ i + n + 4 \in i .. i + n + 4
    OBVIOUS
  <2>3. /\ w[m + i] = v[i] /\ w[m + (i + 1)] = v[i + 1] /\ w[m + (i + 2)] = v[i + 2]
        /\ w[m + (i + n + 3)] = v[i + n + 3] /\ w[m + (i + n + 4)] = v[i + n + 4]
    BY <1>3, <2>2
  <2> QED BY <2>1, <2>3
<1>5. Body(v, i + 3, i + n + 2) <=> Body(w, m + i + 3, m + i + n + 2)
  <2>1. ASSUME Body(v, i + 3, i + n + 2), NEW k \in m + i + 3 .. m + i + n + 2 PROVE w[k] = "v"
    <3>1. k - m \in i + 3 .. i + n + 2 /\ k - m \in i .. i + n + 4 /\ m + (k - m) = k
      BY <1>1
    <3> QED BY <1>3, <2>1, <3>1
  <2>2. ASSUME Body(w, m + i + 3, m + i + n + 2), NEW k \in i + 3 .. i + n + 2 PROVE v[k] = "v"
    <3>1. m + k \in m + i + 3 .. m + i + n + 2 /\ k \in i .. i + n + 4
      BY <1>1
    <3> QED BY <1>3, <2>2, <3>1
  <2> QED BY <2>1, <2>2
<1>6. BlockAt(v, i, n) <=> /\ v[i] = "<tool" /\ v[i + 1] = "call>" /\ v[i + 2] = Function
                           /\ Body(v, i + 3, i + n + 2)
                           /\ v[i + n + 3] = FunctionEnd /\ v[i + n + 4] = "/call>"
  BY DEF BlockAt
<1>7. BlockAt(w, m + i, n) <=>
        /\ w[m + i] = "<tool" /\ w[m + i + 1] = "call>" /\ w[m + i + 2] = Function
        /\ Body(w, m + i + 3, m + i + n + 2)
        /\ w[m + i + n + 3] = FunctionEnd /\ w[m + i + n + 4] = "/call>"
  BY <1>2 DEF BlockAt
<1> HIDE DEF Body
<1> QED BY <1>4, <1>5, <1>6, <1>7

\* Values of a joined text.
LEMMA ValuesJoined ==
    ASSUME NEW u \in Texts, NEW v \in Texts
    PROVE  Values(u) \cup Values(v) \subseteq Values(u \o v)
<1>1. Len(u) \in Nat /\ Len(v) \in Nat /\ Len(u \o v) = Len(u) + Len(v)
  BY Joined DEF Texts
<1>2. ASSUME NEW n \in Values(u) PROVE n \in Values(u \o v)
  <2>1. PICK i \in 1 .. Len(u) : BlockAt(u, i, n)
    BY DEF Values
  <2>2. n \in Nat
    BY DEF Values
  <2>3. BlockAt(u \o v, i, n)
    BY <2>1, <2>2, BlockBegins
  <2>4. i \in 1 .. Len(u \o v)
    BY <1>1
  <2> QED BY <2>2, <2>3, <2>4 DEF Values
<1>3. ASSUME NEW n \in Values(v) PROVE n \in Values(u \o v)
  <2>1. PICK i \in 1 .. Len(v) : BlockAt(v, i, n)
    BY DEF Values
  <2>2. n \in Nat
    BY DEF Values
  <2>3. BlockAt(u \o v, Len(u) + i, n)
    BY <2>1, <2>2, BlockShifts
  <2>4. Len(u) + i \in 1 .. Len(u \o v)
    BY <1>1
  <2> QED BY <2>2, <2>3, <2>4 DEF Values
<1> QED BY <1>2, <1>3

\* Whole calls stay whole when texts are joined.
LEMMA WholeJoined ==
    ASSUME NEW u \in Texts, NEW v \in Texts, NEW X \in Texts, NEW Y \in Texts,
           WholeIn(u, X), WholeIn(v, Y)
    PROVE  WholeIn(u \o v, X \o Y)
<1> DEFINE w == u \o v
<1>1. /\ Len(u) \in Nat /\ Len(v) \in Nat /\ Len(w) = Len(u) + Len(v)
      /\ \A k \in 1 .. Len(u) : w[k] = u[k]
      /\ \A k \in 1 .. Len(v) : w[Len(u) + k] = v[k]
  BY Joined DEF Texts
<1>2. Values(X) \subseteq Values(X \o Y) /\ Values(Y) \subseteq Values(X \o Y)
  BY ValuesJoined
<1>a. \A Z : \A n \in Values(Z) : n \in Nat
  BY DEF Values
<1> SUFFICES ASSUME NEW k \in 1 .. Len(w), w[k] \in Markup PROVE InBlock(w, k, X \o Y)
  BY DEF WholeIn
<1>3. CASE k <= Len(u)
  <2>1. k \in 1 .. Len(u)
    BY <1>1, <1>3
  <2>2. InBlock(u, k, X)
    BY <1>1, <2>1 DEF WholeIn
  <2>3. PICK i \in 1 .. k, n \in Values(X) : BlockAt(u, i, n) /\ k <= i + n + 4
    BY <2>2 DEF InBlock
  <2>4. BlockAt(w, i, n)
    BY <1>a, <2>3, BlockBegins
  <2> QED BY <1>2, <2>3, <2>4 DEF InBlock
<1>4. CASE ~(k <= Len(u))
  <2>1. k - Len(u) \in 1 .. Len(v) /\ k = Len(u) + (k - Len(u))
    BY <1>1, <1>4
  <2>2. v[k - Len(u)] \in Markup
    BY <1>1, <2>1
  <2>3. InBlock(v, k - Len(u), Y)
    BY <2>1, <2>2 DEF WholeIn
  <2>4. PICK i \in 1 .. k - Len(u), n \in Values(Y) :
           BlockAt(v, i, n) /\ k - Len(u) <= i + n + 4
    BY <2>3 DEF InBlock
  <2>5. BlockAt(w, Len(u) + i, n)
    BY <1>a, <2>4, BlockShifts
  <2>6. n \in Nat
    BY <1>a
  <2>7. Len(u) + i \in 1 .. k /\ k <= Len(u) + i + n + 4
    BY <1>1, <2>1, <2>4, <2>6
  <2> QED BY <1>2, <2>5, <2>7 DEF InBlock
<1> QED BY <1>3, <1>4

\* Such a text is covered.
LEMMA WholeCovered ==
    ASSUME NEW s \in Texts, NEW X, WholeIn(s, X)
    PROVE  Covered(s)
<1> SUFFICES ASSUME NEW k \in 1 .. Len(s), s[k] \in Markup PROVE HasCover(s, k)
  BY DEF Covered
<1>1. InBlock(s, k, X)
  BY DEF WholeIn
<1>2. PICK i \in 1 .. k, n \in Values(X) : BlockAt(s, i, n) /\ k <= i + n + 4
  BY <1>1 DEF InBlock
<1>3. n \in Nat /\ i \in Nat /\ k \in i .. i + n + 4
  BY <1>2 DEF Values
<1>4. k # i
  <2>1. s[i] = "<tool"
    BY <1>2 DEF BlockAt
  <2>2. "<tool" \notin Markup
    BY DEF Markup, Function, FunctionEnd
  <2> QED BY <2>1, <2>2
<1>5. i \in 1 .. k - 1
  BY <1>3, <1>4
<1>6. Opens(s, i)
  BY <1>2 DEF BlockAt, Opens
<1>7. ASSUME NEW j \in i + 1 .. k - 1 PROVE s[j] # "/call>"
  <2>1. j \in i .. i + n + 4 /\ j # i + n + 4
    BY <1>3
  <2> QED BY <1>2, <1>3, <2>1, InsideBlock
<1> QED BY <1>5, <1>6, <1>7 DEF HasCover, Covers

\* A text without markup holds nothing but whole calls.
LEMMA FreeWhole ==
    ASSUME NEW s \in Seq(Clean), NEW X
    PROVE  WholeIn(s, X)
<1>1. \A k \in 1 .. Len(s) : s[k] \notin Markup
  BY DEF Clean
<1> QED BY <1>1 DEF WholeIn

\* So does a call.
LEMMA BlockWhole ==
    ASSUME NEW n \in Nat
    PROVE  /\ Block(n) \in Texts /\ BlockAt(Block(n), 1, n) /\ WholeIn(Block(n), Block(n))
           /\ Len(Block(n)) = n + 5
           /\ \A k \in 1 .. n + 5 : Block(n)[k] \in Markup \cup {"<tool", "v"}
<1> DEFINE B == Block(n)
           open == CallOpen \o <<Function>>
           close == <<FunctionEnd>> \o CallClose
<1>0. \A k \in {1, 2, 3} : k = 1 \/ k = 2 \/ k = 3
  OBVIOUS
<1>a. {"<tool", "call>", "/call>", "v", Function, FunctionEnd} \subseteq Tokens
  BY DEF Tokens
<1>1. /\ open \in Seq(Tokens) /\ Len(open) = 3
      /\ open[1] = "<tool" /\ open[2] = "call>" /\ open[3] = Function
  BY <1>a DEF CallOpen
<1>2. close \in Seq(Tokens) /\ Len(close) = 2 /\ close[1] = FunctionEnd /\ close[2] = "/call>"
  BY <1>a DEF CallClose
<1>3. Value(n) \in Seq(Tokens) /\ Len(Value(n)) = n /\ \A k \in 1 .. n : Value(n)[k] = "v"
  BY ValueTyped DEF Value, Texts
<1>4. Block(n) = (open \o Value(n)) \o close
  <2>1. /\ CallOpen \in Seq(Tokens) /\ <<Function>> \in Seq(Tokens)
        /\ <<FunctionEnd>> \in Seq(Tokens) /\ CallClose \in Seq(Tokens)
    BY <1>a DEF CallOpen, CallClose
  <2> QED BY <1>3, <2>1 DEF Block
<1> HIDE DEF open, close
<1> DEFINE front == open \o Value(n)
<1>5. /\ front \in Seq(Tokens) /\ Len(front) = 3 + n
      /\ \A k \in 1 .. 3 : front[k] = open[k]
      /\ \A k \in 1 .. n : front[3 + k] = Value(n)[k]
  <2>1. open \in Seq(Tokens) /\ Value(n) \in Seq(Tokens)
    BY <1>1, <1>3
  <2>2. /\ front \in Seq(Tokens) /\ Len(front) = Len(open) + Len(Value(n))
        /\ \A k \in 1 .. Len(open) : front[k] = open[k]
        /\ \A k \in 1 .. Len(Value(n)) : front[Len(open) + k] = Value(n)[k]
    BY <2>1, Joined
  <2> HIDE DEF front
  <2> QED BY <1>1, <1>3, <2>2
<1>b. Block(n) = front \o close
  BY <1>4
<1> HIDE DEF front
<1>6. /\ B \in Seq(Tokens) /\ Len(B) = 3 + n + 2
      /\ \A k \in 1 .. 3 + n : B[k] = front[k]
      /\ \A k \in 1 .. 2 : B[3 + n + k] = close[k]
  <2>1. /\ B \in Seq(Tokens) /\ Len(B) = Len(front) + Len(close)
        /\ \A k \in 1 .. Len(front) : B[k] = front[k]
        /\ \A k \in 1 .. Len(close) : B[Len(front) + k] = close[k]
    <3>1. front \in Seq(Tokens) /\ close \in Seq(Tokens) /\ B = front \o close
      BY <1>2, <1>5, <1>b
    <3> HIDE DEF B
    <3> QED BY <3>1, Joined
  <2> HIDE DEF B
  <2> QED BY <1>2, <1>5, <2>1
<1> HIDE DEF B
<1>7. B[1] = "<tool" /\ B[2] = "call>" /\ B[3] = Function
  <2>1. 1 \in 1 .. 3 + n /\ 2 \in 1 .. 3 + n /\ 3 \in 1 .. 3 + n
    OBVIOUS
  <2>2. 1 \in 1 .. 3 /\ 2 \in 1 .. 3 /\ 3 \in 1 .. 3
    OBVIOUS
  <2> QED BY <1>1, <1>5, <1>6, <2>1, <2>2
<1>8. ASSUME NEW k \in 4 .. n + 3 PROVE B[k] = "v"
  <2>1. k \in 1 .. 3 + n /\ k - 3 \in 1 .. n /\ 3 + (k - 3) = k
    OBVIOUS
  <2>2. front[3 + (k - 3)] = Value(n)[k - 3]
    BY <1>5, <2>1
  <2> QED BY <1>3, <1>6, <2>1, <2>2
<1>9. B[n + 4] = FunctionEnd /\ B[n + 5] = "/call>"
  <2>1. 1 \in 1 .. 2 /\ 2 \in 1 .. 2 /\ 3 + n + 1 = n + 4 /\ 3 + n + 2 = n + 5
    OBVIOUS
  <2> QED BY <1>2, <1>6, <2>1
<1>10. BlockAt(B, 1, n)
  <2>1. 1 + n + 4 <= Len(B)
    BY <1>6
  <2>2. 1 + 1 = 2 /\ 1 + 2 = 3 /\ 1 + n + 3 = n + 4 /\ 1 + n + 4 = n + 5
        /\ 1 + 3 = 4 /\ 1 + n + 2 = n + 3
    OBVIOUS
  <2>3. \A k \in 1 + 3 .. 1 + n + 2 : B[k] = "v"
    BY <1>8, <2>2
  <2> QED BY <1>7, <1>9, <2>1, <2>2, <2>3 DEF BlockAt
<1>11. n \in Values(B)
  <2>1. 1 \in 1 .. Len(B)
    BY <1>6
  <2> QED BY <1>10, <2>1 DEF Values
<1>12. WholeIn(B, B)
  <2> SUFFICES ASSUME NEW k \in 1 .. Len(B) PROVE InBlock(B, k, B)
    BY DEF WholeIn
  <2>1. 1 \in 1 .. k /\ k <= 1 + n + 4
    BY <1>6
  <2> QED BY <1>10, <1>11, <2>1 DEF InBlock
<1>13. \A k \in 1 .. n + 5 : B[k] \in Markup \cup {"<tool", "v"}
  <2> SUFFICES ASSUME NEW k \in 1 .. n + 5 PROVE B[k] \in Markup \cup {"<tool", "v"}
    OBVIOUS
  <2>1. k = 1 \/ k = 2 \/ k = 3 \/ k \in 4 .. n + 3 \/ k = n + 4 \/ k = n + 5
    OBVIOUS
  <2> QED BY <1>7, <1>8, <1>9, <2>1 DEF Markup
<1>14. Len(B) = n + 5
  BY <1>6
<1> QED BY <1>6, <1>10, <1>12, <1>13, <1>14 DEF B, Texts

-----------------------------------------------------------------------------
\* The value of a whole call is the one its request has.
LEMMA CallsOfBlock ==
    ASSUME NEW s \in Texts, NEW i \in 1 .. Len(s), NEW n \in Nat, BlockAt(s, i, n)
    PROVE  Calls(SubSeq(From(s, i), 1, n + 5)) = {n}
<1> DEFINE rest == From(s, i)
           m == SubSeq(rest, 1, n + 5)
           f == Find(m, <<Function>>)
           body == From(m, f + 1)
           end == Find(body, <<FunctionEnd>>)
           value == IF end = 0 THEN body ELSE Before(body, end)
           counted == {k \in DOMAIN value : value[k] = "v"}
<1>0. s \in Seq(Tokens) /\ Len(s) \in Nat /\ Function \in Tokens /\ FunctionEnd \in Tokens
  BY DEF Texts, Tokens
<1>1. /\ i + n + 4 <= Len(s)
      /\ s[i] = "<tool" /\ s[i + 1] = "call>" /\ s[i + 2] = Function
      /\ \A k \in i + 3 .. i + n + 2 : s[k] = "v"
      /\ s[i + n + 3] = FunctionEnd /\ s[i + n + 4] = "/call>"
  BY DEF BlockAt
<1>2. /\ rest \in Seq(Tokens) /\ Len(rest) = Len(s) - i + 1
      /\ \A k \in 1 .. Len(s) - i + 1 : rest[k] = s[i + k - 1]
  <2>1. i \in 1 .. Len(s) + 1
    BY <1>0
  <2> QED BY <1>0, <2>1, Parts
<1> HIDE DEF rest
<1>a. n + 5 <= Len(rest) /\ n + 5 \in Nat
  BY <1>0, <1>1, <1>2
<1>3. m \in Seq(Tokens) /\ Len(m) = n + 5 /\ \A k \in 1 .. n + 5 : m[k] = rest[k]
  BY <1>2, <1>a
<1> HIDE DEF m
<1>4. \A k \in 1 .. n + 5 : m[k] = s[i + k - 1]
  <2> SUFFICES ASSUME NEW k \in 1 .. n + 5 PROVE m[k] = s[i + k - 1]
    OBVIOUS
  <2>1. k \in 1 .. Len(s) - i + 1
    BY <1>0, <1>1
  <2>2. rest[k] = s[i + k - 1]
    BY <1>2, <2>1
  <2> QED BY <1>3, <2>2
<1>5. /\ m[1] = "<tool" /\ m[2] = "call>" /\ m[3] = Function /\ m[n + 4] = FunctionEnd
      /\ \A k \in 4 .. n + 3 : m[k] = "v"
  <2>1. /\ i + 1 - 1 = i /\ i + 2 - 1 = i + 1 /\ i + 3 - 1 = i + 2
        /\ i + (n + 4) - 1 = i + n + 3
        /\ 1 \in 1 .. n + 5 /\ 2 \in 1 .. n + 5 /\ 3 \in 1 .. n + 5 /\ n + 4 \in 1 .. n + 5
    OBVIOUS
  <2>2. ASSUME NEW k \in 4 .. n + 3 PROVE m[k] = "v"
    <3>1. k \in 1 .. n + 5 /\ i + k - 1 \in i + 3 .. i + n + 2
      OBVIOUS
    <3> QED BY <1>1, <1>4, <3>1
  <2> QED BY <1>1, <1>4, <2>1, <2>2
<1>6. /\ f \in 0 .. Len(m)
      /\ f = 0 => \A k \in 1 .. Len(m) : m[k] # Function
      /\ f # 0 => m[f] = Function /\ \A k \in 1 .. f - 1 : m[k] # Function
  BY <1>0, <1>3, FoundToken
<1> HIDE DEF f
<1>7. f = 3
  <2>1. 3 \in 1 .. Len(m) /\ f \in 0 .. n + 5
    BY <1>3, <1>6
  <2>2. f # 0
    BY <1>5, <1>6, <2>1
  <2>3. ~(3 < f)
    <3> SUFFICES ASSUME 3 < f PROVE FALSE
      OBVIOUS
    <3>1. 3 \in 1 .. f - 1
      BY <2>1
    <3> QED BY <1>5, <1>6, <2>2, <3>1
  <2>4. f # 1 /\ f # 2
    BY <1>5, <1>6, <2>2 DEF Function
  <2> QED BY <2>1, <2>2, <2>3, <2>4
<1>8. /\ body \in Seq(Tokens) /\ Len(body) = n + 2
      /\ \A k \in 1 .. n + 2 : body[k] = m[3 + k]
  <2>1. 4 \in 1 .. Len(m) + 1 /\ Len(m) - 4 + 1 = n + 2
    BY <1>3
  <2>2. /\ From(m, 4) \in Seq(Tokens) /\ Len(From(m, 4)) = n + 2
        /\ \A k \in 1 .. n + 2 : From(m, 4)[k] = m[4 + k - 1]
    <3>1. /\ From(m, 4) \in Seq(Tokens) /\ Len(From(m, 4)) = Len(m) - 4 + 1
          /\ \A k \in 1 .. Len(m) - 4 + 1 : From(m, 4)[k] = m[4 + k - 1]
      BY <1>3, <2>1, Parts
    <3> QED BY <2>1, <3>1
  <2>3. \A k \in 1 .. n + 2 : 4 + k - 1 = 3 + k
    OBVIOUS
  <2>4. body = From(m, 4)
    BY <1>7
  <2> QED BY <2>2, <2>3, <2>4
<1> HIDE DEF body
<1>9. \A k \in 1 .. n : body[k] = "v"
  <2> SUFFICES ASSUME NEW k \in 1 .. n PROVE body[k] = "v"
    OBVIOUS
  <2>1. k \in 1 .. n + 2 /\ 3 + k \in 4 .. n + 3
    OBVIOUS
  <2> QED BY <1>5, <1>8, <2>1
<1>10. body[n + 1] = FunctionEnd
  <2>1. n + 1 \in 1 .. n + 2 /\ 3 + (n + 1) = n + 4
    OBVIOUS
  <2> QED BY <1>5, <1>8, <2>1
<1>11. /\ end \in 0 .. Len(body)
       /\ end = 0 => \A k \in 1 .. Len(body) : body[k] # FunctionEnd
       /\ end # 0 => body[end] = FunctionEnd /\ \A k \in 1 .. end - 1 : body[k] # FunctionEnd
  <2>1. body \in Seq(Tokens) /\ FunctionEnd \in Tokens
    BY <1>0, <1>8
  <2> QED BY <2>1, FoundToken
<1> HIDE DEF end
<1>12. end = n + 1
  <2>1. n + 1 \in 1 .. Len(body) /\ end \in 0 .. n + 2
    BY <1>8, <1>11
  <2>2. end # 0
    BY <1>10, <1>11, <2>1
  <2>3. ~(n + 1 < end)
    <3> SUFFICES ASSUME n + 1 < end PROVE FALSE
      OBVIOUS
    <3>1. n + 1 \in 1 .. end - 1
      BY <2>1
    <3> QED BY <1>10, <1>11, <2>2, <3>1
  <2>4. ~(end < n + 1)
    <3> SUFFICES ASSUME end < n + 1 PROVE FALSE
      OBVIOUS
    <3>1. end \in 1 .. n
      BY <2>1, <2>2
    <3>2. body[end] = "v"
      BY <1>9, <3>1
    <3> QED BY <1>11, <2>2, <3>2 DEF FunctionEnd
  <2> QED BY <2>1, <2>3, <2>4
<1>13. value \in Seq(Tokens) /\ Len(value) = n /\ \A k \in 1 .. n : value[k] = "v"
  <2>1. n + 1 \in 1 .. Len(body) + 1 /\ n + 1 - 1 = n /\ n + 1 # 0
    BY <1>8
  <2>2. value = Before(body, n + 1)
    BY <1>12, <2>1
  <2>3. /\ Before(body, n + 1) \in Seq(Tokens) /\ Len(Before(body, n + 1)) = n + 1 - 1
        /\ \A k \in 1 .. n + 1 - 1 : Before(body, n + 1)[k] = body[k]
    <3> DEFINE q == n + 1
    <3>1. q \in 1 .. Len(body) + 1
      BY <2>1
    <3> HIDE DEF q
    <3>2. /\ Before(body, q) \in Seq(Tokens) /\ Len(Before(body, q)) = q - 1
          /\ \A k \in 1 .. q - 1 : Before(body, q)[k] = body[k]
      BY <1>8, <3>1, Parts
    <3> QED BY <3>2 DEF q
  <2> HIDE DEF value
  <2> QED BY <1>9, <2>1, <2>2, <2>3
<1> HIDE DEF value
<1>14. counted = 1 .. n
  <2>1. DOMAIN value = 1 .. n
    BY <1>13
  <2> QED BY <1>13, <2>1
<1>15. Calls(m) = IF f = 0 THEN {} ELSE {Cardinality(counted)}
  BY DEF Calls, f, body, end, value
<1>16. Cardinality(1 .. n) = n
  <2>1. Cardinality(1 .. n) = IF 1 > n THEN 0 ELSE n - 1 + 1
    BY FS_Interval
  <2> QED BY <2>1
<1>17. Calls(m) = {n}
  BY <1>7, <1>14, <1>15, <1>16
<1> QED BY <1>17 DEF m, rest

\* Where nothing opens before a whole call, every other one is after it.
LEMMA BlocksApart ==
    ASSUME NEW s \in Texts, NEW open \in Nat \ {0}, NEW n \in Nat, BlockAt(s, open, n),
           \A i \in 1 .. open - 1 : ~Opens(s, i),
           NEW i \in Nat \ {0}, NEW k \in Nat, BlockAt(s, i, k)
    PROVE  (i = open /\ k = n) \/ i > open + n + 4
<1>1. Opens(s, i) /\ s[i] = "<tool"
  BY DEF BlockAt, Opens
<1>2. ~(i < open)
  <2> SUFFICES ASSUME i < open PROVE FALSE
    OBVIOUS
  <2>1. i \in 1 .. open - 1
    OBVIOUS
  <2> QED BY <1>1, <2>1
<1>3. CASE i > open + n + 4
  BY <1>3
<1>4. CASE ~(i > open + n + 4)
  <2>1. i \in open .. open + n + 4
    BY <1>2, <1>4
  <2>2. i = open
    BY <1>1, <2>1, InsideBlock
  <2>3. s[open + n + 4] = "/call>" /\ s[open + k + 4] = "/call>" /\ BlockAt(s, open, k)
    BY <2>2 DEF BlockAt
  <2>4. n <= k \/ k <= n
    OBVIOUS
  <2>5. n <= k => open + n + 4 = open + k + 4
    <3> SUFFICES ASSUME n <= k PROVE open + n + 4 = open + k + 4
      OBVIOUS
    <3>1. open + n + 4 \in open .. open + k + 4 /\ open + n + 4 \in Nat
      OBVIOUS
    <3> QED BY <2>3, <3>1, InsideBlock
  <2>6. k <= n => open + k + 4 = open + n + 4
    <3> SUFFICES ASSUME k <= n PROVE open + k + 4 = open + n + 4
      OBVIOUS
    <3>1. open + k + 4 \in open .. open + n + 4 /\ open + k + 4 \in Nat
      OBVIOUS
    <3> QED BY <2>3, <3>1, InsideBlock
  <2> QED BY <2>2, <2>4, <2>5, <2>6
<1> QED BY <1>3, <1>4

\* The first opening in a text of whole calls is that of a whole call.
LEMMA FirstWhole ==
    ASSUME NEW s \in Texts, WholeIn(s, s), NEW open \in 1 .. Len(s), NEW close,
           FirstCall(s, open, close)
    PROVE  \E n \in Nat : BlockAt(s, open, n) /\ close = n + 5
<1>1. /\ open + 1 <= Len(s) /\ Opens(s, open) /\ Len(s) \in Nat
      /\ close \in 0 .. Len(s) - open + 1
      /\ close = 0 => \A k \in open .. Len(s) : s[k] # "/call>"
      /\ close # 0 => /\ s[open + close - 1] = "/call>"
                      /\ \A k \in open .. open + close - 2 : s[k] # "/call>"
  BY DEF FirstCall, Texts
<1>2. s[open + 1] = "call>" /\ s[open + 1] \in Markup /\ open + 1 \in 1 .. Len(s)
  BY <1>1 DEF Opens, Markup
<1>3. InBlock(s, open + 1, s)
  BY <1>2 DEF WholeIn
<1>4. PICK i \in 1 .. open + 1, n \in Values(s) : BlockAt(s, i, n) /\ open + 1 <= i + n + 4
  BY <1>3 DEF InBlock
<1>5. n \in Nat /\ i \in Nat /\ open + 1 \in i .. i + n + 4
  BY <1>4 DEF Values
<1>6. open + 1 = i + 1
  BY <1>2, <1>4, <1>5, InsideBlock
<1>7. BlockAt(s, open, n)
  BY <1>4, <1>5, <1>6
<1>8. s[open + n + 4] = "/call>" /\ open + n + 4 <= Len(s)
  BY <1>7 DEF BlockAt
<1>9. close # 0
  <2>1. open + n + 4 \in open .. Len(s)
    BY <1>1, <1>5, <1>8
  <2> QED BY <1>1, <1>8, <2>1
<1>10. ~(n + 5 < close)
  <2> SUFFICES ASSUME n + 5 < close PROVE FALSE
    OBVIOUS
  <2>1. open + n + 4 \in open .. open + close - 2
    BY <1>1, <1>5
  <2> QED BY <1>1, <1>8, <1>9, <2>1
<1>11. ~(close < n + 5)
  <2> SUFFICES ASSUME close < n + 5 PROVE FALSE
    OBVIOUS
  <2>1. open + close - 1 \in open .. open + n + 4 /\ open + close - 1 # open + n + 4
    BY <1>1, <1>5, <1>9
  <2> QED BY <1>1, <1>5, <1>7, <1>9, <2>1, InsideBlock
<1>12. close = n + 5
  BY <1>1, <1>5, <1>10, <1>11
<1> QED BY <1>5, <1>7, <1>12

\* Without it the text still holds whole calls only, all the others.
LEMMA WholeWithout ==
    ASSUME NEW s \in Texts, WholeIn(s, s), NEW open \in 1 .. Len(s), NEW n \in Nat,
           BlockAt(s, open, n), \A i \in 1 .. open - 1 : ~Opens(s, i)
    PROVE  LET t == Before(s, open) \o From(s, open + n + 5)
           IN  t \in Texts /\ WholeIn(t, t) /\ Values(s) \subseteq {n} \cup Values(t)
<1> DEFINE m == open + n + 4
           B == Before(s, open)
           U == Before(s, m + 1)
           A == From(s, m + 1)
<1>0. s \in Seq(Tokens) /\ Len(s) \in Nat
  BY DEF Texts
<1>1. m \in Nat /\ m <= Len(s) /\ m + 1 \in 1 .. Len(s) + 1 /\ open \in 1 .. Len(s) + 1
      /\ m + 1 - 1 = m /\ m + 1 = open + n + 5 /\ open + n + 4 = m
  BY <1>0 DEF BlockAt
<1> HIDE DEF m
<1>2. B \in Texts
  BY <1>0, <1>1, Parts DEF Texts
<1>b. /\ U \in Texts /\ A \in Texts /\ Len(U) = m /\ s = U \o A /\ Len(A) = Len(s) - m
      /\ \A k \in 1 .. Len(A) : A[k] = s[m + k]
  <2> DEFINE q == m + 1
  <2>1. q \in 1 .. Len(s) + 1
    BY <1>1
  <2>2. Before(s, q) = U /\ From(s, q) = A /\ q = m + 1
    BY DEF q
  <2> HIDE DEF q
  <2>3. /\ Before(s, q) \in Seq(Tokens) /\ Len(Before(s, q)) = q - 1
        /\ From(s, q) \in Seq(Tokens) /\ Len(From(s, q)) = Len(s) - q + 1
        /\ \A k \in 1 .. Len(s) - q + 1 : From(s, q)[k] = s[q + k - 1]
        /\ s = Before(s, q) \o From(s, q)
    BY <1>0, <2>1, Parts
  <2> HIDE DEF U, A
  <2>4. /\ U \in Seq(Tokens) /\ A \in Seq(Tokens) /\ s = U \o A
        /\ Len(U) = q - 1 /\ Len(A) = Len(s) - q + 1
        /\ \A k \in 1 .. Len(s) - q + 1 : A[k] = s[q + k - 1]
    BY <2>2, <2>3
  <2>5. Len(U) = m /\ Len(A) = Len(s) - m
    BY <1>0, <1>1, <2>2, <2>4
  <2>6. ASSUME NEW k \in 1 .. Len(A) PROVE A[k] = s[m + k]
    <3>1. k \in 1 .. Len(s) - q + 1 /\ q + k - 1 = m + k
      BY <1>0, <1>1, <2>2, <2>4
    <3> QED BY <2>4, <3>1
  <2> QED BY <2>4, <2>5, <2>6 DEF Texts
<1> HIDE DEF U, A
<1>3. B \in Seq(Clean)
  <2>1. Covered(s)
    BY WholeCovered
  <2>2. s \o <<>> = s /\ <<>> \in Texts /\ Tokens \in SUBSET Tokens /\ Tokens \cap Clean = Clean
    BY <1>0 DEF Texts, Clean
  <2>3. Covered(s \o <<>>)
    BY <2>1, <2>2
  <2>4. B \in Seq(Tokens \cap Clean)
    BY <1>0, <1>1, <2>2, <2>3, CleanBefore
  <2> QED BY <2>2, <2>4
<1> HIDE DEF B
<1>4. ASSUME NEW i \in Nat \ {0}, NEW k \in Nat, BlockAt(s, i, k)
      PROVE  (i = open /\ k = n) \/ (i - m \in Nat \ {0} /\ BlockAt(A, i - m, k) /\ k \in Values(A))
  <2>1. (i = open /\ k = n) \/ i > m
    BY <1>1, <1>4, BlocksApart
  <2>2. CASE i > m
    <3>1. i - m \in Nat \ {0} /\ i = Len(U) + (i - m)
      BY <1>1, <1>b, <2>2
    <3>2. BlockAt(U \o A, Len(U) + (i - m), k)
      BY <1>4, <1>b, <3>1
    <3>3. BlockAt(A, i - m, k)
      BY <1>b, <3>1, <3>2, BlockShifts
    <3>4. i <= Len(s)
      BY <1>0, <1>4 DEF BlockAt
    <3>5. i - m \in 1 .. Len(A)
      BY <1>0, <1>1, <1>b, <3>1, <3>4
    <3> QED BY <3>1, <3>3, <3>5 DEF Values
  <2> QED BY <2>1, <2>2
<1>5. WholeIn(A, A)
  <2> SUFFICES ASSUME NEW k \in 1 .. Len(A), A[k] \in Markup PROVE InBlock(A, k, A)
    BY DEF WholeIn
  <2>1. m + k \in 1 .. Len(s) /\ s[m + k] \in Markup
    BY <1>0, <1>1, <1>b
  <2>2. InBlock(s, m + k, s)
    BY <2>1 DEF WholeIn
  <2>3. PICK i \in 1 .. m + k, v \in Values(s) : BlockAt(s, i, v) /\ m + k <= i + v + 4
    BY <2>2 DEF InBlock
  <2>4. v \in Nat /\ i \in Nat \ {0}
    BY <2>3 DEF Values
  <2>5. ~(i = open /\ v = n)
    BY <1>1, <2>3, <2>4
  <2>6. i - m \in Nat \ {0} /\ BlockAt(A, i - m, v) /\ v \in Values(A)
    BY <1>4, <2>3, <2>4, <2>5
  <2>7. i - m \in 1 .. k /\ k <= (i - m) + v + 4
    BY <1>1, <2>3, <2>4, <2>6
  <2> QED BY <2>6, <2>7 DEF InBlock
<1>6. WholeIn(B \o A, B \o A)
  BY <1>2, <1>3, <1>5, <1>b, FreeWhole, WholeJoined
<1>7. Values(s) \subseteq {n} \cup Values(B \o A)
  <2> SUFFICES ASSUME NEW v \in Values(s), v # n PROVE v \in Values(B \o A)
    OBVIOUS
  <2>1. PICK i \in 1 .. Len(s) : BlockAt(s, i, v)
    BY DEF Values
  <2>2. v \in Nat /\ i \in Nat \ {0}
    BY <2>1 DEF Values
  <2>3. v \in Values(A)
    BY <1>4, <2>1, <2>2
  <2> QED BY <1>2, <1>b, <2>3, ValuesJoined
<1>8. B \o A \in Texts
  BY <1>2, <1>b DEF Texts
<1>9. B \o A = Before(s, open) \o From(s, open + n + 5)
  BY <1>1 DEF B, A
<1> QED BY <1>6, <1>7, <1>8, <1>9

\* StripToolCalls finds every whole call.
LEMMA WholeCalls ==
    ASSUME NEW s \in Texts, WholeIn(s, s)
    PROVE  Values(s) \subseteq StripToolCalls(s).calls
<1> DEFINE I == {x \in BlockStates : /\ WholeIn(x.text, x.text)
                                     /\ Values(s) \subseteq x.calls \cup Values(x.text)}
           x == WithoutBlocks(s)
           open == Find(x.text, CallOpen)
           close == Find(From(x.text, open), CallClose)
<1>1. [text |-> s, calls |-> {}] \in I
  BY DEF BlockStates
<1>2. KeptWithout(I)
  <2> SUFFICES ASSUME NEW y \in I, NEW o \in Nat, NEW c \in Nat, FirstCall(y.text, o, c),
                      o \in 1 .. Len(y.text), c \in 1 .. Len(y.text) - o + 1
               PROVE  Without(y, o, c) \in I
    BY DEF KeptWithout
  <2>1. /\ y.text \in Texts /\ y.calls \in SUBSET Nat /\ WholeIn(y.text, y.text)
        /\ Values(s) \subseteq y.calls \cup Values(y.text)
    BY DEF BlockStates
  <2> DEFINE u == y.text
             w == Without(y, o, c)
  <2>2. PICK n \in Nat : BlockAt(u, o, n) /\ c = n + 5
    BY <2>1, FirstWhole
  <2>3. \A i \in 1 .. o - 1 : ~Opens(u, i)
    BY DEF FirstCall
  <2>4. o + c = o + n + 5
    BY <2>2
  <2> DEFINE t == Before(u, o) \o From(u, o + n + 5)
  <2>5. t \in Texts /\ WholeIn(t, t) /\ Values(u) \subseteq {n} \cup Values(t)
    BY <2>1, <2>2, <2>3, WholeWithout
  <2>6. Calls(SubSeq(From(u, o), 1, c)) = {n}
    BY <2>1, <2>2, CallsOfBlock
  <2>7. w.text = t /\ w.calls = y.calls \cup {n} /\ w = [text |-> w.text, calls |-> w.calls]
    BY <2>4, <2>6 DEF Without
  <2> HIDE DEF t, w, u
  <2>8. w \in BlockStates
    BY <2>1, <2>5, <2>7 DEF BlockStates
  <2>9. Values(s) \subseteq w.calls \cup Values(w.text)
    BY <2>1, <2>5, <2>7 DEF u
  <2> QED BY <2>5, <2>7, <2>8, <2>9 DEF w
<1>3. x \in I /\ StripBlock(x) = x
  <2>1. I \in SUBSET BlockStates
    OBVIOUS
  <2> HIDE DEF I
  <2> QED BY <1>1, <1>2, <2>1, StripSettled
<1>4. /\ x \in BlockStates /\ x.text \in Texts /\ x.calls \in SUBSET Nat
      /\ WholeIn(x.text, x.text) /\ Values(s) \subseteq x.calls \cup Values(x.text)
  BY <1>3 DEF BlockStates
<1>5. FirstCall(x.text, open, close)
  BY <1>4, CallFound
<1>6. open = 0
  <2> SUFFICES ASSUME open # 0 PROVE FALSE
    OBVIOUS
  <2>1. PICK o, c : /\ FirstCall(x.text, o, c) /\ o = Find(x.text, CallOpen)
                    /\ o # 0 /\ c # 0 => Len(StripBlock(x).text) < Len(x.text)
    BY <1>4, StripStep
  <2>2. Len(x.text) \in Nat
    BY <1>4 DEF Texts
  <2>3. o # 0 /\ c = 0
    BY <1>3, <2>1, <2>2
  <2>4. o \in 1 .. Len(x.text)
    BY <2>1, <2>2, <2>3 DEF FirstCall
  <2>5. \E n \in Nat : BlockAt(x.text, o, n) /\ c = n + 5
    BY <1>4, <2>1, <2>4, FirstWhole
  <2> QED BY <2>3, <2>5
<1>7. StripBlocks(s).calls = x.calls
  BY <1>6 DEF StripBlocks, StripEnd
<1> HIDE DEF x, open, close
<1>8. Values(x.text) = {}
  <2> SUFFICES ASSUME NEW n \in Values(x.text) PROVE FALSE
    OBVIOUS
  <2>1. PICK i \in 1 .. Len(x.text) : BlockAt(x.text, i, n)
    BY DEF Values
  <2>2. n \in Nat /\ Len(x.text) \in Nat
    BY <1>4 DEF Values, Texts
  <2>3. Opens(x.text, i) /\ i + n + 4 <= Len(x.text)
    BY <2>1 DEF BlockAt, Opens
  <2>4. i \in 1 .. Len(x.text) - 1
    BY <2>2, <2>3
  <2> QED BY <1>5, <1>6, <2>3, <2>4 DEF FirstCall
<1>9. s \in Seq(Tokens) /\ Tokens \in SUBSET Tokens
  BY DEF Texts
<1>10. StripToolCalls(s).calls = StripBlocks(s).calls
  BY <1>9, ToolCallsStripped
<1> QED BY <1>4, <1>7, <1>8, <1>10

\* A text with whole calls has an opening.
LEMMA ValuesFound ==
    ASSUME NEW s \in Texts, Values(s) # {}
    PROVE  Find(s, CallOpen) # 0 /\ Trim(s) # <<>>
<1>1. PICK n \in Nat, i \in 1 .. Len(s) : BlockAt(s, i, n)
  BY DEF Values
<1>2. Opens(s, i) /\ i + n + 4 <= Len(s) /\ Len(s) \in Nat /\ s \in Seq(Tokens)
  BY <1>1 DEF BlockAt, Opens, Texts
<1>3. i \in 1 .. Len(s) - 1
  BY <1>1, <1>2
<1>4. FirstCall(s, Find(s, CallOpen), Find(From(s, Find(s, CallOpen)), CallClose))
  BY CallFound
<1>5. Find(s, CallOpen) # 0
  BY <1>2, <1>3, <1>4 DEF FirstCall
<1>6. Trim(s) # <<>>
  <2> SUFFICES ASSUME Trim(s) = <<>> PROVE FALSE
    OBVIOUS
  <2>1. s[i] = "blank"
    BY <1>2, TrimmedAway
  <2> QED BY <1>2, <2>1 DEF Opens
<1> QED BY <1>5, <1>6

\* The value of the call that a function in a text belongs to.
LEMMA ValueCounted ==
    ASSUME NEW s \in Texts, NEW i \in Nat \ {0}, NEW n \in Nat, BlockAt(s, i, n)
    PROVE  Cardinality({j \in (i + 2 + 1) .. Len(s) : \A k \in (i + 2 + 1) .. j : s[k] = "v"}) = n
<1> DEFINE places == {j \in (i + 2 + 1) .. Len(s) : \A k \in (i + 2 + 1) .. j : s[k] = "v"}
<1>1. /\ i + n + 4 <= Len(s) /\ \A k \in i + 3 .. i + n + 2 : s[k] = "v"
      /\ s[i + n + 3] = FunctionEnd /\ Len(s) \in Nat
  BY DEF BlockAt, Texts
<1>2. ASSUME NEW j \in places PROVE j \in i + 3 .. i + n + 2
  <2>1. j \in (i + 2 + 1) .. Len(s) /\ \A k \in (i + 2 + 1) .. j : s[k] = "v"
    OBVIOUS
  <2>2. ~(j >= i + n + 3)
    <3> SUFFICES ASSUME j >= i + n + 3 PROVE FALSE
      OBVIOUS
    <3>1. i + n + 3 \in (i + 2 + 1) .. j
      BY <2>1
    <3>2. s[i + n + 3] = "v"
      BY <2>1, <3>1
    <3> QED BY <1>1, <3>2 DEF FunctionEnd
  <2> QED BY <1>1, <2>1, <2>2
<1>3. ASSUME NEW j \in i + 3 .. i + n + 2 PROVE j \in places
  <2>1. j \in (i + 2 + 1) .. Len(s) /\ \A k \in (i + 2 + 1) .. j : k \in i + 3 .. i + n + 2
    BY <1>1
  <2> QED BY <1>1, <2>1
<1>4. places = i + 3 .. i + n + 2
  <2> HIDE DEF places
  <2>1. places \subseteq i + 3 .. i + n + 2
    BY <1>2
  <2>2. i + 3 .. i + n + 2 \subseteq places
    BY <1>3
  <2> QED BY <2>1, <2>2
<1>5. Cardinality(i + 3 .. i + n + 2) = n
  <2>1. i + 3 \in Int /\ i + n + 2 \in Int
    OBVIOUS
  <2>2. Cardinality((i + 3) .. (i + n + 2)) = IF i + 3 > i + n + 2 THEN 0 ELSE (i + n + 2) - (i + 3) + 1
    BY <2>1, FS_Interval
  <2> QED BY <2>2
<1> QED BY <1>4, <1>5

-----------------------------------------------------------------------------
(* A reader of the tags, token by token, that what the filters of the tags *)
(* do to a text can be compared with.                                      *)
ReadStates == [in : BOOLEAN, hold : Texts, response : Texts, thought : Texts]
State(in, hold, response, thought) ==
    [in |-> in, hold |-> hold, response |-> response, thought |-> thought]
Reads(y, e) ==
    LET half == e = TagOf(y.in)[1]
        sided == Sided(y, y.hold \o (IF half THEN <<>> ELSE <<e>>))
    IN IF y.hold # <<>> /\ e = TagOf(y.in)[2] THEN State(~y.in, <<>>, y.response, y.thought)
       ELSE State(y.in, IF half THEN <<e>> ELSE <<>>, sided.response, sided.thought)
Run(y, d) ==
    LET after[k \in 0 .. Len(d)] == IF k = 0 THEN y ELSE Reads(after[k - 1], d[k])
    IN after[Len(d)]
Reading(f, y, d) ==
    /\ f \in [0 .. Len(d) -> ReadStates] /\ f[0] = y
    /\ \A k \in 1 .. Len(d) : f[k] = Reads(f[k - 1], d[k])

\* The two halves of the tags.
LEMMA TagHalves ==
    ASSUME NEW in \in BOOLEAN
    PROVE  /\ TagOf(in)[1] \in Tokens /\ TagOf(in)[2] \in Tokens
           /\ TagOf(in) = <<TagOf(in)[1], TagOf(in)[2]>> /\ TagOf(in)[1] # TagOf(in)[2]
BY DEF TagOf, ThinkOpen, ThinkClose, Tokens

\* A token takes the reader from a state to a state.
LEMMA ReadsTyped ==
    ASSUME NEW y \in ReadStates, NEW e \in Tokens
    PROVE  Reads(y, e) \in ReadStates
<1>1. /\ y.in \in BOOLEAN /\ y.hold \in Texts /\ y.response \in Texts /\ y.thought \in Texts
  BY DEF ReadStates
<1>2. <<>> \in Texts /\ <<e>> \in Texts
  BY DEF Texts
<1> DEFINE plain == y.hold \o (IF e = TagOf(y.in)[1] THEN <<>> ELSE <<e>>)
<1>3. plain \in Texts
  BY <1>1, <1>2 DEF Texts
<1>4. Sided(y, plain).response \in Texts /\ Sided(y, plain).thought \in Texts
  <2> HIDE DEF plain
  <2> QED BY <1>1, <1>3 DEF Sided, Texts
<1>5. Reads(y, e) = IF y.hold # <<>> /\ e = TagOf(y.in)[2]
                    THEN State(~y.in, <<>>, y.response, y.thought)
                    ELSE State(y.in, IF e = TagOf(y.in)[1] THEN <<e>> ELSE <<>>,
                               Sided(y, plain).response, Sided(y, plain).thought)
  BY DEF Reads
<1> HIDE DEF plain
<1>6. \A b \in BOOLEAN, h \in Texts, r \in Texts, t \in Texts : State(b, h, r, t) \in ReadStates
  BY DEF State, ReadStates
<1>7. (~y.in) \in BOOLEAN
  OBVIOUS
<1> QED BY <1>1, <1>2, <1>4, <1>5, <1>6, <1>7

\* What the reader has come to at the end of a text is the last of the states it
\* goes through.
LEMMA RunSteps ==
    ASSUME NEW y \in ReadStates, NEW d \in Texts
    PROVE  \E f : Reading(f, y, d) /\ Run(y, d) = f[Len(d)]
<1> DEFINE N == Len(d)
           Is(f) == f = [k \in 0 .. N |-> IF k = 0 THEN y ELSE Reads(f[k - 1], d[k])]
           step == [k \in 1 .. N |-> [x \in ReadStates |-> Reads(x, d[k])]]
           after == CHOOSE f : Is(f)
<1>0. N \in Nat /\ \A k \in 1 .. N : d[k] \in Tokens
  BY DEF Texts
<1>1. Run(y, d) = after[N]
  BY DEF Run
<1>2. \A k \in 1 .. N : \A x \in ReadStates : Reads(x, d[k]) \in ReadStates
  BY <1>0, ReadsTyped
<1>3. step \in [1 .. N -> [ReadStates -> ReadStates]]
  BY <1>2
<1>4. PICK f : Follows(f, N, ReadStates, y, step)
  <2> HIDE DEF step, N
  <2> QED BY <1>0, <1>3, Recursion
<1>5. /\ f \in [0 .. N -> ReadStates] /\ f[0] = y
      /\ \A k \in 1 .. N : f[k] = step[k][f[k - 1]]
  BY <1>4 DEF Follows
<1>6. \A k \in 1 .. N : f[k] = Reads(f[k - 1], d[k])
  <2> SUFFICES ASSUME NEW k \in 1 .. N PROVE f[k] = Reads(f[k - 1], d[k])
    OBVIOUS
  <2>1. k - 1 \in 0 .. N
    BY <1>0
  <2>2. f[k - 1] \in ReadStates
    BY <1>5, <2>1
  <2> QED BY <1>5, <2>2
<1> HIDE DEF N, step
<1>7. Is(f)
  <2>1. \A k \in 0 .. N : f[k] = IF k = 0 THEN y ELSE Reads(f[k - 1], d[k])
    <3>1. \A k \in 0 .. N : k = 0 \/ k \in 1 .. N
      BY <1>0
    <3> QED BY <1>5, <1>6, <3>1
  <2>2. f = [k \in 0 .. N |-> f[k]]
    BY <1>5
  <2> QED BY <2>1, <2>2
<1>8. Is(after)
  BY <1>7
<1> HIDE DEF after
<1>9. after[0] = y /\ \A k \in 1 .. N : after[k] = Reads(after[k - 1], d[k])
  <2>1. \A k \in 0 .. N : after[k] = IF k = 0 THEN y ELSE Reads(after[k - 1], d[k])
    BY <1>8, Zenon
  <2>2. 0 \in 0 .. N /\ \A k \in 1 .. N : k \in 0 .. N /\ k # 0
    BY <1>0
  <2> QED BY <2>1, <2>2, Zenon
<1>10. \A k \in 0 .. N : k \in {j \in 0 .. N : after[j] \in ReadStates}
  <2> DEFINE T == {j \in 0 .. N : after[j] \in ReadStates}
  <2>1. 0 \in T
    BY <1>0, <1>9
  <2>2. \A k \in 1 .. N : k - 1 \in T => k \in T
    <3> SUFFICES ASSUME NEW k \in 1 .. N, k - 1 \in T PROVE k \in T
      OBVIOUS
    <3>1. after[k - 1] \in ReadStates /\ k \in 0 .. N
      BY <1>0
    <3>2. Reads(after[k - 1], d[k]) \in ReadStates
      BY <1>2, <3>1
    <3> QED BY <1>9, <3>1, <3>2
  <2> HIDE DEF T
  <2>3. \A k \in 0 .. N : k \in T
    BY <1>0, <2>1, <2>2, Induction
  <2> QED BY <2>3 DEF T
<1>11. after \in [0 .. N -> ReadStates]
  <2>1. \A k \in 0 .. N : after[k] \in ReadStates
    BY <1>10
  <2> QED BY <1>8, <2>1
<1> HIDE DEF Is
<1>12. Reading(after, y, d)
  BY <1>9, <1>11 DEF Reading, N
<1> QED BY <1>1, <1>12 DEF N

\* Two texts that begin alike are read alike.
LEMMA ReadAlike ==
    ASSUME NEW y, NEW d \in Texts, NEW c \in Texts, NEW f, NEW g, Reading(f, y, d), Reading(g, y, c),
           Len(d) <= Len(c), \A k \in 1 .. Len(d) : c[k] = d[k]
    PROVE  f[Len(d)] = g[Len(d)]
<1> DEFINE T == {k \in 0 .. Len(d) : f[k] = g[k]}
<1>0. Len(d) \in Nat /\ Len(c) \in Nat
  BY DEF Texts
<1>1. 0 \in T
  BY <1>0 DEF Reading
<1>2. \A k \in 1 .. Len(d) : k - 1 \in T => k \in T
  <2> SUFFICES ASSUME NEW k \in 1 .. Len(d), k - 1 \in T PROVE k \in T
    OBVIOUS
  <2>1. k \in 1 .. Len(c) /\ f[k - 1] = g[k - 1] /\ k \in 0 .. Len(d)
    BY <1>0
  <2>2. f[k] = Reads(f[k - 1], d[k]) /\ g[k] = Reads(g[k - 1], c[k])
    BY <2>1 DEF Reading
  <2> QED BY <2>1, <2>2
<1>3. Len(d) \in T
  <2>1. Len(d) \in 0 .. Len(d)
    BY <1>0
  <2> HIDE DEF T
  <2> QED BY <1>0, <1>1, <1>2, <2>1, Induction
<1> QED BY <1>3

\* Of nothing, of one token more, of one token, of two texts.
LEMMA RunNothing ==
    ASSUME NEW y \in ReadStates
    PROVE  Run(y, <<>>) = y
<1>1. <<>> \in Texts /\ Len(<<>>) = 0
  BY DEF Texts
<1>2. PICK f : Reading(f, y, <<>>) /\ Run(y, <<>>) = f[Len(<<>>)]
  BY <1>1, RunSteps
<1> QED BY <1>1, <1>2 DEF Reading

\* The reader reads a text to its last token and then that token.
LEMMA RunMore ==
    ASSUME NEW y \in ReadStates, NEW d \in Texts, NEW e \in Tokens
    PROVE  /\ Run(y, d) \in ReadStates
           /\ Run(y, d \o <<e>>) = Reads(Run(y, d), e)
<1> DEFINE c == d \o <<e>>
<1>1. /\ c \in Texts /\ Len(d) \in Nat /\ Len(c) = Len(d) + 1
      /\ \A k \in 1 .. Len(d) : c[k] = d[k]
      /\ c[Len(d) + 1] = e
  BY DEF Texts
<1> HIDE DEF c
<1>2. PICK f : Reading(f, y, d) /\ Run(y, d) = f[Len(d)]
  BY RunSteps
<1>3. PICK g : Reading(g, y, c) /\ Run(y, c) = g[Len(c)]
  BY <1>1, RunSteps
<1>4. f[Len(d)] = g[Len(d)]
  BY <1>1, <1>2, <1>3, ReadAlike
<1>5. Len(d) + 1 \in 1 .. Len(c) /\ Len(d) + 1 - 1 = Len(d) /\ Len(d) \in 0 .. Len(d)
  BY <1>1
<1>6. g[Len(d) + 1] = Reads(g[Len(d) + 1 - 1], c[Len(d) + 1])
  BY <1>3, <1>5 DEF Reading
<1>7. f[Len(d)] \in ReadStates
  BY <1>2, <1>5 DEF Reading
<1> QED BY <1>1, <1>2, <1>3, <1>4, <1>5, <1>6, <1>7 DEF c

\* A text of one token is one step of the reader.
LEMMA RunToken ==
    ASSUME NEW y \in ReadStates, NEW e \in Tokens
    PROVE  Run(y, <<e>>) = Reads(y, e)
<1>1. <<>> \in Texts /\ <<>> \o <<e>> = <<e>>
  BY DEF Texts
<1>2. Run(y, <<>> \o <<e>>) = Reads(Run(y, <<>>), e)
  BY <1>1, RunMore
<1> QED BY <1>1, <1>2, RunNothing

\* A text takes the reader from a state to a state.
LEMMA RunTyped ==
    ASSUME NEW y \in ReadStates, NEW d \in Texts
    PROVE  Run(y, d) \in ReadStates
<1>1. "w" \in Tokens
  BY DEF Tokens
<1> QED BY <1>1, RunMore

\* The beginnings of a text, one token longer each.
LEMMA Beginnings ==
    ASSUME NEW S, NEW s \in Seq(S)
    PROVE  /\ SubSeq(s, 1, 0) = <<>> /\ SubSeq(s, 1, Len(s)) = s
           /\ \A k \in 1 .. Len(s) : /\ SubSeq(s, 1, k) = SubSeq(s, 1, k - 1) \o <<s[k]>>
                                     /\ SubSeq(s, 1, k - 1) \in Seq(S) /\ s[k] \in S
                                     /\ SubSeq(s, 1, k) \in Seq(S)
<1>1. Len(s) \in Nat
  OBVIOUS
<1>2. SubSeq(s, 1, 0) = <<>>
  OBVIOUS
<1>3. SubSeq(s, 1, Len(s)) = s
  <2> DEFINE t == SubSeq(s, 1, Len(s))
  <2>1. t \in Seq(S) /\ Len(t) = Len(s) /\ \A k \in 1 .. Len(s) : t[k] = s[k]
    BY <1>1
  <2> HIDE DEF t
  <2>2. t = s
    BY <1>1, <2>1, SeqEqual
  <2> QED BY <2>2 DEF t
<1>4. ASSUME NEW k \in 1 .. Len(s)
      PROVE  /\ SubSeq(s, 1, k) = SubSeq(s, 1, k - 1) \o <<s[k]>>
             /\ SubSeq(s, 1, k - 1) \in Seq(S) /\ s[k] \in S
             /\ SubSeq(s, 1, k) \in Seq(S)
  <2> DEFINE u == SubSeq(s, 1, k)
             v == SubSeq(s, 1, k - 1)
             w == v \o <<s[k]>>
  <2>1. u \in Seq(S) /\ Len(u) = k /\ \A j \in 1 .. k : u[j] = s[j]
    BY <1>1
  <2>2. v \in Seq(S) /\ Len(v) = k - 1 /\ \A j \in 1 .. k - 1 : v[j] = s[j]
    BY <1>1
  <2>3. s[k] \in S /\ <<s[k]>> \in Seq(S) /\ Len(<<s[k]>>) = 1
    OBVIOUS
  <2> HIDE DEF u, v
  <2>4. w \in Seq(S) /\ Len(w) = k /\ \A j \in 1 .. k : w[j] = s[j]
    <3>1. w \in Seq(S) /\ Len(w) = k - 1 + 1
      BY <2>2, <2>3
    <3>2. ASSUME NEW j \in 1 .. k PROVE w[j] = s[j]
      <4>1. j \in 1 .. k - 1 \/ j = k - 1 + 1
        OBVIOUS
      <4> QED BY <2>2, <2>3, <4>1
    <3> HIDE DEF w
    <3> QED BY <3>1, <3>2
  <2> HIDE DEF w
  <2>5. u = w
    BY <1>1, <2>1, <2>4, SeqEqual
  <2> QED BY <2>1, <2>2, <2>3, <2>5 DEF u, v, w
<1> QED BY <1>2, <1>3, <1>4

\* The reader reads two texts joined as one after the other.
LEMMA RunJoined ==
    ASSUME NEW y \in ReadStates, NEW d \in Texts, NEW c \in Texts
    PROVE  Run(y, d \o c) = Run(Run(y, d), c)
<1> DEFINE T == {k \in 0 .. Len(c) :
                   Run(y, d \o SubSeq(c, 1, k)) = Run(Run(y, d), SubSeq(c, 1, k))}
           z == Run(y, d)
<1>0. c \in Seq(Tokens) /\ d \in Seq(Tokens) /\ Len(c) \in Nat /\ z \in ReadStates
  BY RunTyped DEF Texts
<1> HIDE DEF z
<1>1. 0 \in T
  <2>1. SubSeq(c, 1, 0) = <<>> /\ d \o <<>> = d
    BY <1>0, Beginnings
  <2>2. Run(z, <<>>) = z
    BY <1>0, RunNothing
  <2>3. 0 \in 0 .. Len(c)
    BY <1>0
  <2> QED BY <2>1, <2>2, <2>3 DEF z
<1>2. \A k \in 1 .. Len(c) : k - 1 \in T => k \in T
  <2> SUFFICES ASSUME NEW k \in 1 .. Len(c), k - 1 \in T PROVE k \in T
    OBVIOUS
  <2> DEFINE p == SubSeq(c, 1, k - 1)
             q == SubSeq(c, 1, k)
             e == c[k]
  <2>1. q = p \o <<e>> /\ p \in Seq(Tokens) /\ e \in Tokens /\ q \in Seq(Tokens)
    BY <1>0, Beginnings
  <2>2. Run(y, d \o p) = Run(z, p) /\ k \in 0 .. Len(c)
    BY DEF z
  <2> HIDE DEF p, q, e
  <2>3. d \o q = (d \o p) \o <<e>> /\ d \o p \in Texts /\ p \in Texts
    BY <1>0, <2>1 DEF Texts
  <2>4. Run(y, (d \o p) \o <<e>>) = Reads(Run(y, d \o p), e)
    BY <2>1, <2>3, RunMore
  <2>5. Run(z, p \o <<e>>) = Reads(Run(z, p), e)
    BY <1>0, <2>1, <2>3, RunMore
  <2>6. Run(y, d \o q) = Run(z, q)
    BY <2>1, <2>2, <2>3, <2>4, <2>5
  <2> QED BY <2>2, <2>6 DEF q, z
<1>3. Len(c) \in T
  <2>1. Len(c) \in 0 .. Len(c)
    BY <1>0
  <2> HIDE DEF T
  <2> QED BY <1>0, <1>1, <1>2, <2>1, Induction
<1>4. SubSeq(c, 1, Len(c)) = c
  BY <1>0, Beginnings
<1> QED BY <1>3, <1>4

-----------------------------------------------------------------------------
\* What the reader has come to where a text has no tag.
ReadPlain(in, response, thought, u) ==
    LET half == Held(u, TagOf(in))
        plain == IF half THEN Before(u, Len(u)) ELSE u
    IN State(in, IF half THEN <<TagOf(in)[1]>> ELSE <<>>,
             IF in THEN response ELSE response \o plain,
             IF in THEN thought \o plain ELSE thought)
\* What the reader has come to is a state, and the half tag it holds is the end of the
\* text.
LEMMA PlainTyped ==
    ASSUME NEW in \in BOOLEAN, NEW r \in Texts, NEW t \in Texts, NEW u \in Texts
    PROVE  /\ ReadPlain(in, r, t, u) \in ReadStates /\ State(in, <<>>, r, t) \in ReadStates
           /\ Held(u, TagOf(in)) => /\ Before(u, Len(u)) \in Texts
                                    /\ u = Before(u, Len(u)) \o <<TagOf(in)[1]>>
                                    /\ From(u, Len(Before(u, Len(u))) + 1) = <<TagOf(in)[1]>>
           /\ From(u, Len(u) + 1) = <<>>
<1>0. u \in Seq(Tokens) /\ Len(u) \in Nat /\ <<>> \in Texts
  BY DEF Texts
<1>1. ASSUME Held(u, TagOf(in))
      PROVE  /\ Before(u, Len(u)) \in Texts /\ u = Before(u, Len(u)) \o <<TagOf(in)[1]>>
             /\ From(u, Len(Before(u, Len(u))) + 1) = <<TagOf(in)[1]>>
  <2>1. Len(u) \in 1 .. Len(u) /\ u[Len(u)] = TagOf(in)[1] /\ Len(u) \in 1 .. Len(u) + 1
    BY <1>0, <1>1 DEF Held
  <2>2. /\ SubSeq(u, 1, Len(u)) = u /\ SubSeq(u, 1, Len(u)) = SubSeq(u, 1, Len(u) - 1) \o <<u[Len(u)]>>
        /\ SubSeq(u, 1, Len(u) - 1) \in Seq(Tokens)
    BY <1>0, <2>1, Beginnings
  <2>3. Len(Before(u, Len(u))) = Len(u) - 1
    BY <1>0, <2>1, Parts
  <2>4. Len(u) - 1 + 1 = Len(u)
    BY <1>0
  <2>5. From(u, Len(u)) = <<u[Len(u)]>>
    <3> DEFINE m == Len(u)
    <3>1. m \in 1 .. Len(u) + 1 /\ Len(u) - m + 1 = 1 /\ 1 \in 1 .. 1
      BY <1>0, <2>1
    <3>2. m + 1 - 1 = m
      BY <1>0
    <3> HIDE DEF m
    <3>3. /\ From(u, m) \in Seq(Tokens) /\ Len(From(u, m)) = Len(u) - m + 1
          /\ \A k \in 1 .. Len(u) - m + 1 : From(u, m)[k] = u[m + k - 1]
      BY <1>0, <3>1, Parts
    <3>4. Len(From(u, m)) = 1 /\ From(u, m)[1] = u[m]
      BY <3>1, <3>2, <3>3
    <3>5. From(u, m) = <<u[m]>>
      <4>1. /\ <<u[m]>> \in Seq(Tokens) /\ Len(<<u[m]>>) = 1 /\ <<u[m]>>[1] = u[m]
        BY <1>0, <2>1 DEF m
      <4> DEFINE a == From(u, m)
                 b == <<u[m]>>
      <4>2. a \in Seq(Tokens) /\ Len(a) = 1 /\ a[1] = u[m]
        BY <3>3, <3>4
      <4>3. b \in Seq(Tokens) /\ Len(b) = 1 /\ b[1] = u[m]
        BY <4>1
      <4> HIDE DEF a, b
      <4>4. \A k \in 1 .. Len(a) : a[k] = b[k]
        BY <4>2, <4>3
      <4>5. a = b
        BY <4>2, <4>3, <4>4, SeqEqual
      <4> QED BY <4>5 DEF a, b
    <3> QED BY <3>5 DEF m
  <2> QED BY <2>1, <2>2, <2>3, <2>4, <2>5 DEF Before, Texts
<1>2. From(u, Len(u) + 1) = <<>>
  BY <1>0 DEF From
<1>3. \A b \in BOOLEAN, h \in Texts, p \in Texts, q \in Texts : State(b, h, p, q) \in ReadStates
  BY DEF State, ReadStates
<1> DEFINE plain == IF Held(u, TagOf(in)) THEN Before(u, Len(u)) ELSE u
<1>4. plain \in Texts /\ <<TagOf(in)[1]>> \in Texts
  BY <1>1, TagHalves DEF Texts
<1> HIDE DEF plain
<1>5. r \o plain \in Texts /\ t \o plain \in Texts
  BY <1>4 DEF Texts
<1>6. ReadPlain(in, r, t, u) = State(in, IF Held(u, TagOf(in)) THEN <<TagOf(in)[1]>> ELSE <<>>,
                                     IF in THEN r ELSE r \o plain, IF in THEN t \o plain ELSE t)
  BY DEF ReadPlain, plain
<1>7. ReadPlain(in, r, t, u) \in ReadStates
  BY <1>0, <1>3, <1>4, <1>5, <1>6
<1> QED BY <1>0, <1>1, <1>2, <1>3, <1>7

\* One token more that does not complete a tag.
LEMMA PlainMore ==
    ASSUME NEW in \in BOOLEAN, NEW r \in Texts, NEW t \in Texts, NEW u \in Texts, NEW e \in Tokens,
           ~(Held(u, TagOf(in)) /\ e = TagOf(in)[2])
    PROVE  Reads(ReadPlain(in, r, t, u), e) = ReadPlain(in, r, t, u \o <<e>>)
<1> DEFINE one == TagOf(in)[1]
           y == ReadPlain(in, r, t, u)
           w == u \o <<e>>
           half == e = one
           plain == IF Held(u, TagOf(in)) THEN Before(u, Len(u)) ELSE u
           more == IF half THEN u ELSE w
           tail == IF half THEN <<>> ELSE <<e>>
<1>0. /\ one \in Tokens /\ <<one>> \in Texts /\ <<>> \in Texts /\ <<e>> \in Texts
      /\ u \in Seq(Tokens) /\ Len(u) \in Nat
  BY TagHalves DEF Texts
<1>1. /\ y.in = in /\ y.hold = IF Held(u, TagOf(in)) THEN <<one>> ELSE <<>>
      /\ y.response = IF in THEN r ELSE r \o plain
      /\ y.thought = IF in THEN t \o plain ELSE t
  BY DEF ReadPlain, State
<1>2. Held(u, TagOf(in)) => plain \in Texts /\ u = plain \o <<one>>
  BY PlainTyped
<1>3. plain \in Texts /\ y.hold \in Texts /\ plain \o y.hold = u
  <2>1. CASE Held(u, TagOf(in))
    BY <1>0, <1>1, <1>2, <2>1
  <2>2. CASE ~Held(u, TagOf(in))
    <3>1. plain = u /\ y.hold = <<>>
      BY <1>1, <2>2
    <3> QED BY <1>0, <3>1
  <2> QED BY <2>1, <2>2
<1>a. <<one>> # <<>>
  OBVIOUS
<1>4. ~(y.hold # <<>> /\ e = TagOf(y.in)[2])
  BY <1>1
<1>5. Held(w, TagOf(in)) <=> half
  <2>1. w # <<>> /\ w[Len(w)] = e
    BY <1>0
  <2> QED BY <2>1 DEF Held
<1>6. Before(w, Len(w)) = u /\ w \in Texts
  <2>1. Len(w) = Len(u) + 1 /\ w \in Seq(Tokens) /\ \A k \in 1 .. Len(u) : w[k] = u[k]
    BY <1>0
  <2>2. Len(w) \in 1 .. Len(w) + 1 /\ Len(w) - 1 = Len(u)
    BY <1>0, <2>1
  <2> HIDE DEF w
  <2>3. /\ Before(w, Len(w)) \in Seq(Tokens) /\ Len(Before(w, Len(w))) = Len(w) - 1
        /\ \A k \in 1 .. Len(w) - 1 : Before(w, Len(w))[k] = w[k]
    BY <2>1, <2>2, Parts
  <2> DEFINE b == Before(w, Len(w))
  <2> HIDE DEF b
  <2>4. b \in Seq(Tokens) /\ Len(b) = Len(u) /\ \A k \in 1 .. Len(b) : b[k] = u[k]
    BY <2>1, <2>2, <2>3 DEF b
  <2>5. b = u
    BY <1>0, <2>4, SeqEqual
  <2> QED BY <2>1, <2>5 DEF b, Texts
<1>7. ReadPlain(in, r, t, w) = State(in, IF half THEN <<one>> ELSE <<>>,
                                     IF in THEN r ELSE r \o more, IF in THEN t \o more ELSE t)
  BY <1>5, <1>6 DEF ReadPlain
<1>8. tail \in Texts /\ u \o tail = more
  <2>1. u \o <<>> = u
    BY <1>0
  <2> QED BY <1>0, <2>1
<1> DEFINE sided == Sided(y, y.hold \o tail)
<1>9. Reads(y, e) = State(in, IF half THEN <<e>> ELSE <<>>, sided.response, sided.thought)
  <2>1. Reads(y, e) = IF y.hold # <<>> /\ e = TagOf(y.in)[2]
                      THEN State(~y.in, <<>>, y.response, y.thought)
                      ELSE State(y.in, IF e = TagOf(y.in)[1] THEN <<e>> ELSE <<>>,
                           Sided(y, y.hold \o (IF e = TagOf(y.in)[1] THEN <<>> ELSE <<e>>)).response,
                           Sided(y, y.hold \o (IF e = TagOf(y.in)[1] THEN <<>> ELSE <<e>>)).thought)
    BY DEF Reads
  <2>2. y.in = in
    BY <1>1
  <2> HIDE DEF y
  <2> QED BY <1>4, <2>1, <2>2
<1>10. /\ sided.response = IF in THEN y.response ELSE y.response \o (y.hold \o tail)
       /\ sided.thought = IF in THEN y.thought \o (y.hold \o tail) ELSE y.thought
  <2> HIDE DEF y, tail
  <2> QED BY <1>1 DEF Sided
<1> HIDE DEF y, plain, tail, more
<1>11. plain \o (y.hold \o tail) = more
  <2>1. plain \o (y.hold \o tail) = (plain \o y.hold) \o tail
    <3>1. plain \in Seq(Tokens) /\ y.hold \in Seq(Tokens) /\ tail \in Seq(Tokens)
      BY <1>3, <1>8 DEF Texts
    <3>2. \A a, b, c \in Seq(Tokens) : a \o (b \o c) = (a \o b) \o c
      BY Regrouped
    <3> QED BY <3>1, <3>2, Zenon
  <2> QED BY <1>3, <1>8, <2>1
<1>12. \A x \in Texts : (x \o plain) \o (y.hold \o tail) = x \o more
  <2> SUFFICES ASSUME NEW x \in Texts PROVE (x \o plain) \o (y.hold \o tail) = x \o more
    OBVIOUS
  <2>1. y.hold \o tail \in Texts
    BY <1>3, <1>8 DEF Texts
  <2>2. (x \o plain) \o (y.hold \o tail) = x \o (plain \o (y.hold \o tail))
    <3>1. x \in Seq(Tokens) /\ plain \in Seq(Tokens) /\ y.hold \o tail \in Seq(Tokens)
      BY <1>3, <2>1 DEF Texts
    <3>2. \A a, b, c \in Seq(Tokens) : (a \o b) \o c = a \o (b \o c)
      BY Regrouped
    <3> QED BY <3>1, <3>2, Zenon
  <2> QED BY <1>11, <2>2
<1>13. /\ sided.response = IF in THEN r ELSE r \o more
       /\ sided.thought = IF in THEN t \o more ELSE t
  <2> HIDE DEF sided
  <2> QED BY <1>1, <1>10, <1>12
<1> QED BY <1>7, <1>9, <1>13 DEF y

\* So a text without a tag is read.
LEMMA NoTag ==
    ASSUME NEW in \in BOOLEAN, NEW r \in Texts, NEW t \in Texts, NEW u \in Texts,
           Find(u, TagOf(in)) = 0
    PROVE  Run(State(in, <<>>, r, t), u) = ReadPlain(in, r, t, u)
<1> DEFINE y == State(in, <<>>, r, t)
           one == TagOf(in)[1]
           two == TagOf(in)[2]
           T == {k \in 0 .. Len(u) : Run(y, SubSeq(u, 1, k)) = ReadPlain(in, r, t, SubSeq(u, 1, k))}
<1>0. u \in Seq(Tokens) /\ Len(u) \in Nat /\ y \in ReadStates /\ <<>> \in Texts
  <2>1. y \in ReadStates
    BY PlainTyped
  <2>2. u \in Seq(Tokens) /\ Len(u) \in Nat /\ <<>> \in Texts
    BY DEF Texts
  <2> QED BY <2>1, <2>2
<1>1. \A i \in 1 .. Len(u) - 1 : ~(u[i] = one /\ u[i + 1] = two)
  <2>1. one \in Tokens /\ two \in Tokens /\ TagOf(in) = <<one, two>>
    BY TagHalves
  <2> HIDE DEF one, two
  <2>2. Find(u, <<one, two>>) = 0
    BY <2>1
  <2> QED BY <1>0, <2>1, <2>2, FoundTag
<1>2. 0 \in T
  <2>1. SubSeq(u, 1, 0) = <<>>
    BY <1>0, Beginnings
  <2>2. Run(y, <<>>) = y
    <3> HIDE DEF y
    <3> QED BY <1>0, RunNothing
  <2>3. r \o <<>> = r /\ t \o <<>> = t
    BY DEF Texts
  <2>4. ReadPlain(in, r, t, <<>>) = State(in, <<>>, IF in THEN r ELSE r \o <<>>, IF in THEN t \o <<>> ELSE t)
    BY DEF ReadPlain, Held
  <2>5. ReadPlain(in, r, t, <<>>) = State(in, <<>>, r, t)
    BY <2>3, <2>4
  <2>6. 0 \in 0 .. Len(u)
    BY <1>0
  <2> HIDE DEF y
  <2> QED BY <2>1, <2>2, <2>5, <2>6 DEF y
<1>3. \A k \in 1 .. Len(u) : k - 1 \in T => k \in T
  <2> SUFFICES ASSUME NEW k \in 1 .. Len(u), k - 1 \in T PROVE k \in T
    OBVIOUS
  <2> DEFINE p == SubSeq(u, 1, k - 1)
             q == SubSeq(u, 1, k)
             e == u[k]
  <2>1. q = p \o <<e>> /\ p \in Seq(Tokens) /\ e \in Tokens
    BY <1>0, Beginnings
  <2>2. Run(y, p) = ReadPlain(in, r, t, p) /\ k \in 0 .. Len(u) /\ p \in Texts
    BY <2>1 DEF Texts
  <2>3. ~(Held(p, TagOf(in)) /\ e = TagOf(in)[2])
    <3> SUFFICES ASSUME Held(p, TagOf(in)), e = two PROVE FALSE
      OBVIOUS
    <3>1. p # <<>> /\ p[Len(p)] = one
      BY DEF Held
    <3>2. Len(p) = k - 1 /\ (k - 1 # 0 => p[k - 1] = u[k - 1])
      BY <1>0
    <3>3. k - 1 # 0
      BY <2>1, <3>1, <3>2
    <3>4. k - 1 \in 1 .. Len(u) - 1 /\ k - 1 + 1 = k
      BY <1>0, <3>3
    <3>5. u[k - 1] = one
      BY <3>1, <3>2, <3>3
    <3>6. u[k - 1 + 1] = two
      BY <3>4
    <3> QED BY <1>1, <3>4, <3>5, <3>6
  <2> HIDE DEF p, q, e, y
  <2>4. Run(y, p \o <<e>>) = Reads(Run(y, p), e)
    BY <1>0, <2>1, <2>2, RunMore
  <2>5. Reads(ReadPlain(in, r, t, p), e) = ReadPlain(in, r, t, p \o <<e>>)
    BY <2>1, <2>2, <2>3, PlainMore
  <2>6. Run(y, q) = ReadPlain(in, r, t, q)
    BY <2>1, <2>2, <2>4, <2>5
  <2> QED BY <2>2, <2>6 DEF q
<1>4. Len(u) \in T
  <2>1. Len(u) \in 0 .. Len(u)
    BY <1>0
  <2> HIDE DEF T
  <2> QED BY <1>0, <1>2, <1>3, <2>1, Induction
<1>5. SubSeq(u, 1, Len(u)) = u
  BY <1>0, Beginnings
<1> QED BY <1>4, <1>5

\* A tag takes the reader to the other side.
LEMMA ThroughTag ==
    ASSUME NEW in \in BOOLEAN, NEW r \in Texts, NEW t \in Texts, NEW u \in Texts,
           Find(u, TagOf(in)) # 0
    PROVE  LET at == Find(u, TagOf(in))
           IN  /\ at \in 1 .. Len(u) /\ at + 2 \in 1 .. Len(u) + 1
               /\ Before(u, at) \in Texts /\ From(u, at + 2) \in Texts
               /\ Len(From(u, at + 2)) < Len(u)
               /\ Run(State(in, <<>>, r, t), u)
                    = Run(State(~in, <<>>, IF in THEN r ELSE r \o Before(u, at),
                                           IF in THEN t \o Before(u, at) ELSE t),
                          From(u, at + 2))
<1> DEFINE one == TagOf(in)[1]
           two == TagOf(in)[2]
           at == Find(u, TagOf(in))
           y == State(in, <<>>, r, t)
           B == Before(u, at)
           A == From(u, at + 2)
           p == SubSeq(u, 1, at)
           q == SubSeq(u, 1, at + 1)
<1>0. /\ u \in Seq(Tokens) /\ Len(u) \in Nat /\ y \in ReadStates
      /\ one \in Tokens /\ two \in Tokens /\ TagOf(in) = <<one, two>>
  <2>1. y \in ReadStates
    BY PlainTyped
  <2>2. u \in Seq(Tokens) /\ Len(u) \in Nat
    BY DEF Texts
  <2>3. one \in Tokens /\ two \in Tokens /\ TagOf(in) = <<one, two>>
    BY TagHalves
  <2> QED BY <2>1, <2>2, <2>3
<1>1. /\ at \in 0 .. Len(u) /\ at + 1 <= Len(u) /\ u[at] = one /\ u[at + 1] = two
      /\ \A i \in 1 .. at - 1 : ~(u[i] = one /\ u[i + 1] = two)
  <2>1. at = Find(u, <<one, two>>) /\ at # 0
    BY <1>0
  <2> HIDE DEF at, one, two
  <2> QED BY <1>0, <2>1, FoundTag
<1>2. /\ at \in 1 .. Len(u) /\ at + 1 \in 1 .. Len(u) /\ at + 2 \in 1 .. Len(u) + 1
      /\ at \in 1 .. Len(u) + 1 /\ at + 1 - 1 = at
  BY <1>0, <1>1
<1>a. one # two
  BY TagHalves
<1> HIDE DEF at, one, two
<1>3. p = B \o <<one>> /\ B \in Seq(Tokens) /\ p \in Seq(Tokens)
  <2>1. SubSeq(u, 1, at) = SubSeq(u, 1, at - 1) \o <<u[at]>> /\ SubSeq(u, 1, at - 1) \in Seq(Tokens)
        /\ SubSeq(u, 1, at) \in Seq(Tokens)
    BY <1>0, <1>2, Beginnings
  <2> QED BY <1>1, <2>1 DEF Before
<1>4. q = p \o <<two>> /\ q \in Seq(Tokens)
  <2>1. SubSeq(u, 1, at + 1) = SubSeq(u, 1, at + 1 - 1) \o <<u[at + 1]>>
        /\ SubSeq(u, 1, at + 1) \in Seq(Tokens)
    BY <1>0, <1>2, Beginnings
  <2> QED BY <1>1, <1>2, <2>1
<1>5. u = q \o A /\ A \in Seq(Tokens) /\ Len(A) < Len(u)
  <2> DEFINE c == at + 2
  <2>1. c \in 1 .. Len(u) + 1 /\ c - 1 = at + 1 /\ c >= 2
    BY <1>2
  <2> HIDE DEF c
  <2>2. /\ u = Before(u, c) \o From(u, c) /\ From(u, c) \in Seq(Tokens)
        /\ Len(From(u, c)) = Len(u) - c + 1
    BY <1>0, <2>1, Parts
  <2>3. Len(From(u, c)) < Len(u)
    BY <1>0, <2>1, <2>2
  <2> QED BY <2>1, <2>2, <2>3 DEF c, Before
<1>6. Len(p) = at /\ \A k \in 1 .. at : p[k] = u[k]
  BY <1>0, <1>2
<1> HIDE DEF p, q, A, B
<1>7. Find(p, TagOf(in)) = 0
  <2> DEFINE i == Find(p, <<one, two>>)
  <2>0. one \in Tokens /\ two \in Tokens /\ p \in Seq(Tokens)
    BY <1>0, <1>3
  <2>1. i \in 0 .. Len(p) /\ (i # 0 => i + 1 <= Len(p) /\ p[i] = one /\ p[i + 1] = two)
    BY <2>0, FoundTag
  <2> HIDE DEF i
  <2>2. i = 0
    <3> SUFFICES ASSUME i # 0 PROVE FALSE
      OBVIOUS
    <3>1. i \in 1 .. at - 1 /\ i \in 1 .. at /\ i + 1 \in 1 .. at
      BY <1>2, <1>6, <2>1
    <3> QED BY <1>1, <1>6, <2>1, <3>1
  <2> QED BY <1>0, <2>2 DEF i
<1>8. Run(y, p) = ReadPlain(in, r, t, p)
  <2>1. p \in Texts
    BY <1>3 DEF Texts
  <2> QED BY <1>7, <2>1, NoTag
<1>9. /\ Held(p, TagOf(in)) /\ Before(p, Len(p)) = B
  <2>1. p[at] = one /\ p # <<>>
    BY <1>1, <1>2, <1>3, <1>6
  <2>2. Held(p, TagOf(in))
    BY <1>6, <2>1 DEF Held, one
  <2>3. Before(p, Len(p)) = SubSeq(p, 1, at - 1) /\ B = SubSeq(u, 1, at - 1)
    BY <1>6 DEF Before, B
  <2> DEFINE b == SubSeq(p, 1, at - 1)
             c == SubSeq(u, 1, at - 1)
  <2>4. b \in Seq(Tokens) /\ Len(b) = at - 1 /\ \A k \in 1 .. at - 1 : b[k] = p[k]
    BY <1>2, <1>3, <1>6
  <2>5. c \in Seq(Tokens) /\ Len(c) = at - 1 /\ \A k \in 1 .. at - 1 : c[k] = u[k]
    BY <1>0, <1>2
  <2> HIDE DEF b, c
  <2>6. \A k \in 1 .. Len(b) : b[k] = c[k]
    <3>1. \A k \in 1 .. at - 1 : k \in 1 .. at
      BY <1>2
    <3> QED BY <1>6, <2>4, <2>5, <3>1
  <2>7. b = c
    BY <2>4, <2>5, <2>6, SeqEqual
  <2> QED BY <2>2, <2>3, <2>7 DEF b, c
<1> DEFINE r2 == IF in THEN r ELSE r \o B
           t2 == IF in THEN t \o B ELSE t
<1>10. ReadPlain(in, r, t, p) = State(in, <<one>>, r2, t2)
  BY <1>9 DEF ReadPlain, one
<1>11. r2 \in Texts /\ t2 \in Texts /\ <<one>> \in Texts
  BY <1>0, <1>3 DEF Texts
<1> HIDE DEF r2, t2
<1>12. Reads(State(in, <<one>>, r2, t2), two) = State(~in, <<>>, r2, t2)
  <2> DEFINE z == State(in, <<one>>, r2, t2)
  <2>1. z.in = in /\ z.hold = <<one>> /\ z.response = r2 /\ z.thought = t2
    BY DEF State
  <2> HIDE DEF z
  <2>2. z.hold # <<>> /\ two = TagOf(z.in)[2]
    <3>1. <<one>> # <<>>
      OBVIOUS
    <3> QED BY <2>1, <3>1 DEF two
  <2>3. Reads(z, two) = State(~z.in, <<>>, z.response, z.thought)
    BY <2>2 DEF Reads
  <2> QED BY <2>1, <2>3 DEF z
<1>13. Run(y, q) = State(~in, <<>>, r2, t2)
  <2>1. p \in Texts
    BY <1>3 DEF Texts
  <2>2. Run(y, p \o <<two>>) = Reads(Run(y, p), two)
    <3> HIDE DEF y
    <3> QED BY <1>0, <2>1, RunMore
  <2> QED BY <1>4, <1>8, <1>10, <1>12, <2>2
<1>14. Run(y, q \o A) = Run(Run(y, q), A)
  <2>1. q \in Texts /\ A \in Texts
    BY <1>4, <1>5 DEF Texts
  <2> HIDE DEF y
  <2> QED BY <1>0, <2>1, RunJoined
<1>15. Run(y, u) = Run(State(~in, <<>>, r2, t2), A)
  BY <1>5, <1>13, <1>14
<1> QED BY <1>2, <1>3, <1>5, <1>15 DEF Texts, r2, t2, A, B, at

-----------------------------------------------------------------------------
\* ThinkTagStreamFilter goes from tag to tag where the reader goes from token to
\* token.
ReadFrom(x, r, t) == Run(State(x.in, <<>>, r \o x.response, t \o x.thought), x.rest)
\* A round of the split at tags leaves the reader where it was, and the rest shorter when
\* there was a tag.
LEMMA SplitStep ==
    ASSUME NEW x \in SplitStates
    PROVE  /\ SplitAtTag(x) \in SplitStates
           /\ Find(x.rest, TagOf(x.in)) = 0 => SplitAtTag(x) = x
           /\ Find(x.rest, TagOf(x.in)) # 0 => Len(SplitAtTag(x).rest) < Len(x.rest)
           /\ \A r, t \in Texts : ReadFrom(SplitAtTag(x), r, t) = ReadFrom(x, r, t)
<1> DEFINE at == Find(x.rest, TagOf(x.in))
           B == Before(x.rest, at)
           A == From(x.rest, at + 2)
           z == SplitAtTag(x)
<1>0. /\ x.rest \in Texts /\ x.in \in BOOLEAN /\ x.response \in Texts /\ x.thought \in Texts
      /\ <<>> \in Texts
  BY DEF SplitStates, Texts
<1>1. CASE at = 0
  <2>1. z = x
    BY <1>1 DEF SplitAtTag
  <2> QED BY <1>1, <2>1
<1>2. CASE at # 0
  <2>1. /\ B \in Texts /\ A \in Texts /\ Len(A) < Len(x.rest)
    BY <1>0, <1>2, ThroughTag
  <2>2. /\ z.rest = A /\ z.in = ~x.in
        /\ z.response = (IF x.in THEN x.response ELSE x.response \o B)
        /\ z.thought = (IF x.in THEN x.thought \o B ELSE x.thought)
        /\ z = [rest |-> z.rest, in |-> z.in, response |-> z.response, thought |-> z.thought]
    BY <1>2 DEF SplitAtTag, Sided
  <2>3. x.response \o B \in Texts /\ x.thought \o B \in Texts /\ (~x.in) \in BOOLEAN
    BY <1>0, <2>1 DEF Texts
  <2>4. ASSUME NEW r \in Texts, NEW t \in Texts PROVE ReadFrom(z, r, t) = ReadFrom(x, r, t)
    <3> DEFINE p == r \o x.response
               q == t \o x.thought
    <3>1. p \in Texts /\ q \in Texts
      BY <1>0 DEF Texts
    <3>2. Run(State(x.in, <<>>, p, q), x.rest)
            = Run(State(~x.in, <<>>, IF x.in THEN p ELSE p \o B, IF x.in THEN q \o B ELSE q), A)
      <4> HIDE DEF p, q
      <4> QED BY <1>0, <1>2, <3>1, ThroughTag
    <3>3. (r \o x.response) \o B = r \o (x.response \o B)
          /\ (t \o x.thought) \o B = t \o (x.thought \o B)
      <4>1. \A a, b, c \in Seq(Tokens) : (a \o b) \o c = a \o (b \o c)
        BY Regrouped
      <4>2. /\ r \in Seq(Tokens) /\ t \in Seq(Tokens) /\ B \in Seq(Tokens)
            /\ x.response \in Seq(Tokens) /\ x.thought \in Seq(Tokens)
        BY <1>0, <2>1 DEF Texts
      <4> HIDE DEF B
      <4>3. (r \o x.response) \o B = r \o (x.response \o B)
        BY <4>1, <4>2, Zenon
      <4>4. (t \o x.thought) \o B = t \o (x.thought \o B)
        BY <4>1, <4>2, Zenon
      <4> QED BY <4>3, <4>4, Zenon
    <3> HIDE DEF z, A, B
    <3>4. r \o z.response = (IF x.in THEN p ELSE p \o B) /\ t \o z.thought = (IF x.in THEN q \o B ELSE q)
      BY <2>2, <3>3
    <3>5. ReadFrom(z, r, t) = Run(State(z.in, <<>>, r \o z.response, t \o z.thought), z.rest)
      BY DEF ReadFrom
    <3>6. ReadFrom(x, r, t) = Run(State(x.in, <<>>, p, q), x.rest)
      BY DEF ReadFrom
    <3> QED BY <2>2, <3>2, <3>4, <3>5, <3>6
  <2> HIDE DEF z, A, B
  <2>5. z \in SplitStates
    BY <1>0, <2>1, <2>2, <2>3 DEF SplitStates
  <2> QED BY <1>2, <2>1, <2>2, <2>4, <2>5 DEF z
<1> QED BY <1>1, <1>2

\* ThinkTagStreamFilter splits a text as the reader reads it, half a tag at the end held.
LEMMA SplitRead ==
    ASSUME NEW rest \in Texts, NEW in \in BOOLEAN, NEW r \in Texts, NEW t \in Texts
    PROVE  LET s == Split(rest, in)
           IN  /\ s.response \in Texts /\ s.thought \in Texts /\ s.in \in BOOLEAN
               /\ s.hold \in {<<>>, <<TagOf(s.in)[1]>>}
               /\ Run(State(in, <<>>, r, t), rest)
                    = State(s.in, s.hold, r \o s.response, t \o s.thought)
<1> DEFINE step == [x \in SplitStates |-> SplitAtTag(x)]
           start == [rest |-> rest, in |-> in, response |-> <<>>, thought |-> <<>>]
           size == [x \in SplitStates |-> Len(x.rest)]
           I == {x \in SplitStates : ReadFrom(x, r, t) = ReadFrom(start, r, t)}
           end == SplitAtTags(rest, in)
<1>0. <<>> \in Texts /\ Len(rest) \in Nat /\ start \in SplitStates
  BY DEF Texts, SplitStates
<1>1. /\ step \in [SplitStates -> SplitStates] /\ size \in [SplitStates -> Nat]
      /\ \A x \in SplitStates : step[x] = x \/ size[step[x]] < size[x]
  <2>1. ASSUME NEW x \in SplitStates
        PROVE  /\ SplitAtTag(x) \in SplitStates /\ Len(x.rest) \in Nat
               /\ SplitAtTag(x) = x \/ Len(SplitAtTag(x).rest) < Len(x.rest)
    <3>1. Len(x.rest) \in Nat
      BY DEF SplitStates, Texts
    <3> QED BY <3>1, SplitStep
  <2> QED BY <2>1
<1>2. \A x \in I : step[x] \in I
  <2> SUFFICES ASSUME NEW x \in I PROVE step[x] \in I
    OBVIOUS
  <2>1. x \in SplitStates /\ ReadFrom(x, r, t) = ReadFrom(start, r, t)
    OBVIOUS
  <2>2. SplitAtTag(x) \in SplitStates /\ ReadFrom(SplitAtTag(x), r, t) = ReadFrom(x, r, t)
    BY <2>1, SplitStep
  <2> QED BY <2>1, <2>2
<1>3. start \in I /\ size[start] = Len(rest) /\ I \in SUBSET SplitStates
  BY <1>0
<1>4. end = Repeated(step, start, Len(rest))
  BY DEF SplitAtTags
<1>5. end \in I /\ step[end] = end
  <2>1. \A x \in I : step[x] \in I /\ (step[x] = x \/ size[step[x]] < size[x])
    BY <1>1, <1>2, <1>3
  <2> HIDE DEF step, start, size, I, end
  <2>2. Shrinks(SplitStates, I, step, size, start, Len(rest))
    BY <1>0, <1>1, <1>3, <2>1 DEF Shrinks
  <2> QED BY <1>4, <2>2, RepeatedSettles
<1>6. /\ end \in SplitStates /\ ReadFrom(end, r, t) = ReadFrom(start, r, t)
      /\ SplitAtTag(end) = end
  BY <1>5
<1>7. /\ end.rest \in Texts /\ end.in \in BOOLEAN /\ end.response \in Texts
      /\ end.thought \in Texts /\ Len(end.rest) \in Nat
  BY <1>6 DEF SplitStates, Texts
<1>8. ReadFrom(start, r, t) = Run(State(in, <<>>, r, t), rest)
  <2>1. r \o <<>> = r /\ t \o <<>> = t
    BY DEF Texts
  <2> QED BY <2>1 DEF ReadFrom
<1> DEFINE u == end.rest
           b == end.in
           half == Held(u, TagOf(b))
           plain == IF half THEN Before(u, Len(u)) ELSE u
           s == Split(rest, in)
<1>9. /\ s.in = b /\ s.hold = From(u, Len(plain) + 1)
      /\ s.response = (IF b THEN end.response ELSE end.response \o plain)
      /\ s.thought = (IF b THEN end.thought \o plain ELSE end.thought)
  <2> HIDE DEF end
  <2> QED BY DEF Split, SplitEnd, Sided, end
<1> HIDE DEF end, start, I, step, size, s
<1>10. Find(u, TagOf(b)) = 0
  <2> SUFFICES ASSUME Find(u, TagOf(b)) # 0 PROVE FALSE
    OBVIOUS
  <2>1. Len(SplitAtTag(end).rest) < Len(end.rest)
    BY <1>6, SplitStep
  <2> QED BY <1>6, <1>7, <2>1
<1>11. plain \in Texts /\ s.hold = IF half THEN <<TagOf(b)[1]>> ELSE <<>>
  <2>1. CASE half
    <3>1. /\ Before(u, Len(u)) \in Texts
          /\ From(u, Len(Before(u, Len(u))) + 1) = <<TagOf(b)[1]>>
      BY <1>7, <2>1, PlainTyped
    <3> QED BY <1>9, <2>1, <3>1
  <2>2. CASE ~half
    <3>1. From(u, Len(u) + 1) = <<>>
      BY <1>7, PlainTyped
    <3> QED BY <1>7, <1>9, <2>2, <3>1
  <2> QED BY <2>1, <2>2
<1> DEFINE p == r \o end.response
           q == t \o end.thought
<1>12. p \in Texts /\ q \in Texts
  BY <1>7 DEF Texts
<1>13. Run(State(b, <<>>, p, q), u) = ReadPlain(b, p, q, u)
  <2> HIDE DEF p, q, u, b
  <2> QED BY <1>7, <1>10, <1>12, NoTag DEF u, b
<1>14. ReadPlain(b, p, q, u) = State(b, IF half THEN <<TagOf(b)[1]>> ELSE <<>>,
                                     IF b THEN p ELSE p \o plain, IF b THEN q \o plain ELSE q)
  <2> HIDE DEF p, q, u, b
  <2> QED BY DEF ReadPlain
<1>15. ReadFrom(end, r, t) = Run(State(b, <<>>, p, q), u)
  BY DEF ReadFrom
<1>16. p \o plain = r \o (end.response \o plain) /\ q \o plain = t \o (end.thought \o plain)
  <2>1. \A f, g, h \in Seq(Tokens) : (f \o g) \o h = f \o (g \o h)
    BY Regrouped
  <2>2. /\ r \in Seq(Tokens) /\ t \in Seq(Tokens) /\ plain \in Seq(Tokens)
        /\ end.response \in Seq(Tokens) /\ end.thought \in Seq(Tokens)
    BY <1>7, <1>11 DEF Texts
  <2> HIDE DEF plain
  <2>3. (r \o end.response) \o plain = r \o (end.response \o plain)
    BY <2>1, <2>2, Zenon
  <2>4. (t \o end.thought) \o plain = t \o (end.thought \o plain)
    BY <2>1, <2>2, Zenon
  <2> QED BY <2>3, <2>4, Zenon
<1>17. end.response \o plain \in Texts /\ end.thought \o plain \in Texts
  BY <1>7, <1>11 DEF Texts
<1> HIDE DEF plain, half
<1>18. /\ s.response \in Texts /\ s.thought \in Texts /\ s.in \in BOOLEAN
       /\ s.hold \in {<<>>, <<TagOf(s.in)[1]>>}
  BY <1>7, <1>9, <1>11, <1>17
<1>19. r \o s.response = (IF b THEN p ELSE p \o plain) /\ t \o s.thought = (IF b THEN q \o plain ELSE q)
  BY <1>9, <1>16
<1>20. Run(State(in, <<>>, r, t), rest) = State(s.in, s.hold, r \o s.response, t \o s.thought)
  <2> HIDE DEF p, q, u, b
  <2> QED BY <1>6, <1>8, <1>9, <1>11, <1>13, <1>14, <1>15, <1>19
<1> QED BY <1>18, <1>20 DEF s

\* So does ExtractThinkTags with a whole text, as far as the thinking goes.
Begin == State(FALSE, <<>>, <<>>, <<>>)
Outside(response, thought) == State(FALSE, <<>>, response, thought)
Inside(response, thought) == State(TRUE, <<>>, response, thought)
Thought(y) == IF y.in THEN y.thought \o y.hold ELSE y.thought
\* Past an opening tag the reader is inside, with what came before it as response.
LEMMA ThroughOpen ==
    ASSUME NEW r \in Texts, NEW t \in Texts, NEW u \in Texts, Find(u, ThinkOpen) # 0
    PROVE  LET at == Find(u, ThinkOpen)
           IN  /\ Before(u, at) \in Texts /\ From(u, at + 2) \in Texts
               /\ Len(From(u, at + 2)) < Len(u)
               /\ Run(Outside(r, t), u) = Run(Inside(r \o Before(u, at), t), From(u, at + 2))
<1>1. PICK b \in BOOLEAN : b = FALSE
  OBVIOUS
<1>2. TagOf(b) = ThinkOpen
  BY <1>1 DEF TagOf
<1> DEFINE at == Find(u, TagOf(b))
<1>3. /\ Before(u, at) \in Texts /\ From(u, at + 2) \in Texts
      /\ Len(From(u, at + 2)) < Len(u)
      /\ Run(State(b, <<>>, r, t), u)
           = Run(State(~b, <<>>, IF b THEN r ELSE r \o Before(u, at),
                                 IF b THEN t \o Before(u, at) ELSE t), From(u, at + 2))
  BY <1>2, ThroughTag
<1>4. at = Find(u, ThinkOpen)
  BY <1>2
<1> HIDE DEF at
<1>5. State(b, <<>>, r, t) = Outside(r, t)
  BY <1>1 DEF Outside
<1>6. State(~b, <<>>, IF b THEN r ELSE r \o Before(u, at), IF b THEN t \o Before(u, at) ELSE t)
        = Inside(r \o Before(u, at), t)
  BY <1>1 DEF Inside
<1> QED BY <1>3, <1>4, <1>5, <1>6

\* Past a closing tag the reader is outside, with what came before it as thinking.
LEMMA ThroughClose ==
    ASSUME NEW r \in Texts, NEW t \in Texts, NEW u \in Texts, Find(u, ThinkClose) # 0
    PROVE  LET at == Find(u, ThinkClose)
           IN  /\ Before(u, at) \in Texts /\ From(u, at + 2) \in Texts
               /\ Len(From(u, at + 2)) < Len(u)
               /\ Run(Inside(r, t), u) = Run(Outside(r, t \o Before(u, at)), From(u, at + 2))
<1>1. PICK b \in BOOLEAN : b = TRUE
  OBVIOUS
<1>2. TagOf(b) = ThinkClose
  BY <1>1 DEF TagOf
<1> DEFINE at == Find(u, TagOf(b))
<1>3. /\ Before(u, at) \in Texts /\ From(u, at + 2) \in Texts
      /\ Len(From(u, at + 2)) < Len(u)
      /\ Run(State(b, <<>>, r, t), u)
           = Run(State(~b, <<>>, IF b THEN r ELSE r \o Before(u, at),
                                 IF b THEN t \o Before(u, at) ELSE t), From(u, at + 2))
  BY <1>2, ThroughTag
<1>4. at = Find(u, ThinkClose)
  BY <1>2
<1> HIDE DEF at
<1>5. State(b, <<>>, r, t) = Inside(r, t)
  BY <1>1 DEF Inside
<1>6. State(~b, <<>>, IF b THEN r ELSE r \o Before(u, at), IF b THEN t \o Before(u, at) ELSE t)
        = Outside(r, t \o Before(u, at))
  BY <1>1 DEF Outside
<1> QED BY <1>3, <1>4, <1>5, <1>6

ExtractFrom(x) == Run(Outside(x.response, x.thought), x.rest)
\* A round of ExtractThinkTags moves over one thinking block as the reader does.
LEMMA ExtractStep ==
    ASSUME NEW x \in ExtractStates
    PROVE  LET open == Find(x.rest, ThinkOpen)
               inside == From(x.rest, open + 2)
               close == Find(inside, ThinkClose)
           IN  /\ ExtractBlock(x) \in ExtractStates
               /\ open = 0 \/ close = 0 => ExtractBlock(x) = x
               /\ open # 0 /\ close # 0 => Len(ExtractBlock(x).rest) < Len(x.rest)
               /\ ExtractFrom(ExtractBlock(x)) = ExtractFrom(x)
               /\ open # 0 => /\ inside \in Texts /\ Before(x.rest, open) \in Texts
                              /\ ExtractFrom(x) = Run(Inside(x.response \o Before(x.rest, open), x.thought),
                                                   inside)
<1> DEFINE open == Find(x.rest, ThinkOpen)
           inside == From(x.rest, open + 2)
           close == Find(inside, ThinkClose)
           B == Before(x.rest, open)
           C == Before(inside, close)
           A == From(inside, close + 2)
           z == ExtractBlock(x)
<1>0. x.rest \in Texts /\ x.response \in Texts /\ x.thought \in Texts /\ <<>> \in Texts
  BY DEF ExtractStates, Texts
<1>2. ASSUME open # 0
      PROVE  /\ inside \in Texts /\ B \in Texts /\ Len(inside) < Len(x.rest)
             /\ ExtractFrom(x) = Run(Inside(x.response \o B, x.thought), inside)
  <2>1. /\ B \in Texts /\ inside \in Texts /\ Len(inside) < Len(x.rest)
        /\ Run(Outside(x.response, x.thought), x.rest)
             = Run(Inside(x.response \o B, x.thought), inside)
    BY <1>0, <1>2, ThroughOpen
  <2> HIDE DEF B, inside
  <2> QED BY <2>1 DEF ExtractFrom
<1>3. CASE open = 0 \/ close = 0
  <2>1. z = x
    BY <1>3 DEF ExtractBlock
  <2> QED BY <1>2, <1>3, <2>1
<1>4. CASE open # 0 /\ close # 0
  <2>1. /\ inside \in Texts /\ B \in Texts /\ Len(inside) < Len(x.rest)
        /\ ExtractFrom(x) = Run(Inside(x.response \o B, x.thought), inside)
    BY <1>2, <1>4
  <2>2. z = [rest |-> A, response |-> x.response \o B, thought |-> x.thought \o C]
    BY <1>4 DEF ExtractBlock
  <2> HIDE DEF open, inside, z, B
  <2> DEFINE r == x.response \o B
  <2>3. r \in Texts
    BY <1>0, <2>1 DEF Texts
  <2>4. /\ C \in Texts /\ A \in Texts /\ Len(A) < Len(inside)
        /\ Run(Inside(r, x.thought), inside)
             = Run(Outside(r, x.thought \o C), A)
    <3> HIDE DEF r
    <3> QED BY <1>0, <1>4, <2>1, <2>3, ThroughClose
  <2>5. Len(A) < Len(x.rest)
    <3>1. Len(A) \in Nat /\ Len(inside) \in Nat /\ Len(x.rest) \in Nat
      BY <1>0, <2>1, <2>4 DEF Texts
    <3> HIDE DEF A
    <3> QED BY <2>1, <2>4, <3>1
  <2>6. x.thought \o C \in Texts
    BY <1>0, <2>4 DEF Texts
  <2> HIDE DEF A, C, close
  <2>7. z \in ExtractStates /\ z.rest = A /\ z.response = r /\ z.thought = x.thought \o C
    BY <2>2, <2>3, <2>4, <2>6 DEF ExtractStates
  <2>8. ExtractFrom(z) = ExtractFrom(x)
    BY <2>1, <2>4, <2>7 DEF ExtractFrom
  <2> QED BY <1>4, <2>1, <2>5, <2>7, <2>8 DEF z, open, inside, close, B
<1> QED BY <1>3, <1>4

\* What ExtractThinkTags finds as thinking is what the reader has as thinking at the end.
LEMMA ExtractRead ==
    ASSUME NEW d \in Texts
    PROVE  ExtractThinkTags(d).thought = Thought(Run(Begin, d))
<1> DEFINE step == [x \in ExtractStates |-> ExtractBlock(x)]
           start == [rest |-> d, response |-> <<>>, thought |-> <<>>]
           size == [x \in ExtractStates |-> Len(x.rest)]
           I == {x \in ExtractStates : ExtractFrom(x) = ExtractFrom(start)}
           end == ExtractBlocks(d)
<1>0. <<>> \in Texts /\ Len(d) \in Nat /\ start \in ExtractStates
  BY DEF Texts, ExtractStates
<1>1. /\ step \in [ExtractStates -> ExtractStates] /\ size \in [ExtractStates -> Nat]
      /\ \A x \in ExtractStates : step[x] = x \/ size[step[x]] < size[x]
  <2>1. ASSUME NEW x \in ExtractStates
        PROVE  /\ ExtractBlock(x) \in ExtractStates /\ Len(x.rest) \in Nat
               /\ ExtractBlock(x) = x \/ Len(ExtractBlock(x).rest) < Len(x.rest)
    <3>1. Len(x.rest) \in Nat
      BY DEF ExtractStates, Texts
    <3> QED BY <3>1, ExtractStep
  <2> QED BY <2>1
<1>2. \A x \in I : step[x] \in I
  <2> SUFFICES ASSUME NEW x \in I PROVE step[x] \in I
    OBVIOUS
  <2>1. x \in ExtractStates /\ ExtractFrom(x) = ExtractFrom(start)
    OBVIOUS
  <2>2. ExtractBlock(x) \in ExtractStates /\ ExtractFrom(ExtractBlock(x)) = ExtractFrom(x)
    BY <2>1, ExtractStep
  <2> QED BY <2>1, <2>2
<1>3. start \in I /\ size[start] = Len(d) /\ I \in SUBSET ExtractStates
  BY <1>0
<1>4. end = Repeated(step, start, Len(d))
  BY DEF ExtractBlocks
<1>5. end \in I /\ step[end] = end
  <2>1. \A x \in I : step[x] \in I /\ (step[x] = x \/ size[step[x]] < size[x])
    BY <1>1, <1>2, <1>3
  <2> HIDE DEF step, start, size, I, end
  <2>2. Shrinks(ExtractStates, I, step, size, start, Len(d))
    BY <1>0, <1>1, <1>3, <2>1 DEF Shrinks
  <2> QED BY <1>4, <2>2, RepeatedSettles
<1>6. end \in ExtractStates /\ ExtractFrom(end) = Run(Begin, d) /\ ExtractBlock(end) = end
  BY <1>5 DEF ExtractFrom, Begin, Outside
<1>7. /\ end.rest \in Texts /\ end.response \in Texts /\ end.thought \in Texts
      /\ Len(end.rest) \in Nat
  BY <1>6 DEF ExtractStates, Texts
<1> DEFINE open == Find(end.rest, ThinkOpen)
           inside == From(end.rest, open + 2)
           close == Find(inside, ThinkClose)
<1>8. /\ open = 0 => ExtractThinkTags(d).thought = end.thought
      /\ open # 0 => ExtractThinkTags(d).thought = end.thought \o inside
  BY DEF ExtractThinkTags, ExtractEnd
<1> HIDE DEF end, start, I, step, size
<1>9. /\ open # 0 => /\ inside \in Texts /\ Before(end.rest, open) \in Texts
                     /\ ExtractFrom(end) = Run(Inside(end.response \o Before(end.rest, open),
                                                     end.thought), inside)
      /\ open # 0 /\ close # 0 => Len(ExtractBlock(end).rest) < Len(end.rest)
  BY <1>6, ExtractStep
<1>10. TagOf(FALSE) = ThinkOpen /\ TagOf(TRUE) = ThinkClose /\ FALSE \in BOOLEAN /\ TRUE \in BOOLEAN
  BY DEF TagOf
<1>11. CASE open = 0
  <2> DEFINE u == end.rest
             y == ReadPlain(FALSE, end.response, end.thought, u)
  <2>1. Run(Outside(end.response, end.thought), u) = y
    BY <1>7, <1>10, <1>11, NoTag DEF Outside
  <2>2. y.in = FALSE /\ y.thought = end.thought
    BY DEF ReadPlain, State
  <2> HIDE DEF y
  <2>3. Run(Begin, d) = y
    BY <1>6, <2>1 DEF ExtractFrom
  <2> QED BY <1>8, <1>11, <2>2, <2>3 DEF Thought
<1>12. CASE open # 0
  <2> DEFINE r == end.response \o Before(end.rest, open)
             y == ReadPlain(TRUE, r, end.thought, inside)
             half == Held(inside, TagOf(TRUE))
             plain == IF half THEN Before(inside, Len(inside)) ELSE inside
  <2>0. r \in Texts /\ inside \in Texts
    BY <1>7, <1>9, <1>12 DEF Texts
  <2>1. close = 0
    BY <1>6, <1>7, <1>9, <1>12
  <2>2. Run(Inside(r, end.thought), inside) = y
    <3> HIDE DEF r, inside, open
    <3> QED BY <1>7, <1>10, <2>0, <2>1, NoTag DEF Inside
  <2>3. /\ y.in = TRUE /\ y.thought = end.thought \o plain
        /\ y.hold = IF half THEN <<TagOf(TRUE)[1]>> ELSE <<>>
    <3> HIDE DEF r, inside
    <3> QED BY DEF ReadPlain, State
  <2> HIDE DEF r, inside, open, close, y
  <2>4. half => Before(inside, Len(inside)) \in Texts
                /\ inside = Before(inside, Len(inside)) \o <<TagOf(TRUE)[1]>>
    BY <1>7, <1>10, <2>0, PlainTyped
  <2>5. plain \in Texts /\ y.hold \in Texts /\ plain \o y.hold = inside
    <3>1. CASE half
      <4>1. <<TagOf(TRUE)[1]>> \in Texts
        BY DEF TagOf, ThinkClose, Texts, Tokens
      <4>2. plain = Before(inside, Len(inside)) /\ y.hold = <<TagOf(TRUE)[1]>>
        BY <2>3, <3>1
      <4> HIDE DEF plain, half
      <4> QED BY <2>4, <3>1, <4>1, <4>2
    <3>2. CASE ~half
      <4>1. plain = inside /\ y.hold = <<>> /\ inside \o <<>> = inside
        BY <2>0, <2>3, <3>2 DEF Texts
      <4> QED BY <1>0, <2>0, <4>1
    <3> QED BY <3>1, <3>2
  <2> HIDE DEF plain, half
  <2>6. (end.thought \o plain) \o y.hold = end.thought \o inside
    <3>1. \A f, g, h \in Seq(Tokens) : (f \o g) \o h = f \o (g \o h)
      BY Regrouped
    <3>2. end.thought \in Seq(Tokens) /\ plain \in Seq(Tokens) /\ y.hold \in Seq(Tokens)
      BY <1>7, <2>5 DEF Texts
    <3>3. (end.thought \o plain) \o y.hold = end.thought \o (plain \o y.hold)
      BY <3>1, <3>2, Zenon
    <3> QED BY <2>5, <3>3
  <2>7. Run(Begin, d) = y
    BY <1>6, <1>9, <1>12, <2>2 DEF r
  <2>8. Thought(y) = end.thought \o inside
    BY <2>3, <2>6 DEF Thought
  <2> QED BY <1>8, <1>12, <2>7, <2>8
<1> QED BY <1>11, <1>12

-----------------------------------------------------------------------------
\* One token read, and what the filter held back before.
LEMMA ReadsFields ==
    ASSUME NEW y \in ReadStates, NEW e \in Tokens
    PROVE  LET z == Reads(y, e)
               more == y.hold \o (IF e = TagOf(y.in)[1] THEN <<>> ELSE <<e>>)
           IN  /\ y.hold # <<>> /\ e = TagOf(y.in)[2] =>
                    /\ z.in = ~y.in /\ z.hold = <<>>
                    /\ z.response = y.response /\ z.thought = y.thought
               /\ ~(y.hold # <<>> /\ e = TagOf(y.in)[2]) =>
                    /\ z.in = y.in /\ z.hold = (IF e = TagOf(y.in)[1] THEN <<e>> ELSE <<>>)
                    /\ z.response = (IF y.in THEN y.response ELSE y.response \o more)
                    /\ z.thought = (IF y.in THEN y.thought \o more ELSE y.thought)
<1> DEFINE more == y.hold \o (IF e = TagOf(y.in)[1] THEN <<>> ELSE <<e>>)
<1>1. ASSUME y.hold # <<>>, e = TagOf(y.in)[2]
      PROVE  Reads(y, e) = State(~y.in, <<>>, y.response, y.thought)
  BY <1>1 DEF Reads
<1>2. ASSUME ~(y.hold # <<>> /\ e = TagOf(y.in)[2])
      PROVE  Reads(y, e) = State(y.in, IF e = TagOf(y.in)[1] THEN <<e>> ELSE <<>>,
                                 Sided(y, more).response, Sided(y, more).thought)
  BY <1>2 DEF Reads
<1>3. /\ Sided(y, more).response = (IF y.in THEN y.response ELSE y.response \o more)
      /\ Sided(y, more).thought = (IF y.in THEN y.thought \o more ELSE y.thought)
  BY DEF Sided
<1>4. \A b, h, r, t : /\ State(b, h, r, t).in = b /\ State(b, h, r, t).hold = h
                      /\ State(b, h, r, t).response = r /\ State(b, h, r, t).thought = t
  BY DEF State
<1>5. ASSUME y.hold # <<>>, e = TagOf(y.in)[2]
      PROVE  /\ Reads(y, e).in = ~y.in /\ Reads(y, e).hold = <<>>
             /\ Reads(y, e).response = y.response /\ Reads(y, e).thought = y.thought
  BY <1>1, <1>5 DEF State
<1> HIDE DEF more
<1>6. ASSUME ~(y.hold # <<>> /\ e = TagOf(y.in)[2])
      PROVE  /\ Reads(y, e).in = y.in
             /\ Reads(y, e).hold = (IF e = TagOf(y.in)[1] THEN <<e>> ELSE <<>>)
             /\ Reads(y, e).response = (IF y.in THEN y.response ELSE y.response \o more)
             /\ Reads(y, e).thought = (IF y.in THEN y.thought \o more ELSE y.thought)
  BY <1>2, <1>3, <1>6 DEF State
<1> QED BY <1>5, <1>6 DEF more

\* The half of a tag that completes one.
LEMMA ReadsTag ==
    ASSUME NEW y \in ReadStates, NEW e \in Tokens, y.hold # <<>>, e = TagOf(y.in)[2]
    PROVE  /\ Reads(y, e).in = ~y.in /\ Reads(y, e).hold = <<>>
           /\ Reads(y, e).response = y.response /\ Reads(y, e).thought = y.thought
<1>1. Reads(y, e) = State(~y.in, <<>>, y.response, y.thought)
  BY DEF Reads
<1> QED BY <1>1 DEF State

\* What is held back is read again with what follows.
LEMMA RunHeld ==
    ASSUME NEW y \in ReadStates, NEW u \in Texts, y.hold \in {<<>>, <<TagOf(y.in)[1]>>}
    PROVE  Run(y, u) = Run(State(y.in, <<>>, y.response, y.thought), y.hold \o u)
<1> DEFINE z == State(y.in, <<>>, y.response, y.thought)
           one == TagOf(y.in)[1]
<1>0. /\ y.in \in BOOLEAN /\ y.response \in Texts /\ y.thought \in Texts /\ y.hold \in Texts
      /\ y = State(y.in, y.hold, y.response, y.thought)
  BY DEF ReadStates, State
<1>1. z \in ReadStates
  BY <1>0, PlainTyped
<1>2. CASE y.hold = <<>>
  <2>1. y = z /\ <<>> \o u = u
    BY <1>0, <1>2 DEF Texts
  <2> QED BY <1>2, <2>1
<1>3. CASE y.hold = <<one>>
  <2>1. one \in Tokens /\ <<one>> \in Texts /\ one # TagOf(y.in)[2]
    BY <1>0, TagHalves DEF Texts
  <2>2. z.in = y.in /\ z.hold = <<>> /\ z.response = y.response /\ z.thought = y.thought
    BY DEF State
  <2>3. <<>> \o <<>> = <<>> /\ y.response \o <<>> = y.response /\ y.thought \o <<>> = y.thought
    BY <1>0 DEF Texts
  <2> DEFINE x == Reads(z, one)
  <2>4. x \in ReadStates
    <3> HIDE DEF z, one
    <3> QED BY <1>1, <2>1, ReadsTyped
  <2>5. /\ x.in = z.in /\ x.hold = (IF one = TagOf(z.in)[1] THEN <<one>> ELSE <<>>)
        /\ x.response = (IF z.in THEN z.response
                         ELSE z.response \o (z.hold \o (IF one = TagOf(z.in)[1] THEN <<>> ELSE <<one>>)))
        /\ x.thought = (IF z.in
                        THEN z.thought \o (z.hold \o (IF one = TagOf(z.in)[1] THEN <<>> ELSE <<one>>))
                        ELSE z.thought)
    <3>1. ~(z.hold # <<>> /\ one = TagOf(z.in)[2])
      BY <2>2
    <3> HIDE DEF z, one
    <3> QED BY <1>1, <2>1, <3>1, ReadsFields
  <2>6. x.in = y.in /\ x.hold = <<one>> /\ x.response = y.response /\ x.thought = y.thought
    <3>1. one = TagOf(z.in)[1]
      BY <2>2
    <3> HIDE DEF x, z, one
    <3> QED BY <2>2, <2>3, <2>5, <3>1
  <2>7. x = State(x.in, x.hold, x.response, x.thought)
    <3> HIDE DEF x
    <3> QED BY <2>4 DEF ReadStates, State
  <2>8. x = y
    <3> HIDE DEF x, one
    <3> QED BY <1>0, <1>3, <2>6, <2>7
  <2>9. Run(z, <<one>>) = y
    <3>1. Run(z, <<one>>) = x
      <4> HIDE DEF z, one
      <4> QED BY <1>1, <2>1, RunToken
    <3> QED BY <2>8, <3>1
  <2>10. Run(z, <<one>> \o u) = Run(Run(z, <<one>>), u)
    <3> HIDE DEF z, one
    <3> QED BY <1>1, <2>1, RunJoined
  <2> HIDE DEF z, one
  <2> QED BY <1>3, <2>9, <2>10 DEF z
<1> QED BY <1>2, <1>3
-----------------------------------------------------------------------------
\* The reader keeps X of a text as the response, from wherever it is not inside
\* tags.
NoThinkEnd == Tokens \ {"think>"}
Halves == {<<>>, <<"<think">>}
Between(y) == ~y.in /\ y.hold \in Halves
Keeps(a, X) ==
    \A y \in ReadStates : Between(y) =>
        Between(Run(y, a)) /\ Run(y, a).response \o Run(y, a).hold = (y.response \o y.hold) \o X
\* Of two texts joined, the reader keeps what it keeps of each.
LEMMA KeepsJoined ==
    ASSUME NEW a \in Texts, NEW b \in Texts, NEW X \in Texts, NEW Y \in Texts,
           Keeps(a, X), Keeps(b, Y)
    PROVE  Keeps(a \o b, X \o Y)
<1> SUFFICES ASSUME NEW y \in ReadStates, Between(y)
             PROVE  /\ Between(Run(y, a \o b))
                    /\ Run(y, a \o b).response \o Run(y, a \o b).hold = (y.response \o y.hold) \o (X \o Y)
  BY DEF Keeps
<1> DEFINE z == Run(y, a)
           x == Run(z, b)
           p == y.response \o y.hold
<1>1. z \in ReadStates
  BY RunTyped
<1>2. Run(y, a \o b) = x
  BY RunJoined
<1>3. Between(z) /\ z.response \o z.hold = p \o X
  BY DEF Keeps
<1> HIDE DEF z
<1>4. Between(x) /\ x.response \o x.hold = (z.response \o z.hold) \o Y
  BY <1>1, <1>3 DEF Keeps
<1>5. p \in Seq(Tokens) /\ X \in Seq(Tokens) /\ Y \in Seq(Tokens)
  BY DEF ReadStates, Texts
<1> HIDE DEF p, x
<1>6. (p \o X) \o Y = p \o (X \o Y)
  BY <1>5, Regrouped
<1> QED BY <1>2, <1>3, <1>4, <1>6 DEF p, x

\* Without the second half of a tag everything is kept.
LEMMA KeepsPlain ==
    ASSUME NEW s \in Seq(NoThinkEnd)
    PROVE  Keeps(s, s)
<1> SUFFICES ASSUME NEW y \in ReadStates, Between(y)
             PROVE  /\ Between(Run(y, s))
                    /\ Run(y, s).response \o Run(y, s).hold = (y.response \o y.hold) \o s
  BY DEF Keeps
<1>0. /\ y.in = FALSE /\ y.hold \in Texts /\ y.response \in Texts /\ y.thought \in Texts
      /\ y.in \in BOOLEAN /\ s \in Texts /\ <<>> \in Texts
  BY DEF ReadStates, Texts, NoThinkEnd, Between
<1>1. TagOf(y.in) = ThinkOpen /\ TagOf(y.in)[1] = "<think" /\ TagOf(y.in)[2] = "think>"
  BY <1>0 DEF TagOf, ThinkOpen
<1> DEFINE u == y.hold \o s
           z == State(y.in, <<>>, y.response, y.thought)
<1>2. Run(y, s) = Run(z, u)
  <2>1. y.hold \in {<<>>, <<TagOf(y.in)[1]>>}
    BY <1>1 DEF Between, Halves
  <2> QED BY <1>0, <2>1, RunHeld
<1>3. u \in Seq(NoThinkEnd) /\ u \in Texts
  <2>1. y.hold \in Seq(NoThinkEnd)
    <3>1. "<think" \in NoThinkEnd /\ <<>> \in Seq(NoThinkEnd)
      BY DEF NoThinkEnd, Tokens
    <3>2. <<"<think">> \in Seq(NoThinkEnd)
      BY <3>1
    <3> QED BY <3>1, <3>2 DEF Between, Halves
  <2>2. u \in Seq(NoThinkEnd)
    BY <2>1
  <2> HIDE DEF u
  <2> QED BY <2>2 DEF Texts, NoThinkEnd
<1>4. Find(u, TagOf(y.in)) = 0
  <2>1. "<think" \in Tokens /\ "think>" \in Tokens /\ u \in Seq(Tokens) /\ Len(u) \in Nat
    BY <1>3 DEF Tokens, Texts
  <2> HIDE DEF u
  <2>2. \A i \in 1 .. Len(u) : u[i] # "think>"
    BY <1>3 DEF NoThinkEnd
  <2> DEFINE at == Find(u, <<"<think", "think>">>)
  <2>3. at \in 0 .. Len(u) /\ (at # 0 => at + 1 <= Len(u) /\ u[at + 1] = "think>")
    BY <2>1, FoundTag
  <2> HIDE DEF at
  <2>4. at = 0
    <3> SUFFICES ASSUME at # 0 PROVE FALSE
      OBVIOUS
    <3>1. at + 1 \in 1 .. Len(u)
      BY <2>1, <2>3
    <3> QED BY <2>2, <2>3, <3>1
  <2> QED BY <1>1, <2>4 DEF at, ThinkOpen
<1> DEFINE x == ReadPlain(y.in, y.response, y.thought, u)
           half == Held(u, TagOf(y.in))
           plain == IF half THEN Before(u, Len(u)) ELSE u
<1>5. Run(y, s) = x
  <2> HIDE DEF u
  <2> QED BY <1>0, <1>2, <1>3, <1>4, NoTag
<1>6. /\ x.in = y.in /\ x.response = y.response \o plain
      /\ x.hold = IF half THEN <<"<think">> ELSE <<>>
  <2> HIDE DEF u
  <2> QED BY <1>0, <1>1 DEF ReadPlain, State
<1>7. half => Before(u, Len(u)) \in Texts /\ u = Before(u, Len(u)) \o <<"<think">>
  <2> HIDE DEF u
  <2> QED BY <1>0, <1>1, <1>3, PlainTyped
<1> HIDE DEF x, u
<1>8. plain \in Texts /\ x.hold \in Halves /\ x.hold \in Texts /\ plain \o x.hold = u
  <2>1. CASE half
    <3>1. "<think" \in Tokens
      BY DEF Tokens
    <3>2. <<"<think">> \in Texts
      BY <3>1 DEF Texts
    <3>3. plain = Before(u, Len(u)) /\ x.hold = <<"<think">>
      BY <1>6, <2>1
    <3> HIDE DEF half, plain
    <3> QED BY <1>7, <2>1, <3>2, <3>3 DEF Halves
  <2>2. CASE ~half
    <3>1. plain = u /\ x.hold = <<>> /\ u \o <<>> = u
      BY <1>3, <1>6, <2>2 DEF Texts
    <3> HIDE DEF half, plain
    <3> QED BY <1>0, <1>3, <3>1 DEF Halves
  <2> QED BY <2>1, <2>2
<1> HIDE DEF plain, half
<1>9. x.response \o x.hold = (y.response \o y.hold) \o s
  <2>1. /\ y.response \in Seq(Tokens) /\ y.hold \in Seq(Tokens) /\ s \in Seq(Tokens)
        /\ plain \in Seq(Tokens) /\ x.hold \in Seq(Tokens)
    BY <1>0, <1>8 DEF Texts
  <2>2. (y.response \o plain) \o x.hold = y.response \o (plain \o x.hold)
    <3>1. \A a, b, c \in Seq(Tokens) : (a \o b) \o c = a \o (b \o c)
      BY Regrouped
    <3> QED BY <2>1, <3>1, Zenon
  <2>3. (y.response \o y.hold) \o s = y.response \o (y.hold \o s)
    <3>1. \A a, b, c \in Seq(Tokens) : (a \o b) \o c = a \o (b \o c)
      BY Regrouped
    <3> QED BY <2>1, <3>1, Zenon
  <2> QED BY <1>6, <1>8, <2>2, <2>3 DEF u
<1>10. Between(x)
  BY <1>0, <1>6, <1>8 DEF Between
<1> QED BY <1>5, <1>9, <1>10

\* A text of two tokens.
LEMMA PairJoined ==
    ASSUME NEW S, NEW a \in S, NEW b \in S
    PROVE  /\ <<a>> \in Seq(S) /\ <<b>> \in Seq(S) /\ <<a, b>> \in Seq(S)
           /\ <<a, b>> = <<a>> \o <<b>>
<1> DEFINE u == <<a, b>>
           v == <<a>> \o <<b>>
<1>1. u \in Seq(S) /\ Len(u) = 2 /\ u[1] = a /\ u[2] = b
  OBVIOUS
<1>2. v \in Seq(S) /\ Len(v) = 2 /\ v[1] = a /\ v[2] = b
  OBVIOUS
<1> HIDE DEF u, v
<1>3. \A i \in 1 .. 2 : i = 1 \/ i = 2
  OBVIOUS
<1>4. u = v
  BY <1>1, <1>2, <1>3, SeqEqual
<1> QED BY <1>4 DEF u, v

\* A text of two tokens is two steps of the reader.
LEMMA RunPair ==
    ASSUME NEW y \in ReadStates, NEW a \in Tokens, NEW b \in Tokens
    PROVE  Run(y, <<a, b>>) = Reads(Reads(y, a), b)
<1>1. <<a>> \in Texts /\ <<b>> \in Texts /\ <<a, b>> = <<a>> \o <<b>>
  BY PairJoined DEF Texts
<1>2. Run(y, <<a>> \o <<b>>) = Run(Run(y, <<a>>), <<b>>)
  BY <1>1, RunJoined
<1>3. Run(y, <<a>>) = Reads(y, a) /\ Reads(y, a) \in ReadStates
  BY RunToken, ReadsTyped
<1> QED BY <1>1, <1>2, <1>3, RunToken

\* Nothing of a thinking block is.
ThinkBlock == ThinkOpen \o <<"w", "w">> \o ThinkClose
\* The reader keeps nothing of a thinking block, and the block has no markup of a call.
LEMMA KeepsThink == ThinkBlock \in Seq(Clean) /\ Keeps(ThinkBlock, <<>>)
<1>0. /\ "<think" \in Tokens /\ "think>" \in Tokens /\ "w" \in Tokens
      /\ "</think" \in Tokens /\ "/think>" \in Tokens
      /\ {"<think", "think>", "w", "</think", "/think>"} \cap Markup = {}
  BY DEF Tokens, Markup, Function, FunctionEnd
<1> DEFINE words == <<"w", "w">>
<1>1. /\ ThinkOpen \in Seq(Clean) /\ words \in Seq(Clean) /\ ThinkClose \in Seq(Clean)
      /\ ThinkOpen \in Texts /\ words \in Texts /\ ThinkClose \in Texts
  BY <1>0, PairJoined DEF Clean, Texts, ThinkOpen, ThinkClose
<1> HIDE DEF words
<1>a. /\ ThinkBlock = (ThinkOpen \o words) \o ThinkClose
      /\ ThinkOpen \o words \in Texts
  <2>1. \A f, g, h \in Seq(Tokens) : (f \o g) \o h = f \o (g \o h)
    BY Regrouped
  <2>2. ThinkOpen \in Seq(Tokens) /\ words \in Seq(Tokens) /\ ThinkClose \in Seq(Tokens)
    BY <1>1 DEF Texts
  <2>3. (ThinkOpen \o words) \o ThinkClose = ThinkOpen \o (words \o ThinkClose)
    BY <2>1, <2>2, Zenon
  <2>4. ThinkOpen \o words \in Seq(Tokens)
    BY <2>2
  <2> QED BY <2>3, <2>4 DEF ThinkBlock, words, Texts
<1>2. ThinkBlock \in Seq(Clean)
  BY <1>1, <1>a
<1> SUFFICES ASSUME NEW y \in ReadStates, Between(y)
             PROVE  /\ Between(Run(y, ThinkBlock))
                    /\ Run(y, ThinkBlock).response \o Run(y, ThinkBlock).hold
                         = (y.response \o y.hold) \o <<>>
  BY <1>2 DEF Keeps
<1>3. \A b \in BOOLEAN : /\ ~b => TagOf(b)[1] = "<think" /\ TagOf(b)[2] = "think>"
                         /\ b => TagOf(b)[1] = "</think" /\ TagOf(b)[2] = "/think>"
  BY DEF TagOf, ThinkOpen, ThinkClose
<1>4. \A x \in ReadStates : /\ x.in \in BOOLEAN /\ x.response \in Texts /\ x.hold \in Texts
                            /\ x.response \o <<>> = x.response /\ x.hold \o <<>> = x.hold
  BY DEF ReadStates, Texts
<1> DEFINE y1 == Reads(y, "<think")
           y2 == Reads(y1, "think>")
           y3 == Reads(y2, "w")
           y4 == Reads(y3, "w")
           y5 == Reads(y4, "</think")
           y6 == Reads(y5, "/think>")
<1>5. /\ y1 \in ReadStates /\ y2 \in ReadStates /\ y3 \in ReadStates
      /\ y4 \in ReadStates /\ y5 \in ReadStates /\ y6 \in ReadStates
  <2>1. y1 \in ReadStates
    BY <1>0, ReadsTyped
  <2>2. y2 \in ReadStates
    <3> HIDE DEF y1
    <3> QED BY <1>0, <2>1, ReadsTyped
  <2>3. y3 \in ReadStates
    <3> HIDE DEF y2
    <3> QED BY <1>0, <2>2, ReadsTyped
  <2>4. y4 \in ReadStates
    <3> HIDE DEF y3
    <3> QED BY <1>0, <2>3, ReadsTyped
  <2>5. y5 \in ReadStates
    <3> HIDE DEF y4
    <3> QED BY <1>0, <2>4, ReadsTyped
  <2>6. y6 \in ReadStates
    <3> HIDE DEF y5
    <3> QED BY <1>0, <2>5, ReadsTyped
  <2> QED BY <2>1, <2>2, <2>3, <2>4, <2>5, <2>6
<1> DEFINE p == y.response \o y.hold
<1>6. ~y1.in /\ y1.hold = <<"<think">> /\ y1.response = p
  <2>1. ~y.in /\ TagOf(y.in)[1] = "<think" /\ TagOf(y.in)[2] = "think>"
    BY <1>3, <1>4 DEF Between
  <2>2. ~(y.hold # <<>> /\ "<think" = TagOf(y.in)[2])
    BY <2>1
  <2>3. /\ y1.in = y.in /\ y1.hold = (IF "<think" = TagOf(y.in)[1] THEN <<"<think">> ELSE <<>>)
        /\ y1.response = (IF y.in THEN y.response
             ELSE y.response \o (y.hold \o (IF "<think" = TagOf(y.in)[1] THEN <<>> ELSE <<"<think">>)))
    BY <1>0, <2>2, ReadsFields
  <2>4. y.hold \o <<>> = y.hold
    BY <1>4
  <2> HIDE DEF y1
  <2> QED BY <2>1, <2>3, <2>4
<1>7. y2.in /\ y2.hold = <<>> /\ y2.response = p
  <2>0. <<"<think">> # <<>> /\ y1 \in ReadStates
    BY <1>5
  <2> HIDE DEF y1
  <2>1. y1.hold # <<>>
    BY <1>6, <2>0
  <2>2. y1.in \in BOOLEAN /\ ~y1.in
    BY <1>4, <1>6, <2>0
  <2>3. "think>" = TagOf(y1.in)[2]
    BY <1>3, <2>2
  <2>4. y2.in = (~y1.in) /\ y2.hold = <<>> /\ y2.response = y1.response
    BY <1>0, <2>0, <2>1, <2>3, ReadsTag
  <2> QED BY <1>6, <2>4
<1>8. y3.in /\ y3.response = p
  <2>1. TagOf(y2.in)[1] = "</think" /\ TagOf(y2.in)[2] = "/think>"
    BY <1>3, <1>4, <1>5, <1>7
  <2>2. ~(y2.hold # <<>> /\ "w" = TagOf(y2.in)[2])
    BY <1>7
  <2> HIDE DEF y2
  <2>3. y3.in = y2.in /\ (y2.in => y3.response = y2.response)
    BY <1>0, <1>5, <2>2, ReadsFields
  <2> QED BY <1>7, <2>3
<1>9. y4.in /\ y4.response = p
  <2>1. TagOf(y3.in)[1] = "</think" /\ TagOf(y3.in)[2] = "/think>"
    BY <1>3, <1>4, <1>5, <1>8
  <2>2. ~(y3.hold # <<>> /\ "w" = TagOf(y3.in)[2])
    BY <2>1
  <2> HIDE DEF y3
  <2>3. y4.in = y3.in /\ (y3.in => y4.response = y3.response)
    BY <1>0, <1>5, <2>2, ReadsFields
  <2> QED BY <1>8, <2>3
<1>10. y5.in /\ y5.hold = <<"</think">> /\ y5.response = p
  <2>1. TagOf(y4.in)[1] = "</think" /\ TagOf(y4.in)[2] = "/think>"
    BY <1>3, <1>4, <1>5, <1>9
  <2>2. ~(y4.hold # <<>> /\ "</think" = TagOf(y4.in)[2])
    BY <2>1
  <2> HIDE DEF y4
  <2>3. /\ y5.in = y4.in /\ (y4.in => y5.response = y4.response)
        /\ y5.hold = (IF "</think" = TagOf(y4.in)[1] THEN <<"</think">> ELSE <<>>)
    BY <1>0, <1>5, <2>2, ReadsFields
  <2> QED BY <1>9, <2>1, <2>3
<1>11. ~y6.in /\ y6.hold = <<>> /\ y6.response = p
  <2>0. <<"</think">> # <<>> /\ y5 \in ReadStates
    BY <1>5
  <2> HIDE DEF y5
  <2>1. y5.hold # <<>>
    BY <1>10, <2>0
  <2>2. y5.in \in BOOLEAN /\ y5.in
    BY <1>4, <1>10, <2>0
  <2>3. "/think>" = TagOf(y5.in)[2]
    BY <1>3, <2>2
  <2>4. y6.in = (~y5.in) /\ y6.hold = <<>> /\ y6.response = y5.response
    BY <1>0, <2>0, <2>1, <2>3, ReadsTag
  <2> QED BY <1>10, <2>4
<1>12. Run(y, ThinkBlock) = y6
  <2>1. Run(y, ThinkOpen) = y2
    BY <1>0, RunPair DEF ThinkOpen
  <2>2. Run(y2, words) = y4
    <3> HIDE DEF y2
    <3> QED BY <1>0, <1>5, RunPair DEF words
  <2>3. Run(y4, ThinkClose) = y6
    <3> HIDE DEF y4
    <3> QED BY <1>0, <1>5, RunPair DEF ThinkClose
  <2> HIDE DEF y2, y4, y6
  <2>4. Run(y, ThinkOpen \o words) = y4
    BY <1>1, <2>1, <2>2, RunJoined
  <2>5. Run(y, (ThinkOpen \o words) \o ThinkClose) = y6
    BY <1>1, <1>a, <2>3, <2>4, RunJoined
  <2> QED BY <1>a, <2>5
<1>13. p \in Texts /\ p \o <<>> = p
  BY <1>4 DEF Texts
<1> HIDE DEF y6, p
<1>14. y6.response \o y6.hold = p \o <<>>
  BY <1>11, <1>13
<1>15. Between(y6)
  BY <1>11 DEF Between, Halves
<1> QED BY <1>12, <1>14, <1>15 DEF p

-----------------------------------------------------------------------------
\* What an answer a tells outside the thinking tags is X, and all calls are whole.
Told(a, X) ==
    /\ a \in Texts /\ X \in Seq(NoThinkEnd)
    /\ WholeIn(a, a) /\ WholeIn(a, X) /\ WholeIn(X, X) /\ Keeps(a, X)
\* Two answers joined tell what each tells.
LEMMA ToldJoined ==
    ASSUME NEW a, NEW b, NEW X, NEW Y, Told(a, X), Told(b, Y)
    PROVE  Told(a \o b, X \o Y)
<1>1. /\ a \in Texts /\ X \in Seq(NoThinkEnd)
      /\ WholeIn(a, a) /\ WholeIn(a, X) /\ WholeIn(X, X) /\ Keeps(a, X)
  BY DEF Told
<1>2. /\ b \in Texts /\ Y \in Seq(NoThinkEnd)
      /\ WholeIn(b, b) /\ WholeIn(b, Y) /\ WholeIn(Y, Y) /\ Keeps(b, Y)
  BY DEF Told
<1>3. X \in Texts /\ Y \in Texts
  BY <1>1, <1>2 DEF Texts, NoThinkEnd
<1>4. a \o b \in Texts
  BY <1>1, <1>2 DEF Texts
<1>5. X \o Y \in Seq(NoThinkEnd)
  BY <1>1, <1>2
<1>6. WholeIn(a \o b, a \o b)
  BY <1>1, <1>2, WholeJoined
<1>7. WholeIn(a \o b, X \o Y)
  BY <1>1, <1>2, <1>3, WholeJoined
<1>8. WholeIn(X \o Y, X \o Y)
  BY <1>1, <1>2, <1>3, WholeJoined
<1>9. Keeps(a \o b, X \o Y)
  BY <1>1, <1>2, <1>3, KeepsJoined
<1> QED BY <1>4, <1>5, <1>6, <1>7, <1>8, <1>9 DEF Told

\* A text without markup tells itself, a call too, and a thinking block nothing.
LEMMA PlainTold ==
    ASSUME NEW s \in Seq(Clean), \A i \in 1 .. Len(s) : s[i] # "think>"
    PROVE  Told(s, s)
<1>1. s \in Texts /\ s \in Seq(NoThinkEnd)
  <2>1. \A i \in 1 .. Len(s) : s[i] \in NoThinkEnd
    BY DEF Clean, NoThinkEnd
  <2>2. s \in Texts
    BY DEF Clean, Texts
  <2> QED BY <2>1, <2>2 DEF Texts
<1>2. WholeIn(s, s)
  BY FreeWhole
<1>3. Keeps(s, s)
  BY <1>1, KeepsPlain
<1> QED BY <1>1, <1>2, <1>3 DEF Told

\* A whole call is told as it is.
LEMMA BlockTold ==
    ASSUME NEW n \in Nat
    PROVE  Told(Block(n), Block(n))
<1> DEFINE B == Block(n)
<1>1. /\ B \in Texts /\ WholeIn(B, B) /\ Len(B) = n + 5
      /\ \A k \in 1 .. n + 5 : B[k] \in Markup \cup {"<tool", "v"}
  BY BlockWhole
<1> HIDE DEF B
<1>2. B \in Seq(NoThinkEnd)
  <2>1. "think>" \notin Markup \cup {"<tool", "v"}
    BY DEF Markup, Function, FunctionEnd
  <2>2. \A k \in 1 .. Len(B) : B[k] \in NoThinkEnd
    BY <1>1, <2>1 DEF NoThinkEnd, Texts
  <2> QED BY <1>1, <2>2 DEF Texts
<1>3. Keeps(B, B)
  BY <1>2, KeepsPlain
<1>4. Told(B, B)
  BY <1>1, <1>2, <1>3 DEF Told
<1> QED BY <1>4 DEF B

\* A thinking block tells nothing.
LEMMA ThinkTold == Told(ThinkBlock, <<>>)
<1>1. ThinkBlock \in Seq(Clean) /\ Keeps(ThinkBlock, <<>>)
  BY KeepsThink
<1>2. ThinkBlock \in Texts
  BY <1>1 DEF Texts, Clean
<1>3. <<>> \in Seq(NoThinkEnd) /\ <<>> \in Seq(Clean)
  OBVIOUS
<1> HIDE DEF ThinkBlock
<1>4. WholeIn(ThinkBlock, ThinkBlock) /\ WholeIn(ThinkBlock, <<>>)
  BY <1>1, FreeWhole
<1>5. WholeIn(<<>>, <<>>)
  BY <1>3, FreeWhole
<1> QED BY <1>1, <1>2, <1>3, <1>4, <1>5 DEF Told

\* The pieces answers are made of: what they tell, their ends, and how plain
\* they are.
Marks == Markup \cup {"<think", "<tool"}
Piece(s) ==
    /\ s \in Texts /\ s # <<>> /\ s[Len(s)] # "blank"
    /\ s[1] = "blank" => s = <<"blank", "w">>
    /\ s \in Seq(PlainWords) \/ Holds(s, Marks)
    /\ \E X : Told(s, X)
\* Every segment an answer is made of is such a piece.
LEMMA Pieces == \A s \in Segments : Piece(s)
<1>0. /\ {"w", "v", "blank", "<tool", "<think"} \subseteq Clean
      /\ {"w", "v", "blank"} \subseteq PlainWords
      /\ "<tool" \in Marks /\ "<think" \in Marks
      /\ {"w", "v", "blank", "<tool", "<think"} \subseteq Tokens
  BY DEF Clean, Tokens, Markup, Marks, PlainWords, Function, FunctionEnd
<1>1. ASSUME NEW e \in {"w", "v", "<tool", "<think"}, e \in PlainWords \/ e \in Marks
      PROVE  Piece(<<e>>)
  <2> DEFINE s == <<e>>
  <2>1. /\ s \in Seq(Clean) /\ s # <<>> /\ Len(s) = 1 /\ s[1] = e /\ s \in Texts
        /\ e \in PlainWords => s \in Seq(PlainWords)
    BY <1>0 DEF Texts
  <2> HIDE DEF s
  <2>2. Told(s, s)
    BY <2>1, PlainTold
  <2>3. e \in Marks => Holds(s, Marks)
    BY <2>1 DEF Holds, Texts
  <2>4. s[Len(s)] # "blank" /\ s[1] # "blank"
    BY <2>1
  <2>5. Piece(s)
    BY <1>1, <2>1, <2>2, <2>3, <2>4 DEF Piece
  <2> QED BY <2>5 DEF s
<1>2. ASSUME NEW a \in {"blank", "<tool"}
      PROVE  Piece(<<a, "w">>)
  <2> DEFINE s == <<a, "w">>
  <2>1. /\ s \in Seq(Clean) /\ s # <<>> /\ Len(s) = 2 /\ s[1] = a /\ s[2] = "w" /\ s \in Texts
        /\ a = "blank" => s \in Seq(PlainWords)
    BY <1>0 DEF Texts
  <2>2. s[1] = "blank" => s = <<"blank", "w">>
    OBVIOUS
  <2> HIDE DEF s
  <2>3. Told(s, s)
    <3>1. \A i \in 1 .. 2 : i = 1 \/ i = 2
      OBVIOUS
    <3>2. \A i \in 1 .. Len(s) : s[i] # "think>"
      BY <2>1, <3>1
    <3> QED BY <2>1, <3>2, PlainTold
  <2>4. a = "<tool" => Holds(s, Marks)
    BY <1>0, <2>1 DEF Holds, Texts
  <2>5. s[Len(s)] # "blank"
    BY <2>1
  <2>6. Piece(s)
    BY <2>1, <2>2, <2>3, <2>4, <2>5 DEF Piece
  <2> QED BY <2>6 DEF s
<1>3. ASSUME NEW n \in {1, 2}
      PROVE  Piece(Block(n))
  <2> DEFINE B == Block(n)
  <2>0. n \in Nat
    OBVIOUS
  <2>1. B \in Texts /\ BlockAt(B, 1, n) /\ Len(B) = n + 5 /\ Told(B, B)
    BY <2>0, BlockWhole, BlockTold
  <2> HIDE DEF B
  <2>2. B[1] = "<tool" /\ B[n + 5] = "/call>" /\ B # <<>>
    <3>1. 1 + n + 4 = n + 5
      BY <2>0
    <3> QED BY <2>1, <3>1 DEF BlockAt
  <2>3. B[1] # "blank" /\ B[Len(B)] # "blank"
    BY <2>1, <2>2
  <2>4. Holds(B, Marks)
    <3>1. 1 \in DOMAIN B
      BY <2>0, <2>1 DEF Texts
    <3> QED BY <1>0, <2>2, <3>1 DEF Holds
  <2>5. Piece(B)
    BY <2>1, <2>2, <2>3, <2>4 DEF Piece
  <2> QED BY <2>5 DEF B
<1>4. Piece(ThinkBlock)
  <2>1. Told(ThinkBlock, <<>>) /\ ThinkBlock \in Texts
    BY ThinkTold DEF Told
  <2>2. ThinkBlock[1] = "<think" /\ ThinkBlock[Len(ThinkBlock)] = "/think>" /\ Len(ThinkBlock) = 6
    <3> DEFINE words == <<"w", "w">>
               back == words \o ThinkClose
    <3>1. /\ ThinkOpen \in Texts /\ Len(ThinkOpen) = 2 /\ ThinkOpen[1] = "<think"
          /\ ThinkClose \in Texts /\ Len(ThinkClose) = 2 /\ ThinkClose[2] = "/think>"
          /\ words \in Texts /\ Len(words) = 2
      BY DEF ThinkOpen, ThinkClose, Texts, Tokens
    <3> HIDE DEF words
    <3>2. back \in Texts /\ Len(back) = 4 /\ back[4] = "/think>"
      <4>1. 2 \in 1 .. Len(ThinkClose) /\ Len(words) + 2 = 4
        BY <3>1
      <4>2. words \in Seq(Tokens) /\ ThinkClose \in Seq(Tokens)
        BY <3>1 DEF Texts
      <4>3. /\ back \in Seq(Tokens) /\ Len(back) = Len(words) + Len(ThinkClose)
            /\ \A k \in 1 .. Len(ThinkClose) : back[Len(words) + k] = ThinkClose[k]
        BY <4>2, Joined
      <4> HIDE DEF back
      <4> QED BY <3>1, <4>1, <4>3 DEF Texts
    <3>3. ThinkBlock = ThinkOpen \o back
      BY DEF ThinkBlock, words
    <3> HIDE DEF back
    <3>4. 1 \in 1 .. Len(ThinkOpen) /\ 4 \in 1 .. Len(back) /\ Len(ThinkOpen) + 4 = 6
      BY <3>1, <3>2
    <3> DEFINE all == ThinkOpen \o back
    <3>a. ThinkOpen \in Seq(Tokens) /\ back \in Seq(Tokens)
      BY <3>1, <3>2 DEF Texts
    <3>5. /\ Len(all) = Len(ThinkOpen) + Len(back)
          /\ \A k \in 1 .. Len(ThinkOpen) : all[k] = ThinkOpen[k]
          /\ \A k \in 1 .. Len(back) : all[Len(ThinkOpen) + k] = back[k]
      BY <3>a, Joined
    <3> HIDE DEF all, ThinkBlock
    <3>6. Len(all) = 6 /\ all[1] = "<think" /\ all[6] = "/think>"
      BY <3>1, <3>2, <3>4, <3>5
    <3> QED BY <3>3, <3>6 DEF all
  <2>3. Holds(ThinkBlock, Marks)
    <3>1. 1 \in DOMAIN ThinkBlock
      BY <2>1, <2>2 DEF Texts
    <3> QED BY <1>0, <2>2, <3>1 DEF Holds
  <2>4. ThinkBlock # <<>> /\ ThinkBlock[1] # "blank" /\ ThinkBlock[Len(ThinkBlock)] # "blank"
    BY <2>2
  <2> HIDE DEF ThinkBlock
  <2> QED BY <2>1, <2>3, <2>4 DEF Piece
<1>5. ASSUME NEW s \in Segments PROVE Piece(s)
  <2>1. \/ s \in {<<"w">>, <<"v">>, <<"<think">>}
        \/ s \in {<<"blank", "w">>, <<"<tool", "w">>}
        \/ s = ThinkBlock
        \/ s \in {Block(1), Block(2)}
    BY DEF Segments, ThinkBlock
  <2> QED BY <1>0, <1>1, <1>2, <1>3, <1>4, <2>1
<1> QED BY <1>5

\* The answers of n segments are those of one less and a segment.
Longer(A) == {a \o s : a \in A, s \in Segments}
\* AnswersOf by its definition: of length 0 the empty answer, of every other length the
\* longer ones of one less.
LEMMA AnswersUnfold ==
    /\ AnswersOf[0] = {<<>>}
    /\ \A n \in 1 .. MaxSegments : AnswersOf[n] = Longer(AnswersOf[n - 1])
<1> DEFINE N == MaxSegments
           Is(f) == f = [n \in 0 .. N |-> IF n = 0 THEN {<<>>} ELSE Longer(f[n - 1])]
           step == [n \in 1 .. N |-> [A \in SUBSET Texts |-> Longer(A)]]
<1>0. N \in Nat /\ {<<>>} \in SUBSET Texts
  BY StreamTextConstants DEF Texts
<1>1. \A A \in SUBSET Texts : Longer(A) \in SUBSET Texts
  <2> SUFFICES ASSUME NEW A \in SUBSET Texts, NEW t \in Longer(A) PROVE t \in Texts
    OBVIOUS
  <2>1. PICK a \in A, s \in Segments : t = a \o s
    BY DEF Longer
  <2>2. s \in Texts
    BY Pieces DEF Piece
  <2> QED BY <2>1, <2>2 DEF Texts
<1>2. AnswersOf = CHOOSE f : Is(f)
  BY DEF AnswersOf, Longer
<1> HIDE DEF N
<1>3. step \in [1 .. N -> [SUBSET Texts -> SUBSET Texts]]
  BY <1>1
<1>4. PICK f : Follows(f, N, SUBSET Texts, {<<>>}, step)
  <2> HIDE DEF step
  <2> QED BY <1>0, <1>3, Recursion
<1>5. /\ f \in [0 .. N -> SUBSET Texts] /\ f[0] = {<<>>}
      /\ \A n \in 1 .. N : f[n] = step[n][f[n - 1]]
  BY <1>4 DEF Follows
<1>6. \A n \in 1 .. N : f[n] = Longer(f[n - 1])
  <2> SUFFICES ASSUME NEW n \in 1 .. N PROVE f[n] = Longer(f[n - 1])
    OBVIOUS
  <2>1. n - 1 \in 0 .. N
    BY <1>0
  <2>2. f[n - 1] \in SUBSET Texts
    BY <1>5, <2>1
  <2> QED BY <1>5, <2>2
<1> HIDE DEF step
<1>7. Is(f)
  <2>1. \A n \in 0 .. N : f[n] = IF n = 0 THEN {<<>>} ELSE Longer(f[n - 1])
    <3>1. \A n \in 0 .. N : n = 0 \/ n \in 1 .. N
      BY <1>0
    <3> QED BY <1>5, <1>6, <3>1
  <2>2. f = [n \in 0 .. N |-> f[n]]
    BY <1>5
  <2> QED BY <2>1, <2>2
<1>8. Is(AnswersOf)
  BY <1>2, <1>7
<1>9. \A n \in 0 .. N : AnswersOf[n] = IF n = 0 THEN {<<>>} ELSE Longer(AnswersOf[n - 1])
  BY <1>8, Zenon
<1>10. 0 \in 0 .. N /\ \A n \in 1 .. N : n \in 0 .. N /\ n # 0
  BY <1>0
<1>11. AnswersOf[0] = {<<>>} /\ \A n \in 1 .. N : AnswersOf[n] = Longer(AnswersOf[n - 1])
  BY <1>9, <1>10, Zenon
<1> QED BY <1>11 DEF N

-----------------------------------------------------------------------------
\* What is known of an answer of n segments.
Written(n, a) ==
    /\ a \in Texts /\ \E X : Told(a, X)
    /\ n = 0 => a = <<>>
    /\ n # 0 => a # <<>> /\ a[Len(a)] # "blank"
    /\ n # 0 /\ a[1] = "blank" => 2 <= Len(a) /\ a[2] # "blank" /\ From(a, 2) \in AnswersOf[n]
    /\ a \in Seq(PlainWords) \/ Holds(a, Marks)

\* A text that is joined to another keeps its marks.
LEMMA MarksJoined ==
    ASSUME NEW a \in Texts, NEW s \in Texts,
           a \in Seq(PlainWords) \/ Holds(a, Marks), s \in Seq(PlainWords) \/ Holds(s, Marks)
    PROVE  a \o s \in Seq(PlainWords) \/ Holds(a \o s, Marks)
<1> DEFINE w == a \o s
<1>1. /\ Len(a) \in Nat /\ Len(s) \in Nat /\ w \in Seq(Tokens) /\ Len(w) = Len(a) + Len(s)
      /\ \A k \in 1 .. Len(a) : w[k] = a[k]
      /\ \A k \in 1 .. Len(s) : w[Len(a) + k] = s[k]
  BY Joined DEF Texts
<1>2. CASE a \in Seq(PlainWords) /\ s \in Seq(PlainWords)
  BY <1>2
<1> HIDE DEF w
<1>3. CASE Holds(a, Marks)
  <2>1. PICK i \in 1 .. Len(a) : a[i] \in Marks
    BY <1>3 DEF Holds, Texts
  <2>2. i \in DOMAIN w
    BY <1>1
  <2>3. Holds(w, Marks)
    BY <1>1, <2>1, <2>2 DEF Holds
  <2> QED BY <2>3 DEF w
<1>4. CASE Holds(s, Marks)
  <2>1. PICK i \in 1 .. Len(s) : s[i] \in Marks
    BY <1>4 DEF Holds, Texts
  <2>2. Len(a) + i \in DOMAIN w
    BY <1>1
  <2>3. Holds(w, Marks)
    BY <1>1, <2>1, <2>2 DEF Holds
  <2> QED BY <2>3 DEF w
<1> QED BY <1>2, <1>3, <1>4

\* The rest of a joined text.
LEMMA RestJoined ==
    ASSUME NEW a \in Texts, NEW s \in Texts, NEW i \in 1 .. Len(a) + 1
    PROVE  From(a \o s, i) = From(a, i) \o s
<1> DEFINE w == a \o s
           u == From(w, i)
           f == From(a, i)
           v == f \o s
<1>1. /\ Len(a) \in Nat /\ Len(s) \in Nat /\ w \in Seq(Tokens) /\ Len(w) = Len(a) + Len(s)
      /\ \A k \in 1 .. Len(a) : w[k] = a[k]
      /\ \A k \in 1 .. Len(s) : w[Len(a) + k] = s[k]
  BY Joined DEF Texts
<1> HIDE DEF w
<1>2. /\ u \in Seq(Tokens) /\ Len(u) = Len(w) - i + 1
      /\ \A k \in 1 .. Len(w) - i + 1 : u[k] = w[i + k - 1]
  <2>1. i \in 1 .. Len(w) + 1
    BY <1>1
  <2> QED BY <1>1, <2>1, Parts
<1>3. /\ f \in Seq(Tokens) /\ Len(f) = Len(a) - i + 1
      /\ \A k \in 1 .. Len(a) - i + 1 : f[k] = a[i + k - 1]
  BY Parts DEF Texts
<1> HIDE DEF f, u
<1>4. /\ v \in Seq(Tokens) /\ Len(v) = Len(f) + Len(s)
      /\ \A k \in 1 .. Len(f) : v[k] = f[k]
      /\ \A k \in 1 .. Len(s) : v[Len(f) + k] = s[k]
  <2>1. f \in Seq(Tokens) /\ s \in Seq(Tokens)
    BY <1>3 DEF Texts
  <2> QED BY <2>1, Joined
<1> HIDE DEF v
<1>5. Len(u) = Len(v) /\ Len(u) \in Nat
  BY <1>1, <1>2, <1>3, <1>4
<1>6. ASSUME NEW k \in 1 .. Len(u) PROVE u[k] = v[k]
  <2>1. k \in 1 .. Len(w) - i + 1
    BY <1>2
  <2>2. u[k] = w[i + k - 1]
    BY <1>2, <2>1
  <2>3. CASE k <= Len(f)
    <3>1. k \in 1 .. Len(f) /\ i + k - 1 \in 1 .. Len(a) /\ k \in 1 .. Len(a) - i + 1
      BY <1>1, <1>3, <2>1, <2>3
    <3> QED BY <1>1, <1>3, <1>4, <2>2, <3>1
  <2>4. CASE ~(k <= Len(f))
    <3>1. /\ k - Len(f) \in 1 .. Len(s) /\ Len(f) + (k - Len(f)) = k
          /\ i + k - 1 = Len(a) + (k - Len(f))
      BY <1>1, <1>3, <2>1, <2>4
    <3> QED BY <1>1, <1>4, <2>2, <3>1
  <2> QED BY <2>3, <2>4
<1>7. u = v
  BY <1>2, <1>4, <1>5, <1>6, SeqEqual
<1> QED BY <1>7 DEF u, v, w, f

\* The token before which nothing stands.
LEMMA BlankBefore ==
    ASSUME NEW s \in Texts, s # <<>>, s[1] = "blank"
    PROVE  s = <<"blank">> \o From(s, 2) /\ From(s, 2) \in Texts
<1>1. s \in Seq(Tokens) /\ Len(s) \in Nat \ {0} /\ 2 \in 1 .. Len(s) + 1
  BY DEF Texts
<1>2. /\ From(s, 2) \in Seq(Tokens) /\ s = Before(s, 2) \o From(s, 2)
      /\ Before(s, 2) \in Seq(Tokens) /\ Len(Before(s, 2)) = 2 - 1
      /\ \A k \in 1 .. 2 - 1 : Before(s, 2)[k] = s[k]
  BY <1>1, Parts
<1>3. "blank" \in Tokens
  BY DEF Tokens
<1> DEFINE b == Before(s, 2)
           c == <<"blank">>
<1>4. b \in Seq(Tokens) /\ Len(b) = 1 /\ b[1] = "blank"
  BY <1>2
<1>5. c \in Seq(Tokens) /\ Len(c) = 1 /\ c[1] = "blank"
  BY <1>3
<1> HIDE DEF b, c
<1>6. \A k \in 1 .. 1 : k = 1
  OBVIOUS
<1>7. b = c
  BY <1>4, <1>5, <1>6, SeqEqual
<1> QED BY <1>2, <1>7 DEF b, c, Texts

\* One segment more.
LEMMA WrittenOn ==
    ASSUME NEW n \in 1 .. MaxSegments, NEW b, Written(n - 1, b), b \in AnswersOf[n - 1],
           NEW s \in Segments
    PROVE  Written(n, b \o s)
<1> DEFINE a == b \o s
<1>1. /\ s \in Texts /\ s # <<>> /\ s[Len(s)] # "blank"
      /\ s[1] = "blank" => s = <<"blank", "w">>
      /\ s \in Seq(PlainWords) \/ Holds(s, Marks)
  BY Pieces DEF Piece
<1>2. /\ b \in Texts
      /\ n - 1 = 0 => b = <<>>
      /\ n - 1 # 0 => b # <<>> /\ b[Len(b)] # "blank"
      /\ n - 1 # 0 /\ b[1] = "blank" => /\ 2 <= Len(b) /\ b[2] # "blank"
                                        /\ From(b, 2) \in AnswersOf[n - 1]
      /\ b \in Seq(PlainWords) \/ Holds(b, Marks)
  BY DEF Written
<1>a. \A u \in AnswersOf[n - 1], t \in Segments : u \o t \in AnswersOf[n]
  <2>1. AnswersOf[n] = Longer(AnswersOf[n - 1])
    BY AnswersUnfold
  <2>2. \A A : \A u \in A, t \in Segments : u \o t \in Longer(A)
    BY DEF Longer
  <2> QED BY <2>1, <2>2
<1>3. PICK X : Told(b, X)
  BY DEF Written
<1>4. PICK Y : Told(s, Y)
  BY Pieces DEF Piece
<1>5. \E Z : Told(a, Z)
  BY <1>3, <1>4, ToldJoined
<1>6. /\ a \in Texts /\ Len(b) \in Nat /\ Len(s) \in Nat /\ Len(a) = Len(b) + Len(s)
      /\ \A k \in 1 .. Len(b) : a[k] = b[k]
      /\ \A k \in 1 .. Len(s) : a[Len(b) + k] = s[k]
  BY <1>1, <1>2, Joined DEF Texts
<1>7. Len(s) # 0
  BY <1>1 DEF Texts
<1>8. a # <<>> /\ a[Len(a)] # "blank"
  <2>1. Len(s) \in 1 .. Len(s)
    BY <1>6, <1>7
  <2>2. a[Len(b) + Len(s)] = s[Len(s)]
    BY <1>6, <2>1
  <2>3. Len(a) # 0
    BY <1>6, <1>7
  <2> QED BY <1>1, <1>6, <2>2, <2>3
<1>9. a \in Seq(PlainWords) \/ Holds(a, Marks)
  BY <1>1, <1>2, MarksJoined
<1>10. ASSUME a[1] = "blank"
       PROVE  2 <= Len(a) /\ a[2] # "blank" /\ From(a, 2) \in AnswersOf[n]
  <2>1. CASE n - 1 = 0
    <3>1. b = <<>> /\ a = s
      BY <1>1, <1>2, <2>1 DEF Texts
    <3>2. s = <<"blank", "w">>
      BY <1>1, <1>10, <3>1
    <3>3. Len(a) = 2 /\ a[2] = "w"
      BY <3>1, <3>2
    <3>4. From(a, 2) = <<"w">>
      <4>1. a \in Seq(Tokens) /\ 2 \in 1 .. Len(a) + 1
        BY <1>6, <3>3 DEF Texts
      <4>2. /\ From(a, 2) \in Seq(Tokens) /\ Len(From(a, 2)) = Len(a) - 2 + 1
            /\ \A k \in 1 .. Len(a) - 2 + 1 : From(a, 2)[k] = a[2 + k - 1]
        BY <4>1, Parts
      <4> DEFINE c == From(a, 2)
                 d == <<"w">>
      <4>3. c \in Seq(Tokens) /\ Len(c) = 1 /\ c[1] = "w"
        BY <3>3, <4>2
      <4>4. d \in Seq(Tokens) /\ Len(d) = 1 /\ d[1] = "w"
        BY DEF Tokens
      <4> HIDE DEF c, d
      <4>5. \A k \in 1 .. 1 : k = 1
        OBVIOUS
      <4>6. c = d
        BY <4>3, <4>4, <4>5, SeqEqual
      <4> QED BY <4>6 DEF c, d
    <3>5. <<"w">> \in Segments /\ <<>> \o <<"w">> = <<"w">>
      BY DEF Segments
    <3>6. b \o <<"w">> \in AnswersOf[n]
      BY <1>a, <3>5
    <3>7. From(a, 2) \in AnswersOf[n]
      BY <3>1, <3>4, <3>5, <3>6
    <3> HIDE DEF a
    <3> QED BY <3>3, <3>7
  <2>2. CASE n - 1 # 0
    <3>1. b # <<>> /\ Len(b) # 0
      BY <1>2, <2>2 DEF Texts
    <3>2. 1 \in 1 .. Len(b)
      BY <1>6, <3>1
    <3>3. b[1] = "blank"
      BY <1>6, <1>10, <3>2
    <3>4. 2 <= Len(b) /\ b[2] # "blank" /\ From(b, 2) \in AnswersOf[n - 1]
      BY <1>2, <2>2, <3>3
    <3>5. 2 \in 1 .. Len(b) /\ 2 \in 1 .. Len(b) + 1 /\ 2 <= Len(a)
      BY <1>6, <3>4
    <3>6. From(a, 2) = From(b, 2) \o s
      BY <1>1, <1>2, <3>5, RestJoined
    <3>7. From(b, 2) \o s \in AnswersOf[n]
      BY <1>a, <3>4
    <3>8. a[2] # "blank"
      BY <1>6, <3>4, <3>5
    <3> HIDE DEF a
    <3> QED BY <3>5, <3>6, <3>7, <3>8
  <2> QED BY <2>1, <2>2
<1>11. n # 0
  OBVIOUS
<1> HIDE DEF a
<1>12. Written(n, a)
  BY <1>5, <1>6, <1>8, <1>9, <1>10, <1>11 DEF Written
<1> QED BY <1>12 DEF a

\* All answers are written like that.
LEMMA AllWritten == \A n \in 0 .. MaxSegments : \A a \in AnswersOf[n] : Written(n, a)
<1> DEFINE T == {n \in 0 .. MaxSegments : \A a \in AnswersOf[n] : Written(n, a)}
<1>0. MaxSegments \in Nat
  BY StreamTextConstants
<1>1. 0 \in T
  <2> DEFINE e == <<>>
  <2>1. e \in Seq(Clean) /\ \A i \in 1 .. Len(e) : e[i] # "think>"
    OBVIOUS
  <2>3. e \in Seq(PlainWords) /\ e \in Texts
    BY DEF Texts
  <2>4. Written(0, e)
    <3>1. Told(e, e)
      <4> HIDE DEF e
      <4> QED BY <2>1, PlainTold
    <3> QED BY <2>3, <3>1 DEF Written
  <2>5. 0 \in 0 .. MaxSegments
    BY <1>0
  <2> QED BY <2>4, <2>5, AnswersUnfold
<1>2. ASSUME NEW n \in 1 .. MaxSegments, n - 1 \in T PROVE n \in T
  <2>1. \A b \in AnswersOf[n - 1] : Written(n - 1, b)
    BY <1>2
  <2>2. n \in 0 .. MaxSegments
    BY <1>0
  <2>3. ASSUME NEW a \in AnswersOf[n] PROVE Written(n, a)
    <3>1. PICK b \in AnswersOf[n - 1], s \in Segments : a = b \o s
      BY AnswersUnfold DEF Longer
    <3> QED BY <2>1, <3>1, WrittenOn
  <2> QED BY <2>2, <2>3
<1>3. \A n \in 0 .. MaxSegments : n \in T
  <2> HIDE DEF T
  <2> QED BY <1>0, <1>2, <1>1, Induction
<1> QED BY <1>3

\* Every answer tells something definite, is not blank, and is still an answer when
\* trimmed.
LEMMA AnswerFacts ==
    ASSUME NEW a \in Answers
    PROVE  /\ a \in Texts /\ a # <<>> /\ Trim(a) \in Answers /\ Trim(a) # <<>>
           /\ Trim(a) = a \/ a = <<"blank">> \o Trim(a)
           /\ a \in Seq(PlainWords) \/ Holds(a, Marks)
           /\ \E X : Told(a, X)
<1>1. PICK n \in 1 .. MaxSegments : a \in AnswersOf[n]
  BY DEF Answers
<1>2. n \in 0 .. MaxSegments /\ n # 0
  OBVIOUS
<1>3. Written(n, a)
  BY <1>1, <1>2, AllWritten
<1>4. /\ a \in Texts /\ a # <<>> /\ a[Len(a)] # "blank" /\ \E X : Told(a, X)
      /\ a[1] = "blank" => 2 <= Len(a) /\ a[2] # "blank" /\ From(a, 2) \in AnswersOf[n]
      /\ a \in Seq(PlainWords) \/ Holds(a, Marks)
  BY <1>2, <1>3 DEF Written
<1>5. CASE a[1] # "blank"
  <2>1. Trim(a) = a
    BY <1>4, <1>5, TrimmedEnds DEF Texts
  <2> QED BY <1>4, <2>1
<1>6. CASE a[1] = "blank"
  <2>1. Trim(a) = From(a, 2)
    BY <1>4, <1>6, TrimmedEnds DEF Texts
  <2>2. a = <<"blank">> \o From(a, 2)
    BY <1>4, <1>6, BlankBefore
  <2>3. From(a, 2) \in Answers
    BY <1>4, <1>6 DEF Answers
  <2>4. From(a, 2) # <<>>
    <3>1. Written(n, From(a, 2))
      BY <1>2, <1>4, <1>6, AllWritten
    <3> QED BY <1>2, <3>1 DEF Written
  <2> QED BY <1>4, <2>1, <2>2, <2>3, <2>4
<1> QED BY <1>5, <1>6

-----------------------------------------------------------------------------
\* A chunk goes through ThinkTagStreamFilter as the reader reads it.
Holding(in, hold) == in \in BOOLEAN /\ hold \in {<<>>, <<TagOf(in)[1]>>}
ReadOn(s, in, hold, r, t, u) ==
    /\ Holding(s.in, s.hold)
    /\ s.response \in Texts /\ s.thought \in Texts /\ s.hold \in Texts
    /\ Run(State(in, hold, r, t), u) = State(s.in, s.hold, r \o s.response, t \o s.thought)
\* A chunk after what the filter holds is split as the reader, at the filter's state,
\* reads the chunk.
LEMMA SplitOn ==
    ASSUME NEW in, NEW hold, Holding(in, hold), NEW r \in Texts, NEW t \in Texts, NEW u \in Texts
    PROVE  ReadOn(Split(hold \o u, in), in, hold, r, t, u)
<1> DEFINE y == State(in, hold, r, t)
           w == hold \o u
           s == Split(w, in)
<1>a. in \in BOOLEAN /\ hold \in {<<>>, <<TagOf(in)[1]>>}
  BY DEF Holding
<1>1. \A b \in BOOLEAN : <<>> \in Texts /\ <<TagOf(b)[1]>> \in Texts
  <2>1. \A b \in BOOLEAN : TagOf(b)[1] \in Tokens
    BY TagHalves
  <2> QED BY <2>1 DEF Texts
<1>2. hold \in Texts /\ w \in Texts
  <2>1. hold \in Texts
    BY <1>1, <1>a
  <2> QED BY <2>1 DEF Texts
<1>3. y \in ReadStates /\ y.in = in /\ y.hold = hold /\ y.response = r /\ y.thought = t
  BY <1>2, <1>a DEF State, ReadStates
<1> HIDE DEF y
<1>4. Run(y, u) = Run(State(in, <<>>, r, t), w)
  BY <1>3, <1>a, RunHeld
<1> HIDE DEF w
<1>5. /\ s.response \in Texts /\ s.thought \in Texts /\ s.in \in BOOLEAN
      /\ s.hold \in {<<>>, <<TagOf(s.in)[1]>>}
      /\ Run(State(in, <<>>, r, t), w) = State(s.in, s.hold, r \o s.response, t \o s.thought)
  BY <1>2, <1>a, SplitRead
<1> HIDE DEF s
<1>6. s.hold \in Texts
  BY <1>1, <1>5
<1>7. Run(y, u) = State(s.in, s.hold, r \o s.response, t \o s.thought)
  BY <1>4, <1>5
<1> HIDE DEF s
<1>8. ReadOn(s, in, hold, r, t, u)
  BY <1>5, <1>6, <1>7 DEF ReadOn, Holding, y
<1> QED BY <1>8 DEF s, w

\* What is common to two texts in front can be left off.
LEMMA Cancelled ==
    ASSUME NEW r \in Texts, NEW u \in Texts, NEW v \in Texts, r \o u = r \o v
    PROVE  u = v
<1> DEFINE a == r \o u
           b == r \o v
<1>1. r \in Seq(Tokens) /\ u \in Seq(Tokens) /\ v \in Seq(Tokens)
  BY DEF Texts
<1>2. /\ Len(a) = Len(r) + Len(u)
      /\ \A k \in 1 .. Len(u) : a[Len(r) + k] = u[k]
  BY <1>1, Joined
<1>3. /\ Len(b) = Len(r) + Len(v)
      /\ \A k \in 1 .. Len(v) : b[Len(r) + k] = v[k]
  BY <1>1, Joined
<1>4. a = b
  OBVIOUS
<1>5. Len(r) \in Nat /\ Len(u) \in Nat /\ Len(v) \in Nat
  BY <1>1
<1> HIDE DEF a, b
<1>6. Len(u) = Len(v) /\ \A k \in 1 .. Len(u) : u[k] = v[k]
  BY <1>2, <1>3, <1>4, <1>5
<1> QED BY <1>1, <1>6, SeqEqual

\* Chunk after chunk, and what is still to come.
LEMMA Chunks ==
    ASSUME NEW s \in Texts, NEW k \in 0 .. Len(s), NEW n \in Nat, k + n <= Len(s)
    PROVE  /\ SubSeq(s, 1, k) \in Texts /\ SubSeq(s, k + 1, k + n) \in Texts
           /\ From(s, k + n + 1) \in Texts
           /\ SubSeq(s, 1, k + n) = SubSeq(s, 1, k) \o SubSeq(s, k + 1, k + n)
           /\ s = SubSeq(s, 1, k + n) \o From(s, k + n + 1)
<1>0. s \in Seq(Tokens) /\ Len(s) \in Nat /\ k \in Nat
  BY DEF Texts
<1> DEFINE a == SubSeq(s, 1, k)
           b == SubSeq(s, k + 1, k + n)
           c == SubSeq(s, 1, k + n)
           w == a \o b
           q == k + n + 1
<1>1. a \in Seq(Tokens) /\ Len(a) = k /\ \A j \in 1 .. k : a[j] = s[j]
  BY <1>0
<1>2. b \in Seq(Tokens) /\ Len(b) = n /\ \A j \in 1 .. n : b[j] = s[k + j]
  <2>1. k + 1 \in 1 .. Len(s) + 1 /\ k + n \in k .. Len(s)
    BY <1>0
  <2>2. b \in Seq(Tokens)
    BY <1>0, <2>1
  <2>3. Len(b) = n
    BY <1>0, <2>1
  <2>4. \A j \in 1 .. n : b[j] = s[k + j]
    BY <1>0, <2>1
  <2> QED BY <2>2, <2>3, <2>4
<1>3. c \in Seq(Tokens) /\ Len(c) = k + n /\ \A j \in 1 .. k + n : c[j] = s[j]
  BY <1>0
<1>4. From(s, q) \in Seq(Tokens) /\ s = Before(s, q) \o From(s, q)
  <2>1. q \in 1 .. Len(s) + 1
    BY <1>0
  <2> HIDE DEF q
  <2> QED BY <1>0, <2>1, Parts
<1>5. Before(s, q) = c
  <2>1. q - 1 = k + n
    BY <1>0
  <2> QED BY <2>1 DEF Before
<1> HIDE DEF a, b, c
<1>6. /\ w \in Seq(Tokens) /\ Len(w) = k + n
      /\ \A j \in 1 .. k + n : w[j] = s[j]
  <2>1. /\ w \in Seq(Tokens) /\ Len(w) = Len(a) + Len(b)
        /\ \A j \in 1 .. Len(a) : w[j] = a[j]
        /\ \A j \in 1 .. Len(b) : w[Len(a) + j] = b[j]
    <3>1. a \in Seq(Tokens) /\ b \in Seq(Tokens)
      BY <1>1, <1>2
    <3> QED BY <3>1, Joined
  <2> HIDE DEF w
  <2>2. ASSUME NEW j \in 1 .. k + n PROVE w[j] = s[j]
    <3>1. CASE j <= k
      <4>1. j \in 1 .. k
        BY <1>0, <3>1
      <4> QED BY <1>1, <2>1, <4>1
    <3>2. CASE ~(j <= k)
      <4>1. j - k \in 1 .. n /\ k + (j - k) = j
        BY <1>0, <3>2
      <4>2. w[k + (j - k)] = b[j - k]
        BY <1>1, <1>2, <2>1, <4>1
      <4>3. b[j - k] = s[k + (j - k)]
        BY <1>2, <4>1
      <4> QED BY <4>1, <4>2, <4>3
    <3> QED BY <3>1, <3>2
  <2> QED BY <1>1, <1>2, <2>1, <2>2
<1> HIDE DEF w
<1>7. c = w
  BY <1>0, <1>3, <1>6, SeqEqual
<1> HIDE DEF q
<1> QED BY <1>1, <1>2, <1>4, <1>5, <1>7 DEF a, b, c, w, q, Texts

\* A chunk in the filter of calls, and what StripToolCalls leaves of what it lets
\* through.
FilterOn(hold, r) ==
    IF r = <<>> THEN [safe |-> <<>>, hold |-> hold, calls |-> {}] ELSE Filter(hold \o r)
\* The filter of calls lets a chunk's response through clean, and what is still to come
\* completes what it holds.
LEMMA ChunkFiltered ==
    ASSUME NEW S \in SUBSET Tokens, NEW hold \in Seq(S), NEW r \in Seq(S), NEW f \in Texts,
           Covered(hold \o (r \o f))
    PROVE  LET g == FilterOn(hold, r)
               safe == StripToolCalls(g.safe)
           IN  /\ g.hold \in Seq(S) /\ Covered(g.hold \o f)
               /\ g.calls \in SUBSET Nat /\ safe.calls \in SUBSET Nat
               /\ safe.text \in Seq(S \cap Clean)
<1> DEFINE g == FilterOn(hold, r)
           safe == StripToolCalls(g.safe)
           T == S \cap Clean
<1>0. hold \in Seq(Tokens) /\ r \in Seq(Tokens) /\ f \in Seq(Tokens) /\ T \in SUBSET Tokens
  BY DEF Texts
<1>1. g.hold \in Seq(S) /\ Covered(g.hold \o f) /\ g.calls \in SUBSET Nat /\ g.safe \in Seq(T)
  <2>1. CASE r = <<>>
    <3>1. g.safe = <<>> /\ g.hold = hold /\ g.calls = {}
      BY <2>1 DEF FilterOn
    <3>2. r \o f = f
      BY <1>0, <2>1
    <3>3. <<>> \in Seq(T)
      OBVIOUS
    <3> HIDE DEF g, T
    <3> QED BY <3>1, <3>2, <3>3
  <2>2. CASE r # <<>>
    <3>1. g = Filter(hold \o r)
      BY <2>2 DEF FilterOn
    <3>2. hold \o r \in Seq(S)
      OBVIOUS
    <3>3. (hold \o r) \o f = hold \o (r \o f)
      <4>1. \A a, b, c \in Seq(Tokens) : (a \o b) \o c = a \o (b \o c)
        BY Regrouped
      <4> QED BY <1>0, <4>1, Zenon
    <3> DEFINE w == hold \o r
    <3>4. Covered(w \o f) /\ w \in Seq(S) /\ g = Filter(w)
      BY <3>1, <3>2, <3>3
    <3> HIDE DEF w, g
    <3> QED BY <3>4, Filtered
  <2> QED BY <2>1, <2>2
<1> HIDE DEF g, T
<1>2. safe.text \in Seq(T) /\ safe.calls \in SUBSET Nat
  BY <1>0, <1>1, ToolCallsStripped
<1> QED BY <1>1, <1>2 DEF g, T

\* Plain words go through both as they are.
LEMMA ChunkPlain ==
    ASSUME NEW r \in Seq(PlainWords)
    PROVE  /\ FilterOn(<<>>, r).hold = <<>> /\ FilterOn(<<>>, r).calls = {}
           /\ StripToolCalls(FilterOn(<<>>, r).safe).calls = {}
<1> DEFINE g == FilterOn(<<>>, r)
<1>1. g.hold = <<>> /\ g.calls = {} /\ g.safe \in Seq(PlainWords)
  <2>1. CASE r = <<>>
    <3>1. g.safe = <<>> /\ g.hold = <<>> /\ g.calls = {}
      BY <2>1 DEF FilterOn
    <3> HIDE DEF g
    <3> QED BY <3>1
  <2>2. CASE r # <<>>
    <3>1. g = Filter(<<>> \o r) /\ <<>> \o r = r
      BY <2>2 DEF FilterOn
    <3>2. g = Filter(r)
      BY <3>1
    <3> HIDE DEF g
    <3>3. g.safe = Trim(r) /\ g.hold = <<>> /\ g.calls = {}
      BY <3>2, PlainFiltered
    <3> QED BY <3>3, Trimmed
  <2> QED BY <2>1, <2>2
<1> HIDE DEF g
<1>2. StripToolCalls(g.safe) = [text |-> Trim(g.safe), calls |-> {}]
  BY <1>1, PlainStripped
<1>3. StripToolCalls(g.safe).calls = {}
  BY <1>2
<1> QED BY <1>1, <1>3 DEF g

-----------------------------------------------------------------------------
\* At the end of an answer outside the tags, what was held back is told too.
LEMMA FlushedTags ==
    ASSUME NEW in \in BOOLEAN, ~in, NEW hold \in Halves, NEW T \in Texts, NEW X \in Texts, Keeps(T, X)
    PROVE  FlushTags(hold, in, T).response = hold \o X
<1> DEFINE y == State(in, hold, <<>>, <<>>)
           s == Split(hold \o T, in)
           z == Run(y, T)
<1>1. TagOf(in)[1] = "<think" /\ <<>> \in Texts /\ <<"<think">> \in Texts
  BY DEF TagOf, ThinkOpen, Texts, Tokens
<1>2. hold \in {<<>>, <<TagOf(in)[1]>>} /\ hold \in Texts
  BY <1>1 DEF Halves
<1>3. y \in ReadStates /\ y.in = in /\ y.hold = hold /\ y.response = <<>>
  BY <1>1, <1>2 DEF State, ReadStates
<1>4. Between(y)
  BY <1>3 DEF Between
<1>5. /\ s.in \in BOOLEAN /\ s.hold \in Texts /\ s.response \in Texts /\ s.thought \in Texts
      /\ z = State(s.in, s.hold, <<>> \o s.response, <<>> \o s.thought)
  <2> DEFINE e == <<>>
  <2>1. e \in Texts
    BY <1>1
  <2>2. z = Run(State(in, hold, e, e), T)
    OBVIOUS
  <2>a. Holding(in, hold)
    BY <1>2 DEF Holding
  <2> HIDE DEF e, z
  <2>3. ReadOn(s, in, hold, e, e, T)
    BY <2>1, <2>a, SplitOn
  <2> HIDE DEF s
  <2>4. /\ s.in \in BOOLEAN /\ s.hold \in Texts /\ s.response \in Texts /\ s.thought \in Texts
        /\ Run(State(in, hold, e, e), T) = State(s.in, s.hold, e \o s.response, e \o s.thought)
    BY <2>3 DEF ReadOn, Holding
  <2> QED BY <2>2, <2>4 DEF e
<1> HIDE DEF y
<1>6. Between(z) /\ z.response \o z.hold = (<<>> \o hold) \o X
  BY <1>3, <1>4 DEF Keeps
<1> HIDE DEF z, s
<1>7. z.in = s.in /\ z.hold = s.hold /\ z.response = <<>> \o s.response
  BY <1>5 DEF State
<1>8. <<>> \o s.response = s.response /\ <<>> \o hold = hold
  BY <1>2, <1>5 DEF Texts
<1>9. ~s.in /\ s.response \o s.hold = hold \o X
  BY <1>6, <1>7, <1>8 DEF Between
<1>10. FlushTags(hold, in, T) = Sided(s, s.hold)
  BY DEF FlushTags, s
<1>11. Sided(s, s.hold).response = s.response \o s.hold
  BY <1>9 DEF Sided
<1> QED BY <1>9, <1>10, <1>11

\* At the end ToolCallStreamFilter leaves no markup and has a request of every
\* whole call.
LEMMA FlushedCalls ==
    ASSUME NEW hold \in Texts, Covered(hold), NEW response \in Texts, WholeIn(response, response)
    PROVE  LET flushed == FlushCalls(hold, response)
           IN  /\ flushed.text \in Seq(Clean) /\ Values(response) \subseteq flushed.calls
<1> DEFINE flushed == FlushCalls(hold, response)
<1>1. /\ hold \in Seq(Tokens) /\ response \in Seq(Tokens) /\ Tokens \in SUBSET Tokens
      /\ Tokens \cap Clean = Clean
  BY DEF Texts, Clean
<1>2. Covered(response)
  BY WholeCovered
<1>3. ASSUME NEW s \in Seq(Tokens), Covered(s) PROVE StripToolCalls(s).text \in Seq(Clean)
  <2>1. StripToolCalls(s).text \in Seq(Tokens \cap Clean)
    BY <1>1, <1>3, ToolCallsStripped
  <2> QED BY <1>1, <2>1
<1>4. CASE Trim(response) = <<>>
  <2>1. flushed = StripToolCalls(hold)
    BY <1>4 DEF FlushCalls
  <2>2. Values(response) = {}
    BY <1>4, ValuesFound
  <2> HIDE DEF flushed
  <2> QED BY <1>1, <1>3, <2>1, <2>2 DEF flushed
<1>5. CASE Trim(response) # <<>> /\ Find(response, CallOpen) > 0
  <2>1. flushed.text = StripToolCalls(response).text
    BY <1>5 DEF FlushCalls
  <2>2. StripToolCalls(response).calls \subseteq flushed.calls
    BY <1>5 DEF FlushCalls
  <2>3. Values(response) \subseteq StripToolCalls(response).calls
    BY WholeCalls
  <2> HIDE DEF flushed
  <2> QED BY <1>1, <1>2, <1>3, <2>1, <2>2, <2>3 DEF flushed
<1>6. CASE Trim(response) # <<>> /\ ~(Find(response, CallOpen) > 0)
  <2>1. flushed = StripToolCalls(hold \o response)
    BY <1>6 DEF FlushCalls
  <2>2. Covered(hold \o response) /\ hold \o response \in Seq(Tokens)
    BY <1>1, <1>2, CoveredJoined
  <2>3. Values(response) = {}
    <3> SUFFICES ASSUME Values(response) # {} PROVE FALSE
      OBVIOUS
    <3>1. FirstCall(response, Find(response, CallOpen),
                    Find(From(response, Find(response, CallOpen)), CallClose))
      BY CallFound
    <3>2. Find(response, CallOpen) \in Nat
      BY <3>1 DEF FirstCall
    <3>3. Find(response, CallOpen) # 0
      BY ValuesFound
    <3> QED BY <1>6, <3>2, <3>3
  <2> HIDE DEF flushed
  <2> QED BY <1>1, <1>3, <2>1, <2>2, <2>3 DEF flushed
<1> QED BY <1>4, <1>5, <1>6

\* Plain words stay as they are.
LEMMA FlushedPlain ==
    ASSUME NEW response \in Seq(PlainWords), response # <<>>, Trim(response) = response
    PROVE  /\ FlushCalls(<<>>, response).text = response
           /\ FlushCalls(<<>>, response).calls = {}
<1>1. Find(response, CallOpen) = 0
  BY PlainFinds
<1>2. ~(Find(response, CallOpen) > 0) /\ <<>> \o response = response
  BY <1>1
<1>3. FlushCalls(<<>>, response) = StripToolCalls(<<>> \o response)
  BY <1>2 DEF FlushCalls
<1>4. StripToolCalls(response) = [text |-> response, calls |-> {}]
  BY PlainStripped
<1> QED BY <1>2, <1>3, <1>4

\* The value at a function of an answer is one of a whole call, there and in what
\* the answer tells.
LEMMA FunctionAt ==
    ASSUME NEW s \in Texts, NEW X, WholeIn(s, X), NEW k \in 1 .. Len(s), s[k] = Function
    PROVE  \E n \in Values(X) : n \in Values(s) /\ k - 2 \in 1 .. Len(s) /\ BlockAt(s, k - 2, n)
<1>1. Len(s) \in Nat /\ s[k] \in Markup
  BY DEF Texts, Markup
<1>2. InBlock(s, k, X)
  BY <1>1 DEF WholeIn
<1>3. PICK i \in 1 .. k, n \in Values(X) : BlockAt(s, i, n) /\ k <= i + n + 4
  BY <1>2 DEF InBlock
<1>4. n \in Nat
  BY DEF Values
<1>5. /\ s[i] = "<tool" /\ s[i + 1] = "call>" /\ s[i + 2] = Function
      /\ \A j \in i + 3 .. i + n + 2 : s[j] = "v"
      /\ s[i + n + 3] = FunctionEnd /\ s[i + n + 4] = "/call>" /\ i + n + 4 <= Len(s)
  BY <1>3 DEF BlockAt
<1>6. /\ Function # "<tool" /\ Function # "call>" /\ Function # "v" /\ Function # FunctionEnd
      /\ Function # "/call>"
  BY DEF Function, FunctionEnd
<1>7. \/ k = i \/ k = i + 1 \/ k = i + 2 \/ k \in i + 3 .. i + n + 2 \/ k = i + n + 3
      \/ k = i + n + 4
  BY <1>3, <1>4
<1>8. k = i + 2
  BY <1>5, <1>6, <1>7
<1>9. k - 2 = i /\ i \in 1 .. Len(s)
  BY <1>1, <1>8
<1>10. n \in Values(s)
  BY <1>3, <1>4, <1>9 DEF Values
<1> QED BY <1>3, <1>9, <1>10

ValueOf(s, i) == Cardinality({j \in (i + 1) .. Len(s) : \A k \in (i + 1) .. j : s[k] = "v"})
\* The parameter of a call of the trimmed answer is a value of a call of what is told: the
\* sanitizer's payloads are those of whole calls.
LEMMA FunctionValue ==
    ASSUME NEW T \in Texts, NEW X, WholeIn(T, X), NEW s \in Texts, s = T \/ s = <<"blank">> \o T,
           NEW i \in 1 .. Len(s), s[i] = Function
    PROVE  ValueOf(s, i) \in Values(T) \cap Values(X)
<1>0. \A Z : \A n \in Values(Z) : n \in Nat
  BY DEF Values
<1>a. Len(s) \in Nat /\ Len(T) \in Nat
  BY DEF Texts
<1>1. ASSUME NEW n \in Nat, NEW j \in Nat \ {0}, j + 2 = i, BlockAt(s, j, n)
      PROVE  ValueOf(s, i) = n
  <2>1. Cardinality({k \in (j + 2 + 1) .. Len(s) : \A m \in (j + 2 + 1) .. k : s[m] = "v"}) = n
    BY <1>1, ValueCounted
  <2> QED BY <1>1, <2>1 DEF ValueOf
<1>2. CASE s = T
  <2>1. PICK n \in Values(X) : n \in Values(T) /\ i - 2 \in 1 .. Len(T) /\ BlockAt(T, i - 2, n)
    BY <1>2, FunctionAt
  <2>2. i - 2 \in Nat \ {0} /\ (i - 2) + 2 = i
    BY <1>a, <2>1
  <2>3. ValueOf(s, i) = n
    BY <1>0, <1>1, <1>2, <2>1, <2>2
  <2> QED BY <2>1, <2>3
<1>3. CASE s = <<"blank">> \o T
  <2> DEFINE b == <<"blank">>
             k == i - 1
  <2>1. b \in Texts /\ Len(b) = 1 /\ b[1] = "blank"
    BY DEF Texts, Tokens
  <2> HIDE DEF b
  <2>2. /\ Len(s) = 1 + Len(T) /\ s[1] = "blank" /\ \A j \in 1 .. Len(T) : s[1 + j] = T[j]
    <3>1. b \in Seq(Tokens) /\ T \in Seq(Tokens)
      BY <2>1 DEF Texts
    <3>2. /\ Len(b \o T) = Len(b) + Len(T)
          /\ \A j \in 1 .. Len(b) : (b \o T)[j] = b[j]
          /\ \A j \in 1 .. Len(T) : (b \o T)[Len(b) + j] = T[j]
      BY <3>1, Joined
    <3>3. s = b \o T
      BY <1>3 DEF b
    <3> QED BY <2>1, <3>2, <3>3
  <2>3. i # 1
    BY <2>2 DEF Function
  <2>4. k \in 1 .. Len(T) /\ 1 + k = i
    BY <1>a, <2>2, <2>3
  <2>5. T[k] = Function
    BY <2>2, <2>4
  <2> HIDE DEF k
  <2>6. PICK n \in Values(X) : n \in Values(T) /\ k - 2 \in 1 .. Len(T) /\ BlockAt(T, k - 2, n)
    BY <2>4, <2>5, FunctionAt
  <2>7. k - 2 \in Nat \ {0} /\ n \in Nat
    BY <1>0, <2>6
  <2>8. BlockAt(s, 1 + (k - 2), n)
    <3>1. BlockAt(b \o T, Len(b) + (k - 2), n)
      BY <2>1, <2>6, <2>7, BlockShifts
    <3> QED BY <1>3, <2>1, <3>1 DEF b
  <2>9. 1 + (k - 2) \in Nat \ {0} /\ (1 + (k - 2)) + 2 = i
    BY <2>4, <2>7
  <2>10. ValueOf(s, i) = n
    BY <1>1, <2>7, <2>8, <2>9
  <2> QED BY <2>6, <2>10
<1> QED BY <1>2, <1>3

-----------------------------------------------------------------------------
(* The invariant of the streamed answer.                                   *)

\* What the filters may let through: with thinking on, no second half of a tag.
PassedOn == IF thinks THEN NoThinkEnd ELSE Tokens
ReadSoFar == SubSeq(text, 1, received)

\* R has come out of the filter of the tags, f is still to come, as if the whole
\* answer had been there at once.
Reached(R, f) ==
    IF thinks
    THEN /\ Told(text, R \o f) /\ Holding(inThink, tagHold)
         /\ thinking \in Texts /\ Run(Begin, ReadSoFar) = State(inThink, tagHold, R, thinking)
    ELSE R = ReadSoFar /\ R \o f = text
Covering(f) == Covered(callHold \o f)

Waiting ==
    /\ text = <<>> /\ received = 0 /\ thinks \in BOOLEAN /\ tagHold = <<>> /\ inThink = FALSE
    /\ callHold = <<>> /\ shown = <<>> /\ thinking = <<>> /\ boxes = {} /\ answered = FALSE
Streaming ==
    /\ text \in Answers /\ thinks \in BOOLEAN /\ answered = FALSE /\ received \in 0 .. Len(text)
    /\ callHold \in Seq(PassedOn) /\ shown \in Seq(PassedOn \cap Clean) /\ boxes \in SUBSET Nat
    /\ text \in Seq(PlainWords) => callHold = <<>> /\ boxes = {}
    /\ \E R, f \in Texts : Reached(R, f) /\ Covering(f)
Finished ==
    /\ text \in Answers /\ answered = TRUE /\ shown \in Seq(Clean)
    /\ \A i \in Blocks : ValueAt(i) \in boxes
    /\ text \in Seq(PlainWords) => shown = Trim(text)
StreamInv == Waiting \/ Streaming \/ Finished

\* It holds when the answer is asked for.
LEMMA AnswerAsked == StreamTextInit => StreamInv
BY DEF StreamTextInit, StreamInv, Waiting

\* An answer begins.
LEMMA BeginTyped == Begin \in ReadStates /\ Between(Begin) /\ Begin.response = <<>> /\ Begin.hold = <<>>
                    /\ Begin.in = FALSE /\ Begin.thought = <<>>
BY DEF Begin, State, ReadStates, Between, Halves, Texts

\* An answer that begins is an answer being streamed of which nothing is read
\* (StartAnswer).
LEMMA AnswerStarted ==
    ASSUME Waiting, StartAnswer
    PROVE  Streaming'
<1>1. /\ text' \in Answers /\ thinks' \in BOOLEAN /\ received' = 0 /\ tagHold' = <<>>
      /\ inThink' = FALSE /\ callHold' = <<>> /\ shown' = <<>> /\ thinking' = <<>>
      /\ boxes' = {} /\ answered' = FALSE
  BY DEF Waiting, StartAnswer
<1> DEFINE a == text'
<1>2. a \in Texts /\ \E X : Told(a, X)
  BY <1>1, AnswerFacts
<1>3. PICK X : Told(a, X)
  BY <1>2
<1>4. X \in Texts /\ WholeIn(X, X) /\ WholeIn(a, a) /\ Len(a) \in Nat
  <2>1. X \in Seq(NoThinkEnd) /\ WholeIn(X, X) /\ WholeIn(a, a)
    BY <1>3 DEF Told
  <2>2. X \in Texts
    BY <2>1 DEF Texts, NoThinkEnd
  <2> HIDE DEF a
  <2> QED BY <1>2, <2>1, <2>2 DEF Texts
<1>a. PICK b \in Texts : b = text'
  BY <1>2
<1>5. Covered(X) /\ Covered(a)
  BY <1>2, <1>4, WholeCovered
<1>6. SubSeq(a, 1, 0) = <<>> /\ <<>> \in Texts
  <2>1. a \in Seq(Tokens)
    BY <1>2 DEF Texts
  <2> HIDE DEF a
  <2> QED BY <2>1, Beginnings DEF Texts
<1>7. Run(Begin, <<>>) = State(inThink', tagHold', <<>>, thinking')
  <2>1. Run(Begin, <<>>) = Begin
    BY BeginTyped, RunNothing
  <2> QED BY <1>1, <2>1 DEF Begin
<1>8. <<>> \o X = X /\ <<>> \o a = a
  <2> HIDE DEF a
  <2> QED BY <1>2, <1>4 DEF Texts
<1>9. (\E R, f \in Texts : Reached(R, f) /\ Covering(f))'
  <2>1. ReadSoFar' = <<>>
    BY <1>1, <1>6 DEF ReadSoFar
  <2>2. CASE thinks'
    <3>1. Reached(<<>>, X)'
      BY <1>1, <1>3, <1>6, <1>7, <1>8, <2>1, <2>2 DEF Reached, Holding
    <3>2. Covering(X)'
      BY <1>1, <1>5, <1>8 DEF Covering
    <3> QED BY <1>4, <1>6, <3>1, <3>2
  <2>3. CASE ~thinks'
    <3>1. Reached(<<>>, b)'
      BY <1>6, <1>8, <1>a, <2>1, <2>3 DEF Reached
    <3>2. Covering(b)'
      BY <1>1, <1>5, <1>8, <1>a DEF Covering
    <3> QED BY <1>6, <3>1, <3>2
  <2> QED BY <2>2, <2>3
<1>10. callHold' \in Seq(PassedOn') /\ shown' \in Seq(PassedOn' \cap Clean)
  BY <1>1
<1>11. received' \in 0 .. Len(text')
  BY <1>1, <1>4
<1>12. boxes' \in SUBSET Nat
  BY <1>1
<1> HIDE DEF a
<1> QED BY <1>1, <1>9, <1>10, <1>11, <1>12 DEF Streaming

-----------------------------------------------------------------------------
\* What a chunk adds to the response, and what is still to come then.
SplitOf(delta) ==
    IF thinks THEN Split(tagHold \o delta, inThink)
    ELSE [response |-> delta, thought |-> <<>>, in |-> FALSE, hold |-> <<>>]
NextOf(n) == SubSeq(text, received + 1, received + n)
ChunkRead(n, R, r, f) ==
    /\ r \in Texts /\ f \in Texts
    /\ IF thinks
       THEN LET s == SplitOf(NextOf(n))
            IN  /\ Told(text, (R \o r) \o f) /\ Holding(s.in, s.hold)
                /\ thinking \o s.thought \in Texts
                /\ Run(Begin, SubSeq(text, 1, received + n))
                     = State(s.in, s.hold, R \o r, thinking \o s.thought)
       ELSE R \o r = SubSeq(text, 1, received + n) /\ (R \o r) \o f = text

\* What the reader has told in the end is what the answer tells.
LEMMA ToldAll ==
    ASSUME NEW a \in Texts, NEW X \in Texts, Told(a, X)
    PROVE  /\ Run(Begin, a) \in ReadStates /\ Between(Run(Begin, a))
           /\ Run(Begin, a).response \o Run(Begin, a).hold = X
<1>1. Begin \in ReadStates /\ Between(Begin) /\ Begin.response = <<>> /\ Begin.hold = <<>>
  BY BeginTyped
<1>2. Keeps(a, X)
  BY DEF Told
<1> DEFINE z == Run(Begin, a)
<1>3. z \in ReadStates
  BY <1>1, RunTyped
<1>4. Between(z) /\ z.response \o z.hold = (Begin.response \o Begin.hold) \o X
  BY <1>1, <1>2 DEF Keeps
<1>5. (<<>> \o <<>>) \o X = X
  BY DEF Texts
<1> HIDE DEF z
<1>6. z.response \o z.hold = X
  BY <1>1, <1>4, <1>5
<1> QED BY <1>3, <1>4, <1>6 DEF z

\* A chunk moves the reader on, and what it adds to the response is the first part of what
\* was still to come.
LEMMA ChunkReads ==
    ASSUME text \in Texts, received \in 0 .. Len(text), NEW n \in Nat, received + n <= Len(text),
           NEW R \in Texts, NEW f \in Texts, Reached(R, f)
    PROVE  \E f2 : ChunkRead(n, R, SplitOf(NextOf(n)).response, f2)
                   /\ f = SplitOf(NextOf(n)).response \o f2
<1> DEFINE delta == NextOf(n)
           s == SplitOf(delta)
           r == s.response
           p == SubSeq(text, 1, received)
           q == SubSeq(text, 1, received + n)
           rest == From(text, received + n + 1)
<1>1. /\ p \in Texts /\ delta \in Texts /\ rest \in Texts /\ q = p \o delta /\ text = q \o rest
  BY Chunks DEF NextOf
<1>2. q \in Texts
  BY <1>1 DEF Texts
<1>a. \A a, b, c \in Seq(Tokens) : (a \o b) \o c = a \o (b \o c)
  BY Regrouped
<1>b. R \in Seq(Tokens) /\ f \in Seq(Tokens)
  BY DEF Texts
<1>3. CASE ~thinks
  <2>1. R = p /\ R \o f = text
    BY <1>3 DEF Reached, ReadSoFar
  <2>2. r = delta
    BY <1>3 DEF SplitOf
  <2> HIDE DEF delta, s, p, q, rest
  <2>3. R \o r = q /\ (R \o r) \o rest = text /\ r \in Texts
    BY <1>1, <2>1, <2>2
  <2>4. r \o rest \in Texts /\ R \o (r \o rest) = R \o f
    <3>1. r \in Seq(Tokens) /\ rest \in Seq(Tokens)
      BY <1>1, <2>2 DEF Texts
    <3>2. (R \o r) \o rest = R \o (r \o rest)
      BY <1>a, <1>b, <3>1, Zenon
    <3>3. r \o rest \in Seq(Tokens)
      BY <3>1
    <3> QED BY <2>1, <2>3, <3>2, <3>3 DEF Texts
  <2>5. r \o rest = f
    BY <2>4, Cancelled
  <2>6. ChunkRead(n, R, r, rest)
    BY <1>1, <1>3, <2>3 DEF ChunkRead, q
  <2> QED BY <2>5, <2>6 DEF s, delta
<1>4. CASE thinks
  <2>1. /\ Told(text, R \o f) /\ Holding(inThink, tagHold) /\ thinking \in Texts
        /\ Run(Begin, p) = State(inThink, tagHold, R, thinking)
    BY <1>4 DEF Reached, ReadSoFar
  <2>2. s = Split(tagHold \o delta, inThink)
    BY <1>4 DEF SplitOf
  <2> HIDE DEF delta, s, p, q, rest
  <2>3. ReadOn(s, inThink, tagHold, R, thinking, delta)
    BY <1>1, <2>1, <2>2, SplitOn
  <2> DEFINE t == thinking \o s.thought
             Rr == R \o r
             y == State(s.in, s.hold, Rr, t)
  <2>4. /\ Holding(s.in, s.hold) /\ r \in Texts /\ s.thought \in Texts /\ s.hold \in Texts
        /\ Run(State(inThink, tagHold, R, thinking), delta) = y
    BY <2>3 DEF ReadOn
  <2>5. t \in Texts /\ Rr \in Texts
    BY <2>1, <2>4 DEF Texts
  <2>6. Begin \in ReadStates
    BY BeginTyped
  <2>7. Run(Begin, q) = y
    <3>1. Run(Begin, p \o delta) = Run(Run(Begin, p), delta)
      BY <1>1, <2>6, RunJoined
    <3> HIDE DEF y
    <3> QED BY <1>1, <2>1, <2>4, <3>1
  <2> DEFINE s2 == Split(s.hold \o rest, s.in)
             f2 == s2.response \o s2.hold
             z == Run(Begin, text)
  <2>8. ReadOn(s2, s.in, s.hold, Rr, t, rest)
    <3> HIDE DEF t, Rr
    <3> QED BY <1>1, <2>4, <2>5, SplitOn
  <2>9. z = Run(Run(Begin, q), rest)
    BY <1>1, <1>2, <2>6, RunJoined
  <2>10. R \o f \in Texts
    BY DEF Texts
  <2>11. z.response \o z.hold = R \o f
    BY <2>1, <2>10, ToldAll
  <2> HIDE DEF s2, z, Rr, t
  <2>12. /\ s2.response \in Texts /\ s2.hold \in Texts
         /\ z = State(s2.in, s2.hold, Rr \o s2.response, t \o s2.thought)
    BY <2>7, <2>8, <2>9 DEF ReadOn
  <2>13. z.response = Rr \o s2.response /\ z.hold = s2.hold
    BY <2>12 DEF State
  <2>14. f2 \in Texts
    BY <2>12 DEF Texts
  <2>15. Rr \o f2 = R \o f
    <3>1. Rr \in Seq(Tokens) /\ s2.response \in Seq(Tokens) /\ s2.hold \in Seq(Tokens)
      BY <2>5, <2>12 DEF Texts
    <3>2. (Rr \o s2.response) \o s2.hold = Rr \o (s2.response \o s2.hold)
      BY <1>a, <3>1, Zenon
    <3> QED BY <2>11, <2>13, <3>2
  <2> HIDE DEF f2
  <2>16. R \o (r \o f2) = R \o f /\ r \o f2 \in Texts
    <3>1. r \in Seq(Tokens) /\ f2 \in Seq(Tokens)
      BY <2>4, <2>14 DEF Texts
    <3>2. (R \o r) \o f2 = R \o (r \o f2)
      BY <1>a, <1>b, <3>1, Zenon
    <3>3. r \o f2 \in Seq(Tokens)
      BY <3>1
    <3> QED BY <2>15, <3>2, <3>3 DEF Rr, Texts
  <2>17. r \o f2 = f
    BY <2>16, Cancelled
  <2>18. Told(text, Rr \o f2)
    BY <2>1, <2>15
  <2>19. ChunkRead(n, R, r, f2)
    BY <1>4, <2>4, <2>5, <2>7, <2>14, <2>18 DEF ChunkRead, Rr, t, q, s, delta
  <2> QED BY <2>17, <2>19 DEF s, delta
<1> QED BY <1>3, <1>4

\* Plain words tell themselves and nothing else.
LEMMA PlainTells ==
    ASSUME NEW a \in Seq(PlainWords)
    PROVE  /\ a \in Texts /\ Told(a, a) /\ \A X \in Texts : Told(a, X) => X = a
<1>1. a \in Seq(Clean) /\ \A i \in 1 .. Len(a) : a[i] # "think>"
  <2>1. PlainWords \subseteq Clean /\ "think>" \notin PlainWords
    BY DEF PlainWords, Clean, Tokens, Markup, Function, FunctionEnd
  <2> QED BY <2>1
<1>2. a \in Texts
  BY PlainFinds
<1>3. Told(a, a)
  BY <1>1, PlainTold
<1>4. ASSUME NEW X \in Texts, Told(a, X) PROVE X = a
  <2>1. Run(Begin, a).response \o Run(Begin, a).hold = X
    BY <1>2, <1>4, ToldAll
  <2>2. Run(Begin, a).response \o Run(Begin, a).hold = a
    BY <1>2, <1>3, ToldAll
  <2> QED BY <2>1, <2>2
<1> QED BY <1>2, <1>3, <1>4

\* None of them is held back.
LEMMA PlainHeld ==
    ASSUME NEW a \in Seq(PlainWords)
    PROVE  Run(Begin, a).hold = <<>>
<1>1. PICK b \in BOOLEAN : b = FALSE
  OBVIOUS
<1>2. TagOf(b) = ThinkOpen /\ ThinkOpen[1] = "<think"
  BY <1>1 DEF TagOf, ThinkOpen
<1>3. /\ a \in Texts /\ Find(a, ThinkOpen) = 0 /\ <<>> \in Texts
      /\ \A i \in 1 .. Len(a) : a[i] # "<think"
  BY PlainFinds DEF Texts
<1> DEFINE e == <<>>
           y == ReadPlain(b, e, e, a)
<1>4. Run(State(b, e, e, e), a) = y
  <2>1. e \in Texts
    BY <1>3
  <2>2. Run(State(b, <<>>, e, e), a) = y
    <3> HIDE DEF e
    <3> QED BY <1>2, <1>3, <2>1, NoTag
  <2> QED BY <2>2
<1>5. ~Held(a, TagOf(b))
  <2> SUFFICES ASSUME Held(a, TagOf(b)) PROVE FALSE
    OBVIOUS
  <2>1. a # <<>> /\ a[Len(a)] = "<think"
    BY <1>2 DEF Held
  <2>2. Len(a) \in 1 .. Len(a)
    BY <1>3, <2>1 DEF Texts
  <2> QED BY <1>3, <2>1, <2>2
<1>6. y.hold = <<>>
  BY <1>5 DEF ReadPlain, State
<1> HIDE DEF y
<1>7. Begin = State(b, e, e, e)
  BY <1>1 DEF Begin
<1> QED BY <1>4, <1>6, <1>7

\* What the reader passes on are tokens.
LEMMA KeptTokens == PassedOn \in SUBSET Tokens
BY DEF PassedOn, NoThinkEnd

\* A chunk that is shown leaves the answer streaming and what is shown clean
\* (handleResponseDelta).
LEMMA ChunkShown ==
    ASSUME Streaming, ResponseDelta
    PROVE  Streaming'
<1>1. /\ text \in Answers /\ thinks \in BOOLEAN /\ answered = FALSE /\ received \in 0 .. Len(text)
      /\ callHold \in Seq(PassedOn) /\ shown \in Seq(PassedOn \cap Clean) /\ boxes \in SUBSET Nat
      /\ text \in Seq(PlainWords) => callHold = <<>> /\ boxes = {}
  BY DEF Streaming
<1>2. PICK R \in Texts, f \in Texts : Reached(R, f) /\ Covering(f)
  BY DEF Streaming
<1>3. text \in Texts /\ Len(text) \in Nat
  <2>1. text \in Texts
    BY <1>1, AnswerFacts
  <2> QED BY <2>1 DEF Texts
<1>4. PICK n \in 1 .. MaxChunk :
        LET split == SplitOf(NextOf(n))
            g == FilterOn(callHold, split.response)
            safe == StripToolCalls(g.safe)
        IN  /\ received + n <= Len(text) /\ received' = received + n
            /\ tagHold' = split.hold /\ inThink' = split.in
            /\ thinking' = thinking \o split.thought
            /\ callHold' = g.hold
            /\ boxes' = boxes \cup g.calls \cup safe.calls
            /\ shown' = Scrubbed(shown, g.calls \cup safe.calls) \o safe.text
  BY DEF ResponseDelta, SplitOf, NextOf, FilterOn
<1>5. text' = text /\ thinks' = thinks /\ answered' = answered
  BY DEF ResponseDelta
<1> DEFINE split == SplitOf(NextOf(n))
           r == split.response
           g == FilterOn(callHold, r)
           safe == StripToolCalls(g.safe)
<1>6. /\ received + n <= Len(text) /\ received' = received + n
      /\ tagHold' = split.hold /\ inThink' = split.in
      /\ thinking' = thinking \o split.thought
      /\ callHold' = g.hold
      /\ boxes' = boxes \cup g.calls \cup safe.calls
      /\ shown' = Scrubbed(shown, g.calls \cup safe.calls) \o safe.text
  BY <1>4
<1>7. n \in Nat
  BY StreamTextConstants
<1>8. PICK f2 : ChunkRead(n, R, r, f2) /\ f = r \o f2
  <2> HIDE DEF split, r, g, safe
  <2>1. \E e : ChunkRead(n, R, SplitOf(NextOf(n)).response, e) /\ f = SplitOf(NextOf(n)).response \o e
    BY <1>2, <1>3, <1>1, <1>6, <1>7, ChunkReads
  <2> QED BY <2>1 DEF r, split
<1>9. r \in Texts /\ f2 \in Texts
  BY <1>8 DEF ChunkRead
<1> HIDE DEF split, r, g, safe
<1> DEFINE S == PassedOn
           Rr == R \o r
<1>10. Rr \in Texts /\ PassedOn' = PassedOn
  <2>1. Rr \in Texts
    BY <1>9 DEF Texts
  <2> QED BY <1>5, <2>1 DEF PassedOn
<1>a. PICK e \in Texts : e = Rr
  BY <1>10
<1>11. Reached(e, f2)'
  <2>1. CASE thinks
    <3>1. /\ Told(text, Rr \o f2) /\ Holding(split.in, split.hold)
          /\ thinking \o split.thought \in Texts
          /\ Run(Begin, SubSeq(text, 1, received + n))
               = State(split.in, split.hold, Rr, thinking \o split.thought)
      BY <1>8, <2>1 DEF ChunkRead, split
    <3> HIDE DEF Rr
    <3> QED BY <1>5, <1>6, <1>a, <2>1, <3>1 DEF Reached, ReadSoFar
  <2>2. CASE ~thinks
    <3>1. Rr = SubSeq(text, 1, received + n) /\ Rr \o f2 = text
      BY <1>8, <2>2 DEF ChunkRead
    <3> HIDE DEF Rr
    <3> QED BY <1>5, <1>6, <1>a, <2>2, <3>1 DEF Reached, ReadSoFar
  <2> QED BY <2>1, <2>2
<1>12. r \in Seq(S) /\ f2 \in Seq(Tokens)
  <2>1. CASE thinks
    <3>1. R \o f \in Seq(NoThinkEnd)
      BY <1>2, <2>1 DEF Reached, Told
    <3>2. f \in Seq(NoThinkEnd)
      BY <1>2, <3>1, PartsOf DEF Texts
    <3>3. r \o f2 \in Seq(NoThinkEnd) /\ r \in Seq(Tokens) /\ f2 \in Seq(Tokens)
      BY <1>8, <1>9, <3>2 DEF Texts
    <3>4. r \in Seq(NoThinkEnd)
      BY <3>3, PartsOf
    <3> QED BY <2>1, <3>3, <3>4 DEF PassedOn
  <2>2. CASE ~thinks
    BY <1>9, <2>2 DEF PassedOn, Texts
  <2> QED BY <2>1, <2>2
<1>13. Covered(callHold \o (r \o f2))
  BY <1>2, <1>8 DEF Covering
<1>14. /\ g.hold \in Seq(S) /\ Covered(g.hold \o f2)
       /\ g.calls \in SUBSET Nat /\ safe.calls \in SUBSET Nat
       /\ safe.text \in Seq(S \cap Clean)
  <2>1. S \in SUBSET Tokens /\ callHold \in Seq(S)
    BY <1>1, KeptTokens
  <2> HIDE DEF S
  <2> QED BY <1>9, <1>12, <1>13, <2>1, ChunkFiltered DEF g, safe
<1>15. Covering(f2)'
  BY <1>6, <1>14 DEF Covering
<1>16. shown' \in Seq(PassedOn \cap Clean)
  <2> DEFINE U == PassedOn \cap Clean
             m == Scrubbed(shown, g.calls \cup safe.calls)
  <2>1. U \in SUBSET Tokens /\ shown \in Seq(U)
    BY <1>1, KeptTokens
  <2>2. m \in Seq(U)
    <3>1. m = shown \/ m = StripPayloads(shown, boxes \cup (g.calls \cup safe.calls))
      BY DEF Scrubbed
    <3> HIDE DEF U, m
    <3> QED BY <2>1, <3>1, PayloadsStripped
  <2>3. safe.text \in Seq(U) /\ shown' = m \o safe.text
    BY <1>6, <1>14
  <2> HIDE DEF U, m
  <2>4. shown' \in Seq(U)
    BY <2>2, <2>3
  <2> QED BY <2>4 DEF U
<1>17. text \in Seq(PlainWords) => callHold' = <<>> /\ boxes' = {}
  <2> SUFFICES ASSUME text \in Seq(PlainWords) PROVE callHold' = <<>> /\ boxes' = {}
    OBVIOUS
  <2>1. R \o f = text
    <3>1. CASE thinks
      <4>1. Told(text, R \o f) /\ R \o f \in Texts
        BY <1>2, <3>1 DEF Reached, Texts
      <4> QED BY <4>1, PlainTells
    <3>2. CASE ~thinks
      BY <1>2, <3>2 DEF Reached
    <3> QED BY <3>1, <3>2
  <2>2. f \in Seq(PlainWords)
    BY <2>1, PartsOf DEF Texts
  <2>3. r \o f2 \in Seq(PlainWords) /\ r \in Seq(Tokens) /\ f2 \in Seq(Tokens)
    BY <1>8, <1>9, <2>2 DEF Texts
  <2>4. r \in Seq(PlainWords)
    BY <2>3, PartsOf
  <2>5. callHold = <<>> /\ boxes = {}
    BY <1>1
  <2>6. g.hold = <<>> /\ g.calls = {} /\ safe.calls = {}
    BY <2>4, <2>5, ChunkPlain DEF g, safe
  <2> QED BY <1>6, <2>5, <2>6
<1>18. received' \in 0 .. Len(text')
  BY <1>1, <1>3, <1>5, <1>6, <1>7
<1>19. boxes' \in SUBSET Nat /\ callHold' \in Seq(PassedOn')
  BY <1>1, <1>6, <1>10, <1>14
<1>20. (\E u, v \in Texts : Reached(u, v) /\ Covering(v))'
  BY <1>9, <1>a, <1>11, <1>15
<1>21. shown' \in Seq(PassedOn' \cap Clean)
  BY <1>10, <1>16
<1>22. text' \in Answers /\ thinks' \in BOOLEAN /\ answered' = FALSE
       /\ (text' \in Seq(PlainWords) => callHold' = <<>> /\ boxes' = {})
  BY <1>1, <1>5, <1>17
<1> QED BY <1>18, <1>19, <1>20, <1>21, <1>22 DEF Streaming

-----------------------------------------------------------------------------
\* With the whole answer the message is free of markup and every call of the
\* answer has its box.
LEMMA AnswerFinished ==
    ASSUME Streaming, FinishAnswer
    PROVE  Finished'
<1> DEFINE T == Trim(text)
           streamed == shown # <<>>
           tags == FlushTags(tagHold, inThink, IF streamed THEN <<>> ELSE T)
           response == IF thinks /\ ~streamed THEN tags.response ELSE T
           message == IF thinks /\ streamed THEN shown \o tags.response ELSE shown
           flushed == FlushCalls(callHold, response)
           calls == boxes \cup flushed.calls
           kept == Scrubbed(message, flushed.calls)
           answer == StripPayloads(flushed.text, calls)
           again == StripToolCalls(kept)
<1>1. /\ text \in Answers /\ thinks \in BOOLEAN /\ received = Len(text)
      /\ callHold \in Seq(PassedOn) /\ shown \in Seq(PassedOn \cap Clean)
      /\ text \in Seq(PlainWords) => callHold = <<>> /\ boxes = {}
  BY DEF Streaming, FinishAnswer, Concluded
<1>2. PICK R \in Texts, f \in Texts : Reached(R, f) /\ Covering(f)
  BY DEF Streaming
<1>3. /\ text \in Texts /\ T \in Answers /\ T # <<>>
      /\ T = text \/ text = <<"blank">> \o T
  BY <1>1, AnswerFacts
<1>4. T \in Texts /\ (T \in Seq(PlainWords) \/ Holds(T, Marks)) /\ Trim(T) = T
  <2>1. T \in Texts /\ (T \in Seq(PlainWords) \/ Holds(T, Marks))
    BY <1>3, AnswerFacts
  <2>2. Trim(T) = T
    BY <1>3, TrimmedAgain DEF Texts
  <2> QED BY <2>1, <2>2
<1>5. PICK X : Told(T, X)
  BY <1>3, AnswerFacts
<1>6. /\ X \in Texts /\ WholeIn(T, X) /\ WholeIn(X, X) /\ WholeIn(T, T) /\ Keeps(T, X)
  <2>1. /\ X \in Seq(NoThinkEnd) /\ WholeIn(T, X) /\ WholeIn(X, X) /\ WholeIn(T, T) /\ Keeps(T, X)
    BY <1>5 DEF Told
  <2> HIDE DEF T
  <2> QED BY <2>1 DEF Texts, NoThinkEnd
<1>7. /\ answered' = TRUE /\ text' = text /\ thinks' = thinks
      /\ shown' = IF answer = <<>> /\ streamed
                  THEN StripPayloads(again.text, calls \cup again.calls) ELSE answer
      /\ boxes' = calls \cup (IF answer = <<>> /\ streamed THEN again.calls ELSE {})
  BY DEF FinishAnswer, Concluded
<1> HIDE DEF T
<1>8. callHold \in Texts /\ Covered(callHold)
  <2>1. callHold \in Seq(Tokens)
    BY <1>1, KeptTokens
  <2>2. callHold \in Texts
    BY <2>1 DEF Texts
  <2> QED BY <1>2, <2>2, CoveredBegin DEF Covering
\* What the filter of the tags still holds back is told outside the tags.
<1>9. thinks => inThink \in BOOLEAN /\ ~inThink /\ tagHold \in Halves
  <2> SUFFICES ASSUME thinks PROVE inThink \in BOOLEAN /\ ~inThink /\ tagHold \in Halves
    OBVIOUS
  <2>1. /\ Told(text, R \o f) /\ Holding(inThink, tagHold)
        /\ Run(Begin, ReadSoFar) = State(inThink, tagHold, R, thinking)
    BY <1>2 DEF Reached
  <2>2. ReadSoFar = text
    BY <1>1, <1>3, Beginnings DEF ReadSoFar, Texts
  <2>3. R \o f \in Texts
    BY DEF Texts
  <2>4. Between(Run(Begin, text))
    BY <1>3, <2>1, <2>3, ToldAll
  <2>5. Between(State(inThink, tagHold, R, thinking))
    BY <2>1, <2>2, <2>4
  <2> QED BY <2>1, <2>5 DEF Between, State, Holding
<1>10. /\ thinks /\ streamed => tags.response \in Halves
       /\ thinks /\ ~streamed => tags.response = tagHold \o X
  <2>1. ASSUME thinks, streamed PROVE tags.response \in Halves
    <3> DEFINE e == <<>>
    <3>1. e \in Seq(NoThinkEnd) /\ e \in Texts /\ tagHold \o e = tagHold
      BY <1>9, <2>1 DEF Texts, Halves
    <3>2. tags = FlushTags(tagHold, inThink, e)
      BY <2>1
    <3> HIDE DEF e, tags
    <3>3. Keeps(e, e)
      BY <3>1, KeepsPlain
    <3>4. FlushTags(tagHold, inThink, e).response = tagHold \o e
      BY <1>9, <2>1, <3>1, <3>3, FlushedTags
    <3> QED BY <1>9, <2>1, <3>1, <3>2, <3>4
  <2>2. ASSUME thinks, ~streamed PROVE tags.response = tagHold \o X
    <3>1. tags = FlushTags(tagHold, inThink, T)
      BY <2>2
    <3> HIDE DEF tags
    <3> QED BY <1>4, <1>6, <1>9, <2>2, <3>1, FlushedTags
  <2> QED BY <2>1, <2>2
<1>a. \A h \in Halves : h \in Seq(Clean) /\ h \in Texts
  <2>1. "<think" \in Clean /\ "<think" \in Tokens
    BY DEF Clean, Tokens, Markup, Function, FunctionEnd
  <2>2. /\ <<"<think">> \in Seq(Clean) /\ <<"<think">> \in Seq(Tokens)
        /\ <<>> \in Seq(Clean) /\ <<>> \in Seq(Tokens)
    BY <2>1
  <2> QED BY <2>2 DEF Halves, Texts
<1> HIDE DEF tags, streamed
\* The whole calls of the answer are in what the filter of calls is given.
<1>11. response \in Texts /\ WholeIn(response, response) /\ Values(T) \cap Values(X) \subseteq Values(response)
  <2>1. CASE thinks /\ ~streamed
    <3> DEFINE w == tagHold \o X
    <3>1. response = w
      BY <1>10, <2>1
    <3>2. tagHold \in Seq(Clean) /\ tagHold \in Texts
      BY <1>9, <1>a, <2>1
    <3>3. WholeIn(tagHold, tagHold)
      BY <3>2, FreeWhole
    <3>4. WholeIn(w, w)
      BY <1>6, <3>2, <3>3, WholeJoined
    <3>5. Values(X) \subseteq Values(w)
      BY <1>6, <3>2, ValuesJoined
    <3>6. w \in Texts
      BY <1>6, <3>2 DEF Texts
    <3> HIDE DEF w, response
    <3> QED BY <3>1, <3>4, <3>5, <3>6
  <2>2. CASE ~(thinks /\ ~streamed)
    <3>1. response = T
      BY <2>2
    <3> HIDE DEF response
    <3> QED BY <1>4, <1>6, <3>1
  <2> QED BY <2>1, <2>2
<1> HIDE DEF response
<1>12. flushed.text \in Seq(Clean) /\ Values(response) \subseteq flushed.calls
  BY <1>8, <1>11, FlushedCalls
<1>13. message \in Seq(Clean)
  <2>1. shown \in Seq(Clean)
    BY <1>1
  <2>2. thinks /\ streamed => tags.response \in Seq(Clean)
    BY <1>10, <1>a
  <2> QED BY <2>1, <2>2
<1> HIDE DEF message, flushed
<1>b. Clean \in SUBSET Tokens
  BY DEF Clean
<1>14. \A s \in Seq(Clean) : \A values : StripPayloads(s, values) \in Seq(Clean)
  BY <1>b, PayloadsStripped
<1>15. kept \in Seq(Clean)
  BY <1>13, <1>14 DEF Scrubbed
<1> HIDE DEF kept
<1>16. again.text \in Seq(Clean)
  BY <1>b, <1>15, ToolCallsStripped
<1>17. shown' \in Seq(Clean)
  <2>1. answer \in Seq(Clean) /\ StripPayloads(again.text, calls \cup again.calls) \in Seq(Clean)
    BY <1>12, <1>14, <1>16
  <2> HIDE DEF answer, again, calls
  <2> QED BY <1>7, <2>1
<1>18. flushed.calls \subseteq boxes'
  BY <1>7
<1>19. ASSUME NEW i \in Blocks PROVE ValueAt(i) \in boxes'
  <2>1. i \in 1 .. Len(text) /\ text[i] = Function
    BY <1>3 DEF Blocks, Texts
  <2>2. ValueOf(text, i) \in Values(T) \cap Values(X)
    BY <1>3, <1>4, <1>6, <2>1, FunctionValue
  <2>3. ValueAt(i) = ValueOf(text, i)
    BY DEF ValueAt, ValueOf
  <2> QED BY <1>11, <1>12, <1>18, <2>2, <2>3
<1>20. (\A i \in Blocks : ValueAt(i) \in boxes)'
  <2>1. Blocks' = Blocks /\ \A i : ValueAt(i)' = ValueAt(i)
    BY <1>7 DEF Blocks, ValueAt
  <2> QED BY <1>19, <2>1
\* Plain words stand as they were written.
<1>21. ASSUME text \in Seq(PlainWords) PROVE shown' = T
  <2>1. callHold = <<>> /\ boxes = {}
    BY <1>1, <1>21
  <2>2. T \in Seq(PlainWords)
    BY <1>21, Trimmed DEF T
  <2>3. X = T
    BY <1>5, <1>6, <2>2, PlainTells
  <2>4. response = T
    <3>1. CASE thinks /\ ~streamed
      <4>1. tagHold = <<>>
        <5>1. /\ Told(text, R \o f) /\ Run(Begin, ReadSoFar) = State(inThink, tagHold, R, thinking)
          BY <1>2, <3>1 DEF Reached
        <5>2. ReadSoFar = text
          BY <1>1, <1>3, Beginnings DEF ReadSoFar, Texts
        <5>3. Run(Begin, text).hold = <<>>
          BY <1>21, PlainHeld
        <5>4. State(inThink, tagHold, R, thinking).hold = <<>>
          BY <5>1, <5>2, <5>3
        <5> QED BY <5>4 DEF State
      <4>2. <<>> \o T = T
        BY <1>4 DEF Texts
      <4> QED BY <1>10, <2>3, <3>1, <4>1, <4>2 DEF response
    <3>2. CASE ~(thinks /\ ~streamed)
      BY <3>2 DEF response
    <3> QED BY <3>1, <3>2
  <2>5. flushed.text = T /\ flushed.calls = {}
    BY <1>3, <1>4, <2>1, <2>2, <2>4, FlushedPlain DEF flushed
  <2>6. StripPayloads(T, {}) = T
    <3>1. T \in Seq(Tokens) /\ Tokens \in SUBSET Tokens
      BY <1>4 DEF Texts
    <3> QED BY <1>4, <3>1, PayloadsStripped
  <2>7. answer = T
    BY <2>1, <2>5, <2>6
  <2> HIDE DEF answer, again, calls
  <2> QED BY <1>3, <1>7, <2>7
<1>22. (text \in Seq(PlainWords) => shown = Trim(text))'
  BY <1>7, <1>21 DEF T
<1> QED BY <1>1, <1>7, <1>17, <1>20, <1>22 DEF Finished

-----------------------------------------------------------------------------
\* Thinking shows what the tags enclose, up to the half that is held back.
LEMMA ThinkingShown ==
    ASSUME Streaming, thinks
    PROVE  thinking = ExtractThinkTags(SubSeq(text, 1, received - Len(tagHold))).thought
<1>1. text \in Answers /\ received \in 0 .. Len(text)
  BY DEF Streaming
<1>2. PICK R \in Texts, f \in Texts : Reached(R, f)
  BY DEF Streaming
<1>3. /\ Holding(inThink, tagHold) /\ thinking \in Texts
      /\ Run(Begin, ReadSoFar) = State(inThink, tagHold, R, thinking)
  BY <1>2 DEF Reached
<1>4. text \in Seq(Tokens) /\ Len(text) \in Nat
  BY <1>1, AnswerFacts DEF Texts
<1> DEFINE p == ReadSoFar
           y == Run(Begin, p)
<1>5. /\ y.in = inThink /\ y.hold = tagHold /\ y.thought = thinking
  BY <1>3 DEF State
<1>6. inThink \in BOOLEAN /\ (tagHold = <<>> \/ tagHold = <<TagOf(inThink)[1]>>)
  BY <1>3 DEF Holding
<1>7. p \in Texts
  BY <1>1, <1>4 DEF ReadSoFar, Texts
<1>8. CASE tagHold = <<>>
  <2>1. received - Len(tagHold) = received
    BY <1>1, <1>4, <1>8
  <2>2. ExtractThinkTags(p).thought = Thought(y)
    BY <1>7, ExtractRead
  <2> HIDE DEF y
  <2>3. thinking \o <<>> = thinking
    BY <1>3 DEF Texts
  <2>4. Thought(y) = thinking
    BY <1>5, <1>8, <2>3 DEF Thought
  <2> QED BY <2>1, <2>2, <2>4 DEF ReadSoFar
<1>9. CASE tagHold = <<TagOf(inThink)[1]>>
  <2>1. received # 0
    <3> SUFFICES ASSUME received = 0 PROVE FALSE
      OBVIOUS
    <3>1. p = <<>>
      BY <1>4, Beginnings DEF ReadSoFar
    <3>2. y.hold = <<>>
      <4>1. Run(Begin, <<>>) = Begin
        BY BeginTyped, RunNothing
      <4>2. y = Begin
        BY <3>1, <4>1
      <4> HIDE DEF y
      <4> QED BY <4>2, BeginTyped
    <3>3. tagHold # <<>>
      BY <1>9
    <3> HIDE DEF y
    <3> QED BY <1>5, <3>2, <3>3
  <2> DEFINE b == SubSeq(text, 1, received - 1)
             e == text[received]
             z == Run(Begin, b)
  <2>2. p = b \o <<e>> /\ b \in Texts /\ e \in Tokens
    <3>1. received \in 1 .. Len(text)
      BY <1>1, <1>4, <2>1
    <3> QED BY <1>4, <3>1, Beginnings DEF ReadSoFar, Texts
  <2>3. received - Len(tagHold) = received - 1
    BY <1>9
  <2>4. Begin \in ReadStates
    BY BeginTyped
  <2> HIDE DEF b, e
  <2>5. y = Reads(z, e) /\ z \in ReadStates
    BY <2>2, <2>4, RunMore
  <2>6. ExtractThinkTags(b).thought = Thought(z)
    BY <2>2, ExtractRead
  <2> HIDE DEF y, z, p
  <2> DEFINE more == z.hold \o (IF e = TagOf(z.in)[1] THEN <<>> ELSE <<e>>)
  <2>7. /\ z.hold # <<>> /\ e = TagOf(z.in)[2] => y.hold = <<>>
        /\ ~(z.hold # <<>> /\ e = TagOf(z.in)[2]) =>
             /\ y.in = z.in /\ y.hold = (IF e = TagOf(z.in)[1] THEN <<e>> ELSE <<>>)
             /\ y.thought = (IF z.in THEN z.thought \o more ELSE z.thought)
    BY <2>2, <2>5, ReadsFields
  <2>8. y.hold # <<>>
    BY <1>5, <1>9
  <2>9. e = TagOf(z.in)[1] /\ more = z.hold
    <3>1. e = TagOf(z.in)[1]
      BY <2>7, <2>8
    <3>2. z.hold \o <<>> = z.hold
      BY <2>5 DEF ReadStates, Texts
    <3> QED BY <3>1, <3>2
  <2> HIDE DEF more
  <2>10. y.thought = Thought(z)
    BY <2>7, <2>8, <2>9 DEF Thought
  <2> QED BY <1>5, <2>3, <2>6, <2>10 DEF b
<1> QED BY <1>6, <1>8, <1>9

\* The invariant says what the screen shows.
LEMMA CleanSeen == StreamInv => StreamClean
<1>0. \A s \in Seq(Clean) : ~Holds(s, Markup)
  <2> SUFFICES ASSUME NEW s \in Seq(Clean), Holds(s, Markup) PROVE FALSE
    OBVIOUS
  <2>1. PICK i \in DOMAIN s : s[i] \in Markup
    BY DEF Holds
  <2> QED BY <2>1 DEF Clean
<1>1. ASSUME Waiting PROVE StreamClean
  <2>1. /\ text = <<>> /\ received = 0 /\ tagHold = <<>> /\ shown = <<>> /\ thinking = <<>>
        /\ answered = FALSE
    BY <1>1 DEF Waiting
  <2> DEFINE e == <<>>
  <2>2. e \in Seq(PlainWords) /\ e \in Texts /\ e \in Seq(Clean)
    BY DEF Texts
  <2>3. SubSeq(text, 1, received - Len(tagHold)) = e
    <3>1. received - Len(tagHold) = 0
      <4>1. Len(tagHold) = 0
        BY <2>1
      <4>2. received = 0
        BY <2>1
      <4> QED BY <4>1, <4>2
    <3>2. text \in Seq(Tokens)
      BY <2>1, <2>2 DEF Texts
    <3> QED BY <3>1, <3>2, Beginnings
  <2>4. ExtractThinkTags(e).thought = thinking
    <3> HIDE DEF e
    <3>1. ExtractThinkTags(e).thought = Thought(Run(Begin, e))
      BY <2>2, ExtractRead
    <3>2. Run(Begin, e) = Begin
      BY BeginTyped, RunNothing DEF e
    <3>3. Thought(Begin) = <<>>
      BY BeginTyped DEF Thought
    <3> QED BY <2>1, <3>1, <3>2, <3>3
  <2>5. Find(shown, ThinkOpen) = 0 /\ ~Holds(shown, Markup)
    <3>1. shown = e
      BY <2>1
    <3> HIDE DEF e
    <3> QED BY <1>0, <2>2, <3>1, PlainFinds
  <2> HIDE DEF e
  <2> QED BY <2>1, <2>3, <2>4, <2>5 DEF StreamClean
<1>2. ASSUME Streaming PROVE StreamClean
  <2>1. answered = FALSE /\ shown \in Seq(PassedOn \cap Clean)
    BY <1>2 DEF Streaming
  <2>2. shown \in Seq(Clean)
    BY <2>1
  <2>3. ASSUME thinks
        PROVE  /\ thinking = ExtractThinkTags(SubSeq(text, 1, received - Len(tagHold))).thought
               /\ Find(shown, ThinkOpen) = 0
    <3>1. thinking = ExtractThinkTags(SubSeq(text, 1, received - Len(tagHold))).thought
      BY <1>2, <2>3, ThinkingShown
    <3>2. shown \in Seq(NoThinkEnd) /\ shown \in Seq(Tokens)
      BY <2>1, <2>3 DEF PassedOn, NoThinkEnd
    <3>3. Find(shown, ThinkOpen) = 0
      <4>1. "<think" \in Tokens /\ "think>" \in Tokens
        BY DEF Tokens
      <4> DEFINE at == Find(shown, <<"<think", "think>">>)
      <4>2. at \in 0 .. Len(shown) /\ (at # 0 => at + 1 <= Len(shown) /\ shown[at + 1] = "think>")
        BY <3>2, <4>1, FoundTag
      <4> HIDE DEF at
      <4>3. at = 0
        <5> SUFFICES ASSUME at # 0 PROVE FALSE
          OBVIOUS
        <5>1. at + 1 \in 1 .. Len(shown)
          BY <3>2, <4>2
        <5> QED BY <3>2, <4>2, <5>1 DEF NoThinkEnd
      <4> QED BY <4>3 DEF at, ThinkOpen
    <3> QED BY <3>1, <3>3
  <2> QED BY <1>0, <2>1, <2>2, <2>3 DEF StreamClean
<1>3. ASSUME Finished PROVE StreamClean
  <2>1. /\ text \in Answers /\ answered = TRUE /\ shown \in Seq(Clean)
        /\ \A i \in Blocks : ValueAt(i) \in boxes
        /\ text \in Seq(PlainWords) => shown = Trim(text)
    BY <1>3 DEF Finished
  <2>2. text \in Seq(PlainWords) \/ Holds(text, Marks)
    BY <2>1, AnswerFacts
  <2> QED BY <1>0, <2>1, <2>2 DEF StreamClean, Marks
<1> QED BY <1>1, <1>2, <1>3 DEF StreamInv

\* However an answer is cut into chunks and filtered on its way to the screen: no
\* tool markup is shown, thinking shows what the tags enclose, every call of the
\* answer has its box in the end, and plain words stand as they were written.
THEOREM StreamIsClean == StreamTextSpec => []StreamClean
<1>1. StreamInv /\ [StreamTextNext]_textVars => StreamInv'
  <2> SUFFICES ASSUME StreamInv, [StreamTextNext]_textVars PROVE StreamInv'
    OBVIOUS
  <2>1. CASE StartAnswer
    <3>1. Waiting
      <4>1. text = <<>>
        BY <2>1 DEF StartAnswer
      <4>2. <<>> \notin Answers
        BY AnswerFacts
      <4> QED BY <4>1, <4>2 DEF StreamInv, Streaming, Finished
    <3> QED BY <2>1, <3>1, AnswerStarted DEF StreamInv
  <2>2. CASE ResponseDelta
    <3>1. received < Len(text) /\ ~answered
      BY <2>2 DEF ResponseDelta
    <3>2. Streaming
      <4>1. ~Waiting
        BY <3>1 DEF Waiting
      <4>2. ~Finished
        BY <3>1 DEF Finished
      <4> QED BY <4>1, <4>2 DEF StreamInv
    <3> QED BY <2>2, <3>2, ChunkShown DEF StreamInv
  <2>3. CASE FinishAnswer
    <3>1. text # <<>> /\ ~answered
      BY <2>3 DEF FinishAnswer, Concluded
    <3>2. Streaming
      BY <3>1 DEF StreamInv, Waiting, Finished
    <3> QED BY <2>3, <3>2, AnswerFinished DEF StreamInv
  <2>4. CASE UNCHANGED textVars
    <3>1. /\ text' = text /\ received' = received /\ thinks' = thinks /\ tagHold' = tagHold
          /\ inThink' = inThink /\ callHold' = callHold /\ shown' = shown /\ thinking' = thinking
          /\ boxes' = boxes /\ answered' = answered
      BY <2>4 DEF textVars
    <3>2. PassedOn' = PassedOn /\ ReadSoFar' = ReadSoFar
      BY <3>1 DEF PassedOn, ReadSoFar
    <3>3. Blocks' = Blocks /\ \A i : ValueAt(i)' = ValueAt(i)
      BY <3>1 DEF Blocks, ValueAt
    <3>4. \A R, f : Reached(R, f)' = Reached(R, f) /\ Covering(f)' = Covering(f)
      BY <3>1, <3>2 DEF Reached, Covering
    <3>5. Waiting => Waiting'
      BY <3>1 DEF Waiting
    <3>6. Streaming => Streaming'
      BY <3>1, <3>2, <3>4 DEF Streaming
    <3>7. Finished => Finished'
      BY <3>1, <3>3 DEF Finished
    <3> QED BY <3>5, <3>6, <3>7 DEF StreamInv
  <2> QED BY <2>1, <2>2, <2>3, <2>4 DEF StreamTextNext
<1> QED BY <1>1, AnswerAsked, CleanSeen, PTL DEF StreamTextSpec

============================================================================
