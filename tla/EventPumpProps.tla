--------------------------- MODULE EventPumpProps ---------------------------
(***************************************************************************)
(* The correctness properties of the event pump.                           *)
(***************************************************************************)
EXTENDS EventPump

\* The places where event n of turn t is: in the buffer, posted, applied.
Copies(t, n) ==
    Cardinality({i \in 1..Len(chan[t]) : chan[t][i].n = n})
      + Cardinality({e \in messages : e.turn = t /\ e.n = n})
      + Cardinality({e \in applied : e.turn = t /\ e.n = n})

\* No event is lost or handled twice on its way from the channel to the
\* screen, through readers, drain loop and re-posted messages.
\* (agent_bridge.go:14-65)
EventsConserved ==
    \A t \in Turns : \A n \in 1..sent[t] : Copies(t, n) = 1

\* While the UI follows a turn something will bring it the next event: a
\* reader, a posted event of that turn, or the news that it is closed.  A
\* handler that forgets to re-arm would leave the turn running unheard.
\* (agent_bridge.go:78-139, stream.go:145-160)
NeverDeaf ==
    events # 0 /\ ~draining
      => \/ readers[events] > 0
         \/ \E e \in messages : e.turn = events
         \/ closedMsgs > 0

\* While the UI shows a turn as running, Esc cancels that turn and no other,
\* and it has not been cancelled yet.  (agent.go:115-126, 146-153)
EscReachesTurn ==
    busy => events # 0 /\ cancelFunc = events /\ events \notin cancelled

\* Changed content is always about to be painted: a flush tick is under way.
\* (stream.go:118-126, 162-182, agent.go:341)
PaintScheduled == dirty => flushMsgs > 0

\* A turn that has not been cancelled never waits on a full buffer that nobody
\* reads.  (stream.go:153-154)
NeverBlocks ==
    \A t \in Turns :
      /\ life[t] = "running" /\ t \notin cancelled
      /\ Len(chan[t]) = TurnEventBuffer
      => readers[t] > 0 \/ events = t

\* A turn the UI shows as running stops being shown so.  (update.go:47-67,
\* agent.go:222-226)
TurnSettles == busy ~> ~busy

\* Every event of a turn the user does not cancel is applied in the end,
\* whatever the drain loop and the readers do in between.
\* (agent_bridge.go:24-65)
EveryEventApplied ==
    \A t \in Turns, n \in 1..MaxEvents :
      sent[t] >= n ~> \/ t \in cancelled
                      \/ \E e \in applied : e.turn = t /\ e.n = n

============================================================================
