--------------------------- MODULE ToolGateProps ---------------------------
(***************************************************************************)
(* The correctness properties of the tool gate.                            *)
(***************************************************************************)
EXTENDS ToolGate

\* A tool that requires approval runs only if the user approved this very call
\* or, before it ran, all calls of the session; an answer never reaches
\* another call than the one it was given for, however late it is.
\* (bridge.go:36-62, toolinteract_bridge.go:171-192)
RanWithConsent ==
    \A c \in ran : c.kind = "approve" => c \in granted \/ sessionAllow

\* An offer is in one place at a time and answered at most once: a second
\* answer would block the UI loop on the full response channel.
\* (bridge.go:50-52, toolinteract_bridge.go:187-189)
AnsweredOnce ==
    /\ offers \cap answered = {} /\ dialog \notin answered \cup offers
    /\ \A t \in Turns : \A c \in answered \cup offers \cup {dialog} : inbox[t] # <<c>>

\* A call that waits for consent can get it: its offer is on its way to the
\* screen or on it, or answered, unless a dialog took its place.
\* (bridge.go:50-61, update.go:84-89)
WaitingIsVisible ==
    \A t \in Turns :
      pc[t] = "waiting" /\ t \notin ctxDone
        => \/ reply[t] # None \/ inbox[t] = <<call[t]>>
           \/ call[t] \in offers \cup {dialog} \cup lost

\* What the user denied while the UI knew the bridge of the turn he is not asked
\* again in that turn, however late, not even after the UI has forgotten the
\* bridge.  A denial given later, under a stale TurnDone or another turn, is not
\* noted, and he may be asked again.  (bridge.go:45-49, approval.go:142-151)
DenialRemembered ==
    \A c \in noted :
      dialog # None /\ dialog.kind = "approve"
        => dialog.turn # c.turn \/ dialog.sig # c.sig

\* The UI writes to the maps of a bridge, which no lock protects, only when it
\* answers the call the agent goroutine of that bridge is parked with in Interact.
\* The one exception is the dialog of an earlier turn that is answered under a
\* later one: it writes to the maps of the later turn, whose agent may be reading
\* them.  (toolinteract_bridge.go:240-263, bridge.go:42-48)
BridgeWritesParked ==
    [][\A t \in Turns :
         denied'[t] # denied[t] \/ skip'[t] # skip[t]
           => \/ pc[t] = "waiting" /\ dialog = call[t]
              \/ dialog.turn \in 1..(t - 1)]_vars

\* The UI has forgotten the turn, and nobody will ever look into its inbox.
Forsaken(t) ==
    /\ bridge # t /\ t \notin ctxDone
    /\ inbox[t] = <<call[t]>> /\ watchers[t] = 0

\* A call that asks for consent gets an answer in the end, unless a dialog took
\* the place of its offer, or a stale TurnDone or a question in markup made the
\* UI forget its turn, and all watchers of it are used up.
\* (bridge.go:50-61, toolinteract_bridge.go:104-192)
ConsentComes ==
    \A t \in Turns :
      pc[t] = "waiting" ~> pc[t] # "waiting" \/ call[t] \in lost \/ Forsaken(t)

\* docs/agent-runtime.md on the bridge: it "blocks the agent loop until the
\* user responds".  The call of the turn on screen does not wait for an offer
\* that a dialog has swallowed.  (update.go:84-89)
OfferNotLost ==
    \A t \in Turns :
      busy /\ bridge = t /\ pc[t] = "waiting" /\ t \notin ctxDone => call[t] \notin lost
============================================================================
