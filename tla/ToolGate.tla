------------------------------ MODULE ToolGate ------------------------------
(***************************************************************************)
(* How tool calls get the consent of the user: Bridge.Interact, which      *)
(* blocks the agent goroutine (internal/toolinteract/bridge.go), and the   *)
(* dialogs of the UI that answer it (internal/renderer/                    *)
(* toolinteract_bridge.go, markup_askuser.go, models_sync.go, update.go).  *)
(*                                                                         *)
(* Every turn has a bridge of its own with an inbox for one offer; the UI  *)
(* knows the bridge of the latest turn only.  Watcher goroutines carry     *)
(* offers from an inbox to the UI as messages, which arrive in any order   *)
(* and late, possibly when the turn is long over.                          *)
(***************************************************************************)
EXTENDS Naturals, Sequences, FiniteSets

CONSTANTS
    MaxTurns,   \* bound: turns of the session
    MaxCalls,   \* bound: gated tool calls of the session
    MaxMarkup,  \* bound: questions asked in markup
    MaxDialogs, \* bound: all that may open a dialog in the session
    Kinds,      \* kinds of gated calls explored
    Signatures, \* the tool and its arguments, as ApprovalSignature tells apart
    ModelsSync, \* the models sync dialog may come up
    None        \* nil

ASSUME GateConstants ==
    /\ {MaxTurns, MaxCalls, MaxMarkup, MaxDialogs} \subseteq Nat
    /\ Kinds \subseteq {"ask", "approve"}
    /\ ModelsSync \in BOOLEAN

Turns == 1..MaxTurns

\* A call is the n-th gated call of the session; the offer of a call is the call
\* itself, a question asked in markup belongs to no turn.
Call == [turn : Turns, n : 1..MaxCalls, kind : {"ask", "approve"}, sig : Signatures]
Markup == [turn : {0}, n : {0}, kind : {"ask"}, sig : Signatures]

Answers(kind) == IF kind = "ask" THEN {"answer", "cancel"}
                 ELSE {"once", "session", "deny", "cancel"}

Responses == {"answer", "cancel", "once", "session", "deny"}

ASSUME NoneIsNoValue == None \notin Call \cup Markup \cup Responses

VARIABLES
    pc,        \* per turn: "none", "working", "lookup", "offering", "waiting", "over"
    call,      \* per turn: the call in Interact, None before the first
    made,      \* gated calls made
    ctxDone,   \* the turns whose context is cancelled
    inbox,     \* per turn: Bridge.Inbox
    reply,     \* per turn: the answer in the response channel of the call
    skip,      \* per turn: Bridge.SkipSessionApproval
    skipTurn,  \* per turn: TurnOptions.SkipToolApproval
    denied,    \* per turn: Bridge.DeniedApprovals
    store,     \* per turn: Bridge.ResolvedAskUsers
    watchers,  \* per turn: WaitOffer goroutines
    starts,    \* per turn: ToolCallStart events not yet handled
    offers,    \* OfferMsg posted and not yet handled
    endings,   \* TurnDone and closed messages not yet handled, with their turn
    askMsgs,   \* markupAskUserCmdMsg not yet handled
    markups,   \* questions asked in markup so far
    busy,      \* m.agent.Busy
    bridge,    \* m.agent.ToolInteractBridge: its turn, 0 for nil
    pending,   \* m.agent.MarkupAskUserPending, None for nil
    dialog,    \* m.toolInteractPending while the form is open, else None
    syncForm,  \* the models sync form: "due", "open" or "no"
    sessionAllow, \* m.agent.SessionAllowTools
    resolved,  \* m.agent.ResolvedAskUsers: None for nil, else signatures
    ran,       \* history: the calls that were executed
    granted,   \* history: the calls the user approved
    noted,     \* history: the calls he denied while the UI knew their bridge
    answered,  \* history: the offers answered
    lost       \* history: the offers a dialog swallowed or replaced

turnVars   == <<pc, call, made>>
bridgeVars == <<skip, skipTurn, denied, store>>
msgVars    == <<starts, offers, endings, askMsgs, markups>>
uiVars     == <<busy, bridge, pending, dialog, syncForm, sessionAllow, resolved>>
histVars   == <<ran, granted, noted, answered, lost>>
vars == <<turnVars, ctxDone, inbox, reply, bridgeVars, watchers, msgVars,
          uiVars, histVars>>

----------------------------------------------------------------------------

Init ==
    /\ pc = [t \in Turns |-> "none"]
    /\ call = [t \in Turns |-> None]
    /\ made = 0
    /\ ctxDone = {}
    /\ inbox = [t \in Turns |-> <<>>]
    /\ reply = [t \in Turns |-> None]
    /\ skip = [t \in Turns |-> FALSE] /\ skipTurn = [t \in Turns |-> FALSE]
    /\ denied = [t \in Turns |-> {}] /\ store = [t \in Turns |-> None]
    /\ watchers = [t \in Turns |-> 0]
    /\ starts = [t \in Turns |-> 0]
    /\ offers = {} /\ endings = {} /\ askMsgs = 0 /\ markups = 0
    /\ busy = FALSE /\ bridge = 0 /\ pending = None /\ dialog = None
    /\ syncForm = IF ModelsSync THEN "due" ELSE "no"
    /\ sessionAllow = FALSE /\ resolved = None
    /\ ran = {} /\ granted = {} /\ noted = {}
    /\ answered = {} /\ lost = {}

----------------------------------------------------------------------------
(* The agent goroutine: runToolCall and Bridge.Interact                    *)

\* Calls, questions in markup and the models sync form up to now.
Raised == made + markups + (IF ModelsSync /\ syncForm # "due" THEN 1 ELSE 0)

Goto(t, place) == pc' = [pc EXCEPT ![t] = place]

\* Announce the call; without need of consent it runs.
StartCall(t, kind, sig) ==
    LET c == [turn |-> t, n |-> made + 1, kind |-> kind, sig |-> sig]
    IN  /\ pc[t] = "working" /\ made < MaxCalls /\ Raised < MaxDialogs
        /\ made' = made + 1
        /\ call' = [call EXCEPT ![t] = c]
        /\ reply' = [reply EXCEPT ![t] = None]
        /\ starts' = [starts EXCEPT ![t] = @ + 1]
        /\ IF kind = "approve" /\ skipTurn[t]
           THEN ran' = ran \cup {c} /\ Goto(t, "working")
           ELSE Goto(t, "lookup") /\ UNCHANGED ran
        /\ UNCHANGED <<ctxDone, inbox, bridgeVars, watchers, offers, endings,
                       askMsgs, markups, uiVars, granted, noted,
                       answered, lost>>

\* LookupResolvedAskUser
Resolved(s, sig) == s # None /\ sig \in s

\* Faulty variant of Interact: a denial is not looked up.
InteractForgetful(t) ==
    LET c == call[t]
    IN  /\ pc[t] = "lookup"
        /\ CASE c.kind = "ask" /\ Resolved(store[t], c.sig) ->
                  Goto(t, "working") /\ UNCHANGED ran
             [] c.kind = "approve" /\ skip[t] ->
                  Goto(t, "working") /\ ran' = ran \cup {c}
             [] OTHER ->
                  Goto(t, "offering") /\ UNCHANGED ran
        /\ UNCHANGED <<call, made, ctxDone, inbox, reply, bridgeVars, watchers,
                       msgVars, uiVars, granted, noted, answered, lost>>

\* What Interact decides without asking: a resolved question, approval for the
\* session, a denial of this turn, in this order.
Interact(t) ==
    LET c == call[t]
    IN  /\ pc[t] = "lookup"
        /\ CASE c.kind = "ask" /\ Resolved(store[t], c.sig) ->
                  Goto(t, "working") /\ UNCHANGED ran
             [] c.kind = "approve" /\ skip[t] ->
                  Goto(t, "working") /\ ran' = ran \cup {c}
             [] c.kind = "approve" /\ ~skip[t] /\ c.sig \in denied[t] ->
                  Goto(t, "working") /\ UNCHANGED ran
             [] OTHER ->
                  Goto(t, "offering") /\ UNCHANGED ran
        /\ UNCHANGED <<call, made, ctxDone, inbox, reply, bridgeVars, watchers,
                       msgVars, uiVars, granted, noted, answered, lost>>

PutOffer(t) ==
    /\ pc[t] = "offering"
    /\ inbox[t] = <<>>
    /\ inbox' = [inbox EXCEPT ![t] = <<call[t]>>]
    /\ Goto(t, "waiting")
    /\ UNCHANGED <<call, made, ctxDone, reply, bridgeVars, watchers, msgVars,
                   uiVars, histVars>>

\* The answer arrives: the call runs, or not.
TakeReply(t) ==
    /\ pc[t] = "waiting"
    /\ reply[t] # None
    /\ reply' = [reply EXCEPT ![t] = None]
    /\ ran' = IF reply[t] \in {"once", "session"} THEN ran \cup {call[t]} ELSE ran
    /\ Goto(t, "working")
    /\ UNCHANGED <<call, made, ctxDone, inbox, bridgeVars, watchers, msgVars,
                   uiVars, granted, noted, answered, lost>>

\* The context is done: the call fails.
Abort(t) ==
    /\ pc[t] \in {"offering", "waiting"}
    /\ t \in ctxDone
    /\ Goto(t, "working")
    /\ UNCHANGED <<call, made, ctxDone, inbox, reply, bridgeVars, watchers,
                   msgVars, uiVars, histVars>>

\* The turn ends; it closes the channel, and no TurnDone comes after a
\* cancellation.
EndTurn(t) ==
    /\ pc[t] = "working"
    /\ Goto(t, "over")
    /\ \E how \in {{"done", "closed"}, {"closed"}} :
         endings' = endings \cup ({t} \X how)
    /\ UNCHANGED <<call, made, ctxDone, inbox, reply, bridgeVars, watchers,
                   starts, offers, askMsgs, markups, uiVars, histVars>>

----------------------------------------------------------------------------
(* The way to the UI                                                       *)

\* WaitOffer; the inbox is never closed, so idle watchers stay for ever.
WaitOffer(t) ==
    /\ watchers[t] > 0
    /\ inbox[t] # <<>>
    /\ watchers' = [watchers EXCEPT ![t] = @ - 1]
    /\ offers' = offers \cup {Head(inbox[t])}
    /\ inbox' = [inbox EXCEPT ![t] = <<>>]
    /\ UNCHANGED <<turnVars, ctxDone, reply, bridgeVars, starts, endings,
                   askMsgs, markups, uiVars, histVars>>

\* One more watcher for the bridge the UI knows, if there is one.
Watch == IF bridge = 0 THEN watchers
         ELSE [watchers EXCEPT ![bridge] = @ + 1]

\* The ToolCallStart event of any turn watches the current bridge.
HandleToolCallStart(t) ==
    /\ starts[t] > 0
    /\ starts' = [starts EXCEPT ![t] = @ - 1]
    /\ watchers' = Watch
    /\ UNCHANGED <<turnVars, ctxDone, inbox, reply, bridgeVars, offers, endings,
                   askMsgs, markups, uiVars, histVars>>

\* markupAskUserCmd
AskCmd(b, p) == IF p = None \/ dialog # None \/ b THEN 0 ELSE 1

\* TurnDone forgets the bridge, a closed channel does not; both may belong to
\* an earlier turn.
HandleEnding(t, how) ==
    /\ <<t, how>> \in endings
    /\ endings' = endings \ {<<t, how>>}
    /\ busy' = FALSE
    /\ bridge' = IF how = "done" THEN 0 ELSE bridge
    /\ askMsgs' = askMsgs + AskCmd(FALSE, pending)
    /\ UNCHANGED <<turnVars, ctxDone, inbox, reply, bridgeVars, watchers,
                   starts, offers, markups, pending, dialog, syncForm,
                   sessionAllow, resolved, histVars>>

----------------------------------------------------------------------------
(* Offers and dialogs                                                      *)

\* Faulty variant of Finalize: the next offer is not waited for.
FinalizeUnwatched == watchers

\* finalizeToolInteractComplete
Finalize == IF busy THEN Watch ELSE watchers

\* Faulty variant of Respond: one response channel for all calls of a turn.
RespondToTurn(o, resp) ==
    /\ reply' = [reply EXCEPT ![o.turn] = resp]
    /\ answered' = answered \cup {o}

\* Faulty variant of Respond: offers of other turns than the latest are dropped.
RespondToLatest(o, resp) ==
    /\ reply' = IF o.turn = bridge /\ call[o.turn] = o
                THEN [reply EXCEPT ![o.turn] = resp] ELSE reply
    /\ answered' = answered \cup {o}

\* Sending on RespCh, which only the call that made it receives from.
Respond(o, resp) ==
    /\ reply' = IF o.turn \in Turns /\ call[o.turn] = o
                THEN [reply EXCEPT ![o.turn] = resp] ELSE reply
    /\ answered' = answered \cup {o}

\* A dialog on screen swallows the offer: Update hands every message but the
\* agent's to the form.
SwallowOffer(o) ==
    /\ o \in offers
    /\ dialog # None \/ syncForm = "open"
    /\ offers' = offers \ {o}
    /\ lost' = lost \cup {o}
    /\ UNCHANGED <<turnVars, ctxDone, inbox, reply, bridgeVars, watchers,
                   starts, endings, askMsgs, markups, uiVars, ran, granted,
                   noted, answered>>

\* offerToolInteract
OpenDialog(o) ==
    /\ o \in offers
    /\ dialog = None /\ syncForm # "open"
    /\ offers' = offers \ {o}
    /\ IF o.kind = "ask" /\ Resolved(resolved, o.sig)
       THEN /\ Respond(o, "answer")
            /\ watchers' = Finalize
            /\ UNCHANGED dialog
       ELSE /\ dialog' = o
            /\ UNCHANGED <<reply, answered, watchers>>
    /\ UNCHANGED <<turnVars, ctxDone, inbox, bridgeVars, starts, endings,
                   askMsgs, markups, busy, bridge, pending, syncForm,
                   sessionAllow, resolved, ran, granted, noted, lost>>

\* recordAskUserResolution.  ensureResolvedAskUsers has a value receiver: the
\* map it makes when there is none stays in the copy.
Record(sig) ==
    /\ resolved' = IF resolved = None THEN None ELSE resolved \cup {sig}
    /\ pending' = IF pending # None /\ pending.sig = sig THEN None ELSE pending

\* Faulty variant of AnswerDialog: the dialog stays open.
AnswerDialogTwice(resp) ==
    LET o == dialog
    IN  /\ o # None /\ o.turn # 0
        /\ resp \in Answers(o.kind)
        /\ sessionAllow' = (sessionAllow \/ resp = "session")
        /\ skip' = IF resp = "session" /\ bridge # 0
                   THEN [skip EXCEPT ![bridge] = TRUE] ELSE skip
        /\ denied' = IF resp = "deny" /\ bridge # 0
                     THEN [denied EXCEPT ![bridge] = @ \cup {o.sig}] ELSE denied
        /\ IF o.kind = "ask" THEN Record(o.sig) ELSE UNCHANGED <<resolved, pending>>
        /\ Respond(o, resp)
        /\ watchers' = Finalize
        /\ granted' = IF resp \in {"once", "session"} THEN granted \cup {o} ELSE granted
        /\ noted' = IF resp = "deny" /\ o.turn = bridge THEN noted \cup {o} ELSE noted
        /\ UNCHANGED <<turnVars, ctxDone, inbox, skipTurn, store, msgVars, busy,
                       bridge, dialog, syncForm, ran, lost>>

\* completeToolInteractWith and completeToolInteractForm: approval for the
\* session and denials are noted on the bridge the UI knows, whichever turn
\* the offer came from.
AnswerDialog(resp) ==
    LET o == dialog
    IN  /\ o # None /\ o.turn # 0
        /\ resp \in Answers(o.kind)
        /\ dialog' = None
        /\ sessionAllow' = (sessionAllow \/ resp = "session")
        /\ skip' = IF resp = "session" /\ bridge # 0
                   THEN [skip EXCEPT ![bridge] = TRUE] ELSE skip
        /\ denied' = IF resp = "deny" /\ bridge # 0
                     THEN [denied EXCEPT ![bridge] = @ \cup {o.sig}] ELSE denied
        /\ IF o.kind = "ask" THEN Record(o.sig) ELSE UNCHANGED <<resolved, pending>>
        /\ Respond(o, resp)
        /\ watchers' = Finalize
        /\ granted' = IF resp \in {"once", "session"} THEN granted \cup {o} ELSE granted
        /\ noted' = IF resp = "deny" /\ o.turn = bridge THEN noted \cup {o} ELSE noted
        /\ UNCHANGED <<turnVars, ctxDone, inbox, skipTurn, store, msgVars, busy,
                       bridge, syncForm, ran, lost>>

\* The models sync dialog comes up by itself; a tool dialog swallows it.
OfferModelsSync ==
    /\ syncForm = "due" /\ Raised < MaxDialogs
    /\ syncForm' = IF dialog = None THEN "open" ELSE "no"
    /\ UNCHANGED <<turnVars, ctxDone, inbox, reply, bridgeVars, watchers,
                   msgVars, busy, bridge, pending, dialog, sessionAllow,
                   resolved, histVars>>

ResolveModelsSync ==
    /\ syncForm = "open" /\ dialog = None
    /\ syncForm' = "no"
    /\ UNCHANGED <<turnVars, ctxDone, inbox, reply, bridgeVars, watchers,
                   msgVars, busy, bridge, pending, dialog, sessionAllow,
                   resolved, histVars>>

----------------------------------------------------------------------------
(* Questions asked in markup                                               *)

\* tryQueueMarkupAskUser, when a response delta completes a tool call; the
\* delta may belong to a turn that is over, only then the command is due.
QueueMarkup(p) ==
    /\ markups < MaxMarkup /\ Raised < MaxDialogs
    /\ ~Resolved(resolved, p.sig)
    /\ \E t \in Turns : pc[t] # "none"
    /\ markups' = markups + 1
    /\ pending' = p
    /\ askMsgs' = askMsgs + AskCmd(busy, p)
    /\ UNCHANGED <<turnVars, ctxDone, inbox, reply, bridgeVars, watchers,
                   starts, offers, endings, busy, bridge, dialog, syncForm,
                   sessionAllow, resolved, histVars>>

\* handleMarkupAskUserCmd does not ask whether a dialog has opened meanwhile.
HandleMarkupAskUser ==
    /\ askMsgs > 0
    /\ askMsgs' = askMsgs - 1
    /\ pending' = None
    /\ IF pending = None \/ Resolved(resolved, pending.sig)
       THEN UNCHANGED <<dialog, lost>>
       ELSE /\ dialog' = pending
            /\ lost' = IF dialog = None THEN lost ELSE lost \cup {dialog}
    /\ UNCHANGED <<turnVars, ctxDone, inbox, reply, bridgeVars, watchers,
                   starts, offers, endings, markups, busy, bridge, syncForm,
                   sessionAllow, resolved, ran, granted, noted,
                   answered>>

----------------------------------------------------------------------------
(* The user starts and stops turns                                         *)

\* agentTurnCmds: the turn gets a bridge, one watcher and the store.
StartTurn(t) ==
    /\ pc[t] = "none" /\ \A u \in Turns : pc[u] = "none" => t <= u
    /\ Goto(t, "working")
    /\ busy' = TRUE /\ bridge' = t
    /\ watchers' = [watchers EXCEPT ![t] = 1]
    /\ skipTurn' = [skipTurn EXCEPT ![t] = sessionAllow]

\* A submitted input starts a new chain of turns.
Submit ==
    /\ ~busy /\ dialog = None /\ syncForm # "open"
    /\ \E t \in Turns : StartTurn(t) /\ store' = [store EXCEPT ![t] = {}]
    /\ resolved' = None
    /\ UNCHANGED <<call, made, ctxDone, inbox, reply, skip, denied, msgVars,
                   pending, dialog, syncForm, sessionAllow, ran, granted, noted,
                   answered, lost>>

\* Faulty variant of CancelAgentTurn: the bridge is kept.
CancelKeepsBridge ==
    /\ busy /\ dialog = None /\ syncForm # "open"
    /\ ctxDone' = ctxDone \cup {bridge}
    /\ busy' = FALSE
    /\ UNCHANGED <<turnVars, inbox, reply, bridgeVars, watchers, msgVars, bridge,
                   pending, dialog, syncForm, sessionAllow, resolved, histVars>>

CancelAgentTurn ==
    /\ busy /\ dialog = None /\ syncForm # "open"
    /\ ctxDone' = ctxDone \cup {bridge}
    /\ busy' = FALSE /\ bridge' = 0
    /\ UNCHANGED <<turnVars, inbox, reply, bridgeVars, watchers, msgVars,
                   pending, dialog, syncForm, sessionAllow, resolved, histVars>>

\* completeMarkupAskUser: an answer replaces the turn in flight by a new one
\* of the same chain.
AnswerMarkup ==
    /\ dialog # None /\ dialog.turn = 0
    /\ dialog' = None
    /\ Record(dialog.sig)
    /\ ctxDone' = IF busy THEN ctxDone \cup {bridge} ELSE ctxDone
    /\ \E t \in Turns :
         /\ StartTurn(t)
         /\ store' = [store EXCEPT ![t] = IF resolved' = None THEN {} ELSE resolved']
    /\ UNCHANGED <<call, made, inbox, reply, skip, denied, msgVars, syncForm,
                   sessionAllow, ran, granted, noted, answered, lost>>

DismissMarkup ==
    /\ dialog # None /\ dialog.turn = 0
    /\ dialog' = None
    /\ Record(dialog.sig)
    /\ UNCHANGED <<turnVars, ctxDone, inbox, reply, bridgeVars, watchers,
                   msgVars, busy, bridge, syncForm, sessionAllow, ran, granted,
                   noted, answered, lost>>

----------------------------------------------------------------------------

\* The bound on turns is reached and the user sees nothing running.
Over ==
    /\ \A t \in Turns : pc[t] # "none"
    /\ ~busy /\ dialog = None
    /\ offers = {} /\ endings = {} /\ askMsgs = 0
    /\ UNCHANGED vars

Agent(t) ==
    \/ \E k \in Kinds, s \in Signatures : StartCall(t, k, s)
    \/ Interact(t) \/ PutOffer(t) \/ TakeReply(t) \/ Abort(t) \/ EndTurn(t)

Deliver ==
    \/ \E t \in Turns : WaitOffer(t) \/ HandleToolCallStart(t)
    \/ \E t \in Turns, how \in {"done", "closed"} : HandleEnding(t, how)
    \/ \E o \in offers : SwallowOffer(o) \/ OpenDialog(o)
    \/ HandleMarkupAskUser

\* The user answers the dialog that is open.
AnswerOpenDialog ==
    \/ \E resp \in Responses : AnswerDialog(resp)
    \/ AnswerMarkup \/ DismissMarkup \/ ResolveModelsSync

User == \/ Submit \/ CancelAgentTurn
        \/ OfferModelsSync
        \/ \E p \in Markup : QueueMarkup(p)

Next ==
    \/ \E t \in Turns : Agent(t)
    \/ Deliver \/ AnswerOpenDialog \/ User \/ Over

Spec == Init /\ [][Next]_vars

\* Goroutines and messages make progress, and the user answers dialogs.
FairSpec == /\ Spec
            /\ \A t \in Turns : WF_vars(Agent(t))
            /\ WF_vars(Deliver) /\ WF_vars(AnswerOpenDialog)

============================================================================
