--------------------------- MODULE ToolGateProofs ---------------------------
(***************************************************************************)
(* Proofs about the tool gate, for any number of turns, calls and markup   *)
(* questions.                                                              *)
(***************************************************************************)
EXTENDS ToolGateProps, TLAPS

Places == {"none", "working", "lookup", "offering", "waiting", "over"}

\* The types the argument needs.
Types ==
    /\ pc \in [Turns -> Places]
    /\ call \in [Turns -> Call \cup {None}]
    /\ made \in Nat
    /\ inbox \in [Turns -> {<<>>} \cup {<<c>> : c \in Call}]
    /\ reply \in [Turns -> Responses \cup {None}]
    /\ skip \in [Turns -> BOOLEAN] /\ skipTurn \in [Turns -> BOOLEAN]
    /\ offers \subseteq Call /\ answered \subseteq Call
    /\ bridge \in Turns \cup {0}
    /\ pending \in Markup \cup {None}
    /\ dialog \in Call \cup Markup \cup {None}
    /\ sessionAllow \in BOOLEAN

\* Where consent is on its way to a call: an approval in the response channel
\* was given to the call that waits for it, and a turn skips approval only
\* after the user allowed the session.
Consent ==
    /\ \A t \in Turns : reply[t] \in {"once", "session"} => call[t] \in granted
    /\ \A t \in Turns : skip[t] \/ skipTurn[t] => sessionAllow
    /\ RanWithConsent

\* Offers are told apart by the number of their call, and the offer of a call
\* that has not been put in the inbox is nowhere.
Numbered ==
    /\ \A t \in Turns : pc[t] = "waiting" => call[t] # None
    /\ \A t \in Turns : call[t] # None => call[t].turn = t /\ call[t].n <= made
    /\ \A t \in Turns : \A c \in Call :
         inbox[t] = <<c>> => c.turn = t /\ c.n <= made
    /\ \A c \in offers \cup answered : c.n <= made
    /\ dialog \in Call => dialog.n <= made

Fresh ==
    \A t \in Turns :
      pc[t] \in {"lookup", "offering"}
        => /\ call[t] # None
           /\ call[t] \notin offers \cup answered \cup {dialog}
           /\ \A u \in Turns : inbox[u] # <<call[t]>>

IInv == /\ Types /\ Consent /\ Numbered /\ Fresh
        /\ AnsweredOnce /\ WaitingIsVisible

----------------------------------------------------------------------------

\* No offer exists before the first turn.
LEMMA InitIInv == Init => IInv
<1> SUFFICES ASSUME Init PROVE IInv
  OBVIOUS
<1> USE DEF Init
<1>1. Types
  BY GateConstants DEF Types, Places
<1>2. Consent
  BY NoneIsNoValue DEF Consent, RanWithConsent, Responses
<1>3. Numbered
  BY NoneIsNoValue DEF Numbered
<1>4. Fresh /\ WaitingIsVisible
  BY DEF Fresh, WaitingIsVisible
<1>5. AnsweredOnce
  BY DEF AnsweredOnce
<1> QED BY <1>1, <1>2, <1>3, <1>4, <1>5 DEF IInv

(***************************************************************************)
(* StartCall: the number of the new call is larger than any other.         *)
(***************************************************************************)
LEMMA StartCallStep ==
  ASSUME IInv, NEW t \in Turns, NEW k \in Kinds, NEW s \in Signatures,
         StartCall(t, k, s)
  PROVE  IInv'
<1> DEFINE c == [turn |-> t, n |-> made + 1, kind |-> k, sig |-> s]
<1>0. c \in Call /\ c.turn = t /\ c.n = made + 1 /\ c.kind = k
  BY GateConstants DEF IInv, Types, Call, StartCall
<1>a. /\ call' = [call EXCEPT ![t] = c] /\ made' = made + 1
      /\ reply' = [reply EXCEPT ![t] = None]
      /\ \/ pc' = [pc EXCEPT ![t] = "working"] /\ ran' = ran \cup {c}
            /\ k = "approve" /\ skipTurn[t]
         \/ pc' = [pc EXCEPT ![t] = "lookup"] /\ ran' = ran
      /\ pc[t] = "working"
      /\ UNCHANGED <<inbox, skip, skipTurn, offers, answered, bridge, pending,
                     dialog, sessionAllow, granted, ctxDone, lost>>
  BY DEF StartCall, Goto, bridgeVars, uiVars
<1> HIDE DEF c
<1>b. c # None
  BY <1>0, NoneIsNoValue
<1> USE DEF IInv
<1>1. Types'
  BY <1>0, <1>a DEF Types, Places
<1>2. Consent'
  BY <1>0, <1>a, NoneIsNoValue DEF Types, Consent, RanWithConsent, Responses
<1>3. Numbered'
  BY <1>0, <1>a DEF Types, Numbered, Call
<1>4. Fresh'
  <2>1. c \notin offers \cup answered \cup {dialog}
    BY <1>0 DEF Types, Numbered
  <2>2. \A u \in Turns : inbox[u] # <<c>>
    BY <1>0 DEF Types, Numbered
  <2> QED BY <1>a, <1>b, <2>1, <2>2 DEF Types, Fresh
<1>5. AnsweredOnce'
  BY <1>a DEF AnsweredOnce
<1>6. WaitingIsVisible'
  BY <1>a DEF Types, WaitingIsVisible
<1> QED BY <1>1, <1>2, <1>3, <1>4, <1>5, <1>6

(***************************************************************************)
(* Steps that only move a turn, and may execute its call.                  *)
(***************************************************************************)
LEMMA MoveStep ==
  ASSUME IInv, NEW t \in Turns, NEW place \in Places \ {"lookup", "waiting"},
         pc' = [pc EXCEPT ![t] = place],
         place = "offering" => pc[t] = "lookup",
         \/ ran' = ran
         \/ ran' = ran \cup {call[t]} /\ skip[t],
         UNCHANGED <<call, made, inbox, reply, skip, skipTurn, offers, answered,
                     bridge, pending, dialog, sessionAllow, granted, ctxDone, lost>>
  PROVE  IInv'
<1> USE DEF IInv
<1>1. Types'
  BY DEF Types
<1>2. Consent'
  BY DEF Consent, RanWithConsent
<1>3. Numbered'
  BY DEF Types, Numbered, Places
<1>4. Fresh'
  BY DEF Types, Fresh, Places
<1>5. AnsweredOnce'
  BY DEF AnsweredOnce
<1>6. WaitingIsVisible'
  BY DEF Types, WaitingIsVisible, Places
<1> QED BY <1>1, <1>2, <1>3, <1>4, <1>5, <1>6

\* Putting an offer into the inbox of its turn.  (bridge.go:50-53)
LEMMA PutOfferStep ==
  ASSUME IInv, NEW t \in Turns, PutOffer(t)
  PROVE  IInv'
<1>a. /\ pc[t] = "offering" /\ pc' = [pc EXCEPT ![t] = "waiting"]
      /\ inbox[t] = <<>> /\ inbox' = [inbox EXCEPT ![t] = <<call[t]>>]
      /\ UNCHANGED <<call, made, reply, skip, skipTurn, offers, answered, bridge,
                     pending, dialog, sessionAllow, ran, granted, ctxDone, lost>>
  BY DEF PutOffer, Goto, bridgeVars, msgVars, uiVars, histVars
<1> USE DEF IInv
<1>0. /\ call[t] \in Call /\ call[t].turn = t /\ call[t].n <= made
      /\ call[t] \notin offers \cup answered \cup {dialog}
  BY <1>a DEF Types, Fresh, Numbered
<1>b. /\ inbox'[t] = <<call[t]>>
      /\ \A u \in Turns : u # t => inbox'[u] = inbox[u]
  BY <1>a DEF Types
<1>1. Types'
  BY <1>0, <1>a DEF Types, Places
<1>2. Consent'
  BY <1>a DEF Consent, RanWithConsent
<1>3. Numbered'
  <2>1. \A c \in Call : inbox'[t] = <<c>> => c.turn = t /\ c.n <= made
    BY <1>0, <1>b
  <2>2. \A u \in Turns : pc'[u] = "waiting" => call'[u] # None
    BY <1>0, <1>a, NoneIsNoValue DEF Types, Numbered
  <2> QED BY <1>a, <1>b, <2>1, <2>2 DEF Numbered
<1>4. Fresh'
  <2>1. \A u \in Turns : pc'[u] \in {"lookup", "offering"} =>
          u # t /\ pc[u] \in {"lookup", "offering"}
    BY <1>a DEF Types
  <2>2. \A u \in Turns : pc'[u] \in {"lookup", "offering"} => call[u] # call[t]
    BY <1>0, <2>1 DEF Fresh, Numbered
  <2>3. \A u \in Turns : pc'[u] \in {"lookup", "offering"} => inbox'[t] # <<call[u]>>
    BY <1>b, <2>2
  <2> QED BY <1>a, <1>b, <2>1, <2>3 DEF Fresh
<1>5. AnsweredOnce'
  BY <1>0, <1>a, <1>b DEF AnsweredOnce
<1>6. WaitingIsVisible'
  BY <1>a, <1>b DEF Types, WaitingIsVisible
<1> QED BY <1>1, <1>2, <1>3, <1>4, <1>5, <1>6

\* The agent takes the answer to its call.
LEMMA TakeReplyStep ==
  ASSUME IInv, NEW t \in Turns, TakeReply(t)
  PROVE  IInv'
<1>a. /\ pc' = [pc EXCEPT ![t] = "working"]
      /\ reply' = [reply EXCEPT ![t] = None]
      /\ ran' = IF reply[t] \in {"once", "session"} THEN ran \cup {call[t]} ELSE ran
      /\ UNCHANGED <<call, made, inbox, skip, skipTurn, offers, answered, bridge,
                     pending, dialog, sessionAllow, granted, ctxDone, lost>>
  BY DEF TakeReply, Goto, bridgeVars, msgVars, uiVars
<1> USE DEF IInv
<1>1. Types'
  BY <1>a DEF Types, Places
<1>2. Consent'
  BY <1>a, NoneIsNoValue DEF Types, Consent, RanWithConsent, Responses
<1>3. Numbered'
  BY <1>a DEF Types, Numbered
<1>4. Fresh'
  BY <1>a DEF Types, Fresh
<1>5. AnsweredOnce'
  BY <1>a DEF AnsweredOnce
<1>6. WaitingIsVisible'
  BY <1>a DEF Types, WaitingIsVisible
<1> QED BY <1>1, <1>2, <1>3, <1>4, <1>5, <1>6

\* A watcher takes the offer from the inbox and posts it.
LEMMA WaitOfferStep ==
  ASSUME IInv, NEW t \in Turns, WaitOffer(t)
  PROVE  IInv'
<1> USE DEF IInv
<1>0. PICK c \in Call : inbox[t] = <<c>>
  BY DEF Types, WaitOffer
<1>a. /\ inbox' = [inbox EXCEPT ![t] = <<>>]
      /\ offers' = offers \cup {c}
      /\ UNCHANGED <<pc, call, made, reply, skip, skipTurn, answered, bridge,
                     pending, dialog, sessionAllow, ran, granted, ctxDone, lost>>
  BY <1>0 DEF WaitOffer, turnVars, bridgeVars, uiVars, histVars
<1>b. /\ c.turn = t /\ c.n <= made
      /\ inbox'[t] = <<>>
      /\ \A u \in Turns : u # t => inbox'[u] = inbox[u] /\ inbox[u] # <<c>>
  BY <1>0, <1>a DEF Types, Numbered
<1>1. Types'
  BY <1>a DEF Types
<1>2. Consent'
  BY <1>a DEF Consent, RanWithConsent
<1>3. Numbered'
  BY <1>a, <1>b DEF Numbered
<1>4. Fresh'
  BY <1>0, <1>a, <1>b DEF Fresh
<1>5. AnsweredOnce'
  <2>1. c \notin answered /\ c # dialog
    BY <1>0 DEF AnsweredOnce
  <2>2. \A u \in Turns : \A d \in answered \cup offers \cup {c} \cup {dialog} :
          inbox'[u] # <<d>>
    BY <1>a, <1>b DEF AnsweredOnce
  <2> QED BY <1>a, <2>1, <2>2 DEF AnsweredOnce
<1>6. WaitingIsVisible'
  BY <1>0, <1>a, <1>b DEF WaitingIsVisible
<1> QED BY <1>1, <1>2, <1>3, <1>4, <1>5, <1>6

(***************************************************************************)
(* An offer that reached the UI and leaves it for `lost`, the screen, or   *)
(* an answer.                                                              *)
(***************************************************************************)
LEMMA SwallowStep ==
  ASSUME IInv, NEW o \in offers, SwallowOffer(o)
  PROVE  IInv'
<1>a. /\ offers' = offers \ {o} /\ lost' = lost \cup {o}
      /\ UNCHANGED <<pc, call, made, inbox, reply, skip, skipTurn, answered,
                     bridge, pending, dialog, sessionAllow, ran, granted, ctxDone>>
  BY DEF SwallowOffer, turnVars, bridgeVars, uiVars
<1> USE DEF IInv
<1>1. Types'
  BY <1>a DEF Types
<1>2. Consent'
  BY <1>a DEF Consent, RanWithConsent
<1>3. Numbered'
  BY <1>a DEF Numbered
<1>4. Fresh'
  BY <1>a DEF Fresh
<1>5. AnsweredOnce'
  BY <1>a DEF AnsweredOnce
<1>6. WaitingIsVisible'
  BY <1>a DEF WaitingIsVisible
<1> QED BY <1>1, <1>2, <1>3, <1>4, <1>5, <1>6

(***************************************************************************)
(* Questions asked in markup and None are no offers of a call.             *)
(***************************************************************************)
LEMMA NoOffer ==
  ASSUME Types, NEW p \in Markup \cup {None}
  PROVE  p \notin Call /\ \A t \in Turns : inbox[t] # <<p>>
<1>1. p \notin Call
  BY NoneIsNoValue DEF Call, Markup, Turns
<1>2. \A c \in Call : <<c>> # <<p>>
  BY <1>1
<1>3. <<>> # <<p>>
  OBVIOUS
<1>4. \A t \in Turns : inbox[t] = <<>> \/ \E c \in Call : inbox[t] = <<c>>
  BY DEF Types
<1> QED BY <1>1, <1>2, <1>3, <1>4

\* An answer reaches the call it was given for and no other.
LEMMA RespondReaches ==
  ASSUME Types, NEW o \in Call, NEW resp \in Responses, Respond(o, resp)
  PROVE  /\ answered' = answered \cup {o}
         /\ reply' \in [Turns -> Responses \cup {None}]
         /\ \A t \in Turns : reply'[t] # reply[t] => call[t] = o /\ reply'[t] = resp
         /\ \A t \in Turns : call[t] = o /\ o.turn = t => reply'[t] = resp
         /\ \A t \in Turns : reply[t] # None => reply'[t] # None
<1> QED BY NoneIsNoValue DEF Types, Respond, Call

\* The UI takes a posted offer up.
LEMMA OpenDialogStep ==
  ASSUME IInv, NEW o \in offers, OpenDialog(o)
  PROVE  IInv'
<1> USE DEF IInv
<1>a. /\ offers' = offers \ {o} /\ dialog = None /\ o \in Call
      /\ UNCHANGED <<pc, call, made, inbox, skip, skipTurn, bridge, pending,
                     sessionAllow, ran, granted, ctxDone, lost>>
  BY DEF OpenDialog, Types, turnVars, bridgeVars
<1>b. CASE Respond(o, "answer") /\ dialog' = dialog
  <2>0. /\ answered' = answered \cup {o}
        /\ reply' \in [Turns -> Responses \cup {None}]
        /\ \A t \in Turns : reply'[t] # reply[t] => call[t] = o /\ reply'[t] = "answer"
        /\ \A t \in Turns : call[t] = o /\ o.turn = t => reply'[t] = "answer"
        /\ \A t \in Turns : reply[t] # None => reply'[t] # None
    BY <1>a, <1>b, RespondReaches DEF Responses
  <2>1. Types'
    BY <1>a, <1>b, <2>0 DEF Types
  <2>2. Consent'
    BY <1>a, <2>0 DEF Consent, RanWithConsent
  <2>3. Numbered'
    BY <1>a, <1>b, <2>0 DEF Numbered
  <2>4. Fresh'
    BY <1>a, <1>b, <2>0 DEF Fresh
  <2>5. AnsweredOnce'
    BY <1>a, <1>b, <2>0, NoneIsNoValue DEF AnsweredOnce
  <2>6. WaitingIsVisible'
    <3>1. \A t \in Turns : call[t] = o => reply'[t] # None
      BY <1>a, <2>0, NoneIsNoValue DEF Numbered, Responses
    <3> QED BY <1>a, <1>b, <2>0, <3>1 DEF WaitingIsVisible
  <2> QED BY <2>1, <2>2, <2>3, <2>4, <2>5, <2>6
<1>c. CASE dialog' = o /\ UNCHANGED <<reply, answered>>
  <2>1. Types'
    BY <1>a, <1>c DEF Types
  <2>2. Consent'
    BY <1>a, <1>c DEF Consent, RanWithConsent
  <2>3. Numbered'
    BY <1>a, <1>c DEF Numbered
  <2>4. Fresh'
    BY <1>a, <1>c DEF Fresh
  <2>5. AnsweredOnce'
    BY <1>a, <1>c DEF AnsweredOnce
  <2>6. WaitingIsVisible'
    BY <1>a, <1>c DEF Numbered, WaitingIsVisible
  <2> QED BY <2>1, <2>2, <2>3, <2>4, <2>5, <2>6
<1> QED BY <1>b, <1>c DEF OpenDialog

(***************************************************************************)
(* AnswerDialog: the answer is recorded and sent.                          *)
(***************************************************************************)
LEMMA AnswerDialogStep ==
  ASSUME IInv, NEW resp \in Responses, AnswerDialog(resp)
  PROVE  IInv'
<1> USE DEF IInv
<1> DEFINE o == dialog
<1>0. o \in Call
  BY DEF Types, Markup, AnswerDialog
<1>a. /\ dialog' = None
      /\ sessionAllow' = (sessionAllow \/ resp = "session")
      /\ skip' = IF resp = "session" /\ bridge # 0
                 THEN [skip EXCEPT ![bridge] = TRUE] ELSE skip
      /\ granted' = IF resp \in {"once", "session"} THEN granted \cup {o} ELSE granted
      /\ pending' \in {pending, None}
      /\ Respond(o, resp)
      /\ UNCHANGED <<pc, call, made, inbox, skipTurn, offers, bridge, ran,
                     ctxDone, lost>>
  BY DEF AnswerDialog, Record, turnVars, msgVars
<1> HIDE DEF o
<1>b. /\ answered' = answered \cup {o}
      /\ reply' \in [Turns -> Responses \cup {None}]
      /\ \A t \in Turns : reply'[t] # reply[t] => call[t] = o /\ reply'[t] = resp
      /\ \A t \in Turns : call[t] = o /\ o.turn = t => reply'[t] = resp
      /\ \A t \in Turns : reply[t] # None => reply'[t] # None
  BY <1>0, <1>a, RespondReaches
<1>c. /\ sessionAllow' \in BOOLEAN
      /\ sessionAllow => sessionAllow'
      /\ resp = "session" => sessionAllow'
  BY <1>a DEF Types
<1>d. skip' \in [Turns -> BOOLEAN]
  BY <1>a DEF Types
<1>e. \A t \in Turns : skip'[t] => skip[t] \/ resp = "session"
  BY <1>a DEF Types
<1>1. Types'
  BY <1>0, <1>a, <1>b, <1>c, <1>d DEF Types
<1>2. Consent'
  <2>1. \A t \in Turns : reply'[t] \in {"once", "session"} => call'[t] \in granted'
    BY <1>a, <1>b DEF Consent
  <2>2. \A t \in Turns : skip'[t] \/ skipTurn'[t] => sessionAllow'
    BY <1>a, <1>c, <1>e DEF Consent
  <2>3. RanWithConsent'
    BY <1>a, <1>c DEF Consent, RanWithConsent
  <2> QED BY <2>1, <2>2, <2>3 DEF Consent
<1>3. Numbered'
  BY <1>0, <1>a, <1>b, NoneIsNoValue DEF Numbered, o
<1>4. Fresh'
  BY <1>a, <1>b DEF Fresh, o
<1>5. AnsweredOnce'
  <2>1. o \notin offers /\ None \notin answered \cup {o} \cup offers
    BY <1>0, NoneIsNoValue DEF Types, AnsweredOnce, o
  <2>2. \A t \in Turns : inbox[t] # <<None>>
    BY NoOffer
  <2> QED BY <1>a, <1>b, <2>1, <2>2 DEF AnsweredOnce, o
<1>6. WaitingIsVisible'
  <2>1. \A t \in Turns : call[t] = o => reply'[t] # None
    BY <1>0, <1>b, NoneIsNoValue DEF Numbered
  <2> QED BY <1>a, <1>b, <2>1 DEF WaitingIsVisible, o
<1> QED BY <1>1, <1>2, <1>3, <1>4, <1>5, <1>6

(***************************************************************************)
(* Steps of the UI that touch no offer: a turn may start, the context of   *)
(* turns may be cancelled, and a question asked in markup may go.          *)
(***************************************************************************)
LEMMA ScreenStep ==
  ASSUME IInv,
         \/ UNCHANGED <<pc, skipTurn>>
         \/ \E t \in Turns : /\ pc' = [pc EXCEPT ![t] = "working"]
                             /\ skipTurn' = [skipTurn EXCEPT ![t] = sessionAllow],
         dialog' = dialog \/ (dialog \in Markup /\ dialog' = None),
         pending' \in Markup \cup {None}, bridge' \in Turns \cup {0},
         ctxDone \subseteq ctxDone',
         UNCHANGED <<call, made, inbox, reply, skip, offers, answered,
                     sessionAllow, ran, granted, lost>>
  PROVE  IInv'
<1> USE DEF IInv
<1>0. None \notin Call /\ \A t \in Turns : inbox[t] # <<None>>
  BY NoOffer
<1>a. /\ pc' \in [Turns -> Places]
      /\ \A t \in Turns : pc'[t] # "working" => pc'[t] = pc[t]
  BY DEF Types, Places
<1>b. /\ skipTurn' \in [Turns -> BOOLEAN]
      /\ \A t \in Turns : skipTurn'[t] => skipTurn[t] \/ sessionAllow
  BY DEF Types
<1>1. Types'
  BY <1>a, <1>b DEF Types
<1>2. Consent'
  BY <1>b DEF Consent, RanWithConsent
<1>3. Numbered'
  BY <1>0, <1>a DEF Numbered
<1>4. Fresh'
  BY <1>a DEF Fresh
<1>5. AnsweredOnce'
  BY <1>0 DEF Types, AnsweredOnce
<1>6. WaitingIsVisible'
  <2>1. \A t \in Turns : pc[t] = "waiting" => call[t] \in Call
    BY DEF Types, Numbered
  <2>2. dialog \in Markup => dialog \notin Call
    BY NoOffer
  <2> QED BY <1>a, <2>1, <2>2 DEF WaitingIsVisible
<1> QED BY <1>1, <1>2, <1>3, <1>4, <1>5, <1>6

\* A question asked in markup takes the screen, whatever is on it.
LEMMA HandleMarkupAskUserStep ==
  ASSUME IInv, HandleMarkupAskUser
  PROVE  IInv'
<1> USE DEF IInv
<1>a. /\ pending' = None
      /\ UNCHANGED <<pc, call, made, inbox, reply, skip, skipTurn, offers, answered,
                     bridge, sessionAllow, ran, granted, ctxDone>>
  BY DEF HandleMarkupAskUser, turnVars, bridgeVars
<1>b. CASE UNCHANGED <<dialog, lost>>
  BY <1>a, <1>b, ScreenStep DEF Types
<1>c. CASE /\ pending # None /\ dialog' = pending
           /\ lost' = IF dialog = None THEN lost ELSE lost \cup {dialog}
  <2>0. /\ pending \in Markup /\ pending \notin Call
        /\ \A t \in Turns : inbox[t] # <<pending>>
    BY <1>c, NoOffer DEF Types
  <2>1. Types'
    BY <1>a, <1>c, <2>0 DEF Types
  <2>2. Consent'
    BY <1>a DEF Consent, RanWithConsent
  <2>3. Numbered'
    BY <1>a, <1>c, <2>0 DEF Numbered
  <2>4. Fresh'
    BY <1>a, <1>c, <2>0 DEF Types, Fresh
  <2>5. AnsweredOnce'
    BY <1>a, <1>c, <2>0 DEF Types, AnsweredOnce
  <2>6. WaitingIsVisible'
    BY <1>a, <1>c DEF Numbered, WaitingIsVisible
  <2> QED BY <2>1, <2>2, <2>3, <2>4, <2>5, <2>6
<1> QED BY <1>b, <1>c DEF HandleMarkupAskUser

----------------------------------------------------------------------------

\* The steps of an agent.
LEMMA AgentStep ==
  ASSUME IInv, NEW t \in Turns, Agent(t)
  PROVE  IInv'
<1>1. ASSUME NEW k \in Kinds, NEW s \in Signatures, StartCall(t, k, s) PROVE IInv'
  BY <1>1, StartCallStep
<1>2. CASE Interact(t)
  <2>1. /\ pc[t] = "lookup"
        /\ \/ pc' = [pc EXCEPT ![t] = "working"] /\ ran' = ran
           \/ pc' = [pc EXCEPT ![t] = "working"] /\ ran' = ran \cup {call[t]} /\ skip[t]
           \/ pc' = [pc EXCEPT ![t] = "offering"] /\ ran' = ran
    BY <1>2 DEF Interact, Goto
  <2>2. UNCHANGED <<call, made, inbox, reply, skip, skipTurn, offers, answered,
                    bridge, pending, dialog, sessionAllow, granted, ctxDone, lost>>
    BY <1>2 DEF Interact, bridgeVars, msgVars, uiVars
  <2> QED BY <2>1, <2>2, MoveStep DEF Places
<1>3. CASE PutOffer(t)
  BY <1>3, PutOfferStep
<1>4. CASE TakeReply(t)
  BY <1>4, TakeReplyStep
<1>5. CASE Abort(t)
  BY <1>5, MoveStep DEF Abort, Goto, Places, bridgeVars, msgVars, uiVars, histVars
<1>6. CASE EndTurn(t)
  BY <1>6, MoveStep DEF EndTurn, Goto, Places, bridgeVars, uiVars, histVars
<1> QED BY <1>1, <1>2, <1>3, <1>4, <1>5, <1>6 DEF Agent

\* The steps of the UI on messages.
LEMMA DeliverStep ==
  ASSUME IInv, Deliver
  PROVE  IInv'
<1>1. ASSUME NEW t \in Turns, WaitOffer(t) PROVE IInv'
  BY <1>1, WaitOfferStep
<1>2. ASSUME NEW t \in Turns, HandleToolCallStart(t) PROVE IInv'
  BY <1>2, ScreenStep DEF HandleToolCallStart, IInv, Types, turnVars, bridgeVars,
                          uiVars, histVars
<1>3. ASSUME NEW t \in Turns, NEW how \in {"done", "closed"}, HandleEnding(t, how)
      PROVE  IInv'
  BY <1>3, ScreenStep DEF HandleEnding, IInv, Types, turnVars, bridgeVars, histVars
<1>4. ASSUME NEW o \in offers, SwallowOffer(o) PROVE IInv'
  BY <1>4, SwallowStep
<1>5. ASSUME NEW o \in offers, OpenDialog(o) PROVE IInv'
  BY <1>5, OpenDialogStep
<1> QED BY <1>1, <1>2, <1>3, <1>4, <1>5, HandleMarkupAskUserStep DEF Deliver

\* The steps of the user on the open dialog.
LEMMA AnswerOpenDialogStep ==
  ASSUME IInv, AnswerOpenDialog
  PROVE  IInv'
<1>0. dialog # None /\ dialog.turn = 0 => dialog \in Markup
  BY DEF IInv, Types, Call, Turns
<1>1. ASSUME NEW resp \in Responses, AnswerDialog(resp) PROVE IInv'
  BY <1>1, AnswerDialogStep
<1>2. CASE AnswerMarkup
  <2>1. /\ dialog \in Markup /\ dialog' = None
        /\ pending' \in Markup \cup {None}
        /\ ctxDone \subseteq ctxDone'
        /\ UNCHANGED <<call, made, inbox, reply, skip, offers, answered,
                       sessionAllow, ran, granted, lost>>
    BY <1>0, <1>2 DEF AnswerMarkup, Record, IInv, Types, msgVars
  <2>2. \E t \in Turns : /\ pc' = [pc EXCEPT ![t] = "working"] /\ bridge' = t
                         /\ skipTurn' = [skipTurn EXCEPT ![t] = sessionAllow]
    BY <1>2 DEF AnswerMarkup, StartTurn, Goto
  <2> QED BY <2>1, <2>2, ScreenStep
<1>3. CASE DismissMarkup
  BY <1>0, <1>3, ScreenStep DEF DismissMarkup, Record, IInv, Types, turnVars,
                                bridgeVars, msgVars
<1>4. CASE ResolveModelsSync
  BY <1>4, ScreenStep DEF ResolveModelsSync, IInv, Types, turnVars, bridgeVars,
                          msgVars, histVars
<1> QED BY <1>1, <1>2, <1>3, <1>4 DEF AnswerOpenDialog

\* The other steps of the user.
LEMMA UserStep ==
  ASSUME IInv, User
  PROVE  IInv'
<1>1. CASE Submit
  <2>1. \E t \in Turns : /\ pc' = [pc EXCEPT ![t] = "working"] /\ bridge' = t
                         /\ skipTurn' = [skipTurn EXCEPT ![t] = sessionAllow]
    BY <1>1 DEF Submit, StartTurn, Goto
  <2> QED BY <1>1, <2>1, ScreenStep DEF Submit, IInv, Types, msgVars
<1>2. CASE CancelAgentTurn
  BY <1>2, ScreenStep DEF CancelAgentTurn, IInv, Types, turnVars, bridgeVars,
                          msgVars, histVars
<1>3. CASE OfferModelsSync
  BY <1>3, ScreenStep DEF OfferModelsSync, IInv, Types, turnVars, bridgeVars,
                          msgVars, histVars
<1>4. ASSUME NEW p \in Markup, QueueMarkup(p) PROVE IInv'
  BY <1>4, ScreenStep DEF QueueMarkup, IInv, Types, turnVars, bridgeVars, histVars
<1> QED BY <1>1, <1>2, <1>3, <1>4 DEF User

\* Every step keeps the invariant of the gate.
LEMMA NextIInv == IInv /\ [Next]_vars => IInv'
<1> SUFFICES ASSUME IInv, [Next]_vars PROVE IInv'
  OBVIOUS
<1>1. CASE UNCHANGED vars
  BY <1>1, ScreenStep DEF IInv, Types, vars, turnVars, bridgeVars, msgVars, uiVars,
                          histVars
<1>2. CASE Over
  BY <1>1, <1>2 DEF Over
<1> QED BY <1>1, <1>2, AgentStep, DeliverStep, AnswerOpenDialogStep, UserStep
        DEF Next

\* Every state satisfies the inductive invariant: an approval on its way was
\* given to the call that waits for it, and the offer of a call is in one place.
\* (bridge.go:36-62)
THEOREM GateInvariant == Spec => []IInv
BY InitIInv, NextIInv, PTL DEF Spec

\* A call that requires approval runs only after the user approved it or the
\* session, whatever the order of messages and the number of turns.
\* (bridge.go:36-62, toolinteract_bridge.go:171-192)
THEOREM GateConsent == Spec => []RanWithConsent
<1>1. IInv => RanWithConsent
  BY DEF IInv, Consent
<1> QED BY <1>1, GateInvariant, PTL

\* An offer is in one place at a time and is answered at most once, so the UI
\* never blocks on a full response channel.  (bridge.go:50-52)
THEOREM GateAnsweredOnce == Spec => []AnsweredOnce
<1>1. IInv => AnsweredOnce
  BY DEF IInv
<1> QED BY <1>1, GateInvariant, PTL

\* The offer of a call that waits can be seen, unless a dialog took its place.
\* (bridge.go:50-61, update.go:84-89)
THEOREM GateWaitingIsVisible == Spec => []WaitingIsVisible
<1>1. IInv => WaitingIsVisible
  BY DEF IInv
<1> QED BY <1>1, GateInvariant, PTL

----------------------------------------------------------------------------
(***************************************************************************)
(* Denials and the maps of a bridge.                                       *)
(***************************************************************************)

\* The offer is in the inbox of its turn, on its way to the screen, or on it.
Held(t, c) == c = dialog \/ c \in offers \/ inbox[t] = <<c>>

\* The offer of a turn that is not cancelled is that of the call it waits with.
Parked ==
    \A t \in Turns : t \notin ctxDone =>
      \A c \in Call : c.turn = t /\ Held(t, c)
        => pc[t] = "waiting" /\ call[t] = c /\ reply[t] = None

\* What has happened to a turn happened after its start, turns start in their
\* order, and the turn the UI knows is the last of them and not cancelled.
Started ==
    /\ \A t, u \in Turns : pc[t] # "none" /\ u < t => pc[u] # "none"
    /\ \A t, u \in Turns : t = bridge /\ pc[u] # "none" => u <= t
    /\ \A t \in Turns : t \in ctxDone \/ t = bridge => pc[t] # "none"
    /\ \A t \in Turns : t = bridge => t \notin ctxDone
    /\ \A r \in noted : r \in Call /\ pc[r.turn] # "none"
    /\ \A t \in Turns : pc[t] \in {"lookup", "offering"} => reply[t] = None

\* What the user denied in the turn on screen is on its bridge, and no offer past
\* the look-up repeats it.
Noted == \A t \in Turns, r \in noted : r.turn = t => r.sig \in denied[t]

NotRepeated ==
    \A t \in Turns, c \in Call, r \in noted :
      (/\ c.turn = t /\ r.turn = t /\ c.kind = "approve"
       /\ Held(t, c) \/ (pc[t] = "offering" /\ call[t] = c))
      => r.sig # c.sig

Denials == Noted /\ NotRepeated

Order == Parked /\ Started /\ Denials /\ denied \in [Turns -> SUBSET Signatures]

\* There is no offer to misplace at first.
LEMMA InitOrder == Init => Order
<1> SUFFICES ASSUME Init PROVE Order
  OBVIOUS
<1>1. \A t \in Turns, c \in Call : ~Held(t, c)
  BY NoneIsNoValue DEF Init, Held, Call
<1>2. Parked /\ Denials
  BY <1>1 DEF Init, Parked, Denials, Noted, NotRepeated, Turns
<1>3. Started
  BY DEF Init, Started, Turns
<1> QED BY <1>2, <1>3 DEF Order, Init

(***************************************************************************)
(* Steps after which no offer is anywhere it was not before.               *)
(***************************************************************************)
LEMMA FewerOffers ==
  ASSUME IInv, Order,
         \A t \in Turns, c \in Call : c.turn = t /\ Held(t, c)' => Held(t, c),
         bridge' \in {bridge, 0},
         \A t \in Turns : t \in ctxDone => t \in ctxDone',
         \A t \in Turns : t \in ctxDone' => t \in ctxDone \/ (t = bridge /\ bridge' = 0),
         UNCHANGED <<pc, call, reply, noted, denied>>
  PROVE  Order'
<1> USE DEF Order
<1>0. \A t \in Turns : t # 0
  BY DEF Turns
<1>1. Parked'
  BY DEF Parked
<1>2. Started'
  BY <1>0 DEF Started
<1>3. Denials'
  BY <1>0 DEF Denials, Noted, NotRepeated
<1> QED BY <1>1, <1>2, <1>3

(***************************************************************************)
(* An answer goes to the call its turn waits with, whose offer is gone.    *)
(***************************************************************************)
LEMMA AnswerKeepsParked ==
  ASSUME IInv, IInv', Order, NEW o \in Call, NEW resp \in Responses,
         o \in offers \cup {dialog}, Respond(o, resp),
         \A t \in Turns, c \in Call : c.turn = t /\ Held(t, c)' => Held(t, c),
         UNCHANGED <<pc, call, ctxDone>>
  PROVE  /\ Parked'
         /\ \A t \in Turns : pc[t] \in {"lookup", "offering"} => reply'[t] = None
<1>1. /\ answered' = answered \cup {o}
      /\ \A t \in Turns : reply'[t] # reply[t] => call[t] = o
  BY RespondReaches DEF IInv
<1>2. \A t \in Turns : ~Held(t, o)'
  BY <1>1 DEF IInv, AnsweredOnce, Held
<1>3. Parked'
  <2> SUFFICES ASSUME NEW t \in Turns, t \notin ctxDone, NEW c \in Call, c.turn = t, Held(t, c)'
               PROVE  pc[t] = "waiting" /\ call[t] = c /\ reply'[t] = None
    BY DEF Parked
  <2>1. pc[t] = "waiting" /\ call[t] = c /\ reply[t] = None
    BY DEF Order, Parked
  <2>2. c # o
    BY <1>2
  <2> QED BY <1>1, <2>1, <2>2
<1>4. ASSUME NEW t \in Turns, pc[t] \in {"lookup", "offering"} PROVE reply'[t] = None
  <2>1. reply[t] = None
    BY <1>4 DEF Order, Started
  <2>2. call[t] # o
    BY <1>4 DEF IInv, Fresh
  <2> QED BY <1>1, <2>1, <2>2
<1> QED BY <1>3, <1>4

\* An answer of the user reaches the call that waits and is noted when it denies.
LEMMA AnswerOrder ==
  ASSUME IInv, IInv', Order, NEW resp \in Responses, AnswerDialog(resp)
  PROVE  Order'
<1>1. /\ dialog \in Call /\ dialog' = None
      /\ Respond(dialog, resp)
      /\ denied' = IF resp = "deny" /\ bridge # 0
                   THEN [denied EXCEPT ![bridge] = @ \cup {dialog.sig}] ELSE denied
      /\ noted' = IF resp = "deny" /\ dialog.turn = bridge THEN noted \cup {dialog} ELSE noted
      /\ UNCHANGED <<pc, call, inbox, offers, bridge, ctxDone>>
  BY DEF AnswerDialog, turnVars, msgVars, IInv, Types, Markup
<1>2. \A t \in Turns, c \in Call : Held(t, c)' => Held(t, c) /\ c # dialog
  <2>1. \A t \in Turns, c \in Call : Held(t, c)' => Held(t, c)
    BY <1>1, NoneIsNoValue DEF Held, Call
  <2>2. \A t \in Turns : ~(dialog \in offers \/ inbox[t] = <<dialog>>)
    BY DEF IInv, AnsweredOnce
  <2>3. dialog # None
    BY <1>1, NoneIsNoValue
  <2> QED BY <1>1, <2>1, <2>2, <2>3 DEF Held
<1>3. Parked' /\ \A t \in Turns : pc[t] \in {"lookup", "offering"} => reply'[t] = None
  BY <1>1, <1>2, AnswerKeepsParked
<1>4. denied' \in [Turns -> SUBSET Signatures] /\ \A t \in Turns : denied[t] \subseteq denied'[t]
  BY <1>1 DEF Order, Call, IInv, Types
<1>5. dialog.turn \in Turns
  BY <1>1 DEF Call
<1>6. Started'
  <2>1. pc[dialog.turn] # "none"
    <3>1. CASE dialog.turn \in ctxDone
      BY <1>5, <3>1 DEF Order, Started
    <3>2. CASE dialog.turn \notin ctxDone
      BY <1>1, <1>5, <3>2 DEF Order, Parked, Held
    <3> QED BY <3>1, <3>2
  <2> QED BY <1>1, <1>3, <2>1 DEF Order, Started
<1>7. Noted'
  <2>1. \A t \in Turns, r \in noted : r.turn = t => r.sig \in denied'[t]
    BY <1>4 DEF Order, Denials, Noted
  <2>2. ASSUME NEW t \in Turns, t = bridge, resp = "deny" PROVE dialog.sig \in denied'[t]
    BY <1>1, <2>2 DEF Order, Turns
  <2> QED BY <1>1, <2>1, <2>2 DEF Noted
<1>8. NotRepeated'
  <2> SUFFICES ASSUME NEW t \in Turns, NEW c \in Call, NEW r \in noted',
                      c.turn = t, r.turn = t, c.kind = "approve",
                      Held(t, c)' \/ (pc[t] = "offering" /\ call[t] = c)
               PROVE  r.sig # c.sig
    BY <1>1 DEF NotRepeated
  <2>1. CASE r \in noted
    BY <1>2, <2>1 DEF Order, Denials, NotRepeated
  <2>2. CASE r = dialog /\ t = bridge
    <3>1. t \notin ctxDone
      BY <2>2 DEF Order, Started
    <3>2. pc[t] = "waiting" /\ call[t] = dialog
      BY <1>1, <2>2, <3>1 DEF Order, Parked, Held
    <3>3. Held(t, c) /\ c # dialog
      BY <1>2, <3>2
    <3>4. call[t] = c
      BY <3>1, <3>3 DEF Order, Parked
    <3> QED BY <3>2, <3>3, <3>4
  <2> QED BY <1>1, <2>1, <2>2
<1> QED BY <1>3, <1>4, <1>6, <1>7, <1>8 DEF Order, Denials

-----------------------------------------------------------------------------
(***************************************************************************)
(* Steps of a turn.  Where a turn is moves no offer.                       *)
(***************************************************************************)
LEMMA MoveOrder ==
  ASSUME IInv, Order, NEW t \in Turns, NEW place \in {"working", "offering", "over", "lookup"},
         pc' = [pc EXCEPT ![t] = place], pc[t] # "none",
         pc[t] = "waiting" => t \in ctxDone \/ reply[t] # None,
         place \in {"lookup", "offering"} => reply'[t] = None,
         place = "offering" => pc[t] = "lookup" /\ call' = call
                               /\ (call[t].kind = "approve" => call[t].sig \notin denied[t]),
         \A u \in Turns : u # t => reply'[u] = reply[u] /\ call'[u] = call[u],
         UNCHANGED <<inbox, offers, dialog, ctxDone, bridge, denied, noted>>
  PROVE  Order'
<1>1. \A u \in Turns, c \in Call : Held(u, c)' <=> Held(u, c)
  BY DEF Held
<1>2. \A u \in Turns : u # t => pc'[u] = pc[u]
  BY DEF IInv, Types
<1>3. pc'[t] = place
  BY DEF IInv, Types
<1>4. \A c \in Call : t \notin ctxDone /\ c.turn = t => ~Held(t, c)
  BY DEF Order, Parked
<1>5. Parked'
  <2> SUFFICES ASSUME NEW u \in Turns, u \notin ctxDone, NEW c \in Call, c.turn = u, Held(u, c)
               PROVE  pc'[u] = "waiting" /\ call'[u] = c /\ reply'[u] = None
    BY <1>1 DEF Parked
  <2>1. u # t
    BY <1>4
  <2> QED BY <1>2, <2>1 DEF Order, Parked
<1>6. Started'
  BY <1>2, <1>3 DEF Order, Started, Call
<1>7. Denials'
  <2>1. Noted'
    BY <1>1 DEF Order, Denials, Noted
  <2>2. ASSUME NEW u \in Turns, NEW c \in Call, NEW r \in noted,
               c.turn = u, r.turn = u, c.kind = "approve",
               Held(u, c) \/ (pc'[u] = "offering" /\ call'[u] = c)
        PROVE  r.sig # c.sig
    <3>1. CASE u # t
      BY <1>2, <2>2, <3>1 DEF Order, Denials, NotRepeated
    <3>2. CASE u = t /\ place = "offering"
      BY <1>3, <2>2, <3>2 DEF Order, Denials, Noted, NotRepeated
    <3>3. CASE u = t /\ place # "offering"
      BY <1>3, <2>2, <3>3 DEF Order, Denials, NotRepeated
    <3> QED BY <3>1, <3>2, <3>3
  <2> QED BY <1>1, <2>1, <2>2 DEF Denials, NotRepeated
<1> QED BY <1>5, <1>6, <1>7 DEF Order

\* The call whose offer is put waits with it.
LEMMA PutOfferOrder ==
  ASSUME IInv, Order, NEW t \in Turns, PutOffer(t)
  PROVE  Order'
<1>1. /\ pc[t] = "offering" /\ pc' = [pc EXCEPT ![t] = "waiting"]
      /\ inbox[t] = <<>> /\ inbox' = [inbox EXCEPT ![t] = <<call[t]>>]
      /\ UNCHANGED <<call, reply, offers, dialog, ctxDone, bridge, denied, noted>>
  BY DEF PutOffer, Goto, bridgeVars, msgVars, uiVars, histVars
<1>2. /\ inbox'[t] = <<call[t]>> /\ pc'[t] = "waiting"
      /\ \A u \in Turns : u # t => inbox'[u] = inbox[u] /\ pc'[u] = pc[u]
  BY <1>1 DEF IInv, Types
<1>3. \A u \in Turns, c \in Call : Held(u, c)' => Held(u, c) \/ (u = t /\ c = call[t])
  BY <1>1, <1>2 DEF Held
<1>4. Parked'
  <2> SUFFICES ASSUME NEW u \in Turns, u \notin ctxDone, NEW c \in Call, c.turn = u, Held(u, c)'
               PROVE  pc'[u] = "waiting" /\ call[u] = c /\ reply[u] = None
    BY <1>1 DEF Parked
  <2>1. CASE u # t
    BY <1>2, <1>3, <2>1 DEF Order, Parked
  <2>2. CASE u = t
    <3>1. ~Held(t, c)
      BY <1>1, <2>2 DEF Order, Parked
    <3> QED BY <1>1, <1>2, <1>3, <2>2, <3>1 DEF Order, Started
  <2> QED BY <2>1, <2>2
<1>5. Started'
  BY <1>1, <1>2 DEF Order, Started, Call
<1>6. Denials'
  BY <1>1, <1>2, <1>3 DEF Order, Denials, Noted, NotRepeated
<1> QED BY <1>1, <1>4, <1>5, <1>6 DEF Order

(***************************************************************************)
(* A turn starts: nothing of it is anywhere yet.                           *)
(***************************************************************************)
LEMMA StartOrder ==
  ASSUME IInv, Order, NEW t \in Turns, pc[t] = "none",
         \A u \in Turns : pc[u] = "none" => t <= u,
         pc' = [pc EXCEPT ![t] = "working"], bridge' = t,
         dialog' = dialog \/ dialog' = None,
         ctxDone' = ctxDone \/ ctxDone' = ctxDone \cup {bridge},
         UNCHANGED <<call, reply, inbox, offers, denied, noted>>
  PROVE  Order'
<1>1. \A u \in Turns, c \in Call : Held(u, c)' => Held(u, c)
  BY NoneIsNoValue DEF Held, Call
<1>2. pc'[t] = "working" /\ \A u \in Turns : u # t => pc'[u] = pc[u]
  BY DEF IInv, Types
<1>3. bridge # t /\ t \notin ctxDone /\ t \notin ctxDone'
  BY DEF Order, Started
<1>4. \A c \in Call : c.turn = t => ~Held(t, c)
  BY <1>3 DEF Order, Parked
<1>5. \A r \in noted : r.turn # t
  BY DEF Order, Started
<1>6. Parked'
  BY <1>1, <1>2, <1>3, <1>4 DEF Order, Parked
<1>7. Started'
  <2>1. \A u \in Turns : (u < t => pc[u] # "none") /\ (pc[u] # "none" => u <= t)
    BY DEF Order, Started, Turns
  <2> QED BY <1>2, <1>3, <2>1 DEF Order, Started, Call
<1>8. Denials'
  <2>1. \A u \in Turns, c \in Call, r \in noted :
          r.turn = u => u # t /\ (Held(u, c)' => Held(u, c)) /\ pc'[u] = pc[u]
    BY <1>1, <1>2, <1>5
  <2> QED BY <2>1 DEF Order, Denials, Noted, NotRepeated
<1> QED BY <1>6, <1>7, <1>8 DEF Order

-----------------------------------------------------------------------------
\* The steps of an agent.
LEMMA AgentOrder ==
  ASSUME IInv, Order, NEW t \in Turns, Agent(t)
  PROVE  Order'
<1>1. ASSUME NEW k \in Kinds, NEW s \in Signatures, StartCall(t, k, s) PROVE Order'
  <2>1. /\ pc[t] = "working"
        /\ \/ pc' = [pc EXCEPT ![t] = "working"]
           \/ pc' = [pc EXCEPT ![t] = "lookup"]
        /\ reply'[t] = None
        /\ \A u \in Turns : u # t => reply'[u] = reply[u] /\ call'[u] = call[u]
        /\ UNCHANGED <<inbox, offers, dialog, ctxDone, bridge, denied, noted>>
    BY <1>1 DEF StartCall, Goto, bridgeVars, uiVars, IInv, Types
  <2> QED BY <2>1, MoveOrder
<1>2. CASE Interact(t)
  <2>1. /\ pc[t] = "lookup"
        /\ \/ pc' = [pc EXCEPT ![t] = "working"]
           \/ /\ pc' = [pc EXCEPT ![t] = "offering"]
              /\ call[t].kind = "approve" => call[t].sig \notin denied[t]
        /\ UNCHANGED <<call, reply, inbox, offers, dialog, ctxDone, bridge, denied, noted>>
    BY <1>2 DEF Interact, Goto, bridgeVars, msgVars, uiVars
  <2>2. reply[t] = None
    BY <2>1 DEF Order, Started
  <2> QED BY <2>1, <2>2, MoveOrder
<1>3. CASE PutOffer(t)
  BY <1>3, PutOfferOrder
<1>4. CASE TakeReply(t)
  <2>1. /\ pc[t] = "waiting" /\ reply[t] # None
        /\ pc' = [pc EXCEPT ![t] = "working"]
        /\ \A u \in Turns : u # t => reply'[u] = reply[u]
        /\ UNCHANGED <<call, inbox, offers, dialog, ctxDone, bridge, denied, noted>>
    BY <1>4 DEF TakeReply, Goto, bridgeVars, msgVars, uiVars, IInv, Types
  <2> QED BY <2>1, MoveOrder
<1>5. CASE Abort(t)
  <2>1. /\ pc[t] # "none" /\ t \in ctxDone
        /\ pc' = [pc EXCEPT ![t] = "working"]
        /\ UNCHANGED <<call, reply, inbox, offers, dialog, ctxDone, bridge, denied, noted>>
    BY <1>5 DEF Abort, Goto, bridgeVars, msgVars, uiVars, histVars
  <2> QED BY <2>1, MoveOrder
<1>6. CASE EndTurn(t)
  <2>1. /\ pc[t] = "working" /\ pc' = [pc EXCEPT ![t] = "over"]
        /\ UNCHANGED <<call, reply, inbox, offers, dialog, ctxDone, bridge, denied, noted>>
    BY <1>6 DEF EndTurn, Goto, bridgeVars, uiVars, histVars
  <2> QED BY <2>1, MoveOrder
<1> QED BY <1>1, <1>2, <1>3, <1>4, <1>5, <1>6 DEF Agent

\* The steps of the UI on messages.
LEMMA DeliverOrder ==
  ASSUME IInv, IInv', Order, Deliver
  PROVE  Order'
<1>1. ASSUME NEW t \in Turns, WaitOffer(t) PROVE Order'
  <2>1. /\ inbox' = [inbox EXCEPT ![t] = <<>>] /\ offers' = offers \cup {Head(inbox[t])}
        /\ inbox[t] # <<>>
        /\ UNCHANGED <<pc, call, reply, dialog, ctxDone, bridge, denied, noted>>
    BY <1>1 DEF WaitOffer, turnVars, bridgeVars, uiVars, histVars
  <2>2. PICK c \in Call : inbox[t] = <<c>>
    BY <2>1 DEF IInv, Types
  <2>3. c.turn = t /\ offers' = offers \cup {c}
    BY <2>1, <2>2 DEF IInv, Numbered
  <2>4. \A u \in Turns, d \in Call : d.turn = u /\ Held(u, d)' => Held(u, d)
    BY <2>1, <2>2, <2>3 DEF Held, IInv, Types
  <2> QED BY <2>1, <2>4, FewerOffers
<1>2. ASSUME NEW t \in Turns, HandleToolCallStart(t) PROVE Order'
  <2>1. UNCHANGED <<pc, call, reply, inbox, offers, dialog, ctxDone, bridge, denied, noted>>
    BY <1>2 DEF HandleToolCallStart, turnVars, bridgeVars, uiVars, histVars
  <2> QED BY <2>1, FewerOffers DEF Held
<1>3. ASSUME NEW t \in Turns, NEW how \in {"done", "closed"}, HandleEnding(t, how) PROVE Order'
  <2>1. /\ UNCHANGED <<pc, call, reply, inbox, offers, dialog, ctxDone, denied, noted>>
        /\ bridge' \in {bridge, 0}
    BY <1>3 DEF HandleEnding, turnVars, bridgeVars, histVars
  <2> QED BY <2>1, FewerOffers DEF Held
<1>4. ASSUME NEW o \in offers, SwallowOffer(o) PROVE Order'
  <2>1. /\ UNCHANGED <<pc, call, reply, inbox, dialog, ctxDone, bridge, denied, noted>>
        /\ offers' = offers \ {o}
    BY <1>4 DEF SwallowOffer, turnVars, bridgeVars, uiVars
  <2> QED BY <2>1, FewerOffers DEF Held
<1>5. ASSUME NEW o \in offers, OpenDialog(o) PROVE Order'
  <2>1. /\ UNCHANGED <<pc, call, inbox, ctxDone, bridge, denied, noted>>
        /\ offers' = offers \ {o} /\ dialog = None /\ o \in Call
    BY <1>5 DEF OpenDialog, turnVars, bridgeVars, IInv, Types
  <2>2. CASE dialog' = o /\ UNCHANGED reply
    BY <2>1, <2>2, FewerOffers DEF Held
  <2>3. CASE Respond(o, "answer") /\ dialog' = dialog
    <3>1. \A t \in Turns, c \in Call : c.turn = t /\ Held(t, c)' => Held(t, c)
      BY <2>1, <2>3 DEF Held
    <3>2. Parked' /\ \A t \in Turns : pc[t] \in {"lookup", "offering"} => reply'[t] = None
      BY <2>1, <2>3, <3>1, AnswerKeepsParked DEF Responses
    <3>3. Started'
      BY <2>1, <3>2 DEF Order, Started
    <3>4. Denials'
      BY <2>1, <3>1 DEF Order, Denials, Noted, NotRepeated
    <3> QED BY <2>1, <3>2, <3>3, <3>4 DEF Order
  <2> QED BY <1>5, <2>2, <2>3 DEF OpenDialog
<1>6. CASE HandleMarkupAskUser
  <2>1. /\ UNCHANGED <<pc, call, reply, inbox, offers, ctxDone, bridge, denied, noted>>
        /\ dialog' = dialog \/ (dialog' = pending /\ pending # None)
    BY <1>6 DEF HandleMarkupAskUser, turnVars, bridgeVars
  <2>2. dialog' = dialog \/ dialog' \notin Call
    BY <2>1, NoOffer DEF IInv, Types
  <2>3. \A t \in Turns, c \in Call : c.turn = t /\ Held(t, c)' => Held(t, c)
    BY <2>1, <2>2 DEF Held
  <2> QED BY <2>1, <2>3, FewerOffers
<1> QED BY <1>1, <1>2, <1>3, <1>4, <1>5, <1>6 DEF Deliver

\* The steps of the user on the open dialog.
LEMMA AnswerOpenOrder ==
  ASSUME IInv, IInv', Order, AnswerOpenDialog
  PROVE  Order'
<1>1. ASSUME NEW resp \in Responses, AnswerDialog(resp) PROVE Order'
  BY <1>1, AnswerOrder
<1>2. CASE AnswerMarkup
  <2>1. /\ dialog' = None /\ (ctxDone' = ctxDone \/ ctxDone' = ctxDone \cup {bridge})
        /\ UNCHANGED <<call, reply, inbox, offers, denied, noted>>
    BY <1>2 DEF AnswerMarkup, msgVars
  <2>2. \E t \in Turns : /\ pc[t] = "none" /\ pc' = [pc EXCEPT ![t] = "working"]
                         /\ bridge' = t /\ \A u \in Turns : pc[u] = "none" => t <= u
    BY <1>2 DEF AnswerMarkup, StartTurn, Goto
  <2> QED BY <2>1, <2>2, StartOrder
<1>3. CASE DismissMarkup
  <2>1. /\ UNCHANGED <<pc, call, reply, inbox, offers, ctxDone, bridge, denied, noted>>
        /\ dialog' = None
    BY <1>3 DEF DismissMarkup, turnVars, bridgeVars, msgVars
  <2>2. \A t \in Turns, c \in Call : c.turn = t /\ Held(t, c)' => Held(t, c)
    BY <2>1, NoneIsNoValue DEF Held, Call
  <2> QED BY <2>1, <2>2, FewerOffers
<1>4. CASE ResolveModelsSync
  <2>1. UNCHANGED <<pc, call, reply, inbox, offers, dialog, ctxDone, bridge, denied, noted>>
    BY <1>4 DEF ResolveModelsSync, turnVars, bridgeVars, msgVars, histVars
  <2> QED BY <2>1, FewerOffers DEF Held
<1> QED BY <1>1, <1>2, <1>3, <1>4 DEF AnswerOpenDialog

\* The other steps of the user.
LEMMA UserOrder ==
  ASSUME IInv, Order, User
  PROVE  Order'
<1>1. CASE Submit
  <2>1. UNCHANGED <<call, reply, inbox, offers, dialog, ctxDone, denied, noted>>
    BY <1>1 DEF Submit, msgVars
  <2>2. \E t \in Turns : /\ pc[t] = "none" /\ pc' = [pc EXCEPT ![t] = "working"]
                         /\ bridge' = t /\ \A u \in Turns : pc[u] = "none" => t <= u
    BY <1>1 DEF Submit, StartTurn, Goto
  <2> QED BY <2>1, <2>2, StartOrder
<1>2. CASE CancelAgentTurn
  <2>1. /\ UNCHANGED <<pc, call, reply, inbox, offers, dialog, denied, noted>>
        /\ ctxDone' = ctxDone \cup {bridge} /\ bridge' = 0
    BY <1>2 DEF CancelAgentTurn, turnVars, bridgeVars, msgVars, histVars
  <2> QED BY <2>1, FewerOffers DEF Held
<1>3. CASE OfferModelsSync
  <2>1. UNCHANGED <<pc, call, reply, inbox, offers, dialog, ctxDone, bridge, denied, noted>>
    BY <1>3 DEF OfferModelsSync, turnVars, bridgeVars, msgVars, histVars
  <2> QED BY <2>1, FewerOffers DEF Held
<1>4. ASSUME NEW p \in Markup, QueueMarkup(p) PROVE Order'
  <2>1. UNCHANGED <<pc, call, reply, inbox, offers, dialog, ctxDone, bridge, denied, noted>>
    BY <1>4 DEF QueueMarkup, turnVars, bridgeVars, histVars
  <2> QED BY <2>1, FewerOffers DEF Held
<1> QED BY <1>1, <1>2, <1>3, <1>4 DEF User

\* Every step keeps offers, starts and denials in order.
LEMMA NextOrder == IInv /\ IInv' /\ Order /\ [Next]_vars => Order'
<1> SUFFICES ASSUME IInv, IInv', Order, [Next]_vars PROVE Order'
  OBVIOUS
<1>1. CASE UNCHANGED vars
  <2>1. UNCHANGED <<pc, call, reply, inbox, offers, dialog, ctxDone, bridge, denied, noted>>
    BY <1>1 DEF vars, turnVars, bridgeVars, msgVars, uiVars, histVars
  <2> QED BY <2>1, FewerOffers DEF Held
<1>2. CASE Over
  BY <1>1, <1>2 DEF Over
<1> QED BY <1>1, <1>2, AgentOrder, DeliverOrder, AnswerOpenOrder, UserOrder DEF Next

\* In every state the offer of a turn that is not cancelled belongs to the call
\* the turn waits with, and what the user denied in the turn on screen is noted.
\* (toolinteract_bridge.go:240-263, bridge.go:42-49)
THEOREM GateOrder == Spec => []Order
BY InitOrder, NextOrder, GateInvariant, PTL DEF Spec

\* What the user denied while the UI knew the bridge of the turn he is never asked
\* again in that turn, for any number of calls and however late a dialog is
\* answered.  A denial given after a stale TurnDone or under another turn is not
\* noted and is not part of this.  (bridge.go:45-49, approval.go:142-151)
THEOREM GateDenialRemembered == Spec => []DenialRemembered
<1>1. IInv /\ Order => DenialRemembered
  <2> SUFFICES ASSUME IInv, Order, dialog # None, dialog.kind = "approve", NEW c \in noted,
                      dialog.turn = c.turn, dialog.sig = c.sig
               PROVE  FALSE
    BY DEF DenialRemembered
  <2>1. c \in Call
    BY DEF Order, Started
  <2>2. dialog \in Call /\ dialog.turn \in Turns
    BY <2>1 DEF IInv, Types, Markup, Call
  <2>3. Held(dialog.turn, dialog)
    BY DEF Held
  <2> QED BY <2>2, <2>3 DEF Order, Denials, NotRepeated
<1> QED BY <1>1, GateInvariant, GateOrder, PTL

\* The UI writes to the maps of a bridge only when it answers the call the agent of
\* that bridge is parked with, or the dialog of an earlier turn under a later one.
\* (toolinteract_bridge.go:240-263, bridge.go:42-48)
THEOREM GateBridgeWritesParked == Spec => BridgeWritesParked
<1> DEFINE Safe == \A t \in Turns :
                     denied'[t] # denied[t] \/ skip'[t] # skip[t]
                       => \/ pc[t] = "waiting" /\ dialog = call[t]
                          \/ dialog.turn \in 1..(t - 1)
<1>1. ASSUME IInv, Order, NEW resp \in Responses, AnswerDialog(resp) PROVE Safe
  <2> SUFFICES ASSUME NEW t \in Turns, denied'[t] # denied[t] \/ skip'[t] # skip[t],
                      dialog.turn \notin 1..(t - 1)
               PROVE  pc[t] = "waiting" /\ dialog = call[t]
    OBVIOUS
  <2>1. dialog \in Call /\ dialog.turn \in Turns
    BY <1>1 DEF AnswerDialog, IInv, Types, Markup, Call
  <2>2. t = bridge
    BY <1>1 DEF AnswerDialog, Order, IInv, Types
  <2>3. t \notin ctxDone
    BY <1>1, <2>2 DEF Order, Started
  <2>4. pc[dialog.turn] # "none"
    BY <1>1, <2>1 DEF Order, Started, Parked, Held
  <2>5. dialog.turn = t
    BY <1>1, <2>1, <2>2, <2>4, GateConstants DEF Order, Started, Turns
  <2> QED BY <1>1, <2>1, <2>3, <2>5 DEF Order, Parked, Held
<1>2. ASSUME [Next]_vars, \A resp \in Responses : ~AnswerDialog(resp) PROVE UNCHANGED <<denied, skip>>
  <2>1. ASSUME NEW t \in Turns, Agent(t) PROVE UNCHANGED <<denied, skip>>
    BY <2>1 DEF Agent, StartCall, Interact, PutOffer, TakeReply, Abort, EndTurn, bridgeVars
  <2>2. CASE Deliver
    BY <2>2 DEF Deliver, WaitOffer, HandleToolCallStart, HandleEnding, SwallowOffer,
                OpenDialog, HandleMarkupAskUser, bridgeVars
  <2>3. CASE AnswerOpenDialog
    BY <1>2, <2>3 DEF AnswerOpenDialog, AnswerMarkup, DismissMarkup, ResolveModelsSync, bridgeVars
  <2>4. CASE User
    BY <2>4 DEF User, Submit, CancelAgentTurn, OfferModelsSync, QueueMarkup, bridgeVars
  <2>5. CASE Over \/ UNCHANGED vars
    BY <2>5 DEF Over, vars, bridgeVars
  <2> QED BY <1>2, <2>1, <2>2, <2>3, <2>4, <2>5 DEF Next
<1>3. IInv /\ Order /\ [Next]_vars => [Safe]_vars
  BY <1>1, <1>2
<1> QED BY <1>3, GateInvariant, GateOrder, PTL DEF Spec, BridgeWritesParked

=============================================================================
