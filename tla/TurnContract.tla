---------------------------- MODULE TurnContract ----------------------------
(***************************************************************************)
(* What a turn promises the reader of its event channel, whatever happens  *)
(* inside: tool calls are announced and completed one at a time, nothing   *)
(* follows the TurnDone event, TurnDone never comes while a tool call is   *)
(* open, the channel is closed once, and a turn that was neither cancelled *)
(* nor broken off by its provider does not close without TurnDone.         *)
(***************************************************************************)
EXTENDS Naturals

VARIABLES
    life,    \* "running", "ended" (TurnDone was sent), "closed"
    open,    \* position of the tool call that is open, 0 when none is
    stop,    \* the turn was cancelled
    quit     \* the provider reported a cancellation of its own

cvars == <<life, open, stop, quit>>

Init == life = "running" /\ open = 0 /\ stop = FALSE /\ quit = FALSE

StartTool ==
    /\ life = "running" /\ open = 0 /\ ~quit
    /\ open' \in Nat \ {0}
    /\ UNCHANGED <<life, stop, quit>>

FinishTool ==
    /\ life = "running" /\ open # 0 /\ ~quit
    /\ open' = 0
    /\ UNCHANGED <<life, stop, quit>>

\* The provider gives up between tool calls.
Quit ==
    /\ life = "running" /\ open = 0
    /\ quit' = TRUE
    /\ UNCHANGED <<life, open, stop>>

TurnDone ==
    /\ life = "running" /\ open = 0 /\ ~quit
    /\ life' = "ended"
    /\ UNCHANGED <<open, stop, quit>>

Close ==
    /\ life = "ended" \/ (life = "running" /\ (stop \/ quit))
    /\ life' = "closed"
    /\ UNCHANGED <<open, stop, quit>>

Stop ==
    /\ stop' = TRUE
    /\ UNCHANGED <<life, open, quit>>

Next == StartTool \/ FinishTool \/ Quit \/ TurnDone \/ Close \/ Stop

Spec == Init /\ [][Next]_cvars

============================================================================
