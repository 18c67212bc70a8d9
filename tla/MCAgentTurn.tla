---------------------------- MODULE MCAgentTurn ----------------------------
(***************************************************************************)
(* Small instances of AgentTurn for TLC.                                   *)
(***************************************************************************)
EXTENDS AgentTurnProps

MCTexts == {"blank", "skill", "p", "q"}

\* The blank history, one that ends with an unanswered prompt (a provider
\* error), a finished exchange, and one whose oldest user message is gone.
MCHistories ==
    {<<>>,
     <<UserMessage("p", 1, FALSE)>>,
     <<UserMessage("q", 1, FALSE), AssistantMessage(1, 0)>>,
     <<AssistantMessage(1, 1), ToolMessage("blank", 1, 1, 1), AssistantMessage(1, 0)>>}

\* One history, one prompt: for the runs about the loop itself.
OneHistory == {<<UserMessage("q", 1, FALSE), AssistantMessage(1, 0)>>}
============================================================================
