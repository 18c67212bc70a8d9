---------------------------- MODULE MCComponents ----------------------------
(***************************************************************************)
(* Instances of the components for TLC.                                    *)
(***************************************************************************)
EXTENDS Components

\* Two releases on one database, the later with one more migration than the
\* earlier one knows and a gap between.
MCRegistered == [o1 |-> {1, 2}, o2 |-> {1, 2, 6}]
MCProjectFile == [f \in Fields |-> "a"]
MCFiles == <<<<"a">>, <<"a", "a">>, <<"a", "b">>, <<"b">>>>
MCSlashNames == <<<<"a">>, <<"a", "b">>, <<"b", "a">>>>
\* One command with arguments to choose from, one with a hint.
MCArgsOf == [name \in {<<"a">>, <<"a", "b">>, <<"b", "a">>} |->
               IF name = <<"a", "b">> THEN <<<<"a">>, <<"b">>, <<"b", "a">>>> ELSE <<>>]
MCHinted == {<<"b", "a">>}
MCOptionLists == {<<>>, <<<<"g">>, <<"r">>>>, <<<<"g">>, <<"cancel">>>>}
MCPastes == {<<"c">>}
\* Up to three paragraphs of one or two lines, with blank ones between.
MCParagraphs == {<<"short">>, <<"full">>, <<"full", "short">>, <<"short", "full">>}
MCBetween == MCParagraphs \cup {<<>>, <<"">>, <<"", "">>}
MCDescriptions ==
    {<<>>} \cup MCParagraphs \cup {p \o r \o q : p, q \in MCParagraphs, r \in MCBetween}
MCGroups == <<<<1, 2>>, <<3, 4, 5>>>>
\* Budgets next to a router that cannot stop thinking, an adaptive model behind
\* a file that says otherwise, a gateway with one model disabled, a file without
\* its key and a model that infers its thinking.
Plain == [on |-> TRUE, reasoning |-> TRUE, without |-> {}, own |-> {}, api |-> "",
          adaptive |-> FALSE, format |-> "", effort |-> "unset"]
OneProvider == [key |-> TRUE, on |-> TRUE, gateway |-> "none", api |-> "openai",
                adaptive |-> FALSE, format |-> "", effort |-> "unset", models |-> <<Plain>>]
MCModelFiles ==
    {[OneProvider EXCEPT !.format = "openrouter", !.models =
        <<[Plain EXCEPT !.api = "anthropic", !.without = {1}],
          [Plain EXCEPT !.without = {0, 5}, !.own = {3}]>>],
     [OneProvider EXCEPT !.effort = "no", !.api = "anthropic", !.adaptive = TRUE, !.models =
        <<[Plain EXCEPT !.reasoning = FALSE], [Plain EXCEPT !.own = {5}]>>],
     [OneProvider EXCEPT !.gateway = "qwen", !.models =
        <<[Plain EXCEPT !.format = "effort", !.effort = "yes"], [Plain EXCEPT !.on = FALSE], Plain>>],
     [OneProvider EXCEPT !.key = FALSE, !.models =
        <<[Plain EXCEPT !.without = {5}], [Plain EXCEPT !.format = "deepseek"]>>]}
\* Templates whose names differ in case, or hide behind a built-in command; with
\* placeholders in range, out of range and next to the largest integer.
MCPromptNames == <<"Review", "help", "review">>
MCKeyOf == [n \in {"Review", "help", "review"} |-> IF n = "Review" THEN "review" ELSE n]
MCSkillKeyOf == [a |-> "skill:a", b |-> "skill:b"]
MCSkill(n) == [there |-> TRUE, name |-> n, inline |-> TRUE, hidden |-> FALSE,
               valid |-> TRUE, version |-> 0]
MCSkillFiles ==
    {MCSkill("a"), MCSkill("b"), [MCSkill("a") EXCEPT !.hidden = TRUE],
     [MCSkill("a") EXCEPT !.inline = FALSE], [MCSkill("b") EXCEPT !.valid = FALSE],
     [MCSkill("a") EXCEPT !.there = FALSE]}
MCSkillLayouts == {<<MCSkill("a"), f>> : f \in MCSkillFiles}
MCAll == [mark |-> "all", from |-> 1, count |-> 0, text |-> <<>>]
MCSpread == <<[MCAll EXCEPT !.mark = "text", !.text = <<"t">>],
              [MCAll EXCEPT !.mark = "one", !.text = <<"d">>],
              [MCAll EXCEPT !.mark = "rest", !.from = 2]>>
MCBodies ==
    {<<>>, MCSpread, <<MCAll, [MCAll EXCEPT !.mark = "slice", !.from = 2, !.count = 7]>>,
     <<[MCAll EXCEPT !.mark = "one", !.from = 2]>>,
     <<[MCAll EXCEPT !.mark = "slice", !.from = 0, !.count = 1]>>}
MCTemplatesAt(places) ==
    [i \in 1 .. 3 |-> [there |-> i \in places, body |-> IF i \in places THEN MCSpread ELSE <<>>, version |-> 0]]
MCTemplateLayouts ==
    {[global |-> MCTemplatesAt(l[1]), project |-> MCTemplatesAt(l[2])] :
       l \in {<<{1, 2}, {3}>>, <<{3}, {3}>>}}
MCArgLists == {<<>>, <<<<"x">>>>, <<<<" ">>, <<"x", "'">>>>, <<<<>>, <<"x", " ", "\"">>, <<"y">>>>}
=============================================================================
