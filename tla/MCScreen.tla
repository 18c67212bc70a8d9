------------------------------ MODULE MCScreen ------------------------------
(***************************************************************************)
(* Instances of the screen for TLC.                                        *)
(***************************************************************************)
EXTENDS ScreenProps

\* Activities that can disturb each other, two at a time.
Combinations ==
    {{"shell", x} : x \in {"sync", "noModel", "ctrlC"}}
      \cup {{"markup", x} : x \in {"commit", "sync", "report", "ctrlC"}}
      \cup {{"call", x} : x \in {"sync", "ctrlC", "report"}}
      \cup {{"commit", x} : x \in {"ctrlC", "noModel", "sync"}}
      \cup {{"template", x} : x \in {"commit", "shell"}}
NoticeOnly == {{"ctrlC"}}
CommitAndTemplate == {{"commit", "template"}}
=============================================================================
