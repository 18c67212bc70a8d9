---------------------------- MODULE ScreenProps ----------------------------
(***************************************************************************)
(* The correctness properties of the screen.  Several hold only as long as *)
(* a known mishap of the code has not happened; the history variables say  *)
(* which one.                                                              *)
(***************************************************************************)
EXTENDS Screen, FiniteSets

Owner(f) == IF list[f] > Len(list.msgs) THEN <<"nothing", 0>> ELSE list.msgs[list[f]].own

\* While no removal has moved a message under a live index, every live index
\* names the message it was made for, whatever was appended and removed in
\* between, and the UI never indexes outside of the list.
\* (agent.go:100-190, 285-300, 448-479, agent_native.go:160-176, shell.go:100-105)
IndexesExact ==
    ~list.shifted =>
      /\ busy /\ list.think # 0 => Owner("think") = <<"thinking", turn>>
      /\ busy /\ list.resp # 0 => Owner("resp") = <<"ai", turn>>
      /\ busy /\ call = "running" => Owner("tool") = <<"tool", turn>>
      /\ shell.running => Owner("shell") = <<"shell", shell.command>>
      /\ list.notice # 0 => Owner("notice") = <<"notice", 0>>
      /\ ~list.crashed

\* No message shows a text that was meant for another one, as long as no
\* index was moved; but the first message may fall to the models sync status.
\* (agent.go:268-300, 440-480, models_sync.go:250-262)
TextFromOwner ==
    ~list.shifted =>
      \A i \in 1..Len(list.msgs) :
        \/ list.msgs[i].writer = list.msgs[i].own
        \/ i = 1 /\ list.msgs[i].writer = <<"sync", 0>>

Count(k) == Cardinality({i \in 1..Len(list.msgs) : list.msgs[i].own[1] = k})

\* What the user wrote, the boxes of tools and shell commands and the record
\* of a commit never leave the list.  (agent_toolcall.go:105-112,
\* update.go:592-599)
RecordsKept ==
    [][~list'.shifted =>
         \A k \in {"user", "tool", "shell", "request", "commit"} :
           Count(k)' >= Count(k)]_vars

\* A session that never refused /commit for want of a model has its own
\* system prompt back whenever no turn runs, and lends the prompt of /commit
\* to the turn of /commit only; only the response of such a turn is committed;
\* both unless the turn was replaced.
\* (input.go:170-190, state.go:63-68, agent.go:167-172, 320-339)
CommitSettled ==
    /\ "refused" \notin mishaps =>
        /\ ~busy => prompt = "project" /\ saved = "none"
        /\ prompt = "commit" => turn \in commitTurns \/ "replaced" \in mishaps
    /\ "replaced" \notin mishaps =>
        /\ committed \subseteq commitTurns
        /\ commitDir => busy /\ turn \in commitTurns

\* A command shown as running will be reported as ended, because its runner
\* runs or its result is posted, and it never waits for room in a channel that
\* nobody reads; both unless a dialog has swallowed the message.
\* (shell.go:107-128, 211-270, update.go:84-89)
CommandReported ==
    /\ shell.running => shell.alive \/ shell.posted \/ "shellDone" \in mishaps
    /\ shell.waiting /\ ~shell.cancelled
         => shell.reader # "none" \/ "shellOutput" \in mishaps

\* Only what a turn of /commit answered becomes a commit, as the comment at
\* agent.go:319 says: "If this was a /commit turn, pipe the response into git
\* commit."
OnlyCommitsCommit == committed \subseteq commitTurns

\* The UI never indexes outside of the message list.  (agent.go:477-479)
NoCrash == ~list.crashed
=============================================================================
