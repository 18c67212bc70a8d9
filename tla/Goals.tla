-------------------------------- MODULE Goals --------------------------------
(***************************************************************************)
(* The goal of a session: pkg/tools/goal, its tools in                     *)
(* internal/runtime/exec, the /goal command, and the counting of tool      *)
(* rounds.  The manager has no lock.  The UI calls it for /goal; each turn *)
(* calls it from its own goroutine, and a turn the user cancelled may      *)
(* still be inside a call when the UI is idle again.  A call of the        *)
(* manager looks at the goal in one step and changes it in another.        *)
(***************************************************************************)
EXTENDS Naturals, FiniteSets

CONSTANTS
    Turns,     \* bound: turns of the session, some cancelled and still running
    MaxGoals,  \* bound: goals of the session
    MaxTokens  \* bound: what the rounds of a session use together

ASSUME GoalConstants == MaxGoals \in Nat /\ MaxTokens \in Nat

VARIABLES
    goal,        \* m.goal: NoGoal or the goal
    goals,       \* goals created so far
    doing,       \* what the UI and each turn are inside of, see Call
    used,        \* tokens a turn has used: usage in runProviderLoop
    spent,       \* history: tokens used by rounds since the goal was created
    givenUp,     \* history: goals that a replace or a cancel was aimed at
    unfinished,  \* history: goals that went away before they were complete
    goalsRaced,  \* history: the goal changed between the two steps of a call
    panicked     \* a call wrote through the nil pointer

goalVars == <<goal, goals, doing, used, spent, givenUp, unfinished, goalsRaced, panicked>>

NoGoal == [id |-> 0, status |-> "none", turns |-> 0, tokens |-> 0, budget |-> FALSE]
Statuses == {"active", "complete", "paused", "blocked"}
Actors == Turns \cup {"ui"}
Nothing == [op |-> "nothing", seen |-> NoGoal, to |-> "none"]
Call(op, to) == [op |-> op, seen |-> goal, to |-> to]

GoalsInit ==
    /\ goal = NoGoal /\ goals = 0
    /\ doing = [a \in Actors |-> Nothing]
    /\ used = [t \in Turns |-> 0] /\ spent = 0
    /\ givenUp = {} /\ unfinished = {} /\ goalsRaced = FALSE /\ panicked = FALSE

EnterRound(a, call) ==
    /\ ~panicked /\ doing[a] = Nothing
    /\ doing' = [doing EXCEPT ![a] = call]
    /\ UNCHANGED <<goal, goals, used, spent, unfinished, goalsRaced, panicked>>

-----------------------------------------------------------------------------
(* First steps: what a caller and the manager check. *)

\* Faulty variant of MayCreate: any goal may be replaced.
MayCreateAlways(replace) == goals < MaxGoals

MayCreate(replace) ==
    goals < MaxGoals /\ (goal = NoGoal \/ goal.status = "complete" \/ replace)

\* CreateGoal for the tool, "/goal <objective>", "/goal next", "/goal replace";
\* the refusals change nothing.
EnterCreate(a) == \E replace \in BOOLEAN :
    /\ MayCreate(replace)
    /\ EnterRound(a, Call("create", "active"))
    /\ givenUp' = IF replace THEN givenUp \cup {goal.id} ELSE givenUp

\* UpdateGoal: resuming needs a paused goal, the others any.
MayUpdate(status) == goal # NoGoal /\ (status = "active" => goal.status = "paused")

\* "/goal resume" lets a blocked goal pass, the manager then refuses it.
CommandAllows(status) == \/ status = "paused" /\ goal.status = "active"
                         \/ status = "active" /\ goal.status \in {"paused", "blocked"}

EnterUpdate(a) == \E status \in Statuses :
    /\ MayUpdate(status)
    /\ a = "ui" => CommandAllows(status)
    /\ EnterRound(a, Call("update", status))
    /\ UNCHANGED givenUp

EnterCancel ==
    /\ goal # NoGoal
    /\ EnterRound("ui", Call("clear", "none"))
    /\ givenUp' = givenUp \cup {goal.id}

EnterSetBudget(t) == goal # NoGoal /\ EnterRound(t, Call("budget", "none")) /\ UNCHANGED givenUp

\* After a round of tool calls: the tokens of the whole turn so far.
EnterRecordTurn(t) ==
    /\ ~panicked /\ doing[t] = Nothing
    /\ spent < MaxTokens
    /\ used' = [used EXCEPT ![t] = @ + 1]
    /\ spent' = IF goal = NoGoal THEN spent ELSE spent + 1
    /\ doing' = IF goal = NoGoal THEN doing
                ELSE [doing EXCEPT ![t] = Call("record", "none")]
    /\ used[t] < MaxTokens
    /\ UNCHANGED <<goal, goals, givenUp, unfinished, goalsRaced, panicked>>

-----------------------------------------------------------------------------
(* Second steps: the change, to whatever the goal is by then. *)

Overtaken(a) == goal # doing[a].seen

Leave(a) ==
    /\ ~panicked
    /\ doing' = [doing EXCEPT ![a] = Nothing]
    /\ goalsRaced' = (goalsRaced \/ Overtaken(a))
    /\ UNCHANGED <<used, givenUp>>

GoesAway == IF goal = NoGoal \/ goal.status = "complete" THEN unfinished
            ELSE unfinished \cup {goal.id}

Create(a) ==
    /\ doing[a].op = "create" /\ goals < MaxGoals
    /\ Leave(a)
    /\ goals' = goals + 1 /\ spent' = 0
    /\ goal' = [NoGoal EXCEPT !.id = goals + 1, !.status = "active"]
    /\ unfinished' = GoesAway
    /\ UNCHANGED panicked

Clear(a) ==
    /\ doing[a].op = "clear"
    /\ Leave(a)
    /\ goal' = NoGoal /\ spent' = 0
    /\ unfinished' = GoesAway
    /\ UNCHANGED <<goals, panicked>>

\* Faulty variant of Recorded: only the first round of a turn is counted.
RecordedOnce(a, g) == [g EXCEPT !.turns = @ + 1, !.tokens = @ + (IF used[a] = 1 THEN 1 ELSE 0)]

Recorded(a, g) == [g EXCEPT !.turns = @ + 1, !.tokens = @ + used[a]]

Change(a) ==
    /\ doing[a].op \in {"update", "budget", "record"}
    /\ Leave(a)
    /\ IF goal = NoGoal THEN panicked' = TRUE /\ UNCHANGED goal
       ELSE /\ goal' = CASE doing[a].op = "update" -> [goal EXCEPT !.status = doing[a].to]
                         [] doing[a].op = "budget" -> [goal EXCEPT !.budget = TRUE]
                         [] OTHER -> Recorded(a, goal)
            /\ UNCHANGED panicked
    /\ UNCHANGED <<goals, spent, unfinished>>

GoalsNext ==
    \/ EnterCancel
    \/ \E t \in Turns : EnterSetBudget(t) \/ EnterRecordTurn(t)
    \/ \E a \in Actors : EnterCreate(a) \/ EnterUpdate(a) \/ Create(a) \/ Clear(a) \/ Change(a)

GoalsSpec == GoalsInit /\ [][GoalsNext]_goalVars

-----------------------------------------------------------------------------
\* Between callers that do not overtake each other: a goal that is not
\* complete goes away only when a replace or a cancel is aimed at it, the
\* tokens of every round since it was set are counted (more than once, as the
\* total of a turn is added after each of its rounds), and no call finds its
\* goal gone.
GoalKept ==
    \/ goalsRaced
    \/ /\ unfinished \subseteq givenUp
       /\ ~panicked
       /\ \/ \E t \in Turns : doing[t].op = "record"
          \/ goal.tokens >= spent
=============================================================================
