--------------------------- MODULE RuntimeProofs ----------------------------
(***************************************************************************)
(* What runs beside the turn loop: shell commands, goals and file tools,   *)
(* and what the turn loop asks: the providers and the choice of the model. *)
(***************************************************************************)
EXTENDS ShellRunner, Goals, FileTools, ProviderStream, ModelChoice, ModelPicker, ListFacts,
        FiniteSetTheorems, SequenceTheorems, TLAPS

-----------------------------------------------------------------------------
(***************************************************************************)
(* Any number of commands that compete for any number of terminals return  *)
(* their tokens, report what became of their process, and leave no         *)
(* goroutine behind.                                                       *)
(***************************************************************************)

ShellTypes ==
    /\ at \in [Commands -> {"new", "acquire", "start", "select", "killed", "exited", "done"}]
    /\ ptys \in Nat
    /\ context \in [Commands -> {"live", "cancelled", "expired"}]
    /\ process \in [Commands -> {"none", "running", "ok", "failed", "killed"}]
    /\ behind \in [Commands -> BOOLEAN]
    /\ open \in [Commands -> BOOLEAN]
    /\ reader \in [Commands -> {"none", "read", "deliver", "done"}]
    /\ outcome \in [Commands -> {"none", "ok", "exit", "error", "cancelled"}]

\* Where a command is says what its process and its reader may be.
PlaceInv == \A c \in Commands :
    /\ at[c] \in {"new", "acquire", "start"} => process[c] = "none" /\ reader[c] = "none"
    /\ at[c] = "select" => /\ process[c] \in {"running", "ok", "failed"}
                           /\ reader[c] \in {"read", "deliver"} /\ open[c]
    /\ at[c] = "killed" => process[c] \in {"ok", "failed", "killed"} /\ context[c] # "live"
    /\ at[c] = "exited" => process[c] \in {"ok", "failed"}

ShellInv == ShellTypes /\ PlaceInv /\ ShellOutcome

-----------------------------------------------------------------------------
(***************************************************************************)
(* A command that stays on its side of the semaphore changes no count.     *)
(***************************************************************************)
LEMMA StaysOnItsSide ==
  ASSUME ShellInv, NEW c \in Commands, ptys' = ptys,
         \A d \in Commands : d # c => at'[d] = at[d],
         (at'[c] \in {"new", "acquire", "done"}) <=> (at[c] \in {"new", "acquire", "done"})
  PROVE  SlotsConserved'
<1>1. Holding' = Holding
  BY DEF Holding
<1> QED BY <1>1 DEF ShellInv, ShellOutcome, SlotsConserved

(***************************************************************************)
(* The commands that hold a token are finitely many.                       *)
(***************************************************************************)
LEMMA HoldingFinite == IsFiniteSet(Holding)
BY ShellConstants, FS_Subset DEF Holding

(***************************************************************************)
(* A return gives the token back (shell.go: the deferred receive).         *)
(***************************************************************************)
LEMMA ReturnGivesBack ==
  ASSUME ShellInv, NEW c \in Commands, c \in Holding, NEW how, Return(c, how)
  PROVE  SlotsConserved'
<1>1. Holding' = Holding \ {c}
  BY DEF Holding, Return, ShellInv, ShellTypes
<1>2. Cardinality(Holding \ {c}) = Cardinality(Holding) - 1
  BY HoldingFinite, FS_RemoveElement
<1>3. ptys' = ptys - 1
  BY DEF Return
<1> QED BY <1>1, <1>2, <1>3, ShellConstants DEF ShellInv, ShellTypes, ShellOutcome, SlotsConserved

(***************************************************************************)
(* A command takes its token when there is one (shell.go: ptySema).        *)
(***************************************************************************)
LEMMA AcquireTakesOne ==
  ASSUME ShellInv, NEW c \in Commands, AcquirePty(c)
  PROVE  SlotsConserved'
<1>1. Holding' = Holding \cup {c} /\ c \notin Holding
  BY DEF Holding, AcquirePty, ShellInv, ShellTypes
<1>2. Cardinality(Holding \cup {c}) = Cardinality(Holding) + 1
  BY <1>1, HoldingFinite, FS_AddElement
<1>3. ptys' = ptys + 1 /\ ptys < PtySlots
  BY DEF AcquirePty
<1> QED BY <1>1, <1>2, <1>3, ShellConstants DEF ShellInv, ShellTypes, ShellOutcome, SlotsConserved

\* A holder has a token to give back.
LEMMA HolderHasToken ==
  ASSUME ShellInv, NEW c \in Commands, c \in Holding
  PROVE  ptys - 1 \in Nat
<1>1. Cardinality(Holding) \in Nat
  BY HoldingFinite, FS_CardinalityType
<1>2. Cardinality(Holding) # 0
  BY HoldingFinite, FS_EmptySet
<1> QED BY <1>1, <1>2 DEF ShellInv, ShellOutcome, SlotsConserved

-----------------------------------------------------------------------------
\* No command holds a slot at first.
LEMMA ShellInitially == ShellRunnerInit => ShellInv
<1> SUFFICES ASSUME ShellRunnerInit PROVE ShellInv
  OBVIOUS
<1>1. ShellTypes /\ PlaceInv /\ KilledNeverSucceeds /\ NothingLeftBehind
  BY DEF ShellRunnerInit, ShellTypes, PlaceInv, KilledNeverSucceeds, NothingLeftBehind
<1>2. SlotsConserved
  <2>1. Holding = {}
    BY DEF ShellRunnerInit, Holding
  <2> QED BY <2>1, FS_EmptySet, ShellConstants DEF ShellRunnerInit, SlotsConserved
<1> QED BY <1>1, <1>2 DEF ShellInv, ShellOutcome

\* Every step of every command keeps the invariant.
LEMMA ShellStep == ShellInv /\ [ShellRunnerNext]_shellRunnerVars => ShellInv'
<1> SUFFICES ASSUME ShellInv, [ShellRunnerNext]_shellRunnerVars PROVE ShellInv'
  OBVIOUS
<1> DEFINE Rest == ShellTypes /\ PlaceInv /\ KilledNeverSucceeds /\ NothingLeftBehind
<1>a. Rest /\ SlotsConserved
  BY DEF ShellInv, ShellOutcome
<1>b. SUFFICES Rest' /\ SlotsConserved'
  BY DEF ShellInv, ShellOutcome
<1> USE DEF ShellTypes, PlaceInv, KilledNeverSucceeds, NothingLeftBehind
<1>1. CASE UNCHANGED shellRunnerVars
  BY <1>1, <1>a DEF shellRunnerVars, SlotsConserved, Holding
<1>2. ASSUME NEW c \in Commands, RefuseCommand(c) PROVE Rest' /\ SlotsConserved'
  <2>1. Rest'
    BY <1>2, <1>a DEF RefuseCommand
  <2>2. SlotsConserved'
    BY <1>2, <1>a, StaysOnItsSide DEF RefuseCommand
  <2> QED BY <2>1, <2>2
<1>3. ASSUME NEW c \in Commands, EnterRunner(c) PROVE Rest' /\ SlotsConserved'
  <2>1. Rest'
    BY <1>3, <1>a DEF EnterRunner
  <2>2. SlotsConserved'
    BY <1>3, <1>a, StaysOnItsSide DEF EnterRunner
  <2> QED BY <2>1, <2>2
<1>4. ASSUME NEW c \in Commands, AcquirePty(c) PROVE Rest' /\ SlotsConserved'
  <2>1. Rest'
    BY <1>4, <1>a DEF AcquirePty
  <2> QED BY <2>1, <1>4, AcquireTakesOne
<1>5. ASSUME NEW c \in Commands, StartFails(c) PROVE Rest' /\ SlotsConserved'
  <2>1. c \in Holding
    BY <1>5 DEF StartFails, Holding
  <2>2. PICK how \in {"error", "cancelled"} : Return(c, how)
    BY <1>5 DEF StartFails
  <2>3. Rest'
    BY <1>5, <1>a, <2>1, <2>2, HolderHasToken DEF StartFails, Return
  <2> QED BY <2>1, <2>2, <2>3, ReturnGivesBack
<1>6. ASSUME NEW c \in Commands, Started(c) PROVE Rest' /\ SlotsConserved'
  <2>1. Rest'
    BY <1>6, <1>a DEF Started
  <2>2. SlotsConserved'
    BY <1>6, <1>a, StaysOnItsSide DEF Started
  <2> QED BY <2>1, <2>2
<1>7. ASSUME NEW c \in Commands, ContextDone(c) PROVE Rest' /\ SlotsConserved'
  <2>1. Rest'
    BY <1>7, <1>a DEF ContextDone
  <2>2. SlotsConserved'
    BY <1>7, StaysOnItsSide DEF ContextDone
  <2> QED BY <2>1, <2>2
<1>8. ASSUME NEW c \in Commands, ProcessEnds(c) \/ BackgroundEnds(c)
      PROVE  Rest' /\ SlotsConserved'
  <2>1. CASE ProcessEnds(c)
    <3>1. Rest'
      BY <2>1, <1>a DEF ProcessEnds
    <3>2. SlotsConserved'
      BY <2>1, StaysOnItsSide DEF ProcessEnds
    <3> QED BY <3>1, <3>2
  <2>2. CASE BackgroundEnds(c)
    <3>1. Rest'
      BY <2>2, <1>a DEF BackgroundEnds
    <3>2. SlotsConserved'
      BY <2>2, StaysOnItsSide DEF BackgroundEnds
    <3> QED BY <3>1, <3>2
  <2> QED BY <1>8, <2>1, <2>2
<1>9. ASSUME NEW c \in Commands, ReadChunk(c) \/ Delivered(c) \/ ReadEnds(c)
      PROVE  Rest' /\ SlotsConserved'
  <2>1. CASE ReadChunk(c)
    <3>1. Rest'
      BY <2>1, <1>a DEF ReadChunk
    <3>2. SlotsConserved'
      BY <2>1, StaysOnItsSide DEF ReadChunk
    <3> QED BY <3>1, <3>2
  <2>2. CASE Delivered(c)
    <3>1. Rest'
      BY <2>2, <1>a DEF Delivered
    <3>2. SlotsConserved'
      BY <2>2, StaysOnItsSide DEF Delivered
    <3> QED BY <3>1, <3>2
  <2>3. CASE ReadEnds(c)
    <3>1. Rest'
      BY <2>3, <1>a DEF ReadEnds
    <3>2. SlotsConserved'
      BY <2>3, StaysOnItsSide DEF ReadEnds
    <3> QED BY <3>1, <3>2
  <2> QED BY <1>9, <2>1, <2>2, <2>3
<1>10. ASSUME NEW c \in Commands, SelectContext(c) PROVE Rest' /\ SlotsConserved'
  <2>1. Rest'
    BY <1>10, <1>a DEF SelectContext
  <2>2. SlotsConserved'
    BY <1>10, <1>a, StaysOnItsSide DEF SelectContext
  <2> QED BY <2>1, <2>2
<1>11. ASSUME NEW c \in Commands, SelectExit(c) PROVE Rest' /\ SlotsConserved'
  <2>1. Rest'
    BY <1>11, <1>a DEF SelectExit
  <2>2. SlotsConserved'
    BY <1>11, <1>a, StaysOnItsSide DEF SelectExit
  <2> QED BY <2>1, <2>2
<1>12. ASSUME NEW c \in Commands, CommandReturns(c) PROVE Rest' /\ SlotsConserved'
  <2>1. c \in Holding
    BY <1>12 DEF CommandReturns, Holding
  <2>2. Rest'
    BY <1>12, <1>a, <2>1, HolderHasToken DEF CommandReturns, Return, IsCancelled
  <2>3. SlotsConserved'
    BY <1>12, <2>1, ReturnGivesBack DEF CommandReturns
  <2> QED BY <2>2, <2>3
<1> QED BY <1>1, <1>2, <1>3, <1>4, <1>5, <1>6, <1>7, <1>8, <1>9, <1>10, <1>11, <1>12
        DEF ShellRunnerNext

(***************************************************************************)
(* Every token of ptySema belongs to a command inside the runner, a killed *)
(* command never looks like one that succeeded, and no goroutine outlives  *)
(* the result (internal/runtime/shell/shell.go).                           *)
(***************************************************************************)
THEOREM ShellKeepsOutcome == ShellRunnerSpec => []ShellOutcome
<1>1. ShellInv => ShellOutcome
  BY DEF ShellInv
<1> QED BY <1>1, ShellInitially, ShellStep, PTL DEF ShellRunnerSpec

-----------------------------------------------------------------------------
(***************************************************************************)
(* For any number of turns, goals and tokens: as long as no two calls of   *)
(* the manager overtake each other, a goal goes away only when somebody    *)
(* meant it to, and every round is counted.                                *)
(***************************************************************************)

GoalRecord == [id : Nat, status : Statuses \cup {"none"}, turns : Nat, tokens : Nat,
               budget : BOOLEAN]
CallRecord == [op : {"nothing", "create", "clear", "update", "budget", "record"},
               seen : GoalRecord, to : Statuses \cup {"none"}]

GoalTypes ==
    /\ goal \in GoalRecord /\ goals \in Nat
    /\ doing \in [Actors -> CallRecord]
    /\ used \in [Turns -> Nat] /\ spent \in Nat
    /\ goal.id <= goals /\ (goal.id = 0 => goal = NoGoal)

\* The goal a call has looked at is an older state of this goal, or another
\* goal, and the call was allowed for it.
SeenInv == \A a \in Actors :
    LET seen == doing[a].seen IN
    /\ seen.id <= goals /\ (seen.id = 0 => seen = NoGoal)
    /\ seen.id = goal.id => seen.turns <= goal.turns
    /\ doing[a].op = "create" => seen = NoGoal \/ seen.status = "complete" \/ seen.id \in givenUp
    /\ doing[a].op = "clear" => seen.id \in givenUp
    /\ doing[a].op \in {"update", "budget", "record"} => seen # NoGoal
    /\ doing[a].op = "record" => a \in Turns

Recording == {t \in Turns : doing[t].op = "record"}

\* A turn that is alone in counting a round, and counts it for the goal as it
\* is, will make up for what is missing.
Counting ==
    /\ Recording # {} \/ goal.tokens >= spent
    /\ \A t \in Recording :
         Recording = {t} /\ doing[t].seen.id = goal.id /\ doing[t].seen.turns = goal.turns
           => spent <= goal.tokens + used[t]

Kept == unfinished \subseteq givenUp /\ ~panicked /\ Counting

GoalInv == GoalTypes /\ SeenInv /\ (goalsRaced \/ Kept)

-----------------------------------------------------------------------------
(***************************************************************************)
(* The nil goal, and being inside of no call.                              *)
(***************************************************************************)
LEMMA NoGoalTyped ==
  /\ NoGoal \in GoalRecord /\ NoGoal.id = 0 /\ NoGoal.turns = 0 /\ NoGoal.tokens = 0
  /\ Nothing \in CallRecord /\ Nothing.op = "nothing" /\ Nothing.seen = NoGoal
<1>1. NoGoal \in GoalRecord /\ NoGoal.id = 0 /\ NoGoal.turns = 0 /\ NoGoal.tokens = 0
  BY DEF NoGoal, GoalRecord
<1>2. Nothing \in CallRecord /\ Nothing.op = "nothing" /\ Nothing.seen = NoGoal
  BY <1>1 DEF Nothing, CallRecord
<1> QED BY <1>1, <1>2

(***************************************************************************)
(* The fields of a goal and of a call.                                     *)
(***************************************************************************)
LEMMA RecordFacts ==
  /\ \A g \in GoalRecord : g.id \in Nat /\ g.turns \in Nat /\ g.tokens \in Nat
  /\ \A c \in CallRecord : c.seen \in GoalRecord
  /\ \A g \in GoalRecord, o \in {"create", "clear", "update", "budget", "record"},
        s \in Statuses \cup {"none"} : [op |-> o, seen |-> g, to |-> s] \in CallRecord
BY DEF GoalRecord, CallRecord

\* There is no goal at first.
LEMMA GoalInitially == GoalsInit => GoalInv
<1> SUFFICES ASSUME GoalsInit PROVE GoalInv
  OBVIOUS
<1> USE NoGoalTyped DEF GoalsInit
<1>1. GoalTypes
  BY DEF GoalTypes
<1>2. SeenInv
  BY DEF SeenInv
<1>3. Kept
  BY DEF Kept, Counting, Recording, Actors
<1> QED BY <1>1, <1>2, <1>3 DEF GoalInv

(***************************************************************************)
(* A first step other than that of RecordTurn changes nothing but what the *)
(* caller is inside of, and what replaces and cancels are aimed at.        *)
(***************************************************************************)
LEMMA EnterKeeps ==
  ASSUME GoalInv, NEW a \in Actors,
         NEW op \in {"create", "clear", "update", "budget"},
         NEW to \in Statuses \cup {"none"},
         EnterRound(a, Call(op, to)),
         givenUp \subseteq givenUp',
         op = "create" => goal = NoGoal \/ goal.status = "complete" \/ goal.id \in givenUp',
         op = "clear" => goal.id \in givenUp',
         op \in {"update", "budget"} => goal # NoGoal
  PROVE  GoalInv'
<1>1. /\ doing' = [doing EXCEPT ![a] = [op |-> op, seen |-> goal, to |-> to]]
      /\ doing[a] = Nothing
      /\ UNCHANGED <<goal, goals, used, spent, unfinished, goalsRaced, panicked>>
  BY DEF EnterRound, Call
<1>2. GoalTypes'
  <2>1. [op |-> op, seen |-> goal, to |-> to] \in CallRecord
    BY RecordFacts DEF GoalInv, GoalTypes
  <2>2. doing' \in [Actors -> CallRecord]
    BY <1>1, <2>1 DEF GoalInv, GoalTypes
  <2> QED BY <1>1, <2>2 DEF GoalInv, GoalTypes
<1>3. SeenInv'
  BY <1>1, RecordFacts DEF GoalInv, GoalTypes, SeenInv
<1>4. Recording' = Recording /\ \A t \in Recording : doing'[t] = doing[t]
  BY <1>1 DEF GoalInv, GoalTypes, Recording, Nothing, Actors
<1>5. Kept => Kept'
  BY <1>1, <1>4 DEF Kept, Counting
<1> QED BY <1>1, <1>2, <1>3, <1>5 DEF GoalInv

\* A turn that begins to count a round has read the goal of that moment.  (goal.go:166-172)
LEMMA EnterRecordKeeps ==
  ASSUME GoalInv, NEW t \in Turns, EnterRecordTurn(t)
  PROVE  GoalInv'
<1>1. CASE goal = NoGoal
  <2>1. /\ used' = [used EXCEPT ![t] = @ + 1]
        /\ UNCHANGED <<goal, goals, doing, spent, givenUp, unfinished, goalsRaced, panicked>>
    BY <1>1 DEF EnterRecordTurn
  <2>2. GoalTypes' /\ SeenInv'
    BY <2>1 DEF GoalInv, GoalTypes, SeenInv
  <2>3. Recording' = Recording /\ \A u \in Turns : used'[u] >= used[u] /\ used[u] \in Nat /\ used'[u] \in Nat
    BY <2>1 DEF Recording, GoalInv, GoalTypes
  <2>4. Kept => Kept'
    BY <2>1, <2>3 DEF Kept, Counting, GoalInv, GoalTypes, GoalRecord, Recording
  <2> QED BY <2>1, <2>2, <2>4 DEF GoalInv
<1>2. CASE goal # NoGoal
  <2>1. /\ used' = [used EXCEPT ![t] = @ + 1]
        /\ spent' = spent + 1
        /\ doing[t] = Nothing
        /\ doing' = [doing EXCEPT ![t] = [op |-> "record", seen |-> goal, to |-> "none"]]
        /\ UNCHANGED <<goal, goals, givenUp, unfinished, goalsRaced, panicked>>
    BY <1>2 DEF EnterRecordTurn, Call
  <2>2. t \in Actors
    BY DEF Actors
  <2>3. GoalTypes'
    <3>1. [op |-> "record", seen |-> goal, to |-> "none"] \in CallRecord
      BY RecordFacts DEF GoalInv, GoalTypes
    <3>2. doing' \in [Actors -> CallRecord]
      BY <2>1, <3>1 DEF GoalInv, GoalTypes
    <3>3. used' \in [Turns -> Nat] /\ spent' \in Nat
      BY <2>1 DEF GoalInv, GoalTypes
    <3> QED BY <2>1, <3>2, <3>3 DEF GoalInv, GoalTypes
  <2>4. SeenInv'
    BY <1>2, <2>1, <2>2, RecordFacts DEF GoalInv, GoalTypes, SeenInv
  <2>5. Recording' = Recording \cup {t} /\ t \notin Recording
    BY <2>1 DEF Recording, GoalInv, GoalTypes, Nothing, Actors
  <2>6. Kept => Counting'
    <3> SUFFICES ASSUME Kept, NEW u \in Recording', Recording' = {u}
                 PROVE  spent' <= goal'.tokens + used'[u]
      BY <2>5 DEF Counting
    <3>1. u = t /\ Recording = {}
      BY <2>5
    <3>2. goal.tokens >= spent
      BY <3>1 DEF Kept, Counting
    <3>3. used[t] \in Nat /\ used'[t] = used[t] + 1 /\ spent \in Nat /\ goal.tokens \in Nat
      BY <2>1 DEF GoalInv, GoalTypes, GoalRecord
    <3> QED BY <2>1, <3>1, <3>2, <3>3
  <2>7. Kept => Kept'
    BY <2>1, <2>6 DEF Kept
  <2> QED BY <2>1, <2>3, <2>4, <2>7 DEF GoalInv
<1> QED BY <1>1, <1>2

-----------------------------------------------------------------------------
(***************************************************************************)
(* Whatever a second step makes of the goal, what the others have looked   *)
(* at stays older than the goal or another one.                            *)
(***************************************************************************)
LEMMA SeenStaysOlder ==
  ASSUME GoalInv, NEW a \in Actors, Leave(a),
         goal' \in GoalRecord, goals' \in Nat, spent' \in Nat, goals <= goals',
         goal'.id <= goals', goal'.id = 0 => goal' = NoGoal,
         \/ goal'.id = goal.id /\ goal.turns <= goal'.turns
         \/ goal'.id > goals
         \/ goal' = NoGoal
  PROVE  GoalTypes' /\ SeenInv'
<1>1. doing' = [doing EXCEPT ![a] = Nothing] /\ UNCHANGED <<used, givenUp>>
  BY DEF Leave
<1>2. GoalTypes'
  <2>1. doing' \in [Actors -> CallRecord]
    BY <1>1, NoGoalTyped DEF GoalInv, GoalTypes
  <2> QED BY <1>1, <2>1 DEF GoalInv, GoalTypes
<1>3. SeenInv'
  <2> SUFFICES ASSUME NEW b \in Actors
               PROVE  LET seen == doing'[b].seen IN
                        /\ seen.id <= goals' /\ (seen.id = 0 => seen = NoGoal)
                        /\ seen.id = goal'.id => seen.turns <= goal'.turns
                        /\ doing'[b].op = "create" =>
                             seen = NoGoal \/ seen.status = "complete" \/ seen.id \in givenUp'
                        /\ doing'[b].op = "clear" => seen.id \in givenUp'
                        /\ doing'[b].op \in {"update", "budget", "record"} => seen # NoGoal
                        /\ doing'[b].op = "record" => b \in Turns
    BY DEF SeenInv
  <2>1. CASE b = a
    <3>1. doing'[b] = Nothing
      BY <2>1, <1>1 DEF GoalInv, GoalTypes
    <3> QED BY <3>1, NoGoalTyped, RecordFacts
  <2>2. CASE b # a
    <3>1. doing'[b] = doing[b] /\ doing[b].seen \in GoalRecord
      BY <2>2, <1>1, RecordFacts DEF GoalInv, GoalTypes
    <3>2. /\ doing[b].seen.id <= goals
          /\ doing[b].seen.id = 0 => doing[b].seen = NoGoal
          /\ doing[b].seen.id = goal.id => doing[b].seen.turns <= goal.turns
      BY DEF GoalInv, SeenInv
    <3>3. doing[b].seen.id <= goals'
      BY <3>1, <3>2, RecordFacts DEF GoalInv, GoalTypes
    <3>4. doing[b].seen.id = goal'.id => doing[b].seen.turns <= goal'.turns
      BY <3>1, <3>2, RecordFacts, NoGoalTyped DEF GoalInv, GoalTypes
    <3> QED BY <1>1, <3>1, <3>2, <3>3, <3>4 DEF GoalInv, SeenInv
  <2> QED BY <2>1, <2>2
<1> QED BY <1>2, <1>3

\* A new goal has counted nothing and nothing has been spent for it.  (goal.go:128-150)
LEMMA CreateKeeps ==
  ASSUME GoalInv, NEW a \in Actors, Create(a)
  PROVE  GoalInv'
<1>1. /\ goals' = goals + 1 /\ spent' = 0
      /\ goal' = [id |-> goals + 1, status |-> "active", turns |-> 0, tokens |-> 0, budget |-> FALSE]
      /\ unfinished' = GoesAway /\ UNCHANGED panicked /\ doing[a].op = "create" /\ Leave(a)
  BY DEF Create, NoGoal
<1>2. goals \in Nat
  BY DEF GoalInv, GoalTypes
<1>3. goal' \in GoalRecord /\ goal'.id = goals + 1 /\ goal'.tokens = 0
  BY <1>1, <1>2 DEF GoalRecord, Statuses
<1>4. GoalTypes' /\ SeenInv'
  <2>1. goals' \in Nat /\ spent' \in Nat /\ goals <= goals' /\ goal'.id <= goals'
        /\ goal'.id > goals /\ goal'.id # 0
    BY <1>1, <1>2, <1>3
  <2> QED BY <1>1, <1>3, <2>1, SeenStaysOlder
<1>5. ASSUME ~goalsRaced' PROVE Kept'
  <2>1. ~goalsRaced /\ goal = doing[a].seen /\ givenUp' = givenUp /\ used' = used
    BY <1>1, <1>5 DEF Leave, Overtaken
  <2>2. unfinished' \subseteq givenUp'
    BY <1>1, <2>1 DEF GoesAway, Kept, GoalInv, SeenInv
  <2>3. Counting'
    <3>1. \A t \in Recording' : used'[t] \in Nat
      BY <2>1 DEF Recording, GoalInv, GoalTypes
    <3> QED BY <1>1, <1>3, <3>1 DEF Counting
  <2> QED BY <1>1, <2>1, <2>2, <2>3 DEF Kept, GoalInv
<1> QED BY <1>4, <1>5 DEF GoalInv

\* A goal that goes away leaves nothing to count.
LEMMA ClearKeeps ==
  ASSUME GoalInv, NEW a \in Actors, Clear(a)
  PROVE  GoalInv'
<1>1. /\ goal' = NoGoal /\ spent' = 0 /\ unfinished' = GoesAway
      /\ UNCHANGED <<goals, panicked>> /\ doing[a].op = "clear" /\ Leave(a)
  BY DEF Clear
<1>2. goals \in Nat
  BY DEF GoalInv, GoalTypes
<1>3. GoalTypes' /\ SeenInv'
  BY <1>1, <1>2, NoGoalTyped, SeenStaysOlder
<1>4. ASSUME ~goalsRaced' PROVE Kept'
  <2>1. ~goalsRaced /\ goal = doing[a].seen /\ givenUp' = givenUp /\ used' = used
    BY <1>1, <1>4 DEF Leave, Overtaken
  <2>2. unfinished' \subseteq givenUp'
    BY <1>1, <2>1 DEF GoesAway, Kept, GoalInv, SeenInv
  <2>3. Counting'
    <3>1. \A t \in Recording' : used'[t] \in Nat
      BY <2>1 DEF Recording, GoalInv, GoalTypes
    <3> QED BY <1>1, NoGoalTyped, <3>1 DEF Counting
  <2> QED BY <1>1, <2>1, <2>2, <2>3 DEF Kept, GoalInv
<1> QED BY <1>3, <1>4 DEF GoalInv

(***************************************************************************)
(* UpdateGoal and SetGoalBudget change neither the rounds nor the tokens.  *)
(***************************************************************************)
LEMMA UpdateKeeps ==
  ASSUME GoalInv, NEW a \in Actors, doing[a].op \in {"update", "budget"}, Change(a)
  PROVE  GoalInv'
<1>1. /\ Leave(a) /\ UNCHANGED <<goals, spent, unfinished>>
      /\ goal = NoGoal => panicked' = TRUE /\ UNCHANGED goal
      /\ goal # NoGoal =>
           /\ UNCHANGED panicked
           /\ \/ goal' = [goal EXCEPT !.status = doing[a].to]
              \/ goal' = [goal EXCEPT !.budget = TRUE]
  BY DEF Change
<1>2. goal \in GoalRecord /\ doing[a].to \in Statuses \cup {"none"}
  BY DEF GoalInv, GoalTypes, CallRecord
<1>3. goal' \in GoalRecord /\ goal'.id = goal.id /\ goal'.turns = goal.turns /\ goal'.tokens = goal.tokens
  <2>1. CASE UNCHANGED goal
    BY <1>2, <2>1
  <2>2. CASE goal' = [goal EXCEPT !.status = doing[a].to]
    BY <1>2, <2>2 DEF GoalRecord
  <2>3. CASE goal' = [goal EXCEPT !.budget = TRUE]
    BY <1>2, <2>3 DEF GoalRecord
  <2> QED BY <1>1, <2>1, <2>2, <2>3
<1>4. GoalTypes' /\ SeenInv'
  <2>1. goal.id = 0 => goal' = NoGoal
    BY <1>1 DEF GoalInv, GoalTypes
  <2>2. goals \in Nat /\ spent \in Nat /\ goal.id <= goals /\ goal.turns \in Nat
    BY <1>2, RecordFacts DEF GoalInv, GoalTypes
  <2> QED BY <1>1, <1>3, <2>1, <2>2, SeenStaysOlder
<1>5. Recording' = Recording /\ \A t \in Recording : doing'[t] = doing[t]
  BY <1>1, NoGoalTyped DEF Leave, GoalInv, GoalTypes, Recording, Actors
<1>6. ASSUME ~goalsRaced' PROVE Kept'
  <2>1. ~goalsRaced /\ goal = doing[a].seen /\ givenUp' = givenUp /\ used' = used
    BY <1>1, <1>6 DEF Leave, Overtaken
  <2>2. goal # NoGoal
    BY <2>1 DEF GoalInv, SeenInv
  <2>3. Counting
    BY <2>1 DEF GoalInv, Kept
  <2>4. Counting'
    BY <1>1, <1>3, <1>5, <2>1, <2>3 DEF Counting
  <2> QED BY <1>1, <2>1, <2>2, <2>4 DEF Kept, GoalInv
<1> QED BY <1>4, <1>6 DEF GoalInv

(***************************************************************************)
(* RecordTurn counts the round: a second turn that had looked at the goal  *)
(* before no longer finds it as it was.                                    *)
(***************************************************************************)
LEMMA RecordKeeps ==
  ASSUME GoalInv, NEW a \in Actors, doing[a].op = "record", a \in Turns, Change(a)
  PROVE  GoalInv'
<1>1. /\ Leave(a) /\ UNCHANGED <<goals, spent, unfinished>>
      /\ goal = NoGoal => panicked' = TRUE /\ UNCHANGED goal
      /\ goal # NoGoal =>
           /\ UNCHANGED panicked
           /\ goal' = [goal EXCEPT !.turns = @ + 1, !.tokens = @ + used[a]]
  BY DEF Change, Recorded
<1>2. /\ goal \in GoalRecord /\ used[a] \in Nat /\ goals \in Nat /\ spent \in Nat
      /\ goal.id <= goals /\ goal.turns \in Nat /\ goal.tokens \in Nat
  BY RecordFacts DEF GoalInv, GoalTypes
<1>3. /\ goal' \in GoalRecord /\ goal'.id = goal.id /\ goal.turns <= goal'.turns
      /\ goal # NoGoal => goal'.turns = goal.turns + 1 /\ goal'.tokens = goal.tokens + used[a]
  <2>1. CASE UNCHANGED goal /\ goal = NoGoal
    BY <1>2, <2>1
  <2>2. CASE goal' = [goal EXCEPT !.turns = @ + 1, !.tokens = @ + used[a]]
    <3>1. goal' = [id |-> goal.id, status |-> goal.status, turns |-> goal.turns + 1,
                   tokens |-> goal.tokens + used[a], budget |-> goal.budget]
      BY <1>2, <2>2 DEF GoalRecord
    <3>2. goal.turns + 1 \in Nat /\ goal.tokens + used[a] \in Nat /\ goal.turns <= goal.turns + 1
      BY <1>2
    <3>3. goal' \in GoalRecord
      BY <1>2, <3>1, <3>2 DEF GoalRecord
    <3> QED BY <3>1, <3>2, <3>3
  <2> QED BY <1>1, <2>1, <2>2
<1>4. GoalTypes' /\ SeenInv'
  <2>1. goal.id = 0 => goal' = NoGoal
    BY <1>1 DEF GoalInv, GoalTypes
  <2> QED BY <1>1, <1>2, <1>3, <2>1, SeenStaysOlder
<1>5. Recording' = Recording \ {a} /\ \A t \in Recording' : doing'[t] = doing[t]
  BY <1>1, NoGoalTyped DEF Leave, GoalInv, GoalTypes, Recording, Actors
<1>6. ASSUME ~goalsRaced' PROVE Kept'
  <2>1. ~goalsRaced /\ goal = doing[a].seen /\ givenUp' = givenUp /\ used' = used
    BY <1>1, <1>6 DEF Leave, Overtaken
  <2>2. goal # NoGoal /\ Counting
    BY <2>1 DEF GoalInv, SeenInv, Kept
  <2>3. \A t \in Recording' : ~(doing'[t].seen.id = goal'.id /\ doing'[t].seen.turns = goal'.turns)
    <3> SUFFICES ASSUME NEW t \in Recording', doing'[t].seen.id = goal'.id,
                        doing'[t].seen.turns = goal'.turns
                 PROVE  FALSE
      OBVIOUS
    <3>1. t \in Actors /\ doing[t].seen.id = goal.id /\ doing[t].seen.turns = goal.turns + 1
      BY <1>3, <1>5, <2>2 DEF Recording, Actors
    <3>2. doing[t].seen.turns <= goal.turns
      BY <3>1 DEF GoalInv, SeenInv
    <3> QED BY <1>2, <3>1, <3>2
  <2>4. Recording' # {} \/ goal'.tokens >= spent'
    <3> SUFFICES ASSUME Recording' = {} PROVE goal'.tokens >= spent'
      OBVIOUS
    <3>1. Recording = {a}
      BY <1>5 DEF Recording
    <3>2. spent <= goal.tokens + used[a]
      BY <2>1, <2>2, <3>1 DEF Counting
    <3> QED BY <1>1, <1>2, <1>3, <2>2, <3>2
  <2>5. Counting'
    BY <2>3, <2>4 DEF Counting
  <2> QED BY <1>1, <2>1, <2>2, <2>5 DEF Kept, GoalInv
<1> QED BY <1>4, <1>6 DEF GoalInv

-----------------------------------------------------------------------------
\* Every step of agent and user keeps the invariant.
LEMMA GoalStep == GoalInv /\ [GoalsNext]_goalVars => GoalInv'
<1> SUFFICES ASSUME GoalInv, [GoalsNext]_goalVars PROVE GoalInv'
  OBVIOUS
<1>1. CASE UNCHANGED goalVars
  BY <1>1 DEF goalVars, GoalInv, GoalTypes, SeenInv, Kept, Counting, Recording
<1>2. CASE EnterCancel
  BY <1>2, EnterKeeps DEF EnterCancel, Actors
<1>3. ASSUME NEW t \in Turns, EnterSetBudget(t) PROVE GoalInv'
  BY <1>3, EnterKeeps DEF EnterSetBudget, Actors
<1>4. ASSUME NEW t \in Turns, EnterRecordTurn(t) PROVE GoalInv'
  BY <1>4, EnterRecordKeeps
<1>5. ASSUME NEW a \in Actors, EnterCreate(a) PROVE GoalInv'
  <2>1. PICK replace \in BOOLEAN :
          /\ MayCreate(replace) /\ EnterRound(a, Call("create", "active"))
          /\ givenUp' = IF replace THEN givenUp \cup {goal.id} ELSE givenUp
    BY <1>5 DEF EnterCreate
  <2>2. goal = NoGoal \/ goal.status = "complete" \/ goal.id \in givenUp'
    BY <2>1 DEF MayCreate
  <2> QED BY <2>1, <2>2, EnterKeeps DEF Statuses
<1>6. ASSUME NEW a \in Actors, EnterUpdate(a) PROVE GoalInv'
  <2>1. PICK status \in Statuses :
          goal # NoGoal /\ EnterRound(a, Call("update", status)) /\ UNCHANGED givenUp
    BY <1>6 DEF EnterUpdate, MayUpdate
  <2> QED BY <2>1, EnterKeeps
<1>7. ASSUME NEW a \in Actors, Create(a) PROVE GoalInv'
  BY <1>7, CreateKeeps
<1>8. ASSUME NEW a \in Actors, Clear(a) PROVE GoalInv'
  BY <1>8, ClearKeeps
<1>9. ASSUME NEW a \in Actors, Change(a) PROVE GoalInv'
  <2>1. CASE doing[a].op \in {"update", "budget"}
    BY <1>9, <2>1, UpdateKeeps
  <2>2. CASE doing[a].op = "record" /\ a \in Turns
    BY <1>9, <2>2, RecordKeeps
  <2>3. CASE doing[a].op = "record" /\ a \notin Turns
    BY <2>3 DEF Actors, GoalInv, SeenInv
  <2> QED BY <1>9, <2>1, <2>2, <2>3 DEF Change
<1> QED BY <1>1, <1>2, <1>3, <1>4, <1>5, <1>6, <1>7, <1>8, <1>9 DEF GoalsNext

(***************************************************************************)
(* Between callers that do not overtake each other an unfinished goal goes *)
(* away only when a replace or a cancel is aimed at it, every round since  *)
(* it was set is counted, and no call finds its goal gone.  Once a call    *)
(* was overtaken by another, between its check and its change, nothing is  *)
(* said (pkg/tools/goal/goal.go).                                          *)
(***************************************************************************)
THEOREM GoalsStayKept == GoalsSpec => []GoalKept
<1>1. GoalInv => GoalKept
  BY DEF GoalInv, Kept, Counting, Recording, GoalKept
<1> QED BY <1>1, GoalInitially, GoalStep, PTL DEF GoalsSpec

-----------------------------------------------------------------------------
(***************************************************************************)
(* Read, Write and Edit tell the model what happened, for files of any     *)
(* lines and length, and whoever else writes them.                         *)
(***************************************************************************)

FileCalls == ReadCalls \cup AppendCalls \cup WriteCalls \cup EditCalls

FileTypes ==
    /\ content \in Contents \cup {Absent} /\ before \in Contents \cup {Absent}
    /\ toolStep \in {"idle", "begun", "checked", "writing"}
    /\ toolStep # "idle" => call \in FileCalls
    /\ foreign \in BOOLEAN

\* Unless somebody else wrote the file, a call works on what it was when the
\* call began, and writes what follows from that.
WorkInv ==
    /\ toolStep \in {"begun", "checked"} /\ ~foreign => content = before
    /\ toolStep = "checked" =>
         /\ call \in EditCalls /\ held \in Contents /\ Editable(held, call)
         /\ ~foreign => held = before
    /\ toolStep = "writing" =>
         /\ call \in WriteCalls \cup EditCalls /\ held \in Contents
         /\ call \in WriteCalls => held = call.text
         /\ call \in EditCalls /\ ~foreign =>
              /\ before \in Contents /\ Editable(before, call)
              /\ held = Replaced(before, call.old, call.new, call.all)

-----------------------------------------------------------------------------

LEMMA FileBounds == "absent" \notin Lines /\ MaxLines \in Nat
BY FileConstants DEF FileConstants

\* The texts a file may hold are sequences of lines, and its absence is none.
LEMMA TextsOfFiles ==
    /\ Absent \notin Contents /\ <<>> \in Contents
    /\ \A text \in Contents : /\ text \in Seq(Lines) /\ Len(text) \in 0 .. MaxLines
                              /\ text \in [1 .. Len(text) -> Lines]
<1>1. ASSUME NEW text \in Contents
      PROVE  text \in Seq(Lines) /\ Len(text) \in 0 .. MaxLines /\ text \in [1 .. Len(text) -> Lines]
  <2>1. PICK n \in 0 .. MaxLines : text \in [1 .. n -> Lines]
    BY DEF Contents
  <2>2. n \in Nat
    BY <2>1, FileBounds
  <2>3. text \in Seq(Lines) /\ Len(text) = n
    BY <2>1, <2>2
  <2> QED BY <2>1, <2>3
<1>2. Absent \notin Contents
  <2>1. Absent[1] = "absent" /\ Len(Absent) = 1
    BY DEF Absent
  <2>2. ASSUME Absent \in Contents PROVE FALSE
    <3>1. Absent[1] \in Lines
      BY <1>1, <2>1, <2>2
    <3> QED BY <2>1, <3>1, FileBounds
  <2> QED BY <2>2
<1>3. <<>> \in Contents
  <2>1. <<>> \in [1 .. 0 -> Lines]
    OBVIOUS
  <2>2. 0 \in 0 .. MaxLines
    BY FileBounds
  <2> QED BY <2>1, <2>2 DEF Contents
<1> QED BY <1>1, <1>2, <1>3

\* A beginning of a text is one, and so are a text with another added to it and
\* a text with lines replaced.
LEMMA TextsWritten ==
    ASSUME NEW text \in Contents
    PROVE  /\ Beginnings(text) \subseteq Contents
           /\ \A added \in Contents : Len(text) + Len(added) <= MaxLines => text \o added \in Contents
           /\ \A old, new \in Lines, all \in BOOLEAN : Replaced(text, old, new, all) \in Contents
<1>1. text \in Seq(Lines) /\ Len(text) \in 0 .. MaxLines /\ text \in [1 .. Len(text) -> Lines]
  BY TextsOfFiles
<1>2. ASSUME NEW l \in Seq(Lines), Len(l) \in 0 .. MaxLines PROVE l \in Contents
  <2>1. l \in [1 .. Len(l) -> Lines]
    BY <1>2, LenProperties
  <2> QED BY <1>2, <2>1 DEF Contents
<1>3. ASSUME NEW k \in 0 .. Len(text) PROVE SubSeq(text, 1, k) \in Contents
  <2>1. SubSeq(text, 1, k) \in Seq(Lines) /\ Len(SubSeq(text, 1, k)) = k
    BY <1>1, FileBounds
  <2>2. k \in 0 .. MaxLines
    BY <1>1, FileBounds
  <2> QED BY <1>2, <2>1, <2>2
<1>4. ASSUME NEW added \in Contents, Len(text) + Len(added) <= MaxLines PROVE text \o added \in Contents
  <2>1. added \in Seq(Lines) /\ Len(added) \in 0 .. MaxLines
    BY TextsOfFiles
  <2>2. text \o added \in Seq(Lines) /\ Len(text \o added) = Len(text) + Len(added)
    BY <1>1, <2>1, FileBounds
  <2>3. Len(text \o added) \in 0 .. MaxLines
    BY <1>1, <1>4, <2>1, <2>2, FileBounds
  <2> QED BY <1>2, <2>2, <2>3
<1>5. ASSUME NEW old \in Lines, NEW new \in Lines, NEW all \in BOOLEAN
      PROVE  Replaced(text, old, new, all) \in Contents
  <2>1. Replaced(text, old, new, all) \in [1 .. Len(text) -> Lines]
    BY <1>1 DEF Replaced
  <2> QED BY <1>1, <2>1 DEF Contents
<1> QED BY <1>3, <1>4, <1>5 DEF Beginnings

\* The lines asked for are those from a first to a last one, or none.
IsWindow(text, offset, n, from, upto) ==
    /\ from \in Nat \ {0}
    /\ from > Len(text) => WantedLines(text, offset, n) = {}
    /\ from <= Len(text) =>
         /\ upto \in from .. Len(text)
         /\ WantedLines(text, offset, n) = from .. upto

\* The lines asked for are a window of the file.  (execute.go: executeRead)
LEMMA WantedIsWindow ==
    ASSUME NEW S, NEW text \in Seq(S), NEW offset \in Int, offset # 0, NEW n \in Nat,
           NEW from, NEW upto,
           from = LineWindow(text, offset, n).from, upto = LineWindow(text, offset, n).upto
    PROVE  IsWindow(text, offset, n, from, upto)
<1>1. Len(text) \in Nat /\ DOMAIN text = 1 .. Len(text)
  OBVIOUS
<1>2. from = IF offset < 0
             THEN IF Len(text) + offset + 1 < 1 THEN 1 ELSE Len(text) + offset + 1
             ELSE offset
  BY DEF LineWindow
<1>3. upto = IF n > 0 /\ from - 1 + n < Len(text) THEN from - 1 + n ELSE Len(text)
  BY <1>2 DEF LineWindow
<1>4. from \in Nat \ {0} /\ upto \in Int
  BY <1>1, <1>2, <1>3
<1>5. ASSUME NEW j \in Nat \ {0} PROVE InRange(text, offset, j) <=> j >= from
  BY <1>1, <1>2 DEF InRange
<1>6. ASSUME NEW i \in Nat \ {0}, i >= from
      PROVE  Cardinality({j \in 1 .. i : InRange(text, offset, j)}) = i - from + 1
  <2>1. {j \in 1 .. i : InRange(text, offset, j)} = from .. i
    BY <1>4, <1>5, <1>6
  <2>2. Cardinality(from .. i) = i - from + 1
    BY <1>4, <1>6, FS_Interval
  <2> QED BY <2>1, <2>2
<1>7. ASSUME NEW i \in 1 .. Len(text)
      PROVE  i \in WantedLines(text, offset, n) <=> i >= from /\ (n = 0 \/ i - from + 1 <= n)
  BY <1>1, <1>5, <1>6, <1>7 DEF WantedLines
<1>8. WantedLines(text, offset, n) \subseteq 1 .. Len(text)
  BY <1>1 DEF WantedLines
<1>9. from > Len(text) => WantedLines(text, offset, n) = {}
  BY <1>1, <1>4, <1>7, <1>8
<1>10. ASSUME from <= Len(text)
       PROVE  upto \in from .. Len(text) /\ WantedLines(text, offset, n) = from .. upto
  <2>0. upto = IF n > 0 /\ from - 1 + n < Len(text) THEN from - 1 + n ELSE Len(text)
    BY <1>3
  <2>1. upto \in from .. Len(text) /\ (n > 0 => upto <= from - 1 + n)
        /\ (upto = Len(text) \/ (n > 0 /\ upto = from - 1 + n))
    <3>1. CASE n > 0 /\ from - 1 + n < Len(text)
      BY <1>1, <1>4, <2>0, <3>1
    <3>2. CASE ~(n > 0 /\ from - 1 + n < Len(text))
      <4>1. upto = Len(text)
        BY <2>0, <3>2
      <4>2. n > 0 => Len(text) <= from - 1 + n
        BY <1>1, <1>4, <3>2
      <4> QED BY <1>1, <1>4, <1>10, <4>1, <4>2
    <3> QED BY <3>1, <3>2
  <2>2. ASSUME NEW i \in 1 .. Len(text) PROVE i \in WantedLines(text, offset, n) <=> i \in from .. upto
    <3>1. i \in WantedLines(text, offset, n) <=> i >= from /\ (n = 0 \/ i - from + 1 <= n)
      BY <1>7
    <3>2. upto \in Int /\ from \in Int /\ i \in Int /\ i <= Len(text)
      BY <1>4, <1>1
    <3> QED BY <1>1, <2>1, <3>1, <3>2
  <2>3. from .. upto \subseteq 1 .. Len(text)
    BY <1>1, <1>4, <2>1
  <2> QED BY <1>8, <2>1, <2>2, <2>3
<1> QED BY <1>4, <1>9, <1>10 DEF IsWindow

\* A text with one occurrence has its first there.
LEMMA OnlyOccurrence ==
    ASSUME NEW text \in Contents, NEW old \in Lines, Count(text, old) = 1,
           NEW i \in DOMAIN text, text[i] = old
    PROVE  FirstOf(text, old) = i
<1>1. text \in Seq(Lines) /\ Len(text) \in Nat /\ DOMAIN text = 1 .. Len(text)
  BY TextsOfFiles, FileBounds
<1> DEFINE places == {j \in DOMAIN text : text[j] = old}
<1>2. IsFiniteSet(places)
  <2>1. IsFiniteSet(1 .. Len(text))
    BY <1>1, FS_Interval
  <2> QED BY <1>1, <2>1, FS_Subset
<1>3. PICK x : places = {x}
  BY <1>2, FS_Singleton DEF Count
<1>4. \A j \in DOMAIN text : text[j] = old <=> j = i
  BY <1>3
<1>5. \A j \in 1 .. i - 1 : text[j] # old
  BY <1>1, <1>4
<1> QED BY <1>4, <1>5 DEF FirstOf

\* Replacing in an editable text replaces every occurrence.
LEMMA ReplacedEverywhere ==
    ASSUME NEW text \in Contents, NEW c \in EditCalls, Editable(text, c), NEW i \in DOMAIN text
    PROVE  Replaced(text, c.old, c.new, c.all)[i] = IF text[i] = c.old THEN c.new ELSE text[i]
<1>1. c.old \in Lines /\ c.all \in BOOLEAN
  BY DEF EditCalls
<1>2. text[i] = c.old => c.all \/ i = FirstOf(text, c.old)
  BY <1>1, OnlyOccurrence DEF Editable
<1> QED BY <1>2 DEF Replaced

-----------------------------------------------------------------------------

\* The state begins without a file.
LEMMA FileBegin == FileInit => FileTypes /\ WorkInv
BY DEF FileInit, FileTypes, WorkInv

\* Every action keeps the types.
LEMMA FileTypesStep == FileTypes /\ WorkInv /\ [FileNext]_fileVars => FileTypes'
<1> SUFFICES ASSUME FileTypes, WorkInv, [FileNext]_fileVars PROVE FileTypes'
  OBVIOUS
<1> USE DEF Answer, Begun
<1>1. ASSUME NEW c \in FileCalls, Begin(c) PROVE FileTypes'
  BY <1>1 DEF Begin, FileTypes
<1>2. CASE Read
  BY <1>2 DEF Read, FileTypes
<1>3. CASE AppendText
  <2>1. call \in FileCalls /\ call.tool = "append"
    BY <1>3 DEF AppendText, FileTypes
  <2>2. call.text \in Contents
    BY <2>1 DEF FileCalls, ReadCalls, AppendCalls, WriteCalls, EditCalls
  <2>3. Existing(content) \in Contents
    BY TextsOfFiles DEF FileTypes, Existing
  <2>4. /\ \/ content' = content
           \/ \E added \in Beginnings(call.text) :
                Len(Existing(content)) + Len(added) <= MaxLines /\ content' = Existing(content) \o added
        /\ UNCHANGED <<before, foreign>> /\ toolStep' = "idle"
    BY <1>3 DEF AppendText
  <2>5. Beginnings(call.text) \subseteq Contents
    BY <2>2, TextsWritten
  <2>6. content' \in Contents \cup {Absent}
    BY <2>3, <2>4, <2>5, TextsWritten DEF FileTypes
  <2> QED BY <2>4, <2>6 DEF FileTypes
<1>4. CASE Overwrite
  BY <1>4, TextsOfFiles DEF Overwrite, Truncate, FileTypes
<1>5. CASE EditRead
  BY <1>5 DEF EditRead, FileTypes
<1>6. CASE EditWrite
  BY <1>6, TextsOfFiles DEF EditWrite, Truncate, FileTypes
<1>7. CASE WriteRest
  <2>1. /\ content' \in Beginnings(held) /\ toolStep = "writing" /\ toolStep' = "idle"
        /\ UNCHANGED <<before, foreign>>
    BY <1>7 DEF WriteRest
  <2>2. Beginnings(held) \subseteq Contents
    BY <2>1, TextsWritten DEF WorkInv
  <2> QED BY <2>1, <2>2 DEF FileTypes
<1>8. ASSUME NEW text \in Contents \cup {Absent}, ForeignWrite(text) PROVE FileTypes'
  BY <1>8 DEF ForeignWrite, FileTypes
<1>9. CASE UNCHANGED fileVars
  BY <1>9 DEF fileVars, FileTypes
<1> QED BY <1>1, <1>2, <1>3, <1>4, <1>5, <1>6, <1>7, <1>8, <1>9 DEF FileNext, FileCalls

\* Every action keeps what a call works on.
LEMMA WorkStep == FileTypes /\ WorkInv /\ [FileNext]_fileVars => WorkInv'
<1> SUFFICES ASSUME FileTypes, WorkInv, [FileNext]_fileVars PROVE WorkInv'
  OBVIOUS
<1> USE DEF Answer, Begun
<1>1. ASSUME NEW c \in FileCalls, Begin(c) PROVE WorkInv'
  BY <1>1 DEF Begin, WorkInv
<1>2. CASE Read
  BY <1>2 DEF Read, WorkInv
<1>3. CASE AppendText
  BY <1>3 DEF AppendText, WorkInv
<1>4. CASE Overwrite
  <2>1. call \in FileCalls /\ call.tool = "write"
    BY <1>4 DEF Overwrite, FileTypes
  <2>2. call \in WriteCalls /\ call.text \in Contents /\ call \notin EditCalls
    BY <2>1 DEF FileCalls, ReadCalls, AppendCalls, WriteCalls, EditCalls
  <2>3. UNCHANGED call
    BY <1>4 DEF Overwrite, Truncate
  <2>4. \/ toolStep' = "writing" /\ held' = call.text
        \/ toolStep' = "idle"
    BY <1>4 DEF Overwrite, Truncate
  <2> QED BY <2>2, <2>3, <2>4 DEF WorkInv
<1>5. CASE EditRead
  <2>1. call \in FileCalls /\ call.tool = "edit" /\ toolStep = "begun"
    BY <1>5 DEF EditRead, FileTypes
  <2>2. call \in EditCalls
    BY <2>1 DEF FileCalls, ReadCalls, AppendCalls, WriteCalls, EditCalls
  <2>3. CASE Editable(content, call)
    <3>1. content \in Contents
      BY <2>3 DEF Editable, FileTypes
    <3>2. /\ toolStep' = "checked" /\ held' = content
          /\ UNCHANGED <<content, call, foreign, before>>
      BY <1>5, <2>3 DEF EditRead
    <3>3. ~foreign => content = before
      BY <2>1 DEF WorkInv
    <3> QED BY <2>2, <2>3, <3>1, <3>2, <3>3 DEF WorkInv, Editable
  <2>4. CASE ~Editable(content, call)
    BY <1>5, <2>4 DEF EditRead, WorkInv
  <2> QED BY <2>3, <2>4
<1>6. CASE EditWrite
  <2>0. SUFFICES ASSUME toolStep' # "idle" PROVE WorkInv'
    BY DEF WorkInv
  <2>1. /\ toolStep = "checked" /\ toolStep' = "writing"
        /\ held' = Replaced(held, call.old, call.new, call.all)
        /\ UNCHANGED <<call, foreign, before>>
    BY <1>6, <2>0 DEF EditWrite, Truncate
  <2>2. call \in EditCalls /\ held \in Contents /\ Editable(held, call) /\ (~foreign => held = before)
    BY <2>1 DEF WorkInv
  <2>3. held' \in Contents
    BY <2>1, <2>2, TextsWritten DEF EditCalls
  <2>4. Editable(before, call)' = Editable(before, call)
    BY <2>1 DEF Editable
  <2>5. call \notin WriteCalls
    BY <2>2 DEF WriteCalls, EditCalls
  <2> QED BY <2>1, <2>2, <2>3, <2>4, <2>5 DEF WorkInv
<1>7. CASE WriteRest
  BY <1>7 DEF WriteRest, WorkInv
<1>8. ASSUME NEW text \in Contents \cup {Absent}, ForeignWrite(text) PROVE WorkInv'
  BY <1>8 DEF ForeignWrite, WorkInv, Editable
<1>9. CASE UNCHANGED fileVars
  BY <1>9 DEF fileVars, WorkInv, Editable
<1> QED BY <1>1, <1>2, <1>3, <1>4, <1>5, <1>6, <1>7, <1>8, <1>9 DEF FileNext, FileCalls

-----------------------------------------------------------------------------

\* What ToolsHonest says of a step, by the kind of the answer.
FailedHonest ==
    result'.kind = "error" /\ ~foreign =>
        \/ content' = before
        \/ toolStep = "writing" /\ content' \in Beginnings(NewText)
        \/ /\ call.tool = "append"
           /\ \E added \in Beginnings(call.text) : content' = Existing(before) \o added
WriteHonest ==
    result'.kind = "done" /\ ~foreign =>
        /\ call.tool = "append" => content' = Existing(before) \o call.text
        /\ call.tool = "write" => content' = call.text
        /\ call.tool = "edit" =>
            /\ \A i \in DOMAIN before : content'[i] =
                   IF before[i] = call.old THEN call.new ELSE before[i]
            /\ call.all \/ Count(before, call.old) = 1
ReadHonest ==
    call.tool = "read" /\ result'.kind = "read" /\ call.offset # 0 =>
        LET text == SplitLines(content)
            wanted == WantedLines(text, call.offset, call.n)
        IN /\ Len(result'.lines) = Cardinality(wanted)
           /\ \A i \in wanted :
                  result'.lines[Cardinality({j \in wanted : j <= i})] = text[i]
           /\ result'.end = (wanted = {} \/ Len(text) \in wanted)

\* A window of a text shows each of its lines in its place, and it has the last
\* line when it ends with it.  (execute.go: executeRead)
LEMMA WindowShows ==
    ASSUME NEW S, NEW text \in Seq(S), NEW from \in Nat \ {0}, NEW upto \in from .. Len(text)
    PROVE  /\ Len(SubSeq(text, from, upto)) = Cardinality(from .. upto)
           /\ \A i \in from .. upto :
                  SubSeq(text, from, upto)[Cardinality({j \in from .. upto : j <= i})] = text[i]
           /\ from .. upto # {} /\ (upto = Len(text) <=> Len(text) \in from .. upto)
<1>1. from \in Int /\ upto \in Int /\ from <= upto /\ Len(text) \in Nat
  OBVIOUS
<1>2. \A k \in from .. upto : text[k] \in S
  BY <1>1
<1>3. /\ Len(SubSeq(text, from, upto)) = upto - from + 1
      /\ \A k \in 1 .. upto - from + 1 : SubSeq(text, from, upto)[k] = text[from + k - 1]
  BY <1>1, <1>2, SubSeqProperties
<1>4. Cardinality(from .. upto) = upto - from + 1
  BY <1>1, FS_Interval
<1>5. ASSUME NEW i \in from .. upto
      PROVE  SubSeq(text, from, upto)[Cardinality({j \in from .. upto : j <= i})] = text[i]
  <2>1. {j \in from .. upto : j <= i} = from .. i /\ i \in Int /\ from <= i
    BY <1>1
  <2>2. Cardinality(from .. i) = i - from + 1
    BY <1>1, <2>1, FS_Interval
  <2>3. i - from + 1 \in 1 .. upto - from + 1 /\ from + (i - from + 1) - 1 = i
    BY <1>1, <2>1
  <2> QED BY <1>3, <2>1, <2>2, <2>3
<1>6. from .. upto # {} /\ (upto = Len(text) <=> Len(text) \in from .. upto)
  <2>1. from \in from .. upto /\ upto <= Len(text)
    BY <1>1
  <2>2. Len(text) \in from .. upto <=> Len(text) <= upto
    BY <1>1, <2>1
  <2>3. from .. upto # {}
    BY <2>1
  <2>4. upto = Len(text) <=> Len(text) <= upto
    BY <1>1, <2>1
  <2> QED BY <2>2, <2>3, <2>4
<1> QED BY <1>3, <1>4, <1>5, <1>6, Zenon

\* The text of a file has a last, empty line.
LEMMA LinesSplit ==
    ASSUME NEW file \in Seq(Lines), NEW blank, NEW text, text = Append(file, blank)
    PROVE  text \in Seq(Lines \cup {blank})
<1>1. file \in Seq(Lines \cup {blank})
  OBVIOUS
<1> QED BY <1>1

\* A read shows the lines it was asked for.
LEMMA ReadIsHonest ==
    ASSUME FileTypes, Read, call.offset # 0, result'.kind = "read" PROVE ReadHonest
<1>1. call \in ReadCalls
  BY DEF Read, Begun, FileTypes, FileCalls, ReadCalls, AppendCalls, WriteCalls, EditCalls
<1>2. call.offset \in Int /\ call.n \in Nat
  BY <1>1, FileBounds DEF ReadCalls
<1>3. content \in Contents
  BY DEF Read, Answer, Error, FileTypes
<1> DEFINE text == SplitLines(content)
<1> DEFINE from == LineWindow(text, call.offset, call.n).from
<1> DEFINE upto == LineWindow(text, call.offset, call.n).upto
<1> DEFINE wanted == WantedLines(text, call.offset, call.n)
<1>4. text \in Seq(Lines \cup {""})
  BY <1>3, TextsOfFiles, LinesSplit, Zenon DEF SplitLines
<1>5. \/ from > Len(text) /\ result' = [kind |-> "read", lines |-> <<>>, end |-> TRUE]
      \/ from \in 1 .. Len(text)
         /\ result' = [kind |-> "read", lines |-> SubSeq(text, from, upto), end |-> upto = Len(text)]
      \/ result' = Error \/ result' = [kind |-> "crash"]
  BY DEF Read, Answer
<1>6. /\ from = LineWindow(text, call.offset, call.n).from
      /\ upto = LineWindow(text, call.offset, call.n).upto
      /\ wanted = WantedLines(text, call.offset, call.n)
  OBVIOUS
<1> HIDE DEF text, from, upto, wanted
<1>7. IsWindow(text, call.offset, call.n, from, upto)
  BY <1>2, <1>4, <1>6, WantedIsWindow
<1>8. CASE from > Len(text) /\ result' = [kind |-> "read", lines |-> <<>>, end |-> TRUE]
  <2>1. from > Len(text) => wanted = {}
    BY <1>6, <1>7 DEF IsWindow
  <2>2. wanted = {} /\ result'.lines = <<>> /\ result'.end = TRUE
    BY <2>1, <1>8
  <2>3. Cardinality(wanted) = 0 /\ Len(result'.lines) = 0
    BY <2>2, FS_EmptySet
  <2> QED BY <2>2, <2>3 DEF ReadHonest, text, wanted
<1>9. CASE from \in 1 .. Len(text)
           /\ result' = [kind |-> "read", lines |-> SubSeq(text, from, upto), end |-> upto = Len(text)]
  <2> DEFINE size == Len(text)
  <2>1. size \in Nat
    BY <1>4, LenProperties
  <2>2. from \in 1 .. size
    BY <1>9
  <2> HIDE DEF size
  <2>3. from <= size
    BY <2>1, <2>2
  <2>4. from <= Len(text)
    BY <2>3 DEF size
  <2>5. from \in Nat \ {0}
    BY <1>7 DEF IsWindow
  <2>6. upto \in from .. Len(text)
    BY <1>7, <2>4 DEF IsWindow
  <2>7. wanted = from .. upto
    BY <1>6, <1>7, <2>4 DEF IsWindow
  <2>8. /\ from \in Nat \ {0} /\ upto \in from .. Len(text) /\ wanted = from .. upto
    BY <2>5, <2>6, <2>7
  <2>9. /\ Len(SubSeq(text, from, upto)) = Cardinality(from .. upto)
        /\ \A i \in from .. upto :
               SubSeq(text, from, upto)[Cardinality({j \in from .. upto : j <= i})] = text[i]
        /\ from .. upto # {} /\ (upto = Len(text) <=> Len(text) \in from .. upto)
    BY <1>4, <2>8, WindowShows, Zenon
  <2>10. /\ Len(SubSeq(text, from, upto)) = Cardinality(wanted)
        /\ \A i \in wanted :
               SubSeq(text, from, upto)[Cardinality({j \in wanted : j <= i})] = text[i]
    BY <2>8, <2>9, Zenon
  <2>11. result'.lines = SubSeq(text, from, upto) /\ result'.end = (upto = Len(text))
    BY <1>9
  <2>12. /\ Len(result'.lines) = Cardinality(wanted)
         /\ \A i \in wanted : result'.lines[Cardinality({j \in wanted : j <= i})] = text[i]
    BY <2>10, <2>11, Zenon
  <2>13. result'.end = (wanted = {} \/ Len(text) \in wanted)
    <3> DEFINE shown == result'.end
    <3> DEFINE atEnd == upto = Len(text)
    <3> DEFINE last == wanted = {} \/ Len(text) \in wanted
    <3>1. shown = atEnd
      BY <2>11, Zenon
    <3>2. atEnd <=> last
      BY <2>8, <2>9, Zenon
    <3>3. atEnd \in BOOLEAN /\ last \in BOOLEAN
      OBVIOUS
    <3> HIDE DEF shown, atEnd, last
    <3>4. shown = last
      BY <3>1, <3>2, <3>3
    <3> QED BY <3>4, Zenon DEF shown, last
  <2> QED BY <2>12, <2>13, Zenon DEF ReadHonest, text, wanted
<1>10. CASE result' = Error \/ result' = [kind |-> "crash"]
  BY <1>10 DEF Error
<1> QED BY <1>5, <1>8, <1>9, <1>10

(***************************************************************************)
(* What the model is told of a read, a write or an edit is what happened,  *)
(* as far as nobody else's write fell into the call.  A failing append may *)
(* have added a beginning of its text, and a write or an edit that fails   *)
(* after truncating the file leaves a beginning of the new text, the old   *)
(* one lost; a read from line 0 is left out                                *)
(* (internal/runtime/exec/execute.go).                                     *)
(***************************************************************************)
THEOREM ToolsStayHonest == FileSpec => ToolsHonest
<1>1. FileTypes /\ WorkInv /\ [FileNext]_fileVars => FileTypes' /\ WorkInv'
  BY FileTypesStep, WorkStep
<1>2. FileTypes /\ WorkInv /\ [FileNext]_fileVars =>
        (result' # result /\ result' # NoResult => FailedHonest /\ WriteHonest /\ ReadHonest)
  <2> SUFFICES ASSUME FileTypes, WorkInv, [FileNext]_fileVars, result' # result, result' # NoResult
               PROVE  FailedHonest /\ WriteHonest /\ ReadHonest
    OBVIOUS
  <2>0. call \in EditCalls => call.tool = "edit"
    BY DEF EditCalls
  <2>1. CASE Read
    <3>1. call.tool = "read" /\ content' = content /\ toolStep = "begun"
      BY <2>1 DEF Read, Begun
    <3>2. FailedHonest
      BY <3>1 DEF FailedHonest, WorkInv
    <3> QED BY <2>1, <3>1, <3>2, ReadIsHonest DEF WriteHonest, ReadHonest
  <2>2. CASE AppendText
    <3>1. call.tool = "append" /\ toolStep = "begun" /\ (~foreign => content = before)
      BY <2>2 DEF AppendText, Begun, WorkInv
    <3>2. \/ result'.kind = "error" /\ content' = content
          \/ /\ result'.kind = "error"
             /\ \E added \in Beginnings(call.text) : content' = Existing(content) \o added
          \/ result'.kind = "done" /\ content' = Existing(content) \o call.text
      BY <2>2 DEF AppendText, Answer, Success, Error
    <3> QED BY <3>1, <3>2 DEF FailedHonest, WriteHonest, ReadHonest
  <2>3. CASE EditRead
    <3>1. /\ call.tool = "edit" /\ content' = content /\ toolStep = "begun"
          /\ result' = Error
      BY <2>3 DEF EditRead, Begun, Answer
    <3> QED BY <3>1 DEF FailedHonest, WriteHonest, ReadHonest, WorkInv, Error
  <2>4. CASE WriteRest
    <3>1. /\ toolStep = "writing" /\ content' \in Beginnings(held)
          /\ result'.kind = "error" \/ (result'.kind = "done" /\ content' = held)
      BY <2>4 DEF WriteRest, Answer, Success, Error
    <3>2. call \in WriteCalls \cup EditCalls
      BY <3>1 DEF WorkInv
    <3>3. /\ call.tool \in {"write", "edit"} /\ (call.tool = "edit" => call \in EditCalls)
          /\ call.tool = "write" => call \in WriteCalls
      BY <3>2 DEF WriteCalls, EditCalls
    <3>4. ~foreign => held = NewText
      BY <3>1, <3>3 DEF WorkInv, NewText
    <3>5. FailedHonest
      BY <3>1, <3>4 DEF FailedHonest
    <3>6. WriteHonest
      <4> SUFFICES ASSUME result'.kind = "done", ~foreign
                   PROVE  /\ call.tool = "write" => content' = call.text
                          /\ call.tool = "edit" =>
                              /\ \A i \in DOMAIN before : content'[i] =
                                     IF before[i] = call.old THEN call.new ELSE before[i]
                              /\ call.all \/ Count(before, call.old) = 1
        BY <3>3 DEF WriteHonest
      <4>1. content' = held
        BY <3>1
      <4>2. call.tool = "write" => content' = call.text
        BY <3>4, <4>1 DEF NewText
      <4>3. ASSUME call.tool = "edit"
            PROVE  /\ \A i \in DOMAIN before : held[i] =
                        IF before[i] = call.old THEN call.new ELSE before[i]
                   /\ call.all \/ Count(before, call.old) = 1
        <5>1. /\ call \in EditCalls /\ before \in Contents /\ Editable(before, call)
              /\ held = Replaced(before, call.old, call.new, call.all)
          BY <3>1, <3>3, <4>3 DEF WorkInv
        <5> QED BY <5>1, ReplacedEverywhere DEF Editable
      <4> QED BY <4>1, <4>2, <4>3
    <3> QED BY <3>3, <3>5, <3>6 DEF ReadHonest
  <2>5. ASSUME NEW c \in FileCalls, Begin(c) PROVE FALSE
    BY <2>5 DEF Begin
  <2>6. CASE Overwrite \/ EditWrite
    <3>1. /\ content' = content /\ result' = Error /\ toolStep \in {"begun", "checked"}
          /\ call.tool # "read"
      <4>1. content' = content /\ result' = Error
        BY <2>6 DEF Overwrite, EditWrite, Truncate, Answer
      <4>2. CASE Overwrite
        BY <4>1, <4>2 DEF Overwrite, Begun
      <4>3. CASE EditWrite
        BY <4>1, <4>3, <2>0 DEF EditWrite, WorkInv
      <4> QED BY <2>6, <4>2, <4>3
    <3> QED BY <3>1 DEF FailedHonest, WriteHonest, ReadHonest, WorkInv, Error
  <2>7. ASSUME NEW text \in Contents \cup {Absent}, ForeignWrite(text) PROVE FALSE
    BY <2>7 DEF ForeignWrite
  <2>8. CASE UNCHANGED fileVars
    BY <2>8 DEF fileVars
  <2> QED BY <2>1, <2>2, <2>3, <2>4, <2>5, <2>6, <2>7, <2>8 DEF FileNext, FileCalls
<1>3. FileTypes /\ WorkInv /\ [FileNext]_fileVars =>
        [result' # result /\ result' # NoResult =>
           /\ result'.kind = "error" /\ ~foreign =>
                \/ content' = before
                \/ toolStep = "writing" /\ content' \in Beginnings(NewText)
                \/ /\ call.tool = "append"
                   /\ \E added \in Beginnings(call.text) : content' = Existing(before) \o added
           /\ result'.kind = "done" /\ ~foreign =>
                /\ call.tool = "append" => content' = Existing(before) \o call.text
                /\ call.tool = "write" => content' = call.text
                /\ call.tool = "edit" =>
                    /\ \A i \in DOMAIN before : content'[i] =
                           IF before[i] = call.old THEN call.new ELSE before[i]
                    /\ call.all \/ Count(before, call.old) = 1
           /\ call.tool = "read" /\ result'.kind = "read" /\ call.offset # 0 =>
                LET text == SplitLines(content)
                    wanted == WantedLines(text, call.offset, call.n)
                IN /\ Len(result'.lines) = Cardinality(wanted)
                   /\ \A i \in wanted :
                          result'.lines[Cardinality({j \in wanted : j <= i})] = text[i]
                   /\ result'.end = (wanted = {} \/ Len(text) \in wanted)]_fileVars
  BY <1>2, Zenon DEF FailedHonest, WriteHonest, ReadHonest
<1> QED BY <1>1, <1>3, FileBegin, PTL DEF FileSpec, ToolsHonest

-----------------------------------------------------------------------------
(***************************************************************************)
(* For any number of pieces and any conversation: a request sends whole    *)
(* exchanges, and the stream of the attempt that answers is its answer.    *)
(***************************************************************************)

Attempts == {"raw", "sdk", "once"}
Emissions == [by : Attempts, what : {"thinking", "content"}]
Failures == [by : Attempts, class : {"json", "stalled", "gateway", "cancelled", "other"},
             ended : {"none", "stall", "user"}]

\* The attempts up to this one.
UpTo(a) == CASE a = "none" -> {} [] a = "raw" -> {"raw"} [] a = "sdk" -> {"raw", "sdk"}
             [] OTHER -> Attempts

\* The state has its types.
StreamTypes ==
    /\ wire \in Seq(Messages) /\ vendor \in {"openai", "anthropic"}
    /\ attempt \in {"none"} \cup Attempts /\ reading \in {"connecting", "streaming", "over"}
    /\ answer = [thinking |-> answer.thinking, content |-> answer.content, calls |-> answer.calls]
    /\ answer.thinking \in Nat /\ answer.content \in Nat
    /\ answer.calls \in [Indexes -> [id : BOOLEAN, name : BOOLEAN, args : Nat, closed : BOOLEAN]]
    /\ emitted \in Seq(Emissions) /\ failures \in SUBSET Failures
    /\ cause \in {"none", "stall", "user"} /\ quitIn \in {"none"} \cup Attempts

\* A tool's message comes after the call it answers with none but tools' between.
Answered(w) ==
    \A k \in DOMAIN w : w[k].role = "tool" =>
      \E j \in 1..(k - 1) : /\ w[j].role = "assistant" /\ w[k].answers \in w[j].calls
                            /\ \A l \in (j + 1)..k : w[l].role = "tool"

\* What an attempt has emitted is what it has collected.
Collected ==
    attempt # "none" =>
      /\ EmittedBy(attempt, "thinking") = answer.thinking
      /\ EmittedBy(attempt, "content") = answer.content

\* The parts of emitted come from this attempt and from those before it, which failed
\* in a way that has a next attempt; an attempt fails once, the user's is the last.
Accounted ==
    /\ attempt = "none" => reading = "over" /\ verdict # "ok"
    /\ reading = "connecting" => answer.thinking = 0 /\ answer.content = 0
    /\ \A k \in DOMAIN emitted : emitted[k].by \in UpTo(attempt)
    /\ \A k \in DOMAIN emitted : emitted[k].by # attempt =>
         \E f \in failures : f.by = emitted[k].by /\ f.class \in {"json", "stalled", "gateway"}
    /\ \A f \in failures : f.by \in UpTo(attempt) /\ (f.by = attempt => reading = "over")
    /\ \A f, g \in failures : f.by = g.by => f = g
    /\ \A f \in failures : f.ended = "user" => f.by = attempt /\ f.class = "cancelled"

\* An attempt begun after the user cancelled has not reached the provider.
Unheard ==
    quitIn # "none" =>
      /\ quitIn \in UpTo(attempt) /\ cause # "none"
      /\ quitIn # attempt => /\ cause = "user" /\ reading # "streaming" /\ verdict # "ok"
                           /\ \A k \in DOMAIN emitted : emitted[k].by # attempt

StreamInv == StreamTypes /\ (vendor = "openai" => Answered(wire)) /\ Collected /\ Accounted /\ Unheard

-----------------------------------------------------------------------------
\* The largest number of a set of some numbers exists, so a CHOOSE finds it.
LEMMA LastOther ==
    ASSUME NEW messages \in Seq(Messages), NEW k \in DOMAIN messages, ActiveIDs(messages, k) # {}
    PROVE  \E j \in 1..(k - 1) :
             /\ messages[j].role # "tool" /\ ActiveIDs(messages, k) = messages[j].calls
             /\ \A l \in (j + 1)..(k - 1) : messages[l].role = "tool"
<1> DEFINE others == {j \in 1..(k - 1) : messages[j].role # "tool"}
<1> DEFINE last == CHOOSE j \in others : \A l \in others : l <= j
<1>1. others # {} /\ ActiveIDs(messages, k) = messages[last].calls
  BY DEF ActiveIDs
<1>2. k \in Nat /\ others \in SUBSET (0 .. k)
  OBVIOUS
<1>3. \E j \in others : \A l \in others : l <= j
  <2> HIDE DEF others
  <2> QED BY <1>1, <1>2, MaxIsGreatest
<1>4. last \in others /\ \A l \in others : l <= last
  <2> HIDE DEF others
  <2> QED BY <1>3
<1> HIDE DEF last
<1>5. \A l \in (last + 1)..(k - 1) : messages[l].role = "tool"
  BY <1>2, <1>4
<1> QED BY <1>1, <1>4, <1>5

\* The messages sent are messages, and none of a tool's stands alone.
LEMMA Sanitized ==
    ASSUME NEW messages \in Seq(Messages)
    PROVE  SanitizeToolMessages(messages) \in Seq(Messages) /\ Answered(SanitizeToolMessages(messages))
<1> DEFINE places == {k \in DOMAIN messages :
               messages[k].role = "tool" => messages[k].answers \in ActiveIDs(messages, k)}
<1> DEFINE sent == ElementsAt(messages, places)
<1> DEFINE size == Cardinality(places)
<1>1. SanitizeToolMessages(messages) = sent
  BY DEF SanitizeToolMessages
<1>2. places \in SUBSET DOMAIN messages
  OBVIOUS
<1>3. /\ places \in SUBSET Int /\ size \in Nat /\ sent \in Seq(Messages) /\ DOMAIN sent = 1..size
      /\ \A n \in 1..size : PlaceOf(places, n) \in places /\ sent[n] = messages[PlaceOf(places, n)]
  <2> HIDE DEF places
  <2> QED BY <1>2, ElementsKept
<1>4. /\ \A i \in places : RankIn(places, i) \in 1..size /\ PlaceOf(places, RankIn(places, i)) = i
      /\ \A n, k \in 1..size : n < k => PlaceOf(places, n) < PlaceOf(places, k)
  <2> HIDE DEF places
  <2> QED BY <1>2, ElementsInOrder
<1>5. ASSUME NEW k \in 1..size, sent[k].role = "tool"
      PROVE  \E j \in 1..(k - 1) : /\ sent[j].role = "assistant" /\ sent[k].answers \in sent[j].calls
                                   /\ \A l \in (j + 1)..k : sent[l].role = "tool"
  <2> DEFINE p == PlaceOf(places, k)
  <2>1. p \in places /\ p \in DOMAIN messages /\ messages[p] = sent[k]
    BY <1>3
  <2>2. sent[k].answers \in ActiveIDs(messages, p)
    BY <2>1, <1>5
  <2>3. PICK j \in 1..(p - 1) :
             /\ messages[j].role # "tool" /\ ActiveIDs(messages, p) = messages[j].calls
             /\ \A l \in (j + 1)..(p - 1) : messages[l].role = "tool"
    <3> HIDE DEF places, p
    <3> QED BY <2>1, <2>2, LastOther
  <2>4. j \in DOMAIN messages /\ j < p /\ messages[j] \in Messages
    <3>1. p \in 1..Len(messages)
      BY <2>1
    <3>2. j \in 1..Len(messages) /\ j < p
      BY <3>1, <2>3
    <3> QED BY <3>2
  <2>5. messages[j].role = "assistant"
    BY <2>2, <2>3, <2>4 DEF Messages
  <2>6. j \in places
    BY <2>3, <2>4
  <2> DEFINE n == RankIn(places, j)
  <2>7. n \in 1..size /\ PlaceOf(places, n) = j /\ sent[n] = messages[j]
    BY <2>6, <1>3, <1>4
  <2> HIDE DEF places, sent, size, n
  <2>8. n < k
    <3>1. n = k \/ k < n => ~(j < p)
      <4>1. CASE n = k
        BY <4>1, <2>7, <2>4, <2>1, <1>3
      <4>2. CASE k < n
        <5>1. p < j
          BY <4>2, <2>7, <1>4
        <5> QED BY <5>1, <2>1, <2>6, <1>3
      <4> QED BY <4>1, <4>2
    <3> QED BY <3>1, <2>4, <2>7
  <2>9. ASSUME NEW l \in (n + 1)..k
        PROVE  sent[l].role = "tool"
    <3>1. CASE l = k
      BY <3>1, <1>5
    <3>2. CASE l # k
      <4>1. l \in 1..size /\ n < l /\ l < k
        BY <3>2, <2>7, <1>3
      <4>2. j < PlaceOf(places, l) /\ PlaceOf(places, l) < p
        BY <4>1, <2>7, <1>4
      <4>3. PlaceOf(places, l) \in Int /\ p \in Int /\ j \in Int /\ sent[l] = messages[PlaceOf(places, l)]
        BY <4>1, <1>3, <2>1, <2>6
      <4>4. PlaceOf(places, l) \in (j + 1)..(p - 1)
        BY <4>2, <4>3
      <4> QED BY <4>3, <4>4, <2>3
    <3> QED BY <3>1, <3>2
  <2>10. n \in 1..(k - 1)
    BY <2>7, <2>8, <1>3
  <2> QED BY <2>10, <2>9, <2>7, <2>5, <2>2, <2>3
<1> HIDE DEF places, sent, size
<1> QED BY <1>1, <1>3, <1>5 DEF Answered

-----------------------------------------------------------------------------
\* How many parts of a list are these.
Counted(list, e) == Cardinality({k \in DOMAIN list : list[k] = e})

\* One more part counts once, if it is one of these.
LEMMA CountedAppend ==
    ASSUME NEW list \in Seq(Emissions), NEW d \in Emissions, NEW e
    PROVE  /\ Append(list, d) \in Seq(Emissions) /\ Counted(list, e) \in Nat
           /\ Counted(Append(list, d), e) = Counted(list, e) + (IF d = e THEN 1 ELSE 0)
<1> DEFINE new == Append(list, d)
<1> DEFINE n == Len(list)
<1> DEFINE had == {k \in DOMAIN list : list[k] = e}
<1> DEFINE has == {k \in DOMAIN new : new[k] = e}
<1>1. /\ n \in Nat /\ new \in Seq(Emissions) /\ DOMAIN list = 1..n /\ DOMAIN new = 1..(n + 1)
      /\ new[n + 1] = d /\ \A k \in 1..n : new[k] = list[k]
  OBVIOUS
<1> HIDE DEF new, n
<1>2. IsFiniteSet(had) /\ n + 1 \notin had
  <2>1. IsFiniteSet(1..n)
    BY <1>1, FS_Interval
  <2>2. had \in SUBSET (1..n)
    BY <1>1
  <2>3. IsFiniteSet(had)
    BY <2>1, <2>2, FS_Subset
  <2> QED BY <2>2, <2>3, <1>1
<1>3. ASSUME d = e
      PROVE  Counted(new, e) = Counted(list, e) + 1
  <2>1. has = had \cup {n + 1}
    BY <1>1, <1>3
  <2> HIDE DEF had, has
  <2>2. Cardinality(has) = Cardinality(had) + 1 /\ Cardinality(had) \in Nat
    BY <1>2, <2>1, FS_AddElement, FS_CardinalityType
  <2>3. Counted(new, e) = Cardinality(has) /\ Counted(list, e) = Cardinality(had)
    BY DEF Counted, had, has
  <2> QED BY <1>3, <2>2, <2>3
<1>4. ASSUME d # e
      PROVE  Counted(new, e) = Counted(list, e) + 0
  <2>1. has = had
    BY <1>1, <1>4
  <2> HIDE DEF had, has
  <2>2. Cardinality(had) \in Nat
    BY <1>2, FS_CardinalityType
  <2>3. Counted(new, e) = Cardinality(has) /\ Counted(list, e) = Cardinality(had)
    BY DEF Counted, had, has
  <2> QED BY <1>4, <2>1, <2>2, <2>3
<1>5. new \in Seq(Emissions) /\ Cardinality(had) \in Nat
  <2> HIDE DEF had
  <2> QED BY <1>1, <1>2, FS_CardinalityType
<1>6. Counted(list, e) \in Nat
  BY <1>5 DEF Counted
<1> HIDE DEF had, has
<1> QED BY <1>3, <1>4, <1>5, <1>6 DEF new

\* What is in no list does not count.
LEMMA CountedNone ==
    ASSUME NEW list, NEW e, \A k \in DOMAIN list : list[k] # e
    PROVE  Counted(list, e) = 0
<1>1. {k \in DOMAIN list : list[k] = e} = {}
  OBVIOUS
<1> QED BY <1>1, FS_EmptySet DEF Counted

\* Zero or one part in a list of its own.
LEMMA FewParts ==
    ASSUME NEW n \in 0..1, NEW e, NEW list \in Seq(Emissions)
    PROVE  list \o [k \in 1..n |-> e] = (IF n = 1 THEN Append(list, e) ELSE list)
<1>1. CASE n = 0
  <2>1. [k \in 1..n |-> e] = <<>>
    BY <1>1
  <2> QED BY <1>1, <2>1
<1>2. CASE n = 1
  <2>1. [k \in 1..n |-> e] = <<e>>
    BY <1>2
  <2> QED BY <1>2, <2>1
<1> QED BY <1>1, <1>2

-----------------------------------------------------------------------------
\* A failed attempt is accounted for.
LEMMA FailSound ==
    ASSUME StreamInv, verdict = "none", attempt # "none", reading # "over",
           NEW class \in {"json", "stalled", "gateway", "cancelled", "other"},
           NEW how \in {"none", "stall", "user"}, how = "user" => class = "cancelled",
           Fail(class, how)
    PROVE  StreamInv'
<1> DEFINE f == [by |-> attempt, class |-> class, ended |-> how]
<1>1. /\ reading' = "over" /\ failures' = failures \cup {f}
      /\ UNCHANGED <<wire, vendor, attempt, answer, emitted, cause, quitIn, verdict>>
  BY DEF Fail
<1>2. attempt \in Attempts /\ f \in Failures
  BY DEF StreamInv, StreamTypes, Failures
<1>3. StreamTypes'
  BY <1>1, <1>2 DEF StreamInv, StreamTypes
<1>4. (vendor = "openai" => Answered(wire))' /\ Collected'
  BY <1>1 DEF StreamInv, Collected, EmittedBy, Answered
<1>5. Accounted'
  <2>1. /\ \A g \in failures : g.by # attempt
        /\ f.by = attempt /\ f.by \in UpTo(attempt) /\ (f.ended = "user" => f.class = "cancelled")
    BY <1>2 DEF StreamInv, Accounted, UpTo, Attempts
  <2>2. \A g \in failures : g \in failures'
    BY <1>1
  <2> HIDE DEF f
  <2>3. /\ \A k \in DOMAIN emitted' : emitted'[k].by \in UpTo(attempt')
        /\ \A k \in DOMAIN emitted' : emitted'[k].by # attempt' =>
             \E g \in failures' : g.by = emitted'[k].by /\ g.class \in {"json", "stalled", "gateway"}
    BY <1>1, <2>2 DEF StreamInv, Accounted
  <2>4. /\ \A g \in failures' : g.by \in UpTo(attempt')
        /\ \A g, h \in failures' : g.by = h.by => g = h
        /\ \A g \in failures' : g.ended = "user" => g.by = attempt' /\ g.class = "cancelled"
    BY <1>1, <2>1 DEF StreamInv, Accounted
  <2> QED BY <1>1, <2>3, <2>4 DEF Accounted
<1>6. Unheard'
  BY <1>1 DEF StreamInv, Unheard
<1> QED BY <1>3, <1>4, <1>5, <1>6 DEF StreamInv

\* A new attempt starts with nothing collected and nothing emitted by it; the one
\* before, if there was one, failed in a way that the user's end is not.
LEMMA BeginSound ==
    ASSUME StreamInv, NEW a \in Attempts,
           a \notin UpTo(attempt), UpTo(attempt) \subseteq UpTo(a),
           attempt # "none" =>
             \E f \in failures : f.by = attempt /\ f.class \in {"json", "stalled", "gateway"},
           verdict # "ok", BeginRequest(a)
    PROVE  StreamInv'
<1>1. /\ attempt' = a /\ reading' = "connecting" /\ answer' = Blank /\ wire' = <<>>
      /\ cause' = IF quitIn = "none" THEN "none" ELSE "user"
      /\ UNCHANGED <<vendor, emitted, failures, quitIn, verdict>>
  BY DEF BeginRequest
<1>2. /\ Blank = [thinking |-> 0, content |-> 0, calls |-> Blank.calls]
      /\ Blank.thinking = 0 /\ Blank.content = 0
      /\ Blank.calls \in [Indexes -> [id : BOOLEAN, name : BOOLEAN, args : Nat, closed : BOOLEAN]]
  BY DEF Blank, NoCall
<1>3. StreamTypes'
  <2>1. <<>> \in Seq(Messages)
    OBVIOUS
  <2> QED BY <1>1, <1>2, <2>1 DEF StreamInv, StreamTypes
<1>4. (vendor = "openai" => Answered(wire))'
  BY <1>1 DEF Answered
<1>5. \A k \in DOMAIN emitted : emitted[k].by # a
  BY DEF StreamInv, Accounted
<1>6. ASSUME NEW what
      PROVE  EmittedBy(a, what)' = 0
  <2> DEFINE e == [by |-> a, what |-> what]
  <2>1. \A k \in DOMAIN emitted : emitted[k] # e
    BY <1>5
  <2> HIDE DEF e
  <2>2. Counted(emitted, e) = 0
    BY <2>1, CountedNone
  <2> QED BY <1>1, <2>2 DEF EmittedBy, Counted, e
<1>7. Collected'
  BY <1>1, <1>2, <1>6 DEF Collected
<1>8. Accounted'
  <2>1. a \in UpTo(a) /\ a # "none"
    BY DEF UpTo, Attempts
  <2>2. \A k \in DOMAIN emitted :
          \E f \in failures : f.by = emitted[k].by /\ f.class \in {"json", "stalled", "gateway"}
    <3> SUFFICES ASSUME NEW k \in DOMAIN emitted
                 PROVE  \E f \in failures : f.by = emitted[k].by /\ f.class \in {"json", "stalled", "gateway"}
      OBVIOUS
    <3>1. CASE emitted[k].by # attempt
      BY <3>1 DEF StreamInv, Accounted
    <3>2. CASE emitted[k].by = attempt
      BY <3>2 DEF StreamInv, Accounted, UpTo
    <3> QED BY <3>1, <3>2
  <2>3. \A f \in failures : f.by # a /\ f.by \in UpTo(a)
    BY DEF StreamInv, Accounted
  <2>4. ASSUME NEW f \in failures
        PROVE  f.ended # "user"
    <3>1. CASE attempt = "none"
      BY <3>1 DEF StreamInv, Accounted, UpTo
    <3>2. CASE attempt # "none"
      <4>1. PICK g \in failures : g.by = attempt /\ g.class \in {"json", "stalled", "gateway"}
        BY <3>2
      <4>2. f.ended = "user" => f.by = g.by /\ f.class = "cancelled"
        BY <4>1 DEF StreamInv, Accounted
      <4>3. f.by = g.by => f = g
        BY <4>1 DEF StreamInv, Accounted
      <4> QED BY <4>1, <4>2, <4>3
    <3> QED BY <3>1, <3>2
  <2>5. /\ \A f, g \in failures : f.by = g.by => f = g
        /\ \A k \in DOMAIN emitted : emitted[k].by \in UpTo(a)
    BY DEF StreamInv, Accounted
  <2> QED BY <1>1, <1>2, <2>1, <2>2, <2>3, <2>4, <2>5 DEF Accounted
<1>9. Unheard'
  BY <1>1, <1>5 DEF StreamInv, Unheard
<1> QED BY <1>3, <1>4, <1>7, <1>8, <1>9 DEF StreamInv

\* Its id and its name are the parts of a call that are set together.
LEMMA NamedCall ==
    ASSUME NEW a, NEW i \in Indexes, NEW id, NEW name, NEW S1, NEW S2,
           a = [thinking |-> a.thinking, content |-> a.content, calls |-> a.calls],
           a.calls \in [Indexes -> [id : BOOLEAN, name : BOOLEAN, args : S1, closed : S2]]
    PROVE  [a EXCEPT !.calls[i].id = @ \/ id, !.calls[i].name = @ \/ name]
             = [a EXCEPT !.calls[i] = [id |-> a.calls[i].id \/ id, name |-> a.calls[i].name \/ name,
                                       args |-> a.calls[i].args, closed |-> a.calls[i].closed]]
<1> DEFINE x == a.calls[i].id \/ id
<1> DEFINE y == a.calls[i].name \/ name
<1> DEFINE r == [id |-> x, name |-> y, args |-> a.calls[i].args, closed |-> a.calls[i].closed]
<1> DEFINE b == [a EXCEPT !.calls[i].id = x]
<1>1. a.calls[i] = [id |-> a.calls[i].id, name |-> a.calls[i].name,
                    args |-> a.calls[i].args, closed |-> a.calls[i].closed]
  OBVIOUS
<1> HIDE DEF x, y
<1>2. [a EXCEPT !.calls[i].id = x, !.calls[i].name = y] = [b EXCEPT !.calls[i].name = y]
  OBVIOUS
<1>3. b = [thinking |-> a.thinking, content |-> a.content,
           calls |-> [a.calls EXCEPT ![i] = [a.calls[i] EXCEPT !.id = x]]]
  OBVIOUS
<1> HIDE DEF b
<1>4. [b EXCEPT !.calls[i].name = y] =
        [thinking |-> a.thinking, content |-> a.content,
         calls |-> [b.calls EXCEPT ![i] = [b.calls[i] EXCEPT !.name = y]]]
  <2> DEFINE cs == [a.calls EXCEPT ![i] = [a.calls[i] EXCEPT !.id = x]]
  <2> HIDE DEF cs
  <2>1. b = [thinking |-> a.thinking, content |-> a.content, calls |-> cs]
    BY <1>3 DEF cs
  <2>2. b.calls = cs
    BY <2>1
  <2>3. [b EXCEPT !.calls = [cs EXCEPT ![i] = [cs[i] EXCEPT !.name = y]]] =
          [thinking |-> a.thinking, content |-> a.content,
           calls |-> [cs EXCEPT ![i] = [cs[i] EXCEPT !.name = y]]]
    BY <2>1
  <2>4. [b EXCEPT !.calls[i].name = y]
          = [b EXCEPT !.calls = [b.calls EXCEPT ![i] = [b.calls[i] EXCEPT !.name = y]]]
    OBVIOUS
  <2> QED BY <2>2, <2>3, <2>4
<1>5. b.calls = [a.calls EXCEPT ![i] = [a.calls[i] EXCEPT !.id = x]]
  BY <1>3
<1>6. [b.calls[i] EXCEPT !.name = y] = r
  BY <1>1, <1>5
<1>7. [b.calls EXCEPT ![i] = r] = [a.calls EXCEPT ![i] = r]
  BY <1>5
<1>8. [a EXCEPT !.calls[i] = r] =
        [thinking |-> a.thinking, content |-> a.content, calls |-> [a.calls EXCEPT ![i] = r]]
  OBVIOUS
<1> HIDE DEF r
<1>9. [a EXCEPT !.calls[i].id = x, !.calls[i].name = y] = [a EXCEPT !.calls[i] = r]
  BY <1>2, <1>4, <1>6, <1>7, <1>8
<1> QED BY <1>9 DEF x, y, r

\* A part is emitted as it is collected.
LEMMA ChunkSound ==
    ASSUME StreamInv, NEW what \in Piece, Chunk(what)
    PROVE  StreamInv'
<1>1. /\ verdict = "none" /\ attempt \in {"raw", "sdk"} /\ reading # "over" /\ reading' = "streaming"
      /\ UNCHANGED <<wire, vendor, attempt, failures, cause, quitIn, verdict>>
  BY DEF Chunk
<1>2. (vendor = "openai" => Answered(wire))'
  BY <1>1 DEF StreamInv, Answered
<1>a. attempt \in Attempts /\ attempt # "none"
  BY <1>1 DEF Attempts
<1> DEFINE more(w) == Append(emitted, [by |-> attempt, what |-> w])
<1>3. ASSUME NEW w \in {"thinking", "content"}, NEW v
      PROVE  /\ more(w) \in Seq(Emissions)
             /\ Counted(more(w), [by |-> attempt, what |-> v])
                  = Counted(emitted, [by |-> attempt, what |-> v]) + (IF w = v THEN 1 ELSE 0)
  <2> DEFINE d == [by |-> attempt, what |-> w]
  <2> DEFINE e == [by |-> attempt, what |-> v]
  <2>1. d \in Emissions /\ (d = e <=> w = v)
    BY <1>a DEF Emissions
  <2>2. emitted \in Seq(Emissions)
    BY DEF StreamInv, StreamTypes
  <2> HIDE DEF d, e
  <2>3. /\ Append(emitted, d) \in Seq(Emissions)
        /\ Counted(Append(emitted, d), e) = Counted(emitted, e) + (IF d = e THEN 1 ELSE 0)
    BY <2>1, <2>2, CountedAppend
  <2> QED BY <2>1, <2>3 DEF d, e
<1>4. ASSUME NEW w \in {"thinking", "content"}, emitted' = more(w)
      PROVE  /\ \A k \in DOMAIN emitted' : emitted'[k].by \in UpTo(attempt)
             /\ \A k \in DOMAIN emitted' : emitted'[k].by # attempt =>
                  \E f \in failures : f.by = emitted'[k].by /\ f.class \in {"json", "stalled", "gateway"}
  <2>1. emitted \in Seq(Emissions)
    BY DEF StreamInv, StreamTypes
  <2> DEFINE d == [by |-> attempt, what |-> w]
  <2>2. d.by = attempt /\ attempt \in UpTo(attempt)
    BY <1>a DEF UpTo, Attempts
  <2> HIDE DEF d
  <2>3. \A k \in DOMAIN Append(emitted, d) :
          \/ k \in DOMAIN emitted /\ Append(emitted, d)[k] = emitted[k]
          \/ Append(emitted, d)[k] = d
    BY <2>1
  <2>4. emitted' = Append(emitted, d)
    BY <1>4 DEF d
  <2> QED BY <2>2, <2>3, <2>4 DEF StreamInv, Accounted
<1>5. Accounted'
  <2>1. CASE emitted' = emitted
    BY <1>1, <2>1 DEF StreamInv, Accounted
  <2>2. CASE emitted' # emitted
    <3>1. PICK w \in {"thinking", "content"} : emitted' = more(w)
      BY <2>2 DEF Chunk, Emit
    <3> HIDE DEF more
    <3>2. /\ \A k \in DOMAIN emitted' : emitted'[k].by \in UpTo(attempt)
          /\ \A k \in DOMAIN emitted' : emitted'[k].by # attempt =>
               \E f \in failures : f.by = emitted'[k].by /\ f.class \in {"json", "stalled", "gateway"}
      BY <3>1, <1>4
    <3> QED BY <1>1, <1>a, <3>2 DEF StreamInv, Accounted
  <2> QED BY <2>1, <2>2
<1>6. /\ emitted \in Seq(Emissions) /\ answer.thinking \in Nat /\ answer.content \in Nat
      /\ answer = [thinking |-> answer.thinking, content |-> answer.content, calls |-> answer.calls]
      /\ answer.calls \in [Indexes -> [id : BOOLEAN, name : BOOLEAN, args : Nat, closed : BOOLEAN]]
  BY DEF StreamInv, StreamTypes
<1>7. StreamTypes' /\ Collected'
  <2>0. ASSUME emitted' \in Seq(Emissions),
               answer' = [thinking |-> answer'.thinking, content |-> answer'.content, calls |-> answer'.calls],
               answer'.thinking \in Nat, answer'.content \in Nat,
               answer'.calls \in [Indexes -> [id : BOOLEAN, name : BOOLEAN, args : Nat, closed : BOOLEAN]]
        PROVE  StreamTypes'
    BY <1>1, <2>0 DEF StreamInv, StreamTypes
  <2>1. CASE what = "thinking"
    <3>1. emitted' = more("thinking") /\ answer' = [answer EXCEPT !.thinking = @ + 1]
      BY <2>1 DEF Chunk, Emit
    <3>2. answer' = [thinking |-> answer.thinking + 1, content |-> answer.content, calls |-> answer.calls]
      BY <3>1, <1>6
    <3>3. /\ emitted' \in Seq(Emissions)
          /\ Counted(emitted', [by |-> attempt, what |-> "thinking"])
               = Counted(emitted, [by |-> attempt, what |-> "thinking"]) + 1
          /\ Counted(emitted', [by |-> attempt, what |-> "content"])
               = Counted(emitted, [by |-> attempt, what |-> "content"]) + 0
      BY <3>1, <1>3
    <3>4. Collected'
      BY <3>2, <3>3, <1>1, <1>6, <1>a DEF StreamInv, Collected, EmittedBy, Counted
    <3> QED BY <2>0, <3>2, <3>3, <3>4, <1>6
  <2>2. CASE what = "content"
    <3>1. emitted' = more("content") /\ answer' = [answer EXCEPT !.content = @ + 1]
      BY <2>2 DEF Chunk, Emit
    <3>2. answer' = [thinking |-> answer.thinking, content |-> answer.content + 1, calls |-> answer.calls]
      BY <3>1, <1>6
    <3>3. /\ emitted' \in Seq(Emissions)
          /\ Counted(emitted', [by |-> attempt, what |-> "thinking"])
               = Counted(emitted, [by |-> attempt, what |-> "thinking"]) + 0
          /\ Counted(emitted', [by |-> attempt, what |-> "content"])
               = Counted(emitted, [by |-> attempt, what |-> "content"]) + 1
      BY <3>1, <1>3
    <3>4. Collected'
      BY <3>2, <3>3, <1>1, <1>6, <1>a DEF StreamInv, Collected, EmittedBy, Counted
    <3> QED BY <2>0, <3>2, <3>3, <3>4, <1>6
  <2>3. CASE what \in {"call", "args", "stop", "comment"}
    <3>1. UNCHANGED emitted /\ (answer' = answer \/ (what # "comment" /\ \E i \in Indexes : Absorb(what, i)))
      BY <2>3 DEF Chunk
    <3>2. /\ answer' = [thinking |-> answer.thinking, content |-> answer.content, calls |-> answer'.calls]
          /\ answer'.calls \in [Indexes -> [id : BOOLEAN, name : BOOLEAN, args : Nat, closed : BOOLEAN]]
      <4>1. CASE answer' = answer
        BY <4>1, <1>6
      <4>2. CASE what # "comment" /\ \E i \in Indexes : Absorb(what, i)
        <5>1. PICK i \in Indexes : Absorb(what, i)
          BY <4>2
        <5> DEFINE Calls == [id : BOOLEAN, name : BOOLEAN, args : Nat, closed : BOOLEAN]
        <5>2. answer.calls[i] \in Calls
          BY <1>6
        <5>3. PICK c \in Calls : answer' = [answer EXCEPT !.calls[i] = c]
          <6>1. CASE what = "call"
            <7>1. PICK id \in BOOLEAN, name \in BOOLEAN :
                    answer' = [answer EXCEPT !.calls[i].id = @ \/ id, !.calls[i].name = @ \/ name]
              BY <5>1, <6>1 DEF Absorb
            <7> DEFINE c == [id |-> answer.calls[i].id \/ id, name |-> answer.calls[i].name \/ name,
                             args |-> answer.calls[i].args, closed |-> answer.calls[i].closed]
            <7>2. c \in Calls
              BY <5>2
            <7>3. answer' = [answer EXCEPT !.calls[i] = c]
              BY <7>1, <5>2, <1>6, NamedCall
            <7> QED BY <7>2, <7>3
          <6>2. CASE what = "args"
            <7>1. answer' = [answer EXCEPT !.calls[i].args = @ + 1]
              BY <5>1, <6>2 DEF Absorb
            <7>2. [answer.calls[i] EXCEPT !.args = @ + 1] \in Calls
              BY <5>2
            <7> QED BY <7>1, <7>2
          <6>3. CASE what = "stop"
            <7>1. answer' = [answer EXCEPT !.calls[i].closed = TRUE]
              BY <5>1, <6>3 DEF Absorb
            <7>2. [answer.calls[i] EXCEPT !.closed = TRUE] \in Calls
              BY <5>2
            <7> QED BY <7>1, <7>2
          <6> QED BY <2>3, <4>2, <6>1, <6>2, <6>3
        <5>4. answer' = [thinking |-> answer.thinking, content |-> answer.content,
                         calls |-> [answer.calls EXCEPT ![i] = c]]
          BY <5>3, <1>6
        <5>5. [answer.calls EXCEPT ![i] = c] \in [Indexes -> Calls]
          BY <5>3, <1>6
        <5> QED BY <5>4, <5>5
      <4> QED BY <3>1, <4>1, <4>2
    <3>3. answer'.thinking = answer.thinking /\ answer'.content = answer.content
      BY <3>2
    <3>4. Collected'
      BY <3>1, <3>3, <1>1 DEF StreamInv, Collected, EmittedBy
    <3> QED BY <2>0, <3>1, <3>2, <3>3, <3>4, <1>6
  <2> QED BY <2>1, <2>2, <2>3 DEF Piece
<1>8. Unheard'
  <2>1. reading = "connecting" => cause # "user"
    BY DEF Chunk, Answerable
  <2>2. reading \in {"connecting", "streaming", "over"} /\ reading # "over"
    BY <1>1 DEF StreamInv, StreamTypes
  <2>3. quitIn # "none" => quitIn = attempt /\ quitIn \in UpTo(attempt) /\ cause # "none"
    BY <2>1, <2>2 DEF StreamInv, Unheard
  <2> QED BY <1>1, <2>3 DEF Unheard
<1> QED BY <1>2, <1>5, <1>7, <1>8 DEF StreamInv

\* A one-shot answer is emitted whole.
LEMMA OneShotSound ==
    ASSUME StreamInv, OneShotAnswer
    PROVE  StreamInv'
<1> DEFINE e(w) == [by |-> "once", what |-> w]
<1>1. /\ attempt = "once" /\ reading = "connecting" /\ reading' = "over"
      /\ UNCHANGED <<wire, vendor, attempt, failures, cause, quitIn>>
  BY DEF OneShotAnswer
<1>2. PICK thought \in 0..1, said \in 0..1, i \in Indexes, called \in BOOLEAN :
         /\ thought + said > 0 \/ called
         /\ answer' = [thinking |-> thought, content |-> said,
                       calls |-> [Blank.calls EXCEPT ![i] =
                                    [id |-> called, name |-> called, args |-> 0, closed |-> called]]]
         /\ emitted' = emitted \o [k \in 1..thought |-> [by |-> "once", what |-> "thinking"]]
                               \o [k \in 1..said |-> [by |-> "once", what |-> "content"]]
  BY DEF OneShotAnswer
<1>3. /\ e("thinking") \in Emissions /\ e("content") \in Emissions /\ e("thinking") # e("content")
      /\ emitted \in Seq(Emissions)
  BY DEF Emissions, Attempts, StreamInv, StreamTypes
<1> DEFINE one == IF thought = 1 THEN Append(emitted, e("thinking")) ELSE emitted
<1> DEFINE two == IF said = 1 THEN Append(one, e("content")) ELSE one
<1>4. one \in Seq(Emissions) /\ two \in Seq(Emissions) /\ emitted' = two
  <2> DEFINE d == e("thinking")
  <2> DEFINE g == e("content")
  <2> DEFINE had == emitted \o [k \in 1..thought |-> d]
  <2>0. emitted' = had \o [k \in 1..said |-> g]
    BY <1>2
  <2>1. had = one
    <3> HIDE DEF d
    <3> QED BY <1>3, FewParts DEF d
  <2>2. one \in Seq(Emissions)
    BY <1>3
  <2> HIDE DEF one, g, had
  <2>3. one \o [k \in 1..said |-> g] = IF said = 1 THEN Append(one, g) ELSE one
    BY <2>2, FewParts
  <2>4. g \in Emissions
    BY <1>3 DEF g
  <2> QED BY <2>0, <2>1, <2>2, <2>3, <2>4 DEF g
<1>5. Counted(emitted, e("thinking")) = 0 /\ Counted(emitted, e("content")) = 0
  BY <1>1 DEF StreamInv, Collected, Accounted, EmittedBy, Counted
<1>6. Counted(two, e("thinking")) = thought /\ Counted(two, e("content")) = said
  <2> DEFINE d == e("thinking")
  <2> DEFINE g == e("content")
  <2>0. d \in Emissions /\ g \in Emissions /\ d # g
    BY <1>3
  <2> HIDE DEF d, g, one
  <2>1. Counted(one, d) = thought /\ Counted(one, g) = 0
    <3>1. CASE thought = 1
      <4>1. one = Append(emitted, d)
        BY <3>1 DEF one, d
      <4>2. Counted(emitted, d) = 0 /\ Counted(emitted, g) = 0
        BY <1>5 DEF d, g
      <4> QED BY <1>3, <2>0, <3>1, <4>1, <4>2, CountedAppend
    <3>2. CASE thought = 0
      <4>1. one = emitted
        BY <3>2 DEF one
      <4> QED BY <1>5, <3>2, <4>1 DEF d, g
    <3> QED BY <3>1, <3>2
  <2> HIDE DEF two
  <2>2. Counted(two, d) = thought /\ Counted(two, g) = said
    <3>1. CASE said = 1
      <4>1. two = Append(one, g)
        BY <3>1 DEF two, g
      <4> QED BY <1>4, <2>0, <2>1, <3>1, <4>1, CountedAppend
    <3>2. CASE said = 0
      <4>1. two = one
        BY <3>2 DEF two
      <4> QED BY <2>1, <3>2, <4>1
    <3> QED BY <3>1, <3>2
  <2> QED BY <2>2 DEF d, g
<1>7. StreamTypes'
  <2>1. answer' = [thinking |-> thought, content |-> said, calls |-> answer'.calls]
    BY <1>2
  <2>2. answer'.calls \in [Indexes -> [id : BOOLEAN, name : BOOLEAN, args : Nat, closed : BOOLEAN]]
    <3>2. /\ Blank.calls \in [Indexes -> [id : BOOLEAN, name : BOOLEAN, args : Nat, closed : BOOLEAN]]
          /\ [id |-> called, name |-> called, args |-> 0, closed |-> called]
               \in [id : BOOLEAN, name : BOOLEAN, args : Nat, closed : BOOLEAN]
      BY DEF Blank, NoCall
    <3> QED BY <1>2, <3>2
  <2>3. answer'.thinking = thought /\ answer'.content = said
    BY <2>1
  <2> HIDE DEF one, two
  <2>4. /\ answer'.thinking \in Nat /\ answer'.content \in Nat
        /\ answer' = [thinking |-> answer'.thinking, content |-> answer'.content, calls |-> answer'.calls]
    BY <2>1, <2>3
  <2> QED BY <1>1, <1>4, <2>2, <2>4 DEF StreamInv, StreamTypes
<1>8. Collected'
  <2>1. answer'.thinking = thought /\ answer'.content = said
    BY <1>2
  <2> HIDE DEF two, one
  <2> QED BY <1>1, <1>4, <1>6, <2>1 DEF Collected, EmittedBy, Counted
<1>9. Accounted'
  <2> DEFINE Old(d) == \E k \in DOMAIN emitted : d = emitted[k]
  <2>1. \A k \in DOMAIN one : one[k].by = "once" \/ Old(one[k])
    <3> DEFINE d == e("thinking")
    <3>1. d.by = "once"
      OBVIOUS
    <3> HIDE DEF d
    <3> QED BY <1>3, <3>1 DEF d
  <2>2. \A k \in DOMAIN two : two[k].by = "once" \/ Old(two[k])
    <3> DEFINE d == e("content")
    <3>1. d.by = "once"
      OBVIOUS
    <3>2. one \in Seq(Emissions)
      BY <1>4
    <3>3. two = IF said = 1 THEN Append(one, d) ELSE one
      OBVIOUS
    <3> HIDE DEF d, one, two, Old
    <3> QED BY <2>1, <3>1, <3>2, <3>3
  <2> HIDE DEF two, one
  <2>3. \A k \in DOMAIN emitted' : emitted'[k].by \in UpTo("once")
    BY <1>1, <1>4, <2>2 DEF StreamInv, Accounted, UpTo, Attempts
  <2>4. \A k \in DOMAIN emitted' : emitted'[k].by # "once" =>
          \E f \in failures : f.by = emitted'[k].by /\ f.class \in {"json", "stalled", "gateway"}
    BY <1>1, <1>4, <2>2 DEF StreamInv, Accounted
  <2> QED BY <1>1, <2>3, <2>4 DEF StreamInv, Accounted
<1>10. Unheard'
  BY <1>1 DEF StreamInv, Unheard, OneShotAnswer, Answerable
<1> QED BY <1>1, <1>7, <1>8, <1>9, <1>10 DEF StreamInv, Answered

\* Every step keeps the invariant.
LEMMA StreamStep ==
    ASSUME StreamInv, [ProviderStreamNext]_streamVars
    PROVE  StreamInv'
<1>1. CASE UNCHANGED streamVars
  BY <1>1 DEF streamVars, StreamInv, StreamTypes, Answered, Collected, EmittedBy, Accounted, Unheard
<1>2. CASE Prepare
  <2>1. /\ attempt = "none" /\ vendor' \in {"openai", "anthropic"}
        /\ UNCHANGED <<attempt, reading, pieces, answer, emitted, failures, watch, activity, cause, quitIn, verdict>>
    BY <1>2 DEF Prepare
  <2>p. PICK n \in 1..MaxHistory : \E messages \in [1..n -> Messages] :
           wire' = IF vendor' = "openai" THEN SanitizeToolMessages(messages)
                   ELSE <<[role |-> "user", calls |-> {}, answers |-> 0]>>
    BY <1>2 DEF Prepare
  <2>2. PICK messages \in [1..n -> Messages] :
           wire' = IF vendor' = "openai" THEN SanitizeToolMessages(messages)
                   ELSE <<[role |-> "user", calls |-> {}, answers |-> 0]>>
    BY <2>p
  <2>3. messages \in Seq(Messages)
    <3>1. n \in Nat
      BY ProviderStreamConstants
    <3> QED BY <3>1
  <2>4. wire' \in Seq(Messages) /\ (vendor' = "openai" => Answered(wire'))
    <3>1. [role |-> "user", calls |-> {}, answers |-> 0] \in Messages
      BY DEF Messages
    <3> QED BY <2>2, <2>3, <3>1, Sanitized
  <2> QED BY <2>1, <2>4 DEF StreamInv, StreamTypes, Answered, Collected, Accounted, EmittedBy, Unheard
<1>3. CASE Complete
  <2>1. attempt = "none" /\ \E a \in Attempts : BeginRequest(a)
    BY <1>3 DEF Complete, Attempts
  <2>2. UpTo(attempt) = {}
    BY <2>1 DEF UpTo
  <2>3. verdict # "ok"
    BY <2>1 DEF StreamInv, Accounted
  <2> QED BY <2>1, <2>2, <2>3, BeginSound
<1>4. CASE Done
  BY <1>4 DEF Done, EndRequest, StreamInv, StreamTypes, Answered, Collected, Accounted, EmittedBy, Unheard
<1>5. CASE OneShotAnswer
  BY <1>5, OneShotSound
<1>6. CASE UpstreamFails
  <2>1. Malformed \in {"other", "json"}
    BY DEF Malformed
  <2>2. PICK class \in {"other", "gateway", "json"} : Fail(class, "none")
    BY <1>6, <2>1 DEF UpstreamFails
  <2>3. verdict = "none" /\ attempt # "none" /\ reading # "over"
    BY <1>6 DEF UpstreamFails
  <2> QED BY <2>2, <2>3, FailSound
<1>7. CASE ContextEnds
  <2>1. verdict = "none" /\ attempt # "none" /\ reading # "over" /\ cause # "none"
    BY <1>7 DEF ContextEnds
  <2>2. cause \in {"stall", "user"} /\ EndClass \in {"stalled", "cancelled"}
        /\ (cause = "user" => EndClass = "cancelled")
    BY <2>1 DEF StreamInv, StreamTypes, EndClass
  <2>3. \E class \in {"stalled", "cancelled"} : Fail(class, cause) /\ (cause = "user" => class = "cancelled")
    BY <1>7, <2>2 DEF ContextEnds
  <2> QED BY <2>1, <2>2, <2>3, FailSound
<1>8. CASE NextAttempt
  <2>1. verdict = "none" /\ attempt # "none" /\ \E f \in failures : f.by = attempt /\ f.class \in {"json", "stalled", "gateway"}
    BY <1>8 DEF NextAttempt, HasFailed, Fallback, FailedWith
  <2>2. \/ attempt = "raw" /\ BeginRequest("sdk")
        \/ attempt = "raw" /\ BeginRequest("once")
        \/ attempt = "sdk" /\ BeginRequest("once")
    BY <1>8 DEF NextAttempt
  <2>3. PICK a \in Attempts : BeginRequest(a) /\ a \notin UpTo(attempt) /\ UpTo(attempt) \subseteq UpTo(a)
    BY <2>2 DEF UpTo, Attempts
  <2> QED BY <2>1, <2>3, BeginSound
<1>9. CASE GiveUp
  BY <1>9 DEF GiveUp, EndRequest, StreamInv, StreamTypes, Answered, Collected, Accounted, EmittedBy, Unheard
<1>10. CASE TimerExpires \/ WatchActivity \/ WatchStalls \/ UserCancels
  <2>1. /\ cause' \in {"none", "stall", "user"}
        /\ \/ UNCHANGED quitIn /\ (UNCHANGED cause \/ cause = "none")
           \/ quitIn' = attempt /\ attempt # "none" /\ cause' # "none"
        /\ UNCHANGED <<wire, vendor, attempt, reading, pieces, answer, emitted, failures, verdict>>
    BY <1>10 DEF TimerExpires, WatchActivity, WatchStalls, UserCancels, watchOnly, StreamInv, StreamTypes
  <2>2. attempt # "none" => attempt \in Attempts /\ attempt \in UpTo(attempt)
    BY DEF StreamInv, StreamTypes, UpTo, Attempts
  <2> QED BY <2>1, <2>2 DEF StreamInv, StreamTypes, Answered, Collected, Accounted, EmittedBy, Unheard
<1>11. CASE \E what \in Piece : Chunk(what)
  BY <1>11, ChunkSound
<1> QED BY <1>1, <1>2, <1>3, <1>4, <1>5, <1>6, <1>7, <1>8, <1>9, <1>10, <1>11 DEF ProviderStreamNext

\* What was streamed and what was sent are faithful, however often a request is made,
\* whenever the user cancels, during an attempt that streams or the one-shot answer
\* after a stall, and however long the conversation.
\* (openai/language_model.go, stream_stall.go, anthropic.go)
THEOREM StreamsAreFaithful == ProviderStreamSpec => []StreamFaithful
<1>1. ProviderStreamInit => StreamInv
  <2> SUFFICES ASSUME ProviderStreamInit PROVE StreamInv
    OBVIOUS
  <2>1. /\ Blank = [thinking |-> 0, content |-> 0, calls |-> Blank.calls]
        /\ Blank.thinking = 0 /\ Blank.content = 0
        /\ Blank.calls \in [Indexes -> [id : BOOLEAN, name : BOOLEAN, args : Nat, closed : BOOLEAN]]
    BY DEF Blank, NoCall
  <2>2. <<>> \in Seq(Messages) /\ <<>> \in Seq(Emissions)
    OBVIOUS
  <2>3. StreamTypes
    BY <2>1, <2>2 DEF ProviderStreamInit, StreamTypes
  <2> QED BY <2>3 DEF ProviderStreamInit, StreamInv, Answered, Collected, Accounted, Unheard
<1>2. StreamInv /\ [ProviderStreamNext]_streamVars => StreamInv'
  BY StreamStep
<1>3. StreamInv => StreamFaithful
  <2> SUFFICES ASSUME StreamInv PROVE StreamFaithful
    OBVIOUS
  <2> QED BY DEF StreamInv, Answered, Collected, Accounted, Unheard, StreamFaithful
<1> QED BY <1>1, <1>2, <1>3, PTL DEF ProviderStreamSpec

-----------------------------------------------------------------------------
(***************************************************************************)
(* For any provider files and any number of edits: the model and the       *)
(* thinking level in use are the ones shown.                               *)
(***************************************************************************)

-----------------------------------------------------------------------------
Attached == Running /\ using.id # NoID /\ ~drifted /\ ~slimPick
Undecided == [provider |-> FALSE, model |-> NoID]

ChoiceTypes ==
    /\ found \in FileEntries \cup {NoFiles}
    /\ Running => found \in FileEntries
    /\ listing # NoFiles => Running
    /\ using = [id |-> using.id, client |-> using.client, level |-> using.level]
    /\ saved = [id |-> saved.id, level |-> saved.level]
    /\ using.level \in Levels /\ saved.level \in Levels

\* The session knows the model it uses as the files describe it, and speaks to
\* it with the client it needs.
KnownSound(file, session, catalog) ==
    /\ session.id \in EnabledIn(Load(file))
    /\ catalog \in {Load(file), TrimCatalog(Load(file), session.id)}
    /\ session.client = IF file.key THEN ClientOf(Load(file).models[session.id]) ELSE "none"

\* The level is one the model has, off if there is none.
LevelSound(file, session) ==
    LET has == SupportedBy(Load(file).models[session.id])
    IN  IF has = {} THEN session.level = 0 ELSE session.level \in has

\* The settings lead back to the model and the level.
SavedSound(file, session, settings, e) ==
    session.client # "none" /\ e = Undecided =>
        /\ Resolve(Load(file), settings.id, e) = session.id
        /\ Clamp(settings.level, Load(file).models[session.id]) = session.level

ChoiceInv ==
    /\ ChoiceTypes
    /\ Attached => /\ KnownSound(found, using, known)
                   /\ LevelSound(found, using)
                   /\ SavedSound(found, using, saved, env)

-----------------------------------------------------------------------------

\* ClampThinkingLevel keeps a level the model has and otherwise finds one.
LEMMA ClampFacts ==
    ASSUME NEW m, NEW l \in Levels
    PROVE  /\ Clamp(l, m) \in Levels
           /\ l \in SupportedBy(m) => Clamp(l, m) = l
           /\ SupportedBy(m) # {} => Clamp(l, m) \in SupportedBy(m)
           /\ SupportedBy(m) = {} => Clamp(l, m) = 0
<1> DEFINE S == SupportedBy(m)
<1> DEFINE up == {k \in S : k >= l}
<1> DEFINE down == {k \in S : k < l}
<1>1. S \subseteq 0 .. 5
  BY DEF SupportedBy, Levels
<1>2. Clamp(l, m) = IF up # {} THEN Min(up) ELSE IF down # {} THEN Max(down) ELSE 0
  BY DEF Clamp
<1>3. up # {} => Min(up) \in up /\ \A y \in up : Min(up) <= y
  <2>1. up \in SUBSET Nat
    BY <1>1
  <2> QED BY <2>1, MinIsLeast
<1>4. down # {} => Max(down) \in down
  <2>1. down \in SUBSET (0 .. 5)
    BY <1>1
  <2> QED BY <2>1, MaxIsGreatest
<1>5. S # {} => up # {} \/ down # {}
  BY <1>1 DEF Levels
<1>6. up \subseteq S /\ down \subseteq S
  OBVIOUS
<1>7. ASSUME l \in S PROVE Min(up) = l /\ up # {}
  <2>1. l \in up
    BY <1>7 DEF Levels
  <2>2. Min(up) >= l /\ Min(up) <= l
    BY <1>3, <2>1
  <2> QED BY <2>1, <2>2, <1>3, <1>1 DEF Levels
<1>8. 0 \in Levels /\ S \subseteq Levels
  BY <1>1 DEF Levels
<1> HIDE DEF S, up, down
<1> SUFFICES /\ Clamp(l, m) \in Levels
             /\ l \in S => Clamp(l, m) = l
             /\ S # {} => Clamp(l, m) \in S
             /\ S = {} => Clamp(l, m) = 0
  BY DEF S
<1>9. S = {} => up = {} /\ down = {}
  BY <1>6
<1> QED BY <1>2, <1>3, <1>4, <1>5, <1>6, <1>7, <1>8, <1>9

\* How many levels up, starting over, from one level to another.
Away(l, k) == IF k >= l THEN k - l ELSE k - l + 6

\* NextSupportedThinkingLevel comes to the next level the model has.
LEMMA NextLevelFacts ==
    ASSUME NEW m, NEW l \in Levels
    PROVE  /\ NextLevel(l, m) \in Levels
           /\ SupportedBy(m) = {} => NextLevel(l, m) = l
           /\ SupportedBy(m) # {} => NextLevel(l, m) \in SupportedBy(m)
           /\ \A k \in SupportedBy(m) : k # l => Away(NextLevel(l, m), k) < Away(l, k)
<1> DEFINE S == SupportedBy(m)
<1> DEFINE hops == {n \in 1 .. 6 : Supports(m, (l + n) % 6)}
<1>1. S \subseteq 0 .. 5 /\ l \in 0 .. 5
  BY DEF SupportedBy, Levels
<1>2. ASSUME NEW n \in 1 .. 6
      PROVE  (l + n) % 6 = (IF l + n < 6 THEN l + n ELSE l + n - 6) /\ (l + n) % 6 \in 0 .. 5
  BY <1>1
<1>3. ASSUME NEW n \in 1 .. 6 PROVE n \in hops <=> (l + n) % 6 \in S
  BY <1>2 DEF SupportedBy, Levels
<1>4. NextLevel(l, m) = IF hops = {} THEN l ELSE (l + Min(hops)) % 6
  BY DEF NextLevel
<1>5. hops \in SUBSET (1 .. 6)
  OBVIOUS
<1>6. ASSUME NEW k \in S
      PROVE  \E n \in hops : (l + n) % 6 = k /\ (k # l => n = Away(l, k))
  <2> DEFINE n == IF k > l THEN k - l ELSE k - l + 6
  <2>1. n \in 1 .. 6 /\ (IF l + n < 6 THEN l + n ELSE l + n - 6) = k /\ (k # l => n = Away(l, k))
    BY <1>1 DEF Away
  <2> HIDE DEF n
  <2>2. (l + n) % 6 = k
    BY <1>2, <2>1
  <2>3. n \in hops
    BY <1>3, <2>1, <2>2
  <2> QED BY <2>1, <2>2, <2>3
<1> HIDE DEF hops
<1>7. ASSUME hops # {}
      PROVE  /\ NextLevel(l, m) \in S
             /\ \A k \in S : k # l => Away(NextLevel(l, m), k) < Away(l, k)
  <2> DEFINE h == Min(hops)
  <2>1. h \in hops /\ \A y \in hops : h <= y
    <3>1. hops \in SUBSET Nat
      BY <1>5
    <3> QED BY <3>1, <1>7, MinIsLeast
  <2>2. NextLevel(l, m) = (l + h) % 6
    BY <1>4, <1>7
  <2> HIDE DEF h
  <2>3. h \in 1 .. 6
    BY <1>5, <2>1
  <2>4. NextLevel(l, m) \in S
    BY <1>3, <2>1, <2>2, <2>3
  <2>5. NextLevel(l, m) = IF l + h < 6 THEN l + h ELSE l + h - 6
    BY <1>2, <2>2, <2>3
  <2>6. ASSUME NEW k \in S, k # l PROVE Away(NextLevel(l, m), k) < Away(l, k)
    <3>1. h <= Away(l, k)
      BY <1>6, <2>1, <2>6
    <3>2. k \in 0 .. 5
      BY <1>1
    <3> QED BY <1>1, <2>3, <2>5, <2>6, <3>1, <3>2 DEF Away
  <2> QED BY <2>4, <2>6
<1>8. S # {} => hops # {}
  BY <1>6
<1>9. hops = {} => NextLevel(l, m) = l
  BY <1>4
<1>10. hops # {} => S # {}
  BY <1>7
<1> QED BY <1>1, <1>7, <1>8, <1>9, <1>10 DEF Levels

\* Six clicks reach every level the model has, and no other.
LEMMA ClicksReachAll ==
    ASSUME NEW m, using.level \in SupportedBy(m)
    PROVE  LevelsClicked(m) = SupportedBy(m)
<1> DEFINE S == SupportedBy(m)
<1> DEFINE l0 == using.level
<1> DEFINE l1 == NextLevel(l0, m)
<1> DEFINE l2 == NextLevel(l1, m)
<1> DEFINE l3 == NextLevel(l2, m)
<1> DEFINE l4 == NextLevel(l3, m)
<1> DEFINE l5 == NextLevel(l4, m)
<1> DEFINE l6 == NextLevel(l5, m)
<1> DEFINE Is(f) == f = [n \in 0 .. 6 |-> IF n = 0 THEN using.level ELSE NextLevel(f[n - 1], m)]
<1> DEFINE w == [n \in 0 .. 6 |-> CASE n = 0 -> l0 [] n = 1 -> l1 [] n = 2 -> l2 [] n = 3 -> l3
                                    [] n = 4 -> l4 [] n = 5 -> l5 [] OTHER -> l6]
<1>1. Is(w)
  <2> HIDE DEF l6
  <2>1. w[0] = l0 /\ w[1] = l1 /\ w[2] = l2 /\ w[3] = l3 /\ w[4] = l4 /\ w[5] = l5 /\ w[6] = l6
    <3> HIDE DEF l0, l1, l2, l3, l4, l5
    <3> QED OBVIOUS
  <2>2. w = [n \in 0 .. 6 |-> w[n]]
    <3> HIDE DEF l0, l1, l2, l3, l4, l5
    <3> QED OBVIOUS
  <2> HIDE DEF w
  <2>3. ASSUME NEW n \in 0 .. 6
        PROVE  w[n] = IF n = 0 THEN using.level ELSE NextLevel(w[n - 1], m)
    <3>1. n = 0 \/ n = 1 \/ n = 2 \/ n = 3 \/ n = 4 \/ n = 5 \/ n = 6
      OBVIOUS
    <3>2. l6 = NextLevel(l5, m)
      BY DEF l6
    <3> QED BY <2>1, <3>1, <3>2
  <2> QED BY <2>2, <2>3
<1> DEFINE turned == CHOOSE f : Is(f)
<1>2. LevelsClicked(m) = {turned[n] : n \in 0 .. 6}
  BY DEF LevelsClicked
<1>3. Is(turned)
  <2> HIDE DEF Is, w
  <2> QED BY <1>1
<1> HIDE DEF turned
<1>4. /\ turned[0] = using.level /\ turned[1] = NextLevel(turned[0], m) /\ turned[2] = NextLevel(turned[1], m)
      /\ turned[3] = NextLevel(turned[2], m) /\ turned[4] = NextLevel(turned[3], m)
      /\ turned[5] = NextLevel(turned[4], m) /\ turned[6] = NextLevel(turned[5], m)
  BY <1>3
<1> HIDE DEF Is
<1>5. S \subseteq Levels
  BY DEF SupportedBy
<1>6. \A l \in S : /\ NextLevel(l, m) \in S
                   /\ \A k \in S : k # l => Away(NextLevel(l, m), k) < Away(l, k)
  BY <1>5, NextLevelFacts
<1>7. turned[0] \in S /\ turned[1] \in S /\ turned[2] \in S /\ turned[3] \in S /\ turned[4] \in S /\ turned[5] \in S
      /\ turned[6] \in S
  BY <1>4, <1>6
<1>8. ASSUME NEW k \in S PROVE \E n \in 0 .. 6 : turned[n] = k
  <2>1. \A l \in S : Away(l, k) \in 0 .. 5
    BY <1>5 DEF Levels, Away
  <2>2. /\ turned[0] # k => Away(turned[1], k) < Away(turned[0], k)
        /\ turned[1] # k => Away(turned[2], k) < Away(turned[1], k)
        /\ turned[2] # k => Away(turned[3], k) < Away(turned[2], k)
        /\ turned[3] # k => Away(turned[4], k) < Away(turned[3], k)
        /\ turned[4] # k => Away(turned[5], k) < Away(turned[4], k)
        /\ turned[5] # k => Away(turned[6], k) < Away(turned[5], k)
    BY <1>4, <1>6, <1>7
  <2>3. /\ Away(turned[0], k) \in 0 .. 5 /\ Away(turned[1], k) \in 0 .. 5 /\ Away(turned[2], k) \in 0 .. 5
        /\ Away(turned[3], k) \in 0 .. 5 /\ Away(turned[4], k) \in 0 .. 5 /\ Away(turned[5], k) \in 0 .. 5
        /\ Away(turned[6], k) \in 0 .. 5
    BY <1>7, <2>1
  <2>4. turned[0] = k \/ turned[1] = k \/ turned[2] = k \/ turned[3] = k \/ turned[4] = k \/ turned[5] = k
    BY <2>2, <2>3
  <2> QED BY <2>4
<1>9. \A n \in 0 .. 6 : turned[n] \in S
  <2> SUFFICES ASSUME NEW n \in 0 .. 6 PROVE turned[n] \in S
    OBVIOUS
  <2>1. n = 0 \/ n = 1 \/ n = 2 \/ n = 3 \/ n = 4 \/ n = 5 \/ n = 6
    OBVIOUS
  <2> QED BY <1>7, <2>1
<1> HIDE DEF S
<1>10. {turned[n] : n \in 0 .. 6} = S
  BY <1>8, <1>9
<1> QED BY <1>2, <1>10 DEF S

-----------------------------------------------------------------------------
\* What LoadCatalog makes of a file: a catalog of models that each have an api.
LEMMA LoadFacts ==
    ASSUME NEW f \in FileEntries
    PROVE  /\ Load(f).whole = TRUE /\ Load(f).key = f.key
           /\ Len(f.models) \in Nat /\ DOMAIN Load(f).models = 1 .. Len(f.models)
           /\ \A i \in 1 .. Len(f.models) :
                /\ Load(f).models[i].on \in BOOLEAN
                /\ Load(f).models[i].api \in {"openai", "anthropic"}
<1>0. f.models \in Seq(ModelEntries)
  BY DEF FileEntries
<1>1. Len(f.models) \in Nat /\ DOMAIN f.models = 1 .. Len(f.models)
  BY <1>0
<1>2. ASSUME NEW i \in 1 .. Len(f.models)
      PROVE  /\ Normalized(WithGateway(f), f.models[i]).on \in BOOLEAN
             /\ Normalized(WithGateway(f), f.models[i]).api \in {"openai", "anthropic"}
  <2>1. f.models[i] \in ModelEntries
    BY <1>0, <1>1
  <2>2. WithGateway(f).api = f.api /\ WithGateway(f).on = f.on
    BY DEF WithGateway, FileEntries
  <2>3. f.api \in {"openai", "anthropic"}
    BY DEF FileEntries, Apis
  <2>4. /\ Normalized(WithGateway(f), f.models[i]).on = (WithGateway(f).on /\ f.models[i].on)
        /\ Normalized(WithGateway(f), f.models[i]).api = Over(f.models[i].api, WithGateway(f).api, "")
    BY <2>1 DEF Normalized, ModelEntries
  <2>5. f.models[i].api \in Apis
    BY <2>1 DEF ModelEntries
  <2> QED BY <2>2, <2>3, <2>4, <2>5 DEF Over, Apis
<1>3. /\ Load(f).whole = TRUE /\ Load(f).key = f.key
      /\ Load(f).models = [i \in DOMAIN f.models |-> Normalized(WithGateway(f), f.models[i])]
  BY DEF Load
<1> QED BY <1>1, <1>2, <1>3

\* A trimmed catalog keeps the metadata of the active model.
LEMMA TrimFacts ==
    ASSUME NEW f \in FileEntries, NEW id \in EnabledIn(Load(f))
    PROVE  /\ id \in DOMAIN TrimCatalog(Load(f), id).models
           /\ TrimCatalog(Load(f), id).models[id] = Load(f).models[id]
           /\ TrimCatalog(Load(f), id).whole = FALSE
<1> DEFINE cat == Load(f)
<1> DEFINE models == [i \in EnabledIn(cat) |-> IF i = id THEN cat.models[i] ELSE Slim(cat.models[i])]
<1>1. TrimCatalog(cat, id) = [cat EXCEPT !.whole = FALSE, !.models = models]
  BY DEF TrimCatalog
<1>2. cat = [key |-> f.key, whole |-> TRUE, models |-> cat.models]
  BY DEF Load
<1> HIDE DEF cat, models
<1>3. TrimCatalog(cat, id).models = models /\ TrimCatalog(cat, id).whole = FALSE
  BY <1>1, <1>2
<1>4. id \in DOMAIN models /\ models[id] = cat.models[id]
  BY DEF models, cat
<1> QED BY <1>3, <1>4 DEF cat

\* What is resolved is enabled, and an enabled model that was saved is resolved.
LEMMA ResolveFacts ==
    ASSUME NEW f \in FileEntries, NEW id, NEW e
    PROVE  /\ Resolve(Load(f), id, e) # NoID =>
                f.key /\ Resolve(Load(f), id, e) \in EnabledIn(Load(f))
           /\ f.key /\ ~e.provider /\ id \in EnabledIn(Load(f)) => Resolve(Load(f), id, e) = id
<1> DEFINE cat == Load(f)
<1> DEFINE on == EnabledIn(cat)
<1>1. on \in SUBSET Nat /\ 0 \notin on /\ cat.key = f.key
  <2>1. /\ DOMAIN cat.models = 1 .. Len(f.models) /\ Len(f.models) \in Nat /\ cat.key = f.key
    BY LoadFacts
  <2>2. on \subseteq DOMAIN cat.models
    BY DEF EnabledIn
  <2> HIDE DEF cat, on
  <2> QED BY <2>1, <2>2
<1>2. FirstOn(cat) = NoID \/ FirstOn(cat) \in on
  BY <1>1, MinIsLeast DEF FirstOn
<1> DEFINE wanted == IF e.model \in on THEN e.model ELSE NoID
<1> DEFINE kept == IF id \in on THEN id ELSE FirstOn(cat)
<1>3. Resolve(cat, id, e) =
        IF ~cat.key THEN NoID
        ELSE IF e.provider THEN IF e.model = NoID THEN FirstOn(cat) ELSE wanted
        ELSE IF id # NoID /\ kept # NoID THEN kept ELSE wanted
  BY DEF Resolve
<1>4. kept = NoID \/ kept \in on
  BY <1>2
<1>5. wanted = NoID \/ wanted \in on
  OBVIOUS
<1>6. id \in on => kept = id /\ id # NoID
  BY <1>1 DEF NoID
<1> HIDE DEF cat, on, wanted, kept
<1>7. /\ Resolve(cat, id, e) # NoID => f.key /\ Resolve(cat, id, e) \in on
      /\ f.key /\ ~e.provider /\ id \in on => Resolve(cat, id, e) = id
  BY <1>1, <1>2, <1>3, <1>4, <1>5, <1>6
<1> QED BY <1>7 DEF cat, on

-----------------------------------------------------------------------------
(* Requests. *)

\* What TurnThinking comes to for a level the model has.
LEMMA ThinkingOf ==
    ASSUME NEW m, NEW k \in SupportedBy(m), k # 0
    PROVE  m.reasoning /\ ResolveThinking(m, k) =
             IF m.api = "anthropic"
             THEN IF m.adaptive THEN [how |-> "adaptive", much |-> Amount(AdaptiveEffort, m, k)]
                  ELSE [how |-> "budget", much |-> Amount(BudgetTokens, m, k)]
             ELSE IF m.format = "qwen" THEN [how |-> "enable", much |-> 0]
             ELSE IF m.format = "deepseek" THEN [how |-> "inferred", much |-> 0]
             ELSE IF m.format = "openrouter"
             THEN [how |-> "openrouter", much |-> Amount(ReasoningEffort, m, k)]
             ELSE IF m.effort # "no" THEN [how |-> "effort", much |-> Amount(ReasoningEffort, m, k)]
             ELSE [how |-> "enable", much |-> 0]
<1>1. m.reasoning /\ k \in Levels
  BY DEF SupportedBy, Supports
<1>2. Clamp(k, m) = k
  BY <1>1, ClampFacts
<1> QED BY <1>1, <1>2 DEF ResolveThinking

\* A higher level never asks for less.
LEMMA TablesRise ==
    ASSUME NEW k \in Levels \ {0}, NEW l \in Levels \ {0}, k < l
    PROVE  /\ BudgetTokens[k] <= BudgetTokens[l] /\ AdaptiveEffort[k] <= AdaptiveEffort[l]
           /\ ReasoningEffort[k] <= ReasoningEffort[l]
<1>1. k \in 1 .. 4 /\ l \in 2 .. 5
  BY DEF Levels
<1> QED BY <1>1 DEF BudgetTokens, AdaptiveEffort, ReasoningEffort

\* What the client puts into a request for a level other than off.
SentFor(m, client, k) == Sent(client, ResolveThinking(m, k))

\* The client a model needs can say what the model is to be asked for.
LEMMA SpeaksIt ==
    ASSUME NEW m, m.api \in {"openai", "anthropic"}, m.format # "deepseek",
           NEW k \in SupportedBy(m), k # 0
    PROVE  SentFor(m, ClientOf(m), k) = ResolveThinking(m, k)
BY ThinkingOf DEF SentFor, Sent, Speaks, ClientOf

LEMMA NoLess ==
    ASSUME NEW m, NEW client, NEW k \in SupportedBy(m) \ m.own, NEW l \in SupportedBy(m) \ m.own,
           k # 0, l # 0, k < l
    PROVE  SentFor(m, client, k).much <= SentFor(m, client, l).much
<1>1. k \in Levels \ {0} /\ l \in Levels \ {0}
  BY DEF SupportedBy
<1>2. /\ BudgetTokens[k] <= BudgetTokens[l] /\ AdaptiveEffort[k] <= AdaptiveEffort[l]
      /\ ReasoningEffort[k] <= ReasoningEffort[l]
  BY <1>1, TablesRise
<1> DEFINE a == ResolveThinking(m, k)
<1> DEFINE b == ResolveThinking(m, l)
<1>3. a.how = b.how /\ a.much <= b.much
  BY <1>2, ThinkingOf DEF Amount
<1> HIDE DEF a, b
<1>4. SentFor(m, client, k) = (IF a.how \in Speaks(client) THEN a ELSE NoThinking)
      /\ SentFor(m, client, l) = (IF b.how \in Speaks(client) THEN b ELSE NoThinking)
  BY DEF SentFor, Sent, a, b
<1>5. NoThinking.much <= NoThinking.much
  BY DEF NoThinking
<1> QED BY <1>3, <1>4, <1>5

-----------------------------------------------------------------------------
\* Nothing runs at first.
LEMMA ChoiceBegins == ModelChoiceInit => ChoiceInv
BY DEF ModelChoiceInit, ChoiceInv, ChoiceTypes, Attached, Running, Off, Levels, High

\* Every action keeps the types.
LEMMA ChoiceTypesStep == ChoiceInv /\ [ModelChoiceNext]_choiceVars => ChoiceTypes'
<1> SUFFICES ASSUME ChoiceInv, [ModelChoiceNext]_choiceVars PROVE ChoiceTypes'
  OBVIOUS
<1> USE DEF ChoiceInv
<1>1. ASSUME NEW d \in ModelFiles, ChangeFiles(d) PROVE ChoiceTypes'
  BY <1>1, ModelChoiceConstants DEF ChangeFiles, ChoiceTypes, Running
<1>2. ASSUME NEW e, StartSession(e) PROVE ChoiceTypes'
  <2>1. found \in FileEntries /\ UNCHANGED <<found, listing, saved>> /\ listing = NoFiles
    BY <1>2 DEF StartSession, ChoiceTypes
  <2> DEFINE id == Resolve(Load(found), saved.id, e)
  <2> DEFINE trimmed == TrimCatalog(Load(found), id)
  <2>2. using' = [id |-> id, client |-> IF id = NoID THEN "none" ELSE ClientFor(Load(found), id),
                  level |-> ClampIn(trimmed, id, saved.level)]
    BY <1>2 DEF StartSession
  <2> HIDE DEF id, trimmed
  <2>3. ClampIn(trimmed, id, saved.level) \in Levels
    BY ClampFacts DEF ClampIn, ChoiceTypes
  <2> QED BY <2>1, <2>2, <2>3 DEF ChoiceTypes
<1>3. CASE EndSession
  BY <1>3 DEF EndSession, ChoiceTypes, Off, Levels, High, Running
<1>4. CASE PickByKey
  BY <1>4 DEF PickByKey, ChoiceTypes, Running
<1>5. ASSUME NEW inFull \in BOOLEAN, PickBySlash(inFull) PROVE ChoiceTypes'
  BY <1>5 DEF PickBySlash, ChoiceTypes, Running
<1>6. CASE ClosePicker
  BY <1>6 DEF ClosePicker, ChoiceTypes, Running
<1>7. ASSUME NEW id, SwitchModel(id) PROVE ChoiceTypes'
  <2> DEFINE level == Clamp(using.level, listing.models[id])
  <2>1. /\ using' = [id |-> id, client |-> ClientFor(listing, id), level |-> level]
        /\ saved' = [id |-> id, level |-> level]
        /\ listing' = NoFiles /\ found' = found /\ listing # NoFiles
    BY <1>7 DEF SwitchModel
  <2>2. level \in Levels
    BY ClampFacts DEF ChoiceTypes
  <2> HIDE DEF level
  <2> QED BY <2>1, <2>2 DEF ChoiceTypes
<1>8. CASE CycleLevel
  <2> DEFINE next == IF using.id \in DOMAIN known.models
                     THEN NextLevel(using.level, known.models[using.id]) ELSE (using.level + 1) % 6
  <2>1. /\ using' = [using EXCEPT !.level = next] /\ saved' = [saved EXCEPT !.level = next]
        /\ UNCHANGED <<found, listing>> /\ Running
    BY <1>8 DEF CycleLevel
  <2>2. next \in Levels
    <3>1. (using.level + 1) % 6 \in Levels
      BY DEF ChoiceTypes, Levels
    <3> QED BY <3>1, NextLevelFacts DEF ChoiceTypes
  <2> HIDE DEF next
  <2>3. /\ using' = [id |-> using.id, client |-> using.client, level |-> next]
        /\ saved' = [id |-> saved.id, level |-> next]
    BY <2>1 DEF ChoiceTypes
  <2> QED BY <2>1, <2>2, <2>3 DEF ChoiceTypes, Running
<1>9. CASE RereadCatalog
  BY <1>9 DEF RereadCatalog, ChoiceTypes, Running
<1>10. CASE UNCHANGED choiceVars
  BY <1>10 DEF choiceVars, ChoiceTypes, Running
<1> QED BY <1>1, <1>2, <1>3, <1>4, <1>5, <1>6, <1>7, <1>8, <1>9, <1>10 DEF ModelChoiceNext

\* A level the clamp found is kept by it.
LEMMA ClampTwice ==
    ASSUME NEW m, NEW l \in Levels
    PROVE  /\ Clamp(Clamp(l, m), m) = Clamp(l, m)
           /\ IF SupportedBy(m) = {} THEN Clamp(l, m) = 0 ELSE Clamp(l, m) \in SupportedBy(m)
<1>1. Clamp(l, m) \in Levels
  BY ClampFacts
<1> QED BY <1>1, ClampFacts

\* So does a level the next one found, if the level before was the model's.
LEMMA NextIsKept ==
    ASSUME NEW m, NEW l \in Levels, SupportedBy(m) = {} => l = 0
    PROVE  /\ Clamp(NextLevel(l, m), m) = NextLevel(l, m)
           /\ IF SupportedBy(m) = {} THEN NextLevel(l, m) = 0 ELSE NextLevel(l, m) \in SupportedBy(m)
<1>1. NextLevel(l, m) \in Levels
  BY NextLevelFacts
<1> QED BY <1>1, ClampFacts, NextLevelFacts

Sound == /\ KnownSound(found, using, known)
         /\ LevelSound(found, using)
         /\ SavedSound(found, using, saved, env)

\* The catalog a session keeps describes its model as the files do.
LEMMA KnowsModel ==
    ASSUME NEW f \in FileEntries, NEW session, NEW catalog, KnownSound(f, session, catalog)
    PROVE  /\ session.id \in DOMAIN catalog.models
           /\ catalog.models[session.id] = Load(f).models[session.id]
<1>1. session.id \in EnabledIn(Load(f))
      /\ catalog \in {Load(f), TrimCatalog(Load(f), session.id)}
  BY DEF KnownSound
<1>2. session.id \in DOMAIN Load(f).models
  BY <1>1 DEF EnabledIn
<1>3. /\ session.id \in DOMAIN TrimCatalog(Load(f), session.id).models
      /\ TrimCatalog(Load(f), session.id).models[session.id] = Load(f).models[session.id]
  BY <1>1, TrimFacts
<1> QED BY <1>1, <1>2, <1>3

\* Every action keeps what the session knows of its model.
LEMMA SoundStep == ChoiceInv /\ [ModelChoiceNext]_choiceVars /\ Attached' => Sound'
<1> SUFFICES ASSUME ChoiceInv, [ModelChoiceNext]_choiceVars, Attached' PROVE Sound'
  OBVIOUS
<1> USE DEF ChoiceInv
<1>0. Attached /\ UNCHANGED <<found, using, known, saved, env>> => Sound'
  BY DEF Sound
<1>1. ASSUME NEW d \in ModelFiles, ChangeFiles(d) PROVE FALSE
  BY <1>1 DEF ChangeFiles, Attached, Running
<1>2. ASSUME NEW e, StartSession(e) PROVE Sound'
  <2> DEFINE id == Resolve(Load(found), saved.id, e)
  <2> DEFINE m == Load(found).models[id]
  <2>1. /\ found \in FileEntries /\ UNCHANGED <<found, saved>> /\ env' = e
        /\ using' = [id |-> id, client |-> IF id = NoID THEN "none" ELSE ClientFor(Load(found), id),
                     level |-> ClampIn(TrimCatalog(Load(found), id), id, saved.level)]
        /\ known' = IF id = NoID THEN Load(found) ELSE TrimCatalog(Load(found), id)
    BY <1>2 DEF StartSession, ChoiceTypes
  <2> HIDE DEF id
  <2>2. id # NoID
    BY <2>1 DEF Attached
  <2>3. found.key /\ id \in EnabledIn(Load(found))
    BY <2>1, <2>2, ResolveFacts DEF id
  <2>4. ClientFor(Load(found), id) = ClientOf(m)
    BY <2>1, <2>3, LoadFacts DEF ClientFor
  <2>5. ClampIn(TrimCatalog(Load(found), id), id, saved.level) = Clamp(saved.level, m)
    BY <2>1, <2>3, TrimFacts DEF ClampIn
  <2> HIDE DEF m
  <2>6. using' = [id |-> id, client |-> ClientOf(m), level |-> Clamp(saved.level, m)]
    BY <2>1, <2>2, <2>4, <2>5
  <2>7. Load(found).models[using'.id] = m
    BY <2>6 DEF m
  <2>8. KnownSound(found, using', known')
    BY <2>1, <2>2, <2>3, <2>6, <2>7 DEF KnownSound
  <2>9. LevelSound(found, using')
    BY <2>6, <2>7, ClampTwice DEF LevelSound, ChoiceTypes
  <2>10. SavedSound(found, using', saved, e)
    BY <2>6, <2>7 DEF SavedSound, id
  <2> QED BY <2>1, <2>8, <2>9, <2>10 DEF Sound
<1>3. CASE EndSession
  BY <1>3 DEF EndSession, Attached, Running, Off
<1>4. CASE PickByKey
  <2>1. Attached /\ UNCHANGED <<found, using, saved, env>> /\ known' = Load(found)
    BY <1>4 DEF PickByKey, Attached, Running
  <2> QED BY <2>1 DEF Sound, KnownSound
<1>5. ASSUME NEW inFull \in BOOLEAN, PickBySlash(inFull) PROVE Sound'
  BY <1>0, <1>5 DEF PickBySlash, Attached, Running
<1>6. CASE ClosePicker
  BY <1>0, <1>6 DEF ClosePicker, Attached, Running
<1>7. ASSUME NEW id, SwitchModel(id) PROVE Sound'
  <2>1. /\ found \in FileEntries /\ listing = Load(found) /\ id \in EnabledIn(listing)
        /\ UNCHANGED <<found, env>>
    BY <1>7 DEF SwitchModel, Attached, ChoiceTypes
  <2> DEFINE m == Load(found).models[id]
  <2>2. /\ using' = [id |-> id, client |-> ClientFor(Load(found), id), level |-> Clamp(using.level, m)]
        /\ saved' = [id |-> id, level |-> Clamp(using.level, m)]
        /\ known' = TrimCatalog(Load(found), id)
    BY <1>7, <2>1 DEF SwitchModel
  <2>3. ClientFor(Load(found), id) = IF found.key THEN ClientOf(m) ELSE "none"
    BY <2>1, LoadFacts DEF ClientFor
  <2> HIDE DEF m
  <2>4. Load(found).models[using'.id] = m
    BY <2>2 DEF m
  <2>5. KnownSound(found, using', known')
    BY <2>1, <2>2, <2>3, <2>4 DEF KnownSound
  <2>6. LevelSound(found, using')
    BY <2>2, <2>4, ClampTwice DEF LevelSound, ChoiceTypes
  <2>7. SavedSound(found, using', saved', env)
    <3>1. using'.client # "none" => found.key
      BY <2>2, <2>3
    <3>2. env = Undecided => ~env.provider
      BY DEF Undecided
    <3>3. found.key /\ ~env.provider => Resolve(Load(found), id, env) = id
      BY <2>1, ResolveFacts
    <3>4. Clamp(Clamp(using.level, m), m) = Clamp(using.level, m)
      BY ClampTwice DEF ChoiceTypes
    <3> QED BY <2>2, <2>4, <3>1, <3>2, <3>3, <3>4 DEF SavedSound
  <2> QED BY <2>1, <2>5, <2>6, <2>7 DEF Sound
<1>8. CASE CycleLevel
  <2>1. /\ Attached /\ UNCHANGED <<found, known, env>> /\ found \in FileEntries
        /\ using'.id = using.id /\ using'.client = using.client /\ saved'.id = saved.id
    BY <1>8 DEF CycleLevel, Attached, Running, ChoiceTypes
  <2> DEFINE m == Load(found).models[using.id]
  <2>2. using.id \in DOMAIN known.models /\ known.models[using.id] = m
    BY <2>1, KnowsModel
  <2>3. using'.level = NextLevel(using.level, m) /\ saved'.level = NextLevel(using.level, m)
    BY <1>8, <2>2 DEF CycleLevel, ChoiceTypes
  <2>4. /\ Clamp(NextLevel(using.level, m), m) = NextLevel(using.level, m)
        /\ IF SupportedBy(m) = {} THEN NextLevel(using.level, m) = 0
           ELSE NextLevel(using.level, m) \in SupportedBy(m)
    BY <2>1, NextIsKept DEF LevelSound, ChoiceTypes
  <2> HIDE DEF m
  <2>5. Load(found).models[using'.id] = m
    BY <2>1 DEF m
  <2>6. KnownSound(found, using', known)
    BY <2>1 DEF KnownSound
  <2>7. LevelSound(found, using')
    BY <2>3, <2>4, <2>5 DEF LevelSound
  <2>8. SavedSound(found, using', saved', env)
    BY <2>1, <2>3, <2>4, <2>5 DEF SavedSound
  <2> QED BY <2>1, <2>6, <2>7, <2>8 DEF Sound
<1>9. CASE RereadCatalog
  <2>1. /\ Attached /\ UNCHANGED <<found, using, saved, env>>
        /\ known' = TrimCatalog(Load(found), using.id)
    BY <1>9 DEF RereadCatalog, Attached, Running
  <2> QED BY <2>1 DEF Sound, KnownSound
<1>10. CASE UNCHANGED choiceVars
  BY <1>0, <1>10 DEF choiceVars, Attached, Running
<1> QED BY <1>1, <1>2, <1>3, <1>4, <1>5, <1>6, <1>7, <1>8, <1>9, <1>10 DEF ModelChoiceNext

\* The invariant makes the choice what the session shows.
LEMMA ShownAsChosen == ChoiceInv => ModelAsShown
<1> SUFFICES ASSUME ChoiceInv, Attached PROVE ModelAsShown
  BY DEF ModelAsShown, Attached
<1> DEFINE m == Load(found).models[using.id]
<1> DEFINE ask == {k \in SupportedBy(m) : k # 0}
<1>1. found \in FileEntries /\ Sound
  BY DEF ChoiceInv, ChoiceTypes, Attached, Sound
<1>2. using.client = IF found.key THEN ClientOf(m) ELSE "none"
  BY <1>1 DEF Sound, KnownSound
<1>3. m.api \in {"openai", "anthropic"}
  BY <1>1, LoadFacts DEF Sound, KnownSound, EnabledIn
<1>4. using.id \in DOMAIN known.models /\ known.models[using.id] = m
  BY <1>1, KnowsModel DEF Sound
<1>5. SupportedBy(m) # {} => using.level \in SupportedBy(m)
  BY <1>1 DEF Sound, LevelSound
<1>6. /\ using.client # "none" /\ env = Undecided =>
           /\ Resolve(Load(found), saved.id, env) = using.id
           /\ Clamp(saved.level, m) = using.level
  BY <1>1 DEF Sound, SavedSound
<1> HIDE DEF m
<1>7. Asked(0) = NoThinking
  BY DEF Asked, TurnThinking, Sent
<1>8. ASSUME NEW k \in ask PROVE Asked(k) = SentFor(m, using.client, k)
  <2>1. ResolveThinking(m, k).how # "none"
    BY ThinkingOf
  <2>2. ResolveThinking(m, k) # NoThinking
    BY <2>1 DEF NoThinking
  <2>3. TurnThinking(known, using.id, k) = ResolveThinking(m, k)
    BY <1>4, <2>2 DEF TurnThinking
  <2> QED BY <2>3 DEF Asked, SentFor
<1>9. ASSUME using.client # "none", m.format # "deepseek", NEW k \in ask PROVE Asked(k) # NoThinking
  <2>1. using.client = ClientOf(m)
    BY <1>2, <1>9
  <2>2. Asked(k) = ResolveThinking(m, k)
    BY <1>3, <1>8, <1>9, <2>1, SpeaksIt
  <2>3. ResolveThinking(m, k).how # "none"
    BY ThinkingOf
  <2> QED BY <2>2, <2>3 DEF NoThinking
<1>10. ASSUME NEW k \in ask \ m.own, NEW l \in ask \ m.own, k < l
       PROVE  Asked(k).much <= Asked(l).much
  <2>1. SentFor(m, using.client, k).much <= SentFor(m, using.client, l).much
    BY <1>10, NoLess
  <2> QED BY <1>8, <2>1
<1>11. SupportedBy(m) # {} => LevelsClicked(m) = SupportedBy(m)
  BY <1>5, ClicksReachAll
<1>12. found.key => using.client = ClientOf(m)
  BY <1>2
<1> HIDE DEF ask
<1>13. /\ found.key => using.client = ClientOf(m)
       /\ SupportedBy(m) # {} => LevelsClicked(m) = SupportedBy(m)
       /\ using.client # "none" /\ m.format # "deepseek" => \A k \in ask : Asked(k) # NoThinking
       /\ Asked(0) = NoThinking
       /\ \A k, l \in ask \ m.own : k < l => Asked(k).much <= Asked(l).much
       /\ using.client # "none" /\ env = [provider |-> FALSE, model |-> NoID] =>
            /\ Resolve(Load(found), saved.id, env) = using.id
            /\ Clamp(saved.level, m) = using.level
  BY <1>6, <1>7, <1>9, <1>10, <1>11, <1>12, Zenon DEF Undecided
<1> QED BY <1>13, Zenon DEF ModelAsShown, m, ask

(***************************************************************************)
(* The model and the level shown are what a request asks for, every level  *)
(* the model has can be reached, and a restart brings both back.  Left out *)
(* are files that have changed since the model was chosen, a model picked  *)
(* from the list without credentials and, for the request, the deepseek    *)
(* format                                                                  *)
(* (pkg/ai/provider/thinking.go, registry.go, catalog_trim.go,             *)
(* internal/renderer/model_selector.go).                                   *)
(***************************************************************************)
THEOREM ModelStaysAsShown == ModelChoiceSpec => []ModelAsShown
<1>1. ChoiceInv /\ [ModelChoiceNext]_choiceVars => ChoiceInv'
  <2> SUFFICES ASSUME ChoiceInv, [ModelChoiceNext]_choiceVars PROVE ChoiceInv'
    OBVIOUS
  <2>1. ChoiceTypes' /\ (Attached' => Sound')
    BY ChoiceTypesStep, SoundStep
  <2> QED BY <2>1 DEF ChoiceInv, Sound
<1> QED BY <1>1, ChoiceBegins, ShownAsChosen, PTL DEF ModelChoiceSpec
-----------------------------------------------------------------------------
(***************************************************************************)
(* For any groups of models and any size of the window: what Enter takes   *)
(* is a row the user sees, and narrowing keeps the highlighted model.      *)
(***************************************************************************)

PickerRows == Seq(Nat \ {0})
PickerLists == {l \in Seq(PickerRows) : Len(l) = Len(Groups)}

\* The highlighted row is in the list and in the window, which has no gap below.
RowSeen(flat, row, top) ==
    flat # <<>> => /\ row \in 0 .. Len(flat) - 1
                   /\ row \in top .. top + Window - 1
                   /\ top + Window <= Greater(Len(flat), Window)

PickerInv ==
    /\ listed \in PickerLists /\ provider \in {0} \cup DOMAIN listed
    /\ selected \in Nat /\ scroll \in Nat /\ opened \in BOOLEAN
    /\ opened => RowSeen(Flat, selected, scroll)

\* All groups one after the other, or one of them, are a list of models.
LEMMA FlattenedRows ==
    ASSUME NEW l \in Seq(PickerRows), NEW p \in {0} \cup DOMAIN l
    PROVE  Flattened(l, p) \in PickerRows
<1>1. CASE p # 0
  BY <1>1 DEF Flattened
<1>2. CASE p = 0
  <2> DEFINE Def(f) == f = [n \in 0 .. Len(l) |-> IF n = 0 THEN <<>> ELSE f[n - 1] \o l[n]]
             joined == CHOOSE f : Def(f)
             step == [n \in 1 .. Len(l) |-> [s \in PickerRows |-> s \o l[n]]]
  <2>1. /\ Len(l) \in Nat /\ <<>> \in PickerRows
        /\ \A n \in 1 .. Len(l) : l[n] \in PickerRows
        /\ \A s, t \in PickerRows : s \o t \in PickerRows
    BY DEF PickerRows
  <2>2. step \in [1 .. Len(l) -> [PickerRows -> PickerRows]]
    BY <2>1
  <2>3. PICK f \in [0 .. Len(l) -> PickerRows] :
           f[0] = <<>> /\ \A n \in 1 .. Len(l) : f[n] = step[n][f[n - 1]]
    <3> DEFINE none == <<>>
               last == Len(l)
    <3>1. last \in Nat /\ none \in PickerRows /\ step \in [1 .. last -> [PickerRows -> PickerRows]]
      BY <2>1, <2>2
    <3> HIDE DEF step, none, last
    <3>2. \E f : Follows(f, last, PickerRows, none, step)
      BY <3>1, Recursion
    <3> QED BY <3>2 DEF none, last, Follows
  <2>4. \A n \in 0 .. Len(l) : f[n] = IF n = 0 THEN <<>> ELSE f[n - 1] \o l[n]
    <3>1. ASSUME NEW n \in 1 .. Len(l) PROVE f[n] = f[n - 1] \o l[n]
      <4>1. f[n - 1] \in PickerRows
        BY <3>1, <2>3
      <4> QED BY <2>3, <4>1
    <3>2. f[0] = <<>>
      BY <2>3
    <3>3. \A n \in 0 .. Len(l) : n = 0 \/ n \in 1 .. Len(l)
      BY <2>1
    <3> HIDE DEF step
    <3>4. ASSUME NEW n \in 0 .. Len(l) PROVE f[n] = IF n = 0 THEN <<>> ELSE f[n - 1] \o l[n]
      <4>1. CASE n = 0
        BY <3>2, <4>1
      <4>2. CASE n # 0
        BY <3>1, <3>3, <4>2, Zenon
      <4> QED BY <4>1, <4>2
    <3> QED BY <3>4
  <2>5. f = [n \in 0 .. Len(l) |-> f[n]]
    BY <2>3
  <2>6. Def(f)
    BY <2>4, <2>5
  <2>7. Def(joined)
    <3> HIDE DEF Def
    <3> QED BY <2>6
  <2>8. Flattened(l, p) = joined[Len(l)]
    BY <1>2 DEF Flattened
  <2> HIDE DEF joined
  <2> DEFINE T == {n \in 0 .. Len(l) : joined[n] \in PickerRows}
  <2>9. \A n \in 0 .. Len(l) : joined[n] = IF n = 0 THEN <<>> ELSE joined[n - 1] \o l[n]
    BY <2>7
  <2>10. 0 \in T /\ \A n \in 1 .. Len(l) : n - 1 \in T => n \in T
    BY <2>1, <2>9
  <2>11. \A n \in 0 .. Len(l) : n \in T
    <3> HIDE DEF T
    <3> QED BY <2>1, <2>10, Induction
  <2>12. Len(l) \in T
    <3>1. Len(l) \in 0 .. Len(l)
      BY <2>1
    <3> QED BY <2>11, <3>1
  <2> QED BY <2>8, <2>12
<1> QED BY <1>1, <1>2

\* syncModelSelectorScroll brings row and window into place.
LEMMA SyncedSees ==
    ASSUME NEW flat \in PickerRows, NEW row \in Nat, NEW top \in Nat, Synced(flat, row, top)
    PROVE  /\ selected' \in Nat /\ scroll' \in Nat
           /\ row < Len(flat) => selected' = row
           /\ RowSeen(flat, selected', scroll')
<1>1. Len(flat) \in Nat /\ (flat = <<>> <=> Len(flat) = 0) /\ Window \in Nat \ {0}
  BY PickerConstants DEF PickerRows
<1>2. CASE flat = <<>>
  BY <1>1, <1>2 DEF Synced, RowSeen
<1>3. CASE flat # <<>>
  BY <1>1, <1>3 DEF Synced, RowSeen, Least, Greater
<1> QED BY <1>2, <1>3

\* SelectorPickIndex finds a model that is listed.
LEMMA PickedRow ==
    ASSUME NEW flat \in PickerRows, NEW m
    PROVE  /\ PickIndex(flat, m) \in Nat
           /\ (\E i \in DOMAIN flat : flat[i] = m) =>
                PickIndex(flat, m) < Len(flat) /\ flat[PickIndex(flat, m) + 1] = m
<1>1. Len(flat) \in Nat /\ DOMAIN flat = 1 .. Len(flat)
  BY DEF PickerRows
<1>2. CASE \E i \in DOMAIN flat : flat[i] = m
  <2> DEFINE i == CHOOSE k \in DOMAIN flat : flat[k] = m
  <2>1. i \in DOMAIN flat /\ flat[i] = m
    BY <1>2
  <2>2. PickIndex(flat, m) = i - 1
    BY <1>2 DEF PickIndex
  <2> HIDE DEF i
  <2>3. i \in 1 .. Len(flat) /\ i - 1 \in Nat /\ i - 1 < Len(flat) /\ (i - 1) + 1 = i
    BY <1>1, <2>1
  <2> QED BY <2>1, <2>2, <2>3
<1>3. CASE ~ \E i \in DOMAIN flat : flat[i] = m
  BY <1>3 DEF PickIndex
<1> QED BY <1>2, <1>3

\* The models a query leaves of the groups are groups.
LEMMA Narrowed ==
    ASSUME NEW matches
    PROVE  [p \in DOMAIN Groups |->
              ElementsAt(Groups[p], {i \in DOMAIN Groups[p] : Groups[p][i] \in matches})]
             \in PickerLists
<1> DEFINE kept(p) == {i \in DOMAIN Groups[p] : Groups[p][i] \in matches}
           l == [p \in DOMAIN Groups |-> ElementsAt(Groups[p], kept(p))]
<1>1. Groups \in Seq(PickerRows) /\ Len(Groups) \in Nat
  BY PickerConstants DEF PickerRows
<1>2. ASSUME NEW p \in DOMAIN Groups PROVE ElementsAt(Groups[p], kept(p)) \in PickerRows
  <2>1. Groups[p] \in Seq(Nat \ {0}) /\ kept(p) \in SUBSET DOMAIN Groups[p]
    BY <1>1 DEF PickerRows
  <2> HIDE DEF kept
  <2> QED BY <2>1, ElementsKept DEF PickerRows
<1> HIDE DEF kept
<1>3. l \in [1 .. Len(Groups) -> PickerRows]
  BY <1>1, <1>2
<1>4. l \in Seq(PickerRows) /\ Len(l) = Len(Groups)
  <2> HIDE DEF l
  <2> QED BY <1>1, <1>3
<1> QED BY <1>4 DEF PickerLists, kept

\* What the highlighted row must be after a list was narrowed.
Holds(flat, row, other, now) ==
    Highlighted(flat, row) # 0 =>
      \/ Highlighted(other, now) = Highlighted(flat, row)
      \/ \A i \in DOMAIN other : other[i] # Highlighted(flat, row)

\* A list that is narrowed keeps its highlighted model, if it is still listed.
LEMMA PickHolds ==
    ASSUME NEW flat \in PickerRows, NEW m, NEW top \in Nat,
           Synced(flat, PickIndex(flat, m), top)
    PROVE  (\E i \in DOMAIN flat : flat[i] = m) => Highlighted(flat, selected') = m
<1> SUFFICES ASSUME \E i \in DOMAIN flat : flat[i] = m PROVE Highlighted(flat, selected') = m
  OBVIOUS
<1>1. PickIndex(flat, m) \in Nat /\ PickIndex(flat, m) < Len(flat)
      /\ flat[PickIndex(flat, m) + 1] = m
  BY PickedRow
<1>2. selected' = PickIndex(flat, m)
  BY <1>1, SyncedSees
<1>3. PickIndex(flat, m) + 1 \in DOMAIN flat
  BY <1>1 DEF PickerRows
<1> QED BY <1>1, <1>2, <1>3 DEF Highlighted

\* Groups are lists of models.
LEMMA AllGroups == Groups \in PickerLists /\ PickerLists \subseteq Seq(PickerRows)
BY PickerConstants DEF PickerLists, PickerRows

LEMMA Narrow ==
    ASSUME PickerInv, NEW matches, Query(matches)
    PROVE  PickerInv' /\ Holds(Flat, selected, Flat', selected')
<1> DEFINE l == [p \in DOMAIN Groups |->
                   ElementsAt(Groups[p], {i \in DOMAIN Groups[p] : Groups[p][i] \in matches})]
           q == IF provider \in PickerProviders(l) THEN provider ELSE 0
           flat == Flattened(l, q)
           m == Highlighted(Flat, selected)
           row == IF m # 0 THEN PickIndex(flat, m)
                  ELSE IF selected >= Len(flat) THEN Greater(Len(flat) - 1, 0) ELSE selected
<1>1. /\ opened /\ listed' = l /\ provider' = q /\ Synced(flat, row, scroll)
      /\ UNCHANGED <<opened, confirmed>>
  BY Zenon DEF Query
<1>2. l \in PickerLists
  BY Narrowed
<1> HIDE DEF l
<1>3. q \in {0} \cup DOMAIN l
  BY DEF PickerProviders
<1> HIDE DEF q
<1>4. flat \in PickerRows /\ Flat' = flat
  BY <1>1, <1>2, <1>3, AllGroups, FlattenedRows DEF Flat
<1> HIDE DEF flat
<1>5. row \in Nat /\ scroll \in Nat
  <2>1. Len(flat) \in Nat
    BY <1>4 DEF PickerRows
  <2> QED BY <1>4, <2>1, PickedRow DEF PickerInv, Greater
<1>6. selected' \in Nat /\ scroll' \in Nat /\ RowSeen(flat, selected', scroll')
  <2> HIDE DEF row
  <2> QED BY <1>1, <1>4, <1>5, SyncedSees
<1>7. PickerInv'
  BY <1>1, <1>2, <1>3, <1>4, <1>6 DEF PickerInv
<1>8. ASSUME m # 0 PROVE (\E i \in DOMAIN flat : flat[i] = m) => Highlighted(flat, selected') = m
  <2>1. Synced(flat, PickIndex(flat, m), scroll)
    BY <1>1, <1>8
  <2> HIDE DEF m
  <2> QED BY <1>4, <1>5, <2>1, PickHolds
<1>9. Holds(Flat, selected, flat, selected')
  BY <1>8 DEF Holds
<1> QED BY <1>4, <1>7, <1>9

LEMMA Cycled ==
    ASSUME PickerInv, NEW step \in {-1, 1}, Cycle(step)
    PROVE  PickerInv' /\ Holds(Flat, selected, Flat', selected')
<1> DEFINE slots == {0} \cup PickerProviders(listed)
           next == IF step = 1
                   THEN IF \E s \in slots : s > provider
                        THEN CHOOSE s \in slots : s > provider /\ \A t \in slots : t > provider => s <= t
                        ELSE 0
                   ELSE IF provider = 0 THEN CHOOSE s \in slots : \A t \in slots : t <= s
                        ELSE CHOOSE s \in slots : s < provider /\ \A t \in slots : t < provider => t <= s
           flat == Flattened(listed, next)
           m == Highlighted(Flat, selected)
<1>1. /\ opened /\ PickerProviders(listed) # {} /\ provider' = next
      /\ Synced(flat, PickIndex(flat, m), scroll)
      /\ UNCHANGED <<listed, opened, confirmed>>
  BY Zenon DEF Cycle
<1>2. next \in slots
  <2> DEFINE n == Len(listed)
  <2>1. n \in Nat /\ slots \in SUBSET (0 .. n) /\ 0 \in slots /\ provider \in 0 .. n
    BY AllGroups DEF PickerInv, PickerLists, PickerProviders
  <2> HIDE DEF n, slots
  <2>2. ASSUME NEW above \in SUBSET slots, above # {}
        PROVE  \E s \in above : \A t \in above : s <= t
    BY <2>1, <2>2, LeastNumber
  <2>3. ASSUME NEW below \in SUBSET slots, below # {}
        PROVE  \E s \in below : \A t \in below : t <= s
    <3>1. below \in SUBSET (0 .. n)
      BY <2>1
    <3>2. Max(below) \in below /\ \A t \in below : t <= Max(below)
      BY <2>1, <2>3, <3>1, MaxIsGreatest
    <3> QED BY <3>2
  <2>4. ASSUME \E s \in slots : s > provider
        PROVE  \E s \in slots : s > provider /\ \A t \in slots : t > provider => s <= t
    <3> DEFINE above == {s \in slots : s > provider}
    <3>1. above \in SUBSET slots /\ above # {}
      BY <2>4
    <3>2. PICK s \in above : \A t \in above : s <= t
      <4> HIDE DEF above
      <4> QED BY <2>2, <3>1
    <3> QED BY <3>2
  <2>5. \E s \in slots : \A t \in slots : t <= s
    BY <2>1, <2>3
  <2>6. ASSUME provider # 0
        PROVE  \E s \in slots : s < provider /\ \A t \in slots : t < provider => t <= s
    <3> DEFINE below == {s \in slots : s < provider}
    <3>1. below \in SUBSET slots /\ below # {}
      BY <2>1, <2>6
    <3>2. PICK s \in below : \A t \in below : t <= s
      <4> HIDE DEF below
      <4> QED BY <2>3, <3>1
    <3> QED BY <3>2
  <2>7. ASSUME step = 1 PROVE next \in slots
    <3>1. CASE \E s \in slots : s > provider
      BY <2>4, <2>7, <3>1
    <3>2. CASE ~ \E s \in slots : s > provider
      BY <2>1, <2>7, <3>2
    <3> QED BY <3>1, <3>2
  <2>8. ASSUME step # 1 PROVE next \in slots
    <3>1. CASE provider = 0
      BY <2>5, <2>8, <3>1
    <3>2. CASE provider # 0
      BY <2>6, <2>8, <3>2
    <3> QED BY <3>1, <3>2
  <2> HIDE DEF next
  <2> QED BY <2>7, <2>8
<1> HIDE DEF next
<1>3. next \in {0} \cup DOMAIN listed
  BY <1>2 DEF PickerProviders
<1>4. flat \in PickerRows /\ Flat' = flat
  BY <1>1, <1>3, AllGroups, FlattenedRows DEF Flat, PickerInv
<1> HIDE DEF flat, m
<1>5. PickIndex(flat, m) \in Nat /\ scroll \in Nat
  BY <1>4, PickedRow DEF PickerInv
<1>6. selected' \in Nat /\ scroll' \in Nat /\ RowSeen(flat, selected', scroll')
  BY <1>1, <1>4, <1>5, SyncedSees
<1>7. PickerInv'
  BY <1>1, <1>3, <1>4, <1>6 DEF PickerInv
<1>8. (\E i \in DOMAIN flat : flat[i] = m) => Highlighted(flat, selected') = m
  BY <1>1, <1>4, <1>5, PickHolds
<1> QED BY <1>4, <1>7, <1>8 DEF Holds, m

LEMMA Moved ==
    ASSUME PickerInv, NEW step \in {-1, 1}, Move(step)
    PROVE  PickerInv' /\ Flat' = Flat
<1> DEFINE row == IF step = 1 THEN Least(selected + 1, Len(Flat) - 1) ELSE Greater(selected - 1, 0)
<1>1. /\ opened /\ (step = 1 => Flat # <<>>) /\ Synced(Flat, row, scroll)
      /\ UNCHANGED <<listed, provider, opened, confirmed>>
  BY DEF Move
<1>2. Flat \in PickerRows /\ Flat' = Flat
  BY <1>1, AllGroups, FlattenedRows DEF Flat, PickerInv
<1>3. Len(Flat) \in Nat /\ (Flat # <<>> => Len(Flat) > 0)
  BY <1>2 DEF PickerRows
<1>4. row \in Nat /\ scroll \in Nat
  BY <1>1, <1>3 DEF PickerInv, Least, Greater
<1> HIDE DEF row
<1>5. selected' \in Nat /\ scroll' \in Nat /\ RowSeen(Flat, selected', scroll')
  BY <1>1, <1>2, <1>4, SyncedSees
<1> QED BY <1>1, <1>2, <1>5 DEF PickerInv

LEMMA Opened == ASSUME PickerInv, OpenPicker PROVE PickerInv'
<1> DEFINE flat == Flattened(Groups, 0)
<1>1. /\ opened' = TRUE /\ listed' = Groups /\ provider' = 0
      /\ Synced(flat, PickIndex(flat, ActiveModel), 0)
  BY DEF OpenPicker
<1>2. flat \in PickerRows /\ Flat' = flat
  BY <1>1, AllGroups, FlattenedRows DEF Flat
<1> HIDE DEF flat
<1>3. PickIndex(flat, ActiveModel) \in Nat
  BY <1>2, PickedRow
<1>4. selected' \in Nat /\ scroll' \in Nat /\ RowSeen(flat, selected', scroll')
  BY <1>1, <1>2, <1>3, SyncedSees
<1> QED BY <1>1, <1>2, <1>4, AllGroups DEF PickerInv

\* Whatever groups of models there are and whatever the user types, the row that Enter
\* takes is listed and visible, and stays on its model while that is listed
\* (model_selector.go:241-331).
THEOREM HighlightStaysHeld == PickerSpec => HighlightHolds
<1>1. PickerInit => PickerInv
  <2> SUFFICES ASSUME PickerInit PROVE PickerInv
    OBVIOUS
  <2>1. ~opened /\ opened \in BOOLEAN
    BY DEF PickerInit
  <2> QED BY <2>1, AllGroups DEF PickerInit, PickerInv
<1>2. PickerInv /\ [PickerNext]_pickerVars =>
        PickerInv' /\ (opened /\ opened' /\ Flat' # Flat => Holds(Flat, selected, Flat', selected'))
  <2> SUFFICES ASSUME PickerInv, [PickerNext]_pickerVars
               PROVE  PickerInv' /\ (opened /\ opened' /\ Flat' # Flat =>
                                       Holds(Flat, selected, Flat', selected'))
    OBVIOUS
  <2>1. CASE OpenPicker
    <3>1. ~opened
      BY <2>1 DEF OpenPicker
    <3> QED BY <2>1, <3>1, Opened
  <2>2. CASE Enter
    BY <2>2, AllGroups DEF Enter, PickerInv
  <2>3. ASSUME NEW step \in {-1, 1}, Cycle(step)
        PROVE  PickerInv' /\ Holds(Flat, selected, Flat', selected')
    BY <2>3, Cycled
  <2>4. ASSUME NEW step \in {-1, 1}, Move(step) PROVE PickerInv' /\ Flat' = Flat
    BY <2>4, Moved
  <2>5. ASSUME NEW matches \in SUBSET PickerModels, Query(matches)
        PROVE  PickerInv' /\ Holds(Flat, selected, Flat', selected')
    BY <2>5, Narrow
  <2>6. CASE UNCHANGED pickerVars
    BY <2>6 DEF pickerVars, PickerInv, Flat, RowSeen
  <2> QED BY <2>1, <2>2, <2>3, <2>4, <2>5, <2>6 DEF PickerNext
<1>3. PickerInv => (opened /\ Flat # <<>> =>
                      /\ selected \in 0 .. Len(Flat) - 1
                      /\ selected \in scroll .. scroll + Window - 1
                      /\ scroll + Window <= Greater(Len(Flat), Window))
  BY DEF PickerInv, RowSeen
<1>4. PickerInv /\ [PickerNext]_pickerVars =>
        [opened /\ opened' /\ Flat' # Flat /\ Highlighted(Flat, selected) # 0
            => \/ Highlighted(Flat', selected') = Highlighted(Flat, selected)
               \/ \A i \in DOMAIN Flat' : Flat'[i] # Highlighted(Flat, selected)]_pickerVars
  BY <1>2 DEF Holds
<1> QED BY <1>1, <1>2, <1>3, <1>4, PTL DEF PickerSpec, HighlightHolds
=============================================================================
