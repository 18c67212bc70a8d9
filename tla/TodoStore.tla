------------------------------ MODULE TodoStore ------------------------------
(***************************************************************************)
(* The todo list of a session: pkg/tools/todolist, the TodoList tool, its  *)
(* snapshot file, and what the UI does with it.  The list is one slice     *)
(* behind a pointer, with no lock.  A turn writes it from its goroutine    *)
(* and reports the start and the end of each call; the UI, some events     *)
(* behind, announces a completed list and clears it.                       *)
(***************************************************************************)
EXTENDS Naturals, Sequences

CONSTANTS
    TodoTurns,    \* bound: turns, those the user cancelled still running; none is 0
    MaxTodos,     \* bound: items of a list
    MaxTodoCalls  \* bound: TodoList calls of all turns

ASSUME TodoConstants == MaxTodos \in Nat /\ MaxTodoCalls \in Nat /\ 0 \notin TodoTurns

VARIABLES
    store,       \* *Session.todoStore: the statuses of the items
    snapshot,    \* todos.jsonl; without the file, the empty list
    todoCall,    \* what each turn is in: "none", "apply", "save", "write", "done"
    todoHeld,    \* the list as a turn knows it: its copy, then what it writes
    events,      \* TodoList events on their way to the UI
    panel,       \* the turn the UI shows, 0 between turns: m.agent.Busy
    todoBefore,  \* m.agent.TodoListBefore
    clearing,    \* finishNativeToolCall of a completed list: "no", "clear", "remove"
    todoCalls,   \* calls so far
    completed,   \* history: lists completed by a call
    announced,   \* history: completion notices
    todosRaced,  \* history: a turn and the UI changed the list across each other
    abandoned,   \* history: a turn was cancelled in the middle of a call
    wiped        \* history: a list with open items was cleared

todoVars == <<store, snapshot, todoCall, todoHeld, events, panel, todoBefore, clearing, todoCalls,
              completed, announced, todosRaced, abandoned, wiped>>

Todos == UNION {[1..n -> {"pending", "done"}] : n \in 0..MaxTodos}
HasActive(todos) == \E i \in DOMAIN todos : todos[i] # "done"
AllDone(todos) == Len(todos) > 0 /\ ~HasActive(todos)

TodoStoreInit ==
    /\ store = <<>> /\ snapshot = <<>> /\ todoBefore = <<>>
    /\ todoCall = [t \in TodoTurns |-> "none"] /\ todoHeld = [t \in TodoTurns |-> <<>>]
    /\ events = <<>> /\ panel = 0 /\ clearing = "no"
    /\ todoCalls = 0 /\ completed = 0 /\ announced = 0
    /\ todosRaced = FALSE /\ abandoned = FALSE /\ wiped = FALSE

uiVars == <<todoBefore, clearing, announced, wiped>>
Phase(t, p) == todoCall' = [todoCall EXCEPT ![t] = p]
Report(t, e) == events' = IF panel = t THEN Append(events, e) ELSE events
Changing == \E t \in TodoTurns : todoCall[t] \in {"save", "write"}

-----------------------------------------------------------------------------
(* The turn. *)

BeginCall(t) ==
    /\ panel = t /\ todoCall[t] = "none" /\ todoCalls < MaxTodoCalls
    /\ todoCalls' = todoCalls + 1
    /\ Phase(t, "apply") /\ Report(t, "start")
    /\ UNCHANGED <<store, snapshot, todoHeld, panel, uiVars, completed, todosRaced, abandoned>>

\* Apply: without the argument, or with one that ParseTodosArg refuses, the
\* list stays.
Apply(t) ==
    /\ todoCall[t] = "apply"
    /\ todoHeld' = [todoHeld EXCEPT ![t] = store]
    /\ Phase(t, "save")
    /\ \/ UNCHANGED <<store, completed, todosRaced>>
       \/ \E todos \in Todos :
            /\ store' = todos
            /\ completed' = completed + (IF AllDone(todos) THEN 1 ELSE 0)
            /\ todosRaced' = (todosRaced \/ clearing # "no" \/ Changing)
    /\ UNCHANGED <<snapshot, events, panel, uiVars, todoCalls, abandoned>>

\* Faulty variant of Unsaved: only longer or shorter lists are written.
UnsavedLength(t) == Len(todoHeld[t]) # Len(store)

\* The copy taken before the call against the list as it is now.
Unsaved(t) == todoHeld[t] # store

SaveTodosSnapshot(t) ==
    /\ todoCall[t] = "save"
    /\ Phase(t, IF Unsaved(t) THEN "write" ELSE "done")
    /\ todoHeld' = [todoHeld EXCEPT ![t] = store]
    /\ UNCHANGED <<store, snapshot, events, panel, uiVars, todoCalls, completed, todosRaced, abandoned>>

\* The file is replaced, or removed for an empty list; its errors are dropped.
WriteSnapshot(t) ==
    /\ todoCall[t] = "write"
    /\ snapshot' = todoHeld[t]
    /\ Phase(t, "done")
    /\ todosRaced' = (todosRaced \/ clearing # "no")
    /\ UNCHANGED <<store, todoHeld, events, panel, uiVars, todoCalls, completed, abandoned>>

EndCall(t) ==
    /\ todoCall[t] = "done"
    /\ Phase(t, "none") /\ Report(t, "done")
    /\ UNCHANGED <<store, snapshot, todoHeld, panel, uiVars, todoCalls, completed, todosRaced, abandoned>>

-----------------------------------------------------------------------------
(* The UI. *)

StartTurn(t) ==
    /\ panel = 0 /\ clearing = "no"
    /\ panel' = t
    /\ UNCHANGED <<store, snapshot, todoCall, todoHeld, events, uiVars, todoCalls, completed, todosRaced, abandoned>>

\* cancelAgentTurn: the events of the turn are dropped, its call goes on.
CancelTodoTurn ==
    /\ panel # 0 /\ clearing = "no"
    /\ abandoned' = (abandoned \/ events # <<>> \/ todoCall[panel] # "none")
    /\ panel' = 0 /\ events' = <<>> /\ todoBefore' = <<>>
    /\ UNCHANGED <<store, snapshot, todoCall, todoHeld, clearing, todoCalls, completed, announced, todosRaced, wiped>>

\* beginNativeToolCall: the list as it is by now, the call may be past it.
HandleStart ==
    /\ clearing = "no" /\ events # <<>> /\ Head(events) = "start"
    /\ todoBefore' = store /\ events' = Tail(events)
    /\ UNCHANGED <<store, snapshot, todoCall, todoHeld, panel, clearing, todoCalls, completed, announced,
                   todosRaced, abandoned, wiped>>

Announces == ~AllDone(todoBefore) /\ AllDone(store)

\* finishNativeToolCall looks at the list, then announces and clears it.
HandleDone ==
    /\ clearing = "no" /\ events # <<>> /\ Head(events) = "done"
    /\ events' = Tail(events) /\ todoBefore' = <<>>
    /\ announced' = announced + (IF Announces THEN 1 ELSE 0)
    /\ clearing' = IF AllDone(store) THEN "clear" ELSE "no"
    /\ todosRaced' = (todosRaced \/ (AllDone(store) /\ Changing))
    /\ UNCHANGED <<store, snapshot, todoCall, todoHeld, panel, todoCalls, completed, abandoned, wiped>>

ClearTodos ==
    /\ \/ /\ clearing = "clear" /\ clearing' = "remove"
          /\ store' = <<>> /\ wiped' = (wiped \/ HasActive(store))
          /\ UNCHANGED snapshot
       \/ /\ clearing = "remove" /\ clearing' = "no"
          /\ snapshot' = <<>>
          /\ UNCHANGED <<store, wiped>>
    /\ UNCHANGED <<todoCall, todoHeld, events, panel, todoBefore, todoCalls, completed, announced, todosRaced, abandoned>>

TodoStoreNext ==
    \/ \E t \in TodoTurns : \/ BeginCall(t) \/ Apply(t) \/ SaveTodosSnapshot(t)
                            \/ WriteSnapshot(t) \/ EndCall(t) \/ StartTurn(t)
    \/ CancelTodoTurn \/ HandleStart \/ HandleDone \/ ClearTodos

TodoStoreSpec == TodoStoreInit /\ [][TodoStoreNext]_todoVars

-----------------------------------------------------------------------------
TodosQuiet == events = <<>> /\ clearing = "no" /\ \A t \in TodoTurns : todoCall[t] = "none"

\* A completed list is announced at most once.  Unless a turn and the UI
\* changed it across each other, open items are never cleared, and once both
\* are at rest the file holds the list; if moreover no turn was cancelled in
\* the middle of a call, a completed list is gone.
TodosKept ==
    /\ announced <= completed
    /\ ~todosRaced =>
         /\ ~wiped
         /\ TodosQuiet => snapshot = store
         /\ TodosQuiet /\ ~abandoned => ~AllDone(store)
=============================================================================
