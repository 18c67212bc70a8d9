----------------------------- MODULE ShellRunner -----------------------------
(***************************************************************************)
(* RunShellContext of internal/runtime/shell and the Bash tool around it:  *)
(* several commands at once, each with a context that is cancelled or, for *)
(* the tool, runs out of time; a goroutine that reads the terminal, one    *)
(* that waits for the process, and the select between the two.             *)
(*                                                                         *)
(* The package xpty and the kernel are external: a read of the terminal    *)
(* returns when there is output, when the master is closed, or when no     *)
(* process has the terminal open any more.  A command may leave a process  *)
(* in the background that keeps it open.                                   *)
(***************************************************************************)
EXTENDS Naturals, FiniteSets

CONSTANTS
    Commands, \* bound: the commands of a run
    PtySlots  \* capacity of ptySema: 16

ASSUME ShellConstants == IsFiniteSet(Commands) /\ PtySlots \in Nat \ {0}

VARIABLES
    at,      \* where the command is: "new", "acquire", "start", "select",
             \* "killed", "exited" or "done"
    ptys,    \* tokens in ptySema
    context, \* its context: "live", "cancelled", "expired"
    process, \* "none", "running", "ok", "failed" or "killed"
    behind,  \* a process it started in the background has the terminal open
    open,    \* the master is open
    reader,  \* the reading goroutine: "none", "read", "deliver", "done"
    outcome  \* its result: "none", "ok", "exit", "error", "cancelled"

shellRunnerVars == <<at, ptys, context, process, behind, open, reader, outcome>>

ShellRunnerInit ==
    /\ at = [c \in Commands |-> "new"]
    /\ ptys = 0
    /\ context = [c \in Commands |-> "live"]
    /\ process = [c \in Commands |-> "none"]
    /\ behind = [c \in Commands |-> FALSE]
    /\ open = [c \in Commands |-> FALSE]
    /\ reader = [c \in Commands |-> "none"]
    /\ outcome = [c \in Commands |-> "none"]

\* Commands between the acquire and the release of ptySema.
Holding == {c \in Commands : at[c] \notin {"new", "acquire", "done"}}

\* Errors of the Bash tool that come before the runner: missing command,
\* syntax, a directory that cannot be resolved.
RefuseCommand(c) ==
    /\ at[c] = "new"
    /\ at' = [at EXCEPT ![c] = "done"]
    /\ outcome' = [outcome EXCEPT ![c] = "error"]
    /\ UNCHANGED <<ptys, context, process, behind, open, reader>>

EnterRunner(c) ==
    /\ at[c] = "new"
    /\ at' = [at EXCEPT ![c] = "acquire"]
    /\ UNCHANGED <<ptys, context, process, behind, open, reader, outcome>>

\* The token is taken whatever the context says.
AcquirePty(c) ==
    /\ at[c] = "acquire" /\ ptys < PtySlots
    /\ at' = [at EXCEPT ![c] = "start"]
    /\ ptys' = ptys + 1
    /\ UNCHANGED <<context, process, behind, open, reader, outcome>>

\* Faulty variant of Return: an early return keeps its token.
ReturnKeepingSlot(c, result) ==
    /\ at' = [at EXCEPT ![c] = "done"]
    /\ ptys' = IF result = "error" THEN ptys ELSE ptys - 1
    /\ open' = [open EXCEPT ![c] = FALSE]
    /\ outcome' = [outcome EXCEPT ![c] = result]

\* A return of RunShellContext, with its deferred calls.
Return(c, result) ==
    /\ at' = [at EXCEPT ![c] = "done"]
    /\ ptys' = ptys - 1
    /\ open' = [open EXCEPT ![c] = FALSE]
    /\ outcome' = [outcome EXCEPT ![c] = result]

\* No terminal, or the process cannot be started; only a cancelled context,
\* not one out of time, makes the latter "cancelled".
StartFails(c) ==
    /\ at[c] = "start"
    /\ \/ Return(c, "error")
       \/ context[c] = "cancelled" /\ Return(c, "cancelled")
    /\ UNCHANGED <<context, process, behind, reader>>

Started(c) ==
    /\ at[c] = "start"
    /\ at' = [at EXCEPT ![c] = "select"]
    /\ open' = [open EXCEPT ![c] = TRUE]
    /\ process' = [process EXCEPT ![c] = "running"]
    /\ behind' \in {behind, [behind EXCEPT ![c] = TRUE]}
    /\ reader' = [reader EXCEPT ![c] = "read"]
    /\ UNCHANGED <<ptys, context, outcome>>

\* The environment: the user cancels, the timeout of the tool expires, the
\* process ends, the one in the background ends.
ContextDone(c) ==
    /\ at[c] # "done" /\ context[c] = "live"
    /\ \E why \in {"cancelled", "expired"} : context' = [context EXCEPT ![c] = why]
    /\ UNCHANGED <<at, ptys, process, behind, open, reader, outcome>>
ProcessEnds(c) ==
    /\ process[c] = "running"
    /\ \E how \in {"ok", "failed"} : process' = [process EXCEPT ![c] = how]
    /\ UNCHANGED <<at, ptys, context, behind, open, reader, outcome>>
BackgroundEnds(c) ==
    /\ behind[c] /\ process[c] # "running"
    /\ behind' = [behind EXCEPT ![c] = FALSE]
    /\ UNCHANGED <<at, ptys, context, process, open, reader, outcome>>

\* The reading goroutine; onChunk returns once the chunk is taken or the
\* context is done.
ReadChunk(c) ==
    /\ reader[c] = "read" /\ open[c] /\ (process[c] = "running" \/ behind[c])
    /\ reader' = [reader EXCEPT ![c] = "deliver"]
    /\ UNCHANGED <<at, ptys, context, process, behind, open, outcome>>
Delivered(c) ==
    /\ reader[c] = "deliver"
    /\ reader' = [reader EXCEPT ![c] = "read"]
    /\ UNCHANGED <<at, ptys, context, process, behind, open, outcome>>
ReadEnds(c) ==
    /\ reader[c] = "read"
    /\ \/ ~open[c]
       \/ at[c] = "exited" /\ ~behind[c]  \* the runner has closed its slave
    /\ reader' = [reader EXCEPT ![c] = "done"]
    /\ UNCHANGED <<at, ptys, context, process, behind, open, outcome>>

\* select, first case: the whole process group is killed, the master closed.
SelectContext(c) ==
    /\ at[c] = "select" /\ context[c] # "live"
    /\ at' = [at EXCEPT ![c] = "killed"]
    /\ process' = [process EXCEPT ![c] = IF @ = "running" THEN "killed" ELSE @]
    /\ behind' = [behind EXCEPT ![c] = FALSE]
    /\ open' = [open EXCEPT ![c] = FALSE]
    /\ UNCHANGED <<ptys, context, reader, outcome>>

\* select, second case: from here on only the reader is waited for.
SelectExit(c) ==
    /\ at[c] = "select" /\ process[c] # "running"
    /\ at' = [at EXCEPT ![c] = "exited"]
    /\ UNCHANGED <<ptys, context, process, behind, open, reader, outcome>>

\* Faulty variant of IsCancelled: a context out of time does not count.
IsCancelledByUser(c) == context[c] = "cancelled"

\* ctx.Err() is read once everything has ended.
IsCancelled(c) == context[c] # "live"

\* After the kill waitErr is nil.
CommandReturns(c) ==
    /\ at[c] \in {"killed", "exited"} /\ reader[c] = "done"
    /\ Return(c, IF IsCancelled(c) THEN "cancelled"
                 ELSE IF at[c] = "exited" /\ process[c] = "failed" THEN "exit" ELSE "ok")
    /\ UNCHANGED <<context, process, behind, reader>>

ShellRunnerNext == \E c \in Commands :
    \/ RefuseCommand(c) \/ EnterRunner(c) \/ AcquirePty(c) \/ StartFails(c) \/ Started(c)
    \/ ContextDone(c) \/ ProcessEnds(c) \/ BackgroundEnds(c)
    \/ ReadChunk(c) \/ Delivered(c) \/ ReadEnds(c)
    \/ SelectContext(c) \/ SelectExit(c) \/ CommandReturns(c)

ShellRunnerSpec == ShellRunnerInit /\ [][ShellRunnerNext]_shellRunnerVars

-----------------------------------------------------------------------------
\* Every token of ptySema belongs to a command inside the runner, however it
\* got out: refused, failed to start, cancelled while waiting, killed or ended.
SlotsConserved == ptys = Cardinality(Holding) /\ ptys <= PtySlots

\* A command whose process was killed is reported as cancelled: neither as a
\* success nor with an exit code, although waitErr is nil after the kill; and
\* a command that failed by itself is a success in no case.
KilledNeverSucceeds == \A c \in Commands :
    at[c] = "done" =>
        /\ process[c] = "killed" => outcome[c] = "cancelled"
        /\ process[c] = "failed" => outcome[c] \in {"exit", "cancelled"}
        /\ process[c] = "ok" /\ context[c] = "live" => outcome[c] = "ok"

\* No goroutine of a command outlives its result.
NothingLeftBehind == \A c \in Commands :
    at[c] = "done" => reader[c] \in {"none", "done"} /\ process[c] # "running"

\* What the runner keeps right for its commands.
ShellOutcome == SlotsConserved /\ KilledNeverSucceeds /\ NothingLeftBehind
=============================================================================
