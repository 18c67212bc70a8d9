------------------------------ MODULE FileTools ------------------------------
(***************************************************************************)
(* The Read, Write and Edit tools on one file                              *)
(* (internal/runtime/exec/execute.go), while somebody else, the user's     *)
(* editor or a shell command, writes the same file.  A file is a sequence  *)
(* of lines, each with its newline; os.WriteFile truncates before it       *)
(* writes, and either may fail.  A write that fails half-way is cut        *)
(* between two lines.  Paths, directories, file modes and the cut of an    *)
(* answer at 256 KB are left out.                                          *)
(***************************************************************************)
EXTENDS Integers, Sequences, FiniteSets

CONSTANTS Lines,     \* the lines a file may hold
          MaxLines,  \* bound on the file's length
          MaxCalls,  \* bound on tool calls
          MaxForeign \* bound on writes by others

ASSUME FileConstants ==
    "absent" \notin Lines /\ {MaxLines, MaxCalls, MaxForeign} \subseteq Nat

VARIABLES
    content,  \* the file's lines, or Absent
    toolStep, \* of the call: "idle", "begun", "checked", "writing"
    call,     \* the call that runs or ran last
    held,     \* what the running call has read of the file, or will write
    result,   \* what the model was told last
    foreign,  \* somebody wrote the file since the running call began
    before,   \* the file when the running call began
    calls, writes

fileVars == <<content, toolStep, call, held, result, foreign, before, calls, writes>>

Absent == <<"absent">>
NoToolCall == [tool |-> "none"]
Contents == UNION {[1 .. n -> Lines] : n \in 0 .. MaxLines}
ReadCalls == [tool : {"read"}, offset : -MaxLines - 1 .. MaxLines + 1, n : 0 .. MaxLines]
AppendCalls == [tool : {"append"}, text : Contents]
WriteCalls == [tool : {"write"}, text : Contents]
EditCalls == [tool : {"edit"}, old : Lines, new : Lines, all : BOOLEAN]
NoResult == [kind |-> "none"]
Error == [kind |-> "error"]
Success == [kind |-> "done"]

Count(text, old) == Cardinality({i \in DOMAIN text : text[i] = old})
FirstOf(text, old) == CHOOSE i \in DOMAIN text :
    text[i] = old /\ \A j \in 1 .. i - 1 : text[j] # old
\* strings.ReplaceAll, or the first occurrence only.
Replaced(text, old, new, all) == [i \in DOMAIN text |->
    IF text[i] = old /\ (all \/ i = FirstOf(text, old)) THEN new ELSE text[i]]

FileInit ==
    /\ content = Absent
    /\ toolStep = "idle" /\ call = NoToolCall /\ held = <<>> /\ result = NoResult /\ foreign = FALSE
    /\ before = content /\ calls = 0 /\ writes = 0

Begin(c) ==
    /\ toolStep = "idle" /\ calls < MaxCalls /\ calls' = calls + 1
    /\ toolStep' = "begun" /\ call' = c /\ before' = content /\ foreign' = FALSE /\ result' = NoResult
    /\ UNCHANGED <<content, held, writes>>

Begun(tool) == toolStep = "begun" /\ call.tool = tool
Answer(r) == toolStep' = "idle" /\ result' = r

----------------------------------------------------------------------------
(* Reading a window of lines. *)

\* Faulty variant of LineWindow: a tail that starts one line late.
LineWindowLate(text, offset, n) ==
    LET from == IF offset < 0
                THEN IF Len(text) + offset + 2 < 1 THEN 1 ELSE Len(text) + offset + 2
                ELSE offset
        upto == IF n > 0 /\ from - 1 + n < Len(text) THEN from - 1 + n ELSE Len(text)
    IN [from |-> from, upto |-> upto]

\* A negative offset counts from the end, n = 0 is all the rest.
LineWindow(text, offset, n) ==
    LET from == IF offset < 0
                THEN IF Len(text) + offset + 1 < 1 THEN 1 ELSE Len(text) + offset + 1
                ELSE offset
        upto == IF n > 0 /\ from - 1 + n < Len(text) THEN from - 1 + n ELSE Len(text)
    IN [from |-> from, upto |-> upto]

\* strings.Split: an empty line follows the last newline.
SplitLines(text) == Append(text, "")

\* executeRead.  Line 0 is looked up before the first line: the program ends.
Read ==
    /\ Begun("read")
    /\ LET text == SplitLines(content)
           w == LineWindow(text, call.offset, call.n) IN
        \/ content = Absent /\ Answer(Error)
        \/ content # Absent /\ w.from > Len(text)
              /\ Answer([kind |-> "read", lines |-> <<>>, end |-> TRUE])
        \/ content # Absent /\ w.from = 0 /\ Answer([kind |-> "crash"])
        \/ content # Absent /\ w.from \in 1 .. Len(text)
              /\ Answer([kind |-> "read", lines |-> SubSeq(text, w.from, w.upto),
                         end |-> w.upto = Len(text)])
    /\ UNCHANGED <<content, call, held, foreign, before, calls, writes>>

----------------------------------------------------------------------------
(* Writing: append at once, or truncate and then write.  A file that cannot be
   opened stays as it is; of what is to be written a disk may take only the
   beginning. *)

Existing(text) == IF text = Absent THEN <<>> ELSE text
Beginnings(text) == {SubSeq(text, 1, k) : k \in 0 .. Len(text)}

AppendText ==  \* executeWrite, mode append
    /\ Begun("append")
    /\ \/ Answer(Error) /\ UNCHANGED content
       \/ \E added \in Beginnings(call.text) :
            /\ Len(Existing(content)) + Len(added) <= MaxLines
            /\ content' = Existing(content) \o added
            /\ Answer(Error) \/ (added = call.text /\ Answer(Success))
    /\ UNCHANGED <<call, held, foreign, before, calls, writes>>

\* executeWrite, executeEdit: the new text is complete before os.WriteFile opens
\* the file and truncates it, and the file is empty in between.
Truncate(text) ==
    /\ \/ content' = <<>> /\ held' = text /\ toolStep' = "writing" /\ UNCHANGED result
       \/ Answer(Error) /\ UNCHANGED <<content, held>>
    /\ UNCHANGED <<call, foreign, before, calls, writes>>

Overwrite == Begun("write") /\ Truncate(call.text)

WriteRest ==
    /\ toolStep = "writing"
    /\ \E written \in Beginnings(held) :
         /\ content' = written
         /\ Answer(Error) \/ (written = held /\ Answer(Success))
    /\ UNCHANGED <<call, held, foreign, before, calls, writes>>

\* Faulty variant of Editable: a second occurrence does not matter.
EditableFirst(text, c) == text # Absent /\ c.old # c.new /\ Count(text, c.old) > 0

\* executeEdit's checks: a change, an occurrence, a single one unless all.
Editable(text, c) ==
    /\ text # Absent /\ c.old # c.new /\ Count(text, c.old) > 0
    /\ c.all \/ Count(text, c.old) = 1

EditRead ==
    /\ Begun("edit")
    /\ IF Editable(content, call)
       THEN toolStep' = "checked" /\ held' = content /\ UNCHANGED result
       ELSE Answer(Error) /\ UNCHANGED held
    /\ UNCHANGED <<content, call, foreign, before, calls, writes>>

EditWrite ==
    /\ toolStep = "checked"
    /\ Truncate(Replaced(held, call.old, call.new, call.all))

\* The user's editor saves, or a shell command changes or removes the file.
ForeignWrite(text) ==
    /\ writes < MaxForeign /\ writes' = writes + 1
    /\ content' = text /\ foreign' = TRUE
    /\ UNCHANGED <<toolStep, call, held, result, before, calls>>

FileNext ==
    \/ \E c \in ReadCalls \cup AppendCalls \cup WriteCalls \cup EditCalls : Begin(c)
    \/ Read \/ AppendText \/ Overwrite \/ EditRead \/ EditWrite \/ WriteRest
    \/ \E text \in Contents \cup {Absent} : ForeignWrite(text)

FileSpec == FileInit /\ [][FileNext]_fileVars

----------------------------------------------------------------------------
\* The numbers of the lines a read asks for: from a line on, or the last ones;
\* and no more than it wants of them.
InRange(text, offset, i) == IF offset > 0 THEN i >= offset ELSE i > Len(text) + offset
WantedLines(text, offset, n) == {i \in DOMAIN text :
    /\ InRange(text, offset, i)
    /\ n = 0 \/ Cardinality({j \in 1 .. i : InRange(text, offset, j)}) <= n}

\* What a write or an edit is to leave of the file it began on.
NewText == IF call.tool = "write" THEN call.text
           ELSE Replaced(before, call.old, call.new, call.all)

(* What the model is told is what happened, as far as nobody else's write fell
   into the call.  What succeeds has written all of the text, or added it; an
   edit has changed every occurrence it counted and nothing else, and is
   refused when the occurrence is not the only one and not all were asked for.
   What fails has left the file as it was, with one exception for each way to
   write: an append may have added a beginning of its text, and once a write or
   an edit has truncated the file, what is left is a beginning of the new text
   and the old one is gone.  A read that reports the end has shown the last
   line, which the pages of a file and its tail count on; of a read from line 0,
   before the first, on which the program ends, nothing is said. *)
ToolsHonest ==
    [][result' # result /\ result' # NoResult =>
        /\ result'.kind = "error" /\ ~foreign =>
            \/ content' = before
            \/ toolStep = "writing" /\ content' \in Beginnings(NewText)
            \/ /\ call.tool = "append"
               /\ \E added \in Beginnings(call.text) : content' = Existing(before) \o added
        /\ result'.kind = "done" /\ ~foreign =>
            /\ call.tool = "append" => content' = Existing(before) \o call.text
            /\ call.tool = "write" => content' = call.text
            /\ call.tool = "edit" =>
                /\ \A i \in DOMAIN before : content'[i] =
                       IF before[i] = call.old THEN call.new ELSE before[i]
                /\ call.all \/ Count(before, call.old) = 1
        /\ call.tool = "read" /\ result'.kind = "read" /\ call.offset # 0 =>
            LET text == SplitLines(content)
                wanted == WantedLines(text, call.offset, call.n)
            IN /\ Len(result'.lines) = Cardinality(wanted)
               /\ \A i \in wanted :
                      result'.lines[Cardinality({j \in wanted : j <= i})] = text[i]
               /\ result'.end = (wanted = {} \/ Len(text) \in wanted)]_fileVars
=============================================================================
