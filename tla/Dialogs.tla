------------------------------ MODULE Dialogs ------------------------------
(***************************************************************************)
(* The dialogs the agent opens: a question, with options read out of       *)
(* whatever the model wrote, or the approval of a call, whose arguments    *)
(* are clipped to fit (internal/toolinteract/askuser.go, approval.go,      *)
(* forms.go, shortcut.go, internal/renderer/toolinteract_bridge.go).  The  *)
(* form is charm.land/huh, known here by how that code uses it: a list     *)
(* whose row moves, text fields, and values saved when the focus moves on. *)
(* DialogTexts are sequences of letters, a digit being the letter "0".     *)
(***************************************************************************)
EXTENDS Integers, Sequences, SequencesExt, Lists

LineKinds == {"short", "full", ""}

CONSTANTS
    OptionLists,      \* lists of options a model may write, blank ones trimmed
    Keys,             \* letters of the keyboard
    Pastes,           \* texts of the clipboard
    MaxAnswer,        \* bound: letters of an answer
    Descriptions,     \* arguments of calls: the wrapped lines of their paragraphs,
                      \* each "short" or "full", and "" for a blank paragraph
    DescriptionLines  \* maxApprovalDescriptionLines: 6

DialogTexts == Seq(Keys \cup {"0"})

ASSUME DialogConstants ==
    /\ Descriptions \subseteq Seq(LineKinds) /\ DescriptionLines \in Nat \ {0}
    /\ \A list \in OptionLists : list \in Seq(ToSet(list))
    /\ Pastes \subseteq DialogTexts

VARIABLES
    request,  \* of the agent: its kind, arguments or description
    form,     \* the field in focus, the row from 1, what is typed, and the
              \* choice saved when the focus left the list
    response, \* what the agent got, NoResponse before
    ended,    \* what ended the dialog: "row", "text", "letter", "digit" or
              \* "abort", "no" before
    pressed,  \* history: the letter or the digit that ended it
    pasted    \* history: was anything pasted

dialogVars == <<request, form, response, ended, pressed, pasted>>

CancelChoice == <<"cancel">>
Approvals == <<"once", "session", "deny", "cancel">>

\* A question or options field is absent, text, a list, a JSON array in a string
\* or the broken text of one; whichever lists something lists list.
Arguments == [question : {"none", "text", "list", "array", "broken"},
              options : {"none", "text", "list", "array", "broken"},
              custom : {"unset", "yes", "no"}, list : OptionLists]
NoArguments == [question |-> "none", options |-> "none", custom |-> "unset", list |-> <<>>]
NoRequest == [kind |-> "none", args |-> NoArguments, description |-> <<>>]

Silence == [cancelled |-> FALSE, approved |-> FALSE, session |-> FALSE, answer |-> <<>>]
NoResponse == [Silence EXCEPT !.answer = <<"none">>]
Cancelled == [Silence EXCEPT !.cancelled = TRUE]
Says(text) == [Silence EXCEPT !.answer = text]

\* reconcileSwappedAskUserFields: the list is the question, the question the options.
Swapped(a) ==
    a.question \in {"array", "broken"} /\ a.options = "text" /\ a.list # <<>>

\* ParseAskUserArgs.  Options found in the question once a text of one's own was
\* ruled out do not bring it back.
Given(a) == IF a.options \in {"list", "array"} \/ Swapped(a) THEN a.list ELSE <<>>
Salvaged(a) == IF a.question \in {"list", "array", "broken"} THEN a.list ELSE <<>>
Options(a) == IF Given(a) # <<>> THEN Given(a) ELSE Salvaged(a)
AllowCustom(a) == Given(a) # <<>> /\ a.custom # "no"
Heading(a) ==
    IF Swapped(a) THEN "options"
    ELSE IF Given(a) = <<>> /\ Salvaged(a) # <<>> THEN "choose"
    ELSE IF a.question \in {"text", "array", "broken"} THEN "question"
    ELSE IF Options(a) # <<>> THEN "choose" ELSE "default"

\* ClampMultilineText: blank paragraphs in a row are one blank line, and the text
\* goes on until a line that is not blank finds the budget used up.
AllLines(d) ==
    ElementsAt(d, {i \in DOMAIN d : d[i] # "" \/ (i > 1 /\ d[i - 1] # "")})

\* truncateApprovalLines: ansi.Truncate marks only a line it has to shorten.
Clipped(lines) ==
    LET last == lines[DescriptionLines]
    IN  [SubSeq(lines, 1, DescriptionLines) EXCEPT ![DescriptionLines] =
            IF last = "full" THEN "cut" ELSE last]
Described(d) ==
    LET lines == AllLines(d)
    IN  IF Len(lines) > DescriptionLines THEN Clipped(lines) ELSE lines

-----------------------------------------------------------------------------
(* The form and its fields, newAskUserForm and newToolApprovalForm.         *)

Asks == request.kind = "ask"
Listing == Options(request.args)
DialogRows == Append(Listing, CancelChoice)
FormFields ==
    IF ~Asks THEN <<"approval">>
    ELSE IF Listing = <<>> THEN <<"answer">>
    ELSE IF AllowCustom(request.args) THEN <<"choice", "custom">> ELSE <<"choice">>
Focused == FormFields[form.focus]
Open == request # NoRequest /\ ended = "no"

LetterKey(c) == [letter |-> c, digit |-> 0]
DigitKey(n) == [letter |-> "", digit |-> n]
NoKey == DigitKey(0)

\* completeToolInteractWith and completeToolInteractForm.
CompletedBy(r, how, key) ==
    response' = r /\ ended' = how /\ pressed' = key /\ UNCHANGED <<request, form, pasted>>
Completed(r, how) == CompletedBy(r, how, NoKey)

\* A form value that is "cancel" cancels, whoever wrote it.
Chosen(text) == IF text = CancelChoice THEN Cancelled ELSE Says(text)
Approve(choice) ==
    [cancelled |-> choice = "cancel", approved |-> choice \in {"once", "session"},
     session |-> choice = "session", answer |-> <<>>]

\* Faulty variant of FormAnswer: the choice comes before the text.
FormAnswerChoiceFirst(saved, text) ==
    IF saved # <<>> THEN Chosen(saved) ELSE Says(text)

\* AskUserFormResponse and ResolveAskUserAnswer.
FormAnswer(saved, text) ==
    IF saved = CancelChoice THEN Cancelled
    ELSE Says(IF text # <<>> THEN text ELSE saved)

DialogInit ==
    /\ request = NoRequest
    /\ form = [focus |-> 1, row |-> 1, text |-> <<>>, saved |-> <<>>]
    /\ response = NoResponse /\ ended = "no" /\ pressed = NoKey /\ pasted = FALSE

\* offerToolInteract opens the form.
Offer ==
    /\ request = NoRequest
    /\ request' \in [kind : {"ask"}, args : Arguments, description : {<<>>}]
                      \cup [kind : {"approve"}, args : {NoArguments}, description : Descriptions]
    /\ UNCHANGED <<form, response, ended, pressed, pasted>>

-----------------------------------------------------------------------------
(* Keys.  Shortcuts come first, whatever field is in focus.                 *)

TypeInto(text) ==
    /\ Focused \in {"custom", "answer"}
    /\ Len(form.text) + Len(text) <= MaxAnswer
    /\ form' = [form EXCEPT !.text = @ \o text]
    /\ UNCHANGED <<request, response, ended, pressed>>

Letter(c) ==
    LET choice == CASE c = "y" -> "once" [] c = "a" -> "session" [] c = "n" -> "deny"
                    [] c = "c" -> "cancel" [] OTHER -> "none"
    IN  IF ~Asks THEN choice # "none" /\ CompletedBy(Approve(choice), "letter", LetterKey(c))
        ELSE IF c = "c" /\ Listing # <<>> THEN CompletedBy(Cancelled, "letter", LetterKey(c))
        ELSE TypeInto(<<c>>) /\ UNCHANGED pasted

Digit(n) ==
    IF ~Asks
    THEN n \in 1..4 /\ CompletedBy(Approve(Approvals[n]), "digit", DigitKey(n))
    ELSE IF Listing # <<>> /\ n \in 1..(Len(Listing) + 1)
    THEN CompletedBy(IF n = Len(Listing) + 1 THEN Cancelled ELSE Says(Listing[n]), "digit", DigitKey(n))
    ELSE TypeInto(<<"0">>) /\ UNCHANGED pasted

PasteAnswer(text) == TypeInto(text) /\ pasted' = TRUE

MoveRow(r) ==
    /\ Focused \in {"choice", "approval"} /\ r # form.row
    /\ r \in 1..(IF Asks THEN Len(DialogRows) ELSE 4)
    /\ form' = [form EXCEPT !.row = r]
    /\ UNCHANGED <<request, response, ended, pressed, pasted>>

\* Tab saves the value of the field it leaves, Shift-Tab does not.
Tab ==
    /\ form.focus < Len(FormFields)
    /\ form' = [form EXCEPT !.focus = @ + 1, !.saved = DialogRows[form.row]]
    /\ UNCHANGED <<request, response, ended, pressed, pasted>>
ShiftTab ==
    /\ form.focus > 1
    /\ form' = [form EXCEPT !.focus = @ - 1]
    /\ UNCHANGED <<request, response, ended, pressed, pasted>>

\* askUserChoiceSelection: a saved choice is preferred to the row.
Selection == IF form.saved # <<>> THEN form.saved ELSE DialogRows[form.row]

PressEnter ==
    CASE Focused = "approval" -> Completed(Approve(Approvals[form.row]), "row")
      [] Focused = "choice" ->
           Completed(Chosen(IF AllowCustom(request.args) THEN Selection ELSE DialogRows[form.row]),
                    "row")
      [] OTHER -> Completed(FormAnswer(form.saved, form.text), "text")

\* huh.StateAborted.
Abort == Completed(Cancelled, "abort")

DialogNext ==
    \/ Offer
    \/ /\ Open
       /\ \/ \E c \in Keys : Letter(c)
          \/ \E n \in 0..4 : Digit(n) \/ MoveRow(n)
          \/ \E text \in Pastes : PasteAnswer(text)
          \/ Tab \/ ShiftTab \/ PressEnter \/ Abort

DialogSpec == DialogInit /\ [][DialogNext]_dialogVars

-----------------------------------------------------------------------------
\* The row of an approval that was meant: "y", "a", "n" and "c" are the first to the
\* fourth, and so is the form's own way out.
RowMeant ==
    CASE ended = "row" -> form.row
      [] ended = "digit" -> pressed.digit
      [] pressed.letter = "y" -> 1
      [] pressed.letter = "a" -> 2
      [] pressed.letter = "n" -> 3
      [] OTHER -> 4

\* A row of the approval, its digit and its letter are answered alike: a call is
\* approved by the first and the second and for the session by the second, and
\* what was not denied by the third is cancelled by the fourth.  A question
\* never has the looks of an approval.
OnlyAsAsked ==
    /\ ~Asks /\ ended # "no" =>
         /\ response.approved = (RowMeant \in {1, 2})
         /\ response.session = (RowMeant = 2)
         /\ response.cancelled = (RowMeant = 4)
    /\ Asks => ~response.approved /\ ~response.session

\* A question is answered by what was pointed at: the option of the digit, the row,
\* the text.  Three answers are not what was pointed at last, and each is named
\* here: a choice the focus had left counts before the row it has come back to and,
\* if it was Cancel, before the text; an option that says "cancel" cancels unless
\* its digit takes it; and with options "c" and the digits of rows never become
\* letters of an answer, but for pasted ones.
AnswerAsMeant ==
    Asks =>
      /\ ended = "text" /\ form.text # <<>> =>
           response = IF form.saved = CancelChoice THEN Cancelled ELSE Says(form.text)
      /\ ended = "text" /\ form.text = <<>> /\ form.saved # <<>> =>
           response = Chosen(form.saved)
      /\ ended = "row" =>
           response = Chosen(IF form.saved = <<>> THEN DialogRows[form.row] ELSE form.saved)
      /\ ended = "digit" =>
           response = IF pressed.digit \in DOMAIN Listing
                      THEN Says(Listing[pressed.digit]) ELSE Cancelled
      /\ ended = "letter" => pressed.letter = "c" /\ Listing # <<>>
      /\ ended \in {"letter", "abort"} => response = Cancelled
      /\ Listing # <<>> /\ ~pasted => "c" \notin ToSet(form.text)

\* Options written anywhere are offered and nothing is asked twice: the raw text
\* of a list heads the dialog only beside options from the other field.
OptionsFound ==
    LET a == request.args
    IN  /\ a.list # <<>> /\ (a.options \in {"list", "array"}
                               \/ a.question \in {"list", "array", "broken"})
             => Options(a) = a.list
        /\ Heading(a) = "question" /\ a.question # "text" =>
             a.list = <<>> \/ a.options \in {"list", "array"}
        /\ a.question = "text" => Heading(a) = "question"
        /\ AllowCustom(a) => Options(a) # <<>>

\* The description keeps to its lines and begins as the arguments do.  That it
\* leaves some out it says only if the last line it shows fills the width; cut
\* after a shorter line it looks complete, which this property lets pass.
DescriptionHonest ==
    LET all == AllLines(request.description)
        shown == Described(request.description)
    IN  /\ Len(shown) <= DescriptionLines
        /\ \A i \in DOMAIN shown : shown[i] = all[i] \/ (i = Len(shown) /\ shown[i] = "cut")
        /\ Len(all) > Len(shown) /\ all[Len(shown)] = "full" => Last(shown) = "cut"
        /\ Len(all) = Len(shown) => shown = all

\* What the agent is told is what the key, the row or the text means, with the
\* exceptions AnswerAsMeant names; and what the user is shown is what the model
\* asked, but for the unmarked cut of DescriptionHonest.
\* (askuser.go:30-71, approval.go:68-124, forms.go:158-206, shortcut.go:13-96)
ToldAsChosen == OnlyAsAsked /\ AnswerAsMeant /\ OptionsFound /\ DescriptionHonest
=============================================================================
