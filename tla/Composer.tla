------------------------------ MODULE Composer ------------------------------
(***************************************************************************)
(* The input area of the terminal interface: text typed while anything     *)
(* runs, blocks of pasted text folded into tokens, pasted images kept in   *)
(* files, the editor of a folded block, and the model picker, which        *)
(* borrows the input for its filter and keeps the draft meanwhile          *)
(* (internal/renderer/input.go, paste.go, paste_editor.go, attachments.go, *)
(* model_selector.go).  Key bindings other than these, the palettes, the   *)
(* cursor and the layout are left out; text is a sequence of pieces.       *)
(***************************************************************************)
EXTENDS Naturals, FiniteSets, SequencesExt

CONSTANTS MaxPieces,  \* pieces of text typed or pasted in a behaviour
          MaxImages   \* images pasted in a behaviour

VARIABLES
    input,     \* m.input.Value() as typed pieces and paste tokens
    pastes,    \* m.inputPastes: the text behind each token
    nextID,    \* m.nextPasteID
    images,    \* m.pendingAttachments
    disk,      \* attachment files that exist
    editor,    \* m.pasteEditor: the token being edited, or Closed
    picker,    \* m.modelSelector.Active
    draft,     \* m.pendingPromptDraft, or NoDraft
    ctrlC,     \* m.ctrlCPress
    running,   \* the turn or shell command in progress
    model,     \* a model is active, and whether it takes images
    made,      \* pieces and images made so far
    meant,     \* what the user has typed and pasted, in order
    kept,      \* the images the user wants to send
    slips,     \* what happened to this draft that the code does not survive
    outgoing   \* the last message submitted, with what was meant

composerVars == <<input, pastes, nextID, images, disk, editor, picker, draft,
                  ctrlC, running, model, made, meant, kept, slips, outgoing>>

Closed == [token |-> MaxPieces]
NoDraft == [value |-> <<>>, pastes |-> <<>>, images |-> {}, stashed |-> FALSE]
Typed(c) == [kind |-> "typed", of |-> c]
Token(id) == [kind |-> "paste", of |-> id]
TokensOf(text) == {text[i].of : i \in {j \in DOMAIN text : text[j].kind = "paste"}}

\* ExpandPastes: a token without a paste stays as it is.
Expanded(text, of) == [i \in DOMAIN text |->
    IF text[i].kind = "paste" /\ text[i].of \in DOMAIN of THEN of[text[i].of]
    ELSE IF text[i].kind = "typed" THEN text[i].of ELSE 0]

\* PrunePastes: forget what the text no longer mentions.
Pruned(text, of) == [id \in DOMAIN of \cap TokensOf(text) |-> of[id]]

ComposerInit ==
    /\ input = <<>> /\ pastes = <<>> /\ nextID = 0 /\ images = {} /\ disk = {}
    /\ editor = Closed /\ picker = FALSE /\ draft = NoDraft /\ ctrlC = 0
    /\ running = "no"
    /\ model = [active |-> FALSE, images |-> TRUE]
    /\ made = [pieces |-> 0, images |-> 0]
    /\ meant = <<>> /\ kept = {} /\ slips = {}
    /\ outgoing = [text |-> <<>>, meant |-> <<>>, images |-> {}, kept |-> {},
                   named |-> {}, slips |-> {}]

Fresh == made.pieces + 1
Editing == editor # Closed
TextIs(text, of) == input' = text /\ pastes' = Pruned(text, of)
\* What the user writes in the picker is a filter and no part of the draft.
Writes(c) == meant' = IF picker THEN meant ELSE Append(meant, c)

----------------------------------------------------------------------------
(* Text and images. *)

\* A key that edits the input also forgets a pending Ctrl-C; the input
\* stays editable while a turn or a command runs.
Type ==
    /\ ~Editing /\ made.pieces < MaxPieces
    /\ TextIs(Append(input, Typed(Fresh)), pastes)
    /\ Writes(Fresh) /\ made' = [made EXCEPT !.pieces = Fresh] /\ ctrlC' = 0
    /\ UNCHANGED <<nextID, images, disk, editor, picker, draft, running, model,
                   kept, slips, outgoing>>

\* insertCollapsedPaste, only while nothing runs.
PasteBlock ==
    /\ ~Editing /\ running = "no" /\ made.pieces < MaxPieces
    /\ TextIs(Append(input, Token(nextID)),
              [id \in DOMAIN pastes \cup {nextID} |->
                  IF id = nextID THEN Fresh ELSE pastes[id]])
    /\ nextID' = nextID + 1
    /\ Writes(Fresh) /\ made' = [made EXCEPT !.pieces = Fresh]
    /\ UNCHANGED <<images, disk, editor, picker, draft, ctrlC, running, model,
                   kept, slips, outgoing>>

\* Backspace over the last piece.
Erase ==
    /\ ~Editing /\ input # <<>>
    /\ TextIs(Front(input), pastes)
    /\ meant' = IF picker \/ meant = <<>> THEN meant ELSE Front(meant)
    /\ ctrlC' = 0
    /\ UNCHANGED <<nextID, images, disk, editor, picker, draft, running, model,
                   made, kept, slips, outgoing>>

\* handlePasteKey with an image on the clipboard: saved to a file at once, and
\* in the picker too, which forgets it when it closes.
PasteImage ==
    /\ ~Editing /\ running = "no" /\ model.images /\ made.images < MaxImages
    /\ LET i == made.images + 1 IN
        /\ images' = images \cup {i} /\ disk' = disk \cup {i}
        /\ kept' = kept \cup {i} /\ made' = [made EXCEPT !.images = i]
    /\ slips' = IF picker THEN slips \cup {"pasted in picker"} ELSE slips
    /\ UNCHANGED <<input, pastes, nextID, editor, picker, draft, ctrlC, running,
                   model, meant, outgoing>>

\* handleAttachmentRemoveMsg: also in the picker, whose filter is the input,
\* where the draft keeps its copy of the image.
RemoveImages ==
    /\ ~Editing /\ running = "no" /\ input = <<>> /\ images # {}
    /\ \E gone \in {images, {Cardinality(images)} \cap images} \ {{}} :
        /\ images' = images \ gone /\ disk' = disk \ gone
        /\ IF picker THEN slips' = slips \cup {"removed in picker"} /\ UNCHANGED kept
           ELSE kept' = kept \ gone /\ UNCHANGED slips
    /\ UNCHANGED <<input, pastes, nextID, editor, picker, draft, ctrlC, running,
                   model, made, meant, outgoing>>

\* tryOpenPasteEditorAtCursor.
OpenEditor(id) ==
    /\ ~Editing /\ id \in TokensOf(input) \cap DOMAIN pastes
    /\ editor' = [token |-> id]
    /\ UNCHANGED <<input, pastes, nextID, images, disk, picker, draft, ctrlC,
                   running, model, made, meant, kept, slips, outgoing>>

\* closePasteEditor: every way out saves; the token stays in the input.  The
\* editor can be opened on a block in the picker's filter, and outlive the picker.
SaveEditor ==
    /\ Editing /\ editor' = Closed
    /\ \/ UNCHANGED <<pastes, meant, made>>
       \/ /\ made.pieces < MaxPieces /\ made' = [made EXCEPT !.pieces = Fresh]
          /\ pastes' = Pruned(input, [id \in DOMAIN pastes \cup {editor.token} |->
                           IF id = editor.token THEN Fresh ELSE pastes[id]])
          /\ meant' = [i \in DOMAIN meant |->
                           IF ~picker /\ i \in DOMAIN input /\ input[i] = Token(editor.token)
                           THEN Fresh ELSE meant[i]]
    /\ UNCHANGED <<input, nextID, images, disk, picker, draft, ctrlC, running,
                   model, kept, slips, outgoing>>

----------------------------------------------------------------------------
(* The model picker. *)

Stashed(text) ==  \* stashPromptDraftIfNeeded
    IF text = <<>> /\ images = {} /\ DOMAIN pastes = {} THEN NoDraft
    ELSE [value |-> text, pastes |-> pastes, images |-> images, stashed |-> TRUE]

\* openModelSelectorPreservingDraft.  promptSelectModel does not look
\* whether the picker is open already.
Opened ==
    /\ draft' = Stashed(input)
    /\ picker' = TRUE /\ input' = <<>>
    /\ slips' = IF picker THEN slips \cup {"stashed twice"} ELSE slips

\* Faulty variant of Closing: the folded blocks are not put back.
ClosingTextOnly ==
    /\ picker' = FALSE /\ draft' = NoDraft
    /\ input' = draft.value /\ pastes' = Pruned(draft.value, pastes)
    /\ images' = draft.images
    /\ nextID' = IF DOMAIN draft.pastes = {} THEN 0 ELSE nextID
    /\ editor' = IF DOMAIN draft.pastes = {} THEN Closed ELSE editor

\* restorePromptDraft; without a draft everything is cleared.
Closing ==
    /\ picker' = FALSE /\ draft' = NoDraft
    /\ input' = draft.value /\ pastes' = draft.pastes /\ images' = draft.images
    /\ nextID' = IF DOMAIN draft.pastes = {} THEN 0 ELSE nextID
    /\ editor' = IF DOMAIN draft.pastes = {} THEN Closed ELSE editor

\* Ctrl+L opens and closes.
TogglePicker ==
    /\ \/ ~picker /\ ~Editing /\ Opened /\ UNCHANGED <<pastes, nextID, images, editor>>
       \/ picker /\ Closing /\ UNCHANGED slips
    /\ UNCHANGED <<disk, ctrlC, running, model, made, meant, kept, outgoing>>

\* confirmModelSelector: switched, or no match or a provider that is gone.
Confirm(chosen) ==
    /\ picker /\ Closing /\ model' = chosen
    /\ UNCHANGED <<disk, ctrlC, running, made, meant, kept, slips, outgoing>>

\* /model from the palette, typed into an input that was empty: no draft,
\* so pending images are dropped when the picker closes.
SlashModel ==
    /\ ~Editing /\ ~picker /\ input = <<>>
    /\ picker' = TRUE /\ draft' = NoDraft
    /\ slips' = IF images # {} THEN slips \cup {"model command"} ELSE slips
    /\ UNCHANGED <<input, pastes, nextID, images, disk, editor, ctrlC, running,
                   model, made, meant, kept, outgoing>>

----------------------------------------------------------------------------
(* Sending, clearing, and what runs. *)

ResetInput ==
    /\ input' = <<>> /\ pastes' = <<>> /\ nextID' = 0 /\ editor' = Closed

\* Ctrl-C: notice, then clear input and images; the third one leaves the
\* program and is not modelled.
CtrlC ==
    /\ ~Editing /\ running = "no" /\ ctrlC < 2
    /\ \/ ctrlC = 0 /\ ctrlC' = 1
          /\ UNCHANGED <<input, pastes, nextID, editor, images, disk, meant, kept, slips>>
       \/ ctrlC = 1 /\ (input # <<>> \/ images # {}) /\ ctrlC' = 2
          /\ ResetInput /\ images' = {} /\ disk' = disk \ images
          /\ IF picker
             THEN slips' = slips \cup {"cleared in picker"} /\ UNCHANGED <<meant, kept>>
             ELSE meant' = <<>> /\ kept' = {} /\ slips' = {}
    /\ UNCHANGED <<picker, draft, running, model, made, outgoing>>

CtrlCReset ==  \* the double-tap timer
    /\ ctrlC # 0 /\ ctrlC' = 0
    /\ UNCHANGED <<input, pastes, nextID, images, disk, editor, picker, draft,
                   running, model, made, meant, kept, slips, outgoing>>

\* trySubmitInput for a prompt.  The images are read before their files are
\* removed; a model without images is told the paths of the removed files.
Submit ==
    /\ ~Editing /\ ~picker /\ running = "no" /\ (input # <<>> \/ images # {})
    /\ IF ~model.active
       THEN Opened /\ UNCHANGED <<pastes, nextID, images, disk, editor, running, meant,
                                  kept, outgoing>>
       ELSE /\ outgoing' = [text |-> Expanded(input, pastes), meant |-> meant,
                            images |-> IF model.images THEN images \cap disk ELSE {},
                            named |-> IF model.images THEN {} ELSE images,
                            kept |-> kept, slips |-> slips]
            /\ disk' = disk \ images /\ images' = {}
            /\ ResetInput /\ running' = "turn"
            /\ meant' = <<>> /\ kept' = {} /\ slips' = {}
            /\ UNCHANGED draft /\ UNCHANGED picker
    /\ UNCHANGED <<ctrlC, model, made>>

\* A message that starts with ! or !!: images stay for the next prompt.
SubmitShell(kind) ==
    /\ ~Editing /\ ~picker /\ running = "no" /\ input # <<>>
    /\ ResetInput /\ running' = kind /\ meant' = <<>>
    /\ UNCHANGED <<images, disk, picker, draft, ctrlC, model, made, kept, slips,
                   outgoing>>

\* The cancel key wins over the picker's keys.
CancelRunning ==
    /\ running \in {"turn", "shell context"}
    /\ running' = IF running = "turn" THEN "no" ELSE "shell"
    /\ UNCHANGED <<input, pastes, nextID, images, disk, editor, picker, draft,
                   ctrlC, model, made, meant, kept, slips, outgoing>>

\* finishShellDone: with context the result becomes a prompt, which needs a
\* model; the picker may be open by then.
FinishRunning ==
    /\ running # "no"
    /\ IF running = "shell context" /\ ~model.active
       THEN Opened /\ running' = "no"
       ELSE /\ running' = IF running = "shell context" THEN "turn" ELSE "no"
            /\ UNCHANGED <<draft, picker, input, slips>>
    /\ UNCHANGED <<pastes, nextID, images, disk, editor, ctrlC, model, made, meant,
                   kept, outgoing>>

ComposerNext ==
    \/ Type \/ PasteBlock \/ Erase \/ PasteImage \/ RemoveImages
    \/ \E id \in 0 .. MaxPieces - 1 : OpenEditor(id)
    \/ SaveEditor \/ TogglePicker \/ SlashModel \/ CtrlC \/ CtrlCReset \/ Submit
    \/ \E chosen \in {model} \cup [active : {TRUE}, images : BOOLEAN] : Confirm(chosen)
    \/ \E kind \in {"shell", "shell context"} : SubmitShell(kind)
    \/ CancelRunning \/ FinishRunning

ComposerSpec == ComposerInit /\ [][ComposerNext]_composerVars

----------------------------------------------------------------------------
Written == IF picker THEN Expanded(draft.value, draft.pastes) ELSE Expanded(input, pastes)

\* What the user typed and pasted is what the input, or the draft behind the
\* picker, stands for, and what the turn is given, and an image the user still
\* wants has its file; a draft leaves that only by one of the five slips: an image
\* pasted or removed while the picker is open, a picker opened over a picker, the
\* input cleared under it, and /model typed beside images.
\* Token ids and files are shared between the input, the draft and the editor.
DraftKept ==
    /\ slips = {} => /\ Written = meant
                     /\ (IF picker THEN draft.images ELSE images) = kept
                     /\ kept \subseteq disk
    /\ outgoing.slips = {} =>
        /\ outgoing.text = outgoing.meant
        /\ outgoing.images \cup outgoing.named = outgoing.kept
=============================================================================
