--------------------------- MODULE InterfaceProofs ---------------------------
(***************************************************************************)
(* Proofs about the rest of the terminal interface: the draft in the input *)
(* area (Composer), the caches of the message list (Transcript), the list  *)
(* under the input line (Palette), the dialogs of the agent (Dialogs) and  *)
(* the scrolled message list (Viewport).                                   *)
(***************************************************************************)
EXTENDS Transcript, Palette, Dialogs, Composer, Viewport, ListFacts, SequenceTheorems, TLAPS

-----------------------------------------------------------------------------
(***************************************************************************)
(* For any number of pieces and images: the input, or the draft behind the *)
(* picker, stands for what the user typed and pasted.                      *)
(***************************************************************************)

Pieces == [kind : {"typed", "paste"}, of : Nat]
Blocks(of) == \A id \in DOMAIN of : id \in Nat /\ of[id] \in Nat

ComposerTypes ==
    /\ input \in Seq(Pieces) /\ draft.value \in Seq(Pieces)
    /\ Blocks(pastes) /\ Blocks(draft.pastes)
    /\ nextID \in Nat /\ made \in [pieces : Nat, images : Nat]
    /\ picker \in BOOLEAN /\ (Editing => editor.token \in Nat)

\* Every token has its block, in the input and in the draft, and there is a
\* draft only behind the picker.
TokenInv ==
    /\ TokensOf(input) \subseteq DOMAIN pastes
    /\ TokensOf(draft.value) \subseteq DOMAIN draft.pastes
    /\ ~picker => draft = NoDraft

\* Until a slip, a token to come is in neither of the two.
FreshInv ==
    slips = {} => /\ \A id \in DOMAIN pastes : id < nextID
                  /\ \A id \in DOMAIN draft.pastes : id < nextID

ComposerInv == ComposerTypes /\ TokenInv /\ FreshInv /\ DraftKept

\* The ids in a text are those of its tokens.
LEMMA TokensMember ==
  ASSUME NEW text, NEW id
  PROVE  id \in TokensOf(text) <=>
           \E i \in DOMAIN text : text[i].kind = "paste" /\ text[i].of = id
BY DEF TokensOf

\* A text is as long as what it stands for.
LEMMA ExpandedType ==
  ASSUME NEW text \in Seq(Pieces), NEW of, Blocks(of)
  PROVE  Expanded(text, of) \in Seq(Nat) /\ Len(Expanded(text, of)) = Len(text)
<1>1. ASSUME NEW i \in DOMAIN text PROVE Expanded(text, of)[i] \in Nat
  <2>1. text[i] \in Pieces
    OBVIOUS
  <2>2. text[i].of \in Nat /\ text[i].kind \in {"typed", "paste"}
    BY <2>1 DEF Pieces
  <2> QED BY <2>2 DEF Expanded, Blocks
<1>2. DOMAIN text = 1 .. Len(text) /\ Len(text) \in Nat
  OBVIOUS
<1>3. Expanded(text, of) \in [1 .. Len(text) -> Nat]
  BY <1>1, <1>2 DEF Expanded
<1> QED BY <1>2, <1>3

\* What a text stands for depends on the blocks of its tokens alone.
LEMMA ExpandedAgrees ==
  ASSUME NEW text, NEW of, NEW other,
         TokensOf(text) \subseteq DOMAIN of, TokensOf(text) \subseteq DOMAIN other,
         \A id \in TokensOf(text) : of[id] = other[id]
  PROVE  Expanded(text, of) = Expanded(text, other)
BY TokensMember DEF Expanded

\* One more piece stands for one more.
LEMMA ExpandedAppend ==
  ASSUME NEW text \in Seq(Pieces), NEW x \in Pieces, NEW of, Blocks(of)
  PROVE  Expanded(Append(text, x), of) =
           Append(Expanded(text, of), Expanded(<<x>>, of)[1])
<1> DEFINE longer == Append(text, x)
           old == Expanded(text, of)
           c == Expanded(<<x>>, of)[1]
<1>1. old \in Seq(Nat) /\ Len(old) = Len(text)
  BY ExpandedType
<1>2. longer \in Seq(Pieces) /\ Len(longer) = Len(text) + 1
  BY AppendProperties
<1>3. Expanded(longer, of) \in Seq(Nat) /\ Len(Expanded(longer, of)) = Len(longer)
  BY <1>2, ExpandedType
<1>4. c \in Nat
  BY DEF Expanded, Blocks, Pieces
<1>5. Append(old, c) \in Seq(Nat) /\ Len(Append(old, c)) = Len(text) + 1
  BY <1>1, <1>4, AppendProperties
<1>6. ASSUME NEW i \in 1 .. Len(text) + 1 PROVE Expanded(longer, of)[i] = Append(old, c)[i]
  <2>1. CASE i = Len(text) + 1
    <3>1. longer[i] = x /\ Append(old, c)[i] = c
      BY <2>1, <1>1, <1>4
    <3> QED BY <3>1, <1>2 DEF Expanded
  <2>2. CASE i # Len(text) + 1
    <3>1. i \in 1 .. Len(text)
      BY <2>2
    <3>2. longer[i] = text[i] /\ Append(old, c)[i] = old[i]
      BY <3>1, <1>1, <1>4
    <3> QED BY <3>1, <3>2, <1>2 DEF Expanded
  <2> QED BY <2>1, <2>2
<1> HIDE DEF longer, old, c
<1>7. Expanded(longer, of) = Append(old, c)
  BY <1>2, <1>3, <1>5, <1>6, SeqEqual
<1> QED BY <1>7 DEF longer, old, c

\* And without the last piece, for one less.
LEMMA ExpandedFront ==
  ASSUME NEW text \in Seq(Pieces), text # <<>>, NEW of, Blocks(of)
  PROVE  /\ Front(text) \in Seq(Pieces)
         /\ TokensOf(Front(text)) \subseteq TokensOf(text)
         /\ Expanded(Front(text), of) = Front(Expanded(text, of))
<1> DEFINE old == Expanded(text, of)
<1>1. old \in Seq(Nat) /\ Len(old) = Len(text) /\ Len(text) > 0 /\ Len(text) \in Nat
  BY ExpandedType
<1>2. /\ Front(text) \in Seq(Pieces) /\ Len(Front(text)) = Len(text) - 1
      /\ \A i \in 1 .. Len(text) - 1 : Front(text)[i] = text[i]
  BY <1>1 DEF Front
<1>3. /\ Front(old) \in Seq(Nat) /\ Len(Front(old)) = Len(text) - 1
      /\ \A i \in 1 .. Len(text) - 1 : Front(old)[i] = old[i]
  <2> HIDE DEF old
  <2> QED BY <1>1 DEF Front
<1>4. TokensOf(Front(text)) \subseteq TokensOf(text)
  <2> SUFFICES ASSUME NEW id \in TokensOf(Front(text)) PROVE id \in TokensOf(text)
    OBVIOUS
  <2>1. PICK i \in DOMAIN Front(text) : Front(text)[i].kind = "paste" /\ Front(text)[i].of = id
    BY TokensMember
  <2>2. i \in 1 .. Len(text) - 1 /\ i \in DOMAIN text
    BY <1>1, <1>2
  <2>3. text[i].kind = "paste" /\ text[i].of = id
    BY <1>2, <2>1, <2>2
  <2> QED BY <2>2, <2>3, TokensMember
<1>5. Expanded(Front(text), of) \in Seq(Nat) /\ Len(Expanded(Front(text), of)) = Len(text) - 1
  BY <1>2, ExpandedType
<1>6. \A i \in 1 .. Len(text) - 1 : Expanded(Front(text), of)[i] = old[i]
  BY <1>1, <1>2 DEF Expanded
<1> HIDE DEF old
<1>7. Expanded(Front(text), of) = Front(old)
  BY <1>1, <1>3, <1>5, <1>6, SeqEqual
<1> QED BY <1>2, <1>4, <1>7 DEF old

\* Forgetting blocks without a token changes nothing.
LEMMA PrunedKeeps ==
  ASSUME NEW text \in Seq(Pieces), NEW of, Blocks(of), TokensOf(text) \subseteq DOMAIN of
  PROVE  /\ Blocks(Pruned(text, of))
         /\ TokensOf(text) \subseteq DOMAIN Pruned(text, of)
         /\ DOMAIN Pruned(text, of) \subseteq DOMAIN of
         /\ Expanded(text, Pruned(text, of)) = Expanded(text, of)
<1>1. /\ DOMAIN Pruned(text, of) = DOMAIN of \cap TokensOf(text)
      /\ \A id \in DOMAIN of \cap TokensOf(text) : Pruned(text, of)[id] = of[id]
  BY DEF Pruned
<1>2. Blocks(Pruned(text, of))
  BY <1>1 DEF Blocks
<1>3. Expanded(text, Pruned(text, of)) = Expanded(text, of)
  BY <1>1, ExpandedAgrees
<1> QED BY <1>1, <1>2, <1>3

\* The tokens of a text with one more piece.
LEMMA TokensAppend ==
  ASSUME NEW text \in Seq(Pieces), NEW x \in Pieces
  PROVE  /\ Append(text, x) \in Seq(Pieces)
         /\ TokensOf(Append(text, x)) \subseteq
              TokensOf(text) \cup (IF x.kind = "paste" THEN {x.of} ELSE {})
<1>1. /\ Append(text, x) \in Seq(Pieces) /\ DOMAIN Append(text, x) = 1 .. Len(text) + 1
      /\ \A i \in 1 .. Len(text) : Append(text, x)[i] = text[i]
      /\ Append(text, x)[Len(text) + 1] = x
  BY AppendProperties
<1>2. ASSUME NEW id \in TokensOf(Append(text, x))
      PROVE  id \in TokensOf(text) \cup (IF x.kind = "paste" THEN {x.of} ELSE {})
  <2>0. PICK i \in DOMAIN Append(text, x) :
          Append(text, x)[i].kind = "paste" /\ Append(text, x)[i].of = id
    BY <1>2, TokensMember, Zenon
  <2>1. i \in 1 .. Len(text) + 1
    BY <1>1, <2>0
  <2>2. CASE i \in 1 .. Len(text)
    BY <1>1, <2>0, <2>2, TokensMember
  <2>3. CASE i = Len(text) + 1
    BY <1>1, <2>0, <2>3
  <2> QED BY <2>1, <2>2, <2>3
<1> QED BY <1>1, <1>2

\* The empty text stands for nothing.
LEMMA EmptyDraft ==
  /\ <<>> \in Seq(Pieces) /\ Blocks(<<>>) /\ TokensOf(<<>>) = {} /\ DOMAIN <<>> = {}
  /\ \A of : Expanded(<<>>, of) = <<>>
  /\ NoDraft.value = <<>> /\ NoDraft.pastes = <<>> /\ NoDraft.images = {}
<1>1. DOMAIN <<>> = {}
  OBVIOUS
<1>2. TokensOf(<<>>) = {} /\ Blocks(<<>>)
  BY <1>1 DEF TokensOf, Blocks
<1>3. ASSUME NEW of PROVE Expanded(<<>>, of) = <<>>
  BY <1>1 DEF Expanded
<1> QED BY <1>1, <1>2, <1>3 DEF NoDraft

\* The input begins empty.
LEMMA ComposerInitially == ComposerInit => ComposerInv
<1> SUFFICES ASSUME ComposerInit PROVE ComposerInv
  OBVIOUS
<1> USE EmptyDraft DEF ComposerInit
<1>1. ComposerTypes
  BY DEF ComposerTypes, Editing
<1>2. TokenInv /\ FreshInv
  BY DEF TokenInv, FreshInv
<1>3. DraftKept
  BY DEF DraftKept, Written
<1> QED BY <1>1, <1>2, <1>3 DEF ComposerInv

\* What the invariant speaks of.
draftVars == <<input, pastes, nextID, images, disk, editor, picker, draft, made,
               meant, kept, slips, outgoing>>

LEMMA DraftUnchanged == ComposerInv /\ UNCHANGED draftVars => ComposerInv'
BY DEF ComposerInv, ComposerTypes, TokenInv, FreshInv, DraftKept, Written, draftVars, Editing

\* A new text of the input that stands for what is meant by now.
LEMMA InputChanges ==
  ASSUME ComposerInv,
         NEW text \in Seq(Pieces), NEW of, Blocks(of), TokensOf(text) \subseteq DOMAIN of,
         TextIs(text, of),
         nextID' \in Nat, nextID <= nextID',
         slips = {} => \A id \in TokensOf(text) : id < nextID',
         made' \in [pieces : Nat, images : Nat],
         Editing' => editor'.token \in Nat,
         UNCHANGED <<images, disk, picker, draft, kept, slips, outgoing>>,
         slips = {} => meant' = IF picker THEN meant ELSE Expanded(text, of)
  PROVE  ComposerInv'
<1>1. /\ input' = text /\ pastes' = Pruned(text, of)
      /\ Blocks(pastes') /\ TokensOf(input') \subseteq DOMAIN pastes'
      /\ DOMAIN pastes' \subseteq TokensOf(text)
      /\ Expanded(input', pastes') = Expanded(text, of)
  BY PrunedKeeps DEF TextIs, Pruned
<1>2. ComposerTypes'
  BY <1>1 DEF ComposerInv, ComposerTypes
<1>3. TokenInv'
  BY <1>1 DEF ComposerInv, TokenInv
<1>4. FreshInv'
  <2> SUFFICES ASSUME slips = {} PROVE /\ \A id \in DOMAIN pastes' : id < nextID'
                                      /\ \A id \in DOMAIN draft.pastes : id < nextID'
    BY DEF FreshInv
  <2>1. \A id \in DOMAIN draft.pastes : id \in Nat /\ id < nextID
    BY DEF ComposerInv, ComposerTypes, FreshInv, Blocks
  <2>2. nextID \in Nat
    BY DEF ComposerInv, ComposerTypes
  <2> QED BY <1>1, <2>1, <2>2
<1>5. DraftKept'
  BY <1>1 DEF ComposerInv, DraftKept, Written
<1> QED BY <1>2, <1>3, <1>4, <1>5 DEF ComposerInv

\* Typing a piece.
LEMMA TypeStep == ComposerInv /\ Type => ComposerInv'
<1> SUFFICES ASSUME ComposerInv, Type PROVE ComposerInv'
  OBVIOUS
<1> DEFINE x == Typed(Fresh)
<1>1. /\ input \in Seq(Pieces) /\ Blocks(pastes) /\ nextID \in Nat
      /\ TokensOf(input) \subseteq DOMAIN pastes
      /\ made \in [pieces : Nat, images : Nat]
  BY DEF ComposerInv, ComposerTypes, TokenInv
<1>2. x \in Pieces /\ x.kind = "typed" /\ Fresh \in Nat
  BY <1>1 DEF Typed, Pieces, Fresh
<1>3. Append(input, x) \in Seq(Pieces) /\ TokensOf(Append(input, x)) \subseteq DOMAIN pastes
  BY <1>1, <1>2, TokensAppend
<1>4. Expanded(<<x>>, pastes)[1] = Fresh
  BY DEF Expanded, Typed
<1>5. Expanded(Append(input, x), pastes) = Append(Expanded(input, pastes), Fresh)
  BY <1>1, <1>2, <1>4, ExpandedAppend
<1>6. made' \in [pieces : Nat, images : Nat]
  BY <1>1, <1>2 DEF Type
<1>7. slips = {} => meant' = IF picker THEN meant ELSE Expanded(Append(input, x), pastes)
  BY <1>5 DEF Type, Writes, ComposerInv, DraftKept, Written
<1>8. slips = {} => \A id \in TokensOf(Append(input, x)) : id < nextID'
  BY <1>3 DEF Type, ComposerInv, FreshInv
<1>9. Editing' => editor'.token \in Nat
  BY DEF Type, ComposerInv, ComposerTypes, Editing
<1>10. TextIs(Append(input, x), pastes) /\ nextID' \in Nat /\ nextID <= nextID'
       /\ UNCHANGED <<images, disk, picker, draft, kept, slips, outgoing>>
  BY <1>1 DEF Type
<1> HIDE DEF x
<1> QED BY <1>1, <1>3, <1>6, <1>7, <1>8, <1>9, <1>10, InputChanges

\* Pasting a block: the id of its token is a new one.
LEMMA PasteBlockStep == ComposerInv /\ PasteBlock => ComposerInv'
<1> SUFFICES ASSUME ComposerInv, PasteBlock PROVE ComposerInv'
  OBVIOUS
<1> DEFINE x == Token(nextID)
           of == [id \in DOMAIN pastes \cup {nextID} |->
                     IF id = nextID THEN Fresh ELSE pastes[id]]
<1>1. /\ input \in Seq(Pieces) /\ Blocks(pastes) /\ nextID \in Nat
      /\ TokensOf(input) \subseteq DOMAIN pastes
      /\ made \in [pieces : Nat, images : Nat]
  BY DEF ComposerInv, ComposerTypes, TokenInv
<1>2. x \in Pieces /\ x.kind = "paste" /\ x.of = nextID /\ Fresh \in Nat
  BY <1>1 DEF Token, Pieces, Fresh
<1>3. /\ DOMAIN of = DOMAIN pastes \cup {nextID} /\ of[nextID] = Fresh
      /\ \A id \in DOMAIN pastes : id # nextID => of[id] = pastes[id]
      /\ Blocks(of)
  BY <1>1, <1>2 DEF Blocks
<1>4. /\ Append(input, x) \in Seq(Pieces)
      /\ TokensOf(Append(input, x)) \subseteq TokensOf(input) \cup {nextID}
  BY <1>1, <1>2, TokensAppend
<1>5. Expanded(<<x>>, of)[1] = Fresh
  BY <1>2, <1>3 DEF Expanded
<1> HIDE DEF of, x
<1>6. Expanded(Append(input, x), of) = Append(Expanded(input, of), Fresh)
  BY <1>1, <1>2, <1>3, <1>5, ExpandedAppend
<1>7. ASSUME slips = {} PROVE Expanded(input, of) = Expanded(input, pastes)
  <2>1. nextID \notin DOMAIN pastes
    BY <1>1, <1>7 DEF ComposerInv, FreshInv
  <2> QED BY <1>1, <1>3, <2>1, ExpandedAgrees
<1>8. made' \in [pieces : Nat, images : Nat]
  BY <1>1, <1>2 DEF PasteBlock
<1>9. slips = {} => meant' = IF picker THEN meant ELSE Expanded(Append(input, x), of)
  BY <1>6, <1>7 DEF PasteBlock, Writes, ComposerInv, DraftKept, Written
<1>10. slips = {} => \A id \in TokensOf(Append(input, x)) : id < nextID'
  <2> SUFFICES ASSUME slips = {}, NEW id \in TokensOf(input) \cup {nextID} PROVE id < nextID'
    BY <1>4
  <2>1. CASE id = nextID
    BY <1>1, <2>1 DEF PasteBlock
  <2>2. CASE id \in TokensOf(input)
    <3>1. id \in Nat /\ id < nextID
      BY <1>1, <2>2 DEF ComposerInv, FreshInv, Blocks
    <3> QED BY <1>1, <3>1 DEF PasteBlock
  <2> QED BY <2>1, <2>2
<1>11. Editing' => editor'.token \in Nat
  BY DEF PasteBlock, ComposerInv, ComposerTypes, Editing
<1>12. nextID' \in Nat /\ nextID <= nextID'
       /\ UNCHANGED <<images, disk, picker, draft, kept, slips, outgoing>>
  BY <1>1 DEF PasteBlock
<1>13. TextIs(Append(input, x), of)
  BY DEF PasteBlock, x, of
<1>14. TokensOf(Append(input, x)) \subseteq DOMAIN of
  BY <1>1, <1>3, <1>4
<1> QED BY <1>3, <1>4, <1>8, <1>9, <1>10, <1>11, <1>12, <1>13, <1>14, InputChanges

\* Erasing the last piece.
LEMMA EraseStep == ComposerInv /\ Erase => ComposerInv'
<1> SUFFICES ASSUME ComposerInv, Erase PROVE ComposerInv'
  OBVIOUS
<1>1. /\ input \in Seq(Pieces) /\ input # <<>> /\ Blocks(pastes) /\ nextID \in Nat
      /\ TokensOf(input) \subseteq DOMAIN pastes
  BY DEF ComposerInv, ComposerTypes, TokenInv, Erase
<1>2. /\ Front(input) \in Seq(Pieces) /\ TokensOf(Front(input)) \subseteq TokensOf(input)
      /\ Expanded(Front(input), pastes) = Front(Expanded(input, pastes))
  BY <1>1, ExpandedFront
<1>3. Expanded(input, pastes) # <<>>
  <2>1. Len(Expanded(input, pastes)) = Len(input) /\ Len(input) # 0
    BY <1>1, ExpandedType
  <2> QED BY <2>1
<1>4. slips = {} => meant' = IF picker THEN meant ELSE Expanded(Front(input), pastes)
  BY <1>2, <1>3 DEF Erase, ComposerInv, DraftKept, Written
<1>5. slips = {} => \A id \in TokensOf(Front(input)) : id < nextID'
  BY <1>1, <1>2 DEF Erase, ComposerInv, FreshInv
<1>6. Editing' => editor'.token \in Nat
  BY DEF Erase, ComposerInv, ComposerTypes, Editing
<1>7. made' \in [pieces : Nat, images : Nat]
  <2>1. made' = made
    BY DEF Erase
  <2> QED BY <2>1 DEF ComposerInv, ComposerTypes
<1>8. TextIs(Front(input), pastes) /\ nextID' \in Nat /\ nextID <= nextID'
      /\ UNCHANGED <<images, disk, picker, draft, kept, slips, outgoing>>
  BY <1>1 DEF Erase
<1>9. TokensOf(Front(input)) \subseteq DOMAIN pastes
  BY <1>1, <1>2
<1> QED BY <1>1, <1>2, <1>4, <1>5, <1>6, <1>7, <1>8, <1>9, InputChanges

\* Saving the editor: an edit that is kept is meant, and one whose token is
\* gone is lost to both.
LEMMA SaveEditorStep == ComposerInv /\ SaveEditor => ComposerInv'
<1> SUFFICES ASSUME ComposerInv, SaveEditor PROVE ComposerInv'
  OBVIOUS
<1> DEFINE e == editor.token
           of == [id \in DOMAIN pastes \cup {e} |-> IF id = e THEN Fresh ELSE pastes[id]]
<1>1. /\ input \in Seq(Pieces) /\ Blocks(pastes) /\ nextID \in Nat
      /\ TokensOf(input) \subseteq DOMAIN pastes
      /\ made \in [pieces : Nat, images : Nat] /\ e \in Nat
  BY DEF ComposerInv, ComposerTypes, TokenInv, SaveEditor
<1>2. ~Editing'
  BY DEF SaveEditor, Editing
<1>3. CASE UNCHANGED <<pastes, meant, made>>
  BY <1>2, <1>3 DEF SaveEditor, ComposerInv, ComposerTypes, TokenInv, FreshInv, DraftKept, Written
<1>4. CASE ~UNCHANGED <<pastes, meant, made>>
  <2>1. /\ made' = [made EXCEPT !.pieces = Fresh]
        /\ pastes' = Pruned(input, of)
        /\ meant' = [i \in DOMAIN meant |->
                       IF ~picker /\ i \in DOMAIN input /\ input[i] = Token(e)
                       THEN Fresh ELSE meant[i]]
    BY <1>4 DEF SaveEditor
  <2>2. Fresh \in Nat /\ made' \in [pieces : Nat, images : Nat]
    BY <1>1, <2>1 DEF Fresh
  <2>3. /\ DOMAIN of = DOMAIN pastes \cup {e} /\ of[e] = Fresh
        /\ \A id \in DOMAIN pastes : id # e => of[id] = pastes[id]
        /\ Blocks(of)
    BY <1>1, <2>2 DEF Blocks
  <2>4. ASSUME slips = {}, ~picker PROVE meant' = Expanded(input, of)
    <3>1. meant = Expanded(input, pastes)
      BY <2>4 DEF ComposerInv, DraftKept, Written
    <3>2. DOMAIN meant = DOMAIN input
      BY <3>1 DEF Expanded
    <3>3. ASSUME NEW i \in DOMAIN input PROVE meant'[i] = Expanded(input, of)[i]
      <4>1. input[i] \in Pieces /\ meant[i] = Expanded(input, pastes)[i]
        BY <1>1, <3>1, <3>3
      <4>2. meant'[i] = IF input[i] = Token(e) THEN Fresh ELSE meant[i]
        BY <2>1, <2>4, <3>2, <3>3
      <4>3. input[i] = Token(e) <=> input[i].kind = "paste" /\ input[i].of = e
        BY <4>1 DEF Token, Pieces
      <4>4. input[i].kind = "paste" => input[i].of \in DOMAIN pastes
        BY <1>1, <3>3, TokensMember
      <4> HIDE DEF of, e
      <4> QED BY <2>3, <4>1, <4>2, <4>3, <4>4 DEF Expanded
    <3>4. /\ meant' = [i \in DOMAIN input |-> meant'[i]]
          /\ Expanded(input, of) = [i \in DOMAIN input |-> Expanded(input, of)[i]]
      BY <2>1, <3>2 DEF Expanded
    <3> QED BY <3>3, <3>4
  <2>5. ASSUME slips = {}, picker PROVE meant' = meant
    <3>1. meant = Expanded(draft.value, draft.pastes)
      BY <2>5 DEF ComposerInv, DraftKept, Written
    <3>2. meant = [i \in DOMAIN meant |-> meant[i]]
      BY <3>1 DEF Expanded
    <3> QED BY <2>1, <2>5, <3>2
  <2>6. slips = {} => meant' = IF picker THEN meant ELSE Expanded(input, of)
    BY <2>4, <2>5
  <2>7. slips = {} => \A id \in TokensOf(input) : id < nextID'
    BY <1>1 DEF SaveEditor, ComposerInv, FreshInv
  <2>8. nextID' \in Nat /\ nextID <= nextID'
        /\ UNCHANGED <<images, disk, picker, draft, kept, slips, outgoing>>
    BY <1>1 DEF SaveEditor
  <2>9. TextIs(input, of)
    BY <2>1 DEF TextIs, SaveEditor
  <2>10. TokensOf(input) \subseteq DOMAIN of
    BY <1>1, <2>3
  <2> HIDE DEF of
  <2> QED BY <1>1, <1>2, <2>2, <2>3, <2>6, <2>7, <2>8, <2>9, <2>10, InputChanges
<1> QED BY <1>3, <1>4

\* Images are kept in files while the user wants them; in the picker that is a slip.
LEMMA ImagesStep == ComposerInv /\ (PasteImage \/ RemoveImages) => ComposerInv'
<1> SUFFICES ASSUME ComposerInv, PasteImage \/ RemoveImages PROVE ComposerInv'
  OBVIOUS
<1>1. UNCHANGED <<input, pastes, nextID, editor, picker, draft, meant, outgoing>>
  BY DEF PasteImage, RemoveImages
<1>2. slips' = {} => slips = {}
  BY DEF PasteImage, RemoveImages
<1>3. made' \in [pieces : Nat, images : Nat]
  <2>1. made \in [pieces : Nat, images : Nat]
    BY DEF ComposerInv, ComposerTypes
  <2>2. CASE PasteImage
    <3>1. made' = [made EXCEPT !.images = made.images + 1]
      BY <2>2 DEF PasteImage
    <3> QED BY <2>1, <3>1
  <2>3. CASE RemoveImages
    BY <2>1, <2>3 DEF RemoveImages
  <2> QED BY <2>2, <2>3
<1>4. ComposerTypes' /\ TokenInv' /\ FreshInv'
  BY <1>1, <1>2, <1>3 DEF ComposerInv, ComposerTypes, TokenInv, FreshInv, Editing
<1>5. ASSUME slips' = {}
      PROVE  (IF picker' THEN draft'.images ELSE images') = kept' /\ kept' \subseteq disk'
  <2>1. slips = {} /\ ~(PasteImage /\ picker) /\ ~(RemoveImages /\ picker)
    BY <1>5 DEF PasteImage, RemoveImages
  <2>2. ~picker /\ images = kept /\ kept \subseteq disk
    BY <2>1 DEF ComposerInv, DraftKept
  <2>3. CASE PasteImage
    BY <1>1, <2>2, <2>3 DEF PasteImage
  <2>4. CASE RemoveImages
    BY <1>1, <2>2, <2>4 DEF RemoveImages
  <2> QED BY <2>3, <2>4
<1>6. Written' = Written
  BY <1>1 DEF Written
<1>7. DraftKept'
  BY <1>1, <1>2, <1>5, <1>6 DEF ComposerInv, DraftKept
<1> QED BY <1>4, <1>7 DEF ComposerInv

\* The picker opens: the draft moves behind it, with its blocks and images.
LEMMA OpenedStep ==
  ASSUME ComposerInv, Opened,
         UNCHANGED <<pastes, nextID, images, disk, editor, made, meant, kept, outgoing>>
  PROVE  ComposerInv'
<1>1. /\ draft'.value = input /\ draft'.images = images /\ Blocks(draft'.pastes)
      /\ TokensOf(input) \subseteq DOMAIN draft'.pastes
      /\ DOMAIN draft'.pastes \subseteq DOMAIN pastes
      /\ Expanded(input, draft'.pastes) = Expanded(input, pastes)
  <2>1. Blocks(pastes) /\ TokensOf(input) \subseteq DOMAIN pastes
    BY DEF ComposerInv, ComposerTypes, TokenInv
  <2>2. CASE input = <<>> /\ images = {} /\ DOMAIN pastes = {}
    BY <2>2, EmptyDraft DEF Opened, Stashed
  <2>3. CASE ~(input = <<>> /\ images = {} /\ DOMAIN pastes = {})
    BY <2>1, <2>3 DEF Opened, Stashed
  <2> QED BY <2>2, <2>3
<1>2. picker' = TRUE /\ input' = <<>> /\ (slips' = {} => slips = {} /\ ~picker)
  BY DEF Opened
<1>3. ComposerTypes'
  BY <1>1, <1>2, EmptyDraft DEF ComposerInv, ComposerTypes, Editing
<1>4. TokenInv' /\ FreshInv'
  BY <1>1, <1>2, EmptyDraft DEF ComposerInv, TokenInv, FreshInv
<1>5. DraftKept'
  BY <1>1, <1>2 DEF ComposerInv, DraftKept, Written
<1> QED BY <1>3, <1>4, <1>5 DEF ComposerInv

\* And back when it closes; a token never outlives the count of tokens.
LEMMA ClosingStep ==
  ASSUME ComposerInv, Closing, picker,
         UNCHANGED <<disk, made, meant, kept, slips, outgoing>>
  PROVE  ComposerInv'
<1>1. /\ picker' = FALSE /\ draft' = NoDraft
      /\ input' = draft.value /\ pastes' = draft.pastes /\ images' = draft.images
      /\ nextID' = (IF DOMAIN draft.pastes = {} THEN 0 ELSE nextID)
      /\ (Editing' => editor' = editor /\ Editing)
  BY DEF Closing, Editing
<1>2. ComposerTypes'
  BY <1>1, EmptyDraft DEF ComposerInv, ComposerTypes
<1>3. TokenInv' /\ FreshInv'
  BY <1>1, EmptyDraft DEF ComposerInv, TokenInv, FreshInv
<1>4. DraftKept'
  BY <1>1 DEF ComposerInv, DraftKept, Written
<1> QED BY <1>2, <1>3, <1>4 DEF ComposerInv

\* The model command opens the picker over an empty input.
LEMMA SlashModelStep == ComposerInv /\ SlashModel => ComposerInv'
<1> SUFFICES ASSUME ComposerInv, SlashModel PROVE ComposerInv'
  OBVIOUS
<1> USE DEF SlashModel
<1>1. ComposerTypes' /\ TokenInv' /\ FreshInv'
  BY EmptyDraft DEF ComposerInv, ComposerTypes, TokenInv, FreshInv, Editing
<1>2. slips' = {} => slips = {} /\ images = {}
  OBVIOUS
<1>3. DraftKept'
  BY <1>2, EmptyDraft DEF ComposerInv, DraftKept, Written
<1> QED BY <1>1, <1>3 DEF ComposerInv

\* An input that is cleared, or sent, is empty and so is what is meant.
LEMMA ResetStep ==
  ASSUME ComposerInv, ResetInput, ~picker, UNCHANGED <<picker, draft, made>>,
         meant' = <<>>, slips' = {} => images' = kept' /\ kept' \subseteq disk',
         outgoing'.slips = {} =>
           /\ outgoing'.text = outgoing'.meant
           /\ outgoing'.images \cup outgoing'.named = outgoing'.kept
  PROVE  ComposerInv'
<1>1. draft = NoDraft /\ draft' = NoDraft /\ picker' = FALSE
  BY DEF ComposerInv, ComposerTypes, TokenInv
<1>2. ComposerTypes' /\ TokenInv' /\ FreshInv'
  BY <1>1, EmptyDraft
     DEF ComposerInv, ComposerTypes, TokenInv, FreshInv, ResetInput, Editing
<1>3. DraftKept'
  BY <1>1, EmptyDraft DEF DraftKept, Written, ResetInput
<1> QED BY <1>2, <1>3 DEF ComposerInv

\* Ctrl-C clears the input and the images; in the picker that is a slip.
LEMMA CtrlCStep == ComposerInv /\ CtrlC => ComposerInv'
<1> SUFFICES ASSUME ComposerInv, CtrlC PROVE ComposerInv'
  OBVIOUS
<1>1. CASE UNCHANGED <<input, pastes, nextID, editor, images, disk, meant, kept, slips>>
  BY <1>1, DraftUnchanged DEF CtrlC, draftVars
<1>2. CASE ~UNCHANGED <<input, pastes, nextID, editor, images, disk, meant, kept, slips>>
  <2>1. /\ ResetInput /\ images' = {} /\ disk' = disk \ images
        /\ IF picker
           THEN slips' = slips \cup {"cleared in picker"} /\ UNCHANGED <<meant, kept>>
           ELSE meant' = <<>> /\ kept' = {} /\ slips' = {}
        /\ UNCHANGED <<picker, draft, made, outgoing>>
    BY <1>2 DEF CtrlC
  <2>2. CASE picker
    <3>1. slips' # {} /\ picker' = picker
      BY <2>1, <2>2
    <3>4. ComposerTypes'
      BY <2>1, EmptyDraft DEF ComposerInv, ComposerTypes, ResetInput, Editing
    <3>5. TokenInv'
      BY <2>1, <2>2, EmptyDraft DEF ComposerInv, TokenInv, ResetInput
    <3>2. ComposerTypes' /\ TokenInv' /\ FreshInv'
      BY <3>1, <3>4, <3>5 DEF FreshInv
    <3>3. DraftKept'
      BY <2>1, <3>1 DEF ComposerInv, DraftKept
    <3> QED BY <3>2, <3>3 DEF ComposerInv
  <2>3. CASE ~picker
    <3>1. outgoing'.slips = {} =>
            /\ outgoing'.text = outgoing'.meant
            /\ outgoing'.images \cup outgoing'.named = outgoing'.kept
      BY <2>1 DEF ComposerInv, DraftKept
    <3> QED BY <2>1, <2>3, <3>1, ResetStep
  <2> QED BY <2>2, <2>3
<1> QED BY <1>1, <1>2

\* What is sent is the draft, its images read before their files are removed.
LEMMA SubmitStep == ComposerInv /\ Submit => ComposerInv'
<1> SUFFICES ASSUME ComposerInv, Submit PROVE ComposerInv'
  OBVIOUS
<1>1. CASE ~model.active
  BY <1>1, OpenedStep DEF Submit
<1>2. CASE model.active
  <2>1. /\ outgoing' = [text |-> Expanded(input, pastes), meant |-> meant,
                        images |-> IF model.images THEN images \cap disk ELSE {},
                        named |-> IF model.images THEN {} ELSE images,
                        kept |-> kept, slips |-> slips]
        /\ ResetInput /\ images' = {} /\ meant' = <<>> /\ kept' = {} /\ ~picker
        /\ UNCHANGED <<picker, draft, made>>
    BY <1>2 DEF Submit
  <2>2. slips = {} => Expanded(input, pastes) = meant /\ images = kept /\ kept \subseteq disk
    BY <2>1 DEF ComposerInv, DraftKept, Written
  <2>3. outgoing'.slips = {} =>
          /\ outgoing'.text = outgoing'.meant
          /\ outgoing'.images \cup outgoing'.named = outgoing'.kept
    BY <2>1, <2>2
  <2> QED BY <2>1, <2>3, ResetStep
<1> QED BY <1>1, <1>2

\* A shell command takes the text and leaves the images.
LEMMA SubmitShellStep ==
  ASSUME ComposerInv, NEW kind, SubmitShell(kind) PROVE ComposerInv'
<1>1. ResetInput /\ ~picker /\ meant' = <<>>
      /\ UNCHANGED <<images, disk, picker, draft, made, kept, slips, outgoing>>
  BY DEF SubmitShell
<1>2. slips' = {} => images' = kept' /\ kept' \subseteq disk'
  BY <1>1 DEF ComposerInv, DraftKept
<1>3. outgoing'.slips = {} =>
        /\ outgoing'.text = outgoing'.meant
        /\ outgoing'.images \cup outgoing'.named = outgoing'.kept
  BY <1>1 DEF ComposerInv, DraftKept
<1> QED BY <1>1, <1>2, <1>3, ResetStep

\* What ends by itself may open the picker.
LEMMA FinishRunningStep == ComposerInv /\ FinishRunning => ComposerInv'
<1> SUFFICES ASSUME ComposerInv, FinishRunning PROVE ComposerInv'
  OBVIOUS
<1>1. CASE running = "shell context" /\ ~model.active
  BY <1>1, OpenedStep DEF FinishRunning
<1>2. CASE ~(running = "shell context" /\ ~model.active)
  BY <1>2, DraftUnchanged DEF FinishRunning, draftVars
<1> QED BY <1>1, <1>2

\* Every step keeps the invariant.
LEMMA ComposerStep == ComposerInv /\ [ComposerNext]_composerVars => ComposerInv'
<1> SUFFICES ASSUME ComposerInv, [ComposerNext]_composerVars PROVE ComposerInv'
  OBVIOUS
<1>1. ASSUME NEW id, OpenEditor(id) PROVE ComposerInv'
  <2>1. editor' = [token |-> id] /\ id \in DOMAIN pastes
        /\ UNCHANGED <<input, pastes, nextID, images, disk, picker, draft, made,
                       meant, kept, slips, outgoing>>
    BY <1>1 DEF OpenEditor
  <2> QED BY <2>1 DEF ComposerInv, ComposerTypes, TokenInv, FreshInv, DraftKept, Written, Blocks
<1>2. CASE TogglePicker
  <2>1. CASE ~picker
    BY <1>2, <2>1, OpenedStep DEF TogglePicker
  <2>2. CASE picker
    BY <1>2, <2>2, ClosingStep DEF TogglePicker
  <2> QED BY <2>1, <2>2
<1>3. ASSUME NEW chosen, Confirm(chosen) PROVE ComposerInv'
  BY <1>3, ClosingStep DEF Confirm
<1>4. CASE CtrlCReset \/ CancelRunning \/ UNCHANGED composerVars
  BY <1>4, DraftUnchanged DEF CtrlCReset, CancelRunning, composerVars, draftVars
<1> QED
  BY <1>1, <1>2, <1>3, <1>4, TypeStep, PasteBlockStep, EraseStep, ImagesStep, SaveEditorStep,
     SlashModelStep, CtrlCStep, SubmitStep, SubmitShellStep, FinishRunningStep
  DEF ComposerNext

(***************************************************************************)
(* What the user typed and pasted is what the input, or the draft behind   *)
(* the picker, stands for and what the turn is given, and an image he      *)
(* still wants has its file, until one of the five slips: an image pasted  *)
(* or removed under the picker, a picker opened twice, the input cleared   *)
(* under it, /model beside images                                          *)
(* (internal/renderer/input.go, paste.go, attachments.go).                 *)
(***************************************************************************)
THEOREM ComposerKeepsDraft == ComposerSpec => []DraftKept
<1>1. ComposerInv => DraftKept
  BY DEF ComposerInv
<1> QED BY <1>1, ComposerInitially, ComposerStep, PTL DEF ComposerSpec

-----------------------------------------------------------------------------
(***************************************************************************)
(* For any number of messages, widths and switches: what the caches of the *)
(* message list hold is what the messages are.                             *)
(***************************************************************************)

Texts == Nat \X {"draft", "final"}
Renderings == [text : Texts, open : BOOLEAN, running : BOOLEAN, width : Nat, theme : {0, 1},
               mode : {"full", "stream", "preview"}, frame : Nat, late : BOOLEAN]
Caches == {NoCache} \cup [width : Nat, streaming : BOOLEAN, size : Nat, open : BOOLEAN,
                          running : BOOLEAN, frame : Nat, block : Renderings]
ChatMessages == [kind : {"user", "ai", "detail"}, text : Texts, open : BOOLEAN,
                 running : BOOLEAN, pending : BOOLEAN, cache : Caches]
Views == [width : Widths, theme : {0, 1}, frame : Nat, tall : BOOLEAN]
Turns == [busy : BOOLEAN, stream : Nat, tool : Nat]
Jobs == [index : Nat, text : Texts, theme : {0, 1}, width : Nat]

\* The block is what message m is, in this theme.
Shows(b, m, theme) ==
    /\ b \in Renderings
    /\ b.text = m.text /\ b.open = m.open /\ b.running = m.running
    /\ b.theme = theme \/ b.late

\* A cached block is what its key says and what the message reads, in the theme
\* of now, and a preview only of a message whose Markdown is under way.
CacheSound(m, theme) ==
    m.cache # NoCache =>
      /\ m.cache.block.text = m.text
      /\ m.cache.block.open = m.cache.open /\ m.cache.block.running = m.cache.running
      /\ m.cache.block.width = m.cache.width /\ m.cache.block.frame = m.cache.frame
      /\ m.cache.block.theme = theme \/ m.cache.block.late
      /\ (m.cache.block.mode = "stream") = (m.kind = "ai" /\ m.cache.streaming)
      /\ m.cache.block.mode = "preview" => m.pending

MessagesSound(ms, theme) ==
    /\ ms \in Seq(ChatMessages)
    /\ \A i \in 1 .. Len(ms) : /\ CacheSound(ms[i], theme)
                               /\ ms[i].kind = "ai" => ~ms[i].open /\ ~ms[i].running

\* The frozen prefix is of the message that streams, and what was rendered into
\* it has not changed since.
PrefixSound(pre, ms, v, s) ==
    pre # NoPrefix =>
      /\ pre.upto = s /\ s # 0
      /\ \A i \in 1 .. s - 1 : /\ Shows(pre.blocks[i], ms[i], v.theme)
                               /\ pre.blocks[i].width = pre.key.width
                               /\ pre.blocks[i].mode # "stream"
                               /\ ms[i].running => pre.blocks[i].frame = v.frame

\* The tool of a turn comes after the message that streams.
TurnSound(ms, t) ==
    /\ t \in Turns /\ t.stream <= Len(ms) /\ t.tool <= Len(ms)
    /\ t.stream # 0 => ms[t.stream].kind = "ai"
    /\ t.tool # 0 => t.stream < t.tool /\ ms[t.tool].kind # "ai"
    /\ ~t.busy => t.stream = 0 /\ t.tool = 0

JobsSound(js, ms) ==
    \A job \in js : job \in Jobs /\ job.index \in 1 .. Len(ms) /\ ms[job.index].kind = "ai"

TranscriptInv ==
    /\ view \in Views /\ dirty \in BOOLEAN
    /\ MessagesSound(messages, view.theme)
    /\ TurnSound(messages, turn)
    /\ PrefixSound(prefix, messages, view, turn.stream)
    /\ JobsSound(jobs, messages)
    /\ PaintedFresh

\* Rendering a message, from its cache or anew, gives what it is now.
LEMMA RenderedShows ==
  ASSUME NEW v \in Views, NEW m \in ChatMessages, CacheSound(m, v.theme), NEW streaming \in BOOLEAN
  PROVE  /\ Shows(Rendered(m, v, streaming), m, v.theme)
         /\ Rendered(m, v, streaming).width = AreaWidth(v)
         /\ Rendered(m, v, streaming).frame = v.frame
         /\ (Rendered(m, v, streaming).mode = "stream") = (m.kind = "ai" /\ streaming)
         /\ Rendered(m, v, streaming).mode = "preview" => m.pending
         /\ AreaWidth(v) \in Nat
<1>1. AreaWidth(v) \in Nat
  <2>1. v.width \in Nat \ {0} /\ v.tall \in BOOLEAN
    BY TranscriptConstants DEF Views
  <2> QED BY <2>1 DEF AreaWidth
<1>2. CASE Hit(m, v, streaming)
  <2>1. /\ m.cache.block \in Renderings
        /\ m.cache.width = AreaWidth(v) /\ m.cache.streaming = streaming
        /\ m.cache.open = m.open /\ m.cache.running = m.running /\ m.cache.frame = v.frame
    <3>1. m.cache # NoCache /\ m.cache = Cache(m, v, streaming, m.cache.block)
      BY <1>2 DEF Hit
    <3>2. m.cache.block \in Renderings
      BY <3>1 DEF ChatMessages, Caches
    <3> DEFINE b == m.cache.block
    <3>3. m.cache = [width |-> AreaWidth(v), streaming |-> streaming, size |-> Size(m),
                     open |-> m.open, running |-> m.running, frame |-> v.frame, block |-> b]
      BY <3>1 DEF Cache
    <3> HIDE DEF b
    <3> QED BY <3>2, <3>3
  <2>2. Rendered(m, v, streaming) = m.cache.block
    BY <1>2 DEF Rendered
  <2>3. m.cache # NoCache
    BY <1>2 DEF Hit
  <2> QED BY <1>1, <2>1, <2>2, <2>3 DEF CacheSound, Shows
<1>3. CASE ~Hit(m, v, streaming)
  <2>1. Rendered(m, v, streaming) = BlockOf(m, v, streaming)
    BY <1>3 DEF Rendered
  <2>2. /\ Mode(m, streaming) \in {"full", "stream", "preview"}
        /\ (Mode(m, streaming) = "stream") = (m.kind = "ai" /\ streaming)
        /\ Mode(m, streaming) = "preview" => m.pending
    <3>1. m.kind # "ai" => Mode(m, streaming) = "full"
      BY DEF Mode
    <3>2. m.kind = "ai" /\ streaming => Mode(m, streaming) = "stream"
      BY DEF Mode
    <3>3. m.kind = "ai" /\ ~streaming /\ m.pending => Mode(m, streaming) = "preview"
      BY DEF Mode
    <3>4. m.kind = "ai" /\ ~streaming /\ ~m.pending => Mode(m, streaming) = "full"
      BY DEF Mode
    <3> QED BY <3>1, <3>2, <3>3, <3>4
  <2> DEFINE md == Mode(m, streaming)
             w == AreaWidth(v)
  <2>3. BlockOf(m, v, streaming) =
          [text |-> m.text, open |-> m.open, running |-> m.running, width |-> w,
           theme |-> v.theme, mode |-> md, frame |-> v.frame, late |-> FALSE]
    BY DEF BlockOf
  <2> HIDE DEF md, w
  <2>4. w \in Nat /\ md \in {"full", "stream", "preview"}
    BY <1>1, <2>2 DEF md, w
  <2>5. BlockOf(m, v, streaming) \in Renderings
    BY <2>3, <2>4 DEF Renderings, ChatMessages, Views
  <2> QED BY <1>1, <2>1, <2>2, <2>3, <2>5 DEF Shows, md, w
<1> QED BY <1>2, <1>3

\* The key of a message that was just rendered fits the block.
LEMMA CacheFits ==
  ASSUME NEW v \in Views, NEW m \in ChatMessages, NEW streaming \in BOOLEAN,
         NEW b, Shows(b, m, v.theme), b.width = AreaWidth(v), AreaWidth(v) \in Nat,
         b.frame = v.frame,
         (b.mode = "stream") = (m.kind = "ai" /\ streaming),
         b.mode = "preview" => m.pending
  PROVE  LET n == [m EXCEPT !.cache = Cache(m, v, streaming, b)]
         IN  n \in ChatMessages /\ CacheSound(n, v.theme)
<1> DEFINE c == Cache(m, v, streaming, b)
           w == AreaWidth(v)
           size == Size(m)
<1>1. size \in Nat
  BY DEF Size, ChatMessages, Texts
<1>2. c = [width |-> w, streaming |-> streaming, size |-> size, open |-> m.open,
           running |-> m.running, frame |-> v.frame, block |-> b]
  BY DEF Cache
<1>3. w \in Nat /\ b.width = w
  OBVIOUS
<1> HIDE DEF c, w, size
<1>4. c \in Caches
  BY <1>1, <1>2, <1>3 DEF Caches, Shows, ChatMessages, Views
<1> DEFINE n == [m EXCEPT !.cache = c]
<1>5. n \in ChatMessages /\ n.cache = c /\ n.text = m.text /\ n.kind = m.kind /\ n.pending = m.pending
  BY <1>4 DEF ChatMessages
<1> HIDE DEF n
<1>6. CacheSound(n, v.theme)
  BY <1>2, <1>3, <1>5 DEF CacheSound, Shows
<1> QED BY <1>5, <1>6 DEF n, c

\* A prefix is empty, or kept under its key, or rendered anew.
PrefixIs(pre, ms, old, v, s) ==
    \/ s = 0 /\ pre = NoPrefix
    \/ s # 0 /\ old # NoPrefix /\ pre = old /\ old.key.width = AreaWidth(v)
    \/ /\ s # 0 /\ pre.upto = s /\ pre.key.width = AreaWidth(v)
       /\ \A i \in 1 .. s - 1 : pre.blocks[i] = Rendered(ms[i], v, FALSE)

\* There is no fourth case.
LEMMA PrefixCases ==
  ASSUME NEW ms, NEW old, NEW v, NEW s \in Nat
  PROVE  PrefixIs(Prefix(ms, old, v, s), ms, old, v, s)
<1> DEFINE w == AreaWidth(v)
           size == SizesBefore(ms, s)
           boxes == [i \in 1 .. s - 1 |-> <<ms[i].running, ms[i].open>>]
           drawn == [i \in 1 .. s - 1 |-> Rendered(ms[i], v, FALSE)]
           key == [upto |-> s, width |-> w, size |-> size, boxes |-> boxes]
<1>1. Prefix(ms, old, v, s) =
        IF s = 0 THEN NoPrefix
        ELSE IF old # NoPrefix /\ old.key = key THEN old
        ELSE [upto |-> s, key |-> key, blocks |-> drawn]
  BY DEF Prefix
<1>2. \A i \in 1 .. s - 1 : drawn[i] = Rendered(ms[i], v, FALSE)
  OBVIOUS
<1>3. key.width = w
  OBVIOUS
<1> HIDE DEF size, boxes, drawn, key
<1> DEFINE fresh == [upto |-> s, key |-> key, blocks |-> drawn]
<1>4. fresh.upto = s /\ fresh.key = key /\ fresh.blocks = drawn
  OBVIOUS
<1>5. Prefix(ms, old, v, s) =
        IF s = 0 THEN NoPrefix ELSE IF old # NoPrefix /\ old.key = key THEN old ELSE fresh
  BY <1>1
<1> HIDE DEF fresh
<1>6. CASE s = 0
  BY <1>5, <1>6 DEF PrefixIs
<1>7. CASE s # 0 /\ old # NoPrefix /\ old.key = key
  BY <1>3, <1>5, <1>7 DEF PrefixIs
<1>8. CASE s # 0 /\ ~(old # NoPrefix /\ old.key = key)
  <2>1. Prefix(ms, old, v, s) = fresh
    BY <1>5, <1>8
  <2> QED BY <1>2, <1>3, <1>4, <1>8, <2>1 DEF PrefixIs
<1> QED BY <1>6, <1>7, <1>8

\* p is what syncLayout makes of the messages ms in the view v, s being streamed.
PaintedWell(p, ms, v, s) ==
  /\ p.messages \in Seq(ChatMessages) /\ Len(p.messages) = Len(ms)
  /\ \A i \in 1 .. Len(ms) :
       /\ CacheSound(p.messages[i], v.theme)
       /\ p.messages[i].kind = ms[i].kind /\ p.messages[i].text = ms[i].text
       /\ p.messages[i].open = ms[i].open /\ p.messages[i].running = ms[i].running
       /\ p.messages[i].pending = ms[i].pending
  /\ PrefixSound(p.prefix, ms, v, s) /\ (s = 0 => p.prefix = NoPrefix)
  /\ DOMAIN p.screen = 1 .. Len(ms) /\ Len(p.screen) = Len(ms)
  /\ p.tall \in BOOLEAN
  /\ \A i \in 1 .. Len(ms) :
       /\ Shows(p.screen[i], ms[i], v.theme)
       /\ p.screen[i].width = AreaWidth(v)
       /\ (p.screen[i].mode = "stream") = (i = s)
       /\ p.screen[i].mode = "preview" => ms[i].pending \/ i < s
       /\ ms[i].running => p.screen[i].frame = v.frame

\* What syncLayout makes of sound messages and a sound prefix.
LEMMA PaintedSound ==
  ASSUME NEW v \in Views, NEW ms, MessagesSound(ms, v.theme),
         NEW s \in 0 .. Len(ms), s # 0 => ms[s].kind = "ai",
         NEW old, PrefixSound(old, ms, v, s)
  PROVE  PaintedWell(Painted(ms, old, v, s), ms, v, s)
<1> DEFINE pre == Prefix(ms, old, v, s)
           frozen == IF s # 0 /\ pre = old THEN 1 .. s - 1 ELSE {}
           drawn == [i \in DOMAIN ms |->
                        IF i < s THEN pre.blocks[i] ELSE Rendered(ms[i], v, i = s)]
           after == [i \in DOMAIN ms |-> IF i \in frozen THEN ms[i]
                       ELSE [ms[i] EXCEPT !.cache = Cache(ms[i], v, i = s, drawn[i])]]
<1>1. /\ Painted(ms, old, v, s).messages = after /\ Painted(ms, old, v, s).prefix = pre
      /\ Painted(ms, old, v, s).screen = drawn /\ Painted(ms, old, v, s).tall = Overflows(ms)
  BY DEF Painted
<1>2. /\ ms \in Seq(ChatMessages) /\ DOMAIN ms = 1 .. Len(ms) /\ Len(ms) \in Nat
      /\ \A i \in 1 .. Len(ms) : ms[i] \in ChatMessages /\ CacheSound(ms[i], v.theme)
      /\ s \in Nat
  <2>1. ms \in Seq(ChatMessages) /\ \A i \in 1 .. Len(ms) : CacheSound(ms[i], v.theme)
    BY Zenon DEF MessagesSound
  <2>2. DOMAIN ms = 1 .. Len(ms) /\ Len(ms) \in Nat /\ \A i \in 1 .. Len(ms) : ms[i] \in ChatMessages
    BY <2>1
  <2> QED BY <2>1, <2>2
<1>3. ASSUME NEW i \in 1 .. Len(ms), NEW streaming \in BOOLEAN
      PROVE  /\ Shows(Rendered(ms[i], v, streaming), ms[i], v.theme)
             /\ Rendered(ms[i], v, streaming).width = AreaWidth(v)
             /\ Rendered(ms[i], v, streaming).frame = v.frame
             /\ (Rendered(ms[i], v, streaming).mode = "stream") = (ms[i].kind = "ai" /\ streaming)
             /\ Rendered(ms[i], v, streaming).mode = "preview" => ms[i].pending
             /\ AreaWidth(v) \in Nat
  BY <1>2, RenderedShows
<1>0. \/ s = 0 /\ pre = NoPrefix
      \/ s # 0 /\ old # NoPrefix /\ pre = old /\ old.key.width = AreaWidth(v)
      \/ /\ s # 0 /\ pre.upto = s /\ pre.key.width = AreaWidth(v)
         /\ \A i \in 1 .. s - 1 : pre.blocks[i] = Rendered(ms[i], v, FALSE)
  <2>1. s \in Nat
    BY <1>2
  <2>2. PrefixIs(pre, ms, old, v, s)
    BY <2>1, PrefixCases
  <2> QED BY <2>2 DEF PrefixIs
<1> HIDE DEF pre
<1>4. PrefixSound(pre, ms, v, s) /\ (s = 0 => pre = NoPrefix)
      /\ (s # 0 => pre # NoPrefix /\ pre.key.width = AreaWidth(v))
  <2>1. CASE s = 0 /\ pre = NoPrefix
    BY <2>1 DEF PrefixSound
  <2>2. CASE s # 0 /\ old # NoPrefix /\ pre = old /\ old.key.width = AreaWidth(v)
    BY <2>2
  <2>3. CASE /\ s # 0 /\ pre.upto = s /\ pre.key.width = AreaWidth(v)
             /\ \A i \in 1 .. s - 1 : pre.blocks[i] = Rendered(ms[i], v, FALSE)
    <3>1. pre # NoPrefix
      BY <2>3 DEF NoPrefix
    <3>2. ASSUME NEW i \in 1 .. s - 1
          PROVE  /\ Shows(pre.blocks[i], ms[i], v.theme)
                 /\ pre.blocks[i].width = pre.key.width
                 /\ pre.blocks[i].mode # "stream"
                 /\ ms[i].running => pre.blocks[i].frame = v.frame
      <4>1. i \in 1 .. Len(ms) /\ FALSE \in BOOLEAN
        BY <1>2
      <4>2. pre.blocks[i] = Rendered(ms[i], v, FALSE)
        BY <2>3
      <4>3. /\ Shows(Rendered(ms[i], v, FALSE), ms[i], v.theme)
            /\ Rendered(ms[i], v, FALSE).width = AreaWidth(v)
            /\ Rendered(ms[i], v, FALSE).frame = v.frame
            /\ (Rendered(ms[i], v, FALSE).mode = "stream") = (ms[i].kind = "ai" /\ FALSE)
        BY <1>3, <4>1, Zenon
      <4> QED BY <2>3, <4>2, <4>3
    <3> QED BY <2>3, <3>1, <3>2 DEF PrefixSound
  <2>4. \/ s = 0 /\ pre = NoPrefix
        \/ s # 0 /\ old # NoPrefix /\ pre = old /\ old.key.width = AreaWidth(v)
        \/ /\ s # 0 /\ pre.upto = s /\ pre.key.width = AreaWidth(v)
           /\ \A i \in 1 .. s - 1 : pre.blocks[i] = Rendered(ms[i], v, FALSE)
    BY <1>0
  <2> QED BY <2>1, <2>2, <2>3, <2>4
<1>5. ASSUME NEW i \in 1 .. Len(ms)
      PROVE  /\ Shows(drawn[i], ms[i], v.theme)
             /\ drawn[i].width = AreaWidth(v)
             /\ (drawn[i].mode = "stream") = (i = s)
             /\ drawn[i].mode = "preview" => ms[i].pending \/ i < s
             /\ ms[i].running => drawn[i].frame = v.frame
  <2>1. CASE i < s
    <3>1. i \in 1 .. s - 1 /\ drawn[i] = pre.blocks[i] /\ i # s /\ s # 0
      BY <1>2, <2>1
    <3> QED BY <1>4, <2>1, <3>1 DEF PrefixSound
  <2>2. CASE ~(i < s)
    <3>1. drawn[i] = Rendered(ms[i], v, i = s)
      BY <1>2, <2>2
    <3>2. PICK st \in BOOLEAN : st = (i = s)
      OBVIOUS
    <3>5. drawn[i] = Rendered(ms[i], v, st)
      BY <3>1, <3>2, Zenon
    <3>6. ASSUME st PROVE ms[i].kind = "ai"
      <4>1. i = s
        BY <3>2, <3>6, Zenon
      <4> QED BY <4>1
    <3>7. st => ms[i].kind = "ai"
      BY <3>6
    <3>3. drawn[i] = Rendered(ms[i], v, st) /\ (st => ms[i].kind = "ai")
      BY <3>5, <3>7
    <3>4. /\ Shows(Rendered(ms[i], v, st), ms[i], v.theme)
          /\ Rendered(ms[i], v, st).width = AreaWidth(v)
          /\ Rendered(ms[i], v, st).frame = v.frame
          /\ (Rendered(ms[i], v, st).mode = "stream") = (ms[i].kind = "ai" /\ st)
          /\ Rendered(ms[i], v, st).mode = "preview" => ms[i].pending
      BY <1>3, Zenon
    <3> HIDE DEF drawn
    <3> QED BY <3>2, <3>3, <3>4
  <2> QED BY <2>1, <2>2
<1>6. ASSUME NEW i \in 1 .. Len(ms)
      PROVE  /\ after[i] \in ChatMessages /\ CacheSound(after[i], v.theme)
             /\ after[i].kind = ms[i].kind /\ after[i].text = ms[i].text
             /\ after[i].open = ms[i].open /\ after[i].running = ms[i].running
             /\ after[i].pending = ms[i].pending
  <2>1. CASE i \in frozen
    <3>1. after[i] = ms[i]
      BY <1>2, <2>1
    <3> QED BY <1>2, <3>1
  <2>2. CASE i \notin frozen
    <3> DEFINE b == drawn[i]
    <3>1. after[i] = [ms[i] EXCEPT !.cache = Cache(ms[i], v, i = s, b)]
      BY <1>2, <2>2
    <3>2. PICK st \in BOOLEAN : st = (i = s)
      OBVIOUS
    <3>3. b = Rendered(ms[i], v, i = s)
      <4>1. CASE i < s
        <5>1. pre.blocks[i] = Rendered(ms[i], v, FALSE)
          <6>1. s # 0 /\ pre # old /\ i \in 1 .. s - 1
            BY <1>2, <2>2, <4>1
          <6> HIDE DEF frozen, drawn, after
          <6> QED BY <1>0, <6>1
        <5>2. b = pre.blocks[i] /\ (i = s) = FALSE
          BY <1>2, <4>1
        <5> QED BY <5>1, <5>2, Zenon
      <4>2. CASE ~(i < s)
        BY <1>2, <4>2
      <4> QED BY <4>1, <4>2
    <3>4. b = Rendered(ms[i], v, st) /\ Cache(ms[i], v, i = s, b) = Cache(ms[i], v, st, b)
      BY <3>2, <3>3, Zenon
    <3> HIDE DEF b
    <3>5. /\ Shows(b, ms[i], v.theme) /\ b.width = AreaWidth(v) /\ b.frame = v.frame
          /\ (b.mode = "stream") = (ms[i].kind = "ai" /\ st)
          /\ b.mode = "preview" => ms[i].pending
          /\ AreaWidth(v) \in Nat
      BY <1>3, <3>4, Zenon
    <3> DEFINE n == [ms[i] EXCEPT !.cache = Cache(ms[i], v, st, b)]
    <3>6. n \in ChatMessages /\ CacheSound(n, v.theme)
      <4>1. ms[i] \in ChatMessages
        BY <1>2
      <4> QED BY <3>5, <4>1, CacheFits
    <3>7. after[i] = n
      BY <3>1, <3>4
    <3>8. /\ n.kind = ms[i].kind /\ n.text = ms[i].text /\ n.open = ms[i].open
          /\ n.running = ms[i].running /\ n.pending = ms[i].pending
      OBVIOUS
    <3> HIDE DEF n, after
    <3> QED BY <3>6, <3>7, <3>8
  <2> QED BY <2>1, <2>2
<1>7. after \in Seq(ChatMessages) /\ Len(after) = Len(ms)
  <2>1. after \in [1 .. Len(ms) -> ChatMessages]
    BY <1>2, <1>6
  <2> HIDE DEF after
  <2> QED BY <1>2, <2>1
<1>8. DOMAIN drawn = 1 .. Len(ms) /\ Len(drawn) = Len(ms)
  <2>1. DOMAIN drawn = 1 .. Len(ms)
    BY <1>2
  <2> HIDE DEF drawn
  <2> QED BY <1>2, <2>1, LenProperties
<1>9. Overflows(ms) \in BOOLEAN
  BY DEF Overflows
<1> HIDE DEF after, drawn
<1> QED BY <1>1, <1>4, <1>5, <1>6, <1>7, <1>8, <1>9 DEF PaintedWell

\* Painting sound messages in any view leaves everything as it should be.
LEMMA ShowSound ==
  ASSUME NEW v \in Views, NEW ms, MessagesSound(ms, v.theme), NEW t, TurnSound(ms, t),
         NEW old, PrefixSound(old, ms, v, t.stream), JobsSound(jobs', ms),
         Show(ms, old, v, t)
  PROVE  TranscriptInv'
<1> DEFINE s == t.stream
           p == Painted(ms, old, v, s)
<1>1. s \in 0 .. Len(ms) /\ (s # 0 => ms[s].kind = "ai") /\ t \in Turns
  BY DEF TurnSound, Turns
<1>2. Len(ms) \in Nat
  BY DEF MessagesSound
<1>3. /\ messages' = p.messages /\ prefix' = p.prefix /\ screen' = p.screen
      /\ view' = [v EXCEPT !.tall = p.tall] /\ turn' = t /\ dirty' = FALSE
  BY DEF Show
<1>4. PrefixSound(old, ms, v, s)
  OBVIOUS
<1> HIDE DEF s
<1>5. /\ p.messages \in Seq(ChatMessages) /\ Len(p.messages) = Len(ms)
      /\ \A i \in 1 .. Len(ms) :
           /\ CacheSound(p.messages[i], v.theme)
           /\ p.messages[i].kind = ms[i].kind /\ p.messages[i].text = ms[i].text
           /\ p.messages[i].open = ms[i].open /\ p.messages[i].running = ms[i].running
           /\ p.messages[i].pending = ms[i].pending
      /\ PrefixSound(p.prefix, ms, v, s) /\ (s = 0 => p.prefix = NoPrefix)
      /\ DOMAIN p.screen = 1 .. Len(ms) /\ Len(p.screen) = Len(ms)
      /\ p.tall \in BOOLEAN
      /\ \A i \in 1 .. Len(ms) :
           /\ Shows(p.screen[i], ms[i], v.theme)
           /\ p.screen[i].width = AreaWidth(v)
           /\ (p.screen[i].mode = "stream") = (i = s)
           /\ p.screen[i].mode = "preview" => ms[i].pending \/ i < s
           /\ ms[i].running => p.screen[i].frame = v.frame
  <2>1. PaintedWell(p, ms, v, s)
    BY <1>1, <1>4, PaintedSound
  <2> HIDE DEF p
  <2> QED BY <2>1 DEF PaintedWell
<1> HIDE DEF p
<1>6. view' \in Views /\ view'.width = v.width /\ view'.theme = v.theme /\ view'.frame = v.frame
  BY <1>3, <1>5 DEF Views
<1>7. MessagesSound(messages', view'.theme)
  BY <1>2, <1>3, <1>5, <1>6 DEF MessagesSound
<1>8. TurnSound(messages', turn')
  <2>1. /\ t.stream <= Len(ms) /\ t.tool <= Len(ms) /\ t \in Turns
        /\ t.stream # 0 => ms[t.stream].kind = "ai"
        /\ t.tool # 0 => t.stream < t.tool /\ ms[t.tool].kind # "ai"
        /\ ~t.busy => t.stream = 0 /\ t.tool = 0
    BY DEF TurnSound
  <2>2. /\ t.stream # 0 => t.stream \in 1 .. Len(ms)
        /\ t.tool # 0 => t.tool \in 1 .. Len(ms)
    BY <1>2, <2>1 DEF Turns
  <2> QED BY <1>3, <1>5, <2>1, <2>2 DEF TurnSound
<1>9. PrefixSound(prefix', messages', view', turn'.stream)
  <2> SUFFICES ASSUME p.prefix # NoPrefix
               PROVE  PrefixSound(p.prefix, p.messages, view', s)
    BY <1>3 DEF PrefixSound, s
  <2>1. \A i \in 1 .. s - 1 : i \in 1 .. Len(ms)
    BY <1>1, <1>2
  <2> QED BY <1>5, <1>6, <2>1 DEF PrefixSound, Shows
<1>10. JobsSound(jobs', messages')
  BY <1>3, <1>5 DEF JobsSound
<1>11. PaintedFresh'
  <2>1. Len(screen') = Len(messages') /\ DOMAIN messages' = 1 .. Len(ms)
    BY <1>3, <1>5
  <2>2. ASSUME NEW i \in 1 .. Len(ms)
        PROVE  /\ screen'[i].text = messages'[i].text /\ screen'[i].open = messages'[i].open
               /\ screen'[i].running = messages'[i].running
               /\ screen'[i].width = screen'[1].width
               /\ screen'[i].width \in {view'.width, view'.width - 1}
               /\ screen'[i].theme = view'.theme \/ screen'[i].late
               /\ (screen'[i].mode = "stream") = (i = turn'.stream)
               /\ screen'[i].mode = "preview" => messages'[i].pending \/ i < turn'.stream
               /\ messages'[i].running => screen'[i].frame = view'.frame
    <3>1. 1 \in 1 .. Len(ms)
      BY <1>2
    <3>2. screen'[i].width = AreaWidth(v) /\ screen'[1].width = AreaWidth(v)
      BY <1>3, <1>5, <3>1
    <3>3. AreaWidth(v) \in {view'.width, view'.width - 1}
      BY <1>6 DEF AreaWidth
    <3>4. s = turn'.stream
      BY <1>3 DEF s
    <3> QED BY <1>3, <1>5, <1>6, <3>2, <3>3, <3>4 DEF Shows
  <2> QED BY <1>3, <2>1, <2>2 DEF PaintedFresh, Working
<1> QED BY <1>3, <1>6, <1>7, <1>8, <1>9, <1>10, <1>11 DEF TranscriptInv

\* A message whose text or box changed, its cache cleared, is sound again.
LEMMA ClearedSound ==
  ASSUME NEW ms \in Seq(ChatMessages), NEW indexes, NEW theme,
         \A i \in 1 .. Len(ms) :
            /\ i \notin indexes => CacheSound(ms[i], theme)
            /\ ms[i].kind = "ai" => ~ms[i].open /\ ~ms[i].running
  PROVE  /\ MessagesSound(Cleared(ms, indexes), theme)
         /\ Len(Cleared(ms, indexes)) = Len(ms)
         /\ \A i \in 1 .. Len(ms) :
              /\ i \notin indexes => Cleared(ms, indexes)[i] = ms[i]
              /\ Cleared(ms, indexes)[i].kind = ms[i].kind
              /\ Cleared(ms, indexes)[i].text = ms[i].text
              /\ Cleared(ms, indexes)[i].open = ms[i].open
              /\ Cleared(ms, indexes)[i].running = ms[i].running
<1> DEFINE after == Cleared(ms, indexes)
<1>1. DOMAIN ms = 1 .. Len(ms) /\ Len(ms) \in Nat /\ \A i \in 1 .. Len(ms) : ms[i] \in ChatMessages
  OBVIOUS
<1>2. ASSUME NEW i \in 1 .. Len(ms)
      PROVE  /\ after[i] \in ChatMessages /\ CacheSound(after[i], theme)
             /\ i \notin indexes => after[i] = ms[i]
             /\ after[i].kind = ms[i].kind /\ after[i].text = ms[i].text
             /\ after[i].open = ms[i].open /\ after[i].running = ms[i].running
  <2>1. CASE i \in indexes
    <3>1. after[i] = [ms[i] EXCEPT !.cache = NoCache]
      BY <1>1, <2>1 DEF Cleared
    <3>2. NoCache \in Caches
      BY DEF Caches
    <3>3. after[i] \in ChatMessages /\ after[i].cache = NoCache
      BY <1>1, <3>1, <3>2 DEF ChatMessages
    <3> QED BY <1>1, <2>1, <3>1, <3>3 DEF CacheSound, ChatMessages
  <2>2. CASE i \notin indexes
    <3>1. after[i] = ms[i]
      BY <1>1, <2>2 DEF Cleared
    <3> QED BY <1>1, <2>2, <3>1
  <2> QED BY <2>1, <2>2
<1>3. after \in Seq(ChatMessages) /\ Len(after) = Len(ms)
  <2>1. DOMAIN after = 1 .. Len(ms) /\ after = [i \in DOMAIN after |-> after[i]]
    BY <1>1 DEF Cleared
  <2> HIDE DEF after
  <2>2. after \in [1 .. Len(ms) -> ChatMessages]
    BY <1>2, <2>1
  <2> QED BY <1>1, <2>2
<1> HIDE DEF after
<1>4. MessagesSound(after, theme)
  BY <1>2, <1>3 DEF MessagesSound
<1> QED BY <1>2, <1>3, <1>4 DEF after

\* The messages are sound and the old ones but for message i.
EditedAt(ms, old, i, theme) ==
    /\ MessagesSound(ms, theme) /\ Len(ms) = Len(old)
    /\ \A j \in 1 .. Len(old) : ms[j].kind = old[j].kind /\ (j # i => ms[j] = old[j])

\* One message is changed and its cache cleared.
LEMMA EditedSound ==
  ASSUME NEW theme, NEW old, MessagesSound(old, theme), NEW i \in 1 .. Len(old),
         NEW m \in ChatMessages, m.kind = old[i].kind, m.kind = "ai" => ~m.open /\ ~m.running
  PROVE  EditedAt(Cleared([old EXCEPT ![i] = m], {i}), old, i, theme)
<1> DEFINE changed == [old EXCEPT ![i] = m]
<1>1. /\ old \in Seq(ChatMessages)
      /\ \A j \in 1 .. Len(old) : /\ CacheSound(old[j], theme)
                                  /\ old[j].kind = "ai" => ~old[j].open /\ ~old[j].running
  BY DEF MessagesSound
<1>2. /\ changed \in Seq(ChatMessages) /\ Len(changed) = Len(old)
      /\ changed[i] = m /\ \A j \in 1 .. Len(old) : j # i => changed[j] = old[j]
  BY <1>1, ExceptSeq
<1> HIDE DEF changed
<1>3. \A j \in 1 .. Len(changed) :
        /\ j \notin {i} => CacheSound(changed[j], theme)
        /\ changed[j].kind = "ai" => ~changed[j].open /\ ~changed[j].running
  BY <1>1, <1>2
<1>4. /\ MessagesSound(Cleared(changed, {i}), theme)
      /\ Len(Cleared(changed, {i})) = Len(changed)
      /\ \A j \in 1 .. Len(changed) :
           /\ j \notin {i} => Cleared(changed, {i})[j] = changed[j]
           /\ Cleared(changed, {i})[j].kind = changed[j].kind
  BY <1>2, <1>3, ClearedSound
<1>5. \A j \in 1 .. Len(old) : changed[j].kind = old[j].kind
  BY <1>2
<1> QED BY <1>2, <1>4, <1>5 DEF changed, EditedAt

\* A new message is sound, its cache empty.
LEMMA AppendedSound ==
  ASSUME NEW theme, NEW old, MessagesSound(old, theme),
         NEW kind \in {"user", "ai", "detail"}, NEW size \in Nat
  PROVE  LET ms == Append(old, Message(kind, size)) IN
         /\ MessagesSound(ms, theme) /\ Len(ms) = Len(old) + 1
         /\ \A j \in 1 .. Len(old) : ms[j] = old[j]
         /\ ms[Len(old) + 1].kind = kind
<1> DEFINE m == Message(kind, size)
<1>1. /\ old \in Seq(ChatMessages) /\ Len(old) \in Nat
      /\ \A j \in 1 .. Len(old) : /\ CacheSound(old[j], theme)
                                  /\ old[j].kind = "ai" => ~old[j].open /\ ~old[j].running
  BY DEF MessagesSound
<1>2. m \in ChatMessages /\ m.kind = kind /\ m.cache = NoCache /\ (kind = "ai" => ~m.open /\ ~m.running)
  BY DEF Message, ChatMessages, Caches, Texts
<1> HIDE DEF m
<1>3. CacheSound(m, theme)
  BY <1>2 DEF CacheSound
<1>4. /\ Append(old, m) \in Seq(ChatMessages) /\ Len(Append(old, m)) = Len(old) + 1
      /\ \A j \in 1 .. Len(old) : Append(old, m)[j] = old[j]
      /\ Append(old, m)[Len(old) + 1] = m
  BY <1>1, <1>2, AppendProperties
<1>5. ASSUME NEW j \in 1 .. Len(old) + 1
      PROVE  /\ CacheSound(Append(old, m)[j], theme)
             /\ Append(old, m)[j].kind = "ai" => ~Append(old, m)[j].open /\ ~Append(old, m)[j].running
  <2>1. CASE j = Len(old) + 1
    BY <1>2, <1>3, <1>4, <2>1
  <2>2. CASE j # Len(old) + 1
    <3>1. j \in 1 .. Len(old)
      BY <1>1, <2>2
    <3> QED BY <1>1, <1>4, <3>1
  <2> QED BY <2>1, <2>2
<1>6. MessagesSound(Append(old, m), theme)
  BY <1>4, <1>5 DEF MessagesSound
<1> QED BY <1>2, <1>4, <1>6 DEF m

\* Longer text is text.
LEMMA GrownMessage ==
  ASSUME NEW m \in ChatMessages
  PROVE  LET n == [m EXCEPT !.text[1] = @ + 1]
         IN  n \in ChatMessages /\ n.kind = m.kind /\ n.open = m.open /\ n.running = m.running
<1> DEFINE t == [m.text EXCEPT ![1] = m.text[1] + 1]
<1>1. PICK size \in Nat, mark \in {"draft", "final"} : m.text = <<size, mark>>
  BY DEF ChatMessages, Texts
<1>2. t = <<size + 1, mark>>
  BY <1>1
<1>3. t \in Texts
  BY <1>2 DEF Texts
<1>4. [m EXCEPT !.text[1] = @ + 1] = [m EXCEPT !.text = t]
  OBVIOUS
<1> HIDE DEF t
<1> QED BY <1>3, <1>4 DEF ChatMessages

\* And so is the final text.
LEMMA FinalMessage ==
  ASSUME NEW m \in ChatMessages
  PROVE  LET n == [m EXCEPT !.text[2] = "final"]
         IN  n \in ChatMessages /\ n.kind = m.kind /\ n.open = m.open /\ n.running = m.running
<1> DEFINE t == [m.text EXCEPT ![2] = "final"]
<1>1. PICK size \in Nat, mark \in {"draft", "final"} : m.text = <<size, mark>>
  BY DEF ChatMessages, Texts
<1>2. t = <<size, "final">>
  BY <1>1
<1>3. t \in Texts
  BY <1>2 DEF Texts
<1>4. [m EXCEPT !.text[2] = "final"] = [m EXCEPT !.text = t]
  OBVIOUS
<1> HIDE DEF t
<1> QED BY <1>3, <1>4 DEF ChatMessages

\* A prefix stays sound while the messages in it read the same, the theme is the
\* same, and the spinner is where it was or none of them shows it.
LEMMA PrefixStays ==
  ASSUME NEW pre, NEW ms, NEW v, NEW s, PrefixSound(pre, ms, v, s), NEW after, NEW w,
         w.theme = v.theme,
         w.frame = v.frame \/ \A i \in 1 .. s - 1 : ~after[i].running,
         \A i \in 1 .. s - 1 : /\ after[i].text = ms[i].text /\ after[i].open = ms[i].open
                               /\ after[i].running = ms[i].running
  PROVE  PrefixSound(pre, after, w, s)
BY DEF PrefixSound, Shows

\* What is painted later only has to be sound.
LEMMA LaterSound ==
  ASSUME TranscriptInv, NEW ms, MessagesSound(ms, view.theme), NEW t, TurnSound(ms, t),
         PrefixSound(prefix, ms, view, t.stream), Len(ms) >= Len(messages),
         \A i \in 1 .. Len(messages) : ms[i].kind = messages[i].kind,
         Later(ms, t)
  PROVE  TranscriptInv'
<1>1. /\ messages' = ms /\ turn' = t /\ dirty' = TRUE
      /\ UNCHANGED <<prefix, view, jobs, screen, switches>>
  BY DEF Later
<1>2. JobsSound(jobs, ms)
  <2>1. JobsSound(jobs, messages) /\ Len(messages) \in Nat /\ Len(ms) \in Nat
    BY DEF TranscriptInv, MessagesSound
  <2> QED BY <2>1 DEF JobsSound
<1>3. PaintedFresh'
  BY <1>1 DEF PaintedFresh
<1> QED BY <1>1, <1>2, <1>3 DEF TranscriptInv

\* The list begins empty.
LEMMA TranscriptInitially == TranscriptInit => TranscriptInv
<1> SUFFICES ASSUME TranscriptInit PROVE TranscriptInv
  OBVIOUS
<1> USE DEF TranscriptInit
<1>1. view \in Views
  <2>1. (CHOOSE w \in Widths : TRUE) \in Widths
    BY TranscriptConstants
  <2> QED BY <2>1 DEF Views
<1>2. messages = <<>> /\ Len(messages) = 0 /\ messages \in Seq(ChatMessages)
  OBVIOUS
<1>3. MessagesSound(messages, view.theme) /\ JobsSound(jobs, messages)
  BY <1>2 DEF MessagesSound, JobsSound
<1>4. TurnSound(messages, turn) /\ PrefixSound(prefix, messages, view, turn.stream)
  BY <1>2 DEF TurnSound, Turns, PrefixSound
<1>5. PaintedFresh
  BY <1>2 DEF PaintedFresh
<1> QED BY <1>1, <1>3, <1>4, <1>5 DEF TranscriptInv

\* What the steps below start from.
LEMMA TranscriptFacts ==
  ASSUME TranscriptInv
  PROVE  /\ view \in Views /\ turn \in Turns /\ messages \in Seq(ChatMessages)
         /\ Len(messages) \in Nat /\ DOMAIN messages = 1 .. Len(messages)
         /\ \A i \in 1 .. Len(messages) : messages[i] \in ChatMessages
         /\ MessagesSound(messages, view.theme) /\ TurnSound(messages, turn)
         /\ PrefixSound(prefix, messages, view, turn.stream)
         /\ JobsSound(jobs, messages)
         /\ turn.stream \in 0 .. Len(messages) /\ turn.tool \in 0 .. Len(messages)
         /\ turn.stream = 0 => prefix = NoPrefix
         /\ ~turn.busy => turn.stream = 0 /\ turn.tool = 0
         /\ turn.tool # 0 => turn.stream < turn.tool /\ messages[turn.tool].kind # "ai"
         /\ turn.stream # 0 => messages[turn.stream].kind = "ai"
<1>1. messages \in Seq(ChatMessages)
  BY DEF TranscriptInv, MessagesSound
<1>2. Len(messages) \in Nat /\ DOMAIN messages = 1 .. Len(messages)
      /\ \A i \in 1 .. Len(messages) : messages[i] \in ChatMessages
  BY <1>1
<1>3. TurnSound(messages, turn)
  BY DEF TranscriptInv
<1>4. turn \in Turns /\ turn.stream \in 0 .. Len(messages) /\ turn.tool \in 0 .. Len(messages)
  BY <1>2, <1>3 DEF TurnSound, Turns
<1>5. turn.stream = 0 => prefix = NoPrefix
  BY DEF TranscriptInv, PrefixSound
<1> QED BY <1>1, <1>2, <1>3, <1>4, <1>5 DEF TranscriptInv, TurnSound

\* A prompt starts a turn: there is no prefix by then.
LEMMA SubmitPromptStep == TranscriptInv /\ SubmitPrompt => TranscriptInv'
<1> SUFFICES ASSUME TranscriptInv, SubmitPrompt PROVE TranscriptInv'
  OBVIOUS
<1> DEFINE ms == Append(messages, Message("user", MaxText))
           v == [view EXCEPT !.frame = 0]
           t == [busy |-> TRUE, stream |-> 0, tool |-> 0]
<1>1. Show(ms, prefix, v, t) /\ jobs' = jobs /\ ~turn.busy
  BY DEF SubmitPrompt, Working
<1>2. v \in Views /\ v.theme = view.theme /\ t.stream = 0 /\ t.tool = 0 /\ t \in Turns
  BY TranscriptFacts DEF Views, Turns
<1>3. /\ MessagesSound(ms, view.theme) /\ Len(ms) = Len(messages) + 1
      /\ \A j \in 1 .. Len(messages) : ms[j] = messages[j]
  BY TranscriptFacts, TranscriptConstants, AppendedSound
<1> HIDE DEF ms, v, t
<1>4. TurnSound(ms, t)
  BY <1>2, <1>3, TranscriptFacts DEF TurnSound
<1>5. PrefixSound(prefix, ms, v, t.stream)
  BY <1>1, TranscriptFacts DEF PrefixSound
<1>6. JobsSound(jobs', ms)
  BY <1>1, <1>3, TranscriptFacts DEF JobsSound
<1>7. MessagesSound(ms, v.theme)
  BY <1>2, <1>3
<1> QED BY <1>1, <1>2, <1>4, <1>5, <1>6, <1>7, ShowSound

\* The answer begins, or goes on; nothing before it changes.
LEMMA AnswerDeltaStep == TranscriptInv /\ AnswerDelta => TranscriptInv'
<1> SUFFICES ASSUME TranscriptInv, AnswerDelta PROVE TranscriptInv'
  OBVIOUS
<1>1. turn.busy /\ turn.tool = 0
  BY DEF AnswerDelta, Working
<1>2. CASE turn.stream = 0
  <2> DEFINE ms == Append(messages, Message("ai", 1))
             t == [turn EXCEPT !.stream = Len(messages) + 1]
  <2>1. Later(ms, t)
    BY <1>2 DEF AnswerDelta
  <2>2. /\ t \in Turns /\ t.stream = Len(messages) + 1 /\ t.tool = 0 /\ t.busy
    BY <1>1, TranscriptFacts DEF Turns
  <2>3. /\ MessagesSound(ms, view.theme) /\ Len(ms) = Len(messages) + 1
        /\ \A j \in 1 .. Len(messages) : ms[j] = messages[j]
        /\ ms[Len(messages) + 1].kind = "ai"
    <3>1. MessagesSound(messages, view.theme)
      BY TranscriptFacts
    <3> QED BY <3>1, AppendedSound
  <2> HIDE DEF ms, t
  <2>4. TurnSound(ms, t) /\ PrefixSound(prefix, ms, view, t.stream)
    BY <1>2, <2>2, <2>3, TranscriptFacts DEF TurnSound, PrefixSound
  <2>5. Len(ms) >= Len(messages)
    BY <2>3, TranscriptFacts
  <2> QED BY <2>1, <2>3, <2>4, <2>5, LaterSound
<1>3. CASE turn.stream # 0
  <2> DEFINE s == turn.stream
             m == [messages[s] EXCEPT !.text[1] = @ + 1]
             ms == Cleared([messages EXCEPT ![s] = m], {s})
  <2>1. Later(ms, turn)
    BY <1>3 DEF AnswerDelta
  <2>2. s \in 1 .. Len(messages)
    BY <1>3, TranscriptFacts
  <2>3. m \in ChatMessages /\ m.kind = messages[s].kind
        /\ m.open = messages[s].open /\ m.running = messages[s].running
    BY <2>2, TranscriptFacts, GrownMessage
  <2>4. m.kind = "ai" => ~m.open /\ ~m.running
    BY <2>2, <2>3, TranscriptFacts DEF MessagesSound
  <2> HIDE DEF m
  <2>5. /\ MessagesSound(ms, view.theme) /\ Len(ms) = Len(messages)
        /\ \A j \in 1 .. Len(messages) : ms[j].kind = messages[j].kind /\ (j # s => ms[j] = messages[j])
    <3>1. MessagesSound(messages, view.theme)
      BY TranscriptFacts
    <3>2. EditedAt(ms, messages, s, view.theme)
      BY <2>2, <2>3, <2>4, <3>1, EditedSound
    <3> HIDE DEF ms, s
    <3> QED BY <3>2 DEF EditedAt
  <2> HIDE DEF ms
  <2>6. TurnSound(ms, turn)
    BY <2>5, TranscriptFacts DEF TurnSound
  <2>7. \A j \in 1 .. s - 1 : ms[j] = messages[j]
    BY <2>2, <2>5
  <2>8. PrefixSound(prefix, ms, view, turn.stream)
    BY <2>7, TranscriptFacts, PrefixStays
  <2>9. Len(ms) >= Len(messages)
    BY <2>5, TranscriptFacts
  <2> QED BY <2>1, <2>5, <2>6, <2>8, <2>9, LaterSound
<1> QED BY <1>2, <1>3

\* The box of a tool comes after the answer.
LEMMA ToolStartStep == TranscriptInv /\ ToolStart => TranscriptInv'
<1> SUFFICES ASSUME TranscriptInv, ToolStart PROVE TranscriptInv'
  OBVIOUS
<1> DEFINE ms == Append(messages, Message("detail", 1))
           t == [turn EXCEPT !.tool = Len(messages) + 1]
<1>1. Later(ms, t) /\ turn.busy
  BY DEF ToolStart, Working
<1>2. /\ t \in Turns /\ t.stream = turn.stream /\ t.tool = Len(messages) + 1 /\ t.busy
  BY <1>1, TranscriptFacts DEF Turns
<1>3. /\ MessagesSound(ms, view.theme) /\ Len(ms) = Len(messages) + 1
      /\ \A j \in 1 .. Len(messages) : ms[j] = messages[j]
      /\ ms[Len(messages) + 1].kind = "detail"
  <2>1. MessagesSound(messages, view.theme)
    BY TranscriptFacts
  <2> QED BY <2>1, AppendedSound
<1> HIDE DEF ms, t
<1>4. TurnSound(ms, t)
  BY <1>2, <1>3, TranscriptFacts DEF TurnSound
<1>5. \A j \in 1 .. turn.stream - 1 : ms[j] = messages[j]
  BY <1>3, TranscriptFacts
<1>6. PrefixSound(prefix, ms, view, t.stream)
  BY <1>2, <1>5, TranscriptFacts, PrefixStays
<1>7. Len(ms) >= Len(messages)
  BY <1>3, TranscriptFacts
<1> QED BY <1>1, <1>3, <1>4, <1>6, <1>7, LaterSound

\* Output of the tool changes its box, which is past the prefix.
LEMMA ToolOutputStep == TranscriptInv /\ ToolOutput => TranscriptInv'
<1> SUFFICES ASSUME TranscriptInv, ToolOutput PROVE TranscriptInv'
  OBVIOUS
<1> DEFINE k == turn.tool
           m == [messages[k] EXCEPT !.text[1] = @ + 1]
           ms == Cleared([messages EXCEPT ![k] = m], {k})
<1>1. Later(ms, turn) /\ k # 0
  BY DEF ToolOutput
<1>2. k \in 1 .. Len(messages) /\ turn.stream < k /\ messages[k].kind # "ai"
  BY <1>1, TranscriptFacts
<1>3. m \in ChatMessages /\ m.kind = messages[k].kind
  BY <1>2, TranscriptFacts, GrownMessage
<1> HIDE DEF m
<1>4. /\ MessagesSound(ms, view.theme) /\ Len(ms) = Len(messages)
      /\ \A j \in 1 .. Len(messages) : ms[j].kind = messages[j].kind /\ (j # k => ms[j] = messages[j])
  <2>1. MessagesSound(messages, view.theme)
    BY TranscriptFacts
  <2>2. EditedAt(ms, messages, k, view.theme)
    BY <1>2, <1>3, <2>1, EditedSound
  <2> HIDE DEF ms, k
  <2> QED BY <2>2 DEF EditedAt
<1> HIDE DEF ms
<1>5. TurnSound(ms, turn)
  BY <1>4, TranscriptFacts DEF TurnSound
<1>6. \A j \in 1 .. turn.stream - 1 : ms[j] = messages[j]
  BY <1>2, <1>4, TranscriptFacts
<1>7. PrefixSound(prefix, ms, view, turn.stream)
  BY <1>6, TranscriptFacts, PrefixStays
<1>8. Len(ms) >= Len(messages)
  BY <1>4, TranscriptFacts
<1> QED BY <1>1, <1>4, <1>5, <1>7, <1>8, LaterSound

\* And so does its end.
LEMMA ToolDoneStep == TranscriptInv /\ ToolDone => TranscriptInv'
<1> SUFFICES ASSUME TranscriptInv, ToolDone PROVE TranscriptInv'
  OBVIOUS
<1>1. turn.tool # 0 /\ jobs' = jobs /\ turn.busy
  BY DEF ToolDone, Working
<1> DEFINE k == turn.tool
           t == [turn EXCEPT !.tool = 0]
           named == [messages[k] EXCEPT !.text[2] = "final"]
<1>2. PICK open \in BOOLEAN :
        Show(Cleared([messages EXCEPT ![k] =
                 [@ EXCEPT !.text[2] = "final", !.running = FALSE, !.open = open]], {k}),
             prefix, view, t)
  BY DEF ToolDone
<1> DEFINE m == [named EXCEPT !.running = FALSE, !.open = open]
           ms == Cleared([messages EXCEPT ![k] = m], {k})
<1>3. Show(ms, prefix, view, t)
  BY <1>2
<1>4. k \in 1 .. Len(messages) /\ turn.stream < k /\ messages[k].kind # "ai"
  BY <1>1, TranscriptFacts
<1>5. named \in ChatMessages /\ named.kind = messages[k].kind
  BY <1>4, TranscriptFacts, FinalMessage
<1> HIDE DEF named
<1>6. m \in ChatMessages /\ m.kind = messages[k].kind
  BY <1>5 DEF ChatMessages
<1> HIDE DEF m
<1>7. /\ MessagesSound(ms, view.theme) /\ Len(ms) = Len(messages)
      /\ \A j \in 1 .. Len(messages) : ms[j].kind = messages[j].kind /\ (j # k => ms[j] = messages[j])
  <2>1. MessagesSound(messages, view.theme)
    BY TranscriptFacts
  <2>2. EditedAt(ms, messages, k, view.theme)
    BY <1>4, <1>6, <2>1, EditedSound
  <2> HIDE DEF ms, k
  <2> QED BY <2>2 DEF EditedAt
<1> HIDE DEF ms
<1>8. t \in Turns /\ t.stream = turn.stream /\ t.tool = 0 /\ t.busy
  BY <1>1, TranscriptFacts DEF Turns
<1> HIDE DEF t
<1>9. TurnSound(ms, t)
  BY <1>7, <1>8, TranscriptFacts DEF TurnSound
<1>10. \A j \in 1 .. turn.stream - 1 : ms[j] = messages[j]
  BY <1>4, <1>7, TranscriptFacts
<1>11. PrefixSound(prefix, ms, view, t.stream)
  BY <1>8, <1>10, TranscriptFacts, PrefixStays
<1>12. JobsSound(jobs', ms) /\ view \in Views
  BY <1>1, <1>7, TranscriptFacts DEF JobsSound
<1> QED BY <1>3, <1>7, <1>9, <1>11, <1>12, ShowSound

\* Painting again, in another width or not, or when the turn is cancelled.
LEMMA RepaintStep ==
  ASSUME TranscriptInv, FlushTick \/ CancelTurn \/ \E w \in Widths : Resize(w)
  PROVE  TranscriptInv'
<1>1. JobsSound(jobs', messages)
  BY TranscriptFacts DEF FlushTick, CancelTurn, Resize
<1>2. CASE FlushTick
  BY <1>1, <1>2, TranscriptFacts, ShowSound DEF FlushTick
<1>3. CASE CancelTurn
  <2> DEFINE v == [view EXCEPT !.frame = 0]
             t == [busy |-> FALSE, stream |-> 0, tool |-> 0]
  <2>1. Show(messages, NoPrefix, v, t)
    BY <1>3 DEF CancelTurn
  <2>2. v \in Views /\ v.theme = view.theme
    BY TranscriptFacts DEF Views
  <2>3. TurnSound(messages, t)
    BY TranscriptFacts DEF TurnSound, Turns
  <2> HIDE DEF v, t
  <2>4. PrefixSound(NoPrefix, messages, v, t.stream) /\ MessagesSound(messages, v.theme)
    BY <2>2, TranscriptFacts DEF PrefixSound
  <2> QED BY <1>1, <2>1, <2>2, <2>3, <2>4, ShowSound
<1>4. ASSUME NEW w \in Widths, Resize(w) PROVE TranscriptInv'
  <2> DEFINE v == [view EXCEPT !.width = w]
  <2>1. Show(messages, prefix, v, turn)
    BY <1>4 DEF Resize
  <2>2. v \in Views /\ v.theme = view.theme /\ v.frame = view.frame
    BY TranscriptFacts DEF Views
  <2> HIDE DEF v
  <2>3. PrefixSound(prefix, messages, v, turn.stream)
    BY <2>2, TranscriptFacts, PrefixStays
  <2>4. MessagesSound(messages, v.theme)
    BY <2>2, TranscriptFacts
  <2> QED BY <1>1, <2>1, <2>2, <2>3, <2>4, TranscriptFacts, ShowSound
<1> QED BY <1>2, <1>3, <1>4

\* The spinner: live boxes are painted anew, and without one nothing shows it.
LEMMA SpinnerTickStep == TranscriptInv /\ SpinnerTick => TranscriptInv'
<1> SUFFICES ASSUME TranscriptInv, SpinnerTick PROVE TranscriptInv'
  OBVIOUS
<1> DEFINE live == {i \in DOMAIN messages : messages[i].running}
           v == [view EXCEPT !.frame = view.frame + 1]
           ms == Cleared(messages, live)
<1>1. v \in Views /\ v.theme = view.theme /\ v.width = view.width
  BY TranscriptFacts DEF Views
<1>2. CASE live # {}
  <2>1. Show(ms, NoPrefix, v, turn) /\ jobs' = jobs
    BY <1>2 DEF SpinnerTick
  <2> HIDE DEF live, v
  <2>2. /\ MessagesSound(ms, view.theme) /\ Len(ms) = Len(messages)
        /\ \A i \in 1 .. Len(messages) : ms[i].kind = messages[i].kind
    <3>1. \A i \in 1 .. Len(messages) :
            /\ i \notin live => CacheSound(messages[i], view.theme)
            /\ messages[i].kind = "ai" => ~messages[i].open /\ ~messages[i].running
      BY TranscriptFacts DEF MessagesSound
    <3>2. messages \in Seq(ChatMessages)
      BY TranscriptFacts
    <3> QED BY <3>1, <3>2, ClearedSound
  <2> HIDE DEF ms
  <2>3. TurnSound(ms, turn) /\ JobsSound(jobs', ms)
    BY <2>1, <2>2, TranscriptFacts DEF TurnSound, JobsSound
  <2>4. PrefixSound(NoPrefix, ms, v, turn.stream) /\ MessagesSound(ms, v.theme)
    BY <1>1, <2>2 DEF PrefixSound
  <2> QED BY <1>1, <2>1, <2>3, <2>4, ShowSound
<1>3. CASE live = {}
  <2>1. view' = v /\ UNCHANGED <<messages, prefix, turn, screen, dirty, jobs>>
    BY <1>3 DEF SpinnerTick
  <2>2. \A i \in 1 .. Len(messages) : ~messages[i].running
    BY <1>3, TranscriptFacts
  <2> HIDE DEF v, live
  <2>3. \A i \in 1 .. turn.stream - 1 : ~messages[i].running
    BY <2>2, TranscriptFacts
  <2>4. PrefixSound(prefix, messages, v, turn.stream)
    BY <1>1, <2>3, TranscriptFacts, PrefixStays
  <2>5. PaintedFresh'
    <3>1. DOMAIN messages = 1 .. Len(messages)
      BY TranscriptFacts
    <3> QED BY <1>1, <2>1, <2>2, <3>1 DEF TranscriptInv, PaintedFresh, Working
  <2>6. MessagesSound(messages, v.theme)
    BY <1>1, TranscriptFacts
  <2> QED BY <1>1, <2>1, <2>4, <2>5, <2>6 DEF TranscriptInv
<1> QED BY <1>2, <1>3

\* The answer is final, and may be painted as a preview until its Markdown is there.
LEMMA FinishTurnStep == TranscriptInv /\ FinishTurn => TranscriptInv'
<1> SUFFICES ASSUME TranscriptInv, FinishTurn PROVE TranscriptInv'
  OBVIOUS
<1> DEFINE s == turn.stream
           v == [view EXCEPT !.frame = 0]
           idle == [busy |-> FALSE, stream |-> 0, tool |-> 0]
           m == [messages[s] EXCEPT !.text[2] = "final"]
           final == Cleared([messages EXCEPT ![s] = m], {s})
           ms == IF s = 0 THEN messages ELSE final
           p == Painted(ms, NoPrefix, v, 0)
<1>1. v \in Views /\ v.theme = view.theme
  BY TranscriptFacts DEF Views
<1>2. /\ MessagesSound(ms, v.theme) /\ Len(ms) = Len(messages)
      /\ \A i \in 1 .. Len(messages) : ms[i].kind = messages[i].kind
  <2>1. CASE s = 0
    BY <1>1, <2>1, TranscriptFacts
  <2>2. CASE s # 0
    <3>1. s \in 1 .. Len(messages)
      BY <2>2, TranscriptFacts
    <3>2. m \in ChatMessages /\ m.kind = messages[s].kind
          /\ m.open = messages[s].open /\ m.running = messages[s].running
      BY <3>1, TranscriptFacts, FinalMessage
    <3>3. m.kind = "ai" => ~m.open /\ ~m.running
      BY <3>1, <3>2, TranscriptFacts DEF MessagesSound
    <3>4. MessagesSound(messages, view.theme)
      BY TranscriptFacts
    <3> HIDE DEF m
    <3>5. EditedAt(final, messages, s, view.theme)
      BY <3>1, <3>2, <3>3, <3>4, EditedSound
    <3> HIDE DEF final
    <3> QED BY <1>1, <2>2, <3>5 DEF EditedAt
  <2> QED BY <2>1, <2>2
<1>3. \/ Show(ms, NoPrefix, v, idle) /\ UNCHANGED jobs
      \/ /\ s # 0
         /\ messages' = [p.messages EXCEPT ![s].pending = TRUE]
         /\ jobs' = jobs \cup {[index |-> s, text |-> ms[s].text, theme |-> v.theme,
                                width |-> AreaWidth([v EXCEPT !.tall = p.tall])]}
         /\ prefix' = p.prefix /\ screen' = p.screen /\ turn' = idle
         /\ view' = [v EXCEPT !.tall = p.tall] /\ dirty' = TRUE
  BY DEF FinishTurn
<1>4. TurnSound(ms, idle) /\ idle.stream = 0
  BY <1>2, TranscriptFacts DEF TurnSound, Turns
<1>5. PrefixSound(NoPrefix, ms, v, 0)
  BY DEF PrefixSound
<1> HIDE DEF final, ms, v
<1>6. CASE Show(ms, NoPrefix, v, idle) /\ UNCHANGED jobs
  <2>1. JobsSound(jobs', ms)
    BY <1>2, <1>6, TranscriptFacts DEF JobsSound
  <2> HIDE DEF idle
  <2> QED BY <1>1, <1>2, <1>4, <1>5, <1>6, <2>1, ShowSound
<1>7. CASE /\ s # 0
           /\ messages' = [p.messages EXCEPT ![s].pending = TRUE]
           /\ jobs' = jobs \cup {[index |-> s, text |-> ms[s].text, theme |-> v.theme,
                                  width |-> AreaWidth([v EXCEPT !.tall = p.tall])]}
           /\ prefix' = p.prefix /\ screen' = p.screen /\ turn' = idle
           /\ view' = [v EXCEPT !.tall = p.tall] /\ dirty' = TRUE
  <2>1. /\ p.messages \in Seq(ChatMessages) /\ Len(p.messages) = Len(ms)
        /\ \A i \in 1 .. Len(ms) :
             /\ CacheSound(p.messages[i], v.theme)
             /\ p.messages[i].kind = ms[i].kind
             /\ p.messages[i].open = ms[i].open /\ p.messages[i].running = ms[i].running
        /\ p.prefix = NoPrefix /\ p.tall \in BOOLEAN
    <3>1. 0 \in 0 .. Len(ms) /\ Len(ms) \in Nat
      BY <1>2, TranscriptFacts
    <3>2. PaintedWell(p, ms, v, 0)
      BY <1>1, <1>2, <1>5, <3>1, PaintedSound
    <3> HIDE DEF p
    <3> QED BY <3>2 DEF PaintedWell
  <2> HIDE DEF p
  <2> DEFINE n == [p.messages[s] EXCEPT !.pending = TRUE]
             job == [index |-> s, text |-> ms[s].text, theme |-> v.theme,
                     width |-> AreaWidth([v EXCEPT !.tall = p.tall])]
  <2>2. s \in 1 .. Len(ms) /\ ms[s].kind = "ai" /\ Len(ms) \in Nat
    BY <1>2, <1>7, TranscriptFacts
  <2>3. n \in ChatMessages /\ n.cache = p.messages[s].cache /\ n.text = p.messages[s].text
        /\ n.kind = p.messages[s].kind /\ n.open = p.messages[s].open
        /\ n.running = p.messages[s].running /\ n.pending
    <3>1. p.messages[s] \in ChatMessages
      BY <2>1, <2>2
    <3> QED BY <3>1 DEF ChatMessages
  <2>4. messages' = [p.messages EXCEPT ![s] = n]
    BY <1>7
  <2> HIDE DEF n
  <2>5. /\ messages' \in Seq(ChatMessages) /\ Len(messages') = Len(ms)
        /\ messages'[s] = n /\ \A i \in 1 .. Len(ms) : i # s => messages'[i] = p.messages[i]
    BY <2>1, <2>2, <2>3, <2>4, ExceptSeq
  <2>6. CacheSound(n, v.theme)
    <3>1. CacheSound(p.messages[s], v.theme)
      BY <2>1, <2>2
    <3> QED BY <2>3, <3>1 DEF CacheSound
  <2>7. MessagesSound(messages', v.theme)
    BY <1>2, <2>1, <2>2, <2>3, <2>5, <2>6 DEF MessagesSound
  <2>8. view' \in Views /\ view'.theme = v.theme
    BY <1>1, <1>7, <2>1 DEF Views
  <2>9. job \in Jobs
    <3>1. AreaWidth(view') \in Nat
      <4>1. view'.width \in Nat \ {0} /\ view'.tall \in BOOLEAN
        BY <2>8, TranscriptConstants DEF Views
      <4> QED BY <4>1 DEF AreaWidth
    <3>2. ms[s] \in ChatMessages
      BY <1>2, <2>2 DEF MessagesSound
    <3>3. ms[s].text \in Texts /\ v.theme \in {0, 1}
      BY <1>1, <3>2 DEF ChatMessages, Views
    <3>4. job = [index |-> s, text |-> ms[s].text, theme |-> v.theme, width |-> AreaWidth(view')]
      BY <1>7
    <3> HIDE DEF job
    <3> QED BY <2>2, <3>1, <3>3, <3>4 DEF Jobs
  <2>10. jobs' = jobs \cup {job} /\ job.index = s
    BY <1>7
  <2> HIDE DEF job
  <2>11. \A i \in 1 .. Len(ms) : messages'[i].kind = ms[i].kind
    BY <2>1, <2>3, <2>5
  <2>12. JobsSound(jobs', messages')
    BY <1>2, <2>2, <2>5, <2>9, <2>10, <2>11, TranscriptFacts DEF JobsSound
  <2>13. TurnSound(messages', turn') /\ PrefixSound(prefix', messages', view', turn'.stream)
    BY <1>7, <2>1, <2>5, TranscriptFacts DEF TurnSound, Turns, PrefixSound
  <2>14. PaintedFresh'
    BY <1>7 DEF PaintedFresh
  <2> QED BY <1>7, <2>7, <2>8, <2>12, <2>13, <2>14 DEF TranscriptInv
<1> QED BY <1>3, <1>6, <1>7

\* Markdown that arrives for the text as it is fills the cache of its message.
LEMMA MarkdownArrivesStep ==
  ASSUME TranscriptInv, NEW job \in jobs, MarkdownArrives(job) PROVE TranscriptInv'
<1> DEFINE k == job.index
           m == messages[k]
           late == job.theme # view.theme
           block == [BlockOf(m, view, FALSE) EXCEPT
                        !.width = job.width, !.theme = job.theme, !.mode = "full",
                        !.frame = 0, !.late = late]
           cache == [width |-> job.width, streaming |-> FALSE, size |-> job.text[1],
                     open |-> FALSE, running |-> FALSE, frame |-> 0, block |-> block]
           n == [m EXCEPT !.pending = FALSE, !.cache = cache]
           ms == [messages EXCEPT ![k] = n]
<1>1. /\ jobs' = jobs \ {job}
      /\ IF m.text = job.text THEN Show(ms, prefix, view, turn)
         ELSE UNCHANGED <<messages, prefix, view, turn, screen, dirty>>
  BY DEF MarkdownArrives
<1>2. /\ job \in Jobs /\ k \in 1 .. Len(messages) /\ m.kind = "ai" /\ m \in ChatMessages
      /\ ~m.open /\ ~m.running
  BY TranscriptFacts DEF JobsSound, MessagesSound
<1>3. JobsSound(jobs', messages)
  BY <1>1, TranscriptFacts DEF JobsSound
<1>4. CASE m.text # job.text
  <2>1. UNCHANGED <<messages, prefix, view, turn, screen, dirty>>
    BY <1>1, <1>4
  <2>2. PaintedFresh'
    BY <2>1 DEF TranscriptInv, PaintedFresh, Working
  <2> QED BY <1>3, <2>1, <2>2 DEF TranscriptInv
<1>5. CASE m.text = job.text
  <2>1. Show(ms, prefix, view, turn)
    BY <1>1, <1>5
  <2>2. late \in BOOLEAN /\ (job.theme = view.theme \/ late)
    OBVIOUS
  <2> HIDE DEF late
  <2>3. job.width \in Nat /\ job.theme \in {0, 1}
    BY <1>2 DEF Jobs
  <2>4. /\ block \in Renderings
        /\ block.text = m.text /\ block.open = m.open /\ block.running = m.running
        /\ block.width = job.width /\ block.frame = 0 /\ block.mode = "full"
        /\ block.theme = job.theme /\ block.late = late
    <3> DEFINE w == AreaWidth(view)
               md == Mode(m, FALSE)
               base == BlockOf(m, view, FALSE)
    <3>1. w \in Nat
      <4>1. view.width \in Nat \ {0} /\ view.tall \in BOOLEAN
        BY TranscriptFacts, TranscriptConstants DEF Views
      <4> QED BY <4>1 DEF AreaWidth
    <3>2. md \in {"full", "stream", "preview"}
      BY DEF Mode
    <3>3. base = [text |-> m.text, open |-> m.open, running |-> m.running, width |-> w,
                  theme |-> view.theme, mode |-> md, frame |-> view.frame, late |-> FALSE]
      BY DEF BlockOf
    <3> HIDE DEF w, md, base
    <3>4. base \in Renderings
      BY <1>2, <3>1, <3>2, <3>3, TranscriptFacts DEF Renderings, ChatMessages, Views
    <3>5. base.text = m.text /\ base.open = m.open /\ base.running = m.running
      BY <3>3
    <3> HIDE DEF m
    <3>6. block = [base EXCEPT !.width = job.width, !.theme = job.theme, !.mode = "full",
                               !.frame = 0, !.late = late]
      BY DEF base
    <3> HIDE DEF block
    <3> QED BY <2>2, <2>3, <3>4, <3>5, <3>6 DEF Renderings
  <2>5. job.text[1] \in Nat /\ job.width \in Nat
    BY <1>2 DEF Jobs, Texts
  <2>6. cache \in Caches
    <3> HIDE DEF block
    <3> QED BY <2>4, <2>5 DEF Caches
  <2>7. n \in ChatMessages /\ n.cache = cache /\ n.kind = m.kind /\ n.text = m.text
        /\ n.open = m.open /\ n.running = m.running
    <3> HIDE DEF cache, m
    <3> QED BY <1>2, <2>6 DEF ChatMessages
  <2>8. m.open = FALSE /\ m.running = FALSE
    BY <1>2 DEF ChatMessages
  <2>9. CacheSound(n, view.theme)
    <3>1. /\ cache.block = block /\ cache.open = FALSE /\ cache.running = FALSE
          /\ cache.width = job.width /\ cache.frame = 0 /\ cache.streaming = FALSE
      OBVIOUS
    <3> HIDE DEF cache, n, block, m
    <3>2. (block.mode = "stream") = (n.kind = "ai" /\ cache.streaming) /\ block.mode # "preview"
      BY <2>4, <3>1
    <3> QED BY <2>2, <2>4, <2>7, <2>8, <3>1, <3>2 DEF CacheSound
  <2> HIDE DEF n, cache, block
  <2>10. /\ ms \in Seq(ChatMessages) /\ Len(ms) = Len(messages)
         /\ ms[k] = n /\ \A i \in 1 .. Len(messages) : i # k => ms[i] = messages[i]
    BY <1>2, <2>7, TranscriptFacts, ExceptSeq
  <2> HIDE DEF ms
  <2>11. ASSUME NEW i \in 1 .. Len(messages)
         PROVE  /\ ms[i].kind = messages[i].kind /\ ms[i].text = messages[i].text
                /\ ms[i].open = messages[i].open /\ ms[i].running = messages[i].running
    BY <2>7, <2>10
  <2>12. MessagesSound(ms, view.theme)
    BY <1>2, <2>7, <2>9, <2>10, <2>11, TranscriptFacts DEF MessagesSound
  <2>13. TurnSound(ms, turn) /\ JobsSound(jobs', ms)
    BY <1>3, <2>10, <2>11, TranscriptFacts DEF TurnSound, JobsSound
  <2>14. \A i \in 1 .. turn.stream - 1 : i \in 1 .. Len(messages)
    BY TranscriptFacts
  <2>15. PrefixSound(prefix, ms, view, turn.stream)
    BY <2>11, <2>14, TranscriptFacts, PrefixStays
  <2> QED BY <2>1, <2>12, <2>13, <2>15, TranscriptFacts, ShowSound
<1> QED BY <1>4, <1>5

\* A box that is opened or closed is painted anew, with everything before it.
LEMMA ToggleStep ==
  ASSUME TranscriptInv, NEW i, Toggle(i) PROVE TranscriptInv'
<1> DEFINE m == [messages[i] EXCEPT !.open = ~messages[i].open]
           ms == Cleared([messages EXCEPT ![i] = m], {i})
<1>1. Show(ms, NoPrefix, view, turn) /\ jobs' = jobs
      /\ i \in 1 .. Len(messages) /\ messages[i].kind # "ai"
  BY TranscriptFacts DEF Toggle
<1>2. m \in ChatMessages /\ m.kind = messages[i].kind
  BY <1>1, TranscriptFacts DEF ChatMessages
<1>3. MessagesSound(messages, view.theme)
  BY TranscriptFacts
<1> HIDE DEF m
<1>4. EditedAt(ms, messages, i, view.theme)
  BY <1>1, <1>2, <1>3, EditedSound
<1> HIDE DEF ms
<1>5. TurnSound(ms, turn) /\ JobsSound(jobs', ms)
  BY <1>1, <1>4, TranscriptFacts DEF TurnSound, JobsSound, EditedAt
<1>6. PrefixSound(NoPrefix, ms, view, turn.stream)
  BY DEF PrefixSound
<1> QED BY <1>1, <1>4, <1>5, <1>6, TranscriptFacts, ShowSound DEF EditedAt

\* A new theme clears every cache.
LEMMA SwitchThemeStep == TranscriptInv /\ SwitchTheme => TranscriptInv'
<1> SUFFICES ASSUME TranscriptInv, SwitchTheme PROVE TranscriptInv'
  OBVIOUS
<1> DEFINE v == [view EXCEPT !.theme = 1 - view.theme]
           ms == Cleared(messages, DOMAIN messages)
<1>1. Show(ms, NoPrefix, v, turn) /\ jobs' = jobs
  BY DEF SwitchTheme
<1>2. v \in Views
  BY TranscriptFacts DEF Views
<1> HIDE DEF v
<1>3. /\ MessagesSound(ms, v.theme) /\ Len(ms) = Len(messages)
      /\ \A i \in 1 .. Len(messages) : ms[i].kind = messages[i].kind
  <2>1. \A i \in 1 .. Len(messages) :
          /\ i \notin DOMAIN messages => CacheSound(messages[i], v.theme)
          /\ messages[i].kind = "ai" => ~messages[i].open /\ ~messages[i].running
    BY TranscriptFacts DEF MessagesSound
  <2>2. messages \in Seq(ChatMessages)
    BY TranscriptFacts
  <2> QED BY <2>1, <2>2, ClearedSound
<1> HIDE DEF ms
<1>4. TurnSound(ms, turn) /\ JobsSound(jobs', ms)
  BY <1>1, <1>3, TranscriptFacts DEF TurnSound, JobsSound
<1>5. PrefixSound(NoPrefix, ms, v, turn.stream)
  BY DEF PrefixSound
<1> QED BY <1>1, <1>2, <1>3, <1>4, <1>5, ShowSound

\* Every step keeps the invariant.
LEMMA TranscriptStep == TranscriptInv /\ [TranscriptNext]_transcriptVars => TranscriptInv'
<1> SUFFICES ASSUME TranscriptInv, [TranscriptNext]_transcriptVars PROVE TranscriptInv'
  OBVIOUS
<1>1. CASE UNCHANGED transcriptVars
  <2>1. UNCHANGED <<messages, prefix, view, turn, jobs, screen, dirty>>
    BY <1>1 DEF transcriptVars
  <2>2. PaintedFresh'
    BY <2>1 DEF TranscriptInv, PaintedFresh, Working
  <2> QED BY <2>1, <2>2 DEF TranscriptInv
<1> QED
  BY <1>1, SubmitPromptStep, AnswerDeltaStep, ToolStartStep, ToolOutputStep, ToolDoneStep,
     RepaintStep, SpinnerTickStep, FinishTurnStep, MarkdownArrivesStep, ToggleStep, SwitchThemeStep
  DEF TranscriptNext

(***************************************************************************)
(* Whatever the order of deltas, tool output, Markdown, theme switches and *)
(* resizes, a painted list shows every message as it is now.  Let pass are *)
(* Markdown rendered in the background before a theme switch, which keeps  *)
(* the old theme, and a preview above the answer that streams              *)
(* (internal/renderer/view.go, stream.go, markdown_bridge.go).             *)
(***************************************************************************)
THEOREM TranscriptPaintedFresh == TranscriptSpec => []PaintedFresh
<1>1. TranscriptInv => PaintedFresh
  BY DEF TranscriptInv
<1> QED BY <1>1, TranscriptInitially, TranscriptStep, PTL DEF TranscriptSpec

-----------------------------------------------------------------------------
(***************************************************************************)
(* For any files, commands and arguments: what is highlighted is what the  *)
(* text says, also when a text is cleared away under its list.             *)
(***************************************************************************)

\* What is typed, and what is offered for it.
TypedLines == [mark : {"", "words", "/", "@"}, query : Names, spaced : BOOLEAN, arg : Names]
Offers == [kind : {"none", "mention", "command", "arg"}, list : Seq(Names), row : Nat,
           filter : Names, active : Names, chosen : BOOLEAN]

\* A list of mentions is what its filter makes of the files.
Made(o) == o.kind = "mention" /\ o.list # <<>> => o.list = Top(Suggested(o.filter, Files))

\* The row of the query seen last is where the list has it, if the arrows were not used.
Found(o) ==
    LET list == Top(Suggested(o.filter, Files))
    IN  o.active \in ToSet(list) /\ ~o.chosen => o.row < Len(list) /\ list[o.row + 1] = o.active
Kept(o) == Found(o) /\ (o.kind # "mention" => o.active = <<>>)

\* What is offered fits the text.
Fits(t, o) ==
    /\ HasList(o) => o.row < Len(o.list)
    /\ t.mark = "@" =>
         /\ o.kind = "mention"
         /\ HasList(o) => o.active = t.query /\ (o.filter = t.query \/ Listed(Files, t.query))
    /\ t.mark = "/" =>
         /\ o.kind # "mention"
         /\ o.kind = "arg" /\ HasList(o) =>
              IF Listed(ArgsOf[t.query], t.arg) THEN Picked(o) = t.arg
              ELSE Subsequence(t.arg, Picked(o))
         /\ o.kind = "command" /\ HasList(o) =>
              Subsequence(t.query, Picked(o)) /\ ~IsCommand(t.query)

PaletteInv ==
    /\ typed \in TypedLines /\ offered \in Offers /\ orphaned \in BOOLEAN
    /\ Made(offered) /\ Fits(typed, offered)
    /\ ~orphaned => Kept(offered) /\ (typed.mark \notin {"/", "@"} => offered = NothingOffered)
    /\ Subsequence(ran.query, ran.name)

-----------------------------------------------------------------------------
(* Lists of names.                                                          *)

\* A name is a subsequence of itself.
LEMMA Whole ==
    ASSUME NEW q \in Names
    PROVE  Subsequence(q, q)
<1> DEFINE at == [i \in DOMAIN q |-> i]
<1>1. at \in [DOMAIN q -> DOMAIN q]
  OBVIOUS
<1>2. DOMAIN q = 1..Len(q) /\ Len(q) \in Nat
  BY DEF Names
<1>3. \A i \in DOMAIN q : q[at[i]] = q[i] /\ (i > 1 => at[i - 1] < at[i])
  BY <1>2
<1> HIDE DEF at
<1> QED BY <1>1, <1>3 DEF Subsequence

\* What is suggested are names of the list the query is a subsequence of.
LEMMA SuggestedFit ==
    ASSUME NEW q, NEW names \in Seq(Names)
    PROVE  /\ Suggested(q, names) \in Seq(Names)
           /\ \A n \in 1..Len(Suggested(q, names)) :
                /\ Subsequence(q, Suggested(q, names)[n])
                /\ Suggested(q, names)[n] \in ToSet(names)
<1> DEFINE places == {i \in DOMAIN names : Subsequence(q, names[i])}
<1>1. Suggested(q, names) = ElementsAt(names, places)
  BY DEF Suggested
<1>2. places \in SUBSET DOMAIN names
  OBVIOUS
<1>3. \A i \in places : Subsequence(q, names[i]) /\ names[i] \in ToSet(names)
  BY DEF ToSet
<1> HIDE DEF places
<1>4. /\ ElementsAt(names, places) \in Seq(Names) /\ Len(ElementsAt(names, places)) = Cardinality(places)
      /\ \A n \in 1..Cardinality(places) :
           PlaceOf(places, n) \in places /\ ElementsAt(names, places)[n] = names[PlaceOf(places, n)]
  BY <1>2, ElementsKept
<1> QED BY <1>1, <1>3, <1>4

\* The first rows of a list.
LEMMA TopFits ==
    ASSUME NEW names \in Seq(Names)
    PROVE  /\ Top(names) \in Seq(Names) /\ Len(Top(names)) <= Len(names)
           /\ \A n \in 1..Len(Top(names)) : n \in 1..Len(names) /\ Top(names)[n] = names[n]
<1> DEFINE n == IF Len(names) < PaletteRows THEN Len(names) ELSE PaletteRows
<1>1. n \in 0..Len(names)
  BY PaletteConstants
<1>2. Top(names) = SubSeq(names, 1, n)
  BY DEF Top
<1> HIDE DEF n
<1>3. /\ SubSeq(names, 1, n) \in Seq(Names) /\ Len(SubSeq(names, 1, n)) = n
      /\ \A i \in 1..n : SubSeq(names, 1, n)[i] = names[i]
  BY <1>1
<1> QED BY <1>1, <1>2, <1>3

\* Both together.
LEMMA TopSuggested ==
    ASSUME NEW q, NEW names \in Seq(Names)
    PROVE  /\ Top(Suggested(q, names)) \in Seq(Names)
           /\ \A n \in 1..Len(Top(Suggested(q, names))) :
                /\ Subsequence(q, Top(Suggested(q, names))[n])
                /\ Top(Suggested(q, names))[n] \in ToSet(names)
           /\ \A x \in ToSet(Top(Suggested(q, names))) : x \in ToSet(names)
<1> DEFINE all == Suggested(q, names)
<1> DEFINE top == Top(all)
<1>1. /\ all \in Seq(Names)
      /\ \A n \in 1..Len(all) : Subsequence(q, all[n]) /\ all[n] \in ToSet(names)
  BY SuggestedFit
<1> HIDE DEF all
<1>2. /\ top \in Seq(Names)
      /\ \A n \in 1..Len(top) : n \in 1..Len(all) /\ top[n] = all[n]
  BY <1>1, TopFits
<1> HIDE DEF top
<1>3. \A x \in ToSet(top) : x \in ToSet(names)
  BY <1>1, <1>2 DEF ToSet
<1>4. top \in Seq(Names) /\ \A n \in 1..Len(top) : Subsequence(q, top[n]) /\ top[n] \in ToSet(names)
  BY <1>1, <1>2
<1> QED BY <1>3, <1>4 DEF top, all

\* A name that is listed is found in its row.
LEMMA RowFound ==
    ASSUME NEW list \in Seq(Names), NEW name, Listed(list, name)
    PROVE  /\ RowNamed(list, name) \in Nat /\ RowNamed(list, name) < Len(list)
           /\ list[RowNamed(list, name) + 1] = name
<1> DEFINE I == {i \in 1..Len(list) : list[i] = name}
<1>1. I \in SUBSET Nat /\ I # {}
  BY DEF Listed, ToSet
<1>2. RowNamed(list, name) = Min(I) - 1
  <2>1. RowNamed(list, name) = (IF I # {} THEN Min(I) ELSE 0) - 1
    BY DEF RowNamed, SelectInSeq
  <2> HIDE DEF I
  <2> QED BY <1>1, <2>1
<1>3. Min(I) \in I
  <2> HIDE DEF I
  <2> QED BY <1>1, MinIsLeast
<1> DEFINE m == Min(I)
<1>4. m \in 1..Len(list) /\ list[m] = name
  BY <1>3
<1> HIDE DEF I, m
<1>5. m - 1 \in Nat /\ m - 1 < Len(list) /\ (m - 1) + 1 = m
  BY <1>4
<1> QED BY <1>2, <1>4, <1>5 DEF m

-----------------------------------------------------------------------------
(* What is offered for a text.                                              *)

\* What Sync makes of a text and of what was offered before.
SyncedWell(t, o, r) ==
    /\ r \in Offers /\ Made(r) /\ Fits(t, r)
    /\ t.mark \notin {"/", "@"} => r = NothingOffered
    /\ Kept(o) /\ (t.mark = "/" => o.kind # "mention") => Kept(r)

\* With nothing seen last nothing has to be found.
LEMMA NothingSeen ==
    ASSUME NEW o, o.active = <<>>
    PROVE  Found(o)
<1>1. <<>> \notin ToSet(Files) /\ Files \in Seq(Names)
  BY PaletteConstants
<1>2. <<>> \notin ToSet(Top(Suggested(o.filter, Files)))
  BY <1>1, TopSuggested
<1> QED BY <1>2 DEF Found

\* Nothing offered.
LEMMA NothingFits ==
    /\ NothingOffered \in Offers /\ Made(NothingOffered) /\ Kept(NothingOffered)
    /\ NothingOffered.kind = "none" /\ NothingOffered.list = <<>>
<1>1. /\ NothingOffered.kind = "none" /\ NothingOffered.list = <<>> /\ NothingOffered.active = <<>>
      /\ NothingOffered.row = 0 /\ NothingOffered.filter = <<>> /\ NothingOffered.chosen = FALSE
  BY DEF NothingOffered
<1>2. <<>> \in Names /\ <<>> \in Seq(Names)
  BY DEF Names
<1>3. NothingOffered \in Offers
  BY <1>2 DEF NothingOffered, Offers
<1> QED BY <1>1, <1>3, NothingSeen DEF Made, Kept

\* Arguments.
LEMMA ArgsSynced ==
    ASSUME NEW t \in TypedLines, t.mark = "/", NEW o \in Offers,
           NEW base \in Offers, base.active = o.active, base.kind = "none",
           Structured(t.query), NEW r, r = SyncArgs(t, base)
    PROVE  SyncedWell(t, o, r)
<1> DEFINE args == ArgsOf[t.query]
<1> DEFINE exact == Listed(args, t.arg)
<1> DEFINE list == IF exact THEN args ELSE Suggested(t.arg, args)
<1> DEFINE row == IF exact THEN RowNamed(list, t.arg) ELSE 0
<1>1. args \in Seq(Names)
  BY PaletteConstants DEF Structured, IsCommand, Listed
<1>2. list \in Seq(Names) /\ row \in Nat
  <2> HIDE DEF args
  <2> QED BY <1>1, SuggestedFit, RowFound
<1>3. r = [base EXCEPT !.kind = "arg", !.list = list, !.row = row]
  BY DEF SyncArgs
<1>4. list # <<>> => row < Len(list) /\ IF exact THEN list[row + 1] = t.arg
                                                 ELSE Subsequence(t.arg, list[row + 1])
  <2> HIDE DEF args
  <2>1. CASE exact
    BY <1>1, <2>1, RowFound
  <2>2. CASE ~exact
    <3>1. list = Suggested(t.arg, args) /\ row = 0
      BY <2>2
    <3> HIDE DEF list, row
    <3>2. list # <<>> => 1 \in 1..Len(list)
      BY <1>2
    <3> QED BY <1>1, <2>2, <3>1, <3>2, SuggestedFit
  <2> QED BY <2>1, <2>2
<1> HIDE DEF list, row
<1>5. /\ r \in Offers /\ r.kind = "arg" /\ r.list = list /\ r.row = row /\ r.active = o.active
      /\ r.filter = base.filter /\ r.chosen = base.chosen
  BY <1>2, <1>3 DEF Offers
<1>6. Fits(t, r)
  BY <1>4, <1>5 DEF Fits, HasList, Picked
<1>7. Made(r)
  BY <1>5 DEF Made
<1>8. Kept(o) /\ o.kind # "mention" => Kept(r)
  BY <1>5, NothingSeen DEF Kept
<1> QED BY <1>5, <1>6, <1>7, <1>8 DEF SyncedWell

\* Slash commands.
LEMMA SlashSynced ==
    ASSUME NEW t \in TypedLines, t.mark = "/", NEW o \in Offers
    PROVE  SyncedWell(t, o, SyncSlash(t, o))
<1> DEFINE base == [NothingOffered EXCEPT !.active = o.active, !.chosen = o.chosen]
<1> DEFINE list == Top(Suggested(t.query, SlashNames))
<1> DEFINE row == IF o.kind = "command" /\ o.row < Len(list) THEN o.row ELSE 0
<1>1. /\ base \in Offers /\ base.kind = "none" /\ base.list = <<>> /\ base.active = o.active
      /\ base.filter = <<>> /\ base.row = 0 /\ base.chosen = o.chosen
  <2>1. <<>> \in Names /\ <<>> \in Seq(Names)
    BY DEF Names
  <2>2. base = [kind |-> "none", list |-> <<>>, row |-> 0, filter |-> <<>>,
                active |-> o.active, chosen |-> o.chosen]
    <3> DEFINE none == FALSE
    <3> DEFINE one == [NothingOffered EXCEPT !.active = o.active]
    <3>1. NothingOffered = [kind |-> "none", list |-> <<>>, row |-> 0, filter |-> <<>>,
                            active |-> <<>>, chosen |-> none]
      BY DEF NothingOffered
    <3>2. base = [one EXCEPT !.chosen = o.chosen]
      BY DEF NothingOffered
    <3> HIDE DEF none, base
    <3>3. one = [kind |-> "none", list |-> <<>>, row |-> 0, filter |-> <<>>,
                 active |-> o.active, chosen |-> none]
      BY <3>1
    <3> HIDE DEF one
    <3> QED BY <3>2, <3>3
  <2>3. o.active \in Names /\ o.chosen \in BOOLEAN
    BY DEF Offers
  <2> HIDE DEF base
  <2> QED BY <2>1, <2>2, <2>3 DEF Offers
<1>2. SlashNames \in Seq(Names)
  BY PaletteConstants
<1>3. list \in Seq(Names) /\ \A n \in 1..Len(list) : Subsequence(t.query, list[n])
  BY <1>2, TopSuggested
<1>4. SyncSlash(t, o) =
        IF Structured(t.query) THEN SyncArgs(t, base)
        ELSE IF IsCommand(t.query) THEN base
        ELSE [base EXCEPT !.kind = "command", !.list = list, !.row = row]
  BY DEF SyncSlash
<1> HIDE DEF base
<1>5. CASE Structured(t.query)
  BY <1>1, <1>4, <1>5, ArgsSynced
<1>6. CASE ~Structured(t.query) /\ IsCommand(t.query)
  <2>1. SyncSlash(t, o) = base
    BY <1>4, <1>6
  <2>2. Kept(o) /\ o.kind # "mention" => Kept(base)
    BY <1>1, NothingSeen DEF Kept
  <2> QED BY <1>1, <2>1, <2>2 DEF SyncedWell, Made, Fits, HasList
<1>7. CASE ~Structured(t.query) /\ ~IsCommand(t.query)
  <2> DEFINE r == SyncSlash(t, o)
  <2>1. r = [base EXCEPT !.kind = "command", !.list = list, !.row = row]
    BY <1>4, <1>7
  <2>2. row \in Nat /\ (list # <<>> => row < Len(list))
    BY <1>3 DEF Offers
  <2> HIDE DEF list, row, r
  <2>3. /\ r \in Offers /\ r.kind = "command" /\ r.list = list /\ r.row = row
        /\ r.active = o.active
    BY <1>1, <1>3, <2>1, <2>2 DEF Offers
  <2>4. list # <<>> => Subsequence(t.query, list[row + 1])
    <3>1. list # <<>> => row + 1 \in 1..Len(list)
      BY <1>3, <2>2
    <3> QED BY <1>3, <3>1
  <2>5. Fits(t, r)
    BY <1>7, <2>2, <2>3, <2>4 DEF Fits, HasList, Picked
  <2>6. Made(r)
    BY <2>3 DEF Made
  <2>7. Kept(o) /\ o.kind # "mention" => Kept(r)
    BY <2>3, NothingSeen DEF Kept
  <2> QED BY <2>3, <2>5, <2>6, <2>7 DEF SyncedWell, r
<1> QED BY <1>5, <1>6, <1>7

\* Mentions: the row of a path that is typed in full is found anew unless it was seen.
LEMMA MentionSynced ==
    ASSUME NEW t \in TypedLines, t.mark = "@", NEW o \in Offers
    PROVE  /\ SyncMention(t, o) \in Offers /\ Made(SyncMention(t, o))
           /\ Fits(t, SyncMention(t, o)) /\ (Found(o) => Kept(SyncMention(t, o)))
<1> DEFINE filter == IF Listed(Files, t.query) THEN o.filter ELSE t.query
<1> DEFINE list == Top(Suggested(filter, Files))
<1> DEFINE at == RowFor(t, o, list)
<1> DEFINE row == IF at < Len(list) THEN at ELSE 0
<1> DEFINE chosen == o.chosen /\ t.query = o.active
<1> DEFINE r == SyncMention(t, o)
<1>1. r = [kind |-> "mention", list |-> list, filter |-> filter, active |-> t.query,
           chosen |-> chosen, row |-> row]
  BY DEF SyncMention
<1>2. /\ o.filter \in Names /\ o.row \in Nat /\ t.query \in Names /\ filter \in Names
      /\ chosen \in BOOLEAN
  BY DEF Offers, TypedLines
<1>3. Files \in Seq(Names)
  BY PaletteConstants
<1>4. list \in Seq(Names) /\ \A x \in ToSet(list) : Listed(Files, x)
  <2> HIDE DEF filter
  <2> QED BY <1>3, TopSuggested DEF Listed
<1>5. at \in Nat
  <2> HIDE DEF list
  <2> QED BY <1>2, <1>4, RowFound DEF RowFor
<1>6. row \in Nat /\ (list # <<>> => row < Len(list))
  <2> HIDE DEF list, at
  <2> QED BY <1>4, <1>5
<1>7. filter = t.query \/ Listed(Files, t.query)
  OBVIOUS
<1>8. Found(o) /\ Listed(list, t.query) /\ ~chosen => row < Len(list) /\ list[row + 1] = t.query
  <2> SUFFICES ASSUME Found(o), Listed(list, t.query), ~chosen
               PROVE  row < Len(list) /\ list[row + 1] = t.query
    OBVIOUS
  <2>1. CASE t.query # o.active
    <3>1. at = RowNamed(list, t.query)
      BY <2>1 DEF RowFor
    <3> HIDE DEF list
    <3>2. at < Len(list) /\ list[at + 1] = t.query
      BY <1>4, <3>1, RowFound
    <3> QED BY <3>2
  <2>2. CASE t.query = o.active
    <3>1. filter = o.filter
      BY <1>4 DEF Listed
    <3>2. list = Top(Suggested(o.filter, Files))
      BY <3>1
    <3>3. at = o.row
      BY <2>2 DEF RowFor
    <3>4. o.row < Len(list) /\ list[o.row + 1] = o.active
      <4> HIDE DEF list
      <4> QED BY <2>2, <3>2 DEF Found, Listed
    <3> HIDE DEF list
    <3> QED BY <2>2, <3>3, <3>4
  <2> QED BY <2>1, <2>2
<1> HIDE DEF list, filter, at, row, chosen, r
<1>9. /\ r.kind = "mention" /\ r.list = list /\ r.filter = filter /\ r.active = t.query
      /\ r.chosen = chosen /\ r.row = row
  BY <1>1
<1>10. r \in Offers
  BY <1>1, <1>2, <1>4, <1>6 DEF Offers
<1>11. Made(r)
  BY <1>9 DEF Made, list
<1>12. Fits(t, r)
  BY <1>6, <1>7, <1>9 DEF Fits, HasList
<1>13. Found(o) => Kept(r)
  <2>1. Top(Suggested(r.filter, Files)) = list
    BY <1>9 DEF list
  <2> QED BY <1>8, <1>9, <2>1 DEF Kept, Found, Listed
<1> QED BY <1>10, <1>11, <1>12, <1>13 DEF r

\* Whatever was offered, and whether or not the index is there.
LEMMA Synced ==
    ASSUME NEW t \in TypedLines, NEW o \in Offers, NEW i
    PROVE  SyncedWell(t, o, Sync(t, o, i))
<1>1. CASE t.mark = "/"
  <2>1. Sync(t, o, i) = SyncSlash(t, o)
    BY <1>1 DEF Sync
  <2> QED BY <1>1, <2>1, SlashSynced
<1>2. CASE t.mark = "@"
  <2> DEFINE m == IF o.kind = "mention" THEN o
                  ELSE [o EXCEPT !.kind = "mention", !.list = <<>>, !.row = 0]
  <2>1. Sync(t, o, i) = IF i = "loaded" /\ Files # <<>> THEN SyncMention(t, m)
                        ELSE [m EXCEPT !.list = <<>>]
    BY <1>2 DEF Sync
  <2>2. /\ m \in Offers /\ m.kind = "mention" /\ m.active = o.active /\ m.filter = o.filter
        /\ m.chosen = o.chosen /\ (o.kind = "mention" => m.row = o.row)
    <3>1. <<>> \in Seq(Names)
      OBVIOUS
    <3> QED BY <3>1 DEF Offers
  <2> HIDE DEF m
  <2>3. Kept(o) => Found(m)
    <3>1. CASE o.kind = "mention"
      BY <2>2, <3>1 DEF Kept, Found
    <3>2. CASE o.kind # "mention"
      BY <2>2, <3>2, NothingSeen DEF Kept
    <3> QED BY <3>1, <3>2
  <2>4. CASE i = "loaded" /\ Files # <<>>
    <3>1. Sync(t, o, i) = SyncMention(t, m)
      BY <2>1, <2>4
    <3> QED BY <1>2, <2>2, <2>3, <3>1, MentionSynced DEF SyncedWell
  <2>5. CASE ~(i = "loaded" /\ Files # <<>>)
    <3> DEFINE r == [m EXCEPT !.list = <<>>]
    <3>1. /\ r \in Offers /\ r.kind = "mention" /\ r.active = m.active /\ r.filter = m.filter
          /\ r.chosen = m.chosen /\ r.row = m.row /\ r.list = <<>>
      <4>1. <<>> \in Seq(Names)
        OBVIOUS
      <4> QED BY <2>2, <4>1 DEF Offers
    <3> HIDE DEF r
    <3>2. Found(m) => Found(r)
      BY <3>1 DEF Found
    <3>3. Sync(t, o, i) = r
      BY <2>1, <2>5 DEF r
    <3> QED BY <1>2, <2>3, <3>1, <3>2, <3>3 DEF SyncedWell, Made, Fits, Kept, HasList
  <2> QED BY <2>4, <2>5
<1>3. CASE t.mark \notin {"/", "@"}
  <2>1. Sync(t, o, i) = NothingOffered
    BY <1>3 DEF Sync
  <2> QED BY <1>3, <2>1, NothingFits DEF SyncedWell, Fits, HasList
<1> QED BY <1>1, <1>2, <1>3

-----------------------------------------------------------------------------
(* Keys.                                                                    *)

\* An edit that leaves o behind: what is offered is brought up to date.
LEMMA FinalizeSound ==
    ASSUME PaletteInv, NEW t \in TypedLines, NEW o \in Offers,
           ~orphaned => Kept(o) /\ (t.mark = "/" => o.kind # "mention"),
           Finalize(t, o), Subsequence(ran.query, ran.name)'
    PROVE  PaletteInv'
<1>1. /\ typed' = t /\ offered' = Sync(t, o, index)
      /\ orphaned' = (orphaned /\ offered' # NothingOffered)
  BY DEF Finalize
<1>2. SyncedWell(t, o, Sync(t, o, index))
  BY Synced
<1>3. /\ offered' \in Offers /\ Made(offered') /\ Fits(t, offered')
      /\ t.mark \notin {"/", "@"} => offered' = NothingOffered
      /\ ~orphaned => Kept(offered')
  BY <1>1, <1>2 DEF SyncedWell
<1>4. orphaned' \in BOOLEAN /\ (~orphaned' => ~orphaned \/ offered' = NothingOffered)
  BY <1>1
<1>5. ~orphaned' => Kept(offered')
  BY <1>3, <1>4, NothingFits
<1>6. Made(offered)' /\ Fits(typed, offered)'
  BY <1>1, <1>3 DEF Made, Fits, HasList, Picked
<1>7. Kept(offered)' <=> Kept(offered')
  BY DEF Kept, Found
<1> QED BY <1>1, <1>3, <1>4, <1>5, <1>6, <1>7 DEF PaletteInv

\* Text that is gone leaves what was offered, and its row, behind.
LEMMA LineClearedSound ==
    ASSUME PaletteInv, NEW t \in TypedLines, t.mark \notin {"/", "@"}, typed' = t,
           offered' = offered, orphaned' = (offered # NothingOffered),
           Subsequence(ran.query, ran.name)'
    PROVE  PaletteInv'
<1>1. Made(offered)' /\ Fits(typed, offered)'
  BY DEF PaletteInv, Made, Fits, HasList
<1>2. ~orphaned' => offered' = NothingOffered /\ Kept(offered)'
  BY NothingFits DEF Kept, Found
<1> QED BY <1>1, <1>2 DEF PaletteInv

\* A text that is typed is a line.
LEMMA LinesTyped ==
    /\ NoText \in TypedLines /\ Words \in TypedLines
    /\ NoText.mark = "" /\ Words.mark = "words"
    /\ \A m \in {"/", "@"}, q \in Names :
         /\ WithMark(m, q) \in TypedLines /\ WithMark(m, q).mark = m
         /\ \A b \in BOOLEAN : [WithMark(m, q) EXCEPT !.spaced = b] \in TypedLines
                               /\ [WithMark(m, q) EXCEPT !.spaced = b].mark = m
<1>1. <<>> \in Names
  BY DEF Names
<1>2. NoText \in TypedLines /\ NoText.mark = ""
  BY <1>1 DEF NoText, TypedLines
<1>3. Words \in TypedLines /\ Words.mark = "words"
  BY <1>2 DEF Words, TypedLines
<1>4. ASSUME NEW m \in {"/", "@"}, NEW q \in Names
      PROVE  /\ WithMark(m, q) \in TypedLines /\ WithMark(m, q).mark = m
             /\ \A b \in BOOLEAN : [WithMark(m, q) EXCEPT !.spaced = b] \in TypedLines
                                   /\ [WithMark(m, q) EXCEPT !.spaced = b].mark = m
  <2>1. WithMark(m, q) \in TypedLines /\ WithMark(m, q).mark = m
    BY <1>2 DEF WithMark, TypedLines
  <2> DEFINE w == WithMark(m, q)
  <2> HIDE DEF w
  <2>2. w \in TypedLines /\ w.mark = m
    BY <2>1 DEF w
  <2>3. \A b \in BOOLEAN : [w EXCEPT !.spaced = b] \in TypedLines /\ [w EXCEPT !.spaced = b].mark = m
    BY <2>2 DEF TypedLines
  <2> QED BY <2>2, <2>3 DEF w
<1> QED BY <1>2, <1>3, <1>4

\* What is offered while text of this kind is typed is as FinalizeSound asks.
LEMMA OfferedReady ==
    ASSUME PaletteInv, NEW t, t.mark = "/" => typed.mark # "@"
    PROVE  offered \in Offers /\ (~orphaned => Kept(offered) /\ (t.mark = "/" => offered.kind # "mention"))
<1>1. typed.mark \in {"", "words", "/", "@"}
  BY DEF PaletteInv, TypedLines
<1>2. typed.mark = "/" => offered.kind # "mention"
  BY DEF PaletteInv, Fits
<1>3. ~orphaned /\ typed.mark \notin {"/", "@"} => offered.kind # "mention"
  BY NothingFits DEF PaletteInv
<1> QED BY <1>1, <1>2, <1>3 DEF PaletteInv

\* The first text of the line.
LEMMA MarkSound ==
    ASSUME PaletteInv, NEW m \in {"/", "@"}, NEW q \in Names, PasteToken(m, q)
    PROVE  PaletteInv'
<1>1. typed.mark = "" /\ Finalize(WithMark(m, q), offered) /\ UNCHANGED ran
  BY DEF PasteToken
<1>2. WithMark(m, q) \in TypedLines
  BY LinesTyped
<1> QED BY <1>1, <1>2, OfferedReady, FinalizeSound DEF PaletteInv

\* Letters, spaces and backspace.
LEMMA LetterTyped ==
    ASSUME PaletteInv, NEW c \in Letters, TypeLetter(c)
    PROVE  PaletteInv'
<1>1. typed \in TypedLines /\ typed.query \in Names /\ typed.arg \in Names
  BY DEF PaletteInv, TypedLines
<1>2. Append(typed.query, c) \in Names /\ Append(typed.arg, c) \in Names
  BY <1>1 DEF Names
<1>3. UNCHANGED ran /\ Subsequence(ran.query, ran.name)'
  BY DEF TypeLetter, PaletteInv
<1>4. CASE Finalize([typed EXCEPT !.query = Append(@, c)], offered)
  <2> DEFINE t == [typed EXCEPT !.query = Append(@, c)]
  <2>1. t \in TypedLines /\ t.mark = typed.mark
    BY <1>1, <1>2 DEF TypedLines
  <2> HIDE DEF t
  <2>2. Finalize(t, offered)
    BY <1>4 DEF t
  <2> QED BY <1>3, <2>1, <2>2, OfferedReady, FinalizeSound
<1>5. CASE Finalize([typed EXCEPT !.arg = Append(@, c)], offered)
  <2> DEFINE t == [typed EXCEPT !.arg = Append(@, c)]
  <2>1. t \in TypedLines /\ t.mark = typed.mark
    BY <1>1, <1>2 DEF TypedLines
  <2> HIDE DEF t
  <2>2. Finalize(t, offered)
    BY <1>5 DEF t
  <2> QED BY <1>3, <2>1, <2>2, OfferedReady, FinalizeSound
<1>6. CASE Finalize(Words, offered)
  BY <1>3, <1>6, LinesTyped, OfferedReady, FinalizeSound
<1> QED BY <1>4, <1>5, <1>6 DEF TypeLetter

\* A space ends a mention and begins the arguments of a command.
LEMMA SpaceTyped ==
    ASSUME PaletteInv, TypeSpace
    PROVE  PaletteInv'
<1>1. typed \in TypedLines /\ typed.mark \in {"/", "@"}
  BY DEF PaletteInv, TypeSpace
<1>2. UNCHANGED ran /\ Subsequence(ran.query, ran.name)'
  BY DEF TypeSpace, PaletteInv
<1> DEFINE t == IF typed.mark = "@" THEN Words ELSE [typed EXCEPT !.spaced = TRUE]
<1>3. t \in TypedLines /\ (t.mark = "/" => typed.mark # "@")
  <2>1. [typed EXCEPT !.spaced = TRUE] \in TypedLines
    BY <1>1 DEF TypedLines
  <2> QED BY <2>1, LinesTyped
<1>4. Finalize(t, offered)
  BY DEF TypeSpace
<1> HIDE DEF t
<1> QED BY <1>2, <1>3, <1>4, OfferedReady, FinalizeSound

\* The last letter, space or mark is erased.
LEMMA LastErased ==
    ASSUME PaletteInv, EraseLast
    PROVE  PaletteInv'
<1>1. typed \in TypedLines /\ typed.mark \in {"/", "@"} /\ typed.query \in Names /\ typed.arg \in Names
  BY DEF PaletteInv, EraseLast, TypedLines
<1>2. UNCHANGED ran /\ Subsequence(ran.query, ran.name)'
  BY DEF EraseLast, PaletteInv
<1> DEFINE t == CASE typed.arg # <<>>   -> [typed EXCEPT !.arg = Front(@)]
                  [] typed.arg = <<>> /\ typed.spaced -> [typed EXCEPT !.spaced = FALSE]
                  [] typed.arg = <<>> /\ ~typed.spaced /\ typed.query # <<>> ->
                       [typed EXCEPT !.query = Front(@)]
                  [] OTHER -> NoText
<1>3. ASSUME NEW q \in Names, q # <<>>
      PROVE  Front(q) \in Names
  BY <1>3 DEF Names, Front
<1>4. /\ typed.arg # <<>> => [typed EXCEPT !.arg = Front(@)] \in TypedLines
                              /\ [typed EXCEPT !.arg = Front(@)].mark = typed.mark
      /\ typed.query # <<>> => [typed EXCEPT !.query = Front(@)] \in TypedLines
                                /\ [typed EXCEPT !.query = Front(@)].mark = typed.mark
      /\ [typed EXCEPT !.spaced = FALSE] \in TypedLines
      /\ [typed EXCEPT !.spaced = FALSE].mark = typed.mark
  <2>1. ASSUME typed.arg # <<>>
        PROVE  [typed EXCEPT !.arg = Front(@)] \in TypedLines
               /\ [typed EXCEPT !.arg = Front(@)].mark = typed.mark
    <3>1. Front(typed.arg) \in Names
      BY <1>1, <1>3, <2>1
    <3> QED BY <1>1, <3>1 DEF TypedLines
  <2>2. ASSUME typed.query # <<>>
        PROVE  [typed EXCEPT !.query = Front(@)] \in TypedLines
               /\ [typed EXCEPT !.query = Front(@)].mark = typed.mark
    <3>1. Front(typed.query) \in Names
      BY <1>1, <1>3, <2>2
    <3> QED BY <1>1, <3>1 DEF TypedLines
  <2>3. [typed EXCEPT !.spaced = FALSE] \in TypedLines /\ [typed EXCEPT !.spaced = FALSE].mark = typed.mark
    BY <1>1 DEF TypedLines
  <2> QED BY <2>1, <2>2, <2>3
<1>5. t \in TypedLines /\ (t.mark = "/" => typed.mark # "@")
  <2>1. CASE typed.arg # <<>>
    <3>1. t = [typed EXCEPT !.arg = Front(@)]
      BY <2>1
    <3> QED BY <1>4, <2>1, <3>1
  <2>2. CASE typed.arg = <<>> /\ typed.spaced
    <3>1. t = [typed EXCEPT !.spaced = FALSE]
      BY <2>2
    <3> QED BY <1>4, <3>1
  <2>3. CASE typed.arg = <<>> /\ ~typed.spaced /\ typed.query # <<>>
    <3>1. t = [typed EXCEPT !.query = Front(@)]
      BY <2>3
    <3> QED BY <1>4, <2>3, <3>1
  <2>4. CASE typed.arg = <<>> /\ ~typed.spaced /\ typed.query = <<>>
    <3>1. t = NoText
      BY <2>4
    <3> QED BY <3>1, LinesTyped
  <2> QED BY <2>1, <2>2, <2>3, <2>4
<1>6. Finalize(t, offered)
  BY DEF EraseLast
<1> HIDE DEF t
<1> QED BY <1>2, <1>5, <1>6, OfferedReady, FinalizeSound

-----------------------------------------------------------------------------
(* Keys the palette takes.                                                  *)

\* The row that is highlighted, and the row the arrows turn to, are of the list.
LEMMA PickedListed ==
    ASSUME NEW o \in Offers, HasList(o), o.row < Len(o.list), NEW step \in {-1, 1}
    PROVE  /\ Picked(o) \in Names /\ o.row + 1 \in 1..Len(o.list)
           /\ Turned(o, step) \in Offers /\ Turned(o, step).row < Len(o.list)
           /\ Turned(o, step).list = o.list /\ Turned(o, step).kind = o.kind
           /\ Turned(o, step).filter = o.filter /\ Turned(o, step).active = o.active
           /\ Turned(o, step).chosen = o.chosen
<1> DEFINE n == Len(o.list)
<1> DEFINE row == (o.row + (IF step = 1 THEN 1 ELSE n - 1)) % n
<1>1. o.list \in Seq(Names) /\ o.row \in Nat
  BY DEF Offers
<1>2. n \in Nat /\ n > 0 /\ o.row + 1 \in 1..n
  BY <1>1
<1>3. Picked(o) \in Names
  BY <1>1, <1>2 DEF Picked
<1>4. row \in Nat /\ row < n
  <2>1. o.row + (IF step = 1 THEN 1 ELSE n - 1) \in Nat
    BY <1>1, <1>2
  <2> HIDE DEF n
  <2> QED BY <1>2, <2>1
<1>5. Turned(o, step) = [o EXCEPT !.row = row]
  BY DEF Turned
<1> HIDE DEF row, n
<1>6. /\ Turned(o, step) \in Offers /\ Turned(o, step).row = row
      /\ Turned(o, step).list = o.list /\ Turned(o, step).kind = o.kind
      /\ Turned(o, step).filter = o.filter /\ Turned(o, step).active = o.active
      /\ Turned(o, step).chosen = o.chosen
  BY <1>4, <1>5 DEF Offers
<1> QED BY <1>2, <1>3, <1>4, <1>6 DEF n

\* With mentions listed the text has none of the other lists.
LEMMA MentionReady ==
    ASSUME PaletteInv, InMentions
    PROVE  /\ typed \in TypedLines /\ typed.mark # "/" /\ offered \in Offers
           /\ HasList(offered) /\ offered.row < Len(offered.list)
           /\ offered.list = Top(Suggested(offered.filter, Files))
           /\ Subsequence(ran.query, ran.name)
BY DEF PaletteInv, InMentions, Fits, Made, HasList

\* The arrows highlight another path, which counts as chosen.
LEMMA MentionMoved ==
    ASSUME PaletteInv, NEW step \in {-1, 1}, MoveMention(step)
    PROVE  PaletteInv'
<1> DEFINE o == [Turned(offered, step) EXCEPT !.chosen = TRUE]
<1>1. InMentions /\ Finalize(typed, o) /\ UNCHANGED ran
  BY DEF MoveMention
<1>2. /\ typed \in TypedLines /\ typed.mark # "/" /\ offered \in Offers /\ HasList(offered)
      /\ offered.row < Len(offered.list) /\ Subsequence(ran.query, ran.name)
  BY <1>1, MentionReady
<1> DEFINE p == Turned(offered, step)
<1>3. p \in Offers /\ p.kind = "mention"
  BY <1>1, <1>2, PickedListed DEF InMentions
<1>4. o = [p EXCEPT !.chosen = TRUE]
  OBVIOUS
<1> HIDE DEF o, p
<1>5. o \in Offers /\ o.chosen = TRUE /\ o.kind = "mention"
  BY <1>3, <1>4 DEF Offers
<1>6. Kept(o)
  BY <1>5 DEF Kept, Found
<1> QED BY <1>1, <1>2, <1>5, <1>6, FinalizeSound

\* A path takes the place of the mention.
LEMMA MentionConfirmed ==
    ASSUME PaletteInv, ConfirmMention
    PROVE  PaletteInv'
<1>1. InMentions /\ UNCHANGED ran /\ IF typed.mark = "@" THEN Finalize(Words, NothingOffered) ELSE Finalize(typed, offered)
  BY DEF ConfirmMention
<1>2. typed \in TypedLines /\ typed.mark # "/" /\ Subsequence(ran.query, ran.name)'
  BY <1>1, MentionReady
<1>3. CASE typed.mark = "@"
  BY <1>1, <1>2, <1>3, LinesTyped, NothingFits, FinalizeSound
<1>4. CASE typed.mark # "@"
  BY <1>1, <1>2, <1>4, OfferedReady, FinalizeSound
<1> QED BY <1>3, <1>4

\* A path that is previewed is the one seen last, in the row it is highlighted in.
LEMMA MentionPreviewed ==
    ASSUME PaletteInv, PreviewMention
    PROVE  PaletteInv'
<1> DEFINE shown == typed.query # <<>> /\ Listed(offered.list, typed.query)
<1> DEFINE o == IF shown THEN Turned(offered, -1) ELSE offered
<1> DEFINE path == Picked(o)
<1>1. /\ InMentions /\ UNCHANGED ran
      /\ IF typed.mark = "@" THEN Finalize(WithMark("@", path), [o EXCEPT !.active = path])
                              ELSE Finalize(typed, offered)
  BY DEF PreviewMention
<1>2. /\ typed \in TypedLines /\ typed.mark # "/" /\ offered \in Offers /\ HasList(offered)
      /\ offered.row < Len(offered.list) /\ Subsequence(ran.query, ran.name)'
      /\ offered.list = Top(Suggested(offered.filter, Files))
  BY <1>1, MentionReady
<1>3. /\ o \in Offers /\ o.kind = "mention" /\ HasList(o) /\ o.row < Len(o.list)
      /\ o.list = Top(Suggested(o.filter, Files))
  <2>1. CASE shown
    <3> HIDE DEF shown
    <3>1. o = Turned(offered, -1)
      BY <2>1
    <3> QED BY <1>1, <1>2, <3>1, PickedListed DEF InMentions, HasList
  <2>2. CASE ~shown
    <3> HIDE DEF shown
    <3>1. o = offered
      BY <2>2
    <3> QED BY <1>1, <1>2, <3>1 DEF InMentions
  <2> QED BY <2>1, <2>2
<1> HIDE DEF o
<1>4. path \in Names /\ o.row + 1 \in 1..Len(o.list)
  BY <1>3, PickedListed
<1> DEFINE p == [o EXCEPT !.active = path]
<1>5. CASE typed.mark = "@"
  <2>1. path = o.list[o.row + 1]
    BY DEF Picked
  <2> HIDE DEF path
  <2>2. /\ p \in Offers /\ p.kind = "mention" /\ p.active = path /\ p.row = o.row
        /\ p.filter = o.filter
    BY <1>3, <1>4 DEF Offers
  <2> HIDE DEF p
  <2>3. Kept(p)
    BY <1>3, <2>1, <2>2 DEF Kept, Found
  <2>4. WithMark("@", path) \in TypedLines /\ WithMark("@", path).mark = "@"
    BY <1>4, LinesTyped
  <2>5. Finalize(WithMark("@", path), p)
    BY <1>1, <1>5 DEF p, path
  <2> QED BY <1>2, <2>2, <2>3, <2>4, <2>5, FinalizeSound
<1>6. CASE typed.mark # "@"
  BY <1>1, <1>2, <1>6, OfferedReady, FinalizeSound
<1> QED BY <1>5, <1>6

\* With commands or arguments listed the row is one of them.
LEMMA SlashReady ==
    ASSUME PaletteInv, InCommands \/ InArgs
    PROVE  /\ typed \in TypedLines /\ typed.mark = "/" /\ offered \in Offers
           /\ HasList(offered) /\ offered.row < Len(offered.list)
           /\ offered.kind \in {"command", "arg"} /\ Picked(offered) \in Names
           /\ Subsequence(ran.query, ran.name) /\ typed.query \in Names
           /\ (~orphaned => Kept(offered))
<1>1. /\ typed \in TypedLines /\ typed.mark = "/" /\ offered \in Offers
      /\ HasList(offered) /\ offered.row < Len(offered.list)
      /\ offered.kind \in {"command", "arg"}
      /\ Subsequence(ran.query, ran.name) /\ (~orphaned => Kept(offered))
  BY DEF PaletteInv, InCommands, InArgs, Fits
<1>2. Picked(offered) \in Names
  BY <1>1, PickedListed
<1> QED BY <1>1, <1>2 DEF TypedLines

\* A command is completed, with a space if it takes arguments.
LEMMA CommandCompleted ==
    ASSUME PaletteInv, InCommands, NEW name, name = Picked(offered),
           Finalize(CompletedCommand(name), offered), UNCHANGED ran
    PROVE  PaletteInv'
<1> DEFINE t == CompletedCommand(name)
<1>1. t \in TypedLines /\ t.mark = "/"
  <2>1. RequiresArgs(name) \in BOOLEAN
    BY DEF RequiresArgs, Structured, IsCommand, Listed
  <2> DEFINE b == RequiresArgs(name)
  <2>2. t = [WithMark("/", name) EXCEPT !.spaced = b]
    BY DEF CompletedCommand
  <2> HIDE DEF b, t
  <2> QED BY <2>1, <2>2, SlashReady, LinesTyped DEF b
<1> HIDE DEF t
<1>2. Finalize(t, offered)
  BY DEF t
<1>3. typed.mark # "@" /\ Subsequence(ran.query, ran.name)'
  BY SlashReady
<1> QED BY <1>1, <1>2, <1>3, OfferedReady, FinalizeSound

\* The arrows highlight another command.
LEMMA CommandMoved ==
    ASSUME PaletteInv, NEW step \in {-1, 1}, MoveCommand(step)
    PROVE  PaletteInv'
<1> DEFINE o == Turned(offered, step)
<1>1. InCommands /\ Finalize(typed, o) /\ UNCHANGED ran
  BY DEF MoveCommand
<1>2. /\ typed \in TypedLines /\ offered \in Offers /\ HasList(offered) /\ offered.row < Len(offered.list)
      /\ offered.kind \in {"command", "arg"} /\ Subsequence(ran.query, ran.name)' /\ (~orphaned => Kept(offered))
  BY <1>1, SlashReady
<1>3. o \in Offers /\ o.kind = offered.kind /\ o.active = offered.active
  BY <1>2, PickedListed
<1> HIDE DEF o
<1>4. ~orphaned => Kept(o) /\ o.kind # "mention"
  BY <1>2, <1>3, NothingSeen DEF Kept
<1> QED BY <1>1, <1>2, <1>3, <1>4, FinalizeSound

\* A slash command runs, and the line is empty.
LEMMA RunSound ==
    ASSUME PaletteInv, NEW name, NEW q, Subsequence(q, name), RunSlash(name, q)
    PROVE  PaletteInv'
<1>1. Finalize(NoText, offered) /\ ran' = [name |-> name, query |-> q]
  BY DEF RunSlash
<1>2. Subsequence(ran.query, ran.name)'
  <2>1. ran'.name = name /\ ran'.query = q
    BY <1>1
  <2> QED BY <2>1 DEF Subsequence
<1> QED BY <1>1, <1>2, LinesTyped, OfferedReady, FinalizeSound

\* The command that is highlighted runs, or its arguments are asked for.
LEMMA CommandConfirmed ==
    ASSUME PaletteInv, ConfirmCommand
    PROVE  PaletteInv'
<1> DEFINE name == Picked(offered)
<1>1. /\ InCommands
      /\ IF RequiresArgs(name) THEN Finalize(CompletedCommand(name), offered) /\ UNCHANGED ran
         ELSE RunSlash(name, typed.query)
  BY DEF ConfirmCommand
<1>2. Subsequence(typed.query, name)
  BY <1>1 DEF PaletteInv, InCommands, Fits
<1> QED BY <1>1, <1>2, CommandCompleted, RunSound

\* The arguments are shown one after the other in the line.
LEMMA ArgCycled ==
    ASSUME PaletteInv, NEW step \in {-1, 1}, CycleArg(step)
    PROVE  PaletteInv'
<1> DEFINE o == IF typed.arg = <<>> THEN offered ELSE Turned(offered, step)
<1> DEFINE t == [typed EXCEPT !.spaced = TRUE, !.arg = Picked(o)]
<1>1. InArgs /\ Finalize(t, o) /\ UNCHANGED ran
  BY DEF CycleArg
<1>2. /\ typed \in TypedLines /\ offered \in Offers /\ HasList(offered) /\ offered.row < Len(offered.list)
      /\ offered.kind \in {"command", "arg"} /\ Subsequence(ran.query, ran.name)' /\ (~orphaned => Kept(offered))
  BY <1>1, SlashReady
<1>3. o \in Offers /\ o.kind = offered.kind /\ o.active = offered.active /\ HasList(o) /\ o.row < Len(o.list)
  <2>1. CASE typed.arg = <<>>
    BY <1>2, <2>1
  <2>2. CASE typed.arg # <<>>
    <3>1. o = Turned(offered, step)
      BY <2>2
    <3> HIDE DEF o
    <3> QED BY <1>2, <3>1, PickedListed DEF HasList
  <2> QED BY <2>1, <2>2
<1> HIDE DEF o
<1>4. Picked(o) \in Names
  BY <1>3, PickedListed
<1>5. t \in TypedLines
  <2> DEFINE x == Picked(o)
  <2>1. t = [typed EXCEPT !.spaced = TRUE, !.arg = x]
    OBVIOUS
  <2> HIDE DEF x, t
  <2> QED BY <1>2, <1>4, <2>1 DEF TypedLines, x
<1> HIDE DEF t
<1>6. ~orphaned => Kept(o) /\ o.kind # "mention"
  BY <1>2, <1>3, NothingSeen DEF Kept
<1> QED BY <1>1, <1>2, <1>3, <1>5, <1>6, FinalizeSound

\* The index of files arrives.
LEMMA IndexSound ==
    ASSUME PaletteInv, IndexArrives
    PROVE  PaletteInv'
<1> DEFINE r == Sync(typed, offered, "loaded")
<1>1. offered' = r /\ UNCHANGED <<typed, ran, orphaned>>
  BY DEF IndexArrives
<1>2. typed \in TypedLines /\ offered \in Offers
  BY DEF PaletteInv
<1>3. SyncedWell(typed, offered, r)
  BY <1>2, Synced
<1> HIDE DEF r
<1>4. ~orphaned => Kept(r) /\ (typed.mark \notin {"/", "@"} => r = NothingOffered)
  <2>1. ~orphaned => Kept(offered)
    BY DEF PaletteInv
  <2>2. typed.mark = "/" => offered.kind # "mention"
    BY DEF PaletteInv, Fits
  <2> QED BY <1>3, <2>1, <2>2 DEF SyncedWell
<1>5. /\ Made(offered)' <=> Made(r)
      /\ Fits(typed, offered)' <=> Fits(typed, r)
      /\ Kept(offered)' <=> Kept(r)
  BY <1>1 DEF Made, Fits, Kept, Found, HasList, Picked
<1> QED BY <1>1, <1>3, <1>4, <1>5 DEF PaletteInv, SyncedWell, Subsequence

-----------------------------------------------------------------------------
\* What Enter takes is what the text says, whatever files, commands and arguments
\* there are, but for a path typed over a list left from a text that is gone.
\* (commands.go, mentions.go, internal/command/args.go)
THEOREM HighlightAlwaysFits == PaletteSpec => []HighlightFits
<1>1. PaletteInit => PaletteInv
  <2> SUFFICES ASSUME PaletteInit PROVE PaletteInv
    OBVIOUS
  <2>1. typed = NoText /\ offered = NothingOffered /\ orphaned = FALSE
    BY DEF PaletteInit
  <2>2. ran.query = <<>> /\ ran.name = <<>> /\ <<>> \in Names
    BY DEF PaletteInit, Names
  <2>3. Subsequence(ran.query, ran.name)
    BY <2>2, Whole
  <2>4. Fits(typed, offered)
    BY <2>1, LinesTyped, NothingFits DEF Fits, HasList
  <2> QED BY <2>1, <2>3, <2>4, LinesTyped, NothingFits DEF PaletteInv
<1>2. PaletteInv /\ [PaletteNext]_paletteVars => PaletteInv'
  <2> SUFFICES ASSUME PaletteInv, [PaletteNext]_paletteVars PROVE PaletteInv'
    OBVIOUS
  <2>0. CASE UNCHANGED paletteVars \/ IndexSwallowed
    <3>1. UNCHANGED <<typed, offered, ran, orphaned>>
      BY <2>0 DEF paletteVars, IndexSwallowed
    <3> QED BY <3>1 DEF PaletteInv, Made, Fits, Kept, Found, HasList, Picked, Subsequence
  <2>1. CASE \E m \in {"/", "@"} : TypeMark(m)
    <3>1. PICK m \in {"/", "@"} : TypeMark(m)
      BY <2>1
    <3>2. PasteToken(m, <<>>)
      BY <3>1 DEF TypeMark, PasteToken
    <3>3. <<>> \in Names
      BY DEF Names
    <3> QED BY <3>2, <3>3, MarkSound
  <2>2. CASE \E m \in {"/", "@"} : \E q \in ToSet(Files) \cup ToSet(SlashNames) : PasteToken(m, q)
    <3>1. \A q \in ToSet(Files) \cup ToSet(SlashNames) : q \in Names
      BY PaletteConstants DEF ToSet
    <3> QED BY <2>2, <3>1, MarkSound
  <2>3. CASE \E c \in Letters : TypeLetter(c)
    BY <2>3, LetterTyped
  <2>4. CASE TypeSpace
    BY <2>4, SpaceTyped
  <2>5. CASE EraseLast
    BY <2>5, LastErased
  <2>6. CASE NewlineInMention
    <3>1. typed' = Words /\ offered' = offered /\ orphaned' = (offered # NothingOffered) /\ UNCHANGED ran
      BY <2>6 DEF NewlineInMention
    <3>2. Subsequence(ran.query, ran.name)'
      BY <3>1 DEF PaletteInv
    <3> QED BY <3>1, <3>2, LinesTyped, LineClearedSound
  <2>7. CASE ClearInput
    <3>1. typed' = NoText /\ offered' = offered /\ orphaned' = (offered # NothingOffered) /\ UNCHANGED ran
      BY <2>7 DEF ClearInput
    <3>2. Subsequence(ran.query, ran.name)'
      BY <3>1 DEF PaletteInv
    <3> QED BY <3>1, <3>2, LinesTyped, LineClearedSound
  <2>8. CASE ConfirmMention
    BY <2>8, MentionConfirmed
  <2>9. CASE PreviewMention
    BY <2>9, MentionPreviewed
  <2>10. CASE CompleteCommand
    BY <2>10, CommandCompleted DEF CompleteCommand
  <2>11. CASE ConfirmCommand
    BY <2>11, CommandConfirmed
  <2>12. CASE \E step \in {-1, 1} : MoveMention(step) \/ MoveCommand(step) \/ CycleArg(step)
    BY <2>12, MentionMoved, CommandMoved, ArgCycled
  <2>13. CASE ConfirmArg
    <3>1. InArgs /\ RunSlash(typed.query, typed.query)
      BY <2>13 DEF ConfirmArg
    <3>2. typed.query \in Names
      BY <3>1, SlashReady
    <3> QED BY <3>1, <3>2, Whole, RunSound
  <2>14. CASE SubmitText
    <3>1. /\ typed' = NoText /\ offered' = offered /\ orphaned' = (offered # NothingOffered)
          /\ ran' = IF typed.mark = "/" THEN [name |-> typed.query, query |-> typed.query] ELSE ran
      BY <2>14 DEF SubmitText
    <3>2. typed.query \in Names /\ Subsequence(ran.query, ran.name)
      BY DEF PaletteInv, TypedLines
    <3>3. Subsequence(ran.query, ran.name)'
      <4>1. CASE typed.mark = "/"
        <5>1. ran'.query = typed.query /\ ran'.name = typed.query
          BY <3>1, <4>1
        <5>2. Subsequence(typed.query, typed.query)
          BY <3>2, Whole
        <5> QED BY <5>1, <5>2 DEF Subsequence
      <4>2. CASE typed.mark # "/"
        BY <3>1, <3>2, <4>2 DEF Subsequence
      <4> QED BY <4>1, <4>2
    <3> QED BY <3>1, <3>3, LinesTyped, LineClearedSound
  <2>15. CASE IndexArrives
    BY <2>15, IndexSound
  <2> QED BY <2>0, <2>1, <2>2, <2>3, <2>4, <2>5, <2>6, <2>7, <2>8, <2>9, <2>10, <2>11, <2>12,
             <2>13, <2>14, <2>15 DEF PaletteNext
<1>3. PaletteInv => HighlightFits
  <2> SUFFICES ASSUME PaletteInv PROVE HighlightFits
    OBVIOUS
  <2>1. HasList(offered) => offered.row < Len(offered.list)
    BY DEF PaletteInv, Fits
  <2>2. ASSUME InMentions, typed.mark = "@"
        PROVE  /\ Listed(offered.list, typed.query) /\ ~offered.chosen /\ ~orphaned
                    => Picked(offered) = typed.query
               /\ Subsequence(offered.filter, Picked(offered))
               /\ offered.filter = typed.query \/ Listed(Files, typed.query)
    <3>1. /\ offered \in Offers /\ offered.row < Len(offered.list) /\ HasList(offered)
          /\ offered.list = Top(Suggested(offered.filter, Files))
      BY <2>2, MentionReady
    <3>2. offered.active = typed.query /\ (offered.filter = typed.query \/ Listed(Files, typed.query))
      BY <2>2, <3>1 DEF PaletteInv, Fits
    <3>3. offered.row + 1 \in 1..Len(offered.list)
      BY <3>1, PickedListed
    <3>4. Files \in Seq(Names)
      BY PaletteConstants
    <3>5. Subsequence(offered.filter, Picked(offered))
      BY <3>1, <3>3, <3>4, TopSuggested DEF Picked
    <3>6. Listed(offered.list, typed.query) /\ ~offered.chosen /\ ~orphaned
            => Picked(offered) = typed.query
      BY <3>1, <3>2 DEF PaletteInv, Kept, Found, Listed, Picked
    <3> QED BY <3>2, <3>5, <3>6
  <2>3. /\ InArgs => IF Listed(ArgsOf[typed.query], typed.arg) THEN Picked(offered) = typed.arg
                     ELSE Subsequence(typed.arg, Picked(offered))
        /\ InCommands => Subsequence(typed.query, Picked(offered)) /\ ~IsCommand(typed.query)
        /\ Subsequence(ran.query, ran.name)
    BY DEF PaletteInv, Fits, InArgs, InCommands
  <2> QED BY <2>1, <2>2, <2>3 DEF HighlightFits
<1> QED BY <1>1, <1>2, <1>3, PTL DEF PaletteSpec

-----------------------------------------------------------------------------
(***************************************************************************)
(* For any options, answers and arguments: the agent is told what the user *)
(* saw and chose.                                                          *)
(***************************************************************************)

FirstForm == [focus |-> 1, row |-> 1, text |-> <<>>, saved |-> <<>>]
Requests == {NoRequest} \cup [kind : {"ask"}, args : Arguments, description : {<<>>}]
              \cup [kind : {"approve"}, args : {NoArguments}, description : Descriptions]

\* The row meant by a way to end an approval.
MeantBy(how, key) ==
    CASE how = "row" -> form.row
      [] how = "digit" -> key.digit
      [] key.letter = "y" -> 1
      [] key.letter = "a" -> 2
      [] key.letter = "n" -> 3
      [] OTHER -> 4

\* What r says when the dialog ends so: OnlyAsAsked and AnswerAsMeant of a response.
Told(r, how, key) ==
    /\ ~Asks /\ how # "no" =>
         /\ r.approved = (MeantBy(how, key) \in {1, 2})
         /\ r.session = (MeantBy(how, key) = 2)
         /\ r.cancelled = (MeantBy(how, key) = 4)
    /\ Asks =>
         /\ ~r.approved /\ ~r.session
         /\ how = "text" /\ form.text # <<>> =>
              r = IF form.saved = CancelChoice THEN Cancelled ELSE Says(form.text)
         /\ how = "text" /\ form.text = <<>> /\ form.saved # <<>> => r = Chosen(form.saved)
         /\ how = "row" => r = Chosen(IF form.saved = <<>> THEN DialogRows[form.row] ELSE form.saved)
         /\ how = "digit" =>
              r = IF key.digit \in DOMAIN Listing THEN Says(Listing[key.digit]) ELSE Cancelled
         /\ how = "letter" => key.letter = "c" /\ Listing # <<>>
         /\ how \in {"letter", "abort"} => r = Cancelled

DialogInv ==
    /\ request \in Requests
    /\ form = [focus |-> form.focus, row |-> form.row, text |-> form.text, saved |-> form.saved]
    /\ form.text \in DialogTexts /\ pasted \in BOOLEAN
    /\ form.focus \in 1..Len(FormFields) /\ (Asks \/ form.row \in 1..4)
    /\ request = NoRequest => form = FirstForm /\ ended = "no"
    /\ ended = "no" => response = NoResponse
    /\ Told(response, ended, pressed)
    /\ Len(FormFields) = 1 => form.saved = <<>>
    /\ Asks /\ Listing # <<>> /\ ~pasted => "c" \notin ToSet(form.text)

\* The arguments of a question, as a model may write them, and what becomes of them.
LEMMA EveryOptionFound ==
    ASSUME request \in Requests
    PROVE  OptionsFound
<1> DEFINE a == request.args
<1>1. /\ a.question \in {"none", "text", "list", "array", "broken"}
      /\ a.options \in {"none", "text", "list", "array", "broken"}
  BY DEF Requests, NoRequest, NoArguments, Arguments
<1>2. a.question = "none" /\ a.options = "none" => a.list = a.list
  OBVIOUS
<1> DEFINE listed == a.options \in {"list", "array"} \/ Swapped(a)
<1> HIDE DEF a
<1>3. CASE a.list = <<>>
  <2>1. Given(a) = <<>> /\ Salvaged(a) = <<>> /\ Options(a) = <<>> /\ ~Swapped(a)
    BY <1>3 DEF Given, Salvaged, Options, Swapped
  <2> QED BY <1>1, <1>3, <2>1 DEF OptionsFound, Heading, AllowCustom, a
<1>4. CASE a.list # <<>>
  <2>1. Swapped(a) <=> a.question \in {"array", "broken"} /\ a.options = "text"
    BY <1>4 DEF Swapped
  <2>2. /\ listed => Given(a) = a.list
        /\ ~listed => Given(a) = <<>>
        /\ a.question \in {"list", "array", "broken"} => Salvaged(a) = a.list
        /\ a.question \in {"none", "text"} => Salvaged(a) = <<>>
    BY <1>1 DEF Given, Salvaged
  <2>3. /\ listed \/ a.question \in {"list", "array", "broken"} => Options(a) = a.list
        /\ AllowCustom(a) => listed
    BY <1>4, <2>2 DEF Options, AllowCustom
  <2>4. Heading(a) = "question" /\ a.question # "text" => a.options \in {"list", "array"}
    <3> SUFFICES ASSUME Heading(a) = "question", a.question # "text"
                 PROVE  a.options \in {"list", "array"}
      OBVIOUS
    <3>1. ~Swapped(a) /\ ~(Given(a) = <<>> /\ Salvaged(a) # <<>>)
      BY DEF Heading
    <3>2. a.question \in {"array", "broken"}
      BY <3>1, <1>1 DEF Heading
    <3> QED BY <1>4, <2>2, <3>1, <3>2
  <2>5. a.question = "text" => Heading(a) = "question"
    BY <2>1, <2>2 DEF Heading
  <2> HIDE DEF listed
  <2>6. listed => a.options \in {"list", "array"} \/ a.question \in {"array", "broken"}
    BY <2>1 DEF listed
  <2> QED BY <1>4, <2>3, <2>4, <2>5, <2>6 DEF OptionsFound, a, listed
<1> QED BY <1>3, <1>4

\* The options of a dialog are a list of texts.
LEMMA ListingTyped ==
    ASSUME request \in Requests
    PROVE  Listing \in Seq(ToSet(Listing))
<1>1. request.args.list = <<>> \/ request.args.list \in OptionLists
  BY DEF Requests, NoRequest, NoArguments, Arguments
<1>2. <<>> \in Seq(ToSet(<<>>)) /\ \A list \in OptionLists : list \in Seq(ToSet(list))
  BY DialogConstants
<1>3. Listing = <<>> \/ Listing = request.args.list
  BY DEF Listing, Options, Given, Salvaged
<1> QED BY <1>1, <1>2, <1>3

\* The lines of a description, however many, and those that are shown of it.
LEMMA DescriptionKept ==
    ASSUME request \in Requests
    PROVE  DescriptionHonest
<1> DEFINE d == request.description
<1> DEFINE Wordings == LineKinds \cup {"cut"}
<1> DEFINE all == AllLines(d)
<1>1. d \in Seq(LineKinds)
  <2>1. d = <<>> \/ d \in Descriptions
    BY DEF Requests, NoRequest
  <2> HIDE DEF d
  <2>2. Descriptions \subseteq Seq(LineKinds)
    BY DialogConstants
  <2>3. <<>> \in Seq(LineKinds)
    OBVIOUS
  <2> QED BY <2>1, <2>2, <2>3
<1>2. all \in Seq(LineKinds)
  <2> DEFINE places == {i \in DOMAIN d : d[i] # "" \/ (i > 1 /\ d[i - 1] # "")}
  <2>1. all = ElementsAt(d, places)
    BY DEF AllLines
  <2>2. places \in SUBSET DOMAIN d
    OBVIOUS
  <2> HIDE DEF d, places, all
  <2> QED BY <1>1, <2>1, <2>2, ElementsKept
<1> HIDE DEF d, all, Wordings
<1>3. DescriptionLines \in Nat \ {0}
  BY DialogConstants
<1>4. CASE Len(all) > DescriptionLines
  <2>1. Described(d) = Clipped(all)
    BY <1>4 DEF Described, all
  <2> HIDE DEF all
  <2> DEFINE head == SubSeq(all, 1, DescriptionLines)
  <2> DEFINE last == all[DescriptionLines]
  <2>2. /\ head \in Seq(LineKinds) /\ Len(head) = DescriptionLines
        /\ \A i \in 1..DescriptionLines : head[i] = all[i]
    BY <1>2, <1>3, <1>4
  <2>3. Clipped(all) = [head EXCEPT ![DescriptionLines] = IF last = "full" THEN "cut" ELSE last]
    BY DEF Clipped
  <2> HIDE DEF head, last
  <2>4. /\ Clipped(all) \in Seq(Wordings) /\ Len(Clipped(all)) = DescriptionLines
        /\ \A i \in 1..(DescriptionLines - 1) : Clipped(all)[i] = all[i]
        /\ Clipped(all)[DescriptionLines] = IF last = "full" THEN "cut" ELSE last
    <3> DEFINE x == IF last = "full" THEN "cut" ELSE last
    <3>1. last \in LineKinds
      BY <1>2, <1>3, <1>4 DEF last
    <3>2. x \in Wordings
      BY <3>1 DEF Wordings
    <3> HIDE DEF x
    <3>3. Clipped(all) = [head EXCEPT ![DescriptionLines] = x]
      BY <2>3 DEF x
    <3>4. head \in [1..DescriptionLines -> Wordings]
      BY <2>2 DEF Wordings
    <3>5. Clipped(all) \in [1..DescriptionLines -> Wordings]
      BY <3>2, <3>3, <3>4
    <3>6. Clipped(all) \in Seq(Wordings) /\ Len(Clipped(all)) = DescriptionLines
      BY <3>5, <1>3
    <3>7. /\ \A i \in 1..(DescriptionLines - 1) : Clipped(all)[i] = all[i]
          /\ Clipped(all)[DescriptionLines] = x
      BY <3>3, <3>4, <2>2, <1>3
    <3> QED BY <3>6, <3>7 DEF x
  <2> DEFINE shown == Clipped(all)
  <2> HIDE DEF shown
  <2>5. /\ shown \in Seq(Wordings) /\ Len(shown) = DescriptionLines
        /\ DOMAIN shown = 1..DescriptionLines
        /\ \A i \in 1..(DescriptionLines - 1) : shown[i] = all[i]
        /\ shown[DescriptionLines] = IF all[DescriptionLines] = "full" THEN "cut" ELSE all[DescriptionLines]
    BY <2>4 DEF shown, last
  <2>6. Last(shown) = shown[DescriptionLines]
    BY <2>5 DEF Last
  <2>7. \A i \in DOMAIN shown : shown[i] = all[i] \/ (i = Len(shown) /\ shown[i] = "cut")
    <3> SUFFICES ASSUME NEW i \in DOMAIN shown
                 PROVE  shown[i] = all[i] \/ (i = Len(shown) /\ shown[i] = "cut")
      OBVIOUS
    <3>1. i \in 1..(DescriptionLines - 1) \/ i = DescriptionLines
      BY <2>5, <1>3
    <3> QED BY <2>5, <3>1
  <2>8. /\ Len(shown) <= DescriptionLines
        /\ Len(all) > Len(shown) /\ all[Len(shown)] = "full" => Last(shown) = "cut"
        /\ Len(all) # Len(shown)
    BY <1>2, <1>3, <1>4, <2>5, <2>6
  <2> QED BY <2>1, <2>7, <2>8 DEF DescriptionHonest, shown, all, d
<1>5. CASE ~(Len(all) > DescriptionLines)
  <2>1. Described(d) = all
    BY <1>5 DEF Described, all
  <2>2. Len(all) <= DescriptionLines /\ ~(Len(all) > Len(all))
    BY <1>2, <1>3, <1>5
  <2> QED BY <2>1, <2>2 DEF DescriptionHonest, d, all
<1> QED BY <1>4, <1>5

-----------------------------------------------------------------------------
\* A dialog that ends tells the agent so.
LEMMA CompletedSound ==
    ASSUME DialogInv, Open, NEW r, NEW how \in {"letter", "digit", "abort", "row", "text"}, NEW key,
           Told(r, how, key), CompletedBy(r, how, key)
    PROVE  DialogInv'
<1>1. response' = r /\ ended' = how /\ pressed' = key /\ UNCHANGED <<request, form, pasted>>
  BY DEF CompletedBy
<1>2. Told(response, ended, pressed)'
  BY <1>1 DEF Told, MeantBy, Asks, Listing, DialogRows
<1>3. request # NoRequest /\ how # "no"
  BY DEF Open
<1> QED BY <1>1, <1>2, <1>3 DEF DialogInv, Asks, Listing, FormFields

\* While it is open nothing was told.
LEMMA EditSound ==
    ASSUME DialogInv, Open, UNCHANGED <<request, response, ended, pressed>>, pasted' \in BOOLEAN,
           form' = [focus |-> form'.focus, row |-> form'.row, text |-> form'.text, saved |-> form'.saved],
           form'.text \in DialogTexts, Len(FormFields) = 1 => form'.saved = form.saved,
           form'.focus \in 1..Len(FormFields), Asks \/ form'.row \in 1..4,
           Asks /\ Listing # <<>> /\ ~pasted' => "c" \notin ToSet(form'.text)
    PROVE  DialogInv'
<1>1. response = NoResponse /\ ended = "no" /\ request # NoRequest
  BY DEF Open, DialogInv
<1>2. ~NoResponse.approved /\ ~NoResponse.session
  BY DEF NoResponse, Silence
<1>3. Told(response, ended, pressed)'
  BY <1>1, <1>2 DEF Told
<1> QED BY <1>1, <1>3 DEF DialogInv, Asks, Listing, FormFields

\* Answers are no approvals.
LEMMA AnswersApproveNothing ==
    /\ ~Cancelled.approved /\ ~Cancelled.session
    /\ \A text : ~Says(text).approved /\ ~Says(text).session /\ Says(text).answer = text
    /\ \A text : ~Chosen(text).approved /\ ~Chosen(text).session
<1>1. ~Cancelled.approved /\ ~Cancelled.session
  BY DEF Cancelled, Silence
<1>2. \A text : ~Says(text).approved /\ ~Says(text).session /\ Says(text).answer = text
  BY DEF Says, Silence
<1> QED BY <1>1, <1>2 DEF Chosen

\* A letter or digit that types is a letter of the answer.
LEMMA TypeSound ==
    ASSUME DialogInv, Open, NEW text \in DialogTexts, TypeInto(text), pasted' \in BOOLEAN,
           Listing # <<>> /\ ~pasted' => ~pasted /\ "c" \notin ToSet(text)
    PROVE  DialogInv'
<1>1. /\ Focused \in {"custom", "answer"} /\ form' = [form EXCEPT !.text = @ \o text]
      /\ UNCHANGED <<request, response, ended, pressed>>
  BY DEF TypeInto
<1>2. Asks
  BY <1>1 DEF DialogInv, Focused, FormFields
<1>3. form' = [focus |-> form.focus, row |-> form.row, text |-> form.text \o text, saved |-> form.saved]
  BY <1>1 DEF DialogInv
<1>4. form.text \in DialogTexts /\ form'.text = form.text \o text /\ form'.text \in DialogTexts
  BY <1>3 DEF DialogInv, DialogTexts
<1>5. /\ form' = [focus |-> form'.focus, row |-> form'.row, text |-> form'.text, saved |-> form'.saved]
      /\ form'.focus \in 1..Len(FormFields) /\ form'.saved = form.saved
  BY <1>3 DEF DialogInv
<1>6. Asks /\ Listing # <<>> /\ ~pasted' => "c" \notin ToSet(form'.text)
  <2> SUFFICES ASSUME Listing # <<>>, ~pasted', "c" \in ToSet(form'.text)
               PROVE  FALSE
    OBVIOUS
  <2>1. PICK i \in DOMAIN form'.text : form'.text[i] = "c"
    BY DEF ToSet
  <2>2. "c" \notin ToSet(form.text) /\ "c" \notin ToSet(text)
    BY <1>2 DEF DialogInv
  <2>3. /\ \A j \in DOMAIN form.text : form.text[j] # "c"
        /\ \A j \in DOMAIN text : text[j] # "c"
    BY <2>2 DEF ToSet
  <2>4. \/ i \in DOMAIN form.text /\ form'.text[i] = form.text[i]
        \/ i - Len(form.text) \in DOMAIN text /\ form'.text[i] = text[i - Len(form.text)]
    BY <1>4, <2>1 DEF DialogTexts
  <2> QED BY <2>1, <2>3, <2>4
<1> QED BY <1>1, <1>2, <1>4, <1>5, <1>6, EditSound

-----------------------------------------------------------------------------
(* The keys of an open dialog.                                              *)

\* The nth of the four rows, however it was meant.
LEMMA ApprovedSound ==
    ASSUME ~Asks, NEW n \in 1..4, NEW how, NEW key, MeantBy(how, key) = n
    PROVE  Told(Approve(Approvals[n]), how, key)
<1> DEFINE choice == Approvals[n]
<1>1. /\ choice \in {"once", "session"} <=> n \in {1, 2}
      /\ choice = "session" <=> n = 2
      /\ choice = "cancel" <=> n = 4
  BY DEF Approvals
<1> DEFINE p == choice \in {"once", "session"}
<1> DEFINE q == choice = "session"
<1> DEFINE v == choice = "cancel"
<1>2. Approve(choice) = [cancelled |-> v, approved |-> p, session |-> q, answer |-> <<>>]
  BY DEF Approve
<1>3. p = (n \in {1, 2}) /\ q = (n = 2) /\ v = (n = 4)
  BY <1>1
<1> HIDE DEF choice, p, q, v
<1>4. Approve(choice).approved = p /\ Approve(choice).session = q /\ Approve(choice).cancelled = v
  BY <1>2
<1>5. Told(Approve(choice), how, key)
  BY <1>3, <1>4 DEF Told
<1> QED BY <1>5 DEF choice

\* A letter is a text.
LEMMA OneLetter ==
    ASSUME NEW c \in Keys \cup {"0"}
    PROVE  <<c>> \in DialogTexts
<1>1. ASSUME NEW S, NEW x \in S
      PROVE  <<x>> \in Seq(S)
  OBVIOUS
<1> QED BY <1>1 DEF DialogTexts

\* A letter: a shortcut, or a letter of the answer.
LEMMA LetterSound ==
    ASSUME DialogInv, Open, NEW c \in Keys, Letter(c)
    PROVE  DialogInv'
<1> DEFINE choice == CASE c = "y" -> "once" [] c = "a" -> "session" [] c = "n" -> "deny"
                    [] c = "c" -> "cancel" [] OTHER -> "none"
<1> DEFINE key == LetterKey(c)
<1>0. key.letter = c
  BY DEF LetterKey
<1>1. CASE ~Asks
  <2>1. choice # "none" /\ CompletedBy(Approve(choice), "letter", key)
    BY <1>1 DEF Letter
  <2> DEFINE n == CASE c = "y" -> 1 [] c = "a" -> 2 [] c = "n" -> 3 [] OTHER -> 4
  <2>2. n \in 1..4 /\ choice = Approvals[n]
    BY <2>1 DEF Approvals
  <2>3. MeantBy("letter", key) = n
    BY <1>0 DEF MeantBy
  <2> HIDE DEF choice, n, key
  <2>4. Told(Approve(choice), "letter", key)
    BY <1>1, <2>2, <2>3, ApprovedSound
  <2> QED BY <2>1, <2>4, CompletedSound
<1>2. CASE Asks /\ c = "c" /\ Listing # <<>>
  <2>1. CompletedBy(Cancelled, "letter", key)
    BY <1>2 DEF Letter
  <2>2. Told(Cancelled, "letter", key)
    BY <1>0, <1>2, AnswersApproveNothing DEF Told
  <2> HIDE DEF key
  <2> QED BY <2>1, <2>2, CompletedSound
<1>3. CASE Asks /\ ~(c = "c" /\ Listing # <<>>)
  <2>1. TypeInto(<<c>>) /\ UNCHANGED pasted
    BY <1>3 DEF Letter
  <2>2. <<c>> \in DialogTexts
    BY OneLetter
  <2>3. Listing # <<>> => "c" \notin ToSet(<<c>>)
    BY <1>3 DEF ToSet
  <2> QED BY <2>1, <2>2, <2>3, TypeSound DEF DialogInv
<1> QED BY <1>1, <1>2, <1>3

\* A digit: the number of a row, or a letter of the answer.
LEMMA DigitSound ==
    ASSUME DialogInv, Open, NEW n \in 0..4, Digit(n)
    PROVE  DialogInv'
<1> DEFINE key == DigitKey(n)
<1>0. key.digit = n /\ key.letter = ""
  BY DEF DigitKey
<1>1. CASE ~Asks
  <2>1. n \in 1..4 /\ CompletedBy(Approve(Approvals[n]), "digit", key)
    BY <1>1 DEF Digit
  <2>2. MeantBy("digit", key) = n
    BY <1>0 DEF MeantBy
  <2> HIDE DEF key
  <2>3. Told(Approve(Approvals[n]), "digit", key)
    BY <1>1, <2>1, <2>2, ApprovedSound
  <2> QED BY <2>1, <2>3, CompletedSound
<1>2. CASE Asks /\ Listing # <<>> /\ n \in 1..(Len(Listing) + 1)
  <2> DEFINE r == IF n = Len(Listing) + 1 THEN Cancelled ELSE Says(Listing[n])
  <2>1. CompletedBy(r, "digit", key)
    BY <1>2 DEF Digit
  <2>2. n = Len(Listing) + 1 <=> n \notin DOMAIN Listing
    <3>1. Listing \in Seq(ToSet(Listing))
      BY ListingTyped DEF DialogInv
    <3> HIDE DEF key
    <3> QED BY <1>2, <3>1
  <2>3. r = IF key.digit \in DOMAIN Listing THEN Says(Listing[key.digit]) ELSE Cancelled
    BY <1>0, <2>2
  <2>4. ~r.approved /\ ~r.session
    BY AnswersApproveNothing
  <2> HIDE DEF r, key
  <2>5. Told(r, "digit", key)
    BY <1>2, <2>3, <2>4 DEF Told
  <2> QED BY <2>1, <2>5, CompletedSound
<1>3. CASE Asks /\ ~(Listing # <<>> /\ n \in 1..(Len(Listing) + 1))
  <2>1. TypeInto(<<"0">>) /\ UNCHANGED pasted
    BY <1>3 DEF Digit
  <2>2. <<"0">> \in DialogTexts /\ "c" \notin ToSet(<<"0">>)
    <3>1. ToSet(<<"0">>) = {"0"}
      BY DEF ToSet
    <3> QED BY <3>1, OneLetter
  <2> QED BY <2>1, <2>2, TypeSound DEF DialogInv
<1> QED BY <1>1, <1>2, <1>3

\* Enter answers with the field in focus.
LEMMA EnterSound ==
    ASSUME DialogInv, Open, PressEnter
    PROVE  DialogInv'
<1>1. CASE Focused = "approval"
  <2>1. ~Asks /\ form.row \in 1..4
    BY <1>1 DEF DialogInv, Focused, FormFields
  <2>2. CompletedBy(Approve(Approvals[form.row]), "row", NoKey)
    BY <1>1 DEF PressEnter, Completed
  <2>3. MeantBy("row", NoKey) = form.row
    BY DEF MeantBy, NoKey, DigitKey
  <2>4. Told(Approve(Approvals[form.row]), "row", NoKey)
    BY <2>1, <2>3, ApprovedSound
  <2> QED BY <2>2, <2>4, CompletedSound
<1>2. CASE Focused = "choice"
  <2> DEFINE x == IF AllowCustom(request.args) THEN Selection ELSE DialogRows[form.row]
  <2>1. CompletedBy(Chosen(x), "row", NoKey)
    BY <1>2 DEF PressEnter, Completed
  <2>2. Asks
    BY <1>2 DEF DialogInv, Focused, FormFields
  <2>3. x = IF form.saved = <<>> THEN DialogRows[form.row] ELSE form.saved
    <3>1. CASE AllowCustom(request.args)
      BY <3>1 DEF Selection
    <3>2. CASE ~AllowCustom(request.args)
      <4>1. Len(FormFields) = 1
        BY <2>2, <3>2 DEF FormFields
      <4> QED BY <3>2, <4>1 DEF DialogInv
    <3> QED BY <3>1, <3>2
  <2> HIDE DEF x
  <2>4. Told(Chosen(x), "row", NoKey)
    BY <2>2, <2>3, AnswersApproveNothing DEF Told
  <2> QED BY <2>1, <2>4, CompletedSound
<1>3. CASE Focused \notin {"approval", "choice"}
  <2> DEFINE r == FormAnswer(form.saved, form.text)
  <2>1. CompletedBy(r, "text", NoKey)
    BY <1>3 DEF PressEnter, Completed
  <2>2. Asks
    BY <1>3 DEF DialogInv, Focused, FormFields
  <2>3. /\ form.saved = CancelChoice => r = Cancelled
        /\ form.saved # CancelChoice /\ form.text # <<>> => r = Says(form.text)
        /\ form.saved # CancelChoice /\ form.text = <<>> => r = Says(form.saved)
    BY DEF FormAnswer
  <2> HIDE DEF r
  <2>4. ~r.approved /\ ~r.session
    BY <2>3, AnswersApproveNothing
  <2>5. Told(r, "text", NoKey)
    BY <2>2, <2>3, <2>4 DEF Told, Chosen
  <2> QED BY <2>1, <2>5, CompletedSound
<1> QED BY <1>1, <1>2, <1>3

\* The list and the focus.
LEMMA FocusSound ==
    ASSUME DialogInv, Open, Tab \/ ShiftTab \/ \E r \in 0..4 : MoveRow(r)
    PROVE  DialogInv'
<1>1. UNCHANGED <<request, response, ended, pressed, pasted>>
  BY DEF Tab, ShiftTab, MoveRow
<1>2. form = [focus |-> form.focus, row |-> form.row, text |-> form.text, saved |-> form.saved]
  BY DEF DialogInv
<1>3. /\ form' = [focus |-> form'.focus, row |-> form'.row, text |-> form'.text, saved |-> form'.saved]
      /\ form'.text = form.text /\ (Len(FormFields) = 1 => form'.saved = form.saved)
      /\ form'.focus \in 1..Len(FormFields) /\ (Asks \/ form'.row \in 1..4)
  <2>1. CASE Tab
    <3>1. form' = [form EXCEPT !.focus = @ + 1, !.saved = DialogRows[form.row]] /\ form.focus < Len(FormFields)
      BY <2>1 DEF Tab
    <3>2. form' = [focus |-> form.focus + 1, row |-> form.row, text |-> form.text,
                   saved |-> DialogRows[form.row]]
      BY <1>2, <3>1
    <3>3. Asks
      BY <3>1 DEF FormFields, DialogInv
    <3>4. form.focus \in Int /\ Len(FormFields) \in Int
      BY DEF FormFields, DialogInv
    <3>5. form.focus + 1 \in 1..Len(FormFields)
      BY <3>1, <3>4 DEF DialogInv
    <3>6. Len(FormFields) # 1
      <4>1. form.focus >= 1 /\ form.focus < Len(FormFields)
        BY <3>1, <3>4 DEF DialogInv
      <4> DEFINE n == Len(FormFields)
      <4> DEFINE f == form.focus
      <4>2. n \in Int /\ f \in Int /\ f >= 1 /\ f < n
        BY <3>4, <4>1
      <4> HIDE DEF n, f
      <4>3. n # 1
        BY <4>2
      <4> QED BY <4>3 DEF n
    <3> QED BY <3>2, <3>3, <3>5, <3>6
  <2>2. CASE ShiftTab
    <3>1. form' = [form EXCEPT !.focus = @ - 1] /\ form.focus > 1
      BY <2>2 DEF ShiftTab
    <3>2. form' = [focus |-> form.focus - 1, row |-> form.row, text |-> form.text, saved |-> form.saved]
      BY <1>2, <3>1
    <3>3. Asks
      BY <3>1 DEF DialogInv, FormFields
    <3>4. form.focus \in Int /\ Len(FormFields) \in Int
      BY DEF FormFields, DialogInv
    <3> QED BY <3>1, <3>2, <3>3, <3>4 DEF DialogInv
  <2>3. CASE \E r \in 0..4 : MoveRow(r)
    <3>1. PICK r \in 0..4 : MoveRow(r)
      BY <2>3
    <3>2. form' = [form EXCEPT !.row = r] /\ r \in 1..(IF Asks THEN Len(DialogRows) ELSE 4)
      BY <3>1 DEF MoveRow
    <3>3. form' = [focus |-> form.focus, row |-> r, text |-> form.text, saved |-> form.saved]
      BY <1>2, <3>2
    <3>4. Asks \/ r \in 1..4
      BY <3>2
    <3>5. form.focus \in 1..Len(FormFields)
      BY DEF DialogInv
    <3> QED BY <3>3, <3>4, <3>5
  <2> QED BY <2>1, <2>2, <2>3 DEF DialogInv
<1>4. form'.text \in DialogTexts /\ (Asks /\ Listing # <<>> /\ ~pasted' => "c" \notin ToSet(form'.text))
  BY <1>1, <1>3 DEF DialogInv
<1>5. pasted' \in BOOLEAN
  BY <1>1 DEF DialogInv
<1> QED BY <1>1, <1>3, <1>4, <1>5, EditSound

-----------------------------------------------------------------------------
\* The agent is told what the key, the row or the text means, whatever the options,
\* the answers and the arguments are.  A choice saved before counts before the row
\* on screen, a saved Cancel before the text, the form's own way out cancels, and a
\* description may be cut without a mark.
\* (askuser.go, approval.go, forms.go, shortcut.go)
THEOREM ToldWhatWasChosen == DialogSpec => []ToldAsChosen
<1>1. DialogInit => DialogInv
  <2> SUFFICES ASSUME DialogInit PROVE DialogInv
    OBVIOUS
  <2>1. ~Asks /\ form = FirstForm
    BY DEF DialogInit, Asks, NoRequest, FirstForm
  <2>2. form.row = 1 /\ form.focus = 1 /\ form.text = <<>>
    BY <2>1 DEF FirstForm
  <2>3. <<>> \in DialogTexts
    BY DEF DialogTexts
  <2>4. ~NoResponse.approved /\ ~NoResponse.session
    BY DEF NoResponse, Silence
  <2>5. Told(response, ended, pressed)
    BY <2>1, <2>4 DEF DialogInit, Told
  <2>6. form = [focus |-> form.focus, row |-> form.row, text |-> form.text, saved |-> form.saved]
    BY <2>1 DEF FirstForm
  <2>7. request = NoRequest /\ ended = "no" /\ response = NoResponse /\ pasted = FALSE
    BY DEF DialogInit
  <2>8. Len(FormFields) = 1 /\ form.saved = <<>>
    BY <2>1 DEF FormFields, FirstForm
  <2>9. NoRequest \in Requests
    BY DEF Requests
  <2>10. form.focus \in 1..Len(FormFields)
    BY <2>2, <2>8
  <2>11. Asks \/ form.row \in 1..4
    BY <2>2
  <2>12. form.text \in DialogTexts /\ pasted \in BOOLEAN
    BY <2>2, <2>3, <2>7
  <2>13. Asks /\ Listing # <<>> /\ ~pasted => "c" \notin ToSet(form.text)
    BY <2>1
  <2>14. request \in Requests
    BY <2>7, <2>9
  <2> QED BY <2>1, <2>5, <2>6, <2>7, <2>8, <2>10, <2>11, <2>12, <2>13, <2>14, Zenon DEF DialogInv
<1>2. DialogInv /\ [DialogNext]_dialogVars => DialogInv'
  <2> SUFFICES ASSUME DialogInv, [DialogNext]_dialogVars PROVE DialogInv'
    OBVIOUS
  <2>1. CASE UNCHANGED dialogVars
    <3>1. UNCHANGED <<request, form, response, ended, pressed, pasted>>
      BY <2>1 DEF dialogVars
    <3>2. Told(response, ended, pressed)'
      BY <3>1 DEF DialogInv, Told, MeantBy, Asks, Listing, DialogRows
    <3>3. Asks' = Asks /\ Listing' = Listing /\ FormFields' = FormFields
      BY <3>1 DEF Asks, Listing, FormFields
    <3> QED BY <3>1, <3>2, <3>3 DEF DialogInv
  <2>2. CASE Offer
    <3>1. request' \in Requests /\ request = NoRequest
          /\ UNCHANGED <<form, response, ended, pressed, pasted>>
      BY <2>2 DEF Offer, Requests
    <3>2. form = FirstForm /\ ended = "no" /\ response = NoResponse
      BY <3>1 DEF DialogInv
    <3>3. form.row = 1 /\ form.focus = 1 /\ form.text = <<>> /\ ToSet(form.text) = {}
          /\ form.saved = <<>>
      BY <3>2 DEF FirstForm, ToSet
    <3>4. ~NoResponse.approved /\ ~NoResponse.session
      BY DEF NoResponse, Silence
    <3>5. Told(response, ended, pressed)'
      BY <3>1, <3>2, <3>4 DEF Told
    <3>6. form.focus \in 1..Len(FormFields')
      BY <3>3 DEF FormFields
    <3> QED BY <3>1, <3>2, <3>3, <3>5, <3>6 DEF DialogInv
  <2>3. CASE Open /\ \E c \in Keys : Letter(c)
    BY <2>3, LetterSound
  <2>4. CASE Open /\ \E n \in 0..4 : Digit(n)
    BY <2>4, DigitSound
  <2>5. CASE Open /\ \E text \in Pastes : PasteAnswer(text)
    <3>1. PICK text \in Pastes : TypeInto(text) /\ pasted' = TRUE
      BY <2>5 DEF PasteAnswer
    <3>2. text \in DialogTexts
      BY DialogConstants
    <3> QED BY <2>5, <3>1, <3>2, TypeSound
  <2>6. CASE Open /\ (Tab \/ ShiftTab \/ \E n \in 0..4 : MoveRow(n))
    BY <2>6, FocusSound
  <2>7. CASE Open /\ PressEnter
    BY <2>7, EnterSound
  <2>8. CASE Open /\ Abort
    <3>1. CASE Asks
      <4>1. Told(Cancelled, "abort", NoKey)
        BY <3>1, AnswersApproveNothing DEF Told
      <4> QED BY <2>8, <4>1, CompletedSound DEF Abort, Completed
    <3>2. CASE ~Asks
      <4>1. MeantBy("abort", NoKey) = 4
        BY DEF MeantBy, NoKey, DigitKey
      <4>2. Cancelled.approved = FALSE /\ Cancelled.session = FALSE /\ Cancelled.cancelled = TRUE
        BY DEF Cancelled, Silence
      <4>3. (4 \in {1, 2}) = FALSE /\ (4 = 2) = FALSE /\ (4 = 4) = TRUE
        OBVIOUS
      <4>4. Told(Cancelled, "abort", NoKey)
        BY <3>2, <4>1, <4>2, <4>3 DEF Told
      <4> QED BY <2>8, <4>4, CompletedSound DEF Abort, Completed
    <3> QED BY <3>1, <3>2
  <2> QED BY <2>1, <2>2, <2>3, <2>4, <2>5, <2>6, <2>7, <2>8 DEF DialogNext
<1>3. DialogInv => ToldAsChosen
  <2> SUFFICES ASSUME DialogInv PROVE ToldAsChosen
    OBVIOUS
  <2>1. OptionsFound /\ DescriptionHonest
    BY EveryOptionFound, DescriptionKept DEF DialogInv
  <2>2. OnlyAsAsked /\ AnswerAsMeant
    BY DEF DialogInv, Told, MeantBy, RowMeant, OnlyAsAsked, AnswerAsMeant
  <2> QED BY <2>1, <2>2 DEF ToldAsChosen
<1> QED BY <1>1, <1>2, <1>3, PTL DEF DialogSpec
-----------------------------------------------------------------------------
(***************************************************************************)
(* For any banner, height and number of blocks: lines, rows, clicks and    *)
(* the thumb of the scrolled list fit each other.                          *)
(***************************************************************************)

ListBlocks == [kind : {"user", "ai"}, rows : Nat, folds : BOOLEAN]

ViewportInv ==
    /\ blocks \in Seq(ListBlocks) /\ height \in Heights
    /\ offset \in 0 .. LastOffset(blocks, height)

\* The rows of a list of blocks are a number.
LEMMA RowsCounted ==
    ASSUME NEW bs \in Seq(ListBlocks)
    PROVE  Total(bs) \in Nat
<1> DEFINE last == Len(bs)
           Def(f) == f = [n \in 0 .. Len(bs) |-> IF n = 0 THEN 0 ELSE f[n - 1] + bs[n].rows + 1]
           sum == CHOOSE f : Def(f)
           step == [n \in 1 .. Len(bs) |-> [s \in Nat |-> s + bs[n].rows + 1]]
<1>1. last \in Nat /\ \A n \in 1 .. Len(bs) : bs[n].rows \in Nat
  <2>1. Len(bs) \in Nat /\ \A n \in 1 .. Len(bs) : bs[n] \in ListBlocks
    OBVIOUS
  <2> QED BY <2>1 DEF ListBlocks
<1>2. step \in [1 .. last -> [Nat -> Nat]]
  BY <1>1
<1>3. PICK f : Follows(f, last, Nat, 0, step)
  <2> HIDE DEF step, last
  <2> QED BY <1>1, <1>2, Recursion
<1>4. Def(f)
  <2>1. /\ f \in [0 .. Len(bs) -> Nat] /\ f[0] = 0
        /\ \A n \in 1 .. Len(bs) : f[n] = step[n][f[n - 1]]
    BY <1>3 DEF Follows
  <2>2. ASSUME NEW n \in 1 .. Len(bs) PROVE f[n] = f[n - 1] + bs[n].rows + 1
    <3>1. n - 1 \in 0 .. Len(bs)
      BY <1>1
    <3>2. f[n - 1] \in Nat
      BY <2>1, <3>1
    <3> QED BY <2>1, <3>2
  <2>3. \A n \in 0 .. Len(bs) : n = 0 \/ n \in 1 .. Len(bs)
    BY <1>1
  <2>4. ASSUME NEW n \in 0 .. Len(bs)
        PROVE  f[n] = IF n = 0 THEN 0 ELSE f[n - 1] + bs[n].rows + 1
    <3>1. CASE n = 0
      BY <2>1, <3>1
    <3>2. CASE n # 0
      BY <2>2, <2>3, <3>2, Zenon
    <3> QED BY <3>1, <3>2
  <2>5. f = [n \in 0 .. Len(bs) |-> f[n]]
    BY <2>1
  <2> HIDE DEF step
  <2> QED BY <2>4, <2>5
<1>5. Def(sum)
  <2> HIDE DEF Def
  <2> QED BY <1>4
<1>6. Total(bs) = Banner + sum[Len(bs)]
  BY DEF Total, RowsOf
<1> HIDE DEF sum
<1> DEFINE T == {n \in 0 .. last : sum[n] \in Nat}
<1>7. \A n \in 0 .. last : sum[n] = IF n = 0 THEN 0 ELSE sum[n - 1] + bs[n].rows + 1
  BY <1>5
<1>8. 0 \in T /\ \A n \in 1 .. last : n - 1 \in T => n \in T
  <2>1. 0 \in T
    BY <1>1, <1>7
  <2>2. ASSUME NEW n \in 1 .. last, sum[n - 1] \in Nat PROVE n \in T
    <3>1. n \in 0 .. last /\ n # 0 /\ bs[n].rows \in Nat
      BY <1>1
    <3>2. sum[n] = sum[n - 1] + bs[n].rows + 1
      BY <1>7, <3>1, Zenon
    <3> QED BY <2>2, <3>1, <3>2
  <2> QED BY <2>1, <2>2
<1>9. \A n \in 0 .. last : n \in T
  <2> HIDE DEF T, last
  <2> QED BY <1>1, <1>8, Induction
<1>10. sum[Len(bs)] \in Nat
  BY <1>1, <1>9
<1> QED BY <1>6, <1>10, ViewportConstants

\* How many lines are visible, and whether a prompt takes some.
LEMMA VisibleLines ==
    ASSUME height \in Nat \ {0}, NEW top
    PROVE  /\ StickyHeight(top) \in {0, StickyRows} /\ StickyHeight(top) \in Nat
           /\ StickyHeight(top) = 0 <=> Sticky(top) = 0
           /\ Visible(top) \in Nat \ {0} /\ Visible(top) <= height
           /\ Visible(top) >= height - StickyRows
           /\ height > StickyHeight(top) => Visible(top) = height - StickyHeight(top)
BY ViewportConstants DEF StickyHeight, Visible, Larger

\* The last page starts somewhere.
LEMMA LastPage ==
    ASSUME Total(blocks) \in Nat, height \in Nat \ {0}, Scrollable
    PROVE  TopForBottom \in Nat
<1> DEFINE again(x) == Larger(Total(blocks) - Visible(x), 0)
           first == Total(blocks) - height
           Def(f) == f = [n \in 0 .. 8 |-> IF n = 0 THEN first ELSE again(f[n - 1])]
           try == CHOOSE f : Def(f)
           step == [n \in 1 .. 8 |-> [x \in Nat |-> again(x)]]
<1>1. first \in Nat /\ 8 \in Nat
  BY DEF Scrollable
<1>2. \A x : again(x) \in Nat
  BY VisibleLines DEF Larger
<1>3. TopForBottom = try[8]
  BY DEF TopForBottom
<1> HIDE DEF again, first
<1>4. step \in [1 .. 8 -> [Nat -> Nat]]
  BY <1>2
<1>5. PICK f : Follows(f, 8, Nat, first, step)
  <2> HIDE DEF step
  <2> QED BY <1>1, <1>4, Recursion
<1>6. Def(f)
  <2>1. /\ f \in [0 .. 8 -> Nat] /\ f[0] = first
        /\ \A n \in 1 .. 8 : f[n] = step[n][f[n - 1]]
    BY <1>5 DEF Follows
  <2>2. ASSUME NEW n \in 1 .. 8 PROVE f[n] = again(f[n - 1])
    <3>1. f[n - 1] \in Nat
      BY <2>1
    <3> QED BY <2>1, <3>1
  <2>3. \A n \in 0 .. 8 : n = 0 \/ n \in 1 .. 8
    OBVIOUS
  <2>4. ASSUME NEW n \in 0 .. 8 PROVE f[n] = IF n = 0 THEN first ELSE again(f[n - 1])
    <3>1. CASE n = 0
      BY <2>1, <3>1
    <3>2. CASE n # 0
      BY <2>2, <2>3, <3>2, Zenon
    <3> QED BY <3>1, <3>2
  <2>5. f = [n \in 0 .. 8 |-> f[n]]
    BY <2>1
  <2> HIDE DEF step
  <2> QED BY <2>4, <2>5
<1>7. Def(try)
  <2> HIDE DEF Def
  <2> QED BY <1>6
<1> HIDE DEF try
<1>8. try[8] = again(try[7])
  BY <1>7
<1> QED BY <1>2, <1>3, <1>8

\* Rounding down keeps a bound, and undoes a multiplication.
LEMMA Quotient ==
    ASSUME NEW d \in Nat \ {0}, NEW a \in Nat, NEW b \in Nat, a <= d * b
    PROVE  a \div d \in Nat /\ a \div d <= b /\ (a = d * b => a \div d = b)
OBVIOUS

\* Where the list is: everything the parts of ViewMapped are about.
LEMMA ViewFacts ==
    ASSUME ViewportInv
    PROVE  /\ height \in Nat \ {0} /\ Total(blocks) \in Nat /\ offset \in Nat
           /\ Scrollable => /\ LastOffset(blocks, height) = Total(blocks) - height
                            /\ LastOffset(blocks, height) \in Nat \ {0}
                            /\ offset <= LastOffset(blocks, height)
                            /\ Total(blocks) > height /\ TopForBottom \in Nat
<1>1. height \in Nat \ {0} /\ Total(blocks) \in Nat
  BY RowsCounted, ViewportConstants DEF ViewportInv
<1>2. offset \in 0 .. LastOffset(blocks, height)
  BY DEF ViewportInv
<1>3. LastOffset(blocks, height) \in Nat
  BY <1>1 DEF LastOffset, Larger
<1>4. Scrollable => TopForBottom \in Nat
  BY <1>1, LastPage
<1> QED BY <1>1, <1>2, <1>3, <1>4 DEF LastOffset, Larger, Scrollable

\* Every line can be brought onto the screen.
LEMMA AllShown ==
    ASSUME ViewportInv, Scrollable, Settled, height > 2 * StickyRows
    PROVE  UNION {Shown(at) : at \in 0 .. LastOffset(blocks, height)} = 0 .. Total(blocks) - 1
<1> DEFINE last == LastOffset(blocks, height)
           lines == Total(blocks)
<1>1. /\ height \in Nat \ {0} /\ lines \in Nat /\ last = lines - height /\ last \in Nat \ {0}
      /\ lines > height /\ TopForBottom \in Nat /\ StickyRows \in Nat \ {0}
  BY ViewFacts, ViewportConstants
<1>2. ASSUME NEW at \in 0 .. last
      PROVE  BodyTop(at) \in Nat /\ (at < last => BodyTop(at) = at)
  BY <1>1 DEF BodyTop
<1>3. BodyTop(last) = TopForBottom
  BY <1>1 DEF BodyTop
<1>4. \A at, l : l \in Shown(at) <=> /\ l \in BodyTop(at) .. BodyTop(at) + Visible(BodyTop(at)) - 1
                                     /\ l < lines
  BY DEF Shown
<1>5. \A x : /\ Visible(x) \in Nat \ {0} /\ Visible(x) >= height - StickyRows
             /\ Visible(x) \in {height, height - StickyRows}
  <2> SUFFICES ASSUME NEW x PROVE /\ Visible(x) \in Nat \ {0} /\ Visible(x) >= height - StickyRows
                                  /\ Visible(x) \in {height, height - StickyRows}
    OBVIOUS
  <2> QED BY <1>1, VisibleLines
<1>6. TopForBottom = lines - Visible(TopForBottom)
  BY <1>1, <1>5 DEF Settled
<1>7. TopForBottom = last \/ TopForBottom = last + StickyRows
  BY <1>1, <1>5, <1>6
<1> HIDE DEF last, lines
<1>8. ASSUME NEW at \in 0 .. last, NEW l \in Shown(at) PROVE l \in 0 .. lines - 1
  BY <1>1, <1>2, <1>4, <1>5
<1>9. ASSUME NEW l \in 0 .. lines - 1 PROVE \E at \in 0 .. last : l \in Shown(at)
  <2>1. CASE l < last
    <3>1. l \in 0 .. last /\ BodyTop(l) = l /\ l \in Int
      BY <1>1, <1>2, <2>1
    <3>2. l \in BodyTop(l) .. BodyTop(l) + Visible(BodyTop(l)) - 1
      BY <1>5, <3>1
    <3> QED BY <1>4, <1>9, <1>1, <3>1, <3>2
  <2>2. CASE l >= TopForBottom
    <3>1. l <= TopForBottom + Visible(TopForBottom) - 1
      BY <1>1, <1>5, <1>6
    <3>2. l \in BodyTop(last) .. BodyTop(last) + Visible(BodyTop(last)) - 1 /\ l < lines
      BY <1>1, <1>3, <1>5, <2>2, <3>1
    <3>3. last \in 0 .. last
      BY <1>1
    <3> QED BY <1>4, <3>2, <3>3
  <2>3. CASE l >= last /\ l < TopForBottom
    <3>1. TopForBottom = last + StickyRows
      BY <1>1, <1>7, <2>3
    <3>2. last - 1 \in 0 .. last /\ BodyTop(last - 1) = last - 1
      BY <1>1, <1>2
    <3>3. Visible(last - 1) \in Nat /\ Visible(last - 1) > StickyRows
      BY <1>1, <1>5
    <3>4. l \in last - 1 .. last - 1 + Visible(last - 1) - 1
      BY <1>1, <2>3, <3>1, <3>3
    <3>5. l < lines
      BY <1>1
    <3> QED BY <1>4, <3>2, <3>4, <3>5
  <2> QED BY <1>1, <2>1, <2>2, <2>3
<1>10. UNION {Shown(at) : at \in 0 .. last} = 0 .. lines - 1
  BY <1>8, <1>9
<1> QED BY <1>10 DEF last, lines

\* A row of the screen and the line painted on it.
LEMMA RowsAndLines ==
    ASSUME ViewportInv, Scrollable, NEW line \in Shown(offset)
    PROVE  LineAt(RowOf(line)) = line /\ (height > StickyRows => RowOf(line) < height)
<1> DEFINE top == BodyTop(offset)
<1>1. height \in Nat \ {0} /\ top \in Nat /\ StickyRows \in Nat
  BY ViewFacts, ViewportConstants DEF BodyTop
<1>2. line \in top .. top + Visible(top) - 1
  BY DEF Shown
<1>3. RowOf(line) = line - top + StickyHeight(top)
  BY DEF RowOf
<1>4. \A y : LineAt(y) = IF y < StickyHeight(top) THEN -1 ELSE y - StickyHeight(top) + top
  BY DEF LineAt
<1>5. /\ StickyHeight(top) \in {0, StickyRows} /\ Visible(top) \in Nat
      /\ height > StickyHeight(top) => Visible(top) = height - StickyHeight(top)
  BY <1>1, VisibleLines
<1> HIDE DEF top
<1>6. line \in Int /\ RowOf(line) \in Int /\ RowOf(line) >= StickyHeight(top)
  BY <1>1, <1>2, <1>3, <1>5
<1>7. LineAt(RowOf(line)) = line
  BY <1>1, <1>3, <1>4, <1>5, <1>6
<1>8. height > StickyRows => RowOf(line) < height
  BY <1>1, <1>2, <1>3, <1>5
<1> QED BY <1>7, <1>8

\* A click before the last page.
LEMMA ClickMeetsLine ==
    ASSUME ViewportInv, Scrollable, offset < LastOffset(blocks, height),
           NEW y \in 0 .. height - 1, NEW i \in Clicked(y)
    PROVE  IF LineAt(y) = -1 THEN i = Sticky(BodyTop(offset)) ELSE i \in BlockAt(LineAt(y))
<1>1. height \in Nat \ {0} /\ offset \in Nat /\ LastOffset(blocks, height) \in Nat
  BY ViewFacts
<1>2. BodyTop(offset) = offset
  BY <1>1 DEF BodyTop
<1>3. LineAt(y) = IF y < StickyHeight(offset) THEN -1 ELSE y - StickyHeight(offset) + offset
  BY <1>2 DEF LineAt
<1>4. CASE Sticky(offset) # 0 /\ y < StickyRows
  BY <1>2, <1>3, <1>4 DEF Clicked, StickyHeight
<1>5. CASE ~(Sticky(offset) # 0 /\ y < StickyRows)
  <2>1. ~(y < StickyHeight(offset)) /\ StickyHeight(offset) \in Nat /\ y \in Nat
    BY <1>1, <1>5, VisibleLines DEF StickyHeight
  <2>2. LineAt(y) # -1
    BY <1>1, <1>3, <2>1
  <2> QED BY <1>5, <2>2 DEF Clicked
<1> QED BY <1>4, <1>5

\* The thumb of the scrollbar.
LEMMA ThumbFits ==
    ASSUME ViewportInv, Scrollable
    PROVE  /\ Thumb.start >= 0 /\ Thumb.start + Thumb.size <= height
           /\ offset = 0 => Thumb.start = 0
           /\ offset = LastOffset(blocks, height) => Thumb.start + Thumb.size = height
<1> DEFINE h == height
           lines == Total(blocks)
           size == Larger(1, (h * h) \div lines)
           last == lines - h
           room == h - size
<1>1. /\ h \in Nat \ {0} /\ lines \in Nat /\ lines > h /\ last \in Nat \ {0}
      /\ offset \in Nat /\ offset <= last /\ LastOffset(blocks, h) = last
  BY ViewFacts
<1>2. Thumb = [size |-> size, start |-> (offset * room) \div last]
  <2>1. ~(offset > last)
    BY <1>1
  <2> QED BY <2>1 DEF Thumb
<1> HIDE DEF h, lines
<1>3. (h * h) \div lines \in Nat /\ (h * h) \div lines <= h
  <2>1. h * h \in Nat /\ h * h <= lines * h
    BY <1>1
  <2>2. lines \in Nat \ {0}
    BY <1>1
  <2> QED BY <1>1, <2>1, <2>2, Quotient
<1>4. size \in Nat /\ size >= 1 /\ size <= h /\ room \in Nat
  BY <1>1, <1>3 DEF Larger
<1> HIDE DEF size, last
<1>5. room \in Nat /\ size + room = h
  BY <1>1, <1>4
<1> HIDE DEF room
<1>6. offset * room \in Nat /\ offset * room <= last * room
  BY <1>1, <1>5
<1>7. /\ (offset * room) \div last \in Nat /\ (offset * room) \div last <= room
      /\ offset = last => (offset * room) \div last = room
  <2>1. offset = last => offset * room = last * room
    OBVIOUS
  <2> QED BY <1>1, <1>5, <1>6, <2>1, Quotient
<1>8. offset = 0 => (offset * room) \div last = 0
  BY <1>1, <1>5
<1>9. Thumb.start \in Nat /\ Thumb.start <= room /\ Thumb.size = size
  BY <1>2, <1>7
<1>10. /\ Thumb.start >= 0 /\ Thumb.start + Thumb.size <= h
       /\ offset = 0 => Thumb.start = 0
       /\ offset = last => Thumb.start + Thumb.size = h
  BY <1>1, <1>2, <1>4, <1>5, <1>7, <1>8, <1>9
<1> QED BY <1>1, <1>10 DEF h

\* A layout leaves the offset within its bounds.
LEMMA LaidWithin ==
    ASSUME ViewportInv, NEW bs \in Seq(ListBlocks), NEW h \in Heights, NEW follow \in BOOLEAN,
           Laid(bs, h, follow)
    PROVE  ViewportInv'
<1>1. Total(bs) \in Nat /\ h \in Nat /\ offset \in Nat
  BY RowsCounted, ViewFacts, ViewportConstants
<1>2. LastOffset(bs, h) \in Nat
  BY <1>1 DEF LastOffset, Larger
<1>3. blocks' = bs /\ height' = h /\ offset' \in 0 .. LastOffset(bs, h)
  BY <1>1, <1>2 DEF Laid
<1>4. LastOffset(blocks', height') = LastOffset(bs, h)
  BY <1>3
<1> QED BY <1>3, <1>4 DEF ViewportInv

\* Wherever the list is scrolled to, at any height and with any blocks: the lines that are
\* painted, the rows that are clicked and the thumb belong together (sticky_user.go,
\* collapsible_hit.go, scrollbar.go).  That every line can be reached is said only of
\* viewports higher than twice the sticky rows whose last page settles, and that a
\* click folds the message on its row only before the last page.
THEOREM ViewStaysMapped == ViewportSpec => []ViewMapped
<1>1. ViewportInit => ViewportInv
  <2> SUFFICES ASSUME ViewportInit PROVE ViewportInv
    OBVIOUS
  <2>1. blocks \in Seq(ListBlocks) /\ height \in Heights /\ offset = 0
    BY ViewportConstants DEF ViewportInit
  <2>2. LastOffset(blocks, height) \in Nat
    BY <2>1, RowsCounted, ViewportConstants DEF LastOffset, Larger
  <2> QED BY <2>1, <2>2 DEF ViewportInv
<1>2. ViewportInv /\ [ViewportNext]_viewportVars => ViewportInv'
  <2> SUFFICES ASSUME ViewportInv, [ViewportNext]_viewportVars PROVE ViewportInv'
    OBVIOUS
  <2>0. blocks \in Seq(ListBlocks) /\ height \in Heights
    BY DEF ViewportInv
  <2>1. CASE AddPrompt
    <3>1. PICK p \in Prompts : Laid(Append(blocks, p), height, TRUE)
      BY <2>1 DEF AddPrompt
    <3>2. p \in ListBlocks
      <4>1. {"user"} \subseteq {"user", "ai"} /\ {3} \subseteq Nat /\ {4, 5} \subseteq Nat
            /\ {FALSE} \subseteq BOOLEAN /\ {TRUE} \subseteq BOOLEAN
        OBVIOUS
      <4>2. \A K, R, F : K \subseteq {"user", "ai"} /\ R \subseteq Nat /\ F \subseteq BOOLEAN =>
              [kind : K, rows : R, folds : F] \subseteq ListBlocks
        BY DEF ListBlocks
      <4> QED BY <4>1, <4>2, Zenon DEF Prompts
    <3>3. Append(blocks, p) \in Seq(ListBlocks)
      BY <2>0, <3>2
    <3> QED BY <2>0, <3>1, <3>3, LaidWithin
  <2>2. CASE AddBlock
    <3> DEFINE b == [kind |-> "ai", rows |-> 1, folds |-> FALSE]
    <3>1. Laid(Append(blocks, b), height, FALSE)
      BY <2>2 DEF AddBlock
    <3>2. b \in ListBlocks
      BY DEF ListBlocks
    <3> HIDE DEF b
    <3>3. Append(blocks, b) \in Seq(ListBlocks)
      BY <2>0, <3>2
    <3> QED BY <2>0, <3>1, <3>3, LaidWithin
  <2>3. ASSUME NEW n \in DOMAIN blocks, NEW r \in Nat
        PROVE  [blocks EXCEPT ![n].rows = r] \in Seq(ListBlocks)
    <3> DEFINE b == [blocks[n] EXCEPT !.rows = r]
    <3>1. blocks[n] \in ListBlocks
      BY <2>0
    <3>2. b \in ListBlocks
      BY <2>3, <3>1 DEF ListBlocks
    <3>3. [blocks EXCEPT ![n].rows = r] = [blocks EXCEPT ![n] = b]
      OBVIOUS
    <3> HIDE DEF b
    <3> QED BY <2>0, <3>2, <3>3
  <2>4. CASE GrowBlock
    <3> DEFINE n == Len(blocks)
               r == blocks[n].rows + 1
    <3>1. Laid([blocks EXCEPT ![n].rows = r], height, FALSE)
      BY <2>4 DEF GrowBlock
    <3>2. n \in DOMAIN blocks
      BY <2>0, <2>4 DEF GrowBlock
    <3>3. r \in Nat
      <4>1. blocks[n] \in ListBlocks
        BY <2>0, <3>2
      <4> QED BY <4>1 DEF ListBlocks
    <3> HIDE DEF n, r
    <3>4. [blocks EXCEPT ![n].rows = r] \in Seq(ListBlocks)
      BY <2>3, <3>2, <3>3
    <3> QED BY <2>0, <3>1, <3>4, LaidWithin
  <2>5. ASSUME NEW i \in 1 .. MaxBlocks, Fold(i) PROVE ViewportInv'
    <3> DEFINE r == IF blocks[i].rows = 4 THEN 5 ELSE 4
    <3>1. Laid([blocks EXCEPT ![i].rows = r], height, FALSE) /\ i \in DOMAIN blocks
      BY <2>5 DEF Fold
    <3>2. r \in Nat
      OBVIOUS
    <3> HIDE DEF r
    <3>3. [blocks EXCEPT ![i].rows = r] \in Seq(ListBlocks)
      BY <2>3, <3>1, <3>2
    <3> QED BY <2>0, <3>1, <3>3, LaidWithin
  <2>6. ASSUME NEW h \in Heights, ChangeHeight(h) PROVE ViewportInv'
    BY <2>0, <2>6, LaidWithin DEF ChangeHeight
  <2>7. ASSUME NEW to, Scroll(to) PROVE ViewportInv'
    BY <2>7 DEF Scroll, ViewportInv
  <2>8. CASE UNCHANGED viewportVars
    BY <2>8 DEF viewportVars, ViewportInv
  <2> QED BY <2>1, <2>2, <2>4, <2>5, <2>6, <2>7, <2>8 DEF ViewportNext
<1>3. ViewportInv => ViewMapped
  BY AllShown, RowsAndLines, ClickMeetsLine, ThumbFits DEF ViewMapped
<1> QED BY <1>1, <1>2, <1>3, PTL DEF ViewportSpec
=============================================================================
