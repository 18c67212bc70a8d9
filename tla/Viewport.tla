------------------------------ MODULE Viewport ------------------------------
(***************************************************************************)
(* Scrolling the message list: the user prompt that sticks to the top, the *)
(* place of the last line, the lines a mouse click falls on and the        *)
(* scrollbar (internal/renderer/sticky_user.go, collapsible_hit.go,        *)
(* scrollbar.go, mouse.go, the end of view.go's syncLayout).  Lines count  *)
(* from 0.  A prompt of one line is three rows, a longer one starts with a *)
(* row of padding above its header.  The offset is kept by the viewport    *)
(* component of the Bubbles library.                                       *)
(***************************************************************************)
EXTENDS Integers, Sequences

CONSTANTS Banner,      \* rows of the banner
          StickyRows,  \* rows of the prompt that sticks
          Heights,     \* heights of the viewport
          MaxBlocks, MaxRows  \* bounds

ASSUME ViewportConstants ==
    /\ Banner \in Nat /\ StickyRows \in Nat \ {0}
    /\ Heights \in SUBSET (Nat \ {0}) /\ Heights # {}

VARIABLES blocks,  \* the messages: kind, rows, and whether they fold
          height,  \* m.content.Height()
          offset   \* m.content.YOffset()

viewportVars == <<blocks, height, offset>>

Prompts == [kind : {"user"}, rows : {3}, folds : {FALSE}]
             \cup [kind : {"user"}, rows : {4, 5}, folds : {TRUE}]
ViewportInit == blocks = <<>> /\ height = (CHOOSE h \in Heights : TRUE) /\ offset = 0

----------------------------------------------------------------------------
(* Lines: walkContentLines. *)

RowsOf(bs, upto) ==
    LET sum[n \in 0 .. Len(bs)] == IF n = 0 THEN 0 ELSE sum[n - 1] + bs[n].rows + 1
    IN  sum[upto]
Total(bs) == Banner + RowsOf(bs, Len(bs))
First(i) == Banner + RowsOf(blocks, i - 1) + 1
BlockAt(line) == {i \in DOMAIN blocks : line \in First(i) .. First(i) + blocks[i].rows - 1}

Larger(a, b) == IF a > b THEN a ELSE b
LastOffset(bs, h) == Larger(Total(bs) - h, 0)
Scrollable == Total(blocks) > height

----------------------------------------------------------------------------
(* The sticky prompt and the painted body. *)

\* userMessageScrollAnchor.
Anchor(i) == IF blocks[i].folds THEN First(i) + 1 ELSE First(i)
Above(top) == {i \in DOMAIN blocks : blocks[i].kind = "user" /\ Anchor(i) < top}
NextPrompt(i) == {j \in DOMAIN blocks : j > i /\ blocks[j].kind = "user"}

\* stickyUserMessageIndex, 0 for none.
Sticky(top) ==
    IF ~Scrollable \/ Above(top) = {} THEN 0
    ELSE LET i == CHOOSE k \in Above(top) : \A other \in Above(top) : other <= k
             after == NextPrompt(i)
         IN IF after # {}
                /\ Anchor(CHOOSE j \in after : \A other \in after : j <= other) <= top
            THEN 0 ELSE i

StickyHeight(top) == IF Sticky(top) = 0 THEN 0 ELSE StickyRows
Visible(top) == Larger(height - StickyHeight(top), 1)  \* contentVisibleBodyLines

\* contentScrollTopForBottom: eight tries to settle.
TopForBottom ==
    LET try[n \in 0 .. 8] == IF n = 0 THEN Total(blocks) - height
                             ELSE Larger(Total(blocks) - Visible(try[n - 1]), 0)
    IN try[8]

\* Faulty variant of BodyTop: the body starts at the offset.
BodyTopAtOffset(at) == at

\* contentBodyScrollTop.
BodyTop(at) == IF Scrollable /\ at >= LastOffset(blocks, height) THEN TopForBottom ELSE at

\* contentBodyView: the lines painted with the offset at at.
Shown(at) == LET top == BodyTop(at) IN
    {l \in top .. top + Visible(top) - 1 : l < Total(blocks)}

\* contentLineAtViewportY, -1 on the sticky prompt; viewportYForContentLine.
LineAt(y) == LET top == BodyTop(offset) IN
    IF y < StickyHeight(top) THEN -1 ELSE y - StickyHeight(top) + top
RowOf(line) == line - BodyTop(offset) + StickyHeight(BodyTop(offset))

\* collapsibleToggleAtViewportY on the row of a header: which message folds.
Clicked(y) ==
    IF Sticky(offset) # 0 /\ y < StickyRows THEN {Sticky(offset)}
    ELSE {i \in BlockAt(LineAt(y)) : blocks[i].folds /\ LineAt(y) = Anchor(i)}

\* scrollBarFor.
Thumb == LET h == height
             size == Larger(1, (h * h) \div Total(blocks))
             last == Total(blocks) - h
             top == IF offset > last THEN last ELSE offset
         IN [size |-> size, start |-> (top * (h - size)) \div last]

----------------------------------------------------------------------------
(* syncLayout with other blocks or another height: the list stays at its end
   when it was there, and the library keeps the offset within bounds. *)
Laid(bs, h, follow) ==
    /\ blocks' = bs /\ height' = h
    /\ offset' = IF follow \/ offset >= LastOffset(blocks, height) THEN LastOffset(bs, h)
                 ELSE IF offset > LastOffset(bs, h) THEN LastOffset(bs, h) ELSE offset

AddPrompt == \E p \in Prompts : Len(blocks) < MaxBlocks /\ Laid(Append(blocks, p), height, TRUE)
AddBlock == /\ blocks # <<>> /\ Len(blocks) < MaxBlocks
            /\ Laid(Append(blocks, [kind |-> "ai", rows |-> 1, folds |-> FALSE]), height, FALSE)
GrowBlock == /\ blocks # <<>> /\ blocks[Len(blocks)].kind = "ai"
             /\ blocks[Len(blocks)].rows < MaxRows
             /\ Laid([blocks EXCEPT ![Len(blocks)].rows = @ + 1], height, FALSE)
Fold(i) == /\ i \in DOMAIN blocks /\ blocks[i].folds
           /\ Laid([blocks EXCEPT ![i].rows = IF @ = 4 THEN 5 ELSE 4], height, FALSE)
ChangeHeight(h) == Laid(blocks, h, FALSE)  \* the window, or a dialog, or the input
Scroll(to) == /\ to \in 0 .. LastOffset(blocks, height) /\ offset' = to
              /\ UNCHANGED <<blocks, height>>

ViewportNext ==
    \/ AddPrompt \/ AddBlock \/ GrowBlock
    \/ \E i \in 1 .. MaxBlocks : Fold(i)
    \/ \E h \in Heights : ChangeHeight(h)
    \/ \E to \in {offset - 1, offset + 1} : Scroll(to)

ViewportSpec == ViewportInit /\ [][ViewportNext]_viewportVars

----------------------------------------------------------------------------
\* The eight tries do not settle when the sticky prompt of the last page makes
\* room for itself by scrolling the next prompt to the top, which unpins it.
Settled == Visible(TopForBottom) = Total(blocks) - TopForBottom

\* Every line of the conversation can be brought onto the screen, unless the
\* last page does not settle or the viewport is too low: with no more than two
\* prompts' rows the jump to the last page leaves lines out; a row of the screen
\* and the line painted on it map to each other, and the row is on the screen if
\* the prompt leaves it one; before the last page, a click folds the message that is
\* painted on its row; and the thumb stays within its bar and is at its ends
\* exactly where the list is.
ViewMapped ==
    Scrollable =>
        /\ Settled /\ height > 2 * StickyRows =>
               UNION {Shown(at) : at \in 0 .. LastOffset(blocks, height)}
                   = 0 .. Total(blocks) - 1
        /\ \A line \in Shown(offset) : 
               LineAt(RowOf(line)) = line /\ (height > StickyRows => RowOf(line) < height)
        /\ offset < LastOffset(blocks, height) =>
               \A y \in 0 .. height - 1 : \A i \in Clicked(y) :
                   IF LineAt(y) = -1 THEN i = Sticky(BodyTop(offset)) ELSE i \in BlockAt(LineAt(y))
        /\ Thumb.start >= 0 /\ Thumb.start + Thumb.size <= height
        /\ offset = 0 => Thumb.start = 0
        /\ offset = LastOffset(blocks, height) => Thumb.start + Thumb.size = height
=============================================================================
