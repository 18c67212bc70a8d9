-------------------------- MODULE AgentTurnProofs --------------------------
(***************************************************************************)
(* Proofs about one agent turn, for every provider, tool and host          *)
(* behaviour and every value of the limits.  First what compaction         *)
(* guarantees for every history and every limit: it only ever drops whole  *)
(* turns from the front, it keeps the pairing of tool calls and tool       *)
(* answers the provider APIs insist on, and it leaves its own result       *)
(* alone.                                                                  *)
(***************************************************************************)
EXTENDS AgentTurnProps, TLAPS, FiniteSetTheorems


(***************************************************************************)
(* A non-empty finite set of integers has a least element (the loop of     *)
(* CompactMessages, truncate.go:125, stops at the first cut that fits).    *)
(* The initial segments of S, ordered by strict inclusion, are             *)
(* well-founded.                                                           *)
(***************************************************************************)
LEMMA LeastElement ==
  ASSUME NEW S \in SUBSET Int, IsFiniteSet(S), S # {}
  PROVE  \E x \in S : \A y \in S : x <= y
<1> DEFINE upto(i) == {j \in S : j <= i}
           T == {upto(i) : i \in S}
<1>1. T \subseteq FiniteSubsetsOf(S)
  BY FS_FiniteSubsetsOfFinite
<1>2. T # {}
  OBVIOUS
<1>3. PICK t \in T : \A u \in T : <<u, t>> \notin StrictSubsetOrdering(S)
  <2> HIDE DEF T
  <2> QED BY <1>1, <1>2, FS_StrictSubsetOrderingWellFounded, WFMin
<1>4. PICK x \in S : t = upto(x)
  OBVIOUS
<1>5. ASSUME NEW y \in S, y < x
      PROVE  <<upto(y), t>> \in StrictSubsetOrdering(S)
  <2>1. \A j \in Int : j <= y => j <= x
    BY <1>5
  <2>2. upto(y) \subseteq upto(x)
    BY <2>1
  <2>3. x \in upto(x) /\ x \notin upto(y)
    BY <1>5
  <2>4. upto(y) \in SUBSET S /\ upto(x) \in SUBSET S
    OBVIOUS
  <2> HIDE DEF upto
  <2> QED BY <1>4, <2>2, <2>3, <2>4 DEF StrictSubsetOrdering
<1>6. \A y \in S : ~(y < x)
  <2> SUFFICES ASSUME NEW y \in S, y < x PROVE FALSE
    OBVIOUS
  <2>1. upto(y) \in T
    OBVIOUS
  <2> QED BY <1>3, <1>5, <2>1
<1> QED BY <1>6

(***************************************************************************)
(* The places a list can be cut at are positions of it, or its end.        *)
(***************************************************************************)
LEMMA TurnCutsFinite ==
  ASSUME NEW ms \in Seq(Message)
  PROVE  /\ TurnCuts(ms) \in SUBSET Int
         /\ TurnCuts(ms) \subseteq 1..(Len(ms) + 1)
         /\ IsFiniteSet(TurnCuts(ms))
         /\ Len(ms) + 1 \in TurnCuts(ms)
<1>1. TurnCuts(ms) \subseteq 1..(Len(ms) + 1)
  BY DEF TurnCuts, UserPositions
<1>2. IsFiniteSet(1..(Len(ms) + 1))
  BY FS_Interval
<1>3. IsFiniteSet(TurnCuts(ms))
  BY <1>1, <1>2, FS_Subset
<1> QED BY <1>1, <1>3 DEF TurnCuts

(***************************************************************************)
(* The suffix that starts at position i.                                   *)
(***************************************************************************)
LEMMA FromIndex ==
  ASSUME NEW ms \in Seq(Message), NEW i \in 1..(Len(ms) + 1)
  PROVE  /\ From(ms, i) \in Seq(Message)
         /\ Len(From(ms, i)) = Len(ms) - i + 1
         /\ \A k \in 1..(Len(ms) - i + 1) : From(ms, i)[k] = ms[i + k - 1]
BY DEF From

(***************************************************************************)
(* removeOldestTurn, repeated until the list fits, leaves the list alone   *)
(* or leaves what stands from one of its user messages on, or nothing.     *)
(***************************************************************************)
LEMMA DropUntilFitsIsACut ==
  ASSUME NEW ms \in Seq(Message), NEW n, NEW b
  PROVE  \/ DropUntilFits(ms, n, b) = ms
         \/ \E i \in TurnCuts(ms) : DropUntilFits(ms, n, b) = From(ms, i)
<1> DEFINE good == {i \in TurnCuts(ms) : \/ i = Len(ms) + 1
                                         \/ Fits(From(ms, i), n, b)}
<1>1. good \in SUBSET Int /\ IsFiniteSet(good) /\ good # {}
  <2>1. good \subseteq TurnCuts(ms) /\ Len(ms) + 1 \in good
    BY TurnCutsFinite
  <2> QED BY <2>1, TurnCutsFinite, FS_Subset
<1>2. \E x \in good : \A y \in good : x <= y
  <2> HIDE DEF good
  <2> QED BY <1>1, LeastElement
<1>3. CASE Fits(ms, n, b)
  BY <1>3 DEF DropUntilFits
<1>4. CASE ~Fits(ms, n, b)
  <2>1. DropUntilFits(ms, n, b)
          = From(ms, CHOOSE i \in good : \A j \in good : i <= j)
    BY <1>4 DEF DropUntilFits
  <2>2. (CHOOSE i \in good : \A j \in good : i <= j) \in good
    <3> HIDE DEF good
    <3> QED BY <1>2
  <2> QED BY <2>1, <2>2
<1> QED BY <1>3, <1>4

(***************************************************************************)
(* A cut keeps the pairing: it starts at a user message, so no tool answer *)
(* loses the assistant message before it.                                  *)
(***************************************************************************)
LEMMA CutKeepsLinked ==
  ASSUME NEW ms \in Seq(Message), NEW i \in TurnCuts(ms), Linked(ms)
  PROVE  Linked(From(ms, i))
<1>1. i \in 1..(Len(ms) + 1)
  BY TurnCutsFinite
<1> DEFINE out == From(ms, i)
<1>2. /\ out \in Seq(Message)
      /\ Len(out) = Len(ms) - i + 1
      /\ \A k \in 1..Len(out) : out[k] = ms[i + k - 1]
  BY <1>1, FromIndex
<1>3. Len(out) > 0 => out[1].role # "tool"
  <2> SUFFICES ASSUME Len(out) > 0 PROVE out[1].role # "tool"
    OBVIOUS
  <2>1. i \in UserPositions(ms)
    BY <1>1, <1>2 DEF TurnCuts
  <2>2. out[1] = ms[i]
    BY <1>1, <1>2
  <2> QED BY <2>1, <2>2 DEF UserPositions
<1>4. ASSUME NEW k \in 1..(Len(out) - 1)
      PROVE  MayFollow(out[k], out[k + 1])
  <2>1. out[k] = ms[i + k - 1] /\ out[k + 1] = ms[i + k]
    BY <1>1, <1>2
  <2>2. i + k - 1 \in 1..(Len(ms) - 1)
    BY <1>1, <1>2
  <2>3. MayFollow(ms[i + k - 1], ms[(i + k - 1) + 1])
    BY <2>2 DEF Linked
  <2> QED BY <1>1, <2>1, <2>3
<1> HIDE DEF out
<1> QED BY <1>3, <1>4 DEF Linked, out

\* Dropping whole turns from the front parts no call from its result.
LEMMA CutKeepsAnswered ==
  ASSUME NEW ms \in Seq(Message), NEW i \in TurnCuts(ms), Answered(ms)
  PROVE  Answered(From(ms, i))
<1>1. i \in 1..(Len(ms) + 1)
  BY TurnCutsFinite
<1>2. Linked(From(ms, i))
  BY CutKeepsLinked DEF Answered
<1>3. Len(From(ms, i)) > 0
        => From(ms, i)[Len(From(ms, i))] = ms[Len(ms)] /\ Len(ms) > 0
  <2> DEFINE out == From(ms, i)
             k == Len(ms) - i + 1
  <2>1. Len(out) = k /\ \A j \in 1..k : out[j] = ms[i + j - 1]
    BY <1>1, FromIndex
  <2>2. k > 0 => k \in 1..k /\ i + k - 1 = Len(ms) /\ Len(ms) > 0
    BY <1>1
  <2> HIDE DEF out
  <2>3. Len(out) > 0 => out[Len(out)] = ms[Len(ms)] /\ Len(ms) > 0
    BY <2>1, <2>2
  <2> QED BY <2>3 DEF out
<1> QED BY <1>2, <1>3 DEF Answered

(***************************************************************************)
(* Rewriting sizes and images message by message keeps the pairing: it     *)
(* looks at roles and calls only.                                          *)
(***************************************************************************)
SameShape(ms, out) ==
    /\ out \in Seq(Message)
    /\ Len(out) = Len(ms)
    /\ \A k \in 1..Len(ms) : /\ out[k].role = ms[k].role
                             /\ out[k].calls = ms[k].calls
                             /\ out[k].call = ms[k].call

\* Results stay with their calls when only the content of messages changes.
LEMMA SameShapeKeepsAnswered ==
  ASSUME NEW ms \in Seq(Message), NEW out, SameShape(ms, out), Answered(ms)
  PROVE  Answered(out)
<1>1. \A k \in 1..Len(ms) : CompleteAt(out[k]) = CompleteAt(ms[k])
  BY DEF SameShape, CompleteAt
<1>2. ASSUME NEW k \in 1..(Len(ms) - 1)
      PROVE  MayFollow(out[k], out[k + 1])
  <2>1. MayFollow(ms[k], ms[k + 1])
    BY DEF Answered, Linked
  <2>2. k \in 1..Len(ms) /\ k + 1 \in 1..Len(ms)
    OBVIOUS
  <2> QED BY <1>1, <2>1, <2>2 DEF MayFollow, SameShape
<1>3. Len(out) > 0 => out[1].role # "tool"
  BY DEF Answered, Linked, SameShape
<1>4. Len(out) > 0 => CompleteAt(out[Len(out)])
  BY <1>1 DEF Answered, SameShape
<1> QED BY <1>2, <1>3, <1>4 DEF Answered, Linked, SameShape

\* Truncation changes content only.
LEMMA TruncateKeepsShape ==
  ASSUME NEW ms \in Seq(Message)
  PROVE  SameShape(ms, [i \in 1..Len(ms) |-> TruncateHistoryMessage(ms[i])])
<1>1. ASSUME NEW m \in Message
      PROVE  /\ TruncateHistoryMessage(m) \in Message
             /\ TruncateHistoryMessage(m).role = m.role
             /\ TruncateHistoryMessage(m).calls = m.calls
             /\ TruncateHistoryMessage(m).call = m.call
  <2>1. ASSUME NEW limit \in Nat
        PROVE  /\ [m EXCEPT !.size = AtMost(@, limit)] \in Message
               /\ [m EXCEPT !.size = AtMost(@, limit)].role = m.role
               /\ [m EXCEPT !.size = AtMost(@, limit)].calls = m.calls
               /\ [m EXCEPT !.size = AtMost(@, limit)].call = m.call
    BY DEF AtMost, Message
  <2>2. /\ MaxProviderToolBytes \in Nat /\ 4 * MaxProviderToolBytes \in Nat
        /\ MaxAssistantHistoryBytes \in Nat
    <3>1. MaxProviderToolBytes \in Nat /\ MaxAssistantHistoryBytes \in Nat
      BY HistoryConstants, Zenon
    <3> QED BY <3>1
  <2>3. CASE m.role = "tool" /\ m.text = "skill"
    BY <2>1, <2>2, <2>3 DEF TruncateHistoryMessage
  <2>4. CASE m.role = "tool" /\ m.text # "skill"
    BY <2>1, <2>2, <2>4 DEF TruncateHistoryMessage
  <2>5. CASE m.role = "assistant"
    BY <2>1, <2>2, <2>5 DEF TruncateHistoryMessage
  <2>6. CASE m.role \notin {"tool", "assistant"}
    BY <2>6 DEF TruncateHistoryMessage
  <2> QED BY <2>3, <2>4, <2>5, <2>6
<1>2. \A k \in 1..Len(ms) : ms[k] \in Message
  OBVIOUS
<1> DEFINE out == [i \in 1..Len(ms) |-> TruncateHistoryMessage(ms[i])]
<1>3. out \in Seq(Message) /\ Len(out) = Len(ms)
  BY <1>1, <1>2
<1>4. \A k \in 1..Len(ms) : out[k] = TruncateHistoryMessage(ms[k])
  OBVIOUS
<1> HIDE DEF out
<1>5. SameShape(ms, out)
  BY <1>1, <1>2, <1>3, <1>4 DEF SameShape
<1> QED BY <1>5 DEF out

\* Taking images out changes content only.
LEMMA StripKeepsShape ==
  ASSUME NEW ms \in Seq(Message)
  PROVE  SameShape(ms, StripHistoryImages(ms))
<1>1. \A k \in 1..Len(ms) : ms[k] \in Message
  OBVIOUS
<1> DEFINE out == StripHistoryImages(ms)
<1>2. \A k \in 1..Len(ms) : out[k] = ms[k] \/ out[k] = [ms[k] EXCEPT !.images = FALSE]
  BY DEF StripHistoryImages
<1>3. \A k \in 1..Len(ms) : /\ out[k] \in Message
                            /\ out[k].role = ms[k].role
                            /\ out[k].calls = ms[k].calls
                            /\ out[k].call = ms[k].call
  BY <1>1, <1>2 DEF Message
<1>4. out = [k \in 1..Len(ms) |-> out[k]]
  BY DEF StripHistoryImages
<1> HIDE DEF out
<1>5. out \in Seq(Message) /\ Len(out) = Len(ms)
  BY <1>3, <1>4
<1>6. SameShape(ms, out)
  BY <1>3, <1>5 DEF SameShape
<1> QED BY <1>6 DEF out

\* Dropping turns until the history fits keeps calls answered.
LEMMA DropKeepsAnswered ==
  ASSUME NEW ms \in Seq(Message), NEW n, NEW b
  PROVE  /\ DropUntilFits(ms, n, b) \in Seq(Message)
         /\ Answered(ms) => Answered(DropUntilFits(ms, n, b))
<1>1. CASE DropUntilFits(ms, n, b) = ms
  BY <1>1
<1>2. CASE \E i \in TurnCuts(ms) : DropUntilFits(ms, n, b) = From(ms, i)
  BY <1>2, TurnCutsFinite, FromIndex, CutKeepsAnswered
<1> QED BY <1>1, <1>2, DropUntilFitsIsACut

(***************************************************************************)
(* The three entry points of compaction.                                   *)
(***************************************************************************)
THEOREM CompactKeepsAnswered ==
  ASSUME NEW ms \in Seq(Message)
  PROVE  /\ CompactMessages(ms) \in Seq(Message)
         /\ Answered(ms) => Answered(CompactMessages(ms))
<1> DEFINE cut == [i \in 1..Len(ms) |-> TruncateHistoryMessage(ms[i])]
           kept == DropUntilFits(cut, MaxHistoryMessages, MaxHistoryBytes)
<1>1. cut \in Seq(Message) /\ (Answered(ms) => Answered(cut))
  <2>1. SameShape(ms, cut)
    BY TruncateKeepsShape
  <2> HIDE DEF cut
  <2> QED BY <2>1, SameShapeKeepsAnswered DEF SameShape
<1>2. kept \in Seq(Message) /\ (Answered(ms) => Answered(kept))
  <2> HIDE DEF cut
  <2> QED BY <1>1, DropKeepsAnswered
<1>3. /\ StripHistoryImages(kept) \in Seq(Message)
      /\ Answered(ms) => Answered(StripHistoryImages(kept))
  <2> HIDE DEF kept
  <2> QED BY <1>2, StripKeepsShape, SameShapeKeepsAnswered DEF SameShape
<1> QED BY <1>3 DEF CompactMessages

\* Compaction to a share of the history keeps calls answered.
THEOREM RatioKeepsAnswered ==
  ASSUME NEW ms \in Seq(Message), NEW ratio
  PROVE  /\ CompactMessagesToRatio(ms, ratio) \in Seq(Message)
         /\ Answered(ms) => Answered(CompactMessagesToRatio(ms, ratio))
<1> DEFINE n == AtLeast((MaxHistoryMessages * ratio) \div 100, FloorMessages)
           b == AtLeast((MaxHistoryBytes * ratio) \div 100, FloorBytes)
           kept == DropUntilFits(CompactMessages(ms), n, b)
<1>1. kept \in Seq(Message) /\ (Answered(ms) => Answered(kept))
  <2> HIDE DEF n, b
  <2> QED BY CompactKeepsAnswered, DropKeepsAnswered
<1>2. /\ StripHistoryImages(kept) \in Seq(Message)
      /\ Answered(ms) => Answered(StripHistoryImages(kept))
  <2> HIDE DEF kept
  <2> QED BY <1>1, StripKeepsShape, SameShapeKeepsAnswered DEF SameShape
<1> QED BY <1>2, CompactKeepsAnswered DEF CompactMessagesToRatio

\* So does the entry the loop calls.
THEOREM EntryKeepsAnswered ==
  ASSUME NEW ms \in Seq(Message), NEW ratio
  PROVE  /\ CompactWithEntry(ms, ratio).messages \in Seq(Message)
         /\ CompactWithEntry(ms, ratio).changed \in BOOLEAN
         /\ Answered(ms) => Answered(CompactWithEntry(ms, ratio).messages)
BY RatioKeepsAnswered DEF CompactWithEntry, ShouldCompact

-----------------------------------------------------------------------------

(***************************************************************************)
(* The size of a history is a running total, which exists, starts at zero  *)
(* and never falls.  (compaction.go:86-98)                                 *)
(***************************************************************************)
Running(f, ms) ==
    /\ f \in [0..Len(ms) -> Nat]
    /\ f[0] = 0
    /\ \A i \in 1..Len(ms) : f[i] = f[i - 1] + MessageUTF8Size(ms[i])

\* The size of a message is a natural number.
LEMMA MessageSizeNat ==
  ASSUME NEW m \in Message
  PROVE  MessageUTF8Size(m) \in Nat
<1>1. HeaderBytes \in Nat /\ ImageBytes \in Nat /\ CallBytes \in Nat
  BY HistoryConstants, Zenon
<1>2. m.size \in Nat /\ m.calls \in Nat
  BY DEF Message
<1>3. m.calls * CallBytes \in Nat
  BY <1>1, <1>2
<1> QED BY <1>1, <1>2, <1>3 DEF MessageUTF8Size

\* A running total over the first k messages.
Upto(f, ms, k) ==
    /\ f \in [0..k -> Nat]
    /\ f[0] = 0
    /\ \A i \in 1..k : f[i] = f[i - 1] + MessageUTF8Size(ms[i])

\* There is one for every k: a first k without one would be one behind a k
\* that has it.
LEMMA TotalsExist ==
  ASSUME NEW ms \in Seq(Message)
  PROVE  \A k \in 0..Len(ms) : \E f : Upto(f, ms, k)
<1> DEFINE D == {k \in 0..Len(ms) : ~ \E f : Upto(f, ms, k)}
<1> SUFFICES ASSUME D # {} PROVE FALSE
  OBVIOUS
<1>1. \E x \in D : \A y \in D : x <= y
  <2>1. D \subseteq 0..Len(ms) /\ IsFiniteSet(0..Len(ms))
    BY FS_Interval
  <2>2. IsFiniteSet(D) /\ D \in SUBSET Int
    <3>1. 0..Len(ms) \subseteq Int
      OBVIOUS
    <3> HIDE DEF D
    <3> QED BY <2>1, <3>1, FS_Subset
  <2> HIDE DEF D
  <2> QED BY <2>2, LeastElement
<1>2. PICK k \in D : \A y \in D : k <= y
  BY <1>1
<1>3. k \in 0..Len(ms) /\ ~ \E f : Upto(f, ms, k)
  BY <1>2
<1>4. k # 0
  <2> SUFFICES ASSUME k = 0 PROVE FALSE
    OBVIOUS
  <2>1. Upto([i \in 0..0 |-> 0], ms, 0)
    BY DEF Upto
  <2> QED BY <1>3, <2>1
<1>5. k - 1 \in 0..Len(ms) /\ k - 1 \notin D
  BY <1>2, <1>3, <1>4
<1>6. PICK f : Upto(f, ms, k - 1)
  BY <1>5
<1> DEFINE g == [i \in 0..k |-> IF i = k THEN f[k - 1] + MessageUTF8Size(ms[k]) ELSE f[i]]
<1>7. Upto(g, ms, k)
  <2>1. k \in 1..Len(ms) /\ k - 1 \in Nat
    BY <1>3, <1>4
  <2>2. ms[k] \in Message
    BY <2>1
  <2>3. MessageUTF8Size(ms[k]) \in Nat
    BY <2>2, MessageSizeNat
  <2>4. f \in [0..(k - 1) -> Nat] /\ f[0] = 0
    BY <1>6 DEF Upto
  <2>5. \A i \in 0..k : g[i] = IF i = k THEN f[k - 1] + MessageUTF8Size(ms[k]) ELSE f[i]
    OBVIOUS
  <2>6. g \in [0..k -> Nat]
    BY <2>1, <2>3, <2>4
  <2>7. \A i \in 1..(k - 1) : f[i] = f[i - 1] + MessageUTF8Size(ms[i])
    BY <1>6 DEF Upto
  <2>8. g[0] = 0
    BY <2>1, <2>4, <2>5
  <2>9. ASSUME NEW i \in 1..k PROVE g[i] = g[i - 1] + MessageUTF8Size(ms[i])
    <3>1. CASE i = k
      BY <3>1, <2>1, <2>5
    <3>2. CASE i # k
      <4>1. i \in 1..(k - 1) /\ i \in 0..k /\ i - 1 \in 0..k /\ i - 1 # k
        BY <3>2, <2>1
      <4>2. g[i] = f[i] /\ g[i - 1] = f[i - 1]
        BY <3>2, <4>1, <2>5
      <4> QED BY <4>1, <4>2, <2>7
    <3> QED BY <3>1, <3>2
  <2> HIDE DEF g
  <2> QED BY <2>6, <2>8, <2>9 DEF Upto
<1> QED BY <1>3, <1>7

\* The size of a history is the last value of its running total.
LEMMA SizeIsTotal ==
  ASSUME NEW ms \in Seq(Message)
  PROVE  \E f : Running(f, ms) /\ HistoryUTF8Size(ms) = f[Len(ms)]
<1> DEFINE Def(f) == f = [i \in 0..Len(ms) |->
                            IF i = 0 THEN 0 ELSE f[i - 1] + MessageUTF8Size(ms[i])]
           total == CHOOSE f : Def(f)
<1>1. \E f : Def(f)
  <2>1. Len(ms) \in 0..Len(ms)
    OBVIOUS
  <2>2. PICK f : Upto(f, ms, Len(ms))
    BY <2>1, TotalsExist
  <2>3. f \in [0..Len(ms) -> Nat] /\ f[0] = 0
    BY <2>2 DEF Upto
  <2>4. \A i \in 0..Len(ms) : f[i] = IF i = 0 THEN 0 ELSE f[i - 1] + MessageUTF8Size(ms[i])
    BY <2>2 DEF Upto
  <2>5. f = [i \in 0..Len(ms) |-> f[i]]
    BY <2>3
  <2>6. Def(f)
    BY <2>4, <2>5
  <2> QED BY <2>6
<1>2. Def(total)
  <2> HIDE DEF Def
  <2> QED BY <1>1
<1>3. HistoryUTF8Size(ms) = total[Len(ms)]
  BY DEF HistoryUTF8Size
<1> HIDE DEF total
<1>4. \A i \in 0..Len(ms) : total[i] = IF i = 0 THEN 0 ELSE total[i - 1] + MessageUTF8Size(ms[i])
  BY <1>2
<1>5. PICK f : Upto(f, ms, Len(ms))
  <2>1. Len(ms) \in 0..Len(ms)
    OBVIOUS
  <2> QED BY <2>1, TotalsExist
<1> DEFINE D == {k \in 0..Len(ms) : total[k] # f[k]}
<1>6. D = {}
  <2> SUFFICES ASSUME D # {} PROVE FALSE
    OBVIOUS
  <2>1. D \in SUBSET Int /\ IsFiniteSet(D)
    <3>1. D \subseteq 0..Len(ms) /\ IsFiniteSet(0..Len(ms)) /\ 0..Len(ms) \subseteq Int
      BY FS_Interval
    <3> HIDE DEF D
    <3> QED BY <3>1, FS_Subset
  <2>2. PICK k \in D : \A y \in D : k <= y
    <3> HIDE DEF D
    <3> QED BY <2>1, LeastElement
  <2>3. k \in 0..Len(ms) /\ total[k] # f[k]
    BY <2>2
  <2>4. k # 0
    BY <1>4, <1>5, <2>3 DEF Upto
  <2>5. total[k - 1] = f[k - 1]
    BY <2>2, <2>3, <2>4
  <2> QED BY <1>4, <1>5, <2>3, <2>4, <2>5 DEF Upto
<1>7. total[Len(ms)] = f[Len(ms)]
  BY <1>6
<1> QED BY <1>3, <1>5, <1>7 DEF Upto, Running

\* Message by message no longer is no longer in all.
LEMMA SizeMonotone ==
  ASSUME NEW ms \in Seq(Message), NEW out \in Seq(Message), Len(out) = Len(ms),
         \A i \in 1..Len(ms) : MessageUTF8Size(out[i]) <= MessageUTF8Size(ms[i])
  PROVE  HistoryUTF8Size(out) <= HistoryUTF8Size(ms)
<1>1. PICK f : Running(f, ms) /\ HistoryUTF8Size(ms) = f[Len(ms)]
  BY SizeIsTotal
<1>2. PICK g : Running(g, out) /\ HistoryUTF8Size(out) = g[Len(out)]
  BY SizeIsTotal
<1> DEFINE D == {k \in 0..Len(ms) : ~ (g[k] <= f[k])}
<1>3. D = {}
  <2> SUFFICES ASSUME D # {} PROVE FALSE
    OBVIOUS
  <2>1. D \in SUBSET Int /\ IsFiniteSet(D)
    <3>1. D \subseteq 0..Len(ms) /\ IsFiniteSet(0..Len(ms)) /\ 0..Len(ms) \subseteq Int
      BY FS_Interval
    <3> HIDE DEF D
    <3> QED BY <3>1, FS_Subset
  <2>2. PICK k \in D : \A y \in D : k <= y
    <3> HIDE DEF D
    <3> QED BY <2>1, LeastElement
  <2>3. k \in 0..Len(ms) /\ ~ (g[k] <= f[k])
    BY <2>2
  <2>4. k # 0
    BY <1>1, <1>2, <2>3 DEF Running
  <2>5. k \in 1..Len(ms) /\ k - 1 \in 0..Len(ms)
    BY <2>3, <2>4
  <2>6. g[k - 1] <= f[k - 1]
    BY <2>2, <2>5
  <2>7. /\ f[k - 1] \in Nat /\ g[k - 1] \in Nat
        /\ f[k] = f[k - 1] + MessageUTF8Size(ms[k])
        /\ g[k] = g[k - 1] + MessageUTF8Size(out[k])
    BY <1>1, <1>2, <2>5 DEF Running
  <2>8. ms[k] \in Message /\ out[k] \in Message
    BY <2>5
  <2>9. MessageUTF8Size(ms[k]) \in Nat /\ MessageUTF8Size(out[k]) \in Nat
    BY <2>8, MessageSizeNat
  <2> QED BY <2>3, <2>5, <2>6, <2>7, <2>9
<1>4. Len(ms) \in 0..Len(ms)
  OBVIOUS
<1>5. g[Len(ms)] <= f[Len(ms)]
  BY <1>3, <1>4
<1> QED BY <1>1, <1>2, <1>5

\* What is left after a cut is no longer than the whole.
LEMMA CutIsSmaller ==
  ASSUME NEW ms \in Seq(Message), NEW i \in 1..(Len(ms) + 1)
  PROVE  HistoryUTF8Size(From(ms, i)) <= HistoryUTF8Size(ms)
<1> DEFINE out == From(ms, i)
<1>0. /\ out \in Seq(Message) /\ Len(out) = Len(ms) - i + 1
      /\ \A k \in 1..Len(out) : out[k] = ms[i + k - 1]
  BY FromIndex
<1> HIDE DEF out
<1>1. PICK f : Running(f, ms) /\ HistoryUTF8Size(ms) = f[Len(ms)]
  BY SizeIsTotal
<1>2. PICK g : Running(g, out) /\ HistoryUTF8Size(out) = g[Len(out)]
  BY <1>0, SizeIsTotal
<1> DEFINE D == {k \in 0..Len(out) : ~ (g[k] <= f[i + k - 1])}
<1>3. D = {}
  <2> SUFFICES ASSUME D # {} PROVE FALSE
    OBVIOUS
  <2>1. D \in SUBSET Int /\ IsFiniteSet(D)
    <3>1. D \subseteq 0..Len(out) /\ IsFiniteSet(0..Len(out)) /\ 0..Len(out) \subseteq Int
      BY <1>0, FS_Interval
    <3> HIDE DEF D
    <3> QED BY <3>1, FS_Subset
  <2>2. PICK k \in D : \A y \in D : k <= y
    <3> HIDE DEF D
    <3> QED BY <2>1, LeastElement
  <2>3. k \in 0..Len(out) /\ ~ (g[k] <= f[i + k - 1])
    BY <2>2
  <2>4. k # 0
    <3>0. i - 1 \in 0..Len(ms)
      OBVIOUS
    <3>1. f[i - 1] \in Nat /\ g[0] = 0
      BY <3>0, <1>1, <1>2 DEF Running
    <3>2. i + 0 - 1 = i - 1
      OBVIOUS
    <3> QED BY <2>3, <3>1, <3>2
  <2>5. k \in 1..Len(out) /\ k - 1 \in 0..Len(out)
    BY <2>3, <2>4, <1>0
  <2>6. g[k - 1] <= f[i + (k - 1) - 1]
    BY <2>2, <2>5
  <2> DEFINE j == i + k - 1
  <2>7. j \in 1..Len(ms) /\ j - 1 \in 0..Len(ms) /\ i + (k - 1) - 1 = j - 1
    BY <1>0, <2>5
  <2>8. out[k] = ms[j] /\ ms[j] \in Message
    BY <1>0, <2>5, <2>7
  <2> HIDE DEF j
  <2>9. f[j] = f[j - 1] + MessageUTF8Size(ms[j]) /\ f[j - 1] \in Nat
    BY <1>1, <2>7 DEF Running
  <2>10. g[k] = g[k - 1] + MessageUTF8Size(out[k]) /\ g[k - 1] \in Nat
    BY <1>2, <2>5 DEF Running
  <2>11. MessageUTF8Size(ms[j]) \in Nat
    BY <2>8, MessageSizeNat
  <2>12. ~ (g[k] <= f[j])
    BY <2>3 DEF j
  <2>13. g[k - 1] <= f[j - 1]
    BY <2>6, <2>7
  <2> QED BY <2>8, <2>9, <2>10, <2>11, <2>12, <2>13
<1>4. Len(out) \in 0..Len(out) /\ i + Len(out) - 1 = Len(ms)
  BY <1>0
<1>5. g[Len(out)] <= f[Len(ms)]
  BY <1>3, <1>4
<1> QED BY <1>1, <1>2, <1>5 DEF out

-----------------------------------------------------------------------------

(***************************************************************************)
(* Compaction does nothing to its own result.  What it returns fits the    *)
(* limits, and no message of it is long enough to be truncated again.      *)
(***************************************************************************)
Small(m) == TruncateHistoryMessage(m) = m
AllSmall(ms) == \A i \in 1..Len(ms) : Small(ms[i])

\* Without messages there is nothing to count.
LEMMA EmptyFits ==
  ASSUME NEW ms \in Seq(Message), Len(ms) = 0, NEW n \in Nat, NEW b \in Nat
  PROVE  Fits(ms, n, b)
<1>1. PICK f : Running(f, ms) /\ HistoryUTF8Size(ms) = f[Len(ms)]
  BY SizeIsTotal
<1>2. HistoryUTF8Size(ms) = 0
  BY <1>1 DEF Running
<1> QED BY <1>2 DEF Fits

\* Dropping turns ends with a list that fits.
LEMMA DropFits ==
  ASSUME NEW ms \in Seq(Message), NEW n \in Nat, NEW b \in Nat
  PROVE  Fits(DropUntilFits(ms, n, b), n, b)
<1> DEFINE good == {i \in TurnCuts(ms) : \/ i = Len(ms) + 1
                                         \/ Fits(From(ms, i), n, b)}
           least == CHOOSE i \in good : \A j \in good : i <= j
<1>1. good \in SUBSET Int /\ IsFiniteSet(good) /\ good # {}
  <2>1. good \subseteq TurnCuts(ms) /\ Len(ms) + 1 \in good
    BY TurnCutsFinite
  <2> QED BY <2>1, TurnCutsFinite, FS_Subset
<1>2. \E x \in good : \A y \in good : x <= y
  <2> HIDE DEF good
  <2> QED BY <1>1, LeastElement
<1>3. CASE Fits(ms, n, b)
  BY <1>3 DEF DropUntilFits
<1>4. CASE ~Fits(ms, n, b)
  <2>1. DropUntilFits(ms, n, b) = From(ms, least)
    BY <1>4 DEF DropUntilFits
  <2>2. least \in good
    <3> HIDE DEF good
    <3> QED BY <1>2
  <2> HIDE DEF least
  <2>3. CASE least = Len(ms) + 1
    <3>1. From(ms, least) \in Seq(Message) /\ Len(From(ms, least)) = 0
      BY <2>3, FromIndex
    <3> QED BY <2>1, <3>1, EmptyFits
  <2>4. CASE Fits(From(ms, least), n, b)
    BY <2>1, <2>4
  <2> QED BY <2>2, <2>3, <2>4
<1> QED BY <1>3, <1>4

\* Cutting keeps a list small and within what it fits.
LEMMA DropKeepsSmall ==
  ASSUME NEW ms \in Seq(Message), NEW n, NEW b, NEW p \in Nat, NEW q \in Nat
  PROVE  LET out == DropUntilFits(ms, n, b) IN
         /\ out \in Seq(Message)
         /\ AllSmall(ms) => AllSmall(out)
         /\ Fits(ms, p, q) => Fits(out, p, q)
<1>1. CASE DropUntilFits(ms, n, b) = ms
  BY <1>1
<1>2. ASSUME NEW i \in TurnCuts(ms), DropUntilFits(ms, n, b) = From(ms, i)
      PROVE  LET out == DropUntilFits(ms, n, b) IN
             /\ out \in Seq(Message)
             /\ AllSmall(ms) => AllSmall(out)
             /\ Fits(ms, p, q) => Fits(out, p, q)
  <2>1. i \in 1..(Len(ms) + 1)
    BY TurnCutsFinite
  <2>2. /\ From(ms, i) \in Seq(Message)
        /\ Len(From(ms, i)) = Len(ms) - i + 1
        /\ \A k \in 1..(Len(ms) - i + 1) : From(ms, i)[k] = ms[i + k - 1]
    BY <2>1, FromIndex
  <2>3. AllSmall(ms) => AllSmall(From(ms, i))
    <3> SUFFICES ASSUME AllSmall(ms), NEW k \in 1..(Len(ms) - i + 1)
                 PROVE  Small(From(ms, i)[k])
      BY <2>2 DEF AllSmall
    <3>1. i + k - 1 \in 1..Len(ms)
      BY <2>1
    <3>2. Small(ms[i + k - 1])
      BY <3>1 DEF AllSmall
    <3> QED BY <2>2, <3>2
  <2>4. HistoryUTF8Size(From(ms, i)) <= HistoryUTF8Size(ms)
    BY <2>1, CutIsSmaller
  <2>5. HistoryUTF8Size(From(ms, i)) \in Nat /\ HistoryUTF8Size(ms) \in Nat
    <3>1. \A l \in Seq(Message) : HistoryUTF8Size(l) \in Nat
      BY SizeIsTotal DEF Running
    <3> QED BY <2>2, <3>1
  <2>6. Fits(ms, p, q) => Fits(From(ms, i), p, q)
    BY <2>1, <2>2, <2>4, <2>5 DEF Fits
  <2> QED BY <1>2, <2>2, <2>3, <2>6
<1> QED BY <1>1, <1>2, DropUntilFitsIsACut

\* Without its images a message is no longer, and small if it was.
LEMMA StripMessage ==
  ASSUME NEW m \in Message
  PROVE  LET out == [m EXCEPT !.images = FALSE] IN
         /\ MessageUTF8Size(out) <= MessageUTF8Size(m)
         /\ Small(m) => Small(out)
<1> DEFINE out == [m EXCEPT !.images = FALSE]
<1>1. /\ out \in Message
      /\ out.role = m.role /\ out.text = m.text /\ out.size = m.size
      /\ out.calls = m.calls /\ out.call = m.call /\ out.images = FALSE
  BY DEF Message
<1>2. HeaderBytes \in Nat /\ ImageBytes \in Nat /\ CallBytes \in Nat
  BY HistoryConstants, Zenon
<1>3. MessageUTF8Size(out) <= MessageUTF8Size(m)
  <2>1. m.size \in Nat /\ m.calls \in Nat
    BY DEF Message
  <2>2. m.calls * CallBytes \in Nat
    BY <1>2, <2>1
  <2> HIDE DEF out
  <2> QED BY <1>1, <1>2, <2>1, <2>2 DEF MessageUTF8Size
<1>4. Small(m) => Small(out)
  BY DEF Small, TruncateHistoryMessage, Message
<1> QED BY <1>3, <1>4

\* Stripping images keeps messages small and a history that fits fitting.
LEMMA StripKeepsSmall ==
  ASSUME NEW ms \in Seq(Message), NEW n \in Nat, NEW b \in Nat
  PROVE  /\ StripHistoryImages(ms) \in Seq(Message)
         /\ Len(StripHistoryImages(ms)) = Len(ms)
         /\ AllSmall(ms) => AllSmall(StripHistoryImages(ms))
         /\ Fits(ms, n, b) => Fits(StripHistoryImages(ms), n, b)
<1> DEFINE out == StripHistoryImages(ms)
<1>1. out \in Seq(Message) /\ Len(out) = Len(ms)
  BY StripKeepsShape DEF SameShape
<1>2. \A k \in 1..Len(ms) : out[k] = ms[k] \/ out[k] = [ms[k] EXCEPT !.images = FALSE]
  BY DEF StripHistoryImages
<1> HIDE DEF out
<1>3. ASSUME NEW k \in 1..Len(ms)
      PROVE  /\ MessageUTF8Size(out[k]) <= MessageUTF8Size(ms[k])
             /\ Small(ms[k]) => Small(out[k])
  <2>1. ms[k] \in Message
    OBVIOUS
  <2>2. MessageUTF8Size(ms[k]) \in Nat
    BY <2>1, MessageSizeNat
  <2>3. CASE out[k] = ms[k]
    BY <2>2, <2>3
  <2>4. CASE out[k] = [ms[k] EXCEPT !.images = FALSE]
    BY <2>1, <2>4, StripMessage
  <2> QED BY <1>2, <2>3, <2>4
<1>4. HistoryUTF8Size(out) <= HistoryUTF8Size(ms)
  BY <1>1, <1>3, SizeMonotone
<1>5. \A l \in Seq(Message) : HistoryUTF8Size(l) \in Nat
  BY SizeIsTotal DEF Running
<1>6. HistoryUTF8Size(out) \in Nat /\ HistoryUTF8Size(ms) \in Nat
  BY <1>1, <1>5
<1>7. Fits(ms, n, b) => Fits(out, n, b)
  BY <1>1, <1>4, <1>6 DEF Fits
<1>8. AllSmall(ms) => AllSmall(out)
  BY <1>1, <1>3 DEF AllSmall
<1> QED BY <1>1, <1>7, <1>8 DEF out

\* Truncating makes messages small, and leaves small ones as they are.
LEMMA TruncateMakesSmall ==
  ASSUME NEW ms \in Seq(Message)
  PROVE  LET cut == [i \in 1..Len(ms) |-> TruncateHistoryMessage(ms[i])] IN
         /\ AllSmall(cut)
         /\ AllSmall(ms) => cut = ms
<1> DEFINE cut == [i \in 1..Len(ms) |-> TruncateHistoryMessage(ms[i])]
<1>1. /\ MaxProviderToolBytes \in Nat /\ 4 * MaxProviderToolBytes \in Nat
      /\ MaxAssistantHistoryBytes \in Nat
  <2>1. MaxProviderToolBytes \in Nat /\ MaxAssistantHistoryBytes \in Nat
    BY HistoryConstants, Zenon
  <2> QED BY <2>1
<1>2. ASSUME NEW m \in Message PROVE Small(TruncateHistoryMessage(m))
  <2>1. m.size \in Nat
    BY DEF Message
  <2>2. CASE m.role = "tool" /\ m.text = "skill"
    BY <1>1, <2>1, <2>2 DEF Small, TruncateHistoryMessage, AtMost, Message
  <2>3. CASE m.role = "tool" /\ m.text # "skill"
    BY <1>1, <2>1, <2>3 DEF Small, TruncateHistoryMessage, AtMost, Message
  <2>4. CASE m.role = "assistant"
    BY <1>1, <2>1, <2>4 DEF Small, TruncateHistoryMessage, AtMost, Message
  <2>5. CASE m.role \notin {"tool", "assistant"}
    BY <2>5 DEF Small, TruncateHistoryMessage
  <2> QED BY <2>2, <2>3, <2>4, <2>5
<1>3. Len(cut) = Len(ms) /\ \A i \in 1..Len(ms) : cut[i] = TruncateHistoryMessage(ms[i])
  <2>1. SameShape(ms, cut)
    BY TruncateKeepsShape
  <2> QED BY <2>1 DEF SameShape
<1>4. \A i \in 1..Len(ms) : ms[i] \in Message
  OBVIOUS
<1>5. AllSmall(cut)
  <2> HIDE DEF cut
  <2> QED BY <1>2, <1>3, <1>4 DEF AllSmall
<1>6. AllSmall(ms) => cut = ms
  <2> SUFFICES ASSUME AllSmall(ms) PROVE cut = ms
    OBVIOUS
  <2>1. \A i \in 1..Len(ms) : TruncateHistoryMessage(ms[i]) = ms[i]
    BY DEF AllSmall, Small
  <2>2. ms = [i \in 1..Len(ms) |-> ms[i]]
    OBVIOUS
  <2> QED BY <2>1, <2>2
<1> QED BY <1>5, <1>6

\* CompactMessages returns small messages within its limits, and of such only
\* takes images.
LEMMA CompactSettles ==
  ASSUME NEW ms \in Seq(Message)
  PROVE  /\ CompactMessages(ms) \in Seq(Message)
         /\ AllSmall(CompactMessages(ms))
         /\ Fits(CompactMessages(ms), MaxHistoryMessages, MaxHistoryBytes)
         /\ AllSmall(ms) /\ Fits(ms, MaxHistoryMessages, MaxHistoryBytes)
              => CompactMessages(ms) = StripHistoryImages(ms)
<1> DEFINE cut == [i \in 1..Len(ms) |-> TruncateHistoryMessage(ms[i])]
           kept == DropUntilFits(cut, MaxHistoryMessages, MaxHistoryBytes)
<1>0. MaxHistoryMessages \in Nat /\ MaxHistoryBytes \in Nat
  BY HistoryConstants, Zenon
<1>1. cut \in Seq(Message)
  BY TruncateKeepsShape DEF SameShape
<1>2. AllSmall(cut) /\ (AllSmall(ms) => cut = ms)
  BY TruncateMakesSmall
<1>3. CompactMessages(ms) = StripHistoryImages(kept)
  BY DEF CompactMessages
<1> HIDE DEF cut
<1>4. kept \in Seq(Message) /\ AllSmall(kept) /\ Fits(kept, MaxHistoryMessages, MaxHistoryBytes)
  BY <1>0, <1>1, <1>2, DropKeepsSmall, DropFits
<1>5. AllSmall(ms) /\ Fits(ms, MaxHistoryMessages, MaxHistoryBytes) => kept = ms
  BY <1>2 DEF DropUntilFits
<1> HIDE DEF kept
<1> QED BY <1>0, <1>3, <1>4, <1>5, StripKeepsSmall

(***************************************************************************)
(* Compacting what compaction returned drops no message: another overflow  *)
(* of the same request is not answered by another compaction.              *)
(* (truncate.go:113-137, compaction.go:223-249)                            *)
(***************************************************************************)
THEOREM CompactingTwiceChangesNothing ==
  ASSUME NEW ms \in Seq(Message), NEW ratio \in Int
  PROVE  ~ CompactWithEntry(CompactMessagesToRatio(ms, ratio), ratio).changed
<1> DEFINE C == CompactMessagesToRatio(ms, ratio)
<1>a. ASSUME NEW l, CompactWithEntry(l, ratio).changed
      PROVE  Len(CompactMessagesToRatio(l, ratio)) < Len(l)
  BY <1>a DEF CompactWithEntry
<1>b. C \in Seq(Message)
  BY RatioKeepsAnswered
<1> SUFFICES Len(CompactMessagesToRatio(C, ratio)) = Len(C)
  <2>1. Len(C) \in Nat
    <3> HIDE DEF C
    <3> QED BY <1>b
  <2> HIDE DEF C
  <2>2. CompactWithEntry(C, ratio).changed => Len(CompactMessagesToRatio(C, ratio)) < Len(C)
    BY <1>a
  <2>3. ~ (Len(C) < Len(C))
    BY <2>1
  <2> QED BY <2>2, <2>3 DEF C
<1>0. /\ MaxHistoryMessages \in Nat /\ MaxHistoryBytes \in Nat
      /\ FloorMessages \in Nat /\ FloorBytes \in Nat
  BY HistoryConstants, Zenon
<1>1. CASE ratio <= 0 \/ ratio >= 100
  <2>1. C = CompactMessages(ms) /\ CompactMessagesToRatio(C, ratio) = CompactMessages(C)
    BY <1>1 DEF CompactMessagesToRatio
  <2>2. CompactMessages(C) = StripHistoryImages(C) /\ C \in Seq(Message)
    BY <2>1, CompactSettles
  <2>3. Len(StripHistoryImages(C)) = Len(C)
    BY <2>2, StripKeepsShape DEF SameShape
  <2> QED BY <2>1, <2>2, <2>3
<1>2. CASE ~ (ratio <= 0 \/ ratio >= 100)
  <2> DEFINE n == AtLeast((MaxHistoryMessages * ratio) \div 100, FloorMessages)
             b == AtLeast((MaxHistoryBytes * ratio) \div 100, FloorBytes)
             kept == DropUntilFits(CompactMessages(ms), n, b)
  <2>1. n \in Nat /\ b \in Nat
    <3>1. \A x \in Nat, y \in Nat : x * y \in Nat
      OBVIOUS
    <3>2. ratio \in Nat
      BY <1>2
    <3>3. MaxHistoryMessages * ratio \in Nat /\ MaxHistoryBytes * ratio \in Nat
      BY <1>0, <3>1, <3>2
    <3>4. \A x \in Nat : x \div 100 \in Nat
      OBVIOUS
    <3> QED BY <1>0, <3>3, <3>4 DEF AtLeast
  <2>2. /\ C = StripHistoryImages(kept)
        /\ CompactMessagesToRatio(C, ratio) =
             StripHistoryImages(DropUntilFits(CompactMessages(C), n, b))
    BY <1>2 DEF CompactMessagesToRatio
  <2> HIDE DEF n, b
  <2>3. /\ kept \in Seq(Message) /\ AllSmall(kept) /\ Fits(kept, n, b)
        /\ Fits(kept, MaxHistoryMessages, MaxHistoryBytes)
    BY <1>0, <2>1, CompactSettles, DropKeepsSmall, DropFits
  <2> HIDE DEF kept
  <2>4. /\ C \in Seq(Message) /\ AllSmall(C) /\ Fits(C, n, b)
        /\ Fits(C, MaxHistoryMessages, MaxHistoryBytes)
    BY <1>0, <2>1, <2>2, <2>3, StripKeepsSmall
  <2> HIDE DEF C
  <2> DEFINE D == StripHistoryImages(C)
  <2>5. CompactMessages(C) = D /\ D \in Seq(Message) /\ Len(D) = Len(C) /\ Fits(D, n, b)
    BY <2>1, <2>4, CompactSettles, StripKeepsSmall
  <2> HIDE DEF D
  <2>6. DropUntilFits(D, n, b) = D
    BY <2>5 DEF DropUntilFits
  <2>7. Len(StripHistoryImages(D)) = Len(D)
    BY <2>5, StripKeepsShape DEF SameShape
  <2> QED BY <2>2, <2>5, <2>6, <2>7
<1> QED BY <1>1, <1>2

\* The same of the entry the loop calls, once it has dropped something.
LEMMA EntryTwice ==
  ASSUME NEW ms \in Seq(Message), NEW ratio \in Int, CompactWithEntry(ms, ratio).changed
  PROVE  ~ CompactWithEntry(CompactWithEntry(ms, ratio).messages, ratio).changed
<1>1. CompactWithEntry(ms, ratio).messages = CompactMessagesToRatio(ms, ratio)
  BY DEF CompactWithEntry
<1> QED BY <1>1, CompactingTwiceChangesNothing

-----------------------------------------------------------------------------
(***************************************************************************)
(* The inductive invariant.  Between tool rounds the history is answered;  *)
(* inside a round its last message is the one the next answer follows.     *)
(***************************************************************************)
Leaving == {"return", "closed"}

Pending ==
    /\ idx \in 1..Len(round)
    /\ messages # <<>>
    /\ Linked(messages)
    /\ messages[Len(messages)].role \in {"assistant", "tool"}
    /\ messages[Len(messages)].calls = Len(round)
    /\ messages[Len(messages)].call = idx - 1

HistoryInv ==
    /\ pc \in Locations \ (InTool \cup Leaving) => Answered(messages)
    /\ pc \in InRetry => Answered(req)
    /\ pc \in InTool => Pending

\* The events sent so far, told from the location.
EventInv ==
    /\ pc \in {"interact", "execute", "output", "toolDone"} => open = idx
    /\ pc \in Locations \ ({"interact", "execute", "output", "toolDone"}
                             \cup Leaving) => open = 0
    /\ pc \notin Leaving => ended = "none"
    /\ lastErr = "cancel" => pc \in {"failed"} \cup Leaving
    /\ pc \in Leaving /\ ended = "none" => cancelled \/ lastErr = "cancel"
    /\ ended # "none" => open = 0 /\ lastErr # "cancel"

IInv == /\ TypeOK /\ HistoryInv /\ EventInv /\ ApprovedBeforeExecution

----------------------------------------------------------------------------

(***************************************************************************)
(* Appending a message that may follow the last one keeps the list linked. *)
(***************************************************************************)
LEMMA AppendKeepsLinked ==
  ASSUME NEW ms \in Seq(Message), NEW m \in Message, Linked(ms),
         ms = <<>> => m.role # "tool",
         ms # <<>> => MayFollow(ms[Len(ms)], m)
  PROVE  /\ Append(ms, m) \in Seq(Message)
         /\ Linked(Append(ms, m))
         /\ Append(ms, m) # <<>>
         /\ Append(ms, m)[Len(Append(ms, m))] = m
<1> DEFINE out == Append(ms, m)
<1>1. /\ out \in Seq(Message)
      /\ Len(out) = Len(ms) + 1
      /\ \A k \in 1..Len(ms) : out[k] = ms[k]
      /\ out[Len(ms) + 1] = m
  OBVIOUS
<1> HIDE DEF out
<1>2. out[1].role # "tool"
  <2>1. CASE ms = <<>>
    BY <1>1, <2>1
  <2>2. CASE ms # <<>>
    <3>1. Len(ms) > 0 /\ 1 \in 1..Len(ms)
      BY <2>2
    <3> QED BY <1>1, <3>1 DEF Linked
  <2> QED BY <2>1, <2>2
<1>3. ASSUME NEW k \in 1..(Len(out) - 1)
      PROVE  MayFollow(out[k], out[k + 1])
  <2>1. CASE k = Len(ms)
    BY <1>1, <2>1
  <2>2. CASE k < Len(ms)
    <3>1. k \in 1..(Len(ms) - 1) /\ k \in 1..Len(ms) /\ k + 1 \in 1..Len(ms)
      BY <2>2
    <3>2. MayFollow(ms[k], ms[k + 1])
      BY <3>1 DEF Linked
    <3> QED BY <1>1, <3>1, <3>2
  <2> QED BY <1>1, <2>1, <2>2
<1>4. Linked(out)
  BY <1>2, <1>3 DEF Linked
<1>5. out # <<>>
  BY <1>1
<1> QED BY <1>1, <1>4, <1>5 DEF out

(***************************************************************************)
(* After an answered history any message but a tool answer may come, and a *)
(* user message or an assistant message without calls leaves it answered.  *)
(***************************************************************************)
LEMMA AppendToAnswered ==
  ASSUME NEW ms \in Seq(Message), NEW m \in Message, Answered(ms),
         m.role # "tool"
  PROVE  /\ Append(ms, m) \in Seq(Message)
         /\ Linked(Append(ms, m))
         /\ Append(ms, m) # <<>>
         /\ Append(ms, m)[Len(Append(ms, m))] = m
         /\ CompleteAt(m) => Answered(Append(ms, m))
<1>1. ms # <<>> => MayFollow(ms[Len(ms)], m)
  <2>1. ms # <<>> => Len(ms) > 0
    OBVIOUS
  <2> QED BY <2>1 DEF Answered, MayFollow
<1>2. /\ Append(ms, m) \in Seq(Message)
      /\ Linked(Append(ms, m))
      /\ Append(ms, m) # <<>>
      /\ Append(ms, m)[Len(Append(ms, m))] = m
  BY <1>1, AppendKeepsLinked DEF Answered
<1> QED BY <1>2 DEF Answered

\* What the turn appends is a message.
LEMMA MessageTypes ==
  ASSUME NEW size \in Nat, NEW n \in Nat, NEW k \in Nat
  PROVE  /\ AssistantMessage(size, n) \in Message
         /\ \A img \in BOOLEAN, t \in Texts : UserMessage(t, size, img) \in Message
         /\ \A t \in {"blank", "skill"} : ToolMessage(t, size, n, k) \in Message
BY HistoryConstants
   DEF Message, Roles, AssistantMessage, UserMessage, ToolMessage

(***************************************************************************)
(* The messages a turn starts from are answered (messages.go:9-29).        *)
(***************************************************************************)
LEMMA PrepareKeepsAnswered ==
  ASSUME NEW h \in Seq(Message), Answered(h), NEW prompt \in Texts,
         NEW size \in Nat, NEW img \in BOOLEAN
  PROVE  /\ PrepareTurnMessages(h, prompt, size, img) \in Seq(Message)
         /\ Answered(PrepareTurnMessages(h, prompt, size, img))
<1> DEFINE m == UserMessage(prompt, size, img)
<1>1. CompactMessages(h) \in Seq(Message) /\ Answered(CompactMessages(h))
  BY CompactKeepsAnswered
<1>2. m \in Message /\ m.role # "tool" /\ CompleteAt(m)
  BY MessageTypes DEF UserMessage, CompleteAt
<1>3. /\ Append(CompactMessages(h), m) \in Seq(Message)
      /\ Answered(Append(CompactMessages(h), m))
  <2> HIDE DEF m
  <2> QED BY <1>1, <1>2, AppendToAnswered
<1> QED BY <1>1, <1>3 DEF PrepareTurnMessages

(***************************************************************************)
(* The answer to the call at hand keeps the list linked; the answer to the *)
(* last call of the round completes it.                                    *)
(***************************************************************************)
LEMMA AnswerKeepsLinked ==
  ASSUME TypeOK, Pending, NEW text \in {"blank", "skill"}, NEW size \in Nat
  PROVE  LET m   == ToolMessage(text, size, Len(round), idx)
             out == Append(messages, m)
         IN  /\ out \in Seq(Message)
             /\ Linked(out)
             /\ out # <<>>
             /\ out[Len(out)] = m
             /\ idx = Len(round) => Answered(out)
<1>0. /\ idx \in 1..Len(round) /\ Len(round) \in Nat /\ idx \in Nat
      /\ messages \in Seq(Message)
  BY DEF TypeOK, Pending
<1> DEFINE m   == ToolMessage(text, size, Len(round), idx)
           out == Append(messages, m)
<1>1. m \in Message /\ m.role = "tool" /\ m.calls = Len(round) /\ m.call = idx
  <2> QED BY <1>0, MessageTypes DEF ToolMessage
<1>2. MayFollow(messages[Len(messages)], m)
  <2> HIDE DEF m
  <2>1. /\ messages[Len(messages)].role \in {"assistant", "tool"}
        /\ messages[Len(messages)].calls = Len(round)
        /\ messages[Len(messages)].call = idx - 1
    BY DEF Pending
  <2> QED BY <1>0, <1>1, <2>1 DEF MayFollow
<1>3. out \in Seq(Message) /\ Linked(out) /\ out # <<>> /\ out[Len(out)] = m
  <2> HIDE DEF m
  <2> QED BY <1>0, <1>1, <1>2, AppendKeepsLinked DEF Pending
<1>4. idx = Len(round) => CompleteAt(m)
  <2> HIDE DEF m
  <2> QED BY <1>1 DEF CompleteAt
<1> QED BY <1>3, <1>4 DEF Answered

----------------------------------------------------------------------------

\* The history a turn starts with is answered.
LEMMA InitIInv == Init => IInv
<1> SUFFICES ASSUME Init PROVE IInv
  OBVIOUS
<1>1. messages \in Seq(Message) /\ Answered(messages)
  BY PrepareKeepsAnswered, TurnConstants DEF Init
<1>2. TypeOK
  <2>1. <<>> \in Seq(Message) /\ <<>> \in Seq(ToolKinds)
    OBVIOUS
  <2>2. mode \in TurnModes /\ 0 \in 0..TurnEventBuffer
    BY TurnConstants DEF Init
  <2>3. /\ pc = "start" /\ phase = 0 /\ step = 0
        /\ req = <<>> /\ attempt = 0 /\ compactions = 0
        /\ lastErr = "none" /\ streaming = FALSE
        /\ round = <<>> /\ idx = 1 /\ approved = FALSE
        /\ queued = 0 /\ open = 0 /\ ended = "none" /\ cancelled = FALSE
    BY DEF Init
  <2>4. streaming \in BOOLEAN /\ approved \in BOOLEAN /\ cancelled \in BOOLEAN
    BY <2>3, Zenon
  <2>5. idx \in Nat \ {0} /\ pc \in Locations
    BY <2>3 DEF Locations
  <2> QED BY <1>1, <2>1, <2>2, <2>3, <2>4, <2>5, Zenon DEF TypeOK
<1>3. HistoryInv
  BY <1>1 DEF Init, HistoryInv, InTool, InRetry, InCall, Leaving
<1>4. EventInv
  BY DEF Init, EventInv, Leaving
<1>5. ApprovedBeforeExecution
  BY DEF Init, ApprovedBeforeExecution
<1> QED BY <1>2, <1>3, <1>4, <1>5 DEF IInv

----------------------------------------------------------------------------

(***************************************************************************)
(* sendEvent keeps the channel within its buffer.                          *)
(***************************************************************************)
LEMMA SendEventStep ==
  ASSUME queued \in 0..TurnEventBuffer, NEW next, SendEvent(next)
  PROVE  /\ queued' \in 0..TurnEventBuffer
         /\ pc' = next \/ (pc' = "return" /\ cancelled)
BY TurnConstants DEF SendEvent

\* A send whose result the code ignores loses the event only after a cancel.
LEMMA SendIgnoredStep ==
  ASSUME queued \in 0..TurnEventBuffer, NEW next, SendIgnored(next)
  PROVE  /\ queued' \in 0..TurnEventBuffer
         /\ pc' = next
         /\ queued' = queued => cancelled
BY TurnConstants DEF SendIgnored

(***************************************************************************)
(* A step that moves the program counter and sends at most one event keeps *)
(* the invariant when the new location asks for nothing the old one did    *)
(* not already have.                                                       *)
(***************************************************************************)
Announced == {"interact", "execute", "output", "toolDone"}
Between   == Locations \ (InTool \cup Leaving)
Silent    == Locations \ (Announced \cup Leaving)

MoveOnly == UNCHANGED <<cancelled, loopVars, retryVars, toolVars, outVars>>

GoodMove ==
    /\ pc' \in Locations
    /\ pc' \in Between => pc \in Between
    /\ pc' \in InRetry => pc \in InRetry
    /\ pc' \in InTool => pc \in InTool
    /\ pc' \in Announced => pc \in Announced
    /\ pc' \in Silent => pc \in Silent
    /\ pc' \in Leaving => pc \in Leaving \/ cancelled \/ lastErr = "cancel"
    /\ pc \in Leaving => pc' \in Leaving
    /\ lastErr = "cancel" => pc' \in {"failed"} \cup Leaving
    /\ pc' \in {"execute", "output"} => pc \in {"execute", "output"}

\* A step that only moves the loop on.
LEMMA MoveKeepsIInv ==
  ASSUME IInv, MoveOnly, GoodMove, queued' \in 0..TurnEventBuffer
  PROVE  IInv'
<1> USE DEF MoveOnly, loopVars, retryVars, toolVars, outVars
<1>1. TypeOK'
  BY DEF IInv, TypeOK, GoodMove
<1>2. HistoryInv'
  BY DEF IInv, HistoryInv, GoodMove, Pending, Between
<1>3. EventInv'
  BY DEF IInv, EventInv, GoodMove, Announced, Silent
<1>4. ApprovedBeforeExecution'
  BY DEF IInv, ApprovedBeforeExecution, GoodMove
<1> QED BY <1>1, <1>2, <1>3, <1>4 DEF IInv

(***************************************************************************)
(* The steps of that kind.                                                 *)
(***************************************************************************)
LEMMA MoveStep ==
  ASSUME IInv,
         \/ RunTurn \/ PhaseWait \/ Connecting \/ Thinking \/ StepLimit
         \/ NextStep \/ FirstAttempt \/ RetryAttempt \/ GiveUp
         \/ NotifyCompact \/ NotifyRetry \/ Delta \/ DeltaSend \/ Failed
         \/ CallTooLate \/ ToolActivity \/ InteractResolves \/ InteractAborts
         \/ ToolOutput \/ ToolOutputSend \/ ToolReturns \/ Close \/ Receive
  PROVE  IInv'
<1>0. /\ queued \in 0..TurnEventBuffer /\ mode \in TurnModes /\ pc \in Locations
      /\ lastErr = "cancel" => pc \in {"failed"} \cup Leaving
  BY DEF IInv, TypeOK, EventInv
<1>1. MoveOnly /\ queued' \in 0..TurnEventBuffer
  BY <1>0, SendEventStep, SendIgnoredStep, TurnConstants
     DEF RunTurn, PhaseWait, Connecting, Thinking, StepLimit, NextStep,
         FirstAttempt, RetryAttempt, GiveUp, NotifyCompact, NotifyRetry, Notify,
         Delta, DeltaSend, Failed, CallTooLate, ToolActivity, InteractResolves,
         InteractAborts, ToolOutput, ToolOutputSend, ToolReturns, Close,
         Receive, MoveOnly
<1> USE DEF GoodMove, Locations, Between, Silent, Announced, Leaving, InTool,
            InRetry, InCall
<1>2. CASE RunTurn \/ PhaseWait \/ StepLimit \/ FirstAttempt \/ RetryAttempt \/ GiveUp
  <2>1. GoodMove
    BY <1>0, <1>2 DEF RunTurn, PhaseWait, StepLimit, FirstAttempt, RetryAttempt, GiveUp
  <2> QED BY <1>1, <2>1, MoveKeepsIInv
<1>3. CASE Connecting \/ Thinking \/ NextStep \/ ToolActivity
  <2>1. GoodMove
    BY <1>0, <1>3 DEF Connecting, Thinking, NextStep, ToolActivity, SendEvent
  <2> QED BY <1>1, <2>1, MoveKeepsIInv
<1>4. CASE NotifyCompact \/ NotifyRetry \/ DeltaSend \/ ToolOutputSend
  <2>1. GoodMove
    BY <1>0, <1>4 DEF NotifyCompact, NotifyRetry, Notify, DeltaSend,
                      ToolOutputSend, SendIgnored
  <2> QED BY <1>1, <2>1, MoveKeepsIInv
<1>5. CASE Delta \/ Failed \/ CallTooLate \/ Close \/ Receive
  <2>1. GoodMove
    BY <1>0, <1>5 DEF Delta, Failed, CallTooLate, Close, Receive
  <2> QED BY <1>1, <2>1, MoveKeepsIInv
<1>6. CASE InteractResolves \/ InteractAborts \/ ToolOutput \/ ToolReturns
  <2>1. GoodMove
    BY <1>0, <1>6 DEF InteractResolves, InteractAborts, ToolOutput, ToolReturns
  <2> QED BY <1>1, <2>1, MoveKeepsIInv
<1> QED BY <1>2, <1>3, <1>4, <1>5, <1>6

(***************************************************************************)
(* The retry loop: a request starts from the answered messages and a       *)
(* compaction keeps it answered.                                           *)
(***************************************************************************)
LEMMA RetryStep ==
  ASSUME IInv, \/ PhaseSend \/ Request \/ CompactAttempt \/ Backoff \/ Cancel
               \/ \E e \in Errors : CallFails(e)
  PROVE  IInv'
<1> USE DEF Locations, Leaving, InTool, InRetry, InCall
<1>0. /\ TypeOK /\ HistoryInv /\ EventInv /\ ApprovedBeforeExecution
      /\ queued \in 0..TurnEventBuffer
  BY DEF IInv, TypeOK
<1>1. CASE PhaseSend
  <2>1. queued' \in 0..TurnEventBuffer /\ pc' \in {"phaseWait", "return"}
    BY <1>0, <1>1, SendEventStep DEF PhaseSend
  <2>2. pc' = "return" => cancelled
    BY <1>1 DEF PhaseSend, SendEvent
  <2>3. TypeOK'
    BY <1>0, <1>1, <2>1 DEF PhaseSend, TypeOK, retryVars, toolVars, outVars
  <2>4. HistoryInv' /\ EventInv' /\ ApprovedBeforeExecution'
    BY <1>0, <1>1, <2>1, <2>2
       DEF PhaseSend, HistoryInv, EventInv, ApprovedBeforeExecution, retryVars,
           toolVars, outVars
  <2> QED BY <2>3, <2>4 DEF IInv
<1>2. CASE Request
  <2>1. TypeOK'
    BY <1>0, <1>2 DEF Request, TypeOK, loopVars, toolVars, outVars
  <2>2. HistoryInv' /\ EventInv' /\ ApprovedBeforeExecution'
    BY <1>0, <1>2 DEF Request, HistoryInv, EventInv, ApprovedBeforeExecution,
                      loopVars, toolVars, outVars
  <2> QED BY <2>1, <2>2 DEF IInv
<1>3. CASE CompactAttempt
  <2>1. req' \in Seq(Message) /\ Answered(req')
    BY <1>0, <1>3, EntryKeepsAnswered DEF CompactAttempt, HistoryInv, TypeOK
  <2>2. TypeOK'
    BY <1>0, <1>3, <2>1 DEF CompactAttempt, TypeOK, loopVars, toolVars, outVars
  <2>3. HistoryInv' /\ EventInv' /\ ApprovedBeforeExecution'
    BY <1>0, <1>3, <2>1
       DEF CompactAttempt, HistoryInv, EventInv, ApprovedBeforeExecution,
           loopVars, toolVars, outVars
  <2> QED BY <2>2, <2>3 DEF IInv
<1>4. CASE Backoff
  <2>1. TypeOK'
    <3>1. streaming' \in BOOLEAN
      BY <1>0, <1>4 DEF Backoff, TypeOK
    <3> QED BY <1>0, <1>4, <3>1 DEF Backoff, TypeOK, loopVars, toolVars, outVars
  <2>2. HistoryInv' /\ EventInv' /\ ApprovedBeforeExecution'
    BY <1>0, <1>4 DEF Backoff, HistoryInv, EventInv, ApprovedBeforeExecution,
                      loopVars, toolVars, outVars
  <2> QED BY <2>1, <2>2 DEF IInv
<1>5. CASE Cancel
  <2>1. TypeOK'
    BY <1>0, <1>5 DEF Cancel, TypeOK, loopVars, retryVars, toolVars, outVars
  <2>2. HistoryInv' /\ EventInv' /\ ApprovedBeforeExecution'
    BY <1>0, <1>5 DEF Cancel, HistoryInv, EventInv, ApprovedBeforeExecution,
                      Pending, loopVars, retryVars, toolVars, outVars
  <2> QED BY <2>1, <2>2 DEF IInv
<1>6. CASE \E e \in Errors : CallFails(e)
  <2>1. PICK e \in Errors : CallFails(e)
    BY <1>6
  <2>2. TypeOK'
    BY <1>0, <2>1 DEF CallFails, TypeOK, loopVars, toolVars, outVars
  <2>3. e = "cancel" => pc' = "failed"
    BY <2>1 DEF CallFails, ShouldRetryProvider
  <2>4. HistoryInv' /\ EventInv' /\ ApprovedBeforeExecution'
    BY <1>0, <2>1, <2>3
       DEF CallFails, HistoryInv, EventInv, ApprovedBeforeExecution, loopVars,
           toolVars, outVars
  <2> QED BY <2>2, <2>4 DEF IInv
<1> QED BY <1>1, <1>2, <1>3, <1>4, <1>5, <1>6

(***************************************************************************)
(* The provider answers: a final answer leaves the history answered, a     *)
(* round of tool calls leaves it waiting for the first answer.             *)
(***************************************************************************)
LEMMA AnswerStep ==
  ASSUME IInv,
         \/ \E s \in Sizes, blank \in BOOLEAN : CallAnswers(s, blank)
         \/ \E s \in Sizes, r \in Calls : CallAsksForTools(s, r)
  PROVE  IInv'
<1> USE DEF Locations, Leaving, InTool, InRetry, InCall
<1>0. /\ TypeOK /\ HistoryInv /\ EventInv /\ ApprovedBeforeExecution
      /\ messages \in Seq(Message)
  BY DEF IInv, TypeOK
<1>1. CASE \E s \in Sizes, blank \in BOOLEAN : CallAnswers(s, blank)
  <2>1. PICK s \in Sizes, blank \in BOOLEAN : CallAnswers(s, blank)
    BY <1>1
  <2> DEFINE m == AssistantMessage(s, 0)
  <2>2. m \in Message /\ m.role # "tool" /\ CompleteAt(m)
    BY MessageTypes, TurnConstants DEF AssistantMessage, CompleteAt
  <2>3. Answered(messages)
    BY <1>0, <2>1 DEF CallAnswers, HistoryInv
  <2>4. messages' \in Seq(Message) /\ Answered(messages')
    <3>1. Append(messages, m) \in Seq(Message) /\ Answered(Append(messages, m))
      <4> HIDE DEF m
      <4> QED BY <1>0, <2>2, <2>3, AppendToAnswered
    <3> QED BY <1>0, <2>1, <2>3, <3>1 DEF CallAnswers
  <2>5. TypeOK'
    BY <1>0, <2>1, <2>4 DEF CallAnswers, TypeOK, toolVars, outVars
  <2>6. HistoryInv' /\ EventInv' /\ ApprovedBeforeExecution'
    BY <1>0, <2>1, <2>4 DEF CallAnswers, HistoryInv, EventInv,
                            ApprovedBeforeExecution, toolVars, outVars
  <2> QED BY <2>5, <2>6 DEF IInv
<1>2. CASE \E s \in Sizes, r \in Calls : CallAsksForTools(s, r)
  <2>1. PICK s \in Sizes, r \in Calls : CallAsksForTools(s, r)
    BY <1>2
  <2>2. r \in Seq(ToolKinds) /\ Len(r) \in Nat /\ 1 \in 1..Len(r)
    BY TurnConstants DEF Calls
  <2> DEFINE m == AssistantMessage(s, Len(r))
  <2>3. m \in Message /\ m.role = "assistant" /\ m.calls = Len(r) /\ m.call = 0
    BY <2>2, MessageTypes, TurnConstants DEF AssistantMessage
  <2>4. Answered(messages)
    BY <1>0, <2>1 DEF CallAsksForTools, HistoryInv
  <2>5. /\ messages' = Append(messages, m)
        /\ messages' \in Seq(Message) /\ Linked(messages') /\ messages' # <<>>
        /\ messages'[Len(messages')] = m
    <3>1. messages' = Append(messages, m)
      BY <2>1 DEF CallAsksForTools
    <3> HIDE DEF m
    <3> QED BY <1>0, <2>3, <2>4, <3>1, AppendToAnswered
  <2>6. round' = r /\ idx' = 1 /\ pc' = "toolActivity" /\ approved' = FALSE
    BY <2>1 DEF CallAsksForTools
  <2>7. TypeOK'
    <3>1. approved' \in BOOLEAN
      BY <2>6
    <3> QED BY <1>0, <2>1, <2>2, <2>5, <2>6, <3>1
               DEF CallAsksForTools, TypeOK, outVars
  <2>8. Pending'
    <3> HIDE DEF m
    <3> QED BY <2>2, <2>3, <2>5, <2>6 DEF Pending
  <2>9. HistoryInv' /\ EventInv' /\ ApprovedBeforeExecution'
    BY <1>0, <2>1, <2>6, <2>8 DEF CallAsksForTools, HistoryInv, EventInv,
                                  ApprovedBeforeExecution, outVars
  <2> QED BY <2>7, <2>9 DEF IInv
<1> QED BY <1>1, <1>2

(***************************************************************************)
(* One tool call, from its announcement to the end of its round.           *)
(***************************************************************************)
LEMMA ToolStep ==
  ASSUME IInv,
         \/ ToolStart \/ InteractApproves
         \/ \E s \in Sizes, t \in {"blank", "skill"} : ToolDone(t, s)
  PROVE  IInv'
<1> USE DEF Locations, Leaving, InTool, InRetry, InCall
<1>0. /\ TypeOK /\ HistoryInv /\ EventInv /\ ApprovedBeforeExecution
      /\ queued \in 0..TurnEventBuffer /\ round \in Seq(ToolKinds)
  BY DEF IInv, TypeOK
<1>1. CASE ToolStart
  <2>1. /\ pc = "toolStart"
        /\ queued' \in 0..TurnEventBuffer
        /\ pc' \in {"toolDone", "interact", "execute", "return"}
        /\ pc' = "return" => cancelled
        /\ pc' = "execute" => ~NeedsInteract(round[idx])
        /\ open' = IF pc' = "return" THEN open ELSE idx
        /\ UNCHANGED <<cancelled, loopVars, retryVars, toolVars, ended>>
    BY <1>0, <1>1, TurnConstants DEF ToolStart, SendEvent
  <2>2. TypeOK'
    <3>1. open' \in Nat
      BY <1>0, <2>1 DEF TypeOK
    <3> QED BY <1>0, <2>1, <3>1 DEF TypeOK, loopVars, retryVars, toolVars
  <2>3. HistoryInv'
    BY <1>0, <2>1 DEF HistoryInv, Pending, loopVars, retryVars, toolVars
  <2>4. EventInv'
    BY <1>0, <2>1 DEF EventInv, loopVars, retryVars, toolVars
  <2>5. ApprovedBeforeExecution'
    BY <1>0, <2>1 DEF ApprovedBeforeExecution, NeedsInteract, toolVars
  <2> QED BY <2>2, <2>3, <2>4, <2>5 DEF IInv
<1>2. CASE InteractApproves
  <2>1. TypeOK'
    <3>1. approved' \in BOOLEAN
      BY <1>2 DEF InteractApproves
    <3> QED BY <1>0, <1>2, <3>1 DEF InteractApproves, TypeOK, loopVars,
                                    retryVars, outVars
  <2>2. HistoryInv' /\ EventInv' /\ ApprovedBeforeExecution'
    BY <1>0, <1>2 DEF InteractApproves, HistoryInv, EventInv, Pending,
                      ApprovedBeforeExecution, loopVars, retryVars, outVars
  <2> QED BY <2>1, <2>2 DEF IInv
<1>3. CASE \E s \in Sizes, t \in {"blank", "skill"} : ToolDone(t, s)
  <2>1. PICK s \in Sizes, t \in {"blank", "skill"} : ToolDone(t, s)
    BY <1>3
  <2> DEFINE m   == ToolMessage(t, s, Len(round), idx)
             out == Append(messages, m)
  <2>2. Pending
    BY <1>0, <2>1 DEF ToolDone, HistoryInv
  <2>3. /\ out \in Seq(Message) /\ Linked(out) /\ out # <<>>
        /\ out[Len(out)] = m
        /\ idx = Len(round) => Answered(out)
    <3>1. s \in Nat
      BY TurnConstants
    <3> QED BY <1>0, <2>2, <3>1, AnswerKeepsLinked
  <2>4. m.role = "tool" /\ m.calls = Len(round) /\ m.call = idx
    BY DEF ToolMessage
  <2>5. /\ pc = "toolDone"
        /\ UNCHANGED <<cancelled, mode, phase, retryVars, ended>>
    BY <2>1 DEF ToolDone
  <2>6. /\ queued' \in 0..TurnEventBuffer
        /\ \/ pc' = IF idx = Len(round) THEN "stepTop" ELSE "toolActivity"
           \/ pc' = "return" /\ cancelled
    BY <1>0, <2>1, SendEventStep DEF ToolDone
  <2> HIDE DEF m
  <2>7. CASE pc' = "return"
    <3>1. UNCHANGED <<open, messages, step, toolVars>>
      BY <2>1, <2>7 DEF ToolDone
    <3>2. TypeOK'
      BY <1>0, <2>5, <2>6, <2>7, <3>1 DEF TypeOK, retryVars, toolVars
    <3>3. HistoryInv' /\ EventInv' /\ ApprovedBeforeExecution'
      BY <1>0, <2>5, <2>6, <2>7, <3>1
         DEF HistoryInv, EventInv, ApprovedBeforeExecution, retryVars, toolVars
    <3> QED BY <3>2, <3>3 DEF IInv
  <2>8. CASE idx # Len(round) /\ pc' # "return"
    <3>1. /\ open' = 0 /\ messages' = out /\ step' = step /\ round' = round
          /\ idx' = idx + 1 /\ approved' = FALSE /\ pc' = "toolActivity"
      BY <2>1, <2>6, <2>8 DEF ToolDone, m
    <3> HIDE DEF out
    <3>2. TypeOK'
      <4>1. approved' \in BOOLEAN
        BY <3>1
      <4>2. idx' \in Nat \ {0}
        BY <1>0, <3>1 DEF TypeOK
      <4>3. pc' \in Locations
        BY <3>1 DEF Locations
      <4> QED BY <1>0, <2>3, <2>5, <2>6, <3>1, <4>1, <4>2, <4>3, Zenon
              DEF TypeOK, retryVars
    <3>3. Pending'
      <4>1. idx' \in 1..Len(round')
        BY <1>0, <2>2, <2>8, <3>1 DEF Pending
      <4>2. idx' - 1 = idx
        BY <2>2, <3>1 DEF Pending
      <4> QED BY <2>3, <2>4, <3>1, <4>1, <4>2 DEF Pending
    <3>4. HistoryInv' /\ EventInv' /\ ApprovedBeforeExecution'
      BY <1>0, <2>5, <3>1, <3>3
         DEF HistoryInv, EventInv, ApprovedBeforeExecution, retryVars
    <3> QED BY <3>2, <3>4 DEF IInv
  <2>9. CASE idx = Len(round) /\ pc' # "return"
    <3>1. /\ open' = 0 /\ messages' = CompactMessages(out) /\ round' = <<>>
          /\ step' \in {step, step + 1} /\ idx' = 1 /\ approved' = FALSE
          /\ pc' = "stepTop"
      BY <2>1, <2>6, <2>9 DEF ToolDone, m
    <3> HIDE DEF out
    <3>2. messages' \in Seq(Message) /\ Answered(messages')
      BY <2>3, <2>9, <3>1, CompactKeepsAnswered
    <3>3. TypeOK'
      <4>1. approved' \in BOOLEAN
        BY <3>1
      <4>2. step' \in Nat /\ idx' \in Nat \ {0} /\ open' \in Nat
        BY <1>0, <3>1 DEF TypeOK
      <4>3. round' \in Seq(ToolKinds)
        BY <3>1
      <4>4. pc' \in Locations
        BY <3>1 DEF Locations
      <4> QED BY <1>0, <2>5, <2>6, <3>2, <4>1, <4>2, <4>3, <4>4, Zenon
              DEF TypeOK, retryVars
    <3>4. HistoryInv' /\ EventInv' /\ ApprovedBeforeExecution'
      BY <1>0, <2>5, <3>1, <3>2
         DEF HistoryInv, EventInv, ApprovedBeforeExecution, retryVars
    <3> QED BY <3>3, <3>4 DEF IInv
  <2> QED BY <2>7, <2>8, <2>9
<1> QED BY <1>1, <1>2, <1>3

(***************************************************************************)
(* The TurnDone event: it is sent, or the context was done.                *)
(***************************************************************************)
LEMMA FinishStep ==
  ASSUME IInv, Finish
  PROVE  IInv'
<1> USE DEF Locations, Leaving, InTool, InRetry, InCall
<1>0. /\ TypeOK /\ HistoryInv /\ EventInv /\ ApprovedBeforeExecution
      /\ queued \in 0..TurnEventBuffer
  BY DEF IInv, TypeOK
<1>1. /\ queued' \in 0..TurnEventBuffer
      /\ pc = "finish" /\ pc' = "return"
      /\ queued' = queued => cancelled
      /\ ended' = IF queued' = queued THEN ended
                  ELSE IF lastErr = "none" THEN "done" ELSE "error"
      /\ UNCHANGED <<cancelled, loopVars, retryVars, toolVars, open>>
  BY <1>0, SendIgnoredStep DEF Finish
<1>2. TypeOK'
  <2>1. ended' \in {"none", "done", "error"}
    BY <1>0, <1>1 DEF TypeOK
  <2> QED BY <1>0, <1>1, <2>1 DEF TypeOK, loopVars, retryVars, toolVars
<1>3. HistoryInv' /\ EventInv' /\ ApprovedBeforeExecution'
  BY <1>0, <1>1 DEF HistoryInv, EventInv, ApprovedBeforeExecution, loopVars,
                    retryVars, toolVars
<1> QED BY <1>2, <1>3 DEF IInv

\* Every step keeps the invariant of the turn.
LEMMA NextIInv == IInv /\ [Next]_vars => IInv'
<1> SUFFICES ASSUME IInv, [Next]_vars PROVE IInv'
  OBVIOUS
<1>1. CASE UNCHANGED vars
  BY <1>1 DEF IInv, TypeOK, HistoryInv, EventInv, ApprovedBeforeExecution,
              Pending, vars, loopVars, retryVars, toolVars, outVars
<1>2. CASE Next
  BY <1>1, <1>2, MoveStep, RetryStep, AnswerStep, ToolStep, FinishStep
     DEF Next, Run, ProviderReturns, HostAnswers, Over
<1> QED BY <1>1, <1>2

(***************************************************************************)
(* The invariant holds of the specification.                               *)
(***************************************************************************)
THEOREM TurnInvariant == Spec => []IInv
BY InitIInv, NextIInv, PTL DEF Spec

(***************************************************************************)
(* Type correctness (loop.go:39-172, provider_retry.go:73-158).            *)
(***************************************************************************)
THEOREM TurnTypeOK == Spec => []TypeOK
<1>1. IInv => TypeOK
  BY DEF IInv
<1> QED BY <1>1, TurnInvariant, PTL

(***************************************************************************)
(* Whatever the limits, the provider's answers and the order of rounds,    *)
(* compactions and retries, no request and no returned history holds an    *)
(* orphaned tool message or an unanswered tool call.                       *)
(***************************************************************************)
THEOREM TurnRequestsAnswered == Spec => []RequestsAnswered
<1>1. IInv => RequestsAnswered
  BY DEF IInv, HistoryInv, RequestsAnswered, Locations, InTool, Leaving,
         InRetry, InCall
<1> QED BY <1>1, TurnInvariant, PTL

(***************************************************************************)
(* No tool that requires approval runs without it (loop.go:180-206).       *)
(***************************************************************************)
THEOREM TurnApproval == Spec => []ApprovedBeforeExecution
<1>1. IInv => ApprovedBeforeExecution
  BY DEF IInv
<1> QED BY <1>1, TurnInvariant, PTL

(***************************************************************************)
(* A turn that closes its channel without TurnDone was cancelled, by the   *)
(* user or by the provider (loop.go:99-114).                               *)
(***************************************************************************)
THEOREM TurnNoSilentEnd == Spec => []NoSilentEnd
<1>1. IInv => NoSilentEnd
  BY DEF IInv, EventInv, NoSilentEnd, Leaving
<1> QED BY <1>1, TurnInvariant, PTL

----------------------------------------------------------------------------
(***************************************************************************)
(* A request that was compacted would not be compacted again.              *)
(***************************************************************************)
CompactedInv ==
    /\ compactions \in {0, 1}
    /\ compactions = 1 => ~CompactWithEntry(req, AutoCompactLimit).changed

\* Only a new request and a compaction change the request.
LEMMA RequestStays ==
  ASSUME [Next]_vars, ~Request, ~CompactAttempt
  PROVE  UNCHANGED <<req, compactions>>
<1>1. CASE UNCHANGED vars
  BY <1>1 DEF vars, retryVars
<1>2. CASE RunTurn \/ PhaseWait \/ PhaseSend \/ Connecting \/ Thinking \/ StepLimit \/ NextStep
  BY <1>2 DEF RunTurn, PhaseWait, PhaseSend, Connecting, Thinking, StepLimit, NextStep, retryVars
<1>3. CASE FirstAttempt \/ RetryAttempt \/ GiveUp \/ NotifyCompact \/ NotifyRetry \/ Backoff
  BY <1>3 DEF FirstAttempt, RetryAttempt, GiveUp, NotifyCompact, NotifyRetry, Notify, Backoff, retryVars
<1>4. CASE DeltaSend \/ Failed \/ ToolActivity \/ ToolStart \/ InteractAborts \/ ToolOutputSend
  BY <1>4 DEF DeltaSend, Failed, ToolActivity, ToolStart, InteractAborts, ToolOutputSend, retryVars
<1>5. CASE (\E s \in Sizes, t \in {"blank", "skill"} : ToolDone(t, s)) \/ Finish \/ Close
  BY <1>5 DEF ToolDone, Finish, Close, retryVars
<1>6. CASE ProviderReturns
  BY <1>6 DEF ProviderReturns, CallFails, CallTooLate, CallAnswers, CallAsksForTools, retryVars
<1>7. CASE HostAnswers \/ Delta \/ ToolOutput \/ ToolReturns
  BY <1>7 DEF HostAnswers, InteractApproves, InteractResolves, Delta, ToolOutput, ToolReturns, retryVars
<1>8. CASE Cancel \/ Receive \/ Over
  BY <1>8 DEF Cancel, Receive, Over, vars, retryVars
<1> QED BY <1>1, <1>2, <1>3, <1>4, <1>5, <1>6, <1>7, <1>8 DEF Next, Run

\* Every step keeps it, CompactAttempt because compacting twice changes nothing.
LEMMA CompactedStep == IInv /\ CompactedInv /\ [Next]_vars => CompactedInv'
<1> SUFFICES ASSUME IInv, CompactedInv, [Next]_vars PROVE CompactedInv'
  OBVIOUS
<1>1. CASE Request
  BY <1>1 DEF Request, CompactedInv
<1>2. CASE CompactAttempt
  <2>1. /\ CompactWithEntry(req, AutoCompactLimit).changed
        /\ req' = CompactWithEntry(req, AutoCompactLimit).messages
        /\ compactions' = compactions + 1
    BY <1>2 DEF CompactAttempt, Compactable
  <2>2. compactions = 0
    BY <2>1 DEF CompactedInv
  <2>3. req \in Seq(Message)
    BY DEF IInv, TypeOK
  <2>4. AutoCompactLimit \in Int
    BY TurnConstants
  <2>5. ~CompactWithEntry(req', AutoCompactLimit).changed
    BY <2>1, <2>3, <2>4, EntryTwice
  <2> QED BY <2>1, <2>2, <2>5 DEF CompactedInv
<1>3. CASE ~Request /\ ~CompactAttempt
  <2>1. UNCHANGED <<req, compactions>>
    BY <1>3, RequestStays
  <2> QED BY <2>1 DEF CompactedInv
<1> QED BY <1>1, <1>2, <1>3

(***************************************************************************)
(* However often the provider rejects a request as too large, it is        *)
(* compacted at most once (provider_retry.go:94-121).                      *)
(***************************************************************************)
THEOREM TurnCompactedAtMostOnce == Spec => []CompactedAtMostOnce
<1>1. Init => CompactedInv
  BY DEF Init, CompactedInv
<1>2. CompactedInv => CompactedAtMostOnce
  BY DEF CompactedInv, CompactedAtMostOnce
<1>3. Spec => []CompactedInv
  BY <1>1, CompactedStep, TurnInvariant, PTL DEF Spec
<1> QED BY <1>2, <1>3, PTL

----------------------------------------------------------------------------
(***************************************************************************)
(* A step that closes nothing, sends no TurnDone, opens and ends no tool   *)
(* call and is no cancellation is not seen by the contract.                *)
(***************************************************************************)
LEMMA Unseen ==
  ASSUME UNCHANGED <<open, ended, cancelled>>,
         pc # "closed", pc' # "closed",
         (lastErr = "cancel") <=> (lastErr' = "cancel")
  PROVE  UNCHANGED Contract!cvars
BY DEF Contract!cvars

(***************************************************************************)
(* The steps of a tool call that the reader sees (loop.go:130-156).        *)
(***************************************************************************)
LEMMA ToolStartAllowed ==
  ASSUME IInv, ToolStart
  PROVE  [Contract!Next]_Contract!cvars
<1> USE DEF Locations, Leaving, InTool, InRetry, InCall
<1>1. /\ pc = "toolStart" /\ open = 0 /\ ended = "none" /\ lastErr # "cancel"
      /\ idx \in Nat \ {0}
  BY DEF IInv, EventInv, TypeOK, ToolStart
<1>2. /\ UNCHANGED <<ended, cancelled, lastErr>> /\ pc' # "closed"
      /\ open' = IF pc' = "return" THEN open ELSE idx
  BY <1>1 DEF ToolStart, SendEvent, retryVars
<1>3. CASE pc' = "return"
  BY <1>1, <1>2, <1>3, Unseen
<1>4. CASE pc' # "return"
  <2>1. Contract!StartTool
    BY <1>1, <1>2, <1>4 DEF Contract!StartTool
  <2> QED BY <2>1 DEF Contract!Next
<1> QED BY <1>3, <1>4

\* A tool that reports its end ends one that is open.
LEMMA ToolDoneAllowed ==
  ASSUME IInv, NEW text, NEW size, ToolDone(text, size)
  PROVE  [Contract!Next]_Contract!cvars
<1> USE DEF Locations, Leaving, InTool, InRetry, InCall
<1>1. /\ pc = "toolDone" /\ open = idx /\ ended = "none" /\ lastErr # "cancel"
      /\ idx \in Nat \ {0}
  BY DEF IInv, EventInv, TypeOK, ToolDone
<1>2. /\ UNCHANGED <<ended, cancelled, lastErr>> /\ pc' # "closed"
      /\ pc' = "return" => open' = open
      /\ pc' # "return" => open' = 0
  BY <1>1 DEF ToolDone, SendEvent, retryVars
<1>3. CASE pc' = "return"
  BY <1>1, <1>2, <1>3, Unseen
<1>4. CASE pc' # "return"
  <2>1. Contract!FinishTool
    BY <1>1, <1>2, <1>4 DEF Contract!FinishTool
  <2> QED BY <2>1 DEF Contract!Next
<1> QED BY <1>3, <1>4

(***************************************************************************)
(* The end of a turn: the failure of its provider, TurnDone, the close of  *)
(* the channel (loop.go:99-114, turn.go:32-33).                            *)
(***************************************************************************)
LEMMA FailureAllowed ==
  ASSUME IInv, NEW e \in Errors, CallFails(e)
  PROVE  [Contract!Next]_Contract!cvars
<1> USE DEF Locations, Leaving, InTool, InRetry, InCall
<1>1. /\ pc \in {"call", "callCompact"} /\ open = 0 /\ ended = "none" /\ lastErr # "cancel"
  BY DEF IInv, EventInv, TypeOK, CallFails
<1>2. /\ UNCHANGED <<open, ended, cancelled>> /\ pc' # "closed" /\ lastErr' = e
  BY <1>1 DEF CallFails, outVars
<1>3. CASE e = "cancel"
  <2>1. Contract!Quit
    BY <1>1, <1>2, <1>3 DEF Contract!Quit
  <2> QED BY <2>1 DEF Contract!Next
<1>4. CASE e # "cancel"
  BY <1>1, <1>2, <1>4, Unseen
<1> QED BY <1>3, <1>4

\* The done event comes when no tool is open.
LEMMA FinishAllowed ==
  ASSUME IInv, Finish
  PROVE  [Contract!Next]_Contract!cvars
<1> USE DEF Locations, Leaving, InTool, InRetry, InCall
<1>1. /\ pc = "finish" /\ pc' = "return" /\ open = 0 /\ ended = "none"
      /\ lastErr # "cancel" /\ UNCHANGED <<open, cancelled, lastErr>>
      /\ ended' \in {"none", "done", "error"}
  BY DEF IInv, EventInv, Finish, SendIgnored, retryVars
<1>2. CASE ended' = "none"
  BY <1>1, <1>2, Unseen
<1>3. CASE ended' # "none"
  <2>1. Contract!TurnDone
    BY <1>1, <1>3 DEF Contract!TurnDone
  <2> QED BY <2>1 DEF Contract!Next
<1> QED BY <1>2, <1>3

\* The channel is closed after the last event.
LEMMA CloseAllowed ==
  ASSUME IInv, Close
  PROVE  [Contract!Next]_Contract!cvars
<1>1. /\ pc = "return" /\ pc' = "closed" /\ UNCHANGED <<open, ended, cancelled, lastErr>>
      /\ ended = "none" => cancelled \/ lastErr = "cancel"
  BY DEF IInv, EventInv, Leaving, Close, outVars, retryVars
<1>2. Contract!Close
  BY <1>1 DEF Contract!Close
<1> QED BY <1>2 DEF Contract!Next

(***************************************************************************)
(* Every other step of the turn is hidden from the reader.                 *)
(***************************************************************************)
LEMMA HiddenSteps ==
  ASSUME IInv,
         \/ RunTurn \/ PhaseWait \/ PhaseSend \/ Connecting \/ Thinking
         \/ StepLimit \/ NextStep \/ FirstAttempt \/ CompactAttempt \/ RetryAttempt
         \/ GiveUp \/ NotifyCompact \/ NotifyRetry \/ Backoff \/ DeltaSend \/ Failed
         \/ ToolActivity \/ InteractAborts \/ ToolOutputSend \/ CallTooLate
         \/ InteractApproves \/ InteractResolves \/ Delta \/ ToolOutput \/ ToolReturns
  PROVE  UNCHANGED Contract!cvars
<1>1. UNCHANGED <<open, ended, cancelled, lastErr>>
  BY DEF RunTurn, PhaseWait, PhaseSend, Connecting, Thinking, StepLimit, NextStep,
         FirstAttempt, CompactAttempt, RetryAttempt, GiveUp, NotifyCompact, NotifyRetry,
         Notify, Backoff, DeltaSend, Failed, ToolActivity, InteractAborts,
         ToolOutputSend, CallTooLate, InteractApproves, InteractResolves, Delta,
         ToolOutput, ToolReturns, outVars, retryVars
<1>2. pc # "closed" /\ pc' # "closed"
  BY DEF RunTurn, PhaseWait, PhaseSend, Connecting, Thinking, StepLimit, NextStep,
         FirstAttempt, CompactAttempt, RetryAttempt, GiveUp, NotifyCompact, NotifyRetry,
         Notify, Backoff, DeltaSend, Failed, ToolActivity, InteractAborts,
         ToolOutputSend, CallTooLate, InteractApproves, InteractResolves, Delta,
         ToolOutput, ToolReturns, SendEvent, SendIgnored
<1> QED BY <1>1, <1>2, Unseen

\* A step of the turn is a step of the contract or is not seen by it.
LEMMA StepAllowed == IInv /\ [Next]_vars => [Contract!Next]_Contract!cvars
<1> SUFFICES ASSUME IInv, [Next]_vars PROVE [Contract!Next]_Contract!cvars
  OBVIOUS
<1>1. CASE UNCHANGED vars
  <2>1. UNCHANGED <<pc, open, ended, cancelled, lastErr>>
    BY <1>1 DEF vars, outVars, retryVars
  <2> QED BY <2>1 DEF Contract!cvars
<1>2. CASE Receive \/ Over
  <2>1. UNCHANGED <<pc, open, ended, cancelled, lastErr>>
    BY <1>2 DEF Receive, Over, vars, outVars, retryVars
  <2> QED BY <2>1 DEF Contract!cvars
<1>3. CASE Cancel
  <2>1. Contract!Stop
    BY <1>3 DEF Cancel, Contract!Stop, outVars, retryVars
  <2> QED BY <2>1 DEF Contract!Next
<1>4. CASE Request \/ \E s \in Sizes, blank \in BOOLEAN : CallAnswers(s, blank)
  <2>1. pc \in {"request", "call", "callCompact"} /\ lastErr # "cancel"
    BY <1>4 DEF Request, CallAnswers, IInv, EventInv, Leaving
  <2>2. UNCHANGED <<open, ended, cancelled>> /\ pc' \in {"attempt", "finish"} /\ lastErr' = "none"
    BY <1>4 DEF Request, CallAnswers, outVars
  <2> QED BY <2>1, <2>2, Unseen
<1>5. CASE \E s \in Sizes, r \in Calls : CallAsksForTools(s, r)
  <2>1. pc \in {"call", "callCompact"} /\ lastErr # "cancel"
    BY <1>5 DEF CallAsksForTools, IInv, EventInv, Leaving
  <2>2. UNCHANGED <<open, ended, cancelled>> /\ pc' = "toolActivity" /\ lastErr' = "none"
    BY <1>5 DEF CallAsksForTools, outVars
  <2> QED BY <2>1, <2>2, Unseen
<1> QED BY <1>1, <1>2, <1>3, <1>4, <1>5, ToolStartAllowed, ToolDoneAllowed,
           FailureAllowed, FinishAllowed, CloseAllowed, HiddenSteps
        DEF Next, Run, ProviderReturns, HostAnswers

(***************************************************************************)
(* Every turn keeps the contract with the reader of its channel: calls are *)
(* announced and completed one at a time, nothing follows TurnDone, and    *)
(* the channel is closed once, not without TurnDone unless the turn was    *)
(* stopped (loop.go:130-156, turn.go:32-33).                               *)
(***************************************************************************)
THEOREM TurnImplementsContract == Spec => ImplementsContract
<1>1. Init => Contract!Init
  BY DEF Init, Contract!Init
<1> QED BY <1>1, TurnInvariant, StepAllowed, PTL
        DEF Spec, ImplementsContract, Contract!Spec

============================================================================
