---------------------------- MODULE ScreenProofs ----------------------------
(***************************************************************************)
(* Whatever the user, the turn, the shell command, the models sync and the *)
(* Ctrl-C timer do, in sessions of any length: indexes name their          *)
(* messages, texts stay with their owners, /commit gives back the prompt   *)
(* and the end of a command is reported.                                   *)
(***************************************************************************)
EXTENDS ScreenProps, SequenceTheorems, FiniteSetTheorems, TLAPS

Kinds == {"user", "system", "thinking", "ai", "tool", "shell", "sync", "notice", "request",
          "commit"}
Ids == Kinds \X Nat
Msgs == [own : Ids, writer : Ids, blank : BOOLEAN]
Lists == [msgs : Seq(Msgs), think : Nat, resp : Nat, tool : Nat, shell : Nat, sync : Nat,
          notice : Nat, shifted : BOOLEAN, crashed : BOOLEAN]

\* Message i of list l is the one made for id.
Names(l, i, id) == InList(l, i) /\ l.msgs[i].own = id

\* What never leaves the list: what the user wrote, the boxes of tools and
\* shell commands, the record of a commit.
RecordKinds == {"user", "tool", "shell", "request", "commit"}
Holding(l, k) == {i \in 1..Len(l.msgs) : l.msgs[i].own[1] = k}
Held(l, k) == Cardinality(Holding(l, k))

\* What is live while a handler works on a list: the turn, whether its thinking
\* box and its tool box are, and the shell command whose box is, 0 for none;
\* and how many records of each kind the list held at first.
Contexts == [turn : Nat, thinking : BOOLEAN, calling : BOOLEAN, command : Nat,
             kept : [RecordKinds -> Nat]]

\* Every live index names its message.  What a turn adds lies below the notice
\* of Ctrl-C, which removals therefore do not move.
Placed(l, c) ==
    /\ ~l.crashed
    /\ c.thinking /\ l.think # 0 => Names(l, l.think, <<"thinking", c.turn>>)
    /\ l.resp # 0 => Names(l, l.resp, <<"ai", c.turn>>)
    /\ c.calling => Names(l, l.tool, <<"tool", c.turn>>)
    /\ c.command # 0 => Names(l, l.shell, <<"shell", c.command>>)
    /\ c.command = 0 => l.shell = 0
    /\ l.notice # 0 => /\ Names(l, l.notice, <<"notice", 0>>)
                       /\ c.thinking /\ l.think # 0 => l.notice < l.think
                       /\ l.resp # 0 => l.notice < l.resp
    /\ l.sync \notin {0, 1} => Names(l, l.sync, <<"sync", 0>>)
    /\ \A k \in RecordKinds : c.kept[k] <= Held(l, k)

\* Every message shows the text of its owner; the first may show the sync's.
Written(l) == \A i \in 1..Len(l.msgs) :
    l.msgs[i].writer = l.msgs[i].own \/ (i = 1 /\ l.msgs[i].writer = <<"sync", 0>>)

Sound(l, c) == l \in Lists /\ (~l.shifted => Placed(l, c) /\ Written(l))

-----------------------------------------------------------------------------
(***************************************************************************)
(* What the operations of the list do.                                     *)
(***************************************************************************)

\* A message at the end leaves those before it where they are.
LEMMA AppendedList ==
  ASSUME NEW l \in Lists, NEW m \in Msgs
  PROVE  LET s == [l EXCEPT !.msgs = Append(@, m)]
         IN  /\ s \in Lists
             /\ Len(s.msgs) = Len(l.msgs) + 1
             /\ \A i \in 1..Len(l.msgs) : s.msgs[i] = l.msgs[i]
             /\ s.msgs[Len(l.msgs) + 1] = m
             /\ \A f \in {"think", "resp", "tool", "shell", "sync", "notice", "shifted",
                          "crashed"} : s[f] = l[f]
<1>1. l.msgs \in Seq(Msgs)
  BY DEF Lists
<1>2. /\ Append(l.msgs, m) \in Seq(Msgs)
      /\ Len(Append(l.msgs, m)) = Len(l.msgs) + 1
      /\ \A i \in 1..Len(l.msgs) : Append(l.msgs, m)[i] = l.msgs[i]
      /\ Append(l.msgs, m)[Len(l.msgs) + 1] = m
  BY <1>1, AppendProperties
<1> QED BY <1>2 DEF Lists

\* Writing to a message changes no owner.
LEMMA OverwrittenList ==
  ASSUME NEW l \in Lists, NEW i \in 1..Len(l.msgs), NEW id \in Ids
  PROVE  LET s == Overwrite(l, i, id)
         IN  /\ s \in Lists
             /\ Len(s.msgs) = Len(l.msgs)
             /\ \A j \in 1..Len(l.msgs) :
                  /\ s.msgs[j].own = l.msgs[j].own
                  /\ s.msgs[j].writer = IF j = i THEN id ELSE l.msgs[j].writer
             /\ \A f \in {"think", "resp", "tool", "shell", "sync", "notice", "shifted",
                          "crashed"} : s[f] = l[f]
<1> DEFINE m == [l.msgs[i] EXCEPT !.writer = id, !.blank = FALSE]
           t == [l.msgs EXCEPT ![i] = m]
<1>1. l.msgs \in Seq(Msgs) /\ l.msgs[i] \in Msgs
  BY DEF Lists
<1>2. m \in Msgs /\ m.own = l.msgs[i].own /\ m.writer = id
  BY <1>1 DEF Msgs
<1>3. /\ t \in Seq(Msgs) /\ Len(t) = Len(l.msgs)
      /\ \A j \in 1..Len(l.msgs) : t[j] = IF j = i THEN m ELSE l.msgs[j]
  BY <1>1, <1>2, ExceptSeq
<1>4. Overwrite(l, i, id) = [l EXCEPT !.msgs = t]
  <2>1. l.msgs[i] = [own |-> l.msgs[i].own, writer |-> l.msgs[i].writer,
                     blank |-> l.msgs[i].blank]
    BY <1>1 DEF Msgs
  <2> QED BY <1>1, <2>1 DEF Overwrite, Lists, Msgs
<1> QED BY <1>2, <1>3, <1>4 DEF Lists

\* A removal moves what lies behind it; unless the flag is raised, no live index
\* but those the caller mends is among that.
LEMMA RemovedList ==
  ASSUME NEW l \in Lists, NEW i \in 1..Len(l.msgs), NEW mended
  PROVE  LET s == RemoveMessage(l, i, mended)
         IN  /\ s \in Lists
             /\ Len(s.msgs) = Len(l.msgs) - 1
             /\ \A j \in 1..(Len(l.msgs) - 1) :
                  s.msgs[j] = IF j < i THEN l.msgs[j] ELSE l.msgs[j + 1]
             /\ \A f \in {"think", "resp", "tool", "shell", "sync", "notice", "crashed"} :
                  s[f] = l[f]
             /\ l.shifted => s.shifted
             /\ ~s.shifted => \A f \in Indexes \ mended : l[f] <= i
<1> DEFINE a == SubSeq(l.msgs, 1, i - 1)
           b == SubSeq(l.msgs, i + 1, Len(l.msgs))
<1>1. l.msgs \in Seq(Msgs) /\ Len(l.msgs) \in Nat /\ \A j \in 1..Len(l.msgs) : l.msgs[j] \in Msgs
  BY DEF Lists
<1>2. /\ a \in Seq(Msgs) /\ Len(a) = i - 1
      /\ \A j \in 1..(i - 1) : a[j] = l.msgs[j]
  <2>1. \A j \in 1..(i - 1) : l.msgs[j] \in Msgs
    BY <1>1
  <2> QED BY <1>1, <2>1, SubSeqProperties
<1>3. /\ b \in Seq(Msgs) /\ Len(b) = Len(l.msgs) - i
      /\ \A j \in 1..(Len(l.msgs) - i) : b[j] = l.msgs[i + j]
  <2>1. \A j \in (i + 1)..Len(l.msgs) : l.msgs[j] \in Msgs
    BY <1>1
  <2>2. i + 1 \in Int /\ Len(l.msgs) \in Int
    BY <1>1
  <2>3. /\ b \in Seq(Msgs) /\ Len(b) = IF i + 1 <= Len(l.msgs) THEN Len(l.msgs) - (i + 1) + 1 ELSE 0
        /\ \A j \in 1 .. Len(l.msgs) - (i + 1) + 1 : b[j] = l.msgs[i + 1 + j - 1]
    BY <2>1, <2>2, SubSeqProperties
  <2> QED BY <1>1, <2>3
<1>4. /\ a \o b \in Seq(Msgs) /\ Len(a \o b) = Len(l.msgs) - 1
      /\ \A j \in 1..(Len(l.msgs) - 1) :
           (a \o b)[j] = IF j < i THEN l.msgs[j] ELSE l.msgs[j + 1]
  <2> HIDE DEF a, b
  <2>1. /\ a \o b \in Seq(Msgs) /\ Len(a \o b) = Len(a) + Len(b)
        /\ \A j \in 1..(Len(a) + Len(b)) :
             (a \o b)[j] = IF j <= Len(a) THEN a[j] ELSE b[j - Len(a)]
    BY <1>2, <1>3, ConcatProperties
  <2> QED BY <1>1, <1>2, <1>3, <2>1
<1> DEFINE moved == \E f \in Indexes \ mended : l[f] > i
           flag == l.shifted \/ moved
<1>5. RemoveMessage(l, i, mended) = [l EXCEPT !.msgs = a \o b, !.shifted = flag]
  BY DEF RemoveMessage, InList, RemoveAt
<1>6. \A f \in Indexes : l[f] \in Nat
  BY DEF Indexes, Lists
<1>7. flag \in BOOLEAN /\ (l.shifted => flag)
  BY DEF Lists
<1>8. ~flag => \A f \in Indexes \ mended : l[f] <= i
  BY <1>6, i \in Nat
<1> HIDE DEF a, b, flag, moved
<1>9. RemoveMessage(l, i, mended) \in Lists
  BY <1>4, <1>5, <1>7 DEF Lists
<1> QED BY <1>4, <1>5, <1>7, <1>8, <1>9 DEF Lists

\* The messages of a kind that find a place each in another list.
LEMMA HeldMore ==
  ASSUME NEW l \in Lists, NEW s \in Lists, NEW k,
         NEW f \in [Holding(l, k) -> Holding(s, k)],
         \A a, b \in Holding(l, k) : f[a] = f[b] => a = b
  PROVE  Held(l, k) <= Held(s, k) /\ Held(l, k) \in Nat /\ Held(s, k) \in Nat
<1>1. Len(l.msgs) \in Int /\ Len(s.msgs) \in Int
  BY DEF Lists
<1>2. IsFiniteSet(Holding(s, k)) /\ IsFiniteSet(Holding(l, k))
  <2>1. IsFiniteSet(1..Len(l.msgs)) /\ IsFiniteSet(1..Len(s.msgs))
    BY <1>1, FS_Interval
  <2>2. Holding(l, k) \in SUBSET (1..Len(l.msgs)) /\ Holding(s, k) \in SUBSET (1..Len(s.msgs))
    BY DEF Holding
  <2> QED BY <2>1, <2>2, FS_Subset
<1>3. f \in Injection(Holding(l, k), Holding(s, k))
  BY DEF Injection, IsInjective
<1> QED BY <1>2, <1>3, FS_Injection, FS_CardinalityType DEF Held

\* The records of a kind can be counted.
LEMMA HeldNat == \A l \in Lists : \A k : Held(l, k) \in Nat
<1> SUFFICES ASSUME NEW l \in Lists, NEW k PROVE Held(l, k) \in Nat
  OBVIOUS
<1> DEFINE f == [i \in Holding(l, k) |-> i]
<1>1. f \in [Holding(l, k) -> Holding(l, k)] /\ \A a, b \in Holding(l, k) : f[a] = f[b] => a = b
  OBVIOUS
<1> HIDE DEF f
<1> QED BY <1>1, HeldMore

\* Indexes do not count among the records.
LEMMA HeldSame == \A l, s : s.msgs = l.msgs => \A k : Held(s, k) = Held(l, k)
BY DEF Held, Holding

-----------------------------------------------------------------------------
(***************************************************************************)
(* Each of them keeps a list sound, and a new index names its message.     *)
(***************************************************************************)

\* A new message in the hands of its owner.
LEMMA SoundAppend ==
  ASSUME NEW l, NEW c \in Contexts, Sound(l, c), NEW m \in Msgs, m.writer = m.own
  PROVE  Sound([l EXCEPT !.msgs = Append(@, m)], c)
<1> DEFINE s == [l EXCEPT !.msgs = Append(@, m)]
<1>1. l \in Lists
  BY DEF Sound
<1>2. /\ s \in Lists
      /\ Len(s.msgs) = Len(l.msgs) + 1
      /\ \A i \in 1..Len(l.msgs) : s.msgs[i] = l.msgs[i]
      /\ s.msgs[Len(l.msgs) + 1] = m
      /\ \A f \in {"think", "resp", "tool", "shell", "sync", "notice", "shifted",
                   "crashed"} : s[f] = l[f]
  BY <1>1, AppendedList
<1>3. Len(l.msgs) \in Nat
  BY <1>1 DEF Lists
<1> HIDE DEF s
<1>4. \A i, id : Names(l, i, id) => Names(s, i, id)
  BY <1>2, <1>3 DEF Names, InList
<1>7. ASSUME NEW k \in RecordKinds PROVE Held(l, k) <= Held(s, k) /\ Held(l, k) \in Nat
                                          /\ Held(s, k) \in Nat
  <2> DEFINE f == [i \in Holding(l, k) |-> i]
  <2>1. f \in [Holding(l, k) -> Holding(s, k)]
    BY <1>2, <1>3 DEF Holding
  <2> QED BY <1>1, <1>2, <2>1, HeldMore
<1>8. \A k \in RecordKinds : c.kept[k] \in Nat
  BY DEF Contexts
<1>5. ~l.shifted => Placed(s, c)
  BY <1>2, <1>4, <1>7, <1>8 DEF Sound, Placed
<1>6. ~l.shifted => Written(s)
  BY <1>2, <1>3 DEF Sound, Written
<1> QED BY <1>2, <1>5, <1>6 DEF Sound, s

\* A line said at the end is in its place, and no index moves.
LEMMA SoundSay ==
  ASSUME NEW l, NEW c \in Contexts, Sound(l, c), NEW id \in Ids
  PROVE  /\ Sound(Say(l, id), c)
         /\ Len(Say(l, id).msgs) = Len(l.msgs) + 1
         /\ Names(Say(l, id), Len(l.msgs) + 1, id)
         /\ \A f \in {"think", "resp", "tool", "shell", "sync", "notice", "shifted",
                      "crashed"} : Say(l, id)[f] = l[f]
<1> DEFINE m == [own |-> id, writer |-> id, blank |-> FALSE]
<1>1. m \in Msgs /\ m.writer = m.own /\ m.own = id
  BY DEF Msgs
<1>2. Say(l, id) = [l EXCEPT !.msgs = Append(@, m)]
  BY DEF Say
<1>3. l \in Lists /\ Len(l.msgs) \in Nat
  BY DEF Sound, Lists
<1> HIDE DEF m
<1>4. Sound(Say(l, id), c)
  BY <1>1, <1>2, SoundAppend
<1>5. /\ Len(Say(l, id).msgs) = Len(l.msgs) + 1
      /\ Say(l, id).msgs[Len(l.msgs) + 1] = m
      /\ \A f \in {"think", "resp", "tool", "shell", "sync", "notice", "shifted",
                   "crashed"} : Say(l, id)[f] = l[f]
  BY <1>1, <1>2, <1>3, AppendedList
<1> QED BY <1>1, <1>3, <1>4, <1>5 DEF Names, InList

\* Writing the text of the owner.
LEMMA SoundOverwrite ==
  ASSUME NEW l, NEW c \in Contexts, Sound(l, c), NEW i \in 1..Len(l.msgs), NEW id \in Ids,
         \/ l.shifted
         \/ l.msgs[i].own = id
         \/ i = 1 /\ id = <<"sync", 0>>
  PROVE  /\ Sound(Overwrite(l, i, id), c)
         /\ \A f \in {"think", "resp", "tool", "shell", "sync", "notice", "shifted",
                      "crashed"} : Overwrite(l, i, id)[f] = l[f]
<1> DEFINE s == Overwrite(l, i, id)
<1>1. l \in Lists
  BY DEF Sound
<1>2. /\ s \in Lists
      /\ Len(s.msgs) = Len(l.msgs)
      /\ \A j \in 1..Len(l.msgs) :
           /\ s.msgs[j].own = l.msgs[j].own
           /\ s.msgs[j].writer = IF j = i THEN id ELSE l.msgs[j].writer
      /\ \A f \in {"think", "resp", "tool", "shell", "sync", "notice", "shifted",
                   "crashed"} : s[f] = l[f]
  BY <1>1, OverwrittenList
<1>3. Len(l.msgs) \in Nat
  BY <1>1 DEF Lists
<1> HIDE DEF s
<1>4. \A j, of : Names(l, j, of) => Names(s, j, of)
  BY <1>2, <1>3 DEF Names, InList
<1>7. \A k : Held(s, k) = Held(l, k)
  <2>1. \A k : Holding(s, k) = Holding(l, k)
    BY <1>2 DEF Holding
  <2> QED BY <2>1 DEF Held
<1>5. ~l.shifted => Placed(s, c)
  BY <1>2, <1>4, <1>7 DEF Sound, Placed
<1>6. ~l.shifted => Written(s)
  BY <1>2, <1>3 DEF Sound, Written
<1> QED BY <1>2, <1>5, <1>6 DEF Sound, s

\* A removal keeps the texts, and the indexes before the removed message.
LEMMA RemovalKeeps ==
  ASSUME NEW l \in Lists, NEW i \in 1..Len(l.msgs), NEW mended, Written(l),
         ~RemoveMessage(l, i, mended).shifted
  PROVE  /\ Written(RemoveMessage(l, i, mended))
         /\ \A j, id : Names(l, j, id) /\ j < i => Names(RemoveMessage(l, i, mended), j, id)
         /\ \A j, id : Names(l, j, id) /\ j > i
                         => Names(RemoveMessage(l, i, mended), j - 1, id)
         /\ \A f \in Indexes \ mended : l[f] <= i
         /\ l.msgs[i].own[1] \notin RecordKinds
              => \A k \in RecordKinds : \A n \in Nat :
                   n <= Held(l, k) => n <= Held(RemoveMessage(l, i, mended), k)
<1> DEFINE s == RemoveMessage(l, i, mended)
<1>1. /\ s \in Lists
      /\ Len(s.msgs) = Len(l.msgs) - 1
      /\ \A j \in 1..(Len(l.msgs) - 1) :
           s.msgs[j] = IF j < i THEN l.msgs[j] ELSE l.msgs[j + 1]
      /\ ~s.shifted => \A f \in Indexes \ mended : l[f] <= i
  BY RemovedList
<1>2. Len(l.msgs) \in Nat
  BY DEF Lists
<1> HIDE DEF s
<1>3. \A j, id : Names(l, j, id) /\ j < i => Names(s, j, id)
  BY <1>1, <1>2 DEF Names, InList
<1>4. \A j, id : Names(l, j, id) /\ j > i => Names(s, j - 1, id)
  BY <1>1, <1>2 DEF Names, InList
<1>5. Written(s)
  <2> SUFFICES ASSUME NEW j \in 1..Len(s.msgs)
               PROVE  s.msgs[j].writer = s.msgs[j].own \/ (j = 1 /\ s.msgs[j].writer = <<"sync", 0>>)
    BY DEF Written
  <2>1. CASE j < i
    BY <2>1, <1>1, <1>2 DEF Written
  <2>2. CASE j >= i
    <3>1. s.msgs[j] = l.msgs[j + 1] /\ j + 1 \in 1..Len(l.msgs) /\ j + 1 # 1
      BY <2>2, <1>1, <1>2
    <3> QED BY <3>1 DEF Written
  <2> QED BY <2>1, <2>2, <1>1, <1>2
<1>6. ASSUME l.msgs[i].own[1] \notin RecordKinds, NEW k \in RecordKinds
      PROVE  Held(l, k) <= Held(s, k) /\ Held(l, k) \in Nat /\ Held(s, k) \in Nat
  <2> DEFINE f == [j \in Holding(l, k) |-> IF j < i THEN j ELSE j - 1]
  <2>1. \A j \in Holding(l, k) : j \in 1..Len(l.msgs) /\ j # i /\ l.msgs[j].own[1] = k
    BY <1>6 DEF Holding
  <2>2. f \in [Holding(l, k) -> Holding(s, k)]
    <3> SUFFICES ASSUME NEW j \in Holding(l, k)
                 PROVE  (IF j < i THEN j ELSE j - 1) \in Holding(s, k)
      OBVIOUS
    <3>1. CASE j < i
      BY <3>1, <2>1, <1>1, <1>2 DEF Holding
    <3>2. CASE ~(j < i)
      <4>1. j - 1 \in 1..(Len(l.msgs) - 1) /\ ~(j - 1 < i) /\ (j - 1) + 1 = j
        BY <3>2, <2>1, <1>2
      <4>2. s.msgs[j - 1] = l.msgs[j]
        BY <4>1, <1>1
      <4> QED BY <3>2, <4>1, <4>2, <2>1, <1>1 DEF Holding
    <3> QED BY <3>1, <3>2
  <2>3. \A a, b \in Holding(l, k) : f[a] = f[b] => a = b
    BY <2>1
  <2> HIDE DEF f
  <2> QED BY <1>1, <2>2, <2>3, HeldMore
<1> QED BY <1>1, <1>3, <1>4, <1>5, <1>6 DEF s

\* The notice of Ctrl-C goes.
LEMMA SoundClearNotice ==
  ASSUME NEW l, NEW c \in Contexts, Sound(l, c)
  PROVE  /\ Sound(ClearNotice(l), c)
         /\ ClearNotice(l).notice = 0
         /\ \A f \in {"think", "resp", "tool", "shell", "sync"} : ClearNotice(l)[f] = l[f]
         /\ l.shifted => ClearNotice(l).shifted
<1> DEFINE r == RemoveMessage(l, l.notice, {})
           s == [r EXCEPT !.notice = 0]
<1>1. l \in Lists /\ ClearNotice(l) = s
  BY DEF Sound, ClearNotice
<1>2. CASE ~InList(l, l.notice)
  <2>1. r = l
    BY <1>2 DEF RemoveMessage
  <2>2. s \in Lists /\ s.msgs = l.msgs /\ s.notice = 0
        /\ \A f \in {"think", "resp", "tool", "shell", "sync", "shifted", "crashed"} : s[f] = l[f]
    BY <1>1, <2>1 DEF Lists
  <2> HIDE DEF s
  <2>3. Sound(s, c)
    BY <2>2, HeldSame DEF Sound, Placed, Written, Names, InList
  <2> QED BY <1>1, <2>2, <2>3
<1>3. CASE InList(l, l.notice)
  <2>1. l.notice \in 1..Len(l.msgs) /\ {} = {}
    BY <1>3 DEF InList
  <2>2. /\ r \in Lists
        /\ \A f \in {"think", "resp", "tool", "shell", "sync", "notice", "crashed"} : r[f] = l[f]
        /\ l.shifted => r.shifted
    BY <1>1, <2>1, RemovedList
  <2>3. s \in Lists /\ s.notice = 0 /\ s.msgs = r.msgs
        /\ \A f \in {"think", "resp", "tool", "shell", "sync", "shifted", "crashed"} : s[f] = r[f]
    BY <2>2 DEF Lists
  <2>4. ASSUME ~s.shifted PROVE Placed(s, c) /\ Written(s)
    <3>1. ~r.shifted /\ ~l.shifted
      BY <2>2, <2>3, <2>4
    <3>2. Placed(l, c) /\ Written(l)
      BY <3>1 DEF Sound
    <3>3. /\ Written(r)
          /\ \A j, id : Names(l, j, id) /\ j < l.notice => Names(r, j, id)
          /\ \A f \in Indexes \ {} : l[f] <= l.notice
          /\ l.msgs[l.notice].own[1] \notin RecordKinds
               => \A k \in RecordKinds : \A n \in Nat : n <= Held(l, k) => n <= Held(r, k)
      <4> HIDE DEF r
      <4> QED BY <1>1, <2>1, <3>1, <3>2, RemovalKeeps DEF r
    <3>4. Names(l, l.notice, <<"notice", 0>>)
      BY <3>2, <2>1 DEF Placed
    <3>9. \A k \in RecordKinds : c.kept[k] <= Held(s, k)
      <4>1. l.msgs[l.notice].own[1] \notin RecordKinds
        BY <3>4 DEF Names, RecordKinds
      <4>2. \A k \in RecordKinds : c.kept[k] \in Nat /\ c.kept[k] <= Held(l, k)
        BY <3>2 DEF Placed, Contexts
      <4>3. \A k : Held(s, k) = Held(r, k)
        BY <2>3, HeldSame
      <4> HIDE DEF r, s
      <4> QED BY <3>3, <4>1, <4>2, <4>3
    <3>5. l.think \in Nat /\ l.resp \in Nat /\ l.tool \in Nat /\ l.shell \in Nat
          /\ l.sync \in Nat /\ l.notice \in Nat
      BY <1>1 DEF Lists
    <3> HIDE DEF r, s
    <3>6. \A j, id : Names(r, j, id) => Names(s, j, id)
      BY <2>3 DEF Names, InList
    <3>7. ASSUME NEW f \in Indexes, NEW id, Names(l, l[f], id), id # <<"notice", 0>>
          PROVE  Names(s, l[f], id)
      <4>1. l[f] \in Nat /\ l[f] <= l.notice /\ l[f] # l.notice
        BY <3>3, <3>4, <3>5, <3>7 DEF Names, Indexes
      <4>2. l[f] < l.notice
        BY <4>1, <3>5
      <4> QED BY <4>2, <3>3, <3>6, <3>7
    <3>8. Placed(s, c)
      BY <3>2, <3>7, <3>9, <2>2, <2>3 DEF Placed, Indexes
    <3> QED BY <3>8, <3>3, <2>3 DEF Written
  <2> QED BY <1>1, <2>2, <2>3, <2>4 DEF Sound
<1> QED BY <1>2, <1>3

\* The response that held nothing but calls goes.
LEMMA SoundScrub ==
  ASSUME NEW l, NEW c \in Contexts, Sound(l, c), InList(l, l.resp)
  PROVE  /\ Sound(Scrub(l), c)
         /\ \A f \in {"think", "tool", "shell", "sync", "notice"} : Scrub(l)[f] = l[f]
<1> DEFINE r == RemoveMessage(l, l.resp, {"resp"})
           s == [r EXCEPT !.resp = 0]
<1>1. l \in Lists /\ Scrub(l) = s /\ l.resp \in 1..Len(l.msgs)
  BY DEF Sound, Scrub, InList
<1>2. /\ r \in Lists
      /\ \A f \in {"think", "resp", "tool", "shell", "sync", "notice", "crashed"} : r[f] = l[f]
      /\ l.shifted => r.shifted
  BY <1>1, RemovedList
<1>3. s \in Lists /\ s.resp = 0 /\ s.msgs = r.msgs
      /\ \A f \in {"think", "tool", "shell", "sync", "notice", "shifted", "crashed"} : s[f] = r[f]
  BY <1>2 DEF Lists
<1>4. ASSUME ~s.shifted PROVE Placed(s, c) /\ Written(s)
  <2>1. ~r.shifted /\ ~l.shifted
    BY <1>2, <1>3, <1>4
  <2>2. Placed(l, c) /\ Written(l)
    BY <2>1 DEF Sound
  <2>3. /\ Written(r)
        /\ \A j, id : Names(l, j, id) /\ j < l.resp => Names(r, j, id)
        /\ \A f \in Indexes \ {"resp"} : l[f] <= l.resp
        /\ l.msgs[l.resp].own[1] \notin RecordKinds
             => \A k \in RecordKinds : \A n \in Nat : n <= Held(l, k) => n <= Held(r, k)
    <3> HIDE DEF r
    <3> QED BY <1>1, <2>1, <2>2, RemovalKeeps DEF r
  <2>4. Names(l, l.resp, <<"ai", c.turn>>)
    BY <2>2, <1>1 DEF Placed, Lists
  <2>10. \A k \in RecordKinds : c.kept[k] <= Held(s, k)
    <3>1. l.msgs[l.resp].own[1] \notin RecordKinds
      BY <2>4 DEF Names, RecordKinds
    <3>2. \A k \in RecordKinds : c.kept[k] \in Nat /\ c.kept[k] <= Held(l, k)
      BY <2>2 DEF Placed, Contexts
    <3>3. \A k : Held(s, k) = Held(r, k)
      BY <1>3, HeldSame
    <3> HIDE DEF r, s
    <3> QED BY <2>3, <3>1, <3>2, <3>3
  <2>5. /\ l.think \in Nat /\ l.resp \in Nat /\ l.tool \in Nat /\ l.shell \in Nat
        /\ l.sync \in Nat /\ l.notice \in Nat
    BY <1>1 DEF Lists
  <2> HIDE DEF r, s
  <2>6. \A j, id : Names(r, j, id) => Names(s, j, id)
    BY <1>3 DEF Names, InList
  <2>7. ASSUME NEW f \in Indexes \ {"resp"}, NEW id, Names(l, l[f], id), id # <<"ai", c.turn>>
        PROVE  Names(s, l[f], id)
    <3>1. l[f] \in Nat /\ l[f] <= l.resp /\ l[f] # l.resp
      BY <2>3, <2>4, <2>5, <2>7 DEF Names, Indexes
    <3>2. l[f] < l.resp
      BY <3>1, <2>5
    <3> QED BY <3>2, <2>3, <2>6, <2>7
  <2>8. l.notice # 0 => Names(s, l.notice, <<"notice", 0>>)
    BY <2>2, <2>3, <2>5, <2>6, <1>1 DEF Placed
  <2>9. Placed(s, c)
    BY <2>2, <2>7, <2>8, <2>10, <1>2, <1>3 DEF Placed, Indexes
  <2> QED BY <2>9, <2>3, <1>3 DEF Written
<1> QED BY <1>1, <1>2, <1>3, <1>4 DEF Sound

\* At the end of a turn its thinking box or its response goes: s is what is left,
\* with whatever index to the thinking box, and the response mended or let go.
LEMMA SoundEndRemoval ==
  ASSUME NEW l, NEW c \in Contexts, Sound(l, c), ~c.calling,
         NEW i \in 1..Len(l.msgs),
         ~l.shifted => /\ l.msgs[i].own[1] \in {"thinking", "ai"}
                       /\ l.notice # 0 => l.notice < i,
         NEW s \in Lists,
         s.msgs = RemoveMessage(l, i, {"think", "resp", "tool"}).msgs,
         s.shifted = RemoveMessage(l, i, {"think", "resp", "tool"}).shifted,
         \A f \in {"shell", "sync", "notice", "crashed"} : s[f] = l[f],
         ~l.shifted => \/ s.resp = 0
                       \/ l.resp # 0 /\ s.resp = l.resp /\ l.resp < i
                       \/ l.resp # 0 /\ s.resp = l.resp - 1 /\ l.resp > i
  PROVE  Sound(s, [c EXCEPT !.thinking = FALSE])
<1> DEFINE mended == {"think", "resp", "tool"}
           r == RemoveMessage(l, i, mended)
           d == [c EXCEPT !.thinking = FALSE]
<1>1. l \in Lists
  BY DEF Sound
<1>2. l.shifted => r.shifted
  <2> HIDE DEF mended
  <2> QED BY <1>1, RemovedList DEF r
<1>3. /\ d.turn = c.turn /\ d.thinking = FALSE /\ d.calling = FALSE /\ d.command = c.command
      /\ d.kept = c.kept
  BY DEF Contexts
<1>4. ASSUME ~s.shifted PROVE Placed(s, d) /\ Written(s)
  <2>1. ~r.shifted /\ ~l.shifted
    BY <1>2, <1>4
  <2>2. Placed(l, c) /\ Written(l)
    BY <2>1 DEF Sound
  <2>3. /\ Written(r)
        /\ \A j, id : Names(l, j, id) /\ j < i => Names(r, j, id)
        /\ \A j, id : Names(l, j, id) /\ j > i => Names(r, j - 1, id)
        /\ \A f \in Indexes \ mended : l[f] <= i
        /\ l.msgs[i].own[1] \notin RecordKinds
             => \A k \in RecordKinds : \A n \in Nat : n <= Held(l, k) => n <= Held(r, k)
    <3> HIDE DEF r, mended
    <3> QED BY <1>1, <2>1, <2>2, RemovalKeeps DEF r
  <2>4. /\ l.resp \in Nat /\ l.shell \in Nat /\ l.sync \in Nat /\ l.notice \in Nat
    BY <1>1 DEF Lists
  <2>5. l.shell <= i /\ l.sync <= i
    BY <2>3 DEF Indexes
  <2> HIDE DEF r, d
  <2>6. \A j, id : Names(r, j, id) => Names(s, j, id)
    BY DEF Names, InList, r
  <2>7. s.resp # 0 => /\ Names(s, s.resp, <<"ai", c.turn>>)
                      /\ s.notice # 0 => s.notice < s.resp
    BY <2>1, <2>2, <2>3, <2>4, <2>6 DEF Placed
  <2>8. c.command # 0 => Names(s, s.shell, <<"shell", c.command>>)
    <3>1. c.command # 0 => Names(l, l.shell, <<"shell", c.command>>) /\ l.shell # i
      BY <2>1, <2>2 DEF Placed, Names
    <3> QED BY <3>1, <2>3, <2>4, <2>5, <2>6
  <2>9. s.sync \notin {0, 1} => Names(s, s.sync, <<"sync", 0>>)
    <3>1. l.sync \notin {0, 1} => Names(l, l.sync, <<"sync", 0>>) /\ l.sync # i
      BY <2>1, <2>2 DEF Placed, Names
    <3> QED BY <3>1, <2>3, <2>4, <2>5, <2>6
  <2>10. s.notice # 0 => Names(s, s.notice, <<"notice", 0>>)
    BY <2>1, <2>2, <2>3, <2>4, <2>6 DEF Placed
  <2>13. \A k \in RecordKinds : c.kept[k] <= Held(s, k)
    <3>1. l.msgs[i].own[1] \notin RecordKinds
      BY <2>1 DEF RecordKinds
    <3>2. \A k \in RecordKinds : c.kept[k] \in Nat /\ c.kept[k] <= Held(l, k)
      BY <2>2 DEF Placed, Contexts
    <3>3. \A k : Held(s, k) = Held(r, k)
      BY HeldSame DEF r
    <3> QED BY <2>3, <3>1, <3>2, <3>3
  <2>11. Placed(s, d)
    BY <1>3, <2>2, <2>7, <2>8, <2>9, <2>10, <2>13 DEF Placed
  <2>12. Written(s)
    BY <2>3 DEF Written, r
  <2> QED BY <2>11, <2>12
<1> QED BY <1>4 DEF Sound

\* The empty thinking box goes; the response below it is followed.
LEMMA SoundRemoveThinking ==
  ASSUME NEW l, NEW c \in Contexts, Sound(l, c), ~c.calling, c.thinking, InList(l, l.think)
  PROVE  /\ Sound(RemoveThinking(l), [c EXCEPT !.thinking = FALSE])
         /\ l.shifted => RemoveThinking(l).shifted
         /\ \A f \in {"shell", "sync", "notice", "tool"} : RemoveThinking(l)[f] = l[f]
<1> DEFINE mended == {"think", "resp", "tool"}
           r == RemoveMessage(l, l.think, mended)
           s == RemoveThinking(l)
<1>1. l \in Lists /\ l.think \in 1..Len(l.msgs)
  BY DEF Sound, InList
<1>2. /\ r \in Lists
      /\ \A f \in {"think", "resp", "tool", "shell", "sync", "notice", "crashed"} : r[f] = l[f]
      /\ l.shifted => r.shifted
  <2> HIDE DEF mended
  <2> QED BY <1>1, RemovedList
<1>3. l.resp \in Nat /\ l.think \in Nat
  BY <1>1 DEF Lists
<1>4. s = [r EXCEPT !.resp = IF l.resp > l.think THEN l.resp - 1 ELSE l.resp]
  <2>1. r.resp = l.resp
    BY <1>2
  <2> HIDE DEF r
  <2> QED BY <2>1, <1>2 DEF RemoveThinking, r, Lists
<1> HIDE DEF r, s
<1>5. /\ s \in Lists /\ s.msgs = r.msgs /\ s.shifted = r.shifted
      /\ \A f \in {"shell", "sync", "notice", "crashed", "tool"} : s[f] = l[f]
      /\ s.resp = IF l.resp > l.think THEN l.resp - 1 ELSE l.resp
  BY <1>2, <1>3, <1>4 DEF Lists
<1>6. ~l.shifted => /\ l.msgs[l.think].own = <<"thinking", c.turn>>
                    /\ l.notice # 0 => l.notice < l.think
                    /\ l.resp # 0 => l.resp # l.think
  BY <1>1, <1>3 DEF Sound, Placed, Names
<1>7. Sound(s, [c EXCEPT !.thinking = FALSE])
  <2>1. ~l.shifted => \/ s.resp = 0
                      \/ l.resp # 0 /\ s.resp = l.resp /\ l.resp < l.think
                      \/ l.resp # 0 /\ s.resp = l.resp - 1 /\ l.resp > l.think
    BY <1>3, <1>5, <1>6
  <2>2. ~l.shifted => l.msgs[l.think].own[1] \in {"thinking", "ai"}
    BY <1>6
  <2> QED BY <1>1, <1>5, <1>6, <2>1, <2>2, SoundEndRemoval DEF r
<1> QED BY <1>2, <1>5, <1>7 DEF s

\* The response of the turn leaves the list at its end.
LEMMA SoundRemoveResponse ==
  ASSUME NEW l, NEW c \in Contexts, Sound(l, c), ~c.calling, InList(l, l.resp),
         NEW s \in Lists,
         LET r == RemoveMessage(l, l.resp, {"think", "resp", "tool"})
         IN  \/ s = [r EXCEPT !.resp = 0]
             \/ s = [r EXCEPT !.think = 0, !.resp = 0]
  PROVE  /\ Sound(s, [c EXCEPT !.thinking = FALSE])
         /\ s.resp = 0
         /\ \A f \in {"shell", "sync", "notice", "tool"} : s[f] = l[f]
<1> DEFINE mended == {"think", "resp", "tool"}
           r == RemoveMessage(l, l.resp, mended)
<1>1. l \in Lists /\ l.resp \in 1..Len(l.msgs)
  BY DEF Sound, InList
<1>2. /\ r \in Lists
      /\ \A f \in {"think", "resp", "tool", "shell", "sync", "notice", "crashed"} : r[f] = l[f]
  <2> HIDE DEF mended
  <2> QED BY <1>1, RemovedList
<1>3. s = [r EXCEPT !.resp = 0] \/ s = [r EXCEPT !.think = 0, !.resp = 0]
  OBVIOUS
<1> HIDE DEF r
<1>4. /\ s.msgs = r.msgs /\ s.shifted = r.shifted /\ s.resp = 0
      /\ \A f \in {"shell", "sync", "notice", "crashed", "tool"} : s[f] = l[f]
  BY <1>2, <1>3 DEF Lists
<1>5. ~l.shifted => /\ l.msgs[l.resp].own[1] \in {"thinking", "ai"}
                    /\ l.notice # 0 => l.notice < l.resp
  BY <1>1 DEF Sound, Placed, Names
<1>6. Sound(s, [c EXCEPT !.thinking = FALSE])
  BY <1>1, <1>4, <1>5, SoundEndRemoval DEF r
<1> QED BY <1>4, <1>6

-----------------------------------------------------------------------------
(***************************************************************************)
(* The parts of the handlers.                                              *)
(***************************************************************************)

\* What is no longer live asks for less; and no turn is named by a list whose
\* indexes are reset.
LEMMA SoundForLess ==
  ASSUME NEW l, NEW c \in Contexts, NEW d \in Contexts, Sound(l, c),
         \/ /\ d.turn = c.turn
            /\ d.thinking => c.thinking
            /\ d.calling => c.calling
         \/ l.think = 0 /\ l.resp = 0 /\ ~d.calling,
         d.command = c.command,
         d.kept = c.kept \/ \A k \in RecordKinds : d.kept[k] = Held(l, k)
  PROVE  Sound(l, d)
<1>1. \A k \in RecordKinds : d.kept[k] \in Nat
  BY DEF Contexts
<1> QED BY <1>1 DEF Sound, Placed

\* A new index for the message at the end.
LEMMA SoundNewest ==
  ASSUME NEW l, NEW c \in Contexts, Sound(l, c), NEW n \in Nat \ {0}, n = Len(l.msgs)
  PROVE  /\ Names(l, n, <<"thinking", c.turn>>) /\ l.notice < n
              => Sound([l EXCEPT !.think = n], [c EXCEPT !.thinking = TRUE])
         /\ Names(l, n, <<"ai", c.turn>>) /\ l.notice < n => Sound([l EXCEPT !.resp = n], c)
         /\ Names(l, n, <<"tool", c.turn>>)
              => Sound([l EXCEPT !.tool = n], [c EXCEPT !.calling = TRUE])
         /\ \A k \in Nat \ {0} : Names(l, n, <<"shell", k>>)
              => Sound([l EXCEPT !.shell = n], [c EXCEPT !.command = k])
         /\ Names(l, n, <<"sync", 0>>) => Sound([l EXCEPT !.sync = n], c)
         /\ Names(l, n, <<"notice", 0>>) /\ l.think = 0 /\ l.resp = 0
              => Sound([l EXCEPT !.notice = n], c)
<1>1. l \in Lists /\ (\A s : s.msgs = l.msgs => \A k : Held(s, k) = Held(l, k))
  BY HeldSame DEF Sound
<1>2. /\ Names(l, n, <<"thinking", c.turn>>) /\ l.notice < n
           => Sound([l EXCEPT !.think = n], [c EXCEPT !.thinking = TRUE])
      /\ Names(l, n, <<"ai", c.turn>>) /\ l.notice < n => Sound([l EXCEPT !.resp = n], c)
  BY <1>1 DEF Sound, Placed, Written, Names, InList, Lists, Contexts
<1>3. Names(l, n, <<"tool", c.turn>>)
        => Sound([l EXCEPT !.tool = n], [c EXCEPT !.calling = TRUE])
  BY <1>1 DEF Sound, Placed, Written, Names, InList, Lists, Contexts
<1>5. ASSUME NEW k \in Nat \ {0}, Names(l, n, <<"shell", k>>)
      PROVE  Sound([l EXCEPT !.shell = n], [c EXCEPT !.command = k])
  BY <1>1, <1>5 DEF Sound, Placed, Written, Names, InList, Lists, Contexts
<1>4. /\ Names(l, n, <<"sync", 0>>) => Sound([l EXCEPT !.sync = n], c)
      /\ Names(l, n, <<"notice", 0>>) /\ l.think = 0 /\ l.resp = 0
           => Sound([l EXCEPT !.notice = n], c)
  BY <1>1 DEF Sound, Placed, Written, Names, InList, Lists, Contexts
<1> QED BY <1>2, <1>3, <1>4, <1>5

\* An index that is let go.
LEMMA SoundReset ==
  ASSUME NEW l, NEW c \in Contexts, Sound(l, c)
  PROVE  /\ Sound([l EXCEPT !.think = 0, !.resp = 0], c)
         /\ Sound([l EXCEPT !.sync = 0], c)
         /\ Sound([l EXCEPT !.shell = 0], [c EXCEPT !.command = 0])
         /\ ~c.calling => Sound([l EXCEPT !.think = 0, !.resp = 0, !.tool = 0], c)
<1> USE DEF Sound, Placed, Written, Names, InList, Lists, Contexts
<1>1. \A s : s.msgs = l.msgs => \A k : Held(s, k) = Held(l, k)
  BY HeldSame
<1>2. Sound([l EXCEPT !.think = 0, !.resp = 0], c)
  BY <1>1
<1>3. Sound([l EXCEPT !.sync = 0], c)
  BY <1>1
<1>4. Sound([l EXCEPT !.shell = 0], [c EXCEPT !.command = 0])
  BY <1>1
<1>5. ~c.calling => Sound([l EXCEPT !.think = 0, !.resp = 0, !.tool = 0], c)
  BY <1>1
<1> QED BY <1>2, <1>3, <1>4, <1>5

\* The index stays 0 or within the list; outside of it the program ends, which
\* only happens once an index was moved.
LEMMA SoundUnchecked ==
  ASSUME NEW l, NEW c \in Contexts, Sound(l, c), NEW i \in Nat \ {0}, NEW id \in Ids,
         ~l.shifted => Names(l, i, id)
  PROVE  /\ Sound(OverwriteUnchecked(l, i, id), c)
         /\ \A f \in {"think", "resp", "tool", "shell", "sync", "notice", "shifted"} :
              OverwriteUnchecked(l, i, id)[f] = l[f]
<1>1. CASE InList(l, i)
  <2>1. OverwriteUnchecked(l, i, id) = Overwrite(l, i, id) /\ i \in 1..Len(l.msgs)
    BY <1>1 DEF OverwriteUnchecked, InList
  <2>2. l.shifted \/ l.msgs[i].own = id
    BY DEF Names
  <2> QED BY <2>1, <2>2, SoundOverwrite
<1>2. CASE ~InList(l, i)
  BY <1>2 DEF OverwriteUnchecked, Sound, Lists, Names
<1> QED BY <1>1, <1>2

\* A thinking delta writes to the box of the turn, or makes it.
LEMMA SoundThinking ==
  ASSUME NEW l, NEW c \in Contexts, Sound(l, c), c.thinking
  PROVE  Sound(AppendThinking(l, c.turn), c)
<1> DEFINE id == <<"thinking", c.turn>>
           s == Say(l, id)
<1>1. l \in Lists /\ id \in Ids /\ Len(l.msgs) \in Nat /\ l.think \in Nat /\ l.notice \in Nat
  BY DEF Sound, Lists, Ids, Kinds, Contexts
<1>2. CASE l.think = 0 /\ l.notice <= Len(l.msgs)
  <2>1. /\ Sound(s, c) /\ Len(s.msgs) = Len(l.msgs) + 1 /\ Names(s, Len(l.msgs) + 1, id)
        /\ s.notice = l.notice
    BY <1>1, SoundSay
  <2> HIDE DEF s
  <2>2. Len(s.msgs) \in Nat \ {0} /\ s.notice < Len(s.msgs)
    BY <1>1, <1>2, <2>1
  <2>3. Sound([s EXCEPT !.think = Len(s.msgs)], [c EXCEPT !.thinking = TRUE])
    BY <2>1, <2>2, SoundNewest
  <2>4. [c EXCEPT !.thinking = TRUE] = c
    BY DEF Contexts
  <2> QED BY <1>2, <2>3, <2>4 DEF AppendThinking, s
<1>3. CASE l.think = 0 /\ l.notice > Len(l.msgs)
  <2>1. l.shifted
    BY <1>1, <1>3 DEF Sound, Placed, Names, InList
  <2>2. s \in Lists /\ s.shifted
    BY <1>1, <2>1, SoundSay DEF Sound
  <2> HIDE DEF s
  <2>3. [s EXCEPT !.think = Len(s.msgs)] \in Lists /\ [s EXCEPT !.think = Len(s.msgs)].shifted
    BY <2>2 DEF Lists
  <2> QED BY <1>3, <2>3 DEF AppendThinking, Sound, s
<1>4. CASE l.think # 0
  <2>1. ~l.shifted => Names(l, l.think, id)
    BY <1>4 DEF Sound, Placed
  <2>2. Sound(OverwriteUnchecked(l, l.think, id), c)
    BY <1>1, <1>4, <2>1, SoundUnchecked
  <2> QED BY <1>4, <2>2 DEF AppendThinking
<1> QED BY <1>1, <1>2, <1>3, <1>4

\* A response delta writes to the response of the turn, or makes it.
LEMMA SoundResponse ==
  ASSUME NEW l, NEW c \in Contexts, Sound(l, c)
  PROVE  Sound(AppendResponse(l, c.turn), c) /\ AppendResponse(l, c.turn).resp # 0
<1> DEFINE id == <<"ai", c.turn>>
           s == Say(l, id)
<1>1. l \in Lists /\ id \in Ids /\ Len(l.msgs) \in Nat /\ l.resp \in Nat /\ l.notice \in Nat
  BY DEF Sound, Lists, Ids, Kinds, Contexts
<1>2. CASE l.resp = 0
  <2>1. /\ Sound(s, c) /\ Len(s.msgs) = Len(l.msgs) + 1 /\ Names(s, Len(l.msgs) + 1, id)
        /\ s.notice = l.notice /\ s.shifted = l.shifted /\ s \in Lists
    BY <1>1, SoundSay DEF Sound
  <2> HIDE DEF s
  <2>2. Len(s.msgs) \in Nat \ {0}
    BY <1>1, <2>1
  <2>3. AppendResponse(l, c.turn) = [s EXCEPT !.resp = Len(s.msgs)]
    BY <1>2 DEF AppendResponse, s
  <2>4. CASE l.notice <= Len(l.msgs)
    <3>1. s.notice < Len(s.msgs)
      BY <1>1, <2>1, <2>4
    <3>2. Sound([s EXCEPT !.resp = Len(s.msgs)], c)
      BY <2>1, <2>2, <3>1, SoundNewest
    <3> QED BY <2>1, <2>2, <2>3, <3>2 DEF Lists
  <2>5. CASE l.notice > Len(l.msgs)
    <3>1. l.shifted
      BY <1>1, <2>5 DEF Sound, Placed, Names, InList
    <3> QED BY <2>1, <2>2, <2>3, <3>1 DEF Sound, Lists
  <2> QED BY <1>1, <2>4, <2>5
<1>3. CASE l.resp # 0
  <2>1. ~l.shifted => Names(l, l.resp, id)
    BY <1>3 DEF Sound, Placed
  <2>2. /\ Sound(OverwriteUnchecked(l, l.resp, id), c)
        /\ OverwriteUnchecked(l, l.resp, id).resp = l.resp
    BY <1>1, <1>3, <2>1, SoundUnchecked
  <2> QED BY <1>3, <2>2 DEF AppendResponse
<1> QED BY <1>2, <1>3

\* A markup call is recorded, and the response that held it may go.
LEMMA SoundRecordCall ==
  ASSUME NEW l, NEW c \in Contexts, Sound(l, c), NEW ask \in BOOLEAN, NEW scrub \in BOOLEAN
  PROVE  Sound(RecordCall(l, c.turn, ask, scrub), c)
<1> DEFINE s == IF ask THEN l ELSE Say(l, <<"request", c.turn>>)
<1>1. <<"request", c.turn>> \in Ids
  BY DEF Ids, Kinds, Contexts
<1>2. Sound(s, c) /\ s.resp = l.resp
  BY <1>1, SoundSay
<1> HIDE DEF s
<1>3. InList(l, l.resp) => InList(s, s.resp)
  <2>1. Len(s.msgs) = Len(l.msgs) \/ Len(s.msgs) = Len(l.msgs) + 1
    BY <1>1, SoundSay DEF s
  <2> QED BY <1>2, <2>1 DEF InList, Sound, Lists
<1>4. RecordCall(l, c.turn, ask, scrub) = IF scrub /\ InList(l, l.resp) THEN Scrub(s) ELSE s
  BY DEF RecordCall, s
<1> QED BY <1>2, <1>3, <1>4, SoundScrub

\* The box of the call that runs, or a new one at the end.
LEMMA SoundToolBox ==
  ASSUME NEW l, NEW c \in Contexts, Sound(l, c), c.calling, turn = c.turn
  PROVE  /\ Sound(FinishToolCall(l), c)
         /\ \A f \in {"think", "resp", "shell", "sync", "notice"} : FinishToolCall(l)[f] = l[f]
<1>1. <<"tool", turn>> \in Ids
  BY DEF Ids, Kinds, Contexts
<1>2. CASE InList(l, l.tool)
  <2>1. l.tool \in 1..Len(l.msgs) /\ FinishToolCall(l) = Overwrite(l, l.tool, <<"tool", turn>>)
    BY <1>2 DEF InList, FinishToolCall
  <2>2. l.shifted \/ l.msgs[l.tool].own = <<"tool", turn>>
    BY DEF Sound, Placed, Names
  <2> QED BY <1>1, <2>1, <2>2, SoundOverwrite
<1>3. CASE ~InList(l, l.tool)
  BY <1>1, <1>3, SoundSay DEF FinishToolCall
<1> QED BY <1>2, <1>3

\* After it the index of the thinking box is not used any more.
LEMMA SoundFinishThinking ==
  ASSUME NEW l, NEW c \in Contexts, Sound(l, c), c.thinking, ~c.calling, turn = c.turn,
         NEW final \in BOOLEAN
  PROVE  Sound(FinishThinking(l, final), [c EXCEPT !.thinking = FALSE])
<1> DEFINE d == [c EXCEPT !.thinking = FALSE]
           id == <<"thinking", turn>>
<1>1. id \in Ids /\ d \in Contexts /\ d.turn = c.turn /\ ~d.thinking /\ d.calling = c.calling
      /\ d.command = c.command /\ d.kept = c.kept
  BY DEF Ids, Kinds, Contexts
<1>2. Sound(l, d)
  BY <1>1, SoundForLess
<1>3. CASE InList(l, l.think) /\ l.msgs[l.think].blank /\ ~final
  BY <1>3, SoundRemoveThinking DEF FinishThinking
<1>4. CASE InList(l, l.think) /\ l.msgs[l.think].blank /\ final
  <2>1. l.shifted \/ l.msgs[l.think].own = id
    BY <1>4 DEF Sound, Placed, Names, InList
  <2>2. l.think \in 1..Len(l.msgs)
    BY <1>4 DEF InList
  <2>3. Sound(Overwrite(l, l.think, id), d)
    BY <1>1, <1>2, <2>1, <2>2, SoundOverwrite
  <2> QED BY <1>4, <2>3 DEF FinishThinking
<1>5. CASE InList(l, l.think) /\ ~l.msgs[l.think].blank
  BY <1>2, <1>5 DEF FinishThinking
<1>6. CASE ~InList(l, l.think)
  BY <1>1, <1>2, <1>6, SoundSay DEF FinishThinking
<1> QED BY <1>3, <1>4, <1>5, <1>6

\* The final response is written, or the empty one goes.
LEMMA SoundFinishResponse ==
  ASSUME NEW l, NEW c \in Contexts, Sound(l, c), ~c.thinking, ~c.calling, turn = c.turn,
         NEW reply \in BOOLEAN
  PROVE  /\ Sound(FinishResponse(l, reply), c)
         /\ reply => FinishResponse(l, reply).resp # 0
<1> DEFINE id == <<"ai", turn>>
<1>1. id \in Ids /\ l \in Lists /\ [c EXCEPT !.thinking = FALSE] = c /\ l.resp \in Nat
  BY DEF Ids, Kinds, Contexts, Sound, Lists
<1>2. CASE l.resp # 0 /\ reply
  <2>1. ~l.shifted => Names(l, l.resp, id)
    BY <1>2 DEF Sound, Placed
  <2>2. /\ Sound(OverwriteUnchecked(l, l.resp, id), c)
        /\ OverwriteUnchecked(l, l.resp, id).resp = l.resp
    BY <1>1, <1>2, <2>1, SoundUnchecked
  <2> QED BY <1>2, <2>2 DEF FinishResponse
<1>3. CASE l.resp # 0 /\ ~reply /\ ~InList(l, l.resp)
  <2>1. l.shifted
    BY <1>3 DEF Sound, Placed, Names
  <2> QED BY <1>1, <1>3, <2>1 DEF FinishResponse, Sound, Lists
<1>4. CASE l.resp # 0 /\ ~reply /\ InList(l, l.resp)
  <2> DEFINE mended == {"think", "resp", "tool"}
             r == RemoveMessage(l, l.resp, mended)
             s == [r EXCEPT !.resp = 0]
  <2>1. s \in Lists
    <3> HIDE DEF mended
    <3>1. r \in Lists
      BY <1>1, <1>4, RemovedList DEF InList
    <3> QED BY <3>1 DEF Lists
  <2>2. FinishResponse(l, reply) = s
    BY <1>4 DEF FinishResponse
  <2>3. Sound(s, [c EXCEPT !.thinking = FALSE])
    BY <1>4, <2>1, SoundRemoveResponse
  <2> QED BY <1>1, <1>4, <2>2, <2>3
<1>5. CASE l.resp = 0 /\ reply
  <2>1. FinishResponse(l, reply) = AppendResponse(l, c.turn)
    BY <1>5 DEF FinishResponse, AppendResponse
  <2> QED BY <2>1, SoundResponse
<1>6. CASE l.resp = 0 /\ ~reply
  BY <1>6 DEF FinishResponse
<1> QED BY <1>2, <1>3, <1>4, <1>5, <1>6

\* The box of the shell command that runs; without one there is no index.
LEMMA SoundShellBox ==
  ASSUME NEW l, NEW c \in Contexts, Sound(l, c), shell.command \in Nat,
         c.command \in {0, shell.command}
  PROVE  /\ Sound(WriteShellBox(l), c)
         /\ \A f \in {"think", "resp", "tool", "shell", "sync", "notice"} :
              WriteShellBox(l)[f] = l[f]
<1> DEFINE id == <<"shell", shell.command>>
<1>1. id \in Ids
  BY DEF Ids, Kinds
<1>2. CASE InList(l, l.shell)
  <2>1. l.shell \in 1..Len(l.msgs)
    BY <1>2 DEF InList
  <2>2. l.shifted \/ l.msgs[l.shell].own = id
    BY <2>1 DEF Sound, Placed, Names
  <2> QED BY <1>1, <1>2, <2>1, <2>2, SoundOverwrite DEF WriteShellBox
<1>3. CASE ~InList(l, l.shell)
  BY <1>3 DEF WriteShellBox
<1> QED BY <1>2, <1>3

\* The status of the models sync, in its message or in a new one.
LEMMA SoundSyncMessage ==
  ASSUME NEW l, NEW c \in Contexts, Sound(l, c)
  PROVE  /\ Sound(SetSyncMessage(l), c)
         /\ \A f \in {"think", "resp", "tool", "shell", "notice"} : SetSyncMessage(l)[f] = l[f]
<1> DEFINE id == <<"sync", 0>>
           s == Say(l, id)
<1>1. id \in Ids /\ l \in Lists /\ Len(l.msgs) \in Nat
  BY DEF Ids, Kinds, Sound, Lists
<1>2. CASE InList(l, l.sync)
  <2>1. l.sync \in 1..Len(l.msgs)
    BY <1>2 DEF InList
  <2>2. l.shifted \/ l.msgs[l.sync].own = id \/ l.sync = 1
    BY <2>1 DEF Sound, Placed, Names
  <2> QED BY <1>1, <1>2, <2>1, <2>2, SoundOverwrite DEF SetSyncMessage
<1>3. CASE ~InList(l, l.sync)
  <2>1. /\ Sound(s, c) /\ Len(s.msgs) = Len(l.msgs) + 1 /\ Names(s, Len(l.msgs) + 1, id)
        /\ \A f \in {"think", "resp", "tool", "shell", "notice"} : s[f] = l[f]
        /\ s \in Lists
    BY <1>1, SoundSay DEF Sound
  <2> HIDE DEF s
  <2>2. Sound([s EXCEPT !.sync = Len(s.msgs)], c)
    <3>1. Len(s.msgs) \in Nat \ {0} /\ Names(s, Len(s.msgs), id)
      BY <1>1, <2>1
    <3> QED BY <2>1, <3>1, SoundNewest
  <2>3. SetSyncMessage(l) = [s EXCEPT !.sync = Len(s.msgs)]
    BY <1>3 DEF SetSyncMessage, s
  <2> QED BY <2>1, <2>2, <2>3 DEF Lists
<1> QED BY <1>2, <1>3

\* A new turn has no boxes but that of its thinking.
LEMMA SoundBeginTurn ==
  ASSUME NEW l, NEW c \in Contexts, Sound(l, c), NEW t \in Nat,
         NEW d \in Contexts, d.turn = t, ~d.calling, d.command = c.command, d.kept = c.kept
  PROVE  Sound(BeginTurn(l, t), d) /\ BeginTurn(l, t).shell = l.shell
<1> DEFINE id == <<"thinking", t>>
           m == [own |-> id, writer |-> id, blank |-> TRUE]
           b == [l EXCEPT !.think = 0, !.resp = 0, !.tool = 0]
           s == [b EXCEPT !.msgs = Append(@, m)]
           e == [turn |-> t, thinking |-> d.thinking, calling |-> FALSE, command |-> c.command,
                 kept |-> c.kept]
<1>1. /\ m \in Msgs /\ m.own = id /\ m.writer = id /\ l \in Lists /\ e = d
  BY DEF Ids, Kinds, Msgs, Sound, Contexts
<1>2. b \in Lists /\ b.think = 0 /\ b.resp = 0 /\ b.shell = l.shell
  BY <1>1 DEF Lists
<1>3. Sound(b, d)
  <2>1. [c EXCEPT !.calling = FALSE] \in Contexts /\ Sound(l, [c EXCEPT !.calling = FALSE])
    BY DEF Sound, Placed, Contexts
  <2>2. Sound(b, [c EXCEPT !.calling = FALSE])
    <3>1. ~([c EXCEPT !.calling = FALSE].calling)
      BY DEF Contexts
    <3> QED BY <2>1, <3>1, SoundReset
  <2>3. [c EXCEPT !.calling = FALSE].command = c.command
        /\ [c EXCEPT !.calling = FALSE].kept = c.kept
    BY DEF Contexts
  <2> HIDE DEF b
  <2> QED BY <1>2, <2>1, <2>2, <2>3, SoundForLess
<1> HIDE DEF b, m
<1>4. Sound(s, d)
  BY <1>1, <1>3, SoundAppend
<1>5. /\ s \in Lists /\ Len(s.msgs) = Len(b.msgs) + 1 /\ s.msgs[Len(b.msgs) + 1] = m
      /\ \A f \in {"think", "resp", "tool", "shell", "sync", "notice", "shifted",
                   "crashed"} : s[f] = b[f]
  BY <1>1, <1>2, AppendedList
<1>6. Len(b.msgs) \in Nat /\ Len(s.msgs) \in Nat \ {0}
  BY <1>2, <1>5 DEF Lists
<1> HIDE DEF s
<1>7. Sound([s EXCEPT !.think = Len(s.msgs)], d)
  <2>1. Names(s, Len(s.msgs), id)
    BY <1>1, <1>5, <1>6 DEF Names, InList
  <2>2. CASE s.notice < Len(s.msgs)
    <3>1. Sound([s EXCEPT !.think = Len(s.msgs)], [d EXCEPT !.thinking = TRUE])
      BY <1>4, <1>6, <2>1, <2>2, SoundNewest
    <3>2. [d EXCEPT !.thinking = TRUE] \in Contexts /\ [d EXCEPT !.thinking = TRUE].turn = d.turn
          /\ [d EXCEPT !.thinking = TRUE].thinking /\ [d EXCEPT !.thinking = TRUE].calling = d.calling
          /\ [d EXCEPT !.thinking = TRUE].command = d.command
          /\ [d EXCEPT !.thinking = TRUE].kept = d.kept
      BY DEF Contexts
    <3> QED BY <3>1, <3>2, SoundForLess
  <2>3. CASE s.notice >= Len(s.msgs)
    <3>1. b.notice \in Nat
      BY <1>2 DEF Lists
    <3>2. b.shifted
      BY <1>3, <1>5, <1>6, <2>3, <3>1 DEF Sound, Placed, Names, InList
    <3> QED BY <1>5, <1>6, <3>2 DEF Sound, Lists
  <2>4. s.notice \in Nat
    BY <1>5 DEF Lists
  <2> QED BY <2>2, <2>3, <2>4, <1>6
<1>8. BeginTurn(l, t) = IF thinkingOn THEN [s EXCEPT !.think = Len(s.msgs)] ELSE b
  BY DEF BeginTurn, s, b, m
<1>9. [s EXCEPT !.think = Len(s.msgs)].shell = l.shell
  BY <1>2, <1>5 DEF Lists
<1> QED BY <1>2, <1>3, <1>7, <1>8, <1>9

-----------------------------------------------------------------------------
(***************************************************************************)
(* The invariant of the screen.                                            *)
(***************************************************************************)

ShellRecords ==
    [running : BOOLEAN, command : Nat, alive : BOOLEAN, chunks : Nat, sent : Nat,
     reader : {"none", "armed", "holding"}, posted : BOOLEAN, waiting : BOOLEAN,
     withContext : BOOLEAN, cancelled : BOOLEAN, interrupted : BOOLEAN]

ScreenTypes ==
    /\ turn \in Nat /\ busy \in BOOLEAN /\ commitDir \in BOOLEAN
    /\ call \in {"none", "running", "done"}
    /\ offer \in {"none", "posted", "asked", "given", "lost"}
    /\ dialog \in {"none", "approval", "markup"}
    /\ prompt \in {"project", "commit"} /\ saved \in {"none", "project", "commit"}
    /\ shell \in ShellRecords

\* A command that runs is shown, with its number, until its result was handled.
ShellPlace ==
    /\ shell.running => shell.command # 0
    /\ shell.alive => shell.running /\ ~shell.posted
    /\ shell.posted => shell.running
    /\ shell.waiting => shell.alive
    /\ shell.alive => shell.reader # "none" \/ "shellOutput" \in mishaps

\* An approval that is on its way or on screen is that of the call that runs.
OfferPlace ==
    /\ dialog = "approval" => offer = "asked"
    /\ offer \in {"posted", "asked"} => busy /\ call = "running"

ScreenBase == ScreenTypes /\ ShellPlace /\ OfferPlace /\ CommandReported

\* The prompt that /commit lends a turn has the project's saved behind it.
PromptInv ==
    /\ CommitSettled
    /\ "refused" \notin mishaps => /\ prompt = "commit" => saved = "project"
                                   /\ saved # "commit"

Live == [turn |-> turn, thinking |-> TRUE, calling |-> busy /\ call = "running",
         command |-> IF shell.running THEN shell.command ELSE 0,
         kept |-> [k \in RecordKinds |-> Held(list, k)]]

ListInv ==
    /\ Sound(list, Live)
    /\ ~busy => list.think = 0 /\ list.resp = 0

-----------------------------------------------------------------------------
(***************************************************************************)
(* Types, the shell command and the approval under way.                    *)
(***************************************************************************)

\* A session starts without turn, command or approval.
LEMMA ScreenBaseInit == Init => ScreenBase
<1> SUFFICES ASSUME Init PROVE ScreenBase
  OBVIOUS
<1>1. ScreenTypes
  BY ScreenConstants DEF Init, NoShell, ScreenTypes, ShellRecords, Activities
<1>2. ShellPlace /\ OfferPlace /\ CommandReported
  BY DEF Init, NoShell, ShellPlace, OfferPlace, CommandReported
<1> QED BY <1>1, <1>2 DEF ScreenBase

\* The actions that start a turn, and those of each part of the state.
Starts == SubmitPrompt \/ SubmitCommit \/ SubmitTemplate \/ AnswerQuestion \/ FinishShell
TurnSteps == Starts \/ CancelTurn \/ TurnDone
ShellSteps == SubmitShell \/ CancelShell \/ ShellChunk \/ ShellUnblocks \/ ShellEnds
              \/ WaitShellOutput \/ HandleShellOutput \/ SwallowShellDone \/ FinishShell
OfferSteps == OfferArrives \/ AnswerApproval \/ QuestionArrives \/ DismissQuestion
CallSteps == ToolCallStart \/ ToolCallDone

\* No other action writes that part, and what has happened stays on record.
LEMMA Writers ==
  ASSUME [Next]_vars
  PROVE  /\ mishaps \subseteq mishaps'
         /\ TurnSteps \/ UNCHANGED <<turn, busy, promptVars>>
         /\ ShellSteps \/ UNCHANGED shell
         /\ TurnSteps \/ OfferSteps \/ CallSteps \/ UNCHANGED <<call, offer, dialog>>
<1> USE DEF turnVars, keyVars, setVars, promptVars, TurnRest, SyncRest, ShellRest, TurnSteps,
            Starts, ShellSteps, OfferSteps, CallSteps
<1>1. CASE SubmitPrompt
  BY <1>1 DEF SubmitPrompt, StartTurn
<1>2. CASE SubmitWithoutModel
  BY <1>2 DEF SubmitWithoutModel
<1>3. CASE SelectModel
  BY <1>3 DEF SelectModel
<1>4. CASE SubmitCommit
  BY <1>4 DEF SubmitCommit, StartTurn
<1>5. CASE SubmitTemplate
  BY <1>5 DEF SubmitTemplate, StartTurn
<1>6. CASE SubmitShell
  BY <1>6 DEF SubmitShell
<1>7. CASE Report
  BY <1>7 DEF Report
<1>8. CASE CycleThink
  BY <1>8 DEF CycleThink
<1>9. CASE CtrlCOnce
  BY <1>9 DEF CtrlCOnce
<1>10. CASE CtrlCClears
  BY <1>10 DEF CtrlCClears
<1>11. CASE CtrlCQuits
  BY <1>11 DEF CtrlCQuits
<1>12. CASE OtherKey
  BY <1>12 DEF OtherKey
<1>13. CASE CtrlCReset
  BY <1>13 DEF CtrlCReset
<1>14. CASE CancelShell
  BY <1>14 DEF CancelShell
<1>15. CASE CancelTurn
  BY <1>15 DEF CancelTurn, EndCommit, RestorePrompt
<1>16. CASE ThinkingDelta
  BY <1>16 DEF ThinkingDelta
<1>17. CASE ResponseDelta
  BY <1>17 DEF ResponseDelta
<1>18. CASE ToolCallStart
  BY <1>18 DEF ToolCallStart
<1>19. CASE ToolCallOutput
  BY <1>19 DEF ToolCallOutput
<1>20. CASE ToolCallDone
  BY <1>20 DEF ToolCallDone
<1>21. CASE TurnDone
  BY <1>21 DEF TurnDone, EndCommit, RestorePrompt
<1>22. CASE TurnClosed
  BY <1>22 DEF TurnClosed
<1>23. CASE OfferArrives
  BY <1>23 DEF OfferArrives
<1>24. CASE AnswerApproval
  BY <1>24 DEF AnswerApproval
<1>25. CASE QuestionArrives
  BY <1>25 DEF QuestionArrives
<1>26. CASE AnswerQuestion
  BY <1>26 DEF AnswerQuestion, StartTurn
<1>27. CASE DismissQuestion
  BY <1>27 DEF DismissQuestion
<1>28. CASE OfferModelsSync
  BY <1>28 DEF OfferModelsSync
<1>29. CASE ResolveModelsSync
  BY <1>29 DEF ResolveModelsSync
<1>30. CASE SyncTick
  BY <1>30 DEF SyncTick
<1>31. CASE SyncFinishes
  BY <1>31 DEF SyncFinishes
<1>32. CASE FinishModelsSync
  BY <1>32 DEF FinishModelsSync
<1>33. CASE ShellChunk
  BY <1>33 DEF ShellChunk
<1>34. CASE ShellUnblocks
  BY <1>34 DEF ShellUnblocks
<1>35. CASE ShellEnds
  BY <1>35 DEF ShellEnds
<1>36. CASE WaitShellOutput
  BY <1>36 DEF WaitShellOutput
<1>37. CASE HandleShellOutput
  BY <1>37 DEF HandleShellOutput
<1>38. CASE SwallowShellDone
  BY <1>38 DEF SwallowShellDone
<1>39. CASE FinishShell
  BY <1>39 DEF FinishShell, StartTurn
<1>40. CASE Over
  BY <1>40 DEF Over, vars
<1>41. CASE UNCHANGED vars
  BY <1>41 DEF vars
<1> QED BY <1>1, <1>2, <1>3, <1>4, <1>5, <1>6, <1>7, <1>8, <1>9, <1>10, <1>11,
           <1>12, <1>13, <1>14, <1>15, <1>16, <1>17, <1>18, <1>19, <1>20, <1>21,
           <1>22, <1>23, <1>24, <1>25, <1>26, <1>27, <1>28, <1>29, <1>30, <1>31,
           <1>32, <1>33, <1>34, <1>35, <1>36, <1>37, <1>38, <1>39, <1>40, <1>41 DEF
           Next

\* Every action keeps the types.
LEMMA ScreenTypesStep ==
  ASSUME ScreenTypes, ShellPlace, [Next]_vars
  PROVE  ScreenTypes'
<1> USE DEF ScreenTypes
<1>1. turn' \in Nat /\ busy' \in BOOLEAN
  <2>1. CASE Starts
    <3>1. SubmitPrompt \/ SubmitTemplate \/ AnswerQuestion => turn' = turn + 1 /\ busy' = TRUE
      BY DEF SubmitPrompt, SubmitTemplate, AnswerQuestion, StartTurn
    <3>2. SubmitCommit => (turn' = turn + 1 /\ busy' = TRUE) \/ UNCHANGED <<turn, busy>>
      BY DEF SubmitCommit, StartTurn
    <3>3. FinishShell => (turn' = turn + 1 /\ busy' = TRUE) \/ UNCHANGED <<turn, busy>>
      BY DEF FinishShell, StartTurn
    <3>4. /\ turn' = turn + 1 \/ turn' = turn
          /\ busy' = TRUE \/ busy' = busy
      BY <2>1, <3>1, <3>2, <3>3 DEF Starts
    <3>5. turn' \in Nat
      BY <3>4
    <3>6. busy' \in BOOLEAN
      BY <3>4
    <3> QED BY <3>5, <3>6
  <2>2. CASE CancelTurn \/ TurnDone
    BY <2>2 DEF CancelTurn, TurnDone
  <2> QED BY <2>1, <2>2, Writers DEF TurnSteps
<1>2. /\ commitDir' \in BOOLEAN /\ prompt' \in {"project", "commit"}
      /\ saved' \in {"none", "project", "commit"}
  <2>1. CASE Starts
    BY <2>1 DEF Starts, SubmitPrompt, SubmitCommit, SubmitTemplate, AnswerQuestion,
                FinishShell, StartTurn, promptVars
  <2>2. CASE CancelTurn \/ TurnDone
    BY <2>2 DEF CancelTurn, TurnDone, RestorePrompt, EndCommit
  <2> QED BY <2>1, <2>2, Writers DEF TurnSteps, promptVars
<1>3. /\ call' \in {"none", "running", "done"}
      /\ offer' \in {"none", "posted", "asked", "given", "lost"}
      /\ dialog' \in {"none", "approval", "markup"}
  <2>1. CASE Starts
    BY <2>1 DEF Starts, SubmitPrompt, SubmitCommit, SubmitTemplate, AnswerQuestion,
                FinishShell, StartTurn
  <2>2. CASE CancelTurn \/ TurnDone
    BY <2>2 DEF CancelTurn, TurnDone
  <2>3. CASE OfferSteps
    BY <2>3 DEF OfferSteps, OfferArrives, AnswerApproval, QuestionArrives, DismissQuestion
  <2>4. CASE CallSteps
    BY <2>4 DEF CallSteps, ToolCallStart, ToolCallDone, TurnRest
  <2> QED BY <2>1, <2>2, <2>3, <2>4, Writers DEF TurnSteps
<1>4. shell' \in ShellRecords
  <2> USE DEF ShellRecords
  <2>1. shell.chunks + 1 \in Nat /\ shell.sent + 1 \in Nat /\ shell.command + 1 \in Nat
    OBVIOUS
  <2>2. CASE SubmitShell
    <3>1. PICK ctx \in BOOLEAN :
            shell' = [NoShell EXCEPT !.running = TRUE, !.alive = TRUE,
                        !.command = shell.command + 1, !.reader = "armed",
                        !.withContext = ctx]
      BY <2>2 DEF SubmitShell
    <3> QED BY <2>1, <3>1 DEF NoShell
  <2>3. CASE CancelShell
    BY <2>3 DEF CancelShell
  <2>4. CASE ShellChunk
    <3>1. \/ shell' = [shell EXCEPT !.sent = shell.sent + 1, !.chunks = shell.chunks + 1]
          \/ shell' = [shell EXCEPT !.sent = shell.sent + 1, !.waiting = TRUE]
      BY <2>4 DEF ShellChunk
    <3> QED BY <2>1, <3>1
  <2>5. CASE ShellUnblocks
    BY <2>1, <2>5 DEF ShellUnblocks
  <2>6. CASE ShellEnds
    <3>1. shell' = [shell EXCEPT !.alive = FALSE, !.posted = TRUE, !.interrupted = shell.cancelled]
      BY <2>6 DEF ShellEnds
    <3>2. shell.cancelled \in BOOLEAN
      OBVIOUS
    <3> QED BY <3>1, <3>2
  <2>7. CASE WaitShellOutput
    <3>1. \/ /\ shell' = [shell EXCEPT !.chunks = shell.chunks - 1, !.reader = "holding"]
             /\ shell.chunks - 1 \in Nat
          \/ shell' = [shell EXCEPT !.reader = "none"]
      BY <2>7 DEF WaitShellOutput
    <3> QED BY <3>1
  <2>8. CASE HandleShellOutput
    BY <2>8 DEF HandleShellOutput
  <2>9. CASE SwallowShellDone
    <3>1. shell' = [shell EXCEPT !.posted = FALSE]
      BY <2>9 DEF SwallowShellDone
    <3> QED BY <3>1
  <2>10. CASE FinishShell
    BY <2>10 DEF FinishShell, NoShell
  <2> QED BY <2>2, <2>3, <2>4, <2>5, <2>6, <2>7, <2>8, <2>9, <2>10, Writers DEF ShellSteps
<1> QED BY <1>1, <1>2, <1>3, <1>4

\* A runner that ends leaves its result to be handled, and one that waits has a
\* reader, unless a dialog swallowed what was posted.
LEMMA ShellStep ==
  ASSUME ScreenTypes, ShellPlace, CommandReported, [Next]_vars
  PROVE  ShellPlace' /\ CommandReported'
<1> USE DEF ScreenTypes, ShellRecords, ShellPlace, CommandReported
<1>1. CASE SubmitShell
  BY <1>1 DEF SubmitShell, NoShell
<1>2. CASE CancelShell
  BY <1>2, Writers DEF CancelShell
<1>3. CASE ShellChunk
  <2>1. \/ shell' = [shell EXCEPT !.sent = shell.sent + 1, !.chunks = shell.chunks + 1]
        \/ shell' = [shell EXCEPT !.sent = shell.sent + 1, !.waiting = TRUE]
    BY <1>3 DEF ShellChunk
  <2>2. shell.alive
    BY <1>3 DEF ShellChunk
  <2> QED BY <2>1, <2>2, Writers
<1>4. CASE ShellUnblocks
  BY <1>4, Writers DEF ShellUnblocks
<1>5. CASE ShellEnds
  BY <1>5, Writers DEF ShellEnds
<1>6. CASE WaitShellOutput
  BY <1>6, Writers DEF WaitShellOutput
<1>7. CASE HandleShellOutput
  BY <1>7 DEF HandleShellOutput
<1>8. CASE SwallowShellDone
  BY <1>8, Writers DEF SwallowShellDone
<1>9. CASE FinishShell
  BY <1>9 DEF FinishShell, NoShell
<1>10. CASE UNCHANGED shell
  BY <1>10, Writers
<1> QED BY <1>1, <1>2, <1>3, <1>4, <1>5, <1>6, <1>7, <1>8, <1>9, <1>10, Writers
        DEF ShellSteps

\* An approval under way stays that of the call that runs.
LEMMA OfferStep ==
  ASSUME ScreenTypes, OfferPlace, [Next]_vars
  PROVE  OfferPlace'
<1> USE DEF ScreenTypes, OfferPlace, Event, Key, DialogOpen, CanSubmit
<1>1. CASE Starts
  BY <1>1 DEF Starts, SubmitPrompt, SubmitCommit, SubmitTemplate, AnswerQuestion,
              FinishShell, StartTurn
<1>2. CASE CancelTurn \/ TurnDone
  BY <1>2 DEF CancelTurn, TurnDone
<1>3. CASE OfferSteps
  BY <1>3 DEF OfferSteps, OfferArrives, AnswerApproval, QuestionArrives, DismissQuestion
<1>4. CASE CallSteps
  BY <1>4 DEF CallSteps, ToolCallStart, ToolCallDone, Allowed, TurnRest
<1>5. CASE UNCHANGED <<turn, busy, call, offer, dialog>>
  BY <1>5
<1> QED BY <1>1, <1>2, <1>3, <1>4, <1>5, Writers DEF TurnSteps, OfferSteps, CallSteps

\* The three parts together.
LEMMA ScreenBaseStep == ScreenBase /\ [Next]_vars => ScreenBase'
BY ScreenTypesStep, ShellStep, OfferStep DEF ScreenBase

-----------------------------------------------------------------------------
(***************************************************************************)
(* The prompt that /commit borrows, and what it commits.                   *)
(***************************************************************************)

\* The session starts with the prompt of the project.
LEMMA PromptInit == Init => PromptInv
BY DEF Init, PromptInv, CommitSettled

\* Only /commit takes the prompt away, and the end of its turn gives it back.
LEMMA PromptStep ==
  ASSUME ScreenTypes, PromptInv, [Next]_vars
  PROVE  PromptInv'
<1> USE DEF ScreenTypes, PromptInv, CommitSettled
<1>1. CASE SubmitPrompt
  BY <1>1 DEF SubmitPrompt, StartTurn, CanSubmit, promptVars
<1>2. CASE SubmitCommit
  <2>1. ~busy /\ saved' = prompt /\ prompt' = "commit" /\ committed' = committed
    BY <1>2 DEF SubmitCommit, CanSubmit
  <2>2. CASE hasModel
    BY <1>2, <2>1, <2>2 DEF SubmitCommit, StartTurn
  <2>3. CASE ~hasModel
    BY <1>2, <2>1, <2>3 DEF SubmitCommit
  <2> QED BY <2>2, <2>3
<1>3. CASE SubmitTemplate
  BY <1>3 DEF SubmitTemplate, StartTurn, promptVars
<1>4. CASE AnswerQuestion
  BY <1>4 DEF AnswerQuestion, StartTurn, promptVars
<1>5. CASE FinishShell
  BY <1>5 DEF FinishShell, StartTurn, promptVars
<1>6. CASE CancelTurn
  BY <1>6 DEF CancelTurn, RestorePrompt, EndCommit
<1>7. CASE TurnDone
  <2>1. committed' = committed \/ (commitDir /\ committed' = committed \cup {turn})
    BY <1>7 DEF TurnDone
  <2> QED BY <1>7, <2>1 DEF TurnDone, RestorePrompt, EndCommit
<1>8. CASE UNCHANGED <<turn, busy, promptVars>>
  BY <1>8, Writers DEF promptVars
<1> QED BY <1>1, <1>2, <1>3, <1>4, <1>5, <1>6, <1>7, <1>8, Writers DEF TurnSteps, Starts

-----------------------------------------------------------------------------
(***************************************************************************)
(* The message list.                                                       *)
(***************************************************************************)

\* What is live, and that it is a context.
LEMMA LiveFields ==
  ASSUME ScreenTypes, list \in Lists
  PROVE  /\ Live \in Contexts /\ Live.turn = turn /\ Live.thinking
         /\ Live.calling = (busy /\ call = "running")
         /\ Live.command = IF shell.running THEN shell.command ELSE 0
         /\ Live.command \in {0, shell.command} /\ shell.command \in Nat
         /\ \A k \in RecordKinds : Live.kept[k] = Held(list, k)
<1>1. \A k \in RecordKinds : Held(list, k) \in Nat
  BY HeldNat
<1> QED BY <1>1 DEF ScreenTypes, ShellRecords, Live, Contexts

\* The same of the next state.
LEMMA NextLive ==
  ASSUME ScreenTypes', list' \in Lists
  PROVE  /\ Live' \in Contexts /\ Live'.turn = turn' /\ Live'.thinking
         /\ Live'.calling = (busy' /\ call' = "running")
         /\ Live'.command = IF shell'.running THEN shell'.command ELSE 0
         /\ \A k \in RecordKinds : Live'.kept[k] = Held(list', k)
<1>1. \A k \in RecordKinds : Held(list', k) \in Nat
  BY HeldNat
<1> QED BY <1>1 DEF ScreenTypes, ShellRecords, Live, Contexts, Held, Holding

\* A step keeps the list sound and its records.
RecordsNext ==
    ~list'.shifted => \A k \in RecordKinds : Held(list, k) <= Held(list', k)
ListKept == ListInv' /\ RecordsNext

\* What a handler leaves is sound for the next state when it is for at least
\* what is live then.
LEMMA ListNext ==
  ASSUME ScreenTypes, ScreenTypes', ListInv, NEW c \in Contexts, Sound(list', c),
         \/ /\ c.turn = turn' /\ c.thinking
            /\ busy' /\ call' = "running" => c.calling
         \/ /\ list'.think = 0 /\ list'.resp = 0
            /\ ~(busy' /\ call' = "running"),
         c.command = IF shell'.running THEN shell'.command ELSE 0,
         ~busy' => list'.think = 0 /\ list'.resp = 0,
         c.kept = Live.kept
  PROVE  ListKept
<1>1. Sound(list', Live')
  <2>1. /\ Live' \in Contexts /\ Live'.turn = turn' /\ Live'.thinking
        /\ Live'.calling = (busy' /\ call' = "running")
        /\ Live'.command = c.command
        /\ \A k \in RecordKinds : Live'.kept[k] = Held(list', k)
    BY NextLive DEF Sound
  <2> HIDE DEF Live
  <2> QED BY <2>1, SoundForLess
<1>2. ListInv'
  BY <1>1 DEF ListInv, Sound, Placed, Written, Names, InList, Held, Holding
<1>3. \A k \in RecordKinds : c.kept[k] = Held(list, k)
  BY LiveFields DEF ListInv, Sound
<1> QED BY <1>2, <1>3 DEF ListKept, RecordsNext, Sound, Placed

\* Handlers that start or end nothing and leave the boxes of the turn.
LEMMA QuietStep ==
  ASSUME ScreenTypes, ScreenTypes', ListInv, UNCHANGED <<turn, busy, call>>,
         shell'.running = shell.running, shell'.command = shell.command,
         Sound(list', Live), list'.think = list.think, list'.resp = list.resp
  PROVE  ListKept
<1>1. Live \in Contexts /\ Live.turn = turn /\ Live.thinking
      /\ Live.calling = (busy /\ call = "running")
      /\ Live.command = IF shell.running THEN shell.command ELSE 0
  BY LiveFields DEF ListInv, Sound
<1>2. ~busy => list.think = 0 /\ list.resp = 0
  BY DEF ListInv
<1> HIDE DEF Live
<1> QED BY <1>1, <1>2, ListNext

\* The empty list is sound.
LEMMA ListInit == Init => ListInv
<1> SUFFICES ASSUME Init PROVE ListInv
  OBVIOUS
<1>1. EmptyList \in Lists
  BY DEF EmptyList, Lists
<1>2. ~Live.calling /\ Live.command = 0
  BY DEF Init, NoShell, Live
<1>3. Placed(EmptyList, Live)
  <2>1. \A k \in RecordKinds : Live.kept[k] <= Held(EmptyList, k)
    BY <1>1, HeldNat DEF Init, Live
  <2> HIDE DEF Live
  <2> QED BY <1>2, <2>1 DEF EmptyList, Placed
<1>4. Written(EmptyList)
  BY DEF EmptyList, Written
<1> QED BY <1>1, <1>3, <1>4 DEF Init, EmptyList, ListInv, Sound

\* Lines of information, and the notice of Ctrl-C that goes.
LEMMA InformStep ==
  ASSUME ScreenTypes, ScreenTypes', ListInv,
         \/ SubmitWithoutModel \/ SelectModel \/ Report \/ CycleThink \/ DismissQuestion
         \/ CtrlCClears \/ OtherKey \/ CtrlCReset \/ CancelShell
  PROVE  ListKept
<1>1. Live \in Contexts /\ Sound(list, Live)
  BY LiveFields DEF ListInv, Sound
<1>2. UNCHANGED <<turn, busy, call>> /\ shell'.running = shell.running
      /\ shell'.command = shell.command
  <2>1. CASE CancelShell
    BY <2>1 DEF CancelShell, turnVars, ScreenTypes, ShellRecords
  <2> QED BY <2>1 DEF SubmitWithoutModel, SelectModel, Report, CycleThink, DismissQuestion,
                      CtrlCClears, OtherKey, CtrlCReset, turnVars
<1>3. \/ list' = list \/ list' = ClearNotice(list) \/ list' = Say(list, <<"system", 0>>)
      \/ list' = Say(list, <<"request", turn>>)
  BY DEF SubmitWithoutModel, SelectModel, Report, CycleThink, DismissQuestion,
         CtrlCClears, OtherKey, CtrlCReset, CancelShell
<1>4. <<"system", 0>> \in Ids /\ <<"request", turn>> \in Ids
  BY DEF Ids, Kinds, ScreenTypes
<1> HIDE DEF Live
<1>5. Sound(list', Live) /\ list'.think = list.think /\ list'.resp = list.resp
  BY <1>1, <1>3, <1>4, SoundSay, SoundClearNotice
<1> QED BY <1>2, <1>5, QuietStep

\* Dialogs, the models sync and the runner of the shell command.
LEMMA AsideStep ==
  ASSUME ScreenBase, ScreenTypes', ListInv,
         \/ CtrlCQuits \/ TurnClosed \/ OfferArrives \/ AnswerApproval \/ QuestionArrives
         \/ OfferModelsSync \/ ResolveModelsSync \/ SyncTick \/ SyncFinishes
         \/ FinishModelsSync \/ ShellChunk \/ ShellUnblocks \/ ShellEnds
         \/ WaitShellOutput \/ HandleShellOutput \/ SwallowShellDone \/ ToolCallOutput
         \/ UNCHANGED vars
  PROVE  ListKept
<1> USE DEF ScreenBase, ScreenTypes, ShellRecords
<1>1. /\ Live \in Contexts /\ Sound(list, Live) /\ Live.turn = turn
      /\ Live.calling = (busy /\ call = "running")
      /\ Live.command \in {0, shell.command} /\ shell.command \in Nat
  BY LiveFields DEF ListInv, Sound
<1>2. UNCHANGED <<turn, busy, call>>
  BY DEF CtrlCQuits, TurnClosed, OfferArrives, AnswerApproval, QuestionArrives,
         OfferModelsSync, ResolveModelsSync, SyncTick, SyncFinishes, FinishModelsSync,
         ShellChunk, ShellUnblocks, ShellEnds, WaitShellOutput, HandleShellOutput,
         SwallowShellDone, ToolCallOutput, SyncRest, ShellRest, TurnRest, turnVars, vars
<1>3. shell'.running = shell.running /\ shell'.command = shell.command
  <2>1. CASE ShellChunk \/ ShellUnblocks \/ ShellEnds
    BY <2>1 DEF ShellChunk, ShellUnblocks, ShellEnds
  <2>2. CASE WaitShellOutput \/ HandleShellOutput \/ SwallowShellDone
    BY <2>2 DEF WaitShellOutput, HandleShellOutput, SwallowShellDone
  <2>3. CASE UNCHANGED shell
    BY <2>3
  <2> QED BY <2>1, <2>2, <2>3
          DEF CtrlCQuits, TurnClosed, OfferArrives, AnswerApproval, QuestionArrives,
              OfferModelsSync, ResolveModelsSync, SyncTick, SyncFinishes, FinishModelsSync,
              ToolCallOutput, SyncRest, TurnRest, vars
<1>4. /\ Sound(SetSyncMessage(list), Live)
      /\ Sound([SetSyncMessage(list) EXCEPT !.sync = 0], Live)
      /\ SetSyncMessage(list).think = list.think /\ SetSyncMessage(list).resp = list.resp
  <2> HIDE DEF Live
  <2> QED BY <1>1, SoundSyncMessage, SoundReset
<1>5. /\ Sound(WriteShellBox(list), Live)
      /\ WriteShellBox(list).think = list.think /\ WriteShellBox(list).resp = list.resp
  <2> HIDE DEF Live
  <2> QED BY <1>1, SoundShellBox
<1>6. busy /\ call = "running" => /\ Sound(FinishToolCall(list), Live)
                                  /\ FinishToolCall(list).think = list.think
                                  /\ FinishToolCall(list).resp = list.resp
  <2> HIDE DEF Live
  <2> QED BY <1>1, SoundToolBox
<1>7. \/ list' = list \/ list' = SetSyncMessage(list) \/ list' = WriteShellBox(list)
      \/ list' = [SetSyncMessage(list) EXCEPT !.sync = 0]
      \/ busy /\ call = "running" /\ list' = FinishToolCall(list)
  <2>1. CASE AnswerApproval
    BY <2>1 DEF AnswerApproval, OfferPlace
  <2>2. CASE ToolCallOutput
    BY <2>2 DEF ToolCallOutput, Event, Allowed, FinishToolCall
  <2>3. CASE UNCHANGED list
    BY <2>3
  <2> QED BY <2>1, <2>2, <2>3
          DEF CtrlCQuits, TurnClosed, OfferArrives, QuestionArrives, OfferModelsSync,
              ResolveModelsSync, SyncTick, SyncFinishes, FinishModelsSync, ShellChunk,
              ShellUnblocks, ShellEnds, WaitShellOutput, HandleShellOutput,
              SwallowShellDone, vars
<1>8. [SetSyncMessage(list) EXCEPT !.sync = 0].think = list.think
      /\ [SetSyncMessage(list) EXCEPT !.sync = 0].resp = list.resp
  BY <1>4 DEF Sound, Lists
<1>9. Sound(list', Live) /\ list'.think = list.think /\ list'.resp = list.resp
  BY <1>1, <1>4, <1>5, <1>6, <1>7, <1>8
<1> QED BY <1>2, <1>3, <1>9, QuietStep

\* The deltas and calls of the turn.
LEMMA DeltaStep ==
  ASSUME ScreenTypes, ScreenTypes', ListInv,
         ThinkingDelta \/ ResponseDelta \/ ToolCallStart \/ ToolCallDone
  PROVE  ListKept
<1>1. /\ Live \in Contexts /\ Sound(list, Live) /\ Live.turn = turn /\ Live.thinking
      /\ Live.calling = (busy /\ call = "running")
      /\ Live.command = IF shell.running THEN shell.command ELSE 0
  BY LiveFields DEF ListInv, Sound
<1>2. turn' = turn /\ busy' = busy /\ busy /\ shell' = shell
  BY DEF ThinkingDelta, ResponseDelta, ToolCallStart, ToolCallDone, Event, TurnRest
<1> HIDE DEF Live
<1>3. CASE ThinkingDelta
  <2>1. list' = AppendThinking(list, turn) /\ call' = call
    BY <1>3 DEF ThinkingDelta
  <2>2. Sound(list', Live)
    BY <1>1, <2>1, SoundThinking
  <2> QED BY <1>1, <1>2, <2>1, <2>2, ListNext
<1>4. CASE ResponseDelta
  <2>1. PICK chunk \in BOOLEAN, scrub \in BOOLEAN, text \in BOOLEAN, found \in Finds :
          LET new == found # "nothing" /\ ~seen
              l1 == IF chunk THEN AppendThinking(list, turn) ELSE list
              l2 == IF new THEN RecordCall(l1, turn, found = "question", scrub) ELSE l1
          IN  list' = IF text THEN AppendResponse(l2, turn) ELSE l2
    BY <1>4 DEF ResponseDelta
  <2> DEFINE new == found # "nothing" /\ ~seen
             l1 == IF chunk THEN AppendThinking(list, turn) ELSE list
             l2 == IF new THEN RecordCall(l1, turn, found = "question", scrub) ELSE l1
  <2>2. list' = IF text THEN AppendResponse(l2, turn) ELSE l2
    BY <2>1
  <2>3. Sound(l1, Live)
    BY <1>1, SoundThinking
  <2> HIDE DEF l1
  <2>4. Sound(l2, Live)
    BY <1>1, <2>3, SoundRecordCall
  <2> HIDE DEF l2
  <2>5. Sound(list', Live)
    BY <1>1, <2>2, <2>4, SoundResponse
  <2>6. call' = call
    BY <1>4 DEF ResponseDelta
  <2> QED BY <1>1, <1>2, <2>5, <2>6, ListNext
<1>5. CASE ToolCallStart
  <2> DEFINE id == <<"tool", turn>>
             s == Say(list, id)
             c == [Live EXCEPT !.calling = TRUE]
  <2>1. list' = [s EXCEPT !.tool = Len(s.msgs)]
    BY <1>5 DEF ToolCallStart
  <2>2. id \in Ids /\ Len(list.msgs) \in Nat
    BY <1>1 DEF Ids, Kinds, ScreenTypes, Sound, Lists
  <2>3. /\ Sound(s, Live) /\ Len(s.msgs) = Len(list.msgs) + 1
        /\ Names(s, Len(list.msgs) + 1, id)
    BY <1>1, <2>2, SoundSay
  <2> HIDE DEF s
  <2>4. Len(s.msgs) \in Nat \ {0} /\ Names(s, Len(s.msgs), <<"tool", Live.turn>>)
    BY <1>1, <2>2, <2>3
  <2>5. Sound(list', c)
    BY <1>1, <2>1, <2>3, <2>4, SoundNewest
  <2>6. c \in Contexts /\ c.turn = turn /\ c.thinking /\ c.calling /\ c.command = Live.command
        /\ c.kept = Live.kept
    BY <1>1 DEF Contexts
  <2> HIDE DEF c
  <2> QED BY <1>1, <1>2, <2>5, <2>6, ListNext
<1>6. CASE ToolCallDone
  <2>1. list' = FinishToolCall(list) /\ call = "running" /\ call' = "done"
    BY <1>6 DEF ToolCallDone, Allowed
  <2>2. Sound(list', Live)
    BY <1>1, <1>2, <2>1, SoundToolBox
  <2> QED BY <1>1, <1>2, <2>1, <2>2, ListNext
<1> QED BY <1>3, <1>4, <1>5, <1>6

\* The turn ends by itself: what is left of its boxes, and maybe a commit.
LEMMA DoneStep ==
  ASSUME ScreenTypes, ScreenTypes', ListInv, TurnDone
  PROVE  ListKept
<1> DEFINE c == [Live EXCEPT !.calling = FALSE]
           d == [c EXCEPT !.thinking = FALSE]
<1>1. /\ Live \in Contexts /\ Sound(list, Live) /\ Live.turn = turn /\ Live.thinking
      /\ Live.command = IF shell.running THEN shell.command ELSE 0
  BY LiveFields DEF ListInv, Sound
<1>2. busy' = FALSE /\ shell' = shell
  BY DEF TurnDone
<1>3. PICK tail \in BOOLEAN, final \in BOOLEAN, scrub \in BOOLEAN, reply \in BOOLEAN,
           failed \in BOOLEAN, found \in Finds :
        LET new == found # "nothing" /\ ~seen
            commits == commitDir /\ reply /\ ~failed
            l1 == IF tail THEN AppendThinking(list, turn) ELSE list
            l2 == FinishThinking(l1, final)
            l3 == IF new THEN RecordCall(l2, turn, found = "question", scrub) ELSE l2
            l4 == FinishResponse(l3, reply)
            l5 == IF failed THEN Say(l4, <<"system", 0>>) ELSE l4
            l6 == IF commits
                  THEN RemoveMessage(Say(l5, <<"commit", turn>>), l5.resp,
                              {"think", "resp", "tool"})
                  ELSE l5
            asks == \/ question = "pending"
                    \/ new /\ found = "question" /\ question = "no"
        IN  /\ list' = [l6 EXCEPT !.think = 0, !.resp = 0]
            /\ question' = IF asks THEN IF dialog = "none" THEN "posted" ELSE "pending"
                           ELSE question
            /\ committed' = IF commits THEN committed \cup {turn} ELSE committed
  BY Zenon DEF TurnDone
<1> DEFINE new == found # "nothing" /\ ~seen
           commits == commitDir /\ reply /\ ~failed
           l1 == IF tail THEN AppendThinking(list, turn) ELSE list
           l2 == FinishThinking(l1, final)
           l3 == IF new THEN RecordCall(l2, turn, found = "question", scrub) ELSE l2
           l4 == FinishResponse(l3, reply)
           l5 == IF failed THEN Say(l4, <<"system", 0>>) ELSE l4
           a == Say(l5, <<"commit", turn>>)
           l6 == IF commits THEN RemoveMessage(a, l5.resp, {"think", "resp", "tool"}) ELSE l5
<1>4. list' = [l6 EXCEPT !.think = 0, !.resp = 0]
  BY <1>3
<1> HIDE DEF Live
<1>5. /\ c \in Contexts /\ c.turn = turn /\ c.thinking /\ ~c.calling
      /\ c.command = Live.command /\ c.kept = Live.kept
  BY <1>1 DEF Contexts
<1>6. Sound(list, c)
  BY <1>1, <1>5, SoundForLess
<1> HIDE DEF c
<1>7. /\ d \in Contexts /\ d.turn = turn /\ ~d.thinking /\ ~d.calling
      /\ d.command = Live.command /\ d.kept = Live.kept /\ [d EXCEPT !.thinking = FALSE] = d
  BY <1>5 DEF Contexts
<1>8. Sound(l1, c)
  BY <1>5, <1>6, SoundThinking
<1> HIDE DEF l1
<1>9. Sound(l2, d)
  BY <1>5, <1>8, SoundFinishThinking
<1> HIDE DEF d, l2
<1>10. Sound(l3, d)
  BY <1>7, <1>9, SoundRecordCall
<1> HIDE DEF l3
<1>11. Sound(l4, d) /\ (reply => l4.resp # 0)
  BY <1>7, <1>10, SoundFinishResponse
<1> HIDE DEF l4
<1>12. <<"system", 0>> \in Ids /\ <<"commit", turn>> \in Ids
  BY DEF Ids, Kinds, ScreenTypes
<1>13. Sound(l5, d) /\ (reply => l5.resp # 0)
  BY <1>7, <1>11, <1>12, SoundSay
<1> HIDE DEF l5
<1>14. Sound(a, d) /\ a.resp = l5.resp /\ Len(a.msgs) = Len(l5.msgs) + 1
  BY <1>7, <1>12, <1>13, SoundSay
<1>15. Sound(list', d) /\ list'.think = 0 /\ list'.resp = 0
  <2>1. CASE commits /\ InList(a, a.resp)
    <3> DEFINE mended == {"think", "resp", "tool"}
               r == RemoveMessage(a, a.resp, mended)
    <3>1. list' = [r EXCEPT !.think = 0, !.resp = 0]
      BY <1>4, <1>14, <2>1
    <3>2. r \in Lists
      <4> HIDE DEF mended, a
      <4> QED BY <1>14, <2>1, RemovedList DEF Sound, InList
    <3>3. list' \in Lists /\ list'.think = 0
      <4> HIDE DEF r
      <4> QED BY <3>1, <3>2 DEF Lists
    <3> HIDE DEF a
    <3>4. Sound(list', [d EXCEPT !.thinking = FALSE]) /\ list'.resp = 0
      BY <1>7, <1>14, <2>1, <3>1, <3>3, SoundRemoveResponse
    <3> QED BY <1>7, <3>3, <3>4
  <2>2. CASE ~(commits /\ InList(a, a.resp))
    <3>1. l6 = l5 \/ l6 = a
      BY <1>14, <2>2 DEF RemoveMessage
    <3>2. Sound(l6, d)
      BY <1>13, <1>14, <3>1
    <3> HIDE DEF l6
    <3> QED BY <1>4, <1>7, <3>2, SoundReset DEF Sound, Lists
  <2> QED BY <2>1, <2>2
<1> QED BY <1>1, <1>2, <1>7, <1>15, ListNext

\* The user cancels the turn; an empty thinking box goes.
LEMMA CancelStep ==
  ASSUME ScreenTypes, ScreenTypes', ListInv, CancelTurn
  PROVE  ListKept
<1> DEFINE c == [Live EXCEPT !.calling = FALSE]
           d == [c EXCEPT !.thinking = FALSE]
           q == ClearNotice(list)
           r == IF InList(q, q.think) /\ q.msgs[q.think].blank THEN RemoveThinking(q) ELSE q
           s == [r EXCEPT !.think = 0, !.resp = 0]
<1>1. /\ Live \in Contexts /\ Sound(list, Live) /\ Live.turn = turn /\ Live.thinking
      /\ Live.command = IF shell.running THEN shell.command ELSE 0
  BY LiveFields DEF ListInv, Sound
<1>2. busy' = FALSE /\ shell' = shell /\ list' = Say(s, <<"system", 0>>)
  BY DEF CancelTurn
<1> HIDE DEF Live
<1>3. /\ c \in Contexts /\ c.turn = turn /\ c.thinking /\ ~c.calling
      /\ c.command = Live.command /\ c.kept = Live.kept
  BY <1>1 DEF Contexts
<1>4. Sound(list, c)
  BY <1>1, <1>3, SoundForLess
<1> HIDE DEF c
<1>5. /\ d \in Contexts /\ d.turn = turn /\ ~d.thinking /\ ~d.calling
      /\ d.command = Live.command /\ d.kept = Live.kept
  BY <1>3 DEF Contexts
<1>6. Sound(q, c)
  BY <1>3, <1>4, SoundClearNotice
<1> HIDE DEF q
<1>7. Sound(q, d)
  <2> HIDE DEF d
  <2> QED BY <1>3, <1>5, <1>6, SoundForLess
<1>8. Sound(r, d)
  BY <1>3, <1>6, <1>7, SoundRemoveThinking
<1> HIDE DEF d, r
<1>9. Sound(s, d) /\ s.think = 0 /\ s.resp = 0
  BY <1>5, <1>8, SoundReset DEF Sound, Lists
<1> HIDE DEF s
<1>10. <<"system", 0>> \in Ids
  BY DEF Ids, Kinds
<1>11. Sound(list', d) /\ list'.think = 0 /\ list'.resp = 0
  BY <1>2, <1>5, <1>9, <1>10, SoundSay
<1> QED BY <1>1, <1>2, <1>5, <1>11, ListNext

\* A turn that starts on a sound list.
LEMMA StartStep ==
  ASSUME ScreenTypes, ScreenTypes', ListInv, NEW l, NEW c \in Contexts, Sound(l, c),
         StartTurn(l), c.kept = Live.kept,
         c.command = IF shell'.running THEN shell'.command ELSE 0
  PROVE  ListKept
<1> DEFINE d == [turn |-> turn', thinking |-> TRUE, calling |-> FALSE, command |-> c.command,
                 kept |-> c.kept]
<1>1. turn' = turn + 1 /\ busy' = TRUE /\ call' = "none" /\ list' = BeginTurn(l, turn')
  BY DEF StartTurn
<1>2. /\ d \in Contexts /\ d.turn = turn' /\ d.thinking /\ ~d.calling
      /\ d.command = c.command /\ d.kept = c.kept
  BY DEF Contexts, ScreenTypes
<1> HIDE DEF d
<1>3. Sound(list', d)
  BY <1>1, <1>2, SoundBeginTurn DEF Contexts
<1> QED BY <1>1, <1>2, <1>3, ListNext

\* The user, a question that was answered or a command that ended starts a turn.
LEMMA StartsStep ==
  ASSUME ScreenTypes, ScreenTypes', ListInv, Starts
  PROVE  ListKept
<1> DEFINE user == <<"user", 0>>
           system == <<"system", 0>>
           request == <<"request", turn>>
<1>1. /\ Live \in Contexts /\ Sound(list, Live) /\ Live.turn = turn
      /\ Live.command = IF shell.running THEN shell.command ELSE 0
      /\ Live.command \in {0, shell.command} /\ shell.command \in Nat
  BY LiveFields DEF ListInv, Sound
<1>2. user \in Ids /\ system \in Ids /\ request \in Ids
  BY DEF Ids, Kinds, ScreenTypes
<1> HIDE DEF Live, user, system, request
<1>3. Sound(Say(list, user), Live)
  BY <1>1, <1>2, SoundSay
<1>4. CASE SubmitPrompt
  <2>1. StartTurn(Say(list, user)) /\ shell' = shell
    BY <1>4 DEF SubmitPrompt, user
  <2> QED BY <1>1, <1>3, <2>1, StartStep
<1>5. CASE SubmitCommit
  <2>1. shell' = shell
    BY <1>5 DEF SubmitCommit
  <2>2. CASE hasModel
    <3>1. StartTurn(Say(list, user))
      BY <1>5, <2>2 DEF SubmitCommit, user
    <3> QED BY <1>1, <1>3, <2>1, <3>1, StartStep
  <2>3. CASE ~hasModel
    <3>1. list' = Say(list, system) /\ UNCHANGED <<turn, busy, call>>
      BY <1>5, <2>3 DEF SubmitCommit, system
    <3>2. Sound(list', Live) /\ list'.think = list.think /\ list'.resp = list.resp
      BY <1>1, <1>2, <3>1, SoundSay
    <3> QED BY <2>1, <3>1, <3>2, QuietStep
  <2> QED BY <2>2, <2>3
<1>6. CASE SubmitTemplate
  <2>1. StartTurn(Say(Say(list, user), system)) /\ shell' = shell
    BY <1>6 DEF SubmitTemplate, user, system
  <2>2. Sound(Say(Say(list, user), system), Live)
    BY <1>1, <1>2, <1>3, SoundSay
  <2> QED BY <1>1, <2>1, <2>2, StartStep
<1>7. CASE AnswerQuestion
  <2>1. StartTurn(Say(Say(list, request), user)) /\ shell' = shell
    BY <1>7 DEF AnswerQuestion, user, request
  <2>2. Sound(Say(list, request), Live)
    BY <1>1, <1>2, SoundSay
  <2>3. Sound(Say(Say(list, request), user), Live)
    BY <1>1, <1>2, <2>2, SoundSay
  <2> QED BY <1>1, <2>1, <2>3, StartStep
<1>8. CASE FinishShell
  <2> DEFINE b == WriteShellBox(list)
             l == [b EXCEPT !.shell = 0]
             c == [Live EXCEPT !.command = 0]
             follows == shell.withContext /\ ~shell.interrupted
  <2>1. c \in Contexts /\ c.turn = turn /\ c.command = 0 /\ c.calling = Live.calling
        /\ c.thinking = Live.thinking /\ c.kept = Live.kept
    BY <1>1 DEF Contexts
  <2> HIDE DEF c
  <2>2. Sound(b, Live) /\ b.think = list.think /\ b.resp = list.resp
    BY <1>1, SoundShellBox
  <2> HIDE DEF b
  <2>3. Sound(l, c) /\ l.think = list.think /\ l.resp = list.resp
    BY <1>1, <2>2, SoundReset DEF c, Sound, Lists
  <2>4. shell'.running = FALSE
    BY <1>8 DEF FinishShell, NoShell
  <2>5. CASE follows /\ hasModel
    <3>1. StartTurn(l)
      BY <1>8, <2>5 DEF FinishShell, b
    <3> HIDE DEF l
    <3> QED BY <2>1, <2>3, <2>4, <3>1, StartStep
  <2>6. CASE ~(follows /\ hasModel)
    <3>1. /\ list' = l \/ list' = Say(l, system)
          /\ UNCHANGED <<turn, busy, call>>
      BY <1>8, <2>6 DEF FinishShell, b, system
    <3> HIDE DEF l
    <3>2. Sound(list', c) /\ list'.think = list.think /\ list'.resp = list.resp
      BY <1>2, <2>1, <2>3, <3>1, SoundSay
    <3>3. /\ Live.thinking /\ Live.calling = (busy /\ call = "running")
          /\ ~busy => list.think = 0 /\ list.resp = 0
      BY LiveFields DEF ListInv, Sound
    <3> QED BY <2>1, <2>4, <3>1, <3>2, <3>3, ListNext
  <2> QED BY <2>5, <2>6
<1> QED BY <1>4, <1>5, <1>6, <1>7, <1>8 DEF Starts

\* A new shell command and the notice of Ctrl-C have an index to their message.
LEMMA IndexStep ==
  ASSUME ScreenTypes, ScreenTypes', ListInv, SubmitShell \/ CtrlCOnce
  PROVE  ListKept
<1>1. /\ Live \in Contexts /\ Sound(list, Live) /\ Live.turn = turn /\ Live.thinking
      /\ Live.calling = (busy /\ call = "running")
      /\ Live.command = IF shell.running THEN shell.command ELSE 0
      /\ shell.command \in Nat /\ list \in Lists
  BY LiveFields DEF ListInv, Sound
<1>2. UNCHANGED <<turn, busy, call>> /\ list.think = 0 /\ list.resp = 0 /\ ~busy
  BY DEF SubmitShell, CtrlCOnce, CanSubmit, Idle, ListInv, turnVars
<1> HIDE DEF Live
<1>3. CASE SubmitShell
  <2> DEFINE k == shell.command + 1
             u == Say(list, <<"user", 0>>)
             s == Say(u, <<"shell", k>>)
             c == [Live EXCEPT !.command = k]
  <2>1. list' = [s EXCEPT !.shell = Len(s.msgs)] /\ shell'.running /\ shell'.command = k
    BY <1>3 DEF SubmitShell, NoShell
  <2>2. <<"user", 0>> \in Ids /\ <<"shell", k>> \in Ids /\ k \in Nat \ {0}
    BY <1>1 DEF Ids, Kinds
  <2> HIDE DEF k
  <2>3. Sound(u, Live)
    BY <1>1, <2>2, SoundSay
  <2> HIDE DEF u
  <2>4. /\ Sound(s, Live) /\ Len(s.msgs) = Len(u.msgs) + 1
        /\ Names(s, Len(u.msgs) + 1, <<"shell", k>>)
    BY <1>1, <2>2, <2>3, SoundSay
  <2>5. Len(s.msgs) \in Nat \ {0} /\ Names(s, Len(s.msgs), <<"shell", k>>)
    BY <2>3, <2>4 DEF Sound, Lists
  <2> HIDE DEF s
  <2>6. Sound(list', c)
    BY <1>1, <2>1, <2>2, <2>4, <2>5, SoundNewest
  <2>7. /\ c \in Contexts /\ c.turn = turn /\ c.thinking /\ c.calling = Live.calling
        /\ c.command = k /\ c.kept = Live.kept
    BY <1>1, <2>2 DEF Contexts
  <2> HIDE DEF c
  <2>8. list'.think = 0 /\ list'.resp = 0
    <3>1. u.think = 0 /\ u.resp = 0 /\ Sound(u, Live)
      BY <1>1, <1>2, <2>2, <2>3, SoundSay DEF u
    <3>2. s.think = 0 /\ s.resp = 0
      BY <1>1, <2>2, <3>1, SoundSay DEF s
    <3> QED BY <2>1, <2>4, <3>2 DEF Sound, Lists
  <2> QED BY <1>1, <1>2, <2>1, <2>6, <2>7, <2>8, ListNext
<1>4. CASE CtrlCOnce
  <2> DEFINE s == Say(list, <<"notice", 0>>)
  <2>1. list' = [s EXCEPT !.notice = Len(s.msgs)] /\ shell' = shell
    BY <1>4 DEF CtrlCOnce
  <2>2. <<"notice", 0>> \in Ids /\ Len(list.msgs) \in Nat
    BY <1>1 DEF Ids, Kinds, Lists
  <2>3. /\ Sound(s, Live) /\ Len(s.msgs) = Len(list.msgs) + 1 /\ s \in Lists
        /\ Names(s, Len(list.msgs) + 1, <<"notice", 0>>) /\ s.think = 0 /\ s.resp = 0
    BY <1>1, <1>2, <2>2, SoundSay DEF Sound
  <2> HIDE DEF s
  <2>4. Len(s.msgs) \in Nat \ {0} /\ Names(s, Len(s.msgs), <<"notice", 0>>)
    BY <2>2, <2>3
  <2>5. Sound(list', Live)
    BY <1>1, <2>1, <2>3, <2>4, SoundNewest
  <2>6. list'.think = list.think /\ list'.resp = list.resp
    BY <1>2, <2>1, <2>3 DEF Lists
  <2> QED BY <1>2, <2>1, <2>5, <2>6, QuietStep
<1> QED BY <1>3, <1>4

\* Every action keeps the list sound and its records.
LEMMA ListStep == ScreenBase /\ ListInv /\ [Next]_vars => ListKept
<1> SUFFICES ASSUME ScreenBase, ListInv, [Next]_vars PROVE ListKept
  OBVIOUS
<1>1. ScreenTypes /\ ScreenTypes'
  BY ScreenBaseStep DEF ScreenBase
<1>2. CASE Starts
  BY <1>1, <1>2, StartsStep
<1>3. CASE SubmitWithoutModel \/ SelectModel \/ Report \/ CycleThink \/ DismissQuestion
           \/ CtrlCClears \/ OtherKey \/ CtrlCReset \/ CancelShell
  BY <1>1, <1>3, InformStep
<1>4. CASE CtrlCQuits \/ TurnClosed \/ OfferArrives \/ AnswerApproval \/ QuestionArrives
           \/ OfferModelsSync \/ ResolveModelsSync \/ SyncTick \/ SyncFinishes
           \/ FinishModelsSync \/ ShellChunk \/ ShellUnblocks \/ ShellEnds
           \/ WaitShellOutput \/ HandleShellOutput \/ SwallowShellDone \/ ToolCallOutput
           \/ UNCHANGED vars
  BY <1>1, <1>4, AsideStep
<1>5. CASE ThinkingDelta \/ ResponseDelta \/ ToolCallStart \/ ToolCallDone
  BY <1>1, <1>5, DeltaStep
<1>6. CASE TurnDone
  BY <1>1, <1>6, DoneStep
<1>7. CASE CancelTurn
  BY <1>1, <1>7, CancelStep
<1>8. CASE SubmitShell \/ CtrlCOnce
  BY <1>1, <1>8, IndexStep
<1> QED BY <1>2, <1>3, <1>4, <1>5, <1>6, <1>7, <1>8 DEF Next, Starts, Over

-----------------------------------------------------------------------------
(***************************************************************************)
(* Theorems.                                                               *)
(***************************************************************************)

ScreenInv == ScreenBase /\ PromptInv /\ ListInv

\* In every session the state has its types, the runner of a shell command is
\* that of the command shown, approvals belong to the call that runs, and the
\* message list is sound for what is live.
THEOREM ScreenInductive == Spec => []ScreenInv
<1>1. Init => ScreenInv
  BY ScreenBaseInit, PromptInit, ListInit DEF ScreenInv
<1>2. ScreenInv /\ [Next]_vars => ScreenInv'
  BY ScreenBaseStep, PromptStep, ListStep DEF ScreenInv, ScreenBase, ListKept
<1> QED BY <1>1, <1>2, PTL DEF Spec

\* While no removal has moved a message under an index that its caller does not
\* mend, every live index names the message it was made for and none is used
\* outside of the list, for every session and every order of its events.
THEOREM ScreenIndexesExact == Spec => []IndexesExact
<1>1. ScreenInv => IndexesExact
  <2> SUFFICES ASSUME ScreenInv, ~list.shifted PROVE IndexesExact
    BY DEF IndexesExact
  <2>1. Placed(list, Live) /\ list \in Lists
    BY DEF ScreenInv, ListInv, Sound
  <2>2. /\ Live.turn = turn /\ Live.thinking /\ Live.calling = (busy /\ call = "running")
        /\ Live.command = IF shell.running THEN shell.command ELSE 0
    BY <2>1, LiveFields DEF ScreenInv, ScreenBase
  <2>3. shell.running => shell.command # 0
    BY DEF ScreenInv, ScreenBase, ShellPlace
  <2>4. ASSUME NEW f \in {"think", "resp", "tool", "shell", "notice"}, NEW id,
               Names(list, list[f], id)
        PROVE  Owner(f) = id
    BY <2>1, <2>4 DEF Names, InList, Owner, Lists
  <2> HIDE DEF Live
  <2> QED BY <2>1, <2>2, <2>3, <2>4 DEF IndexesExact, Placed
<1> QED BY <1>1, ScreenInductive, PTL

\* What the user wrote, the boxes of tools and shell commands and the record of
\* a commit never leave the list, as long as no removal moves a live index.
THEOREM ScreenRecordsKept == Spec => RecordsKept
<1>1. ScreenInv /\ [Next]_vars =>
        (~list'.shifted => \A k \in {"user", "tool", "shell", "request", "commit"} :
                            Count(k)' >= Count(k))
  <2> SUFFICES ASSUME ScreenInv, [Next]_vars, ~list'.shifted,
                      NEW k \in {"user", "tool", "shell", "request", "commit"}
               PROVE  Count(k)' >= Count(k)
    OBVIOUS
  <2>1. ListKept /\ list \in Lists
    BY ListStep DEF ScreenInv, ListInv, Sound
  <2>2. Held(list, k) <= Held(list', k)
    BY <2>1 DEF ListKept, RecordsNext, RecordKinds
  <2>3. Held(list, k) \in Nat /\ Held(list', k) \in Nat
    BY <2>1, HeldNat DEF ListKept, ListInv, Sound
  <2>4. Count(k) = Held(list, k) /\ Count(k)' = Held(list', k)
    BY DEF Count, Held, Holding
  <2> QED BY <2>2, <2>3, <2>4
<1> QED BY <1>1, ScreenInductive, PTL DEF RecordsKept, Spec

\* No message shows a text meant for another one, but for the first, which the
\* status of the models sync may take.
THEOREM ScreenTextFromOwner == Spec => []TextFromOwner
<1>1. ScreenInv => TextFromOwner
  BY DEF ScreenInv, ListInv, Sound, Written, TextFromOwner
<1> QED BY <1>1, ScreenInductive, PTL

\* /commit gives the system prompt back with the end of its turn, and only what
\* that turn answered is committed, unless it had no model or was replaced.
THEOREM ScreenCommitSettled == Spec => []CommitSettled
<1>1. ScreenInv => CommitSettled
  BY DEF ScreenInv, PromptInv
<1> QED BY <1>1, ScreenInductive, PTL

\* A shell command shown as running will be reported as ended and its runner
\* never waits for a reader that is gone, unless a dialog swallowed the message.
THEOREM ScreenCommandReported == Spec => []CommandReported
<1>1. ScreenInv => CommandReported
  BY DEF ScreenInv, ScreenBase
<1> QED BY <1>1, ScreenInductive, PTL
=============================================================================
