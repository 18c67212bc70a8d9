----------------------------- MODULE ModelPicker -----------------------------
(***************************************************************************)
(* The list of the model picker: models grouped by provider, narrowed by a *)
(* query and by one provider, with a highlighted row in a window of a few  *)
(* rows (internal/renderer/model_selector.go, pkg/ai/selector.go).  Which  *)
(* models a query matches (a fuzzy score over five names) is a choice;     *)
(* drawing and what confirming does to the session are left out.           *)
(***************************************************************************)
EXTENDS Integers, Sequences, Lists

CONSTANTS Groups,   \* the catalog's enabled models: a sequence of sequences
          ActiveModel,  \* the active model, which may be in no group
          Window    \* modelSelectorVisibleModels

ASSUME PickerConstants ==
    Groups \in Seq(Seq(Nat \ {0})) /\ ActiveModel \in Nat /\ Window \in Nat \ {0}

VARIABLES
    listed,    \* state.Groups: the models that match the query, per provider
    provider,  \* state.ProviderFilterID: a provider's number, 0 for all
    selected,  \* state.Selected, from 0
    scroll,    \* state.Scroll
    opened,    \* state.Active
    confirmed  \* the model the last Enter chose, 0 for none

pickerVars == <<listed, provider, selected, scroll, opened, confirmed>>

PickerModels == UNION {{Groups[p][i] : i \in DOMAIN Groups[p]} : p \in DOMAIN Groups}
PickerProviders(l) == {p \in DOMAIN l : l[p] # <<>>}

\* FlattenSelectorGroups: all groups, or the one of the provider.
Flattened(l, p) ==
    IF p # 0 THEN l[p]
    ELSE LET joined[n \in 0 .. Len(l)] == IF n = 0 THEN <<>> ELSE joined[n - 1] \o l[n]
         IN  joined[Len(l)]
Flat == Flattened(listed, provider)

\* Faulty variant of PickIndex: one row too far.
PickIndexOneBased(flat, m) ==
    IF \E i \in DOMAIN flat : flat[i] = m THEN CHOOSE i \in DOMAIN flat : flat[i] = m ELSE 0

\* SelectorPickIndex: the model's row, or the first.
PickIndex(flat, m) ==
    IF \E i \in DOMAIN flat : flat[i] = m
    THEN (CHOOSE i \in DOMAIN flat : flat[i] = m) - 1 ELSE 0

Least(a, b) == IF a < b THEN a ELSE b
Greater(a, b) == IF a < b THEN b ELSE a

\* syncModelSelectorScroll: the row within the list, the window over the row.
Synced(flat, row, top) ==
    IF flat = <<>> THEN selected' = row /\ scroll' = 0
    ELSE LET r == Greater(0, Least(row, Len(flat) - 1))
             up == Least(top, r)
             down == Greater(up, r - Window + 1)
         IN selected' = r /\ scroll' = Greater(0, Least(down, Greater(Len(flat) - Window, 0)))

Highlighted(flat, row) == IF row + 1 \in DOMAIN flat THEN flat[row + 1] ELSE 0

PickerInit ==
    /\ listed = Groups /\ provider = 0 /\ selected = 0 /\ scroll = 0
    /\ opened = FALSE /\ confirmed = 0

\* openModelSelectorFiltered with an empty query.
OpenPicker ==
    /\ ~opened /\ opened' = TRUE /\ listed' = Groups /\ provider' = 0
    /\ Synced(Flattened(Groups, 0), PickIndex(Flattened(Groups, 0), ActiveModel), 0)
    /\ UNCHANGED confirmed

\* refreshModelSelectorItems: runs after every edit of the query.
Query(matches) ==
    LET l == [p \in DOMAIN Groups |->
                ElementsAt(Groups[p], {i \in DOMAIN Groups[p] : Groups[p][i] \in matches})]
        p == IF provider \in PickerProviders(l) THEN provider ELSE 0  \* NormalizeProviderFilter
        flat == Flattened(l, p)
        before == Highlighted(Flat, selected)
        row == IF before # 0 THEN PickIndex(flat, before)
               ELSE IF selected >= Len(flat) THEN Greater(Len(flat) - 1, 0) ELSE selected
    IN /\ opened /\ listed' = l /\ provider' = p
       /\ Synced(flat, row, scroll)
       /\ UNCHANGED <<opened, confirmed>>

\* CycleProviderFilter: through the providers still listed and all of them.
Cycle(step) ==
    LET slots == {0} \cup PickerProviders(listed)
        next == IF step = 1
                THEN IF \E s \in slots : s > provider
                     THEN CHOOSE s \in slots : s > provider /\ \A t \in slots : t > provider => s <= t
                     ELSE 0
                ELSE IF provider = 0 THEN CHOOSE s \in slots : \A t \in slots : t <= s
                     ELSE CHOOSE s \in slots : s < provider /\ \A t \in slots : t < provider => t <= s
        flat == Flattened(listed, next)
    IN /\ opened /\ PickerProviders(listed) # {} /\ provider' = next
       /\ Synced(flat, PickIndex(flat, Highlighted(Flat, selected)), scroll)
       /\ UNCHANGED <<listed, opened, confirmed>>

Move(step) ==
    /\ opened /\ (step = 1 => Flat # <<>>)
    /\ Synced(Flat, IF step = 1 THEN Least(selected + 1, Len(Flat) - 1)
                    ELSE Greater(selected - 1, 0), scroll)
    /\ UNCHANGED <<listed, provider, opened, confirmed>>

\* confirmModelSelector with a match, or any way of closing.
Enter ==
    /\ opened /\ opened' = FALSE
    /\ confirmed' = Highlighted(Flat, selected)
    /\ listed' = Groups /\ provider' = 0 /\ selected' = 0 /\ scroll' = 0

PickerNext ==
    \/ OpenPicker \/ Enter
    \/ \E step \in {-1, 1} : Cycle(step) \/ Move(step)
    \/ \E matches \in SUBSET PickerModels : Query(matches)

PickerSpec == PickerInit /\ [][PickerNext]_pickerVars

----------------------------------------------------------------------------
(* What Enter takes is a row the user sees: in the list, inside the window,
   in a window without a gap below the last row; and narrowing the list, by
   query or provider, keeps the highlighted model as long as it is listed. *)
HighlightHolds ==
    /\ [](opened /\ Flat # <<>> =>
            /\ selected \in 0 .. Len(Flat) - 1
            /\ selected \in scroll .. scroll + Window - 1
            /\ scroll + Window <= Greater(Len(Flat), Window))
    /\ [][opened /\ opened' /\ Flat' # Flat /\ Highlighted(Flat, selected) # 0
            => \/ Highlighted(Flat', selected') = Highlighted(Flat, selected)
               \/ \A i \in DOMAIN Flat' : Flat'[i] # Highlighted(Flat, selected)]_pickerVars
=============================================================================
