-------------------------------- MODULE Lists --------------------------------
(***************************************************************************)
(* The elements of a list at some of its places, in their order: what a    *)
(* loop keeps that goes through a list and appends the elements that pass  *)
(* a test.  And what a loop comes to that takes the same step again and    *)
(* again.                                                                  *)
(***************************************************************************)
EXTENDS Integers, FiniteSets

RankIn(places, i) == Cardinality({j \in places : j <= i})
PlaceOf(places, n) == CHOOSE i \in places : RankIn(places, i) = n
ElementsAt(list, places) == [n \in 1 .. Cardinality(places) |-> list[PlaceOf(places, n)]]

Repeated(step, start, times) ==
    LET after[n \in 0 .. times] == IF n = 0 THEN start ELSE step[after[n - 1]]
    IN  after[times]
=============================================================================
