----------------------------- MODULE MCTransfer -----------------------------
(***************************************************************************)
(* Three folders on two volumes: a and d on the first, b on the second.    *)
(* The same name in each makes every pair of transfers collide.            *)
(***************************************************************************)
EXTENDS Transfer, TLC

MCNames == {"f", "f 2"}
MCNumbered == [n \in MCNames |-> IF n = "f" THEN <<"f 2">> ELSE <<>>]
MCVolume == [d \in {"a", "b", "d"} |-> IF d = "b" THEN 2 ELSE 1]

Holding(d) == [p \in Path |-> IF \E c \in {"a", "b", "d"} : p = (IF c = "d" THEN d ELSE <<c, "f">>)
                             THEN [c |-> IF p = d THEN "d" ELSE p[1], whole |-> TRUE] ELSE NoItem]

\* Content d stands in the way of the others, or is elsewhere.
MCLayouts == {Holding(<<"d", "f">>), Holding(<<"b", "f 2">>)}
MCSelections == {<< <<"a", "f">> >>, << <<"b", "f">> >>,
                 << <<"a", "f">>, <<"b", "f">> >>, << <<"a", "f">>, <<"d", "f">> >>}
MCWorkers == Permutations(Workers)
=============================================================================
