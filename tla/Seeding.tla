------------------------------ MODULE Seeding ------------------------------
(***************************************************************************)
(* What the start-up promises of the rows it seeds, with neither processes *)
(* nor queries: a row is planted where there is none, and only after every *)
(* row it may refer to.  A row that its users may give up is planted anew, *)
(* by a start or by another user.                                          *)
(***************************************************************************)
EXTENDS Naturals

CONSTANTS Seeds,     \* rows to be there after a start
          Rank,      \* Seeds -> Nat: rows refer to rows of lower rank
          Loseable   \* rows that may go again

VARIABLE copies      \* how many rows a seed has

Init == copies = [x \in Seeds |-> 0]

Plant(x) ==
    /\ copies[x] = 0
    /\ \A y \in Seeds : Rank[y] < Rank[x] => copies[y] = 1
    /\ copies' = [copies EXCEPT ![x] = 1]

Lose(x) ==
    /\ x \in Loseable /\ copies[x] = 1
    /\ copies' = [copies EXCEPT ![x] = 0]

Next == \E x \in Seeds : Plant(x) \/ Lose(x)

Spec == Init /\ [][Next]_copies
=============================================================================
