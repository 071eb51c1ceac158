--------------------------- MODULE MCReclamation ----------------------------
(* Reclamation on small instances.                                         *)
EXTENDS Reclamation, TLC

CONSTANTS a, b, p1, p2

OneSegment == [p \in Pages |-> 1]

Bound(faults, abandoned, captures, points, pages, names, allows) ==
    [faults |-> faults, abandoned |-> abandoned, captures |-> captures, points |-> points, pages |-> pages,
     made |-> a :> names[1] @@ b :> names[2], allows |-> allows]

\* One writer: four publications of two pages, states and zeroed pages. A
\* takeover, with one lost selection, one failure and crashes. Kept checkpoints
\* and their releases. A fork without the writer, and one through it.
EveryDay ==
    {Bound(0, 0, 4, 0, {p1, p2}, <<1, 0>>, {"state", "zero"}),
     Bound(1, 1, 3, 0, {p1, p2}, <<1, 0>>, {"open", "crash"}),
     Bound(0, 0, 3, 0, {p1, p2}, <<1, 0>>, {"keep", "release"}),
     Bound(0, 0, 2, 0, {p1}, <<1, 1>>, {"keep", "release", "inherit", "delete", "close"}),
     Bound(0, 1, 2, 1, {p1}, <<1, 1>>, {"delete", "close"})}

Symmetric == Permutations(Handles)
=============================================================================
