-------------------------- MODULE MCControlClient ---------------------------
(* Instances of ControlClient for TLC.                                      *)
EXTENDS ControlClient, TLC

CONSTANTS w1, w2, w3, c1, c2

\* A pin or a release without the epoch, and one removal.
PinAndRemove == c1 :> {"clientpin", "release"} @@ c2 :> {"remove", "delete"}

\* The processes that take part; the others have failed already. The faults and
\* the updates left are what the bounds leave of MaxFaults and MaxUpdates.
Starting(present, faultsLeft, updatesLeft) ==
    /\ rec = NoRecord
    /\ delayed = {}
    /\ pc = [p \in Procs |-> IF p \in present THEN "new" ELSE "failed"]
    /\ op = [p \in Procs |-> NoOp]
    /\ cur = [p \in Procs |-> NoRecord]
    /\ next = [p \in Procs |-> NoRecord]
    /\ handle = [w \in Writers |-> NoHandle]
    /\ removed = [ever |-> FALSE, pinned |-> {}]
    /\ faults = MaxFaults - faultsLeft
    /\ updates = MaxUpdates - updatesLeft

\* Three writers race to create and open; or two of them with one update, beside
\* one call; or one writer with two updates and two faults, beside one call; or
\* with one update and one fault, beside both.
Scenarios ==
    \/ Starting(Writers, 2, 0)
    \/ \E w \in Writers, c \in Callers : Starting((Writers \ {w}) \cup {c}, 1, 1)
    \/ \E w \in Writers, c \in Callers : Starting({w, c}, 2, 2)
    \/ \E w \in Writers : Starting({w} \cup Callers, 1, 1)

ScenarioSpec == Scenarios /\ [][Next]_vars

WriterSymmetry == Permutations(Writers)
=============================================================================
