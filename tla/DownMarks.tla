----------------------------- MODULE DownMarks -----------------------------
(***************************************************************************)
(* The disks a reader of the cluster has marked down                       *)
(* (checkpoint/clusterdown.go): after timeouts in a row, or one refused    *)
(* connection.  A mark is cleared only by a probe that is answered; no     *)
(* more than a share of the membership's disks is marked at once.  A       *)
(* timeout is counted and the mark made in two steps, so marks race each   *)
(* other, answers, and the disk's move to another host.                    *)
(***************************************************************************)
EXTENDS Integers, FiniteSets, FiniteSetsExt

CONSTANTS Disks, Hosts,
          TimeoutsToMark, \* timeoutsToMark
          DownShare,      \* one disk in this many may be marked: 5 in the code
          MaxMoves        \* bound on the changes of the membership

VARIABLES serves,  \* the host that serves each disk
          up,      \* the hosts that answer
          mark,    \* by disk: timeouts in a row, marked, and where its probes go
          marking, \* the marks being made: the disk, and the address it was asked at
          moves

vars == <<serves, up, mark, marking, moves>>

NoMark == [timeouts |-> 0, down |-> FALSE, probes |-> "none"]
Down == {d \in Disks : mark[d].down}
Limit(list) == LET n == Cardinality(list) \div DownShare IN IF n > 1 THEN n ELSE 1

\* observe: a request to a disk not marked is answered, times out, or is
\* refused.  A host that is up may be slow.
Answered(d) ==
    /\ up[serves[d]]
    /\ mark' = [mark EXCEPT ![d].timeouts = 0]
    /\ UNCHANGED <<serves, up, marking, moves>>
TimesOut(d) ==
    /\ d \notin Down /\ mark[d].timeouts < TimeoutsToMark
    /\ mark' = [mark EXCEPT ![d].timeouts = @ + 1]
    /\ marking' = IF mark'[d].timeouts >= TimeoutsToMark THEN marking \cup {[disk |-> d, at |-> serves[d]]} ELSE marking
    /\ UNCHANGED <<serves, up, moves>>
Refused(d) ==
    /\ ~up[serves[d]] /\ d \notin Down
    /\ marking' = marking \cup {[disk |-> d, at |-> serves[d]]}
    /\ UNCHANGED <<serves, up, mark, moves>>

\* mark: the marks of the membership's disks are counted, and the mark made.
Full == Cardinality(Down) >= Limit(Disks)
\* Past the limit the timeouts stay counted, and the next one tries again.
Capped(d) == IF mark[d].timeouts >= TimeoutsToMark THEN [mark EXCEPT ![d].timeouts = TimeoutsToMark - 1] ELSE mark
Marks(x) ==
    /\ marking' = marking \ {x}
    /\ mark' = IF mark[x.disk].down THEN mark
               ELSE IF Full THEN Capped(x.disk)
               ELSE [mark EXCEPT ![x.disk].down = TRUE, ![x.disk].probes = x.at]
    /\ UNCHANGED <<serves, up, moves>>

\* probeBack: the probe goes to the address the disk had when it was marked,
\* and is answered if its host is up and still serves the disk.
ProbeAnswersAnyDisk(d) == up[mark[d].probes]
ProbeAnswers(d) == up[mark[d].probes] /\ serves[d] = mark[d].probes
Probes(d) ==
    /\ mark[d].down /\ ProbeAnswers(d)
    /\ mark' = [mark EXCEPT ![d] = NoMark]
    /\ UNCHANGED <<serves, up, marking, moves>>

\* The hosts fail and come back; the controller has another host serve a
\* disk.
Fails(h) == up[h] /\ moves < MaxMoves /\ moves' = moves + 1 /\ up' = [up EXCEPT ![h] = FALSE] /\ UNCHANGED <<serves, mark, marking>>
Returns(h) == ~up[h] /\ up' = [up EXCEPT ![h] = TRUE] /\ UNCHANGED <<serves, mark, marking, moves>>
Moves(d) == /\ moves < MaxMoves /\ moves' = moves + 1
            /\ \E h \in Hosts \ {serves[d]} : serves' = [serves EXCEPT ![d] = h]
            /\ UNCHANGED <<up, mark, marking>>

Init ==
    /\ serves \in [Disks -> Hosts]
    /\ up = [h \in Hosts |-> TRUE] /\ mark = [d \in Disks |-> NoMark] /\ marking = {} /\ moves = 0

Next ==
    \/ \E d \in Disks : Answered(d) \/ TimesOut(d) \/ Refused(d) \/ Probes(d) \/ Moves(d)
    \/ \E x \in marking : Marks(x)
    \/ \E h \in Hosts : Fails(h) \/ Returns(h)
Fair == /\ \A d \in Disks : WF_vars(Probes(d))
        /\ \A h \in Hosts : WF_vars(Returns(h))
Spec == Init /\ [][Next]_vars /\ Fair

----------------------------------------------------------------------------
\* Every variable keeps its type (downMarks in clusterdown.go).
TypeOK == \A d \in Disks : /\ mark[d].timeouts \in 0..TimeoutsToMark /\ mark[d].down \in BOOLEAN
                           /\ mark[d].down <=> mark[d].probes \in Hosts

\* However many marks race, no more disks are marked than the share, and
\* always one may be (mark).
CapKept == Cardinality(Down) <= Limit(Disks)

\* A mark is cleared only while the host serving the disk answers (probeBack).
OnlyAProbeClears == [][\A d \in Disks : (mark[d].down /\ ~mark'[d].down) => up[serves[d]]]_vars

\* While the disk stays where it was marked.
MarksEndInPlace == \A d \in Disks : mark[d].down ~> (~mark[d].down \/ serves[d] # mark[d].probes)
====
