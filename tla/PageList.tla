------------------------------ MODULE PageList ------------------------------
(***************************************************************************)
(* The page list of an object (vmmemory/internal/zirconvm/pagelist.go):    *)
(* what the object holds at each page, in nodes of FanOut slots.  A slot   *)
(* is empty, or holds a page, a reference to spilled bytes or a marker, or *)
(* is a sentinel of an interval of zeros: its first page (start), its last *)
(* (end), or a whole interval of one page (slot).  The pages between a     *)
(* start and its end have empty slots, and may have no node at all.        *)
(*                                                                         *)
(* The operators take a list [slot, nodes] to the list they leave.  Page   *)
(* offsets are page numbers.  A node is allocated when a slot of it is     *)
(* wanted and has to be erased when its last slot is emptied: the walks    *)
(* for intervals panic on a node that holds nothing.                       *)
(***************************************************************************)
EXTENDS Naturals, Integers, Sequences, FiniteSets

CONSTANTS NumPages,     \* pages of an object
          FanOut        \* slots of a node

ASSUME GeometryAssumption == NumPages \in Nat \ {0} /\ FanOut \in Nat \ {0}

Pages == 0 .. NumPages - 1
Node(i) == i \div FanOut
NodePages(n) == {i \in Pages : Node(i) = n}

Empty  == [k |-> "empty"]
Marker == [k |-> "marker"]
Interval(k, s, a) == [k |-> k, s |-> s, a |-> a]

IsInterval(t)  == t.k \in {"start", "end", "slot"}
IsPageOrRef(t) == t.k \in {"page", "ref"}

NewPageList == [slot |-> [i \in Pages |-> Empty], nodes |-> {}]

(* What a lookup finds at a page: nothing where its node is not allocated, *)
(* or the page is past either end of the list.                             *)
Lookup(pl, i) == IF i \in Pages THEN pl.slot[i] ELSE Empty

(* A slot is looked up or allocated, and set.                              *)
SetSlot(pl, i, t) ==
    [slot |-> [pl.slot EXCEPT ![i] = t], nodes |-> pl.nodes \cup {Node(i)}]

(* ReturnEmptySlot of each page of S: a node left with nothing is erased.  *)
ReturnEmptySlots(pl, S) ==
    [pl EXCEPT !.nodes = {n \in @ : n \in {Node(i) : i \in S}
                                      => \E i \in NodePages(n) : pl.slot[i] # Empty}]

RemoveContent(pl, i) ==
    IF Node(i) \in pl.nodes
    THEN ReturnEmptySlots([pl EXCEPT !.slot[i] = Empty], {i})
    ELSE pl

(* RemovePages with a callback that takes the content of S away.           *)
RemovePages(pl, S) ==
    ReturnEmptySlots([pl EXCEPT !.slot = [i \in Pages |-> IF i \in S THEN Empty ELSE @[i]]],
                     S)

-----------------------------------------------------------------------------
(* Whether a page is in an interval.                                       *)

FirstOf(S) == CHOOSE i \in S : \A j \in S : i <= j
LastOf(S)  == CHOOSE i \in S : \A j \in S : i >= j

(* The node at or after page i's; 0 - 1 is none.                           *)
LowerBound(pl, i) ==
    LET after == {n \in pl.nodes : n >= Node(i)}
    IN  IF after = {} THEN 0 - 1 ELSE FirstOf(after)

Held(pl, n) == {j \in NodePages(n) : pl.slot[j] # Empty}

(* The sentinel a page's interval is found by, or Empty: the slot itself,  *)
(* the first content after it in its node, if an end, or, with none, the   *)
(* last before it, if a start; with no node of its own, the first content  *)
(* of the next node, if an end.                                            *)
OfKind(t, kinds) == IF t.k \in kinds THEN t ELSE Empty

IntervalFrom(pl, i, n) ==
    LET after == {j \in Held(pl, n) : j > i}
    IN  IF n = 0 - 1 THEN Empty
        ELSE IF Node(i) < n THEN OfKind(pl.slot[FirstOf(Held(pl, n))], {"end"})
        ELSE IF pl.slot[i] # Empty THEN OfKind(pl.slot[i], {"start", "end", "slot"})
        ELSE IF after # {} THEN OfKind(pl.slot[FirstOf(after)], {"end"})
        ELSE OfKind(pl.slot[LastOf(Held(pl, n))], {"start"})

IntervalAt(pl, i) == IntervalFrom(pl, i, LowerBound(pl, i))

IsOffsetInZeroInterval(pl, i) == IntervalAt(pl, i) # Empty

FindIntervalStartForEnd(pl, e) == LastOf({j \in Pages : j < e /\ pl.slot[j] # Empty})
FindIntervalEndForStart(pl, b) == FirstOf({j \in Pages : j > b /\ pl.slot[j] # Empty})

AnyPagesOrIntervalsInRange(pl, lo, hi) ==
    (\E i \in lo .. hi : pl.slot[i] # Empty) \/ IsOffsetInZeroInterval(pl, lo)

-----------------------------------------------------------------------------
(* Splitting an interval, so that one of its pages has a slot of its own.  *)

SplitOff(pl, i, old, st) ==
    LET next  == Lookup(pl, i + 1)
        prev  == Lookup(pl, i - 1)
        left  == IF old.k = "start" THEN pl
                 ELSE SetSlot(pl, i - 1, IF prev.k = "start" THEN [prev EXCEPT !.k = "slot"]
                                                             ELSE Interval("end", st, 0))
        right == IF old.k = "end" THEN left
                 ELSE SetSlot(left, i + 1, IF next.k = "end" THEN [next EXCEPT !.k = "slot"]
                                                             ELSE Interval("start", st, 0))
        awaiting == old.k = "start" /\ old.a > 1
        rest == IF awaiting THEN [right EXCEPT !.slot[i + 1].a = old.a - 1] ELSE right
    IN  SetSlot(rest, i, IF old = Empty THEN Interval("slot", st, 0)
                         ELSE IF awaiting THEN Interval("slot", old.s, 1)
                         ELSE [old EXCEPT !.k = "slot"])

SplitInterval(pl, i) == SplitOff(pl, i, pl.slot[i], IntervalAt(pl, i).s)

(* LookupOrAllocate: the list, whether there is a slot to set, and whether *)
(* the page was in an interval.                                            *)
Allocated(pl, i, split, in) ==
    LET allocated == [pl EXCEPT !.nodes = @ \cup {Node(i)}]
    IN  IF in /\ ~split THEN [pl |-> pl, slot |-> FALSE, in |-> TRUE]
        ELSE [pl |-> IF ~in \/ pl.slot[i].k = "slot" THEN allocated
                     ELSE SplitInterval(allocated, i),
              slot |-> TRUE, in |-> in]

LookupOrAllocate(pl, i, split) == Allocated(pl, i, split, IsOffsetInZeroInterval(pl, i))

-----------------------------------------------------------------------------
(* Adding an interval: it joins the intervals of its state on either side. *)
(* a is how many of its pages, from the first, are AwaitingClean.          *)

AddZeroIntervalInternal(pl, lo, hi, st, a) ==
    LET prev == Lookup(pl, lo - 1)
        next == Lookup(pl, hi + 1)
        mergeWithPrev == prev.k \in {"end", "slot"} /\ prev.s = st
        mergeWithNext == next.k \in {"start", "slot"} /\ next.s = st
        finalStart == IF ~mergeWithPrev THEN lo
                      ELSE IF prev.k = "slot" THEN lo - 1
                      ELSE FindIntervalStartForEnd(pl, lo - 1)
        \* the AwaitingClean length grows where it reaches the pages added
        grown(l, from, len) == IF finalStart + l >= from /\ from + len > finalStart + l
                               THEN from + len - finalStart ELSE l
        oldA == IF mergeWithPrev THEN pl.slot[finalStart].a ELSE 0
        withNew == IF ~mergeWithPrev \/ a = 0 THEN (IF mergeWithPrev THEN oldA ELSE a)
                   ELSE grown(oldA, lo, a)
        finalA == IF a > 0 /\ mergeWithNext /\ next.a > 0
                  THEN grown(withNew, hi + 1, next.a) ELSE withNew
        left  == IF ~mergeWithPrev THEN SetSlot(pl, lo, Interval("start", st, finalA))
                 ELSE IF prev.k = "slot" THEN SetSlot(pl, lo - 1, Interval("start", st, finalA))
                 ELSE [pl EXCEPT !.slot[lo - 1] = Empty, !.slot[finalStart].a = finalA]
        right == IF mergeWithNext
                 THEN IF next.k = "start" THEN [left EXCEPT !.slot[hi + 1] = Empty]
                                          ELSE SetSlot(left, hi + 1, Interval("end", st, 0))
                 ELSE IF ~mergeWithPrev /\ lo = hi
                      THEN SetSlot(left, hi, Interval("slot", st, finalA))
                 ELSE SetSlot(left, hi, Interval("end", st, 0))
    IN  ReturnEmptySlots(right, {lo} \cup (IF mergeWithPrev THEN {lo - 1} ELSE {})
                                     \cup (IF mergeWithNext THEN {hi + 1} ELSE {}))

AddZeroInterval(pl, lo, hi, st) == AddZeroIntervalInternal(pl, lo, hi, st, 0)

(* ReplacePageWithZeroInterval, and ReturnIntervalSlot: what is in the slot*)
(* is taken out and an interval of the page put in its place.              *)
ReplaceWithZeroInterval(pl, i, st, a) ==
    AddZeroIntervalInternal([pl EXCEPT !.slot[i] = Empty], i, i, st, a)

-----------------------------------------------------------------------------
(* Every page of [lo, hi], part of one interval, becomes a slot of its own.*)

\* The pages between the two ends, which are slots of their own already.
PopulateBetween(both, lo, hi) ==
    LET st    == both.slot[lo].s
        a     == both.slot[lo + 1].a
        rest  == a - (hi - lo - 1)
        filled == [slot |-> [i \in Pages |->
                      IF lo < i /\ i < hi
                      THEN Interval("slot", st, IF i - lo <= a THEN 1 ELSE 0)
                      ELSE IF i = hi /\ rest > 0 THEN [both.slot[i] EXCEPT !.a = 1]
                      ELSE both.slot[i]],
                   nodes |-> both.nodes \cup {Node(i) : i \in lo .. hi}]
        next  == Lookup(both, hi + 1)
    IN  IF rest > 1 /\ next.k \in {"start", "slot"} /\ next.a < rest - 1
        THEN [filled EXCEPT !.slot[hi + 1].a = rest - 1] ELSE filled

PopulateSlotsInInterval(pl, lo, hi) ==
    LET first == LookupOrAllocate(pl, lo, TRUE).pl
        both  == LookupOrAllocate(first, hi, TRUE).pl
    IN  IF lo = hi THEN first
        ELSE IF hi = lo + 1 THEN both ELSE PopulateBetween(both, lo, hi)

-----------------------------------------------------------------------------
(* An interval, or the part of it from oldLo or up to oldHi, takes another *)
(* state.  None stands for the end of the interval outside the range.      *)

None == 0 - 1

JoinLeft(pl, lo, st) ==
    LET left == Lookup(pl, lo - 1)
        here == pl.slot[lo]
        joined == [pl EXCEPT !.slot[lo - 1] = IF left.k = "slot" THEN [left EXCEPT !.k = "start"]
                                                                  ELSE Empty,
                             !.slot[lo] = IF here.k = "slot" THEN [here EXCEPT !.k = "end"]
                                                              ELSE Empty]
    IN  IF IsInterval(left) /\ left.s = st
        THEN ReturnEmptySlots(joined, {lo - 1, lo}) ELSE pl

JoinRight(pl, hi, st) ==
    LET right == Lookup(pl, hi + 1)
        here  == pl.slot[hi]
        joined == [pl EXCEPT !.slot[hi + 1] = IF right.k = "slot" THEN [right EXCEPT !.k = "end"]
                                                                   ELSE Empty,
                             !.slot[hi] = IF here.k = "slot" THEN [here EXCEPT !.k = "start"]
                                                              ELSE Empty]
    IN  IF IsInterval(right) /\ right.s = st
        THEN ReturnEmptySlots(joined, {hi, hi + 1}) ELSE pl

OverwriteZeroInterval(pl, oldLo, oldHi, lo, hi, st) ==
    LET start == pl.slot[oldLo]
        end   == pl.slot[oldHi]
        after == Lookup(pl, hi + 1)
        before == Lookup(pl, lo - 1)
        len   == hi + 1 - lo
        set(l) == IF lo = hi THEN SetSlot(l, lo, Interval("slot", st, 0))
                  ELSE SetSlot(SetSlot(l, lo, Interval("start", st, 0)), hi,
                               Interval("end", st, 0))
        clippedStart == LET t == IF after.k = "end" THEN [after EXCEPT !.k = "slot"]
                                 ELSE Interval("start", start.s, 0)
                        IN  IF start.a > len THEN [t EXCEPT !.a = start.a - len] ELSE t
        clippedEnd == IF before.k = "start" THEN [before EXCEPT !.k = "slot"]
                      ELSE Interval("end", end.s, 0)
    IN  CASE oldLo # None /\ oldHi # None -> JoinRight(JoinLeft(set(pl), lo, st), hi, st)
          [] oldLo # None /\ oldHi = None ->
                JoinLeft(set(SetSlot(pl, hi + 1, clippedStart)), lo, st)
          [] OTHER -> JoinRight(set(SetSlot(pl, lo - 1, clippedEnd)), hi, st)

(* The first len pages of an interval are taken out of it.                 *)
ClipIntervalStart(pl, lo, len) ==
    LET old  == pl.slot[lo]
        next == pl.slot[lo + len]
        t    == IF next.k = "end" THEN [next EXCEPT !.k = "slot"]
                ELSE Interval("start", old.s, 0)
        newStart == IF old.a > len THEN [t EXCEPT !.a = old.a - len] ELSE t
    IN  IF len = 0 THEN pl
        ELSE RemoveContent(SetSlot(pl, lo + len, newStart), lo)

-----------------------------------------------------------------------------
(* The walks over a range: the gaps of it, which are the runs of pages that*)
(* hold nothing and lie in no interval, and the runs of what compare takes,*)
(* an interval's part of the range being a run of its own <<lo, hi, TRUE>>.*)

\* The pages of a sequence of runs.
PagesOf(runs) == UNION {runs[k][1] .. runs[k][2] : k \in DOMAIN runs}

GapVisit(w, i, t) ==
    IF t = Empty THEN w
    ELSE [next |-> i + 1,
          in   |-> IF t.k \in {"start", "end"} THEN t.k = "start" ELSE w.in,
          gaps |-> IF w.next # i /\ t.k # "end"
                   THEN Append(w.gaps, <<w.next, i - 1>>) ELSE w.gaps]

GapAtEnd(w, pl, lo, hi) ==
    LET endedInInterval == w.in \/ (w.next = lo /\ IsOffsetInZeroInterval(pl, lo))
    IN  IF w.next # hi + 1 /\ ~endedInInterval
        THEN Append(w.gaps, <<w.next, hi>>) ELSE w.gaps

ForEveryGapInRange(pl, lo, hi) ==
    LET walk[i \in lo - 1 .. hi] ==
            IF i = lo - 1 THEN [next |-> lo, in |-> FALSE, gaps |-> <<>>]
            ELSE GapVisit(walk[i - 1], i, pl.slot[i])
    IN  GapAtEnd(walk[hi], pl, lo, hi)

GapsInRange(pl, lo, hi) == PagesOf(ForEveryGapInRange(pl, lo, hi))

Flush(w) == IF w.run = None THEN w
            ELSE [w EXCEPT !.runs = Append(@, <<w.run, w.next - 1, FALSE>>), !.run = None]

\* What is at page i of the list, found after the walk w; cmp is whether compare
\* takes it, and begun where its interval is entered and whether compare takes
\* the interval's start.
RunVisit(w, f, i, t, cmp, begun) ==
    CASE t.k = "slot"  -> IF cmp THEN [f EXCEPT !.runs = Append(@, <<i, i, TRUE>>)] ELSE f
      [] t.k = "start" -> [f EXCEPT !.int = i, !.cmp = cmp]
      [] t.k = "end"   -> IF cmp /\ begun.cmp
                          THEN [w EXCEPT !.int = None,
                                         !.runs = Append(@, <<begun.from, i, TRUE>>)]
                          ELSE [w EXCEPT !.int = None]
      [] OTHER         -> IF ~cmp THEN f
                          ELSE IF w.run = None THEN [w EXCEPT !.run = i] ELSE w

\* takes is the pages whose entries compare takes.
ForEveryContiguousRunInRange(pl, takes, lo, hi) ==
    LET begun(w, i) ==
            IF w.int # None THEN [from |-> w.int, cmp |-> w.cmp]
            ELSE [from |-> lo, cmp |-> FindIntervalStartForEnd(pl, i) \in takes]
        visit(w, i, t) ==
            IF t = Empty THEN w
            ELSE [RunVisit(w, Flush(w), i, t, i \in takes, begun(w, i)) EXCEPT !.next = i + 1]
        step(w, i, t) == visit(IF w.next # i /\ t.k \notin {"end", "empty"} THEN Flush(w) ELSE w, i, t)
        walk[i \in lo - 1 .. hi] ==
            IF i = lo - 1
            THEN [next |-> lo, run |-> None, int |-> None, cmp |-> FALSE, runs |-> <<>>]
            ELSE step(walk[i - 1], i, pl.slot[i])
        end == FirstOf({j \in Pages : j > hi /\ pl.slot[j] # Empty})
        atEnd(w) ==
            IF w.next = lo /\ IsOffsetInZeroInterval(pl, lo)
            THEN IF end \in takes /\ FindIntervalStartForEnd(pl, end) \in takes
                 THEN << <<lo, hi, TRUE>> >> ELSE <<>>
            ELSE IF w.run # None THEN Flush(w).runs
            ELSE IF w.int # None /\ w.cmp /\ FindIntervalEndForStart(pl, w.int) \in takes
                 THEN Append(w.runs, <<w.int, hi, TRUE>>)
            ELSE w.runs
    IN  atEnd(walk[hi])
=============================================================================
