------------------------------ MODULE CowPages ------------------------------
(***************************************************************************)
(* The objects whose pages the pager keeps (cowpages.go, dirty.go,         *)
(* lookupcursor.go, clone.go, supply.go, reclaim.go, compression.go of     *)
(* vmmemory/internal/zirconvm).  An object is the layer of a region, which *)
(* a pager backs and whose stores are tracked (Clean, Dirty, AwaitingClean *)
(* while a writeback holds them), an identity root whose pages layers read *)
(* through, or an anonymous object, which may be a clone of another.       *)
(*                                                                         *)
(* The objects of a hierarchy share a lock, so an operation is an action;  *)
(* a compression gives the lock up twice and is three.  Pages between the  *)
(* operations are reached by mappings, which a handler changes through     *)
(* RangeChangeUpdate: the mapping of a page is the frame it was given.     *)
(***************************************************************************)
EXTENDS PageList, TLC

CONSTANTS Objects,      \* names of objects
          Frames,       \* page frames, 1 .. n; frame 0 is the zero page
          Values,       \* what a page may hold; 0 is zeros
          Scenarios     \* what there is to begin with, and what may happen

ZeroFrame == 0
NoVal == 0 - 1
NoMap == [f |-> NoVal, w |-> FALSE]
NoObject == "none"

VARIABLES
    list,       \* [Objects -> page list]
    held,       \* [Objects -> page list]: what a checkpoint holds beside it (D1)
    tree,       \* [Objects -> kind, size, parent, poff, limit, closed]
    mem,        \* [Frames -> value]
    maps,       \* [Objects -> [Pages -> NoMap, or frame and write access]]
    spare,      \* references the spill storage has left
    comp,       \* the compressor
    base,       \* [Objects -> [Pages -> value]]: what an object's pager has
    located,    \* pages of the layer its resolver locates in the root
    saved,      \* [Objects -> [Pages -> value]]: what a writeback is of, or NoVal
    memory,     \* [Objects -> [Pages -> value]]: what was last stored, or zeroed
    scen

vars == <<list, held, tree, mem, maps, spare, comp, base, located, saved, memory, scen>>

May(op) == op \in scen.ops

Live(o)  == tree[o].kind # "none"
Pager(o) == tree[o].kind \in {"layer", "root"}
Size(o)  == tree[o].size
Within(o) == 0 .. Size(o) - 1
Children(o) == {c \in Objects : Live(c) /\ tree[c].parent = o}
Top(o) == LET up[n \in 0 .. Cardinality(Objects)] ==
                  IF n = 0 \/ tree[IF n = 0 THEN o ELSE up[n - 1]].parent = NoObject
                  THEN IF n = 0 THEN o ELSE up[n - 1] ELSE tree[up[n - 1]].parent
          IN  up[Cardinality(Objects)]
RootHasPageSource(o) == Pager(Top(o))

Page(f, d, r)   == [k |-> "page", f |-> f, d |-> d, r |-> r]
Ref(v, d, temp) == [k |-> "ref", v |-> v, d |-> d, t |-> temp]
IsDirty(t) == IsPageOrRef(t) /\ t.d \in {"Dirty", "AwaitingClean"}

NoCompression == [pc |-> "idle", o |-> NoObject, p |-> 0, held |-> FALSE,
                  f |-> 0, r |-> FALSE, res |-> "none"]

-----------------------------------------------------------------------------
(* A handler under the lock is a composition of steps on this record.      *)

State == [list |-> list, held |-> held, mem |-> mem, maps |-> maps,
          spare |-> spare, comp |-> comp]

SlotsOf(s) == {s.list[o].slot[i] : o \in Objects, i \in Pages}
                  \cup {s.held[o].slot[i] : o \in Objects, i \in Pages}
UsedFrames(s) == {t.f : t \in {u \in SlotsOf(s) : u.k = "page"}}
                    \cup (IF s.comp.pc = "idle" THEN {} ELSE {s.comp.f})
FreeFrames(s) == Frames \ UsedFrames(s)
AllocPage(s) == FirstOf(FreeFrames(s))

Become(s) ==
    /\ list' = s.list
    /\ held' = s.held
    /\ mem' = [f \in Frames |-> IF f \in UsedFrames(s) THEN s.mem[f] ELSE 0]
    /\ maps' = s.maps
    /\ spare' = s.spare
    /\ comp' = s.comp

(* The references the slots of a set of pages give back when their content *)
(* is freed: a page its reservation, a reference itself; the compressor's  *)
(* temporary reference is no one's.                                        *)
GivenBack(pl, S) == Cardinality({i \in S : LET t == pl.slot[i] IN
                                    \/ t.k = "page" /\ t.r
                                    \/ t.k = "ref" /\ ~t.t})

(* What the slot t reads as.                                               *)
Bytes(s, t) == IF t.k = "page" THEN s.mem[t.f]
               ELSE IF t.k = "ref" THEN (IF t.t THEN s.mem[s.comp.f] ELSE t.v)
               ELSE 0

-----------------------------------------------------------------------------
(* Where the content of a page of an object is.                            *)

(* findPageContent and findInitialPageContent: the object that has content *)
(* there, up the parents as far as each sees its own, then the identity    *)
(* root the layer's resolver locates the page in, if it holds the page.    *)
RECURSIVE FindPageContent(_, _, _)
FindPageContent(s, o, i) ==
    IF s.list[o].slot[i] # Empty \/ IsOffsetInZeroInterval(s.list[o], i) THEN <<o, i>>
    ELSE IF i < tree[o].limit THEN FindPageContent(s, tree[o].parent, i + tree[o].poff)
    ELSE IF tree[o].kind = "layer" /\ i \in located
         THEN LET r == CHOOSE r \in Objects : tree[r].kind = "root"
              IN  IF s.list[r].slot[i] # Empty THEN <<r, i>> ELSE <<o, i>>
    ELSE <<o, i>>

ContentAt(s, w) == IF IsOffsetInZeroInterval(s.list[w[1]], w[2]) THEN Interval("slot", "zero", 0)
                   ELSE s.list[w[1]].slot[w[2]]

(* Mutant: a page the pager has not supplied yet is taken for zeros.       *)
MissingIsZero(s, w) == ContentAt(s, w) = Empty \/ ~IsPageOrRef(ContentAt(s, w))

IsContentZero(s, w) ==
    LET t == ContentAt(s, w)
    IN  t.k = "marker" \/ IF Pager(w[1]) THEN IsInterval(t) ELSE t = Empty

(* What a read of page i of object o returns.                              *)
ReadsAs(s, o, i) ==
    LET w == FindPageContent(s, o, i)
        t == ContentAt(s, w)
    IN  IF t = Empty /\ Pager(w[1]) THEN base[w[1]][w[2]] ELSE Bytes(s, t)

-----------------------------------------------------------------------------
(* RangeChangeUpdate: the mappings of the object's pages S, and, for an    *)
(* operation that is deferred, those of the children that see them.  A     *)
(* child's are changed from its first gap in the range to its last.        *)

(* Mutant: write access stays.                                             *)
ChangeKeepsWrite(m, op) == IF op = "RemoveWrite" \/ (op = "UnmapZeroPage" /\ m # NoMap /\ m.f # ZeroFrame)
                           THEN m ELSE NoMap
Change(m, op) == IF m = NoMap THEN m
                 ELSE CASE op = "RemoveWrite" -> [m EXCEPT !.w = FALSE]
                        [] op = "UnmapZeroPage" /\ m.f # ZeroFrame -> m
                        [] OTHER -> NoMap

GapsAmong(pl, S) == IF S = {} THEN {} ELSE GapsInRange(pl, FirstOf(S), LastOf(S))
Span(S) == IF S = {} THEN {} ELSE FirstOf(S) .. LastOf(S)

RECURSIVE RangeChangeChildren(_, _, _, _)
RangeChangeChildren(s, o, offset, S) ==
    LET gaps(c) == GapsAmong(s.list[c], {i \in Within(c) : i + offset + tree[c].poff \in S})
    IN  UNION {LET span == Span(gaps(c))
               IN  IF span = {} THEN {}
                   ELSE {<<c, i>> : i \in span}
                           \cup RangeChangeChildren(s, c, offset + tree[c].poff, S) :
                  c \in Children(o)}

RangeChangeUpdate(s, o, S, op) ==
    LET touched == {<<o, i>> : i \in S}
                      \cup (IF op = "RemoveWrite" THEN {}
                            ELSE RangeChangeChildren(s, o, 0, S))
    IN  [s EXCEPT !.maps = [x \in Objects |-> [i \in Pages |->
                               IF <<x, i>> \in touched THEN Change(@[x][i], op)
                               ELSE @[x][i]]]]

-----------------------------------------------------------------------------
(* Pages coming and going.                                                 *)

SetPage(s, o, i, t) == [s EXCEPT !.list[o] = SetSlot(LookupOrAllocate(@, i, TRUE).pl, i, t)]

(* makePageFromReference: a dirty one keeps the reference, as the page's   *)
(* reservation, or takes over the reservation of the page in compression.  *)
MakePageFromReference(s, pl, i) ==
    LET t == pl.slot[i]
        f == AllocPage(s)
        keeps == IsDirty(t)
    IN  [pl |-> SetSlot(pl, i, Page(f, t.d, keeps /\ (t.t => s.comp.r))),
         s  |-> [s EXCEPT !.mem[f] = Bytes(s, t),
                          !.spare = IF t.t \/ keeps THEN @ ELSE @ + 1,
                          !.comp.r = @ /\ ~(t.t /\ keeps)]]

ReplaceReferenceWithPage(s, o, i) ==
    LET m == MakePageFromReference(s, s.list[o], i)
    IN  IF s.list[o].slot[i].k = "ref" THEN [m.s EXCEPT !.list[o] = m.pl] ELSE s

(* splitAwaitingClean: a store to a page a writeback holds goes to a copy; *)
(* the page stays with the writeback, beside the list.                     *)
SplitAwaitingClean(s, o, i) ==
    LET t == s.list[o].slot[i]
        f == AllocPage(s)
    IN  RangeChangeUpdate([s EXCEPT !.mem[f] = s.mem[t.f],
                                    !.list[o].slot[i] = Page(f, "Dirty", TRUE),
                                    !.held[o] = SetSlot(@, i, t),
                                    !.spare = @ - 1],
                          o, {i}, "Unmap")

(* dirtyForStore: a Clean page takes a reservation and is Dirty.           *)
DirtyForStore(s, o, i) ==
    LET t == s.list[o].slot[i]
    IN  CASE t.d = "Dirty" -> s
          [] t.d = "Clean" -> [s EXCEPT !.list[o].slot[i] = Page(t.f, "Dirty", TRUE),
                                        !.spare = IF t.r THEN @ ELSE @ - 1]
          [] OTHER -> SplitAwaitingClean(s, o, i)

(* targetAllocateCopyPageAsResult: a copy of the frame, or of zeros, in    *)
(* the object itself.                                                      *)
AllocateCopyPage(s, o, i, source, d) ==
    LET f == AllocPage(s)
        old == s.list[o].slot[i]
        added == [SetPage(s, o, i, Page(f, d, d = "Dirty"))
                     EXCEPT !.mem[f] = IF source = ZeroFrame THEN 0 ELSE s.mem[source],
                            !.spare = IF d = "Dirty" THEN @ - 1 ELSE @]
    IN  RangeChangeUpdate(added, o, {i}, IF source = ZeroFrame THEN "UnmapZeroPage" ELSE "Unmap")

(* RequireOwnedPage where it succeeds: the state it leaves, or no state    *)
(* where it asks the pager (for the page, or, trapping, to dirty it), or   *)
(* has no frame or no reference.                                           *)
RequireOwnedPage(s0, o, i, write) ==
    LET w == FindPageContent(s0, o, i)
        needs == IF ContentAt(s0, w).k = "ref" THEN 1 ELSE 0
        s == IF needs = 1 THEN ReplaceReferenceWithPage(s0, w[1], w[2]) ELSE s0
        t == ContentAt(s, w)
        own == w = <<o, i>>
        d == IF ~Pager(o) THEN "Untracked"
             ELSE IF write \/ (t.k # "page" /\ IsInterval(t)) THEN "Dirty" ELSE "Clean"
        trapped == d = "Dirty" /\ scen.trap
        frames == Cardinality(FreeFrames(s0)) - needs
    IN  IF frames < 0 THEN {}
        ELSE IF own /\ t.k = "page"
             THEN IF ~(write /\ Pager(o)) \/ t.d = "Dirty" THEN {s}
                  ELSE IF scen.trap \/ (~t.r /\ s.spare = 0)
                                    \/ (t.d = "AwaitingClean" /\ (frames = 0 \/ s.spare = 0))
                       THEN {} ELSE {DirtyForStore(s, o, i)}
        ELSE IF t.k # "page" /\ ~IsContentZero(s, w) THEN {}
        ELSE IF trapped \/ frames = 0 \/ (d = "Dirty" /\ s.spare = 0) THEN {}
        ELSE {AllocateCopyPage(s, o, i, IF t.k = "page" THEN t.f ELSE ZeroFrame, d)}

MapPage(s, o, i) ==
    LET t == s.list[o].slot[i]
    IN  [s EXCEPT !.maps[o][i] = [f |-> t.f, w |-> ~Pager(o) \/ t.d = "Dirty"]]

(* What users of the objects are promised: a page reads as what was stored *)
(* to it last; a clone's as its parent's, until it has one of its own.     *)
RECURSIVE Through(_, _, _)
Through(x, j, o) == IF x = o THEN j
                    ELSE IF list[x].slot[j] = Empty /\ j < tree[x].limit
                         THEN Through(tree[x].parent, j + tree[x].poff, o) ELSE NoVal

Written(o, S, v) ==
    memory' = [x \in Objects |-> [j \in Pages |->
                 IF j \in Within(x) /\ Through(x, j, o) \in S THEN v ELSE memory[x][j]]]

Unwritten == UNCHANGED memory
Others == UNCHANGED <<tree, base, located, saved, scen>> /\ Unwritten

-----------------------------------------------------------------------------
(* Reads, stores, faults.                                                  *)

(* A load that finds no mapping: RequireReadPage.                          *)
ReadFault(o, i) ==
    LET w == FindPageContent(State, o, i)
        t0 == ContentAt(State, w)
        s == ReplaceReferenceWithPage(State, w[1], w[2])
        t == ContentAt(s, w)
    IN  /\ May("read") /\ Live(o) /\ ~tree[o].closed /\ tree[o].kind # "root"
        /\ maps[o][i] = NoMap
        /\ \/ /\ t0.k \in {"page", "ref"} /\ (t0.k = "ref" => FreeFrames(State) # {})
              /\ Become(IF tree[w[1]].kind = "root" THEN s
                        ELSE [s EXCEPT !.maps[o][i] =
                                 [f |-> t.f, w |-> w = <<o, i>> /\ (~Pager(o) \/ t.d = "Dirty")]])
           \/ /\ t0.k \notin {"page", "ref"} /\ IsContentZero(State, w)
              /\ Become([State EXCEPT !.maps[o][i] = [f |-> ZeroFrame, w |-> FALSE]])
        /\ Others

(* A store that finds no mapping with write access: RequireOwnedPage.      *)
WriteFault(o, i) ==
    /\ May("write") /\ Live(o) /\ ~tree[o].closed /\ tree[o].kind # "root"
    /\ maps[o][i] = NoMap \/ ~maps[o][i].w
    /\ \E s \in RequireOwnedPage(State, o, i, TRUE) : Become(MapPage(s, o, i))
    /\ Others

Store(o, i, v) ==
    /\ May("write") /\ maps[o][i] # NoMap /\ maps[o][i].w
    /\ mem[maps[o][i].f] # v
    /\ mem' = [mem EXCEPT ![maps[o][i].f] = v]
    /\ Written(o, {i}, v)
    /\ UNCHANGED <<list, held, maps, spare, comp, tree, base, located, saved, scen>>

CommitPage(o, i) ==
    /\ May("commit") /\ Live(o) /\ ~tree[o].closed /\ tree[o].kind # "root"
    /\ \E s \in RequireOwnedPage(State, o, i, FALSE) : s # State /\ Become(s)
    /\ Others

-----------------------------------------------------------------------------
(* The pager's operations.                                                 *)

(* SupplyPages: pages for the range, or markers where it reads as zeros;   *)
(* what is there already stays.                                            *)
SupplyPages(o, lo, hi) ==
    LET new == {i \in lo .. hi : ~IsOffsetInZeroInterval(list[o], i) /\ list[o].slot[i] = Empty}
        RECURSIVE add(_, _)
        add(s, i) == IF i > hi THEN s
                     ELSE IF i \notin new THEN add(s, i + 1)
                     ELSE IF base[o][i] = 0 THEN add(SetPage(s, o, i, Marker), i + 1)
                     ELSE LET f == AllocPage(s)
                          IN  add([SetPage(s, o, i, Page(f, "Clean", FALSE))
                                      EXCEPT !.mem[f] = base[o][i]], i + 1)
    IN  /\ May("supply") /\ Pager(o) /\ ~tree[o].closed /\ new # {}
        /\ Cardinality(FreeFrames(State)) >= Cardinality({i \in new : base[o][i] # 0})
        /\ Become(RangeChangeUpdate(add(State, lo), o, new, "Unmap"))
        /\ Others

(* DirtyPages, the answer to a trapped store: all of the range or none.    *)
DirtyPages(o, lo, hi) ==
    LET S == lo .. hi
        zero == {i \in S : list[o].slot[i].k = "marker" \/ IsOffsetInZeroInterval(list[o], i)}
        notDirty == {i \in S : IsPageOrRef(list[o].slot[i]) /\ list[o].slot[i].d # "Dirty"}
        refs == {i \in notDirty : list[o].slot[i].k = "ref"}
        awaiting == {i \in notDirty : list[o].slot[i].d = "AwaitingClean"}
        RECURSIVE dirty(_, _)
        dirty(s, i) ==
            IF i > hi THEN s
            ELSE IF i \in zero
                 THEN dirty(DirtyForStore(AllocateCopyPage(s, o, i, ZeroFrame, "Clean"), o, i), i + 1)
            ELSE IF i \in notDirty
                 THEN dirty(DirtyForStore(ReplaceReferenceWithPage(s, o, i), o, i), i + 1)
            ELSE dirty(s, i + 1)
    IN  /\ May("dirty") /\ scen.trap /\ Pager(o) /\ tree[o].kind # "root" /\ ~tree[o].closed
        /\ GapsInRange(list[o], lo, hi) = {}
        /\ zero \cup notDirty # {}
        /\ spare >= Cardinality(zero \cup notDirty)
        /\ Cardinality(FreeFrames(State)) >=
               Cardinality(zero) + Cardinality(refs) + Cardinality(awaiting)
        /\ Become(dirty(State, lo))
        /\ Others

(* freeHeld: pages and references a writeback held are freed, and the      *)
(* zeros it held are taken out of their intervals.                         *)
FreeHeld(s, o, lo, hi) ==
    LET S == lo .. hi
        kept == {i \in S : ~IsInterval(s.held[o].slot[i])}
        taken == RemovePages(s.held[o], kept)
        parts == ForEveryContiguousRunInRange(taken, {i \in Pages : IsInterval(taken.slot[i])}, lo, hi)
        RECURSIVE clear(_, _)
        clear(pl, k) == IF k > Len(parts) THEN pl
                        ELSE LET run == parts[k][1] .. parts[k][2]
                             IN  clear(RemovePages(PopulateSlotsInInterval(pl, parts[k][1], parts[k][2]),
                                                   run), k + 1)
    IN  [s EXCEPT !.held[o] = clear(taken, 1), !.spare = @ + GivenBack(s.held[o], kept)]


(* WritebackBegin: Dirty becomes AwaitingClean, and a dirty interval that  *)
(* starts in the range notes how much of it is; its zeros are held.  Write *)
(* access goes, so that a store to what is being written back faults.      *)
BeginWriteback(s, o, lo, hi, isZeroRange) ==
    LET S == lo .. hi
        freed == FreeHeld(s, o, lo, hi)
        pl == s.list[o]
        begins == {i \in S : pl.slot[i].k \in {"start", "slot"} /\ pl.slot[i].s = "dirty"}
        ends(i) == IF pl.slot[i].k = "slot" THEN i
                   ELSE LET e == FindIntervalEndForStart(pl, i) IN IF e > hi THEN hi ELSE e
        slot(i) == LET t == pl.slot[i]
                   IN  CASE i \in begins -> [t EXCEPT !.a = IF ends(i) + 1 - i > @
                                                            THEN ends(i) + 1 - i ELSE @]
                         [] i \in S /\ IsPageOrRef(t) /\ ~isZeroRange /\ t.d = "Dirty" ->
                                [t EXCEPT !.d = "AwaitingClean"]
                         [] OTHER -> t
        RECURSIVE hold(_, _)
        hold(h, B) == IF B = {} THEN h
                      ELSE LET b == FirstOf(B)
                           IN  hold(AddZeroInterval(h, b, ends(b), "dirty"), B \ {b})
    IN  RangeChangeUpdate([freed EXCEPT !.list[o].slot = [i \in Pages |-> slot(i)],
                                        !.held[o] = hold(@, begins)],
                          o, S, "RemoveWrite")

(* The pages of the range the writeback is of: what the pager enumerated   *)
(* as dirty there and now reads and writes back.                           *)
DirtyIn(o, S) == {i \in S : \/ IsPageOrRef(list[o].slot[i]) /\ list[o].slot[i].d = "Dirty"
                            \/ IntervalAt(list[o], i) # Empty /\ IntervalAt(list[o], i).s = "dirty"}

WritebackBegin(o, lo, hi, isZeroRange) ==
    LET S == lo .. hi
        taken == {i \in DirtyIn(o, S) : isZeroRange => IsOffsetInZeroInterval(list[o], i)}
    IN  /\ May("writeback") /\ tree[o].kind = "layer" /\ ~tree[o].closed
        /\ taken # {}
        /\ (\E i \in Pages : saved[o][i] # NoVal) => May("again")
        /\ Become(BeginWriteback(State, o, lo, hi, isZeroRange))
        /\ saved' = [saved EXCEPT ![o] = [i \in Pages |->
                        IF i \in taken THEN ReadsAs(State, o, i)
                        ELSE IF i \in S /\ isZeroRange THEN NoVal ELSE @[i]]]
        /\ UNCHANGED <<tree, base, located, scen>> /\ Unwritten

(* WritebackEnd: AwaitingClean becomes Clean, and what is AwaitingClean of *)
(* the dirty intervals that start in the range is taken out of them.       *)
RECURSIVE CleanIntervals(_, _, _, _)
CleanIntervals(pl, from, hi, cleanEnd) ==
    LET begins == {i \in from .. hi : pl.slot[i].k \in {"start", "slot"} /\ pl.slot[i].s = "dirty"}
        b == FirstOf(begins)
        e == IF pl.slot[b].k = "slot" THEN b ELSE FindIntervalEndForStart(pl, b)
        c == IF b + pl.slot[b].a > cleanEnd THEN b + pl.slot[b].a ELSE cleanEnd
        clean == (IF c < hi + 1 THEN c ELSE hi + 1) - b
        left == IF pl.slot[b].k = "slot" THEN (IF b < c THEN RemoveContent(pl, b) ELSE pl)
                ELSE IF e <= hi + 1 /\ c > e THEN RemoveContent(RemoveContent(pl, b), e)
                ELSE ClipIntervalStart(pl, b, clean)
    IN  IF begins = {} THEN pl ELSE CleanIntervals(left, e + 1, hi, c)

EndWriteback(s, o, lo, hi) ==
    LET S == lo .. hi
        pl == s.list[o]
        awaiting == {i \in S : IsPageOrRef(pl.slot[i]) /\ pl.slot[i].d = "AwaitingClean"}
        clean == [pl EXCEPT !.slot = [i \in Pages |->
                     IF i \notin awaiting THEN @[i]
                     ELSE IF @[i].k = "page" THEN Page(@[i].f, "Clean", FALSE)
                     ELSE [@[i] EXCEPT !.d = "Clean"]]]
        released == Cardinality({i \in awaiting : pl.slot[i].k = "page" /\ pl.slot[i].r})
    IN  FreeHeld([s EXCEPT !.list[o] = CleanIntervals(clean, lo, hi, 0), !.spare = @ + released],
                 o, lo, hi)

(* The pager has written back what ReadWriteback gave it: its copy is that *)
(* now, and its resolver locates the page in no root.                      *)
WritebackEnd(o, lo, hi) ==
    LET S == {i \in lo .. hi : saved[o][i] # NoVal}
    IN  /\ May("writeback") /\ tree[o].kind = "layer" /\ ~tree[o].closed
        /\ saved[o][lo] # NoVal /\ saved[o][hi] # NoVal
        /\ May("part") \/ \A i \in Pages \ (lo .. hi) : saved[o][i] = NoVal
        /\ Become(EndWriteback(State, o, lo, hi))
        /\ base' = [base EXCEPT ![o] = [i \in Pages |-> IF i \in S THEN saved[o][i] ELSE @[i]]]
        /\ located' = located \ S
        /\ saved' = [saved EXCEPT ![o] = [i \in Pages |-> IF i \in S THEN NoVal ELSE @[i]]]
        /\ UNCHANGED <<tree, scen>> /\ Unwritten

(* WritebackAbandon: it is Dirty again, and what was held is dropped: the  *)
(* list has what is newer.                                                 *)
AbandonWriteback(s, o, lo, hi) ==
    LET S == lo .. hi
        slot(i) == LET t == s.list[o].slot[i]
                   IN  CASE i \in S /\ IsPageOrRef(t) /\ t.d = "AwaitingClean" -> [t EXCEPT !.d = "Dirty"]
                         [] i \in S /\ t.k \in {"start", "slot"} /\ t.s = "dirty" -> [t EXCEPT !.a = 0]
                         [] OTHER -> t
    IN  RangeChangeUpdate(FreeHeld([s EXCEPT !.list[o].slot = [i \in Pages |-> slot(i)]], o, lo, hi),
                          o, S, "Unmap")

WritebackAbandon(o, lo, hi) ==
    /\ May("abandon") /\ tree[o].kind = "layer" /\ ~tree[o].closed
    /\ \E i \in lo .. hi : saved[o][i] # NoVal
    /\ May("part") \/ \A i \in Pages \ (lo .. hi) : saved[o][i] = NoVal
    /\ Become(AbandonWriteback(State, o, lo, hi))
    /\ saved' = [saved EXCEPT ![o] = [i \in Pages |-> IF i \in lo .. hi THEN NoVal ELSE @[i]]]
    /\ UNCHANGED <<tree, base, located, scen>> /\ Unwritten

(* ReadWriteback: what is held at the page, else its AwaitingClean page or *)
(* reference; NoVal is ErrBadState.  A reference it finds becomes a page.  *)
ReadWritebackOf(s, o, i) ==
    LET h == s.held[o].slot[i]
        t == s.list[o].slot[i]
    IN  IF h # Empty THEN Bytes(s, h)
        ELSE IF IsOffsetInZeroInterval(s.held[o], i) THEN 0
        ELSE IF IsPageOrRef(t) /\ t.d = "AwaitingClean" THEN Bytes(s, t) ELSE NoVal

ReadWriteback(o, i) ==
    LET h == held[o].slot[i]
        t == list[o].slot[i]
        m == MakePageFromReference(State, held[o], i)
    IN  /\ May("writeback") /\ tree[o].kind = "layer" /\ ~tree[o].closed /\ FreeFrames(State) # {}
        /\ \/ h.k = "ref" /\ Become([m.s EXCEPT !.held[o] = m.pl])
           \/ h = Empty /\ ~IsOffsetInZeroInterval(held[o], i) /\ t.k = "ref"
              /\ t.d = "AwaitingClean" /\ Become(ReplaceReferenceWithPage(State, o, i))
        /\ Others

(* ObjectPaged.SplitAwaitingClean, with a copy the pager made.             *)
SplitForStore(o, i) ==
    /\ May("split") /\ tree[o].kind = "layer" /\ ~tree[o].closed
    /\ list[o].slot[i].k = "page" /\ list[o].slot[i].d = "AwaitingClean"
    /\ FreeFrames(State) # {} /\ spare > 0
    /\ Become(SplitAwaitingClean(State, o, i))
    /\ Others

-----------------------------------------------------------------------------
(* Zeroing.                                                                *)

(* What one pass of zeroPagesDirectUserPager from page n stops at becomes  *)
(* zeros of the wanted state.  An interval of another state that starts in *)
(* the range, at begun, is stopped at where it ends, or at hi.             *)
ZeroAt(pl, n, hi, st, gaps, at, begun, next) ==
    LET t == pl.slot[at]
        gapEnd == LastOf({i \in at .. hi : at .. i \subseteq gaps})
        zeroed == CASE t.k = "page" -> ReplaceWithZeroInterval(pl, at, st, 0)
                    [] t.k = "ref" -> AddZeroInterval(RemoveContent(pl, at), at, at, st)
                    [] t.k = "marker" ->
                          AddZeroInterval([pl EXCEPT !.slot[at] = Empty], at, at, st)
                    [] t.k = "slot" -> OverwriteZeroInterval(pl, at, at, at, at, st)
                    [] OTHER -> OverwriteZeroInterval(pl, begun, at,
                                    IF begun # None THEN begun ELSE next, at, st)
    IN  IF at > hi
        THEN IF begun # None /\ pl.slot[begun].s # st
             THEN [pl |-> OverwriteZeroInterval(pl, begun, None, begun, hi, st), next |-> hi + 1]
             ELSE [pl |-> pl, next |-> IF begun # None \/ next = n THEN hi + 1 ELSE next]
        ELSE IF at \in gaps
             THEN [pl |-> AddZeroInterval(pl, at, gapEnd, st), next |-> gapEnd + 1]
        ELSE [pl |-> zeroed, next |-> at + 1]

(* What the pass has walked over before it stops at at, or at hi.          *)
ZeroPassed(pl, n, hi, st, content, gaps, at) ==
    LET passed == {i \in content : i < at}
        starts == {i \in passed : pl.slot[i].k = "start"}
        open == {i \in starts : \A j \in passed : j <= i \/ pl.slot[j].k # "end"}
    IN  ZeroAt(pl, n, hi, st, gaps, at, IF open = {} THEN None ELSE LastOf(starts),
               IF passed = {} THEN n ELSE LastOf(passed) + 1)

(* The pass: the walk stops at the first content, gap, or interval of      *)
(* another state; hi + 1 is none.                                          *)
ZeroStep(pl, n, hi, st, dirtyTrack) ==
    LET quiet(t) == \/ t.k = "start"
                    \/ t.k \in {"end", "slot"} /\ t.s = st
                    \/ t.k = "marker" /\ dirtyTrack
        content == {i \in n .. hi : pl.slot[i] # Empty}
        gaps == GapsInRange(pl, n, hi)
        stops == {i \in content : ~quiet(pl.slot[i])} \cup gaps
    IN  ZeroPassed(pl, n, hi, st, content, gaps, FirstOf(stops \cup {hi + 1}))

RECURSIVE ZeroFrom(_, _, _, _, _)
ZeroFrom(pl, n, hi, st, dirtyTrack) ==
    IF n > hi THEN pl
    ELSE LET z == ZeroStep(pl, n, hi, st, dirtyTrack)
         IN  ZeroFrom(z.pl, z.next, hi, st, dirtyTrack)

ZeroPagesDirectUserPager(s, o, lo, hi, dirtyTrack) ==
    LET st == IF dirtyTrack THEN "dirty" ELSE "untracked"
    IN  [RangeChangeUpdate(s, o, lo .. hi, "Unmap")
            EXCEPT !.list[o] = ZeroFrom(@, lo, hi, st, dirtyTrack),
                   !.spare = @ + GivenBack(s.list[o], lo .. hi)]

(* zeroPagesNoDirectPageSource: an object with no parent forgets its pages;*)
(* where a clone could see its parent, it has a marker.                    *)
ZeroPagesNoDirectPageSource(s, o, lo, hi) ==
    LET S == lo .. hi
        content == {i \in S : IsPageOrRef(s.list[o].slot[i])}
        gone == {i \in content : tree[o].parent = NoObject}
        marked == {i \in S : tree[o].parent # NoObject /\ (i \in content
                       \/ (s.list[o].slot[i] = Empty /\ i < tree[o].limit))}
        emptied == RemovePages(s.list[o], gone)
        unmapped == IF content \cup marked = {} THEN s ELSE RangeChangeUpdate(s, o, S, "Unmap")
    IN  [unmapped EXCEPT !.list[o] = [slot |-> [i \in Pages |-> IF i \in marked THEN Marker
                                                                ELSE emptied.slot[i]],
                                      nodes |-> emptied.nodes \cup {Node(i) : i \in marked}],
                         !.spare = @ + GivenBack(s.list[o], content)]

ZeroPages(o, lo, hi, dirtyTrack) ==
    /\ May(IF dirtyTrack THEN "zero" ELSE "zeroUntracked")
    /\ Live(o) /\ ~tree[o].closed /\ tree[o].kind # "root"
    /\ Become(IF Pager(o) THEN ZeroPagesDirectUserPager(State, o, lo, hi, dirtyTrack)
              ELSE ZeroPagesNoDirectPageSource(State, o, lo, hi))
    /\ Written(o, lo .. hi, 0)
    /\ UNCHANGED <<tree, base, located, saved, scen>>

-----------------------------------------------------------------------------
(* Reclamation.                                                            *)

(* ReclaimRangeForEviction of the pages of a node: the Clean ones that are *)
(* reclaimable.  The mappings of all of them go, to learn of accesses.     *)
ReclaimRangeForEviction(o, n) ==
    LET S == NodePages(n) \cap Within(o)
        clean == {i \in S : list[o].slot[i].k = "page" /\ list[o].slot[i].d = "Clean"}
    IN  /\ May("evict") /\ Pager(o) /\ clean # {}
        /\ \E K \in SUBSET clean :
              /\ K # {}
              /\ Become([RangeChangeUpdate(State, o, S, "Unmap")
                            EXCEPT !.list[o] = RemovePages(@, K),
                                   !.spare = @ + GivenBack(list[o], K)])
        /\ Others

DedupZeroPage(o, i) ==
    LET t == list[o].slot[i]
    IN  /\ May("dedup") /\ Live(o) /\ t.k = "page" /\ t.d \in {"Clean", "Untracked"} /\ mem[t.f] = 0
        /\ Become(RangeChangeUpdate([State EXCEPT !.list[o].slot[i] = Marker,
                                                  !.spare = @ + GivenBack(list[o], {i})],
                                    o, {i}, "Unmap"))
        /\ Others

(* RemovePage: the pager takes a page it has written back out of the list, *)
(* or a page a checkpoint held; its reservation is given back.             *)
RemovePage(o, i) ==
    LET t == list[o].slot[i]
        h == held[o].slot[i]
    IN  /\ May("remove") /\ Pager(o)
        /\ \/ /\ t.k = "page" /\ t.d = "Clean"
              /\ Become([RangeChangeUpdate(State, o, {i}, "Unmap")
                            EXCEPT !.list[o] = RemoveContent(@, i),
                                   !.spare = @ + GivenBack(list[o], {i})])
              /\ UNCHANGED saved
           \/ /\ h.k = "page"
              /\ Become([State EXCEPT !.held[o] = RemoveContent(@, i),
                                      !.spare = @ + GivenBack(held[o], {i})])
              /\ saved' = [saved EXCEPT ![o][i] = NoVal]
        /\ UNCHANGED <<tree, base, located, scen>> /\ Unwritten

(* The compressor takes a page: what is dirty of a pager's object, what a  *)
(* checkpoint holds, or any page of an anonymous one.                      *)
CompressorStart(o, i, h) ==
    LET pl == IF h THEN held[o] ELSE list[o]
        t == pl.slot[i]
        temp == SetSlot(pl, i, Ref(0, t.d, TRUE))
    IN  /\ May("compress") /\ Live(o) /\ comp.pc = "idle" /\ t.k = "page"
        /\ h \/ t.d # "Clean"
        /\ LET s == IF h THEN [State EXCEPT !.held[o] = temp]
                    ELSE [RangeChangeUpdate(State, o, {i}, "Unmap") EXCEPT !.list[o] = temp]
           IN  Become([s EXCEPT !.comp = [pc |-> "started", o |-> o, p |-> i, held |-> h,
                                          f |-> t.f, r |-> t.r,
                                          res |-> IF t.r THEN "reserved" ELSE "none"]])
        /\ Others

(* Compress, with the lock given up: into the reservation the page had at  *)
(* the start, or into a reference of its own.                              *)
Compress ==
    LET zero == mem[comp.f] = 0
    IN  /\ comp.pc = "started"
        /\ \/ zero /\ comp' = [comp EXCEPT !.pc = "zero"] /\ spare' = spare
           \/ ~zero /\ comp.res = "reserved" /\ comp' = [comp EXCEPT !.pc = "ref"] /\ spare' = spare
           \/ ~zero /\ comp.res = "none" /\ spare > 0 /\ comp' = [comp EXCEPT !.pc = "ref"]
              /\ spare' = spare - 1
           \/ comp' = [comp EXCEPT !.pc = "failed"] /\ spare' = spare
        /\ UNCHANGED <<list, held, mem, maps>> /\ Others

(* With the lock again: the temporary reference may have been read, freed  *)
(* or replaced, in which case the result is dropped; page i's own slot is  *)
(* set only if it still holds the temporary reference.                     *)
CompressedPage(s) ==
    LET o == comp.o
        i == comp.p
        l == IF comp.held THEN s.held[o] ELSE s.list[o]
        t == l.slot[i]
        put(pl) == IF comp.held THEN [s EXCEPT !.held[o] = pl] ELSE [s EXCEPT !.list[o] = pl]
        mayShow == ~RootHasPageSource(o)
                      /\ LET w == FindPageContent([s EXCEPT !.list[o].slot[i] = Empty], o, i)
                         IN  s.list[w[1]].slot[w[2]] = Empty \/ w = <<o, i>>
        zeroInterval == ReplaceWithZeroInterval(l, i, "dirty", IF t.d = "AwaitingClean" THEN 1 ELSE 0)
        holdsNothing == s.held[o].slot[i] = Empty /\ ~IsOffsetInZeroInterval(s.held[o], i)
    IN  IF t.k # "ref" \/ ~t.t
        THEN \* the result is not wanted; a reservation it went into stays one
             [s EXCEPT !.spare = IF comp.pc = "ref" /\ comp.res = "none" THEN @ + 1 ELSE @]
        ELSE CASE comp.pc = "ref" -> [put(SetSlot(l, i, Ref(s.mem[comp.f], t.d, FALSE)))
                                         EXCEPT !.comp.r = FALSE]
               [] comp.pc = "failed" -> [put(SetSlot(l, i, Page(comp.f, t.d, comp.r)))
                                            EXCEPT !.comp.r = FALSE]
               [] comp.pc = "zero" /\ comp.held -> put(SetSlot(l, i, Marker))
               [] comp.pc = "zero" /\ IsDirty(t) ->
                     [put(zeroInterval) EXCEPT !.held[o] =
                         IF t.d = "AwaitingClean" /\ holdsNothing
                         THEN AddZeroInterval(@, i, i, "dirty") ELSE @]
               [] OTHER -> put(IF mayShow THEN RemoveContent(l, i) ELSE SetSlot(l, i, Marker))

CompressorFinish ==
    LET s == CompressedPage(State)
    IN  /\ comp.pc \in {"zero", "ref", "failed"}
        /\ Become([s EXCEPT !.comp = NoCompression,
                            !.spare = IF s.comp.r THEN @ + 1 ELSE @])
        /\ Others

-----------------------------------------------------------------------------
(* Clones, and the end of objects.                                         *)

ClampedLimit(offset, limit, maxLimit) ==
    LET l == IF offset + limit < maxLimit THEN offset + limit ELSE maxLimit
    IN  IF l > offset THEN l - offset ELSE 0

(* findParentAndRangeForClone: the clone is of the nearest object up from  *)
(* o that has content of its own in the range.                             *)
RECURSIVE ParentAndRange(_, _, _)
ParentAndRange(o, offset, limit) ==
    IF tree[o].parent = NoObject
       \/ (limit > 0 /\ AnyPagesOrIntervalsInRange(list[o], offset, offset + limit - 1))
    THEN [parent |-> o, poff |-> offset, limit |-> limit]
    ELSE ParentAndRange(tree[o].parent, tree[o].poff + offset,
                        ClampedLimit(offset, limit, tree[o].limit))

CreateClone(c, o, offset, size) ==
    LET at == ParentAndRange(o, offset, ClampedLimit(offset, size, Size(o)))
    IN  /\ c \in scen.clones /\ Live(o) /\ ~tree[o].closed /\ ~Live(c) /\ tree[o].kind # "root"
        /\ tree' = [tree EXCEPT ![c] = [kind |-> "anon", size |-> size, parent |-> at.parent,
                                        poff |-> at.poff, limit |-> at.limit, closed |-> FALSE]]
        /\ memory' = [memory EXCEPT ![c] = [j \in Pages |->
                         IF j < size /\ offset + j < Size(o) THEN memory[o][offset + j] ELSE 0]]
        /\ UNCHANGED <<list, held, mem, maps, spare, comp, base, located, saved, scen>>

NoTree == [kind |-> "none", size |-> 0, parent |-> NoObject, poff |-> 0, limit |-> 0,
           closed |-> FALSE]

(* Destroy: an object with no handle and no children is dead: what it held *)
(* is freed, and its parent, if it only waited for this child, dies too.   *)
RECURSIVE Dying(_, _)
Dying(o, dead) ==
    IF (Children(o) \ dead) # {} THEN dead
    ELSE IF tree[o].parent # NoObject /\ tree[tree[o].parent].closed
         THEN Dying(tree[o].parent, dead \cup {o})
    ELSE dead \cup {o}

Destroy(o) ==
    LET dead == Dying(o, {})
        back(d) == GivenBack(list[d], Pages) + GivenBack(held[d], Pages)
        RECURSIVE sum(_)
        sum(D) == IF D = {} THEN 0
                  ELSE LET d == CHOOSE d \in D : TRUE IN back(d) + sum(D \ {d})
    IN  /\ May("destroy") /\ Live(o) /\ ~tree[o].closed /\ comp.pc = "idle"
        /\ Become([State EXCEPT !.maps[o] = [i \in Pages |-> NoMap],
                                !.list = [x \in Objects |-> IF x \in dead THEN NewPageList ELSE @[x]],
                                !.held = [x \in Objects |-> IF x \in dead THEN NewPageList ELSE @[x]],
                                !.spare = @ + sum(dead)])
        /\ tree' = [x \in Objects |-> IF x \in dead THEN NoTree
                                      ELSE IF x = o THEN [tree[x] EXCEPT !.closed = TRUE] ELSE tree[x]]
        /\ saved' = [saved EXCEPT ![o] = [i \in Pages |-> NoVal]]
        /\ memory' = [x \in Objects |-> IF x \in dead THEN [i \in Pages |-> 0] ELSE memory[x]]
        /\ UNCHANGED <<base, located, scen>>

-----------------------------------------------------------------------------
Init ==
    /\ scen \in Scenarios
    /\ list = [o \in Objects |-> NewPageList]
    /\ held = [o \in Objects |-> NewPageList]
    /\ tree = scen.tree
    /\ mem = [f \in Frames |-> 0]
    /\ maps = [o \in Objects |-> [i \in Pages |-> NoMap]]
    /\ spare = scen.references
    /\ comp = NoCompression
    /\ base = scen.base
    /\ located = scen.located
    /\ saved = [o \in Objects |-> [i \in Pages |-> NoVal]]
    /\ memory = scen.base

Stores == \E o \in Objects : \E i \in Within(o) : \/ ReadFault(o, i)
                                                  \/ WriteFault(o, i)
                                                  \/ CommitPage(o, i)
                                                  \/ \E v \in Values : Store(o, i, v)
Paging == \E o \in Objects : \E lo \in Within(o) : \E hi \in lo .. Size(o) - 1 :
             \/ SupplyPages(o, lo, hi)
             \/ DirtyPages(o, lo, hi)
             \/ \E b \in BOOLEAN : ZeroPages(o, lo, hi, b)
Writeback == \E o \in Objects : \E lo \in Within(o) :
                \/ \E hi \in lo .. Size(o) - 1 :
                      \/ \E z \in BOOLEAN : WritebackBegin(o, lo, hi, z)
                      \/ WritebackEnd(o, lo, hi)
                      \/ WritebackAbandon(o, lo, hi)
                \/ ReadWriteback(o, lo)
                \/ SplitForStore(o, lo)
Reclaim == \/ \E o \in Objects : \E i \in Within(o) :
                 \/ ReclaimRangeForEviction(o, Node(i))
                 \/ DedupZeroPage(o, i)
                 \/ RemovePage(o, i)
                 \/ \E h \in BOOLEAN : CompressorStart(o, i, h)
           \/ Compress
           \/ CompressorFinish
Objecting == \E o \in Objects :
                \/ \E c \in Objects, off \in Within(o), n \in 1 .. Size(o) : CreateClone(c, o, off, n)
                \/ Destroy(o)

Next == Stores \/ Paging \/ Writeback \/ Reclaim \/ Objecting

Spec == Init /\ [][Next]_vars

-----------------------------------------------------------------------------
(* Properties.                                                             *)

(* A mapping is of the frame a fault would find now, the zero page where   *)
(* that is zeros, and has write access only to a page of the object's own, *)
(* which in a layer is Dirty.                                              *)
MappingsCurrent ==
    \A o \in Objects : \A i \in Within(o) : maps[o][i] # NoMap =>
        LET w == FindPageContent(State, o, i)
            t == ContentAt(State, w)
        IN  IF maps[o][i].f = ZeroFrame THEN IsContentZero(State, w) /\ ~maps[o][i].w
            ELSE /\ t.k = "page" /\ t.f = maps[o][i].f
                 /\ maps[o][i].w => w = <<o, i>> /\ (Pager(o) => t.d = "Dirty")

(* Each page of each object reads as what was stored to it last, whatever  *)
(* was supplied, written back, abandoned, evicted or compressed since.     *)
ReadsAsStored == \A o \in Objects : \A i \in Within(o) : ReadsAs(State, o, i) = memory[o][i]

(* No reference of the spill storage is lost or given twice, and whatever  *)
(* is dirty has one to be spilled into.                                    *)
Reservations ==
    LET used[S \in SUBSET Objects] ==
            IF S = {} THEN 0
            ELSE LET o == CHOOSE o \in S : TRUE
                 IN  GivenBack(list[o], Pages) + GivenBack(held[o], Pages) + used[S \ {o}]
        compressing == (IF comp.r THEN 1 ELSE 0)
                          + (IF comp.pc = "ref" /\ comp.res = "none" THEN 1 ELSE 0)
    IN  /\ spare >= 0 /\ spare + used[Objects] + compressing = scen.references
        /\ \A o \in Objects, i \in Pages :
              LET t == list[o].slot[i]
              IN  /\ t.k = "page" /\ IsDirty(t) => t.r
                  /\ t.k = "ref" /\ t.t /\ IsDirty(t) => comp.r

(* What a writeback reads of a page it is of is what the page held when it *)
(* began, whatever was stored since; or the read fails.                    *)
WritebackHolds ==
    \A o \in Objects, i \in Pages : saved[o][i] # NoVal =>
        ReadWritebackOf(State, o, i) \in {saved[o][i], NoVal}

(* What a layer may drop, because it is Clean, is what its pager has.      *)
CleanIsSaved ==
    \A o \in Objects, i \in Pages :
        LET t == list[o].slot[i]
        IN  /\ IsPageOrRef(t) /\ t.d = "Clean" => Bytes(State, t) = base[o][i]
            /\ Pager(o) /\ t.k = "marker" => base[o][i] = 0

(* EnumerateDirtyRanges reports every page that reads as something its     *)
(* pager does not have.                                                    *)
EnumeratedDirty(o) ==
    LET dirty == {i \in Pages : LET t == list[o].slot[i]
                                IN  IsDirty(t) \/ (IsInterval(t) /\ t.s = "dirty")}
    IN  PagesOf(ForEveryContiguousRunInRange(list[o], dirty, 0, Size(o) - 1))

NothingUntracked ==
    \A o \in Objects : tree[o].kind = "layer" /\ ~May("zeroUntracked") =>
        \A i \in Within(o) \ EnumeratedDirty(o) : ReadsAs(State, o, i) = base[o][i]

(* A node holds something, the sentinels of intervals pair up with nothing *)
(* between them, and no two pages of one frame.                            *)
WellFormedList(pl) ==
    /\ \A n \in pl.nodes : \E i \in NodePages(n) : pl.slot[i] # Empty
    /\ \A i \in Pages : pl.slot[i] # Empty => Node(i) \in pl.nodes
    /\ \A i \in Pages : pl.slot[i].k = "start" =>
          \E j \in Pages : /\ j > i /\ pl.slot[j].k = "end" /\ pl.slot[j].s = pl.slot[i].s
                           /\ \A k \in i + 1 .. j - 1 : pl.slot[k] = Empty
    /\ \A i \in Pages : pl.slot[i].k = "end" =>
          \E j \in Pages : /\ j < i /\ pl.slot[j].k = "start"
                           /\ \A k \in j + 1 .. i - 1 : pl.slot[k] = Empty
WellFormed == \A o \in Objects : WellFormedList(list[o]) /\ WellFormedList(held[o])

=============================================================================
