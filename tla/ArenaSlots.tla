---------------------------- MODULE ArenaSlots ----------------------------
(***************************************************************************)
(* Where a pager's pages go in its arena: the space of offsets             *)
(* (internal/slots), of which the lower ones are given out a page or a run *)
(* at a time and the rest in whole extents, and the placement rule, by     *)
(* which the private pages of one range of a memory region lie in one      *)
(* extent, each at the offset it has in the range.  Every call is made     *)
(* under the host's lock, so a call is a step.                             *)
(***************************************************************************)
EXTENDS Integers, Sequences, SequencesExt, FiniteSets, FiniteSetsExt, Functions

CONSTANTS Offsets, Pages,  \* addresses of the arena, and how many may hold a page
          ExtentPages,     \* offsets of an extent: pages of a range
          Word,            \* bits of a word of the bitmap
          ScanSlots,       \* bound of the search for a run
          Regions, Ranges  \* memory regions, and the ranges of each

VARIABLES free,    \* the offsets whose bit is set
          held, hint,
          extents, \* the free extents, last to be given out first
          table,   \* Host.extents: the extent of each range of a region
          counts,  \* extent.held, by the extent's first offset
          leases   \* what each offset holding a page was taken for

vars == <<free, held, hint, extents, table, counts, leases>>

None == -1
Ordinary == Min({((Pages + ExtentPages - 1) \div ExtentPages) * ExtentPages, Offsets})
Bases == {Ordinary + i * ExtentPages : i \in 0 .. ((Offsets - Ordinary) \div ExtentPages) - 1}
Keys == Regions \X (0 .. Ranges - 1)
PageOf(key, i) == key[2] * ExtentPages + i
Arena == [free |-> free, held |-> held, hint |-> hint, extents |-> extents, table |-> table, counts |-> counts, leases |-> leases]
Becomes(a) ==
    /\ free' = a.free /\ held' = a.held /\ hint' = a.hint /\ extents' = a.extents
    /\ table' = a.table /\ counts' = a.counts /\ leases' = a.leases
Loose == [extent |-> None, region |-> None, page |-> None]

----------------------------------------------------------------------------
(* The space.                                                              *)
Free(a) == Pages - a.held
WordOf(a, w) == {s \in a.free : s \div Word = w}
LastWord == (Offsets - 1) \div Word

\* The lowest free ordinary offset, from the word the hint is in.
First(a) ==
    LET words == {w \in a.hint \div Word .. LastWord : WordOf(a, w) # {}}
        slot == Min(WordOf(a, Min(words)))
    IN IF Free(a) = 0 \/ words = {} THEN None ELSE IF slot >= Ordinary THEN None ELSE slot
Hinted(a) == IF First(a) = None THEN a ELSE [a EXCEPT !.hint = First(a)]

\* LongestRun: the scan, an offset at a time; a word of taken offsets is skipped whole.
Scanned(a, want, scan, s) ==
    IF s < scan.next \/ scan.done THEN scan
    ELSE IF s % Word = 0 /\ WordOf(a, s \div Word) = {} THEN [scan EXCEPT !.next = s + Word, !.start = None, !.len = 0]
    ELSE IF s \notin a.free THEN [scan EXCEPT !.start = None, !.len = 0]
    ELSE LET start == IF scan.len = 0 THEN s ELSE scan.start
             len == scan.len + 1
         IN [next |-> s + 1, done |-> len = want, start |-> start, len |-> len,
             best |-> IF len > scan.best[2] THEN <<start, len>> ELSE scan.best]
LongestRun(a, wanted) ==
    LET want == Min({wanted, Free(a)})
        first == First(a)
        none == [next |-> 0, done |-> FALSE, start |-> None, len |-> 0, best |-> <<None, 0>>]
        limit == Min({Ordinary, first + ScanSlots})
    IN IF want < 1 \/ first = None THEN <<None, 0>>
       ELSE FoldLeft(LAMBDA scan, s : Scanned(a, want, scan, s), none, [i \in 1 .. limit - first |-> first + i - 1]).best

Take(a, slot, count) == [a EXCEPT !.free = @ \ (slot .. slot + count - 1), !.held = @ + count]
Put(a, slot) == [a EXCEPT !.free = @ \cup {slot}, !.held = @ - 1, !.hint = Min({@, slot})]

----------------------------------------------------------------------------
(* The host: each page is taken against the resource budget, which may     *)
(* refuse it.                                                              *)
With(a, slots, lease) == [a EXCEPT !.leases = [s \in slots |-> lease] @@ @]
TakeFree(a, slot, count) == With(Take(a, slot, count), slot .. slot + count - 1, Loose)

\* allocateFree: a run the budget refuses is halved.
Halves(n) == {n \div 2, n \div 4, n}
AllocateFree(want) ==
    \E run \in {LongestRun(Arena, want)}, count \in 1 .. want :
        /\ run[2] > 0 /\ count \in Halves(run[2])
        /\ Becomes(TakeFree(Hinted(Arena), run[1], count))

\* allocateFreeFrom, where the run it prefers is free.
AllocateFreeFrom(slot, want) ==
    /\ slot + want <= Offsets /\ want <= Free(Arena) /\ slot .. slot + want - 1 \subseteq free
    /\ Becomes(TakeFree(Arena, slot, want))

\* allocate, for a page with no place of its own.
Allocate ==
    /\ First(Arena) # None
    /\ Becomes(TakeFree(Hinted(Arena), First(Arena), 1))

\* dropExtent.
DropExtent(a, key, base) ==
    IF a.counts[base] # 0 THEN a
    ELSE LET forgotten == IF a.table[key] = base THEN [a EXCEPT !.table[key] = None] ELSE a
         IN [forgotten EXCEPT !.extents = Append(@, base)]

\* place: the page's offset in its range's extent, taken where the budget grants it.
Occupied(a, slot) == slot \in DOMAIN a.leases
SlotIn(a, base, i) == base + i
Place(a, key, i, granted) ==
    LET base == IF a.table[key] # None THEN a.table[key] ELSE IF a.extents = <<>> THEN None ELSE Last(a.extents)
        owned == IF a.table[key] # None THEN a ELSE [a EXCEPT !.table[key] = base, !.extents = Front(@)]
        slot == SlotIn(owned, base, i)
        filled == [owned EXCEPT !.held = @ + 1, !.counts[base] = @ + 1]
    IN IF base = None THEN [arena |-> a, slot |-> None]
       ELSE IF Occupied(owned, slot) \/ Free(owned) = 0 \/ ~granted THEN [arena |-> DropExtent(owned, key, base), slot |-> None]
       ELSE [arena |-> With(filled, {slot}, [extent |-> base, region |-> key, page |-> PageOf(key, i)]), slot |-> slot]
PlacePage(key, i, granted) ==
    \E placed \in {Place(Arena, key, i, granted)} : Becomes(placed.arena)

\* putFree: the page leaves its offset.
PutFree(a, slot) ==
    LET lease == a.leases[slot]
        gone == [a EXCEPT !.leases = Restrict(@, DOMAIN @ \ {slot})]
    IN IF lease.extent = None THEN Put(gone, slot)
       ELSE DropExtent([gone EXCEPT !.held = @ - 1, !.counts[lease.extent] = @ - 1], lease.region, lease.extent)
Releases(slot) == slot \in DOMAIN leases /\ Becomes(PutFree(Arena, slot))

\* placePages: the part of one range from page i to page j, or none of it, and
\* placeRun, from the faulting page's range to the ranges after it and then before it.
Undone(a, base, count) == FoldLeft(LAMBDA b, s : PutFree(b, s), a, [k \in 1 .. count |-> base + k - 1])
PlacePages(a, key, i, j, grants) ==
    LET step(acc, n) ==
            IF acc.failed THEN acc
            ELSE LET placed == Place(acc.arena, key, n, n - i < grants)
                 IN IF placed.slot # None
                    THEN [arena |-> placed.arena, base |-> IF acc.base = None THEN placed.slot ELSE acc.base, failed |-> FALSE]
                    ELSE [arena |-> Undone(placed.arena, acc.base, n - i), base |-> None, failed |-> TRUE]
    IN FoldLeft(step, [arena |-> a, base |-> None, failed |-> FALSE], [k \in 1 .. j - i + 1 |-> i + k - 1])
PlaceRun(r, g, grants) ==
    LET Whole(a, range) == PlacePages(a, <<r, range>>, 0, ExtentPages - 1, grants)
        step(acc, range) == IF acc.failed THEN acc ELSE Whole(acc.arena, range)
        after == FoldLeft(step, Whole(Arena, g), [k \in 1 .. Ranges - 1 - g |-> g + k])
        before == FoldLeft(step, [after EXCEPT !.failed = Whole(Arena, g).failed], [k \in 1 .. g |-> g - k])
    IN Becomes(before.arena)

\* Detach: forgetExtents.  The region's number may then be another's.
Detach(r) ==
    LET mine == {key \in Keys : key[1] = r /\ table[key] # None}
        empty == {table[key] : key \in {k \in mine : counts[table[k]] = 0}}
    IN /\ mine # {}
       /\ Becomes([Arena EXCEPT !.table = [key \in Keys |-> IF key \in mine THEN None ELSE table[key]],
                                !.extents = @ \o SetToSortSeq(empty, <)])

Init ==
    /\ free = 0 .. Pages - 1 /\ held = 0 /\ hint = 0
    /\ extents = Reverse(SetToSortSeq(Bases, <))
    /\ table = [key \in Keys |-> None] /\ counts = [b \in Bases |-> 0] /\ leases = <<>>
Next ==
    \/ \E want \in 1 .. Pages : AllocateFree(want)
    \/ \E slot \in 0 .. Offsets - 1, want \in 1 .. 2 : AllocateFreeFrom(slot, want)
    \/ Allocate
    \/ \E key \in Keys, i \in 0 .. ExtentPages - 1, granted \in BOOLEAN : PlacePage(key, i, granted)
    \/ \E r \in Regions, g \in 0 .. Ranges - 1, grants \in 0 .. ExtentPages : PlaceRun(r, g, grants)
    \/ \E slot \in 0 .. Offsets - 1 : Releases(slot)
    \/ \E r \in Regions : Detach(r)
Spec == Init /\ [][Next]_vars

----------------------------------------------------------------------------
(* The budget of pages (Space.Free, freeLocked): the pages counted as held are exactly   *)
(* the offsets that hold one, they are never more than the arena's pages, and an         *)
(* extent's count is the pages in it, so one is never given back under a page.           *)
TypeOK ==
    /\ free \subseteq 0 .. Pages - 1 /\ hint \in 0 .. Pages
    /\ held = Cardinality(DOMAIN leases) /\ held <= Pages
    /\ \A b \in Bases : counts[b] = Cardinality({s \in DOMAIN leases : leases[s].extent = b})

(* Every extent is given out once and comes back once (TakeExtent, PutExtent): it is     *)
(* free, or it holds a page, and a range's extent is one it alone has - through pages    *)
(* that outlive their region, runs placed halfway and refusals of the budget.            *)
ExtentsGivenOnce ==
    /\ \A b \in Bases : Cardinality({i \in DOMAIN extents : extents[i] = b}) = (IF counts[b] = 0 THEN 1 ELSE 0)
    /\ \A k, l \in Keys : table[k] # None => counts[table[k]] > 0 /\ (table[l] = table[k] => k = l)

(* "A private page lives at its own offset" (placement.go): two private pages of a range *)
(* are as far apart in the arena as in the range, whatever order they were placed in,    *)
(* and no page of another range lies between them.                                       *)
PrivatePagesAdjacent ==
    \A s \in DOMAIN leases : leases[s].extent # None =>
        /\ s - leases[s].extent = leases[s].page % ExtentPages
        /\ \A t \in DOMAIN leases : leases[t].extent = leases[s].extent => leases[t].region = leases[s].region

(* The search finds what a search of everything would (First, LongestRun): the hint      *)
(* skips no free offset, and a run is free, as long as any that the bounded scan covers  *)
(* up to what was asked for, and the first of those.                                     *)
SearchFindsLongest ==
    LET runs(want, from) == {<<s, n>> \in (from .. Pages - 1) \X (1 .. want) :
                               s + n <= from + ScanSlots /\ s .. s + n - 1 \subseteq free}
    IN /\ \A s \in free : s >= hint
       /\ free # {} /\ held < Pages => First(Arena) = Min(free)
       /\ \A wanted \in 1 .. Pages : free # {} /\ held < Pages =>
             LET want == Min({wanted, Pages - held})
                 length == Max({r[2] : r \in runs(want, Min(free))})
             IN LongestRun(Arena, wanted) = <<Min({r[1] : r \in {q \in runs(want, Min(free)) : q[2] = length}}), length>>
============================================================================
