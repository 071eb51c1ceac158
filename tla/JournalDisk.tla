---------------------------- MODULE JournalDisk -----------------------------
(***************************************************************************)
(* One journal disk as journal/ keeps it: two header slots and a ring of   *)
(* entries, the one writer that lays commits out on the ring in batches,   *)
(* the reads that fence a VM, and the read back that finds the head after  *)
(* a crash, a torn batch or a torn header.                                 *)
(*                                                                         *)
(* A unit is the smallest entry (minEntryBytes) and the ring is counted in *)
(* units. A commit makes at most one entry. What an entry holds is told by *)
(* the commit it is of. The disk is attached to one machine at a time, so  *)
(* one journal is open on it at a time; a crash stands for the loss of its *)
(* host and for its detach.                                                *)
(***************************************************************************)
EXTENDS Integers, Sequences, FiniteSets, SequencesExt, FiniteSetsExt, TLC

CONSTANTS
    Commits,        \* calls of Commit
    VmOf, EpochOf,  \* the VM a commit is of and its epoch
    RoomOf,         \* the units it asks for
    VMs, Epochs,
    RingLength, BlockUnits, MaxBatchUnits,
    Leases,         \* the assignments the disk is opened under
    Bounds,         \* what a run's behaviours are given: see bound
    NoJournal, NoSlot, NoBatch, Blank, Pad,
    a, b, c1, c2, c3, c4    \* the VMs and the commits of the instances below

ASSUME RingAssumption ==
    /\ RingLength % BlockUnits = 0 /\ BlockUnits > 0
    /\ VmOf \in [Commits -> VMs] /\ EpochOf \in [Commits -> Epochs] /\ RoomOf \in [Commits -> Nat \ {0}]

VARIABLES
    slots,      \* the two header slots on the disk
    ring,       \* the units of the ring on the disk
    j,          \* the open journal, or NoJournal
    status,     \* what became of each commit
    reads,      \* the read of each VM under way, or its outcome
    promised,   \* the commits answered with an entry that no trim has let go
    leased,     \* the newest lease the disk was opened under
    floor,      \* the least epoch each VM may still run at where it commits
    bound       \* the opens and faults left, the commits made, the VMs read and what else happens

vars == <<slots, ring, j, status, reads, promised, leased, floor, bound>>

Allows(what) == what \in bound.allows

-----------------------------------------------------------------------------
(* The ring.                                                               *)

EntryAt(position, length, id, generation) ==
    [position |-> position, length |-> length, id |-> id, generation |-> generation]

Offset(position) == position % RingLength
RoomAt(position) == RingLength - Offset(position)
Span(entry) == entry.position .. entry.position + entry.length - 1

\* The ring once the units of image at the positions landed are written.
Overwritten(image, landed) ==
    [o \in 0..RingLength - 1 |->
        IF \E e \in image : \E p \in Span(e) \cap landed : Offset(p) = o
        THEN CHOOSE e \in image : \E p \in Span(e) \cap landed : Offset(p) = o
        ELSE ring[o]]

\* decodeHead and checkEntry: a whole entry of this generation at its position.
Whole(position, generation) ==
    LET e == ring[Offset(position)]
    IN  /\ e # Blank
        /\ e.position = position /\ e.generation = generation
        /\ e.length <= RoomAt(position)
        /\ \A p \in Span(e) : ring[Offset(p)] = e

\* readBack: the entries from the tail hint to the first that is not whole.
ReadBack(tail, generation) ==
    LET from[p \in tail..tail + 2 * RingLength] ==
            IF p - tail < RingLength /\ Whole(p, generation)
            THEN LET e == ring[Offset(p)]
                     rest == from[p + e.length]
                 IN  [rest EXCEPT !.entries = @ \cup (IF e.id = Pad THEN {} ELSE {e})]
            ELSE [entries |-> {}, head |-> p]
    IN  from[tail]

\* liveTail
LiveTail(live, written) == IF live = {} THEN written ELSE Min({e.position : e \in live})

-----------------------------------------------------------------------------
(* The header.                                                             *)

Slot(counter, generation, tail, lease, empty) ==
    [counter |-> counter, generation |-> generation, tail |-> tail, lease |-> lease, empty |-> empty]

\* readHeader: the slot that wins.
Winner ==
    IF slots[2] # NoSlot /\ (slots[1] = NoSlot \/ slots[2].counter > slots[1].counter) THEN 2 ELSE 1

HasHeader == slots[Winner] # NoSlot

\* writeSlot writes the slot that does not hold the current header.
OtherSlot(current) == 3 - current

\* What a header write that failed may leave in its slot: what was there, the
\* header, or a torn slot.
Torn(at, s) == {slots, [slots EXCEPT ![at] = s], [slots EXCEPT ![at] = NoSlot]}

-----------------------------------------------------------------------------
(* Opening.                                                                *)

\* A disk with no header is formatted: positions start at the ring's length.
Found(generation) ==
    IF HasHeader THEN slots[Winner] ELSE Slot(0, generation, RingLength, 0, FALSE)
FoundAt == IF HasHeader THEN Winner ELSE 2

LeaseAdmits(found, lease) == found.lease <= lease

\* The header an open writes, before it reads anything back.
Taken(found, lease) == Slot(found.counter + 1, found.generation, found.tail, lease, FALSE)

\* A VM's first epoch is read, by a reader at its second.
ReadEpoch == Min(Epochs)
ReaderEpoch == Max(Epochs)

NoRead == [phase |-> "none", behind |-> FALSE, wanted |-> {}, got |-> {}]

Reading(vm) == reads[vm].phase \in {"waiting", "reading"}

\* The reads under way end with the journal they read.
ReadsCut == [vm \in VMs |-> IF Reading(vm) THEN [NoRead EXCEPT !.phase = "failed"] ELSE reads[vm]]

Open(lease) ==
    /\ j = NoJournal /\ bound.opens > 0
    /\ bound' = [bound EXCEPT !.opens = @ - 1]
    /\ LET found == Found(bound.opens)
           taken == Taken(found, lease)
           back == ReadBack(found.tail, found.generation)
       IN  /\ LeaseAdmits(found, lease)
           /\ slots' = [slots EXCEPT ![OtherSlot(FoundAt)] = taken]
           /\ j' = [header |-> taken, current |-> OtherSlot(FoundAt), lease |-> lease,
                    generation |-> found.generation, live |-> back.entries,
                    tail |-> LiveTail(back.entries, back.head), written |-> back.head, next |-> back.head,
                    fences |-> [vm \in VMs |-> 0], queue |-> <<>>, batch |-> NoBatch, closed |-> FALSE]
    /\ leased' = Max({leased, lease})
    /\ UNCHANGED <<ring, status, reads, promised, floor>>

\* Open whose header write fails opens nothing.
OpenFails(lease) ==
    /\ j = NoJournal /\ bound.opens > 0 /\ bound.faults > 0
    /\ bound' = [bound EXCEPT !.opens = @ - 1, !.faults = @ - 1]
    /\ LET found == Found(bound.opens)
       IN  LeaseAdmits(found, lease) /\ slots' \in Torn(OtherSlot(FoundAt), Taken(found, lease))
    /\ UNCHANGED <<ring, j, status, reads, promised, leased, floor>>

-----------------------------------------------------------------------------
(* Commits.                                                                *)

\* Mutant: no room is kept for the pads.
ReserveNoPad(room, largest) == room

\* reserve: the commits, a pad at the ring's end shorter than the largest entry
\* and a pad's head, and a pad to the next boundary.
Reserve(room, largest) == room + largest + BlockUnits + 2

Commit(c) ==
    /\ j # NoJournal /\ ~j.closed /\ status[c] = "new" /\ c \in bound.commits
    /\ EpochOf[c] >= floor[VmOf[c]]
    /\ Reserve(RoomOf[c], RoomOf[c]) <= RingLength
    /\ status' = [status EXCEPT ![c] = "queued"]
    /\ j' = [j EXCEPT !.queue = Append(@, c)]
    /\ UNCHANGED <<slots, ring, reads, promised, leased, floor, bound>>

\* The caller gives up a commit no batch has taken.
GiveUp(c) ==
    /\ j # NoJournal /\ status[c] = "queued" /\ Allows("giving up")
    /\ status' = [status EXCEPT ![c] = "failed"]
    /\ j' = [j EXCEPT !.queue = SelectSeq(@, LAMBDA d : d # c)]
    /\ UNCHANGED <<slots, ring, reads, promised, leased, floor, bound>>

TotalRoom(n) ==
    LET total[i \in 0..n] == IF i = 0 THEN 0 ELSE total[i - 1] + RoomOf[j.queue[i]]
    IN  total[n]
LargestRoom(n) == Max({RoomOf[j.queue[i]] : i \in 1..n})

\* The first n commits fit in one batch, and on the ring before the durable tail.
Fits(n) ==
    /\ n = 1 \/ TotalRoom(n) <= MaxBatchUnits
    /\ j.next + Reserve(TotalRoom(n), LargestRoom(n)) <= j.header.tail + RingLength

Fitting == Max({0} \cup {n \in 1..Len(j.queue) : \A m \in 1..n : Fits(m)})

Filled(from, to) == IF from < to THEN {EntryAt(from, to - from, Pad, j.generation)} ELSE {}

\* Mutant: a batch leaves the failed range before it as it is.
OverFailedRangeNone == {}

\* The pads over a failed batch: one, or two where it crosses the ring's end.
OverFailedRange ==
    LET end == Min({j.next, j.written + RoomAt(j.written)})
    IN  Filled(j.written, end) \cup Filled(end, j.next)

\* An entry never wraps, and leaves no end of the ring too short for a pad: a
\* pad fills the ring's end.
StartAt(p, length) ==
    IF length # RoomAt(p) /\ length + 1 > RoomAt(p) THEN p + RoomAt(p) ELSE p

\* Where the batch has got to after each of its entries.
Ends(entries) ==
    LET end[i \in 0..Len(entries)] ==
            IF i = 0 THEN j.next
            ELSE StartAt(end[i - 1], RoomOf[entries[i]]) + RoomOf[entries[i]]
    IN  end

Fenced(c) == EpochOf[c] < j.fences[VmOf[c]]

\* place: entries are the commits of the batch whose capture made an entry and
\* that no read has fenced. A pad ends the batch at a block's boundary.
Placement(entries) ==
    LET end == Ends(entries)
        start == [i \in DOMAIN entries |-> StartAt(end[i - 1], RoomOf[entries[i]])]
        last == end[Len(entries)]
        image == OverFailedRange \cup UNION {
            Filled(end[i - 1], start[i]) \cup {EntryAt(start[i], RoomOf[entries[i]], entries[i], j.generation)} :
                i \in DOMAIN entries}
        boundary == last + ((BlockUnits - (last % BlockUnits)) % BlockUnits)
    IN  IF image = {} THEN [image |-> {}, end |-> last]
        ELSE [image |-> image \cup Filled(last, boundary), end |-> boundary]

\* Mutant: a batch is only formed of commits.
PadAloneNever == FALSE

\* A failed range is given back only by a batch's pad.
PadAlone == j.queue # <<>> /\ j.written < j.next

\* What a capture may come to.
Captures == {"entry"} \cup (IF Allows("no entry") THEN {"none", "fails"} ELSE {})

\* nextBatch and the first half of commitBatch: each capture makes an entry,
\* makes none, or fails.
PlaceBatch ==
    /\ j # NoJournal /\ ~j.closed /\ j.batch = NoBatch
    /\ Fitting > 0 \/ PadAlone
    /\ \E taken \in {SubSeq(j.queue, 1, Fitting)} :
           \E outcome \in [ToSet(taken) -> Captures] :
              LET refused == {c \in ToSet(taken) : outcome[c] = "fails" \/ (outcome[c] = "entry" /\ Fenced(c))}
                  entries == SelectSeq(taken, LAMBDA c : outcome[c] = "entry" /\ ~Fenced(c))
              IN  \E laid \in {Placement(entries)} :
                  /\ j' = [j EXCEPT !.queue = SubSeq(@, Len(taken) + 1, Len(@)), !.next = laid.end,
                                    !.batch = [commits |-> ToSet(taken) \ refused, image |-> laid.image,
                                               end |-> laid.end]]
                  /\ status' = [c \in Commits |->
                        IF c \in refused THEN "failed" ELSE IF c \in ToSet(taken) THEN "placed" ELSE status[c]]
    /\ UNCHANGED <<slots, ring, reads, promised, leased, floor, bound>>

Entries(image) == {e \in image : e.id # Pad}
Ids(entries) == {e.id : e \in entries}
Positions(image) == UNION {Span(e) : e \in image}

Caught == [vm \in VMs |-> [reads[vm] EXCEPT !.behind = FALSE]]

\* write, sync and complete.
BatchLands ==
    /\ j # NoJournal /\ j.batch # NoBatch
    /\ LET batch == j.batch
           live == j.live \cup Entries(batch.image)
           written == IF batch.image = {} THEN j.written ELSE batch.end
       IN  /\ ring' = Overwritten(batch.image, Positions(batch.image))
           /\ j' = [j EXCEPT !.batch = NoBatch, !.written = written, !.live = live,
                             !.tail = LiveTail(live, written)]
           /\ status' = [c \in Commits |-> IF c \in batch.commits THEN "answered" ELSE status[c]]
           /\ promised' = promised \cup Ids(Entries(batch.image))
    /\ reads' = Caught
    /\ UNCHANGED <<slots, leased, floor, bound>>

\* A batch whose write or sync failed may have reached the disk in any part.
BatchFails ==
    /\ j # NoJournal /\ j.batch # NoBatch /\ j.batch.image # {} /\ bound.faults > 0
    /\ bound' = [bound EXCEPT !.faults = @ - 1]
    /\ \E landed \in SUBSET Positions(j.batch.image) : ring' = Overwritten(j.batch.image, landed)
    /\ j' = [j EXCEPT !.batch = NoBatch]
    /\ status' = [c \in Commits |-> IF c \in j.batch.commits THEN "failed" ELSE status[c]]
    /\ reads' = Caught
    /\ UNCHANGED <<slots, promised, leased, floor>>

-----------------------------------------------------------------------------
(* The tail hint, trims and the close.                                     *)

\* writeHeader, from nextBatch: the tail moved and a second has passed.
WriteTailHint ==
    /\ j # NoJournal /\ ~j.closed /\ j.batch = NoBatch /\ j.tail # j.header.tail
    /\ LET s == Slot(j.header.counter + 1, j.generation, j.tail, j.lease, FALSE)
           at == OtherSlot(j.current)
       IN  \/ /\ slots' = [slots EXCEPT ![at] = s]
              /\ j' = [j EXCEPT !.header = s, !.current = at]
              /\ UNCHANGED bound
           \/ /\ bound.faults > 0 /\ bound' = [bound EXCEPT !.faults = @ - 1]
              /\ slots' \in Torn(at, s)
              /\ UNCHANGED j
    /\ UNCHANGED <<ring, status, reads, promised, leased, floor>>

\* Trim: covered gives the covered position of every epoch the record names.
Trim(vm, covered) ==
    /\ j # NoJournal
    /\ LET dead == {e \in j.live : /\ VmOf[e.id] = vm
                                   /\ EpochOf[e.id] \notin DOMAIN covered \/ e.position <= covered[EpochOf[e.id]]}
           live == j.live \ dead
       IN  /\ dead # {}
           /\ j' = [j EXCEPT !.live = live, !.tail = LiveTail(live, j.written)]
           /\ promised' = promised \ Ids(dead)
    /\ UNCHANGED <<slots, ring, status, reads, leased, floor, bound>>

\* Close refuses what is queued, and waits for the batch in flight.
Close ==
    /\ j # NoJournal /\ ~j.closed /\ Allows("close")
    /\ j' = [j EXCEPT !.closed = TRUE, !.queue = <<>>]
    /\ status' = [c \in Commits |-> IF status[c] = "queued" THEN "failed" ELSE status[c]]
    /\ UNCHANGED <<slots, ring, reads, promised, leased, floor, bound>>

\* The close writes the tail, and whether any entry is live.
CloseHeader ==
    /\ j # NoJournal /\ j.closed /\ j.batch = NoBatch
    /\ LET s == Slot(j.header.counter + 1, j.generation, j.tail, j.lease, j.live = {})
           at == OtherSlot(j.current)
       IN  \/ slots' = [slots EXCEPT ![at] = s] /\ UNCHANGED bound
           \/ /\ bound.faults > 0 /\ bound' = [bound EXCEPT !.faults = @ - 1]
              /\ slots' \in Torn(at, s)
    /\ j' = NoJournal
    /\ reads' = ReadsCut
    /\ floor' = [vm \in VMs |-> IF Reading(vm) THEN ReaderEpoch ELSE floor[vm]]
    /\ UNCHANGED <<ring, status, promised, leased>>

\* The holder is lost: its memory goes, and any part of the batch in flight may
\* have reached the disk.
Crash ==
    /\ j # NoJournal /\ bound.faults > 0
    /\ bound' = [bound EXCEPT !.faults = @ - 1]
    /\ IF j.batch = NoBatch THEN UNCHANGED ring
       ELSE \E landed \in SUBSET Positions(j.batch.image) : ring' = Overwritten(j.batch.image, landed)
    /\ j' = NoJournal
    /\ status' = [c \in Commits |-> IF status[c] \in {"queued", "placed"} THEN "failed" ELSE status[c]]
    /\ reads' = ReadsCut
    /\ floor' = [vm \in VMs |-> ReaderEpoch]
    /\ UNCHANGED <<slots, promised, leased>>

-----------------------------------------------------------------------------
(* ReadJournal. The host gives the VM up as the read ends, however it ends. *)

ReadFence(vm) ==
    /\ j # NoJournal /\ ~j.closed /\ reads[vm].phase \in {"none", "failed"} /\ vm \in bound.readers
    /\ j' = [j EXCEPT !.fences[vm] = Max({@, ReaderEpoch})]
    /\ reads' = [reads EXCEPT ![vm] = [NoRead EXCEPT !.phase = "waiting", !.behind = j.batch # NoBatch]]
    /\ UNCHANGED <<slots, ring, status, promised, leased, floor, bound>>

\* The batch placed before the fence has not completed.
PlacedBefore(vm) == reads[vm].behind

ReadCollect(vm) ==
    /\ j # NoJournal /\ reads[vm].phase = "waiting" /\ ~PlacedBefore(vm)
    /\ reads' = [reads EXCEPT ![vm].phase = "reading",
            ![vm].wanted = {e \in j.live : VmOf[e.id] = vm /\ EpochOf[e.id] = ReadEpoch}]
    /\ UNCHANGED <<slots, ring, j, status, promised, leased, floor, bound>>

\* Mutant: what is at the offset is taken for the entry.
StillThereAny(e) == ring[Offset(e.position)] # Blank /\ ring[Offset(e.position)].id # Pad

\* decodeEntry, and the position and generation it was indexed at.
StillThere(e) == Whole(e.position, j.generation) /\ ring[Offset(e.position)].id # Pad

\* The entries in position order; one overwritten since ends the read.
ReadEntry(vm) ==
    /\ j # NoJournal /\ reads[vm].phase = "reading" /\ reads[vm].wanted # {}
    /\ LET e == CHOOSE e \in reads[vm].wanted : \A f \in reads[vm].wanted : e.position <= f.position
       IN  \/ /\ StillThere(e)
              /\ reads' = [reads EXCEPT ![vm].wanted = @ \ {e}, ![vm].got = @ \cup {<<e, ring[Offset(e.position)].id>>}]
              /\ UNCHANGED floor
           \/ /\ ~StillThere(e)
              /\ reads' = [reads EXCEPT ![vm] = [NoRead EXCEPT !.phase = "failed"]]
              /\ floor' = [floor EXCEPT ![vm] = ReaderEpoch]
    /\ UNCHANGED <<slots, ring, j, status, promised, leased, bound>>

ReadDone(vm) ==
    /\ j # NoJournal /\ reads[vm].phase = "reading" /\ reads[vm].wanted = {}
    /\ reads' = [reads EXCEPT ![vm].phase = "done"]
    /\ floor' = [floor EXCEPT ![vm] = ReaderEpoch]
    /\ UNCHANGED <<slots, ring, j, status, promised, leased, bound>>

-----------------------------------------------------------------------------

Init ==
    /\ slots = [i \in 1..2 |-> NoSlot]
    /\ ring = [o \in 0..RingLength - 1 |-> Blank]
    /\ j = NoJournal
    /\ status = [c \in Commits |-> "new"]
    /\ reads = [vm \in VMs |-> NoRead]
    /\ promised = {} /\ leased = 0 /\ floor = [vm \in VMs |-> 0]
    /\ bound \in Bounds

\* The positions a record may name: none, or an entry's.
Coverable(vm) == {0} \cup {e.position : e \in {e \in j.live : VmOf[e.id] = vm}}
Trims ==
    /\ j # NoJournal
    /\ \E vm \in VMs, named \in SUBSET Epochs :
          \E covered \in [named -> Coverable(vm)] : Trim(vm, covered)

Next ==
    \/ \E lease \in Leases : Open(lease) \/ OpenFails(lease)
    \/ \E c \in Commits : Commit(c) \/ GiveUp(c)
    \/ PlaceBatch \/ BatchLands \/ BatchFails \/ WriteTailHint
    \/ Trims \/ Close \/ CloseHeader \/ Crash
    \/ \E vm \in VMs : ReadFence(vm) \/ ReadCollect(vm) \/ ReadEntry(vm) \/ ReadDone(vm)

Spec == Init /\ [][Next]_vars

-----------------------------------------------------------------------------
(* Properties.                                                             *)

\* Everything keeps its shape: positions only within two laps of the tail, and
\* at most one batch between written and next.
TypeOK ==
    /\ promised \subseteq Commits /\ leased \in Leases \cup {0}
    /\ status \in [Commits -> {"new", "queued", "placed", "answered", "failed"}]
    /\ \A vm \in VMs : reads[vm].phase \in {"none", "waiting", "reading", "done", "failed"}
    /\ j # NoJournal =>
          /\ j.tail <= j.written /\ j.written <= j.next
          /\ ToSet(j.queue) = {c \in Commits : status[c] = "queued"}

\* An answered commit is on the disk until a trim lets it go: whatever batches
\* and header writes failed, tore or were cut by a crash, the journal opened on
\* the disk holds its entry, whole, where it was placed.
AnsweredIsKept ==
    j # NoJournal =>
        \A c \in promised : \E e \in j.live : e.id = c /\ Whole(e.position, j.generation)

\* The ring never laps the tail hint on the disk: the room fitting reserves is
\* enough for a batch's entries and for every pad place adds.
NeverLapped == j # NoJournal => j.next <= j.header.tail + RingLength

\* A header that says the journal is empty is of a disk with no answered entry
\* left, so its deletion loses nothing.
EmptyIsEmpty == HasHeader /\ slots[Winner].empty => promised = {}

\* Once a journal opened under a lease, none opens under an older one, however
\* the header writes since ended.
LeaseNeverGoesBack == j # NoJournal => j.lease = leased

\* A read that fenced a VM hands over every answered entry of the epoch it reads
\* that no trim let go, and none is answered behind its back.
ReadSeesAnswered ==
    \A vm \in VMs : reads[vm].phase \in {"reading", "done"} =>
        {c \in promised : VmOf[c] = vm /\ EpochOf[c] = ReadEpoch}
            \subseteq Ids(reads[vm].wanted) \cup {g[2] : g \in reads[vm].got}

\* A read never takes other bytes for an entry trimmed and written over while
\* it was read.
ReadIsExact == \A vm \in VMs : \A g \in reads[vm].got : g[1].id = g[2]

\* The writer's own steps, the header write that succeeds, the close, and the
\* trims that checkpoints bring: a full ring asks for them (Hooks.Full).
Fairness ==
    /\ WF_vars(PlaceBatch) /\ WF_vars(BatchLands) /\ WF_vars(WriteTailHint)
    /\ WF_vars(CloseHeader) /\ WF_vars(\E vm \in VMs : Trim(vm, <<>>))

FairSpec == Spec /\ Fairness

\* Every commit is answered or fails: neither a full ring nor a failed range
\* holds one forever.
CommitsEnd == \A c \in Commits : status[c] \in {"queued", "placed"} ~> status[c] \notin {"queued", "placed"}

\* What a header says is true, and a read hands over what was answered and nothing
\* else: the disk of a journal said to be empty holds no answered entry, no lease
\* goes back, and a read that fenced a VM has every answered entry, exactly.
HandedOverExactly ==
    TypeOK /\ EmptyIsEmpty /\ LeaseNeverGoesBack /\ ReadSeesAnswered /\ ReadIsExact
-----------------------------------------------------------------------------
(* Small instances.                                                        *)

FourVms == [c \in Commits |-> (c1 :> a @@ c2 :> b @@ c3 :> b @@ c4 :> a)[c]]
FourEpochs == [c \in Commits |-> (c1 :> 1 @@ c2 :> 1 @@ c3 :> 1 @@ c4 :> 2)[c]]
FourRooms == [c \in Commits |-> (c1 :> 2 @@ c2 :> 3 @@ c3 :> 3 @@ c4 :> 4)[c]]

Bound(opens, faults, commits, readers, allows) ==
    [opens |-> opens, faults |-> faults, commits |-> commits, readers |-> readers, allows |-> allows]

\* The ring going round through failed batches, torn headers and a crash; every
\* pair of faults over three opens; reads beside the writer; a read a close or a
\* crash cuts, made again; commits that make no entry or are given up, and closes.
Scenarios ==
    {Bound(2, 1, {c1, c2, c3, c4}, {}, {}),
     Bound(2, 2, {c1, c2}, {}, {}),
     Bound(3, 2, {c1}, {}, {"close"}),
     Bound(1, 0, {c1, c2, c3, c4}, {a}, {}),
     Bound(2, 1, {c1}, {a}, {"close"}),
     Bound(2, 1, {c1, c2}, {}, {"no entry", "giving up", "close"})}
=============================================================================
