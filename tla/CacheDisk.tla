------------------------------ MODULE CacheDisk ------------------------------
(***************************************************************************)
(* The page cache's disk (checkpoint/disk.go, diskrestart.go): a log of    *)
(* regions of Cells items.  One region is open; a full one is closed with  *)
(* a table at its end; the oldest closed one is evicted, what was read in  *)
(* it written again first.  Reads hold the region they read.  A write is   *)
(* volatile until a sync: kept is what a loss of power may leave at each   *)
(* place.  A shard is a device the members of the cluster open one after   *)
(* the other, each under a lease; the one before may still be writing it.  *)
(* An item stands for one stripe of an envelope, all of one length.        *)
(***************************************************************************)
EXTENDS Integers, Sequences, FiniteSets, SequencesExt

CONSTANTS Keys,       \* the stripes' keys
          NoKey,      \* no key
          CellsOf,    \* the items a region holds, by kind
          Slots,      \* the slots of the file
          Shares,     \* the shares the limiter may set, in regions
          IndexItems, \* the items the index may name
          MaxOpens,   \* bound on the regions ever opened, by kind
          MaxStops,   \* bound on the stops of a host, by kind
          Kinds       \* the disks explored: "cache", "own", "shard", "device"

Members == 1..2
None == -1

VARIABLES kind,     \* a host's own file, without its stops or with them, a shard, a device
          stops,    \* the stops so far
          share,    \* the regions the limiter gives the disk
          cell,     \* the item at each cell, as a read sees it
          cellKept, \* the items a loss of power may leave there
          tab,      \* the table at the end of each region
          tabKept,  \* the tables a loss of power may leave there
          hdr,      \* the file's header
          lease,    \* the shard's lease
          mem,      \* each member's cacheDisk
          wr,       \* the log's one writer, in each member
          rd        \* a read in flight, in each member

diskVars == <<cell, cellKept, tab, tabKept, hdr, lease>>
vars == <<kind, stops, share, diskVars, mem, wr, rd>>

Cells == CellsOf[kind]
Leased == kind \in {"shard", "device"}
\* In "cache" the reads and the writes interleave, in "shard" two members do;
\* a loss of power, and the faults only a restart sees, are in the others.
Powered == kind \in {"own", "device"}
Also(kept, new) == IF Powered /\ stops < MaxStops[kind] THEN kept \cup new ELSE new
Turns(m) == kind = "cache" \/ (wr[m].at = "idle" /\ rd[m].at = "idle")
Ours == "ours"
Blank == [key |-> NoKey, of |-> "none", intact |-> FALSE]
Item(k) == [key |-> k, of |-> Ours, intact |-> TRUE]
Short(k) == [key |-> k, of |-> Ours, intact |-> FALSE]
NoTable == [is |-> "none", gen |-> 0, seq |-> 0, items |-> {}]
TornTable == [NoTable EXCEPT !.is = "torn"]
NoHeader == [gen |-> 0, of |-> "none"]
NoLease == [gen |-> 0, asg |-> 0, slots |-> 0]

Down == [up |-> FALSE, gen |-> 0, open |-> None, written |-> 0, items |-> {}, closed |-> <<>>, gone |-> {},
         free |-> {}, next |-> 0, seq |-> 0, seqs |-> [s \in Slots |-> 0], index |-> {}, stopped |-> FALSE,
         fenced |-> FALSE, leased |-> 0, back |-> {}]
NoWrite == [at |-> "idle", kind |-> "fill", key |-> NoKey, slot |-> None, vic |-> None, rest |-> <<>>, again |-> 0,
            used |-> FALSE, ret |-> "room"]
\* Back to what asked for the region to be closed, or given back.
Returns(w) == IF w.ret = "idle" THEN NoWrite ELSE [w EXCEPT !.at = w.ret, !.slot = None, !.vic = None]
NoRead == [at |-> "idle", key |-> NoKey, slot |-> None, cell |-> 0, seq |-> 0, got |-> Blank]

\* The regions a disk holds: open, closed, evicted and not given back, and
\* the one being opened.
Held(m) == Len(mem[m].closed) + Cardinality(mem[m].gone) + (IF mem[m].open = None THEN 0 ELSE 1)
           + (IF wr[m].at \in {"lease", "raise", "clear"} THEN 1 ELSE 0)
EntriesIn(m, s) == {e \in mem[m].index : e.slot = s}
Named(m, k) == {e \in mem[m].index : e.key = k}

\* The places of the disk after a write, and what a loss of power may leave.
Writes(s, c, v) == /\ cell' = [cell EXCEPT ![s][c] = v]
                   /\ cellKept' = [cellKept EXCEPT ![s][c] = Also(@, {v})]
Tables(s, t) == /\ tab' = [tab EXCEPT ![s] = t]
                /\ tabKept' = [tabKept EXCEPT ![s] = Also(@, IF Powered /\ t.is = "table" THEN {t, TornTable} ELSE {t})]
Synced == /\ cellKept' = [s \in Slots |-> [c \in 1..Cells |-> {cell[s][c]}]]
          /\ tabKept' = [s \in Slots |-> {tab[s]}]
BlankCells == [c \in 1..Cells |-> Blank]
\* PunchHole: the region reads as zeroes, as volatile as a write.
Punched(S) == /\ cell' = [s \in Slots |-> IF s \in S THEN BlankCells ELSE cell[s]]
              /\ cellKept' = [s \in Slots |-> [c \in 1..Cells |-> IF s \in S THEN Also(cellKept[s][c], {Blank}) ELSE cellKept[s][c]]]
              /\ tab' = [s \in Slots |-> IF s \in S THEN NoTable ELSE tab[s]]
              /\ tabKept' = [s \in Slots |-> IF s \in S THEN Also(tabKept[s], {NoTable}) ELSE tabKept[s]]
NotPunched == UNCHANGED <<cell, cellKept, tab, tabKept>>
\* A device's blocks are not given back.
Punches(S) == \/ ~Leased /\ Punched(S)
              \/ kind # "cache" /\ NotPunched

----------------------------------------------------------------------------
(* Fills.                                                                  *)

\* writeStripes: the writer taken for a stripe the index does not hold.
FillStarts(m, k) ==
    /\ mem[m].up /\ ~mem[m].stopped /\ wr[m].at = "idle" /\ Turns(m)
    /\ Named(m, k) = {}
    /\ Cardinality(mem[m].index) < IndexItems
    /\ wr' = [wr EXCEPT ![m] = [NoWrite EXCEPT !.at = "room", !.key = k]]
    /\ UNCHANGED <<kind, stops, share, diskVars, mem, rd>>

\* mayOpen: the share's last region is a second chance's alone.
MayOpen(m) == Held(m) < (IF wr[m].kind = "second" THEN share ELSE share - 1)

\* Where an append that stored nothing goes on: a second chance ends, a fill
\* is refused.
Refused(w) == IF w.kind = "second" THEN [w EXCEPT !.at = "drop", !.kind = "fill", !.slot = None, !.used = FALSE]
              ELSE NoWrite

\* checkLease: the lease names the assignment the shard was opened under.
HoldsLease(m) == \/ ~Leased
                 \/ ~mem[m].fenced /\ lease.gen = mem[m].gen /\ lease.asg = m
Fence(m) == [mem[m] EXCEPT !.fenced = TRUE, !.stopped = TRUE]

\* close: no longer open, its items synced, its table written, synced again.
Closed(d) == [d EXCEPT !.open = None, !.written = 0, !.closed = Append(@, d.open)]
Untabled(d) == [d EXCEPT !.items = {}]
Unsynced == UNCHANGED <<cellKept, tabKept>>
ItemsSynced(m) == Synced
CloseSyncs(m) ==
    /\ wr[m].at = "sync"
    /\ \/ /\ HoldsLease(m) /\ ItemsSynced(m)
          /\ mem' = [mem EXCEPT ![m] = Closed(@)] /\ wr' = [wr EXCEPT ![m].at = "table", ![m].slot = mem[m].open]
       \/ /\ HoldsLease(m) /\ Powered /\ Unsynced
          /\ mem' = [mem EXCEPT ![m] = Untabled(Closed(@))] /\ wr' = [wr EXCEPT ![m] = Returns(@)]
       \/ /\ ~HoldsLease(m) /\ Unsynced
          /\ mem' = [mem EXCEPT ![m] = Untabled(Closed(Fence(m)))] /\ wr' = [wr EXCEPT ![m] = Returns(@)]
    /\ UNCHANGED <<kind, stops, share, cell, tab, hdr, lease, rd>>
CloseWritesTable(m) ==
    /\ wr[m].at = "table"
    /\ \/ Tables(wr[m].slot, [is |-> "table", gen |-> mem[m].gen, seq |-> mem[m].seqs[wr[m].slot], items |-> mem[m].items])
          /\ wr' = [wr EXCEPT ![m].at = "resync"]
       \/ Powered /\ UNCHANGED <<tab, tabKept>> /\ wr' = [wr EXCEPT ![m] = Returns(@)]
    /\ mem' = [mem EXCEPT ![m] = Untabled(@)]
    /\ UNCHANGED <<kind, stops, share, cell, cellKept, hdr, lease, rd>>
CloseResyncs(m) ==
    /\ wr[m].at = "resync"
    /\ Synced \/ (Powered /\ Unsynced)
    /\ wr' = [wr EXCEPT ![m] = Returns(@)]
    /\ UNCHANGED <<kind, stops, share, cell, tab, hdr, lease, mem, rd>>

RoomCloses(m) ==
    /\ wr[m].at = "room" /\ mem[m].open # None /\ mem[m].written = Cells
    /\ wr' = [wr EXCEPT ![m].at = "sync", ![m].ret = "room"]
    /\ UNCHANGED <<kind, stops, share, diskVars, mem, rd>>

\* openRegion: the lowest free slot, or the next, under the next sequence.
RoomOpens(m) ==
    /\ wr[m].at = "room" /\ mem[m].open = None /\ MayOpen(m)
    /\ mem[m].seq < MaxOpens[kind]
    /\ LET d == mem[m]
           s == IF d.free = {} THEN d.next ELSE CHOOSE f \in d.free : \A g \in d.free : f <= g
       IN /\ s \in Slots
          /\ mem' = [mem EXCEPT ![m].free = @ \ {s}, ![m].next = IF d.free = {} THEN @ + 1 ELSE @,
                                ![m].seq = @ + 1, ![m].seqs[s] = d.seq + 1, ![m].back = @ \ {s}]
          /\ wr' = [wr EXCEPT ![m].at = IF Leased THEN "lease" ELSE "clear", ![m].slot = s, ![m].used = d.free # {}]
    /\ UNCHANGED <<kind, stops, share, diskVars, rd>>
SlotBack(m, d) == [d EXCEPT !.free = @ \cup {wr[m].slot}, !.seqs[wr[m].slot] = 0]

\* renewLease: checked, then raised to cover the slot.
RenewLease(m) ==
    /\ wr[m].at = "lease"
    /\ IF HoldsLease(m)
       THEN /\ wr' = [wr EXCEPT ![m].at = IF wr[m].slot >= mem[m].leased THEN "raise" ELSE "clear"]
            /\ UNCHANGED mem
       ELSE wr' = [wr EXCEPT ![m] = Refused(@)] /\ mem' = [mem EXCEPT ![m] = SlotBack(m, Fence(m))]
    /\ UNCHANGED <<kind, stops, share, diskVars, rd>>
RaiseLease(m) ==
    /\ wr[m].at = "raise"
    /\ lease' = [gen |-> mem[m].gen, asg |-> m, slots |-> wr[m].slot + 1]
    /\ Synced
    /\ mem' = [mem EXCEPT ![m].leased = wr[m].slot + 1]
    /\ wr' = [wr EXCEPT ![m].at = "clear"]
    /\ UNCHANGED <<kind, stops, share, cell, tab, hdr, rd>>

\* The space allocated and, in a slot used before, the old trailer cleared.
OpenRegion(m) ==
    /\ wr[m].at = "clear"
    /\ \/ /\ IF wr[m].used THEN Tables(wr[m].slot, NoTable) ELSE UNCHANGED <<tab, tabKept>>
          /\ mem' = [mem EXCEPT ![m].open = wr[m].slot]
          /\ wr' = [wr EXCEPT ![m].at = "room", ![m].slot = None, ![m].used = FALSE]
       \/ /\ kind # "shard" /\ wr' = [wr EXCEPT ![m] = Refused(@)] /\ mem' = [mem EXCEPT ![m] = SlotBack(m, @)]
          /\ UNCHANGED <<tab, tabKept>>
    /\ UNCHANGED <<kind, stops, share, cell, cellKept, hdr, lease, rd>>

\* append: at the end of the open region, in one write, and named in the
\* index.  A write that fails leaves its space unused, whatever of it reached
\* the disk.
Continues(w) == IF w.kind = "second" THEN [w EXCEPT !.at = "rescue", !.kind = "fill", !.again = @ + 1, !.rest = Tail(@)]
                ELSE NoWrite
Put(m) ==
    /\ wr[m].at = "room" /\ mem[m].open # None /\ mem[m].written < Cells
    /\ LET s == mem[m].open
           c == mem[m].written + 1
           k == wr[m].key
       IN \/ /\ Writes(s, c, Item(k))
             /\ mem' = [mem EXCEPT ![m].written = c,
                                   ![m].index = @ \cup {[key |-> k, slot |-> s, cell |-> c, hot |-> FALSE]},
                                   ![m].items = @ \cup {[key |-> k, cell |-> c]}]
          \/ kind # "shard" /\ Writes(s, c, Short(k)) /\ mem' = [mem EXCEPT ![m].written = c]
    /\ wr' = [wr EXCEPT ![m] = Continues(@)]
    /\ UNCHANGED <<kind, stops, share, tab, tabKept, hdr, lease, rd>>

----------------------------------------------------------------------------
(* Evictions.                                                              *)

RoomRefuses(m) ==
    /\ wr[m].at = "room" /\ mem[m].open = None
    /\ \/ ~MayOpen(m) /\ (wr[m].kind = "second" \/ mem[m].closed = <<>>)
       \/ MayOpen(m) /\ mem[m].seq = MaxOpens[kind]
    /\ wr' = [wr EXCEPT ![m] = Refused(@)]
    /\ UNCHANGED <<kind, stops, share, diskVars, mem, rd>>

\* evict: the oldest closed region, what was read in it listed in the order
\* it lies, unless the disk is over its share.
ByCell(S) == SetToSortSeq(S, LAMBDA a, b : a.cell < b.cell)
RoomEvicts(m) ==
    /\ wr[m].at = "room" /\ mem[m].open = None /\ ~MayOpen(m) /\ wr[m].kind = "fill" /\ mem[m].closed # <<>>
    /\ LET v == Head(mem[m].closed)
       IN wr' = [wr EXCEPT ![m].vic = v, ![m].ret = "room", ![m].again = 0,
                           ![m].at = IF Held(m) > share THEN "drop" ELSE "rescue",
                           ![m].rest = IF Held(m) > share THEN <<>> ELSE ByCell({e \in EntriesIn(m, v) : e.hot})]
    /\ UNCHANGED <<kind, stops, share, diskVars, mem, rd>>

\* secondChance: up to half a region, as far as the write budget goes.
HalfWritten(w) == w.again + 1 > Cells \div 2
Rescue(m) ==
    /\ wr[m].at = "rescue"
    /\ LET w == wr[m]
       IN \/ wr' = [wr EXCEPT ![m].at = "drop", ![m].rest = <<>>]
          \/ /\ w.rest # <<>> /\ ~HalfWritten(w)
             /\ wr' = [wr EXCEPT ![m] =
                          IF cell[w.vic][Head(w.rest).cell] = Item(Head(w.rest).key)
                          THEN [w EXCEPT !.at = "room", !.kind = "second", !.key = Head(w.rest).key]
                          ELSE [w EXCEPT !.rest = Tail(@)]]
    /\ UNCHANGED <<kind, stops, share, diskVars, mem, rd>>

\* The victim leaves the log and the index, and is given back: by the
\* eviction, or by its last reader.
NoReaderSeen(m, s) == FALSE
HasReader(m, s) == rd[m].at = "item" /\ rd[m].slot = s
Evicted(m, v) == [mem[m] EXCEPT !.closed = SelectSeq(@, LAMBDA s : s # v), !.index = @ \ EntriesIn(m, v), !.gone = @ \cup {v}]
GivenBack(d, s) == [d EXCEPT !.gone = @ \ {s}, !.free = @ \cup {s}, !.back = @ \ {s}, !.seqs[s] = 0]
Drop(m) ==
    /\ wr[m].at = "drop"
    /\ wr' = [wr EXCEPT ![m] = Returns([@ EXCEPT !.rest = <<>>, !.again = 0])]
    /\ IF HasReader(m, wr[m].vic)
       THEN NotPunched /\ mem' = [mem EXCEPT ![m] = Evicted(m, wr[m].vic)]
       ELSE Punches({wr[m].vic}) /\ mem' = [mem EXCEPT ![m] = GivenBack(Evicted(m, wr[m].vic), wr[m].vic)]
    /\ UNCHANGED <<kind, stops, share, hdr, lease, rd>>

\* fit: oldest first, with no second chance, to the share less one region.
Over(m) == Held(m) - Cardinality(mem[m].gone) > share - 1
FitStarts(m) ==
    /\ mem[m].up /\ wr[m].at = "idle" /\ Turns(m) /\ Over(m)
    /\ wr' = [wr EXCEPT ![m].at = "fit"]
    /\ UNCHANGED <<kind, stops, share, diskVars, mem, rd>>
Fit(m) ==
    /\ wr[m].at = "fit"
    /\ wr' = [wr EXCEPT ![m] = IF ~Over(m) THEN NoWrite
                               ELSE IF mem[m].closed = <<>> THEN [@ EXCEPT !.at = "sync", !.ret = "fit"]
                               ELSE [@ EXCEPT !.at = "drop", !.vic = Head(mem[m].closed), !.ret = "fit"]]
    /\ UNCHANGED <<kind, stops, share, diskVars, mem, rd>>

\* shutdown: the open region is closed with its table.
Shutdown(m) ==
    /\ kind # "cache" /\ mem[m].up /\ ~mem[m].stopped /\ wr[m].at = "idle" /\ mem[m].open # None
    /\ mem' = [mem EXCEPT ![m].stopped = TRUE]
    /\ wr' = [wr EXCEPT ![m].at = "sync", ![m].ret = "idle"]
    /\ UNCHANGED <<kind, stops, share, diskVars, rd>>

----------------------------------------------------------------------------
(* Reads.                                                                  *)

\* lookup: the region the item lies in is held for the read.
ReadStarts(m, k) ==
    /\ mem[m].up /\ rd[m].at = "idle" /\ Turns(m)
    /\ \E e \in Named(m, k) :
          rd' = [rd EXCEPT ![m] = [at |-> "item", key |-> k, slot |-> e.slot, cell |-> e.cell,
                                   seq |-> mem[m].seqs[e.slot], got |-> Blank]]
    /\ UNCHANGED <<kind, stops, share, diskVars, mem, wr>>

\* readItem: the bytes, then finishRead.  The caller may give the read up,
\* and the disk may fail it.
ReadItem(m) ==
    /\ rd[m].at = "item"
    /\ \E got \in {cell[rd[m].slot][rd[m].cell]} \cup (IF kind = "shard" THEN {} ELSE {Blank}) : rd' = [rd EXCEPT ![m].got = got, ![m].at = "check"]
    /\ IF rd[m].slot \in mem[m].gone
       THEN Punched({rd[m].slot}) /\ mem' = [mem EXCEPT ![m] = GivenBack(@, rd[m].slot)]
       ELSE UNCHANGED mem /\ NotPunched
    /\ UNCHANGED <<kind, stops, share, hdr, lease, wr>>

\* itemKey, parseItem: the key the item names and its checksum.
KeyUnchecked(r) == r.got.intact
Passes(r) == r.got.intact /\ r.got.key = r.key
ReadHits(m) ==
    /\ rd[m].at = "check" /\ Passes(rd[m])
    /\ rd' = [rd EXCEPT ![m] = [NoRead EXCEPT !.at = "hit", !.key = rd[m].key, !.got = rd[m].got]]
    /\ UNCHANGED <<kind, stops, share, diskVars, mem, wr>>

\* forget: an item not given back intact is dropped from the index, where
\* its entry still stands.
ReadMisses(m) ==
    /\ rd[m].at = "check" /\ ~Passes(rd[m])
    /\ rd' = [rd EXCEPT ![m] = NoRead]
    /\ \/ /\ mem[m].seqs[rd[m].slot] = rd[m].seq
          /\ mem' = [mem EXCEPT ![m].index = {e \in @ : ~(e.key = rd[m].key /\ e.slot = rd[m].slot /\ e.cell = rd[m].cell)}]
       \/ UNCHANGED mem
    /\ UNCHANGED <<kind, stops, share, diskVars, wr>>

\* served: counted, so the item has a second chance.
ReadServed(m) ==
    /\ rd[m].at = "hit"
    /\ rd' = [rd EXCEPT ![m] = NoRead]
    /\ \/ Named(m, rd[m].key) = {} /\ UNCHANGED mem
       \/ \E e \in Named(m, rd[m].key) : mem' = [mem EXCEPT ![m].index = (@ \ {e}) \cup {[e EXCEPT !.hot = TRUE]}]
    /\ UNCHANGED <<kind, stops, share, diskVars, wr>>

----------------------------------------------------------------------------
(* The host stops, and reads its disk back.                                *)

Stopped(m) == /\ stops < MaxStops[kind] /\ stops' = stops + 1
              /\ mem' = [mem EXCEPT ![m] = Down] /\ wr' = [wr EXCEPT ![m] = NoWrite] /\ rd' = [rd EXCEPT ![m] = NoRead]
ProcessStops(m) == kind # "cache" /\ mem[m].up /\ Stopped(m) /\ UNCHANGED <<kind, share, diskVars>>

\* Each place of the disk is left with one of what it may keep.
Places == [i \in 1..Cardinality(Slots) * (Cells + 1) |-> <<(i - 1) \div (Cells + 1), (i - 1) % (Cells + 1)>>]
KeptAt(p) == IF p[2] = 0 THEN tabKept[p[1]] ELSE cellKept[p[1]][p[2]]
Losses == FoldLeft(LAMBDA L, p : {Append(l, v) : l \in L, v \in KeptAt(p)}, {<<>>}, Places)
PlaceOf(s, c) == s * (Cells + 1) + c + 1
PowerLost(m) ==
    /\ Powered /\ mem[m].up /\ Stopped(m)
    /\ \E l \in Losses :
          /\ cell' = [s \in Slots |-> [c \in 1..Cells |-> l[PlaceOf(s, c)]]]
          /\ cellKept' = [s \in Slots |-> [c \in 1..Cells |-> {l[PlaceOf(s, c)]}]]
          /\ tab' = [s \in Slots |-> l[PlaceOf(s, 0)]]
          /\ tabKept' = [s \in Slots |-> {l[PlaceOf(s, 0)]}]
    /\ UNCHANGED <<kind, share, hdr, lease>>

Opens(m) == ~mem[m].up /\ wr[m].at = "idle" /\ (m = 1 \/ kind = "shard")
HeaderOurs == hdr.gen # 0 /\ hdr.of = Ours

\* makeFile: the file emptied and synced; a device keeps what it holds.
MakeFile(m) ==
    /\ Opens(m) /\ ~HeaderOurs
    /\ ~(Leased /\ lease.gen # 0 /\ lease.asg > m)
    /\ IF Leased THEN UNCHANGED <<cell, cellKept, tab, tabKept, hdr>>
       ELSE /\ cell' = [s \in Slots |-> BlankCells] /\ cellKept' = [s \in Slots |-> [c \in 1..Cells |-> {Blank}]]
            /\ tab' = [s \in Slots |-> NoTable] /\ tabKept' = [s \in Slots |-> {NoTable}]
            /\ hdr' = NoHeader
    /\ wr' = [wr EXCEPT ![m].at = "header"]
    /\ UNCHANGED <<kind, stops, share, lease, mem, rd>>
MakeHeader(m) ==
    /\ wr[m].at = "header"
    /\ hdr' = [gen |-> hdr.gen + 1, of |-> Ours]
    /\ lease' = IF Leased THEN [gen |-> hdr.gen + 1, asg |-> m, slots |-> 0] ELSE lease
    /\ mem' = [mem EXCEPT ![m] = [Down EXCEPT !.up = TRUE, !.gen = hdr.gen + 1]]
    /\ wr' = [wr EXCEPT ![m] = NoWrite]
    /\ UNCHANGED <<kind, stops, share, cell, cellKept, tab, tabKept, rd>>
MakeStops(m) == wr[m].at = "header" /\ wr' = [wr EXCEPT ![m] = NoWrite] /\ UNCHANGED <<kind, stops, share, diskVars, mem, rd>>

\* scanRegion: up to the first header that does not hold together.
ScanItems(s) == {[key |-> cell[s][c].key, cell |-> c] :
                    c \in {c \in 1..Cells : cell[s][c].intact /\ \A b \in 1..c : cell[s][b] # Blank}}

\* keep: a region's items the index does not hold from a newer one; past the
\* index's bound this region and every older one are given back.
Firsts(items) == {i \in items : \A j \in items : j.key = i.key => i.cell <= j.cell}
Keep(acc, s, items) ==
    LET new == {[key |-> i.key, slot |-> s, cell |-> i.cell, hot |-> FALSE] :
                   i \in {i \in Firsts(items) : \A e \in acc.index : e.key # i.key}}
    IN IF acc.full \/ new = {} THEN acc
       ELSE IF Cardinality(acc.index \cup new) > IndexItems THEN [acc EXCEPT !.full = TRUE]
       ELSE [acc EXCEPT !.index = @ \cup new, !.kept = Append(@, s)]
OldestFirst(S) == SetToSortSeq(S, LAMBDA a, b : tab[a].seq < tab[b].seq \/ (tab[a].seq = tab[b].seq /\ a < b))
NewestFirst(S) == SetToSortSeq(S, LAMBDA a, b : tab[a].seq > tab[b].seq \/ (tab[a].seq = tab[b].seq /\ a < b))
BySlot(S) == SetToSortSeq(S, LAMBDA a, b : a < b)

\* The sequence the log goes on from.
LastSeq(tabled) == IF tabled = {} THEN 0 ELSE tab[CHOOSE s \in tabled : \A t \in tabled : tab[t].seq <= tab[s].seq].seq

\* readRegions: the tables of this generation newest first, then the torn
\* ones scanned, which go before every other in the log.
ReadRegions(slots) ==
    LET found  == {s \in Slots : s < slots}
        tabled == {s \in found : tab[s].is = "table" /\ tab[s].gen = hdr.gen}
        torn   == {s \in found : tab[s].is = "torn"}
        empty  == [index |-> {}, kept |-> <<>>, full |-> FALSE]
        first  == FoldLeft(LAMBDA acc, s : Keep(acc, s, tab[s].items), empty, NewestFirst(tabled))
        then   == FoldLeft(LAMBDA acc, s : Keep(acc, s, ScanItems(s)), [first EXCEPT !.kept = <<>>], BySlot(torn))
    IN [index |-> then.index, closed |-> then.kept \o Reverse(first.kept),
        seq |-> LastSeq(tabled)]

Extent == IF \A s \in Slots : cell[s] = BlankCells /\ tab[s] = NoTable THEN 0
          ELSE 1 + CHOOSE s \in Slots : /\ cell[s] # BlankCells \/ tab[s] # NoTable
                                        /\ \A t \in Slots : t > s => cell[t] = BlankCells /\ tab[t] = NoTable

\* readBack: the lease taken first, the regions read back, and the log
\* fitted to its share before it serves a read.
ReadBack(m) ==
    /\ Opens(m) /\ HeaderOurs
    /\ ~(Leased /\ lease.gen = hdr.gen /\ lease.asg > m)
    /\ LET slots == IF ~Leased THEN Extent ELSE IF lease.gen = hdr.gen THEN lease.slots ELSE Cardinality(Slots)
           r     == ReadRegions(slots)
           over  == IF Len(r.closed) > share - 1 THEN Len(r.closed) - (share - 1) ELSE 0
           kept  == SubSeq(r.closed, over + 1, Len(r.closed))
           gone  == {s \in Slots : s < slots} \ Range(kept)
       IN /\ lease' = IF Leased THEN [gen |-> hdr.gen, asg |-> m, slots |-> slots] ELSE lease
          /\ mem' = [mem EXCEPT ![m] =
                       [Down EXCEPT !.up = TRUE, !.gen = hdr.gen, !.closed = kept, !.free = gone, !.next = slots, !.seq = r.seq,
                                    !.seqs = [s \in Slots |-> IF s \in Range(kept) /\ tab[s].is = "table" THEN tab[s].seq ELSE 0],
                                    !.index = {e \in r.index : e.slot \in Range(kept)}, !.leased = IF Leased THEN slots ELSE 0, !.back = Range(kept)]]
          /\ Punches(gone)
    /\ UNCHANGED <<kind, stops, share, hdr, wr, rd>>

\* The limiter sets the share.
SetShare == kind = "cache" /\ \E n \in Shares : share' = n /\ share' # share /\ UNCHANGED <<kind, stops, diskVars, mem, wr, rd>>

----------------------------------------------------------------------------
\* A device another deployment filled before.
Theirs(f) == [s \in Slots |-> [c \in 1..Cells |-> [key |-> f[c], of |-> "theirs", intact |-> TRUE]]]
TheirTable(s, f) == [is |-> "table", gen |-> 1, seq |-> s + 1, items |-> {[key |-> f[c], cell |-> c] : c \in 1..Cells}]

Init ==
    /\ kind \in Kinds /\ stops = 0
    /\ share \in Shares /\ (kind = "cache" \/ \A n \in Shares : share >= n)
    /\ IF kind = "device"
       THEN /\ \E f \in [1..Cells -> Keys] :
                  /\ cell = Theirs(f) /\ tab = [s \in Slots |-> TheirTable(s, f)]
            /\ hdr = [gen |-> 1, of |-> "theirs"] /\ lease = [gen |-> 1, asg |-> 0, slots |-> Cardinality(Slots)]
       ELSE /\ cell = [s \in Slots |-> BlankCells] /\ tab = [s \in Slots |-> NoTable]
            /\ hdr = NoHeader /\ lease = NoLease
    /\ cellKept = [s \in Slots |-> [c \in 1..Cells |-> {cell[s][c]}]]
    /\ tabKept = [s \in Slots |-> {tab[s]}]
    /\ mem = [m \in Members |-> Down]
    /\ wr = [m \in Members |-> NoWrite]
    /\ rd = [m \in Members |-> NoRead]

Fills(m) == \/ \E k \in Keys : FillStarts(m, k)
            \/ RoomCloses(m) \/ RoomOpens(m) \/ RoomRefuses(m) \/ RoomEvicts(m)
            \/ RenewLease(m) \/ RaiseLease(m) \/ OpenRegion(m) \/ Put(m)
Closes(m) == CloseSyncs(m) \/ CloseWritesTable(m) \/ CloseResyncs(m) \/ Shutdown(m)
Evictions(m) == Rescue(m) \/ Drop(m) \/ FitStarts(m) \/ Fit(m)
Reads(m) == \/ \E k \in Keys : ReadStarts(m, k)
            \/ ReadItem(m) \/ ReadHits(m) \/ ReadMisses(m) \/ ReadServed(m)
Restarts(m) == ProcessStops(m) \/ PowerLost(m) \/ MakeFile(m) \/ MakeHeader(m) \/ MakeStops(m) \/ ReadBack(m)
Next == \/ \E m \in Members : Fills(m) \/ Closes(m) \/ Evictions(m) \/ Reads(m) \/ Restarts(m)
        \/ SetShare
Spec == Init /\ [][Next]_vars

----------------------------------------------------------------------------
ItemType == [key : Keys \cup {NoKey}, of : {Ours, "theirs", "none"}, intact : BOOLEAN]
\* Every variable keeps its type, and an index entry names a cell of a region
\* the log holds (diskRegion.entries in disk.go).
TypeOK ==
    /\ share \in Shares
    /\ \A s \in Slots : \A c \in 1..Cells : cell[s][c] \in cellKept[s][c] /\ cellKept[s][c] \subseteq ItemType
    /\ \A s \in Slots : tab[s] \in tabKept[s]
    /\ \A m \in Members : /\ mem[m].written \in 0..Cells /\ mem[m].seq \in 0..MaxOpens[kind]
                          /\ \A e \in mem[m].index : e.slot \in Range(mem[m].closed) \cup {mem[m].open} /\ e.cell \in 1..Cells

\* A read that hits gives back the item it asked for, as this deployment wrote
\* it, whatever a crash, a slot used again, another member still writing the
\* shard or a file made before left on the disk (readItem in disk.go).
ReadsTrue == \A m \in Members : rd[m].at = "hit" => rd[m].got.key = rd[m].key /\ rd[m].got.of = Ours

\* The region a read is in flight from is not given back under it: its slot is
\* not free, and no later region has been opened in it (evict, finishRead).
ReaderHoldsRegion == \A m \in Members :
    rd[m].at = "item" => rd[m].slot \notin mem[m].free /\ mem[m].seqs[rd[m].slot] = rd[m].seq

\* Every slot ever used is in one place: open, closed, evicted and waiting for
\* its reader, being opened, or free (openRegion, giveBack).
SlotsAccounted == \A m \in Members : mem[m].up =>
    LET d == mem[m]
        opening == IF wr[m].at \in {"lease", "raise", "clear"} THEN {wr[m].slot} ELSE {}
        held == Range(d.closed) \cup d.gone \cup opening \cup ({d.open} \ {None})
    IN /\ Cardinality(held) = Held(m)
       /\ held \cap d.free = {}
       /\ held \cup d.free = {s \in Slots : s < d.next}

\* The closed regions are in the order they were opened in, across restarts,
\* so the one evicted is the oldest (readRegions in diskrestart.go).
LogInOrder == \A m \in Members :
    LET log == mem[m].closed \o (IF mem[m].open = None THEN <<>> ELSE <<mem[m].open>>)
        SeqAt(i) == mem[m].seqs[log[i]]
    IN kind # "shard" => \A i, j \in DOMAIN log : i < j => SeqAt(i) < SeqAt(j) \/ SeqAt(i) = 0

\* A restart keeps the newest region that has a table, and serves from it
\* every item it names, though a second chance left older copies of them in
\* other regions and the share may have no room for those (readRegions, keep
\* and fit).
HasItems(s) == tab[s].is = "table" /\ tab[s].gen = hdr.gen /\ tab[s].items # {}
KeepsNewest(s) ==
    (kind = "own" /\ ~mem[1].up /\ mem[1].up' /\ HasItems(s) /\ \A t \in Slots : HasItems(t) => tab[t].seq <= tab[s].seq)
    => s \in Range(mem'[1].closed) /\ \A i \in tab[s].items : \E e \in mem'[1].index : e.key = i.key /\ e.slot = s

\* A table never names an item a loss of power may take (close in disk.go: the
\* first sync keeps the table from ever naming an item that is not there).
TableNamesWhatIsThere == \A m \in Members : \A s \in Range(mem[m].closed) \ mem[m].back :
    (kind = "own" /\ tab[s].is = "table") => \A i \in tab[s].items : cellKept[s][i.cell] = {Item(i.key)}
====
