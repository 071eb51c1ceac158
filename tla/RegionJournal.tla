--------------------------- MODULE RegionJournal ---------------------------
(***************************************************************************)
(* The journal captures and the cold copies of a memory region             *)
(* (vmmemory/journal.go, cold.go, giveback.go), and the region as a whole. *)
(*                                                                         *)
(* A page is one block: a capture of it writes it or leaves it out.  The   *)
(* journal's entries are kept as what a replay of them brings back: old is *)
(* what entries from before the standing seal bring back, which the seal's *)
(* publication covers, new what later ones do.  One batch is in flight at  *)
(* a time; age says whether the standing seal, or a published one, came    *)
(* after its capture.                                                      *)
(***************************************************************************)
EXTENDS RegionSeal, TLC

CONSTANTS Unknown, Dropped,
          PmemCold,     \* whether a store trap of a pmem region may make a cold copy
          PmemSettles   \* whether a checkpoint of a pmem region may be settled

VARIABLES dig,    \* the digests the region keeps of each page: what it last captured
          log,    \* what a replay of the journal brings back
          batch   \* the capture whose entries are being written
journalVars == <<dig, log, batch>>
vars == <<pagerVars, sealVars, journalVars>>

NoBatch == [pages |-> {}, entry |-> [p \in Pages |-> None], age |-> "none"]
InFlight == batch.age # "none"

---------------------------------------------------------------------------
(* Captures.                                                               *)

\* takeForCapture: the unjournaled pages and those on the standing seal's list.
Unjournaled == unj \cup seal.unj
\* markCaptured: the region's own dirty pages are protected, and not cold.
Captures(p) == bnd[p].dirty /\ bnd[p].held = 0
Marked == [p \in Pages |-> IF p \in Unjournaled /\ Captures(p)
                           THEN [bnd[p] EXCEPT !.prot = TRUE, !.cold = FALSE] ELSE bnd[p]]
\* readForCapture: a page clean in the region has no source and is skipped.
Read(p) == p \in Unjournaled /\ (bnd[p].held # 0 \/ bnd[p].dirty)
\* What its blocks are compared with: the digests kept, those of its origin
\* where nothing holds its lock, those of zeros, or nothing.
Previous(p) ==
  CASE dig[p] # Unknown -> IF dig[p] = Dropped THEN None ELSE dig[p]
    [] dig[p] = Unknown /\ bnd[p].held = 0 /\ bnd[p].origin # None ->
         IF Published(bnd[p].origin) /\ ~Locked(bnd[p].origin) THEN frm[bnd[p].origin].data ELSE None
    [] dig[p] = Unknown /\ bnd[p].held = 0 /\ bnd[p].origin = None /\ bnd[p].zeroed -> 0
    [] OTHER -> None
\* The page left on the seal's list is one the guest still shares with it.
LeftOnList == {p \in seal.unj : bnd[p].held # 0}

Capture ==
  /\ kind = "pmem" /\ Exclusive /\ ~InFlight /\ Unjournaled # {}
  /\ \A p \in Unjournaled : Unlocked(bnd[p].page) /\ Unlocked(cpy[p].page)
  /\ hw' = WriteProtected({p \in Unjournaled : Captures(p)})
  /\ bnd' = Marked
  /\ unj' = {}
  /\ seal' = [seal EXCEPT !.unj = LeftOnList]
  /\ dig' = [p \in Pages |-> IF Read(p) THEN GuestBytes(p) ELSE dig[p]]
  /\ batch' = [pages |-> Unjournaled, age |-> "new",
               entry |-> [p \in Pages |-> IF Read(p) /\ Previous(p) # GuestBytes(p) THEN GuestBytes(p) ELSE None]]
  /\ UNCHANGED <<kind, mem, vol, frm, slot, flt, ev, cpy, kid, coldq, sealVars, log>>

\* A protection that failed takes the mappings it protected away.
CaptureRefused ==
  /\ kind = "pmem" /\ Exclusive /\ ~InFlight
  /\ \E p \in Unjournaled : hw[p].w
  /\ hw' = [p \in Pages |-> IF p \in Unjournaled /\ hw[p].w THEN Unmapped ELSE hw[p]]
  /\ UNCHANGED <<kind, mem, vol, bnd, frm, slot, flt, ev, seal, cpy, kid, unj, coldq, sealVars, journalVars>>

\* giveBackCaptured: the pages are unjournaled again, with no digests.
DigestsKept(S) == dig
DigestsDropped(S) == [p \in Pages |-> IF p \in S THEN Dropped ELSE dig[p]]

\* A read that failed leaves the pages protected and unjournaled.
CaptureFails ==
  /\ kind = "pmem" /\ Exclusive /\ ~InFlight /\ Unjournaled # {}
  /\ hw' = WriteProtected({p \in Unjournaled : Captures(p)})
  /\ bnd' = Marked
  /\ unj' = Unjournaled
  /\ dig' = DigestsDropped(Unjournaled)
  /\ UNCHANGED <<kind, mem, vol, frm, slot, flt, ev, seal, cpy, kid, coldq, sealVars, log, batch>>

Over(entry, under) == [p \in Pages |-> IF entry[p] # None THEN entry[p] ELSE under[p]]
Landed == CASE batch.age = "new" -> [log EXCEPT !.new = Over(batch.entry, @)]
            [] batch.age = "old" -> [log EXCEPT !.old = Over(batch.entry, @)]
            [] OTHER -> log

\* The batch is written and synced.
Lands ==
  /\ InFlight
  /\ log' = Landed
  /\ batch' = NoBatch
  /\ UNCHANGED <<pagerVars, sealVars, dig>>

\* The write or the sync failed (Captured.Fail): its entries may be on the disk.
WriteFails ==
  /\ InFlight
  /\ \E l \in {log, Landed} : log' = l
  /\ unj' = unj \cup batch.pages
  /\ dig' = DigestsDropped(batch.pages)
  /\ batch' = NoBatch
  /\ UNCHANGED <<kind, mem, vol, bnd, hw, frm, slot, flt, ev, seal, cpy, kid, coldq, sealVars>>

---------------------------------------------------------------------------
(* The journal's part of a seal and of its end.                            *)

Journalless == [p \in Pages |-> None]
\* takeUnjournaled: the seal takes the list and drops those pages' digests.
Seal ==
  /\ SealPause
  /\ dig' = DigestsDropped(unj)
  /\ log' = [old |-> Over(log.new, log.old), new |-> Journalless]
  /\ batch' = [batch EXCEPT !.age = IF InFlight THEN "old" ELSE @]

\* The selected checkpoint covers the entries of before its seal, those of a
\* batch still being written included: a replay passes over them.
Publishes ==
  /\ VolumePublishes
  /\ log' = [log EXCEPT !.old = Journalless]
  /\ batch' = IF batch.age = "old" THEN [batch EXCEPT !.age = "covered", !.entry = Journalless] ELSE batch
  /\ UNCHANGED dig

\* endUnjournaled: a published page's digests go where the page is clean, an
\* abandoned one has none.
EndOfSeal ==
  /\ EndSeal
  /\ dig' = IF seal.pub THEN [p \in Pages |-> IF p \in seal.unj /\ ~bnd[p].dirty THEN Unknown ELSE dig[p]]
                        ELSE DigestsDropped(seal.unj)
  /\ log' = [old |-> Journalless, new |-> Over(log.new, log.old)]
  /\ batch' = [batch EXCEPT !.age = IF @ = "old" THEN "new" ELSE @]

---------------------------------------------------------------------------
(* Cold copies given back.                                                 *)

\* endDirty: the page is clean, its reservation goes back, and the journal
\* forgets it.
EndDirty(p, f) ==
  /\ bnd' = [bnd EXCEPT ![p] = Clean(f)]
  /\ slot' = [slot EXCEPT ![bnd[p].spill] = Free]
  /\ unj' = unj \ {p}
  /\ dig' = [dig EXCEPT ![p] = Unknown]
  /\ frm' = IF bnd[p].page = None THEN frm ELSE [frm EXCEPT ![bnd[p].page] = FreeFrame]
\* forgetOrigin: the guest changed the copy, or the origin has gone.
ForgetOrigin(p) ==
  /\ bnd' = [bnd EXCEPT ![p].origin = None, ![p].cold = FALSE]
  /\ UNCHANGED <<slot, unj, dig, frm>>

\* giveBackCopy and giveBackSpilled: the copy is compared with its origin,
\* write-protected or spilled.
ComparedSame(p) == TRUE
OriginHolds(p) == GuestBytes(p) = frm[bnd[p].origin].data
GiveBackCopy(p) ==
  /\ bnd[p].origin # None /\ Writable(bnd[p])
  /\ bnd[p].origin # Gone => ~Locked(bnd[p].origin)
  /\ Unlocked(bnd[p].page)
  /\ IF ~Published(bnd[p].origin) THEN ForgetOrigin(p) /\ hw' = hw
     ELSE /\ \/ bnd[p].page = None /\ bnd[p].cold
             \/ bnd[p].page # None /\ Mapped(p)
          /\ IF OriginHolds(p)
             THEN /\ EndDirty(p, bnd[p].origin)
                  /\ hw' = IF Mapped(p) THEN [hw EXCEPT ![p] = [f |-> bnd[p].origin, w |-> FALSE]] ELSE hw
             ELSE ForgetOrigin(p) /\ hw' = hw
\* giveBackToVolume: the origin has gone, so the guest's mapping goes first and
\* the copy is compared with its volume's bytes.
GiveBackToVolume(p) ==
  /\ bnd[p].origin = None /\ bnd[p].cold /\ Writable(bnd[p])
  /\ Unlocked(bnd[p].page)
  /\ hw' = [hw EXCEPT ![p] = Unmapped]
  /\ IF GuestBytes(p) = vol[p].data THEN EndDirty(p, None) ELSE ForgetOrigin(p)

\* The session gives back the cold copies recorded, a while after; a reclaim
\* gives back a victim that is cold (giveBackVictim).
GiveBack(p) ==
  /\ flt[p].st = "idle" /\ Shared
  /\ \/ p \in coldq /\ coldq' = coldq \ {p} /\ (GiveBackCopy(p) \/ GiveBackToVolume(p))
     \/ bnd[p].cold /\ bnd[p].page # None /\ coldq' = coldq /\ GiveBackCopy(p)
  /\ UNCHANGED <<kind, mem, vol, flt, ev, seal, cpy, kid, sealVars, log, batch>>
\* A pass that finds nothing to compare.
GiveBackNothing(p) ==
  /\ flt[p].st = "idle" /\ Shared /\ p \in coldq
  /\ ~Writable(bnd[p]) \/ (bnd[p].origin = None /\ ~bnd[p].cold)
     \/ (bnd[p].origin # None /\ IF bnd[p].page = None THEN ~bnd[p].cold ELSE ~Mapped(p))
  /\ coldq' = coldq \ {p}
  /\ UNCHANGED <<kind, mem, vol, bnd, hw, frm, slot, flt, ev, seal, cpy, kid, unj, sealVars, journalVars>>

---------------------------------------------------------------------------
(* The region.                                                             *)

Init ==
  /\ kind \in {"ram", "fork", "isolated", "pmem"}
  /\ vol \in [Pages -> [ver : {0}, data : {0, 1}]]
  /\ mem = [p \in Pages |-> vol[p].data]
  /\ bnd = [p \in Pages |-> Clean(None)]
  /\ hw = [p \in Pages |-> Unmapped]
  /\ frm = [f \in Frames |-> FreeFrame]
  /\ slot = [s \in Slots |-> Free]
  /\ flt = [p \in Pages |-> Idle]
  /\ ev = NoEviction
  /\ seal = NoSeal
  /\ cpy = [p \in Pages |-> NoCopy]
  /\ kid = [p \in Pages |-> None]
  /\ unj = {} /\ coldq = {}
  /\ sealed = [p \in Pages |-> 0] /\ forked = sealed
  /\ dig = [p \in Pages |-> Unknown]
  /\ log = [old |-> Journalless, new |-> Journalless]
  /\ batch = NoBatch

ColdCopies == kind = "ram" \/ (kind = "pmem" /\ PmemCold)
Settles == kind = "ram" \/ (kind = "pmem" /\ PmemSettles)

Fault(p) == \/ LoadBound(p) \/ LoadZero(p) \/ LoadPage(p, TRUE) \/ LoadPage(p, FALSE)
            \/ StoreFresh(p) \/ DirtyInPlace(p)
            \/ CopyStart(p) \/ CopyAgain(p) \/ CopyTake(p) \/ CopyMap(p, ColdCopies) \/ CopyRefused(p)
            \/ UnprotectForStore(p)
            \/ Refault(p) \/ RefaultAgain(p) \/ RefaultFill(p)
            \/ kind # "pmem" /\ OtherReads(p)
            \/ \E v \in Values : GuestStore(p, v)
Evict == \/ \E f \in Frames : EvictLock(f) \/ Harvest(f) \/ TakeIdle(f)
         \/ EvictLook \/ EvictTarget \/ EvictSpill \/ EvictDrop \/ EvictStop
Checkpoint == \/ SealRefused \/ LeaveOutColdCopies \/ TakeAlias \/ TakeHold
              \/ \E p \in Pages : \/ Settles /\ SettleCompare(p)
                                  \/ SettleDrop(p) \/ Share(p) \/ ChildLeaves(p)
                                  \/ \E f \in Frames : ChildMaps(p, f)
                                  \/ RetireCopy(p)
                                  \/ \E kept \in BOOLEAN : RetireShared(p, kept)
                                  \/ \E stop \in BOOLEAN : AbandonCopy(p, stop)
Journal == \/ Capture \/ CaptureRefused \/ CaptureFails
           \/ Seal \/ Publishes \/ EndOfSeal

Next == \/ (Evict \/ \E p \in Pages : Fault(p)) /\ UNCHANGED <<sealVars, journalVars>>
        \/ Checkpoint /\ UNCHANGED journalVars
        \/ Journal \/ Lands \/ WriteFails
        \/ \E p \in Pages : GiveBack(p) \/ GiveBackNothing(p)
Spec == Init /\ [][Next]_vars
---------------------------------------------------------------------------
(* Properties.                                                             *)

TypeOK ==
  /\ kind \in {"ram", "fork", "isolated", "pmem"} /\ mem \in [Pages -> Values]
  /\ bnd \in [Pages -> [page : Frames \cup {None}, dirty : BOOLEAN, held : 0 .. MaxSeals,
                        spill : Slots \cup {None}, prot : BOOLEAN, origin : Frames \cup {None, Gone},
                        cold : BOOLEAN, zeroed : BOOLEAN]]
  /\ hw \in [Pages -> [f : Frames \cup {None, Zero}, w : BOOLEAN]]
  /\ frm \in [Frames -> [data : Values, obj : {"free", "layer", "root"}, page : Pages \cup {None},
                         ver : 0 .. MaxSeals, lent : BOOLEAN]]
  /\ slot \in [Slots -> Values \cup {Free, Empty}]
  /\ unj \subseteq Pages /\ dig \in [Pages -> Values \cup {Unknown, Dropped}]

\* The guest reads what it last stored: through the mapping it has, whose
\* frame is never one given back, and through whatever a fault would map, be it
\* the page's frame, the checkpoint's copy it shares, its spill or its volume
\* (fault.go, store.go, evict.go, checkpoint.go).
GuestKeepsItsStores == \A p \in Pages :
  /\ hw[p].f \in Frames => frm[hw[p].f].obj # "free" /\ frm[hw[p].f].data = mem[p]
  /\ hw[p].f = Zero => mem[p] = 0
  /\ GuestBytes(p) = mem[p]

\* What a seal froze is what its checkpoint reads, wherever the copy is, until
\* the checkpoint is published (ReadDirty): no store, eviction, refault or
\* settle of the running guest changes it.
SealedBytesStand == seal.st \in {"standing", "abandoning"} /\ ~seal.pub =>
  \A p \in Copies : CopyBytes(p) = sealed[p]

\* A fork's child that maps a page lent to it goes on reading the bytes its
\* fork point froze, after the page left the seal too (endSeal, unlend,
\* dropSharers, adopt).
ChildKeepsForkPoint == \A p \in Pages :
  kid[p] # None => frm[kid[p]].obj # "free" /\ frm[kid[p]].data = forked[p]

\* Each reservation is one dirty page's: the guest's own, the checkpoint's copy
\* or a store under way, never two at once, and each of those has one.  It is
\* what bounds the dirty set by the spill (spill.go, takePages, endSeal).
Holders(s) == {<<"guest", p>> : p \in {q \in Pages : bnd[q].spill = s}}
         \cup {<<"copy", p>> : p \in {q \in Pages : cpy[q].spill = s}}
         \cup {<<"store", p>> : p \in {q \in Pages : flt[q].st = "copy" /\ flt[q].spill = s}}
OneReservationEach ==
  /\ \A s \in Slots : Cardinality(Holders(s)) = IF slot[s] = Free THEN 0 ELSE 1
  /\ \A p \in Pages : bnd[p].dirty /\ bnd[p].held = 0 => bnd[p].spill # None

\* Every page the guest can store into without a fault is one the next flush
\* captures: the rule the journal's tests check after each step
\* (journal_test.go writableIsUnjournaled).
WritableIsUnjournaled == kind = "pmem" => \A p \in Pages : hw[p].w => p \in Unjournaled

\* A page that is neither unjournaled nor in a batch being written comes back
\* from a crash as the guest left it: the journal replayed over the volume
\* gives its bytes.  It is what a flush that was answered promises (Capture,
\* endUnjournaled, endDirty).
Recovered(p) == CASE log.new[p] # None -> log.new[p]
                  [] log.new[p] = None /\ log.old[p] # None -> log.old[p]
                  [] OTHER -> vol[p].data
JournalRecovers == kind = "pmem" =>
  \A p \in Pages : p \in Unjournaled \cup batch.pages \/ Recovered(p) = mem[p]

\* What a seal or a fork point froze stands, in its one reservation.
FrozenBytesStand == SealedBytesStand /\ ChildKeepsForkPoint /\ OneReservationEach
\* The journal covers what the guest flushed: whatever may be stored into
\* unnoticed is captured by the next flush, and all else comes back from a crash.
JournalCovers == TypeOK /\ WritableIsUnjournaled /\ JournalRecovers

\* For TLC: frames and slots are alike.
Symmetric == Permutations(Frames) \cup Permutations(Slots)
=============================================================================
