---------------------------- MODULE RegionPages ----------------------------
(***************************************************************************)
(* One memory region of the pager (vmmemory): the bindings of its pages,   *)
(* what the guest's hardware maps, the frames of a shared arena, the       *)
(* spill's reservations, and the faults, evictions and harvests that move  *)
(* a page between them.  RegionSeal adds the checkpoints, RegionJournal    *)
(* the journal captures, the cold copies and the next-state relation.      *)
(*                                                                         *)
(* Locks.  A fault holds its page's window (flt[p] is its one fault), the  *)
(* region shared except where it gives it up for a slot, and the page      *)
(* locks of the frames it moves; a seal, a retire and a capture hold the   *)
(* region exclusively; an eviction holds its victim's page lock alone.     *)
(* Hence the release points are the steps between which others go on: a    *)
(* copy's and a refault's reclaim, a copy's mapping command, the steps of  *)
(* an eviction and of a seal's walk.                                       *)
(***************************************************************************)
EXTENDS Naturals, FiniteSets

CONSTANTS Pages,      \* the region's pages
          Frames,     \* the slots of the arena
          Slots,      \* the reservations of the spill, one per dirty page
          Values,     \* the bytes a page may hold; 0 is a page of zeros
          None, Gone, Zero, Free, Empty,
          MaxSeals    \* bound: how many checkpoints a behaviour seals

ASSUME PagerAssumption == /\ MaxSeals \in Nat
                          /\ 0 \in Values
                          /\ IsFiniteSet(Frames)

VARIABLES
  kind,   \* what the behaviour is of: "ram" memory with its cold copies and
          \* settles, "fork" points of it and their children, memory in an
          \* "isolated" arena, or "pmem", which alone is journaled
  mem,    \* history: the bytes the guest last stored, per page
  vol,    \* [ver, data]: the identity and the bytes its volume gives a page
  bnd,    \* the bindings
  hw,     \* [f, w]: the frame the guest maps, and whether writable
  frm,    \* [data, obj, page, ver, lent]: the arena
  slot,   \* what each reservation holds
  flt,    \* the fault under way on each page
  ev,     \* the eviction under way
  seal,   \* the region's checkpoint
  cpy,    \* the checkpoint's copies
  kid,    \* the frame a fork's child on this host maps, per page
  unj,    \* the region's unjournaled pages
  coldq   \* the cold copies recorded for the session to give back

Idle == [st |-> "idle", spill |-> None, data |-> 0, held |-> 0, dirty |-> FALSE,
         origin |-> None, unmapped |-> FALSE, old |-> None]
NoEviction == [st |-> "none", f |-> None, seen |-> {}, walked |-> {}, spills |-> {}]
Unmapped == [f |-> None, w |-> FALSE]
FreeFrame == [data |-> 0, obj |-> "free", page |-> None, ver |-> 0, lent |-> FALSE]
Clean(f) == [page |-> f, dirty |-> FALSE, held |-> 0, spill |-> None, prot |-> FALSE,
             origin |-> None, cold |-> FALSE, zeroed |-> FALSE]
NoCopy == [page |-> None, spill |-> None, prot |-> FALSE, origin |-> None]

\* binding.writable: the guest may store into the page where it is.
Writable(b) == b.dirty /\ b.held = 0 /\ ~b.prot

\* The locks.  A frame is locked by the eviction of it and by a copy between
\* taking its page and landing its mapping.
Locked(f) == \/ ev.st # "none" /\ ev.f = f
             \/ \E p \in Pages : flt[p].st = "map" /\ f \in {flt[p].old, bnd[p].page}
Unlocked(f) == f = None \/ ~Locked(f)
\* The region is free to be held shared, and exclusively.
Shared == seal.st \notin {"walk", "take", "alias"}
Exclusive == Shared /\ \A p \in Pages : flt[p].st # "map"

\* The aliases of a frame: the guest's bindings, the checkpoint's copies and
\* the bindings of a fork's child.
Aliases(f) == {<<"guest", p>> : p \in {q \in Pages : bnd[q].page = f}}
         \cup {<<"copy", p>> : p \in {q \in Pages : cpy[q].page = f}}
         \cup {<<"child", p>> : p \in {q \in Pages : kid[q] = f}}
FreeFrames == {f \in Frames : frm[f].obj = "free"}
FreeSlots == {s \in Slots : slot[s] = Free}
\* The page of the identity the volume gives p, where a root holds one.
InRoot(p) == {f \in Frames : frm[f].obj = "root" /\ frm[f].page = p /\ frm[f].ver = vol[p].ver}
\* published: a page of a root, still resident, which a copy may be compared with.
Published(f) == f \in Frames /\ frm[f].obj = "root"

\* The bytes of the guest's page, and of the checkpoint's copy of it.
BytesAt(f, s) == IF f # None THEN frm[f].data ELSE slot[s]
CopyBytes(p) == BytesAt(cpy[p].page, cpy[p].spill)
GuestBytes(p) == CASE bnd[p].held # 0 -> CopyBytes(p)
                   [] bnd[p].held = 0 /\ bnd[p].dirty -> BytesAt(bnd[p].page, bnd[p].spill)
                   [] OTHER -> IF bnd[p].page # None THEN frm[bnd[p].page].data ELSE vol[p].data

\* A frame given back is no copy's origin from there: a cold copy compares
\* with its volume instead, any other finds its origin no longer published.
ForgetFrame(b, f) == IF b.origin # f THEN b ELSE [b EXCEPT !.origin = IF b.cold THEN None ELSE Gone]
ForgetCopied(c, f) == IF c.origin # f THEN c ELSE [c EXCEPT !.origin = Gone]
ForgetFault(t, f) == IF t.origin # f THEN t ELSE [t EXCEPT !.origin = Gone]

pagerVars == <<kind, mem, vol, bnd, hw, frm, slot, flt, ev, seal, cpy, kid, unj, coldq>>

---------------------------------------------------------------------------
(* The guest and its read faults.                                          *)

\* A store the hardware lets through: nothing of the pager sees it.
GuestStore(p, v) ==
  /\ hw[p].w
  /\ frm' = [frm EXCEPT ![hw[p].f].data = v]
  /\ mem' = [mem EXCEPT ![p] = v]
  /\ UNCHANGED <<kind, vol, bnd, hw, slot, flt, ev, seal, cpy, kid, unj, coldq>>

\* loadOnce of a page the region binds: mapped where it is, writable where it
\* is the region's own dirty page no capture protects.
LoadBound(p) ==
  /\ flt[p].st = "idle" /\ Shared
  /\ bnd[p].page # None /\ ~Locked(bnd[p].page)
  /\ hw' = [hw EXCEPT ![p] = [f |-> bnd[p].page, w |-> Writable(bnd[p])]]
  /\ hw' # hw
  /\ UNCHANGED <<kind, mem, vol, bnd, frm, slot, flt, ev, seal, cpy, kid, unj, coldq>>

\* loadOnce of a hole: the guest maps zeros, read-only.
LoadZero(p) ==
  /\ flt[p].st = "idle" /\ Shared
  /\ hw[p].f = None /\ bnd[p].page = None /\ ~bnd[p].dirty /\ bnd[p].held = 0
  /\ vol[p].data = 0
  /\ hw' = [hw EXCEPT ![p] = [f |-> Zero, w |-> FALSE]]
  /\ UNCHANGED <<kind, mem, vol, bnd, frm, slot, flt, ev, seal, cpy, kid, unj, coldq>>

\* The page of a clean index is found in its identity's root or read from the
\* volume into a frame supplied to that root; a fault then maps it (to = "map"),
\* a store only binds it for its copy (readIn).
BindFromRoot(p, f, mapping) ==
  /\ frm' = [frm EXCEPT ![f] = [data |-> vol[p].data, obj |-> "root", page |-> p,
                                ver |-> vol[p].ver, lent |-> FALSE]]
  /\ bnd' = [bnd EXCEPT ![p] = Clean(f)]
  /\ hw' = IF mapping THEN [hw EXCEPT ![p] = [f |-> f, w |-> FALSE]] ELSE hw
LoadPage(p, mapping) ==
  /\ flt[p].st = "idle" /\ Shared
  /\ hw[p].f = None /\ bnd[p].page = None /\ ~bnd[p].dirty /\ bnd[p].held = 0
  /\ vol[p].data # 0
  /\ \E f \in IF InRoot(p) # {} THEN InRoot(p) ELSE FreeFrames :
       ~Locked(f) /\ BindFromRoot(p, f, mapping)
  /\ UNCHANGED <<kind, mem, vol, slot, flt, ev, seal, cpy, kid, unj, coldq>>

\* Another region of the host reads the identity the volume gives p.
OtherReads(p) ==
  /\ vol[p].data # 0 /\ InRoot(p) = {}
  /\ \E f \in FreeFrames :
       frm' = [frm EXCEPT ![f] = [data |-> vol[p].data, obj |-> "root", page |-> p,
                                  ver |-> vol[p].ver, lent |-> FALSE]]
  /\ UNCHANGED <<kind, mem, vol, bnd, hw, slot, flt, ev, seal, cpy, kid, unj, coldq>>

---------------------------------------------------------------------------
(* The store faults.                                                       *)

\* noteDirtyLocked with noteStoredLocked: b is the region's own dirty page,
\* which the guest may store into without a fault, so it is unjournaled.
Dirtied(f, s, origin, zeroed) ==
  [page |-> f, dirty |-> TRUE, held |-> 0, spill |-> s, prot |-> FALSE,
   origin |-> origin, cold |-> FALSE, zeroed |-> zeroed]
NoteStored(p) == IF kind = "pmem" THEN unj \cup {p} ELSE unj

\* storeFresh: a page mapped to zero, or a hole nothing binds, takes a fresh
\* page of zeros where the zeros or the trap were.
StoreFresh(p) ==
  /\ flt[p].st = "idle" /\ Shared /\ ~hw[p].w
  /\ bnd[p].page = None /\ ~bnd[p].dirty /\ bnd[p].held = 0
  /\ hw[p].f = Zero \/ vol[p].data = 0
  /\ \E f \in FreeFrames, s \in FreeSlots :
       /\ frm' = [frm EXCEPT ![f] = [FreeFrame EXCEPT !.obj = "layer", !.page = p]]
       /\ slot' = [slot EXCEPT ![s] = Empty]
       /\ bnd' = [bnd EXCEPT ![p] = Dirtied(f, s, None, TRUE)]
       /\ hw' = [hw EXCEPT ![p] = [f |-> f, w |-> TRUE]]
  /\ unj' = NoteStored(p)
  /\ UNCHANGED <<kind, mem, vol, flt, ev, seal, cpy, kid, coldq>>

\* dirtyInPlace: the region's own Clean page is dirtied where it is.
DirtyInPlace(p) ==
  /\ flt[p].st = "idle" /\ Shared /\ ~hw[p].w
  /\ bnd[p].page # None /\ ~bnd[p].dirty /\ bnd[p].held = 0
  /\ frm[bnd[p].page].obj = "layer" /\ ~Locked(bnd[p].page)
  /\ \E s \in FreeSlots :
       /\ slot' = [slot EXCEPT ![s] = Empty]
       /\ bnd' = [bnd EXCEPT ![p] = Dirtied(bnd[p].page, s, None, FALSE)]
  /\ hw' = [hw EXCEPT ![p] = [f |-> bnd[p].page, w |-> TRUE]]
  /\ unj' = NoteStored(p)
  /\ UNCHANGED <<kind, mem, vol, frm, flt, ev, seal, cpy, kid, coldq>>

\* copyOnWrite up to its reclaim: a reservation is taken, the bytes of a
\* root's page or of the checkpoint's copy are read with the page held, and
\* the region is given up for the slot.
CopyStart(p) ==
  /\ flt[p].st = "idle" /\ Shared /\ ~hw[p].w
  /\ \/ bnd[p].held # 0
     \/ ~bnd[p].dirty /\ Published(bnd[p].page)
  /\ Unlocked(bnd[p].page)
  /\ \E s \in FreeSlots :
       /\ slot' = [slot EXCEPT ![s] = Empty]
       /\ flt' = [flt EXCEPT ![p] =
            [Idle EXCEPT !.st = "copy", !.spill = s, !.data = GuestBytes(p), !.held = bnd[p].held,
                         !.origin = IF Published(bnd[p].page) THEN bnd[p].page ELSE None,
                         !.unmapped = hw[p].f = None]]
  /\ UNCHANGED <<kind, mem, vol, bnd, hw, frm, ev, seal, cpy, kid, unj, coldq>>

\* What was decided against the checkpoint's copy is decided again where a
\* seal, a retire or an abandon came between.
CopyStands(p) == bnd[p].held = flt[p].held

CopyAgain(p) ==
  /\ flt[p].st = "copy" /\ Shared /\ ~CopyStands(p)
  /\ slot' = [slot EXCEPT ![flt[p].spill] = Free]
  /\ flt' = [flt EXCEPT ![p] = Idle]
  /\ UNCHANGED <<kind, mem, vol, bnd, hw, frm, ev, seal, cpy, kid, unj, coldq>>

\* takePrivate: the copy is the Dirty page of the layer, the checkpoint's page
\* of its pause goes beside the page list, and the page the guest still maps
\* is held until the store's command lands.
CopyTake(p) ==
  /\ flt[p].st = "copy" /\ Shared /\ CopyStands(p) /\ Unlocked(bnd[p].page)
  /\ \E f \in FreeFrames :
       /\ frm' = [frm EXCEPT ![f] = [FreeFrame EXCEPT !.obj = "layer", !.page = p, !.data = flt[p].data]]
       /\ bnd' = [bnd EXCEPT ![p] = Dirtied(f, flt[p].spill, flt[p].origin, FALSE)]
  /\ unj' = NoteStored(p)
  /\ flt' = [flt EXCEPT ![p].st = "map", ![p].old = IF hw[p].f \in Frames THEN hw[p].f ELSE None]
  /\ UNCHANGED <<kind, mem, vol, hw, slot, ev, seal, cpy, kid, coldq>>

\* markCold: the copy a store trap on an unmapped root's page made is cold,
\* compared with its origin, or with its volume where the origin went.
MarkCold(p) == LET o == flt[p].origin IN
  /\ bnd' = [bnd EXCEPT ![p].cold = TRUE, ![p].origin = IF o = Gone THEN None ELSE o]
  /\ coldq' = coldq \cup {p}

\* The mapping command lands; cold says whether a store trap's copy may be cold.
CopyMap(p, cold) ==
  /\ flt[p].st = "map"
  /\ hw' = [hw EXCEPT ![p] = [f |-> bnd[p].page, w |-> TRUE]]
  /\ flt' = [flt EXCEPT ![p] = Idle]
  /\ IF cold /\ flt[p].unmapped /\ flt[p].origin # None THEN MarkCold(p) ELSE UNCHANGED <<bnd, coldq>>
  /\ UNCHANGED <<kind, mem, vol, frm, slot, ev, seal, cpy, kid, unj>>

\* The client refused it: what the guest read there is taken away.
CopyRefused(p) ==
  /\ flt[p].st = "map"
  /\ hw' = [hw EXCEPT ![p] = Unmapped]
  /\ flt' = [flt EXCEPT ![p] = Idle]
  /\ UNCHANGED <<kind, mem, vol, bnd, frm, slot, ev, seal, cpy, kid, unj, coldq>>

\* unprotectForStore: a store trap on a page a capture protected makes it
\* writable where it is, and unjournaled again.
UnprotectForStore(p) ==
  /\ flt[p].st = "idle" /\ Shared
  /\ bnd[p].prot /\ Unlocked(bnd[p].page)
  /\ bnd' = [bnd EXCEPT ![p].prot = FALSE]
  /\ unj' = NoteStored(p)
  /\ hw' = IF bnd[p].page = None THEN hw ELSE [hw EXCEPT ![p] = [f |-> bnd[p].page, w |-> TRUE]]
  /\ UNCHANGED <<kind, mem, vol, frm, slot, flt, ev, seal, cpy, kid, coldq>>

\* refault: a spilled private page's bytes are read from the reservation that
\* holds them, and the region is given up for a slot.
Refault(p) ==
  /\ flt[p].st = "idle" /\ Shared
  /\ bnd[p].dirty \/ bnd[p].held # 0
  /\ bnd[p].page = None /\ (bnd[p].held # 0 => cpy[p].page = None)
  /\ flt' = [flt EXCEPT ![p] = [Idle EXCEPT !.st = "fill", !.data = GuestBytes(p),
                                            !.held = bnd[p].held, !.dirty = bnd[p].dirty]]
  /\ UNCHANGED <<kind, mem, vol, bnd, hw, frm, slot, ev, seal, cpy, kid, unj, coldq>>

RefaultStands(p) == /\ bnd[p].dirty = flt[p].dirty /\ bnd[p].held = flt[p].held /\ bnd[p].page = None
                    /\ bnd[p].held # 0 => cpy[p].page = None
RefaultAgain(p) ==
  /\ flt[p].st = "fill" /\ Shared /\ ~RefaultStands(p)
  /\ flt' = [flt EXCEPT ![p] = Idle]
  /\ UNCHANGED <<kind, mem, vol, bnd, hw, frm, slot, ev, seal, cpy, kid, unj, coldq>>

\* The protection is read again: a capture may have taken the page meanwhile.
RefaultWritable(p) == bnd[p].held = 0 /\ ~bnd[p].prot
RefaultFill(p) ==
  /\ flt[p].st = "fill" /\ Shared /\ RefaultStands(p)
  /\ \E f \in FreeFrames :
       /\ frm' = [frm EXCEPT ![f] = [FreeFrame EXCEPT !.obj = "layer", !.page = p, !.data = flt[p].data]]
       /\ bnd' = [bnd EXCEPT ![p].page = f]
       /\ cpy' = IF bnd[p].held = 0 THEN cpy ELSE [cpy EXCEPT ![p].page = f]
       /\ hw' = [hw EXCEPT ![p] = [f |-> f, w |-> RefaultWritable(p)]]
  /\ slot' = IF bnd[p].held = 0 THEN [slot EXCEPT ![bnd[p].spill] = Empty] ELSE slot
  /\ flt' = [flt EXCEPT ![p] = Idle]
  /\ UNCHANGED <<kind, mem, vol, ev, seal, kid, unj, coldq>>

---------------------------------------------------------------------------
(* Eviction, harvest and the idle pages.                                   *)

\* A frame leaves its object, and nothing names it from here.
DropFrame(f) ==
  /\ frm' = [frm EXCEPT ![f] = FreeFrame]
  /\ bnd' = [p \in Pages |-> [ForgetFrame(bnd[p], f) EXCEPT !.page = IF bnd[p].page = f THEN None ELSE bnd[p].page]]
  /\ cpy' = [p \in Pages |-> [ForgetCopied(cpy[p], f) EXCEPT !.page = IF cpy[p].page = f THEN None ELSE cpy[p].page]]
  /\ flt' = [p \in Pages |-> ForgetFault(flt[p], f)]
  /\ kid' = [p \in Pages |-> IF kid[p] = f THEN None ELSE kid[p]]

\* A reclaim locks its victim without waiting.
EvictLock(f) ==
  /\ ev.st = "none" /\ frm[f].obj # "free" /\ ~Locked(f)
  /\ ev' = [NoEviction EXCEPT !.st = "look", !.f = f]
  /\ UNCHANGED <<kind, mem, vol, bnd, hw, frm, slot, flt, seal, cpy, kid, unj, coldq>>

\* evictPages reads the aliases, then the reservations of those it has not
\* walked, and again while the aliases grow.
EvictLook ==
  /\ ev.st = "look"
  /\ LET grown == Aliases(ev.f) \ ev.walked IN
       ev' = [ev EXCEPT !.st = IF grown = {} THEN "spill" ELSE "target", !.seen = grown]
  /\ UNCHANGED <<kind, mem, vol, bnd, hw, frm, slot, flt, seal, cpy, kid, unj, coldq>>

\* spillTarget: the reservation a binding's bytes go to, and whether a page
\* that names none has them elsewhere.  A copy the seal's walk has not yet
\* handed its reservation is dirty and held by no checkpoint.
SpillTarget(a) == CASE a[1] = "guest" -> bnd[a[2]].spill
                    [] a[1] = "copy" -> cpy[a[2]].spill
                    [] OTHER -> None
Elsewhere(a) == CASE a[1] = "guest" -> ~bnd[a[2]].dirty \/ bnd[a[2]].held # 0
                  [] a[1] = "copy" -> FALSE
                  [] OTHER -> TRUE
NoReservation(a) == frm[ev.f].obj # "root" /\ SpillTarget(a) = None /\ ~Elsewhere(a)
EvictTarget ==
  /\ ev.st = "target" /\ \A a \in ev.seen : ~NoReservation(a)
  /\ ev' = [ev EXCEPT !.st = "look", !.seen = {}, !.walked = @ \cup ev.seen,
                      !.spills = @ \cup IF frm[ev.f].obj = "root" THEN {}
                                        ELSE {SpillTarget(a) : a \in ev.seen} \ {None}]
  /\ UNCHANGED <<kind, mem, vol, bnd, hw, frm, slot, flt, seal, cpy, kid, unj, coldq>>

\* Every alias's mapping is revoked, and the bytes go to the reservations.
Revoked == [p \in Pages |-> IF <<"guest", p>> \in ev.walked THEN Unmapped ELSE hw[p]]
EvictSpill ==
  /\ ev.st = "spill"
  /\ hw' = Revoked
  /\ slot' = [s \in Slots |-> IF s \in ev.spills THEN frm[ev.f].data ELSE slot[s]]
  /\ ev' = [ev EXCEPT !.st = "drop"]
  /\ UNCHANGED <<kind, mem, vol, bnd, frm, flt, seal, cpy, kid, unj, coldq>>

\* The page leaves its object, its aliases go, and its slot is given back.
EvictDrop ==
  /\ ev.st = "drop"
  /\ DropFrame(ev.f)
  /\ ev' = NoEviction
  /\ UNCHANGED <<kind, mem, vol, hw, slot, seal, unj, coldq>>

\* An eviction that stops leaves its page where it was: at a victim with no
\* reservation, or at a spill that failed, with the mappings revoked.
EvictStop ==
  /\ \/ ev.st = "target" /\ (\E a \in ev.seen : NoReservation(a)) /\ hw' = hw
     \/ ev.st = "spill" /\ hw' = Revoked
  /\ ev' = NoEviction
  /\ UNCHANGED <<kind, mem, vol, bnd, frm, slot, flt, seal, cpy, kid, unj, coldq>>

\* harvestPages: every mapping of a page goes, and the page stays.
Harvest(f) ==
  /\ ~Locked(f) /\ \E p \in Pages : hw[p].f = f
  /\ hw' = [p \in Pages |-> IF bnd[p].page = f THEN Unmapped ELSE hw[p]]
  /\ UNCHANGED <<kind, mem, vol, bnd, frm, slot, flt, ev, seal, cpy, kid, unj, coldq>>

\* takeIdle: a root's page nothing maps is given up.
TakeIdle(f) ==
  /\ frm[f].obj = "root" /\ Aliases(f) = {} /\ ~Locked(f)
  /\ DropFrame(f)
  /\ UNCHANGED <<kind, mem, vol, hw, slot, ev, seal, unj, coldq>>
=============================================================================
