----------------------------- MODULE RegionSeal -----------------------------
(***************************************************************************)
(* The checkpoints of a memory region (vmmemory/checkpoint.go, settle.go): *)
(* a seal write-protects the dirty set and its walk makes every page of it *)
(* the checkpoint's, a settle drops the copies the guest did not change, a *)
(* fork point lends the pages to a child on this host, the volume          *)
(* publishes what the seal froze, and a retire or an abandon ends it page  *)
(* by page.                                                                *)
(*                                                                         *)
(* seal: st is none, walk (protected), take (cold copies compared), alias  *)
(* (copies aliased, reservations not yet handed over), standing, or        *)
(* abandoning; n numbers the seal; pend is the set it took; same what a    *)
(* settle found unchanged; pub that the volume selected the checkpoint;    *)
(* unj the unjournaled pages it took.  sealed and forked are histories:    *)
(* the bytes the standing seal froze, and those of the fork point a child  *)
(* mapped its page of.                                                     *)
(***************************************************************************)
EXTENDS RegionPages

VARIABLES sealed, forked
sealVars == <<sealed, forked>>

NoSeal == [st |-> "none", n |-> 0, pend |-> {}, same |-> {}, pub |-> FALSE, unj |-> {}]

\* protectDirtyRuns: the pages the guest maps writable lose their write access.
LeftWritable(S) == hw
WriteProtected(S) == [p \in Pages |-> IF p \in S THEN [hw[p] EXCEPT !.w = FALSE] ELSE hw[p]]
Mapped(p) == hw[p].f # None
DirtySet == {p \in Pages : bnd[p].dirty /\ bnd[p].held = 0}

\* Seal: the whole of the pause.  What the journal does with it is RegionJournal's.
SealPause ==
  /\ Exclusive /\ seal.st = "none" /\ seal.n < MaxSeals
  /\ hw' = WriteProtected({p \in Pages : hw[p].w})
  /\ seal' = [NoSeal EXCEPT !.st = "walk", !.n = seal.n + 1, !.pend = DirtySet, !.unj = unj]
  /\ unj' = {}
  /\ sealed' = mem
  /\ UNCHANGED <<kind, mem, vol, bnd, frm, slot, flt, ev, cpy, kid, coldq, forked>>

\* A seal whose protection failed takes the mappings it protected away, and
\* nothing else.
SealRefused ==
  /\ Exclusive /\ seal.st = "none" /\ seal.n < MaxSeals
  /\ \E S \in SUBSET {p \in Pages : hw[p].w} :
       S # {} /\ hw' = [p \in Pages |-> IF p \in S THEN Unmapped ELSE hw[p]]
  /\ UNCHANGED <<kind, mem, vol, bnd, frm, slot, flt, ev, seal, cpy, kid, unj, coldq, sealVars>>

\* stillOrigins: a cold copy still holds its origin's bytes, or its volume's
\* where the origin has gone.
StillOrigins(p) == IF bnd[p].origin = None THEN GuestBytes(p) = vol[p].data
                   ELSE Published(bnd[p].origin) /\ GuestBytes(p) = frm[bnd[p].origin].data
Cold == {p \in seal.pend : bnd[p].cold}
Uncold(b) == [b EXCEPT !.cold = FALSE]

\* leaveOutColdCopies: an unchanged cold copy is no part of the checkpoint and
\* stays the guest's, cold and writable; a changed one stops being cold.  A
\* comparison that fails leaves every copy in the set.
LeaveOutColdCopies ==
  /\ seal.st = "walk"
  /\ \A p \in Cold : Unlocked(bnd[p].page) /\ (bnd[p].origin \in Frames => ~Locked(bnd[p].origin))
  /\ \E left \in {{}, {p \in Cold : StillOrigins(p)}} :
       /\ seal' = [seal EXCEPT !.st = "take", !.pend = @ \ left]
       /\ bnd' = [p \in Pages |-> IF p \in Cold /\ ~StillOrigins(p) THEN Uncold(bnd[p]) ELSE bnd[p]]
       /\ hw' = [p \in Pages |-> IF p \in left /\ Mapped(p) THEN [hw[p] EXCEPT !.w = TRUE] ELSE hw[p]]
  /\ UNCHANGED <<kind, mem, vol, frm, slot, flt, ev, cpy, kid, unj, coldq, sealVars>>

\* takePages: each copy aliases the page the guest has, and then takes the
\* reservation it was admitted under and where it was copied from.
TakeAlias ==
  /\ seal.st = "take"
  /\ seal' = [seal EXCEPT !.st = "alias"]
  /\ cpy' = [p \in Pages |-> IF p \in seal.pend THEN [NoCopy EXCEPT !.page = bnd[p].page] ELSE cpy[p]]
  /\ UNCHANGED <<kind, mem, vol, bnd, hw, frm, slot, flt, ev, kid, unj, coldq, sealVars>>

HoldInCheckpoint(b) == [b EXCEPT !.held = seal.n, !.spill = None, !.prot = FALSE, !.origin = None,
                                 !.cold = FALSE, !.zeroed = FALSE]
TakeHold ==
  /\ seal.st = "alias"
  /\ seal' = [seal EXCEPT !.st = "standing", !.pend = {}]
  /\ cpy' = [p \in Pages |-> IF p \notin seal.pend THEN cpy[p]
                             ELSE [page |-> cpy[p].page, spill |-> bnd[p].spill, prot |-> bnd[p].prot,
                                   origin |-> bnd[p].origin]]
  /\ bnd' = [p \in Pages |-> IF p \in seal.pend THEN HoldInCheckpoint(bnd[p]) ELSE bnd[p]]
  /\ UNCHANGED <<kind, mem, vol, hw, frm, slot, flt, ev, kid, unj, coldq, sealVars>>

\* The copies the checkpoint still lists.
Copies == {p \in Pages : cpy[p].spill # None}
\* The guest still shares the checkpoint's copy.
Shares(p) == bnd[p].held = seal.n /\ seal.n # 0

---------------------------------------------------------------------------
(* The settle.                                                             *)

\* compare: the copy holds its origin's bytes, both pages held.
SettleCompare(p) ==
  /\ seal.st = "standing" /\ ~seal.pub
  /\ p \in Copies \ seal.same /\ cpy[p].page # None
  /\ Published(cpy[p].origin) /\ ~Locked(cpy[p].origin) /\ ~Locked(cpy[p].page)
  /\ frm[cpy[p].origin].data = frm[cpy[p].page].data
  /\ seal' = [seal EXCEPT !.same = @ \cup {p}]
  /\ UNCHANGED <<kind, mem, vol, bnd, hw, frm, slot, flt, ev, cpy, kid, unj, coldq, sealVars>>

\* reshareBatch and dropCopy, with the region held again: an origin that went
\* or is held, or a copy spilled since, leaves the copy in the checkpoint.
OriginStands(p) == Published(cpy[p].origin) /\ ~Locked(cpy[p].origin)
SettleDrop(p) ==
  /\ Exclusive /\ seal.st = "standing" /\ ~seal.pub
  /\ p \in seal.same \cap Copies /\ OriginStands(p)
  /\ cpy[p].page # None /\ ~Locked(cpy[p].page)
  /\ hw' = IF Shares(p) THEN [hw EXCEPT ![p] = Unmapped] ELSE hw
  /\ bnd' = IF Shares(p) THEN [bnd EXCEPT ![p] = Clean(cpy[p].origin)] ELSE bnd
  /\ frm' = [frm EXCEPT ![cpy[p].page] = FreeFrame]
  /\ slot' = [slot EXCEPT ![cpy[p].spill] = Free]
  /\ cpy' = [cpy EXCEPT ![p] = NoCopy]
  /\ UNCHANGED <<kind, mem, vol, flt, ev, seal, kid, unj, coldq, sealVars>>

---------------------------------------------------------------------------
(* A fork point's lending.                                                 *)

\* Share lends each resident copy under the name the fork point gives it.
Share(p) ==
  /\ seal.st = "standing" /\ kind = "fork" /\ p \in Copies
  /\ cpy[p].page # None /\ ~Locked(cpy[p].page) /\ ~frm[cpy[p].page].lent
  /\ frm' = [frm EXCEPT ![cpy[p].page].lent = TRUE]
  /\ UNCHANGED <<kind, mem, vol, bnd, hw, slot, flt, ev, seal, cpy, kid, unj, coldq, sealVars>>

\* A child of the point on this host maps the page the name lends, holding
\* the page's lock, and may give it up at any time.
ChildMaps(p, f) ==
  /\ frm[f].lent /\ frm[f].page = p /\ ~Locked(f) /\ kid[p] = None
  /\ kid' = [kid EXCEPT ![p] = f]
  /\ forked' = [forked EXCEPT ![p] = sealed[p]]
  /\ UNCHANGED <<kind, mem, vol, bnd, hw, frm, slot, flt, ev, seal, cpy, unj, coldq, sealed>>
ChildLeaves(p) ==
  /\ kid[p] # None
  /\ kid' = [kid EXCEPT ![p] = None]
  /\ forked' = [forked EXCEPT ![p] = 0]
  /\ UNCHANGED <<kind, mem, vol, bnd, hw, frm, slot, flt, ev, seal, cpy, unj, coldq, sealed>>

---------------------------------------------------------------------------
(* Publication, retirement and abandonment.                                *)

\* The volume selects a checkpoint that read every copy (ReadDirty): each of
\* its pages has a new identity, and the settle is over.  External: package
\* volume.
VolumePublishes ==
  /\ seal.st = "standing" /\ ~seal.pub
  /\ seal' = [seal EXCEPT !.pub = TRUE, !.same = {}]
  /\ vol' = [p \in Pages |-> IF p \in Copies THEN [ver |-> seal.n, data |-> CopyBytes(p)] ELSE vol[p]]
  /\ UNCHANGED <<kind, mem, bnd, hw, frm, slot, flt, ev, cpy, kid, unj, coldq, sealVars>>

\* adopt: the root of the page's identity holds nothing there.
Adoptable(p) == vol[p].data # 0 /\ InRoot(p) = {}
Adopted(p) == [frm EXCEPT ![cpy[p].page] = [@ EXCEPT !.obj = "root", !.page = p, !.ver = vol[p].ver, !.lent = FALSE]]
\* dropSharers: the page is no other region's from here.
SharersDropped(f) == [p \in Pages |-> IF kid[p] = f THEN None ELSE kid[p]]

\* finalizeCheckpoint of a page the guest still shares (publish): it moves into
\* the root of its identity, or is handed back where the volume holds no object
\* for it or another page holds its identity.  In an isolated arena a page the
\* publication read no digest of is kept, the region's own Clean page.
Unlent(f) == [frm[f] EXCEPT !.lent = FALSE]
RetireShared(p, kept) ==
  /\ Exclusive /\ seal.st = "standing" /\ seal.pub
  /\ p \in Copies /\ Shares(p) /\ Unlocked(cpy[p].page)
  /\ LET f == cpy[p].page
         handBack == f # None /\ ~kept /\ ~Adoptable(p)
     IN /\ kept => kind = "isolated" /\ f # None /\ vol[p].data # 0
        /\ bnd' = [bnd EXCEPT ![p] = Clean(IF handBack THEN None ELSE bnd[p].page)]
        /\ hw' = IF handBack THEN [hw EXCEPT ![p] = Unmapped] ELSE hw
        /\ frm' = CASE f = None -> frm
                    [] handBack -> [frm EXCEPT ![f] = FreeFrame]
                    [] kept -> [frm EXCEPT ![f] = Unlent(f)]
                    [] OTHER -> Adopted(p)
        /\ kid' = IF handBack THEN SharersDropped(f) ELSE kid
  /\ slot' = [slot EXCEPT ![cpy[p].spill] = Free]
  /\ cpy' = [cpy EXCEPT ![p] = NoCopy]
  /\ UNCHANGED <<kind, mem, vol, flt, ev, seal, unj, coldq, sealVars>>

\* retireCopy: the guest stored into the page since, so the copy goes, unless
\* a child still maps it and it can become the page of its identity.
RetireCopy(p) ==
  /\ Exclusive /\ seal.st = "standing" /\ seal.pub
  /\ p \in Copies /\ ~Shares(p) /\ Unlocked(cpy[p].page)
  /\ LET f == cpy[p].page
         named == f # None /\ kid[p] = f /\ Adoptable(p)
     IN /\ frm' = CASE f = None -> frm
                    [] named -> Adopted(p)
                    [] OTHER -> [frm EXCEPT ![f] = FreeFrame]
        /\ kid' = IF f = None \/ named THEN kid ELSE SharersDropped(f)
  /\ slot' = [slot EXCEPT ![cpy[p].spill] = Free]
  /\ cpy' = [cpy EXCEPT ![p] = NoCopy]
  /\ UNCHANGED <<kind, mem, vol, bnd, hw, flt, ev, seal, unj, coldq, sealVars>>

\* abandonCopies: a page the guest shares takes its reservation, its origin
\* and its protection back; a copy the guest copied away from goes.  stop says
\* the abandon stopped before the batch's revocation.
RestoreFromCheckpoint(p) == [bnd[p] EXCEPT !.held = 0, !.spill = cpy[p].spill, !.prot = cpy[p].prot,
                                           !.origin = cpy[p].origin]
AbandonCopy(p, stop) ==
  /\ Exclusive /\ seal.st \in {"standing", "abandoning"} /\ ~seal.pub
  /\ p \in Copies /\ Unlocked(cpy[p].page)
  /\ LET f == cpy[p].page IN
       /\ kid' = IF f = None THEN kid ELSE SharersDropped(f)
       /\ IF Shares(p)
          THEN /\ bnd' = [bnd EXCEPT ![p] = RestoreFromCheckpoint(p)]
               /\ frm' = IF f = None THEN frm ELSE [frm EXCEPT ![f] = Unlent(f)]
               /\ hw' = IF stop THEN hw ELSE [hw EXCEPT ![p] = Unmapped]
               /\ slot' = slot
          ELSE /\ ~stop
               /\ frm' = IF f = None THEN frm ELSE [frm EXCEPT ![f] = FreeFrame]
               /\ slot' = [slot EXCEPT ![cpy[p].spill] = Free]
               /\ UNCHANGED <<bnd, hw>>
  /\ cpy' = [cpy EXCEPT ![p] = NoCopy]
  /\ seal' = [seal EXCEPT !.st = "abandoning", !.same = {}]
  /\ UNCHANGED <<kind, mem, vol, flt, ev, unj, coldq, sealVars>>

\* endSeal once every copy is done: endUnjournaled drops the list of a
\* published checkpoint and gives an abandoned one's back, and endFork takes
\* the names lent back.
EndUnjournaled == IF seal.pub THEN unj ELSE unj \cup seal.unj
EndSeal ==
  /\ Exclusive /\ seal.st \in {"standing", "abandoning"} /\ Copies = {}
  /\ seal' = [NoSeal EXCEPT !.n = seal.n]
  /\ unj' = EndUnjournaled
  /\ frm' = [f \in Frames |-> [frm[f] EXCEPT !.lent = FALSE]]
  /\ sealed' = [p \in Pages |-> 0]
  /\ UNCHANGED <<kind, mem, vol, bnd, hw, slot, flt, ev, cpy, kid, coldq, forked>>
=============================================================================
