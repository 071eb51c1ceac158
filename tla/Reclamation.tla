---------------------------- MODULE Reclamation -----------------------------
(***************************************************************************)
(* VM handles that publish checkpoints, fork, keep, release and delete     *)
(* over one object store (volume/ over checkpoint/ and control/), and the  *)
(* sweeps that delete checkpoints behind them.                             *)
(*                                                                         *)
(* Each operation on a control record is one whole change of it, which is  *)
(* what VmRecord promises; a selection may also be sent and its outcome    *)
(* not learned, in which case it lands later or never. A handle is named   *)
(* by the nonce it drew. What the guest wrote is not told apart: a capture *)
(* publishes any set of pages, because a page dirtied again or settled as  *)
(* unchanged may be in it or not.                                          *)
(***************************************************************************)
EXTENDS Checkpoints

CONSTANT Bounds     \* what a behaviour may do: it starts with one of these

\* An identity is made at most once. A VM's epoch is drawn at random, and that no
\* other VM of the same identity comes to use it is not a fact of the code alone.
ASSUME BoundsAssumption == \A b \in Bounds : "made" \in DOMAIN b /\ b.made \in [VMs -> {0, 1}]

VARIABLES
    rec,        \* control records
    indexes,    \* checkpoints whose index object is stored
    parts,      \* checkpoints whose parts are stored
    published,  \* every index ever put: an index object never changes
    handle,     \* each handle's VM
    late,       \* selections sent and not answered
    sweeps,     \* sweeps planned or running
    bound       \* what is left of the bounds this behaviour started with

vars == <<rec, indexes, parts, published, handle, late, sweeps, bound>>

Handles == Writers

\* The bounds. faults are selections whose outcome the handle never learns,
\* abandoned publications that fail, captures publications begun, points fork
\* points taken, made the times each identity may be created; pages are those the
\* guest writes, and allows the kinds of operation that happen at all.
Allows(kind) == kind \in bound.allows
Spend(kind) == bound[kind] > 0 /\ bound' = [bound EXCEPT ![kind] = @ - 1]
SpendName(v) == bound.made[v] > 0 /\ bound' = [bound EXCEPT !.made[v] = @ - 1]

NoCkpt == [step |-> "none"]
NoPoint == [landed |-> "none"]
NoHandle ==
    [at |-> "new", vm |-> NoRef, epoch |-> 0, base |-> NoRef, owned |-> NoRef, root |-> FALSE,
     next |-> 1, spared |-> {}, from |-> NoRef, ckpt |-> NoCkpt, point |-> NoPoint,
     replaced |-> NoRef, shadowed |-> {}]

\* The control record is the one this handle's writes are conditional on.
Holds(h) == LET v == handle[h].vm IN rec[v] # NoRecord /\ Mine(rec[v], handle[h].epoch, h)

Ref(h) == <<handle[h].vm, <<handle[h].epoch, handle[h].next>>>>

\* Every index of these references can be opened.
Openable(refs) == refs \subseteq indexes

\* The index objects once this one is put: whatever was under its reference goes.
Put(ref, index) == [r \in DOMAIN published \cup {ref} |-> IF r = ref THEN index ELSE published[r]]

SparedBy(v, sequences) == UNION {ProtectedBy(published[<<v, s>>]) : s \in sequences}

-----------------------------------------------------------------------------
(* Creating and opening a VM.                                              *)

Used(v) == \E ref \in indexes \cup parts : VmOf(ref) = v

\* Manager.create: a record that is absent, an identity nothing is stored under,
\* and the root published before the record exists.
\* The epoch is drawn at random, so no earlier VM of this identity drew it.
CreateRoot(h, v) ==
    /\ handle[h].at = "new" /\ rec[v] = NoRecord
    /\ ~Used(v) /\ SpendName(v)
    /\ \E epoch \in 1 .. MaximumCreateEpoch :
          LET ref == <<v, <<epoch, 1>>>>
          IN  /\ \A r \in DOMAIN published : VmOf(r) = v => EpochOf(SequenceOf(r)) # epoch
              /\ \A g \in Handles : handle[g].vm = v => handle[g].epoch # epoch
              /\ indexes' = indexes \cup {ref} /\ published' = Put(ref, Root(ref))
              /\ handle' = [handle EXCEPT ![h].at = "root", ![h].vm = v, ![h].epoch = epoch,
                                          ![h].base = ref]
    /\ UNCHANGED <<rec, parts, late, sweeps>>

\* Control.Create, and ErrExists.
CreateRecord(h) ==
    /\ handle[h].at = "root"
    /\ LET v == handle[h].vm
       IN  IF rec[v] = NoRecord
           THEN /\ rec' = [rec EXCEPT ![v] = Created(h, SequenceOf(handle[h].base), TRUE)]
                /\ handle' = [handle EXCEPT ![h].at = "up", ![h].owned = handle[h].base,
                                            ![h].next = 2]
           ELSE rec' = rec /\ handle' = [handle EXCEPT ![h].at = "closed"]
    /\ UNCHANGED <<indexes, parts, published, late, sweeps, bound>>

\* Manager.OpenWith: the epoch is taken first, and only then is the index of the
\* selected checkpoint read. What an earlier writer published is never this
\* handle's to reclaim.
Open(h, v) ==
    /\ Allows("open")
    /\ handle[h].at = "new" /\ rec[v] # NoRecord /\ rec[v].created /\ CanTake(rec[v], FALSE)
    /\ rec' = [rec EXCEPT ![v] = Taken(rec[v], h, FALSE)]
    /\ handle' = [handle EXCEPT ![h].at = "taken", ![h].vm = v, ![h].epoch = rec[v].epoch + 1,
                                ![h].base = <<v, rec[v].selected>>,
                                ![h].spared = Protected(rec[v])]
    /\ UNCHANGED <<indexes, parts, published, late, sweeps, bound>>

OpenIndex(h) ==
    /\ handle[h].at = "taken"
    /\ handle' = [handle EXCEPT ![h].at = IF Openable({handle[h].base}) THEN "up" ELSE "closed"]
    /\ UNCHANGED <<rec, indexes, parts, published, late, sweeps, bound>>

-----------------------------------------------------------------------------
(* Publication, under the handle's publication lock (ckpt).                *)

\* readyLocked, and ErrCapacity once the epoch has no counter left.
Ready(h) == handle[h].at = "up" /\ handle[h].ckpt = NoCkpt /\ handle[h].next <= MaximumCounter

\* The fork point of the handle a fork was taken from, once it has landed.
PointOf(h) == handle[handle[h].from].point

\* A fork that has published nothing; its root waits for its point, and builds on
\* what the parent published or publishes what it inherited.
Child(h) == handle[h].root /\ handle[h].from # NoRef
Landed(h) == Child(h) /\ PointOf(h).landed = "published"
WithInherited(h, written) == written \cup (IF Child(h) /\ ~Landed(h) THEN PointOf(h).pages ELSE {})

\* The handle once a capture has begun a publication, of its next sequence.
Captured(h, written, zeroed, keep, state) ==
    [handle[h] EXCEPT
       !.next = @ + 1,
       !.ckpt = [step |-> "commit", ref |-> Ref(h), keep |-> keep,
                 parent |-> IF Landed(h) THEN PointOf(h).ref ELSE handle[h].base,
                 written |-> WithInherited(h, written) \cup (IF state = "write" THEN {State} ELSE {}),
                 zeroed |-> zeroed \cup (IF state = "drop" THEN {State} ELSE {}),
                 protected |-> handle[h].spared, point |-> FALSE]]

\* captureLocked: a snapshot writes the state, a checkpoint of the disks drops
\* it, an overlay checkpoint inherits it.
Capture(h) ==
    /\ Ready(h) /\ Spend("captures")
    /\ Child(h) => PointOf(h).landed # "pending"
    /\ \E written \in SUBSET bound.pages, zeroed \in SUBSET bound.pages, keep \in BOOLEAN,
         state \in {"inherit"} \cup (IF Allows("state") THEN {"write", "drop"} ELSE {}) :
          /\ zeroed \subseteq WithInherited(h, written) /\ (zeroed # {} => Allows("zero"))
          /\ state = "inherit" => WithInherited(h, written) # {} \/ handle[h].root
          /\ state # "inherit" => handle[h].point = NoPoint
          /\ keep => Allows("keep")
          /\ handle' = [handle EXCEPT ![h] = Captured(h, written, zeroed, keep, state)]
    /\ UNCHANGED <<rec, indexes, parts, published, late, sweeps>>

\* Commit: the parts, then the index object once everything it names is durable.
\* The checkpoints that compaction rewrites are any of those it may, within its
\* budget; what it must read and cannot fails the publication.
Commit(h) ==
    /\ handle[h].at = "up" /\ handle[h].ckpt.step = "commit"
    /\ LET ckpt == handle[h].ckpt
           edited == EditedIndex(published[ckpt.parent], ckpt.ref, ckpt.written, ckpt.zeroed)
           wrote == [ref \in DOMAIN published |-> Members(published[ref])]
       IN  /\ Openable({<<handle[h].vm, s>> : s \in ckpt.protected})
           /\ \E rewriting \in SUBSET Eligible(edited, SparedBy(handle[h].vm, ckpt.protected), wrote) :
                 /\ rewriting \subseteq parts
                 /\ published' = Put(ckpt.ref, Compacted(edited, rewriting))
           /\ parts' = parts \cup {ckpt.ref}
           /\ indexes' = indexes \cup {ckpt.ref}
           /\ handle' = [handle EXCEPT ![h].ckpt =
                 [step |-> "select", ref |-> ckpt.ref, keep |-> ckpt.keep,
                  written |-> ckpt.written \cup ckpt.zeroed, point |-> ckpt.point]]
    /\ UNCHANGED <<rec, late, sweeps, bound>>

\* A sweep to plan: previous and current are the indexes Reclaim is given.
Reclaim(previous, current, protected, opening) ==
    [previous |-> previous, current |-> current, protected |-> protected, opening |-> opening,
     dead |-> {}, planned |-> FALSE]

\* install adopts the checkpoint; the view it replaces read every page the
\* checkpoint did not publish, and may be read through until the next one.
Installed(h, spared) ==
    LET ckpt == handle[h].ckpt
    IN  [handle[h] EXCEPT !.owned = ckpt.ref, !.base = ckpt.ref, !.root = FALSE, !.from = NoRef,
                          !.spared = spared, !.ckpt = NoCkpt,
                          !.replaced = IF handle[h].root THEN NoRef ELSE handle[h].base,
                          !.shadowed = ckpt.written]

\* Mutant: the sweep goes by what the handle knew before it selected.
SweptByStale(h, record) ==
    IF handle[h].owned = NoRef THEN {}
    ELSE {Reclaim(handle[h].owned, handle[h].ckpt.ref, handle[h].spared, FALSE)}

\* reclaim: what this handle published before, spared by the record its
\* selection returned.
Swept(h, record) ==
    IF handle[h].owned = NoRef THEN {}
    ELSE {Reclaim(handle[h].owned, handle[h].ckpt.ref, Protected(record), FALSE)}

\* selecting: whether the record accepts this handle's checkpoint.
Selecting(h) ==
    LET v == handle[h].vm
        ckpt == handle[h].ckpt
    IN  /\ handle[h].at = "up" /\ ckpt.step = "select" /\ Holds(h)
        /\ CanSelect(rec[v], handle[h].epoch, SequenceOf(ckpt.ref), ckpt.keep)

SelectedRecord(h) ==
    Selected(rec[handle[h].vm], SequenceOf(handle[h].ckpt.ref), handle[h].ckpt.keep, {})

\* complete: the selection is known to have landed; the checkpoint is installed,
\* a fork gives its point back, and the sweep starts once the lock is released.
\* A fork point's own publication is pinned before any of that.
Select(h) ==
    /\ Selecting(h)
    /\ rec' = [rec EXCEPT ![handle[h].vm] = SelectedRecord(h)]
    /\ IF handle[h].ckpt.point
       THEN /\ handle' = [handle EXCEPT ![h].ckpt.step = "pin",
                                        ![h].spared = Protected(SelectedRecord(h))]
            /\ UNCHANGED sweeps
       ELSE /\ handle' = [handle EXCEPT ![h] = Installed(h, Protected(SelectedRecord(h)))]
            /\ sweeps' = sweeps \cup Swept(h, SelectedRecord(h))
    /\ UNCHANGED <<indexes, parts, published, late, bound>>

\* The selection is sent and neither its reply nor the read after it arrives.
SelectLost(h) ==
    /\ Selecting(h) /\ Spend("faults")
    /\ late' = [late EXCEPT ![h] = [etag |-> rec[handle[h].vm], next |-> SelectedRecord(h)]]
    /\ UNCHANGED <<rec, indexes, parts, published, handle, sweeps>>

\* It lands if the record is still the one it was conditional on.
Deliver(h) ==
    /\ late[h] # NoRef
    /\ rec' = [rec EXCEPT ![handle[h].vm] = IF @ = late[h].etag THEN late[h].next ELSE @]
    /\ late' = [late EXCEPT ![h] = NoRef]
    /\ UNCHANGED <<indexes, parts, published, handle, sweeps, bound>>

\* Mutant: the sequence of a failed publication is given back.
AbandonedReusing(h) ==
    [handle[h] EXCEPT !.ckpt = NoCkpt, !.next = @ - 1,
                      !.point = IF handle[h].ckpt.point THEN [@ EXCEPT !.landed = "failed"] ELSE @]

\* release: the sequence stays burnt. A point's publication that fails lands
\* without an index.
Abandoned(h) ==
    [handle[h] EXCEPT !.ckpt = NoCkpt,
                      !.point = IF handle[h].ckpt.point THEN [@ EXCEPT !.landed = "failed"] ELSE @]

\* The record refuses the write: fenced, an earlier sequence, no room.
Refused(h) ==
    \/ handle[h].ckpt.step = "select" /\ ~Selecting(h)
    \/ /\ handle[h].ckpt.step = "pin"
       /\ Holds(h) => ~Admits(rec[handle[h].vm], SequenceOf(handle[h].ckpt.ref))

\* A publication gives up: its write is refused, or, at any step, an upload or a
\* write fails and is not retried, which may leave parts that no index names.
Abandon(h) ==
    /\ handle[h].at = "up" /\ handle[h].ckpt # NoCkpt
    /\ \/ Refused(h) /\ UNCHANGED bound
       \/ Spend("abandoned")
    /\ handle' = [handle EXCEPT ![h] = Abandoned(h)]
    /\ \/ parts' = parts
       \/ handle[h].ckpt.step = "commit" /\ parts' = parts \cup {handle[h].ckpt.ref}
    /\ UNCHANGED <<rec, indexes, published, late, sweeps>>

-----------------------------------------------------------------------------
(* Forks.                                                                  *)

\* VM.ForkPoint: this handle pins the checkpoint it sits on, and holds the pages
\* written since sealed until the point is retired.
ForkPoint(h) ==
    /\ Spend("points") /\ Ready(h) /\ ~handle[h].root /\ handle[h].point = NoPoint
    /\ Holds(h) /\ Admits(rec[handle[h].vm], SequenceOf(handle[h].base))
    /\ LET pinned == WithPin(rec[handle[h].vm], SequenceOf(handle[h].base))
       IN  /\ rec' = [rec EXCEPT ![handle[h].vm] = pinned]
           /\ \E pages \in SUBSET bound.pages :
                 handle' = [handle EXCEPT
                    ![h].next = @ + 1, ![h].spared = Protected(pinned),
                    ![h].point = [landed |-> IF pages = {} THEN "published" ELSE "pending",
                                  base |-> handle[h].base, pages |-> pages,
                                  ref |-> IF pages = {} THEN handle[h].base ELSE Ref(h)]]
    /\ UNCHANGED <<indexes, parts, published, late, sweeps>>

\* publishPoint takes the publication lock and publishes the sealed pages as the
\* parent's own checkpoint, over the checkpoint the point was taken at.
PublishPoint(h) ==
    /\ handle[h].at = "up" /\ handle[h].ckpt = NoCkpt /\ handle[h].point.landed = "pending"
    /\ Spend("captures")
    /\ \E zeroed \in SUBSET handle[h].point.pages :
          handle' = [handle EXCEPT
             ![h].ckpt = [step |-> "commit", ref |-> handle[h].point.ref, keep |-> FALSE,
                          parent |-> handle[h].point.base, zeroed |-> zeroed,
                          written |-> handle[h].point.pages \cup {State},
                          protected |-> handle[h].spared, point |-> TRUE]]
    /\ UNCHANGED <<rec, indexes, parts, published, late, sweeps>>

\* The pin on the point's own checkpoint, because its children's roots name it.
PinPoint(h) ==
    /\ handle[h].at = "up" /\ handle[h].ckpt.step = "pin" /\ Holds(h)
    /\ LET v == handle[h].vm
           s == SequenceOf(handle[h].ckpt.ref)
       IN  /\ Admits(rec[v], s)
           /\ rec' = [rec EXCEPT ![v] = WithPin(rec[v], s)]
           /\ handle' = [handle EXCEPT
                 ![h] = [Installed(h, Protected(WithPin(rec[v], s))) EXCEPT
                            !.point = [@ EXCEPT !.landed = "published"]]]
           /\ sweeps' = sweeps \cup
                 (IF handle[h].owned = NoRef THEN {}
                  ELSE {Reclaim(handle[h].owned, handle[h].ckpt.ref, handle[h].spared, FALSE)})
    /\ UNCHANGED <<indexes, parts, published, late, bound>>

\* The children of a handle's fork point: its holders.
Holders(h) == {c \in Handles : handle[c].at = "up" /\ handle[c].root /\ handle[c].from = h}

\* ForkPoint.Retire by the last holder, or by whoever took it.
RetirePoint(h) ==
    /\ handle[h].at = "up" /\ handle[h].point # NoPoint /\ handle[h].point.landed # "pending"
    /\ Holders(h) = {}
    /\ handle' = [handle EXCEPT ![h].point = NoPoint]
    /\ UNCHANGED <<rec, indexes, parts, published, late, sweeps, bound>>

\* Manager.InheritPublished: the pin is written without the epoch, on the
\* published checkpoint the record selects or on a kept one.
Inherit(h, v) ==
    /\ Allows("inherit") /\ handle[h].at = "new" /\ rec[v] # NoRecord
    /\ \E s \in Sequences :
          /\ CanPin(rec[v], s)
          /\ rec' = [rec EXCEPT ![v] = WithPin(rec[v], s)]
          /\ handle' = [handle EXCEPT ![h].at = "inheriting", ![h].base = <<v, s>>]
    /\ UNCHANGED <<indexes, parts, published, late, sweeps, bound>>

\* A handle of the child, which has published nothing.
Forked(h, v, epoch, base, from) ==
    [handle[h] EXCEPT !.at = "up", !.vm = v, !.epoch = epoch, !.base = base, !.root = TRUE, !.from = from]

\* Manager.Fork: the child's record selects a root that nothing has published.
\* The identity may be one a VM lived under before.
Fork(h, v) ==
    /\ rec[v] = NoRecord /\ SpendName(v)
    /\ \E epoch \in 1 .. MaximumCreateEpoch, base \in DOMAIN published, from \in Handles \cup {NoRef} :
          /\ \A r \in DOMAIN published : VmOf(r) = v => EpochOf(SequenceOf(r)) # epoch
          /\ \A g \in Handles : handle[g].vm = v => handle[g].epoch # epoch
          /\ \/ /\ handle[h].at = "inheriting" /\ base = handle[h].base /\ from = NoRef
                /\ Openable({base})
             \/ /\ handle[h].at = "new" /\ from # NoRef /\ handle[from].at = "up"
                /\ handle[from].point # NoPoint /\ base = handle[from].point.base
          /\ rec' = [rec EXCEPT ![v] = Created(h, <<epoch, 1>>, FALSE)]
          /\ handle' = [handle EXCEPT ![h] = Forked(h, v, epoch, base, from)]
    /\ UNCHANGED <<indexes, parts, published, late, sweeps>>

-----------------------------------------------------------------------------
(* Releases, deletes, closes and crashes.                                  *)

\* Manager.Release, and the sweep of what only the released checkpoint held.
Release(v) ==
    /\ Allows("release") /\ rec[v] # NoRecord
    /\ \E s \in rec[v].kept :
          /\ CanRelease(rec[v], s)
          /\ rec' = [rec EXCEPT ![v] = WithoutKept(rec[v], s)]
          /\ sweeps' = sweeps \cup
                (IF s = rec[v].selected \/ ~rec[v].created THEN {}
                 ELSE {Reclaim(<<v, s>>, <<v, rec[v].selected>>, Protected(rec'[v]), TRUE)})
    /\ UNCHANGED <<indexes, parts, published, handle, late, bound>>

\* Manager.Delete: the record goes first, and what it pinned is spared.
Delete(v) ==
    /\ Allows("delete") /\ rec[v] # NoRecord
    /\ rec' = [rec EXCEPT ![v] = NoRecord]
    /\ sweeps' = sweeps \cup {Reclaim(NoRef, v, rec[v].pinned, TRUE)}
    /\ UNCHANGED <<indexes, parts, published, handle, late, bound>>

\* A point still waiting to be published never is.
Unpublished(point) == IF point.landed = "pending" THEN [point EXCEPT !.landed = "failed"] ELSE point

\* VM.Close, after the last publication: a fork that never published takes its
\* record with it.
Close(h) ==
    /\ Allows("close") /\ handle[h].at = "up" /\ handle[h].ckpt = NoCkpt
    /\ handle' = [handle EXCEPT ![h].at = "closed", ![h].point = Unpublished(@)]
    /\ rec' = IF handle[h].root THEN [rec EXCEPT ![handle[h].vm] = NoRecord] ELSE rec
    /\ UNCHANGED <<indexes, parts, published, late, sweeps, bound>>

\* The host dies: the handle's memory is gone, and the children it held a fork
\* point for on that host with it.
Crash(h) ==
    /\ Allows("crash")
    /\ handle[h].at \in {"root", "taken", "up", "inheriting"}
    /\ handle' = [g \in Handles |-> IF g = h \/ g \in Holders(h)
                                    THEN [handle[g] EXCEPT !.at = "closed"] ELSE handle[g]]
    /\ UNCHANGED <<rec, indexes, parts, published, late, sweeps, bound>>

-----------------------------------------------------------------------------
(* Sweeps.                                                                 *)

\* A sweep with nothing left to delete is over.
Remaining(s) == IF s.dead = {} THEN {} ELSE {s}

\* Reclaim and DeleteVM: the indexes of what is protected are read, and for a
\* release those of both checkpoints; what cannot be read deletes nothing.
Plan(s) ==
    /\ ~s.planned
    /\ LET v == IF s.previous = NoRef THEN s.current ELSE VmOf(s.previous)
           readable == Openable({<<v, q>> : q \in s.protected}
                                \cup IF s.opening /\ s.previous # NoRef
                                     THEN {s.previous, s.current} ELSE {})
           dead == IF s.previous = NoRef
                   THEN {r \in indexes \cup parts : VmOf(r) = v} \ SparedBy(v, s.protected)
                   ELSE Dead(published[s.previous], published[s.current], SparedBy(v, s.protected))
       IN  sweeps' = (sweeps \ {s}) \cup
              (IF readable THEN Remaining([s EXCEPT !.planned = TRUE, !.dead = dead]) ELSE {})
    /\ UNCHANGED <<rec, indexes, parts, published, handle, late, bound>>

\* deleteCheckpoint: the index object first, then the parts.
DeleteCheckpoint(s, ref) ==
    /\ s.planned /\ ref \in s.dead
    /\ indexes' = indexes \ {ref} /\ parts' = parts \ {ref}
    /\ sweeps' = (sweeps \ {s}) \cup Remaining([s EXCEPT !.dead = @ \ {ref}])
    /\ UNCHANGED <<rec, published, handle, late, bound>>

\* A sweep stops before it is done: its host dies or a delete fails, between two
\* checkpoints or between one's index object and its parts. What it missed is
\* left.
SweepStops(s) ==
    /\ Allows("crash")
    /\ \E ref \in {NoRef} \cup s.dead : indexes' = indexes \ {ref}
    /\ sweeps' = sweeps \ {s}
    /\ UNCHANGED <<rec, parts, published, handle, late, bound>>

-----------------------------------------------------------------------------
Init ==
    /\ rec = [v \in VMs |-> NoRecord]
    /\ indexes = {} /\ parts = {} /\ published = << >>
    /\ handle = [h \in Handles |-> NoHandle]
    /\ late = [h \in Handles |-> NoRef]
    /\ sweeps = {}
    /\ bound \in Bounds

HandleNext(h) ==
    \/ \E v \in VMs : CreateRoot(h, v) \/ Open(h, v) \/ Inherit(h, v) \/ Fork(h, v)
    \/ CreateRecord(h) \/ OpenIndex(h)
    \/ Capture(h) \/ Commit(h) \/ Select(h) \/ SelectLost(h) \/ Deliver(h)
    \/ Abandon(h)
    \/ ForkPoint(h) \/ PublishPoint(h) \/ PinPoint(h) \/ RetirePoint(h)
    \/ Close(h) \/ Crash(h)

SweepNext(s) == Plan(s) \/ SweepStops(s) \/ \E ref \in s.dead : DeleteCheckpoint(s, ref)

Next ==
    \/ \E h \in Handles : HandleNext(h)
    \/ \E v \in VMs : Release(v) \/ Delete(v)
    \/ \E s \in sweeps : SweepNext(s)

Spec == Init /\ [][Next]_vars

-----------------------------------------------------------------------------
(* Properties.                                                             *)

MaybeRef == Refs \cup {NoRef}

\* Type invariant: every object is of a checkpoint some publication of this
\* identity took the sequence of, and every handle sits on a published index.
TypeOK ==
    /\ rec \in [VMs -> Record \cup {NoRecord}]
    /\ indexes \subseteq DOMAIN published /\ DOMAIN published \subseteq Refs
    /\ parts \subseteq Refs
    /\ \A ref \in DOMAIN published : published[ref] \in Index /\ published[ref].ref = ref
    /\ \A h \in Handles :
          /\ handle[h].base \in MaybeRef /\ handle[h].owned \in MaybeRef
          /\ handle[h].at = "up" => handle[h].base \in DOMAIN published

\* Everything a read of this index can ask the store for is there.
Whole(ref) ==
    LET i == published[ref]
    IN  /\ ref \in indexes
        /\ \A m \in Pages \cup {State} : i.at[m] \in parts \cup {NoRef}
        /\ \A s \in Segments : i.tables[s] \in indexes \cup {NoRef}

\* The checkpoints somebody may open or read through: those a record selects,
\* pins or keeps, and those the writer of a VM sits on.
Readable ==
    UNION {{<<v, s>> : s \in Protected(rec[v]) \cup
                             (IF rec[v].created THEN {rec[v].selected} ELSE {})} :
           v \in {u \in VMs : rec[u] # NoRecord}}
    \cup {handle[h].base : h \in {g \in Handles : handle[g].at = "up" /\ Holds(g)}}

\* Nothing readable is deleted: whatever sweeps run behind whichever writers,
\* every checkpoint a record selects, pins or keeps, and every one a writer or a
\* fork sits on, still has its index object, its page tables and the parts its
\* pages are in (Reclaim, DeleteVM and sweepReleased).
NothingReadableIsDeleted == \A ref \in Readable : Whole(ref)

\* A reader still holding the view a checkpoint replaced finds the parts of
\* every page that view reads from the store, whatever compaction moved, until
\* the next checkpoint (Named's grace for what compaction emptied).
ReplacedViewHasItsPages ==
    \A h \in Handles :
        (handle[h].at = "up" /\ handle[h].replaced # NoRef /\ Holds(h)) =>
            \A p \in Pages \ handle[h].shadowed :
                published[handle[h].replaced].at[p] \in parts \cup {NoRef}

\* One reference never names two contents: an index object once put is never
\* put again with another content, whichever publications fail, are retried or
\* are taken over (release burns the sequence; sequences are epoch-major).
OneContentPerReference ==
    [][\A ref \in DOMAIN published : published'[ref] = published[ref]]_published

\* What some index still openable, or some publication under way, needs.
Needed ==
    UNION {Named(published[ref]) : ref \in Readable}
    \cup {handle[h].ckpt.ref : h \in {g \in Handles : handle[g].ckpt # NoCkpt}}
    \cup {handle[h].base : h \in {g \in Handles : handle[g].at = "root"}}

\* Nothing leaks: with no crash, no failed publication and one writer, once no
\* sweep is under way every object stored is one a readable checkpoint names.
NothingLeaks ==
    (sweeps = {} /\ bound.allows \subseteq {"state", "zero"}) => indexes \cup parts \subseteq Needed

=============================================================================
