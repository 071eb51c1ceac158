------------------------------ MODULE MCZircon ------------------------------
(***************************************************************************)
(* The parts of the pager's virtual memory layer (vmmemory/internal/       *)
(* zirconvm) for TLC.  A behaviour is of one part, chosen with its         *)
(* scenario in the initial state: the copy-on-write objects and their page *)
(* lists, the spill file or the page queues.                               *)
(***************************************************************************)
EXTENDS CowPages

CONSTANTS Keys, Budget, MaxVersions, MaxPublished,
          Queued, NumReclaim, NumActive, PeekBatch, MaxGen

VARIABLES part,
          books, published, file, refs, reader, writer,
          lists, isolate, at, counts, lruGen, mruGen, anonymousIsReclaimable,
          harvest, touched

Spill == INSTANCE SpillStorage
Queue == INSTANCE PageQueues

spillState == <<books, published, file, refs, reader, writer>>
queueState == <<lists, isolate, at, counts, lruGen, mruGen,
                anonymousIsReclaimable, harvest, touched>>
partVars == <<vars, part, spillState, queueState>>
-----------------------------------------------------------------------------
\* The objects of a scenario: a layer is backed by a pager, a root is the
\* volume's page below it.
Object(kind, size) ==
  [kind |-> kind, size |-> size, parent |-> NoObject, poff |-> 0, limit |-> 0,
   closed |-> FALSE]
Holding(k) ==
  [o \in Objects |-> [i \in Pages |-> IF o \in DOMAIN k THEN k[o][i + 1] ELSE 0]]
Trees(k) == [o \in Objects |-> IF o \in DOMAIN k THEN k[o] ELSE NoTree]

OneLayer(size) == Trees("L" :> Object("layer", size))
OnBoth == Trees("L" :> Object("layer", 2) @@ "R" :> Object("root", 2))

Scenario(ops, trap, tree_, base_, located_, clones, references) ==
  [ops |-> ops, trap |-> trap, tree |-> tree_, base |-> base_,
   located |-> located_, clones |-> clones, references |-> references]

\* Stores, faults, writeback and eviction of a layer that does not trap.
StoresAndWriteback ==
  Scenario({"read", "write", "supply", "writeback", "abandon", "evict",
            "again", "part"}, FALSE, OneLayer(2),
           Holding("L" :> <<1, 0, 0, 0>>), {}, {}, 3)
\* A layer whose pager answers each dirty transition.
TrappedDirty ==
  Scenario({"write", "supply", "dirty", "writeback", "evict", "split",
            "remove", "part"}, TRUE, OneLayer(2),
           Holding("L" :> <<1, 0, 0, 0>>), {}, {}, 3)
\* Zero intervals under writeback, commit and eviction.
ZeroesAndWriteback ==
  Scenario({"zero", "commit", "supply", "writeback", "abandon", "evict"},
           FALSE, OneLayer(3), Holding("L" :> <<1, 0, 1, 0>>), {}, {}, 2)
\* A layer above an identity root it can locate its pages in.
LayerOverRoot ==
  Scenario({"read", "write", "supply", "writeback", "evict"}, FALSE, OnBoth,
           Holding("L" :> <<1, 0, 0, 0>> @@ "R" :> <<1, 0, 0, 0>>),
           {0, 1}, {}, 2)
\* The compressor, which works on a page without its lock.
Compression ==
  Scenario({"write", "supply", "writeback", "abandon", "compress", "zero"},
           FALSE, OneLayer(1), Holding("L" :> <<1, 0, 0, 0>>), {}, {}, 2)
\* A clone that reads through its parent.
OneClone ==
  Scenario({"read", "write", "supply", "zero"}, FALSE, OneLayer(2),
           Holding("L" :> <<1, 0, 0, 0>>), {}, {"C"}, 1)
\* Two clones, destroyed in any order.
ClonesDie ==
  Scenario({"write", "supply", "destroy", "evict", "dedup"}, FALSE,
           OneLayer(1), Holding("L" :> <<1, 0, 0, 0>>), {}, {"C", "D"}, 1)
\* Zero ranges of both kinds over four pages: splits and joins of intervals.
ZeroIntervals ==
  Scenario({"zero", "zeroUntracked", "commit", "supply"}, FALSE, OneLayer(4),
           Holding("L" :> <<1, 0, 1, 1>>), {}, {}, 2)
\* Writebacks of zero intervals ended a part at a time.
PartialWriteback ==
  Scenario({"zero", "writeback", "part"}, FALSE, OneLayer(3),
           Holding("L" :> <<1, 0, 1, 0>>), {}, {}, 2)

PassingScenarios ==
  {StoresAndWriteback, TrappedDirty, ZeroesAndWriteback, LayerOverRoot,
   Compression, OneClone, ClonesDie, ZeroIntervals}
PartialScenarios == {PartialWriteback}
-----------------------------------------------------------------------------
CowPart == "cow"
ZirconInit(parts) ==
  /\ part \in parts
  /\ Init
  /\ part # CowPart => scen = ZeroIntervals
  /\ Spill!SpillInit /\ Queue!QueuesInit

StepCow == part = CowPart /\ Next
           /\ UNCHANGED <<part, spillState, queueState>>
StepSpill == part = "spill" /\ Spill!SpillNext
             /\ UNCHANGED <<part, vars, queueState>>
StepQueue == part = "queue" /\ Queue!QueuesNext
             /\ UNCHANGED <<part, vars, spillState>>

ZirconNext == StepCow \/ StepSpill \/ StepQueue

AllParts == ZirconInit({CowPart, "spill", "queue"}) /\ [][ZirconNext]_partVars
PartialParts == ZirconInit({CowPart}) /\ [][ZirconNext]_partVars
-----------------------------------------------------------------------------
\* Every frame, mapping, reservation and dirty bit of the copy-on-write objects
\* is accounted for: what is mapped is current, what is under writeback or clean
\* is saved, and no store goes untracked (page lists, dirty.go, cow.go).
PagesAccounted == part = CowPart =>
  /\ MappingsCurrent /\ Reservations /\ WritebackHolds /\ CleanIsSaved
  /\ NothingUntracked /\ WellFormed

\* The spill file is sound: each of its pages is free, reserved, stored or a
\* version's, and only one of these, whatever dropOldestLocked, freeLocked and
\* WriteVersion do; CompressedData returns what StoreReserved wrote to the page,
\* or fails; and what ReadVersion returns for a key was published for it.
SpillSound == part = "spill" =>
  Spill!EveryPageInOneHand /\ Spill!ReadsBackOrFails /\ Spill!VersionsAreTheirs

\* The page queues age pages in order: a page's generation is in the window that
\* processLruQueueLocked keeps, each queue's count is exact, and a page accessed
\* a generation later is not isolated before, and one to evict is found.
QueuesInOrder == part = "queue" =>
  /\ Queue!GenerationsInWindow /\ Queue!CountsExact
  /\ Queue!OldestFirst /\ Queue!PeekFindsAccepted
=============================================================================
