---------------------------- MODULE MCResources ----------------------------
(***************************************************************************)
(* What a host shares out, for TLC: its locks, its memory budget, the      *)
(* arena's page slots and the disk's room.  A behaviour is of one part,    *)
(* chosen in the initial state.                                            *)
(***************************************************************************)
EXTENDS ContextLocks

CONSTANTS Owners, Entries, Limit, Amounts,
          Offsets, ArenaPages, ExtentPages, Word, ScanSlots, Regions, Ranges,
          Total, Floor, UsedGoal, Reserve, BandPercent, MaxBand, Stagers,
          ImageRegions, VMMs, StateRegions, OthersTo, MaxChanges, MaxFailures

VARIABLES part,
          used, queue, reclaiming, owner, granted, entry,
          free, held, hint, extents, table, counts, leases,
          others, cacheHeld, staged, running, room, status, reading, asker,
          changes, failures, grew

Memory == INSTANCE MemoryBudget
Arena == INSTANCE ArenaSlots WITH Pages <- ArenaPages
Disk == INSTANCE DiskShare WITH held <- cacheHeld

memoryState == <<used, queue, reclaiming, owner, granted, entry>>
arenaState == <<free, held, hint, extents, table, counts, leases>>
diskState == <<others, cacheHeld, staged, running, room, status, reading,
               asker, changes, failures, grew>>
partVars == <<vars, part, memoryState, arenaState, diskState>>

\* Readers against writers, a Writer's handle among them, calls that only try,
\* and the threads of a LazyMutex.
Casts == {<<"reader", "reader", "locker">>, <<"reader", "tryReader", "handle">>,
          <<"locker", "handle", "reader">>, <<"tryLocker", "locker", "reader">>,
          <<"lazy", "lazy", "waitFree">>}
-----------------------------------------------------------------------------
PartsInit ==
  /\ part \in {"locks", "memory", "arena", "disk"}
  /\ Init /\ Memory!Init /\ Arena!Init /\ Disk!Init
  /\ part # "locks" => role = <<"lazy", "lazy", "waitFree">>
  /\ part # "disk" => cacheHeld = 0
StepLocks == part = "locks" /\ Next
             /\ UNCHANGED <<part, memoryState, arenaState, diskState>>
StepMemory == part = "memory" /\ Memory!Next
              /\ UNCHANGED <<part, vars, arenaState, diskState>>
StepArena == part = "arena" /\ Arena!Next
             /\ UNCHANGED <<part, vars, memoryState, diskState>>
StepDisk == part = "disk" /\ Disk!Next
            /\ UNCHANGED <<part, vars, memoryState, arenaState>>
PartsNext == StepLocks \/ StepMemory \/ StepArena \/ StepDisk

\* Each part's own fairness, for a behaviour of that part.
In(p, A) == part = p /\ A
PartsFair ==
  /\ \A t \in Threads : WF_vars(In("locks", Steps(t)))
  /\ \A o \in Owners : /\ WF_memoryState(In("memory", Memory!Steps(o)))
                       /\ SF_memoryState(In("memory", Memory!Releases(o, owner[o].lease)))
  /\ \A e \in Entries : WF_memoryState(In("memory", Memory!EndsRead(e)))
  /\ WF_diskState(In("disk", Disk!Refreshing))
  /\ SF_diskState(In("disk", Disk!Starts(Disk!Loop)))
PartsSpec == PartsInit /\ [][PartsNext]_partVars /\ PartsFair
-----------------------------------------------------------------------------
\* What is shared out is accounted for.  The memory used is what is held, no
\* waiter for it is stranded when nothing is under way that would serve it, and
\* nobody passes a waiter (Acquire, grantLocked, withCacheReclaim).  The arena's
\* extents are given out once, a range's private pages are adjacent, and the
\* search finds the longest run (slots.go, placement.go).  What is promised of the
\* disk passes its goal by no more than what was asked for at once (Fits,
\* computeLocked).
PoolsSound ==
  /\ [](part = "memory" => Memory!TypeOK /\ Memory!UsedAccounted /\ Memory!NoneStranded)
  /\ [](part = "arena" => /\ Arena!TypeOK /\ Arena!ExtentsGivenOnce
                          /\ Arena!PrivatePagesAdjacent /\ Arena!SearchFindsLongest)
  /\ [](part = "disk" => Disk!TypeOK /\ Disk!OverrunBounded)
  /\ Memory!NobodyPasses

\* Whoever waits is served: a writer for its lock and an owner for its memory;
\* the disk's floor comes back and its cache settles.
ResourcesReturn ==
  /\ WritersNotStarved /\ Memory!WaitsEnd
  /\ part = "disk" => Disk!FloorRestored /\ Disk!ReadyTellsTrue
  /\ Disk!CacheSettles
=============================================================================
