---------------------------- MODULE MCPageCache ----------------------------
(***************************************************************************)
(* The page cache's memory tier and its fills of the cluster for TLC.  A   *)
(* behaviour is of one part, chosen in the initial state.                  *)
(***************************************************************************)
EXTENDS CacheFlights, TLC

CONSTANTS Pubs, Prompt, Bytes, QueueBytes, KeepsInFlight, KeepsPerHolder,
          Budget, MaxMoves

VARIABLES part,
          fill, queued, waiting, prompt, paced, worker, wake, lane, held,
          gaveUp, serves, moves, fillsClosed, handed, got

Fill == INSTANCE FillQueue WITH closed <- fillsClosed

fillState == <<fill, queued, waiting, prompt, paced, worker, wake, lane, held,
               gaveUp, serves, moves, fillsClosed, handed, got>>
partVars == <<vars, part, fillState>>

LoadSymmetry == Permutations(Loads)
BatchesOfReads == <<{{1, 2}}, {{1}, {2}}>>
BytesOfFills == <<2, 1, 2>>
-----------------------------------------------------------------------------
PartsInit == /\ part \in {"memory", "fills"} /\ Init /\ Fill!Init
             /\ part = "memory" => held.others = 0
StepMemory == part = "memory" /\ Next /\ UNCHANGED <<part, fillState>>
StepFills == part = "fills" /\ Fill!Next /\ UNCHANGED <<part, vars>>
PartsSpec == PartsInit /\ [][StepMemory \/ StepFills]_partVars
-----------------------------------------------------------------------------
\* The memory tier keeps its books: the readers of an entry, the charges to the
\* host's budget and the slots of loads are those of the reads and loads there
\* are, a fetch that is waited for is not cancelled and a read waiting for a
\* slot is woken when there is one (admit, leave, finish, releaseLocked).
LoadsAccounted == part = "memory" => /\ TypeOK /\ ReadersCounted /\ ChargesReturned
                                      /\ WaitedNotCancelled /\ SlotsBounded /\ NobodyForgotten

\* The fills keep theirs: the room held is that of the fills not done, within
\* its bound, the jobs stay within theirs, nothing is held at the end, the
\* worker never sleeps on a fill that could go on, and a disk receives a
\* publication's keeps in order while one member serves it (fill.go, fillsend.go).
FillsAccounted == part = "fills" => /\ Fill!TypeOK /\ Fill!RoomAccounted /\ Fill!QueueBounded
                                    /\ Fill!JobsBounded /\ Fill!NothingLeft /\ Fill!NoLostWakeup
                                    /\ Fill!InOrderWhileServed

\* The memory tier is sound: its books are right, and no load that a Clear
\* overtook is kept (retainLocked).
LoadsSound == []LoadsAccounted /\ NotRepopulated

\* The fills are sound: their books are right, and a publication's window takes
\* no room above the high water mark and passes no window that waited before it
\* (fitsPaced, giveRoom).
FillsSound == []FillsAccounted /\ Fill!PublicationsBelowHighWater /\ Fill!WaitersInOrder
=============================================================================
