---------------------------- MODULE MCCacheDisk ----------------------------
(***************************************************************************)
(* The page cache's disk, with bounds by kind of disk, and the budget of   *)
(* writes to its device, for TLC.  A behaviour is of one part, chosen in   *)
(* the initial state.                                                      *)
(***************************************************************************)
EXTENDS CacheDisk, WriteBudget

VARIABLE part

partVars == <<vars, part, writeVars>>

KeySymmetry == Permutations(Keys)
CellsByKind == [cache |-> 2, own |-> 2, shard |-> 1, device |-> 2]
OpensByKind == [cache |-> 4, own |-> 2, shard |-> 2, device |-> 2]
StopsByKind == [cache |-> 0, own |-> 1, shard |-> 0, device |-> 1]
-----------------------------------------------------------------------------
PartsInit == /\ part \in {"disk", "budget"} /\ Init /\ WritesInit
             /\ part = "disk" => gap = 0
             /\ part = "budget" => kind = "own"
StepDisk == part = "disk" /\ Next /\ UNCHANGED <<part, writeVars>>
StepBudget == part = "budget" /\ WritesNext /\ UNCHANGED <<part, vars>>
PartsSpec == PartsInit /\ [][StepDisk \/ StepBudget]_partVars
-----------------------------------------------------------------------------
\* The log keeps its books: a read's region is not given back under it, every
\* slot is in one place, the closed regions are in order, and a table never
\* names what a loss of power may take (openRegion, close, evict, finishRead).
RegionsAccounted == part = "disk" => /\ TypeOK /\ ReaderHoldsRegion /\ SlotsAccounted
                                     /\ LogInOrder /\ TableNamesWhatIsThere

\* The log is sound: its books are right, and a restart keeps the newest region
\* that holds a key (readRegions).
LogSound == [][RegionsAccounted' /\ (part = "disk" => \A s \in Slots : KeepsNewest(s))]_partVars
=============================================================================
