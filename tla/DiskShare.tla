----------------------------- MODULE DiskShare -----------------------------
(***************************************************************************)
(* The space half of the host's disk limiter (resource/disk.go) and those  *)
(* who write the disk it measures: the page cache, which fills up to the   *)
(* share the limiter computes and gives regions back when it falls; images *)
(* staged for an import and VMMs started, which ask Fits before they take  *)
(* what cannot be given back; and writers that are not the host's.  Every  *)
(* amount is in regions.                                                   *)
(***************************************************************************)
EXTENDS Integers, FiniteSets, FiniteSetsExt

CONSTANTS Total, Floor, UsedGoal,      \* the filesystem and the goals; no used-space goal is 0
          Reserve, BandPercent, MaxBand,
          Stagers, ImageRegions,       \* imports, and the regions of an image
          VMMs, StateRegions,          \* VMMs to start, and what each may stage
          OthersTo, MaxChanges, MaxFailures \* bounds: what other writers come to hold, their steps, readings that fail

VARIABLES others, held, staged, running, \* what is on the disk, and the VMMs counted as running
          room,     \* the smoother of the room: the last value, and the estimate
          status,   \* what the last reading computed: share, hard, the promises
          reading,  \* the reading in progress, under refreshing
          asker,    \* each stager and VMM: idle, asking, refreshed, granted, done
          changes, failures,
          grew \* history: the cache grew between two looks of a reading

vars == <<others, held, staged, running, room, status, reading, asker, changes, failures, grew>>

Loop == "loop"
Askers == Stagers \cup VMMs
Extra(a) == IF a \in Stagers THEN 1 ELSE StateRegions
StagedNow == MapThenSumSet(LAMBDA s : staged[s], Stagers)
Promised == StagedNow + Cardinality(running) * StateRegions
Available == Total - others - held - StagedNow
NoReading == [by |-> "none", step |-> "none", available |-> 0, staged |-> 0, promised |-> 0, held |-> 0, failed |-> FALSE]

----------------------------------------------------------------------------
\* smoother.advance: the estimate moves towards the last value as time passes;
\* between two readings of the loop an interval has passed.
Between(a, b) == IF a <= b THEN a .. b ELSE b .. a
Moves(estimate, value, waited) ==
    IF waited /\ estimate # value THEN Between(estimate, value) \ {estimate} ELSE Between(estimate, value)

\* computeLocked.
Counted(read) == read.promised
Computed(estimate, read) ==
    LET free == estimate - Floor - Counted(read)
        headroom == Max({free - Reserve - read.held, 0})
        band == Min({(headroom * BandPercent) \div 100, MaxBand})
        share == free - Reserve - band
        capped == UsedGoal - Counted(read)
    IN [share |-> Max({IF UsedGoal > 0 /\ capped < share THEN capped ELSE share, 0}),
        hard |-> IF UsedGoal > 0 THEN Min({free, capped}) ELSE free]

----------------------------------------------------------------------------
(* Refresh, one at a time: the looks at the disk are steps of their own.   *)
Starts(c) ==
    /\ reading.by = "none"
    /\ c # Loop => asker[c] = "asking"
    /\ reading' = [NoReading EXCEPT !.by = c, !.step = "space"]
    /\ UNCHANGED <<others, held, staged, running, room, status, asker, changes, failures, grew>>
ReadSpace ==
    /\ reading.step = "space"
    /\ \/ reading' = [reading EXCEPT !.step = "users", !.available = Available] /\ UNCHANGED failures
       \/ failures < MaxFailures /\ failures' = failures + 1 /\ reading' = [reading EXCEPT !.step = "users", !.failed = TRUE]
    /\ UNCHANGED <<others, held, staged, running, room, status, asker, changes, grew>>
ReadUsers ==
    /\ reading.step = "users"
    /\ reading' = [reading EXCEPT !.step = "held", !.staged = StagedNow, !.promised = Promised]
    /\ UNCHANGED <<others, held, staged, running, room, status, asker, changes, failures, grew>>
ReadHeld ==
    /\ reading.step = "held"
    /\ reading' = [reading EXCEPT !.step = "compute", !.held = held]
    /\ UNCHANGED <<others, held, staged, running, room, status, asker, changes, failures, grew>>
RoomOf(read) == Min({read.available + read.held + read.staged, Total})
Compute ==
    /\ reading.step = "compute"
    /\ \E estimate \in Moves(room.estimate, room.value, reading.by = Loop) :
          /\ room' = [estimate |-> estimate, value |-> IF reading.failed THEN room.value ELSE RoomOf(reading)]
          /\ status' = Computed(estimate, reading)
          /\ reading' = [NoReading EXCEPT !.by = reading.by, !.step = IF reading.held > status'.share THEN "shrink" ELSE "done"]
    /\ UNCHANGED <<others, held, staged, running, asker, changes, failures, grew>>

\* Shrink: the cache gives regions back to one below its share.
Target(share) == Max({share - 1, 0})
Shrink ==
    /\ reading.step = "shrink"
    /\ held' = Min({held, Target(status.share)})
    /\ reading' = [reading EXCEPT !.step = "done"]
    /\ UNCHANGED <<others, staged, running, room, status, asker, changes, failures, grew>>
Ends ==
    /\ reading.step = "done"
    /\ asker' = IF reading.by = Loop THEN asker ELSE [asker EXCEPT ![reading.by] = "refreshed"]
    /\ reading' = NoReading
    /\ UNCHANGED <<others, held, staged, running, room, status, changes, failures, grew>>

----------------------------------------------------------------------------
(* The writers.                                                            *)
\* room, mayOpen: a region is opened while the share has room for it and for the one kept free.
MayOpen == held < status.share - 1
CacheOpens ==
    /\ MayOpen /\ Available > 0
    /\ held' = held + 1 /\ grew' = (grew \/ reading.step \in {"users", "held"})
    /\ UNCHANGED <<others, staged, running, room, status, reading, asker, changes, failures>>

\* stagedWriter.Write: asks before each region.  startVMM: asks before its state.
Asks(a) ==
    /\ asker[a] = "idle"
    /\ a \in Stagers => staged[a] < ImageRegions
    /\ asker' = [asker EXCEPT ![a] = "asking"]
    /\ UNCHANGED <<others, held, staged, running, room, status, reading, changes, failures, grew>>
\* Fits, once its reading is made.
MayPromise(a) == status.hard >= 0 /\ status.hard >= Extra(a)
Fits(a) ==
    /\ asker[a] = "refreshed"
    /\ asker' = [asker EXCEPT ![a] = IF MayPromise(a) THEN "granted" ELSE "done"]
    /\ UNCHANGED <<others, held, staged, running, room, status, reading, changes, failures, grew>>
Stages(s) ==
    /\ s \in Stagers /\ asker[s] = "granted"
    /\ IF Available > 0 THEN staged' = [staged EXCEPT ![s] = @ + 1] /\ asker' = [asker EXCEPT ![s] = "idle"]
       ELSE asker' = [asker EXCEPT ![s] = "done"] /\ UNCHANGED staged
    /\ UNCHANGED <<others, held, running, room, status, reading, changes, failures, grew>>
StagedRemoved(s) ==
    /\ s \in Stagers /\ (asker[s] = "done" \/ (asker[s] = "idle" /\ staged[s] = ImageRegions))
    /\ staged[s] > 0
    /\ staged' = [staged EXCEPT ![s] = 0] /\ asker' = [asker EXCEPT ![s] = "done"]
    /\ UNCHANGED <<others, held, running, room, status, reading, changes, failures, grew>>
VMMStarts(v) ==
    /\ v \in VMMs /\ asker[v] = "granted"
    /\ running' = running \cup {v} /\ asker' = [asker EXCEPT ![v] = "done"]
    /\ UNCHANGED <<others, held, staged, room, status, reading, changes, failures, grew>>
OthersChange ==
    /\ changes < MaxChanges /\ changes' = changes + 1
    /\ \E n \in OthersTo : n # others /\ n <= others + Available /\ others' = n
    /\ UNCHANGED <<held, staged, running, room, status, reading, asker, failures, grew>>

First(n, h) == [available |-> Total - n - h, staged |-> 0, promised |-> 0, held |-> h]
Init ==
    /\ others = 0 /\ held \in {0, 2} /\ staged = [s \in Stagers |-> 0] /\ running = {}
    /\ room = [estimate |-> Total - others, value |-> Total - others]
    /\ status = Computed(Total - others, First(others, held))
    /\ reading = NoReading /\ asker = [a \in Askers |-> "idle"]
    /\ changes = 0 /\ failures = 0 /\ grew = FALSE
Refreshing == ReadSpace \/ ReadUsers \/ ReadHeld \/ Compute \/ Shrink \/ Ends
Next ==
    \/ \E c \in Askers \cup {Loop} : Starts(c)
    \/ Refreshing \/ CacheOpens \/ OthersChange
    \/ \E a \in Askers : Asks(a) \/ Fits(a)
    \/ \E s \in Stagers : Stages(s) \/ StagedRemoved(s)
    \/ \E v \in VMMs : VMMStarts(v)
\* The loop reads every interval and each reading ends; a granted writer goes on.
Fairness ==
    /\ WF_vars(Refreshing) /\ SF_vars(Starts(Loop))
Spec == Init /\ [][Next]_vars /\ Fairness

----------------------------------------------------------------------------
(* What is on the disk fits it, and a reading holds what its steps have read.             *)
TypeOK ==
    /\ others \in 0 .. Total /\ held \in 0 .. Total /\ staged \in [Stagers -> 0 .. ImageRegions]
    /\ running \subseteq VMMs /\ Available >= 0
    /\ room.estimate \in 0 .. Total /\ room.value \in 0 .. Total
    /\ status.share \in 0 .. Total /\ status.hard <= Total
    /\ asker \in [Askers -> {"idle", "asking", "refreshed", "granted", "done"}]

(* "An import the disk cannot hold is refused rather than left to fill it" (host/disk.go): Fits   *)
(* reserves nothing, so what is promised can pass the goal only by what the others asking at that  *)
(* moment were granted, however the readings, fills and refusals interleave - while the rest of    *)
(* the disk holds still, and no region is opened between two looks of one reading.                 *)
OverrunBounded ==
    changes = 0 /\ ~grew =>
        LET goal == Total - others - Floor
            limit == IF UsedGoal > 0 THEN Min({goal, UsedGoal}) ELSE goal
            most == Max({Extra(a) : a \in Askers})
        IN Promised <= limit + (Cardinality(Askers) - 1) * most

(* "A cache over its share is told to shrink" (Refresh): once the other writers stop,     *)
(* the free-space floor and the reserve are free again, or the cache holds nothing.       *)
FloorRestored == <>[](Available >= Floor + Reserve + Promised - StagedNow \/ held = 0)

(* The band and the region of hysteresis (computeLocked, Refresh) keep the cache from     *)
(* evicting and refilling: once the rest of the disk holds still it shrinks no more.      *)
CacheSettles == <>[][held' >= held]_vars

(* Ready tells the truth in the end: the host is unready exactly while its promises do    *)
(* not fit under the goals, whatever readings failed on the way.                          *)
ReadyTellsTrue ==
    <>[]((status.hard < 0) = (Promised > (IF UsedGoal > 0 THEN Min({Total - others - Floor, UsedGoal}) ELSE Total - others - Floor)))
============================================================================
