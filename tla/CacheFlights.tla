---------------------------- MODULE CacheFlights ----------------------------
(***************************************************************************)
(* The page cache's memory tier (checkpoint/cache.go).  A read of a batch  *)
(* of keys pins the entries the cache holds, joins the flights of the keys *)
(* a load is fetching, and starts one load for the others, within a bound  *)
(* on the loads that a prefetch's do not count against.  A load is         *)
(* cancelled once nobody waits on it; an entry is charged to the host's    *)
(* budget until it is neither retained nor pinned.  An entry is named by   *)
(* the load that fetched it and its key.                                   *)
(***************************************************************************)
EXTENDS Integers, Sequences, FiniteSets

CONSTANTS Callers,       \* the reads
          Prefetchers,   \* those of them that are prefetches
          Keys,          \* the keys, in a batch's order
          Segments,      \* those of them that are segments of a page table
          Loads,         \* names of loads; one is used again once nothing holds it
          NoLoad,        \* none of them
          LoadLimit,     \* MaxConcurrentLoads
          PrefetchLimit, \* MaxConcurrentPrefetches
          Batches,       \* the batches of keys each read may ask for
          MaxClears      \* bound on the calls of Clear and Close

\* The keys of a batch have an order.
ASSUME FlightsAssumption ==
    /\ IsFiniteSet(Callers) /\ IsFiniteSet(Keys) /\ Segments \subseteq Keys /\ NoLoad \notin Loads
    /\ \A c \in Callers : Batches[c] \subseteq SUBSET Keys
    /\ \A ks \in SUBSET Keys : ks # {} => \E k \in ks : \A o \in ks : k <= o

VARIABLES load,    \* each load
          ent,     \* each entry: by load and key
          flights, \* the load fetching each key
          entries, \* the load whose entry is retained for each key
          lru,     \* the retained keys, the one used last first
          caller,  \* each read
          slots,   \* the slots taken: active, and of them prefetches
          closed, clears

vars == <<load, ent, flights, entries, lru, caller, slots, closed, clears>>

NoEntry == [readers |-> 0, retained |-> FALSE, lease |-> FALSE, gone |-> TRUE]
Unused == [at |-> "done", keys |-> {}, pre |-> FALSE, stale |-> FALSE, cancelled |-> FALSE, waiters |-> 0,
           on |-> [k \in Keys |-> 0], ok |-> FALSE]
Idle == [at |-> "idle", want |-> {}, got |-> [k \in Keys |-> NoLoad], on |-> [k \in Keys |-> NoLoad]]

\* A load's name is free once it has ended and nothing refers to it.
Names(l) == /\ \A k \in Keys : flights[k] # l /\ entries[k] # l
            /\ \A c \in Callers : \A k \in Keys : caller[c].got[k] # l /\ caller[c].on[k] # l
Free == {l \in Loads : load[l].at = "done" /\ Names(l)}
NewLoad == CHOOSE l \in Free : TRUE

\* dispose: the bytes and the charge are given back.
Dispose(e) == [e EXCEPT !.lease = FALSE, !.gone = TRUE]
\* drop: an entry no longer retained stays charged while a reader pins it.
DisposedPinned(e) == Dispose([e EXCEPT !.retained = FALSE])
Detach(e) == IF e.readers = 0 THEN Dispose([e EXCEPT !.retained = FALSE]) ELSE [e EXCEPT !.retained = FALSE]
\* releaseLocked: the last reader of an entry gives it back where it is not
\* retained, or may not be any more.
Released(e) == LET r == [e EXCEPT !.readers = @ - 1]
               IN IF r.readers = 0 /\ ~r.retained THEN Dispose(r) ELSE r
MayDrop(e) == e.readers = 1 /\ e.retained

----------------------------------------------------------------------------
(* Reads.                                                                  *)

Wanted(ks) == {k \in ks : entries[k] = NoLoad /\ flights[k] = NoLoad}
NoSlot(c) == IF c \in Prefetchers THEN slots.prefetches >= PrefetchLimit ELSE slots.active - slots.prefetches >= LoadLimit

\* getEntries: a batch is settled on.
Asks(c, ks) ==
    /\ caller[c].at = "idle"
    /\ caller' = [caller EXCEPT ![c] = [Idle EXCEPT !.at = "admit", !.want = ks]]
    /\ UNCHANGED <<load, ent, flights, entries, lru, slots, closed, clears>>

\* admit: the cache is closed, or the batch must wait for a slot and leaves
\* the cache as it found it.
Refuses(c) ==
    /\ caller[c].at = "admit" /\ closed
    /\ caller' = [caller EXCEPT ![c] = Idle]
    /\ UNCHANGED <<load, ent, flights, entries, lru, slots, closed, clears>>
Waits(c) ==
    /\ caller[c].at = "admit" /\ ~closed /\ Wanted(caller[c].want) # {} /\ NoSlot(c)
    /\ caller' = [caller EXCEPT ![c].at = "blocked"]
    /\ UNCHANGED <<load, ent, flights, entries, lru, slots, closed, clears>>

\* A batch's keys are moved to the front one after the other.
LastFirst(ks) == CHOOSE s \in [1 .. Cardinality(ks) -> ks] : \A i, j \in DOMAIN s : i < j => s[i] > s[j]

\* admit: entries pinned, flights joined, and one load started for the rest.
Touched(l, ks) == LET hits == {k \in ks : entries[k] # NoLoad}
                  IN LastFirst(hits) \o SelectSeq(l, LAMBDA k : k \notin hits)
Joined(l, ks) == {k \in ks : entries[k] = NoLoad /\ flights[k] = l}
Started(c, new, ks) == [Unused EXCEPT !.at = "run", !.keys = Wanted(ks), !.pre = c \in Prefetchers, !.waiters = Cardinality(Wanted(ks)),
                                      !.on = [k \in Keys |-> IF k \in Wanted(ks) THEN 1 ELSE 0]]
Counted(l, ks) == [load[l] EXCEPT !.waiters = @ + Cardinality(Joined(l, ks)),
                                  !.on = [k \in Keys |-> IF flights[k] = l /\ k \in ks /\ entries[k] = NoLoad THEN @[k] + 1 ELSE @[k]]]
Admits(c) ==
    LET ks  == caller[c].want
        new == IF Wanted(ks) = {} THEN NoLoad ELSE NewLoad
    IN /\ caller[c].at = "admit" /\ ~closed
       /\ Wanted(ks) # {} => ~NoSlot(c) /\ Free # {}
       /\ load' = [l \in Loads |-> IF l = new THEN Started(c, new, ks) ELSE Counted(l, ks)]
       /\ ent' = [l \in Loads |-> [k \in Keys |-> IF l = new THEN NoEntry
                                                  ELSE IF k \in ks /\ entries[k] = l THEN [ent[l][k] EXCEPT !.readers = @ + 1]
                                                  ELSE ent[l][k]]]
       /\ flights' = [k \in Keys |-> IF k \in Wanted(ks) THEN new ELSE flights[k]]
       /\ lru' = Touched(lru, ks)
       /\ slots' = IF new = NoLoad THEN slots
                   ELSE [active |-> slots.active + 1, prefetches |-> slots.prefetches + (IF c \in Prefetchers THEN 1 ELSE 0)]
       /\ caller' = [caller EXCEPT ![c] = [at |-> IF \A k \in ks : entries[k] # NoLoad THEN "holds" ELSE "collect", want |-> {},
                        got |-> [k \in Keys |-> IF k \in ks THEN entries[k] ELSE NoLoad],
                        on  |-> [k \in Keys |-> IF k \notin ks \/ entries[k] # NoLoad THEN NoLoad
                                                ELSE IF k \in Wanted(ks) THEN new ELSE flights[k]]]]
       /\ UNCHANGED <<entries, closed, clears>>

On(c) == {k \in Keys : caller[c].on[k] # NoLoad}
FirstOn(c) == CHOOSE k \in On(c) : \A o \in On(c) : k <= o

\* A load that failed is nothing once its last waiter has seen it fail.
Forgotten(c, k, l) == IF load[l].at = "failed" /\ \A d \in Callers : \A o \in Keys : caller[d].on[o] = l => <<d, o>> = <<c, k>>
                      THEN [load EXCEPT ![l] = Unused] ELSE load

\* collect: the flights in the batch's order.  One that failed fails the read.
Collects(c) ==
    /\ caller[c].at = "collect"
    /\ LET k == FirstOn(c)
           l == caller[c].on[k]
       IN /\ load[l].at \in {"done", "failed"}
          /\ caller' = [caller EXCEPT ![c].on[k] = NoLoad, ![c].got[k] = IF load[l].at = "done" THEN l ELSE NoLoad,
                                      ![c].at = IF load[l].at = "failed" THEN "leave" ELSE IF On(c) = {k} THEN "holds" ELSE "collect"]
          /\ load' = Forgotten(c, k, l)
    /\ UNCHANGED <<ent, flights, entries, lru, slots, closed, clears>>

\* The read's context ends.
GivesUp(c) ==
    /\ caller[c].at \in {"admit", "blocked"} \/ caller[c].at = "collect"
    /\ caller' = [caller EXCEPT ![c] = IF caller[c].at = "collect" THEN [@ EXCEPT !.at = "leave"] ELSE Idle]
    /\ UNCHANGED <<load, ent, flights, entries, lru, slots, closed, clears>>

\* leave: a finished flight's entry is released; a load nobody waits on any
\* more is cancelled, and no new read may join it.
Unjoinable(l) == [k \in Keys |-> IF flights[k] = l THEN NoLoad ELSE flights[k]]
Leaves(c) ==
    /\ caller[c].at = "leave" /\ On(c) # {}
    /\ LET k == FirstOn(c)
           l == caller[c].on[k]
           last == load[l].waiters = 1
       IN /\ caller' = [caller EXCEPT ![c].on[k] = NoLoad]
          /\ IF load[l].at \in {"done", "failed"}
             THEN /\ ent' = IF load[l].at = "done" THEN [ent EXCEPT ![l][k] = Released(@)] ELSE ent
                  /\ load' = Forgotten(c, k, l)
                  /\ UNCHANGED flights
             ELSE /\ load' = [load EXCEPT ![l].on[k] = @ - 1, ![l].waiters = @ - 1, ![l].cancelled = @ \/ last]
                  /\ flights' = IF last THEN Unjoinable(l) ELSE flights
                  /\ UNCHANGED ent
    /\ UNCHANGED <<entries, lru, slots, closed, clears>>

\* release: everything the read pinned, under one lock.  An entry its last
\* reader leaves is dropped where the budget no longer allows it.
Releases(c) ==
    /\ caller[c].at = "holds" \/ (caller[c].at = "leave" /\ On(c) = {})
    /\ LET got   == {k \in Keys : caller[c].got[k] # NoLoad}
           mine(l) == {k \in got : caller[c].got[k] = l}
       IN \E drops \in {{}, {k \in got : MayDrop(ent[caller[c].got[k]][k])}} :
             /\ ent' = [l \in Loads |-> [k \in Keys |-> IF k \notin mine(l) THEN ent[l][k]
                                                        ELSE IF k \in drops THEN Detach([ent[l][k] EXCEPT !.readers = 0])
                                                        ELSE Released(ent[l][k])]]
             /\ entries' = [k \in Keys |-> IF k \in drops THEN NoLoad ELSE entries[k]]
             /\ lru' = SelectSeq(lru, LAMBDA k : k \notin drops)
    /\ caller' = [caller EXCEPT ![c] = Idle]
    /\ UNCHANGED <<load, flights, slots, closed, clears>>

----------------------------------------------------------------------------
(* Loads.                                                                  *)

\* run: the fetch and the charge of each entry, or none of them: an entry
\* there is no room for is served without being retained.
Fetched(l) ==
    /\ load[l].at = "run"
    /\ \/ \E leased \in {{}, load[l].keys} :
             /\ load' = [load EXCEPT ![l].at = "fetched", ![l].ok = TRUE]
             /\ ent' = [ent EXCEPT ![l] = [k \in Keys |-> IF k \in load[l].keys THEN [NoEntry EXCEPT !.lease = k \in leased, !.gone = FALSE]
                                                          ELSE NoEntry]]
       \/ load' = [load EXCEPT ![l].at = "fetched", ![l].ok = FALSE] /\ UNCHANGED ent
    /\ UNCHANGED <<flights, entries, lru, caller, slots, closed, clears>>

\* finish: each flight's entry has its waiters for readers, and is retained
\* where it is charged, wanted and of this generation; the slot is given back
\* and whoever waits for one looks again.
RetainsStale(l, k) == load[l].ok /\ ent[l][k].lease /\ load[l].on[k] > 0 /\ ~closed
Retains(l, k) == load[l].ok /\ ent[l][k].lease /\ load[l].on[k] > 0 /\ ~load[l].stale /\ ~closed
Finished(l, k) == LET e == [ent[l][k] EXCEPT !.readers = load[l].on[k], !.retained = Retains(l, k)]
                  IN IF e.readers = 0 THEN Dispose(e) ELSE e
Woken == [c \in Callers |-> IF caller[c].at = "blocked" THEN [caller[c] EXCEPT !.at = "admit"] ELSE caller[c]]
Finishes(l) ==
    LET kept == {k \in load[l].keys : Retains(l, k)}
    IN /\ load[l].at = "fetched"
       /\ load' = [load EXCEPT ![l] = [Unused EXCEPT !.at = IF load[l].ok \/ load[l].waiters = 0 THEN "done" ELSE "failed"]]
       /\ ent' = IF load[l].ok THEN [ent EXCEPT ![l] = [k \in Keys |-> IF k \in load[l].keys THEN Finished(l, k) ELSE @[k]]] ELSE ent
       /\ flights' = [k \in Keys |-> IF flights[k] = l THEN NoLoad ELSE flights[k]]
       /\ entries' = [k \in Keys |-> IF k \in kept THEN l ELSE entries[k]]
       /\ lru' = LastFirst(kept) \o lru
       /\ slots' = [active |-> slots.active - 1, prefetches |-> slots.prefetches - (IF load[l].pre THEN 1 ELSE 0)]
       /\ caller' = Woken
       /\ UNCHANGED <<closed, clears>>

\* keepTable: a publication's own table, charged before the lock is taken.
KeepsTable(k) ==
    /\ ~closed /\ entries[k] = NoLoad /\ flights[k] = NoLoad /\ Free # {}
    /\ ent' = [ent EXCEPT ![NewLoad] = [o \in Keys |-> IF o = k THEN [readers |-> 0, retained |-> TRUE, lease |-> TRUE, gone |-> FALSE]
                                                       ELSE NoEntry]]
    /\ entries' = [entries EXCEPT ![k] = NewLoad]
    /\ lru' = <<k>> \o lru
    /\ UNCHANGED <<load, flights, caller, slots, closed, clears>>

----------------------------------------------------------------------------
(* Pressure, Clear and Close.                                              *)

Dropped(ks) == /\ ent' = [l \in Loads |-> [k \in Keys |-> IF k \in ks /\ entries[k] = l THEN Detach(ent[l][k]) ELSE ent[l][k]]]
               /\ entries' = [k \in Keys |-> IF k \in ks THEN NoLoad ELSE entries[k]]
               /\ lru' = SelectSeq(lru, LAMBDA k : k \notin ks)

\* reclaim: the entry used longest ago that nobody pins.
Unpinned(k) == ent[entries[k]][k].readers = 0
Reclaim ==
    /\ \E i \in DOMAIN lru : /\ Unpinned(lru[i]) /\ \A j \in DOMAIN lru : j > i => ~Unpinned(lru[j])
                             /\ Dropped({lru[i]})
    /\ UNCHANGED <<load, flights, caller, slots, closed, clears>>

Clear ==
    /\ clears < MaxClears /\ clears' = clears + 1
    /\ load' = [l \in Loads |-> IF load[l].at \in {"run", "fetched"} THEN [load[l] EXCEPT !.stale = TRUE] ELSE load[l]]
    /\ Dropped(Keys)
    /\ UNCHANGED <<flights, caller, slots, closed>>

Close ==
    /\ ~closed /\ closed' = TRUE
    /\ clears < MaxClears /\ clears' = clears + 1
    /\ load' = [l \in Loads |-> IF load[l].at \in {"run", "fetched"}
                                THEN [load[l] EXCEPT !.stale = TRUE, !.cancelled = @ \/ \E k \in Keys : flights[k] = l] ELSE load[l]]
    /\ Dropped(Keys)
    /\ caller' = Woken
    /\ UNCHANGED <<flights, slots>>

----------------------------------------------------------------------------
Init ==
    /\ load = [l \in Loads |-> Unused] /\ ent = [l \in Loads |-> [k \in Keys |-> NoEntry]]
    /\ flights = [k \in Keys |-> NoLoad] /\ entries = [k \in Keys |-> NoLoad] /\ lru = <<>>
    /\ caller = [c \in Callers |-> Idle] /\ slots = [active |-> 0, prefetches |-> 0] /\ closed = FALSE /\ clears = 0

Reads(c) == Refuses(c) \/ Waits(c) \/ Admits(c) \/ Collects(c) \/ Leaves(c) \/ Releases(c)
Fetches(l) == Fetched(l) \/ Finishes(l)
Next == \/ \E c \in Callers : Reads(c) \/ GivesUp(c) \/ \E ks \in Batches[c] : Asks(c, ks)
        \/ \E l \in Loads : Fetches(l)
        \/ \E k \in Segments : KeepsTable(k)
        \/ Reclaim \/ Clear \/ Close
Spec == Init /\ [][Next]_vars

----------------------------------------------------------------------------
\* Every variable keeps its type, and the keys of the LRU list are those
\* retained (retainLocked, drop).
TypeOK ==
    /\ \A l \in Loads : load[l].at \in {"run", "fetched", "done", "failed"} /\ load[l].keys \subseteq Keys
    /\ \A c \in Callers : caller[c].at \in {"idle", "admit", "blocked", "collect", "leave", "holds"}
    /\ {lru[i] : i \in DOMAIN lru} = {k \in Keys : entries[k] # NoLoad}
    /\ \A i, j \in DOMAIN lru : i # j => lru[i] # lru[j]

\* The bytes a read has pinned, or will be handed, are not given back under it,
\* whatever is cleared, reclaimed or closed meanwhile (releaseLocked, drop).
PinnedNotDisposed == \A c \in Callers : \A k \in Keys :
    /\ caller[c].got[k] # NoLoad => ~ent[caller[c].got[k]][k].gone
    /\ (caller[c].on[k] # NoLoad /\ load[caller[c].on[k]].at = "done")
          => ~ent[caller[c].on[k]][k].gone

\* An entry's readers are the reads that hold it, or were handed it and have
\* not taken it yet (admit, finish, leave).
Handed(l, k) == {c \in Callers : caller[c].got[k] = l \/ (caller[c].on[k] = l /\ load[l].at = "done")}
ReadersCounted == \A l \in Loads : \A k \in Keys :
    load[l].at = "done" /\ ~ent[l][k].gone => ent[l][k].readers = Cardinality(Handed(l, k))

\* Nothing stays charged to the host's budget that is neither retained nor
\* pinned (finish, drop).
ChargesReturned == \A l \in Loads : \A k \in Keys :
    (load[l].at = "done" /\ ent[l][k].lease) => ent[l][k].readers > 0 \/ (ent[l][k].retained /\ entries[k] = l)

\* A read never joins a load that was cancelled, and a fetch somebody waits
\* for is not cancelled while the cache is open (leave).
WaitedNotCancelled == \A c \in Callers : \A k \in On(c) : ~closed => ~load[caller[c].on[k]].cancelled

\* A load started before a Clear does not repopulate the cache after it, and
\* nothing is retained once it is closed (finish, Clear).
NotRepopulated == [][\A k \in Keys : \A l \in Loads : (entries[k] # l /\ entries'[k] = l) => ~load[l].stale /\ ~closed]_vars

\* A prefetch takes no slot from the other loads, and neither kind exceeds its
\* bound (admit, finish).
Running(pre) == {l \in Loads : load[l].at \in {"run", "fetched"} /\ load[l].pre = pre}
SlotsBounded == /\ Cardinality(Running(TRUE)) = slots.prefetches /\ slots.prefetches <= PrefetchLimit
                /\ Cardinality(Running(FALSE)) = slots.active - slots.prefetches /\ slots.active - slots.prefetches <= LoadLimit

\* A read waiting for a slot is woken: it does not wait on where the loads
\* that held the slots have all ended (finish, Close).
NobodyForgotten == \A c \in Callers : caller[c].at = "blocked" => NoSlot(c) /\ ~closed
====
