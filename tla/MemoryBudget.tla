--------------------------- MODULE MemoryBudget ---------------------------
(***************************************************************************)
(* The host's allotment of memory (resource/budget.go, cache_reclaim.go):  *)
(* reservations taken at once or waited for in order, and caches that give *)
(* back what nothing reads before a reservation is refused.  The cache is  *)
(* checkpoint.Cache as the budget sees it: an entry is charged, is read,   *)
(* and is dropped at its last release while the budget is short.           *)
(***************************************************************************)
EXTENDS Integers, Sequences, FiniteSets, SequencesExt, FiniteSetsExt

CONSTANTS Owners,   \* callers of Acquire, TryAcquire, TryGrow, Release and Close
          Entries,  \* cache entries, a byte each
          Limit, Amounts

VARIABLES used,       \* Budget.used
          queue,      \* Budget.queue: the owners waiting
          reclaiming, \* Budget.reclaiming
          owner,      \* each owner's call: where it is, what it asks, whether it waits its turn, and its lease
          granted,    \* the waiters whose channel is closed
          entry       \* each cache entry: absent, idle or read

vars == <<used, queue, reclaiming, owner, granted, entry>>

NoCall == [at |-> "idle", asks |-> 0, waits |-> FALSE, lease |-> 0, ended |-> FALSE]
Fits(n) == n <= Limit - used

----------------------------------------------------------------------------
\* TryAcquire, TryGrow, Acquire: more than the whole allotment is refused,
\* and no cache gives anything back for it.
Calls(o, n, waits) ==
    /\ owner[o].at = "idle" /\ (waits => owner[o].lease = 0)
    /\ owner' = [owner EXCEPT ![o] = [@ EXCEPT !.at = IF n > Limit THEN "idle" ELSE "try", !.asks = IF n > Limit THEN 0 ELSE n,
                                             !.waits = waits /\ n <= Limit, !.ended = FALSE]]
    /\ UNCHANGED <<used, queue, reclaiming, granted, entry>>

\* tryAcquire, tryGrow: without waiting, and never past a waiter.
AdmitsPast(n) == Fits(n)
Admits(n) == queue = <<>> /\ Fits(n)
Taken(o) == [owner[o] EXCEPT !.at = "idle", !.lease = @ + owner[o].asks, !.asks = 0, !.waits = FALSE]
NotTaken(o) == [owner[o] EXCEPT !.at = "idle", !.asks = 0, !.waits = FALSE, !.ended = FALSE]
Try(o) ==
    LET n == owner[o].asks
    IN /\ owner[o].at = "try"
       /\ \/ owner[o].ended /\ owner' = [owner EXCEPT ![o] = NotTaken(o)] /\ UNCHANGED <<used, reclaiming>>
          \/ ~owner[o].ended /\ Admits(n) /\ used' = used + n /\ owner' = [owner EXCEPT ![o] = Taken(o)] /\ UNCHANGED reclaiming
          \/ /\ ~owner[o].ended /\ ~Admits(n) /\ reclaiming' = reclaiming + 1 /\ UNCHANGED used
             /\ owner' = [owner EXCEPT ![o].at = "reclaim"]
       /\ UNCHANGED <<queue, granted, entry>>

\* withCacheReclaim and Cache.reclaim: an entry nothing reads is dropped, and
\* the attempt is made again after each; a pass that drops none is the last.
Idle == {e \in Entries : entry[e] = "idle"}
Evicts(o) ==
    /\ owner[o].at \in {"reclaim", "reclaimQueued"} /\ ~owner[o].ended
    /\ \E e \in Idle : entry' = [entry EXCEPT ![e] = "absent"]
    /\ owner' = [owner EXCEPT ![o].at = IF @ = "reclaim" THEN "again" ELSE "evictedQueued"]
    /\ UNCHANGED <<used, queue, reclaiming, granted>>

\* grantLocked: the head, and each one after it, that fits.
GrantedRun(q, room) == LET fit == {i \in 0..Len(q) : FoldSeq(LAMBDA o, t : t + owner[o].asks, 0, SubSeq(q, 1, i)) <= room}
                       IN SubSeq(q, 1, CHOOSE i \in fit : \A j \in fit : j <= i)
Grants(q, room) == GrantedRun(q, room)
SumOf(q) == FoldSeq(LAMBDA o, t : t + owner[o].asks, 0, q)
Given(q, u) == \* queue q and use u, once granted
    \E run \in {Grants(q, Limit - u)} :
       queue' = SubSeq(q, Len(run) + 1, Len(q)) /\ used' = u + SumOf(run) /\ granted' = granted \cup Range(run)

\* The lease of an entry dropped is closed, which grants what it frees.
EvictedReleases(o) ==
    /\ owner[o].at \in {"again", "evictedQueued"} /\ Given(queue, used - 1)
    /\ owner' = [owner EXCEPT ![o].at = IF @ = "again" THEN "retry" ELSE "checkQueued"]
    /\ UNCHANGED <<reclaiming, entry>>
ReclaimEnds(o, to) == reclaiming' = reclaiming - 1 /\ owner' = [owner EXCEPT ![o] = to]

\* The attempt after an eviction, and after a pass that made no progress.
Retries(o) ==
    LET n == owner[o].asks
        none == owner[o].at = "reclaim" /\ Idle = {}
        refused == IF owner[o].waits THEN [owner[o] EXCEPT !.at = "enqueue"] ELSE NotTaken(o)
    IN /\ none \/ owner[o].at = "retry"
       /\ \/ owner[o].ended /\ ReclaimEnds(o, NotTaken(o)) /\ UNCHANGED used
          \/ ~owner[o].ended /\ Admits(n) /\ used' = used + n /\ ReclaimEnds(o, Taken(o))
          \/ ~owner[o].ended /\ ~Admits(n) /\ none /\ UNCHANGED used /\ ReclaimEnds(o, refused)
          \/ /\ ~owner[o].ended /\ ~Admits(n) /\ ~none /\ UNCHANGED <<used, reclaiming>>
             /\ owner' = [owner EXCEPT ![o].at = "reclaim"]
       /\ UNCHANGED <<queue, granted, entry>>

\* Acquire, once refused: its turn at the end of the queue, and one more pass
\* over the caches, which may have been filled or released since the first.
Queued(o) == Append(queue, o)
PassAgain(o) == [owner[o] EXCEPT !.at = "startQueued"]
Enqueues(o) ==
    LET n == owner[o].asks
    IN /\ owner[o].at = "enqueue"
       /\ \/ owner[o].ended /\ owner' = [owner EXCEPT ![o] = NotTaken(o)] /\ UNCHANGED <<used, queue>>
          \/ ~owner[o].ended /\ Admits(n) /\ used' = used + n /\ owner' = [owner EXCEPT ![o] = Taken(o)] /\ UNCHANGED queue
          \/ ~owner[o].ended /\ ~Admits(n) /\ queue' = Queued(o) /\ owner' = [owner EXCEPT ![o] = PassAgain(o)] /\ UNCHANGED used
       /\ UNCHANGED <<reclaiming, granted, entry>>
StartsQueued(o) ==
    /\ owner[o].at = "startQueued"
    /\ \/ o \in granted /\ owner' = [owner EXCEPT ![o].at = "wait"] /\ UNCHANGED reclaiming
       \/ o \notin granted /\ owner' = [owner EXCEPT ![o].at = "reclaimQueued"] /\ reclaiming' = reclaiming + 1
    /\ UNCHANGED <<used, queue, granted, entry>>
ChecksQueued(o) ==
    /\ \/ owner[o].at = "reclaimQueued" /\ (Idle = {} \/ owner[o].ended) /\ ReclaimEnds(o, [owner[o] EXCEPT !.at = "wait"])
       \/ owner[o].at = "checkQueued" /\ o \in granted /\ ReclaimEnds(o, [owner[o] EXCEPT !.at = "wait"])
       \/ owner[o].at = "checkQueued" /\ o \notin granted /\ owner' = [owner EXCEPT ![o].at = "reclaimQueued"] /\ UNCHANGED reclaiming
    /\ UNCHANGED <<used, queue, granted, entry>>

\* The wait ends with the grant, or with the context; a grant that crosses it
\* is given back.
Removed(o) == SelectSeq(queue, LAMBDA p : p # o)
GivenBack(o) == used - (IF o \in granted THEN owner[o].asks ELSE 0)
Waits(o) ==
    /\ owner[o].at = "wait"
    /\ \/ /\ o \in granted /\ ~owner[o].ended /\ granted' = granted \ {o} /\ UNCHANGED <<used, queue>>
          /\ owner' = [owner EXCEPT ![o] = Taken(o)]
       \/ /\ owner[o].ended /\ owner' = [owner EXCEPT ![o] = NotTaken(o)]
          /\ \E run \in {Grants(Removed(o), Limit - GivenBack(o))} :
                /\ queue' = SubSeq(Removed(o), Len(run) + 1, Len(Removed(o))) /\ used' = GivenBack(o) + SumOf(run)
                /\ granted' = (granted \ {o}) \cup Range(run)
    /\ UNCHANGED <<reclaiming, entry>>
Cancels(o) == owner[o].at # "idle" /\ ~owner[o].ended /\ owner' = [owner EXCEPT ![o].ended = TRUE] /\ UNCHANGED <<used, queue, reclaiming, granted, entry>>

\* Release, Lease.Close.
Releases(o, n) ==
    /\ owner[o].at = "idle" /\ owner[o].lease >= n /\ n > 0
    /\ owner' = [owner EXCEPT ![o].lease = @ - n] /\ Given(queue, used - n)
    /\ UNCHANGED <<reclaiming, entry>>

----------------------------------------------------------------------------
(* The cache.                                                              *)

\* TryAcquireCache: never past a waiter or a reclaim.
Retains == reclaiming = 0 /\ queue = <<>>
Caches(e) ==
    /\ entry[e] = "absent" /\ Retains /\ Fits(1)
    /\ entry' = [entry EXCEPT ![e] = "read"] /\ used' = used + 1 /\ UNCHANGED <<queue, reclaiming, owner, granted>>
Reads(e) == entry[e] = "idle" /\ entry' = [entry EXCEPT ![e] = "read"] /\ UNCHANGED <<used, queue, reclaiming, owner, granted>>
\* Cache.releaseLocked, CacheRetentionAllowed: the last reader drops the entry
\* while the budget is short.
Keeps == Retains
EndsRead(e) ==
    /\ entry[e] = "read"
    /\ \/ Keeps /\ entry' = [entry EXCEPT ![e] = "idle"] /\ UNCHANGED <<used, queue, granted>>
       \/ ~Keeps /\ entry' = [entry EXCEPT ![e] = "absent"] /\ Given(queue, used - 1)
    /\ UNCHANGED <<reclaiming, owner>>

Init == used = 0 /\ queue = <<>> /\ reclaiming = 0 /\ owner = [o \in Owners |-> NoCall] /\ granted = {} /\ entry = [e \in Entries |-> "absent"]

Steps(o) == Try(o) \/ Evicts(o) \/ EvictedReleases(o) \/ Retries(o) \/ Enqueues(o) \/ StartsQueued(o) \/ ChecksQueued(o) \/ Waits(o)
Next ==
    \/ \E o \in Owners : \/ \E n \in Amounts, w \in BOOLEAN : Calls(o, n, w)
                         \/ Steps(o) \/ Cancels(o) \/ \E n \in Amounts : Releases(o, n)
    \/ \E e \in Entries : Caches(e) \/ Reads(e) \/ EndsRead(e)
Fair == \A o \in Owners : WF_vars(Steps(o)) /\ SF_vars(Releases(o, owner[o].lease))
Spec == Init /\ [][Next]_vars /\ Fair /\ \A e \in Entries : WF_vars(EndsRead(e))

----------------------------------------------------------------------------
\* Every variable keeps its type, and the reservations counted are never more
\* than the allotment (Budget).
TypeOK == used \in 0..Limit /\ reclaiming \in 0..Cardinality(Owners) /\ granted \cap Range(queue) = {}

\* What is used is what the leases, the grants not yet taken and the cache's
\* entries hold: nothing leaks when a grant crosses a cancellation (Acquire).
UsedAccounted ==
    used = MapThenSumSet(LAMBDA o : owner[o].lease + (IF o \in granted THEN owner[o].asks ELSE 0), Owners)
           + Cardinality({e \in Entries : entry[e] # "absent"})
           + Cardinality({o \in Owners : owner[o].at \in {"again", "evictedQueued"}})

\* Nobody passes a waiter: while one waits, no other reservation is made, and
\* the waiters are served in the order they came (tryAcquire, grantLocked).
NobodyPasses ==
    [][/\ queue # <<>> => \A o \in Owners : (owner'[o].lease > owner[o].lease) => o \in granted
       /\ \A i, j \in DOMAIN queue : i < j /\ queue[j] \in granted' => queue[i] \notin Range(queue')]_vars

\* No waiter is stranded: whenever no pass over the caches is under way and
\* no wait is being given up, the first in line does not fit, and no cache entry that nothing reads is left
\* that could make room for it (Acquire, releaseLocked).
NoneStranded ==
    (queue # <<>> /\ reclaiming = 0 /\ \A o \in Owners : owner[o].at # "startQueued" /\ ~owner[o].ended)
       => ~Fits(owner[Head(queue)].asks) /\ Idle = {}

\* Every wait ends, once those who hold memory give it back (grantLocked).
WaitsEnd == \A o \in Owners : (owner[o].at = "wait") ~> (owner[o].at # "wait")
====
