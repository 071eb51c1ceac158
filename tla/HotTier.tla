------------------------------ MODULE HotTier ------------------------------
(***************************************************************************)
(* Reads through a hot tier (checkpoint/hottier.go): a second bucket a     *)
(* read tries first, under a bound, and fills of it behind the reads and   *)
(* the publications, done by one worker from one bounded queue.  The       *)
(* regional bucket is the only durable copy; reclamation deletes there     *)
(* alone.  The hot bucket loses replies, refuses, and may keep half.       *)
(***************************************************************************)
EXTENDS Integers, Sequences, FiniteSets, SequencesExt

CONSTANTS Objects, Readers,
          Fresh,      \* the objects a publication has yet to write
          Sizes,      \* the bytes of each object
          QueueBytes, \* HotTierConfig.QueueBytes
          DownAfter,  \* hotTierDownAfter
          MaxReads    \* bound on the reads

VARIABLES regional, hot, \* what each bucket holds of each object: none, half or whole
          reader,        \* each read: where it is, its object, whether the hot tier missed, and what the hot tier spoilt of it
          failures, down,
          queued, pending, busy, \* the fills held
          lane,          \* the fills handed to the worker, and whether it has stopped
          worker,        \* the fill it does
          publisher,     \* a publication's object between its regional PUT and its fill
          reads, closed

vars == <<regional, hot, reader, failures, down, queued, pending, busy, lane, worker, publisher, reads, closed>>

NoRead == [at |-> "idle", key |-> "none", missed |-> FALSE, got |-> "none"]
Idle == [at |-> "idle", key |-> "none"]

----------------------------------------------------------------------------
(* Reads.                                                                  *)

\* read, usable: the hot tier is tried unless it is marked down.
Read(r, k) ==
    /\ reader[r].at = "idle" /\ reads < MaxReads /\ regional[k] # "new"
    /\ reads' = reads + 1
    /\ reader' = [reader EXCEPT ![r] = [at |-> IF down THEN "regional" ELSE "hot", key |-> k, missed |-> FALSE, got |-> "none"]]
    /\ UNCHANGED <<regional, hot, failures, down, queued, pending, busy, lane, worker, publisher, closed>>

\* attempt: a hit, a miss, or a failure.  A half copy answers what lies in its
\* half, and the rest is found missing.
Answers(k) == IF hot[k] = "none" THEN {"miss", "fail"} ELSE {"right", "fail"}

Ended(r, got) == [reader EXCEPT ![r] = [NoRead EXCEPT !.got = got]]
ToRegional(r, missed) == [reader EXCEPT ![r].at = "regional", ![r].missed = missed]
FallsBack(r) == ToRegional(r, FALSE)
Attempt(r) ==
    LET k == reader[r].key
    IN /\ reader[r].at = "hot"
       /\ \E a \in Answers(k) :
             \/ a \in {"right", "short"} /\ reader' = Ended(r, IF a = "short" THEN a ELSE "none") /\ failures' = 0 /\ UNCHANGED down
             \/ a = "miss" /\ reader' = ToRegional(r, TRUE) /\ failures' = 0 /\ UNCHANGED down
             \/ /\ a = "fail" /\ reader' = FallsBack(r)
                /\ failures' = (failures + 1) % DownAfter
                /\ down' = (down \/ failures + 1 = DownAfter)
       /\ UNCHANGED <<regional, hot, queued, pending, busy, lane, worker, publisher, reads, closed>>

\* hold: room in the queue and the rate for one fill of an object.
Room(k) == queued = 0 \/ queued + Sizes[k] <= QueueBytes
Holds(k) == ~closed /\ k \notin pending /\ Room(k)
Held(k) == queued' = queued + Sizes[k] /\ pending' = pending \cup {k} /\ busy' = busy + 1
NotHeld == UNCHANGED <<queued, pending, busy>>

\* read of the regional bucket, then fillMiss: its answer is the read's, and
\* the object missed is handed over.  The rate may be spent.
Regional(r) ==
    LET k == reader[r].key
    IN /\ reader[r].at = "regional"
       /\ \/ reader' = Ended(r, "none") /\ NotHeld
          \/ /\ regional[k] = "whole"
             /\ \/ ~reader[r].missed /\ reader' = Ended(r, "none") /\ NotHeld
                \/ reader[r].missed /\ Holds(k) /\ Held(k) /\ reader' = [reader EXCEPT ![r].at = "push", ![r].got = "none"]
                \/ reader[r].missed /\ reader' = Ended(r, "none") /\ NotHeld
       /\ UNCHANGED <<regional, hot, failures, down, lane, worker, publisher, reads, closed>>
DownEnds == down /\ down' = FALSE /\ UNCHANGED <<regional, hot, reader, failures, queued, pending, busy, lane, worker, publisher, reads, closed>>

----------------------------------------------------------------------------
(* Fills.                                                                  *)

\* release: what hold took is given back.
ReleasedLate(k) == queued' = queued - Sizes[k] /\ busy' = busy - 1 /\ UNCHANGED pending
Released(k) == queued' = queued - Sizes[k] /\ pending' = pending \ {k} /\ busy' = busy - 1
\* push: to the lane or, once its worker has stopped, run at once under the
\* context that ended, which drops it.
Pushed(k) == IF lane.stopped THEN Released(k) /\ UNCHANGED lane
             ELSE lane' = [lane EXCEPT !.queue = Append(@, k)] /\ NotHeld
ReadPushes(r) ==
    /\ reader[r].at = "push" /\ Pushed(reader[r].key) /\ reader' = Ended(r, "none")
    /\ UNCHANGED <<regional, hot, failures, down, worker, publisher, reads, closed>>

\* published: an object a publication wrote, once its regional PUT succeeded.
Publishes(k) ==
    /\ publisher.at = "idle" /\ regional[k] = "new"
    /\ regional' = [regional EXCEPT ![k] = "whole"]
    /\ \/ Holds(k) /\ Held(k) /\ publisher' = [at |-> "push", key |-> k]
       \/ NotHeld /\ UNCHANGED publisher
    /\ UNCHANGED <<hot, reader, failures, down, lane, worker, reads, closed>>
PublisherPushes ==
    /\ publisher.at = "push" /\ Pushed(publisher.key) /\ publisher' = Idle
    /\ UNCHANGED <<regional, hot, reader, failures, down, worker, reads, closed>>

\* lane.run: one at a time, in order; what is left when the context ends is
\* dropped, and the worker stops.
Picks ==
    /\ worker.at = "idle" /\ ~lane.stopped
    /\ \/ /\ lane.queue # <<>> /\ worker' = [at |-> IF closed THEN "done" ELSE "get", key |-> Head(lane.queue)]
          /\ lane' = [lane EXCEPT !.queue = Tail(@)]
       \/ lane.queue = <<>> /\ closed /\ lane' = [lane EXCEPT !.stopped = TRUE] /\ UNCHANGED worker
    /\ UNCHANGED <<regional, hot, reader, failures, down, queued, pending, busy, publisher, reads, closed>>
\* copy: the object as the regional bucket holds it, put under its name if
\* nothing is there.  A PUT fails, is refused, keeps half, or loses its reply.
Gets ==
    /\ worker.at = "get"
    /\ worker' \in {[worker EXCEPT !.at = "done"]} \cup (IF regional[worker.key] = "whole" THEN {[worker EXCEPT !.at = "put"]} ELSE {})
    /\ UNCHANGED <<regional, hot, reader, failures, down, queued, pending, busy, lane, publisher, reads, closed>>
Puts ==
    /\ worker.at = "put"
    /\ worker' = [worker EXCEPT !.at = "done"]
    /\ hot' \in {hot} \cup (IF hot[worker.key] = "none" THEN {[hot EXCEPT ![worker.key] = c] : c \in {"half", "whole"}} ELSE {})
    /\ UNCHANGED <<regional, reader, failures, down, queued, pending, busy, lane, publisher, reads, closed>>
Done ==
    /\ worker.at = "done" /\ worker' = Idle /\ Released(worker.key)
    /\ UNCHANGED <<regional, hot, reader, failures, down, lane, publisher, reads, closed>>

\* Reclamation deletes from the regional bucket alone.
Reclaims(k) == regional[k] = "whole" /\ regional' = [regional EXCEPT ![k] = "gone"] /\ UNCHANGED <<hot, reader, failures, down, queued, pending, busy, lane, worker, publisher, reads, closed>>
Close == ~closed /\ closed' = TRUE /\ UNCHANGED <<regional, hot, reader, failures, down, queued, pending, busy, lane, worker, publisher, reads>>

Init ==
    /\ regional = [k \in Objects |-> IF k \in Fresh THEN "new" ELSE "whole"] /\ hot = [k \in Objects |-> "none"]
    /\ reader = [r \in Readers |-> NoRead] /\ failures = 0 /\ down = FALSE
    /\ queued = 0 /\ pending = {} /\ busy = 0 /\ lane = [queue |-> <<>>, stopped |-> FALSE]
    /\ worker = Idle /\ publisher = Idle /\ reads = 0 /\ closed = FALSE

Fills == Picks \/ Gets \/ Puts \/ Done
Next ==
    \/ \E r \in Readers : (\E k \in Objects : Read(r, k)) \/ Attempt(r) \/ Regional(r) \/ ReadPushes(r)
    \/ \E k \in Objects : Publishes(k) \/ Reclaims(k)
    \/ Fills \/ PublisherPushes \/ DownEnds \/ Close
Spec == Init /\ [][Next]_vars /\ WF_vars(Fills) /\ WF_vars(PublisherPushes) /\ \A r \in Readers : WF_vars(ReadPushes(r))

----------------------------------------------------------------------------
\* Every variable keeps its type, and no object is ever kept anew (HotTier).
TypeOK ==
    /\ \A k \in Objects : regional[k] \in {"new", "whole", "gone"} /\ hot[k] \in {"none", "half", "whole"}
    /\ failures \in 0..(DownAfter - 1) /\ busy \in Nat /\ queued \in Nat

\* The hot tier never fails a read and never answers it with less than the
\* object: a read fails only for the regional bucket (read, attempt).
HotNeverHurts == \A r \in Readers : reader[r].got \notin {"failed", "short"}

\* The bytes and the count of the fills held are those of the objects pending,
\* one fill each, whoever handed it over and however it ended (hold, release).
Outstanding == LET inLane == [i \in DOMAIN lane.queue |-> lane.queue[i]]
                   ofReads == {r \in Readers : reader[r].at = "push"}
               IN [n |-> Len(lane.queue) + Cardinality(ofReads) + (IF worker.at # "idle" THEN 1 ELSE 0) + (IF publisher.at = "push" THEN 1 ELSE 0),
                   keys |-> Range(inLane) \cup {reader[r].key : r \in ofReads} \cup
                            (IF worker.at # "idle" THEN {worker.key} ELSE {}) \cup (IF publisher.at = "push" THEN {publisher.key} ELSE {})]
FillsAccounted ==
    /\ pending = Outstanding.keys /\ busy = Outstanding.n /\ busy = Cardinality(pending)
    /\ queued = FoldFunctionOnSet(LAMBDA a, b : a + b, 0, Sizes, pending)

\* The queue holds no more than its bound, but for one fill alone (hold).
QueueBounded == queued <= QueueBytes \/ busy = 1

\* Every fill handed over is done or dropped, so Settle returns, and a Close
\* leaves none behind (run, push).
FillsEnd == \A k \in Objects : (k \in pending) ~> (k \notin pending)
====
