----------------------------- MODULE FillQueue -----------------------------
(***************************************************************************)
(* A cache's fills of the cluster (checkpoint/fill.go, fillsend.go).  A    *)
(* fill holds room in one queue from when it is handed over until its last *)
(* holder's job has ended: a read's that finds none is dropped, a          *)
(* publication's waits for it, up to a bound.  One worker decides the      *)
(* fills, the reads' first, and puts each holder's stripes on the lane of  *)
(* the member that serves its disk, or of this host's own disks; a lane    *)
(* carries one job at a time.  Each fill here has two holders: a disk of a *)
(* peer, and one of this host's.                                           *)
(***************************************************************************)
EXTENDS Integers, Sequences, FiniteSets, SequencesExt

CONSTANTS Pubs,          \* the windows of a publication
          Prompt,        \* the fills of reads, pulls and repairs
          Bytes,         \* the bytes of each
          QueueBytes,    \* FillQueueBytes
          KeepsInFlight, \* FillKeepsInFlight
          KeepsPerHolder,\* fillKeepsPerHolder
          Budget,        \* the keeps the background budget holds; the last is not a publication's
          MaxMoves       \* bound on the moves of the peer's disk to another member

Fills == Pubs \cup Prompt
Peers == {"a1", "a2"}
Lanes == Peers \cup {"own"}
None == 0

VARIABLES fill,    \* each fill
          queued,  \* the bytes of the queue held
          waiting, \* the publications' windows waiting for room
          prompt, paced, \* the fills handed to the worker
          worker, wake,  \* the worker of fills, and what tells it of more
          lane,    \* each lane
          held,    \* of the background budget: by jobs, by others, and what pacedBytes says
          gaveUp,  \* the publication waits no more
          serves,  \* the member that serves the peer's disk
          moves, closed,
          handed, got \* the publications' windows in the order handed over, and received by the peer's disk

vars == <<fill, queued, waiting, prompt, paced, worker, wake, lane, held, gaveUp, serves, moves, closed, handed, got>>

NewFill == [at |-> "new", next |-> 0, route |-> "own", pending |-> 0, blocked |-> FALSE]
Gone == [NewFill EXCEPT !.at = "gone"]
EmptyLane == [prompt |-> <<>>, paced |-> <<>>, held |-> 0, job |-> None, at |-> "free", to |-> "own"]
InFlight == FoldFunction(LAMBDA l, n : l.held + n, 0, lane)

HighWater == QueueBytes - QueueBytes \div 4
FitsPaced(q, f) == q = 0 \/ q + Bytes[f] <= HighWater
FitsBound(q, f) == q = 0 \/ q + Bytes[f] <= QueueBytes

\* giveRoom: the windows waiting are given room from the first, while each fits.
GiveRoom(q, w) == FoldLeft(LAMBDA acc, f : IF acc.full \/ ~FitsPaced(acc.queued, f) THEN [acc EXCEPT !.full = TRUE]
                                           ELSE [acc EXCEPT !.queued = @ + Bytes[f], !.given = @ \cup {f}],
                           [queued |-> q, given |-> {}, full |-> closed], w)
\* release: a fill's room given back and, while the fills are open, given on.
RoomGiven(new, q, w) == LET g == GiveRoom(q, w)
                        IN /\ queued' = g.queued
                           /\ waiting' = SelectSeq(w, LAMBDA f : f \notin g.given)
                           /\ fill' = [f \in Fills |-> IF f \in g.given THEN [fill[f] EXCEPT !.at = "took"] ELSE new[f]]
Released(f) == RoomGiven([fill EXCEPT ![f] = Gone], queued - Bytes[f], waiting)
Unreleased == UNCHANGED <<queued, waiting>>

----------------------------------------------------------------------------
(* Fills are handed over.                                                  *)

\* reserve: a read's fill takes room at once, or is dropped.
Reserve(f) ==
    /\ f \in Prompt /\ fill[f].at = "new"
    /\ IF ~closed /\ FitsBound(queued, f)
       THEN queued' = queued + Bytes[f] /\ fill' = [fill EXCEPT ![f].at = "took"]
       ELSE fill' = [fill EXCEPT ![f] = Gone] /\ UNCHANGED queued
    /\ UNCHANGED <<waiting, prompt, paced, worker, wake, lane, held, gaveUp, serves, moves, closed, handed, got>>

\* room: a publication's window takes room below the high-water mark, none
\* ahead of one waiting; it waits, or is dropped once the publication gave up.
TakesAhead(f) == FitsPaced(queued, f)
MayTake(f) == waiting = <<>> /\ FitsPaced(queued, f)
Room(f) ==
    /\ f \in Pubs /\ fill[f].at = "new"
    /\ \/ closed /\ fill' = [fill EXCEPT ![f] = Gone] /\ Unreleased
       \/ ~closed /\ MayTake(f) /\ queued' = queued + Bytes[f] /\ fill' = [fill EXCEPT ![f].at = "took"] /\ UNCHANGED waiting
       \/ ~closed /\ ~MayTake(f) /\ gaveUp /\ fill' = [fill EXCEPT ![f] = Gone] /\ Unreleased
       \/ /\ ~closed /\ ~MayTake(f) /\ ~gaveUp /\ fill' = [fill EXCEPT ![f].at = "waits"] /\ waiting' = Append(waiting, f)
          /\ UNCHANGED queued
    /\ UNCHANGED <<prompt, paced, worker, wake, lane, held, gaveUp, serves, moves, closed, handed, got>>

\* room: the bound is reached, or the publication's context ends.  The window
\* gone may have been all that held back the next one.
StopsWaiting(f) ==
    /\ fill[f].at = "waits" /\ ~closed
    /\ RoomGiven([fill EXCEPT ![f] = Gone], queued, SelectSeq(waiting, LAMBDA g : g # f))
    /\ gaveUp' \in {gaveUp, TRUE}
    /\ UNCHANGED <<prompt, paced, worker, wake, lane, held, serves, moves, closed, handed, got>>

Listed(f) == Append(paced, f)
\* pushPrompt, pushPaced: once the worker has returned the fill is dropped.
Push(f) ==
    /\ fill[f].at = "took"
    /\ IF worker.at = "stopped" THEN Released(f) /\ UNCHANGED <<prompt, paced, wake, handed>>
       ELSE /\ fill' = [fill EXCEPT ![f].at = "listed"] /\ Unreleased /\ wake' = TRUE
            /\ IF f \in Prompt THEN prompt' = Append(prompt, f) /\ UNCHANGED <<paced, handed>>
               ELSE paced' = Listed(f) /\ handed' = Append(handed, f) /\ UNCHANGED prompt
    /\ UNCHANGED <<worker, lane, held, gaveUp, serves, moves, closed, got>>

----------------------------------------------------------------------------
(* The worker of fills.                                                    *)

Ready == paced # <<>> /\ (closed \/ ~fill[Head(paced)].blocked)
\* runFills: the prompt work first, then the first publication's fill.
Picks ==
    /\ worker.at = "loop"
    /\ \/ prompt # <<>> /\ worker' = [at |-> "right", f |-> Head(prompt)] /\ prompt' = Tail(prompt)
       \/ prompt = <<>> /\ Ready /\ UNCHANGED prompt
          /\ worker' = [at |-> IF fill[Head(paced)].next = 0 THEN "split" ELSE "decide", f |-> Head(paced)]
       \/ prompt = <<>> /\ paced = <<>> /\ closed /\ worker' = [at |-> "stopped", f |-> None] /\ UNCHANGED prompt
       \/ prompt = <<>> /\ ~Ready /\ ~(paced = <<>> /\ closed) /\ worker' = [at |-> "idle", f |-> None] /\ UNCHANGED prompt
    /\ UNCHANGED <<fill, queued, waiting, paced, wake, lane, held, gaveUp, serves, moves, closed, handed, got>>

\* idleFills: told of more, or closed; the blocked fills look again.  A fill
\* waiting for a time is taken when it has come, whatever the worker does
\* meanwhile.
Unblocked == [f \in Fills |-> [fill[f] EXCEPT !.blocked = FALSE]]
Wakes ==
    /\ worker.at = "idle"
    /\ wake \/ closed
    /\ wake' = FALSE /\ worker' = [at |-> "loop", f |-> None]
    /\ fill' = Unblocked
    /\ UNCHANGED <<queued, waiting, prompt, paced, lane, held, gaveUp, serves, moves, closed, handed, got>>

\* do, right: rank 1 gives the window's right, or the fill is let go.
AsksRight ==
    /\ worker.at = "right"
    /\ \/ worker' = [worker EXCEPT !.at = "split"] /\ UNCHANGED <<fill, queued, waiting>>
       \/ ~closed /\ worker' = [at |-> "loop", f |-> None] /\ Released(worker.f)
    /\ UNCHANGED <<prompt, paced, wake, lane, held, gaveUp, serves, moves, closed, handed, got>>

\* split: by the membership held now; nothing is placed once closed.
Split ==
    /\ worker.at = "split"
    /\ IF closed
       THEN /\ Released(worker.f) /\ worker' = [at |-> "loop", f |-> None]
            /\ paced' = IF worker.f \in Pubs THEN Tail(paced) ELSE paced
       ELSE /\ fill' = [fill EXCEPT ![worker.f].next = 1, ![worker.f].route = serves]
            /\ worker' = [worker EXCEPT !.at = "decide"] /\ Unreleased /\ UNCHANGED paced
    /\ UNCHANGED <<prompt, wake, lane, held, gaveUp, serves, moves, closed, handed, got>>

HolderLane(f) == IF fill[f].next = 1 THEN fill[f].route ELSE "own"
\* laneRoom: the publications' jobs on the lane and on every lane.
LaneRoom(a) == InFlight < KeepsInFlight /\ lane[a].held < KeepsPerHolder
\* The worker goes on to the next holder, or lets the prompt work go first.
Decided(f, new) ==
    /\ fill' = [fill EXCEPT ![f] = [new EXCEPT !.next = @ + 1]]
    /\ worker' = IF new.next = 2 THEN [worker EXCEPT !.at = "seal"]
                 ELSE IF f \in Pubs /\ ~closed /\ prompt # <<>> THEN [at |-> "loop", f |-> None]
                 ELSE [worker EXCEPT !.at = "decide"]
Enqueued(f, a) == [lane EXCEPT ![a] = IF f \in Pubs THEN [@ EXCEPT !.paced = Append(@, f), !.held = @ + 1]
                                      ELSE [@ EXCEPT !.prompt = Append(@, f)]]

\* decide: dropped, or queued on the lane of its holder.
Drops(f) == Decided(f, fill[f]) /\ UNCHANGED <<lane, held>>
Blocks(f) == /\ fill' = [fill EXCEPT ![f].blocked = TRUE] /\ worker' = [at |-> "loop", f |-> None]
             /\ UNCHANGED <<lane, held>>
DecideOwn ==
    LET f == worker.f
    IN /\ worker.at = "decide" /\ fill[f].next = 2
       /\ \/ closed /\ Drops(f)
          \/ ~closed /\ f \in Pubs /\ ~LaneRoom("own") /\ Blocks(f)
          \/ /\ ~closed /\ (f \in Prompt \/ LaneRoom("own"))
             /\ lane' = Enqueued(f, "own") /\ Decided(f, [fill[f] EXCEPT !.pending = @ + 1]) /\ UNCHANGED held
       /\ UNCHANGED <<queued, waiting, prompt, paced, wake, gaveUp, serves, moves, closed, handed, got>>

\* admit: the rate, a holder marked down, the background budget.  A
\* publication's keep that must wait is tried again later, or has waited out
\* the bound; one that finds its own keeps holding the budget is blocked.
HasBudget(f) == held.jobs + held.others + 1 <= (IF f \in Pubs THEN Budget - 1 ELSE Budget)
DecidePeer ==
    LET f == worker.f
        a == fill[f].route
    IN /\ worker.at = "decide" /\ fill[f].next = 1
       /\ \/ closed /\ Drops(f) /\ UNCHANGED gaveUp
          \/ ~closed /\ f \in Pubs /\ ~LaneRoom(a) /\ Blocks(f) /\ UNCHANGED gaveUp
          \/ /\ ~closed /\ (f \in Prompt \/ LaneRoom(a))
             /\ \/ Drops(f) /\ UNCHANGED gaveUp
                \/ /\ f \in Pubs /\ ~gaveUp
                   /\ worker' = [at |-> "loop", f |-> None] /\ UNCHANGED <<fill, lane, held, gaveUp>>
                \/ f \in Pubs /\ ~gaveUp /\ gaveUp' = TRUE /\ Drops(f)
                \/ /\ HasBudget(f) /\ held' = [held EXCEPT !.jobs = @ + 1, !.paced = IF f \in Pubs THEN @ + 1 ELSE @]
                   /\ lane' = Enqueued(f, a) /\ Decided(f, [fill[f] EXCEPT !.pending = @ + 1]) /\ UNCHANGED gaveUp
                \/ /\ ~HasBudget(f) /\ worker' = [worker EXCEPT !.at = "noroom"] /\ UNCHANGED <<fill, lane, held, gaveUp>>
       /\ UNCHANGED <<queued, waiting, prompt, paced, wake, serves, moves, closed, handed, got>>
NoBudget ==
    LET f == worker.f
    IN /\ worker.at = "noroom"
       /\ \/ f \in Pubs /\ held.paced > 0 /\ Blocks(f) /\ UNCHANGED gaveUp
          \/ /\ f \in Pubs /\ held.paced = 0 /\ ~gaveUp
             /\ worker' = [at |-> "loop", f |-> None] /\ UNCHANGED <<fill, lane, held, gaveUp>>
          \/ /\ f \in Prompt \/ held.paced = 0
             /\ Drops(f)
             /\ gaveUp' = (gaveUp \/ f \in Pubs)
       /\ UNCHANGED <<queued, waiting, prompt, paced, wake, serves, moves, closed, handed, got>>

\* seal: every holder is decided; the room is given back now where no job is
\* on its way.
Sealed(f) == IF fill[f].pending = 0 THEN Released(f)
             ELSE fill' = [fill EXCEPT ![f].at = "sealed"] /\ Unreleased
Seal ==
    /\ worker.at = "seal"
    /\ Sealed(worker.f)
    /\ paced' = IF worker.f \in Pubs THEN Tail(paced) ELSE paced
    /\ worker' = [at |-> "loop", f |-> None]
    /\ UNCHANGED <<prompt, wake, lane, held, gaveUp, serves, moves, closed, handed, got>>

----------------------------------------------------------------------------
(* The lanes.                                                              *)

\* runLane: a read's job first, one at a time.  A write to this host's own
\* disk, which nothing here sees, is over when its job ends.
Taken(a) == IF a = "own" THEN "ended" ELSE "carry"
Carries(a) ==
    /\ lane[a].job = None
    /\ \/ /\ lane[a].prompt # <<>>
          /\ lane' = [lane EXCEPT ![a].job = Head(lane[a].prompt), ![a].prompt = Tail(@), ![a].at = Taken(a), ![a].to = a]
       \/ /\ lane[a].prompt = <<>> /\ lane[a].paced # <<>>
          /\ lane' = [lane EXCEPT ![a].job = Head(lane[a].paced), ![a].paced = Tail(@), ![a].at = Taken(a), ![a].to = a]
    /\ UNCHANGED <<fill, queued, waiting, prompt, paced, worker, wake, held, gaveUp, serves, moves, closed, handed, got>>

\* carry: the keep.  A holder that no longer serves the disk answers stale,
\* and the keep goes to the one that does.
Ended(a) == [lane EXCEPT ![a].at = "end"]
Sends(a) ==
    /\ lane[a].at = "carry"
    /\ \/ lane' = Ended(a) /\ UNCHANGED <<gaveUp, got>>
       \/ /\ ~closed /\ lane[a].to # serves
          /\ lane' = [lane EXCEPT ![a].to = serves] /\ UNCHANGED <<gaveUp, got>>
       \/ /\ ~closed /\ lane[a].to = serves
          /\ lane' = Ended(a) /\ UNCHANGED gaveUp
          /\ got' = IF lane[a].job \in Pubs THEN Append(got, lane[a].job) ELSE got
       \/ ~closed /\ lane[a].job \in Pubs /\ ~gaveUp /\ lane' = [lane EXCEPT ![a].at = "busy"] /\ UNCHANGED <<gaveUp, got>>
    /\ UNCHANGED <<fill, queued, waiting, prompt, paced, worker, wake, held, serves, moves, closed, handed>>

\* A busy holder is tried again, ahead of every job behind, until the bound.
Again(a) == [lane EXCEPT ![a].at = "carry", ![a].to = a]
TriesAgain(a) ==
    /\ lane[a].at = "busy"
    /\ \/ lane' = Again(a) /\ UNCHANGED gaveUp
       \/ lane' = Ended(a) /\ gaveUp' \in {gaveUp, TRUE}
    /\ UNCHANGED <<fill, queued, waiting, prompt, paced, worker, wake, held, serves, moves, closed, handed, got>>

\* end: the budget, then the place on the lane and, after the fill's last job,
\* its room; the worker is told.
BudgetGiven == [held EXCEPT !.jobs = @ - 1]
GivesBudget(a) ==
    /\ lane[a].at = "end"
    /\ lane' = [lane EXCEPT ![a].at = "ended"]
    /\ held' = BudgetGiven
    /\ UNCHANGED <<fill, queued, waiting, prompt, paced, worker, wake, gaveUp, serves, moves, closed, handed, got>>
Told(f) == wake \/ f \in Pubs
Ends(a) ==
    LET f == lane[a].job
        last == fill[f].pending = 1 /\ fill[f].at = "sealed"
    IN /\ lane[a].at = "ended"
       /\ lane' = [lane EXCEPT ![a].job = None, ![a].at = "free", ![a].to = "own", ![a].held = IF f \in Pubs THEN @ - 1 ELSE @]
       /\ held' = IF a # "own" /\ f \in Pubs THEN [held EXCEPT !.paced = @ - 1] ELSE held
       /\ IF last THEN Released(f) ELSE fill' = [fill EXCEPT ![f].pending = @ - 1] /\ Unreleased
       /\ wake' = Told(f)
       /\ UNCHANGED <<prompt, paced, worker, gaveUp, serves, moves, closed, handed, got>>

----------------------------------------------------------------------------
\* The rest of the host's background work gives the budget back.
OtherWork ==
    /\ held.others = 1 /\ held' = [held EXCEPT !.others = 0]
    /\ UNCHANGED <<fill, queued, waiting, prompt, paced, worker, wake, lane, gaveUp, serves, moves, closed, handed, got>>

\* The controller has the other member serve the peer's disk.
DiskMoves ==
    /\ moves < MaxMoves /\ ~closed /\ moves' = moves + 1
    /\ serves' = CHOOSE a \in Peers : a # serves
    /\ UNCHANGED <<fill, queued, waiting, prompt, paced, worker, wake, lane, held, gaveUp, closed, handed, got>>

Close ==
    /\ ~closed /\ moves = 0 /\ closed' = TRUE
    /\ waiting' = <<>>
    /\ fill' = [f \in Fills |-> IF fill[f].at = "waits" THEN Gone ELSE fill[f]]
    /\ UNCHANGED <<queued, prompt, paced, worker, wake, lane, held, gaveUp, serves, moves, handed, got>>

Init ==
    /\ fill = [f \in Fills |-> NewFill] /\ queued = 0 /\ waiting = <<>> /\ prompt = <<>> /\ paced = <<>>
    /\ worker = [at |-> "loop", f |-> None] /\ wake = FALSE
    /\ lane = [a \in Lanes |-> EmptyLane] /\ held \in [jobs : {0}, others : {0, 1}, paced : {0}]
    /\ gaveUp = FALSE /\ serves = "a1" /\ moves = 0 /\ closed = FALSE /\ handed = <<>> /\ got = <<>>

Works == Picks \/ Wakes \/ AsksRight \/ Split \/ DecideOwn \/ DecidePeer \/ NoBudget \/ Seal
LaneWorks(a) == Carries(a) \/ Sends(a) \/ TriesAgain(a) \/ GivesBudget(a) \/ Ends(a)
Next == \/ \E f \in Fills : Reserve(f) \/ Room(f) \/ StopsWaiting(f) \/ Push(f)
        \/ Works
        \/ \E a \in Lanes : LaneWorks(a)
        \/ OtherWork \/ DiskMoves \/ Close
Spec == Init /\ [][Next]_vars

----------------------------------------------------------------------------
\* Every variable keeps its type; only publications wait (filler in fill.go).
TypeOK ==
    /\ \A f \in Fills : fill[f].at \in {"new", "waits", "took", "listed", "sealed", "gone"} /\ fill[f].pending \in 0..2
    /\ Range(waiting) = {f \in Pubs : fill[f].at = "waits"}
    /\ held.jobs \in 0..Budget /\ queued \in Nat

\* The queue's bytes are those of the fills handed over and not done: no room
\* is lost where a job ends before its fill is sealed, a wait times out as room
\* is given, or the fills close (release, seal, end, room).
Holding(f) == fill[f].at \in {"took", "listed", "sealed"}
RoomAccounted == queued = FoldFunction(LAMBDA n, m : n + m, 0, [f \in Fills |-> IF Holding(f) THEN Bytes[f] ELSE 0])

\* The queue never holds more than its bound, but for one fill alone, and the
\* last quarter is never a publication's (reserve, fitsPaced).
QueueBounded == \/ queued <= QueueBytes
                \/ Cardinality({f \in Fills : Holding(f)}) = 1
PublicationsBelowHighWater == [][\A f \in Pubs : (~Holding(f) /\ Holding(f)') => queued' <= HighWater \/ queued' = Bytes[f]]_vars

\* The publications' jobs on a lane and on every lane stay within their bounds,
\* and the lane counts those it holds (laneRoom, enqueue, end).
JobsBounded == /\ InFlight <= KeepsInFlight
               /\ \A a \in Lanes : /\ lane[a].held <= KeepsPerHolder
                                   /\ lane[a].held = Len(lane[a].paced) + (IF lane[a].job \in Pubs THEN 1 ELSE 0)

\* A window given room is never given it ahead of one that began to wait
\* before it (room, giveRoom).
WaitersInOrder == [][\A f \in Pubs : (~Holding(f) /\ Holding(f)') => \A g \in Range(waiting) : g # f => \/ fill'[g].at # "waits"
                        \/ \E i, j \in DOMAIN waiting : waiting[i] = f /\ waiting[j] = g /\ i < j]_vars

\* The worker never sleeps on a publication's fill that could go on: what
\* blocked it, its holder's lane full or the budget held by the publications'
\* own keeps, is still so unless it has been told to look again (runFills, end).
NoLostWakeup == (worker.at = "idle" /\ paced # <<>> /\ fill[Head(paced)].blocked /\ ~wake) =>
    InFlight > 0 /\ (~LaneRoom(HolderLane(Head(paced))) \/ held.paced > 0)

\* A disk receives this host's publications' keeps in the order their fills
\* were handed over in (fillsend.go), while the member serving it stays.
Place(s, f) == CHOOSE i \in DOMAIN s : s[i] = f
ReceivedInOrder == \A i, j \in DOMAIN got : i < j => Place(handed, got[i]) <= Place(handed, got[j])
InOrderWhileServed == moves = 0 => ReceivedInOrder

\* Nothing stays held once every fill is done (end, release).
NothingLeft == (\A f \in Fills : fill[f].at \in {"new", "gone"}) =>
    queued = 0 /\ held.jobs = 0 /\ held.paced = 0 /\ InFlight = 0 /\ waiting = <<>>
====
