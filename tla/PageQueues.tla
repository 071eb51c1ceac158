----------------------------- MODULE PageQueues -----------------------------
(***************************************************************************)
(* The page queues of a node (vmmemory/internal/zirconvm/pagequeues.go).   *)
(* A reclaimable page has a generation, the one current at its last fault, *)
(* kept as a queue number modulo NumReclaim.  A fault renumbers the page   *)
(* and leaves it in the list it is in; processing the oldest list sorts    *)
(* the renumbered pages to their own lists and isolates the rest, in the   *)
(* order the evictor takes them.  The active ratio is 0, as the pager      *)
(* leaves it, so only faults and peeks age the queues.                     *)
(***************************************************************************)
EXTENDS Integers, Sequences, FiniteSets, SequencesExt

CONSTANTS Queued,      \* the pages
          NumReclaim,  \* how many generations have queues
          NumActive,   \* how many of them are active
          PeekBatch,   \* how many pages a peek isolates at a time
          MaxGen       \* bound on the newest generation

VARIABLES lists,   \* the pages of each queue's list, head first
          isolate, \* the isolate queue's lists: don't need, harvested, standard
          at,      \* the queue number kept in each page
          counts,  \* how many pages have each number
          lruGen, mruGen,
          anonymousIsReclaimable,
          harvest, \* a page the evictor is taking the mappings of
          touched  \* ghost: the generation of each page's last fault

queueVars == <<lists, isolate, at, counts, lruGen, mruGen,
               anonymousIsReclaimable, harvest, touched>>

None == 0
Anonymous == 1
Wired == 2
HighPriority == 3
ZeroFork == 4
Dirty == 5
FailedReclaim == 6
Isolated == 7
Base == 8
Queues == 1 .. Base + NumReclaim - 1
DontNeed == 1
Harvested == 2
Standard == 3
Nobody == 0

QueuesInit ==
  /\ lists = [q \in Queues |-> <<>>]
  /\ isolate = [i \in 1 .. 3 |-> <<>>]
  /\ at = [p \in Queued |-> None]
  /\ counts = [q \in Queues |-> 0]
  /\ lruGen = 0 /\ mruGen = NumReclaim - 1
  /\ anonymousIsReclaimable = FALSE
  /\ harvest = Nobody
  /\ touched = [p \in Queued |-> 0]

GenToQueue(gen) == (gen % NumReclaim) + Base
MruQueue == GenToQueue(mruGen)

QueueIsReclaim(q) == q >= Isolated
QueueIsValid(q, lru, mru) ==
  IF lru <= mru THEN lru <= q /\ q <= mru ELSE q <= mru \/ q >= lru
QueueAge(q, mru) == IF q <= mru THEN mru - q ELSE NumReclaim - q + mru
QueueIsActive(q, mru) == q >= Base /\ QueueAge(q, mru) < NumActive

\* The lists and the generations as one value, which processing the oldest
\* list rewrites page by page.
Now == [lists |-> lists, isolate |-> isolate, at |-> at, counts |-> counts,
        lru |-> lruGen, mru |-> mruGen, touched |-> touched]
Become(s) ==
  /\ lists' = s.lists /\ isolate' = s.isolate /\ at' = s.at
  /\ counts' = s.counts /\ lruGen' = s.lru /\ mruGen' = s.mru
  /\ touched' = s.touched

Without(seq, p) == SelectSeq(seq, LAMBDA x : x # p)

\* removeFromQueueList, from whichever list holds the page.
Unlinked(s, p) ==
  [s EXCEPT !.lists = [q \in Queues |-> Without(@[q], p)],
            !.isolate = [i \in 1 .. 3 |-> Without(@[i], p)]]

Recount(s, p, q) ==
  [s EXCEPT !.at[p] = q,
            !.touched[p] = IF q >= Base THEN s.mru
                           ELSE IF q = Isolated THEN @ ELSE 0,
            !.counts = [x \in Queues |-> @[x] - (IF x = s.at[p] THEN 1 ELSE 0)
                                              + (IF x = q THEN 1 ELSE 0)]]

\* setQueueBacklinkLockedList and moveToQueueLockedList push a page to the
\* front of a queue; moveToIsolateLockedList to the back of an isolate list.
Pushed(s, p, q) ==
  LET u == Unlinked(Recount(s, p, q), p)
  IN [u EXCEPT !.lists[q] = <<p>> \o @]
PushedToIsolate(s, p, i) ==
  LET u == Unlinked(Recount(s, p, Isolated), p)
  IN [u EXCEPT !.isolate[i] = Append(@, p)]

\* processLruQueueLocked: the page at the back of the oldest list goes to its
\* own list if a fault renumbered it, and else to the standard isolate list.
ProcessBackAll(s, limit) ==
  LET q == GenToQueue(s.lru)
  IN [s |-> PushedToIsolate(s, s.lists[q][Len(s.lists[q])], Standard),
      limit |-> limit - 1]

ProcessBack(s, limit) ==
  LET q == GenToQueue(s.lru)
      p == s.lists[q][Len(s.lists[q])]
      own == s.at[p]
  IN IF own # q /\ QueueIsValid(own, q, GenToQueue(s.mru))
     THEN [s |-> [Unlinked(s, p) EXCEPT !.lists[own] = <<p>> \o @],
           limit |-> limit]
     ELSE [s |-> PushedToIsolate(s, p, Standard), limit |-> limit - 1]

\* One pass of its loop over pages, and over generations up to the target.
ProcessStep(t, target) ==
  IF t.limit = 0 \/ t.s.lru >= target THEN t
  ELSE LET q == GenToQueue(t.s.lru)
           next == IF t.s.lists[q] = <<>> THEN t ELSE ProcessBack(t.s, t.limit)
       IN IF next.s.lists[q] = <<>> THEN [next EXCEPT !.s.lru = @ + 1] ELSE next

ProcessLruQueue(s, target, limit) ==
  FoldLeft(LAMBDA t, i : ProcessStep(t, target), [s |-> s, limit |-> limit],
           [i \in 1 .. NumReclaim * (Cardinality(Queued) + 1) |-> i]).s

NoLimit == Cardinality(Queued) + 1

\* rotateLocked: makes room for one more generation and starts it.

Rotate(s) ==
  LET room == IF s.mru - s.lru < NumReclaim - 1 THEN s
              ELSE ProcessLruQueue(s, s.lru + 1, NoLimit)
  IN [room EXCEPT !.mru = @ + 1]

\* isolateOlderThanLocked.
IsolateOlderThan(s, lowest) ==
  ProcessLruQueue(s, s.mru - (lowest - 1), NoLimit)

-----------------------------------------------------------------------------
\* The queue each Set and MoveTo names: Base stands for the newest generation,
\* and Wired for the queues nothing ages, HighPriority and Dirty with it.
QueueFor(kind) ==
  IF kind = Base \/ (kind = Anonymous /\ anonymousIsReclaimable)
  THEN MruQueue ELSE kind
Kinds == {Anonymous, Wired, Base}

SetQueue(p, kind) ==
  /\ at[p] = None
  /\ Become(Pushed(Now, p, QueueFor(kind)))
  /\ UNCHANGED <<anonymousIsReclaimable, harvest>>

MoveTo(p, kind) ==
  /\ at[p] # None
  /\ Become(Pushed(Now, p, QueueFor(kind)))
  /\ UNCHANGED <<anonymousIsReclaimable, harvest>>

MoveToReclaimDontNeed(p) ==
  /\ at[p] # None
  /\ Become(PushedToIsolate(Now, p, DontNeed))
  /\ UNCHANGED <<anonymousIsReclaimable, harvest>>

\* MarkAccessed renumbers a page of a generation where it is, and moves an
\* isolated one to the newest generation.
MarkAccessed(p) ==
  /\ QueueIsReclaim(at[p]) /\ at[p] # MruQueue
  /\ Become(IF at[p] = Isolated THEN Pushed(Now, p, MruQueue)
            ELSE Recount(Now, p, MruQueue))
  /\ UNCHANGED <<anonymousIsReclaimable, harvest>>

CompressFailed(p) ==
  /\ QueueIsReclaim(at[p])
  /\ Become(Pushed(Now, p, FailedReclaim))
  /\ UNCHANGED <<anonymousIsReclaimable, harvest>>

\* The pager keeps zero forks from reclaim (EnableAnonymousReclaim(false)).
MoveAnonymousToAnonymousZeroFork(p) ==
  /\ IF anonymousIsReclaimable THEN QueueIsReclaim(at[p]) ELSE at[p] = Anonymous
  /\ Become(Pushed(Now, p, ZeroFork))
  /\ UNCHANGED <<anonymousIsReclaimable, harvest>>

PopAnonymousZeroFork ==
  /\ lists[ZeroFork] # <<>>
  /\ Become(Pushed(Now, lists[ZeroFork][Len(lists[ZeroFork])], Anonymous))
  /\ UNCHANGED <<anonymousIsReclaimable, harvest>>

RemoveFromQueues(p) ==
  /\ at[p] # None
  /\ Become(Recount(Unlinked(Now, p), p, None))
  /\ UNCHANGED <<anonymousIsReclaimable, harvest>>

EnableAnonymousReclaim ==
  /\ ~anonymousIsReclaimable /\ anonymousIsReclaimable' = TRUE
  /\ Become(FoldLeft(LAMBDA s, p : Pushed(s, p, MruQueue), Now,
                     lists[Anonymous]))
  /\ UNCHANGED harvest

\* AgeOnAccess and RotateReclaimQueues.
Age ==
  /\ mruGen < MaxGen
  /\ Become(Rotate(Now))
  /\ UNCHANGED <<anonymousIsReclaimable, harvest>>

\* PeekIsolate isolates a batch of a generation at a time until a page is.
PeekIsolate(lowest) ==
  LET low == IF lowest > NumActive THEN lowest ELSE NumActive
      Step(s) == IF \/ \E i \in 1 .. 3 : s.isolate[i] # <<>>
                    \/ s.lru + 1 > s.mru - (low - 1)
                 THEN s ELSE ProcessLruQueue(s, s.lru + 1, PeekBatch)
  IN /\ Become(FoldLeft(LAMBDA s, i : Step(s), Now,
                        [i \in 1 .. NumReclaim * (Cardinality(Queued) + 1) |-> i]))
     /\ UNCHANGED <<anonymousIsReclaimable, harvest>>

\* PeekIsolateWhere: what the queues become, and the page found, if any.
FirstAccepted(s, accept) ==
  LET found == SelectSeq(s.isolate[DontNeed] \o s.isolate[Harvested]
                           \o s.isolate[Standard], LAMBDA p : p \in accept)
  IN IF found = <<>> THEN Nobody ELSE Head(found)

PeekedWhere(s, lowest, accept) ==
  LET older == IsolateOlderThan(s, IF lowest > NumActive THEN lowest
                                   ELSE NumActive)
      active == {p \in Queued : QueueIsActive(older.at[p], GenToQueue(older.mru))}
      aged == FoldLeft(LAMBDA t, i : Rotate(t), older,
                       [i \in 1 .. NumActive - lowest |-> i])
  IN IF FirstAccepted(s, accept) # Nobody THEN s
     ELSE IF FirstAccepted(older, accept) # Nobody \/ lowest >= NumActive \/ active = {}
     THEN older
     ELSE IsolateOlderThan(aged, NumActive)

PeekIsolateWhere(lowest, accept) ==
  /\ mruGen <= MaxGen
  /\ Become(PeekedWhere(Now, lowest, accept))
  /\ UNCHANGED <<anonymousIsReclaimable, harvest>>

\* PeekUnharvestedWhere, and MoveToHarvested once the mappings are gone.
PeekUnharvested ==
  /\ harvest = Nobody
  /\ LET s == IsolateOlderThan(Now, NumActive) IN
     /\ Become(s)
     /\ harvest' \in {p \in Queued : \E i \in DOMAIN s.isolate[Standard] :
                                       s.isolate[Standard][i] = p}
  /\ UNCHANGED <<anonymousIsReclaimable>>

MoveToHarvested ==
  /\ harvest # Nobody /\ harvest' = Nobody
  /\ Become(IF \E i \in DOMAIN isolate[Standard] : isolate[Standard][i] = harvest
            THEN [Unlinked(Now, harvest) EXCEPT
                    !.isolate[Harvested] = Append(@, harvest)]
            ELSE Now)
  /\ UNCHANGED <<anonymousIsReclaimable>>

QueuesNext ==
  \/ \E p \in Queued :
       \/ \E kind \in Kinds : SetQueue(p, kind) \/ MoveTo(p, kind)
       \/ MoveToReclaimDontNeed(p) \/ MarkAccessed(p) \/ CompressFailed(p)
       \/ MoveAnonymousToAnonymousZeroFork(p) \/ RemoveFromQueues(p)
  \/ PopAnonymousZeroFork \/ EnableAnonymousReclaim \/ Age
  \/ PeekIsolate(NumActive)
  \/ \E accept \in {Queued, {}} : PeekIsolateWhere(0, accept)
  \/ PeekUnharvested \/ MoveToHarvested

-----------------------------------------------------------------------------
In(p, seq) == \E i \in DOMAIN seq : seq[i] = p

\* A page is in one list, the one its number says or, where a fault has
\* renumbered it, one of an older generation that has not been processed; and
\* the number of a page is always a generation between the oldest and the
\* newest, so that no wrap of the queue numbers makes an old page look new.
GenerationsInWindow ==
  /\ mruGen - lruGen \in NumActive - 1 .. NumReclaim - 1
  /\ \A p \in Queued :
       /\ Cardinality({q \in Queues : In(p, lists[q])})
            + Cardinality({i \in 1 .. 3 : In(p, isolate[i])})
          = IF at[p] = None THEN 0 ELSE 1
       /\ at[p] = Isolated => \E i \in 1 .. 3 : In(p, isolate[i])
       /\ at[p] \in 1 .. Isolated - 1 => In(p, lists[at[p]])
       /\ at[p] >= Base =>
            \E g \in lruGen .. mruGen, h \in lruGen .. mruGen :
              /\ g <= h /\ at[p] = GenToQueue(h) /\ In(p, lists[GenToQueue(g)])
              /\ touched[p] = h

\* The counts that GetReclaimQueueCounts and the active ratio read are the
\* pages', whatever moved them.
CountsExact ==
  \A q \in Queues : counts[q] = Cardinality({p \in Queued : at[p] = q})

\* The standard isolate list is in the order of the pages' last faults, every
\* page still in a generation was touched no earlier, and none of the active
\* generations is isolated or harvested: "the active queues' pages, which
\* faults touched last, are never harvested".
OldestFirst ==
  LET std == isolate[Standard] IN
  /\ \A i, j \in DOMAIN std : i < j => touched[std[i]] <= touched[std[j]]
  /\ \A i \in DOMAIN std, p \in Queued :
       at[p] >= Base => touched[std[i]] <= touched[p]
  /\ \A p \in Queued :
       In(p, std) \/ In(p, isolate[Harvested]) => touched[p] <= mruGen - NumActive

\* An eviction that may take any page finds a reclaimable page it accepts,
\* whichever queue it is in and whatever pages are passed over: PeekIsolateWhere
\* with a lowest queue of 0 ages the queues itself.
PeekFindsAccepted ==
  \A p \in Queued : QueueIsReclaim(at[p]) =>
    FirstAccepted(PeekedWhere(Now, 0, {p}), {p}) = p
=============================================================================
