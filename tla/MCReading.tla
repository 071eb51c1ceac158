----------------------------- MODULE MCReading -----------------------------
(***************************************************************************)
(* What a page read passes through on its way to the bytes, for TLC: the   *)
(* requests for pages of a paged object, the stripes of the cluster's      *)
(* disks, the marks of the disks that are down, the hot tier and the       *)
(* bounded calls of the object store.  A behaviour is of one part, chosen  *)
(* in the initial state.                                                   *)
(***************************************************************************)
EXTENDS StripeReads

CONSTANTS Objects, Readers, Fresh, Sizes, QueueBytes, DownAfter, MaxHotReads,
          Shards, Hosts, TimeoutsToMark, DownShare, MaxMoves,
          FirstByte, Stall, MaxWrites, MaxAttempts,
          Requests, Extent

VARIABLES part,
          regional, hot, reader, failures, hotDown, queued, pending, busy,
          lane, worker, publisher, reads, closed,
          serves, up, mark, marking, moves,
          object, written, call, att, watch, body, late,
          req, out, asked, detached

Hot == INSTANCE HotTier WITH down <- hotDown, MaxReads <- MaxHotReads
Marks == INSTANCE DownMarks WITH Disks <- Shards
Store == INSTANCE BoundedStore
Source == INSTANCE PageRequests

hotState == <<regional, hot, reader, failures, hotDown, queued, pending, busy,
              lane, worker, publisher, reads, closed>>
markState == <<serves, up, mark, marking, moves>>
storeState == <<object, written, call, att, watch, body, late>>
sourceState == <<req, out, asked, detached>>
partVars == <<vars, part, hotState, markState, storeState, sourceState>>
-----------------------------------------------------------------------------
TwoCodes == <<[k |-> 1, m |-> 2], [k |-> 2, m |-> 2]>>
RanksByGeneration == <<<<1, 2, 3, 4>>, <<4, 1, 2, 3>>, <<4, 2, 3, 1>>>>
Piece(c, i, r) == [code |-> c, index |-> i, right |-> r]
At(a, b, c, d) == <<a, b, c, d>>
Ahead(a, b, c) == <<a, b, c, 1>>
Scenario(h, a, d, o) == [holds |-> h, ahead |-> a, down |-> d, own |-> o]
\* Stripes of either code, whole and spoilt; hosts ahead of the reader's ranks;
\* a disk marked down; this host's shard kept, or already left.
ReadScenarios ==
  {Scenario(At({Piece(1, 0, TRUE)}, {Piece(1, 1, FALSE)}, {}, {}), Ahead(1, 1, 1), {}, "kept"),
   Scenario(At({}, {Piece(1, 0, TRUE)}, {}, {}), Ahead(1, 1, 1), {}, "kept"),
   Scenario(At({}, {Piece(1, 1, TRUE)}, {}, {Piece(1, 2, TRUE)}), Ahead(1, 2, 2), {}, "kept"),
   Scenario(At({Piece(2, 0, TRUE)}, {Piece(2, 1, FALSE)}, {Piece(2, 2, TRUE)}, {}), Ahead(1, 1, 1), {}, "left"),
   Scenario(At({Piece(2, 2, TRUE)}, {Piece(2, 2, TRUE)}, {}, {Piece(2, 2, FALSE)}), Ahead(1, 1, 1), {}, "kept"),
   Scenario(At({Piece(1, 0, FALSE)}, {Piece(2, 1, TRUE)}, {}, {Piece(2, 0, TRUE)}), Ahead(2, 3, 2), {3}, "kept")}
SizesOfObjects == [k1 |-> 1, k2 |-> 3]
-----------------------------------------------------------------------------
PartsInit ==
  /\ part \in {"stripes", "hot", "marks", "store", "source"}
  /\ Init /\ Hot!Init /\ Marks!Init /\ Store!Init /\ Source!RequestsInit
  /\ part # "stripes" => own.at = "left"
  /\ part # "marks" => \A d \in Shards : serves[d] = CHOOSE h \in Hosts : TRUE
  /\ part # "store" => object = 1
StepStripes == part = "stripes" /\ Next
               /\ UNCHANGED <<part, hotState, markState, storeState, sourceState>>
StepHot == part = "hot" /\ Hot!Next
           /\ UNCHANGED <<part, vars, markState, storeState, sourceState>>
StepMarks == part = "marks" /\ Marks!Next
             /\ UNCHANGED <<part, vars, hotState, storeState, sourceState>>
StepStore == part = "store" /\ Store!Next
             /\ UNCHANGED <<part, vars, hotState, markState, sourceState>>
StepSource == part = "source" /\ Source!RequestsNext
              /\ UNCHANGED <<part, vars, hotState, markState, storeState>>
PartsNext == StepStripes \/ StepHot \/ StepMarks \/ StepStore \/ StepSource

\* Each part's own fairness, for a behaviour of that part.
In(p, A) == part = p /\ A
PartsFair ==
  /\ WF_hotState(In("hot", Hot!Fills)) /\ WF_hotState(In("hot", Hot!PublisherPushes))
  /\ \A r \in Readers : WF_hotState(In("hot", Hot!ReadPushes(r)))
  /\ \A d \in Shards : WF_markState(In("marks", Marks!Probes(d)))
  /\ \A h \in Hosts : WF_markState(In("marks", Marks!Returns(h)))
  /\ WF_storeState(In("store", Store!Tick)) /\ WF_storeState(In("store", Store!Check))
  /\ WF_storeState(In("store", Store!Expires))
PartsSpec == PartsInit /\ [][PartsNext]_partVars /\ PartsFair
-----------------------------------------------------------------------------
\* A read of the cluster is sound: the pages it gives are the pages asked for; no
\* stripe or page lies in a reply given back; a read that is over holds no reply
\* and no shard, and one that is not over can go on; a repair sends only what is
\* nowhere; a miss is one, and only a read that heard every rank repairs (take,
\* deliver, rebuild, finish, run, repair).
ReadsSound ==
  /\ [](part = "stripes" => /\ TypeOK /\ PagesRight /\ NoUseAfterRelease /\ RepliesGivenBack
                            /\ ShardHeldWhileRead /\ RepairsAreNew /\ NothingStuck)
  /\ MissesAreReal /\ RepairsKnowRanks

\* What the reads are answered from is sound.  The hot tier neither fails nor
\* shortens a read, and holds the fills it was handed and no more, within its
\* bound (read, hold, release).  A call of the store gives one object's bytes and
\* changes the store once, its waits watched throughout, and no attempt is
\* cancelled while the store answers within its bound (resume, call, watch).
\* Every request for pages that waits is outstanding or behind one that is, and
\* those outstanding are disjoint (PopulateRequest, CancelRequest).  The marks of
\* disks that are down stay within their share, and one is cleared only while its
\* disk's host answers (mark, probeBack).
SourcesSound ==
  /\ [](part = "hot" => Hot!TypeOK /\ Hot!HotNeverHurts /\ Hot!FillsAccounted /\ Hot!QueueBounded)
  /\ [](part = "store" => Store!TypeOK /\ Store!WaitsWatched /\ Store!OneObject /\ Store!LandsOnce)
  /\ [](part = "source" => Source!EveryWaiterIsReached /\ Source!OutstandingDisjoint)
  /\ [](part = "marks" => Marks!TypeOK /\ Marks!CapKept)
  /\ Marks!OnlyAProbeClears /\ Store!NoneCancelledEarly

\* What is begun ends: a fill of the hot tier, the mark of a disk that stays
\* where it is, and an attempt at the store.
ReadingEnds == Hot!FillsEnd /\ Marks!MarksEndInPlace /\ Store!AttemptsEnd
=============================================================================
