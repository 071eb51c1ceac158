---------------------------- MODULE PageRequests ----------------------------
(***************************************************************************)
(* The page requests of one page source and its provider                   *)
(* (vmmemory/internal/zirconvm/pagesource.go, pagerproxy.go).  A fault     *)
(* that needs a page sends a request for a range and waits on its event.   *)
(* A request whose start an outstanding one covers waits behind that one.  *)
(* An answer for a range completes the requests it covers, a caller that   *)
(* gives up cancels its own, and detaching the source completes them all.  *)
(* One type of request is modelled: the types share no list.               *)
(***************************************************************************)
EXTENDS Integers, Sequences, FiniteSets, SequencesExt

CONSTANTS Requests,  \* the requests, each of one caller
          Extent       \* the source's pages are 0 .. Extent - 1

VARIABLES req,       \* each request: idle, waiting or woken
          out,       \* outstanding: the requests sent, in order of their ends
          asked,     \* PagerProxy.requests: what the provider was sent
          detached

requestVars == <<req, out, asked, detached>>

Nobody == "nobody"
Unused == [st |-> "idle", offset |-> 0, len |-> 0, pending |-> 0,
           overlap |-> <<>>, behind |-> Nobody, status |-> "ok"]
End(r) == req[r].offset + req[r].len

RequestsInit ==
  /\ req = [r \in Requests |-> Unused]
  /\ out = <<>>
  /\ asked = {}
  /\ detached = FALSE

\* upperBound: the first outstanding request that ends after an offset.
UpperBound(o) ==
  LET after == {i \in DOMAIN out : End(out[i]) > o}
  IN IF after = {} THEN Nobody
     ELSE out[CHOOSE i \in after : \A j \in after : i <= j]

\* insertOutstanding: before the first that ends no sooner than e.
InsertOutstanding(s, r, e) ==
  InsertAt(s, 1 + Cardinality({i \in DOMAIN s : End(s[i]) < e}), r)

\* populateRequestLocked trims a range of n pages from o to the request that
\* covers its start, or to the start of the next one.

TrimmedLen(o, n) ==
  LET node == UpperBound(o) IN
  CASE node = Nobody -> n
    [] node # Nobody /\ o >= req[node].offset ->
         IF o + n >= End(node) THEN End(node) - o ELSE n
    [] node # Nobody /\ o < req[node].offset ->
         IF o + n >= req[node].offset THEN req[node].offset - o ELSE n

\* populateRequest, and sendRequestToProviderLocked, which queues the request
\* behind the one that covers its start, or sends it.
PopulateRequest(r, o, n) ==
  LET node == UpperBound(o)
      len == TrimmedLen(o, n)
      fresh == [Unused EXCEPT !.st = "waiting", !.offset = o, !.len = len]
  IN /\ ~detached /\ req[r].st = "idle" /\ o + n <= Extent
     /\ IF node # Nobody /\ req[node].offset <= o
        THEN /\ req' = [req EXCEPT ![r] = [fresh EXCEPT !.behind = node],
                                   ![node].overlap = Append(@, r)]
             /\ UNCHANGED <<out, asked>>
        ELSE /\ req' = [req EXCEPT ![r] = [fresh EXCEPT !.pending = len]]
             /\ out' = InsertOutstanding(out, r, o + len)
             /\ asked' = asked \cup {r}
     /\ UNCHANGED detached

\* trimRangeToRequestSpace: what [o, e) covers of a request it overlaps.
Overlaps(r, o, e) == e > req[r].offset /\ o < End(r)
Covered(r, o, e) ==
  LET from == IF o >= req[r].offset THEN o - req[r].offset ELSE 0
      to == IF e < End(r) THEN e - req[r].offset ELSE req[r].len
  IN [from |-> from, size |-> to - from]

\* The status a request ends with: an answer that fails is told to a request
\* only where it covers the request's start.
Told(r, o, e, status) ==
  IF status # "ok" /\ Overlaps(r, o, e) /\ Covered(r, o, e).from = 0
  THEN status ELSE req[r].status

\* completeRequestLocked signals a request's waiters and then itself.
Signalled(done) == done \cup UNION {Range(req[r].overlap) : r \in done}

Woken(r, status) == [Unused EXCEPT !.st = "woken", !.status = status]

\* resolveRequestsLocked, by OnPagesSupplied, OnPagesDirtied (status "ok") and
\* OnPagesFailed: every outstanding request [o, e) overlaps is owed that much
\* less, and completes when it is owed nothing.
ResolveRequests(o, e, status) ==
  LET reached == {r \in Range(out) : Overlaps(r, o, e)}
      done == {r \in reached : Covered(r, o, e).size >= req[r].pending}
      hear == reached \cup UNION {Range(req[r].overlap) : r \in reached}
      heard == [r \in hear |-> Told(r, o, e, status)]
  IN /\ ~detached /\ reached # {}
     /\ req' = [r \in Requests |->
          CASE r \in Signalled(done) -> Woken(r, heard[r])
            [] r \in hear \ Signalled(done) ->
                 [req[r] EXCEPT !.status = heard[r],
                    !.pending = IF r \in reached
                                THEN @ - Covered(r, o, e).size ELSE @]
            [] OTHER -> req[r]]
     /\ out' = SelectSeq(out, LAMBDA r : r \notin done)
     /\ asked' = asked \ done
     /\ UNCHANGED detached

\* cancelRequestLocked.  A waiter leaves the list it waits in; a request with
\* waiters hands its place, its range and what it is owed to the first; one
\* without leaves the provider.
CancelOnly(r) == req[r].behind = Nobody /\ req[r].overlap = <<>>

CancelWaiter(r) ==
  LET main == req[r].behind IN
  /\ req' = [req EXCEPT ![r] = Unused,
                        ![main].overlap = SelectSeq(@, LAMBDA w : w # r)]
  /\ UNCHANGED <<out, asked>>

CancelHandsOver(r) ==
  LET heir == Head(req[r].overlap)
      rest == Tail(req[r].overlap)
  IN /\ req' = [w \in Requests |->
          CASE w = r -> Unused
            [] w = heir -> [req[heir] EXCEPT
                 !.offset = req[r].offset, !.len = req[r].len,
                 !.pending = req[r].pending, !.overlap = rest,
                 !.behind = Nobody]
            [] w \in Range(rest) -> [req[w] EXCEPT !.behind = heir]
            [] OTHER -> req[w]]
     /\ out' = InsertOutstanding(SelectSeq(out, LAMBDA x : x # r), heir, End(r))
     /\ asked' = (asked \ {r}) \cup {heir}

CancelSent(r) ==
  /\ req' = [req EXCEPT ![r] = Unused]
  /\ out' = SelectSeq(out, LAMBDA x : x # r)
  /\ asked' = asked \ {r}

\* PageRequest.Wait of a caller whose context ended, or CancelRequest: a
\* request completed meanwhile is left as it is.
CancelRequest(r) ==
  /\ req[r].st \in {"waiting", "woken"}
  /\ UNCHANGED detached
  /\ \/ /\ req[r].st = "woken"
        /\ req' = [req EXCEPT ![r] = Unused] /\ UNCHANGED <<out, asked>>
     \/ req[r].st = "waiting" /\ req[r].behind # Nobody /\ CancelWaiter(r)
     \/ req[r].overlap # <<>> /\ CancelHandsOver(r)
     \/ req[r].st = "waiting" /\ CancelOnly(r) /\ CancelSent(r)

\* PageRequest.Wait returns what the event was signalled with.
WaitReturns(r) ==
  /\ req[r].st = "woken"
  /\ req' = [req EXCEPT ![r] = Unused]
  /\ UNCHANGED <<out, asked, detached>>

\* Detach completes everything outstanding and refuses what comes after.
Detach ==
  /\ ~detached /\ detached' = TRUE
  /\ LET done == Range(out) IN
     req' = [r \in Requests |-> IF r \in Signalled(done)
                                THEN Woken(r, req[r].status) ELSE req[r]]
  /\ out' = <<>>
  /\ asked' = asked \ Range(out)

Answer == \E o \in 0 .. Extent - 1 : \E e \in o + 1 .. Extent :
            \E status \in {"ok", "failed"} : ResolveRequests(o, e, status)

RequestsNext ==
  \/ \E r \in Requests :
       \/ \E o \in 0 .. Extent - 1, n \in 1 .. Extent : PopulateRequest(r, o, n)
       \/ CancelRequest(r) \/ WaitReturns(r)
  \/ Answer
  \/ Detach
-----------------------------------------------------------------------------
Waiting == {r \in Requests : req[r].st = "waiting"}

\* A waiting request is outstanding with the provider, or in the list of one
\* request that is, which knows it: nothing a completion, a cancellation or a
\* hand-over does leaves a waiter behind a request nobody will answer.
EveryWaiterIsReached ==
  /\ asked = Range(out)
  /\ \A r \in Waiting :
       IF req[r].behind = Nobody
       THEN r \in Range(out) /\ req[r].pending \in 1 .. req[r].len
       ELSE /\ req[r].behind \in Range(out) \ {r}
            /\ r \in Range(req[req[r].behind].overlap)
  /\ \A r \in Range(out) : r \in Waiting /\
       \A w \in Range(req[r].overlap) : req[w].behind = r /\ w \in Waiting
  /\ detached => Waiting = {}

\* The outstanding requests are disjoint and in order, so upperBound's search
\* finds the one that covers an offset.
OutstandingDisjoint ==
  \A i, j \in DOMAIN out : i < j => End(out[i]) <= req[out[j]].offset
=============================================================================
