---------------------------- MODULE ControlClient ----------------------------
(***************************************************************************)
(* control/client.go: how writers and epochless callers change one VM's    *)
(* control record in an object store that refuses a conditional write when *)
(* the record has moved, and may lose a reply, fail a read, or apply a     *)
(* request after its caller gave up on it.                                 *)
(*                                                                         *)
(* A writer is one attempt at Create or Open, with the nonce it drew; once *)
(* the attempt succeeds it is a Handle and makes updates (Select,          *)
(* SelectKept, Pin), one at a time. A caller is one call of Client.Pin,    *)
(* Release, Remove or Delete. Each call is its round trips to the store:   *)
(* a read, a put, and the read that settles a put whose outcome is not     *)
(* known.                                                                  *)
(*                                                                         *)
(* The store's validator (ETag) of a record is the record's content, as S3 *)
(* and the simulated store compute it. It matches at least whenever a      *)
(* validator that is new for every write would.                            *)
(***************************************************************************)
EXTENDS Records

CONSTANTS
    Callers,            \* calls made without the epoch
    Calls,              \* caller -> the kinds of call it may make
    MaxFaults,          \* bound: lost replies and failed reads of a behaviour
    MaxUpdates          \* bound: updates handles begin in a behaviour

VARIABLES
    rec,      \* the record in the store, or NoRecord
    delayed,  \* requests whose callers gave up, which the store may yet apply
    pc,       \* process -> where its call is
    op,       \* process -> the call it is in and its arguments
    cur,      \* process -> the record its call last read
    next,     \* process -> the record its call means to write
    handle,   \* writer -> its Handle
    removed,  \* history: whether a removal was applied, and the last one's pins
    faults, updates

vars == <<rec, delayed, pc, op, cur, next, handle, removed, faults, updates>>

R == INSTANCE VmRecord

Procs == Writers \cup Callers
MaybeRecord == Record \cup {NoRecord}

Op == [kind: {"none", "create", "open", "select", "pin", "clientpin", "release",
              "remove", "delete"},
       seq: Sequences, flag: BOOLEAN, epoch: 0 .. MaximumEpoch, journals: SUBSET Epochs]
NoOp == [kind |-> "none", seq |-> <<1, 1>>, flag |-> FALSE, epoch |-> 0, journals |-> {}]

Place == {"new", "idle", "read", "put", "reread", "ok", "failed"}
Handle == [state: {"none", "open", "fenced", "closed"}, rec: MaybeRecord, etag: MaybeRecord]
NoHandle == [state |-> "none", rec |-> NoRecord, etag |-> NoRecord]
Request == [when: {"absent", "match", "always"}, etag: MaybeRecord, next: MaybeRecord]
Outcomes == {"applied", "refused", "lost"}

ASSUME BoundsAssumption ==
    /\ MaxFaults \in Nat /\ MaxUpdates \in Nat
    /\ Writers \cap Callers = {}
    /\ Calls \in [Callers -> SUBSET {"clientpin", "release", "remove", "delete"}]

TypeOK ==
    /\ rec \in MaybeRecord
    /\ delayed \subseteq Request
    /\ pc \in [Procs -> Place]
    /\ op \in [Procs -> Op]
    /\ cur \in [Procs -> MaybeRecord]
    /\ next \in [Procs -> MaybeRecord]
    /\ handle \in [Writers -> Handle]
    /\ removed \in [ever: BOOLEAN, pinned: SUBSET Sequences]
    /\ faults \in 0 .. MaxFaults
    /\ updates \in 0 .. MaxUpdates

Init ==
    /\ rec = NoRecord
    /\ delayed = {}
    /\ pc = [p \in Procs |-> "new"]
    /\ op = [p \in Procs |-> NoOp]
    /\ cur = [p \in Procs |-> NoRecord]
    /\ next = [p \in Procs |-> NoRecord]
    /\ handle = [w \in Writers |-> NoHandle]
    /\ removed = [ever |-> FALSE, pinned |-> {}]
    /\ faults = 0
    /\ updates = 0

-----------------------------------------------------------------------------
(* The object store (external), as client.go uses it.                       *)

\* Mutant: a conditional write is not conditional on what was read.
MatchesAny(req) == req.when = "absent" => rec = NoRecord

\* Whether the store applies a request: IfNoneMatch, IfMatch, or neither.
Matches(req) ==
    \/ req.when = "absent" /\ rec = NoRecord
    \/ req.when = "match" /\ rec # NoRecord /\ rec = req.etag
    \/ req.when = "always"

Apply(req) ==
    /\ rec' = req.next
    /\ removed' = IF req.next = NoRecord /\ rec # NoRecord
                  THEN [ever |-> TRUE, pinned |-> rec.pinned] ELSE removed

Fault == faults < MaxFaults /\ faults' = faults + 1

\* What a put or a delete reports: applied; refused, also by the store client's
\* own retry of an attempt that was applied; or no reply, in which case it may
\* be applied at any later moment or never.
Put(req, outcome) ==
    \/ /\ outcome = "applied" /\ Matches(req)
       /\ Apply(req)
       /\ UNCHANGED <<delayed, faults>>
    \/ /\ outcome = "refused" /\ ~Matches(req)
       /\ UNCHANGED <<rec, removed, delayed, faults>>
    \/ /\ outcome = "refused" /\ Matches(req) /\ req.when # "always"
       /\ Fault
       /\ Apply(req)
       /\ UNCHANGED delayed
    \/ /\ outcome = "lost"
       /\ Fault
       /\ delayed' = delayed \cup {req}
       /\ UNCHANGED <<rec, removed>>

\* The store gets to a request its caller gave up on.
Deliver ==
    \E req \in delayed :
        /\ delayed' = delayed \ {req}
        /\ IF Matches(req) THEN Apply(req) ELSE UNCHANGED <<rec, removed>>
        /\ UNCHANGED <<pc, op, cur, next, handle, faults, updates>>

-----------------------------------------------------------------------------
(* A call moves on, or ends and forgets what it read.                       *)

Goto(p, there) == pc' = [pc EXCEPT ![p] = there] /\ UNCHANGED <<op, cur, next>>

End(p, there) ==
    /\ pc' = [pc EXCEPT ![p] = there]
    /\ op' = [op EXCEPT ![p] = NoOp]
    /\ cur' = [cur EXCEPT ![p] = NoRecord]
    /\ next' = [next EXCEPT ![p] = NoRecord]

\* The call o has read r and writes n over it.
Write(p, o, r, n) ==
    /\ pc' = [pc EXCEPT ![p] = "put"]
    /\ op' = [op EXCEPT ![p] = o]
    /\ cur' = [cur EXCEPT ![p] = r]
    /\ next' = [next EXCEPT ![p] = n]

Over(p) == [when |-> "match", etag |-> cur[p], next |-> next[p]]

\* A call's read fails: the call reports the error. A handle keeps its epoch.
ReadFails(p) ==
    /\ pc[p] \in {"read", "reread"}
    /\ Fault
    /\ End(p, IF op[p].kind \in {"select", "pin"} THEN "idle" ELSE "failed")
    /\ UNCHANGED <<rec, delayed, handle, removed, updates>>

-----------------------------------------------------------------------------
(* Create and the opens: a writer's attempt, which becomes its Handle.      *)

Hold(w, r) ==
    /\ handle' = [handle EXCEPT ![w] = [state |-> "open", rec |-> r, etag |-> r]]
    /\ End(w, "idle")

\* Create puts its record if there is none.
Create(w) ==
    /\ pc[w] = "new"
    /\ \E epoch \in 1 .. MaximumCreateEpoch, published \in BOOLEAN, outcome \in Outcomes :
          LET record == Created(w, <<epoch, 1>>, published)
          IN /\ Put([when |-> "absent", etag |-> NoRecord, next |-> record], outcome)
             /\ IF outcome = "applied" THEN Hold(w, record)
                ELSE /\ pc' = [pc EXCEPT ![w] = "reread"]
                     /\ op' = [op EXCEPT ![w].kind = "create"]
                     /\ next' = [next EXCEPT ![w] = record]
                     /\ UNCHANGED <<cur, handle>>
    /\ UNCHANGED updates

\* Refused or lost: the record read back says whose it is.
CreateReread(w) ==
    /\ pc[w] = "reread" /\ op[w].kind = "create"
    /\ IF rec # NoRecord /\ Mine(rec, next[w].epoch, w) THEN Hold(w, rec)
       ELSE End(w, "failed") /\ UNCHANGED handle
    /\ UNCHANGED <<rec, delayed, removed, faults, updates>>

\* Mutant: the epoch the caller read is not compared.
MayOpenMoved(r, o) == CanTake(r, o.flag)

\* open takes the next epoch of r: only the one after o.epoch unless that is 0,
\* and with a journal of its own when o.flag.
MayOpen(r, o) == o.epoch \in {0, r.epoch} /\ CanTake(r, o.flag)

OpenReads(w, o) ==
    /\ IF rec # NoRecord /\ MayOpen(rec, o)
       THEN Write(w, o, rec, Taken(rec, w, o.flag))
       ELSE End(w, "failed")
    /\ UNCHANGED <<rec, delayed, handle, removed, faults, updates>>

\* Open and OpenAfter; OpenMigration.
Open(w) ==
    /\ pc[w] = "new"
    /\ \E after \in 0 .. MaximumEpoch :
          OpenReads(w, [NoOp EXCEPT !.kind = "open", !.epoch = after])

OpenMigration(w) ==
    pc[w] = "new" /\ OpenReads(w, [NoOp EXCEPT !.kind = "open", !.flag = TRUE])

OpenAgain(w) == pc[w] = "read" /\ op[w].kind = "open" /\ OpenReads(w, op[w])

OpenPut(w) ==
    /\ pc[w] = "put" /\ op[w].kind = "open"
    /\ \E outcome \in Outcomes :
          /\ Put(Over(w), outcome)
          /\ CASE outcome = "applied" -> Hold(w, next[w])
               [] outcome = "refused" -> Goto(w, "read") /\ UNCHANGED handle
               [] outcome = "lost" -> Goto(w, "reread") /\ UNCHANGED handle
    /\ UNCHANGED updates

OpenReread(w) ==
    /\ pc[w] = "reread" /\ op[w].kind = "open"
    /\ IF rec # NoRecord /\ Mine(rec, next[w].epoch, w) THEN Hold(w, rec)
       ELSE /\ IF rec # NoRecord /\ rec.epoch >= next[w].epoch
               THEN Goto(w, "read") ELSE End(w, "failed")
            /\ UNCHANGED handle
    /\ UNCHANGED <<rec, delayed, removed, faults, updates>>

-----------------------------------------------------------------------------
(* A Handle's updates: Select, SelectKept (flag) and Pin.                   *)

\* mutate: whether the change can be made to r, and the record it makes.
CanMutate(w, o, r) ==
    IF o.kind = "select"
    THEN /\ CanSelect(r, handle[w].rec.epoch, o.seq, o.flag)
         /\ ValidJournals(Selected(r, o.seq, o.flag, o.journals))
    ELSE Admits(r, o.seq)

Mutate(o, r) ==
    IF o.kind = "select" THEN Selected(r, o.seq, o.flag, o.journals) ELSE WithPin(r, o.seq)

\* update's loop over the record r the handle tracks: an error, or a record that
\* would not change, ends the call without a write.
Attempt(w, o, r) ==
    IF handle[w].state = "open" /\ CanMutate(w, o, r) /\ Mutate(o, r) # r
    THEN Write(w, o, r, Mutate(o, r))
    ELSE End(w, "idle")

Update(w, o) ==
    /\ pc[w] = "idle" /\ updates < MaxUpdates
    /\ CanMutate(w, o, handle[w].rec) /\ Mutate(o, handle[w].rec) # handle[w].rec
    /\ Attempt(w, o, handle[w].rec)
    /\ updates' = updates + 1
    /\ UNCHANGED <<rec, delayed, handle, removed, faults>>

\* The journals of a selection: none, the writer's own, or its own after the
\* ones the record names (JournalCover.Journals).
Select(w) ==
    /\ handle[w].state = "open"
    /\ \E s \in Sequences, keep \in BOOLEAN,
         journals \in {{}, {handle[w].rec.epoch},
                       handle[w].rec.journals \cup {handle[w].rec.epoch}} :
          Update(w, [kind |-> "select", seq |-> s, flag |-> keep, epoch |-> 0,
                     journals |-> journals])

\* volume pins the checkpoint it is based on, or one it published.
Pin(w) ==
    /\ handle[w].state = "open"
    /\ \E s \in Sequences :
          /\ EpochOf(s) = handle[w].rec.epoch \/ s = handle[w].rec.selected
          /\ Update(w, [NoOp EXCEPT !.kind = "pin", !.seq = s])

\* settle: the record now known to be durable, and its validator.
Settle(h, observed) == [state |-> h.state, rec |-> observed, etag |-> observed]

\* replace: the put, then the read that settles any outcome but success.
UpdatePut(w) ==
    /\ pc[w] = "put" /\ op[w].kind \in {"select", "pin"}
    /\ \E outcome \in Outcomes :
          /\ Put([when |-> "match", etag |-> handle[w].etag, next |-> next[w]], outcome)
          /\ IF outcome = "applied"
             THEN handle' = [handle EXCEPT ![w] = Settle(@, next[w])] /\ End(w, "idle")
             ELSE Goto(w, "reread") /\ UNCHANGED handle
    /\ UNCHANGED updates

\* Mutant: every record but the two it knows is a takeover.
AdoptsNothing(w) == FALSE

\* A record of this handle's own epoch and nonce, moved by a write it never saw
\* land, a pin or a release.
Adopts(w) == Mine(rec, handle[w].rec.epoch, w)

\* The record read back is the one meant, or the one already held.
UpdateSettled(w) ==
    /\ rec \in {next[w], cur[w]}
    /\ handle' = [handle EXCEPT ![w] = Settle(@, rec)]
    /\ End(w, "idle")

\* Another record of its own: the handle adopts it, and update makes its change
\* again over it.
UpdateAdopted(w) ==
    /\ rec \notin {next[w], cur[w]} /\ Adopts(w)
    /\ handle' = [handle EXCEPT ![w] = Settle(@, rec)]
    /\ Attempt(w, op[w], rec)

\* It is anyone else's: a later open has the VM.
UpdateFenced(w) ==
    /\ rec \notin {next[w], cur[w]} /\ ~Adopts(w)
    /\ handle' = [handle EXCEPT ![w].state = "fenced", ![w].etag = rec]
    /\ End(w, "idle")

UpdateReread(w) ==
    /\ pc[w] = "reread" /\ op[w].kind \in {"select", "pin"}
    /\ IF rec = NoRecord THEN End(w, "idle") /\ UNCHANGED handle
       ELSE UpdateSettled(w) \/ UpdateAdopted(w) \/ UpdateFenced(w)
    /\ UNCHANGED <<rec, delayed, removed, faults, updates>>

\* Handle.Close is local: it writes nothing.
Close(w) ==
    /\ handle[w].state = "open"
    /\ handle' = [handle EXCEPT ![w].state = "closed"]
    /\ UNCHANGED <<rec, delayed, pc, op, cur, next, removed, faults, updates>>

-----------------------------------------------------------------------------
(* Calls made without the epoch: Client.Pin (flag asks for the selected     *)
(* checkpoint), Release, Remove and the unconditional Delete.               *)

\* c begins the call o, or reads the record again for it.
Calling(c, o) ==
    \/ pc[c] = "new" /\ o.kind \in Calls[c]
    \/ pc[c] = "read" /\ op[c] = o

ClientPin(c) ==
    /\ \E s \in Sequences, selected \in BOOLEAN :
          LET o == [NoOp EXCEPT !.kind = "clientpin", !.seq = s, !.flag = selected]
              wanted == IF selected THEN rec.selected ELSE s
          IN /\ Calling(c, o)
             /\ selected => s = <<1, 1>>
             /\ CASE rec # NoRecord /\ IsPinned(rec, wanted) -> End(c, "ok")
                  [] rec # NoRecord /\ ~IsPinned(rec, wanted) /\ CanPin(rec, wanted) ->
                         Write(c, o, rec, WithPin(rec, wanted))
                  [] OTHER -> End(c, "failed")
    /\ UNCHANGED <<rec, delayed, handle, removed, faults, updates>>

Release(c) ==
    /\ \E s \in Sequences :
          LET o == [NoOp EXCEPT !.kind = "release", !.seq = s]
          IN /\ Calling(c, o)
             /\ IF rec # NoRecord /\ CanRelease(rec, s)
                THEN Write(c, o, rec, WithoutKept(rec, s)) ELSE End(c, "failed")
    /\ UNCHANGED <<rec, delayed, handle, removed, faults, updates>>

Remove(c) ==
    /\ LET o == [NoOp EXCEPT !.kind = "remove"]
       IN /\ Calling(c, o)
          /\ IF rec # NoRecord THEN Write(c, o, rec, NoRecord) ELSE End(c, "failed")
    /\ UNCHANGED <<rec, delayed, handle, removed, faults, updates>>

\* A refusal means the record moved, and the call reads it again.
CallPut(c) ==
    /\ pc[c] = "put" /\ op[c].kind \in {"clientpin", "release", "remove"}
    /\ \E outcome \in Outcomes :
          /\ Put(Over(c), outcome)
          /\ CASE outcome = "applied" -> End(c, "ok")
               [] outcome = "refused" -> Goto(c, "read")
               [] outcome = "lost" -> Goto(c, "reread")
    /\ UNCHANGED <<handle, updates>>

\* The reply was lost, and the record is read back. It settles the call when it
\* shows the change; a record that did not move means nothing was written.
Shows(c) ==
    CASE op[c].kind = "clientpin" -> rec # NoRecord /\ next[c].pinned \ cur[c].pinned \subseteq rec.pinned
      [] op[c].kind = "release" -> rec # NoRecord /\ ~IsKept(rec, op[c].seq)
      [] op[c].kind = "remove" -> rec = NoRecord

CallReread(c) ==
    /\ pc[c] = "reread" /\ op[c].kind \in {"clientpin", "release", "remove"}
    /\ CASE Shows(c) -> End(c, "ok")
         [] ~Shows(c) /\ rec \in {NoRecord, cur[c]} -> End(c, "failed")
         [] OTHER -> Goto(c, "read")
    /\ UNCHANGED <<rec, delayed, handle, removed, faults, updates>>

Delete(c) ==
    /\ pc[c] = "new" /\ "delete" \in Calls[c]
    /\ \E outcome \in {"applied", "lost"} :
          /\ Put([when |-> "always", etag |-> NoRecord, next |-> NoRecord], outcome)
          /\ End(c, IF outcome = "applied" THEN "ok" ELSE "failed")
    /\ UNCHANGED <<handle, updates>>

-----------------------------------------------------------------------------
WriterStep(w) ==
    \/ Create(w) \/ CreateReread(w)
    \/ Open(w) \/ OpenMigration(w) \/ OpenAgain(w) \/ OpenPut(w) \/ OpenReread(w)
    \/ Select(w) \/ Pin(w) \/ UpdatePut(w) \/ UpdateReread(w) \/ Close(w)

CallStep(c) ==
    \/ ClientPin(c) \/ Release(c) \/ Remove(c) \/ Delete(c)
    \/ CallPut(c) \/ CallReread(c)

Next ==
    \/ \E w \in Writers : WriterStep(w)
    \/ \E c \in Callers : CallStep(c)
    \/ \E p \in Procs : ReadFails(p)
    \/ Deliver

Spec == Init /\ [][Next]_vars

\* A call that has started keeps going: the goroutine that made it runs, and the
\* store answers or the request's context ends. Nothing makes a caller start.
WriterProgress(w) ==
    \/ CreateReread(w) \/ OpenAgain(w) \/ OpenPut(w) \/ OpenReread(w)
    \/ UpdatePut(w) \/ UpdateReread(w)
CallProgress(c) ==
    \/ CallPut(c) \/ CallReread(c)
    \/ pc[c] = "read" /\ (ClientPin(c) \/ Release(c) \/ Remove(c))
FairSpec ==
    /\ Spec
    /\ \A w \in Writers : WF_vars(WriterProgress(w))
    /\ \A c \in Callers : WF_vars(CallProgress(c))

-----------------------------------------------------------------------------
(* Properties.                                                              *)

\* Every change the store makes is one whole operation on the record that was
\* there: no lost reply, late write or repeated attempt of client.go loses
\* another party's change or makes one twice.
RecordPromise == R!Spec

\* Owns(w): the record still carries the epoch and nonce of w's handle.
Owns(w) == rec # NoRecord /\ Mine(rec, handle[w].rec.epoch, w)

\* What a handle was told is durable stays so while nobody takes the VM over:
\* the record selects the checkpoint it tracks or a later one, still pins what
\* it tracks as pinned, and is still published if it was (Handle.settle).
TrackedIsDurable ==
    \A w \in Writers : handle[w].state # "none" /\ Owns(w) =>
        /\ ~Before(rec.selected, handle[w].rec.selected)
        /\ handle[w].rec.pinned \subseteq rec.pinned
        /\ handle[w].rec.created => rec.created

\* A handle is fenced only when the VM was taken over or recreated, never by a
\* pin or a release made without the epoch, nor by a lost reply of its own
\* (Handle.replace).
FencedMeansTakenOver == \A w \in Writers : handle[w].state = "fenced" => ~Owns(w)

\* Of any number of concurrent creates and opens, lost replies included, each
\* epoch goes to one handle, as long as the record was not removed (Client.open:
\* "exactly one of two concurrent opens gets each epoch").
OneHandlePerEpoch ==
    ~removed.ever =>
        \A v, w \in Writers :
            /\ handle[v].state # "none" /\ handle[w].state # "none"
            /\ handle[v].rec.epoch = handle[w].rec.epoch
            => v = w

\* An open that was to take only the epoch after the one its caller read took
\* exactly that one (Client.OpenAfter).
OpenAfterIsExact ==
    [][\A w \in Writers :
          /\ op[w].kind = "open" /\ op[w].epoch # 0
          /\ handle[w].state = "none" /\ handle'[w].state = "open"
          => handle'[w].rec.epoch = op[w].epoch + 1]_vars

\* Remove reports every pin of the record that was removed, whoever added it
\* and whichever attempt removed it, so that the sweep of the VM's objects
\* spares what a fork reads (Client.Remove).
RemoveReportsPins ==
    [][\A c \in Callers :
          /\ op[c].kind = "remove" /\ pc[c] # "ok" /\ pc'[c] = "ok"
          => removed'.pinned \subseteq cur[c].pinned]_vars

\* A call tells its caller the truth about the record: an OpenAfter took exactly
\* the epoch it was to take, and a Remove reports every pin of what it removed.
CallsTellTrue == OpenAfterIsExact /\ RemoveReportsPins
=============================================================================
