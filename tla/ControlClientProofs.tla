------------------------ MODULE ControlClientProofs ------------------------
(***************************************************************************)
(* Proofs about ControlClient, for any number of writers, callers, faults  *)
(* and updates, and any limits.                                            *)
(***************************************************************************)
EXTENDS ControlClient, TLAPS

(***************************************************************************)
(* The records operations make of a record, and their types.               *)
(***************************************************************************)

\* One change of a record that is there.
Change(r, n) ==
    \/ \E nonce \in Writers, joining \in BOOLEAN :
          CanTake(r, joining) /\ n = Taken(r, nonce, joining)
    \/ \E s \in Sequences, keep \in BOOLEAN, journals \in SUBSET Epochs :
          /\ CanSelect(r, r.epoch, s, keep)
          /\ n = Selected(r, s, keep, journals)
          /\ ValidJournals(n)
    \/ \E s \in Sequences : Admits(r, s) /\ n = WithPin(r, s)
    \/ \E s \in Sequences : CanRelease(r, s) /\ n = WithoutKept(r, s)

\* A record Create writes.
New(n) ==
    \E nonce \in Writers, s \in Sequences, published \in BOOLEAN :
        EpochOf(s) <= MaximumCreateEpoch /\ n = Created(nonce, s, published)

\* A new record is a record.
LEMMA NewType ==
    ASSUME NEW n, New(n) PROVE n \in Record
  BY DEF New, Created, Record, Sequences, EpochOf

\* A changed record is a record: in particular an epoch never passes its limit.
LEMMA ChangeType ==
    ASSUME NEW r \in Record, NEW n, Change(r, n) PROVE n \in Record
  <1>1. ASSUME NEW nonce \in Writers, NEW joining \in BOOLEAN, CanTake(r, joining)
        PROVE  Taken(r, nonce, joining) \in Record
    <2>1. r.epoch \in Epochs /\ r.epoch + 1 \in Epochs
      BY <1>1, LimitsAssumption DEF CanTake, Epochs, Record
    <2>2. (IF joining THEN r.journals \cup {r.epoch + 1} ELSE r.journals) \in SUBSET Epochs
      BY <2>1, Zenon DEF Record
    <2> QED BY Zenon, <2>1, <2>2 DEF Taken, Record
  <1>2. ASSUME NEW s \in Sequences, NEW keep \in BOOLEAN, NEW journals \in SUBSET Epochs
        PROVE  Selected(r, s, keep, journals) \in Record
    <2>1. (IF keep THEN r.kept \cup {s} ELSE r.kept) \in SUBSET Sequences
      BY Zenon DEF Record
    <2> QED BY Zenon, <2>1 DEF Selected, Record
  <1>3. ASSUME NEW s \in Sequences
        PROVE  WithPin(r, s) \in Record /\ WithoutKept(r, s) \in Record
    BY Zenon DEF WithPin, WithoutKept, Record
  <1> QED BY <1>1, <1>2, <1>3, Zenon DEF Change

(***************************************************************************)
(* Requests, and what applying one does to the store.                      *)
(***************************************************************************)

\* A request client.go makes: a new record if there is none, a change or the
\* removal of the record that was read, or an unconditional removal.
Proper(req) ==
    \/ req.when = "absent" /\ New(req.next)
    \/ /\ req.when = "match" /\ req.etag \in Record
       /\ req.next = NoRecord \/ Change(req.etag, req.next)
    \/ req.when = "always" /\ req.next = NoRecord

\* What a step may do to the record.
StoreStep ==
    \/ rec' = rec /\ removed' = removed
    \/ rec = NoRecord /\ New(rec') /\ removed' = removed
    \/ rec \in Record /\ Change(rec, rec') /\ removed' = removed
    \/ rec \in Record /\ rec' = NoRecord /\ removed' = [ever |-> TRUE, pinned |-> rec.pinned]

\* A proper request the store applies is one whole operation on the record
\* that is there, because the validator is that record's.
LEMMA ApplyStep ==
    ASSUME NEW req, Proper(req), rec \in MaybeRecord, Matches(req), Apply(req)
    PROVE  StoreStep
  <1> USE NoRecordAssumption
  <1>1. CASE req.when = "absent"
    <2>1. rec = NoRecord /\ New(req.next)
      BY <1>1, Zenon DEF Proper, Matches
    <2>2. req.next # NoRecord
      BY <2>1, NewType, Zenon
    <2> QED BY <2>1, <2>2, Zenon DEF Apply, StoreStep
  <1>2. CASE req.when = "match"
    <2>1. rec \in Record /\ rec = req.etag
      BY <1>2, Zenon DEF Matches, MaybeRecord
    <2>2. CASE req.next = NoRecord
      BY <2>1, <2>2, Zenon DEF Apply, StoreStep
    <2>3. CASE Change(req.etag, req.next)
      <3>1. req.next # NoRecord
        BY <2>1, <2>3, ChangeType, Zenon
      <3> QED BY <2>1, <2>3, <3>1, Zenon DEF Apply, StoreStep
    <2> QED BY <1>2, <2>2, <2>3, Zenon DEF Proper
  <1>3. CASE req.when = "always"
    <2>1. req.next = NoRecord
      BY <1>3, Zenon DEF Proper
    <2> QED BY <2>1, Zenon DEF Apply, StoreStep, MaybeRecord
  <1> QED BY <1>1, <1>2, <1>3, Zenon DEF Proper

\* The same of a put or a delete, whatever it reports.
LEMMA PutStep ==
    ASSUME NEW req, Proper(req), rec \in MaybeRecord, NEW outcome, Put(req, outcome)
    PROVE  /\ StoreStep
           /\ delayed' = delayed \/ delayed' = delayed \cup {req}
           /\ outcome = "applied" => rec' = req.next
           /\ faults' = faults \/ Fault
  <1>1. CASE outcome = "applied" /\ Matches(req) /\ Apply(req) /\ UNCHANGED <<delayed, faults>>
    BY <1>1, ApplyStep, Zenon DEF Apply
  <1>2. CASE outcome = "refused" /\ ~Matches(req) /\ UNCHANGED <<rec, removed, delayed, faults>>
    BY <1>2, Zenon DEF StoreStep
  <1>3. CASE outcome = "refused" /\ Matches(req) /\ Fault /\ Apply(req) /\ UNCHANGED delayed
    BY <1>3, ApplyStep, Zenon
  <1>4. CASE outcome = "lost" /\ Fault /\ delayed' = delayed \cup {req} /\ UNCHANGED <<rec, removed>>
    BY <1>4, Zenon DEF StoreStep
  <1> QED BY <1>1, <1>2, <1>3, <1>4, Zenon DEF Put

(***************************************************************************)
(* The inductive invariant.                                                *)
(***************************************************************************)

Updating(w) == op[w].kind \in {"select", "pin"}

\* What a writer means to write is a change, under its nonce, of what it read; an
\* update is over the record its handle tracks, under that record's validator.
WriterOK(w) ==
    /\ pc[w] = "put" => /\ cur[w] \in Record /\ Change(cur[w], next[w])
                        /\ next[w].nonce = w
    /\ pc[w] \in {"put", "reread"} /\ Updating(w) =>
          /\ handle[w].state \in {"open", "closed"}
          /\ cur[w] = handle[w].rec
          /\ next[w] \in Record /\ next[w].nonce = w
    /\ handle[w].state # "none" => handle[w].rec \in Record /\ handle[w].rec.nonce = w
    /\ handle[w].state \in {"open", "closed"} => handle[w].etag = handle[w].rec

\* What a caller means to write is a change or the removal of what it read.
CallerOK(c) ==
    pc[c] = "put" => cur[c] \in Record /\ (next[c] = NoRecord \/ Change(cur[c], next[c]))

RequestInv ==
    /\ \A req \in delayed : Proper(req)
    /\ \A w \in Writers : WriterOK(w)
    /\ \A c \in Callers : CallerOK(c)

(***************************************************************************)
(* Steps of one process.                                                   *)
(***************************************************************************)

CallType ==
    /\ pc \in [Procs -> Place] /\ op \in [Procs -> Op]
    /\ cur \in [Procs -> MaybeRecord] /\ next \in [Procs -> MaybeRecord]

\* Only p's call moves.
OnlyCall(p) ==
    \A q \in Procs \ {p} :
        pc'[q] = pc[q] /\ op'[q] = op[q] /\ cur'[q] = cur[q] /\ next'[q] = next[q]

\* What a step of p does to the handles: nothing; p takes the record that is in
\* the store after the step as its own; p closes; or p finds it is fenced.
HandleStep(p) ==
    \/ handle' = handle
    \/ /\ p \in Writers /\ rec' \in Record /\ rec'.nonce = p
       /\ \E s \in {"open", "closed"} :
             handle' = [handle EXCEPT ![p] = [state |-> s, rec |-> rec', etag |-> rec']]
    \/ /\ p \in Writers /\ handle[p].state = "open"
       /\ handle' = [handle EXCEPT ![p].state = "closed"]
    \/ /\ p \in Writers /\ handle[p].state # "none"
       /\ rec' = rec /\ rec \in Record /\ ~Mine(rec, handle[p].rec.epoch, p)
       /\ handle' = [handle EXCEPT ![p].state = "fenced", ![p].etag = rec]

\* A step of p that keeps its part of the invariant.
GoodStep(p) ==
    /\ CallType' /\ OnlyCall(p)
    /\ StoreStep /\ HandleStep(p)
    /\ delayed' \subseteq Request /\ \A req \in delayed' : Proper(req)
    /\ faults' \in 0 .. MaxFaults /\ updates' \in 0 .. MaxUpdates
    /\ p \in Writers => WriterOK(p)'
    /\ p \in Callers => CallerOK(p)'

\* A call's arguments are an Op.
LEMMA NoOpType == NoOp \in Op
  BY LimitsAssumption DEF NoOp, Op, Sequences, Epochs

\* How the calls move.
LEMMA EndMoves ==
    ASSUME TypeOK, NEW p \in Procs, NEW there \in Place, End(p, there)
    PROVE  CallType' /\ OnlyCall(p) /\ pc'[p] = there /\ op'[p] = NoOp
  BY NoOpType, Zenon DEF End, TypeOK, CallType, OnlyCall, MaybeRecord

LEMMA GotoMoves ==
    ASSUME TypeOK, NEW p \in Procs, NEW there \in Place, Goto(p, there)
    PROVE  /\ CallType' /\ OnlyCall(p) /\ pc'[p] = there
           /\ op'[p] = op[p] /\ cur'[p] = cur[p] /\ next'[p] = next[p]
  BY Zenon DEF Goto, TypeOK, CallType, OnlyCall

LEMMA WriteMoves ==
    ASSUME TypeOK, NEW p \in Procs, NEW o \in Op, NEW r \in MaybeRecord, NEW n \in MaybeRecord,
           Write(p, o, r, n)
    PROVE  /\ CallType' /\ OnlyCall(p) /\ pc'[p] = "put"
           /\ op'[p] = o /\ cur'[p] = r /\ next'[p] = n
  BY Zenon DEF Write, TypeOK, CallType, OnlyCall, Place

\* A put of a proper request keeps what is not the process's own.
LEMMA PutGood ==
    ASSUME TypeOK, RequestInv, NEW req \in Request, Proper(req), NEW outcome, Put(req, outcome)
    PROVE  /\ StoreStep
           /\ delayed' \subseteq Request /\ \A r \in delayed' : Proper(r)
           /\ outcome = "applied" => rec' = req.next
           /\ faults' \in 0 .. MaxFaults
  <1>1. StoreStep /\ (outcome = "applied" => rec' = req.next)
    BY PutStep, Zenon DEF TypeOK
  <1>2. (delayed' = delayed \/ delayed' = delayed \cup {req}) /\ (faults' = faults \/ Fault)
    BY PutStep, Zenon DEF TypeOK
  <1>3. delayed' \subseteq Request /\ \A r \in delayed' : Proper(r)
    BY <1>2, Zenon DEF TypeOK, RequestInv
  <1>4. faults' \in 0 .. MaxFaults
    BY <1>2, BoundsAssumption DEF TypeOK, Fault
  <1> QED BY <1>1, <1>3, <1>4, Zenon

(***************************************************************************)
(* One lemma per action.                                                   *)
(***************************************************************************)

\* A step that leaves the store alone.
Quiet == UNCHANGED <<rec, removed, delayed>>

LEMMA QuietGood ==
    ASSUME TypeOK, RequestInv, Quiet
    PROVE  StoreStep /\ delayed' \subseteq Request /\ \A r \in delayed' : Proper(r)
  BY Zenon DEF TypeOK, RequestInv, Quiet, StoreStep

\* A writer whose call has ended, or is not at a put or in an update, has nothing
\* but its handle to keep.
LEMMA RestingWriter ==
    ASSUME NEW w \in Writers, WriterOK(w), handle' = handle,
           pc'[w] # "put", pc'[w] = "reread" => op'[w].kind \notin {"select", "pin"}
    PROVE  WriterOK(w)'
  BY Zenon DEF WriterOK, Updating

\* A writer that has just taken the record in the store as its handle's.
LEMMA HoldingWriter ==
    ASSUME TypeOK, NEW w \in Writers, NEW s \in {"open", "closed"},
           rec' \in Record, rec'.nonce = w,
           handle' = [handle EXCEPT ![w] = [state |-> s, rec |-> rec', etag |-> rec']],
           pc'[w] \notin {"put", "reread"}
    PROVE  WriterOK(w)' /\ HandleStep(w)
  <1>1. handle'[w] = [state |-> s, rec |-> rec', etag |-> rec']
    BY Zenon DEF TypeOK
  <1>2. WriterOK(w)'
    BY <1>1 DEF WriterOK, Updating
  <1> QED BY Zenon, <1>2 DEF HandleStep

LEMMA CreateGood ==
    ASSUME TypeOK, RequestInv, NEW w \in Writers, Create(w)
    PROVE  GoodStep(w)
  <1> USE BoundsAssumption
  <1>1. PICK epoch \in 1 .. MaximumCreateEpoch, published \in BOOLEAN, outcome \in Outcomes :
          LET record == Created(w, <<epoch, 1>>, published)
          IN /\ Put([when |-> "absent", etag |-> NoRecord, next |-> record], outcome)
             /\ IF outcome = "applied" THEN Hold(w, record)
                ELSE /\ pc' = [pc EXCEPT ![w] = "reread"]
                     /\ op' = [op EXCEPT ![w].kind = "create"]
                     /\ next' = [next EXCEPT ![w] = record]
                     /\ UNCHANGED <<cur, handle>>
    BY Zenon DEF Create
  <1> DEFINE record == Created(w, <<epoch, 1>>, published)
             req == [when |-> "absent", etag |-> NoRecord, next |-> record]
  <1>2. New(record) /\ record.nonce = w
    <2>1. <<epoch, 1>> \in Sequences /\ EpochOf(<<epoch, 1>>) <= MaximumCreateEpoch
      BY LimitsAssumption DEF Sequences, Epochs, EpochOf
    <2> QED BY Zenon, <2>1 DEF New, Created
  <1>3. record \in Record
    BY <1>2, NewType, Zenon
  <1>4. req \in Request /\ Proper(req) /\ Put(req, outcome)
    BY <1>1, <1>2, <1>3, Zenon DEF Request, Proper, MaybeRecord
  <1> HIDE DEF record
  <1>5. /\ StoreStep
        /\ delayed' \subseteq Request /\ \A r \in delayed' : Proper(r)
        /\ outcome = "applied" => rec' = record
        /\ faults' \in 0 .. MaxFaults
    BY <1>4, PutGood, Zenon
  <1>6. updates' \in 0 .. MaxUpdates /\ w \in Procs /\ w \notin Callers
    BY Zenon DEF Create, TypeOK, Procs
  <1>7. CASE outcome = "applied"
    <2>1. Hold(w, record)
      BY <1>1, <1>7, Zenon DEF record
    <2>2. CallType' /\ OnlyCall(w) /\ pc'[w] = "idle"
      BY <2>1, <1>6, EndMoves, Zenon DEF Hold, Place
    <2>3. WriterOK(w)' /\ HandleStep(w)
      BY Zenon, <2>1, <2>2, <1>2, <1>3, <1>5, <1>7, HoldingWriter DEF Hold
    <2> QED BY <1>5, <1>6, <2>2, <2>3, Zenon DEF GoodStep
  <1>8. CASE outcome # "applied"
    <2>1. /\ pc' = [pc EXCEPT ![w] = "reread"]
          /\ op' = [op EXCEPT ![w].kind = "create"]
          /\ next' = [next EXCEPT ![w] = record]
          /\ UNCHANGED <<cur, handle>>
      BY <1>1, <1>8, Zenon DEF record
    <2>2. /\ CallType' /\ OnlyCall(w) /\ pc'[w] = "reread" /\ op'[w].kind = "create"
      <3>1. op[w] \in Op
        BY <1>6, Zenon DEF TypeOK
      <3>2. [op[w] EXCEPT !.kind = "create"] \in Op
        BY <3>1, Zenon DEF Op
      <3>3. [op[w] EXCEPT !.kind = "create"].kind = "create"
        BY <3>1, Zenon DEF Op
      <3>4. op'[w] = [op[w] EXCEPT !.kind = "create"] /\ op' \in [Procs -> Op]
        BY <2>1, <1>6, <3>2, Zenon DEF TypeOK
      <3> QED BY <2>1, <1>3, <1>6, <3>3, <3>4, Zenon DEF TypeOK, CallType, OnlyCall, Place, MaybeRecord
    <2>3. WriterOK(w)' /\ HandleStep(w)
      BY <2>1, <2>2, RestingWriter, Zenon DEF RequestInv, HandleStep
    <2> QED BY <1>5, <1>6, <2>2, <2>3, Zenon DEF GoodStep
  <1> QED BY <1>7, <1>8, Zenon

LEMMA CreateRereadGood ==
    ASSUME TypeOK, RequestInv, NEW w \in Writers, CreateReread(w)
    PROVE  GoodStep(w)
  <1> USE BoundsAssumption
  <1>1. /\ StoreStep /\ delayed' \subseteq Request /\ \A r \in delayed' : Proper(r)
        /\ rec' = rec
    BY QuietGood, Zenon DEF CreateReread, Quiet
  <1>2. /\ faults' \in 0 .. MaxFaults /\ updates' \in 0 .. MaxUpdates
        /\ w \in Procs /\ w \notin Callers
    BY Zenon DEF CreateReread, TypeOK, Procs
  <1>3. CASE rec # NoRecord /\ Mine(rec, next[w].epoch, w)
    <2>1. Hold(w, rec) /\ rec \in Record /\ rec.nonce = w
      BY <1>3, Zenon DEF CreateReread, Mine, TypeOK, MaybeRecord
    <2>2. CallType' /\ OnlyCall(w) /\ pc'[w] = "idle"
      BY <2>1, <1>2, EndMoves, Zenon DEF Hold, Place
    <2>3. WriterOK(w)' /\ HandleStep(w)
      BY Zenon, <2>1, <2>2, <1>1, HoldingWriter DEF Hold
    <2> QED BY <1>1, <1>2, <2>2, <2>3, Zenon DEF GoodStep
  <1>4. CASE ~(rec # NoRecord /\ Mine(rec, next[w].epoch, w))
    <2>1. CallType' /\ OnlyCall(w) /\ pc'[w] = "failed" /\ handle' = handle
      BY <1>4, <1>2, EndMoves, Zenon DEF CreateReread, Place
    <2>2. WriterOK(w)' /\ HandleStep(w)
      BY <2>1, RestingWriter, Zenon DEF RequestInv, HandleStep
    <2> QED BY <1>1, <1>2, <2>1, <2>2, Zenon DEF GoodStep
  <1> QED BY <1>3, <1>4, Zenon

LEMMA OpenReadsGood ==
    ASSUME TypeOK, RequestInv, NEW w \in Writers, NEW o \in Op, o.kind = "open", OpenReads(w, o)
    PROVE  GoodStep(w)
  <1> USE BoundsAssumption
  <1>1. StoreStep /\ delayed' \subseteq Request /\ \A r \in delayed' : Proper(r)
    BY QuietGood, Zenon DEF OpenReads, Quiet
  <1>2. /\ faults' \in 0 .. MaxFaults /\ updates' \in 0 .. MaxUpdates
        /\ w \in Procs /\ w \notin Callers /\ HandleStep(w) /\ handle' = handle
    BY Zenon DEF OpenReads, TypeOK, Procs, HandleStep
  <1>3. CASE rec # NoRecord /\ MayOpen(rec, o)
    <2> DEFINE n == Taken(rec, w, o.flag)
    <2>1. rec \in Record /\ Write(w, o, rec, n)
      BY <1>3, Zenon DEF OpenReads, TypeOK, MaybeRecord
    <2>2. Change(rec, n) /\ n.nonce = w
      <3>1. o.flag \in BOOLEAN /\ CanTake(rec, o.flag)
        BY <1>3, Zenon DEF MayOpen, Op
      <3> QED BY Zenon, <3>1, <2>1 DEF Change, Taken, Record
    <2>3. n \in MaybeRecord /\ rec \in MaybeRecord
      BY <2>1, <2>2, ChangeType, Zenon DEF MaybeRecord
    <2> HIDE DEF n
    <2>4. /\ CallType' /\ OnlyCall(w) /\ pc'[w] = "put"
          /\ op'[w] = o /\ cur'[w] = rec /\ next'[w] = n
      BY <2>1, <2>3, <1>2, WriteMoves, Zenon
    <2>5. WriterOK(w)'
      BY <2>1, <2>2, <2>4, <1>2, Zenon DEF WriterOK, Updating, RequestInv
    <2> QED BY <1>1, <1>2, <2>4, <2>5, Zenon DEF GoodStep
  <1>4. CASE ~(rec # NoRecord /\ MayOpen(rec, o))
    <2>1. CallType' /\ OnlyCall(w) /\ pc'[w] = "failed"
      BY <1>4, <1>2, EndMoves, Zenon DEF OpenReads, Place
    <2>2. WriterOK(w)'
      BY <2>1, <1>2, RestingWriter, Zenon DEF RequestInv
    <2> QED BY <1>1, <1>2, <2>1, <2>2, Zenon DEF GoodStep
  <1> QED BY <1>3, <1>4, Zenon

\* The facts every step of a writer shares, for a step that leaves the store alone.
LEMMA QuietWriter ==
    ASSUME TypeOK, RequestInv, Quiet, NEW w \in Writers, HandleStep(w), WriterOK(w)',
           CallType', OnlyCall(w), UNCHANGED <<faults, updates>>
    PROVE  GoodStep(w)
  <1>1. w \notin Callers
    BY BoundsAssumption, Zenon
  <1>2. faults' \in 0 .. MaxFaults /\ updates' \in 0 .. MaxUpdates
    BY Zenon DEF TypeOK
  <1> QED BY <1>1, <1>2, QuietGood, Zenon DEF GoodStep

LEMMA OpenPutGood ==
    ASSUME TypeOK, RequestInv, NEW w \in Writers, OpenPut(w)
    PROVE  GoodStep(w)
  <1>1. PICK outcome \in Outcomes :
          /\ Put(Over(w), outcome)
          /\ CASE outcome = "applied" -> Hold(w, next[w])
               [] outcome = "refused" -> Goto(w, "read") /\ UNCHANGED handle
               [] outcome = "lost" -> Goto(w, "reread") /\ UNCHANGED handle
    BY Zenon DEF OpenPut
  <1>2. /\ updates' \in 0 .. MaxUpdates
        /\ w \in Procs /\ w \notin Callers /\ op[w].kind = "open"
    BY BoundsAssumption, Zenon DEF OpenPut, TypeOK, Procs
  <1>3. cur[w] \in Record /\ Change(cur[w], next[w]) /\ next[w].nonce = w
    BY Zenon DEF OpenPut, RequestInv, WriterOK
  <1>4. next[w] \in Record
    BY <1>3, ChangeType, Zenon
  <1>5. Over(w) \in Request /\ Proper(Over(w)) /\ Over(w).next = next[w]
    BY <1>3, <1>4, Zenon DEF Over, Request, Proper, MaybeRecord
  <1>6. /\ StoreStep
        /\ delayed' \subseteq Request /\ \A r \in delayed' : Proper(r)
        /\ outcome = "applied" => rec' = next[w]
        /\ faults' \in 0 .. MaxFaults
    BY <1>1, <1>5, PutGood, Zenon
  <1>7. CASE outcome = "applied"
    <2>1. Hold(w, next[w])
      BY <1>1, <1>7, Zenon
    <2>2. CallType' /\ OnlyCall(w) /\ pc'[w] = "idle"
      BY <2>1, <1>2, EndMoves, Zenon DEF Hold, Place
    <2>3. WriterOK(w)' /\ HandleStep(w)
      BY Zenon, <2>1, <2>2, <1>3, <1>4, <1>6, <1>7, HoldingWriter DEF Hold
    <2> QED BY <1>2, <1>6, <2>2, <2>3, Zenon DEF GoodStep
  <1>8. CASE outcome # "applied"
    <2>1. PICK there \in {"read", "reread"} : Goto(w, there) /\ handle' = handle
      BY Zenon, <1>1, <1>8 DEF Outcomes
    <2>2. CallType' /\ OnlyCall(w) /\ pc'[w] = there /\ op'[w] = op[w]
      BY <2>1, <1>2, GotoMoves, Zenon DEF Place
    <2>3. WriterOK(w)' /\ HandleStep(w)
      BY <2>1, <2>2, <1>2, RestingWriter, Zenon DEF RequestInv, HandleStep
    <2> QED BY <1>2, <1>6, <2>2, <2>3, Zenon DEF GoodStep
  <1> QED BY <1>7, <1>8, Zenon

LEMMA OpenRereadGood ==
    ASSUME TypeOK, RequestInv, NEW w \in Writers, OpenReread(w)
    PROVE  GoodStep(w)
  <1>1. Quiet /\ rec' = rec /\ UNCHANGED <<faults, updates>> /\ w \in Procs /\ op[w].kind = "open"
    BY Zenon DEF OpenReread, Quiet, Procs
  <1>2. CASE rec # NoRecord /\ Mine(rec, next[w].epoch, w)
    <2>1. Hold(w, rec) /\ rec \in Record /\ rec.nonce = w
      BY <1>2, Zenon DEF OpenReread, Mine, TypeOK, MaybeRecord
    <2>2. CallType' /\ OnlyCall(w) /\ pc'[w] = "idle"
      BY <2>1, <1>1, EndMoves, Zenon DEF Hold, Place
    <2>3. WriterOK(w)' /\ HandleStep(w)
      BY Zenon, <2>1, <2>2, <1>1, HoldingWriter DEF Hold
    <2> QED BY <1>1, <2>2, <2>3, QuietWriter, Zenon
  <1>3. CASE ~(rec # NoRecord /\ Mine(rec, next[w].epoch, w))
    <2>1. (Goto(w, "read") \/ End(w, "failed")) /\ handle' = handle
      BY <1>3, Zenon DEF OpenReread
    <2>2. CallType' /\ OnlyCall(w) /\ pc'[w] \in {"read", "failed"}
      BY <2>1, <1>1, GotoMoves, EndMoves, Zenon DEF Place
    <2>3. WriterOK(w)' /\ HandleStep(w)
      BY <2>1, <2>2, RestingWriter, Zenon DEF RequestInv, HandleStep
    <2> QED BY <1>1, <2>2, <2>3, QuietWriter, Zenon
  <1> QED BY <1>2, <1>3, Zenon

\* Attempt writes a change of r under w's nonce, or ends.
LEMMA AttemptMoves ==
    ASSUME TypeOK, NEW w \in Writers, NEW o \in Op, o.kind \in {"select", "pin"},
           NEW r \in Record, Mine(r, handle[w].rec.epoch, w), Attempt(w, o, r)
    PROVE  /\ CallType' /\ OnlyCall(w)
           /\ \/ pc'[w] = "idle"
              \/ /\ pc'[w] = "put" /\ op'[w] = o /\ cur'[w] = r
                 /\ Change(r, next'[w]) /\ next'[w].nonce = w /\ next'[w] \in Record
                 /\ handle[w].state = "open"
  <1>1. w \in Procs
    BY Zenon DEF Procs
  <1>2. CASE handle[w].state = "open" /\ CanMutate(w, o, r) /\ Mutate(o, r) # r
    <2> DEFINE n == Mutate(o, r)
    <2>1. Write(w, o, r, n)
      BY <1>2, Zenon DEF Attempt
    <2>2. r.nonce = w /\ r.epoch = handle[w].rec.epoch
      BY Zenon DEF Mine
    <2>3. Change(r, n) /\ n.nonce = w
      <3>1. CASE o.kind = "select"
        <4>1. /\ CanSelect(r, r.epoch, o.seq, o.flag)
              /\ n = Selected(r, o.seq, o.flag, o.journals) /\ ValidJournals(n)
          BY <1>2, <2>2, <3>1, Zenon DEF CanMutate, Mutate
        <4>2. o.seq \in Sequences /\ o.flag \in BOOLEAN /\ o.journals \in SUBSET Epochs
          BY Zenon DEF Op
        <4>3. n.nonce = w
          BY <4>1, <2>2, Zenon DEF Selected, Record
        <4> HIDE DEF n
        <4> QED BY <4>1, <4>2, <4>3, Zenon DEF Change
      <3>2. CASE o.kind = "pin"
        <4>1. Admits(r, o.seq) /\ n = WithPin(r, o.seq) /\ o.seq \in Sequences
          BY <1>2, <3>2, Zenon DEF CanMutate, Mutate, Op
        <4>2. n.nonce = w
          BY <4>1, <2>2, Zenon DEF WithPin, Record
        <4> HIDE DEF n
        <4> QED BY <4>1, <4>2, Zenon DEF Change
      <3> QED BY <3>1, <3>2, Zenon
    <2>4. n \in Record
      BY <2>3, ChangeType, Zenon
    <2> HIDE DEF n
    <2> QED BY <1>1, <1>2, <2>1, <2>3, <2>4, WriteMoves DEF MaybeRecord
  <1>3. CASE ~(handle[w].state = "open" /\ CanMutate(w, o, r) /\ Mutate(o, r) # r)
    <2>1. End(w, "idle")
      BY <1>3, Zenon DEF Attempt
    <2> QED BY <1>1, <2>1, EndMoves, Zenon DEF Place
  <1> QED BY <1>2, <1>3, Zenon

LEMMA UpdateGood ==
    ASSUME TypeOK, RequestInv, NEW w \in Writers, NEW o \in Op, o.kind \in {"select", "pin"},
           handle[w].state = "open", Update(w, o)
    PROVE  GoodStep(w)
  <1>1. WriterOK(w) /\ handle' = handle /\ Quiet
    BY Zenon DEF Update, RequestInv, Quiet
  <1>2. handle[w].rec \in Record /\ Mine(handle[w].rec, handle[w].rec.epoch, w)
    BY <1>1, Zenon DEF WriterOK, Mine
  <1>3. /\ CallType' /\ OnlyCall(w)
        /\ \/ pc'[w] = "idle"
           \/ /\ pc'[w] = "put" /\ op'[w] = o /\ cur'[w] = handle[w].rec
              /\ Change(handle[w].rec, next'[w]) /\ next'[w].nonce = w /\ next'[w] \in Record
    BY <1>2, AttemptMoves, SMTT(30) DEF Update
  <1>4. WriterOK(w)' /\ HandleStep(w)
    <2>1. CASE pc'[w] = "idle"
      BY <1>1, <2>1, RestingWriter, Zenon DEF HandleStep
    <2>2. CASE pc'[w] = "put"
      BY <1>1, <1>2, <1>3, <2>2, Zenon DEF WriterOK, Updating, HandleStep
    <2> QED BY <1>3, <2>1, <2>2, Zenon
  <1>5. faults' \in 0 .. MaxFaults /\ updates' \in 0 .. MaxUpdates /\ w \notin Callers
    BY BoundsAssumption DEF Update, TypeOK
  <1> QED BY <1>1, <1>3, <1>4, <1>5, QuietGood, Zenon DEF GoodStep

LEMMA SelectGood ==
    ASSUME TypeOK, RequestInv, NEW w \in Writers, Select(w)
    PROVE  GoodStep(w)
  <1>1. PICK s \in Sequences, keep \in BOOLEAN,
             journals \in {{}, {handle[w].rec.epoch},
                           handle[w].rec.journals \cup {handle[w].rec.epoch}} :
          Update(w, [kind |-> "select", seq |-> s, flag |-> keep, epoch |-> 0,
                     journals |-> journals])
    BY Zenon DEF Select
  <1>2. handle[w].state = "open" /\ handle[w].rec \in Record
    BY Zenon DEF Select, RequestInv, WriterOK
  <1>3. journals \in SUBSET Epochs
    BY <1>2, Zenon DEF Record
  <1>4. [kind |-> "select", seq |-> s, flag |-> keep, epoch |-> 0, journals |-> journals] \in Op
    BY <1>3, LimitsAssumption DEF Op
  <1> QED BY <1>1, <1>2, <1>4, UpdateGood, Zenon

LEMMA PinGood ==
    ASSUME TypeOK, RequestInv, NEW w \in Writers, Pin(w)
    PROVE  GoodStep(w)
  <1>1. PICK s \in Sequences : Update(w, [NoOp EXCEPT !.kind = "pin", !.seq = s])
    BY Zenon DEF Pin
  <1>2. /\ [NoOp EXCEPT !.kind = "pin", !.seq = s] \in Op
        /\ [NoOp EXCEPT !.kind = "pin", !.seq = s].kind = "pin"
    BY Zenon, NoOpType DEF Op
  <1>3. handle[w].state = "open"
    BY Zenon DEF Pin
  <1> QED BY Zenon, <1>1, <1>2, <1>3, UpdateGood

LEMMA UpdatePutGood ==
    ASSUME TypeOK, RequestInv, NEW w \in Writers, UpdatePut(w)
    PROVE  GoodStep(w)
  <1> DEFINE req == [when |-> "match", etag |-> handle[w].etag, next |-> next[w]]
  <1>1. PICK outcome \in Outcomes :
          /\ Put(req, outcome)
          /\ IF outcome = "applied"
             THEN handle' = [handle EXCEPT ![w] = Settle(@, next[w])] /\ End(w, "idle")
             ELSE Goto(w, "reread") /\ UNCHANGED handle
    BY Zenon DEF UpdatePut
  <1>2. /\ updates' \in 0 .. MaxUpdates /\ w \in Procs /\ w \notin Callers
        /\ op[w].kind \in {"select", "pin"} /\ pc[w] = "put"
    BY BoundsAssumption, Zenon DEF UpdatePut, TypeOK, Procs
  <1>3. /\ WriterOK(w) /\ handle[w].state \in {"open", "closed"} /\ handle[w].etag = cur[w]
        /\ cur[w] \in Record /\ Change(cur[w], next[w])
        /\ next[w] \in Record /\ next[w].nonce = w
    BY <1>2, ZenonT(30) DEF RequestInv, WriterOK, Updating
  <1>4. req \in Request /\ Proper(req) /\ req.next = next[w]
    BY <1>3, Zenon DEF Request, Proper, MaybeRecord
  <1> HIDE DEF req
  <1>5. /\ StoreStep
        /\ delayed' \subseteq Request /\ \A r \in delayed' : Proper(r)
        /\ outcome = "applied" => rec' = next[w]
        /\ faults' \in 0 .. MaxFaults
    BY <1>1, <1>4, PutGood, Zenon
  <1>6. CASE outcome = "applied"
    <2>1. /\ CallType' /\ OnlyCall(w) /\ pc'[w] = "idle"
      BY <1>1, <1>2, <1>6, EndMoves, Zenon DEF Place
    <2>2. Settle(handle[w], next[w]) = [state |-> handle[w].state, rec |-> rec', etag |-> rec']
      <3>1. handle[w] \in Handle
        BY Zenon DEF TypeOK
      <3> QED BY <3>1, <1>5, <1>6, Zenon DEF Settle, Handle
    <2>3. handle' = [handle EXCEPT ![w] = [state |-> handle[w].state, rec |-> rec', etag |-> rec']]
      BY <1>1, <1>6, <2>2, Zenon
    <2>4. WriterOK(w)' /\ HandleStep(w)
      BY Zenon, <1>3, <1>5, <1>6, <2>1, <2>3, HoldingWriter
    <2> QED BY <1>2, <1>5, <2>1, <2>4, Zenon DEF GoodStep
  <1>7. CASE outcome # "applied"
    <2>1. /\ CallType' /\ OnlyCall(w) /\ pc'[w] = "reread" /\ handle' = handle
          /\ op'[w] = op[w] /\ cur'[w] = cur[w] /\ next'[w] = next[w]
      BY <1>1, <1>2, <1>7, GotoMoves, Zenon DEF Place
    <2>2. WriterOK(w)' /\ HandleStep(w)
      BY <1>2, <1>3, <2>1, Zenon DEF WriterOK, Updating, HandleStep
    <2> QED BY <1>2, <1>5, <2>1, <2>2, Zenon DEF GoodStep
  <1> QED BY <1>6, <1>7, Zenon

LEMMA UpdateRereadGood ==
    ASSUME TypeOK, RequestInv, NEW w \in Writers, UpdateReread(w)
    PROVE  GoodStep(w)
  <1>1. /\ Quiet /\ rec' = rec /\ UNCHANGED <<faults, updates>> /\ w \in Procs
        /\ op[w].kind \in {"select", "pin"} /\ pc[w] = "reread" /\ op[w] \in Op
        /\ handle[w] \in Handle
    BY Zenon DEF UpdateReread, Quiet, Procs, TypeOK
  <1>2. /\ WriterOK(w) /\ handle[w].state \in {"open", "closed"}
        /\ cur[w] = handle[w].rec /\ cur[w] \in Record /\ cur[w].nonce = w
        /\ next[w] \in Record /\ next[w].nonce = w
    BY <1>1, Zenon DEF RequestInv, WriterOK, Updating
  <1>3. Settle(handle[w], rec) = [state |-> handle[w].state, rec |-> rec', etag |-> rec']
    BY <1>1, Zenon DEF Settle, Handle
  <1>4. CASE rec = NoRecord
    <2>1. CallType' /\ OnlyCall(w) /\ pc'[w] = "idle" /\ handle' = handle
      BY <1>1, <1>4, EndMoves, Zenon DEF UpdateReread, Place
    <2>2. WriterOK(w)' /\ HandleStep(w)
      BY <1>2, <2>1, RestingWriter, Zenon DEF HandleStep
    <2> QED BY <1>1, <2>1, <2>2, QuietWriter, Zenon
  <1>5. CASE rec # NoRecord /\ UpdateSettled(w)
    <2>1. CallType' /\ OnlyCall(w) /\ pc'[w] = "idle"
      BY <1>1, <1>5, EndMoves, Zenon DEF UpdateSettled, Place
    <2>2. handle' = [handle EXCEPT ![w] = [state |-> handle[w].state, rec |-> rec', etag |-> rec']]
      BY <1>3, <1>5, Zenon DEF UpdateSettled, TypeOK
    <2>3. rec' \in Record /\ rec'.nonce = w
      BY <1>1, <1>2, <1>5, Zenon DEF UpdateSettled
    <2>4. WriterOK(w)' /\ HandleStep(w)
      BY Zenon, <1>2, <2>1, <2>2, <2>3, HoldingWriter
    <2> QED BY <1>1, <2>1, <2>4, QuietWriter, Zenon
  <1>6. CASE rec # NoRecord /\ UpdateAdopted(w)
    <2>1. rec \in Record /\ Mine(rec, handle[w].rec.epoch, w) /\ rec.nonce = w
      BY <1>6, Zenon DEF UpdateAdopted, Adopts, Mine, TypeOK, MaybeRecord
    <2>2. handle' = [handle EXCEPT ![w] = [state |-> handle[w].state, rec |-> rec', etag |-> rec']]
      BY <1>3, <1>6, Zenon DEF UpdateAdopted, TypeOK
    <2>3. /\ CallType' /\ OnlyCall(w)
          /\ \/ pc'[w] = "idle"
             \/ /\ pc'[w] = "put" /\ op'[w] = op[w] /\ cur'[w] = rec
                /\ Change(rec, next'[w]) /\ next'[w].nonce = w /\ next'[w] \in Record
      BY <1>1, <1>6, <2>1, AttemptMoves DEF UpdateAdopted
    <2>4. HandleStep(w)
      BY Zenon, <1>1, <1>2, <2>1, <2>2 DEF HandleStep
    <2>5. handle'[w] = [state |-> handle[w].state, rec |-> rec', etag |-> rec']
      BY <2>2, Zenon DEF TypeOK
    <2>6. /\ handle'[w].state = handle[w].state /\ handle'[w].rec = rec
          /\ handle'[w].etag = handle'[w].rec
      BY <1>1, <2>5, SMTT(30)
    <2>7. WriterOK(w)'
      <3>1. CASE pc'[w] = "idle"
        BY <2>1, <2>6, <3>1, Zenon DEF WriterOK
      <3>2. CASE /\ pc'[w] = "put" /\ op'[w] = op[w] /\ cur'[w] = rec
                 /\ Change(rec, next'[w]) /\ next'[w].nonce = w /\ next'[w] \in Record
        BY <1>2, <2>1, <2>6, <3>2, ZenonT(30) DEF WriterOK
      <3> QED BY <2>3, <3>1, <3>2, Zenon
    <2> QED BY <1>1, <2>3, <2>4, <2>7, QuietWriter, Zenon
  <1>7. CASE rec # NoRecord /\ UpdateFenced(w)
    <2>1. CallType' /\ OnlyCall(w) /\ pc'[w] = "idle"
      BY <1>1, <1>7, EndMoves, Zenon DEF UpdateFenced, Place
    <2>2. /\ rec' = rec /\ rec \in Record /\ ~Mine(rec, handle[w].rec.epoch, w)
          /\ handle' = [handle EXCEPT ![w].state = "fenced", ![w].etag = rec]
      BY <1>1, <1>7, Zenon DEF UpdateFenced, Adopts, TypeOK, MaybeRecord
    <2>3. handle'[w].state = "fenced" /\ handle'[w].rec = handle[w].rec
      <3>1. handle'[w] = [handle[w] EXCEPT !.state = "fenced", !.etag = rec]
        BY <2>2, Zenon DEF TypeOK
      <3> QED BY <1>1, <3>1, Zenon DEF Handle
    <2>4. WriterOK(w)'
      BY <1>2, <2>1, <2>3, Zenon DEF WriterOK, Updating
    <2>5. HandleStep(w)
      BY <1>2, <2>2, Zenon DEF HandleStep
    <2> QED BY <1>1, <2>1, <2>4, <2>5, QuietWriter, Zenon
  <1> QED BY <1>4, <1>5, <1>6, <1>7, Zenon DEF UpdateReread

LEMMA CloseGood ==
    ASSUME TypeOK, RequestInv, NEW w \in Writers, Close(w)
    PROVE  GoodStep(w)
  <1>1. /\ Quiet /\ UNCHANGED <<pc, op, cur, next, faults, updates>> /\ HandleStep(w)
        /\ handle[w] \in Handle /\ WriterOK(w)
    BY Zenon DEF Close, Quiet, HandleStep, TypeOK, RequestInv
  <1>2. CallType' /\ OnlyCall(w)
    BY <1>1, Zenon DEF CallType, OnlyCall, TypeOK
  <1>3. /\ handle'[w].state = "closed" /\ handle[w].state = "open"
        /\ handle'[w].rec = handle[w].rec /\ handle'[w].etag = handle[w].etag
    <2>1. handle'[w] = [handle[w] EXCEPT !.state = "closed"] /\ handle[w].state = "open"
      BY Zenon DEF Close, TypeOK
    <2> QED BY <1>1, <2>1, Zenon DEF Handle
  <1>4. WriterOK(w)'
    BY <1>1, <1>3, Zenon DEF WriterOK, Updating
  <1> QED BY <1>1, <1>2, <1>4, QuietWriter, Zenon

\* A caller's step that leaves the store alone.
LEMMA QuietCaller ==
    ASSUME TypeOK, RequestInv, Quiet, NEW c \in Callers, CallerOK(c)',
           CallType', OnlyCall(c), UNCHANGED <<handle, faults, updates>>
    PROVE  GoodStep(c)
  <1>1. c \notin Writers
    BY BoundsAssumption, Zenon
  <1>2. faults' \in 0 .. MaxFaults /\ updates' \in 0 .. MaxUpdates /\ HandleStep(c)
    BY Zenon DEF TypeOK, HandleStep
  <1> QED BY <1>1, <1>2, QuietGood, Zenon DEF GoodStep

\* A caller that ends, or writes a change or the removal of what it read.
LEMMA CallerMoves ==
    ASSUME TypeOK, NEW c \in Callers, NEW o \in Op, NEW n,
           \/ \E there \in {"ok", "failed"} : End(c, there)
           \/ rec \in Record /\ (n = NoRecord \/ Change(rec, n)) /\ Write(c, o, rec, n)
    PROVE  CallType' /\ OnlyCall(c) /\ CallerOK(c)'
  <1>1. c \in Procs
    BY Zenon DEF Procs
  <1>2. ASSUME NEW there \in {"ok", "failed"}, End(c, there)
        PROVE  CallType' /\ OnlyCall(c) /\ CallerOK(c)'
    BY <1>1, <1>2, EndMoves, Zenon DEF CallerOK, Place
  <1>3. ASSUME rec \in Record, n = NoRecord \/ Change(rec, n), Write(c, o, rec, n)
        PROVE  CallType' /\ OnlyCall(c) /\ CallerOK(c)'
    <2>1. n \in MaybeRecord
      BY <1>3, ChangeType, Zenon DEF MaybeRecord
    <2> QED BY <1>1, <1>3, <2>1, WriteMoves, Zenon DEF CallerOK, MaybeRecord
  <1> QED BY <1>2, <1>3, Zenon

LEMMA ClientPinGood ==
    ASSUME TypeOK, RequestInv, NEW c \in Callers, ClientPin(c)
    PROVE  GoodStep(c)
  <1>1. PICK s \in Sequences, selected \in BOOLEAN :
          LET o == [NoOp EXCEPT !.kind = "clientpin", !.seq = s, !.flag = selected]
              wanted == IF selected THEN rec.selected ELSE s
          IN CASE rec # NoRecord /\ IsPinned(rec, wanted) -> End(c, "ok")
               [] rec # NoRecord /\ ~IsPinned(rec, wanted) /\ CanPin(rec, wanted) ->
                      Write(c, o, rec, WithPin(rec, wanted))
               [] OTHER -> End(c, "failed")
    BY Zenon DEF ClientPin
  <1> DEFINE o == [NoOp EXCEPT !.kind = "clientpin", !.seq = s, !.flag = selected]
             wanted == IF selected THEN rec.selected ELSE s
             n == WithPin(rec, wanted)
  <1>2. o \in Op
    BY Zenon, NoOpType DEF Op
  <1>3. CASE rec # NoRecord /\ ~IsPinned(rec, wanted) /\ CanPin(rec, wanted)
    <2>1. rec \in Record
      BY <1>3, Zenon DEF TypeOK, MaybeRecord
    <2>2. wanted \in Sequences
      BY <2>1, Zenon DEF Record
    <2>3. Change(rec, n)
      BY <1>3, <2>2, Zenon DEF Change, CanPin
    <2>4. Write(c, o, rec, n)
      BY <1>1, <1>3, Zenon
    <2> HIDE DEF o, n
    <2>5. CallType' /\ OnlyCall(c) /\ CallerOK(c)'
      BY <1>2, <2>1, <2>3, <2>4, CallerMoves, Zenon
    <2> QED BY <2>5, QuietCaller, Zenon DEF ClientPin, Quiet
  <1>4. CASE ~(rec # NoRecord /\ ~IsPinned(rec, wanted) /\ CanPin(rec, wanted))
    <2>1. \E there \in {"ok", "failed"} : End(c, there)
      BY <1>1, <1>4, Zenon
    <2> HIDE DEF o, n
    <2>2. CallType' /\ OnlyCall(c) /\ CallerOK(c)'
      BY <1>2, <2>1, CallerMoves, Zenon
    <2> QED BY <2>2, QuietCaller, Zenon DEF ClientPin, Quiet
  <1> QED BY <1>3, <1>4, Zenon

LEMMA ReleaseGood ==
    ASSUME TypeOK, RequestInv, NEW c \in Callers, Release(c)
    PROVE  GoodStep(c)
  <1>1. PICK s \in Sequences :
          LET o == [NoOp EXCEPT !.kind = "release", !.seq = s]
          IN IF rec # NoRecord /\ CanRelease(rec, s)
             THEN Write(c, o, rec, WithoutKept(rec, s)) ELSE End(c, "failed")
    BY Zenon DEF Release
  <1> DEFINE o == [NoOp EXCEPT !.kind = "release", !.seq = s]
             n == WithoutKept(rec, s)
  <1>2. o \in Op
    BY Zenon, NoOpType DEF Op
  <1>3. \/ \E there \in {"ok", "failed"} : End(c, there)
        \/ rec \in Record /\ (n = NoRecord \/ Change(rec, n)) /\ Write(c, o, rec, n)
    BY <1>1, Zenon DEF TypeOK, MaybeRecord, Change
  <1> HIDE DEF o, n
  <1>4. CallType' /\ OnlyCall(c) /\ CallerOK(c)'
    BY <1>2, <1>3, CallerMoves, Zenon
  <1> QED BY <1>4, QuietCaller, Zenon DEF Release, Quiet

LEMMA RemoveGood ==
    ASSUME TypeOK, RequestInv, NEW c \in Callers, Remove(c)
    PROVE  GoodStep(c)
  <1> DEFINE o == [NoOp EXCEPT !.kind = "remove"]
  <1>1. o \in Op
    BY NoOpType, Zenon DEF Op
  <1>2. \/ \E there \in {"ok", "failed"} : End(c, there)
        \/ rec \in Record /\ Write(c, o, rec, NoRecord)
    BY Zenon DEF Remove, TypeOK, MaybeRecord
  <1> HIDE DEF o
  <1>3. CallType' /\ OnlyCall(c) /\ CallerOK(c)'
    BY <1>1, <1>2, CallerMoves, Zenon
  <1> QED BY <1>3, QuietCaller, Zenon DEF Remove, Quiet

LEMMA CallPutGood ==
    ASSUME TypeOK, RequestInv, NEW c \in Callers, CallPut(c)
    PROVE  GoodStep(c)
  <1>1. PICK outcome \in Outcomes :
          /\ Put(Over(c), outcome)
          /\ CASE outcome = "applied" -> End(c, "ok")
               [] outcome = "refused" -> Goto(c, "read")
               [] outcome = "lost" -> Goto(c, "reread")
    BY Zenon DEF CallPut
  <1>2. /\ updates' \in 0 .. MaxUpdates /\ c \in Procs /\ c \notin Writers /\ HandleStep(c)
    BY BoundsAssumption, Zenon DEF CallPut, TypeOK, Procs, HandleStep
  <1>3. cur[c] \in Record /\ (next[c] = NoRecord \/ Change(cur[c], next[c]))
    BY Zenon DEF CallPut, RequestInv, CallerOK
  <1>4. next[c] \in MaybeRecord
    BY <1>3, ChangeType, Zenon DEF MaybeRecord
  <1>5. Over(c) \in Request /\ Proper(Over(c))
    BY <1>3, <1>4, Zenon DEF Over, Request, Proper, MaybeRecord
  <1>6. /\ StoreStep
        /\ delayed' \subseteq Request /\ \A r \in delayed' : Proper(r)
        /\ faults' \in 0 .. MaxFaults
    BY <1>1, <1>5, PutGood, Zenon
  <1>7. CallType' /\ OnlyCall(c) /\ pc'[c] # "put"
    BY Zenon, <1>1, <1>2, EndMoves, GotoMoves DEF Outcomes, Place
  <1> QED BY <1>2, <1>6, <1>7, Zenon DEF GoodStep, CallerOK

LEMMA CallRereadGood ==
    ASSUME TypeOK, RequestInv, NEW c \in Callers, CallReread(c)
    PROVE  GoodStep(c)
  <1>1. c \in Procs /\ Quiet /\ UNCHANGED <<handle, faults, updates>>
    BY Zenon DEF CallReread, Procs, Quiet
  <1>2. End(c, "ok") \/ End(c, "failed") \/ Goto(c, "read")
    BY Zenon DEF CallReread
  <1>3. CallType' /\ OnlyCall(c) /\ pc'[c] # "put"
    BY <1>1, <1>2, EndMoves, GotoMoves, Zenon DEF Place
  <1> QED BY <1>1, <1>3, QuietCaller, Zenon DEF CallerOK

LEMMA DeleteGood ==
    ASSUME TypeOK, RequestInv, NEW c \in Callers, Delete(c)
    PROVE  GoodStep(c)
  <1> DEFINE req == [when |-> "always", etag |-> NoRecord, next |-> NoRecord]
  <1>1. PICK outcome \in {"applied", "lost"} :
          Put(req, outcome) /\ End(c, IF outcome = "applied" THEN "ok" ELSE "failed")
    BY Zenon DEF Delete
  <1>2. updates' \in 0 .. MaxUpdates /\ c \in Procs /\ c \notin Writers /\ HandleStep(c)
    BY BoundsAssumption, Zenon DEF Delete, TypeOK, Procs, HandleStep
  <1>3. req \in Request /\ Proper(req)
    BY Zenon DEF Request, Proper, MaybeRecord
  <1> HIDE DEF req
  <1>4. /\ StoreStep
        /\ delayed' \subseteq Request /\ \A r \in delayed' : Proper(r)
        /\ faults' \in 0 .. MaxFaults
    BY <1>1, <1>3, PutGood, Zenon
  <1>5. CallType' /\ OnlyCall(c) /\ pc'[c] # "put"
    BY <1>1, <1>2, EndMoves, Zenon DEF Place
  <1> QED BY <1>2, <1>4, <1>5, Zenon DEF GoodStep, CallerOK

LEMMA ReadFailsGood ==
    ASSUME TypeOK, RequestInv, NEW p \in Procs, ReadFails(p)
    PROVE  GoodStep(p)
  <1>1. Quiet /\ handle' = handle /\ HandleStep(p)
    BY Zenon DEF ReadFails, Quiet, HandleStep
  <1>2. faults' \in 0 .. MaxFaults /\ updates' \in 0 .. MaxUpdates
    BY BoundsAssumption DEF ReadFails, Fault, TypeOK
  <1>3. PICK there \in {"idle", "failed"} : End(p, there)
    BY Zenon DEF ReadFails
  <1>4. CallType' /\ OnlyCall(p) /\ pc'[p] \in {"idle", "failed"}
    BY <1>3, EndMoves, Zenon DEF Place
  <1>5. p \in Writers => WriterOK(p)'
    BY <1>1, <1>4, RestingWriter, Zenon DEF RequestInv
  <1>6. p \in Callers => CallerOK(p)'
    BY <1>4, Zenon DEF CallerOK
  <1> QED BY <1>1, <1>2, <1>4, <1>5, <1>6, QuietGood, Zenon DEF GoodStep

\* What the store holds keeps its type.
LEMMA StoreType ==
    ASSUME TypeOK, StoreStep
    PROVE  rec' \in MaybeRecord /\ removed' \in [ever: BOOLEAN, pinned: SUBSET Sequences]
  <1>1. CASE rec' = rec /\ removed' = removed
    BY <1>1, Zenon DEF TypeOK
  <1>2. CASE rec = NoRecord /\ New(rec') /\ removed' = removed
    BY <1>2, NewType, Zenon DEF TypeOK, MaybeRecord
  <1>3. CASE rec \in Record /\ Change(rec, rec') /\ removed' = removed
    BY <1>3, ChangeType, Zenon DEF TypeOK, MaybeRecord
  <1>4. CASE rec \in Record /\ rec' = NoRecord /\ removed' = [ever |-> TRUE, pinned |-> rec.pinned]
    BY <1>4, Zenon DEF MaybeRecord, Record
  <1> QED BY <1>1, <1>2, <1>3, <1>4, Zenon DEF StoreStep

\* A step that keeps its process's part of the invariant keeps all of it.
LEMMA GoodStepKeeps ==
    ASSUME TypeOK, RequestInv, NEW p \in Procs, GoodStep(p)
    PROVE  TypeOK' /\ RequestInv'
  <1>1. rec' \in MaybeRecord /\ removed' \in [ever: BOOLEAN, pinned: SUBSET Sequences]
    BY StoreType, Zenon DEF GoodStep
  <1>2. handle' \in [Writers -> Handle] /\ \A v \in Writers \ {p} : handle'[v] = handle[v]
    <2>1. CASE handle' = handle
      BY <2>1, Zenon DEF TypeOK
    <2>2. ASSUME p \in Writers, rec' \in Record, NEW s \in {"open", "closed"},
                 handle' = [handle EXCEPT ![p] = [state |-> s, rec |-> rec', etag |-> rec']]
          PROVE  handle' \in [Writers -> Handle] /\ \A v \in Writers \ {p} : handle'[v] = handle[v]
      <3>1. [state |-> s, rec |-> rec', etag |-> rec'] \in Handle
        BY <2>2, Zenon DEF Handle, MaybeRecord
      <3> QED BY <2>2, <3>1, Zenon DEF TypeOK
    <2>3. ASSUME p \in Writers, handle' = [handle EXCEPT ![p].state = "closed"]
          PROVE  handle' \in [Writers -> Handle] /\ \A v \in Writers \ {p} : handle'[v] = handle[v]
      <3>1. [handle[p] EXCEPT !.state = "closed"] \in Handle
        BY <2>3, Zenon DEF TypeOK, Handle
      <3> QED BY <2>3, <3>1, Zenon DEF TypeOK
    <2>4. ASSUME p \in Writers, rec \in Record,
                 handle' = [handle EXCEPT ![p].state = "fenced", ![p].etag = rec]
          PROVE  handle' \in [Writers -> Handle] /\ \A v \in Writers \ {p} : handle'[v] = handle[v]
      <3>1. [handle[p] EXCEPT !.state = "fenced", !.etag = rec] \in Handle
        <4>1. handle[p] \in Handle
          BY <2>4, Zenon DEF TypeOK
        <4> QED BY Zenon, <2>4, <4>1 DEF Handle, MaybeRecord
      <3>2. handle' = [handle EXCEPT ![p] = [handle[p] EXCEPT !.state = "fenced", !.etag = rec]]
        BY Zenon, <2>4 DEF TypeOK
      <3> QED BY <2>4, <3>1, <3>2, Zenon DEF TypeOK
    <2> QED BY <2>1, <2>2, <2>3, <2>4, Zenon DEF GoodStep, HandleStep
  <1>3. TypeOK'
    BY <1>1, <1>2, Zenon DEF TypeOK, GoodStep, CallType
  <1>4. ASSUME NEW v \in Writers PROVE WriterOK(v)'
    <2>1. CASE v = p
      BY <2>1, Zenon DEF GoodStep
    <2>2. CASE v # p
      <3>1. /\ pc'[v] = pc[v] /\ op'[v] = op[v] /\ cur'[v] = cur[v] /\ next'[v] = next[v]
            /\ handle'[v] = handle[v]
        BY <1>2, <2>2, Zenon DEF GoodStep, OnlyCall, Procs
      <3> QED BY <3>1, Zenon DEF RequestInv, WriterOK, Updating
    <2> QED BY <2>1, <2>2, Zenon
  <1>5. ASSUME NEW c \in Callers PROVE CallerOK(c)'
    <2>1. CASE c = p
      BY <2>1, Zenon DEF GoodStep
    <2>2. CASE c # p
      <3>1. pc'[c] = pc[c] /\ cur'[c] = cur[c] /\ next'[c] = next[c]
        BY <2>2, Zenon DEF GoodStep, OnlyCall, Procs
      <3> QED BY Zenon, <3>1 DEF RequestInv, CallerOK
    <2> QED BY <2>1, <2>2, Zenon
  <1> QED BY <1>3, <1>4, <1>5, Zenon DEF GoodStep, RequestInv

\* Every step of a process is good.
LEMMA ProcessStep ==
    ASSUME TypeOK, RequestInv, Next, ~Deliver
    PROVE  \E p \in Procs : GoodStep(p)
  <1>1. ASSUME NEW w \in Writers, WriterStep(w) PROVE GoodStep(w)
    <2>1. CASE Open(w)
      <3>1. PICK after \in 0 .. MaximumEpoch :
              OpenReads(w, [NoOp EXCEPT !.kind = "open", !.epoch = after])
        BY Zenon, <2>1 DEF Open
      <3>2. /\ [NoOp EXCEPT !.kind = "open", !.epoch = after] \in Op
            /\ [NoOp EXCEPT !.kind = "open", !.epoch = after].kind = "open"
        BY Zenon, NoOpType DEF Op
      <3> QED BY Zenon, <3>1, <3>2, OpenReadsGood
    <2>2. CASE OpenMigration(w)
      <3>1. /\ [NoOp EXCEPT !.kind = "open", !.flag = TRUE] \in Op
            /\ [NoOp EXCEPT !.kind = "open", !.flag = TRUE].kind = "open"
        BY Zenon, NoOpType DEF Op
      <3> QED BY Zenon, <2>2, <3>1, OpenReadsGood DEF OpenMigration
    <2>3. CASE OpenAgain(w)
      <3>1. op[w] \in Op /\ op[w].kind = "open" /\ OpenReads(w, op[w])
        BY <2>3, Zenon DEF OpenAgain, TypeOK, Procs
      <3> QED BY <3>1, OpenReadsGood, Zenon
    <2> QED BY Zenon, <1>1, <2>1, <2>2, <2>3, CreateGood, CreateRereadGood, OpenPutGood,
               OpenRereadGood, SelectGood, PinGood, UpdatePutGood, UpdateRereadGood, CloseGood
            DEF WriterStep
  <1>2. ASSUME NEW c \in Callers, CallStep(c) PROVE GoodStep(c)
    BY <1>2, ClientPinGood, ReleaseGood, RemoveGood, DeleteGood, CallPutGood, CallRereadGood, Zenon
       DEF CallStep
  <1> QED BY <1>1, <1>2, ReadFailsGood, Zenon DEF Next, Procs

\* A late request is one whole operation too.
LEMMA DeliverKeeps ==
    ASSUME TypeOK, RequestInv, Deliver
    PROVE  TypeOK' /\ RequestInv' /\ StoreStep /\ handle' = handle
  <1>1. PICK req \in delayed :
          /\ delayed' = delayed \ {req}
          /\ IF Matches(req) THEN Apply(req) ELSE UNCHANGED <<rec, removed>>
          /\ UNCHANGED <<pc, op, cur, next, handle, faults, updates>>
    BY Zenon DEF Deliver
  <1>2. StoreStep
    <2>1. Proper(req) /\ rec \in MaybeRecord
      BY Zenon DEF RequestInv, TypeOK
    <2> QED BY <1>1, <2>1, ApplyStep, Zenon DEF StoreStep
  <1>3. TypeOK'
    BY <1>1, <1>2, StoreType, Zenon DEF TypeOK
  <1>4. RequestInv'
    BY <1>1, Zenon DEF RequestInv, WriterOK, CallerOK, Updating
  <1> QED BY <1>1, <1>2, <1>3, <1>4, Zenon

\* The invariant holds initially, and every step keeps it.
LEMMA InitInv == Init => TypeOK /\ RequestInv
  <1> SUFFICES ASSUME Init PROVE TypeOK /\ RequestInv
    BY Zenon
  <1>1. TypeOK
    BY NoOpType, BoundsAssumption DEF Init, TypeOK, MaybeRecord, Place, Handle, NoHandle
  <1> QED BY <1>1, Zenon DEF Init, RequestInv, WriterOK, CallerOK, Updating, NoHandle, Procs

LEMMA NextKeeps ==
    ASSUME TypeOK, RequestInv, [Next]_vars
    PROVE  /\ TypeOK' /\ RequestInv' /\ StoreStep
           /\ handle' = handle \/ \E p \in Writers : HandleStep(p)
  <1>1. CASE Deliver
    BY <1>1, DeliverKeeps, Zenon
  <1>2. CASE Next /\ ~Deliver
    <2>1. PICK p \in Procs : GoodStep(p)
      BY <1>2, ProcessStep, Zenon
    <2>2. StoreStep /\ HandleStep(p)
      BY <2>1, Zenon DEF GoodStep
    <2> QED BY <2>1, <2>2, GoodStepKeeps, Zenon DEF HandleStep
  <1>3. CASE vars' = vars
    <2>1. /\ rec' = rec /\ delayed' = delayed /\ pc' = pc /\ op' = op /\ cur' = cur /\ next' = next
          /\ handle' = handle /\ removed' = removed /\ faults' = faults /\ updates' = updates
      BY <1>3, Zenon DEF vars
    <2>2. TypeOK'
      BY <2>1, Zenon DEF TypeOK
    <2>3. ASSUME NEW w \in Writers PROVE WriterOK(w)'
      <3>1. WriterOK(w)
        BY Zenon DEF RequestInv
      <3> QED BY <2>1, <3>1, Zenon DEF WriterOK, Updating
    <2>4. RequestInv'
      BY <2>1, <2>3, Zenon DEF RequestInv, CallerOK
    <2> QED BY <2>1, <2>2, <2>4, Zenon DEF StoreStep
  <1> QED BY <1>1, <1>2, <1>3, Zenon

\* Every variable keeps its type: in particular no record an interleaving of
\* creates, opens, updates and calls makes carries an epoch past its limit
\* (client.go: open's ErrEpochExhausted).
THEOREM TypeCorrect == Spec => []TypeOK
  <1>1. Init => TypeOK /\ RequestInv
    BY InitInv, Zenon
  <1>2. TypeOK /\ RequestInv /\ [Next]_vars => (TypeOK /\ RequestInv)'
    BY NextKeeps, Zenon
  <1> QED BY <1>1, <1>2, PTL DEF Spec

(***************************************************************************)
(* The detailed specification implements the abstract one.                 *)
(***************************************************************************)

\* VmRecord counts the members of a set as this module does.
LEMMA SameCardinality ==
    ASSUME NEW S PROVE R!Cardinality(S) = Cardinality(S)
  BY Zenon DEF R!Cardinality, Cardinality

\* What a step does to the record is an operation of VmRecord, or nothing.
LEMMA StoreStepRefines ==
    ASSUME StoreStep PROVE [R!Next]_rec
  <1> USE NoRecordAssumption
  <1>1. CASE rec = NoRecord /\ New(rec')
    BY Zenon, <1>1 DEF New, R!Next, R!Create, R!Created, Created, R!Sequences, Sequences,
                R!Epochs, Epochs, R!EpochOf, EpochOf
  <1>2. CASE rec \in Record /\ Change(rec, rec')
    <2>1. rec # NoRecord /\ R!Sequences = Sequences /\ R!Epochs = Epochs
      BY <1>2, Zenon DEF R!Sequences, Sequences, R!Epochs, Epochs
    <2>2. ASSUME NEW nonce \in Writers, NEW joining \in BOOLEAN,
                 CanTake(rec, joining), rec' = Taken(rec, nonce, joining)
          PROVE  R!Take
      BY Zenon, <2>1, <2>2, SameCardinality DEF R!Take, R!CanTake, CanTake, R!Taken, Taken
    <2>3. ASSUME NEW s \in Sequences, NEW keep \in BOOLEAN, NEW journals \in SUBSET Epochs,
                 CanSelect(rec, rec.epoch, s, keep), rec' = Selected(rec, s, keep, journals),
                 ValidJournals(rec')
          PROVE  R!Select
      <3>1. R!CanSelect(rec, rec.epoch, s, keep)
        BY <2>3, SameCardinality, Zenon DEF R!CanSelect, CanSelect, R!IsKept, IsKept, R!Before, Before,
                    R!EpochOf, EpochOf, R!CounterOf, CounterOf
      <3>2. rec' = R!Selected(rec, s, keep, journals) /\ R!ValidJournals(rec')
        BY <2>3, SameCardinality, Zenon DEF R!Selected, Selected, R!ValidJournals, ValidJournals
      <3> QED BY <2>1, <3>1, <3>2, Zenon DEF R!Select
    <2>4. ASSUME NEW s \in Sequences, Admits(rec, s), rec' = WithPin(rec, s)
          PROVE  R!Pin
      <3>1. R!Admits(rec, s) /\ rec' = R!WithPin(rec, s)
        BY <2>4, SameCardinality, Zenon DEF R!Admits, Admits, R!IsPinned, IsPinned, R!WithPin, WithPin
      <3> QED BY <2>1, <3>1, Zenon DEF R!Pin
    <2>5. ASSUME NEW s \in Sequences, CanRelease(rec, s), rec' = WithoutKept(rec, s)
          PROVE  R!Release
      <3>1. R!CanRelease(rec, s) /\ rec' = R!WithoutKept(rec, s)
        BY <2>5, Zenon DEF R!CanRelease, CanRelease, R!IsKept, IsKept, R!IsPinned, IsPinned,
                    R!WithoutKept, WithoutKept
      <3> QED BY <2>1, <3>1, Zenon DEF R!Release
    <2> QED BY <1>2, <2>2, <2>3, <2>4, <2>5, Zenon DEF Change, R!Next
  <1>3. CASE rec \in Record /\ rec' = NoRecord
    BY <1>3, Zenon DEF R!Next, R!Remove
  <1> QED BY <1>1, <1>2, <1>3, Zenon DEF StoreStep

\* Whatever is lost, late or repeated, the record in the store only ever moves by
\* whole operations on the record that was there (control/client.go, all of it).
THEOREM KeepsRecordPromise == Spec => RecordPromise
  <1>1. Init => R!Init
    BY Zenon DEF Init, R!Init
  <1>2. Init => TypeOK /\ RequestInv
    BY InitInv, Zenon
  <1>3. TypeOK /\ RequestInv /\ [Next]_vars => (TypeOK /\ RequestInv)' /\ [R!Next]_rec
    BY NextKeeps, StoreStepRefines, Zenon
  <1> QED BY <1>1, <1>2, <1>3, PTL DEF Spec, RecordPromise, R!Spec

(***************************************************************************)
(* What handles know, as long as the record was not removed.               *)
(***************************************************************************)

\* r is a or a record that operations made of it, as far as a's owner can tell:
\* taken over, or still its own and not gone back.
Follows(a, r) ==
    \/ a.epoch < r.epoch
    \/ /\ a.epoch = r.epoch /\ a.nonce = r.nonce
       /\ ~Before(r.selected, a.selected)
       /\ a.pinned \subseteq r.pinned
       /\ a.created => r.created

HistoryInv ==
    ~removed.ever =>
        /\ \A w \in Writers : handle[w].state # "none" =>
              rec \in Record /\ Follows(handle[w].rec, rec)
        /\ \A w \in Writers : handle[w].state = "fenced" => handle[w].rec.epoch < rec.epoch
        /\ OneHandlePerEpoch

\* The order of sequences is total and transitive.
LEMMA BeforeOrder ==
    ASSUME NEW a \in Sequences, NEW b \in Sequences, NEW c \in Sequences,
           ~Before(b, a), ~Before(c, b)
    PROVE  ~Before(c, a)
  BY LimitsAssumption DEF Before, Sequences, EpochOf, CounterOf, Epochs

\* A change of a record follows it, and Follows is transitive over a change.
LEMMA ChangeFollows ==
    ASSUME NEW a \in Record, NEW r \in Record, NEW n, Change(r, n), Follows(a, r)
    PROVE  Follows(a, n) /\ (a.epoch < r.epoch => a.epoch < n.epoch)
  <1>1. /\ a.epoch \in Nat /\ r.epoch \in Nat
        /\ a.selected \in Sequences /\ r.selected \in Sequences
    BY LimitsAssumption DEF Record, Epochs
  <1>2. ASSUME NEW nonce \in Writers, NEW joining \in BOOLEAN, n = Taken(r, nonce, joining)
        PROVE  n.epoch = r.epoch + 1
    BY <1>2, Zenon DEF Taken, Record
  <1>3. ASSUME NEW s \in Sequences, NEW keep \in BOOLEAN, NEW journals \in SUBSET Epochs,
               CanSelect(r, r.epoch, s, keep), n = Selected(r, s, keep, journals)
        PROVE  Follows(a, n) /\ n.epoch = r.epoch
    <2>1. /\ n.epoch = r.epoch /\ n.nonce = r.nonce /\ n.pinned = r.pinned
          /\ n.selected = s /\ n.created = TRUE
      BY <1>3, Zenon DEF Selected, Record
    <2>2. ~Before(s, r.selected)
      BY <1>3, Zenon DEF CanSelect
    <2> QED BY <1>1, <2>1, <2>2, BeforeOrder, Zenon DEF Follows
  <1>4. ASSUME NEW s \in Sequences, n = WithPin(r, s)
        PROVE  Follows(a, n) /\ n.epoch = r.epoch
    <2>1. /\ n.epoch = r.epoch /\ n.nonce = r.nonce /\ r.pinned \subseteq n.pinned
          /\ n.selected = r.selected /\ n.created = r.created
      BY <1>4, Zenon DEF WithPin, Record
    <2> QED BY <2>1, Zenon DEF Follows
  <1>5. ASSUME NEW s \in Sequences, n = WithoutKept(r, s)
        PROVE  Follows(a, n) /\ n.epoch = r.epoch
    <2>1. /\ n.epoch = r.epoch /\ n.nonce = r.nonce /\ n.pinned = r.pinned
          /\ n.selected = r.selected /\ n.created = r.created
      BY <1>5, Zenon DEF WithoutKept, Record
    <2> QED BY <2>1, Zenon DEF Follows
  <1>6. CASE n.epoch = r.epoch + 1
    BY <1>1, <1>6 DEF Follows
  <1> QED BY <1>2, <1>3, <1>4, <1>5, <1>6, Zenon DEF Change

LEMMA FollowsSelf ==
    ASSUME NEW r \in Record PROVE Follows(r, r)
  <1>1. r.selected \in Sequences
    BY Zenon DEF Record
  <1>2. ~Before(r.selected, r.selected)
    BY <1>1, LimitsAssumption DEF Before, Sequences, EpochOf, CounterOf, Epochs
  <1> QED BY <1>2, Zenon DEF Follows

\* The store's step keeps every handle behind the record.
LEMMA StoreFollows ==
    ASSUME TypeOK, RequestInv, HistoryInv, StoreStep, ~removed'.ever, NEW w \in Writers,
           handle[w].state # "none"
    PROVE  /\ ~removed.ever
           /\ rec' \in Record /\ Follows(handle[w].rec, rec')
           /\ handle[w].state = "fenced" => handle[w].rec.epoch < rec'.epoch
  <1>1. handle[w].rec \in Record
    BY Zenon DEF RequestInv, WriterOK
  <1>2. removed' = removed /\ ~removed.ever
    BY DEF StoreStep
  <1>3. /\ rec \in Record /\ Follows(handle[w].rec, rec)
        /\ handle[w].state = "fenced" => handle[w].rec.epoch < rec.epoch
    BY <1>2, Zenon DEF HistoryInv
  <1>4. rec' = rec \/ Change(rec, rec')
    BY <1>2, <1>3, NoRecordAssumption, SMTT(30) DEF StoreStep
  <1>5. CASE rec' = rec
    BY <1>2, <1>3, <1>5, Zenon
  <1>6. CASE Change(rec, rec')
    BY <1>1, <1>2, <1>3, <1>6, ChangeType, ChangeFollows, Zenon
  <1> QED BY <1>4, <1>5, <1>6, Zenon

LEMMA HistoryKeeps ==
    ASSUME TypeOK, RequestInv, HistoryInv, [Next]_vars
    PROVE  HistoryInv'
  <1> SUFFICES ASSUME ~removed'.ever
               PROVE  /\ \A w \in Writers : handle'[w].state # "none" =>
                            rec' \in Record /\ Follows(handle'[w].rec, rec')
                      /\ \A w \in Writers : handle'[w].state = "fenced" =>
                            handle'[w].rec.epoch < rec'.epoch
                      /\ \A v, w \in Writers :
                            /\ handle'[v].state # "none" /\ handle'[w].state # "none"
                            /\ handle'[v].rec.epoch = handle'[w].rec.epoch
                            => v = w
    BY Zenon DEF HistoryInv, OneHandlePerEpoch
  <1>1. /\ TypeOK' /\ RequestInv' /\ StoreStep
        /\ handle' = handle \/ \E p \in Writers : HandleStep(p)
    BY NextKeeps, Zenon
  <1>2. \A w \in Writers : handle[w].state # "none" =>
          /\ rec' \in Record /\ Follows(handle[w].rec, rec')
          /\ handle[w].state = "fenced" => handle[w].rec.epoch < rec'.epoch
    BY <1>1, StoreFollows, Zenon
  <1>3. \A v, w \in Writers :
          /\ handle[v].state # "none" /\ handle[w].state # "none"
          /\ handle[v].rec.epoch = handle[w].rec.epoch
          => v = w
    BY <1>1, StoreFollows, Zenon DEF HistoryInv, OneHandlePerEpoch
  <1>4. CASE handle' = handle
    BY <1>2, <1>3, <1>4, Zenon
  <1>5. ASSUME NEW p \in Writers, rec' \in Record, rec'.nonce = p, NEW s \in {"open", "closed"},
               handle' = [handle EXCEPT ![p] = [state |-> s, rec |-> rec', etag |-> rec']]
        PROVE  /\ \A w \in Writers : handle'[w].state # "none" => Follows(handle'[w].rec, rec')
               /\ \A w \in Writers : handle'[w].state = "fenced" =>
                     handle'[w].rec.epoch < rec'.epoch
               /\ \A v, w \in Writers :
                     /\ handle'[v].state # "none" /\ handle'[w].state # "none"
                     /\ handle'[v].rec.epoch = handle'[w].rec.epoch
                     => v = w
    <2>1. /\ handle'[p] = [state |-> s, rec |-> rec', etag |-> rec']
          /\ \A v \in Writers \ {p} : handle'[v] = handle[v]
      BY <1>5, Zenon DEF TypeOK
    <2>2. Follows(rec', rec')
      BY <1>5, FollowsSelf, Zenon
    <2>3. \A v \in Writers \ {p} : handle[v].state # "none" => handle[v].rec.epoch # rec'.epoch
      <3> SUFFICES ASSUME NEW v \in Writers \ {p}, handle[v].state # "none",
                          handle[v].rec.epoch = rec'.epoch
                   PROVE  FALSE
        BY Zenon
      <3>1. handle[v].rec.nonce = v /\ handle[v].rec \in Record
        BY Zenon DEF RequestInv, WriterOK
      <3>2. handle[v].rec.epoch \in Nat
        BY <3>1, LimitsAssumption DEF Record, Epochs
      <3> QED BY <1>2, <1>5, <3>1, <3>2 DEF Follows
    <2> QED BY <1>2, <1>3, <2>1, <2>2, <2>3, SMTT(30)
  <1>6. ASSUME NEW p \in Writers, handle[p].state = "open",
               handle' = [handle EXCEPT ![p].state = "closed"]
        PROVE  \A w \in Writers : /\ handle'[w].rec = handle[w].rec
                                  /\ handle'[w].state # "none" => handle[w].state # "none"
                                  /\ handle'[w].state = "fenced" => handle[w].state = "fenced"
    <2>1. handle[p] \in Handle
      BY Zenon DEF TypeOK
    <2>2. /\ handle'[p] = [handle[p] EXCEPT !.state = "closed"]
          /\ \A v \in Writers \ {p} : handle'[v] = handle[v]
      BY <1>6, Zenon DEF TypeOK
    <2>3. handle'[p].rec = handle[p].rec /\ handle'[p].state = "closed"
      BY <2>1, <2>2, Zenon DEF Handle
    <2> QED BY <1>6, <2>2, <2>3, Zenon
  <1>7. ASSUME NEW p \in Writers, handle[p].state # "none", rec' = rec, rec \in Record,
               ~Mine(rec, handle[p].rec.epoch, p),
               handle' = [handle EXCEPT ![p].state = "fenced", ![p].etag = rec]
        PROVE  \A w \in Writers :
                 /\ handle'[w].rec = handle[w].rec
                 /\ handle'[w].state # "none" => handle[w].state # "none"
                 /\ handle'[w].state = "fenced" => handle[w].rec.epoch < rec'.epoch
    <2>1. handle[p] \in Handle
      BY Zenon DEF TypeOK
    <2>2. /\ handle'[p] = [handle[p] EXCEPT !.state = "fenced", !.etag = rec]
          /\ \A v \in Writers \ {p} : handle'[v] = handle[v]
      BY <1>7, Zenon DEF TypeOK
    <2>3. handle'[p].rec = handle[p].rec
      BY <2>1, <2>2, Zenon DEF Handle
    <2>4. handle[p].rec.nonce = p
      BY <1>7, Zenon DEF RequestInv, WriterOK
    <2>5. handle[p].rec.epoch < rec'.epoch
      BY <1>2, <1>7, <2>4, Zenon DEF Follows, Mine
    <2> QED BY Zenon, <1>2, <1>7, <2>2, <2>3, <2>5
  <1>8. CASE \E p \in Writers : HandleStep(p)
    <2>1. PICK p \in Writers : HandleStep(p)
      BY <1>8, Zenon
    <2>2. CASE /\ rec' \in Record /\ rec'.nonce = p
               /\ \E s \in {"open", "closed"} :
                     handle' = [handle EXCEPT ![p] = [state |-> s, rec |-> rec', etag |-> rec']]
      BY Zenon, <1>5, <2>2
    <2>3. CASE /\ handle[p].state = "open"
               /\ handle' = [handle EXCEPT ![p].state = "closed"]
      BY <1>2, <1>3, <1>6, <2>3
    <2>4. CASE /\ handle[p].state # "none"
               /\ rec' = rec /\ rec \in Record /\ ~Mine(rec, handle[p].rec.epoch, p)
               /\ handle' = [handle EXCEPT ![p].state = "fenced", ![p].etag = rec]
      BY Zenon, <1>2, <1>3, <1>7, <2>4
    <2> QED BY <1>4, <2>1, <2>2, <2>3, <2>4, Zenon DEF HandleStep
  <1> QED BY <1>1, <1>4, <1>8, Zenon

\* The whole inductive invariant.
LEMMA Invariance == Spec => [](TypeOK /\ RequestInv /\ HistoryInv)
  <1>1. Init => TypeOK /\ RequestInv
    BY InitInv, Zenon
  <1>2. Init => HistoryInv
    BY DEF Init, HistoryInv, OneHandlePerEpoch, NoHandle
  <1>3. TypeOK /\ RequestInv /\ HistoryInv /\ [Next]_vars => (TypeOK /\ RequestInv /\ HistoryInv)'
    BY NextKeeps, HistoryKeeps, Zenon
  <1> QED BY <1>1, <1>2, <1>3, PTL DEF Spec

\* Until the record is removed, what a handle was told is durable stays so while
\* nobody takes the VM over (Handle.settle, Handle.replace).
THEOREM DurableStays == Spec => [](~removed.ever => TrackedIsDurable)
  <1>1. TypeOK /\ RequestInv /\ HistoryInv => (~removed.ever => TrackedIsDurable)
    <2> SUFFICES ASSUME TypeOK, RequestInv, HistoryInv, ~removed.ever,
                        NEW w \in Writers, handle[w].state # "none", Owns(w)
                 PROVE  /\ ~Before(rec.selected, handle[w].rec.selected)
                        /\ handle[w].rec.pinned \subseteq rec.pinned
                        /\ handle[w].rec.created => rec.created
      BY Zenon DEF TrackedIsDurable
    <2>1. Follows(handle[w].rec, rec) /\ handle[w].rec \in Record
      BY Zenon DEF HistoryInv, RequestInv, WriterOK
    <2>2. rec.epoch = handle[w].rec.epoch /\ handle[w].rec.epoch \in Nat
      BY <2>1, LimitsAssumption, SMTT(30) DEF Owns, Mine, Record, Epochs
    <2> QED BY <2>1, <2>2 DEF Follows
  <1> QED BY <1>1, Invariance, PTL

\* Until the record is removed, only a takeover fences a handle (Handle.replace).
THEOREM FencedOnlyByTakeover == Spec => [](~removed.ever => FencedMeansTakenOver)
  <1>1. TypeOK /\ RequestInv /\ HistoryInv => (~removed.ever => FencedMeansTakenOver)
    <2> SUFFICES ASSUME TypeOK, RequestInv, HistoryInv, ~removed.ever,
                        NEW w \in Writers, handle[w].state = "fenced", Owns(w)
                 PROVE  FALSE
      BY Zenon DEF FencedMeansTakenOver
    <2>1. handle[w].rec.epoch < rec.epoch /\ handle[w].rec \in Record
      BY Zenon DEF HistoryInv, RequestInv, WriterOK
    <2>2. rec.epoch = handle[w].rec.epoch /\ handle[w].rec.epoch \in Nat
      BY <2>1, LimitsAssumption DEF Owns, Mine, Record, Epochs
    <2> QED BY <2>1, <2>2
  <1> QED BY <1>1, Invariance, PTL

\* Of any number of concurrent creates and opens each epoch goes to one handle
\* (Client.open).
THEOREM EachEpochOnce == Spec => []OneHandlePerEpoch
  <1>1. HistoryInv => OneHandlePerEpoch
    BY Zenon DEF HistoryInv, OneHandlePerEpoch
  <1> QED BY <1>1, Invariance, PTL
=============================================================================
